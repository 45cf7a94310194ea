\* Without spurious wake-ups: the threads' own races suffice.
SPECIFICATION Spec
CONSTANTS
    w1 = w1
    w2 = w2
    p1 = p1
    p2 = p2
    p3 = p3
    Main = Main
    None = None
    Workers <- MCWorkers
    Processables <- MCProcessables
    SpuriousWakeups = FALSE
SYMMETRY Symmetry
INVARIANTS
    NoWorkerSleepsOverWork
\* The program stops when the window is closed.
CHECK_DEADLOCK FALSE
