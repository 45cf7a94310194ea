\* Two workers, as Engine starts, and more processables than workers.
SPECIFICATION FairSpec
CONSTANTS
    w1 = w1
    w2 = w2
    p1 = p1
    p2 = p2
    p3 = p3
    Main = Main
    None = None
    Workers <- MCWorkers
    Processables <- MCThreeProcessables
    SpuriousWakeups = TRUE
INVARIANTS
    TypeOK
    PhasesSeparated
    SpinsOnEmptyQueue
    PopsWhatItPerformed
PROPERTIES
    ImplementsBarrier
    FrameEnds
    EveryTaskPerformed
