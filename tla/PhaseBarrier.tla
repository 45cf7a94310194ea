---------------------------- MODULE PhaseBarrier ----------------------------
(***************************************************************************)
(* What the CPU pipeline promises, without its queue, mutexes or condition *)
(* variable: the frame is a cycle of three phases, PREPROCESS, PROCESS and *)
(* RENDER.  Entering a phase makes one task pending for every registered   *)
(* processable; each pending task is performed once, by some thread; and   *)
(* the next phase is entered only when no task is pending or being         *)
(* performed.                                                              *)
(*                                                                         *)
(* Nothing is said about WHICH thread performs a task.  The comments of    *)
(* IProcessable.h do say so, and are not met: see MCProcessableQueue.      *)
(***************************************************************************)
EXTENDS Naturals

CONSTANTS
    Threads,        \* the main thread and the workers
    Processables,   \* the objects the program registers
    NoTask          \* what a thread that performs nothing performs

VARIABLES
    registered,     \* processables registered so far
    phase,          \* the phase the frame is in
    pending,        \* tasks nobody has started
    running         \* running[t]: the task thread t performs, or NoTask

barrierVars == <<registered, phase, pending, running>>

TaskOf(p, f) == [ownerPtr |-> p, function |-> f]

Init ==
    /\ registered = {}
    /\ phase \in {"PREPROCESS", "PROCESS", "RENDER", "NONE"}
    /\ pending = {}
    /\ running = [t \in Threads |-> NoTask]

Idle == pending = {} /\ \A t \in Threads : running[t] = NoTask

Register(p) ==
    /\ Idle
    /\ registered' = registered \cup {p}
    /\ UNCHANGED <<phase, pending, running>>

\* The very first phase is PREPROCESS whatever the uninitialised variable holds.
NextPhase(f) ==
    /\ Idle
    /\ \/ f = "PREPROCESS"
       \/ f = "PROCESS" /\ phase = "PREPROCESS"
       \/ f = "RENDER" /\ phase = "PROCESS"
    /\ phase' = f
    /\ pending' = {TaskOf(p, f) : p \in registered}
    /\ UNCHANGED <<registered, running>>

Begin(t, k) ==
    /\ k \in pending
    /\ running[t] = NoTask
    /\ pending' = pending \ {k}
    /\ running' = [running EXCEPT ![t] = k]
    /\ UNCHANGED <<registered, phase>>

End(t) ==
    /\ running[t] # NoTask
    /\ running' = [running EXCEPT ![t] = NoTask]
    /\ UNCHANGED <<registered, phase, pending>>

Next ==
    \/ \E p \in Processables : Register(p)
    \/ \E f \in {"PREPROCESS", "PROCESS", "RENDER"} : NextPhase(f)
    \/ \E t \in Threads : End(t) \/ \E k \in pending : Begin(t, k)

Spec == Init /\ [][Next]_barrierVars
=============================================================================
