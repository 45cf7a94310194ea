-------------------------- MODULE ProcessableQueue --------------------------
(***************************************************************************)
(* The CPU pipeline: ProcessableQueue, its worker threads, and the main    *)
(* thread running Engine::run().                                           *)
(*                                                                         *)
(* Granularity.  A critical section of queueModificationMutex that only    *)
(* pops or pushes is one step.  The sections of preprocess() and render()  *)
(* keep the mutex while tasks run, so there it is a variable.  Performing  *)
(* a task is two steps, so that overlaps are visible.  The two reads of    *)
(* ifFinished() are two steps; tasksQueue.empty() is read without the      *)
(* mutex, a load of the deque's size that sees a concurrent pop or not,    *)
(* which is the interleaving of one atomic read with the pop.              *)
(***************************************************************************)
EXTENDS Naturals, Sequences, FiniteSets

CONSTANTS
    Workers,        \* threads of activeWorkersVector
    Main,           \* the thread that runs Engine::run()
    Processables,   \* objects derived from IProcessable the program creates
    None,           \* nullptr; also the holder of a free mutex
    SpuriousWakeups \* whether condition_variable::wait() may return unnotified

ASSUME ThreadsAssumption ==
    /\ IsFiniteSet(Workers)
    /\ Main \notin Workers
    /\ None \notin Workers \cup {Main}
    /\ None \notin Processables
    /\ SpuriousWakeups \in BOOLEAN

VARIABLES
    processablesList,   \* registered processables, in registration order
    tasksQueue,         \* tasks of this phase nobody has popped
    phase,              \* uninitialised until the first refresh
    queueMutex,         \* holder of queueModificationMutex
    cvMutex,            \* holder of conditionalVariableMutex
    threadsWaiting,     \* the atomic counter
    stage,              \* the ProcessableQueue method main is in or heads for
    pc,                 \* pc[t]: where thread t is
    task                \* task[t]: the task thread t performs, or NoTask

queueVars == <<processablesList, tasksQueue, phase>>
syncVars  == <<queueMutex, cvMutex, threadsWaiting>>
vars      == <<queueVars, syncVars, stage, pc, task>>

Threads   == Workers \cup {Main}
Functions == {"PREPROCESS", "PROCESS", "RENDER"}

\* A default Task(): both pointers null, not performable.
NoTask == [ownerPtr |-> None, function |-> "NONE"]
Performable(k) == k.ownerPtr # None /\ k.function # "NONE"

At(t, l) == pc[t] = l
Goto(t, l) == pc' = [pc EXCEPT ![t] = l]

-----------------------------------------------------------------------------
(* Queue operations *)

\* ProcessableQueue(n): the workers have started, none has reached its mutex.
Init ==
    /\ processablesList = <<>>
    /\ tasksQueue = <<>>
    /\ phase \in Functions \cup {"NONE"}
    /\ queueMutex = None
    /\ cvMutex = None
    /\ threadsWaiting = 0
    /\ stage = "PREPROCESS"
    /\ pc = [t \in Threads |-> IF t = Main THEN "setup" ELSE "lock"]
    /\ task = [t \in Threads |-> NoTask]

\* IProcessable's constructor sets all three implementation bits, so every
\* ifDefined...() test of the switch is true.
TasksOf(f) ==
    [i \in 1..Len(processablesList) |->
        [ownerPtr |-> processablesList[i], function |-> f]]

\* Mutants: popping without the mutex; returning front() without pop().
GetNextTaskUnlocked(t) ==
    IF tasksQueue = <<>>
    THEN task' = [task EXCEPT ![t] = NoTask] /\ UNCHANGED tasksQueue
    ELSE task' = [task EXCEPT ![t] = Head(tasksQueue)] /\ tasksQueue' = Tail(tasksQueue)
GetNextTaskKept(t) ==
    /\ queueMutex = None
    /\ task' = [task EXCEPT ![t] = IF tasksQueue = <<>> THEN NoTask ELSE Head(tasksQueue)]
    /\ UNCHANGED tasksQueue

\* getNextTask(): thread t holds the popped task, or NoTask.
GetNextTask(t) ==
    /\ queueMutex = None
    /\ \/ /\ tasksQueue = <<>>
          /\ task' = [task EXCEPT ![t] = NoTask]
          /\ UNCHANGED tasksQueue
       \/ /\ tasksQueue # <<>>
          /\ task' = [task EXCEPT ![t] = Head(tasksQueue)]
          /\ tasksQueue' = Tail(tasksQueue)

\* The assignment to phase, which no other thread reads, and refreshQueue().
RefreshQueue ==
    /\ queueMutex = None
    /\ phase' = stage
    /\ tasksQueue' = tasksQueue \o TasksOf(stage)

\* Mutants: ifFinished() that ignores the queue; that accepts any waiting thread.
QueueIgnored == TRUE
AnyThreadWaiting == threadsWaiting > 0

\* ifFinished(), first operand and then, if it was true, the second.
QueueSeenEmpty == tasksQueue = <<>>
AllThreadsWaiting == threadsWaiting = Cardinality(Workers)

-----------------------------------------------------------------------------
(* startWorkerCycle() *)

\* Mutant: the wait is not counted.
EnterWaitUncounted(w) ==
    /\ At(w, "lock") /\ cvMutex = None
    /\ cvMutex' = w
    /\ Goto(w, "entering")
    /\ UNCHANGED <<queueVars, queueMutex, threadsWaiting, stage, task>>

\* The guard is locked and ++threadsWaiting executed with the mutex held.
EnterWait(w) ==
    /\ At(w, "lock") /\ cvMutex = None
    /\ cvMutex' = w
    /\ threadsWaiting' = threadsWaiting + 1
    /\ Goto(w, "entering")
    /\ UNCHANGED <<queueVars, queueMutex, stage, task>>

\* wait() releases the mutex and blocks in one atomic step.
Wait(w) ==
    /\ At(w, "entering")
    /\ cvMutex' = None
    /\ Goto(w, "blocked")
    /\ UNCHANGED <<queueVars, queueMutex, threadsWaiting, stage, task>>

\* wait() has no predicate: it may return although nobody notified.
SpuriousWakeup(w) ==
    /\ SpuriousWakeups /\ At(w, "blocked")
    /\ Goto(w, "woken")
    /\ UNCHANGED <<queueVars, syncVars, stage, task>>

\* wait() takes the mutex again and the guard is unlocked at once.
Resume(w) ==
    /\ At(w, "woken") /\ cvMutex = None
    /\ Goto(w, "resumed")
    /\ UNCHANGED <<queueVars, syncVars, stage, task>>

\* Outside the mutex: until this step a woken worker counts as waiting.
StopWaiting(w) ==
    /\ At(w, "resumed")
    /\ threadsWaiting' = threadsWaiting - 1
    /\ Goto(w, "getTask")
    /\ UNCHANGED <<queueVars, queueMutex, cvMutex, stage, task>>

TakeTask(w) ==
    /\ At(w, "getTask")
    /\ GetNextTask(w)
    /\ Goto(w, IF Performable(task'[w]) THEN "perform" ELSE "lock")
    /\ UNCHANGED <<processablesList, phase, syncVars, stage>>

FinishTask(w) ==
    /\ At(w, "perform")
    /\ task' = [task EXCEPT ![w] = NoTask]
    /\ Goto(w, "getTask")
    /\ UNCHANGED <<queueVars, syncVars, stage>>

WorkerStep(w) ==
    \/ EnterWait(w) \/ Wait(w) \/ Resume(w)
    \/ StopWaiting(w) \/ TakeTask(w) \/ FinishTask(w)

-----------------------------------------------------------------------------
(* The main thread: registration, then the loop of Engine::run() *)

\* registerProcessable() -> pushProcessable(); the program registers an object
\* once, from its constructor, before run().
PushProcessable(p) ==
    /\ At(Main, "setup") /\ queueMutex = None
    /\ \A i \in 1..Len(processablesList) : processablesList[i] # p
    /\ processablesList' = Append(processablesList, p)
    /\ UNCHANGED <<tasksQueue, phase, syncVars, stage, pc, task>>

\* The test of glfwWindowShouldClose(); before the first frame it is also the
\* test for a camera, whose failure ends run() as a closed window does.
EnterLoop ==
    /\ pc[Main] \in {"setup", "loop"}
    /\ \E l \in {"publish", "closed"} : Goto(Main, l)
    /\ UNCHANGED <<queueVars, syncVars, stage, task>>

\* messageBus.publish() returns; preprocess() is called.
Publish ==
    /\ At(Main, "publish")
    /\ stage' = "PREPROCESS"
    /\ Goto(Main, "empty")
    /\ UNCHANGED <<queueVars, syncVars, task>>

\* Mutant: run() only waits for the workers and performs nothing itself.
NotFinishedSpins == "empty"

\* Where a false ifFinished() leads: the drain loop of run() performs a task,
\* the spin loops of the three methods only test again.
NotFinished == IF stage = "DRAIN" THEN "next" ELSE "empty"

ReadEmpty ==
    /\ At(Main, "empty")
    /\ Goto(Main, IF QueueSeenEmpty THEN "waiting" ELSE NotFinished)
    /\ UNCHANGED <<queueVars, syncVars, stage, task>>

\* After the drain loop render() is called and tests ifFinished() again.
ReadThreadsWaiting ==
    /\ At(Main, "waiting")
    /\ IF AllThreadsWaiting
       THEN /\ stage' = IF stage = "DRAIN" THEN "RENDER" ELSE stage
            /\ Goto(Main, CASE stage = "DRAIN"   -> "empty"
                            [] stage = "PROCESS" -> "lockCv"
                            [] OTHER             -> "refresh")
       ELSE Goto(Main, NotFinished) /\ UNCHANGED stage
    /\ UNCHANGED <<queueVars, syncVars, task>>

\* process() takes the condition variable's mutex around the refresh ...
LockCv ==
    /\ At(Main, "lockCv") /\ cvMutex = None
    /\ cvMutex' = Main
    /\ Goto(Main, "refresh")
    /\ UNCHANGED <<queueVars, queueMutex, threadsWaiting, stage, task>>

Refresh ==
    /\ At(Main, "refresh")
    /\ RefreshQueue
    /\ Goto(Main, IF stage = "PROCESS" THEN "unlockCv" ELSE "lockQueue")
    /\ UNCHANGED <<processablesList, syncVars, stage, task>>

UnlockCv ==
    /\ At(Main, "unlockCv")
    /\ cvMutex' = None
    /\ Goto(Main, "notify")
    /\ UNCHANGED <<queueVars, queueMutex, threadsWaiting, stage, task>>

\* ... and notifies after releasing it; run() then enters its drain loop.
NotifyAll ==
    /\ At(Main, "notify")
    /\ pc' = [t \in Threads |->
                CASE t = Main           -> "empty"
                  [] pc[t] = "blocked" -> "woken"
                  [] OTHER              -> pc[t]]
    /\ stage' = "DRAIN"
    /\ UNCHANGED <<queueVars, syncVars, task>>

\* preprocess() and render() lock the queue in a second critical section:
\* between the two a worker may pop.
LockQueue ==
    /\ At(Main, "lockQueue") /\ queueMutex = None
    /\ queueMutex' = Main
    /\ Goto(Main, "front")
    /\ UNCHANGED <<queueVars, cvMutex, threadsWaiting, stage, task>>

PerformFront ==
    /\ At(Main, "front") /\ tasksQueue # <<>>
    /\ task' = [task EXCEPT ![Main] = Head(tasksQueue)]
    /\ Goto(Main, "performFront")
    /\ UNCHANGED <<queueVars, syncVars, stage>>

\* Mutant: the performed task stays at the front.
PopFrontKept ==
    /\ At(Main, "performFront")
    /\ task' = [task EXCEPT ![Main] = NoTask]
    /\ Goto(Main, "front")
    /\ UNCHANGED <<queueVars, syncVars, stage>>

PopFront ==
    /\ At(Main, "performFront")
    /\ task' = [task EXCEPT ![Main] = NoTask]
    /\ tasksQueue' = Tail(tasksQueue)
    /\ Goto(Main, "front")
    /\ UNCHANGED <<processablesList, phase, syncVars, stage>>

\* Mutant: the loop may stop early.
UnlockQueueEarly ==
    /\ At(Main, "front")
    /\ queueMutex' = None
    /\ \/ stage = "PREPROCESS" /\ stage' = "PROCESS" /\ Goto(Main, "empty")
       \/ stage = "RENDER" /\ Goto(Main, "loop") /\ UNCHANGED stage
    /\ UNCHANGED <<queueVars, cvMutex, threadsWaiting, task>>

\* The loop ends: preprocess() is followed by process(), render() by the rest
\* of the frame (ImGui::Render, swap, poll).
UnlockQueue ==
    /\ At(Main, "front") /\ tasksQueue = <<>>
    /\ queueMutex' = None
    /\ \/ stage = "PREPROCESS" /\ stage' = "PROCESS" /\ Goto(Main, "empty")
       \/ stage = "RENDER" /\ Goto(Main, "loop") /\ UNCHANGED stage
    /\ UNCHANGED <<queueVars, cvMutex, threadsWaiting, task>>

\* processNext(), called by the drain loop.
ProcessNext ==
    /\ At(Main, "next")
    /\ GetNextTask(Main)
    /\ Goto(Main, IF Performable(task'[Main]) THEN "perform" ELSE "empty")
    /\ UNCHANGED <<processablesList, phase, syncVars, stage>>

FinishNext ==
    /\ At(Main, "perform")
    /\ task' = [task EXCEPT ![Main] = NoTask]
    /\ Goto(Main, "empty")
    /\ UNCHANGED <<queueVars, syncVars, stage>>

MainStep ==
    \/ EnterLoop \/ Publish \/ ReadEmpty \/ ReadThreadsWaiting
    \/ LockCv \/ Refresh \/ UnlockCv \/ NotifyAll
    \/ LockQueue \/ PerformFront \/ PopFront \/ UnlockQueue
    \/ ProcessNext \/ FinishNext

Next ==
    \/ \E p \in Processables : PushProcessable(p)
    \/ MainStep
    \/ \E w \in Workers : WorkerStep(w) \/ SpuriousWakeup(w)

Spec == Init /\ [][Next]_vars

(* Liveness: every thread that can step does, no lock is favoured over      *)
(* another, tasks end, and spurious wake-ups do not go on for ever.         *)
FairSpec ==
    /\ Spec
    /\ WF_vars(MainStep)
    /\ \A w \in Workers : WF_vars(WorkerStep(w))
    /\ <>[][~ \E w \in Workers : SpuriousWakeup(w)]_vars

-----------------------------------------------------------------------------
(* Properties *)

Tasks == [ownerPtr : Processables, function : Functions]
WorkerPc == {"lock", "entering", "blocked", "woken", "resumed", "getTask", "perform"}
MainPc == {"setup", "loop", "closed", "publish", "empty", "waiting", "lockCv",
           "refresh", "unlockCv", "notify", "lockQueue", "front",
           "performFront", "next", "perform"}

\* The type of the state: tasks of one phase in the queue, locks held by
\* threads, the counter a natural number (it is never decremented below 0).
TypeOK ==
    /\ processablesList \in Seq(Processables)
    /\ tasksQueue \in Seq(Tasks)
    /\ phase \in Functions \cup {"NONE"}
    /\ queueMutex \in {Main, None}
    /\ cvMutex \in Threads \cup {None}
    /\ threadsWaiting \in Nat
    /\ stage \in Functions \cup {"DRAIN"}
    /\ pc \in [Threads -> WorkerPc \cup MainPc]
    /\ task \in [Threads -> Tasks \cup {NoTask}]

\* Workers between ++threadsWaiting and --threadsWaiting: the two that have not
\* blocked yet and have been woken already are counted too.
Counted == {w \in Workers : pc[w] \in {"entering", "blocked", "woken", "resumed"}}

\* The atomic counter is the number of counted workers, whatever the order of
\* the threads' increments and decrements.
WaitingCounted == threadsWaiting = Cardinality(Counted)

\* Barrier between phases: while any task is performed by any thread, it is of
\* the phase the last refreshQueue() was for, and outside the window from
\* process() to the end of the drain loop no process() is running: not while
\* the message bus publishes, not while preprocess() or render() tasks run.
PhasesSeparated ==
    /\ \A t \in Threads : task[t] # NoTask => task[t].function = phase
    /\ (\E t \in Threads : task[t].function = "PROCESS") =>
            \/ stage = "DRAIN"
            \/ stage = "PROCESS" /\ pc[Main] \in {"unlockCv", "notify"}

\* The three spin loops `while (!ifFinished());` read tasksQueue without its
\* mutex; they run only when the queue is empty, so nothing can modify what
\* they read and the loop waits for the atomic counter alone.
SpinsOnEmptyQueue ==
    stage # "DRAIN" /\ pc[Main] \in {"empty", "waiting"} => tasksQueue = <<>>

\* preprocess() and render() perform front() and pop() afterwards: what they
\* pop is the task they performed, since the mutex keeps the workers out.
PopsWhatItPerformed ==
    pc[Main] = "performFront" =>
        /\ queueMutex = Main
        /\ tasksQueue # <<>> /\ Head(tasksQueue) = task[Main]

\* refreshQueue() adds tasks only when no task is queued or being performed.
RefreshWhenIdle ==
    [][Len(tasksQueue') > Len(tasksQueue) =>
        tasksQueue = <<>> /\ \A t \in Threads : task[t] = NoTask]_vars

\* The queue implements the abstract barrier: every registered processable is
\* performed exactly once per phase.  The task main performs from the front is
\* still in the queue, but no longer pending.
PendingQueue == IF pc[Main] = "performFront" THEN Tail(tasksQueue) ELSE tasksQueue
InSequence(s) == {s[i] : i \in 1..Len(s)}

Barrier == INSTANCE PhaseBarrier WITH
    registered <- InSequence(processablesList),
    pending    <- InSequence(PendingQueue),
    running    <- task

ImplementsBarrier == Barrier!Spec

\* A frame that has begun ends: no spin loop waits for ever.
FrameEnds == pc[Main] = "publish" ~> pc[Main] = "loop"

\* A task that is queued is performed.
EveryTaskPerformed ==
    \A p \in Processables, f \in Functions :
        LET k == Barrier!TaskOf(p, f)
        IN  k \in InSequence(tasksQueue) ~>
                k \notin InSequence(tasksQueue) /\ \A t \in Threads : task[t] # k

-----------------------------------------------------------------------------
(* What comments of the source say and the code does not do *)

\* IProcessable.h:42, of render(): "performed in main thread".
RenderInMainThread == \A w \in Workers : task[w].function # "RENDER"

\* ProcessableQueue.cpp:174: "Notify all threads about the event".  Once process()
\* has notified, a worker is on the condition variable, or on its way to it,
\* only if there is nothing left to pop.
NoWorkerSleepsOverWork ==
    stage = "DRAIN" /\ tasksQueue # <<>> =>
        \A w \in Workers : pc[w] \in {"woken", "resumed", "getTask", "perform"}
=============================================================================
