------------------------- MODULE EngineFrameProofs --------------------------
(***************************************************************************)
(* Proofs about EngineFrame, for any number of workers and any objects.    *)
(* The invariant of the queue (Inv, Distinct) tells when process() tasks   *)
(* exist; LinkInv ties the bus's view of each process() to them.           *)
(***************************************************************************)
EXTENDS EngineFrame, ProcessableQueueProofs

States == {"setup", "due", "running", "reading", "done", "never"}

\* main() has registered all objects when the loop begins.
SetupState ==
    /\ pc[Main] = "setup" => \A m \in Messangers : processing[m] = "setup"
    /\ pc[Main] # "setup" => Pushed = Processables
    /\ Pushed \cap Messangers \subseteq Bus!Registered

\* Where the process() of m is, by where the main thread is: "setup" until the
\* first publish(), due before the refresh of the PROCESS phase, done after
\* the drain loop.
Progress(m) ==
    /\ pc[Main] \in {"loop", "publish", "closed"} => processing[m] \in {"setup", "done"}
    /\ ProcessDue => processing[m] = "due"
    /\ DrainWindow => processing[m] \in {"due", "running", "reading", "done"}
    /\ stage = "RENDER" => processing[m] = "done"

\* Its task: queued exactly while due, then performed by one thread until done.
TaskLink(m) ==
    /\ processing[m] = "due" /\ DrainWindow => ProcessTask(m) \in InSequence(tasksQueue)
    /\ ProcessTask(m) \in InSequence(tasksQueue) => processing[m] = "due"
    /\ processing[m] \in {"running", "reading"} <=> \E t \in Threads : task[t] = ProcessTask(m)
    /\ \A t, u \in Threads : task[t] = ProcessTask(m) /\ task[u] = ProcessTask(m) => t = u

LinkInv ==
    /\ messangersList \in Seq(Messangers)
    /\ processing \in [Messangers -> States]
    /\ emitting = [m \in Messangers |-> <<>>]
    /\ SetupState
    /\ \A m \in Messangers : Progress(m) /\ TaskLink(m)

-----------------------------------------------------------------------------
(* Steps of the program are steps of the queue *)

\* Each step of the program is a step of the queue or leaves it alone.
LEMMA FrameStepsQueue == [FrameNext]_frameVars => [Next]_vars
<1> SUFFICES ASSUME FrameNext PROVE Next \/ UNCHANGED vars
  BY DEF frameVars
<1>1. ASSUME NEW t \in Threads, Take(t) \/ Finish(t) PROVE Next
  BY <1>1 DEF Take, Finish, Next, MainStep, WorkerStep, Threads
<1>2. ASSUME NEW t \in Threads, QueueStep(t) PROVE Next
  BY <1>2 DEF QueueStep, Next, MainStep, WorkerStep
<1>3. SetupStep \/ Loop \/ PublishBus => Next \/ UNCHANGED vars
  BY DEF SetupStep, Construct, RegisterProcessable, Loop, PublishBus, Next, MainStep
<1>4. ASSUME NEW t \in Threads, Read(t) \/ BeginPrint(t) \/ EndPrint(t) PROVE UNCHANGED vars
  BY <1>4 DEF Read, BeginPrint, EndPrint
<1> QED
  BY <1>1, <1>2, <1>3, <1>4 DEF FrameNext, ThreadStep, WakeUp, Send, Next

\* The state of the queue the other lemmas use, after as well as before a step.
LEMMA QueueFacts ==
    ASSUME Inv
    PROVE  /\ pc[Main] \in MainPc /\ task \in [Threads -> Tasks \cup {NoTask}]
           /\ \A i \in 1..Len(tasksQueue) : tasksQueue[i].function = phase
           /\ tasksQueue # <<>> =>
                \/ stage = "DRAIN" /\ pc[Main] \in {"empty", "next", "perform"}
                \/ pc[Main] \in {"unlockCv", "notify", "lockQueue", "front", "performFront"}
           /\ \A t \in Threads : task[t].function = "PROCESS" => DrainWindow
           /\ Len(tasksQueue) \in Nat
BY LenProperties DEF Inv, TypeOK, ThreadState, QueueState, PhasesSeparated, DrainWindow

-----------------------------------------------------------------------------
(* Steps that leave the bus alone *)

\* The tasks of a messanger, when threads do not take or end a process().
LEMMA SameTasks ==
    ASSUME NEW m \in Messangers, TaskLink(m), UNCHANGED processing,
           \A t \in Threads : task'[t] = ProcessTask(m) <=> task[t] = ProcessTask(m),
           ProcessTask(m) \in InSequence(tasksQueue)' <=> ProcessTask(m) \in InSequence(tasksQueue),
           DrainWindow' => DrainWindow
    PROVE  TaskLink(m)'
BY DEF TaskLink, ProcessTask

\* A step of a worker on its way to a task and back.
LEMMA WorkerLink ==
    ASSUME Inv, LinkInv, NEW w \in Workers,
           EnterWait(w) \/ Wait(w) \/ SpuriousWakeup(w) \/ Resume(w) \/ StopWaiting(w),
           UNCHANGED busVars
    PROVE  LinkInv'
<1>1. /\ UNCHANGED <<processablesList, tasksQueue, task, stage>> /\ pc'[Main] = pc[Main]
  BY ThreadsAssumption DEF EnterWait, Wait, SpuriousWakeup, Resume, StopWaiting, Goto, queueVars,
        Inv, TypeOK, Threads
<1>2. UNCHANGED <<messangersList, processing, emitting>>
  BY DEF busVars
<1> QED
  BY <1>1, <1>2 DEF LinkInv, SetupState, Progress, TaskLink, Pushed, InSequence, Bus!Registered,
        ProcessDue, DrainWindow, ProcessTask

\* The main thread's own steps between one task and the next.
LEMMA MainLink ==
    ASSUME Inv, LinkInv, UNCHANGED busVars,
           ReadEmpty \/ ReadThreadsWaiting \/ LockCv \/ UnlockCv \/ NotifyAll \/ LockQueue \/ UnlockQueue
    PROVE  LinkInv'
<1> USE DEF At, Goto
<1>0. /\ UNCHANGED <<processablesList, tasksQueue, task, messangersList, processing, emitting>>
      /\ pc \in [Threads -> WorkerPc \cup MainPc] /\ Main \in Threads
  BY DEF ReadEmpty, ReadThreadsWaiting, LockCv, UnlockCv, NotifyAll, LockQueue, UnlockQueue,
        queueVars, busVars, Inv, TypeOK, Threads
<1>1. pc[Main] \notin {"setup", "closed", "loop", "publish"} /\ pc'[Main] \notin {"setup", "closed", "publish"}
  BY <1>0 DEF ReadEmpty, ReadThreadsWaiting, LockCv, UnlockCv, NotifyAll, LockQueue, UnlockQueue, NotFinished
<1>2. SetupState'
  BY <1>0, <1>1 DEF LinkInv, SetupState, Pushed, InSequence, Bus!Registered
<1>3. ASSUME NEW m \in Messangers PROVE Progress(m)' /\ TaskLink(m)'
  <2> USE <1>0, <1>1, <1>3
  <2>0. Progress(m) /\ TaskLink(m)
    BY DEF LinkInv
  <2>1. CASE ReadThreadsWaiting /\ stage = "DRAIN" /\ AllThreadsWaiting
    <3>1. tasksQueue = <<>> /\ \A t \in Threads : task[t] = NoTask
      BY <2>1, AllCounted DEF Inv, QueueState, ThreadState, ReadThreadsWaiting, Threads
    <3>2. NoTask # ProcessTask(m)
      BY DEF NoTask, ProcessTask
    <3>3. processing[m] = "done" /\ DrainWindow
      BY <2>0, <2>1, <3>1, <3>2 DEF Progress, TaskLink, DrainWindow, InSequence
    <3>4. Progress(m)'
      BY <2>1, <3>3 DEF Progress, ReadThreadsWaiting, ProcessDue, DrainWindow
    <3>5. TaskLink(m)'
      BY <2>0, <3>3, SameTasks DEF InSequence
    <3> QED
      BY <3>4, <3>5
  <2>2. ASSUME ProcessDue' => ProcessDue, DrainWindow' <=> DrainWindow,
               stage' = "RENDER" => stage = "RENDER", pc'[Main] = "loop" => stage = "RENDER"
        PROVE  Progress(m)' /\ TaskLink(m)'
    <3>1. Progress(m)'
      BY <2>0, <2>2 DEF Progress
    <3> QED
      BY <2>0, <2>2, <3>1, SameTasks DEF InSequence
  <2>3. CASE ReadEmpty \/ (ReadThreadsWaiting /\ ~ (stage = "DRAIN" /\ AllThreadsWaiting))
    BY <2>2, <2>3 DEF ReadEmpty, ReadThreadsWaiting, NotFinished, ProcessDue, DrainWindow, Inv, StageState
  <2>4. CASE LockCv \/ UnlockCv
    BY <2>2, <2>4 DEF LockCv, UnlockCv, ProcessDue, DrainWindow, Inv, StageState
  <2>5. CASE NotifyAll
    BY <2>2, <2>5 DEF NotifyAll, ProcessDue, DrainWindow, Inv, StageState
  <2>6. CASE LockQueue
    BY <2>2, <2>6 DEF LockQueue, ProcessDue, DrainWindow, Inv, StageState
  <2>7. CASE UnlockQueue
    BY <2>2, <2>7 DEF UnlockQueue, ProcessDue, DrainWindow, Inv, StageState
  <2> QED
    BY <2>1, <2>3, <2>4, <2>5, <2>6, <2>7
<1> QED
  BY <1>0, <1>2, <1>3 DEF LinkInv

\* The refresh of the PROCESS phase queues the process() of every messanger,
\* when all are due; the other two queue no process().
LEMMA RefreshLink ==
    ASSUME Inv, LinkInv, Refresh, UNCHANGED busVars
    PROVE  LinkInv'
<1> USE DEF At, Goto, Refresh, RefreshQueue
<1>0. /\ UNCHANGED <<processablesList, task, stage, messangersList, processing, emitting>>
      /\ pc \in [Threads -> WorkerPc \cup MainPc] /\ Main \in Threads
      /\ pc[Main] = "refresh" /\ stage \in Functions /\ tasksQueue = <<>>
      /\ pc'[Main] = IF stage = "PROCESS" THEN "unlockCv" ELSE "lockQueue"
  BY DEF busVars, Inv, TypeOK, Threads, StageState, QueueState
<1>1. SetupState'
  BY <1>0 DEF LinkInv, SetupState, Pushed, InSequence, Bus!Registered
<1>2. processablesList \in Seq(Processables) /\ Len(processablesList) \in Nat
  BY LenProperties DEF Inv, TypeOK
<1>3. tasksQueue' = TasksOf(stage)
  <2>1. TasksOf(stage) \in Seq(Tasks)
    BY <1>0, <1>2 DEF TasksOf, Tasks
  <2> QED
    BY <1>0, <2>1, ConcatEmptySeq
<1>4. InSequence(tasksQueue)' = {[ownerPtr |-> p, function |-> stage] : p \in Pushed}
  <2>1. Len(TasksOf(stage)) = Len(processablesList)
    BY <1>2 DEF TasksOf
  <2> QED
    BY <1>3, <2>1 DEF TasksOf, InSequence, Pushed
<1>5. ASSUME NEW m \in Messangers PROVE Progress(m)' /\ TaskLink(m)'
  <2>1. Progress(m) /\ TaskLink(m) /\ m \in Pushed
    BY <1>0, FrameAssumption DEF LinkInv, SetupState
  <2>2. \A t \in Threads : task[t] # ProcessTask(m)
    BY <1>0, <2>1 DEF Inv, IdleState, AllIdle, NoTask, ProcessTask
  <2>3. CASE stage = "PROCESS"
    <3>1. processing[m] = "due" /\ ProcessTask(m) \in InSequence(tasksQueue)'
      BY <1>0, <1>4, <2>1, <2>3 DEF Progress, ProcessDue, DrainWindow, ProcessTask
    <3> QED
      BY <1>0, <2>1, <2>2, <2>3, <3>1 DEF Progress, TaskLink, ProcessDue, DrainWindow, ProcessTask
  <2>4. CASE stage # "PROCESS"
    <3>1. ProcessTask(m) \notin InSequence(tasksQueue)' /\ ~ DrainWindow'
      BY <1>0, <1>4, <2>4 DEF ProcessTask, DrainWindow, Functions
    <3>2. Progress(m)'
      BY <1>0, <2>1, <2>4 DEF Progress, ProcessDue, DrainWindow, Functions
    <3> QED
      BY <1>0, <2>1, <2>2, <3>1, <3>2 DEF TaskLink, ProcessTask
  <2> QED
    BY <2>3, <2>4
<1> QED
  BY <1>0, <1>1, <1>5 DEF LinkInv

\* What preprocess() and render() perform from the front is no process().
LEMMA FrontLink ==
    ASSUME Inv, LinkInv, PerformFront \/ PopFront, UNCHANGED busVars
    PROVE  LinkInv'
<1> USE DEF At, Goto
<1>0. /\ UNCHANGED <<processablesList, stage, messangersList, processing, emitting>>
      /\ pc \in [Threads -> WorkerPc \cup MainPc] /\ task \in [Threads -> Tasks \cup {NoTask}]
      /\ Main \in Threads /\ tasksQueue # <<>>
      /\ pc[Main] \in {"front", "performFront"} /\ pc'[Main] \in {"front", "performFront"}
      /\ stage \in {"PREPROCESS", "RENDER"} /\ phase = stage
  BY DEF PerformFront, PopFront, queueVars, busVars, Inv, TypeOK, Threads, StageState, PopsWhatItPerformed
<1>1. SetupState'
  BY <1>0 DEF LinkInv, SetupState, Pushed, InSequence, Bus!Registered
<1>2. ASSUME NEW m \in Messangers PROVE Progress(m)' /\ TaskLink(m)'
  <2>1. Progress(m) /\ TaskLink(m)
    BY DEF LinkInv
  <2>2. \A i \in 1..Len(tasksQueue) : tasksQueue[i] # ProcessTask(m)
    BY <1>0 DEF Inv, QueueState, ProcessTask
  <2>3. ProcessTask(m) \notin InSequence(tasksQueue) /\ Head(tasksQueue) # ProcessTask(m)
    BY <1>0, <2>2, FrontTask DEF Inv, InSequence
  <2>4. \A i \in 1..Len(Tail(tasksQueue)) : Tail(tasksQueue)[i] # ProcessTask(m)
    BY <1>0, <2>2, FrontTask DEF Inv
  <2>5. ProcessTask(m) \notin InSequence(tasksQueue)'
    BY <2>3, <2>4 DEF PerformFront, PopFront, queueVars, InSequence
  <2>6. NoTask # ProcessTask(m)
    BY DEF NoTask, ProcessTask
  <2>7. task[Main] # ProcessTask(m)
    BY <1>0, <2>3, <2>6 DEF Inv, ThreadState, PopsWhatItPerformed, MainPc
  <2>8. \A t \in Threads : task'[t] = ProcessTask(m) <=> task[t] = ProcessTask(m)
    BY <1>0, <2>3, <2>6, <2>7 DEF PerformFront, PopFront
  <2>9. Progress(m)'
    BY <1>0, <2>1 DEF Progress, ProcessDue, DrainWindow
  <2> QED
    BY <1>0, <2>1, <2>3, <2>5, <2>8, <2>9, SameTasks DEF DrainWindow
<1> QED
  BY <1>0, <1>1, <1>2 DEF LinkInv

-----------------------------------------------------------------------------
(* Steps of the queue and of the bus at once *)

\* publish() finds every process() of the last frame done, and makes all due.
LEMMA PublishLink ==
    ASSUME Inv, LinkInv, PublishBus
    PROVE  LinkInv' /\ Bus!Publish
<1>0. /\ At(Main, "publish") /\ stage' = "PREPROCESS" /\ pc'[Main] = "empty"
      /\ UNCHANGED <<processablesList, tasksQueue, task, messangersList, emitting>>
      /\ Main \in Threads
  BY DEF PublishBus, Publish, Goto, queueVars, Inv, TypeOK, Threads, Bus!PublishMessages, Bus!tables
<1>1. Pushed = Processables /\ Bus!Registered = Messangers
  BY <1>0, FrameAssumption DEF At, LinkInv, SetupState, Bus!Registered
<1>2. processing' = [m \in Messangers |-> "due"]
  BY <1>1 DEF PublishBus, Bus!PublishMessages
<1>3. Bus!Publish
  BY <1>0, <1>1 DEF At, LinkInv, Progress, PublishBus, Bus!Publish, Bus!PublishDue
<1>4. SetupState'
  BY <1>0, <1>1 DEF SetupState, LinkInv, Pushed, InSequence, Bus!Registered
<1>5. ASSUME NEW m \in Messangers PROVE Progress(m)' /\ TaskLink(m)'
  <2>1. ~ DrainWindow' /\ ~ DrainWindow /\ tasksQueue = <<>>
    BY <1>0 DEF At, DrainWindow, Inv, StageState, QueueState
  <2>2. \A t \in Threads : task'[t] # ProcessTask(m)
    BY <1>0, <2>1, QueueFacts DEF ProcessTask
  <2>3. ProcessTask(m) \notin InSequence(tasksQueue)'
    BY <1>0, <2>1 DEF InSequence
  <2> QED
    BY <1>0, <1>2, <2>1, <2>2, <2>3 DEF Progress, TaskLink, ProcessTask
<1> QED
  BY <1>0, <1>2, <1>3, <1>4, <1>5 DEF LinkInv, States

\* Where a thread takes or ends a task, the main thread stays in its window.
LEMMA SameWindow ==
    ASSUME Inv, NEW t \in Threads, Take(t) \/ Finish(t)
    PROVE  /\ UNCHANGED <<processablesList, stage>>
           /\ pc'[Main] = "setup" <=> pc[Main] = "setup"
           /\ pc'[Main] \in {"loop", "publish", "closed"} <=> pc[Main] \in {"loop", "publish", "closed"}
           /\ (ProcessDue' <=> ProcessDue) /\ (DrainWindow' <=> DrainWindow)
           /\ task \in [Threads -> Tasks \cup {NoTask}]
<1>1. pc \in [Threads -> WorkerPc \cup MainPc] /\ Main \in Threads /\ task \in [Threads -> Tasks \cup {NoTask}]
  BY DEF Inv, TypeOK, Threads
<1>2. CASE t # Main
  <2>1. t \in Workers /\ (TakeTask(t) \/ FinishTask(t))
    BY <1>2 DEF Take, Finish, Threads
  <2>2. UNCHANGED <<processablesList, stage>> /\ pc'[Main] = pc[Main]
    BY <1>1, <1>2, <2>1 DEF TakeTask, FinishTask, Goto, queueVars
  <2> QED
    BY <1>1, <2>2 DEF ProcessDue, DrainWindow
<1>3. CASE t = Main
  <2>1. ProcessNext \/ FinishNext
    BY <1>3 DEF Take, Finish
  <2>2. /\ UNCHANGED <<processablesList, stage>>
        /\ pc[Main] \in {"next", "perform"} /\ pc'[Main] \in {"perform", "empty"}
    BY <1>1, <2>1 DEF ProcessNext, FinishNext, At, Goto, queueVars
  <2>3. stage = "DRAIN"
    BY <2>2 DEF Inv, StageState
  <2> QED
    BY <1>1, <2>2, <2>3 DEF ProcessDue, DrainWindow
<1> QED
  BY <1>2, <1>3

\* A task taken is the front of the queue, or none.
LEMMA TakenTask ==
    ASSUME Inv, Distinct, NEW t \in Threads, Take(t)
    PROVE  /\ task[t] = NoTask
           /\ \A u \in Threads : u # t => task'[u] = task[u]
           /\ InSequence(tasksQueue)' = InSequence(tasksQueue) \ {task'[t]}
           /\ task'[t] # NoTask => task'[t] \in InSequence(tasksQueue)
<1>1. GetNextTask(t) /\ pc[t] \in {"next", "getTask"}
  BY DEF Take, ProcessNext, TakeTask, At
<1>2. task[t] = NoTask /\ TypeOK
  BY <1>1 DEF Inv, ThreadState
<1>3. CASE tasksQueue = <<>>
  BY <1>1, <1>2, <1>3 DEF GetNextTask, InSequence, TypeOK
<1>4. CASE tasksQueue # <<>>
  BY <1>1, <1>2, <1>4, TakenFromFront DEF GetNextTask, TypeOK
<1> QED
  BY <1>2, <1>3, <1>4

\* Each messanger has a process() task of its own, none of them NoTask.
LEMMA OwnTask ==
    /\ \A m, n \in Messangers : ProcessTask(m) = ProcessTask(n) => m = n
    /\ \A m \in Messangers : ProcessTask(m) # NoTask
    /\ \A m \in Messangers : ProcessTask(m).function = "PROCESS"
  BY DEF ProcessTask, NoTask

\* A thread that takes the process() of m finds it due, and is the only one
\* that performs it.
LEMMA TakeLink ==
    ASSUME Inv, Distinct, Inv', LinkInv, NEW t \in Threads, Take(t)
    PROVE  LinkInv' /\ ((\E m \in Messangers : Bus!BeginProcess(m)) \/ UNCHANGED busVars)
<1>0. /\ UNCHANGED <<messangersList, emitting, processablesList, stage>>
      /\ processing \in [Messangers -> States]
  BY SameWindow DEF Take, Bus!StartProcess, Bus!tables, busVars, LinkInv
<1>1. CASE Performed(task'[t]) = {}
  <2>1. UNCHANGED busVars /\ UNCHANGED processing
    BY <1>1 DEF Take, busVars
  <2>2. ASSUME NEW m \in Messangers PROVE Progress(m)' /\ TaskLink(m)'
    <3>1. Progress(m) /\ TaskLink(m) /\ task'[t] # ProcessTask(m)
      BY <1>1 DEF LinkInv, Performed
    <3>2. Progress(m)'
      BY <1>0, <2>1, <3>1, SameWindow DEF Progress
    <3> QED
      BY <2>1, <3>1, <3>2, SameTasks, TakenTask, SameWindow, OwnTask
  <2> QED
    BY <1>0, <2>1, <2>2, SameWindow DEF LinkInv, SetupState, Pushed, InSequence, Bus!Registered
<1>2. ASSUME NEW m \in Messangers, ProcessTask(m) = task'[t] PROVE LinkInv' /\ Bus!BeginProcess(m)
  <2>1. Bus!StartProcess(m) /\ processing' = [processing EXCEPT ![m] = "running"]
    BY <1>2, OwnTask DEF Take, Performed, Bus!StartProcess
  <2>2. processing[m] = "due"
    BY <1>2, TakenTask, OwnTask DEF LinkInv, TaskLink
  <2>3. DrainWindow' /\ DrainWindow
    BY <1>2, SameWindow, OwnTask DEF Inv, PhasesSeparated, DrainWindow
  <2>4. pc[Main] # "setup" /\ pc[Main] \notin {"loop", "publish", "closed"} /\ ~ ProcessDue /\ stage # "RENDER"
    BY <2>3 DEF DrainWindow, ProcessDue, Inv, StageState
  <2>5. ASSUME NEW n \in Messangers PROVE Progress(n)' /\ TaskLink(n)'
    <3>0. Progress(n) /\ TaskLink(n)
      BY DEF LinkInv
    <3>1. CASE n = m
      <4>1. \A u \in Threads : task'[u] = ProcessTask(m) <=> u = t
        BY <1>2, <2>2, <3>0, <3>1, TakenTask DEF TaskLink
      <4>2. processing'[m] = "running" /\ ProcessTask(m) \notin InSequence(tasksQueue)'
        BY <1>0, <1>2, <2>1, TakenTask
      <4> QED
        BY <1>0, <2>3, <2>4, <3>1, <4>1, <4>2, SameWindow DEF Progress, TaskLink, ProcessTask
    <3>2. CASE n # m
      <4>1. processing'[n] = processing[n] /\ task'[t] # ProcessTask(n)
        BY <1>0, <1>2, <2>1, <3>2, OwnTask
      <4>2. \A u \in Threads : task'[u] = ProcessTask(n) <=> task[u] = ProcessTask(n)
        BY <4>1, TakenTask, OwnTask
      <4>3. ProcessTask(n) \in InSequence(tasksQueue)' <=> ProcessTask(n) \in InSequence(tasksQueue)
        BY <4>1, TakenTask
      <4> QED
        BY <1>0, <2>3, <3>0, <4>1, <4>2, <4>3, SameWindow DEF Progress, TaskLink, ProcessTask
    <3> QED
      BY <3>1, <3>2
  <2> QED
    BY <1>0, <2>1, <2>2, <2>4, <2>5, SameWindow DEF LinkInv, SetupState, Pushed, InSequence,
          Bus!Registered, Bus!BeginProcess, States
<1> QED
  BY <1>1, <1>2 DEF Performed

\* A thread that ends the process() of m leaves nobody performing it.
LEMMA FinishLink ==
    ASSUME Inv, LinkInv, NEW t \in Threads, Finish(t)
    PROVE  LinkInv' /\ ((\E m \in Messangers : Bus!EndProcess(m)) \/ UNCHANGED busVars)
<1>0. /\ UNCHANGED <<messangersList, emitting, processablesList, tasksQueue, stage>>
      /\ task' = [task EXCEPT ![t] = NoTask] /\ processing \in [Messangers -> States]
  BY SameWindow DEF Finish, FinishNext, FinishTask, queueVars, Bus!EndProcess, Bus!tables, busVars, LinkInv
<1>1. CASE Performed(task[t]) = {}
  <2>1. UNCHANGED busVars /\ UNCHANGED processing
    BY <1>1 DEF Finish, busVars
  <2>2. ASSUME NEW m \in Messangers PROVE Progress(m)' /\ TaskLink(m)'
    <3>1. Progress(m) /\ TaskLink(m) /\ task[t] # ProcessTask(m)
      BY <1>1 DEF LinkInv, Performed
    <3>2. \A u \in Threads : task'[u] = ProcessTask(m) <=> task[u] = ProcessTask(m)
      BY <1>0, <3>1, SameWindow, OwnTask
    <3>3. Progress(m)'
      BY <1>0, <2>1, <3>1, SameWindow DEF Progress
    <3> QED
      BY <1>0, <2>1, <3>1, <3>2, <3>3, SameTasks, SameWindow DEF InSequence
  <2> QED
    BY <1>0, <2>1, <2>2, SameWindow DEF LinkInv, SetupState, Pushed, InSequence, Bus!Registered
<1>2. ASSUME NEW m \in Messangers, ProcessTask(m) = task[t] PROVE LinkInv' /\ Bus!EndProcess(m)
  <2>1. Bus!EndProcess(m) /\ processing' = [processing EXCEPT ![m] = "done"]
    BY <1>2, OwnTask DEF Finish, Performed, Bus!EndProcess
  <2>2. DrainWindow' /\ DrainWindow
    BY <1>2, SameWindow, QueueFacts, OwnTask
  <2>3. pc[Main] # "setup" /\ pc[Main] \notin {"loop", "publish", "closed"} /\ ~ ProcessDue /\ stage # "RENDER"
    BY <2>2 DEF DrainWindow, ProcessDue, Inv, StageState
  <2>4. ASSUME NEW n \in Messangers PROVE Progress(n)' /\ TaskLink(n)'
    <3>0. Progress(n) /\ TaskLink(n)
      BY DEF LinkInv
    <3>1. CASE n = m
      <4>1. \A u \in Threads : task'[u] # ProcessTask(m)
        BY <1>0, <1>2, <3>0, <3>1, SameWindow, OwnTask DEF TaskLink
      <4>2. processing'[m] = "done" /\ processing[m] \in {"running", "reading"}
        BY <1>0, <1>2, <2>1, <3>0, <3>1 DEF TaskLink
      <4>3. ProcessTask(m) \notin InSequence(tasksQueue)'
        BY <1>0, <3>0, <3>1, <4>2 DEF TaskLink, InSequence
      <4> QED
        BY <1>0, <2>2, <2>3, <3>1, <4>1, <4>2, <4>3, SameWindow DEF Progress, TaskLink, ProcessTask
    <3>2. CASE n # m
      <4>1. processing'[n] = processing[n] /\ task[t] # ProcessTask(n)
        BY <1>0, <1>2, <2>1, <3>2, OwnTask
      <4>2. \A u \in Threads : task'[u] = ProcessTask(n) <=> task[u] = ProcessTask(n)
        BY <1>0, <4>1, SameWindow, OwnTask
      <4> QED
        BY <1>0, <2>2, <3>0, <4>1, <4>2, SameWindow DEF Progress, TaskLink, ProcessTask, InSequence
    <3> QED
      BY <3>1, <3>2
  <2> QED
    BY <1>0, <2>1, <2>3, <2>4, SameWindow DEF LinkInv, SetupState, Pushed, InSequence, Bus!Registered, States
<1> QED
  BY <1>1, <1>2 DEF Performed

\* getMessages(): the process() goes on running.
LEMMA ReadLink ==
    ASSUME LinkInv, NEW t \in Threads, Read(t)
    PROVE  LinkInv' /\ \E m \in Messangers : Bus!GetMessages(m)
<1>1. PICK m \in Messangers : Bus!GetMessages(m)
  BY DEF Read, Performed
<1>2. /\ processing[m] = "running" /\ processing' = [processing EXCEPT ![m] = "reading"]
      /\ UNCHANGED <<messangersList, emitting, processablesList, tasksQueue, task, stage, pc>>
  BY <1>1 DEF Read, Bus!GetMessages, Bus!tables, vars, queueVars
<1>3. pc[Main] # "setup"
  BY <1>2 DEF LinkInv, SetupState
<1>4. \A n \in Messangers : Progress(n)' /\ TaskLink(n)'
  BY <1>2 DEF LinkInv, Progress, TaskLink, ProcessDue, DrainWindow, ProcessTask, InSequence
<1> QED
  BY <1>1, <1>2, <1>3, <1>4 DEF LinkInv, SetupState, Pushed, InSequence, Bus!Registered, States

\* Constructing and registering objects, and entering or leaving the loop.
LEMMA SetupLink ==
    ASSUME Inv, LinkInv, SetupStep \/ Loop
    PROVE  LinkInv' /\ ((\E m \in Messangers : Bus!RegisterMessanger(m)) \/ UNCHANGED busVars)
<1>0. pc \in [Threads -> WorkerPc \cup MainPc] /\ Main \in Threads /\ processablesList \in Seq(Processables)
  BY DEF Inv, TypeOK, Threads
<1>1. ASSUME NEW m \in Messangers, Construct(m) PROVE LinkInv' /\ Bus!RegisterMessanger(m)
  <2>1. /\ messangersList' = Append(messangersList, m)
        /\ UNCHANGED <<processing, emitting, processablesList, tasksQueue, task, stage, pc>>
        /\ Bus!RegisterMessanger(m) /\ pc[Main] = "setup"
    BY <1>1 DEF Construct, At, Bus!RegisterMessanger, Bus!AddMessanger, Bus!calls, vars, queueVars
  <2>2. messangersList' \in Seq(Messangers) /\ Bus!Registered \subseteq Bus!Registered'
    BY <2>1 DEF LinkInv, Bus!Registered
  <2> QED
    BY <2>1, <2>2 DEF LinkInv, SetupState, Progress, TaskLink, ProcessDue, DrainWindow, ProcessTask,
          Pushed, InSequence
<1>2. ASSUME NEW p \in Processables, RegisterProcessable(p) PROVE LinkInv' /\ UNCHANGED busVars
  <2>1. /\ processablesList' = Append(processablesList, p) /\ UNCHANGED busVars
        /\ UNCHANGED <<messangersList, processing, emitting, tasksQueue, task, stage, pc>>
        /\ p \in Messangers => p \in Bus!Registered
        /\ pc[Main] = "setup"
    BY <1>2 DEF RegisterProcessable, PushProcessable, Constructing, At, busVars
  <2>2. Pushed' = Pushed \cup {p}
    BY <1>0, <2>1 DEF Pushed, InSequence
  <2> QED
    BY <2>1, <2>2 DEF LinkInv, SetupState, Progress, TaskLink, ProcessDue, DrainWindow, ProcessTask,
          InSequence, Bus!Registered
<1>3. ASSUME Loop PROVE LinkInv' /\ UNCHANGED busVars
  <2>1. /\ pc[Main] \in {"setup", "loop"} /\ pc'[Main] \in {"publish", "closed"}
        /\ UNCHANGED <<messangersList, processing, emitting, processablesList, tasksQueue, task, stage>>
        /\ UNCHANGED busVars /\ Pushed = Processables
    BY <1>0, <1>3 DEF Loop, EnterLoop, At, Goto, busVars, queueVars, LinkInv, SetupState
  <2> QED
    BY <2>1 DEF LinkInv, SetupState, Progress, TaskLink, ProcessDue, DrainWindow, ProcessTask,
          Pushed, InSequence, Bus!Registered, Inv, StageState
<1> QED
  BY <1>1, <1>2, <1>3 DEF SetupStep

\* Steps that change nothing LinkInv is about.
LEMMA OtherLink ==
    ASSUME LinkInv, UNCHANGED <<vars, messangersList, processing, emitting>>
    PROVE  LinkInv'
BY DEF vars, queueVars, LinkInv, SetupState, Progress, TaskLink, ProcessDue, DrainWindow, ProcessTask,
       Pushed, InSequence, Bus!Registered

-----------------------------------------------------------------------------
(* The invariant and the refinement *)

\* At the start no task and no process() has begun.
LEMMA LinkInit == FrameInit => LinkInv
<1> SUFFICES ASSUME FrameInit PROVE LinkInv
  OBVIOUS
<1>1. /\ pc[Main] = "setup" /\ stage = "PREPROCESS" /\ tasksQueue = <<>> /\ processablesList = <<>>
      /\ \A t \in Threads : task[t] = NoTask
  BY DEF FrameInit, Init, Threads
<1>2. /\ messangersList = <<>> /\ processing = [m \in Messangers |-> "setup"]
      /\ emitting = [m \in Messangers |-> <<>>]
  BY DEF FrameInit, Bus!Init
<1> QED
  BY <1>1, <1>2, OwnTask DEF LinkInv, States, SetupState, Progress, TaskLink, ProcessDue, DrainWindow,
        Pushed, InSequence, Bus!Registered

\* Every step keeps the invariant, and is one the bus expects or none of its own.
LEMMA LinkStep ==
    Inv /\ Distinct /\ Inv' /\ LinkInv /\ [FrameNext]_frameVars
        => LinkInv' /\ (Bus!Next \/ UNCHANGED busVars)
<1> SUFFICES ASSUME Inv, Distinct, Inv', LinkInv, [FrameNext]_frameVars
             PROVE  LinkInv' /\ (Bus!Next \/ UNCHANGED busVars)
  OBVIOUS
<1>1. CASE SetupStep \/ Loop
  BY <1>1, SetupLink DEF Bus!Next
<1>2. CASE PublishBus
  BY <1>2, PublishLink DEF Bus!Next
<1>3. ASSUME NEW t \in Threads, QueueStep(t) PROVE LinkInv' /\ UNCHANGED busVars
  <2>1. UNCHANGED busVars
    BY <1>3 DEF QueueStep, busVars
  <2> QED
    BY <1>3, <2>1, MainLink, RefreshLink, FrontLink, WorkerLink DEF QueueStep
<1>4. ASSUME NEW t \in Threads, Take(t) PROVE LinkInv' /\ (Bus!Next \/ UNCHANGED busVars)
  BY <1>4, TakeLink DEF Bus!Next, Bus!Process
<1>5. ASSUME NEW t \in Threads, Finish(t) PROVE LinkInv' /\ (Bus!Next \/ UNCHANGED busVars)
  BY <1>5, FinishLink DEF Bus!Next, Bus!Process
<1>6. ASSUME NEW t \in Threads, Read(t) PROVE LinkInv' /\ Bus!Next
  BY <1>6, ReadLink DEF Bus!Next, Bus!Process
<1>7. ASSUME NEW t \in Threads, BeginPrint(t) \/ EndPrint(t) PROVE LinkInv' /\ UNCHANGED busVars
  BY <1>7, OtherLink DEF BeginPrint, EndPrint, busVars
<1>8. ASSUME NEW w \in Workers, WakeUp(w) PROVE LinkInv' /\ UNCHANGED busVars
  <2>1. SpuriousWakeup(w) /\ UNCHANGED busVars
    BY <1>8 DEF WakeUp, busVars
  <2> QED
    BY <2>1, WorkerLink
<1>9. ASSUME NEW m \in Messangers, NEW n \in Names, Send(m, ByName(n)) PROVE LinkInv' /\ Bus!Next
  <2>1. ByName(n) \in Bus!Recipients /\ Bus!SendMessage(m, ByName(n))
    BY <1>9 DEF Send, ByName, Bus!Recipients
  <2>2. UNCHANGED <<vars, messangersList, processing, emitting>>
    BY <1>9 DEF Send, Bus!SendMessage, Bus!tables, Bus!calls
  <2> QED
    BY <2>1, <2>2, OtherLink DEF Bus!Next
<1>10. CASE UNCHANGED frameVars
  BY <1>10, OtherLink DEF frameVars, busVars
<1> QED
  BY <1>1, <1>2, <1>3, <1>4, <1>5, <1>6, <1>7, <1>8, <1>9, <1>10 DEF FrameNext, ThreadStep

\* The program as a behaviour of the queue, with the queue's invariants.
LEMMA QueueInvariance == FrameSpec => [](Inv /\ Distinct)
<1>1. FrameInit => Inv /\ Distinct
  BY InvInit DEF FrameInit, Init, Distinct
<1>2. Inv /\ Distinct /\ [FrameNext]_frameVars => Inv' /\ Distinct'
  BY FrameStepsQueue, InvStep, DistinctStep
<1> QED
  BY <1>1, <1>2, PTL DEF FrameSpec

\* What the queue performs and what the bus sees agree in every reachable state.
THEOREM LinkInvariance == FrameSpec => []LinkInv
  BY LinkInit, LinkStep, QueueInvariance, PTL DEF FrameSpec

\* The bus's view of every process() agrees with the queue and the threads.
THEOREM ProcessCorrect == FrameSpec => []ProcessIsPerformed
<1>1. LinkInv => ProcessIsPerformed
  BY DEF LinkInv, Progress, TaskLink, ProcessIsPerformed
<1> QED
  BY <1>1, LinkInvariance, PTL

\* publish() and process() are called as MessageBus expects, although nothing
\* in either component checks it.
THEOREM ContractKept == FrameSpec => BusContract
<1>1. FrameInit => Bus!Init
  BY DEF FrameInit
<1>2. UNCHANGED busVars => UNCHANGED Bus!vars
  BY DEF busVars, Bus!vars, Bus!tables, Bus!boxes, Bus!calls
<1>3. Inv /\ Distinct /\ Inv' /\ LinkInv /\ [FrameNext]_frameVars => [Bus!Next]_(Bus!vars)
  BY <1>2, LinkStep
<1> QED
  BY <1>1, <1>3, QueueInvariance, LinkInvariance, PTL DEF FrameSpec, BusContract, Bus!Spec

-----------------------------------------------------------------------------
(* The Logger *)

\* Where a thread is while it prints.
MayPrint(t) ==
    \/ t = Main /\ pc[Main] \in {"setup", "loop"}
    \/ \E m \in Loggers : task[t] = ProcessTask(m)

\* Only one thread at a time may print, and while it does the member names its file.
LogInv ==
    /\ opened \in [Threads -> Files \cup {None}] /\ openFiles \subseteq Files
    /\ \A t \in Threads : opened[t] # None => MayPrint(t)
    /\ LogFileOwned

\* The main thread prints outside the window in which the one process() does.
LEMMA OnePrints ==
    ASSUME Inv, LinkInv, NEW t \in Threads, NEW u \in Threads, MayPrint(t), MayPrint(u)
    PROVE  t = u
<1>1. ASSUME NEW v \in Threads, NEW m \in Loggers, task[v] = ProcessTask(m)
      PROVE  pc[Main] \notin {"setup", "loop"}
  <2>1. DrainWindow
    BY <1>1, QueueFacts, OwnTask, FrameAssumption
  <2> QED
    BY <2>1 DEF DrainWindow, Inv, StageState
<1>2. ASSUME NEW m \in Loggers, NEW n \in Loggers, task[t] = ProcessTask(m), task[u] = ProcessTask(n)
      PROVE  t = u
  BY <1>2, FrameAssumption DEF LinkInv, TaskLink
<1> QED
  BY <1>1, <1>2 DEF MayPrint

\* A thread that prints stays where it is, unless it takes or ends a task.
LEMMA PrintsOn ==
    ASSUME Inv, NEW t \in Threads, MayPrint(t), opened[t] # None, FrameNext,
           UNCHANGED logVars
    PROVE  MayPrint(t)'
<1> USE DEF At, Goto
<1>0. /\ pc \in [Threads -> WorkerPc \cup MainPc] /\ task \in [Threads -> Tasks \cup {NoTask}]
      /\ Main \in Threads /\ Workers \subseteq Threads
  BY DEF Inv, TypeOK, Threads
<1>1. pc[Main] \in {"setup", "loop"} => task[Main] = NoTask
  BY <1>0 DEF Inv, ThreadState
<1>2. \A m \in Loggers : task[t] = ProcessTask(m) => m \in Messangers /\ pc[t] \in {"perform", "performFront"}
                                                     /\ task[t] # NoTask /\ task[t].function = "PROCESS"
  BY <1>0, OwnTask, FrameAssumption DEF Inv, ThreadState
<1>3. ASSUME UNCHANGED task, pc[Main] \in {"setup", "loop"} => pc'[Main] = pc[Main] PROVE MayPrint(t)'
  BY <1>3 DEF MayPrint, ProcessTask
<1>4. CASE SetupStep \/ (\E m \in Messangers, n \in Names : Send(m, ByName(n)))
           \/ (\E u \in Threads : Read(u) \/ BeginPrint(u) \/ EndPrint(u))
  BY <1>3, <1>4 DEF SetupStep, Construct, RegisterProcessable, PushProcessable, Send, Read, BeginPrint,
        EndPrint, vars, queueVars
<1>5. CASE Loop \/ PublishBus
  <2>1. UNCHANGED task
    BY <1>5 DEF Loop, EnterLoop, PublishBus, Publish
  <2>2. CASE \E m \in Loggers : task[t] = ProcessTask(m)
    BY <2>1, <2>2 DEF MayPrint, ProcessTask
  <2>3. CASE t = Main /\ pc[Main] \in {"setup", "loop"}
    BY <1>5, <2>3 DEF Loop, PublishBus, Publish
  <2> QED
    BY <2>2, <2>3 DEF MayPrint
<1>6. ASSUME NEW u \in Threads, QueueStep(u) PROVE MayPrint(t)'
  <2>1. CASE PerformFront \/ PopFront
    <3>1. pc[Main] \in {"front", "performFront"} /\ \A v \in Threads : v # Main => task'[v] = task[v]
      BY <1>0, <2>1 DEF PerformFront, PopFront
    <3>2. task[Main] # NoTask => task[Main].function # "PROCESS"
      BY <1>0, <3>1 DEF Inv, PhasesSeparated, StageState, ThreadState
    <3> QED
      BY <1>2, <3>1, <3>2 DEF MayPrint, ProcessTask
  <2>2. ASSUME u = Main, ReadEmpty \/ ReadThreadsWaiting \/ LockCv \/ Refresh \/ UnlockCv
                             \/ NotifyAll \/ LockQueue \/ UnlockQueue PROVE MayPrint(t)'
    <3>1. UNCHANGED task /\ pc[Main] \notin {"setup", "loop"}
      BY <2>2 DEF ReadEmpty, ReadThreadsWaiting, LockCv, Refresh, UnlockCv, NotifyAll, LockQueue, UnlockQueue
    <3> QED
      BY <1>3, <3>1
  <2>3. ASSUME u \in Workers, EnterWait(u) \/ Wait(u) \/ Resume(u) \/ StopWaiting(u) PROVE MayPrint(t)'
    BY <1>0, <1>3, <2>3, ThreadsAssumption DEF EnterWait, Wait, Resume, StopWaiting
  <2> QED
    BY <1>6, <2>1, <2>2, <2>3 DEF QueueStep
<1>7. ASSUME NEW w \in Workers, WakeUp(w) PROVE MayPrint(t)'
  BY <1>0, <1>3, <1>7, ThreadsAssumption DEF WakeUp, SpuriousWakeup
<1>8. ASSUME NEW u \in Threads, Take(u) \/ Finish(u) PROVE MayPrint(t)'
  <2>1. pc[u] \in {"next", "getTask", "perform"} /\ (Finish(u) => u # t)
    BY <1>8 DEF Take, Finish, TakeTask, ProcessNext, FinishTask, FinishNext
  <2>2. \A v \in Threads : v # u => task'[v] = task[v] /\ pc'[v] = pc[v]
    BY <1>0, <1>8 DEF Take, Finish, TakeTask, ProcessNext, FinishTask, FinishNext, GetNextTask
  <2>3. u # t
    BY <1>2, <1>8, <2>1 DEF MayPrint, Take, TakeTask, ProcessNext
  <2> QED
    BY <2>2, <2>3 DEF MayPrint, ProcessTask
<1> QED
  BY <1>4, <1>5, <1>6, <1>7, <1>8 DEF FrameNext, ThreadStep

\* A step that opens or closes the log file is of the one thread that may print.
LEMMA LogStep == Inv /\ LinkInv /\ LogInv /\ [FrameNext]_frameVars => LogInv'
<1> SUFFICES ASSUME Inv, LinkInv, LogInv, [FrameNext]_frameVars PROVE LogInv'
  OBVIOUS
<1> USE DEF LogFileOwned, Log!LogFileOwned
<1>1. ASSUME NEW t \in Threads, BeginPrint(t) PROVE LogInv'
  <2>1. MayPrint(t) /\ opened[t] = None /\ UNCHANGED vars
    BY <1>1 DEF BeginPrint, MainPrints, Performed, MayPrint, Log!Open
  <2>2. \A u \in Threads : opened[u] = None
    BY <2>1, OnePrints DEF LogInv
  <2>3. openFiles = {}
    BY <2>2, FrameAssumption DEF LogInv, Log!Open
  <2>4. PICK f \in Files : logFile' = f /\ openFiles' = {f} /\ opened' = [opened EXCEPT ![t] = f]
    BY <1>1, <2>3 DEF BeginPrint, Log!Open
  <2> QED
    BY <2>1, <2>2, <2>4 DEF LogInv, MayPrint, ProcessTask, vars
<1>2. ASSUME NEW t \in Threads, EndPrint(t) PROVE LogInv'
  <2>1. /\ opened[t] # None /\ opened' = [opened EXCEPT ![t] = None]
        /\ openFiles' = openFiles \ {logFile} /\ UNCHANGED <<vars, logFile>>
    BY <1>2 DEF EndPrint, Log!Close
  <2>2. \A u \in Threads : u # t => opened[u] = None
    BY <2>1, OnePrints DEF LogInv
  <2>3. openFiles' = {}
    BY <2>1, <2>2, FrameAssumption DEF LogInv
  <2> QED
    BY <2>1, <2>2, <2>3 DEF LogInv, MayPrint, ProcessTask, vars
<1>3. ASSUME UNCHANGED logVars, FrameNext PROVE LogInv'
  BY <1>3, PrintsOn DEF LogInv, logVars
<1>4. CASE UNCHANGED frameVars
  BY <1>4 DEF LogInv, MayPrint, ProcessTask, frameVars, logVars, vars
<1>5. FrameNext => UNCHANGED logVars \/ \E t \in Threads : BeginPrint(t) \/ EndPrint(t)
  BY DEF FrameNext, SetupStep, Construct, RegisterProcessable, Loop, ThreadStep, PublishBus, QueueStep,
        Take, Read, Finish, WakeUp, Send, logVars
<1> QED
  BY <1>1, <1>2, <1>3, <1>4, <1>5

\* Nobody prints to, or closes, a file that another thread has opened or closed.
THEOREM LogCorrect == FrameSpec => []LogFileOwned
<1>1. FrameInit => LogInv
  BY DEF FrameInit, Log!Init, LogInv, LogFileOwned, Log!LogFileOwned
<1>2. LogInv => LogFileOwned
  BY DEF LogInv
<1> QED
  BY <1>1, <1>2, LogStep, QueueInvariance, LinkInvariance, PTL DEF FrameSpec

-----------------------------------------------------------------------------
(* What is proved of MessageBus holds of the program.  Bus and Proved are   *)
(* two instances of one module; the lemmas say that they are the same.      *)

Proved == INSTANCE MessageBusProofs

\* The operators on lists of messages are the same in both instances.
LEMMA SameLists ==
    /\ Proved!Registered = Bus!Registered /\ Proved!NoMessages = Bus!NoMessages
    /\ Proved!Recipients = Bus!Recipients
    /\ \A s : Proved!InList(s) = Bus!InList(s)
<1>1. Proved!Registered = Bus!Registered
  BY DEF Proved!Registered, Bus!Registered
<1>2. Proved!NoMessages = Bus!NoMessages /\ \A s : Proved!InList(s) = Bus!InList(s)
  BY DEF Proved!NoMessages, Bus!NoMessages, Proved!InList, Bus!InList
<1>3. Proved!Recipients = Bus!Recipients
  BY Zenon DEF Proved!Recipients, Bus!Recipients, Proved!Cardinality, Bus!Cardinality
<1> QED
  BY <1>1, <1>2, <1>3

\* So is the resolution of recipients,
LEMMA SameRecipient == \A r : Proved!GetRecipient(r) = Bus!GetRecipient(r)
<1>1. \A r : Proved!RecipientIndex(r) = Bus!RecipientIndex(r)
  BY DEF Proved!RecipientIndex, Bus!RecipientIndex, Proved!Find, Bus!Find, Proved!messangerToIndexDict,
        Bus!messangerToIndexDict, Proved!idToIndexDict, Bus!idToIndexDict
<1> QED
  BY <1>1 DEF Proved!GetRecipient, Bus!GetRecipient

\* publish(),
LEMMA SamePublish == Bus!Publish => Proved!Publish
<1>1. \A m : Proved!Delivered(m) = Bus!Delivered(m)
  BY SameRecipient DEF Proved!Delivered, Bus!Delivered
<1>2. \A k : Proved!Deletes(k) = Bus!Deletes(k)
  BY Zenon DEF Proved!Deletes, Bus!Deletes, Proved!Cardinality, Bus!Cardinality, Proved!Listed,
        Bus!Listed, Proved!Registered, Bus!Registered
<1>3. \A k : Proved!RecipientAfter(k) = Bus!RecipientAfter(k)
  BY DEF Proved!RecipientAfter, Bus!RecipientAfter, Proved!GetRecipient, Bus!GetRecipient,
        Proved!RecipientIndex, Bus!RecipientIndex, Proved!Find, Bus!Find, Proved!messangerToIndexDict,
        Bus!messangerToIndexDict, Proved!idToIndexDict, Bus!idToIndexDict
<1>4. Bus!PublishDue => Proved!PublishDue
  BY SameLists DEF Proved!PublishDue, Bus!PublishDue
<1>5. Bus!PublishMessages => Proved!PublishMessages
  BY SameLists, <1>1, <1>2, <1>3 DEF Proved!PublishMessages, Bus!PublishMessages, Proved!tables, Bus!tables
<1> QED
  BY <1>4, <1>5 DEF Proved!Publish, Bus!Publish

\* what messangers do without an argument,
LEMMA SameMessanger ==
    ASSUME NEW m
    PROVE  /\ Bus!RegisterMessanger(m) => Proved!RegisterMessanger(m)
           /\ Bus!EmitMessage(m) => Proved!EmitMessage(m)
           /\ Bus!Process(m) => Proved!Process(m)
<1> USE SameLists DEF Proved!tables, Bus!tables, Proved!boxes, Bus!boxes, Proved!calls, Bus!calls
<1>1. Bus!RegisterMessanger(m) => Proved!RegisterMessanger(m)
  BY DEF Bus!RegisterMessanger, Proved!RegisterMessanger, Bus!AddMessanger, Proved!AddMessanger,
        Bus!AddSubscribers, Proved!AddSubscribers, Bus!AddName, Proved!AddName
<1>2. Bus!EmitMessage(m) => Proved!EmitMessage(m)
  BY DEF Proved!EmitMessage, Bus!EmitMessage, Proved!MayCall, Bus!MayCall, Proved!NewMessage,
        Bus!NewMessage, Proved!Pending, Bus!Pending
<1>3. Bus!Process(m) => Proved!Process(m)
  BY DEF Proved!Process, Bus!Process, Proved!BeginProcess, Bus!BeginProcess, Proved!StartProcess,
        Bus!StartProcess, Proved!GetMessages, Bus!GetMessages, Proved!EmitNext, Bus!EmitNext,
        Proved!EndProcess, Bus!EndProcess
<1> QED
  BY <1>1, <1>2, <1>3

\* and their calls with a recipient.
LEMMA SameCalls ==
    ASSUME NEW m, NEW r
    PROVE  /\ Bus!SendMessage(m, r) => Proved!SendMessage(m, r)
           /\ Bus!Subscribe(m, r) => Proved!Subscribe(m, r)
           /\ Bus!Unsubscribe(m, r) => Proved!Unsubscribe(m, r)
<1>1. Proved!Target(r) = Bus!Target(r)
  BY SameRecipient DEF Proved!Target, Bus!Target
<1>2. Proved!MayCall(m) <=> Bus!MayCall(m)
  BY SameLists DEF Proved!MayCall, Bus!MayCall
<1> QED
  BY <1>1, <1>2, SameLists DEF Proved!SendMessage, Bus!SendMessage, Proved!Subscribe, Bus!Subscribe,
        Proved!Unsubscribe, Bus!Unsubscribe, Proved!NewMessage, Bus!NewMessage, Proved!Pending,
        Bus!Pending, Proved!tables, Bus!tables, Proved!boxes, Bus!boxes, Proved!calls, Bus!calls

\* A behaviour of one instance is a behaviour of the other.
LEMMA SameBus == Bus!Spec => Proved!Spec
<1>1. Bus!Init => Proved!Init
  BY SameLists DEF Proved!Init, Bus!Init
<1>2. [Bus!Next]_(Bus!vars) => [Proved!Next]_(Proved!vars)
  BY SamePublish, SameMessanger, SameCalls, SameLists DEF Proved!Next, Bus!Next, Proved!vars, Bus!vars,
        Proved!tables, Bus!tables, Proved!boxes, Bus!boxes, Proved!calls, Bus!calls
<1> QED
  BY <1>1, <1>2, PTL DEF Proved!Spec, Bus!Spec

\* No process(), on whatever thread, holds a message that publish() has deleted.
THEOREM HeldCorrect == FrameSpec => []HeldAreLive
<1>1. Proved!MessangersAssumption
  BY FrameAssumption, ThreadsAssumption
     DEF Proved!MessangersAssumption, Proved!IsFiniteSet, IsFiniteSet
<1>2. Proved!Spec => []Proved!HeldAreLive
  BY <1>1, Proved!HeldLive
<1>3. Proved!HeldAreLive => HeldAreLive
  BY DEF Proved!HeldAreLive, HeldAreLive, Bus!HeldAreLive
<1> QED
  BY <1>2, <1>3, SameBus, ContractKept, PTL DEF BusContract
=============================================================================
