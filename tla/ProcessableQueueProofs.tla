------------------------ MODULE ProcessableQueueProofs ------------------------
(***************************************************************************)
(* Proofs about ProcessableQueue, for any number of workers and any set of *)
(* processables.  Inv below is the inductive invariant; the properties     *)
(* that the runs check on an instance follow from it.                      *)
(***************************************************************************)
EXTENDS ProcessableQueue, FiniteSetTheorems, SequenceTheorems, TLAPS

\* Which thread can be where, and which threads hold a task.
ThreadState ==
    /\ pc[Main] \in MainPc
    /\ \A w \in Workers : pc[w] \in WorkerPc
    /\ \A t \in Threads :
            task[t] # NoTask <=> pc[t] \in {"perform", "performFront"}

\* In which method of the queue the main thread can be at each label, and the
\* phase the last refresh left.
StageState ==
    /\ pc[Main] \in {"lockCv", "unlockCv", "notify"} => stage = "PROCESS"
    /\ pc[Main] \in {"next", "perform"} => stage = "DRAIN"
    /\ pc[Main] = "refresh" => stage \in Functions
    /\ pc[Main] \in {"lockQueue", "front", "performFront"} =>
            stage \in {"PREPROCESS", "RENDER"} /\ phase = stage
    /\ pc[Main] \in {"unlockCv", "notify"} => phase = "PROCESS"
    /\ stage = "DRAIN" =>
            /\ phase = "PROCESS"
            /\ pc[Main] \in {"empty", "waiting", "next", "perform"}
    /\ stage = "PROCESS" => pc[Main] \in {"empty", "waiting", "lockCv", "refresh",
                                          "unlockCv", "notify"}
    /\ stage = "PROCESS" /\ pc[Main] \in {"empty", "waiting", "lockCv", "refresh"} =>
            phase = "PREPROCESS"
    /\ stage = "RENDER" /\ pc[Main] \in {"empty", "waiting", "refresh"} =>
            phase = "PROCESS"

\* The queue holds tasks only between a refresh and the end of its phase, and
\* only tasks of that phase.
QueueState ==
    /\ tasksQueue # <<>> =>
            \/ stage = "DRAIN" /\ pc[Main] \in {"empty", "next", "perform"}
            \/ pc[Main] \in {"unlockCv", "notify", "lockQueue", "front", "performFront"}
    /\ \A i \in 1..Len(tasksQueue) : tasksQueue[i].function = phase

\* Nobody performs a task once ifFinished() has returned true.  After the
\* drain loop this holds for the whole test of render(), and around the first
\* preprocess() because there was no phase before it.
AllIdle == \A t \in Threads : task[t] = NoTask
IdleState ==
    /\ pc[Main] \in {"setup", "lockCv", "refresh"} => AllIdle
    /\ stage = "RENDER" /\ pc[Main] \in {"empty", "waiting"} => AllIdle
    /\ stage \notin {"PROCESS", "DRAIN"} /\ phase = "PROCESS" => AllIdle

\* Locks: the queue's is held while main performs from the front.
LockState == queueMutex = Main <=> pc[Main] \in {"front", "performFront"}

Inv ==
    /\ TypeOK /\ WaitingCounted
    /\ ThreadState /\ StageState /\ QueueState /\ IdleState /\ LockState
    /\ PhasesSeparated /\ PopsWhatItPerformed

-----------------------------------------------------------------------------
(* Lemmas *)

\* What getNextTask() and front() return is a performable task of the queue's
\* type, and what is left has that type too.
LEMMA FrontTask ==
    ASSUME TypeOK, tasksQueue # <<>>
    PROVE  /\ Head(tasksQueue) \in Tasks
           /\ Head(tasksQueue) = tasksQueue[1] /\ 1 \in 1..Len(tasksQueue)
           /\ Head(tasksQueue) # NoTask /\ Performable(Head(tasksQueue))
           /\ Tail(tasksQueue) \in Seq(Tasks)
           /\ \A i \in 1..Len(Tail(tasksQueue)) :
                    i + 1 \in 1..Len(tasksQueue) /\ Tail(tasksQueue)[i] = tasksQueue[i + 1]
<1>1. /\ Head(tasksQueue) \in Tasks /\ Tail(tasksQueue) \in Seq(Tasks)
      /\ Len(Tail(tasksQueue)) = Len(tasksQueue) - 1
      /\ \A i \in 1..Len(Tail(tasksQueue)) : Tail(tasksQueue)[i] = tasksQueue[i + 1]
  BY HeadTailProperties DEF TypeOK
<1>2. Len(tasksQueue) \in Nat /\ Len(tasksQueue) > 0 /\ Head(tasksQueue) = tasksQueue[1]
  BY EmptySeq DEF TypeOK
<1>3. Head(tasksQueue) # NoTask /\ Performable(Head(tasksQueue))
  BY <1>1, ThreadsAssumption DEF Tasks, Functions, NoTask, Performable
<1> QED
  BY <1>1, <1>2, <1>3

\* NoTask, a default Task(), is a type of its own and not performable.
LEMMA NoTaskType == NoTask \notin Tasks /\ ~ Performable(NoTask)
  BY ThreadsAssumption DEF NoTask, Tasks, Performable

\* getNextTask() moves the front of the queue, if there is one, to thread t.
LEMMA NextTaskStep ==
    ASSUME TypeOK, QueueState, NEW t \in Threads, GetNextTask(t)
    PROVE  /\ tasksQueue' \in Seq(Tasks)
           /\ \A i \in 1..Len(tasksQueue') : tasksQueue'[i].function = phase
           /\ tasksQueue = <<>> => tasksQueue' = <<>>
           /\ task' \in [Threads -> Tasks \cup {NoTask}]
           /\ Performable(task'[t]) <=> task'[t] # NoTask
           /\ task'[t] # NoTask => tasksQueue # <<>> /\ task'[t].function = phase
           /\ \A u \in Threads : u # t => task'[u] = task[u]
<1>1. CASE tasksQueue = <<>>
  BY <1>1, NoTaskType DEF GetNextTask, TypeOK, QueueState
<1>2. CASE tasksQueue # <<>>
  <2>1. task' = [task EXCEPT ![t] = Head(tasksQueue)] /\ tasksQueue' = Tail(tasksQueue)
    BY <1>2 DEF GetNextTask
  <2>2. task'[t] = Head(tasksQueue)
    BY <2>1 DEF TypeOK
  <2>3. task' \in [Threads -> Tasks \cup {NoTask}] /\ \A u \in Threads : u # t => task'[u] = task[u]
    BY <1>2, <2>1, FrontTask DEF TypeOK
  <2>4. \A i \in 1..Len(tasksQueue') : tasksQueue'[i].function = phase
    BY <1>2, <2>1, FrontTask DEF QueueState
  <2> QED
    BY <1>2, <2>1, <2>2, <2>3, <2>4, FrontTask DEF QueueState
<1> QED
  BY <1>1, <1>2

\* When the counter equals the number of workers, every worker is counted, so
\* none of them performs a task.
LEMMA AllCounted ==
    ASSUME Inv, AllThreadsWaiting
    PROVE  \A w \in Workers : w \in Counted /\ task[w] = NoTask
<1>1. Counted \in SUBSET Workers /\ Cardinality(Workers) = Cardinality(Counted)
  BY DEF Inv, WaitingCounted, AllThreadsWaiting, Counted
<1>2. Workers = Counted
  BY <1>1, ThreadsAssumption, FS_Subset
<1> QED
  BY <1>2 DEF Inv, ThreadState, Counted, Threads

\* A worker that starts to wait, or stops, is one more or one fewer counted.
LEMMA CountedStep ==
    ASSUME TypeOK, NEW w \in Workers, NEW l \in WorkerPc, Goto(w, l)
    PROVE  /\ l = "entering" /\ w \notin Counted =>
                Cardinality(Counted') = Cardinality(Counted) + 1
           /\ l = "getTask" /\ w \in Counted =>
                Cardinality(Counted') = Cardinality(Counted) - 1
           /\ Cardinality(Counted) \in Nat
           /\ w \in Counted => Cardinality(Counted) > 0
<1>1. IsFiniteSet(Counted)
  BY ThreadsAssumption, FS_Subset DEF Counted
<1>2. l = "entering" => Counted' = Counted \cup {w}
  BY DEF TypeOK, Counted, Goto, Threads
<1>3. l = "getTask" => Counted' = Counted \ {w}
  BY DEF TypeOK, Counted, Goto, Threads
<1>4. Cardinality(Counted) \in Nat /\ (w \in Counted => Cardinality(Counted) # 0)
  BY <1>1, FS_CardinalityType, FS_EmptySet
<1>5. l = "entering" /\ w \notin Counted => Cardinality(Counted') = Cardinality(Counted) + 1
  BY <1>1, <1>2, FS_AddElement
<1>6. l = "getTask" /\ w \in Counted => Cardinality(Counted') = Cardinality(Counted) - 1
  BY <1>1, <1>3, FS_RemoveElement
<1> QED
  BY <1>4, <1>5, <1>6

\* The workers start outside the queue, which is empty.
THEOREM InvInit == Init => Inv
<1> SUFFICES ASSUME Init PROVE Inv
  OBVIOUS
<1> USE ThreadsAssumption DEF Init
<1>1. Counted = {}
  BY DEF Counted, Threads
<1>2. WaitingCounted
  BY <1>1, FS_EmptySet DEF WaitingCounted
<1>3. TypeOK
  BY DEF TypeOK, Threads, Functions, WorkerPc, MainPc
<1> QED
  BY <1>2, <1>3 DEF Inv, ThreadState, StageState, QueueState, IdleState, AllIdle, LockState,
        PhasesSeparated, PopsWhatItPerformed, Threads, Functions, NoTask, MainPc, WorkerPc

\* Every step of every thread keeps the invariant.
THEOREM InvStep == Inv /\ [Next]_vars => Inv'
<1> SUFFICES ASSUME Inv, [Next]_vars PROVE Inv'
  OBVIOUS
<1> USE ThreadsAssumption
    DEF Inv, TypeOK, Tasks, Threads, Functions, WorkerPc, MainPc, NoTask, WaitingCounted, Counted,
        ThreadState, StageState, QueueState, IdleState, AllIdle, LockState,
        PhasesSeparated, PopsWhatItPerformed, At, Goto, queueVars, syncVars
<1>1. ASSUME NEW p \in Processables, PushProcessable(p) PROVE Inv'
  BY <1>1 DEF PushProcessable
<1>2. CASE EnterLoop
  <2>1. TypeOK'
    BY <1>2 DEF EnterLoop
  <2>2. WaitingCounted'
    BY <1>2 DEF EnterLoop
  <2>3. ThreadState'
    BY <1>2 DEF EnterLoop
  <2>4. StageState'
    BY <1>2 DEF EnterLoop
  <2>5. QueueState'
    BY <1>2 DEF EnterLoop
  <2>6. IdleState'
    BY <1>2 DEF EnterLoop
  <2>7. LockState'
    BY <1>2 DEF EnterLoop
  <2>8. PhasesSeparated'
    BY <1>2 DEF EnterLoop
  <2>9. PopsWhatItPerformed'
    BY <1>2 DEF EnterLoop
  <2> QED BY <2>1, <2>2, <2>3, <2>4, <2>5, <2>6, <2>7, <2>8, <2>9
<1>3. CASE Publish
  BY <1>3 DEF Publish
<1>4. CASE ReadEmpty
  BY <1>4 DEF ReadEmpty, QueueSeenEmpty, NotFinished
<1>5. CASE ReadThreadsWaiting
  <2>1. TypeOK'
    BY <1>5 DEF ReadThreadsWaiting, AllThreadsWaiting, NotFinished
  <2>2. WaitingCounted'
    BY <1>5 DEF ReadThreadsWaiting, AllThreadsWaiting, NotFinished
  <2>3. ThreadState'
    BY <1>5 DEF ReadThreadsWaiting, AllThreadsWaiting, NotFinished
  <2>4. StageState'
    BY <1>5 DEF ReadThreadsWaiting, AllThreadsWaiting, NotFinished
  <2>5. QueueState'
    BY <1>5 DEF ReadThreadsWaiting, AllThreadsWaiting, NotFinished
  <2>6. IdleState'
    BY <1>5, AllCounted DEF ReadThreadsWaiting, NotFinished
  <2>7. LockState'
    BY <1>5 DEF ReadThreadsWaiting, AllThreadsWaiting, NotFinished
  <2>8. PhasesSeparated'
    BY <1>5, AllCounted DEF ReadThreadsWaiting, NotFinished
  <2>9. PopsWhatItPerformed'
    BY <1>5 DEF ReadThreadsWaiting, AllThreadsWaiting, NotFinished
  <2> QED BY <2>1, <2>2, <2>3, <2>4, <2>5, <2>6, <2>7, <2>8, <2>9
<1>6. CASE LockCv
  BY <1>6 DEF LockCv
<1>7. CASE Refresh
  <2>1. TypeOK'
    BY <1>7 DEF Refresh, RefreshQueue, TasksOf
  <2>2. WaitingCounted'
    BY <1>7 DEF Refresh, RefreshQueue, TasksOf
  <2>3. ThreadState'
    BY <1>7 DEF Refresh, RefreshQueue, TasksOf
  <2>4. StageState'
    BY <1>7 DEF Refresh, RefreshQueue, TasksOf
  <2>5. QueueState'
    BY <1>7 DEF Refresh, RefreshQueue, TasksOf
  <2>6. IdleState'
    BY <1>7 DEF Refresh, RefreshQueue, TasksOf
  <2>7. LockState'
    BY <1>7 DEF Refresh, RefreshQueue, TasksOf
  <2>8. PhasesSeparated'
    BY <1>7 DEF Refresh, RefreshQueue, TasksOf
  <2>9. PopsWhatItPerformed'
    BY <1>7 DEF Refresh, RefreshQueue, TasksOf
  <2> QED BY <2>1, <2>2, <2>3, <2>4, <2>5, <2>6, <2>7, <2>8, <2>9
<1>8. CASE UnlockCv
  BY <1>8 DEF UnlockCv
<1>9. CASE NotifyAll
  BY <1>9 DEF NotifyAll
<1>10. CASE LockQueue
  BY <1>10 DEF LockQueue
<1>11. CASE PerformFront
  <2>1. TypeOK'
    BY <1>11, FrontTask DEF PerformFront
  <2>2. WaitingCounted'
    BY <1>11 DEF PerformFront
  <2>3. ThreadState'
    BY <1>11 DEF PerformFront
  <2>4. StageState'
    BY <1>11 DEF PerformFront
  <2>5. QueueState'
    BY <1>11 DEF PerformFront
  <2>6. IdleState'
    BY <1>11 DEF PerformFront
  <2>7. LockState'
    BY <1>11 DEF PerformFront
  <2>8. PhasesSeparated'
    BY <1>11 DEF PerformFront
  <2>9. PopsWhatItPerformed'
    BY <1>11 DEF PerformFront
  <2> QED BY <2>1, <2>2, <2>3, <2>4, <2>5, <2>6, <2>7, <2>8, <2>9
<1>12. CASE PopFront
  <2>1. TypeOK'
    BY <1>12 DEF PopFront
  <2>2. WaitingCounted'
    BY <1>12 DEF PopFront
  <2>3. ThreadState'
    BY <1>12 DEF PopFront
  <2>4. StageState'
    BY <1>12 DEF PopFront
  <2>5. QueueState'
    BY <1>12 DEF PopFront
  <2>6. IdleState'
    BY <1>12 DEF PopFront
  <2>7. LockState'
    BY <1>12 DEF PopFront
  <2>8. PhasesSeparated'
    BY <1>12 DEF PopFront
  <2>9. PopsWhatItPerformed'
    BY <1>12 DEF PopFront
  <2> QED BY <2>1, <2>2, <2>3, <2>4, <2>5, <2>6, <2>7, <2>8, <2>9
<1>13. CASE UnlockQueue
  <2>1. TypeOK'
    BY <1>13 DEF UnlockQueue
  <2>2. WaitingCounted'
    BY <1>13 DEF UnlockQueue
  <2>3. ThreadState'
    BY <1>13 DEF UnlockQueue
  <2>4. StageState'
    BY <1>13 DEF UnlockQueue
  <2>5. QueueState'
    BY <1>13 DEF UnlockQueue
  <2>6. IdleState'
    BY <1>13 DEF UnlockQueue
  <2>7. LockState'
    BY <1>13 DEF UnlockQueue
  <2>8. PhasesSeparated'
    BY <1>13 DEF UnlockQueue
  <2>9. PopsWhatItPerformed'
    BY <1>13 DEF UnlockQueue
  <2> QED BY <2>1, <2>2, <2>3, <2>4, <2>5, <2>6, <2>7, <2>8, <2>9
<1>14. CASE ProcessNext
  <2>1. TypeOK'
    BY <1>14, NextTaskStep DEF ProcessNext
  <2>2. WaitingCounted'
    BY <1>14, NextTaskStep DEF ProcessNext
  <2>3. ThreadState'
    BY <1>14, NextTaskStep DEF ProcessNext
  <2>4. StageState'
    BY <1>14, NextTaskStep DEF ProcessNext
  <2>5. QueueState'
    BY <1>14, NextTaskStep DEF ProcessNext
  <2>6. IdleState'
    BY <1>14, NextTaskStep DEF ProcessNext
  <2>7. LockState'
    BY <1>14, NextTaskStep DEF ProcessNext
  <2>8. PhasesSeparated'
    BY <1>14, NextTaskStep DEF ProcessNext
  <2>9. PopsWhatItPerformed'
    BY <1>14 DEF ProcessNext, GetNextTask
  <2> QED BY <2>1, <2>2, <2>3, <2>4, <2>5, <2>6, <2>7, <2>8, <2>9
<1>15. CASE FinishNext
  BY <1>15 DEF FinishNext
<1>16. ASSUME NEW w \in Workers, EnterWait(w) PROVE Inv'
  <2>1. TypeOK'
    BY <1>16 DEF EnterWait
  <2>2. WaitingCounted'
    BY <1>16, CountedStep DEF EnterWait
  <2>3. ThreadState'
    BY <1>16 DEF EnterWait
  <2>4. StageState'
    BY <1>16 DEF EnterWait
  <2>5. QueueState'
    BY <1>16 DEF EnterWait
  <2>6. IdleState'
    BY <1>16 DEF EnterWait
  <2>7. LockState'
    BY <1>16 DEF EnterWait
  <2>8. PhasesSeparated'
    BY <1>16 DEF EnterWait
  <2>9. PopsWhatItPerformed'
    BY <1>16 DEF EnterWait
  <2> QED BY <2>1, <2>2, <2>3, <2>4, <2>5, <2>6, <2>7, <2>8, <2>9
<1>17. ASSUME NEW w \in Workers, Wait(w) PROVE Inv'
  <2>1. TypeOK'
    BY <1>17 DEF Wait
  <2>2. WaitingCounted'
    BY <1>17 DEF Wait
  <2>3. ThreadState'
    BY <1>17 DEF Wait
  <2>4. StageState'
    BY <1>17 DEF Wait
  <2>5. QueueState'
    BY <1>17 DEF Wait
  <2>6. IdleState'
    BY <1>17 DEF Wait
  <2>7. LockState'
    BY <1>17 DEF Wait
  <2>8. PhasesSeparated'
    BY <1>17 DEF Wait
  <2>9. PopsWhatItPerformed'
    BY <1>17 DEF Wait
  <2> QED BY <2>1, <2>2, <2>3, <2>4, <2>5, <2>6, <2>7, <2>8, <2>9
<1>18. ASSUME NEW w \in Workers, Resume(w) PROVE Inv'
  <2>1. TypeOK'
    BY <1>18 DEF Resume
  <2>2. WaitingCounted'
    BY <1>18 DEF Resume
  <2>3. ThreadState'
    BY <1>18 DEF Resume
  <2>4. StageState'
    BY <1>18 DEF Resume
  <2>5. QueueState'
    BY <1>18 DEF Resume
  <2>6. IdleState'
    BY <1>18 DEF Resume
  <2>7. LockState'
    BY <1>18 DEF Resume
  <2>8. PhasesSeparated'
    BY <1>18 DEF Resume
  <2>9. PopsWhatItPerformed'
    BY <1>18 DEF Resume
  <2> QED BY <2>1, <2>2, <2>3, <2>4, <2>5, <2>6, <2>7, <2>8, <2>9
<1>19. ASSUME NEW w \in Workers, StopWaiting(w) PROVE Inv'
  <2>0. Cardinality(Counted) \in Nat /\ Cardinality(Counted) > 0
    BY <1>19, CountedStep DEF StopWaiting
  <2>1. TypeOK'
    BY <1>19, <2>0 DEF StopWaiting
  <2>2. WaitingCounted'
    BY <1>19, CountedStep DEF StopWaiting
  <2>3. ThreadState'
    BY <1>19 DEF StopWaiting
  <2>4. StageState'
    BY <1>19 DEF StopWaiting
  <2>5. QueueState'
    BY <1>19 DEF StopWaiting
  <2>6. IdleState'
    BY <1>19 DEF StopWaiting
  <2>7. LockState'
    BY <1>19 DEF StopWaiting
  <2>8. PhasesSeparated'
    BY <1>19 DEF StopWaiting
  <2>9. PopsWhatItPerformed'
    BY <1>19 DEF StopWaiting
  <2> QED BY <2>1, <2>2, <2>3, <2>4, <2>5, <2>6, <2>7, <2>8, <2>9
<1>20. ASSUME NEW w \in Workers, TakeTask(w) PROVE Inv'
  <2>1. TypeOK'
    BY <1>20, NextTaskStep DEF TakeTask
  <2>2. WaitingCounted'
    BY <1>20, NextTaskStep DEF TakeTask
  <2>3. ThreadState'
    BY <1>20, NextTaskStep DEF TakeTask
  <2>4. StageState'
    BY <1>20, NextTaskStep DEF TakeTask
  <2>5. QueueState'
    BY <1>20, NextTaskStep DEF TakeTask
  <2>6. IdleState'
    BY <1>20, NextTaskStep DEF TakeTask
  <2>7. LockState'
    BY <1>20, NextTaskStep DEF TakeTask
  <2>8. PhasesSeparated'
    <3>1. pc'[Main] = pc[Main] /\ stage' = stage /\ phase' = phase
      BY <1>20 DEF TakeTask
    <3>2. /\ \A u \in Threads : u # w => task'[u] = task[u]
          /\ task'[w] # NoTask => tasksQueue # <<>> /\ task'[w].function = phase
      BY <1>20, NextTaskStep DEF TakeTask
    <3>3. tasksQueue # <<>> /\ phase = "PROCESS" =>
            stage = "DRAIN" \/ (stage = "PROCESS" /\ pc[Main] \in {"unlockCv", "notify"})
      OBVIOUS
    <3>4. \A t \in Threads : task'[t] # NoTask => task'[t].function = phase
      BY <3>2
    <3>5. ASSUME NEW t \in Threads, task'[t].function = "PROCESS"
          PROVE  stage = "DRAIN" \/ (stage = "PROCESS" /\ pc[Main] \in {"unlockCv", "notify"})
      <4>1. CASE t = w
        BY <3>2, <3>3, <3>5, <4>1
      <4>2. CASE t # w
        BY <3>2, <3>5, <4>2
      <4> QED
        BY <4>1, <4>2
    <3> QED
      BY <3>1, <3>4, <3>5
  <2>9. PopsWhatItPerformed'
    BY <1>20 DEF TakeTask, GetNextTask
  <2> QED BY <2>1, <2>2, <2>3, <2>4, <2>5, <2>6, <2>7, <2>8, <2>9
<1>21. ASSUME NEW w \in Workers, FinishTask(w) PROVE Inv'
  <2>1. TypeOK'
    BY <1>21 DEF FinishTask
  <2>2. WaitingCounted'
    BY <1>21 DEF FinishTask
  <2>3. ThreadState'
    BY <1>21 DEF FinishTask
  <2>4. StageState'
    BY <1>21 DEF FinishTask
  <2>5. QueueState'
    BY <1>21 DEF FinishTask
  <2>6. IdleState'
    BY <1>21 DEF FinishTask
  <2>7. LockState'
    BY <1>21 DEF FinishTask
  <2>8. PhasesSeparated'
    BY <1>21 DEF FinishTask
  <2>9. PopsWhatItPerformed'
    BY <1>21 DEF FinishTask
  <2> QED BY <2>1, <2>2, <2>3, <2>4, <2>5, <2>6, <2>7, <2>8, <2>9
<1>22. ASSUME NEW w \in Workers, SpuriousWakeup(w) PROVE Inv'
  <2>1. TypeOK'
    BY <1>22 DEF SpuriousWakeup
  <2>2. WaitingCounted'
    BY <1>22 DEF SpuriousWakeup
  <2>3. ThreadState'
    BY <1>22 DEF SpuriousWakeup
  <2>4. StageState'
    BY <1>22 DEF SpuriousWakeup
  <2>5. QueueState'
    BY <1>22 DEF SpuriousWakeup
  <2>6. IdleState'
    BY <1>22 DEF SpuriousWakeup
  <2>7. LockState'
    BY <1>22 DEF SpuriousWakeup
  <2>8. PhasesSeparated'
    BY <1>22 DEF SpuriousWakeup
  <2>9. PopsWhatItPerformed'
    BY <1>22 DEF SpuriousWakeup
  <2> QED BY <2>1, <2>2, <2>3, <2>4, <2>5, <2>6, <2>7, <2>8, <2>9
<1>23. CASE UNCHANGED vars
  BY <1>23 DEF vars
<1> QED
  BY <1>1, <1>2, <1>3, <1>4, <1>5, <1>6, <1>7, <1>8, <1>9, <1>10, <1>11, <1>12, <1>13, <1>14, <1>15, <1>16, <1>17, <1>18, <1>19, <1>20, <1>21, <1>22, <1>23 DEF Next, MainStep, WorkerStep

\* Inv is an invariant of the specification.
THEOREM Invariance == Spec => []Inv
  BY InvInit, InvStep, PTL DEF Spec

-----------------------------------------------------------------------------
(* The properties *)

\* Type correctness: in particular threadsWaiting is never decremented below 0.
THEOREM TypeCorrect == Spec => []TypeOK
<1>1. Inv => TypeOK
  BY DEF Inv
<1> QED
  BY <1>1, Invariance, PTL

\* The atomic counter is the number of workers between ++ and --.
THEOREM CounterCorrect == Spec => []WaitingCounted
<1>1. Inv => WaitingCounted
  BY DEF Inv
<1> QED
  BY <1>1, Invariance, PTL

\* Tasks of two phases never overlap, and process() tasks run only between
\* process() and the end of the drain loop.
THEOREM PhasesCorrect == Spec => []PhasesSeparated
<1>1. Inv => PhasesSeparated
  BY DEF Inv
<1> QED
  BY <1>1, Invariance, PTL

\* The unlocked read of the spin loops sees an empty queue.
THEOREM SpinsCorrect == Spec => []SpinsOnEmptyQueue
<1>1. Inv => SpinsOnEmptyQueue
  BY DEF Inv, QueueState, SpinsOnEmptyQueue
<1> QED
  BY <1>1, Invariance, PTL

\* The task popped after it was performed is the task performed.
THEOREM PopsCorrect == Spec => []PopsWhatItPerformed
<1>1. Inv => PopsWhatItPerformed
  BY DEF Inv
<1> QED
  BY <1>1, Invariance, PTL

\* Only Refresh adds tasks, and tasks leave the queue one by one, at the front.
LEMMA QueueChanges ==
    ASSUME Inv, [Next]_vars
    PROVE  \/ UNCHANGED tasksQueue
           \/ tasksQueue # <<>> /\ tasksQueue' = Tail(tasksQueue)
           \/ Refresh
<1>1. ASSUME NEW t \in Threads, GetNextTask(t)
      PROVE  UNCHANGED tasksQueue \/ (tasksQueue # <<>> /\ tasksQueue' = Tail(tasksQueue))
  BY <1>1 DEF GetNextTask
<1>2. CASE MainStep
  <2>1. CASE PopFront
    BY <2>1 DEF PopFront, At, Inv, PopsWhatItPerformed
  <2>2. CASE ProcessNext
    BY <1>1, <2>2 DEF ProcessNext, Threads
  <2> QED
    BY <1>2, <2>1, <2>2 DEF MainStep, EnterLoop, Publish, ReadEmpty, ReadThreadsWaiting, LockCv,
            UnlockCv, NotifyAll, LockQueue, PerformFront, UnlockQueue, FinishNext, queueVars
<1>3. ASSUME NEW w \in Workers, WorkerStep(w) \/ SpuriousWakeup(w)
      PROVE  UNCHANGED tasksQueue \/ (tasksQueue # <<>> /\ tasksQueue' = Tail(tasksQueue))
  <2>1. CASE TakeTask(w)
    BY <1>1, <2>1 DEF TakeTask, Threads
  <2>2. CASE SpuriousWakeup(w)
    BY <2>2 DEF SpuriousWakeup, queueVars
  <2>3. CASE EnterWait(w) \/ Wait(w) \/ Resume(w)
    BY <2>3 DEF EnterWait, Wait, Resume, queueVars
  <2>4. CASE StopWaiting(w)
    BY <2>4 DEF StopWaiting, queueVars
  <2>5. CASE FinishTask(w)
    BY <2>5 DEF FinishTask, queueVars
  <2> QED
    BY <1>3, <2>1, <2>2, <2>3, <2>4, <2>5 DEF WorkerStep
<1> QED
  BY <1>2, <1>3 DEF Next, PushProcessable, vars, queueVars

\* Only Refresh makes the queue longer, and it finds the pipeline idle.
THEOREM RefreshCorrect == Spec => RefreshWhenIdle
<1>1. Inv /\ [Next]_vars => [Len(tasksQueue') > Len(tasksQueue) =>
                                tasksQueue = <<>> /\ \A t \in Threads : task[t] = NoTask]_vars
  <2> SUFFICES ASSUME Inv, [Next]_vars, Len(tasksQueue') > Len(tasksQueue)
               PROVE  tasksQueue = <<>> /\ \A t \in Threads : task[t] = NoTask
    OBVIOUS
  <2>1. Len(tasksQueue) \in Nat
    BY LenProperties DEF Inv, TypeOK
  <2>2. tasksQueue' # tasksQueue /\ ~ (tasksQueue # <<>> /\ tasksQueue' = Tail(tasksQueue))
    BY <2>1, HeadTailProperties DEF Inv, TypeOK
  <2>3. Refresh
    BY <2>1, <2>2, QueueChanges
  <2> QED
    BY <2>3 DEF Inv, Refresh, At, QueueState, IdleState, AllIdle
<1> QED
  BY <1>1, Invariance, PTL DEF Spec, RefreshWhenIdle

-----------------------------------------------------------------------------
(* Refinement of PhaseBarrier *)

\* No processable is registered twice and no task is queued twice, so taking
\* one from the queue takes it from the set of pending tasks.
Distinct ==
    /\ \A i, j \in 1..Len(processablesList) :
            processablesList[i] = processablesList[j] => i = j
    /\ \A i, j \in 1..Len(tasksQueue) : tasksQueue[i] = tasksQueue[j] => i = j

\* No processable is listed twice, and no task queued twice.
LEMMA DistinctStep == Inv /\ Distinct /\ [Next]_vars => Distinct'
<1> SUFFICES ASSUME Inv, Distinct, [Next]_vars PROVE Distinct'
  OBVIOUS
<1>1. CASE UNCHANGED <<processablesList, tasksQueue>>
  BY <1>1 DEF Distinct
<1>2. ASSUME NEW p \in Processables, PushProcessable(p) PROVE Distinct'
  BY <1>2 DEF PushProcessable, Distinct, Inv, TypeOK
<1>3. CASE Refresh
  <2>1. tasksQueue' = TasksOf(stage)
    <3>1. tasksQueue = <<>>
      BY <1>3 DEF Refresh, At, Inv, QueueState
    <3>2. TasksOf(stage) \in Seq(Tasks)
      BY <1>3 DEF Refresh, At, Inv, StageState, TypeOK, TasksOf, Tasks
    <3> QED
      BY <1>3, <3>1, <3>2, ConcatEmptySeq DEF Refresh, RefreshQueue
  <2> QED
    BY <1>3, <2>1 DEF Refresh, Distinct, TasksOf, Inv, TypeOK
<1>4. CASE tasksQueue # <<>> /\ tasksQueue' = Tail(tasksQueue) /\ UNCHANGED processablesList
  <2>1. \A i \in 1..Len(Tail(tasksQueue)) :
            i + 1 \in 1..Len(tasksQueue) /\ Tail(tasksQueue)[i] = tasksQueue[i + 1]
    BY <1>4, FrontTask DEF Inv
  <2> QED
    BY <1>4, <2>1 DEF Distinct
<1>5. UNCHANGED processablesList \/ \E p \in Processables : PushProcessable(p)
  BY DEF Next, MainStep, WorkerStep, EnterLoop, Publish, ReadEmpty, ReadThreadsWaiting, LockCv,
        Refresh, UnlockCv, NotifyAll, LockQueue, PerformFront, PopFront, UnlockQueue, ProcessNext,
        FinishNext, EnterWait, Wait, SpuriousWakeup, Resume, StopWaiting, TakeTask, FinishTask,
        queueVars, vars
<1> QED
  BY <1>1, <1>2, <1>3, <1>4, <1>5, QueueChanges

\* The set of tasks of a queue, when one is taken from its front.
LEMMA TakenFromFront ==
    ASSUME TypeOK, Distinct, tasksQueue # <<>>
    PROVE  /\ Head(tasksQueue) \in InSequence(tasksQueue)
           /\ InSequence(Tail(tasksQueue)) = InSequence(tasksQueue) \ {Head(tasksQueue)}
<1>1. /\ Len(Tail(tasksQueue)) = Len(tasksQueue) - 1 /\ Len(tasksQueue) \in Nat
      /\ \A i \in 1..Len(Tail(tasksQueue)) : Tail(tasksQueue)[i] = tasksQueue[i + 1]
  BY HeadTailProperties, LenProperties DEF TypeOK
<1>2. Head(tasksQueue) = tasksQueue[1] /\ 1 \in 1..Len(tasksQueue)
  BY FrontTask
<1>3. ASSUME NEW k \in InSequence(Tail(tasksQueue))
      PROVE  k \in InSequence(tasksQueue) \ {Head(tasksQueue)}
  BY <1>1, <1>2 DEF InSequence, Distinct
<1>4. ASSUME NEW k \in InSequence(tasksQueue), k # Head(tasksQueue)
      PROVE  k \in InSequence(Tail(tasksQueue))
  <2>1. PICK i \in 1..Len(tasksQueue) : k = tasksQueue[i]
    BY DEF InSequence
  <2>2. i - 1 \in 1..Len(Tail(tasksQueue)) /\ Tail(tasksQueue)[i - 1] = k
    BY <1>1, <1>2, <1>4, <2>1
  <2> QED
    BY <2>2 DEF InSequence
<1> QED
  BY <1>2, <1>3, <1>4 DEF InSequence

\* A step of the queue is a step of the barrier, or changes nothing it sees.
LEMMA BarrierStep == Inv /\ Distinct /\ [Next]_vars => [Barrier!Next]_(Barrier!barrierVars)
<1> SUFFICES ASSUME Inv, Distinct, [Next]_vars
             PROVE  Barrier!Next \/ UNCHANGED Barrier!barrierVars
  OBVIOUS
<1> USE ThreadsAssumption DEF At, Goto
<1> DEFINE Stutter == UNCHANGED <<processablesList, PendingQueue, task, phase>>
<1>0. TypeOK /\ pc \in [Threads -> WorkerPc \cup MainPc] /\ task \in [Threads -> Tasks \cup {NoTask}]
      /\ Main \in Threads /\ Workers \subseteq Threads
  BY DEF Inv, TypeOK, Threads
<1>1. Stutter => UNCHANGED Barrier!barrierVars
  BY DEF Barrier!barrierVars, InSequence
<1>2. ASSUME NEW p \in Processables, PushProcessable(p) PROVE Barrier!Next
  <2>1. PendingQueue = <<>> /\ PendingQueue' = <<>> /\ AllIdle
    BY <1>2 DEF PushProcessable, PendingQueue, Inv, QueueState, IdleState
  <2>2. InSequence(processablesList)' = InSequence(processablesList) \cup {p}
    BY <1>2 DEF PushProcessable, InSequence, Inv, TypeOK
  <2> QED
    BY <1>2, <2>1, <2>2 DEF PushProcessable, Barrier!Next, Barrier!Register, Barrier!Idle,
            AllIdle, InSequence
<1>3. CASE Refresh
  <2>1. tasksQueue = <<>> /\ AllIdle /\ PendingQueue = <<>> /\ stage \in Functions
    BY <1>3 DEF Refresh, Inv, QueueState, IdleState, StageState, PendingQueue
  <2>2. TasksOf(stage) \in Seq(Tasks)
    BY <2>1 DEF Inv, TypeOK, TasksOf, Tasks
  <2>3. PendingQueue' = TasksOf(stage)
    BY <1>0, <1>3, <2>1, <2>2, ConcatEmptySeq DEF Refresh, RefreshQueue, PendingQueue
  <2>4. InSequence(TasksOf(stage)) = {Barrier!TaskOf(p, stage) : p \in InSequence(processablesList)}
    <3>1. Len(processablesList) \in Nat
      BY LenProperties DEF Inv, TypeOK
    <3>2. Len(TasksOf(stage)) = Len(processablesList)
      BY <3>1 DEF TasksOf
    <3>3. \A i \in 1..Len(processablesList) :
                TasksOf(stage)[i] = Barrier!TaskOf(processablesList[i], stage)
      BY DEF TasksOf, Barrier!TaskOf
    <3> QED
      BY <3>2, <3>3 DEF InSequence
  <2>5. \/ stage = "PREPROCESS"
        \/ stage = "PROCESS" /\ phase = "PREPROCESS"
        \/ stage = "RENDER" /\ phase = "PROCESS"
    BY <1>3, <2>1 DEF Refresh, Inv, StageState, Functions
  <2>6. Barrier!NextPhase(stage)
    <3>1. Barrier!Idle
      BY <2>1 DEF Barrier!Idle, AllIdle, InSequence
    <3>2. phase' = stage /\ UNCHANGED <<processablesList, task>>
      BY <1>3 DEF Refresh, RefreshQueue
    <3>3. InSequence(PendingQueue)' = {Barrier!TaskOf(p, stage) : p \in InSequence(processablesList)}
      BY <2>3, <2>4 DEF InSequence
    <3>4. UNCHANGED <<InSequence(processablesList), task>>
      BY <3>2 DEF InSequence
    <3> QED
      BY <2>5, <3>1, <3>2, <3>3, <3>4 DEF Barrier!NextPhase
  <2> QED
    BY <2>1, <2>6 DEF Barrier!Next, Functions
<1>4. CASE PerformFront
  <2>1. PendingQueue = tasksQueue /\ PendingQueue' = Tail(tasksQueue) /\ task[Main] = NoTask
    BY <1>0, <1>4 DEF PerformFront, PendingQueue, queueVars, Inv, ThreadState
  <2>2. Barrier!Begin(Main, Head(tasksQueue))
    BY <1>4, <2>1, TakenFromFront DEF PerformFront, queueVars, Barrier!Begin, Inv
  <2> QED
    BY <1>0, <1>4, <2>1, <2>2, TakenFromFront DEF PerformFront, Barrier!Next, Inv
<1>5. CASE PopFront
  <2>1. PendingQueue' = PendingQueue /\ task[Main] # NoTask
    BY <1>0, <1>5 DEF PopFront, PendingQueue, Inv, ThreadState
  <2> QED
    BY <1>0, <1>5, <2>1 DEF PopFront, Barrier!Next, Barrier!End
<1>6. ASSUME NEW t \in Threads, GetNextTask(t), pc[t] \in {"next", "getTask"},
             UNCHANGED <<processablesList, phase>>, pc'[Main] # "performFront"
      PROVE  Barrier!Next \/ UNCHANGED Barrier!barrierVars
  <2>1. pc[Main] # "performFront" /\ task[t] = NoTask
    BY <1>6 DEF GetNextTask, Inv, LockState, ThreadState
  <2>2. PendingQueue = tasksQueue /\ PendingQueue' = tasksQueue'
    BY <1>6, <2>1 DEF PendingQueue
  <2>3. CASE tasksQueue = <<>>
    <3>1. task' = task
      BY <1>0, <1>6, <2>1, <2>3 DEF GetNextTask
    <3> QED
      BY <1>1, <1>6, <2>2, <2>3, <3>1 DEF GetNextTask
  <2>4. CASE tasksQueue # <<>>
    <3>1. Barrier!Begin(t, Head(tasksQueue))
      BY <1>6, <2>1, <2>2, <2>4, TakenFromFront DEF GetNextTask, Barrier!Begin, Inv
    <3> QED
      BY <2>2, <2>4, <3>1, TakenFromFront DEF Barrier!Next, Inv
  <2> QED
    BY <2>3, <2>4
<1>7. CASE ProcessNext
  BY <1>0, <1>6, <1>7 DEF ProcessNext
<1>8. ASSUME NEW w \in Workers, TakeTask(w) PROVE Barrier!Next \/ UNCHANGED Barrier!barrierVars
  <2>1. queueMutex = None /\ pc'[Main] = pc[Main]
    BY <1>0, <1>8 DEF TakeTask, GetNextTask
  <2> QED
    BY <1>0, <1>6, <1>8, <2>1 DEF TakeTask, Inv, LockState
<1>9. ASSUME NEW t \in Threads, pc[t] = "perform", task' = [task EXCEPT ![t] = NoTask],
             UNCHANGED queueVars, PendingQueue' = PendingQueue
      PROVE  Barrier!Next
  BY <1>9 DEF Barrier!Next, Barrier!End, queueVars, Inv, ThreadState
<1>10. CASE FinishNext
  BY <1>0, <1>9, <1>10 DEF FinishNext, PendingQueue, queueVars
<1>11. ASSUME NEW w \in Workers, FinishTask(w) PROVE Barrier!Next
  BY <1>0, <1>9, <1>11 DEF FinishTask, PendingQueue, queueVars
<1>12. ASSUME UNCHANGED <<queueVars, task>>, pc[Main] # "performFront", pc'[Main] # "performFront"
       PROVE  Stutter
  BY <1>12 DEF PendingQueue, queueVars
<1>13. CASE EnterLoop \/ Publish \/ ReadEmpty \/ ReadThreadsWaiting \/ LockCv \/ UnlockCv
            \/ NotifyAll \/ LockQueue \/ UnlockQueue
  BY <1>0, <1>1, <1>12, <1>13 DEF EnterLoop, Publish, ReadEmpty, ReadThreadsWaiting, NotFinished,
        LockCv, UnlockCv, NotifyAll, LockQueue, UnlockQueue
<1>14. ASSUME NEW w \in Workers,
              EnterWait(w) \/ Wait(w) \/ SpuriousWakeup(w) \/ Resume(w) \/ StopWaiting(w)
       PROVE  Stutter
  BY <1>0, <1>14 DEF EnterWait, Wait, SpuriousWakeup, Resume, StopWaiting, PendingQueue, queueVars
<1>15. CASE UNCHANGED vars
  BY <1>1, <1>15 DEF vars, queueVars, PendingQueue
<1> QED
  BY <1>1, <1>2, <1>3, <1>4, <1>5, <1>7, <1>8, <1>10, <1>11, <1>13, <1>14, <1>15
     DEF Next, MainStep, WorkerStep

\* The queue, its workers and the main loop implement the barrier: each
\* registered processable is performed exactly once in every phase.
THEOREM Refinement == Spec => ImplementsBarrier
<1>1. Init => Barrier!Init /\ Distinct
  BY ThreadsAssumption DEF Init, Barrier!Init, InSequence, PendingQueue, Distinct, Functions, Threads
<1>2. Spec => []Distinct
  BY <1>1, Invariance, DistinctStep, PTL DEF Spec
<1> QED
  BY <1>1, <1>2, Invariance, BarrierStep, PTL DEF Spec, ImplementsBarrier, Barrier!Spec
=============================================================================
