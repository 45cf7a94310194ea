---------------------------- MODULE EngineFrame -----------------------------
(***************************************************************************)
(* The program around one Engine: main() constructs the objects and        *)
(* registers them with the bus and with the queue, and Engine::run()       *)
(* publishes the messages and drives the phases, in which the threads of   *)
(* ProcessableQueue perform process() of the objects of MessageBus.  One   *)
(* of them prints to the Logger, and so does the main thread.              *)
(*                                                                         *)
(* Neither component checks what it relies on: publish() deletes what a    *)
(* process() may be reading, and process() is called for whatever task is  *)
(* taken.  So PublishDue and the guard of BeginProcess, which MessageBus   *)
(* states as conditions, are dropped here and shown to hold (BusContract). *)
(* No object of the application subscribes or emits.                       *)
(***************************************************************************)
EXTENDS ProcessableQueue

CONSTANTS
    Messangers, Readers, Names, NameOf, MaxMessages,    \* as in MessageBus
    Loggers,        \* the readers whose process() prints what it has read
    Files           \* as in Logger

ASSUME FrameAssumption ==
    /\ IsFiniteSet(Messangers) /\ Messangers \subseteq Processables
    /\ Readers \subseteq Messangers /\ Loggers \subseteq Readers
    /\ \A a, b \in Loggers : a = b      \* SingleMeshLodTerrain alone
    /\ NameOf \in [Messangers -> Names] /\ MaxMessages \in Nat
    /\ None \notin Files

VARIABLES
    messangersList, nameToIndexDict, messangerToMessagesDict,
    messangerToSubscribersDict, pendingMessages, heap, processing, held, emitting,
    logFile, openFiles, opened

Bus == INSTANCE MessageBus
Log == INSTANCE Logger

busVars == <<messangersList, nameToIndexDict, messangerToMessagesDict,
             messangerToSubscribersDict, pendingMessages, heap, processing, held, emitting>>
logVars == <<logFile, openFiles, opened>>
frameVars == <<vars, busVars, logVars>>

Pushed == InSequence(processablesList)
ByName(n) == [type |-> "NAME", key |-> n]

\* The process() of a messanger, which uses the bus.
ProcessTask(m) == [ownerPtr |-> m, function |-> "PROCESS"]
Performed(k) == {m \in Messangers : ProcessTask(m) = k}

FrameInit == Init /\ Bus!Init /\ Log!Init

-----------------------------------------------------------------------------
(* main(), up to run() *)

\* An object has been constructed, and not yet been registered as a processable.
Constructing(m) == At(Main, "setup") /\ m \in Bus!Registered \ Pushed

Construct(m) ==
    /\ At(Main, "setup") /\ Bus!Registered \subseteq Pushed
    /\ Bus!RegisterMessanger(m)
    /\ UNCHANGED <<vars, logVars>>

RegisterProcessable(p) ==
    /\ IF p \in Messangers THEN Constructing(p) ELSE Bus!Registered \subseteq Pushed
    /\ PushProcessable(p)
    /\ UNCHANGED <<busVars, logVars>>

\* run() is called when all objects are registered, and main prints no longer.
Loop ==
    /\ EnterLoop
    /\ At(Main, "setup") => Pushed = Processables
    /\ opened[Main] = None
    /\ UNCHANGED <<busVars, logVars>>

-----------------------------------------------------------------------------
(* The loop of run(), and the tasks *)

\* messageBus.publish(), whatever the process() of the objects do.
PublishBus ==
    /\ Publish
    /\ Bus!PublishMessages
    /\ UNCHANGED logVars

\* A thread pops a task; if it is the process() of a messanger, it begins.
Take(t) ==
    /\ IF t = Main THEN ProcessNext ELSE TakeTask(t)
    /\ \/ \E m \in Performed(task'[t]) : Bus!StartProcess(m)
       \/ Performed(task'[t]) = {} /\ UNCHANGED busVars
    /\ UNCHANGED logVars

\* The process() of a messanger reads its messages before it returns.
Finish(t) ==
    /\ IF t = Main THEN FinishNext ELSE FinishTask(t)
    /\ opened[t] = None
    /\ \/ \E m \in Performed(task[t]) : Bus!EndProcess(m)
       \/ Performed(task[t]) = {} /\ UNCHANGED busVars
    /\ UNCHANGED logVars

Read(t) ==
    /\ \E m \in Performed(task[t]) : Bus!GetMessages(m)
    /\ UNCHANGED <<vars, logVars>>

\* Sending: from a constructor, or from the process() a thread performs.
Send(m, r) ==
    /\ Constructing(m) \/ \E t \in Threads : task[t] = ProcessTask(m)
    /\ Bus!SendMessage(m, r)
    /\ UNCHANGED <<vars, logVars>>

\* Mutant: OpenGL errors are printed while main waits for the tasks, too.
MainPrintsInDrain == pc[Main] \in {"setup", "loop", "next"}

\* The main thread prints while it constructs objects (shaders) and in
\* checkOglErrors(), after render().
MainPrints == pc[Main] \in {"setup", "loop"}

BeginPrint(t) ==
    /\ \/ t = Main /\ MainPrints
       \/ \E m \in Performed(task[t]) \cap Loggers : processing[m] = "reading" /\ held[m] # {}
    /\ Log!Open(t)
    /\ UNCHANGED <<vars, busVars>>

EndPrint(t) ==
    /\ Log!Close(t)
    /\ UNCHANGED <<vars, busVars>>

\* The steps of the threads that concern the queue alone.
QueueStep(t) ==
    /\ \/ /\ t = Main
          /\ \/ ReadEmpty \/ ReadThreadsWaiting \/ LockCv \/ Refresh \/ UnlockCv
             \/ NotifyAll \/ LockQueue \/ PerformFront \/ PopFront \/ UnlockQueue
       \/ /\ t \in Workers
          /\ EnterWait(t) \/ Wait(t) \/ Resume(t) \/ StopWaiting(t)
    /\ UNCHANGED <<busVars, logVars>>

\* The condition variable may wake a worker up unnotified here as well.
WakeUp(w) == SpuriousWakeup(w) /\ UNCHANGED <<busVars, logVars>>

SetupStep ==
    \/ \E m \in Messangers : Construct(m)
    \/ \E p \in Processables : RegisterProcessable(p)

ThreadStep(t) ==
    \/ t = Main /\ PublishBus
    \/ QueueStep(t) \/ Take(t) \/ Read(t) \/ EndPrint(t)

FrameNext ==
    \/ SetupStep \/ Loop
    \/ \E t \in Threads : ThreadStep(t) \/ Finish(t) \/ BeginPrint(t)
    \/ \E w \in Workers : WakeUp(w)
    \/ \E m \in Messangers, n \in Names : Send(m, ByName(n))

FrameSpec == FrameInit /\ [][FrameNext]_frameVars

(* Liveness: every thread goes on, and prints a finite number of lines in   *)
(* one process(), in one constructor and after one frame; spurious wake-ups *)
(* do not go on for ever.                                                   *)
FairFrameSpec ==
    /\ FrameSpec
    /\ \A t \in Threads : WF_frameVars(ThreadStep(t)) /\ SF_frameVars(Finish(t))
    /\ SF_frameVars(SetupStep \/ Loop)
    /\ <>[][~ \E w \in Workers : WakeUp(w)]_frameVars

-----------------------------------------------------------------------------
(* Properties *)

\* The queue's tasks as the bus's callers see them: between publish() and the
\* refresh of the PROCESS phase every process() is due; until the drain loop
\* ends, the due ones are in the queue and the running ones are performed by
\* one thread each; from then on to the next publish() all are done.
DrainWindow == stage = "DRAIN" \/ (stage = "PROCESS" /\ pc[Main] \in {"unlockCv", "notify"})
ProcessDue == \/ stage = "PREPROCESS" /\ pc[Main] \notin {"setup", "closed", "publish"}
              \/ stage = "PROCESS" /\ ~ DrainWindow

ProcessIsPerformed ==
    \A m \in Messangers :
        /\ ProcessDue => processing[m] = "due"
        /\ processing[m] = "due" /\ DrainWindow => ProcessTask(m) \in InSequence(tasksQueue)
        /\ processing[m] \in {"running", "reading"} <=> \E t \in Threads : task[t] = ProcessTask(m)
        /\ stage = "RENDER" => processing[m] = "done"

\* What MessageBus assumes of its callers holds: publish() runs between frames,
\* and each process() runs once in each.  All that holds of MessageBus holds of
\* the program.
BusContract == Bus!Spec

\* No process() holds a message that the main thread has deleted.
HeldAreLive == Bus!HeldAreLive

\* The threads never meet in the Logger, which has no lock: the main thread
\* prints outside the PROCESS phase, and one process() prints in it.
LogFileOwned == Log!LogFileOwned

\* A message sent to a reader by name is read by it, across the two queues, or
\* the window is closed first.
MessageIsRead ==
    \A m \in Readers, k \in 1..MaxMessages :
        (\E i \in 1..Len(pendingMessages) :
            pendingMessages[i] = Bus!Pending(ByName(NameOf[m]), k))
        ~> (k \in held[m] \/ At(Main, "closed"))
=============================================================================
