---------------------------- MODULE EntityManager ----------------------------
(***************************************************************************)
(* EntityManager: objects register entities and properties by messages     *)
(* they send from their constructors; the manager puts them into a tree in *)
(* its process() and shows the tree in its render(), where the button of a *)
(* property makes a message for the object the property belongs to.        *)
(*                                                                         *)
(* The messages go through MessageBus, whose actions are conjuncts of the  *)
(* actions here.  The frame is reduced to its phases: process() of all     *)
(* messangers, concurrently, then render(), which may last into the next   *)
(* publish() but not into the next process() (ProcessableQueue:            *)
(* RenderInMainThread is violated, PhasesSeparated holds).                 *)
(***************************************************************************)
EXTENDS Naturals, Sequences, FiniteSets, SequencesExt

CONSTANTS
    Messangers, Readers, Names, NameOf, None, MaxMessages,  \* as in MessageBus
    Manager,        \* the EntityManager
    Properties,     \* GuiProperty objects
    RecipientOf,    \* RecipientOf[p]: whom p's Update button notifies, or None
    Script,         \* Script[m]: what the constructor of m sends to the manager
    MaxPresses      \* bound: presses of Update buttons

ASSUME EntitiesAssumption ==
    /\ IsFiniteSet(Messangers) /\ NameOf \in [Messangers -> Names]
    /\ Manager \in Readers /\ Readers \subseteq Messangers
    /\ None \notin Messangers \cup Names /\ MaxMessages \in Nat
    /\ RecipientOf \in [Properties -> Names \cup {None}]
    /\ MaxPresses \in Nat

VARIABLES
    messangersList, nameToIndexDict, messangerToMessagesDict,
    messangerToSubscribersDict, pendingMessages, heap, processing, held, emitting,
    content,        \* content[k]: what the message heap[k] says
    constructed,    \* how much of Script[m] the constructor of m has sent
    unread,         \* the positions in its list that m has not handled
    collected,      \* the manager's pendingMessages, made by its properties
    sending,        \* how many of them sendPendingMessages() has sent
    rootEntry,      \* the tree: entries and properties by path
    render,         \* the render phase: "due", "running" or "done"
    presses,        \* the properties whose button was pressed; the n-th press sets n
    received        \* the values each messanger was notified of, in order

Bus == INSTANCE MessageBus
busVars == <<messangersList, nameToIndexDict, messangerToMessagesDict,
             messangerToSubscribersDict, pendingMessages, heap, processing, held, emitting>>
treeVars == <<rootEntry, received>>
guiVars  == <<collected, sending, render, presses>>
vars == <<busVars, content, constructed, unread, treeVars, guiVars>>

\* RegisterEntityMessage, RegisterPropertyMessage, OnPropertyChangeMessage.
RegisterEntity(path) == [type |-> "entity", path |-> path]
RegisterProperty(path, p) == [type |-> "property", path |-> path, property |-> p]
OnPropertyChange(p, value) == [type |-> "change", property |-> p, value |-> value]

ByName(n) == [type |-> "NAME", key |-> n]

Paths == Seq(Names \cup Properties)
Registrations ==
    [type : {"entity"}, path : Paths]
        \cup [type : {"property"}, path : Paths, property : Properties]

\* A constructor registers its object, then properties of the object; the objects
\* that do, and the manager, have names of their own.
ASSUME ScriptsAssumption ==
    /\ Script \in [Messangers -> Seq(Registrations)]
    /\ \A m \in Messangers : \A i \in 1..Len(Script[m]) :
            IF i = 1 THEN Script[m][i] = RegisterEntity(<<>>)
            ELSE \E p \in Properties : Script[m][i] = RegisterProperty(<<NameOf[m]>>, p)
    /\ \A m, n \in Messangers : m # n /\ NameOf[m] = NameOf[n] =>
            m # Manager /\ (Script[m] = <<>> \/ Script[n] = <<>>)

-----------------------------------------------------------------------------
(* GuiEntry: a path is the sequence of names below the root *)

\* createBranch(): makes the entries of the path that do not exist.
CreateBranch(tree, path) ==
    [q \in DOMAIN tree \cup {SubSeq(path, 1, i) : i \in 1..Len(path)} |->
        IF q \in DOMAIN tree THEN tree[q] ELSE None]

\* findEntry() # nullptr.
FindEntry(tree, path) == path = <<>> \/ path \in DOMAIN tree

\* addChild(GuiEntry*): a child of the same name is replaced, with all below it.
\* None is a plain entry; a property is one, too, and has a path of its own.
AddChild(tree, path, child) ==
    [q \in {q \in DOMAIN tree : ~ IsPrefix(path, q)} \cup {path} |->
        IF q = path THEN child ELSE tree[q]]

\* display(): an entry shows its children, a property shows itself only.
Displayed(tree, path) ==
    \A i \in 1..(Len(path) - 1) : tree[SubSeq(path, 1, i)] = None

-----------------------------------------------------------------------------

Init ==
    /\ Bus!Init
    /\ content = <<>>
    /\ constructed = [m \in Messangers |-> 0]
    /\ unread = [m \in Messangers |-> {}]
    /\ collected = <<>> /\ sending = 0
    /\ rootEntry = [q \in {} |-> None]
    /\ render = "done" /\ presses = <<>>
    /\ received = [m \in Messangers |-> <<>>]

\* main() calls the constructors one after the other.
Complete(m) == m \in Bus!Registered /\ constructed[m] = Len(Script[m])

Construct(m) ==
    /\ \A x \in Bus!Registered : Complete(x)
    /\ Bus!RegisterMessanger(m)
    /\ UNCHANGED <<content, constructed, unread, treeVars, guiVars>>

SendNext(m) ==
    /\ constructed[m] < Len(Script[m])
    /\ Bus!SendMessage(m, ByName(NameOf[Manager]))
    /\ content' = Append(content, Script[m][constructed[m] + 1])
    /\ constructed' = [constructed EXCEPT ![m] = @ + 1]
    /\ UNCHANGED <<unread, treeVars, guiVars>>

\* run() starts when all objects are made, and publishes once per frame.
Publish ==
    /\ render \in {"running", "done"}
    /\ \A m \in Messangers : Complete(m)
    /\ Bus!Publish
    /\ UNCHANGED <<content, constructed, unread, treeVars, guiVars>>

\* No process() starts before render() of the last frame is over.
BeginProcess(m) ==
    /\ render # "running"
    /\ Bus!BeginProcess(m)
    /\ render' = "due"
    /\ UNCHANGED <<content, constructed, unread, treeVars, collected, sending, presses>>

\* sendPendingMessages(), with the list locked.
SendPending ==
    /\ processing[Manager] = "running" /\ sending < Len(collected)
    /\ Bus!SendMessage(Manager, ByName(RecipientOf[collected[sending + 1].property]))
    /\ content' = Append(content, collected[sending + 1])
    /\ sending' = sending + 1
    /\ UNCHANGED <<constructed, unread, treeVars, collected, render, presses>>

\* Mutants: the pending messages are cleared unsent; sent, but not cleared.
GetMessagesUnsent(m) ==
    /\ Bus!GetMessages(m)
    /\ unread' = [unread EXCEPT ![m] = DOMAIN messangerToMessagesDict[m]]
    /\ collected' = (IF m = Manager THEN <<>> ELSE collected)
    /\ sending' = (IF m = Manager THEN 0 ELSE sending)
    /\ UNCHANGED <<content, constructed, treeVars, render, presses>>
GetMessagesKept(m) ==
    /\ m = Manager => sending = Len(collected)
    /\ Bus!GetMessages(m)
    /\ unread' = [unread EXCEPT ![m] = DOMAIN messangerToMessagesDict[m]]
    /\ sending' = (IF m = Manager THEN 0 ELSE sending)
    /\ UNCHANGED <<content, constructed, treeVars, collected, render, presses>>

\* getMessages(), after the manager has sent its pending messages and cleared
\* their list.
GetMessages(m) ==
    /\ m = Manager => sending = Len(collected)
    /\ Bus!GetMessages(m)
    /\ unread' = [unread EXCEPT ![m] = DOMAIN messangerToMessagesDict[m]]
    /\ collected' = (IF m = Manager THEN <<>> ELSE collected)
    /\ sending' = (IF m = Manager THEN 0 ELSE sending)
    /\ UNCHANGED <<content, constructed, treeVars, render, presses>>

\* The loop of process() over the messages, in the order of the list.  The manager
\* is sent only registrations and the others only values, each of its own property
\* (the check of the name, SingleMeshLodTerrain.cpp:143, decides what is logged).
Handle(m) ==
    \E i \in unread[m] :
        /\ \A j \in unread[m] : i <= j
        /\ unread' = [unread EXCEPT ![m] = @ \ {i}]
        /\ LET k == messangerToMessagesDict[m][i]
               c == content[k]
           IN  \/ /\ m = Manager /\ c.type = "entity"
                  /\ rootEntry' = AddChild(CreateBranch(rootEntry, c.path),
                                           Append(c.path, NameOf[heap[k].sender]), None)
                  /\ UNCHANGED received
               \/ /\ m = Manager /\ c.type = "property"
                  /\ rootEntry' = (IF FindEntry(rootEntry, c.path)
                                   THEN AddChild(rootEntry, Append(c.path, c.property), c.property)
                                   ELSE rootEntry)
                  /\ UNCHANGED received
               \/ /\ m # Manager /\ c.type = "change"
                  /\ received' = [received EXCEPT ![m] = Append(@, c.value)]
                  /\ UNCHANGED rootEntry
        /\ UNCHANGED <<busVars, content, constructed, guiVars>>

\* Mutant: break instead of continue.
EndProcessEarly(m) ==
    /\ Bus!EndProcess(m)
    /\ UNCHANGED <<content, constructed, unread, treeVars, guiVars>>

EndProcess(m) ==
    /\ unread[m] = {}
    /\ Bus!EndProcess(m)
    /\ UNCHANGED <<content, constructed, unread, treeVars, guiVars>>

\* Mutant: render() starts when one process() has returned.
RenderDueEarly == \E m \in Messangers : processing[m] = "done"
RenderDue == \A m \in Messangers : processing[m] = "done"

\* Engine::run() calls render() when every process() has returned.
StartRender ==
    /\ render = "due" /\ RenderDue
    /\ render' = "running"
    /\ UNCHANGED <<busVars, content, constructed, unread, treeVars, collected, sending, presses>>

\* Update is clicked while display() is at p, once a frame at most:
\* GuiProperty::sendMessage() -> addMessage().
Press(p) ==
    /\ render = "running" /\ Len(presses) < MaxPresses /\ RecipientOf[p] # None
    /\ \E q \in DOMAIN rootEntry : rootEntry[q] = p /\ Displayed(rootEntry, q)
    /\ \A i \in 1..Len(collected) : collected[i].property # p
    /\ collected' = Append(collected, OnPropertyChange(p, Len(presses) + 1))
    /\ presses' = Append(presses, p)
    /\ UNCHANGED <<busVars, content, constructed, unread, treeVars, sending, render>>

EndRender ==
    /\ render = "running"
    /\ render' = "done"
    /\ UNCHANGED <<busVars, content, constructed, unread, treeVars, collected, sending, presses>>

Process(m) ==
    \/ BeginProcess(m) \/ GetMessages(m) \/ Handle(m) \/ EndProcess(m)
    \/ m = Manager /\ SendPending

Next ==
    \/ Publish \/ StartRender \/ EndRender
    \/ \E m \in Messangers : Construct(m) \/ SendNext(m) \/ Process(m)
    \/ \E p \in Properties : Press(p)

Spec == Init /\ [][Next]_vars

\* The frame goes on: publish(), each process() and render() are performed
\* (ProcessableQueue: FrameEnds, EveryTaskPerformed).
FairSpec ==
    /\ Spec /\ WF_vars(Publish) /\ WF_vars(StartRender) /\ WF_vars(EndRender)
    /\ \A m \in Messangers : WF_vars(Process(m))

-----------------------------------------------------------------------------
(* Properties *)

Contents == UNION {{Script[m][i] : i \in 1..Len(Script[m])} : m \in Messangers}
Changes == [type : {"change"}, property : Properties, value : 1..MaxPresses]

\* The type of the state: every message has a content, the tree has no child
\* without its parent, and what is sent of the pending messages is a part of them.
TypeOK ==
    /\ Bus!TypeOK
    /\ Len(content) = Len(heap) /\ content \in Seq(Contents \cup Changes)
    /\ \A m \in Messangers : constructed[m] \in 0..Len(Script[m])
    /\ \A m \in Messangers : unread[m] # {} =>
            processing[m] = "reading" /\ unread[m] \subseteq DOMAIN messangerToMessagesDict[m]
    /\ collected \in Seq(Changes) /\ sending \in 0..Len(collected)
    /\ \A q \in DOMAIN rootEntry :
            /\ q # <<>> /\ rootEntry[q] \in Properties \cup {None}
            /\ Len(q) > 1 => Front(q) \in DOMAIN rootEntry
    /\ render \in {"due", "running", "done"}
    /\ presses \in Seq(Properties) /\ Len(presses) <= MaxPresses
    /\ received \in [Messangers -> Seq(1..MaxPresses)]

\* Whenever the tree is displayed, it holds what the constructors registered
\* and nothing else, and each property can be seen: whatever the order of the
\* constructors, no property came before its entity, no entry replaced one
\* that was in use, no message was dropped because the manager, which is
\* constructed last, did not exist.
RegisteredIsShown ==
    LET Path(m, c) == Append(c.path, IF c.type = "entity" THEN NameOf[m] ELSE c.property)
    IN  render = "running" =>
            /\ DOMAIN rootEntry =
                    UNION {{Path(m, Script[m][i]) : i \in 1..Len(Script[m])} : m \in Messangers}
            /\ \A m \in Messangers : \A i \in 1..Len(Script[m]) :
                    LET c == Script[m][i]
                    IN  c.type = "property" =>
                            /\ rootEntry[Path(m, c)] = c.property
                            /\ Displayed(rootEntry, Path(m, c))

\* render() walks the tree and the properties add to the manager's pending
\* messages while it does; nobody changes the tree or sends those meanwhile.
StillWhileDisplayed ==
    [][render = "running" => UNCHANGED <<rootEntry, sending>>]_vars

\* A messanger is notified of the presses of its properties' buttons, of each once
\* and in order: the message is collected in one frame, sent in the next and read
\* in the one after that, and is neither lost nor repeated on the way.
NotifiedInOrder ==
    \A m \in Messangers : \A i \in 1..Len(received[m]) :
        LET n == received[m][i]
        IN  /\ n \in 1..Len(presses) /\ RecipientOf[presses[n]] = NameOf[m]
            /\ \A j \in 1..(i - 1) : received[m][j] < n
            /\ \A l \in 1..(n - 1) : RecipientOf[presses[l]] = NameOf[m] =>
                    \E j \in 1..(i - 1) : received[m][j] = l

\* Every press reaches the object the property belongs to.
PressIsReceived ==
    \A n \in 1..MaxPresses :
        Len(presses) >= n ~>
            /\ Len(presses) >= n
            /\ \E m \in Messangers : \E i \in 1..Len(received[m]) :
                    NameOf[m] = RecipientOf[presses[n]] /\ received[m][i] = n
=============================================================================
