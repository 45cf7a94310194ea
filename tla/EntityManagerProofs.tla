------------------------- MODULE EntityManagerProofs -------------------------
(***************************************************************************)
(* Proofs about EntityManager, for any messangers, scripts and properties: *)
(* the manager and its entities use the bus as MessageBus assumes, so what *)
(* is proved of the bus holds here; the variables have their types and the *)
(* tree is one; it is still while it is displayed, and is what the         *)
(* constructors registered; and the presses of the buttons reach their     *)
(* object once and in order.                                               *)
(***************************************************************************)
EXTENDS EntityManager, SequenceTheorems, TLAPS

\* A messanger has messages to handle only between its getMessages() and the
\* end of its process().
UnreadWhileReading ==
    /\ processing = [m \in Messangers |-> processing[m]]
    /\ unread = [m \in Messangers |-> unread[m]]
    /\ \A m \in Messangers : unread[m] # {} => processing[m] = "reading"

\* While the tree is displayed, no process() has begun and not ended.
NobodyProcesses ==
    render = "running" => \A m \in Messangers : processing[m] \in {"due", "done"}

\* The inductive invariant.
Inv == UnreadWhileReading /\ NobodyProcesses

\* At the start nobody reads and nothing is displayed.
LEMMA InvInit == Init => Inv
  BY DEF Init, Bus!Init, Inv, UnreadWhileReading, NobodyProcesses

\* publish() runs when no process() does.
LEMMA PublishStep == ASSUME Inv, Publish PROVE Inv'
  <1>1. /\ \A m \in Messangers : m \in Bus!Registered
        /\ \A m \in Bus!Registered : processing[m] \in {"setup", "done"}
        /\ processing' = [m \in Messangers |-> IF m \in Bus!Registered THEN "due" ELSE "never"]
        /\ unread' = unread /\ render' = render
    BY DEF Publish, Complete, Bus!Publish, Bus!PublishMessages, Bus!PublishDue, guiVars
  <1>2. \A m \in Messangers : unread[m] = {}
    BY <1>1 DEF Inv, UnreadWhileReading
  <1>3. \A m \in Messangers : processing'[m] = "due" BY <1>1
  <1> QED BY <1>1, <1>2, <1>3 DEF Inv, UnreadWhileReading, NobodyProcesses

\* The steps of a process(): they happen while nothing is displayed.
LEMMA ProcessStep == ASSUME Inv, NEW m \in Messangers, Process(m) PROVE Inv' /\ render # "running"
  <1> USE DEF Inv, UnreadWhileReading, NobodyProcesses
  <1>1. CASE BeginProcess(m)
    <2>1. /\ render # "running" /\ render' = "due" /\ unread' = unread
          /\ processing[m] = "due" /\ processing' = [processing EXCEPT ![m] = "running"]
      BY <1>1 DEF BeginProcess, Bus!BeginProcess, Bus!StartProcess
    <2> QED BY <2>1
  <1>2. CASE GetMessages(m)
    <2>1. /\ render' = render
          /\ unread' = [unread EXCEPT ![m] = DOMAIN messangerToMessagesDict[m]]
          /\ processing[m] = "running" /\ processing' = [processing EXCEPT ![m] = "reading"]
      BY <1>2 DEF GetMessages, Bus!GetMessages
    <2>2. render # "running" BY <2>1
    <2> QED BY <2>1, <2>2
  <1>3. CASE Handle(m)
    <2>1. PICK i \in unread[m] : unread' = [unread EXCEPT ![m] = @ \ {i}]
      BY <1>3 DEF Handle
    <2>2. processing' = processing /\ render' = render
      BY <1>3 DEF Handle, busVars, guiVars
    <2>3. processing[m] = "reading" /\ render # "running" BY <2>1
    <2> QED BY <2>1, <2>2, <2>3
  <1>4. CASE EndProcess(m)
    <2>1. /\ unread[m] = {} /\ unread' = unread /\ render' = render
          /\ processing[m] = IF m \in Readers THEN "reading" ELSE "running"
          /\ processing' = [processing EXCEPT ![m] = "done"]
      BY <1>4 DEF EndProcess, Bus!EndProcess, guiVars
    <2>2. render # "running" BY <2>1
    <2> QED BY <2>1, <2>2
  <1>5. CASE m = Manager /\ SendPending
    <2>1. processing[m] = "running" /\ UNCHANGED <<processing, unread, render>>
      BY <1>5 DEF SendPending, Bus!SendMessage, Bus!calls
    <2>2. render # "running" BY <2>1
    <2> QED BY <2>1, <2>2
  <1> QED BY <1>1, <1>2, <1>3, <1>4, <1>5 DEF Process

\* The steps outside process() change neither who reads nor, but for render(), what is displayed.
LEMMA InvStep == ASSUME Inv, [Next]_vars PROVE Inv'
  <1>1. ASSUME UNCHANGED <<processing, unread>>, render' # "running" \/ render' = render PROVE Inv'
    BY <1>1 DEF Inv, UnreadWhileReading, NobodyProcesses
  <1>2. CASE Publish BY <1>2, PublishStep
  <1>3. CASE StartRender
    <2>1. /\ \A m \in Messangers : processing[m] = "done"
          /\ UNCHANGED <<processing, unread>>
      BY <1>3 DEF StartRender, RenderDue, busVars
    <2> QED BY <2>1 DEF Inv, UnreadWhileReading, NobodyProcesses
  <1>4. CASE EndRender BY <1>1, <1>4 DEF EndRender, busVars
  <1>5. ASSUME NEW m \in Messangers, Construct(m) PROVE Inv'
    BY <1>1, <1>5 DEF Construct, guiVars, Bus!RegisterMessanger, Bus!AddMessanger, Bus!calls
  <1>6. ASSUME NEW m \in Messangers, SendNext(m) PROVE Inv'
    BY <1>1, <1>6 DEF SendNext, guiVars, Bus!SendMessage, Bus!calls
  <1>7. ASSUME NEW m \in Messangers, Process(m) PROVE Inv' BY <1>7, ProcessStep
  <1>8. ASSUME NEW p \in Properties, Press(p) PROVE Inv'
    BY <1>1, <1>8 DEF Press, busVars
  <1>9. CASE UNCHANGED vars BY <1>1, <1>9 DEF vars, busVars, guiVars
  <1> QED BY <1>2, <1>3, <1>4, <1>5, <1>6, <1>7, <1>8, <1>9 DEF Next

\* No step changes the tree or sends pending messages while it is displayed.
LEMMA StillStep ==
    ASSUME Inv, [Next]_vars
    PROVE  render = "running" => UNCHANGED <<rootEntry, sending>>
  <1>1. CASE Publish BY <1>1 DEF Publish, treeVars, guiVars
  <1>2. CASE StartRender BY <1>2 DEF StartRender
  <1>3. CASE EndRender BY <1>3 DEF EndRender, treeVars
  <1>4. ASSUME NEW m \in Messangers, Construct(m) \/ SendNext(m)
        PROVE  UNCHANGED <<rootEntry, sending>>
    BY <1>4 DEF Construct, SendNext, treeVars, guiVars
  <1>5. ASSUME NEW m \in Messangers, Process(m) PROVE render # "running"
    BY <1>5, ProcessStep
  <1>6. ASSUME NEW p \in Properties, Press(p) PROVE UNCHANGED <<rootEntry, sending>>
    BY <1>6 DEF Press, treeVars
  <1>7. CASE UNCHANGED vars BY <1>7 DEF vars, treeVars, guiVars
  <1> QED BY <1>1, <1>2, <1>3, <1>4, <1>5, <1>6, <1>7 DEF Next

\* StillWhileDisplayed: display() walks a tree nobody changes, and addMessage()
\* adds to a list nobody sends, for any entities and in any order of threads.
THEOREM StillCorrect == Spec => StillWhileDisplayed
  <1>1. Spec => []Inv BY InvInit, InvStep, PTL DEF Spec
  <1>2. Inv /\ [Next]_vars => [render = "running" => UNCHANGED <<rootEntry, sending>>]_vars
    BY StillStep
  <1> QED BY <1>1, <1>2, PTL DEF Spec, StillWhileDisplayed

-----------------------------------------------------------------------------

\* What the buttons have made and the manager has not sent: each message has
\* somebody to go to.
Notices ==
    [type : {"change"}, property : {p \in Properties : RecipientOf[p] # None}, value : Nat]
CollectedHaveRecipients ==
    /\ presses \in Seq(Properties) /\ sending \in Nat /\ collected \in Seq(Notices)

\* Only a button of a property with a recipient adds to the list.
LEMMA CollectedStep ==
    ASSUME CollectedHaveRecipients, [Next]_vars PROVE CollectedHaveRecipients'
  <1> USE DEF CollectedHaveRecipients
  <1>1. ASSUME UNCHANGED <<presses, sending, collected>> PROVE CollectedHaveRecipients'
    BY <1>1
  <1>2. CASE Publish \/ StartRender \/ EndRender \/ UNCHANGED vars
    BY <1>1, <1>2 DEF Publish, StartRender, EndRender, vars, guiVars
  <1>3. ASSUME NEW m \in Messangers, Construct(m) \/ SendNext(m) PROVE CollectedHaveRecipients'
    BY <1>1, <1>3 DEF Construct, SendNext, guiVars
  <1>4. ASSUME NEW m \in Messangers, BeginProcess(m) \/ Handle(m) \/ EndProcess(m)
        PROVE  CollectedHaveRecipients'
    BY <1>1, <1>4 DEF BeginProcess, Handle, EndProcess, guiVars
  <1>5. ASSUME NEW m \in Messangers, GetMessages(m) PROVE CollectedHaveRecipients'
    BY <1>5 DEF GetMessages
  <1>6. CASE SendPending BY <1>6 DEF SendPending
  <1>7. ASSUME NEW p \in Properties, Press(p) PROVE CollectedHaveRecipients'
    <2>1. Len(presses) + 1 \in Nat OBVIOUS
    <2>2. OnPropertyChange(p, Len(presses) + 1) \in Notices
      BY <1>7, <2>1 DEF Press, OnPropertyChange, Notices
    <2> QED BY <1>7, <2>2 DEF Press
  <1> QED BY <1>2, <1>3, <1>4, <1>5, <1>6, <1>7 DEF Next, Process

\* Every step is one of the bus or leaves it alone.
LEMMA BusStep == ASSUME CollectedHaveRecipients, [Next]_vars PROVE [Bus!Next]_(Bus!vars)
  <1> DEFINE KeepsBus == UNCHANGED busVars
  <1>1. ASSUME KeepsBus PROVE UNCHANGED Bus!vars
    BY <1>1 DEF busVars, Bus!vars, Bus!tables, Bus!boxes, Bus!calls
  <1>2. CASE Publish BY <1>2 DEF Publish, Bus!Next
  <1>3. CASE StartRender \/ EndRender \/ UNCHANGED vars
    BY <1>1, <1>3 DEF StartRender, EndRender, vars
  <1>4. ASSUME NEW m \in Messangers, Construct(m) PROVE Bus!Next
    BY <1>4 DEF Construct, Bus!Next
  <1>5. ASSUME NEW m \in Messangers, SendNext(m) PROVE Bus!Next
    <2>1. ByName(NameOf[Manager]) \in Bus!Recipients
      BY EntitiesAssumption DEF ByName, Bus!Recipients
    <2> QED BY <1>5, <2>1 DEF SendNext, Bus!Next
  <1>6. ASSUME NEW m \in Messangers, BeginProcess(m) \/ GetMessages(m) \/ EndProcess(m)
        PROVE  Bus!Next
    BY <1>6 DEF BeginProcess, GetMessages, EndProcess, Bus!Process, Bus!Next
  <1>7. ASSUME NEW m \in Messangers, Handle(m) PROVE UNCHANGED Bus!vars
    BY <1>1, <1>7 DEF Handle
  <1>8. CASE SendPending
    <2> DEFINE n == RecipientOf[collected[sending + 1].property]
    <2>1. sending + 1 \in 1..Len(collected)
      BY <1>8 DEF SendPending, CollectedHaveRecipients
    <2>2. collected[sending + 1].property \in {p \in Properties : RecipientOf[p] # None}
      <3>1. collected[sending + 1] \in Notices BY <2>1 DEF CollectedHaveRecipients
      <3> QED BY <3>1 DEF Notices
    <2>3. n \in Names BY <2>2, EntitiesAssumption
    <2>4. ByName(n) \in Bus!Recipients BY <2>3 DEF ByName, Bus!Recipients
    <2> QED BY <1>8, <2>4, EntitiesAssumption DEF SendPending, Bus!Next
  <1>9. ASSUME NEW p \in Properties, Press(p) PROVE UNCHANGED Bus!vars
    BY <1>1, <1>9 DEF Press
  <1> QED BY <1>2, <1>3, <1>4, <1>5, <1>6, <1>7, <1>8, <1>9 DEF Next, Process

\* The manager and its entities implement MessageBus: they call it when it
\* expects them to, and whatever a button sends has a recipient.
THEOREM BusKept == Spec => Bus!Spec
  <1>1. Init => Bus!Init /\ CollectedHaveRecipients
    BY DEF Init, CollectedHaveRecipients
  <1> QED BY <1>1, CollectedStep, BusStep, PTL DEF Spec, Bus!Spec

-----------------------------------------------------------------------------
(* What is proved of MessageBus holds here, too.  Bus and Proved are        *)
(* two instances of one module; the lemmas say that they are the same.      *)

Proved == INSTANCE MessageBusOrderProofs

\* The operators on lists of messages are the same in both instances.
LEMMA SameLists ==
    /\ Proved!Registered = Bus!Registered /\ Proved!NoMessages = Bus!NoMessages
    /\ Proved!Recipients = Bus!Recipients
    /\ \A s : Proved!InList(s) = Bus!InList(s)
<1>1. Proved!Registered = Bus!Registered
  BY DEF Proved!Registered, Bus!Registered
<1>2. Proved!NoMessages = Bus!NoMessages /\ \A s : Proved!InList(s) = Bus!InList(s)
  BY DEF Proved!NoMessages, Bus!NoMessages, Proved!InList, Bus!InList
<1>3. Proved!Recipients = Bus!Recipients
  BY Zenon DEF Proved!Recipients, Bus!Recipients, Proved!Cardinality, Bus!Cardinality
<1> QED
  BY <1>1, <1>2, <1>3

\* So is the resolution of recipients,
LEMMA SameRecipient == \A r : Proved!GetRecipient(r) = Bus!GetRecipient(r)
<1>1. \A r : Proved!RecipientIndex(r) = Bus!RecipientIndex(r)
  BY DEF Proved!RecipientIndex, Bus!RecipientIndex, Proved!Find, Bus!Find, Proved!messangerToIndexDict,
        Bus!messangerToIndexDict, Proved!idToIndexDict, Bus!idToIndexDict
<1> QED
  BY <1>1 DEF Proved!GetRecipient, Bus!GetRecipient

\* publish(),
LEMMA SamePublish == Bus!Publish => Proved!Publish
<1>1. \A m : Proved!Delivered(m) = Bus!Delivered(m)
  BY SameRecipient DEF Proved!Delivered, Bus!Delivered
<1>2. \A k : Proved!Deletes(k) = Bus!Deletes(k)
  BY Zenon DEF Proved!Deletes, Bus!Deletes, Proved!Cardinality, Bus!Cardinality, Proved!Listed,
        Bus!Listed, Proved!Registered, Bus!Registered
<1>3. \A k : Proved!RecipientAfter(k) = Bus!RecipientAfter(k)
  BY DEF Proved!RecipientAfter, Bus!RecipientAfter, Proved!GetRecipient, Bus!GetRecipient,
        Proved!RecipientIndex, Bus!RecipientIndex, Proved!Find, Bus!Find, Proved!messangerToIndexDict,
        Bus!messangerToIndexDict, Proved!idToIndexDict, Bus!idToIndexDict
<1>4. Bus!PublishDue => Proved!PublishDue
  BY SameLists DEF Proved!PublishDue, Bus!PublishDue
<1>5. Bus!PublishMessages => Proved!PublishMessages
  BY SameLists, <1>1, <1>2, <1>3 DEF Proved!PublishMessages, Bus!PublishMessages,
        Proved!tables, Bus!tables
<1> QED
  BY <1>4, <1>5 DEF Proved!Publish, Bus!Publish

\* what messangers do without an argument,
LEMMA SameMessanger ==
    ASSUME NEW m
    PROVE  /\ Bus!RegisterMessanger(m) => Proved!RegisterMessanger(m)
           /\ Bus!EmitMessage(m) => Proved!EmitMessage(m)
           /\ Bus!Process(m) => Proved!Process(m)
<1> USE SameLists DEF Proved!tables, Bus!tables, Proved!boxes, Bus!boxes, Proved!calls, Bus!calls
<1>1. Bus!RegisterMessanger(m) => Proved!RegisterMessanger(m)
  BY DEF Bus!RegisterMessanger, Proved!RegisterMessanger, Bus!AddMessanger, Proved!AddMessanger,
        Bus!AddSubscribers, Proved!AddSubscribers, Bus!AddName, Proved!AddName
<1>2. Bus!EmitMessage(m) => Proved!EmitMessage(m)
  BY DEF Proved!EmitMessage, Bus!EmitMessage, Proved!MayCall, Bus!MayCall, Proved!NewMessage,
        Bus!NewMessage, Proved!Pending, Bus!Pending
<1>3. Bus!Process(m) => Proved!Process(m)
  BY DEF Proved!Process, Bus!Process, Proved!BeginProcess, Bus!BeginProcess, Proved!StartProcess,
        Bus!StartProcess, Proved!GetMessages, Bus!GetMessages, Proved!EmitNext, Bus!EmitNext,
        Proved!EndProcess, Bus!EndProcess
<1> QED
  BY <1>1, <1>2, <1>3

\* and their calls with a recipient.
LEMMA SameCalls ==
    ASSUME NEW m, NEW r
    PROVE  /\ Bus!SendMessage(m, r) => Proved!SendMessage(m, r)
           /\ Bus!Subscribe(m, r) => Proved!Subscribe(m, r)
           /\ Bus!Unsubscribe(m, r) => Proved!Unsubscribe(m, r)
<1>1. Proved!Target(r) = Bus!Target(r)
  BY SameRecipient DEF Proved!Target, Bus!Target
<1>2. Proved!MayCall(m) <=> Bus!MayCall(m)
  BY SameLists DEF Proved!MayCall, Bus!MayCall
<1> QED
  BY <1>1, <1>2, SameLists DEF Proved!SendMessage, Bus!SendMessage, Proved!Subscribe, Bus!Subscribe,
        Proved!Unsubscribe, Bus!Unsubscribe, Proved!NewMessage, Bus!NewMessage, Proved!Pending,
        Bus!Pending, Proved!tables, Bus!tables, Proved!boxes, Bus!boxes, Proved!calls, Bus!calls

\* A behaviour of one instance is a behaviour of the other.
LEMMA SameBus == Bus!Spec => Proved!Spec
<1>1. Bus!Init => Proved!Init
  BY SameLists DEF Proved!Init, Bus!Init
<1>2. [Bus!Next]_(Bus!vars) => [Proved!Next]_(Proved!vars)
  BY SamePublish, SameMessanger, SameCalls, SameLists DEF Proved!Next, Bus!Next, Proved!vars, Bus!vars,
        Proved!tables, Bus!tables, Proved!boxes, Bus!boxes, Proved!calls, Bus!calls
<1> QED
  BY <1>1, <1>2, PTL DEF Proved!Spec, Bus!Spec


\* What is used of the bus: the types, and that a list holds allocated messages
\* in ascending order and a name leads to the last messanger registered under it.
BusFacts ==
    /\ messangersList \in Seq(Messangers)
    /\ heap \in Seq([sender : Messangers, recipient : Messangers \cup {None}, deletes : Nat])
    /\ pendingMessages \in Seq([recipient : Bus!Recipients, message : Nat])
    /\ processing \in [Messangers -> {"setup", "due", "running", "reading", "done", "never"}]
    /\ \A m \in Messangers : processing[m] \in {"due", "running", "reading"} => m \in Bus!Registered
    /\ DOMAIN messangerToMessagesDict = Bus!Registered
    /\ \A m \in Bus!Registered : \A i \in DOMAIN messangerToMessagesDict[m] :
            /\ messangerToMessagesDict[m][i] \in 1..Len(heap)
            /\ \A j \in DOMAIN messangerToMessagesDict[m] :
                    i < j => messangerToMessagesDict[m][i] < messangerToMessagesDict[m][j]
    /\ \A i \in 1..Len(pendingMessages) : pendingMessages[i].message \in 1..Len(heap)
    /\ DOMAIN nameToIndexDict = {NameOf[m] : m \in Bus!Registered}
    /\ \A n \in DOMAIN nameToIndexDict :
            nameToIndexDict[n] \in {i \in 1..Len(messangersList) : NameOf[messangersList[i]] = n}

\* The bus keeps its invariants whatever the entities send.
LEMMA BusTypeKept == Spec => []BusFacts /\ []Bus!TypeOK
<1>1. Proved!MessangersAssumption
  BY EntitiesAssumption DEF Proved!MessangersAssumption, Proved!IsFiniteSet, IsFiniteSet
<1>2. Proved!Spec => []Proved!BusInv /\ []Proved!OrderInv /\ []Proved!TypeOK
  BY <1>1, Proved!BusInvariance, Proved!OrderInvariance, Proved!TypeCorrect, PTL
<1>3. Proved!TypeOK => Bus!TypeOK
  BY SameLists DEF Proved!TypeOK, Bus!TypeOK, Proved!MessageIds, Bus!MessageIds
<1>4. Proved!BusInv /\ Proved!OrderInv => BusFacts
  <2> SUFFICES ASSUME Proved!BusInv, Proved!OrderInv PROVE BusFacts
    OBVIOUS
  <2>1. /\ messangersList \in Seq(Messangers)
        /\ heap \in Seq([sender : Messangers, recipient : Messangers \cup {None}, deletes : Nat])
        /\ pendingMessages \in Seq([recipient : Bus!Recipients, message : Nat])
        /\ processing \in [Messangers -> {"setup", "due", "running", "reading", "done", "never"}]
        /\ \A m \in Messangers :
                processing[m] \in {"due", "running", "reading"} => m \in Bus!Registered
    BY SameLists DEF Proved!BusInv, Proved!BusType, Proved!Entry, Proved!HeapRecord
  <2>2. /\ DOMAIN messangerToMessagesDict = Bus!Registered
        /\ \A m \in Bus!Registered : \A i, j \in DOMAIN messangerToMessagesDict[m] :
                i < j => messangerToMessagesDict[m][i] < messangerToMessagesDict[m][j]
    BY SameLists DEF Proved!OrderInv, Proved!ListsAscend, Proved!ListAscends
  <2>3. \A m \in Bus!Registered : \A i \in DOMAIN messangerToMessagesDict[m] :
            messangerToMessagesDict[m][i] \in 1..Len(heap)
    BY SameLists DEF Proved!BusInv, Proved!Live, Proved!IsListed
  <2>4. \A i \in 1..Len(pendingMessages) : pendingMessages[i].message \in 1..Len(heap)
    BY DEF Proved!BusInv, Proved!Live, Proved!InPending
  <2>5. /\ DOMAIN nameToIndexDict = {NameOf[m] : m \in Bus!Registered}
        /\ \A n \in DOMAIN nameToIndexDict :
            nameToIndexDict[n] \in {i \in 1..Len(messangersList) : NameOf[messangersList[i]] = n}
    BY SameLists DEF Proved!OrderInv, Proved!NamesResolved, Proved!Named
  <2> QED
    BY <2>1, <2>2, <2>3, <2>4, <2>5 DEF BusFacts
<1> QED
  BY <1>2, <1>3, <1>4, SameBus, BusKept, PTL

\* No object and not the manager ever holds a message that publish() has deleted,
\* and none is deleted twice.
THEOREM EntitiesHoldLive == Spec => [](Bus!HeldAreLive /\ Bus!DeletedOnce)
<1>1. Proved!MessangersAssumption
  BY EntitiesAssumption DEF Proved!MessangersAssumption, Proved!IsFiniteSet, IsFiniteSet
<1>2. Proved!Spec => []Proved!HeldAreLive /\ []Proved!DeletedOnce
  BY <1>1, Proved!HeldLive, Proved!DeletesOnce, PTL
<1>3. Proved!HeldAreLive /\ Proved!DeletedOnce => Bus!HeldAreLive /\ Bus!DeletedOnce
  BY SameLists DEF Proved!HeldAreLive, Bus!HeldAreLive, Proved!DeletedOnce, Bus!DeletedOnce,
        Proved!MessageIds, Bus!MessageIds
<1> QED
  BY <1>2, <1>3, SameBus, BusKept, PTL

-----------------------------------------------------------------------------
(* Types *)

\* The types of the variables that are not the bus's, and of the tree's.
EntityType ==
    /\ content \in Seq(Contents \cup Changes) /\ Len(content) = Len(heap)
    /\ constructed \in [Messangers -> Nat]
    /\ \A m \in Messangers : constructed[m] <= Len(Script[m])
    /\ unread \in [Messangers -> SUBSET Nat]
    /\ \A m \in Messangers : unread[m] # {} =>
            /\ m \in Readers /\ processing[m] = "reading"
            /\ unread[m] \subseteq DOMAIN messangerToMessagesDict[m]
    /\ \A m \in Bus!Registered : DOMAIN messangerToMessagesDict[m] \subseteq Nat
    /\ collected \in Seq(Changes) /\ sending \in 0..Len(collected)
    /\ render \in {"due", "running", "done"}
    /\ presses \in Seq(Properties) /\ Len(presses) <= MaxPresses
    /\ received \in [Messangers -> Seq(1..MaxPresses)]

\* What the constructors send is a registration.
LEMMA ScriptTypes ==
    /\ \A m \in Messangers : Len(Script[m]) \in Nat
    /\ \A m \in Messangers : \A i \in 1..Len(Script[m]) : Script[m][i] \in Contents
    /\ Contents \subseteq Registrations
<1>1. ASSUME NEW m \in Messangers
      PROVE  Len(Script[m]) \in Nat /\ \A i \in 1..Len(Script[m]) : Script[m][i] \in Registrations
  BY ScriptsAssumption, LenProperties
<1> QED
  BY <1>1 DEF Contents

\* sendMessage() appends to the heap and to the pending list, and that is all.
LEMMA Sends ==
    ASSUME BusFacts, NEW m \in Messangers, NEW r, Bus!SendMessage(m, r)
    PROVE  /\ Len(heap) \in Nat /\ Len(heap') = Len(heap) + 1
           /\ \A k \in 1..Len(heap) : heap'[k] = heap[k]
           /\ heap'[Len(heap) + 1].sender = m
           /\ Len(pendingMessages) \in Nat /\ Len(pendingMessages') = Len(pendingMessages) + 1
           /\ \A i \in 1..Len(pendingMessages) : pendingMessages'[i] = pendingMessages[i]
           /\ pendingMessages'[Len(pendingMessages) + 1]
                = [recipient |-> r, message |-> Len(heap) + 1]
           /\ UNCHANGED <<messangersList, nameToIndexDict, messangerToMessagesDict, processing>>
<1>1. /\ heap' = Append(heap, [sender |-> m, recipient |-> None, deletes |-> 0])
      /\ pendingMessages' = Append(pendingMessages, [recipient |-> r, message |-> Len(heap) + 1])
      /\ UNCHANGED <<messangersList, nameToIndexDict, messangerToMessagesDict, processing>>
  BY DEF Bus!SendMessage, Bus!NewMessage, Bus!Pending, Bus!tables, Bus!calls
<1>2. Len(heap) \in Nat /\ Len(pendingMessages) \in Nat
  BY LenProperties DEF BusFacts
<1> QED
  BY <1>1, <1>2 DEF BusFacts

\* publish() keeps the senders and allocates nothing.
LEMMA Publishes ==
    ASSUME BusFacts, Bus!Publish
    PROVE  /\ Len(heap) \in Nat /\ Len(heap') = Len(heap)
           /\ \A k \in 1..Len(heap) : heap'[k].sender = heap[k].sender
           /\ Len(pendingMessages) \in Nat /\ Len(pendingMessages') = 0
           /\ Bus!Registered' = Bus!Registered
           /\ UNCHANGED <<messangersList, nameToIndexDict>>
           /\ \A m \in Bus!Registered : messangerToMessagesDict'[m] = Bus!Delivered(m)
           /\ \A m \in Bus!Registered : processing[m] \in {"setup", "done"}
           /\ \A m \in Messangers :
                processing'[m] = IF m \in Bus!Registered THEN "due" ELSE "never"
<1>1. Len(heap) \in Nat /\ Len(pendingMessages) \in Nat
  BY LenProperties DEF BusFacts
<1>2. /\ pendingMessages' = <<>>
      /\ UNCHANGED <<messangersList, nameToIndexDict>>
      /\ \A m \in Bus!Registered : messangerToMessagesDict'[m] = Bus!Delivered(m)
      /\ \A m \in Bus!Registered : processing[m] \in {"setup", "done"}
      /\ \A m \in Messangers :
            processing'[m] = IF m \in Bus!Registered THEN "due" ELSE "never"
      /\ heap' = [k \in 1..Len(heap) |-> [heap[k] EXCEPT !.deletes = @ + Bus!Deletes(k),
                                            !.recipient = Bus!RecipientAfter(k)]]
  BY DEF Bus!Publish, Bus!PublishMessages, Bus!PublishDue, Bus!tables
<1>3. Len(heap') = Len(heap)
  <2>1. PICK S : S = {heap'[k] : k \in 1..Len(heap)}
    OBVIOUS
  <2>2. heap' \in [1..Len(heap) -> S]
    BY <1>2, <2>1
  <2> QED
    BY <1>1, <2>2
<1>4. \A k \in 1..Len(heap) : heap'[k].sender = heap[k].sender
  <2> SUFFICES ASSUME NEW k \in 1..Len(heap) PROVE heap'[k].sender = heap[k].sender
    OBVIOUS
  <2>1. heap[k] \in [sender : Messangers, recipient : Messangers \cup {None}, deletes : Nat]
    BY ElementOfSeq DEF BusFacts
  <2> QED
    BY <1>2, <2>1
<1>5. Bus!Registered' = Bus!Registered
  BY <1>2 DEF Bus!Registered
<1> QED
  BY <1>1, <1>2, <1>3, <1>4, <1>5

\* registerMessanger() adds a messanger with an empty list.
LEMMA Registers ==
    ASSUME BusFacts, NEW m \in Messangers, Bus!RegisterMessanger(m)
    PROVE  /\ processing[m] = "setup" /\ m \notin Bus!Registered
           /\ Bus!Registered' = Bus!Registered \cup {m}
           /\ \A x \in Bus!Registered : messangerToMessagesDict'[x] = messangerToMessagesDict[x]
           /\ DOMAIN messangerToMessagesDict'[m] = {}
           /\ UNCHANGED <<pendingMessages, heap, processing>>
<1> USE DEF Bus!RegisterMessanger, Bus!AddMessanger
<1>1. /\ Len(messangersList) \in Nat /\ Len(messangersList') = Len(messangersList) + 1
      /\ \A i \in 1..Len(messangersList) : messangersList'[i] = messangersList[i]
      /\ messangersList'[Len(messangersList) + 1] = m
  BY AppendProperties, LenProperties DEF BusFacts
<1>2. 1..(Len(messangersList) + 1) = 1..Len(messangersList) \cup {Len(messangersList) + 1}
  BY <1>1
<1>3. Bus!Registered' = Bus!Registered \cup {m}
  BY <1>1, <1>2 DEF Bus!Registered
<1> QED
  BY <1>3 DEF Bus!NoMessages, Bus!calls

\* The types at the start.
LEMMA EntityTypeInit == Init => EntityType
<1> SUFFICES ASSUME Init PROVE EntityType
  OBVIOUS
<1>1. Bus!Registered = {} /\ Len(heap) = 0
  BY DEF Init, Bus!Init, Bus!Registered
<1>2. <<>> \in Seq(Contents \cup Changes) /\ Len(<<>>) = 0 /\ <<>> \in Seq(1..MaxPresses)
  OBVIOUS
<1>3. constructed = [m \in Messangers |-> 0] /\ \A m \in Messangers : 0 <= Len(Script[m])
  BY ScriptTypes DEF Init
<1> QED
  BY <1>1, <1>2, <1>3, EntitiesAssumption DEF Init, EntityType

\* What is sent has a content, and nothing else a sender's step writes is typed here.
LEMMA EntityTypeSent ==
    ASSUME BusFacts, EntityType, NEW m \in Messangers, NEW r, Bus!SendMessage(m, r),
           NEW c \in Contents \cup Changes, content' = Append(content, c)
    PROVE  /\ content' \in Seq(Contents \cup Changes) /\ Len(content') = Len(heap')
           /\ Bus!Registered' = Bus!Registered
           /\ UNCHANGED <<messangerToMessagesDict, processing>>
<1>1. Len(heap') = Len(heap) + 1 /\ UNCHANGED <<messangersList, messangerToMessagesDict, processing>>
  BY Sends
<1> QED
  BY <1>1, AppendProperties DEF EntityType, Bus!Registered

\* The steps of a process().
LEMMA EntityTypeProcess ==
    ASSUME BusFacts, EntityType, NEW m \in Messangers, Process(m) PROVE EntityType'
<1>0. /\ processing \in [Messangers -> {"setup", "due", "running", "reading", "done", "never"}]
      /\ UNCHANGED messangersList => Bus!Registered' = Bus!Registered
  BY DEF BusFacts, Bus!Registered
<1>1. CASE BeginProcess(m)
  <2>1. /\ processing' = [processing EXCEPT ![m] = "running"] /\ processing[m] = "due"
        /\ render' = "due"
        /\ UNCHANGED <<heap, messangersList, messangerToMessagesDict, content, constructed, unread,
                       received, collected, sending, presses>>
    BY <1>1 DEF BeginProcess, Bus!BeginProcess, Bus!StartProcess, Bus!tables, Bus!boxes, treeVars
  <2> QED
    BY <1>0, <2>1 DEF EntityType
<1>2. CASE GetMessages(m)
  <2>1. /\ processing' = [processing EXCEPT ![m] = "reading"] /\ processing[m] = "running"
        /\ m \in Readers
        /\ unread' = [unread EXCEPT ![m] = DOMAIN messangerToMessagesDict[m]]
        /\ collected' = (IF m = Manager THEN <<>> ELSE collected)
        /\ sending' = (IF m = Manager THEN 0 ELSE sending)
        /\ UNCHANGED <<heap, messangersList, messangerToMessagesDict, content, constructed,
                       received, render, presses>>
    BY <1>2 DEF GetMessages, Bus!GetMessages, Bus!tables, Bus!boxes, treeVars
  <2>2. m \in Bus!Registered /\ Bus!Registered' = Bus!Registered
    BY <2>1 DEF BusFacts, Bus!Registered
  <2>3. collected' \in Seq(Changes) /\ sending' \in 0..Len(collected')
    BY <2>1 DEF EntityType
  <2>4. unread' \in [Messangers -> SUBSET Nat]
    BY <2>1, <2>2 DEF EntityType
  <2>5. \A x \in Messangers : unread'[x] # {} =>
            /\ x \in Readers /\ processing'[x] = "reading"
            /\ unread'[x] \subseteq DOMAIN messangerToMessagesDict'[x]
    BY <2>1 DEF EntityType, BusFacts
  <2> QED
    BY <2>1, <2>2, <2>3, <2>4, <2>5 DEF EntityType
<1>3. CASE Handle(m)
  <2>1. PICK i \in unread[m] :
            /\ unread' = [unread EXCEPT ![m] = @ \ {i}]
            /\ LET k == messangerToMessagesDict[m][i]
                   c == content[k]
               IN  \/ UNCHANGED received
                   \/ c.type = "change" /\ received' = [received EXCEPT ![m] = Append(@, c.value)]
    BY <1>3 DEF Handle
  <2>2. UNCHANGED <<heap, messangersList, messangerToMessagesDict, processing, content, constructed,
                    collected, sending, render, presses>>
    BY <1>3 DEF Handle, busVars, guiVars
  <2> DEFINE k == messangerToMessagesDict[m][i]
  <2>3. m \in Bus!Registered /\ k \in 1..Len(content) /\ Bus!Registered' = Bus!Registered
    <3>1. m \in Bus!Registered /\ i \in DOMAIN messangerToMessagesDict[m]
      BY DEF BusFacts, EntityType
    <3> QED
      BY <1>0, <2>2, <3>1 DEF BusFacts, EntityType
  <2>4. content[k] \in Contents \cup Changes
    BY <2>3 DEF EntityType
  <2>5. content[k].type = "change" => content[k].value \in 1..MaxPresses
    BY <2>4, ScriptTypes DEF Registrations, Changes
  <2>6. received' \in [Messangers -> Seq(1..MaxPresses)]
    <3>1. CASE UNCHANGED received
      BY <3>1 DEF EntityType
    <3>2. CASE content[k].type = "change"
               /\ received' = [received EXCEPT ![m] = Append(@, content[k].value)]
      <4>1. Append(received[m], content[k].value) \in Seq(1..MaxPresses)
        BY <2>5, <3>2, AppendProperties DEF EntityType
      <4> QED
        BY <3>2, <4>1 DEF EntityType
    <3> QED
      BY <2>1, <3>1, <3>2
  <2>7. unread' \in [Messangers -> SUBSET Nat] /\ \A x \in Messangers : unread'[x] \subseteq unread[x]
    BY <2>1 DEF EntityType
  <2> QED
    BY <2>2, <2>3, <2>6, <2>7 DEF EntityType
<1>4. CASE EndProcess(m)
  <2>1. /\ processing' = [processing EXCEPT ![m] = "done"] /\ unread[m] = {}
        /\ UNCHANGED <<heap, messangersList, messangerToMessagesDict, content, constructed, unread,
                       received, collected, sending, render, presses>>
    BY <1>4 DEF EndProcess, Bus!EndProcess, Bus!tables, Bus!boxes, treeVars, guiVars
  <2> QED
    BY <1>0, <2>1 DEF EntityType
<1>5. CASE m = Manager /\ SendPending
  <2>1. sending + 1 \in 1..Len(collected) /\ sending' = sending + 1
    BY <1>5 DEF SendPending, EntityType
  <2>2. collected[sending + 1] \in Contents \cup Changes
    BY <2>1 DEF EntityType
  <2>3. /\ content' \in Seq(Contents \cup Changes) /\ Len(content') = Len(heap')
        /\ Bus!Registered' = Bus!Registered
        /\ UNCHANGED <<messangerToMessagesDict, processing>>
    BY <1>5, <2>2, EntityTypeSent DEF SendPending
  <2>4. UNCHANGED <<constructed, unread, received, collected, render, presses>>
    BY <1>5 DEF SendPending, treeVars
  <2>5. sending' \in 0..Len(collected')
    BY <2>1, <2>4
  <2> QED
    BY <2>3, <2>4, <2>5 DEF EntityType
<1> QED
  BY <1>1, <1>2, <1>3, <1>4, <1>5 DEF Process

\* The types are kept by every step.
LEMMA EntityTypeStep ==
    ASSUME BusFacts, Inv, EntityType, [Next]_vars PROVE EntityType'
<1>1. ASSUME UNCHANGED <<heap, messangersList, messangerToMessagesDict, processing, content,
                         constructed, unread, received, collected, sending, presses>>,
             render' \in {"due", "running", "done"}
      PROVE  EntityType'
  BY <1>1 DEF EntityType, Bus!Registered
<1>2. CASE Publish
  <2>1. UNCHANGED <<content, constructed, unread, received, collected, sending, render, presses>>
    BY <1>2 DEF Publish, treeVars, guiVars
  <2>2. Bus!Publish /\ \A m \in Messangers : m \in Bus!Registered
    BY <1>2 DEF Publish, Complete
  <2>3. /\ Len(heap') = Len(heap) /\ Bus!Registered' = Bus!Registered
        /\ \A m \in Bus!Registered : messangerToMessagesDict'[m] = Bus!Delivered(m)
        /\ \A m \in Messangers : processing[m] \in {"setup", "done"}
    BY <2>2, Publishes
  <2>4. \A m \in Messangers : unread'[m] = {}
    BY <2>1, <2>3 DEF EntityType
  <2>5. \A m \in Bus!Registered' : DOMAIN messangerToMessagesDict'[m] \subseteq Nat
    <3>1. \A m : DOMAIN Bus!Delivered(m) \subseteq 1..Len(pendingMessages)
      BY DEF Bus!Delivered
    <3> QED
      BY <2>3, <3>1
  <2> QED
    BY <2>1, <2>3, <2>4, <2>5 DEF EntityType
<1>3. CASE StartRender \/ EndRender \/ UNCHANGED vars
  BY <1>1, <1>3 DEF StartRender, EndRender, vars, busVars, treeVars, guiVars, EntityType
<1>4. ASSUME NEW m \in Messangers, Construct(m) PROVE EntityType'
  <2>1. UNCHANGED <<content, constructed, unread, received, collected, sending, render, presses>>
    BY <1>4 DEF Construct, treeVars, guiVars
  <2>2. /\ processing[m] = "setup" /\ m \notin Bus!Registered
        /\ Bus!Registered' = Bus!Registered \cup {m}
        /\ \A x \in Bus!Registered : messangerToMessagesDict'[x] = messangerToMessagesDict[x]
        /\ DOMAIN messangerToMessagesDict'[m] = {}
        /\ UNCHANGED <<heap, processing>>
    BY <1>4, Registers DEF Construct
  <2>3. \A x \in Messangers : unread[x] # {} => x \in Bus!Registered
    BY DEF EntityType, BusFacts
  <2> QED
    BY <2>1, <2>2, <2>3 DEF EntityType
<1>5. ASSUME NEW m \in Messangers, SendNext(m) PROVE EntityType'
  <2>1. constructed[m] + 1 \in 1..Len(Script[m])
    BY <1>5, ScriptTypes DEF SendNext, EntityType
  <2>2. Script[m][constructed[m] + 1] \in Contents \cup Changes
    BY <2>1, ScriptTypes
  <2>3. /\ content' \in Seq(Contents \cup Changes) /\ Len(content') = Len(heap')
        /\ Bus!Registered' = Bus!Registered
        /\ UNCHANGED <<messangerToMessagesDict, processing>>
    BY <1>5, <2>2, EntityTypeSent DEF SendNext
  <2>4. /\ UNCHANGED <<unread, received, collected, sending, render, presses>>
        /\ constructed' = [constructed EXCEPT ![m] = @ + 1]
    BY <1>5 DEF SendNext, treeVars, guiVars
  <2>5. constructed' \in [Messangers -> Nat] /\ \A x \in Messangers : constructed'[x] <= Len(Script[x])
    BY <2>1, <2>4 DEF EntityType
  <2> QED
    BY <2>3, <2>4, <2>5 DEF EntityType
<1>6. ASSUME NEW m \in Messangers, Process(m) PROVE EntityType'
  BY <1>6, EntityTypeProcess
<1>7. ASSUME NEW p \in Properties, Press(p) PROVE EntityType'
  <2>1. /\ UNCHANGED <<heap, messangersList, messangerToMessagesDict, processing, content,
                       constructed, unread, received, sending, render>>
        /\ presses' = Append(presses, p) /\ Len(presses) < MaxPresses
        /\ collected' = Append(collected, OnPropertyChange(p, Len(presses) + 1))
    BY <1>7 DEF Press, busVars, treeVars
  <2>2. Len(presses) \in Nat /\ Len(presses) + 1 \in 1..MaxPresses
    BY <2>1, EntitiesAssumption DEF EntityType
  <2>3. OnPropertyChange(p, Len(presses) + 1) \in Changes
    BY <2>2 DEF OnPropertyChange, Changes
  <2>4. presses' \in Seq(Properties) /\ Len(presses') <= MaxPresses
    BY <2>1, <2>2 DEF EntityType
  <2>5. collected' \in Seq(Changes) /\ Len(collected') = Len(collected) + 1 /\ Len(collected) \in Nat
    BY <2>1, <2>3 DEF EntityType
  <2>6. sending' \in 0..Len(collected')
    BY <2>1, <2>5 DEF EntityType
  <2> QED
    BY <2>1, <2>4, <2>5, <2>6 DEF EntityType, Bus!Registered
<1> QED
  BY <1>2, <1>3, <1>4, <1>5, <1>6, <1>7 DEF Next

-----------------------------------------------------------------------------
(* The tree of entries *)

\* A tree: below the root there is nothing without what it is in.
IsTree(tree) ==
    \A q \in DOMAIN tree :
        /\ q \in Paths /\ q # <<>> /\ tree[q] \in Properties \cup {None}
        /\ Len(q) > 1 => Front(q) \in DOMAIN tree

\* The first elements of a path.
Upto(path, i) == SubSeq(path, 1, i)

\* They are a path.
LEMMA PathUpto ==
    ASSUME NEW path \in Paths, NEW i \in 0..Len(path)
    PROVE  /\ Upto(path, i) \in Paths /\ Len(Upto(path, i)) = i
           /\ \A j \in 1..i : Upto(path, i)[j] = path[j]
<1>1. Len(path) \in Nat /\ i \in Int /\ \A j \in 1..i : path[j] \in Names \cup Properties
  BY LenProperties DEF Paths
<1>2. /\ SubSeq(path, 1, i) \in Seq(Names \cup Properties)
      /\ Len(SubSeq(path, 1, i)) = IF 1 <= i THEN i - 1 + 1 ELSE 0
      /\ \A j \in 1..(i - 1 + 1) : SubSeq(path, 1, i)[j] = path[1 + j - 1]
  BY <1>1, SubSeqProperties
<1>3. /\ i - 1 + 1 = i /\ (IF 1 <= i THEN i - 1 + 1 ELSE 0) = i
      /\ \A j \in 1..i : 1 + j - 1 = j
  BY <1>1
<1>4. \A j \in 1..i : SubSeq(path, 1, i)[j] = path[j]
  BY <1>2, <1>3
<1> QED
  <2>1. Len(SubSeq(path, 1, i)) = i
    BY <1>2, <1>3
  <2> QED
    BY <1>2, <1>4, <2>1 DEF Paths, Upto

\* Two paths with the same elements are the same.
LEMMA SamePath ==
    ASSUME NEW p \in Paths, NEW q \in Paths, Len(p) = Len(q), \A i \in 1..Len(p) : p[i] = q[i]
    PROVE  p = q
BY SeqEqual DEF Paths

\* A prefix of the prefix of a path is a prefix of the path.
LEMMA PrefixOfFront ==
    ASSUME NEW p \in Paths, NEW q \in Paths, Len(q) > 1, IsPrefix(p, Front(q))
    PROVE  IsPrefix(p, q)
<1>1. Len(p) \in Nat /\ Len(q) \in Nat /\ Len(q) - 1 \in 0..Len(q)
  BY LenProperties DEF Paths
<1>2. PICK f : f = Front(q)
  OBVIOUS
<1>3. f \in Paths /\ Len(f) = Len(q) - 1 /\ \A j \in 1..(Len(q) - 1) : f[j] = q[j]
  BY <1>1, <1>2, PathUpto DEF Front, Upto
<1>4. Len(p) <= Len(f) /\ Upto(p, Len(p)) = Upto(f, Len(p))
  BY <1>2 DEF IsPrefix, Upto
<1>5. Len(p) \in 0..Len(f) /\ Len(p) \in 0..Len(q)
  BY <1>1, <1>3, <1>4
<1>6. /\ Upto(q, Len(p)) \in Paths /\ Len(Upto(q, Len(p))) = Len(p)
      /\ \A j \in 1..Len(p) : Upto(q, Len(p))[j] = q[j]
  BY <1>5, PathUpto
<1>7. /\ Upto(f, Len(p)) \in Paths /\ Len(Upto(f, Len(p))) = Len(p)
      /\ \A j \in 1..Len(p) : Upto(f, Len(p))[j] = f[j]
  BY <1>3, <1>5, PathUpto
<1>8. \A j \in 1..Len(p) : f[j] = q[j]
  BY <1>1, <1>3, <1>5
<1>9. Upto(f, Len(p)) = Upto(q, Len(p))
  BY <1>6, <1>7, <1>8, SamePath
<1> QED
  BY <1>4, <1>5, <1>9 DEF IsPrefix, Upto

\* createBranch() leaves a tree that has the whole path.
LEMMA BranchCreated ==
    ASSUME NEW tree, IsTree(tree), NEW path \in Paths
    PROVE  /\ IsTree(CreateBranch(tree, path))
           /\ path = <<>> \/ path \in DOMAIN CreateBranch(tree, path)
<1> DEFINE branch == {Upto(path, i) : i \in 1..Len(path)}
           grown == CreateBranch(tree, path)
<1>1. Len(path) \in Nat
  BY LenProperties DEF Paths
<1>2. DOMAIN grown = DOMAIN tree \cup branch
  BY DEF CreateBranch, Upto
<1>3. \A q \in DOMAIN grown : grown[q] = IF q \in DOMAIN tree THEN tree[q] ELSE None
  BY DEF CreateBranch
<1>4. ASSUME NEW q \in branch
      PROVE  q \in Paths /\ q # <<>> /\ (Len(q) > 1 => Front(q) \in branch)
  <2>1. PICK i \in 1..Len(path) : q = Upto(path, i)
    BY <1>4
  <2>2. i \in 0..Len(path)
    BY <1>1
  <2>3. q \in Paths /\ Len(q) = i /\ \A j \in 1..i : q[j] = path[j]
    BY <2>1, <2>2, PathUpto
  <2>4. q # <<>>
    BY <1>1, <2>3, EmptySeq
  <2>5. ASSUME Len(q) > 1 PROVE Front(q) \in branch
    <3>1. i - 1 \in 1..Len(path) /\ i - 1 \in 0..Len(path) /\ i - 1 \in 0..Len(q)
      BY <1>1, <2>3, <2>5
    <3>2. PICK s : s = Upto(path, i - 1)
      OBVIOUS
    <3>3. s \in Paths /\ Len(s) = i - 1 /\ \A j \in 1..(i - 1) : s[j] = path[j]
      BY <3>1, <3>2, PathUpto
    <3>4. PICK f : f = Upto(q, i - 1)
      OBVIOUS
    <3>5. f \in Paths /\ Len(f) = i - 1 /\ \A j \in 1..(i - 1) : f[j] = q[j]
      BY <2>3, <3>1, <3>4, PathUpto
    <3>6. \A j \in 1..(i - 1) : f[j] = s[j]
      BY <1>1, <2>3, <3>3, <3>5
    <3>7. f = s
      BY <3>3, <3>5, <3>6, SamePath
    <3> QED
      BY <2>3, <3>1, <3>2, <3>4, <3>7 DEF Front, Upto
  <2> QED
    BY <2>3, <2>4, <2>5
<1>5. IsTree(grown)
  <2> SUFFICES ASSUME NEW q \in DOMAIN grown
               PROVE  /\ q \in Paths /\ q # <<>> /\ grown[q] \in Properties \cup {None}
                      /\ Len(q) > 1 => Front(q) \in DOMAIN grown
    BY DEF IsTree
  <2>1. CASE q \in DOMAIN tree
    BY <1>2, <1>3, <2>1 DEF IsTree
  <2>2. CASE q \notin DOMAIN tree
    BY <1>2, <1>3, <1>4, <2>2
  <2> QED
    BY <2>1, <2>2
<1>6. path = <<>> \/ path \in branch
  <2>1. CASE Len(path) = 0
    BY <2>1, EmptySeq DEF Paths
  <2>2. CASE Len(path) # 0
    <3>1. Len(path) \in 1..Len(path) /\ path = Upto(path, Len(path))
      BY <1>1, <2>2, SubSeqFull DEF Paths, Upto
    <3> QED
      BY <3>1
  <2> QED
    BY <2>1, <2>2
<1> QED
  BY <1>2, <1>5, <1>6

\* A path with one more element.
LEMMA PathAppended ==
    ASSUME NEW path \in Paths, NEW n \in Names \cup Properties
    PROVE  /\ Append(path, n) \in Paths /\ Append(path, n) # <<>>
           /\ Len(path) \in Nat /\ Len(Append(path, n)) = Len(path) + 1
           /\ Append(path, n)[Len(path) + 1] = n
           /\ Front(Append(path, n)) = path
<1>1. /\ Append(path, n) \in Paths /\ Append(path, n) # <<>>
      /\ Len(path) \in Nat /\ Len(Append(path, n)) = Len(path) + 1
      /\ \A i \in 1..Len(path) : Append(path, n)[i] = path[i]
      /\ Append(path, n)[Len(path) + 1] = n
  BY AppendProperties, LenProperties DEF Paths
<1>2. PICK q : q = Append(path, n)
  OBVIOUS
<1>3. Len(path) \in 0..Len(q) /\ Len(q) - 1 = Len(path)
  BY <1>1, <1>2
<1>4. PICK f : f = Upto(q, Len(path))
  OBVIOUS
<1>5. f \in Paths /\ Len(f) = Len(path) /\ \A i \in 1..Len(path) : f[i] = q[i]
  BY <1>1, <1>2, <1>3, <1>4, PathUpto
<1>6. f = path
  BY <1>1, <1>2, <1>5, SamePath
<1> QED
  BY <1>1, <1>2, <1>3, <1>4, <1>6 DEF Front, Upto

\* addChild() leaves a tree, if the parent is in it: what was below a replaced
\* entry is gone with it.
LEMMA ChildAdded ==
    ASSUME NEW tree, IsTree(tree), NEW path \in Paths, FindEntry(tree, path),
           NEW n \in Names \cup Properties, NEW child \in Properties \cup {None}
    PROVE  IsTree(AddChild(tree, Append(path, n), child))
<1>1. PICK at : at = Append(path, n)
  OBVIOUS
<1>2. /\ at \in Paths /\ at # <<>> /\ Len(path) \in Nat /\ Len(at) = Len(path) + 1
      /\ Front(at) = path
  BY <1>1, PathAppended
<1> DEFINE new == AddChild(tree, at, child)
<1>3. /\ DOMAIN new = {q \in DOMAIN tree : ~ IsPrefix(at, q)} \cup {at}
      /\ \A q \in DOMAIN new : new[q] = IF q = at THEN child ELSE tree[q]
  BY DEF AddChild
<1>4. ASSUME NEW q \in Paths, IsPrefix(at, q) PROVE Len(at) <= Len(q)
  BY <1>4 DEF IsPrefix
<1>5. ASSUME Len(at) > 1 PROVE Front(at) \in DOMAIN new
  <2>1. path # <<>>
    BY <1>2, <1>5, EmptySeq
  <2>2. path \in DOMAIN tree
    BY <2>1 DEF FindEntry
  <2>3. ~ IsPrefix(at, path)
    BY <1>2, <1>4
  <2> QED
    BY <1>2, <1>3, <2>2, <2>3
<1>6. ASSUME NEW q \in DOMAIN tree, ~ IsPrefix(at, q), Len(q) > 1
      PROVE  Front(q) \in DOMAIN new
  <2>1. q \in Paths /\ Front(q) \in DOMAIN tree
    BY <1>6 DEF IsTree
  <2>2. ~ IsPrefix(at, Front(q))
    BY <1>2, <1>6, <2>1, PrefixOfFront
  <2> QED
    BY <1>3, <2>1, <2>2
<1>7. IsTree(new)
  <2> SUFFICES ASSUME NEW q \in DOMAIN new
               PROVE  /\ q \in Paths /\ q # <<>> /\ new[q] \in Properties \cup {None}
                      /\ Len(q) > 1 => Front(q) \in DOMAIN new
    BY DEF IsTree
  <2>1. CASE q = at
    BY <1>2, <1>3, <1>5, <2>1
  <2>2. CASE q # at
    BY <1>3, <1>6, <2>2 DEF IsTree
  <2> QED
    BY <2>1, <2>2
<1> QED
  BY <1>1, <1>7

\* process() of the manager leaves a tree, whatever registers where.
LEMMA TreeKept ==
    ASSUME BusFacts, EntityType, IsTree(rootEntry), [Next]_vars PROVE IsTree(rootEntry')
<1>1. CASE UNCHANGED rootEntry
  BY <1>1
<1>2. ASSUME NEW m \in Messangers, Handle(m) PROVE IsTree(rootEntry')
  <2>1. PICK i \in unread[m] :
        LET k == messangerToMessagesDict[m][i]
            c == content[k]
        IN  \/ /\ c.type = "entity"
               /\ rootEntry' = AddChild(CreateBranch(rootEntry, c.path),
                                        Append(c.path, NameOf[heap[k].sender]), None)
            \/ /\ c.type = "property"
               /\ rootEntry' = (IF FindEntry(rootEntry, c.path)
                                THEN AddChild(rootEntry, Append(c.path, c.property), c.property)
                                ELSE rootEntry)
            \/ UNCHANGED rootEntry
    BY <1>2 DEF Handle
  <2>2. PICK k : k = messangerToMessagesDict[m][i]
    OBVIOUS
  <2>3. PICK c : c = content[k]
    OBVIOUS
  <2>4. k \in 1..Len(heap) /\ Len(content) = Len(heap)
    <3>1. m \in Bus!Registered /\ i \in DOMAIN messangerToMessagesDict[m]
      BY DEF BusFacts, EntityType
    <3> QED
      BY <2>2, <3>1 DEF BusFacts, EntityType
  <2>5. NameOf[heap[k].sender] \in Names
    <3>1. heap[k] \in [sender : Messangers, recipient : Messangers \cup {None}, deletes : Nat]
      BY <2>4, ElementOfSeq DEF BusFacts
    <3> QED
      BY <3>1, EntitiesAssumption
  <2>6. c \in Contents \cup Changes
    BY <2>3, <2>4, ElementOfSeq DEF EntityType
  <2>7. c.type = "entity" \/ c.type = "property" => c.path \in Paths
    BY <2>6, ScriptTypes DEF Registrations, Changes
  <2>8. c.type = "property" => c.property \in Properties
    BY <2>6, ScriptTypes DEF Registrations, Changes
  <2>9. CASE /\ c.type = "entity"
             /\ rootEntry' = AddChild(CreateBranch(rootEntry, c.path),
                                      Append(c.path, NameOf[heap[k].sender]), None)
    <3>1. PICK tree : tree = CreateBranch(rootEntry, c.path)
      OBVIOUS
    <3>2. IsTree(tree) /\ FindEntry(tree, c.path)
      BY <2>7, <2>9, <3>1, BranchCreated DEF FindEntry
    <3> QED
      BY <2>5, <2>7, <2>9, <3>1, <3>2, ChildAdded
  <2>10. CASE /\ c.type = "property" /\ FindEntry(rootEntry, c.path)
              /\ rootEntry' = AddChild(rootEntry, Append(c.path, c.property), c.property)
    BY <2>7, <2>8, <2>10, ChildAdded
  <2> QED
    BY <1>1, <2>1, <2>2, <2>3, <2>9, <2>10
<1>3. ASSUME NEW m \in Messangers, Process(m) PROVE IsTree(rootEntry')
  BY <1>1, <1>2, <1>3 DEF Process, BeginProcess, GetMessages, EndProcess, SendPending, treeVars
<1>4. ASSUME NEW m \in Messangers, Construct(m) \/ SendNext(m) PROVE UNCHANGED rootEntry
  BY <1>4 DEF Construct, SendNext, treeVars
<1>5. ASSUME NEW p \in Properties, Press(p) PROVE UNCHANGED rootEntry
  BY <1>5 DEF Press, treeVars
<1>6. CASE Publish \/ StartRender \/ EndRender \/ UNCHANGED vars
  BY <1>1, <1>6 DEF Publish, StartRender, EndRender, vars, treeVars
<1> QED
  BY <1>1, <1>3, <1>4, <1>5, <1>6 DEF Next

\* Every variable has its type, and the tree no child without its parent,
\* whatever the constructors register and in whatever order they run.
THEOREM EntitiesTyped == Spec => []TypeOK
<1>1. Init => EntityType /\ IsTree(rootEntry)
  <2>1. Init => DOMAIN rootEntry = {}
    BY DEF Init
  <2> QED
    BY <2>1, EntityTypeInit DEF IsTree
<1>2. BusFacts /\ Inv /\ EntityType /\ IsTree(rootEntry) /\ [Next]_vars
            => EntityType' /\ IsTree(rootEntry)'
  BY EntityTypeStep, TreeKept
<1>3. Bus!TypeOK /\ EntityType /\ IsTree(rootEntry) => TypeOK
  <2> SUFFICES ASSUME Bus!TypeOK, EntityType, IsTree(rootEntry) PROVE TypeOK
    OBVIOUS
  <2>1. \A m \in Messangers : constructed[m] \in 0..Len(Script[m])
    BY ScriptTypes DEF EntityType
  <2> QED
    BY <2>1 DEF TypeOK, EntityType, IsTree
<1>4. Spec => []Inv
  BY InvInit, InvStep, PTL DEF Spec
<1> QED
  BY <1>1, <1>2, <1>3, <1>4, BusTypeKept, PTL DEF Spec

-----------------------------------------------------------------------------
(* Where a message is: waiting for publish(), to be read, or past *)

IsChange(k) == content[k].type = "change"

\* The name a message is sent to: the manager's, or the one a button notifies.
SentTo(c) == IF c.type = "change" THEN RecipientOf[c.property] ELSE NameOf[Manager]
Addressee(k) == SentTo(content[k])

Waiting(k) == \E i \in 1..Len(pendingMessages) : pendingMessages[i].message = k

\* Message k is published to m, and m will read it in this frame.
ToRead(m, k) ==
    /\ m \in Readers /\ m \in Bus!Registered
    /\ \E i \in DOMAIN messangerToMessagesDict[m] :
            /\ messangerToMessagesDict[m][i] = k
            /\ processing[m] \in {"due", "running"} \/ i \in unread[m]

\* Messages sent to the name of m go to m: it is the last of its name.
Resolved(m) == Bus!GetRecipient(ByName(NameOf[m])) = m

Started == \E m \in Messangers : processing[m] # "setup"

\* Names lead where they led before.
LEMMA SameResolution ==
    ASSUME UNCHANGED <<messangersList, nameToIndexDict>>
    PROVE  /\ \A n : Bus!GetRecipient(ByName(n))' = Bus!GetRecipient(ByName(n))
           /\ Bus!Registered' = Bus!Registered
BY DEF Bus!GetRecipient, Bus!RecipientIndex, Bus!Find, ByName, Bus!Registered

\* A name leads to a registered messanger that has it,
LEMMA Resolving ==
    ASSUME BusFacts, NEW n, NEW m \in Messangers, Bus!GetRecipient(ByName(n)) = m
    PROVE  m \in Bus!Registered /\ NameOf[m] = n
<1> DEFINE i == Bus!RecipientIndex(ByName(n))
<1>1. i = Bus!Find(nameToIndexDict, n)
  BY DEF Bus!RecipientIndex, ByName
<1>2. i \in 1..Len(messangersList) /\ m = messangersList[i]
  BY EntitiesAssumption DEF Bus!GetRecipient
<1>3. n \in DOMAIN nameToIndexDict /\ i = nameToIndexDict[n]
  <2>1. Len(messangersList) \in Nat
    BY LenProperties DEF BusFacts
  <2> QED
    BY <1>1, <1>2, <2>1 DEF Bus!Find
<1> QED
  BY <1>2, <1>3 DEF BusFacts, Bus!Registered

\* and to the only one that has it.
LEMMA OnlyOneResolved ==
    ASSUME BusFacts, NEW m \in Bus!Registered, m \in Messangers,
           \A x \in Messangers : NameOf[x] = NameOf[m] => x = m
    PROVE  Resolved(m)
<1>1. NameOf[m] \in DOMAIN nameToIndexDict
  BY DEF BusFacts
<1> DEFINE i == nameToIndexDict[NameOf[m]]
<1>2. i \in 1..Len(messangersList) /\ NameOf[messangersList[i]] = NameOf[m]
  BY <1>1 DEF BusFacts
<1>3. messangersList[i] \in Messangers
  BY <1>2, ElementOfSeq DEF BusFacts
<1>4. messangersList[i] = m
  BY <1>2, <1>3
<1>5. Bus!RecipientIndex(ByName(NameOf[m])) = i
  BY <1>1 DEF Bus!RecipientIndex, ByName, Bus!Find
<1> QED
  BY <1>2, <1>4, <1>5 DEF Bus!GetRecipient, Resolved

\* What is to be read, or waits, has been sent.
LEMMA MessagesSent ==
    ASSUME BusFacts, EntityType
    PROVE  /\ Len(content) \in Nat /\ Len(heap) = Len(content)
           /\ \A k : Waiting(k) => k \in 1..Len(content)
           /\ \A m, k : ToRead(m, k) => k \in 1..Len(content)
           /\ \A k \in 1..Len(content) : content[k] \in Contents \cup Changes
           /\ \A k \in 1..Len(content) : heap[k].sender \in Messangers
<1>1. Len(content) \in Nat /\ Len(heap) = Len(content)
  BY LenProperties DEF EntityType
<1>2. \A k \in 1..Len(content) : content[k] \in Contents \cup Changes
  BY ElementOfSeq DEF EntityType
<1>3. ASSUME NEW k \in 1..Len(content) PROVE heap[k].sender \in Messangers
  <2>1. heap[k] \in [sender : Messangers, recipient : Messangers \cup {None}, deletes : Nat]
    BY <1>1, ElementOfSeq DEF BusFacts
  <2> QED
    BY <2>1
<1> QED
  BY <1>1, <1>2, <1>3 DEF BusFacts, Waiting, ToRead

\* A step that moves no message.
Still ==
    /\ UNCHANGED <<content, heap, pendingMessages, messangersList, nameToIndexDict,
                   received, rootEntry, constructed>>
    /\ \A m, k : ToRead(m, k)' <=> ToRead(m, k)

\* The rest of a process(), the buttons and render() move none.
LEMMA StillSteps ==
    ASSUME BusFacts, EntityType,
           \/ StartRender \/ EndRender \/ UNCHANGED vars
           \/ \E p \in Properties : Press(p)
           \/ \E m \in Messangers : BeginProcess(m) \/ GetMessages(m) \/ EndProcess(m)
    PROVE  Still
<1>0. /\ processing \in [Messangers -> {"setup", "due", "running", "reading", "done", "never"}]
      /\ unread \in [Messangers -> SUBSET Nat]
      /\ DOMAIN messangerToMessagesDict = Bus!Registered /\ Readers \subseteq Messangers
  BY EntitiesAssumption DEF BusFacts, EntityType
<1>1. CASE StartRender \/ EndRender \/ UNCHANGED vars \/ \E p \in Properties : Press(p)
  <2>1. UNCHANGED <<content, heap, pendingMessages, messangersList, nameToIndexDict, received,
                    rootEntry, constructed, messangerToMessagesDict, processing, unread>>
    BY <1>1 DEF StartRender, EndRender, Press, vars, busVars, treeVars, guiVars
  <2> QED
    BY <2>1 DEF Still, ToRead, Bus!Registered
<1>2. ASSUME NEW m \in Messangers, BeginProcess(m) \/ GetMessages(m) \/ EndProcess(m) PROVE Still
  <2>1. UNCHANGED <<content, heap, pendingMessages, messangersList, nameToIndexDict, received,
                    rootEntry, constructed, messangerToMessagesDict>>
    BY <1>2 DEF BeginProcess, GetMessages, EndProcess, Bus!BeginProcess, Bus!StartProcess,
          Bus!GetMessages, Bus!EndProcess, Bus!tables, Bus!boxes, treeVars, guiVars
  <2>2. \A x \in Messangers : x # m => processing'[x] = processing[x] /\ unread'[x] = unread[x]
    BY <1>0, <1>2 DEF BeginProcess, GetMessages, EndProcess, Bus!BeginProcess, Bus!StartProcess,
          Bus!GetMessages, Bus!EndProcess, guiVars
  <2>3. \/ processing[m] = "due" /\ processing'[m] = "running" /\ unread'[m] = unread[m]
        \/ /\ processing[m] = "running" /\ processing'[m] = "reading"
           /\ unread'[m] = DOMAIN messangerToMessagesDict[m]
        \/ /\ processing[m] \in {"reading", "running"} /\ processing'[m] = "done"
           /\ (m \in Readers => processing[m] = "reading")
           /\ unread[m] = {} /\ unread'[m] = {}
    BY <1>0, <1>2 DEF BeginProcess, GetMessages, EndProcess, Bus!BeginProcess, Bus!StartProcess,
          Bus!GetMessages, Bus!EndProcess, guiVars
  <2>4. Bus!Registered' = Bus!Registered
    BY <2>1 DEF Bus!Registered
  <2>5. ASSUME NEW x, NEW k PROVE ToRead(x, k)' <=> ToRead(x, k)
    <3>1. CASE x # m
      BY <1>0, <2>1, <2>2, <2>4, <3>1 DEF ToRead
    <3>2. CASE x = m
      <4>1. m \in Readers => ("due" # "reading" /\ \A i \in DOMAIN messangerToMessagesDict[m] :
                (processing'[m] \in {"due", "running"} \/ i \in unread'[m])
                    <=> (processing[m] \in {"due", "running"} \/ i \in unread[m]))
        BY <2>3
      <4> QED
        BY <2>1, <2>4, <3>2, <4>1 DEF ToRead
    <3> QED
      BY <3>1, <3>2
  <2> QED
    BY <2>1, <2>5 DEF Still
<1> QED
  BY <1>1, <1>2

\* A step of m that sends one message, which says c.
Sending(m, c) ==
    LET n == Len(content) + 1
    IN  /\ Len(content') = n /\ content'[n] = c /\ heap'[n].sender = m
        /\ \A k \in 1..Len(content) :
                content'[k] = content[k] /\ heap'[k].sender = heap[k].sender
        /\ Len(pendingMessages') = Len(pendingMessages) + 1
        /\ \A i \in 1..Len(pendingMessages) : pendingMessages'[i] = pendingMessages[i]
        /\ pendingMessages'[Len(pendingMessages) + 1]
                = [recipient |-> ByName(SentTo(c)), message |-> n]
        /\ Len(pendingMessages) \in Nat /\ \A k : Waiting(k)' <=> Waiting(k) \/ k = n
        /\ \A x, k : ToRead(x, k)' <=> ToRead(x, k)
        /\ UNCHANGED <<messangersList, nameToIndexDict, processing, received, rootEntry>>

\* sendMessage() from a constructor, or from the manager's process().
LEMMA SendingSteps ==
    ASSUME BusFacts, EntityType, NEW m \in Messangers, NEW c \in Contents \cup Changes,
           content' = Append(content, c), UNCHANGED <<unread, received, rootEntry>>,
           Bus!SendMessage(m, ByName(SentTo(c)))
    PROVE  Sending(m, c)
<1> DEFINE n == Len(content) + 1
<1>1. /\ Len(heap) \in Nat /\ Len(heap) = Len(content)
      /\ \A k \in 1..Len(heap) : heap'[k] = heap[k]
      /\ heap'[Len(heap) + 1].sender = m
      /\ Len(pendingMessages) \in Nat /\ Len(pendingMessages') = Len(pendingMessages) + 1
      /\ \A i \in 1..Len(pendingMessages) : pendingMessages'[i] = pendingMessages[i]
      /\ pendingMessages'[Len(pendingMessages) + 1]
            = [recipient |-> ByName(SentTo(c)), message |-> Len(heap) + 1]
      /\ UNCHANGED <<messangersList, nameToIndexDict, messangerToMessagesDict, processing>>
  BY Sends, MessagesSent
<1>2. /\ Len(content') = n /\ content'[n] = c
      /\ \A k \in 1..Len(content) : content'[k] = content[k]
  BY AppendProperties DEF EntityType
<1>3. 1..Len(pendingMessages') = 1..Len(pendingMessages) \cup {Len(pendingMessages) + 1}
  BY <1>1
<1>4. \A k : Waiting(k)' <=> Waiting(k) \/ k = n
  <2>1. Len(heap) + 1 = n
    BY <1>1
  <2>2. \A k : (\E i \in 1..Len(pendingMessages') : pendingMessages'[i].message = k)
                <=> (\E i \in 1..Len(pendingMessages) : pendingMessages[i].message = k) \/ k = n
    BY <1>1, <1>3, <2>1
  <2> QED
    BY <2>2 DEF Waiting
<1>5. \A x, k : ToRead(x, k)' <=> ToRead(x, k)
  BY <1>1 DEF ToRead, Bus!Registered
<1> QED
  BY <1>1, <1>2, <1>4, <1>5 DEF Sending

\* The two senders: a constructor sends what its script says, the manager a
\* message of one of its properties.
LEMMA Sendings ==
    ASSUME BusFacts, EntityType, NEW m \in Messangers
    PROVE  /\ SendNext(m) => /\ constructed[m] + 1 \in 1..Len(Script[m])
                             /\ Sending(m, Script[m][constructed[m] + 1])
                             /\ Script[m][constructed[m] + 1] \in Registrations
           /\ SendPending => /\ sending + 1 \in 1..Len(collected)
                             /\ Sending(Manager, collected[sending + 1])
                             /\ collected[sending + 1] \in Changes
<1>1. ASSUME SendNext(m)
      PROVE  /\ constructed[m] + 1 \in 1..Len(Script[m])
             /\ Sending(m, Script[m][constructed[m] + 1])
             /\ Script[m][constructed[m] + 1] \in Registrations
  <2>1. constructed[m] + 1 \in 1..Len(Script[m])
    BY <1>1, ScriptTypes DEF SendNext, EntityType
  <2>2. PICK c : c = Script[m][constructed[m] + 1]
    OBVIOUS
  <2>3. c \in Contents /\ c \in Registrations
    BY <2>1, <2>2, ScriptTypes
  <2>4. SentTo(c) = NameOf[Manager]
    BY <2>3 DEF SentTo, Registrations
  <2>5. Sending(m, c)
    BY <1>1, <2>2, <2>3, <2>4, SendingSteps DEF SendNext, treeVars
  <2> QED
    BY <2>1, <2>2, <2>3, <2>5
<1>2. ASSUME SendPending
      PROVE  /\ sending + 1 \in 1..Len(collected)
             /\ Sending(Manager, collected[sending + 1])
             /\ collected[sending + 1] \in Changes
  <2>1. sending + 1 \in 1..Len(collected)
    BY <1>2 DEF SendPending, EntityType
  <2>2. PICK c : c = collected[sending + 1]
    OBVIOUS
  <2>3. c \in Changes
    BY <2>1, <2>2, ElementOfSeq DEF EntityType
  <2>4. SentTo(c) = RecipientOf[c.property]
    BY <2>3 DEF SentTo, Changes
  <2>5. Sending(Manager, c)
    BY <1>2, <2>2, <2>3, <2>4, SendingSteps, EntitiesAssumption DEF SendPending, treeVars
  <2> QED
    BY <2>1, <2>2, <2>3, <2>5
<1> QED
  BY <1>1, <1>2

\* Each waiting message waits for the name it is addressed to.
WaitsForAddressee ==
    \A i \in 1..Len(pendingMessages) :
        pendingMessages[i].recipient = ByName(Addressee(pendingMessages[i].message))

\* publish() hands the waiting messages to the messangers their names lead to.
Published ==
    /\ \A m \in Messangers : m \in Bus!Registered
    /\ UNCHANGED <<content, messangersList, nameToIndexDict, received, rootEntry, constructed>>
    /\ \A k \in 1..Len(content) : heap'[k].sender = heap[k].sender
    /\ Len(pendingMessages') = 0 /\ \A k : ~ Waiting(k)'
    /\ \A x, k : ~ ToRead(x, k)
    /\ \A x, k : ToRead(x, k)' <=>
            x \in Readers /\ Waiting(k) /\ Bus!GetRecipient(ByName(Addressee(k))) = x

\* It runs when the messages of the last frame have all been read.
LEMMA PublishedStep ==
    ASSUME BusFacts, EntityType, WaitsForAddressee, Publish PROVE Published
<1>1. /\ \A m \in Messangers : m \in Bus!Registered
      /\ UNCHANGED <<content, constructed, received, rootEntry, unread>> /\ Bus!Publish
  BY DEF Publish, Complete, treeVars
<1>2. /\ Len(heap) \in Nat /\ Len(heap') = Len(heap)
      /\ \A k \in 1..Len(heap) : heap'[k].sender = heap[k].sender
      /\ Len(pendingMessages) \in Nat /\ Len(pendingMessages') = 0
      /\ Bus!Registered' = Bus!Registered
      /\ UNCHANGED <<messangersList, nameToIndexDict>>
      /\ \A m \in Bus!Registered : messangerToMessagesDict'[m] = Bus!Delivered(m)
      /\ \A m \in Bus!Registered : processing[m] \in {"setup", "done"}
      /\ \A m \in Messangers : processing'[m] = IF m \in Bus!Registered THEN "due" ELSE "never"
  BY <1>1, Publishes
<1>3. \A m \in Messangers : unread[m] = {} /\ processing[m] \notin {"due", "running"}
  BY <1>1, <1>2 DEF EntityType
<1>4. \A x, k : ~ ToRead(x, k)
  BY <1>3, EntitiesAssumption DEF ToRead
<1>5. \A k : ~ Waiting(k)'
  BY <1>2 DEF Waiting
<1>6. ASSUME NEW x, NEW k
      PROVE  ToRead(x, k)' <=>
                x \in Readers /\ Waiting(k) /\ Bus!GetRecipient(ByName(Addressee(k))) = x
  <2>1. CASE x \in Readers
    <3>1. x \in Messangers /\ x \in Bus!Registered /\ processing'[x] = "due"
      BY <1>1, <1>2, <2>1, EntitiesAssumption
    <3>2. ToRead(x, k)' <=> \E i \in DOMAIN Bus!Delivered(x) : Bus!Delivered(x)[i] = k
      BY <1>2, <2>1, <3>1 DEF ToRead
    <3>3. (\E i \in DOMAIN Bus!Delivered(x) : Bus!Delivered(x)[i] = k) <=>
            \E i \in 1..Len(pendingMessages) :
                /\ pendingMessages[i].message = k
                /\ Bus!GetRecipient(pendingMessages[i].recipient) = x
      BY DEF Bus!Delivered
    <3>4. \A i \in 1..Len(pendingMessages) : pendingMessages[i].message = k =>
                pendingMessages[i].recipient = ByName(Addressee(k))
      BY DEF WaitsForAddressee
    <3> QED
      BY <2>1, <3>2, <3>3, <3>4 DEF Waiting
  <2>2. CASE x \notin Readers
    BY <2>2 DEF ToRead
  <2> QED
    BY <2>1, <2>2
<1>7. \A k \in 1..Len(content) : heap'[k].sender = heap[k].sender
  BY <1>2, MessagesSent
<1> QED
  BY <1>1, <1>2, <1>4, <1>5, <1>6, <1>7 DEF Published

\* m handles message k, the first of those it is to read, and no other.
Reading(m, k) ==
    /\ UNCHANGED <<content, heap, pendingMessages, messangersList, nameToIndexDict, constructed>>
    /\ ToRead(m, k) /\ m \in Readers
    /\ \A l : ToRead(m, l) => k <= l
    /\ \A x, l : ToRead(x, l)' <=> ToRead(x, l) /\ ~ (x = m /\ l = k)
    /\ \/ /\ m = Manager /\ IsChange(k) = FALSE
          /\ UNCHANGED received
          /\ \/ /\ content[k].type = "entity"
                /\ rootEntry' = AddChild(CreateBranch(rootEntry, content[k].path),
                                    Append(content[k].path, NameOf[heap[k].sender]), None)
             \/ /\ content[k].type = "property"
                /\ rootEntry' = (IF FindEntry(rootEntry, content[k].path)
                                 THEN AddChild(rootEntry,
                                        Append(content[k].path, content[k].property),
                                        content[k].property)
                                 ELSE rootEntry)
       \/ /\ m # Manager /\ IsChange(k)
          /\ received' = [received EXCEPT ![m] = Append(@, content[k].value)]
          /\ UNCHANGED rootEntry

\* The loop of process() walks its list, whose messages ascend.
LEMMA ReadingStep ==
    ASSUME BusFacts, EntityType, NEW m \in Messangers, Handle(m)
    PROVE  \E k \in 1..Len(content) : Reading(m, k)
<1>1. PICK i \in unread[m] :
        /\ \A j \in unread[m] : i <= j
        /\ unread' = [unread EXCEPT ![m] = @ \ {i}]
        /\ LET k == messangerToMessagesDict[m][i]
               c == content[k]
           IN  \/ /\ m = Manager /\ c.type = "entity"
                  /\ rootEntry' = AddChild(CreateBranch(rootEntry, c.path),
                                           Append(c.path, NameOf[heap[k].sender]), None)
                  /\ UNCHANGED received
               \/ /\ m = Manager /\ c.type = "property"
                  /\ rootEntry' = (IF FindEntry(rootEntry, c.path)
                                   THEN AddChild(rootEntry, Append(c.path, c.property), c.property)
                                   ELSE rootEntry)
                  /\ UNCHANGED received
               \/ /\ m # Manager /\ c.type = "change"
                  /\ received' = [received EXCEPT ![m] = Append(@, c.value)]
                  /\ UNCHANGED rootEntry
  BY DEF Handle
<1>2. UNCHANGED <<content, heap, pendingMessages, messangersList, nameToIndexDict, constructed,
                  messangerToMessagesDict, processing>>
  BY DEF Handle, busVars
<1>3. /\ m \in Readers /\ processing[m] = "reading" /\ m \in Bus!Registered
      /\ unread[m] \subseteq DOMAIN messangerToMessagesDict[m]
      /\ DOMAIN messangerToMessagesDict[m] \subseteq Nat
  BY DEF BusFacts, EntityType
<1>4. PICK k : k = messangerToMessagesDict[m][i]
  OBVIOUS
<1>5. \A l : ToRead(m, l) <=> \E j \in unread[m] : messangerToMessagesDict[m][j] = l
  BY <1>3 DEF ToRead
<1>6. \A j \in unread[m] : j # i => k < messangerToMessagesDict[m][j]
  <2> SUFFICES ASSUME NEW j \in unread[m], j # i PROVE k < messangerToMessagesDict[m][j]
    OBVIOUS
  <2>1. i < j
    BY <1>1, <1>3
  <2> QED
    BY <1>3, <1>4, <2>1 DEF BusFacts
<1>7. k \in 1..Len(content) /\ ToRead(m, k)
  BY <1>4, <1>5, MessagesSent
<1>8. \A l : ToRead(m, l) => k <= l
  <2> SUFFICES ASSUME NEW l, ToRead(m, l) PROVE k <= l
    OBVIOUS
  <2>1. PICK j \in unread[m] : messangerToMessagesDict[m][j] = l
    BY <1>5
  <2>2. k \in Int /\ l \in Int
    BY <1>7, MessagesSent
  <2> QED
    BY <1>4, <1>6, <2>1, <2>2
<1>9. ASSUME NEW x, NEW l PROVE ToRead(x, l)' <=> ToRead(x, l) /\ ~ (x = m /\ l = k)
  <2>1. Bus!Registered' = Bus!Registered
    BY <1>2 DEF Bus!Registered
  <2>2. CASE x # m
    <3>1. x \in Readers => unread'[x] = unread[x]
      BY <1>1, <2>2, EntitiesAssumption DEF EntityType
    <3> QED
      BY <1>2, <2>1, <2>2, <3>1 DEF ToRead
  <2>3. CASE x = m
    <3>1. unread'[m] = unread[m] \ {i}
      BY <1>1 DEF EntityType
    <3>2. ToRead(m, l)' <=> \E j \in unread[m] \ {i} : messangerToMessagesDict[m][j] = l
      BY <1>2, <1>3, <2>1, <3>1 DEF ToRead
    <3>3. \A j \in unread[m] \ {i} : messangerToMessagesDict[m][j] # k
      BY <1>6, <1>7
    <3> QED
      BY <1>4, <1>5, <2>3, <3>2, <3>3
  <2> QED
    BY <2>2, <2>3
<1>10. Reading(m, k)
  BY <1>1, <1>2, <1>3, <1>4, <1>7, <1>8, <1>9 DEF Reading, IsChange
<1> QED
  BY <1>7, <1>10

\* Before the first publish() nothing is to be read.
LEMMA NothingYet ==
    ASSUME EntityType, ~ Started PROVE \A m, k : ~ ToRead(m, k)
BY EntitiesAssumption DEF Started, ToRead, EntityType

\* A constructor registers its messanger before there is anything to read.
LEMMA ConstructStep ==
    ASSUME BusFacts, EntityType, NEW m \in Messangers, Construct(m), ~ Started
    PROVE  /\ UNCHANGED <<content, heap, pendingMessages, constructed, received, rootEntry, render,
                          presses, processing>>
           /\ ~ Started' /\ \A x, k : ~ ToRead(x, k) /\ ~ ToRead(x, k)'
<1>1. /\ UNCHANGED <<content, heap, pendingMessages, constructed, received, rootEntry, unread,
                     processing, presses, render>>
  BY Registers DEF Construct, treeVars, guiVars
<1>2. ~ Started'
  BY <1>1 DEF Started
<1>3. \A x \in Messangers : unread'[x] = {}
  BY <1>1 DEF EntityType, Started
<1>4. \A x, k : ~ ToRead(x, k)'
  BY <1>2, <1>3, EntitiesAssumption DEF Started, ToRead
<1> QED
  BY <1>1, <1>2, <1>4, NothingYet

-----------------------------------------------------------------------------
(* The start: every object is made, and registers, before the first frame *)

\* A frame begins when every constructor has sent what it sends; none of it
\* waits then, and all is read before the tree is displayed.
StartInv ==
    /\ Started => \A m \in Messangers : Complete(m)
    /\ Started => \A k \in 1..Len(content) : ~ IsChange(k) => ~ Waiting(k)
    /\ render # "done" \/ presses # <<>> => Started
    /\ render = "running" => \A k \in 1..Len(content) : ~ IsChange(k) => ~ ToRead(Manager, k)

\* No message, no frame.
LEMMA StartInit == Init => StartInv
<1> SUFFICES ASSUME Init PROVE StartInv
  OBVIOUS
<1>1. Len(content) = 0 /\ ~ Started /\ render = "done" /\ presses = <<>>
  BY DEF Init, Bus!Init, Started
<1> QED
  BY <1>1 DEF StartInv

\* A step that moves no message and begins no frame keeps StartInv, if it does
\* not display a tree with messages for it still to read.
LEMMA StartStill ==
    ASSUME StartInv, Still, Started,
           render' = "running" =>
                render = "running"
                \/ \A k \in 1..Len(content) : ~ IsChange(k) => ~ ToRead(Manager, k),
           Started'
    PROVE  StartInv'
<1>1. \A m \in Messangers : Complete(m)'
  BY DEF Still, StartInv, Complete, Bus!Registered
<1>2. \A k : (Waiting(k)' <=> Waiting(k)) /\ (IsChange(k)' <=> IsChange(k))
  BY DEF Still, Waiting, IsChange
<1>3. content' = content /\ \A k : ToRead(Manager, k)' <=> ToRead(Manager, k)
  BY DEF Still
<1> QED
  BY <1>1, <1>2, <1>3 DEF StartInv

\* Every step keeps StartInv.
LEMMA StartStep ==
    ASSUME BusFacts, BusFacts', Inv, EntityType, WaitsForAddressee, StartInv, [Next]_vars
    PROVE  StartInv'
<1>0. Manager \in Messangers
  BY EntitiesAssumption
<1>1. CASE Publish
  <2>1. Published
    BY <1>1, PublishedStep
  <2>2. \A m \in Messangers : Complete(m) /\ Complete(m)'
    BY <1>1, <2>1, SameResolution DEF Publish, Complete, Published
  <2>3. UNCHANGED <<render, presses>> /\ \A m \in Messangers : processing'[m] = "due"
    <3>1. \A m \in Messangers : m \in Bus!Registered
      BY <2>2 DEF Complete
    <3> QED
      BY <1>1, <3>1, Publishes DEF Publish, guiVars
  <2>4. Started'
    BY <1>0, <2>3 DEF Started
  <2>5. ASSUME render' = "running", NEW k \in 1..Len(content'), ~ IsChange(k)'
        PROVE  ~ ToRead(Manager, k)'
    <3>1. k \in 1..Len(content) /\ ~ IsChange(k)
      BY <2>1, <2>5 DEF Published, IsChange
    <3>2. ~ Waiting(k)
      BY <2>3, <2>5, <3>1 DEF StartInv
    <3> QED
      BY <2>1, <3>2 DEF Published
  <2> QED
    BY <2>1, <2>2, <2>4, <2>5 DEF StartInv, Published
<1>2. CASE StartRender
  <2>1. /\ processing[Manager] = "done" /\ UNCHANGED <<processing, presses>>
    BY <1>0, <1>2 DEF StartRender, RenderDue, busVars
  <2>2. Started /\ Started' /\ \A k : ~ ToRead(Manager, k)
    <3>1. unread[Manager] = {}
      BY <1>0, <2>1 DEF EntityType
    <3> QED
      BY <1>0, <2>1, <3>1 DEF Started, ToRead
  <2> QED
    BY <1>2, <2>2, StillSteps, StartStill
<1>3. CASE EndRender \/ UNCHANGED vars
  <2>1. UNCHANGED <<processing, presses>> /\ (render' = render \/ render' = "done")
    BY <1>3 DEF EndRender, vars, busVars, guiVars
  <2>2. Still /\ (Started' <=> Started)
    BY <1>3, <2>1, StillSteps DEF Started
  <2>3. CASE Started
    BY <2>1, <2>2, <2>3, StartStill
  <2>4. CASE ~ Started
    BY <2>1, <2>2, <2>4 DEF StartInv
  <2> QED
    BY <2>3, <2>4
<1>4. ASSUME NEW m \in Messangers, Construct(m) PROVE StartInv'
  <2>1. ~ Started
    BY <1>4, Registers DEF StartInv, Complete, Construct
  <2>2. ~ Started' /\ UNCHANGED <<render, presses>>
    BY <1>4, <2>1, ConstructStep
  <2> QED
    BY <2>1, <2>2 DEF StartInv
<1>5. ASSUME NEW m \in Messangers, SendNext(m) PROVE StartInv'
  <2>1. ~ Started
    BY <1>5, ScriptTypes DEF StartInv, Complete, SendNext, EntityType
  <2>2. UNCHANGED <<processing, render, presses>>
    BY <1>5, Sendings DEF Sending, SendNext, guiVars
  <2> QED
    BY <2>1, <2>2 DEF StartInv, Started
<1>6. ASSUME NEW m \in Messangers, Process(m) PROVE StartInv'
  <2>1. render # "running" /\ (render' = render \/ render' = "due") /\ UNCHANGED presses
    BY <1>6, ProcessStep
        DEF Process, BeginProcess, GetMessages, Handle, EndProcess, SendPending, guiVars
  <2>2. processing[m] # "setup" /\ processing'[m] # "setup"
    <3>1. processing \in [Messangers -> {"setup", "due", "running", "reading", "done", "never"}]
      BY DEF BusFacts
    <3>2. CASE Handle(m)
      BY <3>2 DEF Handle, busVars, EntityType
    <3>3. CASE m = Manager /\ SendPending
      BY <1>6, <3>3, Sendings DEF Sending, SendPending
    <3>4. CASE BeginProcess(m) \/ GetMessages(m) \/ EndProcess(m)
      BY <3>1, <3>4 DEF BeginProcess, GetMessages, EndProcess, Bus!BeginProcess,
            Bus!StartProcess, Bus!GetMessages, Bus!EndProcess
    <3> QED
      BY <1>6, <3>2, <3>3, <3>4 DEF Process
  <2>3. Started /\ Started'
    BY <2>2 DEF Started
  <2>4. CASE BeginProcess(m) \/ GetMessages(m) \/ EndProcess(m)
    BY <2>1, <2>3, <2>4, StillSteps, StartStill
  <2>5. CASE Handle(m)
    <3>1. /\ UNCHANGED <<content, pendingMessages, messangersList, constructed>> /\ render' = render
      BY <2>5 DEF Handle, busVars, guiVars
    <3>2. \A k : (Waiting(k)' <=> Waiting(k)) /\ (IsChange(k)' <=> IsChange(k))
      BY <3>1 DEF Waiting, IsChange
    <3>3. \A x \in Messangers : Complete(x)'
      BY <2>3, <3>1 DEF StartInv, Complete, Bus!Registered
    <3> QED
      BY <2>1, <2>3, <3>1, <3>2, <3>3 DEF StartInv
  <2>6. CASE m = Manager /\ SendPending
    <3>1. /\ Sending(Manager, collected[sending + 1]) /\ collected[sending + 1].type = "change"
          /\ UNCHANGED <<constructed, render>>
      BY <2>6, Sendings DEF SendPending, Changes
    <3>2. \A x \in Messangers : Complete(x)'
      BY <2>3, <3>1, SameResolution DEF StartInv, Complete, Sending
    <3>3. ASSUME NEW k \in 1..Len(content'), ~ IsChange(k)' PROVE ~ Waiting(k)'
      <4>1. Len(content) \in Nat /\ Len(content') = Len(content) + 1
        BY <3>1, MessagesSent DEF Sending
      <4>2. k # Len(content) + 1
        BY <3>1, <3>3 DEF Sending, IsChange
      <4>3. k \in 1..Len(content) /\ ~ IsChange(k)
        BY <3>1, <3>3, <4>1, <4>2 DEF Sending, IsChange
      <4> QED
        BY <2>3, <3>1, <4>2, <4>3 DEF StartInv, Sending
    <3> QED
      BY <2>1, <2>3, <3>1, <3>2, <3>3 DEF StartInv
  <2> QED
    BY <1>6, <2>4, <2>5, <2>6 DEF Process
<1>7. ASSUME NEW p \in Properties, Press(p) PROVE StartInv'
  <2>1. UNCHANGED <<processing, render>> /\ render = "running"
    BY <1>7 DEF Press, busVars
  <2>2. Started /\ Started'
    BY <2>1 DEF StartInv, Started
  <2> QED
    BY <1>7, <2>1, <2>2, StillSteps, StartStill
<1> QED
  BY <1>1, <1>2, <1>3, <1>4, <1>5, <1>6, <1>7 DEF Next

-----------------------------------------------------------------------------
(* The presses: which of them have been sent, and by which message *)

\* The manager's list holds the last presses; those before it, and the part of
\* it that is sent, have a message each, in their order.
SentPresses == Len(presses) - Len(collected) + sending
CollectedArePresses ==
    /\ Len(collected) <= Len(presses)
    /\ \A j \in 1..Len(collected) :
            collected[j] = OnPropertyChange(presses[Len(presses) - Len(collected) + j],
                                            Len(presses) - Len(collected) + j)
ChangesArePresses ==
    \A k \in 1..Len(content) : IsChange(k) =>
        content[k].value \in 1..SentPresses /\ content[k].property = presses[content[k].value]
ChangesAscend ==
    \A k, l \in 1..Len(content) : IsChange(k) /\ IsChange(l) /\ k < l =>
        content[k].value < content[l].value
PressesHaveChanges ==
    \A v \in 1..SentPresses : \E k \in 1..Len(content) : IsChange(k) /\ content[k].value = v
PressInv == CollectedArePresses /\ ChangesArePresses /\ ChangesAscend /\ PressesHaveChanges

\* No press, no message.
LEMMA PressInit == Init => PressInv
<1> SUFFICES ASSUME Init PROVE PressInv
  OBVIOUS
<1>1. Len(content) = 0 /\ Len(presses) = 0 /\ Len(collected) = 0 /\ sending = 0
  BY DEF Init
<1>2. SentPresses = 0
  BY <1>1 DEF SentPresses
<1> QED
  BY <1>1, <1>2 DEF PressInv, CollectedArePresses, ChangesArePresses, ChangesAscend, PressesHaveChanges

\* sendPendingMessages() sends the next press.
LEMMA PressSent ==
    ASSUME BusFacts, EntityType, PressInv, SendPending PROVE PressInv'
<1> DEFINE v == SentPresses + 1
           n == Len(content) + 1
           c == collected[sending + 1]
<1>1. /\ sending + 1 \in 1..Len(collected) /\ Sending(Manager, c) /\ c \in Changes
      /\ sending' = sending + 1 /\ UNCHANGED <<collected, presses>>
  BY Sendings, EntitiesAssumption DEF SendPending
<1>2. /\ Len(presses) \in Nat /\ Len(collected) \in Nat /\ sending \in Nat /\ Len(content) \in Nat
      /\ Len(collected) <= Len(presses)
  BY MessagesSent, LenProperties DEF EntityType, PressInv, CollectedArePresses
<1>3. SentPresses \in Nat /\ SentPresses' = v
  BY <1>1, <1>2 DEF SentPresses
<1>4. c.value = v /\ c.property = presses[v] /\ c.type = "change"
  <2>1. Len(presses) - Len(collected) + (sending + 1) = v
    BY <1>1, <1>2 DEF SentPresses
  <2>2. c = OnPropertyChange(presses[v], v)
    BY <1>1, <2>1 DEF PressInv, CollectedArePresses
  <2> QED
    BY <2>2 DEF OnPropertyChange
<1>5. /\ Len(content') = n /\ content'[n] = c
      /\ \A k \in 1..Len(content) : content'[k] = content[k]
  BY <1>1 DEF Sending
<1>6. \A k : k \in 1..Len(content') <=> k \in 1..Len(content) \/ k = n
  BY <1>2, <1>5
<1>7. \A k \in 1..Len(content) : IsChange(k)' <=> IsChange(k)
  BY <1>5 DEF IsChange
<1>8. \A k \in 1..Len(content') : IsChange(k)' =>
        content'[k].value \in 1..SentPresses' /\ content'[k].property = presses'[content'[k].value]
  <2> SUFFICES ASSUME NEW k \in 1..Len(content'), IsChange(k)'
               PROVE  /\ content'[k].value \in 1..SentPresses'
                      /\ content'[k].property = presses'[content'[k].value]
    OBVIOUS
  <2>1. CASE k \in 1..Len(content)
    <3>1. /\ content[k].value \in 1..SentPresses
          /\ content[k].property = presses[content[k].value]
      BY <1>7, <2>1 DEF PressInv, ChangesArePresses
    <3> QED
      BY <1>1, <1>3, <1>5, <2>1, <3>1
  <2>2. CASE k = n
    BY <1>1, <1>3, <1>4, <1>5, <2>2
  <2> QED
    BY <1>6, <2>1, <2>2
<1>9. ASSUME NEW k \in 1..Len(content'), NEW l \in 1..Len(content'),
             IsChange(k)', IsChange(l)', k < l
      PROVE  content'[k].value < content'[l].value
  <2>1. k \in 1..Len(content) /\ IsChange(k) /\ content'[k] = content[k]
    BY <1>2, <1>5, <1>6, <1>7, <1>9
  <2>2. CASE l \in 1..Len(content)
    BY <1>5, <1>7, <1>9, <2>1, <2>2 DEF PressInv, ChangesAscend
  <2>3. CASE l = n
    <3>1. content[k].value \in 1..SentPresses
      BY <2>1 DEF PressInv, ChangesArePresses
    <3> QED
      BY <1>3, <1>4, <1>5, <2>1, <2>3, <3>1
  <2> QED
    BY <1>6, <2>2, <2>3
<1>10. ASSUME NEW w \in 1..SentPresses'
       PROVE  \E k \in 1..Len(content') : IsChange(k)' /\ content'[k].value = w
  <2>1. CASE w = v
    <3>1. n \in 1..Len(content') /\ content'[n].type = "change" /\ content'[n].value = w
      BY <1>4, <1>5, <1>6, <2>1
    <3> QED
      BY <3>1 DEF IsChange
  <2>2. CASE w # v
    <3>1. w \in 1..SentPresses
      BY <1>3, <2>2
    <3>2. PICK k \in 1..Len(content) : IsChange(k) /\ content[k].value = w
      BY <3>1 DEF PressInv, PressesHaveChanges
    <3> QED
      BY <1>5, <1>6, <1>7, <3>2
  <2> QED
    BY <2>1, <2>2
<1>11. CollectedArePresses'
  BY <1>1 DEF PressInv, CollectedArePresses
<1> QED
  BY <1>8, <1>9, <1>10, <1>11 DEF PressInv, ChangesArePresses, ChangesAscend, PressesHaveChanges

\* The presses keep their messages when others move.
LEMMA PressKept ==
    ASSUME PressInv, UNCHANGED <<content, collected, sending, presses>> PROVE PressInv'
<1>1. SentPresses' = SentPresses /\ \A k : IsChange(k)' <=> IsChange(k)
  BY DEF SentPresses, IsChange
<1> QED
  BY <1>1 DEF PressInv, CollectedArePresses, ChangesArePresses, ChangesAscend, PressesHaveChanges

\* Every step keeps PressInv.
LEMMA PressStep ==
    ASSUME BusFacts, EntityType, PressInv, [Next]_vars PROVE PressInv'
<1>0. /\ Len(presses) \in Nat /\ Len(collected) \in Nat /\ sending \in Nat /\ Len(content) \in Nat
      /\ Len(collected) <= Len(presses)
  BY MessagesSent, LenProperties DEF EntityType, PressInv, CollectedArePresses
<1>1. CASE Publish \/ StartRender \/ EndRender \/ UNCHANGED vars
  BY <1>1, PressKept DEF Publish, StartRender, EndRender, vars, guiVars
<1>2. ASSUME NEW m \in Messangers, Construct(m) PROVE PressInv'
  BY <1>2, PressKept DEF Construct, guiVars
<1>3. ASSUME NEW m \in Messangers, SendNext(m) PROVE PressInv'
  <2> DEFINE n == Len(content) + 1
             c == Script[m][constructed[m] + 1]
  <2>1. Sending(m, c) /\ c \in Registrations /\ UNCHANGED <<collected, sending, presses>>
    BY <1>3, Sendings DEF SendNext, guiVars
  <2>2. /\ Len(content') = n /\ content'[n].type # "change"
        /\ \A k \in 1..Len(content) : content'[k] = content[k]
    BY <2>1 DEF Sending, Registrations
  <2>3. \A k \in 1..Len(content') : IsChange(k)' =>
            k \in 1..Len(content) /\ IsChange(k) /\ content'[k] = content[k]
    BY <1>0, <2>2 DEF IsChange
  <2>4. \A k \in 1..Len(content) : k \in 1..Len(content') /\ (IsChange(k) => IsChange(k)')
    BY <1>0, <2>2 DEF IsChange
  <2>5. SentPresses' = SentPresses
    BY <2>1 DEF SentPresses
  <2>6. \A v \in 1..SentPresses' : \E k \in 1..Len(content') : IsChange(k)' /\ content'[k].value = v
    <3> SUFFICES ASSUME NEW v \in 1..SentPresses'
                 PROVE  \E k \in 1..Len(content') : IsChange(k)' /\ content'[k].value = v
      OBVIOUS
    <3>1. PICK k \in 1..Len(content) : IsChange(k) /\ content[k].value = v
      BY <2>5 DEF PressInv, PressesHaveChanges
    <3> QED
      BY <2>2, <2>4, <3>1
  <2>7. \A k \in 1..Len(content') : IsChange(k)' =>
            /\ content'[k].value \in 1..SentPresses'
            /\ content'[k].property = presses'[content'[k].value]
    BY <2>1, <2>3, <2>5 DEF PressInv, ChangesArePresses
  <2>8. \A k, l \in 1..Len(content') : IsChange(k)' /\ IsChange(l)' /\ k < l =>
            content'[k].value < content'[l].value
    BY <2>3 DEF PressInv, ChangesAscend
  <2>9. CollectedArePresses'
    BY <2>1 DEF PressInv, CollectedArePresses
  <2> QED
    BY <2>6, <2>7, <2>8, <2>9 DEF PressInv, ChangesArePresses, ChangesAscend, PressesHaveChanges
<1>4. ASSUME NEW m \in Messangers, BeginProcess(m) \/ Handle(m) \/ EndProcess(m) PROVE PressInv'
  BY <1>4, PressKept DEF BeginProcess, Handle, EndProcess, guiVars
<1>5. ASSUME NEW m \in Messangers, GetMessages(m) PROVE PressInv'
  <2>1. CASE m # Manager
    BY <1>5, <2>1, PressKept DEF GetMessages
  <2>2. CASE m = Manager
    <3>1. /\ sending = Len(collected) /\ collected' = <<>> /\ sending' = 0
          /\ UNCHANGED <<content, presses>>
      BY <1>5, <2>2 DEF GetMessages
    <3>2. Len(collected') = 0
      BY <3>1
    <3>3. SentPresses' = SentPresses /\ \A k : IsChange(k)' <=> IsChange(k)
      BY <1>0, <3>1, <3>2 DEF SentPresses, IsChange
    <3>4. CollectedArePresses'
      BY <1>0, <3>1, <3>2 DEF CollectedArePresses
    <3> QED
      BY <3>1, <3>3, <3>4 DEF PressInv, ChangesArePresses, ChangesAscend, PressesHaveChanges
  <2> QED
    BY <2>1, <2>2
<1>6. CASE SendPending
  BY <1>6, PressSent
<1>7. ASSUME NEW p \in Properties, Press(p) PROVE PressInv'
  <2>1. /\ UNCHANGED <<content, sending>> /\ presses' = Append(presses, p)
        /\ collected' = Append(collected, OnPropertyChange(p, Len(presses) + 1))
    BY <1>7 DEF Press
  <2>2. /\ Len(presses') = Len(presses) + 1 /\ presses'[Len(presses) + 1] = p
        /\ \A i \in 1..Len(presses) : presses'[i] = presses[i]
    BY <2>1, AppendProperties DEF EntityType
  <2>3. /\ Len(collected') = Len(collected) + 1
        /\ collected'[Len(collected) + 1] = OnPropertyChange(p, Len(presses) + 1)
        /\ \A j \in 1..Len(collected) : collected'[j] = collected[j]
    BY <2>1 DEF EntityType
  <2>4. SentPresses' = SentPresses /\ SentPresses \in Int /\ SentPresses <= Len(presses)
    BY <1>0, <2>1, <2>2, <2>3 DEF SentPresses, EntityType
  <2>5. Len(presses') - Len(collected') = Len(presses) - Len(collected)
    BY <1>0, <2>2, <2>3
  <2>6. ASSUME NEW j \in 1..Len(collected')
        PROVE  collected'[j] = OnPropertyChange(presses'[Len(presses) - Len(collected) + j],
                                                Len(presses) - Len(collected) + j)
    <3>1. CASE j = Len(collected) + 1
      <4>1. Len(presses) - Len(collected) + j = Len(presses) + 1
        BY <1>0, <3>1
      <4> QED
        BY <2>2, <2>3, <3>1, <4>1
    <3>2. CASE j # Len(collected) + 1
      <4>1. j \in 1..Len(collected) /\ Len(presses) - Len(collected) + j \in 1..Len(presses)
        BY <1>0, <2>3, <3>2
      <4> QED
        BY <2>2, <2>3, <4>1 DEF PressInv, CollectedArePresses
    <3> QED
      BY <3>1, <3>2
  <2>7. \A k : IsChange(k)' <=> IsChange(k)
    BY <2>1 DEF IsChange
  <2>8. \A k \in 1..Len(content) : IsChange(k) =>
            /\ content[k].value \in 1..SentPresses
            /\ content[k].property = presses'[content[k].value]
    <3> SUFFICES ASSUME NEW k \in 1..Len(content), IsChange(k)
                 PROVE  /\ content[k].value \in 1..SentPresses
                        /\ content[k].property = presses'[content[k].value]
      OBVIOUS
    <3>1. /\ content[k].value \in 1..SentPresses
          /\ content[k].property = presses[content[k].value]
      BY DEF PressInv, ChangesArePresses
    <3>2. content[k].value \in 1..Len(presses)
      BY <1>0, <2>4, <3>1
    <3> QED
      BY <2>2, <3>1, <3>2
  <2>9. CollectedArePresses'
    <3>1. Len(collected') <= Len(presses')
      BY <1>0, <2>2, <2>3
    <3> QED
      BY <2>5, <2>6, <3>1 DEF CollectedArePresses
  <2>10. ChangesArePresses' /\ ChangesAscend' /\ PressesHaveChanges'
    BY <2>1, <2>4, <2>7, <2>8 DEF PressInv, ChangesArePresses, ChangesAscend, PressesHaveChanges
  <2> QED
    BY <2>9, <2>10 DEF PressInv
<1> QED
  BY <1>1, <1>2, <1>3, <1>4, <1>5, <1>6, <1>7 DEF Next, Process

-----------------------------------------------------------------------------
(* The stages of a message *)

\* What a step does to the messages.
LEMMA Effects ==
    ASSUME BusFacts, EntityType, WaitsForAddressee, [Next]_vars
    PROVE  \/ Still \/ Published
           \/ \E m \in Messangers : Construct(m)
           \/ \E m \in Messangers : \E c : Sending(m, c) /\ (SendNext(m) \/ SendPending)
           \/ \E m \in Messangers : \E k \in 1..Len(content) : Reading(m, k)
<1>1. CASE Publish
  BY <1>1, PublishedStep
<1>2. CASE StartRender \/ EndRender \/ UNCHANGED vars \/ \E p \in Properties : Press(p)
  BY <1>2, StillSteps
<1>3. ASSUME NEW m \in Messangers, BeginProcess(m) \/ GetMessages(m) \/ EndProcess(m) PROVE Still
  BY <1>3, StillSteps
<1>4. ASSUME NEW m \in Messangers, SendNext(m) PROVE \E c : Sending(m, c) /\ SendNext(m)
  BY <1>4, Sendings
<1>5. ASSUME SendPending PROVE \E m \in Messangers : \E c : Sending(m, c) /\ SendPending
  BY <1>5, Sendings, EntitiesAssumption
<1>6. ASSUME NEW m \in Messangers, Handle(m) PROVE \E k \in 1..Len(content) : Reading(m, k)
  BY <1>6, ReadingStep
<1>7. CASE \E m \in Messangers : Construct(m) \/ SendNext(m)
  BY <1>4, <1>7
<1>8. CASE \E m \in Messangers : Process(m)
  BY <1>3, <1>5, <1>6, <1>8 DEF Process
<1> QED
  BY <1>1, <1>2, <1>7, <1>8 DEF Next

\* Message k was sent to m, and is neither waiting nor to be read.
IsPast(m, k) == Addressee(k) = NameOf[m] /\ ~ Waiting(k) /\ ~ ToRead(m, k)

\* The messages of a messanger pass the stages in their order.
WaitingIsNewest ==
    \A k, l \in 1..Len(content) : Waiting(k) /\ ~ Waiting(l) => l < k
ToReadIsPublished ==
    \A m \in Messangers : \A k \in 1..Len(content) : ToRead(m, k) =>
        Addressee(k) = NameOf[m] /\ Resolved(m) /\ ~ Waiting(k)
ToReadIsNewer ==
    \A m \in Messangers : \A k, l \in 1..Len(content) : ToRead(m, k) /\ IsPast(m, l) => l < k
StageInv == WaitsForAddressee /\ WaitingIsNewest /\ ToReadIsPublished /\ ToReadIsNewer

\* There is no message at the start.
LEMMA StageInit == Init => StageInv
<1> SUFFICES ASSUME Init PROVE StageInv
  OBVIOUS
<1>1. Len(content) = 0 /\ Len(pendingMessages) = 0
  BY DEF Init, Bus!Init
<1> QED
  BY <1>1 DEF StageInv, WaitsForAddressee, WaitingIsNewest, ToReadIsPublished, ToReadIsNewer

\* A name is resolved to the same messanger, in the steps that register none.
LEMMA SameResolved ==
    ASSUME UNCHANGED <<messangersList, nameToIndexDict>>
    PROVE  \A m : Resolved(m)' <=> Resolved(m)
BY SameResolution DEF Resolved

\* Messages that do not move stay where they are.
LEMMA StillPlaces ==
    ASSUME Still
    PROVE  /\ content' = content
           /\ \A k : /\ Waiting(k)' <=> Waiting(k)
                     /\ IsChange(k)' <=> IsChange(k)
                     /\ Addressee(k)' = Addressee(k)
           /\ \A m : Resolved(m)' <=> Resolved(m)
           /\ \A m, k : (ToRead(m, k)' <=> ToRead(m, k)) /\ (IsPast(m, k)' <=> IsPast(m, k))
<1>1. content' = content /\ pendingMessages' = pendingMessages
  BY DEF Still
<1>2. \A k : /\ Waiting(k)' <=> Waiting(k)
             /\ IsChange(k)' <=> IsChange(k)
             /\ Addressee(k)' = Addressee(k)
  BY <1>1 DEF Waiting, IsChange, Addressee
<1>3. \A m : Resolved(m)' <=> Resolved(m)
  BY SameResolved DEF Still
<1>4. \A m, k : ToRead(m, k)' <=> ToRead(m, k)
  BY DEF Still
<1> QED
  BY <1>1, <1>2, <1>3, <1>4 DEF IsPast

\* So do the old ones when one is sent.
LEMMA SendingPlaces ==
    ASSUME BusFacts, EntityType, NEW m, NEW c, Sending(m, c)
    PROVE  /\ Len(content) \in Nat /\ Len(content') = Len(content) + 1
           /\ \A k : k \in 1..Len(content') <=> k \in 1..Len(content) \/ k = Len(content) + 1
           /\ Len(content) + 1 \notin 1..Len(content)
           /\ content'[Len(content) + 1] = c
           /\ \A k \in 1..Len(content) :
                /\ content'[k] = content[k] /\ Addressee(k)' = Addressee(k)
                /\ IsChange(k)' <=> IsChange(k)
                /\ \A x : IsPast(x, k)' <=> IsPast(x, k)
           /\ \A k : Waiting(k)' <=> Waiting(k) \/ k = Len(content) + 1
           /\ \A x, k : k = Len(content) + 1 => ~ IsPast(x, k)'
           /\ \A x : Resolved(x)' <=> Resolved(x)
           /\ \A x, k : ToRead(x, k)' <=> ToRead(x, k)
<1> DEFINE n == Len(content) + 1
<1>1. Len(content) \in Nat /\ Len(content') = n /\ content'[n] = c
  BY MessagesSent DEF Sending
<1>2. \A k : k \in 1..Len(content') <=> k \in 1..Len(content) \/ k = n
  BY <1>1
<1>3. n \notin 1..Len(content)
  BY <1>1
<1>4. /\ \A k : Waiting(k)' <=> Waiting(k) \/ k = n
      /\ \A x, k : ToRead(x, k)' <=> ToRead(x, k)
      /\ \A x : Resolved(x)' <=> Resolved(x)
  BY SameResolved DEF Sending
<1>5. ASSUME NEW k \in 1..Len(content)
      PROVE  /\ content'[k] = content[k] /\ Addressee(k)' = Addressee(k)
             /\ IsChange(k)' <=> IsChange(k)
             /\ \A x : IsPast(x, k)' <=> IsPast(x, k)
  <2>1. content'[k] = content[k]
    BY DEF Sending
  <2>2. Addressee(k)' = Addressee(k) /\ (IsChange(k)' <=> IsChange(k))
    BY <2>1 DEF Addressee, IsChange
  <2>3. k # n
    BY <1>3
  <2> QED
    BY <1>4, <2>1, <2>2, <2>3 DEF IsPast
<1>6. \A x, k : k = n => ~ IsPast(x, k)'
  BY <1>4 DEF IsPast
<1> QED
  BY <1>1, <1>2, <1>3, <1>4, <1>5, <1>6

\* publish() moves the waiting messages that have a reader, and no other.
LEMMA PublishedPlaces ==
    ASSUME BusFacts, Published
    PROVE  /\ content' = content
           /\ \A k : (IsChange(k)' <=> IsChange(k)) /\ Addressee(k)' = Addressee(k) /\ ~ Waiting(k)'
           /\ \A m : Resolved(m)' <=> Resolved(m)
           /\ \A m \in Messangers : \A k :
                /\ ToRead(m, k)' => Waiting(k) /\ Addressee(k) = NameOf[m] /\ Resolved(m)
                /\ m \in Readers /\ Resolved(m) => (IsPast(m, k)' <=> IsPast(m, k))
                /\ IsPast(m, k) => IsPast(m, k)'
<1>1. /\ content' = content
      /\ \A k : (IsChange(k)' <=> IsChange(k)) /\ Addressee(k)' = Addressee(k) /\ ~ Waiting(k)'
  BY DEF Published, IsChange, Addressee
<1>2. \A m : Resolved(m)' <=> Resolved(m)
  BY SameResolved DEF Published
<1>3. ASSUME NEW m \in Messangers, NEW k
      PROVE  /\ ToRead(m, k)' => Waiting(k) /\ Addressee(k) = NameOf[m] /\ Resolved(m)
             /\ m \in Readers /\ Resolved(m) => (IsPast(m, k)' <=> IsPast(m, k))
             /\ IsPast(m, k) => IsPast(m, k)'
  <2>1. /\ ToRead(m, k)' <=>
                m \in Readers /\ Waiting(k) /\ Bus!GetRecipient(ByName(Addressee(k))) = m
        /\ ~ ToRead(m, k)
    BY DEF Published
  <2>2. Bus!GetRecipient(ByName(Addressee(k))) = m => Addressee(k) = NameOf[m]
    BY Resolving
  <2> QED
    BY <1>1, <2>1, <2>2 DEF Resolved, IsPast
<1> QED
  BY <1>1, <1>2, <1>3

\* The handled message becomes past, and no other moves.
LEMMA ReadingPlaces ==
    ASSUME ToReadIsPublished, NEW m \in Messangers, NEW k \in 1..Len(content), Reading(m, k)
    PROVE  /\ content' = content
           /\ \A l : /\ Waiting(l)' <=> Waiting(l)
                     /\ IsChange(l)' <=> IsChange(l)
                     /\ Addressee(l)' = Addressee(l)
           /\ \A x : Resolved(x)' <=> Resolved(x)
           /\ Addressee(k) = NameOf[m] /\ Resolved(m) /\ ~ Waiting(k) /\ m \in Readers
           /\ \A x, l : ToRead(x, l)' <=> ToRead(x, l) /\ ~ (x = m /\ l = k)
           /\ \A x, l : IsPast(x, l)' <=> IsPast(x, l) \/ (x = m /\ l = k)
<1>1. /\ content' = content
      /\ \A l : /\ Waiting(l)' <=> Waiting(l)
                /\ IsChange(l)' <=> IsChange(l)
                /\ Addressee(l)' = Addressee(l)
  BY DEF Reading, Waiting, IsChange, Addressee
<1>2. \A x : Resolved(x)' <=> Resolved(x)
  BY SameResolved DEF Reading
<1>3. /\ m \in Readers
      /\ Addressee(k) = NameOf[m] /\ Resolved(m) /\ ~ Waiting(k) /\ ToRead(m, k)
      /\ \A x, l : ToRead(x, l)' <=> ToRead(x, l) /\ ~ (x = m /\ l = k)
  BY DEF Reading, ToReadIsPublished
<1>4. ASSUME NEW x, NEW l PROVE IsPast(x, l)' <=> IsPast(x, l) \/ (x = m /\ l = k)
  BY <1>1, <1>3 DEF IsPast
<1> QED
  BY <1>1, <1>2, <1>3, <1>4

\* Every step keeps the messages in their stages.
LEMMA StageStep ==
    ASSUME BusFacts, BusFacts', EntityType, StartInv, StageInv, [Next]_vars PROVE StageInv'
<1>0. Len(content) \in Nat /\ Len(pendingMessages) \in Nat
      /\ \A i \in 1..Len(pendingMessages) : pendingMessages[i].message \in 1..Len(content)
  BY MessagesSent, LenProperties DEF BusFacts
<1> USE DEF StageInv
<1>1. CASE Still
  <2>1. WaitsForAddressee'
    <3>1. pendingMessages' = pendingMessages
      BY <1>1 DEF Still
    <3> QED
      BY <1>1, <3>1, StillPlaces DEF WaitsForAddressee
  <2>2. WaitingIsNewest'
    BY <1>1, StillPlaces DEF WaitingIsNewest
  <2>3. ToReadIsPublished'
    BY <1>1, StillPlaces DEF ToReadIsPublished
  <2>4. ToReadIsNewer'
    BY <1>1, StillPlaces DEF ToReadIsNewer
  <2> QED
    BY <2>1, <2>2, <2>3, <2>4
<1>2. CASE Published
  <2>1. WaitsForAddressee'
    BY <1>2 DEF WaitsForAddressee, Published
  <2>2. WaitingIsNewest'
    BY <1>2, PublishedPlaces DEF WaitingIsNewest
  <2>3. ToReadIsPublished'
    BY <1>2, PublishedPlaces DEF ToReadIsPublished
  <2>4. ToReadIsNewer'
    <3> SUFFICES ASSUME NEW m \in Messangers, NEW k \in 1..Len(content), NEW l \in 1..Len(content),
                        ToRead(m, k)', IsPast(m, l)'
                 PROVE  l < k
      BY <1>2, PublishedPlaces DEF ToReadIsNewer
    <3>1. Waiting(k) /\ Resolved(m) /\ m \in Readers
      BY <1>2, PublishedPlaces DEF Published
    <3>2. IsPast(m, l)
      BY <1>2, <3>1, PublishedPlaces
    <3> QED
      BY <3>1, <3>2 DEF IsPast, WaitingIsNewest
  <2> QED
    BY <2>1, <2>2, <2>3, <2>4
<1>3. ASSUME NEW m \in Messangers, Construct(m) PROVE StageInv'
  <2>1. ~ Started
    BY <1>3, Registers DEF StartInv, Complete, Construct
  <2>2. /\ UNCHANGED <<content, pendingMessages>>
        /\ \A x, k : ~ ToRead(x, k)'
    BY <1>3, <2>1, ConstructStep
  <2>3. \A k : (Waiting(k)' <=> Waiting(k)) /\ Addressee(k)' = Addressee(k)
    BY <2>2 DEF Waiting, Addressee
  <2>4. ToReadIsPublished' /\ ToReadIsNewer'
    BY <2>2 DEF ToReadIsPublished, ToReadIsNewer
  <2>5. WaitsForAddressee' /\ WaitingIsNewest'
    BY <2>2, <2>3 DEF WaitsForAddressee, WaitingIsNewest
  <2> QED
    BY <2>4, <2>5
<1>4. ASSUME NEW m, NEW c, Sending(m, c) PROVE StageInv'
  <2> DEFINE n == Len(content) + 1
  <2>1. /\ Len(content') = n /\ content'[n] = c /\ n \notin 1..Len(content)
        /\ \A k : k \in 1..Len(content') <=> k \in 1..Len(content) \/ k = n
        /\ \A k \in 1..Len(content) : Addressee(k)' = Addressee(k)
        /\ \A k \in 1..Len(content) : \A x : IsPast(x, k)' <=> IsPast(x, k)
        /\ \A k : Waiting(k)' <=> Waiting(k) \/ k = n
        /\ \A x, k : k = n => ~ IsPast(x, k)'
        /\ \A x : Resolved(x)' <=> Resolved(x)
        /\ \A x, k : ToRead(x, k)' <=> ToRead(x, k)
    BY <1>4, SendingPlaces
  <2>2. WaitsForAddressee'
    <3> SUFFICES ASSUME NEW i \in 1..Len(pendingMessages')
                 PROVE  pendingMessages'[i].recipient
                            = ByName(SentTo(content'[pendingMessages'[i].message]))
      BY DEF WaitsForAddressee, Addressee
    <3>1. CASE i = Len(pendingMessages) + 1
      BY <1>4, <2>1, <3>1 DEF Sending
    <3>2. CASE i \in 1..Len(pendingMessages)
      <4>1. pendingMessages'[i] = pendingMessages[i]
        BY <1>4, <3>2 DEF Sending
      <4>2. /\ pendingMessages[i].recipient = ByName(SentTo(content[pendingMessages[i].message]))
            /\ pendingMessages[i].message \in 1..Len(content)
        BY <1>0, <3>2 DEF WaitsForAddressee, Addressee
      <4> QED
        BY <1>4, <4>1, <4>2 DEF Sending
    <3>3. Len(pendingMessages') = Len(pendingMessages) + 1
      BY <1>4 DEF Sending
    <3> QED
      BY <1>0, <3>1, <3>2, <3>3
  <2>3. WaitingIsNewest'
    <3> SUFFICES ASSUME NEW k \in 1..Len(content'), NEW l \in 1..Len(content'),
                        Waiting(k)', ~ Waiting(l)'
                 PROVE  l < k
      BY DEF WaitingIsNewest
    <3>1. l \in 1..Len(content) /\ ~ Waiting(l)
      BY <2>1
    <3>2. CASE k = n
      BY <1>0, <3>1, <3>2
    <3>3. CASE k # n
      BY <2>1, <3>1, <3>3 DEF WaitingIsNewest
    <3> QED
      BY <3>2, <3>3
  <2>4. ToReadIsPublished'
    <3> SUFFICES ASSUME NEW x \in Messangers, NEW k \in 1..Len(content'), ToRead(x, k)'
                 PROVE  Addressee(k)' = NameOf[x] /\ Resolved(x)' /\ ~ Waiting(k)'
      BY DEF ToReadIsPublished
    <3>1. ToRead(x, k) /\ k \in 1..Len(content) /\ k # n
      BY <2>1, MessagesSent
    <3> QED
      BY <2>1, <3>1 DEF ToReadIsPublished
  <2>5. ToReadIsNewer'
    <3> SUFFICES ASSUME NEW x \in Messangers, NEW k \in 1..Len(content'), NEW l \in 1..Len(content'),
                        ToRead(x, k)', IsPast(x, l)'
                 PROVE  l < k
      BY DEF ToReadIsNewer
    <3>1. ToRead(x, k) /\ k \in 1..Len(content)
      BY <2>1, MessagesSent
    <3>2. l \in 1..Len(content) /\ IsPast(x, l)
      BY <2>1
    <3> QED
      BY <3>1, <3>2 DEF ToReadIsNewer
  <2> QED
    BY <2>2, <2>3, <2>4, <2>5
<1>5. ASSUME NEW m \in Messangers, NEW k \in 1..Len(content), Reading(m, k) PROVE StageInv'
  <2>1. /\ content' = content
        /\ \A l : (Waiting(l)' <=> Waiting(l)) /\ Addressee(l)' = Addressee(l)
        /\ \A x : Resolved(x)' <=> Resolved(x)
        /\ \A x, l : ToRead(x, l)' <=> ToRead(x, l) /\ ~ (x = m /\ l = k)
        /\ \A x, l : IsPast(x, l)' <=> IsPast(x, l) \/ (x = m /\ l = k)
    BY <1>5, ReadingPlaces
  <2>2. WaitsForAddressee'
    <3>1. pendingMessages' = pendingMessages
      BY <1>5 DEF Reading
    <3> QED
      BY <2>1, <3>1 DEF WaitsForAddressee
  <2>3. WaitingIsNewest' /\ ToReadIsPublished'
    BY <2>1 DEF WaitingIsNewest, ToReadIsPublished
  <2>4. ToReadIsNewer'
    <3> SUFFICES ASSUME NEW x \in Messangers, NEW j \in 1..Len(content), NEW l \in 1..Len(content),
                        ToRead(x, j), ~ (x = m /\ j = k), IsPast(x, l) \/ (x = m /\ l = k)
                 PROVE  l < j
      BY <2>1 DEF ToReadIsNewer
    <3>1. CASE IsPast(x, l)
      BY <3>1 DEF ToReadIsNewer
    <3>2. CASE x = m /\ l = k
      <4>1. k <= j /\ j # k
        BY <1>5, <3>2 DEF Reading
      <4> QED
        BY <1>0, <3>2, <4>1
    <3> QED
      BY <3>1, <3>2
  <2> QED
    BY <2>2, <2>3, <2>4
<1> QED
  BY <1>1, <1>2, <1>3, <1>4, <1>5, Effects

-----------------------------------------------------------------------------
(* What is received: the past changes of a messanger, no more and no fewer *)

ReceivedByReaders ==
    \A m \in Messangers : Len(received[m]) # 0 => m \in Readers /\ Resolved(m)
ReceivedArePast ==
    \A m \in Messangers : \A i \in 1..Len(received[m]) : \E k \in 1..Len(content) :
        IsChange(k) /\ IsPast(m, k) /\ content[k].value = received[m][i]
ReceivedAscend ==
    \A m \in Messangers : \A i, j \in 1..Len(received[m]) :
        i < j => received[m][i] < received[m][j]
PastAreReceived ==
    \A m \in Messangers : m \in Readers /\ Resolved(m) =>
        \A k \in 1..Len(content) : IsChange(k) /\ IsPast(m, k) =>
            \E i \in 1..Len(received[m]) : received[m][i] = content[k].value
ReceivedInv == ReceivedByReaders /\ ReceivedArePast /\ ReceivedAscend /\ PastAreReceived

\* Nothing is received, and nothing sent, at the start.
LEMMA ReceivedInit == Init => ReceivedInv
<1> SUFFICES ASSUME Init PROVE ReceivedInv
  OBVIOUS
<1>1. Len(content) = 0 /\ \A m \in Messangers : Len(received[m]) = 0
  BY DEF Init
<1> QED
  BY <1>1 DEF ReceivedInv, ReceivedByReaders, ReceivedArePast, ReceivedAscend, PastAreReceived

\* A step that hands over no message keeps ReceivedInv, if it makes none past.
LEMMA ReceivedKept ==
    ASSUME ReceivedInv, received' = received,
           \A m : Resolved(m)' <=> Resolved(m),
           \A k \in 1..Len(content) :
                k \in 1..Len(content') /\ content'[k] = content[k] /\ (IsChange(k)' <=> IsChange(k)),
           \A m \in Messangers : \A k \in 1..Len(content) : IsPast(m, k) => IsPast(m, k)',
           \A m \in Messangers : \A k \in 1..Len(content') :
                m \in Readers /\ Resolved(m) /\ IsPast(m, k)' => k \in 1..Len(content) /\ IsPast(m, k)
    PROVE  ReceivedInv'
<1>1. ReceivedByReaders' /\ ReceivedAscend'
  BY DEF ReceivedInv, ReceivedByReaders, ReceivedAscend
<1>2. ReceivedArePast'
  <2> SUFFICES ASSUME NEW m \in Messangers, NEW i \in 1..Len(received[m])
               PROVE  \E k \in 1..Len(content') :
                        IsChange(k)' /\ IsPast(m, k)' /\ content'[k].value = received[m][i]
    BY DEF ReceivedArePast
  <2>1. PICK k \in 1..Len(content) :
            IsChange(k) /\ IsPast(m, k) /\ content[k].value = received[m][i]
    BY DEF ReceivedInv, ReceivedArePast
  <2> QED
    BY <2>1
<1>3. PastAreReceived'
  <2> SUFFICES ASSUME NEW m \in Messangers, m \in Readers, Resolved(m),
                      NEW k \in 1..Len(content'), IsChange(k)', IsPast(m, k)'
               PROVE  \E i \in 1..Len(received[m]) : received[m][i] = content'[k].value
    BY DEF PastAreReceived
  <2>1. k \in 1..Len(content) /\ IsPast(m, k) /\ IsChange(k) /\ content'[k] = content[k]
    OBVIOUS
  <2>2. \E i \in 1..Len(received[m]) : received[m][i] = content[k].value
    BY <2>1 DEF ReceivedInv, PastAreReceived
  <2> QED
    BY <2>1, <2>2
<1> QED
  BY <1>1, <1>2, <1>3 DEF ReceivedInv

\* A messanger that reads a change receives its value, the largest so far.
LEMMA ReceivedRead ==
    ASSUME BusFacts, EntityType, PressInv, StageInv, ReceivedInv,
           NEW m \in Messangers, NEW k \in 1..Len(content), Reading(m, k), m # Manager, IsChange(k),
           received' = [received EXCEPT ![m] = Append(@, content[k].value)]
    PROVE  ReceivedInv'
<1> DEFINE v == content[k].value
           n == Len(received[m])
<1>1. /\ content' = content
      /\ \A l : IsChange(l)' <=> IsChange(l)
      /\ \A x : Resolved(x)' <=> Resolved(x)
      /\ Resolved(m) /\ m \in Readers
      /\ \A x, l : IsPast(x, l)' <=> IsPast(x, l) \/ (x = m /\ l = k)
  BY ReadingPlaces DEF StageInv
<1>2. v \in 1..MaxPresses
  BY MessagesSent, ScriptTypes DEF IsChange, Registrations, Changes
<1>3. /\ received[m] \in Seq(1..MaxPresses) /\ n \in Nat
      /\ \A x \in Messangers : x # m => received'[x] = received[x]
      /\ received'[m] = Append(received[m], v)
  BY LenProperties DEF EntityType
<1>4. /\ Len(received'[m]) = n + 1 /\ received'[m][n + 1] = v
      /\ \A i \in 1..n : received'[m][i] = received[m][i]
  BY <1>2, <1>3, AppendProperties
<1>5. \A i : i \in 1..Len(received'[m]) <=> i \in 1..n \/ i = n + 1
  BY <1>3, <1>4
<1>6. ReceivedByReaders'
  BY <1>1, <1>3 DEF ReceivedInv, ReceivedByReaders
<1>7. ReceivedArePast'
  <2> SUFFICES ASSUME NEW x \in Messangers, NEW i \in 1..Len(received'[x])
               PROVE  \E l \in 1..Len(content) :
                        IsChange(l) /\ IsPast(x, l)' /\ content[l].value = received'[x][i]
    BY <1>1 DEF ReceivedArePast
  <2>1. CASE x = m /\ i = n + 1
    BY <1>1, <1>4, <2>1
  <2>2. CASE x # m \/ i # n + 1
    <3>1. i \in 1..Len(received[x]) /\ received'[x][i] = received[x][i]
      BY <1>3, <1>4, <1>5, <2>2
    <3>2. PICK l \in 1..Len(content) :
            IsChange(l) /\ IsPast(x, l) /\ content[l].value = received[x][i]
      BY <3>1 DEF ReceivedInv, ReceivedArePast
    <3> QED
      BY <1>1, <3>1, <3>2
  <2> QED
    BY <2>1, <2>2
<1>8. \A i \in 1..n : received[m][i] < v
  <2> SUFFICES ASSUME NEW i \in 1..n PROVE received[m][i] < v
    OBVIOUS
  <2>1. PICK l \in 1..Len(content) :
            IsChange(l) /\ IsPast(m, l) /\ content[l].value = received[m][i]
    BY DEF ReceivedInv, ReceivedArePast
  <2>2. l < k
    BY <2>1 DEF StageInv, ToReadIsNewer, Reading
  <2> QED
    BY <2>1, <2>2 DEF PressInv, ChangesAscend
<1>9. ReceivedAscend'
  <2> SUFFICES ASSUME NEW x \in Messangers, NEW i \in 1..Len(received'[x]),
                      NEW j \in 1..Len(received'[x]), i < j
               PROVE  received'[x][i] < received'[x][j]
    BY DEF ReceivedAscend
  <2>1. CASE x = m
    <3>1. i \in 1..n
      BY <1>3, <1>5, <2>1
    <3>2. CASE j = n + 1
      BY <1>4, <1>8, <2>1, <3>1, <3>2
    <3>3. CASE j \in 1..n
      BY <1>4, <2>1, <3>1, <3>3 DEF ReceivedInv, ReceivedAscend
    <3> QED
      BY <1>5, <2>1, <3>2, <3>3
  <2>2. CASE x # m
    BY <1>3, <2>2 DEF ReceivedInv, ReceivedAscend
  <2> QED
    BY <2>1, <2>2
<1>10. PastAreReceived'
  <2> SUFFICES ASSUME NEW x \in Messangers, x \in Readers, Resolved(x),
                      NEW l \in 1..Len(content), IsChange(l), IsPast(x, l)'
               PROVE  \E i \in 1..Len(received'[x]) : received'[x][i] = content[l].value
    BY <1>1 DEF PastAreReceived
  <2>1. CASE x = m /\ l = k
    BY <1>4, <1>5, <2>1
  <2>2. CASE ~ (x = m /\ l = k)
    <3>1. IsPast(x, l)
      BY <1>1, <2>2
    <3>2. PICK i \in 1..Len(received[x]) : received[x][i] = content[l].value
      BY <3>1 DEF ReceivedInv, PastAreReceived
    <3>3. i \in 1..Len(received'[x]) /\ received'[x][i] = received[x][i]
      BY <1>3, <1>4, <1>5
    <3> QED
      BY <3>2, <3>3
  <2> QED
    BY <2>1, <2>2
<1> QED
  BY <1>6, <1>7, <1>9, <1>10 DEF ReceivedInv

\* Every step keeps ReceivedInv.
LEMMA ReceivedStep ==
    ASSUME BusFacts, BusFacts', EntityType, StartInv, PressInv, StageInv, ReceivedInv, [Next]_vars
    PROVE  ReceivedInv'
<1>1. CASE Still
  <2>1. received' = received
    BY <1>1 DEF Still
  <2> QED
    BY <1>1, <2>1, StillPlaces, ReceivedKept
<1>2. CASE Published
  <2>1. received' = received
    BY <1>2 DEF Published
  <2> QED
    BY <1>2, <2>1, PublishedPlaces, ReceivedKept
<1>3. ASSUME NEW m \in Messangers, Construct(m) PROVE ReceivedInv'
  <2>1. ~ Started
    BY <1>3, Registers DEF StartInv, Complete, Construct
  <2>2. Len(presses) = 0
    BY <2>1 DEF StartInv
  <2>3. UNCHANGED <<content, received>>
    BY <1>3, <2>1, ConstructStep
  <2>4. \A k \in 1..Len(content) : ~ IsChange(k)
    <3>1. Len(collected) = 0 /\ sending = 0
      BY <2>2, LenProperties DEF EntityType, PressInv, CollectedArePresses
    <3>2. SentPresses = 0
      BY <2>2, <3>1 DEF SentPresses
    <3> QED
      BY <3>2 DEF PressInv, ChangesArePresses
  <2>5. \A x \in Messangers : Len(received[x]) = 0
    <3> SUFFICES ASSUME NEW x \in Messangers, Len(received[x]) # 0 PROVE FALSE
      OBVIOUS
    <3>1. 1 \in 1..Len(received[x])
      BY LenProperties DEF EntityType
    <3> QED
      BY <2>4, <3>1 DEF ReceivedInv, ReceivedArePast
  <2>6. \A k \in 1..Len(content') : ~ IsChange(k)'
    BY <2>3, <2>4 DEF IsChange
  <2> QED
    BY <2>3, <2>5, <2>6
        DEF ReceivedInv, ReceivedByReaders, ReceivedArePast, ReceivedAscend, PastAreReceived
<1>4. ASSUME NEW m, NEW c, Sending(m, c) PROVE ReceivedInv'
  <2>1. received' = received
    BY <1>4 DEF Sending
  <2> QED
    BY <1>4, <2>1, SendingPlaces, ReceivedKept
<1>5. ASSUME NEW m \in Messangers, NEW k \in 1..Len(content), Reading(m, k) PROVE ReceivedInv'
  <2>1. CASE m # Manager /\ IsChange(k)
             /\ received' = [received EXCEPT ![m] = Append(@, content[k].value)]
    BY <1>5, <2>1, ReceivedRead
  <2>2. CASE received' = received /\ ~ IsChange(k)
    <3>1. /\ content' = content
          /\ \A l : IsChange(l)' <=> IsChange(l)
          /\ \A x : Resolved(x)' <=> Resolved(x)
          /\ \A x, l : IsPast(x, l)' <=> IsPast(x, l) \/ (x = m /\ l = k)
      BY <1>5, ReadingPlaces DEF StageInv
    <3>2. ReceivedByReaders' /\ ReceivedAscend'
      BY <2>2, <3>1 DEF ReceivedInv, ReceivedByReaders, ReceivedAscend
    <3>3. ReceivedArePast'
      <4> SUFFICES ASSUME NEW x \in Messangers, NEW i \in 1..Len(received'[x])
                   PROVE  \E l \in 1..Len(content') :
                            IsChange(l)' /\ IsPast(x, l)' /\ content'[l].value = received'[x][i]
        BY DEF ReceivedArePast
      <4>1. PICK l \in 1..Len(content) :
              IsChange(l) /\ IsPast(x, l) /\ content[l].value = received[x][i]
        BY <2>2 DEF ReceivedInv, ReceivedArePast
      <4>2. IsChange(l)' /\ IsPast(x, l)'
        BY <3>1, <4>1
      <4> QED
        BY <2>2, <3>1, <4>1, <4>2
    <3>4. PastAreReceived'
      BY <2>2, <3>1 DEF ReceivedInv, PastAreReceived
    <3> QED
      BY <3>2, <3>3, <3>4 DEF ReceivedInv
  <2> QED
    BY <1>5, <2>1, <2>2 DEF Reading
<1> QED
  BY <1>1, <1>2, <1>3, <1>4, <1>5, Effects DEF StageInv

\* A messanger has received the earlier presses of its properties when it
\* receives one.
LEMMA InOrder ==
    ASSUME EntityType, BusFacts, PressInv, StageInv, ReceivedInv
    PROVE  NotifiedInOrder
<1> SUFFICES ASSUME NEW m \in Messangers, NEW i \in 1..Len(received[m])
             PROVE  LET n == received[m][i]
                    IN  /\ n \in 1..Len(presses) /\ RecipientOf[presses[n]] = NameOf[m]
                        /\ \A j \in 1..(i - 1) : received[m][j] < n
                        /\ \A l \in 1..(n - 1) : RecipientOf[presses[l]] = NameOf[m] =>
                                \E j \in 1..(i - 1) : received[m][j] = l
  BY DEF NotifiedInOrder
<1> DEFINE n == received[m][i]
<1>1. PICK k \in 1..Len(content) : IsChange(k) /\ IsPast(m, k) /\ content[k].value = n
  BY DEF ReceivedInv, ReceivedArePast
<1>2. /\ Len(presses) \in Nat /\ Len(collected) \in Nat /\ sending \in Nat /\ Len(content) \in Nat
      /\ Len(received[m]) \in Nat /\ sending <= Len(collected)
  BY MessagesSent, LenProperties DEF EntityType
<1>3. SentPresses \in Int /\ SentPresses <= Len(presses)
  BY <1>2 DEF SentPresses
<1>4. n \in 1..SentPresses /\ content[k].property = presses[n]
  BY <1>1 DEF PressInv, ChangesArePresses
<1>5. n \in 1..Len(presses)
  BY <1>2, <1>3, <1>4
<1>6. RecipientOf[presses[n]] = NameOf[m]
  BY <1>1, <1>4 DEF IsPast, Addressee, SentTo, IsChange
<1>7. \A j \in 1..(i - 1) : received[m][j] < n
  <2> SUFFICES ASSUME NEW j \in 1..(i - 1) PROVE received[m][j] < n
    OBVIOUS
  <2>1. j \in 1..Len(received[m]) /\ j < i
    BY <1>2
  <2> QED
    BY <2>1 DEF ReceivedInv, ReceivedAscend
<1>8. ASSUME NEW l \in 1..(n - 1), RecipientOf[presses[l]] = NameOf[m]
      PROVE  \E j \in 1..(i - 1) : received[m][j] = l
  <2>1. l \in 1..SentPresses /\ l < n
    BY <1>3, <1>4
  <2>2. PICK q \in 1..Len(content) : IsChange(q) /\ content[q].value = l
    BY <2>1 DEF PressInv, PressesHaveChanges
  <2>3. q < k
    <3>1. ~ (k < q) /\ k # q
      <4>1. k < q => n < l
        BY <1>1, <2>2 DEF PressInv, ChangesAscend
      <4> QED
        BY <1>1, <1>4, <2>1, <2>2, <4>1
    <3> QED
      BY <1>2, <3>1
  <2>4. Addressee(q) = NameOf[m]
    BY <1>8, <2>2 DEF PressInv, ChangesArePresses, Addressee, SentTo, IsChange
  <2>5. ~ Waiting(q)
    <3>1. Waiting(q) => k < q
      BY <1>1 DEF IsPast, StageInv, WaitingIsNewest
    <3> QED
      BY <1>2, <2>3, <3>1
  <2>6. ~ ToRead(m, q)
    <3>1. ToRead(m, q) => k < q
      BY <1>1 DEF StageInv, ToReadIsNewer
    <3> QED
      BY <1>2, <2>3, <3>1
  <2>7. m \in Readers /\ Resolved(m)
    <3>1. Len(received[m]) # 0
      BY <1>2
    <3> QED
      BY <3>1 DEF ReceivedInv, ReceivedByReaders
  <2>8. PICK j \in 1..Len(received[m]) : received[m][j] = l
    BY <2>2, <2>4, <2>5, <2>6, <2>7 DEF IsPast, ReceivedInv, PastAreReceived
  <2>9. ~ (i < j) /\ i # j
    <3>1. i < j => n < l
      BY <2>8 DEF ReceivedInv, ReceivedAscend
    <3> QED
      BY <1>4, <2>1, <2>8, <3>1
  <2>10. j \in 1..(i - 1)
    BY <1>2, <2>9
  <2> QED
    BY <2>8, <2>10
<1> QED
  BY <1>5, <1>6, <1>7, <1>8

\* A press of a messanger's property is still to be sent, on its way, or received.
NothingIsLost ==
    \A m \in Readers : Resolved(m) =>
        \A n \in 1..Len(presses) : RecipientOf[presses[n]] = NameOf[m] =>
            \/ \E j \in (sending + 1)..Len(collected) : collected[j].value = n
            \/ \E k \in 1..Len(content) :
                    IsChange(k) /\ content[k].value = n /\ (Waiting(k) \/ ToRead(m, k))
            \/ \E i \in 1..Len(received[m]) : received[m][i] = n

\* Every press that is sent has a message, and every past message is received.
LEMMA NoneIsLost ==
    ASSUME BusFacts, EntityType, PressInv, ReceivedInv
    PROVE  NothingIsLost
<1> SUFFICES ASSUME NEW m \in Readers, Resolved(m),
                    NEW n \in 1..Len(presses), RecipientOf[presses[n]] = NameOf[m]
             PROVE  \/ \E j \in (sending + 1)..Len(collected) : collected[j].value = n
                    \/ \E k \in 1..Len(content) :
                            IsChange(k) /\ content[k].value = n /\ (Waiting(k) \/ ToRead(m, k))
                    \/ \E i \in 1..Len(received[m]) : received[m][i] = n
  BY DEF NothingIsLost
<1>1. /\ Len(presses) \in Nat /\ Len(collected) \in Nat /\ sending \in Nat
      /\ Len(collected) <= Len(presses) /\ m \in Messangers
  BY LenProperties, EntitiesAssumption DEF EntityType, PressInv, CollectedArePresses
<1>2. CASE n <= SentPresses
  <2>1. PICK k \in 1..Len(content) : IsChange(k) /\ content[k].value = n
    BY <1>1, <1>2 DEF PressInv, PressesHaveChanges, SentPresses
  <2>2. Addressee(k) = NameOf[m]
    BY <2>1 DEF PressInv, ChangesArePresses, Addressee, SentTo, IsChange
  <2>3. CASE Waiting(k) \/ ToRead(m, k)
    BY <2>1, <2>3
  <2>4. CASE ~ (Waiting(k) \/ ToRead(m, k))
    BY <1>1, <2>1, <2>2, <2>4 DEF IsPast, ReceivedInv, PastAreReceived
  <2> QED
    BY <2>3, <2>4
<1>3. CASE ~ (n <= SentPresses)
  <2> DEFINE j == n - (Len(presses) - Len(collected))
  <2>1. j \in Int /\ j = n - (Len(presses) - Len(collected))
    BY <1>1
  <2> HIDE DEF j
  <2>2. j \in (sending + 1)..Len(collected) /\ j \in 1..Len(collected)
    <3>1. SentPresses = Len(presses) - Len(collected) + sending
      BY <1>1 DEF SentPresses
    <3>2. sending + 1 <= j /\ j <= Len(collected)
      BY <1>1, <1>3, <2>1, <3>1
    <3> QED
      BY <1>1, <2>1, <3>2
  <2>3. Len(presses) - Len(collected) + j = n
    BY <1>1, <2>1
  <2>4. collected[j] = OnPropertyChange(presses[n], n)
    BY <2>2, <2>3 DEF PressInv, CollectedArePresses
  <2>5. collected[j].value = n
    BY <2>4 DEF OnPropertyChange
  <2> QED
    BY <2>2, <2>5
<1> QED
  BY <1>2, <1>3

\* The inductive invariant of the notifications.
NoticeInv == EntityType /\ StartInv /\ PressInv /\ StageInv /\ ReceivedInv

\* It holds, beside that of the bus.
LEMMA NoticesKept == Spec => []NoticeInv
<1>1. Init => NoticeInv
  BY EntityTypeInit, StartInit, PressInit, StageInit, ReceivedInit DEF NoticeInv
<1>2. BusFacts /\ BusFacts' /\ Inv /\ NoticeInv /\ [Next]_vars => NoticeInv'
  <2> SUFFICES ASSUME BusFacts, BusFacts', Inv, NoticeInv, [Next]_vars PROVE NoticeInv'
    OBVIOUS
  <2>1. WaitsForAddressee
    BY DEF NoticeInv, StageInv
  <2> QED
    BY <2>1, EntityTypeStep, StartStep, PressStep, StageStep, ReceivedStep DEF NoticeInv
<1>3. Spec => []Inv
  BY InvInit, InvStep, PTL DEF Spec
<1> QED
  BY <1>1, <1>2, <1>3, BusTypeKept, PTL DEF Spec

\* NotifiedInOrder: for any number of objects, properties and presses, a press is
\* neither repeated nor overtaken between the button and the object.
THEOREM NotifiedCorrect == Spec => []NotifiedInOrder
<1>1. BusFacts /\ NoticeInv => NotifiedInOrder
  BY InOrder DEF NoticeInv
<1> QED
  BY <1>1, NoticesKept, BusTypeKept, PTL

\* Nor is it lost: until the object has received it, some list holds it.
THEOREM NeverLost == Spec => []NothingIsLost
<1>1. BusFacts /\ NoticeInv => NothingIsLost
  BY NoneIsLost DEF NoticeInv
<1> QED
  BY <1>1, NoticesKept, BusTypeKept, PTL

-----------------------------------------------------------------------------
(* What the constructors register, and the tree that comes of it *)

\* Where a registration by m puts its entry.
EntryPath(m, c) == Append(c.path, IF c.type = "entity" THEN NameOf[m] ELSE c.property)
PathOf(k) == EntryPath(heap[k].sender, content[k])
IsEntity(k) == content[k].type = "entity"

IsRegistration(m, c) == \E i \in 1..Len(Script[m]) : c = Script[m][i]

\* An entity is a child of the root, a property is one of its entity.
LEMMA RegistrationPath ==
    ASSUME NEW m \in Messangers, NEW c, IsRegistration(m, c)
    PROVE  /\ EntryPath(m, c) \in Paths /\ EntryPath(m, c)[1] = NameOf[m]
           /\ <<NameOf[m]>> \in Paths /\ c.type # "change"
           /\ c.type = "entity" => /\ c.path = <<>> /\ EntryPath(m, c) = <<NameOf[m]>>
                                   /\ Len(EntryPath(m, c)) = 1
           /\ c.type # "entity" => /\ c.type = "property" /\ c.property \in Properties
                                   /\ c.path = <<NameOf[m]>> /\ Len(EntryPath(m, c)) = 2
                                   /\ EntryPath(m, c)[2] = c.property
                                   /\ Front(EntryPath(m, c)) = <<NameOf[m]>>
<1>1. PICK i \in 1..Len(Script[m]) : c = Script[m][i]
  BY DEF IsRegistration
<1>2. PICK N : N = NameOf[m]
  OBVIOUS
<1>3. N \in Names
  BY <1>2, EntitiesAssumption
<1>4. <<>> \in Paths /\ <<N>> \in Paths /\ Len(<<N>>) = 1 /\ <<N>>[1] = N
  BY <1>3 DEF Paths
<1>5. CASE i = 1
  <2>1. c = RegisterEntity(<<>>)
    BY <1>1, <1>5, ScriptsAssumption
  <2>2. c.type = "entity" /\ c.path = <<>>
    BY <2>1 DEF RegisterEntity
  <2>3. EntryPath(m, c) = Append(<<>>, N)
    BY <1>2, <2>2 DEF EntryPath
  <2>4. Append(<<>>, N) = <<N>>
    OBVIOUS
  <2> QED
    BY <1>2, <1>4, <2>2, <2>3, <2>4
<1>6. CASE i # 1
  <2>1. PICK p \in Properties : c = RegisterProperty(<<N>>, p)
    BY <1>1, <1>2, <1>6, ScriptsAssumption
  <2>2. c.type = "property" /\ c.path = <<N>> /\ c.property = p
    BY <2>1 DEF RegisterProperty
  <2>3. EntryPath(m, c) = Append(<<N>>, p)
    BY <2>2 DEF EntryPath
  <2>4. /\ Append(<<N>>, p) \in Paths /\ Len(Append(<<N>>, p)) = Len(<<N>>) + 1
        /\ Append(<<N>>, p)[Len(<<N>>) + 1] = p /\ Front(Append(<<N>>, p)) = <<N>>
    BY <1>4, PathAppended
  <2>5. Append(<<N>>, p)[1] = N
    BY <1>3
  <2> QED
    BY <1>2, <1>4, <2>2, <2>3, <2>4, <2>5
<1> QED
  BY <1>5, <1>6

\* Two objects that register have two names.
LEMMA OwnNames ==
    ASSUME NEW m \in Messangers, NEW n \in Messangers, NEW c, NEW d,
           IsRegistration(m, c), IsRegistration(n, d), NameOf[m] = NameOf[n]
    PROVE  m = n
<1>1. Len(Script[m]) # 0 /\ Len(Script[n]) # 0
  BY DEF IsRegistration
<1>2. Script[m] # <<>> /\ Script[n] # <<>>
  BY <1>1
<1> QED
  BY <1>2, ScriptsAssumption

\* The messages of the constructors are what they have sent of their scripts,
\* and the first of each is its entity.
SentFromScript ==
    \A k \in 1..Len(content) : ~ IsChange(k) =>
        \E i \in 1..constructed[heap[k].sender] : content[k] = Script[heap[k].sender][i]
ScriptSent ==
    \A m \in Messangers : \A i \in 1..constructed[m] : \E k \in 1..Len(content) :
        heap[k].sender = m /\ content[k] = Script[m][i] /\ ~ IsChange(k)
EntityIsFirst ==
    \A k, l \in 1..Len(content) :
        ~ IsChange(k) /\ ~ IsChange(l) /\ IsEntity(k) /\ heap[k].sender = heap[l].sender => k <= l
ScriptInv == SentFromScript /\ ScriptSent /\ EntityIsFirst

\* A message that is no change is a registration by its sender.
LEMMA Registered ==
    ASSUME BusFacts, EntityType, SentFromScript, NEW k \in 1..Len(content), ~ IsChange(k)
    PROVE  heap[k].sender \in Messangers /\ IsRegistration(heap[k].sender, content[k])
<1>1. heap[k].sender \in Messangers
  BY MessagesSent
<1>2. PICK i \in 1..constructed[heap[k].sender] : content[k] = Script[heap[k].sender][i]
  BY DEF SentFromScript
<1>3. i \in 1..Len(Script[heap[k].sender])
  BY <1>1, <1>2, ScriptTypes DEF EntityType
<1> QED
  BY <1>1, <1>2, <1>3 DEF IsRegistration

\* No constructor has sent anything at the start.
LEMMA ScriptInit == Init => ScriptInv
<1> SUFFICES ASSUME Init PROVE ScriptInv
  OBVIOUS
<1>1. Len(content) = 0 /\ \A m \in Messangers : constructed[m] = 0
  BY DEF Init
<1> QED
  BY <1>1 DEF ScriptInv, SentFromScript, ScriptSent, EntityIsFirst

\* The messages say what they said, and are from whom they were from.
LEMMA ScriptKept ==
    ASSUME ScriptInv, UNCHANGED <<content, constructed>>,
           \A k \in 1..Len(content) : heap'[k].sender = heap[k].sender
    PROVE  ScriptInv'
<1>1. \A k : (IsChange(k)' <=> IsChange(k)) /\ (IsEntity(k)' <=> IsEntity(k))
  BY DEF IsChange, IsEntity
<1>2. SentFromScript'
  <2> SUFFICES ASSUME NEW k \in 1..Len(content), ~ IsChange(k)
               PROVE  \E i \in 1..constructed[heap[k].sender] :
                        content[k] = Script[heap[k].sender][i]
    BY <1>1 DEF SentFromScript
  <2> QED
    BY DEF ScriptInv, SentFromScript
<1>3. ScriptSent'
  <2> SUFFICES ASSUME NEW m \in Messangers, NEW i \in 1..constructed[m]
               PROVE  \E k \in 1..Len(content) :
                        heap'[k].sender = m /\ content[k] = Script[m][i] /\ ~ IsChange(k)
    BY <1>1 DEF ScriptSent
  <2> QED
    BY DEF ScriptInv, ScriptSent
<1>4. EntityIsFirst'
  <2> SUFFICES ASSUME NEW k \in 1..Len(content), NEW l \in 1..Len(content),
                      ~ IsChange(k), ~ IsChange(l), IsEntity(k), heap'[k].sender = heap'[l].sender
               PROVE  k <= l
    BY <1>1 DEF EntityIsFirst
  <2> QED
    BY DEF ScriptInv, EntityIsFirst
<1> QED
  BY <1>2, <1>3, <1>4 DEF ScriptInv

\* The next message of a script is one more message of its constructor.
LEMMA ScriptSentNext ==
    ASSUME BusFacts, EntityType, ScriptInv, NEW m \in Messangers, SendNext(m)
    PROVE  ScriptInv'
<1> DEFINE n == Len(content) + 1
           j == constructed[m] + 1
<1>1. j \in 1..Len(Script[m]) /\ Sending(m, Script[m][j])
  BY Sendings
<1>2. PICK c : c = Script[m][j]
  OBVIOUS
<1>3. /\ c.type # "change" /\ IsRegistration(m, c)
      /\ c.type = "entity" => j = 1
  <2>1. IsRegistration(m, c)
    BY <1>1, <1>2 DEF IsRegistration
  <2>2. j # 1 => c.type = "property"
    <3>1. j # 1 => \E p \in Properties : c = RegisterProperty(<<NameOf[m]>>, p)
      BY <1>1, <1>2, ScriptsAssumption
    <3> QED
      BY <3>1 DEF RegisterProperty
  <2> QED
    BY <2>1, <2>2, RegistrationPath
<1>4. /\ Len(content) \in Nat /\ Len(content') = n /\ n \notin 1..Len(content)
      /\ \A k : k \in 1..Len(content') <=> k \in 1..Len(content) \/ k = n
      /\ content'[n] = c /\ heap'[n].sender = m
      /\ \A k \in 1..Len(content) : content'[k] = content[k] /\ heap'[k].sender = heap[k].sender
      /\ \A k \in 1..Len(content) : IsChange(k)' <=> IsChange(k)
  BY <1>1, <1>2, SendingPlaces DEF Sending
<1>5. /\ constructed[m] \in Nat /\ constructed'[m] = j
      /\ \A x \in Messangers : x # m => constructed'[x] = constructed[x]
      /\ \A x \in Messangers : constructed[x] \in Nat /\ constructed'[x] >= constructed[x]
  BY DEF SendNext, EntityType
<1>6. \A k \in 1..Len(content) : heap[k].sender \in Messangers
  BY MessagesSent
<1>7. SentFromScript'
  <2> SUFFICES ASSUME NEW k \in 1..Len(content'), ~ IsChange(k)'
               PROVE  \E i \in 1..constructed'[heap'[k].sender] :
                        content'[k] = Script[heap'[k].sender][i]
    BY DEF SentFromScript
  <2>1. CASE k = n
    <3>1. j \in 1..constructed'[m]
      BY <1>5
    <3> QED
      BY <1>2, <1>4, <2>1, <3>1
  <2>2. CASE k \in 1..Len(content)
    <3>1. PICK i \in 1..constructed[heap[k].sender] : content[k] = Script[heap[k].sender][i]
      BY <1>4, <2>2 DEF ScriptInv, SentFromScript
    <3>2. i \in 1..constructed'[heap[k].sender]
      BY <1>5, <1>6, <2>2
    <3> QED
      BY <1>4, <2>2, <3>1, <3>2
  <2> QED
    BY <1>4, <2>1, <2>2
<1>8. ScriptSent'
  <2> SUFFICES ASSUME NEW x \in Messangers, NEW i \in 1..constructed'[x]
               PROVE  \E k \in 1..Len(content') :
                        heap'[k].sender = x /\ content'[k] = Script[x][i] /\ ~ IsChange(k)'
    BY DEF ScriptSent
  <2>1. CASE x = m /\ i = j
    <3>1. content'[n].type # "change"
      BY <1>3, <1>4
    <3> QED
      BY <1>2, <1>4, <2>1, <3>1 DEF IsChange
  <2>2. CASE ~ (x = m /\ i = j)
    <3>1. i \in 1..constructed[x]
      BY <1>5, <2>2
    <3>2. PICK k \in 1..Len(content) :
            heap[k].sender = x /\ content[k] = Script[x][i] /\ ~ IsChange(k)
      BY <3>1 DEF ScriptInv, ScriptSent
    <3> QED
      BY <1>4, <3>2
  <2> QED
    BY <2>1, <2>2
<1>9. EntityIsFirst'
  <2> SUFFICES ASSUME NEW k \in 1..Len(content'), NEW l \in 1..Len(content'), ~ IsChange(k)',
                      ~ IsChange(l)', IsEntity(k)', heap'[k].sender = heap'[l].sender
               PROVE  k <= l
    BY DEF EntityIsFirst
  <2>1. CASE l = n
    BY <1>4, <2>1
  <2>2. CASE l \in 1..Len(content) /\ k = n
    <3>1. j = 1 /\ heap[l].sender = m /\ ~ IsChange(l)
      BY <1>3, <1>4, <2>2 DEF IsEntity
    <3>2. \E i \in 1..constructed[m] : content[l] = Script[m][i]
      BY <2>2, <3>1 DEF ScriptInv, SentFromScript
    <3> QED
      BY <1>5, <3>1, <3>2
  <2>3. CASE l \in 1..Len(content) /\ k \in 1..Len(content)
    <3>1. IsEntity(k) /\ ~ IsChange(k) /\ ~ IsChange(l) /\ heap[k].sender = heap[l].sender
      BY <1>4, <2>3 DEF IsEntity
    <3> QED
      BY <2>3, <3>1 DEF ScriptInv, EntityIsFirst
  <2> QED
    BY <1>4, <2>1, <2>2, <2>3
<1> QED
  BY <1>7, <1>8, <1>9 DEF ScriptInv

\* A notification is none of the scripts.
LEMMA ScriptSentPending ==
    ASSUME BusFacts, EntityType, ScriptInv, SendPending PROVE ScriptInv'
<1> DEFINE n == Len(content) + 1
<1>1. /\ UNCHANGED constructed /\ \E c \in Changes : Sending(Manager, c)
  BY Sendings, EntitiesAssumption DEF SendPending
<1>2. PICK c \in Changes : Sending(Manager, c)
  BY <1>1
<1>3. /\ Len(content) \in Nat /\ Len(content') = n /\ n \notin 1..Len(content)
      /\ \A k : k \in 1..Len(content') <=> k \in 1..Len(content) \/ k = n
      /\ content'[n] = c
      /\ \A k \in 1..Len(content) : content'[k] = content[k] /\ heap'[k].sender = heap[k].sender
      /\ \A k \in 1..Len(content) : IsChange(k)' <=> IsChange(k)
  BY <1>2, SendingPlaces DEF Sending
<1>4. \A k \in 1..Len(content') : ~ IsChange(k)' => k \in 1..Len(content) /\ ~ IsChange(k)
  <2>1. content'[n].type = "change"
    BY <1>2, <1>3 DEF Changes
  <2> QED
    BY <1>3, <2>1 DEF IsChange
<1>5. SentFromScript'
  <2> SUFFICES ASSUME NEW k \in 1..Len(content'), ~ IsChange(k)'
               PROVE  \E i \in 1..constructed[heap'[k].sender] :
                        content'[k] = Script[heap'[k].sender][i]
    BY <1>1 DEF SentFromScript
  <2>1. k \in 1..Len(content) /\ ~ IsChange(k)
    BY <1>4
  <2>2. content'[k] = content[k] /\ heap'[k].sender = heap[k].sender
    BY <1>3, <2>1
  <2> QED
    BY <2>1, <2>2 DEF ScriptInv, SentFromScript
<1>6. ScriptSent'
  <2> SUFFICES ASSUME NEW x \in Messangers, NEW i \in 1..constructed[x]
               PROVE  \E k \in 1..Len(content') :
                        heap'[k].sender = x /\ content'[k] = Script[x][i] /\ ~ IsChange(k)'
    BY <1>1 DEF ScriptSent
  <2>1. PICK k \in 1..Len(content) :
            heap[k].sender = x /\ content[k] = Script[x][i] /\ ~ IsChange(k)
    BY DEF ScriptInv, ScriptSent
  <2> QED
    BY <1>3, <2>1
<1>7. EntityIsFirst'
  <2> SUFFICES ASSUME NEW k \in 1..Len(content'), NEW l \in 1..Len(content'), ~ IsChange(k)',
                      ~ IsChange(l)', IsEntity(k)', heap'[k].sender = heap'[l].sender
               PROVE  k <= l
    BY DEF EntityIsFirst
  <2>1. k \in 1..Len(content) /\ ~ IsChange(k) /\ l \in 1..Len(content) /\ ~ IsChange(l)
    BY <1>4
  <2>2. IsEntity(k) /\ heap[k].sender = heap[l].sender
    BY <1>3, <2>1 DEF IsEntity
  <2> QED
    BY <2>1, <2>2 DEF ScriptInv, EntityIsFirst
<1> QED
  BY <1>5, <1>6, <1>7 DEF ScriptInv

\* Every step keeps ScriptInv.
LEMMA ScriptStep ==
    ASSUME BusFacts, EntityType, StartInv, WaitsForAddressee, ScriptInv, [Next]_vars
    PROVE  ScriptInv'
<1>1. CASE Still
  BY <1>1, ScriptKept DEF Still
<1>2. CASE Published
  BY <1>2, ScriptKept DEF Published
<1>3. ASSUME NEW m \in Messangers, Construct(m) PROVE ScriptInv'
  <2>1. ~ Started
    BY <1>3, Registers DEF StartInv, Complete, Construct
  <2> QED
    BY <1>3, <2>1, ConstructStep, ScriptKept
<1>4. ASSUME NEW m \in Messangers, SendNext(m) \/ SendPending PROVE ScriptInv'
  BY <1>4, ScriptSentNext, ScriptSentPending
<1>5. ASSUME NEW m \in Messangers, NEW k \in 1..Len(content), Reading(m, k) PROVE ScriptInv'
  BY <1>5, ScriptKept DEF Reading
<1> QED
  BY <1>1, <1>2, <1>3, <1>4, <1>5, Effects

-----------------------------------------------------------------------------
(* The tree is what the handled registrations say *)

Handled(k) == ~ IsChange(k) /\ ~ Waiting(k) /\ ~ ToRead(Manager, k)

TreeHolds ==
    \A q : q \in DOMAIN rootEntry <=> \E k \in 1..Len(content) : Handled(k) /\ q = PathOf(k)
TreeShows ==
    \A k \in 1..Len(content) : Handled(k) =>
        rootEntry[PathOf(k)] = IF IsEntity(k) THEN None ELSE content[k].property
ShownInv == TreeHolds /\ TreeShows

\* A path begins with its prefixes.
LEMMA PrefixElements ==
    ASSUME NEW p \in Paths, NEW q \in Paths, IsPrefix(p, q)
    PROVE  Len(p) <= Len(q) /\ \A i \in 1..Len(p) : p[i] = q[i]
<1>1. Len(p) <= Len(q) /\ Upto(p, Len(p)) = Upto(q, Len(p))
  BY DEF IsPrefix, Upto
<1>2. Len(p) \in Nat /\ Len(q) \in Nat
  BY LenProperties DEF Paths
<1>3. Len(p) \in 0..Len(p) /\ Len(p) \in 0..Len(q)
  BY <1>1, <1>2
<1>4. /\ \A i \in 1..Len(p) : Upto(p, Len(p))[i] = p[i]
      /\ \A i \in 1..Len(p) : Upto(q, Len(p))[i] = q[i]
  BY <1>3, PathUpto
<1> QED
  BY <1>1, <1>4

\* An entry that has none below it is added, or replaced, alone.
LEMMA AddedAlone ==
    ASSUME NEW tree, NEW at, NEW child, \A q \in DOMAIN tree : IsPrefix(at, q) => q = at
    PROVE  /\ \A q : q \in DOMAIN AddChild(tree, at, child) <=> q \in DOMAIN tree \/ q = at
           /\ AddChild(tree, at, child)[at] = child
           /\ \A q \in DOMAIN tree : q # at => AddChild(tree, at, child)[q] = tree[q]
BY DEF AddChild

\* The branch of the root is there.
LEMMA NoBranch ==
    ASSUME NEW tree
    PROVE  /\ DOMAIN CreateBranch(tree, <<>>) = DOMAIN tree
           /\ \A q \in DOMAIN tree : CreateBranch(tree, <<>>)[q] = tree[q]
BY DEF CreateBranch

\* There is no tree at the start.
LEMMA ShownInit == Init => ShownInv
<1> SUFFICES ASSUME Init PROVE ShownInv
  OBVIOUS
<1>1. Len(content) = 0 /\ DOMAIN rootEntry = {}
  BY DEF Init
<1> QED
  BY <1>1 DEF ShownInv, TreeHolds, TreeShows

\* The tree stays when no registration is handled.
LEMMA ShownKept ==
    ASSUME ShownInv, rootEntry' = rootEntry,
           \A k \in 1..Len(content) :
                /\ k \in 1..Len(content') /\ content'[k] = content[k]
                /\ heap'[k].sender = heap[k].sender,
           \A k \in 1..Len(content') : Handled(k)' => k \in 1..Len(content) /\ Handled(k),
           \A k \in 1..Len(content) : Handled(k) => Handled(k)'
    PROVE  ShownInv'
<1>1. \A k \in 1..Len(content) : PathOf(k)' = PathOf(k) /\ (IsEntity(k)' <=> IsEntity(k))
  BY DEF PathOf, EntryPath, IsEntity
<1>2. TreeHolds'
  <2> SUFFICES ASSUME NEW q
               PROVE  q \in DOMAIN rootEntry <=>
                        \E k \in 1..Len(content') : Handled(k)' /\ q = PathOf(k)'
    BY DEF TreeHolds
  <2>1. ASSUME NEW k \in 1..Len(content), Handled(k), q = PathOf(k)
        PROVE  k \in 1..Len(content') /\ Handled(k)' /\ q = PathOf(k)'
    BY <1>1, <2>1
  <2>2. ASSUME NEW k \in 1..Len(content'), Handled(k)', q = PathOf(k)'
        PROVE  k \in 1..Len(content) /\ Handled(k) /\ q = PathOf(k)
    BY <1>1, <2>2
  <2> QED
    BY <2>1, <2>2 DEF ShownInv, TreeHolds
<1>3. TreeShows'
  <2> SUFFICES ASSUME NEW k \in 1..Len(content'), Handled(k)'
               PROVE  rootEntry[PathOf(k)'] = IF IsEntity(k)' THEN None ELSE content'[k].property
    BY DEF TreeShows
  <2>1. k \in 1..Len(content) /\ Handled(k) /\ content'[k] = content[k]
    OBVIOUS
  <2>2. rootEntry[PathOf(k)] = IF IsEntity(k) THEN None ELSE content[k].property
    BY <2>1 DEF ShownInv, TreeShows
  <2> QED
    BY <1>1, <2>1, <2>2
<1> QED
  BY <1>2, <1>3 DEF ShownInv

\* Registrations go to the manager.
LEMMA ToManager ==
    ASSUME BusFacts, EntityType, SentFromScript, NEW k \in 1..Len(content), ~ IsChange(k)
    PROVE  Addressee(k) = NameOf[Manager]
BY DEF IsChange, Addressee, SentTo

\* The path of a message's entry.
LEMMA PathOfMessage ==
    ASSUME BusFacts, EntityType, SentFromScript, NEW k \in 1..Len(content), ~ IsChange(k)
    PROVE  /\ heap[k].sender \in Messangers /\ IsRegistration(heap[k].sender, content[k])
           /\ PathOf(k) \in Paths /\ PathOf(k)[1] = NameOf[heap[k].sender]
           /\ IsEntity(k) => /\ content[k].type = "entity" /\ content[k].path = <<>>
                             /\ PathOf(k) = <<NameOf[heap[k].sender]>> /\ Len(PathOf(k)) = 1
           /\ ~ IsEntity(k) => /\ content[k].type = "property"
                               /\ content[k].path = <<NameOf[heap[k].sender]>>
                               /\ Len(PathOf(k)) = 2 /\ PathOf(k)[2] = content[k].property
<1>1. PICK s : s = heap[k].sender
  OBVIOUS
<1>2. PICK c : c = content[k]
  OBVIOUS
<1>3. s \in Messangers /\ IsRegistration(s, c)
  BY <1>1, <1>2, Registered
<1>4. PathOf(k) = EntryPath(s, c) /\ (IsEntity(k) <=> c.type = "entity")
  BY <1>1, <1>2 DEF PathOf, IsEntity
<1>5. /\ EntryPath(s, c) \in Paths /\ EntryPath(s, c)[1] = NameOf[s]
      /\ <<NameOf[s]>> \in Paths /\ c.type # "change"
      /\ c.type = "entity" => /\ c.path = <<>> /\ EntryPath(s, c) = <<NameOf[s]>>
                              /\ Len(EntryPath(s, c)) = 1
      /\ c.type # "entity" => /\ c.type = "property" /\ c.property \in Properties
                              /\ c.path = <<NameOf[s]>> /\ Len(EntryPath(s, c)) = 2
                              /\ EntryPath(s, c)[2] = c.property
                              /\ Front(EntryPath(s, c)) = <<NameOf[s]>>
  BY <1>3, RegistrationPath, Zenon
<1>6. /\ heap[k].sender \in Messangers /\ IsRegistration(heap[k].sender, content[k])
      /\ PathOf(k) \in Paths /\ PathOf(k)[1] = NameOf[heap[k].sender]
  BY <1>1, <1>2, <1>3, <1>4, <1>5
<1>7. IsEntity(k) => /\ content[k].type = "entity" /\ content[k].path = <<>>
                     /\ PathOf(k) = <<NameOf[heap[k].sender]>> /\ Len(PathOf(k)) = 1
  BY <1>1, <1>2, <1>4, <1>5
<1>8. ~ IsEntity(k) => /\ content[k].type = "property"
                       /\ content[k].path = <<NameOf[heap[k].sender]>>
                       /\ Len(PathOf(k)) = 2 /\ PathOf(k)[2] = content[k].property
  BY <1>1, <1>2, <1>4, <1>5
<1> QED
  BY <1>6, <1>7, <1>8

\* The manager handles a registration after all that were sent before it: an
\* entity finds nothing of its name, a property finds its entity.
LEMMA HandledInOrder ==
    ASSUME BusFacts, EntityType, StageInv, ScriptInv,
           NEW k \in 1..Len(content), Reading(Manager, k), ~ IsChange(k)
    PROVE  \A l \in 1..Len(content) : ~ IsChange(l) => (Handled(l) <=> l < k)
<1> SUFFICES ASSUME NEW l \in 1..Len(content), ~ IsChange(l) PROVE Handled(l) <=> l < k
  OBVIOUS
<1>0. k \in Int /\ l \in Int /\ Manager \in Messangers
  BY MessagesSent, EntitiesAssumption
<1>1. ASSUME Handled(l) PROVE l < k
  <2>1. IsPast(Manager, l)
    BY <1>1, ToManager DEF ScriptInv, Handled, IsPast
  <2> QED
    BY <1>0, <2>1 DEF StageInv, ToReadIsNewer, Reading
<1>2. ASSUME l < k PROVE Handled(l)
  <2>1. ~ Waiting(l)
    <3>1. ~ Waiting(k)
      BY <1>0 DEF StageInv, ToReadIsPublished, Reading
    <3>2. Waiting(l) => k < l
      BY <3>1 DEF StageInv, WaitingIsNewest
    <3> QED
      BY <1>0, <1>2, <3>2
  <2>2. ~ ToRead(Manager, l)
    <3>1. ToRead(Manager, l) => k <= l
      BY DEF Reading
    <3> QED
      BY <1>0, <1>2, <3>1
  <2> QED
    BY <2>1, <2>2 DEF Handled
<1> QED
  BY <1>1, <1>2

\* A registration is put where nothing is below it, and where it has a parent.
LEMMA ShownAdded ==
    ASSUME BusFacts, EntityType, StageInv, ScriptInv, ShownInv,
           NEW k \in 1..Len(content), Reading(Manager, k), ~ IsChange(k)
    PROVE  /\ \A q \in DOMAIN rootEntry : IsPrefix(PathOf(k), q) => q = PathOf(k)
           /\ ~ IsEntity(k) => FindEntry(rootEntry, content[k].path)
<1>1. PICK s : s = heap[k].sender
  OBVIOUS
<1>2. PICK c : c = content[k]
  OBVIOUS
<1>3. /\ s \in Messangers /\ IsRegistration(s, c)
      /\ PathOf(k) \in Paths /\ PathOf(k)[1] = NameOf[s]
      /\ IsEntity(k) => Len(PathOf(k)) = 1
      /\ ~ IsEntity(k) => /\ c.path = <<NameOf[s]>> /\ Len(PathOf(k)) = 2
                          /\ PathOf(k)[2] = c.property
  BY <1>1, <1>2, PathOfMessage DEF ScriptInv
<1>4. ASSUME NEW q \in DOMAIN rootEntry, IsPrefix(PathOf(k), q) PROVE q = PathOf(k)
  <2>1. PICK l \in 1..Len(content) : Handled(l) /\ q = PathOf(l)
    BY DEF ShownInv, TreeHolds
  <2>2. ~ IsChange(l)
    BY <2>1 DEF Handled
  <2>3. PICK t : t = heap[l].sender
    OBVIOUS
  <2>4. PICK d : d = content[l]
    OBVIOUS
  <2>5. t \in Messangers /\ IsRegistration(t, d) /\ q \in Paths /\ q[1] = NameOf[t]
    BY <2>1, <2>2, <2>3, <2>4, PathOfMessage DEF ScriptInv
  <2>6. Len(q) = 1 \/ Len(q) = 2
    BY <2>1, <2>2, PathOfMessage DEF ScriptInv
  <2>7. Len(PathOf(k)) <= Len(q) /\ \A i \in 1..Len(PathOf(k)) : PathOf(k)[i] = q[i]
    BY <1>3, <1>4, <2>5, PrefixElements
  <2>8. NameOf[s] = NameOf[t]
    <3>1. 1 \in 1..Len(PathOf(k))
      BY <1>3
    <3> QED
      BY <1>3, <2>5, <2>7, <3>1
  <2>9. s = t
    BY <1>3, <2>5, <2>8, OwnNames
  <2>10. CASE IsEntity(k)
    <3>1. k <= l
      BY <1>1, <2>2, <2>3, <2>9, <2>10 DEF ScriptInv, EntityIsFirst
    <3>2. l < k
      BY <2>1, <2>2, HandledInOrder
    <3> QED
      BY <3>1, <3>2, MessagesSent
  <2>11. CASE ~ IsEntity(k)
    <3>1. Len(PathOf(k)) = 2
      BY <1>3, <2>11
    <3>2. Len(q) = 2
      BY <2>6, <2>7, <3>1
    <3> QED
      BY <1>3, <2>5, <2>7, <3>1, <3>2, SamePath
  <2> QED
    BY <2>10, <2>11
<1>5. ASSUME ~ IsEntity(k) PROVE FindEntry(rootEntry, content[k].path)
  <2>1. PICK j \in 1..constructed[s] : c = Script[s][j]
    BY <1>1, <1>2 DEF ScriptInv, SentFromScript
  <2>2. 1 \in 1..constructed[s] /\ 1 \in 1..Len(Script[s])
    BY <1>3, <2>1, ScriptTypes DEF EntityType
  <2>3. PICK e \in 1..Len(content) :
            heap[e].sender = s /\ content[e] = Script[s][1] /\ ~ IsChange(e)
    BY <1>3, <2>2 DEF ScriptInv, ScriptSent
  <2>4. content[e] = RegisterEntity(<<>>)
    BY <1>3, <2>2, <2>3, ScriptsAssumption
  <2>5. content[e].type = "entity"
    BY <2>4 DEF RegisterEntity
  <2>6. e <= k /\ e # k
    <3>1. e <= k
      BY <1>1, <2>3, <2>5 DEF ScriptInv, EntityIsFirst, IsEntity
    <3>2. e # k
      BY <1>5, <2>5 DEF IsEntity
    <3> QED
      BY <3>1, <3>2
  <2>7. Handled(e)
    BY <2>3, <2>6, HandledInOrder, MessagesSent
  <2>8. PathOf(e) = <<NameOf[s]>>
    BY <2>3, <2>5, PathOfMessage DEF ScriptInv, IsEntity
  <2>9. <<NameOf[s]>> \in DOMAIN rootEntry
    BY <2>7, <2>8 DEF ShownInv, TreeHolds
  <2> QED
    BY <1>2, <1>3, <1>5, <2>9 DEF FindEntry
<1> QED
  BY <1>4, <1>5

\* The manager handles a registration: the tree has its entry, too.
LEMMA ShownRead ==
    ASSUME BusFacts, EntityType, StageInv, ScriptInv, ShownInv,
           NEW k \in 1..Len(content), Reading(Manager, k), ~ IsChange(k)
    PROVE  ShownInv'
<1> DEFINE at == PathOf(k)
           child == IF IsEntity(k) THEN None ELSE content[k].property
<1>1. /\ IsEntity(k) => content[k].type = "entity" /\ content[k].path = <<>> /\ Len(at) = 1
      /\ ~ IsEntity(k) => content[k].type = "property" /\ Len(at) = 2 /\ at[2] = content[k].property
  BY PathOfMessage DEF ScriptInv
<1>2. /\ \A q : q \in DOMAIN rootEntry' <=> q \in DOMAIN rootEntry \/ q = at
      /\ rootEntry'[at] = child
      /\ \A q \in DOMAIN rootEntry : q # at => rootEntry'[q] = rootEntry[q]
  <2>1. CASE IsEntity(k)
    <3>1. content[k].type = "entity" /\ content[k].path = <<>>
      BY <1>1, <2>1
    <3>2. at = Append(content[k].path, NameOf[heap[k].sender])
      BY <3>1 DEF PathOf, EntryPath
    <3>3. rootEntry' = AddChild(CreateBranch(rootEntry, <<>>), at, None)
      BY <3>1, <3>2 DEF Reading
    <3>4. PICK tree : tree = CreateBranch(rootEntry, <<>>)
      OBVIOUS
    <3>5. DOMAIN tree = DOMAIN rootEntry /\ \A q \in DOMAIN rootEntry : tree[q] = rootEntry[q]
      BY <3>4, NoBranch
    <3>6. \A q \in DOMAIN tree : IsPrefix(at, q) => q = at
      BY <3>5, ShownAdded
    <3>7. /\ \A q : q \in DOMAIN rootEntry' <=> q \in DOMAIN tree \/ q = at
          /\ rootEntry'[at] = None
          /\ \A q \in DOMAIN tree : q # at => rootEntry'[q] = tree[q]
      BY <3>3, <3>4, <3>6, AddedAlone
    <3> QED
      BY <2>1, <3>5, <3>7
  <2>2. CASE ~ IsEntity(k)
    <3>1. content[k].type = "property"
      BY <1>1, <2>2
    <3>2. at = Append(content[k].path, content[k].property)
      BY <3>1 DEF PathOf, EntryPath
    <3>3. rootEntry' = AddChild(rootEntry, at, child)
      BY <2>2, <3>1, <3>2, ShownAdded DEF Reading
    <3>4. \A q \in DOMAIN rootEntry : IsPrefix(at, q) => q = at
      BY ShownAdded
    <3> QED
      BY <3>3, <3>4, AddedAlone
  <2> QED
    BY <2>1, <2>2
<1>3. /\ content' = content /\ heap' = heap
      /\ \A l \in 1..Len(content) : Handled(l)' <=> Handled(l) \/ l = k
  <2>1. Manager \in Messangers /\ ToReadIsPublished
    BY EntitiesAssumption DEF StageInv
  <2>2. /\ \A l : (Waiting(l)' <=> Waiting(l)) /\ (IsChange(l)' <=> IsChange(l))
        /\ \A l : ToRead(Manager, l)' <=> ToRead(Manager, l) /\ l # k
        /\ ~ Waiting(k)
    BY <2>1, ReadingPlaces
  <2>3. \A l : Handled(l)' <=> Handled(l) \/ l = k
    BY <2>2 DEF Handled
  <2> QED
    BY <2>3 DEF Reading
<1>4. \A l : PathOf(l)' = PathOf(l) /\ (IsEntity(l)' <=> IsEntity(l))
  BY <1>3 DEF PathOf, EntryPath, IsEntity
<1>5. TreeHolds'
  <2> SUFFICES ASSUME NEW q
               PROVE  q \in DOMAIN rootEntry' <=>
                        \E l \in 1..Len(content) : (Handled(l) \/ l = k) /\ q = PathOf(l)
    BY <1>3, <1>4 DEF TreeHolds
  <2> QED
    BY <1>2 DEF ShownInv, TreeHolds
<1>6. TreeShows'
  <2> SUFFICES ASSUME NEW l \in 1..Len(content), Handled(l) \/ l = k
               PROVE  rootEntry'[PathOf(l)] = IF IsEntity(l) THEN None ELSE content[l].property
    BY <1>3, <1>4 DEF TreeShows
  <2>1. CASE l = k
    BY <1>2, <2>1
  <2>2. CASE Handled(l) /\ PathOf(l) # at
    <3>1. PathOf(l) \in DOMAIN rootEntry
      BY <2>2 DEF ShownInv, TreeHolds
    <3>2. rootEntry[PathOf(l)] = IF IsEntity(l) THEN None ELSE content[l].property
      BY <2>2 DEF ShownInv, TreeShows
    <3> QED
      BY <1>2, <2>2, <3>1, <3>2
  <2>3. CASE Handled(l) /\ PathOf(l) = at
    <3>1. ~ IsChange(l)
      BY <2>3 DEF Handled
    <3>2. /\ IsEntity(l) => Len(at) = 1
          /\ ~ IsEntity(l) => Len(at) = 2 /\ at[2] = content[l].property
      BY <2>3, <3>1, PathOfMessage DEF ScriptInv
    <3>3. child = IF IsEntity(l) THEN None ELSE content[l].property
      BY <1>1, <3>2
    <3> QED
      BY <1>2, <2>3, <3>3
  <2> QED
    BY <2>1, <2>2, <2>3
<1> QED
  BY <1>5, <1>6 DEF ShownInv

\* Every step keeps the tree what the handled registrations say.
LEMMA ShownStep ==
    ASSUME BusFacts, BusFacts', EntityType, StartInv, StageInv, ScriptInv, ShownInv, [Next]_vars
    PROVE  ShownInv'
<1>0. Manager \in Messangers /\ Manager \in Readers
  BY EntitiesAssumption
<1>1. CASE Still
  <2>1. /\ rootEntry' = rootEntry /\ content' = content /\ heap' = heap
        /\ \A k : Handled(k)' <=> Handled(k)
    BY <1>1, StillPlaces DEF Still, Handled
  <2> QED
    BY <2>1, ShownKept
<1>2. CASE Published
  <2>1. /\ rootEntry' = rootEntry /\ content' = content
        /\ \A k \in 1..Len(content) : heap'[k].sender = heap[k].sender
    BY <1>2 DEF Published
  <2>2. Resolved(Manager)
    <3>1. \A x \in Messangers : NameOf[x] = NameOf[Manager] => x = Manager
      BY <1>0, ScriptsAssumption
    <3> QED
      BY <1>0, <1>2, <3>1, OnlyOneResolved DEF Published
  <2>3. \A k \in 1..Len(content) : Handled(k)' <=> Handled(k)
    <3> SUFFICES ASSUME NEW k \in 1..Len(content) PROVE Handled(k)' <=> Handled(k)
      OBVIOUS
    <3>1. (IsChange(k)' <=> IsChange(k)) /\ ~ Waiting(k)' /\ ~ ToRead(Manager, k)
      BY <1>2, PublishedPlaces DEF Published
    <3>2. ToRead(Manager, k)' <=>
            Waiting(k) /\ Bus!GetRecipient(ByName(Addressee(k))) = Manager
      BY <1>0, <1>2 DEF Published
    <3>3. ~ IsChange(k) => (ToRead(Manager, k)' <=> Waiting(k))
      BY <2>2, <3>2, ToManager DEF Resolved, ScriptInv
    <3> QED
      BY <3>1, <3>3 DEF Handled
  <2> QED
    BY <2>1, <2>3, ShownKept
<1>3. ASSUME NEW m \in Messangers, Construct(m) PROVE ShownInv'
  <2>1. ~ Started
    BY <1>3, Registers DEF StartInv, Complete, Construct
  <2>2. /\ UNCHANGED <<content, heap, pendingMessages, rootEntry>>
        /\ \A k : ~ ToRead(Manager, k) /\ ~ ToRead(Manager, k)'
    BY <1>3, <2>1, ConstructStep
  <2>3. \A k : Handled(k)' <=> Handled(k)
    BY <2>2 DEF Handled, IsChange, Waiting
  <2> QED
    BY <2>2, <2>3, ShownKept
<1>4. ASSUME NEW m, NEW c, Sending(m, c) PROVE ShownInv'
  <2> DEFINE n == Len(content) + 1
  <2>1. /\ \A k : k \in 1..Len(content') <=> k \in 1..Len(content) \/ k = n
        /\ n \notin 1..Len(content)
        /\ \A k \in 1..Len(content) : content'[k] = content[k] /\ (IsChange(k)' <=> IsChange(k))
        /\ \A k : Waiting(k)' <=> Waiting(k) \/ k = n
        /\ \A k : ToRead(Manager, k)' <=> ToRead(Manager, k)
    BY <1>4, SendingPlaces
  <2>2. /\ rootEntry' = rootEntry
        /\ \A k \in 1..Len(content) : heap'[k].sender = heap[k].sender
    BY <1>4 DEF Sending
  <2>3. \A k \in 1..Len(content) : Handled(k)' <=> Handled(k)
    BY <2>1 DEF Handled
  <2>4. \A k \in 1..Len(content') : Handled(k)' => k \in 1..Len(content)
    BY <2>1 DEF Handled
  <2> QED
    BY <2>1, <2>2, <2>3, <2>4, ShownKept
<1>5. ASSUME NEW m \in Messangers, NEW k \in 1..Len(content), Reading(m, k) PROVE ShownInv'
  <2>1. CASE m = Manager /\ ~ IsChange(k)
    BY <1>5, <2>1, ShownRead
  <2>2. CASE m # Manager /\ rootEntry' = rootEntry
    <3>1. /\ content' = content /\ heap' = heap
          /\ \A l : (Waiting(l)' <=> Waiting(l)) /\ (IsChange(l)' <=> IsChange(l))
          /\ \A l : ToRead(Manager, l)' <=> ToRead(Manager, l)
      BY <1>5, <2>2, ReadingPlaces DEF StageInv, Reading
    <3>2. \A l : Handled(l)' <=> Handled(l)
      BY <3>1 DEF Handled
    <3> QED
      BY <2>2, <3>1, <3>2, ShownKept
  <2> QED
    BY <1>5, <2>1, <2>2 DEF Reading
<1> QED
  BY <1>1, <1>2, <1>3, <1>4, <1>5, Effects DEF StageInv

\* When the tree is displayed every registration is handled.
LEMMA AllShown ==
    ASSUME BusFacts, EntityType, StartInv, ScriptInv, ShownInv PROVE RegisteredIsShown
<1> SUFFICES ASSUME render = "running"
             PROVE  /\ DOMAIN rootEntry =
                            UNION {{EntryPath(m, Script[m][i]) : i \in 1..Len(Script[m])}
                                        : m \in Messangers}
                    /\ \A m \in Messangers : \A i \in 1..Len(Script[m]) :
                        Script[m][i].type = "property" =>
                            /\ rootEntry[EntryPath(m, Script[m][i])] = Script[m][i].property
                            /\ Displayed(rootEntry, EntryPath(m, Script[m][i]))
  BY DEF RegisteredIsShown, EntryPath
<1>1. /\ \A m \in Messangers : constructed[m] = Len(Script[m])
      /\ \A k \in 1..Len(content) : ~ IsChange(k) => Handled(k)
  BY DEF StartInv, Complete, Handled
<1>2. ASSUME NEW m \in Messangers, NEW i \in 1..Len(Script[m])
      PROVE  \E k \in 1..Len(content) :
                Handled(k) /\ content[k] = Script[m][i] /\ PathOf(k) = EntryPath(m, Script[m][i])
  <2>1. PICK k \in 1..Len(content) :
            heap[k].sender = m /\ content[k] = Script[m][i] /\ ~ IsChange(k)
    BY <1>1 DEF ScriptInv, ScriptSent
  <2> QED
    BY <1>1, <2>1 DEF PathOf
<1>3. \A q : q \in DOMAIN rootEntry <=>
        \E m \in Messangers : \E i \in 1..Len(Script[m]) : q = EntryPath(m, Script[m][i])
  <2> SUFFICES ASSUME NEW q
               PROVE  q \in DOMAIN rootEntry <=>
                        \E m \in Messangers : \E i \in 1..Len(Script[m]) :
                            q = EntryPath(m, Script[m][i])
    OBVIOUS
  <2>1. ASSUME q \in DOMAIN rootEntry
        PROVE  \E m \in Messangers : \E i \in 1..Len(Script[m]) : q = EntryPath(m, Script[m][i])
    <3>1. PICK k \in 1..Len(content) : Handled(k) /\ q = PathOf(k)
      BY <2>1 DEF ShownInv, TreeHolds
    <3>2. heap[k].sender \in Messangers /\ IsRegistration(heap[k].sender, content[k])
      BY <3>1, Registered DEF ScriptInv, Handled
    <3> QED
      BY <3>1, <3>2 DEF IsRegistration, PathOf
  <2>2. ASSUME NEW m \in Messangers, NEW i \in 1..Len(Script[m]), q = EntryPath(m, Script[m][i])
        PROVE  q \in DOMAIN rootEntry
    BY <1>2, <2>2 DEF ShownInv, TreeHolds
  <2> QED
    BY <2>1, <2>2
<1>4. ASSUME NEW m \in Messangers, NEW i \in 1..Len(Script[m]), Script[m][i].type = "property"
      PROVE  /\ rootEntry[EntryPath(m, Script[m][i])] = Script[m][i].property
             /\ Displayed(rootEntry, EntryPath(m, Script[m][i]))
  <2>1. PICK c : c = Script[m][i]
    OBVIOUS
  <2>2. PICK k \in 1..Len(content) : Handled(k) /\ content[k] = c /\ PathOf(k) = EntryPath(m, c)
    BY <1>2, <2>1
  <2>3. rootEntry[EntryPath(m, c)] = c.property
    <3>1. c.type # "entity"
      BY <1>4, <2>1
    <3> QED
      BY <2>2, <3>1 DEF ShownInv, TreeShows, IsEntity
  <2>4. Len(EntryPath(m, c)) = 2 /\ SubSeq(EntryPath(m, c), 1, 1) = <<NameOf[m]>>
    <3>1. IsRegistration(m, c) /\ c.type # "entity"
      BY <1>4, <2>1 DEF IsRegistration
    <3>2. Len(EntryPath(m, c)) = 2 /\ Front(EntryPath(m, c)) = <<NameOf[m]>>
      BY <3>1, RegistrationPath
    <3> QED
      BY <3>2 DEF Front
  <2>5. rootEntry[<<NameOf[m]>>] = None
    <3>1. 1 \in 1..Len(Script[m])
      BY ScriptTypes
    <3>2. PICK d : d = Script[m][1]
      OBVIOUS
    <3>3. PICK e \in 1..Len(content) : Handled(e) /\ content[e] = d /\ PathOf(e) = EntryPath(m, d)
      BY <1>2, <3>1, <3>2
    <3>4. d = RegisterEntity(<<>>) /\ IsRegistration(m, d)
      BY <3>1, <3>2, ScriptsAssumption DEF IsRegistration
    <3>5. d.type = "entity"
      BY <3>4 DEF RegisterEntity
    <3>6. PathOf(e) = <<NameOf[m]>>
      BY <3>3, <3>4, <3>5, RegistrationPath
    <3> QED
      BY <3>3, <3>5, <3>6 DEF ShownInv, TreeShows, IsEntity
  <2>6. Displayed(rootEntry, EntryPath(m, c))
    <3> SUFFICES ASSUME NEW j \in 1..(Len(EntryPath(m, c)) - 1)
                 PROVE  rootEntry[SubSeq(EntryPath(m, c), 1, j)] = None
      BY DEF Displayed
    <3>1. j = 1
      BY <2>4
    <3> QED
      BY <2>4, <2>5, <3>1
  <2> QED
    BY <2>1, <2>3, <2>6
<1> QED
  <2>1. DOMAIN rootEntry =
            UNION {{EntryPath(m, Script[m][i]) : i \in 1..Len(Script[m])} : m \in Messangers}
    <3>1. \A q : q \in UNION {{EntryPath(m, Script[m][i]) : i \in 1..Len(Script[m])} : m \in Messangers}
            <=> \E m \in Messangers : \E i \in 1..Len(Script[m]) : q = EntryPath(m, Script[m][i])
      OBVIOUS
    <3> QED
      BY <1>3, <3>1
  <2> QED
    BY <1>4, <2>1

\* RegisteredIsShown: whatever objects register what, and in whatever order they
\* are made, the displayed tree is what they registered.
THEOREM RegisteredCorrect == Spec => []RegisteredIsShown
<1>1. Init => ScriptInv /\ ShownInv
  BY ScriptInit, ShownInit
<1>2. BusFacts /\ BusFacts' /\ NoticeInv /\ ScriptInv /\ ShownInv /\ [Next]_vars
            => ScriptInv' /\ ShownInv'
  <2> SUFFICES ASSUME BusFacts, BusFacts', NoticeInv, ScriptInv, ShownInv, [Next]_vars
               PROVE  ScriptInv' /\ ShownInv'
    OBVIOUS
  <2>1. EntityType /\ StartInv /\ StageInv /\ WaitsForAddressee
    BY DEF NoticeInv, StageInv
  <2> QED
    BY <2>1, ScriptStep, ShownStep
<1>3. BusFacts /\ NoticeInv /\ ScriptInv /\ ShownInv => RegisteredIsShown
  BY AllShown DEF NoticeInv
<1> QED
  BY <1>1, <1>2, <1>3, NoticesKept, BusTypeKept, PTL DEF Spec

=============================================================================
