----------------------------- MODULE MessageBus -----------------------------
(***************************************************************************)
(* MessageBus and IMessanger: messages are queued by sendMessage(), moved  *)
(* to the recipients' lists by publish(), read there until the next        *)
(* publish(), and deleted by it.                                           *)
(*                                                                         *)
(* Every operation runs under the bus's mutex and is one step, except      *)
(* emitMessage(), which takes it once per subscriber.  Messangers call the *)
(* bus from their constructors and from process(), which the worker        *)
(* threads run concurrently; publish() is called by the main thread        *)
(* between PROCESS phases, when every process() has run once              *)
(* (ProcessableQueue: PhasesSeparated and ImplementsBarrier).              *)
(***************************************************************************)
EXTENDS Naturals, Sequences, FiniteSets

CONSTANTS
    Messangers,     \* objects derived from IMessanger
    Readers,        \* those whose process() calls getMessages()
    Names, NameOf,  \* NameOf[m]: what getName() returns; several may share it
    None,           \* nullptr
    MaxMessages     \* bound: messages allocated in a behaviour

ASSUME MessangersAssumption ==
    /\ IsFiniteSet(Messangers)
    /\ Readers \subseteq Messangers
    /\ NameOf \in [Messangers -> Names]
    /\ None \notin Messangers
    /\ MaxMessages \in Nat

VARIABLES
    messangersList,             \* registered messangers; the id is the index
    nameToIndexDict,
    messangerToMessagesDict,    \* published messages of each messanger
    messangerToSubscribersDict,
    pendingMessages,            \* sent since the last publish()
    heap,                       \* heap[k]: the k-th message allocated
    processing,                 \* where each messanger's process() is
    held,                       \* what its getMessages() returned
    emitting                    \* sends its emitMessage() still has to make

tables == <<messangersList, nameToIndexDict>>
boxes  == <<messangerToMessagesDict, pendingMessages, heap>>
calls  == <<processing, held, emitting>>
vars   == <<tables, boxes, messangerToSubscribersDict, calls>>

Registered == {messangersList[i] : i \in 1..Len(messangersList)}
InList(s) == {s[i] : i \in DOMAIN s}

\* A MessageRecipient: a name, an id or an IMessanger*.
Recipients ==
    [type : {"NAME"}, key : Names]
        \cup [type : {"ID"}, key : 1..Cardinality(Messangers)]
        \cup [type : {"MESSANGER"}, key : Messangers]

\* A vector of messages: a function from positions, in order, to messages.
NoMessages == [i \in {} |-> 0]

\* registerMessanger() writes the other two maps; nothing writes this one.
messangerToIndexDict == [m \in {} |-> 0]
idToIndexDict == [i \in 1..Len(messangersList) |-> i]

\* Index 0 stands for the code's -1.
Find(dict, key) == IF key \in DOMAIN dict THEN dict[key] ELSE 0

\* Mutant: an IMessanger* is looked up where registerMessanger() put it.
RecipientIndexByPointer(r) ==
    CASE r.type = "NAME" -> Find(nameToIndexDict, r.key)
      [] r.type = "ID" -> Find(idToIndexDict, r.key)
      [] OTHER -> IF r.key \in Registered
                  THEN CHOOSE i \in 1..Len(messangersList) : messangersList[i] = r.key
                  ELSE 0

\* getRecipient(): the index, and the messanger or nullptr.
RecipientIndex(r) ==
    CASE r.type = "NAME" -> Find(nameToIndexDict, r.key)
      [] r.type = "ID" -> Find(idToIndexDict, r.key)
      [] r.type = "MESSANGER" -> Find(messangerToIndexDict, r.key)

GetRecipient(r) ==
    IF RecipientIndex(r) \in 1..Len(messangersList)
    THEN messangersList[RecipientIndex(r)] ELSE None

-----------------------------------------------------------------------------

Init ==
    /\ messangersList = <<>>
    /\ nameToIndexDict = [n \in {} |-> 0]
    /\ messangerToMessagesDict = [m \in {} |-> NoMessages]
    /\ messangerToSubscribersDict = [m \in {} |-> <<>>]
    /\ pendingMessages = <<>>
    /\ heap = <<>>
    /\ processing = [m \in Messangers |-> "setup"]
    /\ held = [m \in Messangers |-> {}]
    /\ emitting = [m \in Messangers |-> <<>>]

AddMessanger(m) ==
    /\ processing[m] = "setup" /\ m \notin Registered
    /\ messangersList' = Append(messangersList, m)
    /\ messangerToMessagesDict' = [x \in Registered \cup {m} |->
            IF x = m THEN NoMessages ELSE messangerToMessagesDict[x]]
    /\ UNCHANGED <<pendingMessages, heap, calls>>

AddSubscribers(m) ==
    messangerToSubscribersDict' = [x \in Registered \cup {m} |->
        IF x = m THEN <<>> ELSE messangerToSubscribersDict[x]]

AddName(m) ==
    nameToIndexDict' = [n \in DOMAIN nameToIndexDict \cup {NameOf[m]} |->
        IF n = NameOf[m] THEN Len(messangersList) + 1 ELSE nameToIndexDict[n]]

\* Mutants: the first messanger keeps a name; no list of subscribers is made.
RegisterKeepsName(m) ==
    /\ AddMessanger(m) /\ AddSubscribers(m)
    /\ \/ NameOf[m] \in DOMAIN nameToIndexDict /\ UNCHANGED nameToIndexDict
       \/ NameOf[m] \notin DOMAIN nameToIndexDict /\ AddName(m)
RegisterNoSubscribers(m) ==
    AddMessanger(m) /\ AddName(m) /\ UNCHANGED messangerToSubscribersDict

\* IMessanger's constructor -> registerMessanger().  A name registered again
\* leads to the later messanger.
RegisterMessanger(m) == AddMessanger(m) /\ AddSubscribers(m) /\ AddName(m)

\* A messanger calls the bus from its constructor, once it is registered, or
\* from its process(), one call at a time.
MayCall(m) ==
    /\ m \in Registered /\ emitting[m] = <<>>
    /\ processing[m] \in {"setup", "running", "reading"}

NewMessage(m) == [sender |-> m, recipient |-> None, deletes |-> 0]
Pending(r, k) == [recipient |-> r, message |-> k]

\* sendMessage(new ...Message, recipient)
SendMessage(m, r) ==
    /\ MayCall(m) /\ Len(heap) < MaxMessages
    /\ heap' = Append(heap, NewMessage(m))
    /\ pendingMessages' = Append(pendingMessages, Pending(r, Len(heap) + 1))
    /\ UNCHANGED <<tables, messangerToMessagesDict, messangerToSubscribersDict, calls>>

\* emitMessage(new ...Message): copies the list of subscribers without the mutex ...
EmitMessage(m) ==
    /\ MayCall(m) /\ Len(heap) < MaxMessages
    /\ heap' = Append(heap, NewMessage(m))
    /\ emitting' = [emitting EXCEPT ![m] =
            [i \in 1..Len(messangerToSubscribersDict[m]) |->
                Pending([type |-> "MESSANGER", key |-> messangerToSubscribersDict[m][i]],
                        Len(heap) + 1)]]
    /\ UNCHANGED <<tables, messangerToMessagesDict, pendingMessages,
                   messangerToSubscribersDict, processing, held>>

\* ... and sends the one message to each of them.
EmitNext(m) ==
    /\ emitting[m] # <<>>
    /\ pendingMessages' = Append(pendingMessages, Head(emitting[m]))
    /\ emitting' = [emitting EXCEPT ![m] = Tail(@)]
    /\ UNCHANGED <<tables, messangerToMessagesDict, heap, messangerToSubscribersDict,
                   processing, held>>

\* The target of subscribe() and unsubscribe(), by name, by id or as a pointer: a
\* messanger registers in its constructor, and no caller passes nullptr.
Target(r) == IF r.type = "MESSANGER" THEN r.key ELSE GetRecipient(r)

\* subscribe(): true, and the list of m grows, unless the target is unknown or
\* already listed.
Subscribe(m, r) ==
    /\ MayCall(m)
    /\ Target(r) \in Registered \ InList(messangerToSubscribersDict[m])
    /\ messangerToSubscribersDict' =
            [messangerToSubscribersDict EXCEPT ![m] = Append(@, Target(r))]
    /\ UNCHANGED <<tables, boxes, calls>>

\* unsubscribe(): true, and the target leaves the list, if it was in it.
Unsubscribe(m, r) ==
    /\ MayCall(m)
    /\ \E i \in 1..Len(messangerToSubscribersDict[m]) :
            /\ messangerToSubscribersDict[m][i] = Target(r)
            /\ messangerToSubscribersDict' = [messangerToSubscribersDict EXCEPT ![m] =
                    SubSeq(@, 1, i - 1) \o SubSeq(@, i + 1, Len(@))]
    /\ UNCHANGED <<tables, boxes, calls>>

\* A thread performs the process() of m, which is due once per publish().
StartProcess(m) ==
    /\ processing' = [processing EXCEPT ![m] = "running"]
    /\ UNCHANGED <<tables, boxes, messangerToSubscribersDict, held, emitting>>

BeginProcess(m) == processing[m] = "due" /\ StartProcess(m)

\* The process() of a reader calls getMessages() once, which copies the pointers
\* under the mutex, and uses them until it ends.
GetMessages(m) ==
    /\ m \in Readers /\ processing[m] = "running" /\ emitting[m] = <<>>
    /\ processing' = [processing EXCEPT ![m] = "reading"]
    /\ held' = [held EXCEPT ![m] = InList(messangerToMessagesDict[m])]
    /\ UNCHANGED <<tables, boxes, messangerToSubscribersDict, emitting>>

EndProcess(m) ==
    /\ processing[m] = IF m \in Readers THEN "reading" ELSE "running"
    /\ emitting[m] = <<>>
    /\ processing' = [processing EXCEPT ![m] = "done"]
    /\ held' = [held EXCEPT ![m] = {}]
    /\ UNCHANGED <<tables, boxes, messangerToSubscribersDict, emitting>>

\* Mutant: the pending list is walked from its end.
DeliveredBackwards(m) ==
    LET n == Len(pendingMessages)
    IN  [i \in {i \in 1..n : GetRecipient(pendingMessages[n + 1 - i].recipient) = m} |->
            pendingMessages[n + 1 - i].message]

\* The messages publish() gives m: those whose recipient it resolves to m now.
Delivered(m) ==
    [i \in {i \in 1..Len(pendingMessages) : GetRecipient(pendingMessages[i].recipient) = m} |->
        pendingMessages[i].message]

\* The deletes of publish(): one per list and position that holds message k.
Listed == UNION {{<<m, i>> : i \in DOMAIN messangerToMessagesDict[m]} : m \in Registered}
Deletes(k) == Cardinality({s \in Listed : messangerToMessagesDict[s[1]][s[2]] = k})

\* message->recipient after the loop: its last resolved recipient, if any.
RecipientAfter(k) ==
    LET sent == {i \in 1..Len(pendingMessages) :
                    /\ pendingMessages[i].message = k
                    /\ GetRecipient(pendingMessages[i].recipient) # None}
    IN  IF sent = {} THEN heap[k].recipient
        ELSE GetRecipient(pendingMessages[CHOOSE i \in sent : \A j \in sent : j <= i].recipient)

\* Mutants: publishing while process() runs; when a first process() is done.
PublishAnyTime == TRUE
PublishOnceDone == \E m \in Registered : processing[m] \in {"setup", "done"}

\* run(): the main thread publishes when the setup is over and, from then on,
\* when every process() of the previous frame has returned.
PublishDue == \A m \in Registered : processing[m] \in {"setup", "done"} /\ emitting[m] = <<>>

\* All lists are emptied, their messages deleted, and the pending messages
\* moved to the lists of the messangers their recipients resolve to; a message
\* whose recipient is nullptr is dropped.
PublishMessages ==
    /\ messangerToMessagesDict' = [m \in Registered |-> Delivered(m)]
    /\ heap' = [k \in 1..Len(heap) |->
            [heap[k] EXCEPT !.deletes = @ + Deletes(k), !.recipient = RecipientAfter(k)]]
    /\ pendingMessages' = <<>>
    /\ processing' = [m \in Messangers |-> IF m \in Registered THEN "due" ELSE "never"]
    /\ UNCHANGED <<tables, messangerToSubscribersDict, held, emitting>>

Publish == PublishDue /\ PublishMessages

Process(m) == BeginProcess(m) \/ GetMessages(m) \/ EmitNext(m) \/ EndProcess(m)

Next ==
    \/ Publish
    \/ \E m \in Messangers :
        \/ RegisterMessanger(m) \/ EmitMessage(m) \/ Process(m)
        \/ \E r \in Recipients : SendMessage(m, r) \/ Subscribe(m, r) \/ Unsubscribe(m, r)

Spec == Init /\ [][Next]_vars

\* The main thread and the threads that run process() go on.
FairSpec == Spec /\ WF_vars(Publish) /\ \A m \in Messangers : WF_vars(Process(m))

-----------------------------------------------------------------------------
(* Properties *)

MessageIds == 1..Len(heap)

\* The type of the state; the two maps keyed by messanger have an entry for
\* each registered one, and no list of subscribers has duplicates.
TypeOK ==
    /\ messangersList \in Seq(Messangers)
    /\ DOMAIN nameToIndexDict = {NameOf[m] : m \in Registered}
    /\ \A n \in DOMAIN nameToIndexDict : nameToIndexDict[n] \in 1..Len(messangersList)
    /\ DOMAIN messangerToMessagesDict = Registered
    /\ DOMAIN messangerToSubscribersDict = Registered
    /\ \A m \in Registered :
            /\ InList(messangerToMessagesDict[m]) \subseteq MessageIds
            /\ messangerToSubscribersDict[m] \in Seq(Registered)
            /\ \A i, j \in 1..Len(messangerToSubscribersDict[m]) :
                    messangerToSubscribersDict[m][i] = messangerToSubscribersDict[m][j] => i = j
    /\ pendingMessages \in Seq([recipient : Recipients, message : MessageIds])
    /\ heap \in Seq([sender : Messangers, recipient : Messangers \cup {None}, deletes : Nat])
    /\ processing \in [Messangers -> {"setup", "due", "running", "reading", "done", "never"}]
    /\ held \in [Messangers -> SUBSET MessageIds]
    /\ emitting \in [Messangers -> Seq([recipient : Recipients, message : MessageIds])]

\* getMessages() hands out pointers the bus goes on owning: no reader holds one
\* that publish() has deleted.
HeldAreLive == \A m \in Messangers : \A k \in held[m] : heap[k].deletes = 0

\* No message is deleted twice, although emitMessage() sends one message to
\* every subscriber, and none is deleted that can still be delivered.
DeletedOnce ==
    /\ \A k \in MessageIds : heap[k].deletes <= 1
    /\ \A k \in {pendingMessages[i].message : i \in 1..Len(pendingMessages)}
                \cup UNION {InList(messangerToMessagesDict[m]) : m \in Registered} :
            heap[k].deletes = 0

\* A list holds only messages whose recipient field names its owner, and one
\* sender's messages in the order it sent them.
ListsInOrder ==
    \A m \in Registered : LET list == messangerToMessagesDict[m] IN
        /\ \A i \in DOMAIN list : heap[list[i]].recipient = m
        /\ \A i, j \in DOMAIN list :
                i < j /\ heap[list[i]].sender = heap[list[j]].sender => list[i] < list[j]

\* publish() gives a message sent by name to the messanger registered last
\* under the name, and one sent by id to the messanger the id was returned to.
Named(n) == {i \in 1..Len(messangersList) : NameOf[messangersList[i]] = n}
PublishDelivers ==
    [][Publish => \A i \in 1..Len(pendingMessages) :
        LET p == pendingMessages[i]
            addressees == IF p.recipient.type = "NAME" THEN Named(p.recipient.key)
                          ELSE {p.recipient.key} \cap 1..Len(messangersList)
        IN  p.recipient.type # "MESSANGER" /\ addressees # {} =>
                \E a \in addressees :
                    /\ \A b \in addressees : b <= a
                    /\ p.message \in InList(messangerToMessagesDict'[messangersList[a]])]_vars

\* A message published to a reader is read by it before the bus deletes it.
PublishedIsRead ==
    \A m \in Readers, k \in 1..MaxMessages :
        processing[m] = "due" /\ k \in InList(messangerToMessagesDict[m]) ~> k \in held[m]

-----------------------------------------------------------------------------
(* What comments of the source say and the code does not do *)

\* MessageBus.h:51, of emitMessage(): "Emit message to all messanger
\* subscribers".  What it is about to send to a subscriber reaches its list.
EmittedIsDelivered ==
    \A m, s \in Messangers, k \in 1..MaxMessages :
        Pending([type |-> "MESSANGER", key |-> s], k) \in InList(emitting[m])
            ~> s \in Registered /\ k \in InList(messangerToMessagesDict[s])

\* IMessanger.h:20, of sendMessage(): "message will be deleted by MessageBus after
\* sending".  publish() deletes what is in a list, so what was sent must be there
\* after it; a message that is neither there nor deleted leaks.
NoMessageLeaks ==
    [][Publish => \A i \in 1..Len(pendingMessages) :
        LET k == pendingMessages[i].message
        IN  \/ heap'[k].deletes > 0
            \/ \E m \in Registered : k \in InList(messangerToMessagesDict'[m])]_vars
=============================================================================
