-------------------------- MODULE MessageBusProofs --------------------------
(***************************************************************************)
(* Proofs about MessageBus, for any messangers, names and number of        *)
(* messages: no reader holds a deleted message, no message is deleted      *)
(* twice.                                                                  *)
(***************************************************************************)
EXTENDS MessageBus, FiniteSetTheorems, SequenceTheorems, TLAPS

HeapRecord == [sender : Messangers, recipient : Messangers \cup {None}, deletes : Nat]
Entry == [recipient : Recipients, message : Nat]

\* The part of the type invariant the argument needs.
BusType ==
    /\ messangersList \in Seq(Messangers)
    /\ heap \in Seq(HeapRecord)
    /\ pendingMessages \in Seq(Entry)
    /\ emitting \in [Messangers -> Seq(Entry)]
    /\ processing \in [Messangers -> {"setup", "due", "running", "reading", "done", "never"}]
    /\ held \in [Messangers -> SUBSET Nat]
    /\ \A m \in Messangers :
            processing[m] \in {"due", "running", "reading"} \/ emitting[m] # <<>> => m \in Registered
    /\ messangerToSubscribersDict \in [Registered -> Seq(Messangers)]

\* Message k is waiting in the pending list, or for emitMessage() to send it.
InPending(k) == \E i \in 1..Len(pendingMessages) : pendingMessages[i].message = k
InEmitting(k) ==
    \E m \in Messangers : \E i \in 1..Len(emitting[m]) : emitting[m][i].message = k
IsListed(k) ==
    \E m \in Registered : \E i \in DOMAIN messangerToMessagesDict[m] :
        messangerToMessagesDict[m][i] = k

\* A message that can still be delivered, or is, has not been deleted; the two
\* are never the same message.
Live ==
    /\ \A k : InPending(k) \/ InEmitting(k) \/ IsListed(k) =>
            k \in 1..Len(heap) /\ heap[k].deletes = 0
    /\ \A k : IsListed(k) => ~ InPending(k) /\ ~ InEmitting(k)

\* A message sent by name or id is pending once, a published one is in one
\* list, once.  An emitted one is pending as often as there are subscribers,
\* but none of these entries has a recipient that resolves.
PendingOnce ==
    \A i, j \in 1..Len(pendingMessages) :
        /\ pendingMessages[i].message = pendingMessages[j].message
        /\ pendingMessages[i].recipient.type # "MESSANGER"
        => i = j
SentNotEmitted ==
    \A i \in 1..Len(pendingMessages) : pendingMessages[i].recipient.type # "MESSANGER" =>
        ~ InEmitting(pendingMessages[i].message)
EmittedByPointer ==
    \A m \in Messangers : \A i \in 1..Len(emitting[m]) :
        emitting[m][i].recipient.type = "MESSANGER"
ListedOnce ==
    \A m, n \in Registered :
        \A i \in DOMAIN messangerToMessagesDict[m], j \in DOMAIN messangerToMessagesDict[n] :
            messangerToMessagesDict[m][i] = messangerToMessagesDict[n][j] => m = n /\ i = j
Unique == PendingOnce /\ SentNotEmitted /\ EmittedByPointer /\ ListedOnce

\* What a reader holds is what is still in its list: it runs, so publish() waits.
HeldListed ==
    \A m \in Messangers : held[m] # {} =>
        /\ processing[m] = "reading"
        /\ \A k \in held[m] : IsListed(k)

DeletesBounded == \A k \in 1..Len(heap) : heap[k].deletes <= 1

BusInv == BusType /\ Live /\ Unique /\ HeldListed /\ DeletesBounded

-----------------------------------------------------------------------------

\* At the start there is no message and no messanger.
LEMMA InitInv == Init => BusInv
<1> SUFFICES ASSUME Init PROVE BusInv
  OBVIOUS
<1>1. Registered = {}
  BY DEF Init, Registered
<1> QED
  BY <1>1, MessangersAssumption DEF Init, BusInv, BusType, Live, Unique, PendingOnce,
        SentNotEmitted, EmittedByPointer, ListedOnce, HeldListed, DeletesBounded,
        InPending, InEmitting, IsListed

\* An IMessanger* resolves to nothing: the map it is looked up in stays empty.
LEMMA PointersUnresolved ==
    ASSUME BusType, NEW k, GetRecipient([type |-> "MESSANGER", key |-> k]) # None
    PROVE  FALSE
  BY MessangersAssumption DEF GetRecipient, RecipientIndex, Find, messangerToIndexDict

\* Registering makes an empty list and touches no other.
LEMMA RegisterStep ==
    ASSUME BusInv, NEW m \in Messangers, RegisterMessanger(m) PROVE BusInv'
<1> USE DEF RegisterMessanger, AddMessanger
<1>1. Registered' = Registered \cup {m} /\ messangersList' \in Seq(Messangers)
  <2>1. /\ messangersList' \in Seq(Messangers)
        /\ Len(messangersList) \in Nat /\ Len(messangersList') = Len(messangersList) + 1
        /\ \A i \in 1..Len(messangersList) : messangersList'[i] = messangersList[i]
        /\ messangersList'[Len(messangersList) + 1] = m
    BY AppendProperties, LenProperties DEF BusInv, BusType
  <2>2. \A i \in 1..Len(messangersList') : i \in 1..Len(messangersList) \/ i = Len(messangersList) + 1
    BY <2>1
  <2>3. \A i \in 1..Len(messangersList) : i \in 1..Len(messangersList')
    BY <2>1
  <2>4. Len(messangersList) + 1 \in 1..Len(messangersList')
    BY <2>1
  <2> QED
    BY <2>1, <2>2, <2>3, <2>4 DEF Registered
<1>2. DOMAIN NoMessages = {}
  BY DEF NoMessages
<1>3. \A k : (InPending(k)' <=> InPending(k)) /\ (InEmitting(k)' <=> InEmitting(k))
  BY DEF InPending, InEmitting, calls
<1>4. \A k : IsListed(k)' <=> IsListed(k)
  BY <1>1, <1>2 DEF IsListed
<1>5. BusType'
  <2>1. messangerToSubscribersDict' \in [Registered' -> Seq(Messangers)]
    BY <1>1, EmptySeq DEF AddSubscribers, BusInv, BusType
  <2> QED
    BY <1>1, <2>1 DEF BusInv, BusType, calls
<1>6. Live' /\ HeldListed' /\ DeletesBounded'
  BY <1>3, <1>4 DEF BusInv, Live, HeldListed, DeletesBounded, calls
<1>7. Unique'
  <2>1. ListedOnce'
    BY <1>1, <1>2 DEF BusInv, Unique, ListedOnce
  <2>2. PendingOnce' /\ SentNotEmitted' /\ EmittedByPointer'
    BY <1>3 DEF BusInv, Unique, PendingOnce, SentNotEmitted, EmittedByPointer, calls
  <2> QED
    BY <2>1, <2>2 DEF Unique
<1> QED
  BY <1>5, <1>6, <1>7 DEF BusInv

\* A message is allocated: its number is new to every list.
LEMMA SendStep ==
    ASSUME BusInv, NEW m \in Messangers, NEW r \in Recipients, SendMessage(m, r) PROVE BusInv'
<1> USE DEF SendMessage, Pending
<1>0. Len(heap) \in Nat /\ Len(pendingMessages) \in Nat
  BY LenProperties DEF BusInv, BusType
<1>1. /\ heap' \in Seq(HeapRecord) /\ Len(heap') = Len(heap) + 1
      /\ \A k \in 1..Len(heap) : heap'[k] = heap[k]
      /\ heap'[Len(heap) + 1].deletes = 0
  BY <1>0, MessangersAssumption DEF BusInv, BusType, HeapRecord, NewMessage
<1>2. /\ pendingMessages' \in Seq(Entry) /\ Len(pendingMessages') = Len(pendingMessages) + 1
      /\ \A i \in 1..Len(pendingMessages) : pendingMessages'[i] = pendingMessages[i]
      /\ pendingMessages'[Len(pendingMessages) + 1] = [recipient |-> r, message |-> Len(heap) + 1]
  BY <1>0 DEF BusInv, BusType, Entry
<1>3. \A k : InPending(k)' <=> InPending(k) \/ k = Len(heap) + 1
  BY <1>0, <1>2 DEF InPending
<1>4. \A k : (InEmitting(k)' <=> InEmitting(k)) /\ (IsListed(k)' <=> IsListed(k))
  BY DEF InEmitting, IsListed, Registered, tables, calls
<1>5. ~ InPending(Len(heap) + 1) /\ ~ InEmitting(Len(heap) + 1) /\ ~ IsListed(Len(heap) + 1)
  BY <1>0 DEF BusInv, Live
<1>6. BusType'
  BY <1>1, <1>2 DEF BusInv, BusType, Registered, tables, calls
<1>7. Live'
  BY <1>0, <1>1, <1>3, <1>4, <1>5 DEF BusInv, Live
<1>8. HeldListed' /\ DeletesBounded'
  BY <1>0, <1>1, <1>4 DEF BusInv, HeldListed, DeletesBounded, calls
<1>9. Unique'
  <2>1. PendingOnce'
    BY <1>0, <1>2, <1>5 DEF BusInv, Unique, PendingOnce, InPending
  <2>2. SentNotEmitted'
    BY <1>0, <1>2, <1>4, <1>5 DEF BusInv, Unique, SentNotEmitted
  <2>3. EmittedByPointer'
    BY DEF BusInv, Unique, EmittedByPointer, calls
  <2>4. ListedOnce'
    BY DEF BusInv, Unique, ListedOnce, Registered, tables
  <2> QED
    BY <2>1, <2>2, <2>3, <2>4 DEF Unique
<1> QED
  BY <1>6, <1>7, <1>8, <1>9 DEF BusInv

\* emitMessage() begins: one new message, for every subscriber.
LEMMA EmitStep ==
    ASSUME BusInv, NEW m \in Messangers, EmitMessage(m) PROVE BusInv'
<1> USE DEF EmitMessage, Pending
<1> DEFINE n == Len(heap) + 1
           subscribers == messangerToSubscribersDict[m]
<1>0. Len(heap) \in Nat /\ subscribers \in Seq(Messangers) /\ Len(subscribers) \in Nat
  BY LenProperties DEF BusInv, BusType, MayCall
<1>1. /\ heap' \in Seq(HeapRecord) /\ Len(heap') = n
      /\ \A k \in 1..Len(heap) : heap'[k] = heap[k]
      /\ heap'[n].deletes = 0
  BY <1>0, MessangersAssumption DEF BusInv, BusType, HeapRecord, NewMessage
<1>2. /\ emitting'[m] \in Seq(Entry) /\ Len(emitting'[m]) = Len(subscribers)
      /\ \A i \in 1..Len(emitting'[m]) :
            emitting'[m][i].message = n /\ emitting'[m][i].recipient.type = "MESSANGER"
  <2>1. emitting'[m] = [i \in 1..Len(subscribers) |->
                [recipient |-> [type |-> "MESSANGER", key |-> subscribers[i]], message |-> n]]
    BY DEF BusInv, BusType
  <2>2. \A i \in 1..Len(subscribers) : subscribers[i] \in Messangers
    BY <1>0
  <2> QED
    <3>1. \A i \in 1..Len(subscribers) :
              [recipient |-> [type |-> "MESSANGER", key |-> subscribers[i]], message |-> n] \in Entry
      BY <1>0, <2>2 DEF Entry, Recipients
    <3> QED
      BY <1>0, <2>1, <3>1
<1>3. \A x \in Messangers : x # m => emitting'[x] = emitting[x]
  BY DEF BusInv, BusType
<1>4. \A k : InEmitting(k)' => InEmitting(k) \/ k = n
  BY <1>2, <1>3 DEF InEmitting
<1>5. \A k : (InPending(k)' <=> InPending(k)) /\ (IsListed(k)' <=> IsListed(k))
  BY DEF InPending, IsListed, Registered, tables
<1>6. ~ InPending(n) /\ ~ IsListed(n)
  BY <1>0 DEF BusInv, Live
<1>7. BusType'
  <2>1. emitting' \in [Messangers -> Seq(Entry)]
    BY <1>2, <1>3 DEF BusInv, BusType
  <2>2. m \in Registered /\ Registered' = Registered
    BY DEF MayCall, Registered, tables
  <2>3. \A x \in Messangers :
            processing'[x] \in {"due", "running", "reading"} \/ emitting'[x] # <<>> => x \in Registered'
    BY <1>3, <2>2 DEF BusInv, BusType
  <2> QED
    BY <1>1, <2>1, <2>2, <2>3 DEF BusInv, BusType, tables
<1>8. Live'
  BY <1>0, <1>1, <1>4, <1>5, <1>6 DEF BusInv, Live
<1>9. HeldListed' /\ DeletesBounded'
  BY <1>0, <1>1, <1>5 DEF BusInv, HeldListed, DeletesBounded
<1>10. Unique'
  <2>1. PendingOnce'
    BY DEF BusInv, Unique, PendingOnce
  <2>2. SentNotEmitted'
    BY <1>4, <1>6 DEF BusInv, Unique, SentNotEmitted, InPending
  <2>3. EmittedByPointer'
    BY <1>2, <1>3 DEF BusInv, Unique, EmittedByPointer
  <2>4. ListedOnce'
    BY DEF BusInv, Unique, ListedOnce, Registered, tables
  <2> QED
    BY <2>1, <2>2, <2>3, <2>4 DEF Unique
<1> QED
  BY <1>7, <1>8, <1>9, <1>10 DEF BusInv

\* emitMessage() sends to the next subscriber.
LEMMA EmitNextStep ==
    ASSUME BusInv, NEW m \in Messangers, EmitNext(m) PROVE BusInv'
<1> USE DEF EmitNext
<1> DEFINE e == emitting[m][1]
           n == Len(pendingMessages) + 1
<1>0. emitting[m] \in Seq(Entry) /\ emitting[m] # <<>> /\ Len(pendingMessages) \in Nat
  BY LenProperties DEF BusInv, BusType
<1>1. /\ Head(emitting[m]) = e /\ e \in Entry /\ 1 \in 1..Len(emitting[m])
      /\ Tail(emitting[m]) \in Seq(Entry)
      /\ \A i \in 1..Len(Tail(emitting[m])) :
            i + 1 \in 1..Len(emitting[m]) /\ Tail(emitting[m])[i] = emitting[m][i + 1]
  BY <1>0, HeadTailProperties, EmptySeq, LenProperties
<1>2. /\ emitting'[m] = Tail(emitting[m])
      /\ \A x \in Messangers : x # m => emitting'[x] = emitting[x]
  BY DEF BusInv, BusType
<1>3. /\ pendingMessages' \in Seq(Entry) /\ Len(pendingMessages') = n
      /\ \A i \in 1..Len(pendingMessages) : pendingMessages'[i] = pendingMessages[i]
      /\ pendingMessages'[n] = e
  BY <1>0, <1>1 DEF BusInv, BusType
<1>4. \A k : InPending(k)' <=> InPending(k) \/ k = e.message
  BY <1>0, <1>3 DEF InPending
<1>5. \A k : InEmitting(k)' => InEmitting(k)
  BY <1>1, <1>2 DEF InEmitting
<1>6. \A k : IsListed(k)' <=> IsListed(k)
  BY DEF IsListed, Registered, tables
<1>7. InEmitting(e.message) /\ e.recipient.type = "MESSANGER"
  BY <1>1 DEF InEmitting, BusInv, Unique, EmittedByPointer
<1>8. BusType'
  BY <1>1, <1>2, <1>3 DEF BusInv, BusType, Registered, tables
<1>9. Live'
  BY <1>4, <1>5, <1>6, <1>7 DEF BusInv, Live
<1>10. HeldListed' /\ DeletesBounded'
  BY <1>6 DEF BusInv, HeldListed, DeletesBounded
<1>11. Unique'
  <2>1. PendingOnce'
    <3> SUFFICES ASSUME NEW i \in 1..Len(pendingMessages'), NEW j \in 1..Len(pendingMessages'),
                        pendingMessages'[i].message = pendingMessages'[j].message,
                        pendingMessages'[i].recipient.type # "MESSANGER"
                 PROVE  i = j
      BY DEF PendingOnce
    <3>1. i \in 1..Len(pendingMessages) /\ pendingMessages'[i] = pendingMessages[i]
      BY <1>0, <1>3, <1>7
    <3>2. j # n
      BY <1>3, <1>7, <3>1 DEF BusInv, Unique, SentNotEmitted
    <3>3. j \in 1..Len(pendingMessages) /\ pendingMessages'[j] = pendingMessages[j]
      BY <1>0, <1>3, <3>2
    <3> QED
      BY <3>1, <3>3 DEF BusInv, Unique, PendingOnce
  <2>2. SentNotEmitted'
    BY <1>0, <1>3, <1>5, <1>7 DEF BusInv, Unique, SentNotEmitted
  <2>3. EmittedByPointer'
    BY <1>1, <1>2 DEF BusInv, Unique, EmittedByPointer
  <2>4. ListedOnce'
    BY DEF BusInv, Unique, ListedOnce, Registered, tables
  <2> QED
    BY <2>1, <2>2, <2>3, <2>4 DEF Unique
<1> QED
  BY <1>8, <1>9, <1>10, <1>11 DEF BusInv

\* subscribe() and unsubscribe() change a list of subscribers only.
LEMMA SubscriptionStep ==
    ASSUME BusInv, UNCHANGED <<tables, boxes, calls>>,
           messangerToSubscribersDict' \in [Registered -> Seq(Messangers)]
    PROVE  BusInv'
<1>1. Registered' = Registered
  BY DEF Registered, tables
<1>2. \A k : (InPending(k)' <=> InPending(k)) /\ (InEmitting(k)' <=> InEmitting(k))
            /\ (IsListed(k)' <=> IsListed(k))
  BY <1>1 DEF InPending, InEmitting, IsListed, boxes, calls
<1>3. BusType'
  BY <1>1 DEF BusInv, BusType, tables, boxes, calls
<1>4. Live' /\ DeletesBounded'
  BY <1>2 DEF BusInv, Live, DeletesBounded, boxes
<1>5. PendingOnce' /\ EmittedByPointer' /\ ListedOnce'
  BY <1>1 DEF BusInv, Unique, PendingOnce, EmittedByPointer, ListedOnce, boxes, calls
<1>6. SentNotEmitted'
  BY <1>2 DEF BusInv, Unique, SentNotEmitted, boxes
<1>7. HeldListed'
  BY <1>2 DEF BusInv, HeldListed, calls
<1> QED
  BY <1>3, <1>4, <1>5, <1>6, <1>7 DEF BusInv, Unique

\* subscribe() and unsubscribe() keep lists of messangers.
LEMMA SubscribeStep ==
    ASSUME BusInv, NEW m \in Messangers, NEW r \in Recipients,
           Subscribe(m, r) \/ Unsubscribe(m, r)
    PROVE  BusInv'
<1> DEFINE s == messangerToSubscribersDict[m]
<1>1. m \in Registered /\ s \in Seq(Messangers) /\ Len(s) \in Nat
      /\ messangerToSubscribersDict \in [Registered -> Seq(Messangers)]
  BY LenProperties DEF Subscribe, Unsubscribe, MayCall, BusInv, BusType
<1>2. CASE Subscribe(m, r)
  <2>1. Registered \subseteq Messangers
    BY DEF Registered, BusInv, BusType
  <2>2. Append(s, Target(r)) \in Seq(Messangers)
    BY <1>1, <1>2, <2>1 DEF Subscribe
  <2> QED
    BY <1>1, <1>2, <2>2, SubscriptionStep DEF Subscribe
<1>3. CASE Unsubscribe(m, r)
  <2>1. PICK i \in 1..Len(s) : messangerToSubscribersDict' =
            [messangerToSubscribersDict EXCEPT ![m] =
                SubSeq(s, 1, i - 1) \o SubSeq(s, i + 1, Len(s))]
    BY <1>1, <1>3 DEF Unsubscribe
  <2>2. \A j \in 1..Len(s) : s[j] \in Messangers
    BY <1>1
  <2>3. SubSeq(s, 1, i - 1) \in Seq(Messangers)
    BY <1>1, <2>2, SubSeqProperties
  <2>4. SubSeq(s, i + 1, Len(s)) \in Seq(Messangers)
    BY <1>1, <2>2, SubSeqProperties
  <2> QED
    BY <1>1, <1>3, <2>1, <2>3, <2>4, ConcatProperties, SubscriptionStep DEF Unsubscribe
<1> QED
  BY <1>2, <1>3

\* process() begins, and with it getMessages(), or ends.
LEMMA ProcessStep ==
    ASSUME BusInv, NEW m \in Messangers,
           BeginProcess(m) \/ GetMessages(m) \/ EndProcess(m)
    PROVE  BusInv'
<1>1. \A k : (InPending(k)' <=> InPending(k)) /\ (InEmitting(k)' <=> InEmitting(k))
            /\ (IsListed(k)' <=> IsListed(k))
  BY DEF BeginProcess, StartProcess, GetMessages, EndProcess, InPending, InEmitting, IsListed, Registered, tables, boxes
<1>2. m \in Registered
  BY DEF BeginProcess, StartProcess, GetMessages, EndProcess, BusInv, BusType
<1>3. held'[m] \subseteq {k \in Nat : IsListed(k)}
  <2>1. \A k \in InList(messangerToMessagesDict[m]) : IsListed(k)
    BY <1>2 DEF InList, IsListed
  <2>2. \A k : IsListed(k) => k \in Nat
    BY LenProperties DEF BusInv, Live, BusType
  <2>3. held \in [Messangers -> SUBSET Nat]
        /\ \A k \in held[m] : IsListed(k)
    BY DEF BusInv, BusType, HeldListed
  <2>4. CASE BeginProcess(m)
    BY <2>2, <2>3, <2>4 DEF BeginProcess, StartProcess
  <2>5. CASE GetMessages(m)
    <3>1. held'[m] = InList(messangerToMessagesDict[m])
      BY <2>3, <2>5 DEF GetMessages
    <3> QED
      BY <2>1, <2>2, <3>1
  <2>6. CASE EndProcess(m)
    <3>1. held'[m] = {}
      BY <2>3, <2>6 DEF EndProcess
    <3> QED
      BY <3>1
  <2> QED
    BY <2>4, <2>5, <2>6
<1>4. BusType'
  <2>1. held' \in [Messangers -> SUBSET Nat]
    BY <1>3 DEF BeginProcess, StartProcess, GetMessages, EndProcess, BusInv, BusType
  <2>2. processing' \in [Messangers -> {"setup", "due", "running", "reading", "done", "never"}]
    BY DEF BeginProcess, StartProcess, GetMessages, EndProcess, BusInv, BusType
  <2>3. UNCHANGED <<messangersList, heap, pendingMessages, emitting, messangerToSubscribersDict>>
        /\ Registered' = Registered
    BY DEF BeginProcess, StartProcess, GetMessages, EndProcess, tables, boxes, Registered
  <2>4. \A x \in Messangers : processing'[x] = processing[x] \/ x = m
    BY DEF BeginProcess, StartProcess, GetMessages, EndProcess, BusInv, BusType
  <2> QED
    BY <1>2, <2>1, <2>2, <2>3, <2>4 DEF BusInv, BusType
<1>5. HeldListed'
  BY <1>1, <1>3 DEF BeginProcess, StartProcess, GetMessages, EndProcess, BusInv, BusType, HeldListed
<1>6. Live'
  BY <1>1 DEF BeginProcess, StartProcess, GetMessages, EndProcess, BusInv, Live, boxes
<1>7. DeletesBounded' /\ PendingOnce' /\ EmittedByPointer'
  BY DEF BeginProcess, StartProcess, GetMessages, EndProcess, BusInv, DeletesBounded, Unique, PendingOnce,
        EmittedByPointer, boxes
<1>8. SentNotEmitted'
  BY <1>1 DEF BeginProcess, StartProcess, GetMessages, EndProcess, BusInv, Unique, SentNotEmitted, boxes
<1>9. ListedOnce'
  BY DEF BeginProcess, StartProcess, GetMessages, EndProcess, BusInv, Unique, ListedOnce, Registered, tables, boxes
<1> QED
  BY <1>4, <1>5, <1>6, <1>7, <1>8, <1>9 DEF BusInv, Unique

\* publish() deletes what is listed, once, and lists what was pending, once.
LEMMA PublishStep ==
    ASSUME BusInv, Publish PROVE BusInv'
<1>0. Len(heap) \in Nat /\ Len(pendingMessages) \in Nat /\ Registered' = Registered
      /\ Registered \subseteq Messangers
  <2>1. Len(heap) \in Nat /\ Len(pendingMessages) \in Nat
    BY LenProperties DEF BusInv, BusType
  <2>2. Registered' = Registered
    BY DEF Publish, PublishMessages, Registered, tables
  <2>3. Registered \subseteq Messangers
    BY DEF BusInv, BusType, Registered
  <2> QED
    BY <2>1, <2>2, <2>3
<1>1. \A m \in Messangers : emitting[m] = <<>> /\ held[m] = {}
  BY DEF Publish, PublishMessages, PublishDue, BusInv, BusType, HeldListed
<1>2. \A k : ~ InPending(k)' /\ ~ InEmitting(k)'
  <2>1. pendingMessages' = <<>> /\ emitting' = emitting
    BY DEF Publish, PublishMessages
  <2> QED
    BY <1>1, <2>1 DEF InPending, InEmitting
<1>3. \A i \in 1..Len(pendingMessages) :
            GetRecipient(pendingMessages[i].recipient) # None =>
                pendingMessages[i].recipient.type # "MESSANGER"
  BY MessangersAssumption DEF GetRecipient, RecipientIndex, Find, messangerToIndexDict
<1>4. \A m \in Registered' :
        /\ DOMAIN messangerToMessagesDict'[m] \subseteq 1..Len(pendingMessages)
        /\ \A i \in DOMAIN messangerToMessagesDict'[m] :
            /\ messangerToMessagesDict'[m][i] = pendingMessages[i].message
            /\ GetRecipient(pendingMessages[i].recipient) = m
            /\ pendingMessages[i].recipient.type # "MESSANGER"
  BY <1>0, <1>3, MessangersAssumption DEF Publish, PublishMessages, Delivered
<1>5. \A k : IsListed(k)' => InPending(k)
  BY <1>4 DEF IsListed, InPending
<1>6. \A k : (~ IsListed(k) => Deletes(k) = 0) /\ Deletes(k) \in {0, 1}
  <2> SUFFICES ASSUME NEW k
               PROVE  (~ IsListed(k) => Deletes(k) = 0) /\ Deletes(k) \in {0, 1}
    OBVIOUS
  <2> DEFINE places == {s \in Listed : messangerToMessagesDict[s[1]][s[2]] = k}
  <2>1. ASSUME NEW s \in Listed
        PROVE  \E m \in Registered : \E i \in DOMAIN messangerToMessagesDict[m] : s = <<m, i>>
    BY DEF Listed
  <2>2. ~ IsListed(k) => places = {}
    BY <2>1 DEF IsListed
  <2>3. \A s, t \in places : s = t
    BY <2>1 DEF BusInv, Unique, ListedOnce
  <2>4. places = {} \/ \E s : places = {s}
    BY <2>3
  <2>5. Cardinality(places) \in {0, 1}
    BY <2>4, FS_EmptySet, FS_Singleton
  <2> QED
    BY <2>2, <2>5, FS_EmptySet DEF Deletes
<1>7. \A r : GetRecipient(r) \in Messangers \cup {None}
  BY DEF GetRecipient, BusInv, BusType
<1>8. \A k : RecipientAfter(k) \in Messangers \cup {None} \/ RecipientAfter(k) = heap[k].recipient
  BY <1>7 DEF RecipientAfter
<1>9. /\ heap' \in Seq(HeapRecord) /\ Len(heap') = Len(heap)
      /\ \A k \in 1..Len(heap) : heap'[k].deletes = heap[k].deletes + Deletes(k)
  <2>1. heap' = [k \in 1..Len(heap) |->
            [heap[k] EXCEPT !.deletes = @ + Deletes(k), !.recipient = RecipientAfter(k)]]
    BY DEF Publish, PublishMessages
  <2>2. \A k \in 1..Len(heap) : heap[k] \in HeapRecord
    BY DEF BusInv, BusType
  <2>3. ASSUME NEW k \in 1..Len(heap)
        PROVE  /\ heap'[k] \in HeapRecord
               /\ heap'[k].deletes = heap[k].deletes + Deletes(k)
    <3>1. RecipientAfter(k) \in Messangers \cup {None} /\ Deletes(k) \in Nat
      BY <1>6, <1>8, <2>2 DEF HeapRecord
    <3>2. heap'[k] = [sender |-> heap[k].sender, recipient |-> RecipientAfter(k),
                      deletes |-> heap[k].deletes + Deletes(k)]
      BY <2>1, <2>2 DEF HeapRecord
    <3> QED
      BY <2>2, <3>1, <3>2 DEF HeapRecord
  <2>4. heap' \in [1..Len(heap) -> HeapRecord]
    BY <2>1, <2>3
  <2>5. heap' \in Seq(HeapRecord) /\ Len(heap') = Len(heap)
    BY <1>0, <2>4
  <2> QED
    BY <2>3, <2>5
<1>10. BusType'
  <2>1. pendingMessages' \in Seq(Entry)
    BY EmptySeq DEF Publish, PublishMessages
  <2> QED
    BY <1>0, <1>1, <1>9, <2>1 DEF BusInv, BusType, Publish, PublishMessages, Registered, tables
<1>11. Live'
  <2> SUFFICES ASSUME NEW k, IsListed(k)' PROVE k \in 1..Len(heap') /\ heap'[k].deletes = 0
    BY <1>2 DEF Live
  <2>1. k \in 1..Len(heap) /\ heap[k].deletes = 0 /\ ~ IsListed(k)
    BY <1>5 DEF BusInv, Live
  <2> QED
    BY <1>6, <1>9, <2>1
<1>12. DeletesBounded'
  <2> SUFFICES ASSUME NEW k \in 1..Len(heap) PROVE heap'[k].deletes <= 1
    BY <1>9 DEF DeletesBounded
  <2>1. CASE IsListed(k)
    BY <1>6, <1>9, <2>1 DEF BusInv, Live
  <2>2. CASE ~ IsListed(k)
    <3>1. heap[k].deletes \in Nat /\ heap[k].deletes <= 1
      <4>1. heap[k] \in HeapRecord
        BY DEF BusInv, BusType
      <4> QED
        BY <4>1 DEF BusInv, HeapRecord, DeletesBounded
    <3> QED
      BY <1>6, <1>9, <2>2, <3>1
  <2> QED
    BY <2>1, <2>2
<1>13. HeldListed'
  BY <1>1 DEF HeldListed, Publish, PublishMessages
<1>14. Unique'
  <2>1. Len(pendingMessages') = 0 /\ \A m \in Messangers : emitting'[m] = <<>>
    BY <1>1 DEF Publish, PublishMessages
  <2>2. ListedOnce'
    BY <1>4 DEF BusInv, Unique, PendingOnce, ListedOnce
  <2>3. PendingOnce' /\ SentNotEmitted' /\ EmittedByPointer'
    BY <2>1 DEF PendingOnce, SentNotEmitted, EmittedByPointer
  <2> QED
    BY <2>2, <2>3 DEF Unique
<1> QED
  BY <1>10, <1>11, <1>12, <1>13, <1>14 DEF BusInv

\* Each message is in one place and alive there, in every reachable state of the bus.
THEOREM BusInvariance == Spec => []BusInv
<1>1. BusInv /\ [Next]_vars => BusInv'
  <2> SUFFICES ASSUME BusInv, [Next]_vars PROVE BusInv'
    OBVIOUS
  <2>1. CASE UNCHANGED vars
    <3>1. messangerToSubscribersDict' \in [Registered -> Seq(Messangers)]
      BY <2>1 DEF vars, BusInv, BusType
    <3> QED
      BY <2>1, <3>1, SubscriptionStep DEF vars
  <2>2. CASE Publish
    BY <2>2, PublishStep
  <2>3. ASSUME NEW m \in Messangers, RegisterMessanger(m) \/ EmitMessage(m) \/ Process(m)
        PROVE  BusInv'
    BY <2>3, RegisterStep, EmitStep, EmitNextStep, ProcessStep DEF Process
  <2>4. ASSUME NEW m \in Messangers, NEW r \in Recipients,
               SendMessage(m, r) \/ Subscribe(m, r) \/ Unsubscribe(m, r)
        PROVE  BusInv'
    BY <2>4, SendStep, SubscribeStep
  <2> QED
    BY <2>1, <2>2, <2>3, <2>4 DEF Next
<1> QED
  BY <1>1, InitInv, PTL DEF Spec

\* No reader ever holds a pointer to a message publish() has deleted.
THEOREM HeldLive == Spec => []HeldAreLive
<1>1. BusInv => HeldAreLive
  BY DEF BusInv, Live, HeldListed, HeldAreLive
<1> QED
  BY <1>1, BusInvariance, PTL

\* No message is deleted twice, and none that can still be delivered.
THEOREM DeletesOnce == Spec => []DeletedOnce
<1>1. BusInv => DeletedOnce
  <2> SUFFICES ASSUME BusInv PROVE DeletedOnce
    OBVIOUS
  <2>1. \A k \in {pendingMessages[i].message : i \in 1..Len(pendingMessages)} : InPending(k)
    BY DEF InPending
  <2>2. \A k \in UNION {InList(messangerToMessagesDict[m]) : m \in Registered} : IsListed(k)
    BY DEF IsListed, InList
  <2> QED
    BY <2>1, <2>2 DEF BusInv, Live, DeletesBounded, DeletedOnce, MessageIds
<1> QED
  BY <1>1, BusInvariance, PTL
=============================================================================
