----------------------- MODULE MessageBusOrderProofs ------------------------
(***************************************************************************)
(* More about MessageBus, for any messangers, names and number of          *)
(* messages: whom publish() delivers to, and in which order.               *)
(***************************************************************************)
EXTENDS MessageBusProofs

\* registerMessanger() keeps the index of the last messanger of each name.
NamesResolved ==
    /\ DOMAIN nameToIndexDict = {NameOf[m] : m \in Registered}
    /\ \A n \in DOMAIN nameToIndexDict :
            /\ nameToIndexDict[n] \in Named(n)
            /\ \A b \in Named(n) : b <= nameToIndexDict[n]

\* The numbers of the messages that can be delivered ascend in the pending list ...
PendingAscends ==
    \A i, j \in 1..Len(pendingMessages) :
        /\ i < j
        /\ pendingMessages[i].recipient.type # "MESSANGER"
        /\ pendingMessages[j].recipient.type # "MESSANGER"
        => pendingMessages[i].message < pendingMessages[j].message

\* ... and in each published list, whose owner is the recipient of what is in it.
ListAscends(list) == \A i, j \in DOMAIN list : i < j => list[i] < list[j]
ListsAscend ==
    /\ DOMAIN messangerToMessagesDict = Registered
    /\ \A m \in Registered :
            /\ ListAscends(messangerToMessagesDict[m])
            /\ \A i \in DOMAIN messangerToMessagesDict[m] :
                    heap[messangerToMessagesDict[m][i]].recipient = m

\* A list of subscribers holds registered messangers, each once.
Distinct(s) == \A i, j \in 1..Len(s) : s[i] = s[j] => i = j
SubscribersDistinct ==
    \A m \in Registered :
        /\ messangerToSubscribersDict[m] \in Seq(Registered)
        /\ Distinct(messangerToSubscribersDict[m])

OrderInv == NamesResolved /\ PendingAscends /\ ListsAscend /\ SubscribersDistinct

-----------------------------------------------------------------------------

\* At the start every list is empty.
LEMMA OrderInit == Init => OrderInv
<1> SUFFICES ASSUME Init PROVE OrderInv
  OBVIOUS
<1>1. Registered = {}
  BY DEF Init, Registered
<1> QED
  BY <1>1 DEF Init, OrderInv, NamesResolved, PendingAscends, ListsAscend, SubscribersDistinct

\* What OrderInv depends on is left alone.
LEMMA OrderKept ==
    ASSUME OrderInv, UNCHANGED <<tables, boxes, messangerToSubscribersDict>>
    PROVE  OrderInv'
<1>1. Registered' = Registered /\ \A n : Named(n)' = Named(n)
  BY DEF Registered, Named, tables
<1>2. NamesResolved'
  BY <1>1 DEF OrderInv, NamesResolved, tables
<1>3. PendingAscends' /\ ListsAscend' /\ SubscribersDistinct'
  BY <1>1 DEF OrderInv, PendingAscends, ListsAscend, ListAscends, SubscribersDistinct,
        Distinct, boxes
<1> QED
  BY <1>2, <1>3 DEF OrderInv

\* registerMessanger() makes the new messanger the last of its name.
LEMMA OrderRegister ==
    ASSUME BusInv, OrderInv, NEW m \in Messangers, RegisterMessanger(m) PROVE OrderInv'
<1> USE DEF RegisterMessanger, AddMessanger
<1> DEFINE n == Len(messangersList) + 1
<1>1. /\ messangersList' \in Seq(Messangers)
      /\ Len(messangersList) \in Nat /\ Len(messangersList') = n
      /\ \A i \in 1..Len(messangersList) : messangersList'[i] = messangersList[i]
      /\ messangersList'[n] = m
  BY AppendProperties, LenProperties DEF BusInv, BusType
<1>2. 1..n = 1..Len(messangersList) \cup {n}
  BY <1>1
<1>3. Registered' = Registered \cup {m}
  BY <1>1, <1>2 DEF Registered
<1>4. \A x : Named(x)' = IF x = NameOf[m] THEN Named(x) \cup {n} ELSE Named(x)
  BY <1>1, <1>2 DEF Named
<1>5. NamesResolved'
  <2>1. DOMAIN nameToIndexDict' = DOMAIN nameToIndexDict \cup {NameOf[m]}
    BY DEF AddName
  <2>2. \A x \in DOMAIN nameToIndexDict' :
            nameToIndexDict'[x] = IF x = NameOf[m] THEN n ELSE nameToIndexDict[x]
    BY DEF AddName
  <2>3. DOMAIN nameToIndexDict' = {NameOf[x] : x \in Registered'}
    BY <1>3, <2>1 DEF OrderInv, NamesResolved
  <2>4. \A x : \A b \in Named(x) : b \in 1..Len(messangersList) /\ b < n
    BY <1>1 DEF Named
  <2>5. ASSUME NEW x \in DOMAIN nameToIndexDict'
        PROVE  nameToIndexDict'[x] \in Named(x)' /\ \A b \in Named(x)' : b <= nameToIndexDict'[x]
    <3>1. CASE x = NameOf[m]
      BY <1>1, <1>4, <2>2, <2>4, <3>1
    <3>2. CASE x # NameOf[m]
      BY <1>4, <2>1, <2>2, <3>2 DEF OrderInv, NamesResolved
    <3> QED
      BY <3>1, <3>2
  <2> QED
    BY <2>3, <2>5 DEF NamesResolved
<1>6. PendingAscends'
  BY DEF OrderInv, PendingAscends
<1>7. ListsAscend'
  <2>1. DOMAIN NoMessages = {}
    BY DEF NoMessages
  <2> QED
    BY <1>3, <2>1 DEF OrderInv, ListsAscend, ListAscends
<1>8. SubscribersDistinct'
  <2> SUFFICES ASSUME NEW x \in Registered'
               PROVE  /\ messangerToSubscribersDict'[x] \in Seq(Registered')
                      /\ Distinct(messangerToSubscribersDict'[x])
    BY DEF SubscribersDistinct
  <2>1. CASE x = m
    BY <1>3, <2>1 DEF AddSubscribers, Distinct
  <2>2. CASE x # m
    <3>1. messangerToSubscribersDict'[x] = messangerToSubscribersDict[x] /\ x \in Registered
      BY <1>3, <2>2 DEF AddSubscribers
    <3> QED
      BY <1>3, <3>1 DEF OrderInv, SubscribersDistinct
  <2> QED
    BY <2>1, <2>2
<1> QED
  BY <1>5, <1>6, <1>7, <1>8 DEF OrderInv

\* A new message has the highest number; it is in no list yet.
LEMMA OrderAllocated ==
    ASSUME BusInv, OrderInv, NEW m \in Messangers, Len(heap) \in Nat,
           heap' = Append(heap, NewMessage(m)),
           UNCHANGED <<tables, messangerToMessagesDict, messangerToSubscribersDict>>
    PROVE  NamesResolved' /\ ListsAscend' /\ SubscribersDistinct'
<1>1. Registered' = Registered /\ \A x : Named(x)' = Named(x)
  BY DEF Registered, Named, tables
<1>2. \A k \in 1..Len(heap) : heap'[k] = heap[k]
  BY DEF BusInv, BusType
<1>3. \A x \in Registered : \A i \in DOMAIN messangerToMessagesDict[x] :
            messangerToMessagesDict[x][i] \in 1..Len(heap)
  BY DEF BusInv, Live, IsListed
<1> QED
  BY <1>1, <1>2, <1>3 DEF OrderInv, NamesResolved, ListsAscend, SubscribersDistinct, tables

\* A message is appended that cannot be delivered or has the highest number.
LEMMA PendingAppended ==
    ASSUME NEW n \in Nat, Len(pendingMessages) = n, PendingAscends,
           Len(pendingMessages') = n + 1,
           \A i \in 1..n : pendingMessages'[i] = pendingMessages[i],
           \/ pendingMessages'[n + 1].recipient.type = "MESSANGER"
           \/ \A i \in 1..n : pendingMessages[i].message < pendingMessages'[n + 1].message
    PROVE  PendingAscends'
<1> SUFFICES ASSUME NEW i \in 1..(n + 1), NEW j \in 1..(n + 1), i < j,
                    pendingMessages'[i].recipient.type # "MESSANGER",
                    pendingMessages'[j].recipient.type # "MESSANGER"
             PROVE  pendingMessages'[i].message < pendingMessages'[j].message
  BY DEF PendingAscends
<1>1. i \in 1..n
  OBVIOUS
<1>2. CASE j \in 1..n
  BY <1>1, <1>2 DEF PendingAscends
<1>3. CASE j = n + 1
  BY <1>1, <1>3
<1> QED
  BY <1>2, <1>3

\* sendMessage() appends the message with the highest number.
LEMMA OrderSend ==
    ASSUME BusInv, OrderInv, NEW m \in Messangers, NEW r \in Recipients, SendMessage(m, r)
    PROVE  OrderInv'
<1> USE DEF SendMessage, Pending
<1>0. Len(heap) \in Nat /\ Len(pendingMessages) \in Nat
  BY LenProperties DEF BusInv, BusType
<1>1. /\ Len(pendingMessages') = Len(pendingMessages) + 1
      /\ \A i \in 1..Len(pendingMessages) : pendingMessages'[i] = pendingMessages[i]
      /\ pendingMessages'[Len(pendingMessages) + 1].message = Len(heap) + 1
  BY <1>0 DEF BusInv, BusType
<1>2. \A i \in 1..Len(pendingMessages) : pendingMessages[i].message \in 1..Len(heap)
  BY DEF BusInv, Live, InPending
<1>3. \A i \in 1..Len(pendingMessages) :
            pendingMessages[i].message < pendingMessages'[Len(pendingMessages) + 1].message
  BY <1>0, <1>1, <1>2
<1>4. PendingAscends'
  BY <1>0, <1>1, <1>3, PendingAppended DEF OrderInv
<1> QED
  BY <1>0, <1>4, OrderAllocated DEF OrderInv

\* emitMessage() changes no list yet,
LEMMA OrderEmit ==
    ASSUME BusInv, OrderInv, NEW m \in Messangers, EmitMessage(m) PROVE OrderInv'
<1>1. Len(heap) \in Nat
  BY LenProperties DEF BusInv, BusType
<1>2. PendingAscends'
  BY DEF EmitMessage, OrderInv, PendingAscends
<1> QED
  BY <1>1, <1>2, OrderAllocated DEF EmitMessage, OrderInv

\* and appends messages that cannot be delivered.
LEMMA OrderEmitNext ==
    ASSUME BusInv, OrderInv, NEW m \in Messangers, EmitNext(m) PROVE OrderInv'
<1> USE DEF EmitNext
<1>0. emitting[m] \in Seq(Entry) /\ emitting[m] # <<>> /\ Len(pendingMessages) \in Nat
  BY LenProperties DEF BusInv, BusType
<1>1. Head(emitting[m]) = emitting[m][1] /\ 1 \in 1..Len(emitting[m])
  BY <1>0, HeadTailProperties, EmptySeq, LenProperties
<1>2. Head(emitting[m]).recipient.type = "MESSANGER"
  BY <1>1 DEF BusInv, Unique, EmittedByPointer
<1>3. /\ Len(pendingMessages') = Len(pendingMessages) + 1
      /\ \A i \in 1..Len(pendingMessages) : pendingMessages'[i] = pendingMessages[i]
      /\ pendingMessages'[Len(pendingMessages) + 1] = Head(emitting[m])
  BY <1>0, <1>1 DEF BusInv, BusType
<1>4. PendingAscends'
  BY <1>0, <1>2, <1>3, PendingAppended DEF OrderInv
<1>5. Registered' = Registered /\ \A x : Named(x)' = Named(x)
  BY DEF Registered, Named, tables
<1>6. NamesResolved' /\ ListsAscend' /\ SubscribersDistinct'
  BY <1>5 DEF OrderInv, NamesResolved, ListsAscend, SubscribersDistinct, tables
<1> QED
  BY <1>4, <1>6 DEF OrderInv

\* Skipping one place of a sequence makes no two places equal.
LEMMA SkipsOne ==
    ASSUME NEW n \in Nat, NEW i \in 1..n, NEW s, NEW t,
           \A j, k \in 1..n : s[j] = s[k] => j = k,
           \A j \in 1..(n - 1) : t[j] = IF j < i THEN s[j] ELSE s[j + 1]
    PROVE  \A j, k \in 1..(n - 1) : t[j] = t[k] => j = k
<1> SUFFICES ASSUME NEW j \in 1..(n - 1), NEW k \in 1..(n - 1), t[j] = t[k] PROVE j = k
  OBVIOUS
<1>1. j \in 1..n /\ j + 1 \in 1..n /\ k \in 1..n /\ k + 1 \in 1..n
  OBVIOUS
<1> QED
  BY <1>1

\* What unsubscribe() leaves of a list without duplicates has none.
LEMMA Removed ==
    ASSUME NEW S, NEW s \in Seq(S), NEW i \in 1..Len(s), Distinct(s)
    PROVE  LET t == SubSeq(s, 1, i - 1) \o SubSeq(s, i + 1, Len(s))
           IN  t \in Seq(S) /\ Distinct(t)
<1>1. PICK n : n = Len(s)
  OBVIOUS
<1>2. PICK a : a = SubSeq(s, 1, i - 1)
  OBVIOUS
<1>3. PICK b : b = SubSeq(s, i + 1, n)
  OBVIOUS
<1>4. PICK t : t = a \o b
  OBVIOUS
<1>5. n \in Nat /\ i \in 1..n /\ \A j \in 1..n : s[j] \in S
  BY <1>1, LenProperties
<1>6. a \in Seq(S) /\ Len(a) = i - 1 /\ \A j \in 1..(i - 1) : a[j] = s[j]
  BY <1>2, <1>5, SubSeqProperties
<1>7. b \in Seq(S) /\ Len(b) = n - i /\ \A j \in 1..(n - i) : b[j] = s[i + j]
  BY <1>1, <1>3, <1>5, SubSeqProperties
<1>8. /\ t \in Seq(S) /\ Len(t) = Len(a) + Len(b)
      /\ \A j \in 1..(Len(a) + Len(b)) :
            t[j] = IF j <= Len(a) THEN a[j] ELSE b[j - Len(a)]
  <2>1. /\ a \o b \in Seq(S) /\ Len(a \o b) = Len(a) + Len(b)
        /\ \A j \in 1..(Len(a) + Len(b)) :
                (a \o b)[j] = IF j <= Len(a) THEN a[j] ELSE b[j - Len(a)]
    BY <1>6, <1>7, ConcatProperties
  <2> QED
    BY <1>4, <2>1
<1>9. /\ Len(t) = n - 1
      /\ \A j \in 1..(n - 1) : t[j] = IF j <= i - 1 THEN a[j] ELSE b[j - (i - 1)]
  <2>1. Len(a) + Len(b) = n - 1
    BY <1>5, <1>6, <1>7
  <2> QED
    BY <1>6, <1>8, <2>1
<1>10. \A j \in 1..(n - 1) : t[j] = IF j < i THEN s[j] ELSE s[j + 1]
  <2> SUFFICES ASSUME NEW j \in 1..(n - 1)
               PROVE  t[j] = IF j < i THEN s[j] ELSE s[j + 1]
    OBVIOUS
  <2>1. CASE j < i
    <3>1. j \in 1..(i - 1) /\ j <= i - 1
      BY <1>5, <2>1
    <3> QED
      BY <1>6, <1>9, <2>1, <3>1
  <2>2. CASE ~ (j < i)
    <3>1. j - (i - 1) \in 1..(n - i) /\ i + (j - (i - 1)) = j + 1 /\ ~ (j <= i - 1)
      BY <1>5, <2>2
    <3> QED
      BY <1>7, <1>9, <2>2, <3>1
  <2> QED
    BY <2>1, <2>2
<1>11. \A j, k \in 1..n : s[j] = s[k] => j = k
  BY <1>1 DEF Distinct
<1>12. \A j, k \in 1..(n - 1) : t[j] = t[k] => j = k
  BY <1>5, <1>10, <1>11, SkipsOne
<1>13. t \in Seq(S) /\ Distinct(t)
  BY <1>8, <1>9, <1>12 DEF Distinct
<1> QED
  BY <1>1, <1>2, <1>3, <1>4, <1>13

\* subscribe() appends what is not in the list; unsubscribe() takes one element out.
LEMMA OrderSubscribe ==
    ASSUME BusInv, OrderInv, NEW m \in Messangers, NEW r \in Recipients,
           Subscribe(m, r) \/ Unsubscribe(m, r)
    PROVE  OrderInv'
<1> DEFINE s == messangerToSubscribersDict[m]
           t == messangerToSubscribersDict'[m]
<1>0. /\ m \in Registered /\ s \in Seq(Registered) /\ Len(s) \in Nat /\ Distinct(s)
      /\ messangerToSubscribersDict \in [Registered -> Seq(Messangers)]
  BY LenProperties DEF Subscribe, Unsubscribe, MayCall, BusInv, BusType, OrderInv,
        SubscribersDistinct
<1>1. /\ UNCHANGED <<tables, boxes>> /\ Registered' = Registered
      /\ \A x : Named(x)' = Named(x)
  BY DEF Subscribe, Unsubscribe, Registered, Named, tables
<1>2. /\ t \in Seq(Registered) /\ Distinct(t)
      /\ \A x \in Registered : x # m =>
            messangerToSubscribersDict'[x] = messangerToSubscribersDict[x]
  <2>1. CASE Subscribe(m, r)
    <3>1. t = Append(s, Target(r)) /\ Target(r) \in Registered \ InList(s)
      BY <1>0, <2>1 DEF Subscribe
    <3>2. /\ t \in Seq(Registered) /\ Len(t) = Len(s) + 1
          /\ \A i \in 1..Len(s) : t[i] = s[i] /\ s[i] # t[Len(s) + 1]
      BY <1>0, <3>1, AppendProperties DEF InList
    <3>3. \A i \in 1..Len(t) : i \in 1..Len(s) \/ i = Len(s) + 1
      BY <1>0, <3>2
    <3>4. Distinct(t)
      BY <1>0, <3>2, <3>3 DEF Distinct
    <3> QED
      BY <1>0, <2>1, <3>2, <3>4 DEF Subscribe
  <2>2. CASE Unsubscribe(m, r)
    <3>1. PICK i \in 1..Len(s) : messangerToSubscribersDict' =
            [messangerToSubscribersDict EXCEPT ![m] =
                SubSeq(s, 1, i - 1) \o SubSeq(s, i + 1, Len(s))]
      BY <1>0, <2>2 DEF Unsubscribe
    <3>2. t = SubSeq(s, 1, i - 1) \o SubSeq(s, i + 1, Len(s))
      BY <1>0, <3>1
    <3>3. t \in Seq(Registered) /\ Distinct(t)
      BY <1>0, <3>2, Removed
    <3> QED
      BY <1>0, <3>1, <3>3
  <2> QED
    BY <2>1, <2>2 DEF Subscribe, Unsubscribe
<1>3. SubscribersDistinct'
  BY <1>0, <1>1, <1>2 DEF OrderInv, SubscribersDistinct
<1>4. NamesResolved' /\ PendingAscends' /\ ListsAscend'
  BY <1>1 DEF OrderInv, NamesResolved, PendingAscends, ListsAscend, tables, boxes
<1> QED
  BY <1>3, <1>4 DEF OrderInv

\* The lists are made from the pending list, in its order; a message that is in
\* one has one recipient, which publish() writes into it.
LEMMA OrderPublish ==
    ASSUME BusInv, OrderInv, Publish PROVE OrderInv'
<1>1. /\ Registered' = Registered /\ \A x : Named(x)' = Named(x)
      /\ Len(pendingMessages) \in Nat
  BY LenProperties DEF Publish, PublishMessages, Registered, Named, tables, BusInv, BusType
<1>2. NamesResolved' /\ SubscribersDistinct'
  BY <1>1 DEF Publish, PublishMessages, OrderInv, NamesResolved, SubscribersDistinct, tables
<1>3. PendingAscends'
  <2>1. Len(pendingMessages') = 0
    BY DEF Publish, PublishMessages
  <2> QED
    BY <2>1 DEF PendingAscends
<1>4. \A i \in 1..Len(pendingMessages) :
            GetRecipient(pendingMessages[i].recipient) # None =>
                pendingMessages[i].recipient.type # "MESSANGER"
  BY MessangersAssumption DEF GetRecipient, RecipientIndex, Find, messangerToIndexDict
<1>5. ASSUME NEW m \in Registered
      PROVE  /\ m \in Messangers
             /\ \A i \in DOMAIN messangerToMessagesDict'[m] :
                /\ i \in 1..Len(pendingMessages)
                /\ messangerToMessagesDict'[m][i] = pendingMessages[i].message
                /\ GetRecipient(pendingMessages[i].recipient) = m
                /\ pendingMessages[i].recipient.type # "MESSANGER"
  <2>1. m \in Messangers /\ m # None
    BY MessangersAssumption DEF BusInv, BusType, Registered
  <2>2. messangerToMessagesDict'[m] = Delivered(m)
    BY DEF Publish, PublishMessages
  <2> QED
    BY <1>4, <2>1, <2>2 DEF Delivered
<1>6. ASSUME NEW m \in Registered PROVE ListAscends(messangerToMessagesDict'[m])
  BY <1>5 DEF OrderInv, PendingAscends, ListAscends
<1>7. ASSUME NEW m \in Registered, NEW i \in DOMAIN messangerToMessagesDict'[m]
      PROVE  heap'[messangerToMessagesDict'[m][i]].recipient = m
  <2> DEFINE k == pendingMessages[i].message
             sent == {j \in 1..Len(pendingMessages) :
                        /\ pendingMessages[j].message = k
                        /\ GetRecipient(pendingMessages[j].recipient) # None}
  <2>1. /\ m # None /\ i \in 1..Len(pendingMessages) /\ messangerToMessagesDict'[m][i] = k
        /\ GetRecipient(pendingMessages[i].recipient) = m
        /\ pendingMessages[i].recipient.type # "MESSANGER"
    BY <1>5, MessangersAssumption
  <2>2. sent = {i}
    BY <2>1 DEF BusInv, Unique, PendingOnce
  <2>3. (CHOOSE j \in sent : \A l \in sent : l <= j) = i
    <3>1. i \in sent /\ i \in Int /\ \A l \in sent : l = i
      BY <1>1, <2>1, <2>2
    <3>2. \A l \in sent : l <= i
      BY <3>1
    <3>3. \E j \in sent : \A l \in sent : l <= j
      BY <3>1, <3>2, Zenon
    <3>4. (CHOOSE j \in sent : \A l \in sent : l <= j) \in sent
      BY <3>3, Zenon
    <3> QED
      BY <3>1, <3>4
  <2>4. RecipientAfter(k) = m
    BY <2>1, <2>2, <2>3 DEF RecipientAfter
  <2>5. k \in 1..Len(heap) /\ heap[k] \in HeapRecord
    <3>1. k \in 1..Len(heap)
      BY <2>1 DEF BusInv, Live, InPending
    <3> QED
      BY <3>1 DEF BusInv, BusType
  <2>6. heap'[k].recipient = RecipientAfter(k)
    BY <2>5 DEF Publish, PublishMessages, HeapRecord
  <2> QED
    BY <2>1, <2>4, <2>6
<1>8. ListsAscend'
  BY <1>1, <1>6, <1>7 DEF Publish, PublishMessages, ListsAscend
<1> QED
  BY <1>2, <1>3, <1>8 DEF OrderInv

\* Names, lists and subscribers keep their order in every step of the bus.
THEOREM OrderInvariance == Spec => []OrderInv
<1>1. BusInv /\ OrderInv /\ [Next]_vars => OrderInv'
  <2> SUFFICES ASSUME BusInv, OrderInv, [Next]_vars PROVE OrderInv'
    OBVIOUS
  <2>1. CASE UNCHANGED vars
    BY <2>1, OrderKept DEF vars
  <2>2. CASE Publish
    BY <2>2, OrderPublish
  <2>3. ASSUME NEW m \in Messangers, BeginProcess(m) \/ GetMessages(m) \/ EndProcess(m)
        PROVE  OrderInv'
    BY <2>3, OrderKept DEF BeginProcess, StartProcess, GetMessages, EndProcess
  <2>4. ASSUME NEW m \in Messangers, RegisterMessanger(m) \/ EmitMessage(m) \/ Process(m)
        PROVE  OrderInv'
    BY <2>3, <2>4, OrderRegister, OrderEmit, OrderEmitNext DEF Process
  <2>5. ASSUME NEW m \in Messangers, NEW r \in Recipients,
               SendMessage(m, r) \/ Subscribe(m, r) \/ Unsubscribe(m, r)
        PROVE  OrderInv'
    BY <2>5, OrderSend, OrderSubscribe
  <2> QED
    BY <2>1, <2>2, <2>4, <2>5 DEF Next
<1> QED
  BY <1>1, OrderInit, BusInvariance, PTL DEF Spec

\* A list holds what was sent to its owner, each sender's messages in the order
\* it sent them.
THEOREM OrderCorrect == Spec => []ListsInOrder
<1>1. OrderInv => ListsInOrder
  BY DEF OrderInv, ListsAscend, ListAscends, ListsInOrder
<1> QED
  BY <1>1, OrderInvariance, PTL

\* A sequence whose elements are all in T.
LEMMA Narrowed ==
    ASSUME NEW S, NEW T, NEW s \in Seq(S), \A i \in 1..Len(s) : s[i] \in T
    PROVE  s \in Seq(T)
<1>1. Len(s) \in Nat /\ s \in [1..Len(s) -> T]
  BY LenProperties
<1> QED
  BY <1>1

\* The state has its type, and no list of subscribers a duplicate.
THEOREM TypeCorrect == Spec => []TypeOK
<1>1. BusInv /\ OrderInv => TypeOK
  <2> SUFFICES ASSUME BusInv, OrderInv PROVE TypeOK
    OBVIOUS
  <2> DEFINE Exact == [recipient : Recipients, message : MessageIds]
  <2>1. \A n \in DOMAIN nameToIndexDict : nameToIndexDict[n] \in 1..Len(messangersList)
    BY DEF OrderInv, NamesResolved, Named
  <2>2. \A k : InPending(k) \/ InEmitting(k) \/ IsListed(k) => k \in MessageIds
    BY DEF BusInv, Live, MessageIds
  <2>3. pendingMessages \in Seq(Exact)
    <3>1. pendingMessages \in Seq(Entry) /\ Len(pendingMessages) \in Nat
      BY LenProperties DEF BusInv, BusType
    <3>2. \A i \in 1..Len(pendingMessages) : pendingMessages[i] \in Entry /\ InPending(pendingMessages[i].message)
      BY <3>1 DEF InPending
    <3>3. \A i \in 1..Len(pendingMessages) : pendingMessages[i] \in Exact
      BY <2>2, <3>2 DEF Entry
    <3> QED
      BY <3>1, <3>3, Narrowed
  <2>4. ASSUME NEW m \in Messangers PROVE emitting[m] \in Seq(Exact)
    <3>1. emitting[m] \in Seq(Entry) /\ Len(emitting[m]) \in Nat
      BY LenProperties DEF BusInv, BusType
    <3>2. \A i \in 1..Len(emitting[m]) : emitting[m][i] \in Entry /\ InEmitting(emitting[m][i].message)
      BY <3>1 DEF InEmitting
    <3>3. \A i \in 1..Len(emitting[m]) : emitting[m][i] \in Exact
      BY <2>2, <3>2 DEF Entry
    <3> QED
      BY <3>1, <3>3, Narrowed
  <2>5. emitting \in [Messangers -> Seq(Exact)]
    BY <2>4 DEF BusInv, BusType
  <2>6. held \in [Messangers -> SUBSET MessageIds]
    BY <2>2 DEF BusInv, BusType, HeldListed
  <2>7. \A m \in Registered : InList(messangerToMessagesDict[m]) \subseteq MessageIds
    BY <2>2 DEF InList, IsListed
  <2>8. /\ DOMAIN messangerToSubscribersDict = Registered
        /\ messangersList \in Seq(Messangers)
        /\ heap \in Seq([sender : Messangers, recipient : Messangers \cup {None}, deletes : Nat])
        /\ processing \in [Messangers -> {"setup", "due", "running", "reading", "done", "never"}]
    BY DEF BusInv, BusType, HeapRecord
  <2>9. /\ DOMAIN nameToIndexDict = {NameOf[m] : m \in Registered}
        /\ DOMAIN messangerToMessagesDict = Registered
        /\ \A m \in Registered :
                /\ messangerToSubscribersDict[m] \in Seq(Registered)
                /\ \A i, j \in 1..Len(messangerToSubscribersDict[m]) :
                        messangerToSubscribersDict[m][i] = messangerToSubscribersDict[m][j] => i = j
    BY DEF OrderInv, NamesResolved, ListsAscend, SubscribersDistinct, Distinct
  <2> QED
    BY <2>1, <2>3, <2>5, <2>6, <2>7, <2>8, <2>9 DEF TypeOK
<1> QED
  BY <1>1, BusInvariance, OrderInvariance, PTL

-----------------------------------------------------------------------------

\* The ids a message sent by name or by id may go to.
Addressees(r) == IF r.type = "NAME" THEN Named(r.key)
                 ELSE {r.key} \cap 1..Len(messangersList)

\* publish() delivers what is sent by name to the last messanger registered
\* under the name, and what is sent by id to the messanger with the id.
THEOREM DeliversCorrect == Spec => PublishDelivers
<1> DEFINE Delivers ==
        \A i \in 1..Len(pendingMessages) :
            LET p == pendingMessages[i]
                addressees == IF p.recipient.type = "NAME" THEN Named(p.recipient.key)
                              ELSE {p.recipient.key} \cap 1..Len(messangersList)
            IN  p.recipient.type # "MESSANGER" /\ addressees # {} =>
                    \E a \in addressees :
                        /\ \A b \in addressees : b <= a
                        /\ p.message \in InList(messangerToMessagesDict'[messangersList[a]])
<1>1. BusInv /\ OrderInv => (Publish => Delivers)
  <2> SUFFICES ASSUME BusInv, OrderInv, Publish, NEW i \in 1..Len(pendingMessages),
                      pendingMessages[i].recipient.type # "MESSANGER",
                      Addressees(pendingMessages[i].recipient) # {}
               PROVE  \E a \in Addressees(pendingMessages[i].recipient) :
                        /\ \A b \in Addressees(pendingMessages[i].recipient) : b <= a
                        /\ pendingMessages[i].message \in
                                InList(messangerToMessagesDict'[messangersList[a]])
    BY DEF Addressees
  <2> DEFINE r == pendingMessages[i].recipient
             a == RecipientIndex(r)
  <2>1. r \in Recipients /\ r.type \in {"NAME", "ID"}
    <3>1. pendingMessages[i] \in Entry
      BY DEF BusInv, BusType
    <3> QED
      BY <3>1 DEF Entry, Recipients
  <2>2. a \in Addressees(r) /\ \A b \in Addressees(r) : b <= a
    <3>1. CASE r.type = "NAME"
      <4>1. Addressees(r) = Named(r.key)
        BY <3>1 DEF Addressees
      <4>2. r.key \in DOMAIN nameToIndexDict
        BY <4>1 DEF OrderInv, NamesResolved, Named, Registered
      <4>3. a = nameToIndexDict[r.key]
        BY <3>1, <4>2 DEF RecipientIndex, Find
      <4> QED
        BY <4>1, <4>2, <4>3 DEF OrderInv, NamesResolved
    <3>2. CASE r.type = "ID"
      <4>1. Addressees(r) = {r.key} \cap 1..Len(messangersList)
        BY <3>2 DEF Addressees
      <4>2. r.key \in 1..Len(messangersList)
        BY <4>1
      <4>3. a = r.key
        BY <3>2, <4>2 DEF RecipientIndex, Find, idToIndexDict
      <4> QED
        BY <4>1, <4>2, <4>3
    <3> QED
      BY <2>1, <3>1, <3>2
  <2>3. a \in 1..Len(messangersList)
    BY <2>2 DEF Addressees, Named
  <2>4. messangersList[a] \in Registered /\ GetRecipient(r) = messangersList[a]
    BY <2>3 DEF Registered, GetRecipient
  <2>5. messangerToMessagesDict'[messangersList[a]] = Delivered(messangersList[a])
    BY <2>4 DEF Publish, PublishMessages
  <2>6. pendingMessages[i].message \in InList(Delivered(messangersList[a]))
    BY <2>4 DEF Delivered, InList
  <2> QED
    BY <2>2, <2>5, <2>6
<1> QED
  BY <1>1, BusInvariance, OrderInvariance, PTL DEF Spec, PublishDelivers
=============================================================================
