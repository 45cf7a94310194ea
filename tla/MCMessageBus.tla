---------------------------- MODULE MCMessageBus ----------------------------
(* Instances of MessageBus for TLC. *)
EXTENDS MessageBus, TLC

CONSTANTS m1, m2, n1, n2

\* Two messangers, one of which reads its messages.  A messanger may send to
\* itself and subscribe to itself, so two are enough for a message with
\* several subscribers and for a list fed by several senders.
MCMessangers == {m1, m2}
MCReaders == {m1}
MCNameOf == m1 :> n1 @@ m2 :> n2

\* The two share a name; the other name is nobody's.
MCSameName == [m \in MCMessangers |-> n1]
=============================================================================
