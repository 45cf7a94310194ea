---------------------------- MODULE MCEngineFrame ---------------------------
(* Instances of EngineFrame for TLC. *)
EXTENDS EngineFrame, TLC

CONSTANTS w1, w2, p1, p2, n1, n2, f1, f2

\* Two workers and the main thread perform; both objects send, and one reads and
\* prints what was sent to it.
MCWorkers == {w1, w2}
MCProcessables == {p1, p2}
MCReaders == {p1}
MCNameOf == p1 :> n1 @@ p2 :> n2
=============================================================================
