------------------------ MODULE MCProcessableQueue --------------------------
(* Instances of ProcessableQueue for TLC. *)
EXTENDS ProcessableQueue, TLC

CONSTANTS w1, w2, p1, p2, p3

\* Engine starts ProcessableQueue(2) and MaxWorkerThreads is 2.
MCWorkers == {w1, w2}
MCProcessables == {p1, p2}
MCThreeProcessables == {p1, p2, p3}

Symmetry == Permutations(MCWorkers) \cup Permutations(Processables)
=============================================================================
