------------------------------ MODULE MCScene -------------------------------
(* Instances of Scene for TLC. *)
EXTENDS Scene

\* Flat ground, a slope that is steep for the spacing, and a pit in the middle.
MCFields ==
    {[p \in (0..2) \X (0..2) |-> 0],
     [p \in (0..2) \X (0..2) |-> 7 * p[1] - 3 * p[2]],
     [p \in (0..2) \X (0..2) |-> IF p = <<1, 1>> THEN -9 ELSE 0]}
=============================================================================
