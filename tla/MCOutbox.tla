------------------------------ MODULE MCOutbox ------------------------------
(* Values of Outbox's constants for TLC: the first message goes to one      *)
(* person, the others to another.                                           *)
EXTENDS Outbox, TLC

CONSTANTS u1, u2, p1, p2

MCOwner == [m \in Messages |-> IF m = 1 THEN u1 ELSE u2]

PassSymmetry == Permutations({p1, p2})
=============================================================================
