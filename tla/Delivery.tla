------------------------------ MODULE Delivery ------------------------------
(***************************************************************************)
(* What the outbox promises to the code that writes an answer into it, with *)
(* no workers, claims or retries: an accepted message is owed to its        *)
(* addressee until it is settled (VK took a copy of it), given up, or       *)
(* withdrawn with the addressee's personal data.  Nothing settles that VK   *)
(* never took, and what is no longer owed stays so.                         *)
(***************************************************************************)
CONSTANT Messages

VARIABLES
  stage,    \* stage[m]: how far message m has come
  reached   \* the messages VK took at least one copy of

Stages == {"absent", "owed", "settled", "givenUp", "withdrawn"}

Init ==
  /\ stage = [m \in Messages |-> "absent"]
  /\ reached = {}

Move(S, to) == [m \in Messages |-> IF m \in S THEN to ELSE stage[m]]

Owed == {m \in Messages : stage[m] = "owed"}

Accept(m) ==
  /\ stage[m] = "absent"
  /\ stage' = Move({m}, "owed")
  /\ UNCHANGED reached

\* A copy may still arrive after the withdrawal: it was already on its way.
Reach(m) ==
  /\ stage[m] \in {"owed", "withdrawn"}
  /\ reached' = reached \cup {m}
  /\ UNCHANGED stage

\* One transaction settles some of the owed messages and gives up others.
Conclude ==
  /\ \E done, lost \in SUBSET Owed :
       /\ done \subseteq reached
       /\ done \cap lost = {}
       /\ stage' = [m \in Messages |-> IF m \in done THEN "settled"
                                        ELSE IF m \in lost THEN "givenUp"
                                        ELSE stage[m]]
  /\ UNCHANGED reached

\* Erasing a person removes every message addressed to them, in any stage.
Withdraw ==
  /\ \E S \in SUBSET {m \in Messages : stage[m] # "absent"} :
       stage' = Move(S, "withdrawn")
  /\ UNCHANGED reached

Next ==
  \/ \E m \in Messages : Accept(m) \/ Reach(m)
  \/ Conclude
  \/ Withdraw

Spec == Init /\ [][Next]_<<stage, reached>>
=============================================================================
