---------------------------- MODULE OutboxProofs ----------------------------
(***************************************************************************)
(* Theorems about module Outbox, for any number of messages, passes,        *)
(* attempts and faults.                                                     *)
(*                                                                         *)
(* The first part holds whether or not a claim can expire while its pass is *)
(* still running; the second part needs ClaimOutlivesDelivery.              *)
(***************************************************************************)
EXTENDS Outbox, FiniteSetTheorems, TLAPS

-----------------------------------------------------------------------------
(* Types.                                                                   *)

\* Why attempts stays below the limit: a row that may still be tried has a try
\* left, and so has every row a settling transaction is about to write.
RoomLeft ==
  /\ \A m \in Messages : status[m] \in {"none", "pending", "sending"} => attempts[m] < MaxAttempts
  /\ \A p \in Passes : \A m \in dirty[p] : image[p][m] < MaxAttempts

TypeInv == TypeOK /\ RoomLeft

\* The types, and the room left below the limit of attempts, hold at the start.
LEMMA InitTypes == Init => TypeInv
  BY OutboxAssumption
  DEF Init, TypeInv, TypeOK, RoomLeft, Statuses, Verdicts

\* Every step keeps them: a settlement only counts one attempt of a row that has room.
LEMMA StepTypes == TypeInv /\ [Next]_vars => TypeInv'
<1> SUFFICES ASSUME TypeInv, [Next]_vars PROVE TypeInv'
  OBVIOUS
<1> USE OutboxAssumption DEF TypeInv, TypeOK, RoomLeft, Statuses, Verdicts, Gone
<1>1. ASSUME NEW m \in Messages, AddMessage(m) PROVE TypeInv'
  BY <1>1 DEF AddMessage, pass, history
<1>2. ASSUME NEW m \in Messages, ClaimExpires(m) PROVE TypeInv'
  BY <1>2 DEF ClaimExpires, pass, history
<1>3. ASSUME NEW p \in Passes, Claim(p) PROVE TypeInv'
  <2>1. PICK T \in SUBSET Claimable :
          /\ status' = [m \in Messages |-> IF m \in T THEN "sending"
                                          ELSE IF m \in StaleClaims THEN "pending"
                                          ELSE status[m]]
          /\ batch' = [batch EXCEPT ![p] = T]
    BY <1>3 DEF Claim
  <2>2. \A m \in T \cup StaleClaims : m \in Messages /\ status[m] \in {"pending", "sending"}
    BY DEF Claimable, StaleClaims
  <2>3. UNCHANGED <<attempts, verdict, loaded, image, dirty, copies, tries, doubts, faults>>
        /\ expired' \subseteq Messages
    BY <1>3 DEF Claim, history
  <2> QED
    BY <2>1, <2>2, <2>3
<1>4. ASSUME NEW p \in Passes, Send(p) PROVE TypeInv'
  <2>1. PICK m \in batch[p] :
          /\ tries' = [tries EXCEPT ![m] = @ + 1]
          /\ copies' = copies \/ copies' = [copies EXCEPT ![m] = @ + 1]
          /\ doubts' = doubts \/ doubts' = [doubts EXCEPT ![m] = @ + 1]
          /\ \E v \in Verdicts : verdict' = [verdict EXCEPT ![p][m] = v]
    BY <1>4 DEF Send, Record
  <2>2. UNCHANGED <<status, attempts, expired, batch, loaded, image, dirty, faults>>
    BY <1>4 DEF Send, table
  <2>3. m \in Messages
    OBVIOUS
  <2>4. /\ copies' \in [Messages -> Nat]
        /\ tries' \in [Messages -> Nat]
        /\ doubts' \in [Messages -> Nat]
    <3>1. \A f \in [Messages -> Nat] : [f EXCEPT ![m] = @ + 1] \in [Messages -> Nat]
      BY <2>3
    <3> QED
      BY <2>1, <3>1
  <2>5. verdict' \in [Passes -> [Messages -> Verdicts]]
    BY <2>1, <2>3
  <2> QED
    BY <2>2, <2>4, <2>5
<1>5. ASSUME NEW p \in Passes, LoadRow(p) PROVE TypeInv'
  <2>1. PICK m \in batch[p] :
          /\ loaded' = [loaded EXCEPT ![p] = @ \cup {m}]
          /\ IF status[m] = "sending"
             THEN /\ dirty' = [dirty EXCEPT ![p] = @ \cup {m}]
                  /\ image' = [image EXCEPT ![p][m] = attempts[m]]
             ELSE UNCHANGED <<dirty, image>>
    BY <1>5 DEF LoadRow
  <2>2. UNCHANGED <<status, attempts, expired, batch, verdict, copies, tries, doubts, faults>>
    BY <1>5 DEF LoadRow, table, history
  <2>3. m \in Messages
    OBVIOUS
  <2>4. CASE status[m] = "sending"
    <3>1. /\ image' \in [Passes -> [Messages -> 0..MaxAttempts]]
          /\ dirty' \in [Passes -> SUBSET Messages]
      <4>1. [image[p] EXCEPT ![m] = attempts[m]] \in [Messages -> 0..MaxAttempts]
        BY <2>3
      <4>2. image' = [image EXCEPT ![p] = [image[p] EXCEPT ![m] = attempts[m]]]
        BY <2>1, <2>4
      <4> QED
        BY <2>1, <2>3, <2>4, <4>1, <4>2
    <3>2. ASSUME NEW q \in Passes, NEW k \in dirty'[q]
          PROVE  \/ k \in dirty[q] /\ image'[q][k] = image[q][k]
                 \/ k = m /\ image'[q][k] = attempts[m]
      <4>1. CASE q = p
        <5>1. dirty'[p] = dirty[p] \cup {m}
          BY <2>1, <2>4
        <5>2. image'[p] = [image[p] EXCEPT ![m] = attempts[m]]
          BY <2>1, <2>4
        <5>3. image[p] \in [Messages -> 0..MaxAttempts] /\ k \in Messages
          BY <4>1, <5>1, <2>3
        <5> QED
          BY <4>1, <5>1, <5>2, <5>3
      <4>2. CASE q # p
        BY <2>1, <2>4, <4>2
      <4> QED
        BY <4>1, <4>2
    <3>3. attempts[m] < MaxAttempts
      BY <2>3, <2>4
    <3>4. (\A q \in Passes : \A k \in dirty[q] : image[q][k] < MaxAttempts)'
      BY <3>2, <3>3
    <3> QED
      BY <2>1, <2>2, <3>1, <3>4
  <2>5. CASE status[m] # "sending"
    BY <2>1, <2>2, <2>3, <2>5
  <2> QED
    BY <2>4, <2>5
<1>6. ASSUME NEW p \in Passes, Settle(p) PROVE TypeInv'
  <2>1. /\ status' = [m \in Messages |-> IF m \in dirty[p] THEN Outcome(p, m) ELSE status[m]]
        /\ attempts' = [m \in Messages |-> IF m \in dirty[p] THEN image[p][m] + 1 ELSE attempts[m]]
    BY <1>6 DEF Settle
  <2>2. /\ expired' \subseteq Messages
        /\ UNCHANGED <<copies, tries, doubts, faults>>
    BY <1>6 DEF Settle, history
  <2>3. \A m \in dirty[p] : /\ Outcome(p, m) \in {"sent", "failed", "pending"}
                            /\ Outcome(p, m) = "pending" => image[p][m] + 1 < MaxAttempts
                            /\ image[p][m] + 1 \in 0..MaxAttempts
    BY DEF Outcome, GivesUp
  <2>4. /\ status' \in [Messages -> Statuses]
        /\ attempts' \in [Messages -> 0..MaxAttempts]
        /\ (\A m \in Messages : status[m] \in {"none", "pending", "sending"} => attempts[m] < MaxAttempts)'
    BY <2>1, <2>3
  <2>5. batch' \in [Passes -> SUBSET Messages] /\ verdict' \in [Passes -> [Messages -> Verdicts]]
    BY <1>6 DEF Settle, Finish
  <2>6. /\ loaded' \in [Passes -> SUBSET Messages]
        /\ dirty' \in [Passes -> SUBSET Messages]
        /\ image' \in [Passes -> [Messages -> 0..MaxAttempts]]
        /\ (\A q \in Passes : \A m \in dirty[q] : image[q][m] < MaxAttempts)'
    BY <1>6 DEF Settle, Finish
  <2> QED
    BY <2>2, <2>4, <2>5, <2>6
<1>7. ASSUME NEW p \in Passes, SettleFails(p) PROVE TypeInv'
  BY <1>7 DEF SettleFails, Finish, ForgetSuccesses, table
<1>8. ASSUME NEW p \in Passes, Crash(p) PROVE TypeInv'
  BY <1>8 DEF Crash, Finish, ForgetSuccesses, table
<1>9. ASSUME NEW S \in SUBSET Messages, NEW why \in Gone, Remove(S, why) PROVE TypeInv'
  BY <1>9 DEF Remove, pass, history
<1>10. ASSUME NEW u \in Users, Erase(u) PROVE TypeInv'
  BY <1>9, <1>10 DEF Erase
<1>11. ASSUME Purge PROVE TypeInv'
  BY <1>9, <1>11 DEF Purge
<1>12. CASE UNCHANGED vars
  BY <1>12 DEF vars, table, pass, history
<1> QED
  BY <1>1, <1>2, <1>3, <1>4, <1>5, <1>6, <1>7, <1>8, <1>10, <1>11, <1>12 DEF Next, PassStep

\* So they hold in every reachable state.
LEMMA AlwaysTypeInv == Spec => []TypeInv
  BY InitTypes, StepTypes, PTL DEF Spec

\* Every variable keeps its type and attempts never passes OUTBOX_MAX_ATTEMPTS,
\* whatever passes, crashes, erasures and purges interleave.
THEOREM TypeCorrect == Spec => []TypeOK
<1>1. TypeInv => TypeOK
  BY DEF TypeInv
<1> QED
  BY <1>1, AlwaysTypeInv, PTL

-----------------------------------------------------------------------------
(* How the parts of a pass fit together.                                    *)

Shape ==
  \A p \in Passes :
    /\ dirty[p] \subseteq loaded[p]
    /\ loaded[p] \subseteq batch[p]
    /\ \A m \in Messages : verdict[p][m] # "none" => m \in batch[p]
    /\ loaded[p] # {} => \A m \in batch[p] : verdict[p][m] # "none"

\* No pass runs at the start.
LEMMA InitShape == Init => Shape
  BY DEF Init, Shape

\* After a pass ended, nothing of it is left.
LEMMA FinishClears ==
  ASSUME TypeOK, NEW p \in Passes, Finish(p)
  PROVE  /\ batch'[p] = {} /\ loaded'[p] = {} /\ dirty'[p] = {}
         /\ verdict'[p] = [m \in Messages |-> "none"]
         /\ \A q \in Passes \ {p} : /\ batch'[q] = batch[q]
                                     /\ verdict'[q] = verdict[q]
                                     /\ loaded'[q] = loaded[q]
                                     /\ dirty'[q] = dirty[q]
                                     /\ image'[q] = image[q]
  BY DEF Finish, TypeOK

\* What one request changes, row by row.
LEMMA SendEffect ==
  ASSUME TypeOK, NEW p \in Passes, Send(p)
  PROVE  \E m \in Messages :
           /\ m \in batch[p]
           /\ verdict[p][m] = "none"
           /\ \A q \in Passes, k \in Messages : q # p \/ k # m => verdict'[q][k] = verdict[q][k]
           /\ \A k \in Messages \ {m} : /\ copies'[k] = copies[k]
                                        /\ tries'[k] = tries[k]
                                        /\ doubts'[k] = doubts[k]
           /\ tries'[m] = tries[m] + 1
           /\ \/ /\ verdict'[p][m] = "ok"
                 /\ copies'[m] = copies[m] + 1 /\ doubts'[m] = doubts[m]
              \/ /\ verdict'[p][m] = "failed"
                 /\ copies'[m] = copies[m] + 1 /\ doubts'[m] = doubts[m] + 1
              \/ /\ verdict'[p][m] = "failed"
                 /\ copies'[m] = copies[m] /\ doubts'[m] = doubts[m]
<1>1. PICK m \in batch[p] :
        /\ verdict[p][m] = "none"
        /\ tries' = [tries EXCEPT ![m] = @ + 1]
        /\ \/ /\ verdict' = [verdict EXCEPT ![p][m] = "ok"]
              /\ copies' = [copies EXCEPT ![m] = @ + 1]
              /\ doubts' = doubts
           \/ /\ verdict' = [verdict EXCEPT ![p][m] = "failed"]
              /\ copies' = [copies EXCEPT ![m] = @ + 1]
              /\ doubts' = [doubts EXCEPT ![m] = @ + 1]
           \/ /\ verdict' = [verdict EXCEPT ![p][m] = "failed"]
              /\ copies' = copies
              /\ doubts' = doubts
  BY DEF Send, Record
<1>2. m \in Messages
  BY DEF TypeOK
<1>3. ASSUME NEW v, verdict' = [verdict EXCEPT ![p][m] = v]
      PROVE  /\ verdict'[p][m] = v
             /\ \A q \in Passes, k \in Messages : q # p \/ k # m => verdict'[q][k] = verdict[q][k]
  <2>1. verdict' = [verdict EXCEPT ![p] = [verdict[p] EXCEPT ![m] = v]]
    BY <1>3
  <2>2. verdict'[p] = [verdict[p] EXCEPT ![m] = v] /\ \A q \in Passes \ {p} : verdict'[q] = verdict[q]
    BY <2>1 DEF TypeOK
  <2> QED
    BY <1>2, <2>2 DEF TypeOK
<1>4. ASSUME NEW f \in [Messages -> Nat]
      PROVE  /\ [f EXCEPT ![m] = @ + 1][m] = f[m] + 1
             /\ \A k \in Messages \ {m} : [f EXCEPT ![m] = @ + 1][k] = f[k]
  BY <1>2
<1>5. /\ copies \in [Messages -> Nat]
      /\ tries \in [Messages -> Nat]
      /\ doubts \in [Messages -> Nat]
  BY DEF TypeOK
<1>6. /\ \A q \in Passes, k \in Messages : q # p \/ k # m => verdict'[q][k] = verdict[q][k]
      /\ \/ /\ verdict'[p][m] = "ok"
            /\ copies' = [copies EXCEPT ![m] = @ + 1]
            /\ doubts' = doubts
         \/ /\ verdict'[p][m] = "failed"
            /\ copies' = [copies EXCEPT ![m] = @ + 1]
            /\ doubts' = [doubts EXCEPT ![m] = @ + 1]
         \/ /\ verdict'[p][m] = "failed"
            /\ copies' = copies
            /\ doubts' = doubts
  BY <1>1, <1>3
<1>7. \A k \in Messages \ {m} : /\ copies'[k] = copies[k]
                                /\ tries'[k] = tries[k]
                                /\ doubts'[k] = doubts[k]
  BY <1>1, <1>4, <1>5
<1>8. /\ tries'[m] = tries[m] + 1
      /\ copies'[m] = copies[m] + 1 \/ copies' = copies
      /\ doubts'[m] = doubts[m] + 1 \/ doubts' = doubts
  BY <1>1, <1>4, <1>5
<1>9. \/ /\ verdict'[p][m] = "ok"
         /\ copies'[m] = copies[m] + 1 /\ doubts'[m] = doubts[m]
      \/ /\ verdict'[p][m] = "failed"
         /\ copies'[m] = copies[m] + 1 /\ doubts'[m] = doubts[m] + 1
      \/ /\ verdict'[p][m] = "failed"
         /\ copies'[m] = copies[m] /\ doubts'[m] = doubts[m]
  BY <1>4, <1>5, <1>6
<1> QED
  BY <1>1, <1>2, <1>6, <1>7, <1>8, <1>9

\* Every step keeps the parts of every pass in place.
LEMMA StepShape == TypeOK /\ Shape /\ [Next]_vars => Shape'
<1> SUFFICES ASSUME TypeOK, Shape, [Next]_vars PROVE Shape'
  OBVIOUS
<1>1. ASSUME UNCHANGED pass PROVE Shape'
  BY <1>1 DEF pass, Shape
<1>2. ASSUME NEW p \in Passes, Claim(p) PROVE Shape'
  <2>1. batch[p] = {} /\ UNCHANGED <<verdict, loaded, dirty>>
    BY <1>2 DEF Claim
  <2>2. \A q \in Passes \ {p} : batch'[q] = batch[q]
    BY <1>2 DEF Claim, TypeOK
  <2> QED
    BY <2>1, <2>2 DEF Shape
<1>3. ASSUME NEW p \in Passes, Send(p) PROVE Shape'
  <2>1. PICK m \in batch[p] : /\ verdict[p][m] = "none"
                              /\ \E v \in {"ok", "failed"} : verdict' = [verdict EXCEPT ![p][m] = v]
    BY <1>3 DEF Send, Record
  <2>2. UNCHANGED <<batch, loaded, dirty>>
    BY <1>3 DEF Send
  <2>3. \A q \in Passes : \A k \in Messages :
          verdict'[q][k] = verdict[q][k] \/ (q = p /\ k = m /\ verdict'[q][k] # "none")
    BY <2>1 DEF TypeOK
  <2>4. ASSUME NEW q \in Passes, NEW k \in Messages
        PROVE  /\ verdict'[q][k] # "none" => k \in batch[q]
               /\ loaded[q] # {} /\ k \in batch[q] => verdict'[q][k] # "none"
    BY <2>3 DEF Shape
  <2> QED
    BY <2>2, <2>4 DEF Shape, TypeOK
<1>4. ASSUME NEW p \in Passes, LoadRow(p) PROVE Shape'
  <2>1. PICK m \in batch[p] : /\ loaded' = [loaded EXCEPT ![p] = @ \cup {m}]
                              /\ dirty' = dirty \/ dirty' = [dirty EXCEPT ![p] = @ \cup {m}]
    BY <1>4 DEF LoadRow
  <2>2. AllAnswered(p) /\ UNCHANGED <<batch, verdict>>
    BY <1>4 DEF LoadRow
  <2> QED
    BY <2>1, <2>2, SMTT(30) DEF Shape, TypeOK, AllAnswered
<1>5. ASSUME NEW p \in Passes, Finish(p) PROVE Shape'
  <2>1. \A q \in Passes : q = p \/ q \in Passes \ {p}
    OBVIOUS
  <2> QED
    BY <1>5, <2>1, FinishClears DEF Shape
<1> QED
  BY <1>1, <1>2, <1>3, <1>4, <1>5
  DEF Next, PassStep, AddMessage, ClaimExpires, Settle, SettleFails, Crash, Erase, Purge, Remove, vars

\* The parts of a pass always fit together.
LEMMA AlwaysShape == Spec => []Shape
<1>1. TypeInv => TypeOK
  BY DEF TypeInv
<1> QED
  BY <1>1, InitShape, StepShape, AlwaysTypeInv, PTL DEF Spec

-----------------------------------------------------------------------------
(* A row is sent only if VK took a copy.                                    *)

\* The pass that remembers a success is right, whoever settles the row first.
SuccessesAreReal ==
  \A p \in Passes : \A m \in Messages : verdict[p][m] = "ok" => copies[m] >= 1

DeliveredInv == SuccessesAreReal /\ SentMeansDelivered

\* Nothing is remembered or marked as delivered at the start.
LEMMA InitDelivered == Init => DeliveredInv
  BY DEF Init, DeliveredInv, SuccessesAreReal, SentMeansDelivered

\* Every step keeps remembered and recorded successes true.
LEMMA StepDelivered == TypeOK /\ DeliveredInv /\ [Next]_vars => DeliveredInv'
<1> SUFFICES ASSUME TypeOK, DeliveredInv, [Next]_vars PROVE DeliveredInv'
  OBVIOUS
<1> USE DEF DeliveredInv, SuccessesAreReal, SentMeansDelivered
<1>1. ASSUME UNCHANGED <<copies, verdict>>,
             \A m \in Messages : status'[m] = "sent" => status[m] = "sent"
      PROVE  DeliveredInv'
  BY <1>1
<1>2. ASSUME NEW p \in Passes, Claim(p) PROVE DeliveredInv'
  <2>1. UNCHANGED <<copies, verdict>>
    BY <1>2 DEF Claim, history
  <2>2. \A m \in Messages : status'[m] = "sent" => status[m] = "sent"
    BY <1>2 DEF Claim, TypeOK
  <2> QED
    BY <1>1, <2>1, <2>2
<1>3. ASSUME NEW p \in Passes, Send(p) PROVE DeliveredInv'
  <2>1. ASSUME NEW k \in Messages
        PROVE  copies[k] \in Nat /\ copies'[k] \in {copies[k], copies[k] + 1}
    <3>1. copies[k] \in Nat
      BY DEF TypeOK
    <3>2. copies'[k] = copies[k] \/ copies'[k] = copies[k] + 1
      BY <1>3, SendEffect
    <3> QED
      BY <3>1, <3>2
  <2>2. ASSUME NEW q \in Passes, NEW k \in Messages, verdict'[q][k] = "ok"
        PROVE  verdict[q][k] = "ok" \/ copies'[k] = copies[k] + 1
    BY <1>3, <2>2, SendEffect
  <2>3. status' = status
    BY <1>3 DEF Send, table
  <2> QED
    BY <2>1, <2>2, <2>3
<1>4. ASSUME NEW p \in Passes, LoadRow(p) PROVE DeliveredInv'
  BY <1>1, <1>4 DEF LoadRow, table, history
<1>5. ASSUME NEW p \in Passes, Finish(p), UNCHANGED copies,
             \A m \in Messages : status'[m] = "sent" => status[m] = "sent" \/ verdict[p][m] = "ok"
      PROVE  DeliveredInv'
  <2>1. \A q \in Passes : \A m \in Messages : verdict'[q][m] = "ok" => verdict[q][m] = "ok"
    BY <1>5, FinishClears
  <2> QED
    BY <1>5, <2>1
<1>6. ASSUME NEW p \in Passes, Settle(p) PROVE DeliveredInv'
  <2>1. \A m \in Messages : status'[m] = "sent" => status[m] = "sent" \/ verdict[p][m] = "ok"
    BY <1>6 DEF Settle, Outcome
  <2> QED
    BY <1>5, <1>6, <2>1 DEF Settle, history
<1>7. ASSUME NEW p \in Passes, SettleFails(p) \/ Crash(p) PROVE DeliveredInv'
  BY <1>5, <1>7 DEF SettleFails, Crash, table
<1>8. ASSUME NEW S, NEW why \in Gone, Remove(S, why) PROVE DeliveredInv'
  BY <1>1, <1>8 DEF Remove, pass, history, Gone
<1>9. CASE Purge \/ \E u \in Users : Erase(u)
  BY <1>8, <1>9 DEF Purge, Erase, Gone
<1>10. CASE \E m \in Messages : AddMessage(m) \/ ClaimExpires(m)
  BY <1>1, <1>10 DEF AddMessage, ClaimExpires, pass, history, TypeOK
<1>11. CASE UNCHANGED vars
  BY <1>1, <1>11 DEF vars, table, pass, history
<1> QED
  BY <1>2, <1>3, <1>4, <1>6, <1>7, <1>9, <1>10, <1>11 DEF Next, PassStep

\* No interleaving of claims, crashes and settling transactions marks a row
\* sent that VK never accepted, even when claims expire under a running pass.
THEOREM SentIsDelivered == Spec => []SentMeansDelivered
<1>1. TypeInv => TypeOK
  BY DEF TypeInv
<1>2. DeliveredInv => SentMeansDelivered
  BY DEF DeliveredInv
<1> QED
  BY <1>1, <1>2, InitDelivered, StepDelivered, AlwaysTypeInv, PTL DEF Spec

-----------------------------------------------------------------------------
(* A row is given up only after all its attempts were made.                 *)

\* Passes that have tried m and not yet settled; each of them owes the row one
\* increment of attempts, which it may also lose.
Answered(m) == {p \in Passes : verdict[p][m] # "none"}
Unsettled(m) == Cardinality(Answered(m))

Earned ==
  /\ \A m \in Messages : attempts[m] + Unsettled(m) <= tries[m]
  /\ \A p \in Passes : \A m \in dirty[p] : image[p][m] + Unsettled(m) <= tries[m]

GivenUpAtLimit == \A m \in Messages : status[m] = "failed" => attempts[m] >= MaxAttempts

EarnedInv == Earned /\ GivenUpAtLimit

\* The sets of passes that are counted are finite.
LEMMA AnsweredFinite ==
  ASSUME NEW m \in Messages
  PROVE  IsFiniteSet(Answered(m)) /\ Unsettled(m) \in Nat
<1>1. IsFiniteSet(Passes) /\ Answered(m) \in SUBSET Passes
  BY OutboxAssumption DEF Answered
<1>2. IsFiniteSet(Answered(m))
  BY <1>1, FS_Subset
<1> QED
  BY <1>2, FS_CardinalityType DEF Unsettled

\* At the start no attempt is counted.
LEMMA InitEarned == Init => EarnedInv
<1> SUFFICES ASSUME Init PROVE EarnedInv
  OBVIOUS
<1>1. ASSUME NEW m \in Messages PROVE Unsettled(m) = 0
  <2>1. Answered(m) = {}
    BY DEF Init, Answered
  <2> QED
    BY <2>1, FS_EmptySet DEF Unsettled
<1> QED
  BY <1>1 DEF Init, EarnedInv, Earned, GivenUpAtLimit

\* One more answer, of a pass that had none for the row.
LEMMA SendCounts ==
  ASSUME TypeOK, NEW p \in Passes, Send(p), NEW k \in Messages
  PROVE  \/ Unsettled(k)' = Unsettled(k) /\ tries'[k] = tries[k]
         \/ Unsettled(k)' = Unsettled(k) + 1 /\ tries'[k] = tries[k] + 1
<1>1. PICK m \in Messages :
        /\ verdict[p][m] = "none"
        /\ \A q \in Passes, j \in Messages : q # p \/ j # m => verdict'[q][j] = verdict[q][j]
        /\ \A j \in Messages \ {m} : tries'[j] = tries[j]
        /\ tries'[m] = tries[m] + 1
        /\ verdict'[p][m] # "none"
  BY SendEffect
<1>2. CASE k # m
  <2>1. Answered(k)' = Answered(k)
    BY <1>1, <1>2 DEF Answered
  <2> QED
    BY <1>1, <1>2, <2>1 DEF Unsettled
<1>3. CASE k = m
  <2>1. Answered(m)' = Answered(m) \cup {p} /\ p \notin Answered(m)
    BY <1>1 DEF Answered
  <2> QED
    BY <1>1, <1>3, <2>1, AnsweredFinite, FS_AddElement DEF Unsettled
<1> QED
  BY <1>2, <1>3

\* A pass that ends withdraws its answers, the settled ones included.
LEMMA FinishCounts ==
  ASSUME TypeOK, NEW p \in Passes, Finish(p), NEW m \in Messages
  PROVE  Unsettled(m)' = IF verdict[p][m] # "none" THEN Unsettled(m) - 1 ELSE Unsettled(m)
<1>1. Answered(m)' = Answered(m) \ {p} /\ (p \in Answered(m) <=> verdict[p][m] # "none")
  BY FinishClears DEF Answered
<1> QED
  BY <1>1, AnsweredFinite, FS_RemoveElement DEF Unsettled

\* No step counts an attempt that was not made.
LEMMA StepEarned == TypeOK /\ TypeOK' /\ Shape /\ EarnedInv /\ [Next]_vars => EarnedInv'
<1> SUFFICES ASSUME TypeOK, TypeOK', Shape, EarnedInv, [Next]_vars PROVE EarnedInv'
  OBVIOUS
<1> DEFINE Natural(m) == /\ attempts[m] \in Nat
                         /\ tries[m] \in Nat
                         /\ Unsettled(m) \in Nat
                         /\ \A p \in Passes : image[p][m] \in Nat
<1>1. \A m \in Messages : Natural(m)
  BY AnsweredFinite, OutboxAssumption DEF TypeOK
<1>2. ASSUME UNCHANGED <<attempts, tries, verdict, image, dirty>>,
             \A m \in Messages : status'[m] = "failed" => status[m] = "failed"
      PROVE  EarnedInv'
  BY <1>2 DEF EarnedInv, Earned, GivenUpAtLimit, Unsettled, Answered
<1>3. ASSUME NEW p \in Passes, Claim(p) PROVE EarnedInv'
  <2>1. \A m \in Messages : status'[m] = "failed" => status[m] = "failed"
    BY <1>3 DEF Claim
  <2> QED
    BY <1>2, <1>3, <2>1 DEF Claim, history
<1>4. ASSUME NEW p \in Passes, Send(p) PROVE EarnedInv'
  <2>1. UNCHANGED <<status, attempts, image, dirty>>
    BY <1>4 DEF Send, table
  <2>2. \A m \in Messages : \/ Unsettled(m)' = Unsettled(m) /\ tries'[m] = tries[m]
                            \/ Unsettled(m)' = Unsettled(m) + 1 /\ tries'[m] = tries[m] + 1
    BY <1>4, SendCounts
  <2>3. ASSUME NEW m \in Messages PROVE attempts'[m] + Unsettled(m)' <= tries'[m]
    <3>1. attempts[m] + Unsettled(m) <= tries[m] /\ Natural(m)
      BY <1>1 DEF EarnedInv, Earned
    <3> QED
      BY <2>1, <2>2, <3>1
  <2>4. (\A q \in Passes : \A m \in dirty[q] : image[q][m] + Unsettled(m) <= tries[m])'
    <3> SUFFICES ASSUME NEW q \in Passes, NEW m \in dirty[q]
                 PROVE  image[q][m] + Unsettled(m)' <= tries'[m]
      BY <2>1
    <3>1. m \in Messages
      BY DEF TypeOK
    <3>2. image[q][m] + Unsettled(m) <= tries[m]
      BY DEF EarnedInv, Earned
    <3> QED
      BY <1>1, <2>2, <3>1, <3>2
  <2> QED
    BY <2>1, <2>3, <2>4 DEF EarnedInv, Earned, GivenUpAtLimit
<1>5. ASSUME NEW p \in Passes, LoadRow(p) PROVE EarnedInv'
  <2>1. UNCHANGED <<status, attempts, tries, verdict>>
    BY <1>5 DEF LoadRow, table, history
  <2>2. \A m \in Messages : Unsettled(m)' = Unsettled(m)
    BY <2>1 DEF Unsettled, Answered
  <2>3. ASSUME NEW q \in Passes, NEW k \in dirty'[q]
        PROVE  \/ k \in dirty[q] /\ image'[q][k] = image[q][k]
               \/ image'[q][k] = attempts[k]
    <3>1. PICK m \in batch[p] :
            IF status[m] = "sending"
            THEN /\ dirty' = [dirty EXCEPT ![p] = @ \cup {m}]
                 /\ image' = [image EXCEPT ![p][m] = attempts[m]]
            ELSE UNCHANGED <<dirty, image>>
      BY <1>5 DEF LoadRow
    <3>2. m \in Messages
      BY DEF TypeOK
    <3>3. CASE status[m] = "sending"
      <4>1. dirty'[p] = dirty[p] \cup {m} /\ \A r \in Passes \ {p} : dirty'[r] = dirty[r]
        BY <3>1, <3>3 DEF TypeOK
      <4>2. image' = [image EXCEPT ![p] = [image[p] EXCEPT ![m] = attempts[m]]]
        BY <3>1, <3>3
      <4>3. /\ image'[p] = [image[p] EXCEPT ![m] = attempts[m]]
            /\ \A r \in Passes \ {p} : image'[r] = image[r]
        BY <4>2 DEF TypeOK
      <4>4. k \in Messages
        BY <2>3 DEF TypeOK
      <4>5. image[p] \in [Messages -> 0..MaxAttempts]
        BY DEF TypeOK
      <4>6. CASE q = p
        BY <2>3, <3>2, <4>1, <4>3, <4>4, <4>5, <4>6
      <4>7. CASE q # p
        BY <2>3, <4>1, <4>3, <4>7
      <4> QED
        BY <4>6, <4>7
    <3>4. CASE status[m] # "sending"
      BY <2>3, <3>1, <3>4
    <3> QED
      BY <3>3, <3>4
  <2>4. ASSUME NEW q \in Passes, NEW k \in dirty'[q]
        PROVE  image'[q][k] + Unsettled(k)' <= tries'[k]
    <3>1. k \in Messages
      BY <2>4 DEF TypeOK
    <3> QED
      BY <2>1, <2>2, <2>3, <2>4, <3>1 DEF EarnedInv, Earned
  <2> QED
    BY <2>1, <2>2, <2>4 DEF EarnedInv, Earned, GivenUpAtLimit
<1>6. ASSUME NEW p \in Passes, Finish(p), UNCHANGED tries,
             \A m \in Messages : attempts'[m] = attempts[m] \/
                               (m \in dirty[p] /\ attempts'[m] = image[p][m] + 1)
      PROVE  Earned'
  <2>1. \A m \in Messages : Unsettled(m)' = IF verdict[p][m] # "none" THEN Unsettled(m) - 1 ELSE Unsettled(m)
    BY <1>6, FinishCounts
  <2>2. \A m \in dirty[p] : m \in Messages /\ verdict[p][m] # "none"
    BY DEF Shape, TypeOK
  <2>3. ASSUME NEW m \in Messages PROVE attempts'[m] + Unsettled(m)' <= tries'[m]
    <3>1. CASE attempts'[m] = attempts[m]
      BY <1>1, <1>6, <2>1, <3>1 DEF EarnedInv, Earned
    <3>2. CASE m \in dirty[p] /\ attempts'[m] = image[p][m] + 1
      BY <1>1, <1>6, <2>1, <2>2, <3>2 DEF EarnedInv, Earned
    <3> QED
      BY <1>6, <3>1, <3>2
  <2>4. ASSUME NEW q \in Passes, NEW m \in dirty'[q]
        PROVE  image'[q][m] + Unsettled(m)' <= tries'[m]
    <3>1. q # p /\ m \in dirty[q] /\ image'[q] = image[q]
      BY <1>6, <2>4, FinishClears
    <3>2. m \in Messages
      BY <3>1 DEF TypeOK
    <3> QED
      BY <1>1, <1>6, <2>1, <3>1, <3>2 DEF EarnedInv, Earned
  <2> QED
    BY <2>3, <2>4 DEF Earned
<1>7. ASSUME NEW p \in Passes, Settle(p) PROVE EarnedInv'
  <2>1. /\ \A m \in dirty[p] : status'[m] = Outcome(p, m) /\ attempts'[m] = image[p][m] + 1
        /\ \A m \in Messages \ dirty[p] : status'[m] = status[m] /\ attempts'[m] = attempts[m]
    BY <1>7 DEF Settle, TypeOK
  <2>2. Earned'
    BY <1>6, <1>7, <2>1 DEF Settle, history
  <2>3. GivenUpAtLimit'
    BY <2>1 DEF EarnedInv, GivenUpAtLimit, Outcome, GivesUp
  <2> QED
    BY <2>2, <2>3 DEF EarnedInv
<1>8. ASSUME NEW p \in Passes, SettleFails(p) \/ Crash(p) PROVE EarnedInv'
  <2>1. Finish(p) /\ UNCHANGED <<status, attempts, tries>>
    BY <1>8 DEF SettleFails, Crash, table
  <2> QED
    BY <1>6, <2>1 DEF EarnedInv, GivenUpAtLimit
<1>9. ASSUME NEW S, NEW why \in Gone, Remove(S, why) PROVE EarnedInv'
  BY <1>2, <1>9 DEF Remove, pass, history, Gone
<1>10. CASE Purge \/ \E u \in Users : Erase(u)
  BY <1>9, <1>10 DEF Purge, Erase, Gone
<1>11. CASE \E m \in Messages : AddMessage(m) \/ ClaimExpires(m)
  BY <1>2, <1>11 DEF AddMessage, ClaimExpires, pass, history, TypeOK
<1>12. CASE UNCHANGED vars
  BY <1>2, <1>12 DEF vars, table, pass, history
<1> QED
  BY <1>3, <1>4, <1>5, <1>7, <1>8, <1>10, <1>11, <1>12 DEF Next, PassStep

\* The unlocked read-modify-write of attempts may lose increments but never
\* invents one: a row is failed only after OUTBOX_MAX_ATTEMPTS requests.
THEOREM GivesUpInTime == Spec => []NoEarlyGiveUp
<1>1. TypeInv => TypeOK
  BY DEF TypeInv
<1>2. TypeOK /\ EarnedInv => NoEarlyGiveUp
  <2> SUFFICES ASSUME TypeOK, EarnedInv, NEW m \in Messages, status[m] = "failed"
               PROVE  tries[m] >= MaxAttempts
    BY DEF NoEarlyGiveUp
  <2>1. attempts[m] >= MaxAttempts /\ attempts[m] + Unsettled(m) <= tries[m]
    BY DEF EarnedInv, Earned, GivenUpAtLimit
  <2>2. attempts[m] \in Nat /\ tries[m] \in Nat /\ Unsettled(m) \in Nat
    BY AnsweredFinite, OutboxAssumption DEF TypeOK
  <2> QED
    BY <2>1, <2>2, OutboxAssumption
<1> QED
  BY <1>1, <1>2, InitEarned, StepEarned, AlwaysTypeInv, AlwaysShape, PTL DEF Spec

-----------------------------------------------------------------------------
(* Claims that outlive their pass are exclusive.                            *)

\* What a pass holds is being sent, or was erased meanwhile; nobody takes it
\* back; what is locked or was loaded as "sending" is still being sent.
HeldRows ==
  \A p \in Passes :
    /\ \A m \in batch[p] : status[m] \in {"sending", "erased"} /\ m \notin expired
    /\ \A m \in Flushed(p) : status[m] = "sending"
    /\ \A m \in loaded[p] : status[m] = "sending" => m \in dirty[p]

HeldInv == HeldRows /\ ExclusiveClaim

\* No row is held at the start.
LEMMA InitHeld == Init => HeldInv
  BY DEF Init, HeldInv, HeldRows, ExclusiveClaim, Flushed

\* Rows that a claim transaction takes or takes back are in no batch.
LEMMA ClaimableIsFree ==
  ASSUME HeldInv, NEW m \in Claimable
  PROVE  /\ m \in Messages
         /\ status[m] \in {"pending", "sending"}
         /\ \A p \in Passes : m \notin batch[p]
  BY DEF HeldInv, HeldRows, Claimable, StaleClaims

\* Whatever a settling transaction is about to write is still being sent.
LEMMA DirtyIsSending ==
  ASSUME TypeOK, Shape, HeldInv, NEW p \in Passes, CanFlush(p), NEW m \in dirty[p]
  PROVE  m \in batch[p] /\ m \in Messages /\ status[m] = "sending"
<1>1. m \in batch[p] /\ m \in Messages
  BY DEF Shape, TypeOK
<1>2. CASE m \in Flushed(p)
  BY <1>1, <1>2 DEF HeldInv, HeldRows
<1>3. CASE m \in Unflushed(p)
  BY <1>1, <1>3 DEF HeldInv, HeldRows, CanFlush, Gone
<1> QED
  BY <1>1, <1>2, <1>3 DEF Unflushed

\* If claims outlive passes, every step keeps the held rows apart.
LEMMA StepHeld ==
  ASSUME ClaimOutlivesDelivery
  PROVE  TypeOK /\ Shape /\ HeldInv /\ [Next]_vars => HeldInv'
<1> SUFFICES ASSUME TypeOK, Shape, HeldInv, [Next]_vars PROVE HeldInv'
  OBVIOUS
<1>1. ASSUME UNCHANGED <<status, expired, pass>> PROVE HeldInv'
  BY <1>1 DEF pass, HeldInv, HeldRows, ExclusiveClaim, Flushed
<1>2. ASSUME NEW m \in Messages, AddMessage(m) PROVE HeldInv'
  <2>1. \A k \in Messages \ {m} : status'[k] = status[k]
    BY <1>2 DEF AddMessage, TypeOK
  <2>2. UNCHANGED <<expired, batch, loaded, dirty>>
    BY <1>2 DEF AddMessage, pass
  <2>3. \A p \in Passes : m \notin batch[p] /\ m \notin Flushed(p) /\ m \notin loaded[p]
    BY <1>2 DEF AddMessage, HeldInv, HeldRows, Shape
  <2>4. ASSUME NEW p \in Passes, NEW k \in batch[p] \cup Flushed(p) \cup loaded[p]
        PROVE  status'[k] = status[k]
    BY <2>1, <2>3 DEF TypeOK, Flushed
  <2>5. \A p \in Passes : Flushed(p)' = Flushed(p)
    BY <2>2 DEF Flushed
  <2>6. HeldRows'
    BY <2>2, <2>4, <2>5 DEF HeldInv, HeldRows
  <2> QED
    BY <2>2, <2>6 DEF HeldInv, ExclusiveClaim
<1>3. ASSUME NEW m \in Messages, ClaimExpires(m) PROVE HeldInv'
  <2>1. m \notin Held /\ expired' = expired \cup {m} /\ UNCHANGED <<status, batch, loaded, dirty>>
    BY <1>3 DEF ClaimExpires, pass
  <2> QED
    BY <2>1 DEF HeldInv, HeldRows, ExclusiveClaim, Flushed, Held
<1>4. ASSUME NEW p \in Passes, Claim(p) PROVE HeldInv'
  <2>1. PICK T \in SUBSET Claimable :
          /\ status' = [m \in Messages |-> IF m \in T THEN "sending"
                                          ELSE IF m \in StaleClaims THEN "pending"
                                          ELSE status[m]]
          /\ batch' = [batch EXCEPT ![p] = T]
    BY <1>4 DEF Claim
  <2>2. batch[p] = {} /\ expired' = expired \ Claimable /\ UNCHANGED <<loaded, dirty>>
    BY <1>4 DEF Claim
  <2>3. batch'[p] = T /\ \A q \in Passes \ {p} : batch'[q] = batch[q]
    BY <2>1 DEF TypeOK
  <2>4. ASSUME NEW q \in Passes, NEW m \in batch[q] PROVE status'[m] = status[m] /\ m \notin T
    <3>1. m \in Messages /\ m \notin Claimable
      BY ClaimableIsFree DEF TypeOK
    <3> QED
      BY <2>1, <3>1 DEF Claimable
  <2>5. \A m \in T : status'[m] = "sending" /\ m \notin expired'
    BY <2>1, <2>2, ClaimableIsFree
  <2>6. ASSUME NEW q \in Passes
        PROVE  /\ \A m \in batch'[q] : status'[m] \in {"sending", "erased"} /\ m \notin expired'
               /\ \A m \in Flushed(q)' : status'[m] = "sending"
               /\ \A m \in loaded'[q] : status'[m] = "sending" => m \in dirty'[q]
    <3>1. Flushed(q)' = Flushed(q) /\ Flushed(q) \subseteq batch[q] /\ loaded[q] \subseteq batch[q]
      BY <2>2 DEF Flushed, Shape
    <3> QED
      BY <2>2, <2>3, <2>4, <2>5, <3>1 DEF HeldInv, HeldRows
  <2>7. ExclusiveClaim'
    BY <2>3, <2>4 DEF HeldInv, ExclusiveClaim
  <2> QED
    BY <2>6, <2>7 DEF HeldInv, HeldRows
<1>5. ASSUME NEW p \in Passes, Send(p) PROVE HeldInv'
  BY <1>5 DEF Send, table, HeldInv, HeldRows, ExclusiveClaim, Flushed
<1>6. ASSUME NEW p \in Passes, LoadRow(p) PROVE HeldInv'
  <2>1. PICK m \in batch[p] :
          /\ loaded' = [loaded EXCEPT ![p] = @ \cup {m}]
          /\ IF status[m] = "sending"
             THEN dirty' = [dirty EXCEPT ![p] = @ \cup {m}]
             ELSE dirty' = dirty
    BY <1>6 DEF LoadRow
  <2>2. CanFlush(p) /\ UNCHANGED <<status, expired, batch>>
    BY <1>6 DEF LoadRow, table
  <2>3. /\ loaded'[p] = loaded[p] \cup {m}
        /\ dirty'[p] = IF status[m] = "sending" THEN dirty[p] \cup {m} ELSE dirty[p]
        /\ \A q \in Passes \ {p} : loaded'[q] = loaded[q] /\ dirty'[q] = dirty[q]
    BY <2>1 DEF TypeOK
  <2>4. \A k \in dirty'[p] : status[k] = "sending"
    BY <2>2, <2>3, DirtyIsSending
  <2>5. \A q \in Passes : \A k \in Flushed(q)' : status[k] = "sending"
    <3>1. Flushed(p)' \subseteq dirty'[p]
      BY DEF Flushed
    <3>2. \A q \in Passes \ {p} : Flushed(q)' = Flushed(q)
      BY <2>3 DEF Flushed
    <3> QED
      BY <2>4, <3>1, <3>2 DEF HeldInv, HeldRows
  <2>6. \A q \in Passes : \A k \in loaded'[q] : status[k] = "sending" => k \in dirty'[q]
    BY <2>3 DEF HeldInv, HeldRows
  <2> QED
    BY <2>2, <2>5, <2>6 DEF HeldInv, HeldRows, ExclusiveClaim
<1>7. ASSUME NEW p \in Passes, Finish(p), expired' \subseteq expired,
             \A m \in Messages \ dirty[p] : status'[m] = status[m]
      PROVE  HeldInv'
  <2>1. ASSUME NEW q \in Passes \ {p}
        PROVE  /\ \A m \in batch[q] : status'[m] = status[m]
               /\ Flushed(q)' = Flushed(q)
               /\ Flushed(q) \subseteq batch[q]
               /\ loaded[q] \subseteq batch[q]
    <3>1. \A m \in batch[q] : m \in Messages \ dirty[p]
      BY DEF HeldInv, ExclusiveClaim, Shape, TypeOK
    <3>2. Flushed(q)' = Flushed(q)
      BY <1>7, FinishClears DEF Flushed
    <3> QED
      BY <1>7, <3>1, <3>2 DEF Shape, Flushed
  <2>2. Flushed(p)' = {}
    BY <1>7, FinishClears DEF Flushed
  <2>3. HeldRows'
    BY <1>7, <2>1, <2>2, FinishClears DEF HeldInv, HeldRows
  <2>4. ExclusiveClaim'
    <3>1. \A q \in Passes : batch'[q] \subseteq batch[q]
      BY <1>7, FinishClears
    <3> QED
      BY <3>1 DEF HeldInv, ExclusiveClaim
  <2> QED
    BY <2>3, <2>4 DEF HeldInv
<1>8. ASSUME NEW p \in Passes, Settle(p) PROVE HeldInv'
  BY <1>7, <1>8 DEF Settle
<1>9. ASSUME NEW p \in Passes, SettleFails(p) \/ Crash(p) PROVE HeldInv'
  BY <1>7, <1>9 DEF SettleFails, Crash, table
<1>10. ASSUME NEW S \in SUBSET Messages, NEW why, Remove(S, why),
              why = "erased" \/ S \cap Held = {}, why # "sending"
       PROVE  HeldInv'
  <2>1. /\ status' = [m \in Messages |-> IF m \in S THEN why ELSE status[m]]
        /\ S \cap Locked = {} /\ expired' \subseteq expired
        /\ UNCHANGED <<batch, loaded, dirty>>
    BY <1>10 DEF Remove, pass
  <2>2. ASSUME NEW q \in Passes
        PROVE  /\ \A m \in batch[q] : status'[m] \in {"sending", "erased"} /\ m \notin expired'
               /\ \A m \in Flushed(q) : status'[m] = "sending"
               /\ \A m \in loaded[q] : status'[m] = "sending" => m \in dirty[q]
    <3>1. batch[q] \subseteq Messages /\ Flushed(q) \subseteq batch[q] /\ loaded[q] \subseteq batch[q]
      BY DEF TypeOK, Shape, Flushed
    <3>2. Flushed(q) \cap S = {} /\ (batch[q] \cap S # {} => why = "erased")
      BY <1>10, <2>1 DEF Locked, Held
    <3>3. ASSUME NEW m \in batch[q] PROVE status'[m] \in {"sending", "erased"} /\ m \notin expired'
      BY <2>1, <3>1, <3>2 DEF HeldInv, HeldRows
    <3>4. \A m \in Flushed(q) : status'[m] = "sending"
      BY <2>1, <3>1, <3>2 DEF HeldInv, HeldRows
    <3>5. \A m \in loaded[q] : status'[m] = "sending" => m \in dirty[q]
      BY <1>10, <2>1, <3>1 DEF HeldInv, HeldRows
    <3> QED
      BY <3>3, <3>4, <3>5
  <2> QED
    BY <2>1, <2>2 DEF HeldInv, HeldRows, ExclusiveClaim, Flushed
<1>11. CASE Purge \/ \E u \in Users : Erase(u)
  BY <1>10, <1>11 DEF Purge, Erase
<1>12. CASE UNCHANGED vars
  BY <1>1, <1>12 DEF vars, table, pass
<1> QED
  BY <1>2, <1>3, <1>4, <1>5, <1>6, <1>8, <1>9, <1>11, <1>12 DEF Next, PassStep

\* So the held rows stay apart in every reachable state.
LEMMA AlwaysHeld ==
  ASSUME ClaimOutlivesDelivery
  PROVE  Spec => []HeldInv
<1>1. TypeInv => TypeOK
  BY DEF TypeInv
<1>2. TypeOK /\ Shape /\ HeldInv /\ [Next]_vars => HeldInv'
  BY StepHeld
<1> QED
  BY <1>1, <1>2, InitHeld, AlwaysTypeInv, AlwaysShape, PTL DEF Spec

\* As long as OUTBOX_CLAIM_TIMEOUT_SECONDS is longer than any pass, two passes
\* never hold the same row, for any number of processes and any batch size.
THEOREM ClaimsAreExclusive ==
  ASSUME ClaimOutlivesDelivery
  PROVE  Spec => []ExclusiveClaim
<1>1. HeldInv => ExclusiveClaim
  BY DEF HeldInv
<1> QED
  BY <1>1, AlwaysHeld, PTL

-----------------------------------------------------------------------------
(* Duplicates.                                                              *)

\* Nothing is owed to VK's answer yet: every accepted copy was a doubt.
AllDoubted(m) == copies[m] <= doubts[m]

CopiesInv ==
  /\ DuplicatesExplained
  /\ \A p \in Passes : \A m \in batch[p] : verdict[p][m] # "ok" => AllDoubted(m)
  /\ \A m \in Messages :
       (\A p \in Passes : m \notin batch[p]) /\ status[m] \in {"none", "pending", "sending"}
         => AllDoubted(m)

\* No copy exists at the start.
LEMMA InitCopies == Init => CopiesInv
  BY DEF Init, CopiesInv, DuplicatesExplained, AllDoubted

\* If claims outlive passes, no step makes an unexplained copy.
LEMMA StepCopies ==
  ASSUME ClaimOutlivesDelivery
  PROVE  TypeOK /\ TypeOK' /\ Shape /\ HeldInv /\ CopiesInv /\ [Next]_vars => CopiesInv'
<1> SUFFICES ASSUME TypeOK, TypeOK', Shape, HeldInv, CopiesInv, [Next]_vars PROVE CopiesInv'
  OBVIOUS
<1>1. ASSUME UNCHANGED <<batch, verdict, copies, doubts>>,
             \A m \in Messages : status'[m] \in {"none", "pending", "sending"} =>
                                status[m] \in {"none", "pending", "sending"}
      PROVE  CopiesInv'
  BY <1>1 DEF CopiesInv, DuplicatesExplained, AllDoubted
<1>2. ASSUME NEW p \in Passes, Claim(p) PROVE CopiesInv'
  <2>1. PICK T \in SUBSET Claimable :
          /\ status' = [m \in Messages |-> IF m \in T THEN "sending"
                                          ELSE IF m \in StaleClaims THEN "pending"
                                          ELSE status[m]]
          /\ batch' = [batch EXCEPT ![p] = T]
    BY <1>2 DEF Claim
  <2>2. batch[p] = {} /\ UNCHANGED <<verdict, copies, doubts>>
    BY <1>2 DEF Claim, history
  <2>3. batch'[p] = T /\ \A q \in Passes \ {p} : batch'[q] = batch[q]
    BY <2>1 DEF TypeOK
  <2>4. \A m \in Claimable : AllDoubted(m)
    BY ClaimableIsFree DEF CopiesInv
  <2>5. ASSUME NEW m \in Messages, m \notin Claimable PROVE status'[m] = status[m]
    BY <2>1, <2>5 DEF Claimable
  <2>6. \A q \in Passes : \A m \in batch'[q] : verdict[q][m] # "ok" => AllDoubted(m)
    BY <2>3, <2>4 DEF CopiesInv
  <2>7. ASSUME NEW m \in Messages, \A q \in Passes : m \notin batch'[q],
               status'[m] \in {"none", "pending", "sending"}
        PROVE  AllDoubted(m)
    <3>1. \A q \in Passes : m \notin batch[q]
      BY <2>2, <2>3, <2>7
    <3> QED
      BY <2>4, <2>5, <2>7, <3>1 DEF CopiesInv
  <2> QED
    BY <2>2, <2>6, <2>7 DEF CopiesInv, DuplicatesExplained, AllDoubted
<1>3. ASSUME NEW p \in Passes, Send(p) PROVE CopiesInv'
  <2>1. PICK m \in Messages :
          /\ m \in batch[p]
          /\ verdict[p][m] = "none"
          /\ \A q \in Passes, k \in Messages : q # p \/ k # m => verdict'[q][k] = verdict[q][k]
          /\ \A k \in Messages \ {m} : copies'[k] = copies[k] /\ doubts'[k] = doubts[k]
          /\ \/ /\ verdict'[p][m] = "ok"
                /\ copies'[m] = copies[m] + 1 /\ doubts'[m] = doubts[m]
             \/ /\ verdict'[p][m] = "failed"
                /\ copies'[m] = copies[m] + 1 /\ doubts'[m] = doubts[m] + 1
             \/ /\ verdict'[p][m] = "failed"
                /\ copies'[m] = copies[m] /\ doubts'[m] = doubts[m]
    BY <1>3, SendEffect
  <2>2. UNCHANGED <<status, batch>>
    BY <1>3 DEF Send, table
  <2>3. AllDoubted(m) /\ copies[m] \in Nat /\ doubts[m] \in Nat
    BY <2>1 DEF CopiesInv, TypeOK
  <2>4. copies'[m] <= 1 + doubts'[m] /\ (verdict'[p][m] # "ok" => AllDoubted(m)')
    BY <2>1, <2>3 DEF AllDoubted
  <2>5. \A q \in Passes \ {p} : m \notin batch[q]
    BY <2>1 DEF HeldInv, ExclusiveClaim
  <2>6. \A k \in Messages \ {m} : AllDoubted(k)' <=> AllDoubted(k)
    BY <2>1 DEF AllDoubted
  <2>7. DuplicatesExplained'
    BY <2>1, <2>4 DEF CopiesInv, DuplicatesExplained
  <2>8. ASSUME NEW q \in Passes, NEW k \in batch[q], verdict'[q][k] # "ok"
        PROVE  AllDoubted(k)'
    <3>1. k \in Messages
      BY DEF TypeOK
    <3>2. CASE k = m
      BY <2>4, <2>5, <2>8, <3>2
    <3>3. CASE k # m
      BY <2>1, <2>6, <2>8, <3>1, <3>3 DEF CopiesInv
    <3> QED
      BY <3>2, <3>3
  <2>9. ASSUME NEW k \in Messages, \A q \in Passes : k \notin batch[q],
               status[k] \in {"none", "pending", "sending"}
        PROVE  AllDoubted(k)'
    BY <2>1, <2>6, <2>9 DEF CopiesInv
  <2> QED
    BY <2>2, <2>7, <2>8, <2>9 DEF CopiesInv
<1>4. ASSUME NEW p \in Passes, LoadRow(p) PROVE CopiesInv'
  BY <1>1, <1>4 DEF LoadRow, table, history
<1>5. ASSUME NEW p \in Passes, Finish(p), UNCHANGED copies,
             \A m \in Messages : doubts'[m] >= doubts[m],
             \A m \in Messages \ batch[p] : status'[m] = status[m],
             \A m \in batch[p] : status'[m] \in {"none", "pending", "sending"} => AllDoubted(m)'
      PROVE  CopiesInv'
  <2>1. \A m \in Messages : AllDoubted(m) => AllDoubted(m)'
    BY <1>5 DEF AllDoubted, TypeOK
  <2>2. DuplicatesExplained'
    BY <1>5 DEF CopiesInv, DuplicatesExplained, TypeOK
  <2>3. ASSUME NEW q \in Passes, NEW m \in batch'[q], verdict'[q][m] # "ok"
        PROVE  AllDoubted(m)'
    <3>1. m \in Messages
      BY DEF TypeOK
    <3> QED
      BY <1>5, <2>1, <2>3, <3>1, FinishClears DEF CopiesInv
  <2>4. ASSUME NEW m \in Messages, \A q \in Passes : m \notin batch'[q],
               status'[m] \in {"none", "pending", "sending"}
        PROVE  AllDoubted(m)'
    <3>1. CASE m \in batch[p]
      BY <1>5, <2>4, <3>1
    <3>2. CASE m \notin batch[p]
      BY <1>5, <2>1, <2>4, <3>2, FinishClears DEF CopiesInv
    <3> QED
      BY <3>1, <3>2
  <2> QED
    BY <2>2, <2>3, <2>4 DEF CopiesInv
<1>6. ASSUME NEW p \in Passes, Settle(p) PROVE CopiesInv'
  <2>1. \A m \in Messages : status'[m] = IF m \in dirty[p] THEN Outcome(p, m) ELSE status[m]
    BY <1>6 DEF Settle
  <2>2. Finish(p) /\ UNCHANGED <<copies, doubts>> /\ loaded[p] = batch[p]
    BY <1>6 DEF Settle, history
  <2>3. ASSUME NEW m \in batch[p], status'[m] \in {"none", "pending", "sending"}
        PROVE  AllDoubted(m)'
    <3>1. m \in Messages
      BY DEF TypeOK
    <3>2. m \in dirty[p] \/ status[m] = "erased"
      BY <2>2 DEF HeldInv, HeldRows
    <3>3. verdict[p][m] # "ok"
      BY <2>1, <2>3, <3>1, <3>2 DEF Outcome
    <3> QED
      BY <2>2, <3>3 DEF CopiesInv, AllDoubted
  <2>4. \A m \in Messages \ batch[p] : status'[m] = status[m]
    BY <2>1 DEF Shape
  <2>5. \A m \in Messages : doubts'[m] >= doubts[m]
    BY <2>2 DEF TypeOK
  <2> QED
    BY <1>5, <2>2, <2>3, <2>4, <2>5
<1>7. ASSUME NEW p \in Passes, SettleFails(p) \/ Crash(p) PROVE CopiesInv'
  <2>1. Finish(p) /\ UNCHANGED <<status, copies>>
    BY <1>7 DEF SettleFails, Crash, table
  <2>2. \A m \in Messages : doubts'[m] = doubts[m] + IF verdict[p][m] = "ok" THEN 1 ELSE 0
    BY <1>7 DEF SettleFails, Crash, ForgetSuccesses
  <2>3. \A m \in Messages : copies[m] \in Nat /\ doubts[m] \in Nat /\ copies[m] <= 1 + doubts[m]
    BY DEF CopiesInv, DuplicatesExplained, TypeOK
  <2>4. ASSUME NEW m \in batch[p] PROVE AllDoubted(m)'
    <3>1. m \in Messages
      BY DEF TypeOK
    <3>2. CASE verdict[p][m] = "ok"
      BY <2>1, <2>2, <2>3, <3>1, <3>2 DEF AllDoubted
    <3>3. CASE verdict[p][m] # "ok"
      BY <2>1, <2>2, <2>3, <3>1, <3>3 DEF AllDoubted, CopiesInv
    <3> QED
      BY <3>2, <3>3
  <2>5. \A m \in Messages : doubts'[m] >= doubts[m]
    BY <2>2, <2>3
  <2> QED
    BY <1>5, <2>1, <2>4, <2>5
<1>8. ASSUME NEW S, NEW why \in Gone, Remove(S, why) PROVE CopiesInv'
  BY <1>1, <1>8 DEF Remove, pass, history, Gone
<1>9. CASE Purge \/ \E u \in Users : Erase(u)
  BY <1>8, <1>9 DEF Purge, Erase, Gone
<1>10. CASE \E m \in Messages : AddMessage(m) \/ ClaimExpires(m)
  BY <1>1, <1>10 DEF AddMessage, ClaimExpires, pass, history, TypeOK
<1>11. CASE UNCHANGED vars
  BY <1>1, <1>11 DEF vars, table, pass, history
<1> QED
  BY <1>2, <1>3, <1>4, <1>6, <1>7, <1>9, <1>10, <1>11 DEF Next, PassStep

\* So every copy is explained in every reachable state.
LEMMA AlwaysCopies ==
  ASSUME ClaimOutlivesDelivery
  PROVE  Spec => []CopiesInv
<1>1. TypeInv => TypeOK
  BY DEF TypeInv
<1>2. TypeOK /\ TypeOK' /\ Shape /\ HeldInv /\ CopiesInv /\ [Next]_vars => CopiesInv'
  BY StepCopies
<1>3. Spec => []HeldInv
  BY AlwaysHeld
<1> QED
  BY <1>1, <1>2, <1>3, InitCopies, AlwaysTypeInv, AlwaysShape, PTL DEF Spec

\* As long as claims outlive passes, a message reaches its addressee twice only
\* if VK's acceptance of an earlier copy was never learnt or never stored.
THEOREM DuplicatesAreExplained ==
  ASSUME ClaimOutlivesDelivery
  PROVE  Spec => []DuplicatesExplained
<1>1. CopiesInv => DuplicatesExplained
  BY DEF CopiesInv
<1> QED
  BY <1>1, AlwaysCopies, PTL

-----------------------------------------------------------------------------
(* The outbox implements module Delivery.                                   *)

StageMap == [m \in Messages |-> StageOf[status[m]]]

\* The stage of each status, written out.
LEMMA StagesOf ==
  /\ StageOf["none"] = "absent"
  /\ StageOf["pending"] = "owed"
  /\ StageOf["sending"] = "owed"
  /\ StageOf["sent"] = "settled"
  /\ StageOf["purged"] = "settled"
  /\ StageOf["failed"] = "givenUp"
  /\ StageOf["erased"] = "withdrawn"
  BY DEF StageOf

\* The initial states are initial states of the promise.
LEMMA InitImplements == Init => Promise!Init
  BY StagesOf DEF Init, Promise!Init

\* A step maps to a step of Delivery or changes nothing there.
LEMMA StepImplements ==
  ASSUME ClaimOutlivesDelivery
  PROVE  TypeOK /\ TypeOK' /\ Shape /\ HeldInv /\ DeliveredInv /\ [Next]_vars
           => [Promise!Next]_<<StageMap, {m \in Messages : copies[m] > 0}>>
<1> SUFFICES ASSUME TypeOK, TypeOK', Shape, HeldInv, DeliveredInv, [Next]_vars
             PROVE  [Promise!Next]_<<StageMap, {m \in Messages : copies[m] > 0}>>
  OBVIOUS
<1> DEFINE reached == {m \in Messages : copies[m] > 0}
<1>1. ASSUME UNCHANGED copies, \A m \in Messages : StageOf[status'[m]] = StageOf[status[m]]
      PROVE  UNCHANGED <<StageMap, reached>>
  BY <1>1 DEF StageMap
<1>2. ASSUME NEW m \in Messages, AddMessage(m) PROVE Promise!Accept(m)
  BY <1>2, StagesOf DEF AddMessage, history, TypeOK, Promise!Accept, Promise!Move
<1>3. ASSUME NEW m \in Messages, ClaimExpires(m) PROVE UNCHANGED <<StageMap, reached>>
  BY <1>1, <1>3 DEF ClaimExpires, history
<1>4. ASSUME NEW p \in Passes, Claim(p) PROVE UNCHANGED <<StageMap, reached>>
  <2>1. PICK T \in SUBSET Claimable :
          status' = [m \in Messages |-> IF m \in T THEN "sending"
                                       ELSE IF m \in StaleClaims THEN "pending"
                                       ELSE status[m]]
    BY <1>4 DEF Claim
  <2>2. \A m \in Messages : StageOf[status'[m]] = StageOf[status[m]]
    BY <2>1, ClaimableIsFree, StagesOf DEF Claimable
  <2> QED
    BY <1>1, <1>4, <2>2 DEF Claim, history
<1>5. ASSUME NEW p \in Passes, Send(p)
      PROVE  \E m \in Messages : Promise!Reach(m) \/ UNCHANGED <<StageMap, reached>>
  <2>1. PICK m \in Messages :
          /\ m \in batch[p]
          /\ \A k \in Messages \ {m} : copies'[k] = copies[k]
          /\ copies'[m] = copies[m] \/ copies'[m] = copies[m] + 1
    BY <1>5, SendEffect
  <2>2. status' = status /\ copies[m] \in Nat
    BY <1>5 DEF Send, table, TypeOK
  <2>3. reached' = reached \/ reached' = reached \cup {m}
    <3>1. CASE copies'[m] = copies[m]
      BY <2>1, <3>1
    <3>2. CASE copies'[m] = copies[m] + 1
      BY <2>1, <2>2, <3>2
    <3> QED
      BY <2>1, <3>1, <3>2
  <2>4. StageOf[status[m]] \in {"owed", "withdrawn"}
    BY <2>1, StagesOf DEF HeldInv, HeldRows
  <2> QED
    BY <2>2, <2>3, <2>4 DEF StageMap, Promise!Reach
<1>6. ASSUME NEW p \in Passes, Settle(p) PROVE Promise!Conclude
  <2>1. status' = [m \in Messages |-> IF m \in dirty[p] THEN Outcome(p, m) ELSE status[m]]
    BY <1>6 DEF Settle
  <2>2. \A m \in dirty[p] : m \in Messages /\ status[m] = "sending"
    BY <1>6, DirtyIsSending DEF Settle
  <2> DEFINE done == {m \in dirty[p] : Outcome(p, m) = "sent"}
             lost == {m \in dirty[p] : Outcome(p, m) = "failed"}
  <2>3. done \in SUBSET Promise!Owed /\ lost \in SUBSET Promise!Owed
    BY <2>2, StagesOf DEF Promise!Owed
  <2>4. done \subseteq reached
    <3> SUFFICES ASSUME NEW m \in done PROVE copies[m] > 0
      BY <2>2
    <3>1. m \in Messages /\ verdict[p][m] = "ok"
      BY <2>2 DEF Outcome
    <3> QED
      BY <3>1 DEF DeliveredInv, SuccessesAreReal, TypeOK
  <2>5. \A m \in Messages : StageOf[status'[m]] = IF m \in done THEN "settled"
                                               ELSE IF m \in lost THEN "givenUp"
                                               ELSE StageOf[status[m]]
    <3> SUFFICES ASSUME NEW m \in Messages
                 PROVE  StageOf[status'[m]] = IF m \in done THEN "settled"
                                             ELSE IF m \in lost THEN "givenUp"
                                             ELSE StageOf[status[m]]
      OBVIOUS
    <3>1. CASE m \in dirty[p]
      BY <2>1, <2>2, <3>1, StagesOf DEF Outcome
    <3>2. CASE m \notin dirty[p]
      BY <2>1, <3>2
    <3> QED
      BY <3>1, <3>2
  <2>6. StageMap' = [m \in Messages |-> IF m \in done THEN "settled"
                                       ELSE IF m \in lost THEN "givenUp"
                                       ELSE StageMap[m]]
    BY <2>5 DEF StageMap
  <2>7. UNCHANGED reached
    BY <1>6 DEF Settle, history
  <2>8. done \cap lost = {}
    OBVIOUS
  <2> QED
    BY <2>3, <2>4, <2>6, <2>7, <2>8 DEF Promise!Conclude, StageMap
<1>7. ASSUME NEW p \in Passes, LoadRow(p) \/ SettleFails(p) \/ Crash(p)
      PROVE  UNCHANGED <<StageMap, reached>>
  BY <1>1, <1>7 DEF LoadRow, SettleFails, Crash, table, history
<1>8. ASSUME NEW u \in Users, Erase(u) PROVE Promise!Withdraw
  <2> DEFINE S == {m \in Messages : Owner[m] = u /\ status[m] \notin Gone \cup {"none"}}
  <2>1. Remove(S, "erased")
    BY <1>8 DEF Erase
  <2>2. S \in SUBSET {m \in Messages : StageMap[m] # "absent"}
    BY StagesOf DEF StageMap, TypeOK, Statuses, Gone
  <2>3. StageMap' = [m \in Messages |-> IF m \in S THEN "withdrawn" ELSE StageMap[m]]
    BY <2>1, StagesOf DEF Remove, StageMap
  <2>4. UNCHANGED reached
    BY <2>1 DEF Remove, history
  <2> QED
    BY <2>2, <2>3, <2>4 DEF Promise!Withdraw, Promise!Move, StageMap
<1>9. ASSUME Purge PROVE UNCHANGED <<StageMap, reached>>
  <2>1. PICK S \in SUBSET {m \in Messages : status[m] = "sent"} : Remove(S, "purged")
    BY <1>9 DEF Purge
  <2>2. \A m \in Messages : StageOf[status'[m]] = StageOf[status[m]]
    BY <2>1, StagesOf DEF Remove
  <2> QED
    BY <1>1, <2>1, <2>2 DEF Remove, history
<1>10. CASE UNCHANGED vars
  BY <1>1, <1>10 DEF vars, table, history
<1> QED
  BY <1>2, <1>3, <1>4, <1>5, <1>6, <1>7, <1>8, <1>9, <1>10
  DEF Next, PassStep, Promise!Next, StageMap

\* As long as claims outlive passes the outbox implements the abstract promise:
\* nothing settles that VK never took, nothing settled is owed again, and only
\* the addressee's erasure withdraws a message.
THEOREM OutboxKeepsPromise ==
  ASSUME ClaimOutlivesDelivery
  PROVE  Spec => KeepsPromise
<1>1. TypeInv => TypeOK
  BY DEF TypeInv
<1>2. TypeOK /\ TypeOK' /\ Shape /\ HeldInv /\ DeliveredInv /\ [Next]_vars
        => [Promise!Next]_<<StageMap, {m \in Messages : copies[m] > 0}>>
  BY StepImplements
<1>3. Spec => []HeldInv
  BY AlwaysHeld
<1>4. Spec => []DeliveredInv
  BY <1>1, InitDelivered, StepDelivered, AlwaysTypeInv, PTL DEF Spec
<1>5. Spec => []TypeOK /\ []Shape
  BY <1>1, AlwaysTypeInv, AlwaysShape, PTL
<1> QED
  BY <1>2, <1>3, <1>4, <1>5, InitImplements, PTL DEF Spec, KeepsPromise, Promise!Spec, StageMap
=============================================================================
