------------------------------- MODULE Outbox -------------------------------
(***************************************************************************)
(* The transactional outbox of VK messages (core/outbox.py): the vk_outbox  *)
(* table, the delivery passes that run over it concurrently (the periodic   *)
(* loop of the bot and of every web process, and one more task after every  *)
(* commit that added a message), the erasure of a person's rows and the     *)
(* purge of old delivered rows.                                             *)
(*                                                                          *)
(* One pass is a claim transaction, then one VK request per claimed row     *)
(* with no transaction open, then a transaction that settles the results.   *)
(* That last one loads each row WITHOUT a lock; a row it changed is flushed *)
(* (UPDATE, so locked until the commit) when the next row is loaded.        *)
(*                                                                          *)
(* Rows are numbered in order of created_at.  A row that was deleted keeps  *)
(* the reason as its status, so that properties can speak about it.         *)
(***************************************************************************)
EXTENDS Integers, FiniteSets

CONSTANTS
  Messages,              \* numbers of the rows that may ever be inserted
  Users,                 \* addressees (vk_id)
  Owner,                 \* Owner[m]: the addressee of row m
  Passes,                \* delivery passes that may run at the same time
  BatchSize,             \* OUTBOX_BATCH_SIZE
  MaxAttempts,           \* OUTBOX_MAX_ATTEMPTS
  MaxFaults,             \* bound: crashes and claims that expire too early
  ClaimOutlivesDelivery  \* TRUE: OUTBOX_CLAIM_TIMEOUT_SECONDS is longer than
                         \* any pass, so only an abandoned claim expires

ASSUME OutboxAssumption ==
  /\ Messages \subseteq Nat
  /\ IsFiniteSet(Messages)
  /\ IsFiniteSet(Passes)
  /\ Owner \in [Messages -> Users]
  /\ BatchSize \in Nat \ {0}
  /\ MaxAttempts \in Nat \ {0}
  /\ MaxFaults \in Nat
  /\ ClaimOutlivesDelivery \in BOOLEAN

VARIABLES
  status,    \* VkOutbox.status, "none" before the insert
  attempts,  \* VkOutbox.attempts
  expired,   \* rows whose claimed_at is older than the claim timeout
  batch,     \* to_send of each pass; {} when the pass is not running
  verdict,   \* results of each pass: what send_vk_message returned
  loaded,    \* rows the settling transaction of each pass has loaded
  image,     \* attempts as that transaction read it
  dirty,     \* loaded rows it has changed
  copies,    \* history: copies of the message VK accepted
  tries,     \* history: VK requests made for the message
  doubts,    \* history: accepted copies whose success was lost on the way
  faults     \* history: faults so far

table == <<status, attempts, expired>>
pass == <<batch, verdict, loaded, image, dirty>>
history == <<copies, tries, doubts>>
vars == <<table, pass, history, faults>>

Gone == {"erased", "purged"}
Statuses == {"none", "pending", "sending", "sent", "failed"} \cup Gone
Verdicts == {"none", "ok", "failed"}

Init ==
  /\ status = [m \in Messages |-> "none"]
  /\ attempts = [m \in Messages |-> 0]
  /\ expired = {}
  /\ batch = [p \in Passes |-> {}]
  /\ verdict = [p \in Passes |-> [m \in Messages |-> "none"]]
  /\ loaded = [p \in Passes |-> {}]
  /\ image = [p \in Passes |-> [m \in Messages |-> 0]]
  /\ dirty = [p \in Passes |-> {}]
  /\ copies = [m \in Messages |-> 0]
  /\ tries = [m \in Messages |-> 0]
  /\ doubts = [m \in Messages |-> 0]
  /\ faults = 0

-----------------------------------------------------------------------------
(* Row locks.  A changed row is flushed once a later row was loaded.        *)

Flushed(p) == {m \in dirty[p] : \E k \in loaded[p] : m < k}
Unflushed(p) == dirty[p] \ Flushed(p)
Locked == UNION {Flushed(p) : p \in Passes}
LockedByOthers(p) == UNION {Flushed(q) : q \in Passes \ {p}}

Held == UNION {batch[p] : p \in Passes}

\* add_outbox_message, committed with the change of the ticket.
AddMessage(m) ==
  /\ status[m] = "none"
  /\ \A k \in Messages : k < m => status[k] # "none"
  /\ status' = [status EXCEPT ![m] = "pending"]
  /\ UNCHANGED <<attempts, expired, pass, history, faults>>

-----------------------------------------------------------------------------
(* The claim transaction.  SKIP LOCKED leaves out the rows that a settling  *)
(* transaction has flushed.                                                 *)

\* Variants with a defect: claims in progress are taken back, or none ever is.
AllClaims == {m \in Messages : status[m] = "sending"} \ Locked

NoStaleClaims == {}

StaleClaims == {m \in Messages : status[m] = "sending" /\ m \in expired} \ Locked

Claimable ==
  StaleClaims \cup ({m \in Messages : status[m] = "pending"} \ Locked)

\* The oldest BatchSize rows of S, all of them if they are fewer.
Oldest(S, T) ==
  /\ T \subseteq S
  /\ \A m \in T : \A k \in S \ T : m < k
  /\ IF Cardinality(S) <= BatchSize THEN T = S ELSE Cardinality(T) = BatchSize

\* Variant with a defect: the claimed rows are not marked as being sent.
ClaimUnmarked(p) ==
  /\ batch[p] = {}
  /\ Claimable # {}
  /\ \E T \in SUBSET Claimable : Oldest(Claimable, T) /\ batch' = [batch EXCEPT ![p] = T]
  /\ UNCHANGED <<table, verdict, loaded, image, dirty, history, faults>>

Claim(p) ==
  /\ batch[p] = {}
  /\ Claimable # {}
  /\ \E T \in SUBSET Claimable :
       /\ Oldest(Claimable, T)
       /\ status' = [m \in Messages |-> IF m \in T THEN "sending"
                                         ELSE IF m \in StaleClaims THEN "pending"
                                         ELSE status[m]]
       /\ expired' = expired \ Claimable
       /\ batch' = [batch EXCEPT ![p] = T]
  /\ UNCHANGED <<attempts, verdict, loaded, image, dirty, history, faults>>

-----------------------------------------------------------------------------
(* The requests, one after the other and oldest first.                      *)

Record(p, m, v) == verdict' = [verdict EXCEPT ![p][m] = v]

Send(p) ==
  \E m \in batch[p] :
    /\ verdict[p][m] = "none"
    /\ \A k \in batch[p] : k < m => verdict[p][k] # "none"
    /\ tries' = [tries EXCEPT ![m] = @ + 1]
    /\ \/ \* VK accepts the message and its answer arrives
          /\ Record(p, m, "ok")
          /\ copies' = [copies EXCEPT ![m] = @ + 1]
          /\ UNCHANGED doubts
       \/ \* VK accepts the message, the answer is lost or comes too late
          /\ Record(p, m, "failed")
          /\ copies' = [copies EXCEPT ![m] = @ + 1]
          /\ doubts' = [doubts EXCEPT ![m] = @ + 1]
       \/ \* VK refuses, or cannot be reached
          /\ Record(p, m, "failed")
          /\ UNCHANGED <<copies, doubts>>
    /\ UNCHANGED <<table, batch, loaded, image, dirty, faults>>

-----------------------------------------------------------------------------
(* The settling transaction.                                                *)

AllAnswered(p) == batch[p] # {} /\ \A m \in batch[p] : verdict[p][m] # "none"

\* The rows to flush now exist and no other settling transaction holds them.
CanFlush(p) ==
  /\ Unflushed(p) \cap LockedByOthers(p) = {}
  /\ \A m \in Unflushed(p) : status[m] \notin Gone

\* session.get of the next row: autoflush first, then the read, and the new
\* values are only in memory.  A row that is gone or no longer "sending" is
\* passed over.
LoadRow(p) ==
  \E m \in batch[p] \ loaded[p] :
    /\ AllAnswered(p)
    /\ \A k \in batch[p] : k < m => k \in loaded[p]
    /\ CanFlush(p)
    /\ loaded' = [loaded EXCEPT ![p] = @ \cup {m}]
    /\ IF status[m] = "sending"
       THEN /\ dirty' = [dirty EXCEPT ![p] = @ \cup {m}]
            /\ image' = [image EXCEPT ![p][m] = attempts[m]]
       ELSE UNCHANGED <<dirty, image>>
    /\ UNCHANGED <<table, batch, verdict, history, faults>>

\* Variants with a defect: the limit of attempts is off by one.
GivesUpEarly(n) == n + 1 >= MaxAttempts

GivesUpLate(n) == n > MaxAttempts

GivesUp(n) == n >= MaxAttempts

\* Variant with a defect: the last failure is stored as a success.
OutcomeIgnoringAnswer(p, m) ==
  IF verdict[p][m] = "ok" \/ GivesUp(image[p][m] + 1) THEN "sent" ELSE "pending"

Outcome(p, m) ==
  IF verdict[p][m] = "ok" THEN "sent"
  ELSE IF GivesUp(image[p][m] + 1) THEN "failed"
  ELSE "pending"

\* The pass is over, whatever became of it.
Finish(p) ==
  /\ batch' = [batch EXCEPT ![p] = {}]
  /\ verdict' = [verdict EXCEPT ![p] = [m \in Messages |-> "none"]]
  /\ loaded' = [loaded EXCEPT ![p] = {}]
  /\ image' = [image EXCEPT ![p] = [m \in Messages |-> 0]]
  /\ dirty' = [dirty EXCEPT ![p] = {}]

Settle(p) ==
  /\ batch[p] # {}
  /\ loaded[p] = batch[p]
  /\ CanFlush(p)
  /\ status' = [m \in Messages |-> IF m \in dirty[p] THEN Outcome(p, m) ELSE status[m]]
  /\ attempts' = [m \in Messages |-> IF m \in dirty[p] THEN image[p][m] + 1 ELSE attempts[m]]
  /\ expired' = expired \ dirty[p]
  /\ Finish(p)
  /\ UNCHANGED <<history, faults>>

\* Successes known only to a pass that ends without settling.
ForgetSuccesses(p) ==
  doubts' = [m \in Messages |-> doubts[m] + IF verdict[p][m] = "ok" THEN 1 ELSE 0]

\* The flush finds its row deleted: StaleDataError rolls the whole batch back.
SettleFails(p) ==
  /\ \E m \in Unflushed(p) : status[m] \in Gone
  /\ ForgetSuccesses(p)
  /\ Finish(p)
  /\ UNCHANGED <<table, copies, tries, faults>>

-----------------------------------------------------------------------------
(* The environment: the clock, crashes, erasure, retention.                 *)

\* The process dies or is stopped, or its database connection breaks.
Crash(p) ==
  /\ batch[p] # {}
  /\ faults < MaxFaults
  /\ faults' = faults + 1
  /\ ForgetSuccesses(p)
  /\ Finish(p)
  /\ UNCHANGED <<table, copies, tries>>

\* A claim somebody still holds expires only in a full batch: fifty requests of
\* up to ten seconds each may last longer than the 300 seconds of a claim.
ClaimExpires(m) ==
  /\ status[m] = "sending"
  /\ m \notin expired
  /\ \/ /\ m \notin Held
        /\ UNCHANGED faults
     \/ /\ \E p \in Passes : m \in batch[p] /\ Cardinality(batch[p]) = BatchSize
        /\ ~ClaimOutlivesDelivery
        /\ faults < MaxFaults
        /\ faults' = faults + 1
  /\ expired' = expired \cup {m}
  /\ UNCHANGED <<status, attempts, pass, history>>

Remove(S, why) ==
  /\ S # {}
  /\ S \cap Locked = {}
  /\ status' = [m \in Messages |-> IF m \in S THEN why ELSE status[m]]
  /\ expired' = expired \ S
  /\ UNCHANGED <<attempts, pass, history, faults>>

\* delete_user_personal_data: every row of the person, in any status.
Erase(u) ==
  Remove({m \in Messages : Owner[m] = u /\ status[m] \notin Gone \cup {"none"}}, "erased")

\* Variant with a defect: the purge does not look at the status.
PurgeAnyStatus ==
  \E S \in SUBSET ({m \in Messages : status[m] \notin Gone \cup {"none"}} \ Held) :
    Remove(S, "purged")

\* purge_stale_attempts: delivered rows older than two weeks; no pass lasts
\* that long.
Purge ==
  \E S \in SUBSET ({m \in Messages : status[m] = "sent"} \ Held) :
    /\ \A m \in S : \A k \in Messages : k < m /\ status[k] = "sent" => k \in S
    /\ Remove(S, "purged")

PassStep(p) ==
  \/ Claim(p)
  \/ Send(p)
  \/ LoadRow(p)
  \/ Settle(p)
  \/ SettleFails(p)
  \/ Crash(p)

Next ==
  \/ \E m \in Messages : AddMessage(m) \/ ClaimExpires(m)
  \/ \E p \in Passes : PassStep(p)
  \/ \E u \in Users : Erase(u)
  \/ Purge

Spec == Init /\ [][Next]_vars

\* The loop runs a pass every OUTBOX_INTERVAL_SECONDS; a running pass goes on
\* (requests time out after ten seconds, statements end), and time passes.
\* Inserts, crashes, erasures and purges are not promised to happen.
Fairness ==
  /\ WF_vars(\E p \in Passes : Claim(p))
  /\ \A p \in Passes : WF_vars(Send(p) \/ LoadRow(p) \/ Settle(p) \/ SettleFails(p))
  /\ \A m \in Messages : WF_vars(ClaimExpires(m) /\ m \notin Held)

FairSpec == Spec /\ Fairness

-----------------------------------------------------------------------------
(* Properties.                                                              *)

\* Every variable keeps its type; attempts never passes OUTBOX_MAX_ATTEMPTS
\* (deliver_pending_messages stops retrying there).
TypeOK ==
  /\ status \in [Messages -> Statuses]
  /\ attempts \in [Messages -> 0..MaxAttempts]
  /\ expired \subseteq Messages
  /\ batch \in [Passes -> SUBSET Messages]
  /\ verdict \in [Passes -> [Messages -> Verdicts]]
  /\ loaded \in [Passes -> SUBSET Messages]
  /\ image \in [Passes -> [Messages -> 0..MaxAttempts]]
  /\ dirty \in [Passes -> SUBSET Messages]
  /\ copies \in [Messages -> Nat]
  /\ tries \in [Messages -> Nat]
  /\ doubts \in [Messages -> Nat]
  /\ faults \in 0..MaxFaults

\* A row is marked sent only if VK accepted a copy of the message, however
\* claims, crashes and overlapping settling transactions interleave.
SentMeansDelivered ==
  \A m \in Messages : status[m] = "sent" => copies[m] >= 1

\* A message is given up for good only after OUTBOX_MAX_ATTEMPTS requests were
\* made for it: unlocked read-modify-write may lose attempts, never invent one.
NoEarlyGiveUp ==
  \A m \in Messages : status[m] = "failed" => tries[m] >= MaxAttempts

\* Two running passes never hold the same row: the claim ("sending" under
\* FOR UPDATE SKIP LOCKED) is exclusive as long as claims outlive passes.
ExclusiveClaim ==
  \A p, q \in Passes : p # q => batch[p] \cap batch[q] = {}

\* Every copy of a message after the first one is paid for by an accepted copy
\* whose success was lost (no answer, a crash, a rolled back settlement): the
\* claims themselves never send a message twice.
DuplicatesExplained ==
  \A m \in Messages : copies[m] <= 1 + doubts[m]

\* A message that is owed to somebody is eventually delivered, given up after
\* all attempts, or erased, although passes crash holding it.
EveryMessageSettles ==
  \A m \in Messages :
    status[m] \in {"pending", "sending"} ~> status[m] \in {"sent", "failed"} \cup Gone

StageOf == [none |-> "absent", pending |-> "owed", sending |-> "owed", sent |-> "settled",
            purged |-> "settled", failed |-> "givenUp", erased |-> "withdrawn"]

Promise == INSTANCE Delivery WITH
  stage <- [m \in Messages |-> StageOf[status[m]]],
  reached <- {m \in Messages : copies[m] > 0}

\* The outbox keeps the promise of module Delivery: in particular a settled,
\* given up or withdrawn message never becomes owed again.
KeepsPromise == Promise!Spec
=============================================================================
