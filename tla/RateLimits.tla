----------------------------- MODULE RateLimits -----------------------------
(***************************************************************************)
(* The limits of one address in the web panel: failed logins               *)
(* (web/security/login_rate_limiter.py) and operations that change         *)
(* something (web/security/middleware.py, DBRateLimiter), and the removal  *)
(* of old rows (core/rate_limit_cleanup.py).                               *)
(*                                                                         *)
(* Both limits count rows of the last minutes first and add a row of their *)
(* own later, without a lock; requests overlap and the database or Redis   *)
(* may fail a statement.                                                   *)
(***************************************************************************)
EXTENDS Naturals, Sequences, FiniteSets

CONSTANTS
  MaxFailed,      \* LOGIN_MAX_ATTEMPTS
  MaxOperations,  \* max_requests
  Window,         \* LOGIN_WINDOW_SECONDS, window_seconds
  Retention,      \* LOG_IP_RETENTION_DAYS
  MaxOverlap,     \* bound: requests under way at the same time
  MaxAsked,       \* bound: requests
  MaxFaults,      \* bound: statements that fail
  MaxTime         \* bound: the clock

ASSUME LimitsAssumption ==
  /\ MaxFailed \in Nat \ {0} /\ MaxOperations \in Nat \ {0} /\ Window \in Nat \ {0}
  /\ Retention \in Nat /\ Retention > Window
  /\ MaxOverlap \in Nat \ {0} /\ MaxAsked \in Nat /\ MaxFaults \in Nat /\ MaxTime \in Nat

Slots == 1..MaxOverlap

VARIABLES
  now,
  failed,        \* login_attempts: when each row was written
  operations,    \* crud_attempts
  counter,       \* Redis: failed_login_count, and when it expires
  stage,         \* per slot: where its request is
  asked, faults, \* so far
  judged, admitted   \* history: when passwords were wrong since the last reset; operations let through

limitVars == << now, failed, operations, counter, stage, asked, faults, judged, admitted >>

LimitsInit ==
  /\ now = 0 /\ failed = << >> /\ operations = << >>
  /\ counter = [value |-> 0, until |-> 0]
  /\ stage = [j \in Slots |-> "none"] /\ asked = 0 /\ faults = 0
  /\ judged = << >> /\ admitted = << >>

\* The rows the window counts: the time of a row is compared, no row is locked.
Recent(times) == {k \in DOMAIN times : times[k] + Window >= now}

\* What a purge leaves: the rows are in the order of their times, so that the old ones are the first.
Kept(times) ==
  {SubSeq(times, n + 1, Len(times)) : n \in
     {n \in 0..Len(times) : \A k \in DOMAIN times : k <= n <=> times[k] + Retention < now}}

\* Redis fails the statement, or has forgotten the key.
Fault == faults < MaxFaults /\ faults' = faults + 1
Counted == IF counter.until > now THEN counter.value ELSE 0

\* Variant with a defect: an off-by-one.
LimitedLate(n) == n > MaxFailed
Limited(n) == n >= MaxFailed

GoTo(j, s) == stage' = [stage EXCEPT ![j] = s]
Ask(j) ==
  /\ stage[j] = "none" /\ (\A i \in 1..(j - 1) : stage[i] # "none")
  /\ asked < MaxAsked /\ asked' = asked + 1

-----------------------------------------------------------------------------
\* is_rate_limited: the rows or, if they cannot be read, the counter or, failing that, nothing
BeginLogin(j) ==
  /\ Ask(j) /\ ~Limited(Cardinality(Recent(failed))) /\ GoTo(j, "password")
  /\ UNCHANGED << now, failed, operations, counter, faults, judged, admitted >>

BeginLoginBlind(j) ==
  /\ Ask(j) /\ Fault /\ (\E n \in {Counted, 0} : ~Limited(n)) /\ GoTo(j, "password")
  /\ UNCHANGED << now, failed, operations, counter, judged, admitted >>

\* record_failed_attempt: Redis counts and extends the key ...
WrongPassword(j) ==
  /\ stage[j] = "password" /\ GoTo(j, "record") /\ judged' = Append(judged, now)
  /\ \/ counter' = [value |-> Counted + 1, until |-> now + Window] /\ UNCHANGED faults
     \/ Fault /\ UNCHANGED counter
  /\ UNCHANGED << now, failed, operations, asked, admitted >>

\* ... and the row is added; an error is only logged.
RecordFailed(j) ==
  /\ stage[j] = "record" /\ GoTo(j, "none")
  /\ \/ failed' = Append(failed, now) /\ UNCHANGED faults
     \/ Fault /\ UNCHANGED failed
  /\ UNCHANGED << now, operations, counter, asked, judged, admitted >>

\* clear_attempts: the counter ...
RightPassword(j) ==
  /\ stage[j] = "password" /\ GoTo(j, "clear")
  /\ \/ counter' = [value |-> 0, until |-> 0] /\ UNCHANGED faults
     \/ Fault /\ UNCHANGED counter
  /\ UNCHANGED << now, failed, operations, asked, judged, admitted >>

\* ... and the rows of the address.
ClearFailed(j) ==
  /\ stage[j] = "clear" /\ GoTo(j, "none")
  /\ \/ failed' = << >> /\ judged' = << >> /\ UNCHANGED faults
     \/ Fault /\ UNCHANGED << failed, judged >>
  /\ UNCHANGED << now, operations, counter, asked, admitted >>

-----------------------------------------------------------------------------
\* DBRateLimiter.is_allowed: the rows are counted ...
BeginOperation(j) ==
  /\ Ask(j) /\ Cardinality(Recent(operations)) < MaxOperations /\ GoTo(j, "insert")
  /\ UNCHANGED << now, failed, operations, counter, faults, judged, admitted >>

\* ... and one is added; if that fails, the operation is refused.
CommitOperation(j) ==
  /\ stage[j] = "insert" /\ GoTo(j, "none")
  /\ \E stored \in BOOLEAN :
       /\ IF stored THEN operations' = Append(operations, now) /\ UNCHANGED faults
          ELSE Fault /\ UNCHANGED operations
       /\ admitted' = IF stored THEN Append(admitted, now) ELSE admitted
  /\ UNCHANGED << now, failed, counter, asked, judged >>

\* purge_stale_attempts: each table in a transaction of its own, which may fail
Purge ==
  /\ failed' \in {failed} \cup Kept(failed) /\ operations' \in {operations} \cup Kept(operations)
  /\ UNCHANGED << now, counter, stage, asked, faults, judged, admitted >>

Pass ==
  /\ now < MaxTime /\ now' = now + 1
  /\ UNCHANGED << failed, operations, counter, stage, asked, faults, judged, admitted >>

LimitsNext ==
  \/ \E j \in Slots : BeginLogin(j)
  \/ \E j \in Slots : BeginLoginBlind(j)
  \/ \E j \in Slots : WrongPassword(j)
  \/ \E j \in Slots : RecordFailed(j)
  \/ \E j \in Slots : RightPassword(j)
  \/ \E j \in Slots : ClearFailed(j)
  \/ \E j \in Slots : BeginOperation(j)
  \/ \E j \in Slots : CommitOperation(j)
  \/ Purge
  \/ Pass

LimitsSpec == LimitsInit /\ [][LimitsNext]_limitVars

-----------------------------------------------------------------------------
(* Properties.                                                             *)

\* Every value is of its type; nothing is recorded for the future.
LimitsTypeOK ==
  /\ now \in 0..MaxTime /\ asked \in 0..MaxAsked /\ faults \in 0..MaxFaults
  /\ \A times \in {failed, operations, judged, admitted} : \A k \in DOMAIN times : times[k] \in 0..now
  /\ counter.until \in 0..(MaxTime + Window)
  /\ stage \in [Slots -> {"none", "password", "record", "clear", "insert"}]

\* Every value is of its type.  Within the time of the window no more passwords fail than the limit says, up to the
\* requests that overlap and one for every failed statement; no more operations are let
\* through than the limit says, up to the requests that overlap, whatever fails
\* (web/security/login_rate_limiter.py; web/security/middleware.py: "fail-close").
LimitsHold ==
  /\ LimitsTypeOK
  /\ Cardinality(Recent(judged)) <= MaxFailed + MaxOverlap - 1 + faults
  /\ Cardinality(Recent(admitted)) <= MaxOperations + MaxOverlap - 1
=============================================================================
