--------------------------- MODULE ReportScheduler ---------------------------
(***************************************************************************)
(* The daily report (core/reporting.py, core/reports/period.py): from      *)
(* REPORT_TIME on a loop sends the report of the day before to every       *)
(* superadministrator in VK and by e-mail, once.  That a report was sent   *)
(* is noted in Redis and in table report_runs; per administrator it is     *)
(* noted in Redis.  An attempt that reaches nobody is repeated, and after  *)
(* the third the report is given up.                                       *)
(*                                                                         *)
(* TaskGuard is the reason why there is one loop.                          *)
(***************************************************************************)
EXTENDS Naturals, FiniteSets

CONSTANTS
  Recipients,   \* superadministrators with a VK id
  LastDay,      \* bound: days
  MaxRetries,   \* max_retries
  MaxMishaps    \* bound: failed sends, outages and crashes

Email == "email"
Channels == Recipients \cup {Email}
Days == 0..LastDay

ASSUME ReportAssumption ==
  /\ Email \notin Recipients
  /\ LastDay \in Nat \ {0} /\ MaxRetries \in Nat \ {0} /\ MaxMishaps \in Nat

VARIABLES
  channels,    \* the recipients and the e-mail that are configured
  day, dueToday,    \* today; has REPORT_TIME passed?
  up,          \* which of "redis" and "db" answer
  runs,        \* report_runs, per day
  marked,      \* oss_bot:report_sent:*
  noted,       \* oss_bot:report_vk_sent:*
  loop,        \* _report_loop and _run_report
  received,    \* history: how often a channel got the report of a day
  mishaps      \* history and bound

reportVars == << channels, day, dueToday, up, runs, marked, noted, loop, received, mishaps >>

Idle(retries) ==
  [at |-> "idle", target |-> 0, retries |-> retries, todo |-> {}, sent |-> FALSE, failed |-> FALSE,
   note |-> {}]

ReportInit ==
  /\ channels \in SUBSET Channels
  /\ day = 1 /\ dueToday = FALSE
  /\ up = {"redis", "db"}
  /\ runs = [d \in Days |-> "none"]
  /\ marked = {} /\ noted = {}
  /\ loop = Idle(0)
  /\ received = [x \in Days \X Channels |-> 0]
  /\ mishaps = 0

Mishap == mishaps < MaxMishaps /\ mishaps' = mishaps + 1

\* is_report_already_sent: what Redis says, else the table, which Redis then learns
Settled(d) == d \in marked \/ runs[d] # "none"

-----------------------------------------------------------------------------
\* The loop finds the report of yesterday due and not sent, and reads the recipients
\* and the tickets; if the database does not answer the iteration ends.
Begin ==
  /\ loop.at = "idle" /\ dueToday
  /\ "db" \in up
  /\ ~Settled(day - 1)
  /\ loop' = [loop EXCEPT !.at = "sending", !.target = day - 1, !.todo = channels]
  /\ UNCHANGED << channels, day, dueToday, up, runs, marked, noted, received, mishaps >>

\* The table knows of the report and Redis does not.
Remember ==
  /\ loop.at = "idle" /\ dueToday
  /\ up = {"redis", "db"} /\ runs[day - 1] # "none" /\ day - 1 \notin marked
  /\ marked' = marked \cup {day - 1}
  /\ UNCHANGED << channels, day, dueToday, up, runs, noted, loop, received, mishaps >>

\* The administrators one after another, then the e-mail.
Turn(c) == c \in loop.todo /\ (c = Email => loop.todo = {Email})

KnownToHave(c) == "redis" \in up /\ <<loop.target, c>> \in noted

Skip(c) ==
  /\ loop.at = "sending" /\ Turn(c) /\ KnownToHave(c)
  /\ loop' = [loop EXCEPT !.todo = @ \ {c}, !.sent = TRUE]
  /\ UNCHANGED << channels, day, dueToday, up, runs, marked, noted, received, mishaps >>

\* send_report_to_vk, send_report_email
SendReport(c) ==
  /\ loop.at = "sending" /\ Turn(c) /\ ~KnownToHave(c)
  /\ \/ /\ loop' = [loop EXCEPT !.todo = @ \ {c}, !.sent = TRUE,
                               !.note = IF c # Email /\ "redis" \in up THEN {c} ELSE {}]
        /\ received' = [received EXCEPT ![<<loop.target, c>>] = @ + 1]
        /\ UNCHANGED mishaps
     \/ /\ Mishap
        /\ loop' = [loop EXCEPT !.todo = @ \ {c}, !.failed = TRUE]
        /\ UNCHANGED received
  /\ loop.note = {}
  /\ UNCHANGED << channels, day, dueToday, up, runs, marked, noted >>

\* The delivery to an administrator is noted in Redis, if it still answers.
Note ==
  /\ loop.note # {}
  /\ noted' = IF "redis" \in up THEN noted \cup ({loop.target} \X loop.note) ELSE noted
  /\ loop' = [loop EXCEPT !.note = {}]
  /\ UNCHANGED << channels, day, dueToday, up, runs, marked, received, mishaps >>

\* Variant with a defect: the table is not written.
MarkInRedis(d, status) ==
  /\ marked' = IF "redis" \in up THEN marked \cup {d} ELSE marked
  /\ UNCHANGED runs

\* Variant with a defect: a report that was given up is not marked.
MarkIfSent(d, status) ==
  /\ marked' = IF "redis" \in up /\ status # "failed" THEN marked \cup {d} ELSE marked
  /\ runs' = IF "db" \in up /\ status # "failed" /\ runs[d] = "none"
             THEN [runs EXCEPT ![d] = status] ELSE runs

\* mark_report_sent: both places, errors of either are logged
Mark(d, status) ==
  /\ marked' = IF "redis" \in up THEN marked \cup {d} ELSE marked
  /\ runs' = IF "db" \in up /\ runs[d] = "none" THEN [runs EXCEPT ![d] = status] ELSE runs

Finished == loop.at = "sending" /\ loop.todo = {} /\ loop.note = {}

Served == loop.sent

Success ==
  /\ Finished /\ Served
  /\ Mark(loop.target, IF loop.failed THEN "partial" ELSE "sent")
  /\ loop' = Idle(0)
  /\ UNCHANGED << channels, day, dueToday, up, noted, received, mishaps >>

Exhausted == loop.retries + 1 >= MaxRetries

\* Nobody was reached: after a delay the loop looks again at what is due, and after the
\* last attempt the report is marked as failed.
Retry ==
  /\ Finished /\ ~Served /\ ~Exhausted
  /\ loop' = Idle(loop.retries + 1)
  /\ UNCHANGED << channels, day, dueToday, up, runs, marked, noted, received, mishaps >>

GiveUpReport ==
  /\ Finished /\ ~Served /\ Exhausted
  /\ Mark(loop.target, "failed")
  /\ loop' = Idle(0)
  /\ UNCHANGED << channels, day, dueToday, up, noted, received, mishaps >>

-----------------------------------------------------------------------------
\* Time, also while reports are sent and retried
ClockMoves ==
  /\ \/ ~dueToday /\ dueToday' = TRUE /\ UNCHANGED day
     \/ dueToday /\ day < LastDay /\ day' = day + 1 /\ dueToday' = FALSE
  /\ UNCHANGED << channels, up, runs, marked, noted, loop, received, mishaps >>

Fail(service) ==
  /\ service \in up /\ Mishap
  /\ up' = up \ {service}
  /\ UNCHANGED << channels, day, dueToday, runs, marked, noted, loop, received >>

Return(service) ==
  /\ service \notin up
  /\ up' = up \cup {service}
  /\ UNCHANGED << channels, day, dueToday, runs, marked, noted, loop, received, mishaps >>

\* The process ends and starts again.
Restart ==
  /\ Mishap
  /\ loop' = Idle(0)
  /\ UNCHANGED << channels, day, dueToday, up, runs, marked, noted, received >>

ReportNext ==
  \/ Begin
  \/ Remember
  \/ \E c \in Channels : Skip(c)
  \/ \E c \in Channels : SendReport(c)
  \/ Note
  \/ Success
  \/ Retry
  \/ GiveUpReport
  \/ ClockMoves
  \/ \E s \in {"redis", "db"} : Fail(s)
  \/ \E s \in {"redis", "db"} : Return(s)
  \/ Restart

\* The clock runs, services come back, and the loop goes on.
ReportFairness ==
  /\ WF_reportVars(ClockMoves) /\ WF_reportVars(Begin) /\ WF_reportVars(Note)
  /\ \A c \in Channels : WF_reportVars(Skip(c)) /\ WF_reportVars(SendReport(c))
  /\ WF_reportVars(Success) /\ WF_reportVars(Retry) /\ WF_reportVars(GiveUpReport)
  /\ \A s \in {"redis", "db"} : WF_reportVars(Return(s))

ReportSpec == ReportInit /\ [][ReportNext]_reportVars

-----------------------------------------------------------------------------
(* Properties.                                                             *)

ReportTypeOK ==
  /\ channels \subseteq Channels
  /\ day \in Days /\ dueToday \in BOOLEAN
  /\ up \subseteq {"redis", "db"}
  /\ runs \in [Days -> {"none", "sent", "partial", "failed"}]
  /\ marked \subseteq Days /\ noted \subseteq Days \X Recipients
  /\ loop.at \in {"idle", "sending"} /\ loop.target \in Days /\ loop.retries \in 0..MaxRetries
  /\ loop.todo \subseteq channels /\ loop.note \subseteq Recipients
  /\ received \in [Days \X Channels -> Nat]
  /\ mishaps \in 0..MaxMishaps

\* Nobody gets a report again and again: each repetition of one has a failed service or
\* a restart of its own, though a report that reached some of the recipients is never
\* completed for the others (core/reporting.py, marking as sent against cyclic spam).
RepeatsHaveCause ==
  \A d \in Days, c \in Channels : received[<<d, c>>] <= 1 + mishaps

\* The report that comes due on the last day is settled in the end, as sent, partial or
\* failed, even if no channel is configured, every attempt fails or services come and go.
LastReportSettles == <>(day = LastDay /\ dueToday) => <>[]Settled(LastDay - 1)
=============================================================================
