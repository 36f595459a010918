------------------------------- MODULE Monitor -------------------------------
(***************************************************************************)
(* The monitoring bot in Telegram: its rounds over the containers          *)
(* (bots/telegram/monitor_service.py), the restarts its administrator asks *)
(* for (handlers/containers.py) and the copies of the database             *)
(* (handlers/backup.py).                                                   *)
(*                                                                         *)
(* Containers, Docker and Telegram come and go as they like; the bot waits *)
(* for each of them, and meanwhile it handles the administrator's buttons. *)
(* Of a container's state only whether it is bad matters.                  *)
(***************************************************************************)
EXTENDS Naturals, FiniteSets

CONSTANTS
  Containers,
  Migration,    \* the one that runs once, its name has "migrate" in it
  Own,          \* the bot's own
  BackupEvery,  \* backup_interval_seconds
  FirstBackup,  \* 3600: before the first copy of a bot that has just started
  KeepCopies,   \* BACKUP_RETENTION_DAYS
  MaxHours,     \* bound: the clock
  MaxEvents     \* bound: events in containers, orders and failures

ASSUME MonitorAssumption ==
  /\ Own \in Containers /\ Migration \in Containers /\ Own # Migration
  /\ FirstBackup \in Nat /\ BackupEvery \in Nat /\ FirstBackup < BackupEvery /\ KeepCopies \in Nat
  /\ MaxHours \in Nat /\ MaxEvents \in Nat

Hours == 0..MaxHours
States == {"good", "bad", "done", "absent"}     \* done: Exited (0)
Copiers == {"bot", "administrator"}
NoCopy == [made |-> 0, state |-> "none"]

VARIABLES
  container,    \* what the containers are
  known,        \* _previous_states
  left, seen,   \* of the current round: containers not looked at yet, the list it started with
  planned,      \* _last_backup_time, counted from BackupEvery; 0 is never
  round,        \* "containers", "backup" or "rest"
  restart,      \* containers that a running "restart all" has not come to
  dump,         \* per copier: the hour in the name of the copy it is making, or none
  copy,         \* the files, by the hour in their name
  hour, events,
  told,         \* history: the last news of each container that arrived
  excused,      \* history: news of it was lost, or the bot has forgotten it since
  saved, spoilt \* history: was a copy ever complete; was one overwritten by an incomplete one?

monitorVars == << container, known, left, seen, planned, round, restart, dump, copy, hour, events,
                  told, excused, saved, spoilt >>

MonitorInit ==
  /\ container = [c \in Containers |-> "good"]
  /\ known = [c \in Containers |-> "none"]
  /\ left = {} /\ seen = container /\ planned = 0 /\ round = "rest"
  /\ restart = {}
  /\ dump = [k \in Copiers |-> MaxHours + 1] /\ copy = [h \in Hours |-> NoCopy]
  /\ hour = 0 /\ events = 0
  /\ told = [c \in Containers |-> "nothing"] /\ excused = [c \in Containers |-> FALSE]
  /\ saved = FALSE /\ spoilt = FALSE

Event == events < MaxEvents /\ events' = events + 1
SameCopies == UNCHANGED << planned, dump, copy, saved, spoilt >>
Present == {c \in Containers : container[c] # "absent"}

-----------------------------------------------------------------------------
\* check_all, _check_containers: the list; what is not on it is forgotten
BeginRound ==
  /\ round = "rest" /\ round' = "containers"
  /\ left' = Present /\ seen' = container
  /\ known' = [c \in Containers |-> IF c \in Present THEN known[c] ELSE "none"]
  /\ excused' = [c \in Containers |-> excused[c] \/ (c \notin Present /\ known[c] # "none")]
  /\ UNCHANGED << container, restart, hour, events, told >> /\ SameCopies

\* Docker gives no list, which counts as having no containers.
BeginRoundBlind ==
  /\ round = "rest" /\ round' = "backup" /\ Event
  /\ UNCHANGED << container, known, left, seen, restart, hour, told, excused >> /\ SameCopies

\* An alert is sent once; if Telegram fails, it is gone.
Alert(c, news) ==
  \/ told' = [told EXCEPT ![c] = news] /\ excused' = [excused EXCEPT ![c] = FALSE] /\ UNCHANGED events
  \/ Event /\ excused' = [excused EXCEPT ![c] = TRUE] /\ UNCHANGED told

Believe(c, state) == known' = [known EXCEPT ![c] = state]
Silent == UNCHANGED << told, excused, events >>

Failed(c) == Believe(c, "bad") /\ Alert(c, "failed")

\* Variant with a defect: a recovery is noted but not told.
RecoveredSilently(c) == Believe(c, "good") /\ Silent

Recovered(c) == Believe(c, "good") /\ Alert(c, "recovered")

\* A migration that has ended well is passed over.
Finished(c) == c = Migration /\ seen[c] = "done"

CheckContainer(c) ==
  /\ round = "containers" /\ c \in left /\ left' = left \ {c}
  /\ \/ seen[c] = "bad" /\ known[c] # "bad" /\ Failed(c)
     \/ ~Finished(c) /\ seen[c] # "bad" /\ known[c] = "bad" /\ Recovered(c)
     \/ ~Finished(c) /\ seen[c] # "bad" /\ known[c] = "none" /\ Believe(c, "good") /\ Silent
     \/ /\ Finished(c) \/ (known[c] # "none" /\ (known[c] = "bad" <=> seen[c] = "bad"))
        /\ Silent /\ UNCHANGED known
  /\ UNCHANGED << container, seen, round, restart, hour >> /\ SameCopies

EndContainers ==
  /\ round = "containers" /\ left = {} /\ round' = "backup"
  /\ UNCHANGED << container, known, left, seen, restart, hour, events, told, excused >> /\ SameCopies

-----------------------------------------------------------------------------
\* _check_scheduled_backup: the first call only plans; a copy that fails is not tried
\* again before its time comes anew.
Rests == UNCHANGED << container, known, left, seen, restart, events, hour, told, excused, copy, saved, spoilt >>

PlanFirst ==
  /\ round = "backup" /\ planned = 0 /\ round' = "rest"
  /\ planned' = hour + FirstBackup + 1
  /\ UNCHANGED dump /\ Rests

NotYet ==
  /\ round = "backup" /\ planned # 0 /\ hour + 1 < planned /\ round' = "rest"
  /\ UNCHANGED << planned, dump >> /\ Rests

BeginScheduled ==
  /\ round = "backup" /\ planned # 0 /\ hour + 1 >= planned /\ round' = "copying"
  /\ planned' = hour + BackupEvery + 1
  /\ dump' = [dump EXCEPT !["bot"] = hour]
  /\ Rests

\* cmd_backup
BeginManual ==
  /\ dump["administrator"] \notin Hours /\ Event
  /\ dump' = [dump EXCEPT !["administrator"] = hour]
  /\ UNCHANGED << container, known, left, seen, planned, round, restart, copy, hour, told, excused, saved, spoilt >>

EndCopy(k) ==
  /\ dump[k] \in Hours /\ dump' = [dump EXCEPT ![k] = MaxHours + 1]
  /\ round' = IF k = "bot" THEN "rest" ELSE round
  /\ UNCHANGED << container, known, left, seen, planned, restart, hour, told, excused >>

\* rotate_old_backups
Rotated(files) ==
  [h \in Hours |-> IF files[h].made + KeepCopies < hour THEN NoCopy ELSE files[h]]

\* _save_local_copy: the file is complete, old ones go.
CopyMade(k) ==
  /\ EndCopy(k)
  /\ copy' = Rotated([copy EXCEPT ![dump[k]] = [made |-> hour, state |-> "complete"]])
  /\ saved' = TRUE
  /\ UNCHANGED << events, spoilt >>

\* pg_dump fails, or the file cannot be written to its end and stays as it is.
CopyFails(k) ==
  /\ EndCopy(k) /\ Event
  /\ copy' \in {copy, [copy EXCEPT ![dump[k]] = [made |-> hour, state |-> "partial"]]}
  /\ spoilt' = (spoilt \/ (copy' # copy /\ copy[dump[k]].state = "complete"))
  /\ UNCHANGED saved

-----------------------------------------------------------------------------
\* The bot stops and starts again: what it had in memory is gone.
BotRestarts(afresh) ==
  /\ known' = [c \in Containers |-> "none"] /\ left' = {} /\ planned' = 0 /\ round' = "rest"
  /\ restart' = {} /\ dump' = [k \in Copiers |-> MaxHours + 1]
  /\ excused' = [c \in Containers |-> TRUE]
  /\ container' = IF afresh THEN [container EXCEPT ![Own] = "good"] ELSE container
  /\ UNCHANGED << seen, copy, hour, told, saved, spoilt >>

Crash == Event /\ BotRestarts(TRUE)

\* callback_restart_single; the container may come up or stay bad
RestartSingle(c) ==
  /\ Event /\ container[c] # "absent"
  /\ IF c = Own THEN BotRestarts(TRUE)
     ELSE /\ \E state \in {"good", "bad"} : container' = [container EXCEPT ![c] = state]
          /\ UNCHANGED << known, left, seen, planned, round, restart, dump, copy, hour, told, excused, saved, spoilt >>

\* callback_restart_all: all but the migration, the bot's own included, and
\* callback_reboot_confirm: all but the bot's own
RestartAll(spared) ==
  /\ Event /\ restart = {} /\ restart' = {c \in Present : c # spared}
  /\ UNCHANGED << container, known, left, seen, planned, round, dump, copy, hour, told, excused, saved, spoilt >>

RestartNext(c) ==
  /\ c \in restart
  /\ IF c = Own THEN BotRestarts(TRUE)
     ELSE /\ restart' = restart \ {c}
          /\ \E state \in {"good", "bad", container[c]} : container' = [container EXCEPT ![c] = state]
          /\ UNCHANGED << known, left, seen, planned, round, dump, copy, hour, told, excused, saved, spoilt >>
  /\ UNCHANGED events

\* A container fails, recovers, ends or is removed and created anew.
Changes(c, state) ==
  /\ Event /\ c # Own /\ container[c] # state
  /\ container' = [container EXCEPT ![c] = state]
  /\ UNCHANGED << known, left, seen, planned, round, restart, dump, copy, hour, told, excused, saved, spoilt >>

HourPasses ==
  /\ hour < MaxHours /\ hour' = hour + 1
  /\ UNCHANGED << container, known, left, seen, planned, round, restart, dump, copy, events, told, excused, saved, spoilt >>

MonitorNext ==
  \/ BeginRound
  \/ BeginRoundBlind
  \/ \E c \in Containers : CheckContainer(c)
  \/ EndContainers
  \/ PlanFirst
  \/ NotYet
  \/ BeginScheduled
  \/ BeginManual
  \/ \E k \in Copiers : CopyMade(k)
  \/ \E k \in Copiers : CopyFails(k)
  \/ Crash
  \/ \E c \in Containers : RestartSingle(c)
  \/ \E spared \in {Migration, Own} : RestartAll(spared)
  \/ \E c \in Containers : RestartNext(c)
  \/ \E c \in Containers, state \in States : Changes(c, state)
  \/ HourPasses

MonitorSpec == MonitorInit /\ [][MonitorNext]_monitorVars

-----------------------------------------------------------------------------
(* Properties.                                                             *)

MonitorTypeOK ==
  /\ container \in [Containers -> States] /\ seen \in [Containers -> States]
  /\ known \in [Containers -> {"none", "good", "bad"}]
  /\ left \subseteq Containers /\ restart \subseteq Containers
  /\ round \in {"rest", "containers", "backup", "copying"}
  /\ planned \in 0..(MaxHours + BackupEvery + 1)
  /\ dump \in [Copiers -> 0..(MaxHours + 1)]
  /\ copy \in [Hours -> [made : Hours, state : {"none", "partial", "complete"}]]
  /\ hour \in Hours /\ events \in 0..MaxEvents
  /\ told \in [Containers -> {"nothing", "failed", "recovered"}]
  /\ excused \in [Containers -> BOOLEAN]
  /\ saved \in BOOLEAN /\ spoilt \in BOOLEAN

\* The last news of a container that reached the administrator is what the bot believes of
\* it, unless Telegram lost some or the bot was restarted or missed the container on a list.
AdministratorKnows ==
  \A c \in Containers :
    known[c] # "none" /\ ~excused[c] => (known[c] = "bad" <=> told[c] = "failed")

\* Once there is a complete copy there always is one, unless a copy of the same second that
\* fails is written over it: rotation follows a new copy and never takes the last.
CopyRemains ==
  saved /\ ~spoilt => \E h \in Hours : copy[h].state = "complete"

\* Every value is of its type, the administrators know what the bot believes, and a copy
\* remains (bots/telegram/monitor_service.py, _check_containers; bots/telegram/handlers/backup.py,
\* _save_local_copy, rotate_old_backups)
MonitorSound == MonitorTypeOK /\ AdministratorKnows /\ CopyRemains
=============================================================================
