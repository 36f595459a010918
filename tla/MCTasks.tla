------------------------------ MODULE MCTasks ------------------------------
(***************************************************************************)
(* What runs by the clock, checked part by part: the guard that leaves one *)
(* process to run a periodic task, the daily report it guards, and the     *)
(* switches every process re-reads.  The parts share no state, so each     *)
(* behaviour is one of one of them while the others stay as they were.     *)
(***************************************************************************)
EXTENDS TaskGuard, ReportScheduler, Flags

VARIABLE part

taskVars == << part, vars, reportVars, flagVars >>

TasksInit ==
  /\ part \in {"guard", "report", "flags"}
  /\ Init /\ ReportInit /\ FlagsInit
  /\ part # "report" => channels = {}

TasksNext ==
  /\ UNCHANGED part
  /\ \/ part = "guard" /\ Next /\ UNCHANGED << reportVars, flagVars >>
     \/ part = "report" /\ ReportNext /\ UNCHANGED << vars, flagVars >>
     \/ part = "flags" /\ FlagsNext /\ UNCHANGED << vars, reportVars >>

TasksSpec ==
  /\ TasksInit
  /\ [][TasksNext]_taskVars
  /\ \/ part = "guard" /\ Fairness
     \/ part = "report" /\ ReportFairness
     \/ part = "flags" /\ FlagsFairness

\* Every value is of its type.
TasksTypeOK == TypeOK /\ ReportTypeOK /\ FlagsTypeOK
=============================================================================
