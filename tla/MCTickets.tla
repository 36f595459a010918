----------------------------- MODULE MCTickets -----------------------------
(***************************************************************************)
(* What administrators share, checked part by part: the tickets and those  *)
(* who work on them, a browser's session in the panel, the accounts that   *)
(* may manage it, and the bot that watches it.  The parts share no state,  *)
(* so each behaviour is one of one of them while the others stay as they   *)
(* were.                                                                   *)
(***************************************************************************)
EXTENDS Tickets, PanelSessions, AdminAccounts, Monitor, TLC

VARIABLE part

panelVars == << part, vars, sessionVars, accountVars, monitorVars >>

PanelInit ==
  /\ part \in {"tickets", "session", "accounts", "monitor"}
  /\ Init /\ SessionsInit /\ AccountsInit /\ MonitorInit
  /\ part # "accounts" => existing = {}

PanelNext ==
  /\ UNCHANGED part
  /\ \/ part = "tickets" /\ Next /\ UNCHANGED << sessionVars, accountVars, monitorVars >>
     \/ part = "session" /\ SessionsNext /\ UNCHANGED << vars, accountVars, monitorVars >>
     \/ part = "accounts" /\ AccountsNext /\ UNCHANGED << vars, sessionVars, monitorVars >>
     \/ part = "monitor" /\ MonitorNext /\ UNCHANGED << vars, sessionVars, accountVars >>

PanelSpec == PanelInit /\ [][PanelNext]_panelVars

\* Every value is of its type.
PanelTypeOK == TypeOK /\ SessionsTypeOK /\ AccountsTypeOK

\* Clerks, profiles and user names are interchangeable: no definition tells one from another.
Symmetry == Permutations(Clerks) \cup Permutations(People) \cup Permutations(Names)
=============================================================================
