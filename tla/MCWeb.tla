------------------------------- MODULE MCWeb -------------------------------
(***************************************************************************)
(* Services of the web processes behind a request, checked part by part:   *)
(* the parts share no state, so each behaviour is one of one of them while *)
(* the others stay in an initial state.  Connections do not influence each *)
(* other, so one of them is open.                                          *)
(***************************************************************************)
EXTENDS AuditQueue, TicketEvents, ComputeCache, PanelContent, RateLimits

VARIABLE part

webVars == << part, vars, eventVars, computeVars, contentVars, limitVars >>

WebInit ==
  /\ part \in {"audit", "events", "compute", "content", "limits"}
  /\ Init /\ EventsInit /\ ComputeInit /\ ContentInit /\ LimitsInit
  /\ Cardinality({v \in Viewers : view[v].at = "new"}) = (IF part = "events" THEN 1 ELSE 0)

WebNext ==
  /\ UNCHANGED part
  /\ \/ part = "audit" /\ Next /\ UNCHANGED << eventVars, computeVars, contentVars, limitVars >>
     \/ part = "events" /\ EventsNext /\ UNCHANGED << vars, computeVars, contentVars, limitVars >>
     \/ part = "compute" /\ ComputeNext /\ UNCHANGED << vars, eventVars, contentVars, limitVars >>
     \/ part = "content" /\ ContentNext /\ UNCHANGED << vars, eventVars, computeVars, limitVars >>
     \/ part = "limits" /\ LimitsNext /\ UNCHANGED << vars, eventVars, computeVars, contentVars >>

WebSpec ==
  /\ WebInit
  /\ [][WebNext]_webVars
  /\ part = "events" => EventsFairness

HomeOfViewers == [v \in Viewers |-> "web"]
=============================================================================
