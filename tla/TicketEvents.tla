---------------------------- MODULE TicketEvents ----------------------------
(***************************************************************************)
(* How a change of a ticket reaches the open pages of the panel            *)
(* (core/events.py, web/routes/sse.py).  notify_ticket_change sets the     *)
(* event of every connection of its own process and starts a task that     *)
(* deletes the cached counters and publishes to a Redis channel, on which  *)
(* a listener of every web process sets the events there.  A connection    *)
(* sends what it reads from the database when its event is set; a stream   *)
(* also every three seconds, a socket only then.  Pages show counters that *)
(* are cached for five seconds (web/middleware_setup.py).                  *)
(*                                                                         *)
(* What is read is abstracted to the number of changes committed before.   *)
(***************************************************************************)
EXTENDS Naturals

CONSTANTS
  Servers,      \* processes: the web workers and the bot
  Streams,      \* connections to /stream
  Sockets,      \* connections to /ws
  Home,         \* the worker that serves a connection
  MaxChanges,   \* bound: changes of tickets
  MaxBreaks     \* bound: failures of Redis and of reads

Viewers == Streams \cup Sockets

\* The web workers; only they listen to the channel.
WebWorkers == {Home[v] : v \in Viewers}

ASSUME EventsAssumption ==
  /\ Streams \cap Sockets = {}
  /\ Home \in [Viewers -> Servers]
  /\ MaxChanges \in Nat /\ MaxBreaks \in Nat

VARIABLES
  latest,       \* number of changes committed
  handler,      \* per process: a handler between its commit and its notification
  publishing,   \* _background_tasks: publications not finished
  listening,    \* per process: is the listener subscribed to the channel?
  inbox,        \* per process: messages of the channel not handled yet
  heard,        \* history: what was committed when a process last set its events
  view,         \* per connection: where it is, its event, what it shows
  cached,       \* notif_counts:*, empty or the state that was counted
  page,         \* the state that a page has counted and not cached yet
  attempts,     \* bound: handlers that change a ticket
  breaks        \* bound

eventVars ==
  << latest, handler, publishing, listening, inbox, heard, view, cached, page, attempts, breaks >>

Views == [at : {"new", "reading", "sending", "waiting", "gone"},
          event : BOOLEAN, shown : Nat, failed : BOOLEAN]

EventsInit ==
  /\ latest = 0
  /\ handler = [p \in Servers |-> "idle"]
  /\ publishing = 0
  /\ listening = [p \in Servers |-> p \in WebWorkers]
  /\ inbox = [p \in Servers |-> 0]
  /\ heard = [p \in Servers |-> 0]
  /\ view \in [Viewers -> {[at |-> place, event |-> FALSE, shown |-> 0, failed |-> FALSE] :
                             place \in {"new", "gone"}}]
  /\ cached = {} /\ page = {}
  /\ attempts = 0 /\ breaks = 0

-----------------------------------------------------------------------------
(* Notification.                                                           *)

Subscribed(v) == view[v].at \notin {"new", "gone"}

\* trigger_sse_update: the events of all connections of the process
Trigger(p) ==
  /\ view' = [v \in Viewers |->
               IF Home[v] = p /\ Subscribed(v) THEN [view[v] EXCEPT !.event = TRUE] ELSE view[v]]
  /\ heard' = [heard EXCEPT ![p] = latest]

\* notify_ticket_change
Notify(p) ==
  /\ Trigger(p)
  /\ publishing' = publishing + 1
  /\ UNCHANGED << listening, inbox, cached, page, breaks >>

Handler(p, from, to) ==
  /\ handler[p] = from
  /\ handler' = [handler EXCEPT ![p] = to]

Attempt == attempts < MaxChanges /\ attempts' = attempts + 1

Commits ==
  /\ latest' = latest + 1
  /\ UNCHANGED << publishing, listening, inbox, heard, view, cached, page, breaks >>

\* The ticket services commit and then notify.
CommitFirst(p) == Handler(p, "idle", "committed") /\ Attempt /\ Commits
NotifyAfter(p) == Handler(p, "committed", "idle") /\ Notify(p) /\ UNCHANGED << latest, attempts >>

\* The recording of a reply of the community notifies inside its transaction, which
\* then commits or is rolled back.
NotifyFirst(p) ==
  /\ Handler(p, "idle", "notified")
  /\ Attempt
  /\ Notify(p)
  /\ UNCHANGED latest
CommitAfter(p) ==
  /\ Handler(p, "notified", "idle") /\ UNCHANGED attempts
  /\ \/ Commits
     \/ UNCHANGED << latest, publishing, listening, inbox, heard, view, cached, page, breaks >>

Break == breaks < MaxBreaks /\ breaks' = breaks + 1

\* _publish_ticket_change_to_redis
Publish ==
  /\ publishing > 0
  /\ publishing' = publishing - 1
  /\ \/ /\ cached' = {}
        /\ inbox' = [p \in Servers |-> IF listening[p] THEN inbox[p] + 1 ELSE inbox[p]]
        /\ UNCHANGED breaks
     \/ Break /\ cached' \in {{}, cached} /\ UNCHANGED inbox
  /\ UNCHANGED << latest, handler, listening, heard, view, page, attempts >>

-----------------------------------------------------------------------------
(* The listener of a worker.                                               *)

Deliver(p) ==
  /\ inbox[p] > 0
  /\ inbox' = [inbox EXCEPT ![p] = @ - 1]
  /\ Trigger(p)
  /\ UNCHANGED << latest, handler, publishing, listening, cached, page, breaks, attempts >>

\* The connection breaks: what was not handled is lost, and what is published until
\* the listener is subscribed again.
Disconnect(p) ==
  /\ listening[p] /\ Break
  /\ listening' = [listening EXCEPT ![p] = FALSE]
  /\ inbox' = [inbox EXCEPT ![p] = 0]
  /\ UNCHANGED << latest, handler, publishing, heard, view, cached, page, attempts >>

Reconnect(p) ==
  /\ p \in WebWorkers /\ ~listening[p]
  /\ listening' = [listening EXCEPT ![p] = TRUE]
  /\ UNCHANGED << latest, handler, publishing, inbox, heard, view, cached, page, breaks, attempts >>

-----------------------------------------------------------------------------
(* The connections.                                                        *)

Become(v, r) ==
  /\ view' = [view EXCEPT ![v] = r]
  /\ UNCHANGED << latest, handler, publishing, listening, inbox, heard, cached, page, attempts >>

\* The event is registered before the first read.
Connect(v) ==
  /\ view[v].at = "new"
  /\ Become(v, [view[v] EXCEPT !.at = "reading"])
  /\ UNCHANGED breaks

\* fetch_counters_and_dashboard
Fetch(v) ==
  /\ view[v].at = "reading"
  /\ Become(v, [view[v] EXCEPT !.at = "sending", !.shown = latest, !.failed = FALSE])
  /\ UNCHANGED breaks

\* A failed read is logged by a stream and ends a socket.
FetchFails(v) ==
  /\ view[v].at = "reading" /\ Break
  /\ Become(v, [view[v] EXCEPT !.at = IF v \in Streams THEN "waiting" ELSE "gone", !.failed = TRUE])

\* Variant with a defect: the event is cleared after the data was read.
SentAndCleared(v) == [view[v] EXCEPT !.at = "waiting", !.event = FALSE]

Sent(v) == [view[v] EXCEPT !.at = "waiting"]

Send(v) == view[v].at = "sending" /\ Become(v, Sent(v)) /\ UNCHANGED breaks

\* The event is cleared before the next read.
Wake(v) ==
  /\ view[v].at = "waiting" /\ view[v].event
  /\ Become(v, [view[v] EXCEPT !.at = "reading", !.event = FALSE])
  /\ UNCHANGED breaks

\* Variant with a defect: a stream waits for its event only.
PollsNever(v) == FALSE

Polls(v) == v \in Streams

\* After three seconds a stream reads again; a socket sends a ping after 25.
Poll(v) ==
  /\ view[v].at = "waiting" /\ Polls(v)
  /\ Become(v, [view[v] EXCEPT !.at = "reading"])
  /\ UNCHANGED breaks

Close(v) ==
  /\ Subscribed(v)
  /\ Become(v, [view[v] EXCEPT !.at = "gone"])
  /\ UNCHANGED breaks

-----------------------------------------------------------------------------
(* The counters of a page.                                                 *)

\* _populate_notification_counts: nothing cached, so the tickets are counted ...
CountForPage ==
  /\ cached = {} /\ page = {}
  /\ page' = {latest}
  /\ UNCHANGED << latest, handler, publishing, listening, inbox, heard, view, cached, breaks, attempts >>

\* ... and cached, whatever was deleted in between.
CachePage ==
  /\ page # {}
  /\ cached' = page /\ page' = {}
  /\ UNCHANGED << latest, handler, publishing, listening, inbox, heard, view, breaks, attempts >>

CacheExpires ==
  /\ cached # {}
  /\ cached' = {}
  /\ UNCHANGED << latest, handler, publishing, listening, inbox, heard, view, page, breaks, attempts >>

-----------------------------------------------------------------------------
EventsNext ==
  \/ \E p \in Servers : CommitFirst(p)
  \/ \E p \in Servers : NotifyAfter(p)
  \/ \E p \in Servers : NotifyFirst(p)
  \/ \E p \in Servers : CommitAfter(p)
  \/ Publish
  \/ \E p \in Servers : Deliver(p)
  \/ \E p \in Servers : Disconnect(p)
  \/ \E p \in Servers : Reconnect(p)
  \/ \E v \in Viewers : Connect(v)
  \/ \E v \in Viewers : Fetch(v)
  \/ \E v \in Viewers : FetchFails(v)
  \/ \E v \in Viewers : Send(v)
  \/ \E v \in Viewers : Wake(v)
  \/ \E v \in Viewers : Poll(v)
  \/ \E v \in Viewers : Close(v)
  \/ CountForPage
  \/ CachePage
  \/ CacheExpires

EventsSpec == EventsInit /\ [][EventsNext]_eventVars

\* A connection goes on while it is open, timeouts and lifetimes pass.
EventsFairness ==
  /\ \A v \in Viewers : WF_eventVars(Fetch(v)) /\ WF_eventVars(Send(v)) /\ WF_eventVars(Poll(v))
  /\ WF_eventVars(CachePage) /\ WF_eventVars(CacheExpires)

-----------------------------------------------------------------------------
(* Properties.                                                             *)

EventsTypeOK ==
  /\ latest \in Nat
  /\ handler \in [Servers -> {"idle", "committed", "notified"}]
  /\ publishing \in Nat
  /\ listening \in [Servers -> BOOLEAN]
  /\ inbox \in [Servers -> Nat]
  /\ heard \in [Servers -> 0..latest]
  /\ view \in [Viewers -> Views]
  /\ \A v \in Viewers : view[v].shown <= latest
  /\ cached \in SUBSET (0..latest) /\ page \in SUBSET (0..latest)
  /\ attempts \in 0..MaxChanges /\ breaks \in 0..MaxBreaks

\* No wake-up is lost: a connection at rest whose event is clear has sent data at least
\* as new as the last notification that reached its worker, though notifications arrive
\* while it reads and sends (web/routes/sse.py).
NoWakeUpLost ==
  \A v \in Viewers :
    view[v].at = "waiting" /\ ~view[v].event /\ ~view[v].failed => view[v].shown >= heard[Home[v]]

\* When the tickets no longer change, every open stream and every page shows their last
\* state, although notifications come before the commit, Redis loses messages and a count
\* made before a change is cached after it.
ViewsCatchUp ==
  <>[](/\ \A v \in Streams : view[v].at \in {"new", "gone"} \/ view[v].shown = latest
       /\ cached \subseteq {latest})
=============================================================================
