------------------------------- MODULE VkIntake -------------------------------
(***************************************************************************)
(* How events of the community reach their handlers.  In Long Poll mode    *)
(* the bot asks VK for the events after its cursor (ts) with a key that    *)
(* expires; in callback mode VK posts each event to the web panel, which   *)
(* answers "ok" before it handles the event.  Events are numbered in the   *)
(* order in which VK issues them.                                          *)
(***************************************************************************)
EXTENDS Naturals

CONSTANTS
  Replies,      \* events that are message_reply; the others are messages
  Threshold,    \* MAX_CONSECUTIVE_ERRORS_BEFORE_RESET
  MaxEvents,    \* bound: events VK issues
  MaxTroubles   \* bound: faults of VK and the network, crashes, switches

ASSUME IntakeAssumption ==
  /\ MaxEvents \in Nat
  /\ MaxTroubles \in Nat
  /\ Threshold \in Nat \ {0}

Events == 1..MaxEvents
NoServer == [key |-> "none", ts |-> 0]

VARIABLES
  mode,         \* VK_MODE: "longpoll" or "callback"
  keeps,        \* restore_server_ts finds the cursor saved before a restart
  maintenance,  \* is_maintenance_mode, see Flags
  head,         \* events VK has issued
  server,       \* the key, "live", "dead" or "gone" at VK, and the cursor
  saved,        \* the cursor save_server_ts stored
  loop,         \* where listen() is: "start", "poll" or "save"
  errors,       \* consecutive_errors
  running,      \* handlers: <<event, "direct" or "route">>
  done,         \* [Events -> Nat]: how often an event was acted upon
  begun,        \* events handed to a handler
  settled,      \* events whose handling ended, also by a refusal
  killed,       \* events under whose handling or before whose "ok" or saved
                \* cursor the process died
  blamed,       \* VK or the network gave a reason to skip events
  troubles      \* [Nat]

intakeVars == << mode, keeps, maintenance, head, server, saved, loop, errors,
                 running, done, begun, settled, killed, blamed, troubles >>
config == << mode, keeps, maintenance, troubles >>
effects == << running, done, begun, settled, killed >>

IntakeInit ==
  /\ mode \in {"longpoll", "callback"}
  /\ keeps \in BOOLEAN
  /\ maintenance = FALSE
  /\ head = 0 /\ saved = 0 /\ errors = 0 /\ troubles = 0
  /\ server = NoServer
  /\ loop = "start"
  /\ running = {} /\ begun = {} /\ settled = {} /\ killed = {}
  /\ done = [e \in Events |-> 0]
  /\ blamed = FALSE

Polls(at) == mode = "longpoll" /\ loop = at
Trouble == troubles < MaxTroubles /\ troubles' = troubles + 1
Fresh == [key |-> "live", ts |-> head]

(* run_vk_polling, listen: the first server, with the cursor of the last   *)
(* run if there is one.                                                    *)
Listen ==
  /\ Polls("start")
  /\ IF keeps /\ saved > 0
     THEN server' = [Fresh EXCEPT !.ts = saved] /\ UNCHANGED blamed
     ELSE server' = Fresh /\ blamed' = (blamed \/ head > 0)
  /\ loop' = "poll"
  /\ errors' = 0
  /\ UNCHANGED << config, head, saved, effects >>

(* A server that was reset is asked for anew, with the cursor VK gives.    *)
GetServer ==
  /\ Polls("poll") /\ server = NoServer
  /\ server' = Fresh
  /\ UNCHANGED << config, head, saved, loop, errors, effects, blamed >>

(* A successful poll: the events are handed to handlers, then the cursor   *)
(* is saved.                                                               *)
\* Variant with a defect: the cursor stays before the last event.
AdvancedBehind(ts) == IF ts = 0 THEN 0 ELSE ts - 1

Advanced(ts) == ts
Receive ==
  /\ Polls("poll") /\ server.key = "live"
  /\ LET batch == (server.ts + 1)..head
     IN  /\ running' = running \cup {<< e, "route" >> : e \in batch}
         /\ begun' = begun \cup batch
         /\ batch # {}
  /\ server' = [server EXCEPT !.ts = Advanced(head)]
  /\ errors' = 0
  /\ loop' = "save"
  /\ UNCHANGED << config, head, saved, done, settled, killed, blamed >>
SaveCursor ==
  /\ Polls("save")
  /\ saved' = server.ts
  /\ loop' = "poll"
  /\ UNCHANGED << config, head, server, errors, effects, blamed >>

(* handle_failed_event.  An expired key is replaced and the cursor kept;   *)
(* if that fails, the server is reset.                                     *)
\* Variant with a defect: the cursor of the expired key is forgotten.
RenewedFresh(old) == Fresh

Renewed(old) == [Fresh EXCEPT !.ts = old]
ReplaceKey ==
  /\ Polls("poll") /\ server.key = "dead"
  /\ server' = Renewed(server.ts)
  /\ UNCHANGED << config, head, saved, loop, errors, effects, blamed >>
ReplaceKeyFails ==
  /\ Polls("poll") /\ server.key = "dead"
  /\ Trouble
  /\ server' = NoServer
  /\ blamed' = TRUE
  /\ errors' = errors + 1
  /\ UNCHANGED << mode, keeps, maintenance, head, saved, loop, effects >>
(* History outdated, information lost, an invalid version, no ts.          *)
LoseHistory ==
  /\ Polls("poll") /\ server.key = "live"
  /\ Trouble
  /\ server' \in {[server EXCEPT !.ts = head], Fresh, NoServer}
  /\ blamed' = TRUE
  /\ UNCHANGED << mode, keeps, maintenance, head, saved, loop, errors, effects >>

(* The request raises: always for a key VK no longer knows, now and then   *)
(* for any; after the third time in a row the server is reset.             *)
\* Variant with a defect: the server is never reset.
SurvivesAlways(count) == TRUE

Survives(count) == count < Threshold
PollRaises ==
  /\ Polls("poll")
  /\ IF server.key = "gone" THEN UNCHANGED troubles ELSE Trouble
  /\ errors' = IF errors < Threshold THEN errors + 1 ELSE errors
  /\ server' = IF Survives(errors + 1) THEN server ELSE NoServer
  /\ blamed' = (blamed \/ errors + 1 >= Threshold)
  /\ UNCHANGED << mode, keeps, maintenance, head, saved, loop, effects >>

(* vk_callback_webhook: "ok" is answered and a task handles the event; a   *)
(* reply is recorded by the task itself and by the route of the bot.       *)
Webhook ==
  /\ mode = "callback"
  /\ server.ts < head
  /\ LET e == server.ts + 1
     IN  /\ server' = [server EXCEPT !.ts = e]
         /\ begun' = begun \cup {e}
         /\ running' = running \cup {<< e, IF e \in Replies THEN "direct" ELSE "route" >>}
  /\ UNCHANGED << config, head, saved, loop, errors, done, settled, killed, blamed >>

(* _handle_vk_event_async: the direct call; when it raises nothing follows.*)
RecordReply(e) ==
  /\ << e, "direct" >> \in running
  /\ \/ /\ done' = [done EXCEPT ![e] = @ + 1]
        /\ running' = (running \ {<< e, "direct" >>}) \cup {<< e, "route" >>}
        /\ UNCHANGED << settled, troubles >>
     \/ /\ Trouble
        /\ running' = running \ {<< e, "direct" >>}
        /\ settled' = settled \cup {e}
        /\ UNCHANGED done
  /\ UNCHANGED << mode, keeps, maintenance, head, server, saved, loop, errors,
                  begun, killed, blamed >>

(* The labelers and the raw handler: the middleware stops messages while   *)
(* maintenance is on; an error is answered by the error handler.           *)
Stops(e) == maintenance /\ e \notin Replies
Route(e) ==
  /\ << e, "route" >> \in running
  /\ running' = running \ {<< e, "route" >>}
  /\ settled' = settled \cup {e}
  /\ done' = IF Stops(e) THEN done ELSE [done EXCEPT ![e] = @ + 1]
  /\ UNCHANGED << config, head, server, saved, loop, errors, begun, killed, blamed >>

-----------------------------------------------------------------------------
(* VK issues events and withdraws keys; maintenance is switched; a process *)
(* dies with its handlers and starts again.                                *)
Issue ==
  /\ head < MaxEvents
  /\ head' = head + 1
  /\ UNCHANGED << config, server, saved, loop, errors, effects, blamed >>
KeyExpires ==
  /\ server.key = "live" /\ loop = "poll"
  /\ Trouble
  /\ server' \in {[server EXCEPT !.key = "dead"], [server EXCEPT !.key = "gone"]}
  /\ UNCHANGED << mode, keeps, maintenance, head, saved, loop, errors, effects, blamed >>
SwitchMaintenance ==
  /\ Trouble
  /\ maintenance' = ~maintenance
  /\ UNCHANGED << mode, keeps, head, server, saved, loop, errors, effects, blamed >>
Crash ==
  /\ Trouble
  /\ killed' = killed \cup {t[1] : t \in running} \cup (saved + 1)..server.ts
  /\ running' = {}
  /\ loop' = "start"
  /\ server' = IF mode = "callback" THEN server ELSE NoServer
  /\ UNCHANGED << mode, keeps, maintenance, head, saved, errors, done, begun,
                  settled, blamed >>

Handling(e) == RecordReply(e) \/ Route(e)
Polling ==
  \/ Listen \/ GetServer \/ Receive \/ SaveCursor \/ ReplaceKey
  \/ server.key = "gone" /\ PollRaises
IntakeNext ==
  \/ Polling \/ ReplaceKeyFails \/ LoseHistory \/ PollRaises
  \/ Webhook \/ \E e \in Events : Handling(e)
  \/ Issue \/ KeyExpires \/ SwitchMaintenance \/ Crash

(* The loop never ends, VK posts until it is answered "ok", a task that    *)
(* started goes on unless its process dies.                                *)
IntakeFairness ==
  /\ WF_intakeVars(Polling)
  /\ WF_intakeVars(Webhook)
  /\ \A e \in Events : WF_intakeVars(Handling(e))
IntakeSpec == IntakeInit /\ [][IntakeNext]_intakeVars /\ IntakeFairness

-----------------------------------------------------------------------------
(* An event the cursor has passed was handed to a handler, unless VK or    *)
(* the network gave cause: lost history, a key that could not be replaced, *)
(* three failures in a row, no cursor from the last run.  A key that       *)
(* expires is no such cause.                                               *)
NothingPassedOver ==
  server # NoServer /\ ~blamed => 1..server.ts \subseteq begun

(* An event is acted upon once; a reply in callback mode twice; once more  *)
(* only for one the process died under.                                    *)
ActedOnce ==
  \A e \in Events :
    done[e] <= (IF mode = "callback" /\ e \in Replies THEN 2 ELSE 1)
                  + (IF e \in killed THEN troubles ELSE 0)

(* The cursor leaves nothing behind and takes nothing twice                *)
(* (bots/vk/polling.py, listen; web/routes/vk_callback.py).                *)
IntakeSound == NothingPassedOver /\ ActedOnce

(* An event VK has issued is handled to the end, or refused, or was lost   *)
(* for a stated cause; and even then the cursor reaches what VK issued: a  *)
(* key VK no longer knows never stops the bot for good.                    *)
EveryEventSettles ==
  \A e \in Events : head >= e ~>
    /\ server.ts >= e
    /\ e \in settled \/ e \in killed \/ blamed
=============================================================================
