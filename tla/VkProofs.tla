------------------------------ MODULE VkProofs ------------------------------
(***************************************************************************)
(* Proofs about the VK bot: the intake of events (VkIntake) leaves nothing *)
(* behind and takes nothing twice, the lists shown page by page (VkLists)  *)
(* skip no entry, and a dialogue (VkDialog) makes one ticket of one        *)
(* description, for any number of events, faults, readers, users,          *)
(* processes and overlapping messages.                                     *)
(***************************************************************************)
EXTENDS MCVk, SequenceTheorems, TLAPS

IntakeTypeOK ==
  /\ mode \in {"longpoll", "callback"}
  /\ head \in 0..MaxEvents /\ saved \in 0..head
  /\ errors \in Nat /\ troubles \in Nat
  /\ server \in [key : {"none", "live", "dead", "gone"}, ts : 0..head]
  /\ loop \in {"start", "poll", "save"}
  /\ running \subseteq begun \X {"direct", "route"}
  /\ done \in [Events -> Nat]
  /\ begun \subseteq 1..head
  /\ killed \subseteq Events
  /\ blamed \in BOOLEAN

\* Where the cursor stands.  A loop that has not started and one whose server was reset
\* have no server; otherwise the cursor is not behind the saved one.
CursorInv ==
  /\ mode = "callback" => loop = "start" /\ saved = 0 /\ begun \subseteq 1..server.ts
  /\ mode = "longpoll" =>
       /\ server.key = "none" => server = NoServer
       /\ loop = "start" => server = NoServer
       /\ loop = "save" => server # NoServer
       /\ loop # "start" /\ server # NoServer => saved <= server.ts

\* Without a stated cause the saved cursor, and the cursor, have passed over nothing.
PassedInv ==
  /\ mode = "longpoll" /\ loop = "poll" /\ server = NoServer => blamed
  /\ ~blamed => 1..saved \subseteq begun /\ 1..server.ts \subseteq begun

\* What the handlers under way may still do.
Pending(e) ==
  (IF << e, "direct" >> \in running THEN 2 ELSE 0) + (IF << e, "route" >> \in running THEN 1 ELSE 0)

Allowed(e) ==
  (IF mode = "callback" /\ e \in Replies THEN 2 ELSE 1) + (IF e \in killed THEN troubles ELSE 0)

\* One more delivery of the event would still be in order: the process died under it.
MayComeAgain(e) == e \in killed /\ done[e] + Pending(e) + 1 <= Allowed(e)

ActedInv ==
  /\ \A e \in Events : done[e] + Pending(e) <= Allowed(e)
  /\ \A e \in Events : e \notin begun => done[e] = 0
  /\ mode = "longpoll" =>
       \A e \in begun :
         /\ loop # "save" /\ e > saved => MayComeAgain(e)
         /\ loop = "save" /\ e > server.ts => MayComeAgain(e)

IntakeInv == IntakeTypeOK /\ CursorInv /\ PassedInv /\ ActedInv

\* Types of what is pending for an event, and of how often it may be acted on.
LEMMA PendingTypes ==
  /\ \A e : Pending(e) \in 0..3
  /\ \A e : Pending(e)' \in 0..3
  /\ IntakeTypeOK => \A e : Allowed(e) \in Nat
BY DEF Pending, Allowed, IntakeTypeOK

\* What is allowed for an event only grows.
LEMMA AllowedGrows ==
  ASSUME troubles \in Nat, troubles' \in Nat, troubles <= troubles', UNCHANGED mode,
         killed \subseteq killed', NEW e
  PROVE  /\ Allowed(e) <= Allowed(e)' /\ Allowed(e) \in Nat /\ Allowed(e)' \in Nat
         /\ e \in killed' /\ troubles < troubles' => Allowed(e) < Allowed(e)'
<1> DEFINE b == IF mode = "callback" /\ e \in Replies THEN 2 ELSE 1
           k == IF e \in killed THEN troubles ELSE 0
           l == IF e \in killed' THEN troubles' ELSE 0
<1>1. b \in Nat
  OBVIOUS
<1>2. k \in Nat /\ l \in Nat /\ k <= l /\ (e \in killed' /\ troubles < troubles' => k < l)
  <2>1. CASE e \in killed
    BY <2>1
  <2>2. CASE e \notin killed
    BY <2>2
  <2> QED
    BY <2>1, <2>2
<1>3. Allowed(e) = b + k
  BY DEF Allowed
<1>4. Allowed(e)' = b + l
  BY DEF Allowed
<1> HIDE DEF b, k, l
<1> QED
  BY <1>1, <1>2, <1>3, <1>4

\* Nothing that handlers did or may do changes, and faults only add to what is allowed.
LEMMA ActedStays ==
  ASSUME IntakeInv, troubles' \in Nat, troubles <= troubles',
         UNCHANGED << mode, running, done, begun, killed >>,
         mode = "longpoll" => \A e \in begun :
           /\ loop' # "save" /\ e > saved' => MayComeAgain(e)
           /\ loop' = "save" /\ e > server'.ts => MayComeAgain(e)
  PROVE  ActedInv'
<1>1. \A e \in Events : Pending(e)' = Pending(e) /\ Pending(e) \in 0..3 /\ done[e] \in Nat
  BY PendingTypes DEF IntakeInv, IntakeTypeOK, Pending
<1>2. \A e : Allowed(e) <= Allowed(e)' /\ Allowed(e) \in Nat /\ Allowed(e)' \in Nat
  BY AllowedGrows DEF IntakeInv, IntakeTypeOK
<1>3. \A e \in Events : MayComeAgain(e) => MayComeAgain(e)'
  BY <1>1, <1>2 DEF MayComeAgain
<1>4. \A e \in Events : done'[e] + Pending(e)' <= Allowed(e)'
  BY <1>1, <1>2 DEF IntakeInv, ActedInv
<1>5. begun \subseteq Events
  BY IntakeAssumption DEF IntakeInv, IntakeTypeOK, Events
<1> QED
  BY <1>3, <1>4, <1>5 DEF IntakeInv, ActedInv

\* The invariant holds at the start.
LEMMA IntakeStart == IntakeInit => IntakeInv
<1> SUFFICES ASSUME IntakeInit PROVE IntakeInv
  OBVIOUS
<1>1. IntakeTypeOK
  <2>1. server \in [key : {"none", "live", "dead", "gone"}, ts : 0..head] /\ head \in 0..MaxEvents
    BY IntakeAssumption DEF IntakeInit, NoServer
  <2>2. done \in [Events -> Nat]
    BY DEF IntakeInit
  <2>3. saved \in 0..head /\ errors \in Nat /\ troubles \in Nat
    BY DEF IntakeInit
  <2>4. /\ running \subseteq begun \X {"direct", "route"} /\ begun \subseteq 1..head
        /\ killed \subseteq Events /\ blamed \in BOOLEAN
        /\ mode \in {"longpoll", "callback"} /\ loop \in {"start", "poll", "save"}
    BY DEF IntakeInit
  <2> QED
    BY <2>1, <2>2, <2>3, <2>4 DEF IntakeTypeOK
<1>2. CursorInv
  BY DEF IntakeInit, CursorInv, NoServer
<1>3. PassedInv
  BY DEF IntakeInit, PassedInv, NoServer
<1>4. ActedInv
  BY DEF IntakeInit, ActedInv, Pending, Allowed
<1> QED
  BY <1>1, <1>2, <1>3, <1>4 DEF IntakeInv

-----------------------------------------------------------------------------
(* The long poll.                                                          *)

\* A listener that starts keeps the invariant.
LEMMA ListenKeeps == ASSUME IntakeInv, Listen PROVE IntakeInv'
<1>1. /\ mode = "longpoll" /\ loop = "start" /\ loop' = "poll" /\ errors' = 0
      /\ server' = [key |-> "live", ts |-> IF keeps /\ saved > 0 THEN saved ELSE head]
      /\ blamed' = (IF keeps /\ saved > 0 THEN blamed ELSE blamed \/ head > 0)
      /\ UNCHANGED << mode, maintenance, troubles, head, saved, running, done, begun, settled, killed >>
  BY DEF Listen, Polls, Fresh, config, effects
<1>2. IntakeTypeOK'
  <2>1. server' \in [key : {"none", "live", "dead", "gone"}, ts : 0..head]
    <3>1. head \in 0..head /\ saved \in 0..head
      BY IntakeAssumption DEF IntakeInv, IntakeTypeOK
    <3> QED
      BY <1>1, <3>1
  <2>2. blamed' \in BOOLEAN
    BY <1>1 DEF IntakeInv, IntakeTypeOK
  <2> QED
    BY <1>1, <2>1, <2>2 DEF IntakeInv, IntakeTypeOK
<1>3. CursorInv'
  BY <1>1 DEF IntakeInv, IntakeTypeOK, CursorInv, NoServer
<1>4. PassedInv'
  <2>1. server' # NoServer
    BY <1>1 DEF NoServer
  <2>2. ~blamed => 1..saved \subseteq begun
    BY DEF IntakeInv, PassedInv
  <2>3. CASE keeps /\ saved > 0
    BY <1>1, <2>1, <2>2, <2>3 DEF PassedInv
  <2>4. CASE ~(keeps /\ saved > 0)
    <3>1. ~blamed' => head = 0 /\ ~blamed /\ server'.ts = 0
      <4>1. blamed' = (blamed \/ head > 0) /\ server'.ts = head
        <5>1. ~(keeps /\ saved > 0)
          BY <2>4
        <5>2. blamed' = (blamed \/ head > 0)
          BY <1>1, <5>1
        <5>3. server' = [key |-> "live", ts |-> head]
          BY <1>1, <5>1
        <5> QED
          BY <5>2, <5>3
      <4>2. head \in Nat
        BY IntakeAssumption DEF IntakeInv, IntakeTypeOK
      <4>3. ~blamed' => ~blamed /\ ~(head > 0)
        BY <4>1, Zenon
      <4> QED
        BY <4>1, <4>2, <4>3
    <3>2. 1..0 = {}
      OBVIOUS
    <3> QED
      BY <1>1, <2>1, <2>2, <3>1, <3>2 DEF PassedInv
  <2> QED
    BY <2>3, <2>4
<1>5. ActedInv'
  BY <1>1, ActedStays DEF IntakeInv, IntakeTypeOK, ActedInv
<1> QED
  BY <1>2, <1>3, <1>4, <1>5 DEF IntakeInv

\* A new server or cursor keeps the invariant.
LEMMA GetServerKeeps == ASSUME IntakeInv, GetServer PROVE IntakeInv'
<1>1. /\ mode = "longpoll" /\ loop = "poll" /\ server = NoServer
      /\ server' = [key |-> "live", ts |-> head]
      /\ UNCHANGED << mode, troubles, head, saved, loop, errors, running, done, begun, settled, killed, blamed >>
  BY DEF GetServer, Polls, Fresh, config, effects
<1>2. IntakeTypeOK'
  BY <1>1 DEF IntakeInv, IntakeTypeOK
<1>3. CursorInv'
  BY <1>1 DEF IntakeInv, IntakeTypeOK, CursorInv, NoServer
<1>4. PassedInv'
  BY <1>1 DEF IntakeInv, IntakeTypeOK, PassedInv, NoServer
<1>5. ActedInv'
  BY <1>1, ActedStays DEF IntakeInv, IntakeTypeOK, ActedInv
<1> QED
  BY <1>2, <1>3, <1>4, <1>5 DEF IntakeInv

\* Events after the cursor are new, or may come again.
LEMMA ReceiveKeeps == ASSUME IntakeInv, Receive PROVE IntakeInv'
<1> DEFINE batch == (server.ts + 1)..head
<1>1. /\ mode = "longpoll" /\ loop = "poll" /\ server.key = "live"
      /\ running' = running \cup {<< e, "route" >> : e \in batch}
      /\ begun' = begun \cup batch
      /\ server' = [server EXCEPT !.ts = head]
      /\ errors' = 0 /\ loop' = "save"
      /\ UNCHANGED << mode, troubles, head, saved, done, settled, killed, blamed >>
  BY DEF Receive, Polls, Advanced, config
<1>2. /\ server.ts \in 0..head /\ head \in 0..MaxEvents /\ batch \subseteq 1..head
      /\ server'.ts = head /\ server'.key = "live"
      /\ server' \in [key : {"none", "live", "dead", "gone"}, ts : 0..head]
      /\ server # NoServer /\ server' # NoServer /\ saved <= server.ts
  <2>1. server \in [key : {"none", "live", "dead", "gone"}, ts : 0..head] /\ head \in 0..MaxEvents
    BY DEF IntakeInv, IntakeTypeOK
  <2>2. server # NoServer
    BY <1>1 DEF NoServer
  <2>3. saved <= server.ts
    BY <1>1, <2>2 DEF IntakeInv, CursorInv
  <2> QED
    BY <1>1, <2>1, <2>2, <2>3, IntakeAssumption DEF NoServer
<1>3. IntakeTypeOK'
  BY <1>1, <1>2 DEF IntakeInv, IntakeTypeOK
<1>4. CursorInv'
  BY <1>1, <1>2 DEF IntakeInv, IntakeTypeOK, CursorInv
<1>5. PassedInv'
  <2>1. ~blamed => 1..server.ts \subseteq begun /\ 1..saved \subseteq begun
    BY DEF IntakeInv, PassedInv
  <2>2. 1..head = 1..server.ts \cup batch
    BY <1>2, IntakeAssumption
  <2> QED
    BY <1>1, <1>2, <2>1, <2>2 DEF PassedInv
<1>6. ActedInv'
  <2>1. ASSUME NEW e \in Events
        PROVE  /\ done'[e] = done[e] /\ Allowed(e)' = Allowed(e) /\ done[e] \in Nat
               /\ Pending(e) \in Nat /\ Pending(e)' \in Nat /\ Allowed(e) \in Nat
               /\ e \notin batch => Pending(e)' = Pending(e)
               /\ Pending(e)' <= Pending(e) + 1
    BY <1>1, PendingTypes DEF Pending, Allowed, IntakeInv, IntakeTypeOK
  <2>2. ASSUME NEW e \in Events
        PROVE  done'[e] + Pending(e)' <= Allowed(e)'
    <3>1. CASE e \notin batch
      BY <2>1, <3>1 DEF IntakeInv, ActedInv
    <3>2. CASE e \in batch /\ e \in begun
      <4>1. MayComeAgain(e)
        BY <1>1, <1>2, <3>2 DEF IntakeInv, IntakeTypeOK, ActedInv
      <4> QED
        BY <2>1, <4>1 DEF MayComeAgain
    <3>3. CASE e \notin begun
      <4>1. done[e] = 0 /\ << e, "direct" >> \notin running /\ << e, "route" >> \notin running
        BY <3>3 DEF IntakeInv, IntakeTypeOK, ActedInv
      <4>2. Pending(e) = 0
        BY <4>1 DEF Pending
      <4>3. Allowed(e)' >= 1
        BY <1>1 DEF Allowed, IntakeInv, IntakeTypeOK
      <4> QED
        BY <2>1, <4>1, <4>2, <4>3
    <3> QED
      BY <3>1, <3>2, <3>3
  <2>3. \A e \in Events : e \notin begun' => done'[e] = 0
    BY <1>1 DEF IntakeInv, ActedInv
  <2>4. \A e \in begun' : ~(e > server'.ts)
    BY <1>1, <1>2 DEF IntakeInv, IntakeTypeOK
  <2> QED
    BY <1>1, <2>2, <2>3, <2>4 DEF ActedInv
<1> QED
  BY <1>3, <1>4, <1>5, <1>6 DEF IntakeInv

\* Saving the cursor keeps the invariant.
LEMMA SaveCursorKeeps == ASSUME IntakeInv, SaveCursor PROVE IntakeInv'
<1>1. /\ mode = "longpoll" /\ loop = "save" /\ saved' = server.ts /\ loop' = "poll"
      /\ UNCHANGED << mode, troubles, head, server, errors, running, done, begun, settled, killed, blamed >>
  BY DEF SaveCursor, Polls, config, effects
<1>2. IntakeTypeOK'
  BY <1>1 DEF IntakeInv, IntakeTypeOK
<1>3. CursorInv'
  BY <1>1 DEF IntakeInv, IntakeTypeOK, CursorInv
<1>4. PassedInv'
  BY <1>1 DEF IntakeInv, CursorInv, PassedInv
<1>5. ActedInv'
  BY <1>1, ActedStays DEF IntakeInv, IntakeTypeOK, ActedInv
<1> QED
  BY <1>2, <1>3, <1>4, <1>5 DEF IntakeInv

\* The other answers of VK and errors of the network change the server, never behind the
\* saved cursor, and state a cause when they skip or drop it.
LEMMA ServerChangeKeeps ==
  ASSUME IntakeInv, mode = "longpoll", loop = "poll",
         UNCHANGED << mode, head, saved, loop, running, done, begun, killed >>,
         errors' \in Nat, troubles' \in Nat, troubles <= troubles', blamed' \in BOOLEAN,
         blamed => blamed',
         \/ server' \in {server, NoServer}
         \/ server' \in [key : {"live", "dead", "gone"}, ts : {server.ts, head}] /\ server # NoServer,
         server' # server /\ (server' = NoServer \/ server'.ts # server.ts) => blamed'
  PROVE  IntakeInv'
<1>1. /\ head \in 0..MaxEvents /\ saved \in 0..head
      /\ server \in [key : {"none", "live", "dead", "gone"}, ts : 0..head]
  BY DEF IntakeInv, IntakeTypeOK
<1>2. head \in 0..head
  BY <1>1, IntakeAssumption
<1>3. server' \in [key : {"none", "live", "dead", "gone"}, ts : 0..head]
  BY <1>1, <1>2 DEF NoServer
<1>4. IntakeTypeOK'
  BY <1>3 DEF IntakeInv, IntakeTypeOK
<1>5. server' # NoServer => saved <= server'.ts
  BY <1>1, IntakeAssumption DEF IntakeInv, CursorInv
<1>6. server'.key = "none" => server' = NoServer
  BY DEF IntakeInv, CursorInv
<1>7. CursorInv'
  BY <1>5, <1>6 DEF CursorInv
<1>8. PassedInv'
  <2>1. server' = NoServer => blamed'
    BY DEF IntakeInv, PassedInv
  <2>2. ~blamed' => ~blamed /\ server'.ts = server.ts
    BY <2>1 DEF IntakeInv
  <2> QED
    BY <2>1, <2>2 DEF IntakeInv, PassedInv
<1>9. ActedInv'
  BY ActedStays DEF IntakeInv, ActedInv
<1> QED
  BY <1>4, <1>7, <1>8, <1>9 DEF IntakeInv

\* Whatever a poll is answered, the invariant is kept.
LEMMA PollAnswersKeep ==
  ASSUME IntakeInv, ReplaceKey \/ ReplaceKeyFails \/ LoseHistory \/ PollRaises
  PROVE  IntakeInv'
<1>t. /\ errors \in Nat /\ troubles \in Nat /\ blamed \in BOOLEAN /\ head \in 0..MaxEvents
      /\ server \in [key : {"none", "live", "dead", "gone"}, ts : 0..head]
  BY DEF IntakeInv, IntakeTypeOK
<1>1. CASE ReplaceKey
  <2>1. /\ mode = "longpoll" /\ loop = "poll" /\ server.key = "dead"
        /\ server' = [key |-> "live", ts |-> server.ts]
        /\ UNCHANGED << mode, troubles, head, saved, loop, errors, running, done, begun, killed, blamed >>
    BY <1>1 DEF ReplaceKey, Polls, Renewed, Fresh, config, effects
  <2>2. server # NoServer /\ server' # NoServer
    BY <2>1 DEF NoServer
  <2> QED
    BY <1>t, <2>1, <2>2, ServerChangeKeeps
<1>2. CASE ReplaceKeyFails
  <2>1. /\ mode = "longpoll" /\ loop = "poll" /\ server' = NoServer
        /\ troubles' = troubles + 1 /\ blamed' = TRUE /\ errors' = errors + 1
        /\ UNCHANGED << mode, head, saved, loop, running, done, begun, killed >>
    BY <1>2 DEF ReplaceKeyFails, Polls, Trouble, effects
  <2> QED
    BY <1>t, <2>1, ServerChangeKeeps
<1>3. CASE LoseHistory
  <2>1. /\ mode = "longpoll" /\ loop = "poll" /\ server.key = "live"
        /\ server' \in {[server EXCEPT !.ts = head], [key |-> "live", ts |-> head], NoServer}
        /\ troubles' = troubles + 1 /\ blamed' = TRUE
        /\ UNCHANGED << mode, head, saved, loop, errors, running, done, begun, killed >>
    BY <1>3 DEF LoseHistory, Polls, Trouble, Fresh, effects
  <2>2. server # NoServer /\ [server EXCEPT !.ts = head] = [key |-> "live", ts |-> head]
    BY <1>t, <2>1 DEF NoServer
  <2>3. \/ server' \in {server, NoServer}
        \/ server' \in [key : {"live", "dead", "gone"}, ts : {server.ts, head}] /\ server # NoServer
    BY <2>1, <2>2
  <2> QED
    BY <1>t, <2>1, <2>3, ServerChangeKeeps
<1>4. CASE PollRaises
  <2>1. /\ mode = "longpoll" /\ loop = "poll"
        /\ troubles' \in {troubles, troubles + 1} /\ errors' \in {errors, errors + 1}
        /\ server' = (IF errors + 1 < Threshold THEN server ELSE NoServer)
        /\ blamed' = (blamed \/ errors + 1 >= Threshold)
        /\ UNCHANGED << mode, head, saved, loop, running, done, begun, killed >>
    BY <1>4 DEF PollRaises, Polls, Trouble, Survives, effects
  <2>2. server' # server => server' = NoServer /\ blamed'
    <3>1. CASE errors + 1 < Threshold
      BY <2>1, <3>1
    <3>2. CASE ~(errors + 1 < Threshold)
      <4>1. errors + 1 >= Threshold
        BY <1>t, <3>2, IntakeAssumption
      <4> QED
        BY <2>1, <3>2, <4>1
    <3> QED
      BY <3>1, <3>2
  <2>3. errors' \in Nat /\ troubles' \in Nat /\ troubles <= troubles' /\ blamed' \in BOOLEAN
        /\ (blamed => blamed') /\ server' \in {server, NoServer}
    BY <1>t, <2>1
  <2> QED
    BY <2>1, <2>2, <2>3, ServerChangeKeeps
<1> QED
  BY <1>1, <1>2, <1>3, <1>4

-----------------------------------------------------------------------------
(* The callback, the handlers and the faults.                              *)

\* A call of the webhook keeps the invariant.
LEMMA WebhookKeeps == ASSUME IntakeInv, Webhook PROVE IntakeInv'
<1> DEFINE new == server.ts + 1
<1>1. /\ mode = "callback" /\ server.ts < head
      /\ server' = [server EXCEPT !.ts = new]
      /\ begun' = begun \cup {new}
      /\ running' = running \cup {<< new, IF new \in Replies THEN "direct" ELSE "route" >>}
      /\ UNCHANGED << mode, troubles, head, saved, loop, errors, done, settled, killed, blamed >>
  BY DEF Webhook, config
<1>2. /\ server.ts \in 0..head /\ head \in 0..MaxEvents /\ new \in 1..head /\ new \in Events
      /\ server'.ts = new /\ server' \in [key : {"none", "live", "dead", "gone"}, ts : 0..head]
      /\ begun \subseteq 1..server.ts /\ new \notin begun
      /\ loop = "start" /\ saved = 0
  <2>1. server \in [key : {"none", "live", "dead", "gone"}, ts : 0..head] /\ head \in 0..MaxEvents
    BY DEF IntakeInv, IntakeTypeOK
  <2>2. begun \subseteq 1..server.ts /\ loop = "start" /\ saved = 0
    BY <1>1 DEF IntakeInv, CursorInv
  <2> QED
    BY <1>1, <2>1, <2>2, IntakeAssumption DEF Events
<1>3. IntakeTypeOK'
  BY <1>1, <1>2 DEF IntakeInv, IntakeTypeOK
<1>4. CursorInv'
  BY <1>1, <1>2 DEF CursorInv
<1>5. PassedInv'
  <2>1. 1..new = 1..server.ts \cup {new} /\ 1..saved = {}
    BY <1>2
  <2> QED
    BY <1>1, <1>2, <2>1 DEF IntakeInv, PassedInv
<1>6. ActedInv'
  <2>1. ASSUME NEW e \in Events
        PROVE  done'[e] + Pending(e)' <= Allowed(e)'
    <3>1. Allowed(e)' = Allowed(e) /\ done' = done
      BY <1>1 DEF Allowed
    <3>2. CASE e # new
      <4>1. Pending(e)' = Pending(e)
        BY <1>1, <3>2 DEF Pending
      <4> QED
        BY <3>1, <4>1 DEF IntakeInv, ActedInv
    <3>3. CASE e = new
      <4>1. done[e] = 0 /\ << e, "direct" >> \notin running /\ << e, "route" >> \notin running
        BY <1>2, <3>3 DEF IntakeInv, IntakeTypeOK, ActedInv
      <4>2. Pending(e)' = (IF e \in Replies THEN 2 ELSE 1)
        BY <1>1, <3>3, <4>1 DEF Pending
      <4>3. Allowed(e) >= (IF e \in Replies THEN 2 ELSE 1)
        BY <1>1 DEF Allowed, IntakeInv, IntakeTypeOK
      <4> QED
        BY <3>1, <4>1, <4>2, <4>3
    <3> QED
      BY <3>2, <3>3
  <2> QED
    BY <1>1, <2>1 DEF IntakeInv, ActedInv
<1> QED
  BY <1>3, <1>4, <1>5, <1>6 DEF IntakeInv

\* A step of the handlers of one event uses up what was pending.
LEMMA HandlingKeeps ==
  ASSUME IntakeInv, NEW e \in Events, Handling(e)
  PROVE  IntakeInv'
<1> DEFINE direct == << e, "direct" >>
           route == << e, "route" >>
<1>1. /\ UNCHANGED << mode, head, server, saved, loop, errors, begun, killed, blamed >>
      /\ troubles' \in {troubles, troubles + 1}
      /\ \/ /\ direct \in running /\ running' = (running \ {direct}) \cup {route}
            /\ done' = [done EXCEPT ![e] = @ + 1]
         \/ /\ direct \in running /\ running' = running \ {direct} /\ done' = done
         \/ /\ route \in running /\ running' = running \ {route}
            /\ done' \in {done, [done EXCEPT ![e] = @ + 1]}
  <2>1. CASE RecordReply(e)
    BY <2>1 DEF RecordReply, Trouble
  <2>2. CASE Route(e)
    BY <2>2 DEF Route, config
  <2> QED
    BY <2>1, <2>2 DEF Handling
<1>2. troubles \in Nat /\ troubles' \in Nat /\ troubles <= troubles' /\ done \in [Events -> Nat]
  BY <1>1 DEF IntakeInv, IntakeTypeOK
<1>3. e \in begun /\ running' \subseteq begun \X {"direct", "route"}
  BY <1>1 DEF IntakeInv, IntakeTypeOK
<1>4. done' \in [Events -> Nat]
  BY <1>1, <1>2
<1>5. IntakeTypeOK'
  BY <1>1, <1>2, <1>3, <1>4 DEF IntakeInv, IntakeTypeOK
<1>6. CursorInv' /\ PassedInv'
  BY <1>1 DEF IntakeInv, CursorInv, PassedInv
<1>7. ASSUME NEW f \in Events
      PROVE  /\ done'[f] \in Nat /\ Pending(f)' \in Nat
             /\ done[f] \in Nat /\ Pending(f) \in Nat
             /\ done'[f] + Pending(f)' <= done[f] + Pending(f)
             /\ f # e => done'[f] = done[f]
  <2>1. CASE f # e
    <3>1. Pending(f)' = Pending(f)
      BY <1>1, <2>1 DEF Pending
    <3> QED
      BY <1>1, <1>2, <2>1, <3>1, PendingTypes
  <2>2. CASE f = e
    <3>1. CASE direct \in running /\ running' = (running \ {direct}) \cup {route}
                /\ done' = [done EXCEPT ![e] = @ + 1]
      <4>1. Pending(e)' = 1 /\ Pending(e) >= 2 /\ Pending(e) \in Nat
        BY <3>1 DEF Pending
      <4>2. done'[e] = done[e] + 1
        BY <1>2, <3>1
      <4> QED
        BY <1>2, <2>2, <4>1, <4>2
    <3>2. CASE direct \in running /\ running' = running \ {direct} /\ done' = done
      <4>1. Pending(e)' <= Pending(e)
        BY <3>2 DEF Pending
      <4> QED
        BY <1>2, <2>2, <3>2, <4>1, PendingTypes
    <3>3. CASE route \in running /\ running' = running \ {route}
                /\ done' \in {done, [done EXCEPT ![e] = @ + 1]}
      <4>1. Pending(e)' + 1 = Pending(e)
        BY <3>3 DEF Pending
      <4>2. done'[e] \in {done[e], done[e] + 1}
        BY <1>2, <3>3
      <4> QED
        BY <1>2, <2>2, <4>1, <4>2, PendingTypes
    <3> QED
      BY <1>1, <3>1, <3>2, <3>3
  <2> QED
    BY <2>1, <2>2
<1>8. ASSUME NEW f \in Events
      PROVE  Allowed(f) <= Allowed(f)' /\ Allowed(f) \in Nat /\ Allowed(f)' \in Nat
  BY <1>1, <1>2, AllowedGrows
<1>9. ActedInv'
  <2>1. \A f \in Events : done'[f] + Pending(f)' <= Allowed(f)'
    <3> SUFFICES ASSUME NEW f \in Events PROVE done'[f] + Pending(f)' <= Allowed(f)'
      OBVIOUS
    <3>1. done[f] + Pending(f) <= Allowed(f)
      BY DEF IntakeInv, ActedInv
    <3> QED
      BY <1>7, <1>8, <3>1
  <2>2. \A f \in Events : f \notin begun' => done'[f] = 0
    BY <1>1, <1>3, <1>7 DEF IntakeInv, ActedInv
  <2>3. \A f \in Events : MayComeAgain(f) => MayComeAgain(f)'
    BY <1>1, <1>7, <1>8 DEF MayComeAgain
  <2>4. begun \subseteq Events
    BY IntakeAssumption DEF IntakeInv, IntakeTypeOK, Events
  <2> QED
    BY <1>1, <2>1, <2>2, <2>3, <2>4 DEF IntakeInv, ActedInv
<1> QED
  BY <1>5, <1>6, <1>9 DEF IntakeInv

\* New events, expiring keys and the switch of maintenance keep the invariant.
LEMMA OutsideKeeps ==
  ASSUME IntakeInv, Issue \/ KeyExpires \/ SwitchMaintenance
  PROVE  IntakeInv'
<1>t. /\ errors \in Nat /\ troubles \in Nat /\ head \in 0..MaxEvents /\ saved \in 0..head
      /\ server \in [key : {"none", "live", "dead", "gone"}, ts : 0..head]
      /\ begun \subseteq 1..head
  BY DEF IntakeInv, IntakeTypeOK
<1>1. CASE Issue
  <2>1. /\ head < MaxEvents /\ head' = head + 1
        /\ UNCHANGED << mode, troubles, server, saved, loop, errors, running, done, begun, settled,
                        killed, blamed >>
    BY <1>1 DEF Issue, config, effects
  <2>2. head' \in 0..MaxEvents /\ 0..head \subseteq 0..head' /\ 1..head \subseteq 1..head'
    BY <1>t, <2>1, IntakeAssumption
  <2>3. server' \in [key : {"none", "live", "dead", "gone"}, ts : 0..head']
    BY <1>t, <2>1, <2>2
  <2>4. IntakeTypeOK'
    BY <1>t, <2>1, <2>2, <2>3 DEF IntakeInv, IntakeTypeOK
  <2> QED
    BY <2>1, <2>4, ActedStays, <1>t DEF IntakeInv, CursorInv, PassedInv, ActedInv
<1>2. CASE KeyExpires
  <2>1. /\ server.key = "live" /\ loop = "poll" /\ troubles' = troubles + 1
        /\ server' \in {[server EXCEPT !.key = "dead"], [server EXCEPT !.key = "gone"]}
        /\ UNCHANGED << mode, head, saved, loop, errors, running, done, begun, settled, killed, blamed >>
    BY <1>2 DEF KeyExpires, Trouble, effects
  <2>2. mode = "longpoll"
    BY <2>1 DEF IntakeInv, IntakeTypeOK, CursorInv
  <2>3. /\ server' \in [key : {"live", "dead", "gone"}, ts : {server.ts, head}]
        /\ server # NoServer /\ server' # NoServer /\ server'.ts = server.ts
    BY <1>t, <2>1 DEF NoServer
  <2> QED
    BY <1>t, <2>1, <2>2, <2>3, ServerChangeKeeps DEF IntakeInv, IntakeTypeOK
<1>3. CASE SwitchMaintenance
  <2>1. /\ troubles' = troubles + 1
        /\ UNCHANGED << mode, head, server, saved, loop, errors, running, done, begun, settled, killed, blamed >>
    BY <1>3 DEF SwitchMaintenance, Trouble, effects
  <2>2. IntakeTypeOK'
    BY <1>t, <2>1 DEF IntakeInv, IntakeTypeOK
  <2> QED
    BY <1>t, <2>1, <2>2, ActedStays DEF IntakeInv, CursorInv, PassedInv, ActedInv
<1> QED
  BY <1>1, <1>2, <1>3

\* Whatever was not saved may come again, and the process died under it.
LEMMA CrashKeeps == ASSUME IntakeInv, Crash PROVE IntakeInv'
<1>1. /\ killed' = killed \cup {t[1] : t \in running} \cup (saved + 1)..server.ts
      /\ running' = {} /\ loop' = "start" /\ troubles' = troubles + 1
      /\ server' = (IF mode = "callback" THEN server ELSE NoServer)
      /\ UNCHANGED << mode, head, saved, errors, done, begun, settled, blamed >>
  BY DEF Crash, Trouble
<1>t. /\ errors \in Nat /\ troubles \in Nat /\ head \in 0..MaxEvents /\ saved \in 0..head
      /\ server \in [key : {"none", "live", "dead", "gone"}, ts : 0..head]
      /\ begun \subseteq 1..head /\ killed \subseteq Events /\ begun \subseteq Events
      /\ running \subseteq begun \X {"direct", "route"} /\ done \in [Events -> Nat]
      /\ mode \in {"longpoll", "callback"}
  BY IntakeAssumption DEF IntakeInv, IntakeTypeOK, Events
<1>2. killed' \subseteq Events
  <2>1. {t[1] : t \in running} \subseteq Events
    BY <1>t
  <2>2. (saved + 1)..server.ts \subseteq Events
    BY <1>t, IntakeAssumption DEF Events
  <2> QED
    BY <1>1, <1>t, <2>1, <2>2
<1>3. IntakeTypeOK'
  <2>1. server' \in [key : {"none", "live", "dead", "gone"}, ts : 0..head]
    BY <1>1, <1>t, IntakeAssumption DEF NoServer
  <2> QED
    BY <1>1, <1>2, <1>t, <2>1 DEF IntakeInv, IntakeTypeOK
<1>4. CursorInv'
  BY <1>1 DEF IntakeInv, CursorInv
<1>5. PassedInv'
  <2>1. ~blamed => 1..saved \subseteq begun /\ 1..server.ts \subseteq begun
    BY DEF IntakeInv, PassedInv
  <2>2. 1..NoServer.ts = {}
    BY DEF NoServer
  <2> QED
    BY <1>1, <2>1, <2>2 DEF PassedInv
<1>6. ASSUME NEW e \in Events
      PROVE  /\ Pending(e)' = 0 /\ Pending(e) \in Nat /\ done'[e] = done[e] /\ done[e] \in Nat
             /\ Allowed(e) \in Nat /\ Allowed(e)' \in Nat /\ Allowed(e) <= Allowed(e)'
             /\ e \in killed' => Allowed(e) + 1 <= Allowed(e)'
             /\ done[e] + Pending(e) <= Allowed(e)
  <2>1. Pending(e)' = 0 /\ Pending(e) \in Nat /\ done'[e] = done[e] /\ done[e] \in Nat
    BY <1>1, <1>t, PendingTypes DEF Pending
  <2>2. done[e] + Pending(e) <= Allowed(e)
    BY DEF IntakeInv, ActedInv
  <2>3. /\ killed \subseteq killed' /\ mode' = mode
        /\ troubles' \in Nat /\ troubles <= troubles' /\ troubles < troubles'
    BY <1>1, <1>t
  <2>4. /\ Allowed(e) <= Allowed(e)' /\ Allowed(e) \in Nat /\ Allowed(e)' \in Nat
        /\ e \in killed' => Allowed(e) < Allowed(e)'
    BY <1>t, <2>3, AllowedGrows
  <2> QED
    BY <2>1, <2>2, <2>4
<1>7. ActedInv'
  <2>1. \A e \in Events : done'[e] + Pending(e)' <= Allowed(e)'
    BY <1>6
  <2>2. \A e \in Events : e \notin begun' => done'[e] = 0
    BY <1>1 DEF IntakeInv, ActedInv
  <2>3. ASSUME mode = "longpoll", NEW e \in begun, e > saved
        PROVE  MayComeAgain(e)'
    <3>1. e \in Events /\ e \in Nat
      BY <1>t
    <3>2. e \in killed'
      <4>1. CASE loop = "save"
        <5>1. CASE e > server.ts
          BY <1>1, <2>3, <4>1, <5>1 DEF IntakeInv, ActedInv, MayComeAgain
        <5>2. CASE ~(e > server.ts)
          <6>1. e \in (saved + 1)..server.ts
            BY <1>t, <2>3, <3>1, <5>2
          <6> QED
            BY <1>1, <6>1
        <5> QED
          BY <5>1, <5>2
      <4>2. CASE loop # "save"
        BY <1>1, <2>3, <4>2 DEF IntakeInv, ActedInv, MayComeAgain
      <4> QED
        BY <4>1, <4>2
    <3> QED
      BY <1>6, <3>1, <3>2 DEF MayComeAgain
  <2> QED
    BY <1>1, <2>1, <2>2, <2>3 DEF ActedInv
<1> QED
  BY <1>3, <1>4, <1>5, <1>7 DEF IntakeInv

-----------------------------------------------------------------------------
\* Every step keeps the invariant.
LEMMA IntakeStep == ASSUME IntakeInv, [IntakeNext]_intakeVars PROVE IntakeInv'
<1>1. CASE Listen
  BY <1>1, ListenKeeps
<1>2. CASE GetServer
  BY <1>2, GetServerKeeps
<1>3. CASE Receive
  BY <1>3, ReceiveKeeps
<1>4. CASE SaveCursor
  BY <1>4, SaveCursorKeeps
<1>5. CASE ReplaceKey \/ ReplaceKeyFails \/ LoseHistory \/ PollRaises
  BY <1>5, PollAnswersKeep
<1>6. CASE Webhook
  BY <1>6, WebhookKeeps
<1>7. CASE \E e \in Events : Handling(e)
  BY <1>7, HandlingKeeps
<1>8. CASE Issue \/ KeyExpires \/ SwitchMaintenance
  BY <1>8, OutsideKeeps
<1>9. CASE Crash
  BY <1>9, CrashKeeps
<1>10. CASE UNCHANGED intakeVars
  BY <1>10 DEF intakeVars, IntakeInv, IntakeTypeOK, CursorInv, PassedInv, ActedInv, MayComeAgain,
               Pending, Allowed
<1> QED
  BY <1>1, <1>2, <1>3, <1>4, <1>5, <1>6, <1>7, <1>8, <1>9, <1>10 DEF IntakeNext, Polling

\* The invariant of the intake holds in every state (bots/vk/polling.py, listen;
\* web/routes/vk_callback.py).
THEOREM IntakeInvariant == IntakeSpec => []IntakeInv
<1>1. IntakeInv /\ [IntakeNext]_intakeVars => IntakeInv'
  BY IntakeStep
<1> QED
  BY <1>1, IntakeStart, PTL DEF IntakeSpec

\* The cursor leaves no event behind without a stated cause, and none is acted upon
\* twice but one the process died under - and a reply in callback mode, which two paths
\* record (bots/vk/polling.py; web/routes/vk_callback.py).
THEOREM IntakeIsSound == IntakeSpec => []IntakeSound
<1>1. IntakeInv => NothingPassedOver
  BY DEF IntakeInv, PassedInv, NothingPassedOver
<1>2. IntakeInv => ActedOnce
  <2> SUFFICES ASSUME IntakeInv, NEW e \in Events PROVE done[e] <= Allowed(e)
    BY DEF ActedOnce, Allowed
  <2>1. done[e] + Pending(e) <= Allowed(e) /\ done[e] \in Nat /\ Pending(e) \in 0..3 /\ Allowed(e) \in Nat
    BY PendingTypes DEF IntakeInv, IntakeTypeOK, ActedInv
  <2> QED
    BY <2>1
<1>3. IntakeInv => IntakeSound
  BY <1>1, <1>2 DEF IntakeSound
<1> QED
  BY <1>3, IntakeInvariant, PTL

(***************************************************************************)
(* The lists shown page by page.                                           *)
(***************************************************************************)
Positions == [kind : Kinds, page : Nat] \cup {NoPage}
Pressed ==
  {h \in [pc : {"render", "send"}, worker : Workers, reader : Readers, kind : Kinds, page : Nat,
          opens : BOOLEAN, shows : SUBSET Nat] : h.opens => h.page = 0}
Walks == [kind : Kinds \cup {"none"}, wanted : SUBSET Nat, seen : SUBSET Nat, intact : BOOLEAN]

ListsTyped ==
  /\ newest \in [Kinds -> Nat]
  /\ lists \in [Kinds -> Seq(Nat)]
  /\ scoped \subseteq Readers
  /\ stored \in [Readers -> Positions]
  /\ local \in [Workers -> [Readers -> Positions]]
  /\ cut \subseteq Workers
  /\ press \in [Presses -> Pressed \cup {NoPress}]
  /\ walk \in [Readers -> Walks]

\* Entries are numbered as they come, and a reader can only want one that came.
Numbered ==
  /\ \A k \in Kinds : \A e \in EntriesOf(lists[k]) : e <= newest[k]
  /\ \A u \in Readers : walk[u].kind \in Kinds => \A e \in walk[u].wanted : e <= newest[walk[u].kind]

\* Entries on their way to a reader.
Coming(u) == UNION {press[i].shows : i \in {j \in Running(u) : press[j].pc = "send" /\ press[j].kind = walk[u].kind}}

\* What the reader wanted and the first n entries of the list still hold was sent or is coming.
Covered(u, n) ==
  \A j \in DOMAIN Fetched(walk[u].kind) :
    j <= n /\ Fetched(walk[u].kind)[j] \in walk[u].wanted
      => Fetched(walk[u].kind)[j] \in walk[u].seen \cup Coming(u)

\* A position the reader may be found at, and a press that turns to a page.
Reached(u, at) == at # NoPage => at.kind = walk[u].kind /\ Covered(u, (at.page + 1) * PageSize)
Turning(u, h) ==
  /\ h.kind = walk[u].kind
  /\ h.pc = "render" => ~h.opens /\ Covered(u, h.page * PageSize)

WalkInv(u) ==
  walk[u].intact =>
    /\ walk[u].kind \in Kinds
    /\ Reached(u, stored[u])
    /\ \A w \in Workers : Reached(u, local[w][u])
    /\ \A i \in Running(u) : Turning(u, press[i])

ListsInv ==
  /\ ListsTyped
  /\ Numbered
  /\ \A u \in Readers : WalkInv(u)

\* Pages: the page after a clamp is not behind the one asked for, and the last page ends the list.
LEMMA Paging ==
  ASSUME NEW page \in Nat, NEW total \in Nat
  PROVE  /\ ClampPage(page, total) \in Nat /\ ClampPage(page, total) <= page
         /\ PageCount(total) \in Nat \ {0}
         /\ total <= PageCount(total) * PageSize
<1>1. PageSize \in Nat \ {0}
  BY ListAssumption
<1>2. CASE total <= 0
  <2>1. PageCount(total) = 1 /\ total = 0
    BY <1>2 DEF PageCount
  <2> QED
    BY <1>1, <2>1 DEF ClampPage, Larger, Smaller
<1>3. CASE total > 0
  <2> DEFINE a == total + PageSize - 1
             q == a \div PageSize
  <2>1. PageCount(total) = q
    BY <1>3 DEF PageCount
  <2>2. a \in Nat /\ a >= PageSize
    BY <1>1, <1>3
  <2>3. q \in Nat /\ q >= 1 /\ q * PageSize <= a /\ a < q * PageSize + PageSize
    <3> HIDE DEF a
    <3> QED
      BY ONLY <1>1, <2>2, SMTT(30)
  <2>4. q * PageSize \in Nat
    <3> HIDE DEF q
    <3> QED
      BY <1>1, <2>3
  <2>5. total <= q * PageSize
    <3> DEFINE z == q * PageSize
    <3>1. z \in Nat /\ a < z + PageSize
      BY <2>3, <2>4
    <3> HIDE DEF z, q
    <3>2. total <= z
      BY <1>1, <3>1
    <3> QED
      BY <3>2 DEF z
  <2>6. ClampPage(page, total) \in Nat /\ ClampPage(page, total) <= page
    <3> HIDE DEF q
    <3> QED
      BY <2>1, <2>3 DEF ClampPage, Larger, Smaller
  <2> HIDE DEF q
  <2> QED
    BY <2>1, <2>3, <2>5, <2>6
<1> QED
  BY <1>2, <1>3

\* The entries from one place of a list to another.
LEMMA EntriesBetween ==
  ASSUME NEW s \in Seq(Nat), NEW b \in Nat, NEW e \in Nat, e <= Len(s)
  PROVE  /\ EntriesOf(SubSeq(s, b + 1, e)) \subseteq Nat
         /\ \A j \in 1..Len(s) : b < j /\ j <= e => s[j] \in EntriesOf(SubSeq(s, b + 1, e))
<1>1. Len(s) \in Nat /\ DOMAIN s = 1..Len(s) /\ \A i \in 1..Len(s) : s[i] \in Nat
  BY LenProperties
<1>2. \A i \in (b + 1)..e : s[i] \in Nat
  BY <1>1
<1>3. PICK t : t = SubSeq(s, b + 1, e)
  OBVIOUS
<1>4. /\ t \in Seq(Nat)
      /\ Len(t) = IF b + 1 <= e THEN e - (b + 1) + 1 ELSE 0
      /\ \A i \in 1..(e - (b + 1) + 1) : t[i] = s[b + 1 + i - 1]
  BY <1>2, <1>3, SubSeqProperties
<1>5. Len(t) \in Nat /\ DOMAIN t = 1..Len(t) /\ \A i \in 1..Len(t) : t[i] \in Nat
  BY <1>4, LenProperties
<1>6. ASSUME NEW j \in 1..Len(s), b < j, j <= e
      PROVE  s[j] \in EntriesOf(t)
  <2>1. /\ j - b \in 1..(e - (b + 1) + 1) /\ j - b \in 1..Len(t)
        /\ b + 1 + (j - b) - 1 = j
    BY <1>1, <1>4, <1>6
  <2>2. t[j - b] = s[j] /\ j - b \in DOMAIN t
    BY <1>4, <1>5, <2>1
  <2> QED
    BY <2>2 DEF EntriesOf
<1>7. EntriesOf(t) \subseteq Nat
  BY <1>5 DEF EntriesOf
<1> QED
  BY <1>3, <1>6, <1>7

\* The entries between two page borders are those the page shows.
LEMMA ShownOnPage ==
  ASSUME NEW s \in Seq(Nat), NEW at \in Nat
  PROVE  /\ PageOf(s, at) \subseteq Nat
         /\ \A j \in DOMAIN s : at * PageSize < j /\ j <= (at + 1) * PageSize => s[j] \in PageOf(s, at)
<1>1. at * PageSize \in Nat /\ (at + 1) * PageSize \in Nat
  BY ListAssumption
<1>2. Len(s) \in Nat /\ DOMAIN s = 1..Len(s)
  BY LenProperties
<1>3. PICK top : top = Smaller(Len(s), (at + 1) * PageSize)
  OBVIOUS
<1>4. top \in Nat /\ top <= Len(s) /\ \A j \in 1..Len(s) : j <= (at + 1) * PageSize => j <= top
  BY <1>1, <1>2, <1>3 DEF Smaller
<1>5. PageOf(s, at) = EntriesOf(SubSeq(s, at * PageSize + 1, top))
  BY <1>3 DEF PageOf
<1>6. \A j \in 1..Len(s) : at * PageSize < j /\ j <= top => s[j] \in PageOf(s, at)
  BY <1>1, <1>4, <1>5, EntriesBetween
<1>7. PageOf(s, at) \subseteq Nat
  BY <1>1, <1>4, <1>5, EntriesBetween
<1> QED
  BY <1>2, <1>4, <1>6, <1>7

\* A query returns the first entries of its list.
LEMMA FirstEntries ==
  ASSUME NEW s \in Seq(Nat), NEW n \in Nat, n = Smaller(Len(s), FetchLimit)
  PROVE  /\ SubSeq(s, 1, n) \in Seq(Nat) /\ Len(SubSeq(s, 1, n)) = n
         /\ Len(s) \in Nat /\ DOMAIN s = 1..Len(s) /\ n <= Len(s)
         /\ DOMAIN SubSeq(s, 1, n) = 1..n
         /\ \A j \in 1..n : SubSeq(s, 1, n)[j] = s[j]
<1>1. Len(s) \in Nat /\ DOMAIN s = 1..Len(s) /\ n <= Len(s)
  BY ListAssumption, LenProperties DEF Smaller
<1>2. SubSeq(s, 1, n) \in Seq(Nat) /\ Len(SubSeq(s, 1, n)) = n /\ \A j \in 1..n : SubSeq(s, 1, n)[j] = s[j]
  BY <1>1
<1> QED
  BY <1>1, <1>2, LenProperties

LEMMA FetchedEntries ==
  ASSUME NEW k \in Kinds, lists[k] \in Seq(Nat)
  PROVE  /\ Fetched(k) \in Seq(Nat)
         /\ Len(lists[k]) \in Nat /\ Len(Fetched(k)) \in Nat
         /\ Len(Fetched(k)) = Smaller(Len(lists[k]), FetchLimit)
         /\ DOMAIN lists[k] = 1..Len(lists[k]) /\ DOMAIN Fetched(k) = 1..Len(Fetched(k))
         /\ DOMAIN Fetched(k) \subseteq DOMAIN lists[k]
         /\ \A j \in DOMAIN Fetched(k) : Fetched(k)[j] = lists[k][j]
<1>1. PICK n \in Nat : n = Smaller(Len(lists[k]), FetchLimit)
  BY ListAssumption, LenProperties DEF Smaller
<1>2. Fetched(k) = SubSeq(lists[k], 1, n)
  BY <1>1 DEF Fetched
<1> QED
  BY <1>1, <1>2, FirstEntries

LEMMA CoveredLess ==
  ASSUME NEW u \in Readers, NEW m \in Nat, NEW n \in Nat, m <= n, Covered(u, n),
         walk[u].kind \in Kinds, lists[walk[u].kind] \in Seq(Nat)
  PROVE  Covered(u, m)
<1> DEFINE F == Fetched(walk[u].kind)
<1>1. Len(F) \in Nat /\ DOMAIN F = 1..Len(F)
  BY FetchedEntries
<1> HIDE DEF F
<1> SUFFICES ASSUME NEW j \in DOMAIN F, j <= m
             PROVE  j <= n
  BY DEF Covered, F
<1> QED
  BY <1>1

\* What is covered stays so while the list is the same and what was sent or coming stays so.
LEMMA CoveredStays ==
  ASSUME NEW u \in Readers, NEW n \in Nat, Covered(u, n),
         walk'[u].kind = walk[u].kind, walk'[u].wanted = walk[u].wanted,
         lists'[walk[u].kind] = lists[walk[u].kind],
         walk[u].seen \cup Coming(u) \subseteq walk'[u].seen \cup Coming(u)'
  PROVE  Covered(u, n)'
<1>1. Fetched(walk[u].kind)' = Fetched(walk[u].kind)
  BY DEF Fetched
<1> QED
  BY <1>1 DEF Covered

\* A reader's walk is sound after a step that leaves the reader with the positions and the
\* presses of before, or with such as are covered.
LEMMA WalkStays ==
  ASSUME NEW v \in Readers, WalkInv(v), ListsTyped,
         walk'[v].intact => /\ walk[v].intact
                            /\ walk'[v].kind = walk[v].kind /\ walk'[v].wanted = walk[v].wanted
                            /\ walk[v].seen \cup Coming(v) \subseteq walk'[v].seen \cup Coming(v)'
                            /\ lists'[walk[v].kind] = lists[walk[v].kind]
                            /\ Reached(v, stored'[v])
                            /\ \A w \in Workers : Reached(v, local'[w][v])
                            /\ \A i \in Running(v)' : Turning(v, press'[i]),
         stored' \in [Readers -> Positions], local' \in [Workers -> [Readers -> Positions]],
         press' \in [Presses -> Pressed \cup {NoPress}]
  PROVE  WalkInv(v)'
<1> SUFFICES ASSUME walk'[v].intact
             PROVE  /\ walk'[v].kind \in Kinds
                    /\ Reached(v, stored[v])'
                    /\ \A w \in Workers : Reached(v, local[w][v])'
                    /\ \A i \in Running(v)' : Turning(v, press[i])'
  BY DEF WalkInv
<1>1. /\ walk[v].intact /\ walk[v].kind \in Kinds
      /\ walk'[v].kind = walk[v].kind /\ walk'[v].wanted = walk[v].wanted
      /\ walk[v].seen \cup Coming(v) \subseteq walk'[v].seen \cup Coming(v)'
      /\ lists'[walk[v].kind] = lists[walk[v].kind]
      /\ Reached(v, stored'[v])
      /\ \A w \in Workers : Reached(v, local'[w][v])
      /\ \A i \in Running(v)' : Turning(v, press'[i])
  BY DEF WalkInv
<1>2. \A n \in Nat : Covered(v, n) => Covered(v, n)'
  BY <1>1, CoveredStays
<1>3. ASSUME NEW at \in Positions, Reached(v, at)
      PROVE  at # NoPage => at.kind = walk'[v].kind /\ Covered(v, (at.page + 1) * PageSize)'
  <2>1. at # NoPage => at.page \in Nat /\ (at.page + 1) * PageSize \in Nat
    BY ListAssumption DEF Positions
  <2> QED
    BY <1>1, <1>2, <1>3, <2>1 DEF Reached
<1>4. ASSUME NEW i \in Running(v)'
      PROVE  Turning(v, press[i])'
  <2>1. Turning(v, press'[i])
    BY <1>1
  <2>2. press'[i] \in Pressed
    BY DEF Running
  <2>3. press'[i].page \in Nat /\ press'[i].page * PageSize \in Nat
    BY <2>2, ListAssumption DEF Pressed
  <2> QED
    BY <1>1, <1>2, <2>1, <2>3 DEF Turning
<1>5. Reached(v, stored[v])'
  BY <1>1, <1>3 DEF Reached
<1>6. ASSUME NEW w \in Workers PROVE Reached(v, local[w][v])'
  BY <1>1, <1>3 DEF Reached
<1> QED
  BY <1>1, <1>4, <1>5, <1>6

\* The steps of the other readers leave a reader alone.
LEMMA Aside ==
  ASSUME NEW v \in Readers, WalkInv(v), ListsTyped, ListsTyped',
         UNCHANGED lists, walk'[v] = walk[v],
         stored'[v] \in {stored[v], NoPage}, \A w \in Workers : local'[w][v] \in {local[w][v], NoPage},
         Running(v)' = Running(v), \A i \in Running(v) : press'[i] = press[i]
  PROVE  WalkInv(v)'
<1>1. Coming(v)' = Coming(v)
  <2>1. \A i \in Running(v)' : press'[i] = press[i]
    OBVIOUS
  <2> QED
    BY <2>1 DEF Coming
<1>2. ASSUME walk[v].intact
      PROVE  /\ Reached(v, stored'[v])
             /\ \A w \in Workers : Reached(v, local'[w][v])
             /\ \A i \in Running(v)' : Turning(v, press'[i])
  BY <1>2 DEF WalkInv, Reached
<1> QED
  BY <1>1, <1>2, WalkStays DEF ListsTyped

\* A press that begins.
LEMMA StartsTyped ==
  ASSUME ListsTyped, NEW i \in Presses, NEW w \in Workers, NEW u \in Readers, NEW kind \in Kinds,
         NEW page \in Nat, NEW opens \in BOOLEAN, opens => page = 0, Starts(i, w, u, kind, page, opens)
  PROVE  /\ press' \in [Presses -> Pressed \cup {NoPress}]
         /\ \A j \in Presses \ {i} : press'[j] = press[j]
         /\ \A v \in Readers \ {u} : Running(v)' = Running(v)
         /\ Running(u)' = Running(u) \cup {i} /\ i \notin Running(u)
         /\ press'[i].kind = kind /\ press'[i].pc = "render" /\ press'[i].opens = opens /\ press'[i].page = page
         /\ Coming(u)' = Coming(u) \/ walk'[u].kind # walk[u].kind
<1> DEFINE h == [pc |-> "render", worker |-> w, reader |-> u, kind |-> kind,
                 page |-> page, opens |-> opens, shows |-> {}]
<1>1. h \in Pressed
  BY DEF Pressed
<1>2. h # NoPress
  BY DEF NoPress
<1>3. h.kind = kind /\ h.pc = "render" /\ h.opens = opens /\ h.page = page /\ h.reader = u /\ h.worker = w
  OBVIOUS
<1>4. press[i] = NoPress /\ press' = [press EXCEPT ![i] = h]
  BY DEF Starts
<1> HIDE DEF h
<1>5. /\ press' \in [Presses -> Pressed \cup {NoPress}] /\ press'[i] = h
      /\ \A j \in Presses \ {i} : press'[j] = press[j]
  BY <1>1, <1>4 DEF ListsTyped
<1>6. \A v \in Readers \ {u} : Running(v)' = Running(v)
  BY <1>2, <1>3, <1>4, <1>5 DEF Running
<1>7. Running(u)' = Running(u) \cup {i} /\ i \notin Running(u)
  BY <1>2, <1>3, <1>4, <1>5 DEF Running
<1>8. ASSUME walk'[u].kind = walk[u].kind PROVE Coming(u)' = Coming(u)
  <2>1. {j \in Running(u)' : press'[j].pc = "send" /\ press'[j].kind = walk'[u].kind}
          = {j \in Running(u) : press[j].pc = "send" /\ press[j].kind = walk[u].kind}
    BY <1>3, <1>5, <1>7, <1>8 DEF Running
  <2>2. \A j \in Running(u) : press'[j] = press[j]
    BY <1>5, <1>7 DEF Running
  <2> QED
    BY <2>1, <2>2 DEF Coming
<1> QED
  BY <1>3, <1>5, <1>6, <1>7, <1>8

LEMMA OpenKeeps ==
  ASSUME ListsInv, NEW i \in Presses, NEW w \in Workers, NEW u \in Readers, OpenList(i, w, u)
  PROVE  ListsInv'
<1>1. PICK kind \in Kinds : Starts(i, w, u, kind, 0, TRUE)
  BY DEF OpenList
<1>2. /\ press' \in [Presses -> Pressed \cup {NoPress}]
      /\ \A j \in Presses \ {i} : press'[j] = press[j]
      /\ \A v \in Readers \ {u} : Running(v)' = Running(v)
      /\ Running(u)' = Running(u) \cup {i}
  <2>1. PICK opens \in BOOLEAN : opens = TRUE
    OBVIOUS
  <2>2. PICK page \in Nat : page = 0
    OBVIOUS
  <2>3. ListsTyped /\ Starts(i, w, u, kind, page, opens) /\ (opens => page = 0)
    BY <1>1, <2>1, <2>2 DEF ListsInv
  <2> QED
    BY <2>3, StartsTyped
<1>3. /\ ListsTyped /\ Numbered /\ walk' = [walk EXCEPT ![u].intact = FALSE]
      /\ UNCHANGED << lists, newest, scoped, stored, local, cut >>
  BY DEF OpenList, places, ListsInv
<1>4. /\ walk' \in [Readers -> Walks] /\ walk'[u].intact = FALSE
      /\ \A v \in Readers \ {u} : walk'[v] = walk[v]
      /\ \A v \in Readers : walk'[v].kind = walk[v].kind /\ walk'[v].wanted = walk[v].wanted
  BY <1>3 DEF ListsTyped, Walks
<1>5. ListsTyped'
  BY <1>2, <1>3, <1>4 DEF ListsTyped
<1>6. Numbered'
  BY <1>3, <1>4 DEF Numbered
<1>7. ASSUME NEW v \in Readers PROVE WalkInv(v)'
  <2>1. CASE v = u
    BY <1>4, <2>1 DEF WalkInv
  <2>2. CASE v # u
    <3>1. \A j \in Running(v) : press'[j] = press[j]
      <4>1. i \notin Running(v)
        BY <1>1, <2>2 DEF Starts, Running
      <4> QED
        BY <1>2, <4>1 DEF Running
    <3> QED
      BY <1>2, <1>3, <1>4, <1>5, <2>2, <3>1, Aside DEF ListsInv
  <2> QED
    BY <2>1, <2>2
<1> QED
  BY <1>5, <1>6, <1>7 DEF ListsInv

LEMMA TurnKeeps ==
  ASSUME ListsInv, NEW i \in Presses, NEW w \in Workers, NEW u \in Readers, NEW delta \in {1, -1},
         TurnPage(i, w, u, delta)
  PROVE  ListsInv'
<1> DEFINE now == Load(w, u)
           page == Turned(now.page, delta)
<1>1. /\ ListsTyped /\ Numbered /\ now # NoPage /\ Starts(i, w, u, now.kind, page, FALSE)
      /\ UNCHANGED << lists, newest, scoped, stored, local, cut, walk >>
  BY DEF TurnPage, places, ListsInv
<1>2. now \in {stored[u], local[w][u]} /\ now \in [kind : Kinds, page : Nat]
  BY <1>1 DEF Load, ListsTyped, Positions
<1>3. /\ now.page \in Nat /\ now.kind \in Kinds /\ page \in Nat /\ page <= now.page + 1
  BY <1>2 DEF Turned, Larger
<1>4. /\ press' \in [Presses -> Pressed \cup {NoPress}]
      /\ \A j \in Presses \ {i} : press'[j] = press[j]
      /\ \A v \in Readers \ {u} : Running(v)' = Running(v)
      /\ Running(u)' = Running(u) \cup {i} /\ i \notin Running(u)
      /\ press'[i].kind = now.kind /\ press'[i].pc = "render" /\ press'[i].opens = FALSE /\ press'[i].page = page
      /\ Coming(u)' = Coming(u)
  <2>1. PICK k \in Kinds, p \in Nat, o \in BOOLEAN : k = now.kind /\ p = page /\ o = FALSE /\ (o => p = 0)
    BY <1>3
  <2>2. Starts(i, w, u, k, p, o)
    BY <1>1, <2>1
  <2>3. walk'[u].kind = walk[u].kind /\ ListsTyped
    BY <1>1
  <2>4. /\ press' \in [Presses -> Pressed \cup {NoPress}]
        /\ \A j \in Presses \ {i} : press'[j] = press[j]
        /\ \A v \in Readers \ {u} : Running(v)' = Running(v)
        /\ Running(u)' = Running(u) \cup {i} /\ i \notin Running(u)
        /\ press'[i].kind = k /\ press'[i].pc = "render" /\ press'[i].opens = o /\ press'[i].page = p
        /\ Coming(u)' = Coming(u)
    BY <2>1, <2>2, <2>3, StartsTyped
  <2> HIDE DEF now, page
  <2> QED
    BY <2>1, <2>4
<1>5. ListsTyped' /\ Numbered'
  BY <1>1, <1>4 DEF ListsTyped, Numbered
<1>6. ASSUME NEW v \in Readers PROVE WalkInv(v)'
  <2>1. CASE v = u
    <3>1. ASSUME walk[u].intact
          PROVE  \A j \in Running(u)' : Turning(u, press'[j])
      <4>1. walk[u].kind \in Kinds /\ Reached(u, now) /\ \A j \in Running(u) : Turning(u, press[j])
        BY <1>2, <3>1 DEF ListsInv, WalkInv
      <4>2. now.kind = walk[u].kind /\ Covered(u, (now.page + 1) * PageSize)
        BY <1>1, <4>1 DEF Reached
      <4>3. PICK n \in Nat : n = now.page
        BY <1>3
      <4>4. /\ page * PageSize \in Nat /\ (n + 1) * PageSize \in Nat
            /\ page * PageSize <= (n + 1) * PageSize
        BY <1>3, <4>3, ListAssumption, SMTT(30)
      <4>5. Covered(u, page * PageSize)
        <5>1. lists[walk[u].kind] \in Seq(Nat)
          BY <1>1, <4>1 DEF ListsTyped
        <5> QED
          BY <4>1, <4>2, <4>3, <4>4, <5>1, CoveredLess
      <4>6. Turning(u, press'[i])
        BY <1>4, <4>2, <4>5 DEF Turning
      <4>7. \A j \in Running(u) : press'[j] = press[j]
        BY <1>4 DEF Running
      <4> QED
        BY <1>4, <4>1, <4>6, <4>7
    <3>2. walk[u].intact => Reached(u, stored'[u]) /\ \A x \in Workers : Reached(u, local'[x][u])
      BY <1>1 DEF ListsInv, WalkInv
    <3> QED
      BY <1>1, <1>4, <1>5, <2>1, <3>1, <3>2, WalkStays DEF ListsInv, ListsTyped
  <2>2. CASE v # u
    <3>1. i \notin Running(v)
      BY <1>1, <2>2 DEF Starts, Running
    <3>2. \A j \in Running(v) : press'[j] = press[j]
      BY <1>4, <3>1 DEF Running
    <3> QED
      BY <1>1, <1>4, <1>5, <2>2, <3>2, Aside DEF ListsInv
  <2> QED
    BY <2>1, <2>2
<1> QED
  BY <1>5, <1>6 DEF ListsInv

LEMMA RefuseKeeps ==
  ASSUME ListsInv, NEW i \in Presses, Refuse(i)
  PROVE  ListsInv'
<1>1. /\ ListsTyped /\ Numbered /\ press[i].pc = "render" /\ press' = [press EXCEPT ![i] = NoPress]
      /\ UNCHANGED << lists, newest, scoped, stored, local, cut, walk >>
  BY DEF Refuse, places, ListsInv
<1>2. /\ press' \in [Presses -> Pressed \cup {NoPress}] /\ press'[i] = NoPress
      /\ \A j \in Presses \ {i} : press'[j] = press[j]
  BY <1>1 DEF ListsTyped
<1>3. ListsTyped' /\ Numbered'
  BY <1>1, <1>2 DEF ListsTyped, Numbered
<1>4. ASSUME NEW v \in Readers PROVE WalkInv(v)'
  <2>1. /\ Running(v)' = Running(v) \ {i}
        /\ \A j \in Running(v)' : press'[j] = press[j]
    BY <1>2 DEF Running
  <2>2. Coming(v)' = Coming(v)
    <3>1. {j \in Running(v)' : press'[j].pc = "send" /\ press'[j].kind = walk'[v].kind}
            = {j \in Running(v) : press[j].pc = "send" /\ press[j].kind = walk[v].kind}
      BY <1>1, <2>1
    <3>2. \A j \in Running(v)' : press'[j] = press[j]
      BY <2>1
    <3> QED
      BY <3>1, <3>2 DEF Coming
  <2>3. ASSUME walk[v].intact
        PROVE  /\ Reached(v, stored'[v])
               /\ \A w \in Workers : Reached(v, local'[w][v])
               /\ \A j \in Running(v)' : Turning(v, press'[j])
    BY <1>1, <2>1, <2>3 DEF ListsInv, WalkInv
  <2> QED
    BY <1>1, <1>3, <2>2, <2>3, WalkStays DEF ListsInv, ListsTyped
<1> QED
  BY <1>3, <1>4 DEF ListsInv

LEMMA SendKeeps ==
  ASSUME ListsInv, NEW i \in Presses, SendPage(i)
  PROVE  ListsInv'
<1> DEFINE u == press[i].reader
<1>1. /\ ListsTyped /\ Numbered /\ press[i] # NoPress /\ press[i].pc = "send"
      /\ press' = [press EXCEPT ![i] = NoPress]
      /\ walk' = [walk EXCEPT ![u].seen = IF press[i].kind = walk[u].kind THEN @ \cup press[i].shows ELSE @]
      /\ UNCHANGED << lists, newest, scoped, stored, local, cut >>
  BY DEF SendPage, places, ListsInv
<1>2. /\ press' \in [Presses -> Pressed \cup {NoPress}] /\ press'[i] = NoPress
      /\ \A j \in Presses \ {i} : press'[j] = press[j]
      /\ press[i] \in Pressed /\ u \in Readers /\ press[i].shows \subseteq Nat
  BY <1>1 DEF ListsTyped, Pressed
<1>3. PICK more \in SUBSET Nat : more = IF press[i].kind = walk[u].kind THEN walk[u].seen \cup press[i].shows ELSE walk[u].seen
  BY <1>1, <1>2 DEF ListsTyped, Walks
<1>4. walk' = [walk EXCEPT ![u].seen = more]
  BY <1>1, <1>3
<1> HIDE DEF u
<1>5. /\ walk' \in [Readers -> Walks]
      /\ \A v \in Readers : /\ walk'[v].kind = walk[v].kind /\ walk'[v].wanted = walk[v].wanted
                            /\ walk'[v].intact = walk[v].intact
      /\ walk'[u].seen = more
      /\ \A v \in Readers \ {u} : walk'[v].seen = walk[v].seen
  <2> DEFINE m == [walk[u] EXCEPT !.seen = more]
  <2>1. walk \in [Readers -> Walks] /\ walk[u] \in Walks
    BY <1>1, <1>2 DEF ListsTyped
  <2>2. /\ m \in Walks /\ m.seen = more /\ m.kind = walk[u].kind /\ m.wanted = walk[u].wanted
        /\ m.intact = walk[u].intact
    BY <2>1 DEF Walks
  <2>3. walk' = [walk EXCEPT ![u] = m]
    BY <1>4
  <2> HIDE DEF m
  <2> QED
    BY <1>2, <2>1, <2>2, <2>3
<1>6. ListsTyped' /\ Numbered'
  BY <1>1, <1>2, <1>5 DEF ListsTyped, Numbered
<1>7. ASSUME NEW v \in Readers PROVE WalkInv(v)'
  <2>1. /\ Running(v)' = Running(v) \ {i}
        /\ \A j \in Running(v)' : press'[j] = press[j]
    BY <1>2 DEF Running
  <2>2. walk[v].seen \cup Coming(v) \subseteq walk'[v].seen \cup Coming(v)'
    <3> SUFFICES ASSUME NEW e \in Coming(v), e \notin walk'[v].seen
                 PROVE  e \in Coming(v)'
      <4>1. walk[v].seen \subseteq walk'[v].seen
        BY <1>3, <1>5
      <4> QED
        BY <4>1
    <3>1. PICK j \in Running(v) : press[j].pc = "send" /\ press[j].kind = walk[v].kind /\ e \in press[j].shows
      BY DEF Coming
    <3>2. j # i
      <4> SUFFICES ASSUME j = i PROVE FALSE
        OBVIOUS
      <4>1. v = u
        BY <3>1 DEF Running, u
      <4> QED
        BY <1>3, <1>5, <3>1, <4>1
    <3>3. j \in Running(v)' /\ press'[j] = press[j]
      BY <2>1, <3>1, <3>2
    <3> QED
      BY <1>5, <3>1, <3>3 DEF Coming
  <2>3. ASSUME walk[v].intact
        PROVE  /\ Reached(v, stored'[v])
               /\ \A w \in Workers : Reached(v, local'[w][v])
               /\ \A j \in Running(v)' : Turning(v, press'[j])
    BY <1>1, <2>1, <2>3 DEF ListsInv, WalkInv
  <2> QED
    BY <1>1, <1>5, <1>6, <2>2, <2>3, WalkStays DEF ListsInv, ListsTyped
<1> QED
  BY <1>6, <1>7 DEF ListsInv

LEMMA ScopeKeeps ==
  ASSUME ListsInv, NEW u \in Readers, ScopeChanges(u)
  PROVE  ListsInv'
<1>1. /\ ListsTyped /\ Numbered /\ scoped' \subseteq Readers
      /\ UNCHANGED << lists, newest, stored, local, cut, press, walk >>
  BY DEF ScopeChanges, ListsInv, ListsTyped
<1>2. ListsTyped' /\ Numbered'
  BY <1>1 DEF ListsTyped, Numbered
<1>3. ASSUME NEW v \in Readers PROVE WalkInv(v)'
  <2>1. Running(v)' = Running(v)
    BY <1>1 DEF Running
  <2> QED
    BY <1>1, <1>2, <2>1, Aside DEF ListsInv
<1> QED
  BY <1>2, <1>3 DEF ListsInv

LEMMA ExpiryKeeps ==
  ASSUME ListsInv, NEW u \in Readers, PositionExpires(u)
  PROVE  ListsInv'
<1>1. /\ ListsTyped /\ Numbered
      /\ \/ stored' = [stored EXCEPT ![u] = NoPage] /\ UNCHANGED local
         \/ \E w \in Workers : local' = [local EXCEPT ![w][u] = NoPage] /\ UNCHANGED stored
      /\ UNCHANGED << lists, newest, scoped, cut, press, walk >>
  BY DEF PositionExpires, ListsInv
<1>2. /\ stored' \in [Readers -> Positions] /\ local' \in [Workers -> [Readers -> Positions]]
      /\ \A v \in Readers : stored'[v] \in {stored[v], NoPage}
      /\ \A v \in Readers, w \in Workers : local'[w][v] \in {local[w][v], NoPage}
  <2>1. NoPage \in Positions /\ stored \in [Readers -> Positions] /\ local \in [Workers -> [Readers -> Positions]]
    BY <1>1 DEF ListsTyped, Positions
  <2>2. CASE stored' = [stored EXCEPT ![u] = NoPage] /\ UNCHANGED local
    BY <2>1, <2>2
  <2>3. CASE \E w \in Workers : local' = [local EXCEPT ![w][u] = NoPage] /\ UNCHANGED stored
    <3>1. PICK w \in Workers : local' = [local EXCEPT ![w][u] = NoPage] /\ UNCHANGED stored
      BY <2>3
    <3>2. local' = [local EXCEPT ![w] = [local[w] EXCEPT ![u] = NoPage]]
      BY <3>1
    <3>3. PICK m \in [Readers -> Positions] : m = [local[w] EXCEPT ![u] = NoPage]
      BY <2>1
    <3>4. local' = [local EXCEPT ![w] = m] /\ \A v \in Readers : m[v] \in {local[w][v], NoPage}
      BY <2>1, <3>2, <3>3
    <3> QED
      BY <2>1, <3>1, <3>4
  <2> QED
    BY <1>1, <2>2, <2>3
<1>3. ListsTyped' /\ Numbered'
  BY <1>1, <1>2 DEF ListsTyped, Numbered
<1>4. ASSUME NEW v \in Readers PROVE WalkInv(v)'
  <2>1. Running(v)' = Running(v)
    BY <1>1 DEF Running
  <2> QED
    BY <1>1, <1>2, <1>3, <2>1, Aside DEF ListsInv
<1> QED
  BY <1>3, <1>4 DEF ListsInv

LEMMA AddedKeeps ==
  ASSUME ListsInv, NEW kind \in Kinds, EntryAdded(kind)
  PROVE  ListsInv'
<1> DEFINE new == newest[kind] + 1
           old == lists[kind]
<1>1. /\ ListsTyped /\ Numbered
      /\ newest' = [newest EXCEPT ![kind] = new] /\ lists' = [lists EXCEPT ![kind] = << new >> \o old]
      /\ UNCHANGED << scoped, stored, local, cut, press, walk >>
  BY DEF EntryAdded, ListsInv
<1>2. new \in Nat /\ newest[kind] \in Nat /\ newest[kind] < new /\ old \in Seq(Nat) /\ << new >> \in Seq(Nat)
  BY <1>1 DEF ListsTyped
<1>3. /\ << new >> \o old \in Seq(Nat) /\ Len(<< new >> \o old) = Len(old) + 1
      /\ (<< new >> \o old)[1] = new
      /\ \A j \in 1..Len(old) : (<< new >> \o old)[j + 1] = old[j]
      /\ Len(old) \in Nat /\ DOMAIN old = 1..Len(old)
  <2> HIDE DEF new, old
  <2>1. Len(old) \in Nat /\ DOMAIN old = 1..Len(old)
    BY <1>2, LenProperties
  <2>2. << new >> \o old \in Seq(Nat) /\ Len(<< new >> \o old) = Len(old) + 1
    BY <1>2, ConcatProperties
  <2>3. \A j \in 1..(1 + Len(old)) : (<< new >> \o old)[j] = IF j <= 1 THEN << new >>[j] ELSE old[j - 1]
    BY <1>2, ConcatProperties
  <2>4. \A j \in 1..Len(old) : j + 1 \in 1..(1 + Len(old)) /\ ~(j + 1 <= 1) /\ (j + 1) - 1 = j
    BY <2>1
  <2>5. \A j \in 1..Len(old) : (<< new >> \o old)[j + 1] = old[j]
    BY <2>3, <2>4
  <2>6. 1 \in 1..(1 + Len(old)) /\ << new >>[1] = new
    BY <2>1
  <2> QED
    BY <2>1, <2>2, <2>3, <2>5, <2>6
<1>4. PICK s \in Seq(Nat) : s = << new >> \o old
  BY <1>3
<1>5. /\ lists' \in [Kinds -> Seq(Nat)] /\ newest' \in [Kinds -> Nat]
      /\ lists'[kind] = s /\ newest'[kind] = new
      /\ \A k \in Kinds \ {kind} : lists'[k] = lists[k] /\ newest'[k] = newest[k]
      /\ \A k \in Kinds : newest[k] <= newest'[k]
  <2> HIDE DEF new, old
  <2>1. lists' = [lists EXCEPT ![kind] = s]
    BY <1>1, <1>4
  <2>2. newest \in [Kinds -> Nat] /\ lists \in [Kinds -> Seq(Nat)]
    BY <1>1 DEF ListsTyped
  <2> QED
    BY <1>1, <1>2, <2>1, <2>2
<1>6. ListsTyped'
  BY <1>1, <1>5 DEF ListsTyped
<1>7. Numbered'
  <2>1. ASSUME NEW k \in Kinds PROVE \A e \in EntriesOf(lists'[k]) : e <= newest'[k]
    <3>1. CASE k # kind
      BY <1>1, <1>5, <3>1 DEF Numbered
    <3>2. CASE k = kind
      <4>a. lists'[k] = s /\ newest'[k] = new
        BY <1>5, <3>2
      <4>b. DOMAIN s = 1..(Len(old) + 1)
        BY <1>3, <1>4, LenProperties
      <4> SUFFICES ASSUME NEW j \in 1..(Len(old) + 1) PROVE s[j] <= new
        BY <4>a, <4>b DEF EntriesOf
      <4>1. CASE j = 1
        BY <1>2, <1>3, <1>4, <4>1
      <4>2. CASE j # 1
        <5>1. j - 1 \in 1..Len(old) /\ (j - 1) + 1 = j
          BY <1>3, <4>2
        <5>2. s[j] = old[j - 1] /\ old[j - 1] \in EntriesOf(old) /\ old[j - 1] \in Nat
          BY <1>2, <1>3, <1>4, <5>1, LenProperties DEF EntriesOf
        <5>3. old[j - 1] <= newest[kind]
          BY <1>1, <5>2 DEF Numbered
        <5> QED
          BY <1>2, <5>2, <5>3
      <4> QED
        BY <4>1, <4>2
    <3> QED
      BY <3>1, <3>2
  <2>2. ASSUME NEW u \in Readers, walk'[u].kind \in Kinds, NEW e \in walk'[u].wanted
        PROVE  e <= newest'[walk'[u].kind]
    <3>1. e <= newest[walk[u].kind] /\ walk[u].kind \in Kinds
      BY <1>1, <2>2 DEF Numbered
    <3>2. e \in Nat /\ newest[walk[u].kind] \in Nat /\ newest'[walk[u].kind] \in Nat
      BY <1>1, <1>5, <2>2, <3>1 DEF ListsTyped, Walks
    <3> QED
      BY <1>1, <1>5, <3>1, <3>2
  <2> QED
    BY <2>1, <2>2 DEF Numbered
<1>8. ASSUME NEW v \in Readers PROVE WalkInv(v)'
  <2>1. Running(v)' = Running(v)
    BY <1>1 DEF Running
  <2>2. Coming(v)' = Coming(v)
    BY <1>1, <2>1 DEF Coming
  <2> SUFFICES ASSUME walk[v].intact, walk[v].kind \in Kinds
               PROVE  \A n \in Nat : Covered(v, n) => Covered(v, n)'
    <3>1. \A at \in Positions : at # NoPage => (at.page + 1) * PageSize \in Nat
      BY ListAssumption DEF Positions
    <3>2. \A h \in Pressed : h.page * PageSize \in Nat
      BY ListAssumption DEF Pressed
    <3>3. stored[v] \in Positions /\ (\A w \in Workers : local[w][v] \in Positions)
          /\ \A j \in Running(v) : press[j] \in Pressed
      BY <1>1 DEF ListsTyped, Running
    <3>4. ASSUME walk[v].intact
          PROVE  /\ walk[v].kind \in Kinds
                 /\ \A n \in Nat : Covered(v, n) => Covered(v, n)'
                 /\ Reached(v, stored[v]) /\ \A w \in Workers : Reached(v, local[w][v])
                 /\ \A j \in Running(v) : Turning(v, press[j])
      BY <3>4 DEF ListsInv, WalkInv
    <3>5. ASSUME walk[v].intact
          PROVE  /\ Reached(v, stored[v])' /\ \A w \in Workers : Reached(v, local[w][v])'
                 /\ \A j \in Running(v)' : Turning(v, press[j])'
      <4>1. Reached(v, stored[v])'
        BY <1>1, <3>1, <3>3, <3>4, <3>5 DEF Reached
      <4>2. ASSUME NEW w \in Workers PROVE Reached(v, local[w][v])'
        BY <1>1, <3>1, <3>3, <3>4, <3>5 DEF Reached
      <4>3. ASSUME NEW j \in Running(v)' PROVE Turning(v, press[j])'
        BY <1>1, <2>1, <3>2, <3>3, <3>4, <3>5 DEF Turning
      <4> QED
        BY <4>1, <4>2, <4>3
    <3> QED
      BY <1>1, <3>4, <3>5 DEF WalkInv
  <2>3. CASE walk[v].kind # kind
    <3>1. lists'[walk[v].kind] = lists[walk[v].kind]
      BY <1>5, <2>3
    <3> QED
      BY <1>1, <2>2, <3>1, CoveredStays
  <2>4. CASE walk[v].kind = kind
    <3> SUFFICES ASSUME NEW n \in Nat, Covered(v, n),
                        NEW j \in DOMAIN Fetched(kind)', j <= n, Fetched(kind)'[j] \in walk[v].wanted
                 PROVE  Fetched(kind)'[j] \in walk[v].seen \cup Coming(v)
      BY <1>1, <2>2, <2>4 DEF Covered
    <3>1. /\ DOMAIN Fetched(kind) = 1..Smaller(Len(old), FetchLimit) /\ Len(lists[kind]) = Len(old)
          /\ \A m \in DOMAIN Fetched(kind) : Fetched(kind)[m] = old[m]
      BY <1>2, FetchedEntries
    <3>2. /\ DOMAIN Fetched(kind)' = 1..Smaller(Len(old) + 1, FetchLimit)
          /\ \A m \in DOMAIN Fetched(kind)' : Fetched(kind)'[m] = s[m]
      <4>1. lists'[kind] \in Seq(Nat) /\ Len(lists'[kind]) = Len(old) + 1
        BY <1>3, <1>4, <1>5
      <4>2. PICK m \in Nat : m = Smaller(Len(lists'[kind]), FetchLimit)
        BY <4>1, <1>3, ListAssumption DEF Smaller
      <4>3. Fetched(kind)' = SubSeq(lists'[kind], 1, m)
        BY <4>2 DEF Fetched
      <4>4. DOMAIN SubSeq(s, 1, m) = 1..m /\ \A x \in 1..m : SubSeq(s, 1, m)[x] = s[x]
        BY <1>5, <4>1, <4>2, FirstEntries
      <4>5. Len(lists'[kind]) = Len(old) + 1 /\ lists'[kind] = s
        BY <1>5, <4>1
      <4>6. m = Smaller(Len(old) + 1, FetchLimit) /\ Fetched(kind)' = SubSeq(s, 1, m)
        BY <4>2, <4>3, <4>5
      <4> QED
        BY <4>4, <4>6
    <3>3. j # 1
      <4> SUFFICES ASSUME j = 1 PROVE FALSE
        OBVIOUS
      <4>1. new \in walk[v].wanted
        BY <1>3, <1>4, <3>2
      <4>2. new <= newest[kind]
        BY <1>1, <2>4, <4>1 DEF Numbered
      <4> QED
        BY <1>2, <4>2
    <3>4. /\ j - 1 \in 1..Len(old) /\ (j - 1) + 1 = j /\ j - 1 \in 1..Smaller(Len(old), FetchLimit)
          /\ j - 1 <= n
      BY <1>3, <3>2, <3>3, ListAssumption, SMTT(30) DEF Smaller
    <3>5. s[j] = old[j - 1] /\ Fetched(kind)[j - 1] = s[j] /\ Fetched(kind)'[j] = s[j]
      BY <1>3, <1>4, <3>1, <3>2, <3>4
    <3> QED
      BY <2>4, <3>1, <3>4, <3>5 DEF Covered
  <2> QED
    BY <2>3, <2>4
<1> QED
  BY <1>6, <1>7, <1>8 DEF ListsInv

LEMMA BrokenWalks ==
  ASSUME ListsTyped, NEW R, walk' = Broken(R)
  PROVE  /\ walk' \in [Readers -> Walks]
         /\ \A v \in Readers : /\ walk'[v].kind = walk[v].kind /\ walk'[v].wanted = walk[v].wanted
                               /\ walk'[v].seen = walk[v].seen
                               /\ walk'[v].intact => walk[v].intact /\ v \notin R
<1>1. ASSUME NEW v \in Readers
      PROVE  /\ walk'[v] \in Walks
             /\ walk'[v].kind = walk[v].kind /\ walk'[v].wanted = walk[v].wanted
             /\ walk'[v].seen = walk[v].seen
             /\ walk'[v].intact => walk[v].intact /\ v \notin R
  <2> DEFINE m == [walk[v] EXCEPT !.intact = @ /\ v \notin R]
  <2>1. walk[v] \in Walks /\ walk'[v] = m
    BY DEF ListsTyped, Broken
  <2>2. m \in Walks /\ m.kind = walk[v].kind /\ m.wanted = walk[v].wanted /\ m.seen = walk[v].seen
    BY <2>1 DEF Walks
  <2>3. m.intact = (walk[v].intact /\ v \notin R)
    BY <2>1 DEF Walks
  <2> HIDE DEF m
  <2> QED
    BY <2>1, <2>2, <2>3
<1>2. walk' = [v \in Readers |-> walk'[v]]
  BY DEF Broken
<1> QED
  BY <1>1, <1>2

\* Entries that go leave those that stay in their order.
LEMMA RemovedKeeps ==
  ASSUME ListsInv, NEW kind \in Kinds, EntryRemoved(kind)
  PROVE  ListsInv'
<1> DEFINE R == {u \in Readers : walk[u].kind = kind}
<1>1. /\ ListsTyped /\ Numbered /\ walk' = Broken(R)
      /\ UNCHANGED << newest, scoped, stored, local, cut, press >>
  BY DEF EntryRemoved, ListsInv
<1>2. PICK n \in DOMAIN lists[kind] :
        lists' = [lists EXCEPT ![kind] = SubSeq(@, 1, n - 1) \o SubSeq(@, n + 1, Len(@))]
  BY DEF EntryRemoved
<1>3. PICK old \in Seq(Nat) : old = lists[kind]
  BY <1>1 DEF ListsTyped
<1>4. n \in 1..Len(old) /\ Len(old) \in Nat /\ DOMAIN old = 1..Len(old)
  BY <1>2, <1>3, LenProperties
<1>5. PICK a \in Seq(Nat) : a = SubSeq(old, 1, n - 1) /\ EntriesOf(a) \subseteq EntriesOf(old)
  <2>1. \A i \in 1..(n - 1) : i \in DOMAIN old /\ old[i] \in EntriesOf(old) /\ old[i] \in Nat
    BY <1>4, LenProperties DEF EntriesOf
  <2>2. n - 1 \in Int /\ 1 \in Int
    BY <1>4
  <2>3. SubSeq(old, 1, n - 1) \in Seq(EntriesOf(old)) /\ SubSeq(old, 1, n - 1) \in Seq(Nat)
    BY <2>1, <2>2, SubSeqProperties
  <2>4. EntriesOf(SubSeq(old, 1, n - 1)) \subseteq EntriesOf(old)
    <3>1. PICK b : b = SubSeq(old, 1, n - 1)
      OBVIOUS
    <3>2. \A i \in DOMAIN b : b[i] \in EntriesOf(old)
      BY <2>3, <3>1, LenProperties
    <3>3. EntriesOf(b) \subseteq EntriesOf(old)
      BY <3>2 DEF EntriesOf
    <3> QED
      BY <3>1, <3>3
  <2> QED
    BY <2>3, <2>4
<1>6. PICK z \in Seq(Nat) : z = SubSeq(old, n + 1, Len(old)) /\ EntriesOf(z) \subseteq EntriesOf(old)
  <2>1. \A i \in (n + 1)..Len(old) : i \in DOMAIN old /\ old[i] \in EntriesOf(old) /\ old[i] \in Nat
    BY <1>4, LenProperties DEF EntriesOf
  <2>2. n + 1 \in Int /\ Len(old) \in Int
    BY <1>4
  <2>3. SubSeq(old, n + 1, Len(old)) \in Seq(EntriesOf(old)) /\ SubSeq(old, n + 1, Len(old)) \in Seq(Nat)
    BY <2>1, <2>2, SubSeqProperties
  <2>4. EntriesOf(SubSeq(old, n + 1, Len(old))) \subseteq EntriesOf(old)
    <3>1. PICK b : b = SubSeq(old, n + 1, Len(old))
      OBVIOUS
    <3>2. \A i \in DOMAIN b : b[i] \in EntriesOf(old)
      BY <2>3, <3>1, LenProperties
    <3>3. EntriesOf(b) \subseteq EntriesOf(old)
      BY <3>2 DEF EntriesOf
    <3> QED
      BY <3>1, <3>3
  <2> QED
    BY <2>3, <2>4
<1>7. PICK s \in Seq(Nat) : s = a \o z /\ EntriesOf(s) \subseteq EntriesOf(old)
  <2>1. a \o z \in Seq(Nat) /\ Len(a \o z) = Len(a) + Len(z) /\ Len(a) \in Nat /\ Len(z) \in Nat
        /\ \A i \in 1..Len(a) + Len(z) : (a \o z)[i] = IF i <= Len(a) THEN a[i] ELSE z[i - Len(a)]
    BY ConcatProperties, LenProperties
  <2>2. DOMAIN a = 1..Len(a) /\ DOMAIN z = 1..Len(z) /\ DOMAIN (a \o z) = 1..(Len(a) + Len(z))
    BY <2>1, LenProperties
  <2>3. ASSUME NEW i \in DOMAIN (a \o z) PROVE (a \o z)[i] \in EntriesOf(old)
    <3>1. CASE i <= Len(a)
      <4>1. i \in 1..Len(a)
        BY <2>1, <2>2, <3>1
      <4>2. (a \o z)[i] = a[i] /\ a[i] \in EntriesOf(a)
        BY <2>1, <2>2, <3>1, <4>1 DEF EntriesOf
      <4> QED
        BY <1>5, <4>2
    <3>2. CASE ~(i <= Len(a))
      <4>1. i - Len(a) \in 1..Len(z)
        BY <2>1, <2>2, <3>2
      <4> QED
        BY <1>6, <2>1, <2>2, <3>2, <4>1 DEF EntriesOf
    <3> QED
      BY <3>1, <3>2
  <2> QED
    BY <2>1, <2>3 DEF EntriesOf
<1>8. /\ lists' \in [Kinds -> Seq(Nat)] /\ lists'[kind] = s
      /\ \A k \in Kinds \ {kind} : lists'[k] = lists[k]
      /\ \A k \in Kinds : EntriesOf(lists'[k]) \subseteq EntriesOf(lists[k])
  <2>1. lists' = [lists EXCEPT ![kind] = s]
    BY <1>2, <1>3, <1>5, <1>6, <1>7
  <2>2. lists \in [Kinds -> Seq(Nat)]
    BY <1>1 DEF ListsTyped
  <2> QED
    BY <1>3, <1>7, <2>1, <2>2
<1>9. /\ walk' \in [Readers -> Walks]
      /\ \A v \in Readers : /\ walk'[v].kind = walk[v].kind /\ walk'[v].wanted = walk[v].wanted
                            /\ walk'[v].seen = walk[v].seen
                            /\ walk'[v].intact => walk[v].intact /\ v \notin R
  <2> HIDE DEF R
  <2> QED
    BY <1>1, BrokenWalks
<1>10. ListsTyped' /\ Numbered'
  BY <1>1, <1>8, <1>9 DEF ListsTyped, Numbered
<1>11. ASSUME NEW v \in Readers PROVE WalkInv(v)'
  <2>1. Running(v)' = Running(v)
    BY <1>1 DEF Running
  <2>2. Coming(v)' = Coming(v)
    BY <1>1, <1>9, <2>1 DEF Coming
  <2>3. ASSUME walk'[v].intact
        PROVE  /\ lists'[walk[v].kind] = lists[walk[v].kind]
               /\ Reached(v, stored'[v])
               /\ \A w \in Workers : Reached(v, local'[w][v])
               /\ \A j \in Running(v)' : Turning(v, press'[j])
    BY <1>1, <1>8, <1>9, <2>1, <2>3 DEF ListsInv, WalkInv
  <2> QED
    BY <1>1, <1>9, <1>10, <2>2, <2>3, WalkStays DEF ListsInv, ListsTyped
<1> QED
  BY <1>10, <1>11 DEF ListsInv

LEMMA SwitchKeeps ==
  ASSUME ListsInv, NEW w \in Workers, SwitchRedis(w)
  PROVE  ListsInv'
<1>1. /\ ListsTyped /\ Numbered /\ walk' = Broken(Readers) /\ cut' \subseteq Workers
      /\ UNCHANGED << lists, newest, scoped, stored, local, press >>
  BY DEF SwitchRedis, ListsInv, ListsTyped
<1>2. /\ walk' \in [Readers -> Walks]
      /\ \A v \in Readers : /\ walk'[v].kind = walk[v].kind /\ walk'[v].wanted = walk[v].wanted
                            /\ ~walk'[v].intact
  BY <1>1, BrokenWalks
<1> QED
  BY <1>1, <1>2 DEF ListsInv, ListsTyped, Numbered, WalkInv

LEMMA RestartKeeps ==
  ASSUME ListsInv, NEW w \in Workers, RestartWorker(w)
  PROVE  ListsInv'
<1> DEFINE lost == {i \in Presses : press[i] # NoPress /\ press[i].worker = w}
           R == {press[i].reader : i \in lost}
<1>1. /\ ListsTyped /\ Numbered /\ walk' = Broken(R)
      /\ local' = [local EXCEPT ![w] = [u \in Readers |-> NoPage]]
      /\ press' = [i \in Presses |-> IF i \in lost THEN NoPress ELSE press[i]]
      /\ UNCHANGED << lists, newest, scoped, stored, cut >>
  BY DEF RestartWorker, ListsInv
<1>2. /\ walk' \in [Readers -> Walks]
      /\ \A v \in Readers : /\ walk'[v].kind = walk[v].kind /\ walk'[v].wanted = walk[v].wanted
                            /\ walk'[v].seen = walk[v].seen
                            /\ walk'[v].intact => walk[v].intact /\ v \notin R
  <2> HIDE DEF R
  <2> QED
    BY <1>1, BrokenWalks
<1>3. /\ press' \in [Presses -> Pressed \cup {NoPress}]
      /\ local' \in [Workers -> [Readers -> Positions]]
      /\ \A x \in Workers, v \in Readers : local'[x][v] \in {local[x][v], NoPage}
  <2>1. press' \in [Presses -> Pressed \cup {NoPress}]
    BY <1>1 DEF ListsTyped
  <2>2. [u \in Readers |-> NoPage] \in [Readers -> Positions]
    BY DEF Positions
  <2> QED
    BY <1>1, <2>1, <2>2 DEF ListsTyped
<1>4. ListsTyped' /\ Numbered'
  BY <1>1, <1>2, <1>3 DEF ListsTyped, Numbered
<1>5. ASSUME NEW v \in Readers PROVE WalkInv(v)'
  <2>1. ASSUME v \notin R
        PROVE  Running(v)' = Running(v) /\ \A j \in Running(v) : press'[j] = press[j]
    <3>1. \A j \in Running(v) : j \notin lost
      BY <2>1 DEF Running
    <3>2. \A j \in Presses : press'[j] = IF j \in lost THEN NoPress ELSE press[j]
      BY <1>1
    <3> QED
      BY <3>1, <3>2 DEF Running
  <2> HIDE DEF R
  <2>2. ASSUME v \notin R PROVE Coming(v)' = Coming(v)
    <3>1. {j \in Running(v)' : press'[j].pc = "send" /\ press'[j].kind = walk'[v].kind}
            = {j \in Running(v) : press[j].pc = "send" /\ press[j].kind = walk[v].kind}
      BY <1>2, <2>1, <2>2
    <3>2. \A j \in Running(v) : press'[j] = press[j]
      BY <2>1, <2>2
    <3> QED
      BY <3>1, <3>2 DEF Coming
  <2>3. ASSUME walk'[v].intact
        PROVE  /\ Reached(v, stored'[v])
               /\ \A x \in Workers : Reached(v, local'[x][v])
               /\ \A j \in Running(v)' : Turning(v, press'[j])
    <3>1. walk[v].intact /\ v \notin R
      BY <1>2, <2>3
    <3>2. /\ Reached(v, stored[v]) /\ \A x \in Workers : Reached(v, local[x][v])
          /\ \A j \in Running(v) : Turning(v, press[j])
      BY <3>1 DEF ListsInv, WalkInv
    <3>3. Reached(v, NoPage)
      BY DEF Reached
    <3> QED
      BY <1>1, <1>3, <2>1, <3>1, <3>2, <3>3
  <2> QED
    BY <1>1, <1>2, <1>4, <2>2, <2>3, WalkStays DEF ListsInv, ListsTyped
<1> QED
  BY <1>4, <1>5 DEF ListsInv

\* A page is read, saved and made ready: what stands on the pages up to it is covered.
LEMMA RenderKeeps ==
  ASSUME ListsInv, NEW i \in Presses, RenderPage(i)
  PROVE  ListsInv'
<1>1. /\ ListsTyped /\ Numbered /\ press[i] # NoPress /\ press[i].pc = "render"
      /\ UNCHANGED << lists, newest, scoped, cut >>
  BY DEF RenderPage, places, ListsInv
<1>2. PICK h \in Pressed : h = press[i]
  BY <1>1 DEF ListsTyped
<1>3. PICK k \in Kinds, u \in Readers, w \in Workers : k = h.kind /\ u = h.reader /\ w = h.worker
  BY DEF Pressed
<1>4. PICK F \in Seq(Nat) : F = Fetched(k) /\ Len(F) \in Nat /\ DOMAIN F = 1..Len(F) /\ EntriesOf(F) \subseteq EntriesOf(lists[k])
  <2>1. lists[k] \in Seq(Nat)
    BY <1>1 DEF ListsTyped
  <2>2. Fetched(k) \in Seq(Nat) /\ Len(Fetched(k)) \in Nat /\ DOMAIN Fetched(k) = 1..Len(Fetched(k))
        /\ DOMAIN Fetched(k) \subseteq DOMAIN lists[k]
        /\ \A j \in DOMAIN Fetched(k) : Fetched(k)[j] = lists[k][j]
    BY <2>1, FetchedEntries
  <2>3. EntriesOf(Fetched(k)) \subseteq EntriesOf(lists[k])
    BY <2>2 DEF EntriesOf
  <2> QED
    BY <2>2, <2>3
<1>5. h.page \in Nat /\ h.opens \in BOOLEAN
  BY DEF Pressed
<1>6. PICK at \in Nat : at = ClampPage(h.page, Len(F)) /\ at <= h.page
  BY <1>4, <1>5, Paging
<1>7. PICK shows \in SUBSET Nat : shows = PageOf(F, at)
  BY ShownOnPage
<1>8. PICK position \in Positions : position = [kind |-> k, page |-> at] /\ position # NoPage
                               /\ position.kind = k /\ position.page = at
  <2> DEFINE x == [kind |-> k, page |-> at]
  <2>1. x \in Positions /\ x.kind = k /\ x.page = at
    BY DEF Positions
  <2>2. NoPage.kind = "none" /\ "none" \notin Kinds
    BY ListAssumption DEF NoPage
  <2>3. x # NoPage
    BY <2>1, <2>2
  <2> QED
    BY <2>1, <2>3
<1>9. /\ Save(w, u, position)
      /\ press' = [press EXCEPT ![i] = [h EXCEPT !.pc = "send", !.page = at, !.shows = shows]]
  <2>1. /\ Save(press[i].worker, press[i].reader,
                [kind |-> press[i].kind, page |-> ClampPage(press[i].page, Len(Fetched(press[i].kind)))])
        /\ press' = [press EXCEPT ![i].pc = "send",
                       ![i].page = ClampPage(press[i].page, Len(Fetched(press[i].kind))),
                       ![i].shows = PageOf(Fetched(press[i].kind),
                                           ClampPage(press[i].page, Len(Fetched(press[i].kind))))]
    BY DEF RenderPage
  <2>2. Save(w, u, position)
    BY <1>2, <1>3, <1>4, <1>6, <1>8, <2>1
  <2>3. press' = [press EXCEPT ![i].pc = "send", ![i].page = at, ![i].shows = shows]
    BY <1>2, <1>3, <1>4, <1>6, <1>7, <2>1
  <2>4. [press EXCEPT ![i].pc = "send", ![i].page = at, ![i].shows = shows]
          = [press EXCEPT ![i] = [press[i] EXCEPT !.pc = "send", !.page = at, !.shows = shows]]
    BY <1>1 DEF ListsTyped
  <2> QED
    BY <1>2, <2>2, <2>3, <2>4
<1>10. PICK m \in Pressed : /\ m = [h EXCEPT !.pc = "send", !.page = at, !.shows = shows]
                            /\ m # NoPress /\ m.pc = "send" /\ m.shows = shows /\ m.kind = k
                            /\ m.reader = u /\ m.worker = w /\ m.page = at
  <2> DEFINE x == [h EXCEPT !.pc = "send", !.page = at, !.shows = shows]
  <2>1. x \in Pressed
    <3>1. h.opens => at = 0
      <4>1. h.opens => h.page = 0
        BY DEF Pressed
      <4>2. h.page = 0 => at = 0
        BY <1>5, <1>6
      <4> QED
        BY <4>1, <4>2
    <3>2. x \in [pc : {"render", "send"}, worker : Workers, reader : Readers, kind : Kinds, page : Nat,
                  opens : BOOLEAN, shows : SUBSET Nat]
      BY DEF Pressed
    <3>3. x.opens = h.opens /\ x.page = at
      BY DEF Pressed
    <3> HIDE DEF x
    <3> QED
      BY <3>1, <3>2, <3>3 DEF Pressed
  <2>2. x.pc = "send" /\ x.shows = shows /\ x.kind = h.kind /\ x.reader = h.reader /\ x.worker = h.worker /\ x.page = at
    BY DEF Pressed
  <2>3. x # NoPress
    BY <2>2 DEF NoPress
  <2> QED
    BY <1>3, <2>1, <2>2, <2>3
<1>11. /\ press' \in [Presses -> Pressed \cup {NoPress}] /\ press'[i] = m
       /\ \A j \in Presses \ {i} : press'[j] = press[j]
  <2>1. press' = [press EXCEPT ![i] = m]
    BY <1>9, <1>10
  <2> QED
    BY <1>1, <2>1 DEF ListsTyped
<1>12. /\ \A v \in Readers : Running(v)' = Running(v)
       /\ i \in Running(u) /\ \A v \in Readers \ {u} : i \notin Running(v)
  <2>1. /\ press[i] # NoPress /\ press[i].reader = u
        /\ press'[i] # NoPress /\ press'[i].reader = u
    BY <1>1, <1>2, <1>3, <1>10, <1>11
  <2> QED
    BY <1>11, <2>1 DEF Running
<1>13. /\ stored' \in [Readers -> Positions] /\ local' \in [Workers -> [Readers -> Positions]]
       /\ \A v \in Readers \ {u} : stored'[v] = stored[v] /\ \A x \in Workers : local'[x][v] = local[x][v]
       /\ stored'[u] = (IF w \in cut THEN stored[u] ELSE position)
       /\ \A x \in Workers : local'[x][u] = IF w \in cut /\ x = w THEN position ELSE local[x][u]
  <2>1. stored \in [Readers -> Positions] /\ local \in [Workers -> [Readers -> Positions]]
    BY <1>1 DEF ListsTyped
  <2>2. CASE w \in cut
    <3>1. stored' = stored /\ local' = [local EXCEPT ![w][u] = position]
      BY <1>9, <2>2 DEF Save
    <3>2. local' = [local EXCEPT ![w] = [local[w] EXCEPT ![u] = position]]
      BY <3>1
    <3>3. PICK b \in [Readers -> Positions] : b = [local[w] EXCEPT ![u] = position]
      BY <2>1
    <3>4. /\ local' = [local EXCEPT ![w] = b] /\ b[u] = position
          /\ \A v \in Readers \ {u} : b[v] = local[w][v]
      BY <2>1, <3>2, <3>3
    <3> QED
      BY <2>1, <2>2, <3>1, <3>4
  <2>3. CASE w \notin cut
    BY <1>9, <2>1, <2>3 DEF Save
  <2> QED
    BY <2>2, <2>3
<1>14. walk' = IF h.opens
               THEN [walk EXCEPT ![u] = [kind |-> k, wanted |-> EntriesOf(F), seen |-> {},
                                         intact |-> Running(u) = {i} /\ Alone(w, u)]]
               ELSE walk
  BY <1>2, <1>3, <1>4 DEF RenderPage
<1>15. ASSUME NEW v \in Readers \ {u}
       PROVE  walk'[v] = walk[v]
  BY <1>1, <1>14 DEF ListsTyped
<1>16. ASSUME h.opens
       PROVE  /\ walk'[u] \in Walks /\ walk'[u].kind = k /\ walk'[u].wanted = EntriesOf(F) /\ walk'[u].seen = {}
              /\ walk'[u].intact => Running(u) = {i} /\ Alone(w, u)
  <2> DEFINE x == [kind |-> k, wanted |-> EntriesOf(F), seen |-> {},
                   intact |-> Running(u) = {i} /\ Alone(w, u)]
  <2>1. walk'[u] = x
    BY <1>1, <1>14, <1>16 DEF ListsTyped
  <2>2. EntriesOf(F) \subseteq Nat
    BY <1>4, LenProperties DEF EntriesOf
  <2>3. (Running(u) = {i} /\ Alone(w, u)) \in BOOLEAN
    OBVIOUS
  <2>4. x \in Walks
    BY <2>2, <2>3 DEF Walks
  <2>5. x.kind = k /\ x.wanted = EntriesOf(F) /\ x.seen = {} /\ x.intact = (Running(u) = {i} /\ Alone(w, u))
    OBVIOUS
  <2> HIDE DEF x
  <2> QED
    BY <2>1, <2>4, <2>5
<1>17. ListsTyped'
  <2>1. walk' \in [Readers -> Walks]
    BY <1>1, <1>14, <1>16 DEF ListsTyped
  <2> QED
    BY <1>1, <1>11, <1>13, <2>1 DEF ListsTyped
<1>18. Numbered'
  <2>1. ASSUME NEW v \in Readers, walk'[v].kind \in Kinds, NEW e \in walk'[v].wanted
        PROVE  e <= newest[walk'[v].kind]
    <3>1. CASE v = u /\ h.opens
      BY <1>1, <1>4, <1>16, <2>1, <3>1 DEF Numbered
    <3>2. CASE ~(v = u /\ h.opens)
      <4>1. walk'[v] = walk[v]
        BY <1>14, <1>15, <3>2
      <4> QED
        BY <1>1, <2>1, <4>1 DEF Numbered
    <3> QED
      BY <3>1, <3>2
  <2> QED
    BY <1>1, <2>1 DEF Numbered
<1>19. ASSUME NEW v \in Readers, v # u PROVE WalkInv(v)'
  <2>1. \A j \in Running(v) : press'[j] = press[j]
    BY <1>11, <1>12, <1>19 DEF Running
  <2>2. /\ walk'[v] = walk[v] /\ stored'[v] \in {stored[v], NoPage}
        /\ \A x \in Workers : local'[x][v] \in {local[x][v], NoPage}
        /\ Running(v)' = Running(v)
    BY <1>12, <1>13, <1>15, <1>19
  <2> QED
    BY <1>1, <1>17, <2>1, <2>2, Aside DEF ListsInv
\* The page that is read shows what stands on it.
<1>20. ASSUME walk'[u].kind = k, NEW j \in DOMAIN F, j <= (at + 1) * PageSize,
              (j <= at * PageSize /\ F[j] \in walk'[u].wanted) => F[j] \in walk'[u].seen \cup Coming(u)',
              F[j] \in walk'[u].wanted
       PROVE  F[j] \in walk'[u].seen \cup Coming(u)'
  <2>1. CASE j <= at * PageSize
    BY <1>20, <2>1
  <2>2. CASE ~(j <= at * PageSize)
    <3>1. at * PageSize \in Nat /\ j \in Nat
      BY <1>4, ListAssumption
    <3>2. F[j] \in shows
      BY <1>7, <1>20, <2>2, <3>1, ShownOnPage
    <3>3. i \in {n \in Running(u)' : press'[n].pc = "send" /\ press'[n].kind = walk'[u].kind}
      BY <1>10, <1>11, <1>12, <1>20
    <3> QED
      <4>1. press'[i].shows = shows
        BY <1>10, <1>11
      <4> QED
        BY <3>2, <3>3, <4>1 DEF Coming
  <2> QED
    BY <2>1, <2>2
<1>21. Fetched(k)' = F
  BY <1>1, <1>4 DEF Fetched
<1>22. CASE h.opens
  <2> SUFFICES ASSUME walk'[u].intact
               PROVE  /\ Reached(u, stored[u])'
                      /\ \A x \in Workers : Reached(u, local[x][u])'
                      /\ \A n \in Running(u)' : Turning(u, press[n])'
    BY <1>16, <1>17, <1>18, <1>19, <1>22 DEF ListsInv, WalkInv
  <2>1. walk'[u].kind = k /\ Running(u) = {i} /\ Alone(w, u)
    BY <1>16, <1>22
  <2>2. Covered(u, (at + 1) * PageSize)'
    <3>1. at = 0
      BY <1>5, <1>6, <1>22 DEF Pressed
    <3> SUFFICES ASSUME NEW j \in DOMAIN F, j <= (at + 1) * PageSize, F[j] \in walk'[u].wanted
                 PROVE  F[j] \in walk'[u].seen \cup Coming(u)'
      BY <1>21, <2>1 DEF Covered
    <3>2. ~(j <= at * PageSize)
      <4>1. at * PageSize = 0
        BY <3>1, ListAssumption
      <4> QED
        BY <1>4, <4>1
    <3> QED
      BY <1>20, <2>1, <3>2
  <2>3. Reached(u, position)'
    BY <1>8, <2>1, <2>2 DEF Reached
  <2>4. Reached(u, NoPage)'
    BY DEF Reached
  <2>5. Reached(u, stored[u])'
    BY <1>13, <2>1, <2>3, <2>4 DEF Alone
  <2>6. ASSUME NEW x \in Workers PROVE Reached(u, local[x][u])'
    BY <1>13, <2>1, <2>3, <2>4 DEF Alone
  <2>7. ASSUME NEW n \in Running(u)' PROVE Turning(u, press[n])'
    <3>1. n = i
      BY <1>12, <2>1
    <3> QED
      BY <1>10, <1>11, <2>1, <3>1 DEF Turning
  <2> QED
    BY <2>5, <2>6, <2>7
<1>23. CASE ~h.opens
  <2>1. walk' = walk
    BY <1>14, <1>23
  <2> SUFFICES ASSUME walk[u].intact
               PROVE  /\ walk'[u].kind \in Kinds
                      /\ Reached(u, stored[u])'
                      /\ \A x \in Workers : Reached(u, local[x][u])'
                      /\ \A n \in Running(u)' : Turning(u, press[n])'
    BY <1>17, <1>18, <1>19, <2>1 DEF ListsInv, WalkInv
  <2>2. /\ walk[u].kind \in Kinds /\ Reached(u, stored[u]) /\ \A x \in Workers : Reached(u, local[x][u])
        /\ \A n \in Running(u) : Turning(u, press[n])
    BY DEF ListsInv, WalkInv
  <2>3. walk[u].kind = k /\ Covered(u, h.page * PageSize)
    BY <1>1, <1>2, <1>3, <1>12, <2>2 DEF Turning
  <2>4. Coming(u) \subseteq Coming(u)'
    <3> SUFFICES ASSUME NEW e \in Coming(u) PROVE e \in Coming(u)'
      OBVIOUS
    <3>1. PICK j \in Running(u) : press[j].pc = "send" /\ press[j].kind = walk[u].kind /\ e \in press[j].shows
      BY DEF Coming
    <3>2. j # i /\ j \in Presses
      BY <1>1, <3>1 DEF Running
    <3>3. j \in Running(u)' /\ press'[j] = press[j]
      BY <1>11, <1>12, <3>1, <3>2
    <3> QED
      BY <2>1, <3>1, <3>3 DEF Coming
  <2>5. \A n \in Nat : Covered(u, n) => Covered(u, n)'
    BY <1>1, <2>1, <2>4, CoveredStays
  <2>6. Covered(u, (at + 1) * PageSize)'
    <3>1. at * PageSize \in Nat /\ h.page * PageSize \in Nat /\ at * PageSize <= h.page * PageSize
      BY <1>5, <1>6, ListAssumption, SMTT(30)
    <3>2. Covered(u, at * PageSize)'
      <4>1. lists[walk[u].kind] \in Seq(Nat)
        BY <1>1, <2>2 DEF ListsTyped
      <4>2. Covered(u, at * PageSize)
        BY <2>2, <2>3, <3>1, <4>1, CoveredLess
      <4> QED
        BY <2>5, <3>1, <4>2
    <3>3. walk'[u].kind = k
      BY <2>1, <2>3
    <3> SUFFICES ASSUME NEW j \in DOMAIN F, j <= (at + 1) * PageSize, F[j] \in walk'[u].wanted
                 PROVE  F[j] \in walk'[u].seen \cup Coming(u)'
      BY <1>21, <3>3 DEF Covered
    <3>4. (j <= at * PageSize /\ F[j] \in walk'[u].wanted) => F[j] \in walk'[u].seen \cup Coming(u)'
      BY <1>21, <3>2, <3>3 DEF Covered
    <3> QED
      BY <1>20, <3>3, <3>4
  <2>7. Reached(u, position)'
    BY <1>8, <2>1, <2>3, <2>6 DEF Reached
  <2>8. ASSUME NEW place \in Positions, Reached(u, place) PROVE Reached(u, place)'
    <3>1. place # NoPage => place.page \in Nat /\ (place.page + 1) * PageSize \in Nat
      BY ListAssumption DEF Positions
    <3> QED
      BY <2>1, <2>5, <2>8, <3>1 DEF Reached
  <2>9. Reached(u, stored[u])'
    <3>1. Reached(u, stored[u]) /\ stored[u] \in Positions
      BY <1>1, <2>2 DEF ListsTyped
    <3>2. Reached(u, stored[u])'
      BY <1>13, <2>7, <2>8, <3>1
    <3> QED
      BY <3>2
  <2>10. ASSUME NEW x \in Workers PROVE Reached(u, local[x][u])'
    <3>1. Reached(u, local[x][u]) /\ local[x][u] \in Positions
      BY <1>1, <2>2 DEF ListsTyped
    <3> QED
      BY <1>13, <2>7, <2>8, <3>1
  <2>11. ASSUME NEW n \in Running(u)' PROVE Turning(u, press[n])'
    <3>1. CASE n = i
      BY <1>10, <1>11, <2>1, <2>3, <3>1 DEF Turning
    <3>2. CASE n # i
      <4>1. n \in Running(u) /\ press'[n] = press[n]
        BY <1>11, <1>12, <3>2 DEF Running
      <4>2. press[n] \in Pressed /\ Turning(u, press[n])
        BY <1>1, <2>2, <4>1 DEF ListsTyped, Running
      <4>3. press[n].page * PageSize \in Nat
        BY <4>2, ListAssumption DEF Pressed
      <4> QED
        BY <2>1, <2>5, <4>1, <4>2, <4>3 DEF Turning
    <3> QED
      BY <3>1, <3>2
  <2> QED
    BY <2>1, <2>2, <2>9, <2>10, <2>11
<1> QED
  BY <1>22, <1>23

LEMMA ListsStart == ListInit => ListsInv
<1> SUFFICES ASSUME ListInit PROVE ListsInv
  OBVIOUS
<1>1. /\ newest = [k \in Kinds |-> FetchLimit] /\ FetchLimit \in Nat
      /\ lists = [k \in Kinds |-> [n \in 1..newest[k] |-> newest[k] + 1 - n]]
      /\ scoped = Readers /\ stored = [u \in Readers |-> NoPage]
      /\ local = [w \in Workers |-> [u \in Readers |-> NoPage]] /\ cut = {}
      /\ press = [i \in Presses |-> NoPress] /\ walk = [u \in Readers |-> NoWalk]
  BY ListAssumption DEF ListInit
<1>2. ASSUME NEW k \in Kinds
      PROVE  lists[k] \in Seq(Nat) /\ \A e \in EntriesOf(lists[k]) : e <= newest[k]
  <2>1. newest[k] = FetchLimit /\ lists[k] = [n \in 1..FetchLimit |-> FetchLimit + 1 - n]
    BY <1>1
  <2>2. [n \in 1..FetchLimit |-> FetchLimit + 1 - n] \in [1..FetchLimit -> Nat]
    BY <1>1
  <2>3. lists[k] \in Seq(Nat)
    BY <1>1, <2>1, <2>2, IsASeq
  <2>4. \A n \in 1..FetchLimit : FetchLimit + 1 - n <= FetchLimit
    BY <1>1
  <2>5. \A e \in EntriesOf(lists[k]) : \E n \in 1..FetchLimit : e = FetchLimit + 1 - n
    BY <2>1 DEF EntriesOf
  <2> QED
    BY <2>1, <2>3, <2>4, <2>5
<1>3. NoWalk \in Walks /\ NoPage \in Positions /\ NoWalk.intact = FALSE /\ NoWalk.wanted = {}
  BY DEF NoWalk, Walks, Positions
<1>4. ListsTyped
  <2>1. newest \in [Kinds -> Nat] /\ scoped \subseteq Readers /\ cut \subseteq Workers
        /\ press \in [Presses -> Pressed \cup {NoPress}]
    BY <1>1
  <2>2. stored \in [Readers -> Positions] /\ local \in [Workers -> [Readers -> Positions]]
        /\ walk \in [Readers -> Walks]
    BY <1>1, <1>3
  <2>3. lists \in [Kinds -> Seq(Nat)]
    <3>1. lists = [k \in Kinds |-> lists[k]]
      BY <1>1
    <3> QED
      BY <1>2, <3>1
  <2> QED
    BY <2>1, <2>2, <2>3 DEF ListsTyped
<1>5. Numbered
  BY <1>1, <1>2, <1>3 DEF Numbered
<1>6. \A u \in Readers : WalkInv(u)
  BY <1>1, <1>3 DEF WalkInv
<1> QED
  BY <1>4, <1>5, <1>6 DEF ListsInv

LEMMA ListsStep == ListsInv /\ [ListNext]_listVars => ListsInv'
<1> SUFFICES ASSUME ListsInv, [ListNext]_listVars PROVE ListsInv'
  OBVIOUS
<1>1. ASSUME NEW i \in Presses, NEW w \in Workers, NEW u \in Readers, OpenList(i, w, u)
      PROVE  ListsInv'
  BY <1>1, OpenKeeps
<1>2. ASSUME NEW i \in Presses, NEW w \in Workers, NEW u \in Readers,
             TurnNext(i, w, u) \/ TurnBack(i, w, u)
      PROVE  ListsInv'
  BY <1>2, TurnKeeps DEF TurnNext, TurnBack
<1>3. ASSUME NEW i \in Presses, Refuse(i) \/ RenderPage(i) \/ SendPage(i)
      PROVE  ListsInv'
  BY <1>3, RefuseKeeps, RenderKeeps, SendKeeps
<1>4. ASSUME NEW kind \in Kinds, EntryAdded(kind) \/ EntryRemoved(kind)
      PROVE  ListsInv'
  BY <1>4, AddedKeeps, RemovedKeeps
<1>5. ASSUME NEW u \in Readers, ScopeChanges(u) \/ PositionExpires(u)
      PROVE  ListsInv'
  BY <1>5, ScopeKeeps, ExpiryKeeps
<1>6. ASSUME NEW w \in Workers, SwitchRedis(w) \/ RestartWorker(w)
      PROVE  ListsInv'
  BY <1>6, SwitchKeeps, RestartKeeps
<1>7. ASSUME UNCHANGED listVars
      PROVE  ListsInv'
  <2>1. UNCHANGED << lists, newest, scoped, stored, local, cut, press, walk >>
    BY <1>7 DEF listVars
  <2>2. \A u \in Readers : Running(u)' = Running(u)
    BY <2>1 DEF Running
  <2>3. ListsTyped' /\ Numbered'
    BY <2>1 DEF ListsInv, ListsTyped, Numbered
  <2>4. ASSUME NEW v \in Readers PROVE WalkInv(v)'
    BY <2>1, <2>2, <2>3, Aside DEF ListsInv
  <2> QED
    BY <2>3, <2>4 DEF ListsInv
<1> QED
  BY <1>1, <1>2, <1>3, <1>4, <1>5, <1>6, <1>7 DEF ListNext

\* The inductive invariant of the lists.
THEOREM ListsInvariant == ListSpec => []ListsInv
BY ListsStart, ListsStep, PTL DEF ListSpec

\* Whoever reaches the last page of a list that lost no entry was sent every entry it had
\* when it was opened, for any sizes, readers, processes and overlapping presses.
THEOREM NothingIsSkipped == ListSpec => []NothingSkipped
<1>1. ListsInv => NothingSkipped
  <2> SUFFICES ASSUME ListsInv, NEW u \in Readers, walk[u].intact, Running(u) = {}, LastPage(u),
                      NEW e \in walk[u].wanted, e \in EntriesOf(Fetched(walk[u].kind))
               PROVE  e \in walk[u].seen
    BY DEF NothingSkipped
  <2>1. /\ walk[u].kind \in Kinds /\ Reached(u, stored[u])
        /\ \A w \in Workers : Reached(u, local[w][u])
    BY DEF ListsInv, WalkInv
  <2>2. PICK at \in {stored[u]} \cup {local[w][u] : w \in Workers} :
          at.kind = walk[u].kind /\ at.page = PageCount(Len(Fetched(at.kind))) - 1
    BY DEF LastPage
  <2>3. at # NoPage /\ Reached(u, at) /\ at \in Positions
    <3>1. NoPage.kind = "none" /\ "none" \notin Kinds
      BY ListAssumption DEF NoPage
    <3> QED
      BY <2>1, <2>2, <3>1 DEF ListsInv, ListsTyped
  <2>4. PICK F \in Seq(Nat) : F = Fetched(walk[u].kind) /\ Len(F) \in Nat /\ DOMAIN F = 1..Len(F)
    BY <2>1, FetchedEntries DEF ListsInv, ListsTyped
  <2>5. PICK c \in Nat \ {0} : c = PageCount(Len(F)) /\ Len(F) <= c * PageSize
    BY <2>4, Paging
  <2>6. (at.page + 1) * PageSize = c * PageSize
    <3>1. at.page = c - 1
      BY <2>2, <2>4, <2>5
    <3>2. at.page + 1 = c
      BY <2>5, <3>1
    <3> QED
      BY <3>2
  <2>7. Covered(u, c * PageSize)
    BY <2>3, <2>6 DEF Reached
  <2>8. PICK j \in DOMAIN F : e = F[j]
    BY <2>4 DEF EntriesOf
  <2>9. j <= c * PageSize
    <3>1. c * PageSize \in Nat
      BY ListAssumption
    <3> QED
      BY <2>4, <2>5, <2>8, <3>1
  <2>10. e \in walk[u].seen \cup Coming(u)
    BY <2>4, <2>7, <2>8, <2>9 DEF Covered
  <2>11. Coming(u) = {}
    BY DEF Coming
  <2> QED
    BY <2>10, <2>11
<1> QED
  BY <1>1, ListsInvariant, PTL

-----------------------------------------------------------------------------

(***************************************************************************)
(* The dialogues.                                                          *)
(***************************************************************************)
Kept == {s \in States : Complete(s) /\ s # Nothing}

\* A process remembers one state of a user.
Keyed(entries) ==
  \A m, n \in DOMAIN entries : entries[m][1] = entries[n][1] => m = n

StoreTyped ==
  /\ reaches \in [Processes -> BOOLEAN]
  /\ shared \in [Users -> Kept \cup {Nothing}]
  /\ memory \in [Processes -> Seq(Users \X Kept)]
  /\ \A p \in Processes : Keyed(memory[p]) /\ Len(memory[p]) <= MemoryMax

\* A running handler holds a description from the moment it has read it.
HandlerRuns ==
  {t \in [pc : Steps, process : Processes, user : Users, text : Texts, draft : 0..MaxDrafts,
          ticket : Tickets \cup {0}, wanted : Tickets \cup {0}] :
     /\ t.pc \in {"limit", "expire", "create"} => t.draft # 0
     /\ t.draft # 0 => t.pc \in {"limit", "expire", "create", "clear"}}

DialogTyped ==
  /\ StoreTyped
  /\ task \in [Slots -> HandlerRuns \cup {Idle}]
  /\ rate \in [Users -> [count : 0..(Limit + 1), timed : BOOLEAN]]
  /\ typed \in [Users -> 0..MaxDrafts]
  /\ created \in [Users -> [0..MaxDrafts -> Nat]]
  /\ chosen \in [Users -> Tickets \cup {0}]
  /\ dropped \in [Users -> SUBSET (1..MaxDrafts)]
  /\ excused \in [Users -> BOOLEAN]
  /\ budget \in [left : Nat, texts : SUBSET Texts, faults : Nat]

\* What the places that keep states hold of a user.
Held(u) == {shared[u]} \cup {Remembered(p, u) : p \in Processes}
DraftsHeld(u) == {s.draft : s \in Held(u)}
TicketsHeld(u) == {s.ticket : s \in Held(u)}

\* The handlers that may turn a description of the user into a ticket, or just did.
Takers(u) ==
  {i \in Busy : task[i].user = u /\ (task[i].pc = "identity_choice" \/ task[i].draft # 0)}

\* One handler at a time takes descriptions of a user; one that became a ticket is held by
\* nobody but the handler that is about to delete it; a cancelled one is held nowhere; and
\* the ticket to answer is the one chosen last.
UserSound(u) ==
  ~excused[u] =>
    /\ \A i, j \in Takers(u) : i = j
    /\ \A d \in DraftsHeld(u) : d <= typed[u]
    /\ \A i \in Takers(u) : task[i].draft <= typed[u]
    /\ \A d \in 1..MaxDrafts : created[u][d] > 0 =>
         /\ d <= typed[u] /\ created[u][d] = 1
         /\ \A i \in Takers(u) : task[i].draft = d => task[i].pc = "clear"
         /\ d \in DraftsHeld(u) => \E i \in Takers(u) : task[i].draft = d
    /\ \A d \in dropped[u] : /\ d <= typed[u] /\ d \notin DraftsHeld(u)
                             /\ \A i \in Takers(u) : task[i].draft # d
    /\ \A k \in TicketsHeld(u) : k # 0 => k = chosen[u]

DialogInv ==
  /\ DialogTyped
  /\ NoEmptyTicket
  /\ ReplyGoesToChosen
  /\ \A u \in Users : UserSound(u)

\* A sequence without the entry in one place.
LEMMA WithoutEntry ==
  ASSUME NEW S, NEW s \in Seq(S), NEW n \in 1..Len(s)
  PROVE  /\ Without(s, n) \in Seq(S)
         /\ Len(s) \in Nat /\ Len(Without(s, n)) = Len(s) - 1
         /\ \A i \in 1..(Len(s) - 1) : Without(s, n)[i] = IF i < n THEN s[i] ELSE s[i + 1]
<1>1. Len(s) \in Nat /\ n \in Nat /\ \A i \in 1..Len(s) : s[i] \in S
  BY LenProperties
<1>2. PICK a \in Seq(S) : a = SubSeq(s, 1, n - 1) /\ Len(a) = n - 1 /\ \A i \in 1..(n - 1) : a[i] = s[i]
  <2>1. \A i \in 1..(n - 1) : s[i] \in S
    BY <1>1
  <2>2. 1 \in Int /\ n - 1 \in Int
    BY <1>1
  <2>3. /\ SubSeq(s, 1, n - 1) \in Seq(S)
        /\ Len(SubSeq(s, 1, n - 1)) = IF 1 <= n - 1 THEN (n - 1) - 1 + 1 ELSE 0
        /\ \A i \in 1..((n - 1) - 1 + 1) : SubSeq(s, 1, n - 1)[i] = s[1 + i - 1]
    BY <2>1, <2>2, SubSeqProperties
  <2>4. Len(SubSeq(s, 1, n - 1)) = n - 1
    BY <1>1, <2>3
  <2>5. ASSUME NEW i \in 1..(n - 1) PROVE SubSeq(s, 1, n - 1)[i] = s[i]
    <3>1. i \in 1..((n - 1) - 1 + 1) /\ 1 + i - 1 = i
      BY <1>1
    <3> QED
      BY <2>3, <3>1
  <2> QED
    BY <2>3, <2>4, <2>5
<1>3. PICK z \in Seq(S) : /\ z = SubSeq(s, n + 1, Len(s)) /\ Len(z) = Len(s) - n
                          /\ \A i \in 1..(Len(s) - n) : z[i] = s[n + i]
  <2>1. \A i \in (n + 1)..Len(s) : s[i] \in S
    BY <1>1
  <2>2. n + 1 \in Int /\ Len(s) \in Int
    BY <1>1
  <2>3. /\ SubSeq(s, n + 1, Len(s)) \in Seq(S)
        /\ Len(SubSeq(s, n + 1, Len(s))) = IF n + 1 <= Len(s) THEN Len(s) - (n + 1) + 1 ELSE 0
        /\ \A i \in 1..(Len(s) - (n + 1) + 1) : SubSeq(s, n + 1, Len(s))[i] = s[n + 1 + i - 1]
    BY <2>1, <2>2, SubSeqProperties
  <2>4. Len(SubSeq(s, n + 1, Len(s))) = Len(s) - n
    BY <1>1, <2>3
  <2>5. ASSUME NEW i \in 1..(Len(s) - n) PROVE SubSeq(s, n + 1, Len(s))[i] = s[n + i]
    <3>1. i \in 1..(Len(s) - (n + 1) + 1) /\ n + 1 + i - 1 = n + i
      BY <1>1
    <3> QED
      BY <2>3, <3>1
  <2> QED
    BY <2>3, <2>4, <2>5
<1>4. Without(s, n) = a \o z
  BY <1>2, <1>3 DEF Without
<1>5. /\ a \o z \in Seq(S) /\ Len(a \o z) = Len(a) + Len(z)
      /\ \A i \in 1..Len(a) + Len(z) : (a \o z)[i] = IF i <= Len(a) THEN a[i] ELSE z[i - Len(a)]
  BY ConcatProperties
<1>6. Len(a) + Len(z) = Len(s) - 1
  <2>1. Len(a) = n - 1 /\ Len(z) = Len(s) - n
    BY <1>2, <1>3
  <2> QED
    BY ONLY <1>1, <2>1
<1>7. ASSUME NEW i \in 1..(Len(s) - 1) PROVE (a \o z)[i] = IF i < n THEN s[i] ELSE s[i + 1]
  <2>1. (a \o z)[i] = IF i <= Len(a) THEN a[i] ELSE z[i - Len(a)]
    BY <1>5, <1>6
  <2>2. CASE i < n
    <3>1. i <= Len(a) /\ i \in 1..(n - 1)
      BY <1>1, <1>2, <2>2
    <3> QED
      BY <1>2, <2>1, <2>2, <3>1
  <2>3. CASE ~(i < n)
    <3>1. PICK m \in Nat : m = Len(s)
      BY <1>1
    <3>2. n \in 1..m /\ i \in 1..(m - 1) /\ Len(a) = n - 1
      BY <1>1, <1>2, <3>1
    <3>3. ~(i <= Len(a)) /\ i - Len(a) = i - (n - 1) /\ i - (n - 1) \in 1..(m - n) /\ n + (i - (n - 1)) = i + 1
      BY ONLY <2>3, <3>1, <3>2, m \in Nat
    <3> QED
      BY <1>3, <2>1, <2>3, <3>1, <3>3
  <2> QED
    BY <2>2, <2>3
<1> QED
  BY <1>1, <1>4, <1>5, <1>6, <1>7

\* Looking for a user's entry where every user has at most one.
LEMMA FoundIs ==
  ASSUME NEW entries, NEW u, Keyed(entries)
  PROVE  /\ \A n \in DOMAIN entries : entries[n][1] = u => Found(entries, u) = entries[n][2]
         /\ (\A n \in DOMAIN entries : entries[n][1] # u) => Found(entries, u) = Nothing
<1>1. ASSUME NEW n \in DOMAIN entries, entries[n][1] = u
      PROVE  Found(entries, u) = entries[n][2]
  <2>1. n \in PlacesOf(entries, u)
    BY <1>1 DEF PlacesOf
  <2>2. (CHOOSE x \in PlacesOf(entries, u) : TRUE) \in PlacesOf(entries, u)
    BY <2>1
  <2>3. (CHOOSE x \in PlacesOf(entries, u) : TRUE) = n
    BY <1>1, <2>1, <2>2 DEF PlacesOf, Keyed
  <2> QED
    BY <2>1, <2>3 DEF Found
<1>2. ASSUME \A n \in DOMAIN entries : entries[n][1] # u
      PROVE  Found(entries, u) = Nothing
  BY <1>2 DEF Found, PlacesOf
<1> QED
  BY <1>1, <1>2

LEMMA FoundKept ==
  ASSUME NEW entries \in Seq(Users \X Kept), NEW u
  PROVE  Found(entries, u) \in Kept \cup {Nothing}
<1>1. CASE PlacesOf(entries, u) = {}
  BY <1>1 DEF Found
<1>2. CASE PlacesOf(entries, u) # {}
  <2>1. PICK n : n = CHOOSE x \in PlacesOf(entries, u) : TRUE
    OBVIOUS
  <2>2. n \in DOMAIN entries
    BY <1>2, <2>1 DEF PlacesOf
  <2>3. entries[n] \in Users \X Kept
    BY <2>2, LenProperties
  <2> QED
    BY <1>2, <2>1, <2>3 DEF Found
<1> QED
  BY <1>1, <1>2

\* The others' states are still found when one user's is taken out.
LEMMA OthersFound ==
  ASSUME NEW entries \in Seq(Users \X Kept), Keyed(entries), NEW u \in Users
  PROVE  /\ Others(entries, u) \in Seq(Users \X Kept) /\ Keyed(Others(entries, u))
         /\ Len(Others(entries, u)) \in Nat /\ Len(entries) \in Nat /\ Len(Others(entries, u)) <= Len(entries)
         /\ \A n \in DOMAIN Others(entries, u) : Others(entries, u)[n][1] # u
         /\ Found(Others(entries, u), u) = Nothing
         /\ \A v \in Users \ {u} : Found(Others(entries, u), v) = Found(entries, v)
<1>1. Len(entries) \in Nat /\ DOMAIN entries = 1..Len(entries)
  BY LenProperties
<1>2. CASE PlacesOf(entries, u) = {}
  <2>1. Others(entries, u) = entries
    BY <1>2 DEF Others
  <2>2. \A n \in DOMAIN entries : entries[n][1] # u
    BY <1>2 DEF PlacesOf
  <2> QED
    BY <1>1, <2>1, <2>2, FoundIs
<1>3. CASE PlacesOf(entries, u) # {}
  <2>1. PICK n \in DOMAIN entries : n = (CHOOSE x \in PlacesOf(entries, u) : TRUE) /\ entries[n][1] = u
    BY <1>3 DEF PlacesOf
  <2>2. PICK t \in Seq(Users \X Kept) : t = Without(entries, n)
    BY <1>1, <2>1, WithoutEntry
  <2>3. Others(entries, u) = t
    BY <1>3, <2>1, <2>2 DEF Others
  <2>4. /\ Len(t) = Len(entries) - 1 /\ DOMAIN t = 1..Len(t) /\ Len(t) \in Nat
        /\ \A i \in 1..(Len(entries) - 1) : t[i] = IF i < n THEN entries[i] ELSE entries[i + 1]
    <3>1. n \in 1..Len(entries)
      BY <1>1
    <3>2. /\ Len(t) = Len(entries) - 1
          /\ \A i \in 1..(Len(entries) - 1) : t[i] = IF i < n THEN entries[i] ELSE entries[i + 1]
      BY <2>2, <3>1, WithoutEntry
    <3>3. DOMAIN t = 1..Len(t) /\ Len(t) \in Nat
      BY LenProperties
    <3> QED
      BY <3>2, <3>3
  <2>5. n \in 1..Len(entries)
    BY <1>1, <2>1
  <2>6. \A i \in DOMAIN t : \E m \in DOMAIN entries \ {n} : t[i] = entries[m] /\ m = IF i < n THEN i ELSE i + 1
    <3> TAKE i \in DOMAIN t
    <3>1. i \in 1..(Len(entries) - 1)
      BY <1>1, <2>4
    <3>2. CASE i < n
      <4>1. i \in 1..Len(entries) /\ i # n
        BY <1>1, <3>1, <3>2
      <4> QED
        BY <1>1, <2>4, <3>1, <3>2, <4>1
    <3>3. CASE ~(i < n)
      <4>1. i + 1 \in 1..Len(entries) /\ i + 1 # n
        BY <1>1, <2>5, <3>1, <3>3
      <4> QED
        BY <1>1, <2>4, <3>1, <3>3, <4>1
    <3> QED
      BY <3>2, <3>3
  <2>7. \A m \in DOMAIN entries \ {n} : \E i \in DOMAIN t : t[i] = entries[m]
    <3> TAKE m \in DOMAIN entries \ {n}
    <3>0. m \in 1..Len(entries) /\ m # n
      BY <1>1
    <3>1. CASE m < n
      <4>1. m \in 1..(Len(entries) - 1)
        BY <1>1, <2>5, <3>0, <3>1
      <4> QED
        BY <2>4, <3>1, <4>1
    <3>2. CASE ~(m < n)
      <4>1. m - 1 \in 1..(Len(entries) - 1) /\ (m - 1) + 1 = m /\ ~(m - 1 < n)
        BY <1>1, <2>5, <3>0, <3>2
      <4> QED
        BY <2>4, <4>1
    <3> QED
      BY <3>1, <3>2
  <2>8. Keyed(t)
    <3> SUFFICES ASSUME NEW i \in DOMAIN t, NEW j \in DOMAIN t, t[i][1] = t[j][1]
                 PROVE  i = j
      BY DEF Keyed
    <3>1. PICK a \in DOMAIN entries \ {n} : t[i] = entries[a] /\ a = IF i < n THEN i ELSE i + 1
      BY <2>6
    <3>2. PICK b \in DOMAIN entries \ {n} : t[j] = entries[b] /\ b = IF j < n THEN j ELSE j + 1
      BY <2>6
    <3>3. a = b
      BY <3>1, <3>2 DEF Keyed
    <3>4. i \in Nat /\ j \in Nat /\ n \in Nat
      BY <2>4, <2>5
    <3> QED
      BY <3>1, <3>2, <3>3, <3>4
  <2>9. \A i \in DOMAIN t : t[i][1] # u
    BY <2>1, <2>6 DEF Keyed
  <2>10. ASSUME NEW v \in Users \ {u} PROVE Found(t, v) = Found(entries, v)
    <3>1. CASE \E m \in DOMAIN entries : entries[m][1] = v
      <4>1. PICK m \in DOMAIN entries : entries[m][1] = v
        BY <3>1
      <4>2. PICK i \in DOMAIN t : t[i] = entries[m]
        BY <2>1, <2>7, <4>1
      <4> QED
        BY <2>8, <4>1, <4>2, FoundIs
    <3>2. CASE \A m \in DOMAIN entries : entries[m][1] # v
      <4>1. \A i \in DOMAIN t : t[i][1] # v
        BY <2>6, <3>2
      <4> QED
        BY <2>8, <3>2, <4>1, FoundIs
    <3> QED
      BY <3>1, <3>2
  <2> QED
    <3>1. Found(t, u) = Nothing
      BY <2>8, <2>9, FoundIs
    <3>2. Len(t) <= Len(entries)
      BY <1>1, <2>4
    <3> QED
      BY <1>1, <2>3, <2>4, <2>8, <2>9, <2>10, <3>1, <3>2
<1> QED
  BY <1>2, <1>3

LEMMA TailFound ==
  ASSUME NEW entries \in Seq(Users \X Kept), Keyed(entries), entries # << >>
  PROVE  /\ Tail(entries) \in Seq(Users \X Kept) /\ Keyed(Tail(entries))
         /\ Len(entries) \in Nat /\ Len(Tail(entries)) = Len(entries) - 1
         /\ \A v \in Users : Found(Tail(entries), v) \in {Found(entries, v), Nothing}
         /\ \A n \in 2..Len(entries) : Found(Tail(entries), entries[n][1]) = entries[n][2]
<1>1. Len(entries) \in Nat /\ DOMAIN entries = 1..Len(entries)
  BY LenProperties
<1>2. PICK t \in Seq(Users \X Kept) : t = Tail(entries)
  BY HeadTailProperties
<1>3. /\ Len(t) = Len(entries) - 1 /\ Len(t) \in Nat /\ DOMAIN t = 1..Len(t)
      /\ \A i \in 1..Len(t) : t[i] = entries[i + 1]
  BY <1>2, HeadTailProperties, LenProperties
<1>4. \A i \in DOMAIN t : i + 1 \in DOMAIN entries /\ t[i] = entries[i + 1] /\ i \in Nat
  BY <1>1, <1>3
<1>5. Keyed(t)
  <2> SUFFICES ASSUME NEW i \in DOMAIN t, NEW j \in DOMAIN t, t[i][1] = t[j][1]
               PROVE  i = j
    BY DEF Keyed
  <2>1. i + 1 = j + 1
    BY <1>4 DEF Keyed
  <2> QED
    BY <1>4, <2>1
<1>6. ASSUME NEW n \in 2..Len(entries) PROVE Found(t, entries[n][1]) = entries[n][2]
  <2>1. n - 1 \in DOMAIN t /\ (n - 1) + 1 = n
    BY <1>1, <1>3
  <2>2. t[n - 1] = entries[n]
    BY <1>4, <2>1
  <2> QED
    BY <1>5, <2>1, <2>2, FoundIs
<1>7. ASSUME NEW v \in Users PROVE Found(t, v) \in {Found(entries, v), Nothing}
  <2>1. CASE \E i \in DOMAIN t : t[i][1] = v
    <3>1. PICK i \in DOMAIN t : t[i][1] = v
      BY <2>1
    <3> QED
      BY <1>4, <1>5, <3>1, FoundIs
  <2>2. CASE \A i \in DOMAIN t : t[i][1] # v
    BY <1>5, <2>2, FoundIs
  <2> QED
    BY <2>1, <2>2
<1> QED
  BY <1>1, <1>2, <1>3, <1>5, <1>6, <1>7

LEMMA AppendEntry ==
  ASSUME NEW S, NEW s \in Seq(S), NEW e \in S
  PROVE  /\ Append(s, e) \in Seq(S) /\ Append(s, e) # << >>
         /\ Len(Append(s, e)) = Len(s) + 1
         /\ \A i \in 1..Len(s) : Append(s, e)[i] = s[i]
         /\ Append(s, e)[Len(s) + 1] = e
BY AppendProperties

\* A write is found; of the others' states one may be evicted, never the one just written.
LEMMA RememberFound ==
  ASSUME NEW entries \in Seq(Users \X Kept), Keyed(entries), Len(entries) <= MemoryMax,
         NEW u \in Users, NEW s \in Kept
  PROVE  /\ Remember(entries, u, s) \in Seq(Users \X Kept) /\ Keyed(Remember(entries, u, s))
         /\ Len(Remember(entries, u, s)) <= MemoryMax
         /\ Found(Remember(entries, u, s), u) = s
         /\ \A v \in Users \ {u} : Found(Remember(entries, u, s), v) \in {Found(entries, v), Nothing}
<1>1. PICK o \in Seq(Users \X Kept) :
        /\ o = Others(entries, u) /\ Keyed(o)
        /\ Len(o) \in Nat /\ Len(o) <= MemoryMax /\ DOMAIN o = 1..Len(o)
        /\ \A n \in DOMAIN o : o[n][1] # u
        /\ Found(o, u) = Nothing
        /\ \A v \in Users \ {u} : Found(o, v) = Found(entries, v)
  <2>1. Len(Others(entries, u)) <= MemoryMax
    <3>1. Len(Others(entries, u)) \in Nat /\ Len(entries) \in Nat /\ Len(Others(entries, u)) <= Len(entries)
      BY OthersFound
    <3> QED
      BY ONLY <3>1, Len(entries) <= MemoryMax, MemoryMaxAssumption
  <2> QED
    BY <2>1, OthersFound, LenProperties
<1>2. PICK e \in Users \X Kept : e = << u, s >> /\ e[1] = u /\ e[2] = s
  <2>1. << u, s >> \in Users \X Kept /\ << u, s >>[1] = u /\ << u, s >>[2] = s
    OBVIOUS
  <2> QED
    BY <2>1
<1>3. PICK now \in Seq(Users \X Kept) :
        /\ now = Append(o, e) /\ now # << >>
        /\ Len(now) = Len(o) + 1 /\ DOMAIN now = 1..(Len(o) + 1)
        /\ \A i \in 1..Len(o) : now[i] = o[i]
        /\ now[Len(o) + 1] = e
  <2>1. /\ Append(o, e) \in Seq(Users \X Kept) /\ Append(o, e) # << >>
        /\ Len(Append(o, e)) = Len(o) + 1
        /\ \A i \in 1..Len(o) : Append(o, e)[i] = o[i]
        /\ Append(o, e)[Len(o) + 1] = e
    <3>1. PICK S : S = Users \X Kept
      OBVIOUS
    <3>2. o \in Seq(S)
      BY <3>1
    <3>3. e \in S
      BY <3>1
    <3>4. /\ Append(o, e) \in Seq(S) /\ Append(o, e) # << >>
          /\ Len(Append(o, e)) = Len(o) + 1
          /\ \A i \in 1..Len(o) : Append(o, e)[i] = o[i]
          /\ Append(o, e)[Len(o) + 1] = e
      BY ONLY <3>2, <3>3, AppendEntry
    <3> QED
      BY <3>1, <3>4
  <2>2. DOMAIN Append(o, e) = 1..Len(Append(o, e))
    BY <2>1, LenProperties
  <2> QED
    BY <2>1, <2>2
<1>4. Keyed(now)
  <2> SUFFICES ASSUME NEW m \in DOMAIN now, NEW n \in DOMAIN now, now[m][1] = now[n][1]
               PROVE  m = n
    BY DEF Keyed
  <2>1. \A i \in DOMAIN now : (i \in DOMAIN o /\ now[i] = o[i]) \/ (i = Len(o) + 1 /\ now[i] = e)
    BY <1>1, <1>3
  <2>2. CASE m = Len(o) + 1 /\ now[m] = e
    BY <1>1, <1>2, <2>1, <2>2
  <2>3. CASE m \in DOMAIN o /\ now[m] = o[m]
    BY <1>1, <1>2, <2>1, <2>3 DEF Keyed
  <2> QED
    BY <2>1, <2>2, <2>3
<1>5. Found(now, u) = s
  <2>1. Len(o) + 1 \in DOMAIN now
    BY <1>1, <1>3
  <2> QED
    <3>1. now[Len(o) + 1][1] = u /\ now[Len(o) + 1][2] = s
      BY <1>2, <1>3
    <3> QED
      BY <1>4, <2>1, <3>1, FoundIs
<1>6. ASSUME NEW v \in Users \ {u} PROVE Found(now, v) = Found(o, v)
  <2>1. \A i \in DOMAIN now : (i \in DOMAIN o /\ now[i] = o[i]) \/ now[i][1] = u
    BY <1>1, <1>2, <1>3
  <2>2. \A i \in DOMAIN o : i \in DOMAIN now /\ now[i] = o[i]
    BY <1>1, <1>3
  <2>3. CASE \E i \in DOMAIN o : o[i][1] = v
    <3>1. PICK i \in DOMAIN o : o[i][1] = v
      BY <2>3
    <3>2. Found(o, v) = o[i][2]
      BY <1>1, <3>1, FoundIs
    <3>3. Found(now, v) = now[i][2]
      BY <1>4, <2>2, <3>1, FoundIs
    <3> QED
      BY <2>2, <3>1, <3>2, <3>3
  <2>4. CASE \A i \in DOMAIN o : o[i][1] # v
    <3>1. \A i \in DOMAIN now : now[i][1] # v
      BY <2>1, <2>4
    <3> QED
      <4>1. Found(now, v) = Nothing
        BY <1>4, <3>1, FoundIs
      <4>2. Found(o, v) = Nothing
        BY <1>1, <2>4, FoundIs
      <4> QED
        BY <4>1, <4>2
  <2> QED
    BY <2>3, <2>4
<1>7. Remember(entries, u, s) = IF Len(now) > MemoryMax THEN Tail(now) ELSE now
  BY <1>1, <1>2, <1>3 DEF Remember
<1>8. CASE Len(now) > MemoryMax
  <2>1. /\ Tail(now) \in Seq(Users \X Kept) /\ Keyed(Tail(now))
        /\ Len(Tail(now)) = Len(now) - 1
        /\ \A v \in Users : Found(Tail(now), v) \in {Found(now, v), Nothing}
        /\ \A n \in 2..Len(now) : Found(Tail(now), now[n][1]) = now[n][2]
    BY <1>3, <1>4, TailFound
  <2>2. Len(o) + 1 \in 2..Len(now) /\ Len(Tail(now)) <= MemoryMax
    BY ONLY <1>1, <1>3, <1>8, <2>1, MemoryMaxAssumption
  <2>3. Found(Tail(now), u) = s
    BY <1>2, <1>3, <2>1, <2>2
  <2>4. \A v \in Users \ {u} : Found(Tail(now), v) \in {Found(entries, v), Nothing}
    BY <1>1, <1>6, <2>1
  <2> QED
    BY <1>7, <1>8, <2>1, <2>2, <2>3, <2>4
<1>9. CASE ~(Len(now) > MemoryMax)
  <2>1. Len(now) <= MemoryMax
    BY ONLY <1>1, <1>3, <1>9, MemoryMaxAssumption
  <2> QED
    BY <1>1, <1>4, <1>5, <1>6, <1>7, <1>9, <2>1
<1> QED
  BY <1>8, <1>9

LEMMA HeldKept ==
  ASSUME StoreTyped, NEW u \in Users, NEW s \in Held(u)
  PROVE  s \in Kept \cup {Nothing}
<1>1. shared[u] \in Kept \cup {Nothing}
  BY DEF StoreTyped
<1>2. ASSUME NEW p \in Processes PROVE Remembered(p, u) \in Kept \cup {Nothing}
  BY FoundKept DEF StoreTyped, Remembered
<1> QED
  BY <1>1, <1>2 DEF Held

LEMMA HeldKeptNext ==
  ASSUME StoreTyped', NEW u \in Users, NEW s \in Held(u)'
  PROVE  s \in Kept \cup {Nothing}
<1>1. shared'[u] \in Kept \cup {Nothing}
  BY DEF StoreTyped
<1>2. ASSUME NEW p \in Processes PROVE Remembered(p, u)' \in Kept \cup {Nothing}
  BY FoundKept DEF StoreTyped, Remembered
<1> QED
  BY <1>1, <1>2 DEF Held

\* A state that is written hides no other, unless the user is excused from then on.
LEMMA PutFacts ==
  ASSUME StoreTyped, excused \in [Users -> BOOLEAN],
         NEW p \in Processes, NEW u \in Users, NEW s \in Kept, PutHere(p, u, s)
  PROVE  /\ StoreTyped' /\ excused' \in [Users -> BOOLEAN]
         /\ \A v \in Users \ {u} : Held(v)' \subseteq Held(v) \cup {Nothing} /\ excused'[v] = excused[v]
         /\ excused[u] => excused'[u]
         /\ ~excused'[u] => Held(u)' \subseteq {s, Nothing}
<1>1. /\ shared' = IF reaches[p] THEN [shared EXCEPT ![u] = s] ELSE shared
      /\ memory' = IF reaches[p] THEN memory ELSE [memory EXCEPT ![p] = Remember(memory[p], u, s)]
      /\ reaches' = reaches
      /\ excused' = [excused EXCEPT ![u] = excused[u] \/ Copies(u) \ {IF reaches[p] THEN "redis" ELSE p} # {}]
  BY DEF PutHere, Put
<1>2. /\ shared \in [Users -> Kept \cup {Nothing}] /\ memory \in [Processes -> Seq(Users \X Kept)]
      /\ \A q \in Processes : Keyed(memory[q]) /\ Len(memory[q]) <= MemoryMax
      /\ reaches \in [Processes -> BOOLEAN]
  BY DEF StoreTyped
<1>3. PICK now \in Seq(Users \X Kept) :
        /\ now = Remember(memory[p], u, s) /\ Keyed(now) /\ Len(now) <= MemoryMax /\ Found(now, u) = s
        /\ \A v \in Users \ {u} : Found(now, v) \in {Found(memory[p], v), Nothing}
  BY <1>2, RememberFound
<1>4. /\ excused' \in [Users -> BOOLEAN]
      /\ \A v \in Users \ {u} : excused'[v] = excused[v]
      /\ excused[u] => excused'[u]
      /\ ~excused'[u] => Copies(u) \subseteq {IF reaches[p] THEN "redis" ELSE p}
  <2>1. PICK b \in BOOLEAN : b = (excused[u] \/ Copies(u) \ {IF reaches[p] THEN "redis" ELSE p} # {})
    OBVIOUS
  <2>2. excused' = [excused EXCEPT ![u] = b]
    BY <1>1, <2>1
  <2>3. excused'[u] = b /\ excused' \in [Users -> BOOLEAN] /\ \A v \in Users \ {u} : excused'[v] = excused[v]
    BY <2>2
  <2>4. ~b => Copies(u) \ {IF reaches[p] THEN "redis" ELSE p} = {}
    BY <2>1
  <2> QED
    BY <2>1, <2>3, <2>4
<1>5. Nothing \notin Kept
  BY DEF Kept
<1>6. CASE reaches[p]
  <2>1. shared' = [shared EXCEPT ![u] = s] /\ memory' = memory
    BY <1>1, <1>6
  <2>2. StoreTyped'
    BY <1>1, <1>2, <2>1 DEF StoreTyped
  <2>3. \A v \in Users \ {u} : Held(v)' = Held(v)
    BY <1>2, <2>1 DEF Held, Remembered
  <2>4. ASSUME ~excused'[u] PROVE Held(u)' \subseteq {s, Nothing}
    <3>1. Copies(u) \subseteq {"redis"}
      BY <1>4, <1>6, <2>4
    <3>2. \A q \in Processes : q # "redis"
      BY DialogAssumption
    <3>3. \A q \in Processes : Remembered(q, u) = Nothing
      BY <3>1, <3>2 DEF Copies
    <3>4. shared'[u] = s /\ \A q \in Processes : Remembered(q, u)' = Nothing
      BY <1>2, <2>1, <3>3 DEF Remembered
    <3> QED
      BY <3>4 DEF Held
  <2> QED
    BY <1>4, <2>2, <2>3, <2>4
<1>7. CASE ~reaches[p]
  <2>1. shared' = shared /\ memory' = [memory EXCEPT ![p] = now]
    BY <1>1, <1>3, <1>7
  <2>2. /\ memory' \in [Processes -> Seq(Users \X Kept)] /\ memory'[p] = now
        /\ \A q \in Processes \ {p} : memory'[q] = memory[q]
    BY <1>2, <2>1
  <2>3. StoreTyped'
    <3>1. \A q \in Processes : Keyed(memory'[q]) /\ Len(memory'[q]) <= MemoryMax
      BY <1>2, <1>3, <2>2
    <3>2. \A q \in Processes : Keyed(memory[q])'
      BY <3>1 DEF Keyed
    <3> QED
      BY <1>1, <1>2, <2>1, <2>2, <3>1, <3>2 DEF StoreTyped
  <2>4. ASSUME NEW v \in Users \ {u} PROVE Held(v)' \subseteq Held(v) \cup {Nothing}
    <3>1. \A q \in Processes : Remembered(q, v)' \in {Remembered(q, v), Nothing}
      BY <1>3, <2>2 DEF Remembered
    <3> QED
      BY <2>1, <3>1 DEF Held
  <2>5. ASSUME ~excused'[u] PROVE Held(u)' \subseteq {s, Nothing}
    <3>1. Copies(u) \subseteq {p} /\ p # "redis"
      BY <1>4, <1>7, <2>5, DialogAssumption
    <3>2. shared[u] = Nothing /\ \A q \in Processes \ {p} : Remembered(q, u) = Nothing
      BY <3>1 DEF Copies
    <3>3. shared'[u] = Nothing /\ Remembered(p, u)' = s /\ \A q \in Processes \ {p} : Remembered(q, u)' = Nothing
      BY <1>3, <2>1, <2>2, <3>2 DEF Remembered
    <3> QED
      BY <3>3 DEF Held
  <2> QED
    BY <1>4, <2>3, <2>4, <2>5
<1> QED
  BY <1>6, <1>7

\* Nothing is left of a state that is deleted, unless the user is excused from then on.
LEMMA DeleteFacts ==
  ASSUME StoreTyped, excused \in [Users -> BOOLEAN],
         NEW p \in Processes, NEW u \in Users, DeleteHere(p, u)
  PROVE  /\ StoreTyped' /\ excused' \in [Users -> BOOLEAN]
         /\ \A v \in Users \ {u} : Held(v)' \subseteq Held(v) \cup {Nothing} /\ excused'[v] = excused[v]
         /\ excused[u] => excused'[u]
         /\ ~excused'[u] => Held(u)' \subseteq {Nothing}
<1> DEFINE gone == {p} \cup (IF reaches[p] THEN {"redis"} ELSE {})
<1>1. /\ shared' = IF reaches[p] THEN [shared EXCEPT ![u] = Nothing] ELSE shared
      /\ memory' = [memory EXCEPT ![p] = Others(memory[p], u)]
      /\ reaches' = reaches
      /\ excused' = [excused EXCEPT ![u] = excused[u] \/ Copies(u) \ gone # {}]
  BY DEF DeleteHere, Delete
<1>2. /\ shared \in [Users -> Kept \cup {Nothing}] /\ memory \in [Processes -> Seq(Users \X Kept)]
      /\ \A q \in Processes : Keyed(memory[q]) /\ Len(memory[q]) <= MemoryMax
      /\ reaches \in [Processes -> BOOLEAN]
  BY DEF StoreTyped
<1>3. PICK now \in Seq(Users \X Kept) :
        /\ now = Others(memory[p], u) /\ Keyed(now) /\ Len(now) <= MemoryMax /\ Found(now, u) = Nothing
        /\ \A v \in Users \ {u} : Found(now, v) = Found(memory[p], v)
  <2>1. /\ Others(memory[p], u) \in Seq(Users \X Kept) /\ Keyed(Others(memory[p], u))
        /\ Len(Others(memory[p], u)) \in Nat /\ Len(memory[p]) \in Nat
        /\ Len(Others(memory[p], u)) <= Len(memory[p])
        /\ Found(Others(memory[p], u), u) = Nothing
        /\ \A v \in Users \ {u} : Found(Others(memory[p], u), v) = Found(memory[p], v)
    BY <1>2, OthersFound
  <2>2. Len(memory[p]) <= MemoryMax
    BY <1>2
  <2>3. Len(Others(memory[p], u)) <= MemoryMax
    BY ONLY <2>1, <2>2, MemoryMaxAssumption
  <2> QED
    BY <2>1, <2>3
<1>4. /\ excused' \in [Users -> BOOLEAN]
      /\ \A v \in Users \ {u} : excused'[v] = excused[v]
      /\ excused[u] => excused'[u]
      /\ ~excused'[u] => Copies(u) \subseteq gone
  <2>1. PICK b \in BOOLEAN : b = (excused[u] \/ Copies(u) \ gone # {})
    OBVIOUS
  <2>2. excused' = [excused EXCEPT ![u] = b]
    BY <1>1, <2>1
  <2>3. excused'[u] = b /\ excused' \in [Users -> BOOLEAN] /\ \A v \in Users \ {u} : excused'[v] = excused[v]
    BY <2>2
  <2>4. ~b => Copies(u) \ gone = {}
    BY <2>1
  <2> HIDE DEF gone
  <2> QED
    BY <2>1, <2>3, <2>4
<1>5. /\ memory' \in [Processes -> Seq(Users \X Kept)] /\ memory'[p] = now
      /\ \A q \in Processes \ {p} : memory'[q] = memory[q]
  BY <1>1, <1>2, <1>3
<1>6. /\ shared' \in [Users -> Kept \cup {Nothing}]
      /\ \A v \in Users \ {u} : shared'[v] = shared[v]
      /\ shared'[u] = IF reaches[p] THEN Nothing ELSE shared[u]
  BY <1>1, <1>2
<1>7. StoreTyped'
  <2>1. \A q \in Processes : Keyed(memory'[q]) /\ Len(memory'[q]) <= MemoryMax
    BY <1>2, <1>3, <1>5
  <2>2. \A q \in Processes : Keyed(memory[q])'
    BY <2>1 DEF Keyed
  <2> QED
    BY <1>1, <1>2, <1>5, <1>6, <2>1, <2>2 DEF StoreTyped
<1>8. ASSUME NEW v \in Users \ {u} PROVE Held(v)' \subseteq Held(v) \cup {Nothing}
  <2>1. \A q \in Processes : Remembered(q, v)' = Remembered(q, v)
    BY <1>3, <1>5 DEF Remembered
  <2> QED
    BY <1>6, <2>1 DEF Held
<1>9. ASSUME ~excused'[u] PROVE Held(u)' \subseteq {Nothing}
  <2>1. Copies(u) \subseteq {p} \cup (IF reaches[p] THEN {"redis"} ELSE {}) /\ p # "redis"
    BY <1>4, <1>9, DialogAssumption
  <2>2. \A q \in Processes \ {p} : Remembered(q, u) = Nothing
    <3>1. \A q \in Processes : q # "redis"
      BY DialogAssumption
    <3> QED
      BY <2>1, <3>1 DEF Copies
  <2>3. reaches[p] \/ shared[u] = Nothing
    BY <2>1 DEF Copies
  <2>4. shared'[u] = Nothing /\ \A q \in Processes : Remembered(q, u)' = Nothing
    BY <1>3, <1>5, <1>6, <2>2, <2>3 DEF Remembered
  <2> QED
    BY <2>4 DEF Held
<1> QED
  BY <1>4, <1>7, <1>8, <1>9

\* A record expires, in Redis or in the memory of a process.
LEMMA ExpiryFacts ==
  ASSUME StoreTyped, (\E u \in Users : ExpireShared(u)) \/ (\E p \in Processes : ExpireMemory(p))
  PROVE  StoreTyped' /\ \A v \in Users : Held(v)' \subseteq Held(v) \cup {Nothing}
<1>1. /\ shared \in [Users -> Kept \cup {Nothing}] /\ memory \in [Processes -> Seq(Users \X Kept)]
      /\ \A q \in Processes : Keyed(memory[q]) /\ Len(memory[q]) <= MemoryMax
      /\ reaches \in [Processes -> BOOLEAN]
  BY DEF StoreTyped
<1>2. ASSUME NEW u \in Users, ExpireShared(u)
      PROVE  StoreTyped' /\ \A v \in Users : Held(v)' \subseteq Held(v) \cup {Nothing}
  <2>1. shared' = [shared EXCEPT ![u] = Nothing] /\ memory' = memory /\ reaches' = reaches
    BY <1>2 DEF ExpireShared
  <2>2. shared' \in [Users -> Kept \cup {Nothing}] /\ \A v \in Users : shared'[v] \in {shared[v], Nothing}
    BY <1>1, <2>1
  <2>3. StoreTyped'
    BY <1>1, <2>1, <2>2 DEF StoreTyped
  <2>4. \A v \in Users, q \in Processes : Remembered(q, v)' = Remembered(q, v)
    BY <2>1 DEF Remembered
  <2> QED
    BY <2>2, <2>3, <2>4 DEF Held
<1>3. ASSUME NEW p \in Processes, ExpireMemory(p)
      PROVE  StoreTyped' /\ \A v \in Users : Held(v)' \subseteq Held(v) \cup {Nothing}
  <2>1. memory[p] # << >> /\ memory' = [memory EXCEPT ![p] = Tail(memory[p])] /\ shared' = shared /\ reaches' = reaches
    BY <1>3 DEF ExpireMemory
  <2>2. PICK now \in Seq(Users \X Kept) :
          /\ now = Tail(memory[p]) /\ Keyed(now) /\ Len(now) <= MemoryMax
          /\ \A v \in Users : Found(now, v) \in {Found(memory[p], v), Nothing}
    <3>1. /\ Tail(memory[p]) \in Seq(Users \X Kept) /\ Keyed(Tail(memory[p]))
          /\ Len(memory[p]) \in Nat /\ Len(Tail(memory[p])) = Len(memory[p]) - 1
          /\ \A v \in Users : Found(Tail(memory[p]), v) \in {Found(memory[p], v), Nothing}
      BY <1>1, <2>1, TailFound
    <3>2. Len(memory[p]) <= MemoryMax
      BY <1>1
    <3>3. Len(Tail(memory[p])) <= MemoryMax
      BY ONLY <3>1, <3>2, MemoryMaxAssumption
    <3> QED
      BY <3>1, <3>3
  <2>3. /\ memory' \in [Processes -> Seq(Users \X Kept)] /\ memory'[p] = now
        /\ \A q \in Processes \ {p} : memory'[q] = memory[q]
    BY <1>1, <2>1, <2>2
  <2>4. StoreTyped'
    <3>1. \A q \in Processes : Keyed(memory'[q]) /\ Len(memory'[q]) <= MemoryMax
      BY <1>1, <2>2, <2>3
    <3>2. \A q \in Processes : Keyed(memory[q])'
      BY <3>1 DEF Keyed
    <3> QED
      BY <1>1, <2>1, <2>3, <3>1, <3>2 DEF StoreTyped
  <2>5. \A v \in Users, q \in Processes : Remembered(q, v)' \in {Remembered(q, v), Nothing}
    BY <2>2, <2>3 DEF Remembered
  <2> QED
    BY <2>1, <2>4, <2>5 DEF Held
<1> QED
  BY <1>2, <1>3

\* A process that ends forgets what it remembered.
LEMMA ForgetFacts ==
  ASSUME StoreTyped, NEW p \in Processes, memory' = [memory EXCEPT ![p] = << >>], UNCHANGED << reaches, shared >>
  PROVE  StoreTyped' /\ \A v \in Users : Held(v)' \subseteq Held(v) \cup {Nothing}
<1>1. /\ memory' \in [Processes -> Seq(Users \X Kept)] /\ memory'[p] = << >>
      /\ \A q \in Processes \ {p} : memory'[q] = memory[q]
  BY DEF StoreTyped
<1>2. /\ DOMAIN << >> = {} /\ Len(<< >>) = 0
  OBVIOUS
<1>3. Keyed(<< >>) /\ \A v \in Users : Found(<< >>, v) = Nothing
  BY <1>2 DEF Keyed, Found, PlacesOf
<1>4. StoreTyped'
  <2>1. \A q \in Processes : Keyed(memory'[q]) /\ Len(memory'[q]) <= MemoryMax
    BY <1>1, <1>2, <1>3, MemoryMaxAssumption DEF StoreTyped
  <2>2. \A q \in Processes : Keyed(memory[q])'
    BY <2>1 DEF Keyed
  <2> QED
    BY <1>1, <2>1, <2>2 DEF StoreTyped
<1>5. \A v \in Users, q \in Processes : Remembered(q, v)' \in {Remembered(q, v), Nothing}
  BY <1>1, <1>3 DEF Remembered
<1> QED
  BY <1>4, <1>5 DEF Held

LEMMA HeldShrinks ==
  ASSUME NEW v \in Users, Held(v)' \subseteq Held(v) \cup {Nothing}
  PROVE  /\ DraftsHeld(v)' \subseteq DraftsHeld(v) \cup {0}
         /\ TicketsHeld(v)' \subseteq TicketsHeld(v) \cup {0}
<1>1. Nothing.draft = 0 /\ Nothing.ticket = 0
  BY DEF Nothing, State
<1> QED
  BY <1>1 DEF DraftsHeld, TicketsHeld

\* A user's descriptions and tickets stay sound while none that was used up or cancelled
\* comes back.
LEMMA UserStays ==
  ASSUME DialogTyped, DialogTyped', NEW v \in Users, UserSound(v), excused[v] => excused'[v],
         ~excused'[v] =>
           /\ created'[v] = created[v] /\ typed[v] <= typed'[v]
           /\ \A d \in DraftsHeld(v)' : d \in DraftsHeld(v) \cup {0} \/ (typed[v] < d /\ d <= typed'[v])
           /\ \A k \in TicketsHeld(v)' : k # 0 => k = chosen'[v]
           /\ \A i, j \in Takers(v)' : i = j
           /\ \A j \in Takers(v)' : task'[j].draft # 0 =>
                /\ j \in Takers(v)
                /\ \/ task'[j].draft = task[j].draft /\ (task[j].pc = "clear" => task'[j].pc = "clear")
                   \/ task[j].draft = 0 /\ task'[j].draft \in DraftsHeld(v)
           /\ \/ DraftsHeld(v)' \subseteq {0}
              \/ \A j \in Takers(v) : task[j].pc = "clear" =>
                   j \in Takers(v)' /\ task'[j].pc = "clear" /\ task'[j].draft = task[j].draft
           /\ \/ dropped'[v] = dropped[v]
              \/ /\ \A d \in dropped'[v] : d <= typed[v]
                 /\ DraftsHeld(v)' \subseteq {0}
                 /\ \A j \in Takers(v)' : task'[j].draft = 0
  PROVE  UserSound(v)'
<1> SUFFICES ASSUME ~excused'[v]
             PROVE  /\ \A i, j \in Takers(v)' : i = j
                    /\ \A d \in DraftsHeld(v)' : d <= typed'[v]
                    /\ \A i \in Takers(v)' : task'[i].draft <= typed'[v]
                    /\ \A d \in 1..MaxDrafts : created'[v][d] > 0 =>
                         /\ d <= typed'[v] /\ created'[v][d] = 1
                         /\ \A i \in Takers(v)' : task'[i].draft = d => task'[i].pc = "clear"
                         /\ d \in DraftsHeld(v)' => \E i \in Takers(v)' : task'[i].draft = d
                    /\ \A d \in dropped'[v] : /\ d <= typed'[v] /\ d \notin DraftsHeld(v)'
                                              /\ \A i \in Takers(v)' : task'[i].draft # d
                    /\ \A k \in TicketsHeld(v)' : k # 0 => k = chosen'[v]
  BY DEF UserSound
<1>1. /\ \A i, j \in Takers(v) : i = j
      /\ \A d \in DraftsHeld(v) : d <= typed[v]
      /\ \A i \in Takers(v) : task[i].draft <= typed[v]
      /\ \A d \in 1..MaxDrafts : created[v][d] > 0 =>
           /\ d <= typed[v] /\ created[v][d] = 1
           /\ \A i \in Takers(v) : task[i].draft = d => task[i].pc = "clear"
           /\ d \in DraftsHeld(v) => \E i \in Takers(v) : task[i].draft = d
      /\ \A d \in dropped[v] : /\ d <= typed[v] /\ d \notin DraftsHeld(v)
                               /\ \A i \in Takers(v) : task[i].draft # d
  BY DEF UserSound
<1>2. /\ created'[v] = created[v]
      /\ \A d \in DraftsHeld(v)' : d \in DraftsHeld(v) \cup {0} \/ (typed[v] < d /\ d <= typed'[v])
      /\ \A k \in TicketsHeld(v)' : k # 0 => k = chosen'[v]
      /\ \A i, j \in Takers(v)' : i = j
  OBVIOUS
<1>3. \A j \in Takers(v)' : task'[j].draft # 0 =>
        /\ j \in Takers(v)
        /\ \/ task'[j].draft = task[j].draft /\ (task[j].pc = "clear" => task'[j].pc = "clear")
           \/ task[j].draft = 0 /\ task'[j].draft \in DraftsHeld(v)
  OBVIOUS
<1>4. \/ DraftsHeld(v)' \subseteq {0}
      \/ \A j \in Takers(v) : task[j].pc = "clear" =>
           j \in Takers(v)' /\ task'[j].pc = "clear" /\ task'[j].draft = task[j].draft
  OBVIOUS
<1>5. \/ dropped'[v] = dropped[v]
      \/ /\ \A d \in dropped'[v] : d <= typed[v]
         /\ DraftsHeld(v)' \subseteq {0}
         /\ \A j \in Takers(v)' : task'[j].draft = 0
  OBVIOUS
<1>6. /\ typed[v] \in Nat /\ typed'[v] \in Nat /\ typed[v] <= typed'[v] /\ MaxDrafts \in Nat
      /\ \A d \in dropped[v] : d \in 1..MaxDrafts
      /\ \A d \in dropped'[v] : d \in 1..MaxDrafts
  BY DialogAssumption DEF DialogTyped
<1>7. /\ \A d \in DraftsHeld(v) : d \in Nat
      /\ \A d \in DraftsHeld(v)' : d \in Nat
  <2>1. \A s \in Kept \cup {Nothing} : s.draft \in Nat
    BY DialogAssumption DEF Kept, States, Nothing, State
  <2>2. \A s \in Held(v) : s.draft \in Nat
    BY <2>1, HeldKept DEF DialogTyped
  <2>3. \A s \in Held(v)' : s.draft \in Nat
    BY <2>1, HeldKeptNext DEF DialogTyped
  <2> QED
    BY <2>2, <2>3 DEF DraftsHeld
<1>8. \A j \in Takers(v)' : task'[j].draft \in Nat
  BY DialogAssumption DEF DialogTyped, HandlerRuns, Takers, Busy
<1>9. ASSUME NEW d \in DraftsHeld(v)' PROVE d <= typed'[v]
  <2>1. d \in Nat
    BY <1>7
  <2>2. CASE d \in DraftsHeld(v)
    <3>1. d <= typed[v]
      BY <1>1, <2>2
    <3> QED
      BY ONLY <1>6, <2>1, <3>1
  <2>3. CASE d = 0
    BY <1>6, <2>3
  <2> QED
    BY <1>2, <2>2, <2>3
<1>10. ASSUME NEW i \in Takers(v)' PROVE task'[i].draft <= typed'[v]
  <2>1. CASE task'[i].draft = 0
    BY <1>6, <2>1
  <2>2. CASE task'[i].draft # 0
    <3>1. task'[i].draft <= typed[v]
      BY <1>1, <1>3, <2>2
    <3> QED
      BY <1>6, <1>8, <3>1
  <2> QED
    BY <2>1, <2>2
<1>11. ASSUME NEW d \in 1..MaxDrafts, created'[v][d] > 0
       PROVE  /\ d <= typed'[v] /\ created'[v][d] = 1
              /\ \A i \in Takers(v)' : task'[i].draft = d => task'[i].pc = "clear"
              /\ d \in DraftsHeld(v)' => \E i \in Takers(v)' : task'[i].draft = d
  <2>1. /\ d <= typed[v] /\ created[v][d] = 1 /\ d \in Nat /\ d # 0
        /\ \A i \in Takers(v) : task[i].draft = d => task[i].pc = "clear"
        /\ d \in DraftsHeld(v) => \E i \in Takers(v) : task[i].draft = d
    BY <1>1, <1>2, <1>11
  <2>2. ASSUME NEW i \in Takers(v)', task'[i].draft = d PROVE task'[i].pc = "clear"
    <3>1. i \in Takers(v)
      BY <1>3, <2>1, <2>2
    <3>2. CASE task'[i].draft = task[i].draft /\ (task[i].pc = "clear" => task'[i].pc = "clear")
      BY <2>1, <2>2, <3>1, <3>2
    <3>3. CASE task[i].draft = 0 /\ task'[i].draft \in DraftsHeld(v)
      <4>1. PICK j \in Takers(v) : task[j].draft = d
        BY <2>1, <2>2, <3>3
      <4>2. i = j
        BY <1>1, <3>1
      <4> QED
        BY <2>1, <3>3, <4>1, <4>2
    <3> QED
      BY <1>3, <2>1, <2>2, <3>2, <3>3
  <2>3. ASSUME d \in DraftsHeld(v)' PROVE \E i \in Takers(v)' : task'[i].draft = d
    <3>1. d \in DraftsHeld(v)
      <4>1. ~(typed[v] < d)
        BY <1>6, <2>1
      <4> QED
        BY <1>2, <2>1, <2>3, <4>1
    <3>2. PICK i \in Takers(v) : task[i].draft = d /\ task[i].pc = "clear"
      BY <2>1, <3>1
    <3>3. ~(DraftsHeld(v)' \subseteq {0})
      BY <2>1, <2>3
    <3> QED
      BY <1>4, <3>2, <3>3
  <2>4. d <= typed'[v]
    BY <1>6, <2>1
  <2> QED
    BY <1>2, <2>1, <2>2, <2>3, <2>4
<1>12. ASSUME NEW d \in dropped'[v]
       PROVE  d <= typed'[v] /\ d \notin DraftsHeld(v)' /\ \A i \in Takers(v)' : task'[i].draft # d
  <2>1. d \in Nat /\ d # 0
    BY <1>6
  <2>2. CASE dropped'[v] = dropped[v]
    <3>1. d <= typed[v] /\ d \notin DraftsHeld(v) /\ \A i \in Takers(v) : task[i].draft # d
      BY <1>1, <2>2
    <3>2. d <= typed'[v] /\ ~(typed[v] < d)
      BY <1>6, <2>1, <3>1
    <3>3. d \notin DraftsHeld(v)'
      BY <1>2, <2>1, <3>1, <3>2
    <3>4. ASSUME NEW i \in Takers(v)', task'[i].draft = d PROVE FALSE
      BY <1>3, <2>1, <3>1, <3>4
    <3> QED
      BY <3>2, <3>3, <3>4
  <2>3. CASE /\ \A e \in dropped'[v] : e <= typed[v]
             /\ DraftsHeld(v)' \subseteq {0}
             /\ \A j \in Takers(v)' : task'[j].draft = 0
    <3>1. d <= typed[v]
      BY <2>3
    <3>2. d <= typed'[v]
      BY <1>6, <2>1, <3>1
    <3> QED
      BY <2>1, <2>3, <3>2
  <2> QED
    BY <1>5, <2>2, <2>3
<1> QED
  BY <1>2, <1>9, <1>10, <1>11, <1>12

\* What is the task of no one or of this user.
Only(t, u) == t = Idle \/ t.user = u

\* A step made for one user leaves the others sound.
LEMMA OthersSound ==
  ASSUME DialogInv, DialogTyped', NEW u \in Users, NEW v \in Users \ {u},
         Held(v)' \subseteq Held(v) \cup {Nothing}, excused'[v] = excused[v],
         typed'[v] = typed[v], created'[v] = created[v], chosen'[v] = chosen[v], dropped'[v] = dropped[v],
         \A i \in Slots : task'[i] = task[i] \/ (Only(task[i], u) /\ Only(task'[i], u))
  PROVE  UserSound(v)'
<1>1. DialogTyped /\ UserSound(v)
  BY DEF DialogInv
<1>2. Takers(v)' = Takers(v) /\ \A i \in Takers(v) : task'[i] = task[i]
  BY DEF Takers, Busy, Only
<1>3. /\ DraftsHeld(v)' \subseteq DraftsHeld(v) \cup {0}
      /\ TicketsHeld(v)' \subseteq TicketsHeld(v) \cup {0}
  BY HeldShrinks
<1>4. typed[v] <= typed'[v]
  BY <1>1, DialogAssumption DEF DialogTyped
<1>5. ASSUME ~excused'[v]
      PROVE  /\ \A k \in TicketsHeld(v)' : k # 0 => k = chosen'[v]
             /\ \A i, j \in Takers(v)' : i = j
  BY <1>1, <1>2, <1>3, <1>5 DEF UserSound
<1> QED
  BY <1>1, <1>2, <1>3, <1>4, <1>5, UserStays

\* What a user's states hold, when they are this one or none.
LEMMA HeldOnly ==
  ASSUME NEW u \in Users, NEW s, Held(u)' \subseteq {s, Nothing}
  PROVE  /\ DraftsHeld(u)' \subseteq {s.draft, 0}
         /\ TicketsHeld(u)' \subseteq {s.ticket, 0}
<1>1. Nothing.draft = 0 /\ Nothing.ticket = 0
  BY DEF Nothing, State
<1> QED
  BY <1>1 DEF DraftsHeld, TicketsHeld

\* What one user's tickets and states were before the step.
LEMMA TicketsSound ==
  ASSUME NEW v \in Users, UserSound(v), Held(v)' \subseteq Held(v) \cup {Nothing}, ~excused[v]
  PROVE  \A k \in TicketsHeld(v)' : k # 0 => k = chosen[v]
<1>1. TicketsHeld(v)' \subseteq TicketsHeld(v) \cup {0}
  BY HeldShrinks
<1> QED
  BY <1>1 DEF UserSound

\* A step that only takes states away, or that leaves them and the handlers as they are.
LEMMA Recedes ==
  ASSUME DialogInv, UNCHANGED << task, tickets, ghosts >>, StoreTyped',
         rate' \in [Users -> [count : 0..(Limit + 1), timed : BOOLEAN]],
         budget' \in [left : Nat, texts : SUBSET Texts, faults : Nat],
         \A v \in Users : Held(v)' \subseteq Held(v) \cup {Nothing}
  PROVE  DialogInv'
<1>1. /\ task' = task /\ typed' = typed /\ created' = created /\ chosen' = chosen
      /\ dropped' = dropped /\ excused' = excused
  BY DEF tickets, ghosts
<1>2. DialogTyped /\ NoEmptyTicket /\ ReplyGoesToChosen /\ \A v \in Users : UserSound(v)
  BY DEF DialogInv
<1>3. DialogTyped'
  BY <1>1, <1>2 DEF DialogTyped
<1>4. NoEmptyTicket' /\ ReplyGoesToChosen'
  BY <1>1, <1>2 DEF NoEmptyTicket, ReplyGoesToChosen, Busy, User
<1>5. ASSUME NEW v \in Users PROVE UserSound(v)'
  <2>1. Takers(v)' = Takers(v)
    BY <1>1 DEF Takers, Busy
  <2>2. DraftsHeld(v)' \subseteq DraftsHeld(v) \cup {0}
    BY HeldShrinks
  <2>3. typed[v] <= typed'[v]
    BY <1>1, <1>2, DialogAssumption DEF DialogTyped
  <2>4. ASSUME ~excused'[v] PROVE \A k \in TicketsHeld(v)' : k # 0 => k = chosen'[v]
    BY <1>1, <1>2, <2>4, TicketsSound
  <2>5. ASSUME ~excused'[v] PROVE \A i, j \in Takers(v)' : i = j
    BY <1>1, <1>2, <2>1, <2>5 DEF UserSound
  <2> QED
    BY <1>1, <1>2, <1>3, <2>1, <2>2, <2>3, <2>4, <2>5, UserStays
<1> QED
  BY <1>2, <1>3, <1>4, <1>5 DEF DialogInv

\* A message that opens a dialogue, or closes one, while the handlers go on.
LEMMA QuietStep ==
  ASSUME DialogInv, NEW u \in Users, UNCHANGED << task, rate, tickets, dropped >>, StoreTyped',
         excused' \in [Users -> BOOLEAN], excused[u] => excused'[u],
         chosen' \in [Users -> Tickets \cup {0}],
         budget' \in [left : Nat, texts : SUBSET Texts, faults : Nat],
         \A v \in Users \ {u} : /\ Held(v)' \subseteq Held(v) \cup {Nothing}
                                /\ excused'[v] = excused[v] /\ chosen'[v] = chosen[v],
         ~excused'[u] => /\ DraftsHeld(u)' \subseteq {0}
                         /\ \A k \in TicketsHeld(u)' : k # 0 => k = chosen'[u]
  PROVE  DialogInv'
<1>1. task' = task /\ rate' = rate /\ typed' = typed /\ created' = created /\ dropped' = dropped
  BY DEF tickets
<1>2. DialogTyped /\ NoEmptyTicket /\ ReplyGoesToChosen /\ \A v \in Users : UserSound(v)
  BY DEF DialogInv
<1>3. DialogTyped'
  BY <1>1, <1>2 DEF DialogTyped
<1>4. \A v \in Users : excused[v] => excused'[v]
  OBVIOUS
<1>5. NoEmptyTicket'
  BY <1>1, <1>2 DEF NoEmptyTicket
<1>6. ReplyGoesToChosen'
  <2>1. SUFFICES ASSUME NEW i \in Slots, task[i] # Idle, task[i].pc = "reply", ~excused'[task[i].user]
                 PROVE  task[i].ticket = task[i].wanted
    BY <1>1 DEF ReplyGoesToChosen, Busy, User
  <2>2. task[i].user \in Users
    BY <1>2, <2>1 DEF DialogTyped, HandlerRuns
  <2> QED
    BY <1>2, <1>4, <2>1, <2>2 DEF ReplyGoesToChosen, Busy, User
<1>7. ASSUME NEW v \in Users \ {u} PROVE UserSound(v)'
  BY <1>1, <1>3, OthersSound
<1>8. UserSound(u)'
  <2>1. Takers(u)' = Takers(u)
    BY <1>1 DEF Takers, Busy
  <2>2. typed[u] <= typed'[u]
    BY <1>1, <1>2, DialogAssumption DEF DialogTyped
  <2>3. ASSUME ~excused'[u] PROVE \A i, j \in Takers(u)' : i = j
    BY <1>1, <1>2, <1>4, <2>1, <2>3 DEF UserSound
  <2> QED
    BY <1>1, <1>2, <1>3, <1>4, <2>1, <2>2, <2>3, UserStays
<1> QED
  BY <1>2, <1>3, <1>5, <1>6, <1>7, <1>8 DEF DialogInv

\* A step of one handler.  It holds a description only when it held it before, or when it was
\* about to take one of those stored.
LEMMA SlotStep ==
  ASSUME DialogInv, NEW i \in Slots, NEW u \in Users, NEW t \in HandlerRuns \cup {Idle},
         task' = [task EXCEPT ![i] = t], Only(task[i], u), Only(t, u),
         StoreTyped', excused' \in [Users -> BOOLEAN], excused[u] => excused'[u],
         rate' \in [Users -> [count : 0..(Limit + 1), timed : BOOLEAN]],
         typed' \in [Users -> 0..MaxDrafts], UNCHANGED << created, chosen >>,
         dropped' \in [Users -> SUBSET (1..MaxDrafts)],
         budget' \in [left : Nat, texts : SUBSET Texts, faults : Nat],
         \A v \in Users \ {u} : /\ Held(v)' \subseteq Held(v) \cup {Nothing}
                                /\ excused'[v] = excused[v] /\ typed'[v] = typed[v]
                                /\ dropped'[v] = dropped[v],
         t # Idle /\ t.pc = "reply" /\ ~excused'[u] => t.ticket = t.wanted,
         ~excused'[u] =>
           /\ typed[u] <= typed'[u]
           /\ \A d \in DraftsHeld(u)' : d \in DraftsHeld(u) \cup {0} \/ (typed[u] < d /\ d <= typed'[u])
           /\ \A k \in TicketsHeld(u)' : k # 0 => k = chosen[u]
           /\ t # Idle /\ (t.pc = "identity_choice" \/ t.draft # 0) => Takers(u) \subseteq {i}
           /\ t # Idle /\ t.draft # 0 =>
                /\ i \in Takers(u)
                /\ \/ t.draft = task[i].draft /\ (task[i].pc = "clear" => t.pc = "clear")
                   \/ task[i].draft = 0 /\ t.draft \in DraftsHeld(u)
           /\ DraftsHeld(u)' \subseteq {0} \/ ~At(i, "clear")
           /\ \/ dropped'[u] = dropped[u]
              \/ /\ \A d \in dropped'[u] : d <= typed[u]
                 /\ DraftsHeld(u)' \subseteq {0}
                 /\ \A j \in Takers(u)' : task'[j].draft = 0
  PROVE  DialogInv'
<1>2. DialogTyped /\ NoEmptyTicket /\ ReplyGoesToChosen /\ \A v \in Users : UserSound(v)
  BY DEF DialogInv
<1>1. /\ task'[i] = t /\ \A j \in Slots \ {i} : task'[j] = task[j]
      /\ task' \in [Slots -> HandlerRuns \cup {Idle}]
  BY <1>2 DEF DialogTyped
<1>3. DialogTyped'
  BY <1>1, <1>2 DEF DialogTyped
<1>4. \A v \in Users : excused[v] => excused'[v]
  OBVIOUS
<1>5. NoEmptyTicket'
  BY <1>2 DEF NoEmptyTicket
<1>6. ReplyGoesToChosen'
  <2>1. SUFFICES ASSUME NEW j \in Slots, task'[j] # Idle, task'[j].pc = "reply", ~excused'[task'[j].user]
                 PROVE  task'[j].ticket = task'[j].wanted
    BY DEF ReplyGoesToChosen, Busy, User
  <2>2. CASE j = i
    BY <1>1, <2>1, <2>2 DEF Only
  <2>3. CASE j # i
    <3>1. task'[j] = task[j] /\ task[j].user \in Users
      BY <1>1, <1>2, <2>1, <2>3 DEF DialogTyped, HandlerRuns
    <3> QED
      BY <1>2, <1>4, <2>1, <3>1 DEF ReplyGoesToChosen, Busy, User
  <2> QED
    BY <2>2, <2>3
<1>7. ASSUME NEW v \in Users \ {u} PROVE UserSound(v)'
  BY <1>1, <1>3, OthersSound
<1>8. UserSound(u)'
  <2>1. \A j \in Takers(u)' : j # i => j \in Takers(u) /\ task'[j] = task[j]
    BY <1>1 DEF Takers, Busy
  <2>2. i \in Takers(u)' => t # Idle /\ (t.pc = "identity_choice" \/ t.draft # 0)
    BY <1>1 DEF Takers, Busy
  <2>3. \A j \in Takers(u) : j # i => j \in Takers(u)' /\ task'[j] = task[j]
    BY <1>1 DEF Takers, Busy
  <2>4. ASSUME ~excused'[u] PROVE \A j, k \in Takers(u)' : j = k
    BY <1>2, <1>4, <2>1, <2>2, <2>4 DEF UserSound
  <2>5. ASSUME ~excused'[u], NEW j \in Takers(u)', task'[j].draft # 0
        PROVE  /\ j \in Takers(u)
               /\ \/ task'[j].draft = task[j].draft /\ (task[j].pc = "clear" => task'[j].pc = "clear")
                  \/ task[j].draft = 0 /\ task'[j].draft \in DraftsHeld(u)
    BY <1>1, <2>1, <2>2, <2>5
  <2>6. ASSUME ~excused'[u]
        PROVE  \/ DraftsHeld(u)' \subseteq {0}
               \/ \A j \in Takers(u) : task[j].pc = "clear" =>
                    j \in Takers(u)' /\ task'[j].pc = "clear" /\ task'[j].draft = task[j].draft
    <3>1. \A j \in Takers(u) : task[j] # Idle
      BY DEF Takers, Busy
    <3> QED
      BY <2>3, <2>6, <3>1 DEF At
  <2>7. ~excused'[u] =>
           /\ created'[u] = created[u] /\ typed[u] <= typed'[u]
           /\ \A d \in DraftsHeld(u)' : d \in DraftsHeld(u) \cup {0} \/ (typed[u] < d /\ d <= typed'[u])
           /\ \A k \in TicketsHeld(u)' : k # 0 => k = chosen'[u]
           /\ \A k, j \in Takers(u)' : k = j
           /\ \A j \in Takers(u)' : task'[j].draft # 0 =>
                /\ j \in Takers(u)
                /\ \/ task'[j].draft = task[j].draft /\ (task[j].pc = "clear" => task'[j].pc = "clear")
                   \/ task[j].draft = 0 /\ task'[j].draft \in DraftsHeld(u)
           /\ \/ DraftsHeld(u)' \subseteq {0}
              \/ \A j \in Takers(u) : task[j].pc = "clear" =>
                   j \in Takers(u)' /\ task'[j].pc = "clear" /\ task'[j].draft = task[j].draft
           /\ \/ dropped'[u] = dropped[u]
              \/ /\ \A d \in dropped'[u] : d <= typed[u]
                 /\ DraftsHeld(u)' \subseteq {0}
                 /\ \A j \in Takers(u)' : task'[j].draft = 0
    BY <2>4, <2>5, <2>6
  <2> QED
    BY ONLY <1>2, <1>3, <1>4, <2>7, u \in Users, UserStays
<1> QED
  BY <1>2, <1>3, <1>5, <1>6, <1>7, <1>8 DEF DialogInv

LEMMA BudgetSpent ==
  ASSUME DialogTyped, NEW p \in Processes, NEW u \in Users, NEW text, NEW h, Takes(p, u, text, h)
  PROVE  budget' \in [left : Nat, texts : SUBSET Texts, faults : Nat]
<1>1. PICK b \in [left : Nat, texts : SUBSET Texts, faults : Nat] : b = budget
  BY DEF DialogTyped
<1>2. b.left \in Nat /\ b.left > 0
  BY <1>1 DEF Takes
<1>3. b.left - 1 \in Nat
  BY ONLY <1>2
<1>4. budget' = [b EXCEPT !.left = b.left - 1]
  BY <1>1 DEF Takes
<1> QED
  BY <1>3, <1>4

\* The states the handlers write.
LEMMA StatesKept ==
  /\ \A at \in Waiting \ {"identity", "reply_text"} : State(at, 0, 0) \in Kept
  /\ \A d \in (0..MaxDrafts) \ {0} :
       State("description", d, 0) \in Kept /\ State("identity", d, 0) \in Kept
  /\ \A k \in Tickets : State("reply_text", 0, k) \in Kept
<1>1. 0 \in 0..MaxDrafts /\ \A k \in Tickets : k # 0
  BY DialogAssumption
<1>2. \A at \in Waiting : at \in Places /\ at # "none"
  BY DEF Waiting, Places
<1>3. \A at \in Waiting, d \in 0..MaxDrafts, k \in Tickets \cup {0} :
        /\ State(at, d, k) \in States /\ State(at, d, k) # Nothing
        /\ State(at, d, k).at = at /\ State(at, d, k).draft = d /\ State(at, d, k).ticket = k
  BY <1>2 DEF State, States, Nothing
<1>4. \A at \in Waiting \ {"identity", "reply_text"} : State(at, 0, 0) \in Kept
  BY <1>1, <1>3 DEF Kept, Complete
<1>5. {"description", "identity", "reply_text"} \subseteq Waiting
  BY DEF Waiting
<1>6. ASSUME NEW d \in (0..MaxDrafts) \ {0}
      PROVE  State("description", d, 0) \in Kept /\ State("identity", d, 0) \in Kept
  BY <1>3, <1>5 DEF Kept, Complete
<1>7. ASSUME NEW k \in Tickets PROVE State("reply_text", 0, k) \in Kept
  BY <1>1, <1>3, <1>5 DEF Kept, Complete
<1> QED
  BY <1>4, <1>6, <1>7

\* A message that opens a dialogue writes a state without a description.
LEMMA OpensStep ==
  ASSUME DialogInv, NEW p \in Processes, NEW u \in Users, NEW s \in Kept, PutHere(p, u, s),
         s.draft = 0, UNCHANGED << task, counters, tickets, dropped >>,
         budget' \in [left : Nat, texts : SUBSET Texts, faults : Nat],
         \/ s.ticket = 0 /\ chosen' = chosen
         \/ s.ticket \in Tickets /\ chosen' = [chosen EXCEPT ![u] = s.ticket]
  PROVE  DialogInv'
<1>1. StoreTyped /\ excused \in [Users -> BOOLEAN] /\ chosen \in [Users -> Tickets \cup {0}]
  BY DEF DialogInv, DialogTyped
<1>2. /\ StoreTyped' /\ excused' \in [Users -> BOOLEAN]
      /\ \A v \in Users \ {u} : Held(v)' \subseteq Held(v) \cup {Nothing} /\ excused'[v] = excused[v]
      /\ excused[u] => excused'[u]
      /\ ~excused'[u] => Held(u)' \subseteq {s, Nothing}
  BY <1>1, PutFacts
<1>3. /\ chosen' \in [Users -> Tickets \cup {0}]
      /\ \A v \in Users \ {u} : chosen'[v] = chosen[v]
      /\ s.ticket # 0 => s.ticket = chosen'[u]
  BY <1>1
<1>4. ASSUME ~excused'[u]
      PROVE  /\ DraftsHeld(u)' \subseteq {0}
             /\ \A k \in TicketsHeld(u)' : k # 0 => k = chosen'[u]
  BY <1>2, <1>3, <1>4, HeldOnly
<1>5. UNCHANGED << task, rate, tickets, dropped >>
  BY DEF counters
<1> QED
  BY <1>2, <1>3, <1>4, <1>5, QuietStep

LEMMA OpensSound ==
  ASSUME DialogInv, NEW p \in Processes, NEW u \in Users, NEW h, NEW at \in Waiting \ {"identity", "reply_text"},
         Opens(p, u, h, State(at, 0, 0))
  PROVE  DialogInv'
<1>1. PICK text \in budget.texts : Takes(p, u, text, h)
  BY DEF Opens
<1>2. budget' \in [left : Nat, texts : SUBSET Texts, faults : Nat]
  BY <1>1, BudgetSpent DEF DialogInv
<1>3. State(at, 0, 0) \in Kept
  BY StatesKept
<1>4. State(at, 0, 0).draft = 0 /\ State(at, 0, 0).ticket = 0
  BY DEF State
<1>5. PutHere(p, u, State(at, 0, 0)) /\ UNCHANGED << task, counters, tickets, dropped >> /\ chosen' = chosen
  BY DEF Opens
<1> QED
  BY <1>2, <1>3, <1>4, <1>5, OpensStep

LEMMA AnswerSound ==
  ASSUME DialogInv, NEW p \in Processes, NEW u \in Users, Answer(p, u)
  PROVE  DialogInv'
<1>1. PICK text \in budget.texts, h \in Answering : Takes(p, u, text, h)
  BY DEF Answer
<1>2. budget' \in [left : Nat, texts : SUBSET Texts, faults : Nat]
  BY <1>1, BudgetSpent DEF DialogInv
<1>3. UNCHANGED << storeVars, task, rate, tickets, ghosts >>
  BY DEF Answer, counters
<1>4. StoreTyped' /\ \A v \in Users : Held(v)' \subseteq Held(v) \cup {Nothing}
  BY <1>3 DEF DialogInv, DialogTyped, StoreTyped, storeVars, Held, Remembered
<1>5. rate' \in [Users -> [count : 0..(Limit + 1), timed : BOOLEAN]]
  BY <1>3 DEF DialogInv, DialogTyped
<1> QED
  BY <1>2, <1>3, <1>4, <1>5, Recedes

LEMMA StartReplySound ==
  ASSUME DialogInv, NEW p \in Processes, NEW u \in Users, StartReply(p, u)
  PROVE  DialogInv'
<1>1. PICK k \in Tickets :
        /\ \E text \in budget.texts : Takes(p, u, text, "reply_start")
        /\ PutHere(p, u, State("reply_text", 0, k))
        /\ chosen' = [chosen EXCEPT ![u] = k]
        /\ UNCHANGED << task, counters, tickets, dropped >>
  BY DEF StartReply
<1>2. budget' \in [left : Nat, texts : SUBSET Texts, faults : Nat]
  BY <1>1, BudgetSpent DEF DialogInv
<1>3. State("reply_text", 0, k) \in Kept
  BY StatesKept
<1>4. State("reply_text", 0, k).draft = 0 /\ State("reply_text", 0, k).ticket = k
  BY DEF State
<1> QED
  BY <1>1, <1>2, <1>3, <1>4, OpensStep

LEMMA ReportTodaySound ==
  ASSUME DialogInv, NEW p \in Processes, NEW u \in Users, ReportToday(p, u)
  PROVE  DialogInv'
<1>1. \E text \in budget.texts : Takes(p, u, text, "report_today")
  BY DEF ReportToday
<1>2. budget' \in [left : Nat, texts : SUBSET Texts, faults : Nat]
  BY <1>1, BudgetSpent DEF DialogInv
<1>3. DeleteHere(p, u) /\ UNCHANGED << task, rate, tickets, chosen, dropped >>
  BY DEF ReportToday, counters
<1>4. StoreTyped /\ excused \in [Users -> BOOLEAN] /\ chosen \in [Users -> Tickets \cup {0}]
  BY DEF DialogInv, DialogTyped
<1>5. /\ StoreTyped' /\ excused' \in [Users -> BOOLEAN]
      /\ \A v \in Users \ {u} : Held(v)' \subseteq Held(v) \cup {Nothing} /\ excused'[v] = excused[v]
      /\ excused[u] => excused'[u]
      /\ ~excused'[u] => Held(u)' \subseteq {Nothing}
  BY <1>3, <1>4, DeleteFacts
<1>6. Nothing.draft = 0 /\ Nothing.ticket = 0
  BY DEF Nothing, State
<1>7. ASSUME ~excused'[u]
      PROVE  /\ DraftsHeld(u)' \subseteq {0}
             /\ \A k \in TicketsHeld(u)' : k # 0 => k = chosen'[u]
  BY <1>5, <1>6, <1>7 DEF DraftsHeld, TicketsHeld
<1> QED
  BY <1>2, <1>3, <1>4, <1>5, <1>7, QuietStep

\* A handler begins: one that may take a description excuses the user when another may, too.
LEMMA BeginSound ==
  ASSUME DialogInv, NEW p \in Processes, NEW u \in Users, NEW i \in Slots, Begin(i, p, u)
  PROVE  DialogInv'
<1>1. DialogTyped
  BY DEF DialogInv
<1>2. PICK text \in budget.texts, h \in Deferred :
        /\ Takes(p, u, text, h)
        /\ task' = [task EXCEPT ![i] = Task(h, p, u, text)]
        /\ excused' = [excused EXCEPT ![u] = excused[u] \/ (h = "identity_choice" /\ Taps(u) # {})]
  BY DEF Begin
<1>3. budget' \in [left : Nat, texts : SUBSET Texts, faults : Nat]
  BY <1>1, <1>2, BudgetSpent
<1>4. task[i] = Idle /\ UNCHANGED << storeVars, rate, tickets, chosen, dropped >>
  BY DEF Begin, counters
<1>5. PICK t : t = Task(h, p, u, text)
  OBVIOUS
<1>6. t.pc = h /\ t.user = u /\ t.draft = 0 /\ t # Idle
  BY <1>5 DEF Task, Idle
<1>7. t \in HandlerRuns
  <2>1. text \in Texts
    BY <1>1 DEF DialogTyped
  <2>2. Gist(h, text) \in Texts
    <3>1. "long" \in Texts
      BY DEF Texts
    <3> QED
      BY <2>1, <3>1 DEF Gist
  <2>3. h \in Steps /\ h \notin {"limit", "expire", "create"}
    BY DEF Steps, Deferred
  <2>4. 0 \in 0..MaxDrafts
    BY DialogAssumption
  <2>5. t = [pc |-> h, process |-> p, user |-> u, text |-> Gist(h, text), draft |-> 0,
             ticket |-> 0, wanted |-> 0]
    BY <1>5 DEF Task
  <2> QED
    BY <2>2, <2>3, <2>4, <2>5 DEF HandlerRuns
<1>8. h # "reply"
  BY DEF Deferred
<1>9. StoreTyped' /\ \A v \in Users : Held(v)' \subseteq Held(v) \cup {Nothing}
  BY <1>1, <1>4 DEF DialogTyped, StoreTyped, storeVars, Held, Remembered
<1>10. /\ excused \in [Users -> BOOLEAN]
       /\ typed' \in [Users -> 0..MaxDrafts] /\ dropped' \in [Users -> SUBSET (1..MaxDrafts)]
       /\ rate' \in [Users -> [count : 0..(Limit + 1), timed : BOOLEAN]]
       /\ typed' = typed /\ created' = created /\ chosen' = chosen /\ dropped' = dropped
  BY <1>1, <1>4 DEF DialogTyped, tickets
<1>11. /\ excused' \in [Users -> BOOLEAN] /\ (excused[u] => excused'[u])
       /\ \A v \in Users \ {u} : excused'[v] = excused[v]
       /\ ~excused'[u] /\ h = "identity_choice" => Taps(u) = {}
  BY <1>2, <1>10
<1>12. Takers(u) \subseteq Taps(u)
  BY <1>1 DEF Takers, Taps, Busy, Tapping, DialogTyped, HandlerRuns
<1>13. typed[u] <= typed'[u]
  BY <1>1, <1>10, DialogAssumption DEF DialogTyped
<1>14. ~excused'[u] => /\ \A d \in DraftsHeld(u)' : d \in DraftsHeld(u) \cup {0}
                       /\ \A k \in TicketsHeld(u)' : k # 0 => k = chosen[u]
  BY <1>9, <1>11, HeldShrinks, TicketsSound DEF DialogInv
<1>15. task' = [task EXCEPT ![i] = t] /\ Only(task[i], u) /\ Only(t, u) /\ ~At(i, "clear")
  BY <1>2, <1>4, <1>5, <1>6 DEF Only, At
<1>16. ~excused'[u] /\ (t.pc = "identity_choice" \/ t.draft # 0) => Takers(u) \subseteq {i}
  BY <1>6, <1>11, <1>12
<1> QED
  BY <1>3, <1>6, <1>7, <1>8, <1>9, <1>10, <1>11, <1>13, <1>14, <1>15, <1>16, SlotStep

LEMMA MessageSound ==
  ASSUME DialogInv, NEW p \in Processes, NEW u \in Users, Message(p, u)
  PROVE  DialogInv'
<1>1. {"description", "department", "proposal", "report_type", "report_date", "report_period"}
        \subseteq Waiting \ {"identity", "reply_text"}
  BY DEF Waiting
<1>2. CASE Answer(p, u)
  BY <1>2, AnswerSound
<1>3. CASE Section(p, u)
  BY <1>1, <1>3, OpensSound DEF Section
<1>4. CASE Question(p, u)
  BY <1>1, <1>4, OpensSound DEF Question
<1>5. CASE Partnership(p, u)
  BY <1>1, <1>5, OpensSound DEF Partnership
<1>6. CASE StartReply(p, u)
  BY <1>6, StartReplySound
<1>7. CASE ReportMenu(p, u)
  BY <1>1, <1>7, OpensSound DEF ReportMenu
<1>8. CASE ReportByDate(p, u)
  BY <1>1, <1>8, OpensSound DEF ReportByDate
<1>9. CASE ReportToday(p, u)
  BY <1>9, ReportTodaySound
<1>10. CASE \E i \in Slots : Begin(i, p, u)
  BY <1>10, BeginSound
<1> QED
  BY <1>2, <1>3, <1>4, <1>5, <1>6, <1>7, <1>8, <1>9, <1>10 DEF Message

\* What is known of the handler in a busy slot.
LEMMA InSlot ==
  ASSUME DialogTyped, NEW i \in Slots, task[i] # Idle
  PROVE  /\ task[i] \in HandlerRuns /\ User(i) \in Users /\ Process(i) \in Processes
         /\ Mine(i) \in Held(User(i)) /\ Mine(i) \in Kept \cup {Nothing}
<1>1. task[i] \in HandlerRuns
  BY DEF DialogTyped
<1>2. User(i) \in Users /\ Process(i) \in Processes
  BY <1>1 DEF HandlerRuns, User, Process
<1>3. Mine(i) \in Held(User(i))
  BY <1>2 DEF Mine, Get, Held
<1> QED
  BY <1>1, <1>2, <1>3, HeldKept DEF DialogTyped

LEMMA NoRun == \A r \in HandlerRuns : r # Idle
BY DEF HandlerRuns, Idle, Steps, Deferred

LEMMA GoesTo ==
  ASSUME NEW i \in Slots, task[i] \in HandlerRuns, NEW pc \in Steps, Goes(i, pc),
         pc \in {"limit", "expire", "create"} => task[i].draft # 0,
         task[i].draft # 0 => pc \in {"limit", "expire", "create", "clear"}
  PROVE  \E t \in HandlerRuns :
           /\ task' = [task EXCEPT ![i] = t] /\ t.pc = pc /\ t.user = task[i].user
           /\ t.draft = task[i].draft /\ t.ticket = task[i].ticket /\ t.wanted = task[i].wanted
<1>1. PICK r \in HandlerRuns : r = task[i]
  OBVIOUS
<1>2. PICK t : t = [r EXCEPT !.pc = pc]
  OBVIOUS
<1>3. task' = [task EXCEPT ![i] = t]
  BY <1>1, <1>2 DEF Goes
<1>4. t \in HandlerRuns /\ t.pc = pc /\ t.user = r.user
           /\ t.draft = r.draft /\ t.ticket = r.ticket /\ t.wanted = r.wanted
  BY <1>1, <1>2 DEF HandlerRuns
<1> QED
  BY <1>1, <1>3, <1>4

\* A handler goes on, or ends, and leaves the states, the tickets and the ghosts as they are.
LEMMA LocalStep ==
  ASSUME DialogInv, NEW i \in Slots, task[i] # Idle, ~At(i, "clear"),
         NEW t \in HandlerRuns \cup {Idle}, task' = [task EXCEPT ![i] = t],
         UNCHANGED << storeVars, budget, tickets, ghosts >>,
         rate' \in [Users -> [count : 0..(Limit + 1), timed : BOOLEAN]],
         t # Idle => /\ t.user = User(i)
                     /\ t.pc # "identity_choice"
                     /\ t.draft # 0 => \/ t.draft = task[i].draft
                                       \/ /\ task[i].pc = "identity_choice"
                                          /\ task[i].draft = 0
                                          /\ t.draft \in DraftsHeld(User(i))
                     /\ t.pc = "reply" /\ ~excused[User(i)] => t.ticket = t.wanted
  PROVE  DialogInv'
<1>1. PICK u \in Users : u = User(i)
  BY InSlot DEF DialogInv
<1>2. DialogTyped /\ UserSound(u)
  BY DEF DialogInv
<1>3. StoreTyped' /\ \A v \in Users : Held(v)' \subseteq Held(v) \cup {Nothing}
  BY <1>2 DEF DialogTyped, StoreTyped, storeVars, Held, Remembered
<1>4. /\ excused' \in [Users -> BOOLEAN] /\ excused' = excused
      /\ typed' \in [Users -> 0..MaxDrafts] /\ dropped' \in [Users -> SUBSET (1..MaxDrafts)]
      /\ budget' \in [left : Nat, texts : SUBSET Texts, faults : Nat]
      /\ typed' = typed /\ created' = created /\ chosen' = chosen /\ dropped' = dropped
  BY <1>2 DEF DialogTyped, tickets, ghosts
<1>5. typed[u] <= typed'[u]
  BY <1>2, <1>4, DialogAssumption DEF DialogTyped
<1>6. ~excused'[u] => /\ \A d \in DraftsHeld(u)' : d \in DraftsHeld(u) \cup {0}
                      /\ \A k \in TicketsHeld(u)' : k # 0 => k = chosen[u]
  BY <1>2, <1>3, <1>4, HeldShrinks, TicketsSound
<1>7. t # Idle /\ t.draft # 0 => i \in Takers(u)
  BY <1>1 DEF Takers, Busy, User
<1>8. ~excused'[u] /\ t # Idle /\ (t.pc = "identity_choice" \/ t.draft # 0) => Takers(u) \subseteq {i}
  BY <1>2, <1>4, <1>7 DEF UserSound
<1>9. Only(task[i], u) /\ Only(t, u)
  BY <1>1 DEF Only, User
<1>10. t # Idle /\ t.draft # 0 =>
         \/ t.draft = task[i].draft /\ (task[i].pc = "clear" => t.pc = "clear")
         \/ task[i].draft = 0 /\ t.draft \in DraftsHeld(u)
  BY <1>1 DEF At
<1>11. t # Idle /\ t.pc = "reply" /\ ~excused'[u] => t.ticket = t.wanted
  BY <1>1, <1>4
<1> QED
  BY <1>3, <1>4, <1>5, <1>6, <1>7, <1>8, <1>9, <1>10, <1>11, SlotStep

LEMMA SaysSound ==
  ASSUME DialogInv, NEW i \in Slots, task[i] # Idle, ~At(i, "clear"), Says(i)
  PROVE  DialogInv'
<1>1. /\ task' = [task EXCEPT ![i] = Idle]
      /\ UNCHANGED << storeVars, budget, tickets, ghosts >> /\ rate' = rate
  BY DEF Says, Ends, rest, counters
<1>2. rate' \in [Users -> [count : 0..(Limit + 1), timed : BOOLEAN]]
  BY <1>1 DEF DialogInv, DialogTyped
<1> QED
  BY <1>1, <1>2, LocalStep

LEMMA GoesSound ==
  ASSUME DialogInv, NEW i \in Slots, task[i] # Idle, ~At(i, "clear"), NEW pc \in Steps, Goes(i, pc),
         pc \in {"limit", "expire", "create"} => task[i].draft # 0,
         task[i].draft # 0 => pc \in {"limit", "expire", "create", "clear"},
         pc \notin {"identity_choice", "reply"},
         UNCHANGED << storeVars, budget, tickets, ghosts >>,
         rate' \in [Users -> [count : 0..(Limit + 1), timed : BOOLEAN]]
  PROVE  DialogInv'
<1>1. task[i] \in HandlerRuns
  BY InSlot DEF DialogInv
<1>2. PICK t \in HandlerRuns :
           /\ task' = [task EXCEPT ![i] = t] /\ t.pc = pc /\ t.user = task[i].user
           /\ t.draft = task[i].draft
  BY <1>1, GoesTo
<1> QED
  BY <1>2, LocalStep DEF User

\* The handler gives the dialogue up.
LEMMA GivesUp ==
  ASSUME DialogInv, NEW i \in Slots, task[i] # Idle, ~At(i, "clear"), Goes(i, "clear"),
         UNCHANGED << storeVars, rest, tickets, ghosts >>
  PROVE  DialogInv'
<1>1. UNCHANGED << storeVars, budget, tickets, ghosts >> /\ rate' = rate
  BY DEF rest, counters
<1>2. rate' \in [Users -> [count : 0..(Limit + 1), timed : BOOLEAN]]
  BY <1>1 DEF DialogInv, DialogTyped
<1>3. "clear" \in Steps
  BY DEF Steps
<1> QED
  BY <1>1, <1>2, <1>3, GoesSound

LEMMA ChooseIdentitySound ==
  ASSUME DialogInv, NEW i \in Slots, ChooseIdentity(i)
  PROVE  DialogInv'
<1>1. /\ task[i] # Idle /\ task[i].pc = "identity_choice" /\ ~At(i, "clear")
      /\ UNCHANGED << storeVars, budget, tickets, ghosts >> /\ rate' = rate
  BY DEF ChooseIdentity, At, rest, counters
<1>2. task[i] \in HandlerRuns /\ Mine(i) \in Held(User(i)) /\ Mine(i) \in Kept \cup {Nothing}
  BY <1>1, InSlot DEF DialogInv
<1>3. PICK r \in HandlerRuns : r = task[i]
  BY <1>2
<1>4. PICK d : d = Mine(i).draft
  OBVIOUS
<1>5. d \in 0..MaxDrafts /\ d \in DraftsHeld(User(i))
  <2>1. Mine(i).draft \in 0..MaxDrafts
    BY <1>2, DialogAssumption DEF Kept, States, Nothing, State
  <2> QED
    BY <1>2, <1>4, <2>1 DEF DraftsHeld
<1>6. PICK pc : pc = IF d = 0 THEN "clear" ELSE "limit"
  OBVIOUS
<1>7. PICK t : t = [r EXCEPT !.draft = d, !.pc = pc]
  OBVIOUS
<1>8. task' = [task EXCEPT ![i] = t]
  <2>1. task' = [task EXCEPT ![i].draft = d, ![i].pc = pc]
    BY <1>4, <1>6 DEF ChooseIdentity, Expired
  <2>2. task \in [Slots -> HandlerRuns \cup {Idle}]
    BY DEF DialogInv, DialogTyped
  <2> QED
    BY <1>3, <1>7, <2>1, <2>2
<1>9. pc \in Steps /\ (pc = "limit" => d # 0) /\ pc \in {"limit", "clear"}
  BY <1>6 DEF Steps
<1>10. r \in [pc : Steps, process : Processes, user : Users, text : Texts, draft : 0..MaxDrafts,
              ticket : Tickets \cup {0}, wanted : Tickets \cup {0}]
  BY DEF HandlerRuns
<1>11. /\ t \in [pc : Steps, process : Processes, user : Users, text : Texts, draft : 0..MaxDrafts,
                 ticket : Tickets \cup {0}, wanted : Tickets \cup {0}]
       /\ t.pc = pc /\ t.draft = d /\ t.user = r.user
  BY <1>5, <1>7, <1>9, <1>10
<1>12. t \in HandlerRuns
  BY <1>9, <1>11 DEF HandlerRuns
<1>13. rate' \in [Users -> [count : 0..(Limit + 1), timed : BOOLEAN]]
  BY <1>1 DEF DialogInv, DialogTyped
<1>14. task[i].draft = 0
  BY <1>1, <1>2 DEF HandlerRuns
<1>15. t.user = User(i) /\ t.pc # "identity_choice" /\ t.pc # "reply" /\ t.draft \in DraftsHeld(User(i))
  BY <1>3, <1>5, <1>9, <1>11 DEF User
<1> QED
  BY <1>1, <1>8, <1>12, <1>13, <1>14, <1>15, LocalStep

LEMMA AskLimitSound ==
  ASSUME DialogInv, NEW i \in Slots, AskLimit(i)
  PROVE  DialogInv'
<1>1. /\ task[i] # Idle /\ task[i].pc = "limit" /\ ~At(i, "clear")
      /\ UNCHANGED << storeVars, budget, tickets, ghosts >>
  BY DEF AskLimit, At
<1>2. task[i] \in HandlerRuns /\ User(i) \in Users
  BY <1>1, InSlot DEF DialogInv
<1>3. task[i].draft # 0
  BY <1>1, <1>2 DEF HandlerRuns
<1>4. rate \in [Users -> [count : 0..(Limit + 1), timed : BOOLEAN]]
  BY DEF DialogInv, DialogTyped
<1>5. PICK n : n = rate[User(i)].count + 1
  OBVIOUS
<1>6. PICK c : c = IF n > Limit THEN Limit + 1 ELSE n
  OBVIOUS
<1>7. c \in 0..(Limit + 1)
  <2>1. rate[User(i)].count \in Nat /\ Limit \in Nat
    BY <1>2, <1>4, DialogAssumption
  <2> QED
    BY ONLY <1>5, <1>6, <2>1
<1>8. rate' = rate \/ rate' = [rate EXCEPT ![User(i)].count = c]
  BY <1>5, <1>6 DEF AskLimit
<1>9. rate' \in [Users -> [count : 0..(Limit + 1), timed : BOOLEAN]]
  <2>1. CASE rate' = rate
    BY <1>4, <2>1
  <2>2. CASE rate' = [rate EXCEPT ![User(i)].count = c]
    <3>1. PICK r \in [count : 0..(Limit + 1), timed : BOOLEAN] : r = rate[User(i)]
      BY <1>2, <1>4
    <3>2. [r EXCEPT !.count = c] \in [count : 0..(Limit + 1), timed : BOOLEAN]
      BY <1>7
    <3>3. rate' = [rate EXCEPT ![User(i)] = [r EXCEPT !.count = c]]
      BY <2>2, <3>1
    <3> QED
      BY <1>4, <3>2, <3>3
  <2> QED
    BY <1>8, <2>1, <2>2
<1>10. Ends(i) \/ Goes(i, "expire") \/ Goes(i, "create")
  BY DEF AskLimit
<1>11. "expire" \in Steps /\ "create" \in Steps
  BY DEF Steps
<1>12. CASE Ends(i)
  <2>1. task' = [task EXCEPT ![i] = Idle]
    BY <1>12 DEF Ends
  <2> QED
    BY <1>1, <1>9, <2>1, LocalStep
<1>13. CASE Goes(i, "expire")
  BY <1>1, <1>3, <1>9, <1>11, <1>13, GoesSound
<1>14. CASE Goes(i, "create")
  BY <1>1, <1>3, <1>9, <1>11, <1>14, GoesSound
<1> QED
  BY <1>10, <1>12, <1>13, <1>14

LEMMA StartWindowSound ==
  ASSUME DialogInv, NEW i \in Slots, StartWindow(i)
  PROVE  DialogInv'
<1>1. /\ task[i] # Idle /\ task[i].pc = "expire" /\ ~At(i, "clear") /\ Goes(i, "create")
      /\ UNCHANGED << storeVars, budget, tickets, ghosts >>
  BY DEF StartWindow, At
<1>2. task[i] \in HandlerRuns /\ User(i) \in Users
  BY <1>1, InSlot DEF DialogInv
<1>3. task[i].draft # 0 /\ "create" \in Steps
  BY <1>1, <1>2 DEF HandlerRuns, Steps
<1>4. rate \in [Users -> [count : 0..(Limit + 1), timed : BOOLEAN]]
  BY DEF DialogInv, DialogTyped
<1>5. PICK b \in BOOLEAN : b = (rate[User(i)].count > 0)
  <2>1. CASE rate[User(i)].count > 0
    <3>1. (rate[User(i)].count > 0) = TRUE
      BY <2>1
    <3> QED
      BY <3>1
  <2>2. CASE ~(rate[User(i)].count > 0)
    <3>1. (rate[User(i)].count > 0) = FALSE
      BY <2>2
    <3> QED
      BY <3>1
  <2> QED
    BY <2>1, <2>2
<1>6. rate' = rate \/ rate' = [rate EXCEPT ![User(i)].timed = b]
  BY <1>5 DEF StartWindow
<1>7. rate' \in [Users -> [count : 0..(Limit + 1), timed : BOOLEAN]]
  <2>1. CASE rate' = rate
    BY <1>4, <2>1
  <2>2. CASE rate' = [rate EXCEPT ![User(i)].timed = b]
    <3>1. PICK r \in [count : 0..(Limit + 1), timed : BOOLEAN] : r = rate[User(i)]
      BY <1>2, <1>4
    <3>2. [r EXCEPT !.timed = b] \in [count : 0..(Limit + 1), timed : BOOLEAN]
      BY <1>5
    <3>3. rate' = [rate EXCEPT ![User(i)] = [r EXCEPT !.timed = b]]
      BY <2>2, <3>1
    <3> QED
      BY <1>4, <3>2, <3>3
  <2> QED
    BY <1>6, <2>1, <2>2
<1> QED
  BY <1>1, <1>3, <1>7, GoesSound

LEMMA ReadReplySound ==
  ASSUME DialogInv, NEW i \in Slots, ReadReply(i)
  PROVE  DialogInv'
<1>1. /\ task[i] # Idle /\ task[i].pc = "reply_text" /\ ~At(i, "clear")
      /\ UNCHANGED << storeVars, budget, tickets, ghosts >> /\ rate' = rate
  BY DEF ReadReply, At, rest, counters
<1>2. /\ task[i] \in HandlerRuns /\ User(i) \in Users
      /\ Mine(i) \in Held(User(i)) /\ Mine(i) \in Kept \cup {Nothing}
  BY <1>1, InSlot DEF DialogInv
<1>3. PICK r \in HandlerRuns : r = task[i]
  BY <1>2
<1>4. PICK k : k = Mine(i).ticket
  OBVIOUS
<1>5. k \in Tickets \cup {0} /\ k \in TicketsHeld(User(i))
  <2>1. Mine(i).ticket \in Tickets \cup {0}
    BY <1>2 DEF Kept, States, Nothing, State
  <2> QED
    BY <1>2, <1>4, <2>1 DEF TicketsHeld
<1>6. PICK w \in Tickets \cup {0} : w = chosen[User(i)]
  BY <1>2 DEF DialogInv, DialogTyped
<1>7. PICK pc : pc = IF k = 0 THEN "clear" ELSE "reply"
  OBVIOUS
<1>8. PICK t : t = [r EXCEPT !.ticket = k, !.wanted = w, !.pc = pc]
  OBVIOUS
<1>9. task' = [task EXCEPT ![i] = t]
  <2>1. task' = [task EXCEPT ![i].ticket = k, ![i].wanted = w, ![i].pc = pc]
    BY <1>4, <1>6, <1>7 DEF ReadReply
  <2>2. task \in [Slots -> HandlerRuns \cup {Idle}]
    BY DEF DialogInv, DialogTyped
  <2> QED
    BY <1>3, <1>8, <2>1, <2>2
<1>10. pc \in Steps /\ pc \in {"clear", "reply"} /\ (pc = "reply" => k # 0)
  BY <1>7 DEF Steps
<1>11. r \in [pc : Steps, process : Processes, user : Users, text : Texts, draft : 0..MaxDrafts,
              ticket : Tickets \cup {0}, wanted : Tickets \cup {0}]
  BY DEF HandlerRuns
<1>12. /\ t \in [pc : Steps, process : Processes, user : Users, text : Texts, draft : 0..MaxDrafts,
                 ticket : Tickets \cup {0}, wanted : Tickets \cup {0}]
       /\ t.pc = pc /\ t.draft = r.draft /\ t.user = r.user /\ t.ticket = k /\ t.wanted = w
  BY <1>5, <1>8, <1>10, <1>11
<1>13. r.draft = 0
  BY <1>1, <1>3 DEF HandlerRuns
<1>14. t \in HandlerRuns
  BY <1>10, <1>12, <1>13 DEF HandlerRuns
<1>15. rate' \in [Users -> [count : 0..(Limit + 1), timed : BOOLEAN]]
  BY <1>1 DEF DialogInv, DialogTyped
<1>16. t.pc = "reply" /\ ~excused[User(i)] => t.ticket = t.wanted
  <2>1. UserSound(User(i))
    BY <1>2 DEF DialogInv
  <2> QED
    BY <1>5, <1>6, <1>10, <1>12, <2>1 DEF UserSound
<1>17. t.user = User(i) /\ t.pc # "identity_choice" /\ t.draft = 0
  BY <1>3, <1>10, <1>12, <1>13 DEF User
<1> QED
  BY <1>1, <1>9, <1>14, <1>15, <1>16, <1>17, LocalStep

\* A handler writes a state and ends; the description in it was stored, or is a new one.
LEMMA WriteStep ==
  ASSUME DialogInv, NEW i \in Slots, task[i] # Idle, ~At(i, "clear"), Ends(i),
         NEW s \in Kept, PutHere(Process(i), User(i), s), s.ticket = 0,
         UNCHANGED << rest, created, chosen, dropped >>, typed' \in [Users -> 0..MaxDrafts],
         \A v \in Users \ {User(i)} : typed'[v] = typed[v],
         typed[User(i)] <= typed'[User(i)],
         \/ s.draft \in DraftsHeld(User(i)) \cup {0}
         \/ typed[User(i)] < s.draft /\ s.draft <= typed'[User(i)]
  PROVE  DialogInv'
<1>1. PICK u \in Users : u = User(i)
  BY InSlot DEF DialogInv
<1>2. PICK p \in Processes : p = Process(i)
  BY InSlot DEF DialogInv
<1>3. StoreTyped /\ excused \in [Users -> BOOLEAN]
  BY DEF DialogInv, DialogTyped
<1>4. /\ StoreTyped' /\ excused' \in [Users -> BOOLEAN]
      /\ \A v \in Users \ {u} : Held(v)' \subseteq Held(v) \cup {Nothing} /\ excused'[v] = excused[v]
      /\ excused[u] => excused'[u]
      /\ ~excused'[u] => Held(u)' \subseteq {s, Nothing}
  BY <1>1, <1>2, <1>3, PutFacts
<1>5. /\ dropped' \in [Users -> SUBSET (1..MaxDrafts)] /\ dropped' = dropped
      /\ budget' \in [left : Nat, texts : SUBSET Texts, faults : Nat]
      /\ rate' \in [Users -> [count : 0..(Limit + 1), timed : BOOLEAN]]
      /\ created' = created /\ chosen' = chosen
  BY DEF DialogInv, DialogTyped, rest, counters
<1>6. task' = [task EXCEPT ![i] = Idle] /\ Only(task[i], u) /\ Only(Idle, u)
  BY <1>1 DEF Ends, Only, User
<1>7. ASSUME ~excused'[u]
      PROVE  /\ \A d \in DraftsHeld(u)' : d \in DraftsHeld(u) \cup {0} \/ (typed[u] < d /\ d <= typed'[u])
             /\ \A k \in TicketsHeld(u)' : k # 0 => k = chosen[u]
  <2>1. DraftsHeld(u)' \subseteq {s.draft, 0} /\ TicketsHeld(u)' \subseteq {s.ticket, 0}
    BY <1>4, <1>7, HeldOnly
  <2> QED
    BY <1>1, <2>1
<1> QED
  BY <1>1, <1>4, <1>5, <1>6, <1>7, SlotStep

LEMMA MovesSound ==
  ASSUME DialogInv, NEW i \in Slots, task[i] # Idle, ~At(i, "clear"),
         NEW s \in Kept, Moves(i, s), s.ticket = 0, s.draft \in DraftsHeld(User(i)) \cup {0}
  PROVE  DialogInv'
<1>1. /\ PutHere(Process(i), User(i), s) /\ Ends(i)
      /\ UNCHANGED << rest, created, chosen, dropped >> /\ typed' = typed
  BY DEF Moves, tickets
<1>2. typed \in [Users -> 0..MaxDrafts] /\ User(i) \in Users
  BY InSlot DEF DialogInv, DialogTyped
<1>3. typed[User(i)] <= typed'[User(i)]
  BY <1>1, <1>2, DialogAssumption
<1> QED
  BY <1>1, <1>2, <1>3, WriteStep

LEMMA ChooseDepartmentSound ==
  ASSUME DialogInv, NEW i \in Slots, ChooseDepartment(i)
  PROVE  DialogInv'
<1>1. task[i] # Idle /\ ~At(i, "clear")
  BY DEF ChooseDepartment, At
<1>2. CASE Moves(i, State("description", 0, 0))
  <2>1. State("description", 0, 0) \in Kept
    BY StatesKept DEF Waiting
  <2>2. State("description", 0, 0).ticket = 0 /\ State("description", 0, 0).draft = 0
    BY DEF State
  <2> QED
    BY <1>1, <1>2, <2>1, <2>2, MovesSound
<1>3. CASE Says(i)
  BY <1>1, <1>3, SaysSound
<1> QED
  BY <1>2, <1>3 DEF ChooseDepartment

LEMMA ContinueSound ==
  ASSUME DialogInv, NEW i \in Slots, Continue(i)
  PROVE  DialogInv'
<1>1. task[i] # Idle /\ ~At(i, "clear")
  BY DEF Continue, At
<1>2. Mine(i) \in Held(User(i)) /\ Mine(i) \in Kept \cup {Nothing}
  BY <1>1, InSlot DEF DialogInv
<1>3. PICK d : d = Mine(i).draft
  OBVIOUS
<1>4. d \in (0..MaxDrafts) \ {0} /\ d \in DraftsHeld(User(i))
  <2>1. Mine(i).draft \in 0..MaxDrafts
    BY <1>2, DialogAssumption DEF Kept, States, Nothing, State
  <2>2. d # 0
    BY <1>3 DEF Continue
  <2> QED
    BY <1>2, <1>3, <2>1, <2>2 DEF DraftsHeld
<1>5. State("identity", d, 0) \in Kept
  BY <1>4, StatesKept
<1>6. State("identity", d, 0).ticket = 0 /\ State("identity", d, 0).draft = d
  BY DEF State
<1>7. Moves(i, State("identity", d, 0))
  BY <1>3 DEF Continue
<1> QED
  BY <1>1, <1>4, <1>5, <1>6, <1>7, MovesSound

LEMMA DescribeSound ==
  ASSUME DialogInv, NEW i \in Slots, Describe(i)
  PROVE  DialogInv'
<1>1. /\ task[i] # Idle /\ ~At(i, "clear") /\ Ends(i) /\ typed[User(i)] < MaxDrafts
      /\ typed' = [typed EXCEPT ![User(i)] = typed[User(i)] + 1]
      /\ UNCHANGED << rest, created, chosen, dropped >>
  BY DEF Describe, At
<1>2. typed \in [Users -> 0..MaxDrafts] /\ User(i) \in Users
  BY <1>1, InSlot DEF DialogInv, DialogTyped
<1>3. PICK d : d = typed[User(i)] + 1
  OBVIOUS
<1>4. d \in (0..MaxDrafts) \ {0} /\ typed[User(i)] < d /\ typed[User(i)] <= d /\ d <= d
  <2>1. typed[User(i)] \in 0..MaxDrafts /\ MaxDrafts \in Nat
    BY <1>2, DialogAssumption
  <2> QED
    BY ONLY <1>1, <1>3, <2>1
<1>5. /\ typed' \in [Users -> 0..MaxDrafts] /\ typed'[User(i)] = d
      /\ \A v \in Users \ {User(i)} : typed'[v] = typed[v]
  BY <1>1, <1>2, <1>3, <1>4
<1>6. PICK at \in {"description", "identity"} : PutHere(Process(i), User(i), State(at, d, 0))
  BY <1>3 DEF Describe
<1>7. State(at, d, 0) \in Kept
  BY <1>4, <1>6, StatesKept
<1>8. State(at, d, 0).ticket = 0 /\ State(at, d, 0).draft = d
  BY DEF State
<1> QED
  BY <1>1, <1>4, <1>5, <1>6, <1>7, <1>8, WriteStep

\* A handler deletes the state and ends.
LEMMA EraseStep ==
  ASSUME DialogInv, NEW i \in Slots, task[i] # Idle, Ends(i), DeleteHere(Process(i), User(i)),
         UNCHANGED << rest, tickets, chosen >>, dropped' \in [Users -> SUBSET (1..MaxDrafts)],
         \A v \in Users \ {User(i)} : dropped'[v] = dropped[v],
         \/ dropped'[User(i)] = dropped[User(i)]
         \/ /\ \A d \in dropped'[User(i)] : d <= typed[User(i)]
            /\ Taps(User(i)) = {}
  PROVE  DialogInv'
<1>1. PICK u \in Users : u = User(i)
  BY InSlot DEF DialogInv
<1>2. PICK p \in Processes : p = Process(i)
  BY InSlot DEF DialogInv
<1>3. DialogTyped /\ StoreTyped /\ excused \in [Users -> BOOLEAN] /\ task \in [Slots -> HandlerRuns \cup {Idle}]
  BY DEF DialogInv, DialogTyped
<1>4. /\ StoreTyped' /\ excused' \in [Users -> BOOLEAN]
      /\ \A v \in Users \ {u} : Held(v)' \subseteq Held(v) \cup {Nothing} /\ excused'[v] = excused[v]
      /\ excused[u] => excused'[u]
      /\ ~excused'[u] => Held(u)' \subseteq {Nothing}
  BY <1>1, <1>2, <1>3, DeleteFacts
<1>5. /\ typed' \in [Users -> 0..MaxDrafts] /\ typed' = typed
      /\ budget' \in [left : Nat, texts : SUBSET Texts, faults : Nat]
      /\ rate' \in [Users -> [count : 0..(Limit + 1), timed : BOOLEAN]]
      /\ created' = created /\ chosen' = chosen
  BY <1>3 DEF DialogTyped, rest, counters, tickets
<1>6. task' = [task EXCEPT ![i] = Idle] /\ Only(task[i], u) /\ Only(Idle, u)
  BY <1>1 DEF Ends, Only, User
<1>7. typed[u] <= typed'[u]
  BY <1>3, <1>5, DialogAssumption DEF DialogTyped
<1>8. ~excused'[u] => DraftsHeld(u)' \subseteq {0} /\ TicketsHeld(u)' \subseteq {0}
  <2>1. Nothing.draft = 0 /\ Nothing.ticket = 0
    BY DEF Nothing, State
  <2> QED
    BY <1>4, <2>1, HeldOnly
<1>9. Taps(u) = {} => Takers(u)' = {}
  <2>1. Takers(u) \subseteq Taps(u)
    BY <1>3 DEF Takers, Taps, Busy, Tapping, HandlerRuns
  <2>2. Takers(u)' \subseteq Takers(u)
    BY <1>3, <1>6 DEF Takers, Busy
  <2> QED
    BY <2>1, <2>2
<1>10. ~excused'[u] =>
         /\ \A d \in DraftsHeld(u)' : d \in DraftsHeld(u) \cup {0} \/ (typed[u] < d /\ d <= typed'[u])
         /\ \A k \in TicketsHeld(u)' : k # 0 => k = chosen[u]
         /\ \/ dropped'[u] = dropped[u]
            \/ /\ \A d \in dropped'[u] : d <= typed[u]
               /\ DraftsHeld(u)' \subseteq {0}
               /\ \A j \in Takers(u)' : task'[j].draft = 0
  BY <1>1, <1>8, <1>9
<1> QED
  BY <1>1, <1>4, <1>5, <1>6, <1>7, <1>8, <1>10, SlotStep

LEMMA ClearSound ==
  ASSUME DialogInv, NEW i \in Slots, Clear(i)
  PROVE  DialogInv'
<1>1. /\ task[i] # Idle /\ Ends(i) /\ DeleteHere(Process(i), User(i))
      /\ UNCHANGED << rest, tickets, chosen >> /\ dropped' = dropped
  BY DEF Clear, At
<1>2. dropped \in [Users -> SUBSET (1..MaxDrafts)]
  BY DEF DialogInv, DialogTyped
<1> QED
  BY <1>1, <1>2, EraseStep

LEMMA CancelSound ==
  ASSUME DialogInv, NEW i \in Slots, Cancel(i)
  PROVE  DialogInv'
<1>1. task[i] # Idle /\ ~At(i, "clear") /\ Ends(i) /\ UNCHANGED << rest, tickets, chosen >>
  BY DEF Cancel, At
<1>2. User(i) \in Users /\ DialogTyped
  BY <1>1, InSlot DEF DialogInv
<1>3. CASE Mine(i) = Nothing
  <2>1. Says(i)
    BY <1>1, <1>3 DEF Cancel, Says, ghosts
  <2> QED
    BY <1>1, <2>1, SaysSound
<1>4. CASE Mine(i) # Nothing
  <2>1. DeleteHere(Process(i), User(i))
    BY <1>4 DEF Cancel
  <2>2. PICK D : D = IF Taps(User(i)) = {} THEN 1..typed[User(i)] ELSE dropped[User(i)]
    OBVIOUS
  <2>3. dropped' = [dropped EXCEPT ![User(i)] = D]
    BY <1>4, <2>2 DEF Cancel
  <2>4. dropped \in [Users -> SUBSET (1..MaxDrafts)]
    BY <1>2 DEF DialogTyped
  <2>5. 1..typed[User(i)] \subseteq 1..MaxDrafts /\ \A d \in 1..typed[User(i)] : d <= typed[User(i)]
    BY <1>2, DialogAssumption DEF DialogTyped
  <2>6. D \in SUBSET (1..MaxDrafts)
    BY <1>2, <2>2, <2>4, <2>5
  <2>7. /\ dropped' \in [Users -> SUBSET (1..MaxDrafts)] /\ dropped'[User(i)] = D
        /\ \A v \in Users \ {User(i)} : dropped'[v] = dropped[v]
    BY <1>2, <2>3, <2>4, <2>6
  <2>8. \/ dropped'[User(i)] = dropped[User(i)]
        \/ (\A d \in dropped'[User(i)] : d <= typed[User(i)]) /\ Taps(User(i)) = {}
    BY <2>2, <2>5, <2>7
  <2> QED
    BY <1>1, <2>1, <2>7, <2>8, EraseStep
<1> QED
  BY <1>3, <1>4

\* The description becomes a ticket: nobody but the handler that is about to delete the state
\* holds it, and it was no ticket before.
LEMMA CommitSound ==
  ASSUME DialogInv, NEW i \in Slots, task[i] # Idle, task[i].pc = "create", Goes(i, "clear"),
         created' = [created EXCEPT ![User(i)][task[i].draft] = @ + 1],
         UNCHANGED << storeVars, rest, typed, ghosts >>
  PROVE  DialogInv'
<1>1. /\ DialogTyped /\ NoEmptyTicket /\ ReplyGoesToChosen /\ \A v \in Users : UserSound(v)
      /\ task[i] \in HandlerRuns
  BY InSlot DEF DialogInv
<1>2. PICK u \in Users : u = User(i)
  BY <1>1, InSlot
<1>3. PICK d \in 1..MaxDrafts : d = task[i].draft
  <2>1. task[i].draft \in 0..MaxDrafts /\ task[i].draft # 0 /\ MaxDrafts \in Nat
    BY <1>1, DialogAssumption DEF HandlerRuns
  <2>2. task[i].draft \in 1..MaxDrafts
    BY ONLY <2>1
  <2> QED
    BY <2>2
<1>4. PICK t \in HandlerRuns :
           /\ task' = [task EXCEPT ![i] = t] /\ t.pc = "clear" /\ t.user = task[i].user
           /\ t.draft = task[i].draft
  <2>1. "clear" \in Steps
    BY DEF Steps
  <2> QED
    BY <1>1, <2>1, GoesTo
<1>5. /\ created \in [Users -> [0..MaxDrafts -> Nat]] /\ task \in [Slots -> HandlerRuns \cup {Idle}]
  BY <1>1 DEF DialogTyped
<1>6. PICK c \in [0..MaxDrafts -> Nat] : c = created[u]
  BY <1>2, <1>5
<1>7. d \in 0..MaxDrafts /\ d # 0 /\ d \in Nat
  BY DialogAssumption
<1>8. PICK n : n = [c EXCEPT ![d] = c[d] + 1]
  OBVIOUS
<1>9. /\ n \in [0..MaxDrafts -> Nat] /\ n[d] = c[d] + 1
      /\ \A e \in 0..MaxDrafts : e # d => n[e] = c[e]
  <2>1. c[d] + 1 \in Nat
    BY <1>7
  <2> QED
    BY ONLY <1>7, <1>8, <2>1, c \in [0..MaxDrafts -> Nat]
<1>10. created' = [created EXCEPT ![u] = n]
  BY <1>2, <1>3, <1>6, <1>8
<1>11. /\ created' \in [Users -> [0..MaxDrafts -> Nat]] /\ created'[u] = n
       /\ \A v \in Users \ {u} : created'[v] = created[v]
  BY <1>5, <1>9, <1>10
<1>12. /\ task'[i] = t /\ \A j \in Slots \ {i} : task'[j] = task[j]
       /\ task' \in [Slots -> HandlerRuns \cup {Idle}]
  BY <1>4, <1>5
<1>13. StoreTyped' /\ \A v \in Users : Held(v)' = Held(v)
  BY <1>1 DEF DialogTyped, StoreTyped, storeVars, Held, Remembered
<1>14. /\ typed' = typed /\ chosen' = chosen /\ dropped' = dropped /\ excused' = excused
       /\ rate' = rate /\ budget' = budget
  BY DEF rest, counters, ghosts
<1>15. DialogTyped'
  BY <1>1, <1>11, <1>12, <1>13, <1>14 DEF DialogTyped
<1>16. NoEmptyTicket'
  <2>1. SUFFICES ASSUME NEW v \in Users PROVE created'[v][0] = 0
    BY DEF NoEmptyTicket
  <2>2. 0 \in 0..MaxDrafts /\ created[v][0] = 0
    BY <1>1, DialogAssumption DEF NoEmptyTicket
  <2> QED
    BY <1>6, <1>7, <1>9, <1>11, <2>2
<1>17. ReplyGoesToChosen'
  BY <1>1, <1>4, <1>12, <1>14 DEF ReplyGoesToChosen, Busy, User
<1>18. ASSUME NEW v \in Users \ {u} PROVE UserSound(v)'
  BY <1>2, <1>4, <1>11, <1>12, <1>13, <1>14, <1>15, OthersSound DEF Only, User
<1>19. UserSound(u)'
  <2>1. SUFFICES ASSUME ~excused[u]
                 PROVE  /\ \A k, j \in Takers(u)' : k = j
                        /\ \A e \in DraftsHeld(u)' : e <= typed[u]
                        /\ \A k \in Takers(u)' : task'[k].draft <= typed[u]
                        /\ \A e \in 1..MaxDrafts : created'[u][e] > 0 =>
                             /\ e <= typed[u] /\ created'[u][e] = 1
                             /\ \A k \in Takers(u)' : task'[k].draft = e => task'[k].pc = "clear"
                             /\ e \in DraftsHeld(u)' => \E k \in Takers(u)' : task'[k].draft = e
                        /\ \A e \in dropped[u] : /\ e <= typed[u] /\ e \notin DraftsHeld(u)'
                                                 /\ \A k \in Takers(u)' : task'[k].draft # e
                        /\ \A k \in TicketsHeld(u)' : k # 0 => k = chosen[u]
    BY <1>14 DEF UserSound
  <2>2. /\ \A k, j \in Takers(u) : k = j
        /\ \A e \in DraftsHeld(u) : e <= typed[u]
        /\ \A k \in Takers(u) : task[k].draft <= typed[u]
        /\ \A e \in 1..MaxDrafts : created[u][e] > 0 =>
             /\ e <= typed[u] /\ created[u][e] = 1
             /\ \A k \in Takers(u) : task[k].draft = e => task[k].pc = "clear"
             /\ e \in DraftsHeld(u) => \E k \in Takers(u) : task[k].draft = e
        /\ \A e \in dropped[u] : /\ e <= typed[u] /\ e \notin DraftsHeld(u)
                                 /\ \A k \in Takers(u) : task[k].draft # e
        /\ \A k \in TicketsHeld(u) : k # 0 => k = chosen[u]
    BY <1>1, <2>1 DEF UserSound
  <2>3. DraftsHeld(u)' = DraftsHeld(u) /\ TicketsHeld(u)' = TicketsHeld(u)
    BY <1>13 DEF DraftsHeld, TicketsHeld
  <2>4. i \in Takers(u)
    BY <1>2, <1>3, <1>7 DEF Takers, Busy, User
  <2>5. Takers(u)' = {i}
    <3>1. t # Idle
      BY NoRun
    <3>2. i \in Takers(u)'
      BY <1>2, <1>3, <1>4, <1>7, <1>12, <3>1 DEF Takers, Busy, User
    <3>3. \A k \in Takers(u)' : k # i => k \in Takers(u)
      BY <1>12 DEF Takers, Busy
    <3> QED
      BY <2>2, <2>4, <3>2, <3>3
  <2>6. task'[i].draft = d /\ task'[i].pc = "clear"
    BY <1>3, <1>4, <1>12
  <2>7. d <= typed[u] /\ ~(c[d] > 0)
    BY <1>3, <1>6, <2>2, <2>4
  <2>8. n[d] = 1
    <3>1. c[d] \in Nat
      BY <1>7
    <3> QED
      BY ONLY <1>9, <2>7, <3>1
  <2>9. ASSUME NEW e \in 1..MaxDrafts, created'[u][e] > 0
        PROVE  /\ e <= typed[u] /\ created'[u][e] = 1
               /\ \A k \in Takers(u)' : task'[k].draft = e => task'[k].pc = "clear"
               /\ e \in DraftsHeld(u)' => \E k \in Takers(u)' : task'[k].draft = e
    <3>1. CASE e = d
      BY <1>11, <2>5, <2>6, <2>7, <2>8, <3>1
    <3>2. CASE e # d
      <4>1. e \in 0..MaxDrafts
        BY DialogAssumption
      <4>2. created[u][e] > 0 /\ created'[u][e] = created[u][e]
        BY <1>6, <1>9, <1>11, <2>9, <3>2, <4>1
      <4>3. e \notin DraftsHeld(u)
        <5>1. SUFFICES ASSUME e \in DraftsHeld(u) PROVE FALSE
          OBVIOUS
        <5>2. PICK k \in Takers(u) : task[k].draft = e
          BY <2>2, <4>2, <5>1
        <5> QED
          BY <1>3, <2>2, <2>4, <3>2, <5>2
      <4> QED
        BY <2>2, <2>3, <2>5, <2>6, <3>2, <4>2, <4>3
    <3> QED
      BY <3>1, <3>2
  <2>10. \A e \in dropped[u] : /\ e <= typed[u] /\ e \notin DraftsHeld(u)'
                               /\ \A k \in Takers(u)' : task'[k].draft # e
    BY <1>3, <2>2, <2>3, <2>4, <2>5, <2>6
  <2> QED
    BY <2>2, <2>3, <2>5, <2>6, <2>7, <2>9, <2>10
<1> QED
  BY <1>1, <1>15, <1>16, <1>17, <1>18, <1>19 DEF DialogInv

LEMMA CreateTicketSound ==
  ASSUME DialogInv, NEW i \in Slots, CreateTicket(i)
  PROVE  DialogInv'
<1>1. /\ task[i] # Idle /\ task[i].pc = "create" /\ ~At(i, "clear") /\ Goes(i, "clear")
      /\ UNCHANGED << storeVars, rest, typed, ghosts >>
  BY DEF CreateTicket, At
<1>2. CASE created' = [created EXCEPT ![User(i)][task[i].draft] = @ + 1]
  BY <1>1, <1>2, CommitSound
<1>3. CASE created' = created
  BY <1>1, <1>3, GivesUp DEF tickets
<1> QED
  BY <1>2, <1>3 DEF CreateTicket

LEMMA StepSound ==
  ASSUME DialogInv, NEW i \in Slots, Step(i)
  PROVE  DialogInv'
<1>1. CASE Cancel(i)
  BY <1>1, CancelSound
<1>2. CASE ChooseDepartment(i)
  BY <1>2, ChooseDepartmentSound
<1>3. CASE RefuseDescription(i)
  BY <1>3, SaysSound DEF RefuseDescription, At
<1>4. CASE Continue(i)
  BY <1>4, ContinueSound
<1>5. CASE Describe(i)
  BY <1>5, DescribeSound
<1>6. CASE RefuseChoice(i)
  BY <1>6, SaysSound DEF RefuseChoice, At
<1>7. CASE ChooseIdentity(i)
  BY <1>7, ChooseIdentitySound
<1>8. CASE AskLimit(i)
  BY <1>8, AskLimitSound
<1>9. CASE StartWindow(i)
  BY <1>9, StartWindowSound
<1>10. CASE CreateTicket(i)
  BY <1>10, CreateTicketSound
<1>11. CASE Clear(i)
  BY <1>11, ClearSound
<1>12. CASE Propose(i)
  BY <1>12, SaysSound, GivesUp DEF Propose, At
<1>13. CASE ReadReply(i)
  BY <1>13, ReadReplySound
<1>14. CASE RefuseReply(i)
  BY <1>14, SaysSound DEF RefuseReply, At
<1>15. CASE SendReply(i)
  BY <1>15, GivesUp DEF SendReply, At
<1>16. CASE ReportInput(i)
  BY <1>16, SaysSound, GivesUp DEF ReportInput, At
<1>17. CASE ReportGivenUp(i)
  BY <1>17, GivesUp DEF ReportGivenUp, At
<1> QED
  BY <1>1, <1>2, <1>3, <1>4, <1>5, <1>6, <1>7, <1>8, <1>9, <1>10, <1>11, <1>12, <1>13, <1>14,
     <1>15, <1>16, <1>17 DEF Step

LEMMA FaultBudget ==
  ASSUME DialogTyped, Fault
  PROVE  budget' \in [left : Nat, texts : SUBSET Texts, faults : Nat]
<1>1. PICK b \in [left : Nat, texts : SUBSET Texts, faults : Nat] : b = budget
  BY DEF DialogTyped
<1>2. b.faults \in Nat /\ b.faults > 0
  BY <1>1 DEF Fault
<1>3. b.faults - 1 \in Nat
  BY ONLY <1>2
<1>4. budget' = [b EXCEPT !.faults = b.faults - 1]
  BY <1>1 DEF Fault
<1> QED
  BY <1>3, <1>4

LEMMA SwitchSound ==
  ASSUME DialogInv, NEW p \in Processes, Switch(p)
  PROVE  DialogInv'
<1>1. DialogTyped /\ UNCHANGED << shared, memory, task, rate, tickets, ghosts >>
  BY DEF DialogInv, Switch
<1>2. budget' \in [left : Nat, texts : SUBSET Texts, faults : Nat]
  BY <1>1, FaultBudget DEF Switch
<1>3. reaches' \in [Processes -> BOOLEAN]
  BY <1>1 DEF Switch, DialogTyped, StoreTyped
<1>4. StoreTyped' /\ \A v \in Users : Held(v)' \subseteq Held(v) \cup {Nothing}
  BY <1>1, <1>3 DEF DialogTyped, StoreTyped, Held, Remembered
<1>5. rate' \in [Users -> [count : 0..(Limit + 1), timed : BOOLEAN]]
  BY <1>1 DEF DialogTyped
<1> QED
  BY <1>1, <1>2, <1>4, <1>5, Recedes

\* A process ends with its handlers and its memory: one whose tap dies with it is excused.
LEMMA RestartSound ==
  ASSUME DialogInv, NEW p \in Processes, Restart(p)
  PROVE  DialogInv'
<1>1. DialogTyped /\ NoEmptyTicket /\ ReplyGoesToChosen /\ \A v \in Users : UserSound(v)
  BY DEF DialogInv
<1>2. budget' \in [left : Nat, texts : SUBSET Texts, faults : Nat]
  BY <1>1, FaultBudget DEF Restart
<1>3. StoreTyped' /\ \A v \in Users : Held(v)' \subseteq Held(v) \cup {Nothing}
  BY <1>1, ForgetFacts DEF Restart, DialogTyped
<1>4. /\ rate' = rate /\ typed' = typed /\ created' = created /\ chosen' = chosen /\ dropped' = dropped
      /\ excused' = [v \in Users |-> excused[v] \/ Owns(p, v) \cap Taps(v) # {}]
  BY DEF Restart, tickets
<1>5. \A i \in Slots : task'[i] = IF i \in Busy /\ Process(i) = p THEN Idle ELSE task[i]
  BY DEF Restart
<1>6. task' \in [Slots -> HandlerRuns \cup {Idle}]
  BY <1>1 DEF Restart, DialogTyped
<1>7. /\ excused' \in [Users -> BOOLEAN]
      /\ \A v \in Users : (excused[v] => excused'[v]) /\ (~excused'[v] => Owns(p, v) \cap Taps(v) = {})
  BY <1>1, <1>4 DEF DialogTyped
<1>8. DialogTyped'
  BY <1>1, <1>2, <1>3, <1>4, <1>6, <1>7 DEF DialogTyped
<1>9. NoEmptyTicket'
  BY <1>1, <1>4 DEF NoEmptyTicket
<1>10. ReplyGoesToChosen'
  <2>1. SUFFICES ASSUME NEW i \in Slots, task'[i] # Idle, task'[i].pc = "reply", ~excused'[task'[i].user]
                 PROVE  task'[i].ticket = task'[i].wanted
    BY DEF ReplyGoesToChosen, Busy, User
  <2>2. task'[i] = task[i] /\ task[i].user \in Users
    BY <1>1, <1>5, <2>1 DEF DialogTyped, HandlerRuns
  <2> QED
    BY <1>1, <1>7, <2>1, <2>2 DEF ReplyGoesToChosen, Busy, User
<1>11. ASSUME NEW v \in Users PROVE UserSound(v)'
  <2>1. ASSUME ~excused'[v]
        PROVE  Takers(v)' = Takers(v) /\ \A j \in Takers(v) : task'[j] = task[j]
    <3>1. Takers(v) \subseteq Taps(v)
      BY <1>1 DEF Takers, Taps, Busy, Tapping, DialogTyped, HandlerRuns
    <3>2. \A j \in Takers(v) : j \in Busy /\ User(j) = v /\ Process(j) # p
      BY <1>7, <2>1, <3>1 DEF Owns, Takers, User
    <3>3. \A j \in Takers(v) : task'[j] = task[j]
      BY <1>5, <3>2 DEF Busy
    <3>4. \A j \in Slots : task'[j] # Idle => task'[j] = task[j]
      BY <1>5
    <3> QED
      BY <3>3, <3>4 DEF Takers, Busy
  <2>2. DraftsHeld(v)' \subseteq DraftsHeld(v) \cup {0}
    BY <1>3, HeldShrinks
  <2>3. typed[v] <= typed'[v]
    BY <1>1, <1>4, DialogAssumption DEF DialogTyped
  <2>4. ASSUME ~excused'[v]
        PROVE  /\ \A k \in TicketsHeld(v)' : k # 0 => k = chosen'[v]
               /\ \A i, j \in Takers(v)' : i = j
    BY <1>1, <1>3, <1>4, <1>7, <2>1, <2>4, TicketsSound DEF UserSound
  <2>5. ~excused'[v] =>
           /\ created'[v] = created[v] /\ typed[v] <= typed'[v]
           /\ \A d \in DraftsHeld(v)' : d \in DraftsHeld(v) \cup {0} \/ (typed[v] < d /\ d <= typed'[v])
           /\ \A k \in TicketsHeld(v)' : k # 0 => k = chosen'[v]
           /\ \A i, j \in Takers(v)' : i = j
           /\ \A j \in Takers(v)' : task'[j].draft # 0 =>
                /\ j \in Takers(v)
                /\ \/ task'[j].draft = task[j].draft /\ (task[j].pc = "clear" => task'[j].pc = "clear")
                   \/ task[j].draft = 0 /\ task'[j].draft \in DraftsHeld(v)
           /\ \/ DraftsHeld(v)' \subseteq {0}
              \/ \A j \in Takers(v) : task[j].pc = "clear" =>
                   j \in Takers(v)' /\ task'[j].pc = "clear" /\ task'[j].draft = task[j].draft
           /\ \/ dropped'[v] = dropped[v]
              \/ /\ \A d \in dropped'[v] : d <= typed[v]
                 /\ DraftsHeld(v)' \subseteq {0}
                 /\ \A j \in Takers(v)' : task'[j].draft = 0
    BY <1>4, <2>1, <2>2, <2>3, <2>4
  <2> QED
    BY ONLY <1>1, <1>7, <1>8, <2>5, v \in Users, UserStays
<1> QED
  BY <1>8, <1>9, <1>10, <1>11 DEF DialogInv

LEMMA StateExpiresSound ==
  ASSUME DialogInv, StateExpires
  PROVE  DialogInv'
<1>1. DialogTyped /\ UNCHANGED << task, tickets, ghosts >> /\ budget' = budget /\ rate' = rate
  BY DEF DialogInv, StateExpires, rest, counters
<1>2. StoreTyped' /\ \A v \in Users : Held(v)' \subseteq Held(v) \cup {Nothing}
  BY <1>1, ExpiryFacts DEF StateExpires, DialogTyped
<1>3. /\ rate' \in [Users -> [count : 0..(Limit + 1), timed : BOOLEAN]]
      /\ budget' \in [left : Nat, texts : SUBSET Texts, faults : Nat]
  BY <1>1 DEF DialogTyped
<1> QED
  BY <1>1, <1>2, <1>3, Recedes

\* The window of the limit ends, or nothing happens.
LEMMA WindowEndsSound ==
  ASSUME DialogInv, UNCHANGED << storeVars, task, budget, tickets, ghosts >>,
         \/ rate' = rate
         \/ \E u \in Users : rate' = [rate EXCEPT ![u] = [count |-> 0, timed |-> FALSE]]
  PROVE  DialogInv'
<1>1. DialogTyped
  BY DEF DialogInv
<1>2. StoreTyped' /\ \A v \in Users : Held(v)' \subseteq Held(v) \cup {Nothing}
  BY <1>1 DEF DialogTyped, StoreTyped, storeVars, Held, Remembered
<1>3. rate' \in [Users -> [count : 0..(Limit + 1), timed : BOOLEAN]]
  <2>1. 0 \in 0..(Limit + 1)
    BY DialogAssumption
  <2>2. [count |-> 0, timed |-> FALSE] \in [count : 0..(Limit + 1), timed : BOOLEAN]
    BY <2>1
  <2>3. rate \in [Users -> [count : 0..(Limit + 1), timed : BOOLEAN]]
    BY <1>1 DEF DialogTyped
  <2> QED
    BY <2>2, <2>3
<1>4. budget' \in [left : Nat, texts : SUBSET Texts, faults : Nat]
  BY <1>1 DEF DialogTyped
<1> QED
  BY <1>2, <1>3, <1>4, Recedes

LEMMA DialogStep ==
  ASSUME DialogInv, [DialogNext]_dialogVars
  PROVE  DialogInv'
<1>1. CASE \E p \in Processes, u \in Users : Message(p, u)
  BY <1>1, MessageSound
<1>2. CASE \E i \in Slots : Step(i)
  BY <1>2, StepSound
<1>3. CASE \E p \in Processes : Switch(p) \/ Restart(p)
  BY <1>3, SwitchSound, RestartSound
<1>4. CASE \E u \in Users : WindowEnds(u)
  <2>1. PICK u \in Users : WindowEnds(u)
    BY <1>4
  <2>2. /\ UNCHANGED << storeVars, task, budget, tickets, ghosts >>
        /\ rate' = [rate EXCEPT ![u] = [count |-> 0, timed |-> FALSE]]
    BY <2>1 DEF WindowEnds
  <2> QED
    BY <2>2, WindowEndsSound
<1>5. CASE StateExpires
  BY <1>5, StateExpiresSound
<1>6. CASE UNCHANGED dialogVars
  <2>1. UNCHANGED << storeVars, task, budget, tickets, ghosts >> /\ rate' = rate
    BY <1>6 DEF dialogVars, rest, counters
  <2> QED
    BY <2>1, WindowEndsSound
<1> QED
  BY <1>1, <1>2, <1>3, <1>4, <1>5, <1>6 DEF DialogNext

LEMMA DialogStart ==
  ASSUME DialogInit
  PROVE  DialogInv
<1>1. /\ DOMAIN << >> = {} /\ Len(<< >>) = 0 /\ << >> \in Seq(Users \X Kept)
  OBVIOUS
<1>2. Keyed(<< >>) /\ \A v \in Users : Found(<< >>, v) = Nothing
  BY <1>1 DEF Keyed, Found, PlacesOf
<1>3. StoreTyped
  <2>1. \A p \in Processes : Keyed(memory[p]) /\ Len(memory[p]) <= MemoryMax
    BY <1>1, <1>2, MemoryMaxAssumption DEF DialogInit
  <2> QED
    BY <1>1, <2>1 DEF DialogInit, StoreTyped
<1>4. 0 \in 0..(Limit + 1) /\ 0 \in 0..MaxDrafts /\ 0 \in Nat
  BY DialogAssumption
<1>5. DialogTyped
  <2>1. budget \in [left : Nat, texts : SUBSET Texts, faults : Nat]
    BY DialogAssumption DEF DialogInit
  <2>2. rate \in [Users -> [count : 0..(Limit + 1), timed : BOOLEAN]]
    BY <1>4 DEF DialogInit
  <2>3. created \in [Users -> [0..MaxDrafts -> Nat]]
    BY <1>4 DEF DialogInit
  <2> QED
    BY <1>3, <1>4, <2>1, <2>2, <2>3 DEF DialogInit, DialogTyped
<1>6. NoEmptyTicket /\ ReplyGoesToChosen
  BY <1>4 DEF DialogInit, NoEmptyTicket, ReplyGoesToChosen, Busy
<1>7. ASSUME NEW u \in Users PROVE UserSound(u)
  <2>1. Held(u) \subseteq {Nothing}
    BY <1>2 DEF DialogInit, Held, Remembered
  <2>2. DraftsHeld(u) \subseteq {0} /\ TicketsHeld(u) \subseteq {0}
    BY <2>1 DEF DraftsHeld, TicketsHeld, Nothing, State
  <2>3. Takers(u) = {}
    BY DEF DialogInit, Takers, Busy
  <2>4. /\ typed[u] = 0 /\ dropped[u] = {}
        /\ \A d \in 1..MaxDrafts : ~(created[u][d] > 0)
    BY DialogAssumption DEF DialogInit
  <2> QED
    BY <2>2, <2>3, <2>4 DEF UserSound
<1> QED
  BY <1>5, <1>6, <1>7 DEF DialogInv

LEMMA DialogAlways == DialogSpec => []DialogInv
<1>1. DialogInit => DialogInv
  BY DialogStart
<1>2. DialogInv /\ [DialogNext]_dialogVars => DialogInv'
  BY DialogStep
<1> QED
  BY <1>1, <1>2, PTL DEF DialogSpec

\* What a process remembers is an entry of the types it is kept with.
LEMMA DialogTypes ==
  ASSUME DialogInv
  PROVE  DialogTypeOK
<1>1. DialogTyped /\ StoreTyped
  BY DEF DialogInv, DialogTyped
<1>2. \A s \in Kept \cup {Nothing} : Complete(s)
  <2>1. Nothing \in States
    BY DialogAssumption DEF Nothing, State, States, Places
  <2>2. Complete(Nothing)
    BY <2>1 DEF Complete, Nothing, State
  <2> QED
    BY <2>2 DEF Kept
<1>3. \A u \in Users : Complete(shared[u]) /\ rate[u].count \in 0..(Limit + 1)
  BY <1>1, <1>2 DEF StoreTyped, DialogTyped
<1>4. ASSUME NEW p \in Processes
      PROVE  /\ Len(memory[p]) <= MemoryMax
             /\ \A e \in {memory[p][n] : n \in DOMAIN memory[p]} :
                  e[1] \in Users /\ e[2] # Nothing /\ Complete(e[2])
             /\ \A m, n \in DOMAIN memory[p] : memory[p][m][1] = memory[p][n][1] => m = n
  <2>1. memory[p] \in Seq(Users \X Kept) /\ Keyed(memory[p]) /\ Len(memory[p]) <= MemoryMax
    BY <1>1 DEF StoreTyped
  <2>2. \A n \in DOMAIN memory[p] : memory[p][n] \in Users \X Kept
    BY <2>1
  <2>3. \A e \in Users \X Kept : e[1] \in Users /\ e[2] \in Kept
    OBVIOUS
  <2>4. \A s \in Kept : s # Nothing /\ Complete(s)
    BY DEF Kept
  <2> QED
    BY <2>1, <2>2, <2>3, <2>4 DEF Keyed
<1>5. ASSUME NEW i \in Busy
      PROVE  /\ task[i].pc \in Steps
             /\ task[i].pc \in {"limit", "expire", "create"} => task[i].draft # 0
  BY <1>1 DEF DialogTyped, HandlerRuns, Busy
<1> QED
  BY <1>3, <1>4, <1>5 DEF DialogTypeOK

\* The dialogue states are complete in every place that keeps them, a handler that is about to
\* make a ticket holds a description, and no ticket is made without one.
THEOREM DialogsAreSound == DialogSpec => []DialogSound
<1>1. DialogInv => DialogSound
  BY DialogTypes DEF DialogSound, DialogInv
<1> QED
  BY <1>1, DialogAlways, PTL

\* A description becomes a second ticket only when taps overlapped, a process died under one,
\* or a copy of the state was left behind (ticket_identity_choice_handler, StateDispenser).
THEOREM NoDuplicateWithoutCause == DialogSpec => []DuplicatesHaveCause
<1>1. ASSUME DialogInv PROVE DuplicatesHaveCause
  <2>1. SUFFICES ASSUME NEW u \in Users, NEW d \in 0..MaxDrafts, created[u][d] > 1, ~excused[u]
                 PROVE  FALSE
    BY DEF DuplicatesHaveCause
  <2>2. created[u][d] \in Nat
    BY <1>1 DEF DialogInv, DialogTyped
  <2>3. CASE d = 0
    BY <1>1, <2>1, <2>3 DEF DialogInv, NoEmptyTicket
  <2>4. CASE d # 0
    <3>1. d \in 1..MaxDrafts
      BY <2>4, DialogAssumption
    <3>2. created[u][d] > 0
      BY <2>1, <2>2
    <3>3. created[u][d] = 1
      BY <1>1, <2>1, <3>1, <3>2 DEF DialogInv, UserSound
    <3> QED
      BY <2>1, <3>3
  <2> QED
    BY <2>3, <2>4
<1> QED
  BY <1>1, DialogAlways, PTL

\* An operator's text goes to the ticket whose reply button was pressed last
\* (admin_reply_text_handler reads the ticket from the state, which an older copy may still name).
THEOREM RepliesGoWhereChosen == DialogSpec => []ReplyGoesToChosen
<1>1. DialogInv => ReplyGoesToChosen
  BY DEF DialogInv
<1> QED
  BY <1>1, DialogAlways, PTL

\* Only the handler that commits a ticket changes how many there are of a description.
LEMMA OnlyCreateCreates ==
  ASSUME DialogInv, [DialogNext]_dialogVars
  PROVE  created' = created \/ \E i \in Slots : CreateTicket(i)
<1>1. ASSUME NEW p \in Processes, NEW u \in Users, Message(p, u) PROVE created' = created
  <2>1. ASSUME NEW h, NEW s, Opens(p, u, h, s) PROVE created' = created
    BY <2>1 DEF Opens, tickets
  <2>2. CASE Answer(p, u)
    BY <2>2 DEF Answer, tickets
  <2>3. CASE Section(p, u) \/ Question(p, u) \/ Partnership(p, u) \/ ReportMenu(p, u) \/ ReportByDate(p, u)
    BY <2>1, <2>3 DEF Section, Question, Partnership, ReportMenu, ReportByDate
  <2>4. CASE StartReply(p, u)
    BY <2>4 DEF StartReply, tickets
  <2>5. CASE ReportToday(p, u)
    BY <2>5 DEF ReportToday, tickets
  <2>6. CASE \E i \in Slots : Begin(i, p, u)
    BY <2>6 DEF Begin, tickets
  <2> QED
    BY <1>1, <2>2, <2>3, <2>4, <2>5, <2>6 DEF Message
<1>2. ASSUME NEW i \in Slots, Step(i) PROVE created' = created \/ CreateTicket(i)
  <2>1. CASE Cancel(i) \/ ReadReply(i) \/ SendReply(i) \/ Clear(i) \/ AskLimit(i) \/ StartWindow(i)
    BY <2>1 DEF Cancel, ReadReply, SendReply, Clear, AskLimit, StartWindow, tickets
  <2>2. CASE ChooseDepartment(i) \/ RefuseDescription(i) \/ Continue(i) \/ RefuseChoice(i)
    BY <2>2 DEF ChooseDepartment, RefuseDescription, Continue, RefuseChoice, Moves, Says, tickets
  <2>3. CASE Describe(i) \/ ChooseIdentity(i) \/ CreateTicket(i)
    BY <2>3 DEF Describe, ChooseIdentity, tickets
  <2>4. CASE Propose(i) \/ RefuseReply(i) \/ ReportInput(i) \/ ReportGivenUp(i)
    BY <2>4 DEF Propose, RefuseReply, ReportInput, ReportGivenUp, Says, tickets
  <2> QED
    BY <1>2, <2>1, <2>2, <2>3, <2>4 DEF Step
<1>3. CASE \E p \in Processes : Switch(p) \/ Restart(p)
  BY <1>3 DEF Switch, Restart, tickets
<1>4. CASE (\E u \in Users : WindowEnds(u)) \/ StateExpires
  BY <1>4 DEF WindowEnds, StateExpires, tickets
<1>5. CASE UNCHANGED dialogVars
  BY <1>5 DEF dialogVars, tickets
<1> QED
  BY <1>1, <1>2, <1>3, <1>4, <1>5 DEF DialogNext

\* What the student cancelled never becomes a ticket: a tap that is still running holds no
\* description that was dropped (cancel_handler, ticket_identity_choice_handler).
THEOREM CancelledStaysCancelled == DialogSpec => CancelIsFinal
<1>1. ASSUME DialogInv, [DialogNext]_dialogVars
      PROVE  \A u \in Users : \A d \in dropped[u] : created'[u][d] # created[u][d] => excused[u]
  <2>1. SUFFICES ASSUME NEW u \in Users, NEW d \in dropped[u], created'[u][d] # created[u][d], ~excused[u]
                 PROVE  FALSE
    OBVIOUS
  <2>2. PICK i \in Slots : CreateTicket(i)
    BY <1>1, <2>1, OnlyCreateCreates
  <2>3. task[i] # Idle /\ task[i].pc = "create"
    BY <2>2 DEF CreateTicket, At
  <2>4. /\ DialogTyped /\ UserSound(u) /\ task[i] \in HandlerRuns
        /\ User(i) \in Users /\ created \in [Users -> [0..MaxDrafts -> Nat]]
    BY <1>1, <2>3, InSlot DEF DialogInv, DialogTyped
  <2>5. created' = [created EXCEPT ![User(i)][task[i].draft] = @ + 1]
    BY <2>1, <2>2 DEF CreateTicket
  <2>6. User(i) = u /\ task[i].draft = d
    <3>1. PICK c \in [0..MaxDrafts -> Nat] : c = created[User(i)]
      BY <2>4
    <3>2. PICK e \in 0..MaxDrafts : e = task[i].draft
      BY <2>4 DEF HandlerRuns
    <3>3. created' = [created EXCEPT ![User(i)] = [c EXCEPT ![e] = c[e] + 1]]
      BY <2>5, <3>1, <3>2
    <3>4. User(i) = u
      BY <2>1, <2>4, <3>3
    <3>5. created'[u] = [c EXCEPT ![e] = c[e] + 1] /\ created[u] = c
      BY <2>4, <3>1, <3>3, <3>4
    <3>6. d \in 0..MaxDrafts
      BY <2>4, DialogAssumption DEF DialogTyped
    <3> QED
      BY <2>1, <3>2, <3>4, <3>5, <3>6
  <2>7. task[i].draft # 0
    BY <2>3, <2>4 DEF HandlerRuns
  <2>8. i \in Takers(u)
    BY <2>3, <2>6, <2>7 DEF Takers, Busy, User
  <2> QED
    BY <2>1, <2>4, <2>6, <2>8 DEF UserSound
<1> QED
  BY <1>1, DialogAlways, PTL DEF DialogSpec, CancelIsFinal

(***************************************************************************)
(* The parts together (MCVk).                                              *)
(***************************************************************************)

\* The bot does in each part only what the part does alone: what is proved of the dialogues,
\* of the lists and of the intake holds of all of them together.
THEOREM VkImplementsParts == VkSpec => DialogSpec /\ ListSpec /\ IntakeSpec
<1>1. VkInit => DialogInit /\ ListInit /\ IntakeInit
  BY DEF VkInit
<1>2. [VkNext]_vkVars => [DialogNext]_dialogVars /\ [ListNext]_listVars /\ [IntakeNext]_intakeVars
  BY DEF VkNext, vkVars
<1> QED
  BY <1>1, <1>2, PTL DEF VkSpec, DialogSpec, ListSpec, IntakeSpec
=============================================================================
