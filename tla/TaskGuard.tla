----------------------------- MODULE TaskGuard -----------------------------
(***************************************************************************)
(* single_instance_guard (core/task_dispatcher.py) for one lock name: a     *)
(* Redis key taken with SET NX PX, extended by a background task, deleted   *)
(* by a compare-and-delete script.  Each use of the guard draws a new token.*)
(*                                                                          *)
(* One tick of the clock is the unit in which TTL and RenewEvery are given; *)
(* it is longer than the half second after which a Redis command times out. *)
(* A command that timed out may still be executed later, once.              *)
(***************************************************************************)
EXTENDS Integers, FiniteSets

CONSTANTS
  Processes,    \* processes that run the periodic task
  TTL,          \* DISTRIBUTED_LOCK_TTL_SECONDS
  RenewEvery,   \* DISTRIBUTED_LOCK_RENEW_INTERVAL_SECONDS
  MaxMissed,    \* renewals in a row that may fail
  MaxRuns,      \* bound: times each process enters the guard
  MaxLate,      \* bound: commands that are delayed at the same time
  NoToken       \* the key is absent

Tokens == Processes \X (1..MaxRuns)

ASSUME GuardAssumption ==
  /\ TTL \in Nat
  /\ RenewEvery \in Nat \ {0}
  /\ MaxMissed \in Nat
  /\ MaxRuns \in Nat
  /\ MaxLate \in Nat
  /\ TTL > (MaxMissed + 1) * RenewEvery
  /\ NoToken \notin Tokens

VARIABLES
  lock,     \* value of the key distlock:<name>
  ttl,      \* ticks until it expires
  mode,     \* mode[p]: "outside", inside with the key ("locked"), inside
            \* because SET failed ("fallback") or for lack of a client ("alone")
  run,      \* run[p]: tokens p has drawn
  due,      \* ticks until the renew task of p wakes up
  missed,   \* renewals of p that failed in a row
  late      \* commands that timed out and may still be executed

vars == <<lock, ttl, mode, run, due, missed, late>>

Modes == {"outside", "locked", "fallback", "alone"}

Commands == [op : {"set", "renew", "del"}, token : Tokens]

Token(p) == <<p, run[p]>>

Inside(p) == mode[p] # "outside"

\* Without a client there is no renew task, and nothing to release.
Renewing(p) == mode[p] \in {"locked", "fallback"}

\* A command that got no answer may still be executed.
Delay(op, t) ==
  \/ UNCHANGED late
  \/ /\ Cardinality(late) < MaxLate
     /\ late' = late \cup {[op |-> op, token |-> t]}

Init ==
  /\ lock = NoToken
  /\ ttl = 0
  /\ mode = [p \in Processes |-> "outside"]
  /\ run = [p \in Processes |-> 0]
  /\ due = [p \in Processes |-> 0]
  /\ missed = [p \in Processes |-> 0]
  /\ late = {}

-----------------------------------------------------------------------------
(* What Redis does.                                                         *)

EternalLock == 0

\* _ttl_ms: the PX argument
LockTtl == TTL

SetNX(t) ==
  /\ lock' = t
  /\ ttl' = LockTtl

DeleteAny(t) ==
  /\ lock' = NoToken
  /\ ttl' = 0

\* _RELEASE_LUA
CompareAndDelete(t) ==
  IF lock = t
  THEN /\ lock' = NoToken
       /\ ttl' = 0
  ELSE UNCHANGED <<lock, ttl>>

\* _RENEW_LUA
CompareAndExtend(t) ==
  /\ ttl' = IF lock = t THEN LockTtl ELSE ttl
  /\ UNCHANGED lock

-----------------------------------------------------------------------------
(* Entering: a new token, then SET NX PX.                                   *)

Enter(p, how) ==
  /\ mode[p] = "outside"
  /\ run[p] < MaxRuns
  /\ run' = [run EXCEPT ![p] = @ + 1]
  /\ mode' = [mode EXCEPT ![p] = how]
  /\ due' = [due EXCEPT ![p] = RenewEvery]
  /\ missed' = [missed EXCEPT ![p] = 0]

\* The key was free; even if the answer is lost the guard says True.
Acquire(p) ==
  /\ lock = NoToken
  /\ Enter(p, "locked")
  /\ SetNX(<<p, run[p] + 1>>)
  /\ UNCHANGED late

\* The key belongs to somebody else: the guard says False.
SkipTick(p) ==
  /\ lock # NoToken
  /\ Enter(p, "outside")
  /\ UNCHANGED <<lock, ttl, late>>

\* SET fails: the guard says True all the same.
EnterUnlocked(p) ==
  /\ Enter(p, "fallback")
  /\ Delay("set", <<p, run[p] + 1>>)
  /\ UNCHANGED <<lock, ttl>>

\* There is no Redis client: the guard says True and never asks Redis.
EnterAlone(p) ==
  /\ Enter(p, "alone")
  /\ UNCHANGED <<lock, ttl, late>>

-----------------------------------------------------------------------------
(* Inside and leaving.                                                      *)

\* The renew task wakes up; the script is executed, or Redis does not answer.
Renew(p) ==
  /\ Renewing(p)
  /\ due[p] = 0
  /\ due' = [due EXCEPT ![p] = RenewEvery]
  /\ \/ /\ CompareAndExtend(Token(p))
        /\ missed' = [missed EXCEPT ![p] = 0]
        /\ UNCHANGED late
     \/ /\ mode[p] = "fallback" \/ missed[p] < MaxMissed
        /\ missed' = [missed EXCEPT ![p] = IF mode[p] = "fallback" THEN 0 ELSE @ + 1]
        /\ Delay("renew", Token(p))
        /\ UNCHANGED <<lock, ttl>>
  /\ UNCHANGED <<mode, run>>

Leave(p) ==
  /\ mode' = [mode EXCEPT ![p] = "outside"]
  /\ UNCHANGED <<run, due, missed>>

\* The block is over: the renew task is cancelled and the script is executed,
\* or it is lost or delayed.
Release(p) ==
  /\ Renewing(p)
  /\ Leave(p)
  /\ \/ /\ CompareAndDelete(Token(p))
        /\ UNCHANGED late
     \/ /\ Delay("del", Token(p))
        /\ UNCHANGED <<lock, ttl>>

\* The process dies inside, or leaves a guard that never asked Redis.
LeaveSilently(p) ==
  /\ Inside(p)
  /\ Leave(p)
  /\ UNCHANGED <<lock, ttl, late>>

LateCommand(c) ==
  /\ late' = late \ {c}
  /\ \/ /\ c.op = "del"
        /\ CompareAndDelete(c.token)
     \/ /\ c.op = "renew"
        /\ CompareAndExtend(c.token)
     \/ /\ c.op = "set" /\ lock = NoToken
        /\ SetNX(c.token)
     \/ /\ c.op = "set" /\ lock # NoToken
        /\ UNCHANGED <<lock, ttl>>
  /\ UNCHANGED <<mode, run, due, missed>>

\* Time passes; a renew task that is due runs first (the event loop is not
\* blocked for a whole tick).
Tick ==
  /\ lock # NoToken \/ \E p \in Processes : Inside(p)
  /\ \A p \in Processes : Renewing(p) => due[p] > 0
  /\ due' = [p \in Processes |-> IF Renewing(p) THEN due[p] - 1 ELSE due[p]]
  /\ ttl' = IF ttl > 0 THEN ttl - 1 ELSE ttl
  /\ lock' = IF ttl = 1 THEN NoToken ELSE lock
  /\ UNCHANGED <<mode, run, missed, late>>

Next ==
  \/ \E p \in Processes :
       \/ Acquire(p)
       \/ SkipTick(p)
       \/ EnterUnlocked(p)
       \/ EnterAlone(p)
       \/ Renew(p)
       \/ Release(p)
       \/ LeaveSilently(p)
  \/ \E c \in late : LateCommand(c)
  \/ Tick

Spec == Init /\ [][Next]_vars

\* Time passes, renew tasks wake up, and the guarded block ends.
Fairness ==
  /\ WF_vars(Tick)
  /\ \A p \in Processes : WF_vars(Renew(p)) /\ WF_vars(Release(p) \/ LeaveSilently(p))

FairSpec == Spec /\ Fairness

-----------------------------------------------------------------------------
(* Properties.                                                              *)

\* Every variable keeps its type, and a present key always has an expiry.
TypeOK ==
  /\ lock \in Tokens \cup {NoToken}
  /\ ttl \in 0..TTL
  /\ lock = NoToken <=> ttl = 0
  /\ mode \in [Processes -> Modes]
  /\ run \in [Processes -> 0..MaxRuns]
  /\ due \in [Processes -> 0..RenewEvery]
  /\ missed \in [Processes -> 0..MaxMissed]
  /\ late \subseteq Commands

\* Who entered with the key still has it, whatever expires, is renewed late or
\* is deleted by the delayed release of an earlier use (single_instance_guard).
HolderKeepsLock ==
  \A p \in Processes : mode[p] = "locked" => lock = Token(p)

\* Hence at most one process is inside with the key.
ExclusiveLeader ==
  \A p, q \in Processes : mode[p] = "locked" /\ mode[q] = "locked" => p = q

\* A key never outlives its use for ever: crashed holders and lost releases do
\* not stop the periodic task.
LockFreed == \A t \in Tokens : lock = t ~> lock # t
=============================================================================
