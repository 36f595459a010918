---------------------------- MODULE ComputeCache ----------------------------
(***************************************************************************)
(* cache_get_or_set of core/cache.py: on a miss the value of a key is      *)
(* computed under a lock of the key, so that requests that miss together   *)
(* do not compute it together.  The locks are in a registry from which     *)
(* one is removed when it is free.  asyncio.Lock hands itself to its first *)
(* waiter in two steps: release makes it free and wakes the waiter, which  *)
(* takes it when the event loop runs it.                                   *)
(*                                                                         *)
(* One key, one event loop.                                                *)
(***************************************************************************)
EXTENDS Naturals, FiniteSets, SequencesExt

CONSTANTS
  Callers,       \* concurrent calls
  MaxRounds,     \* bound: calls begun
  MaxUpsets      \* bound: failed computations, deletions and evictions

ASSUME CacheAssumption == IsFiniteSet(Callers) /\ MaxRounds \in Nat /\ MaxUpsets \in Nat

VARIABLES
  stored,     \* does the cache hold the value?
  registry,   \* _lock_registry: the lock of the key, 0 if there is none
  locked,     \* lock.locked(), per lock
  waiters,    \* the callers queued on a lock
  call,       \* per caller: what it does and the lock it has
  locks,      \* locks created
  rounds,     \* bound
  upsets      \* history and bound: what may make a value be computed again

computeVars == << stored, registry, locked, waiters, call, locks, rounds, upsets >>

LockIds == 0..MaxRounds
Places == {"idle", "missed", "queued", "checking", "computing"}

ComputeInit ==
  /\ stored = FALSE
  /\ registry = 0
  /\ locked = [l \in LockIds |-> FALSE]
  /\ waiters = [l \in LockIds |-> <<>>]
  /\ call = [c \in Callers |-> [at |-> "idle", lock |-> 0]]
  /\ locks = 0 /\ rounds = 0 /\ upsets = 0

At(c, place) == call[c].at = place

\* The first look: a hit returns, a miss goes on.
Look(c) ==
  /\ At(c, "idle") /\ ~stored
  /\ rounds < MaxRounds /\ rounds' = rounds + 1
  /\ call' = [call EXCEPT ![c].at = "missed"]
  /\ UNCHANGED << stored, registry, locked, waiters, locks, upsets >>

\* _key_lock and the acquisition of the lock, without an await if it is free
Lock(c) ==
  LET new == registry = 0
      l == IF new THEN locks + 1 ELSE registry
      free == ~locked[l] /\ waiters[l] = <<>> IN
  /\ At(c, "missed")
  /\ registry' = l
  /\ locks' = IF new THEN l ELSE locks
  /\ locked' = [locked EXCEPT ![l] = TRUE]
  /\ waiters' = IF free THEN waiters ELSE [waiters EXCEPT ![l] = Append(@, c)]
  /\ call' = [call EXCEPT ![c] = [at |-> IF free THEN "checking" ELSE "queued", lock |-> l]]
  /\ UNCHANGED << stored, rounds, upsets >>

\* The first waiter, woken by a release, takes the lock.
TakeOver(c) ==
  LET l == call[c].lock IN
  /\ At(c, "queued") /\ ~locked[l] /\ waiters[l] # <<>> /\ Head(waiters[l]) = c
  /\ locked' = [locked EXCEPT ![l] = TRUE]
  /\ waiters' = [waiters EXCEPT ![l] = Tail(@)]
  /\ call' = [call EXCEPT ![c].at = "checking"]
  /\ UNCHANGED << stored, registry, locks, rounds, upsets >>

\* The release of the lock and _release_key_lock, in one step of the event loop
Leave(c) ==
  LET l == call[c].lock IN
  /\ locked' = [locked EXCEPT ![l] = FALSE]
  /\ registry' = IF registry = l THEN 0 ELSE registry
  /\ call' = [call EXCEPT ![c] = [at |-> "idle", lock |-> 0]]
  /\ UNCHANGED << waiters, locks, rounds >>

\* Variant with a defect: no second look under the lock.
LookOnce == FALSE

LookAgain == stored

HitUnderLock(c) == At(c, "checking") /\ LookAgain /\ Leave(c) /\ UNCHANGED << stored, upsets >>

Compute(c) ==
  /\ At(c, "checking") /\ ~LookAgain
  /\ call' = [call EXCEPT ![c].at = "computing"]
  /\ UNCHANGED << stored, registry, locked, waiters, locks, rounds, upsets >>

Upset == upsets < MaxUpsets /\ upsets' = upsets + 1

Computed(c) == At(c, "computing") /\ stored' = TRUE /\ Leave(c) /\ UNCHANGED upsets

\* None is not cached, an exception is not either; a cancelled request releases the lock.
ComputesNothing(c) ==
  /\ call[c].at \in {"checking", "computing"}
  /\ Upset /\ Leave(c) /\ UNCHANGED stored

\* A waiting request is cancelled.
GiveUp(c) ==
  LET l == call[c].lock IN
  /\ At(c, "queued")
  /\ \E k \in 1..Len(waiters[l]) :
       waiters[l][k] = c /\ waiters' = [waiters EXCEPT ![l] = RemoveAt(@, k)]
  /\ registry' = IF ~locked[l] /\ registry = l THEN 0 ELSE registry
  /\ call' = [call EXCEPT ![c] = [at |-> "idle", lock |-> 0]]
  /\ UNCHANGED << stored, locked, locks, rounds, upsets >>

\* cache_delete or the end of the lifetime
Forget == stored /\ Upset /\ stored' = FALSE
          /\ UNCHANGED << registry, locked, waiters, call, locks, rounds >>

\* At its limit of 4096 locks the registry is cleared by a request for another key.
Evict == registry # 0 /\ Upset /\ registry' = 0
         /\ UNCHANGED << stored, locked, waiters, call, locks, rounds >>

ComputeNext ==
  \/ \E c \in Callers : Look(c)
  \/ \E c \in Callers : Lock(c)
  \/ \E c \in Callers : TakeOver(c)
  \/ \E c \in Callers : HitUnderLock(c)
  \/ \E c \in Callers : Compute(c)
  \/ \E c \in Callers : Computed(c)
  \/ \E c \in Callers : ComputesNothing(c)
  \/ \E c \in Callers : GiveUp(c)
  \/ Forget
  \/ Evict

ComputeSpec == ComputeInit /\ [][ComputeNext]_computeVars

-----------------------------------------------------------------------------
(* Properties.                                                             *)

ComputeTypeOK ==
  /\ stored \in BOOLEAN
  /\ registry \in LockIds /\ locks \in LockIds
  /\ locked \in [LockIds -> BOOLEAN]
  /\ waiters \in [LockIds -> Seq(Callers)]
  /\ call \in [Callers -> [at : Places, lock : LockIds]]
  /\ rounds \in 0..MaxRounds /\ upsets \in 0..MaxUpsets

\* Two calls compute the value at the same time only after a computation that stored
\* nothing, a deletion or an eviction; a lock removed from the registry while others
\* still wait for it is otherwise harmless (core/cache.py: computed exactly once).
OverlapHasCause ==
  Cardinality({c \in Callers : At(c, "computing")}) > 1 => upsets > 0
=============================================================================
