---------------------------- MODULE TasksProofs -----------------------------
(***************************************************************************)
(* Theorems about the periodic tasks: TaskGuard, for any number of          *)
(* processes and runs and any TTL that leaves room for the renewals that    *)
(* may fail; ReportScheduler and Flags, for any bounds.                     *)
(***************************************************************************)
EXTENDS MCTasks, TLAPS

\* The types hold at the start.
LEMMA InitTypes == Init => TypeOK
  BY GuardAssumption DEF Init, TypeOK, Modes

\* A key that is set has time left.
LEMMA TTLPositive == TTL \in Nat \ {0}
<1>1. (MaxMissed + 1) * RenewEvery >= 0
  BY GuardAssumption
<1> QED
  BY <1>1, GuardAssumption

\* The token drawn on entering is new.
LEMMA NewToken ==
  ASSUME TypeOK, NEW p \in Processes, run[p] < MaxRuns
  PROVE  /\ run[p] + 1 \in 1..MaxRuns
         /\ <<p, run[p] + 1>> \in Tokens
         /\ <<p, run[p] + 1>> # NoToken
<1>1. run[p] + 1 \in 1..MaxRuns
  BY GuardAssumption DEF TypeOK
<1> QED
  BY <1>1, GuardAssumption DEF Tokens

\* The token of a process that has entered is one of the tokens.
LEMMA CurrentToken ==
  ASSUME TypeOK, NEW p \in Processes, run[p] > 0
  PROVE  Token(p) \in Tokens /\ Token(p) # NoToken
<1>1. run[p] \in 1..MaxRuns
  BY GuardAssumption DEF TypeOK
<1> QED
  BY <1>1, GuardAssumption DEF Tokens, Token

\* Who is inside has drawn a token.
Drawn == \A p \in Processes : Inside(p) => run[p] > 0

\* Every step keeps the types, and draws tokens in order.
LEMMA StepTypes == TypeOK /\ Drawn /\ [Next]_vars => TypeOK' /\ Drawn'
<1> SUFFICES ASSUME TypeOK, Drawn, [Next]_vars PROVE TypeOK' /\ Drawn'
  OBVIOUS
<1> USE GuardAssumption DEF Modes
<1>1. ASSUME NEW p \in Processes, NEW how \in Modes, Enter(p, how)
      PROVE  /\ mode' \in [Processes -> Modes]
             /\ run' \in [Processes -> 0..MaxRuns]
             /\ due' \in [Processes -> 0..RenewEvery]
             /\ missed' \in [Processes -> 0..MaxMissed]
             /\ Drawn'
  <2>1. run[p] + 1 \in 0..MaxRuns /\ run[p] + 1 > 0
    BY <1>1 DEF Enter, TypeOK
  <2>2. mode' \in [Processes -> Modes]
    BY <1>1 DEF Enter, TypeOK
  <2>3. run' \in [Processes -> 0..MaxRuns]
    BY <1>1, <2>1 DEF Enter, TypeOK
  <2>4. due' \in [Processes -> 0..RenewEvery]
    BY <1>1 DEF Enter, TypeOK
  <2>5. missed' \in [Processes -> 0..MaxMissed]
    BY <1>1 DEF Enter, TypeOK
  <2>6. Drawn'
    BY <1>1, <2>1 DEF Enter, TypeOK, Drawn, Inside
  <2> QED
    BY <2>2, <2>3, <2>4, <2>5, <2>6
<1>2. ASSUME NEW p \in Processes, Acquire(p) PROVE TypeOK' /\ Drawn'
  <2>1. run[p] < MaxRuns /\ Enter(p, "locked") /\ late' = late
    BY <1>2 DEF Acquire, Enter
  <2>2. lock' \in Tokens /\ lock' # NoToken /\ ttl' = TTL
    BY <1>2, <2>1, NewToken DEF Acquire, SetNX, LockTtl
  <2> QED
    BY <1>1, <2>1, <2>2, TTLPositive DEF TypeOK
<1>3. ASSUME NEW p \in Processes, SkipTick(p) PROVE TypeOK' /\ Drawn'
  BY <1>1, <1>3 DEF SkipTick, TypeOK
<1>4. ASSUME NEW op \in {"set", "renew", "del"}, NEW t \in Tokens, Delay(op, t)
      PROVE  late' \subseteq Commands
  BY <1>4 DEF Delay, Commands, TypeOK
<1>5. ASSUME NEW p \in Processes, EnterUnlocked(p) \/ EnterAlone(p) PROVE TypeOK' /\ Drawn'
  <2>1. /\ run[p] < MaxRuns
        /\ Enter(p, "fallback") \/ Enter(p, "alone")
        /\ UNCHANGED <<lock, ttl>>
    BY <1>5 DEF EnterUnlocked, EnterAlone, Enter
  <2>2. late' \subseteq Commands
    BY <1>4, <1>5, <2>1, NewToken DEF EnterUnlocked, EnterAlone, TypeOK
  <2> QED
    BY <1>1, <2>1, <2>2 DEF TypeOK
<1>6. ASSUME NEW p \in Processes, Renew(p) PROVE TypeOK' /\ Drawn'
  <2>1. UNCHANGED <<lock, mode, run>> /\ Token(p) \in Tokens
    BY <1>6, CurrentToken DEF Renew, CompareAndExtend, Renewing, Drawn, Inside
  <2>2. due' \in [Processes -> 0..RenewEvery]
    BY <1>6 DEF Renew, TypeOK
  <2>3. ttl' \in 0..TTL /\ (lock' = NoToken <=> ttl' = 0)
    BY <1>6, <2>1, TTLPositive DEF Renew, CompareAndExtend, LockTtl, TypeOK, Tokens
  <2>4. missed' \in [Processes -> 0..MaxMissed]
    BY <1>6 DEF Renew, TypeOK
  <2>5. late' \subseteq Commands
    BY <1>4, <1>6, <2>1 DEF Renew, TypeOK
  <2> QED
    BY <2>1, <2>2, <2>3, <2>4, <2>5 DEF TypeOK, Drawn, Inside
<1>7. ASSUME NEW t, CompareAndDelete(t)
      PROVE  lock' \in Tokens \cup {NoToken} /\ ttl' \in 0..TTL /\ (lock' = NoToken <=> ttl' = 0)
  BY <1>7 DEF CompareAndDelete, TypeOK
<1>8. ASSUME NEW p \in Processes, Release(p) PROVE TypeOK' /\ Drawn'
  <2>1. late' \subseteq Commands
    BY <1>4, <1>8, CurrentToken DEF Release, Renewing, Drawn, Inside, TypeOK
  <2>2. lock' \in Tokens \cup {NoToken} /\ ttl' \in 0..TTL /\ (lock' = NoToken <=> ttl' = 0)
    BY <1>7, <1>8 DEF Release, TypeOK
  <2> QED
    BY <1>8, <2>1, <2>2 DEF Release, Leave, TypeOK, Drawn, Inside
<1>9. ASSUME NEW p \in Processes, LeaveSilently(p) PROVE TypeOK' /\ Drawn'
  BY <1>9 DEF LeaveSilently, Leave, TypeOK, Drawn, Inside
<1>10. ASSUME NEW c \in late, LateCommand(c) PROVE TypeOK' /\ Drawn'
  <2>1. UNCHANGED <<mode, run, due, missed>> /\ late' \subseteq Commands
    BY <1>10 DEF LateCommand, TypeOK
  <2>2. c.token \in Tokens /\ c.token # NoToken
    BY DEF TypeOK, Commands
  <2>3. lock' \in Tokens \cup {NoToken} /\ ttl' \in 0..TTL /\ (lock' = NoToken <=> ttl' = 0)
    BY <1>7, <1>10, <2>2, TTLPositive DEF LateCommand, SetNX, CompareAndExtend, LockTtl, TypeOK
  <2> QED
    BY <2>1, <2>3 DEF TypeOK, Drawn, Inside
<1>11. ASSUME Tick PROVE TypeOK' /\ Drawn'
  <2>1. ttl' \in 0..TTL /\ (lock' = NoToken <=> ttl' = 0) /\ lock' \in Tokens \cup {NoToken}
    BY <1>11, TTLPositive DEF Tick, TypeOK
  <2>2. due' \in [Processes -> 0..RenewEvery]
    BY <1>11 DEF Tick, TypeOK
  <2> QED
    BY <1>11, <2>1, <2>2 DEF Tick, TypeOK, Drawn, Inside
<1>12. CASE UNCHANGED vars
  BY <1>12 DEF vars, TypeOK, Drawn, Inside
<1> QED
  BY <1>2, <1>3, <1>5, <1>6, <1>8, <1>9, <1>10, <1>11, <1>12 DEF Next

\* So both hold in every reachable state.
LEMMA AlwaysTyped == Spec => [](TypeOK /\ Drawn)
<1>1. Init => TypeOK /\ Drawn
  BY InitTypes DEF Init, Drawn, Inside
<1> QED
  BY <1>1, StepTypes, PTL DEF Spec

\* Every variable keeps its type, and a key that is present always has an
\* expiry: no use of the guard can leave an eternal lock behind.
THEOREM TypeCorrect == Spec => []TypeOK
  BY AlwaysTyped, PTL

-----------------------------------------------------------------------------
(* The holder keeps the key.                                                *)

\* Time the renewals that may still fail in a row can take.
Reserve(p) == (MaxMissed - missed[p]) * RenewEvery

\* The key of a holder does not expire before its renew task must succeed.
Covered ==
  \A p \in Processes : mode[p] = "locked" => lock = Token(p) /\ ttl > due[p] + Reserve(p)

\* A delayed command carries a token already drawn; a delayed release, one of
\* a use of the guard that is over.
Stale ==
  \A c \in late : \A p \in Processes :
    c.token[1] = p => /\ c.token[2] <= run[p]
                      /\ c.op = "del" /\ mode[p] = "locked" => c.token[2] < run[p]

HolderInv == Covered /\ Stale

\* Nobody is inside and no command is delayed at the start.
LEMMA InitHolder == Init => HolderInv
  BY DEF Init, HolderInv, Covered, Stale

\* Renewing takes less time than the key lives, missed renewals included.
LEMMA ReserveArithmetic ==
  ASSUME TypeOK, NEW p \in Processes
  PROVE  /\ Reserve(p) \in Nat
         /\ MaxMissed * RenewEvery \in Nat
         /\ TTL > RenewEvery + MaxMissed * RenewEvery
         /\ MaxMissed * RenewEvery >= Reserve(p)
         /\ missed[p] < MaxMissed =>
              (MaxMissed - (missed[p] + 1)) * RenewEvery = Reserve(p) - RenewEvery
<1>1. /\ missed[p] \in Nat /\ MaxMissed \in Nat /\ RenewEvery \in Nat /\ TTL \in Nat
      /\ missed[p] <= MaxMissed
  BY GuardAssumption DEF TypeOK
<1>2. (MaxMissed + 1) * RenewEvery = RenewEvery + MaxMissed * RenewEvery
  BY <1>1
<1>3. (MaxMissed - (missed[p] + 1)) * RenewEvery = (MaxMissed - missed[p]) * RenewEvery - RenewEvery
  BY <1>1
<1>4. \A i, j \in Nat : i * j \in Nat
  OBVIOUS
<1>5. MaxMissed * RenewEvery = (MaxMissed - missed[p]) * RenewEvery + missed[p] * RenewEvery
  BY <1>1
<1> QED
  BY <1>1, <1>2, <1>3, <1>4, <1>5, GuardAssumption DEF Reserve

\* What entering changes of the invariant's parts.
LEMMA EnterEffect ==
  ASSUME TypeOK, NEW p \in Processes, NEW how, Enter(p, how)
  PROVE  /\ mode[p] = "outside" /\ mode'[p] = how
         /\ run'[p] = run[p] + 1
         /\ due'[p] = RenewEvery /\ missed'[p] = 0
         /\ \A q \in Processes \ {p} : /\ mode'[q] = mode[q]
                                       /\ run'[q] = run[q]
                                       /\ due'[q] = due[q]
                                       /\ missed'[q] = missed[q]
  BY DEF Enter, TypeOK

\* Delayed commands still carry used tokens after some process entered.
LEMMA EnterKeepsStale ==
  ASSUME TypeOK, Stale, NEW p \in Processes, NEW how, Enter(p, how), late' = late
  PROVE  Stale'
<1> SUFFICES ASSUME NEW c \in late, NEW q \in Processes, c.token[1] = q
             PROVE  /\ c.token[2] <= run'[q]
                    /\ c.op = "del" /\ mode'[q] = "locked" => c.token[2] < run'[q]
  BY DEF Stale
<1>1. c.token[2] \in Nat /\ run[q] \in Nat /\ c.token[2] <= run[q]
  BY GuardAssumption DEF TypeOK, Commands, Tokens, Stale
<1>2. CASE q = p
  BY <1>1, <1>2, EnterEffect
<1>3. CASE q # p
  BY <1>1, <1>3, EnterEffect DEF Stale
<1> QED
  BY <1>2, <1>3

\* Every step keeps the holder's reserve, and delayed commands harmless.
LEMMA StepHolder == TypeOK /\ Drawn /\ HolderInv /\ [Next]_vars => HolderInv'
<1> SUFFICES ASSUME TypeOK, Drawn, HolderInv, [Next]_vars PROVE HolderInv'
  OBVIOUS
<1> USE GuardAssumption
<1>0. ttl' \in Nat
  BY StepTypes DEF TypeOK
\* A process other than the holder changes only its own bookkeeping.
<1>1. ASSUME NEW q \in Processes, mode'[q] = "locked", mode[q] = "locked",
             UNCHANGED <<run[q], due[q], missed[q]>>, lock' = lock, ttl' >= ttl
      PROVE  lock' = Token(q)' /\ ttl' > due'[q] + Reserve(q)'
  <2>1. Reserve(q)' = Reserve(q) /\ Token(q)' = Token(q)
    BY <1>1 DEF Reserve, Token
  <2>2. lock = Token(q) /\ ttl > due[q] + Reserve(q)
    BY <1>1 DEF HolderInv, Covered
  <2>3. ttl \in Nat /\ due[q] \in Nat /\ Reserve(q) \in Nat
    BY ReserveArithmetic DEF TypeOK
  <2> QED
    BY <1>0, <1>1, <2>1, <2>2, <2>3
<1>2. ASSUME NEW p \in Processes, Acquire(p) PROVE HolderInv'
  <2>1. /\ Enter(p, "locked") /\ late' = late
        /\ lock = NoToken /\ lock' = <<p, run[p] + 1>> /\ ttl' = TTL
    BY <1>2 DEF Acquire, SetNX, LockTtl
  <2>2. \A q \in Processes : mode[q] # "locked"
    BY <2>1, CurrentToken DEF HolderInv, Covered, Drawn, Inside
  <2>3. Reserve(p)' = MaxMissed * RenewEvery
    BY <2>1, EnterEffect DEF Reserve
  <2>4. lock' = Token(p)' /\ ttl' > due'[p] + Reserve(p)'
    BY <2>1, <2>3, EnterEffect, ReserveArithmetic DEF Token
  <2>5. Covered'
    BY <2>1, <2>2, <2>4, EnterEffect DEF Covered
  <2> QED
    BY <2>1, <2>5, EnterKeepsStale DEF HolderInv
<1>3. ASSUME NEW p \in Processes, NEW how \in {"outside", "fallback", "alone"}, Enter(p, how),
             UNCHANGED <<lock, ttl>>
      PROVE  Covered'
  <2>1. ASSUME NEW q \in Processes, mode'[q] = "locked"
        PROVE  lock' = Token(q)' /\ ttl' > due'[q] + Reserve(q)'
    <3>1. q # p
      BY <1>3, <2>1, EnterEffect
    <3> QED
      BY <1>1, <1>3, <2>1, <3>1, EnterEffect DEF TypeOK
  <2> QED
    BY <2>1 DEF Covered
<1>4. ASSUME NEW p \in Processes, SkipTick(p) \/ EnterAlone(p) PROVE HolderInv'
  BY <1>3, <1>4, EnterKeepsStale DEF SkipTick, EnterAlone, HolderInv
<1>5. ASSUME NEW p \in Processes, EnterUnlocked(p) PROVE HolderInv'
  <2>1. Enter(p, "fallback") /\ UNCHANGED <<lock, ttl>>
    BY <1>5 DEF EnterUnlocked
  <2>2. ASSUME NEW c \in late', NEW q \in Processes, c.token[1] = q
        PROVE  /\ c.token[2] <= run'[q]
               /\ c.op = "del" /\ mode'[q] = "locked" => c.token[2] < run'[q]
    <3>1. c \in late \/ c = [op |-> "set", token |-> <<p, run[p] + 1>>]
      BY <1>5, <2>2 DEF EnterUnlocked, Delay
    <3>2. run[q] \in Nat
      BY DEF TypeOK
    <3>3. CASE c \in late
      <4>1. c.token[2] \in Nat /\ c.token[2] <= run[q]
        BY <2>2, <3>3 DEF TypeOK, Commands, Tokens, HolderInv, Stale
      <4>2. CASE q = p
        BY <2>1, <3>2, <4>1, <4>2, EnterEffect
      <4>3. CASE q # p
        BY <2>1, <2>2, <3>3, <4>1, <4>3, EnterEffect DEF HolderInv, Stale
      <4> QED
        BY <4>2, <4>3
    <3>4. CASE c = [op |-> "set", token |-> <<p, run[p] + 1>>]
      BY <2>1, <2>2, <3>2, <3>4, EnterEffect DEF TypeOK
    <3> QED
      BY <3>1, <3>3, <3>4
  <2> QED
    BY <1>3, <2>1, <2>2 DEF HolderInv, Stale
<1>6. ASSUME NEW p \in Processes, Renew(p) PROVE HolderInv'
  <2>1. /\ UNCHANGED <<lock, mode, run>> /\ due[p] = 0 /\ due'[p] = RenewEvery
        /\ \A q \in Processes \ {p} : due'[q] = due[q] /\ missed'[q] = missed[q]
    BY <1>6 DEF Renew, CompareAndExtend, TypeOK
  <2>2. \/ /\ ttl' = IF lock = Token(p) THEN TTL ELSE ttl
           /\ missed'[p] = 0
        \/ /\ ttl' = ttl
           /\ mode[p] # "fallback" => missed[p] < MaxMissed /\ missed'[p] = missed[p] + 1
    BY <1>6 DEF Renew, CompareAndExtend, LockTtl, TypeOK
  <2>3. ttl' >= ttl
    BY <2>2 DEF TypeOK
  <2>4. ASSUME NEW q \in Processes, mode'[q] = "locked"
        PROVE  lock' = Token(q)' /\ ttl' > due'[q] + Reserve(q)'
    <3>1. CASE q # p
      BY <1>1, <2>1, <2>3, <2>4, <3>1
    <3>2. CASE q = p
      <4>1. lock = Token(p) /\ ttl > due[p] + Reserve(p) /\ Token(p)' = Token(p) /\ mode[p] = "locked"
        BY <2>1, <2>4, <3>2 DEF HolderInv, Covered, Token
      <4>2. CASE ttl' = TTL /\ missed'[p] = 0
        <5>1. Reserve(p)' = MaxMissed * RenewEvery
          BY <4>2 DEF Reserve
        <5> QED
          BY <2>1, <3>2, <4>1, <4>2, <5>1, ReserveArithmetic
      <4>3. CASE ttl' = ttl /\ missed[p] < MaxMissed /\ missed'[p] = missed[p] + 1
        <5>1. Reserve(p)' = Reserve(p) - RenewEvery
          BY <4>3, ReserveArithmetic DEF Reserve
        <5> QED
          BY <2>1, <3>2, <4>1, <4>3, <5>1, ReserveArithmetic DEF TypeOK
      <4> QED
        BY <2>2, <4>1, <4>2, <4>3
    <3> QED
      BY <3>1, <3>2
  <2>5. ASSUME NEW c \in late', NEW q \in Processes, c.token[1] = q
        PROVE  /\ c.token[2] <= run'[q]
               /\ c.op = "del" /\ mode'[q] = "locked" => c.token[2] < run'[q]
    <3>1. c \in late \/ c = [op |-> "renew", token |-> Token(p)]
      BY <1>6, <2>5 DEF Renew, Delay
    <3> QED
      BY <2>1, <2>5, <3>1 DEF HolderInv, Stale, Token, TypeOK
  <2> QED
    BY <2>4, <2>5 DEF HolderInv, Covered, Stale
\* Once p is outside, the others keep their key if p's token is all it deletes.
<1>7. ASSUME NEW t, CompareAndDelete(t), UNCHANGED <<run, due, missed>>,
             \A q \in Processes : mode'[q] = "locked" => mode[q] = "locked" /\ t # Token(q)
      PROVE  Covered'
  <2>1. ASSUME NEW q \in Processes, mode'[q] = "locked" PROVE lock # t
    BY <1>7, <2>1 DEF HolderInv, Covered
  <2>2. ASSUME NEW q \in Processes, mode'[q] = "locked"
        PROVE  lock' = Token(q)' /\ ttl' > due'[q] + Reserve(q)'
    BY <1>1, <1>7, <2>1, <2>2 DEF CompareAndDelete, TypeOK
  <2> QED
    BY <2>2 DEF Covered
<1>8. ASSUME NEW p \in Processes, Leave(p)
      PROVE  /\ UNCHANGED <<run, due, missed>>
             /\ \A q \in Processes : mode'[q] = "locked" => mode[q] = "locked" /\ Token(p) # Token(q)
             /\ mode'[p] = "outside"
  BY <1>8 DEF Leave, TypeOK, Token
<1>9. ASSUME NEW p \in Processes, Release(p) PROVE HolderInv'
  <2>1. Covered'
    <3>1. CASE CompareAndDelete(Token(p))
      BY <1>7, <1>8, <1>9, <3>1 DEF Release
    <3>2. CASE UNCHANGED <<lock, ttl>>
      BY <1>1, <1>8, <1>9, <3>2 DEF Release, Covered, TypeOK
    <3> QED
      BY <1>9, <3>1, <3>2 DEF Release
  <2>2. ASSUME NEW c \in late', NEW q \in Processes, c.token[1] = q
        PROVE  /\ c.token[2] <= run'[q]
               /\ c.op = "del" /\ mode'[q] = "locked" => c.token[2] < run'[q]
    <3>1. c \in late \/ c = [op |-> "del", token |-> Token(p)]
      BY <1>9, <2>2 DEF Release, Delay
    <3>2. CASE c \in late
      BY <1>8, <1>9, <2>2, <3>2 DEF Release, HolderInv, Stale
    <3>3. CASE c = [op |-> "del", token |-> Token(p)]
      BY <1>8, <1>9, <2>2, <3>3 DEF Release, Token, TypeOK
    <3> QED
      BY <3>1, <3>2, <3>3
  <2> QED
    BY <2>1, <2>2 DEF HolderInv, Stale
<1>10. ASSUME NEW p \in Processes, LeaveSilently(p) PROVE HolderInv'
  <2>1. Covered'
    BY <1>1, <1>8, <1>10 DEF LeaveSilently, Covered, TypeOK
  <2>2. Stale'
    BY <1>8, <1>10 DEF LeaveSilently, HolderInv, Stale
  <2> QED
    BY <2>1, <2>2 DEF HolderInv
<1>11. ASSUME NEW c \in late, LateCommand(c) PROVE HolderInv'
  <2>1. UNCHANGED <<mode, run, due, missed>> /\ late' \subseteq late
    BY <1>11 DEF LateCommand
  <2>2. Stale'
    BY <2>1 DEF HolderInv, Stale
  <2>3. CASE c.op = "del" /\ CompareAndDelete(c.token)
    <3>1. ASSUME NEW q \in Processes, mode[q] = "locked" PROVE c.token # Token(q)
      <4>1. c.token[1] = q => c.token[2] < run[q]
        BY <2>3, <3>1 DEF HolderInv, Stale
      <4> QED
        BY <4>1 DEF Token, TypeOK
    <3>2. Covered'
      BY <1>7, <2>1, <2>3, <3>1
    <3> QED
      BY <2>2, <3>2 DEF HolderInv
  <2>4. CASE CompareAndExtend(c.token)
    <3>1. lock' = lock /\ ttl' >= ttl
      BY <2>4 DEF CompareAndExtend, LockTtl, TypeOK
    <3>2. Covered'
      BY <1>1, <2>1, <3>1 DEF Covered
    <3> QED
      BY <2>2, <3>2 DEF HolderInv
  <2>5. CASE lock = NoToken
    <3>1. \A q \in Processes : mode[q] # "locked"
      BY <2>5, CurrentToken DEF HolderInv, Covered, Drawn, Inside
    <3> QED
      BY <2>1, <2>2, <3>1 DEF HolderInv, Covered
  <2>6. CASE UNCHANGED <<lock, ttl>>
    <3>1. Covered'
      BY <1>1, <2>1, <2>6 DEF Covered, TypeOK
    <3> QED
      BY <2>2, <3>1 DEF HolderInv
  <2> QED
    BY <1>11, <2>3, <2>4, <2>5, <2>6 DEF LateCommand
<1>12. ASSUME Tick PROVE HolderInv'
  <2>1. UNCHANGED <<mode, run, missed, late>>
    BY <1>12 DEF Tick
  <2>2. ASSUME NEW q \in Processes, mode[q] = "locked"
        PROVE  lock' = Token(q)' /\ ttl' > due'[q] + Reserve(q)'
    <3>1. due[q] > 0 /\ due'[q] = due[q] - 1
      BY <1>12, <2>2 DEF Tick, Renewing, TypeOK
    <3>2. lock = Token(q) /\ ttl > due[q] + Reserve(q) /\ Reserve(q) \in Nat
      BY <2>2, ReserveArithmetic DEF HolderInv, Covered
    <3>3. due[q] \in Nat /\ ttl \in Nat
      BY DEF TypeOK
    <3>4. ttl' = ttl - 1 /\ lock' = lock
      BY <1>12, <3>1, <3>2, <3>3 DEF Tick
    <3>5. Token(q)' = Token(q) /\ Reserve(q)' = Reserve(q)
      BY <2>1 DEF Token, Reserve
    <3> QED
      BY <3>1, <3>2, <3>3, <3>4, <3>5
  <2> QED
    BY <2>1, <2>2 DEF HolderInv, Covered, Stale
<1>13. CASE UNCHANGED vars
  BY <1>13 DEF vars, HolderInv, Covered, Stale, Token, Reserve
<1> QED
  BY <1>2, <1>4, <1>5, <1>6, <1>9, <1>10, <1>11, <1>12, <1>13 DEF Next

\* So both hold in every reachable state.
LEMMA AlwaysHolder == Spec => []HolderInv
  BY InitHolder, StepHolder, AlwaysTyped, PTL DEF Spec

\* Who entered with the key still has it: neither expiry, nor renewals that
\* fail MaxMissed times in a row, nor a delayed command of an earlier use can
\* take it away.
THEOREM HolderKeepsTheLock == Spec => []HolderKeepsLock
<1>1. HolderInv => HolderKeepsLock
  BY DEF HolderInv, Covered, HolderKeepsLock
<1> QED
  BY <1>1, AlwaysHolder, PTL

\* At most one process is inside with the key.
THEOREM OneLeader == Spec => []ExclusiveLeader
<1>1. HolderInv => ExclusiveLeader
  BY DEF HolderInv, Covered, ExclusiveLeader, Token
<1> QED
  BY <1>1, AlwaysHolder, PTL

-----------------------------------------------------------------------------
(* The switches.                                                           *)

\* Every step keeps the types of the switches.
LEMMA FlagsStep == FlagsTypeOK /\ [FlagsNext]_flagVars => FlagsTypeOK'
<1> SUFFICES ASSUME FlagsTypeOK, [FlagsNext]_flagVars PROVE FlagsTypeOK'
  OBVIOUS
<1> USE FlagsAssumption DEF FlagsTypeOK
<1>1. \A h \in Hosts, s \in Switches : Default(h, s) \in Values
  BY DEF Default, Values
<1>2. ASSUME NEW h \in Hosts, NEW s \in Switches, Ask(h, s) PROVE FlagsTypeOK'
  BY <1>1, <1>2 DEF Ask, Or
<1>3. ASSUME NEW h \in Hosts, NEW s \in Switches, Answered(h, s) PROVE FlagsTypeOK'
  BY <1>3 DEF Answered
<1>4. ASSUME NEW h \in Hosts, NEW s \in Switches, ReadFile(h, s) PROVE FlagsTypeOK'
  BY <1>1, <1>4 DEF ReadFile, Or
<1>5. ASSUME NEW h \in Hosts, NEW s \in Switches, Expire(h, s) PROVE FlagsTypeOK'
  BY <1>5 DEF Expire
<1>6. ASSUME NEW h \in Hosts, NEW s \in Switches, NEW v \in Values, Write(h, s, v),
             config' \in [Hosts -> Values]
      PROVE  FlagsTypeOK'
  BY <1>6 DEF Write
<1>7. ASSUME NEW h \in Hosts, NEW v \in Values, SetMaintenance(h, v) PROVE FlagsTypeOK'
  BY <1>6, <1>7 DEF SetMaintenance, Switches
<1>8. ASSUME NEW h \in Hosts, NEW v \in Values, SetTwoFactor(h, v) PROVE FlagsTypeOK'
  BY <1>6, <1>8 DEF SetTwoFactor, Switches
<1>9. CASE Outage
  <2>1. outages < MaxOutages /\ outages' = outages + 1 /\ redisUp' = FALSE
    BY <1>9, Zenon DEF Outage
  <2>2. outages' \in 0..MaxOutages
    BY <2>1
  <2> QED
    BY <1>9, <2>1, <2>2, Zenon DEF Outage
<1>10. CASE Recovery
  BY <1>10 DEF Recovery
<1>11. CASE UNCHANGED flagVars
  BY <1>11 DEF flagVars
<1> QED
  BY <1>2, <1>3, <1>4, <1>5, <1>7, <1>8, <1>9, <1>10, <1>11 DEF FlagsNext

\* The switches and their copies are on, off or unknown.
THEOREM FlagsTypes == FlagsSpec => []FlagsTypeOK
<1>1. FlagsInit => FlagsTypeOK
  BY FlagsAssumption DEF FlagsInit, FlagsTypeOK, Values
<1> QED
  BY <1>1, FlagsStep, PTL DEF FlagsSpec

-----------------------------------------------------------------------------
(* The daily report.                                                       *)

\* The states of the loop, as records
Loops ==
  [at : {"idle", "sending"}, target : Days, retries : 0..MaxRetries, todo : SUBSET Channels,
   sent : BOOLEAN, failed : BOOLEAN, note : SUBSET Recipients]

\* Types, with what they leave open: the day after the first, and whole records.
ReportTyped ==
  /\ ReportTypeOK
  /\ day > 0
  /\ loop \in Loops

\* Every step keeps the types of the report.
LEMMA ReportTypedStep == ReportTyped /\ [ReportNext]_reportVars => ReportTyped'
<1> SUFFICES ASSUME ReportTyped, [ReportNext]_reportVars PROVE ReportTyped'
  OBVIOUS
<1> USE ReportAssumption DEF ReportTyped, ReportTypeOK, Days
<1>1. CASE Begin
  <2>1. day - 1 \in Days
    BY DEF Days
  <2>2. /\ loop' \in Loops
        /\ loop'.todo = channels
    BY <1>1, <2>1 DEF Begin, Loops
  <2> QED
    BY <1>1, <2>2 DEF Begin, Loops
<1>2. CASE Remember
  BY <1>2 DEF Remember
<1>3. ASSUME NEW c \in Channels, Skip(c) PROVE ReportTyped'
  <2>1. /\ loop' \in Loops
        /\ loop'.todo \subseteq channels
    BY <1>3 DEF Skip, Loops
  <2> QED
    BY <1>3, <2>1 DEF Skip, Loops
<1>4. ASSUME NEW c \in Channels, SendReport(c) PROVE ReportTyped'
  <2>1. c # Email => c \in Recipients
    BY DEF Channels
  <2>2. CASE /\ loop' = [loop EXCEPT !.todo = @ \ {c}, !.sent = TRUE,
                     !.note = IF c # Email /\ "redis" \in up THEN {c} ELSE {}]
             /\ received' = [received EXCEPT ![<<loop.target, c>>] = @ + 1]
             /\ UNCHANGED mishaps
    <3>1. (IF c # Email /\ "redis" \in up THEN {c} ELSE {}) \in SUBSET Recipients
      BY <2>1
    <3>2. /\ loop' \in Loops
          /\ loop'.todo \subseteq channels
      BY <2>2, <3>1 DEF Loops
    <3>3. received[<<loop.target, c>>] + 1 \in Nat
      OBVIOUS
    <3>4. received' \in [Days \X Channels -> Nat]
      BY <2>2, <3>3
    <3> QED
      BY <1>4, <2>2, <3>2, <3>4 DEF SendReport, Loops
  <2>3. CASE /\ Mishap
             /\ loop' = [loop EXCEPT !.todo = @ \ {c}, !.failed = TRUE]
             /\ UNCHANGED received
    <3>1. /\ loop' \in Loops
          /\ loop'.todo \subseteq channels
      BY <2>3 DEF Loops
    <3>2. mishaps' \in 0..MaxMishaps
      BY <2>3 DEF Mishap
    <3> QED
      BY <1>4, <2>3, <3>1, <3>2 DEF SendReport, Loops
  <2> QED
    BY <1>4, <2>2, <2>3 DEF SendReport
<1>5. CASE Note
  <2>1. /\ loop' \in Loops
        /\ loop'.todo = loop.todo
    BY <1>5 DEF Note, Loops
  <2>2. noted' \subseteq Days \X Recipients
    BY <1>5 DEF Note
  <2> QED
    BY <1>5, <2>1, <2>2 DEF Note, Loops
<1>6. \A n \in 0..MaxRetries :
        /\ Idle(n).at = "idle" /\ Idle(n).target = 0 /\ Idle(n).retries = n
        /\ Idle(n).todo = {} /\ Idle(n).note = {}
        /\ Idle(n) \in Loops
  BY DEF Idle, Loops
<1>7. ASSUME NEW s \in {"sent", "partial", "failed"}, Mark(loop.target, s),
             NEW n \in 0..MaxRetries, loop' = Idle(n),
             UNCHANGED << channels, day, dueToday, up, noted, received, mishaps >>
      PROVE  ReportTyped'
  <2>1. marked' \subseteq Days
    BY <1>7 DEF Mark
  <2>2. runs' \in [Days -> {"none", "sent", "partial", "failed"}]
    BY <1>7 DEF Mark
  <2> QED
    BY <1>6, <1>7, <2>1, <2>2
<1>8. CASE Success
  BY <1>7, <1>8 DEF Success
<1>9. CASE GiveUpReport
  BY <1>7, <1>9 DEF GiveUpReport
<1>10. CASE Retry
  <2>1. loop.retries + 1 \in 0..MaxRetries
    BY <1>10 DEF Retry, Exhausted
  <2> QED
    BY <1>6, <1>10, <2>1 DEF Retry
<1>11. CASE ClockMoves
  <2>1. dueToday' \in BOOLEAN
    BY <1>11, Zenon DEF ClockMoves
  <2>2. day' = day \/ (day < LastDay /\ day' = day + 1)
    BY <1>11, Zenon DEF ClockMoves
  <2>3. day' \in Days /\ day' > 0
    BY <2>2
  <2> QED
    BY <1>11, <2>1, <2>3, Zenon DEF ClockMoves
<1>12. ASSUME NEW s \in {"redis", "db"}, Fail(s) PROVE ReportTyped'
  BY <1>12 DEF Fail, Mishap
<1>13. ASSUME NEW s \in {"redis", "db"}, Return(s) PROVE ReportTyped'
  BY <1>13 DEF Return
<1>14. CASE Restart
  BY <1>6, <1>14 DEF Restart, Mishap
<1>15. CASE UNCHANGED reportVars
  BY <1>15 DEF reportVars
<1> QED
  BY <1>1, <1>2, <1>3, <1>4, <1>5, <1>8, <1>9, <1>10, <1>11, <1>12, <1>13, <1>14, <1>15
  DEF ReportNext

\* The types hold at the start.
LEMMA ReportInitTyped == ReportInit => ReportTyped
<1> SUFFICES ASSUME ReportInit PROVE ReportTyped
  OBVIOUS
<1> USE ReportAssumption DEF ReportInit, Days
<1>1. loop \in Loops /\ loop.todo = {}
  BY DEF Idle, Loops
<1>2. /\ received \in [Days \X Channels -> Nat]
      /\ runs \in [Days -> {"none", "sent", "partial", "failed"}]
  OBVIOUS
<1>3. day = 1 /\ 1 \in Days /\ 0 \in 0..MaxMishaps
  OBVIOUS
<1>4. up \subseteq {"redis", "db"} /\ dueToday \in BOOLEAN /\ channels \subseteq Channels
  OBVIOUS
<1> QED
  BY <1>1, <1>2, <1>3, <1>4 DEF ReportTyped, ReportTypeOK, Loops

\* Every value of the scheduler is of its type.
THEOREM ReportTypes == ReportSpec => []ReportTypeOK
<1>1. ReportSpec => []ReportTyped
  BY ReportInitTyped, ReportTypedStep, PTL DEF ReportSpec
<1>2. ReportTyped => ReportTypeOK
  BY DEF ReportTyped
<1> QED
  BY <1>1, <1>2, PTL

\* How often the channel may have had the report of a day before the next mishap
Within(n, d, c) == received[<<d, c>>] + n <= mishaps

Sending(d) == loop.at = "sending" /\ loop.target = d

\* Why nobody gets a report again without a mishap: the report of a day that is not
\* settled is one that went wrong, unless it is being sent, and then only to those
\* whose turn was.  While the database is away one mishap more is to spare, because
\* the report that is being sent may end up unmarked.
RepeatInv ==
  /\ \A d \in Days, c \in Channels : received[<<d, c>>] <= 1 + mishaps
  /\ \A d \in Days, c \in Channels : ~Settled(d) /\ ~Sending(d) => Within(0, d, c)
  /\ loop.at = "sending" =>
       \A c \in Channels :
         /\ c \in loop.todo => Within(0, loop.target, c)
         /\ c \in loop.todo /\ "db" \notin up => Within(1, loop.target, c)
         /\ ~loop.sent \/ "db" \notin up => Within(0, loop.target, c)

\* The counts are numbers.
LEMMA CountsAreNumbers ==
  ASSUME ReportTyped
  PROVE  mishaps \in Nat /\ \A d \in Days, c \in Channels : received[<<d, c>>] \in Nat
<1>1. mishaps \in Nat
  BY ReportAssumption DEF ReportTyped, ReportTypeOK
<1>2. ASSUME NEW d \in Days, NEW c \in Channels PROVE received[<<d, c>>] \in Nat
  <2>1. <<d, c>> \in Days \X Channels /\ received \in [Days \X Channels -> Nat]
    BY DEF ReportTyped, ReportTypeOK
  <2> QED
    BY <2>1
<1> QED
  BY <1>1, <1>2

\* What is within the mishaps is not more than one above them.
LEMMA WithinBounds ==
  ASSUME ReportTyped, NEW d \in Days, NEW c \in Channels
  PROVE  /\ Within(0, d, c) => received[<<d, c>>] <= 1 + mishaps
         /\ Within(1, d, c) => Within(0, d, c)
  BY CountsAreNumbers DEF Within

\* What a mishap allows
LEMMA MishapAllows ==
  ASSUME ReportTyped, Mishap, UNCHANGED received, NEW d \in Days, NEW c \in Channels
  PROVE  /\ received[<<d, c>>] <= 1 + mishaps => Within(0, d, c)'
         /\ Within(0, d, c) => Within(1, d, c)'
         /\ received[<<d, c>>] <= 1 + mishaps => received'[<<d, c>>] <= 1 + mishaps'
<1>1. received[<<d, c>>] \in Nat /\ mishaps \in Nat
  BY CountsAreNumbers
<1>2. mishaps' = mishaps + 1 /\ received' = received
  BY DEF Mishap
<1> QED
  BY <1>1, <1>2 DEF Within

\* The end of a round, marked or not
LEMMA RoundEnds ==
  ASSUME ReportTyped, RepeatInv, loop.at = "sending", NEW n \in Nat, loop' = Idle(n),
         UNCHANGED << received, mishaps >>,
         \A d \in Days : Settled(d) => Settled(d)',
         NEW t \in Days, t = loop.target, Settled(t)' \/ ~loop.sent \/ "db" \notin up
  PROVE  RepeatInv'
<1>1. loop'.at = "idle"
  BY DEF Idle
<1>2. \A d \in Days, c \in Channels : Within(0, d, c)' <=> Within(0, d, c)
  BY DEF Within
<1>3. ASSUME NEW d \in Days, NEW c \in Channels, ~Settled(d)'
      PROVE  Within(0, d, c)
  <2>1. CASE Sending(d)
    <3>1. d = loop.target
      BY <2>1 DEF Sending
    <3>2. ~loop.sent \/ "db" \notin up
      BY <1>3, <3>1
    <3> QED
      BY <3>1, <3>2 DEF RepeatInv
  <2>2. CASE ~Sending(d)
    BY <1>3, <2>2 DEF RepeatInv
  <2> QED
    BY <2>1, <2>2
<1> QED
  BY <1>1, <1>2, <1>3 DEF RepeatInv

\* Every step keeps the account of repetitions.
LEMMA RepeatStep == ReportTyped /\ RepeatInv /\ [ReportNext]_reportVars => RepeatInv'
<1> SUFFICES ASSUME ReportTyped, RepeatInv, [ReportNext]_reportVars PROVE RepeatInv'
  OBVIOUS
<1>t. loop \in Loops /\ loop.target \in Days /\ loop.todo \subseteq Channels
  BY DEF ReportTyped, Loops
<1>1. CASE Begin
  <2>1. /\ loop'.at = "sending" /\ loop'.target = day - 1 /\ day - 1 \in Days
        /\ ~Settled(day - 1) /\ loop.at = "idle" /\ "db" \in up
    BY <1>1, ReportAssumption DEF Begin, ReportTyped, ReportTypeOK, Loops, Days
  <2>2. UNCHANGED << received, mishaps, runs, marked, up >>
    BY <1>1 DEF Begin
  <2>3. \A c \in Channels : Within(0, day - 1, c)
    BY <2>1 DEF RepeatInv, Sending
  <2>4. \A d \in Days : Settled(d)' <=> Settled(d)
    BY <2>2 DEF Settled
  <2>5. \A d \in Days, c \in Channels : Within(0, d, c)' <=> Within(0, d, c)
    BY <2>2 DEF Within
  <2>6. \A c \in Channels : Within(0, loop.target, c)'
    BY <2>1, <2>2, <2>3 DEF Within
  <2> QED
    BY <2>1, <2>2, <2>4, <2>5, <2>6 DEF RepeatInv, Sending
<1>2. ASSUME UNCHANGED << received, mishaps >>, up \subseteq up',
             UNCHANGED << loop, runs >>, marked \subseteq marked'
      PROVE  RepeatInv'
  <2>1. \A d \in Days : Settled(d) => Settled(d)'
    BY <1>2 DEF Settled
  <2> QED
    BY <1>2, <2>1 DEF RepeatInv, Sending, Within
<1>3. CASE Remember
  BY <1>2, <1>3 DEF Remember
<1>4. ASSUME NEW c \in Channels, Skip(c) PROVE RepeatInv'
  <2>1. /\ loop.at = "sending" /\ loop'.at = "sending" /\ loop'.target = loop.target
        /\ loop'.todo \subseteq loop.todo /\ loop'.sent
    BY <1>4, <1>t DEF Skip, Loops
  <2>2. UNCHANGED << received, mishaps, runs, marked, up >>
    BY <1>4 DEF Skip
  <2> QED
    BY <2>1, <2>2 DEF RepeatInv, Sending, Within, Settled
<1>5. ASSUME NEW c \in Channels, SendReport(c) PROVE RepeatInv'
  <2>1. /\ loop.at = "sending" /\ loop'.at = "sending" /\ loop'.target = loop.target
        /\ loop'.todo = loop.todo \ {c} /\ c \in loop.todo
        /\ loop'.sent \/ loop'.sent = loop.sent
    BY <1>5, <1>t DEF SendReport, Loops, Turn
  <2>2. UNCHANGED << runs, marked, up >>
    BY <1>5 DEF SendReport
  <2>3. CASE /\ received' = [received EXCEPT ![<<loop.target, c>>] = @ + 1]
             /\ UNCHANGED mishaps /\ loop'.sent
    <3>1. /\ received'[<<loop.target, c>>] = received[<<loop.target, c>>] + 1
          /\ \A d \in Days, e \in Channels :
               <<d, e>> # <<loop.target, c>> => received'[<<d, e>>] = received[<<d, e>>]
      BY <1>t, <2>1, <2>3 DEF ReportTyped, ReportTypeOK
    <3>2. \A d \in Days, e \in Channels :
            <<d, e>> # <<loop.target, c>> => \A n \in {0, 1} : Within(n, d, e)' <=> Within(n, d, e)
      BY <2>3, <3>1 DEF Within
    <3>3. Within(0, loop.target, c)
      BY <1>t, <2>1 DEF RepeatInv
    <3>4. received'[<<loop.target, c>>] <= 1 + mishaps'
      BY <1>t, <2>3, <3>1, <3>3, CountsAreNumbers DEF Within
    <3>5. "db" \notin up => Within(0, loop.target, c)'
      BY <1>t, <2>1, <2>3, <3>1, CountsAreNumbers DEF RepeatInv, Within
    <3>6. \A d \in Days, e \in Channels : received'[<<d, e>>] <= 1 + mishaps'
      BY <2>3, <3>1, <3>4 DEF RepeatInv
    <3>7. ASSUME NEW d \in Days, NEW e \in Channels, ~Settled(d)', ~Sending(d)'
          PROVE  Within(0, d, e)'
      BY <2>1, <2>2, <3>2, <3>7 DEF RepeatInv, Sending, Settled
    <3>8. ASSUME NEW e \in Channels
          PROVE  /\ e \in loop'.todo => Within(0, loop.target, e)'
                 /\ e \in loop'.todo /\ "db" \notin up => Within(1, loop.target, e)'
                 /\ "db" \notin up => Within(0, loop.target, e)'
      <4>1. CASE e = c
        BY <2>1, <3>5, <4>1
      <4>2. CASE e # c
        BY <1>t, <2>1, <3>2, <4>2 DEF RepeatInv
      <4> QED
        BY <4>1, <4>2
    <3> QED
      BY <2>1, <2>2, <2>3, <3>6, <3>7, <3>8 DEF RepeatInv, Within
  <2>4. CASE Mishap /\ UNCHANGED received /\ loop'.sent = loop.sent
    <3>1. \A d \in Days, e \in Channels :
            /\ received'[<<d, e>>] <= 1 + mishaps'
            /\ Within(0, d, e)'
            /\ Within(0, d, e) => Within(1, d, e)'
      BY <2>4, MishapAllows DEF RepeatInv
    <3> QED
      BY <1>t, <2>1, <2>2, <2>4, <3>1 DEF RepeatInv, Within
  <2> QED
    BY <1>5, <1>t, <2>3, <2>4 DEF SendReport, Loops
<1>6. CASE Note
  <2>1. /\ loop'.at = loop.at /\ loop'.target = loop.target
        /\ loop'.todo = loop.todo /\ loop'.sent = loop.sent
    BY <1>6, <1>t DEF Note, Loops
  <2>2. UNCHANGED << received, mishaps, runs, marked, up >>
    BY <1>6 DEF Note
  <2> QED
    BY <2>1, <2>2 DEF RepeatInv, Sending, Within, Settled
<1>7. ASSUME NEW s \in {"sent", "partial", "failed"}, Mark(loop.target, s), UNCHANGED up
      PROVE  /\ \A d \in Days : Settled(d) => Settled(d)'
             /\ \A t \in Days : t = loop.target => Settled(t)' \/ "db" \notin up
  <2>1. runs \in [Days -> {"none", "sent", "partial", "failed"}]
    BY DEF ReportTyped, ReportTypeOK
  <2> QED
    BY <1>7, <1>t, <2>1 DEF Mark, Settled
<1>8. CASE Success
  BY <1>7, <1>8, <1>t, RoundEnds DEF Success, Finished
<1>9. CASE Retry
  <2>1. loop.retries + 1 \in Nat
    BY <1>t, ReportAssumption DEF Loops
  <2>2. \A d \in Days : Settled(d) => Settled(d)'
    BY <1>9 DEF Retry, Settled
  <2> QED
    BY <1>9, <1>t, <2>1, <2>2, RoundEnds DEF Retry, Finished, Served
<1>10. CASE GiveUpReport
  BY <1>7, <1>10, <1>t, RoundEnds DEF GiveUpReport, Finished
<1>11. CASE ClockMoves
  BY <1>2, <1>11 DEF ClockMoves
<1>12. ASSUME NEW s \in {"redis", "db"}, Fail(s) PROVE RepeatInv'
  <2>1. Mishap /\ UNCHANGED << loop, received, runs, marked >>
    BY <1>12 DEF Fail
  <2>2. \A d \in Days, c \in Channels : Within(0, d, c)'
    BY <2>1, MishapAllows DEF RepeatInv
  <2>3. ASSUME loop.at = "sending", NEW c \in loop.todo PROVE Within(1, loop.target, c)'
    BY <1>t, <2>1, <2>3, MishapAllows DEF RepeatInv
  <2>4. \A d \in Days, c \in Channels : received'[<<d, c>>] <= 1 + mishaps'
    BY <2>1, MishapAllows DEF RepeatInv
  <2> QED
    BY <1>t, <2>1, <2>2, <2>3, <2>4 DEF RepeatInv
<1>13. ASSUME NEW s \in {"redis", "db"}, Return(s) PROVE RepeatInv'
  BY <1>2, <1>13 DEF Return
<1>14. CASE Restart
  <2>1. Mishap /\ UNCHANGED received /\ loop'.at = "idle"
    BY <1>14 DEF Restart, Idle
  <2>2. \A d \in Days, c \in Channels : Within(0, d, c)'
    BY <2>1, MishapAllows DEF RepeatInv
  <2>3. \A d \in Days, c \in Channels : received'[<<d, c>>] <= 1 + mishaps'
    BY <2>1, MishapAllows DEF RepeatInv
  <2> QED
    BY <2>1, <2>2, <2>3 DEF RepeatInv
<1>15. CASE UNCHANGED reportVars
  BY <1>2, <1>15 DEF reportVars
<1> QED
  BY <1>1, <1>3, <1>4, <1>5, <1>6, <1>8, <1>9, <1>10, <1>11, <1>12, <1>13, <1>14, <1>15
  DEF ReportNext

\* Nobody gets the report of a day again without a failed service or a restart, for
\* any number of recipients, days, retries and mishaps.
THEOREM RepeatsAreExplained == ReportSpec => []RepeatsHaveCause
<1>1. ReportInit => ReportTyped /\ RepeatInv
  BY ReportInitTyped, ReportAssumption DEF ReportInit, RepeatInv, Within, Idle
<1>2. ReportSpec => [](ReportTyped /\ RepeatInv)
  BY <1>1, ReportTypedStep, RepeatStep, PTL DEF ReportSpec
<1>3. RepeatInv => RepeatsHaveCause
  BY DEF RepeatInv, RepeatsHaveCause
<1> QED
  BY <1>2, <1>3, PTL
-----------------------------------------------------------------------------
(***************************************************************************)
(* The parts together (MCTasks).                                           *)
(***************************************************************************)

\* What runs by the clock does in each part only what that part allows: what is proved of a
\* part holds of all of them together.
THEOREM TasksImplementParts == TasksSpec => Spec /\ ReportSpec /\ FlagsSpec
<1>1. TasksInit => Init /\ ReportInit /\ FlagsInit
  BY DEF TasksInit
<1>2. [TasksNext]_taskVars => [Next]_vars /\ [ReportNext]_reportVars /\ [FlagsNext]_flagVars
  BY DEF TasksNext, taskVars
<1> QED
  BY <1>1, <1>2, PTL DEF TasksSpec, Spec, ReportSpec, FlagsSpec

\* Every value of the guard, of the daily report and of the switches is of its type in every
\* state of the parts together.
THEOREM TasksTypes == TasksSpec => []TasksTypeOK
<1>1. TypeOK /\ ReportTypeOK /\ FlagsTypeOK => TasksTypeOK
  BY DEF TasksTypeOK
<1> QED
  BY <1>1, TasksImplementParts, TypeCorrect, ReportTypes, FlagsTypes, PTL
=============================================================================
