--------------------------- MODULE StateDispenser ---------------------------
(***************************************************************************)
(* The dialogue state of every user of the VK bot: one record in Redis,    *)
(* and in the memory of a process that cannot reach Redis.  A state found  *)
(* in Redis hides the one in memory.  Both expire; the clock is left out,  *)
(* so a record may expire at any time, in memory the oldest one first.     *)
(***************************************************************************)
EXTENDS Naturals, Sequences

CONSTANTS
  Users,          \* peer ids
  Processes,      \* the bot and the workers of the web panel
  MemoryMax       \* MEMORY_MAX_ENTRIES: states one process remembers

ASSUME MemoryMaxAssumption == MemoryMax \in Nat \ {0}

VARIABLES
  reaches,        \* [Processes -> BOOLEAN]: a command of it to Redis succeeds
  shared,         \* [Users -> state]: the records bot:state:<peer_id>
  memory          \* [Processes -> sequence of <<user, state>>], oldest first

storeVars == << reaches, shared, memory >>

(* A state carries the payload the handlers put there: the description     *)
(* ("draft", 0 for none) and the ticket an operator answers (0 for none).  *)
State(at, draft, ticket) == [at |-> at, draft |-> draft, ticket |-> ticket]
Nothing == State("none", 0, 0)

(* A process remembers one state of a user.                                *)
PlacesOf(entries, u) == {n \in DOMAIN entries : entries[n][1] = u}
Without(entries, n) == SubSeq(entries, 1, n - 1) \o SubSeq(entries, n + 1, Len(entries))
Others(entries, u) ==
  IF PlacesOf(entries, u) = {} THEN entries
  ELSE Without(entries, CHOOSE n \in PlacesOf(entries, u) : TRUE)
Found(entries, u) ==
  IF PlacesOf(entries, u) = {} THEN Nothing
  ELSE entries[CHOOSE n \in PlacesOf(entries, u) : TRUE][2]
Remembered(p, u) == Found(memory[p], u)

(* A write renews the deadline; over the limit the entry nearest to its    *)
(* deadline goes.                                                          *)
Remember(entries, u, s) ==
  LET now == Append(Others(entries, u), << u, s >>)
  IN  IF Len(now) > MemoryMax THEN Tail(now) ELSE now

Get(p, u) ==
  IF reaches[p] /\ shared[u] # Nothing THEN shared[u] ELSE Remembered(p, u)

\* Variant with a defect: a state that is in Redis is kept.
PutOnce(p, u, s) ==
  /\ shared' = IF reaches[p] /\ shared[u] = Nothing THEN [shared EXCEPT ![u] = s]
               ELSE shared
  /\ memory' = IF reaches[p] THEN memory
               ELSE [memory EXCEPT ![p] = Remember(@, u, s)]
  /\ UNCHANGED reaches

Put(p, u, s) ==
  /\ shared' = IF reaches[p] THEN [shared EXCEPT ![u] = s] ELSE shared
  /\ memory' = IF reaches[p] THEN memory
               ELSE [memory EXCEPT ![p] = Remember(@, u, s)]
  /\ UNCHANGED reaches

\* Variant with a defect: only the memory of the process is emptied.
DeleteLocal(p, u) ==
  /\ memory' = [memory EXCEPT ![p] = Others(@, u)]
  /\ UNCHANGED << reaches, shared >>

Delete(p, u) ==
  /\ shared' = IF reaches[p] THEN [shared EXCEPT ![u] = Nothing] ELSE shared
  /\ memory' = [memory EXCEPT ![p] = Others(@, u)]
  /\ UNCHANGED reaches

(* The record of a user expires in Redis.                                  *)
ExpireShared(u) ==
  /\ shared[u] # Nothing
  /\ shared' = [shared EXCEPT ![u] = Nothing]
  /\ UNCHANGED << reaches, memory >>

(* cleanup_expired_states, or a read that finds the deadline passed.       *)
ExpireMemory(p) ==
  /\ memory[p] # << >>
  /\ memory' = [memory EXCEPT ![p] = Tail(@)]
  /\ UNCHANGED << reaches, shared >>
=============================================================================
