--------------------------- MODULE TicketsProofs ---------------------------
(***************************************************************************)
(* Theorems about module Tickets, for any number of tickets, students,     *)
(* departments and concurrent transactions.                                *)
(***************************************************************************)
EXTENDS Tickets, TLAPS

\* Row locks do what they are for: who works on a row is alone with it and still
\* sees what it read; an erasure holds rows of its student only.
LocksInv ==
  /\ \A c \in Clerks : job[c] # Idle =>
       /\ job[c].id \in rows
       /\ ~LockedByErasure(job[c].id)
       /\ job[c].seen = status[job[c].id]
  /\ \A c, d \in Clerks : c # d /\ job[c] # Idle /\ job[d] # Idle => job[c].id # job[d].id
  /\ \A u \in Users : \A t \in erasure[u].mine : t \in rows /\ owner[t] = u

\* What was checked under the lock is still so.
ChecksInv ==
  \A c \in Clerks : job[c] # Idle =>
    /\ job[c].task.op = "change" =>
         \/ job[c].task.arg = job[c].seen
         \/ job[c].task.arg \in ALLOWED_TRANSITIONS[job[c].seen]
    /\ job[c].task.op = "followUp" => owner[job[c].id] = job[c].task.arg

\* Only its owner speaks in a ticket, and an erasure has seen every message in
\* the tickets it holds.
AuthorsInv ==
  /\ \A t \in rows : owner[t] # Nobody => authors[t] \subseteq {owner[t]}
  /\ \A u \in Users : \A t \in erasure[u].mine :
       erasure[u].step = "messages" /\ u \in authors[t] => t \in erasure[u].spoken

IInv == TypeOK /\ LocksInv /\ ChecksInv /\ AuthorsInv /\ AnonymousHidesAuthor /\ OwnersExist

-----------------------------------------------------------------------------
(* Types.                                                                  *)

\* What the argument of a task is.
LEMMA TaskArguments ==
  ASSUME NEW task \in Tasks
  PROVE  /\ task.op = "change" => task.arg \in Statuses
         /\ task.op = "assign" => task.arg \in Departments
         /\ task.op = "followUp" => task.arg \in Users
  BY DEF Tasks

\* A commit writes one of the statuses.
LEMMA StatusAfterIsStatus ==
  ASSUME NEW task \in Tasks, NEW seen \in Statuses
  PROVE  StatusAfter(task, seen) \in Statuses
<1>1. task.op \in {"reply", "replyAndComplete", "community", "change", "assign", "followUp"}
  BY DEF Tasks
<1> QED
  BY <1>1, TaskArguments DEF StatusAfter, Statuses

\* The types hold at the start.
LEMMA InitTypes == Init => TypeOK
  BY DEF Init, TypeOK, Statuses, Erasures, NoErasure

\* Every step keeps the types.
LEMMA StepTypes == TypeOK /\ [Next]_vars => TypeOK'
<1> SUFFICES ASSUME TypeOK, [Next]_vars PROVE TypeOK'
  OBVIOUS
<1> USE DEF TypeOK
<1>1. ASSUME NEW t \in TicketIds, NEW o \in Users \cup {Nobody}, NEW sa \in SUBSET Users,
             Insert(t, o, sa)
      PROVE  /\ used' \in SUBSET TicketIds /\ rows' \in SUBSET used'
             /\ owner' \in [TicketIds -> Users \cup {Nobody}]
             /\ anon' \in [TicketIds -> BOOLEAN]
             /\ dept' \in [TicketIds -> Departments \cup {Unassigned}]
             /\ authors' \in [TicketIds -> SUBSET Users]
             /\ UNCHANGED <<status, job, erasure>>
  BY <1>1 DEF Insert, ConsumeId
<1>2. ASSUME NEW u \in Users, FindUser(u) PROVE TypeOK'
  BY <1>2 DEF FindUser, ticket
<1>3. ASSUME NEW u \in Users, Create(u) PROVE TypeOK'
  BY <1>1, <1>3 DEF Create
<1>4. ASSUME NEW u \in Users, CreateFails(u) PROVE TypeOK'
  BY <1>4 DEF CreateFails, ticket
<1>5. CASE CreateAnonymous
  BY <1>1, <1>5 DEF CreateAnonymous
<1>6. ASSUME NEW c \in Clerks, NEW t \in TicketIds, NEW task \in Tasks, Begin(c, t, task)
      PROVE  TypeOK'
  BY <1>6 DEF Begin, Jobs, ticket
<1>7. ASSUME NEW c \in Clerks, Commit(c) PROVE TypeOK'
  <2>1. job[c] \in Jobs
    BY <1>7 DEF Commit
  <2>2. job[c].task \in Tasks /\ job[c].id \in TicketIds /\ job[c].seen \in Statuses
    BY <2>1 DEF Jobs
  <2>3. status' \in [TicketIds -> Statuses]
    BY <1>7, <2>2, StatusAfterIsStatus DEF Commit
  <2>4. dept' \in [TicketIds -> Departments \cup {Unassigned}]
    BY <1>7, <2>2, TaskArguments DEF Commit
  <2>5. authors' \in [TicketIds -> SUBSET Users]
    BY <1>7, <2>2, TaskArguments DEF Commit
  <2> QED
    BY <1>7, <2>3, <2>4, <2>5 DEF Commit
<1>8. ASSUME NEW c \in Clerks, Rollback(c) PROVE TypeOK'
  BY <1>8 DEF Rollback, ticket
<1>9. ASSUME NEW u \in Users, NEW step \in {"none", "tickets", "messages"},
             NEW mine \in SUBSET TicketIds, NEW spoken \in SUBSET TicketIds,
             EraseStep(u, step, mine, spoken)
      PROVE  erasure' \in [Users -> Erasures]
  BY <1>9 DEF EraseStep, Erasures
<1>10. ASSUME NEW u \in Users, EraseTickets(u) PROVE TypeOK'
  <2>1. {t \in rows : owner[t] = u} \in SUBSET TicketIds
    OBVIOUS
  <2> QED
    BY <1>9, <1>10, <2>1, SMTT(30) DEF EraseTickets, ticket
<1>11. ASSUME NEW u \in Users, EraseMessages(u) PROVE TypeOK'
  <2>1. {t \in rows : u \in authors[t]} \in SUBSET TicketIds
    OBVIOUS
  <2>2. erasure[u].mine \in SUBSET TicketIds
    BY DEF Erasures
  <2> QED
    BY <1>9, <1>11, <2>1, <2>2 DEF EraseMessages, ticket
<1>12. ASSUME NEW u \in Users, EraseUser(u) PROVE TypeOK'
  <2>1. erasure' \in [Users -> Erasures]
    <3>1. EraseStep(u, "none", {}, {})
      BY <1>12 DEF EraseUser
    <3>2. [step |-> "none", mine |-> {}, spoken |-> {}] \in Erasures
      BY DEF Erasures
    <3> QED
      BY <3>1, <3>2 DEF EraseStep
  <2>2. /\ owner' \in [TicketIds -> Users \cup {Nobody}]
        /\ anon' \in [TicketIds -> BOOLEAN]
        /\ authors' \in [TicketIds -> SUBSET Users]
    BY <1>12 DEF EraseUser
  <2> QED
    BY <1>12, <2>1, <2>2 DEF EraseUser
<1>13. ASSUME NEW u \in Users, EraseRollback(u) PROVE TypeOK'
  BY <1>9, <1>13 DEF EraseRollback, ticket
<1>14. CASE UNCHANGED vars
  BY <1>14 DEF vars, ticket
<1> QED
  BY <1>2, <1>3, <1>4, <1>5, <1>6, <1>7, <1>8, <1>10, <1>11, <1>12, <1>13, <1>14 DEF Next

\* Every variable keeps its type, whatever students, administrators and erasures
\* interleave.
THEOREM TypeCorrect == Spec => []TypeOK
  BY InitTypes, StepTypes, PTL DEF Spec

-----------------------------------------------------------------------------
(* Locks.                                                                  *)

\* Nothing is locked at the start.
LEMMA InitLocks == Init => LocksInv
  BY DEF Init, LocksInv, NoErasure

\* A new row is locked by nobody, and leaves the others as they are.
LEMMA InsertEffect ==
  ASSUME TypeOK, NEW t \in TicketIds, NEW o, NEW sa, Insert(t, o, sa)
  PROVE  /\ t \notin rows
         /\ rows' = rows \cup {t}
         /\ \A k \in TicketIds \ {t} :
              owner'[k] = owner[k] /\ anon'[k] = anon[k] /\ authors'[k] = authors[k]
         /\ owner'[t] = o /\ anon'[t] = (o = Nobody) /\ authors'[t] = sa
         /\ UNCHANGED <<status, job, erasure>>
  BY DEF Insert, NextId, TypeOK

\* The fields of the job in a slot.
LEMMA JobFields ==
  ASSUME TypeOK, NEW c \in Clerks, job[c] # Idle
  PROVE  job[c] \in Jobs /\ job[c].task \in Tasks /\ job[c].id \in TicketIds /\ job[c].seen \in Statuses
<1>1. job[c] \in Jobs
  BY DEF TypeOK
<1> QED
  BY <1>1 DEF Jobs

\* Every step keeps the locks, what is seen under them, and what they cover.
LEMMA StepLocks == TypeOK /\ LocksInv /\ [Next]_vars => LocksInv'
<1> SUFFICES ASSUME TypeOK, LocksInv, [Next]_vars PROVE LocksInv'
  OBVIOUS
<1>1. ASSUME NEW t \in TicketIds, NEW o, NEW sa, Insert(t, o, sa) PROVE LocksInv'
  <2>1. \A u \in Users : erasure[u].mine \subseteq TicketIds
    BY DEF TypeOK, Erasures
  <2> QED
    BY <1>1, <2>1, InsertEffect DEF LocksInv, LockedByErasure
<1>2. ASSUME NEW u \in Users, FindUser(u) \/ CreateFails(u) PROVE LocksInv'
  BY <1>2 DEF FindUser, CreateFails, ticket, LocksInv, LockedByErasure
<1>3. ASSUME NEW c \in Clerks, NEW t \in TicketIds, NEW task \in Tasks, Begin(c, t, task)
      PROVE  LocksInv'
  <2> DEFINE new == [task |-> task, id |-> t, seen |-> status[t]]
  <2>1. job'[c] = new /\ \A d \in Clerks \ {c} : job'[d] = job[d]
    BY <1>3 DEF Begin, TypeOK
  <2>2. t \in rows /\ Free(t) /\ UNCHANGED <<rows, status, owner, erasure>>
    BY <1>3 DEF Begin, ticket
  <2>3. ~LockedByErasure(t) /\ \A d \in Clerks : job[d] # Idle => job[d].id # t
    BY <2>2 DEF Free, LockedByJob
  <2>4. new.id = t /\ new.seen = status[t]
    OBVIOUS
  <2>5. \A d \in Clerks : job'[d] # Idle =>
          /\ job'[d].id \in rows'
          /\ ~LockedByErasure(job'[d].id)
          /\ job'[d].seen = status'[job'[d].id]
    BY <2>1, <2>2, <2>3, <2>4 DEF LocksInv
  <2>6. \A d, e \in Clerks : d # e /\ job'[d] # Idle /\ job'[e] # Idle => job'[d].id # job'[e].id
    BY <2>1, <2>3, <2>4 DEF LocksInv
  <2> QED
    BY <2>2, <2>5, <2>6 DEF LocksInv, LockedByErasure
<1>4. ASSUME NEW c \in Clerks, Commit(c) \/ Rollback(c) PROVE LocksInv'
  <2>1. job[c] # Idle /\ job'[c] = Idle /\ \A d \in Clerks \ {c} : job'[d] = job[d]
    BY <1>4 DEF Commit, Rollback, TypeOK
  <2>2. UNCHANGED <<rows, owner, erasure>>
    BY <1>4 DEF Commit, Rollback, ticket
  <2>3. \A k \in TicketIds : k # job[c].id => status'[k] = status[k]
    BY <1>4 DEF Commit, Rollback, ticket, TypeOK
  <2>4. \A d \in Clerks : job[d] # Idle => job[d].id \in TicketIds
    BY JobFields
  <2> QED
    BY <2>1, <2>2, <2>3, <2>4 DEF LocksInv, LockedByErasure
<1>5. ASSUME NEW u \in Users, NEW step, NEW mine, NEW spoken, EraseStep(u, step, mine, spoken)
      PROVE  /\ erasure'[u].mine = mine
             /\ \A v \in Users \ {u} : erasure'[v] = erasure[v]
  BY <1>5 DEF EraseStep, TypeOK
<1>6. ASSUME NEW u \in Users, EraseTickets(u) PROVE LocksInv'
  <2> DEFINE all == {t \in rows : owner[t] = u}
  <2>1. EraseStep(u, "tickets", all, {}) /\ UNCHANGED <<rows, status, owner, job>>
    BY <1>6 DEF EraseTickets, ticket
  <2>2. erasure'[u].mine = all /\ \A v \in Users \ {u} : erasure'[v] = erasure[v]
    BY <1>5, <2>1
  <2>3. \A t \in all : ~LockedByJob(t)
    BY <1>6 DEF EraseTickets, Free
  <2>4. \A c \in Clerks : job[c] # Idle => job[c].id \notin all
    BY <2>3 DEF LockedByJob
  <2> QED
    BY <2>1, <2>2, <2>4 DEF LocksInv, LockedByErasure
<1>7. ASSUME NEW u \in Users, EraseMessages(u) PROVE LocksInv'
  <2>1. erasure'[u].mine = erasure[u].mine /\ \A v \in Users \ {u} : erasure'[v] = erasure[v]
    BY <1>5, <1>7 DEF EraseMessages
  <2>2. UNCHANGED <<rows, status, owner, job>>
    BY <1>7 DEF EraseMessages, ticket
  <2> QED
    BY <2>1, <2>2 DEF LocksInv, LockedByErasure
<1>8. ASSUME NEW u \in Users, EraseUser(u) \/ EraseRollback(u) PROVE LocksInv'
  <2>1. EraseStep(u, "none", {}, {}) /\ UNCHANGED <<rows, status, job>>
    BY <1>8 DEF EraseUser, EraseRollback, ticket
  <2>2. erasure'[u].mine = {} /\ \A v \in Users \ {u} : erasure'[v] = erasure[v]
    BY <1>5, <2>1
  <2>3. \A t \in TicketIds : owner[t] \in Users \ {u} => owner'[t] = owner[t] \/ t \in erasure[u].mine
    BY <1>8 DEF EraseUser, EraseRollback, ticket, Late
  <2>4. \A v \in Users \ {u} : \A t \in erasure[v].mine : t \in rows /\ owner'[t] = v
    <3> SUFFICES ASSUME NEW v \in Users \ {u}, NEW t \in erasure[v].mine
                 PROVE  t \in rows /\ owner'[t] = v
      OBVIOUS
    <3>1. t \in rows /\ t \in TicketIds /\ owner[t] = v
      BY DEF LocksInv, TypeOK
    <3>2. t \notin erasure[u].mine
      BY <3>1 DEF LocksInv
    <3> QED
      BY <2>3, <3>1, <3>2
  <2> QED
    BY <2>1, <2>2, <2>4 DEF LocksInv, LockedByErasure
<1>9. CASE UNCHANGED vars
  BY <1>9 DEF vars, ticket, LocksInv, LockedByErasure
<1> QED
  BY <1>1, <1>2, <1>3, <1>4, <1>6, <1>7, <1>8, <1>9 DEF Next, Create, CreateAnonymous

-----------------------------------------------------------------------------
(* Checks made under the lock.                                             *)

\* Nothing is checked at the start.
LEMMA InitChecks == Init => ChecksInv
  BY DEF Init, ChecksInv

\* No step takes away what somebody has checked under a lock.
LEMMA StepChecks == TypeOK /\ LocksInv /\ ChecksInv /\ [Next]_vars => ChecksInv'
<1> SUFFICES ASSUME TypeOK, LocksInv, ChecksInv, [Next]_vars PROVE ChecksInv'
  OBVIOUS
<1>1. ASSUME UNCHANGED job,
             \A c \in Clerks : job[c] # Idle => owner'[job[c].id] = owner[job[c].id]
      PROVE  ChecksInv'
  BY <1>1 DEF ChecksInv
<1>2. ASSUME NEW t \in TicketIds, NEW o, NEW sa, Insert(t, o, sa) PROVE ChecksInv'
  <2>1. \A c \in Clerks : job[c] # Idle => job[c].id \in TicketIds \ {t}
    BY <1>2, InsertEffect, JobFields DEF LocksInv
  <2> QED
    BY <1>1, <1>2, <2>1, InsertEffect
<1>3. ASSUME NEW c \in Clerks, NEW t \in TicketIds, NEW task \in Tasks, Begin(c, t, task)
      PROVE  ChecksInv'
  <2> DEFINE new == [task |-> task, id |-> t, seen |-> status[t]]
  <2>1. job'[c] = new /\ \A d \in Clerks \ {c} : job'[d] = job[d]
    BY <1>3 DEF Begin, TypeOK
  <2>2. owner' = owner /\ MayDo(task, t)
    BY <1>3 DEF Begin, ticket
  <2>3. new.task = task /\ new.id = t /\ new.seen = status[t]
    OBVIOUS
  <2>4. /\ task.op = "change" => task.arg = status[t] \/ task.arg \in ALLOWED_TRANSITIONS[status[t]]
        /\ task.op = "followUp" => owner[t] = task.arg
    BY <2>2 DEF MayDo
  <2> QED
    BY <2>1, <2>2, <2>3, <2>4 DEF ChecksInv
<1>4. ASSUME NEW c \in Clerks, Commit(c) \/ Rollback(c) PROVE ChecksInv'
  <2>1. job'[c] = Idle /\ \A d \in Clerks \ {c} : job'[d] = job[d]
    BY <1>4 DEF Commit, Rollback, TypeOK
  <2>2. owner' = owner
    BY <1>4 DEF Commit, Rollback, ticket
  <2> QED
    BY <2>1, <2>2 DEF ChecksInv
<1>5. ASSUME NEW u \in Users, EraseUser(u) PROVE ChecksInv'
  <2> SUFFICES ASSUME NEW c \in Clerks, job[c] # Idle
               PROVE  owner'[job[c].id] = owner[job[c].id]
    BY <1>1, <1>5 DEF EraseUser
  <2>1. job[c].id \in TicketIds
    BY JobFields
  <2>2. job[c].id \notin erasure[u].mine
    BY DEF LocksInv, LockedByErasure
  <2>3. job[c].id \notin Late(u)
    BY <1>5 DEF EraseUser, Free, LockedByJob
  <2> QED
    BY <1>5, <2>1, <2>2, <2>3 DEF EraseUser
<1>6. CASE UNCHANGED vars
  BY <1>1, <1>6 DEF vars, ticket
<1>7. ASSUME NEW u \in Users,
             FindUser(u) \/ CreateFails(u) \/ EraseTickets(u) \/ EraseMessages(u) \/ EraseRollback(u)
      PROVE  ChecksInv'
  BY <1>1, <1>7 DEF FindUser, CreateFails, EraseTickets, EraseMessages, EraseRollback, ticket
<1> QED
  BY <1>2, <1>3, <1>4, <1>5, <1>6, <1>7 DEF Next, Create, CreateAnonymous

-----------------------------------------------------------------------------
(* Who speaks in a ticket.                                                 *)

\* There is no ticket at the start.
LEMMA InitAuthors == Init => AuthorsInv
  BY DEF Init, AuthorsInv, NoErasure

\* What a commit does to the authors of its ticket, and of the others.
LEMMA CommitEffect ==
  ASSUME TypeOK, LocksInv, ChecksInv, NEW c \in Clerks, Commit(c)
  PROVE  /\ UNCHANGED <<rows, users, owner, anon, erasure>>
         /\ job[c].id \in rows
         /\ \A t \in TicketIds \ {job[c].id} : authors'[t] = authors[t]
         /\ \/ authors'[job[c].id] = authors[job[c].id]
            \/ /\ owner[job[c].id] # Nobody
               /\ authors'[job[c].id] = authors[job[c].id] \cup {owner[job[c].id]}
         /\ ~LockedByErasure(job[c].id)
<1>1. job[c] # Idle
  BY DEF Commit
<1>2. job[c].id \in rows /\ job[c].id \in TicketIds /\ ~LockedByErasure(job[c].id)
  BY <1>1, JobFields DEF LocksInv
<1>3. UNCHANGED <<rows, users, owner, anon, erasure>>
  BY DEF Commit
<1>4. CASE job[c].task.op = "followUp"
  <2>1. owner[job[c].id] = job[c].task.arg /\ job[c].task.arg \in Users
    BY <1>1, <1>4, JobFields, TaskArguments DEF ChecksInv
  <2>2. authors' = [authors EXCEPT ![job[c].id] = @ \cup {job[c].task.arg}]
    BY <1>4 DEF Commit
  <2> QED
    BY <1>2, <1>3, <2>1, <2>2, TicketsAssumption DEF TypeOK
<1>5. CASE job[c].task.op # "followUp"
  BY <1>2, <1>3, <1>5 DEF Commit
<1> QED
  BY <1>4, <1>5

\* What the last statement of an erasure does to rows.
LEMMA EraseUserEffect ==
  ASSUME TypeOK, NEW u \in Users, EraseUser(u)
  PROVE  /\ UNCHANGED <<rows, status, job>>
         /\ users' = users \ {u}
         /\ erasure'[u].mine = {}
         /\ \A v \in Users \ {u} : erasure'[v] = erasure[v]
         /\ \A t \in TicketIds :
              /\ owner'[t] = IF t \in erasure[u].mine \cup Late(u) THEN Nobody ELSE owner[t]
              /\ anon'[t] = (anon[t] \/ t \in erasure[u].mine)
              /\ authors'[t] = IF t \in erasure[u].spoken THEN authors[t] \ {u} ELSE authors[t]
<1>1. EraseStep(u, "none", {}, {})
  BY DEF EraseUser
<1>2. erasure'[u].mine = {} /\ \A v \in Users \ {u} : erasure'[v] = erasure[v]
  BY <1>1 DEF EraseStep, TypeOK
<1> QED
  BY <1>2 DEF EraseUser

\* Every step keeps owners the only authors, and erasures informed of them.
LEMMA StepAuthors == TypeOK /\ LocksInv /\ ChecksInv /\ AuthorsInv /\ [Next]_vars => AuthorsInv'
<1> SUFFICES ASSUME TypeOK, LocksInv, ChecksInv, AuthorsInv, [Next]_vars PROVE AuthorsInv'
  OBVIOUS
<1>1. \A u \in Users : erasure[u].mine \subseteq rows /\ rows \subseteq TicketIds
  BY DEF LocksInv, TypeOK
<1>2. ASSUME NEW t \in TicketIds, NEW o, NEW sa, Insert(t, o, sa), o # Nobody => sa \subseteq {o}
      PROVE  AuthorsInv'
  <2>1. /\ t \notin rows /\ rows' = rows \cup {t} /\ erasure' = erasure
        /\ owner'[t] = o /\ authors'[t] = sa
        /\ \A k \in rows : owner'[k] = owner[k] /\ authors'[k] = authors[k]
    BY <1>1, <1>2, InsertEffect DEF TypeOK
  <2>2. \A k \in rows' : owner'[k] # Nobody => authors'[k] \subseteq {owner'[k]}
    BY <1>2, <2>1 DEF AuthorsInv
  <2>3. \A u \in Users : \A k \in erasure[u].mine : authors'[k] = authors[k]
    BY <1>1, <2>1
  <2> QED
    BY <2>1, <2>2, <2>3 DEF AuthorsInv
<1>3. ASSUME NEW u \in Users, Create(u) PROVE AuthorsInv'
  BY <1>2, <1>3 DEF Create
<1>4. CASE CreateAnonymous
  BY <1>2, <1>4 DEF CreateAnonymous
<1>5. ASSUME UNCHANGED <<rows, owner, authors, erasure>> PROVE AuthorsInv'
  BY <1>5 DEF AuthorsInv
<1>6. ASSUME NEW c \in Clerks, Commit(c) PROVE AuthorsInv'
  <2>1. /\ UNCHANGED <<rows, owner, erasure>>
        /\ \A t \in TicketIds \ {job[c].id} : authors'[t] = authors[t]
        /\ \A u \in Users : job[c].id \notin erasure[u].mine
    BY <1>6, CommitEffect DEF LockedByErasure
  <2>2. \/ authors'[job[c].id] = authors[job[c].id]
        \/ authors'[job[c].id] = authors[job[c].id] \cup {owner[job[c].id]}
    BY <1>6, CommitEffect
  <2>3. \A t \in rows : owner[t] # Nobody => authors'[t] \subseteq {owner[t]}
    BY <1>1, <2>1, <2>2 DEF AuthorsInv, TypeOK
  <2>4. \A u \in Users : \A t \in erasure[u].mine : authors'[t] = authors[t]
    BY <1>1, <2>1
  <2> QED
    BY <2>1, <2>3, <2>4 DEF AuthorsInv
<1>7. ASSUME NEW u \in Users, EraseTickets(u) \/ EraseRollback(u) PROVE AuthorsInv'
  <2>1. \E step \in {"tickets", "none"} : \E mine, spoken : EraseStep(u, step, mine, spoken)
    BY <1>7 DEF EraseTickets, EraseRollback
  <2>2. erasure'[u].step # "messages" /\ \A v \in Users \ {u} : erasure'[v] = erasure[v]
    BY <2>1 DEF EraseStep, TypeOK
  <2>3. UNCHANGED <<rows, owner, authors>>
    BY <1>7 DEF EraseTickets, EraseRollback, ticket
  <2> QED
    BY <2>2, <2>3 DEF AuthorsInv
<1>8. ASSUME NEW u \in Users, EraseMessages(u) PROVE AuthorsInv'
  <2>1. /\ erasure'[u].mine = erasure[u].mine
        /\ erasure'[u].spoken = {t \in rows : u \in authors[t]}
        /\ \A v \in Users \ {u} : erasure'[v] = erasure[v]
    BY <1>8 DEF EraseMessages, EraseStep, TypeOK
  <2>2. UNCHANGED <<rows, owner, authors>>
    BY <1>8 DEF EraseMessages, ticket
  <2> QED
    BY <1>1, <2>1, <2>2 DEF AuthorsInv
<1>9. ASSUME NEW u \in Users, EraseUser(u) PROVE AuthorsInv'
  <2>1. /\ rows' = rows /\ erasure'[u].mine = {}
        /\ \A v \in Users \ {u} : erasure'[v] = erasure[v]
        /\ \A t \in rows :
             /\ owner'[t] = owner[t] \/ owner'[t] = Nobody
             /\ authors'[t] = authors[t] \/ authors'[t] = authors[t] \ {u}
    BY <1>9, EraseUserEffect DEF TypeOK
  <2>2. ASSUME NEW t \in rows, owner'[t] # Nobody
        PROVE  authors'[t] \subseteq {owner'[t]}
    <3>1. owner'[t] = owner[t] /\ \A a \in authors'[t] : a \in authors[t]
      BY <2>1, <2>2
    <3>2. authors[t] \subseteq {owner[t]}
      BY <2>2, <3>1 DEF AuthorsInv
    <3> QED
      BY <3>1, <3>2
  <2>3. \A v \in Users \ {u} : \A t \in erasure[v].mine : v \in authors'[t] => v \in authors[t]
    BY <1>1, <2>1
  <2>4. ASSUME NEW v \in Users, NEW t \in erasure'[v].mine,
               erasure'[v].step = "messages", v \in authors'[t]
        PROVE  t \in erasure'[v].spoken
    <3>1. v # u
      BY <2>1, <2>4
    <3>2. erasure'[v] = erasure[v]
      BY <2>1, <3>1
    <3> QED
      BY <2>3, <2>4, <3>1, <3>2 DEF AuthorsInv
  <2> QED
    BY <2>1, <2>2, <2>4 DEF AuthorsInv
<1> QED
  BY <1>3, <1>4, <1>5, <1>6, <1>7, <1>8, <1>9
  DEF Next, FindUser, CreateFails, Begin, Rollback, ticket, vars

-----------------------------------------------------------------------------
(* What the tickets show and whom they belong to.                          *)

\* There is no ticket at the start.
LEMMA InitTickets == Init => AnonymousHidesAuthor /\ OwnersExist
  BY DEF Init, AnonymousHidesAuthor, OwnersExist

\* Every step keeps anonymous tickets anonymous: a follow-up is written into a
\* ticket of its author only, and an erasure has seen every message it must clear.
LEMMA StepAnonymous ==
  TypeOK /\ LocksInv /\ ChecksInv /\ AuthorsInv /\ AnonymousHidesAuthor /\ [Next]_vars
    => AnonymousHidesAuthor'
<1> SUFFICES ASSUME TypeOK, LocksInv, ChecksInv, AuthorsInv, AnonymousHidesAuthor, [Next]_vars
             PROVE  AnonymousHidesAuthor'
  OBVIOUS
<1>1. rows \subseteq TicketIds
  BY DEF TypeOK
<1>2. ASSUME NEW t \in TicketIds, NEW o, NEW sa, Insert(t, o, sa), o = Nobody => sa = {}
      PROVE  AnonymousHidesAuthor'
  <2>1. /\ rows' = rows \cup {t} /\ t \notin rows
        /\ owner'[t] = o /\ anon'[t] = (o = Nobody) /\ authors'[t] = sa
        /\ \A k \in rows : owner'[k] = owner[k] /\ anon'[k] = anon[k] /\ authors'[k] = authors[k]
    BY <1>1, <1>2, InsertEffect
  <2> QED
    BY <1>2, <2>1 DEF AnonymousHidesAuthor
<1>3. ASSUME NEW u \in Users, Create(u) PROVE AnonymousHidesAuthor'
  BY <1>2, <1>3, TicketsAssumption DEF Create
<1>4. CASE CreateAnonymous
  BY <1>2, <1>4 DEF CreateAnonymous
<1>5. ASSUME UNCHANGED <<rows, owner, anon, authors>> PROVE AnonymousHidesAuthor'
  BY <1>5 DEF AnonymousHidesAuthor
<1>6. ASSUME NEW c \in Clerks, Commit(c) PROVE AnonymousHidesAuthor'
  BY <1>1, <1>6, CommitEffect DEF AnonymousHidesAuthor
<1>7. ASSUME NEW u \in Users, EraseUser(u) PROVE AnonymousHidesAuthor'
  <2> SUFFICES ASSUME NEW t \in rows, anon'[t]
               PROVE  owner'[t] = Nobody /\ authors'[t] = {}
    BY <1>7, EraseUserEffect DEF AnonymousHidesAuthor
  <2>1. /\ owner'[t] = IF t \in erasure[u].mine \cup Late(u) THEN Nobody ELSE owner[t]
        /\ anon'[t] = (anon[t] \/ t \in erasure[u].mine)
        /\ authors'[t] = IF t \in erasure[u].spoken THEN authors[t] \ {u} ELSE authors[t]
    BY <1>1, <1>7, EraseUserEffect
  <2>2. CASE t \in erasure[u].mine
    <3>1. owner[t] = u
      BY <2>2 DEF LocksInv
    <3>2. authors[t] \subseteq {u}
      BY <3>1, TicketsAssumption DEF AuthorsInv
    <3>3. u \in authors[t] => t \in erasure[u].spoken
      BY <1>7, <2>2 DEF AuthorsInv, EraseUser
    <3>4. authors'[t] = {}
      BY <2>1, <3>2, <3>3
    <3> QED
      BY <2>1, <2>2, <3>4
  <2>3. CASE t \notin erasure[u].mine
    <3>1. owner[t] = Nobody /\ authors[t] = {}
      BY <2>1, <2>3 DEF AnonymousHidesAuthor
    <3> QED
      BY <2>1, <3>1
  <2> QED
    BY <2>2, <2>3
<1> QED
  BY <1>3, <1>4, <1>5, <1>6, <1>7
  DEF Next, FindUser, CreateFails, Begin, Rollback, EraseTickets, EraseMessages, EraseRollback, ticket, vars

\* Every step keeps owners in users: the student is inserted with the first ticket,
\* and deleted with the ownership of every ticket.
LEMMA StepOwners == TypeOK /\ LocksInv /\ ChecksInv /\ OwnersExist /\ [Next]_vars => OwnersExist'
<1> SUFFICES ASSUME TypeOK, LocksInv, ChecksInv, OwnersExist, [Next]_vars PROVE OwnersExist'
  OBVIOUS
<1>1. rows \subseteq TicketIds
  BY DEF TypeOK
<1>2. ASSUME NEW t \in TicketIds, NEW o, NEW sa, Insert(t, o, sa),
             users \subseteq users', o \in users' \cup {Nobody}
      PROVE  OwnersExist'
  <2>1. /\ rows' = rows \cup {t} /\ t \notin rows /\ owner'[t] = o
        /\ \A k \in rows : owner'[k] = owner[k]
    BY <1>1, <1>2, InsertEffect
  <2> QED
    BY <1>2, <2>1 DEF OwnersExist
<1>3. ASSUME NEW u \in Users, Create(u) PROVE OwnersExist'
  BY <1>2, <1>3 DEF Create
<1>4. CASE CreateAnonymous
  BY <1>2, <1>4 DEF CreateAnonymous
<1>5. ASSUME UNCHANGED <<rows, users, owner>> PROVE OwnersExist'
  BY <1>5 DEF OwnersExist
<1>6. ASSUME NEW c \in Clerks, Commit(c) PROVE OwnersExist'
  BY <1>5, <1>6, CommitEffect
<1>7. ASSUME NEW u \in Users, EraseUser(u) PROVE OwnersExist'
  <2> SUFFICES ASSUME NEW t \in rows, owner'[t] # Nobody PROVE owner'[t] \in users'
    BY <1>7, EraseUserEffect DEF OwnersExist
  <2>1. /\ owner'[t] = IF t \in erasure[u].mine \cup Late(u) THEN Nobody ELSE owner[t]
        /\ users' = users \ {u}
    BY <1>1, <1>7, EraseUserEffect
  <2>2. owner'[t] = owner[t] /\ t \notin erasure[u].mine \cup Late(u)
    BY <2>1
  <2>3. owner[t] # u
    BY <2>2 DEF Late
  <2> QED
    BY <2>1, <2>2, <2>3 DEF OwnersExist
<1> QED
  BY <1>3, <1>4, <1>5, <1>6, <1>7
  DEF Next, FindUser, CreateFails, Begin, Rollback, EraseTickets, EraseMessages, EraseRollback, ticket, vars

\* The inductive invariant holds in every state.
LEMMA AlwaysIInv == Spec => []IInv
<1>1. Init => IInv
  BY InitTypes, InitLocks, InitChecks, InitAuthors, InitTickets DEF IInv
<1>2. IInv /\ [Next]_vars => IInv'
  BY StepTypes, StepLocks, StepChecks, StepAuthors, StepAnonymous, StepOwners DEF IInv
<1> QED
  BY <1>1, <1>2, PTL DEF Spec

\* No anonymous ticket names its student, in the row or in its messages, however
\* replies, creations and the statements of erasures interleave.
THEOREM AnonymityKept == Spec => []AnonymousHidesAuthor
<1>1. IInv => AnonymousHidesAuthor
  BY DEF IInv
<1> QED
  BY <1>1, AlwaysIInv, PTL

\* A ticket belongs to nobody or to a student who has a row in users.
THEOREM OwnersAreReal == Spec => []OwnersExist
<1>1. IInv => OwnersExist
  BY DEF IInv
<1> QED
  BY <1>1, AlwaysIInv, PTL

-----------------------------------------------------------------------------
(* Changes of status.                                                      *)

\* A slot becomes idle by a commit or a rollback of its own job.
LEMMA WhoGoesIdle ==
  ASSUME TypeOK, Next, NEW c \in Clerks, job[c] # Idle, job'[c] = Idle
  PROVE  Commit(c) \/ Rollback(c)
<1>1. CASE UNCHANGED job
  BY <1>1
<1>2. ASSUME NEW d \in Clerks, Commit(d) \/ Rollback(d) PROVE Commit(c) \/ Rollback(c)
  <2>1. \A e \in Clerks \ {d} : job'[e] = job[e]
    BY <1>2 DEF Commit, Rollback, TypeOK
  <2> QED
    BY <1>2, <2>1
<1>3. ASSUME NEW d \in Clerks, NEW t \in TicketIds, NEW task \in Tasks, Begin(d, t, task)
      PROVE  FALSE
  <2>1. d # c /\ \A e \in Clerks \ {d} : job'[e] = job[e]
    BY <1>3 DEF Begin, TypeOK
  <2> QED
    BY <2>1
<1> QED
  BY <1>1, <1>2, <1>3
  DEF Next, FindUser, Create, CreateFails, CreateAnonymous, Insert, EraseTickets, EraseMessages,
      EraseUser, EraseRollback

\* An administrator's change of status follows ALLOWED_TRANSITIONS from the status
\* it replaces, whatever was committed since the form was opened.
THEOREM ChangesFollowTransitions == Spec => ChangesAreAllowed
<1> DEFINE Step ==
      \A c \in Clerks :
        job[c] # Idle /\ job'[c] = Idle /\ job[c].task.op = "change" =>
          LET t == job[c].id
          IN  status'[t] # status[t] => status'[t] \in ALLOWED_TRANSITIONS[status[t]]
<1>1. IInv /\ [Next]_vars => [Step]_vars
  <2> SUFFICES ASSUME TypeOK, LocksInv, ChecksInv, Next, NEW c \in Clerks,
                      job[c] # Idle, job'[c] = Idle, job[c].task.op = "change",
                      status'[job[c].id] # status[job[c].id]
               PROVE  status'[job[c].id] \in ALLOWED_TRANSITIONS[status[job[c].id]]
    BY DEF IInv
  <2>1. job[c].id \in TicketIds /\ job[c].seen = status[job[c].id]
    BY JobFields DEF LocksInv
  <2>2. Commit(c)
    BY WhoGoesIdle DEF Rollback, ticket
  <2>3. StatusAfter(job[c].task, job[c].seen) = job[c].task.arg
    BY DEF StatusAfter
  <2>4. status'[job[c].id] = job[c].task.arg
    BY <2>1, <2>2, <2>3 DEF Commit, TypeOK
  <2> QED
    BY <2>1, <2>4 DEF ChecksInv
<1> QED
  BY <1>1, AlwaysIInv, PTL DEF Spec, ChangesAreAllowed
=============================================================================
