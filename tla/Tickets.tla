------------------------------ MODULE Tickets ------------------------------
(***************************************************************************)
(* The ticket domain (core/services, core/repositories/ticket_repo.py) on  *)
(* PostgreSQL at READ COMMITTED: the tickets table, the transactions of    *)
(* students, administrators and the community inbox, and the erasure of a  *)
(* person (privacy_service.py).                                            *)
(*                                                                         *)
(* A job is a transaction that locks one ticket (SELECT ... FOR UPDATE),   *)
(* reads it and writes it at commit.  Erasure holds the rows it updated    *)
(* until its commit, where its effects become visible.                     *)
(*                                                                         *)
(* Ticket ids grow in the order of creation.  The fields of a deleted row  *)
(* keep their last values, so that properties can speak about them.        *)
(***************************************************************************)
EXTENDS Naturals, FiniteSets

CONSTANTS
  TicketIds,      \* ids that may ever be given out
  Users,          \* students (vk_id)
  Departments,
  Clerks,         \* slots for transactions that lock one ticket
  Nobody,         \* user_id is NULL
  Unassigned,     \* department_id is NULL
  Idle            \* a slot without a job

ASSUME TicketsAssumption ==
  /\ TicketIds \subseteq Nat
  /\ IsFiniteSet(TicketIds)
  /\ Nobody \notin Users
  /\ Unassigned \notin Departments

VARIABLES
  used,       \* ids given out so far
  rows,       \* ids of the rows that exist
  users,      \* students with a row in users
  status,     \* Ticket.status
  owner,      \* Ticket.user_id
  anon,       \* Ticket.is_anonymous
  dept,       \* Ticket.department_id
  authors,    \* students whose author_vk_id stands in the ticket's messages
  job,        \* job[c]: the transaction in slot c
  draft,      \* draft[u]: how far a create_ticket of u has come
  erasure     \* erasure[u]: how far the erasure of u has come

ticket == <<status, owner, anon, dept, authors>>
vars == <<used, rows, users, ticket, job, draft, erasure>>

Statuses == {"new", "inProgress", "toAdministration", "toCouncil", "completed", "completedAuto"}

COMPLETED_STATUSES == {"completed", "completedAuto"}

ALLOWED_TRANSITIONS ==
  [new |-> {"inProgress", "toAdministration", "toCouncil", "completed"},
   inProgress |-> {"toAdministration", "toCouncil", "completed"},
   toAdministration |-> {"inProgress", "completed"},
   toCouncil |-> {"inProgress", "completed"},
   completed |-> {"inProgress", "completedAuto"},
   completedAuto |-> {"inProgress"}]

\* reply_to_ticket, change_ticket_status, assign_ticket_department,
\* add_student_reply and handle_community_message_reply, with their argument
Tasks ==
  [op : {"reply", "replyAndComplete", "community"}, arg : {Nobody}]
    \cup [op : {"change"}, arg : Statuses]
    \cup [op : {"assign"}, arg : Departments]
    \cup [op : {"followUp"}, arg : Users]

\* seen: the status read under the lock
Jobs == [task : Tasks, id : TicketIds, seen : Statuses]

ASSUME IdleAssumption == Idle \notin Jobs

Erasures ==
  [step : {"none", "tickets", "messages"}, mine : SUBSET TicketIds, spoken : SUBSET TicketIds]

NoErasure == [step |-> "none", mine |-> {}, spoken |-> {}]

Init ==
  /\ used = {} /\ rows = {} /\ users = {}
  /\ status = [t \in TicketIds |-> "new"]
  /\ owner = [t \in TicketIds |-> Nobody]
  /\ anon = [t \in TicketIds |-> FALSE]
  /\ dept = [t \in TicketIds |-> Unassigned]
  /\ authors = [t \in TicketIds |-> {}]
  /\ job = [c \in Clerks |-> Idle]
  /\ draft = [u \in Users |-> "none"]
  /\ erasure = [u \in Users |-> NoErasure]

-----------------------------------------------------------------------------
(* Row locks.                                                              *)

LockedByJob(t) == \E c \in Clerks : job[c] # Idle /\ job[c].id = t
LockedByErasure(t) == \E u \in Users : t \in erasure[u].mine

\* Variant with a defect: FOR UPDATE is forgotten.
FreeUnchecked(t) == t \in rows

Free(t) == ~LockedByJob(t) /\ ~LockedByErasure(t)

-----------------------------------------------------------------------------
(* Creation.                                                               *)

NextId(t) == t \notin used /\ \A k \in TicketIds \ used : t <= k

\* Variant with a defect: the id stays available.
KeepId(t) == t \in TicketIds /\ UNCHANGED used

ConsumeId(t) == used' = used \cup {t}

\* The row of a new ticket of o (Nobody: anonymous); sa are its authors.
Insert(t, o, sa) ==
  /\ NextId(t)
  /\ ConsumeId(t)
  /\ rows' = rows \cup {t}
  /\ owner' = [owner EXCEPT ![t] = o]
  /\ anon' = [anon EXCEPT ![t] = (o = Nobody)]
  /\ \E d \in Departments \cup {Unassigned} : dept' = [dept EXCEPT ![t] = d]
  /\ authors' = [authors EXCEPT ![t] = sa]
  /\ UNCHANGED <<status, job, erasure>>

\* create_ticket looks the student up; a missing one is going to be inserted,
\* after a request to VK for the name.
FindUser(u) ==
  /\ draft[u] = "none"
  /\ draft' = [draft EXCEPT ![u] = IF u \in users THEN "known" ELSE "stranger"]
  /\ UNCHANGED <<used, rows, users, ticket, job, erasure>>

\* Insert and commit.  The foreign key keeps the student's row in place in
\* between; if it is gone, or no longer missing, the transaction fails.
Create(u) ==
  /\ \/ draft[u] = "known" /\ u \in users
     \/ draft[u] = "stranger" /\ u \notin users
  /\ draft' = [draft EXCEPT ![u] = "none"]
  /\ users' = users \cup {u}
  /\ \E t \in TicketIds : Insert(t, u, {u})

CreateFails(u) ==
  /\ draft[u] # "none"
  /\ draft' = [draft EXCEPT ![u] = "none"]
  /\ UNCHANGED <<used, rows, users, ticket, job, erasure>>

\* keep_identity is False: neither the row nor its message name the student.
CreateAnonymous ==
  /\ \E t \in TicketIds : Insert(t, Nobody, {})
  /\ UNCHANGED <<users, draft>>

-----------------------------------------------------------------------------
(* Jobs.                                                                   *)

\* The checks made under the lock; if they fail the transaction does nothing.
MayDo(task, t) ==
  CASE task.op = "change" ->
         task.arg = status[t] \/ task.arg \in ALLOWED_TRANSITIONS[status[t]]
    [] task.op = "followUp" -> task.arg \in users /\ owner[t] = task.arg /\ ~anon[t]
    [] task.op = "community" -> users # {}
    [] OTHER -> TRUE

\* lock_ticket, lock_user_ticket, or a FOR UPDATE of resolve_target_ticket
Begin(c, t, task) ==
  /\ job[c] = Idle
  /\ t \in rows
  /\ Free(t)
  /\ MayDo(task, t)
  /\ job' = [job EXCEPT ![c] = [task |-> task, id |-> t, seen |-> status[t]]]
  /\ UNCHANGED <<used, rows, users, ticket, draft, erasure>>

StatusAfter(task, seen) ==
  CASE task.op = "reply" ->
         IF seen \in COMPLETED_STATUSES THEN seen ELSE "inProgress"
    [] task.op = "replyAndComplete" ->
         IF seen \in COMPLETED_STATUSES THEN seen ELSE "completed"
    [] task.op = "change" -> task.arg
    [] task.op = "assign" -> seen
    [] task.op = "followUp" -> "new"
    [] task.op = "community" -> "inProgress"

\* Commit of the change with its history entry and its outbox messages; a column
\* that keeps the value that was read is not written.
Commit(c) ==
  /\ job[c] # Idle
  /\ LET t == job[c].id
         task == job[c].task
     IN
     /\ status' = IF StatusAfter(task, job[c].seen) = job[c].seen
                  THEN status
                  ELSE [status EXCEPT ![t] = StatusAfter(task, job[c].seen)]
     /\ dept' = IF task.op = "assign" THEN [dept EXCEPT ![t] = task.arg] ELSE dept
     /\ authors' = IF task.op = "followUp"
                   THEN [authors EXCEPT ![t] = @ \cup {task.arg}] ELSE authors
  /\ job' = [job EXCEPT ![c] = Idle]
  /\ UNCHANGED <<used, rows, users, owner, anon, draft, erasure>>

\* An error, a deadlock victim or a crash: the transaction is rolled back.
Rollback(c) ==
  /\ job[c] # Idle
  /\ job' = [job EXCEPT ![c] = Idle]
  /\ UNCHANGED <<used, rows, users, ticket, draft, erasure>>

-----------------------------------------------------------------------------
(* Erasure: one transaction, three statements that matter here.            *)

EraseStep(u, step, mine, spoken) ==
  erasure' = [erasure EXCEPT ![u] = [step |-> step, mine |-> mine, spoken |-> spoken]]

\* UPDATE tickets ... WHERE user_id: it waits for the locked rows and then
\* holds them all.
EraseTickets(u) ==
  /\ u \in users
  /\ erasure[u].step = "none"
  /\ \A t \in rows : owner[t] = u => Free(t)
  /\ EraseStep(u, "tickets", {t \in rows : owner[t] = u}, {})
  /\ UNCHANGED <<used, rows, users, ticket, job, draft>>

\* UPDATE ticket_messages ... WHERE author_vk_id
EraseMessages(u) ==
  /\ erasure[u].step = "tickets"
  /\ EraseStep(u, "messages", erasure[u].mine, {t \in rows : u \in authors[t]})
  /\ UNCHANGED <<used, rows, users, ticket, job, draft>>

\* Variant with a defect: tickets created meanwhile keep their student.
LateIgnored(u) == {}

\* Tickets of u that the first statement could not see
Late(u) == {t \in rows : owner[t] = u} \ erasure[u].mine

\* DELETE FROM users and commit.  Tickets that still belong to the student (they
\* were created meanwhile) only lose their user_id.
EraseUser(u) ==
  /\ erasure[u].step = "messages"
  /\ LET mine == erasure[u].mine
         late == Late(u)
     IN
     /\ \A t \in late : Free(t)
     /\ owner' = [t \in TicketIds |-> IF t \in mine \cup late THEN Nobody ELSE owner[t]]
     /\ anon' = [t \in TicketIds |-> anon[t] \/ t \in mine]
     /\ authors' = [t \in TicketIds |-> IF t \in erasure[u].spoken THEN authors[t] \ {u} ELSE authors[t]]
  /\ users' = users \ {u}
  /\ EraseStep(u, "none", {}, {})
  /\ UNCHANGED <<used, rows, status, dept, job, draft>>

EraseRollback(u) ==
  /\ erasure[u].step # "none"
  /\ EraseStep(u, "none", {}, {})
  /\ UNCHANGED <<used, rows, users, ticket, job, draft>>

-----------------------------------------------------------------------------
Next ==
  \/ \E u \in Users : FindUser(u) \/ Create(u) \/ CreateFails(u)
  \/ CreateAnonymous
  \/ \E c \in Clerks : Commit(c) \/ Rollback(c)
  \/ \E c \in Clerks, t \in TicketIds, task \in Tasks : Begin(c, t, task)
  \/ \E u \in Users : EraseTickets(u) \/ EraseMessages(u) \/ EraseUser(u) \/ EraseRollback(u)

Spec == Init /\ [][Next]_vars

-----------------------------------------------------------------------------
(* Properties.                                                             *)

\* Every variable keeps its type; rows are the used ids that were not deleted.
TypeOK ==
  /\ used \subseteq TicketIds
  /\ rows \subseteq used
  /\ users \subseteq Users
  /\ status \in [TicketIds -> Statuses]
  /\ owner \in [TicketIds -> Users \cup {Nobody}]
  /\ anon \in [TicketIds -> BOOLEAN]
  /\ dept \in [TicketIds -> Departments \cup {Unassigned}]
  /\ authors \in [TicketIds -> SUBSET Users]
  /\ job \in [Clerks -> Jobs \cup {Idle}]
  /\ draft \in [Users -> {"none", "known", "stranger"}]
  /\ erasure \in [Users -> Erasures]

\* An anonymous ticket names its student neither in the row nor in its history,
\* although replies and the statements of an erasure interleave.
AnonymousHidesAuthor ==
  \A t \in rows : anon[t] => owner[t] = Nobody /\ authors[t] = {}

\* An administrator's change of status follows ALLOWED_TRANSITIONS from the
\* status it replaces, not from one that somebody has changed since.
ChangesAreAllowed ==
  [][\A c \in Clerks :
       job[c] # Idle /\ job'[c] = Idle /\ job[c].task.op = "change" =>
         LET t == job[c].id
         IN  status'[t] # status[t] => status'[t] \in ALLOWED_TRANSITIONS[status[t]]]_vars

\* A ticket belongs to a student who exists, whatever was created or answered
\* between the statements of an erasure.
OwnersExist == \A t \in rows : owner[t] # Nobody => owner[t] \in users
=============================================================================
