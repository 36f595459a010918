-------------------------- MODULE TicketRetention --------------------------
(***************************************************************************)
(* Tickets together with the archival of completed ones (core/archival.py) *)
(* and the personal numbers under which students know their tickets        *)
(* (local_number, resolve_user_ticket).                                    *)
(*                                                                         *)
(* single_instance_guard lets one process at a time archive.  It selects   *)
(* without locks, writes a file, and then deletes by id, chunk by chunk,   *)
(* each chunk in a transaction of its own.                                 *)
(***************************************************************************)
EXTENDS Tickets

CONSTANTS
  ChunkSize       \* CHUNK_SIZE: rows deleted per transaction

ASSUME RetentionAssumption == ChunkSize \in Nat \ {0}

VARIABLES
  old,        \* rows whose updated_at is before the cutoff
  batch,      \* ids selected and not deleted yet
  written,    \* the file of the current batch is complete
  archived,   \* ids written to an archive file
  told        \* told[t]: the number under which the owner was last told of t

retention == <<old, batch, written, archived, told>>
allVars == <<vars, retention>>

RetentionInit ==
  /\ Init
  /\ old = {}
  /\ batch = {} /\ written = FALSE /\ archived = {}
  /\ told = [t \in TicketIds |-> 0]

-----------------------------------------------------------------------------
(* The steps of Tickets: a changed row is young again, and the owner of an *)
(* answered or changed ticket is told its number.                          *)

\* local_number: how many tickets the owner of t has up to t
LocalNumber(t) == Cardinality({k \in rows : owner[k] = owner[t] /\ k <= t})

Informs(task, t) ==
  /\ task.op \in {"reply", "replyAndComplete", "change"}
  /\ ~anon[t]
  /\ owner[t] # Nobody

CommitAndTell(c) ==
  /\ Commit(c)
  /\ LET t == job[c].id
         task == job[c].task
         wrote == ticket' # ticket \/ task.op \in {"reply", "replyAndComplete", "community"}
     IN
     /\ old' = IF wrote THEN old \ {t} ELSE old
     /\ told' = IF Informs(task, t) THEN [told EXCEPT ![t] = LocalNumber(t)] ELSE told
  /\ UNCHANGED <<batch, written, archived>>

EraseUserRows(u) ==
  /\ EraseUser(u)
  /\ old' = old \ {t \in rows : owner'[t] # owner[t]}
  /\ UNCHANGED <<batch, written, archived, told>>

OtherTicketStep ==
  /\ \/ \E u \in Users : FindUser(u) \/ Create(u) \/ CreateFails(u)
     \/ CreateAnonymous
     \/ \E c \in Clerks : Rollback(c)
     \/ \E c \in Clerks, t \in TicketIds, task \in Tasks : Begin(c, t, task)
     \/ \E u \in Users : EraseTickets(u) \/ EraseMessages(u) \/ EraseRollback(u)
  /\ UNCHANGED retention

-----------------------------------------------------------------------------
(* Archival.                                                               *)

\* ARCHIVE_TICKET_AGE_DAYS pass without a change.
GrowOld(t) ==
  /\ t \in rows \ old
  /\ status[t] \in COMPLETED_STATUSES
  /\ old' = old \cup {t}
  /\ UNCHANGED <<vars, batch, written, archived, told>>

\* Variant with a defect: ids that were deleted before are selected again.
ArchivableEver == {t \in used : status[t] \in COMPLETED_STATUSES}

Archivable == {t \in rows \cap old : status[t] \in COMPLETED_STATUSES}

SelectOld ==
  /\ batch = {}
  /\ batch' = Archivable
  /\ batch' # {}
  /\ written' = FALSE
  /\ UNCHANGED <<vars, old, archived, told>>

WriteArchive ==
  /\ batch # {}
  /\ ~written
  /\ written' = TRUE
  /\ archived' = archived \cup batch
  /\ UNCHANGED <<vars, old, batch, told>>

\* Variant with a defect: the rows go before the file is written.
DeleteReady == batch # {}

MayDelete == batch # {} /\ written

NextChunk(chunk) ==
  Cardinality(chunk) = IF Cardinality(batch) < ChunkSize THEN Cardinality(batch) ELSE ChunkSize

\* DELETE ... WHERE id IN (chunk), and commit: the status is not looked at again.
\* The statement waits for rows that other transactions hold.
DeleteChunk ==
  /\ MayDelete
  /\ \E chunk \in SUBSET batch :
       /\ NextChunk(chunk)
       /\ \A t \in chunk : Free(t)
       /\ rows' = rows \ chunk
       /\ old' = old \ chunk
       /\ batch' = batch \ chunk
  /\ UNCHANGED <<used, users, ticket, job, draft, erasure, written, archived, told>>

\* An error or a crash: what is committed stays committed, the rest waits for
\* the next round.
ArchivalStops ==
  /\ batch # {}
  /\ batch' = {}
  /\ UNCHANGED <<vars, old, written, archived, told>>

-----------------------------------------------------------------------------
RetentionNext ==
  \/ \E c \in Clerks : CommitAndTell(c)
  \/ \E u \in Users : EraseUserRows(u)
  \/ OtherTicketStep
  \/ \E t \in TicketIds : GrowOld(t)
  \/ SelectOld
  \/ WriteArchive
  \/ DeleteChunk
  \/ ArchivalStops

RetentionSpec == RetentionInit /\ [][RetentionNext]_allVars

-----------------------------------------------------------------------------
(* Properties.                                                             *)

\* Every variable keeps its type; what is going to be deleted still exists.
RetentionTypeOK ==
  /\ TypeOK
  /\ old \subseteq rows
  /\ batch \subseteq rows
  /\ written \in BOOLEAN
  /\ archived \subseteq used
  /\ told \in [TicketIds -> 0..Cardinality(TicketIds)]

\* A ticket leaves the database only after an archive file was written with it,
\* wherever archival stopped before.
DeletedAreArchived == used \ rows \subseteq archived

\* No ticket is removed under a transaction that works on it or erases it.
NoWorkOnDeleted ==
  /\ \A c \in Clerks : job[c] # Idle => job[c].id \in rows
  /\ \A u \in Users : erasure[u].mine \subseteq rows

\* Archival removes completed tickets only: none that was reopened meanwhile.
DeletedWereCompleted == \A t \in used \ rows : status[t] \in COMPLETED_STATUSES

\* resolve_user_ticket: the n-th ticket of u, or else the ticket of u with id n
Resolve(u, n) ==
  LET mine == {t \in rows : owner[t] = u}
      nth == {t \in mine : Cardinality({k \in mine : k <= t}) = n}
  IN  IF nth # {} THEN nth ELSE mine \cap {n}

\* The number under which a student was told of a ticket leads to that ticket,
\* as long as the ticket exists and is the student's.
NumbersStayPersonal ==
  \A t \in rows : told[t] # 0 /\ owner[t] # Nobody => Resolve(owner[t], told[t]) = {t}
=============================================================================
