----------------------------- MODULE AuditQueue -----------------------------
(***************************************************************************)
(* The audit buffer of one web process (core/audit.py): requests append to *)
(* a bounded deque, a background task takes batches from its old end and   *)
(* inserts each in one transaction, and the shutdown of the process        *)
(* (web/main.py) cancels the task and flushes once more.                   *)
(*                                                                         *)
(* Events are numbered in the order in which they were enqueued.           *)
(***************************************************************************)
EXTENDS Naturals, FiniteSets, SequencesExt

CONSTANTS
  QueueMax,     \* AUDIT_QUEUE_MAX
  BatchSize,    \* AUDIT_BATCH_SIZE
  MaxEvents,    \* bound: events enqueued
  MaxFailures   \* bound: flushes that fail

ASSUME AuditAssumption ==
  /\ QueueMax \in Nat \ {0}
  /\ BatchSize \in Nat \ {0}
  /\ MaxEvents \in Nat
  /\ MaxFailures \in Nat

VARIABLES
  enqueued,   \* number of events so far
  queue,      \* _audit_queue
  taken,      \* the batch that a flush has drained and not committed yet
  journal,    \* the rows of table logs, in the order of their ids
  dropped,    \* _dropped_events
  lost,       \* history: events of batches whose flush did not succeed
  failures,   \* history: flushes that did not succeed
  phase       \* "serving", "flushing" (the flush at shutdown), "stopped", "killed"

vars == <<enqueued, queue, taken, journal, dropped, lost, failures, phase>>

Phases == {"serving", "flushing", "stopped", "killed"}

Init ==
  /\ enqueued = 0
  /\ queue = <<>> /\ taken = <<>> /\ journal = <<>>
  /\ dropped = 0
  /\ lost = {} /\ failures = 0
  /\ phase = "serving"

-----------------------------------------------------------------------------
(* The deque.                                                              *)

Full == Len(queue) = QueueMax

\* deque.append with maxlen: a full deque loses its oldest element.
Push(q, e) == IF Full THEN Append(Tail(q), e) ELSE Append(q, e)

\* Variant with a defect: evicted events are not counted.
CountNothing == dropped

Count == IF Full THEN dropped + 1 ELSE dropped

BatchLength == IF Len(queue) < BatchSize THEN Len(queue) ELSE BatchSize

\* Variant with a defect: the batch is taken from the new end.
DrainedFromEnd ==
  LET rest == Len(queue) - BatchLength IN
  << Reverse(SubSeq(queue, rest + 1, Len(queue))), SubSeq(queue, 1, rest) >>

\* The batch, and what stays in the buffer.
Drained == << SubSeq(queue, 1, BatchLength), SubSeq(queue, BatchLength + 1, Len(queue)) >>

-----------------------------------------------------------------------------
\* enqueue_audit, called after a request was answered
Enqueue ==
  /\ phase = "serving"
  /\ enqueued < MaxEvents
  /\ enqueued' = enqueued + 1
  /\ queue' = Push(queue, enqueued + 1)
  /\ dropped' = Count
  /\ UNCHANGED <<taken, journal, lost, failures, phase>>

\* drain_audit_queue, the first step of every flush
Drain == taken' = Drained[1] /\ queue' = Drained[2]

\* audit_flush_loop: the next flush begins.
FlushLoop ==
  /\ phase = "serving"
  /\ taken = <<>>
  /\ queue # <<>>
  /\ Drain
  /\ UNCHANGED <<enqueued, journal, dropped, lost, failures, phase>>

Insert(batch) == journal' = journal \o batch

\* The flush does not succeed: an error, a cancellation or the end of the process,
\* with or without the transaction being committed.  Nothing is put back.
LoseBatch ==
  /\ failures < MaxFailures
  /\ Insert(taken) \/ UNCHANGED journal
  /\ lost' = lost \cup ToSet(taken)
  /\ failures' = failures + 1

FlushEnds ==
  /\ taken # <<>>
  /\ \/ Insert(taken) /\ UNCHANGED <<lost, failures>>
     \/ LoseBatch
  /\ taken' = <<>>
  /\ phase' = IF phase = "flushing" THEN "stopped" ELSE phase
  /\ UNCHANGED <<enqueued, queue, dropped>>

\* The task is cancelled, asleep or in the middle of a flush.
Interrupt == IF taken = <<>> THEN UNCHANGED <<journal, lost, failures>> ELSE LoseBatch

\* Shutdown: after the task was cancelled one more flush drains the buffer; if it
\* is empty this is the end.
Shutdown ==
  /\ phase = "serving"
  /\ Interrupt
  /\ Drain
  /\ phase' = IF queue = <<>> THEN "stopped" ELSE "flushing"
  /\ UNCHANGED <<enqueued, dropped>>

\* The process is killed: what it had in memory is never written.
Kill ==
  /\ phase \in {"serving", "flushing"}
  /\ Interrupt
  /\ taken' = <<>>
  /\ phase' = "killed"
  /\ UNCHANGED <<enqueued, queue, dropped>>

Next ==
  \/ Enqueue
  \/ FlushLoop
  \/ FlushEnds
  \/ Shutdown
  \/ Kill

Spec == Init /\ [][Next]_vars

-----------------------------------------------------------------------------
(* Properties.                                                             *)

\* Every variable keeps its type; the buffer is bounded by AUDIT_QUEUE_MAX.
TypeOK ==
  /\ enqueued \in 0..MaxEvents
  /\ queue \in Seq(1..enqueued) /\ Len(queue) <= QueueMax
  /\ taken \in Seq(1..enqueued)
  /\ journal \in Seq(1..enqueued)
  /\ dropped \in 0..enqueued
  /\ lost \subseteq 1..enqueued
  /\ failures \in 0..MaxFailures
  /\ phase \in Phases

\* No event vanishes silently: each is waiting, written, in a batch whose flush is
\* reported as failed, or counted in _dropped_events; none is in two places.
EveryEventAccounted ==
  enqueued = Len(queue) + Len(taken) + Cardinality(ToSet(journal) \cup lost) + dropped

\* The journal shows events once and in the order of the requests, across failed
\* flushes, evictions and the flush at shutdown.
JournalKeepsOrder ==
  \A i, j \in 1..Len(journal) : i < j => journal[i] < journal[j]

\* After an orderly shutdown in which nothing failed the buffer is empty
\* (core/audit.py: what has accumulated is written when the application stops).
ShutdownEmptiesBuffer == phase = "stopped" /\ failures = 0 => queue = <<>>
=============================================================================
