----------------------------- MODULE WebProofs -----------------------------
(***************************************************************************)
(* Proofs about services of the web processes: the audit buffer            *)
(* (AuditQueue), the notifications of ticket changes (TicketEvents), the   *)
(* computation of cached values under a lock (ComputeCache) and the limits *)
(* of one address (RateLimits).                                            *)
(***************************************************************************)
EXTENDS MCWeb, SequenceTheorems, FiniteSetTheorems, TLAPS

(***************************************************************************)
(* Sequences of numbers that only rise.                                    *)
(***************************************************************************)
Rising(s) == \A i, j \in 1..Len(s) : i < j => s[i] < s[j]

Below(S, s) == \A x \in S : \A i \in 1..Len(s) : x < s[i]

\* A rising sequence has as many elements as positions (audit events are written once).
LEMMA RisingCount ==
  ASSUME NEW n \in Nat, NEW s \in Seq(1..n), Rising(s)
  PROVE  /\ IsFiniteSet(ToSet(s))
         /\ Cardinality(ToSet(s)) = Len(s)
<1>1. /\ Len(s) \in Nat
      /\ DOMAIN s = 1..Len(s)
      /\ s \in [1..Len(s) -> 1..n]
  BY LenProperties
<1>2. ToSet(s) = {s[i] : i \in 1..Len(s)}
  BY <1>1 DEF ToSet
<1>3. s \in [1..Len(s) -> ToSet(s)]
  BY <1>1, <1>2
<1>4. \A i, j \in 1..Len(s) : s[i] = s[j] => i = j
  <2> SUFFICES ASSUME NEW i \in 1..Len(s), NEW j \in 1..Len(s), s[i] = s[j], i # j
               PROVE  FALSE
    OBVIOUS
  <2>1. i < j \/ j < i
    BY <1>1
  <2>2. s[i] \in Nat /\ s[j] \in Nat
    BY <1>1
  <2> QED
    BY <2>1, <2>2 DEF Rising
<1>5. s \in Bijection(1..Len(s), ToSet(s))
  <2>1. s \in Injection(1..Len(s), ToSet(s))
    BY <1>1, <1>3, <1>4, Zenon DEF Injection, IsInjective
  <2>2. s \in Surjection(1..Len(s), ToSet(s))
    BY <1>2, <1>3, Zenon DEF Surjection
  <2> QED
    BY <2>1, <2>2 DEF Bijection
<1>6. ExistsBijection(1..Len(s), ToSet(s))
  BY <1>5 DEF ExistsBijection
<1>7. Cardinality(ToSet(s)) = Len(s)
  BY <1>1, <1>6, FS_CountingElements
<1>8. IsFiniteSet(ToSet(s))
  BY <1>1, <1>6, FS_NatBijection
<1> QED
  BY <1>7, <1>8

\* A stretch of a rising sequence rises.
LEMMA RisingStretch ==
  ASSUME NEW n \in Nat, NEW s \in Seq(1..n), Rising(s),
         NEW a \in Nat \ {0}, NEW b \in 0..Len(s)
  PROVE  /\ SubSeq(s, a, b) \in Seq(1..n)
         /\ Len(SubSeq(s, a, b)) = (IF a <= b THEN b - a + 1 ELSE 0)
         /\ \A i \in 1..Len(SubSeq(s, a, b)) :
              SubSeq(s, a, b)[i] = s[a + i - 1] /\ a + i - 1 \in 1..Len(s)
         /\ Rising(SubSeq(s, a, b))
<1>1. Len(s) \in Nat
  BY LenProperties
<1>2. \A i \in a..b : s[i] \in 1..n
  BY <1>1, ElementOfSeq
<1>3. /\ SubSeq(s, a, b) \in Seq(1..n)
      /\ Len(SubSeq(s, a, b)) = (IF a <= b THEN b - a + 1 ELSE 0)
      /\ \A i \in 1..(b - a + 1) : SubSeq(s, a, b)[i] = s[a + i - 1]
  BY <1>1, <1>2, SubSeqProperties, SMT
<1>4. \A i \in 1..Len(SubSeq(s, a, b)) :
         SubSeq(s, a, b)[i] = s[a + i - 1] /\ a + i - 1 \in 1..Len(s)
  BY <1>1, <1>3, SMTT(30)
<1>5. Rising(SubSeq(s, a, b))
  <2> DEFINE t == SubSeq(s, a, b)
  <2> SUFFICES ASSUME NEW i \in 1..Len(t), NEW j \in 1..Len(t), i < j
               PROVE  t[i] < t[j]
    BY DEF Rising
  <2>1. t[i] = s[a + i - 1] /\ t[j] = s[a + j - 1]
    BY <1>4
  <2>2. a + i - 1 \in 1..Len(s) /\ a + j - 1 \in 1..Len(s) /\ a + i - 1 < a + j - 1
    BY <1>1, <1>3, <1>4
  <2> QED
    BY <2>1, <2>2 DEF Rising
<1> QED
  BY <1>3, <1>4, <1>5

\* One rising sequence after another below it rises.
LEMMA RisingConcat ==
  ASSUME NEW n \in Nat, NEW s \in Seq(1..n), NEW t \in Seq(1..n),
         Rising(s), Rising(t), Below(ToSet(s), t)
  PROVE  /\ s \o t \in Seq(1..n)
         /\ ToSet(s \o t) = ToSet(s) \cup ToSet(t)
         /\ Rising(s \o t)
<1>1. Len(s) \in Nat /\ Len(t) \in Nat /\ DOMAIN s = 1..Len(s) /\ DOMAIN t = 1..Len(t)
  BY LenProperties
<1>2. /\ s \o t \in Seq(1..n)
      /\ Len(s \o t) = Len(s) + Len(t)
      /\ \A i \in 1 .. Len(s) + Len(t) :
            (s \o t)[i] = IF i <= Len(s) THEN s[i] ELSE t[i - Len(s)]
  BY ConcatProperties
<1>3. DOMAIN (s \o t) = 1..(Len(s) + Len(t))
  BY <1>2, LenProperties
<1>4. \A i \in 1..Len(s) : (s \o t)[i] = s[i]
  BY <1>1, <1>2
<1>5. \A i \in 1..Len(t) : Len(s) + i \in 1..(Len(s) + Len(t)) /\ (s \o t)[Len(s) + i] = t[i]
  BY <1>1, <1>2
<1>6. ToSet(s \o t) \subseteq ToSet(s) \cup ToSet(t)
  BY <1>1, <1>2, <1>3 DEF ToSet
<1>7. ToSet(s) \subseteq ToSet(s \o t)
  BY <1>1, <1>3, <1>4 DEF ToSet
<1>8. ToSet(t) \subseteq ToSet(s \o t)
  BY <1>1, <1>3, <1>5 DEF ToSet
<1>9. Rising(s \o t)
  <2> DEFINE r == s \o t
  <2> SUFFICES ASSUME NEW i \in 1..Len(r), NEW j \in 1..Len(r), i < j
               PROVE  r[i] < r[j]
    BY DEF Rising
  <2>1. CASE j <= Len(s)
    <3>1. r[i] = s[i] /\ r[j] = s[j] /\ i \in 1..Len(s) /\ j \in 1..Len(s)
      BY <1>1, <1>2, <2>1
    <3> QED
      BY <3>1 DEF Rising
  <2>2. CASE i <= Len(s) /\ j > Len(s)
    <3>1. r[i] = s[i] /\ r[j] = t[j - Len(s)] /\ i \in 1..Len(s) /\ j - Len(s) \in 1..Len(t)
      BY <1>1, <1>2, <2>2
    <3>2. s[i] \in ToSet(s)
      BY <1>1, <3>1 DEF ToSet
    <3> QED
      BY <3>1, <3>2 DEF Below
  <2>3. CASE i > Len(s)
    <3>1. /\ r[i] = t[i - Len(s)] /\ r[j] = t[j - Len(s)]
          /\ i - Len(s) \in 1..Len(t) /\ j - Len(s) \in 1..Len(t) /\ i - Len(s) < j - Len(s)
      BY <1>1, <1>2, <2>3
    <3> QED
      BY <3>1 DEF Rising
  <2> QED
    BY <1>1, <1>2, <2>1, <2>2, <2>3
<1> QED
  BY <1>2, <1>6, <1>7, <1>8, <1>9

-----------------------------------------------------------------------------
(***************************************************************************)
(* The audit buffer.  Events move from the buffer to a batch and from      *)
(* there to the journal or to the lost ones; what was moved further is     *)
(* older than what was not.  The journal's order and the account of events *)
(* follow from this.                                                       *)
(***************************************************************************)
Settled == ToSet(journal) \cup lost

AuditOrder ==
  /\ Rising(journal) /\ Rising(taken) /\ Rising(queue)
  /\ Below(Settled, taken) /\ Below(Settled, queue) /\ Below(ToSet(taken), queue)

AuditInv == TypeOK /\ AuditOrder /\ EveryEventAccounted

\* An empty sequence has no elements.
LEMMA NoElements ==
  /\ Len(<<>>) = 0 /\ ToSet(<<>>) = {} /\ Rising(<<>>)
  /\ \A S : Below(S, <<>>)
  /\ \A s : Below({}, s)
  /\ \A n \in Nat : <<>> \in Seq(1..n)
BY EmptySeq DEF ToSet, Rising, Below

\* What is in the journal or lost is a finite set of event numbers.
LEMMA SettledFinite ==
  ASSUME TypeOK
  PROVE  /\ enqueued \in Nat
         /\ Settled \subseteq 1..enqueued
         /\ IsFiniteSet(Settled) /\ Cardinality(Settled) \in Nat
<1>1. enqueued \in Nat
  BY AuditAssumption DEF TypeOK
<1>2. ToSet(journal) \subseteq 1..enqueued
  <2>1. journal \in Seq(1..enqueued)
    BY DEF TypeOK
  <2>2. DOMAIN journal = 1..Len(journal) /\ \A i \in 1..Len(journal) : journal[i] \in 1..enqueued
    BY <2>1, LenProperties, ElementOfSeq
  <2> QED
    BY <2>2 DEF ToSet
<1>3. Settled \subseteq 1..enqueued
  BY <1>2 DEF Settled, TypeOK
<1>4. IsFiniteSet(1..enqueued)
  BY <1>1, FS_Interval
<1>5. IsFiniteSet(Settled)
  BY <1>3, <1>4, FS_Subset
<1> QED
  BY <1>1, <1>3, <1>5, FS_CardinalityType

\* A flush that ends, with its batch in the journal, lost, or both (web and worker
\* flushes), settles each event of the batch once.
LEMMA BatchSettles ==
  ASSUME AuditInv, (Insert(taken) /\ UNCHANGED <<lost, failures>>) \/ LoseBatch
  PROVE  /\ journal' \in Seq(1..enqueued) /\ lost' \subseteq 1..enqueued
         /\ failures' \in 0..MaxFailures
         /\ Rising(journal')
         /\ Below(Settled', queue)
         /\ Cardinality(Settled') = Cardinality(Settled) + Len(taken)
<1>1. /\ enqueued \in Nat /\ IsFiniteSet(Settled) /\ Cardinality(Settled) \in Nat
  BY SettledFinite DEF AuditInv
<1>2. /\ taken \in Seq(1..enqueued) /\ journal \in Seq(1..enqueued)
      /\ lost \subseteq 1..enqueued /\ failures \in 0..MaxFailures
      /\ Rising(journal) /\ Rising(taken) /\ Below(Settled, taken)
      /\ Below(Settled, queue) /\ Below(ToSet(taken), queue)
  BY DEF AuditInv, TypeOK, AuditOrder
<1>3. Below(ToSet(journal), taken)
  BY <1>2 DEF Below, Settled
<1>4. /\ journal \o taken \in Seq(1..enqueued)
      /\ ToSet(journal \o taken) = ToSet(journal) \cup ToSet(taken)
      /\ Rising(journal \o taken)
  BY <1>1, <1>2, <1>3, RisingConcat
<1>5. /\ IsFiniteSet(ToSet(taken)) /\ Cardinality(ToSet(taken)) = Len(taken)
      /\ Len(taken) \in Nat
      /\ DOMAIN taken = 1..Len(taken)
      /\ \A i \in 1..Len(taken) : taken[i] \in 1..enqueued
  BY <1>1, <1>2, RisingCount, LenProperties, ElementOfSeq
<1>6. journal' = journal \o taken \/ (journal' = journal /\ lost' = lost \cup ToSet(taken))
  BY DEF Insert, LoseBatch
<1>7. lost' = lost \/ lost' = lost \cup ToSet(taken)
  BY DEF LoseBatch
<1>8. Settled' = Settled \cup ToSet(taken)
  BY <1>4, <1>6, <1>7 DEF Settled
<1>9. Settled \cap ToSet(taken) = {}
  <2> SUFFICES ASSUME NEW i \in 1..Len(taken), taken[i] \in Settled
               PROVE  FALSE
    BY <1>5 DEF ToSet
  <2> QED
    BY <1>2, <1>5 DEF Below
<1>10. Cardinality(Settled') = Cardinality(Settled) + Len(taken)
  <2>1. Cardinality(Settled \cup ToSet(taken)) =
          Cardinality(Settled) + Cardinality(ToSet(taken)) - Cardinality(Settled \cap ToSet(taken))
    BY <1>1, <1>5, FS_Union
  <2>2. Cardinality(Settled \cap ToSet(taken)) = 0
    BY <1>9, FS_EmptySet
  <2> QED
    BY <1>1, <1>5, <1>8, <2>1, <2>2
<1>11. Below(Settled', queue)
  BY <1>2, <1>8 DEF Below
<1>12. ToSet(taken) \subseteq 1..enqueued
  BY <1>5 DEF ToSet
<1>13. failures' \in 0..MaxFailures
  BY <1>2, AuditAssumption DEF LoseBatch
<1> QED
  BY <1>2, <1>4, <1>6, <1>7, <1>10, <1>11, <1>12, <1>13

\* drain_audit_queue splits the buffer: the batch is below what stays.
LEMMA BufferSplits ==
  ASSUME AuditInv
  PROVE  /\ \A k \in {1, 2} :
              /\ Drained[k] \in Seq(1..enqueued)
              /\ Rising(Drained[k])
              /\ \A S : Below(S, queue) => Below(S, Drained[k])
         /\ Len(Drained[1]) + Len(Drained[2]) = Len(queue)
         /\ Len(Drained[1]) \in Nat /\ Len(Drained[2]) \in Nat
         /\ Len(Drained[2]) <= QueueMax
         /\ Below(ToSet(Drained[1]), Drained[2])
<1>1. enqueued \in Nat /\ queue \in Seq(1..enqueued) /\ Rising(queue) /\ Len(queue) <= QueueMax
  BY SettledFinite DEF AuditInv, AuditOrder, TypeOK
<1>2. Len(queue) \in Nat
  BY <1>1, LenProperties
<1> DEFINE b == BatchLength
           one == SubSeq(queue, 1, b)
           two == SubSeq(queue, b + 1, Len(queue))
<1>3. b \in 0..Len(queue)
  BY <1>2, AuditAssumption DEF BatchLength
<1>4. Drained[1] = one /\ Drained[2] = two
  BY DEF Drained
<1> HIDE DEF b
<1>5. /\ one \in Seq(1..enqueued) /\ Rising(one)
      /\ Len(one) = b
      /\ \A i \in 1..Len(one) : one[i] = queue[i] /\ i \in 1..Len(queue)
  <2>1. 1 \in Nat \ {0} /\ b \in 0..Len(queue) /\ b \in Nat
    BY <1>2, <1>3
  <2>2. /\ one \in Seq(1..enqueued) /\ Rising(one)
        /\ Len(one) = (IF 1 <= b THEN b - 1 + 1 ELSE 0)
        /\ \A i \in 1..Len(one) : one[i] = queue[1 + i - 1] /\ 1 + i - 1 \in 1..Len(queue)
    BY <1>1, <2>1, RisingStretch
  <2> QED
    BY <2>1, <2>2
<1>6. /\ two \in Seq(1..enqueued) /\ Rising(two)
      /\ Len(two) = Len(queue) - b
      /\ \A i \in 1..Len(two) : two[i] = queue[b + i] /\ b + i \in 1..Len(queue)
  <2>1. b + 1 \in Nat \ {0} /\ Len(queue) \in 0..Len(queue) /\ b \in Nat
    BY <1>2, <1>3
  <2>2. /\ two \in Seq(1..enqueued) /\ Rising(two)
        /\ Len(two) = (IF b + 1 <= Len(queue) THEN Len(queue) - (b + 1) + 1 ELSE 0)
        /\ \A i \in 1..Len(two) : two[i] = queue[b + 1 + i - 1] /\ b + 1 + i - 1 \in 1..Len(queue)
    BY <1>1, <2>1, RisingStretch
  <2> QED
    BY <1>2, <1>3, <2>1, <2>2
<1>7. /\ \A S : Below(S, queue) => Below(S, one)
      /\ \A S : Below(S, queue) => Below(S, two)
  BY <1>5, <1>6 DEF Below
<1>8. Below(ToSet(one), two)
  <2> SUFFICES ASSUME NEW x \in ToSet(one), NEW j \in 1..Len(two)
               PROVE  x < two[j]
    BY DEF Below
  <2>1. DOMAIN one = 1..Len(one)
    BY <1>5, LenProperties
  <2>2. PICK i \in 1..Len(one) : x = one[i]
    BY <2>1 DEF ToSet
  <2>3. x = queue[i] /\ i \in 1..Len(queue) /\ two[j] = queue[b + j] /\ b + j \in 1..Len(queue)
    BY <1>5, <1>6, <2>2
  <2>4. i < b + j
    BY <1>3, <1>5, <1>2, <2>2
  <2> QED
    BY <1>1, <2>3, <2>4 DEF Rising
<1>9. /\ Len(one) + Len(two) = Len(queue)
      /\ Len(one) \in Nat /\ Len(two) \in Nat /\ Len(two) <= QueueMax
  <2>1. Len(one) = b /\ Len(two) = Len(queue) - b
    BY <1>5, <1>6
  <2> HIDE DEF one, two
  <2> QED
    BY <1>1, <1>2, <1>3, <2>1, AuditAssumption
<1> QED
  BY <1>4, <1>5, <1>6, <1>7, <1>8, <1>9

\* The invariant holds at the start.
LEMMA AuditInit == Init => AuditInv
<1> SUFFICES ASSUME Init PROVE AuditInv
  OBVIOUS
<1>1. Settled = {}
  BY NoElements DEF Init, Settled
<1>2. TypeOK
  <2>1. 0 \in Nat
    OBVIOUS
  <2> QED
    BY <2>1, NoElements, AuditAssumption DEF Init, TypeOK, Phases
<1>3. AuditOrder
  BY <1>1, NoElements DEF Init, AuditOrder
<1>4. EveryEventAccounted
  BY <1>1, NoElements, FS_EmptySet DEF Init, EveryEventAccounted, Settled
<1> QED
  BY <1>2, <1>3, <1>4 DEF AuditInv

\* enqueue_audit: the new event is above all others; an event that a full buffer
\* pushes out is counted.
LEMMA EnqueueKeeps ==
  ASSUME AuditInv, Enqueue
  PROVE  AuditInv'
<1>1. /\ enqueued \in Nat /\ queue \in Seq(1..enqueued) /\ taken \in Seq(1..enqueued)
      /\ journal \in Seq(1..enqueued) /\ Len(queue) <= QueueMax
      /\ dropped \in 0..enqueued /\ lost \subseteq 1..enqueued
      /\ Rising(queue) /\ Rising(taken) /\ Rising(journal)
      /\ Below(Settled, taken) /\ Below(Settled, queue) /\ Below(ToSet(taken), queue)
  BY SettledFinite DEF AuditInv, AuditOrder, TypeOK
<1>2. /\ enqueued' = enqueued + 1 /\ enqueued' \in 0..MaxEvents
      /\ queue' = Push(queue, enqueued + 1) /\ dropped' = Count
      /\ UNCHANGED <<taken, journal, lost, failures, phase>>
      /\ Settled' = Settled
  BY <1>1, AuditAssumption DEF Enqueue, Settled
<1>3. Len(queue) \in Nat
  BY <1>1, LenProperties
<1>4. PICK q \in Seq(1..enqueued) :
        /\ queue' = Append(q, enqueued + 1)
        /\ Rising(q)
        /\ Len(q) \in Nat
        /\ \A S : Below(S, queue) => Below(S, q)
        /\ IF Full THEN Len(q) + 1 = Len(queue) ELSE Len(q) = Len(queue) /\ Len(q) < QueueMax
  <2>1. CASE Full
    <3>1. queue # <<>>
      BY <2>1, NoElements, AuditAssumption DEF Full
    <3>2. /\ Tail(queue) \in Seq(1..enqueued) /\ Len(Tail(queue)) = Len(queue) - 1
          /\ \A i \in 1..Len(Tail(queue)) : Tail(queue)[i] = queue[i + 1]
      BY <1>1, <3>1, HeadTailProperties
    <3>3. Len(queue) \in Nat \ {0}
      BY <1>1, <3>1, EmptySeq
    <3>4. \A i \in 1..Len(Tail(queue)) : i + 1 \in 1..Len(queue)
      BY <3>2, <3>3
    <3>5. Rising(Tail(queue)) /\ \A S : Below(S, queue) => Below(S, Tail(queue))
      <4>1. \A S : Below(S, queue) => Below(S, Tail(queue))
        BY <3>2, <3>4 DEF Below
      <4>2. ASSUME NEW i \in 1..Len(Tail(queue)), NEW j \in 1..Len(Tail(queue)), i < j
            PROVE  Tail(queue)[i] < Tail(queue)[j]
        <5>1. i + 1 < j + 1 /\ i + 1 \in 1..Len(queue) /\ j + 1 \in 1..Len(queue)
          BY <3>2, <3>3, <4>2
        <5> QED
          BY <1>1, <3>2, <5>1 DEF Rising
      <4> QED
        BY <4>1, <4>2 DEF Rising
    <3>6. queue' = Append(Tail(queue), enqueued + 1)
      BY <1>2, <2>1 DEF Push
    <3>7. Len(Tail(queue)) \in Nat /\ Len(Tail(queue)) + 1 = Len(queue)
      BY <3>2, <3>3
    <3> QED
      BY <2>1, <3>2, <3>5, <3>6, <3>7
  <2>2. CASE ~Full
    <3>1. Len(queue) < QueueMax
      BY <1>1, <1>3, <2>2, AuditAssumption DEF Full
    <3> QED
      BY <1>1, <1>2, <1>3, <2>2, <3>1 DEF Push
  <2> QED
    BY <2>1, <2>2
<1>5. /\ q \in Seq(1..enqueued') /\ enqueued + 1 \in 1..enqueued'
      /\ taken \in Seq(1..enqueued') /\ journal \in Seq(1..enqueued')
      /\ lost \subseteq 1..enqueued'
  <2>1. 1..enqueued \subseteq 1..enqueued' /\ enqueued + 1 \in 1..enqueued'
    BY <1>1, <1>2
  <2> QED
    BY <1>1, <1>4, <2>1, SeqMonotonic
<1>6. /\ queue' \in Seq(1..enqueued')
      /\ Len(queue') = Len(q) + 1
      /\ \A i \in 1..Len(q) : queue'[i] = q[i]
      /\ queue'[Len(q) + 1] = enqueued + 1
  BY <1>4, <1>5, AppendProperties
<1>7. ASSUME NEW S \in SUBSET (1..enqueued), Below(S, queue)
      PROVE  Below(S, queue')
  <2> SUFFICES ASSUME NEW x \in S, NEW i \in 1..Len(queue')
               PROVE  x < queue'[i]
    BY DEF Below
  <2>1. CASE i = Len(q) + 1
    BY <1>1, <1>6, <2>1
  <2>2. CASE i \in 1..Len(q)
    BY <1>4, <1>6, <1>7, <2>2 DEF Below
  <2> QED
    BY <1>4, <1>6, <2>1, <2>2
<1>8. Rising(queue')
  <2> SUFFICES ASSUME NEW i \in 1..Len(queue'), NEW j \in 1..Len(queue'), i < j
               PROVE  queue'[i] < queue'[j]
    BY DEF Rising
  <2>1. i \in 1..Len(q)
    BY <1>4, <1>6
  <2>2. q[i] \in 1..enqueued
    BY <1>4, <2>1, ElementOfSeq
  <2>3. CASE j = Len(q) + 1
    BY <1>1, <1>6, <2>1, <2>2, <2>3
  <2>4. CASE j \in 1..Len(q)
    BY <1>4, <1>6, <2>1, <2>4 DEF Rising
  <2> QED
    BY <1>4, <1>6, <2>3, <2>4
<1>9. Settled \subseteq 1..enqueued /\ ToSet(taken) \subseteq 1..enqueued
  <2>1. DOMAIN taken = 1..Len(taken) /\ \A i \in 1..Len(taken) : taken[i] \in 1..enqueued
    BY <1>1, LenProperties, ElementOfSeq
  <2> QED
    BY <2>1, SettledFinite DEF AuditInv, ToSet
<1>10. /\ Full => dropped' = dropped + 1 /\ Len(queue') = Len(queue)
       /\ ~Full => dropped' = dropped /\ Len(queue') = Len(queue) + 1 /\ Len(queue) < QueueMax
  <2>1. dropped' = Count /\ Len(queue') = Len(q) + 1
    BY <1>2, <1>6
  <2>2. CASE Full
    BY <1>3, <1>4, <2>1, <2>2 DEF Count
  <2>3. CASE ~Full
    BY <1>3, <1>4, <2>1, <2>3 DEF Count
  <2> QED
    BY <2>2, <2>3
<1>11. TypeOK'
  <2>1. Len(queue') <= QueueMax
    <3>1. CASE Full
      BY <1>1, <1>10, <3>1
    <3>2. CASE ~Full
      BY <1>3, <1>10, <3>2, AuditAssumption
    <3> QED
      BY <3>1, <3>2
  <2>2. dropped' \in 0..enqueued'
    BY <1>1, <1>2 DEF Count
  <2> QED
    BY <1>2, <1>5, <1>6, <2>1, <2>2 DEF AuditInv, TypeOK
<1>12. AuditOrder'
  BY <1>1, <1>2, <1>7, <1>8, <1>9 DEF AuditOrder
<1>13. EveryEventAccounted'
  <2> DEFINE c == Cardinality(Settled)
             k == Len(taken)
             m == Len(queue)
             w == Len(queue')
  <2>1. c \in Nat /\ k \in Nat /\ m \in Nat
    BY <1>1, <1>3, SettledFinite, LenProperties DEF AuditInv
  <2>2. enqueued = m + k + c + dropped
    BY DEF AuditInv, EveryEventAccounted, Settled
  <2>3. /\ enqueued \in Nat /\ dropped \in Nat /\ enqueued' = enqueued + 1
        /\ \/ dropped' = dropped + 1 /\ w = m
           \/ dropped' = dropped /\ w = m + 1
    BY <1>1, <1>2, <1>10
  <2>4. enqueued' = w + k + c + dropped'
    <3> HIDE DEF c, k, m, w
    <3> QED
      BY <2>1, <2>2, <2>3
  <2> QED
    BY <1>2, <2>4 DEF EveryEventAccounted, Settled
<1> QED
  BY <1>11, <1>12, <1>13 DEF AuditInv

\* A task cancelled or killed in the middle of a flush loses the batch; asleep it
\* loses nothing.  Either way what was in its hands is settled.
LEMMA InterruptSettles ==
  ASSUME AuditInv, Interrupt
  PROVE  /\ journal' \in Seq(1..enqueued) /\ lost' \subseteq 1..enqueued
         /\ failures' \in 0..MaxFailures
         /\ Rising(journal')
         /\ Below(Settled', queue)
         /\ Cardinality(Settled') = Cardinality(Settled) + Len(taken)
<1>1. CASE taken = <<>>
  <2>1. UNCHANGED <<journal, lost, failures>> /\ Settled' = Settled
    BY <1>1 DEF Interrupt, Settled
  <2>2. Len(taken) = 0 /\ Cardinality(Settled) \in Nat
    BY <1>1, NoElements, SettledFinite DEF AuditInv
  <2> QED
    BY <2>1, <2>2 DEF AuditInv, AuditOrder, TypeOK
<1>2. CASE taken # <<>>
  BY <1>2, BatchSettles DEF Interrupt
<1> QED
  BY <1>1, <1>2

\* What a batch that leaves the buffer needs, when the last one is settled.
LEMMA DrainKeeps ==
  ASSUME AuditInv, Drain, UNCHANGED <<enqueued, dropped>>, phase' \in Phases,
         journal' \in Seq(1..enqueued), lost' \subseteq 1..enqueued,
         failures' \in 0..MaxFailures, Rising(journal'), Below(Settled', queue),
         Cardinality(Settled') = Cardinality(Settled) + Len(taken)
  PROVE  AuditInv'
<1>1. taken' = Drained[1] /\ queue' = Drained[2]
  BY DEF Drain
<1>2. TypeOK'
  BY <1>1, BufferSplits DEF AuditInv, TypeOK
<1>3. AuditOrder'
  BY <1>1, BufferSplits DEF AuditOrder
<1>4. EveryEventAccounted'
  <2> DEFINE c == Cardinality(Settled)
             k == Len(taken)
             m == Len(queue)
             x == Len(taken')
             y == Len(queue')
             z == Cardinality(Settled')
  <2>1. c \in Nat /\ k \in Nat /\ x \in Nat /\ y \in Nat /\ x + y = m /\ dropped \in Nat
    <3>1. taken \in Seq(1..enqueued) /\ dropped \in Nat
      BY SettledFinite DEF AuditInv, TypeOK
    <3> QED
      BY <1>1, <3>1, BufferSplits, SettledFinite, LenProperties DEF AuditInv
  <2>2. enqueued = m + k + c + dropped /\ z = c + k
    BY DEF AuditInv, EveryEventAccounted, Settled
  <2>3. enqueued = y + x + z + dropped
    <3> HIDE DEF c, k, m, x, y, z
    <3> QED
      BY <2>1, <2>2
  <2> QED
    BY <2>3 DEF EveryEventAccounted, Settled
<1> QED
  BY <1>2, <1>3, <1>4 DEF AuditInv

\* What a flush that ends needs: its batch is settled and the buffer is not touched.
LEMMA SettleKeeps ==
  ASSUME AuditInv, taken' = <<>>, UNCHANGED <<enqueued, queue, dropped>>, phase' \in Phases,
         journal' \in Seq(1..enqueued), lost' \subseteq 1..enqueued,
         failures' \in 0..MaxFailures, Rising(journal'), Below(Settled', queue),
         Cardinality(Settled') = Cardinality(Settled) + Len(taken)
  PROVE  AuditInv'
<1>1. TypeOK'
  BY NoElements, SettledFinite DEF AuditInv, TypeOK
<1>2. AuditOrder'
  BY NoElements DEF AuditInv, AuditOrder
<1>3. EveryEventAccounted'
  <2> DEFINE c == Cardinality(Settled)
             k == Len(taken)
             m == Len(queue)
             z == Cardinality(Settled')
  <2>1. c \in Nat /\ k \in Nat /\ m \in Nat /\ dropped \in Nat
    <3>1. taken \in Seq(1..enqueued) /\ queue \in Seq(1..enqueued) /\ dropped \in Nat
      BY SettledFinite DEF AuditInv, TypeOK
    <3> QED
      BY <3>1, SettledFinite, LenProperties DEF AuditInv
  <2>2. enqueued = m + k + c + dropped /\ z = c + k
    BY DEF AuditInv, EveryEventAccounted, Settled
  <2>3. enqueued = m + 0 + z + dropped
    <3> HIDE DEF c, k, m, z
    <3> QED
      BY <2>1, <2>2
  <2> QED
    BY <2>3, NoElements DEF EveryEventAccounted, Settled
<1> QED
  BY <1>1, <1>2, <1>3 DEF AuditInv

\* Every step keeps the invariant.
LEMMA AuditStep ==
  ASSUME AuditInv, [Next]_vars
  PROVE  AuditInv'
<1>1. CASE Enqueue
  BY <1>1, EnqueueKeeps
<1>2. CASE FlushLoop
  <2>1. Settled' = Settled /\ Len(taken) = 0 /\ Cardinality(Settled) \in Nat
    BY <1>2, NoElements, SettledFinite DEF FlushLoop, Settled, AuditInv
  <2>2. /\ journal' \in Seq(1..enqueued) /\ lost' \subseteq 1..enqueued
        /\ failures' \in 0..MaxFailures /\ Rising(journal') /\ Below(Settled', queue)
        /\ Cardinality(Settled') = Cardinality(Settled) + Len(taken)
        /\ phase' \in Phases
    BY <1>2, <2>1 DEF FlushLoop, AuditInv, AuditOrder, TypeOK
  <2> QED
    BY <1>2, <2>2, DrainKeeps DEF FlushLoop
<1>3. CASE FlushEnds
  <2>1. phase' \in Phases
    BY <1>3 DEF FlushEnds, AuditInv, TypeOK, Phases
  <2>2. (Insert(taken) /\ UNCHANGED <<lost, failures>>) \/ LoseBatch
    BY <1>3 DEF FlushEnds
  <2> QED
    BY <1>3, <2>1, <2>2, BatchSettles, SettleKeeps DEF FlushEnds
<1>4. CASE Shutdown
  <2>1. phase' \in Phases
    BY <1>4 DEF Shutdown, Phases
  <2> QED
    BY <1>4, <2>1, InterruptSettles, DrainKeeps DEF Shutdown
<1>5. CASE Kill
  <2>1. phase' \in Phases
    BY <1>5 DEF Kill, Phases
  <2> QED
    BY <1>5, <2>1, InterruptSettles, SettleKeeps DEF Kill
<1>6. CASE UNCHANGED vars
  BY <1>6 DEF vars, AuditInv, TypeOK, AuditOrder, EveryEventAccounted, Settled
<1> QED
  BY <1>1, <1>2, <1>3, <1>4, <1>5, <1>6 DEF Next

\* The invariant of the audit buffer holds in every state (core/audit.py).
THEOREM AuditInvariant == Spec => []AuditInv
<1>1. Init => AuditInv
  BY AuditInit
<1>2. AuditInv /\ [Next]_vars => AuditInv'
  BY AuditStep
<1> QED
  BY <1>1, <1>2, PTL DEF Spec

\* The buffer never holds more than AUDIT_QUEUE_MAX events, and all variables keep
\* their types.
THEOREM AuditTypes == Spec => []TypeOK
<1>1. AuditInv => TypeOK
  BY DEF AuditInv
<1> QED
  BY <1>1, AuditInvariant, PTL

\* The journal has each audit event once, in the order of the requests, across
\* evictions, failed flushes and the flush at shutdown.
THEOREM AuditJournalInOrder == Spec => []JournalKeepsOrder
<1>1. AuditInv => JournalKeepsOrder
  BY DEF AuditInv, AuditOrder, Rising, JournalKeepsOrder
<1> QED
  BY <1>1, AuditInvariant, PTL

\* No audit event vanishes silently: it waits, is written, was in a batch reported
\* as failed, or is counted in _dropped_events.
THEOREM AuditAccount == Spec => []EveryEventAccounted
<1>1. AuditInv => EveryEventAccounted
  BY DEF AuditInv
<1> QED
  BY <1>1, AuditInvariant, PTL

-----------------------------------------------------------------------------
(***************************************************************************)
(* The notifications.  A connection that has read and whose event is clear *)
(* has read after the last notification of its worker: the event is        *)
(* cleared before the read, so what comes later sets it again.             *)
(***************************************************************************)
UpToDate(v) ==
  view[v].at \in {"sending", "waiting"} /\ ~view[v].event /\ ~view[v].failed
    => view[v].shown >= heard[Home[v]]

EventsInv == EventsTypeOK /\ \A v \in Viewers : UpToDate(v)

\* Every connection is served by a process.
LEMMA ServersOfViewers ==
  /\ \A v \in Viewers : Home[v] \in Servers
  /\ WebWorkers \subseteq Servers
BY EventsAssumption DEF WebWorkers

\* Setting the events keeps every connection up to date (trigger_sse_update).
LEMMA TriggerKeeps ==
  ASSUME EventsInv, NEW p \in Servers, Trigger(p), UNCHANGED latest
  PROVE  /\ heard' \in [Servers -> 0..latest]
         /\ view' \in [Viewers -> Views]
         /\ \A v \in Viewers : view'[v].shown <= latest
         /\ \A v \in Viewers : UpToDate(v)'
<1>1. /\ latest \in Nat /\ heard \in [Servers -> 0..latest] /\ view \in [Viewers -> Views]
      /\ \A v \in Viewers : view[v].shown <= latest
  BY DEF EventsInv, EventsTypeOK
<1>2. heard' = [heard EXCEPT ![p] = latest] /\ heard' \in [Servers -> 0..latest]
  BY <1>1 DEF Trigger
<1>3. ASSUME NEW v \in Viewers
      PROVE  /\ view'[v] \in Views /\ view'[v].shown = view[v].shown
             /\ view'[v].at = view[v].at /\ view'[v].failed = view[v].failed
             /\ IF Home[v] = p /\ Subscribed(v) THEN view'[v].event = TRUE ELSE view'[v] = view[v]
  <2>1. view'[v] = IF Home[v] = p /\ Subscribed(v) THEN [view[v] EXCEPT !.event = TRUE] ELSE view[v]
    BY DEF Trigger
  <2>2. view[v] \in Views
    BY <1>1
  <2> QED
    BY <2>1, <2>2 DEF Views
<1>4. view' \in [Viewers -> Views]
  BY <1>3 DEF Trigger
<1>5. ASSUME NEW v \in Viewers
      PROVE  UpToDate(v)'
  <2>1. UpToDate(v) /\ Home[v] \in Servers
    BY ServersOfViewers DEF EventsInv
  <2>2. CASE Home[v] = p
    BY <1>3, <2>2 DEF UpToDate, Subscribed
  <2>3. CASE Home[v] # p
    BY <1>1, <1>2, <1>3, <2>1, <2>3 DEF UpToDate
  <2> QED
    BY <2>2, <2>3
<1> QED
  BY <1>1, <1>2, <1>3, <1>4, <1>5

\* What a step of one connection needs.
LEMMA BecomeKeeps ==
  ASSUME EventsInv, NEW v \in Viewers, NEW r \in Views, Become(v, r),
         r.shown <= latest, breaks' \in 0..MaxBreaks,
         r.at \in {"sending", "waiting"} /\ ~r.event /\ ~r.failed => r.shown >= heard[Home[v]]
  PROVE  EventsInv'
<1>1. /\ view \in [Viewers -> Views] /\ view' = [view EXCEPT ![v] = r]
      /\ UNCHANGED << latest, handler, publishing, listening, inbox, heard, cached, page, attempts >>
  BY DEF EventsInv, EventsTypeOK, Become
<1>2. EventsTypeOK'
  BY <1>1 DEF EventsInv, EventsTypeOK
<1>3. ASSUME NEW w \in Viewers
      PROVE  UpToDate(w)'
  BY <1>1 DEF EventsInv, UpToDate
<1> QED
  BY <1>2, <1>3 DEF EventsInv

\* A commit, before its notification or after it, makes nothing shown newer than the
\* database.
LEMMA CommitKeeps ==
  ASSUME EventsInv, latest' \in {latest, latest + 1},
         handler' \in [Servers -> {"idle", "committed", "notified"}], attempts' \in 0..MaxChanges,
         UNCHANGED << publishing, listening, inbox, heard, view, cached, page, breaks >>
  PROVE  EventsInv'
<1>1. latest \in Nat /\ latest' \in Nat /\ latest <= latest'
  BY DEF EventsInv, EventsTypeOK
<1>2. 0..latest \subseteq 0..latest'
  BY <1>1
<1>3. heard' \in [Servers -> 0..latest']
  BY <1>2 DEF EventsInv, EventsTypeOK
<1>4. \A v \in Viewers : view'[v].shown <= latest'
  <2> SUFFICES ASSUME NEW v \in Viewers PROVE view[v].shown <= latest'
    OBVIOUS
  <2>1. view[v].shown \in Nat /\ view[v].shown <= latest
    BY DEF EventsInv, EventsTypeOK, Views
  <2> QED
    BY <1>1, <2>1
<1>5. cached' \in SUBSET (0..latest') /\ page' \in SUBSET (0..latest')
  BY <1>2 DEF EventsInv, EventsTypeOK
<1>6. EventsTypeOK'
  BY <1>1, <1>3, <1>4, <1>5 DEF EventsInv, EventsTypeOK
<1> QED
  BY <1>6 DEF EventsInv, UpToDate

\* The invariant holds at the start.
LEMMA EventsStart == EventsInit => EventsInv
<1> SUFFICES ASSUME EventsInit PROVE EventsInv
  OBVIOUS
<1>1. /\ \A v \in Viewers : view[v] \in Views /\ view[v].shown = 0 /\ view[v].at \in {"new", "gone"}
      /\ view \in [Viewers -> Views]
  <2>1. view \in [Viewers -> {[at |-> place, event |-> FALSE, shown |-> 0, failed |-> FALSE] :
                             place \in {"new", "gone"}}]
    BY DEF EventsInit
  <2>2. ASSUME NEW v \in Viewers
        PROVE  view[v] \in Views /\ view[v].shown = 0 /\ view[v].at \in {"new", "gone"}
    <3>1. PICK place \in {"new", "gone"} :
             view[v] = [at |-> place, event |-> FALSE, shown |-> 0, failed |-> FALSE]
      BY <2>1
    <3> QED
      BY <3>1 DEF Views
  <2> QED
    BY <2>1, <2>2
<1>2. EventsTypeOK
  BY <1>1, EventsAssumption, ServersOfViewers DEF EventsInit, EventsTypeOK
<1>3. \A v \in Viewers : UpToDate(v)
  BY <1>1 DEF UpToDate
<1> QED
  BY <1>2, <1>3 DEF EventsInv

\* Every step keeps the connections up to date.
LEMMA EventsStep ==
  ASSUME EventsInv, [EventsNext]_eventVars
  PROVE  EventsInv'
<1> USE DEF EventsInv
<1>t. /\ latest \in Nat
      /\ handler \in [Servers -> {"idle", "committed", "notified"}]
      /\ publishing \in Nat
      /\ listening \in [Servers -> BOOLEAN]
      /\ inbox \in [Servers -> Nat]
      /\ heard \in [Servers -> 0..latest]
      /\ view \in [Viewers -> Views]
      /\ \A v \in Viewers : view[v].shown <= latest
      /\ cached \in SUBSET (0..latest) /\ page \in SUBSET (0..latest)
      /\ attempts \in 0..MaxChanges /\ breaks \in 0..MaxBreaks
      /\ MaxChanges \in Nat /\ MaxBreaks \in Nat
  BY EventsAssumption DEF EventsTypeOK
<1>1. ASSUME NEW p \in Servers, CommitFirst(p) PROVE EventsInv'
  <2>1. /\ latest' = latest + 1 /\ handler' = [handler EXCEPT ![p] = "committed"]
        /\ attempts' = attempts + 1 /\ attempts < MaxChanges
        /\ UNCHANGED << publishing, listening, inbox, heard, view, cached, page, breaks >>
    BY <1>1 DEF CommitFirst, Commits, Handler, Attempt
  <2> QED
    BY <1>t, <2>1, CommitKeeps
<1>2. ASSUME NEW p \in Servers, NotifyAfter(p) PROVE EventsInv'
  <2>1. Trigger(p) /\ UNCHANGED latest
    BY <1>2 DEF NotifyAfter, Notify
  <2>2. EventsTypeOK'
    BY <1>t, <1>2, <2>1, TriggerKeeps DEF NotifyAfter, Notify, Handler, EventsTypeOK
  <2> QED
    BY <2>1, <2>2, TriggerKeeps
<1>3. ASSUME NEW p \in Servers, NotifyFirst(p) PROVE EventsInv'
  <2>1. Trigger(p) /\ UNCHANGED latest
    BY <1>3 DEF NotifyFirst, Notify
  <2>2. EventsTypeOK'
    BY <1>t, <1>3, <2>1, TriggerKeeps DEF NotifyFirst, Notify, Handler, Attempt, EventsTypeOK
  <2> QED
    BY <2>1, <2>2, TriggerKeeps
<1>4. ASSUME NEW p \in Servers, CommitAfter(p) PROVE EventsInv'
  <2>1. /\ latest' \in {latest, latest + 1} /\ handler' = [handler EXCEPT ![p] = "idle"]
        /\ attempts' = attempts
        /\ UNCHANGED << publishing, listening, inbox, heard, view, cached, page, breaks >>
    BY <1>4 DEF CommitAfter, Commits, Handler
  <2> QED
    BY <1>t, <2>1, CommitKeeps
<1>5. ASSUME Publish PROVE EventsInv'
  <2>1. publishing' \in Nat /\ breaks' \in 0..MaxBreaks /\ inbox' \in [Servers -> Nat]
        /\ cached' \in SUBSET (0..latest)
        /\ UNCHANGED << latest, handler, listening, heard, view, page, attempts >>
    <3>1. CASE cached' = {} /\ UNCHANGED breaks
               /\ inbox' = [p \in Servers |-> IF listening[p] THEN inbox[p] + 1 ELSE inbox[p]]
      <4>1. inbox' \in [Servers -> Nat]
        BY <1>t, <3>1
      <4> QED
        BY <1>t, <1>5, <3>1, <4>1 DEF Publish
    <3>2. CASE Break /\ cached' \in {{}, cached} /\ UNCHANGED inbox
      <4>1. breaks' \in 0..MaxBreaks /\ inbox' \in [Servers -> Nat] /\ cached' \in SUBSET (0..latest)
        <5>1. breaks' \in 0..MaxBreaks
          BY <1>t, <3>2 DEF Break
        <5>2. cached' = {} \/ cached' = cached
          BY <3>2
        <5> QED
          BY <1>t, <3>2, <5>1, <5>2
      <4>2. publishing > 0 /\ publishing' = publishing - 1
            /\ UNCHANGED << latest, handler, listening, heard, view, page, attempts >>
        BY <1>5 DEF Publish
      <4> QED
        BY <1>t, <4>1, <4>2
    <3> QED
      BY <1>5, <3>1, <3>2 DEF Publish
  <2> QED
    BY <1>t, <2>1 DEF EventsTypeOK, UpToDate
<1>6. ASSUME NEW p \in Servers, Deliver(p) PROVE EventsInv'
  <2>1. Trigger(p) /\ UNCHANGED latest
    BY <1>6 DEF Deliver
  <2>2. EventsTypeOK'
    BY <1>t, <1>6, <2>1, TriggerKeeps DEF Deliver, EventsTypeOK
  <2> QED
    BY <2>1, <2>2, TriggerKeeps
<1>7. ASSUME NEW p \in Servers, Disconnect(p) PROVE EventsInv'
  BY <1>t, <1>7 DEF Disconnect, Break, EventsTypeOK, UpToDate
<1>8. ASSUME NEW p \in Servers, Reconnect(p) PROVE EventsInv'
  BY <1>t, <1>8 DEF Reconnect, EventsTypeOK, UpToDate
<1>9. ASSUME NEW v \in Viewers, Connect(v) PROVE EventsInv'
  <2> DEFINE r == [view[v] EXCEPT !.at = "reading"]
  <2>1. view[v] \in Views
    BY <1>t
  <2>2. r \in Views /\ r.at = "reading" /\ r.shown = view[v].shown
    BY <2>1 DEF Views
  <2> QED
    BY <1>t, <1>9, <2>2, BecomeKeeps DEF Connect
<1>10. ASSUME NEW v \in Viewers, Fetch(v) PROVE EventsInv'
  <2> DEFINE r == [view[v] EXCEPT !.at = "sending", !.shown = latest, !.failed = FALSE]
  <2>1. view[v] \in Views
    BY <1>t
  <2>2. r \in Views /\ r.shown = latest
    BY <1>t, <2>1 DEF Views
  <2>3. latest >= heard[Home[v]] /\ latest <= latest
    BY <1>t, ServersOfViewers
  <2> QED
    BY <1>t, <1>10, <2>2, <2>3, BecomeKeeps DEF Fetch
<1>11. ASSUME NEW v \in Viewers, FetchFails(v) PROVE EventsInv'
  <2> DEFINE r == [view[v] EXCEPT !.at = IF v \in Streams THEN "waiting" ELSE "gone", !.failed = TRUE]
  <2>1. view[v] \in Views
    BY <1>t
  <2>2. r \in Views /\ r.shown = view[v].shown /\ r.failed = TRUE
    BY <2>1 DEF Views
  <2> QED
    <3>1. breaks' \in 0..MaxBreaks /\ Become(v, r)
      BY <1>t, <1>11 DEF FetchFails, Break
    <3>2. r.shown <= latest
      BY <1>t, <2>2
    <3> HIDE DEF r
    <3> QED
      BY <2>2, <3>1, <3>2, BecomeKeeps
<1>12. ASSUME NEW v \in Viewers, Send(v) PROVE EventsInv'
  <2> DEFINE r == Sent(v)
  <2>1. view[v] \in Views /\ UpToDate(v) /\ view[v].at = "sending"
    BY <1>t, <1>12 DEF Send
  <2>2. /\ r \in Views /\ r.shown = view[v].shown /\ r.failed = view[v].failed
        /\ r.event = view[v].event
    BY <2>1 DEF Views, Sent
  <2>3. ~r.event /\ ~r.failed => r.shown >= heard[Home[v]]
    BY <2>1, <2>2 DEF UpToDate
  <2> QED
    BY <1>t, <1>12, <2>2, <2>3, BecomeKeeps DEF Send
<1>13. ASSUME NEW v \in Viewers, Wake(v) PROVE EventsInv'
  <2> DEFINE r == [view[v] EXCEPT !.at = "reading", !.event = FALSE]
  <2>1. view[v] \in Views
    BY <1>t
  <2>2. r \in Views /\ r.at = "reading" /\ r.shown = view[v].shown
    BY <2>1 DEF Views
  <2> QED
    BY <1>t, <1>13, <2>2, BecomeKeeps DEF Wake
<1>14. ASSUME NEW v \in Viewers, Poll(v) PROVE EventsInv'
  <2> DEFINE r == [view[v] EXCEPT !.at = "reading"]
  <2>1. view[v] \in Views
    BY <1>t
  <2>2. r \in Views /\ r.at = "reading" /\ r.shown = view[v].shown
    BY <2>1 DEF Views
  <2> QED
    BY <1>t, <1>14, <2>2, BecomeKeeps DEF Poll
<1>15. ASSUME NEW v \in Viewers, Close(v) PROVE EventsInv'
  <2> DEFINE r == [view[v] EXCEPT !.at = "gone"]
  <2>1. view[v] \in Views
    BY <1>t
  <2>2. r \in Views /\ r.at = "gone" /\ r.shown = view[v].shown
    BY <2>1 DEF Views
  <2> QED
    BY <1>t, <1>15, <2>2, BecomeKeeps DEF Close
<1>16. ASSUME CountForPage PROVE EventsInv'
  BY <1>t, <1>16 DEF CountForPage, EventsTypeOK, UpToDate
<1>17. ASSUME CachePage PROVE EventsInv'
  BY <1>t, <1>17 DEF CachePage, EventsTypeOK, UpToDate
<1>18. ASSUME CacheExpires PROVE EventsInv'
  BY <1>t, <1>18 DEF CacheExpires, EventsTypeOK, UpToDate
<1>19. ASSUME UNCHANGED eventVars PROVE EventsInv'
  BY <1>t, <1>19 DEF eventVars, EventsTypeOK, UpToDate
<1> QED
  BY <1>1, <1>2, <1>3, <1>4, <1>5, <1>6, <1>7, <1>8, <1>9, <1>10, <1>11, <1>12, <1>13,
     <1>14, <1>15, <1>16, <1>17, <1>18, <1>19 DEF EventsNext

\* All variables of the notifications keep their types.
THEOREM EventsTypes == EventsSpec => []EventsTypeOK
<1>1. EventsInit => EventsInv
  BY EventsStart
<1>2. EventsInv /\ [EventsNext]_eventVars => EventsInv'
  BY EventsStep
<1>3. EventsInv => EventsTypeOK
  BY DEF EventsInv
<1> QED
  BY <1>1, <1>2, <1>3, PTL DEF EventsSpec

\* No wake-up is lost: a stream or a socket at rest with a clear event has sent what is
\* at least as new as the last notification of its worker.
THEOREM EventsWakeUps == EventsSpec => []NoWakeUpLost
<1>1. EventsInit => EventsInv
  BY EventsStart
<1>2. EventsInv /\ [EventsNext]_eventVars => EventsInv'
  BY EventsStep
<1>3. EventsInv => NoWakeUpLost
  BY DEF EventsInv, UpToDate, NoWakeUpLost
<1> QED
  BY <1>1, <1>2, <1>3, PTL DEF EventsSpec

-----------------------------------------------------------------------------
(***************************************************************************)
(* The computation of a cached value.  While nothing has upset the cache   *)
(* and the value is not stored, no lock has been released: there is one,   *)
(* it is in the registry, and whoever has left the first look is behind    *)
(* it.  A call creates at most one lock.                                    *)
(***************************************************************************)
Missed == {c \in Callers : At(c, "missed")}

Behind(c) == call[c].at \in {"queued", "checking", "computing"}
Inside(c) == call[c].at \in {"checking", "computing"}

OneLock ==
  /\ registry # 0 => locked[registry]
  /\ \A c \in Callers : Behind(c) => registry # 0 /\ call[c].lock = registry
  /\ \A c, d \in Callers : Inside(c) /\ Inside(d) => c = d

ComputeInv ==
  /\ ComputeTypeOK
  /\ locks + Cardinality(Missed) <= rounds
  /\ upsets = 0 => IF stored THEN \A c \in Callers : ~At(c, "computing") ELSE OneLock

\* Finitely many callers have missed the cache and not queued yet.
LEMMA MissedFinite == IsFiniteSet(Missed) /\ Cardinality(Missed) \in Nat
<1>1. Missed \in SUBSET Callers
  BY DEF Missed
<1>2. IsFiniteSet(Missed)
  BY <1>1, CacheAssumption, FS_Subset
<1> QED
  BY <1>2, FS_CardinalityType

\* A call that ends or waits is no longer one that missed.
LEMMA MissedShrinks ==
  ASSUME NEW c \in Callers, call' = [call EXCEPT ![c] = call'[c]], DOMAIN call = Callers,
         call'[c].at # "missed"
  PROVE  /\ Cardinality(Missed') \in Nat /\ Cardinality(Missed') <= Cardinality(Missed)
         /\ c \in Missed => Cardinality(Missed') + 1 = Cardinality(Missed)
<1>1. Missed' = Missed \ {c}
  <2>1. ASSUME NEW d \in Callers PROVE d \in Missed' <=> d \in Missed \ {c}
    BY DEF Missed, At
  <2>2. Missed' \subseteq Callers /\ Missed \ {c} \subseteq Callers
    BY DEF Missed
  <2> QED
    BY <2>1, <2>2
<1>2. /\ IsFiniteSet(Missed \ {c})
      /\ Cardinality(Missed \ {c}) = IF c \in Missed THEN Cardinality(Missed) - 1 ELSE Cardinality(Missed)
  BY MissedFinite, FS_RemoveElement
<1>3. Cardinality(Missed \ {c}) \in Nat
  BY <1>2, FS_CardinalityType
<1> QED
  BY <1>1, <1>2, <1>3, MissedFinite

\* asyncio.Lock.acquire cancelled: the waiter leaves the queue.
LEMMA RemovedWaiter ==
  ASSUME NEW s \in Seq(Callers), NEW k \in 1..Len(s)
  PROVE  RemoveAt(s, k) \in Seq(Callers)
<1>1. Len(s) \in Nat /\ \A i \in 1..Len(s) : s[i] \in Callers
  BY LenProperties, ElementOfSeq
<1>2. SubSeq(s, 1, k - 1) \in Seq(Callers)
  <2>1. \A i \in 1..(k - 1) : s[i] \in Callers
    BY <1>1
  <2>2. 1 \in Int /\ k - 1 \in Int
    BY <1>1
  <2> QED
    BY <2>1, <2>2, SubSeqProperties
<1>3. SubSeq(s, k + 1, Len(s)) \in Seq(Callers)
  <2>1. \A i \in (k + 1)..Len(s) : s[i] \in Callers
    BY <1>1
  <2>2. k + 1 \in Int /\ Len(s) \in Int
    BY <1>1
  <2> QED
    BY <2>1, <2>2, SubSeqProperties
<1> QED
  BY <1>2, <1>3, ConcatProperties DEF RemoveAt

\* The invariant holds at the start.
LEMMA ComputeStart == ComputeInit => ComputeInv
<1> SUFFICES ASSUME ComputeInit PROVE ComputeInv
  OBVIOUS
<1>1. Missed = {}
  BY DEF ComputeInit, Missed, At
<1>2. Cardinality(Missed) = 0
  BY <1>1, FS_EmptySet
<1>3. ComputeTypeOK
  BY CacheAssumption, EmptySeq DEF ComputeInit, ComputeTypeOK, LockIds, Places
<1>4. OneLock
  BY DEF ComputeInit, OneLock, Behind, Inside
<1> QED
  BY <1>2, <1>3, <1>4 DEF ComputeInv, ComputeInit

\* The release of a lock keeps the types and creates nothing.
LEMMA LeaveKeeps ==
  ASSUME ComputeInv, NEW c \in Callers, Leave(c), stored' \in BOOLEAN, upsets' \in 0..MaxUpsets
  PROVE  ComputeTypeOK' /\ locks' + Cardinality(Missed') <= rounds'
<1>1. /\ registry \in LockIds /\ locks \in LockIds /\ locked \in [LockIds -> BOOLEAN]
      /\ waiters \in [LockIds -> Seq(Callers)]
      /\ call \in [Callers -> [at : Places, lock : LockIds]]
      /\ rounds \in 0..MaxRounds /\ locks + Cardinality(Missed) <= rounds
      /\ MaxRounds \in Nat /\ LockIds = 0..MaxRounds
  BY CacheAssumption DEF ComputeInv, ComputeTypeOK, LockIds
<1>2. /\ locked' = [locked EXCEPT ![call[c].lock] = FALSE]
      /\ registry' \in {registry, 0}
      /\ call' = [call EXCEPT ![c] = [at |-> "idle", lock |-> 0]]
      /\ UNCHANGED << waiters, locks, rounds >>
  BY DEF Leave
<1>3. call'[c] = [at |-> "idle", lock |-> 0] /\ call' \in [Callers -> [at : Places, lock : LockIds]]
  BY <1>1, <1>2 DEF Places
<1>4. ComputeTypeOK'
  BY <1>1, <1>2, <1>3 DEF ComputeTypeOK, LockIds
<1>5. Cardinality(Missed') \in Nat /\ Cardinality(Missed') <= Cardinality(Missed)
  BY <1>1, <1>2, <1>3, MissedShrinks
<1> QED
  BY <1>1, <1>2, <1>4, <1>5, MissedFinite

\* Every step keeps the invariant.
LEMMA ComputeStep ==
  ASSUME ComputeInv, [ComputeNext]_computeVars
  PROVE  ComputeInv'
<1>t. /\ stored \in BOOLEAN
      /\ registry \in LockIds /\ locks \in LockIds /\ locked \in [LockIds -> BOOLEAN]
      /\ waiters \in [LockIds -> Seq(Callers)]
      /\ call \in [Callers -> [at : Places, lock : LockIds]]
      /\ rounds \in 0..MaxRounds /\ upsets \in 0..MaxUpsets
      /\ locks + Cardinality(Missed) <= rounds
      /\ upsets = 0 => IF stored THEN \A c \in Callers : ~At(c, "computing") ELSE OneLock
  BY DEF ComputeInv, ComputeTypeOK
<1>n. /\ MaxRounds \in Nat /\ MaxUpsets \in Nat /\ LockIds = 0..MaxRounds
      /\ Cardinality(Missed) \in Nat
  BY CacheAssumption, MissedFinite DEF LockIds
<1>1. ASSUME NEW c \in Callers, Look(c) PROVE ComputeInv'
  <2>1. /\ call[c].at = "idle" /\ ~stored /\ rounds < MaxRounds /\ rounds' = rounds + 1
        /\ call' = [call EXCEPT ![c].at = "missed"]
        /\ UNCHANGED << stored, registry, locked, waiters, locks, upsets >>
    BY <1>1 DEF Look, At
  <2>2. /\ call'[c] = [call[c] EXCEPT !.at = "missed"]
        /\ call'[c].at = "missed" /\ call'[c].lock = call[c].lock
        /\ \A d \in Callers : d # c => call'[d] = call[d]
    BY <1>t, <2>1
  <2>3. ComputeTypeOK'
    <3>1. call' \in [Callers -> [at : Places, lock : LockIds]]
      BY <1>t, <2>1 DEF Places
    <3>2. rounds' \in 0..MaxRounds
      BY <1>t, <1>n, <2>1
    <3> QED
      BY <1>t, <2>1, <3>1, <3>2 DEF ComputeTypeOK, LockIds
  <2>4. Missed' = Missed \cup {c} /\ c \notin Missed
    BY <2>1, <2>2 DEF Missed, At
  <2>5. Cardinality(Missed') = Cardinality(Missed) + 1
    BY <2>4, MissedFinite, FS_AddElement
  <2>6. upsets = 0 => OneLock'
    BY <1>t, <2>1, <2>2 DEF OneLock, Behind, Inside
  <2> QED
    BY <1>t, <1>n, <2>1, <2>3, <2>5, <2>6 DEF ComputeInv
<1>2. ASSUME NEW c \in Callers, Lock(c) PROVE ComputeInv'
  <2> DEFINE l == IF registry = 0 THEN locks + 1 ELSE registry
             free == ~locked[l] /\ waiters[l] = <<>>
  <2>1. /\ call[c].at = "missed"
        /\ registry' = l /\ locks' = (IF registry = 0 THEN l ELSE locks)
        /\ locked' = [locked EXCEPT ![l] = TRUE]
        /\ waiters' = (IF free THEN waiters ELSE [waiters EXCEPT ![l] = Append(@, c)])
        /\ call' = [call EXCEPT ![c] = [at |-> IF free THEN "checking" ELSE "queued", lock |-> l]]
        /\ UNCHANGED << stored, rounds, upsets >>
    BY <1>2 DEF Lock, At
  <2>2. c \in Missed
    BY <2>1 DEF Missed, At
  <2>3. call'[c] = [at |-> IF free THEN "checking" ELSE "queued", lock |-> l]
        /\ \A d \in Callers : d # c => call'[d] = call[d]
    BY <1>t, <2>1
  <2>4. /\ Cardinality(Missed') \in Nat
        /\ Cardinality(Missed') + 1 = Cardinality(Missed)
    <3>1. call' = [call EXCEPT ![c] = call'[c]] /\ DOMAIN call = Callers /\ call'[c].at # "missed"
      BY <1>t, <2>1, <2>3
    <3> QED
      BY <2>2, <3>1, MissedShrinks
  <2>5. l \in LockIds /\ l # 0 /\ locks' + Cardinality(Missed') <= rounds'
    <3> DEFINE k == Cardinality(Missed)
               m == Cardinality(Missed')
    <3>1. k \in Nat /\ m \in Nat /\ m + 1 = k /\ locks + k <= rounds
      BY <1>t, <1>n, <2>4
    <3> HIDE DEF k, m
    <3>2. l \in LockIds /\ l # 0 /\ locks' + m <= rounds'
      BY <1>t, <1>n, <2>1, <3>1
    <3> QED
      BY <3>2 DEF m
  <2>6. registry' \in LockIds /\ locks' \in LockIds
    BY <1>t, <2>1, <2>5
  <2> HIDE DEF l
  <2>7. ComputeTypeOK'
    <3>1. locked' \in [LockIds -> BOOLEAN]
      BY <1>t, <2>1
    <3>2. waiters' \in [LockIds -> Seq(Callers)]
      <4>1. Append(waiters[l], c) \in Seq(Callers)
        BY <1>t, <2>5, AppendProperties
      <4> QED
        BY <1>t, <2>1, <4>1
    <3>3. call' \in [Callers -> [at : Places, lock : LockIds]]
      BY <1>t, <2>1, <2>5 DEF Places
    <3> QED
      BY <1>t, <2>1, <2>6, <3>1, <3>2, <3>3 DEF ComputeTypeOK, LockIds
  <2>8. ASSUME upsets = 0, ~stored PROVE OneLock'
    <3>1. OneLock
      BY <1>t, <2>8
    <3>2. locked'[l] = TRUE /\ registry' = l
      BY <1>t, <2>1, <2>5
    <3>3. CASE registry = 0
      <4>1. \A d \in Callers : d # c => ~Behind(d)'
        BY <2>3, <3>1, <3>3 DEF OneLock, Behind
      <4>2. \A d \in Callers : Inside(d)' => Behind(d)'
        BY DEF Inside, Behind
      <4> QED
        BY <2>3, <2>5, <3>2, <4>1, <4>2 DEF OneLock
    <3>4. CASE registry # 0
      <4>1. l = registry /\ ~free
        BY <3>1, <3>4 DEF OneLock, l
      <4>2. call'[c] = [at |-> "queued", lock |-> registry]
        BY <2>3, <4>1
      <4> QED
        BY <2>3, <2>5, <3>1, <3>2, <4>1, <4>2 DEF OneLock, Behind, Inside
    <3> QED
      BY <3>3, <3>4
  <2>9. ASSUME upsets = 0, stored PROVE \A d \in Callers : ~At(d, "computing")'
    <3>1. call'[c].at # "computing"
      BY <2>3
    <3>2. \A d \in Callers : call[d].at # "computing"
      BY <1>t, <2>9 DEF At
    <3> QED
      BY <2>3, <3>1, <3>2 DEF At
  <2> QED
    BY <2>1, <2>5, <2>7, <2>8, <2>9 DEF ComputeInv
<1>3. ASSUME NEW c \in Callers, TakeOver(c) PROVE ComputeInv'
  <2> DEFINE l == call[c].lock
  <2>1. /\ call[c].at = "queued" /\ ~locked[l] /\ waiters[l] # <<>>
        /\ locked' = [locked EXCEPT ![l] = TRUE]
        /\ waiters' = [waiters EXCEPT ![l] = Tail(@)]
        /\ call' = [call EXCEPT ![c].at = "checking"]
        /\ UNCHANGED << stored, registry, locks, rounds, upsets >>
    BY <1>3 DEF TakeOver, At
  <2>2. l \in LockIds /\ Tail(waiters[l]) \in Seq(Callers)
    BY <1>t, <2>1, HeadTailProperties
  <2>3. /\ call'[c] = [call[c] EXCEPT !.at = "checking"]
        /\ call'[c].at = "checking"
        /\ \A d \in Callers : d # c => call'[d] = call[d]
    BY <1>t, <2>1
  <2>4. ComputeTypeOK'
    <3>1. call' \in [Callers -> [at : Places, lock : LockIds]]
      BY <1>t, <2>1 DEF Places
    <3>2. waiters' \in [LockIds -> Seq(Callers)]
      BY <1>t, <2>1, <2>2
    <3> QED
      BY <1>t, <2>1, <3>1, <3>2 DEF ComputeTypeOK, LockIds
  <2>5. Cardinality(Missed') \in Nat /\ Cardinality(Missed') <= Cardinality(Missed)
    <3>1. call' = [call EXCEPT ![c] = call'[c]] /\ DOMAIN call = Callers /\ call'[c].at # "missed"
      BY <1>t, <2>1, <2>3
    <3> QED
      BY <3>1, MissedShrinks
  <2>6. ASSUME upsets = 0, ~stored PROVE FALSE
    BY <1>t, <2>1, <2>6 DEF OneLock, Behind
  <2>7. ASSUME upsets = 0, stored PROVE \A d \in Callers : ~At(d, "computing")'
    BY <1>t, <2>3, <2>7 DEF At
  <2> QED
    BY <1>t, <1>n, <2>1, <2>4, <2>5, <2>6, <2>7, SMTT(30) DEF ComputeInv
<1>4. ASSUME NEW c \in Callers, HitUnderLock(c) PROVE ComputeInv'
  <2>1. Leave(c) /\ stored /\ UNCHANGED << stored, upsets >>
    BY <1>4 DEF HitUnderLock, LookAgain
  <2>2. ComputeTypeOK' /\ locks' + Cardinality(Missed') <= rounds'
    BY <1>t, <2>1, LeaveKeeps
  <2>3. upsets = 0 => \A d \in Callers : ~At(d, "computing")'
    BY <1>t, <2>1 DEF At, Leave
  <2> QED
    BY <2>1, <2>2, <2>3 DEF ComputeInv
<1>5. ASSUME NEW c \in Callers, Compute(c) PROVE ComputeInv'
  <2>1. /\ call[c].at = "checking" /\ ~stored
        /\ call' = [call EXCEPT ![c].at = "computing"]
        /\ UNCHANGED << stored, registry, locked, waiters, locks, rounds, upsets >>
    BY <1>5 DEF Compute, At, LookAgain
  <2>2. /\ call'[c] = [call[c] EXCEPT !.at = "computing"]
        /\ call'[c].at = "computing" /\ call'[c].lock = call[c].lock
        /\ \A d \in Callers : d # c => call'[d] = call[d]
    BY <1>t, <2>1
  <2>3. ComputeTypeOK'
    <3>1. call' \in [Callers -> [at : Places, lock : LockIds]]
      BY <1>t, <2>1 DEF Places
    <3> QED
      BY <1>t, <2>1, <3>1 DEF ComputeTypeOK, LockIds
  <2>4. Cardinality(Missed') \in Nat /\ Cardinality(Missed') <= Cardinality(Missed)
    <3>1. call' = [call EXCEPT ![c] = call'[c]] /\ DOMAIN call = Callers /\ call'[c].at # "missed"
      BY <1>t, <2>1, <2>2
    <3> QED
      BY <3>1, MissedShrinks
  <2>5. upsets = 0 => OneLock'
    <3>1. \A d \in Callers : (Behind(d)' <=> Behind(d)) /\ (Inside(d)' <=> Inside(d))
      BY <2>1, <2>2 DEF Behind, Inside
    <3>2. \A d \in Callers : call'[d].lock = call[d].lock
      BY <2>2
    <3> QED
      BY <1>t, <2>1, <3>1, <3>2 DEF OneLock
  <2> QED
    BY <1>t, <1>n, <2>1, <2>3, <2>4, <2>5 DEF ComputeInv
<1>6. ASSUME NEW c \in Callers, Computed(c) PROVE ComputeInv'
  <2>1. call[c].at = "computing" /\ Leave(c) /\ stored' = TRUE /\ UNCHANGED upsets
    BY <1>6 DEF Computed, At
  <2>2. ComputeTypeOK' /\ locks' + Cardinality(Missed') <= rounds'
    BY <1>t, <2>1, LeaveKeeps
  <2>3. ASSUME upsets = 0, NEW d \in Callers, At(d, "computing")' PROVE FALSE
    <3>1. call'[c].at = "idle" /\ (d # c => call'[d] = call[d])
      BY <1>t, <2>1 DEF Leave
    <3>2. d # c /\ call[d].at = "computing"
      BY <2>3, <3>1 DEF At
    <3>3. ~stored /\ OneLock
      BY <1>t, <2>1, <2>3 DEF At
    <3> QED
      BY <2>1, <3>2, <3>3 DEF OneLock, Inside
  <2> QED
    BY <2>1, <2>2, <2>3 DEF ComputeInv
<1>7. ASSUME NEW c \in Callers, ComputesNothing(c) PROVE ComputeInv'
  <2>1. Leave(c) /\ UNCHANGED stored /\ upsets < MaxUpsets /\ upsets' = upsets + 1
    BY <1>7 DEF ComputesNothing, Upset
  <2>2. upsets' \in 0..MaxUpsets /\ upsets' # 0
    BY <1>t, <1>n, <2>1
  <2>3. ComputeTypeOK' /\ locks' + Cardinality(Missed') <= rounds'
    BY <1>t, <2>1, <2>2, LeaveKeeps
  <2> QED
    BY <2>2, <2>3 DEF ComputeInv
<1>8. ASSUME NEW c \in Callers, GiveUp(c) PROVE ComputeInv'
  <2> DEFINE l == call[c].lock
  <2>1. /\ call[c].at = "queued"
        /\ registry' = (IF ~locked[l] /\ registry = l THEN 0 ELSE registry)
        /\ call' = [call EXCEPT ![c] = [at |-> "idle", lock |-> 0]]
        /\ UNCHANGED << stored, locked, locks, rounds, upsets >>
    BY <1>8 DEF GiveUp, At
  <2>2. PICK k \in 1..Len(waiters[l]) : waiters' = [waiters EXCEPT ![l] = RemoveAt(@, k)]
    BY <1>8 DEF GiveUp
  <2>3. waiters' \in [LockIds -> Seq(Callers)]
    <3>1. l \in LockIds /\ waiters[l] \in Seq(Callers)
      BY <1>t
    <3>2. RemoveAt(waiters[l], k) \in Seq(Callers)
      BY <2>2, <3>1, RemovedWaiter
    <3> QED
      BY <1>t, <2>2, <3>1, <3>2
  <2>4. call'[c] = [at |-> "idle", lock |-> 0] /\ \A d \in Callers : d # c => call'[d] = call[d]
    BY <1>t, <2>1
  <2>5. ComputeTypeOK'
    <3>1. call' \in [Callers -> [at : Places, lock : LockIds]]
      BY <1>t, <1>n, <2>1 DEF Places
    <3> QED
      BY <1>t, <1>n, <2>1, <2>3, <3>1 DEF ComputeTypeOK, LockIds
  <2>6. Cardinality(Missed') \in Nat /\ Cardinality(Missed') <= Cardinality(Missed)
    <3>1. call' = [call EXCEPT ![c] = call'[c]] /\ DOMAIN call = Callers /\ call'[c].at # "missed"
      BY <1>t, <2>1, <2>4
    <3> QED
      BY <3>1, MissedShrinks
  <2>7. ASSUME upsets = 0, ~stored PROVE OneLock'
    <3>1. OneLock
      BY <1>t, <2>7
    <3>2. registry' = registry
      BY <2>1, <3>1 DEF OneLock, Behind
    <3> QED
      BY <2>1, <2>4, <3>1, <3>2 DEF OneLock, Behind, Inside
  <2>8. ASSUME upsets = 0, stored PROVE \A d \in Callers : ~At(d, "computing")'
    <3>1. call'[c].at # "computing"
      BY <2>4
    <3>2. \A d \in Callers : call[d].at # "computing"
      BY <1>t, <2>8 DEF At
    <3> QED
      BY <2>4, <3>1, <3>2 DEF At
  <2>9. locks' + Cardinality(Missed') <= rounds'
    BY <1>t, <1>n, <2>1, <2>6
  <2> QED
    BY <2>1, <2>5, <2>7, <2>8, <2>9 DEF ComputeInv
<1>9. ASSUME Forget PROVE ComputeInv'
  <2>1. /\ upsets' = upsets + 1 /\ upsets < MaxUpsets /\ stored' = FALSE
        /\ UNCHANGED << registry, locked, waiters, call, locks, rounds >>
    BY <1>9 DEF Forget, Upset
  <2>2. Missed' = Missed /\ upsets' \in 0..MaxUpsets /\ upsets' # 0
    BY <1>t, <1>n, <2>1 DEF Missed, At
  <2> QED
    BY <1>t, <2>1, <2>2 DEF ComputeInv, ComputeTypeOK
<1>10. ASSUME Evict PROVE ComputeInv'
  <2>1. /\ upsets' = upsets + 1 /\ upsets < MaxUpsets /\ registry' = 0
        /\ UNCHANGED << stored, locked, waiters, call, locks, rounds >>
    BY <1>10 DEF Evict, Upset
  <2>2. Missed' = Missed /\ upsets' \in 0..MaxUpsets /\ upsets' # 0 /\ registry' \in LockIds
    BY <1>t, <1>n, <2>1 DEF Missed, At
  <2> QED
    BY <1>t, <2>1, <2>2 DEF ComputeInv, ComputeTypeOK, LockIds
<1>11. ASSUME UNCHANGED computeVars PROVE ComputeInv'
  BY <1>11 DEF computeVars, ComputeInv, ComputeTypeOK, Missed, At, OneLock, Behind, Inside
<1> QED
  BY <1>1, <1>2, <1>3, <1>4, <1>5, <1>6, <1>7, <1>8, <1>9, <1>10, <1>11 DEF ComputeNext

\* The invariant of the cache holds in every state (core/cache.py, cache_get_or_set).
THEOREM ComputeInvariant == ComputeSpec => []ComputeInv
<1>1. ComputeInv /\ [ComputeNext]_computeVars => ComputeInv'
  BY ComputeStep
<1> QED
  BY <1>1, ComputeStart, PTL DEF ComputeSpec

\* Two calls compute the value of a key at the same time only after a computation that
\* stored nothing, a deletion or an eviction (cache_get_or_set).
THEOREM ComputedOnce == ComputeSpec => []OverlapHasCause
<1>1. ComputeInv => OverlapHasCause
  <2> SUFFICES ASSUME ComputeInv, upsets = 0
               PROVE  ~(Cardinality({c \in Callers : At(c, "computing")}) > 1)
    BY DEF OverlapHasCause, ComputeInv, ComputeTypeOK
  <2> DEFINE S == {c \in Callers : At(c, "computing")}
  <2>1. \A c, d \in S : c = d
    BY DEF ComputeInv, OneLock, Inside, At
  <2>2. CASE S = {}
    BY <2>2, FS_EmptySet
  <2>3. CASE S # {}
    <3>1. PICK c \in S : TRUE
      BY <2>3
    <3>2. S = {c}
      BY <2>1, <3>1
    <3> QED
      <4>1. Cardinality(S) = 1
        BY <3>2, FS_Singleton
      <4> QED
        BY <4>1
  <2> QED
    BY <2>2, <2>3
<1> QED
  BY <1>1, ComputeInvariant, PTL
-----------------------------------------------------------------------------
(***************************************************************************)
(* Rate limits (RateLimits).                                               *)
(***************************************************************************)

\* The rows that are not older than t, and the slots whose request is at a stage.
Since(times, t) == {k \in DOMAIN times : times[k] >= t}
Serving(st, s) == {j \in Slots : st[j] = s}

Stages == {"none", "password", "record", "clear", "insert"}

LEMMA SinceFinite ==
  ASSUME NEW s \in Seq(Nat), NEW t
  PROVE  /\ IsFiniteSet(Since(s, t))
         /\ Cardinality(Since(s, t)) \in Nat
<1>1. Len(s) \in Nat /\ DOMAIN s = 1..Len(s)
  BY LenProperties
<1>2. IsFiniteSet(1..Len(s))
  BY <1>1, FS_Interval
<1>3. Since(s, t) \in SUBSET (1..Len(s))
  BY <1>1 DEF Since
<1>4. IsFiniteSet(Since(s, t))
  BY <1>2, <1>3, FS_Subset
<1> QED
  BY <1>4, FS_CardinalityType

\* A later time counts no more rows.
LEMMA SinceLater ==
  ASSUME NEW s \in Seq(Nat), NEW t \in Nat, NEW u \in Nat, t <= u
  PROVE  Cardinality(Since(s, u)) <= Cardinality(Since(s, t))
<1>1. DOMAIN s = 1..Len(s) /\ s \in [1..Len(s) -> Nat]
  BY LenProperties
<1>2. Since(s, u) \in SUBSET Since(s, t)
  BY <1>1 DEF Since
<1> QED
  BY <1>2, SinceFinite, FS_Subset

\* A row that is added counts once.
LEMMA SinceAppend ==
  ASSUME NEW s \in Seq(Nat), NEW x \in Nat, NEW t \in Nat
  PROVE  /\ Append(s, x) \in Seq(Nat)
         /\ Cardinality(Since(Append(s, x), t)) = Cardinality(Since(s, t)) + (IF x >= t THEN 1 ELSE 0)
<1> DEFINE r == Append(s, x)
<1>1. /\ Len(s) \in Nat
      /\ DOMAIN s = 1..Len(s)
  BY LenProperties
<1>2. /\ r \in Seq(Nat)
      /\ Len(r) = Len(s) + 1
      /\ \A k \in 1..Len(s) : r[k] = s[k]
      /\ r[Len(s) + 1] = x
  BY AppendProperties
<1>3. DOMAIN r = 1..(Len(s) + 1)
  BY <1>2, LenProperties
<1>4. IsFiniteSet(Since(s, t)) /\ Cardinality(Since(s, t)) \in Nat
  BY SinceFinite
<1>5. CASE x >= t
  <2>1. Since(r, t) = Since(s, t) \cup {Len(s) + 1}
    BY <1>1, <1>2, <1>3, <1>5 DEF Since
  <2>2. Len(s) + 1 \notin Since(s, t)
    BY <1>1 DEF Since
  <2>3. Cardinality(Since(s, t) \cup {Len(s) + 1}) = Cardinality(Since(s, t)) + 1
    BY <2>2, <1>4, FS_AddElement
  <2> HIDE DEF r
  <2> QED
    BY <2>1, <2>3, <1>2, <1>5 DEF r
<1>6. CASE ~(x >= t)
  <2>1. Since(r, t) = Since(s, t)
    BY <1>1, <1>2, <1>3, <1>6 DEF Since
  <2> QED
    BY <2>1, <1>2, <1>4, <1>6
<1> QED
  BY <1>5, <1>6

\* Old rows that are removed from the front do not change what is counted.
LEMMA SinceKept ==
  ASSUME NEW s \in Seq(Nat), NEW n \in 0..Len(s), NEW t \in Nat, \A k \in 1..n : s[k] < t
  PROVE  /\ SubSeq(s, n + 1, Len(s)) \in Seq(Nat)
         /\ \A k \in DOMAIN SubSeq(s, n + 1, Len(s)) :
              \E i \in DOMAIN s : SubSeq(s, n + 1, Len(s))[k] = s[i]
         /\ Cardinality(Since(SubSeq(s, n + 1, Len(s)), t)) = Cardinality(Since(s, t))
<1> DEFINE r == SubSeq(s, n + 1, Len(s))
<1>1. /\ Len(s) \in Nat
      /\ DOMAIN s = 1..Len(s)
      /\ s \in [1..Len(s) -> Nat]
  BY LenProperties
<1>2. /\ r \in Seq(Nat)
      /\ Len(r) = Len(s) - n
      /\ \A k \in 1..(Len(s) - n) : r[k] = s[k + n]
  <2>1. n + 1 \in Int /\ Len(s) \in Int /\ \A i \in (n + 1)..Len(s) : s[i] \in Nat
    BY <1>1
  <2>2. /\ r \in Seq(Nat)
        /\ Len(r) = IF n + 1 <= Len(s) THEN Len(s) - (n + 1) + 1 ELSE 0
        /\ \A k \in 1..(Len(s) - (n + 1) + 1) : r[k] = s[n + 1 + k - 1]
    BY <2>1, SubSeqProperties
  <2>3. Len(s) - (n + 1) + 1 = Len(s) - n
    BY <1>1
  <2>4. \A k \in 1..(Len(s) - n) : n + 1 + k - 1 = k + n
    BY <1>1
  <2> HIDE DEF r
  <2>5. Len(r) = Len(s) - n
    <3>1. CASE n = Len(s)
      <4>1. ~(n + 1 <= Len(s))
        BY <3>1, <1>1
      <4>2. Len(r) = 0
        BY <4>1, <2>2
      <4> QED
        BY <4>2, <3>1, <1>1
    <3>2. CASE n # Len(s)
      <4>1. n + 1 <= Len(s)
        <5>1. Len(s) \in Nat /\ n \in 0..Len(s)
          BY <1>1
        <5> QED
          BY ONLY <5>1, <3>2
      <4>2. Len(r) = Len(s) - (n + 1) + 1
        BY <4>1, <2>2
      <4> QED
        BY <4>2, <2>3
    <3> QED
      BY <3>1, <3>2
  <2> QED
    BY <2>2, <2>3, <2>4, <2>5
<1>3. DOMAIN r = 1..(Len(s) - n)
  BY <1>2, LenProperties
<1> HIDE DEF r
<1> DEFINE f == [k \in Since(r, t) |-> k + n]
<1>4. f \in Bijection(Since(r, t), Since(s, t))
  <2>1. ASSUME NEW k \in Since(r, t)
        PROVE  k \in 1..(Len(s) - n) /\ k + n \in Since(s, t)
    <3>1. k \in 1..(Len(s) - n) /\ r[k] >= t
      BY <1>3 DEF Since
    <3>2. Len(s) \in Nat /\ n \in Nat /\ n <= Len(s) /\ DOMAIN s = 1..Len(s)
      BY <1>1
    <3>3. k + n \in 1..Len(s)
      BY ONLY <3>1, <3>2
    <3>4. r[k] = s[k + n]
      BY <1>2, <3>1
    <3> QED
      BY <3>1, <3>2, <3>3, <3>4 DEF Since
  <2>2. f \in [Since(r, t) -> Since(s, t)]
    BY <2>1
  <2>3. \A k, i \in Since(r, t) : f[k] = f[i] => k = i
    BY <2>1
  <2>4. ASSUME NEW i \in Since(s, t)
        PROVE  \E k \in Since(r, t) : f[k] = i
    <3>1. i \in 1..Len(s) /\ s[i] >= t /\ s[i] \in Nat
      BY <1>1 DEF Since
    <3>2. i > n
      BY <3>1, <1>1
    <3>3. i - n \in 1..(Len(s) - n) /\ i - n + n = i
      BY <3>1, <3>2, <1>1
    <3>4. i - n \in Since(r, t)
      BY <3>1, <3>3, <1>2, <1>3 DEF Since
    <3> QED
      BY <3>3, <3>4
  <2> HIDE DEF f
  <2>5. f \in Injection(Since(r, t), Since(s, t))
    BY <2>2, <2>3 DEF Injection, IsInjective
  <2> QED
    BY <2>2, <2>4, <2>5 DEF Bijection, Surjection
<1>5. ExistsBijection(Since(r, t), Since(s, t))
  BY <1>4 DEF ExistsBijection
<1>6. Cardinality(Since(r, t)) = Cardinality(Since(s, t))
  BY <1>2, <1>5, SinceFinite, FS_Bijection
<1>7. \A k \in DOMAIN r : k + n \in DOMAIN s /\ r[k] = s[k + n]
  BY <1>1, <1>2, <1>3, SMTT(30)
<1> QED
  BY <1>2, <1>6, <1>7 DEF r

LEMMA SlotsFinite == /\ IsFiniteSet(Slots)
                     /\ Cardinality(Slots) = MaxOverlap
                     /\ MaxOverlap \in Nat \ {0}
<1>1. MaxOverlap \in Nat \ {0}
  BY LimitsAssumption
<1> QED
  <2>1. IsFiniteSet(1..MaxOverlap) /\ Cardinality(1..MaxOverlap) = IF 1 > MaxOverlap THEN 0 ELSE MaxOverlap - 1 + 1
    BY <1>1, FS_Interval
  <2> QED
    BY <1>1, <2>1 DEF Slots

LEMMA ServingFinite ==
  ASSUME NEW st, NEW s
  PROVE  IsFiniteSet(Serving(st, s)) /\ Cardinality(Serving(st, s)) \in Nat
<1>1. Serving(st, s) \in SUBSET Slots
  BY DEF Serving
<1>2. IsFiniteSet(Serving(st, s))
  BY <1>1, SlotsFinite, FS_Subset
<1> QED
  BY <1>2, FS_CardinalityType

\* A request that goes from one stage to another.
LEMMA SlotMoves ==
  ASSUME NEW st \in [Slots -> Stages], NEW j \in Slots, NEW v \in Stages, v # st[j], NEW s \in Stages
  PROVE  Cardinality(Serving([st EXCEPT ![j] = v], s)) =
           IF s = v THEN Cardinality(Serving(st, s)) + 1
           ELSE IF s = st[j] THEN Cardinality(Serving(st, s)) - 1
           ELSE Cardinality(Serving(st, s))
<1> DEFINE sq == [st EXCEPT ![j] = v]
<1>1. IsFiniteSet(Serving(st, s))
  BY ServingFinite
<1>2. CASE s = v
  <2>1. Serving(sq, s) = Serving(st, s) \cup {j} /\ j \notin Serving(st, s)
    BY <1>2 DEF Serving
  <2> HIDE DEF sq
  <2>2. Cardinality(Serving(st, s) \cup {j}) = Cardinality(Serving(st, s)) + 1
    BY <2>1, <1>1, FS_AddElement
  <2> QED
    BY <2>1, <2>2, <1>2 DEF sq
<1>3. CASE s # v /\ s = st[j]
  <2>1. Serving(sq, s) = Serving(st, s) \ {j} /\ j \in Serving(st, s)
    BY <1>3 DEF Serving
  <2> HIDE DEF sq
  <2>2. Cardinality(Serving(st, s) \ {j}) = Cardinality(Serving(st, s)) - 1
    BY <2>1, <1>1, FS_RemoveElement
  <2> QED
    BY <2>1, <2>2, <1>3 DEF sq
<1>4. CASE s # v /\ s # st[j]
  <2>1. Serving(sq, s) = Serving(st, s)
    BY <1>4 DEF Serving
  <2> QED
    BY <2>1, <1>4
<1> QED
  BY <1>2, <1>3, <1>4

\* A request that begins has a slot that no other one counts.
LEMMA SlotsOverlap ==
  ASSUME NEW st \in [Slots -> Stages], NEW j \in Slots, st[j] = "none"
  PROVE  Cardinality(Serving(st, "record")) + Cardinality(Serving(st, "password")) + 1 <= MaxOverlap
         /\ Cardinality(Serving(st, "insert")) + 1 <= MaxOverlap
         
<1> DEFINE A == Serving(st, "record")
           B == Serving(st, "password")
           C == Serving(st, "insert")
<1>1. /\ IsFiniteSet(A) /\ Cardinality(A) \in Nat
      /\ IsFiniteSet(B) /\ Cardinality(B) \in Nat
      /\ IsFiniteSet(C) /\ Cardinality(C) \in Nat
  BY ServingFinite
<1>2. A \cap B = {} /\ A \cup B \subseteq Slots \ {j} /\ C \subseteq Slots \ {j}
  BY DEF Serving
<1> HIDE DEF A, B, C
<1>3. IsFiniteSet(Slots \ {j}) /\ Cardinality(Slots \ {j}) = MaxOverlap - 1
  BY SlotsFinite, FS_RemoveElement
<1>4. Cardinality(A \cup B) = Cardinality(A) + Cardinality(B)
  <2>1. Cardinality(A \cup B) = Cardinality(A) + Cardinality(B) - Cardinality(A \cap B)
    BY <1>1, FS_Union
  <2>2. Cardinality(A \cap B) = 0
    BY <1>2, FS_EmptySet
  <2> QED
    BY <2>1, <2>2, <1>1
<1>5. Cardinality(A \cup B) <= Cardinality(Slots \ {j}) /\ Cardinality(C) <= Cardinality(Slots \ {j})
  BY <1>2, <1>3, FS_Subset
<1>6. Cardinality(A) + Cardinality(B) <= MaxOverlap - 1 /\ Cardinality(C) <= MaxOverlap - 1
  BY <1>3, <1>4, <1>5
<1> QED
  BY <1>6, <1>1, SlotsFinite DEF A, B, C

LEMMA SlotsCount ==
  ASSUME NEW st, NEW R, NEW S, R # S
  PROVE  Cardinality(Serving(st, R)) + Cardinality(Serving(st, S)) <= MaxOverlap
<1> DEFINE A == Serving(st, R)
           B == Serving(st, S)
<1>1. IsFiniteSet(A) /\ Cardinality(A) \in Nat /\ IsFiniteSet(B) /\ Cardinality(B) \in Nat
  BY ServingFinite
<1>2. A \cap B = {} /\ A \cup B \subseteq Slots
  BY DEF Serving
<1> HIDE DEF A, B
<1>3. Cardinality(A \cup B) = Cardinality(A) + Cardinality(B) - Cardinality(A \cap B)
  BY <1>1, FS_Union
<1>4. Cardinality(A \cap B) = 0
  BY <1>2, FS_EmptySet
<1>5. Cardinality(A \cup B) <= MaxOverlap
  BY <1>2, SlotsFinite, FS_Subset
<1> QED
  BY <1>1, <1>3, <1>4, <1>5 DEF A, B

\* The number of the rows, and of the slots.
RowsSince(times, t) == Cardinality(Since(times, t))
Busy(st, s) == Cardinality(Serving(st, s))

\* The earliest time that the window still counts.
Edge == IF now >= Window THEN now - Window ELSE 0

Past(times) == times \in Seq(Nat) /\ \A k \in DOMAIN times : times[k] <= now

LimitsTypes ==
  /\ now \in 0..MaxTime /\ asked \in 0..MaxAsked /\ faults \in 0..MaxFaults
  /\ Past(failed) /\ Past(operations) /\ Past(judged) /\ Past(admitted)
  /\ counter.until \in 0..(MaxTime + Window)
  /\ stage \in [Slots -> Stages]

\* A wrong password has a row, a request that is about to write one, or a statement that failed.
WrongOnesCounted ==
  \A t \in 0..now : t + Window >= now =>
    RowsSince(judged, t) <= RowsSince(failed, t) + Busy(stage, "record") + faults

\* An operation that was let through has a row.
OperationsCounted ==
  \A t \in 0..now : t + Window >= now => RowsSince(admitted, t) = RowsSince(operations, t)

\* What is counted and what may still be added stay together below the limit and the overlap.
PlacesHold ==
  /\ RowsSince(failed, Edge) + Busy(stage, "record") + Busy(stage, "password") <= MaxFailed + MaxOverlap - 1 + faults
  /\ RowsSince(judged, Edge) + Busy(stage, "password") <= MaxFailed + MaxOverlap - 1 + faults
  /\ RowsSince(operations, Edge) + Busy(stage, "insert") <= MaxOperations + MaxOverlap - 1

LimitsInv == LimitsTypes /\ WrongOnesCounted /\ OperationsCounted /\ PlacesHold

LEMMA EdgeIsWindow ==
  ASSUME LimitsTypes
  PROVE  /\ Edge \in 0..now /\ Edge + Window >= now
         /\ \A s \in Seq(Nat) : Recent(s) = Since(s, Edge)
<1>1. now \in Nat /\ Window \in Nat
  BY LimitsAssumption DEF LimitsTypes
<1>2. Edge \in 0..now /\ Edge + Window >= now
  BY <1>1 DEF Edge
<1>3. ASSUME NEW s \in Seq(Nat)
      PROVE  Recent(s) = Since(s, Edge)
  <2>1. \A k \in DOMAIN s : s[k] \in Nat
    BY LenProperties
  <2>2. \A k \in DOMAIN s : s[k] + Window >= now <=> s[k] >= Edge
    BY <1>1, <2>1 DEF Edge
  <2> QED
    BY <2>2 DEF Recent, Since
<1> QED
  BY <1>2, <1>3

LEMMA CountNat ==
  ASSUME LimitsTypes
  PROVE  /\ \A t : /\ RowsSince(failed, t) \in Nat /\ RowsSince(operations, t) \in Nat
                   /\ RowsSince(judged, t) \in Nat /\ RowsSince(admitted, t) \in Nat
         /\ \A s : Busy(stage, s) \in Nat
BY SinceFinite, ServingFinite DEF LimitsTypes, Past, RowsSince, Busy

LEMMA CountEmpty ==
  ASSUME NEW t
  PROVE  << >> \in Seq(Nat) /\ RowsSince(<< >>, t) = 0
<1>1. Since(<< >>, t) = {}
  BY DEF Since
<1> QED
  BY <1>1, FS_EmptySet DEF RowsSince

\* Nothing was written in the future.
LEMMA CountFuture ==
  ASSUME NEW s \in Seq(Nat), NEW n \in Nat, \A k \in DOMAIN s : s[k] <= n, NEW t \in Nat, t > n
  PROVE  RowsSince(s, t) = 0
<1>1. \A k \in DOMAIN s : s[k] \in Nat
  BY LenProperties
<1>2. Since(s, t) = {}
  BY <1>1 DEF Since
<1> QED
  BY <1>2, FS_EmptySet DEF RowsSince

LEMMA CountAppend ==
  ASSUME LimitsTypes, NEW s, Past(s)
  PROVE  /\ Past(Append(s, now))
         /\ \A t \in 0..now : RowsSince(Append(s, now), t) = RowsSince(s, t) + 1
<1>1. now \in Nat /\ s \in Seq(Nat)
  BY LimitsAssumption DEF LimitsTypes, Past
<1>2. Append(s, now) \in Seq(Nat)
  BY <1>1, SinceAppend
<1>3. \A k \in DOMAIN Append(s, now) : Append(s, now)[k] <= now
  <2>1. /\ Len(Append(s, now)) = Len(s) + 1
        /\ \A k \in 1..Len(s) : Append(s, now)[k] = s[k]
        /\ Append(s, now)[Len(s) + 1] = now
    BY <1>1, AppendProperties
  <2>2. DOMAIN Append(s, now) = 1..(Len(s) + 1) /\ DOMAIN s = 1..Len(s) /\ Len(s) \in Nat
    BY <1>1, <1>2, <2>1, LenProperties
  <2>3. \A k \in 1..(Len(s) + 1) : k = Len(s) + 1 \/ k \in 1..Len(s)
    BY <2>2
  <2>4. \A k \in 1..Len(s) : s[k] <= now
    BY <2>2 DEF Past
  <2> QED
    BY <2>1, <2>2, <2>3, <2>4, <1>1
<1>4. ASSUME NEW t \in 0..now
      PROVE  RowsSince(Append(s, now), t) = RowsSince(s, t) + 1
  <2>1. t \in Nat /\ now >= t
    BY <1>1
  <2> QED
    BY <1>1, <2>1, SinceAppend DEF RowsSince
<1> QED
  BY <1>2, <1>3, <1>4 DEF Past

\* A purge removes nothing that the window counts.
LEMMA CountKept ==
  ASSUME LimitsTypes, NEW s, Past(s), NEW r \in {s} \cup Kept(s)
  PROVE  /\ Past(r)
         /\ \A t \in 0..now : t + Window >= now => RowsSince(r, t) = RowsSince(s, t)
<1>1. CASE r = s
  BY <1>1
<1>2. CASE r \in Kept(s)
  <2>1. PICK n \in 0..Len(s) : /\ \A k \in DOMAIN s : k <= n <=> s[k] + Retention < now
                               /\ r = SubSeq(s, n + 1, Len(s))
    BY <1>2 DEF Kept
  <2>2. /\ now \in Nat /\ Window \in Nat /\ Retention \in Nat /\ Retention > Window
        /\ s \in Seq(Nat) /\ Len(s) \in Nat /\ DOMAIN s = 1..Len(s)
        /\ \A k \in 1..Len(s) : s[k] \in Nat
    BY LimitsAssumption, LenProperties DEF LimitsTypes, Past
  <2>3. ASSUME NEW t \in 0..now, t + Window >= now
        PROVE  RowsSince(r, t) = RowsSince(s, t)
    <3>1. ASSUME NEW k \in 1..n
          PROVE  s[k] < t
      <4>1. k \in 1..Len(s) /\ k <= n
        BY <2>2
      <4>2. s[k] + Retention < now /\ s[k] \in Nat
        BY <4>1, <2>1, <2>2
      <4>3. t \in Nat /\ t + Window >= now
        BY <2>2, <2>3
      <4>4. now \in Nat /\ Window \in Nat /\ Retention \in Nat /\ Retention > Window
        BY <2>2
      <4> QED
        BY ONLY <4>2, <4>3, <4>4
    <3>2. \A k \in 1..n : s[k] < t
      BY <3>1
    <3>3. t \in Nat
      BY <2>2
    <3> QED
      BY <2>1, <2>2, <3>2, <3>3, SinceKept DEF RowsSince
  <2>4. Past(r)
    <3>1. now + 1 \in Nat /\ \A k \in 1..n : s[k] < now + 1
      <4>1. \A k \in 1..n : k \in DOMAIN s
        BY <2>2
      <4>2. \A k \in 1..n : s[k] <= now /\ s[k] \in Nat
        BY <4>1, <2>2 DEF Past
      <4> QED
        BY <4>2, <2>2
    <3>2. r \in Seq(Nat) /\ \A k \in DOMAIN r : \E i \in DOMAIN s : r[k] = s[i]
      BY <3>1, <2>1, <2>2, SinceKept
    <3> QED
      BY <3>2 DEF Past
  <2> QED
    BY <2>3, <2>4
<1> QED
  BY <1>1, <1>2

\* The slots after a request went on.
LEMMA BusyMoves ==
  ASSUME LimitsTypes, NEW j \in Slots, NEW v \in Stages, v # stage[j]
  PROVE  LET st == [stage EXCEPT ![j] = v] IN
         /\ st \in [Slots -> Stages]
         /\ \A s \in Stages : Busy(st, s) = IF s = v THEN Busy(stage, s) + 1
                                           ELSE IF s = stage[j] THEN Busy(stage, s) - 1
                                           ELSE Busy(stage, s)
BY SlotMoves, ZenonT(30) DEF LimitsTypes, Busy

LEMMA LimitsStart == LimitsInit => LimitsInv
<1> SUFFICES ASSUME LimitsInit
             PROVE  LimitsInv
  OBVIOUS
<1>1. LimitsTypes
  BY LimitsAssumption, CountEmpty DEF LimitsInit, LimitsTypes, Past, Stages
<1>2. \A t : RowsSince(failed, t) = 0 /\ RowsSince(judged, t) = 0 /\ RowsSince(operations, t) = 0 /\ RowsSince(admitted, t) = 0
  BY CountEmpty DEF LimitsInit
<1>3. \A s \in Stages \ {"none"} : Busy(stage, s) = 0
  <2>1. \A s \in Stages \ {"none"} : Serving(stage, s) = {}
    BY DEF LimitsInit, Serving
  <2> QED
    BY <2>1, FS_EmptySet DEF Busy
<1>4. Busy(stage, "record") = 0 /\ Busy(stage, "password") = 0 /\ Busy(stage, "insert") = 0
  BY <1>3 DEF Stages
<1>5. faults = 0
  BY DEF LimitsInit
<1>6. WrongOnesCounted /\ OperationsCounted
  BY <1>2, <1>4, <1>5 DEF WrongOnesCounted, OperationsCounted
<1>7. PlacesHold
  BY <1>2, <1>4, <1>5, LimitsAssumption DEF PlacesHold
<1> QED
  BY <1>1, <1>6, <1>7 DEF LimitsInv

LEMMA LimitsStep == LimitsInv /\ [LimitsNext]_limitVars => LimitsInv'
<1> SUFFICES ASSUME LimitsInv, [LimitsNext]_limitVars
             PROVE  LimitsInv'
  OBVIOUS
<1> USE DEF Stages
<1>1. /\ LimitsTypes /\ WrongOnesCounted /\ OperationsCounted /\ PlacesHold
      /\ now \in Nat /\ faults \in Nat /\ asked \in Nat
      /\ MaxFailed \in Nat \ {0} /\ MaxOperations \in Nat \ {0} /\ Window \in Nat \ {0} /\ MaxOverlap \in Nat \ {0}
      /\ MaxTime \in Nat
  BY LimitsAssumption DEF LimitsInv, LimitsTypes
<1>2. /\ Edge \in 0..now /\ Edge + Window >= now
      /\ Recent(failed) = Since(failed, Edge) /\ Recent(operations) = Since(operations, Edge)
  BY <1>1, EdgeIsWindow DEF LimitsTypes, Past
<1>3. /\ \A t : /\ RowsSince(failed, t) \in Nat /\ RowsSince(operations, t) \in Nat
                /\ RowsSince(judged, t) \in Nat /\ RowsSince(admitted, t) \in Nat
      /\ Busy(stage, "record") \in Nat /\ Busy(stage, "password") \in Nat /\ Busy(stage, "insert") \in Nat
  BY <1>1, CountNat
<1>0. /\ now \in Nat /\ faults \in Nat
      /\ MaxFailed \in Nat \ {0} /\ MaxOperations \in Nat \ {0} /\ MaxOverlap \in Nat \ {0}
  BY <1>1
<1>p. /\ RowsSince(failed, Edge) + Busy(stage, "record") + Busy(stage, "password") <= MaxFailed + MaxOverlap - 1 + faults
      /\ RowsSince(judged, Edge) + Busy(stage, "password") <= MaxFailed + MaxOverlap - 1 + faults
      /\ RowsSince(operations, Edge) + Busy(stage, "insert") <= MaxOperations + MaxOverlap - 1
  BY <1>1 DEF PlacesHold
<1>q. /\ RowsSince(failed, Edge) \in Nat /\ RowsSince(judged, Edge) \in Nat /\ RowsSince(operations, Edge) \in Nat
      /\ Busy(stage, "record") \in Nat /\ Busy(stage, "password") \in Nat /\ Busy(stage, "insert") \in Nat
      /\ MaxFailed \in Nat \ {0} /\ MaxOperations \in Nat \ {0} /\ MaxOverlap \in Nat \ {0} /\ faults \in Nat
  BY <1>0, <1>3
<1>w. /\ \A t \in 0..now : t + Window >= now => RowsSince(judged, t) <= RowsSince(failed, t) + Busy(stage, "record") + faults
      /\ \A t \in 0..now : t + Window >= now => RowsSince(admitted, t) = RowsSince(operations, t)
  BY <1>1 DEF WrongOnesCounted, OperationsCounted
<1>4. ASSUME UNCHANGED now
      PROVE  Edge' = Edge
  BY <1>4 DEF Edge
<1>5. /\ RowsSince(judged, Edge) <= RowsSince(failed, Edge) + Busy(stage, "record") + faults
      /\ Cardinality(Recent(failed)) = RowsSince(failed, Edge)
      /\ Cardinality(Recent(operations)) = RowsSince(operations, Edge)
  BY <1>1, <1>2 DEF WrongOnesCounted, RowsSince
<1>6. ASSUME NEW j \in Slots, stage[j] = "none"
      PROVE  /\ Busy(stage, "record") + Busy(stage, "password") + 1 <= MaxOverlap
             /\ Busy(stage, "insert") + 1 <= MaxOverlap
  BY <1>1, <1>6, SlotsOverlap DEF LimitsTypes, Busy
<1>7. ASSUME NEW j \in Slots, BeginLogin(j)
      PROVE  LimitsInv'
  <2>1. /\ stage[j] = "none" /\ stage' = [stage EXCEPT ![j] = "password"] /\ asked' \in 0..MaxAsked
        /\ RowsSince(failed, Edge) < MaxFailed
        /\ UNCHANGED << now, failed, operations, counter, faults, judged, admitted >>
    BY <1>7, <1>1, <1>3, <1>5, LimitsAssumption DEF BeginLogin, Ask, GoTo, Limited, LimitsTypes
  <2>2. /\ stage' \in [Slots -> Stages]
        /\ Busy(stage', "record") = Busy(stage, "record")
        /\ Busy(stage', "password") = Busy(stage, "password") + 1
        /\ Busy(stage', "insert") = Busy(stage, "insert")
    BY <1>1, <2>1, BusyMoves
  <2>3. LimitsTypes'
    BY <1>1, <2>1, <2>2 DEF LimitsTypes, Past
  <2>4. WrongOnesCounted' /\ OperationsCounted'
    BY <1>1, <2>1, <2>2 DEF WrongOnesCounted, OperationsCounted
  <2>5. PlacesHold'
    <3>1. Edge' = Edge
      BY <1>4, <2>1
    <3>2. /\ RowsSince(failed', Edge) = RowsSince(failed, Edge) /\ RowsSince(judged', Edge) = RowsSince(judged, Edge)
          /\ RowsSince(operations', Edge) = RowsSince(operations, Edge) /\ faults' = faults
      BY <2>1, <3>1
    <3>3. /\ RowsSince(failed, Edge) < MaxFailed
          /\ Busy(stage, "record") + Busy(stage, "password") + 1 <= MaxOverlap
          /\ RowsSince(judged, Edge) <= RowsSince(failed, Edge) + Busy(stage, "record") + faults
      BY <1>5, <1>6, <2>1
    <3>4. RowsSince(failed', Edge) + Busy(stage', "record") + Busy(stage', "password") <= MaxFailed + MaxOverlap - 1 + faults'
      BY ONLY <1>p, <1>q, <2>2, <3>2, <3>3
    <3>5. RowsSince(judged', Edge) + Busy(stage', "password") <= MaxFailed + MaxOverlap - 1 + faults'
      BY ONLY <1>p, <1>q, <2>2, <3>2, <3>3
    <3>6. RowsSince(operations', Edge) + Busy(stage', "insert") <= MaxOperations + MaxOverlap - 1
      BY ONLY <1>p, <1>q, <2>2, <3>2, <3>3
    <3> QED
      BY <3>1, <3>4, <3>5, <3>6 DEF PlacesHold
  <2> QED
    BY <2>3, <2>4, <2>5 DEF LimitsInv
<1>8. ASSUME NEW j \in Slots, BeginLoginBlind(j)
      PROVE  LimitsInv'
  <2>1. /\ stage[j] = "none" /\ stage' = [stage EXCEPT ![j] = "password"] /\ asked' \in 0..MaxAsked
        /\ faults' \in 0..MaxFaults /\ faults' = faults + 1
        /\ UNCHANGED << now, failed, operations, counter, judged, admitted >>
    BY <1>8, <1>1, LimitsAssumption DEF BeginLoginBlind, Ask, GoTo, Fault, LimitsTypes
  <2>2. /\ stage' \in [Slots -> Stages]
        /\ Busy(stage', "record") = Busy(stage, "record")
        /\ Busy(stage', "password") = Busy(stage, "password") + 1
        /\ Busy(stage', "insert") = Busy(stage, "insert")
    BY <1>1, <2>1, BusyMoves
  <2>3. LimitsTypes'
    BY <1>1, <2>1, <2>2 DEF LimitsTypes, Past
  <2>4. WrongOnesCounted' /\ OperationsCounted'
    <3>1. \A t \in 0..now : t + Window >= now =>
               RowsSince(judged', t) <= RowsSince(failed', t) + Busy(stage', "record") + faults'
      BY <1>0, <1>w, <1>3, <2>1, <2>2
    <3>2. \A t \in 0..now : t + Window >= now => RowsSince(admitted', t) = RowsSince(operations', t)
      BY <1>0, <1>w, <1>3, <2>1, <2>2
    <3> QED
      BY <2>1, <3>1, <3>2 DEF WrongOnesCounted, OperationsCounted
  <2>5. PlacesHold'
    <3>1. Edge' = Edge
      BY <1>4, <2>1
    <3>2. /\ RowsSince(failed', Edge) = RowsSince(failed, Edge) /\ RowsSince(judged', Edge) = RowsSince(judged, Edge)
          /\ RowsSince(operations', Edge) = RowsSince(operations, Edge) /\ faults' = faults + 1
      BY <2>1, <3>1
    <3>4. RowsSince(failed', Edge) + Busy(stage', "record") + Busy(stage', "password") <= MaxFailed + MaxOverlap - 1 + faults'
      BY ONLY <1>p, <1>q, <2>2, <3>2
    <3>5. RowsSince(judged', Edge) + Busy(stage', "password") <= MaxFailed + MaxOverlap - 1 + faults'
      BY ONLY <1>p, <1>q, <2>2, <3>2
    <3>6. RowsSince(operations', Edge) + Busy(stage', "insert") <= MaxOperations + MaxOverlap - 1
      BY ONLY <1>p, <1>q, <2>2, <3>2
    <3> QED
      BY <3>1, <3>4, <3>5, <3>6 DEF PlacesHold
  <2> QED
    BY <2>3, <2>4, <2>5 DEF LimitsInv
<1>9. ASSUME NEW j \in Slots, WrongPassword(j)
      PROVE  LimitsInv'
  <2>1. /\ stage[j] = "password" /\ stage' = [stage EXCEPT ![j] = "record"]
        /\ judged' = Append(judged, now)
        /\ faults' \in 0..MaxFaults /\ faults' \in Nat /\ faults' >= faults
        /\ counter'.until \in 0..(MaxTime + Window)
        /\ UNCHANGED << now, failed, operations, asked, admitted >>
    BY <1>9, <1>1, LimitsAssumption DEF WrongPassword, GoTo, Fault, LimitsTypes
  <2>2. /\ stage' \in [Slots -> Stages]
        /\ Busy(stage', "record") = Busy(stage, "record") + 1
        /\ Busy(stage', "password") = Busy(stage, "password") - 1
        /\ Busy(stage', "insert") = Busy(stage, "insert")
    BY <1>1, <2>1, BusyMoves
  <2>3. Past(judged') /\ \A t \in 0..now : RowsSince(judged', t) = RowsSince(judged, t) + 1
    BY <1>1, <2>1, CountAppend DEF LimitsTypes
  <2>4. LimitsTypes'
    BY <1>1, <2>1, <2>2, <2>3 DEF LimitsTypes, Past
  <2>5. WrongOnesCounted' /\ OperationsCounted'
    <3>1. \A t \in 0..now : t + Window >= now =>
               RowsSince(judged', t) <= RowsSince(failed', t) + Busy(stage', "record") + faults'
      <4> SUFFICES ASSUME NEW t \in 0..now, t + Window >= now
                   PROVE  RowsSince(judged', t) <= RowsSince(failed', t) + Busy(stage', "record") + faults'
        OBVIOUS
      <4>1. RowsSince(judged, t) <= RowsSince(failed, t) + Busy(stage, "record") + faults
        BY <1>w
      <4>2. /\ RowsSince(judged, t) \in Nat /\ RowsSince(failed, t) \in Nat /\ Busy(stage, "record") \in Nat
            /\ faults \in Nat /\ faults' \in Nat
        BY <1>0, <1>3, <2>1, <2>3
      <4>3. /\ RowsSince(judged', t) = RowsSince(judged, t) + 1 /\ RowsSince(failed', t) = RowsSince(failed, t)
            /\ Busy(stage', "record") = Busy(stage, "record") + 1 /\ faults' >= faults
        BY <2>1, <2>2, <2>3
      <4> QED
        BY ONLY <4>1, <4>2, <4>3
    <3>2. \A t \in 0..now : t + Window >= now => RowsSince(admitted', t) = RowsSince(operations', t)
      BY <1>0, <1>w, <1>3, <2>1, <2>2, <2>3
    <3> QED
      BY <2>1, <3>1, <3>2 DEF WrongOnesCounted, OperationsCounted
  <2>6. PlacesHold'
    <3>1. Edge' = Edge /\ RowsSince(judged', Edge) = RowsSince(judged, Edge) + 1
      BY <1>2, <1>4, <2>1, <2>3
    <3>4. RowsSince(failed', Edge) + Busy(stage', "record") + Busy(stage', "password") <= MaxFailed + MaxOverlap - 1 + faults'
      <4>1. /\ RowsSince(failed, Edge) \in Nat /\ RowsSince(judged, Edge) \in Nat /\ RowsSince(operations, Edge) \in Nat
            /\ Busy(stage, "record") \in Nat /\ Busy(stage, "password") \in Nat
            /\ MaxFailed \in Nat \ {0} /\ MaxOverlap \in Nat \ {0}
            /\ faults \in Nat /\ faults' \in Nat /\ faults' >= faults
        BY <1>0, <1>3, <2>1, <2>3
      <4>2. /\ RowsSince(failed', Edge) = RowsSince(failed, Edge)
            /\ Busy(stage', "record") = Busy(stage, "record") + 1
            /\ Busy(stage', "password") = Busy(stage, "password") - 1
        BY <2>1, <2>2, <2>3, <3>1
      <4> QED
        BY ONLY <1>p, <4>1, <4>2
    <3>5. RowsSince(judged', Edge) + Busy(stage', "password") <= MaxFailed + MaxOverlap - 1 + faults'
      <4>1. /\ RowsSince(judged, Edge) \in Nat /\ Busy(stage, "password") \in Nat
            /\ MaxFailed \in Nat \ {0} /\ MaxOverlap \in Nat \ {0}
            /\ faults \in Nat /\ faults' \in Nat /\ faults' >= faults
        BY <1>0, <1>3, <2>1
      <4>2. /\ RowsSince(judged', Edge) = RowsSince(judged, Edge) + 1
            /\ Busy(stage', "password") = Busy(stage, "password") - 1
        BY <2>2, <3>1
      <4> QED
        BY ONLY <1>p, <4>1, <4>2
    <3>6. RowsSince(operations', Edge) + Busy(stage', "insert") <= MaxOperations + MaxOverlap - 1
      <4>1. RowsSince(operations', Edge) = RowsSince(operations, Edge)
        BY <2>1
      <4> QED
        BY ONLY <1>p, <1>q, <2>2, <4>1
    <3> QED
      BY <3>1, <3>4, <3>5, <3>6 DEF PlacesHold
  <2> QED
    BY <2>4, <2>5, <2>6 DEF LimitsInv
<1>10. ASSUME NEW j \in Slots, RecordFailed(j)
       PROVE  LimitsInv'
  <2>1. /\ stage[j] = "record" /\ stage' = [stage EXCEPT ![j] = "none"]
        /\ \/ failed' = Append(failed, now) /\ faults' = faults
           \/ failed' = failed /\ faults' = faults + 1 /\ faults' \in 0..MaxFaults
        /\ UNCHANGED << now, operations, counter, asked, judged, admitted >>
    BY <1>10, <1>1, LimitsAssumption DEF RecordFailed, GoTo, Fault, LimitsTypes
  <2>2. /\ stage' \in [Slots -> Stages]
        /\ Busy(stage', "record") = Busy(stage, "record") - 1
        /\ Busy(stage', "password") = Busy(stage, "password")
        /\ Busy(stage', "insert") = Busy(stage, "insert")
    BY <1>1, <2>1, BusyMoves
  <2>3. /\ Past(failed') /\ faults' \in 0..MaxFaults /\ faults' \in Nat
        /\ \A t \in 0..now : RowsSince(failed', t) + faults' = RowsSince(failed, t) + faults + 1
        /\ \A t : RowsSince(failed', t) \in Nat
    <3>1. Past(failed)
      BY <1>1 DEF LimitsTypes
    <3>2. CASE failed' = Append(failed, now) /\ faults' = faults
      <4>1. Past(failed') /\ \A t \in 0..now : RowsSince(failed', t) = RowsSince(failed, t) + 1
        BY <1>1, <3>1, <3>2, CountAppend
      <4>2. \A t : RowsSince(failed', t) \in Nat
        BY <4>1, SinceFinite DEF Past, RowsSince
      <4>3. faults' \in 0..MaxFaults
        BY <1>1, <3>2 DEF LimitsTypes
      <4> QED
        BY <4>1, <4>2, <4>3, <3>2, <1>1, <1>3
    <3>3. CASE failed' = failed /\ faults' = faults + 1 /\ faults' \in 0..MaxFaults
      <4>1. Past(failed')
        BY <2>1, <3>1, <3>3 DEF Past
      <4> QED
        BY <4>1, <3>3, <1>1, <1>3
    <3> QED
      BY <2>1, <3>2, <3>3
  <2>4. LimitsTypes'
    BY <1>1, <2>1, <2>2, <2>3 DEF LimitsTypes, Past
  <2>5. WrongOnesCounted' /\ OperationsCounted'
    <3>1. \A t \in 0..now : t + Window >= now =>
               RowsSince(judged', t) <= RowsSince(failed', t) + Busy(stage', "record") + faults'
      <4> SUFFICES ASSUME NEW t \in 0..now, t + Window >= now
                   PROVE  RowsSince(judged', t) <= RowsSince(failed', t) + Busy(stage', "record") + faults'
        OBVIOUS
      <4>1. RowsSince(judged, t) <= RowsSince(failed, t) + Busy(stage, "record") + faults
        BY <1>w
      <4>2. /\ RowsSince(judged, t) \in Nat /\ RowsSince(failed, t) \in Nat /\ Busy(stage, "record") \in Nat
            /\ faults \in Nat /\ faults' \in Nat
        BY <1>0, <1>3, <2>1, <2>3
      <4>3. /\ RowsSince(judged', t) = RowsSince(judged, t) /\ RowsSince(failed', t) + faults' = RowsSince(failed, t) + faults + 1
            /\ Busy(stage', "record") = Busy(stage, "record") - 1 /\ RowsSince(failed', t) \in Nat
        BY <2>1, <2>2, <2>3
      <4> QED
        BY ONLY <4>1, <4>2, <4>3
    <3>2. \A t \in 0..now : t + Window >= now => RowsSince(admitted', t) = RowsSince(operations', t)
      BY <1>0, <1>w, <1>3, <2>1, <2>2, <2>3
    <3> QED
      BY <2>1, <3>1, <3>2 DEF WrongOnesCounted, OperationsCounted
  <2>6. PlacesHold'
    <3>1. /\ Edge' = Edge
          /\ RowsSince(failed', Edge) + faults' = RowsSince(failed, Edge) + faults + 1
          /\ RowsSince(failed', Edge) \in Nat /\ faults' >= faults
      BY <1>1, <1>2, <1>4, <2>1, <2>3
    <3>4. RowsSince(failed', Edge) + Busy(stage', "record") + Busy(stage', "password") <= MaxFailed + MaxOverlap - 1 + faults'
      <4>1. /\ RowsSince(failed, Edge) \in Nat /\ RowsSince(judged, Edge) \in Nat /\ RowsSince(operations, Edge) \in Nat
            /\ Busy(stage, "record") \in Nat /\ Busy(stage, "password") \in Nat
            /\ MaxFailed \in Nat \ {0} /\ MaxOverlap \in Nat \ {0}
            /\ faults \in Nat /\ faults' \in Nat /\ faults' >= faults
        BY <1>0, <1>3, <2>1, <2>3, <3>1
      <4>2. /\ RowsSince(failed', Edge) + faults' = RowsSince(failed, Edge) + faults + 1
            /\ RowsSince(failed', Edge) \in Nat
            /\ Busy(stage', "record") = Busy(stage, "record") - 1
            /\ Busy(stage', "password") = Busy(stage, "password")
        BY <2>1, <2>2, <2>3, <3>1
      <4> QED
        BY ONLY <1>p, <4>1, <4>2
    <3>5. RowsSince(judged', Edge) + Busy(stage', "password") <= MaxFailed + MaxOverlap - 1 + faults'
      <4>1. /\ RowsSince(failed, Edge) \in Nat /\ RowsSince(judged, Edge) \in Nat /\ RowsSince(operations, Edge) \in Nat
            /\ Busy(stage, "record") \in Nat /\ Busy(stage, "password") \in Nat
            /\ MaxFailed \in Nat \ {0} /\ MaxOverlap \in Nat \ {0}
            /\ faults \in Nat /\ faults' \in Nat /\ faults' >= faults
        BY <1>0, <1>3, <2>1, <2>3, <3>1
      <4>2. /\ RowsSince(judged', Edge) = RowsSince(judged, Edge)
            /\ Busy(stage', "password") = Busy(stage, "password")
        BY <2>1, <2>2, <2>3, <3>1
      <4> QED
        BY ONLY <1>p, <4>1, <4>2
    <3>6. RowsSince(operations', Edge) + Busy(stage', "insert") <= MaxOperations + MaxOverlap - 1
      <4>1. RowsSince(operations', Edge) = RowsSince(operations, Edge)
        BY <2>1
      <4> QED
        BY ONLY <1>p, <1>q, <2>2, <4>1
    <3> QED
      BY <3>1, <3>4, <3>5, <3>6 DEF PlacesHold
  <2> QED
    BY <2>4, <2>5, <2>6 DEF LimitsInv
<1>11. ASSUME NEW j \in Slots, RightPassword(j)
       PROVE  LimitsInv'
  <2>1. /\ stage[j] = "password" /\ stage' = [stage EXCEPT ![j] = "clear"]
        /\ faults' \in 0..MaxFaults /\ faults' \in Nat /\ faults' >= faults
        /\ counter'.until \in 0..(MaxTime + Window)
        /\ UNCHANGED << now, failed, operations, asked, judged, admitted >>
    BY <1>11, <1>1, LimitsAssumption DEF RightPassword, GoTo, Fault, LimitsTypes
  <2>2. /\ stage' \in [Slots -> Stages]
        /\ Busy(stage', "record") = Busy(stage, "record")
        /\ Busy(stage', "password") = Busy(stage, "password") - 1
        /\ Busy(stage', "insert") = Busy(stage, "insert")
    BY <1>1, <2>1, BusyMoves
  <2>3. LimitsTypes'
    BY <1>1, <2>1, <2>2 DEF LimitsTypes, Past
  <2>4. WrongOnesCounted' /\ OperationsCounted'
    BY <1>1, <1>3, <2>1, <2>2, <2>3 DEF WrongOnesCounted, OperationsCounted, LimitsTypes
  <2>5. PlacesHold'
    <3>1. Edge' = Edge
      BY <1>4, <2>1
    <3> QED
      BY <1>1, <1>3, <2>1, <2>2, <3>1 DEF PlacesHold
  <2> QED
    BY <2>3, <2>4, <2>5 DEF LimitsInv
<1>12. ASSUME NEW j \in Slots, ClearFailed(j)
       PROVE  LimitsInv'
  <2>1. /\ stage[j] = "clear" /\ stage' = [stage EXCEPT ![j] = "none"]
        /\ \/ failed' = << >> /\ judged' = << >>
           \/ failed' = failed /\ judged' = judged
        /\ faults' \in 0..MaxFaults /\ faults' \in Nat /\ faults' >= faults
        /\ UNCHANGED << now, operations, counter, asked, admitted >>
    BY <1>12, <1>1, LimitsAssumption DEF ClearFailed, GoTo, Fault, LimitsTypes
  <2>2. /\ stage' \in [Slots -> Stages]
        /\ Busy(stage', "record") = Busy(stage, "record")
        /\ Busy(stage', "password") = Busy(stage, "password")
        /\ Busy(stage', "insert") = Busy(stage, "insert")
    BY <1>1, <2>1, BusyMoves
  <2>3. Edge' = Edge
    BY <1>4, <2>1
  <2>4. LimitsTypes' /\ WrongOnesCounted' /\ PlacesHold'
    <3>1. CASE failed' = << >> /\ judged' = << >>
      <4>1. Past(failed') /\ Past(judged') /\ \A t : RowsSince(failed', t) = 0 /\ RowsSince(judged', t) = 0
        BY <3>1, CountEmpty DEF Past
      <4>2. Busy(stage, "record") + Busy(stage, "password") <= MaxOverlap
        BY <2>1, <2>2, <1>3, <1>1, SlotsCount DEF LimitsTypes, Busy
      <4>3. LimitsTypes'
        BY <1>1, <2>1, <2>2, <4>1 DEF LimitsTypes, Past
      <4>4. WrongOnesCounted'
        BY <1>1, <1>3, <2>1, <2>2, <4>1 DEF WrongOnesCounted, LimitsTypes
      <4>5. PlacesHold'
        BY <1>1, <1>3, <2>1, <2>2, <2>3, <4>1, <4>2, SMTT(30) DEF PlacesHold
      <4> QED
        BY <4>3, <4>4, <4>5
    <3>2. CASE failed' = failed /\ judged' = judged
      <4>1. LimitsTypes'
        BY <1>1, <2>1, <2>2, <3>2 DEF LimitsTypes, Past
      <4>2. WrongOnesCounted'
        BY <1>1, <1>3, <2>1, <2>2, <3>2 DEF WrongOnesCounted, LimitsTypes
      <4>3. PlacesHold'
        BY <1>1, <1>3, <2>1, <2>2, <2>3, <3>2 DEF PlacesHold
      <4> QED
        BY <4>1, <4>2, <4>3
    <3> QED
      BY <2>1, <3>1, <3>2
  <2>5. OperationsCounted'
    BY <1>1, <2>1 DEF OperationsCounted
  <2> QED
    BY <2>4, <2>5 DEF LimitsInv
<1>13. ASSUME NEW j \in Slots, BeginOperation(j)
       PROVE  LimitsInv'
  <2>1. /\ stage[j] = "none" /\ stage' = [stage EXCEPT ![j] = "insert"] /\ asked' \in 0..MaxAsked
        /\ RowsSince(operations, Edge) < MaxOperations
        /\ UNCHANGED << now, failed, operations, counter, faults, judged, admitted >>
    BY <1>13, <1>1, <1>5, LimitsAssumption DEF BeginOperation, Ask, GoTo, LimitsTypes
  <2>2. /\ stage' \in [Slots -> Stages]
        /\ Busy(stage', "record") = Busy(stage, "record")
        /\ Busy(stage', "password") = Busy(stage, "password")
        /\ Busy(stage', "insert") = Busy(stage, "insert") + 1
    BY <1>1, <2>1, BusyMoves
  <2>3. LimitsTypes'
    BY <1>1, <2>1, <2>2 DEF LimitsTypes, Past
  <2>4. WrongOnesCounted' /\ OperationsCounted'
    BY <1>1, <2>1, <2>2 DEF WrongOnesCounted, OperationsCounted
  <2>5. PlacesHold'
    <3>1. Edge' = Edge
      BY <1>4, <2>1
    <3>2. /\ RowsSince(failed', Edge) = RowsSince(failed, Edge) /\ RowsSince(judged', Edge) = RowsSince(judged, Edge)
          /\ RowsSince(operations', Edge) = RowsSince(operations, Edge) /\ faults' = faults
      BY <2>1, <3>1
    <3>3. RowsSince(operations, Edge) < MaxOperations /\ Busy(stage, "insert") + 1 <= MaxOverlap
      BY <1>6, <2>1
    <3>4. RowsSince(failed', Edge) + Busy(stage', "record") + Busy(stage', "password") <= MaxFailed + MaxOverlap - 1 + faults'
      BY ONLY <1>p, <1>q, <2>2, <3>2, <3>3
    <3>5. RowsSince(judged', Edge) + Busy(stage', "password") <= MaxFailed + MaxOverlap - 1 + faults'
      BY ONLY <1>p, <1>q, <2>2, <3>2, <3>3
    <3>6. RowsSince(operations', Edge) + Busy(stage', "insert") <= MaxOperations + MaxOverlap - 1
      BY ONLY <1>p, <1>q, <2>2, <3>2, <3>3
    <3> QED
      BY <3>1, <3>4, <3>5, <3>6 DEF PlacesHold
  <2> QED
    BY <2>3, <2>4, <2>5 DEF LimitsInv
<1>14. ASSUME NEW j \in Slots, CommitOperation(j)
       PROVE  LimitsInv'
  <2>1. /\ stage[j] = "insert" /\ stage' = [stage EXCEPT ![j] = "none"]
        /\ \/ operations' = Append(operations, now) /\ admitted' = Append(admitted, now)
           \/ operations' = operations /\ admitted' = admitted
        /\ faults' \in 0..MaxFaults /\ faults' \in Nat /\ faults' >= faults
        /\ UNCHANGED << now, failed, counter, asked, judged >>
    BY <1>14, <1>1, LimitsAssumption DEF CommitOperation, GoTo, Fault, LimitsTypes
  <2>2. /\ stage' \in [Slots -> Stages]
        /\ Busy(stage', "record") = Busy(stage, "record")
        /\ Busy(stage', "password") = Busy(stage, "password")
        /\ Busy(stage', "insert") = Busy(stage, "insert") - 1
    BY <1>1, <2>1, BusyMoves
  <2>3. /\ Past(operations') /\ Past(admitted')
        /\ \A t \in 0..now : t + Window >= now => RowsSince(admitted', t) = RowsSince(operations', t)
        /\ \A t \in 0..now : RowsSince(operations', t) <= RowsSince(operations, t) + 1 /\ RowsSince(operations', t) \in Nat
    <3>1. CASE operations' = Append(operations, now) /\ admitted' = Append(admitted, now)
      <4>1. /\ Past(operations') /\ \A t \in 0..now : RowsSince(operations', t) = RowsSince(operations, t) + 1
            /\ Past(admitted') /\ \A t \in 0..now : RowsSince(admitted', t) = RowsSince(admitted, t) + 1
        BY <1>1, <3>1, CountAppend DEF LimitsTypes
      <4> QED
        BY <4>1, <1>1, <1>3 DEF OperationsCounted
    <3>2. CASE operations' = operations /\ admitted' = admitted
      BY <3>2, <2>1, <1>1, <1>3, SMTT(30) DEF LimitsTypes, OperationsCounted, Past
    <3> QED
      BY <2>1, <3>1, <3>2
  <2>4. LimitsTypes'
    BY <1>1, <2>1, <2>2, <2>3 DEF LimitsTypes, Past
  <2>5. WrongOnesCounted' /\ OperationsCounted'
    <3>1. \A t \in 0..now : t + Window >= now =>
               RowsSince(judged', t) <= RowsSince(failed', t) + Busy(stage', "record") + faults'
      <4> SUFFICES ASSUME NEW t \in 0..now, t + Window >= now
                   PROVE  RowsSince(judged', t) <= RowsSince(failed', t) + Busy(stage', "record") + faults'
        OBVIOUS
      <4>1. RowsSince(judged, t) <= RowsSince(failed, t) + Busy(stage, "record") + faults
        BY <1>w
      <4>2. /\ RowsSince(judged, t) \in Nat /\ RowsSince(failed, t) \in Nat /\ Busy(stage, "record") \in Nat
            /\ faults \in Nat /\ faults' \in Nat
        BY <1>0, <1>3, <2>1, <2>3
      <4>3. /\ RowsSince(judged', t) = RowsSince(judged, t) /\ RowsSince(failed', t) = RowsSince(failed, t)
            /\ Busy(stage', "record") = Busy(stage, "record") /\ faults' >= faults
        BY <2>1, <2>2, <2>3
      <4> QED
        BY ONLY <4>1, <4>2, <4>3
    <3>2. \A t \in 0..now : t + Window >= now => RowsSince(admitted', t) = RowsSince(operations', t)
      BY <1>0, <1>w, <1>3, <2>1, <2>2, <2>3
    <3> QED
      BY <2>1, <3>1, <3>2 DEF WrongOnesCounted, OperationsCounted
  <2>6. PlacesHold'
    <3>1. Edge' = Edge /\ RowsSince(operations', Edge) <= RowsSince(operations, Edge) + 1 /\ RowsSince(operations', Edge) \in Nat
      BY <1>2, <1>4, <2>1, <2>3
    <3>2. /\ RowsSince(failed', Edge) = RowsSince(failed, Edge) /\ RowsSince(judged', Edge) = RowsSince(judged, Edge)
          /\ faults' \in Nat /\ faults' >= faults
      BY <2>1, <3>1
    <3>4. RowsSince(failed', Edge) + Busy(stage', "record") + Busy(stage', "password") <= MaxFailed + MaxOverlap - 1 + faults'
      BY ONLY <1>p, <1>q, <2>2, <3>2, <3>1
    <3>5. RowsSince(judged', Edge) + Busy(stage', "password") <= MaxFailed + MaxOverlap - 1 + faults'
      BY ONLY <1>p, <1>q, <2>2, <3>2, <3>1
    <3>6. RowsSince(operations', Edge) + Busy(stage', "insert") <= MaxOperations + MaxOverlap - 1
      BY ONLY <1>p, <1>q, <2>2, <3>2, <3>1
    <3> QED
      BY <3>1, <3>4, <3>5, <3>6 DEF PlacesHold
  <2> QED
    BY <2>4, <2>5, <2>6 DEF LimitsInv
<1>15. CASE Purge
  <2>1. /\ failed' \in {failed} \cup Kept(failed) /\ operations' \in {operations} \cup Kept(operations)
        /\ UNCHANGED << now, counter, stage, asked, faults, judged, admitted >>
    BY <1>15 DEF Purge
  <2>2. /\ Past(failed') /\ \A t \in 0..now : t + Window >= now => RowsSince(failed', t) = RowsSince(failed, t)
        /\ Past(operations') /\ \A t \in 0..now : t + Window >= now => RowsSince(operations', t) = RowsSince(operations, t)
    BY <1>1, <2>1, CountKept DEF LimitsTypes
  <2>3. LimitsTypes'
    BY <1>1, <2>1, <2>2 DEF LimitsTypes, Past
  <2>4. WrongOnesCounted' /\ OperationsCounted'
    BY <1>1, <2>1, <2>2 DEF WrongOnesCounted, OperationsCounted
  <2>5. PlacesHold'
    <3>1. Edge' = Edge /\ RowsSince(failed', Edge) = RowsSince(failed, Edge) /\ RowsSince(operations', Edge) = RowsSince(operations, Edge)
      BY <1>2, <1>4, <2>1, <2>2
    <3> QED
      BY <1>1, <2>1, <3>1 DEF PlacesHold
  <2> QED
    BY <2>3, <2>4, <2>5 DEF LimitsInv
<1>16. CASE Pass
  <2>1. /\ now' = now + 1 /\ now' \in 0..MaxTime
        /\ UNCHANGED << failed, operations, counter, stage, asked, faults, judged, admitted >>
    BY <1>16, <1>1 DEF Pass
  <2>2. LimitsTypes'
    BY <1>1, <2>1, LenProperties, SMTT(30) DEF LimitsTypes, Past
  <2>3. /\ RowsSince(failed, now') = 0 /\ RowsSince(judged, now') = 0
        /\ RowsSince(operations, now') = 0 /\ RowsSince(admitted, now') = 0
    <3>1. now + 1 \in Nat /\ now + 1 > now /\ now' = now + 1
      BY <1>1, <2>1
    <3>2. Past(failed) /\ Past(judged) /\ Past(operations) /\ Past(admitted)
      BY <1>1 DEF LimitsTypes
    <3> QED
      BY <1>0, <3>1, <3>2, CountFuture DEF Past
  <2>4. \A t \in 0..now' : t = now' \/ (t \in 0..now /\ (t + Window >= now' => t + Window >= now))
    BY <1>1, <2>1
  <2>5. WrongOnesCounted'
    BY <1>1, <1>3, <2>1, <2>3, <2>4 DEF WrongOnesCounted
  <2>6. OperationsCounted'
    BY <1>1, <1>3, <2>1, <2>3, <2>4 DEF OperationsCounted
  <2>7. PlacesHold'
    <3>1. Edge \in Nat /\ Edge' \in Nat /\ Edge <= Edge'
      BY <1>1, <2>1 DEF Edge
    <3>2. /\ RowsSince(failed, Edge') <= RowsSince(failed, Edge) /\ RowsSince(judged, Edge') <= RowsSince(judged, Edge)
          /\ RowsSince(operations, Edge') <= RowsSince(operations, Edge)
      BY <1>1, <3>1, SinceLater DEF RowsSince, LimitsTypes, Past
    <3>3. RowsSince(failed, Edge') \in Nat /\ RowsSince(judged, Edge') \in Nat /\ RowsSince(operations, Edge') \in Nat
      BY <1>3
    <3> QED
      BY <1>1, <1>3, <2>1, <3>2, <3>3 DEF PlacesHold
  <2> QED
    BY <2>2, <2>5, <2>6, <2>7 DEF LimitsInv
<1>17. CASE UNCHANGED limitVars
  BY <1>1, <1>17 DEF limitVars, LimitsInv, LimitsTypes, Past, WrongOnesCounted, OperationsCounted, PlacesHold, Edge
<1> QED
  BY <1>7, <1>8, <1>9, <1>10, <1>11, <1>12, <1>13, <1>14, <1>15, <1>16, <1>17 DEF LimitsNext

\* In every state the window holds no more wrong passwords and no more operations than the
\* limits, the requests that overlap and, for passwords, the statements that failed allow.
THEOREM LimitsAlwaysHold == LimitsSpec => []LimitsHold
<1>1. LimitsInv => LimitsHold
  <2> SUFFICES ASSUME LimitsInv
               PROVE  LimitsHold
    OBVIOUS
  <2>1. /\ LimitsTypes /\ OperationsCounted /\ PlacesHold
        /\ now \in Nat /\ MaxFailed \in Nat /\ MaxOperations \in Nat /\ MaxOverlap \in Nat \ {0} /\ faults \in Nat
    BY LimitsAssumption DEF LimitsInv, LimitsTypes
  <2>2. /\ Edge \in 0..now /\ Edge + Window >= now
        /\ Recent(judged) = Since(judged, Edge) /\ Recent(admitted) = Since(admitted, Edge)
    BY <2>1, EdgeIsWindow DEF LimitsTypes, Past
  <2>3. /\ RowsSince(judged, Edge) \in Nat /\ RowsSince(operations, Edge) \in Nat /\ RowsSince(failed, Edge) \in Nat
        /\ Busy(stage, "password") \in Nat /\ Busy(stage, "insert") \in Nat
    BY <2>1, CountNat
  <2>4. RowsSince(admitted, Edge) = RowsSince(operations, Edge)
    BY <2>1, <2>2 DEF OperationsCounted
  <2>5. RowsSince(judged, Edge) <= MaxFailed + MaxOverlap - 1 + faults
    BY <2>1, <2>3 DEF PlacesHold
  <2>6. RowsSince(admitted, Edge) <= MaxOperations + MaxOverlap - 1
    BY <2>1, <2>3, <2>4 DEF PlacesHold
  <2>7. LimitsTypeOK
    <3>1. \A times \in {failed, operations, judged, admitted} : \A k \in DOMAIN times : times[k] \in 0..now
      BY <2>1, LenProperties DEF LimitsTypes, Past
    <3> QED
      BY <2>1, <3>1 DEF LimitsTypes, LimitsTypeOK, Stages
  <2> QED
    BY <2>2, <2>5, <2>6, <2>7 DEF LimitsHold, RowsSince
<1> QED
  BY <1>1, LimitsStart, LimitsStep, PTL DEF LimitsSpec

(***************************************************************************)
(* The parts together (MCWeb).                                             *)
(***************************************************************************)

\* Behind a request each part does only what it does alone: what is proved of a part, here and
\* in ContentProofs, holds of all of them together.
THEOREM WebImplementsParts ==
  WebSpec => Spec /\ EventsSpec /\ ComputeSpec /\ ContentSpec /\ LimitsSpec
<1>1. WebInit => Init /\ EventsInit /\ ComputeInit /\ ContentInit /\ LimitsInit
  BY DEF WebInit
<1>2. [WebNext]_webVars =>
        /\ [Next]_vars /\ [EventsNext]_eventVars /\ [ComputeNext]_computeVars
        /\ [ContentNext]_contentVars /\ [LimitsNext]_limitVars
  BY DEF WebNext, webVars
<1> QED
  BY <1>1, <1>2, PTL DEF WebSpec, Spec, EventsSpec, ComputeSpec, ContentSpec, LimitsSpec
=============================================================================
