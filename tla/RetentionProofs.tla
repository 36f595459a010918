-------------------------- MODULE RetentionProofs --------------------------
(***************************************************************************)
(* Theorems about what happens to tickets besides the panel.  Whatever     *)
(* archival does (TicketRetention), the invariants of the ticket domain    *)
(* (module TicketsProofs) survive it, and what is deleted is in an         *)
(* archive.  Replies of the community inbox (CommunityReplies), for any    *)
(* number of students, replies and tickets, deadlock only in the way       *)
(* stated and go to an open ticket first.                                  *)
(***************************************************************************)
EXTENDS MCRetention, TicketsProofs, SequenceTheorems, FiniteSetTheorems, WellFoundedInduction

\* The ids going to be deleted are rows, and after the file was written they
\* are in it.
BatchInv ==
  /\ batch \subseteq rows
  /\ written \in BOOLEAN
  /\ written => batch \subseteq archived

RetentionInv ==
  TypeOK /\ LocksInv /\ ChecksInv /\ BatchInv /\ DeletedAreArchived

-----------------------------------------------------------------------------
\* At the start there is nothing to archive.
LEMMA RetentionInitInv == RetentionInit => RetentionInv
<1>1. RetentionInit => TypeOK /\ LocksInv /\ ChecksInv
  BY InitTypes, InitLocks, InitChecks DEF RetentionInit
<1>2. RetentionInit => BatchInv /\ DeletedAreArchived
  BY DEF RetentionInit, Init, BatchInv, DeletedAreArchived
<1> QED
  BY <1>1, <1>2 DEF RetentionInv

\* A step of the ticket domain creates rows and removes none.
LEMMA DomainKeepsRows ==
  ASSUME TypeOK, Next
  PROVE  \/ UNCHANGED <<used, rows>>
         \/ \E t \in TicketIds : used' = used \cup {t} /\ rows' = rows \cup {t}
<1>1. ASSUME NEW t \in TicketIds, NEW o, NEW sa, Insert(t, o, sa)
      PROVE  used' = used \cup {t} /\ rows' = rows \cup {t}
  BY <1>1 DEF Insert, ConsumeId
<1>2. ASSUME NEW u \in Users, Create(u)
      PROVE  \E t \in TicketIds : used' = used \cup {t} /\ rows' = rows \cup {t}
  BY <1>1, <1>2 DEF Create
<1>3. CASE CreateAnonymous
  BY <1>1, <1>3 DEF CreateAnonymous
<1> QED
  BY <1>2, <1>3
  DEF Next, FindUser, CreateFails, Begin, Commit, Rollback, EraseTickets, EraseMessages,
      EraseUser, EraseRollback

\* Steps of the ticket domain keep the invariant: they leave the batch alone.
LEMMA DomainStep ==
  RetentionInv /\ Next /\ UNCHANGED <<batch, written, archived>> => RetentionInv'
<1> SUFFICES ASSUME RetentionInv, Next, UNCHANGED <<batch, written, archived>>
             PROVE  RetentionInv'
  OBVIOUS
<1>1. TypeOK /\ LocksInv /\ ChecksInv /\ BatchInv /\ DeletedAreArchived
  BY DEF RetentionInv
<1>2. TypeOK' /\ LocksInv' /\ ChecksInv'
  BY <1>1, StepTypes, StepLocks, StepChecks
<1>3. BatchInv' /\ DeletedAreArchived'
  BY <1>1, DomainKeepsRows DEF BatchInv, DeletedAreArchived
<1> QED
  BY <1>2, <1>3 DEF RetentionInv

\* Deleting a chunk keeps the invariant: it waits for rows in use, and the file has
\* what it removes.
LEMMA DeleteStep == RetentionInv /\ DeleteChunk => RetentionInv'
<1> SUFFICES ASSUME RetentionInv, DeleteChunk PROVE RetentionInv'
  OBVIOUS
<1>1. TypeOK /\ LocksInv /\ ChecksInv /\ BatchInv /\ DeletedAreArchived
  BY DEF RetentionInv
<1>2. written /\ UNCHANGED <<used, users, ticket, job, draft, erasure, written, archived>>
  BY DEF DeleteChunk, MayDelete
<1>3. PICK chunk \in SUBSET batch :
        (\A t \in chunk : Free(t)) /\ rows' = rows \ chunk /\ batch' = batch \ chunk
  BY DEF DeleteChunk
<1>4. TypeOK'
  <2>1. rows' \subseteq used
    BY <1>1, <1>3 DEF TypeOK
  <2> QED
    BY <1>1, <1>2, <2>1 DEF TypeOK, ticket
<1>5. LocksInv'
  <2>1. \A c \in Clerks : job[c] # Idle => job[c].id \notin chunk
    BY <1>3 DEF Free, LockedByJob
  <2>2. \A u \in Users : \A t \in erasure[u].mine : t \notin chunk
    BY <1>3 DEF Free, LockedByErasure
  <2>3. UNCHANGED <<status, owner, job, erasure>>
    BY <1>2 DEF ticket
  <2> QED
    BY <1>1, <1>3, <2>1, <2>2, <2>3 DEF LocksInv, LockedByErasure
<1>6. ChecksInv'
  BY <1>1, <1>2 DEF ChecksInv, ticket
<1>7. BatchInv' /\ DeletedAreArchived'
  BY <1>1, <1>2, <1>3 DEF BatchInv, DeletedAreArchived
<1> QED
  BY <1>4, <1>5, <1>6, <1>7 DEF RetentionInv

\* Steps that change only what archival knows keep the invariant.
LEMMA ArchivalStep ==
  RetentionInv /\ UNCHANGED vars /\ (SelectOld \/ WriteArchive \/ ArchivalStops) => RetentionInv'
<1> SUFFICES ASSUME RetentionInv, UNCHANGED vars, SelectOld \/ WriteArchive \/ ArchivalStops
             PROVE  RetentionInv'
  OBVIOUS
<1>1. TypeOK /\ LocksInv /\ ChecksInv /\ BatchInv /\ DeletedAreArchived
  BY DEF RetentionInv
<1>2. TypeOK' /\ LocksInv' /\ ChecksInv'
  BY <1>1, StepTypes, StepLocks, StepChecks
<1>3. UNCHANGED <<used, rows>>
  BY DEF vars
<1>4. BatchInv' /\ DeletedAreArchived'
  BY <1>1, <1>3
  DEF SelectOld, WriteArchive, ArchivalStops, Archivable, BatchInv, DeletedAreArchived
<1> QED
  BY <1>2, <1>4 DEF RetentionInv

\* The invariant holds in every state.
LEMMA AlwaysRetentionInv == RetentionSpec => []RetentionInv
<1>1. RetentionInv /\ [RetentionNext]_allVars => RetentionInv'
  <2> SUFFICES ASSUME RetentionInv, [RetentionNext]_allVars PROVE RetentionInv'
    OBVIOUS
  <2>1. ASSUME NEW c \in Clerks, CommitAndTell(c) PROVE RetentionInv'
    BY <2>1, DomainStep DEF CommitAndTell, Next
  <2>2. ASSUME NEW u \in Users, EraseUserRows(u) PROVE RetentionInv'
    BY <2>2, DomainStep DEF EraseUserRows, Next
  <2>3. CASE OtherTicketStep
    BY <2>3, DomainStep DEF OtherTicketStep, retention, Next
  <2>4. ASSUME UNCHANGED <<vars, batch, written, archived>> PROVE RetentionInv'
    BY <2>4, StepTypes, StepLocks, StepChecks
    DEF RetentionInv, BatchInv, DeletedAreArchived, vars
  <2>5. ASSUME NEW t \in TicketIds, GrowOld(t) PROVE RetentionInv'
    BY <2>4, <2>5 DEF GrowOld
  <2>6. CASE SelectOld \/ WriteArchive \/ ArchivalStops
    BY <2>6, ArchivalStep DEF SelectOld, WriteArchive, ArchivalStops
  <2>7. CASE UNCHANGED allVars
    BY <2>4, <2>7 DEF allVars, retention
  <2> QED
    BY <2>1, <2>2, <2>3, <2>5, <2>6, <2>7, DeleteStep DEF RetentionNext
<1> QED
  BY <1>1, RetentionInitInv, PTL DEF RetentionSpec

\* A ticket leaves the database only after an archive file was written with it,
\* wherever archival is interrupted.
THEOREM NothingLost == RetentionSpec => []DeletedAreArchived
<1>1. RetentionInv => DeletedAreArchived
  BY DEF RetentionInv
<1> QED
  BY <1>1, AlwaysRetentionInv, PTL

\* No row is deleted under a transaction that works on it, or erases it.
THEOREM WorkIsRespected == RetentionSpec => []NoWorkOnDeleted
<1>1. RetentionInv => NoWorkOnDeleted
  BY DEF RetentionInv, LocksInv, NoWorkOnDeleted
<1> QED
  BY <1>1, AlwaysRetentionInv, PTL
-----------------------------------------------------------------------------
\* What archival remembers of rows and ids, and what students were told.
RecordsInv ==
  /\ old \subseteq rows
  /\ archived \subseteq used
  /\ told \in [TicketIds -> 0..Cardinality(TicketIds)]

\* A personal number is at most the number of tickets.
LEMMA NumbersAreSmall ==
  ASSUME TypeOK, NEW t \in TicketIds
  PROVE  LocalNumber(t) \in 0..Cardinality(TicketIds)
<1> DEFINE S == {k \in rows : owner[k] = owner[t] /\ k <= t}
<1>1. S \in SUBSET TicketIds
  BY DEF TypeOK
<1>2. IsFiniteSet(S) /\ Cardinality(S) <= Cardinality(TicketIds)
  BY <1>1, FS_Subset, TicketsAssumption
<1>3. Cardinality(S) \in Nat /\ Cardinality(TicketIds) \in Nat
  BY <1>2, FS_CardinalityType, TicketsAssumption
<1> QED
  BY <1>2, <1>3 DEF LocalNumber

\* Every step keeps the records: rows that go are no longer old, and were archived as
\* rows that existed.
LEMMA RecordsStep ==
  RetentionInv /\ RecordsInv /\ [RetentionNext]_allVars => RecordsInv'
<1> SUFFICES ASSUME RetentionInv, RecordsInv, [RetentionNext]_allVars PROVE RecordsInv'
  OBVIOUS
<1>1. TypeOK /\ BatchInv
  BY DEF RetentionInv
<1>2. ASSUME Next PROVE rows \subseteq rows' /\ used \subseteq used'
  BY <1>1, <1>2, DomainKeepsRows
<1>3. ASSUME NEW c \in Clerks, CommitAndTell(c) PROVE RecordsInv'
  <2>1. rows \subseteq rows' /\ used \subseteq used' /\ UNCHANGED archived /\ old' \subseteq old
    BY <1>2, <1>3 DEF CommitAndTell, Next
  <2>2. job[c].id \in TicketIds
    BY <1>1, <1>3, JobFields DEF CommitAndTell, Commit
  <2>3. told' = told \/ told' = [told EXCEPT ![job[c].id] = LocalNumber(job[c].id)]
    BY <1>3 DEF CommitAndTell
  <2>4. told' \in [TicketIds -> 0..Cardinality(TicketIds)]
    BY <1>1, <2>2, <2>3, NumbersAreSmall DEF RecordsInv
  <2> QED
    BY <2>1, <2>4 DEF RecordsInv
<1>4. ASSUME NEW u \in Users, EraseUserRows(u) PROVE RecordsInv'
  <2>1. rows \subseteq rows' /\ used \subseteq used' /\ UNCHANGED << archived, told >> /\ old' \subseteq old
    BY <1>2, <1>4 DEF EraseUserRows, Next
  <2> QED
    BY <2>1 DEF RecordsInv
<1>5. CASE OtherTicketStep
  BY <1>2, <1>5 DEF OtherTicketStep, Next, retention, RecordsInv
<1>6. ASSUME NEW t \in TicketIds, GrowOld(t) PROVE RecordsInv'
  BY <1>6 DEF GrowOld, vars, RecordsInv
<1>7. CASE SelectOld \/ WriteArchive \/ ArchivalStops
  BY <1>1, <1>7 DEF SelectOld, WriteArchive, ArchivalStops, vars, TypeOK, BatchInv, RecordsInv
<1>8. CASE DeleteChunk
  BY <1>8 DEF DeleteChunk, RecordsInv
<1>9. CASE UNCHANGED allVars
  BY <1>9 DEF allVars, vars, retention, RecordsInv
<1> QED
  BY <1>3, <1>4, <1>5, <1>6, <1>7, <1>8, <1>9 DEF RetentionNext

\* Types, among them that archival only ever works on rows that exist, and that a
\* student is never told a number above the number of tickets.
THEOREM RetentionTypes == RetentionSpec => []RetentionTypeOK
<1>1. RetentionInit => RecordsInv
  <2>1. 0 \in 0..Cardinality(TicketIds)
    BY FS_CardinalityType, TicketsAssumption
  <2> QED
    BY <2>1 DEF RetentionInit, RecordsInv
<1>2. RetentionInv /\ RecordsInv => RetentionTypeOK
  BY DEF RetentionInv, BatchInv, RecordsInv, RetentionTypeOK
<1> QED
  BY <1>1, <1>2, RecordsStep, AlwaysRetentionInv, PTL DEF RetentionSpec
-----------------------------------------------------------------------------
(***************************************************************************)
(* Replies of the community inbox (CommunityReplies).                      *)
(***************************************************************************)
Searches ==
  [at : {"none", "own", "all", "any", "quoted", "active", "latest", "write", "drop"},
   who : Students \cup {0}, num : Numbers, quote : BOOLEAN, quoted : Numbers, match : Numbers,
   todo : SUBSET Nat, listed : SUBSET Nat, found : Numbers,
   grown : BOOLEAN, rose : BOOLEAN, passed : BOOLEAN]

RepliesTyped ==
  /\ student \in Seq(Students) /\ Len(student) <= MaxTickets /\ open \subseteq DOMAIN student
  /\ search \in [Replies -> Searches]
  /\ locked \in [Replies -> SUBSET DOMAIN student]
  /\ received \in 0..MaxReplies /\ changes \in 0..MaxChanges
  /\ openSince \in [Replies -> SUBSET open]
  /\ \A r \in Replies :
       /\ search[r].todo \subseteq search[r].listed /\ search[r].listed \subseteq DOMAIN student
       /\ search[r].at = "none" => search[r].todo = {} /\ locked[r] = {}
       /\ search[r].found \in DOMAIN student \cup {0}
       /\ search[r].at = "write" => search[r].found # 0

\* A row has one holder.
OneHolder == \A r, q \in Replies : r # q => locked[r] \cap locked[q] = {}

\* What a reply without one of the causes is still to lock is older than all it holds, or
\* it holds it already.
Falls(r) ==
  \/ search[r].todo \subseteq locked[r]
  \/ \A t \in search[r].todo, u \in locked[r] : t < u

Orderly(r) ==
  LET q == search[r] IN
  ~q.rose /\ ~q.grown /\ ~q.passed =>
    /\ q.at \notin {"all", "any"}
    /\ q.at = "quoted" => Of(q.who) \subseteq q.todo \cup locked[r]
    /\ q.at = "active" => q.found # 0 \/ Of(q.who) \subseteq locked[r] \/ locked[r] = {}
    /\ Falls(r)

\* The last resort, alone: tickets that were open all along are still to come until one
\* that is open is locked.
Resorts(r) ==
  LET q == search[r] IN
  q.num = 0 /\ ~q.quote =>
    /\ q.at \in {"none", "active", "latest", "write", "drop"}
    /\ q.at = "active" /\ q.found = 0 => openSince[r] \subseteq q.todo
    /\ q.at = "active" /\ q.found # 0 => q.found \in open \cap locked[r]
    /\ q.at = "latest" => openSince[r] = {}
    /\ q.at = "write" => openSince[r] = {} \/ q.found \in open \cap locked[r]

RepliesInv ==
  /\ RepliesTyped /\ OneHolder
  /\ \A r \in Replies : Orderly(r)
  /\ \A r \in Replies : Resorts(r)

LEMMA RowNumbers ==
  ASSUME RepliesTyped
  PROVE  /\ DOMAIN student = 1..Len(student) /\ Len(student) \in 0..MaxTickets
         /\ DOMAIN student \subseteq Nat /\ DOMAIN student \subseteq Numbers /\ 0 \notin DOMAIN student
<1>1. DOMAIN student = 1..Len(student) /\ Len(student) \in Nat /\ Len(student) <= MaxTickets /\ MaxTickets \in Nat
  BY LenProperties, RepliesAssumption DEF RepliesTyped
<1> QED
  BY <1>1 DEF Numbers

LEMMA ListingRows ==
  ASSUME NEW q, NEW at
  PROVE  Listing(q, at) \subseteq DOMAIN student
BY DEF Listing, Of, Unfinished, Last

LEMMA NoSearchTyped == /\ NoSearch \in Searches /\ NoSearch.at = "none" /\ NoSearch.todo = {} /\ NoSearch.listed = {}
                       /\ NoSearch.num = 0 /\ NoSearch.quote = FALSE /\ NoSearch.found = 0
<1>1. 0 \in Numbers
  BY RepliesAssumption DEF Numbers
<1> QED
  BY <1>1 DEF NoSearch, Searches

\* The state of a search after a statement began.
LEMMA QueryGives ==
  ASSUME RepliesTyped, NEW r \in Replies, NEW q \in Searches,
         NEW at \in {"own", "all", "any", "quoted", "active", "latest", "write", "drop"}, Query(r, q, at)
  PROVE  /\ search' \in [Replies -> Searches]
         /\ \A p \in Replies \ {r} : search'[p] = search[p]
         /\ search'[r].at = at /\ search'[r].who = q.who /\ search'[r].num = q.num /\ search'[r].quote = q.quote
         /\ search'[r].todo = Listing(q, at) /\ search'[r].listed = Listing(q, at) /\ search'[r].found = 0
         /\ search'[r].grown = q.grown /\ search'[r].passed = q.passed
         /\ search'[r].rose = (q.rose \/ at = "all")
<1> DEFINE L == Listing(q, at)
           n == [q EXCEPT !.at = at, !.todo = L, !.listed = L, !.found = 0, !.rose = @ \/ at = "all"]
<1>1. L \in SUBSET Nat /\ 0 \in Numbers
  BY ListingRows, RowNumbers, RepliesAssumption DEF Numbers
<1>2. search' = [search EXCEPT ![r] = n]
  BY DEF Query
<1> HIDE DEF L
<1>3. /\ n \in Searches
      /\ n.at = at /\ n.who = q.who /\ n.num = q.num /\ n.quote = q.quote
      /\ n.todo = L /\ n.listed = L /\ n.found = 0
      /\ n.grown = q.grown /\ n.passed = q.passed
      /\ n.rose = (q.rose \/ at = "all")
  BY <1>1 DEF Searches
<1> HIDE DEF n
<1>4. search \in [Replies -> Searches]
  BY DEF RepliesTyped
<1>5. /\ search' \in [Replies -> Searches] /\ search'[r] = n
      /\ \A p \in Replies \ {r} : search'[p] = search[p]
  BY <1>2, <1>3, <1>4
<1> QED
  BY <1>3, <1>5 DEF L

\* Where the search of another reply is as it was and its student has no new ticket, what
\* was so stays so.
LEMMA OthersKeep ==
  ASSUME RepliesTyped, NEW p \in Replies, Orderly(p), Resorts(p), student' = student,
         search'[p] = search[p], locked'[p] = locked[p], openSince'[p] \subseteq openSince[p],
         open \cap locked[p] \subseteq open'
  PROVE  Orderly(p)' /\ Resorts(p)'
<1>1. Orderly(p)'
  BY DEF Orderly, Falls, Of
<1>2. Resorts(p)'
  BY DEF Resorts
<1> QED
  BY <1>1, <1>2

LEMMA RepliesStart == RepliesInit => RepliesInv
<1> SUFFICES ASSUME RepliesInit
             PROVE  RepliesInv
  OBVIOUS
<1>1. << >> \in Seq(Students) /\ Len(<< >>) = 0 /\ DOMAIN << >> = {}
  BY EmptySeq
<1>2. RepliesTyped
  BY <1>1, NoSearchTyped, RepliesAssumption DEF RepliesInit, RepliesTyped
<1>3. OneHolder
  BY DEF RepliesInit, OneHolder
<1>4. \A r \in Replies : Orderly(r) /\ Resorts(r)
  BY NoSearchTyped DEF RepliesInit, Orderly, Resorts, Falls
<1> QED
  BY <1>2, <1>3, <1>4 DEF RepliesInv

\* A reply that comes in holds nothing and begins with the number, the quotation or, with
\* neither, the last resort.
LEMMA ReceiveKeeps ==
  ASSUME RepliesInv, NEW r \in Replies, NEW s \in Students, NEW num \in Numbers, NEW quote \in BOOLEAN,
         NEW quoted \in Numbers, NEW match \in Numbers, Receive(r, s, num, quote, quoted, match)
  PROVE  RepliesInv'
<1> DEFINE q == [NoSearch EXCEPT !.who = s, !.num = num, !.quote = quote, !.quoted = quoted, !.match = match]
           q2 == [q EXCEPT !.num = q.quoted, !.quoted = 0]
<1>1. /\ RepliesTyped /\ OneHolder
      /\ \A p \in Replies : Orderly(p) /\ Resorts(p)
      /\ 0 \in Numbers
  BY RepliesAssumption DEF RepliesInv, Numbers
<1>2. /\ q \in Searches /\ q.who = s /\ q.num = num /\ q.quote = quote /\ q.quoted = quoted
      /\ q.rose = FALSE /\ q.grown = FALSE /\ q.passed = FALSE
  BY <1>1 DEF NoSearch, Searches
<1>3. q2 \in Searches /\ q2.who = s /\ q2.quote = quote /\ q2.num = quoted
  BY <1>1, <1>2 DEF Searches
<1>4. /\ search[r].at = "none" /\ received' \in 0..MaxReplies
      /\ locked' = locked /\ student' = student /\ open' = open /\ changes' = changes
      /\ openSince' = [openSince EXCEPT ![r] = Of(s) \cap open]
      /\ \/ num # 0 /\ Query(r, q, "own")
         \/ num = 0 /\ quote /\ quoted # 0 /\ Query(r, q2, "own")
         \/ num = 0 /\ quote /\ Query(r, q, "quoted")
         \/ num = 0 /\ ~quote /\ Query(r, q, "active")
  BY <1>1, <1>2, RepliesAssumption DEF Receive, AfterNumber, RepliesTyped
<1>5. locked[r] = {} /\ search[r].todo = {}
  BY <1>1, <1>4 DEF RepliesTyped
<1> HIDE DEF q, q2
<1> DEFINE n == search'[r]
<1>6. /\ search' \in [Replies -> Searches]
      /\ \A p \in Replies \ {r} : search'[p] = search[p]
      /\ n.listed = n.todo /\ n.todo \subseteq DOMAIN student /\ n.who = s
      /\ n.at \in {"own", "quoted", "active"} /\ n.found = 0
      /\ n.at = "quoted" => n.todo = Of(s)
      /\ n.num = 0 /\ ~n.quote => n.at = "active" /\ n.todo = Of(s) \cap open
  <2>1. CASE num # 0 /\ Query(r, q, "own")
    BY <1>1, <1>2, <2>1, QueryGives, ListingRows
  <2>2. CASE num = 0 /\ quote /\ quoted # 0 /\ Query(r, q2, "own")
    BY <1>1, <1>3, <2>2, QueryGives, ListingRows
  <2>3. CASE num = 0 /\ quote /\ Query(r, q, "quoted")
    <3>1. Listing(q, "quoted") = Of(s)
      BY <1>2 DEF Listing
    <3>2. /\ search' \in [Replies -> Searches]
          /\ \A p \in Replies \ {r} : search'[p] = search[p]
          /\ n.at = "quoted" /\ n.who = q.who /\ n.quote = q.quote /\ n.found = 0
          /\ n.todo = Listing(q, "quoted") /\ n.listed = Listing(q, "quoted")
      BY <1>1, <1>2, <2>3, QueryGives
    <3>3. n.quote
      BY <1>2, <2>3, <3>2
    <3> QED
      BY <1>2, <3>1, <3>2, <3>3, ListingRows
  <2>4. CASE num = 0 /\ ~quote /\ Query(r, q, "active")
    <3>1. Listing(q, "active") = Of(s) \cap open
      BY <1>2 DEF Listing, Unfinished
    <3> QED
      BY <1>1, <1>2, <2>4, <3>1, QueryGives, ListingRows
  <2> QED
    BY <1>4, <2>1, <2>2, <2>3, <2>4
<1>7. RepliesTyped'
  <2>1. openSince' \in [Replies -> SUBSET open]
    BY <1>1, <1>4 DEF RepliesTyped
  <2>2. \A p \in Replies : /\ search'[p].todo \subseteq search'[p].listed /\ search'[p].listed \subseteq DOMAIN student
                           /\ search'[p].at = "none" => search'[p].todo = {} /\ locked[p] = {}
                           /\ search'[p].found \in DOMAIN student \cup {0}
                           /\ search'[p].at = "write" => search'[p].found # 0
    BY <1>1, <1>6 DEF RepliesTyped
  <2> QED
    BY <1>1, <1>4, <1>6, <2>1, <2>2 DEF RepliesTyped
<1>8. OneHolder'
  BY <1>1, <1>4 DEF OneHolder
<1>9. Orderly(r)'
  BY <1>4, <1>5, <1>6 DEF Orderly, Falls, Of
<1>10. Resorts(r)'
  <2>1. openSince'[r] = Of(s) \cap open
    BY <1>1, <1>4 DEF RepliesTyped
  <2> QED
    BY <1>6, <2>1 DEF Resorts
<1>11. ASSUME NEW p \in Replies \ {r}
       PROVE  Orderly(p)' /\ Resorts(p)'
  <2>1. openSince'[p] = openSince[p]
    BY <1>1, <1>4 DEF RepliesTyped
  <2> QED
    BY <1>1, <1>4, <1>6, <2>1, OthersKeep
<1> QED
  BY <1>7, <1>8, <1>9, <1>10, <1>11 DEF RepliesInv

\* A row is locked only while nobody else holds it, in the order of the statement.
LEMMA LockKeeps ==
  ASSUME RepliesInv, NEW r \in Replies, LockRow(r)
  PROVE  RepliesInv'
<1> DEFINE q == search[r]
           n == search'[r]
<1>1. /\ RepliesTyped /\ OneHolder
      /\ \A p \in Replies : Orderly(p) /\ Resorts(p)
      /\ q \in Searches
  BY DEF RepliesInv, RepliesTyped
<1>2. PICK t \in Upcoming(q) :
        /\ FreeFor(r, t)
        /\ locked' = [locked EXCEPT ![r] = @ \cup {t}]
        /\ search' = [search EXCEPT ![r] =
             IF q.at = "active" /\ t \in open THEN [q EXCEPT !.todo = {}, !.found = t]
             ELSE [q EXCEPT !.todo = @ \ {t}, !.passed = @ \/ q.at = "active"]]
        /\ UNCHANGED << student, open, received, changes, openSince >>
  BY DEF LockRow
<1>3. /\ t \in q.todo /\ t \in DOMAIN student /\ t \in Numbers /\ t # 0 /\ t \in Nat /\ q.at # "none"
      /\ \A u \in q.todo : Precedes(q.at, t, u)
  BY <1>1, <1>2, RowNumbers DEF Upcoming, RepliesTyped
<1>4. /\ search' \in [Replies -> Searches]
      /\ \A p \in Replies \ {r} : search'[p] = search[p]
      /\ n.at = q.at /\ n.who = q.who /\ n.num = q.num /\ n.quote = q.quote /\ n.listed = q.listed
      /\ n.grown = q.grown /\ n.rose = q.rose
      /\ \/ q.at = "active" /\ t \in open /\ n.todo = {} /\ n.found = t /\ n.passed = q.passed
         \/ ~(q.at = "active" /\ t \in open) /\ n.todo = q.todo \ {t} /\ n.found = q.found
            /\ n.passed = (q.passed \/ q.at = "active")
  <2>1. search \in [Replies -> Searches]
    BY <1>1 DEF RepliesTyped
  <2>2. CASE q.at = "active" /\ t \in open
    <3> DEFINE m == [q EXCEPT !.todo = {}, !.found = t]
    <3>1. search' = [search EXCEPT ![r] = m]
      BY <1>2, <2>2
    <3>2. /\ m \in Searches /\ m.todo = {} /\ m.found = t /\ m.at = q.at /\ m.who = q.who /\ m.num = q.num
          /\ m.quote = q.quote /\ m.listed = q.listed /\ m.grown = q.grown /\ m.rose = q.rose /\ m.passed = q.passed
      BY <1>1, <1>3 DEF Searches
    <3> HIDE DEF m
    <3>3. search' \in [Replies -> Searches] /\ n = m /\ \A p \in Replies \ {r} : search'[p] = search[p]
      BY <2>1, <3>1, <3>2
    <3> QED
      BY <2>2, <3>2, <3>3
  <2>3. CASE ~(q.at = "active" /\ t \in open)
    <3> DEFINE m == [q EXCEPT !.todo = @ \ {t}, !.passed = @ \/ q.at = "active"]
    <3>1. search' = [search EXCEPT ![r] = m]
      BY <1>2, <2>3
    <3>2. /\ m \in Searches /\ m.todo = q.todo \ {t} /\ m.found = q.found /\ m.at = q.at /\ m.who = q.who
          /\ m.num = q.num /\ m.quote = q.quote /\ m.listed = q.listed /\ m.grown = q.grown /\ m.rose = q.rose
          /\ m.passed = (q.passed \/ q.at = "active")
      BY <1>1, <1>3 DEF Searches
    <3> HIDE DEF m
    <3>3. search' \in [Replies -> Searches] /\ n = m /\ \A p \in Replies \ {r} : search'[p] = search[p]
      BY <2>1, <3>1, <3>2
    <3> QED
      BY <2>3, <3>2, <3>3
  <2> QED
    BY <2>2, <2>3
<1>5. /\ locked' \in [Replies -> SUBSET DOMAIN student] /\ locked'[r] = locked[r] \cup {t}
      /\ \A p \in Replies \ {r} : locked'[p] = locked[p]
  BY <1>1, <1>2, <1>3 DEF RepliesTyped
<1>6. RepliesTyped'
  <2>1. /\ n.todo \subseteq n.listed /\ n.listed \subseteq DOMAIN student /\ n.at # "none"
    BY <1>1, <1>3, <1>4 DEF RepliesTyped
  <2>2. \A p \in Replies : /\ search'[p].todo \subseteq search'[p].listed /\ search'[p].listed \subseteq DOMAIN student
                           /\ search'[p].at = "none" => search'[p].todo = {} /\ locked'[p] = {}
                           /\ search'[p].found \in DOMAIN student \cup {0}
                           /\ search'[p].at = "write" => search'[p].found # 0
    BY <1>1, <1>4, <1>5, <2>1 DEF RepliesTyped
  <2> QED
    BY <1>1, <1>2, <1>4, <1>5, <2>2 DEF RepliesTyped
<1>7. OneHolder'
  BY <1>1, <1>2, <1>5 DEF OneHolder, FreeFor
<1>8. Orderly(r)'
  <2> SUFFICES ASSUME ~n.rose, ~n.grown, ~n.passed
               PROVE  /\ n.at \notin {"all", "any"}
                      /\ n.at = "quoted" => Of(n.who) \subseteq n.todo \cup locked'[r]
                      /\ n.at = "active" => n.found # 0 \/ Of(n.who) \subseteq locked'[r] \/ locked'[r] = {}
                      /\ n.todo \subseteq locked'[r] \/ \A i \in n.todo, u \in locked'[r] : i < u
    BY <1>2 DEF Orderly, Falls, Of
  <2>1. ~q.rose /\ ~q.grown /\ ~q.passed /\ (q.at = "active" => t \in open)
    BY <1>1, <1>4 DEF Searches
  <2>2. /\ q.at \notin {"all", "any"}
        /\ q.at = "quoted" => Of(q.who) \subseteq q.todo \cup locked[r]
        /\ q.todo \subseteq locked[r] \/ \A i \in q.todo, u \in locked[r] : i < u
    BY <1>1, <2>1 DEF Orderly, Falls
  <2>3. CASE q.at = "active" /\ t \in open
    BY <1>3, <1>4, <2>3
  <2>4. CASE ~(q.at = "active" /\ t \in open)
    <3>1. q.at # "active" /\ n.todo = q.todo \ {t} /\ n.at = q.at /\ n.who = q.who
      BY <1>4, <2>1, <2>4
    <3>2. n.at = "quoted" => Of(n.who) \subseteq n.todo \cup locked'[r]
      BY <1>5, <2>2, <3>1
    <3>3. ASSUME \A i \in q.todo, u \in locked[r] : i < u, NEW i \in n.todo, NEW u \in locked'[r]
          PROVE  i < u
      <4>1. i \in q.todo /\ i # t /\ i <= t /\ i \in Nat
        BY <1>1, <1>3, <2>2, <3>1, RowNumbers DEF Precedes, RepliesTyped
      <4>2. CASE u = t
        BY <1>3, <4>1, <4>2
      <4>3. CASE u \in locked[r]
        BY <3>3, <4>1, <4>3
      <4> QED
        BY <1>5, <4>2, <4>3
    <3>4. n.todo \subseteq locked'[r] \/ \A i \in n.todo, u \in locked'[r] : i < u
      BY <1>5, <2>2, <3>1, <3>3
    <3> QED
      BY <2>2, <3>1, <3>2, <3>4
  <2> QED
    BY <2>3, <2>4
<1>9. Resorts(r)'
  <2> SUFFICES ASSUME n.num = 0, ~n.quote
               PROVE  /\ n.at \in {"none", "active", "latest", "write", "drop"}
                      /\ n.at = "active" /\ n.found = 0 => openSince[r] \subseteq n.todo
                      /\ n.at = "active" /\ n.found # 0 => n.found \in open \cap locked'[r]
                      /\ n.at = "latest" => openSince[r] = {}
                      /\ n.at = "write" => openSince[r] = {} \/ n.found \in open \cap locked'[r]
    BY <1>2 DEF Resorts
  <2>1. /\ q.at \in {"none", "active", "latest", "write", "drop"}
        /\ q.at = "active" /\ q.found = 0 => openSince[r] \subseteq q.todo
        /\ q.at = "active" /\ q.found # 0 => q.found \in open \cap locked[r]
        /\ q.at = "latest" => openSince[r] = {}
        /\ q.at = "write" => openSince[r] = {} \/ q.found \in open \cap locked[r]
    BY <1>1, <1>4 DEF Resorts
  <2>2. openSince[r] \subseteq open
    BY <1>1 DEF RepliesTyped
  <2>3. CASE q.at = "active" /\ t \in open
    BY <1>3, <1>4, <1>5, <2>3
  <2>4. CASE ~(q.at = "active" /\ t \in open)
    <3>1. n.todo = q.todo \ {t} /\ n.found = q.found /\ n.at = q.at
      BY <1>4, <2>4
    <3> QED
      BY <1>5, <2>1, <2>2, <2>4, <3>1
  <2> QED
    BY <2>3, <2>4
<1>10. ASSUME NEW p \in Replies \ {r}
       PROVE  Orderly(p)' /\ Resorts(p)'
  BY <1>1, <1>2, <1>4, <1>5, OthersKeep
<1> QED
  BY <1>6, <1>7, <1>8, <1>9, <1>10 DEF RepliesInv

\* The statement that follows a list whose rows are all locked.
LEMMA NextKeeps ==
  ASSUME RepliesInv, NEW r \in Replies, NextStatement(r)
  PROVE  RepliesInv'
<1> DEFINE q == search[r]
           n == search'[r]
           q2 == [q EXCEPT !.num = q.quoted, !.quoted = 0]
<1>1. /\ RepliesTyped /\ OneHolder
      /\ \A p \in Replies : Orderly(p) /\ Resorts(p)
      /\ q \in Searches /\ q.todo = {} /\ q.at \notin {"none", "write", "drop"}
      /\ UNCHANGED << student, open, locked, received, changes, openSince >>
      /\ 0 \in Numbers
  <2>1. 0 \in Numbers
    BY RepliesAssumption DEF Numbers
  <2>2. q.todo = {} /\ q.at \notin {"none", "write", "drop"} /\ UNCHANGED << student, open, locked, received, changes, openSince >>
    BY DEF NextStatement
  <2> QED
    BY <2>1, <2>2 DEF RepliesInv, RepliesTyped
<1>2. q2 \in Searches /\ q2.who = q.who /\ q2.quote = q.quote /\ q2.rose = q.rose
  BY <1>1 DEF Searches
<1>3. \/ \E t \in Result(q) : search' = [search EXCEPT ![r] = [q EXCEPT !.at = "write", !.listed = {}, !.found = t]]
      \/ /\ Result(q) = {}
         /\ \/ q.at = "own" /\ Query(r, q, "all")
            \/ q.at = "all" /\ Query(r, q, "any")
            \/ q.at = "any" /\ q.quote /\ Query(r, q2, "own")
            \/ q.at = "any" /\ q.quote /\ Query(r, q, "quoted")
            \/ q.at = "any" /\ ~q.quote /\ Query(r, q, "active")
            \/ q.at = "quoted" /\ Query(r, q, "active")
            \/ q.at = "active" /\ Query(r, q, "latest")
            \/ q.at = "latest" /\ Query(r, q, "drop")
  BY <1>1 DEF NextStatement, Following, AfterNumber, Searches
<1>4. Result(q) \subseteq DOMAIN student /\ DOMAIN student \subseteq Numbers /\ 0 \notin DOMAIN student
  <2>1. q.listed \subseteq DOMAIN student /\ q.found \in DOMAIN student \cup {0}
    BY <1>1 DEF RepliesTyped
  <2>2. Result(q) \subseteq DOMAIN student
    BY <2>1 DEF Result
  <2> QED
    BY <1>1, <2>2, RowNumbers
<1> HIDE DEF q2
<1>5. CASE \E t \in Result(q) : search' = [search EXCEPT ![r] = [q EXCEPT !.at = "write", !.listed = {}, !.found = t]]
  <2>1. PICK t \in Result(q) : search' = [search EXCEPT ![r] = [q EXCEPT !.at = "write", !.listed = {}, !.found = t]]
    BY <1>5
  <2> DEFINE m == [q EXCEPT !.at = "write", !.listed = {}, !.found = t]
  <2>2. /\ m \in Searches /\ m.at = "write" /\ m.listed = {} /\ m.todo = {} /\ m.found = t /\ m.num = q.num
        /\ m.quote = q.quote
    BY <1>1, <1>4 DEF Searches
  <2> HIDE DEF m
  <2>3. /\ search' \in [Replies -> Searches] /\ n = m /\ \A p \in Replies \ {r} : search'[p] = search[p]
    BY <1>1, <2>1, <2>2 DEF m, RepliesTyped
  <2>4. Falls(r)' /\ Orderly(r)'
    BY <2>2, <2>3 DEF Orderly, Falls
  <2>5. Resorts(r)'
    <3>1. CASE q.at = "active"
      <4>1. t = q.found /\ q.found # 0
        BY <3>1 DEF Result
      <4> QED
        BY <1>1, <2>2, <2>3, <3>1, <4>1 DEF Resorts
    <3>2. CASE q.at # "active"
      BY <1>1, <2>2, <2>3, <3>2 DEF Resorts
    <3> QED
      BY <3>1, <3>2
  <2>6. RepliesTyped'
    <3>1. \A p \in Replies : /\ search'[p].todo \subseteq search'[p].listed /\ search'[p].listed \subseteq DOMAIN student
                             /\ search'[p].at = "none" => search'[p].todo = {} /\ locked[p] = {}
                             /\ search'[p].found \in DOMAIN student \cup {0}
                             /\ search'[p].at = "write" => search'[p].found # 0
      BY <1>1, <1>4, <2>2, <2>3 DEF RepliesTyped
    <3> QED
      BY <1>1, <2>3, <3>1 DEF RepliesTyped
  <2>7. ASSUME NEW p \in Replies \ {r}
        PROVE  Orderly(p)' /\ Resorts(p)'
    BY <1>1, <2>3, OthersKeep
  <2> QED
    BY <1>1, <2>4, <2>5, <2>6, <2>7 DEF RepliesInv, OneHolder
<1>6. CASE /\ Result(q) = {}
           /\ \/ q.at = "own" /\ Query(r, q, "all")
              \/ q.at = "all" /\ Query(r, q, "any")
              \/ q.at = "any" /\ q.quote /\ Query(r, q2, "own")
              \/ q.at = "any" /\ q.quote /\ Query(r, q, "quoted")
              \/ q.at = "any" /\ ~q.quote /\ Query(r, q, "active")
              \/ q.at = "quoted" /\ Query(r, q, "active")
              \/ q.at = "active" /\ Query(r, q, "latest")
              \/ q.at = "latest" /\ Query(r, q, "drop")
  <2>1. PICK z \in {q, q2}, at \in {"own", "all", "any", "quoted", "active", "latest", "drop"} :
          /\ Query(r, z, at)
          /\ \/ q.at = "own" /\ z = q /\ at = "all"
             \/ q.at = "all" /\ z = q /\ at = "any"
             \/ q.at = "any" /\ q.quote /\ z = q2 /\ at = "own"
             \/ q.at = "any" /\ q.quote /\ z = q /\ at = "quoted"
             \/ q.at = "any" /\ ~q.quote /\ z = q /\ at = "active"
             \/ q.at = "quoted" /\ z = q /\ at = "active"
             \/ q.at = "active" /\ z = q /\ at = "latest"
             \/ q.at = "latest" /\ z = q /\ at = "drop"
    BY <1>6
  <2>2. z \in Searches /\ z.who = q.who /\ z.quote = q.quote /\ z.rose = q.rose
    BY <1>1, <1>2
  <2>3. /\ search' \in [Replies -> Searches]
        /\ \A p \in Replies \ {r} : search'[p] = search[p]
        /\ n.at = at /\ n.who = q.who /\ n.num = z.num /\ n.quote = q.quote
        /\ n.todo = Listing(z, at) /\ n.listed = Listing(z, at) /\ n.found = 0
        /\ n.grown = z.grown /\ n.passed = z.passed
        /\ n.rose = (z.rose \/ at = "all")
    BY <1>1, <2>1, <2>2, QueryGives
  <2>4. n.todo \subseteq DOMAIN student
    BY <2>3, ListingRows
  <2>5. RepliesTyped'
    <3>1. \A p \in Replies : /\ search'[p].todo \subseteq search'[p].listed /\ search'[p].listed \subseteq DOMAIN student
                             /\ search'[p].at = "none" => search'[p].todo = {} /\ locked[p] = {}
                             /\ search'[p].found \in DOMAIN student \cup {0}
                             /\ search'[p].at = "write" => search'[p].found # 0
      BY <1>1, <2>1, <2>3, <2>4 DEF RepliesTyped
    <3> QED
      BY <1>1, <2>3, <3>1 DEF RepliesTyped
  <2>6. Orderly(r)'
    <3> SUFFICES ASSUME ~n.rose, ~n.grown, ~n.passed
                 PROVE  /\ n.at \notin {"all", "any"}
                        /\ n.at = "quoted" => Of(n.who) \subseteq n.todo \cup locked[r]
                        /\ n.at = "active" => n.found # 0 \/ Of(n.who) \subseteq locked[r] \/ locked[r] = {}
                        /\ n.todo \subseteq locked[r] \/ \A i \in n.todo, u \in locked[r] : i < u
      BY <1>1 DEF Orderly, Falls, Of
    <3>1. ~z.rose /\ at # "all" /\ ~z.grown /\ ~z.passed
      BY <2>2, <2>3 DEF Searches
    <3>2. ~q.rose /\ ~q.grown /\ ~q.passed
      BY <1>1, <2>1, <2>2, <3>1 DEF q2, Searches
    <3>3. /\ q.at \notin {"all", "any"}
          /\ q.at = "quoted" => Of(q.who) \subseteq locked[r]
          /\ q.at = "active" => q.found # 0 \/ Of(q.who) \subseteq locked[r] \/ locked[r] = {}
      BY <1>1, <3>2 DEF Orderly
    <3>4. CASE q.at = "quoted" /\ z = q /\ at = "active"
      <4>1. Listing(q, "active") \subseteq Of(q.who)
        BY DEF Listing, Unfinished
      <4> QED
        BY <2>3, <3>3, <3>4, <4>1
    <3>5. CASE q.at = "active" /\ z = q /\ at = "latest"
      <4>1. q.found = 0
        BY <1>6, <3>5 DEF Result
      <4>2. Listing(q, "latest") \subseteq Of(q.who)
        BY DEF Listing, Last
      <4> QED
        BY <2>3, <3>3, <3>5, <4>1, <4>2
    <3>6. CASE q.at = "latest" /\ z = q /\ at = "drop"
      <4>1. Listing(q, "drop") = {}
        BY DEF Listing
      <4> QED
        BY <2>3, <3>6, <4>1
    <3> QED
      BY <2>1, <3>1, <3>3, <3>4, <3>5, <3>6
  <2>7. Resorts(r)'
    <3> SUFFICES ASSUME n.num = 0, ~n.quote
                 PROVE  /\ n.at \in {"none", "active", "latest", "write", "drop"}
                        /\ n.at = "active" /\ n.found = 0 => openSince[r] \subseteq n.todo
                        /\ n.at = "active" /\ n.found # 0 => n.found \in open \cap locked[r]
                        /\ n.at = "latest" => openSince[r] = {}
                        /\ n.at = "write" => openSince[r] = {} \/ n.found \in open \cap locked[r]
      BY <1>1 DEF Resorts
    <3>1. ~q.quote
      BY <2>3
    <3>2. z = q
      BY <2>1, <3>1
    <3>3. /\ q.at \in {"none", "active", "latest", "write", "drop"}
          /\ q.at = "active" /\ q.found = 0 => openSince[r] = {}
      BY <1>1, <2>3, <3>1, <3>2 DEF Resorts
    <3>4. q.at = "active" => q.found = 0
      BY <1>6 DEF Result
    <3> QED
      BY <2>1, <2>3, <3>1, <3>2, <3>3, <3>4
  <2>8. ASSUME NEW p \in Replies \ {r}
        PROVE  Orderly(p)' /\ Resorts(p)'
    BY <1>1, <2>3, OthersKeep
  <2> QED
    BY <1>1, <2>5, <2>6, <2>7, <2>8 DEF RepliesInv, OneHolder
<1> QED
  BY <1>3, <1>5, <1>6

\* A transaction that ends lets go of its rows; its own ticket may be open from then on.
LEMMA EndsKeeps ==
  ASSUME RepliesInv, NEW r \in Replies, Ends(r), open \subseteq open', open' \subseteq DOMAIN student,
         openSince' = [openSince EXCEPT ![r] = {}]
  PROVE  RepliesInv'
<1>1. /\ RepliesTyped /\ OneHolder
      /\ \A p \in Replies : Orderly(p) /\ Resorts(p)
      /\ search' = [search EXCEPT ![r] = NoSearch] /\ locked' = [locked EXCEPT ![r] = {}]
      /\ UNCHANGED << student, received, changes >>
  BY DEF RepliesInv, Ends
<1>2. /\ search' \in [Replies -> Searches] /\ search'[r] = NoSearch /\ locked'[r] = {} /\ openSince'[r] = {}
      /\ \A p \in Replies \ {r} : search'[p] = search[p] /\ locked'[p] = locked[p] /\ openSince'[p] = openSince[p]
      /\ locked' \in [Replies -> SUBSET DOMAIN student]
      /\ openSince' \in [Replies -> SUBSET open']
  BY <1>1, NoSearchTyped DEF RepliesTyped
<1>3. RepliesTyped'
  <2>1. \A p \in Replies : /\ search'[p].todo \subseteq search'[p].listed /\ search'[p].listed \subseteq DOMAIN student
                           /\ search'[p].at = "none" => search'[p].todo = {} /\ locked'[p] = {}
                           /\ search'[p].found \in DOMAIN student \cup {0}
                           /\ search'[p].at = "write" => search'[p].found # 0
    BY <1>1, <1>2, NoSearchTyped DEF RepliesTyped
  <2> QED
    BY <1>1, <1>2, <2>1 DEF RepliesTyped
<1>4. OneHolder'
  BY <1>1, <1>2 DEF OneHolder
<1>5. Orderly(r)' /\ Resorts(r)'
  BY <1>2, NoSearchTyped DEF Orderly, Falls, Resorts
<1>6. ASSUME NEW p \in Replies \ {r}
      PROVE  Orderly(p)' /\ Resorts(p)'
  BY <1>1, <1>2, OthersKeep
<1> QED
  BY <1>3, <1>4, <1>5, <1>6 DEF RepliesInv

LEMMA NewTicketKeeps ==
  ASSUME RepliesInv, NEW s \in Students, NewTicket(s)
  PROVE  RepliesInv'
<1>1. /\ RepliesTyped /\ OneHolder
      /\ \A p \in Replies : Orderly(p) /\ Resorts(p)
      /\ student \in Seq(Students) /\ Len(student) \in Nat /\ Len(student) < MaxTickets /\ MaxTickets \in Nat
      /\ student' = Append(student, s) /\ open' = open \cup {Len(student')}
      /\ search' = [r \in Replies |-> [search[r] EXCEPT !.grown = @ \/ (search[r].at # "none" /\ search[r].who = s)]]
      /\ UNCHANGED << locked, received, changes, openSince >>
  BY LenProperties, RepliesAssumption DEF RepliesInv, RepliesTyped, NewTicket
<1>2. /\ student' \in Seq(Students) /\ Len(student') = Len(student) + 1
      /\ \A k \in 1..Len(student) : student'[k] = student[k]
      /\ student'[Len(student) + 1] = s
  BY <1>1, AppendProperties
<1>3. /\ DOMAIN student = 1..Len(student) /\ DOMAIN student' = 1..(Len(student) + 1)
      /\ DOMAIN student \subseteq DOMAIN student' /\ open' \subseteq DOMAIN student'
  <2>1. DOMAIN student = 1..Len(student) /\ DOMAIN student' = 1..(Len(student) + 1)
    BY <1>1, <1>2, LenProperties
  <2>2. 1..Len(student) \subseteq 1..(Len(student) + 1) /\ Len(student) + 1 \in 1..(Len(student) + 1)
    BY <1>1
  <2> QED
    BY <1>1, <1>2, <2>1, <2>2 DEF RepliesTyped
<1>4. /\ search' \in [Replies -> Searches]
      /\ \A p \in Replies :
           /\ search'[p].at = search[p].at /\ search'[p].who = search[p].who /\ search'[p].num = search[p].num
           /\ search'[p].quote = search[p].quote /\ search'[p].todo = search[p].todo
           /\ search'[p].listed = search[p].listed /\ search'[p].found = search[p].found
           /\ search'[p].rose = search[p].rose /\ search'[p].passed = search[p].passed
           /\ search'[p].grown = (search[p].grown \/ (search[p].at # "none" /\ search[p].who = s))
  <2>1. search \in [Replies -> Searches]
    BY <1>1 DEF RepliesTyped
  <2>2. ASSUME NEW p \in Replies
        PROVE  /\ search'[p] \in Searches
               /\ search'[p].at = search[p].at /\ search'[p].who = search[p].who /\ search'[p].num = search[p].num
               /\ search'[p].quote = search[p].quote /\ search'[p].todo = search[p].todo
               /\ search'[p].listed = search[p].listed /\ search'[p].found = search[p].found
               /\ search'[p].rose = search[p].rose /\ search'[p].passed = search[p].passed
               /\ search'[p].grown = (search[p].grown \/ (search[p].at # "none" /\ search[p].who = s))
    <3> DEFINE q == search[p]
               m == [q EXCEPT !.grown = @ \/ (q.at # "none" /\ q.who = s)]
    <3>1. q \in Searches /\ search'[p] = m
      BY <1>1, <2>1
    <3>2. m \in Searches
      BY <3>1 DEF Searches
    <3>3. /\ m.at = q.at /\ m.who = q.who /\ m.num = q.num /\ m.quote = q.quote /\ m.todo = q.todo
          /\ m.listed = q.listed /\ m.found = q.found /\ m.rose = q.rose /\ m.passed = q.passed
          /\ m.grown = (q.grown \/ (q.at # "none" /\ q.who = s))
      BY <3>1 DEF Searches
    <3> QED
      BY <3>1, <3>2, <3>3
  <2>3. search' \in [Replies -> Searches]
    BY <1>1, <2>2
  <2> QED
    BY <2>2, <2>3
<1>5. RepliesTyped'
  <2>1. \A p \in Replies : /\ search'[p].todo \subseteq search'[p].listed /\ search'[p].listed \subseteq DOMAIN student'
                           /\ search'[p].at = "none" => search'[p].todo = {} /\ locked[p] = {}
                           /\ search'[p].found \in DOMAIN student' \cup {0}
                           /\ search'[p].at = "write" => search'[p].found # 0
    BY <1>1, <1>3, <1>4, ZenonT(30) DEF RepliesTyped
  <2>2. locked \in [Replies -> SUBSET DOMAIN student'] /\ openSince \in [Replies -> SUBSET open']
    BY <1>1, <1>3 DEF RepliesTyped
  <2>3. Len(student') <= MaxTickets
    BY <1>1, <1>2
  <2> QED
    BY <1>1, <1>2, <1>3, <1>4, <2>1, <2>2, <2>3 DEF RepliesTyped
<1>6. ASSUME NEW p \in Replies
      PROVE  Orderly(p)'
  <2> DEFINE Current(u) == {k \in DOMAIN student' : student'[k] = u}
  <2> SUFFICES ASSUME ~search'[p].rose, ~search'[p].grown, ~search'[p].passed
               PROVE  /\ search'[p].at \notin {"all", "any"}
                      /\ search'[p].at = "quoted" => Current(search'[p].who) \subseteq search'[p].todo \cup locked[p]
                      /\ search'[p].at = "active" =>
                           search'[p].found # 0 \/ Current(search'[p].who) \subseteq locked[p] \/ locked[p] = {}
                      /\ Falls(p)'
    BY <1>1 DEF Orderly, Of
  <2>1. ~search[p].rose /\ ~search[p].grown /\ ~search[p].passed /\ (search[p].at = "none" \/ search[p].who # s)
    BY <1>4
  <2>2. Falls(p)'
    BY <1>1, <1>4, <2>1 DEF Orderly, Falls
  <2>3. search[p].at # "none" => Current(search'[p].who) = Of(search[p].who)
    BY <1>1, <1>2, <1>3, <1>4, <2>1 DEF Of
  <2> QED
    BY <1>1, <1>4, <2>1, <2>2, <2>3 DEF Orderly
<1>7. ASSUME NEW p \in Replies
      PROVE  Resorts(p)'
  BY <1>1, <1>4 DEF Resorts
<1> QED
  BY <1>1, <1>5, <1>6, <1>7 DEF RepliesInv, OneHolder

\* Others close and reopen tickets that no reply holds.
LEMMA CloseKeeps ==
  ASSUME RepliesInv, NEW t, Close(t)
  PROVE  RepliesInv'
<1>1. /\ RepliesTyped /\ OneHolder
      /\ \A p \in Replies : Orderly(p) /\ Resorts(p)
      /\ \A p \in Replies : t \notin locked[p]
      /\ open' = open \ {t}
      /\ openSince' = [p \in Replies |-> openSince[p] \ {t}]
      /\ UNCHANGED << student, search, locked, received >>
  BY DEF RepliesInv, Close, Unheld
<1>2. changes' \in 0..MaxChanges
  BY RepliesAssumption DEF Close, RepliesInv, RepliesTyped
<1>3. RepliesTyped'
  BY <1>1, <1>2 DEF RepliesTyped
<1>4. ASSUME NEW p \in Replies
      PROVE  Orderly(p)' /\ Resorts(p)'
  <2>1. openSince'[p] \subseteq openSince[p] /\ open \cap locked[p] \subseteq open'
    BY <1>1
  <2> QED
    BY <1>1, <2>1, OthersKeep
<1> QED
  BY <1>1, <1>3, <1>4 DEF RepliesInv, OneHolder

LEMMA ReopenKeeps ==
  ASSUME RepliesInv, NEW t, Reopen(t)
  PROVE  RepliesInv'
<1>1. /\ RepliesTyped /\ OneHolder
      /\ \A p \in Replies : Orderly(p) /\ Resorts(p)
      /\ t \in DOMAIN student /\ open' = open \cup {t}
      /\ UNCHANGED << student, search, locked, received, openSince >>
  BY DEF RepliesInv, Reopen
<1>2. changes' \in 0..MaxChanges
  BY RepliesAssumption DEF Reopen, RepliesInv, RepliesTyped
<1>3. RepliesTyped'
  BY <1>1, <1>2 DEF RepliesTyped
<1>4. ASSUME NEW p \in Replies
      PROVE  Orderly(p)' /\ Resorts(p)'
  BY <1>1, OthersKeep
<1> QED
  BY <1>1, <1>3, <1>4 DEF RepliesInv, OneHolder

LEMMA RepliesStep == RepliesInv /\ [RepliesNext]_replyVars => RepliesInv'
<1> SUFFICES ASSUME RepliesInv, [RepliesNext]_replyVars
             PROVE  RepliesInv'
  OBVIOUS
<1>1. ASSUME NEW r \in Replies, NEW s \in Students, NEW num \in Numbers, NEW match \in Numbers,
             Receive(r, s, num, match # 0, 0, match)
      PROVE  RepliesInv'
  <2>1. 0 \in Numbers /\ (match # 0) \in BOOLEAN
    BY RepliesAssumption DEF Numbers
  <2> QED
    BY <1>1, <2>1, ReceiveKeeps
<1>2. ASSUME NEW r \in Replies, NEW s \in Students, NEW num \in Numbers, NEW quoted \in Numbers,
             Receive(r, s, num, TRUE, quoted, 0)
      PROVE  RepliesInv'
  <2>1. 0 \in Numbers
    BY RepliesAssumption DEF Numbers
  <2> QED
    BY <1>2, <2>1, ReceiveKeeps
<1>3. ASSUME NEW r \in Replies, LockRow(r)
      PROVE  RepliesInv'
  BY <1>3, LockKeeps
<1>4. ASSUME NEW r \in Replies, NextStatement(r)
      PROVE  RepliesInv'
  BY <1>4, NextKeeps
<1>5. ASSUME NEW r \in Replies, Record(r)
      PROVE  RepliesInv'
  <2>1. search[r].found \in DOMAIN student
    BY <1>5 DEF Record, RepliesInv, RepliesTyped
  <2>2. open \subseteq open' /\ open' \subseteq DOMAIN student
    BY <1>5, <2>1 DEF Record, RepliesInv, RepliesTyped
  <2> QED
    BY <1>5, <2>2, EndsKeeps DEF Record
<1>6. ASSUME NEW r \in Replies, NoTicket(r) \/ Victim(r)
      PROVE  RepliesInv'
  <2>1. Ends(r) /\ open' = open /\ openSince' = [openSince EXCEPT ![r] = {}] /\ open \subseteq DOMAIN student
    BY <1>6 DEF NoTicket, Victim, RepliesInv, RepliesTyped
  <2> QED
    BY <2>1, EndsKeeps
<1>7. ASSUME NEW s \in Students, NewTicket(s)
      PROVE  RepliesInv'
  BY <1>7, NewTicketKeeps
<1>8. ASSUME NEW t \in 1..MaxTickets, Close(t)
      PROVE  RepliesInv'
  BY <1>8, CloseKeeps
<1>9. ASSUME NEW t \in 1..MaxTickets, Reopen(t)
      PROVE  RepliesInv'
  BY <1>9, ReopenKeeps
<1>10. CASE UNCHANGED replyVars
  BY <1>10 DEF replyVars, RepliesInv, RepliesTyped, OneHolder, Orderly, Falls, Resorts, Of
<1> QED
  BY <1>1, <1>2, <1>3, <1>4, <1>5, <1>6, <1>7, <1>8, <1>9, <1>10 DEF RepliesNext

\* Every state of the community inbox has the properties above.
THEOREM RepliesInvariant == RepliesSpec => []RepliesInv
BY RepliesStart, RepliesStep, PTL DEF RepliesSpec

\* A set of numbers has a smallest one.
LEMMA SmallestOf ==
  ASSUME NEW T, T \subseteq Nat, T # {}
  PROVE  \E m \in T : \A t \in T : ~(t < m)
<1> DEFINE R == {ss \in Nat \X Nat : ss[1] < ss[2]}
<1>1. IsWellFoundedOn(R, Nat)
  BY NatLessThanWellFounded DEF OpToRel
<1>2. \A t, m \in T : t < m => <<t, m>> \in R
  OBVIOUS
<1> HIDE DEF R
<1>3. PICK m \in T : \A t \in T : ~(<<t, m>> \in R)
  BY <1>1, WFMin
<1> QED
  BY <1>2, <1>3

\* Replies deadlock only after one of the causes: in a cycle without them, the reply that
\* waits for the oldest row would wait for one that is held by a reply waiting for an older
\* row still (core/services/community_reply_service.py).
THEOREM DeadlocksAreExplained == RepliesSpec => []DeadlockHasCause
<1>1. RepliesInv => DeadlockHasCause
  <2> SUFFICES ASSUME RepliesInv, NEW C \in SUBSET Replies, Cycle(C),
                      \A r \in C : ~search[r].rose /\ ~search[r].grown /\ ~search[r].passed
               PROVE  FALSE
    BY DEF DeadlockHasCause
  <2> DEFINE T == {t \in Nat : \E r \in C : t \in Upcoming(search[r])}
  <2>1. ASSUME NEW r \in C
        PROVE  /\ search[r].at # "all" /\ search[r].todo \subseteq Nat
               /\ search[r].todo \subseteq locked[r] \/ \A t \in search[r].todo, u \in locked[r] : t < u
               /\ \E p \in C : p # r /\ Upcoming(search[r]) \cap locked[p] # {}
    BY RowNumbers DEF RepliesInv, RepliesTyped, Orderly, Falls, Cycle, Awaits
  <2>2. ASSUME NEW r \in C, NEW t \in Upcoming(search[r]), NEW u \in Upcoming(search[r])
        PROVE  t = u /\ t \in search[r].todo /\ t \in Nat
    <3>1. t \in Nat /\ u \in Nat /\ t \in search[r].todo /\ u \in search[r].todo
      BY <2>1 DEF Upcoming
    <3>2. t <= u /\ u <= t
      BY <2>1, <3>1 DEF Upcoming, Precedes
    <3> QED
      BY <3>1, <3>2
  <2>3. T # {}
    <3>1. PICK r \in C : TRUE
      BY DEF Cycle
    <3>2. PICK t \in Upcoming(search[r]) : TRUE
      BY <2>1
    <3>3. t \in Nat
      BY <2>2
    <3> QED
      BY <3>3
  <2>4. PICK m \in T : \A t \in T : ~(t < m)
    <3>1. T \subseteq Nat
      OBVIOUS
    <3> HIDE DEF T
    <3> QED
      BY <2>3, <3>1, SmallestOf
  <2>5. PICK r \in C : m \in Upcoming(search[r])
    OBVIOUS
  <2>6. PICK p \in C : p # r /\ m \in locked[p]
    <3>1. PICK p \in C : p # r /\ Upcoming(search[r]) \cap locked[p] # {}
      BY <2>1
    <3>2. PICK t \in Upcoming(search[r]) : t \in locked[p]
      BY <3>1
    <3>3. t = m
      BY <2>2, <2>5
    <3> QED
      BY <3>1, <3>2, <3>3
  <2>7. PICK w \in C : w # p /\ Upcoming(search[p]) \cap locked[w] # {}
    BY <2>1
  <2>8. PICK t \in Upcoming(search[p]) : t \in locked[w]
    BY <2>7
  <2>9. t \in search[p].todo /\ t \in Nat
    BY <2>2
  <2>10. t \notin locked[p]
    BY <2>7, <2>8 DEF RepliesInv, OneHolder
  <2>11. t < m
    BY <2>1, <2>6, <2>9, <2>10
  <2>12. t \in T
    BY <2>9
  <2> QED
    BY <2>4, <2>11, <2>12
<1> QED
  BY <1>1, RepliesInvariant, PTL

\* A reply that only the last resort can place goes to a completed ticket only if none of
\* the student's was open all along (_resolve_fallback).
THEOREM OpenTicketsGoFirst == RepliesSpec => []OpenTicketGoesFirst
<1>1. RepliesInv => OpenTicketGoesFirst
  <2> SUFFICES ASSUME RepliesInv
               PROVE  OpenTicketGoesFirst
    OBVIOUS
  <2>1. RepliesTypeOK
    BY DEF RepliesInv, RepliesTyped, RepliesTypeOK, Searches
  <2>2. \A r \in Replies :
          search[r].at = "write" /\ search[r].num = 0 /\ ~search[r].quote /\ search[r].found \notin open =>
            openSince[r] = {}
    BY DEF RepliesInv, Resorts
  <2> QED
    BY <2>1, <2>2 DEF OpenTicketGoesFirst
<1> QED
  BY <1>1, RepliesInvariant, PTL

-----------------------------------------------------------------------------
(***************************************************************************)
(* The parts together (MCRetention).                                       *)
(***************************************************************************)

\* Archival and the inbox do in each part only what that part allows: what is proved of a
\* part holds of both together.
THEOREM StoreImplementsParts == StoreSpec => RetentionSpec /\ RepliesSpec
<1>1. StoreInit => RetentionInit /\ RepliesInit
  BY DEF StoreInit
<1>2. [StoreNext]_storeVars => [RetentionNext]_allVars /\ [RepliesNext]_replyVars
  BY DEF StoreNext, storeVars
<1> QED
  BY <1>1, <1>2, PTL DEF StoreSpec, RetentionSpec, RepliesSpec
=============================================================================
