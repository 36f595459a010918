-------------------------- MODULE CommunityReplies --------------------------
(***************************************************************************)
(* Replies that operators write in the community's own inbox               *)
(* (core/services/community_reply_service.py): each is a transaction at    *)
(* READ COMMITTED that looks for the ticket it belongs to with several     *)
(* statements, and every statement locks the rows it returns, one by one   *)
(* in its ORDER BY, until the commit.                                      *)
(*                                                                         *)
(* Ticket ids grow with created_at.  Tickets are neither erased nor        *)
(* archived here.                                                          *)
(***************************************************************************)
EXTENDS Naturals, Sequences, FiniteSets

CONSTANTS
  Students,      \* rows of users
  Replies,       \* slots for replies under way
  MaxTickets,    \* bound: tickets
  MaxReplies,    \* bound: replies received
  MaxChanges     \* bound: tickets closed or reopened by others

ASSUME RepliesAssumption == MaxTickets \in Nat /\ MaxReplies \in Nat /\ MaxChanges \in Nat

Numbers == 0..MaxTickets     \* 0 is no ticket

VARIABLES
  student,     \* the students of the tickets there are, in the order of ids
  open,        \* tickets that are not completed
  search,      \* per slot: how far the search has come
  locked,      \* per slot: rows it holds
  received, changes,   \* so far
  openSince    \* history, per slot: the student's tickets that were open all along since it began

replyVars == << student, open, search, locked, received, changes, openSince >>

\* num, quoted: numbers in the text and in the quotation; match: the ticket the quotation
\* is from.  listed: rows of the current statement; todo: those still to lock; found: the
\* row it led to.
NoSearch == [at |-> "none", who |-> 0, num |-> 0, quote |-> FALSE, quoted |-> 0, match |-> 0,
             todo |-> {}, listed |-> {}, found |-> 0, grown |-> FALSE, rose |-> FALSE, passed |-> FALSE]

RepliesInit ==
  /\ student = << >> /\ open = {}
  /\ search = [r \in Replies |-> NoSearch] /\ locked = [r \in Replies |-> {}]
  /\ received = 0 /\ changes = 0
  /\ openSince = [r \in Replies |-> {}]

-----------------------------------------------------------------------------
(* Statements: what they list when they start.                             *)

Of(s) == {t \in DOMAIN student : student[t] = s}
Last(S) == {t \in S : \A u \in S : u <= t}

\* Variant with a defect: the tickets of a quotation come in no order.
PrecedesLoosely(at, t, u) == at = "quoted" \/ (IF at = "all" THEN t <= u ELSE u <= t)

\* ORDER BY of the statement: the position in the list counts from the oldest ticket.
Precedes(at, t, u) == IF at = "all" THEN t <= u ELSE u <= t

\* Variant with a defect: the newest ticket, open or not.
Newest(s) == Last(Of(s))

Unfinished(s) == Of(s) \cap open

Listing(q, at) ==
  CASE at = "own" -> Of(q.who) \cap {q.num}
    [] at \in {"all", "quoted"} -> Of(q.who)
    [] at = "any" -> DOMAIN student \cap {q.num}
    [] at = "active" -> Unfinished(q.who)
    [] at = "latest" -> Last(Of(q.who))
    [] OTHER -> {}

Query(r, q, at) ==
  search' = [search EXCEPT ![r] = [q EXCEPT !.at = at, !.todo = Listing(q, at), !.listed = Listing(q, at),
                                            !.found = 0, !.rose = @ \/ at = "all"]]

\* After the number in the text comes the quotation, then the last resort.
AfterNumber(q) ==
  IF q.quote /\ q.quoted # 0 THEN << [q EXCEPT !.num = q.quoted, !.quoted = 0], "own" >>
  ELSE IF q.quote THEN << q, "quoted" >> ELSE << q, "active" >>

\* _resolve_by_prefix, _resolve_by_quoted_text, _resolve_fallback: the statement after one
\* that led nowhere
Following(q) ==
  CASE q.at = "own" -> << q, "all" >>
    [] q.at = "all" -> << q, "any" >>
    [] q.at = "any" -> AfterNumber(q)
    [] q.at = "quoted" -> << q, "active" >>
    [] q.at = "active" -> << q, "latest" >>
    [] OTHER -> << q, "drop" >>

\* The row, if any, that a statement leads to once all its rows are locked.
Result(q) ==
  CASE q.at = "all" -> {t \in q.listed : Cardinality({u \in q.listed : u <= t}) = q.num}
    [] q.at = "quoted" -> q.listed \cap {q.match}
    [] q.at = "active" -> {q.found} \ {0}
    [] OTHER -> q.listed

-----------------------------------------------------------------------------
Receive(r, s, num, quote, quoted, match) ==
  /\ search[r].at = "none" /\ received < MaxReplies /\ received' = received + 1
  /\ match # 0 => match \in Of(s)
  /\ LET q == [NoSearch EXCEPT !.who = s, !.num = num, !.quote = quote, !.quoted = quoted, !.match = match]
         first == IF num # 0 THEN << q, "own" >> ELSE AfterNumber(q)
     IN  Query(r, first[1], first[2])
  /\ openSince' = [openSince EXCEPT ![r] = Of(s) \cap open]
  /\ UNCHANGED << student, open, locked, changes >>

Unheld(t) == \A q \in Replies : t \notin locked[q]
FreeFor(r, t) == \A q \in Replies \ {r} : t \notin locked[q]

\* The row that the current statement locks next, if any.
Upcoming(q) == {t \in q.todo : \A u \in q.todo : Precedes(q.at, t, u)}

\* SELECT ... FOR UPDATE: the next row.  A row that does not fit the condition any more is
\* passed over, though it stays locked; LIMIT 1 ends with the first that does.
LockRow(r) ==
  LET q == search[r] IN
  \E t \in Upcoming(q) :
    /\ FreeFor(r, t)
    /\ locked' = [locked EXCEPT ![r] = @ \cup {t}]
    /\ search' = [search EXCEPT ![r] =
         IF q.at = "active" /\ t \in open THEN [q EXCEPT !.todo = {}, !.found = t]
         ELSE [q EXCEPT !.todo = @ \ {t}, !.passed = @ \/ q.at = "active"]]
    /\ UNCHANGED << student, open, received, changes, openSince >>

NextStatement(r) ==
  LET q == search[r] IN
  /\ q.at \notin {"none", "write", "drop"} /\ q.todo = {}
  /\ IF Result(q) # {}
     THEN \E t \in Result(q) : search' = [search EXCEPT ![r] = [q EXCEPT !.at = "write", !.listed = {}, !.found = t]]
     ELSE Query(r, Following(q)[1], Following(q)[2])
  /\ UNCHANGED << student, open, locked, received, changes, openSince >>

Ends(r) ==
  /\ search' = [search EXCEPT ![r] = NoSearch] /\ locked' = [locked EXCEPT ![r] = {}]
  /\ UNCHANGED << student, received, changes >>

\* handle_community_message_reply: the reply is recorded and the ticket is in progress.
Record(r) ==
  /\ search[r].at = "write" /\ Ends(r)
  /\ open' = open \cup {search[r].found}
  /\ openSince' = [openSince EXCEPT ![r] = {}]

NoTicket(r) ==
  /\ search[r].at = "drop" /\ Ends(r)
  /\ openSince' = [openSince EXCEPT ![r] = {}] /\ UNCHANGED open

Awaits(r, q) == r # q /\ Upcoming(search[r]) \cap locked[q] # {}
Cycle(C) == C # {} /\ \A r \in C : \E q \in C : Awaits(r, q)

\* The database ends one transaction of a deadlock; its reply is lost.
Victim(r) ==
  /\ \E C \in SUBSET Replies : r \in C /\ Cycle(C)
  /\ Ends(r)
  /\ openSince' = [openSince EXCEPT ![r] = {}] /\ UNCHANGED open

-----------------------------------------------------------------------------
\* Others: create_ticket, and transactions that lock one ticket, close or reopen it.
NewTicket(s) ==
  /\ Len(student) < MaxTickets
  /\ student' = Append(student, s) /\ open' = open \cup {Len(student')}
  /\ search' = [r \in Replies |-> [search[r] EXCEPT !.grown = @ \/ (search[r].at # "none" /\ search[r].who = s)]]
  /\ UNCHANGED << locked, received, changes, openSince >>

Close(t) ==
  /\ t \in open /\ Unheld(t) /\ changes < MaxChanges /\ changes' = changes + 1
  /\ open' = open \ {t}
  /\ openSince' = [r \in Replies |-> openSince[r] \ {t}]
  /\ UNCHANGED << student, search, locked, received >>

Reopen(t) ==
  /\ t \in DOMAIN student \ open /\ Unheld(t) /\ changes < MaxChanges /\ changes' = changes + 1
  /\ open' = open \cup {t}
  /\ UNCHANGED << student, search, locked, received, openSince >>

RepliesNext ==
  \/ \E r \in Replies, s \in Students, num \in Numbers, match \in Numbers :
       Receive(r, s, num, match # 0, 0, match)
  \/ \E r \in Replies, s \in Students, num, quoted \in Numbers : Receive(r, s, num, TRUE, quoted, 0)
  \/ \E r \in Replies : LockRow(r)
  \/ \E r \in Replies : NextStatement(r)
  \/ \E r \in Replies : Record(r)
  \/ \E r \in Replies : NoTicket(r)
  \/ \E r \in Replies : Victim(r)
  \/ \E s \in Students : NewTicket(s)
  \/ \E t \in 1..MaxTickets : Close(t)
  \/ \E t \in 1..MaxTickets : Reopen(t)

RepliesSpec == RepliesInit /\ [][RepliesNext]_replyVars

-----------------------------------------------------------------------------
(* Properties.                                                             *)

\* Every value is of its type; locked rows and found tickets exist.
RepliesTypeOK ==
  /\ Len(student) <= MaxTickets /\ open \subseteq DOMAIN student
  /\ \A r \in Replies : locked[r] \subseteq DOMAIN student /\ search[r].found \in Numbers
  /\ received \in 0..MaxReplies /\ changes \in 0..MaxChanges

\* Replies deadlock only if one of them has listed a student's tickets from the oldest, or
\* its student has written a new ticket between two of its statements, or a ticket that was
\* open when the last resort began was completed while it waited.  Listings from the newest
\* alone never do (core/services/community_reply_service.py, the FOR UPDATE statements).
DeadlockHasCause ==
  \A C \in SUBSET Replies :
    Cycle(C) => \E r \in C : search[r].rose \/ search[r].grown \/ search[r].passed

\* Every value is of its type.  A reply without a number or a quotation that leads anywhere
\* goes to a completed ticket only if none of the student's tickets was open all along,
\* whatever is closed, reopened or written while it waits for rows
\* (core/services/community_reply_service.py, _resolve_fallback).
OpenTicketGoesFirst ==
  /\ RepliesTypeOK
  /\ \A r \in Replies :
       search[r].at = "write" /\ search[r].num = 0 /\ ~search[r].quote /\ search[r].found \notin open =>
         openSince[r] = {}
=============================================================================
