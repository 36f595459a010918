------------------------------ MODULE VkDialog ------------------------------
(***************************************************************************)
(* The dialogues of the VK bot that keep a state: creating a ticket,       *)
(* a partnership proposal, an operator's reply, a report.  Messages of one *)
(* user are handled concurrently, by tasks of several processes (callback  *)
(* mode), and a handler is interrupted wherever it awaits Redis or the     *)
(* database.  Texts are reduced to the classes VkRouting tells apart and   *)
(* descriptions to numbers, the n-th description of a user being n.        *)
(***************************************************************************)
EXTENDS VkRouting, StateDispenser

CONSTANTS
  Budgets,      \* bounds: how many messages arrive, of which classes, how many
                \* losses and recoveries of Redis and restarts
  Admins,       \* users BotCore.is_admin accepts
  Tickets,      \* existing tickets, by number
  Access,       \* <<user, ticket>>: _operator_can_access answers yes
  Slots,        \* tasks alive at once: 1..MaxTasks
  Limit,        \* TICKET_RATE_LIMIT
  MaxDrafts,    \* bound: descriptions a user types
  MaxCreated    \* bound: tickets a user creates

ASSUME DialogAssumption ==
  /\ Budgets \subseteq [left : Nat, texts : SUBSET Texts, faults : Nat]
  /\ "redis" \notin Processes
  /\ Admins \subseteq Users
  /\ Tickets \subseteq Nat \ {0}
  /\ Access \subseteq Users \X Tickets
  /\ Slots \subseteq Nat
  /\ Limit \in Nat \ {0}
  /\ MaxDrafts \in Nat
  /\ MaxCreated \in Nat

VARIABLES
  task,      \* [Slots -> task]: the handlers that are running
  rate,      \* [Users -> [count, timed]]: ticket_rate:<vk_id> and its TTL
  typed,     \* [Users -> Nat]: descriptions accepted so far
  created,   \* [Users -> [drafts -> Nat]]: tickets made of each description
  chosen,    \* [Users -> ticket]: the ticket the user last pressed "reply" on
  dropped,   \* [Users -> set of drafts]: drafts the user has cancelled
  excused,   \* [Users -> BOOLEAN]: a tap overlapped another, a process died
             \* under one, or a write left a copy of the state elsewhere
  budget,    \* the messages and the faults that may still come
  orphan     \* [Users -> BOOLEAN]: a counter was left without its TTL

ghosts == << chosen, dropped, excused >>
tickets == << typed, created >>
counters == << rate, orphan >>
rest == << counters, budget >>
dialogVars == << storeVars, task, rest, tickets, ghosts >>

Idle == [pc |-> "idle"]
(* What a handler looks at in the text; all else is a long text to it.     *)
Minds ==
  [department_choice |-> {"caps", "no_dept"},
   description |-> {"caps", "more", "short"},
   identity_choice |-> {"caps", "stay", "reveal"},
   proposal |-> {"caps", "short"},
   reply_text |-> {"caps", "short"}]
Gist(h, text) ==
  IF h \in DOMAIN Minds /\ text \in Minds[h] THEN text ELSE "long"

(* A handler begins: it was chosen by the state read at dispatch.          *)
Task(pc, p, u, text) ==
  [pc |-> pc, process |-> p, user |-> u, text |-> Gist(pc, text), draft |-> 0,
   ticket |-> 0, wanted |-> 0]
Busy == {i \in Slots : task[i] # Idle}
Tapping == {"identity_choice", "limit", "expire", "create", "clear"}
Taps(u) == {i \in Busy : task[i].user = u /\ task[i].pc \in Tapping}

Copies(u) == (IF shared[u] # Nothing THEN {"redis"} ELSE {})
               \cup {p \in Processes : Remembered(p, u) # Nothing}

DialogInit ==
  /\ reaches = [p \in Processes |-> TRUE]
  /\ shared = [u \in Users |-> Nothing]
  /\ memory = [p \in Processes |-> << >>]
  /\ task = [i \in Slots |-> Idle]
  /\ rate = [u \in Users |-> [count |-> 0, timed |-> FALSE]]
  /\ typed = [u \in Users |-> 0]
  /\ created = [u \in Users |-> [d \in 0..MaxDrafts |-> 0]]
  /\ chosen = [u \in Users |-> 0]
  /\ dropped = [u \in Users |-> {}]
  /\ excused = [u \in Users |-> FALSE]
  /\ orphan = [u \in Users |-> FALSE]
  /\ budget \in Budgets

-----------------------------------------------------------------------------
(* A message arrives and its handler is chosen by the state the sender has *)
(* at that moment in the process the message reached.                      *)
Takes(p, u, text, handler) ==
  /\ budget.left > 0
  /\ Handler(text, Get(p, u).at) = handler
  /\ budget' = [budget EXCEPT !.left = @ - 1]

(* A write of the state leaves copies in other places: they show through   *)
(* when the place that hides them is emptied or cannot be reached.         *)
PutHere(p, u, s) ==
  /\ Put(p, u, s)
  /\ excused' = [excused EXCEPT ![u] = @ \/
       Copies(u) \ {IF reaches[p] THEN "redis" ELSE p} # {}]
DeleteHere(p, u) ==
  /\ Delete(p, u)
  /\ excused' = [excused EXCEPT ![u] = @ \/
       Copies(u) \ ({p} \cup (IF reaches[p] THEN {"redis"} ELSE {})) # {}]

Opens(p, u, handler, s) ==
  /\ \E text \in budget.texts : Takes(p, u, text, handler)
  /\ PutHere(p, u, s)
  /\ UNCHANGED << task, counters, tickets, chosen, dropped >>

(* Handlers that leave the dialogue state as it is: they answer from the   *)
(* database, show a list (see VkLists) or change a ticket (see Tickets).   *)
FaqAnswers == {"faq", "faq_department", "faq_node", "faq_search"}
KnowledgeAnswers == {"knowledge_base", "knowledge_department", "knowledge_search"}
EventAnswers == {"events", "register_event"}
StudentAnswers == {"start", "my_tickets", "ticket_details", "ticket_number"}
TicketAnswers == {"ticket_reply"}
MenuAnswers == {"admin_panel", "regular_menu", "admin_tickets"}
CardAnswers == {"ticket_view", "ticket_history"}
StatusAnswers == {"complete", "in_progress", "status"}
OtherAnswers == {"next_page", "prev_page", "fallback"}
Answering ==
  UNION {FaqAnswers, KnowledgeAnswers, EventAnswers, StudentAnswers, TicketAnswers,
         MenuAnswers, CardAnswers, StatusAnswers, OtherAnswers}
Answer(p, u) ==
  /\ \E text \in budget.texts, h \in Answering : Takes(p, u, text, h)
  /\ UNCHANGED << storeVars, task, counters, tickets, ghosts >>

(* Handlers that open a dialogue.                                          *)
Section(p, u) ==
  \E h \in {"section", "anonymous"} : Opens(p, u, h, State("description", 0, 0))
Question(p, u) == Opens(p, u, "question", State("department", 0, 0))
Partnership(p, u) == Opens(p, u, "partnership", State("proposal", 0, 0))

StartReply(p, u) ==
  \E k \in Tickets :
    /\ << u, k >> \in Access
    /\ \E text \in budget.texts : Takes(p, u, text, "reply_start")
    /\ PutHere(p, u, State("reply_text", 0, k))
    /\ chosen' = [chosen EXCEPT ![u] = k]
    /\ UNCHANGED << task, counters, tickets, dropped >>

ReportMenu(p, u) ==
  /\ u \in Admins
  /\ Opens(p, u, "report_menu", State("report_type", 0, 0))
ReportByDate(p, u) ==
  /\ u \in Admins
  /\ \/ Opens(p, u, "report_by_date", State("report_date", 0, 0))
     \/ Opens(p, u, "report_by_period", State("report_period", 0, 0))
ReportToday(p, u) ==
  /\ u \in Admins
  /\ \E text \in budget.texts : Takes(p, u, text, "report_today")
  /\ DeleteHere(p, u)
  /\ UNCHANGED << task, counters, tickets, chosen, dropped >>

(* Handlers that act on the state they were chosen by run in steps.        *)
Deferred == {"cancel", "department_choice", "description", "identity_choice",
             "proposal", "reply_text", "date_input", "period_input",
             "date_fallback", "period_fallback"}

Begin(i, p, u) ==
  /\ task[i] = Idle
  /\ \E text \in budget.texts, h \in Deferred :
       /\ Takes(p, u, text, h)
       /\ task' = [task EXCEPT ![i] = Task(h, p, u, text)]
       /\ excused' = [excused EXCEPT ![u] =
            @ \/ (h = "identity_choice" /\ Taps(u) # {})]
  /\ UNCHANGED << storeVars, counters, tickets, chosen, dropped >>

-----------------------------------------------------------------------------
(* The steps of a running handler, in slot i.                              *)
At(i, pc) == task[i] # Idle /\ task[i].pc = pc
User(i) == task[i].user
Process(i) == task[i].process
Mine(i) == Get(Process(i), User(i))

Goes(i, pc) == task' = [task EXCEPT ![i].pc = pc]
Ends(i) == task' = [task EXCEPT ![i] = Idle]
Says(i) == Ends(i) /\ UNCHANGED << storeVars, rest, tickets, ghosts >>
Moves(i, s) ==
  /\ PutHere(Process(i), User(i), s)
  /\ Ends(i)
  /\ UNCHANGED << rest, tickets, chosen, dropped >>

CancelTexts == {"cancel", "caps"}

(* cancel_handler: nothing to cancel, or the state is deleted.             *)
Cancel(i) ==
  /\ \/ At(i, "cancel")
     \/ /\ \E h \in {"department_choice", "description", "identity_choice",
                     "proposal", "reply_text"} : At(i, h)
        /\ task[i].text \in CancelTexts
  /\ IF Mine(i) = Nothing
     THEN UNCHANGED << storeVars, excused, dropped >>
     ELSE /\ DeleteHere(Process(i), User(i))
          /\ dropped' = [dropped EXCEPT ![User(i)] =
               IF Taps(User(i)) = {} THEN 1..typed[User(i)] ELSE @]
  /\ Ends(i)
  /\ UNCHANGED << rest, tickets, chosen >>

(* A department, "no department", or a text that is neither.               *)
ChooseDepartment(i) ==
  /\ At(i, "department_choice")
  /\ task[i].text \notin CancelTexts
  /\ \/ Moves(i, State("description", 0, 0))
     \/ task[i].text # "no_dept" /\ Says(i)

(* A description that is too short or too long is refused.                 *)
RefuseDescription(i) ==
  At(i, "description") /\ task[i].text \notin CancelTexts \cup {"more"} /\ Says(i)

(* "продолжить" after a suggestion: the stored description is used.        *)
Continue(i) ==
  /\ At(i, "description")
  /\ task[i].text = "more"
  /\ Mine(i).draft # 0
  /\ Moves(i, State("identity", Mine(i).draft, 0))

(* A new description: an entry of the knowledge base is suggested, or the  *)
(* student is asked whether to stay anonymous.                             *)
Describe(i) ==
  /\ At(i, "description")
  /\ task[i].text \notin CancelTexts \cup {"short"}
  /\ ~(task[i].text = "more" /\ Mine(i).draft # 0)
  /\ typed[User(i)] < MaxDrafts
  /\ typed' = [typed EXCEPT ![User(i)] = @ + 1]
  /\ \E at \in {"description", "identity"} :
       PutHere(Process(i), User(i), State(at, typed[User(i)] + 1, 0))
  /\ Ends(i)
  /\ UNCHANGED << rest, created, chosen, dropped >>

(* ticket_identity_choice_handler: a text that is no choice is refused;    *)
(* the state is read again, and a state without a description is deleted.  *)
RefuseChoice(i) ==
  /\ At(i, "identity_choice")
  /\ task[i].text \notin CancelTexts \cup {"stay", "reveal"}
  /\ Says(i)
\* Variant with a defect: the description is taken to be there.
NeverExpired(draft) == FALSE

Expired(draft) == draft = 0
ChooseIdentity(i) ==
  /\ At(i, "identity_choice")
  /\ task[i].text \in {"stay", "reveal"}
  /\ task' = [task EXCEPT
       ![i].draft = Mine(i).draft,
       ![i].pc = IF Expired(Mine(i).draft) THEN "clear" ELSE "limit"]
  /\ UNCHANGED << storeVars, rest, tickets, ghosts >>

(* _is_ticket_rate_limited: INCR, and EXPIRE after the first one; without  *)
(* Redis nobody is limited.                                                *)
\* Variant with a defect: the window starts with the second ticket.
SetsWindowLate(n) == n = 2

SetsWindow(n) == n = 1
AskLimit(i) ==
  /\ At(i, "limit")
  /\ LET u == User(i)
         n == rate[u].count + 1
     IN  IF reaches[Process(i)]
         THEN /\ rate' = [rate EXCEPT ![u].count = IF n > Limit THEN Limit + 1 ELSE n]
              /\ IF n > Limit THEN Ends(i)
                 ELSE Goes(i, IF SetsWindow(n) THEN "expire" ELSE "create")
         ELSE Goes(i, "create") /\ UNCHANGED rate
  /\ UNCHANGED << storeVars, orphan, budget, tickets, ghosts >>
StartWindow(i) ==
  /\ At(i, "expire")
  /\ Goes(i, "create")
  /\ IF reaches[Process(i)]
     THEN /\ rate' = [rate EXCEPT ![User(i)].timed = rate[User(i)].count > 0]
          /\ UNCHANGED orphan
     ELSE orphan' = [orphan EXCEPT ![User(i)] = TRUE] /\ UNCHANGED rate
  /\ UNCHANGED << storeVars, budget, tickets, ghosts >>

(* create_ticket commits, or fails; the state is deleted either way.       *)
CreateTicket(i) ==
  /\ At(i, "create")
  /\ \/ /\ created[User(i)][task[i].draft] < MaxCreated
        /\ created' = [created EXCEPT ![User(i)][task[i].draft] = @ + 1]
     \/ UNCHANGED created
  /\ Goes(i, "clear")
  /\ UNCHANGED << storeVars, rest, typed, ghosts >>

Clear(i) ==
  /\ At(i, "clear")
  /\ DeleteHere(Process(i), User(i))
  /\ Ends(i)
  /\ UNCHANGED << rest, tickets, chosen, dropped >>

(* partnership_proposal_handler: too short, or recorded and deleted.       *)
Propose(i) ==
  /\ At(i, "proposal")
  /\ task[i].text \notin CancelTexts
  /\ \/ task[i].text # "short" /\ Goes(i, "clear")
        /\ UNCHANGED << storeVars, rest, tickets, ghosts >>
     \/ Says(i)

(* admin_reply_text_handler: the ticket comes from the state read again.   *)
ReadReply(i) ==
  /\ At(i, "reply_text")
  /\ task[i].text \notin CancelTexts
  /\ task' = [task EXCEPT
       ![i].ticket = Mine(i).ticket, ![i].wanted = chosen[User(i)],
       ![i].pc = IF Mine(i).ticket = 0 THEN "clear" ELSE "reply"]
  /\ UNCHANGED << storeVars, rest, tickets, ghosts >>
RefuseReply(i) == At(i, "reply_text") /\ task[i].text = "short" /\ Says(i)
(* reply_to_ticket, see Tickets, then the state is deleted.                *)
SendReply(i) ==
  /\ At(i, "reply")
  /\ Goes(i, "clear")
  /\ UNCHANGED << storeVars, rest, tickets, ghosts >>

(* The inputs of a report: refused, or the report is made and sent, or the *)
(* sender is no administrator; the fallbacks give the dialogue up.         *)
ReportInput(i) ==
  /\ \E h \in {"date_input", "period_input"} : At(i, h)
  /\ \/ Goes(i, "clear") /\ UNCHANGED << storeVars, rest, tickets, ghosts >>
     \/ User(i) \in Admins /\ Says(i)
ReportGivenUp(i) ==
  /\ \E h \in {"date_fallback", "period_fallback"} : At(i, h)
  /\ Goes(i, "clear")
  /\ UNCHANGED << storeVars, rest, tickets, ghosts >>

-----------------------------------------------------------------------------
(* Redis is lost and found by one process at a time; a process dies with   *)
(* its tasks and its memory; records and windows expire.                   *)
Fault == budget.faults > 0 /\ budget' = [budget EXCEPT !.faults = @ - 1]
Switch(p) ==
  /\ Fault
  /\ reaches' = [reaches EXCEPT ![p] = ~@]
  /\ UNCHANGED << shared, memory, task, rate, orphan, tickets, ghosts >>

Owns(p, u) == {i \in Busy : Process(i) = p /\ User(i) = u}
Restart(p) ==
  /\ Fault
  /\ memory' = [memory EXCEPT ![p] = << >>]
  /\ task' = [i \in Slots |-> IF i \in Busy /\ Process(i) = p THEN Idle ELSE task[i]]
  /\ excused' = [u \in Users |-> excused[u] \/ Owns(p, u) \cap Taps(u) # {}]
  /\ orphan' = [u \in Users |-> orphan[u] \/ \E i \in Owns(p, u) : At(i, "expire")]
  /\ UNCHANGED << reaches, shared, rate, tickets, chosen, dropped >>

StateExpires ==
  /\ (\E u \in Users : ExpireShared(u)) \/ (\E p \in Processes : ExpireMemory(p))
  /\ UNCHANGED << task, rest, tickets, ghosts >>

WindowEnds(u) ==
  /\ rate[u].timed
  /\ rate' = [rate EXCEPT ![u] = [count |-> 0, timed |-> FALSE]]
  /\ UNCHANGED << storeVars, task, orphan, budget, tickets, ghosts >>

Step(i) ==
  \/ Cancel(i) \/ ChooseDepartment(i)
  \/ RefuseDescription(i) \/ Continue(i) \/ Describe(i)
  \/ RefuseChoice(i) \/ ChooseIdentity(i) \/ AskLimit(i) \/ StartWindow(i)
  \/ CreateTicket(i) \/ Clear(i)
  \/ Propose(i) \/ ReadReply(i) \/ RefuseReply(i) \/ SendReply(i)
  \/ ReportInput(i) \/ ReportGivenUp(i)

Message(p, u) ==
  \/ Answer(p, u)
  \/ Section(p, u) \/ Question(p, u) \/ Partnership(p, u) \/ StartReply(p, u)
  \/ ReportMenu(p, u) \/ ReportByDate(p, u) \/ ReportToday(p, u)
  \/ \E i \in Slots : Begin(i, p, u)

DialogNext ==
  \/ \E p \in Processes, u \in Users : Message(p, u)
  \/ \E i \in Slots : Step(i)
  \/ \E p \in Processes : Switch(p) \/ Restart(p)
  \/ \E u \in Users : WindowEnds(u)
  \/ StateExpires

(* A handler that began goes on unless its process dies, and Redis expires *)
(* what has a TTL.                                                         *)
DialogFairness ==
  /\ \A i \in Slots : WF_dialogVars(Step(i))
  /\ \A u \in Users : WF_dialogVars(WindowEnds(u))
DialogSpec == DialogInit /\ [][DialogNext]_dialogVars /\ DialogFairness

-----------------------------------------------------------------------------
States == [at : Places, draft : 0..MaxDrafts, ticket : Tickets \cup {0}]
Steps == Deferred \cup {"limit", "expire", "create", "clear", "reply"}

(* The states in every place carry what their handlers need: one who is    *)
(* asked about anonymity has a description stored, one who writes a reply  *)
(* has a ticket; a process remembers at most MemoryMax states, one per     *)
(* user.                                                                   *)
Complete(s) == /\ s \in States
               /\ s.at = "identity" => s.draft # 0
               /\ s.at = "reply_text" => s.ticket # 0
DialogTypeOK ==
  /\ \A u \in Users : Complete(shared[u]) /\ rate[u].count \in 0..(Limit + 1)
  /\ \A p \in Processes :
       /\ Len(memory[p]) <= MemoryMax
       /\ \A e \in {memory[p][n] : n \in DOMAIN memory[p]} :
            e[1] \in Users /\ e[2] # Nothing /\ Complete(e[2])
       /\ \A m, n \in DOMAIN memory[p] : memory[p][m][1] = memory[p][n][1] => m = n
  /\ \A i \in Busy :
       /\ task[i].pc \in Steps
       /\ task[i].pc \in {"limit", "expire", "create"} => task[i].draft # 0

(* No ticket is made without a description, however late the tap that asks *)
(* for it comes: after the state expired, was cancelled or was used up.    *)
NoEmptyTicket == \A u \in Users : created[u][0] = 0

(* What a dialogue has gathered is complete at every step of it            *)
(* (bots/vk/handlers/student.py, ticket_identity_choice_handler;           *)
(* bots/vk/handlers/admin.py, admin_reply_text_handler).                   *)
DialogSound == DialogTypeOK /\ NoEmptyTicket

(* A description becomes a second ticket only after one of the events that *)
(* explain it: overlapping taps, a process that died under a tap, a copy   *)
(* of the state left behind when Redis was away.                           *)
DuplicatesHaveCause ==
  \A u \in Users, d \in 0..MaxDrafts : created[u][d] > 1 => excused[u]

(* What the student cancelled never becomes a ticket.                      *)
CancelIsFinal ==
  [][\A u \in Users : \A d \in dropped[u] :
       created'[u][d] # created[u][d] => excused[u]]_dialogVars

(* An operator's text goes to the ticket whose reply button was pressed    *)
(* last, not to one an older state still names.                            *)
ReplyGoesToChosen ==
  \A i \in Busy : task[i].pc = "reply" /\ ~excused[User(i)]
                     => task[i].ticket = task[i].wanted

(* A student who was shown an entry of the knowledge base instead of the   *)
(* next question is told to press "create" to go on: that must not start   *)
(* the dialogue anew.                                                      *)
SuggestionContinues ==
  [][\A p \in Processes, u \in Users :
       Get(p, u).at = "description" /\ Get(p, u).draft # 0 => ~Question(p, u)]_dialogVars

(* A student who has used up the limit may create tickets again: the       *)
(* counter goes, unless the EXPIRE that follows its first INCR was lost.   *)
WindowsClose ==
  \A u \in Users : rate[u].count > 0 ~> (rate[u].count = 0 \/ orphan[u])
=============================================================================
