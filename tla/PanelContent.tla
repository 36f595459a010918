---------------------------- MODULE PanelContent ----------------------------
(***************************************************************************)
(* What the panel keeps by department (web/routes/departments.py, faq.py,  *)
(* knowledge_base.py, events.py, tickets.py, api.py, api_v1.py) and who    *)
(* may work on it (web/dependencies.py, get_admin_scope).                  *)
(*                                                                         *)
(* A request checks and commits later; requests overlap.  The deletion of  *)
(* a department also reads its children a second time, when the mapper     *)
(* flushes, and the foreign keys do the rest.  The counts of one check are *)
(* taken as one; names are left out, and so are subscriptions, which       *)
(* nothing creates.                                                        *)
(***************************************************************************)
EXTENDS Naturals, Sequences, FiniteSets

CONSTANTS
  Staff,        \* accounts of department administrators
  Super,        \* a superadministrator
  MaxDepts,     \* bound: departments
  MaxItems,     \* bound: tickets, questions, materials and events
  MaxRows,      \* bound: rows of an import
  MaxForms,     \* bound: requests under way at the same time
  MaxPosts      \* bound: requests

ASSUME ContentAssumption ==
  /\ Super \notin Staff /\ MaxDepts \in Nat \ {0} /\ MaxItems \in Nat /\ MaxRows \in Nat \ {0}
  /\ MaxForms \in Nat \ {0} /\ MaxPosts \in Nat

Kinds == {"ticket", "faq", "knowledge", "event"}
Depts == 1..MaxDepts
Items == 1..MaxItems
Forms == 1..MaxForms

\* 0: no department, no parent
Item == [kind : Kinds, dept : 0..MaxDepts, parent : 0..MaxItems]
NoForm == [op |-> "none", actor |-> Super, id |-> 0, kind |-> "ticket", rows |-> << >>, parent |-> 0,
           loaded |-> {}, came |-> {}, hired |-> {}, moved |-> FALSE]

VARIABLES
  depts, founded,   \* departments there are; how many there have been
  item, kept, added,\* rows; those there are; how many there have been
  scope,            \* web_users.department_id
  form, posts       \* requests between their checks and their commit; so far

contentVars == << depts, founded, item, kept, added, scope, form, posts >>

ContentInit ==
  /\ depts = {1} /\ founded = 1
  /\ item = [i \in Items |-> [kind |-> "ticket", dept |-> 0, parent |-> 0]] /\ kept = {} /\ added = 0
  /\ scope = [a \in Staff |-> 0]
  /\ form = [j \in Forms |-> NoForm] /\ posts = 0

-----------------------------------------------------------------------------
\* Variant with a defect: what has no department is in no list.
ShownOwn(a, i) == a # Super => item[i].dept = scope[a] /\ scope[a] # 0

\* The lists: own department and what has none ...
ShownTicket(a, i) == a = Super \/ item[i].dept \in {0, scope[a]}
ShownMaterial(a, i) == a = Super \/ item[i].dept \in {0, scope[a]}
ShownEvent(a, i) == a = Super \/ item[i].dept \in {0, scope[a]}
\* ... but of questions those of the own department only.
ShownQuestion(a, i) == a = Super \/ item[i].dept = scope[a]

Shown(a, i) ==
  CASE item[i].kind = "ticket" -> ShownTicket(a, i)
    [] item[i].kind = "knowledge" -> ShownMaterial(a, i)
    [] item[i].kind = "event" -> ShownEvent(a, i)
    [] item[i].kind = "faq" -> ShownQuestion(a, i)

\* _load_ticket_for_user: a ticket without a department is everybody's.
MayWork(a, i) == a # Super => item[i].dept = 0 \/ item[i].dept = scope[a]

\* A department administrator removes what belongs to the own department.
MayRemove(a, i) == a # Super => scope[a] # 0 /\ item[i].dept = scope[a]

\* A department administrator adds to the own department; a superadministrator to any.
Target(a, d) == IF a = Super THEN d ELSE scope[a]

Post(j, f) ==
  /\ form[j].op = "none" /\ (\A i \in 1..(j - 1) : form[i].op # "none")
  /\ posts < MaxPosts /\ posts' = posts + 1
  /\ form' = [form EXCEPT ![j] = f]
  /\ UNCHANGED << depts, founded, item, kept, added, scope >>

\* Departments whose deletion is under way learn what comes to them meanwhile.
Settle(j, ids, newItem) ==
  [k \in Forms |-> IF k = j THEN NoForm
     ELSE [form[k] EXCEPT !.came = @ \cup {i \in ids : form[k].op = "delete" /\ newItem[i].dept = form[k].id},
                          !.moved = @ \/ (form[k].op \in {"work", "remove"} /\ form[k].id \in ids)]]

-----------------------------------------------------------------------------
BeginAdd(j, a, kind, rows, parent) ==
  /\ \A k \in DOMAIN rows : rows[k] # 0
  /\ Post(j, [NoForm EXCEPT !.op = "add", !.actor = a, !.kind = kind, !.rows = rows, !.parent = parent])

\* A question may stand below another one of the same department.
AddQuestion(j, a, d, parent) ==
  /\ parent # 0 => parent \in kept /\ item[parent].kind = "faq" /\ item[parent].dept = Target(a, d)
  /\ BeginAdd(j, a, "faq", << Target(a, d) >>, parent)

AddMaterial(j, a, d) == BeginAdd(j, a, "knowledge", << Target(a, d) >>, 0)
AddEvent(j, a, d) == BeginAdd(j, a, "event", << Target(a, d) >>, 0)

\* A file with a department in each of its n rows
Import(j, a, kind, n) ==
  \E rows \in [1..n -> depts] : BeginAdd(j, a, kind, [k \in 1..n |-> Target(a, rows[k])], 0)
ImportQuestions(j, a, n) == Import(j, a, "faq", n)
ImportMaterials(j, a, n) == Import(j, a, "knowledge", n)

\* One transaction: all the rows, or none if a department or the parent is gone.
CommitAdd(j) ==
  LET f == form[j]  new == (added + 1)..(added + Len(f.rows))
      fits == (\A k \in 1..Len(f.rows) : f.rows[k] \in depts) /\ f.parent \in kept \cup {0} IN
  /\ f.op = "add" /\ added + Len(f.rows) <= MaxItems
  /\ item' = [i \in Items |-> IF fits /\ i \in new
                THEN [kind |-> f.kind, dept |-> f.rows[i - added], parent |-> f.parent] ELSE item[i]]
  /\ kept' = IF fits THEN kept \cup new ELSE kept
  /\ added' = IF fits THEN added + Len(f.rows) ELSE added
  /\ form' = Settle(j, IF fits THEN new ELSE {}, item')
  /\ UNCHANGED << depts, founded, scope, posts >>

\* A student's ticket, routed to a department or to none.
NewTicket(d) ==
  /\ d \in depts \cup {0} /\ added < MaxItems
  /\ added' = added + 1 /\ kept' = kept \cup {added'}
  /\ item' = [item EXCEPT ![added'] = [kind |-> "ticket", dept |-> d, parent |-> 0]]
  /\ form' = Settle(0, {added'}, item')
  /\ UNCHANGED << depts, founded, scope, posts >>

BeginRemove(j, a, kind, i) ==
  /\ i \in kept /\ item[i].kind = kind /\ MayRemove(a, i)
  /\ Post(j, [NoForm EXCEPT !.op = "remove", !.actor = a, !.id = i])

RemoveQuestion(j, a, i) == BeginRemove(j, a, "faq", i)
RemoveMaterial(j, a, i) == BeginRemove(j, a, "knowledge", i)
RemoveEvent(j, a, i) == BeginRemove(j, a, "event", i)

\* Variant with a defect: the key of a parent that goes is kept.
KeepParents(gone) == item

\* Questions below the removed one become roots.
Orphaned(gone) == [i \in Items |-> [item[i] EXCEPT !.parent = IF @ \in gone THEN 0 ELSE @]]

CommitRemove(j) ==
  /\ form[j].op = "remove"
  /\ kept' = kept \ {form[j].id} /\ item' = Orphaned({form[j].id})
  /\ form' = Settle(j, {}, item')
  /\ UNCHANGED << depts, founded, added, scope, posts >>

\* The work itself is in Tickets.
BeginWork(j, a, i) ==
  /\ i \in kept /\ item[i].kind = "ticket" /\ MayWork(a, i)
  /\ Post(j, [NoForm EXCEPT !.op = "work", !.actor = a, !.id = i])

ReplyTicket(j, a, i) == BeginWork(j, a, i)
SetTicketStatus(j, a, i) == BeginWork(j, a, i)

CommitWork(j) ==
  /\ form[j].op = "work"
  /\ form' = Settle(j, {}, item)
  /\ UNCHANGED << depts, founded, item, kept, added, scope, posts >>

\* By a superadministrator.
AssignTicket(j, i, d) ==
  /\ i \in kept /\ item[i].kind = "ticket"
  /\ Post(j, [NoForm EXCEPT !.op = "assign", !.id = i, !.rows = << d >>])

CommitAssign(j) ==
  LET f == form[j]  fits == f.id \in kept /\ f.rows[1] \in depts IN
  /\ f.op = "assign"
  /\ item' = IF fits THEN [item EXCEPT ![f.id].dept = f.rows[1]] ELSE item
  /\ form' = Settle(j, IF fits THEN {f.id} ELSE {}, item')
  /\ UNCHANGED << depts, founded, kept, added, scope, posts >>

-----------------------------------------------------------------------------
Found ==
  /\ founded < MaxDepts /\ founded' = founded + 1 /\ depts' = depts \cup {founded'}
  /\ UNCHANGED << item, kept, added, scope, form, posts >>

CreateDepartment == Found
ApiCreateDepartment == Found
V1CreateDepartment == Found

\* An account gets its department (add_admin, create_web_user.py).
Hire(a, d) ==
  /\ scope[a] = 0 /\ d \in depts /\ scope' = [scope EXCEPT ![a] = d]
  /\ form' = [k \in Forms |-> IF form[k].op = "delete" /\ form[k].id = d
                              THEN [form[k] EXCEPT !.hired = @ \cup {a}] ELSE form[k]]
  /\ UNCHANGED << depts, founded, item, kept, added, posts >>

In(d) == {i \in kept : item[i].dept = d}

\* Variant with a defect: accounts are not counted.
UsedByContent(d) == In(d) # {}

\* The three ways to count agree on what there is.
Used(d) == In(d) # {} \/ \E a \in Staff : scope[a] = d

BeginDelete(j, d) ==
  /\ d \in depts /\ ~Used(d)
  /\ Post(j, [NoForm EXCEPT !.op = "delete", !.id = d])

DeleteDepartment(j, d) == BeginDelete(j, d)
ApiDeleteDepartment(j, d) == BeginDelete(j, d)
V1DeleteDepartment(j, d) == BeginDelete(j, d)

\* The flush reads the children; questions and events cannot do without a department.
LoadChildren(j) ==
  LET f == form[j] IN
  /\ f.op = "delete" /\ f.kind = "ticket"
  /\ form' = IF \E i \in In(f.id) : item[i].kind \in {"faq", "event"} THEN [form EXCEPT ![j] = NoForm]
             ELSE [form EXCEPT ![j] = [f EXCEPT !.kind = "event", !.loaded = In(f.id)]]
  /\ UNCHANGED << depts, founded, item, kept, added, scope, posts >>

\* The children that were read lose their department - if one is gone, all fails; of the
\* others the keys free tickets and accounts and take the rest with the department.
CommitDelete(j) ==
  LET f == form[j]  fails == ~(f.loaded \subseteq kept)
      rest == In(f.id) \ f.loaded
      gone == {i \in rest : item[i].kind # "ticket"} IN
  /\ f.op = "delete" /\ f.kind = "event"
  /\ IF fails THEN UNCHANGED << depts, item, kept, scope >>
     ELSE /\ depts' = depts \ {f.id} /\ kept' = kept \ gone
          /\ item' = [i \in Items |-> IF i \in f.loaded \cup (rest \ gone)
                        THEN [item[i] EXCEPT !.dept = 0] ELSE Orphaned(gone)[i]]
          /\ scope' = [a \in Staff |-> IF scope[a] = f.id THEN 0 ELSE scope[a]]
  /\ form' = Settle(j, IF fails THEN {} ELSE f.loaded \cup rest, item')
  /\ UNCHANGED << founded, added, posts >>

Begin(j, a) ==
  \/ \E d \in Depts, parent \in Items \cup {0} : AddQuestion(j, a, d, parent)
  \/ \E d \in Depts : AddMaterial(j, a, d) \/ AddEvent(j, a, d)
  \/ \E n \in 2..MaxRows : ImportQuestions(j, a, n) \/ ImportMaterials(j, a, n)
  \/ \E i \in Items : RemoveQuestion(j, a, i) \/ RemoveMaterial(j, a, i) \/ RemoveEvent(j, a, i)
  \/ \E i \in Items : ReplyTicket(j, a, i) \/ SetTicketStatus(j, a, i)

BeginAsSuper(j) ==
  \/ \E i \in Items, d \in Depts : AssignTicket(j, i, d)
  \/ \E d \in Depts : DeleteDepartment(j, d) \/ ApiDeleteDepartment(j, d) \/ V1DeleteDepartment(j, d)

ContentNext ==
  \/ \E j \in Forms, a \in Staff \cup {Super} : Begin(j, a)
  \/ \E j \in Forms : BeginAsSuper(j)
  \/ \E j \in Forms : CommitAdd(j)
  \/ \E j \in Forms : CommitRemove(j)
  \/ \E j \in Forms : CommitWork(j)
  \/ \E j \in Forms : CommitAssign(j)
  \/ \E j \in Forms : LoadChildren(j)
  \/ \E j \in Forms : CommitDelete(j)
  \/ \E d \in 0..MaxDepts : NewTicket(d)
  \/ CreateDepartment \/ ApiCreateDepartment \/ V1CreateDepartment
  \/ \E a \in Staff, d \in Depts : Hire(a, d)

ContentSpec == ContentInit /\ [][ContentNext]_contentVars

-----------------------------------------------------------------------------
(* Properties.                                                             *)

ContentTypeOK ==
  /\ depts \subseteq 1..founded /\ founded \in 0..MaxDepts
  /\ item \in [Items -> Item] /\ kept \subseteq 1..added /\ added \in 0..MaxItems
  /\ scope \in [Staff -> 0..MaxDepts] /\ posts \in 0..MaxPosts

\* Nothing refers to a department or a question that is gone, whatever is added, moved and
\* deleted at the same time; a question and its parent belong to one department.
NothingDangles ==
  /\ \A a \in Staff : scope[a] \in depts \cup {0}
  /\ \A i \in kept :
       /\ item[i].dept \in depts \cup {0}
       /\ item[i].parent # 0 => item[i].parent \in kept /\ item[item[i].parent].dept = item[i].dept

\* The deletion of a department takes away or cuts loose only what came to it after it had
\* been found empty ("honest protection, not a silent loss": web/routes/departments.py,
\* delete_department; web/routes/api.py, api_delete_department).
OnlyLatecomersAreLost ==
  [][\A j \in Forms :
       form[j].op = "delete" /\ depts' # depts /\ form'[j] = NoForm =>
         /\ \A i \in kept : i \notin kept' \/ item'[i].dept # item[i].dept => i \in form[j].came
         /\ \A a \in Staff : scope'[a] # scope[a] => a \in form[j].hired]_contentVars

\* Whatever a department administrator works on was in his list when he began, and still is
\* unless it was moved in the meantime (web/routes/tickets.py, _build_ticket_filters and
\* _load_ticket_for_user; web/routes/faq.py, knowledge_base.py, events.py).
WorkIsShown ==
  \A j \in Forms : form[j].op \in {"work", "remove"} /\ form[j].id \in kept =>
                     Shown(form[j].actor, form[j].id) \/ form[j].moved

\* What there is of a department agrees at every moment, for everybody who works on it
\* (web/routes/departments.py, faq.py, knowledge_base.py, events.py, tickets.py).
ContentSound == ContentTypeOK /\ NothingDangles /\ WorkIsShown
=============================================================================
