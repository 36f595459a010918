---------------------------- MODULE ContentProofs ----------------------------
(***************************************************************************)
(* Proofs about what the panel keeps by department (PanelContent): nothing *)
(* dangles, work stays within what is shown, and the deletion of a         *)
(* department takes only what came to it late.                             *)
(***************************************************************************)
EXTENDS PanelContent, SequenceTheorems, TLAPS

FormType ==
  [op : {"none", "add", "remove", "work", "assign", "delete"}, actor : Staff \cup {Super}, id : Nat,
   kind : Kinds, rows : Seq(Nat), parent : 0..MaxItems,
   loaded : SUBSET Items, came : SUBSET Items, hired : SUBSET Staff, moved : BOOLEAN]

\* What an administrator's request rested on still holds.
Entitled(f) ==
  \/ f.actor = Super
  \/ f.op = "work" /\ item[f.id].kind = "ticket" /\ item[f.id].dept \in {0, scope[f.actor]}
  \/ f.op = "remove" /\ scope[f.actor] # 0 /\ item[f.id].dept = scope[f.actor]

\* A question is added below one of the same department, a ticket is assigned, a
\* deletion knows all that came to its department since that was found empty.
Good(k) ==
  LET f == form[k] IN
  /\ f.op = "add" /\ f.parent # 0 =>
       /\ f.kind = "faq" /\ Len(f.rows) = 1
       /\ f.parent \in 1..added /\ item[f.parent].kind = "faq"
       /\ f.parent \in kept => item[f.parent].dept = f.rows[1]
  /\ f.op = "assign" => f.id \in 1..added /\ item[f.id].kind = "ticket"
  /\ f.op \in {"work", "remove"} =>
       f.id \in 1..added /\ (f.id \in kept /\ ~f.moved => Entitled(f))
  /\ f.op = "delete" =>
       /\ f.id # 0
       /\ f.loaded \subseteq 1..added /\ f.loaded \subseteq f.came
       /\ \A i \in f.loaded : item[i].kind \in {"ticket", "knowledge"}
       /\ In(f.id) \subseteq f.came
       /\ \A a \in Staff : scope[a] = f.id => a \in f.hired

\* Only questions have parents, and these are questions.
OnlyQuestionsNest ==
  \A i \in kept : item[i].parent # 0 => item[i].kind = "faq" /\ item[item[i].parent].kind = "faq"

ContentInv ==
  /\ ContentTypeOK
  /\ NothingDangles /\ OnlyQuestionsNest
  /\ form \in [Forms -> FormType]
  /\ \A k \in Forms : Good(k)

\* A form at rest is a form.
LEMMA NoFormType == NoForm \in FormType /\ NoForm.op = "none"
<1>1. << >> \in Seq(Nat) /\ 0 \in 0..MaxItems
  BY ContentAssumption
<1> QED
  BY <1>1 DEF NoForm, FormType, Kinds

\* The types, unfolded for those who use them.
LEMMA TypesOf ==
  ASSUME ContentInv
  PROVE  /\ depts \subseteq 1..founded /\ founded \in 0..MaxDepts /\ MaxDepts \in Nat
         /\ item \in [Items -> Item] /\ kept \subseteq 1..added /\ added \in 0..MaxItems
         /\ MaxItems \in Nat /\ 1..added \subseteq Items /\ kept \subseteq Items
         /\ scope \in [Staff -> 0..MaxDepts] /\ posts \in 0..MaxPosts /\ MaxPosts \in Nat
         /\ depts \subseteq Depts /\ 0 \notin depts /\ 0 \notin kept
         /\ form \in [Forms -> FormType]
         /\ \A i \in Items : /\ item[i].kind \in Kinds /\ item[i].dept \in 0..MaxDepts
                             /\ item[i].parent \in 0..MaxItems
<1>1. /\ depts \subseteq 1..founded /\ founded \in 0..MaxDepts /\ MaxDepts \in Nat
      /\ item \in [Items -> Item] /\ kept \subseteq 1..added /\ added \in 0..MaxItems
      /\ scope \in [Staff -> 0..MaxDepts] /\ posts \in 0..MaxPosts
      /\ form \in [Forms -> FormType] /\ MaxItems \in Nat /\ MaxPosts \in Nat
  BY ContentAssumption DEF ContentInv, ContentTypeOK
<1>2. 1..added \subseteq Items /\ 1..founded \subseteq Depts /\ 0 \notin 1..added /\ 0 \notin 1..founded
  BY <1>1 DEF Items, Depts
<1>3. \A i \in Items : item[i] \in Item
  BY <1>1
<1> QED
  BY <1>1, <1>2, <1>3 DEF Item

\* The invariant holds at the start.
LEMMA ContentStart == ContentInit => ContentInv
<1> SUFFICES ASSUME ContentInit PROVE ContentInv
  OBVIOUS
<1>1. form = [j \in Forms |-> NoForm] /\ form \in [Forms -> FormType]
  BY NoFormType DEF ContentInit
<1>2. \A k \in Forms : Good(k)
  BY <1>1, NoFormType DEF Good
<1>3. item \in [Items -> Item]
  <2>1. [kind |-> "ticket", dept |-> 0, parent |-> 0] \in Item
    BY ContentAssumption DEF Item, Kinds
  <2> QED
    BY <2>1 DEF ContentInit
<1>4. ContentTypeOK
  BY <1>3, ContentAssumption DEF ContentInit, ContentTypeOK
<1>5. NothingDangles /\ OnlyQuestionsNest
  BY DEF ContentInit, NothingDangles, OnlyQuestionsNest
<1> QED
  BY <1>1, <1>2, <1>4, <1>5 DEF ContentInv

\* A request that begins changes nothing but its form.
LEMMA PostKeeps ==
  ASSUME ContentInv, NEW j \in Forms, NEW f \in FormType, Post(j, f), Good(j)'
  PROVE  ContentInv'
<1>1. /\ posts' = posts + 1 /\ posts < MaxPosts /\ form' = [form EXCEPT ![j] = f]
      /\ UNCHANGED << depts, founded, item, kept, added, scope >>
  BY DEF Post
<1>2. form' \in [Forms -> FormType]
  BY <1>1, TypesOf
<1>3. posts' \in 0..MaxPosts
  BY <1>1, TypesOf
<1>4. ASSUME NEW k \in Forms PROVE Good(k)'
  <2>1. CASE k = j
    BY <2>1
  <2>2. CASE k # j
    <3>1. form'[k] = form[k] /\ Good(k)
      BY <1>1, <2>2, TypesOf DEF ContentInv
    <3> QED
      BY <1>1, <3>1 DEF Good, Entitled, In
  <2> QED
    BY <2>1, <2>2
<1> QED
  BY <1>1, <1>2, <1>3, <1>4 DEF ContentInv, ContentTypeOK, NothingDangles, OnlyQuestionsNest

\* What the other requests learn from a commit is enough for them.
LEMMA SettleType ==
  ASSUME form \in [Forms -> FormType], NEW j, NEW ids \in SUBSET Items,
         form' = Settle(j, ids, item'), NEW k \in Forms, NEW g, g = form'[k]
  PROVE  /\ g \in FormType
         /\ k = j => g = NoForm
         /\ k # j =>
              /\ g.op = form[k].op /\ g.actor = form[k].actor /\ g.id = form[k].id
              /\ g.kind = form[k].kind /\ g.rows = form[k].rows /\ g.parent = form[k].parent
              /\ g.loaded = form[k].loaded /\ g.hired = form[k].hired
              /\ form[k].came \subseteq g.came
              /\ form[k].op = "delete" =>
                   \A i \in ids : item'[i].dept = form[k].id => i \in g.came
              /\ ~g.moved => ~form[k].moved /\ ~(form[k].op \in {"work", "remove"} /\ form[k].id \in ids)
<1>1. CASE k = j
  BY <1>1, NoFormType DEF Settle
<1>2. CASE k # j
  <2> DEFINE c == form[k].came \cup {i \in ids : form[k].op = "delete" /\ item'[i].dept = form[k].id}
             m == form[k].moved \/ (form[k].op \in {"work", "remove"} /\ form[k].id \in ids)
  <2>1. g = [form[k] EXCEPT !.came = c, !.moved = m]
    BY <1>2 DEF Settle
  <2>2. form[k] \in FormType
    OBVIOUS
  <2>3. c \in SUBSET Items /\ m \in BOOLEAN
    BY <2>2 DEF FormType
  <2>4. g.came = c /\ g.moved = m
    BY <2>1, <2>2 DEF FormType
  <2>5. /\ g.op = form[k].op /\ g.actor = form[k].actor /\ g.id = form[k].id
        /\ g.kind = form[k].kind /\ g.rows = form[k].rows /\ g.parent = form[k].parent
        /\ g.loaded = form[k].loaded /\ g.hired = form[k].hired
    BY <2>1, <2>2 DEF FormType
  <2>6. g \in FormType
    <3> HIDE DEF c, m
    <3> QED
      BY <2>1, <2>2, <2>3 DEF FormType
  <2> QED
    BY <1>2, <2>4, <2>5, <2>6
<1> QED
  BY <1>1, <1>2

\* A commit that moves no question, and touches only the rows it announces, leaves the
\* other requests what they rest on.
LEMMA CommitKeepsGood ==
  ASSUME ContentInv, NEW j, NEW ids \in SUBSET Items, form' = Settle(j, ids, item'),
         added' \in Nat, added <= added',
         \A i \in 1..added : item'[i].kind = item[i].kind,
         \A i \in 1..added : item[i].kind = "faq" /\ i \in kept' =>
                               i \in kept /\ item'[i].dept = item[i].dept,
         \A i \in kept' : i \in 1..added /\ i \notin ids =>
                               i \in kept /\ item'[i].dept = item[i].dept,
         \A i \in kept' : i \notin 1..added => i \in ids,
         \A a \in Staff : \/ scope'[a] = scope[a]
                          \/ scope'[a] = 0 /\ \A i \in kept' : i \notin ids => item'[i].dept # scope[a]
  PROVE  form' \in [Forms -> FormType] /\ \A k \in Forms : Good(k)'
<1>1. form \in [Forms -> FormType] /\ added \in Nat
  BY TypesOf
<1>2. \A k \in Forms : form'[k] \in FormType
  BY <1>1, SettleType
<1>3. form' \in [Forms -> FormType]
  BY <1>2 DEF Settle
<1>4. 1..added \subseteq 1..added'
  BY <1>1
<1>5. ASSUME NEW k \in Forms PROVE Good(k)'
  <2>1. CASE k = j
    <3>1. form'[k] = NoForm
      BY <2>1 DEF Settle
    <3> QED
      BY <3>1, NoFormType DEF Good
  <2>2. CASE k # j
    <3> DEFINE f == form[k]
               g == form'[k]
    <3>1. /\ g.op = f.op /\ g.actor = f.actor /\ g.id = f.id
          /\ g.kind = f.kind /\ g.rows = f.rows /\ g.parent = f.parent
          /\ g.loaded = f.loaded /\ g.hired = f.hired
          /\ f.came \subseteq g.came
          /\ f.op = "delete" => \A i \in ids : item'[i].dept = f.id => i \in g.came
          /\ ~g.moved => ~f.moved /\ ~(f.op \in {"work", "remove"} /\ f.id \in ids)
      BY <1>1, <2>2, SettleType
    <3>2. Good(k)
      BY DEF ContentInv
    <3>3. f \in FormType
      BY <1>1
    <3>4. ASSUME f.op = "add", f.parent # 0
          PROVE  /\ g.kind = "faq" /\ Len(g.rows) = 1
                 /\ g.parent \in 1..added' /\ item'[g.parent].kind = "faq"
                 /\ g.parent \in kept' => item'[g.parent].dept = g.rows[1]
      BY <1>4, <3>1, <3>2, <3>4 DEF Good
    <3>5. ASSUME f.op = "assign"
          PROVE  g.id \in 1..added' /\ item'[g.id].kind = "ticket"
      BY <1>4, <3>1, <3>2, <3>5 DEF Good
    <3>6. ASSUME f.op \in {"work", "remove"}
          PROVE  g.id \in 1..added' /\ (g.id \in kept' /\ ~g.moved => Entitled(form[k])')
      <4>1. f.id \in 1..added /\ (f.id \in kept /\ ~f.moved => Entitled(f))
        BY <3>2, <3>6 DEF Good
      <4>2. ASSUME f.id \in kept', ~g.moved PROVE Entitled(form[k])'
        <5>1. /\ f.id \in kept /\ f.id \notin ids /\ ~f.moved
              /\ item'[f.id].dept = item[f.id].dept /\ item'[f.id].kind = item[f.id].kind
          BY <3>1, <3>6, <4>1, <4>2
        <5>2. Entitled(f)
          BY <4>1, <5>1
        <5>3. CASE f.actor = Super
          BY <3>1, <5>3 DEF Entitled
        <5>4. CASE f.actor # Super
          <6>1. f.actor \in Staff
            BY <3>3, <5>4 DEF FormType
          <6>2. \/ scope'[f.actor] = scope[f.actor]
                \/ scope'[f.actor] = 0 /\ item'[f.id].dept # scope[f.actor]
            BY <4>2, <5>1, <6>1
          <6> QED
            BY <3>1, <5>1, <5>2, <5>4, <6>2 DEF Entitled
        <5> QED
          BY <5>3, <5>4
      <4> QED
        BY <1>4, <3>1, <4>1, <4>2
    <3>7. ASSUME f.op = "delete"
          PROVE  /\ g.id # 0
                 /\ g.loaded \subseteq 1..added' /\ g.loaded \subseteq g.came
                 /\ \A i \in g.loaded : item'[i].kind \in {"ticket", "knowledge"}
                 /\ In(form[k].id)' \subseteq g.came
                 /\ \A a \in Staff : scope'[a] = g.id => a \in g.hired
      <4>1. /\ f.id # 0 /\ f.loaded \subseteq 1..added /\ f.loaded \subseteq f.came
            /\ \A i \in f.loaded : item[i].kind \in {"ticket", "knowledge"}
            /\ In(f.id) \subseteq f.came
            /\ \A a \in Staff : scope[a] = f.id => a \in f.hired
        BY <3>2, <3>7 DEF Good
      <4>2. ASSUME NEW i \in kept', item'[i].dept = f.id PROVE i \in g.came
        <5>1. CASE i \in ids
          BY <3>1, <3>7, <4>2, <5>1
        <5>2. CASE i \notin ids
          <6>1. i \in kept /\ item[i].dept = f.id
            BY <4>2, <5>2
          <6> QED
            BY <3>1, <4>1, <6>1 DEF In
        <5> QED
          BY <5>1, <5>2
      <4>3. In(form[k].id)' \subseteq g.came
        BY <3>1, <4>2 DEF In
      <4>4. \A a \in Staff : scope'[a] = g.id => a \in g.hired
        BY <3>1, <4>1
      <4>5. \A i \in g.loaded : item'[i].kind \in {"ticket", "knowledge"}
        BY <3>1, <4>1
      <4> QED
        BY <1>4, <3>1, <4>1, <4>3, <4>4, <4>5
    <3> QED
      BY <3>1, <3>4, <3>5, <3>6, <3>7 DEF Good
  <2> QED
    BY <2>1, <2>2
<1> QED
  BY <1>3, <1>5
-----------------------------------------------------------------------------
(* Requests that begin.                                                    *)

\* What the form of a request is when it begins.
LEMMA FormSet ==
  ASSUME ContentInv, NEW j \in Forms, NEW f \in FormType, Post(j, f)
  PROVE  /\ form'[j] = f
         /\ UNCHANGED << depts, founded, item, kept, added, scope >>
  BY DEF Post, ContentInv

\* Adding begins: a parent that is given is a question of the same department.
LEMMA AddBegins ==
  ASSUME ContentInv, NEW j \in Forms, NEW a \in Staff \cup {Super}, NEW kind \in Kinds,
         NEW rows \in Seq(Nat), NEW parent \in 0..MaxItems,
         parent # 0 => /\ kind = "faq" /\ Len(rows) = 1
                       /\ parent \in kept /\ item[parent].kind = "faq" /\ item[parent].dept = rows[1],
         BeginAdd(j, a, kind, rows, parent)
  PROVE  ContentInv'
<1> DEFINE f == [NoForm EXCEPT !.op = "add", !.actor = a, !.kind = kind, !.rows = rows, !.parent = parent]
<1>1. /\ f.op = "add" /\ f.kind = kind /\ f.rows = rows /\ f.parent = parent
      /\ f \in FormType
  BY DEF NoForm, FormType
<1>2. Post(j, f)
  BY DEF BeginAdd
<1> HIDE DEF f
<1>3. form'[j] = f /\ UNCHANGED << item, kept, added >>
  BY <1>1, <1>2, FormSet
<1>4. Good(j)'
  BY <1>1, <1>3, TypesOf DEF Good
<1> QED
  BY <1>1, <1>2, <1>4, PostKeeps

\* A request is addressed to a department, or to none by somebody who has none.
LEMMA TargetType ==
  ASSUME ContentInv, NEW a \in Staff \cup {Super}, NEW d \in Depts
  PROVE  Target(a, d) \in Nat
  BY TypesOf DEF Target, Depts

\* All handlers that add, for one row or for a file.
LEMMA AddsBegin ==
  ASSUME ContentInv, NEW j \in Forms, NEW a \in Staff \cup {Super},
         \/ \E d \in Depts, parent \in Items \cup {0} : AddQuestion(j, a, d, parent)
         \/ \E d \in Depts : AddMaterial(j, a, d) \/ AddEvent(j, a, d)
         \/ \E n \in 2..MaxRows : ImportQuestions(j, a, n) \/ ImportMaterials(j, a, n)
  PROVE  ContentInv'
<1>1. Items \cup {0} \subseteq 0..MaxItems /\ 0 \in 0..MaxItems
  BY TypesOf DEF Items
<1>2. ASSUME NEW d \in Depts, NEW parent \in Items \cup {0}, AddQuestion(j, a, d, parent)
      PROVE  ContentInv'
  <2>1. << Target(a, d) >> \in Seq(Nat) /\ Len(<< Target(a, d) >>) = 1 /\ << Target(a, d) >>[1] = Target(a, d)
    BY TargetType
  <2>2. /\ BeginAdd(j, a, "faq", << Target(a, d) >>, parent)
        /\ parent # 0 => parent \in kept /\ item[parent].kind = "faq" /\ item[parent].dept = Target(a, d)
    BY <1>2 DEF AddQuestion
  <2>3. "faq" \in Kinds /\ parent \in 0..MaxItems
    BY <1>1 DEF Kinds
  <2> QED
    BY <2>1, <2>2, <2>3, AddBegins
<1>3. ASSUME NEW d \in Depts, AddMaterial(j, a, d) \/ AddEvent(j, a, d) PROVE ContentInv'
  <2>1. << Target(a, d) >> \in Seq(Nat)
    BY TargetType
  <2>2. \E kind \in Kinds : BeginAdd(j, a, kind, << Target(a, d) >>, 0)
    BY <1>3 DEF AddMaterial, AddEvent, Kinds
  <2> QED
    BY <1>1, <2>1, <2>2, AddBegins
<1>4. ASSUME NEW n \in 2..MaxRows, ImportQuestions(j, a, n) \/ ImportMaterials(j, a, n) PROVE ContentInv'
  <2>1. PICK kind \in Kinds, rows \in [1..n -> depts] :
          BeginAdd(j, a, kind, [k \in 1..n |-> Target(a, rows[k])], 0)
    BY <1>4 DEF ImportQuestions, ImportMaterials, Import, Kinds
  <2>2. \A k \in 1..n : Target(a, rows[k]) \in Nat
    BY TypesOf, TargetType
  <2>3. [k \in 1..n |-> Target(a, rows[k])] \in Seq(Nat)
    <3>1. n \in Nat
      OBVIOUS
    <3> QED
      BY <2>2, <3>1
  <2> QED
    BY <1>1, <2>1, <2>3, AddBegins
<1> QED
  BY <1>2, <1>3, <1>4

\* Work and removal begin with what the administrator is entitled to.
LEMMA WorkBegins ==
  ASSUME ContentInv, NEW j \in Forms, NEW a \in Staff \cup {Super}, NEW i \in Items,
         \/ BeginWork(j, a, i)
         \/ \E kind \in Kinds : BeginRemove(j, a, kind, i)
  PROVE  ContentInv'
<1>1. PICK op \in {"work", "remove"} :
        /\ i \in kept /\ Post(j, [NoForm EXCEPT !.op = op, !.actor = a, !.id = i])
        /\ op = "work" => item[i].kind = "ticket" /\ MayWork(a, i)
        /\ op = "remove" => MayRemove(a, i)
  BY DEF BeginWork, BeginRemove
<1> DEFINE f == [NoForm EXCEPT !.op = op, !.actor = a, !.id = i]
<1>2. f.op = op /\ f.actor = a /\ f.id = i /\ f \in FormType
  <2>1. NoForm \in FormType /\ i \in Nat
    BY NoFormType DEF Items
  <2> QED
    BY <2>1 DEF NoForm, FormType
<1> HIDE DEF f
<1>3. /\ form'[j] = f /\ UNCHANGED << depts, founded, item, kept, added, scope >>
  BY <1>1, <1>2, FormSet DEF f
<1>4. Entitled(form[j])'
  BY <1>1, <1>2, <1>3 DEF Entitled, MayWork, MayRemove
<1>5. i \in 1..added
  BY <1>1, TypesOf
<1>6. Good(j)'
  BY <1>1, <1>2, <1>3, <1>4, <1>5 DEF Good
<1> QED
  BY <1>1, <1>2, <1>6, PostKeeps DEF f

\* An assignment begins with a ticket that exists.
LEMMA AssignBegins ==
  ASSUME ContentInv, NEW j \in Forms, NEW i \in Items, NEW d \in Depts, AssignTicket(j, i, d)
  PROVE  ContentInv'
<1> DEFINE f == [NoForm EXCEPT !.op = "assign", !.id = i, !.rows = << d >>]
<1>1. f.op = "assign" /\ f.id = i /\ f \in FormType
  <2>1. NoForm \in FormType /\ i \in Nat /\ << d >> \in Seq(Nat)
    BY NoFormType DEF Items, Depts
  <2> QED
    BY <2>1 DEF NoForm, FormType
<1>2. Post(j, f) /\ i \in kept /\ item[i].kind = "ticket"
  BY DEF AssignTicket
<1> HIDE DEF f
<1>3. form'[j] = f /\ UNCHANGED << item, kept, added >>
  BY <1>1, <1>2, FormSet
<1>4. Good(j)'
  BY <1>1, <1>2, <1>3, TypesOf DEF Good
<1> QED
  BY <1>1, <1>2, <1>4, PostKeeps

\* A deletion begins with a department that nothing belongs to.
LEMMA DeleteBegins ==
  ASSUME ContentInv, NEW j \in Forms, NEW d \in Depts, BeginDelete(j, d)
  PROVE  ContentInv'
<1> DEFINE f == [NoForm EXCEPT !.op = "delete", !.id = d]
<1>1. f.op = "delete" /\ f.id = d /\ f.loaded = {} /\ f.came = {} /\ f \in FormType
  <2>1. NoForm \in FormType /\ d \in Nat
    BY NoFormType DEF Depts
  <2> QED
    BY <2>1 DEF NoForm, FormType
<1>2. Post(j, f) /\ d # 0 /\ In(d) = {} /\ \A a \in Staff : scope[a] # d
  BY TypesOf DEF BeginDelete, Used
<1> HIDE DEF f
<1>3. form'[j] = f /\ UNCHANGED << depts, founded, item, kept, added, scope >>
  BY <1>1, <1>2, FormSet
<1>4. In(form[j].id)' = {}
  BY <1>1, <1>2, <1>3 DEF In
<1>5. Good(j)'
  BY <1>1, <1>2, <1>3, <1>4 DEF Good
<1> QED
  BY <1>1, <1>2, <1>5, PostKeeps

\* Every request that begins keeps the invariant.
LEMMA BeginsKeep ==
  ASSUME ContentInv, NEW j \in Forms,
         (\E a \in Staff \cup {Super} : Begin(j, a)) \/ BeginAsSuper(j)
  PROVE  ContentInv'
<1>1. ASSUME NEW a \in Staff \cup {Super}, NEW i \in Items,
             \/ RemoveQuestion(j, a, i) \/ RemoveMaterial(j, a, i) \/ RemoveEvent(j, a, i)
             \/ ReplyTicket(j, a, i) \/ SetTicketStatus(j, a, i)
      PROVE  ContentInv'
  BY <1>1, WorkBegins
     DEF RemoveQuestion, RemoveMaterial, RemoveEvent, ReplyTicket, SetTicketStatus, Kinds
<1>2. ASSUME NEW a \in Staff \cup {Super}, Begin(j, a) PROVE ContentInv'
  BY <1>1, <1>2, AddsBegin DEF Begin
<1>3. CASE BeginAsSuper(j)
  BY <1>3, AssignBegins, DeleteBegins
     DEF BeginAsSuper, DeleteDepartment, ApiDeleteDepartment, V1DeleteDepartment
<1> QED
  BY <1>2, <1>3
-----------------------------------------------------------------------------
(* Requests that commit.                                                   *)

\* Work ends: nothing changes here.
LEMMA WorkCommits ==
  ASSUME ContentInv, NEW j \in Forms, CommitWork(j)
  PROVE  ContentInv'
<1>1. form' = Settle(j, {}, item') /\ UNCHANGED << depts, founded, item, kept, added, scope, posts >>
  BY DEF CommitWork
<1>2. form' \in [Forms -> FormType] /\ \A k \in Forms : Good(k)'
  BY <1>1, TypesOf, CommitKeepsGood
<1> QED
  BY <1>1, <1>2 DEF ContentInv, ContentTypeOK, NothingDangles, OnlyQuestionsNest

\* A removal commits: questions below become roots.
LEMMA RemoveCommits ==
  ASSUME ContentInv, NEW j \in Forms, CommitRemove(j)
  PROVE  ContentInv'
<1> DEFINE gone == {form[j].id}
<1>1. /\ kept' = kept \ gone /\ item' = Orphaned(gone)
      /\ form' = Settle(j, {}, item')
      /\ UNCHANGED << depts, founded, added, scope, posts >>
  BY DEF CommitRemove
<1> HIDE DEF gone
<1>2. \A i \in Items : /\ item'[i] \in Item
                       /\ item'[i].kind = item[i].kind /\ item'[i].dept = item[i].dept
                       /\ item'[i].parent = IF item[i].parent \in gone THEN 0 ELSE item[i].parent
  <2> TAKE i \in Items
  <2>1. item'[i] = [item[i] EXCEPT !.parent = IF @ \in gone THEN 0 ELSE @] /\ item[i] \in Item
    BY <1>1, TypesOf DEF Orphaned
  <2>2. 0 \in 0..MaxItems
    BY TypesOf
  <2> QED
    BY <2>1, <2>2 DEF Item
<1>3. item' \in [Items -> Item]
  BY <1>1, <1>2 DEF Orphaned
<1>4. form' \in [Forms -> FormType] /\ \A k \in Forms : Good(k)'
  BY <1>1, <1>2, TypesOf, CommitKeepsGood
<1>5. NothingDangles' /\ OnlyQuestionsNest'
  <2>1. NothingDangles /\ OnlyQuestionsNest /\ kept \subseteq Items
    BY TypesOf DEF ContentInv
  <2> QED
    BY <1>1, <1>2, <2>1 DEF NothingDangles, OnlyQuestionsNest
<1> QED
  BY <1>1, <1>3, <1>4, <1>5 DEF ContentInv, ContentTypeOK

\* An assignment commits, or finds the ticket or the department gone.
LEMMA AssignCommits ==
  ASSUME ContentInv, NEW j \in Forms, CommitAssign(j)
  PROVE  ContentInv'
<1> DEFINE f == form[j]
           fits == f.id \in kept /\ f.rows[1] \in depts
           ids == IF fits THEN {f.id} ELSE {}
<1>1. /\ f.op = "assign"
      /\ item' = IF fits THEN [item EXCEPT ![f.id].dept = f.rows[1]] ELSE item
      /\ form' = Settle(j, ids, item')
      /\ UNCHANGED << depts, founded, kept, added, scope, posts >>
  BY DEF CommitAssign
<1>2. f.id \in 1..added /\ item[f.id].kind = "ticket" /\ f.id \in Items
  BY <1>1, TypesOf DEF ContentInv, Good
<1>3. fits => f.rows[1] \in 0..MaxDepts /\ f.rows[1] \in depts
  BY TypesOf
<1> HIDE DEF f
<1>4. \A i \in Items : /\ item'[i] \in Item
                       /\ item'[i].kind = item[i].kind /\ item'[i].parent = item[i].parent
                       /\ item'[i].dept = IF i \in ids THEN f.rows[1] ELSE item[i].dept
  <2> TAKE i \in Items
  <2>1. item[i] \in Item
    BY TypesOf
  <2>2. CASE fits /\ i = f.id
    <3>1. item'[i] = [item[i] EXCEPT !.dept = f.rows[1]]
      BY <1>1, <1>2, <2>2, TypesOf
    <3> QED
      BY <1>3, <2>1, <2>2, <3>1 DEF Item
  <2>3. CASE ~(fits /\ i = f.id)
    BY <1>1, <1>2, <2>1, <2>3, TypesOf
  <2> QED
    BY <2>2, <2>3
<1>5. item' \in [Items -> Item]
  BY <1>1, <1>4, TypesOf
<1>6. ids \in SUBSET Items
  BY <1>2
<1>7. form' \in [Forms -> FormType] /\ \A k \in Forms : Good(k)'
  <2>1. \A i \in 1..added : item[i].kind = "faq" => i \notin ids
    BY <1>2
  <2>2. 1..added \subseteq Items /\ kept \subseteq 1..added /\ added \in Nat
    BY TypesOf
  <2> HIDE DEF ids
  <2>3. \A i \in 1..added : item'[i].kind = item[i].kind
    BY <1>4, <2>2
  <2>4. \A i \in 1..added : item[i].kind = "faq" /\ i \in kept' => i \in kept /\ item'[i].dept = item[i].dept
    BY <1>1, <1>4, <2>1, <2>2
  <2>5. \A i \in kept' : i \in 1..added /\ i \notin ids => i \in kept /\ item'[i].dept = item[i].dept
    BY <1>1, <1>4, <2>2
  <2>6. \A i \in kept' : i \notin 1..added => i \in ids
    BY <1>1, <2>2
  <2>7. form' = Settle(j, ids, item') /\ added' \in Nat /\ added <= added' /\ \A a \in Staff : scope'[a] = scope[a]
    BY <1>1, <2>2
  <2> QED
    BY <1>6, <2>3, <2>4, <2>5, <2>6, <2>7, CommitKeepsGood
<1>8. NothingDangles' /\ OnlyQuestionsNest'
  <2>1. NothingDangles /\ OnlyQuestionsNest /\ kept \subseteq Items
    BY TypesOf DEF ContentInv
  <2>2. \A i \in kept : item[i].parent # 0 => i \notin ids /\ item[i].parent \notin ids
    BY <1>2, <2>1 DEF OnlyQuestionsNest
  <2>3. \A i \in ids : item'[i].dept \in depts
    BY <1>3, <1>4, <1>6
  <2> HIDE DEF ids
  <2>4. \A i \in kept :
          /\ item'[i].dept \in depts \cup {0}
          /\ item'[i].parent # 0 =>
               /\ item'[i].parent \in kept /\ item'[item'[i].parent].dept = item'[i].dept
               /\ item'[i].kind = "faq" /\ item'[item'[i].parent].kind = "faq"
    BY <1>4, <2>1, <2>2, <2>3 DEF NothingDangles, OnlyQuestionsNest
  <2> QED
    BY <1>1, <2>1, <2>4 DEF NothingDangles, OnlyQuestionsNest
<1> QED
  BY <1>1, <1>5, <1>7, <1>8 DEF ContentInv, ContentTypeOK

\* Rows are added to departments that still exist, below a parent that still does.
LEMMA AddCommits ==
  ASSUME ContentInv, NEW j \in Forms, CommitAdd(j)
  PROVE  ContentInv'
<1> DEFINE f == form[j]
           new == (added + 1)..(added + Len(f.rows))
           fits == (\A k \in 1..Len(f.rows) : f.rows[k] \in depts) /\ f.parent \in kept \cup {0}
           ids == IF fits THEN new ELSE {}
<1>1. /\ f.op = "add" /\ added + Len(f.rows) <= MaxItems
      /\ item' = [i \in Items |-> IF fits /\ i \in new
                    THEN [kind |-> f.kind, dept |-> f.rows[i - added], parent |-> f.parent] ELSE item[i]]
      /\ kept' = IF fits THEN kept \cup new ELSE kept
      /\ added' = IF fits THEN added + Len(f.rows) ELSE added
      /\ form' = Settle(j, ids, item')
      /\ UNCHANGED << depts, founded, scope, posts >>
  BY DEF CommitAdd
<1>2. /\ f \in FormType /\ Good(j)
      /\ added \in Nat /\ MaxItems \in Nat /\ Len(f.rows) \in Nat
      /\ f.kind \in Kinds /\ f.parent \in 0..MaxItems /\ depts \subseteq 0..MaxDepts
  <2>1. f \in FormType /\ Good(j) /\ added \in Nat /\ MaxItems \in Nat
    BY TypesOf DEF ContentInv
  <2>2. f.rows \in Seq(Nat) /\ f.kind \in Kinds /\ f.parent \in 0..MaxItems
    BY <2>1 DEF FormType
  <2>3. depts \subseteq 0..MaxDepts
    BY TypesOf DEF Depts
  <2> QED
    BY <2>1, <2>2, <2>3
<1>3. new \subseteq Items /\ ids \in SUBSET Items /\ \A i \in 1..added : i \notin new /\ i \notin ids
  BY <1>1, <1>2 DEF Items
<1>4. \A i \in Items : i \notin ids => item'[i] = item[i]
  BY <1>1
<1>5. \A i \in ids : /\ fits /\ item'[i] \in Item
                     /\ i - added \in 1..Len(f.rows)
                     /\ item'[i].kind = f.kind /\ item'[i].parent = f.parent
                     /\ item'[i].dept = f.rows[i - added] /\ item'[i].dept \in depts
  <2> TAKE i \in ids
  <2>1. fits /\ i \in new /\ i \in Items
    BY <1>3
  <2>2. i - added \in 1..Len(f.rows)
    BY <1>2, <2>1
  <2>3. f.rows[i - added] \in depts
    BY <2>1, <2>2
  <2> DEFINE r == f.rows[i - added]
  <2>4. item'[i] = [kind |-> f.kind, dept |-> r, parent |-> f.parent]
    BY <1>1, <2>1
  <2>5. r \in depts /\ r \in 0..MaxDepts
    BY <1>2, <2>3
  <2> HIDE DEF r, f, fits, new, ids
  <2>6. item'[i] \in Item
    BY <1>2, <2>4, <2>5 DEF Item
  <2> QED
    BY <2>1, <2>2, <2>4, <2>5, <2>6 DEF r
<1>6. kept' = kept \cup ids /\ added' \in 0..MaxItems /\ added <= added' /\ ids \subseteq 1..added'
  <2>1. CASE fits
    BY <1>1, <1>2, <2>1
  <2>2. CASE ~fits
    BY <1>1, <1>2, <2>2, TypesOf
  <2> QED
    BY <2>1, <2>2
<1> HIDE DEF f, new, fits, ids
<1>7. item' \in [Items -> Item]
  <2> SUFFICES ASSUME NEW i \in Items PROVE item'[i] \in Item
    BY <1>1
  <2>1. CASE i \in ids
    BY <1>5, <2>1
  <2>2. CASE i \notin ids
    BY <1>4, <2>2, TypesOf
  <2> QED
    BY <2>1, <2>2
<1>8. added' \in Nat /\ added <= added' /\ kept' = kept \cup ids /\ kept' \subseteq 1..added' /\ added' \in 0..MaxItems
  <2>1. kept \subseteq 1..added
    BY TypesOf
  <2> QED
    BY <1>2, <1>6, <2>1
<1>9. \A i \in 1..added : i \in Items /\ i \notin ids /\ item'[i] = item[i]
  BY <1>3, <1>4, TypesOf
<1>10. form' \in [Forms -> FormType] /\ \A k \in Forms : Good(k)'
  <2>1. kept \subseteq 1..added
    BY TypesOf
  <2>2. \A i \in 1..added : item'[i].kind = item[i].kind
    BY <1>9
  <2>3. \A i \in 1..added : item[i].kind = "faq" /\ i \in kept' => i \in kept /\ item'[i].dept = item[i].dept
    BY <1>8, <1>9
  <2>4. \A i \in kept' : i \in 1..added /\ i \notin ids => i \in kept /\ item'[i].dept = item[i].dept
    BY <1>8, <1>9
  <2>5. \A i \in kept' : i \notin 1..added => i \in ids
    BY <1>8, <2>1
  <2> QED
    BY <1>1, <1>3, <1>8, <2>2, <2>3, <2>4, <2>5, CommitKeepsGood
<1>11. NothingDangles' /\ OnlyQuestionsNest'
  <2>1. NothingDangles /\ OnlyQuestionsNest /\ kept \subseteq 1..added
    BY TypesOf DEF ContentInv
  <2>2. ASSUME NEW i \in ids
        PROVE  /\ item'[i].dept \in depts
               /\ item'[i].parent # 0 =>
                    /\ item'[i].parent \in kept' /\ item'[item'[i].parent].dept = item'[i].dept
                    /\ item'[i].kind = "faq" /\ item'[item'[i].parent].kind = "faq"
    <3>1. /\ item'[i].kind = f.kind /\ item'[i].dept = f.rows[i - added] /\ item'[i].parent = f.parent
          /\ fits /\ item'[i].dept \in depts /\ i - added \in 1..Len(f.rows)
      BY <1>5
    <3>2. ASSUME f.parent # 0
          PROVE  /\ f.parent \in kept /\ f.kind = "faq" /\ item'[f.parent] = item[f.parent]
                 /\ item[f.parent].kind = "faq" /\ item[f.parent].dept = f.rows[i - added]
      <4>1. f.parent \in kept
        BY <3>1, <3>2 DEF fits
      <4>2. /\ f.kind = "faq" /\ Len(f.rows) = 1 /\ f.parent \in 1..added /\ item[f.parent].kind = "faq"
            /\ item[f.parent].dept = f.rows[1]
        BY <1>1, <1>2, <3>2, <4>1 DEF Good, f
      <4>3. i - added = 1
        BY <3>1, <4>2
      <4> QED
        BY <1>9, <4>1, <4>2, <4>3
    <3> QED
      BY <1>8, <3>1, <3>2
  <2>3. ASSUME NEW i \in kept
        PROVE  /\ item'[i].dept \in depts \cup {0}
               /\ item'[i].parent # 0 =>
                    /\ item'[i].parent \in kept' /\ item'[item'[i].parent].dept = item'[i].dept
                    /\ item'[i].kind = "faq" /\ item'[item'[i].parent].kind = "faq"
    BY <1>8, <1>9, <2>1 DEF NothingDangles, OnlyQuestionsNest
  <2>4. \A i \in kept' :
          /\ item'[i].dept \in depts \cup {0}
          /\ item'[i].parent # 0 =>
               /\ item'[i].parent \in kept' /\ item'[item'[i].parent].dept = item'[i].dept
               /\ item'[i].kind = "faq" /\ item'[item'[i].parent].kind = "faq"
    BY <1>8, <2>2, <2>3
  <2>5. \A a \in Staff : scope'[a] \in depts' \cup {0}
    BY <1>1, <2>1 DEF NothingDangles
  <2> QED
    BY <1>1, <2>4, <2>5 DEF NothingDangles, OnlyQuestionsNest
<1> QED
  BY <1>1, <1>7, <1>8, <1>10, <1>11 DEF ContentInv, ContentTypeOK

\* A new ticket refers to a department that exists, or to none.
LEMMA TicketCommits ==
  ASSUME ContentInv, NEW d \in 0..MaxDepts, NewTicket(d)
  PROVE  ContentInv'
<1> DEFINE t == added + 1
           new == [kind |-> "ticket", dept |-> d, parent |-> 0]
<1>1. /\ d \in depts \cup {0} /\ added < MaxItems /\ added' = t /\ kept' = kept \cup {t}
      /\ item' = [item EXCEPT ![t] = new]
      /\ form' = Settle(0, {t}, item')
      /\ UNCHANGED << depts, founded, scope, posts >>
  BY DEF NewTicket
<1>2. added \in Nat /\ MaxItems \in Nat /\ t \in Items /\ t \notin 1..added /\ kept \subseteq 1..added
  BY <1>1, TypesOf DEF Items
<1>3. new \in Item /\ new.kind = "ticket" /\ new.dept = d /\ new.parent = 0
  BY <1>2 DEF Item, Kinds
<1> HIDE DEF new
<1>4. item' \in [Items -> Item] /\ item'[t] = new /\ \A i \in Items \ {t} : item'[i] = item[i]
  BY <1>1, <1>2, <1>3, TypesOf
<1>5. added' \in 0..MaxItems /\ kept' \subseteq 1..added'
  BY <1>1, <1>2
<1>6. \A i \in 1..added : i \in Items /\ i # t /\ item'[i] = item[i]
  BY <1>2, <1>4, TypesOf
<1>7. form' \in [Forms -> FormType] /\ \A k \in Forms : Good(k)'
  <2>1. {t} \in SUBSET Items /\ added' \in Nat /\ added <= added'
    BY <1>1, <1>2
  <2>2. \A i \in kept' : i \in 1..added \/ i \in {t}
    BY <1>1, <1>2
  <2> HIDE DEF t
  <2> QED
    BY <1>1, <1>6, <2>1, <2>2, CommitKeepsGood
<1>8. NothingDangles' /\ OnlyQuestionsNest'
  <2>1. NothingDangles /\ OnlyQuestionsNest
    BY DEF ContentInv
  <2> HIDE DEF t
  <2> QED
    BY <1>1, <1>2, <1>3, <1>4, <1>6, <2>1 DEF NothingDangles, OnlyQuestionsNest
<1> QED
  BY <1>1, <1>4, <1>5, <1>7, <1>8 DEF ContentInv, ContentTypeOK
-----------------------------------------------------------------------------
(* Departments and accounts.                                               *)

\* A new department disturbs nobody.
LEMMA FoundKeeps ==
  ASSUME ContentInv, Found
  PROVE  ContentInv'
<1>1. /\ founded < MaxDepts /\ founded' = founded + 1 /\ depts' = depts \cup {founded'}
      /\ UNCHANGED << item, kept, added, scope, form, posts >>
  BY DEF Found
<1>2. depts' \subseteq 1..founded' /\ founded' \in 0..MaxDepts
  BY <1>1, TypesOf
<1>3. NothingDangles' /\ OnlyQuestionsNest'
  BY <1>1 DEF ContentInv, NothingDangles, OnlyQuestionsNest
<1>4. \A k \in Forms : Good(k)'
  BY <1>1 DEF ContentInv, Good, Entitled, In
<1> QED
  BY <1>1, <1>2, <1>3, <1>4 DEF ContentInv, ContentTypeOK

\* An account without department gets one: deletions under way learn of it.
LEMMA HireKeeps ==
  ASSUME ContentInv, NEW a \in Staff, NEW d \in Depts, Hire(a, d)
  PROVE  ContentInv'
<1>1. /\ scope[a] = 0 /\ d \in depts /\ scope' = [scope EXCEPT ![a] = d]
      /\ form' = [k \in Forms |-> IF form[k].op = "delete" /\ form[k].id = d
                                  THEN [form[k] EXCEPT !.hired = @ \cup {a}] ELSE form[k]]
      /\ UNCHANGED << depts, founded, item, kept, added, posts >>
  BY DEF Hire
<1>2. /\ scope' \in [Staff -> 0..MaxDepts] /\ scope'[a] = d /\ d # 0
      /\ \A b \in Staff \ {a} : scope'[b] = scope[b]
  BY <1>1, TypesOf DEF Depts
<1>3. ASSUME NEW k \in Forms PROVE form'[k] \in FormType /\ Good(k)'
  <2>1. form[k] \in FormType /\ Good(k)
    BY DEF ContentInv
  <2>2. CASE form[k].op = "delete" /\ form[k].id = d
    <3> DEFINE h == form[k].hired \cup {a}
    <3>1. form'[k] = [form[k] EXCEPT !.hired = h] /\ h \in SUBSET Staff
      BY <1>1, <2>1, <2>2 DEF FormType
    <3>2. form'[k] \in FormType /\ form'[k].hired = h
      <4> HIDE DEF h
      <4> QED
        BY <2>1, <3>1 DEF FormType
    <3>3. /\ form'[k].op = "delete" /\ form'[k].id = d /\ form'[k].loaded = form[k].loaded
          /\ form'[k].came = form[k].came
      BY <2>1, <2>2, <3>1 DEF FormType
    <3>4. In(form[k].id)' = In(d)
      BY <1>1, <3>3 DEF In
    <3>5. \A b \in Staff : scope'[b] = d => b \in h
      BY <1>2, <2>1, <2>2 DEF Good
    <3> QED
      BY <1>1, <2>1, <2>2, <3>2, <3>3, <3>4, <3>5 DEF Good
  <2>3. CASE ~(form[k].op = "delete" /\ form[k].id = d)
    <3>1. form'[k] = form[k]
      BY <1>1, <2>3
    <3>2. Entitled(form[k]) => Entitled(form[k])'
      <4>1. form[k].actor = Super \/ form[k].actor \in Staff
        BY <2>1 DEF FormType
      <4> QED
        BY <1>1, <1>2, <3>1, <4>1 DEF Entitled
    <3>3. In(form[k].id)' = In(form[k].id)
      BY <1>1, <3>1 DEF In
    <3>4. form[k].op = "delete" => \A b \in Staff : scope'[b] = form[k].id => b \in form[k].hired
      BY <1>2, <2>1, <2>3 DEF Good
    <3> QED
      BY <1>1, <2>1, <3>1, <3>2, <3>3, <3>4 DEF Good
  <2> QED
    BY <2>2, <2>3
<1>4. form' \in [Forms -> FormType]
  BY <1>1, <1>3
<1>5. NothingDangles' /\ OnlyQuestionsNest'
  BY <1>1, <1>2 DEF ContentInv, NothingDangles, OnlyQuestionsNest
<1> QED
  BY <1>1, <1>2, <1>3, <1>4, <1>5 DEF ContentInv, ContentTypeOK

\* What the flush reads came to the department since it was found empty.
LEMMA ChildrenLoad ==
  ASSUME ContentInv, NEW j \in Forms, LoadChildren(j)
  PROVE  ContentInv'
<1> DEFINE f == form[j]
<1>1. /\ f.op = "delete" /\ f.kind = "ticket"
      /\ form' = IF \E i \in In(f.id) : item[i].kind \in {"faq", "event"} THEN [form EXCEPT ![j] = NoForm]
                 ELSE [form EXCEPT ![j] = [f EXCEPT !.kind = "event", !.loaded = In(f.id)]]
      /\ UNCHANGED << depts, founded, item, kept, added, scope, posts >>
  BY DEF LoadChildren
<1>2. f \in FormType /\ Good(j) /\ In(f.id) \subseteq 1..added /\ In(f.id) \subseteq Items
  BY TypesOf DEF ContentInv, In
<1>3. ASSUME NEW k \in Forms \ {j} PROVE form'[k] = form[k] /\ Good(k)'
  <2>1. form'[k] = form[k] /\ Good(k)
    BY <1>1, <1>3, TypesOf DEF ContentInv
  <2> QED
    BY <1>1, <2>1 DEF Good, Entitled, In
<1>4. form'[j] \in FormType /\ Good(j)'
  <2>1. CASE \E i \in In(f.id) : item[i].kind \in {"faq", "event"}
    <3>1. form'[j] = NoForm
      BY <1>1, <2>1, TypesOf
    <3> QED
      BY <3>1, NoFormType DEF Good
  <2>2. CASE ~\E i \in In(f.id) : item[i].kind \in {"faq", "event"}
    <3>1. form'[j] = [f EXCEPT !.kind = "event", !.loaded = In(f.id)]
      BY <1>1, <2>2, TypesOf
    <3> HIDE DEF f
    <3>2. /\ form'[j] \in FormType /\ form'[j].loaded = In(f.id)
          /\ form'[j].op = f.op /\ form'[j].id = f.id /\ form'[j].came = f.came /\ form'[j].hired = f.hired
      BY <1>2, <3>1 DEF FormType, Kinds
    <3>3. \A i \in In(f.id) : item[i].kind \in {"ticket", "knowledge"}
      BY <1>2, <2>2, TypesOf DEF Kinds
    <3>4. /\ f.id # 0 /\ In(f.id) \subseteq f.came
          /\ \A a \in Staff : scope[a] = f.id => a \in f.hired
      BY <1>1, <1>2 DEF Good, f
    <3>5. In(form[j].id)' = In(f.id)
      BY <1>1, <3>2 DEF In
    <3> QED
      BY <1>1, <1>2, <3>2, <3>3, <3>4, <3>5 DEF Good
  <2> QED
    BY <2>1, <2>2
<1>5. form' \in [Forms -> FormType]
  <2>1. \A k \in Forms : form'[k] \in FormType
    BY <1>3, <1>4, TypesOf
  <2>2. form \in [Forms -> FormType]
    BY TypesOf
  <2> QED
    BY <1>1, <2>1, <2>2
<1>6. \A k \in Forms : Good(k)'
  BY <1>3, <1>4
<1> QED
  BY <1>1, <1>5, <1>6 DEF ContentInv, ContentTypeOK, NothingDangles, OnlyQuestionsNest

\* What belongs to a department without its deletion having read it; what the deletion
\* touches; and what goes with the department.
Rest(j) == In(form[j].id) \ form[j].loaded
Touched(j) == form[j].loaded \cup Rest(j)
Gone(j) == {i \in Rest(j) : item[i].kind # "ticket"}

\* A deletion cuts loose or takes away what belonged to its department, and nothing else.
LEMMA DeleteEffect ==
  ASSUME ContentInv, NEW j \in Forms, CommitDelete(j), form[j].loaded \subseteq kept
  PROVE  /\ Touched(j) \subseteq kept /\ Gone(j) \subseteq Touched(j) /\ In(form[j].id) \subseteq Touched(j)
         /\ depts' = depts \ {form[j].id} /\ kept' = kept \ Gone(j)
         /\ form' = Settle(j, Touched(j), item')
         /\ UNCHANGED << founded, added, posts >>
         /\ scope' = [a \in Staff |-> IF scope[a] = form[j].id THEN 0 ELSE scope[a]]
         /\ item' \in [Items -> Item]
         /\ \A i \in Items :
              /\ item'[i].kind = item[i].kind
              /\ i \in Touched(j) \ Gone(j) => item'[i].dept = 0 /\ item'[i].parent = item[i].parent
              /\ i \notin Touched(j) => /\ item'[i].dept = item[i].dept
                                 /\ item'[i].parent = IF item[i].parent \in Gone(j) THEN 0 ELSE item[i].parent
<1> DEFINE f == form[j]
           rest == Rest(j)
           ids == Touched(j)
           gone == Gone(j)
<1>1. /\ depts' = depts \ {f.id} /\ kept' = kept \ gone
      /\ item' = [i \in Items |-> IF i \in f.loaded \cup (rest \ gone)
                    THEN [item[i] EXCEPT !.dept = 0] ELSE Orphaned(gone)[i]]
      /\ scope' = [a \in Staff |-> IF scope[a] = f.id THEN 0 ELSE scope[a]]
      /\ form' = Settle(j, ids, item')
      /\ UNCHANGED << founded, added, posts >>
  BY DEF CommitDelete, Rest, Touched, Gone
<1>2. ids \subseteq kept /\ gone \subseteq ids /\ In(f.id) \subseteq ids
  BY DEF In, Rest, Touched, Gone
<1>3. ids \ gone = f.loaded \cup (rest \ gone)
  BY DEF Rest, Touched, Gone
<1>4. ASSUME NEW i \in Items
      PROVE  /\ item'[i] \in Item
             /\ item'[i].kind = item[i].kind
             /\ i \in ids \ gone => item'[i].dept = 0 /\ item'[i].parent = item[i].parent
             /\ i \notin ids => /\ item'[i].dept = item[i].dept
                                /\ item'[i].parent = IF item[i].parent \in gone THEN 0 ELSE item[i].parent
  <2>1. item[i] \in Item /\ 0 \in 0..MaxDepts /\ 0 \in 0..MaxItems
    BY TypesOf
  <2>2. CASE i \in ids \ gone
    <3>1. item'[i] = [item[i] EXCEPT !.dept = 0]
      BY <1>1, <1>3, <2>2
    <3> QED
      BY <2>1, <2>2, <3>1 DEF Item
  <2>3. CASE i \notin ids \ gone
    <3>1. item'[i] = [item[i] EXCEPT !.parent = IF @ \in gone THEN 0 ELSE @]
      BY <1>1, <1>3, <2>3 DEF Orphaned
    <3> QED
      BY <2>1, <2>3, <3>1 DEF Item
  <2> QED
    BY <2>2, <2>3
<1>5. item' \in [Items -> Item]
  BY <1>1, <1>4
<1> QED
  BY <1>1, <1>2, <1>4, <1>5

\* A deletion commits: the flush and the foreign keys leave nothing dangling.
LEMMA DeleteCommits ==
  ASSUME ContentInv, NEW j \in Forms, CommitDelete(j)
  PROVE  ContentInv'
<1> DEFINE f == form[j]
<1>1. CASE ~(f.loaded \subseteq kept)
  <2>1. form' = Settle(j, {}, item') /\ UNCHANGED << depts, founded, item, kept, added, scope, posts >>
    BY <1>1 DEF CommitDelete
  <2>2. form' \in [Forms -> FormType] /\ \A k \in Forms : Good(k)'
    BY <2>1, TypesOf, CommitKeepsGood
  <2> QED
    BY <2>1, <2>2 DEF ContentInv, ContentTypeOK, NothingDangles, OnlyQuestionsNest
<1>2. CASE f.loaded \subseteq kept
  <2> DEFINE ids == Touched(j)
             gone == Gone(j)
  <2>1. /\ ids \subseteq kept /\ In(f.id) \subseteq ids
        /\ depts' = depts \ {f.id} /\ kept' = kept \ gone
        /\ form' = Settle(j, ids, item')
        /\ UNCHANGED << founded, added, posts >>
        /\ scope' = [a \in Staff |-> IF scope[a] = f.id THEN 0 ELSE scope[a]]
        /\ item' \in [Items -> Item]
        /\ \A i \in Items :
             /\ item'[i].kind = item[i].kind
             /\ i \in ids \ gone => item'[i].dept = 0 /\ item'[i].parent = item[i].parent
             /\ i \notin ids => /\ item'[i].dept = item[i].dept
                                /\ item'[i].parent = IF item[i].parent \in gone THEN 0 ELSE item[i].parent
    BY <1>2, DeleteEffect
  <2>2. \A i \in ids : item[i].kind = "faq" => i \in gone
    <3>1. \A i \in f.loaded : item[i].kind # "faq"
      BY DEF CommitDelete, ContentInv, Good
    <3> QED
      BY <3>1 DEF Rest, Touched, Gone
  <2>3. gone \subseteq ids
    BY DEF Touched, Gone
  <2>4. /\ kept \subseteq 1..added /\ 1..added \subseteq Items /\ added \in Nat /\ kept \subseteq Items
        /\ NothingDangles /\ OnlyQuestionsNest /\ depts \subseteq 1..founded
        /\ scope \in [Staff -> 0..MaxDepts] /\ 0 \in 0..MaxDepts
    BY TypesOf DEF ContentInv
  <2> HIDE DEF f, ids, gone
  <2>5. \A i \in kept : i \notin ids => item[i].dept # f.id
    BY <2>1 DEF In
  <2>6. form' \in [Forms -> FormType] /\ \A k \in Forms : Good(k)'
    <3>1. form' = Settle(j, ids, item') /\ ids \in SUBSET Items /\ added' \in Nat /\ added <= added'
      BY <2>1, <2>4
    <3>2. \A i \in 1..added : item'[i].kind = item[i].kind
      BY <2>1, <2>4
    <3>3. \A i \in 1..added : item[i].kind = "faq" /\ i \in kept' => i \in kept /\ item'[i].dept = item[i].dept
      BY <2>1, <2>2, <2>4
    <3>4. \A i \in kept' : i \in 1..added /\ i \notin ids => i \in kept /\ item'[i].dept = item[i].dept
      BY <2>1, <2>4
    <3>5. \A i \in kept' : i \notin 1..added => i \in ids
      BY <2>1, <2>4
    <3>6. \A a \in Staff : \/ scope'[a] = scope[a]
                           \/ scope'[a] = 0 /\ \A i \in kept' : i \notin ids => item'[i].dept # scope[a]
      <4> SUFFICES ASSUME NEW a \in Staff, scope'[a] # scope[a]
                   PROVE  scope'[a] = 0 /\ \A i \in kept' : i \notin ids => item'[i].dept # scope[a]
        OBVIOUS
      <4>1. scope[a] = f.id /\ scope'[a] = 0
        BY <2>1
      <4> QED
        BY <2>1, <2>4, <2>5, <4>1
    <3> QED
      BY <3>1, <3>2, <3>3, <3>4, <3>5, <3>6, CommitKeepsGood
  <2>7. ASSUME NEW i \in kept'
        PROVE  /\ item'[i].dept \in depts' \cup {0}
               /\ item'[i].parent # 0 =>
                    /\ item'[i].parent \in kept' /\ item'[item'[i].parent].dept = item'[i].dept
                    /\ item'[i].kind = "faq" /\ item'[item'[i].parent].kind = "faq"
    <3>1. i \in kept /\ i \notin gone /\ i \in Items
      BY <2>1, <2>4
    <3>2. CASE i \in ids
      <4>1. item'[i].dept = 0 /\ item'[i].parent = item[i].parent
        BY <2>1, <3>1, <3>2
      <4>2. item[i].kind # "faq"
        BY <2>2, <3>1, <3>2
      <4>3. item[i].parent = 0
        BY <2>4, <3>1, <4>2 DEF OnlyQuestionsNest
      <4> QED
        BY <4>1, <4>3
    <3>3. CASE i \notin ids
      <4>1. item'[i].dept = item[i].dept /\ item[i].dept # f.id
        BY <2>1, <2>5, <3>1, <3>3
      <4>2. item'[i].dept \in depts' \cup {0}
        BY <2>1, <2>4, <3>1, <4>1 DEF NothingDangles
      <4>3. ASSUME item'[i].parent # 0
            PROVE  /\ item'[i].parent \in kept' /\ item'[item'[i].parent].dept = item'[i].dept
                   /\ item'[i].kind = "faq" /\ item'[item'[i].parent].kind = "faq"
        <5> DEFINE p == item[i].parent
        <5>1. item'[i].parent = p /\ p # 0 /\ p \notin gone
          BY <2>1, <3>1, <3>3, <4>3
        <5> HIDE DEF p
        <5>2. /\ p \in kept /\ p \in Items /\ item[p].dept = item[i].dept
              /\ item[i].kind = "faq" /\ item[p].kind = "faq"
          BY <2>4, <3>1, <5>1 DEF NothingDangles, OnlyQuestionsNest, p
        <5>3. p \notin ids
          BY <2>2, <5>1, <5>2
        <5>4. item'[p].dept = item[p].dept /\ item'[p].kind = item[p].kind /\ item'[i].kind = item[i].kind
          BY <2>1, <3>1, <5>2, <5>3
        <5> QED
          BY <2>1, <4>1, <5>1, <5>2, <5>4
      <4> QED
        BY <4>2, <4>3
    <3> QED
      BY <3>2, <3>3
  <2>8. \A a \in Staff : scope'[a] \in depts' \cup {0}
    BY <2>1, <2>4 DEF NothingDangles
  <2>9. scope' \in [Staff -> 0..MaxDepts]
    BY <2>1, <2>4
  <2>10. depts' \subseteq 1..founded' /\ kept' \subseteq 1..added'
    BY <2>1, <2>4
  <2>11. founded' \in 0..MaxDepts /\ added' \in 0..MaxItems /\ posts' \in 0..MaxPosts
    BY <2>1, TypesOf
  <2>12. NothingDangles' /\ OnlyQuestionsNest'
    BY <2>7, <2>8 DEF NothingDangles, OnlyQuestionsNest
  <2> QED
    BY <2>1, <2>6, <2>9, <2>10, <2>11, <2>12 DEF ContentInv, ContentTypeOK
<1> QED
  BY <1>1, <1>2

-----------------------------------------------------------------------------
(* Theorems.                                                               *)

\* Every step keeps the invariant.
LEMMA ContentStep == ContentInv /\ [ContentNext]_contentVars => ContentInv'
<1> SUFFICES ASSUME ContentInv, [ContentNext]_contentVars PROVE ContentInv'
  OBVIOUS
<1>1. ASSUME NEW j \in Forms,
             \/ (\E a \in Staff \cup {Super} : Begin(j, a)) \/ BeginAsSuper(j)
             \/ CommitAdd(j) \/ CommitRemove(j) \/ CommitWork(j) \/ CommitAssign(j)
             \/ LoadChildren(j) \/ CommitDelete(j)
      PROVE  ContentInv'
  BY <1>1, BeginsKeep, AddCommits, RemoveCommits, WorkCommits, AssignCommits, ChildrenLoad, DeleteCommits
<1>2. CASE \E d \in 0..MaxDepts : NewTicket(d)
  BY <1>2, TicketCommits
<1>3. CASE CreateDepartment \/ ApiCreateDepartment \/ V1CreateDepartment
  BY <1>3, FoundKeeps DEF CreateDepartment, ApiCreateDepartment, V1CreateDepartment
<1>4. CASE \E a \in Staff, d \in Depts : Hire(a, d)
  BY <1>4, HireKeeps
<1>5. CASE UNCHANGED contentVars
  BY <1>5 DEF contentVars, ContentInv, ContentTypeOK, NothingDangles, OnlyQuestionsNest, Good, Entitled, In
<1> QED
  BY <1>1, <1>2, <1>3, <1>4, <1>5 DEF ContentNext

\* Departments change by being founded or deleted.
LEMMA DepartmentsChange ==
  ASSUME [ContentNext]_contentVars, depts' # depts
  PROVE  Found \/ \E k \in Forms : CommitDelete(k)
<1>1. ASSUME NEW j \in Forms, NEW a \in Staff \cup {Super}, Begin(j, a) PROVE UNCHANGED depts
  <2>1. ASSUME NEW d, NEW parent, AddQuestion(j, a, d, parent) PROVE UNCHANGED depts
    BY <2>1 DEF AddQuestion, BeginAdd, Post
  <2>2. ASSUME NEW d, AddMaterial(j, a, d) \/ AddEvent(j, a, d) PROVE UNCHANGED depts
    BY <2>2 DEF AddMaterial, AddEvent, BeginAdd, Post
  <2>3. ASSUME NEW n, ImportQuestions(j, a, n) \/ ImportMaterials(j, a, n) PROVE UNCHANGED depts
    BY <2>3 DEF ImportQuestions, ImportMaterials, Import, BeginAdd, Post
  <2>4. ASSUME NEW i, RemoveQuestion(j, a, i) \/ RemoveMaterial(j, a, i) \/ RemoveEvent(j, a, i)
                      \/ ReplyTicket(j, a, i) \/ SetTicketStatus(j, a, i)
        PROVE  UNCHANGED depts
    BY <2>4 DEF RemoveQuestion, RemoveMaterial, RemoveEvent, ReplyTicket, SetTicketStatus,
                BeginRemove, BeginWork, Post
  <2> QED
    BY <1>1, <2>1, <2>2, <2>3, <2>4 DEF Begin
<1>2. ASSUME NEW j \in Forms, BeginAsSuper(j) PROVE UNCHANGED depts
  BY <1>2 DEF BeginAsSuper, AssignTicket, DeleteDepartment, ApiDeleteDepartment, V1DeleteDepartment,
              BeginDelete, Post
<1>3. ASSUME NEW j \in Forms,
             CommitAdd(j) \/ CommitRemove(j) \/ CommitWork(j) \/ CommitAssign(j) \/ LoadChildren(j)
      PROVE  UNCHANGED depts
  BY <1>3 DEF CommitAdd, CommitRemove, CommitWork, CommitAssign, LoadChildren
<1>4. ASSUME NEW d, NewTicket(d) \/ \E a \in Staff : Hire(a, d) PROVE UNCHANGED depts
  BY <1>4 DEF NewTicket, Hire
<1>5. CASE UNCHANGED contentVars
  BY <1>5 DEF contentVars
<1> QED
  BY <1>1, <1>2, <1>3, <1>4, <1>5
     DEF ContentNext, CreateDepartment, ApiCreateDepartment, V1CreateDepartment

\* The invariant holds in every state.
THEOREM ContentInvariant == ContentSpec => []ContentInv
  BY ContentStart, ContentStep, PTL DEF ContentSpec

\* What somebody is entitled to is shown to him.
LEMMA EntitledIsShown == ContentInv => WorkIsShown
<1> SUFFICES ASSUME ContentInv, NEW j \in Forms, form[j].op \in {"work", "remove"},
                    form[j].id \in kept, ~form[j].moved
             PROVE  Shown(form[j].actor, form[j].id)
  BY DEF WorkIsShown
<1>1. Entitled(form[j])
  BY DEF ContentInv, Good
<1>2. item[form[j].id].kind \in Kinds
  BY TypesOf
<1> QED
  BY <1>1, <1>2 DEF Entitled, Shown, ShownTicket, ShownMaterial, ShownEvent, ShownQuestion, Kinds

\* For any departments, content and overlapping requests: nothing refers to a department or
\* a question that is gone, and a department administrator works on what is shown to him.
THEOREM ContentIsSound == ContentSpec => []ContentSound
<1>1. ContentInv => ContentSound
  BY EntitledIsShown DEF ContentInv, ContentSound
<1> QED
  BY <1>1, ContentInvariant, PTL

\* For any departments, content and overlapping requests: a deletion that succeeds takes
\* away or cuts loose only what came after the department was found empty.
THEOREM OnlyLatecomers == ContentSpec => OnlyLatecomersAreLost
<1> DEFINE Step ==
      \A j \in Forms :
        form[j].op = "delete" /\ depts' # depts /\ form'[j] = NoForm =>
          /\ \A i \in kept : i \notin kept' \/ item'[i].dept # item[i].dept => i \in form[j].came
          /\ \A a \in Staff : scope'[a] # scope[a] => a \in form[j].hired
<1>1. ContentInv /\ [ContentNext]_contentVars => Step
  <2> SUFFICES ASSUME ContentInv, [ContentNext]_contentVars, NEW j \in Forms,
                      form[j].op = "delete", depts' # depts, form'[j] = NoForm
               PROVE  /\ \A i \in kept : i \notin kept' \/ item'[i].dept # item[i].dept => i \in form[j].came
                      /\ \A a \in Staff : scope'[a] # scope[a] => a \in form[j].hired
    OBVIOUS
  <2>1. form'[j] # form[j]
    BY NoFormType
  <2>2. PICK k \in Forms : CommitDelete(k)
    BY <2>1, DepartmentsChange DEF Found
  <2>3. form[k].loaded \subseteq kept
    BY <2>2 DEF CommitDelete
  <2> DEFINE ids == Touched(k)
             gone == Gone(k)
  <2>4. /\ ids \subseteq kept /\ kept' = kept \ gone /\ gone \subseteq ids
        /\ form' = Settle(k, ids, item')
        /\ scope' = [a \in Staff |-> IF scope[a] = form[k].id THEN 0 ELSE scope[a]]
        /\ \A i \in Items : i \notin ids => item'[i].dept = item[i].dept
    BY <2>2, <2>3, DeleteEffect
  <2>5. k = j
    <3> SUFFICES ASSUME k # j PROVE FALSE
      OBVIOUS
    <3>1. ids \in SUBSET Items /\ form \in [Forms -> FormType]
      BY <2>4, TypesOf
    <3>2. form'[j].op = form[j].op
      BY <2>4, <3>1, SettleType
    <3> QED
      BY <3>2, NoFormType
  <2>6. /\ form[j].loaded \subseteq form[j].came /\ In(form[j].id) \subseteq form[j].came
        /\ \A a \in Staff : scope[a] = form[j].id => a \in form[j].hired
    BY DEF ContentInv, Good
  <2>7. ids \subseteq form[j].came
    BY <2>5, <2>6 DEF Touched, Rest
  <2> HIDE DEF ids, gone
  <2>8. \A i \in kept : i \notin kept' \/ item'[i].dept # item[i].dept => i \in form[j].came
    BY <2>4, <2>7, TypesOf
  <2>9. \A a \in Staff : scope'[a] # scope[a] => a \in form[j].hired
    BY <2>4, <2>5, <2>6
  <2> QED
    BY <2>8, <2>9
<1>2. ContentSpec => [][Step]_contentVars
  BY <1>1, ContentInvariant, PTL DEF ContentSpec
<1> QED
  BY <1>2 DEF OnlyLatecomersAreLost
=============================================================================
