---------------------------- MODULE PanelProofs ----------------------------
(***************************************************************************)
(* Theorems about who may manage the panel (AdminAccounts), about the bot  *)
(* that watches it (Monitor) and about the sessions of a browser           *)
(* (PanelSessions), for any accounts, containers, requests and bounds, and *)
(* about these and the tickets together (MCTickets).                       *)
(***************************************************************************)
EXTENDS TicketsProofs, MCTickets, TLAPS

-----------------------------------------------------------------------------
(***************************************************************************)
(* The accounts.  A request that was checked takes neither its own author  *)
(* nor, as long as the author's row is the one that was checked, an        *)
(* administrator who is the author.                                        *)
(***************************************************************************)
Checked(o) ==
  /\ o.actor # Bootstrap =>
       /\ o.op = "admin" => o.own.person # o.person /\ o.name # o.actor
       /\ o.op = "account" => o.name # o.actor
  /\ o.op \in {"temporary", "permanent"} => o.name \in Names

AccountsInv == AccountsTypeOK /\ \A j \in Slots : Checked(order[j])

OrderType == [op : {"none", "admin", "account", "temporary", "permanent"}, actor : Actors,
              name : Names \cup {NoLink}, person : People \cup {NoLink}, row : Row, own : Row]

\* Rows and orders that the actions write.
LEMMA RowTypes ==
  /\ NoRow \in Row /\ NoOrder \in OrderType /\ NoOrder.op = "none"
  /\ \A p \in People \cup {NoLink}, super \in BOOLEAN : LinkedRow(p, super) \in Row
  /\ \A super \in BOOLEAN, expiry \in {"never", "ahead", "past"} : UnlinkedRow(super, expiry) \in Row
<1>1. NoRow \in Row
  BY DEF NoRow, Row
<1>2. NoOrder \in OrderType /\ NoOrder.op = "none"
  BY <1>1 DEF NoOrder, OrderType, Actors, Bootstrap
<1> QED
  BY <1>1, <1>2 DEF Row, LinkedRow, UnlinkedRow

\* The invariant holds in a new installation and with superadministrators at work.
LEMMA AccountsStart == AccountsInit => AccountsInv
<1> SUFFICES ASSUME AccountsInit PROVE AccountsInv
  OBVIOUS
<1>1. order \in [Slots -> OrderType] /\ \A j \in Slots : Checked(order[j])
  BY RowTypes DEF AccountsInit, Checked
<1>2. reserve \in BOOLEAN /\ orders \in 0..MaxOrders
  <2>1. reserve \in BOOLEAN
    BY DEF AccountsInit
  <2>2. orders = 0
    BY DEF AccountsInit
  <2> QED
    BY <2>1, <2>2, AccountsAssumption
<1>3. admin \in [People -> Roles \cup {"none"}] /\ account \in [Names -> Row] /\ existing \subseteq Names
  <2>1. CASE /\ admin = [p \in People |-> "none"] /\ existing = {}
             /\ account = [n \in Names |-> NoRow]
    BY <2>1, RowTypes DEF Roles
  <2>2. ASSUME NEW holder \in [Names -> People \cup {NoLink}],
               admin = [p \in People |-> "superadmin"], existing = {n \in Names : holder[n] # NoLink},
               account = [n \in Names |-> IF holder[n] # NoLink THEN LinkedRow(holder[n], TRUE) ELSE NoRow]
        PROVE admin \in [People -> Roles \cup {"none"}] /\ account \in [Names -> Row] /\ existing \subseteq Names
    <3>1. \A n \in Names : (IF holder[n] # NoLink THEN LinkedRow(holder[n], TRUE) ELSE NoRow) \in Row
      BY RowTypes
    <3>2. account \in [Names -> Row]
      BY <2>2, <3>1
    <3> QED
      BY <2>2, <3>2 DEF Roles
  <2> QED
    BY <2>1, <2>2 DEF AccountsInit
<1> QED
  BY <1>1, <1>2, <1>3 DEF AccountsInv, AccountsTypeOK, OrderType

\* A request that was checked is put down as it is.
LEMMA PlaceKeeps ==
  ASSUME AccountsInv, NEW j \in Slots, NEW op \in {"admin", "account", "temporary", "permanent"},
         NEW a \in Actors, NEW n \in Names \cup {NoLink}, NEW p \in People \cup {NoLink}, NEW row \in Row,
         Place(j, op, a, n, p, row),
         a # Bootstrap /\ op = "admin" => account[a].person # p /\ n # a,
         a # Bootstrap /\ op = "account" => n # a,
         op \in {"temporary", "permanent"} => n \in Names
  PROVE  AccountsInv'
<1> DEFINE o == [op |-> op, actor |-> a, name |-> n, person |-> p, row |-> row,
                 own |-> IF a = Bootstrap THEN NoRow ELSE account[a]]
<1>1. /\ order' = [order EXCEPT ![j] = o] /\ orders < MaxOrders /\ orders' = orders + 1
      /\ UNCHANGED << admin, account, existing, reserve >>
  BY DEF Place
<1>2. (IF a = Bootstrap THEN NoRow ELSE account[a]) \in Row
  BY RowTypes DEF AccountsInv, AccountsTypeOK, Actors
<1>3. o \in OrderType /\ Checked(o)
  BY <1>2 DEF OrderType, Checked
<1>4. order' \in [Slots -> OrderType] /\ \A k \in Slots : Checked(order'[k])
  BY <1>1, <1>3 DEF AccountsInv, AccountsTypeOK, OrderType
<1>5. orders' \in 0..MaxOrders
  BY <1>1, AccountsAssumption DEF AccountsInv, AccountsTypeOK
<1> HIDE DEF o
<1> QED
  BY <1>1, <1>4, <1>5 DEF AccountsInv, AccountsTypeOK, OrderType

\* The checks of every request give what its place needs.
LEMMA ChecksKeep ==
  ASSUME AccountsInv, NEW j \in Slots, NEW a \in Actors,
         \/ \E p \in People : BeginDeleteAdmin(j, a, p)
         \/ \E n \in Names : BeginDeleteAccount(j, a, n)
         \/ \E n \in Names, super \in BOOLEAN, expiry \in {"never", "ahead"} : BeginTemporary(j, a, n, super, expiry)
         \/ \E n \in Names, p \in People, super \in BOOLEAN : BeginPermanent(j, a, n, p, super)
  PROVE  AccountsInv' /\ UNCHANGED << admin, account, existing >>
<1>1. ASSUME NEW p \in People, BeginDeleteAdmin(j, a, p)
      PROVE AccountsInv' /\ UNCHANGED << admin, account, existing >>
  <2>1. a # Bootstrap => account[a].person # p
    BY <1>1 DEF BeginDeleteAdmin, NotOneself
  <2>2. CASE Place(j, "admin", a, NoLink, p, NoRow)
    <3>1. a # Bootstrap => NoLink # a
      BY DEF Bootstrap
    <3>2. AccountsInv'
      BY <2>1, <2>2, <3>1, PlaceKeeps, RowTypes
    <3> QED
      BY <2>2, <3>2 DEF Place
  <2>3. ASSUME NEW n \in LinkedTo(p), Place(j, "admin", a, n, p, NoRow)
        PROVE AccountsInv' /\ UNCHANGED << admin, account, existing >>
    <3>1. n \in Names /\ account[n].person = p
      BY <2>3 DEF LinkedTo, AccountsInv, AccountsTypeOK
    <3>2. a # Bootstrap => n # a
      BY <2>1, <3>1
    <3>3. AccountsInv'
      BY <2>1, <2>3, <3>1, <3>2, PlaceKeeps, RowTypes
    <3> QED
      BY <2>3, <3>3 DEF Place
  <2> QED
    BY <1>1, <2>2, <2>3 DEF BeginDeleteAdmin
<1>2. ASSUME NEW n \in Names, BeginDeleteAccount(j, a, n)
      PROVE AccountsInv' /\ UNCHANGED << admin, account, existing >>
  <2>1. a # n /\ Place(j, "account", a, n, NoLink, NoRow)
    BY <1>2 DEF BeginDeleteAccount
  <2>2. AccountsInv'
    BY <2>1, PlaceKeeps, RowTypes
  <2> QED
    BY <2>1, <2>2 DEF Place
<1>3. ASSUME NEW n \in Names, NEW super \in BOOLEAN, NEW expiry \in {"never", "ahead"},
             BeginTemporary(j, a, n, super, expiry)
      PROVE AccountsInv' /\ UNCHANGED << admin, account, existing >>
  <2>1. Place(j, "temporary", a, n, NoLink, UnlinkedRow(super, expiry))
    BY <1>3 DEF BeginTemporary
  <2> QED
    BY <2>1, PlaceKeeps, RowTypes, ZenonT(30) DEF Place
<1>4. ASSUME NEW n \in Names, NEW p \in People, NEW super \in BOOLEAN, BeginPermanent(j, a, n, p, super)
      PROVE AccountsInv' /\ UNCHANGED << admin, account, existing >>
  <2>1. Place(j, "permanent", a, n, p, LinkedRow(p, super))
    BY <1>4 DEF BeginPermanent
  <2> QED
    BY <2>1, PlaceKeeps, RowTypes DEF Place
<1> QED
  BY <1>1, <1>2, <1>3, <1>4

\* Saving and dropping of accounts keeps the types.
LEMMA SaveAndDrop ==
  ASSUME AccountsInv
  PROVE  /\ \A n \in Names, row \in Row :
              SaveAccount(n, row) => account' \in [Names -> Row] /\ existing' \subseteq Names
         /\ \A S : DropAccounts(S) => account' \in [Names -> Row] /\ existing' \subseteq Names
<1>1. account \in [Names -> Row] /\ existing \subseteq Names
  BY DEF AccountsInv, AccountsTypeOK
<1>2. NoRow \in Row
  BY RowTypes
<1> QED
  BY <1>1, <1>2 DEF SaveAccount, DropAccounts

\* A request that ends, with whatever it writes.
LEMMA FinishKeeps ==
  ASSUME AccountsInv, NEW j \in Slots, Finish(j),
         admin' \in [People -> Roles \cup {"none"}], account' \in [Names -> Row], existing' \subseteq Names
  PROVE  AccountsInv'
<1>1. order' = [order EXCEPT ![j] = NoOrder] /\ UNCHANGED << reserve, orders >>
  BY DEF Finish
<1>2. order' \in [Slots -> OrderType] /\ \A k \in Slots : Checked(order'[k])
  BY <1>1, RowTypes DEF AccountsInv, AccountsTypeOK, OrderType, Checked
<1> QED
  BY <1>1, <1>2 DEF AccountsInv, AccountsTypeOK, OrderType

\* What a request of a manager does to its author's row: nothing.
SparedBy(j) ==
  order[j].actor \in Managers /\ account[order[j].actor] = order[j].own =>
    order[j].actor \in existing' /\ account'[order[j].actor] = account[order[j].actor]

\* The deletion of an administrator keeps the invariant and spares its author.
LEMMA AdminDeletion ==
  ASSUME AccountsInv, NEW j \in Slots, CommitDeleteAdmin(j)
  PROVE  AccountsInv' /\ SparedBy(j)
<1> DEFINE p == order[j].person
           a == order[j].actor
           gone == {order[j].name} \cap existing
           rest == LinkedTo(p) \ gone
<1>1. /\ order[j].op = "admin" /\ Finish(j) /\ admin' = [admin EXCEPT ![p] = "none"]
      /\ \/ DropAccounts(gone \cup rest)
         \/ \E n \in rest :
              /\ existing' = (existing \ (gone \cup rest)) \cup {n}
              /\ account' = [m \in Names |-> IF m = n THEN [account[m] EXCEPT !.person = NoLink]
                                             ELSE IF m \in gone \cup rest THEN NoRow ELSE account[m]]
  BY DEF CommitDeleteAdmin
<1>2. /\ admin \in [People -> Roles \cup {"none"}] /\ account \in [Names -> Row] /\ existing \subseteq Names
      /\ gone \cup rest \subseteq Names
  BY DEF AccountsInv, AccountsTypeOK, LinkedTo
<1>3. admin' \in [People -> Roles \cup {"none"}]
  BY <1>1, <1>2
<1>4. ASSUME a \in Managers, account[a] = order[j].own
      PROVE  a \in existing /\ a \in Names /\ a \notin gone \cup rest
  <2>1. a \in existing /\ a \in Names /\ a # Bootstrap
    BY <1>2, <1>4, AccountsAssumption DEF Managers, Bootstrap
  <2>2. order[j].own.person # p /\ order[j].name # a
    BY <1>1, <2>1 DEF AccountsInv, Checked
  <2> QED
    BY <1>4, <2>1, <2>2 DEF LinkedTo
<1>5. CASE DropAccounts(gone \cup rest)
  <2>1. account' \in [Names -> Row] /\ existing' \subseteq Names
    BY <1>5, SaveAndDrop
  <2>2. SparedBy(j)
    BY <1>4, <1>5 DEF SparedBy, DropAccounts
  <2> QED
    BY <1>1, <1>3, <2>1, <2>2, FinishKeeps
<1>6. ASSUME NEW n \in rest,
             existing' = (existing \ (gone \cup rest)) \cup {n},
             account' = [m \in Names |-> IF m = n THEN [account[m] EXCEPT !.person = NoLink]
                                         ELSE IF m \in gone \cup rest THEN NoRow ELSE account[m]]
      PROVE AccountsInv' /\ SparedBy(j)
  <2>1. n \in Names /\ [account[n] EXCEPT !.person = NoLink] \in Row
    BY <1>2 DEF Row
  <2>2. account' \in [Names -> Row]
    BY <1>2, <1>6, <2>1, RowTypes
  <2>3. existing' \subseteq Names
    BY <1>2, <1>6, <2>1
  <2>4. SparedBy(j)
    BY <1>4, <1>6 DEF SparedBy
  <2> QED
    BY <1>1, <1>3, <2>2, <2>3, <2>4, FinishKeeps
<1> QED
  BY <1>1, <1>5, <1>6

\* So do the other requests.
LEMMA OtherCommits ==
  ASSUME AccountsInv, NEW j \in Slots,
         CommitDeleteAccount(j) \/ CommitTemporary(j) \/ CommitPermanent(j)
  PROVE  AccountsInv' /\ SparedBy(j)
<1>1. /\ admin \in [People -> Roles \cup {"none"}] /\ account \in [Names -> Row] /\ existing \subseteq Names
      /\ order[j] \in OrderType
  BY DEF AccountsInv, AccountsTypeOK, OrderType
<1>2. CASE CommitDeleteAccount(j)
  <2>1. /\ order[j].op = "account" /\ Finish(j) /\ DropAccounts({order[j].name}) /\ UNCHANGED admin
    BY <1>2 DEF CommitDeleteAccount
  <2>2. ASSUME order[j].actor \in Managers
        PROVE  order[j].actor \in existing \ {order[j].name} /\ order[j].actor \in Names
    BY <1>1, <2>1, <2>2, AccountsAssumption DEF AccountsInv, Checked, Managers, Bootstrap
  <2>3. SparedBy(j)
    BY <2>1, <2>2 DEF SparedBy, DropAccounts
  <2> QED
    BY <1>1, <2>1, <2>3, SaveAndDrop, FinishKeeps
<1>3. ASSUME Finish(j), order[j].op \in {"temporary", "permanent"}, order[j].name \notin existing,
             SaveAccount(order[j].name, order[j].row), admin' \in [People -> Roles \cup {"none"}]
      PROVE  AccountsInv' /\ SparedBy(j)
  <2>1. order[j].row \in Row /\ order[j].name \in Names
    BY <1>1, <1>3 DEF OrderType, AccountsInv, Checked
  <2>2. SparedBy(j)
    BY <1>1, <1>3 DEF SparedBy, SaveAccount, Managers
  <2> QED
    BY <1>3, <2>1, <2>2, SaveAndDrop, FinishKeeps
<1>4. ASSUME Finish(j), UNCHANGED << admin, account, existing >>
      PROVE  AccountsInv' /\ SparedBy(j)
  <2>1. SparedBy(j)
    BY <1>4 DEF SparedBy, Managers
  <2> QED
    BY <1>1, <1>4, <2>1, FinishKeeps
<1>5. CASE CommitTemporary(j)
  BY <1>1, <1>3, <1>4, <1>5 DEF CommitTemporary
<1>6. CASE CommitPermanent(j)
  <2>1. [admin EXCEPT ![order[j].person] = IF order[j].row.super THEN "superadmin" ELSE "admin"]
          \in [People -> Roles \cup {"none"}]
    BY <1>1 DEF Roles
  <2> QED
    BY <1>3, <1>4, <1>6, <2>1 DEF CommitPermanent
<1> QED
  BY <1>2, <1>5, <1>6

\* Time, the cleanup, the reserve session and the scripts.
Outside ==
  \/ \E n \in Names : PassExpiry(n)
  \/ Cleanup
  \/ ReserveLogin
  \/ ReserveLogout
  \/ \E n \in Names, p \in People \cup {NoLink}, super, disable \in BOOLEAN : CreateOrUpdate(n, p, super, disable)
  \/ \E p \in People : InitSuperadmin(p)
  \/ \E n \in Names, super \in BOOLEAN : FixAccess(n, super)
  \/ \E p \in People : FixLinks(p)

\* They write rows of the right type, and no request.
LEMMA OutsideKeeps ==
  ASSUME AccountsInv, Outside
  PROVE  AccountsInv' /\ UNCHANGED order
<1>1. /\ admin \in [People -> Roles \cup {"none"}] /\ account \in [Names -> Row] /\ existing \subseteq Names
      /\ order \in [Slots -> OrderType] /\ \A j \in Slots : Checked(order[j])
      /\ reserve \in BOOLEAN /\ orders \in 0..MaxOrders
  BY DEF AccountsInv, AccountsTypeOK, OrderType
<1>2. ASSUME UNCHANGED order, reserve' \in BOOLEAN, orders' \in 0..MaxOrders,
             admin' \in [People -> Roles \cup {"none"}], account' \in [Names -> Row], existing' \subseteq Names
      PROVE  AccountsInv' /\ UNCHANGED order
  BY <1>1, <1>2 DEF AccountsInv, AccountsTypeOK, OrderType
<1>3. Script => orders' \in 0..MaxOrders /\ UNCHANGED << reserve, order >>
  BY <1>1, AccountsAssumption DEF Script
<1>4. ASSUME NEW n \in Names, PassExpiry(n) PROVE AccountsInv' /\ UNCHANGED order
  <2>1. account' \in [Names -> Row]
    BY <1>1, <1>4 DEF PassExpiry, Row
  <2> QED
    BY <1>1, <1>2, <1>4, <2>1 DEF PassExpiry
<1>5. CASE Cleanup
  BY <1>1, <1>2, <1>5, SaveAndDrop DEF Cleanup
<1>6. CASE ReserveLogin \/ ReserveLogout
  BY <1>1, <1>2, <1>6 DEF ReserveLogin, ReserveLogout
<1>7. ASSUME NEW n \in Names, NEW p \in People \cup {NoLink}, NEW super \in BOOLEAN, NEW disable \in BOOLEAN,
             CreateOrUpdate(n, p, super, disable)
      PROVE AccountsInv' /\ UNCHANGED order
  <2> DEFINE person == IF p = NoLink THEN account[n].person ELSE p
             updated == [account[n] EXCEPT !.super = super, !.person = person, !.active = @ /\ ~disable]
             created == [UnlinkedRow(super, "never") EXCEPT !.person = p, !.active = ~disable]
  <2>1. updated \in Row /\ created \in Row
    BY <1>1 DEF Row, UnlinkedRow
  <2>2. Script /\ (SaveAccount(n, updated) \/ SaveAccount(n, created))
    BY <1>7 DEF CreateOrUpdate
  <2>3. account' \in [Names -> Row] /\ existing' \subseteq Names
    <3> HIDE DEF updated, created
    <3> QED
      BY <2>1, <2>2, SaveAndDrop
  <2>4. admin' \in [People -> Roles \cup {"none"}]
    BY <1>1, <1>7 DEF CreateOrUpdate, Roles
  <2> QED
    BY <1>1, <1>2, <1>3, <2>2, <2>3, <2>4
<1>8. ASSUME NEW p \in People, InitSuperadmin(p) PROVE AccountsInv' /\ UNCHANGED order
  <2>1. admin' \in [People -> Roles \cup {"none"}]
    BY <1>1, <1>8 DEF InitSuperadmin, Roles
  <2> QED
    BY <1>1, <1>2, <1>3, <1>8, <2>1 DEF InitSuperadmin
<1>9. ASSUME NEW n \in Names, NEW super \in BOOLEAN, FixAccess(n, super) PROVE AccountsInv' /\ UNCHANGED order
  <2>1. [account[n] EXCEPT !.super = super, !.active = TRUE] \in Row
    BY <1>1 DEF Row
  <2>2. UnlinkedRow(super, "never") \in Row
    BY RowTypes
  <2>3. account' \in [Names -> Row] /\ existing' \subseteq Names
    BY <1>9, <2>1, <2>2, SaveAndDrop DEF FixAccess
  <2> QED
    BY <1>1, <1>2, <1>3, <1>9, <2>3 DEF FixAccess
<1>10. ASSUME NEW p \in People, FixLinks(p) PROVE AccountsInv' /\ UNCHANGED order
  <2>1. \A n \in Names : account[n] \in Row /\ [account[n] EXCEPT !.person = p] \in Row
    BY <1>1 DEF Row
  <2>2. account' \in [Names -> Row]
    BY <1>10, <2>1 DEF FixLinks
  <2> QED
    BY <1>1, <1>2, <1>3, <1>10, <2>2 DEF FixLinks
<1> QED
  BY <1>4, <1>5, <1>6, <1>7, <1>8, <1>9, <1>10 DEF Outside

\* A step keeps the invariant; a request that ends in it spares its author.
LEMMA AccountsStep ==
  ASSUME AccountsInv, AccountsNext
  PROVE  AccountsInv' /\ \A j \in Slots : order'[j] # order[j] => SparedBy(j)
<1>1. ASSUME NEW j \in Slots, AccountsInv', SparedBy(j), Finish(j)
      PROVE  \A i \in Slots : order'[i] # order[i] => SparedBy(i)
  BY <1>1 DEF Finish, AccountsInv, AccountsTypeOK
<1>2. ASSUME UNCHANGED << admin, account, existing >>
      PROVE  \A i \in Slots : SparedBy(i)
  BY <1>2 DEF SparedBy, Managers
<1>3. ASSUME NEW j \in Slots, NEW a \in Actors,
             \/ \E p \in People : BeginDeleteAdmin(j, a, p)
             \/ \E n \in Names : BeginDeleteAccount(j, a, n)
             \/ \E n \in Names, super \in BOOLEAN, expiry \in {"never", "ahead"} :
                  BeginTemporary(j, a, n, super, expiry)
             \/ \E n \in Names, p \in People, super \in BOOLEAN : BeginPermanent(j, a, n, p, super)
      PROVE  AccountsInv' /\ \A i \in Slots : order'[i] # order[i] => SparedBy(i)
  BY <1>2, <1>3, ChecksKeep
<1>4. ASSUME NEW j \in Slots, CommitDeleteAdmin(j)
      PROVE  AccountsInv' /\ \A i \in Slots : order'[i] # order[i] => SparedBy(i)
  <2>1. Finish(j)
    BY <1>4 DEF CommitDeleteAdmin
  <2> QED
    BY <1>1, <1>4, <2>1, AdminDeletion
<1>5. ASSUME NEW j \in Slots, CommitDeleteAccount(j) \/ CommitTemporary(j) \/ CommitPermanent(j)
      PROVE  AccountsInv' /\ \A i \in Slots : order'[i] # order[i] => SparedBy(i)
  <2>1. Finish(j)
    BY <1>5 DEF CommitDeleteAccount, CommitTemporary, CommitPermanent
  <2> QED
    BY <1>1, <1>5, <2>1, OtherCommits
<1>6. CASE Outside
  BY <1>6, OutsideKeeps
<1> QED
  BY <1>3, <1>4, <1>5, <1>6 DEF AccountsNext, Outside

\* A stuttering step keeps the invariant.
LEMMA AccountsStutter == AccountsInv /\ UNCHANGED accountVars => AccountsInv'
BY DEF AccountsInv, AccountsTypeOK, accountVars

\* The types of the accounts hold, among them that requests under way name whom they were checked for.
THEOREM AccountsTypes == AccountsSpec => []AccountsTypeOK
<1>1. AccountsInv /\ [AccountsNext]_accountVars => AccountsInv'
  BY AccountsStep, AccountsStutter
<1>2. AccountsInv => AccountsTypeOK
  BY DEF AccountsInv
<1> QED
  BY <1>1, <1>2, AccountsStart, PTL DEF AccountsSpec

\* The panel keeps someone who can manage it: a request whose author is still the manager who
\* was checked does not take away the last one (web/routes/admin_panel.py, delete_admin,
\* delete_web_user).
THEOREM SomeManagerRemains == AccountsSpec => ManagersRemain
<1>1. AccountsInv /\ [AccountsNext]_accountVars => AccountsInv'
  BY AccountsStep, AccountsStutter
<1>2. ASSUME NEW j \in Slots, AccountsInv, SparedBy(j),
             order[j].actor \in Managers, account[order[j].actor] = order[j].own
      PROVE  Managers' # {}
  <2>1. order[j].actor \in Managers'
    BY <1>2 DEF SparedBy, Managers, Temporary
  <2> QED
    BY <2>1
<1>3. AccountsInv /\ [AccountsNext]_accountVars =>
        [\A j \in Slots :
           Managers # {} /\ Managers' = {} /\ order'[j] # order[j] =>
             \/ order[j].actor \notin Managers
             \/ account[order[j].actor] # order[j].own]_accountVars
  BY <1>2, AccountsStep
<1> QED
  BY <1>1, <1>3, AccountsStart, PTL DEF AccountsSpec, ManagersRemain

-----------------------------------------------------------------------------
(***************************************************************************)
(* The monitoring bot.  News of a container that the bot has never known   *)
(* was never told; rotation spares the copy it follows.                    *)
(***************************************************************************)
\* A container the bot knows nothing of, and has not forgotten, was never in the news.
NothingToldYet ==
  \A c \in Containers : known[c] = "none" /\ ~excused[c] => told[c] = "nothing"

MonitorInv == MonitorTypeOK /\ AdministratorKnows /\ NothingToldYet /\ CopyRemains

USE DEF Hours, States, Copiers, NoCopy

\* The invariant holds at the start.
LEMMA InitMonitor == MonitorInit => MonitorInv
<1> SUFFICES ASSUME MonitorInit PROVE MonitorInv
  OBVIOUS
<1> USE MonitorAssumption DEF MonitorInit
<1>1. /\ planned \in 0..(MaxHours + BackupEvery + 1)
      /\ hour \in Hours /\ events \in 0..MaxEvents
      /\ dump \in [Copiers -> 0..(MaxHours + 1)]
  OBVIOUS
<1>2. copy \in [Hours -> [made : Hours, state : {"none", "partial", "complete"}]]
  OBVIOUS
<1>3. /\ container \in [Containers -> States] /\ seen \in [Containers -> States]
      /\ known \in [Containers -> {"none", "good", "bad"}]
      /\ told \in [Containers -> {"nothing", "failed", "recovered"}]
      /\ excused \in [Containers -> BOOLEAN]
  OBVIOUS
<1>4. MonitorTypeOK
  BY <1>1, <1>2, <1>3 DEF MonitorTypeOK
<1> QED
  BY <1>4 DEF MonitorInv, AdministratorKnows, NothingToldYet, CopyRemains

\* What is remembered and told of one container by a step of a round.
LEMMA CheckKeepsNews ==
  ASSUME MonitorInv, NEW c \in Containers, CheckContainer(c)
  PROVE  /\ known' \in [Containers -> {"none", "good", "bad"}]
         /\ told' \in [Containers -> {"nothing", "failed", "recovered"}]
         /\ excused' \in [Containers -> BOOLEAN]
         /\ events' \in 0..MaxEvents
         /\ AdministratorKnows' /\ NothingToldYet'
<1> USE MonitorAssumption DEF MonitorInv, MonitorTypeOK, Believe, Silent, AdministratorKnows, NothingToldYet
<1>1. ASSUME NEW state \in {"good", "bad"}, Believe(c, state), NEW news \in {"failed", "recovered"},
             Alert(c, news), state = "bad" <=> news = "failed"
      PROVE  /\ known' \in [Containers -> {"none", "good", "bad"}]
             /\ told' \in [Containers -> {"nothing", "failed", "recovered"}]
             /\ excused' \in [Containers -> BOOLEAN]
             /\ events' \in 0..MaxEvents
             /\ AdministratorKnows' /\ NothingToldYet'
  <2>1. known' = [known EXCEPT ![c] = state]
    BY <1>1
  <2>2. CASE told' = [told EXCEPT ![c] = news] /\ excused' = [excused EXCEPT ![c] = FALSE] /\ UNCHANGED events
    <3>1. known' \in [Containers -> {"none", "good", "bad"}]
      BY <2>1
    <3>2. told' \in [Containers -> {"nothing", "failed", "recovered"}] /\ excused' \in [Containers -> BOOLEAN]
      BY <2>2
    <3>3. \A d \in Containers \ {c} : known'[d] = known[d] /\ told'[d] = told[d] /\ excused'[d] = excused[d]
      BY <2>1, <2>2
    <3>4. known'[c] = state /\ told'[c] = news
      BY <2>1, <2>2
    <3> QED
      BY <3>1, <3>2, <3>3, <3>4, <2>2, <1>1
  <2>3. CASE Event /\ excused' = [excused EXCEPT ![c] = TRUE] /\ UNCHANGED told
    <3>1. known' \in [Containers -> {"none", "good", "bad"}] /\ excused' \in [Containers -> BOOLEAN]
      BY <2>1, <2>3
    <3>2. \A d \in Containers \ {c} : known'[d] = known[d] /\ excused'[d] = excused[d]
      BY <2>1, <2>3
    <3>3. excused'[c]
      BY <2>3
    <3>4. events' \in 0..MaxEvents
      BY <2>3 DEF Event
    <3> QED
      BY <3>1, <3>2, <3>3, <3>4, <2>3
  <2> QED
    BY <2>2, <2>3, <1>1 DEF Alert
<1>3. CASE known[c] = "none" /\ Believe(c, "good") /\ Silent
  BY <1>3
<1>4. CASE Silent /\ UNCHANGED known
  BY <1>4
<1> QED
  BY <1>1, <1>3, <1>4 DEF CheckContainer, Failed, Recovered

\* A round leaves the copies alone.
LEMMA RoundKeeps ==
  ASSUME MonitorInv,
         \/ BeginRound \/ BeginRoundBlind \/ EndContainers \/ \E c \in Containers : CheckContainer(c)
  PROVE  MonitorInv'
<1> USE MonitorAssumption DEF MonitorInv, MonitorTypeOK, AdministratorKnows, NothingToldYet, CopyRemains, SameCopies
<1>1. CASE BeginRound
  BY <1>1 DEF BeginRound, Present
<1>2. CASE BeginRoundBlind
  BY <1>2, SMTT(30) DEF BeginRoundBlind, Event
<1>3. CASE EndContainers
  BY <1>3 DEF EndContainers
<1>4. ASSUME NEW c \in Containers, CheckContainer(c)
      PROVE  MonitorInv'
  <2>1. /\ known' \in [Containers -> {"none", "good", "bad"}]
        /\ told' \in [Containers -> {"nothing", "failed", "recovered"}]
        /\ excused' \in [Containers -> BOOLEAN]
        /\ events' \in 0..MaxEvents
        /\ AdministratorKnows' /\ NothingToldYet'
    BY <1>4, CheckKeepsNews
  <2>2. left' \subseteq Containers /\ UNCHANGED << container, seen, round, restart, hour, planned, dump, copy, saved, spoilt >>
    BY <1>4 DEF CheckContainer
  <2> QED
    BY <2>1, <2>2
<1> QED
  BY <1>1, <1>2, <1>3, <1>4

\* Planning, and beginning a copy, changes no file.
LEMMA PlanningKeeps ==
  ASSUME MonitorInv, PlanFirst \/ NotYet \/ BeginScheduled \/ BeginManual
  PROVE  MonitorInv'
<1> USE MonitorAssumption DEF MonitorInv, MonitorTypeOK, AdministratorKnows, NothingToldYet, CopyRemains, Rests
<1>1. CASE PlanFirst
  BY <1>1, SMTT(30) DEF PlanFirst
<1>2. CASE NotYet
  BY <1>2 DEF NotYet
<1>3. CASE BeginScheduled
  <2>1. planned' \in 0..(MaxHours + BackupEvery + 1) /\ dump' \in [Copiers -> 0..(MaxHours + 1)]
    BY <1>3 DEF BeginScheduled
  <2>2. round' = "copying" /\ Rests
    BY <1>3 DEF BeginScheduled
  <2> QED
    BY <2>1, <2>2
<1>4. CASE BeginManual
  <2>1. events' \in 0..MaxEvents /\ dump' \in [Copiers -> 0..(MaxHours + 1)]
    BY <1>4 DEF BeginManual, Event
  <2>2. UNCHANGED << container, known, left, seen, planned, round, restart, copy, hour, told, excused, saved, spoilt >>
    BY <1>4 DEF BeginManual
  <2> QED
    BY <2>1, <2>2
<1> QED
  BY <1>1, <1>2, <1>3, <1>4

\* Rotation keeps what is as young as the clock.
LEMMA RotationKeepsNew ==
  ASSUME NEW files \in [Hours -> [made : Hours, state : {"none", "partial", "complete"}]], hour \in Hours,
         NEW name \in Hours, files[name].made = hour
  PROVE  /\ Rotated(files) \in [Hours -> [made : Hours, state : {"none", "partial", "complete"}]]
         /\ Rotated(files)[name] = files[name]
  BY MonitorAssumption, SMTT(30) DEF Rotated

\* Making and rotating copies keeps the invariant.
LEMMA CopyingKeeps ==
  ASSUME MonitorInv, NEW k \in Copiers, CopyMade(k) \/ CopyFails(k)
  PROVE  MonitorInv'
<1> USE MonitorAssumption DEF MonitorInv, MonitorTypeOK
<1> DEFINE File == [made : Hours, state : {"none", "partial", "complete"}]
<1>0. EndCopy(k)
  BY DEF CopyMade, CopyFails
<1>1. dump[k] \in Hours /\ UNCHANGED << container, known, left, seen, planned, restart, hour, told, excused >>
  BY <1>0 DEF EndCopy
<1>2. /\ dump' \in [Copiers -> 0..(MaxHours + 1)]
      /\ round' \in {"rest", "containers", "backup", "copying"}
  <2>1. dump' = [dump EXCEPT ![k] = MaxHours + 1] /\ round' \in {"rest", round}
    BY <1>0 DEF EndCopy
  <2>2. MaxHours + 1 \in 0..(MaxHours + 1)
    OBVIOUS
  <2> QED
    BY <2>1, <2>2
<1>3. AdministratorKnows' /\ NothingToldYet'
  BY <1>1 DEF AdministratorKnows, NothingToldYet
<1>4. CASE CopyMade(k)
  <2> DEFINE files == [copy EXCEPT ![dump[k]] = [made |-> hour, state |-> "complete"]]
  <2>1. files \in [Hours -> File] /\ files[dump[k]] = [made |-> hour, state |-> "complete"]
    BY <1>1
  <2>2. copy' = Rotated(files)
    BY <1>4 DEF CopyMade
  <2>3. copy' \in [Hours -> File] /\ copy'[dump[k]] = files[dump[k]]
    BY <2>1, <2>2, <1>1, RotationKeepsNew
  <2>4. CopyRemains'
    BY <2>1, <2>3, <1>1 DEF CopyRemains
  <2> QED
    BY <1>1, <1>2, <1>3, <1>4, <2>3, <2>4 DEF CopyMade
<1>5. CASE CopyFails(k)
  <2>1. copy' \in [Hours -> File]
    <3>1. [copy EXCEPT ![dump[k]] = [made |-> hour, state |-> "partial"]] \in [Hours -> File]
      BY <1>1
    <3> QED
      BY <3>1, <1>5 DEF CopyFails
  <2>2. ASSUME saved, ~spoilt', NEW h \in Hours, copy[h].state = "complete"
        PROVE  copy'[h].state = "complete"
    <3>1. CASE copy' = copy
      BY <3>1, <2>2
    <3>2. CASE copy' = [copy EXCEPT ![dump[k]] = [made |-> hour, state |-> "partial"]]
      <4>1. copy'[dump[k]].state = "partial"
        BY <3>2, <1>1
      <4>2. h # dump[k]
        BY <4>1, <2>2, <1>5 DEF CopyFails
      <4> QED
        BY <3>2, <4>2, <2>2
    <3> QED
      BY <3>1, <3>2, <1>5 DEF CopyFails
  <2>3. saved' = saved /\ spoilt' \in BOOLEAN /\ (spoilt => spoilt') /\ events' \in 0..MaxEvents
    BY <1>5 DEF CopyFails, Event
  <2>4. CopyRemains'
    BY <2>2, <2>3 DEF CopyRemains
  <2> QED
    BY <1>1, <1>2, <1>3, <2>1, <2>3, <2>4
<1> QED
  BY <1>4, <1>5

\* Restarts, of the bot and of the others, forget and change nothing that was told.
LEMMA RestartingKeeps ==
  ASSUME MonitorInv,
         \/ Crash
         \/ \E c \in Containers : RestartSingle(c) \/ RestartNext(c)
         \/ \E spared \in {Migration, Own} : RestartAll(spared)
  PROVE  MonitorInv'
<1> USE MonitorAssumption DEF MonitorInv, MonitorTypeOK, AdministratorKnows, NothingToldYet, CopyRemains
<1>1. ASSUME BotRestarts(TRUE), events' \in 0..MaxEvents PROVE MonitorInv'
  <2>1. /\ known' = [c \in Containers |-> "none"] /\ left' = {} /\ planned' = 0 /\ round' = "rest"
        /\ restart' = {} /\ dump' = [k \in Copiers |-> MaxHours + 1]
        /\ excused' = [c \in Containers |-> TRUE]
        /\ UNCHANGED << seen, copy, hour, told, saved, spoilt >>
    BY <1>1 DEF BotRestarts
  <2>2. container' \in [Containers -> States]
    BY <1>1 DEF BotRestarts
  <2>3. planned' \in 0..(MaxHours + BackupEvery + 1) /\ dump' \in [Copiers -> 0..(MaxHours + 1)]
    BY <2>1
  <2> QED
    BY <1>1, <2>1, <2>2, <2>3
<1>2. CASE Crash
  <2>1. BotRestarts(TRUE) /\ Event
    BY <1>2 DEF Crash
  <2>2. events' \in 0..MaxEvents
    BY <2>1 DEF Event
  <2> QED
    BY <2>1, <2>2, <1>1
<1>3. ASSUME NEW c \in Containers, RestartSingle(c) PROVE MonitorInv'
  <2>1. events' \in 0..MaxEvents
    BY <1>3 DEF RestartSingle, Event
  <2>2. CASE c = Own
    BY <2>1, <2>2, <1>1, <1>3 DEF RestartSingle
  <2>3. CASE c # Own
    <3>1. container' \in [Containers -> States]
      BY <2>3, <1>3 DEF RestartSingle
    <3>2. UNCHANGED << known, left, seen, planned, round, restart, dump, copy, hour, told, excused, saved, spoilt >>
      BY <2>3, <1>3 DEF RestartSingle
    <3> QED
      BY <2>1, <3>1, <3>2
  <2> QED
    BY <2>2, <2>3
<1>4. ASSUME NEW c \in Containers, RestartNext(c) PROVE MonitorInv'
  <2>1. events' \in 0..MaxEvents
    BY <1>4 DEF RestartNext
  <2>2. CASE c = Own
    BY <2>1, <2>2, <1>1, <1>4 DEF RestartNext
  <2>3. CASE c # Own
    <3>1. restart' \subseteq Containers
      BY <2>3, <1>4 DEF RestartNext
    <3>3. PICK state \in {"good", "bad", container[c]} : container' = [container EXCEPT ![c] = state]
      BY <2>3, <1>4 DEF RestartNext
    <3>4. container' \in [Containers -> States]
      BY <3>3
    <3>2. UNCHANGED << known, left, seen, planned, round, dump, copy, hour, told, excused, saved, spoilt, events >>
      BY <2>3, <1>4 DEF RestartNext
    <3> QED
      BY <2>1, <3>1, <3>2, <3>4
  <2> QED
    BY <2>2, <2>3
<1>5. ASSUME NEW spared \in {Migration, Own}, RestartAll(spared) PROVE MonitorInv'
  BY <1>5, SMTT(30) DEF RestartAll, Event, Present
<1> QED
  BY <1>2, <1>3, <1>4, <1>5

\* The remaining steps keep the invariant.
LEMMA OthersKeep ==
  ASSUME MonitorInv, HourPasses \/ \E c \in Containers, state \in States : Changes(c, state)
  PROVE  MonitorInv'
<1> USE MonitorAssumption DEF MonitorInv, MonitorTypeOK, AdministratorKnows, NothingToldYet, CopyRemains
<1>1. CASE HourPasses
  BY <1>1, SMTT(30) DEF HourPasses
<1>2. ASSUME NEW c \in Containers, NEW state \in States, Changes(c, state) PROVE MonitorInv'
  <2>1. container' \in [Containers -> States] /\ events' \in 0..MaxEvents
    BY <1>2 DEF Changes, Event
  <2>2. UNCHANGED << known, left, seen, planned, round, restart, dump, copy, hour, told, excused, saved, spoilt >>
    BY <1>2 DEF Changes
  <2> QED
    BY <2>1, <2>2
<1> QED
  <2>1. CASE HourPasses
    BY <2>1, <1>1
  <2>2. CASE \E c \in Containers, state \in States : Changes(c, state)
    <3>1. PICK c \in Containers, state \in States : Changes(c, state)
      BY <2>2
    <3> QED
      BY ONLY <3>1, <1>2
  <2> QED
    BY ONLY <2>1, <2>2, HourPasses \/ \E c \in Containers, state \in States : Changes(c, state)

\* What the bot tells, and the copies it keeps: the administrator's last news is what the bot
\* believes, and a complete copy remains (bots/telegram/monitor_service.py,
\* bots/telegram/handlers/backup.py).
THEOREM MonitorIsSound == MonitorSpec => []MonitorSound
<1>1. MonitorInv /\ [MonitorNext]_monitorVars => MonitorInv'
  <2> SUFFICES ASSUME MonitorInv, [MonitorNext]_monitorVars PROVE MonitorInv'
    OBVIOUS
  <2>1. CASE MonitorNext
    BY <2>1, RoundKeeps, PlanningKeeps, CopyingKeeps, RestartingKeeps, OthersKeep DEF MonitorNext
  <2>2. CASE UNCHANGED monitorVars
    BY <2>2 DEF monitorVars, MonitorInv, MonitorTypeOK, AdministratorKnows, NothingToldYet, CopyRemains
  <2> QED
    BY <2>1, <2>2
<1>2. MonitorInv => MonitorSound
  BY DEF MonitorInv, MonitorSound
<1> QED
  BY <1>1, <1>2, InitMonitor, PTL DEF MonitorSpec

-----------------------------------------------------------------------------
(***************************************************************************)
(* The sessions.  Whoever answers last without having overwritten anything *)
(* leaves a session that was made from the present one.                    *)
(***************************************************************************)
Requests ==
  [at : {"none", "handling"}, op : Operations, account : Accounts \cup {Telegram, NoUser},
   given : Codes, id : 0..MaxIds, redis : BOOLEAN, loaded : Sessions, stale : BOOLEAN,
   had : {"none", "id", "data"}]

\* Types, ids and codes that were given out, and what a request loaded
SessionsShape ==
  /\ SessionsTypeOK
  /\ tab \in [Tabs -> Requests]
  /\ overwrote \in BOOLEAN /\ loggedOut \in BOOLEAN
  /\ cookie.kind = "id" => cookie.id > 0
  /\ \A i \in 1..MaxIds : store[i].code <= codes
  /\ cookie.data.code <= codes
  /\ \A t \in Tabs : tab[t].at # "none" =>
       tab[t].loaded.code <= codes /\ (tab[t].loaded.live => tab[t].had # "none")

\* What the cookie denotes when Redis answers
KeptSession ==
  IF cookie.kind = "id" THEN store[cookie.id]
  ELSE IF cookie.kind = "data" THEN cookie.data ELSE Empty

\* No user after a logout, no code but the last
Fresh(s, out, last) == (out => s.user = NoUser) /\ s.code \in {0, last}

\* What is kept, and what the requests hold that nobody has overtaken, is fresh.
AllFresh ==
  ~overwrote =>
    /\ Fresh(KeptSession, loggedOut, codes)
    /\ \A t \in Tabs : tab[t].at # "none" /\ ~tab[t].stale => Fresh(tab[t].loaded, loggedOut, codes)

\* Sessions as they are made
LEMMA SessionTypes ==
  /\ Empty \in Sessions /\ Blank \in Sessions /\ NoAttempt \in Attempts
  /\ \A s \in Sessions :
       /\ s.code \in Codes /\ s.copy \in Attempts /\ s.live \in BOOLEAN
       /\ Message(s) \in Sessions /\ WithoutAttempt(s) \in Sessions
       /\ \A u \in Accounts \cup {Telegram} : SignedIn(s, u) \in Sessions
       /\ \A c \in Codes, a \in Attempts : WithAttempt(s, c, a) \in Sessions
<1>1. NoAttempt \in Attempts
  BY SessionsAssumption DEF NoAttempt, Attempts
<1>2. Empty \in Sessions
  BY <1>1, SessionsAssumption DEF Empty, Sessions, Codes
<1>3. Blank \in Sessions
  BY <1>2 DEF Blank, Sessions
<1>4. ASSUME NEW s \in Sessions
      PROVE  /\ s.code \in Codes /\ s.copy \in Attempts /\ s.live \in BOOLEAN
             /\ Message(s) \in Sessions /\ WithoutAttempt(s) \in Sessions
             /\ \A u \in Accounts \cup {Telegram} : SignedIn(s, u) \in Sessions
             /\ \A c \in Codes, a \in Attempts : WithAttempt(s, c, a) \in Sessions
  <2>1. s.code \in Codes /\ s.copy \in Attempts /\ s.live \in BOOLEAN
    BY DEF Sessions
  <2>2. Message(s) \in Sessions
    BY DEF Sessions, Message
  <2>3. 0 \in Codes
    BY SessionsAssumption DEF Codes
  <2>4. WithoutAttempt(s) \in Sessions
    BY <1>1, <2>3 DEF Sessions, WithoutAttempt
  <2>5. \A u \in Accounts \cup {Telegram} : SignedIn(s, u) \in Sessions
    BY DEF Sessions, SignedIn
  <2>6. \A c \in Codes, a \in Attempts : WithAttempt(s, c, a) \in Sessions
    BY DEF Sessions, WithAttempt
  <2> QED
    BY <2>1, <2>2, <2>4, <2>5, <2>6
<1> QED
  BY <1>1, <1>2, <1>3, <1>4

\* The four ways to answer
LEMMA AnswerWays ==
  ASSUME SessionsShape, NEW t \in Tabs, NEW s \in Sessions, NEW renewed \in BOOLEAN,
         Answer(t, s, renewed)
  PROVE  \/ /\ IF s.live THEN ~Changed(tab[t], s, renewed) ELSE tab[t].had = "none"
            /\ Done(t, FALSE) /\ UNCHANGED << store, cookie, ids, overwrote >>
         \/ /\ Done(t, TRUE) /\ overwrote' = (overwrote \/ tab[t].stale)
            /\ \/ /\ cookie' = [kind |-> "none", id |-> 0, data |-> Empty] /\ UNCHANGED ids
                  /\ store' \in [1..MaxIds -> Sessions]
                  /\ \A i \in 1..MaxIds : store'[i] \in {store[i], Empty}
               \/ /\ cookie' = [kind |-> "data", id |-> 0, data |-> s] /\ UNCHANGED << store, ids >>
               \/ \E id \in 1..MaxIds :
                    /\ cookie' = [kind |-> "id", id |-> id, data |-> Empty]
                    /\ store' = [store EXCEPT ![id] = s] /\ ids' \in 0..MaxIds
<1>t. /\ tab[t] \in Requests /\ tab[t].id \in 0..MaxIds /\ ids \in 0..MaxIds
      /\ store \in [1..MaxIds -> Sessions] /\ MaxIds \in Nat
  BY SessionsAssumption DEF SessionsShape, SessionsTypeOK, Requests
<1> DEFINE r == tab[t]
           answers == redis /\ r.redis
           new == answers /\ r.id = 0
           id == IF new THEN ids + 1 ELSE r.id
           dropped == IF answers /\ r.id # 0 THEN [store EXCEPT ![r.id] = Empty] ELSE store
<1>1. \/ /\ IF s.live THEN ~Changed(r, s, renewed) ELSE r.had = "none"
         /\ Done(t, FALSE) /\ UNCHANGED << store, cookie, ids, overwrote >>
      \/ /\ ~s.live /\ r.had # "none" /\ Done(t, TRUE) /\ overwrote' = (overwrote \/ r.stale)
         /\ store' = dropped
         /\ cookie' = [kind |-> "none", id |-> 0, data |-> Empty]
         /\ UNCHANGED ids
      \/ /\ s.live /\ Changed(r, s, renewed) /\ answers
         /\ Done(t, TRUE) /\ overwrote' = (overwrote \/ r.stale)
         /\ id <= MaxIds
         /\ store' = [store EXCEPT ![id] = s]
         /\ cookie' = [kind |-> "id", id |-> id, data |-> Empty]
         /\ ids' = IF new THEN id ELSE ids
      \/ /\ s.live /\ Changed(r, s, renewed) /\ ~answers
         /\ Done(t, TRUE) /\ overwrote' = (overwrote \/ r.stale)
         /\ cookie' = [kind |-> "data", id |-> 0, data |-> s]
         /\ UNCHANGED << store, ids >>
  BY Zenon DEF Answer
<1>2. dropped \in [1..MaxIds -> Sessions] /\ \A i \in 1..MaxIds : dropped[i] \in {store[i], Empty}
  BY <1>t, SessionTypes
<1>3. ASSUME answers, id <= MaxIds
      PROVE  id \in 1..MaxIds /\ (IF new THEN id ELSE ids) \in 0..MaxIds
  BY <1>t, <1>3
<1> HIDE DEF r, answers, new, id, dropped
<1>4. r = tab[t]
  BY DEF r
<1> QED
  BY <1>1, <1>2, <1>3, <1>4, Zenon

\* The requests that are left
LEMMA DoneLeaves ==
  ASSUME SessionsShape, NEW t \in Tabs, NEW writes \in BOOLEAN, Done(t, writes)
  PROVE  /\ tab' \in [Tabs -> Requests]
         /\ \A x \in Tabs : tab'[x].at # "none" =>
              /\ x # t /\ tab[x].at # "none"
              /\ tab'[x].loaded = tab[x].loaded /\ tab'[x].had = tab[x].had
              /\ ~tab'[x].stale => ~tab[x].stale /\ ~writes
<1>1. NoRequest \in Requests /\ NoRequest.at = "none"
  BY SessionTypes, SessionsAssumption DEF NoRequest, Requests, Operations, Codes
<1>2. ASSUME NEW x \in Tabs PROVE tab[x] \in Requests
  BY DEF SessionsShape
<1>3. ASSUME NEW x \in Tabs, x # t
      PROVE  /\ tab'[x] = [tab[x] EXCEPT !.stale = tab[x].stale \/ (writes /\ tab[x].at # "none")]
  BY <1>3 DEF Done
<1>4. tab'[t] = NoRequest
  BY DEF Done
<1>5. ASSUME NEW x \in Tabs, x # t
      PROVE  /\ tab'[x] \in Requests
             /\ tab'[x].at = tab[x].at /\ tab'[x].loaded = tab[x].loaded /\ tab'[x].had = tab[x].had
             /\ tab'[x].stale = (tab[x].stale \/ (writes /\ tab[x].at # "none"))
  <2>1. (tab[x].stale \/ (writes /\ tab[x].at # "none")) \in BOOLEAN
    BY <1>2, Zenon DEF Requests
  <2> QED
    BY <1>2, <1>3, <1>5, <2>1, ZenonT(30) DEF Requests
<1>6. tab' = [x \in Tabs |-> tab'[x]]
  BY DEF Done
<1>7. tab' \in [Tabs -> Requests]
  BY <1>1, <1>4, <1>5, <1>6
<1> QED
  BY <1>1, <1>4, <1>5, <1>7

\* The counters and the attempts only grow.
Grown ==
  /\ attempt' \in [1..MaxCodes -> Attempts]
  /\ codes' \in Codes /\ codes <= codes'
  /\ loggedOut' \in BOOLEAN

\* An answer keeps the types.
LEMMA AnswerShapes ==
  ASSUME SessionsShape, NEW t \in Tabs, NEW s \in Sessions, NEW renewed \in BOOLEAN,
         Answer(t, s, renewed), Grown, s.code <= codes'
  PROVE  SessionsShape'
<1>1. /\ redis' \in BOOLEAN /\ active' \subseteq Accounts
      /\ requests' \in 0..MaxRequests /\ losses' \in 0..MaxLosses
  BY Zenon DEF Answer, SessionsShape, SessionsTypeOK
<1>2. codes \in Nat /\ codes' \in Nat /\ \A q \in Sessions : q.code \in Nat
  BY SessionsAssumption, SessionTypes DEF Codes, Grown, SessionsShape, SessionsTypeOK
<1>3. /\ tab' \in [Tabs -> Requests]
      /\ \A x \in Tabs : tab'[x].at # "none" =>
           tab'[x].loaded.code <= codes' /\ (tab'[x].loaded.live => tab'[x].had # "none")
  <2>1. PICK w \in BOOLEAN : Done(t, w)
    BY AnswerWays
  <2>2. \A x \in Tabs : tab[x].at # "none" => tab[x].loaded \in Sessions /\ tab[x].loaded.code <= codes
    BY DEF SessionsShape, Requests
  <2> QED
    BY <1>2, <2>1, <2>2, DoneLeaves DEF SessionsShape, Grown
<1>4. /\ store' \in [1..MaxIds -> Sessions] /\ ids' \in 0..MaxIds
      /\ overwrote' \in BOOLEAN
      /\ cookie' \in [kind : {"none", "id", "data"}, id : 0..MaxIds, data : Sessions]
      /\ cookie'.kind = "id" => cookie'.id > 0
      /\ \A i \in 1..MaxIds : store'[i].code <= codes'
      /\ cookie'.data.code <= codes'
  <2> DEFINE Good == /\ store' \in [1..MaxIds -> Sessions] /\ ids' \in 0..MaxIds
                     /\ cookie' \in [kind : {"none", "id", "data"}, id : 0..MaxIds, data : Sessions]
                     /\ cookie'.kind = "id" => cookie'.id > 0
                     /\ \A i \in 1..MaxIds : store'[i].code <= codes'
                     /\ cookie'.data.code <= codes'
  <2>1. overwrote' \in BOOLEAN
    <3>1. overwrote' \in {overwrote, overwrote \/ tab[t].stale}
      BY AnswerWays
    <3> QED
      BY <3>1, Zenon DEF SessionsShape
  <2>2. /\ \A i \in 1..MaxIds : store[i] \in Sessions /\ store[i].code <= codes'
        /\ cookie.data \in Sessions /\ cookie.data.code <= codes'
    BY <1>2 DEF SessionsShape, SessionsTypeOK, Grown
  <2>3. Empty.code = 0 /\ Empty \in Sessions /\ 0 \in 0..MaxIds
    BY SessionTypes, SessionsAssumption DEF Empty
  <2>4. ASSUME UNCHANGED << store, cookie, ids >> PROVE Good
    BY <2>2, <2>4 DEF SessionsShape, SessionsTypeOK
  <2>5. ASSUME cookie' = [kind |-> "none", id |-> 0, data |-> Empty], UNCHANGED ids,
               store' \in [1..MaxIds -> Sessions],
               \A i \in 1..MaxIds : store'[i] \in {store[i], Empty}
        PROVE  Good
    <3>1. \A i \in 1..MaxIds : store'[i].code <= codes'
      BY <1>2, <2>2, <2>3, <2>5
    <3> QED
      BY <1>2, <2>3, <2>5, <3>1 DEF SessionsShape, SessionsTypeOK
  <2>6. ASSUME cookie' = [kind |-> "data", id |-> 0, data |-> s], UNCHANGED << store, ids >> PROVE Good
    BY <2>2, <2>3, <2>6 DEF SessionsShape, SessionsTypeOK
  <2>7. ASSUME NEW id \in 1..MaxIds, cookie' = [kind |-> "id", id |-> id, data |-> Empty],
               store' = [store EXCEPT ![id] = s], ids' \in 0..MaxIds
        PROVE  Good
    <3>1. store' \in [1..MaxIds -> Sessions] /\ \A i \in 1..MaxIds : store'[i] \in {store[i], s}
      BY <2>7 DEF SessionsShape, SessionsTypeOK
    <3>2. \A i \in 1..MaxIds : store'[i].code <= codes'
      BY <2>2, <3>1
    <3>3. id \in 0..MaxIds /\ id > 0
      BY SessionsAssumption
    <3> QED
      BY <1>2, <2>3, <2>7, <3>1, <3>2, <3>3
  <2> HIDE DEF Good
  <2>8. Good
    BY <2>4, <2>5, <2>6, <2>7, AnswerWays
  <2> QED
    BY <2>1, <2>8 DEF Good
<1> QED
  BY <1>1, <1>3, <1>4 DEF SessionsShape, SessionsTypeOK, Grown, Requests

\* An answer leaves a fresh session, if what it writes is fresh and it writes
\* whenever a code was drawn or the user logged out.
LEMMA AnswerFreshens ==
  ASSUME SessionsShape, AllFresh, NEW t \in Tabs, NEW s \in Sessions, NEW renewed \in BOOLEAN,
         Answer(t, s, renewed), Grown,
         ~overwrote /\ ~tab[t].stale => Fresh(s, loggedOut', codes'),
         \/ codes' = codes /\ (loggedOut' => loggedOut)
         \/ IF s.live THEN Changed(tab[t], s, renewed) ELSE tab[t].had # "none"
  PROVE  AllFresh'
<1>1. CASE /\ IF s.live THEN ~Changed(tab[t], s, renewed) ELSE tab[t].had = "none"
           /\ Done(t, FALSE) /\ UNCHANGED << store, cookie, ids, overwrote >>
  <2>1. codes' = codes /\ (loggedOut' => loggedOut)
    BY <1>1
  <2>2. KeptSession' = KeptSession
    BY <1>1 DEF KeptSession
  <2>3. ASSUME NEW x \in Tabs, tab'[x].at # "none", ~tab'[x].stale
        PROVE  tab[x].at # "none" /\ ~tab[x].stale /\ tab'[x].loaded = tab[x].loaded
    BY <1>1, <2>3, DoneLeaves
  <2>4. ASSUME NEW q, Fresh(q, loggedOut, codes) PROVE Fresh(q, loggedOut', codes')
    BY <2>1, <2>4 DEF Fresh
  <2> QED
    BY <1>1, <2>2, <2>3, <2>4 DEF AllFresh
<1>2. CASE /\ Done(t, TRUE) /\ overwrote' = (overwrote \/ tab[t].stale)
           /\ KeptSession' \in {s, Empty}
  <2>1. Fresh(Empty, loggedOut', codes')
    BY DEF Fresh, Empty
  <2>2. \A x \in Tabs : tab'[x].at # "none" => tab'[x].stale
    BY <1>2, DoneLeaves
  <2>3. ~overwrote' => Fresh(KeptSession', loggedOut', codes')
    BY <1>2, <2>1
  <2> QED
    BY <2>2, <2>3 DEF AllFresh
<1>3. \/ /\ IF s.live THEN ~Changed(tab[t], s, renewed) ELSE tab[t].had = "none"
         /\ Done(t, FALSE) /\ UNCHANGED << store, cookie, ids, overwrote >>
      \/ /\ Done(t, TRUE) /\ overwrote' = (overwrote \/ tab[t].stale)
         /\ KeptSession' \in {s, Empty}
  <2>1. ASSUME NEW id \in 1..MaxIds, cookie' = [kind |-> "id", id |-> id, data |-> Empty],
               store' = [store EXCEPT ![id] = s]
        PROVE  KeptSession' = s
    BY <2>1 DEF KeptSession, SessionsShape, SessionsTypeOK
  <2>2. ASSUME cookie' = [kind |-> "none", id |-> 0, data |-> Empty] PROVE KeptSession' = Empty
    BY <2>2 DEF KeptSession
  <2>3. ASSUME cookie' = [kind |-> "data", id |-> 0, data |-> s] PROVE KeptSession' = s
    BY <2>3 DEF KeptSession
  <2> QED
    BY <2>1, <2>2, <2>3, AnswerWays
<1> QED
  BY <1>1, <1>2, <1>3

\* What a request that is handled loaded
LEMMA Loaded ==
  ASSUME SessionsShape, AllFresh, NEW t \in Tabs, tab[t].at = "handling"
  PROVE  /\ tab[t] \in Requests /\ Before(t) = tab[t].loaded /\ Before(t) \in Sessions
         /\ Before(t).code \in Codes /\ Before(t).code <= codes
         /\ Before(t).live => tab[t].had # "none"
         /\ ~overwrote /\ ~tab[t].stale => Fresh(Before(t), loggedOut, codes)
  BY SessionTypes DEF SessionsShape, AllFresh, Before, Requests

\* Answers that neither draw a code nor log out: what was neither begun nor ended is as
\* it was loaded.
LEMMA QuietAnswer ==
  ASSUME SessionsShape, AllFresh, NEW t \in Tabs, tab[t].at = "handling",
         NEW s \in Sessions, NEW renewed \in BOOLEAN, Answer(t, s, renewed),
         attempt' \in [1..MaxCodes -> Attempts], UNCHANGED codes,
         UNCHANGED loggedOut \/ loggedOut' = FALSE,
         s.code \in {0, Before(t).code}, loggedOut' => s.user \in {NoUser, Before(t).user}
  PROVE  SessionsShape' /\ AllFresh'
<1>1. Grown /\ (loggedOut' => loggedOut)
  <2>1. loggedOut' \in BOOLEAN /\ (loggedOut' => loggedOut)
    <3>1. loggedOut \in BOOLEAN
      BY DEF SessionsShape
    <3>2. CASE loggedOut' = FALSE
      BY <3>2, Zenon
    <3>3. CASE loggedOut' = loggedOut
      BY <3>1, <3>3
    <3> QED
      BY <3>2, <3>3
  <2>2. codes' \in Codes /\ codes <= codes'
    BY SessionsAssumption DEF SessionsShape, SessionsTypeOK, Codes
  <2> QED
    BY <2>1, <2>2 DEF Grown
<1>2. s.code <= codes'
  BY Loaded, SessionsAssumption DEF SessionsShape, SessionsTypeOK, Codes
<1>3. ASSUME ~overwrote, ~tab[t].stale PROVE Fresh(s, loggedOut', codes')
  BY <1>1, <1>3, Loaded DEF Fresh
<1>4. SessionsShape'
  BY <1>1, <1>2, AnswerShapes
<1>5. AllFresh'
  BY <1>1, <1>3, AnswerFreshens
<1> QED
  BY <1>4, <1>5

\* Answers that draw a code
LEMMA CodeAnswer ==
  ASSUME SessionsShape, AllFresh, NEW t \in Tabs, tab[t].at = "handling",
         NEW s \in Sessions, NEW renewed \in BOOLEAN, Answer(t, s, renewed),
         attempt' \in [1..MaxCodes -> Attempts], codes < MaxCodes, codes' = codes + 1,
         UNCHANGED loggedOut, s.live, s.code = codes', s.user = Before(t).user
  PROVE  SessionsShape' /\ AllFresh'
<1>1. codes' \in Codes /\ codes <= codes' /\ codes \in Nat
  BY SessionsAssumption DEF SessionsShape, SessionsTypeOK, Codes
<1>2. loggedOut' \in BOOLEAN
  BY Zenon DEF SessionsShape
<1>3. Grown
  BY <1>1, <1>2 DEF Grown
<1>4. s # tab[t].loaded
  BY <1>1, Loaded DEF Codes
<1>5. Changed(tab[t], s, renewed)
  BY <1>4 DEF Changed
<1>6. ASSUME ~overwrote, ~tab[t].stale PROVE Fresh(s, loggedOut', codes')
  BY <1>6, Loaded DEF Fresh
<1>7. SessionsShape'
  BY <1>1, <1>3, AnswerShapes DEF Codes
<1>8. AllFresh'
  BY <1>3, <1>5, <1>6, AnswerFreshens
<1> QED
  BY <1>7, <1>8

\* Answers to a logout
LEMMA LogoutAnswer ==
  ASSUME SessionsShape, AllFresh, NEW t \in Tabs, tab[t].at = "handling",
         NEW s \in {Blank, Empty}, NEW renewed \in BOOLEAN, Answer(t, s, renewed),
         attempt' \in [1..MaxCodes -> Attempts], UNCHANGED codes, loggedOut' = TRUE,
         Before(t).live, s.live => renewed
  PROVE  SessionsShape' /\ AllFresh'
<1>1. codes' \in Codes /\ codes <= codes' /\ codes \in Nat
  BY SessionsAssumption DEF SessionsShape, SessionsTypeOK, Codes
<1>2. Grown
  BY <1>1 DEF Grown
<1>3. s \in Sessions /\ s.code = 0 /\ s.user = NoUser
  <2>1. CASE s = Blank
    BY <2>1, SessionTypes DEF Blank, Empty
  <2>2. CASE s = Empty
    BY <2>2, SessionTypes DEF Empty
  <2> QED
    BY <2>1, <2>2
<1>4. IF s.live THEN Changed(tab[t], s, renewed) ELSE tab[t].had # "none"
  BY <1>3, Loaded DEF Changed
<1>5. Fresh(s, loggedOut', codes')
  BY <1>3 DEF Fresh
<1>6. SessionsShape'
  BY <1>1, <1>2, <1>3, AnswerShapes DEF Codes
<1>7. AllFresh'
  BY <1>2, <1>3, <1>4, <1>5, AnswerFreshens
<1> QED
  BY <1>6, <1>7

\* The attempt that a session refers to
LEMMA PendingTypes ==
  ASSUME SessionsShape, NEW s \in Sessions
  PROVE  /\ Pending(s) \in Attempts
         /\ HasPending(s) => s.code \in 1..MaxCodes
         /\ NoAttempt \in Attempts
<1>1. s.code \in Codes /\ s.copy \in Attempts /\ NoAttempt \in Attempts
  BY SessionTypes
<1>2. s.code # 0 => s.code \in 1..MaxCodes
  BY <1>1, SessionsAssumption DEF Codes
<1>3. Pending(s) \in Attempts
  BY <1>1, <1>2 DEF Pending, SessionsShape, SessionsTypeOK
<1> QED
  BY <1>1, <1>2, <1>3 DEF HasPending

\* What the store of attempts may become
LEMMA AttemptTypes ==
  ASSUME SessionsShape
  PROVE  /\ attempt \in [1..MaxCodes -> Attempts]
         /\ \A c \in 1..MaxCodes, a \in Attempts : Keep(c, a) => attempt' \in [1..MaxCodes -> Attempts]
         /\ \A s \in Sessions : Destroy(s) => attempt' \in [1..MaxCodes -> Attempts]
         /\ NoCode => attempt' \in [1..MaxCodes -> Attempts] /\ UNCHANGED codes
<1>1. attempt \in [1..MaxCodes -> Attempts]
  BY DEF SessionsShape, SessionsTypeOK
<1> QED
  BY <1>1, SessionTypes DEF Keep, Destroy, NoCode

\* What the changes of a session leave alone
LEMMA SessionFields ==
  ASSUME NEW s \in Sessions
  PROVE  /\ Message(s).live /\ Message(s).code = s.code /\ Message(s).user = s.user
         /\ WithoutAttempt(s).code = 0 /\ WithoutAttempt(s).user = s.user
         /\ \A u : SignedIn(s, u).code = s.code
         /\ \A c, a : /\ WithAttempt(s, c, a).live
                      /\ WithAttempt(s, c, a).code = c /\ WithAttempt(s, c, a).user = s.user
  BY DEF Sessions, Message, WithoutAttempt, SignedIn, WithAttempt

\* Answers that show the session, with a message or without the attempt
LEMMA PageKeeps ==
  ASSUME SessionsShape, AllFresh, NEW t \in Tabs, Page(t)
  PROVE  SessionsShape' /\ AllFresh'
<1> DEFINE s == Before(t)
           shown == CASE s.user = NoUser -> [s EXCEPT !.live = TRUE, !.flash = FALSE]
                      [] s.user # NoUser /\ HasPending(s) -> s
                      [] s.user # NoUser /\ ~HasPending(s) /\ s.user \notin active \cup {Telegram} -> Empty
                      [] OTHER -> [s EXCEPT !.checked = TRUE, !.flash = FALSE]
<1>1. tab[t].at = "handling" /\ Answer(t, shown, FALSE) /\ UNCHANGED loggedOut
      /\ attempt' \in [1..MaxCodes -> Attempts] /\ UNCHANGED codes
  BY AttemptTypes DEF Page, Handling
<1>2. s \in Sessions
  BY <1>1, Loaded
<1>3. /\ shown \in Sessions /\ shown.code \in {0, s.code} /\ shown.user \in {NoUser, s.user}
  <2>1. CASE s.user = NoUser
    BY <1>2, <2>1 DEF Sessions
  <2>2. CASE s.user # NoUser /\ HasPending(s)
    BY <1>2, <2>2
  <2>3. CASE s.user # NoUser /\ ~HasPending(s) /\ s.user \notin active \cup {Telegram}
    <3>1. shown = Empty
      BY <2>3
    <3> QED
      BY <3>1, SessionTypes DEF Empty
  <2>4. CASE s.user # NoUser /\ ~HasPending(s) /\ s.user \in active \cup {Telegram}
    <3>1. shown = [s EXCEPT !.checked = TRUE, !.flash = FALSE]
      BY <2>4
    <3> QED
      BY <1>2, <3>1 DEF Sessions
  <2> QED
    BY <2>1, <2>2, <2>3, <2>4
<1> HIDE DEF shown
<1> QED
  BY <1>1, <1>3, QuietAnswer

\* A login signs in or draws a code.
LEMMA LoginKeeps ==
  ASSUME SessionsShape, AllFresh, NEW t \in Tabs, Login(t)
  PROVE  SessionsShape' /\ AllFresh'
<1> DEFINE s == Before(t)
           who == tab[t].account
<1>1. tab[t].at = "handling" /\ who \in active /\ who \in Accounts
  BY DEF Login, Handling, SessionsShape, SessionsTypeOK
<1>2. s \in Sessions
  BY <1>1, Loaded
<1>3. CASE /\ codes < MaxCodes /\ codes' = codes + 1 /\ UNCHANGED loggedOut
           /\ LET a == [NoAttempt EXCEPT !.account = who] IN
                Keep(codes', a) /\ Answer(t, WithAttempt(s, codes', a), FALSE)
  <2> DEFINE a == [NoAttempt EXCEPT !.account = who]
  <2>1. a \in Attempts
    BY <1>1, SessionTypes DEF Attempts
  <2>2. codes' \in 1..MaxCodes /\ codes' \in Codes
    BY <1>3, SessionsAssumption DEF SessionsShape, SessionsTypeOK, Codes
  <2>3. Keep(codes', a) /\ Answer(t, WithAttempt(s, codes', a), FALSE)
    BY <1>3
  <2> HIDE DEF a
  <2>4. attempt' \in [1..MaxCodes -> Attempts]
    BY <2>1, <2>2, <2>3 DEF Keep, SessionsShape, SessionsTypeOK
  <2>5. WithAttempt(s, codes', a) \in Sessions
    BY <1>2, <2>1, <2>2, SessionTypes
  <2> QED
    BY <1>1, <1>2, <1>3, <2>3, <2>4, <2>5, SessionFields, CodeAnswer
<1>4. CASE NoCode /\ Answer(t, SignedIn(s, who), TRUE) /\ loggedOut' = FALSE
  <2>1. attempt' \in [1..MaxCodes -> Attempts] /\ UNCHANGED codes
    BY <1>4, AttemptTypes
  <2>2. SignedIn(s, who) \in Sessions /\ SignedIn(s, who).code = s.code
    BY <1>1, <1>2, SessionTypes, SessionFields
  <2> QED
    BY <1>1, <1>4, <2>1, <2>2, QuietAnswer
<1> QED
  BY <1>3, <1>4 DEF Login

\* Refusals, and a sign-in by way of Telegram
LEMMA RefusalKeeps ==
  ASSUME SessionsShape, AllFresh, NEW t \in Tabs,
         Refuse(t) \/ Rejected(t) \/ V1Rejected(t) \/ V1Telegram(t)
  PROVE  SessionsShape' /\ AllFresh'
<1>1. tab[t].at = "handling" /\ attempt' \in [1..MaxCodes -> Attempts] /\ UNCHANGED codes
  BY AttemptTypes DEF Refuse, Rejected, V1Rejected, V1Telegram, Handling
<1>2. Before(t) \in Sessions
  BY <1>1, Loaded
<1>3. CASE Refuse(t) \/ V1Rejected(t)
  <2>1. Answer(t, Before(t), FALSE) /\ UNCHANGED loggedOut
    BY <1>3 DEF Refuse, V1Rejected
  <2> QED
    BY <1>1, <1>2, <2>1, QuietAnswer
<1>4. CASE Rejected(t)
  <2>1. Answer(t, Message(Before(t)), FALSE) /\ UNCHANGED loggedOut
    BY <1>4 DEF Rejected
  <2> QED
    BY <1>1, <1>2, <2>1, SessionTypes, SessionFields, QuietAnswer
<1>5. CASE V1Telegram(t)
  <2>1. Answer(t, SignedIn(Before(t), Telegram), TRUE) /\ loggedOut' = FALSE
    BY <1>5 DEF V1Telegram
  <2> QED
    BY <1>1, <1>2, <2>1, SessionTypes, SessionFields, QuietAnswer
<1> QED
  BY <1>3, <1>4, <1>5

\* An attempt with one more wrong code
LEMMA CountedTypes ==
  ASSUME NEW a \in Attempts, ~Exhausted(a)
  PROVE  [a EXCEPT !.tries = @ + 1] \in Attempts
  BY SessionsAssumption DEF Attempts, Exhausted

\* A code is right, wrong or too late.
LEMMA VerifyKeeps ==
  ASSUME SessionsShape, AllFresh, NEW t \in Tabs, Verify(t) \/ V1Verify(t)
  PROVE  SessionsShape' /\ AllFresh'
<1> DEFINE s == Before(t)
           a == Pending(s)
           counted == [a EXCEPT !.tries = @ + 1]
<1>1. tab[t].at = "handling" /\ UNCHANGED codes
  BY DEF Verify, V1Verify, Handling
<1>2. s \in Sessions /\ s.code \in Codes
  BY <1>1, Loaded
<1>3. a \in Attempts /\ (HasPending(s) => s.code \in 1..MaxCodes)
  BY <1>2, PendingTypes
<1>4. ASSUME NEW q \in {s, Message(WithoutAttempt(s)), WithoutAttempt(s)}, Answer(t, q, FALSE),
             UNCHANGED attempt \/ Destroy(s), UNCHANGED loggedOut
      PROVE  SessionsShape' /\ AllFresh'
  <2>1. attempt' \in [1..MaxCodes -> Attempts]
    BY <1>2, <1>4, AttemptTypes
  <2>2. q \in Sessions /\ q.code \in {0, s.code} /\ q.user = s.user
    <3>1. WithoutAttempt(s) \in Sessions /\ WithoutAttempt(s).code = 0 /\ WithoutAttempt(s).user = s.user
      BY <1>2, SessionTypes, SessionFields
    <3>2. /\ Message(WithoutAttempt(s)) \in Sessions
          /\ Message(WithoutAttempt(s)).code = 0 /\ Message(WithoutAttempt(s)).user = s.user
      BY <3>1, SessionTypes, SessionFields
    <3> QED
      BY <1>2, <1>4, <3>1, <3>2
  <2> QED
    BY <1>1, <1>4, <2>1, <2>2, QuietAnswer
<1>5. ASSUME HasPending(s), ~Exhausted(a), Keep(s.code, counted), UNCHANGED loggedOut,
             \/ Answer(t, Message(WithAttempt(s, s.code, counted)), FALSE)
             \/ Answer(t, WithAttempt(s, s.code, counted), FALSE)
      PROVE  SessionsShape' /\ AllFresh'
  <2>1. counted \in Attempts
    BY <1>3, <1>5, CountedTypes
  <2>2. attempt' \in [1..MaxCodes -> Attempts]
    BY <1>3, <1>5, <2>1, AttemptTypes
  <2> HIDE DEF counted
  <2>3. WithAttempt(s, s.code, counted) \in Sessions
    BY <1>2, <2>1, SessionTypes
  <2>4. Message(WithAttempt(s, s.code, counted)) \in Sessions
    BY <2>3, SessionTypes
  <2>5. /\ WithAttempt(s, s.code, counted).code = s.code
        /\ WithAttempt(s, s.code, counted).user = s.user
    BY <1>2, SessionFields
  <2>6. /\ Message(WithAttempt(s, s.code, counted)).code = s.code
        /\ Message(WithAttempt(s, s.code, counted)).user = s.user
    BY <2>3, <2>5, SessionFields
  <2> QED
    BY <1>1, <1>5, <2>2, <2>3, <2>4, <2>5, <2>6, QuietAnswer
<1>6. ASSUME a.account \in active, Destroy(s), loggedOut' = FALSE,
             Answer(t, SignedIn(WithoutAttempt(s), a.account), TRUE)
      PROVE  SessionsShape' /\ AllFresh'
  <2>1. attempt' \in [1..MaxCodes -> Attempts] /\ a.account \in Accounts
    BY <1>2, <1>6, AttemptTypes DEF SessionsShape, SessionsTypeOK
  <2>2. WithoutAttempt(s) \in Sessions /\ WithoutAttempt(s).code = 0
    BY <1>2, SessionTypes, SessionFields
  <2>3. /\ SignedIn(WithoutAttempt(s), a.account) \in Sessions
        /\ SignedIn(WithoutAttempt(s), a.account).code = 0
    BY <2>1, <2>2, SessionTypes, SessionFields
  <2> QED
    BY <1>1, <1>6, <2>1, <2>3, QuietAnswer
<1> HIDE DEF counted, a, s
<1>7. CASE Verify(t)
  <2>1. \/ UNCHANGED << attempt, loggedOut >> /\ Answer(t, s, FALSE)
        \/ UNCHANGED << attempt, loggedOut >> /\ Answer(t, Message(WithoutAttempt(s)), FALSE)
        \/ Destroy(s) /\ UNCHANGED loggedOut /\ Answer(t, Message(WithoutAttempt(s)), FALSE)
        \/ /\ HasPending(s) /\ ~Exhausted(a) /\ Keep(s.code, counted)
           /\ Answer(t, Message(WithAttempt(s, s.code, counted)), FALSE) /\ UNCHANGED loggedOut
        \/ /\ Destroy(s) /\ a.account \in active
           /\ Answer(t, SignedIn(WithoutAttempt(s), a.account), TRUE) /\ loggedOut' = FALSE
    BY <1>7, Zenon DEF Verify, s, a, counted
  <2> QED
    BY <2>1, <1>4, <1>5, <1>6
<1>8. CASE V1Verify(t)
  <2>1. \/ Destroy(s) /\ UNCHANGED loggedOut /\ Answer(t, WithoutAttempt(s), FALSE)
        \/ /\ HasPending(s) /\ ~Exhausted(a) /\ Keep(s.code, counted)
           /\ Answer(t, WithAttempt(s, s.code, counted), FALSE) /\ UNCHANGED loggedOut
        \/ /\ Destroy(s) /\ a.account \in active
           /\ Answer(t, SignedIn(WithoutAttempt(s), a.account), TRUE) /\ loggedOut' = FALSE
    BY <1>8, Zenon DEF V1Verify, s, a, counted
  <2> QED
    BY <2>1, <1>4, <1>5, <1>6
<1> QED
  BY <1>7, <1>8

\* An attempt with a new code
LEMMA ResentTypes ==
  ASSUME NEW a \in Attempts, a.resends < MaxResends
  PROVE  [a EXCEPT !.tries = 0, !.resends = @ + 1] \in Attempts
<1>1. a.resends + 1 \in 0..MaxResends /\ 0 \in 0..MaxTries
  BY SessionsAssumption DEF Attempts
<1> QED
  BY <1>1 DEF Attempts

\* A new code replaces the last.
LEMMA ResendKeeps ==
  ASSUME SessionsShape, AllFresh, NEW t \in Tabs, Resend(t)
  PROVE  SessionsShape' /\ AllFresh'
<1> DEFINE s == Before(t)
           a == Pending(s)
           b == [a EXCEPT !.tries = 0, !.resends = @ + 1]
<1>1. tab[t].at = "handling" /\ UNCHANGED loggedOut
  BY DEF Resend, Handling
<1>2. s \in Sessions
  BY <1>1, Loaded
<1>3. CASE /\ HasPending(s) /\ a.resends < MaxResends /\ codes < MaxCodes /\ codes' = codes + 1
           /\ attempt' = IF redis THEN [attempt EXCEPT ![s.code] = NoAttempt, ![codes'] = b] ELSE attempt
           /\ Answer(t, Message(Replaced(s, codes', b)), FALSE)
  <2>1. a \in Attempts /\ NoAttempt \in Attempts
    BY <1>2, PendingTypes
  <2>2. b \in Attempts
    BY <1>3, <2>1, ResentTypes
  <2> HIDE DEF b, a
  <2>3. codes' \in Codes
    BY <1>3, SessionsAssumption DEF SessionsShape, SessionsTypeOK, Codes
  <2>4. attempt' \in [1..MaxCodes -> Attempts]
    BY <1>3, <2>1, <2>2 DEF SessionsShape, SessionsTypeOK
  <2>5. Replaced(s, codes', b) \in Sessions
    BY <1>2, <2>2, <2>3, SessionTypes DEF Replaced
  <2>6. Replaced(s, codes', b).code = codes' /\ Replaced(s, codes', b).user = s.user
    BY <1>2, SessionFields DEF Replaced
  <2>7. /\ Message(Replaced(s, codes', b)) \in Sessions
        /\ Message(Replaced(s, codes', b)).live
        /\ Message(Replaced(s, codes', b)).code = codes'
        /\ Message(Replaced(s, codes', b)).user = s.user
    BY <2>5, <2>6, SessionTypes, SessionFields
  <2> QED
    BY <1>1, <1>3, <2>4, <2>7, CodeAnswer
<1>4. CASE NoCode /\ Answer(t, Message(s), FALSE)
  <2>1. attempt' \in [1..MaxCodes -> Attempts] /\ UNCHANGED codes
    BY <1>4, AttemptTypes
  <2> QED
    BY <1>1, <1>2, <1>4, <2>1, SessionTypes, SessionFields, QuietAnswer
<1> QED
  BY <1>3, <1>4 DEF Resend

\* Both logouts
LEMMA LogoutKeeps ==
  ASSUME SessionsShape, AllFresh, NEW t \in Tabs, Logout(t) \/ V1Logout(t)
  PROVE  SessionsShape' /\ AllFresh'
<1>1. /\ tab[t].at = "handling" /\ Before(t).live /\ loggedOut' = TRUE
      /\ Answer(t, Blank, TRUE) \/ Answer(t, Empty, FALSE)
  BY DEF Logout, V1Logout, Handling, Before, AfterLogout
<1>2. Before(t) \in Sessions
  BY <1>1, Loaded
<1>3. attempt' \in [1..MaxCodes -> Attempts] /\ UNCHANGED codes
  BY <1>2, AttemptTypes DEF Logout, V1Logout
<1>4. ~Empty.live
  BY DEF Empty
<1> QED
  BY <1>1, <1>3, <1>4, LogoutAnswer

\* A request finds what is kept or, without Redis, perhaps nothing.
LEMMA KeptIsDenoted ==
  ASSUME SessionsShape
  PROVE  /\ Denoted(redis) \in Sessions /\ Denoted(redis).code <= codes
         /\ Denoted(redis) \in {KeptSession, Empty}
         /\ Denoted(redis).live => cookie.kind # "none"
<1>1. Empty \in Sessions /\ Empty.code = 0 /\ ~Empty.live /\ 0 <= codes
  BY SessionTypes, SessionsAssumption DEF Empty, SessionsShape, SessionsTypeOK, Codes
<1>2. CASE cookie.kind = "id"
  <2>1. Denoted(redis) \in {store[cookie.id], Empty} /\ cookie.id \in 1..MaxIds
    BY <1>2, SessionsAssumption DEF Denoted, SessionsShape, SessionsTypeOK
  <2> QED
    BY <1>1, <1>2, <2>1 DEF KeptSession, SessionsShape, SessionsTypeOK
<1>3. CASE cookie.kind = "data"
  <2>1. Denoted(redis) = cookie.data
    BY <1>3 DEF Denoted
  <2> QED
    BY <1>3, <2>1 DEF KeptSession, SessionsShape, SessionsTypeOK
<1>4. CASE cookie.kind = "none"
  <2>1. Denoted(redis) = Empty
    BY <1>4 DEF Denoted
  <2> QED
    BY <1>1, <1>4, <2>1 DEF KeptSession
<1> QED
  BY <1>2, <1>3, <1>4 DEF SessionsShape, SessionsTypeOK

\* The arrival of a request: it loads what is kept, or nothing without Redis.
LEMMA ArrivalKeeps ==
  ASSUME SessionsShape, AllFresh, NEW t \in Tabs, NEW op \in Operations,
         NEW who \in Accounts \cup {Telegram, NoUser}, NEW given \in Codes,
         Arrive(t, op, who, given)
  PROVE  SessionsShape' /\ AllFresh'
<1>1. /\ tab' = [tab EXCEPT ![t] =
           [at |-> "handling", op |-> op, account |-> who, given |-> given,
            id |-> cookie.id, redis |-> redis, loaded |-> Denoted(redis),
            stale |-> FALSE, had |-> cookie.kind]]
      /\ requests' = requests + 1 /\ requests < MaxRequests
      /\ UNCHANGED << redis, store, attempt, active, cookie, ids, codes, losses, overwrote,
                      loggedOut >>
  BY DEF Arrive
<1>2. /\ Denoted(redis) \in Sessions /\ Denoted(redis).code <= codes
      /\ Denoted(redis) \in {KeptSession, Empty}
      /\ Denoted(redis).live => cookie.kind # "none"
  BY KeptIsDenoted
<1>3. Fresh(Empty, loggedOut, codes)
  BY DEF Fresh, Empty
<1>4. tab'[t] \in Requests /\ tab' \in [Tabs -> Requests]
  BY <1>1, <1>2 DEF SessionsShape, SessionsTypeOK, Requests
<1>5. /\ tab'[t].loaded = Denoted(redis) /\ tab'[t].had = cookie.kind
      /\ \A x \in Tabs : x # t => tab'[x] = tab[x]
  BY <1>1 DEF SessionsShape
<1>6. requests' \in 0..MaxRequests
  BY <1>1, SessionsAssumption DEF SessionsShape, SessionsTypeOK
<1>7. SessionsShape'
  <2>1. SessionsTypeOK'
    BY <1>1, <1>4, <1>6 DEF SessionsShape, SessionsTypeOK, Requests
  <2> QED
    BY <1>1, <1>2, <1>4, <1>5, <2>1 DEF SessionsShape
<1>8. AllFresh'
  <2>1. KeptSession' = KeptSession
    BY <1>1 DEF KeptSession
  <2> QED
    BY <1>1, <1>2, <1>3, <1>5, <2>1 DEF AllFresh
<1> QED
  BY <1>7, <1>8

\* Revocation, the coming and going of Redis, and accounts that go
LEMMA SurroundingsKeep ==
  ASSUME SessionsShape, AllFresh, RevokeAll \/ RedisTurns \/ \E a \in Accounts : Deactivate(a)
  PROVE  SessionsShape' /\ AllFresh'
<1>1. CASE RevokeAll
  <2>1. /\ store' = [i \in 1..MaxIds |-> Empty] /\ losses' \in 0..MaxLosses
        /\ UNCHANGED << redis, attempt, active, cookie, tab, ids, codes, requests, overwrote, loggedOut >>
    BY <1>1, SessionsAssumption DEF RevokeAll, SessionsShape, SessionsTypeOK
  <2>2. Empty \in Sessions /\ Empty.code = 0 /\ Fresh(Empty, loggedOut, codes)
    BY SessionTypes DEF Empty, Fresh
  <2>3. KeptSession' \in {KeptSession, Empty}
    BY <2>1 DEF KeptSession, SessionsShape, SessionsTypeOK
  <2>4. 0 <= codes
    BY SessionsAssumption DEF SessionsShape, SessionsTypeOK, Codes
  <2> QED
    BY <2>1, <2>2, <2>3, <2>4 DEF SessionsShape, SessionsTypeOK, AllFresh
<1>2. CASE RedisTurns
  <2>1. /\ UNCHANGED << store, attempt, active, cookie, tab, ids, codes, requests, overwrote, loggedOut >>
        /\ redis' = ~redis
    BY <1>2, Zenon DEF RedisTurns
  <2>2. losses' = losses \/ (losses < MaxLosses /\ losses' = losses + 1)
    BY <1>2, Zenon DEF RedisTurns
  <2>3. losses' \in 0..MaxLosses
    BY <2>2, SessionsAssumption DEF SessionsShape, SessionsTypeOK
  <2>4. redis' \in BOOLEAN
    BY <2>1, Zenon DEF SessionsShape, SessionsTypeOK
  <2> QED
    BY <2>1, <2>3, <2>4 DEF SessionsShape, SessionsTypeOK, AllFresh, KeptSession
<1>3. ASSUME NEW a \in Accounts, Deactivate(a) PROVE SessionsShape' /\ AllFresh'
  <2>1. /\ active' \subseteq Accounts /\ losses' \in 0..MaxLosses
        /\ UNCHANGED << redis, store, attempt, cookie, tab, ids, codes, requests, overwrote, loggedOut >>
    BY <1>3, SessionsAssumption DEF Deactivate, SessionsShape, SessionsTypeOK
  <2> QED
    BY <2>1 DEF SessionsShape, SessionsTypeOK, AllFresh, KeptSession
<1> QED
  BY <1>1, <1>2, <1>3

\* Every step keeps types and freshness.
LEMMA SessionsStep ==
  SessionsShape /\ AllFresh /\ [SessionsNext]_sessionVars => SessionsShape' /\ AllFresh'
<1> SUFFICES ASSUME SessionsShape, AllFresh, [SessionsNext]_sessionVars
             PROVE  SessionsShape' /\ AllFresh'
  OBVIOUS
<1>1. ASSUME NEW t \in Tabs, NEW op \in {"page", "wrong", "resend", "logout"}, Arrive(t, op, NoUser, 0)
      PROVE  SessionsShape' /\ AllFresh'
  <2>1. op \in Operations /\ 0 \in Codes
    BY SessionsAssumption DEF Operations, Codes
  <2> QED
    BY <1>1, <2>1, ArrivalKeeps
<1>2. ASSUME NEW t \in Tabs, NEW a \in Accounts \cup {Telegram}, Arrive(t, "login", a, 0)
      PROVE  SessionsShape' /\ AllFresh'
  <2>1. "login" \in Operations /\ 0 \in Codes
    BY SessionsAssumption DEF Operations, Codes
  <2> QED
    BY <1>2, <2>1, ArrivalKeeps
<1>3. ASSUME NEW t \in Tabs, NEW c \in 0..codes, Arrive(t, "code", NoUser, c)
      PROVE  SessionsShape' /\ AllFresh'
  <2>1. "code" \in Operations /\ c \in Codes
    BY SessionsAssumption DEF Operations, Codes, SessionsShape, SessionsTypeOK
  <2> QED
    BY <1>3, <2>1, ArrivalKeeps
<1>4. CASE UNCHANGED sessionVars
  BY <1>4 DEF sessionVars, SessionsShape, SessionsTypeOK, AllFresh, KeptSession
<1>5. ASSUME NEW t \in Tabs, Login(t) \/ V1Login(t) PROVE SessionsShape' /\ AllFresh'
  BY <1>5, LoginKeeps DEF V1Login
<1> QED
  BY <1>1, <1>2, <1>3, <1>4, <1>5, RefusalKeeps, PageKeeps, VerifyKeeps, ResendKeeps, LogoutKeeps,
     SurroundingsKeep DEF SessionsNext

\* So both hold in every reachable state.
LEMMA AlwaysFresh == SessionsSpec => [](SessionsShape /\ AllFresh)
<1>1. SessionsInit => SessionsShape /\ AllFresh
  <2> SUFFICES ASSUME SessionsInit PROVE SessionsShape /\ AllFresh
    OBVIOUS
  <2>1. NoRequest \in Requests /\ NoRequest.at = "none"
    BY SessionTypes, SessionsAssumption DEF NoRequest, Requests, Operations, Codes
  <2>2. /\ Empty \in Sessions /\ NoAttempt \in Attempts /\ Empty.code = 0 /\ 0 \in Codes
        /\ Fresh(Empty, FALSE, 0)
    BY SessionTypes, SessionsAssumption DEF Empty, Codes, Fresh
  <2>3. SessionsTypeOK
    BY <2>1, <2>2, SessionsAssumption DEF SessionsInit, SessionsTypeOK, Requests
  <2>4. /\ overwrote = FALSE /\ loggedOut = FALSE /\ codes = 0
        /\ cookie.kind = "none" /\ cookie.data = Empty
        /\ \A i \in 1..MaxIds : store[i] = Empty
        /\ \A t \in Tabs : tab[t] = NoRequest
        /\ tab \in [Tabs -> Requests]
    BY <2>1 DEF SessionsInit
  <2>5. SessionsShape
    <3>1. overwrote \in BOOLEAN /\ loggedOut \in BOOLEAN
      BY <2>4
    <3>2. \A i \in 1..MaxIds : store[i].code <= codes
      BY <2>2, <2>4
    <3>3. cookie.data.code <= codes
      BY <2>2, <2>4
    <3>4. \A t \in Tabs : tab[t].at = "none"
      BY <2>1, <2>4
    <3> QED
      BY <2>3, <2>4, <3>1, <3>2, <3>3, <3>4 DEF SessionsShape
  <2>6. KeptSession = Empty
    BY <2>4 DEF KeptSession
  <2>7. AllFresh
    BY <2>1, <2>2, <2>4, <2>6 DEF AllFresh
  <2> QED
    BY <2>5, <2>7
<1> QED
  BY <1>1, SessionsStep, PTL DEF SessionsSpec

\* Every value of a session is of its type.
THEOREM SessionsTypes == SessionsSpec => []SessionsTypeOK
<1>1. SessionsShape => SessionsTypeOK
  BY DEF SessionsShape
<1> QED
  BY <1>1, AlwaysFresh, PTL

\* Neither a user who logged out nor a code that was replaced comes back, unless an
\* answer overwrote what another had changed, for any number of overlapping requests,
\* accounts, codes and losses.
THEOREM OldStaysGone == SessionsSpec => []NothingOldReturns
<1>1. SessionsShape /\ AllFresh => NothingOldReturns
  <2> SUFFICES ASSUME SessionsShape, AllFresh, ~overwrote
               PROVE  (loggedOut => Denoted(redis).user = NoUser) /\ Denoted(redis).code \in {0, codes}
    BY DEF NothingOldReturns
  <2>1. Denoted(redis) \in {KeptSession, Empty}
    BY KeptIsDenoted
  <2>2. Fresh(Empty, loggedOut, codes) /\ Fresh(KeptSession, loggedOut, codes)
    BY DEF Fresh, Empty, AllFresh
  <2> QED
    BY <2>1, <2>2 DEF Fresh
<1> QED
  BY <1>1, AlwaysFresh, PTL
-----------------------------------------------------------------------------
(***************************************************************************)
(* The parts together (MCTickets).                                         *)
(***************************************************************************)

\* What administrators share does in each part only what that part allows: what is proved
\* of a part holds of all of them together.
THEOREM PanelImplementsParts == PanelSpec => Spec /\ SessionsSpec /\ AccountsSpec /\ MonitorSpec
<1>1. PanelInit => Init /\ SessionsInit /\ AccountsInit /\ MonitorInit
  BY DEF PanelInit
<1>2. [PanelNext]_panelVars =>
        [Next]_vars /\ [SessionsNext]_sessionVars /\ [AccountsNext]_accountVars /\ [MonitorNext]_monitorVars
  BY DEF PanelNext, panelVars
<1> QED
  BY <1>1, <1>2, PTL DEF PanelSpec, Spec, SessionsSpec, AccountsSpec, MonitorSpec

\* Every value of the tickets, the sessions and the accounts is of its type in every state
\* of the parts together.
THEOREM PanelTypes == PanelSpec => []PanelTypeOK
<1>1. TypeOK /\ SessionsTypeOK /\ AccountsTypeOK => PanelTypeOK
  BY DEF PanelTypeOK
<1> QED
  BY <1>1, PanelImplementsParts, TypeCorrect, SessionsTypes, AccountsTypes, PTL
=============================================================================
