---------------------------- MODULE AdminAccounts ----------------------------
(***************************************************************************)
(* Who may manage the panel: administrators (admins, one row per VK        *)
(* profile) and accounts (web_users), as the panel creates and deletes     *)
(* them (web/routes/admin_panel.py), as expired accounts are removed       *)
(* (core/temp_admin_cleanup.py), as the reserve login of .env is let in    *)
(* (web/routes/auth.py) and as the operators' scripts change them          *)
(* (scripts/).                                                             *)
(*                                                                         *)
(* A request checks first and commits later; requests overlap.             *)
(***************************************************************************)
EXTENDS Naturals, FiniteSets

CONSTANTS
  People,          \* VK profiles
  Names,           \* user names
  NoLink,          \* no link to an administrator
  MaxSlots,         \* bound: requests under way at the same time
  BootstrapAllowed,\* BOOTSTRAP_ALLOWED, with a name and a password in .env
  MaxOrders        \* bound: requests to create or delete, and runs of operators' scripts

ASSUME AccountsAssumption ==
  /\ NoLink \notin People /\ NoLink \notin Names /\ IsFiniteSet(People) /\ IsFiniteSet(Names)
  /\ MaxSlots \in Nat \ {0} /\ BootstrapAllowed \in BOOLEAN /\ MaxOrders \in Nat

Roles == {"admin", "superadmin"}
Row == [super : BOOLEAN, person : People \cup {NoLink}, active : BOOLEAN,
        expiry : {"never", "ahead", "past"}]
NoRow == [super |-> FALSE, person |-> NoLink, active |-> FALSE, expiry |-> "past"]
LinkedRow(person, super) == [super |-> super, person |-> person, active |-> TRUE, expiry |-> "never"]
UnlinkedRow(super, expiry) == [super |-> super, person |-> NoLink, active |-> TRUE, expiry |-> expiry]

Bootstrap == NoLink                 \* the actor of a reserve session
Actors == Names \cup {Bootstrap}
Slots == 1..MaxSlots
NoOrder == [op |-> "none", actor |-> Bootstrap, name |-> NoLink, person |-> NoLink, row |-> NoRow, own |-> NoRow]

VARIABLES
  admin,       \* admins: the role of a person, or "none"
  account,     \* web_users
  existing,    \* names in web_users
  reserve,     \* is there a reserve session?
  order,       \* requests between their checks and their commit; own: the author's row at the check
  orders       \* requests and runs of scripts so far

accountVars == << admin, account, existing, reserve, order, orders >>

\* A new installation, or two superadministrators at work.
AccountsInit ==
  /\ order = [j \in Slots |-> NoOrder] /\ reserve = FALSE /\ orders = 0
  /\ \/ /\ admin = [p \in People |-> "none"] /\ existing = {}
        /\ account = [n \in Names |-> NoRow]
     \/ \E owner \in [Names -> People \cup {NoLink}] :
          /\ \A p \in People : Cardinality({n \in Names : owner[n] = p}) = 1
          /\ admin = [p \in People |-> "superadmin"]
          /\ existing = {n \in Names : owner[n] # NoLink}
          /\ account = [n \in Names |-> IF owner[n] # NoLink THEN LinkedRow(owner[n], TRUE) ELSE NoRow]

-----------------------------------------------------------------------------
\* require_auth, is_temporary_user, is_superadmin
Temporary(n) == account[n].expiry # "never" \/ account[n].person = NoLink
HasSession(a) == IF a = Bootstrap THEN reserve ELSE a \in existing /\ account[a].active
IsSuper(a) == a # Bootstrap => account[a].super
MayManage(a) == HasSession(a) /\ (a # Bootstrap => ~Temporary(a))

\* Permanent superadministrators who can sign in
Managers == {n \in existing : account[n].active /\ account[n].super /\ ~Temporary(n)}
Superadmins == {p \in People : admin[p] = "superadmin"}
SuperAccounts == {n \in existing : account[n].super}
LinkedTo(p) == {n \in existing : account[n].person = p}

SaveAccount(n, row) == existing' = existing \cup {n} /\ account' = [account EXCEPT ![n] = row]
DropAccounts(names) ==
  /\ existing' = existing \ names
  /\ account' = [n \in Names |-> IF n \in names THEN NoRow ELSE account[n]]

Place(j, op, actor, name, person, row) ==
  /\ order[j].op = "none" /\ (\A i \in 1..(j - 1) : order[i].op # "none")
  /\ order' = [order EXCEPT ![j] = [op |-> op, actor |-> actor, name |-> name, person |-> person, row |-> row,
                               own |-> IF actor = Bootstrap THEN NoRow ELSE account[actor]]]
  /\ orders < MaxOrders /\ orders' = orders + 1
  /\ UNCHANGED << admin, account, existing, reserve >>

Finish(j) == order' = [order EXCEPT ![j] = NoOrder] /\ UNCHANGED << reserve, orders >>

-----------------------------------------------------------------------------
\* Variant with a defect: an administrator may delete himself.
AnyAdmin(a, p) == TRUE

NotOneself(a, p) == a # Bootstrap => account[a].person # p

\* delete_admin: the checks, and the linked account that is read
BeginDeleteAdmin(j, a, p) ==
  /\ MayManage(a) /\ IsSuper(a) /\ admin[p] # "none" /\ NotOneself(a, p)
  /\ admin[p] = "superadmin" => Cardinality(Superadmins) > 1
  /\ IF LinkedTo(p) = {} THEN Place(j, "admin", a, NoLink, p, NoRow)
     ELSE \E n \in LinkedTo(p) : Place(j, "admin", a, n, p, NoRow)

\* The account that was read goes; one that the mapper loads with the administrator loses its
\* link; the foreign key removes what is still linked.
CommitDeleteAdmin(j) ==
  LET p == order[j].person  gone == {order[j].name} \cap existing  rest == LinkedTo(p) \ gone IN
  /\ order[j].op = "admin" /\ Finish(j)
  /\ admin' = [admin EXCEPT ![p] = "none"]
  /\ \/ DropAccounts(gone \cup rest)
     \/ \E n \in rest :
          /\ existing' = (existing \ (gone \cup rest)) \cup {n}
          /\ account' = [m \in Names |-> IF m = n THEN [account[m] EXCEPT !.person = NoLink]
                                         ELSE IF m \in gone \cup rest THEN NoRow ELSE account[m]]

\* delete_web_user
BeginDeleteAccount(j, a, n) ==
  /\ MayManage(a) /\ IsSuper(a) /\ n \in existing /\ a # n
  /\ account[n].super => Cardinality(SuperAccounts) > 1
  /\ Place(j, "account", a, n, NoLink, NoRow)

CommitDeleteAccount(j) ==
  /\ order[j].op = "account" /\ Finish(j)
  /\ DropAccounts({order[j].name}) /\ UNCHANGED admin

\* add_admin: a temporary account, or an administrator with an account.  The user name is
\* checked first; the unique keys decide at the commit.
BeginTemporary(j, a, n, super, expiry) ==
  /\ MayManage(a) /\ n \notin existing /\ (super => IsSuper(a))
  /\ Place(j, "temporary", a, n, NoLink, UnlinkedRow(super, expiry))

BeginPermanent(j, a, n, p, super) ==
  /\ MayManage(a) /\ n \notin existing /\ (super => IsSuper(a))
  /\ Place(j, "permanent", a, n, p, LinkedRow(p, super))

CommitTemporary(j) ==
  /\ order[j].op = "temporary" /\ Finish(j) /\ UNCHANGED admin
  /\ IF order[j].name \in existing THEN UNCHANGED << account, existing >>
     ELSE SaveAccount(order[j].name, order[j].row)

CommitPermanent(j) ==
  LET p == order[j].person IN
  /\ order[j].op = "permanent" /\ Finish(j)
  /\ IF order[j].name \in existing \/ admin[p] # "none" THEN UNCHANGED << admin, account, existing >>
     ELSE /\ SaveAccount(order[j].name, order[j].row)
          /\ admin' = [admin EXCEPT ![p] = IF order[j].row.super THEN "superadmin" ELSE "admin"]

-----------------------------------------------------------------------------
\* Time passes; cleanup_expired_temporary_admins removes accounts without a link.
PassExpiry(n) ==
  /\ n \in existing /\ account[n].expiry = "ahead"
  /\ account' = [account EXCEPT ![n].expiry = "past"]
  /\ UNCHANGED << admin, existing, reserve, order, orders >>

Cleanup ==
  LET expired == {n \in existing : account[n].expiry = "past" /\ account[n].person = NoLink} IN
  /\ expired # {} /\ DropAccounts(expired)
  /\ UNCHANGED << admin, reserve, order, orders >>

\* _authenticate_bootstrap: no active superadministrator; the name in .env is in no row
ReserveLogin ==
  /\ BootstrapAllowed /\ ~reserve /\ \A n \in SuperAccounts : ~account[n].active
  /\ reserve' = TRUE
  /\ UNCHANGED << admin, account, existing, order, orders >>

ReserveLogout ==
  /\ reserve /\ reserve' = FALSE
  /\ UNCHANGED << admin, account, existing, order, orders >>

-----------------------------------------------------------------------------
\* Scripts: each is one transaction.
Script ==
  /\ orders < MaxOrders /\ orders' = orders + 1
  /\ UNCHANGED << reserve, order >>

\* create_web_user.py
CreateOrUpdate(n, p, super, disable) ==
  LET old == account[n]  person == IF p = NoLink THEN old.person ELSE p IN
  /\ Script
  /\ IF n \in existing
     THEN SaveAccount(n, [old EXCEPT !.super = super, !.person = person, !.active = @ /\ ~disable])
     ELSE SaveAccount(n, [UnlinkedRow(super, "never") EXCEPT !.person = p, !.active = ~disable])
  /\ admin' = IF p = NoLink THEN admin
              ELSE [admin EXCEPT ![p] = IF super THEN "superadmin" ELSE "admin"]

\* init_superadmin.py
InitSuperadmin(p) ==
  /\ Script /\ admin[p] # "superadmin" /\ admin' = [admin EXCEPT ![p] = "superadmin"]
  /\ UNCHANGED << account, existing >>

\* fix_admin_access.py: one account, made if it is not there; check_db_users.py for "admin"
FixAccess(n, super) ==
  /\ Script /\ UNCHANGED admin
  /\ SaveAccount(n, IF n \in existing THEN [account[n] EXCEPT !.super = super, !.active = TRUE]
               ELSE UnlinkedRow(super, "never"))

\* fix_web_user_admin_links.py: accounts of superadministrators get the first one's link
FixLinks(p) ==
  /\ Script /\ p \in Superadmins /\ UNCHANGED << admin, existing >>
  /\ account' = [n \in Names |-> IF n \in SuperAccounts /\ account[n].person = NoLink
                                  THEN [account[n] EXCEPT !.person = p] ELSE account[n]]

AccountsNext ==
  \/ \E j \in Slots, a \in Actors, p \in People : BeginDeleteAdmin(j, a, p)
  \/ \E j \in Slots, a \in Actors, n \in Names : BeginDeleteAccount(j, a, n)
  \/ \E j \in Slots, a \in Actors, n \in Names, super \in BOOLEAN, expiry \in {"never", "ahead"} :
       BeginTemporary(j, a, n, super, expiry)
  \/ \E j \in Slots, a \in Actors, n \in Names, p \in People, super \in BOOLEAN :
       BeginPermanent(j, a, n, p, super)
  \/ \E j \in Slots : CommitDeleteAdmin(j)
  \/ \E j \in Slots : CommitDeleteAccount(j)
  \/ \E j \in Slots : CommitTemporary(j)
  \/ \E j \in Slots : CommitPermanent(j)
  \/ \E n \in Names : PassExpiry(n)
  \/ Cleanup
  \/ ReserveLogin
  \/ ReserveLogout
  \/ \E n \in Names, p \in People \cup {NoLink}, super, disable \in BOOLEAN : CreateOrUpdate(n, p, super, disable)
  \/ \E p \in People : InitSuperadmin(p)
  \/ \E n \in Names, super \in BOOLEAN : FixAccess(n, super)
  \/ \E p \in People : FixLinks(p)

AccountsSpec == AccountsInit /\ [][AccountsNext]_accountVars

-----------------------------------------------------------------------------
(* Properties.                                                             *)

AccountsTypeOK ==
  /\ admin \in [People -> Roles \cup {"none"}]
  /\ account \in [Names -> Row] /\ existing \subseteq Names
  /\ reserve \in BOOLEAN /\ orders \in 0..MaxOrders
  /\ order \in [Slots -> [op : {"none", "admin", "account", "temporary", "permanent"}, actor : Actors,
                       name : Names \cup {NoLink}, person : People \cup {NoLink}, row : Row, own : Row]]

\* Whatever requests overlap and whatever scripts do, the panel keeps someone who can manage
\* it: a request takes away the last manager only if its author is no manager any more when
\* it commits, or not the one who was checked, or if it came from the reserve session
\* (web/routes/admin_panel.py, delete_admin and delete_web_user).
ManagersRemain ==
  [][\A j \in Slots :
       Managers # {} /\ Managers' = {} /\ order'[j] # order[j] =>
         \/ order[j].actor \notin Managers
         \/ account[order[j].actor] # order[j].own]_accountVars
=============================================================================
