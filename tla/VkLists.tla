------------------------------- MODULE VkLists -------------------------------
(***************************************************************************)
(* The lists the VK bot shows page by page: own tickets, an operator's     *)
(* tickets of the day, questions of a department, found questions.  The    *)
(* buttons "next" and "back" name no list: the page a reader is on is kept *)
(* in Redis under vk:pagination:<vk_id>, or in the memory of a process     *)
(* that cannot reach Redis.  A list is read anew for every page, and       *)
(* entries come and go between two presses.  A press is handled in three   *)
(* steps: the position is read; the page is read and the new position      *)
(* saved; the page is sent.                                                *)
(***************************************************************************)
EXTENDS Integers, Sequences

CONSTANTS
  Readers,      \* users
  Workers,      \* processes that handle messages
  Presses,      \* slots for presses handled at the same time
  Kinds,        \* the lists, KIND_MY_TICKETS ...
  Guarded,      \* those only administrators read: KIND_ADMIN_TICKETS
  PageSize,     \* PAGE_SIZE
  FetchLimit,   \* FETCH_LIMIT
  MaxEntries,   \* bound: entries that ever exist in a list
  MaxTurmoil,   \* bound: changes of lists and rights, losses, restarts
  MaxPresses    \* bound: presses of a reader

ASSUME ListAssumption ==
  /\ PageSize \in Nat \ {0}
  /\ FetchLimit \in Nat \ {0}
  /\ Guarded \subseteq Kinds
  /\ "none" \notin Kinds
  /\ {MaxEntries, MaxTurmoil, MaxPresses} \subseteq Nat

NoPage == [kind |-> "none", page |-> 0]
NoPress == [pc |-> "idle"]
NoWalk == [kind |-> "none", wanted |-> {}, seen |-> {}, intact |-> FALSE]

VARIABLES
  lists,      \* [Kinds -> Seq(entry)]: what the query of each list returns
  newest,     \* [Kinds -> Nat]: the number of the newest entry
  scoped,     \* readers get_admin_scope_for_vk_id gives a scope to
  stored,     \* [Readers -> position]: the record in Redis
  local,      \* [Workers -> [Readers -> position]]: _local_states
  cut,        \* workers that cannot reach Redis
  press,      \* [Presses -> press]: the handlers that are running
  walk,       \* [Readers -> the list opened last: the entries it had then,
              \* those sent since, and whether nothing came between]
  turmoil,    \* [Nat]
  pressed     \* [Nat]

listVars == << lists, newest, scoped, stored, local, cut, press, walk, turmoil,
               pressed >>
places == << lists, newest, scoped, cut, turmoil >>

ListInit ==
  /\ newest = [k \in Kinds |-> FetchLimit]
  /\ lists = [k \in Kinds |-> [n \in 1..newest[k] |-> newest[k] + 1 - n]]
  /\ scoped = Readers
  /\ stored = [u \in Readers |-> NoPage]
  /\ local = [w \in Workers |-> [u \in Readers |-> NoPage]]
  /\ cut = {}
  /\ press = [i \in Presses |-> NoPress]
  /\ walk = [u \in Readers |-> NoWalk]
  /\ turmoil = 0
  /\ pressed = 0

Smaller(a, b) == IF a < b THEN a ELSE b
Larger(a, b) == IF a > b THEN a ELSE b
PageCount(total) ==
  IF total <= 0 THEN 1 ELSE (total + PageSize - 1) \div PageSize
ClampPage(page, total) == Larger(0, Smaller(page, PageCount(total) - 1))
\* Variant with a defect: pages are counted from one.
TurnedFromOne(page, delta) == Larger(0, page + delta + 1)

Turned(page, delta) == Larger(0, page + delta)

Fetched(kind) == SubSeq(lists[kind], 1, Smaller(Len(lists[kind]), FetchLimit))
EntriesOf(s) == {s[n] : n \in DOMAIN s}
PageOf(s, at) ==
  EntriesOf(SubSeq(s, at * PageSize + 1, Smaller(Len(s), (at + 1) * PageSize)))

(* _save_state and _load_state: a position found in Redis hides the local. *)
Save(w, u, position) ==
  /\ stored' = IF w \in cut THEN stored ELSE [stored EXCEPT ![u] = position]
  /\ local' = IF w \in cut THEN [local EXCEPT ![w][u] = position] ELSE local
Load(w, u) ==
  IF w \notin cut /\ stored[u] # NoPage THEN stored[u] ELSE local[w][u]

Running(u) == {i \in Presses : press[i] # NoPress /\ press[i].reader = u}
Alone(w, u) ==
  /\ \A v \in Workers : local[v][u] # NoPage => w \in cut /\ v = w
  /\ w \in cut => stored[u] = NoPage

-----------------------------------------------------------------------------
Starts(i, w, u, kind, page, opens) ==
  /\ press[i] = NoPress
  /\ pressed < MaxPresses /\ pressed' = pressed + 1
  /\ press' = [press EXCEPT ![i] =
       [pc |-> "render", worker |-> w, reader |-> u, kind |-> kind,
        page |-> page, opens |-> opens, shows |-> {}]]

(* open_list: a list is opened on its first page.                          *)
OpenList(i, w, u) ==
  /\ \E kind \in Kinds : Starts(i, w, u, kind, 0, TRUE)
  /\ walk' = [walk EXCEPT ![u].intact = FALSE]
  /\ UNCHANGED << places, stored, local >>

(* _turn_page: without a position the reader is told to open the list.     *)
TurnPage(i, w, u, delta) ==
  LET now == Load(w, u)
  IN  /\ now # NoPage
      /\ Starts(i, w, u, now.kind, Turned(now.page, delta), FALSE)
      /\ UNCHANGED << places, stored, local, walk >>
TurnNext(i, w, u) == TurnPage(i, w, u, 1)
TurnBack(i, w, u) == TurnPage(i, w, u, -1)

(* The renderers: one without rights is refused, the others read the list, *)
(* clamp the page and save it.                                             *)
Refused(i) == press[i].kind \in Guarded /\ press[i].reader \notin scoped
Refuse(i) ==
  /\ press[i] # NoPress /\ press[i].pc = "render"
  /\ UNCHANGED pressed
  /\ Refused(i)
  /\ press' = [press EXCEPT ![i] = NoPress]
  /\ UNCHANGED << places, stored, local, walk >>
RenderPage(i) ==
  /\ press[i] # NoPress /\ press[i].pc = "render"
  /\ UNCHANGED pressed
  /\ ~Refused(i)
  /\ LET h == press[i]
         entries == Fetched(h.kind)
         at == ClampPage(h.page, Len(entries))
     IN  /\ Save(h.worker, h.reader, [kind |-> h.kind, page |-> at])
         /\ press' = [press EXCEPT ![i].pc = "send", ![i].page = at,
                                   ![i].shows = PageOf(entries, at)]
         /\ walk' = IF h.opens
                    THEN [walk EXCEPT ![h.reader] =
                       [kind |-> h.kind, wanted |-> EntriesOf(entries), seen |-> {},
                        intact |-> Running(h.reader) = {i} /\ Alone(h.worker, h.reader)]]
                    ELSE walk
  /\ UNCHANGED places
SendPage(i) ==
  /\ press[i] # NoPress /\ press[i].pc = "send"
  /\ UNCHANGED pressed
  /\ walk' = [walk EXCEPT ![press[i].reader].seen =
       IF press[i].kind = walk[press[i].reader].kind THEN @ \cup press[i].shows ELSE @]
  /\ press' = [press EXCEPT ![i] = NoPress]
  /\ UNCHANGED << places, stored, local >>

-----------------------------------------------------------------------------
(* Entries come and go, administrators are appointed and dismissed,        *)
(* positions expire, Redis is lost and found, a process is restarted.      *)
Stir == turmoil < MaxTurmoil /\ turmoil' = turmoil + 1 /\ UNCHANGED pressed
Broken(readers) ==
  [u \in Readers |-> [walk[u] EXCEPT !.intact = @ /\ u \notin readers]]

EntryAdded(kind) ==
  /\ Stir
  /\ newest[kind] < MaxEntries
  /\ newest' = [newest EXCEPT ![kind] = @ + 1]
  /\ lists' = [lists EXCEPT ![kind] = << newest[kind] + 1 >> \o @]
  /\ UNCHANGED << scoped, stored, local, cut, press, walk >>
EntryRemoved(kind) ==
  /\ Stir
  /\ \E n \in DOMAIN lists[kind] :
       lists' = [lists EXCEPT ![kind] =
         SubSeq(@, 1, n - 1) \o SubSeq(@, n + 1, Len(@))]
  /\ walk' = Broken({u \in Readers : walk[u].kind = kind})
  /\ UNCHANGED << newest, scoped, stored, local, cut, press >>
ScopeChanges(u) ==
  /\ Stir
  /\ scoped' = (scoped \cup {u}) \ (scoped \cap {u})
  /\ UNCHANGED << lists, newest, stored, local, cut, press, walk >>
PositionExpires(u) ==
  /\ Stir
  /\ \/ stored' = [stored EXCEPT ![u] = NoPage] /\ UNCHANGED local
     \/ \E w \in Workers : local' = [local EXCEPT ![w][u] = NoPage] /\ UNCHANGED stored
  /\ UNCHANGED << lists, newest, scoped, cut, press, walk >>
SwitchRedis(w) ==
  /\ Stir
  /\ cut' = (cut \cup {w}) \ (cut \cap {w})
  /\ walk' = Broken(Readers)
  /\ UNCHANGED << lists, newest, scoped, stored, local, press >>
RestartWorker(w) ==
  /\ Stir
  /\ local' = [local EXCEPT ![w] = [u \in Readers |-> NoPage]]
  /\ LET lost == {i \in Presses : press[i] # NoPress /\ press[i].worker = w}
     IN  /\ press' = [i \in Presses |-> IF i \in lost THEN NoPress ELSE press[i]]
         /\ walk' = Broken({press[i].reader : i \in lost})
  /\ UNCHANGED << lists, newest, scoped, stored, cut >>

ListNext ==
  \/ \E i \in Presses, w \in Workers, u \in Readers :
       OpenList(i, w, u) \/ TurnNext(i, w, u) \/ TurnBack(i, w, u)
  \/ \E i \in Presses : Refuse(i) \/ RenderPage(i) \/ SendPage(i)
  \/ \E kind \in Kinds : EntryAdded(kind) \/ EntryRemoved(kind)
  \/ \E u \in Readers : ScopeChanges(u) \/ PositionExpires(u)
  \/ \E w \in Workers : SwitchRedis(w) \/ RestartWorker(w)

ListSpec == ListInit /\ [][ListNext]_listVars

-----------------------------------------------------------------------------
(* A reader who has turned the pages of a list up to its last one has been *)
(* sent every entry the list had when it was opened and still has, however *)
(* presses overlap and entries arrive; only a removal, a restart under a   *)
(* press or a copy of the position in another place may cost an entry.     *)
LastPage(u) ==
  \E at \in {stored[u]} \cup {local[w][u] : w \in Workers} :
    /\ at.kind = walk[u].kind
    /\ at.page = PageCount(Len(Fetched(at.kind))) - 1
NothingSkipped ==
  \A u \in Readers :
    walk[u].intact /\ Running(u) = {} /\ LastPage(u) =>
      walk[u].wanted \cap EntriesOf(Fetched(walk[u].kind)) \subseteq walk[u].seen
=============================================================================
