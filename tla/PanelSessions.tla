---------------------------- MODULE PanelSessions ----------------------------
(***************************************************************************)
(* One browser and the web panel: the session that a request loads when it *)
(* arrives and writes back as a whole when its answer starts               *)
(* (web/security/session_store.py), the login with password and one-time   *)
(* code (web/routes/auth.py, two_factor.py, web/security/otp_store.py; for *)
(* the client web/routes/api_v1.py) and the check of every page            *)
(* (web/dependencies.py).                                                  *)
(*                                                                         *)
(* With Redis the cookie holds an id, without Redis it holds the session   *)
(* itself.  The browser may have several requests under way.               *)
(***************************************************************************)
EXTENDS Naturals

CONSTANTS
  MaxTabs,       \* bound: requests under way at the same time
  Accounts,      \* rows of web_users
  WithCode,      \* those that need the second factor
  Telegram,      \* the administrator who comes by way of Telegram and has no row
  NoUser,
  MaxTries,      \* WEB_ADMIN_2FA_MAX_ATTEMPTS
  MaxResends,    \* WEB_ADMIN_2FA_RESEND_LIMIT
  MaxIds,        \* bound: session ids
  MaxCodes,      \* bound: one-time codes
  MaxRequests,   \* bound: requests
  MaxLosses      \* bound: losses of Redis, revocations and accounts that go

ASSUME SessionsAssumption ==
  /\ WithCode \subseteq Accounts /\ NoUser \notin Accounts /\ Telegram \notin Accounts \cup {NoUser}
  /\ MaxTabs \in Nat \ {0} /\ MaxTries \in Nat \ {0} /\ MaxResends \in Nat
  /\ MaxIds \in Nat /\ MaxCodes \in Nat /\ MaxRequests \in Nat /\ MaxLosses \in Nat

Tabs == 1..MaxTabs

\* A code also stands for the token of its attempt; 0 is none.
Codes == 0..MaxCodes
Attempts == [account : Accounts \cup {NoUser}, tries : 0..MaxTries, resends : 0..MaxResends]
NoAttempt == [account |-> NoUser, tries |-> 0, resends |-> 0]

\* live: is there anything in the session, a CSRF token if nothing else?
\* checked: is the user the record that require_auth wrote?
Sessions ==
  [live : BOOLEAN, user : Accounts \cup {Telegram, NoUser}, checked : BOOLEAN, code : Codes, copy : Attempts,
   flash : BOOLEAN]
Empty ==
  [live |-> FALSE, user |-> NoUser, checked |-> FALSE, code |-> 0, copy |-> NoAttempt, flash |-> FALSE]
Blank == [Empty EXCEPT !.live = TRUE]

Operations == {"page", "login", "wrong", "code", "resend", "logout"}

VARIABLES
  redis,       \* does Redis answer?
  store,       \* session:<id>
  attempt,     \* 2fa:pending:<token>
  active,      \* accounts that exist and are active
  cookie,      \* the browser's cookie: an id, a session, or nothing
  tab,         \* per slot: its request
  ids, codes, requests, losses,   \* used so far
  overwrote,   \* history: did an answer write a session that had changed since it was loaded?
  loggedOut    \* history: was the last change of the user a logout?

sessionVars ==
  << redis, store, attempt, active, cookie, tab, ids, codes, requests, losses, overwrote, loggedOut >>

NoRequest ==
  [at |-> "none", op |-> "page", account |-> NoUser, given |-> 0, id |-> 0, redis |-> FALSE,
   loaded |-> Empty, stale |-> FALSE, had |-> "none"]

SessionsInit ==
  /\ redis = TRUE
  /\ store = [i \in 1..MaxIds |-> Empty]
  /\ attempt = [c \in 1..MaxCodes |-> NoAttempt]
  /\ active = Accounts
  /\ cookie = [kind |-> "none", id |-> 0, data |-> Empty]
  /\ tab = [t \in Tabs |-> NoRequest]
  /\ ids = 0 /\ codes = 0 /\ requests = 0 /\ losses = 0
  /\ overwrote = FALSE /\ loggedOut = FALSE

-----------------------------------------------------------------------------
\* _load_session: what the cookie denotes, given whether Redis answers
Denoted(answers) ==
  CASE cookie.kind = "id" -> IF answers THEN store[cookie.id] ELSE Empty
    [] cookie.kind = "data" -> cookie.data
    [] OTHER -> Empty

\* The lowest free slot is taken.
Arrive(t, op, account, given) ==
  /\ tab[t].at = "none" /\ (\A u \in 1..(t - 1) : tab[u].at # "none") /\ requests < MaxRequests
  /\ requests' = requests + 1
  /\ tab' = [tab EXCEPT ![t] =
              [at |-> "handling", op |-> op, account |-> account, given |-> given,
               id |-> cookie.id, redis |-> redis, loaded |-> Denoted(redis),
               stale |-> FALSE, had |-> cookie.kind]]
  /\ UNCHANGED << redis, store, attempt, active, cookie, ids, codes, losses, overwrote,
                  loggedOut >>

\* otp_store._load: Redis knows the attempt, or the copy in the session is used.
Pending(s) ==
  IF redis /\ s.code # 0 /\ attempt[s.code] # NoAttempt THEN attempt[s.code] ELSE s.copy

HasPending(s) == s.code # 0 /\ Pending(s) # NoAttempt

\* _persist and _destroy: the session, and Redis if it answers
WithAttempt(s, c, a) == [s EXCEPT !.live = TRUE, !.code = c, !.copy = a]
WithoutAttempt(s) == [s EXCEPT !.code = 0, !.copy = NoAttempt]
Keep(c, a) == attempt' = IF redis THEN [attempt EXCEPT ![c] = a] ELSE attempt
Destroy(s) == attempt' = IF redis /\ s.code # 0 THEN [attempt EXCEPT ![s.code] = NoAttempt] ELSE attempt

NoCode == UNCHANGED << attempt, codes >>

-----------------------------------------------------------------------------
\* Writing the answer: send_wrapper and _persist_session.  renewed: the handler drew a new
\* CSRF token, so the session differs from the one that was loaded in any case.  A session
\* keeps its id: was_authenticated is read from the dictionary that the handler changed.

Changed(r, s, renewed) == renewed \/ s # r.loaded \/ r.had = "none"

\* The other requests under way now hold an older session.
Done(t, writes) ==
  tab' = [x \in Tabs |-> IF x = t THEN NoRequest
                         ELSE [tab[x] EXCEPT !.stale = @ \/ (writes /\ tab[x].at # "none")]]

Answer(t, s, renewed) ==
  LET r == tab[t]
      answers == redis /\ r.redis
      new == answers /\ r.id = 0
      id == IF new THEN ids + 1 ELSE r.id
      dropped == IF answers /\ r.id # 0 THEN [store EXCEPT ![r.id] = Empty] ELSE store IN
  /\ \/ /\ IF s.live THEN ~Changed(r, s, renewed) ELSE r.had = "none"
        /\ Done(t, FALSE)
        /\ UNCHANGED << store, cookie, ids, overwrote >>
     \/ /\ ~s.live /\ r.had # "none" /\ Done(t, TRUE) /\ overwrote' = (overwrote \/ r.stale)
        /\ store' = dropped
        /\ cookie' = [kind |-> "none", id |-> 0, data |-> Empty]
        /\ UNCHANGED ids
     \/ /\ s.live /\ Changed(r, s, renewed) /\ answers /\ Done(t, TRUE) /\ overwrote' = (overwrote \/ r.stale)
        /\ id <= MaxIds
        /\ store' = [store EXCEPT ![id] = s]
        /\ cookie' = [kind |-> "id", id |-> id, data |-> Empty]
        /\ ids' = IF new THEN id ELSE ids
     \/ /\ s.live /\ Changed(r, s, renewed) /\ ~answers /\ Done(t, TRUE) /\ overwrote' = (overwrote \/ r.stale)
        /\ cookie' = [kind |-> "data", id |-> 0, data |-> s]
        /\ UNCHANGED << store, ids >>
  /\ UNCHANGED << redis, active, requests, losses >>

\* A request that changes something carries the CSRF token of the session it loaded.
Handling(t, op) ==
  /\ tab[t].at = "handling" /\ tab[t].op = op
  /\ op # "page" => tab[t].loaded.live

Before(t) == tab[t].loaded
Message(s) == [s EXCEPT !.live = TRUE, !.flash = TRUE]

\* CSRFMiddleware: a form without a token is refused and changes nothing.
Refuse(t) ==
  /\ tab[t].at = "handling" /\ tab[t].op # "page" /\ ~Before(t).live
  /\ NoCode /\ UNCHANGED loggedOut
  /\ Answer(t, Before(t), FALSE)

\* require_auth and the page: an unfinished second factor suspends the session, a missing
\* or inactive account ends it, the user is read anew, messages are shown once.
Page(t) ==
  /\ Handling(t, "page") /\ NoCode /\ UNCHANGED loggedOut
  /\ LET s == Before(t) IN
       Answer(t, CASE s.user = NoUser -> [s EXCEPT !.live = TRUE, !.flash = FALSE]
                   [] s.user # NoUser /\ HasPending(s) -> s
                   [] s.user # NoUser /\ ~HasPending(s) /\ s.user \notin active \cup {Telegram} -> Empty
                   [] OTHER -> [s EXCEPT !.checked = TRUE, !.flash = FALSE], FALSE)

SignedIn(s, account) == [s EXCEPT !.live = TRUE, !.user = account, !.checked = FALSE]

\* login with a right password: a session, or a code by way of VK
Login(t) ==
  LET r == tab[t]  s == Before(t) IN
  /\ Handling(t, "login") /\ r.account \in active
  /\ \/ /\ r.account \in WithCode /\ codes < MaxCodes
        /\ codes' = codes + 1
        /\ LET a == [NoAttempt EXCEPT !.account = r.account] IN
             Keep(codes', a) /\ Answer(t, WithAttempt(s, codes', a), FALSE)
        /\ UNCHANGED loggedOut
     \/ /\ r.account \notin WithCode
        /\ NoCode /\ Answer(t, SignedIn(s, r.account), TRUE)
        /\ loggedOut' = FALSE

\* a wrong password, a disabled account or too many attempts
Rejected(t) ==
  /\ Handling(t, "wrong") \/ (Handling(t, "login") /\ tab[t].account \notin active \cup {Telegram})
  /\ NoCode /\ UNCHANGED loggedOut
  /\ Answer(t, Message(Before(t)), FALSE)

Exhausted(a) == a.tries = MaxTries

\* two_factor_verify: with a user there is nothing to do; a wrong code is counted, a right
\* one is used up and the account is checked as it is now.
Verify(t) ==
  LET s == Before(t)  a == Pending(s) IN
  /\ Handling(t, "code") /\ UNCHANGED codes
  /\ \/ s.user # NoUser /\ UNCHANGED << attempt, loggedOut >> /\ Answer(t, s, FALSE)
     \/ /\ s.user = NoUser /\ ~HasPending(s)
        /\ UNCHANGED << attempt, loggedOut >> /\ Answer(t, Message(WithoutAttempt(s)), FALSE)
     \/ /\ s.user = NoUser /\ HasPending(s) /\ Exhausted(a)
        /\ Destroy(s) /\ UNCHANGED loggedOut /\ Answer(t, Message(WithoutAttempt(s)), FALSE)
     \/ /\ s.user = NoUser /\ HasPending(s) /\ ~Exhausted(a)
        /\ \/ /\ tab[t].given # s.code
              /\ LET b == [a EXCEPT !.tries = @ + 1] IN
                   Keep(s.code, b) /\ Answer(t, Message(WithAttempt(s, s.code, b)), FALSE)
              /\ UNCHANGED loggedOut
           \/ /\ tab[t].given = s.code /\ Destroy(s)
              /\ IF a.account \in active
                 THEN Answer(t, SignedIn(WithoutAttempt(s), a.account), TRUE) /\ loggedOut' = FALSE
                 ELSE Answer(t, Message(WithoutAttempt(s)), FALSE) /\ UNCHANGED loggedOut

\* Variant with a defect: the code that was replaced stays the one asked for.
KeepsCode(s, c, b) == WithAttempt(s, s.code, b)

Replaced(s, c, b) == WithAttempt(s, c, b)

\* two_factor_resend: a new token and code, unless the quota is used up
Resend(t) ==
  LET s == Before(t)  a == Pending(s) IN
  /\ Handling(t, "resend") /\ UNCHANGED loggedOut
  /\ \/ /\ HasPending(s) /\ a.resends < MaxResends /\ codes < MaxCodes
        /\ codes' = codes + 1
        /\ LET b == [a EXCEPT !.tries = 0, !.resends = @ + 1] IN
             /\ attempt' = IF redis THEN [attempt EXCEPT ![s.code] = NoAttempt, ![codes'] = b] ELSE attempt
             /\ Answer(t, Message(Replaced(s, codes', b)), FALSE)
     \/ /\ HasPending(s) => a.resends = MaxResends
        /\ NoCode /\ Answer(t, Message(s), FALSE)

\* Variant with a defect: the attempt is withdrawn, the user stays.
Withdrawn(s) == [WithoutAttempt(s) EXCEPT !.live = TRUE]

AfterLogout(s) == Blank

Logout(t) ==
  /\ Handling(t, "logout") /\ UNCHANGED codes
  /\ Destroy(Before(t))
  /\ Answer(t, AfterLogout(Before(t)), TRUE)
  /\ loggedOut' = TRUE

-----------------------------------------------------------------------------
\* The same for the client, which shows no messages.

\* v1_auth_login: a right password as in Login, a wrong one changes nothing.
V1Login(t) == Login(t)
V1Rejected(t) ==
  /\ Handling(t, "wrong") \/ (Handling(t, "login") /\ tab[t].account \notin active \cup {Telegram})
  /\ NoCode /\ UNCHANGED loggedOut
  /\ Answer(t, Before(t), FALSE)

\* v1_auth_telegram_webapp
V1Telegram(t) ==
  /\ Handling(t, "login") /\ tab[t].account = Telegram
  /\ NoCode /\ loggedOut' = FALSE
  /\ Answer(t, SignedIn(Before(t), Telegram), TRUE)

\* v1_auth_verify_2fa: whoever is signed in already may enter a code, too.
V1Verify(t) ==
  LET s == Before(t)  a == Pending(s)
      counted == [a EXCEPT !.tries = @ + 1] IN
  /\ Handling(t, "code") /\ UNCHANGED codes
  /\ \/ /\ ~HasPending(s) \/ Exhausted(a) \/ (tab[t].given = s.code /\ a.account \notin active)
        /\ Destroy(s) /\ UNCHANGED loggedOut /\ Answer(t, WithoutAttempt(s), FALSE)
     \/ /\ HasPending(s) /\ ~Exhausted(a) /\ tab[t].given # s.code
        /\ Keep(s.code, counted) /\ UNCHANGED loggedOut /\ Answer(t, WithAttempt(s, s.code, counted), FALSE)
     \/ /\ HasPending(s) /\ ~Exhausted(a) /\ tab[t].given = s.code /\ a.account \in active
        /\ Destroy(s) /\ loggedOut' = FALSE
        /\ Answer(t, SignedIn(WithoutAttempt(s), a.account), TRUE)

\* v1_auth_logout: an attempt stays behind in Redis, but nothing leads to it.
V1Logout(t) ==
  /\ Handling(t, "logout") /\ NoCode /\ loggedOut' = TRUE
  /\ Answer(t, Empty, FALSE)

-----------------------------------------------------------------------------
\* revoke_all_active_sessions, from the monitoring bot
RevokeAll ==
  /\ redis /\ losses < MaxLosses /\ losses' = losses + 1
  /\ store' = [i \in 1..MaxIds |-> Empty]
  /\ UNCHANGED << redis, attempt, active, cookie, tab, ids, codes, requests, overwrote,
                  loggedOut >>

RedisTurns ==
  /\ redis' = ~redis
  /\ IF redis THEN losses < MaxLosses /\ losses' = losses + 1 ELSE UNCHANGED losses
  /\ UNCHANGED << store, attempt, active, cookie, tab, ids, codes, requests, overwrote,
                  loggedOut >>

\* An account is deleted or deactivated.
Deactivate(a) ==
  /\ a \in active /\ losses < MaxLosses /\ losses' = losses + 1
  /\ active' = active \ {a}
  /\ UNCHANGED << redis, store, attempt, cookie, tab, ids, codes, requests, overwrote, loggedOut >>

SessionsNext ==
  \/ \E t \in Tabs, op \in {"page", "wrong", "resend", "logout"} : Arrive(t, op, NoUser, 0)
  \/ \E t \in Tabs, a \in Accounts \cup {Telegram} : Arrive(t, "login", a, 0)
  \/ \E t \in Tabs, c \in 0..codes : Arrive(t, "code", NoUser, c)
  \/ \E t \in Tabs : Refuse(t)
  \/ \E t \in Tabs : Page(t)
  \/ \E t \in Tabs : Login(t)
  \/ \E t \in Tabs : Rejected(t)
  \/ \E t \in Tabs : Verify(t)
  \/ \E t \in Tabs : Resend(t)
  \/ \E t \in Tabs : Logout(t)
  \/ \E t \in Tabs : V1Login(t) \/ V1Rejected(t) \/ V1Telegram(t)
  \/ \E t \in Tabs : V1Verify(t)
  \/ \E t \in Tabs : V1Logout(t)
  \/ RevokeAll
  \/ RedisTurns
  \/ \E a \in Accounts : Deactivate(a)

SessionsSpec == SessionsInit /\ [][SessionsNext]_sessionVars

-----------------------------------------------------------------------------
(* Properties.                                                             *)

SessionsTypeOK ==
  /\ redis \in BOOLEAN
  /\ store \in [1..MaxIds -> Sessions]
  /\ attempt \in [1..MaxCodes -> Attempts]
  /\ active \subseteq Accounts
  /\ cookie \in [kind : {"none", "id", "data"}, id : 0..MaxIds, data : Sessions]
  /\ \A t \in Tabs : tab[t].op \in Operations /\ tab[t].loaded \in Sessions
  /\ ids \in 0..MaxIds /\ codes \in Codes /\ requests \in 0..MaxRequests /\ losses \in 0..MaxLosses

\* What was ended does not come back: after a logout the browser has no user, and a code
\* that was replaced is not the one it is asked for - as long as no answer wrote back a
\* session that another answer had changed in the meantime (web/routes/auth.py, logout;
\* web/security/otp_store.py, rotate; web/security/session_store.py).
NothingOldReturns ==
  ~overwrote =>
    /\ loggedOut => Denoted(redis).user = NoUser
    /\ Denoted(redis).code \in {0, codes}
=============================================================================
