------------------------------ MODULE Session ------------------------------
(***************************************************************************)
(* Signing in and staying signed in (app/auth.py, app/oidc.py and the auth *)
(* routes of app/main.py), seen from one browser: the tabs that go through *)
(* the identity provider share its cookie jar, two web replicas serve the  *)
(* callbacks, and the worker loop prunes.                                  *)
(*                                                                         *)
(* Time is counted in ticks; the 8 h, 24 h and 1 min of the code keep      *)
(* their order in Idle, Absolute and Touch.  Each statement of a replica   *)
(* is a step, since the statements of resolve_session and of the login are *)
(* not one transaction.                                                    *)
(***************************************************************************)
EXTENDS Integers, FiniteSets

CONSTANTS
  User,
  Dept,
  Tab,
  Request,
  SessionId,
  Idle,         \* SESSION_IDLE_SECONDS
  Absolute,     \* SESSION_ABS_SECONDS
  Touch,        \* the minute between two refreshes of last_seen_at
  MaxTime,      \* bound: ticks
  None

ASSUME LifetimesAssumption ==
  /\ {Idle, Absolute, Touch, MaxTime} \subseteq Nat
  /\ Touch < Idle /\ Idle < Absolute
  /\ None \notin User \cup Dept \cup Tab \cup SessionId

VARIABLES
  now,
  account,   \* account[u]: the department in the users row, None without one
  firsts,    \* firsts[u]: the user.first_login entries of the audit log
  row,       \* row[s]: the sessions row
  jar,       \* the browser's cookies: the login state and the session
  tab,       \* tab[t]: where a tab is in its login
  req,       \* req[r]: a request as its replica resolves it
  cutoff     \* the time with which the worker is about to prune, or None

vars == <<now, account, firsts, row, jar, tab, req, cutoff>>

Unused == [status |-> "unused", user |-> None, created |-> 0, seen |-> 0]
ClosedTab == [step |-> "closed", user |-> None, dept |-> None, next |-> None, known |-> FALSE]
NoRequest == [step |-> "idle", session |-> None, at |-> 0, user |-> None, dept |-> None]

Init ==
  /\ now = 0
  /\ account = [u \in User |-> None]
  /\ firsts = [u \in User |-> 0]
  /\ row = [s \in SessionId |-> Unused]
  /\ jar = [state |-> None, session |-> None]
  /\ tab = [t \in Tab |-> ClosedTab]
  /\ req = [r \in Request |-> NoRequest]
  /\ cutoff = None

(* The two lifetimes, as a resolve at time `at` applies them to a row. *)
Lapsed(w, at) == at > w.created + Absolute \/ at - w.seen > Idle

Live(w, at) == w.status = "live" /\ ~Lapsed(w, at)

Tick ==
  /\ now < MaxTime
  /\ now' = now + 1
  /\ UNCHANGED <<account, firsts, row, jar, tab, req, cutoff>>

(* GET /auth/login: the signed cookie replaces that of another tab. *)
BeginLogin(t) ==
  /\ tab[t].step = "closed"
  /\ tab' = [tab EXCEPT ![t].step = "provider"]
  /\ jar' = [jar EXCEPT !.state = t]
  /\ UNCHANGED <<now, account, firsts, row, req, cutoff>>

(* Mutant: the state of the cookie is not compared with the callback's. *)
CallbackOfAnyState(t, u, d) ==
  /\ tab[t].step = "provider" /\ jar.state # None
  /\ tab' = [tab EXCEPT ![t] = [step |-> "select", user |-> u, dept |-> d,
                                next |-> jar.state, known |-> FALSE]]
  /\ UNCHANGED <<now, account, firsts, row, jar, req, cutoff>>

(* GET /auth/callback from the provider with the claims of user u: a       *)
(* cookie with another state is refused, as is a failed exchange.          *)
Callback(t, u, d) ==
  /\ tab[t].step = "provider"
  /\ IF jar.state = t
     THEN tab' = [tab EXCEPT ![t] = [step |-> "select", user |-> u, dept |-> d,
                                     next |-> jar.state, known |-> FALSE]]
     ELSE tab' = [tab EXCEPT ![t] = ClosedTab]
  /\ UNCHANGED <<now, account, firsts, row, jar, req, cutoff>>

ExchangeFails(t) ==
  /\ tab[t].step = "provider"
  /\ tab' = [tab EXCEPT ![t] = ClosedTab]
  /\ UNCHANGED <<now, account, firsts, row, jar, req, cutoff>>

SelectUser(t) ==
  /\ tab[t].step = "select"
  /\ tab' = [tab EXCEPT ![t].step = "write", ![t].known = account[tab[t].user] # None]
  /\ UNCHANGED <<now, account, firsts, row, jar, req, cutoff>>

(* The INSERT with its audit entry, refused by the primary key when        *)
(* another login was faster; or the UPDATE of a known user.                *)
WriteUser(t) ==
  LET u == tab[t].user IN
  /\ tab[t].step = "write"
  /\ IF ~tab[t].known /\ account[u] # None
     THEN /\ tab' = [tab EXCEPT ![t].step = "failed"]
          /\ UNCHANGED <<account, firsts>>
     ELSE /\ tab' = [tab EXCEPT ![t].step = "session"]
          /\ account' = [account EXCEPT ![u] = tab[t].dept]
          /\ firsts' = [firsts EXCEPT ![u] = IF tab[t].known THEN @ ELSE @ + 1]
  /\ UNCHANGED <<now, row, jar, req, cutoff>>

(* create_session. *)
NewRow(u) == [status |-> "live", user |-> u, created |-> now, seen |-> now]

(* create_session and the answer, which sets the session cookie and drops  *)
(* the state cookie; an older session of the browser keeps its row.        *)
CreateSession(t, s) ==
  /\ tab[t].step = "session"
  /\ row[s].status = "unused"
  /\ row' = [row EXCEPT ![s] = NewRow(tab[t].user)]
  /\ jar' = [state |-> None, session |-> s]
  /\ tab' = [tab EXCEPT ![t].step = "landed"]
  /\ UNCHANGED <<now, account, firsts, req, cutoff>>

CloseTab(t) ==
  /\ tab[t].step \in {"landed", "failed"}
  /\ tab' = [tab EXCEPT ![t] = ClosedTab]
  /\ UNCHANGED <<now, account, firsts, row, jar, req, cutoff>>

(* POST /auth/logout. *)
Logout ==
  /\ jar.session # None
  /\ row' = [row EXCEPT ![jar.session].status = "gone"]
  /\ jar' = [jar EXCEPT !.session = None]
  /\ UNCHANGED <<now, account, firsts, tab, req, cutoff>>

SendRequest(r) ==
  /\ req[r].step = "idle" /\ jar.session # None
  /\ req' = [req EXCEPT ![r] = [NoRequest EXCEPT !.step = "resolve", !.session = jar.session,
                                                 !.at = now]]
  /\ UNCHANGED <<now, account, firsts, row, jar, tab, cutoff>>

(* resolve_session reads the row and applies the lifetimes. *)
ReadRow(r) ==
  LET w == row[req[r].session] IN
  /\ req[r].step = "resolve"
  /\ req' = [req EXCEPT ![r] =
               IF ~Live(w, req[r].at) THEN NoRequest
               ELSE [@ EXCEPT !.step = IF req[r].at - w.seen > Touch THEN "touch" ELSE "user",
                              !.user = w.user]]
  /\ UNCHANGED <<now, account, firsts, row, jar, tab, cutoff>>

(* Mutant: the refresh is an upsert and brings a deleted row back. *)
TouchReplacing(r) ==
  LET s == req[r].session IN
  /\ req[r].step = "touch"
  /\ row' = [row EXCEPT ![s] = [@ EXCEPT !.seen = req[r].at, !.status = "live"]]
  /\ req' = [req EXCEPT ![r].step = "user"]
  /\ UNCHANGED <<now, account, firsts, jar, tab, cutoff>>

(* The refresh, an UPDATE of its own: no effect on a row that is gone. *)
TouchRow(r) ==
  LET s == req[r].session IN
  /\ req[r].step = "touch"
  /\ row' = IF row[s].status = "live" THEN [row EXCEPT ![s].seen = req[r].at] ELSE row
  /\ req' = [req EXCEPT ![r].step = "user"]
  /\ UNCHANGED <<now, account, firsts, jar, tab, cutoff>>

(* get_identity ends: the department is that of the users row, not that of *)
(* the login which made the session.                                       *)
Identify(r) ==
  /\ req[r].step = "user"
  /\ req' = [req EXCEPT ![r].step = "identified", ![r].dept = account[req[r].user]]
  /\ UNCHANGED <<now, account, firsts, row, jar, tab, cutoff>>

Respond(r) ==
  /\ req[r].step = "identified"
  /\ req' = [req EXCEPT ![r] = NoRequest]
  /\ UNCHANGED <<now, account, firsts, row, jar, tab, cutoff>>

(* The worker's maintenance reads the clock, then does the other chores,   *)
(* then deletes the sessions past either lifetime.                         *)
BeginMaintenance ==
  /\ cutoff = None
  /\ cutoff' = now
  /\ UNCHANGED <<now, account, firsts, row, jar, tab, req>>

(* Mutant: the cutoff of the DELETE is off by one. *)
PruneEarly ==
  /\ cutoff # None
  /\ row' = [s \in SessionId |-> IF row[s].status = "live" /\ Lapsed(row[s], cutoff + 1)
                                 THEN [row[s] EXCEPT !.status = "gone"] ELSE row[s]]
  /\ cutoff' = None
  /\ UNCHANGED <<now, account, firsts, jar, tab, req>>

(* The DELETE of what lapsed at the cutoff, a statement of its own (prune_sessions). *)
Prune ==
  /\ cutoff # None
  /\ row' = [s \in SessionId |-> IF row[s].status = "live" /\ Lapsed(row[s], cutoff)
                                 THEN [row[s] EXCEPT !.status = "gone"] ELSE row[s]]
  /\ cutoff' = None
  /\ UNCHANGED <<now, account, firsts, jar, tab, req>>

Next ==
  \/ Tick \/ Logout \/ BeginMaintenance \/ Prune
  \/ \E t \in Tab :
       \/ BeginLogin(t) \/ ExchangeFails(t) \/ SelectUser(t) \/ WriteUser(t) \/ CloseTab(t)
       \/ \E u \in User, d \in Dept : Callback(t, u, d)
       \/ \E s \in SessionId : CreateSession(t, s)
  \/ \E r \in Request :
       SendRequest(r) \/ ReadRow(r) \/ TouchRow(r) \/ Identify(r) \/ Respond(r)

Spec == Init /\ [][Next]_vars

-----------------------------------------------------------------------------

(* The variables have their types; a row is never seen after the present   *)
(* nor before it was made.                                                 *)
TypeOK ==
  /\ now \in 0..MaxTime
  /\ account \in [User -> Dept \cup {None}]
  /\ firsts \in [User -> Nat]
  /\ row \in [SessionId -> [status : {"unused", "live", "gone"}, user : User \cup {None},
                            created : 0..MaxTime, seen : 0..MaxTime]]
  /\ \A s \in SessionId : row[s].created <= row[s].seen /\ row[s].seen <= now
  /\ jar \in [state : Tab \cup {None}, session : SessionId \cup {None}]
  /\ tab \in [Tab -> [step : {"closed", "provider", "select", "write", "session", "landed",
                              "failed"},
                      user : User \cup {None}, dept : Dept \cup {None},
                      next : Tab \cup {None}, known : BOOLEAN]]
  /\ req \in [Request -> [step : {"idle", "resolve", "touch", "user", "identified"},
                          session : SessionId \cup {None}, at : 0..MaxTime,
                          user : User \cup {None}, dept : Dept \cup {None}]]
  /\ cutoff \in 0..MaxTime \cup {None}

(* A login ends at the page its own tab asked for, whatever other tabs of  *)
(* the browser began meanwhile (oidc.exchange_code's state check).         *)
LandsWhereAsked == \A t \in Tab : tab[t].step = "landed" => tab[t].next = t

(* The audit log holds exactly one first login of each account, although   *)
(* two replicas may both have found no row (upsert_user_from_claims).      *)
FirstLoginAuditedOnce ==
  \A u \in User : firsts[u] = IF account[u] = None THEN 0 ELSE 1

(* What a login leaves behind: its tab where it asked to be, and one entry *)
(* of the audit log for each account.                                      *)
LoginsAreSound == LandsWhereAsked /\ FirstLoginAuditedOnce

(* A session that was logged out or pruned never comes back: the refresh   *)
(* of a request that read it earlier must not write it again.              *)
LogoutIsFinal ==
  [][\A s \in SessionId : row[s].status = "gone" => row'[s].status = "gone"]_vars

(* Prune and resolve agree on what is dead: the worker, whose clock        *)
(* reading is older than its DELETE, takes no session that a request       *)
(* arriving now would still be given (prune_sessions, resolve_session).    *)
PruneTakesOnlyTheDead ==
  [][\A s \in SessionId : cutoff # None /\ cutoff' = None /\ Live(row[s], now)
                          => row'[s].status = "live"]_vars
=============================================================================
