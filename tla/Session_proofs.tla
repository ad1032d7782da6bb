--------------------------- MODULE Session_proofs ---------------------------
(***************************************************************************)
(* Signing in, for any users, tabs, requests and lifetimes: where a login  *)
(* ends, what the audit log says of first logins, and that neither a       *)
(* refresh nor the worker's pruning goes beyond a session's own fate.      *)
(***************************************************************************)
EXTENDS Session, TLAPS

(* A tab past the provider carries an account and its own request; having  *)
(* found the account, it finds it again.                                   *)
TabOK(t) ==
  /\ tab[t].step \in {"select", "write", "session", "landed", "failed"} =>
       tab[t].user \in User /\ tab[t].dept \in Dept /\ tab[t].next = t
  /\ tab[t].step = "write" /\ tab[t].known => account[tab[t].user] # None

RowOK(s) == row[s].status # "unused" => row[s].user \in User

(* A request names a session that was made before it came.                 *)
ReqOK(r) ==
  /\ req[r].step # "idle" =>
       /\ req[r].session \in SessionId
       /\ row[req[r].session].status # "unused"
       /\ row[req[r].session].created <= req[r].at /\ req[r].at <= now
  /\ req[r].step \in {"touch", "user", "identified"} => req[r].user \in User

JarOK == jar.session # None => row[jar.session].status # "unused"
CutoffOK == cutoff # None => cutoff \in 0..now

IInv == /\ TypeOK
        /\ \A t \in Tab : TabOK(t)
        /\ \A s \in SessionId : RowOK(s)
        /\ \A r \in Request : ReqOK(r)
        /\ JarOK /\ CutoffOK
        /\ FirstLoginAuditedOnce

Steps == {"closed", "provider", "select", "write", "session", "landed", "failed"}
AnyTab == [step : Steps, user : User \cup {None}, dept : Dept \cup {None},
           next : Tab \cup {None}, known : BOOLEAN]
AnyRow == [status : {"unused", "live", "gone"}, user : User \cup {None},
           created : 0..MaxTime, seen : 0..MaxTime]
AnyRequest == [step : {"idle", "resolve", "touch", "user", "identified"},
               session : SessionId \cup {None}, at : 0..MaxTime,
               user : User \cup {None}, dept : Dept \cup {None}]

LEMMA InitInvariant == Init => IInv
<1> SUFFICES ASSUME Init PROVE IInv
  OBVIOUS
<1>1. 0 \in 0..MaxTime
  BY LifetimesAssumption
<1>2. Unused \in AnyRow /\ ClosedTab \in AnyTab /\ NoRequest \in AnyRequest
  BY <1>1 DEF Unused, ClosedTab, NoRequest, AnyRow, AnyTab, AnyRequest, Steps
<1>3. /\ row \in [SessionId -> AnyRow] /\ tab \in [Tab -> AnyTab] /\ req \in [Request -> AnyRequest]
      /\ now \in 0..MaxTime /\ cutoff = None /\ firsts \in [User -> Nat]
      /\ account \in [User -> Dept \cup {None}]
      /\ jar \in [state : Tab \cup {None}, session : SessionId \cup {None}] /\ jar.session = None
  BY <1>1, <1>2 DEF Init
<1>4. \A s \in SessionId : row[s].created <= row[s].seen /\ row[s].seen <= now /\ RowOK(s)
  BY DEF Init, Unused, RowOK
<1>5. TypeOK
  BY <1>3, <1>4 DEF TypeOK, AnyRow, AnyTab, AnyRequest, Steps
<1>6. (\A t \in Tab : TabOK(t)) /\ (\A r \in Request : ReqOK(r)) /\ FirstLoginAuditedOnce
  BY DEF Init, TabOK, ReqOK, ClosedTab, NoRequest, FirstLoginAuditedOnce
<1> QED
  BY <1>3, <1>4, <1>5, <1>6 DEF IInv, JarOK, CutoffOK

(* A step of one tab that leaves rows, requests and time alone.            *)
LEMMA TabStep ==
  ASSUME IInv, NEW t \in Tab, NEW x \in AnyTab, tab' = [tab EXCEPT ![t] = x], TabOK(t)',
         UNCHANGED <<now, account, firsts, row, req, cutoff>>,
         jar' \in [state : Tab \cup {None}, session : SessionId \cup {None}],
         jar'.session = jar.session
  PROVE  IInv'
<1>1. tab \in [Tab -> AnyTab]
  BY DEF IInv, TypeOK, AnyTab, Steps
<1>2. tab' \in [Tab -> AnyTab] /\ \A u \in Tab \ {t} : tab'[u] = tab[u]
  BY <1>1
<1>3. TypeOK'
  BY <1>2 DEF IInv, TypeOK, AnyTab, Steps
<1>4. \A u \in Tab : TabOK(u)'
  BY <1>2 DEF IInv, TabOK
<1> QED
  BY <1>3, <1>4 DEF IInv, RowOK, ReqOK, JarOK, CutoffOK, FirstLoginAuditedOnce

(* A step of one request that leaves all else alone.                       *)
LEMMA RequestStep ==
  ASSUME IInv, NEW r \in Request, NEW x \in AnyRequest, req' = [req EXCEPT ![r] = x], ReqOK(r)',
         UNCHANGED <<now, account, firsts, row, jar, tab, cutoff>>
  PROVE  IInv'
<1>1. req \in [Request -> AnyRequest]
  BY DEF IInv, TypeOK, AnyRequest
<1>2. req' \in [Request -> AnyRequest] /\ \A u \in Request \ {r} : req'[u] = req[u]
  BY <1>1
<1>3. TypeOK'
  BY <1>2 DEF IInv, TypeOK, AnyRequest
<1>4. \A u \in Request : ReqOK(u)'
  BY <1>2 DEF IInv, ReqOK
<1> QED
  BY <1>3, <1>4 DEF IInv, RowOK, TabOK, JarOK, CutoffOK, FirstLoginAuditedOnce

(* Rows that change keep their user and their creation, and no row becomes *)
(* unused again.                                                           *)
LEMMA RowsStep ==
  ASSUME IInv, row' \in [SessionId -> AnyRow],
         \A s \in SessionId :
           /\ row'[s].created <= row'[s].seen /\ row'[s].seen <= now
           /\ row[s].status # "unused" => /\ row'[s].status # "unused"
                                          /\ row'[s].created = row[s].created
           /\ row'[s].status # "unused" => row'[s].user \in User,
         UNCHANGED <<now, account, firsts>>
  PROVE  /\ \A s \in SessionId : RowOK(s)'
         /\ \A r \in Request : req'[r] = req[r] => ReqOK(r)'
         /\ FirstLoginAuditedOnce'
         /\ \A t \in Tab : tab'[t] = tab[t] => TabOK(t)'
BY DEF IInv, RowOK, ReqOK, FirstLoginAuditedOnce, TabOK

LEMMA Types ==
  ASSUME IInv
  PROVE  /\ tab \in [Tab -> AnyTab] /\ row \in [SessionId -> AnyRow]
         /\ req \in [Request -> AnyRequest]
         /\ now \in 0..MaxTime /\ MaxTime \in Nat
         /\ jar \in [state : Tab \cup {None}, session : SessionId \cup {None}]
         /\ account \in [User -> Dept \cup {None}] /\ firsts \in [User -> Nat]
BY LifetimesAssumption DEF IInv, TypeOK, AnyTab, AnyRow, AnyRequest, Steps

LEMMA TabActions ==
  ASSUME IInv, NEW t \in Tab,
         \/ BeginLogin(t) \/ ExchangeFails(t) \/ SelectUser(t) \/ CloseTab(t)
         \/ \E u \in User, d \in Dept : Callback(t, u, d)
  PROVE  IInv'
<1>1. /\ tab \in [Tab -> AnyTab] /\ tab[t] \in AnyTab /\ TabOK(t)
      /\ jar \in [state : Tab \cup {None}, session : SessionId \cup {None}]
  BY Types DEF IInv
<1>2. ClosedTab \in AnyTab /\ ClosedTab.step = "closed"
  BY DEF ClosedTab, AnyTab, Steps
<1>3. CASE BeginLogin(t)
  <2> DEFINE x == [tab[t] EXCEPT !.step = "provider"]
  <2>1. x \in AnyTab /\ x.step = "provider"
    BY <1>1 DEF AnyTab, Steps
  <2>2. /\ tab' = [tab EXCEPT ![t] = x]
        /\ jar' = [jar EXCEPT !.state = t]
        /\ UNCHANGED <<now, account, firsts, row, req, cutoff>>
    BY <1>1, <1>3 DEF BeginLogin
  <2>3. jar' \in [state : Tab \cup {None}, session : SessionId \cup {None}]
        /\ jar'.session = jar.session
    BY <1>1, <2>2
  <2> HIDE DEF x
  <2>4. tab'[t] = x
    BY <1>1, <2>2
  <2>5. TabOK(t)'
    BY <2>1, <2>4 DEF TabOK
  <2> QED
    BY <2>1, <2>2, <2>3, <2>5, TabStep
<1>4. CASE ExchangeFails(t) \/ CloseTab(t)
  <2>1. tab' = [tab EXCEPT ![t] = ClosedTab]
        /\ UNCHANGED <<now, account, firsts, row, jar, req, cutoff>>
    BY <1>4 DEF ExchangeFails, CloseTab
  <2>2. TabOK(t)'
    BY <1>1, <1>2, <2>1 DEF TabOK
  <2> QED
    BY <1>1, <1>2, <2>1, <2>2, TabStep
<1>5. CASE SelectUser(t)
  <2> DEFINE x == [tab[t] EXCEPT !.step = "write", !.known = account[tab[t].user] # None]
  <2>1. x \in AnyTab /\ x.step = "write" /\ x.user = tab[t].user /\ x.dept = tab[t].dept
        /\ x.next = tab[t].next /\ (x.known => account[x.user] # None)
    BY <1>1 DEF AnyTab, Steps
  <2>2. tab' = [tab EXCEPT ![t] = x] /\ tab[t].step = "select"
        /\ UNCHANGED <<now, account, firsts, row, jar, req, cutoff>>
    BY <1>1, <1>5 DEF SelectUser
  <2> HIDE DEF x
  <2>3. tab'[t] = x
    BY <1>1, <2>2
  <2>4. TabOK(t)'
    BY <1>1, <2>1, <2>2, <2>3 DEF TabOK
  <2> QED
    BY <1>1, <2>1, <2>2, <2>4, TabStep
<1>6. ASSUME NEW u \in User, NEW d \in Dept, Callback(t, u, d) PROVE IInv'
  <2>1. UNCHANGED <<now, account, firsts, row, jar, req, cutoff>>
    BY <1>6 DEF Callback
  <2>2. CASE jar.state = t
    <3> DEFINE x == [step |-> "select", user |-> u, dept |-> d, next |-> jar.state, known |-> FALSE]
    <3>1. x \in AnyTab /\ x.step = "select" /\ x.user = u /\ x.dept = d /\ x.next = t
      BY <2>2 DEF AnyTab, Steps
    <3>2. tab' = [tab EXCEPT ![t] = x]
      BY <1>6, <2>2 DEF Callback
    <3> HIDE DEF x
    <3>3. TabOK(t)'
      BY <1>1, <3>1, <3>2 DEF TabOK
    <3> QED
      BY <1>1, <2>1, <3>1, <3>2, <3>3, TabStep
  <2>3. CASE jar.state # t
    <3>1. tab' = [tab EXCEPT ![t] = ClosedTab]
      BY <1>6, <2>3 DEF Callback
    <3>2. TabOK(t)'
      BY <1>1, <1>2, <3>1 DEF TabOK
    <3> QED
      BY <1>1, <1>2, <2>1, <3>1, <3>2, TabStep
  <2> QED
    BY <2>2, <2>3
<1> QED
  BY <1>3, <1>4, <1>5, <1>6

(* The first of two logins writes the account and the audit entry; the     *)
(* second finds the account or is refused by the key.                      *)
LEMMA WriteUserInvariant ==
  ASSUME IInv, NEW t \in Tab, WriteUser(t)
  PROVE  IInv'
<1> DEFINE u == tab[t].user
<1>1. /\ tab \in [Tab -> AnyTab] /\ tab[t] \in AnyTab /\ TabOK(t) /\ tab[t].step = "write"
      /\ account \in [User -> Dept \cup {None}] /\ firsts \in [User -> Nat]
      /\ jar \in [state : Tab \cup {None}, session : SessionId \cup {None}]
  BY Types DEF IInv, WriteUser
<1>2. u \in User /\ tab[t].dept \in Dept /\ tab[t].next = t
  BY <1>1 DEF TabOK
<1>3. CASE ~tab[t].known /\ account[u] # None
  <2> DEFINE x == [tab[t] EXCEPT !.step = "failed"]
  <2>1. x \in AnyTab /\ x.step = "failed" /\ x.user = u /\ x.dept = tab[t].dept /\ x.next = t
    BY <1>1, <1>2 DEF AnyTab, Steps
  <2>2. tab' = [tab EXCEPT ![t] = x] /\ UNCHANGED <<now, account, firsts, row, jar, req, cutoff>>
    BY <1>1, <1>3 DEF WriteUser
  <2> HIDE DEF x
  <2>3. TabOK(t)'
    BY <1>1, <1>2, <2>1, <2>2 DEF TabOK
  <2> QED
    BY <1>1, <2>1, <2>2, <2>3, TabStep
<1>4. CASE ~(~tab[t].known /\ account[u] # None)
  <2> DEFINE x == [tab[t] EXCEPT !.step = "session"]
             n == IF tab[t].known THEN firsts[u] ELSE firsts[u] + 1
  <2>1. x \in AnyTab /\ x.step = "session" /\ x.user = u /\ x.dept = tab[t].dept /\ x.next = t
    BY <1>1, <1>2 DEF AnyTab, Steps
  <2>2. /\ tab' = [tab EXCEPT ![t] = x]
        /\ account' = [account EXCEPT ![u] = tab[t].dept]
        /\ firsts' = [firsts EXCEPT ![u] = n]
        /\ UNCHANGED <<now, row, jar, req, cutoff>>
    BY <1>1, <1>4 DEF WriteUser
  <2>3. n = 1
    BY <1>1, <1>2, <1>4 DEF IInv, FirstLoginAuditedOnce, TabOK
  <2> HIDE DEF x, n, u
  <2>4. /\ tab' \in [Tab -> AnyTab] /\ tab'[t] = x
        /\ \A v \in Tab \ {t} : tab'[v] = tab[v]
    BY <1>1, <2>1, <2>2
  <2>5. /\ account' \in [User -> Dept \cup {None}] /\ firsts' \in [User -> Nat]
        /\ account'[u] # None /\ firsts'[u] = 1
        /\ \A v \in User \ {u} : account'[v] = account[v] /\ firsts'[v] = firsts[v]
    BY <1>1, <1>2, <2>2, <2>3, LifetimesAssumption
  <2>6. TypeOK'
    BY <2>2, <2>4, <2>5 DEF IInv, TypeOK, AnyTab, Steps
  <2>7. ASSUME NEW v \in Tab PROVE TabOK(v)'
    <3>1. CASE v = t
      BY <1>2, <2>1, <2>4, <3>1 DEF TabOK
    <3>2. CASE v # t
      BY <2>4, <2>5, <3>2 DEF IInv, TabOK
    <3> QED
      BY <3>1, <3>2
  <2>8. FirstLoginAuditedOnce'
    BY <2>5 DEF IInv, FirstLoginAuditedOnce
  <2> QED
    BY <2>2, <2>6, <2>7, <2>8 DEF IInv, RowOK, ReqOK, JarOK, CutoffOK
<1> QED
  BY <1>3, <1>4

LEMMA CreateSessionInvariant ==
  ASSUME IInv, NEW t \in Tab, NEW s \in SessionId, CreateSession(t, s)
  PROVE  IInv'
<1> DEFINE x == [tab[t] EXCEPT !.step = "landed"]
           w == NewRow(tab[t].user)
<1>1. /\ tab \in [Tab -> AnyTab] /\ tab[t] \in AnyTab /\ TabOK(t) /\ tab[t].step = "session"
      /\ row \in [SessionId -> AnyRow] /\ row[s].status = "unused" /\ now \in 0..MaxTime
  BY Types DEF IInv, CreateSession
<1>2. tab[t].user \in User /\ tab[t].dept \in Dept /\ tab[t].next = t
  BY <1>1 DEF TabOK
<1>3. x \in AnyTab /\ x.step = "landed" /\ x.user \in User /\ x.dept \in Dept /\ x.next = t
  BY <1>1, <1>2 DEF AnyTab, Steps
<1>4. w \in AnyRow /\ w.status = "live" /\ w.user \in User /\ w.created = now /\ w.seen = now
  BY <1>1, <1>2 DEF NewRow, AnyRow
<1>5. /\ tab' = [tab EXCEPT ![t] = x] /\ row' = [row EXCEPT ![s] = w]
      /\ jar' = [state |-> None, session |-> s]
      /\ UNCHANGED <<now, account, firsts, req, cutoff>>
  BY <1>1 DEF CreateSession
<1> HIDE DEF x, w
<1>6. /\ tab' \in [Tab -> AnyTab] /\ tab'[t] = x /\ \A v \in Tab \ {t} : tab'[v] = tab[v]
      /\ row' \in [SessionId -> AnyRow] /\ row'[s] = w
      /\ \A v \in SessionId \ {s} : row'[v] = row[v]
  BY <1>1, <1>3, <1>4, <1>5
<1>7. \A v \in SessionId :
        /\ row'[v].created <= row'[v].seen /\ row'[v].seen <= now
        /\ row[v].status # "unused" => /\ row'[v].status # "unused"
                                       /\ row'[v].created = row[v].created
        /\ row'[v].status # "unused" => row'[v].user \in User
  <2>1. \A v \in SessionId : row[v].created <= row[v].seen /\ row[v].seen <= now /\ RowOK(v)
    BY DEF IInv, TypeOK
  <2> QED
    BY <1>1, <1>4, <1>6, <2>1 DEF RowOK
<1>8. /\ \A v \in SessionId : RowOK(v)'
      /\ \A r \in Request : ReqOK(r)'
      /\ FirstLoginAuditedOnce'
      /\ \A v \in Tab : tab'[v] = tab[v] => TabOK(v)'
  BY <1>5, <1>6, <1>7, RowsStep
<1>9. TabOK(t)'
  BY <1>3, <1>6 DEF TabOK
<1>10. TypeOK'
  BY <1>5, <1>6, <1>7 DEF IInv, TypeOK, AnyTab, AnyRow, Steps
<1>11. JarOK' /\ CutoffOK'
  BY <1>4, <1>5, <1>6 DEF IInv, JarOK, CutoffOK
<1>12. \A v \in Tab : TabOK(v)'
  BY <1>6, <1>8, <1>9
<1> QED
  BY <1>8, <1>10, <1>11, <1>12 DEF IInv

(* Rows that are logged out, pruned or refreshed.                          *)
LEMMA RowsInvariant ==
  ASSUME IInv, row' \in [SessionId -> AnyRow],
         \A s \in SessionId :
           /\ row'[s].created <= row'[s].seen /\ row'[s].seen <= now
           /\ row[s].status # "unused" => /\ row'[s].status # "unused"
                                          /\ row'[s].created = row[s].created
           /\ row'[s].status # "unused" => row'[s].user \in User,
         UNCHANGED <<now, account, firsts, tab>>,
         req' \in [Request -> AnyRequest],
         \A r \in Request : req'[r] = req[r] \/ ReqOK(r)',
         jar' \in [state : Tab \cup {None}, session : SessionId \cup {None}],
         jar'.session \in {None, jar.session},
         cutoff' \in {None, cutoff}
  PROVE  IInv'
<1>1. /\ \A s \in SessionId : RowOK(s)'
      /\ \A r \in Request : req'[r] = req[r] => ReqOK(r)'
      /\ FirstLoginAuditedOnce'
      /\ \A t \in Tab : TabOK(t)'
  BY RowsStep
<1>2. cutoff' \in 0..MaxTime \cup {None} /\ CutoffOK'
  BY DEF IInv, TypeOK, CutoffOK
<1>3. TypeOK'
  BY <1>2 DEF IInv, TypeOK, AnyRow, AnyRequest
<1>4. JarOK'
  BY DEF IInv, TypeOK, JarOK
<1> QED
  BY <1>1, <1>2, <1>3, <1>4 DEF IInv

LEMMA LogoutInvariant == ASSUME IInv, Logout PROVE IInv'
<1> DEFINE s == jar.session
           w == [row[s] EXCEPT !.status = "gone"]
<1>1. /\ row \in [SessionId -> AnyRow] /\ req \in [Request -> AnyRequest]
      /\ jar \in [state : Tab \cup {None}, session : SessionId \cup {None}]
      /\ s \in SessionId /\ row[s].status # "unused" /\ row[s] \in AnyRow
  BY Types DEF IInv, JarOK, Logout
<1>2. w \in AnyRow /\ w.status = "gone" /\ w.user = row[s].user /\ w.created = row[s].created
      /\ w.seen = row[s].seen
  BY <1>1 DEF AnyRow
<1>3. row' = [row EXCEPT ![s] = w] /\ jar' = [jar EXCEPT !.session = None]
      /\ UNCHANGED <<now, account, firsts, tab, req, cutoff>>
  BY <1>1 DEF Logout
<1> HIDE DEF w
<1>4. row' \in [SessionId -> AnyRow] /\ row'[s] = w /\ \A v \in SessionId \ {s} : row'[v] = row[v]
  BY <1>1, <1>2, <1>3
<1>5. \A v \in SessionId : row[v].created <= row[v].seen /\ row[v].seen <= now /\ RowOK(v)
  BY DEF IInv, TypeOK
<1>6. \A v \in SessionId :
        /\ row'[v].created <= row'[v].seen /\ row'[v].seen <= now
        /\ row[v].status # "unused" => /\ row'[v].status # "unused"
                                       /\ row'[v].created = row[v].created
        /\ row'[v].status # "unused" => row'[v].user \in User
  BY <1>1, <1>2, <1>4, <1>5 DEF RowOK
<1>7. jar' \in [state : Tab \cup {None}, session : SessionId \cup {None}] /\ jar'.session = None
  BY <1>1, <1>3
<1> QED
  BY <1>1, <1>3, <1>4, <1>6, <1>7, RowsInvariant

LEMMA PruneInvariant == ASSUME IInv, Prune PROVE IInv'
<1>1. /\ row \in [SessionId -> AnyRow] /\ req \in [Request -> AnyRequest]
      /\ jar \in [state : Tab \cup {None}, session : SessionId \cup {None}]
  BY Types
<1>2. \A s \in SessionId : row[s].created <= row[s].seen /\ row[s].seen <= now /\ RowOK(s)
  BY DEF IInv, TypeOK
<1>3. cutoff' = None /\ UNCHANGED <<now, account, firsts, jar, tab, req>>
  BY DEF Prune
<1>4. ASSUME NEW s \in SessionId
      PROVE  /\ row'[s] \in AnyRow
             /\ row'[s].created = row[s].created /\ row'[s].seen = row[s].seen
             /\ row'[s].user = row[s].user
             /\ row[s].status # "unused" <=> row'[s].status # "unused"
  <2>1. row'[s] = IF row[s].status = "live" /\ Lapsed(row[s], cutoff)
                  THEN [row[s] EXCEPT !.status = "gone"] ELSE row[s]
    BY DEF Prune
  <2>2. row[s] \in AnyRow
    BY <1>1
  <2> QED
    BY <2>1, <2>2 DEF AnyRow
<1>5. row' \in [SessionId -> AnyRow]
  <2>1. row' = [s \in SessionId |-> row'[s]]
    BY DEF Prune
  <2> QED
    BY <1>4, <2>1
<1>6. \A s \in SessionId :
        /\ row'[s].created <= row'[s].seen /\ row'[s].seen <= now
        /\ row[s].status # "unused" => /\ row'[s].status # "unused"
                                       /\ row'[s].created = row[s].created
        /\ row'[s].status # "unused" => row'[s].user \in User
  BY <1>2, <1>4 DEF RowOK
<1> QED
  BY <1>1, <1>3, <1>5, <1>6, RowsInvariant

(* A refresh writes the time its request came, after the row was made.     *)
LEMMA TouchInvariant == ASSUME IInv, NEW r \in Request, TouchRow(r) PROVE IInv'
<1> DEFINE s == req[r].session
           w == [row[s] EXCEPT !.seen = req[r].at]
           x == [req[r] EXCEPT !.step = "user"]
<1>1. /\ row \in [SessionId -> AnyRow] /\ req \in [Request -> AnyRequest] /\ req[r] \in AnyRequest
      /\ jar \in [state : Tab \cup {None}, session : SessionId \cup {None}]
      /\ ReqOK(r) /\ req[r].step = "touch"
  BY Types DEF IInv, TouchRow
<1>2. /\ s \in SessionId /\ row[s] \in AnyRow /\ row[s].status # "unused"
      /\ row[s].created <= req[r].at /\ req[r].at <= now /\ req[r].user \in User
  BY <1>1 DEF ReqOK
<1>3. /\ w \in AnyRow /\ w.status = row[s].status /\ w.user = row[s].user
      /\ w.created = row[s].created /\ w.seen = req[r].at
  BY <1>1, <1>2 DEF AnyRow, AnyRequest
<1>4. /\ x \in AnyRequest /\ x.step = "user" /\ x.session = s /\ x.at = req[r].at
      /\ x.user = req[r].user
  BY <1>1 DEF AnyRequest
<1>5. /\ row' = row \/ row' = [row EXCEPT ![s] = w]
      /\ req' = [req EXCEPT ![r] = x]
      /\ UNCHANGED <<now, account, firsts, jar, tab, cutoff>>
  BY <1>1, <1>2 DEF TouchRow
<1> HIDE DEF w, x
<1>6. /\ row' \in [SessionId -> AnyRow] /\ row'[s] \in {w, row[s]}
      /\ \A v \in SessionId \ {s} : row'[v] = row[v]
      /\ req' \in [Request -> AnyRequest] /\ req'[r] = x
      /\ \A v \in Request \ {r} : req'[v] = req[v]
  BY <1>1, <1>2, <1>3, <1>4, <1>5
<1>7. \A v \in SessionId : row[v].created <= row[v].seen /\ row[v].seen <= now /\ RowOK(v)
  BY DEF IInv, TypeOK
<1>8. \A v \in SessionId :
        /\ row'[v].created <= row'[v].seen /\ row'[v].seen <= now
        /\ row[v].status # "unused" => /\ row'[v].status # "unused"
                                       /\ row'[v].created = row[v].created
        /\ row'[v].status # "unused" => row'[v].user \in User
  BY <1>2, <1>3, <1>6, <1>7 DEF RowOK
<1>9. ReqOK(r)'
  BY <1>2, <1>3, <1>4, <1>5, <1>6 DEF ReqOK
<1>10. \A v \in Request : req'[v] = req[v] \/ ReqOK(v)'
  BY <1>6, <1>9
<1> QED
  BY <1>1, <1>5, <1>6, <1>8, <1>10, RowsInvariant

LEMMA RequestActions ==
  ASSUME IInv, NEW r \in Request,
         SendRequest(r) \/ ReadRow(r) \/ Identify(r) \/ Respond(r)
  PROVE  IInv'
<1>1. /\ req \in [Request -> AnyRequest] /\ req[r] \in AnyRequest /\ ReqOK(r)
      /\ row \in [SessionId -> AnyRow] /\ now \in 0..MaxTime /\ MaxTime \in Nat
      /\ jar \in [state : Tab \cup {None}, session : SessionId \cup {None}]
      /\ account \in [User -> Dept \cup {None}]
  BY Types DEF IInv
<1>2. NoRequest \in AnyRequest /\ NoRequest.step = "idle"
  BY <1>1 DEF NoRequest, AnyRequest
<1>3. CASE SendRequest(r)
  <2> DEFINE x == [NoRequest EXCEPT !.step = "resolve", !.session = jar.session, !.at = now]
  <2>1. jar.session # None /\ req' = [req EXCEPT ![r] = x]
        /\ UNCHANGED <<now, account, firsts, row, jar, tab, cutoff>>
    BY <1>3 DEF SendRequest
  <2>2. jar.session \in SessionId
    BY <1>1, <2>1
  <2>3. /\ row[jar.session].status # "unused" /\ row[jar.session].created <= now
    <3>1. row[jar.session] \in AnyRow /\ row[jar.session].created <= row[jar.session].seen
          /\ row[jar.session].seen <= now
      BY <1>1, <2>2 DEF IInv, TypeOK
    <3> QED
      BY <1>1, <2>1, <3>1 DEF IInv, JarOK, AnyRow
  <2>4. x \in AnyRequest /\ x.step = "resolve" /\ x.session = jar.session /\ x.at = now
    BY <1>1 DEF NoRequest, AnyRequest
  <2> HIDE DEF x
  <2>5. req'[r] = x
    BY <1>1, <2>1
  <2>6. ReqOK(r)'
    BY <1>1, <2>1, <2>2, <2>3, <2>4, <2>5 DEF ReqOK
  <2> QED
    BY <2>1, <2>4, <2>6, RequestStep
<1>4. CASE ReadRow(r)
  <2> DEFINE w == row[req[r].session]
             x == [req[r] EXCEPT !.step = IF req[r].at - w.seen > Touch THEN "touch" ELSE "user",
                                 !.user = w.user]
  <2>1. req[r].step = "resolve" /\ req[r].session \in SessionId /\ w \in AnyRow
        /\ UNCHANGED <<now, account, firsts, row, jar, tab, cutoff>>
    BY <1>1, <1>4 DEF ReadRow, ReqOK
  <2>2. CASE ~Live(w, req[r].at)
    <3>1. req' = [req EXCEPT ![r] = NoRequest]
      BY <1>4, <2>2 DEF ReadRow
    <3>2. ReqOK(r)'
      BY <1>1, <1>2, <3>1 DEF ReqOK
    <3> QED
      BY <1>2, <2>1, <3>1, <3>2, RequestStep
  <2>3. CASE Live(w, req[r].at)
    <3>1. req' = [req EXCEPT ![r] = x]
      BY <1>1, <1>4, <2>3 DEF ReadRow
    <3>2. w.user \in User
      BY <2>1, <2>3 DEF Live, IInv, RowOK
    <3>3. x \in AnyRequest /\ x.session = req[r].session /\ x.at = req[r].at /\ x.user \in User
      BY <1>1, <3>2 DEF AnyRequest
    <3> HIDE DEF x
    <3>4. req'[r] = x
      BY <1>1, <3>1
    <3>5. ReqOK(r)'
      BY <1>1, <2>1, <3>3, <3>4 DEF ReqOK
    <3> QED
      BY <2>1, <3>1, <3>3, <3>5, RequestStep
  <2> QED
    BY <2>2, <2>3
<1>5. CASE Identify(r)
  <2> DEFINE x == [req[r] EXCEPT !.step = "identified", !.dept = account[req[r].user]]
  <2>1. req[r].step = "user" /\ req' = [req EXCEPT ![r] = x]
        /\ UNCHANGED <<now, account, firsts, row, jar, tab, cutoff>>
    BY <1>1, <1>5 DEF Identify
  <2>2. req[r].user \in User
    BY <1>1, <2>1 DEF ReqOK
  <2>3. x \in AnyRequest /\ x.session = req[r].session /\ x.at = req[r].at /\ x.user \in User
    BY <1>1, <2>2 DEF AnyRequest
  <2> HIDE DEF x
  <2>4. req'[r] = x
    BY <1>1, <2>1
  <2>5. ReqOK(r)'
    BY <1>1, <2>1, <2>3, <2>4 DEF ReqOK
  <2> QED
    BY <2>1, <2>3, <2>5, RequestStep
<1>6. CASE Respond(r)
  <2>1. req' = [req EXCEPT ![r] = NoRequest]
        /\ UNCHANGED <<now, account, firsts, row, jar, tab, cutoff>>
    BY <1>6 DEF Respond
  <2>2. ReqOK(r)'
    BY <1>1, <1>2, <2>1 DEF ReqOK
  <2> QED
    BY <1>2, <2>1, <2>2, RequestStep
<1> QED
  BY <1>3, <1>4, <1>5, <1>6

LEMMA StepInvariant == IInv /\ [Next]_vars => IInv'
<1> SUFFICES ASSUME IInv, [Next]_vars PROVE IInv'
  OBVIOUS
<1>1. CASE Tick
  <2>1. /\ now' \in 0..MaxTime /\ now \in 0..MaxTime /\ MaxTime \in Nat /\ now < now'
        /\ UNCHANGED <<account, firsts, row, jar, tab, req, cutoff>>
    BY <1>1, Types DEF Tick
  <2>2. \A s \in SessionId : row[s].seen <= now'
    <3>1. \A s \in SessionId : row[s] \in AnyRow /\ row[s].seen <= now
      BY Types DEF IInv, TypeOK
    <3> QED
      BY <2>1, <3>1 DEF AnyRow
  <2>3. TypeOK'
    BY <2>1, <2>2 DEF IInv, TypeOK
  <2>4. ASSUME NEW r \in Request PROVE ReqOK(r)'
    <3>1. req[r] \in AnyRequest /\ ReqOK(r)
      BY Types DEF IInv
    <3>2. req[r].at \in 0..MaxTime
      BY <3>1 DEF AnyRequest
    <3> QED
      BY <2>1, <3>1, <3>2 DEF ReqOK
  <2>5. CutoffOK'
    BY <2>1 DEF IInv, CutoffOK
  <2> QED
    BY <2>1, <2>3, <2>4, <2>5 DEF IInv, TabOK, RowOK, JarOK, FirstLoginAuditedOnce
<1>2. CASE BeginMaintenance
  <2>1. cutoff' = now /\ UNCHANGED <<now, account, firsts, row, jar, tab, req>> /\ now \in 0..MaxTime
    BY <1>2, Types DEF BeginMaintenance
  <2>2. TypeOK' /\ CutoffOK'
    BY <2>1 DEF IInv, TypeOK, CutoffOK
  <2> QED
    BY <2>1, <2>2 DEF IInv, TabOK, RowOK, ReqOK, JarOK, FirstLoginAuditedOnce
<1>3. CASE Logout \/ Prune
  BY <1>3, LogoutInvariant, PruneInvariant
<1>4. CASE \E t \in Tab : \/ BeginLogin(t) \/ ExchangeFails(t) \/ SelectUser(t) \/ CloseTab(t)
                        \/ \E u \in User, d \in Dept : Callback(t, u, d)
  BY <1>4, TabActions
<1>5. CASE \E t \in Tab : WriteUser(t) \/ \E s \in SessionId : CreateSession(t, s)
  BY <1>5, WriteUserInvariant, CreateSessionInvariant
<1>6. CASE \E r \in Request : SendRequest(r) \/ ReadRow(r) \/ Identify(r) \/ Respond(r)
  BY <1>6, RequestActions
<1>7. CASE \E r \in Request : TouchRow(r)
  BY <1>7, TouchInvariant
<1>8. CASE UNCHANGED vars
  BY <1>8 DEF vars, IInv, TypeOK, TabOK, RowOK, ReqOK, JarOK, CutoffOK, FirstLoginAuditedOnce
<1> QED
  BY <1>1, <1>2, <1>3, <1>4, <1>5, <1>6, <1>7, <1>8 DEF Next

(* The types, and that no row is seen before it is made or after now.      *)
THEOREM TypeCorrect == Spec => []TypeOK
<1>1. IInv => TypeOK
  BY DEF IInv
<1> QED
  BY InitInvariant, StepInvariant, <1>1, PTL DEF Spec

(* Whatever tabs share the browser's cookies: a login that ends, ends at   *)
(* the page its own tab asked for.                                         *)
THEOREM LoginsLand == Spec => []LandsWhereAsked
<1>1. IInv => LandsWhereAsked
  BY DEF IInv, TabOK, LandsWhereAsked
<1> QED
  BY InitInvariant, StepInvariant, <1>1, PTL DEF Spec

(* However many first logins of an account race, the audit log holds one.  *)
THEOREM OneFirstLogin == Spec => []FirstLoginAuditedOnce
<1>1. IInv => FirstLoginAuditedOnce
  BY DEF IInv
<1> QED
  BY InitInvariant, StepInvariant, <1>1, PTL DEF Spec

(* Both at once: what a login leaves behind is as it should be.            *)
THEOREM LoginsKeepTheirPromise == Spec => []LoginsAreSound
<1>1. LandsWhereAsked /\ FirstLoginAuditedOnce => LoginsAreSound
  BY DEF LoginsAreSound
<1> QED
  BY <1>1, LoginsLand, OneFirstLogin, PTL

(* A session that is logged out or pruned stays so, whichever requests and *)
(* logins were under way.                                                  *)
THEOREM LogoutsAreFinal == Spec => LogoutIsFinal
<1> DEFINE Final == \A s \in SessionId : row[s].status = "gone" => row'[s].status = "gone"
<1>1. IInv /\ [Next]_vars => [Final]_vars
  <2> SUFFICES ASSUME IInv, Next, NEW s \in SessionId, row[s].status = "gone"
               PROVE  row'[s].status = "gone"
    OBVIOUS
  <2>1. row \in [SessionId -> AnyRow] /\ row[s] \in AnyRow
    BY Types
  <2>2. CASE UNCHANGED row
    BY <2>2
  <2>3. CASE Logout
    BY <2>1, <2>3 DEF Logout, AnyRow
  <2>4. CASE Prune
    BY <2>1, <2>4 DEF Prune, AnyRow
  <2>5. ASSUME NEW t \in Tab, NEW v \in SessionId, CreateSession(t, v)
        PROVE  row'[s].status = "gone"
    BY <2>1, <2>5 DEF CreateSession
  <2>6. ASSUME NEW r \in Request, TouchRow(r) PROVE row'[s].status = "gone"
    <3>1. CASE req[r].session = s
      BY <2>6, <3>1 DEF TouchRow
    <3>2. CASE req[r].session # s
      BY <2>1, <2>6, <3>2 DEF TouchRow
    <3> QED
      BY <3>1, <3>2
  <2> QED
    BY <2>2, <2>3, <2>4, <2>5, <2>6 DEF Next, Tick, BeginMaintenance, BeginLogin, ExchangeFails,
       SelectUser, WriteUser, CloseTab, Callback, SendRequest, ReadRow, Identify, Respond
<1> QED
  BY InitInvariant, StepInvariant, <1>1, PTL DEF Spec, LogoutIsFinal

(* The worker prunes by a clock reading that is older than its DELETE: it  *)
(* takes no session that a request would still be given.                   *)
THEOREM PruningIsSafe == Spec => PruneTakesOnlyTheDead
<1> DEFINE Safe == \A s \in SessionId : cutoff # None /\ cutoff' = None /\ Live(row[s], now)
                                           => row'[s].status = "live"
<1>1. IInv /\ [Next]_vars => [Safe]_vars
  <2> SUFFICES ASSUME IInv, Next, NEW s \in SessionId,
                      cutoff # None, cutoff' = None, Live(row[s], now)
               PROVE  row'[s].status = "live"
    OBVIOUS
  <2>1. Prune
    BY DEF Next, Tick, Logout, BeginMaintenance, BeginLogin, ExchangeFails, SelectUser, WriteUser,
       CloseTab, Callback, CreateSession, SendRequest, ReadRow, TouchRow, Identify, Respond
  <2>2. row[s] \in AnyRow /\ cutoff \in 0..now /\ now \in Nat /\ Idle \in Nat /\ Absolute \in Nat
    BY Types, LifetimesAssumption DEF IInv, CutoffOK
  <2>3. ~Lapsed(row[s], now) /\ row[s].status = "live"
    BY DEF Live
  <2>4. ~Lapsed(row[s], cutoff)
    <3>1. row[s].created \in Nat /\ row[s].seen \in Nat /\ cutoff \in Nat /\ cutoff <= now
      BY <2>2, LifetimesAssumption DEF AnyRow
    <3> QED
      BY <2>2, <2>3, <3>1 DEF Lapsed
  <2> QED
    BY <2>1, <2>3, <2>4 DEF Prune
<1> QED
  BY InitInvariant, StepInvariant, <1>1, PTL DEF Spec, PruneTakesOnlyTheDead
=============================================================================
