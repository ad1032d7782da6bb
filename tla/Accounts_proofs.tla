-------------------------- MODULE Accounts_proofs --------------------------
(***************************************************************************)
(* Proofs about Access, SignOff, Catalog and VersionDiff, for every number *)
(* of replicas, users, grants, products, versions, requests and calls.  Of *)
(* Access: Inv and the audit log.  Of SignOff, the instance S: the freeze. *)
(* Of Catalog, the instance C: the rows of products, versions and clones,  *)
(* and the jobs of busy bindings.  Of VersionDiff, the instance V: the     *)
(* verdict.                                                                *)
(***************************************************************************)
EXTENDS Access, FiniteSetTheorems, WellFoundedInduction, TLAPS

Ops == {"write", "acquire", "release", "force", "delete", "grant", "revoke"}
Steps == {"idle", "role", "lock", "scope", "insert", "revoking"} \cup Ops

RowSet == [grant : Grant, nth : Nat \ {0}]

Req == [step : Steps, op : Ops \cup {"none"}, user : User \cup {None},
        dept : Dept \cup {None}, product : Product \cup {None},
        grant : Grant \cup {None}, row : RowSet \cup {None}]

Lock == [by : User \cup {None}, fresh : BOOLEAN]

Typed ==
  /\ grants \subseteq RowSet
  /\ created \in [Grant -> Nat]
  /\ dept \in [User -> Dept \cup {None}]
  /\ product \subseteq Product
  /\ lock \in [Product -> Lock]
  /\ calls \in 0..MaxCalls
  /\ req \in [Request -> Req]

(* No department has more than a viewer's role. *)
ViewersOnly == \A x \in grants : x.grant.role # "viewer" => x.grant.grantee \in User

(* A request to grant names a grant; one to revoke a row that was created. *)
Named(q, given) ==
  /\ q.step \in {"scope", "insert"} => q.grant \in Grant
  /\ q.step \in {"revoke", "revoking"} => q.row \in given
  /\ q.step = "role" => /\ q.op \in Ops
                        /\ q.op = "grant" => q.grant \in Grant
                        /\ q.op = "revoke" => q.row \in given

Inv ==
  /\ Typed /\ ViewersOnly /\ AuditExplainsGrants
  /\ \A r \in Request : Named(req[r], Given)

-----------------------------------------------------------------------------
(* The rows that were created.                                             *)

GivenBy(c) == UNION {{Row(g, n) : n \in 1..c[g]} : g \in Grant}

LEMMA GivenRows ==
  ASSUME NEW c \in [Grant -> Nat]
  PROVE  /\ GivenBy(c) \subseteq RowSet
         /\ \A x \in RowSet : x \in GivenBy(c) <=> x.nth <= c[x.grant]
<1>1. \A x : x \in GivenBy(c) <=> \E g \in Grant : \E n \in 1..c[g] : x = Row(g, n)
  BY DEF GivenBy
<1>2. \A g \in Grant : c[g] \in Nat
  OBVIOUS
<1>3. ASSUME NEW x \in GivenBy(c) PROVE x \in RowSet /\ x.nth <= c[x.grant]
  <2>1. PICK g \in Grant : \E n \in 1..c[g] : x = Row(g, n)
    BY <1>1
  <2>2. PICK n \in 1..c[g] : x = Row(g, n)
    BY <2>1
  <2>3. n \in Nat \ {0} /\ n <= c[g]
    BY <1>2
  <2> QED
    BY <2>2, <2>3 DEF Row, RowSet
<1>4. ASSUME NEW x \in RowSet, x.nth <= c[x.grant] PROVE x \in GivenBy(c)
  <2>1. x = Row(x.grant, x.nth) /\ x.grant \in Grant /\ x.nth \in 1..c[x.grant]
    BY <1>2, <1>4 DEF Row, RowSet
  <2> QED
    BY <1>1, <2>1
<1> QED
  BY <1>3, <1>4

LEMMA GivenIs == Given = GivenBy(created) /\ Given' = GivenBy(created')
  BY DEF Given, GivenBy

(* What Give does to rows and log: a new row of g in both, or nothing.     *)
LEMMA Gives ==
  ASSUME Inv, NEW g \in Grant, Give(g)
  PROVE  /\ created' \in [Grant -> Nat] /\ grants' \subseteq RowSet
         /\ \A x \in grants' : x \in grants \/ x.grant = g
         /\ Given \subseteq Given'
         /\ \/ grants' = grants /\ Given' = Given
            \/ \E x \in RowSet : /\ x \notin Given
                                 /\ grants' = grants \cup {x} /\ Given' = Given \cup {x}
<1>1. created \in [Grant -> Nat] /\ grants \subseteq RowSet
  BY DEF Inv, Typed
<1>2. CASE UNCHANGED <<grants, created>>
  <2>1. Given' = Given
    BY <1>2 DEF Given
  <2> QED
    BY <1>1, <1>2, <2>1
<1>3. CASE /\ grants' = grants \cup {Row(g, created[g] + 1)}
           /\ created' = [created EXCEPT ![g] = @ + 1]
  <2> DEFINE x == Row(g, created[g] + 1)
  <2>1. x \in RowSet /\ x.grant = g /\ x.nth = created[g] + 1 /\ created[g] \in Nat
    BY <1>1 DEF Row, RowSet
  <2>2. /\ created' \in [Grant -> Nat] /\ created'[g] = created[g] + 1
        /\ \A h \in Grant : h # g => created'[h] = created[h]
    BY <1>1, <1>3
  <2>3. /\ Given \subseteq RowSet /\ Given' \subseteq RowSet
        /\ \A y \in RowSet : y \in Given <=> y.nth <= created[y.grant]
        /\ \A y \in RowSet : y \in Given' <=> y.nth <= created'[y.grant]
    BY <1>1, <2>2, GivenRows, GivenIs
  <2> HIDE DEF x
  <2>4. \A y \in RowSet : y.grant = g /\ y.nth = created[g] + 1 => y = x
    BY <2>1 DEF RowSet
  <2>5. ASSUME NEW y \in RowSet PROVE y \in Given' <=> y \in Given \/ y = x
    <3>1. y.grant \in Grant /\ y.nth \in Nat
      BY DEF RowSet
    <3>2. CASE y.grant # g
      BY <2>1, <2>2, <2>3, <3>1, <3>2
    <3>3. CASE y.grant = g
      BY <2>1, <2>2, <2>3, <2>4, <3>1, <3>3
    <3> QED
      BY <3>2, <3>3
  <2>6. Given' = Given \cup {x}
    BY <2>1, <2>3, <2>5
  <2>7. x \notin Given
    BY <2>1, <2>3
  <2>8. grants' = grants \cup {x}
    BY <1>3 DEF x
  <2> QED
    BY <1>1, <2>1, <2>2, <2>6, <2>7, <2>8
<1> QED
  BY <1>2, <1>3 DEF Give

-----------------------------------------------------------------------------
(* Steps that only move a request on.                                      *)

LEMMA NoRequestShape ==
  NoRequest \in Req /\ NoRequest.step = "idle" /\ \A given : Named(NoRequest, given)
  BY DEF NoRequest, Req, Ops, Steps, Named

(* The request r becomes q; grants are not touched.                        *)
LEMMA RequestMoved ==
  ASSUME Inv, NEW r \in Request, NEW q \in Req, req' = [req EXCEPT ![r] = q],
         Named(q, Given), UNCHANGED <<grants, created, revoked, dept>>,
         product' \subseteq Product, lock' \in [Product -> Lock], calls' \in 0..MaxCalls
  PROVE  Inv'
<1>1. req' \in [Request -> Req] /\ req'[r] = q
      /\ \A s \in Request : s # r => req'[s] = req[s]
  BY DEF Inv, Typed
<1>2. Given' = Given
  BY DEF Given
<1>3. \A s \in Request : Named(req'[s], Given')
  BY <1>1, <1>2 DEF Inv
<1>4. Typed' /\ ViewersOnly' /\ AuditExplainsGrants'
  BY <1>1, <1>2 DEF Inv, Typed, ViewersOnly, AuditExplainsGrants
<1> QED
  BY <1>3, <1>4 DEF Inv

(* The request r goes on to step s, or is answered.                        *)
LEMMA StepMoved ==
  ASSUME Inv, NEW r \in Request, NEW s \in Steps, To(r, s) \/ Done(r),
         s \in {"scope", "insert"} => req[r].grant \in Grant,
         s \in {"revoke", "revoking"} => req[r].row \in Given,
         s # "role", UNCHANGED <<grants, created, revoked, dept>>,
         product' \subseteq Product, lock' \in [Product -> Lock], calls' \in 0..MaxCalls
  PROVE  Inv'
<1>1. CASE Done(r)
  BY <1>1, NoRequestShape, RequestMoved DEF Done
<1>2. CASE To(r, s)
  <2> DEFINE q == [req[r] EXCEPT !.step = s]
  <2>1. req[r] \in Req /\ req' = [req EXCEPT ![r] = q]
    BY <1>2 DEF To, Inv, Typed
  <2>2. q \in Req /\ q.step = s /\ q.grant = req[r].grant /\ q.row = req[r].row
    BY <2>1 DEF Req
  <2> HIDE DEF q
  <2>3. Named(q, Given)
    BY <2>2 DEF Named
  <2> QED
    BY <2>1, <2>2, <2>3, RequestMoved
<1> QED
  BY <1>1, <1>2

LEMMA ArriveInv ==
  ASSUME Inv, NEW r \in Request, NEW u \in User, NEW op \in Ops,
         NEW p \in Product \cup {None}, NEW g \in Grant \cup {None},
         NEW x \in Given \cup {None},
         op = "grant" => g \in Grant, op = "revoke" => x \in Given,
         GrantsAssumption, Arrive(r, u, op, p, g, x)
  PROVE  Inv'
<1> DEFINE q == [step |-> "role", op |-> op, user |-> u, dept |-> dept[u],
                 product |-> p, grant |-> g, row |-> x]
<1>1. req' = [req EXCEPT ![r] = q] /\ calls' \in 0..MaxCalls /\ dept[u] \in Dept \cup {None}
  BY DEF Arrive, Inv, Typed, GrantsAssumption
<1>2. x \in RowSet \cup {None}
  BY GivenRows, GivenIs DEF Inv, Typed
<1>3. q \in Req /\ q.step = "role" /\ q.op = op /\ q.grant = g /\ q.row = x
  BY <1>1, <1>2 DEF Req, Ops, Steps
<1> HIDE DEF q
<1>4. Named(q, Given)
  BY <1>3 DEF Named
<1> QED
  BY <1>1, <1>3, <1>4, RequestMoved DEF Arrive, Inv, Typed

LEMMA CheckRoleInv == ASSUME Inv, NEW r \in Request, CheckRole(r) PROVE Inv'
<1> DEFINE s == AfterRole(req[r].op)
<1>1. /\ req[r].op \in Ops /\ (req[r].op = "grant" => req[r].grant \in Grant)
      /\ req[r].op = "revoke" => req[r].row \in Given
  BY DEF CheckRole, Inv, Named
<1>2. /\ s \in Steps /\ s # "role"
      /\ s \in {"scope", "insert"} => req[r].grant \in Grant
      /\ s \in {"revoke", "revoking"} => req[r].row \in Given
  BY <1>1 DEF AfterRole, Ops, Steps
<1>3. To(r, s) \/ Done(r)
  BY DEF CheckRole
<1> HIDE DEF s
<1> QED
  BY <1>2, <1>3, StepMoved DEF CheckRole, Inv, Typed

LEMMA LocksInv ==
  ASSUME Inv, NEW r \in Request,
         CheckLock(r) \/ Write(r) \/ Acquire(r) \/ Release(r) \/ ForceRelease(r)
  PROVE  Inv'
<1>1. lock \in [Product -> Lock] /\ req[r].user \in User \cup {None}
      /\ Unlocked \in Lock
  BY DEF Inv, Typed, Req, Lock, Unlocked
<1>2. lock' \in [Product -> Lock]
  <2>1. [by |-> req[r].user, fresh |-> TRUE] \in Lock
    BY <1>1 DEF Lock
  <2> DEFINE mine == [by |-> req[r].user, fresh |-> TRUE]
             p == req[r].product
  <2>2. lock' = lock \/ lock' = [lock EXCEPT ![p] = mine] \/ lock' = [lock EXCEPT ![p] = Unlocked]
    BY DEF CheckLock, Write, Acquire, Release, ForceRelease
  <2> HIDE DEF mine, p
  <2> QED
    BY <1>1, <2>1, <2>2 DEF mine
<1>3. To(r, "write") \/ Done(r)
  BY DEF CheckLock, Write, Acquire, Release, ForceRelease
<1>4. "write" \in Steps
  BY DEF Steps, Ops
<1>5. UNCHANGED <<grants, created, revoked, dept, product, calls>>
  BY DEF CheckLock, Write, Acquire, Release, ForceRelease
<1> QED
  BY <1>2, <1>3, <1>4, <1>5, StepMoved DEF Inv, Typed

LEMMA MovesInv ==
  ASSUME Inv, NEW r \in Request, CheckScope(r) \/ SelectGrant(r) \/ DeleteProduct(r)
  PROVE  Inv'
<1>1. "insert" \in Steps /\ "revoking" \in Steps
  BY DEF Steps
<1>2. /\ req[r].step = "scope" => req[r].grant \in Grant
      /\ req[r].step = "revoke" => req[r].row \in Given
  BY DEF Inv, Named
<1>3. CASE CheckScope(r)
  BY <1>1, <1>2, <1>3, StepMoved DEF CheckScope, Inv, Typed
<1>4. CASE SelectGrant(r)
  BY <1>1, <1>2, <1>4, StepMoved DEF SelectGrant, Inv, Typed
<1>5. CASE DeleteProduct(r)
  <2>1. "write" \in Steps /\ product' \subseteq Product
    BY <1>5 DEF DeleteProduct, Inv, Typed, Steps, Ops
  <2> QED
    BY <1>5, <2>1, StepMoved DEF DeleteProduct, Inv, Typed
<1> QED
  BY <1>3, <1>4, <1>5

-----------------------------------------------------------------------------
(* Steps that change the grants.                                           *)

(* Some requests are answered, and no row created before is forgotten.     *)
LEMMA AnsweredNamed ==
  ASSUME Inv, Given \subseteq Given', NEW R \in SUBSET Request,
         req' = [r \in Request |-> IF r \in R THEN NoRequest ELSE req[r]]
  PROVE  req' \in [Request -> Req] /\ \A r \in Request : Named(req'[r], Given')
<1>1. req' \in [Request -> Req]
  BY NoRequestShape DEF Inv, Typed
<1>2. ASSUME NEW r \in Request PROVE Named(req'[r], Given')
  <2>1. CASE r \in R
    BY <2>1, NoRequestShape
  <2>2. CASE r \notin R
    BY <2>2 DEF Named, Inv
  <2> QED
    BY <2>1, <2>2
<1> QED
  BY <1>1, <1>2

(* Other replicas revoke meanwhile what they like: a row that is created   *)
(* now is in nobody's hands, and its id was never in the log.              *)
LEMMA GiveInv ==
  ASSUME Inv, NEW g \in Grant, g.role # "viewer" => g.grantee \in User,
         Give(g) \/ UNCHANGED <<grants, created>>, NEW R \in SUBSET Request,
         req' = [r \in Request |-> IF r \in R THEN NoRequest ELSE req[r]],
         calls' \in 0..MaxCalls, UNCHANGED <<revoked, dept, product, lock>>
  PROVE  Inv'
<1>1. /\ created' \in [Grant -> Nat] /\ grants' \subseteq RowSet
      /\ \A x \in grants' : x \in grants \/ x.grant = g
      /\ Given \subseteq Given'
      /\ \/ grants' = grants /\ Given' = Given
         \/ \E x \in RowSet : /\ x \notin Given
                              /\ grants' = grants \cup {x} /\ Given' = Given \cup {x}
  <2>1. CASE Give(g)
    BY <2>1, Gives
  <2>2. CASE UNCHANGED <<grants, created>>
    BY <2>2 DEF Given, Inv, Typed
  <2> QED
    BY <2>1, <2>2
<1>2. AuditExplainsGrants'
  BY <1>1 DEF Inv, AuditExplainsGrants
<1>3. ViewersOnly'
  BY <1>1 DEF Inv, ViewersOnly
<1>4. req' \in [Request -> Req] /\ \A r \in Request : Named(req'[r], Given')
  BY <1>1, AnsweredNamed
<1> QED
  BY <1>1, <1>2, <1>3, <1>4 DEF Inv, Typed

LEMMA InsertGrantInv ==
  ASSUME GrantsAssumption, Inv, NEW r \in Request, InsertGrant(r) PROVE Inv'
<1> DEFINE g == req[r].grant
<1>1. g \in Grant /\ req' = [q \in Request |-> IF q \in {r} THEN NoRequest ELSE req[q]]
  BY DEF InsertGrant, Done, Inv, Named, Typed
<1>2. (Give(g) /\ Allowed(g)) \/ UNCHANGED <<grants, created>>
  BY DEF InsertGrant
<1>3. calls' \in 0..MaxCalls /\ UNCHANGED <<revoked, dept, product, lock>>
  BY DEF InsertGrant, Inv, Typed
<1>4. CASE Give(g) /\ Allowed(g)
  <2>1. g.role # "viewer" => g.grantee \in User
    BY <1>1, <1>4 DEF GrantsAssumption, Allowed
  <2> HIDE DEF g
  <2> QED
    BY <1>1, <1>3, <1>4, <2>1, GiveInv
<1>5. CASE UNCHANGED <<grants, created>>
  <2>1. calls' = calls /\ Done(r) /\ "write" \in Steps
    BY DEF InsertGrant, Steps, Ops
  <2> QED
    BY <1>3, <1>5, <2>1, StepMoved DEF Inv, Typed
<1> QED
  BY <1>2, <1>4, <1>5

(* The row deleted and recorded was created once, by whomever it was       *)
(* deleted already.                                                        *)
LEMMA DeleteGrantInv ==
  ASSUME Inv, NEW r \in Request, DeleteGrant(r) PROVE Inv'
<1>1. req[r].row \in Given /\ Given' = Given
  BY DEF DeleteGrant, Inv, Named, Given
<1>2. AuditExplainsGrants'
  BY <1>1 DEF DeleteGrant, Inv, AuditExplainsGrants
<1>3. req' = [q \in Request |-> IF q \in {r} THEN NoRequest ELSE req[q]]
  BY DEF DeleteGrant, Done, Inv, Typed
<1>4. req' \in [Request -> Req] /\ \A q \in Request : Named(req'[q], Given')
  BY <1>1, <1>3, AnsweredNamed
<1>5. grants' \subseteq grants
  BY DEF DeleteGrant
<1>6. Typed' /\ ViewersOnly'
  BY <1>4, <1>5 DEF DeleteGrant, Inv, Typed, ViewersOnly
<1> QED
  BY <1>2, <1>4, <1>6 DEF Inv

LEMMA BootInv ==
  ASSUME GrantsAssumption, Inv, NEW a, NEW u \in Bootstrap, Boot(a, u) PROVE Inv'
<1> DEFINE R == {r \in Request : At[r] = a}
           g == AdminOf(u)
<1>1. g \in Grant /\ g.grantee \in User
  BY DEF GrantsAssumption, AdminOf
<1>2. req' = [r \in Request |-> IF r \in R THEN NoRequest ELSE req[r]] /\ Give(g)
  BY DEF Boot
<1>3. calls' \in 0..MaxCalls /\ UNCHANGED <<revoked, dept, product, lock>>
  BY DEF Boot, Inv, Typed, GrantsAssumption
<1> HIDE DEF R, g
<1>4. R \in SUBSET Request
  BY DEF R
<1> QED
  BY <1>1, <1>2, <1>3, <1>4, GiveInv

LEMMA OthersInv ==
  ASSUME GrantsAssumption, Inv,
         \/ \E u \in User, d \in Dept : Transfer(u, d)
         \/ \E p \in Product : LapseLock(p)
  PROVE  Inv'
<1>1. /\ UNCHANGED <<grants, created, revoked, product, req>> /\ calls' \in 0..MaxCalls
      /\ Given' = Given
  BY DEF Transfer, LapseLock, Inv, Typed, GrantsAssumption, Given
<1>2. dept' \in [User -> Dept \cup {None}]
  BY DEF Transfer, LapseLock, Inv, Typed
<1>3. lock' \in [Product -> Lock]
  <2>1. CASE lock' = lock
    BY <2>1 DEF Inv, Typed
  <2>2. CASE \E p \in Product : LapseLock(p)
    <3>1. PICK p \in Product : LapseLock(p)
      BY <2>2
    <3> DEFINE k == [lock[p] EXCEPT !.fresh = FALSE]
    <3>2. lock' = [lock EXCEPT ![p] = k] /\ lock[p] \in Lock
      BY <3>1 DEF LapseLock, Inv, Typed
    <3>3. k \in Lock
      BY <3>2 DEF Lock
    <3> HIDE DEF k
    <3> QED
      BY <3>2, <3>3 DEF Inv, Typed
  <2> QED
    BY <2>1, <2>2 DEF Transfer
<1> QED
  BY <1>1, <1>2, <1>3 DEF Inv, Typed, ViewersOnly, AuditExplainsGrants

-----------------------------------------------------------------------------
(* The invariant.                                                          *)

LEMMA InitInv == ASSUME GrantsAssumption, Init PROVE Inv
<1>0. created \in [Grant -> Nat]
  BY DEF Init
<1>1. \A x : x \in grants <=> \E u \in Bootstrap : x = Row(AdminOf(u), 1)
  BY DEF Init
<1>2. \A u \in Bootstrap : /\ AdminOf(u) \in Grant /\ AdminOf(u).grantee \in User
                           /\ Row(AdminOf(u), 1) \in RowSet
                           /\ Row(AdminOf(u), 1).grant = AdminOf(u)
                           /\ Row(AdminOf(u), 1).nth = 1
  <2>1. \A u \in Bootstrap : AdminOf(u) \in Grant /\ AdminOf(u).grantee \in User
    BY DEF GrantsAssumption, AdminOf
  <2> QED
    BY <2>1 DEF Row, RowSet
<1>3. \A g \in Grant : created[g] = IF \E x \in grants : x.grant = g THEN 1 ELSE 0
  BY DEF Init, InForce
<1>4. ASSUME NEW x \in RowSet PROVE x \in grants <=> x.nth <= created[x.grant]
  <2>1. x.grant \in Grant /\ x.nth \in Nat \ {0} /\ x = Row(x.grant, x.nth)
    BY DEF RowSet, Row
  <2>2. CASE x \in grants
    BY <1>1, <1>2, <1>3, <2>1, <2>2
  <2>3. CASE x \notin grants /\ \E y \in grants : y.grant = x.grant
    <3>1. PICK y \in grants : y.grant = x.grant
      BY <2>3
    <3>2. y = Row(x.grant, 1)
      BY <1>1, <1>2, <3>1
    <3>3. x.nth # 1 /\ created[x.grant] = 1
      BY <1>3, <2>1, <2>3, <3>2
    <3> QED
      BY <2>1, <2>3, <3>3
  <2>4. CASE x \notin grants /\ ~\E y \in grants : y.grant = x.grant
    BY <1>3, <2>1, <2>4
  <2> QED
    BY <2>2, <2>3, <2>4
<1>5. grants \subseteq RowSet /\ ViewersOnly
  BY <1>1, <1>2 DEF ViewersOnly
<1>6. grants = Given
  BY <1>0, <1>4, <1>5, GivenRows, GivenIs
<1>7. AuditExplainsGrants
  BY <1>6 DEF Init, AuditExplainsGrants
<1>8. /\ lock \in [Product -> Lock] /\ req \in [Request -> Req] /\ calls \in 0..MaxCalls
      /\ dept \in [User -> Dept \cup {None}] /\ product \subseteq Product
  BY NoRequestShape DEF Init, Lock, Unlocked, GrantsAssumption
<1>9. \A r \in Request : Named(req[r], Given)
  BY NoRequestShape DEF Init
<1> QED
  BY <1>0, <1>5, <1>7, <1>8, <1>9 DEF Inv, Typed

LEMMA ArrivalsInv ==
  ASSUME GrantsAssumption, Inv, NEW r \in Request,
         \/ \E u \in User, p \in Product, op \in {"write", "acquire", "release", "force", "delete"} :
              Arrive(r, u, op, p, None, None)
         \/ \E u \in User, g \in Grant : Arrive(r, u, "grant", None, g, None)
         \/ \E u \in User, x \in Given : Arrive(r, u, "revoke", None, None, x)
  PROVE  Inv'
  BY ArriveInv DEF Ops

LEMMA NextInv == ASSUME GrantsAssumption, Inv, [Next]_vars PROVE Inv'
<1>1. CASE \E a \in Web, u \in Bootstrap : Boot(a, u)
  BY <1>1, BootInv
<1>2. CASE \/ \E u \in User, d \in Dept : Transfer(u, d)
           \/ \E p \in Product : LapseLock(p)
  BY <1>2, OthersInv
<1>3. CASE \E r \in Request :
             \/ \E u \in User, p \in Product,
                   op \in {"write", "acquire", "release", "force", "delete"} :
                  Arrive(r, u, op, p, None, None)
             \/ \E u \in User, g \in Grant : Arrive(r, u, "grant", None, g, None)
             \/ \E u \in User, x \in Given : Arrive(r, u, "revoke", None, None, x)
  BY <1>3, ArrivalsInv
<1>4. CASE \E r \in Request :
             \/ CheckRole(r) \/ CheckLock(r) \/ Write(r)
             \/ Acquire(r) \/ Release(r) \/ ForceRelease(r)
             \/ CheckScope(r) \/ SelectGrant(r) \/ DeleteProduct(r)
  BY <1>4, CheckRoleInv, LocksInv, MovesInv
<1>5. CASE \E r \in Request : InsertGrant(r) \/ DeleteGrant(r)
  BY <1>5, InsertGrantInv, DeleteGrantInv
<1>6. CASE UNCHANGED vars
  BY <1>6 DEF vars, Inv, Typed, ViewersOnly, AuditExplainsGrants, Given
<1> QED
  BY <1>1, <1>2, <1>3, <1>4, <1>5, <1>6 DEF Next

(* Whatever the grants and the locks do under it, a request that is about
   a grant has one, one to revoke names a row that was created, and log and
   rows agree (guards.py, auth.py).                                        *)
THEOREM InvAlways == ASSUME GrantsAssumption PROVE Spec => []Inv
<1>1. Init => Inv
  BY InitInv
<1>2. Inv /\ [Next]_vars => Inv'
  BY NextInv
<1> QED
  BY <1>1, <1>2, PTL DEF Spec

(* Every variable keeps its type, and a department never has more than a
   viewer's role (add_grant, auth.py).                                     *)
THEOREM TypeCorrect == ASSUME GrantsAssumption PROVE Spec => []TypeOK
<1>1. Inv => TypeOK
  BY DEF Inv, Typed, ViewersOnly, TypeOK, Lock, Req, RowSet
<1> QED
  BY <1>1, InvAlways, PTL

(* The rows in force are those with a create and no revoke entry, however
   many replicas revoke, grant and restart side by side: guards.py, the
   audit log "only records successful mutations".                          *)
THEOREM AuditIsTrue == ASSUME GrantsAssumption PROVE Spec => []AuditExplainsGrants
<1>1. Inv => AuditExplainsGrants
  BY DEF Inv
<1> QED
  BY <1>1, InvAlways, PTL
-----------------------------------------------------------------------------
(* Sign-off.                                                               *)

CONSTANTS Image, Replica, MaxFaults

VARIABLES signature, evidence, handler, signCalls, faults

S == INSTANCE SignOff WITH
       row <- signature, blob <- evidence, call <- handler, calls <- signCalls

Images == Image \cup {None}
Signature == [by : User \cup {None}, evidence : Images, dam : BOOLEAN]

(* A call that met the version unsigned is early; a call at "freeze" or    *)
(* "toggle" has met it so.                                                 *)
EarlyOK(c, s) ==
  /\ c.step # "idle" /\ s.by = None => c.early
  /\ c.step \in {"freeze", "toggle"} => c.early

Signing == {"put", "select", "freeze", "rollback"}

(* A call that signs has a signer; at these steps it has a proof.          *)
HandsOK(c) ==
  /\ c.step \in Signing => c.user # None
  /\ c.step \in {"put", "rollback"} => c.image # None
  /\ c.step = "idle" => ~c.alone /\ c.image = None

(* Where a call was alone with the proof, the proof it is about to freeze  *)
(* is in the store.                                                        *)
ProofOK(c, e) == c.alone /\ c.step \in {"select", "freeze"} /\ c.image # None => e = c.image

CallOK(c, s, e) == EarlyOK(c, s) /\ HandsOK(c) /\ ProofOK(c, e)

(* Nobody else who touches the proof is under way with it.                 *)
ApartOK(c, d) == c.alone => ~S!Touches(d)

SInv ==
  /\ S!TypeOK
  /\ \A r \in Replica : CallOK(handler[r], signature, evidence)
  /\ \A r, q \in Replica : r # q => ApartOK(handler[r], handler[q])

LEMMA NoCallShape ==
  /\ S!NoCall \in S!Call /\ S!NoCall.step = "idle" /\ ~S!Touches(S!NoCall)
  /\ \A s, e : CallOK(S!NoCall, s, e)
  /\ ~S!NoCall.alone
  BY DEF S!NoCall, S!Call, S!Steps, S!Touches, CallOK, EarlyOK, HandsOK, ProofOK, Signing

(* The call of r goes on as c, which touches the proof only if it did      *)
(* before; whatever it does to row and proof is no harm to the others.     *)
LEMMA HandlerMoved ==
  ASSUME SInv, NEW r \in Replica, NEW c \in S!Call, handler' = [handler EXCEPT ![r] = c],
         c.alone => handler[r].alone, S!Touches(c) => S!Touches(handler[r]),
         signature' \in Signature, evidence' \in Images, signCalls' \in Nat, faults' \in Nat,
         CallOK(c, signature', evidence'),
         signature'.by = None => signature.by = None,
         evidence' = evidence \/ S!Touches(handler[r])
  PROVE  SInv'
<1>1. /\ handler' \in [Replica -> S!Call] /\ handler'[r] = c
      /\ \A q \in Replica : q # r => handler'[q] = handler[q]
  BY DEF SInv, S!TypeOK
<1>2. S!TypeOK'
  BY <1>1 DEF S!TypeOK, Images, Signature
<1>3. ASSUME NEW q \in Replica PROVE CallOK(handler'[q], signature', evidence')
  <2>1. CASE q = r
    BY <1>1, <2>1
  <2>2. CASE q # r
    <3>1. /\ EarlyOK(handler[q], signature) /\ HandsOK(handler[q])
          /\ ProofOK(handler[q], evidence) /\ ApartOK(handler[q], handler[r])
      BY <2>2 DEF SInv, CallOK
    <3>2. EarlyOK(handler[q], signature')
      BY <3>1 DEF EarlyOK
    <3>3. ProofOK(handler[q], evidence')
      BY <3>1 DEF ProofOK, ApartOK
    <3> QED
      BY <1>1, <2>2, <3>1, <3>2, <3>3 DEF CallOK
  <2> QED
    BY <2>1, <2>2
<1>4. ASSUME NEW p \in Replica, NEW q \in Replica, p # q PROVE ApartOK(handler'[p], handler'[q])
  <2>1. ApartOK(handler[p], handler[q])
    BY <1>4 DEF SInv
  <2> QED
    BY <1>1, <1>4, <2>1 DEF ApartOK
<1> QED
  BY <1>2, <1>3, <1>4 DEF SInv

LEMMA GotoMoved ==
  ASSUME SInv, NEW r \in Replica, NEW s \in S!Steps, S!Goto(r, s), s \notin {"drop", "idle"},
         UNCHANGED <<signature, signCalls, faults>>, evidence' \in Images,
         evidence' = evidence \/ S!Touches(handler[r]),
         handler[r].step # "idle",
         s \in Signing => handler[r].user # None,
         s \in {"put", "rollback"} => handler[r].image # None,
         s \in {"freeze", "toggle"} => signature.by = None,
         s \in {"select", "freeze"} /\ handler[r].image # None /\ handler[r].alone
           => evidence' = handler[r].image
  PROVE  SInv'
<1> DEFINE c == [handler[r] EXCEPT !.step = s]
<1>1. handler' = [handler EXCEPT ![r] = c] /\ handler[r] \in S!Call
  BY DEF S!Goto, SInv, S!TypeOK
<1>2. c \in S!Call /\ c.step = s /\ c.image = handler[r].image /\ c.early = handler[r].early
      /\ c.alone = handler[r].alone /\ c.user = handler[r].user
  BY <1>1 DEF S!Call
<1> HIDE DEF c
<1>3. signature' \in Signature /\ signCalls' \in Nat /\ faults' \in Nat
  BY DEF SInv, S!TypeOK, Images, Signature
<1>4. EarlyOK(handler[r], signature)
  BY DEF SInv, CallOK
<1>5. CallOK(c, signature', evidence') /\ (S!Touches(c) => S!Touches(handler[r]))
  BY <1>2, <1>4 DEF CallOK, EarlyOK, HandsOK, ProofOK, Signing, S!Touches
<1> QED
  BY <1>1, <1>2, <1>3, <1>5, HandlerMoved

LEMMA ReturnMoved ==
  ASSUME SInv, NEW r \in Replica, S!Return(r), signature' \in Signature,
         evidence' \in Images, signCalls' \in Nat, faults' \in Nat,
         signature'.by = None => signature.by = None,
         evidence' = evidence \/ S!Touches(handler[r])
  PROVE  SInv'
  BY NoCallShape, HandlerMoved DEF S!Return

(* A call c begins: it is early and alone as the others make it, and they  *)
(* as it makes them.                                                       *)
LEMMA BeginMoved ==
  ASSUME SInv, NEW r \in Replica, NEW c \in S!Call, S!Begin(r, c),
         c.step # "idle", c.step \in Signing => c.user # None, c.image # None \/ c.step \notin {"put", "rollback"},
         c.image = None \/ c.step = "put", c.step # "freeze",
         c.step = "toggle" => signature'.by = None,
         signature' \in Signature, UNCHANGED <<evidence, faults>>
  PROVE  SInv'
<1> DEFINE new == [c EXCEPT !.early = signature'.by = None,
                            !.alone = \A o \in Replica \ {r} : ~S!Touches(handler[o])]
           others(q) == [handler[q] EXCEPT
                           !.early = @ \/ (~S!At(q, "idle") /\ signature'.by = None),
                           !.alone = @ /\ ~S!Touches(c)]
<1>1. /\ handler' = [q \in Replica |-> IF q = r THEN new ELSE others(q)]
      /\ signCalls' = signCalls + 1
  BY DEF S!Begin
<1>2. /\ new \in S!Call /\ new.step = c.step /\ new.image = c.image /\ new.user = c.user
      /\ new.early = (signature'.by = None)
      /\ new.alone = (\A o \in Replica \ {r} : ~S!Touches(handler[o]))
  BY DEF S!Call
<1>3. ASSUME NEW q \in Replica
      PROVE  /\ handler[q] \in S!Call /\ others(q) \in S!Call
             /\ others(q).step = handler[q].step /\ others(q).image = handler[q].image
             /\ others(q).user = handler[q].user
             /\ others(q).early = (handler[q].early \/ (handler[q].step # "idle"
                                                        /\ signature'.by = None))
             /\ others(q).alone = (handler[q].alone /\ ~S!Touches(c))
  BY DEF SInv, S!TypeOK, S!Call, S!At
<1> HIDE DEF new, others
<1>4. /\ handler' \in [Replica -> S!Call] /\ handler'[r] = new
      /\ \A q \in Replica : q # r => handler'[q] = others(q)
  BY <1>1, <1>2, <1>3
<1>5. S!TypeOK'
  BY <1>1, <1>4 DEF SInv, S!TypeOK, Images, Signature
<1>6. CallOK(new, signature', evidence')
  BY <1>2 DEF CallOK, EarlyOK, HandsOK, ProofOK, Signing
<1>7. ASSUME NEW q \in Replica PROVE CallOK(others(q), signature', evidence')
  <2>1. CallOK(handler[q], signature, evidence)
    BY DEF SInv
  <2> QED
    BY <1>3, <2>1 DEF CallOK, EarlyOK, HandsOK, ProofOK, Signing
<1>8. S!Touches(new) = S!Touches(c) /\ \A q \in Replica : S!Touches(others(q)) = S!Touches(handler[q])
  BY <1>2, <1>3 DEF S!Touches
<1>9. ASSUME NEW p \in Replica, NEW q \in Replica, p # q PROVE ApartOK(handler'[p], handler'[q])
  <2>1. ApartOK(handler[p], handler[q])
    BY <1>9 DEF SInv
  <2>2. CASE p = r
    BY <1>2, <1>4, <1>8, <1>9, <2>2 DEF ApartOK
  <2>3. CASE q = r
    BY <1>3, <1>4, <1>8, <1>9, <2>3 DEF ApartOK
  <2>4. CASE p # r /\ q # r
    BY <1>3, <1>4, <1>8, <2>1, <2>4 DEF ApartOK
  <2> QED
    BY <2>2, <2>3, <2>4
<1> QED
  BY <1>4, <1>5, <1>6, <1>7, <1>9 DEF SInv

LEMMA SInit == ASSUME S!Init PROVE SInv
<1>1. S!TypeOK
  BY NoCallShape DEF S!Init, S!TypeOK
<1>2. \A r \in Replica : handler[r] = S!NoCall
  BY DEF S!Init
<1> QED
  BY <1>1, <1>2, NoCallShape DEF SInv, ApartOK

LEMMA SStep ==
  ASSUME S!ConstantsAssumption, SInv, [S!Next]_S!vars PROVE SInv'
<1>0. /\ signature \in Signature /\ evidence \in Images /\ signCalls \in Nat /\ faults \in Nat
      /\ \A r \in Replica : handler[r] \in S!Call
      /\ \A s \in {"idle", "put", "select", "freeze", "rollback", "drop", "toggle"} : s \in S!Steps
  BY DEF SInv, S!TypeOK, Images, Signature, S!Steps
<1>1. ASSUME NEW r \in Replica, NEW u \in User, NEW i \in Images, S!RequestSignOff(r, u, i)
      PROVE  SInv'
  <2> DEFINE s == IF i = None THEN "select" ELSE "put"
             c == [S!NoCall EXCEPT !.step = s, !.user = u, !.image = i]
  <2>1. S!Begin(r, c) /\ UNCHANGED <<signature, evidence, faults>>
    BY <1>1 DEF S!RequestSignOff
  <2>2. s \in S!Steps /\ s \in {"select", "put"} /\ (s = "select" <=> i = None)
    BY <1>0
  <2> HIDE DEF s
  <2>3. c \in S!Call /\ c.step = s /\ c.image = i /\ c.user # None
    BY <1>1, <2>2 DEF S!Call, S!NoCall, Images, S!ConstantsAssumption
  <2> HIDE DEF c
  <2> QED
    BY <1>0, <2>1, <2>2, <2>3, BeginMoved DEF Signing
<1>2. ASSUME NEW r \in Replica, S!PutEvidence(r) PROVE SInv'
  <2>1. handler[r].image # None /\ handler[r].step = "put" /\ handler[r].user # None
    BY <1>2 DEF S!PutEvidence, S!At, SInv, CallOK, HandsOK, Signing
  <2>2. evidence' \in Images /\ S!Touches(handler[r])
    BY <1>0, <1>2, <2>1 DEF S!PutEvidence, S!Call, Images, S!Touches
  <2> QED
    BY <1>0, <1>2, <2>1, <2>2, GotoMoved DEF S!PutEvidence
<1>3. ASSUME NEW r \in Replica, S!SelectUnsigned(r) PROVE SInv'
  <2>1. /\ handler[r].step = "select" /\ UNCHANGED <<signature, evidence, signCalls, faults>>
        /\ handler[r].image # None /\ handler[r].alone => evidence = handler[r].image
        /\ handler[r].user # None
    BY <1>3 DEF S!SelectUnsigned, S!At, SInv, CallOK, ProofOK, HandsOK, Signing
  <2>2. CASE signature.by = None /\ S!Goto(r, "freeze")
    BY <1>0, <2>1, <2>2, GotoMoved
  <2>3. CASE handler[r].image # None /\ S!Goto(r, "rollback")
    BY <1>0, <2>1, <2>3, GotoMoved
  <2>4. CASE S!Return(r)
    BY <1>0, <2>1, <2>4, ReturnMoved
  <2> QED
    BY <1>3, <2>2, <2>3, <2>4 DEF S!SelectUnsigned
<1>4. ASSUME NEW r \in Replica, S!Freeze(r) PROVE SInv'
  <2>1. /\ signature' = [signature EXCEPT !.by = handler[r].user, !.evidence = handler[r].image]
        /\ handler[r] \in S!Call /\ S!Return(r) /\ UNCHANGED <<evidence, signCalls, faults>>
    BY <1>0, <1>4 DEF S!Freeze
  <2>2. signature' \in Signature /\ signature'.by = handler[r].user
    BY <1>0, <2>1 DEF S!Call, Images, Signature
  <2>3. handler[r].user # None
    BY <1>4 DEF S!Freeze, S!At, SInv, CallOK, HandsOK, Signing
  <2> QED
    BY <1>0, <2>1, <2>2, <2>3, ReturnMoved
<1>5. ASSUME NEW r \in Replica, S!RollBack(r) \/ S!DropEvidence(r) PROVE SInv'
  <2>1. S!Touches(handler[r])
    BY <1>5 DEF S!RollBack, S!DropEvidence, S!At, SInv, CallOK, HandsOK, S!Touches
  <2> QED
    BY <1>0, <1>5, <2>1, ReturnMoved DEF S!RollBack, S!DropEvidence, Images
<1>6. ASSUME NEW r \in Replica, S!Unsign(r) PROVE SInv'
  <2> DEFINE c == [S!NoCall EXCEPT !.step = "drop"]
  <2>1. c \in S!Call /\ c.step = "drop" /\ c.image = None
    BY <1>0 DEF S!Call, S!NoCall
  <2>2. S!Begin(r, c) /\ UNCHANGED <<evidence, faults>>
        /\ signature' = [signature EXCEPT !.by = None, !.evidence = None]
    BY <1>6 DEF S!Unsign
  <2>3. signature' \in Signature
    BY <1>0, <2>2 DEF Signature, Images
  <2> HIDE DEF c
  <2> QED
    BY <1>0, <2>1, <2>2, <2>3, BeginMoved DEF Signing
<1>7. ASSUME NEW r \in Replica, NEW d \in BOOLEAN, S!RequestDam(r, d)
      PROVE  SInv'
  <2> DEFINE c == [S!NoCall EXCEPT !.step = "toggle", !.dam = d]
  <2>1. c \in S!Call /\ c.step = "toggle" /\ c.image = None
    BY <1>0 DEF S!Call, S!NoCall
  <2>2. S!Begin(r, c) /\ UNCHANGED <<signature, evidence, faults>> /\ signature.by = None
    BY <1>7 DEF S!RequestDam
  <2> HIDE DEF c
  <2> QED
    BY <1>0, <2>1, <2>2, BeginMoved DEF Signing
<1>8. ASSUME NEW r \in Replica, S!ToggleDam(r) PROVE SInv'
  <2>1. signature' \in Signature /\ signature'.by = signature.by
    BY <1>0, <1>8 DEF S!ToggleDam, S!Call, Signature
  <2> QED
    BY <1>0, <1>8, <2>1, ReturnMoved DEF S!ToggleDam
<1>9. ASSUME NEW r \in Replica, S!Crash(r) PROVE SInv'
  BY <1>0, <1>9, ReturnMoved DEF S!Crash
<1>10. CASE UNCHANGED S!vars
  BY <1>10 DEF S!vars, SInv, S!TypeOK
<1> QED
  BY <1>1, <1>2, <1>3, <1>4, <1>5, <1>6, <1>7, <1>8, <1>9, <1>10 DEF S!Next, Images

(* What a step does to the row, when it touches the row at all: only an    *)
(* unsign and calls that met the version unsigned do.                      *)
LEMMA SRow ==
  ASSUME S!ConstantsAssumption, SInv, [S!Next]_S!vars
  PROVE  \/ signature' = signature
         \/ signature'.by = None /\ signature'.evidence = None
         \/ \E r \in Replica :
              /\ handler[r].early /\ evidence' = evidence
              /\ \/ signature'.evidence = signature.evidence
                 \/ /\ signature'.evidence = handler[r].image
                    /\ ProofOK(handler[r], evidence) /\ handler[r].step = "freeze"
<1>0. /\ signature \in Signature
      /\ \A r \in Replica : handler[r] \in S!Call /\ CallOK(handler[r], signature, evidence)
  BY DEF SInv, S!TypeOK, Images, Signature
<1>1. ASSUME NEW r \in Replica, S!Freeze(r)
      PROVE  /\ handler[r].early /\ evidence' = evidence
             /\ signature'.evidence = handler[r].image
             /\ ProofOK(handler[r], evidence) /\ handler[r].step = "freeze"
  BY <1>0, <1>1 DEF S!Freeze, S!At, CallOK, EarlyOK, Signature
<1>2. ASSUME NEW r \in Replica, S!Unsign(r)
      PROVE  signature'.by = None /\ signature'.evidence = None
  BY <1>0, <1>2 DEF S!Unsign, Signature
<1>3. ASSUME NEW r \in Replica, S!ToggleDam(r)
      PROVE  /\ handler[r].early /\ evidence' = evidence
             /\ signature'.evidence = signature.evidence
  BY <1>0, <1>3 DEF S!ToggleDam, S!At, CallOK, EarlyOK, Signature
<1>4. CASE UNCHANGED S!vars
  BY <1>4 DEF S!vars
<1>5. CASE \E r \in Replica :
             \/ \E u \in User, i \in Image \cup {None} : S!RequestSignOff(r, u, i)
             \/ S!PutEvidence(r) \/ S!SelectUnsigned(r) \/ S!RollBack(r)
             \/ S!DropEvidence(r) \/ S!Crash(r)
             \/ \E d \in BOOLEAN : S!RequestDam(r, d)
  BY <1>5 DEF S!RequestSignOff, S!PutEvidence, S!SelectUnsigned, S!RollBack, S!DropEvidence,
              S!Crash, S!RequestDam
<1> QED
  BY <1>1, <1>2, <1>3, <1>4, <1>5 DEF S!Next

(* Of two calls one of which is alone, the other touches no proof.         *)
LEMMA AloneFreezes ==
  ASSUME SInv, NEW r \in Replica, NEW q \in Replica, handler[r].alone,
         handler[q].image # None
  PROVE  q = r
  BY DEF SInv, ApartOK, S!Touches

(* Whichever replicas sign, unsign and switch side by side: once the calls
   that met the version unsigned have ended, signer, proof and "check DAM"
   switch stay until it is unsigned; and a proof is in the blob store when
   it is frozen, unless another call that touches it came across
   (versions.py, main.py).                                                 *)
THEOREM FreezesHold ==
  ASSUME S!ConstantsAssumption PROVE S!Spec => S!FreezeHolds
<1>1. S!Init => SInv
  BY SInit
<1>2. SInv /\ [S!Next]_S!vars => SInv'
  BY SStep
<1>3. ASSUME SInv, [S!Next]_S!vars
      PROVE  signature.by # None /\ (\A r \in Replica : ~handler[r].early)
               => signature' = signature \/ signature'.by = None
  BY <1>3, SRow
<1>4. ASSUME SInv, [S!Next]_S!vars
      PROVE  \A r \in Replica : handler[r].alone /\ signature'.evidence \notin {signature.evidence, None}
                                => S!EvidenceAnswer' = signature'.evidence
  <2> SUFFICES ASSUME NEW r \in Replica, handler[r].alone,
                      signature'.evidence \notin {signature.evidence, None}
               PROVE  S!EvidenceAnswer' = signature'.evidence
    OBVIOUS
  <2>1. PICK q \in Replica :
          /\ evidence' = evidence /\ signature'.evidence = handler[q].image
          /\ ProofOK(handler[q], evidence) /\ handler[q].step = "freeze"
    BY <1>4, SRow
  <2>2. q = r
    BY <1>4, <2>1, AloneFreezes
  <2> QED
    BY <2>1, <2>2 DEF ProofOK, S!EvidenceAnswer
<1> QED
  BY <1>1, <1>2, <1>3, <1>4, PTL
     DEF S!Spec, S!FreezeHolds, S!SignatureStays, S!FrozenWithProof

-----------------------------------------------------------------------------
(* The catalogue.                                                          *)

CONSTANTS Seed, Label, File, Class, MaxVersions

VARIABLES customer, productRow, version, binding, artifact, queued, running,
          awaiting, call, born, retired, cut, catalogCalls, catalogFaults

C == INSTANCE Catalog WITH
       product <- productRow, calls <- catalogCalls, faults <- catalogFaults

Contents == [classes : SUBSET Class, templates : SUBSET Class, files : SUBSET File]

CCall == [step : C!Steps, product : Product \cup {None},
          customer : Customer \cup {Seed, None}, label : Label \cup {None},
          new : 0..MaxVersions, source : 0..MaxVersions, class : Class \cup {None},
          classes : SUBSET Class, templates : SUBSET Class,
          files : SUBSET (File \cup (C!Version \X File)), versions : SUBSET C!Version,
          asked : Contents]

VersionRow == [product : Product \cup {None}, label : Label \cup {None},
               classes : SUBSET Class, templates : SUBSET Class]

CTyped ==
  /\ productRow \in [Product -> Customer \cup {Seed, None}]
  /\ version \in [C!Version -> VersionRow]
  /\ born \in 0..MaxVersions
  /\ retired \subseteq Product
  /\ call \in [Replica -> CCall]

(* A product that has, or had, a row: the others have no version.          *)
Known(p) == productRow[p] # None \/ p \in retired

(* What a handler that is at its step knows.                               *)
CSound(c) ==
  /\ c.step \in C!CloneSteps \cup {"clone_insert", "list_versions", "cascade", "blobs", "drop_product"}
       => c.product \in Product /\ Known(c.product)
  /\ c.step = "insert_product"
       => /\ c.product \in Product /\ ~Known(c.product)
          /\ c.customer \in Customer \cup {Seed} /\ c.label \in Label
  /\ c.step \in C!CloneSteps \cup {"clone_insert"} => c.label \in Label /\ c.source \in C!Version
  /\ c.step \in C!CloneSteps
       => /\ c.new \in 1..born /\ version[c.new].product = None
          /\ \A v \in C!Version : version[v].product = c.product => version[v].label # c.label
  /\ c.step \in {"add_class", "insert_template"} => c.class \in Class
  /\ c.step \in {"add_class", "insert_template", "list_bindings", "submit", "enqueue"}
       => c.new \in C!Version
  /\ c.step \in {"submit", "enqueue"} => c.files \subseteq File

(* Two handlers insert different rows.                                     *)
CApart(c, d) ==
  /\ c.step = "insert_product" /\ d.step = "insert_product" => c.product # d.product
  /\ c.step \in C!CloneSteps /\ d.step \in C!CloneSteps
       => c.new # d.new /\ <<c.product, c.label>> # <<d.product, d.label>>

(* Version ids are given out in order, to products that are known.         *)
CRows ==
  \A v \in C!Version : version[v].product # None => v <= born /\ Known(version[v].product)

CInv ==
  /\ CTyped /\ CRows /\ C!LabelsUnique
  /\ \A r \in Replica : CSound(call[r])
  /\ \A r, s \in Replica : r # s => CApart(call[r], call[s])

LEMMA CNoCall ==
  ASSUME C!ConstantsAssumption
  PROVE  C!NoCall \in CCall /\ CSound(C!NoCall) /\ C!NoCall.step = "idle"
  BY DEF C!ConstantsAssumption, C!NoCall, CCall, Contents, C!Steps, CSound, C!CloneSteps

(* The handler of r becomes c, and every version keeps its product and label. *)
LEMMA CallMoved ==
  ASSUME C!ConstantsAssumption, CInv, NEW r \in Replica, NEW c \in CCall, call' = [call EXCEPT ![r] = c], CSound(c),
         \A s \in Replica : s # r => CApart(c, call[s]),
         UNCHANGED <<productRow, born, retired>>, version' \in [C!Version -> VersionRow],
         \A v \in C!Version : /\ version'[v].product = version[v].product
                              /\ version'[v].label = version[v].label
  PROVE  CInv'
<1>1. call' \in [Replica -> CCall] /\ call'[r] = c
      /\ \A s \in Replica : s # r => call'[s] = call[s]
  BY DEF CInv, CTyped
<1>2. CTyped'
  BY <1>1 DEF CInv, CTyped
<1>3. CRows' /\ C!LabelsUnique'
  BY DEF CInv, CRows, Known, C!LabelsUnique, C!VersionsOf
<1>4. 1..born \subseteq C!Version
  BY DEF C!ConstantsAssumption, C!Version, CInv, CTyped
<1>5. \A s \in Replica : CSound(call'[s])
  BY <1>1 DEF CInv
<1>6. \A s \in Replica : CSound(call[s])'
  BY <1>1, <1>4, <1>5 DEF CSound, Known, C!CloneSteps, CTyped
<1>7. \A s, t \in Replica : s # t => CApart(call[s], call[t])'
  BY <1>1 DEF CInv, CApart
<1> QED
  BY <1>2, <1>3, <1>6, <1>7 DEF CInv

(* Of the rows that name products, versions and labels only these are left *)
(* as they are, whatever the handler of r goes on to.                      *)
SameRows == UNCHANGED <<productRow, version, born, retired>>

LEMMA CallReturns ==
  ASSUME C!ConstantsAssumption, CInv, NEW r \in Replica, C!Return(r),
         UNCHANGED <<productRow, born, retired>>, version' \in [C!Version -> VersionRow],
         \A v \in C!Version : /\ version'[v].product = version[v].product
                              /\ version'[v].label = version[v].label
  PROVE  CInv'
<1>1. \A s \in Replica : s # r => CApart(C!NoCall, call[s])
  BY CNoCall DEF CApart, C!CloneSteps
<1> QED
  BY <1>1, CNoCall, CallMoved DEF C!Return

(* A handler c that inserts no product or version. *)
Harmless(c) == c.step \notin C!CloneSteps \cup {"insert_product"}

LEMMA CallHarmless ==
  ASSUME C!ConstantsAssumption, CInv, NEW r \in Replica, NEW c \in CCall, call' = [call EXCEPT ![r] = c],
         CSound(c), Harmless(c), SameRows
  PROVE  CInv'
<1>1. \A s \in Replica : s # r => CApart(c, call[s])
  BY DEF Harmless, CApart
<1>2. version' \in [C!Version -> VersionRow]
  BY DEF SameRows, CInv, CTyped
<1> QED
  BY <1>1, <1>2, CallMoved DEF SameRows

LEMMA InsertsProduct ==
  ASSUME C!ConstantsAssumption, CInv, NEW r \in Replica, C!InsertProduct(r) PROVE CInv'
<1> DEFINE p == call[r].product
           l == call[r].label
           n == born + 1
           row == [C!NoVersion EXCEPT !.product = p, !.label = l]
<1>1. /\ call[r] \in CCall /\ p \in Product /\ ~Known(p) /\ l \in Label
      /\ call[r].customer \in Customer \cup {Seed} /\ call[r].customer # None
      /\ call[r].step = "insert_product"
  BY DEF CInv, CTyped, CSound, C!InsertProduct, C!At, C!ConstantsAssumption
<1>2. n \in C!Version /\ born \in Nat /\ n \in 0..MaxVersions /\ 1..born \subseteq C!Version
  BY DEF C!ConstantsAssumption, C!Version, CInv, CTyped, C!InsertProduct
<1>3. row \in VersionRow /\ row.product = p /\ row.label = l
  BY <1>1 DEF VersionRow, C!NoVersion
<1>4. /\ version' = [version EXCEPT ![n] = row]
      /\ productRow' = [productRow EXCEPT ![p] = call[r].customer]
      /\ born' = n /\ retired' = retired /\ call' = [call EXCEPT ![r] = C!NoCall]
  BY DEF C!InsertProduct, C!Return
<1> HIDE DEF row, n
<1>5. /\ call' \in [Replica -> CCall] /\ call'[r] = C!NoCall
      /\ \A s \in Replica : s # r => call'[s] = call[s]
  BY <1>4, CNoCall DEF CInv, CTyped
<1>6. CTyped'
  BY <1>1, <1>2, <1>3, <1>4, <1>5 DEF CInv, CTyped
<1>7. \A v \in C!Version : version'[v] = IF v = n THEN row ELSE version[v]
  BY <1>2, <1>4 DEF CInv, CTyped
<1>8. \A q \in Product : productRow'[q] = IF q = p THEN call[r].customer ELSE productRow[q]
  BY <1>1, <1>4 DEF CInv, CTyped
<1>9. version[n].product = None
  BY <1>2 DEF CInv, CRows, n
<1>10. \A v \in C!Version : version[v].product # p
  BY <1>1 DEF CInv, CRows, C!ConstantsAssumption
<1>11. CRows'
  BY <1>1, <1>2, <1>3, <1>4, <1>7, <1>8 DEF CInv, CTyped, CRows, Known, VersionRow, n, C!Version
<1>12. C!LabelsUnique'
  BY <1>3, <1>7, <1>10 DEF CInv, C!LabelsUnique, C!VersionsOf
<1>13. ASSUME NEW s \in Replica, s # r PROVE CSound(call[s])'
  <2>1. CSound(call[s]) /\ (call[s].step = "insert_product" => call[s].product # p)
        /\ call'[s] = call[s]
    BY <1>1, <1>5, <1>13 DEF CInv, CApart
  <2>2. call[s].product \in Product /\ Known(call[s].product)
          => call[s].product # p /\ Known(call[s].product)'
    BY <1>1, <1>4, <1>8, <2>1 DEF Known
  <2>3. call[s].product \in Product /\ call[s].product # p /\ ~Known(call[s].product)
          => ~Known(call[s].product)'
    BY <1>4, <1>8, <2>1 DEF Known
  <2>4. \A v \in 1..born : version'[v] = version[v] /\ v \in 1..born'
    BY <1>2, <1>4, <1>7 DEF n
  <2> QED
    BY <1>2, <1>3, <1>7, <2>1, <2>2, <2>3, <2>4 DEF CSound, C!CloneSteps
<1>14. CSound(call[r])'
  BY <1>5, CNoCall DEF CSound, C!CloneSteps
<1>15. \A s \in Replica : CSound(call[s])'
  BY <1>5, <1>13, <1>14
<1>16. \A s, t \in Replica : s # t => CApart(call[s], call[t])'
  BY <1>5, CNoCall DEF CInv, CApart, C!CloneSteps
<1> QED
  BY <1>6, <1>11, <1>12, <1>15, <1>16 DEF CInv

LEMMA Cascades ==
  ASSUME C!ConstantsAssumption, CInv, NEW r \in Replica, C!Cascade(r) PROVE CInv'
<1> DEFINE d == [call[r] EXCEPT !.step = "blobs"]
<1>1. call[r] \in CCall /\ CSound(call[r]) /\ call[r].step = "cascade"
  BY DEF CInv, CTyped, C!Cascade, C!At
<1>2. call' = [call EXCEPT ![r] = d] /\ d \in CCall /\ d.step = "blobs"
      /\ d.product = call[r].product
  BY <1>1 DEF C!Cascade, C!Goto, CCall, C!Steps
<1> HIDE DEF d
<1>3. /\ call' \in [Replica -> CCall] /\ call'[r] = d
      /\ \A s \in Replica : s # r => call'[s] = call[s]
  BY <1>2 DEF CInv, CTyped
<1>4. UNCHANGED <<productRow, born, retired>>
  BY DEF C!Cascade
<1>5. C!NoVersion \in VersionRow /\ C!NoVersion.product = None
  BY DEF C!NoVersion, VersionRow
<1>6. /\ version' \in [C!Version -> VersionRow]
      /\ \A v \in C!Version : version'[v] = version[v] \/ version'[v].product = None
  BY <1>5 DEF C!Cascade, CInv, CTyped
<1>7. CTyped'
  BY <1>3, <1>4, <1>6 DEF CInv, CTyped
<1>8. CRows' /\ C!LabelsUnique'
  BY <1>4, <1>6 DEF CInv, CRows, Known, C!LabelsUnique, C!VersionsOf
<1>9. 1..born \subseteq C!Version
  BY DEF C!ConstantsAssumption, C!Version, CInv, CTyped
<1>10. ASSUME NEW s \in Replica PROVE CSound(call[s])'
  <2>1. CSound(call'[s])
    BY <1>1, <1>2, <1>3 DEF CSound, C!CloneSteps, CInv
  <2>2. \A v \in C!Version : /\ version[v].product = None => version'[v].product = None
                             /\ call'[s].product \in Product /\ version'[v].product = call'[s].product
                                  => version'[v] = version[v]
    BY <1>6 DEF C!ConstantsAssumption
  <2> QED
    BY <1>4, <1>9, <2>1, <2>2 DEF CSound, C!CloneSteps, Known
<1>11. \A s, t \in Replica : s # t => CApart(call[s], call[t])'
  BY <1>2, <1>3 DEF CInv, CApart, C!CloneSteps
<1> QED
  BY <1>7, <1>8, <1>10, <1>11 DEF CInv

LEMMA DropsProduct ==
  ASSUME C!ConstantsAssumption, CInv, NEW r \in Replica, C!DropProduct(r) PROVE CInv'
<1> DEFINE p == call[r].product
<1>1. p \in Product /\ Known(p)
  BY DEF CInv, CSound, C!DropProduct, C!At
<1>2. /\ productRow' = [productRow EXCEPT ![p] = None] /\ retired' = retired \cup {p}
      /\ version' = version /\ born' = born /\ call' = [call EXCEPT ![r] = C!NoCall]
  BY DEF C!DropProduct, C!Return
<1>3. /\ call' \in [Replica -> CCall] /\ call'[r] = C!NoCall
      /\ \A s \in Replica : s # r => call'[s] = call[s]
  BY <1>2, CNoCall DEF CInv, CTyped
<1>4. CTyped'
  BY <1>1, <1>2, <1>3 DEF CInv, CTyped
<1>5. \A q \in Product : Known(q)' <=> Known(q)
  BY <1>1, <1>2 DEF Known, CInv, CTyped
<1>6. CRows' /\ C!LabelsUnique'
  BY <1>2, <1>5 DEF CInv, CRows, C!LabelsUnique, C!VersionsOf, CTyped, VersionRow
<1>7. ASSUME NEW s \in Replica PROVE CSound(call[s])'
  BY <1>2, <1>3, <1>5, CNoCall DEF CSound, C!CloneSteps, CInv
<1>8. \A s, t \in Replica : s # t => CApart(call[s], call[t])'
  BY <1>3, CNoCall DEF CInv, CApart, C!CloneSteps
<1> QED
  BY <1>4, <1>6, <1>7, <1>8 DEF CInv

(* Customers, products and deletions.                                      *)
LEMMA AdminCalls ==
  ASSUME C!ConstantsAssumption, CInv, NEW r \in Replica, C!AdminCall(r) PROVE CInv'
<1> USE DEF C!At
<1>0. call[r] \in CCall /\ CSound(call[r])
  BY DEF CInv, CTyped
<1>1. ASSUME NEW c \in Customer, C!CreateCustomer(r, c) PROVE CInv'
  <2>1. SameRows /\ call' = [call EXCEPT ![r] = call[r]] /\ Harmless(call[r])
    BY <1>0, <1>1 DEF C!CreateCustomer, C!Admit, SameRows, Harmless, C!CloneSteps, CInv, CTyped
  <2> QED
    BY <1>0, <2>1, CallHarmless
<1>2. ASSUME NEW c \in Customer, C!ListProductsOf(r, c) PROVE CInv'
  <2> DEFINE d == [C!NoCall EXCEPT !.step = "drop_customer", !.customer = c]
  <2>1. SameRows /\ call' = [call EXCEPT ![r] = d]
    BY <1>2 DEF C!ListProductsOf, C!Begin, SameRows, C!rows
  <2>2. d \in CCall /\ d.step = "drop_customer"
    BY CNoCall DEF CCall, C!Steps
  <2> HIDE DEF d
  <2>3. CSound(d) /\ Harmless(d)
    BY <2>2 DEF CSound, Harmless, C!CloneSteps
  <2> QED
    BY <2>1, <2>2, <2>3, CallHarmless
<1>3. CASE C!DropCustomer(r)
  BY <1>3, CallReturns DEF C!DropCustomer, CInv, CTyped
<1>4. ASSUME NEW p \in Product, NEW c \in Customer \cup {Seed}, NEW l \in Label,
             C!RequestProduct(r, p, c, l)
      PROVE  CInv'
  <2> DEFINE d == [C!NoCall EXCEPT !.step = "insert_product", !.product = p,
                                   !.customer = c, !.label = l]
  <2>1. SameRows /\ call' = [call EXCEPT ![r] = d]
    BY <1>4 DEF C!RequestProduct, C!Begin, SameRows, C!rows
  <2>2. /\ d \in CCall /\ d.step = "insert_product" /\ d.product = p
        /\ d.customer = c /\ d.label = l
    BY CNoCall DEF CCall, C!Steps
  <2> HIDE DEF d
  <2>3. CSound(d)
    BY <1>4, <2>2 DEF CSound, Known, C!CloneSteps, C!RequestProduct
  <2>4. \A s \in Replica : s # r => CApart(d, call[s])
    BY <1>4, <2>2 DEF C!RequestProduct, CApart, C!CloneSteps
  <2>5. version' \in [C!Version -> VersionRow]
    BY <2>1 DEF SameRows, CInv, CTyped
  <2> QED
    BY <2>1, <2>2, <2>3, <2>4, <2>5, CallMoved DEF SameRows
<1>5. CASE C!InsertProduct(r)
  BY <1>5, InsertsProduct
<1>6. ASSUME NEW p \in Product, C!RequestDelete(r, p) PROVE CInv'
  <2> DEFINE fs == {x \in C!Version \X File :
                      x[1] \in C!VersionsOf(p) /\ binding[x[1]][x[2]] # "none"}
             d == [C!NoCall EXCEPT !.step = "list_versions", !.product = p, !.files = fs]
  <2>1. SameRows /\ call' = [call EXCEPT ![r] = d]
    BY <1>6 DEF C!RequestDelete, C!Begin, SameRows, C!rows
  <2>2. fs \subseteq C!Version \X File
    OBVIOUS
  <2> HIDE DEF fs
  <2>3. d \in CCall /\ d.step = "list_versions" /\ d.product = p
    BY CNoCall, <2>2 DEF CCall, C!Steps
  <2> HIDE DEF d
  <2>4. CSound(d) /\ Harmless(d)
    BY <1>6, <2>3 DEF CSound, Harmless, C!CloneSteps, C!RequestDelete, Known
  <2> QED
    BY <2>1, <2>3, <2>4, CallHarmless
<1>7. CASE C!ListVersions(r)
  <2> DEFINE d == [call[r] EXCEPT !.step = "cascade", !.versions = C!VersionsOf(call[r].product)]
  <2>1. SameRows /\ call' = [call EXCEPT ![r] = d]
    BY <1>0, <1>7 DEF C!ListVersions, SameRows, C!rows, CInv, CTyped
  <2>2. d \in CCall /\ d.step = "cascade" /\ d.product = call[r].product
    BY <1>0 DEF CCall, C!Steps, C!VersionsOf
  <2> HIDE DEF d
  <2>3. CSound(d) /\ Harmless(d)
    BY <1>0, <1>7, <2>2 DEF CSound, Harmless, C!CloneSteps, C!ListVersions
  <2> QED
    BY <2>1, <2>2, <2>3, CallHarmless
<1>8. CASE C!Cascade(r)
  BY <1>8, Cascades
<1>9. CASE C!DeleteBlobs(r)
  <2>1. PICK d \in CCall : /\ call' = [call EXCEPT ![r] = d]
                           /\ d.step \in {"blobs", "drop_product"} /\ d.product = call[r].product
    <3>1. CASE C!Goto(r, "drop_product")
      <4> DEFINE d == [call[r] EXCEPT !.step = "drop_product"]
      <4>1. call' = [call EXCEPT ![r] = d] /\ d \in CCall /\ d.step = "drop_product"
            /\ d.product = call[r].product
        BY <1>0, <3>1 DEF C!Goto, CCall, C!Steps
      <4> QED
        BY <4>1
    <3>2. ASSUME NEW v \in call[r].versions, call' = [call EXCEPT ![r].versions = @ \ {v}]
          PROVE  \E d \in CCall : /\ call' = [call EXCEPT ![r] = d]
                           /\ d.step \in {"blobs", "drop_product"} /\ d.product = call[r].product
      <4> DEFINE d == [call[r] EXCEPT !.versions = @ \ {v}]
      <4>1. call' = [call EXCEPT ![r] = d] /\ d \in CCall /\ d.step = call[r].step
            /\ d.product = call[r].product
        BY <1>0, <3>2 DEF CCall
      <4> HIDE DEF d
      <4> QED
        BY <1>9, <4>1 DEF C!DeleteBlobs
    <3> QED
      BY <1>9, <3>1, <3>2 DEF C!DeleteBlobs
  <2>2. CSound(d) /\ Harmless(d)
    BY <1>0, <1>9, <2>1 DEF CSound, Harmless, C!CloneSteps, C!DeleteBlobs
  <2> QED
    BY <1>9, <2>1, <2>2, CallHarmless DEF C!DeleteBlobs, SameRows, C!rows
<1>10. CASE C!DropProduct(r)
  BY <1>10, DropsProduct
<1> QED
  BY <1>1, <1>2, <1>3, <1>4, <1>5, <1>6, <1>7, <1>8, <1>9, <1>10 DEF C!AdminCall

(* A product's latest version: the version from which the fewest ids are   *)
(* left exists, because finite sets are well-founded under inclusion.      *)
LEMMA LatestIsOne ==
  ASSUME C!ConstantsAssumption, NEW p, C!VersionsOf(p) # {}
  PROVE  C!Latest(p) \in C!VersionsOf(p)
<1> DEFINE T == {v..MaxVersions : v \in C!VersionsOf(p)}
<1>1. C!VersionsOf(p) \subseteq C!Version /\ MaxVersions \in Nat
  BY DEF C!VersionsOf, C!ConstantsAssumption
<1>2. IsFiniteSet(C!Version)
  BY <1>1, FS_Interval DEF C!Version
<1>3. \A t \in T : t \in SUBSET C!Version
  BY <1>1 DEF C!Version
<1>4. T \subseteq FiniteSubsetsOf(C!Version)
  BY <1>2, <1>3, FS_Subset DEF FiniteSubsetsOf
<1>5. PICK t \in T : \A u \in T : <<u, t>> \notin StrictSubsetOrdering(C!Version)
  <2>1. T # {}
    OBVIOUS
  <2>2. IsWellFoundedOn(StrictSubsetOrdering(C!Version), FiniteSubsetsOf(C!Version))
    BY FS_StrictSubsetOrderingWellFounded
  <2> HIDE DEF T
  <2> QED
    BY <1>4, <2>1, <2>2, WFMin
<1>6. PICK v \in C!VersionsOf(p) : t = v..MaxVersions
  BY <1>5
<1>7. ASSUME NEW w \in C!VersionsOf(p) PROVE w <= v
  <2>1. /\ w..MaxVersions \in SUBSET C!Version /\ v..MaxVersions \in SUBSET C!Version
        /\ v \in 1..MaxVersions /\ w \in 1..MaxVersions
    BY <1>1, <1>3, <1>6 DEF C!Version
  <2>2. ~(w..MaxVersions \subseteq v..MaxVersions /\ w..MaxVersions # v..MaxVersions)
    <3>1. w..MaxVersions \in T /\ t = v..MaxVersions
      BY <1>6
    <3> HIDE DEF T
    <3>2. <<w..MaxVersions, v..MaxVersions>> \notin StrictSubsetOrdering(C!Version)
      BY <1>5, <3>1
    <3> DEFINE x == w..MaxVersions
               y == v..MaxVersions
    <3>3. x \in SUBSET C!Version /\ y \in SUBSET C!Version
      BY <2>1
    <3> HIDE DEF x, y
    <3>4. x \subseteq y /\ x # y => <<x, y>> \in StrictSubsetOrdering(C!Version)
      BY <3>3 DEF StrictSubsetOrdering
    <3> QED
      BY <3>2, <3>4 DEF x, y
  <2>3. CASE v < w
    <3>1. v \in v..MaxVersions /\ v \notin w..MaxVersions
      BY <1>1, <2>1, <2>3
    <3>2. w..MaxVersions \subseteq v..MaxVersions
      BY <1>1, <2>1, <2>3
    <3> QED
      BY <2>2, <3>1, <3>2
  <2> QED
    BY <2>1, <2>3
<1> QED
  BY <1>7 DEF C!Latest

(* The handler of r goes on to a step of d, about the product and label it *)
(* was already about.                                                      *)
LEMMA CloneGoesOn ==
  ASSUME C!ConstantsAssumption, CInv, NEW r \in Replica, NEW d \in CCall,
         call' = [call EXCEPT ![r] = d], SameRows,
         call[r].step \in C!CloneSteps, d.step \in C!CloneSteps \cup {"list_bindings"},
         d.product = call[r].product, d.label = call[r].label, d.new = call[r].new,
         d.source = call[r].source
  PROVE  CInv'
<1>1. CSound(call[r]) /\ \A s \in Replica : s # r => CApart(call[r], call[s])
  BY DEF CInv
<1>2. CSound(d) /\ \A s \in Replica : s # r => CApart(d, call[s])
  <2>1. 1..born \subseteq C!Version
    BY DEF CInv, CTyped, C!ConstantsAssumption, C!Version
  <2> QED
    BY <1>1, <2>1 DEF CSound, CApart, C!CloneSteps
<1>3. version' \in [C!Version -> VersionRow]
  BY DEF SameRows, CInv, CTyped
<1> QED
  BY <1>2, <1>3, CallMoved DEF SameRows

(* The label was free: no version has it and nobody else is inserting it.  *)
LEMMA ClonesInsert ==
  ASSUME C!ConstantsAssumption, CInv, NEW r \in Replica, C!CloneInsert(r) PROVE CInv'
<1>1. call[r] \in CCall /\ CSound(call[r]) /\ call[r].step = "clone_insert"
  BY DEF CInv, CTyped, C!CloneInsert, C!At
<1>2. CASE C!Return(r) /\ born' = born
  <2>1. version' \in [C!Version -> VersionRow] /\ SameRows
    BY <1>2 DEF C!CloneInsert, C!rows, SameRows, CInv, CTyped
  <2> QED
    BY <1>2, <2>1, CallReturns DEF SameRows
<1>3. CASE /\ ~\E v \in C!VersionsOf(call[r].product) : version[v].label = call[r].label
           /\ born < MaxVersions /\ born' = born + 1
           /\ call' = [call EXCEPT ![r].step = "clone_classes", ![r].new = born + 1]
  <2> DEFINE d == [call[r] EXCEPT !.step = "clone_classes", !.new = born + 1]
  <2>1. born \in Nat /\ born + 1 \in C!Version /\ born + 1 \in 0..MaxVersions
        /\ 1..born \subseteq 1..(born + 1) /\ 1..(born + 1) \subseteq C!Version
    BY <1>3 DEF C!ConstantsAssumption, C!Version, CInv, CTyped
  <2>2. /\ call' = [call EXCEPT ![r] = d] /\ d \in CCall /\ d.step = "clone_classes"
        /\ d.new = born + 1 /\ d.product = call[r].product /\ d.label = call[r].label
        /\ d.source = call[r].source
    BY <1>1, <1>3, <2>1 DEF CCall, C!Steps
  <2> HIDE DEF d
  <2>3. UNCHANGED <<productRow, version, retired>>
    BY DEF C!CloneInsert, C!rows
  <2>4. /\ call' \in [Replica -> CCall] /\ call'[r] = d
        /\ \A s \in Replica : s # r => call'[s] = call[s]
    BY <2>2 DEF CInv, CTyped
  <2>5. CTyped'
    BY <1>3, <2>1, <2>3, <2>4 DEF CInv, CTyped
  <2>6. CRows' /\ C!LabelsUnique'
    BY <1>3, <2>1, <2>3 DEF CInv, CRows, Known, C!LabelsUnique, C!VersionsOf, C!Version
  <2>7. ASSUME NEW s \in Replica, s # r PROVE CSound(call[s])'
    BY <1>3, <2>1, <2>3, <2>4, <2>7 DEF CInv, CSound, Known, C!CloneSteps
  <2>8. version[born + 1].product = None
    BY <2>1 DEF CInv, CRows
  <2>9. \A v \in C!Version : version[v].product = d.product => version[v].label # d.label
    BY <1>1, <1>3, <2>2 DEF C!VersionsOf, CSound, C!ConstantsAssumption
  <2>10. CSound(call[r])'
    BY <1>1, <1>3, <2>1, <2>2, <2>3, <2>4, <2>8, <2>9 DEF CSound, Known, C!CloneSteps
  <2>11. \A s, t \in Replica : s # t => CApart(call[s], call[t])'
    <3>1. \A s \in Replica : s # r /\ call[s].step \in C!CloneSteps =>
            call[s].new # d.new /\ <<call[s].product, call[s].label>> # <<d.product, d.label>>
      <4>1. \A s \in Replica : call[s].step \in C!CloneSteps => call[s].new \in 1..born
        BY DEF CInv, CSound
      <4> QED
        BY <2>1, <2>2, <4>1 DEF C!CloneInsert
    <3> QED
      BY <2>2, <2>4, <3>1 DEF CInv, CApart, C!CloneSteps
  <2> QED
    BY <2>4, <2>5, <2>6, <2>7, <2>10, <2>11 DEF CInv
<1> QED
  BY <1>2, <1>3 DEF C!CloneInsert

(* The clone commits: its version appears under a label nobody else has.   *)
LEMMA ClonesCommit ==
  ASSUME C!ConstantsAssumption, CInv, NEW r \in Replica, C!CloneBindings(r) PROVE CInv'
<1> DEFINE n == call[r].new
           row == [product |-> call[r].product, label |-> call[r].label,
                   classes |-> call[r].classes, templates |-> call[r].templates]
           d == [call[r] EXCEPT !.step = "list_bindings"]
<1>1. /\ call[r] \in CCall /\ CSound(call[r]) /\ call[r].step = "clone_bindings"
      /\ 1..born \subseteq C!Version
  BY DEF CInv, CTyped, C!CloneBindings, C!At, C!ConstantsAssumption, C!Version
<1>2. /\ n \in 1..born /\ n \in C!Version /\ call[r].product \in Product
      /\ Known(call[r].product) /\ call[r].label \in Label /\ version[n].product = None
      /\ \A v \in C!Version : version[v].product = call[r].product
                               => version[v].label # call[r].label
  BY <1>1 DEF CSound, C!CloneSteps
<1>3. row \in VersionRow /\ row.product = call[r].product /\ row.label = call[r].label
  BY <1>1 DEF CCall, VersionRow
<1>4. /\ call' = [call EXCEPT ![r] = d] /\ d \in CCall /\ d.step = "list_bindings" /\ d.new = n
  BY <1>1 DEF C!CloneBindings, C!Goto, CCall, C!Steps
<1>5. version' = [version EXCEPT ![n] = row] /\ UNCHANGED <<productRow, retired, born>>
  BY DEF C!CloneBindings
<1> HIDE DEF row, d, n
<1>6. /\ call' \in [Replica -> CCall] /\ call'[r] = d
      /\ \A s \in Replica : s # r => call'[s] = call[s]
  BY <1>4 DEF CInv, CTyped
<1>7. CTyped' /\ \A v \in C!Version : version'[v] = IF v = n THEN row ELSE version[v]
  BY <1>2, <1>3, <1>5, <1>6 DEF CInv, CTyped
<1>8. CRows' /\ C!LabelsUnique'
  <2>1. CRows'
    BY <1>2, <1>3, <1>5, <1>7 DEF CInv, CTyped, CRows, Known, C!Version
  <2>2. ASSUME NEW p \in Product, NEW v \in C!Version, NEW w \in C!Version,
               version'[v].product = p, version'[w].product = p, p # None,
               version'[v].label = version'[w].label
        PROVE  v = w
    <3>1. CASE v # n /\ w # n
      BY <1>7, <2>2, <3>1 DEF CInv, C!LabelsUnique, C!VersionsOf
    <3>2. CASE v = n \/ w = n
      BY <1>2, <1>3, <1>7, <2>2, <3>2
    <3> QED
      BY <3>1, <3>2
  <2> QED
    BY <2>1, <2>2 DEF C!LabelsUnique, C!VersionsOf
<1>9. CSound(call[r])'
  BY <1>2, <1>4, <1>6 DEF CSound, C!CloneSteps
<1>10. ASSUME NEW s \in Replica, s # r PROVE CSound(call[s])'
  <2>1. CSound(call[s]) /\ call'[s] = call[s]
        /\ (call[s].step \in C!CloneSteps =>
              call[s].new # n /\ <<call[s].product, call[s].label>> # <<row.product, row.label>>)
    BY <1>1, <1>3, <1>6, <1>10 DEF CInv, CApart, C!CloneSteps, n
  <2> QED
    BY <1>1, <1>5, <1>7, <2>1 DEF CSound, C!CloneSteps, Known
<1>11. \A s, t \in Replica : s # t => CApart(call[s], call[t])'
  BY <1>4, <1>6 DEF CInv, CApart, C!CloneSteps
<1> QED
  BY <1>6, <1>7, <1>8, <1>9, <1>10, <1>11 DEF CInv

(* Clones, commits of templates and uploads.                               *)
LEMMA EditorCalls ==
  ASSUME C!ConstantsAssumption, CInv, NEW r \in Replica, C!EditorCall(r) PROVE CInv'
<1> USE DEF C!At
<1>0. call[r] \in CCall /\ CSound(call[r])
  BY DEF CInv, CTyped
<1>1. ASSUME NEW p \in Product, NEW l \in Label, NEW default \in BOOLEAN,
             C!RequestClone(r, p, l, default)
      PROVE  CInv'
  <2>1. PICK s \in C!VersionsOf(p) :
          C!Begin(r, [C!NoCall EXCEPT !.step = "clone_insert", !.product = p, !.label = l,
                                      !.source = s, !.asked = C!Content(s)])
    BY <1>1, LatestIsOne DEF C!RequestClone
  <2> DEFINE a == C!Content(s)
             d == [C!NoCall EXCEPT !.step = "clone_insert", !.product = p, !.label = l,
                                   !.source = s, !.asked = a]
  <2>2. SameRows /\ call' = [call EXCEPT ![r] = d]
    BY <1>1, <2>1 DEF C!RequestClone, C!Begin, SameRows, C!rows
  <2>3. s \in C!Version /\ s \in 0..MaxVersions
    BY DEF C!VersionsOf, C!Version, C!ConstantsAssumption
  <2>6. a \in Contents
    BY <2>3 DEF C!Content, C!Bound, Contents, CInv, CTyped, VersionRow
  <2> HIDE DEF a
  <2>4. /\ d \in CCall /\ d.step = "clone_insert" /\ d.product = p /\ d.label = l
        /\ d.source = s
    BY CNoCall, <2>3, <2>6 DEF CCall, C!Steps
  <2> HIDE DEF d
  <2>5. CSound(d) /\ Harmless(d)
    BY <1>1, <2>3, <2>4 DEF C!RequestClone, CSound, Known, Harmless, C!CloneSteps
  <2> QED
    BY <2>2, <2>4, <2>5, CallHarmless
<1>2. CASE C!CloneInsert(r)
  BY <1>2, ClonesInsert
<1>3. CASE C!CloneClasses(r)
  <2> DEFINE cs == version[call[r].source].classes
             d == [call[r] EXCEPT !.step = "clone_templates", !.classes = cs]
  <2>1. SameRows /\ call' = [call EXCEPT ![r] = d]
    BY <1>0, <1>3 DEF C!CloneClasses, SameRows, C!rows, CInv, CTyped
  <2>2. cs \in SUBSET Class
    BY <1>0, <1>3 DEF C!CloneClasses, CSound, C!CloneSteps, CInv, CTyped, VersionRow
  <2> HIDE DEF cs
  <2>3. /\ d \in CCall /\ d.step = "clone_templates" /\ d.product = call[r].product
        /\ d.label = call[r].label /\ d.new = call[r].new /\ d.source = call[r].source
    BY <1>0, <2>2 DEF CCall, C!Steps
  <2> HIDE DEF d
  <2> QED
    BY <1>3, <2>1, <2>3, CloneGoesOn DEF C!CloneClasses, C!CloneSteps
<1>4. CASE C!CloneTemplates(r)
  <2> DEFINE ts == version[call[r].source].templates
             d == [call[r] EXCEPT !.step = "clone_bindings", !.templates = ts]
  <2>1. SameRows /\ call' = [call EXCEPT ![r] = d]
    BY <1>0, <1>4 DEF C!CloneTemplates, SameRows, C!rows, CInv, CTyped
  <2>2. ts \in SUBSET Class
    BY <1>0, <1>4 DEF C!CloneTemplates, CSound, C!CloneSteps, CInv, CTyped, VersionRow
  <2> HIDE DEF ts
  <2>3. /\ d \in CCall /\ d.step = "clone_bindings" /\ d.product = call[r].product
        /\ d.label = call[r].label /\ d.new = call[r].new /\ d.source = call[r].source
    BY <1>0, <2>2 DEF CCall, C!Steps
  <2> HIDE DEF d
  <2> QED
    BY <1>4, <2>1, <2>3, CloneGoesOn DEF C!CloneTemplates, C!CloneSteps
<1>5. CASE C!CloneBindings(r)
  BY <1>5, ClonesCommit
<1>6. CASE C!ListBindings(r)
  <2>1. CASE C!Return(r)
    BY <1>6, <2>1, CallReturns DEF C!ListBindings, C!rows, CInv, CTyped
  <2>2. CASE call' = [call EXCEPT ![r].step = "submit", ![r].files = C!Bound(call[r].new)]
    <3> DEFINE fs == C!Bound(call[r].new)
               d == [call[r] EXCEPT !.step = "submit", !.files = fs]
    <3>1. SameRows /\ call' = [call EXCEPT ![r] = d]
      BY <1>0, <1>6, <2>2 DEF C!ListBindings, SameRows, C!rows, CInv, CTyped
    <3>2. fs \subseteq File
      BY DEF C!Bound
    <3> HIDE DEF fs
    <3>3. d \in CCall /\ d.step = "submit" /\ d.new = call[r].new /\ d.files = fs
      BY <1>0, <3>2 DEF CCall, C!Steps
    <3> HIDE DEF d
    <3>4. CSound(d) /\ Harmless(d)
      BY <1>0, <1>6, <3>2, <3>3 DEF C!ListBindings, CSound, Harmless, C!CloneSteps
    <3> QED
      BY <3>1, <3>3, <3>4, CallHarmless
  <2> QED
    BY <1>6, <2>1, <2>2 DEF C!ListBindings
<1>7. CASE C!Submit(r)
  <2>1. CASE C!Return(r)
    BY <1>7, <2>1, CallReturns DEF C!Submit, C!rows, CInv, CTyped
  <2>2. ASSUME NEW f \in call[r].files, call' = [call EXCEPT ![r].files = @ \ {f}]
        PROVE  CInv'
    <3> DEFINE d == [call[r] EXCEPT !.files = @ \ {f}]
    <3>1. SameRows /\ call' = [call EXCEPT ![r] = d]
      BY <1>0, <1>7, <2>2 DEF C!Submit, SameRows, C!rows, CInv, CTyped
    <3>2. d \in CCall /\ d.step = "submit" /\ d.new = call[r].new
          /\ d.files \subseteq call[r].files
      BY <1>0, <1>7 DEF CCall, C!Submit
    <3> HIDE DEF d
    <3>3. CSound(d) /\ Harmless(d)
      BY <1>0, <1>7, <3>2 DEF C!Submit, CSound, Harmless, C!CloneSteps
    <3> QED
      BY <3>1, <3>2, <3>3, CallHarmless
  <2> QED
    BY <1>7, <2>1, <2>2 DEF C!Submit
<1>8. ASSUME NEW v \in C!Version, NEW c \in Class, C!RequestCommit(r, v, c) PROVE CInv'
  <2> DEFINE st == IF c \in version[v].classes THEN "insert_template" ELSE "add_class"
             d == [C!NoCall EXCEPT !.step = st, !.new = v, !.class = c]
  <2>1. SameRows /\ call' = [call EXCEPT ![r] = d]
    BY <1>8 DEF C!RequestCommit, C!Begin, SameRows, C!rows
  <2>2. st \in {"insert_template", "add_class"} /\ v \in 0..MaxVersions
    BY DEF C!Version, C!ConstantsAssumption
  <2> HIDE DEF st
  <2>3. d \in CCall /\ d.step = st /\ d.new = v /\ d.class = c
    BY CNoCall, <2>2 DEF CCall, C!Steps
  <2> HIDE DEF d
  <2>4. CSound(d) /\ Harmless(d)
    BY <2>2, <2>3 DEF CSound, Harmless, C!CloneSteps
  <2> QED
    BY <2>1, <2>3, <2>4, CallHarmless
<1>9. CASE C!AddClass(r)
  <2>1. CASE C!Return(r) /\ UNCHANGED version
    BY <1>9, <2>1, CallReturns DEF C!AddClass, CInv, CTyped
  <2>2. CASE /\ version' = [version EXCEPT ![call[r].new].classes = @ \cup {call[r].class}]
             /\ C!Goto(r, "insert_template")
    <3> DEFINE d == [call[r] EXCEPT !.step = "insert_template"]
    <3>1. /\ call' = [call EXCEPT ![r] = d] /\ d \in CCall /\ d.step = "insert_template"
          /\ d.new = call[r].new /\ d.class = call[r].class
      BY <1>0, <2>2 DEF C!Goto, CCall, C!Steps
    <3> HIDE DEF d
    <3>2. CSound(d) /\ \A s \in Replica : s # r => CApart(d, call[s])
      BY <1>0, <1>9, <3>1 DEF C!AddClass, CSound, CApart, C!CloneSteps
    <3>3. call[r].new \in C!Version /\ call[r].class \in Class
      BY <1>0, <1>9 DEF C!AddClass, CSound
    <3>4. /\ version' \in [C!Version -> VersionRow]
          /\ \A v \in C!Version : /\ version'[v].product = version[v].product
                                  /\ version'[v].label = version[v].label
      BY <2>2, <3>3 DEF CInv, CTyped, VersionRow
    <3> QED
      BY <1>9, <3>1, <3>2, <3>4, CallMoved DEF C!AddClass
  <2> QED
    BY <1>9, <2>1, <2>2 DEF C!AddClass
<1>10. CASE C!InsertTemplate(r)
  <2>1. call[r].new \in C!Version /\ call[r].class \in Class
    BY <1>0, <1>10 DEF C!InsertTemplate, CSound
  <2>2. /\ version' \in [C!Version -> VersionRow]
        /\ \A v \in C!Version : /\ version'[v].product = version[v].product
                                /\ version'[v].label = version[v].label
    <3>1. CASE version' = [version EXCEPT ![call[r].new].templates = @ \cup {call[r].class}]
      BY <2>1, <3>1 DEF CInv, CTyped, VersionRow
    <3>2. CASE version' = version
      BY <3>2 DEF CInv, CTyped
    <3> QED
      BY <1>10, <3>1, <3>2 DEF C!InsertTemplate
  <2> QED
    BY <1>10, <2>2, CallReturns DEF C!InsertTemplate
<1>11. ASSUME NEW v \in C!Version, NEW f \in File, C!RequestUpload(r, v, f) PROVE CInv'
  <2>1. SameRows /\ call' = [call EXCEPT ![r] = call[r]] /\ Harmless(call[r])
    BY <1>0, <1>11 DEF C!RequestUpload, C!Admit, C!rows, SameRows, Harmless, C!CloneSteps, CInv, CTyped
  <2> QED
    BY <1>0, <2>1, CallHarmless
<1>12. ASSUME NEW v \in C!Version, NEW f \in File, C!Bind(r, v, f) PROVE CInv'
  <2> DEFINE d == [C!NoCall EXCEPT !.step = "enqueue", !.new = v, !.files = {f}]
  <2>1. SameRows /\ call' = [call EXCEPT ![r] = d]
    BY <1>12 DEF C!Bind, SameRows
  <2>2. v \in 0..MaxVersions
    BY DEF C!Version, C!ConstantsAssumption
  <2>3. d \in CCall /\ d.step = "enqueue" /\ d.new = v /\ d.files = {f}
    BY CNoCall, <2>2 DEF CCall, C!Steps
  <2> HIDE DEF d
  <2>4. CSound(d) /\ Harmless(d)
    BY <2>3 DEF CSound, Harmless, C!CloneSteps
  <2> QED
    BY <2>1, <2>3, <2>4, CallHarmless
<1>13. CASE C!Enqueue(r)
  BY <1>13, CallReturns DEF C!Enqueue, C!rows, CInv, CTyped
<1> QED
  BY <1>1, <1>2, <1>3, <1>4, <1>5, <1>6, <1>7, <1>8, <1>9, <1>10, <1>11, <1>12, <1>13
     DEF C!EditorCall

LEMMA CInit == ASSUME C!ConstantsAssumption, C!Init PROVE CInv
<1>1. CTyped
  BY CNoCall DEF C!Init, CTyped, C!NoVersion, VersionRow, C!ConstantsAssumption
<1>2. CRows /\ C!LabelsUnique
  BY DEF C!Init, C!NoVersion, CRows, C!LabelsUnique, C!VersionsOf
<1>3. \A r \in Replica : CSound(call[r])
  BY CNoCall DEF C!Init
<1>4. \A r, s \in Replica : r # s => CApart(call[r], call[s])
  BY CNoCall DEF C!Init, CApart, C!CloneSteps
<1> QED
  BY <1>1, <1>2, <1>3, <1>4 DEF CInv

LEMMA CStep == ASSUME C!ConstantsAssumption, CInv, [C!Next]_C!vars PROVE CInv'
<1>1. ASSUME NEW r \in Replica, C!AdminCall(r) \/ C!EditorCall(r) PROVE CInv'
  BY <1>1, AdminCalls, EditorCalls
<1>2. ASSUME NEW r \in Replica, C!Crash(r) PROVE CInv'
  BY <1>2, CallReturns DEF C!Crash, C!rows, CInv, CTyped
<1>3. CASE UNCHANGED C!vars \/ \E j \in C!Version \X File : C!Work(j)
  <2>1. UNCHANGED <<productRow, version, born, retired, call>>
    BY <1>3 DEF C!vars, C!rows, C!Work, C!Claim, C!PutArtifacts, C!ApplySuccess
  <2>2. CTyped' /\ CRows' /\ C!LabelsUnique'
    BY <2>1 DEF CInv, CTyped, CRows, Known, C!LabelsUnique, C!VersionsOf
  <2>3. \A r \in Replica : CSound(call[r])'
    BY <2>1 DEF CInv, CSound, Known
  <2>4. \A r, s \in Replica : r # s => CApart(call[r], call[s])'
    BY <2>1 DEF CInv, CApart
  <2> QED
    BY <2>2, <2>3, <2>4 DEF CInv
<1> QED
  BY <1>1, <1>2, <1>3 DEF C!Next

LEMMA CInvAlways == ASSUME C!ConstantsAssumption PROVE C!Spec => []CInv
<1>1. C!Init => CInv
  BY CInit
<1>2. CInv /\ [C!Next]_C!vars => CInv'
  BY CStep
<1> QED
  BY <1>1, <1>2, PTL DEF C!Spec

(* Two replicas never give one label to two versions of a product: the     *)
(* unique index of the table makes the second insert fail or wait          *)
(* (versions.py).                                                          *)
THEOREM LabelsAreUnique == ASSUME C!ConstantsAssumption PROVE C!Spec => []C!LabelsUnique
<1>1. CInv => C!LabelsUnique
  BY DEF CInv
<1> QED
  BY <1>1, CInvAlways, PTL

-----------------------------------------------------------------------------
(* The rest of the tables, the blobs and the jobs.                         *)

CRest ==
  /\ customer \subseteq Customer \cup {Seed}
  /\ binding \in [C!Version -> [File -> C!Binding]]
  /\ artifact \subseteq C!Version \X File
  /\ queued \subseteq C!Version \X File
  /\ DOMAIN running \subseteq C!Version \X File
  /\ awaiting \subseteq C!Version \X File
  /\ cut \subseteq CCall

LEMMA RestStep == ASSUME C!ConstantsAssumption, CInv, CRest, [C!Next]_C!vars PROVE CRest'
<1>0. ASSUME NEW r \in Replica PROVE call[r] \in CCall /\ CSound(call[r])
  BY DEF CInv, CTyped
<1>1. ASSUME NEW r \in Replica, C!AdminCall(r) PROVE CRest'
  <2>1. CASE C!DropCustomer(r) \/ \E c \in Customer : C!CreateCustomer(r, c)
    BY <2>1 DEF C!DropCustomer, C!CreateCustomer, C!work, CRest
  <2>2. CASE C!Cascade(r)
    <3>1. \A v \in C!Version : [f \in File |-> "none"] \in [File -> C!Binding]
      BY DEF C!Binding
    <3> QED
      BY <2>2, <3>1 DEF C!Cascade, C!work, CRest
  <2>3. CASE C!DeleteBlobs(r)
    BY <2>3 DEF C!DeleteBlobs, C!rows, CRest
  <2>4. CASE \/ C!InsertProduct(r) \/ C!ListVersions(r) \/ C!DropProduct(r)
             \/ \E c \in Customer : C!ListProductsOf(r, c)
             \/ \E p \in Product, c \in Customer \cup {Seed}, l \in Label : C!RequestProduct(r, p, c, l)
             \/ \E p \in Product : C!RequestDelete(r, p)
    BY <2>4 DEF C!InsertProduct, C!ListVersions, C!DropProduct, C!ListProductsOf, C!RequestProduct,
                C!RequestDelete, C!rows, C!work, CRest
  <2> QED
    BY <1>1, <2>1, <2>2, <2>3, <2>4 DEF C!AdminCall
<1>2. ASSUME NEW r \in Replica, C!EditorCall(r) PROVE CRest'
  <2>1. CASE C!CloneBindings(r)
    <3>1. [f \in File |-> IF binding[call[r].source][f] = "none" THEN "none" ELSE "busy"]
            \in [File -> C!Binding]
      BY DEF C!Binding
    <3> QED
      BY <2>1, <3>1 DEF C!CloneBindings, C!work, CRest
  <2>2. CASE C!Submit(r) \/ C!Enqueue(r)
    <3>1. /\ call[r].new \in C!Version /\ call[r].files \subseteq File
          /\ \A f \in call[r].files : <<call[r].new, f>> \in C!Version \X File
      BY <1>0, <2>2 DEF C!Submit, C!Enqueue, C!At, CSound
    <3> QED
      BY <2>2, <3>1 DEF C!Submit, C!Enqueue, C!rows, CRest
  <2>3. ASSUME NEW v \in C!Version, NEW f \in File, C!Bind(r, v, f) PROVE CRest'
    BY <2>3 DEF C!Bind, C!work, CRest, C!Binding
  <2>4. ASSUME NEW v \in C!Version, NEW f \in File, C!RequestUpload(r, v, f) PROVE CRest'
    BY <2>4 DEF C!RequestUpload, C!rows, C!work, CRest
  <2>5. CASE \/ \E p \in Product, l \in Label, d \in BOOLEAN : C!RequestClone(r, p, l, d)
             \/ C!CloneInsert(r) \/ C!CloneClasses(r) \/ C!CloneTemplates(r) \/ C!ListBindings(r)
             \/ \E v \in C!Version, c \in Class : C!RequestCommit(r, v, c)
             \/ C!AddClass(r) \/ C!InsertTemplate(r)
    BY <2>5 DEF C!RequestClone, C!CloneInsert, C!CloneClasses, C!CloneTemplates, C!ListBindings,
                C!RequestCommit, C!AddClass, C!InsertTemplate, C!rows, C!work, CRest
  <2> QED
    BY <1>2, <2>1, <2>2, <2>3, <2>4, <2>5 DEF C!EditorCall
<1>3. ASSUME NEW r \in Replica, C!Crash(r) PROVE CRest'
  BY <1>0, <1>3 DEF C!Crash, C!rows, C!work, CRest
<1>4. ASSUME NEW j \in C!Version \X File, C!Work(j) PROVE CRest'
  <2>1. CASE C!Claim(j) \/ C!PutArtifacts(j)
    BY <2>1 DEF C!Claim, C!PutArtifacts, C!rows, CRest
  <2>2. CASE C!ApplySuccess(j)
    BY <2>2 DEF C!ApplySuccess, CRest, C!Binding
  <2> QED
    BY <1>4, <2>1, <2>2 DEF C!Work
<1>5. CASE UNCHANGED C!vars
  BY <1>5 DEF C!vars, C!rows, C!work, CRest
<1> QED
  BY <1>1, <1>2, <1>3, <1>4, <1>5 DEF C!Next

(* Every variable of the catalogue keeps its type, with any number of      *)
(* replicas, versions, calls and deaths.                                   *)
THEOREM CatalogTypes ==
  ASSUME C!ConstantsAssumption PROVE C!Spec => []C!TypeOK
<1>1. C!Init => CRest
  BY DEF C!Init, CRest, C!Binding
<1>2. CInv /\ CRest /\ [C!Next]_C!vars => CRest'
  BY RestStep
<1>3. CInv /\ CRest => C!TypeOK
  BY DEF CInv, CTyped, CRest, C!TypeOK, VersionRow, CCall
<1> QED
  BY <1>1, <1>2, <1>3, CInvAlways, PTL DEF C!Spec

-----------------------------------------------------------------------------
(* Deletions.                                                              *)

(* The product p is deleted, or will be, or half of it is. *)
Dying(p) == p \in retired \/ \E c \in C!Unfinished : C!Deletes(c, p)

(* What a cascade listed belongs to its product or is gone, and is nothing *)
(* that a clone is about to insert.                                        *)
Listed(c) ==
  c.step = "cascade" =>
    \A v \in c.versions : /\ v <= born
                          /\ version[v].product \in {None, c.product}
                          /\ \A s \in Replica : call[s].step \in C!CloneSteps => call[s].new # v

(* The version v loses nothing. *)
Kept(v) ==
  /\ version'[v].product = version[v].product
  /\ version[v].classes \subseteq version'[v].classes
  /\ version[v].templates \subseteq version'[v].templates
  /\ C!Bound(v) \subseteq C!Bound(v)'

LEMMA OneMoves ==
  ASSUME NEW r \in Replica, C!AdminCall(r) \/ C!EditorCall(r) \/ C!Crash(r), CInv
  PROVE  \A s \in Replica : s # r => call'[s] = call[s]
<1>0. call \in [Replica -> CCall]
  BY DEF CInv, CTyped
<1>1. CASE C!AdminCall(r)
  <2>1. CASE \/ C!DropCustomer(r) \/ C!InsertProduct(r) \/ C!DropProduct(r)
             \/ \E c \in Customer : C!CreateCustomer(r, c)
    BY <1>0, <2>1 DEF C!CreateCustomer, C!DropCustomer, C!InsertProduct, C!DropProduct, C!Return
  <2>2. CASE C!ListVersions(r) \/ C!Cascade(r) \/ C!DeleteBlobs(r)
    BY <1>0, <2>2 DEF C!ListVersions, C!Cascade, C!DeleteBlobs, C!Goto
  <2>3. ASSUME NEW d, C!Begin(r, d) PROVE \A s \in Replica : s # r => call'[s] = call[s]
    BY <1>0, <2>3 DEF C!Begin
  <2>4. ASSUME NEW c \in Customer, C!ListProductsOf(r, c)
        PROVE  \A s \in Replica : s # r => call'[s] = call[s]
    BY <2>3, <2>4 DEF C!ListProductsOf
  <2>5. ASSUME NEW p \in Product, NEW c \in Customer \cup {Seed}, NEW l \in Label,
               C!RequestProduct(r, p, c, l)
        PROVE  \A s \in Replica : s # r => call'[s] = call[s]
    BY <2>3, <2>5 DEF C!RequestProduct
  <2>6. ASSUME NEW p \in Product, C!RequestDelete(r, p)
        PROVE  \A s \in Replica : s # r => call'[s] = call[s]
    BY <2>3, <2>6 DEF C!RequestDelete
  <2> QED
    BY <1>1, <2>1, <2>2, <2>4, <2>5, <2>6 DEF C!AdminCall
<1>2. CASE C!EditorCall(r)
  <2>1. CASE C!CloneInsert(r) \/ C!CloneClasses(r) \/ C!CloneTemplates(r) \/ C!CloneBindings(r)
    BY <1>0, <2>1 DEF C!CloneInsert, C!CloneClasses, C!CloneTemplates, C!CloneBindings, C!Return, C!Goto
  <2>2. CASE \/ C!ListBindings(r) \/ C!Submit(r) \/ C!AddClass(r) \/ C!InsertTemplate(r)
             \/ C!Enqueue(r)
    BY <1>0, <2>2 DEF C!ListBindings, C!Submit, C!AddClass, C!InsertTemplate, C!Enqueue, C!Return, C!Goto
  <2>3. ASSUME NEW d, C!Begin(r, d) PROVE \A s \in Replica : s # r => call'[s] = call[s]
    BY <1>0, <2>3 DEF C!Begin
  <2>4. ASSUME NEW p \in Product, NEW l \in Label, NEW default \in BOOLEAN,
               C!RequestClone(r, p, l, default)
        PROVE  \A s \in Replica : s # r => call'[s] = call[s]
    BY <2>3, <2>4 DEF C!RequestClone
  <2>5. ASSUME NEW v \in C!Version, NEW c \in Class, C!RequestCommit(r, v, c)
        PROVE  \A s \in Replica : s # r => call'[s] = call[s]
    BY <2>3, <2>5 DEF C!RequestCommit
  <2>6. ASSUME NEW v \in C!Version, NEW f \in File, C!RequestUpload(r, v, f) \/ C!Bind(r, v, f)
        PROVE  \A s \in Replica : s # r => call'[s] = call[s]
    BY <1>0, <2>6 DEF C!RequestUpload, C!Bind
  <2> QED
    BY <1>2, <2>1, <2>2, <2>4, <2>5, <2>6 DEF C!EditorCall
<1>3. CASE C!Crash(r)
  BY <1>0, <1>3 DEF C!Crash, C!Return
<1> QED
  BY <1>1, <1>2, <1>3

(* A deletion goes on, or ends with the product's row, or dies. *)
LEMMA DeletionGoesOn ==
  ASSUME CInv, NEW r \in Replica, C!AdminCall(r) \/ C!EditorCall(r), NEW p \in Product,
         C!Deletes(call[r], p)
  PROVE  C!Deletes(call'[r], p) \/ p \in retired'
<1> USE DEF C!At
<1>0. call[r] \in CCall /\ \A d : call' = [call EXCEPT ![r] = d] => call'[r] = d
  BY DEF CInv, CTyped
<1>1. CASE C!ListVersions(r)
  BY <1>0, <1>1 DEF C!ListVersions, C!Deletes, CCall, CInv, CTyped
<1>2. CASE C!Cascade(r)
  BY <1>0, <1>2 DEF C!Cascade, C!Goto, C!Deletes, CCall, CInv, CTyped
<1>3. CASE C!DeleteBlobs(r)
  BY <1>0, <1>3 DEF C!DeleteBlobs, C!Goto, C!Deletes, CCall, CInv, CTyped
<1>4. CASE C!DropProduct(r)
  BY <1>4 DEF C!DropProduct, C!Deletes
<1>5. CASE \/ C!DropCustomer(r) \/ C!InsertProduct(r)
           \/ \E c \in Customer : C!CreateCustomer(r, c) \/ C!ListProductsOf(r, c)
           \/ \E q \in Product, c \in Customer \cup {Seed}, l \in Label : C!RequestProduct(r, q, c, l)
           \/ \E q \in Product : C!RequestDelete(r, q)
  BY <1>5 DEF C!CreateCustomer, C!ListProductsOf, C!DropCustomer, C!RequestProduct,
     C!InsertProduct, C!RequestDelete, C!Begin, C!Admit, C!Deletes
<1>6. CASE C!EditorCall(r)
  BY <1>6 DEF C!EditorCall, C!RequestClone, C!CloneInsert, C!CloneClasses, C!CloneTemplates,
     C!CloneBindings, C!ListBindings, C!Submit, C!RequestCommit, C!AddClass, C!InsertTemplate,
     C!RequestUpload, C!Bind, C!Enqueue, C!Begin, C!Admit, C!Deletes
<1> QED
  BY <1>1, <1>2, <1>3, <1>4, <1>5, <1>6 DEF C!AdminCall

LEMMA RetiredGrows ==
  ASSUME [C!Next]_C!vars PROVE retired \subseteq retired' /\ cut \subseteq cut'
<1>1. ASSUME NEW r \in Replica, C!AdminCall(r) PROVE retired \subseteq retired' /\ cut' = cut
  BY <1>1 DEF C!AdminCall, C!CreateCustomer, C!ListProductsOf, C!DropCustomer, C!RequestProduct,
     C!InsertProduct, C!RequestDelete, C!ListVersions, C!Cascade, C!DeleteBlobs, C!DropProduct,
     C!rows
<1>2. ASSUME NEW r \in Replica, C!EditorCall(r) PROVE retired' = retired /\ cut' = cut
  BY <1>2 DEF C!EditorCall, C!RequestClone, C!CloneInsert, C!CloneClasses, C!CloneTemplates,
     C!CloneBindings, C!ListBindings, C!Submit, C!RequestCommit, C!AddClass, C!InsertTemplate,
     C!RequestUpload, C!Bind, C!Enqueue, C!rows
<1>3. ASSUME NEW r \in Replica, C!Crash(r) PROVE retired' = retired /\ cut \subseteq cut'
  BY <1>3 DEF C!Crash, C!rows
<1>4. ASSUME NEW j \in C!Version \X File, C!Work(j) PROVE retired' = retired /\ cut' = cut
  BY <1>4 DEF C!Work, C!Claim, C!PutArtifacts, C!ApplySuccess, C!rows
<1>5. CASE UNCHANGED C!vars
  BY <1>5 DEF C!vars, C!rows
<1> QED
  BY <1>1, <1>2, <1>3, <1>4, <1>5 DEF C!Next

LEMMA DyingStays ==
  ASSUME CInv, [C!Next]_C!vars, NEW p \in Product, Dying(p) PROVE Dying(p)'
<1>1. CASE p \in retired
  BY <1>1, RetiredGrows DEF Dying
<1>2. ASSUME NEW c \in cut, C!Deletes(c, p) PROVE Dying(p)'
  BY <1>2, RetiredGrows DEF Dying, C!Unfinished, C!Deletes
<1>3. ASSUME NEW s \in Replica, C!Deletes(call[s], p) PROVE Dying(p)'
  <2>0. C!Deletes(call'[s], p) => Dying(p)'
    BY DEF Dying, C!Unfinished, C!Deletes
  <2>1. ASSUME NEW r \in Replica, r # s, C!AdminCall(r) \/ C!EditorCall(r) \/ C!Crash(r)
        PROVE  Dying(p)'
    BY <1>3, <2>0, <2>1, OneMoves
  <2>2. CASE C!AdminCall(s) \/ C!EditorCall(s)
    BY <1>3, <2>0, <2>2, DeletionGoesOn DEF Dying
  <2>3. CASE C!Crash(s)
    BY <1>3, <2>3 DEF C!Crash, Dying, C!Unfinished, C!Deletes
  <2>4. CASE UNCHANGED C!vars \/ \E j \in C!Version \X File : C!Work(j)
    <3>1. call' = call
      BY <2>4 DEF C!vars, C!Work, C!Claim, C!PutArtifacts, C!ApplySuccess
    <3> QED
      BY <1>3, <2>0, <3>1
  <2> QED
    BY <2>1, <2>2, <2>3, <2>4 DEF C!Next
<1> QED
  BY <1>1, <1>2, <1>3 DEF Dying, C!Unfinished

(* A commit only adds to the row of its version. *)
LEMMA RowGrows ==
  ASSUME CInv, NEW r \in Replica, C!AddClass(r) \/ C!InsertTemplate(r), NEW v \in C!Version
  PROVE  /\ version'[v].product = version[v].product
         /\ version[v].classes \subseteq version'[v].classes
         /\ version[v].templates \subseteq version'[v].templates
<1> DEFINE w == call[r].new
           with_class == [version[w] EXCEPT !.classes = @ \cup {call[r].class}]
           with_template == [version[w] EXCEPT !.templates = @ \cup {call[r].class}]
<1>1. version \in [C!Version -> VersionRow] /\ version[w] \in VersionRow /\ w \in C!Version
  BY DEF C!AddClass, C!InsertTemplate, C!At, CInv, CTyped, CSound
<1>2. \A row \in {with_class, with_template} :
        /\ row.product = version[w].product
        /\ version[w].classes \subseteq row.classes
        /\ version[w].templates \subseteq row.templates
  BY <1>1 DEF VersionRow
<1>3. \/ version' = version \/ version' = [version EXCEPT ![w] = with_class]
      \/ version' = [version EXCEPT ![w] = with_template]
  BY DEF C!AddClass, C!InsertTemplate
<1> HIDE DEF with_class, with_template
<1> QED
  BY <1>1, <1>2, <1>3

(* Only a cascade takes anything from a version, and its product is dying. *)
LEMMA VersionStays ==
  ASSUME C!ConstantsAssumption, CInv, CRest, \A r \in Replica : Listed(call[r]),
         [C!Next]_C!vars, NEW v \in C!Version, version[v].product # None
  PROVE  Kept(v) \/ Dying(version[v].product)
<1> USE DEF C!At
<1>0. version \in [C!Version -> VersionRow] /\ binding \in [C!Version -> [File -> C!Binding]]
  BY DEF CInv, CTyped, CRest
<1>1. ASSUME UNCHANGED <<version, binding>> PROVE Kept(v)
  BY <1>1 DEF Kept, C!Bound
<1>2. ASSUME NEW r \in Replica, C!AdminCall(r) PROVE Kept(v) \/ Dying(version[v].product)
  <2>1. CASE C!InsertProduct(r)
    <3>1. v # born + 1
      BY DEF CInv, CRows, CTyped, C!ConstantsAssumption
    <3>2. version'[v] = version[v] /\ binding' = binding
      BY <1>0, <2>1, <3>1 DEF C!InsertProduct
    <3> QED
      BY <3>2 DEF Kept, C!Bound
  <2>2. CASE C!Cascade(r)
    <3>1. CASE v \in call[r].versions
      <4>1. version[v].product = call[r].product
        BY <2>2, <3>1 DEF C!Cascade, Listed
      <4> QED
        BY <2>2, <4>1 DEF C!Cascade, Dying, C!Unfinished, C!Deletes
    <3>2. CASE v \notin call[r].versions
      <4>1. version'[v] = version[v] /\ binding'[v] = binding[v]
        BY <2>2, <3>2 DEF C!Cascade
      <4> QED
        BY <4>1 DEF Kept, C!Bound
    <3> QED
      BY <3>1, <3>2
  <2>3. CASE ~C!InsertProduct(r) /\ ~C!Cascade(r)
    BY <1>1, <1>2, <2>3 DEF C!AdminCall, C!CreateCustomer, C!ListProductsOf, C!DropCustomer,
       C!RequestProduct, C!RequestDelete, C!ListVersions, C!DeleteBlobs, C!DropProduct, C!rows
  <2> QED
    BY <2>1, <2>2, <2>3
<1>3. ASSUME NEW r \in Replica, C!EditorCall(r) PROVE Kept(v)
  <2>0. CSound(call[r])
    BY DEF CInv
  <2>1. CASE C!CloneBindings(r)
    <3>1. v # call[r].new
      BY <2>0, <2>1 DEF C!CloneBindings, CSound, C!CloneSteps
    <3>2. version'[v] = version[v] /\ binding'[v] = binding[v]
      BY <1>0, <2>1, <3>1 DEF C!CloneBindings
    <3> QED
      BY <3>2 DEF Kept, C!Bound
  <2>2. CASE C!AddClass(r) \/ C!InsertTemplate(r)
    <3>1. binding' = binding
      BY <2>2 DEF C!AddClass, C!InsertTemplate
    <3> QED
      BY <2>2, <3>1, RowGrows DEF Kept, C!Bound
  <2>3. ASSUME NEW w \in C!Version, NEW f \in File, C!Bind(r, w, f) PROVE Kept(v)
    <3>1. version' = version /\ \A g \in File : binding[v][g] # "none" => binding'[v][g] # "none"
      BY <1>0, <2>3 DEF C!Bind
    <3> QED
      BY <3>1 DEF Kept, C!Bound
  <2>4. CASE \/ C!CloneInsert(r) \/ C!CloneClasses(r) \/ C!CloneTemplates(r) \/ C!ListBindings(r)
             \/ C!Submit(r) \/ C!Enqueue(r)
             \/ \E p \in Product, l \in Label, d \in BOOLEAN : C!RequestClone(r, p, l, d)
             \/ \E w \in C!Version, c \in Class : C!RequestCommit(r, w, c)
             \/ \E w \in C!Version, f \in File : C!RequestUpload(r, w, f)
    BY <1>1, <2>4 DEF C!CloneInsert, C!CloneClasses, C!CloneTemplates, C!ListBindings, C!Submit,
       C!Enqueue, C!RequestClone, C!RequestCommit, C!RequestUpload, C!rows
  <2> QED
    BY <1>3, <2>1, <2>2, <2>3, <2>4 DEF C!EditorCall
<1>4. ASSUME NEW r \in Replica, C!Crash(r) PROVE Kept(v)
  BY <1>1, <1>4 DEF C!Crash, C!rows
<1>5. ASSUME NEW j \in C!Version \X File, C!Work(j) PROVE Kept(v)
  <2>1. CASE C!Claim(j) \/ C!PutArtifacts(j)
    BY <1>1, <2>1 DEF C!Claim, C!PutArtifacts, C!rows
  <2>2. CASE C!ApplySuccess(j)
    <3>1. version' = version /\ \A g \in File : binding[v][g] # "none" => binding'[v][g] # "none"
      BY <1>0, <2>2 DEF C!ApplySuccess
    <3> QED
      BY <3>1 DEF Kept, C!Bound
  <2> QED
    BY <1>5, <2>1, <2>2 DEF C!Work
<1>6. CASE UNCHANGED C!vars
  BY <1>1, <1>6 DEF C!vars, C!rows
<1> QED
  BY <1>2, <1>3, <1>4, <1>5, <1>6 DEF C!Next

(* Which versions may change their product, and that only to have one or   *)
(* to have none.                                                           *)
LEMMA ProductOf ==
  ASSUME C!ConstantsAssumption, CInv, [C!Next]_C!vars, NEW v \in C!Version, v <= born,
         \A s \in Replica : call[s].step \in C!CloneSteps => call[s].new # v
  PROVE  version'[v].product \in {None, version[v].product}
<1> USE DEF C!At
<1>0. version \in [C!Version -> VersionRow] /\ born \in Nat /\ C!NoVersion.product = None
  BY DEF CInv, CTyped, C!NoVersion, C!ConstantsAssumption
<1>1. ASSUME NEW r \in Replica, C!AdminCall(r) PROVE version'[v].product \in {None, version[v].product}
  <2>1. CASE C!InsertProduct(r)
    BY <1>0, <2>1 DEF C!InsertProduct, C!Version
  <2>2. CASE C!Cascade(r)
    BY <1>0, <2>2 DEF C!Cascade
  <2>3. CASE ~C!InsertProduct(r) /\ ~C!Cascade(r)
    BY <1>1, <2>3 DEF C!AdminCall, C!CreateCustomer, C!ListProductsOf, C!DropCustomer,
       C!RequestProduct, C!RequestDelete, C!ListVersions, C!DeleteBlobs, C!DropProduct, C!rows
  <2> QED
    BY <2>1, <2>2, <2>3
<1>2. ASSUME NEW r \in Replica, C!EditorCall(r) PROVE version'[v].product = version[v].product
  <2>1. CASE C!CloneBindings(r)
    BY <1>0, <2>1 DEF C!CloneBindings, C!CloneSteps
  <2>2. CASE C!AddClass(r) \/ C!InsertTemplate(r)
    BY <2>2, RowGrows
  <2>3. CASE ~C!CloneBindings(r) /\ ~C!AddClass(r) /\ ~C!InsertTemplate(r)
    BY <1>2, <2>3 DEF C!EditorCall, C!CloneInsert, C!CloneClasses, C!CloneTemplates, C!ListBindings,
       C!Submit, C!Enqueue, C!Bind, C!RequestClone, C!RequestCommit, C!RequestUpload, C!rows
  <2> QED
    BY <2>1, <2>2, <2>3
<1>3. ASSUME NEW r \in Replica, C!Crash(r) PROVE version' = version
  BY <1>3 DEF C!Crash, C!rows
<1>4. ASSUME NEW j \in C!Version \X File, C!Work(j) PROVE version' = version
  BY <1>4 DEF C!Work, C!Claim, C!PutArtifacts, C!ApplySuccess, C!rows
<1>5. CASE UNCHANGED C!vars
  BY <1>5 DEF C!vars, C!rows
<1> QED
  BY <1>1, <1>2, <1>3, <1>4, <1>5 DEF C!Next

CloneCalls == C!CloneSteps \cup {"clone_insert"}

(* How a replica comes to be cloning. *)
LEMMA CloneMoves ==
  ASSUME C!ConstantsAssumption, CInv, [C!Next]_C!vars, NEW s \in Replica,
         call'[s].step \in CloneCalls
  PROVE  \/ call'[s] = call[s]
         \/ C!CloneInsert(s) \/ C!CloneClasses(s) \/ C!CloneTemplates(s)
         \/ \E p \in Product, l \in Label, d \in BOOLEAN : C!RequestClone(s, p, l, d)
<1> USE DEF C!At, C!CloneSteps, CloneCalls
<1>0. /\ call[s] \in CCall /\ C!NoCall.step = "idle" /\ call \in [Replica -> CCall]
      /\ \A d : call' = [call EXCEPT ![s] = d] => call'[s] = d
  BY DEF CInv, CTyped, C!NoCall
<1>1. ASSUME NEW d, C!Begin(s, d) PROVE call'[s] = d
  BY <1>0, <1>1 DEF C!Begin
<1>2. CASE C!AdminCall(s)
  <2>1. ASSUME NEW c \in Customer, C!ListProductsOf(s, c) PROVE FALSE
    BY <1>1, <2>1 DEF C!ListProductsOf, C!NoCall
  <2>2. ASSUME NEW p \in Product, NEW c \in Customer \cup {Seed}, NEW l \in Label,
               C!RequestProduct(s, p, c, l)
        PROVE FALSE
    BY <1>1, <2>2 DEF C!RequestProduct, C!NoCall
  <2>3. ASSUME NEW p \in Product, C!RequestDelete(s, p) PROVE FALSE
    BY <1>1, <2>3 DEF C!RequestDelete, C!NoCall
  <2>4. ASSUME NEW c \in Customer, C!CreateCustomer(s, c) PROVE FALSE
    BY <2>4 DEF C!CreateCustomer, C!Admit
  <2>5. CASE C!DropCustomer(s) \/ C!InsertProduct(s) \/ C!DropProduct(s)
    BY <1>0, <2>5 DEF C!DropCustomer, C!InsertProduct, C!DropProduct, C!Return
  <2>6. CASE C!ListVersions(s) \/ C!Cascade(s) \/ C!DeleteBlobs(s)
    BY <1>0, <2>6 DEF C!ListVersions, C!Cascade, C!DeleteBlobs, C!Goto, CCall
  <2> QED
    BY <1>2, <2>1, <2>2, <2>3, <2>4, <2>5, <2>6 DEF C!AdminCall
<1>3. CASE C!EditorCall(s)
  <2>2. ASSUME NEW v \in C!Version, NEW c \in Class, C!RequestCommit(s, v, c) PROVE FALSE
    BY <1>1, <2>2 DEF C!RequestCommit, C!NoCall
  <2>3. ASSUME NEW v \in C!Version, NEW f \in File, C!RequestUpload(s, v, f) PROVE FALSE
    BY <2>3 DEF C!RequestUpload, C!Admit
  <2>4. ASSUME NEW v \in C!Version, NEW f \in File, C!Bind(s, v, f) PROVE FALSE
    BY <1>0, <2>4 DEF C!Bind, C!NoCall
  <2>7. CASE C!CloneBindings(s) \/ C!AddClass(s) \/ C!ListBindings(s) \/ C!Submit(s)
             \/ C!InsertTemplate(s) \/ C!Enqueue(s)
    BY <1>0, <2>7 DEF C!CloneBindings, C!AddClass, C!ListBindings, C!Submit, C!InsertTemplate,
       C!Enqueue, C!Goto, C!Return, CCall
  <2> QED
    BY <1>3, <2>2, <2>3, <2>4, <2>7 DEF C!EditorCall
<1>4. CASE C!Crash(s)
  BY <1>0, <1>4 DEF C!Crash, C!Return
<1>5. ASSUME NEW r \in Replica, r # s, C!AdminCall(r) \/ C!EditorCall(r) \/ C!Crash(r)
      PROVE  call'[s] = call[s]
  BY <1>5, OneMoves
<1>6. CASE UNCHANGED C!vars \/ \E j \in C!Version \X File : C!Work(j)
  BY <1>6 DEF C!vars, C!Work, C!Claim, C!PutArtifacts, C!ApplySuccess
<1> QED
  BY <1>2, <1>3, <1>4, <1>5, <1>6 DEF C!Next

(* The version that a clone is to insert is new. *)
LEMMA NewVersions ==
  ASSUME C!ConstantsAssumption, CInv, [C!Next]_C!vars, NEW s \in Replica,
         call'[s].step \in C!CloneSteps
  PROVE  \/ call[s].step \in C!CloneSteps /\ call'[s].new = call[s].new
         \/ call'[s].new = born + 1
<1> USE DEF C!At, C!CloneSteps
<1>1. /\ call[s] \in CCall /\ C!NoCall.step = "idle"
      /\ \A d : call' = [call EXCEPT ![s] = d] => call'[s] = d
  BY DEF CInv, CTyped, C!NoCall
<1>2. CASE call'[s] = call[s]
  BY <1>2
<1>3. CASE C!CloneInsert(s)
  <2>1. call'[s] # C!NoCall
    BY <1>1
  <2>2. call' = [call EXCEPT ![s].step = "clone_classes", ![s].new = born + 1]
    BY <1>1, <1>3, <2>1 DEF C!CloneInsert, C!Return
  <2> DEFINE d == [call[s] EXCEPT !.step = "clone_classes", !.new = born + 1]
  <2>3. call'[s] = d
    BY <2>2 DEF CInv, CTyped
  <2>4. d.new = born + 1
    BY <1>1 DEF CCall
  <2> HIDE DEF d
  <2> QED
    BY <2>3, <2>4
<1>4. CASE C!CloneClasses(s) \/ C!CloneTemplates(s)
  BY <1>1, <1>4 DEF C!CloneClasses, C!CloneTemplates, CCall
<1>5. ASSUME NEW p \in Product, NEW l \in Label, NEW d \in BOOLEAN, C!RequestClone(s, p, l, d)
      PROVE  FALSE
  <2>1. PICK v : C!Begin(s, [C!NoCall EXCEPT !.step = "clone_insert", !.product = p, !.label = l,
                                             !.source = v, !.asked = C!Content(v)])
    BY <1>5 DEF C!RequestClone
  <2> DEFINE e == [C!NoCall EXCEPT !.step = "clone_insert", !.product = p, !.label = l,
                                   !.source = v, !.asked = C!Content(v)]
  <2>2. call'[s] = e
    BY <1>1, <2>1 DEF C!Begin
  <2>3. e.step = "clone_insert"
    BY DEF C!NoCall
  <2> HIDE DEF e
  <2> QED
    BY <2>2, <2>3
<1> QED
  BY <1>2, <1>3, <1>4, <1>5, CloneMoves DEF CloneCalls

(* No step forgets what a cascade relies on. *)
LEMMA ListedStep ==
  ASSUME C!ConstantsAssumption, CInv, \A r \in Replica : Listed(call[r]), [C!Next]_C!vars
  PROVE  \A r \in Replica : Listed(call[r])'
<1> SUFFICES ASSUME NEW r \in Replica, call'[r].step = "cascade", NEW v \in call'[r].versions
             PROVE  /\ v <= born' /\ version'[v].product \in {None, call'[r].product}
                    /\ \A s \in Replica : call'[s].step \in C!CloneSteps => call'[s].new # v
  BY DEF Listed
<1> USE DEF C!At
<1>1. CInv'
  BY CStep
<1>2. /\ call[r] \in CCall /\ call'[r] \in CCall /\ born \in Nat /\ born' \in Nat
      /\ C!NoCall.step = "idle" /\ call \in [Replica -> CCall]
      /\ \A d : call' = [call EXCEPT ![r] = d] => call'[r] = d
  BY <1>1 DEF CInv, CTyped, C!NoCall, C!ConstantsAssumption
<1>3. v \in C!Version
  BY <1>2 DEF CCall
<1>4. CASE call[r].step = "cascade" /\ call'[r] = call[r]
  <2>1. /\ v <= born /\ version[v].product \in {None, call[r].product}
        /\ \A s \in Replica : call[s].step \in C!CloneSteps => call[s].new # v
    BY <1>4 DEF Listed
  <2>2. version'[v].product \in {None, version[v].product}
    BY <1>3, <2>1, ProductOf
  <2>3. born <= born'
    <3>1. born' = born \/ born' = born + 1
      BY DEF C!Next, C!vars, C!rows, C!AdminCall, C!EditorCall, C!Crash, C!Work, C!CreateCustomer,
         C!ListProductsOf, C!DropCustomer, C!RequestProduct, C!InsertProduct, C!RequestDelete,
         C!ListVersions, C!Cascade, C!DeleteBlobs, C!DropProduct, C!RequestClone, C!CloneInsert,
         C!CloneClasses, C!CloneTemplates, C!CloneBindings, C!ListBindings, C!Submit, C!RequestCommit,
         C!AddClass, C!InsertTemplate, C!RequestUpload, C!Bind, C!Enqueue, C!Claim, C!PutArtifacts,
         C!ApplySuccess
    <3> QED
      BY <1>2, <3>1
  <2>4. v \in Nat /\ v # born + 1 /\ v <= born'
    BY <1>2, <1>3, <2>1, <2>3 DEF C!Version
  <2> QED
    BY <1>4, <2>1, <2>2, <2>4, NewVersions
<1>5. CASE C!ListVersions(r)
  <2> DEFINE vs == C!VersionsOf(call[r].product)
             d == [call[r] EXCEPT !.step = "cascade", !.versions = vs]
  <2>1. call'[r] = d /\ version' = version /\ born' = born
    BY <1>2, <1>5 DEF C!ListVersions, C!rows
  <2>2. d.versions = vs /\ d.product = call[r].product
    BY <1>2 DEF CCall
  <2> HIDE DEF d
  <2>3. version[v].product = call[r].product /\ version[v].product # None
    BY <2>1, <2>2 DEF C!VersionsOf
  <2>4. v <= born
    BY <1>3, <2>3 DEF CInv, CRows
  <2>5. \A s \in Replica : call'[s].step \in C!CloneSteps => call'[s].new # v
    BY <1>1, <2>1, <2>3 DEF CInv, CSound
  <2> QED
    BY <2>1, <2>2, <2>3, <2>4, <2>5
<1>6. ASSUME NEW q \in Replica, q # r, C!AdminCall(q) \/ C!EditorCall(q) \/ C!Crash(q)
      PROVE  call'[r] = call[r]
  BY <1>6, OneMoves
<1>7. CASE UNCHANGED C!vars \/ \E j \in C!Version \X File : C!Work(j)
  <2>1. call' = call
    BY <1>7 DEF C!vars, C!Work, C!Claim, C!PutArtifacts, C!ApplySuccess
  <2> QED
    BY <1>4, <2>1
<1>8. ASSUME NEW d, C!Begin(r, d) PROVE call'[r] = d
  BY <1>2, <1>8 DEF C!Begin
<1>9. CASE C!AdminCall(r) /\ ~C!ListVersions(r)
  <2>1. ASSUME NEW c \in Customer, C!ListProductsOf(r, c) PROVE FALSE
    BY <1>8, <2>1 DEF C!ListProductsOf, C!NoCall
  <2>2. ASSUME NEW p \in Product, NEW c \in Customer \cup {Seed}, NEW l \in Label,
               C!RequestProduct(r, p, c, l)
        PROVE FALSE
    BY <1>8, <2>2 DEF C!RequestProduct, C!NoCall
  <2>3. ASSUME NEW p \in Product, C!RequestDelete(r, p) PROVE FALSE
    BY <1>8, <2>3 DEF C!RequestDelete, C!NoCall
  <2>4. ASSUME NEW c \in Customer, C!CreateCustomer(r, c) PROVE FALSE
    BY <2>4 DEF C!CreateCustomer, C!Admit
  <2>5. CASE C!DropCustomer(r) \/ C!InsertProduct(r) \/ C!DropProduct(r)
    BY <1>2, <2>5 DEF C!DropCustomer, C!InsertProduct, C!DropProduct, C!Return
  <2>6. CASE C!Cascade(r)
    BY <1>2, <2>6 DEF C!Cascade, C!Goto, CCall
  <2>7. CASE C!DeleteBlobs(r)
    BY <1>2, <2>7 DEF C!DeleteBlobs, C!Goto, CCall
  <2> QED
    BY <1>9, <2>1, <2>2, <2>3, <2>4, <2>5, <2>6, <2>7 DEF C!AdminCall
<1>10. CASE C!EditorCall(r)
  <2>1. ASSUME NEW p \in Product, NEW l \in Label, NEW d \in BOOLEAN, C!RequestClone(r, p, l, d)
        PROVE  FALSE
    BY <1>8, <2>1 DEF C!RequestClone, C!NoCall
  <2>2. ASSUME NEW w \in C!Version, NEW c \in Class, C!RequestCommit(r, w, c) PROVE FALSE
    BY <1>8, <2>2 DEF C!RequestCommit, C!NoCall
  <2>3. ASSUME NEW w \in C!Version, NEW f \in File, C!RequestUpload(r, w, f) \/ C!Bind(r, w, f)
        PROVE FALSE
    BY <1>2, <2>3 DEF C!RequestUpload, C!Admit, C!Bind, C!NoCall
  <2>4. CASE C!CloneInsert(r) \/ C!CloneClasses(r) \/ C!CloneTemplates(r)
    BY <1>2, <2>4 DEF C!CloneInsert, C!CloneClasses, C!CloneTemplates, C!Return, CCall
  <2>5. CASE C!CloneBindings(r) \/ C!AddClass(r) \/ C!ListBindings(r) \/ C!Submit(r)
             \/ C!InsertTemplate(r) \/ C!Enqueue(r)
    BY <1>2, <2>5 DEF C!CloneBindings, C!AddClass, C!ListBindings, C!Submit, C!InsertTemplate,
       C!Enqueue, C!Goto, C!Return, CCall
  <2> QED
    BY <1>10, <2>1, <2>2, <2>3, <2>4, <2>5 DEF C!EditorCall
<1>11. CASE C!Crash(r)
  BY <1>2, <1>11 DEF C!Crash, C!Return
<1> QED
  BY <1>4, <1>5, <1>6, <1>7, <1>9, <1>10, <1>11 DEF C!Next, C!AdminCall

-----------------------------------------------------------------------------
(* The rows fit together, with any number of replicas.                     *)

(* Until it has read a part the clone finds it in the source, afterwards   *)
(* it has it in hand.                                                      *)
HasAsked(c) ==
  /\ version[c.source].product = c.product
  /\ c.asked.classes \subseteq IF c.step \in {"clone_insert", "clone_classes"}
                               THEN version[c.source].classes ELSE c.classes
  /\ c.asked.templates \subseteq IF c.step = "clone_bindings" THEN c.templates
                                                              ELSE version[c.source].templates
  /\ c.asked.files \subseteq C!Bound(c.source)

CloneHas(c) == c.step \in CloneCalls => Dying(c.product) \/ HasAsked(c)

CSafe ==
  /\ \A r \in Replica : Listed(call[r])
  /\ \A p \in retired : productRow[p] = None
  /\ \A p \in Product : productRow[p] # None => C!VersionsOf(p) # {} \/ Dying(p)
  /\ \A r \in Replica : CloneHas(call[r])

LEMMA SafeInit == ASSUME C!ConstantsAssumption, C!Init PROVE CSafe
<1>1. \A r \in Replica : call[r].step = "idle"
  BY DEF C!Init, C!NoCall
<1>2. retired = {} /\ \A p \in Product : productRow[p] = None
  BY DEF C!Init
<1> QED
  BY <1>1, <1>2 DEF CSafe, Listed, CloneHas, CloneCalls, C!CloneSteps

(* A row is inserted with a version, and dropped for good. *)
LEMMA RowsStep ==
  ASSUME C!ConstantsAssumption, CInv, [C!Next]_C!vars
  PROVE  \/ UNCHANGED <<productRow, retired>>
         \/ \E r \in Replica : C!InsertProduct(r) \/ C!DropProduct(r)
<1>1. ASSUME NEW r \in Replica, C!AdminCall(r), ~C!InsertProduct(r), ~C!DropProduct(r)
      PROVE  UNCHANGED <<productRow, retired>>
  BY <1>1 DEF C!AdminCall, C!CreateCustomer, C!ListProductsOf, C!DropCustomer, C!RequestProduct,
     C!RequestDelete, C!ListVersions, C!Cascade, C!DeleteBlobs, C!rows
<1>2. ASSUME NEW r \in Replica, C!EditorCall(r) PROVE UNCHANGED <<productRow, retired>>
  BY <1>2 DEF C!EditorCall, C!RequestClone, C!CloneInsert, C!CloneClasses, C!CloneTemplates,
     C!CloneBindings, C!ListBindings, C!Submit, C!RequestCommit, C!AddClass, C!InsertTemplate,
     C!RequestUpload, C!Bind, C!Enqueue, C!rows
<1>3. ASSUME NEW r \in Replica, C!Crash(r) PROVE UNCHANGED <<productRow, retired>>
  BY <1>3 DEF C!Crash, C!rows
<1>4. ASSUME NEW j \in C!Version \X File, C!Work(j) PROVE UNCHANGED <<productRow, retired>>
  BY <1>4 DEF C!Work, C!Claim, C!PutArtifacts, C!ApplySuccess, C!rows
<1>5. CASE UNCHANGED C!vars
  BY <1>5 DEF C!vars, C!rows
<1> QED
  BY <1>1, <1>2, <1>3, <1>4, <1>5 DEF C!Next

LEMMA RowsSafe ==
  ASSUME C!ConstantsAssumption, CInv, CRest, CSafe, [C!Next]_C!vars
  PROVE  /\ \A p \in retired' : productRow'[p] = None
         /\ \A p \in Product : productRow'[p] # None => C!VersionsOf(p)' # {} \/ Dying(p)'
<1>1. productRow \in [Product -> Customer \cup {Seed, None}] /\ retired \subseteq Product
      /\ version \in [C!Version -> VersionRow]
  BY DEF CInv, CTyped
<1>2. ASSUME NEW p \in Product, productRow[p] # None PROVE C!VersionsOf(p)' # {} \/ Dying(p)'
  <2>1. CASE Dying(p)
    BY <2>1, DyingStays
  <2>2. ASSUME NEW v \in C!VersionsOf(p) PROVE C!VersionsOf(p)' # {} \/ Dying(p)'
    <3>1. v \in C!Version /\ version[v].product = p /\ p # None
      BY DEF C!VersionsOf
    <3>2. Kept(v) \/ Dying(p)
      BY <3>1, VersionStays DEF CSafe
    <3> QED
      BY <3>1, <3>2, DyingStays DEF Kept, C!VersionsOf
  <2> QED
    BY <1>2, <2>1, <2>2 DEF CSafe
<1>3. CASE UNCHANGED <<productRow, retired>>
  BY <1>2, <1>3 DEF CSafe
<1>4. ASSUME NEW r \in Replica, C!InsertProduct(r)
      PROVE  /\ \A p \in retired' : productRow'[p] = None
             /\ \A p \in Product : productRow'[p] # None => C!VersionsOf(p)' # {} \/ Dying(p)'
  <2>0. PICK q, l : q = call[r].product /\ l = call[r].label
    OBVIOUS
  <2> DEFINE row == [C!NoVersion EXCEPT !.product = q, !.label = l]
  <2>1. q \in Product /\ ~Known(q) /\ q # None
    BY <1>4, <2>0 DEF C!InsertProduct, C!At, CInv, CSound, C!ConstantsAssumption
  <2>2. row.product = q
    BY DEF C!NoVersion
  <2>3. /\ productRow' = [productRow EXCEPT ![q] = call[r].customer] /\ retired' = retired
        /\ version' = [version EXCEPT ![born + 1] = row] /\ born + 1 \in C!Version
    BY <1>4, <2>0 DEF C!InsertProduct, CInv, CTyped, C!Version, C!ConstantsAssumption
  <2> HIDE DEF row
  <2>4. born + 1 \in C!VersionsOf(q)'
    BY <1>1, <2>1, <2>2, <2>3 DEF C!VersionsOf
  <2> QED
    BY <1>1, <1>2, <2>1, <2>3, <2>4 DEF CSafe, Known
<1>5. ASSUME NEW r \in Replica, C!DropProduct(r)
      PROVE  /\ \A p \in retired' : productRow'[p] = None
             /\ \A p \in Product : productRow'[p] # None => C!VersionsOf(p)' # {} \/ Dying(p)'
  <2>1. call[r].product \in Product
    BY <1>5 DEF C!DropProduct, C!At, CInv, CSound
  <2>2. /\ productRow' = [productRow EXCEPT ![call[r].product] = None]
        /\ retired' = retired \cup {call[r].product}
    BY <1>5 DEF C!DropProduct
  <2> QED
    BY <1>1, <1>2, <2>1, <2>2 DEF CSafe
<1> QED
  BY <1>3, <1>4, <1>5, RowsStep

(* The source of a clone loses nothing, unless it is being deleted. *)
LEMMA SourceStays ==
  ASSUME C!ConstantsAssumption, CInv, CRest, CSafe, [C!Next]_C!vars, NEW r \in Replica,
         call[r].step \in CloneCalls, NEW p, p = call[r].product
  PROVE  p \in Product /\ (Dying(p)' \/ (HasAsked(call[r]) /\ Kept(call[r].source)))
<1>1. p \in Product /\ p # None /\ call[r].source \in C!Version
  BY DEF CInv, CSound, CloneCalls, C!ConstantsAssumption
<1>2. CASE Dying(p)
  BY <1>1, <1>2, DyingStays
<1>3. CASE HasAsked(call[r])
  <2>1. version[call[r].source].product = p
    BY <1>3 DEF HasAsked
  <2>2. Kept(call[r].source) \/ Dying(p)
    BY <1>1, <2>1, VersionStays DEF CSafe
  <2> QED
    BY <1>1, <1>3, <2>2, DyingStays
<1> QED
  BY <1>2, <1>3 DEF CSafe, CloneHas

LEMMA CloneHasStep ==
  ASSUME C!ConstantsAssumption, CInv, CRest, CSafe, [C!Next]_C!vars, NEW r \in Replica
  PROVE  CloneHas(call[r])'
<1>0. PICK c, d, p : c = call[r] /\ d = call'[r] /\ p = c.product
  OBVIOUS
<1> SUFFICES ASSUME d.step \in CloneCalls PROVE Dying(d.product)' \/ HasAsked(d)'
  BY <1>0 DEF CloneHas, Dying, HasAsked
<1> USE DEF C!At
<1>1. /\ c \in CCall /\ C!NoCall.step = "idle"
  BY <1>0 DEF CInv, CTyped, C!NoCall
<1>2. c.step \in CloneCalls => Dying(p)' \/ (HasAsked(c) /\ Kept(c.source))
  <2>1. call[r].step \in CloneCalls
           => Dying(p)' \/ (HasAsked(call[r]) /\ Kept(call[r].source))
    BY <1>0, SourceStays
  <2> QED
    BY <1>0, <2>1
<1>10. call \in [Replica -> CCall]
  BY DEF CInv, CTyped
(* The rest of a clone's steps change no row. *)
<1>3. ASSUME NEW e, d = e, e.product = p, e.source = c.source, e.asked = c.asked,
             c.step \in CloneCalls, UNCHANGED <<version, binding>>,
             HasAsked(c) => HasAsked(e)
      PROVE  Dying(d.product)' \/ HasAsked(d)'
  <2>1. HasAsked(e) => HasAsked(e)'
    BY <1>3 DEF HasAsked, C!Bound
  <2> QED
    BY <1>2, <1>3, <2>1
<1>4. CASE call'[r] = call[r]
  <2>1. d = c
    BY <1>0, <1>4
  <2>2. HasAsked(c) /\ Kept(c.source) => HasAsked(c)'
    BY DEF HasAsked, Kept
  <2> QED
    BY <1>0, <1>2, <2>1, <2>2
<1>5. CASE C!CloneInsert(r)
  <2> DEFINE e == [c EXCEPT !.step = "clone_classes", !.new = born + 1]
  <2>1. d # C!NoCall
    BY <1>1 DEF CloneCalls, C!CloneSteps
  <2>6. call'[r] = [call[r] EXCEPT !.step = "clone_classes", !.new = born + 1]
    BY <1>0, <1>5, <1>10, <2>1 DEF C!CloneInsert, C!Return
  <2>2. d = e
    BY <1>0, <2>6
  <2>3. /\ e.step = "clone_classes" /\ e.product = p /\ e.source = c.source /\ e.asked = c.asked
        /\ c.step = "clone_insert" /\ e.classes = c.classes /\ e.templates = c.templates
    BY <1>0, <1>1, <1>5 DEF CCall, C!CloneInsert
  <2>4. UNCHANGED <<version, binding>>
    BY <1>5 DEF C!CloneInsert, C!rows
  <2> HIDE DEF e
  <2>5. HasAsked(c) => HasAsked(e)
    BY <1>0, <2>3 DEF HasAsked
  <2> QED
    BY <1>3, <2>2, <2>3, <2>4, <2>5 DEF CloneCalls
<1>6. CASE C!CloneClasses(r)
  <2> DEFINE e == [c EXCEPT !.step = "clone_templates", !.classes = version[c.source].classes]
  <2>5. call'[r] = [call[r] EXCEPT !.step = "clone_templates",
                                   !.classes = version[call[r].source].classes]
    BY <1>6, <1>10 DEF C!CloneClasses
  <2>1. d = e
    BY <1>0, <2>5
  <2>2. /\ e.step = "clone_templates" /\ e.product = p /\ e.source = c.source
        /\ e.asked = c.asked /\ e.classes = version[c.source].classes
        /\ c.step = "clone_classes" /\ e.templates = c.templates
    BY <1>0, <1>1, <1>6 DEF CCall, C!CloneClasses
  <2>3. UNCHANGED <<version, binding>>
    BY <1>6 DEF C!CloneClasses, C!rows
  <2> HIDE DEF e
  <2>4. HasAsked(c) => HasAsked(e)
    BY <1>0, <2>2 DEF HasAsked
  <2> QED
    BY <1>3, <2>1, <2>2, <2>3, <2>4 DEF CloneCalls, C!CloneSteps
<1>7. CASE C!CloneTemplates(r)
  <2> DEFINE e == [c EXCEPT !.step = "clone_bindings", !.templates = version[c.source].templates]
  <2>5. call'[r] = [call[r] EXCEPT !.step = "clone_bindings",
                                   !.templates = version[call[r].source].templates]
    BY <1>7, <1>10 DEF C!CloneTemplates
  <2>1. d = e
    BY <1>0, <2>5
  <2>2. /\ e.step = "clone_bindings" /\ e.product = p /\ e.source = c.source
        /\ e.asked = c.asked /\ e.templates = version[c.source].templates
        /\ c.step = "clone_templates" /\ e.classes = c.classes
    BY <1>0, <1>1, <1>7 DEF CCall, C!CloneTemplates
  <2>3. UNCHANGED <<version, binding>>
    BY <1>7 DEF C!CloneTemplates, C!rows
  <2> HIDE DEF e
  <2>4. HasAsked(c) => HasAsked(e)
    BY <1>0, <2>2 DEF HasAsked
  <2> QED
    BY <1>3, <2>1, <2>2, <2>3, <2>4 DEF CloneCalls, C!CloneSteps
<1>8. ASSUME NEW q \in Product, NEW l \in Label, NEW default \in BOOLEAN,
             C!RequestClone(r, q, l, default)
      PROVE  HasAsked(d)'
  <2>1. PICK v \in C!VersionsOf(q) :
          C!Begin(r, [C!NoCall EXCEPT !.step = "clone_insert", !.product = q, !.label = l,
                                      !.source = v, !.asked = C!Content(v)])
    BY <1>8, LatestIsOne DEF C!RequestClone
  <2>2. PICK a : a = C!Content(v)
    OBVIOUS
  <2> DEFINE e == [C!NoCall EXCEPT !.step = "clone_insert", !.product = q, !.label = l,
                                   !.source = v, !.asked = a]
  <2>3. d = e
    BY <1>0, <1>10, <2>1, <2>2 DEF C!Begin
  <2>4. e.step = "clone_insert" /\ e.product = q /\ e.source = v /\ e.asked = a
    BY DEF C!NoCall
  <2>5. UNCHANGED <<version, binding>>
    BY <1>8 DEF C!RequestClone, C!rows
  <2>6. version[v].product = q
    BY DEF C!VersionsOf
  <2>7. /\ a.classes = version[v].classes /\ a.templates = version[v].templates
        /\ a.files = C!Bound(v)
    BY <2>2 DEF C!Content
  <2> HIDE DEF e
  <2>8. HasAsked(e)'
    BY <2>4, <2>5, <2>6, <2>7 DEF HasAsked, C!Bound
  <2> QED
    BY <2>3, <2>8
<1>9. call'[r].step \in CloneCalls
  BY <1>0
<1> QED
  BY <1>4, <1>5, <1>6, <1>7, <1>8, <1>9, CloneMoves

LEMMA SafeStep ==
  ASSUME C!ConstantsAssumption, CInv, CRest, CSafe, [C!Next]_C!vars PROVE CSafe'
<1>1. \A r \in Replica : CloneHas(call[r])'
  BY CloneHasStep
<1>2. \A r \in Replica : Listed(call[r])'
  BY ListedStep DEF CSafe
<1> QED
  BY <1>1, <1>2, RowsSafe DEF CSafe

(* What the clone commits has all that was asked for. *)
LEMMA CloneCommits ==
  ASSUME C!ConstantsAssumption, CInv, CRest, CSafe, [C!Next]_C!vars, NEW r \in Replica,
         C!At(r, "clone_bindings"), NEW n, n = call[r].new, version'[n].product # None
  PROVE  \/ Dying(call[r].product)
         \/ /\ call'[r].new = n
            /\ \A part \in DOMAIN call[r].asked : call[r].asked[part] \subseteq C!Content(n)'[part]
<1>1. call[r] \in CCall /\ CSound(call[r]) /\ CInv' /\ n \in C!Version
  BY CStep DEF CInv, CTyped, CSound, C!CloneSteps, C!At, C!Version, C!ConstantsAssumption
<1>2. version[n].product = None
  BY <1>1 DEF CSound, C!CloneSteps, C!At
<1>3. C!CloneBindings(r)
  <2>1. CASE call'[r] = call[r]
    <3>1. call'[r].step = "clone_bindings" /\ CSound(call[r])' /\ call'[r].new = n
      BY <1>1, <2>1 DEF C!At, CInv
    <3> QED
      BY <3>1 DEF CSound, C!CloneSteps
  <2>2. CASE UNCHANGED version
    BY <1>2, <2>2
  <2>3. ASSUME NEW q \in Replica, q # r, C!AdminCall(q) \/ C!EditorCall(q) \/ C!Crash(q)
        PROVE  call'[r] = call[r]
    BY <2>3, OneMoves
  <2>4. CASE UNCHANGED C!vars \/ \E j \in C!Version \X File : C!Work(j)
    BY <2>2, <2>4 DEF C!vars, C!rows, C!Work, C!Claim, C!PutArtifacts, C!ApplySuccess
  <2>5. CASE C!AdminCall(r) \/ C!Crash(r)
    BY <2>2, <2>5 DEF C!AdminCall, C!CreateCustomer, C!ListProductsOf, C!DropCustomer,
       C!RequestProduct, C!InsertProduct, C!RequestDelete, C!ListVersions, C!Cascade, C!DeleteBlobs,
       C!DropProduct, C!Crash, C!Begin, C!Admit, C!At, C!rows
  <2>6. CASE C!EditorCall(r) /\ ~C!CloneBindings(r)
    BY <2>2, <2>6 DEF C!EditorCall, C!RequestClone, C!CloneInsert, C!CloneClasses,
       C!CloneTemplates, C!ListBindings, C!Submit, C!RequestCommit, C!AddClass, C!InsertTemplate,
       C!RequestUpload, C!Bind, C!Enqueue, C!Begin, C!Admit, C!At, C!rows
  <2> QED
    BY <2>1, <2>2, <2>3, <2>4, <2>5, <2>6 DEF C!Next
<1>4. CASE HasAsked(call[r])
  <2> DEFINE row == [product |-> call[r].product, label |-> call[r].label,
                     classes |-> call[r].classes, templates |-> call[r].templates]
             bs == [f \in File |-> IF binding[call[r].source][f] = "none" THEN "none" ELSE "busy"]
  <2>1. version'[n] = row /\ binding'[n] = bs
    BY <1>1, <1>3 DEF C!CloneBindings, CInv, CTyped, CRest
  <2>2. C!Bound(n)' = C!Bound(call[r].source)
    BY <2>1 DEF C!Bound
  <2>3. C!Content(n)' = [classes |-> call[r].classes, templates |-> call[r].templates,
                         files |-> C!Bound(call[r].source)]
    BY <2>1, <2>2 DEF C!Content
  <2>4. /\ call[r].asked.classes \subseteq call[r].classes
        /\ call[r].asked.templates \subseteq call[r].templates
        /\ call[r].asked.files \subseteq C!Bound(call[r].source)
    BY <1>4 DEF HasAsked, C!At
  <2>5. DOMAIN call[r].asked = {"classes", "templates", "files"}
    BY <1>1 DEF CCall, Contents
  <2>6. call'[r].new = n
    BY <1>1, <1>3 DEF C!CloneBindings, C!Goto, CCall, CInv, CTyped
  <2> QED
    BY <2>3, <2>4, <2>5, <2>6
<1> QED
  BY <1>4 DEF CSafe, CloneHas, CloneCalls, C!CloneSteps, C!At

(* With any number of web replicas, whose statements interleave and which  *)
(* may die at each: a product whose row is there has a version, unless its *)
(* deletion is half-way or was cut off; no label is given twice; and a     *)
(* clone has every class, template and binding that its source had when it *)
(* was asked for, unless its product is being deleted (versions.py,        *)
(* products.py).                                                           *)
THEOREM CatalogIsCoherent ==
  ASSUME C!ConstantsAssumption PROVE C!Spec => C!CatalogCoherent
<1>1. C!Init => CRest /\ CSafe
  BY SafeInit DEF C!Init, CRest, C!Binding
<1>2. CInv /\ CRest /\ CSafe /\ [C!Next]_C!vars => CRest' /\ CSafe'
  BY RestStep, SafeStep
<1>3. CInv /\ CSafe => C!ProductHasVersion /\ C!LabelsUnique
  <2> SUFFICES ASSUME CInv, CSafe PROVE C!ProductHasVersion /\ C!LabelsUnique
    OBVIOUS
  <2>1. C!ProductHasVersion
    BY DEF CSafe, C!ProductHasVersion, Dying
  <2> QED
    BY <2>1 DEF CInv
<1>4. CInv /\ CRest /\ CSafe /\ [C!Next]_C!vars
      => [\A r \in Replica :
            C!At(r, "clone_bindings") /\ version'[call[r].new].product # None
            => \/ call[r].product \in retired \/ \E c \in C!Unfinished : C!Deletes(c, call[r].product)
               \/ \A part \in DOMAIN call[r].asked :
                    call[r].asked[part] \subseteq C!Content(call[r].new)'[part]]_C!vars
  <2> SUFFICES ASSUME CInv, CRest, CSafe, [C!Next]_C!vars, NEW r \in Replica,
                      C!At(r, "clone_bindings"), version'[call[r].new].product # None
               PROVE  \/ Dying(call[r].product)
                      \/ \A part \in DOMAIN call[r].asked :
                           call[r].asked[part] \subseteq C!Content(call[r].new)'[part]
    BY DEF Dying
  <2>1. PICK n : n = call[r].new
    OBVIOUS
  <2>2. CASE Dying(call[r].product)
    BY <2>2
  <2>3. CASE /\ call'[r].new = n
             /\ \A part \in DOMAIN call[r].asked :
                  call[r].asked[part] \subseteq C!Content(n)'[part]
    <3>1. C!Content(call[r].new)' = C!Content(n)'
      BY <2>3 DEF C!Content, C!Bound
    <3> QED
      BY <2>3, <3>1
  <2> QED
    BY <2>1, <2>2, <2>3, CloneCommits
<1> QED
  BY <1>1, <1>2, <1>3, <1>4, CInvAlways, PTL DEF C!Spec, C!CatalogCoherent, C!CloneIsComplete

-----------------------------------------------------------------------------
(* Busy bindings, with any number of replicas.                             *)

Sender(c, v, f) == c.new = v /\ c.step \in {"submit", "enqueue"} /\ f \in c.files

(* The job of a binding waits or runs, or a call holds its file. *)
Handled(v, f) ==
  <<v, f>> \in queued \cup DOMAIN running \/ \E c \in C!Unfinished : Sender(c, v, f)

(* A clone that has not listed its bindings yet. *)
Lister(v) == \E c \in C!Unfinished : c.step = "list_bindings" /\ c.new = v

(* What a cascade leaves of a clone is not listed, but then nothing of it  *)
(* is busy, unless an upload that was admitted before binds its file and   *)
(* submits it itself.                                                      *)
BusyOne(v, f) == binding[v][f] = "busy" => Handled(v, f) \/ (C!Exists(v) /\ Lister(v))

CBusy == \A v \in C!Version, f \in File : BusyOne(v, f)

(* A handler that is not about to submit anything goes on, and takes only  *)
(* bindings away, those of the versions vs at least.                       *)
LEMMA BusySettled ==
  ASSUME CInv, CBusy, NEW r \in Replica,
         call[r].step \notin {"list_bindings", "submit", "enqueue"},
         \A s \in Replica : s # r => call'[s] = call[s],
         UNCHANGED <<queued, running>>, cut \subseteq cut',
         \A v \in C!Version, f \in File :
           binding'[v][f] = "busy" => binding[v][f] = "busy" /\ (C!Exists(v) => C!Exists(v)')
  PROVE  CBusy'
<1> SUFFICES ASSUME NEW v \in C!Version, NEW f \in File, binding'[v][f] = "busy"
             PROVE  Handled(v, f)' \/ (C!Exists(v) /\ Lister(v))'
  BY DEF CBusy, BusyOne
<1>1. binding[v][f] = "busy" /\ (C!Exists(v) => C!Exists(v)')
  OBVIOUS
<1>2. \A c \in C!Unfinished : c.step \in {"list_bindings", "submit", "enqueue"}
                                => c \in C!Unfinished'
  BY DEF C!Unfinished
<1>3. Handled(v, f) => Handled(v, f)'
  BY <1>2 DEF Handled, Sender
<1>4. Lister(v) => Lister(v)'
  BY <1>2 DEF Lister
<1> QED
  BY <1>1, <1>3, <1>4 DEF CBusy, BusyOne

LEMMA BusyAdmin ==
  ASSUME C!ConstantsAssumption, CInv, CRest, CBusy, NEW r \in Replica, C!AdminCall(r)
  PROVE  CBusy'
<1> USE DEF C!At
<1>1. UNCHANGED <<queued, running>> /\ cut' = cut
  BY DEF C!AdminCall, C!CreateCustomer, C!ListProductsOf, C!DropCustomer, C!RequestProduct,
     C!InsertProduct, C!RequestDelete, C!ListVersions, C!Cascade, C!DeleteBlobs, C!DropProduct, C!work
<1>2. call[r].step \notin {"list_bindings", "submit", "enqueue"}
  BY DEF C!AdminCall, C!CreateCustomer, C!ListProductsOf, C!DropCustomer, C!RequestProduct,
     C!InsertProduct, C!RequestDelete, C!ListVersions, C!Cascade, C!DeleteBlobs, C!DropProduct,
     C!Begin, C!Admit
<1>3. ASSUME NEW v \in C!Version, NEW f \in File, binding'[v][f] = "busy"
      PROVE  binding[v][f] = "busy" /\ (C!Exists(v) => C!Exists(v)')
  <2>1. CASE C!InsertProduct(r)
    <3>1. v # born + 1 \/ version[v].product = None
      BY DEF CInv, CRows, CTyped, C!ConstantsAssumption
    <3>2. binding' = binding
      BY <2>1 DEF C!InsertProduct
    <3>3. version[v].product # None => version'[v] = version[v]
      BY <2>1, <3>1 DEF C!InsertProduct, CInv, CTyped
    <3> QED
      BY <1>3, <3>2, <3>3 DEF C!Exists
  <2>2. CASE C!Cascade(r)
    <3>1. v \notin call[r].versions
      BY <1>3, <2>2 DEF C!Cascade
    <3>2. binding'[v] = binding[v] /\ version'[v] = version[v]
      BY <2>2, <3>1 DEF C!Cascade
    <3> QED
      BY <1>3, <3>2 DEF C!Exists
  <2>3. CASE ~C!InsertProduct(r) /\ ~C!Cascade(r)
    <3>1. UNCHANGED <<version, binding>>
      BY <2>3 DEF C!AdminCall, C!CreateCustomer, C!ListProductsOf, C!DropCustomer, C!RequestProduct,
         C!RequestDelete, C!ListVersions, C!DeleteBlobs, C!DropProduct, C!rows
    <3> QED
      BY <1>3, <3>1 DEF C!Exists
  <2> QED
    BY <2>1, <2>2, <2>3
<1> QED
  BY <1>1, <1>2, <1>3, OneMoves, BusySettled

LEMMA BusyEditor ==
  ASSUME C!ConstantsAssumption, CInv, CRest, CBusy, NEW r \in Replica, C!EditorCall(r)
  PROVE  CBusy'
<1> USE DEF C!At
<1>0. /\ call[r] \in CCall /\ CSound(call[r]) /\ call \in [Replica -> CCall]
      /\ version \in [C!Version -> VersionRow] /\ binding \in [C!Version -> [File -> C!Binding]]
      /\ \A s \in Replica : s # r => call'[s] = call[s]
  BY OneMoves DEF CInv, CTyped, CRest
<1>1. CASE C!CloneBindings(r)
  <2> DEFINE e == [call[r] EXCEPT !.step = "list_bindings"]
             row == [product |-> call[r].product, label |-> call[r].label,
                     classes |-> call[r].classes, templates |-> call[r].templates]
             bs == [f \in File |-> IF binding[call[r].source][f] = "none" THEN "none" ELSE "busy"]
  <2>1. PICK n : n = call[r].new
    OBVIOUS
  <2>2. /\ call'[r] = e /\ version' = [version EXCEPT ![n] = row]
        /\ binding' = [binding EXCEPT ![n] = bs]
        /\ UNCHANGED <<queued, running, cut>> /\ call[r].step = "clone_bindings"
    BY <1>0, <1>1, <2>1 DEF C!CloneBindings, C!Goto, C!work
  <2>3. e.step = "list_bindings" /\ e.new = n /\ row.product # None
    BY <1>0, <2>1, <2>2 DEF CCall, CSound, C!CloneSteps, C!ConstantsAssumption
  <2>4. n \in C!Version /\ n # 0
    BY <1>0, <2>1, <2>2 DEF CSound, C!CloneSteps, CInv, CTyped, C!Version, C!ConstantsAssumption
  <2> HIDE DEF e, row, bs
  <2> SUFFICES ASSUME NEW v \in C!Version, NEW f \in File, binding'[v][f] = "busy"
               PROVE  Handled(v, f)' \/ (C!Exists(v) /\ Lister(v))'
    BY DEF CBusy, BusyOne
  <2>5. CASE v = n
    <3>1. Lister(v)'
      BY <2>2, <2>3, <2>5 DEF Lister, C!Unfinished
    <3>2. C!Exists(v)'
      BY <1>0, <2>2, <2>3, <2>4, <2>5 DEF C!Exists
    <3> QED
      BY <3>1, <3>2
  <2>6. CASE v # n
    <3>1. binding[v][f] = "busy" /\ version'[v] = version[v]
      BY <1>0, <2>2, <2>6
    <3>2. \A c \in C!Unfinished : c.step \in {"list_bindings", "submit", "enqueue"}
                                    => c \in C!Unfinished'
      BY <1>0, <2>2 DEF C!Unfinished
    <3>3. Handled(v, f) => Handled(v, f)'
      BY <2>2, <3>2 DEF Handled, Sender
    <3>4. C!Exists(v) /\ Lister(v) => (C!Exists(v) /\ Lister(v))'
      BY <3>1, <3>2 DEF Lister, C!Exists
    <3> QED
      BY <3>1, <3>3, <3>4 DEF CBusy, BusyOne
  <2> QED
    BY <2>5, <2>6
<1>2. CASE C!ListBindings(r)
  <2>1. PICK n : n = call[r].new
    OBVIOUS
  <2>2. /\ call[r].step = "list_bindings" /\ UNCHANGED <<version, binding, queued, running, cut>>
    BY <1>2 DEF C!ListBindings, C!rows, C!work
  <2> SUFFICES ASSUME NEW v \in C!Version, NEW f \in File, binding'[v][f] = "busy"
               PROVE  Handled(v, f)' \/ (C!Exists(v) /\ Lister(v))'
    BY DEF CBusy, BusyOne
  <2>3. \A c \in C!Unfinished : c \in C!Unfinished' \/ (c.step = "list_bindings" /\ c.new = n)
    BY <1>0, <2>1, <2>2 DEF C!Unfinished
  <2>4. Handled(v, f) => Handled(v, f)'
    BY <2>2, <2>3 DEF Handled, Sender
  <2>5. CASE v # n \/ ~C!Exists(v)
    <3>1. C!Exists(v) /\ Lister(v) => (C!Exists(v) /\ Lister(v))'
      BY <2>2, <2>3, <2>5 DEF Lister, C!Exists
    <3> QED
      BY <2>2, <2>4, <3>1 DEF CBusy, BusyOne
  <2>6. CASE v = n /\ C!Exists(v)
    <3> DEFINE fs == C!Bound(n)
               e == [call[r] EXCEPT !.step = "submit", !.files = fs]
    <3>1. call'[r] = e
      BY <1>0, <1>2, <2>1, <2>6 DEF C!ListBindings
    <3>2. e.step = "submit" /\ e.new = n /\ e.files = fs /\ f \in fs
      BY <1>0, <2>1, <2>2, <2>6 DEF CCall, C!Bound
    <3> HIDE DEF e, fs
    <3>3. Handled(v, f)'
      BY <2>6, <3>1, <3>2 DEF Handled, Sender, C!Unfinished
    <3> QED
      BY <3>3
  <2> QED
    BY <2>5, <2>6
<1>3. CASE C!Submit(r) \/ C!Enqueue(r)
  <2>1. PICK n, fs : n = call[r].new /\ fs = call[r].files
    OBVIOUS
  <2>2. /\ call[r].step \in {"submit", "enqueue"}
        /\ UNCHANGED <<version, binding, running, cut>> /\ queued \subseteq queued'
    BY <1>3 DEF C!Submit, C!Enqueue, C!rows
  <2> SUFFICES ASSUME NEW v \in C!Version, NEW f \in File, binding'[v][f] = "busy"
               PROVE  Handled(v, f)' \/ (C!Exists(v) /\ Lister(v))'
    BY DEF CBusy, BusyOne
  <2>3. \A c \in C!Unfinished : c \in C!Unfinished' \/ c = call[r]
    BY <1>0, <2>2 DEF C!Unfinished
  <2>4. C!Exists(v) /\ Lister(v) => (C!Exists(v) /\ Lister(v))'
    BY <2>2, <2>3 DEF Lister, C!Exists
  <2>5. Sender(call[r], v, f) => Handled(v, f)'
    <3>1. ASSUME Sender(call[r], v, f), C!Enqueue(r) PROVE <<v, f>> \in queued'
      BY <3>1 DEF Sender, C!Enqueue
    <3>2. ASSUME Sender(call[r], v, f), C!Submit(r), <<v, f>> \notin queued' PROVE Handled(v, f)'
      <4>1. PICK g \in fs : /\ queued' = queued \cup {<<n, g>>}
                            /\ call' = [call EXCEPT ![r].files = @ \ {g}]
        BY <2>1, <3>2 DEF Sender, C!Submit
      <4> DEFINE e == [call[r] EXCEPT !.files = @ \ {g}]
      <4>2. call'[r] = e
        BY <1>0, <4>1
      <4>3. e.step = call[r].step /\ e.new = n /\ e.files = fs \ {g}
        BY <1>0, <2>1 DEF CCall
      <4> HIDE DEF e
      <4>4. Sender(call'[r], v, f)
        BY <2>1, <3>2, <4>1, <4>2, <4>3 DEF Sender
      <4> QED
        BY <4>4 DEF Handled, C!Unfinished, Sender
    <3> QED
      BY <1>3, <3>1, <3>2 DEF Handled
  <2>6. Handled(v, f) => Handled(v, f)'
    BY <2>2, <2>3, <2>5 DEF Handled, Sender
  <2> QED
    BY <2>2, <2>4, <2>6 DEF CBusy, BusyOne
<1>4. ASSUME NEW w \in C!Version, NEW g \in File, C!Bind(r, w, g) PROVE CBusy'
  <2> DEFINE e == [C!NoCall EXCEPT !.step = "enqueue", !.new = w, !.files = {g}]
  <2>1. /\ call'[r] = e /\ call[r].step = "idle"
        /\ binding' = [binding EXCEPT ![w][g] = "busy"]
        /\ UNCHANGED <<version, queued, running, cut>>
    BY <1>0, <1>4 DEF C!Bind, C!work
  <2>2. e.step = "enqueue" /\ e.new = w /\ g \in e.files
    BY DEF C!NoCall
  <2> HIDE DEF e
  <2> SUFFICES ASSUME NEW v \in C!Version, NEW f \in File, binding'[v][f] = "busy"
               PROVE  Handled(v, f)' \/ (C!Exists(v) /\ Lister(v))'
    BY DEF CBusy, BusyOne
  <2>3. CASE v = w /\ f = g
    BY <2>1, <2>2, <2>3 DEF Handled, Sender, C!Unfinished
  <2>4. CASE ~(v = w /\ f = g)
    <3>1. binding[v][f] = "busy"
      BY <1>0, <2>1, <2>4
    <3>2. \A c \in C!Unfinished : c.step \in {"list_bindings", "submit", "enqueue"}
                                    => c \in C!Unfinished'
      BY <1>0, <2>1 DEF C!Unfinished
    <3>3. Handled(v, f) => Handled(v, f)'
      BY <2>1, <3>2 DEF Handled, Sender
    <3>4. C!Exists(v) /\ Lister(v) => (C!Exists(v) /\ Lister(v))'
      BY <2>1, <3>2 DEF Lister, C!Exists
    <3> QED
      BY <3>1, <3>3, <3>4 DEF CBusy, BusyOne
  <2> QED
    BY <2>3, <2>4
<1>5. CASE C!AddClass(r) \/ C!InsertTemplate(r)
  <2>1. call[r].new \in C!Version /\ UNCHANGED <<binding, queued, running, cut>>
    BY <1>0, <1>5 DEF C!AddClass, C!InsertTemplate, CSound, C!work
  <2>2. \A v \in C!Version : version'[v].product = version[v].product
    BY <1>5, RowGrows
  <2>3. call[r].step \notin {"list_bindings", "submit", "enqueue"}
    BY <1>5 DEF C!AddClass, C!InsertTemplate
  <2>4. \A v \in C!Version : C!Exists(v) => C!Exists(v)'
    BY <2>2 DEF C!Exists
  <2> QED
    BY <1>0, <2>1, <2>3, <2>4, BusySettled
<1>6. CASE \/ C!CloneInsert(r) \/ C!CloneClasses(r) \/ C!CloneTemplates(r)
           \/ \E p \in Product, l \in Label, d \in BOOLEAN : C!RequestClone(r, p, l, d)
           \/ \E v \in C!Version, c \in Class : C!RequestCommit(r, v, c)
           \/ \E v \in C!Version, f \in File : C!RequestUpload(r, v, f)
  <2>1. /\ UNCHANGED <<version, binding, queued, running, cut>>
        /\ call[r].step \notin {"list_bindings", "submit", "enqueue"}
    BY <1>6 DEF C!CloneInsert, C!CloneClasses, C!CloneTemplates, C!RequestClone, C!RequestCommit,
       C!RequestUpload, C!Begin, C!Admit, C!rows, C!work
  <2>2. \A v \in C!Version : C!Exists(v) => C!Exists(v)'
    BY <2>1 DEF C!Exists
  <2> QED
    BY <1>0, <2>1, <2>2, BusySettled
<1> QED
  BY <1>1, <1>2, <1>3, <1>4, <1>5, <1>6 DEF C!EditorCall

LEMMA BusyStep ==
  ASSUME C!ConstantsAssumption, CInv, CRest, CBusy, [C!Next]_C!vars PROVE CBusy'
<1>1. ASSUME NEW r \in Replica, C!AdminCall(r) \/ C!EditorCall(r) PROVE CBusy'
  BY <1>1, BusyAdmin, BusyEditor
(* A call that dies is unfinished for ever. *)
<1>2. ASSUME NEW r \in Replica, C!Crash(r) PROVE CBusy'
  <2>1. UNCHANGED <<version, binding, queued, running>> /\ cut' = cut \cup {call[r]}
    BY <1>2 DEF C!Crash, C!rows, C!work
  <2>2. C!Unfinished \subseteq C!Unfinished'
    BY <1>2, <2>1, OneMoves DEF C!Unfinished
  <2>3. ASSUME NEW v \in C!Version, NEW f \in File, BusyOne(v, f) PROVE BusyOne(v, f)'
    BY <2>1, <2>2, <2>3 DEF BusyOne, Handled, Sender, Lister, C!Exists
  <2> QED
    BY <2>3 DEF CBusy
<1>3. ASSUME NEW j \in C!Version \X File, C!Work(j) PROVE CBusy'
  <2>1. UNCHANGED <<call, cut, version>>
    BY <1>3 DEF C!Work, C!Claim, C!PutArtifacts, C!ApplySuccess, C!rows
  <2>2. C!Unfinished' = C!Unfinished
    BY <2>1 DEF C!Unfinished
  <2>3. CASE C!Claim(j) \/ C!PutArtifacts(j)
    <3>1. binding' = binding /\ queued \cup DOMAIN running \subseteq queued' \cup DOMAIN running'
      BY <2>3 DEF C!Claim, C!PutArtifacts, C!rows
    <3> QED
      BY <2>1, <2>2, <3>1 DEF CBusy, BusyOne, Handled, Sender, Lister, C!Exists
  <2>4. CASE C!ApplySuccess(j)
    <3>1. /\ \A v \in C!Version, f \in File :
               binding'[v][f] = "busy" => binding[v][f] = "busy" /\ <<v, f>> # j
          /\ queued' = queued /\ DOMAIN running' = DOMAIN running \ {j}
      BY <2>4 DEF C!ApplySuccess, CRest
    <3> QED
      BY <2>1, <2>2, <3>1 DEF CBusy, BusyOne, Handled, Sender, Lister, C!Exists
  <2> QED
    BY <1>3, <2>3, <2>4 DEF C!Work
<1>4. CASE UNCHANGED C!vars
  BY <1>4 DEF C!vars, C!rows, C!work, CBusy, BusyOne, Handled, Sender, Lister, C!Exists, C!Unfinished
<1> QED
  BY <1>1, <1>2, <1>3, <1>4 DEF C!Next

(* With any number of web replicas: a binding that shows as busy has a job *)
(* that waits or runs and will end it, or a call that has not come to      *)
(* submitting it or died before, whatever is uploaded, cloned and deleted  *)
(* meanwhile (main.py, versions.py).                                       *)
THEOREM BusyBindingsHaveJobs ==
  ASSUME C!ConstantsAssumption PROVE C!Spec => []C!BusyHasJob
<1>1. C!Init => CRest /\ CBusy
  BY DEF C!Init, CRest, C!Binding, CBusy, BusyOne
<1>2. CInv /\ CRest /\ CBusy /\ [C!Next]_C!vars => CRest' /\ CBusy'
  BY RestStep, BusyStep
<1>3. CBusy => C!BusyHasJob
  BY DEF CBusy, BusyOne, Handled, Sender, Lister, C!BusyHasJob, C!Submits
<1> QED
  BY <1>1, <1>2, <1>3, CInvAlways, PTL DEF C!Spec

-----------------------------------------------------------------------------
(* The comparison of two versions.                                         *)

CONSTANTS Default, Shape, FileRole, Setting, Fresh, MaxEdits

VARIABLES template, config, bound, cloned, touched, edits

V == INSTANCE VersionDiff WITH binding <- bound

TemplateRow == [id : Nat, class : Class, shape : Shape]
BindingRow == [role : FileRole \cup {None}, setting : Setting]

VTypes ==
  /\ template \in [V!Version -> SUBSET TemplateRow]
  /\ config \in [V!Version -> [Class -> V!Strategy \cup {None}]]
  /\ bound \in [V!Version -> [File -> BindingRow]]
  /\ cloned \in BOOLEAN /\ touched \in BOOLEAN
  /\ edits \in Nat

(* A file without a role is not bound.                                     *)
Roles == \A v \in V!Version, f \in File : bound[v][f].role = None => bound[v][f] = V!Unbound

(* Until somebody edits either, the clone is a copy.                       *)
Copied == cloned /\ ~touched =>
            /\ template["to"] = V!Copies(template["from"])
            /\ config["to"] = config["from"]
            /\ bound["to"] = bound["from"]

VInv == VTypes /\ Roles /\ Copied

LEMMA UnboundRow ==
  ASSUME V!VersionDiffAssumption
  PROVE  V!Unbound \in BindingRow /\ V!Unbound.role = None
  BY DEF V!VersionDiffAssumption, V!Unbound, BindingRow

(* An edit of a version.                                                   *)
LEMMA Edited ==
  ASSUME V!VersionDiffAssumption, VInv, NEW v \in V!Version, V!Edit(v),
         template' \in [V!Version -> SUBSET TemplateRow],
         config' \in [V!Version -> [Class -> V!Strategy \cup {None}]],
         bound' \in [V!Version -> [File -> BindingRow]], Roles'
  PROVE  VInv'
<1>1. touched' = cloned /\ cloned' = cloned /\ edits' = edits + 1
  BY DEF V!Edit
<1>2. VTypes'
  BY <1>1 DEF VInv, VTypes, V!Version, V!Strategy, TemplateRow, BindingRow
<1>3. Copied'
  BY <1>1 DEF Copied, VInv, VTypes
<1> QED
  BY <1>2, <1>3 DEF VInv

LEMMA ClassAdded ==
  ASSUME VInv, NEW v \in V!Version, NEW c \in Class, config' = V!WithClass(v, c)
  PROVE  config' \in [V!Version -> [Class -> V!Strategy \cup {None}]]
<1> DEFINE x == IF config[v][c] = None THEN "chamfer" ELSE config[v][c]
<1>1. config' = [config EXCEPT ![v][c] = x]
  BY DEF V!WithClass
<1>2. x \in V!Strategy \cup {None}
  BY DEF VInv, VTypes, V!Strategy
<1> HIDE DEF x
<1> QED
  BY <1>1, <1>2 DEF VInv, VTypes

LEMMA RowEdits ==
  ASSUME V!VersionDiffAssumption, VInv, NEW v \in V!Version,
         \/ \E c \in Class, s \in Shape : V!Commit(v, c, s)
         \/ \E t \in template[v] : V!Delete(v, t) \/ (\E c \in Class : V!Move(v, t, c))
         \/ \E c \in Class, s \in V!Strategy : V!SetStrategy(v, c, s)
  PROVE  VInv'
<1>1. /\ template \in [V!Version -> SUBSET TemplateRow] /\ bound \in [V!Version -> [File -> BindingRow]]
      /\ config \in [V!Version -> [Class -> V!Strategy \cup {None}]] /\ edits \in Nat
  BY DEF VInv, VTypes
<1>2. ASSUME bound' = bound PROVE bound' \in [V!Version -> [File -> BindingRow]] /\ Roles'
  BY <1>1, <1>2 DEF VInv, Roles, V!Unbound
<1>3. ASSUME NEW c \in Class, NEW s \in Shape, V!Commit(v, c, s) PROVE VInv'
  <2> DEFINE new == [id |-> edits, class |-> c, shape |-> s]
  <2>1. V!Edit(v) /\ config' = V!WithClass(v, c) /\ bound' = bound
        /\ (template' = template \/ template' = [template EXCEPT ![v] = @ \cup {new}])
    BY <1>3 DEF V!Commit, V!NewId
  <2>2. new \in TemplateRow
    BY <1>1 DEF TemplateRow
  <2> HIDE DEF new
  <2>3. template' \in [V!Version -> SUBSET TemplateRow]
    BY <1>1, <2>1, <2>2
  <2> QED
    BY <1>2, <2>1, <2>3, ClassAdded, Edited
<1>4. ASSUME NEW t \in template[v], V!Delete(v, t) PROVE VInv'
  <2>1. V!Edit(v) /\ config' = config /\ bound' = bound
        /\ template' = [template EXCEPT ![v] = @ \ {t}]
    BY <1>4 DEF V!Delete
  <2>2. template' \in [V!Version -> SUBSET TemplateRow]
    BY <1>1, <2>1
  <2> QED
    BY <1>1, <1>2, <2>1, <2>2, Edited
<1>5. ASSUME NEW t \in template[v], NEW c \in Class, V!Move(v, t, c) PROVE VInv'
  <2> DEFINE new == [t EXCEPT !.class = c]
  <2>1. V!Edit(v) /\ config' = V!WithClass(v, c) /\ bound' = bound
        /\ template' = [template EXCEPT ![v] = (@ \ {t}) \cup {new}]
    BY <1>5 DEF V!Move
  <2>2. t \in TemplateRow
    BY <1>1
  <2>3. new \in TemplateRow
    BY <2>2 DEF TemplateRow
  <2> HIDE DEF new
  <2>4. template' \in [V!Version -> SUBSET TemplateRow]
    BY <1>1, <2>1, <2>3
  <2> QED
    BY <1>2, <2>1, <2>4, ClassAdded, Edited
<1>6. ASSUME NEW c \in Class, NEW s \in V!Strategy, V!SetStrategy(v, c, s) PROVE VInv'
  <2>1. V!Edit(v) /\ config' = [config EXCEPT ![v][c] = s] /\ bound' = bound
        /\ template' = template
    BY <1>6 DEF V!SetStrategy
  <2>2. config' \in [V!Version -> [Class -> V!Strategy \cup {None}]]
    BY <1>1, <2>1
  <2> QED
    BY <1>1, <1>2, <2>1, <2>2, Edited
<1> QED
  BY <1>3, <1>4, <1>5, <1>6

LEMMA BindingEdits ==
  ASSUME V!VersionDiffAssumption, VInv, NEW v \in V!Version, NEW f \in File,
         \/ \E r \in FileRole : V!Bind(v, f, r)
         \/ V!Unbind(v, f)
         \/ \E s \in Setting : V!Configure(v, f, s)
  PROVE  VInv'
<1>1. /\ template \in [V!Version -> SUBSET TemplateRow] /\ bound \in [V!Version -> [File -> BindingRow]]
      /\ config \in [V!Version -> [Class -> V!Strategy \cup {None}]] /\ Roles
  BY DEF VInv, VTypes
<1>2. ASSUME NEW b \in BindingRow, b.role = None => b = V!Unbound,
             bound' = [bound EXCEPT ![v][f] = b],
             V!Edit(v), template' = template, config' = config
      PROVE  VInv'
  <2>1. bound' \in [V!Version -> [File -> BindingRow]]
    BY <1>1, <1>2
  <2>2. \A w \in V!Version, g \in File : bound'[w][g] = bound[w][g] \/ bound'[w][g] = b
    BY <1>1, <1>2
  <2>3. Roles'
    BY <1>1, <1>2, <2>2 DEF Roles, V!Unbound
  <2> QED
    BY <1>1, <1>2, <2>1, <2>3, Edited
<1>3. ASSUME NEW r \in FileRole, V!Bind(v, f, r) PROVE VInv'
  <2> DEFINE b == [role |-> r, setting |-> Fresh]
  <2>1. b \in BindingRow /\ b.role # None
    BY DEF BindingRow, V!VersionDiffAssumption
  <2>2. bound' = [bound EXCEPT ![v][f] = b] /\ V!Edit(v) /\ template' = template /\ config' = config
    BY <1>3 DEF V!Bind
  <2> HIDE DEF b
  <2> QED
    BY <1>2, <2>1, <2>2
<1>4. CASE V!Unbind(v, f)
  <2>1. bound' = [bound EXCEPT ![v][f] = V!Unbound] /\ V!Edit(v)
        /\ template' = template /\ config' = config
    BY <1>4 DEF V!Unbind
  <2> QED
    BY <1>2, <2>1, UnboundRow
<1>5. ASSUME NEW s \in Setting, V!Configure(v, f, s) PROVE VInv'
  <2> DEFINE b == [bound[v][f] EXCEPT !.setting = s]
  <2>1. bound[v][f] \in BindingRow /\ bound[v][f] # V!Unbound
    BY <1>1, <1>5 DEF V!Configure
  <2>2. bound[v][f].role # None
    BY <1>1, <2>1 DEF Roles
  <2>3. b \in BindingRow /\ b.role = bound[v][f].role
    BY <2>1 DEF BindingRow
  <2>4. bound' = [bound EXCEPT ![v][f] = b] /\ V!Edit(v) /\ template' = template /\ config' = config
    BY <1>1, <1>5 DEF V!Configure
  <2> HIDE DEF b
  <2> QED
    BY <1>2, <2>2, <2>3, <2>4
<1> QED
  BY <1>3, <1>4, <1>5

LEMMA CloneKeeps ==
  ASSUME V!VersionDiffAssumption, VInv, V!Clone
  PROVE  VInv'
<1>1. /\ template \in [V!Version -> SUBSET TemplateRow] /\ bound \in [V!Version -> [File -> BindingRow]]
      /\ config \in [V!Version -> [Class -> V!Strategy \cup {None}]] /\ Roles
  BY DEF VInv, VTypes
<1> DEFINE cs == V!Copies(template["from"])
<1>2. /\ template' = [template EXCEPT !["to"] = cs]
      /\ config' = [config EXCEPT !["to"] = config["from"]]
      /\ bound' = [bound EXCEPT !["to"] = bound["from"]]
      /\ cloned' = TRUE /\ touched' = touched /\ edits' = edits
  BY DEF V!Clone
<1>3. cs \in SUBSET TemplateRow
  <2>1. \A t \in template["from"] : t \in TemplateRow
    BY <1>1 DEF V!Version
  <2>2. ASSUME NEW t \in TemplateRow PROVE [t EXCEPT !.id = MaxEdits + t.id] \in TemplateRow
    BY DEF TemplateRow, V!VersionDiffAssumption
  <2> QED
    BY <2>1, <2>2 DEF V!Copies
<1>n. cs = V!Copies(template["from"])
  OBVIOUS
<1> HIDE DEF cs
<1>4. template' \in [V!Version -> SUBSET TemplateRow] /\ template'["to"] = cs
      /\ template'["from"] = template["from"]
  BY <1>1, <1>2, <1>3 DEF V!Version
<1>5. config' \in [V!Version -> [Class -> V!Strategy \cup {None}]]
      /\ config'["to"] = config["from"] /\ config'["from"] = config["from"]
  BY <1>1, <1>2 DEF V!Version
<1>6. bound' \in [V!Version -> [File -> BindingRow]]
      /\ bound'["to"] = bound["from"] /\ bound'["from"] = bound["from"]
  BY <1>1, <1>2 DEF V!Version
<1>7. VTypes'
  BY <1>2, <1>4, <1>5, <1>6 DEF VInv, VTypes, V!Version, V!Strategy, TemplateRow, BindingRow
<1>8. Roles'
  BY <1>1, <1>6 DEF Roles, V!Unbound, V!Version
<1>9. Copied'
  <2>1. V!Copies(template["from"])' = cs
    BY <1>4, <1>n DEF V!Copies
  <2> QED
    BY <1>4, <1>5, <1>6, <2>1 DEF Copied
<1> QED
  BY <1>7, <1>8, <1>9 DEF VInv

LEMMA VersionsKept ==
  ASSUME V!VersionDiffAssumption
  PROVE  V!Spec => []VInv
<1>1. ASSUME V!Init PROVE VInv
  <2>1. template \in [V!Version -> SUBSET TemplateRow]
    BY <1>1 DEF V!Init
  <2>2. \A v \in V!Version, c \in Class :
          (IF v = "from" /\ c \in Default THEN "chamfer" ELSE None) \in V!Strategy \cup {None}
    BY DEF V!Strategy
  <2>3. config \in [V!Version -> [Class -> V!Strategy \cup {None}]]
    BY <1>1, <2>2 DEF V!Init
  <2>4. bound = [v \in V!Version |-> [f \in File |-> V!Unbound]]
    BY <1>1 DEF V!Init
  <2>5. bound \in [V!Version -> [File -> BindingRow]] /\ Roles
    BY <2>4, UnboundRow DEF Roles
  <2>6. cloned = FALSE /\ touched = FALSE /\ edits = 0
    BY <1>1 DEF V!Init
  <2> QED
    BY <2>1, <2>3, <2>5, <2>6 DEF VInv, VTypes, Copied
<1>2. VInv /\ [V!Next]_V!vars => VInv'
  <2> SUFFICES ASSUME VInv, [V!Next]_V!vars PROVE VInv'
    OBVIOUS
  <2>1. CASE UNCHANGED V!vars
    BY <2>1 DEF V!vars, VInv, VTypes, Roles, Copied, V!Copies, V!Version, V!Strategy, V!Unbound,
       TemplateRow, BindingRow
  <2>2. CASE V!Next
    BY <2>2, RowEdits, BindingEdits, CloneKeeps DEF V!Next
  <2> QED
    BY <2>1, <2>2
<1> QED
  BY <1>1, <1>2, PTL DEF V!Spec

(* Two versions that are said to be identical are matched alike.           *)
LEMMA IdenticalMeansAlike ==
  ASSUME VInv, NEW v \in V!Version, NEW w \in V!Version, V!Identical(v, w)
  PROVE  V!Input(v) = V!Input(w)
<1>1. V!Keys(v) = V!Keys(w)
  BY DEF V!Identical, V!Added, V!Removed
<1>2. \A c \in Class : config[v][c] = config[w][c]
  BY DEF V!Identical, V!Configs
<1>3. /\ V!Bound(w) \ V!Bound(v) = {} /\ V!Bound(v) \ V!Bound(w) = {}
      /\ {k \in V!Bound(v) \cap V!Bound(w) : bound[v][k[2]].setting # bound[w][k[2]].setting} = {}
  BY DEF V!Identical, V!Bindings, V!Nothing
<1>4. ASSUME NEW x \in V!Version, NEW y \in V!Version, V!Keys(x) = V!Keys(y),
             \A c \in Class : config[x][c] = config[y][c]
      PROVE  V!Input(x).hits \subseteq V!Input(y).hits
  <2> SUFFICES ASSUME NEW t \in template[x]
               PROVE  \E u \in template[y] : <<t.class, t.shape, config[x][t.class]>>
                                              = <<u.class, u.shape, config[y][u.class]>>
    BY DEF V!Input
  <2>1. <<t.class, t.shape>> \in V!Keys(y)
    BY <1>4 DEF V!Keys
  <2>2. PICK u \in template[y] : <<t.class, t.shape>> = <<u.class, u.shape>>
    BY <2>1 DEF V!Keys
  <2>3. t.class \in Class
    BY DEF VInv, VTypes, TemplateRow
  <2> QED
    BY <1>4, <2>2, <2>3
<1>5. ASSUME NEW x \in V!Version, NEW y \in V!Version, NEW f \in File,
             V!Bound(x) \subseteq V!Bound(y),
             \A k \in V!Bound(x) : bound[x][k[2]].setting = bound[y][k[2]].setting,
             bound[x][f].role # None
      PROVE  bound[x][f] = bound[y][f]
  <2>1. bound[x][f] \in BindingRow /\ bound[y][f] \in BindingRow
    BY DEF VInv, VTypes
  <2>2. bound[x][f] # V!Unbound
    BY <1>5 DEF V!Unbound
  <2>3. <<bound[x][f].role, f>> \in V!Bound(x)
    BY <2>2 DEF V!Bound
  <2>4. <<bound[x][f].role, f>> \in V!Bound(y) /\ bound[x][f].setting = bound[y][f].setting
    BY <1>5, <2>3
  <2>5. PICK g \in File : <<bound[x][f].role, f>> = <<bound[y][g].role, g>>
    BY <2>4 DEF V!Bound
  <2>6. bound[x][f].role = bound[y][f].role
    BY <2>5
  <2> QED
    BY <2>1, <2>4, <2>6 DEF BindingRow
<1>6. V!Bound(v) = V!Bound(w)
  BY <1>3
<1>7. \A k \in V!Bound(v) : bound[v][k[2]].setting = bound[w][k[2]].setting
  BY <1>3, <1>6
<1>8. \A f \in File : bound[v][f].role # None \/ bound[w][f].role # None => bound[v][f] = bound[w][f]
  BY <1>5, <1>6, <1>7
<1>9. V!Input(v).files = V!Input(w).files
  BY <1>8 DEF V!Input
<1>10. V!Input(v).hits = V!Input(w).hits
  BY <1>1, <1>2, <1>4
<1> QED
  BY <1>9, <1>10 DEF V!Input

(* A comparison says identical of what was only copied, and two versions   *)
(* that it says to be identical are matched with the same templates,       *)
(* strategies and files (diff_versions, app/version_diff.py).              *)
THEOREM DiffIsRight ==
  ASSUME V!VersionDiffAssumption
  PROVE  V!Spec => []V!VerdictIsRight
<1>1. ASSUME VInv, cloned, ~touched PROVE V!Identical("from", "to")
  <2>1. /\ template["to"] = V!Copies(template["from"]) /\ config["to"] = config["from"]
        /\ bound["to"] = bound["from"]
    BY <1>1 DEF VInv, Copied
  <2>2. \A t \in template["from"] : t \in TemplateRow
    BY <1>1 DEF VInv, VTypes, V!Version
  <2>3. V!Keys("to") = V!Keys("from")
    <3>1. \A t \in TemplateRow : [t EXCEPT !.id = MaxEdits + t.id].class = t.class
                         /\ [t EXCEPT !.id = MaxEdits + t.id].shape = t.shape
      BY DEF TemplateRow
    <3>2. \A u \in template["to"] : \E t \in template["from"] : u.class = t.class /\ u.shape = t.shape
      BY <2>1, <2>2, <3>1 DEF V!Copies
    <3>3. \A t \in template["from"] : \E u \in template["to"] : u.class = t.class /\ u.shape = t.shape
      BY <2>1, <2>2, <3>1 DEF V!Copies
    <3> QED
      BY <3>2, <3>3 DEF V!Keys
  <2>4. V!Bound("to") = V!Bound("from")
    BY <2>1 DEF V!Bound
  <2>5. V!Bindings("from", "to") = V!Nothing
    BY <2>1, <2>4 DEF V!Bindings, V!Nothing
  <2> QED
    BY <2>1, <2>3, <2>5 DEF V!Identical, V!Added, V!Removed, V!Configs
<1>2. VInv => V!UneditedIsIdentical
  BY <1>1 DEF V!UneditedIsIdentical
<1>3. VInv => V!IdenticalIsAlike
  BY IdenticalMeansAlike DEF V!IdenticalIsAlike, V!Version
<1>4. VInv => V!VerdictIsRight
  BY <1>2, <1>3 DEF V!VerdictIsRight
<1> QED
  BY <1>4, VersionsKept, PTL

=============================================================================
