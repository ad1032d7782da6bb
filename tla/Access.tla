------------------------------- MODULE Access -------------------------------
(***************************************************************************)
(* Who may do what (app/guards.py and the grants of app/auth.py): requests *)
(* of identified users pass the role check and the lock check of their     *)
(* guard and are carried out afterwards, while grants, locks and products  *)
(* change under them.                                                      *)
(*                                                                         *)
(* Each query of a guard and each transaction of a handler is a step.  A   *)
(* replica's store lock makes the statements of one transaction exclusive  *)
(* at that replica only.  A row of role_grants is known by its grant and    *)
(* how many times that was given before it: a grant that is given again    *)
(* has a new id.  The lock's own protocol is EditLock's: here a lock is     *)
(* held, fresh or lapsed.                                                  *)
(***************************************************************************)
EXTENDS Integers, FiniteSets, FiniteSetsExt

CONSTANTS
  User,
  Dept,
  Customer,
  Product,
  CustomerOf,  \* products.customer_id
  Grant,       \* the grants somebody may try to give
  Request,
  At,          \* At[r]: the replica that serves request r
  Bootstrap,   \* BOOTSTRAP_ADMINS
  MaxCalls,    \* bound: requests in all
  None

AdminOf(u) == [grantee |-> u, role |-> "admin", scope |-> "global"]
Row(g, n) == [grant |-> g, nth |-> n]

GrantsAssumption ==
  /\ \A g \in Grant : /\ g.grantee \in User \cup Dept
                      /\ g.role \in {"viewer", "editor", "admin"}
                      /\ g.scope \in {"global"} \cup Customer \cup Product
  /\ Bootstrap \subseteq User
  /\ \A u \in Bootstrap : AdminOf(u) \in Grant
  /\ CustomerOf \in [Product -> Customer]
  /\ MaxCalls \in Nat

VARIABLES
  grants,    \* the rows of role_grants
  created,   \* created[g]: how many grant.create entries g has
  revoked,   \* the rows that have a grant.revoke entry
  dept,      \* dept[u]: the department in the users row
  product,   \* the products that exist
  lock,      \* lock[p]: who holds it, and whether the heartbeat is recent
  req,       \* req[r]: a request under way
  calls

vars == <<grants, created, revoked, dept, product, lock, req, calls>>

Web == {At[r] : r \in Request}

(* Every row that a grant.create entry speaks of. *)
Given == UNION {{Row(g, n) : n \in 1..created[g]} : g \in Grant}

(* The UNIQUE index of role_grants. *)
InForce(g) == \E x \in grants : x.grant = g

Rank == [none |-> 0, viewer |-> 1, editor |-> 2, admin |-> 3]

NoRequest == [step |-> "idle", op |-> "none", user |-> None, dept |-> None,
              product |-> None, grant |-> None, row |-> None]
Unlocked == [by |-> None, fresh |-> FALSE]

(* Mutant: a department may be given any role, admin included. *)
AllowedInShape(g) == g.role = "admin" => g.scope = "global"

(* add_grant's own rules. *)
Allowed(g) ==
  /\ g.role = "admin" => g.scope = "global" /\ g.grantee \in User
  /\ g.grantee \in Dept => g.role = "viewer"

(* Whether a grant speaks of the user, in department d, on product p; with *)
(* None for p only the global ones do.                                     *)
Applies(g, u, d, p) ==
  /\ g.grantee \in {u, d}
  /\ \/ g.scope = "global"
     \/ p # None /\ g.scope = p
     \/ p # None /\ g.scope = CustomerOf[p]

(* effective_role, as a rank. *)
Role(u, d, p) ==
  Max({0} \cup {Rank[x.grant.role] : x \in {y \in grants : Applies(y.grant, u, d, p)}})

(* lock_holder. *)
Holder(p) == IF lock[p].fresh THEN lock[p].by ELSE None

StoreFree(r) == \A q \in Request \ {r} : At[q] = At[r] => req[q].step # "revoking"

Done(r) == req' = [req EXCEPT ![r] = NoRequest]
To(r, step) == req' = [req EXCEPT ![r].step = step]

Init ==
  /\ grants = {Row(AdminOf(u), 1) : u \in Bootstrap}
  /\ created = [g \in Grant |-> IF InForce(g) THEN 1 ELSE 0]
  /\ revoked = {}
  /\ dept \in [User -> Dept \cup {None}]
  /\ product = Product
  /\ lock = [p \in Product |-> Unlocked]
  /\ req = [r \in Request |-> NoRequest]
  /\ calls = 0

(* A request arrives with the identity get_identity made of its session.   *)
Arrive(r, u, op, p, g, x) ==
  /\ req[r].step = "idle" /\ calls < MaxCalls
  /\ calls' = calls + 1
  /\ req' = [req EXCEPT ![r] = [step |-> "role", op |-> op, user |-> u, dept |-> dept[u],
                                product |-> p, grant |-> g, row |-> x]]
  /\ UNCHANGED <<grants, created, revoked, dept, product, lock>>

(* The role floor of each operation, and the step that follows. *)
Floor(op) == IF op \in {"write", "acquire"} THEN Rank.editor
             ELSE IF op = "release" THEN 0 ELSE Rank.admin

AfterRole(op) == CASE op = "write" -> "lock" [] op = "grant" -> "scope" [] OTHER -> op

(* _enforce, first part; the admin operations name no product. *)
CheckRole(r) ==
  LET q == req[r]
      p == IF q.op \in {"write", "acquire"} THEN q.product ELSE None
  IN
  /\ q.step = "role" /\ StoreFree(r)
  /\ IF Role(q.user, q.dept, p) >= Floor(q.op) THEN To(r, AfterRole(q.op)) ELSE Done(r)
  /\ UNCHANGED <<grants, created, revoked, dept, product, lock, calls>>

(* _enforce, second part: 423 for who does not hold the lock. *)
CheckLock(r) ==
  /\ req[r].step = "lock" /\ StoreFree(r)
  /\ IF Holder(req[r].product) = req[r].user THEN To(r, "write") ELSE Done(r)
  /\ UNCHANGED <<grants, created, revoked, dept, product, lock, calls>>

(* The content write of a handler behind editor_guard. *)
Write(r) ==
  /\ req[r].step = "write"
  /\ Done(r)
  /\ UNCHANGED <<grants, created, revoked, dept, product, lock, calls>>

Acquire(r) ==
  LET p == req[r].product IN
  /\ req[r].step = "acquire" /\ StoreFree(r)
  /\ lock' = IF p \in product /\ (Holder(p) = None \/ lock[p].by = req[r].user)
             THEN [lock EXCEPT ![p] = [by |-> req[r].user, fresh |-> TRUE]] ELSE lock
  /\ Done(r)
  /\ UNCHANGED <<grants, created, revoked, dept, product, calls>>

Release(r) ==
  LET p == req[r].product IN
  /\ req[r].step = "release" /\ StoreFree(r)
  /\ lock' = IF lock[p].by = req[r].user THEN [lock EXCEPT ![p] = Unlocked] ELSE lock
  /\ Done(r)
  /\ UNCHANGED <<grants, created, revoked, dept, product, calls>>

ForceRelease(r) ==
  /\ req[r].step = "force" /\ StoreFree(r)
  /\ lock' = [lock EXCEPT ![req[r].product] = Unlocked]
  /\ Done(r)
  /\ UNCHANGED <<grants, created, revoked, dept, product, calls>>

(* No heartbeat for LOCK_TTL_SECONDS. *)
LapseLock(p) ==
  /\ lock[p].fresh
  /\ lock' = [lock EXCEPT ![p].fresh = FALSE]
  /\ UNCHANGED <<grants, created, revoked, dept, product, req, calls>>

(* create_grant looks for what the scope names; all customers stay here. *)
CheckScope(r) ==
  LET s == req[r].grant.scope IN
  /\ req[r].step = "scope" /\ StoreFree(r)
  /\ IF s \in Product \ product THEN Done(r) ELSE To(r, "insert")
  /\ UNCHANGED <<grants, created, revoked, dept, product, lock, calls>>

(* A new row of g with its audit entry, or the UNIQUE index's rollback. *)
Give(g) ==
  IF InForce(g) THEN UNCHANGED <<grants, created>>
  ELSE /\ grants' = grants \cup {Row(g, created[g] + 1)}
       /\ created' = [created EXCEPT ![g] = @ + 1]

(* add_grant: its rules, then the transaction. *)
InsertGrant(r) ==
  LET g == req[r].grant IN
  /\ req[r].step = "insert" /\ StoreFree(r)
  /\ IF Allowed(g) THEN Give(g) ELSE UNCHANGED <<grants, created>>
  /\ Done(r)
  /\ UNCHANGED <<revoked, dept, product, lock, calls>>

(* revoke_grant: the row of the id is read, then deleted by its id, with   *)
(* an audit entry.  Other transactions of this replica wait; those of      *)
(* another do not, and what they deleted meanwhile is recorded again.      *)
SelectGrant(r) ==
  /\ req[r].step = "revoke" /\ StoreFree(r)
  /\ IF req[r].row \in grants THEN To(r, "revoking") ELSE Done(r)
  /\ UNCHANGED <<grants, created, revoked, dept, product, lock, calls>>

(* Mutant: the row is deleted by what it grants. *)
DeleteEqualGrant(r) ==
  /\ req[r].step = "revoking"
  /\ grants' = {x \in grants : x.grant # req[r].row.grant}
  /\ revoked' = revoked \cup {req[r].row}
  /\ Done(r)
  /\ UNCHANGED <<created, dept, product, lock, calls>>

DeleteGrant(r) ==
  /\ req[r].step = "revoking"
  /\ grants' = grants \ {req[r].row}
  /\ revoked' = revoked \cup {req[r].row}
  /\ Done(r)
  /\ UNCHANGED <<created, dept, product, lock, calls>>

(* delete_product, as far as this module is concerned. *)
DeleteProduct(r) ==
  /\ req[r].step = "delete"
  /\ product' = product \ {req[r].product}
  /\ Done(r)
  /\ UNCHANGED <<grants, created, revoked, dept, lock, calls>>

(* A restart of replica a, whose requests end where they are: for each     *)
(* user of the list in turn, bootstrap_admins gives what is missing.       *)
Boot(a, u) ==
  /\ calls < MaxCalls /\ calls' = calls + 1
  /\ Give(AdminOf(u))
  /\ req' = [r \in Request |-> IF At[r] = a THEN NoRequest ELSE req[r]]
  /\ UNCHANGED <<revoked, dept, product, lock>>

(* A login in another department. *)
Transfer(u, d) ==
  /\ calls < MaxCalls /\ calls' = calls + 1
  /\ dept[u] # d
  /\ dept' = [dept EXCEPT ![u] = d]
  /\ UNCHANGED <<grants, created, revoked, product, lock, req>>

Next ==
  \/ \E a \in Web, u \in Bootstrap : Boot(a, u)
  \/ \E u \in User, d \in Dept : Transfer(u, d)
  \/ \E p \in Product : LapseLock(p)
  \/ \E r \in Request :
       \/ \E u \in User, p \in Product, op \in {"write", "acquire", "release", "force", "delete"} :
            Arrive(r, u, op, p, None, None)
       \/ \E u \in User, g \in Grant : Arrive(r, u, "grant", None, g, None)
       \/ \E u \in User, x \in Given : Arrive(r, u, "revoke", None, None, x)
       \/ CheckRole(r) \/ CheckLock(r) \/ Write(r)
       \/ Acquire(r) \/ Release(r) \/ ForceRelease(r)
       \/ CheckScope(r) \/ InsertGrant(r) \/ SelectGrant(r) \/ DeleteGrant(r)
       \/ DeleteProduct(r)

Spec == Init /\ [][Next]_vars

-----------------------------------------------------------------------------

(* The variables have their types; departments may only view. *)
TypeOK ==
  /\ \A x \in grants : x.grant \in Grant /\ (x.grant.role # "viewer" => x.grant.grantee \in User)
  /\ created \in [Grant -> Nat]
  /\ dept \in [User -> Dept \cup {None}]
  /\ product \subseteq Product
  /\ lock \in [Product -> [by : User \cup {None}, fresh : BOOLEAN]]
  /\ calls \in 0..MaxCalls
  /\ \A r \in Request : /\ req[r].user \in User \cup {None}
                        /\ req[r].product \in Product \cup {None}
                        /\ req[r].grant \in Grant \cup {None}

(* The audit log accounts for the grants: the rows in force are those with *)
(* a create and no revoke entry, and none is revoked that was not created, *)
(* although two replicas may revoke a grant side by side, give it again    *)
(* and restart meanwhile (guards.py: the audit log "only records           *)
(* successful mutations").                                                 *)
AuditExplainsGrants == revoked \subseteq Given /\ grants = Given \ revoked

(* docs/auth-permissions.md: the lock makes one human the only writer of a *)
(* product.  The guard asks before the handler writes.                     *)
OneWriter ==
  [][\A r \in Request : req[r].step = "write" /\ req'[r].step = "idle"
                        => Holder(req[r].product) \in {None, req[r].user}]_vars
=============================================================================
