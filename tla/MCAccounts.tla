----------------------------- MODULE MCAccounts -----------------------------
(***************************************************************************)
(* Signing in (Session), permissions (Access), sign-off (SignOff), the     *)
(* catalogue (Catalog) and version comparison (VersionDiff), side by side  *)
(* for TLC.  They share no state, so an interleaving of two of them shows  *)
(* nothing that each alone does not: one component moves in a behaviour    *)
(* and the others stay where they start.                                   *)
(***************************************************************************)
EXTENDS Session, TLC

CONSTANTS a1, a2, b1, b2,          \* interchangeable
          ann, bob, lab, acme, board, k1, smd, bga, sbt, pod

VARIABLES
  moving,
  grants, created, revoked, dept, products, lock, request, calls,      \* Access
  signature, blob, handler, signCalls, signFaults,                     \* SignOff
  customer, product, version, binding, artifact, queued, running,      \* Catalog
  awaiting, call, born, retired, cut, catalogCalls, faults,
  template, config, bound, cloned, touched, edits                      \* VersionDiff

accessVars == <<grants, created, revoked, dept, products, lock, request, calls>>
signOffVars == <<signature, blob, handler, signCalls, signFaults>>
catalogVars == <<customer, product, version, binding, artifact, queued, running,
                 awaiting, call, born, retired, cut, catalogCalls, faults>>
diffVars == <<template, config, bound, cloned, touched, edits>>
allVars == <<vars, accessVars, signOffVars, catalogVars, diffVars, moving>>

(* One customer, one product; both users may come to be administrators. *)
TheUsers == {ann, bob}
OneProduct == [p \in {board} |-> acme]

(* Each request has a replica to itself. *)
Apart == a1 :> "web" @@ a2 :> "web 2"

(* Valid grants of each kind, and one that add_grant refuses. *)
AdminGrant(u) == [grantee |-> u, role |-> "admin", scope |-> "global"]
TheGrants == {
  AdminGrant(ann), AdminGrant(bob),
  [grantee |-> bob, role |-> "editor", scope |-> board],
  [grantee |-> lab, role |-> "viewer", scope |-> acme],
  [grantee |-> lab, role |-> "editor", scope |-> "global"]}

A == INSTANCE Access WITH
       User <- TheUsers, Dept <- {lab}, Customer <- {acme}, Product <- {board},
       CustomerOf <- OneProduct, Grant <- TheGrants, Request <- {a1, a2}, At <- Apart,
       Bootstrap <- {ann}, MaxCalls <- 4,
       product <- products, req <- request

S == INSTANCE SignOff WITH
       User <- {a1, a2}, Image <- {b1, b2}, Replica <- {"web", "web 2"}, MaxCalls <- 5, MaxFaults <- 1,
       row <- signature, call <- handler, calls <- signCalls, faults <- signFaults

C == INSTANCE Catalog WITH
       Customer <- {acme}, Seed <- "uncategorized", Product <- {a1, a2},
       Label <- {"rev A", "rev B"}, File <- {b1, b2}, Class <- {k1},
       Replica <- {"web", "web 2"}, MaxVersions <- 3, MaxCalls <- 4, MaxFaults <- 1,
       calls <- catalogCalls

D == INSTANCE VersionDiff WITH
       Class <- {smd, bga}, Default <- {smd}, Shape <- {k1}, FileRole <- {sbt, pod}, File <- {b1},
       Setting <- {"plain", "picked"}, Fresh <- "plain", MaxEdits <- 5,
       binding <- bound

ASSUME A!GrantsAssumption
ASSUME S!ConstantsAssumption
ASSUME C!ConstantsAssumption
ASSUME D!VersionDiffAssumption

Part == {"session", "access", "sign-off", "catalog", "diff"}

StartSideBySide ==
  /\ moving \in Part
  /\ Init /\ A!Init /\ S!Init /\ C!Init /\ D!Init
  /\ moving # "access" => dept = [u \in TheUsers |-> None]

Session_ ==
  moving = "session" /\ Next /\ UNCHANGED <<accessVars, signOffVars, catalogVars, diffVars, moving>>
Access_ ==
  moving = "access" /\ A!Next /\ UNCHANGED <<vars, signOffVars, catalogVars, diffVars, moving>>
SignOff_ ==
  moving = "sign-off" /\ S!Next /\ UNCHANGED <<vars, accessVars, catalogVars, diffVars, moving>>
Catalog_ ==
  moving = "catalog" /\ C!Next /\ UNCHANGED <<vars, accessVars, signOffVars, diffVars, moving>>
Diff_ ==
  moving = "diff" /\ D!Next /\ UNCHANGED <<vars, accessVars, signOffVars, catalogVars, moving>>

OneMoves == Session_ \/ Access_ \/ SignOff_ \/ Catalog_ \/ Diff_

SideBySide == StartSideBySide /\ [][OneMoves]_allVars

Symmetry == Permutations({a1, a2}) \cup Permutations({b1, b2})

-----------------------------------------------------------------------------
(* What the components promise; each is stated and explained in its module. *)

(* Every component's variables have their types. *)
TypesOK ==
  /\ moving = "session" => TypeOK
  /\ moving = "access" => A!TypeOK
  /\ moving = "sign-off" => S!TypeOK
  /\ moving = "catalog" => C!TypeOK
  /\ moving = "diff" => \A v \in D!Version : D!Bound(v) \subseteq {sbt, pod} \X {b1}

(* The rows in force are those with a create and no revoke entry in the    *)
(* audit log, whatever two replicas do side by side (app/auth.py).         *)
AuditExplainsGrants == moving = "access" => A!AuditExplainsGrants

(* A signature and what it covers stay once the calls that met the version  *)
(* unsigned have ended, and its proof is there (app/versions.py).          *)
FreezeHolds == S!FreezeHolds

(* Products, versions and labels fit together, and a clone is complete,    *)
(* whatever two web replicas do side by side (app/versions.py).            *)
CatalogCoherent == C!CatalogCoherent

(* A binding that shows as busy has a job that will end it (app/main.py).  *)
BusyHasJob == moving = "catalog" => C!BusyHasJob

(* Two versions reported as identical are matched alike, and an untouched  *)
(* clone is identical to its source (app/version_diff.py).                 *)
VerdictIsRight == moving = "diff" => D!VerdictIsRight
=============================================================================
