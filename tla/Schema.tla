------------------------------- MODULE Schema -------------------------------
(***************************************************************************)
(* How a process brings the database to the schema of its code while it    *)
(* starts (app/dbschema.py, the stores' constructors): the guard that      *)
(* rebuilds a database from before the versions, then, store by store in   *)
(* the order of the imports, CREATE TABLE IF NOT EXISTS and the columns    *)
(* that were added since.  On MariaDB the tables are Alembic's.            *)
(*                                                                         *)
(* A table stands for those a store creates together, and is absent,       *)
(* legacy (from before the versions), older (without an added column) or   *)
(* current.  SQLite commits each DDL statement of its own.                 *)
(***************************************************************************)
EXTENDS Naturals, Sequences

CONSTANTS
  Process,
  Sqlite,   \* the engine is SQLite, else MariaDB
  Database  \* the databases a first process may find

SchemaAssumption ==
  /\ Sqlite \in BOOLEAN
  /\ Database \subseteq {"fresh", "legacy", "older", "current"}

Stores == <<"files", "libraries", "products", "versions">>
Table == {Stores[i] : i \in DOMAIN Stores}
KnownTables == <<"libraries", "files", "products", "versions">>
(* The tables that got a column since. *)
Grown == {"libraries", "products", "versions"}

VARIABLES
  table, \* table[t]
  rows,  \* the tables that hold rows of the versioned schema
  boot   \* boot[p]: what the process does next

vars == <<table, rows, boot>>

Down == [at |-> "down", n |-> 0]
Step(at, n) == [at |-> at, n |-> n]

Found(d) ==
  [t \in Table |->
     CASE d = "fresh" -> "absent"
       [] d = "legacy" -> IF t = "versions" THEN "absent" ELSE "legacy"
       [] d = "older" -> IF t \in Grown THEN "older" ELSE "current"
       [] OTHER -> "current"]

Init ==
  \E d \in Database :
    /\ table = Found(d)
    /\ rows = IF d \in {"older", "current"} THEN Table ELSE {}
    /\ boot = [p \in Process |-> Down]

-----------------------------------------------------------------------------
(* The guard, once a process. *)

(* Mutant: any table of an earlier release counts as legacy. *)
IsOfAnotherVersion == \E t \in Table : table[t] \in {"legacy", "older"}

(* Some known table, and no versions or a column of the old schema. *)
IsLegacy ==
  /\ \E t \in Table : table[t] # "absent"
  /\ table["versions"] = "absent" \/ \E t \in Table : table[t] = "legacy"

(* ensure_versioned_schema: MariaDB is left alone. *)
Guard(p) ==
  /\ boot[p] = Down
  /\ boot' = [boot EXCEPT ![p] =
                IF Sqlite /\ IsLegacy THEN Step("drop", 1) ELSE Step("create", 1)]
  /\ UNCHANGED <<table, rows>>

(* DROP TABLE IF EXISTS, one table after the other. *)
Drop(p) ==
  /\ boot[p].at = "drop"
  /\ LET t == KnownTables[boot[p].n]
     IN  table' = [table EXCEPT ![t] = "absent"] /\ rows' = rows \ {t}
  /\ boot' = [boot EXCEPT ![p] =
                IF boot[p].n < Len(KnownTables) THEN Step("drop", boot[p].n + 1)
                ELSE Step("create", 1)]

-----------------------------------------------------------------------------
(* The stores. *)

(* What a store creates if it is not there; VersionStore the library too. *)
Schema(store) == {store} \cup (IF store = "versions" THEN {"libraries"} ELSE {})
AfterStore(n) == IF n < Len(Stores) THEN Step("create", n + 1) ELSE Step("up", 0)

(* executescript, which runs on SQLite only. *)
Create(p) ==
  /\ boot[p].at = "create"
  /\ LET store == Stores[boot[p].n]
     IN  /\ table' = [t \in Table |->
                        IF Sqlite /\ t \in Schema(store) /\ table[t] = "absent" THEN "current"
                        ELSE table[t]]
         /\ boot' = [boot EXCEPT ![p] =
                       IF store \in Grown THEN Step("probe", boot[p].n) ELSE AfterStore(boot[p].n)]
  /\ UNCHANGED rows

(* Mutant: a missing column is never noticed. *)
ProbeNothing(store) == FALSE

(* PRAGMA table_info misses the column; on MariaDB the statement is left   *)
(* out and gives no column at all.  ProductStore and VersionStore do not   *)
(* ask there, Store does.                                                  *)
Misses(store) ==
  IF Sqlite THEN table[store] = "older" ELSE store = "libraries"

Probe(p) ==
  /\ boot[p].at = "probe"
  /\ boot' = [boot EXCEPT ![p] =
                IF Misses(Stores[boot[p].n]) THEN Step("alter", boot[p].n)
                ELSE AfterStore(boot[p].n)]
  /\ UNCHANGED <<table, rows>>

(* ALTER TABLE ADD COLUMN, which fails if the column or no table is there. *)
Alter(p) ==
  /\ boot[p].at = "alter"
  /\ LET store == Stores[boot[p].n]
     IN  IF table[store] = "older"
         THEN /\ table' = [table EXCEPT ![store] = "current"]
              /\ boot' = [boot EXCEPT ![p] = AfterStore(boot[p].n)]
         ELSE /\ boot' = [boot EXCEPT ![p] = Step("failed", 0)]
              /\ UNCHANGED table
  /\ UNCHANGED rows

-----------------------------------------------------------------------------
(* A process that is up lets users write. *)
Write(p, t) ==
  /\ boot[p].at = "up" /\ table[t] # "absent"
  /\ rows' = rows \cup {t}
  /\ UNCHANGED <<table, boot>>

Crash(p) ==
  /\ boot[p] # Down
  /\ boot' = [boot EXCEPT ![p] = Down]
  /\ UNCHANGED <<table, rows>>

Next ==
  \E p \in Process :
    \/ Guard(p) \/ Drop(p) \/ Create(p) \/ Probe(p) \/ Alter(p) \/ Crash(p)
    \/ \E t \in Table : Write(p, t)

Spec == Init /\ [][Next]_vars

-----------------------------------------------------------------------------
Boots ==
  {Down, Step("up", 0), Step("failed", 0)}
    \cup {Step(at, n) : at \in {"drop", "create", "probe", "alter"}, n \in DOMAIN Stores}

(* Every variable keeps its type. *)
TypeOK ==
  /\ table \in [Table -> {"absent", "legacy", "older", "current"}]
  /\ rows \in SUBSET {t \in Table : table[t] # "absent"}
  /\ boot \in [Process -> Boots]

(* The rebuild is for databases from before the versions: whatever is      *)
(* stored since is never dropped, in whatever order processes start.       *)
RowsKept == [][rows \subseteq rows']_vars

(* Once a process is up, every table has the shape its code expects, from  *)
(* whichever database and after whichever crashes.                         *)
Ready == \A p \in Process : boot[p].at = "up" => \A t \in Table : table[t] = "current"
=============================================================================
