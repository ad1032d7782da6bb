------------------------------ MODULE Catalog ------------------------------
(***************************************************************************)
(* Customers, products and versions (app/versions.py, app/products.py,     *)
(* app/auth.py, app/main.py): creating them, cloning a version with its    *)
(* library and file bindings, and deleting a product with all it owns.     *)
(*                                                                         *)
(* A handler that awaits nothing runs to its end on the event loop of its  *)
(* replica, so a replica has one call at a time; an upload awaits its body *)
(* and others run in between.  Between replicas each SQL statement may     *)
(* interleave.  A transaction reads the latest committed rows (READ        *)
(* COMMITTED, app/db.py) and its own rows show when it commits.  No foreign *)
(* key ties a product to its customer, a version to its product or a       *)
(* binding to its version; classes and templates are tied to a library.    *)
(***************************************************************************)
EXTENDS Integers, FiniteSets

CONSTANTS
  Customer,     \* customers that administrators make; the seed one is not here
  Seed,         \* 'uncategorized', which is never deleted
  Product,
  Label,
  File,         \* content hashes
  Class,        \* classes an editor adds (the default ones are always seeded)
  Replica,
  MaxVersions,  \* bound: versions ever inserted; their ids are in creation order
  MaxCalls,     \* bound: calls ever made
  MaxFaults,    \* bound: replicas that die inside a handler
  None

ConstantsAssumption ==
  /\ MaxVersions \in Nat /\ MaxCalls \in Nat /\ MaxFaults \in Nat
  /\ Seed \notin Customer
  /\ None \notin Customer \cup {Seed} \cup Product \cup Label

VARIABLES
  customer,   \* the customers with a row
  product,    \* product[p]: its customer, or None without a row
  version,    \* version[v]: the rows of versions and libraries
  binding,    \* binding[v][f]: the row of version_files
  artifact,   \* <<v, f>> whose parsed and pre-match blobs exist
  queued,     \* <<v, f>> of preprocess jobs that wait
  running,    \* [<<v, f>> -> step] of those that run
  awaiting,   \* <<v, f>> of uploads admitted, their body not read yet
  call,       \* call[r]: the handler that replica r is running
  born,       \* version ids given out
  retired,    \* products deleted: ids are never used again
  cut,        \* the calls that died with their replica (history)
  calls, faults

rows == <<customer, product, version, binding, retired>>
work == <<artifact, queued, running>>
vars == <<rows, work, awaiting, call, born, cut, calls, faults>>

Version == 1..MaxVersions

NoVersion == [product |-> None, label |-> None, classes |-> {}, templates |-> {}]

Binding == {"none", "busy", "ready"}

NoCall == [step |-> "idle", product |-> None, customer |-> None, label |-> None,
           new |-> 0, source |-> 0, class |-> None, classes |-> {},
           templates |-> {}, files |-> {}, versions |-> {},
           asked |-> [classes |-> {}, templates |-> {}, files |-> {}]]

Steps == {"idle", "drop_customer", "insert_product", "clone_insert",
          "clone_classes", "clone_templates", "clone_bindings", "list_bindings",
          "submit", "list_versions", "cascade", "blobs", "drop_product",
          "add_class", "insert_template", "enqueue"}

Exists(v) == v # 0 /\ version[v].product # None
VersionsOf(p) == {v \in Version : version[v].product = p /\ p # None}
Bound(v) == {f \in File : binding[v][f] # "none"}

Deletes(c, p) ==
  c.product = p /\ c.step \in {"list_versions", "cascade", "blobs", "drop_product"}

Submits(c, v, f) ==
  /\ c.new = v
  /\ c.step = "list_bindings" \/ (c.step \in {"submit", "enqueue"} /\ f \in c.files)

(* What version v consists of, and what a clone call found at its start    *)
(* (asked, history).                                                       *)
Content(v) == [classes |-> version[v].classes, templates |-> version[v].templates,
               files |-> Bound(v)]

(* Every variable keeps its type. *)
TypeOK ==
  /\ customer \subseteq Customer \cup {Seed}
  /\ product \in [Product -> Customer \cup {Seed, None}]
  /\ version \in [Version -> [product : Product \cup {None}, label : Label \cup {None},
                              classes : SUBSET Class, templates : SUBSET Class]]
  /\ binding \in [Version -> [File -> Binding]]
  /\ artifact \subseteq Version \X File
  /\ queued \subseteq Version \X File
  /\ DOMAIN running \subseteq Version \X File
  /\ awaiting \subseteq Version \X File
  /\ \A r \in Replica : call[r].step \in Steps
  /\ born \in 0..MaxVersions
  /\ retired \subseteq Product
  /\ \A c \in cut : c.step \in Steps

Init ==
  /\ customer = {Seed}
  /\ product = [p \in Product |-> None]
  /\ version = [v \in Version |-> NoVersion]
  /\ binding = [v \in Version |-> [f \in File |-> "none"]]
  /\ artifact = {} /\ queued = {} /\ running = <<>> /\ awaiting = {}
  /\ call = [r \in Replica |-> NoCall]
  /\ born = 0 /\ retired = {} /\ cut = {} /\ calls = 0 /\ faults = 0

-----------------------------------------------------------------------------

At(r, step) == call[r].step = step
Goto(r, step) == call' = [call EXCEPT ![r].step = step]
Return(r) == call' = [call EXCEPT ![r] = NoCall]

Admit(r) == At(r, "idle") /\ calls < MaxCalls /\ calls' = calls + 1
Begin(r, c) == Admit(r) /\ call' = [call EXCEPT ![r] = c]

-----------------------------------------------------------------------------
(* Customers.                                                              *)

CreateCustomer(r, c) ==
  /\ Admit(r)
  /\ c \notin customer
  /\ customer' = customer \cup {c}
  /\ UNCHANGED <<product, version, binding, retired, work, awaiting, call, born, cut, faults>>

(* The seed customer is refused first; then list_all is searched.          *)
ListProductsOf(r, c) ==
  /\ c # Seed
  /\ \A p \in Product : product[p] # c
  /\ Begin(r, [NoCall EXCEPT !.step = "drop_customer", !.customer = c])
  /\ UNCHANGED <<rows, work, awaiting, born, cut, faults>>

DropCustomer(r) ==
  /\ At(r, "drop_customer")
  /\ customer' = customer \ {call[r].customer}
  /\ Return(r)
  /\ UNCHANGED <<product, version, binding, retired, work, awaiting, born, calls, cut, faults>>

-----------------------------------------------------------------------------
(* Products.                                                               *)

(* get_customer must find one.                                             *)
RequestProduct(r, p, c, l) ==
  /\ product[p] = None /\ p \notin retired
  /\ \A s \in Replica : call[s].step = "insert_product" => call[s].product # p
  /\ c \in customer
  /\ born < MaxVersions
  /\ Begin(r, [NoCall EXCEPT !.step = "insert_product", !.product = p,
                             !.customer = c, !.label = l])
  /\ UNCHANGED <<rows, work, awaiting, born, cut, faults>>

(* VersionStore.create_product: one transaction for the product, its first
   version and that version's library.                                     *)
InsertProduct(r) ==
  /\ At(r, "insert_product")
  /\ born < MaxVersions
  /\ LET p == call[r].product IN
     /\ product' = [product EXCEPT ![p] = call[r].customer]
     /\ version' = [version EXCEPT ![born + 1] =
                      [NoVersion EXCEPT !.product = p, !.label = call[r].label]]
  /\ born' = born + 1
  /\ Return(r)
  /\ UNCHANGED <<customer, binding, retired, work, awaiting, calls, cut, faults>>

(* DELETE: the product must exist; the files of its versions are noted,
   because their rows will be gone when the blobs are deleted.             *)
RequestDelete(r, p) ==
  /\ product[p] # None
  /\ Begin(r, [NoCall EXCEPT !.step = "list_versions", !.product = p,
                 !.files = {x \in Version \X File :
                              x[1] \in VersionsOf(p) /\ binding[x[1]][x[2]] # "none"}])
  /\ UNCHANGED <<rows, work, awaiting, born, cut, faults>>

(* delete_for_product lists the versions, and deletes what it listed in one
   transaction: bindings, versions, libraries (classes and templates are
   deleted with their library).                                            *)
ListVersions(r) ==
  /\ At(r, "list_versions")
  /\ call' = [call EXCEPT ![r].step = "cascade",
                          ![r].versions = VersionsOf(call[r].product)]
  /\ UNCHANGED <<rows, work, awaiting, born, calls, cut, faults>>

Cascade(r) ==
  /\ At(r, "cascade")
  /\ LET vs == call[r].versions IN
     /\ version' = [v \in Version |-> IF v \in vs THEN NoVersion ELSE version[v]]
     /\ binding' = [v \in Version |-> IF v \in vs THEN [f \in File |-> "none"]
                                                  ELSE binding[v]]
  /\ Goto(r, "blobs")
  /\ UNCHANGED <<customer, product, retired, work, awaiting, born, calls, cut, faults>>

(* Version by version, the keys of the files noted at the start.           *)
DeleteBlobs(r) ==
  /\ At(r, "blobs")
  /\ \/ /\ call[r].versions = {}
        /\ Goto(r, "drop_product")
        /\ UNCHANGED artifact
     \/ \E v \in call[r].versions :
        /\ artifact' = artifact \ {<<v, f>> : f \in {g \in File : <<v, g>> \in call[r].files}}
        /\ call' = [call EXCEPT ![r].versions = @ \ {v}]
  /\ UNCHANGED <<rows, queued, running, awaiting, born, calls, cut, faults>>

DropProduct(r) ==
  /\ At(r, "drop_product")
  /\ product' = [product EXCEPT ![call[r].product] = None]
  /\ retired' = retired \cup {call[r].product}
  /\ Return(r)
  /\ UNCHANGED <<customer, version, binding, work, awaiting, born, calls, cut, faults>>

-----------------------------------------------------------------------------
(* A version as the clone of another (by default the latest).              *)

(* The latest version is the default of clone_from.                        *)
Latest(p) == CHOOSE v \in VersionsOf(p) : \A w \in VersionsOf(p) : w <= v

RequestClone(r, p, l, default) ==
  /\ product[p] # None
  /\ VersionsOf(p) # {}
  /\ \E s \in IF default THEN {Latest(p)} ELSE VersionsOf(p) :
       Begin(r, [NoCall EXCEPT !.step = "clone_insert", !.product = p, !.label = l,
                               !.source = s, !.asked = Content(s)])
  /\ UNCHANGED <<rows, work, awaiting, born, cut, faults>>

CloneSteps == {"clone_classes", "clone_templates", "clone_bindings"}

(* create_clone, statement by statement.  The insert of a label taken fails
   (DuplicateLabel); one that an open transaction took waits for its end.  *)
CloneInsert(r) ==
  /\ At(r, "clone_insert")
  /\ \A s \in Replica : call[s].step \in CloneSteps =>
       <<call[s].product, call[s].label>> # <<call[r].product, call[r].label>>
  /\ IF \E v \in VersionsOf(call[r].product) : version[v].label = call[r].label
     THEN Return(r) /\ UNCHANGED born
     ELSE /\ born < MaxVersions
          /\ born' = born + 1
          /\ call' = [call EXCEPT ![r].step = "clone_classes", ![r].new = born + 1]
  /\ UNCHANGED <<rows, work, awaiting, calls, cut, faults>>

CloneClasses(r) ==
  /\ At(r, "clone_classes")
  /\ call' = [call EXCEPT ![r].step = "clone_templates",
                          ![r].classes = version[call[r].source].classes]
  /\ UNCHANGED <<rows, work, awaiting, born, calls, cut, faults>>

CloneTemplates(r) ==
  /\ At(r, "clone_templates")
  /\ call' = [call EXCEPT ![r].step = "clone_bindings",
                          ![r].templates = version[call[r].source].templates]
  /\ UNCHANGED <<rows, work, awaiting, born, calls, cut, faults>>

(* Mutant: the templates are copied without their classes.                 *)
CloneBindingsNoClasses(r) ==
  /\ At(r, "clone_bindings")
  /\ version' = [version EXCEPT ![call[r].new] =
                   [product |-> call[r].product, label |-> call[r].label,
                    classes |-> {}, templates |-> call[r].templates]]
  /\ binding' = [binding EXCEPT ![call[r].new] =
                   [f \in File |-> IF binding[call[r].source][f] = "none"
                                   THEN "none" ELSE "busy"]]
  /\ Goto(r, "list_bindings")
  /\ UNCHANGED <<customer, product, retired, work, awaiting, born, calls, cut, faults>>

(* Every binding starts over as 'preprocessing'; the transaction commits.  *)
CloneBindings(r) ==
  /\ At(r, "clone_bindings")
  /\ version' = [version EXCEPT ![call[r].new] =
                   [product |-> call[r].product, label |-> call[r].label,
                    classes |-> call[r].classes, templates |-> call[r].templates]]
  /\ binding' = [binding EXCEPT ![call[r].new] =
                   [f \in File |-> IF binding[call[r].source][f] = "none"
                                   THEN "none" ELSE "busy"]]
  /\ Goto(r, "list_bindings")
  /\ UNCHANGED <<customer, product, retired, work, awaiting, born, calls, cut, faults>>

(* Mutant: the last binding of the clone is not listed.                    *)
ListBindingsButOne(r) ==
  /\ At(r, "list_bindings")
  /\ \E f \in Bound(call[r].new) :
       call' = [call EXCEPT ![r].step = "submit", ![r].files = Bound(call[r].new) \ {f}]
  /\ UNCHANGED <<rows, work, awaiting, born, calls, cut, faults>>

(* LIBRARIES.get is a KeyError when the version was deleted meanwhile.     *)
ListBindings(r) ==
  /\ At(r, "list_bindings")
  /\ IF Exists(call[r].new)
     THEN call' = [call EXCEPT ![r].step = "submit", ![r].files = Bound(call[r].new)]
     ELSE Return(r)
  /\ UNCHANGED <<rows, work, awaiting, born, calls, cut, faults>>

(* One job row per binding, one transaction each.                          *)
Submit(r) ==
  /\ At(r, "submit")
  /\ \/ call[r].files = {} /\ Return(r) /\ UNCHANGED queued
     \/ \E f \in call[r].files :
        /\ queued' = queued \cup {<<call[r].new, f>>}
        /\ call' = [call EXCEPT ![r].files = @ \ {f}]
  /\ UNCHANGED <<rows, artifact, running, awaiting, born, calls, cut, faults>>

-----------------------------------------------------------------------------
(* What else changes the rows a clone reads or a deletion removes.         *)

(* A commit into a class: its row first (INSERT OR IGNORE) ...             *)
RequestCommit(r, v, c) ==
  /\ Exists(v)
  /\ Begin(r, [NoCall EXCEPT !.step = IF c \in version[v].classes
                                      THEN "insert_template" ELSE "add_class",
                             !.new = v, !.class = c])
  /\ UNCHANGED <<rows, work, awaiting, born, cut, faults>>

(* ... each insert refused by the foreign key once the library is gone.    *)
AddClass(r) ==
  /\ At(r, "add_class")
  /\ IF Exists(call[r].new)
     THEN /\ version' = [version EXCEPT ![call[r].new].classes = @ \cup {call[r].class}]
          /\ Goto(r, "insert_template")
     ELSE Return(r) /\ UNCHANGED version
  /\ UNCHANGED <<customer, product, binding, retired, work, awaiting, born, calls, cut, faults>>

InsertTemplate(r) ==
  /\ At(r, "insert_template")
  /\ IF Exists(call[r].new)
     THEN version' = [version EXCEPT ![call[r].new].templates = @ \cup {call[r].class}]
     ELSE UNCHANGED version
  /\ Return(r)
  /\ UNCHANGED <<customer, product, binding, retired, work, awaiting, born, calls, cut, faults>>

(* An upload finds the version, then awaits its body.                      *)
RequestUpload(r, v, f) ==
  /\ Admit(r)
  /\ Exists(v)
  /\ awaiting' = awaiting \cup {<<v, f>>}
  /\ UNCHANGED <<rows, work, call, born, cut, faults>>

(* FileStore.bind, without a look at the version.  The layer dialogue that
   follows is FilePipeline's; here the drawing is preprocessed at once
   (skip_layer_pick).                                                      *)
Bind(r, v, f) ==
  /\ At(r, "idle")
  /\ <<v, f>> \in awaiting
  /\ awaiting' = awaiting \ {<<v, f>>}
  /\ binding' = [binding EXCEPT ![v][f] = "busy"]
  /\ call' = [call EXCEPT ![r] = [NoCall EXCEPT !.step = "enqueue", !.new = v,
                                                !.files = {f}]]
  /\ UNCHANGED <<customer, product, version, retired, work, born, calls, cut, faults>>

Enqueue(r) ==
  /\ At(r, "enqueue")
  /\ queued' = queued \cup {<<call[r].new, f>> : f \in call[r].files}
  /\ Return(r)
  /\ UNCHANGED <<rows, artifact, running, awaiting, born, calls, cut, faults>>

(* A worker: the job reads the upload (never deleted) and a library (empty
   when it is gone), puts its blobs, and updates the binding if there is
   one.                                                                    *)
Claim(j) ==
  /\ j \in queued /\ j \notin DOMAIN running
  /\ queued' = queued \ {j}
  /\ running' = [k \in DOMAIN running \cup {j} |-> IF k = j THEN "put" ELSE running[k]]
  /\ UNCHANGED <<rows, artifact, awaiting, call, born, calls, cut, faults>>

PutArtifacts(j) ==
  /\ j \in DOMAIN running /\ running[j] = "put"
  /\ artifact' = artifact \cup {j}
  /\ running' = [running EXCEPT ![j] = "apply"]
  /\ UNCHANGED <<rows, queued, awaiting, call, born, calls, cut, faults>>

ApplySuccess(j) ==
  /\ j \in DOMAIN running /\ running[j] = "apply"
  /\ binding' = [binding EXCEPT ![j[1]][j[2]] = IF @ = "none" THEN "none" ELSE "ready"]
  /\ running' = [k \in DOMAIN running \ {j} |-> running[k]]
  /\ UNCHANGED <<customer, product, version, retired, artifact, queued, awaiting,
                 call, born, calls, cut, faults>>

Crash(r) ==
  /\ ~At(r, "idle")
  /\ faults < MaxFaults
  /\ faults' = faults + 1
  /\ cut' = cut \cup {call[r]}
  /\ Return(r)
  /\ UNCHANGED <<rows, work, awaiting, born, calls>>

-----------------------------------------------------------------------------

AdminCall(r) ==
  \/ \E c \in Customer : CreateCustomer(r, c) \/ ListProductsOf(r, c)
  \/ DropCustomer(r)
  \/ \E p \in Product, c \in Customer \cup {Seed}, l \in Label : RequestProduct(r, p, c, l)
  \/ InsertProduct(r)
  \/ \E p \in Product : RequestDelete(r, p)
  \/ ListVersions(r) \/ Cascade(r) \/ DeleteBlobs(r) \/ DropProduct(r)

EditorCall(r) ==
  \/ \E p \in Product, l \in Label, d \in BOOLEAN : RequestClone(r, p, l, d)
  \/ CloneInsert(r) \/ CloneClasses(r) \/ CloneTemplates(r) \/ CloneBindings(r)
  \/ ListBindings(r) \/ Submit(r)
  \/ \E v \in Version, c \in Class : RequestCommit(r, v, c)
  \/ AddClass(r) \/ InsertTemplate(r)
  \/ \E v \in Version, f \in File : RequestUpload(r, v, f) \/ Bind(r, v, f)
  \/ Enqueue(r)

Work(j) == Claim(j) \/ PutArtifacts(j) \/ ApplySuccess(j)

Next ==
  \/ \E r \in Replica : AdminCall(r) \/ EditorCall(r) \/ Crash(r)
  \/ \E j \in Version \X File : Work(j)

Spec == Init /\ [][Next]_vars

-----------------------------------------------------------------------------
(* Properties.                                                             *)

(* The calls under way, and those cut off: nothing takes them up again. *)
Unfinished == {call[r] : r \in Replica} \cup cut

(* "C7: no version-less products": whatever two replicas create, clone and
   delete side by side, a product without a version has a deletion that is
   half-way, or that died between its cascade and its last DELETE.         *)
ProductHasVersion ==
  \A p \in Product : product[p] # None => \/ VersionsOf(p) # {}
                                          \/ \E c \in Unfinished : Deletes(c, p)

(* Two replicas never give one label to two versions of a product.         *)
LabelsUnique ==
  \A p \in Product : \A v, w \in VersionsOf(p) :
    version[v].label = version[w].label => v = w

(* The clone is "in a single transaction", which under READ COMMITTED is
   not a single moment: commits to the source and uploads in between may
   come along or not, a template without its class even.  But what the
   source had when the clone was asked for it gets, all three parts of it,
   unless its product is deleted.                                          *)
CloneIsComplete ==
  [][\A r \in Replica :
       At(r, "clone_bindings") /\ version'[call[r].new].product # None
       => \/ call[r].product \in retired \/ \E c \in Unfinished : Deletes(c, call[r].product)
          \/ \A part \in DOMAIN call[r].asked :
                call[r].asked[part] \subseteq Content(call[r].new)'[part]]_vars

(* The rows of the catalogue fit together, though no foreign key makes them. *)
CatalogCoherent == [](ProductHasVersion /\ LabelsUnique) /\ CloneIsComplete

(* A clone's binding, or an upload's, is busy only while its job waits or
   runs: whatever two replicas clone, upload and delete meanwhile, unless
   the call that was to submit the job has not come to it, or died before. *)
BusyHasJob ==
  \A v \in Version, f \in File :
    binding[v][f] = "busy" => \/ <<v, f>> \in queued \cup DOMAIN running
                             \/ \E c \in Unfinished : Submits(c, v, f)

=============================================================================
