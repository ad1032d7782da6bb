---------------------------- MODULE VersionDiff ----------------------------
(***************************************************************************)
(* The comparison of two versions of a product (app/version_diff.py), of   *)
(* which the second was cloned from the first, and what may be done to     *)
(* either before and after: templates committed, moved and deleted, match  *)
(* strategies set, files bound, unbound and configured.                    *)
(*                                                                         *)
(* A shape stands for a canonical signature; setting stands for the seven  *)
(* fields of a binding the comparison looks at.                            *)
(***************************************************************************)
EXTENDS Naturals, FiniteSets

CONSTANTS
  Class,
  Default,  \* the classes every opened library has
  Shape,
  FileRole,
  File,
  Setting,  \* what the fields of a binding hold
  Fresh,    \* the setting of a file that was just bound
  MaxEdits, \* bound: changes made to the two versions
  None

VersionDiffAssumption ==
  /\ Default \subseteq Class /\ Fresh \in Setting
  /\ MaxEdits \in Nat
  /\ None \notin FileRole \cup {"chamfer", "signature"}

Version == {"from", "to"}
Strategy == {"chamfer", "signature"}
Unbound == [role |-> None, setting |-> Fresh]

VARIABLES
  template, \* template[v]: the rows of v's library
  config,   \* config[v][c]: the strategy of a class, None without a row
  binding,  \* binding[v][f]: the role of a file and its state
  cloned,   \* the second version exists
  touched,  \* a version was changed since
  edits

vars == <<template, config, binding, cloned, touched, edits>>

Init ==
  /\ template = [v \in Version |-> {}]
  /\ config = [v \in Version |-> [c \in Class |-> IF v = "from" /\ c \in Default
                                                  THEN "chamfer" ELSE None]]
  /\ binding = [v \in Version |-> [f \in File |-> Unbound]]
  /\ cloned = FALSE /\ touched = FALSE
  /\ edits = 0

Exists(v) == v = "from" \/ cloned

Edit(v) ==
  /\ Exists(v)
  /\ edits < MaxEdits /\ edits' = edits + 1
  /\ touched' = cloned
  /\ UNCHANGED cloned

(* Rows have keys of their own in the two libraries. *)
NewId == edits
Copies(ts) == {[t EXCEPT !.id = MaxEdits + t.id] : t \in ts}

(* add_class *)
WithClass(v, c) == [config EXCEPT ![v][c] = IF @ = None THEN "chamfer" ELSE @]

(* add_template_for_file: no second row of a class and signature. *)
Commit(v, c, s) ==
  /\ Edit(v)
  /\ config' = WithClass(v, c)
  /\ template' = IF \E t \in template[v] : t.class = c /\ t.shape = s
                 THEN template
                 ELSE [template EXCEPT ![v] = @ \cup {[id |-> NewId, class |-> c, shape |-> s]}]
  /\ UNCHANGED binding

(* move_template, which does not look for one. *)
Move(v, t, c) ==
  /\ Edit(v)
  /\ config' = WithClass(v, c)
  /\ template' = [template EXCEPT ![v] = (@ \ {t}) \cup {[t EXCEPT !.class = c]}]
  /\ UNCHANGED binding

Delete(v, t) ==
  /\ Edit(v)
  /\ template' = [template EXCEPT ![v] = @ \ {t}]
  /\ UNCHANGED <<config, binding>>

SetStrategy(v, c, s) ==
  /\ Edit(v)
  /\ config[v][c] # None
  /\ config' = [config EXCEPT ![v][c] = s]
  /\ UNCHANGED <<template, binding>>

(* bind: INSERT OR REPLACE, so a file has one role in a version. *)
Bind(v, f, r) ==
  /\ Edit(v)
  /\ binding' = [binding EXCEPT ![v][f] = [role |-> r, setting |-> Fresh]]
  /\ UNCHANGED <<template, config>>

Unbind(v, f) ==
  /\ binding[v][f] # Unbound
  /\ Edit(v)
  /\ binding' = [binding EXCEPT ![v][f] = Unbound]
  /\ UNCHANGED <<template, config>>

Configure(v, f, s) ==
  /\ binding[v][f] # Unbound
  /\ Edit(v)
  /\ binding' = [binding EXCEPT ![v][f].setting = s]
  /\ UNCHANGED <<template, config>>

(* create_clone: new keys, the same content. *)
Clone ==
  /\ ~cloned /\ cloned' = TRUE
  /\ template' = [template EXCEPT !["to"] = Copies(template["from"])]
  /\ config' = [config EXCEPT !["to"] = config["from"]]
  /\ binding' = [binding EXCEPT !["to"] = binding["from"]]
  /\ UNCHANGED <<touched, edits>>

Next ==
  \/ Clone
  \/ \E v \in Version :
       \/ \E c \in Class, s \in Shape : Commit(v, c, s)
       \/ \E t \in template[v] : Delete(v, t) \/ (\E c \in Class : Move(v, t, c))
       \/ \E c \in Class, s \in Strategy : SetStrategy(v, c, s)
       \/ \E f \in File : \/ \E r \in FileRole : Bind(v, f, r)
                          \/ Unbind(v, f)
                          \/ \E s \in Setting : Configure(v, f, s)

Spec == Init /\ [][Next]_vars

-----------------------------------------------------------------------------
(* diff_versions, of two versions in either order. *)

(* Mutant: the signature index leaves out the class. *)
KeysOfShape(v) == {t.shape : t \in template[v]}

(* _signature_index *)
Keys(v) == {<<t.class, t.shape>> : t \in template[v]}

Added(v, w) == Keys(w) \ Keys(v)
Removed(v, w) == Keys(v) \ Keys(w)

(* _diff_configs: a class that only one version has counts. *)
Configs(v, w) == {c \in Class : config[v][c] # config[w][c]}

Bound(v) == {<<binding[v][f].role, f>> : f \in {g \in File : binding[v][g] # Unbound}}

(* _diff_bindings: per role and file, and the fields of those in both. *)
Bindings(v, w) ==
  [added |-> Bound(w) \ Bound(v),
   removed |-> Bound(v) \ Bound(w),
   changed |-> {k \in Bound(v) \cap Bound(w) :
                  binding[v][k[2]].setting # binding[w][k[2]].setting}]

Nothing == [added |-> {}, removed |-> {}, changed |-> {}]

Identical(v, w) ==
  /\ Added(v, w) = {} /\ Removed(v, w) = {}
  /\ Configs(v, w) = {}
  /\ Bindings(v, w) = Nothing

-----------------------------------------------------------------------------
(* test_version_diff.py: a clone that nobody changed is identical to its   *)
(* source, whatever was done to the source before.                         *)
UneditedIsIdentical == cloned /\ ~touched => Identical("from", "to")

(* What a save-match of every bound file of a version works with. *)
Input(v) ==
  [hits |-> {<<t.class, t.shape, config[v][t.class]>> : t \in template[v]},
   files |-> {<<f, binding[v][f]>> : f \in {g \in File : binding[v][g].role # None}}]

(* Two versions said to be identical, from either side, are matched with   *)
(* the same templates, strategies and files.                               *)
IdenticalIsAlike ==
  cloned /\ (Identical("from", "to") \/ Identical("to", "from")) => Input("from") = Input("to")

(* A comparison says identical of what was only copied, and of nothing that
   would be matched differently (version_diff.py).                         *)
VerdictIsRight == UneditedIsIdentical /\ IdenticalIsAlike
=============================================================================
