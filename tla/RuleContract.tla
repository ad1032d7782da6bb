---------------------------- MODULE RuleContract ----------------------------
(***************************************************************************)
(* The envelope check on what the external rule function returns           *)
(* (app/rule_check.py), over every sub-rule an emitter can build by        *)
(* setting one field after the other.  A value is one of the kinds the     *)
(* checks tell apart: absent or null (None), a string (Empty or a Handle), *)
(* a list of such, a point, a pair with a number that is not finite, and   *)
(* anything else (Wrong).                                                  *)
(***************************************************************************)
EXTENDS Naturals, FiniteSets

CONSTANTS
  Handle,   \* non-empty strings: handles, file ids and messages
  Empty,    \* the empty string
  Point,    \* a pair of finite numbers
  BadPoint, \* a pair with a boolean, an infinity or a NaN
  Wrong,    \* a value of another type
  None,
  MaxSet    \* bound: fields the emitter sets

RuleContractAssumption ==
  /\ {Empty, Point, BadPoint, Wrong, None} \cap Handle = {}
  /\ Handle # {} /\ MaxSet \in Nat

VARIABLES
  sub,  \* a sub-rule
  rule  \* the rule around it

vars == <<sub, rule>>

Strings == Handle \cup {Empty}
(* Lists by their set of elements: the checks look at no order. *)
Lists(S) == [items : SUBSET S]

ValueOf == [
  part |-> {"SBT", "elsewhere"},
  text |-> Strings \cup {Wrong, None},
  file_id |-> Strings \cup {Wrong, None},
  from |-> Strings \cup {Wrong, None},
  from_entity |-> Strings \cup {Wrong, None},
  to |-> Strings \cup {Wrong, None} \cup Lists(Strings \cup {Wrong}),
  tol |-> Strings \cup {Wrong, None},
  tol_text |-> Strings \cup {Wrong, None},
  from_coordinates |-> {Point, BadPoint, Wrong, None},
  to_coordinates |-> {Point, BadPoint, Wrong, None},
  to_entity |-> {Wrong, None} \cup Lists({Point, BadPoint})]

Field == {"part", "text", "file_id", "from", "from_entity", "to", "tol", "tol_text",
          "from_coordinates", "to_coordinates", "to_entity"}

(* Every variable keeps its type. *)
TypeOK ==
  /\ LET values == ValueOf
     IN  DOMAIN sub = DOMAIN values /\ \A k \in DOMAIN values : sub[k] \in values[k]
  /\ rule \in [pass : {"bool", Wrong, None}, text : {"str", Wrong, None}, rules : {"list", Wrong, None}]

Blank == [k \in Field |-> IF k = "part" THEN "SBT" ELSE None]
Sound == [pass |-> "bool", text |-> "str", rules |-> "list"]

Init ==
  /\ sub = Blank
  /\ rule = Sound

-----------------------------------------------------------------------------
IsList(v) == v \notin Strings \cup {Wrong, None}

(* _typed_handle: the empty string passes. *)
TypedHandle(s, k) == s[k] \in Strings \cup {None}

(* _typed_to *)
TypedTo(s) == \/ s.to \in Strings \cup {None}
              \/ IsList(s.to) /\ s.to.items # {} /\ s.to.items \subseteq Handle

(* _typed_point, with _is_number. *)
TypedPoint(s, k) == s[k] \in {Point, None}

(* _typed_point_list *)
TypedPointList(s) == \/ s.to_entity = None
                     \/ IsList(s.to_entity) /\ s.to_entity.items = {Point}

(* _has_to_value, of a `to` that passed TypedTo. *)
HasTo(s) == s.to # None

(* The alias rule of _validate_sub_rule. *)
EffectiveFrom(s) == IF s.from # None THEN s.from ELSE s.from_entity

(* Mutant: coordinates need a file_id, too. *)
AnyGeometry(s) == EffectiveFrom(s) # None \/ HasTo(s) \/ s.tol # None \/ s.from_coordinates # None

(* What needs a file_id. *)
HasHandle(s) == EffectiveFrom(s) # None \/ HasTo(s) \/ s.tol # None

(* _validate_sub_rule: no check raises. *)
ValidSubRule(s) ==
  /\ s.part = "SBT"
  /\ s.text \in Handle
  /\ s.file_id \in Strings \cup {None}
  /\ TypedHandle(s, "from") /\ TypedHandle(s, "from_entity")
  /\ s.from # None /\ s.from_entity # None => s.from = s.from_entity
  /\ TypedTo(s)
  /\ TypedHandle(s, "tol")
  /\ s.tol_text \in Strings \cup {None}
  /\ TypedPoint(s, "from_coordinates") /\ TypedPoint(s, "to_coordinates")
  /\ (s.from_coordinates = None) = (s.to_coordinates = None)
  /\ TypedPointList(s)
  /\ HasTo(s) => EffectiveFrom(s) # None
  /\ s.tol_text # None => s.tol # None
  /\ HasHandle(s) => s.file_id # None

(* _validate_rule, with one sub-rule: keys first, then types. *)
ValidRule(r, s) ==
  /\ \A k \in DOMAIN r : r[k] # None
  /\ r.pass = "bool" /\ r.text = "str" /\ r.rules = "list"
  /\ ValidSubRule(s)

-----------------------------------------------------------------------------
(* The emitter, outside the repository: it fills in a sub-rule, and may    *)
(* spoil the rule around one that passes.                                  *)
SetField(k, v) ==
  /\ rule = Sound
  /\ sub[k] = Blank[k]
  /\ Cardinality({g \in DOMAIN sub : sub[g] # Blank[g]}) < MaxSet
  /\ sub' = [sub EXCEPT ![k] = v]
  /\ UNCHANGED rule

SpoilRule(k, v) ==
  /\ rule = Sound /\ ValidSubRule(sub)
  /\ rule' = [rule EXCEPT ![k] = v]
  /\ UNCHANGED sub

Next == \/ LET values == ValueOf
           IN  \E k \in DOMAIN values : \E v \in values[k] : SetField(k, v)
        \/ \E k \in DOMAIN rule, v \in {Wrong, None} : SpoilRule(k, v)

Spec == Init /\ [][Next]_vars

-----------------------------------------------------------------------------
(* rule_check.py:75: from_entity is an alias of from, so that writing one  *)
(* for the other changes no verdict.                                       *)
AliasInterchangeable ==
  ValidSubRule(sub)
  = ValidSubRule([sub EXCEPT !.from = sub.from_entity, !.from_entity = sub.from])

HandleGroup == {"file_id", "from", "from_entity", "to", "tol", "tol_text"}
PointGroup == {"from_coordinates", "to_coordinates", "to_entity"}

Without(s, fields) == [k \in DOMAIN s |-> IF k \in fields THEN None ELSE s[k]]

(* rule_check.py:65-68: a sub-rule carries a handle group, a coordinate    *)
(* group, both or neither: it is valid just when each group is alone.      *)
GroupsIndependent ==
  ValidSubRule(sub) <=> /\ ValidSubRule(Without(sub, HandleGroup))
                        /\ ValidSubRule(Without(sub, PointGroup))

(* What the viewer draws of a valid result it can resolve: a line has both *)
(* ends, a handle has its file, an outline has points, a label its entity; *)
(* and the rule that holds it says whether it passed.                      *)
ValidIsDrawable ==
  ValidRule(rule, sub) =>
    /\ \A k \in {"from", "from_entity", "to", "tol"} : sub[k] # None => sub.file_id \in Strings
    /\ sub.to # None => {sub.from, sub.from_entity} \cap Strings # {}
    /\ IsList(sub.to) => sub.to.items \cap Handle # {}
    /\ IsList(sub.to_entity) => sub.to_entity.items = {Point}
    /\ sub.from_coordinates = Point <=> sub.to_coordinates = Point
    /\ sub.tol_text # None => sub.tol \in Strings
    /\ rule.pass = "bool"

(* The contract takes an alias for its name, judges the groups alone and
   lets through what can be drawn (rule_check.py).                         *)
ContractIsFair == AliasInterchangeable /\ GroupsIndependent /\ ValidIsDrawable
=============================================================================
