----------------------------- MODULE MatchJson -----------------------------
(***************************************************************************)
(* How a save-match turns the matches of each template into the Match JSON *)
(* (app/side_regions.py and the loop of jobs._save_match_worker): each     *)
(* match goes to the view its centre lies in, classes that cannot be in    *)
(* that view lose it, and within a class a match contained in a fuller one *)
(* is suppressed.                                                          *)
(*                                                                         *)
(* The sheet has one axis, since both are treated alike: an entity is an   *)
(* interval, a view rectangle is a pair of bounds.  Positions are doubled  *)
(* so that a centre is an integer.                                         *)
(***************************************************************************)
EXTENDS Integers, FiniteSets, FiniteSetsExt, Sequences, SequencesExt

CONSTANTS
  Handle,
  Extent,       \* Extent[h]: the entity's points, as <<low, high>>
  Class,
  AllowedViews, \* CLASS_VIEW_CONSTRAINTS: a set of views, or None
  MaxIdx,       \* bound: templates of a class
  MaxMatches,   \* bound: matches of a template
  Corner,       \* the rectangles an operator may draw, in any direction
  None

View == {"top_view", "bottom_view", "side_view"}

SheetAssumption ==
  /\ \A h \in Handle : Extent[h][1] <= Extent[h][2]
  /\ \A c \in Class : AllowedViews[c] = None \/ AllowedViews[c] \subseteq View
  /\ Corner \subseteq Int \X Int
  /\ MaxIdx \in Nat /\ MaxMatches \in Nat

VARIABLES
  rect,       \* rect[v]: the normalised rectangle of a view, or None
  out,        \* the instances emitted so far, in order
  count,      \* side_counts
  total,      \* total_matches
  suppressed, \* suppressed_count
  full,       \* out as the matching loop left it
  step        \* "drawing", "matching", "done"; with the templates done

vars == <<rect, out, count, total, suppressed, full, step>>

Bucket == View \cup {"unassigned", "dropped"}

Init ==
  /\ rect = [v \in View |-> None]
  /\ out = <<>>
  /\ count = [b \in Bucket |-> 0]
  /\ total = 0
  /\ suppressed = 0
  /\ full = <<>>
  /\ step = [phase |-> "drawing", done |-> {}]

(* normalise_rect: the corners in order, whichever way they were drawn. *)
Normalised(p) == <<Min({p[1], p[2]}), Max({p[1], p[2]})>>

(* point_in_rect: closed, and nothing lies in a rectangle not drawn. *)
InRect(x, r) == r # None /\ 2 * r[1] <= x /\ x <= 2 * r[2]

(* _bbox_center, doubled. *)
Centre(hs) == Min({Extent[h][1] : h \in hs}) + Max({Extent[h][2] : h \in hs})

(* side_prefix_for: the first view, in this order, that has the centre. *)
ViewOf(hs) ==
  IF hs = {} THEN None
  ELSE IF InRect(Centre(hs), rect["top_view"]) THEN "top_view"
  ELSE IF InRect(Centre(hs), rect["bottom_view"]) THEN "bottom_view"
  ELSE IF InRect(Centre(hs), rect["side_view"]) THEN "side_view"
  ELSE None

(* library.is_allowed_view: a constrained class is nowhere outside views. *)
Allowed(c, v) == AllowedViews[c] = None \/ v \in AllowedViews[c]

(* split_matches_by_side, for the matches ms of template i of class c. *)
Split(c, i, ms) ==
  LET kept == SelectSeq(ms, LAMBDA hs : Allowed(c, ViewOf(hs)))
  IN  [k \in DOMAIN kept |-> [class |-> c, idx |-> i, view |-> ViewOf(kept[k]),
                              handles |-> kept[k]]]

BucketOf(c, hs) == IF ~Allowed(c, ViewOf(hs)) THEN "dropped"
                   ELSE IF ViewOf(hs) = None THEN "unassigned" ELSE ViewOf(hs)

(* patch_side_regions, before the save. *)
Draw(v, p) ==
  /\ step.phase = "drawing"
  /\ rect' = [rect EXCEPT ![v] = Normalised(p)]
  /\ UNCHANGED <<out, count, total, suppressed, full, step>>

StartMatching ==
  /\ step.phase = "drawing"
  /\ step' = [step EXCEPT !.phase = "matching"]
  /\ UNCHANGED <<rect, out, count, total, suppressed, full>>

(* A constrained class none of whose views was drawn is not scanned. *)
Skipped(c) == AllowedViews[c] # None /\ \A v \in AllowedViews[c] : rect[v] = None

SkipClass(c) ==
  /\ step.phase = "matching"
  /\ Skipped(c)
  /\ <<c, 0>> \notin step.done
  /\ step' = [step EXCEPT !.done = @ \cup {c} \X (0..MaxIdx)]
  /\ UNCHANGED <<rect, out, count, total, suppressed, full>>

(* The loop body: templates of a class in the order of their index. *)
MatchTemplate(c, i, ms) ==
  /\ step.phase = "matching"
  /\ ~Skipped(c)
  /\ <<c, i>> \notin step.done
  /\ \A j \in 0..(i - 1) : <<c, j>> \in step.done
  /\ out' = out \o Split(c, i, ms)
  /\ count' = [b \in Bucket |-> count[b] + Cardinality({k \in DOMAIN ms : BucketOf(c, ms[k]) = b})]
  /\ total' = total + Len(ms)
  /\ step' = [step EXCEPT !.done = @ \cup {<<c, i>>}]
  /\ UNCHANGED <<rect, suppressed, full>>

-----------------------------------------------------------------------------
(* suppress_contained_matches.  An instance is named by its place in out.  *)
(* Equal sets have equal centres, hence one view, so that within a class   *)
(* and an index their order in out is that of key and position.            *)

Pool(c) == {k \in DOMAIN out : out[k].class = c /\ out[k].handles # {}}

Before(k, l) == out[k].idx < out[l].idx \/ (out[k].idx = out[l].idx /\ k < l)
(* One representative of each handle set: of the earliest template. *)
Representatives(c) ==
  {k \in Pool(c) : \A l \in Pool(c) \ {k} : out[l].handles = out[k].handles => Before(k, l)}

WithHandle(c, h) == {k \in Representatives(c) : h \in out[k].handles}

(* The rarest handle; Python takes any of the rarest. *)
IsRarest(c, k, h) ==
  /\ h \in out[k].handles
  /\ \A g \in out[k].handles :
       Cardinality(WithHandle(c, h)) <= Cardinality(WithHandle(c, g))

ContainedIn(c, k, h) ==
  \E l \in WithHandle(c, h) \ {k} :
    out[k].handles \subseteq out[l].handles /\ out[k].handles # out[l].handles
(* Mutant: a copy that only overlaps a larger one is dropped as well. *)
OverlapsOther(c, k) ==
  \E l \in Representatives(c) \ {k} :
    /\ out[k].handles \cap out[l].handles # {}
    /\ Cardinality(out[k].handles) <= Cardinality(out[l].handles)

(* Only the bucket of the rarest handle is searched for a superset. *)
Contained(c, k) == \E h \in Handle : IsRarest(c, k, h) /\ ContainedIn(c, k, h)

Removed ==
  UNION {(Pool(c) \ Representatives(c)) \cup {k \in Representatives(c) : Contained(c, k)} :
         c \in Class}

(* What is left, in its order, with the keys left empty dropped. *)
Survivors ==
  LET left  == DOMAIN out \ Removed
      place == SetToSortSeq(left, LAMBDA a, b : a < b)
  IN  [n \in DOMAIN place |-> out[place[n]]]

InView(s, v) == Cardinality({k \in DOMAIN s : s[k].view = v})

(* The rest of the job: suppression, recounting and put_json. *)
Save ==
  /\ step.phase = "matching"
  /\ step.done = Class \X (0..MaxIdx)
  /\ full' = out
  /\ out' = Survivors
  /\ suppressed' = Len(out) - Len(out')
  /\ count' = [b \in Bucket |-> CASE b = "dropped" -> count[b]
                                  [] b = "unassigned" -> InView(out', None)
                                  [] OTHER -> InView(out', b)]
  /\ step' = [step EXCEPT !.phase = "done"]
  /\ UNCHANGED <<rect, total>>

Next ==
  \/ \E v \in View, p \in Corner : Draw(v, p)
  \/ StartMatching
  \/ \E c \in Class : SkipClass(c)
  \/ \E c \in Class, i \in 0..MaxIdx : \E ms \in BoundedSeq(SUBSET Handle \ {{}}, MaxMatches) :
       MatchTemplate(c, i, ms)
  \/ Save

Spec == Init /\ [][Next]_vars

-----------------------------------------------------------------------------
Done == step.phase = "done"

(* The instances are well formed, the rectangles in order. *)
TypeOK ==
  /\ \A v \in View : rect[v] = None \/ rect[v][1] <= rect[v][2]
  /\ \A k \in DOMAIN out : /\ out[k].class \in Class /\ out[k].idx \in 0..MaxIdx
                           /\ out[k].view \in View \cup {None}
                           /\ out[k].handles \subseteq Handle
  /\ count \in [Bucket -> Nat] /\ total \in Nat /\ suppressed \in Nat

(* contained-match-suppression/spec.md: raw matches are the survivors, the *)
(* dropped and the suppressed, whatever views were drawn.                  *)
CountsAddUp ==
  Done => /\ total = FoldSet(LAMBDA b, n : count[b] + n, 0, Bucket) + suppressed
          /\ Len(out) = total - count["dropped"] - suppressed

(* Each physical feature is recorded once: no instance left in a class is  *)
(* within another, also when a rectangle's edge put them in two views.     *)
OnePerFeature ==
  Done => \A k, l \in DOMAIN out :
            k # l /\ out[k].class = out[l].class => ~(out[k].handles \subseteq out[l].handles)

(* Suppression loses no entity: the overlay's union of a class is the same *)
(* with and without it, which is why scan-all needs none.                  *)
UnionKept ==
  Done => \A c \in Class :
            LET All(s) == UNION {s[k].handles : k \in {j \in DOMAIN s : s[j].class = c}}
            IN  All(out) = All(full)

(* Of equal instances the one of the earliest template stays. *)
EarliestTemplateKept ==
  Done => \A k \in DOMAIN out, l \in DOMAIN full :
            full[l].class = out[k].class /\ full[l].handles = out[k].handles
            => out[k].idx <= full[l].idx

(* A key's view was drawn and its class may be there: the manifest, which  *)
(* lists the drawn views, covers every prefix of the Match JSON.           *)
KeysInDrawnViews ==
  \A k \in DOMAIN out : /\ out[k].view # None => rect[out[k].view] # None
                        /\ AllowedViews[out[k].class] # None
                           => out[k].view \in AllowedViews[out[k].class]

(* Every raw match is counted once, and recorded in a view its class may
   be in (side_regions.py, jobs.py).                                       *)
SplitIsExact == CountsAddUp /\ KeysInDrawnViews

(* Suppression keeps one match of a feature, the fullest and the earliest,
   and loses no handle (side_regions.py).                                  *)
SuppressionIsExact == OnePerFeature /\ UnionKept /\ EarliestTemplateKept
=============================================================================
