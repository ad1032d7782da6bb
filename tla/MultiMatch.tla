----------------------------- MODULE MultiMatch -----------------------------
(***************************************************************************)
(* The search for rigid copies of a template of several entities           *)
(* (_match_multi of app/matching.py) over every small drawing on a grid of *)
(* centroids.  A kind stands for what an entity's outline gives: the       *)
(* fingerprint bucket, the principal axis, whether it is isotropic.        *)
(*                                                                         *)
(* The grid is coarser than CENTROID_NOISE_TOL, so that a predicted place  *)
(* is on a centroid or is not; buckets are one number, with the neighbour  *)
(* on either side accepted; handles are numbered in the drawing's order.   *)
(***************************************************************************)
EXTENDS Integers, Sequences, FiniteSets, FiniteSetsExt, SequencesExt

CONSTANTS
  Width, Height, \* the grid
  Kind,
  Bucket,        \* Bucket[k]: the fingerprint
  Upright,       \* the kinds whose principal axis is vertical
  Round,         \* the isotropic kinds
  MaxEntities,   \* bound: entities of a drawing
  MaxTemplate    \* bound: entities of a template

MultiMatchAssumption ==
  /\ Bucket \in [Kind -> Int]
  /\ Upright \subseteq Kind /\ Round \subseteq Kind \ Upright
  /\ {Width, Height, MaxEntities, MaxTemplate} \subseteq Nat

Entity == [x : 0..Width, y : 0..Height, kind : Kind]

VARIABLE drawing \* the entities, indexed by handle

Init == drawing = <<>>

Follows(e, f) == e.x > f.x \/ (e.x = f.x /\ e.y >= f.y)

(* Any drawing, with the handles in the order of the places. *)
Draw(e) ==
  /\ Len(drawing) < MaxEntities
  /\ \A i \in DOMAIN drawing : Follows(e, drawing[i])
  /\ drawing' = Append(drawing, e)

Next == \E e \in Entity : Draw(e)

Spec == Init /\ [][Next]_drawing

-----------------------------------------------------------------------------
(* Entities. *)

Plus(p, q) == <<p[1] + q[1], p[2] + q[2]>>
Minus(p, q) == <<p[1] - q[1], p[2] - q[2]>>
Times(n, p) == <<n * p[1], n * p[2]>>
Dot(p, q) == p[1] * q[1] + p[2] * q[2]
Perp(p) == <<-p[2], p[1]>>

Centroid(e) == <<e.x, e.y>>
(* _cluster_key: the place and the exact bucket. *)
ClusterKey(e) == <<e.x, e.y, Bucket[e.kind]>>
(* _fingerprint_matches *)
Alike(e, f) == Bucket[e.kind] - Bucket[f.kind] \in -1..1

Handles == DOMAIN drawing
Entities(hs) == [i \in DOMAIN hs |-> drawing[hs[i]]]

(* _dedupe_template_shapes: the first of each cluster. *)
Deduped(t) ==
  LET keeps(i) == \A k \in 1..(i - 1) : ClusterKey(t[k]) # ClusterKey(t[i])
  IN  [j \in 1..Cardinality({i \in DOMAIN t : keeps(i)}) |->
         t[CHOOSE i \in DOMAIN t : keeps(i) /\ Cardinality({k \in 1..i : keeps(k)}) = j]]

(* The seed is the rarest entity, the first of several; it goes first. *)
Roles(t) ==
  LET size(i) == Cardinality({h \in Handles : Alike(drawing[h], t[i])})
      seed == CHOOSE i \in DOMAIN t :
                \A k \in DOMAIN t : size(i) < size(k) \/ (size(i) = size(k) /\ i <= k)
  IN  <<t[seed]>> \o RemoveAt(t, seed)

-----------------------------------------------------------------------------
(* One copy.  A spot is a place times a scale, for a place off the grid.   *)

(* Mutant: a handle already in the copy may be taken again. *)
ReusableAt(spot, role, skip, taken) ==
  {h \in Handles \ skip :
     Times(spot.scale, Centroid(drawing[h])) = spot.place /\ Alike(drawing[h], role)}

(* The handles at a spot that are alike and not yet in the copy. *)
FreeAt(spot, role, skip, taken) ==
  {h \in Handles \ (skip \cup taken) :
     Times(spot.scale, Centroid(drawing[h])) = spot.place /\ Alike(drawing[h], role)}

(* The other roles one after the other, each by the first free handle at   *)
(* its spot; nothing if a spot has none.                                   *)
Fill(roles, skip, start, spot) ==
  LET filled[k \in Len(start)..Len(roles)] ==
        IF k = Len(start) THEN start
        ELSE LET free == FreeAt(spot[k], roles[k], skip, ToSet(filled[k - 1]))
             IN  IF filled[k - 1] = <<>> \/ free = {} THEN <<>>
                 ELSE Append(filled[k - 1], Min(free))
  IN  filled[Len(roles)]

(* The first of the variants that fills every role. *)
FirstHit(found) ==
  LET hits == {i \in DOMAIN found : found[i] # <<>>}
  IN  IF hits = {} THEN {} ELSE {found[Min(hits)]}

(* A vector in the frame of an entity's principal axes, and back. *)
InFrame(e, v) == IF e.kind \in Upright THEN <<v[2], v[1]>> ELSE v
Signs == << <<1, 1>>, <<1, -1>>, <<-1, 1>>, <<-1, -1>> >>

(* The axes of a seed and of a candidate, up to four signs. *)
ByAxes(roles, skip, c) ==
  LET spot(sign, k) ==
        LET v == InFrame(roles[1], Minus(Centroid(roles[k]), Centroid(roles[1])))
        IN  [scale |-> 1,
             place |-> Plus(Centroid(drawing[c]),
                            InFrame(drawing[c], <<sign[1] * v[1], sign[2] * v[2]>>))]
  IN  FirstHit([i \in DOMAIN Signs |-> Fill(roles, skip, <<c>>, [k \in DOMAIN roles |-> spot(Signs[i], k)])])

(* The line from an isotropic seed to the next role, and for three or more *)
(* entities its mirror image.                                              *)
ByLine(roles, skip, c, o) ==
  LET from == Minus(Centroid(roles[2]), Centroid(roles[1]))
      to == Minus(Centroid(drawing[o]), Centroid(drawing[c]))
      length == Dot(from, from)
      spot(mirror, k) ==
        LET v == Minus(Centroid(roles[k]), Centroid(roles[1]))
        IN  [scale |-> length,
             place |-> Plus(Times(length, Centroid(drawing[c])),
                            Plus(Times(Dot(v, from), to),
                                 Times(mirror * Dot(v, Perp(from)), Perp(to))))]
  IN  IF Dot(to, to) # length THEN {}
      ELSE FirstHit([i \in 1..(IF Len(roles) = 2 THEN 1 ELSE 2) |->
                       Fill(roles, skip, <<c, o>>,
                            [k \in DOMAIN roles |-> spot(IF i = 1 THEN 1 ELSE -1, k)])])

-----------------------------------------------------------------------------

(* All copies. *)

(* Where a copy may start: not at an entity that was selected, nor, if     *)
(* exclude, at one that lies where an entity of the template does.         *)
Candidates(t, skip, exclude) ==
  {h \in Handles \ skip :
     exclude => \A i \in DOMAIN t : ClusterKey(drawing[h]) # ClusterKey(t[i])}

Copies(roles, t, skip, exclude) ==
  LET near(k) == {h \in Candidates(t, skip, exclude) : Alike(drawing[h], roles[k])}
  IN  IF roles[1].kind \in Round /\ Centroid(roles[1]) # Centroid(roles[2])
      THEN UNION {ByLine(roles, skip, c, o) :
                    <<c, o>> \in {p \in near(1) \X near(2) : p[1] # p[2]}}
      ELSE UNION {ByAxes(roles, skip, c) : c \in near(1)}

(* A handle and the first others of its cluster, as many as were selected  *)
(* of the cluster it stands for.                                           *)
Picked(role, h, skip) ==
  LET selected == Cardinality({s \in skip : ClusterKey(drawing[s]) = ClusterKey(role)})
      twins == {k \in Handles \ (skip \cup {h}) : ClusterKey(drawing[k]) = ClusterKey(drawing[h])}
  IN  {h} \cup {k \in twins : Cardinality({j \in twins : j < k}) + 1 < selected}

Expanded(roles, m, skip) == UNION {Picked(roles[i], m[i], skip) : i \in DOMAIN m}

(* What lies where: groups that agree on it are one match. *)
Physical(g) == {<<ClusterKey(drawing[h]),
                  Cardinality({k \in g : ClusterKey(drawing[k]) = ClusterKey(drawing[h])})>> : h \in g}

(* One copy of each group of handles. *)
Distinct(copies) == {CHOOSE m \in copies : ToSet(m) = g : g \in {ToSet(m) : m \in copies}}

(* _match_multi, for a template of two clusters or more. *)
Match(t, skip, exclude) ==
  LET roles == Roles(Deduped(t))
      groups == {Expanded(roles, m, skip) :
                   m \in Distinct(Copies(roles, Deduped(t), skip, exclude))}
  IN  {CHOOSE g \in groups : Physical(g) = p : p \in {Physical(g) : g \in groups}}

(* find_matches: what else looks like the selected handles. *)
FindMatches(hs) == Match(Entities(hs), ToSet(hs), TRUE)

(* find_matches_from_pointsets: where a stored template is. *)
Scan(t) == Match(t, {}, FALSE)

-----------------------------------------------------------------------------
(* Selections, in the order the handles were clicked. *)

Selections ==
  {hs \in UNION {[1..n -> Handles] : n \in 2..MaxTemplate} :
     /\ \A i, k \in DOMAIN hs : i # k => hs[i] # hs[k]
     /\ Len(Deduped(Entities(hs))) > 1}

Clicked(hs) == Len(Deduped(Entities(hs))) = Len(hs)

(* The reference: q is p turned, mirrored and moved. *)
Distance2(p, q) == Dot(Minus(p, q), Minus(p, q))
Congruent(p, q) ==
  \A i, k \in DOMAIN p : Distance2(p[i], p[k]) = Distance2(q[i], q[k])

(* The rest of the drawing is hs once more, moved and perhaps mirrored. *)
Copied(hs) ==
  {ks \in [DOMAIN hs -> Handles \ ToSet(hs)] :
     /\ ToSet(hs) \cup ToSet(ks) = Handles
     /\ \A i \in DOMAIN hs : drawing[hs[i]].kind = drawing[ks[i]].kind
     /\ \E flip \in {-1, 1} \X {-1, 1} : \A i \in DOMAIN hs :
          LET v == Minus(Centroid(drawing[hs[i]]), Centroid(drawing[hs[1]]))
          IN  Minus(Centroid(drawing[ks[i]]), Centroid(drawing[ks[1]]))
                = <<flip[1] * v[1], flip[2] * v[2]>>}

Apart(hs, ks) ==
  \A i, k \in DOMAIN hs : ClusterKey(drawing[hs[i]]) # ClusterKey(drawing[ks[k]])

(* Of a drawing of two patterns that are apart, one a copy of the other,   *)
(* a search with the one finds the other, and nothing else.                *)
CopyFound ==
  \A hs \in {s \in Selections : 2 * Len(s) = Len(drawing) /\ Clicked(s)} :
    \A ks \in Copied(hs) : Apart(hs, ks) => FindMatches(hs) = {ToSet(ks)}

(* matching.py:664-669: a scan with a template finds the instance it was   *)
(* saved from, whatever else lies there.                                   *)
OriginalFound ==
  \A hs \in Selections :
    Clicked(hs) => \E g \in Scan(Entities(hs)) :
                     {Centroid(drawing[h]) : h \in g} = {Centroid(drawing[h]) : h \in ToSet(hs)}

(* A match is a rigid copy: as many handles as were clicked, alike one by  *)
(* one and at the same distances.                                          *)
RigidCopy ==
  \A hs \in Selections :
    Clicked(hs) =>
      \A g \in FindMatches(hs) :
        \E m \in [DOMAIN hs -> g] :
          /\ {m[i] : i \in DOMAIN hs} = g /\ Cardinality(g) = Len(hs)
          /\ \A i \in DOMAIN hs : Alike(drawing[m[i]], drawing[hs[i]])
          /\ Congruent([i \in DOMAIN hs |-> Centroid(drawing[hs[i]])],
                       [i \in DOMAIN hs |-> Centroid(drawing[m[i]])])

(* "Re-matching against the template's own position is not what the user   *)
(* asked for": no match lies just where the selected handles do.           *)
NotItself ==
  \A hs \in Selections : \A g \in FindMatches(hs) :
    {ClusterKey(drawing[h]) : h \in g} # {ClusterKey(drawing[h]) : h \in ToSet(hs)}

(* A search finds the original, returns rigid copies and no copy of the
   selection itself (matching.py).                                         *)
SearchIsSound == OriginalFound /\ RigidCopy /\ NotItself
=============================================================================
