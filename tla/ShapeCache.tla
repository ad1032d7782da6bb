----------------------------- MODULE ShapeCache -----------------------------
(***************************************************************************)
(* What a web process keeps of the drawings it matches: the parsed blobs   *)
(* and the shapes built from them in two lru_caches keyed by the version   *)
(* token of the blob (app/main.py), and the matcher's indexes of a drawing *)
(* in dicts keyed by id(drawing) (app/matching.py).  Requests run in the   *)
(* threads of a pool; a worker, another process, rewrites a blob.          *)
(*                                                                         *)
(* A drawing is the file and the generation of the blob it was built from. *)
(* The memory of a dict is given to another when no cache and no request   *)
(* refers to it; index stands for the four dicts of the matcher, which     *)
(* nothing empties.  A blob is replaced at once: a half-written one does   *)
(* not parse and lru_cache keeps no exception.                             *)
(***************************************************************************)
EXTENDS Naturals, Sequences, FiniteSets

CONSTANTS
  File,
  Thread,
  Address,
  Capacity,   \* maxsize of the lru_caches
  MaxPuts,    \* bound: rewrites of a blob
  None

ASSUME ShapeCacheAssumption ==
  /\ Capacity \in Nat \ {0} /\ MaxPuts \in Nat
  /\ Cardinality(Address) >= Capacity + Cardinality(Thread)
  /\ None \notin Address

Generation == 0..MaxPuts
Drawing == [file : File, gen : Generation]
NoDrawing == [file |-> None, gen |-> 0]

VARIABLES
  blob,   \* blob[f]: the generation, which is also the token
  parsed, \* _cached_parsed: entries [file, token, gen], the most recent last
  shapes, \* _cached_shapes: entries [file, token, address]
  heap,   \* heap[a]: the drawing last put at an address
  index,  \* index[a]: the drawing whose handles are indexed under id a
  call    \* call[t]: the request a thread runs

vars == <<blob, parsed, shapes, heap, index, call>>

(* began is the generation when the request began, gen what it has read.   *)
Idle == [step |-> "idle", file |-> None, began |-> 0, token |-> 0, gen |-> 0,
         address |-> None, used |-> NoDrawing]

Keys(lru) == {<<lru[i].file, lru[i].token>> : i \in DOMAIN lru}
InUse == {shapes[i].address : i \in DOMAIN shapes} \cup ({call[t].address : t \in Thread} \ {None})

(* The caches keep one entry a key and no more than they may, and no two   *)
(* drawings in use share their memory.                                     *)
TypeOK ==
  /\ blob \in [File -> Generation]
  /\ \A lru \in {parsed, shapes} :
       Len(lru) <= Capacity /\ Cardinality(Keys(lru)) = Len(lru)
  /\ \A i, k \in DOMAIN shapes : shapes[i].address = shapes[k].address => i = k
  /\ \A t \in Thread : call[t].address # None => heap[call[t].address].file = call[t].file
  /\ index \in [Address -> Drawing \cup {NoDrawing}]

Init ==
  /\ blob = [f \in File |-> 0]
  /\ parsed = <<>> /\ shapes = <<>>
  /\ heap = [a \in Address |-> NoDrawing]
  /\ index = [a \in Address |-> NoDrawing]
  /\ call = [t \in Thread |-> Idle]

-----------------------------------------------------------------------------
(* functools.lru_cache.  Two threads that miss the same key both compute   *)
(* it; the second finds the entry made and leaves it.                      *)

At(lru, f, k) == CHOOSE i \in DOMAIN lru : lru[i].file = f /\ lru[i].token = k
Without(lru, i) == SubSeq(lru, 1, i - 1) \o SubSeq(lru, i + 1, Len(lru))

(* Mutant: nothing is evicted from a full cache. *)
InsertForEver(lru, e) ==
  IF <<e.file, e.token>> \in Keys(lru) THEN lru ELSE Append(lru, e)

(* A miss: the least recently used entry leaves a full cache. *)
Insert(lru, e) ==
  LET kept == IF Len(lru) = Capacity THEN Tail(lru) ELSE lru
  IN  IF <<e.file, e.token>> \in Keys(lru) THEN lru ELSE Append(kept, e)

Touch(lru, i) == Append(Without(lru, i), lru[i])

-----------------------------------------------------------------------------

HasKey(lru, t) == <<call[t].file, call[t].token>> \in Keys(lru)
Place(lru, t) == At(lru, call[t].file, call[t].token)

(* Mutant: the call does not ask for the token of the bytes. *)
RequestAnyToken(t, f) ==
  /\ call[t].step = "idle"
  /\ call' = [call EXCEPT ![t] = [Idle EXCEPT !.step = "shapes", !.file = f, !.began = blob[f]]]
  /\ UNCHANGED <<blob, parsed, shapes, heap, index>>

(* A scan or a match: _shapes_for asks for the token.                      *)
Request(t, f) ==
  /\ call[t].step = "idle"
  /\ call' = [call EXCEPT ![t] = [Idle EXCEPT !.step = "shapes", !.file = f,
                                             !.token = blob[f], !.began = blob[f]]]
  /\ UNCHANGED <<blob, parsed, shapes, heap, index>>

ShapesHit(t) ==
  /\ call[t].step = "shapes" /\ HasKey(shapes, t)
  /\ LET i == Place(shapes, t) IN
       /\ call' = [call EXCEPT ![t].step = "index", ![t].address = shapes[i].address]
       /\ shapes' = Touch(shapes, i)
  /\ UNCHANGED <<blob, parsed, heap, index>>

ParsedHit(t) ==
  /\ call[t].step = "shapes" /\ ~HasKey(shapes, t) /\ HasKey(parsed, t)
  /\ LET i == Place(parsed, t) IN
       /\ call' = [call EXCEPT ![t].step = "build", ![t].gen = parsed[i].gen]
       /\ parsed' = Touch(parsed, i)
  /\ UNCHANGED <<blob, shapes, heap, index>>

(* The blob may be newer than the token by now.                            *)
Read(t) ==
  /\ call[t].step = "shapes" /\ ~HasKey(shapes, t) /\ ~HasKey(parsed, t)
  /\ call' = [call EXCEPT ![t].step = "keep", ![t].gen = blob[call[t].file]]
  /\ UNCHANGED <<blob, parsed, shapes, heap, index>>

KeepParsed(t) ==
  /\ call[t].step = "keep"
  /\ parsed' = Insert(parsed, [file |-> call[t].file, token |-> call[t].token, gen |-> call[t].gen])
  /\ call' = [call EXCEPT ![t].step = "build"]
  /\ UNCHANGED <<blob, shapes, heap, index>>

(* build_entity_shapes makes a dict wherever there is room.                *)
Build(t, a) ==
  /\ call[t].step = "build"
  /\ a \notin InUse
  /\ heap' = [heap EXCEPT ![a] = [file |-> call[t].file, gen |-> call[t].gen]]
  /\ call' = [call EXCEPT ![t].step = "keep_shapes", ![t].address = a]
  /\ UNCHANGED <<blob, parsed, shapes, index>>

KeepShapes(t) ==
  /\ call[t].step = "keep_shapes"
  /\ shapes' = Insert(shapes, [file |-> call[t].file, token |-> call[t].token,
                               address |-> call[t].address])
  /\ call' = [call EXCEPT ![t].step = "index"]
  /\ UNCHANGED <<blob, parsed, heap, index>>

(* _get_radius_buckets and its like: the index of this id, or a new one.   *)
IndexOf(t) ==
  LET a == call[t].address IN
  /\ call[t].step = "index"
  /\ index' = [index EXCEPT ![a] = IF @ = NoDrawing THEN heap[a] ELSE @]
  /\ call' = [call EXCEPT ![t].step = "matched", ![t].used = index'[a]]
  /\ UNCHANGED <<blob, parsed, shapes, heap>>

Return(t) ==
  /\ call[t].step = "matched"
  /\ call' = [call EXCEPT ![t] = Idle]
  /\ UNCHANGED <<blob, parsed, shapes, heap, index>>

(* A preprocess writes the parsed blob of a file again. *)
Put(f) ==
  /\ blob[f] < MaxPuts
  /\ blob' = [blob EXCEPT ![f] = @ + 1]
  /\ UNCHANGED <<parsed, shapes, heap, index, call>>

Next ==
  \/ \E t \in Thread :
       \/ \E f \in File : Request(t, f)
       \/ ShapesHit(t) \/ ParsedHit(t) \/ Read(t) \/ KeepParsed(t)
       \/ \E a \in Address : Build(t, a)
       \/ KeepShapes(t) \/ IndexOf(t) \/ Return(t)
  \/ \E f \in File : Put(f)

Spec == Init /\ [][Next]_vars

-----------------------------------------------------------------------------
(* A request does not match against a drawing that was replaced before it  *)
(* began, whoever filled the caches.                                       *)
NoOlderDrawing ==
  \A t \in Thread : call[t].step = "index" => heap[call[t].address].gen >= call[t].began

(* matching.py:686-690: a fresh drawing has a fresh id and a fresh slot,   *)
(* so that the index a request matches with is that of its drawing.        *)
OwnIndex ==
  \A t \in Thread : call[t].step = "matched" => call[t].used = heap[call[t].address]
=============================================================================
