--------------------------- MODULE Matching_proofs ---------------------------
(***************************************************************************)
(* Proofs about ShapeCache and Discovery, for any files, threads, tabs,    *)
(* layers and capacities.                                                  *)
(*                                                                         *)
(* No request matches against a drawing replaced before it began: whatever *)
(* is cached under a token was read when the blob had that token or a      *)
(* later one; the inductive invariant says so of the entries of both       *)
(* caches and of the drawings that threads carry between them.             *)
(*                                                                         *)
(* Of Discovery, the instance D: its types and the picker it leaves,       *)
(* however many discoveries run at once, crash and run again.              *)
(***************************************************************************)
EXTENDS ShapeCache, SequenceTheorems, FiniteSetTheorems, WellFoundedInduction, TLAPS

AnyDrawing == [file : File \cup {None}, gen : Generation]
AnyCall == [step : {"idle", "shapes", "keep", "build", "keep_shapes", "index", "matched"},
            file : File \cup {None}, began : Generation, token : Generation,
            gen : Generation, address : Address \cup {None}, used : AnyDrawing]

FreshParsed == {e \in [file : File, token : Generation, gen : Generation] : e.gen >= e.token}
FreshShapes == {e \in [file : File, token : Generation, address : Address] :
                  heap[e.address].gen >= e.token}

(* A request under way asks for a token it has seen, and what it carries   *)
(* is no older.                                                            *)
FreshCall(t) ==
  LET c == call[t] IN
  /\ c.step # "idle" => /\ c.file \in File
                        /\ c.began <= c.token /\ c.token <= blob[c.file]
  /\ c.step \in {"keep", "build"} => c.gen >= c.token
  /\ c.step \in {"keep_shapes", "index", "matched"} =>
       c.address \in Address /\ heap[c.address].gen >= c.token

IInv ==
  /\ blob \in [File -> Generation]
  /\ heap \in [Address -> AnyDrawing]
  /\ index \in [Address -> AnyDrawing]
  /\ call \in [Thread -> AnyCall]
  /\ parsed \in Seq(FreshParsed)
  /\ shapes \in Seq(FreshShapes)
  /\ \A t \in Thread : FreshCall(t)

-----------------------------------------------------------------------------
(* The caches hold nothing that was not inserted.                          *)

LEMMA InsertKeeps ==
  ASSUME NEW S, NEW lru \in Seq(S), NEW e \in S
  PROVE  Insert(lru, e) \in Seq(S)
<1>1. Len(lru) = Capacity => Tail(lru) \in Seq(S)
  BY ShapeCacheAssumption
<1>2. \A s \in Seq(S) : Append(s, e) \in Seq(S)
  OBVIOUS
<1> QED
  BY <1>1, <1>2 DEF Insert

LEMMA TouchKeeps ==
  ASSUME NEW S, NEW lru \in Seq(S), NEW i \in DOMAIN lru
  PROVE  Touch(lru, i) \in Seq(S)
<1>1. i \in 1..Len(lru) /\ lru[i] \in S
  OBVIOUS
<1>2. SubSeq(lru, 1, i - 1) \in Seq(S) /\ SubSeq(lru, i + 1, Len(lru)) \in Seq(S)
  BY <1>1, SubSeqProperties
<1>3. Without(lru, i) \in Seq(S)
  BY <1>2, ConcatProperties DEF Without
<1> QED
  BY <1>1, <1>3 DEF Touch

(* An entry that is there is of the file and the token that are asked for. *)
LEMMA Found ==
  ASSUME NEW lru, NEW t \in Thread, HasKey(lru, t)
  PROVE  /\ Place(lru, t) \in DOMAIN lru
         /\ lru[Place(lru, t)].file = call[t].file
         /\ lru[Place(lru, t)].token = call[t].token
<1>1. \E i \in DOMAIN lru : lru[i].file = call[t].file /\ lru[i].token = call[t].token
  BY DEF HasKey, Keys
<1> QED
  BY <1>1 DEF Place, At

LEMMA InitInvariant == Init => IInv
<1> SUFFICES ASSUME Init PROVE IInv
  OBVIOUS
<1>1. 0 \in Generation
  BY ShapeCacheAssumption DEF Generation
<1>2. NoDrawing \in AnyDrawing /\ Idle \in AnyCall /\ Idle.step = "idle"
  BY <1>1 DEF NoDrawing, AnyDrawing, Idle, AnyCall
<1>3. \A t \in Thread : FreshCall(t)
  BY <1>2 DEF Init, FreshCall
<1> QED
  BY <1>1, <1>2, <1>3 DEF Init, IInv

(* Steps of a thread that leave the blobs and the heap alone.              *)
LEMMA ThreadStep ==
  ASSUME IInv, NEW t \in Thread, NEW c \in AnyCall,
         call' = [call EXCEPT ![t] = c], UNCHANGED <<blob, heap>>,
         FreshCall(t)'
  PROVE  /\ call' \in [Thread -> AnyCall]
         /\ \A u \in Thread : FreshCall(u)'
         /\ FreshShapes' = FreshShapes
<1>1. call' \in [Thread -> AnyCall] /\ \A u \in Thread \ {t} : call'[u] = call[u]
  BY DEF IInv
<1>2. \A u \in Thread \ {t} : FreshCall(u)'
  BY <1>1 DEF IInv, FreshCall
<1> QED
  BY <1>1, <1>2 DEF FreshShapes

LEMMA StepInvariant == IInv /\ [Next]_vars => IInv'
<1> SUFFICES ASSUME IInv, [Next]_vars PROVE IInv'
  OBVIOUS
<1> DEFINE Upd(t, c) == call' = [call EXCEPT ![t] = c]
<1>0. (\A n \in Generation : n \in Nat) /\ 0 \in Generation /\ NoDrawing \in AnyDrawing
  BY ShapeCacheAssumption DEF Generation, NoDrawing, AnyDrawing
<1>1. ASSUME NEW t \in Thread, NEW f \in File, Request(t, f) PROVE IInv'
  <2> DEFINE c == [Idle EXCEPT !.step = "shapes", !.file = f, !.token = blob[f], !.began = blob[f]]
  <2>1. c \in AnyCall /\ c.step = "shapes" /\ c.file = f /\ c.token = blob[f] /\ c.began = blob[f]
        /\ blob[f] \in Generation
    BY <1>0 DEF IInv, Idle, AnyCall
  <2>2. call' = [call EXCEPT ![t] = c] /\ UNCHANGED <<blob, parsed, shapes, heap, index>>
    BY <1>1 DEF Request
  <2>3. call'[t] = c
    BY <2>2 DEF IInv
  <2> HIDE DEF c
  <2>4. FreshCall(t)'
    <3>1. c.began <= c.token /\ c.token <= blob'[c.file] /\ c.file \in File
      BY <1>0, <2>1, <2>2
    <3> QED
      BY <2>1, <2>3, <3>1 DEF FreshCall
  <2> QED
    BY <2>1, <2>2, <2>4, ThreadStep DEF IInv
<1>2. ASSUME NEW t \in Thread, ShapesHit(t) PROVE IInv'
  <2> DEFINE i == Place(shapes, t)
             c == [call[t] EXCEPT !.step = "index", !.address = shapes[i].address]
  <2>1. i \in DOMAIN shapes /\ shapes[i].token = call[t].token /\ call[t].step = "shapes"
    BY <1>2, Found DEF ShapesHit
  <2>2. shapes[i] \in FreshShapes
    BY <2>1 DEF IInv
  <2>3. call' = [call EXCEPT ![t] = c] /\ shapes' = Touch(shapes, i)
        /\ UNCHANGED <<blob, parsed, heap, index>>
    BY <1>2 DEF ShapesHit, IInv
  <2>4. c \in AnyCall /\ c.step = "index" /\ c.address = shapes[i].address /\ c.token = call[t].token
        /\ c.began = call[t].began /\ c.file = call[t].file
    BY <2>2 DEF IInv, AnyCall, FreshShapes
  <2>5. call'[t] = c
    BY <2>3 DEF IInv
  <2>6. FreshCall(t)
    BY DEF IInv
  <2> HIDE DEF c, i
  <2>7. FreshCall(t)'
    BY <2>1, <2>2, <2>3, <2>4, <2>5, <2>6 DEF FreshCall, FreshShapes
  <2>8. shapes' \in Seq(FreshShapes)
    BY <2>1, <2>3, TouchKeeps DEF IInv
  <2> QED
    BY <2>3, <2>4, <2>7, <2>8, ThreadStep DEF IInv
<1>3. ASSUME NEW t \in Thread, ParsedHit(t) PROVE IInv'
  <2> DEFINE i == Place(parsed, t)
             c == [call[t] EXCEPT !.step = "build", !.gen = parsed[i].gen]
  <2>1. i \in DOMAIN parsed /\ parsed[i].token = call[t].token /\ call[t].step = "shapes"
    BY <1>3, Found DEF ParsedHit
  <2>2. parsed[i] \in FreshParsed
    BY <2>1 DEF IInv
  <2>3. call' = [call EXCEPT ![t] = c] /\ parsed' = Touch(parsed, i)
        /\ UNCHANGED <<blob, shapes, heap, index>>
    BY <1>3 DEF ParsedHit, IInv
  <2>4. c \in AnyCall /\ c.step = "build" /\ c.gen = parsed[i].gen /\ c.token = call[t].token
        /\ c.began = call[t].began /\ c.file = call[t].file
    BY <2>2 DEF IInv, AnyCall, FreshParsed
  <2>5. call'[t] = c
    BY <2>3 DEF IInv
  <2>6. FreshCall(t)
    BY DEF IInv
  <2> HIDE DEF c, i
  <2>7. FreshCall(t)'
    BY <2>1, <2>2, <2>3, <2>4, <2>5, <2>6 DEF FreshCall, FreshParsed
  <2>8. parsed' \in Seq(FreshParsed)
    BY <2>1, <2>3, TouchKeeps DEF IInv
  <2> QED
    BY <2>3, <2>4, <2>7, <2>8, ThreadStep DEF IInv
<1>4. ASSUME NEW t \in Thread, Read(t) PROVE IInv'
  <2> DEFINE c == [call[t] EXCEPT !.step = "keep", !.gen = blob[call[t].file]]
  <2>1. FreshCall(t) /\ call[t].step = "shapes"
    BY <1>4 DEF IInv, Read
  <2>2. call[t].file \in File /\ blob[call[t].file] \in Generation
        /\ call[t].token <= blob[call[t].file]
    BY <2>1 DEF FreshCall, IInv
  <2>3. call' = [call EXCEPT ![t] = c] /\ UNCHANGED <<blob, parsed, shapes, heap, index>>
    BY <1>4 DEF Read, IInv
  <2>4. c \in AnyCall /\ c.step = "keep" /\ c.gen = blob[call[t].file] /\ c.token = call[t].token
        /\ c.began = call[t].began /\ c.file = call[t].file /\ c.token \in Generation
    BY <2>2 DEF IInv, AnyCall
  <2>5. call'[t] = c
    BY <2>3 DEF IInv
  <2> HIDE DEF c
  <2>6. FreshCall(t)'
    BY <1>0, <2>1, <2>2, <2>3, <2>4, <2>5 DEF FreshCall
  <2> QED
    BY <2>3, <2>4, <2>6, ThreadStep DEF IInv
<1>5. ASSUME NEW t \in Thread, KeepParsed(t) PROVE IInv'
  <2> DEFINE c == [call[t] EXCEPT !.step = "build"]
             e == [file |-> call[t].file, token |-> call[t].token, gen |-> call[t].gen]
  <2>1. FreshCall(t) /\ call[t].step = "keep" /\ call[t] \in AnyCall
    BY <1>5 DEF IInv, KeepParsed
  <2>2. e \in FreshParsed
    BY <2>1 DEF FreshCall, FreshParsed, AnyCall
  <2>3. call' = [call EXCEPT ![t] = c] /\ parsed' = Insert(parsed, e)
        /\ UNCHANGED <<blob, shapes, heap, index>>
    BY <1>5 DEF KeepParsed, IInv
  <2>4. c \in AnyCall /\ c.step = "build" /\ c.gen = call[t].gen /\ c.token = call[t].token
        /\ c.began = call[t].began /\ c.file = call[t].file
    BY <2>1 DEF AnyCall
  <2>5. call'[t] = c
    BY <2>3 DEF IInv
  <2> HIDE DEF c, e
  <2>6. FreshCall(t)'
    BY <2>1, <2>3, <2>4, <2>5 DEF FreshCall
  <2>7. parsed' \in Seq(FreshParsed)
    BY <2>2, <2>3, InsertKeeps DEF IInv
  <2> QED
    BY <2>3, <2>4, <2>6, <2>7, ThreadStep DEF IInv
<1>6. ASSUME NEW t \in Thread, NEW a \in Address, Build(t, a) PROVE IInv'
  <2> DEFINE c == [call[t] EXCEPT !.step = "keep_shapes", !.address = a]
             d == [file |-> call[t].file, gen |-> call[t].gen]
  <2>1. /\ FreshCall(t) /\ call[t].step = "build" /\ call[t] \in AnyCall /\ a \notin InUse
        /\ heap' = [heap EXCEPT ![a] = d] /\ call' = [call EXCEPT ![t] = c]
        /\ UNCHANGED <<blob, parsed, shapes, index>>
    BY <1>6 DEF IInv, Build
  <2>2. d \in AnyDrawing /\ d.gen = call[t].gen
    BY <2>1 DEF AnyDrawing, AnyCall
  <2>3. c \in AnyCall /\ c.step = "keep_shapes" /\ c.address = a /\ c.token = call[t].token
        /\ c.began = call[t].began /\ c.file = call[t].file
    BY <2>1 DEF AnyCall
  <2> HIDE DEF c, d
  <2>4. heap' \in [Address -> AnyDrawing] /\ heap'[a] = d
        /\ \A b \in Address \ {a} : heap'[b] = heap[b]
    BY <2>1, <2>2 DEF IInv
  <2>5. call' \in [Thread -> AnyCall] /\ call'[t] = c /\ \A u \in Thread \ {t} : call'[u] = call[u]
    BY <2>1, <2>3 DEF IInv
  <2>6. FreshCall(t)'
    BY <2>1, <2>2, <2>3, <2>4, <2>5 DEF FreshCall
  <2>7. ASSUME NEW u \in Thread, u # t PROVE FreshCall(u)'
    <3>1. FreshCall(u) /\ (call[u].address \in Address => call[u].address # a)
      BY <2>1, ShapeCacheAssumption DEF IInv, InUse
    <3> QED
      BY <2>1, <2>4, <2>5, <2>7, <3>1 DEF FreshCall
  <2>8. shapes \in Seq(FreshShapes')
    <3>1. ASSUME NEW i \in DOMAIN shapes PROVE shapes[i] \in FreshShapes'
      <4>1. shapes[i] \in FreshShapes /\ shapes[i].address # a
        BY <2>1 DEF IInv, InUse
      <4> QED
        BY <2>4, <4>1 DEF FreshShapes
    <3>2. shapes \in Seq(FreshShapes) /\ DOMAIN shapes = 1..Len(shapes) /\ Len(shapes) \in Nat
      BY DEF IInv
    <3>3. shapes \in [1..Len(shapes) -> FreshShapes']
      BY <3>1, <3>2
    <3> QED
      BY <3>2, <3>3, IsASeq
  <2> QED
    BY <2>1, <2>4, <2>5, <2>6, <2>7, <2>8 DEF IInv
<1>7. ASSUME NEW t \in Thread, KeepShapes(t) PROVE IInv'
  <2> DEFINE c == [call[t] EXCEPT !.step = "index"]
             e == [file |-> call[t].file, token |-> call[t].token, address |-> call[t].address]
  <2>1. FreshCall(t) /\ call[t].step = "keep_shapes" /\ call[t] \in AnyCall
    BY <1>7 DEF IInv, KeepShapes
  <2>2. e \in FreshShapes
    BY <2>1 DEF FreshCall, FreshShapes, AnyCall
  <2>3. call' = [call EXCEPT ![t] = c] /\ shapes' = Insert(shapes, e)
        /\ UNCHANGED <<blob, parsed, heap, index>>
    BY <1>7 DEF KeepShapes, IInv
  <2>4. c \in AnyCall /\ c.step = "index" /\ c.address = call[t].address /\ c.token = call[t].token
        /\ c.began = call[t].began /\ c.file = call[t].file
    BY <2>1 DEF AnyCall
  <2>5. call'[t] = c
    BY <2>3 DEF IInv
  <2> HIDE DEF c, e
  <2>6. FreshCall(t)'
    BY <2>1, <2>3, <2>4, <2>5 DEF FreshCall
  <2>7. shapes' \in Seq(FreshShapes)
    BY <2>2, <2>3, InsertKeeps DEF IInv
  <2> QED
    BY <2>3, <2>4, <2>6, <2>7, ThreadStep DEF IInv
<1>8. ASSUME NEW t \in Thread, IndexOf(t) PROVE IInv'
  <2> DEFINE a == call[t].address
             c == [call[t] EXCEPT !.step = "matched", !.used = index'[a]]
  <2>1. FreshCall(t) /\ call[t].step = "index" /\ call[t] \in AnyCall /\ a \in Address
    BY <1>8 DEF IInv, IndexOf, FreshCall
  <2>2. index' \in [Address -> AnyDrawing]
    BY <1>8, <2>1 DEF IndexOf, IInv
  <2>3. call' = [call EXCEPT ![t] = c] /\ UNCHANGED <<blob, parsed, shapes, heap>>
    <3> DEFINE d == index'[a]
    <3>1. call' = [call EXCEPT ![t].step = "matched", ![t].used = d]
          /\ UNCHANGED <<blob, parsed, shapes, heap>>
      BY <1>8 DEF IndexOf
    <3> HIDE DEF d
    <3>2. call' = [call EXCEPT ![t] = [call[t] EXCEPT !.step = "matched", !.used = d]]
      BY <3>1 DEF IInv
    <3> QED
      BY <3>1, <3>2 DEF d
  <2>4. c \in AnyCall /\ c.step = "matched" /\ c.address = call[t].address /\ c.token = call[t].token
        /\ c.began = call[t].began /\ c.file = call[t].file
    BY <2>1, <2>2 DEF AnyCall
  <2>5. call'[t] = c
    BY <2>3 DEF IInv
  <2> HIDE DEF c, a
  <2>6. FreshCall(t)'
    BY <2>1, <2>3, <2>4, <2>5 DEF FreshCall
  <2> QED
    BY <2>2, <2>3, <2>4, <2>6, ThreadStep DEF IInv
<1>9. ASSUME NEW t \in Thread, Return(t) PROVE IInv'
  <2>1. Idle \in AnyCall /\ Idle.step = "idle"
    BY <1>0 DEF Idle, AnyCall
  <2>2. call' = [call EXCEPT ![t] = Idle] /\ UNCHANGED <<blob, parsed, shapes, heap, index>>
    BY <1>9 DEF Return
  <2>3. FreshCall(t)'
    BY <2>1, <2>2 DEF FreshCall, IInv
  <2> QED
    BY <2>1, <2>2, <2>3, ThreadStep DEF IInv
<1>10. ASSUME NEW f \in File, Put(f) PROVE IInv'
  <2>1. /\ blob' \in [File -> Generation]
        /\ \A g \in File : blob'[g] >= blob[g]
        /\ UNCHANGED <<parsed, shapes, heap, index, call>>
    BY <1>10, ShapeCacheAssumption DEF Put, IInv, Generation
  <2>2. ASSUME NEW t \in Thread PROVE FreshCall(t)'
    <3>1. FreshCall(t) /\ call[t].token \in Generation
      BY DEF IInv, AnyCall
    <3>2. \A g \in File : blob[g] \in Nat /\ blob'[g] \in Nat
      BY <1>0, <2>1 DEF IInv
    <3>3. call[t].step # "idle" => call[t].token <= blob'[call[t].file]
      BY <1>0, <2>1, <3>1, <3>2 DEF FreshCall
    <3> QED
      BY <2>1, <3>1, <3>3 DEF FreshCall
  <2>3. FreshShapes' = FreshShapes
    BY <2>1 DEF FreshShapes
  <2> QED
    BY <2>1, <2>2, <2>3 DEF IInv
<1>11. CASE UNCHANGED vars
  BY <1>11 DEF vars, IInv, FreshCall, FreshShapes
<1> QED
  BY <1>1, <1>2, <1>3, <1>4, <1>5, <1>6, <1>7, <1>8, <1>9, <1>10, <1>11 DEF Next

(* _shapes_for, for any threads, files and capacity of the caches: what a  *)
(* request matches against is no older than the blob was when it began.    *)
THEOREM ServesNoOlderDrawing == Spec => []NoOlderDrawing
<1>1. IInv => NoOlderDrawing
  <2> SUFFICES ASSUME IInv, NEW t \in Thread, call[t].step = "index"
               PROVE  heap[call[t].address].gen >= call[t].began
    BY DEF NoOlderDrawing
  <2>1. FreshCall(t) /\ call[t] \in AnyCall
    BY DEF IInv
  <2>2. call[t].address \in Address /\ heap[call[t].address].gen >= call[t].token
        /\ call[t].began <= call[t].token
    BY <2>1 DEF FreshCall
  <2>3. /\ heap[call[t].address].gen \in Nat
        /\ call[t].began \in Nat /\ call[t].token \in Nat
    BY <2>1, <2>2, ShapeCacheAssumption DEF IInv, AnyDrawing, AnyCall, Generation
  <2> QED
    BY <2>2, <2>3
<1> QED
  BY InitInvariant, StepInvariant, <1>1, PTL DEF Spec

-----------------------------------------------------------------------------
(* The discovery of a drawing's tabs and layers.                           *)

CONSTANTS TabOrder, Layer, Drawings, Model, Slots, MaxAttempts, MaxJobs, MaxCrashes

VARIABLES upload, status, chosen, manifest, svgs, cache, jobs, shown, crashes

D == INSTANCE Discovery WITH drawing <- upload

LEMMA SameSizes ==
  \A S : D!Cardinality(S) = Cardinality(S) /\ D!IsFiniteSet(S) = IsFiniteSet(S)
<1>1. \A S : D!Cardinality(S) = Cardinality(S)
  BY DEF D!Cardinality, Cardinality
<1>2. \A S : D!IsFiniteSet(S) = IsFiniteSet(S)
  BY DEF D!IsFiniteSet, IsFiniteSet
<1> QED
  BY <1>1, <1>2

(* Of finitely many numbers one is the greatest: the one that fewest       *)
(* exceed, because finite sets are well-founded under inclusion.           *)
LEMMA Greatest ==
  ASSUME NEW n \in Nat, NEW T \in SUBSET (1..n), T # {}, NEW f \in [1..n -> Nat]
  PROVE  \E i \in T : \A k \in T : f[k] <= f[i]
<1> DEFINE above(i) == {k \in T : f[k] > f[i]}
           U == {above(i) : i \in T}
<1>1. IsFiniteSet(1..n)
  BY FS_Interval
<1>2. IsFiniteSet(T)
  BY <1>1, FS_Subset
<1>3. \A i \in T : above(i) \in SUBSET T
  OBVIOUS
<1>4. U \subseteq FiniteSubsetsOf(T)
  <2>1. \A i \in T : above(i) \in FiniteSubsetsOf(T)
    BY <1>2, <1>3, FS_Subset DEF FiniteSubsetsOf
  <2> QED
    BY <2>1
<1>5. PICK u \in U : \A w \in U : <<w, u>> \notin StrictSubsetOrdering(T)
  <2>1. U # {}
    OBVIOUS
  <2>2. IsWellFoundedOn(StrictSubsetOrdering(T), FiniteSubsetsOf(T))
    BY FS_StrictSubsetOrderingWellFounded
  <2> HIDE DEF U
  <2> QED
    BY <1>4, <2>1, <2>2, WFMin
<1>6. PICK i \in T : u = above(i)
  BY <1>5
<1>7. ASSUME NEW k \in T, ~(f[k] <= f[i]) PROVE FALSE
  <2>1. f[k] \in Nat /\ f[i] \in Nat /\ f[k] > f[i]
    BY <1>7
  <2>2. \A j \in above(k) : j \in above(i)
    BY <2>1
  <2>3. k \in above(i) /\ k \notin above(k)
    BY <2>1
  <2>4. above(k) \subseteq above(i) /\ above(k) # above(i)
    BY <2>2, <2>3
  <2>5. <<above(k), u>> \in StrictSubsetOrdering(T)
    BY <1>3, <1>6, <2>4 DEF StrictSubsetOrdering
  <2> QED
    BY <1>5, <2>5
<1> QED
  BY <1>7

(* Among the tabs the one with the most entities, the first of them.       *)
LEMMA RichestIsTab ==
  ASSUME D!DiscoveryAssumption, upload \in Drawings, D!Tab # {}
  PROVE  D!Richest \in D!Tab
<1> DEFINE n == Len(TabOrder)
           c == [i \in 1..n |-> D!Count(TabOrder[i])]
           most == {i \in 1..n : \A k \in 1..n : c[k] <= c[i]}
<1>1. n \in Nat /\ DOMAIN TabOrder = 1..n /\ 1..n # {}
      /\ \A i \in 1..n : TabOrder[i] \in D!Tab
  <2>1. TabOrder \in Seq(D!Tab)
    BY DEF D!DiscoveryAssumption
  <2>2. Len(TabOrder) \in Nat /\ DOMAIN TabOrder = 1..Len(TabOrder)
        /\ \A i \in 1..Len(TabOrder) : TabOrder[i] \in D!Tab
    BY <2>1
  <2>3. DOMAIN TabOrder # {}
    BY DEF D!Tab
  <2> QED
    BY <2>2, <2>3
<1>2. \A i \in 1..n : D!Count(TabOrder[i]) \in Nat
  <2> SUFFICES ASSUME NEW i \in 1..n PROVE D!Count(TabOrder[i]) \in Nat
    OBVIOUS
  <2>1. TabOrder[i] \in D!Tab
    BY <1>1
  <2>2. upload[TabOrder[i]] \in D!Content
    BY <2>1 DEF D!DiscoveryAssumption
  <2>3. upload[TabOrder[i]].dull \in Nat /\ upload[TabOrder[i]].drawn \in SUBSET Layer
    BY <2>2 DEF D!Content
  <2>4. Cardinality(upload[TabOrder[i]].drawn) \in Nat
    BY <2>3, SameSizes, FS_Subset, FS_CardinalityType DEF D!DiscoveryAssumption
  <2> QED
    BY <2>3, <2>4, SameSizes DEF D!Count
<1>3. c \in [1..n -> Nat]
  BY <1>2
<1>4. most # {} /\ most \in SUBSET (1..n)
  <2> HIDE DEF n, c
  <2> QED
    BY <1>1, <1>3, Greatest
<1>5. PICK i \in most : \A k \in most : n - k <= n - i
  <2> DEFINE d == [j \in 1..n |-> n - j]
  <2>1. d \in [1..n -> Nat]
    BY <1>1
  <2>2. \E i \in most : \A k \in most : d[k] <= d[i]
    <3> HIDE DEF n, c, most, d
    <3> QED
      BY <1>1, <1>4, <2>1, Greatest
  <2> QED
    BY <1>4, <2>2
<1>6. i \in DOMAIN TabOrder
      /\ (\A k \in DOMAIN TabOrder : D!Count(TabOrder[k]) <= D!Count(TabOrder[i]))
  BY <1>1, <1>5
<1>7. \A k \in 1..(i - 1) : k \in 1..n /\ k \notin most
  <2> HIDE DEF most, c
  <2> QED
    BY <1>1, <1>4, <1>5
<1>8. \A k \in 1..(i - 1) :
        ~ \A j \in DOMAIN TabOrder : D!Count(TabOrder[j]) <= D!Count(TabOrder[k])
  BY <1>1, <1>7
<1> QED
  BY <1>1, <1>6, <1>8 DEF D!Richest

-----------------------------------------------------------------------------
(* What a discovery of each tab, or of none, offers.                       *)

Name == D!Tab \cup {None}

Offer == [n \in Name |-> [tab |-> D!Resolve(n), folder |-> D!Folder(n), names |-> D!Listed(n)]]

AnyOffer == [tab : D!Tab \cup {Model}, folder : D!Folders, names : SUBSET (D!Tab \cup Layer)]

Fits(o) == /\ o.folder = "layouts" => o.names \subseteq D!Tab
           /\ o.folder = "layers" => o.names \subseteq Layer

LEMMA OfferFits ==
  ASSUME D!DiscoveryAssumption, upload \in Drawings, NEW n \in Name
  PROVE  /\ Offer[n] \in AnyOffer /\ Fits(Offer[n])
         /\ Offer[n].tab = D!Resolve(n) /\ Offer[n].folder = D!Folder(n)
         /\ Offer[n].names = D!Listed(n)
         /\ D!Picks(n) <=> Offer[n].folder = "layouts"
<1>1. D!Resolve(n) \in D!Tab \cup {Model}
  <2>1. D!PaperTabs # {} => D!Tab # {}
    BY DEF D!PaperTabs
  <2> QED
    BY <2>1, RichestIsTab DEF D!Resolve, Name
<1>2. D!Picks(n) => D!Folder(n) = "layouts" /\ D!Listed(n) \subseteq D!Tab
  BY DEF D!Folder, D!Listed, D!Offered, D!PaperTabs
<1>3. ~D!Picks(n) => D!Folder(n) = "layers" /\ D!Listed(n) \subseteq Layer
  <2>1. upload[D!Resolve(n)] \in D!Content
    BY <1>1 DEF D!DiscoveryAssumption
  <2>2. upload[D!Resolve(n)].drawn \subseteq Layer
    BY <2>1 DEF D!Content
  <2> QED
    BY <2>2 DEF D!Folder, D!Listed, D!Rendered
<1>4. /\ Offer[n].tab = D!Resolve(n) /\ Offer[n].folder = D!Folder(n)
      /\ Offer[n].names = D!Listed(n)
      /\ Offer[n] = [tab |-> D!Resolve(n), folder |-> D!Folder(n), names |-> D!Listed(n)]
  BY DEF Offer
<1>5. Offer[n] \in AnyOffer
  BY <1>1, <1>2, <1>3, <1>4 DEF AnyOffer, D!Folders
<1>6. Fits(Offer[n]) /\ (D!Picks(n) <=> Offer[n].folder = "layouts")
  BY <1>2, <1>3, <1>4 DEF Fits
<1> QED
  BY <1>4, <1>5, <1>6

LEMMA OfferKept == upload' = upload => Offer' = Offer
  BY DEF Offer, Name, D!Tab, D!Folder, D!Listed, D!Resolve, D!Picks, D!Richest, D!PaperTabs,
     D!Offered, D!Rendered, D!Count

Running == {j \in DOMAIN jobs : jobs[j].state = "running"}

JobOK(b) ==
  /\ b.todo \subseteq Offer[b.tab].names
  /\ b.state = "settled" \/ (b.state = "running" /\ b.step # "svgs") => b.todo = {}
  /\ b.state = "queued" => b.attempts < MaxAttempts
  /\ b.state = "running" /\ b.step = "drop" => b.stale \cap Offer[b.tab].names = {}
  /\ b.state = "running" /\ b.step = "cache" => Offer[b.tab].folder = "layers"

JobsOK ==
  /\ jobs \in Seq(D!Job) /\ Len(jobs) <= MaxJobs
  /\ \A j \in DOMAIN jobs : JobOK(jobs[j])
  /\ Cardinality(Running) <= Slots

StoreOK ==
  /\ upload \in Drawings
  /\ status \in {"discovering", "awaiting_layout", "awaiting_layers", "error"}
  /\ chosen \in Name
  /\ manifest \in [D!Folders -> {None} \cup D!Manifest]
  /\ svgs \in [D!Folders -> SUBSET (D!Tab \cup Layer)]
  /\ svgs["layouts"] \subseteq D!Tab /\ svgs["layers"] \subseteq Layer
  /\ cache \in D!Tab \cup {Model, None}
  /\ shown \in [tab : Name, rival : BOOLEAN]

DInv == JobsOK /\ StoreOK /\ (D!Settled => status # "discovering")

(* What is in the store of what a discovery offers.                        *)
Complete(o) == o.names \subseteq svgs[o.folder]
Said(o) == manifest[o.folder] = [tab |-> o.tab, names |-> o.names]
Cached(o) == o.folder = "layers" => cache = o.tab

(* How far a running job is.                                               *)
InHand(b, o) ==
  /\ b.step = "svgs" => o.names \ b.todo \subseteq svgs[o.folder]
  /\ b.step # "svgs" => Complete(o)
  /\ b.step \in {"cache", "report"} => Said(o)
  /\ b.step = "report" => Cached(o)

(* A picker that is open is that of the offer, and complete.               *)
Ended(o) ==
  /\ status = "awaiting_layout" => o.folder = "layouts" /\ Complete(o) /\ Said(o)
  /\ status = "awaiting_layers" => o.folder = "layers" /\ Complete(o) /\ Said(o) /\ Cached(o)

Same(n) == \A i \in DOMAIN jobs : jobs[i].state = "running" => jobs[i].tab = n

(* A job past its manifest, and an open picker, have one.                  *)
Manifests ==
  /\ \A j \in DOMAIN jobs : jobs[j].state = "running" /\ jobs[j].step \in {"cache", "report"}
                             => manifest[Offer[jobs[j].tab].folder] # None
  /\ status = "awaiting_layout" => manifest["layouts"] # None
  /\ status = "awaiting_layers" => manifest["layers"] # None

(* What a job without a rival has written is there.                        *)
Undisturbed(j) ==
  jobs[j].state = "running" /\ ~jobs[j].rival
    => InHand(jobs[j], Offer[jobs[j].tab]) /\ Same(jobs[j].tab)

(* So is what the last job to report has, if it had none.                  *)
Standing == ~shown.rival => Ended(Offer[shown.tab]) /\ Same(shown.tab)

PInv == Manifests /\ (\A j \in DOMAIN jobs : Undisturbed(j)) /\ Standing

(* One job becomes b, the others stay in their states.                     *)
LEMMA JobsMoved ==
  ASSUME D!DiscoveryAssumption, JobsOK, upload' = upload, NEW j \in DOMAIN jobs, NEW b \in D!Job,
         JobOK(b), jobs' \in Seq(D!Job), Len(jobs') = Len(jobs), jobs'[j] = b,
         \A i \in DOMAIN jobs : i # j => jobs'[i].state = jobs[i].state /\ JobOK(jobs'[i]),
         b.state # "running" \/ jobs[j].state = "running" \/ Cardinality(Running) < Slots
  PROVE  JobsOK' /\ DOMAIN jobs' = DOMAIN jobs
<1>1. /\ jobs \in Seq(D!Job) /\ Len(jobs) \in Nat /\ DOMAIN jobs = 1..Len(jobs)
      /\ DOMAIN jobs' = DOMAIN jobs
  BY DEF JobsOK
<1>3. \A i \in DOMAIN jobs' : JobOK(jobs[i])'
  <2>1. ASSUME NEW i \in DOMAIN jobs PROVE JobOK(jobs[i])'
    <3>1. JobOK(jobs'[i])
      OBVIOUS
    <3> QED
      BY <3>1, OfferKept DEF JobOK
  <2> QED
    BY <1>1, <2>1
<1>4. Cardinality(Running') <= Slots
  <2>1. IsFiniteSet(DOMAIN jobs)
    BY <1>1, FS_Interval
  <2>2. IsFiniteSet(Running) /\ Running \subseteq DOMAIN jobs
    BY <2>1, FS_Subset DEF Running
  <2>3. Cardinality(Running) \in Nat /\ Slots \in Nat
    BY <2>2, FS_CardinalityType DEF D!DiscoveryAssumption
  <2>4. CASE b.state # "running" \/ jobs[j].state = "running"
    <3>1. Running' \subseteq Running
      BY <1>1, <2>4 DEF Running
    <3>2. Cardinality(Running') <= Cardinality(Running) /\ Cardinality(Running') \in Nat
      BY <2>2, <3>1, FS_Subset, FS_CardinalityType
    <3> QED
      BY <2>3, <3>2 DEF JobsOK
  <2>5. CASE Cardinality(Running) < Slots
    <3>1. Running' \subseteq Running \cup {j}
      BY <1>1 DEF Running
    <3>2. IsFiniteSet(Running \cup {j}) /\ Cardinality(Running \cup {j}) <= Cardinality(Running) + 1
      <4>1. /\ IsFiniteSet(Running \cup {j})
            /\ Cardinality(Running \cup {j}) =
                 IF j \in Running THEN Cardinality(Running) ELSE Cardinality(Running) + 1
        BY <2>2, FS_AddElement
      <4> QED
        BY <2>3, <4>1
    <3>3. /\ Cardinality(Running') <= Cardinality(Running \cup {j})
          /\ Cardinality(Running') \in Nat /\ Cardinality(Running \cup {j}) \in Nat
      BY <3>1, <3>2, FS_Subset, FS_CardinalityType
    <3> QED
      BY <2>3, <2>5, <3>2, <3>3
  <2> QED
    BY <2>4, <2>5
<1> QED
  BY <1>1, <1>3, <1>4 DEF JobsOK

LEMMA JobMoved ==
  ASSUME D!DiscoveryAssumption, JobsOK, upload' = upload, NEW j \in DOMAIN jobs, NEW b \in D!Job,
         JobOK(b), jobs' = [jobs EXCEPT ![j] = b],
         b.state # "running" \/ jobs[j].state = "running"
  PROVE  /\ JobsOK' /\ jobs'[j] = b /\ DOMAIN jobs' = DOMAIN jobs
         /\ \A i \in DOMAIN jobs : i # j => jobs'[i] = jobs[i]
<1>1. /\ jobs' \in Seq(D!Job) /\ jobs'[j] = b /\ DOMAIN jobs' = DOMAIN jobs /\ Len(jobs') = Len(jobs)
      /\ \A i \in DOMAIN jobs : i # j => jobs'[i] = jobs[i]
  BY DEF JobsOK
<1>2. \A i \in DOMAIN jobs : i # j => jobs'[i].state = jobs[i].state /\ JobOK(jobs'[i])
  BY <1>1 DEF JobsOK
<1> QED
  BY <1>1, <1>2, JobsMoved

LEMMA JobAdded ==
  ASSUME D!DiscoveryAssumption, JobsOK, upload' = upload, NEW n \in Name,
         Len(jobs) < MaxJobs, jobs' = Append(jobs, D!Queued(n))
  PROVE  /\ JobsOK' /\ Len(jobs') = Len(jobs) + 1 /\ jobs'[Len(jobs')] = D!Queued(n)
         /\ \A i \in DOMAIN jobs' : i # Len(jobs') => i \in DOMAIN jobs /\ jobs'[i] = jobs[i]
<1>1. jobs \in Seq(D!Job) /\ Len(jobs) \in Nat /\ DOMAIN jobs = 1..Len(jobs)
      /\ MaxAttempts \in Nat /\ 0 < MaxAttempts /\ MaxJobs \in Nat
  BY DEF JobsOK, D!DiscoveryAssumption
<1> DEFINE b == D!Queued(n)
<1>2. b \in D!Job /\ b.state = "queued" /\ b.attempts = 0 /\ b.todo = {} /\ b.tab = n
  BY <1>1 DEF D!Queued, D!Job, D!Steps, Name
<1> HIDE DEF b
<1>3. /\ jobs' \in Seq(D!Job) /\ Len(jobs') = Len(jobs) + 1 /\ jobs'[Len(jobs')] = b
      /\ \A i \in DOMAIN jobs : jobs'[i] = jobs[i]
      /\ DOMAIN jobs' = 1..(Len(jobs) + 1)
  BY <1>1, <1>2, AppendProperties DEF b
<1>4. \A i \in DOMAIN jobs' : JobOK(jobs[i])'
  <2>1. ASSUME NEW i \in DOMAIN jobs' PROVE JobOK(jobs[i])'
    <3>1. i \in DOMAIN jobs \/ i = Len(jobs')
      BY <1>1, <1>3
    <3>2. JobOK(jobs'[i])
      <4>1. CASE i \in DOMAIN jobs
        BY <1>3, <4>1 DEF JobsOK
      <4>2. CASE i = Len(jobs')
        BY <1>1, <1>2, <1>3, <4>2 DEF JobOK
      <4> QED
        BY <3>1, <4>1, <4>2
    <3> QED
      BY <3>2, OfferKept DEF JobOK
  <2> QED
    BY <2>1
<1>5. Running' = Running
  BY <1>1, <1>2, <1>3 DEF Running
<1> QED
  BY <1>1, <1>3, <1>4, <1>5 DEF JobsOK, b

-----------------------------------------------------------------------------
(* Types, whoever asks for how many discoveries at once.                   *)

SameStore == UNCHANGED <<upload, status, chosen, manifest, svgs, cache, shown>>

LEMMA StoreKept ==
  ASSUME StoreOK, SameStore PROVE StoreOK'
  BY DEF StoreOK, SameStore, Name, D!Tab, D!Folders, D!Manifest

LEMMA SettledMeans ==
  D!Settled <=> \A j \in DOMAIN jobs : jobs[j].state = "settled"
  BY DEF D!Settled

(* Another discovery is queued.                                            *)
LEMMA AskStep ==
  ASSUME D!DiscoveryAssumption, DInv,
         \/ D!Rediscover \/ D!Upload \/ \E t \in D!Tab : D!ConfirmLayout(t)
  PROVE  DInv' /\ (PInv => PInv')
<1>1. PICK n \in Name : D!Submit(n) /\ chosen' = n
  BY DEF D!Rediscover, D!Upload, D!ConfirmLayout, Name, DInv, StoreOK
<1>2. /\ Len(jobs) < MaxJobs /\ jobs' = Append(jobs, D!Queued(n)) /\ status' = "discovering"
      /\ UNCHANGED <<upload, manifest, svgs, cache, shown>>
  BY <1>1 DEF D!Submit
<1>3. /\ JobsOK' /\ Len(jobs') = Len(jobs) + 1 /\ jobs'[Len(jobs')] = D!Queued(n)
      /\ \A i \in DOMAIN jobs' : i # Len(jobs') => i \in DOMAIN jobs /\ jobs'[i] = jobs[i]
  BY <1>2, JobAdded DEF DInv
<1>4. StoreOK'
  BY <1>1, <1>2 DEF DInv, StoreOK, Name, D!Tab, D!Folders, D!Manifest
<1>5. ~D!Settled'
  <2>1. Len(jobs') \in DOMAIN jobs' /\ jobs'[Len(jobs')].state = "queued"
    BY <1>3 DEF D!Queued, DInv, JobsOK
  <2> QED
    BY <2>1 DEF D!Settled
<1>6. ASSUME PInv PROVE PInv'
  <2>1. \A i \in DOMAIN jobs' : jobs'[i].state = "running" => i \in DOMAIN jobs /\ jobs'[i] = jobs[i]
    <3>1. D!Queued(n).state = "queued"
      BY DEF D!Queued
    <3> QED
      BY <1>3, <3>1
  <2>2. Offer' = Offer
    BY <1>2, OfferKept
  <2>3. \A m : Same(m) => Same(m)'
    BY <2>1 DEF Same
  <2>4. Manifests'
    BY <1>2, <1>6, <2>1, <2>2 DEF PInv, Manifests
  <2>5. ASSUME NEW i \in DOMAIN jobs' PROVE Undisturbed(i)'
    <3>1. CASE jobs'[i].state = "running"
      <4>1. i \in DOMAIN jobs /\ jobs'[i] = jobs[i] /\ Undisturbed(i)
        BY <1>6, <2>1, <2>5, <3>1 DEF PInv
      <4>2. Same(jobs[i].tab) => Same(jobs[i].tab)'
        BY <2>1, <4>1 DEF Same
      <4> QED
        BY <1>2, <2>2, <3>1, <4>1, <4>2 DEF Undisturbed, InHand, Complete, Said, Cached
    <3> QED
      BY <3>1 DEF Undisturbed
  <2>6. Standing'
    <3>1. Same(shown.tab) => Same(shown.tab)'
      BY <1>2, <2>1 DEF Same
    <3> QED
      BY <1>2, <1>6, <2>2, <3>1 DEF PInv, Standing, Ended
  <2> QED
    BY <2>4, <2>5, <2>6 DEF PInv
<1> QED
  BY <1>3, <1>4, <1>5, <1>6 DEF DInv

(* What the offers give a step of job j.                                   *)
LEMMA OfferOf ==
  ASSUME D!DiscoveryAssumption, DInv, NEW j \in DOMAIN jobs
  PROVE  /\ jobs[j] \in D!Job /\ jobs[j].tab \in Name /\ JobOK(jobs[j])
         /\ Offer[jobs[j].tab] \in AnyOffer /\ Fits(Offer[jobs[j].tab])
         /\ D!Resolve(jobs[j].tab) = Offer[jobs[j].tab].tab
         /\ D!Folder(jobs[j].tab) = Offer[jobs[j].tab].folder
         /\ D!Listed(jobs[j].tab) = Offer[jobs[j].tab].names
         /\ D!Picks(jobs[j].tab) <=> Offer[jobs[j].tab].folder = "layouts"
<1>1. jobs[j] \in D!Job
  BY DEF DInv, JobsOK
<1>2. jobs[j].tab \in Name
  BY <1>1 DEF D!Job, Name
<1>3. upload \in Drawings
  BY DEF DInv, StoreOK
<1> QED
  BY <1>1, <1>2, <1>3, OfferFits DEF DInv, JobsOK


-----------------------------------------------------------------------------
(* One step of the worker.                                                 *)

(* What a job writes takes nothing from what its offer needs.              *)
Better(o) ==
  /\ svgs[o.folder] \cap o.names \subseteq svgs'[o.folder]
  /\ manifest'[o.folder] \in {manifest[o.folder], [tab |-> o.tab, names |-> o.names]}
  /\ cache' \in {cache, o.tab}

LEMMA InHandKept ==
  ASSUME NEW c, NEW o, InHand(c, o), Better(o) PROVE InHand(c, o)'
<1>1. o.names \subseteq svgs[o.folder] => o.names \subseteq svgs'[o.folder]
  BY DEF Better
<1>2. o.names \ c.todo \subseteq svgs[o.folder] => o.names \ c.todo \subseteq svgs'[o.folder]
  BY DEF Better
<1> QED
  BY <1>1, <1>2 DEF InHand, Complete, Said, Cached, Better

LEMMA EndedKept ==
  ASSUME NEW o, Ended(o), Better(o), status' = status PROVE Ended(o)'
<1>1. o.names \subseteq svgs[o.folder] => o.names \subseteq svgs'[o.folder]
  BY DEF Better
<1> QED
  BY <1>1 DEF Ended, Complete, Said, Cached, Better

(* Job j, of offer o, becomes b.                                           *)
LEMMA JobStep ==
  ASSUME D!DiscoveryAssumption, DInv, NEW j \in DOMAIN jobs, NEW b \in D!Job, JobOK(b),
         jobs' = [jobs EXCEPT ![j] = b], UNCHANGED <<upload, chosen, status, shown>>, StoreOK',
         b.state # "running" \/ jobs[j].state = "running",
         b.tab = jobs[j].tab, b.rival = jobs[j].rival,
         jobs[j].state # "settled", b.state # "settled",
         NEW o, o = Offer[jobs[j].tab],
         \/ SameStore
         \/ jobs[j].state = "running" /\ Better(o),
         \A d \in D!Folders : manifest[d] # None => manifest'[d] # None,
         b.state = "running" /\ InHand(jobs[j], o) => InHand(b, o)',
         b.state = "running" /\ b.step \in {"cache", "report"}
           => \/ manifest'[o.folder] # None
              \/ jobs[j].step \in {"cache", "report"}
  PROVE  DInv' /\ (PInv => PInv')
<1>1. /\ JobsOK' /\ jobs'[j] = b /\ DOMAIN jobs' = DOMAIN jobs
      /\ \A i \in DOMAIN jobs : i # j => jobs'[i] = jobs[i]
  BY JobMoved DEF DInv
<1>2. DInv'
  <2>1. ~D!Settled'
    BY <1>1 DEF D!Settled
  <2> QED
    BY <1>1, <2>1 DEF DInv
<1>3. Offer' = Offer
  BY OfferKept
<1>o. \A i \in DOMAIN jobs : Offer[jobs[i].tab].folder \in D!Folders
  <2> SUFFICES ASSUME NEW i \in DOMAIN jobs PROVE Offer[jobs[i].tab].folder \in D!Folders
    OBVIOUS
  <2> QED
    BY OfferOf DEF AnyOffer
<1>4. \A m : Same(m) => Same(m)'
  BY <1>1 DEF Same
<1>5. ASSUME PInv PROVE PInv'
  <2>1. Manifests'
    <3>1. ASSUME NEW i \in DOMAIN jobs', jobs'[i].state = "running",
                 jobs'[i].step \in {"cache", "report"}
          PROVE  manifest'[Offer[jobs'[i].tab].folder] # None
      <4>1. CASE i = j
        <5>1. jobs[j].state = "running" /\ b.state = "running" /\ b.step \in {"cache", "report"}
          BY <1>1, <3>1, <4>1
        <5>2. jobs[j].step \in {"cache", "report"} => manifest'[o.folder] # None
          BY <1>o, <1>5, <5>1 DEF PInv, Manifests
        <5> QED
          BY <1>1, <4>1, <5>1, <5>2
      <4>2. CASE i # j
        BY <1>1, <1>o, <1>5, <3>1, <4>2 DEF PInv, Manifests
      <4> QED
        BY <4>1, <4>2
    <3>2. "layouts" \in D!Folders /\ "layers" \in D!Folders
      BY DEF D!Folders
    <3> QED
      BY <1>3, <1>5, <3>1, <3>2 DEF PInv, Manifests
  <2>2. ASSUME NEW i \in DOMAIN jobs' PROVE Undisturbed(i)'
    <3>1. PICK c : c = jobs'[i]
      OBVIOUS
    <3>2. PICK n : n = c.tab
      OBVIOUS
    <3>3. PICK p : p = Offer[n]
      OBVIOUS
    <3>4. ASSUME c.state = "running", ~c.rival PROVE InHand(c, p)' /\ Same(n)'
      <4>1. i \in DOMAIN jobs /\ jobs[i].tab = n /\ jobs[i].state = "running" /\ ~jobs[i].rival
        BY <1>1, <3>1, <3>2, <3>4
      <4>2. InHand(jobs[i], p) /\ Same(n)
        BY <1>5, <3>3, <4>1 DEF PInv, Undisturbed
      <4>3. CASE i = j
        BY <1>1, <1>4, <3>1, <3>2, <3>3, <3>4, <4>1, <4>2, <4>3
      <4>4. CASE i # j
        <5>1. c = jobs[i]
          BY <1>1, <3>1, <4>1, <4>4
        <5>2. jobs[j].state = "running" => o = p
          BY <3>3, <4>2 DEF Same
        <5>3. Better(p)
          BY <5>2 DEF SameStore, Better
        <5> QED
          BY <1>4, <4>2, <5>1, <5>3, InHandKept
      <4> QED
        BY <4>3, <4>4
    <3> QED
      BY <1>3, <3>1, <3>2, <3>3, <3>4 DEF Undisturbed, InHand, Complete, Said, Cached, Same
  <2>3. Standing'
    <3>1. PICK p : p = Offer[shown.tab]
      OBVIOUS
    <3>2. PICK n : n = shown.tab
      OBVIOUS
    <3>3. ASSUME ~shown.rival PROVE Ended(p)' /\ Same(n)'
      <4>1. Ended(p) /\ Same(n)
        BY <1>5, <3>1, <3>2, <3>3 DEF PInv, Standing
      <4>2. jobs[j].state = "running" => o = p
        BY <3>1, <3>2, <4>1 DEF Same
      <4>3. Better(p)
        BY <4>2 DEF SameStore, Better
      <4> QED
        BY <1>4, <4>1, <4>3, EndedKept
    <3> QED
      BY <1>3, <3>1, <3>2, <3>3 DEF Standing, Ended, Complete, Said, Cached, Same
  <2> QED
    BY <2>1, <2>2, <2>3 DEF PInv
<1> QED
  BY <1>2, <1>5

(* Steps of a job that write nothing to the store.                         *)
LEMMA OwnStep ==
  ASSUME D!DiscoveryAssumption, DInv, NEW j \in DOMAIN jobs,
         D!ReadOldManifest(j) \/ D!Crash(j) \/ D!Requeue(j)
  PROVE  DInv' /\ (PInv => PInv')
<1>0. PICK o : o = Offer[jobs[j].tab]
  OBVIOUS
<1>1. /\ jobs[j] \in D!Job /\ JobOK(jobs[j]) /\ o \in AnyOffer
      /\ D!Folder(jobs[j].tab) = o.folder /\ D!Listed(jobs[j].tab) = o.names
  BY <1>0, OfferOf
<1>2. SameStore /\ StoreOK'
  BY StoreKept DEF SameStore, DInv, D!ReadOldManifest, D!Crash, D!Requeue
<1>3. ASSUME NEW b \in D!Job, JobOK(b), jobs' = [jobs EXCEPT ![j] = b], b.tab = jobs[j].tab,
             b.rival = jobs[j].rival, b.state # "running" \/ jobs[j].state = "running",
             b.state # "settled", jobs[j].state # "settled",
             b.state = "running" => b.step = "drop" /\ (InHand(jobs[j], o) => InHand(b, o))
      PROVE  DInv' /\ (PInv => PInv')
  <2>1. InHand(b, o) => InHand(b, o)'
    BY <1>2 DEF SameStore, InHand, Complete, Said, Cached
  <2>2. UNCHANGED <<upload, chosen, status, shown, manifest>>
    BY <1>2 DEF SameStore
  <2> QED
    BY <1>0, <1>2, <1>3, <2>1, <2>2, JobStep
<1>5. CASE D!ReadOldManifest(j)
  <2> DEFINE ks == D!ManifestKeys(D!Folder(jobs[j].tab)) \ D!Listed(jobs[j].tab)
             b == [jobs[j] EXCEPT !.step = "drop", !.stale = ks]
  <2>1. /\ jobs' = [jobs EXCEPT ![j] = b] /\ jobs[j].state = "running"
        /\ jobs[j].todo = {} /\ jobs[j].step = "svgs"
    BY <1>1, <1>5 DEF D!ReadOldManifest, D!At, D!IsRunning, DInv, JobsOK
  <2>2. ks \in SUBSET (D!Tab \cup Layer) /\ ks \cap o.names = {}
    <3>1. manifest[o.folder] \in {None} \cup D!Manifest
      BY <1>1 DEF AnyOffer, DInv, StoreOK
    <3> QED
      BY <1>1, <3>1 DEF D!ManifestKeys, D!Manifest
  <2> HIDE DEF ks
  <2>3. b \in D!Job /\ b.state = "running" /\ b.todo = {} /\ b.tab = jobs[j].tab
        /\ b.step = "drop" /\ b.stale = ks /\ b.rival = jobs[j].rival
    BY <1>1, <2>1, <2>2 DEF D!Job, D!Steps
  <2> HIDE DEF b
  <2>4. JobOK(b)
    BY <1>0, <2>2, <2>3 DEF JobOK
  <2>5. InHand(jobs[j], o) => InHand(b, o)
    BY <2>1, <2>3 DEF InHand, Complete
  <2> QED
    BY <1>3, <2>1, <2>3, <2>4, <2>5
<1>6. CASE D!Crash(j)
  <2> DEFINE b == [jobs[j] EXCEPT !.state = "lost"]
  <2>1. jobs' = [jobs EXCEPT ![j] = b] /\ jobs[j].state = "running"
    BY <1>1, <1>6 DEF D!Crash, D!IsRunning, DInv, JobsOK
  <2>2. b \in D!Job /\ b.state = "lost" /\ b.todo = jobs[j].todo /\ b.tab = jobs[j].tab
        /\ b.rival = jobs[j].rival
    BY <1>1 DEF D!Job
  <2>3. JobOK(b)
    BY <1>1, <2>2 DEF JobOK
  <2> HIDE DEF b
  <2> QED
    BY <1>3, <2>1, <2>2, <2>3
<1>7. CASE D!Requeue(j)
  <2> DEFINE b == [jobs[j] EXCEPT !.state = "queued"]
  <2>1. jobs' = [jobs EXCEPT ![j] = b] /\ jobs[j].state = "lost" /\ jobs[j].attempts < MaxAttempts
    BY <1>1, <1>7 DEF D!Requeue, DInv, JobsOK
  <2>2. b \in D!Job /\ b.state = "queued" /\ b.todo = jobs[j].todo /\ b.tab = jobs[j].tab
        /\ b.attempts = jobs[j].attempts /\ b.rival = jobs[j].rival
    BY <1>1 DEF D!Job
  <2>3. JobOK(b)
    BY <1>1, <2>1, <2>2 DEF JobOK
  <2> HIDE DEF b
  <2> QED
    BY <1>3, <2>1, <2>2, <2>3
<1> QED
  BY <1>5, <1>6, <1>7

(* A job is claimed: what runs of another tab becomes its rival.           *)
LEMMA ClaimStep ==
  ASSUME D!DiscoveryAssumption, DInv, NEW j \in DOMAIN jobs, D!Claim(j)
  PROVE  DInv' /\ (PInv => PInv')
<1>0. PICK o : o = Offer[jobs[j].tab]
  OBVIOUS
<1>n. PICK n : n = jobs[j].tab
  OBVIOUS
<1>1. /\ jobs[j] \in D!Job /\ JobOK(jobs[j]) /\ o \in AnyOffer
      /\ D!Listed(jobs[j].tab) = o.names
  BY <1>0, OfferOf
<1>j. /\ jobs \in Seq(D!Job) /\ Len(jobs) \in Nat /\ DOMAIN jobs = 1..Len(jobs)
      /\ \A i \in DOMAIN jobs : jobs[i] \in D!Job /\ JobOK(jobs[i])
  BY DEF DInv, JobsOK
<1> DEFINE r == \E k \in DOMAIN jobs : D!IsRunning(k) /\ D!Rival(k, j)
           b == [jobs[j] EXCEPT !.state = "running", !.attempts = @ + 1, !.step = "svgs",
                                !.todo = D!Listed(jobs[j].tab), !.rival = r]
           c(i) == [jobs[i] EXCEPT !.rival = @ \/ (D!IsRunning(i) /\ D!Rival(i, j))]
<1>2. /\ jobs[j].state = "queued" /\ D!Cardinality(Running) < Slots
      /\ jobs' = [i \in DOMAIN jobs |-> IF i = j THEN b ELSE c(i)]
      /\ shown' = [shown EXCEPT !.rival = @ \/ shown.tab # jobs[j].tab]
      /\ UNCHANGED <<upload, status, chosen, manifest, svgs, cache>>
  BY DEF D!Claim, D!IsRunning, Running
<1>r. r \in BOOLEAN /\ (r <=> ~Same(n))
  BY <1>n DEF D!IsRunning, D!Rival, Same
<1> HIDE DEF r
<1>3. /\ b \in D!Job /\ b.state = "running" /\ b.step = "svgs"
      /\ b.todo = o.names /\ b.tab = n /\ b.rival = r
  <2>1. jobs[j].attempts \in 0..MaxAttempts /\ jobs[j].attempts < MaxAttempts /\ MaxAttempts \in Nat
    BY <1>1, <1>2 DEF D!Job, JobOK, D!DiscoveryAssumption
  <2>2. jobs[j].attempts + 1 \in 0..MaxAttempts
    BY <2>1
  <2>3. o.names \in SUBSET (D!Tab \cup Layer)
    BY <1>1 DEF AnyOffer
  <2> QED
    BY <1>1, <1>n, <1>r, <2>2, <2>3 DEF D!Job, D!Steps
<1>4. ASSUME NEW i \in DOMAIN jobs, i # j
      PROVE  /\ c(i) \in D!Job /\ c(i).state = jobs[i].state /\ c(i).step = jobs[i].step
             /\ c(i).todo = jobs[i].todo /\ c(i).stale = jobs[i].stale
             /\ c(i).tab = jobs[i].tab /\ c(i).attempts = jobs[i].attempts
             /\ c(i).rival = (jobs[i].rival \/ (jobs[i].state = "running" /\ jobs[i].tab # n))
  <2>1. jobs[i] \in D!Job /\ (D!IsRunning(i) /\ D!Rival(i, j)) \in BOOLEAN
    BY <1>j DEF D!IsRunning, D!Rival
  <2> QED
    BY <1>n, <2>1 DEF D!Job, D!IsRunning, D!Rival
<1> HIDE DEF b, c
<1>5. /\ Len(jobs') = Len(jobs) /\ DOMAIN jobs' = DOMAIN jobs /\ jobs'[j] = b
      /\ \A i \in DOMAIN jobs : i # j => jobs'[i] = c(i)
      /\ jobs' \in Seq(D!Job)
  <2>1. \A i \in 1..Len(jobs) : (IF i = j THEN b ELSE c(i)) \in D!Job
    BY <1>j, <1>3, <1>4
  <2>2. jobs' \in [1..Len(jobs) -> D!Job]
    BY <1>2, <1>j, <2>1
  <2> QED
    BY <1>2, <1>j, <2>2
<1>6. JobOK(b) /\ \A i \in DOMAIN jobs : i # j => jobs'[i].state = jobs[i].state /\ JobOK(jobs'[i])
  <2>1. JobOK(b)
    BY <1>0, <1>n, <1>3 DEF JobOK
  <2>2. ASSUME NEW i \in DOMAIN jobs, i # j
        PROVE  jobs'[i].state = jobs[i].state /\ JobOK(jobs'[i])
    <3>1. JobOK(jobs[i]) /\ jobs'[i] = c(i)
      BY <1>j, <1>5, <2>2
    <3> QED
      BY <1>4, <2>2, <3>1 DEF JobOK
  <2> QED
    BY <2>1, <2>2
<1>7. JobsOK'
  BY <1>2, <1>3, <1>5, <1>6, JobsMoved, SameSizes DEF DInv
<1>8. StoreOK'
  <2>1. shown' \in [tab : Name, rival : BOOLEAN]
    BY <1>2 DEF DInv, StoreOK
  <2> QED
    BY <1>2, <2>1 DEF DInv, StoreOK, Name, D!Tab, D!Folders, D!Manifest
<1>9. DInv'
  <2>1. ~D!Settled'
    BY <1>3, <1>5 DEF D!Settled
  <2> QED
    BY <1>7, <1>8, <2>1 DEF DInv
<1>10. Offer' = Offer
  BY <1>2, OfferKept
<1>11. ASSUME NEW m PROVE Same(m)' <=> Same(m) /\ m = n
  <2>1. Same(m)' <=> \A i \in DOMAIN jobs : jobs'[i].state = "running" => jobs'[i].tab = m
    BY <1>5 DEF Same
  <2>2. jobs'[j].state = "running" /\ jobs'[j].tab = n /\ jobs[j].state # "running"
    BY <1>2, <1>3, <1>5
  <2>3. \A i \in DOMAIN jobs : i # j => jobs'[i].state = jobs[i].state /\ jobs'[i].tab = jobs[i].tab
    BY <1>4, <1>5
  <2> QED
    BY <2>1, <2>2, <2>3 DEF Same
<1>12. ASSUME PInv PROVE PInv'
  <2>1. Manifests'
    <3>1. ASSUME NEW i \in DOMAIN jobs', jobs'[i].state = "running",
                 jobs'[i].step \in {"cache", "report"}
          PROVE  manifest'[Offer[jobs'[i].tab].folder] # None
      <4>1. i # j /\ i \in DOMAIN jobs
        BY <1>3, <1>5, <3>1
      <4> QED
        BY <1>2, <1>4, <1>5, <1>12, <3>1, <4>1 DEF PInv, Manifests
    <3> QED
      BY <1>2, <1>10, <1>12, <3>1 DEF PInv, Manifests
  <2>2. ASSUME NEW i \in DOMAIN jobs' PROVE Undisturbed(i)'
    <3>1. PICK d : d = jobs'[i]
      OBVIOUS
    <3>2. PICK m : m = d.tab
      OBVIOUS
    <3>3. PICK p : p = Offer[m]
      OBVIOUS
    <3>4. ASSUME d.state = "running", ~d.rival PROVE InHand(d, p)' /\ Same(m)'
      <4>1. CASE i = j
        <5>1. d = b /\ m = n /\ p = o /\ Same(n)
          BY <1>0, <1>n, <1>r, <1>3, <1>5, <3>1, <3>2, <3>3, <3>4, <4>1
        <5>2. InHand(d, p)'
          BY <1>3, <5>1 DEF InHand
        <5> QED
          BY <1>11, <5>1, <5>2
      <4>2. CASE i # j
        <5>1. /\ i \in DOMAIN jobs /\ d.state = jobs[i].state /\ d.tab = jobs[i].tab
              /\ d.step = jobs[i].step /\ d.todo = jobs[i].todo
              /\ ~jobs[i].rival /\ jobs[i].tab = n
          <6>1. i \in DOMAIN jobs /\ d = c(i)
            BY <1>5, <3>1, <4>2
          <6>2. /\ d.state = jobs[i].state /\ d.tab = jobs[i].tab
                /\ d.step = jobs[i].step /\ d.todo = jobs[i].todo
                /\ d.rival = (jobs[i].rival \/ (jobs[i].state = "running" /\ jobs[i].tab # n))
            BY <1>4, <4>2, <6>1
          <6>3. ~(jobs[i].rival \/ (jobs[i].state = "running" /\ jobs[i].tab # n))
            BY <3>4, <6>2
          <6> QED
            BY <3>4, <6>1, <6>2, <6>3
        <5>2. InHand(jobs[i], p) /\ Same(m)
          BY <1>12, <3>2, <3>3, <3>4, <5>1 DEF PInv, Undisturbed
        <5>3. InHand(d, p)'
          BY <1>2, <5>1, <5>2 DEF InHand, Complete, Said, Cached
        <5> QED
          BY <1>11, <3>2, <5>1, <5>2, <5>3
      <4> QED
        BY <4>1, <4>2
    <3> QED
      BY <1>10, <3>1, <3>2, <3>3, <3>4 DEF Undisturbed, InHand, Complete, Said, Cached, Same
  <2>3. Standing'
    <3>1. PICK m : m = shown.tab
      OBVIOUS
    <3>2. PICK p : p = Offer[m]
      OBVIOUS
    <3>3. shown'.tab = m /\ shown'.rival = (shown.rival \/ m # n)
      BY <1>2, <1>n, <3>1 DEF DInv, StoreOK
    <3>4. ASSUME ~shown'.rival PROVE Ended(p)' /\ Same(m)'
      <4>1. Ended(p) /\ Same(m) /\ m = n
        BY <1>12, <3>1, <3>2, <3>3, <3>4 DEF PInv, Standing
      <4> QED
        BY <1>2, <1>11, <4>1 DEF Ended, Complete, Said, Cached
    <3> QED
      BY <1>10, <3>2, <3>3, <3>4 DEF Standing, Ended, Complete, Said, Cached, Same
  <2> QED
    BY <2>1, <2>2, <2>3 DEF PInv
<1> QED
  BY <1>9, <1>12

(* A step of a running job that writes the store.                          *)
LEMMA WriteStep ==
  ASSUME D!DiscoveryAssumption, DInv, NEW j \in DOMAIN jobs,
         \/ \E n \in D!Tab \cup Layer : D!PutThumbnail(j, n)
         \/ D!DropStale(j) \/ D!PutManifest(j) \/ D!PutCache(j)
  PROVE  DInv' /\ (PInv => PInv')
<1>0. PICK o : o = Offer[jobs[j].tab]
  OBVIOUS
<1>1. /\ jobs[j] \in D!Job /\ JobOK(jobs[j]) /\ o \in AnyOffer /\ Fits(o)
      /\ D!Folder(jobs[j].tab) = o.folder /\ D!Listed(jobs[j].tab) = o.names
      /\ D!Resolve(jobs[j].tab) = o.tab /\ (D!Picks(jobs[j].tab) <=> o.folder = "layouts")
  BY <1>0, OfferOf
<1>2. UNCHANGED <<upload, status, chosen, shown>> /\ jobs[j].state = "running"
  BY DEF D!PutThumbnail, D!DropStale, D!PutManifest, D!PutCache, D!At, D!IsRunning
<1>f. D!Folders = {"layouts", "layers"} /\ o.folder \in D!Folders
  BY <1>1 DEF D!Folders, AnyOffer
<1>m. None \notin D!Manifest
  BY DEF D!DiscoveryAssumption
<1>4. ASSUME NEW n \in D!Tab \cup Layer, D!PutThumbnail(j, n) PROVE DInv' /\ (PInv => PInv')
  <2> DEFINE x == [jobs[j] EXCEPT !.todo = jobs[j].todo \ {n}]
  <2>p. PICK b : b = x
    OBVIOUS
  <2>1. /\ jobs' = [jobs EXCEPT ![j] = b] /\ jobs[j].step = "svgs" /\ n \in jobs[j].todo
        /\ svgs' = [svgs EXCEPT ![o.folder] = @ \cup {n}]
        /\ UNCHANGED <<manifest, cache>>
    BY <1>1, <1>4, <2>p DEF D!PutThumbnail, D!At, D!IsRunning, DInv, JobsOK
  <2>2. b \in D!Job /\ b.state = "running" /\ b.tab = jobs[j].tab /\ b.step = "svgs"
        /\ b.todo = jobs[j].todo \ {n} /\ b.rival = jobs[j].rival
    BY <1>1, <1>2, <2>1, <2>p DEF D!Job
  <2> HIDE DEF x
  <2>3. JobOK(b)
    BY <1>1, <2>1, <2>2 DEF JobOK
  <2>4. n \in o.names
    BY <1>0, <1>1, <2>1 DEF JobOK
  <2>5. StoreOK'
    BY <1>1, <1>2, <1>f, <2>1, <2>4 DEF DInv, StoreOK, Fits, Name, D!Tab, D!Manifest
  <2>6. svgs'[o.folder] = svgs[o.folder] \cup {n}
    BY <1>f, <2>1 DEF DInv, StoreOK
  <2>7. InHand(jobs[j], o) => InHand(b, o)'
    BY <2>1, <2>2, <2>6 DEF InHand
  <2>8. Better(o)
    BY <2>1, <2>6 DEF Better
  <2> QED
    BY <1>0, <1>2, <2>1, <2>2, <2>3, <2>5, <2>7, <2>8, JobStep
<1>5. CASE D!DropStale(j)
  <2> DEFINE x == [jobs[j] EXCEPT !.step = "manifest", !.stale = {}]
  <2>p. PICK b : b = x
    OBVIOUS
  <2>1. /\ jobs' = [jobs EXCEPT ![j] = b] /\ jobs[j].step = "drop"
        /\ svgs' = [svgs EXCEPT ![o.folder] = @ \ jobs[j].stale]
        /\ UNCHANGED <<manifest, cache>>
    BY <1>1, <1>5, <2>p DEF D!DropStale, D!At, D!IsRunning, DInv, JobsOK
  <2>2. b \in D!Job /\ b.state = "running" /\ b.tab = jobs[j].tab /\ b.step = "manifest"
        /\ b.todo = jobs[j].todo /\ b.rival = jobs[j].rival
    BY <1>1, <1>2, <2>p DEF D!Job, D!Steps
  <2> HIDE DEF x
  <2>3. JobOK(b) /\ jobs[j].stale \cap o.names = {}
    BY <1>0, <1>1, <1>2, <2>1, <2>2 DEF JobOK
  <2>5. StoreOK'
    BY <1>1, <1>2, <1>f, <2>1 DEF DInv, StoreOK, Name, D!Tab, D!Manifest
  <2>6. svgs'[o.folder] = svgs[o.folder] \ jobs[j].stale
    BY <1>f, <2>1 DEF DInv, StoreOK
  <2>7. InHand(jobs[j], o) => InHand(b, o)'
    BY <2>1, <2>2, <2>3, <2>6 DEF InHand, Complete
  <2>8. Better(o)
    BY <2>1, <2>3, <2>6 DEF Better
  <2> QED
    BY <1>0, <1>2, <2>1, <2>2, <2>3, <2>5, <2>7, <2>8, JobStep
<1>6. CASE D!PutManifest(j)
  <2> DEFINE s == IF D!Picks(jobs[j].tab) THEN "report" ELSE "cache"
             x == [jobs[j] EXCEPT !.step = s]
             m == [tab |-> o.tab, names |-> o.names]
  <2>p. PICK b : b = x
    OBVIOUS
  <2>1. /\ jobs' = [jobs EXCEPT ![j] = b] /\ jobs[j].step = "manifest"
        /\ manifest' = [manifest EXCEPT ![o.folder] = m]
        /\ UNCHANGED <<svgs, cache>>
    BY <1>1, <1>6, <2>p DEF D!PutManifest, D!At, D!IsRunning, DInv, JobsOK
  <2>s. s \in {"report", "cache"} /\ (s = "report" <=> o.folder = "layouts")
    BY <1>1
  <2>m. m \in D!Manifest
    BY <1>1 DEF D!Manifest, AnyOffer
  <2> HIDE DEF s
  <2>2. b \in D!Job /\ b.state = "running" /\ b.tab = jobs[j].tab /\ b.step = s
        /\ b.todo = jobs[j].todo /\ b.rival = jobs[j].rival
    BY <1>1, <1>2, <2>s, <2>p DEF D!Job, D!Steps
  <2> HIDE DEF x
  <2>3. JobOK(b)
    BY <1>0, <1>1, <1>2, <1>f, <2>1, <2>s, <2>2 DEF JobOK
  <2>5. StoreOK'
    <3> HIDE DEF m
    <3> QED
      BY <1>1, <1>2, <1>f, <2>1, <2>m DEF DInv, StoreOK, Name, D!Tab, D!Manifest
  <2>6. manifest'[o.folder] = m
    BY <1>f, <2>1 DEF DInv, StoreOK
  <2>7. InHand(jobs[j], o) => InHand(b, o)'
    BY <1>f, <2>1, <2>s, <2>2, <2>6 DEF InHand, Complete, Said, Cached
  <2>8. Better(o)
    BY <2>1, <2>6 DEF Better
  <2>9. \A d \in D!Folders : manifest[d] # None => manifest'[d] # None
    <3> HIDE DEF m
    <3> QED
      BY <1>f, <1>m, <2>1, <2>m DEF DInv, StoreOK
  <2>10. manifest'[o.folder] # None
    BY <1>m, <2>m, <2>6
  <2> HIDE DEF m
  <2> QED
    BY <1>0, <1>2, <2>1, <2>2, <2>3, <2>5, <2>7, <2>8, <2>9, <2>10, JobStep
<1>7. CASE D!PutCache(j)
  <2> DEFINE x == [jobs[j] EXCEPT !.step = "report"]
  <2>p. PICK b : b = x
    OBVIOUS
  <2>1. /\ jobs' = [jobs EXCEPT ![j] = b] /\ jobs[j].step = "cache"
        /\ cache' = o.tab /\ UNCHANGED <<svgs, manifest>>
    BY <1>1, <1>7, <2>p DEF D!PutCache, D!At, D!IsRunning, DInv, JobsOK
  <2>2. b \in D!Job /\ b.state = "running" /\ b.tab = jobs[j].tab /\ b.step = "report"
        /\ b.todo = jobs[j].todo /\ b.rival = jobs[j].rival
    BY <1>1, <1>2, <2>p DEF D!Job, D!Steps
  <2> HIDE DEF x
  <2>3. JobOK(b)
    BY <1>1, <1>2, <2>1, <2>2 DEF JobOK
  <2>4. o.tab \in D!Tab \cup {Model}
    BY <1>1 DEF AnyOffer
  <2>5. StoreOK'
    BY <1>2, <2>1, <2>4 DEF DInv, StoreOK, Name, D!Tab, D!Manifest, D!Folders
  <2>7. InHand(jobs[j], o) => InHand(b, o)'
    BY <2>1, <2>2 DEF InHand, Complete, Said, Cached
  <2>8. Better(o)
    BY <2>1 DEF Better
  <2> QED
    BY <1>0, <1>2, <2>1, <2>2, <2>3, <2>5, <2>7, <2>8, JobStep
<1> QED
  BY <1>4, <1>5, <1>6, <1>7

(* Job j reports: from now on the picker is its own.                       *)
LEMMA ReportStep ==
  ASSUME D!DiscoveryAssumption, DInv, NEW j \in DOMAIN jobs, D!Report(j)
  PROVE  DInv' /\ (PInv => PInv')
<1>0. PICK n : n = jobs[j].tab
  OBVIOUS
<1>o. PICK o : o = Offer[n]
  OBVIOUS
<1>1. /\ jobs[j] \in D!Job /\ JobOK(jobs[j]) /\ o \in AnyOffer
      /\ (D!Picks(n) <=> o.folder = "layouts")
  BY <1>0, <1>o, OfferOf
<1> DEFINE b == [jobs[j] EXCEPT !.state = "settled"]
           s == IF D!Picks(n) THEN "awaiting_layout" ELSE "awaiting_layers"
<1>2. /\ jobs' = [jobs EXCEPT ![j] = b] /\ jobs[j].state = "running" /\ jobs[j].step = "report"
      /\ status' = s /\ shown' = [tab |-> n, rival |-> jobs[j].rival]
      /\ UNCHANGED <<upload, chosen, manifest, svgs, cache>>
  BY <1>0, <1>1 DEF D!Report, D!At, D!IsRunning, DInv, JobsOK
<1>s. s \in {"awaiting_layout", "awaiting_layers"} /\ (s = "awaiting_layout" <=> o.folder = "layouts")
  BY <1>1
<1> HIDE DEF s
<1>3. b \in D!Job /\ b.state = "settled" /\ b.todo = jobs[j].todo /\ b.tab = n
  BY <1>0, <1>1 DEF D!Job
<1> HIDE DEF b
<1>4. JobOK(b)
  BY <1>0, <1>1, <1>2, <1>3 DEF JobOK
<1>5. /\ JobsOK' /\ jobs'[j] = b /\ DOMAIN jobs' = DOMAIN jobs
      /\ \A i \in DOMAIN jobs : i # j => jobs'[i] = jobs[i]
  BY <1>2, <1>3, <1>4, JobMoved DEF DInv
<1>6. StoreOK'
  <2>1. shown' \in [tab : Name, rival : BOOLEAN]
    BY <1>0, <1>1, <1>2 DEF D!Job, Name
  <2> QED
    BY <1>2, <1>s, <2>1 DEF DInv, StoreOK, Name, D!Tab, D!Manifest, D!Folders
<1>7. Offer' = Offer
  BY <1>2, OfferKept
<1>8. o.folder = "layouts" \/ o.folder = "layers"
  BY <1>1 DEF AnyOffer, D!Folders
<1>9. \A m : Same(m) => Same(m)'
  BY <1>3, <1>5 DEF Same
<1>10. ASSUME PInv PROVE PInv'
  <2>1. Manifests'
    <3>1. manifest[o.folder] # None
      BY <1>0, <1>o, <1>2, <1>10 DEF PInv, Manifests
    <3>2. \A i \in DOMAIN jobs' : jobs'[i].state = "running" => jobs'[i] = jobs[i]
      BY <1>3, <1>5
    <3>3. ASSUME NEW i \in DOMAIN jobs', jobs'[i].state = "running",
                 jobs'[i].step \in {"cache", "report"}
          PROVE  manifest'[Offer[jobs'[i].tab].folder] # None
      BY <1>2, <1>5, <1>10, <3>2, <3>3 DEF PInv, Manifests
    <3> QED
      BY <1>2, <1>s, <1>7, <1>8, <3>1, <3>3 DEF Manifests
  <2>2. ASSUME NEW i \in DOMAIN jobs' PROVE Undisturbed(i)'
    <3>1. CASE jobs'[i].state = "running"
      <4>1. i \in DOMAIN jobs /\ jobs'[i] = jobs[i] /\ Undisturbed(i)
        BY <1>3, <1>5, <1>10, <3>1 DEF PInv
      <4>2. PICK m : m = jobs[i].tab
        OBVIOUS
      <4>3. Same(m) => Same(m)'
        BY <1>9
      <4> QED
        BY <1>2, <1>7, <3>1, <4>1, <4>2, <4>3 DEF Undisturbed, InHand, Complete, Said, Cached, Same
    <3> QED
      BY <3>1 DEF Undisturbed
  <2>3. Standing'
    <3>1. ASSUME ~jobs[j].rival PROVE Ended(o)' /\ Same(n)'
      <4>1. InHand(jobs[j], o) /\ Same(n)
        BY <1>0, <1>o, <1>2, <1>10, <3>1 DEF PInv, Undisturbed
      <4>2. Complete(o) /\ Said(o) /\ Cached(o)
        BY <1>2, <4>1 DEF InHand
      <4>3. Ended(o)'
        BY <1>2, <1>s, <1>8, <4>2 DEF Ended, Complete, Said, Cached
      <4> QED
        BY <1>9, <4>1, <4>3
    <3> QED
      BY <1>2, <1>7, <1>o, <3>1 DEF Standing, Ended, Complete, Said, Cached, Same
  <2> QED
    BY <2>1, <2>2, <2>3 DEF PInv
<1>11. status' # "discovering"
  BY <1>2, <1>s
<1> QED
  BY <1>5, <1>6, <1>10, <1>11 DEF DInv

LEMMA GiveUpStep ==
  ASSUME D!DiscoveryAssumption, DInv, NEW j \in DOMAIN jobs, D!GiveUp(j)
  PROVE  DInv' /\ (PInv => PInv')
<1>1. jobs[j] \in D!Job
  BY OfferOf
<1> DEFINE b == [jobs[j] EXCEPT !.state = "settled", !.todo = {}, !.stale = {}]
<1>2. /\ jobs' = [jobs EXCEPT ![j] = b] /\ jobs[j].state = "lost" /\ status' = "error"
      /\ UNCHANGED <<upload, chosen, manifest, svgs, cache, shown>>
  BY <1>1 DEF D!GiveUp, DInv, JobsOK
<1>3. b \in D!Job /\ b.state = "settled" /\ b.todo = {} /\ b.tab = jobs[j].tab
  BY <1>1 DEF D!Job
<1> HIDE DEF b
<1>4. JobOK(b)
  BY <1>3 DEF JobOK
<1>5. /\ JobsOK' /\ jobs'[j] = b /\ DOMAIN jobs' = DOMAIN jobs
      /\ \A i \in DOMAIN jobs : i # j => jobs'[i] = jobs[i]
  BY <1>2, <1>3, <1>4, JobMoved DEF DInv
<1>6. StoreOK'
  BY <1>2 DEF DInv, StoreOK, Name, D!Tab, D!Manifest, D!Folders
<1>7. Offer' = Offer
  BY <1>2, OfferKept
<1>8. \A i \in DOMAIN jobs' : jobs'[i].state = "running" => i \in DOMAIN jobs /\ jobs'[i] = jobs[i]
  BY <1>3, <1>5
<1>9. \A m : Same(m) => Same(m)'
  BY <1>8 DEF Same
<1>10. ASSUME PInv PROVE PInv'
  <2>1. Manifests'
    BY <1>2, <1>7, <1>8, <1>10 DEF PInv, Manifests
  <2>2. ASSUME NEW i \in DOMAIN jobs' PROVE Undisturbed(i)'
    <3>1. CASE jobs'[i].state = "running"
      <4>1. i \in DOMAIN jobs /\ jobs'[i] = jobs[i] /\ Undisturbed(i)
        BY <1>8, <1>10, <3>1 DEF PInv
      <4>2. PICK m : m = jobs[i].tab
        OBVIOUS
      <4>3. Same(m) => Same(m)'
        BY <1>9
      <4> QED
        BY <1>2, <1>7, <3>1, <4>1, <4>2, <4>3 DEF Undisturbed, InHand, Complete, Said, Cached, Same
    <3> QED
      BY <3>1 DEF Undisturbed
  <2>3. Standing'
    <3>1. PICK m : m = shown.tab
      OBVIOUS
    <3>2. Same(m) => Same(m)'
      BY <1>9
    <3> QED
      BY <1>2, <1>7, <1>10, <3>1, <3>2 DEF PInv, Standing, Ended, Same
  <2> QED
    BY <2>1, <2>2, <2>3 DEF PInv
<1> QED
  BY <1>2, <1>5, <1>6, <1>10 DEF DInv

LEMMA DiscoveryStep ==
  ASSUME D!DiscoveryAssumption, DInv, [D!Next]_D!vars
  PROVE  DInv' /\ (PInv => PInv')
<1>1. CASE UNCHANGED D!vars
  <2>1. UNCHANGED <<upload, status, chosen, manifest, svgs, cache, jobs, shown>> /\ SameStore
    BY <1>1 DEF D!vars, SameStore
  <2>2. Offer' = Offer /\ Running' = Running /\ (D!Settled' <=> D!Settled)
    BY <2>1, OfferKept DEF Running, D!Settled
  <2>3. StoreOK'
    BY <2>1, StoreKept DEF DInv
  <2>4. JobsOK'
    BY <2>1, <2>2 DEF DInv, JobsOK, JobOK, D!Job, D!Tab, D!Steps
  <2>5. PInv => PInv'
    BY <2>1, <2>2 DEF PInv, Manifests, Undisturbed, Standing, Same, Ended, InHand, Complete,
       Said, Cached
  <2> QED
    BY <2>1, <2>2, <2>3, <2>4, <2>5 DEF DInv
<1>2. CASE D!Next
  BY <1>2, AskStep, OwnStep, ClaimStep, WriteStep, ReportStep, GiveUpStep DEF D!Next
<1> QED
  BY <1>1, <1>2

LEMMA DiscoveryBegins ==
  ASSUME D!DiscoveryAssumption, D!Init
  PROVE  DInv /\ PInv
<1>1. /\ upload \in Drawings /\ status = "discovering" /\ chosen = None /\ cache = None
      /\ manifest = [d \in D!Folders |-> None] /\ svgs = [d \in D!Folders |-> {}]
      /\ jobs = <<D!Queued(None)>> /\ shown = [tab |-> None, rival |-> FALSE]
  BY DEF D!Init, D!NoBlobs
<1> DEFINE b == D!Queued(None)
<1>2. /\ MaxAttempts \in Nat /\ 0 < MaxAttempts /\ Slots \in Nat /\ 1 <= MaxJobs
  BY DEF D!DiscoveryAssumption
<1>3. b \in D!Job /\ b.state = "queued" /\ b.attempts = 0 /\ b.todo = {} /\ b.tab = None
  BY <1>2 DEF D!Queued, D!Job, D!Steps
<1> HIDE DEF b
<1>4. jobs \in Seq(D!Job) /\ Len(jobs) = 1 /\ jobs[1] = b /\ DOMAIN jobs = {1}
  BY <1>1, <1>3 DEF b
<1>5. Running = {} /\ Cardinality(Running) = 0
  BY <1>3, <1>4, FS_EmptySet DEF Running
<1>6. JobsOK
  BY <1>2, <1>3, <1>4, <1>5 DEF JobsOK, JobOK
<1>7. StoreOK
  BY <1>1 DEF StoreOK, D!Folders, Name
<1>8. ~D!Settled
  BY <1>3, <1>4 DEF D!Settled
<1>9. PInv
  BY <1>1, <1>3, <1>4 DEF PInv, Manifests, Undisturbed, Standing, Same, Ended
<1> QED
  BY <1>6, <1>7, <1>8, <1>9 DEF DInv

(* Whoever asks for how many discoveries at once, the worker runs no more  *)
(* than its slots, thumbnails of tabs and of layers stay apart, and when   *)
(* all jobs have ended the file is not shown as being discovered           *)
(* (jobs.py, dxf.py).                                                      *)
THEOREM DiscoveryTypes ==
  ASSUME D!DiscoveryAssumption PROVE D!Spec => []D!TypeOK
<1>1. D!Init => DInv
  BY DiscoveryBegins
<1>2. DInv /\ [D!Next]_D!vars => DInv'
  BY DiscoveryStep
<1>3. DInv => D!TypeOK
  <2> SUFFICES ASSUME DInv PROVE D!TypeOK
    OBVIOUS
  <2>1. \A j \in DOMAIN jobs : jobs[j].state = "settled" => jobs[j].todo = {}
    BY DEF DInv, JobsOK, JobOK
  <2>2. D!Cardinality({j \in DOMAIN jobs : jobs[j].state = "running"}) <= Slots
    BY SameSizes DEF DInv, JobsOK, Running
  <2> QED
    BY <2>1, <2>2 DEF DInv, JobsOK, StoreOK, Name, D!TypeOK
<1> QED
  BY <1>1, <1>2, <1>3, PTL DEF D!Spec

(* The picker a user is shown, however many discoveries run at once, crash *)
(* and run again: it has a manifest; the thumbnails it lists are there     *)
(* (_drop_stale_manifest_svgs, jobs.py) unless a discovery of another tab  *)
(* ran at the same time or since; and then layers and primitives are of    *)
(* the tab of the binding if it is the one that was asked for              *)
(* (submit_discover_layers).                                               *)
THEOREM PickersAreRight ==
  ASSUME D!DiscoveryAssumption PROVE D!Spec => []D!PickerIsRight
<1>1. D!Init => DInv /\ PInv
  BY DiscoveryBegins
<1>2. DInv /\ PInv /\ [D!Next]_D!vars => DInv' /\ PInv'
  BY DiscoveryStep
<1>3. DInv /\ PInv => D!PickerIsRight
  <2> SUFFICES ASSUME DInv, PInv, NEW open \in D!Folders,
                      \/ status = "awaiting_layout" /\ open = "layouts"
                      \/ status = "awaiting_layers" /\ open = "layers"
               PROVE  /\ manifest[open] # None
                      /\ ~shown.rival => manifest[open].names \subseteq svgs[open]
                      /\ ~shown.rival /\ open = "layers" /\ shown.tab = chosen
                           => manifest["layers"].tab = D!Resolve(chosen) /\ cache = D!Resolve(chosen)
    BY DEF D!PickerIsRight, D!Folders
  <2>1. manifest[open] # None
    BY DEF PInv, Manifests
  <2>2. PICK o : o = Offer[shown.tab]
    OBVIOUS
  <2>3. o \in AnyOffer /\ o.tab = D!Resolve(shown.tab)
    <3>1. shown.tab \in Name /\ upload \in Drawings
      BY DEF DInv, StoreOK
    <3> QED
      BY <2>2, <3>1, OfferFits
  <2>4. ASSUME ~shown.rival
        PROVE  /\ manifest[open] = [tab |-> o.tab, names |-> o.names]
               /\ o.names \subseteq svgs[open]
               /\ open = "layers" => cache = o.tab
    BY <2>2, <2>4 DEF PInv, Standing, Ended, Complete, Said, Cached
  <2> QED
    BY <2>1, <2>3, <2>4
<1> QED
  BY <1>1, <1>2, <1>3, PTL DEF D!Spec

=============================================================================
