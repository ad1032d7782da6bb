----------------------------- MODULE MCMatching -----------------------------
(***************************************************************************)
(* Discovery of a drawing's tabs and layers (Discovery), the web process's *)
(* caches of drawings (ShapeCache), the search for copies of a template    *)
(* (MultiMatch) and the Match JSON made of its hits (MatchJson), side by   *)
(* side for TLC.  They share no state here: one component moves in a       *)
(* behaviour and the others stay where they start.                         *)
(***************************************************************************)
EXTENDS ShapeCache, TLC

CONSTANTS t1, t2, A, B, h1, h2, h3, pad, part, Model

VARIABLES
  moving,
  upload, status, chosen, manifest, svgs, cache, jobs, shown, crashes, \* Discovery
  sheet,                                                               \* MultiMatch
  rect, out, count, total, suppressed, full, step                      \* MatchJson

discoveryVars == <<upload, status, chosen, manifest, svgs, cache, jobs, shown, crashes>>
jsonVars == <<rect, out, count, total, suppressed, full, step>>
allVars == <<vars, discoveryVars, sheet, jsonVars, moving>>

-----------------------------------------------------------------------------
(* Each of two tabs draws some of two layers, and the first has at most    *)
(* one text; model space draws nothing or one layer.                       *)
AnyDrawing ==
  LET first  == [dull : 0..1, drawn : SUBSET {A, B}]
      second == [dull : {0}, drawn : SUBSET {A, B}]
      model  == [dull : {0}, drawn : {{}, {A}}]
  IN  {t1 :> c @@ t2 :> d @@ Model :> m : c \in first, d \in second, m \in model}
PlainDrawing == [t \in {t1, t2, Model} |-> [dull |-> 0, drawn |-> {A}]]

D == INSTANCE Discovery WITH
       TabOrder <- <<t1, t2>>, Layer <- {A, B}, Drawings <- AnyDrawing,
       Slots <- 2, MaxAttempts <- 2, MaxJobs <- 3, MaxCrashes <- 1,
       drawing <- upload

(* A flat pad, the same pad upright, a flat one a micron longer and a disc. *)
M == INSTANCE MultiMatch WITH
       Width <- 1, Height <- 1, Kind <- {"flat", "upright", "longer", "disc"},
       Bucket <- [flat |-> 0, upright |-> 0, longer |-> 1, disc |-> 9],
       Upright <- {"upright"}, Round <- {"disc"}, MaxEntities <- 4, MaxTemplate <- 2,
       drawing <- sheet

(* Templates of up to three entities, and as many again to copy them.      *)
M3 == INSTANCE MultiMatch WITH
       Width <- 1, Height <- 1, Kind <- {"flat", "disc"},
       Bucket <- [flat |-> 0, disc |-> 9],
       Upright <- {}, Round <- {"disc"}, MaxEntities <- 6, MaxTemplate <- 3,
       drawing <- sheet

(* Three entities on a line; a match of the first two is centred between   *)
(* them, on the edge of a rectangle.                                       *)
OnALine == h1 :> <<0, 0>> @@ h2 :> <<2, 2>> @@ h3 :> <<4, 6>>

(* A class of the bottom view only and one that may be anywhere, and       *)
(* rectangles drawn forwards and backwards that share an edge.             *)
Split == INSTANCE MatchJson WITH
       Handle <- {h1, h2}, Extent <- OnALine, Class <- {pad, part},
       AllowedViews <- pad :> {"bottom_view"} @@ part :> None,
       MaxIdx <- 0, MaxMatches <- 2, Corner <- {<<0, 1>>, <<6, 1>>}

(* Two templates of one class, whose matches may be equal or nested.       *)
Suppress == INSTANCE MatchJson WITH
       Handle <- {h1, h2, h3}, Extent <- OnALine, Class <- {part},
       AllowedViews <- part :> None,
       MaxIdx <- 1, MaxMatches <- 2, Corner <- {<<1, 0>>}

ASSUME D!DiscoveryAssumption
ASSUME M!MultiMatchAssumption
ASSUME M3!MultiMatchAssumption
ASSUME Split!SheetAssumption
ASSUME Suppress!SheetAssumption

-----------------------------------------------------------------------------
Part == {"cache", "discovery", "pairs", "triples", "split", "suppress"}

StartSideBySide ==
  /\ moving \in Part
  /\ Init /\ D!Init /\ M!Init /\ Split!Init
  /\ moving # "discovery" => upload = PlainDrawing

Cache_ ==
  moving = "cache" /\ Next /\ UNCHANGED <<discoveryVars, sheet, jsonVars, moving>>
Discovery_ ==
  moving = "discovery" /\ D!Next /\ UNCHANGED <<vars, sheet, jsonVars, moving>>
Pairs_ ==
  moving = "pairs" /\ M!Next /\ UNCHANGED <<vars, discoveryVars, jsonVars, moving>>
Triples_ ==
  moving = "triples" /\ M3!Next /\ UNCHANGED <<vars, discoveryVars, jsonVars, moving>>
Split_ ==
  moving = "split" /\ Split!Next /\ UNCHANGED <<vars, discoveryVars, sheet, moving>>
Suppress_ ==
  moving = "suppress" /\ Suppress!Next /\ UNCHANGED <<vars, discoveryVars, sheet, moving>>

OneMoves == Cache_ \/ Discovery_ \/ Pairs_ \/ Triples_ \/ Split_ \/ Suppress_

SideBySide == StartSideBySide /\ [][OneMoves]_allVars

Symmetry == Permutations(Thread) \cup Permutations(Address)

-----------------------------------------------------------------------------
(* What the components promise; each is stated and explained in its module. *)

(* Every component's variables have their types. *)
TypesOK ==
  /\ moving = "cache" => TypeOK
  /\ moving = "discovery" => D!TypeOK
  /\ moving = "split" => Split!TypeOK
  /\ moving = "suppress" => Suppress!TypeOK

(* The picker a user is shown has its thumbnails, and is of the tab it was *)
(* asked for, but for discoveries of another tab at the same time          *)
(* (app/jobs.py).                                                          *)
PickerIsRight == moving = "discovery" => D!PickerIsRight

(* A search returns rigid copies of the template, finds the template where *)
(* it was drawn and, in a drawing of two copies, the other one             *)
(* (app/matching.py).                                                      *)
MatchesAreCopies ==
  /\ moving = "pairs" => M!SearchIsSound
  /\ moving = "triples" => M3!CopyFound

(* The Match JSON counts every match once, under a view that was drawn and *)
(* allows its class, and its suppression drops repeats and nothing else    *)
(* (app/side_regions.py, app/jobs.py).                                     *)
MatchJsonIsExact ==
  /\ moving = "split" => Split!SplitIsExact
  /\ moving = "suppress" => Suppress!SuppressionIsExact
=============================================================================
