--------------------------- MODULE MCFilePipeline ---------------------------
EXTENDS FilePipeline, TLC

CONSTANTS a, b, t1, t2, mm, inch

(* a draws in model space, b on paper tabs.                                *)
TwoPaperTabs == [f \in File |-> IF f = b THEN {t1, t2} ELSE {}]
OnePaperTab == [f \in File |-> IF f = b THEN {t1} ELSE {}]

Symmetry == Permutations(Request)

(***************************************************************************)
(* A version whose files went through the gates long ago: each has its     *)
(* manifests and its parsed drawing at the detected scale.                 *)
(***************************************************************************)
FirstTab(f) == IF PaperTabs[f] = {} THEN None ELSE RenderedTab(f, None)
Parsed(f) == Flattened(f, FirstTab(f), None)

(* Nothing is saved of a new or reprocessed file; of a checked one each    *)
(* match is, and the verdict was computed from them.                       *)
OfParsed(f) == [of |-> Parsed(f), views |-> None]
LongAgo(checked) ==
  /\ binding = [f \in File |->
       [Fresh("ready") EXCEPT !.scale = Detected, !.tab = FirstTab(f), !.saved = checked]]
  /\ blob = [f \in File |->
       [layouts |-> Cardinality(PaperTabs[f]) >= 2, manifest |-> TRUE, cache |-> None,
        parsed |-> Parsed(f), match |-> IF checked THEN OfParsed(f) ELSE None]]
  /\ verdict = IF checked THEN {OfParsed(f) : f \in File} ELSE {}
  /\ signed = FALSE
  /\ job = [j \in JobId |-> NoJob]
  /\ task = [x \in TaskId |-> Idle]
  /\ calls = 0
  /\ faults = 0

ReadySpec == LongAgo(FALSE) /\ [][Next]_vars

(* The life of a version from its first upload, or from later on.          *)
LifeSpec == (Init \/ LongAgo(TRUE)) /\ [][Next]_vars /\ Fairness
=============================================================================
