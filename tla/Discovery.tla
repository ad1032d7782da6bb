----------------------------- MODULE Discovery -----------------------------
(***************************************************************************)
(* Phase 1 of one drawing: which AutoCAD tab is rendered, when the user is *)
(* asked to pick one, and the thumbnails, manifests and primitive cache a  *)
(* discover job leaves in the blob store (app/jobs.py, app/dxf.py).        *)
(*                                                                         *)
(* A tab is what matters of its content: how many entities count but draw  *)
(* nothing (text, hatches), and the layers that draw something, each with  *)
(* one entity.  Viewports are not counted and draw nothing: they are left  *)
(* out.  The job queue is JobQueue's, by what it does: the oldest queued   *)
(* job is claimed, a job whose process died is queued again or given up.   *)
(***************************************************************************)
EXTENDS Naturals, Sequences, FiniteSets

CONSTANTS
  TabOrder,    \* the paper-space tabs, in tab order
  Layer,
  Drawings,    \* the drawings the user may upload
  Model,       \* model space
  None,
  Slots,       \* jobs that may run at once
  MaxAttempts,
  MaxJobs,     \* bound: discoveries asked for
  MaxCrashes   \* bound: processes that die

Tab == {TabOrder[i] : i \in DOMAIN TabOrder}
Content == [dull : Nat, drawn : SUBSET Layer]
Manifest == [tab : Tab \cup {Model}, names : SUBSET (Tab \cup Layer)]

DiscoveryAssumption ==
  /\ TabOrder \in Seq(Tab) /\ IsFiniteSet(Layer)
  /\ Drawings \subseteq [Tab \cup {Model} -> Content]
  /\ Model \notin Tab /\ None \notin Tab \cup {Model} /\ None \notin Manifest
  /\ Slots \in Nat \ {0} /\ MaxAttempts \in Nat \ {0}
  /\ MaxJobs \in Nat \ {0} /\ MaxCrashes \in Nat

VARIABLES
  drawing,  \* the content of each tab
  status,   \* of the binding
  chosen,   \* chosen_layout of the binding
  manifest, \* manifest[d]: what a manifest lists and of which tab, or None
  svgs,     \* svgs[d]: the thumbnails in the store
  cache,    \* the tab the transient primitives are of, or None
  jobs,     \* the discover jobs, in the order they were queued
  shown,    \* of the last job to report: its tab, and if a rival ran
  crashes

vars == <<drawing, status, chosen, manifest, svgs, cache, jobs, shown, crashes>>

Folders == {"layouts", "layers"}
Steps == {"svgs", "old", "drop", "manifest", "cache", "report"}
Job == [tab : Tab \cup {None}, state : {"queued", "running", "lost", "settled"},
        attempts : 0..MaxAttempts, step : Steps, todo : SUBSET (Tab \cup Layer),
        stale : SUBSET (Tab \cup Layer), rival : BOOLEAN]

Settled == \A j \in DOMAIN jobs : jobs[j].state = "settled"

(* Nothing is left of a settled job's plan, and the worker has no more     *)
(* tasks than slots.                                                       *)
TypeOK ==
  /\ drawing \in Drawings
  /\ status \in {"discovering", "awaiting_layout", "awaiting_layers", "error"}
  /\ chosen \in Tab \cup {None} /\ cache \in Tab \cup {Model, None}
  /\ jobs \in Seq(Job) /\ Len(jobs) <= MaxJobs
  /\ shown \in [tab : Tab \cup {None}, rival : BOOLEAN]
  /\ manifest \in [Folders -> {None} \cup Manifest]
  /\ svgs.layouts \subseteq Tab /\ svgs.layers \subseteq Layer
  /\ Cardinality({j \in DOMAIN jobs : jobs[j].state = "running"}) <= Slots
  /\ \A j \in DOMAIN jobs : jobs[j].state = "settled" => jobs[j].todo = {}
  /\ Settled => status # "discovering"

-----------------------------------------------------------------------------
(* app/dxf.py: the tab that is rendered. *)

(* _renderable_entity_count *)
Count(t) == drawing[t].dull + Cardinality(drawing[t].drawn)

PaperTabs == {t \in Tab : Count(t) > 0}

(* The first tab, in tab order, of those with the most entities.           *)
Richest ==
  LET most(i)  == \A k \in DOMAIN TabOrder : Count(TabOrder[k]) <= Count(TabOrder[i])
      first(i) == \A k \in 1..(i - 1) : ~most(k)
  IN  TabOrder[CHOOSE i \in DOMAIN TabOrder : most(i) /\ first(i)]

(* _resolve_layout *)
Resolve(name) ==
  IF name # None THEN name
  ELSE IF Count(Model) > 0 \/ PaperTabs = {} THEN Model
  ELSE Richest

(* flatten_for_render: text and hatches leave no primitive.                *)
Rendered(t) == drawing[t].drawn

-----------------------------------------------------------------------------
(* app/jobs.py: what one discovery offers. *)

(* _build_layout_picker flattens each tab and drops those that render      *)
(* empty.                                                                  *)
Offered == {t \in PaperTabs : Rendered(t) # {}}

(* The gate, and the picker it leaves when fewer than two tabs are left.   *)
Picks(name) ==
  name = None /\ Resolve(name) \in Tab /\ Cardinality(Offered) >= 2

Folder(name) == IF Picks(name) THEN "layouts" ELSE "layers"
Listed(name) == IF Picks(name) THEN Offered ELSE Rendered(Resolve(name))

-----------------------------------------------------------------------------
NoBlobs == [d \in Folders |-> {}]
Queued(name) ==
  [tab |-> name, state |-> "queued", attempts |-> 0, step |-> "svgs",
   todo |-> {}, stale |-> {}, rival |-> FALSE]

(* The upload has bound the drawing and queued its discovery.              *)
Init ==
  /\ drawing \in Drawings
  /\ status = "discovering" /\ chosen = None
  /\ manifest = [d \in Folders |-> None]
  /\ svgs = NoBlobs /\ cache = None
  /\ jobs = <<Queued(None)>>
  /\ shown = [tab |-> None, rival |-> FALSE]
  /\ crashes = 0

(* Nobody waits for a discovery to end before asking for another.          *)
Submit(name) ==
  /\ Len(jobs) < MaxJobs
  /\ status' = "discovering"
  /\ jobs' = Append(jobs, Queued(name))
  /\ UNCHANGED <<drawing, manifest, svgs, cache, shown, crashes>>

(* POST .../discover-layers, on the tab the binding has.                   *)
Rediscover == Submit(chosen) /\ UNCHANGED chosen

(* POST .../layouts: any tab the manifest lists, whatever the status is.   *)
ConfirmLayout(t) ==
  /\ manifest["layouts"] # None /\ t \in manifest["layouts"].names
  /\ chosen' = t
  /\ Submit(t)

(* The same bytes again: bind replaces the row, and with it the choice.    *)
Upload == Submit(None) /\ chosen' = None

(* The thumbnails a manifest lists.                                        *)
ManifestKeys(d) == IF manifest[d] # None THEN manifest[d].names ELSE {}

-----------------------------------------------------------------------------
(* The worker. *)

IsRunning(j) == jobs[j].state = "running"
Rival(i, j) == jobs[i].tab # jobs[j].tab

(* claim_next; the job flattens the drawing before it writes anything.     *)
(* Which discoveries of other tabs run beside it is noted for PickerIsRight *)
(* only.                                                                   *)
Claim(j) ==
  /\ jobs[j].state = "queued"
  /\ \A i \in 1..(j - 1) : jobs[i].state # "queued"
  /\ Cardinality({i \in DOMAIN jobs : IsRunning(i)}) < Slots
  /\ jobs' = [i \in DOMAIN jobs |->
       IF i = j
       THEN [jobs[j] EXCEPT !.state = "running", !.attempts = @ + 1, !.step = "svgs",
                            !.todo = Listed(jobs[j].tab),
                            !.rival = \E k \in DOMAIN jobs : IsRunning(k) /\ Rival(k, j)]
       ELSE [jobs[i] EXCEPT !.rival = @ \/ (IsRunning(i) /\ Rival(i, j))]]
  /\ shown' = [shown EXCEPT !.rival = @ \/ shown.tab # jobs[j].tab]
  /\ UNCHANGED <<drawing, status, chosen, manifest, svgs, cache, crashes>>

At(j, step) == IsRunning(j) /\ jobs[j].step = step

PutThumbnail(j, n) ==
  /\ At(j, "svgs") /\ n \in jobs[j].todo
  /\ svgs' = [svgs EXCEPT ![Folder(jobs[j].tab)] = @ \cup {n}]
  /\ jobs' = [jobs EXCEPT ![j].todo = @ \ {n}]
  /\ UNCHANGED <<drawing, status, chosen, manifest, cache, shown, crashes>>

(* Mutant: thumbnails just written are dropped, too. *)
ReadAll(j) ==
  /\ At(j, "svgs") /\ jobs[j].todo = {}
  /\ jobs' = [jobs EXCEPT ![j].step = "drop",
       ![j].stale = ManifestKeys(Folder(jobs[j].tab))]
  /\ UNCHANGED <<drawing, status, chosen, manifest, svgs, cache, shown, crashes>>

(* _drop_stale_manifest_svgs reads the old manifest, ...                   *)
ReadOldManifest(j) ==
  /\ At(j, "svgs") /\ jobs[j].todo = {}
  /\ jobs' = [jobs EXCEPT ![j].step = "drop",
       ![j].stale = ManifestKeys(Folder(jobs[j].tab)) \ Listed(jobs[j].tab)]
  /\ UNCHANGED <<drawing, status, chosen, manifest, svgs, cache, shown, crashes>>

(* ... and deletes what it lists and the new one does not.                 *)
DropStale(j) ==
  /\ At(j, "drop")
  /\ svgs' = [svgs EXCEPT ![Folder(jobs[j].tab)] = @ \ jobs[j].stale]
  /\ jobs' = [jobs EXCEPT ![j].step = "manifest", ![j].stale = {}]
  /\ UNCHANGED <<drawing, status, chosen, manifest, cache, shown, crashes>>

PutManifest(j) ==
  /\ At(j, "manifest")
  /\ manifest' = [manifest EXCEPT ![Folder(jobs[j].tab)] =
       [tab |-> Resolve(jobs[j].tab), names |-> Listed(jobs[j].tab)]]
  /\ jobs' = [jobs EXCEPT ![j].step = IF Picks(jobs[j].tab) THEN "report" ELSE "cache"]
  /\ UNCHANGED <<drawing, status, chosen, svgs, cache, shown, crashes>>

PutCache(j) ==
  /\ At(j, "cache")
  /\ cache' = Resolve(jobs[j].tab)
  /\ jobs' = [jobs EXCEPT ![j].step = "report"]
  /\ UNCHANGED <<drawing, status, chosen, manifest, svgs, shown, crashes>>

(* apply_result, and the job is done. *)
Report(j) ==
  /\ At(j, "report")
  /\ status' = IF Picks(jobs[j].tab) THEN "awaiting_layout" ELSE "awaiting_layers"
  /\ jobs' = [jobs EXCEPT ![j].state = "settled"]
  /\ shown' = [tab |-> jobs[j].tab, rival |-> jobs[j].rival]
  /\ UNCHANGED <<drawing, chosen, manifest, svgs, cache, crashes>>

(* The process of a running job dies: its slot is free at once, its job    *)
(* waits until the heartbeat is old.                                       *)
Crash(j) ==
  /\ IsRunning(j) /\ crashes < MaxCrashes
  /\ crashes' = crashes + 1
  /\ jobs' = [jobs EXCEPT ![j].state = "lost"]
  /\ UNCHANGED <<drawing, status, chosen, manifest, svgs, cache, shown>>

(* requeue_stale *)
Requeue(j) ==
  /\ jobs[j].state = "lost" /\ jobs[j].attempts < MaxAttempts
  /\ jobs' = [jobs EXCEPT ![j].state = "queued"]
  /\ UNCHANGED <<drawing, status, chosen, manifest, svgs, cache, shown, crashes>>

(* stale_exhausted, and apply_failure. *)
GiveUp(j) ==
  /\ jobs[j].state = "lost" /\ jobs[j].attempts = MaxAttempts
  /\ jobs' = [jobs EXCEPT ![j].state = "settled", ![j].todo = {}, ![j].stale = {}]
  /\ status' = "error"
  /\ UNCHANGED <<drawing, chosen, manifest, svgs, cache, shown, crashes>>

Next ==
  \/ Rediscover \/ Upload
  \/ \E t \in Tab : ConfirmLayout(t)
  \/ \E j \in DOMAIN jobs :
       \/ Claim(j) \/ ReadOldManifest(j) \/ DropStale(j)
       \/ \E n \in Tab \cup Layer : PutThumbnail(j, n)
       \/ PutManifest(j) \/ PutCache(j) \/ Report(j)
       \/ Crash(j) \/ Requeue(j) \/ GiveUp(j)

Spec == Init /\ [][Next]_vars

-----------------------------------------------------------------------------
(* The picker the user is shown.  It has a manifest, and its thumbnails    *)
(* are there (get_layer_preview_svg answers 404 otherwise), however many   *)
(* discoveries of its tab ran at once or again after a crash, unless one   *)
(* of another tab ran at the same time or since.  If it is of the tab of   *)
(* the binding, so are the layers the user confirms and the primitives the *)
(* preprocess reuses: submit_discover_layers says that "a re-run after a   *)
(* layout pick (or for a tab-bound file) renders the right tab".           *)
PickerIsRight ==
  LET open == CASE status = "awaiting_layout" -> "layouts"
                [] status = "awaiting_layers" -> "layers"
                [] OTHER -> None
  IN  open # None =>
        /\ manifest[open] # None
        /\ ~shown.rival => manifest[open].names \subseteq svgs[open]
        /\ ~shown.rival /\ open = "layers" /\ shown.tab = chosen
             => manifest["layers"].tab = Resolve(chosen) /\ cache = Resolve(chosen)
=============================================================================
