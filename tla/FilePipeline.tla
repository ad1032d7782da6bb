---------------------------- MODULE FilePipeline ----------------------------
(***************************************************************************)
(* The life of the files bound to one version: the web handlers that       *)
(* change a binding (app/main.py), the jobs they enqueue and what those    *)
(* jobs write (app/jobs.py), the binding rows (app/files.py), the blobs    *)
(* derived from a DXF, and the sign-off that freezes the version.          *)
(*                                                                         *)
(* Handlers run in any web replica and jobs in any worker, so a handler    *)
(* and a job are both a task: a list of steps, each of which is one        *)
(* database transaction or one blob operation, interleaved with the steps  *)
(* of every other task.  What a task read stays in the task.               *)
(*                                                                         *)
(* The queue itself is in JobQueue; here a job is queued, running in one   *)
(* of Slots pool slots of the fleet, or ended, and a crash puts it back.   *)
(***************************************************************************)
EXTENDS Integers, FiniteSets, Sequences

CONSTANTS
  File,         \* DXFs, by the hash of their bytes
  Request,      \* handlers that may run at the same time
  Tab,          \* AutoCAD tabs (layouts)
  PaperTabs,    \* PaperTabs[f]: tabs with geometry if the model space is empty
  Layers,       \* layer selections the operator may confirm
  Unit,         \* units the operator may choose; a unit stands for its scale
  Detected,     \* the unit the auto-rescale detector finds
  Millimetre,   \* scale 1.0, the default of a new binding
  View,         \* settings of the three view rectangles
  Ops,          \* the handlers the users call
  Slots,        \* jobs that run at the same time
  MaxAttempts,  \* MAX_ATTEMPTS of the job queue
  MaxRequests,  \* bound: handlers ever called
  MaxJobs,      \* bound: jobs ever enqueued
  Faults,       \* the kinds of fault that may happen
  MaxFaults,    \* bound: faults in one behaviour
  None          \* SQL NULL, or no blob

OpKinds == {"upload", "skip", "replace", "delete", "unit", "regions", "layers",
            "discover", "layout", "match", "check", "reprocess", "signoff",
            "unsign"}

(***************************************************************************)
(* "crash"     the worker of a running job dies                            *)
(* "raise"     a job function raises                                       *)
(* "callback"  the success callback of a job raises                        *)
(* "web"       a web replica dies between two steps of a handler           *)
(***************************************************************************)
FaultKinds == {"crash", "raise", "callback", "web"}

ASSUME ConstantsAssumption ==
  /\ PaperTabs \in [File -> SUBSET Tab]
  /\ Detected \in Unit /\ Millimetre \in Unit
  /\ Ops \subseteq OpKinds
  /\ Faults \subseteq FaultKinds
  /\ Slots \in Nat \ {0} /\ MaxAttempts \in Nat \ {0}
  /\ MaxRequests \in Nat /\ MaxJobs \in Nat /\ MaxFaults \in Nat
  /\ Request \cap (1..MaxJobs) = {}
  /\ None \notin Tab \cup Layers \cup Unit \cup View

VARIABLES
  binding,  \* binding[f]: the version_files row
  blob,     \* blob[f]: what the blob store holds for the file in this version
  verdict,  \* rule_check/{version_id}.json: the matches it was computed from
  signed,   \* versions.signed_off_by is not NULL
  job,      \* the jobs rows of this version
  task,     \* the steps each handler and each running job has still to take
  calls,    \* handlers called so far
  faults    \* faults so far

vars == <<binding, blob, verdict, signed, job, task, calls, faults>>

JobId == 1..MaxJobs
TaskId == Request \cup JobId

Statuses == {"discovering", "awaiting_layout", "awaiting_layers",
             "preprocessing", "ready", "error"}

Binding == [status : Statuses \cup {"unbound"},
            layers : Layers \cup {None},
            tab    : Tab \cup {None},
            unit   : Unit \cup {None},
            scale  : Unit,
            views  : View \cup {None},
            saved  : BOOLEAN]

Fresh(status) == [status |-> status, layers |-> None, tab |-> None,
                  unit |-> None, scale |-> Millimetre, views |-> None,
                  saved |-> FALSE]

(* A flattened drawing: the tab it shows (None is the model space), the
   scale it was drawn at and, once filtered, the layers it keeps.          *)
Drawing == [tab : Tab \cup {None}, scale : Unit, layers : Layers \cup {None}]
Match == [of : Drawing, views : View \cup {None}]

(* NULL, and a blob that is missing, is not mistaken for a drawing.        *)
ASSUME NullAssumption == None \notin Drawing

Blobs == [layouts : BOOLEAN,              \* layout manifest
          manifest : BOOLEAN,             \* layer manifest
          cache : Drawing \cup {None},    \* transient primitives of Phase 1
          parsed : Drawing \cup {None},
          match : Match \cup {None}]

NoBlobs == [layouts |-> FALSE, manifest |-> FALSE, cache |-> None,
            parsed |-> None, match |-> None]

Kinds == {"discover", "preprocess", "match", "check"}
Job == [state : {"unborn", "queued", "running", "done", "error"},
        kind : Kinds, attempts : Nat, file : File \cup {None},
        files : SUBSET File, layers : Layers \cup {None},
        tab : Tab \cup {None}, unit : Unit \cup {None}, cached : BOOLEAN]

Steps == {"bind", "unbind", "drop", "status", "layers", "tab", "unit", "views",
          "unmatch", "unsave", "inflight", "reread", "resolve", "reprocess",
          "discover", "preprocess", "match", "check",
          "layouts", "manifest", "cache", "flatten", "parsed", "uncache",
          "publish", "autounit", "region", "load", "result", "save",
          "bundle", "verdict", "end", "fail"}

Task == [todo : Seq(Steps), file : File \cup {None},
         victim : File \cup {None}, files : SUBSET File, status : Statuses,
         layers : Layers \cup {None}, tab : Tab \cup {None},
         unit : Unit \cup {None}, views : View \cup {None},
         cached : BOOLEAN, got : Drawing \cup {None}, bundle : SUBSET Match]

Idle == [todo |-> <<>>, file |-> None, victim |-> None, files |-> {},
         status |-> "ready", layers |-> None, tab |-> None, unit |-> None,
         views |-> None, cached |-> FALSE, got |-> None, bundle |-> {}]

NoJob == [state |-> "unborn", kind |-> "discover", attempts |-> 0,
          file |-> None, files |-> {}, layers |-> None, tab |-> None,
          unit |-> None, cached |-> FALSE]

TypeOK ==
  /\ binding \in [File -> Binding]
  /\ blob \in [File -> Blobs]
  /\ verdict \in SUBSET Match
  /\ signed \in BOOLEAN
  /\ job \in [JobId -> Job]
  /\ task \in [TaskId -> Task]
  /\ calls \in Nat
  /\ faults \in Nat

Init ==
  /\ binding = [f \in File |-> Fresh("unbound")]
  /\ blob = [f \in File |-> NoBlobs]
  /\ verdict = {}
  /\ signed = FALSE
  /\ job = [j \in JobId |-> NoJob]
  /\ task = [x \in TaskId |-> Idle]
  /\ calls = 0
  /\ faults = 0

-----------------------------------------------------------------------------
(* Helper state functions.                                                 *)

Bound(f) == binding[f].status # "unbound"
Waiting(j) == job[j].state = "queued"
Running(j) == job[j].state = "running"
Unfinished(j) == Waiting(j) \/ Running(j)

(* The tab a drawing shows: the requested one, else the model space, else
   one of the paper tabs.                                                  *)
RenderedTab(f, tab) ==
  IF tab # None \/ PaperTabs[f] = {} THEN tab
  ELSE CHOOSE t \in PaperTabs[f] : TRUE

(* Mutant: the detector is not asked when there is no override.            *)
FlattenedUndetected(f, tab, unit) ==
  [tab |-> RenderedTab(f, tab), layers |-> None, scale |-> unit]

(* flatten_for_render: the override's scale, else the detector's.          *)
Flattened(f, tab, unit) ==
  [tab |-> RenderedTab(f, tab), layers |-> None,
   scale |-> IF unit = None THEN Detected ELSE unit]

At(x, step) == task[x].todo # <<>> /\ Head(task[x].todo) = step

(* The task is t after its first step.                                     *)
Then(x, t) ==
  task' = [task EXCEPT ![x] = IF Len(t.todo) <= 1 THEN Idle
                              ELSE [t EXCEPT !.todo = Tail(t.todo)]]
Continue(x) == Then(x, task[x])
Stop(x) == task' = [task EXCEPT ![x] = Idle]

(* UPDATE version_files ... WHERE version_id = ? AND file_id = ?           *)
Update(f, field, value) ==
  binding' = IF Bound(f) THEN [binding EXCEPT ![f][field] = value] ELSE binding

Put(f, name, value) == blob' = [blob EXCEPT ![f][name] = value]

Fault(kind) == /\ kind \in Faults
               /\ faults < MaxFaults
               /\ faults' = faults + 1

-----------------------------------------------------------------------------
(* The handlers: their checks, which end in an error response, and the     *)
(* steps they are left to take.                                            *)

Call(op, t) ==
  /\ op \in Ops
  /\ calls < MaxRequests
  /\ calls' = calls + 1
  /\ \E x \in Request : task[x] = Idle /\ task' = [task EXCEPT ![x] = t]
  /\ UNCHANGED <<binding, blob, verdict, signed, job, faults>>

Handler(f, steps) == [Idle EXCEPT !.file = f, !.todo = steps]

(* POST /versions/{id}/files, into the layer picker or past it.            *)
Upload(f) ==
  /\ ~signed
  /\ Call("upload", [Handler(f, <<"bind", "resolve", "discover">>)
                       EXCEPT !.status = "discovering"])

UploadSkippingLayers(f) ==
  /\ ~signed
  /\ Call("skip", [Handler(f, <<"bind", "resolve", "preprocess">>)
                     EXCEPT !.status = "preprocessing"])

(* The same with replace_file_id: the evictee goes first.                  *)
Replace(f, g) ==
  /\ ~signed
  /\ Bound(g)
  /\ Call("replace", [Handler(f, <<"unbind", "drop", "bind", "resolve", "discover">>)
                        EXCEPT !.victim = g, !.status = "discovering"])

DeleteFile(f) ==
  /\ ~signed
  /\ Bound(f)
  /\ Call("delete", [Handler(f, <<"unbind", "drop">>) EXCEPT !.victim = f])

UnitOverride(f, u) ==
  /\ ~signed
  /\ Bound(f)
  /\ binding[f].status # "awaiting_layout"
  /\ Call("unit", [Handler(f, <<"inflight", "reread", "unit", "status",
                                "resolve", "preprocess">>)
                     EXCEPT !.unit = u, !.status = "preprocessing"])

SideRegions(f, v) ==
  /\ ~signed
  /\ Bound(f)
  /\ Call("regions", [Handler(f, <<"views", "unmatch", "unsave">>)
                        EXCEPT !.views = v])

ConfirmLayers(f, l) ==
  /\ ~signed
  /\ Bound(f)
  /\ blob[f].manifest
  /\ Call("layers", [Handler(f, <<"layers", "status", "resolve", "preprocess">>)
                       EXCEPT !.layers = l, !.status = "preprocessing"])

DiscoverLayers(f) ==
  /\ ~signed
  /\ Bound(f)
  /\ Call("discover", [Handler(f, <<"status", "resolve", "discover">>)
                         EXCEPT !.status = "discovering"])

(* Switching the tab drops the saved match.                                *)
ConfirmLayout(f, t) ==
  /\ ~signed
  /\ Bound(f)
  /\ blob[f].layouts
  /\ Call("layout",
          [Handler(f, <<"tab">>
                      \o (IF t # binding[f].tab THEN <<"unmatch", "unsave">>
                                                ELSE <<>>)
                      \o <<"status", "resolve", "discover">>)
             EXCEPT !.tab = t, !.status = "discovering"])

SaveMatch(f) ==
  /\ ~signed
  /\ Bound(f)
  /\ blob[f].parsed # None
  /\ Call("match", Handler(f, <<"match">>))

RuleCheck ==
  /\ ~signed
  /\ LET files == {f \in File : Bound(f)} IN
     /\ files # {}
     /\ \A f \in files : binding[f].saved /\ blob[f].match # None
     /\ Call("check", [Handler(None, <<"check">>) EXCEPT !.files = files])

ReprocessSkips == {"discovering", "awaiting_layout", "awaiting_layers", "error"}

(* Mutant: signed versions are not skipped.                                *)
ReprocessSignedToo(f) ==
  /\ Bound(f)
  /\ binding[f].status \notin ReprocessSkips
  /\ Call("reprocess", [Handler(f, <<"reprocess">>)
                          EXCEPT !.layers = binding[f].layers,
                                 !.tab = binding[f].tab,
                                 !.unit = binding[f].unit])

(* submit_reprocess_all for one binding; its fan-out is in JobQueue.       *)
Reprocess(f) ==
  /\ ~signed
  /\ Bound(f)
  /\ binding[f].status \notin ReprocessSkips
  /\ Call("reprocess", [Handler(f, <<"reprocess">>)
                          EXCEPT !.layers = binding[f].layers,
                                 !.tab = binding[f].tab,
                                 !.unit = binding[f].unit])

(* One transaction checks and sets signed_off_by; neither looks at files or
   jobs.  Unsign is an unconditional UPDATE.                               *)
SignOff ==
  /\ ~signed
  /\ "signoff" \in Ops /\ calls < MaxRequests
  /\ signed' = TRUE
  /\ calls' = calls + 1
  /\ UNCHANGED <<binding, blob, verdict, job, task, faults>>

Unsign ==
  /\ "unsign" \in Ops /\ calls < MaxRequests
  /\ signed' = FALSE
  /\ calls' = calls + 1
  /\ UNCHANGED <<binding, blob, verdict, job, task, faults>>

-----------------------------------------------------------------------------
(* Steps that write the binding row.                                       *)

(* INSERT OR REPLACE: every column but the status starts afresh.           *)
Bind(x) ==
  /\ At(x, "bind")
  /\ binding' = [binding EXCEPT ![task[x].file] = Fresh(task[x].status)]
  /\ Continue(x)
  /\ UNCHANGED <<blob, verdict, signed, job, calls, faults>>

Unbind(x) ==
  /\ At(x, "unbind")
  /\ binding' = [binding EXCEPT ![task[x].victim] = Fresh("unbound")]
  /\ Continue(x)
  /\ UNCHANGED <<blob, verdict, signed, job, calls, faults>>

Column(x, field, value) ==
  /\ Update(task[x].file, field, value)
  /\ Continue(x)
  /\ UNCHANGED <<blob, verdict, signed, job, calls, faults>>

UpdateStatus(x)     == At(x, "status") /\ Column(x, "status", task[x].status)
UpdateLayers(x)     == At(x, "layers") /\ Column(x, "layers", task[x].layers)
SetChosenLayout(x)  == At(x, "tab")    /\ Column(x, "tab", task[x].tab)
SetUnitOverride(x)  == At(x, "unit")   /\ Column(x, "unit", task[x].unit)
UpdateRegions(x)    == At(x, "views")  /\ Column(x, "views", task[x].views)
ClearMatchSaved(x)  == At(x, "unsave") /\ Column(x, "saved", FALSE)
SetMatchSaved(x)    == At(x, "save")   /\ Column(x, "saved", TRUE)
ClearUnit(x)        == At(x, "autounit") /\ Column(x, "unit", None)

(* update_parsed, and the steps _apply_preprocess_result takes after it: a
   tab of paper space is pinned, the match is dropped if the scale changed,
   an override the detector agrees with is cleared.                        *)
Publish(x) ==
  /\ At(x, "publish")
  /\ LET t == task[x]
         f == t.file
         prior == IF Bound(f) THEN binding[f].scale ELSE Millimetre
         pin == IF t.got.tab # None THEN <<"tab">> ELSE <<>>
         drop == IF prior # t.got.scale THEN <<"unmatch", "unsave">> ELSE <<>>
         clear == IF t.unit = Detected THEN <<"autounit">> ELSE <<>>
     IN /\ binding' = IF Bound(f)
                      THEN [binding EXCEPT ![f].status = "ready",
                                           ![f].scale = t.got.scale]
                      ELSE binding
        /\ Then(x, [t EXCEPT !.tab = IF t.got.tab # None THEN t.got.tab ELSE t.tab,
                             !.todo = <<"publish">> \o pin \o drop \o clear
                                        \o Tail(t.todo)])
  /\ UNCHANGED <<blob, verdict, signed, job, calls, faults>>

-----------------------------------------------------------------------------
(* Steps that read the row or the queue for the handler.                   *)

InflightPreprocess(f) ==
  \E j \in JobId : Unfinished(j) /\ job[j].kind = "preprocess" /\ job[j].file = f

(* find_inflight_preprocess_job: 409 if there is one.                      *)
FindInflight(x) ==
  /\ At(x, "inflight")
  /\ IF InflightPreprocess(task[x].file) THEN Stop(x) ELSE Continue(x)
  /\ UNCHANGED <<binding, blob, verdict, signed, job, calls, faults>>

(* submit_unit_override_preprocess: KeyError if the binding is gone.       *)
Reread(x) ==
  /\ At(x, "reread")
  /\ LET row == binding[task[x].file] IN
     IF Bound(task[x].file)
     THEN Then(x, [task[x] EXCEPT !.layers = row.layers, !.tab = row.tab])
     ELSE Stop(x)
  /\ UNCHANGED <<binding, blob, verdict, signed, job, calls, faults>>

(* What the caller did not give, the job takes from the row.               *)
Resolve(x) ==
  /\ At(x, "resolve")
  /\ LET t == task[x]
         row == binding[t.file] IN
     Then(x, [t EXCEPT !.unit = IF t.unit = None THEN row.unit ELSE t.unit,
                       !.tab = IF t.tab = None THEN row.tab ELSE t.tab])
  /\ UNCHANGED <<binding, blob, verdict, signed, job, calls, faults>>

Enqueue(x, payload) ==
  /\ \E j \in JobId :
       /\ job[j].state = "unborn"
       /\ \A i \in JobId : job[i].state = "unborn" => j <= i
       /\ job' = [job EXCEPT ![j] = payload]
  /\ Continue(x)
  /\ UNCHANGED <<binding, blob, verdict, signed, calls, faults>>

Queued(x, kind) == [NoJob EXCEPT !.state = "queued", !.kind = kind,
                                 !.file = task[x].file]

(* insert(...): the payload is fixed here.  Reprocess gives the job no
   transient cache.                                                        *)
EnqueueDiscover(x) ==
  /\ At(x, "discover")
  /\ Enqueue(x, [Queued(x, "discover") EXCEPT !.tab = task[x].tab])

EnqueuePreprocess(x, step, cached) ==
  /\ At(x, step)
  /\ Enqueue(x, [Queued(x, "preprocess")
                   EXCEPT !.layers = task[x].layers, !.tab = task[x].tab,
                          !.unit = task[x].unit, !.cached = cached])

EnqueueMatch(x) == At(x, "match") /\ Enqueue(x, Queued(x, "match"))

EnqueueCheck(x) ==
  /\ At(x, "check")
  /\ Enqueue(x, [Queued(x, "check") EXCEPT !.files = task[x].files])

-----------------------------------------------------------------------------
(* The jobs.                                                               *)

(* Two tabs with geometry and none chosen: the operator has to pick one.   *)
NeedsLayoutPick(j) == /\ job[j].kind = "discover"
                      /\ job[j].tab = None
                      /\ Cardinality(PaperTabs[job[j].file]) >= 2

(* Mutant: the status is written before the manifests.                     *)
PlanStatusFirst(j) ==
  CASE job[j].kind = "discover" ->
         <<"status">> \o (IF NeedsLayoutPick(j) THEN <<"layouts">>
                          ELSE <<"manifest", "cache">>) \o <<"end">>
    [] job[j].kind = "preprocess" ->
         <<"flatten", "parsed">>
           \o (IF job[j].cached THEN <<"uncache">> ELSE <<>>)
           \o <<"publish", "end">>
    [] job[j].kind = "match" -> <<"region", "load", "result", "save", "end">>
    [] job[j].kind = "check" -> <<"bundle", "verdict", "end">>

Plan(j) ==
  CASE job[j].kind = "discover" ->
         (IF NeedsLayoutPick(j) THEN <<"layouts">>
          ELSE <<"manifest", "cache">>) \o <<"status", "end">>
    [] job[j].kind = "preprocess" ->
         <<"flatten", "parsed">>
           \o (IF job[j].cached THEN <<"uncache">> ELSE <<>>)
           \o <<"publish", "end">>
    [] job[j].kind = "match" -> <<"region", "load", "result", "save", "end">>
    [] job[j].kind = "check" -> <<"bundle", "verdict", "end">>

(* claim_next: the oldest queued row.                                      *)
Claim(j) ==
  /\ Waiting(j)
  /\ \A i \in JobId : Waiting(i) => j <= i
  /\ Cardinality({i \in JobId : task[i] # Idle}) < Slots
  /\ job' = [job EXCEPT ![j] = [@ EXCEPT !.state = "running",
                                         !.attempts = job[j].attempts + 1]]
  /\ task' = [task EXCEPT ![j] =
       [Idle EXCEPT !.todo = Plan(j), !.file = job[j].file,
                    !.files = job[j].files, !.layers = job[j].layers,
                    !.tab = job[j].tab, !.unit = job[j].unit,
                    !.cached = job[j].cached,
                    !.status = IF NeedsLayoutPick(j)
                               THEN "awaiting_layout" ELSE "awaiting_layers"]]
  /\ UNCHANGED <<binding, blob, verdict, signed, calls, faults>>

(* Mutant: only a failed preprocess shows on the binding.                  *)
FailingQuietly(j) ==
  IF job[j].kind = "preprocess"
  THEN [Idle EXCEPT !.file = job[j].file, !.status = "error",
                    !.todo = <<"status", "fail">>]
  ELSE [Idle EXCEPT !.todo = <<"fail">>]

(* apply_failure: a failed discover or preprocess shows on the binding.    *)
Failing(j) ==
  IF job[j].kind \in {"discover", "preprocess"}
  THEN [Idle EXCEPT !.file = job[j].file, !.status = "error",
                    !.todo = <<"status", "fail">>]
  ELSE [Idle EXCEPT !.todo = <<"fail">>]
Fail(j) == task' = [task EXCEPT ![j] = Failing(j)]

PutBlob(x, name, value) ==
  /\ Put(task[x].file, name, value)
  /\ Continue(x)
  /\ UNCHANGED <<binding, verdict, signed, job, calls, faults>>

PutLayouts(x)  == At(x, "layouts")  /\ PutBlob(x, "layouts", TRUE)
PutManifest(x) == At(x, "manifest") /\ PutBlob(x, "manifest", TRUE)
PutCache(x)    == At(x, "cache")
                  /\ PutBlob(x, "cache", Flattened(task[x].file, task[x].tab, None))
DropCache(x)   == At(x, "uncache")  /\ PutBlob(x, "cache", None)
PutParsed(x)   == At(x, "parsed")   /\ PutBlob(x, "parsed", task[x].got)
PutMatch(x)    == At(x, "result")
                  /\ PutBlob(x, "match", [of |-> task[x].got, views |-> task[x].views])
DropMatch(x)   == At(x, "unmatch")  /\ PutBlob(x, "match", None)

DropVictimMatch(x) ==
  /\ At(x, "drop")
  /\ Put(task[x].victim, "match", None)
  /\ Continue(x)
  /\ UNCHANGED <<binding, verdict, signed, job, calls, faults>>

(* Phase 1's cache is trusted unless a unit was asked for.                 *)
Flatten(x) ==
  /\ At(x, "flatten")
  /\ LET t == task[x]
         useCache == t.unit = None /\ t.cached /\ blob[t.file].cache # None
         drawing == IF useCache THEN blob[t.file].cache
                                ELSE Flattened(t.file, t.tab, t.unit)
     IN Then(x, [t EXCEPT !.got = [drawing EXCEPT !.layers = t.layers]])
  /\ UNCHANGED <<binding, blob, verdict, signed, job, calls, faults>>

(* _save_match_worker reads the rectangles first and the drawing later.    *)
ReadRegions(x) ==
  /\ At(x, "region")
  /\ IF Bound(task[x].file)
     THEN Then(x, [task[x] EXCEPT !.views = binding[task[x].file].views])
     ELSE Fail(x)
  /\ UNCHANGED <<binding, blob, verdict, signed, job, calls, faults>>

LoadParsed(x) ==
  /\ At(x, "load")
  /\ IF blob[task[x].file].parsed # None
     THEN Then(x, [task[x] EXCEPT !.got = blob[task[x].file].parsed])
     ELSE Fail(x)
  /\ UNCHANGED <<binding, blob, verdict, signed, job, calls, faults>>

(* Every file of the check still bound, every match on disk.               *)
MaterialiseBundle(x) ==
  /\ At(x, "bundle")
  /\ LET files == task[x].files IN
     IF \A f \in files : Bound(f) /\ blob[f].match # None
     THEN Then(x, [task[x] EXCEPT !.bundle = {blob[f].match : f \in files}])
     ELSE Fail(x)
  /\ UNCHANGED <<binding, blob, verdict, signed, job, calls, faults>>

PutVerdict(x) ==
  /\ At(x, "verdict")
  /\ verdict' = task[x].bundle
  /\ Continue(x)
  /\ UNCHANGED <<binding, blob, signed, job, calls, faults>>

(* complete and fail of the job's row.                                     *)
Settle(j, step, outcome) ==
  /\ At(j, step)
  /\ job' = [job EXCEPT ![j].state = outcome]
  /\ Continue(j)
  /\ UNCHANGED <<binding, blob, verdict, signed, calls, faults>>

-----------------------------------------------------------------------------
(* Faults.                                                                 *)

WorkSteps == {"layouts", "manifest", "cache", "flatten", "parsed", "uncache",
              "region", "load", "result", "bundle", "verdict"}

(* The worker of j dies; the row stays running until it is found stale.    *)
Crash(j) ==
  /\ task[j] # Idle
  /\ Fault("crash")
  /\ Stop(j)
  /\ UNCHANGED <<binding, blob, verdict, signed, job, calls>>

Orphaned(j) == Running(j) /\ task[j] = Idle

(* Mutant: off by one, a row with one attempt left is neither requeued nor
   expired.                                                                *)
RequeueShort(j) ==
  /\ Orphaned(j)
  /\ job[j].attempts + 1 < MaxAttempts
  /\ job' = [job EXCEPT ![j].state = "queued"]
  /\ UNCHANGED <<binding, blob, verdict, signed, task, calls, faults>>

(* requeue_stale.                                                          *)
Requeue(j) ==
  /\ Orphaned(j)
  /\ job[j].attempts < MaxAttempts
  /\ job' = [job EXCEPT ![j].state = "queued"]
  /\ UNCHANGED <<binding, blob, verdict, signed, task, calls, faults>>

(* stale_exhausted.                                                        *)
Expire(j) ==
  /\ Orphaned(j)
  /\ job[j].attempts >= MaxAttempts
  /\ Fail(j)
  /\ UNCHANGED <<binding, blob, verdict, signed, job, calls, faults>>

WorkRaises(j) ==
  /\ \E step \in WorkSteps : At(j, step)
  /\ Fault("raise")
  /\ Fail(j)
  /\ UNCHANGED <<binding, blob, verdict, signed, job, calls>>

(* apply_success raises: the job fails and the binding stays as it is.     *)
CallbackRaises(j) ==
  /\ task[j].todo # <<>>
  /\ task[j].todo[Len(task[j].todo)] = "end"
  /\ \A step \in WorkSteps \cup {"end"} : ~At(j, step)
  /\ Fault("callback")
  /\ task' = [task EXCEPT ![j] = [Idle EXCEPT !.todo = <<"fail">>]]
  /\ UNCHANGED <<binding, blob, verdict, signed, job, calls>>

WebDies(x) ==
  /\ task[x] # Idle
  /\ Fault("web")
  /\ Stop(x)
  /\ UNCHANGED <<binding, blob, verdict, signed, job, calls>>

-----------------------------------------------------------------------------

RowStep(x) ==
  \/ Bind(x) \/ Unbind(x) \/ UpdateStatus(x) \/ UpdateLayers(x)
  \/ SetChosenLayout(x) \/ SetUnitOverride(x) \/ UpdateRegions(x)
  \/ ClearMatchSaved(x) \/ SetMatchSaved(x) \/ ClearUnit(x) \/ Publish(x)

HandlerStep(x) ==
  \/ FindInflight(x) \/ Reread(x) \/ Resolve(x) \/ EnqueueDiscover(x)
  \/ EnqueuePreprocess(x, "preprocess", TRUE)
  \/ EnqueuePreprocess(x, "reprocess", FALSE)
  \/ EnqueueMatch(x) \/ EnqueueCheck(x) \/ DropVictimMatch(x)

JobStep(x) ==
  \/ PutLayouts(x) \/ PutManifest(x) \/ PutCache(x) \/ Flatten(x)
  \/ PutParsed(x) \/ DropCache(x) \/ ReadRegions(x) \/ LoadParsed(x)
  \/ PutMatch(x) \/ MaterialiseBundle(x) \/ PutVerdict(x)
  \/ Settle(x, "end", "done") \/ Settle(x, "fail", "error")

TaskStep(x) == RowStep(x) \/ DropMatch(x) \/ HandlerStep(x) \/ JobStep(x)

FileCall(f) ==
  \/ Upload(f) \/ UploadSkippingLayers(f) \/ DeleteFile(f)
  \/ \E g \in File : Replace(f, g)
  \/ \E u \in Unit : UnitOverride(f, u)
  \/ \E v \in View \cup {None} : SideRegions(f, v)
  \/ \E l \in Layers : ConfirmLayers(f, l)
  \/ DiscoverLayers(f)
  \/ \E t \in PaperTabs[f] : ConfirmLayout(f, t)
  \/ SaveMatch(f) \/ Reprocess(f)

Next ==
  \/ \E f \in File : FileCall(f)
  \/ RuleCheck \/ SignOff \/ Unsign
  \/ \E x \in TaskId : TaskStep(x)
  \/ \E j \in JobId : Claim(j) \/ Requeue(j) \/ Expire(j)
                       \/ Crash(j) \/ WorkRaises(j) \/ CallbackRaises(j)
  \/ \E x \in Request : WebDies(x)

(* A handler that runs goes on, a worker loop takes queued jobs and runs
   them; nobody has to call anything.                                      *)
Fairness == /\ \A x \in TaskId : WF_vars(TaskStep(x))
            /\ \A j \in JobId : WF_vars(Claim(j) \/ Requeue(j) \/ Expire(j))

Spec == Init /\ [][Next]_vars
FairSpec == Spec /\ Fairness

-----------------------------------------------------------------------------
(* Properties.                                                             *)

Quiet == (\A x \in TaskId : task[x] = Idle) /\ (\A j \in JobId : ~Unfinished(j))

Promises(x, f, steps) ==
  task[x].file = f /\ \E i \in DOMAIN task[x].todo : task[x].todo[i] \in steps

(* A status the user acts on stands for an artefact that is there: a ready
   file has its parsed drawing, a file that waits for a choice has the
   manifest to choose from, whatever was uploaded, replaced, recomputed or
   crashed in between.                                                     *)
StatusHasArtefact ==
  \A f \in File :
    /\ binding[f].status = "ready" => blob[f].parsed # None
    /\ binding[f].status = "awaiting_layers" => blob[f].manifest
    /\ binding[f].status = "awaiting_layout" => blob[f].layouts

(* A file that reads discovering or preprocessing has work pending that
   will change it: the handler that wrote the status has still to enqueue,
   or a job is unfinished; jobs that finish out of order never leave it
   busy with nothing to wait for.  (Not so if a handler dies half-way or a
   success callback raises: see the README.)                               *)
BusyIsPending ==
  \A f \in File :
    binding[f].status \in {"discovering", "preprocessing"}
      => \/ \E x \in Request : Promises(x, f, {"discover", "preprocess"})
         \/ \E j \in JobId : Unfinished(j) /\ job[j].file = f
                             /\ job[j].kind \in {"discover", "preprocess"}

(* The dashboard's spinner stops: a busy file is ready, waiting for a
   choice, failed or gone at some later time, through retries and worker
   crashes.                                                                *)
BusyEnds ==
  \A f \in File :
    binding[f].status \in {"discovering", "preprocessing"}
      ~> binding[f].status \notin {"discovering", "preprocessing"}

(* Once a signed version has come to rest nothing changes it: no handler
   and no job begun later writes a binding, a blob or a verdict.           *)
SignedAtRestIsFrozen ==
  [][signed /\ signed' /\ Quiet => UNCHANGED <<binding, blob, verdict, job, task>>]_vars

Rescaled(f) == /\ binding[f].status = "ready" /\ binding[f].saved
               /\ blob[f].match # None
               /\ blob[f].match.of.scale # binding[f].scale

(* openspec dxf-pipeline, "Auto-rescale invalidates saved Match JSON": when
   all work is done no ready file keeps a match of another scale.  The code
   does not keep this.  update_parsed commits the new scale before the match
   is dropped, and a retry compares with the scale its crashed attempt
   wrote; and a match job may read the old drawing and save after the drop. *)
RescaleDropsMatch == Quiet => \A f \in File : ~Rescaled(f)

=============================================================================
