----------------------------- MODULE RuleCheck -----------------------------
(***************************************************************************)
(* A version's rule check: the request that checks every binding has its   *)
(* Match JSON and submits a job, the worker that reads the bindings one by *)
(* one, builds the handoff bundle file by file and persists the validated  *)
(* result, the download of the same bundle, the upload of a hand-crafted   *)
(* result, and the edits and save-matches that run meanwhile               *)
(* (app/main.py, app/jobs.py, app/drc_bundle.py).                          *)
(*                                                                         *)
(* Rectangles are known by the number of the edit that drew them (0: none  *)
(* are drawn), a Match JSON by the rectangles its keys were split by.  An  *)
(* edit is the handler's three statements and waits for nobody; so does a  *)
(* save-match.  The queue is JobQueue's, with its stale requeue; a bound    *)
(* file is taken as parsed, and the version as unsigned (FilePipeline).    *)
(***************************************************************************)
EXTENDS Naturals

CONSTANTS
  File,
  Replica,    \* web replicas: each carries out one edit at a time
  Saver,      \* job slots that carry out save-matches
  Worker,     \* job slots that carry out rule checks
  Caller,     \* callers of the bundle's download
  MaxJobs,    \* bound: rule checks submitted
  MaxEdits,   \* bound: redraws, unbindings and new bindings
  MaxUploads, \* bound: hand-crafted results
  MaxCrashes, \* bound: replicas and jobs that die half-way
  None

MAX_ATTEMPTS == 3

Jobs == 1..MaxJobs
Rects == 0..MaxEdits
Actor == Worker \cup Caller

VARIABLES
  row,     \* row[f]: the binding, or None
  match,   \* match[f]: the rectangles of the stored Match JSON, or None
  edit,    \* edit[r]: the edit that replica r carries out
  save,    \* save[s]: the save-match that slot s carries out
  doubt,   \* doubt[f]: the last edit of f was written while a save-match of f
           \* ran, or was cut off before it dropped the match (history)
  job,     \* job[j], in order of submission
  run,     \* run[a]: a bundle being built and used; quiet: while it was read
           \* and copied no edit wrote, was half done, or left a file in doubt
           \* (history)
  result,  \* who wrote rule_check/<version>.json, or None
  edits, uploads, crashes

files == <<row, match, edit, save, doubt, edits>>
vars == <<files, job, run, result, uploads, crashes>>

Binding == [rect : Rects, saved : BOOLEAN]

RuleCheckAssumption ==
  /\ {MaxJobs, MaxEdits, MaxUploads, MaxCrashes} \subseteq Nat
  /\ Worker \cap Caller = {}
  /\ None \notin File \cup Jobs \cup Rects \cup Binding

Uploaded == 0
NoJob == [state |-> "unborn", files |-> {}, attempts |-> 0]
Idle == [phase |-> "idle", job |-> None, rows |-> <<>>, copied |-> <<>>, quiet |-> TRUE]
NoEdit == [step |-> "idle", file |-> None, rect |-> 0]
NoSave == [step |-> "idle", file |-> None, rect |-> 0]

(* Every variable keeps its type. *)
TypeOK ==
  /\ row \in [File -> Binding \cup {None}]
  /\ match \in [File -> Rects \cup {None}]
  /\ edit \in [Replica -> [step : {"idle", "update", "unbind", "drop", "unmark", "gone"},
                           file : File \cup {None}, rect : Rects]]
  /\ save \in [Saver -> [step : {"idle", "scan", "mark"},
                         file : File \cup {None}, rect : Rects]]
  /\ doubt \in [File -> BOOLEAN]
  /\ \A j \in Jobs :
       /\ job[j].state \in {"unborn", "queued", "running", "done", "error"}
       /\ job[j].files \subseteq File
       /\ job[j].attempts \in 0..MAX_ATTEMPTS
  /\ \A a \in Actor :
       /\ run[a].phase \in {"idle", "rows", "copying", "handed", "checked", "put"}
       /\ DOMAIN run[a].copied \subseteq DOMAIN run[a].rows
  /\ result \in Jobs \cup {Uploaded, None}

Init ==
  /\ row = [f \in File |-> [rect |-> 0, saved |-> TRUE]]
  /\ match = [f \in File |-> 0]
  /\ edit = [r \in Replica |-> NoEdit]
  /\ save = [s \in Saver |-> NoSave]
  /\ doubt = [f \in File |-> FALSE]
  /\ job = [j \in Jobs |-> NoJob]
  /\ run = [a \in Actor |-> Idle]
  /\ result = None
  /\ edits = 0 /\ uploads = 0 /\ crashes = 0

Bound == {f \in File : row[f] # None}

-----------------------------------------------------------------------------
(* The editor's changes.  A handler that awaits nothing runs to its end at *)
(* its replica; between replicas and jobs every statement may interleave.  *)

Began == edits < MaxEdits /\ edits' = edits + 1

(* Every bundle that is being read or copied meets this edit.              *)
Disturbed == [a \in Actor |-> [run[a] EXCEPT
                !.quiet = @ /\ run[a].phase \notin {"rows", "copying"}]]

(* An edit that has changed the row and not yet dropped the match.         *)
HalfDone(r) == edit[r].step \in {"drop", "gone"}
Underway(f) == \E r \in Replica : HalfDone(r) /\ edit[r].file = f

MeetsSave(f) == \E s \in Saver : save[s].file = f
Steady(f) == ~doubt[f] /\ ~Underway(f)

(* patch_side_regions finds the binding ...                                *)
RequestRedraw(r, f) ==
  /\ edit[r].step = "idle" /\ row[f] # None /\ Began
  /\ edit' = [edit EXCEPT ![r] = [step |-> "update", file |-> f, rect |-> edits + 1]]
  /\ UNCHANGED <<row, match, save, doubt, job, run, result, uploads, crashes>>

(* ... stores the rectangles ...                                           *)
UpdateRegions(r) ==
  LET f == edit[r].file IN
  /\ edit[r].step = "update"
  /\ row' = IF row[f] = None THEN row ELSE [row EXCEPT ![f].rect = edit[r].rect]
  /\ edit' = [edit EXCEPT ![r].step = "drop"]
  /\ doubt' = [doubt EXCEPT ![f] = IF row[f] = None THEN @ ELSE MeetsSave(f)]
  /\ run' = Disturbed
  /\ UNCHANGED <<match, save, job, result, edits, uploads, crashes>>

(* Mutant: the saved match is not deleted. *)
KeepMatch(r) ==
  /\ HalfDone(r)
  /\ edit' = [edit EXCEPT ![r] = IF @.step = "drop" THEN [@ EXCEPT !.step = "unmark"] ELSE NoEdit]
  /\ run' = Disturbed
  /\ UNCHANGED <<row, match, save, doubt, job, result, edits, uploads, crashes>>

(* ... deletes the saved match (the last step of an unbinding) ...         *)
DropMatch(r) ==
  /\ HalfDone(r)
  /\ match' = [match EXCEPT ![edit[r].file] = None]
  /\ edit' = [edit EXCEPT ![r] = IF @.step = "drop" THEN [@ EXCEPT !.step = "unmark"] ELSE NoEdit]
  /\ run' = Disturbed
  /\ UNCHANGED <<row, save, doubt, job, result, edits, uploads, crashes>>

Mark(f, saved) == row' = IF row[f] = None THEN row ELSE [row EXCEPT ![f].saved = saved]

(* ... and resets match_saved.                                             *)
Unmark(r) ==
  /\ edit[r].step = "unmark"
  /\ Mark(edit[r].file, FALSE)
  /\ edit' = [edit EXCEPT ![r] = NoEdit]
  /\ run' = Disturbed
  /\ UNCHANGED <<match, save, doubt, job, result, edits, uploads, crashes>>

(* delete_version_file finds the binding, deletes it, and then its match.  *)
RequestUnbind(r, f) ==
  /\ edit[r].step = "idle" /\ row[f] # None /\ Began
  /\ edit' = [edit EXCEPT ![r] = [step |-> "unbind", file |-> f, rect |-> 0]]
  /\ UNCHANGED <<row, match, save, doubt, job, run, result, uploads, crashes>>

Unbind(r) ==
  LET f == edit[r].file IN
  /\ edit[r].step = "unbind"
  /\ row' = [row EXCEPT ![f] = None]
  /\ edit' = [edit EXCEPT ![r].step = "gone"]
  /\ doubt' = [doubt EXCEPT ![f] = MeetsSave(f)]
  /\ run' = Disturbed
  /\ UNCHANGED <<match, save, job, result, edits, uploads, crashes>>

(* FileStore.bind, of a file that the version does not have: no rectangle  *)
(* is drawn, and a match that is left from before stays.                   *)
Bind(f) ==
  /\ row[f] = None /\ Began
  /\ row' = [row EXCEPT ![f] = [rect |-> 0, saved |-> FALSE]]
  /\ doubt' = [doubt EXCEPT ![f] = @ \/ MeetsSave(f)]
  /\ run' = Disturbed
  /\ UNCHANGED <<match, edit, save, job, result, uploads, crashes>>

-----------------------------------------------------------------------------
(* _save_match_worker reads the rectangles ...                             *)
StartSave(s, f) ==
  /\ save[s].step = "idle" /\ row[f] # None
  /\ save' = [save EXCEPT ![s] = [step |-> "scan", file |-> f, rect |-> row[f].rect]]
  /\ UNCHANGED <<row, match, edit, doubt, edits, job, run, result, uploads, crashes>>

(* ... writes the Match JSON ...                                           *)
PutMatch(s) ==
  /\ save[s].step = "scan"
  /\ match' = [match EXCEPT ![save[s].file] = save[s].rect]
  /\ save' = [save EXCEPT ![s].step = "mark"]
  /\ UNCHANGED <<row, edit, doubt, edits, job, run, result, uploads, crashes>>

(* ... and the worker loop marks it saved.                                 *)
MarkSaved(s) ==
  /\ save[s].step = "mark"
  /\ Mark(save[s].file, TRUE)
  /\ save' = [save EXCEPT ![s] = NoSave]
  /\ UNCHANGED <<match, edit, doubt, edits, job, run, result, uploads, crashes>>

(* A replica dies in an edit, or a process in a save-match, which is then  *)
(* started again as any other.                                             *)
EditDies(r) ==
  /\ edit[r].step # "idle" /\ crashes < MaxCrashes
  /\ crashes' = crashes + 1
  /\ edit' = [edit EXCEPT ![r] = NoEdit]
  /\ doubt' = [doubt EXCEPT ![edit[r].file] = @ \/ HalfDone(r)]
  /\ UNCHANGED <<row, match, save, edits, job, run, result, uploads>>

SaveDies(s) ==
  /\ save[s].step # "idle" /\ crashes < MaxCrashes
  /\ crashes' = crashes + 1
  /\ save' = [save EXCEPT ![s] = NoSave]
  /\ UNCHANGED <<row, match, edit, doubt, edits, job, run, result, uploads>>

-----------------------------------------------------------------------------
(* Requests. *)

(* run_rule_check: bindings, saved flags and blobs, then the job, which    *)
(* reads them all again: an edit between its reads is as one after them.   *)
(* The version is unsigned; FilePipeline has the sign-off.                 *)
Post(j) ==
  /\ job[j].state = "unborn" /\ \A k \in 1..(j - 1) : job[k].state # "unborn"
  /\ Bound # {}
  /\ \A f \in Bound : row[f].saved /\ match[f] # None
  /\ job' = [job EXCEPT ![j].state = "queued", ![j].files = Bound]
  /\ UNCHANGED <<files, run, result, uploads, crashes>>

(* upload_rule_check, with a payload that passes the envelope. *)
Upload ==
  /\ uploads < MaxUploads
  /\ uploads' = uploads + 1
  /\ result' = Uploaded
  /\ UNCHANGED <<files, job, run, crashes>>

(* get_drc_bundle: all rows at once, every one saved. *)
StartDownload(d) ==
  /\ run[d].phase = "idle"
  /\ Bound # {} /\ \A f \in Bound : row[f].saved
  /\ run' = [run EXCEPT ![d].phase = "copying",
                        ![d].rows = [f \in Bound |-> row[f].rect],
                        ![d].quiet = \A f \in Bound : Steady(f)]
  /\ UNCHANGED <<files, job, result, uploads, crashes>>

EndDownload(d) ==
  /\ run[d].phase = "handed"
  /\ run' = [run EXCEPT ![d] = Idle]
  /\ UNCHANGED <<files, job, result, uploads, crashes>>

-----------------------------------------------------------------------------
(* The worker. *)

Queued == {j \in Jobs : job[j].state = "queued"}
OldestFirst(j) == \A k \in Queued : j <= k

Claim(w, j) ==
  /\ run[w].phase = "idle"
  /\ j \in Queued /\ OldestFirst(j)
  /\ job' = [job EXCEPT ![j].state = "running", ![j].attempts = @ + 1]
  /\ run' = [run EXCEPT ![w] = [Idle EXCEPT !.phase = "rows", !.job = j]]
  /\ UNCHANGED <<files, result, uploads, crashes>>

(* A raise ends the job or the download; worker_loop fails the job. *)
Fail(a) ==
  /\ run' = [run EXCEPT ![a] = Idle]
  /\ job' = IF run[a].job = None THEN job
            ELSE [job EXCEPT ![run[a].job].state = "error"]

(* _rule_check_worker: FILE_STORE.get of each file of the job in turn. *)
ReadRow(w, f) ==
  /\ run[w].phase = "rows"
  /\ f \in job[run[w].job].files \ DOMAIN run[w].rows
  /\ IF row[f] = None THEN Fail(w)
     ELSE /\ run' = [run EXCEPT ![w].rows = [g \in DOMAIN @ \cup {f} |->
                                               IF g = f THEN row[f].rect ELSE @[g]],
                                ![w].quiet = @ /\ Steady(f)]
          /\ UNCHANGED job
  /\ UNCHANGED <<files, result, uploads, crashes>>

(* build_manifest, of the rows read. *)
Manifest(w) ==
  /\ run[w].phase = "rows"
  /\ DOMAIN run[w].rows = job[run[w].job].files
  /\ run' = [run EXCEPT ![w].phase = "copying"]
  /\ UNCHANGED <<files, job, result, uploads, crashes>>

(* build_bundle_dir, build_bundle: one Match JSON; a missing one raises. *)
Copy(a, f) ==
  /\ run[a].phase = "copying"
  /\ f \in DOMAIN run[a].rows \ DOMAIN run[a].copied
  /\ IF match[f] = None THEN Fail(a)
     ELSE /\ run' = [run EXCEPT ![a].copied = [g \in DOMAIN @ \cup {f} |->
                                                 IF g = f THEN match[f] ELSE @[g]]]
          /\ UNCHANGED job
  /\ UNCHANGED <<files, result, uploads, crashes>>

Hand(a) ==
  /\ run[a].phase = "copying"
  /\ DOMAIN run[a].copied = DOMAIN run[a].rows
  /\ run' = [run EXCEPT ![a].phase = "handed"]
  /\ UNCHANGED <<files, job, result, uploads, crashes>>

(* check_rules: the external function or the envelope check may raise. *)
CheckRules(w) ==
  /\ run[w].phase = "handed"
  /\ \/ Fail(w)
     \/ run' = [run EXCEPT ![w].phase = "checked"] /\ UNCHANGED job
  /\ UNCHANGED <<files, result, uploads, crashes>>

(* put_json of the result, the bundle's directory being gone. *)
PutResult(w) ==
  /\ run[w].phase = "checked"
  /\ result' = run[w].job
  /\ run' = [run EXCEPT ![w].phase = "put"]
  /\ UNCHANGED <<files, job, uploads, crashes>>

Finish(w) ==
  /\ run[w].phase = "put"
  /\ job' = [job EXCEPT ![run[w].job].state = "done"]
  /\ run' = [run EXCEPT ![w] = Idle]
  /\ UNCHANGED <<files, result, uploads, crashes>>

(* The worker dies; its job stays running. *)
Crash(w) ==
  /\ crashes < MaxCrashes /\ run[w].phase # "idle"
  /\ crashes' = crashes + 1
  /\ run' = [run EXCEPT ![w] = Idle]
  /\ UNCHANGED <<files, job, result, uploads>>

(* requeue_stale, stale_exhausted. *)
Recover(j) ==
  /\ job[j].state = "running" /\ \A w \in Worker : run[w].job # j
  /\ job' = [job EXCEPT ![j].state = IF job[j].attempts < MAX_ATTEMPTS THEN "queued" ELSE "error"]
  /\ UNCHANGED <<files, run, result, uploads, crashes>>

Edit(r) ==
  \/ \E f \in File : RequestRedraw(r, f) \/ RequestUnbind(r, f)
  \/ UpdateRegions(r) \/ DropMatch(r) \/ Unmark(r) \/ Unbind(r) \/ EditDies(r)

Save(s) ==
  \/ \E f \in File : StartSave(s, f)
  \/ PutMatch(s) \/ MarkSaved(s) \/ SaveDies(s)

Check(w) ==
  \/ \E j \in Jobs : Claim(w, j)
  \/ \E f \in File : ReadRow(w, f)
  \/ Manifest(w) \/ CheckRules(w) \/ PutResult(w) \/ Finish(w) \/ Crash(w)

Next ==
  \/ \E r \in Replica : Edit(r)
  \/ \E f \in File : Bind(f)
  \/ \E s \in Saver : Save(s)
  \/ \E j \in Jobs : Post(j) \/ Recover(j)
  \/ Upload
  \/ \E d \in Caller : StartDownload(d) \/ EndDownload(d)
  \/ \E w \in Worker : Check(w)
  \/ \E a \in Actor : Hand(a) \/ \E f \in File : Copy(a, f)

Spec == Init /\ [][Next]_vars

-----------------------------------------------------------------------------
(* drc-manifest.schema.json: the manifest's views are the regions drawn,   *)
(* the ones by whose prefixes the bundle's Match JSON is split.  Rows are  *)
(* read first and blobs copied one by one afterwards, so an edit that      *)
(* writes in between may tear a bundle; and an edit that overlaps a         *)
(* save-match may leave the match of the old rectangles in the store,      *)
(* marked saved.  Nothing else does: whatever the other saves, edits,      *)
(* checks and crashes do, any other bundle has the matches of its rows.     *)
BundleCoherent ==
  \A a \in Actor : run[a].phase = "handed" /\ run[a].quiet => run[a].copied = run[a].rows

(* A job's bundle holds exactly the files that were bound, and saved, when *)
(* it was submitted: a file that left since fails the job.                 *)
WholeBundle ==
  \A w \in Worker : run[w].phase \in {"handed", "checked", "put"}
                    => DOMAIN run[w].copied = job[run[w].job].files

BundleIsSound == BundleCoherent /\ WholeBundle
=============================================================================
