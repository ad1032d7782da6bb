-------------------------- MODULE TemplateLibrary --------------------------
(***************************************************************************)
(* One version's template library (app/library.py) and the pre-match       *)
(* snapshot of one of its files (app/jobs.py, app/main.py): commits with   *)
(* de-duplication, moves, deletions, match strategies, the revision that   *)
(* stamps a snapshot, the two jobs that write it and the viewer that       *)
(* trusts it.                                                              *)
(*                                                                         *)
(* A shape stands for a canonical signature; a scan finds the templates    *)
(* whose shape the drawing has.  A handler keeps what it loaded of the     *)
(* library and runs to its end at its replica; jobs run elsewhere.  Every  *)
(* transaction, read and blob operation of two processes may interleave.   *)
(***************************************************************************)
EXTENDS Integers, FiniteSets

CONSTANTS
  Class,
  Custom,        \* the classes without a row at first
  Large,         \* CLASS_DEFAULT_MATCH_CONFIG: signature by default
  Constrained,   \* CLASS_VIEW_CONSTRAINTS: found only inside a view rectangle
  Shape,
  Drawing,       \* the contents a drawing may have: sets of shapes
  Replica,
  MaxTemplates,  \* bound: templates ever inserted
  MaxCalls,      \* bound: requests
  MaxJobs,       \* bound: jobs
  None

ConstantsAssumption ==
  /\ Custom \subseteq Class /\ Large \subseteq Class /\ Constrained \subseteq Class
  /\ Large \cap Custom = {}
  /\ Drawing \subseteq SUBSET Shape
  /\ {MaxTemplates, MaxCalls, MaxJobs} \subseteq Nat
  /\ None \notin Class \cup Shape

VARIABLES
  rev,        \* libraries.revision
  strategy,   \* strategy[c]: the classes row, "none" without one
  template,   \* template[i]: the templates row
  used,       \* template ids given out
  drawing,    \* the parsed blob
  sides,      \* whether the view rectangles are drawn
  ready,      \* the binding is past 'preprocessing'
  snap,       \* the pre-match blob
  call,       \* call[r]: the handler that replica r is running
  job,        \* job[j]: a job with what it has read
  jobs,       \* jobs submitted
  page,       \* the viewer as it loads the overlay
  calls

lib == <<rev, strategy, template, used>>
file == <<drawing, sides, ready>>
vars == <<lib, file, snap, call, job, jobs, page, calls>>

Id == 1..MaxTemplates
Job == 1..MaxJobs

NoTemplate == [class |-> None, shape |-> None]
NoCall == [step |-> "idle", class |-> None, shape |-> None, id |-> 0,
           strategy |-> "none", known |-> {}]
NoJob == [kind |-> "none", step |-> "none", drawing |-> {}, sides |-> FALSE, rev |-> 0,
          strategy |-> [c \in Class |-> "none"], content |-> {}]
NoSnap == [rev |-> None, drawing |-> {}, content |-> {}, hits |-> {}]
NoPage == [step |-> "closed", snap |-> NoSnap]

(* What the library says: which shape, of which class, matched how.        *)
Templates == {template[i] : i \in Id} \ {NoTemplate}
Matched(ts, s) == {<<t.class, t.shape, s[t.class]>> : t \in {u \in ts : s[u.class] # "none"}}
Content == Matched(Templates, strategy)

(* What the upkeep of the schema makes of a strategy, and of such a content. *)
Upkeep(c, s) == IF c \in Large /\ s = "chamfer" THEN "signature" ELSE s
Upkept(content) == {<<h[1], h[2], Upkeep(h[1], h[3])>> : h \in content}

(* What a scan of content finds in a drawing; classes whose view rectangles
   are all missing are skipped if skip says so.                            *)
Scan(content, d, skip) == {h \in content : h[2] \in d /\ h[1] \notin skip}
Skipped(drawn) == IF drawn THEN {} ELSE Constrained

(* Every variable keeps its type. *)
TypeOK ==
  /\ rev \in Nat
  /\ strategy \in [Class -> {"none", "chamfer", "signature"}]
  /\ template \in [Id -> [class : Class \cup {None}, shape : Shape \cup {None}]]
  /\ used \in 0..MaxTemplates
  /\ drawing \in SUBSET Shape /\ sides \in BOOLEAN /\ ready \in BOOLEAN
  /\ snap = NoSnap \/ snap.rev \in Nat
  /\ \A j \in Job : job[j].kind \in {"none", "preprocess", "save_match", "done"}
  /\ page.step \in {"closed", "answer", "fresh", "live"}

(* A ready file, preprocessed with an empty library.                       *)
Init ==
  /\ rev = 0
  /\ strategy = [c \in Class |-> IF c \in Custom THEN "none"
                                 ELSE IF c \in Large THEN "signature" ELSE "chamfer"]
  /\ template = [i \in Id |-> NoTemplate]
  /\ used = 0
  /\ drawing \in Drawing
  /\ sides = FALSE /\ ready = TRUE
  /\ snap = [rev |-> 0, drawing |-> drawing, content |-> {}, hits |-> {}]
  /\ call = [r \in Replica |-> NoCall]
  /\ job = [j \in Job |-> NoJob]
  /\ jobs = 0
  /\ page = NoPage
  /\ calls = 0

-----------------------------------------------------------------------------
(* Requests.                                                               *)

At(r, step) == call[r].step = step
Return(r) == call' = [call EXCEPT ![r] = NoCall]
Goto(r, step) == call' = [call EXCEPT ![r].step = step]

Admit == calls < MaxCalls /\ calls' = calls + 1
Begin(r, c) == At(r, "idle") /\ Admit /\ call' = [call EXCEPT ![r] = c]

HasRow(c) == strategy[c] # "none"

(* A commit loads the library, and adds the class when it has no row.      *)
RequestCommit(r, c, s) ==
  /\ ready
  /\ s \in drawing
  /\ Begin(r, [NoCall EXCEPT !.step = IF HasRow(c) THEN "commit" ELSE "commit_class",
                             !.class = c, !.shape = s, !.known = Templates])
  /\ UNCHANGED <<lib, file, snap, job, jobs, page>>

(* upsert_class: INSERT OR IGNORE, and no new revision.                    *)
UpsertClass(c) == strategy' = [strategy EXCEPT ![c] = IF @ = "none" THEN "chamfer" ELSE @]

AddClassForCommit(r) ==
  /\ At(r, "commit_class")
  /\ UpsertClass(call[r].class)
  /\ Goto(r, "commit")
  /\ UNCHANGED <<rev, template, used, file, snap, job, jobs, page, calls>>

(* add_template_for_file: the signature is looked for in what was loaded;
   insert_template bumps the revision in its transaction.                  *)
InsertTemplate(r) ==
  /\ At(r, "commit")
  /\ LET new == [class |-> call[r].class, shape |-> call[r].shape] IN
       \/ new \in call[r].known /\ UNCHANGED <<template, used, rev>>
       \/ /\ new \notin call[r].known
          /\ used < MaxTemplates
          /\ template' = [template EXCEPT ![used + 1] = new]
          /\ used' = used + 1
          /\ rev' = rev + 1
  /\ Return(r)
  /\ UNCHANGED <<strategy, file, snap, job, jobs, page, calls>>

(* Deleting, moving: the owner is found among all libraries, then the row
   is changed if it is still there.                                        *)
RequestDelete(r, i) ==
  /\ template[i] # NoTemplate
  /\ Begin(r, [NoCall EXCEPT !.step = "delete", !.id = i])
  /\ UNCHANGED <<lib, file, snap, job, jobs, page>>

DeleteTemplate(r) ==
  /\ At(r, "delete")
  /\ IF template[call[r].id] = NoTemplate
     THEN UNCHANGED <<template, rev>>
     ELSE template' = [template EXCEPT ![call[r].id] = NoTemplate] /\ rev' = rev + 1
  /\ Return(r)
  /\ UNCHANGED <<strategy, used, file, snap, job, jobs, page, calls>>

RequestMove(r, i, c) ==
  /\ template[i] # NoTemplate
  /\ Begin(r, [NoCall EXCEPT !.step = IF HasRow(c) THEN "move" ELSE "move_class",
                             !.id = i, !.class = c])
  /\ UNCHANGED <<lib, file, snap, job, jobs, page>>

AddClassForMove(r) ==
  /\ At(r, "move_class")
  /\ UpsertClass(call[r].class)
  /\ Goto(r, "move")
  /\ UNCHANGED <<rev, template, used, file, snap, job, jobs, page, calls>>

(* Nobody asks whether the other class has the shape already.              *)
MoveTemplate(r) ==
  /\ At(r, "move")
  /\ IF template[call[r].id] = NoTemplate
     THEN UNCHANGED <<template, rev>>
     ELSE template' = [template EXCEPT ![call[r].id].class = call[r].class] /\ rev' = rev + 1
  /\ Return(r)
  /\ UNCHANGED <<strategy, used, file, snap, job, jobs, page, calls>>

(* The class must be known; its row is updated, with a new revision.       *)
RequestStrategy(r, c, s) ==
  /\ HasRow(c)
  /\ Begin(r, [NoCall EXCEPT !.step = "strategy", !.class = c, !.strategy = s])
  /\ UNCHANGED <<lib, file, snap, job, jobs, page>>

SetStrategy(r) ==
  /\ At(r, "strategy")
  /\ strategy' = [strategy EXCEPT ![call[r].class] = call[r].strategy]
  /\ rev' = rev + 1
  /\ Return(r)
  /\ UNCHANGED <<template, used, file, snap, job, jobs, page, calls>>

(* patch_side_regions: the rectangles; neither revision nor snapshot.      *)
DrawSides(drawn) ==
  /\ Admit
  /\ sides' = drawn
  /\ UNCHANGED <<lib, drawing, ready, snap, call, job, jobs, page>>

-----------------------------------------------------------------------------
(* Jobs.                                                                   *)

Step(j, step) == job' = [job EXCEPT ![j].step = step]

(* The pipeline has one preprocess of a file at a time; a save-match needs a
   ready file when it is requested and is not waited for.                  *)
SubmitPreprocess(d) ==
  /\ jobs < MaxJobs
  /\ \A j \in Job : job[j].kind # "preprocess"
  /\ jobs' = jobs + 1
  /\ ready' = FALSE
  /\ job' = [job EXCEPT ![jobs + 1] =
               [NoJob EXCEPT !.kind = "preprocess", !.step = "parse", !.drawing = d]]
  /\ UNCHANGED <<lib, drawing, sides, snap, call, page, calls>>

SubmitSaveMatch ==
  /\ jobs < MaxJobs
  /\ ready
  /\ jobs' = jobs + 1
  /\ job' = [job EXCEPT ![jobs + 1] = [NoJob EXCEPT !.kind = "save_match", !.step = "binding"]]
  /\ UNCHANGED <<lib, file, snap, call, page, calls>>

PutParsed(j) ==
  /\ job[j].step = "parse"
  /\ drawing' = job[j].drawing
  /\ Step(j, "store")
  /\ UNCHANGED <<lib, sides, ready, snap, call, jobs, page, calls>>

ReadBinding(j) ==
  /\ job[j].step = "binding"
  /\ job' = [job EXCEPT ![j].step = "store", ![j].sides = sides]
  /\ UNCHANGED <<lib, file, snap, call, jobs, page, calls>>

(* Store(DB_PATH) runs the upkeep of the schema every time: a large class
   that is matched by chamfer becomes signature again, with no new revision. *)
OpenStore(j) ==
  /\ job[j].step = "store"
  /\ strategy' = [c \in Class |-> Upkeep(c, strategy[c])]
  /\ Step(j, "revision")
  /\ UNCHANGED <<rev, template, used, file, snap, call, jobs, page, calls>>

(* Captured before the load ...                                            *)
ReadRevision(j) ==
  /\ job[j].step = "revision"
  /\ job' = [job EXCEPT ![j].step = "classes", ![j].rev = rev]
  /\ UNCHANGED <<lib, file, snap, call, jobs, page, calls>>

(* ... which is two statements.                                            *)
ReadClasses(j) ==
  /\ job[j].step = "classes"
  /\ job' = [job EXCEPT ![j].step = "templates", ![j].strategy = strategy]
  /\ UNCHANGED <<lib, file, snap, call, jobs, page, calls>>

ReadTemplates(j) ==
  /\ job[j].step = "templates"
  /\ job' = [job EXCEPT ![j].step = IF job[j].kind = "save_match" THEN "drawing" ELSE "put",
                        ![j].content = Matched(Templates, job[j].strategy)]
  /\ UNCHANGED <<lib, file, snap, call, jobs, page, calls>>

(* A save-match reads the parsed blob last.                                *)
ReadDrawing(j) ==
  /\ job[j].step = "drawing"
  /\ job' = [job EXCEPT ![j].step = "put", ![j].drawing = drawing]
  /\ UNCHANGED <<lib, file, snap, call, jobs, page, calls>>

(* A preprocess scans every class; a save-match skips a class whose views
   the rectangles it has read do not include.                              *)
JobScan(j) ==
  Scan(job[j].content, job[j].drawing,
       IF job[j].kind = "save_match" THEN Skipped(job[j].sides) ELSE {})

(* Mutant: the stamp is read when the snapshot is written.                 *)
PutSnapshotStampedLate(j) ==
  /\ job[j].step = "put"
  /\ snap' = [rev |-> rev, drawing |-> job[j].drawing, content |-> job[j].content,
              hits |-> JobScan(j)]
  /\ Step(j, "apply")
  /\ UNCHANGED <<lib, file, call, jobs, page, calls>>

PutSnapshot(j) ==
  /\ job[j].step = "put"
  /\ snap' = [rev |-> job[j].rev, drawing |-> job[j].drawing, content |-> job[j].content,
              hits |-> JobScan(j)]
  /\ Step(j, "apply")
  /\ UNCHANGED <<lib, file, call, jobs, page, calls>>

ApplySuccess(j) ==
  /\ job[j].step = "apply"
  /\ ready' = (ready \/ job[j].kind = "preprocess")
  /\ job' = [job EXCEPT ![j] = [NoJob EXCEPT !.kind = "done"]]
  /\ UNCHANGED <<lib, drawing, sides, snap, call, jobs, page, calls>>

-----------------------------------------------------------------------------
(* The viewer: GET prematch reads the snapshot, then the revision.         *)

RequestPrematch ==
  /\ page.step # "answer"
  /\ ready
  /\ page' = [step |-> "answer", snap |-> snap]
  /\ UNCHANGED <<lib, file, snap, call, job, jobs, calls>>

(* A stale, missing or empty snapshot makes the page scan itself.          *)
AnswerPrematch ==
  /\ page.step = "answer"
  /\ page' = [page EXCEPT !.step = IF page.snap.rev = rev /\ page.snap.hits # {}
                                   THEN "fresh" ELSE "live"]
  /\ UNCHANGED <<lib, file, snap, call, job, jobs, calls>>

-----------------------------------------------------------------------------

Handler(r) ==
  \/ \E c \in Class, s \in Shape : RequestCommit(r, c, s)
  \/ AddClassForCommit(r) \/ InsertTemplate(r)
  \/ \E i \in Id : RequestDelete(r, i) \/ (\E c \in Class : RequestMove(r, i, c))
  \/ DeleteTemplate(r) \/ AddClassForMove(r) \/ MoveTemplate(r)
  \/ \E c \in Class, s \in {"chamfer", "signature"} : RequestStrategy(r, c, s)
  \/ SetStrategy(r)

Worker(j) ==
  \/ PutParsed(j) \/ ReadBinding(j) \/ OpenStore(j) \/ ReadRevision(j) \/ ReadClasses(j)
  \/ ReadTemplates(j) \/ ReadDrawing(j) \/ PutSnapshot(j) \/ ApplySuccess(j)

Next ==
  \/ \E r \in Replica : Handler(r)
  \/ \E d \in Drawing : SubmitPreprocess(d)
  \/ SubmitSaveMatch
  \/ \E j \in Job : Worker(j)
  \/ \E d \in BOOLEAN : DrawSides(d)
  \/ RequestPrematch \/ AnswerPrematch

Spec == Init /\ [][Next]_vars

-----------------------------------------------------------------------------
(* Properties.                                                             *)

Answered(step) == page.step = "answer" /\ page'.step = step

(* "never a falsely-fresh snapshot" (jobs.py): when the page is told that a
   snapshot is fresh, it was computed from the templates, classes and
   strategies the library has at that moment, whatever is committed, moved,
   deleted or re-configured between the reads of a job and the two reads of
   the endpoint.  One change is missed, since it bumps no revision: the
   upkeep may have made the large classes signature since.                 *)
FreshMeansCurrent ==
  [][Answered("fresh") => Content' \in {page.snap.content, Upkept(page.snap.content)}]_vars

=============================================================================
