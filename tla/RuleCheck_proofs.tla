-------------------------- MODULE RuleCheck_proofs --------------------------
(***************************************************************************)
(* Proofs about RuleCheck, for every number of files, replicas, workers,   *)
(* save-matches, rule checks, edits and crashes.  Inv says what the stored *)
(* matches and the running save-matches of a file that is not in doubt     *)
(* have to do with its row, and what a worker or a download has read and   *)
(* copied of the rows and the matches.                                     *)
(***************************************************************************)
EXTENDS RuleCheck, TLAPS

(* Some files, each with the number of its rectangles.                     *)
Readings == UNION {[S -> Rects] : S \in SUBSET File}

Phases == {"idle", "rows", "copying", "handed", "checked", "put"}
Built == {"handed", "checked", "put"}

Run == [phase : Phases, job : Jobs \cup {None}, rows : Readings,
        copied : Readings, quiet : BOOLEAN]
Job == [state : {"unborn", "queued", "running", "done", "error"},
        files : SUBSET File, attempts : 0..MAX_ATTEMPTS]
EditRecord == [step : {"idle", "update", "unbind", "drop", "unmark", "gone"},
               file : File \cup {None}, rect : Rects]
SaveRecord == [step : {"idle", "scan", "mark"}, file : File \cup {None}, rect : Rects]

FilesTyped ==
  /\ row \in [File -> Binding \cup {None}]
  /\ match \in [File -> Rects \cup {None}]
  /\ edit \in [Replica -> EditRecord]
  /\ \A r \in Replica : edit[r].step # "idle" => edit[r].file \in File
  /\ save \in [Saver -> SaveRecord]
  /\ \A s \in Saver : save[s].step # "idle" => save[s].file \in File
  /\ doubt \in [File -> BOOLEAN]
  /\ edits \in Nat

Typed ==
  /\ FilesTyped
  /\ job \in [Jobs -> Job]
  /\ run \in [Actor -> Run]
  /\ result \in Jobs \cup {Uploaded, None}
  /\ crashes \in Nat

(* Of the bindings b, the row of f is drawn with the rectangles n.         *)
Drawn(b, f, n) == b[f] # None /\ b[f].rect = n

(* Of a file that is not in doubt, a save-match that runs has the          *)
(* rectangles of the row, and so has the stored match once the edits that  *)
(* are half done have dropped it.                                          *)
FileOK(f) == ~doubt[f] =>
  /\ \A s \in Saver : save[s].file = f => Drawn(row, f, save[s].rect)
  /\ Underway(f) \/ match[f] = None \/ Drawn(row, f, match[f])

FilesOK == \A f \in File : FileOK(f)

(* The rectangles of the files whose matches can be relied on.             *)
Now == [f \in File |-> IF row[f] # None /\ Steady(f) THEN row[f].rect ELSE None]

(* What an undisturbed bundle r has read is what the rows say, b, while it *)
(* is read and copied, and what it has copied is what it has read.         *)
BundleOK(r, b) ==
  /\ DOMAIN r.copied \subseteq DOMAIN r.rows
  /\ r.quiet => \A f \in DOMAIN r.copied : r.copied[f] = r.rows[f]
  /\ r.quiet /\ r.phase \in {"rows", "copying"}
       => \A f \in DOMAIN r.rows : b[f] = r.rows[f]
  /\ r.phase \in Built => DOMAIN r.copied = DOMAIN r.rows
  /\ r.phase = "idle" => r.job = None /\ r.copied = <<>>

(* A worker that is busy has a job that was submitted, and, from the
   manifest on, the rows of the job's files; a download has no job.        *)
OwnOK(a, r, q) ==
  /\ a \in Caller => r.job = None /\ r.phase \notin {"rows", "checked", "put"}
  /\ a \in Worker /\ r.phase # "idle" =>
       /\ r.job \in Jobs /\ q[r.job].state # "unborn"
       /\ r.phase # "rows" => DOMAIN r.rows = q[r.job].files

(* A job that may still be claimed has an attempt left.                    *)
AttemptsOK == \A j \in Jobs :
  job[j].state \in {"unborn", "queued"} => job[j].attempts < MAX_ATTEMPTS

Inv == /\ Typed /\ FilesOK /\ AttemptsOK
       /\ \A a \in Actor : BundleOK(run[a], Now) /\ OwnOK(a, run[a], job)

-----------------------------------------------------------------------------
(* Readings.                                                               *)

LEMMA ReadingShape ==
  ASSUME NEW r \in Readings
  PROVE  /\ DOMAIN r \in SUBSET File /\ r \in [DOMAIN r -> Rects]
         /\ \A f \in DOMAIN r : f \in File /\ r[f] \in Rects
<1>1. PICK S \in SUBSET File : r \in [S -> Rects]
  BY DEF Readings
<1> QED
  BY <1>1

LEMMA NoReading == <<>> \in Readings /\ DOMAIN <<>> = {}
<1>1. <<>> \in [{} -> Rects] /\ DOMAIN <<>> = {}
  OBVIOUS
<1>2. [{} -> Rects] \in {[S -> Rects] : S \in SUBSET File}
  OBVIOUS
<1> QED
  BY <1>1, <1>2 DEF Readings

(* The reading r and one file more.                                        *)
With(r, f, n) == [g \in DOMAIN r \cup {f} |-> IF g = f THEN n ELSE r[g]]

LEMMA WithShape ==
  ASSUME NEW r \in Readings, NEW f \in File, NEW n \in Rects
  PROVE  /\ With(r, f, n) \in Readings /\ DOMAIN With(r, f, n) = DOMAIN r \cup {f}
         /\ With(r, f, n)[f] = n
         /\ \A g \in DOMAIN r : g # f => With(r, f, n)[g] = r[g]
<1> DEFINE S == DOMAIN r \cup {f}
           w == With(r, f, n)
<1>1. S \in SUBSET File
  BY ReadingShape
<1>2. w \in [S -> Rects]
  BY ReadingShape DEF With
<1>3. [S -> Rects] \in {[T -> Rects] : T \in SUBSET File}
  BY <1>1
<1>4. w \in Readings
  BY <1>2, <1>3 DEF Readings
<1> QED
  BY <1>4 DEF With

LEMMA SameReading ==
  ASSUME NEW r \in Readings, NEW s \in Readings, DOMAIN r = DOMAIN s,
         \A f \in DOMAIN r : r[f] = s[f]
  PROVE  r = s
<1>1. r \in [DOMAIN r -> Rects] /\ s \in [DOMAIN r -> Rects]
  BY ReadingShape
<1> QED
  BY <1>1

LEMMA IdleShape ==
  /\ Idle \in Run /\ Idle.phase = "idle" /\ Idle.job = None /\ Idle.quiet = TRUE
  /\ Idle.rows = <<>> /\ Idle.copied = <<>>
  /\ \A b : BundleOK(Idle, b)
  /\ \A a, q : OwnOK(a, Idle, q)
<1>1. /\ Idle \in Run /\ Idle.phase = "idle" /\ Idle.job = None /\ Idle.quiet = TRUE
      /\ Idle.rows = <<>> /\ Idle.copied = <<>>
  BY NoReading DEF Idle, Run, Phases
<1>2. \A b : BundleOK(Idle, b)
  BY <1>1, NoReading DEF BundleOK, Built
<1>3. \A a, q : OwnOK(a, Idle, q)
  BY <1>1 DEF OwnOK
<1> QED
  BY <1>1, <1>2, <1>3

-----------------------------------------------------------------------------
(* Steps that move one bundle, or none.                                    *)

(* Jobs that exist stay, with their files.                                 *)
JobsKept ==
  /\ job' \in [Jobs -> Job] /\ AttemptsOK'
  /\ \A j \in Jobs : job[j].state # "unborn" =>
       job'[j].state # "unborn" /\ job'[j].files = job[j].files

LEMMA SameJobs == ASSUME Inv, UNCHANGED job PROVE JobsKept
  BY DEF Inv, Typed, JobsKept, AttemptsOK

LEMMA OwnKept ==
  ASSUME JobsKept, NEW a, NEW r, OwnOK(a, r, job)
  PROVE  OwnOK(a, r, job')
  BY DEF OwnOK, JobsKept

LEMMA FilesRest ==
  ASSUME Inv, UNCHANGED files
  PROVE  FilesTyped' /\ FilesOK' /\ Now' = Now
<1>1. /\ row' = row /\ match' = match /\ edit' = edit /\ save' = save /\ doubt' = doubt
      /\ edits' = edits
  BY DEF files
<1>2. FilesTyped'
  BY <1>1 DEF Inv, Typed, FilesTyped, Binding, EditRecord, SaveRecord, Rects
<1>3. FilesOK'
  BY <1>1 DEF Inv, FilesOK, FileOK, Underway, HalfDone, Drawn
<1>4. Now' = Now
  BY <1>1 DEF Now, Steady, Underway, HalfDone
<1> QED
  BY <1>2, <1>3, <1>4

(* The bundle of a becomes r; rows and matches stay.                       *)
LEMMA OneMoved ==
  ASSUME Inv, JobsKept, UNCHANGED files, crashes' \in Nat,
         result' \in Jobs \cup {Uploaded, None},
         NEW a \in Actor, NEW r \in Run, run' = [run EXCEPT ![a] = r],
         BundleOK(r, Now), OwnOK(a, r, job')
  PROVE  Inv'
<1>1. run' \in [Actor -> Run] /\ run'[a] = r
      /\ \A c \in Actor : c # a => run'[c] = run[c]
  BY DEF Inv, Typed
<1>2. Typed'
  BY <1>1, FilesRest DEF Inv, Typed, JobsKept
<1>3. FilesOK' /\ AttemptsOK' /\ Now' = Now
  BY FilesRest DEF Inv, JobsKept
<1>4. ASSUME NEW c \in Actor
      PROVE  BundleOK(run'[c], Now') /\ OwnOK(c, run'[c], job')
  <2>1. CASE c = a
    BY <1>1, <1>3, <2>1
  <2>2. CASE c # a
    <3>1. BundleOK(run[c], Now) /\ OwnOK(c, run[c], job)
      BY DEF Inv
    <3> QED
      BY <1>1, <1>3, <2>2, <3>1, OwnKept
  <2> QED
    BY <2>1, <2>2
<1> QED
  BY <1>2, <1>3, <1>4 DEF Inv

LEMMA NoneMoved ==
  ASSUME Inv, JobsKept, UNCHANGED <<files, run>>, crashes' \in Nat,
         result' \in Jobs \cup {Uploaded, None}
  PROVE  Inv'
<1>1. Typed'
  BY FilesRest DEF Inv, Typed, JobsKept
<1>2. FilesOK' /\ AttemptsOK' /\ Now' = Now
  BY FilesRest DEF Inv, JobsKept
<1>3. ASSUME NEW c \in Actor
      PROVE  BundleOK(run'[c], Now') /\ OwnOK(c, run'[c], job')
  BY <1>2, OwnKept DEF Inv
<1> QED
  BY <1>1, <1>2, <1>3 DEF Inv

-----------------------------------------------------------------------------
(* The editor's changes and the save-matches.                              *)

LEMMA NoRecords ==
  ASSUME RuleCheckAssumption
  PROVE  /\ NoEdit \in EditRecord /\ NoEdit.step = "idle" /\ NoEdit.file = None
         /\ NoSave \in SaveRecord /\ NoSave.step = "idle" /\ NoSave.file = None
         /\ None \notin File
<1>1. 0 \in Rects /\ None \notin File
  BY DEF Rects, RuleCheckAssumption
<1> QED
  BY <1>1 DEF NoEdit, NoSave, EditRecord, SaveRecord

(* Replica r goes on to e.                                                 *)
LEMMA EditMoved ==
  ASSUME Inv, NEW r \in Replica, NEW e \in EditRecord, edit' = [edit EXCEPT ![r] = e],
         e.step # "idle" => e.file \in File
  PROVE  /\ edit' \in [Replica -> EditRecord]
         /\ \A q \in Replica : edit'[q].step # "idle" => edit'[q].file \in File
         /\ \A g \in File : g # edit[r].file /\ g # e.file => (Underway(g)' <=> Underway(g))
         /\ e.step \in {"drop", "gone"} => \A g \in File : g = e.file => Underway(g)'
         /\ ~HalfDone(r) /\ e.step \notin {"drop", "gone"}
              => \A g \in File : Underway(g)' <=> Underway(g)
<1>1. /\ edit \in [Replica -> EditRecord]
      /\ \A q \in Replica : edit[q].step # "idle" => edit[q].file \in File
  BY DEF Inv, Typed, FilesTyped
<1>2. edit'[r] = e /\ \A q \in Replica : q # r => edit'[q] = edit[q]
  BY <1>1
<1>3. edit' \in [Replica -> EditRecord]
  BY <1>1
<1> QED
  BY <1>1, <1>2, <1>3 DEF Underway, HalfDone

(* Files change and no bundle is disturbed: what they rely on stays.       *)
LEMMA FilesMoved ==
  ASSUME RuleCheckAssumption, Inv, UNCHANGED <<job, run, result>>, crashes' \in Nat,
         FilesTyped', FilesOK',
         \A f \in File : row[f] # None /\ Steady(f) =>
            row'[f] # None /\ row'[f].rect = row[f].rect /\ Steady(f)'
  PROVE  Inv'
<1>1. Typed' /\ AttemptsOK'
  BY DEF Inv, Typed, AttemptsOK
<1>2. \A f \in File : Now[f] # None => Now'[f] = Now[f]
  BY DEF Now
<1>3. ASSUME NEW a \in Actor
      PROVE  BundleOK(run'[a], Now') /\ OwnOK(a, run'[a], job')
  <2>1. BundleOK(run[a], Now) /\ OwnOK(a, run[a], job) /\ run[a] \in Run
    BY DEF Inv, Typed
  <2>2. \A f \in DOMAIN run[a].rows : f \in File /\ run[a].rows[f] # None
    BY <2>1, ReadingShape DEF Run, RuleCheckAssumption
  <2>3. BundleOK(run[a], Now')
    BY <1>2, <2>1, <2>2 DEF BundleOK
  <2> QED
    BY <2>1, <2>3
<1> QED
  BY <1>1, <1>3 DEF Inv

(* An edit disturbs every bundle that is being read or copied.             *)
LEMMA Edited ==
  ASSUME Inv, UNCHANGED <<job, result, crashes>>, run' = Disturbed, FilesTyped', FilesOK'
  PROVE  Inv'
<1>2. ASSUME NEW a \in Actor
      PROVE  /\ run'[a] \in Run
             /\ BundleOK(run'[a], Now') /\ OwnOK(a, run'[a], job')
  <2> DEFINE r == run[a]
             calm == r.quiet /\ r.phase \notin {"rows", "copying"}
             s == [r EXCEPT !.quiet = calm]
  <2>1. run'[a] = s
    BY DEF Disturbed
  <2>2. r \in Run /\ BundleOK(r, Now) /\ OwnOK(a, r, job) /\ calm \in BOOLEAN
    BY DEF Inv, Typed
  <2>4. calm => r.quiet /\ r.phase \notin {"rows", "copying"}
    OBVIOUS
  <2> HIDE DEF r, calm
  <2>5. /\ s \in Run /\ s.phase = r.phase /\ s.job = r.job /\ s.rows = r.rows
        /\ s.copied = r.copied /\ s.quiet = calm
    BY <2>2 DEF Run
  <2> HIDE DEF s
  <2>7. BundleOK(s, Now')
    BY <2>2, <2>4, <2>5 DEF BundleOK
  <2>8. OwnOK(a, s, job)
    BY <2>2, <2>5 DEF OwnOK
  <2> QED
    BY <2>1, <2>5, <2>7, <2>8
<1>3. run' \in [Actor -> Run]
  BY <1>2 DEF Disturbed
<1>4. Typed' /\ AttemptsOK'
  BY <1>3 DEF Inv, Typed, AttemptsOK
<1> QED
  BY <1>2, <1>4 DEF Inv

(* Marking a row leaves its rectangles.                                    *)
LEMMA MarkKeeps ==
  ASSUME RuleCheckAssumption, Inv, NEW f \in File, NEW b \in BOOLEAN, Mark(f, b)
  PROVE  /\ row' \in [File -> Binding \cup {None}]
         /\ \A g \in File : (row'[g] = None <=> row[g] = None)
                            /\ (row[g] # None => row'[g].rect = row[g].rect)
<1>1. row \in [File -> Binding \cup {None}]
  BY DEF Inv, Typed, FilesTyped
<1>2. CASE row[f] = None
  BY <1>1, <1>2 DEF Mark
<1>3. CASE row[f] # None
  <2> DEFINE c == [row[f] EXCEPT !.saved = b]
  <2>1. row' = [row EXCEPT ![f] = c] /\ row[f] \in Binding
    BY <1>1, <1>3 DEF Mark
  <2>2. c \in Binding /\ c.rect = row[f].rect
    BY <2>1 DEF Binding
  <2> HIDE DEF c
  <2>3. c # None
    BY <2>2 DEF RuleCheckAssumption
  <2> QED
    BY <1>1, <1>3, <2>1, <2>2, <2>3
<1> QED
  BY <1>2, <1>3

LEMMA RequestEditInv ==
  ASSUME RuleCheckAssumption, Inv, NEW r \in Replica, NEW f \in File,
         RequestRedraw(r, f) \/ RequestUnbind(r, f)
  PROVE  Inv'
<1>1. PICK e \in EditRecord : edit' = [edit EXCEPT ![r] = e] /\ e.step \in {"update", "unbind"}
                             /\ e.file = f
  <2>1. CASE RequestRedraw(r, f)
    <3> DEFINE e == [step |-> "update", file |-> f, rect |-> edits + 1]
    <3>1. edits + 1 \in Rects
      BY <2>1 DEF RequestRedraw, Began, Rects, RuleCheckAssumption, Inv, Typed, FilesTyped
    <3>2. e \in EditRecord
      BY <3>1 DEF EditRecord
    <3> QED
      BY <2>1, <3>2 DEF RequestRedraw
  <2>2. CASE RequestUnbind(r, f)
    <3> DEFINE e == [step |-> "unbind", file |-> f, rect |-> 0]
    <3>1. e \in EditRecord
      BY DEF EditRecord, Rects, RuleCheckAssumption
    <3> QED
      BY <2>2, <3>1 DEF RequestUnbind
  <2> QED
    BY <2>1, <2>2
<1>2. /\ UNCHANGED <<job, run, result>> /\ crashes' \in Nat /\ row' = row /\ match' = match
      /\ save' = save /\ doubt' = doubt /\ edits' \in Nat /\ ~HalfDone(r)
  BY DEF RequestRedraw, RequestUnbind, Began, HalfDone, Inv, Typed, FilesTyped
<1>3. \A g \in File : Underway(g)' <=> Underway(g)
  BY <1>1, <1>2, EditMoved
<1>4. FilesTyped'
  BY <1>1, <1>2, EditMoved DEF Inv, Typed, FilesTyped
<1>5. FilesOK'
  BY <1>2, <1>3 DEF Inv, FilesOK, FileOK, Drawn
<1>6. \A g \in File : Steady(g) => Steady(g)'
  BY <1>2, <1>3 DEF Steady
<1> QED
  BY <1>2, <1>4, <1>5, <1>6, FilesMoved

LEMMA UpdateRegionsInv ==
  ASSUME RuleCheckAssumption, Inv, NEW r \in Replica, UpdateRegions(r)
  PROVE  Inv'
<1> DEFINE f == edit[r].file
           e == [edit[r] EXCEPT !.step = "drop"]
<1>1. /\ FilesTyped /\ FilesOK /\ f \in File /\ edit[r] \in EditRecord /\ edit[r].rect \in Rects
      /\ edit[r].step = "update"
  BY DEF Inv, Typed, FilesTyped, UpdateRegions, EditRecord
<1>2. /\ edit' = [edit EXCEPT ![r] = e] /\ e \in EditRecord /\ e.step = "drop" /\ e.file = f
  BY <1>1 DEF UpdateRegions, FilesTyped, EditRecord
<1> HIDE DEF e
<1>3. /\ match' = match /\ save' = save /\ edits' = edits /\ UNCHANGED <<job, result, crashes>>
      /\ run' = Disturbed
      /\ doubt' = [doubt EXCEPT ![f] = IF row[f] = None THEN doubt[f] ELSE MeetsSave(f)]
  BY DEF UpdateRegions
<1>4. /\ row' \in [File -> Binding \cup {None}]
      /\ \A g \in File : g # f \/ row[f] = None => row'[g] = row[g]
  <2>1. CASE row[f] = None
    BY <1>1, <2>1 DEF UpdateRegions, FilesTyped
  <2>2. CASE row[f] # None
    <3> DEFINE b == [row[f] EXCEPT !.rect = edit[r].rect]
    <3>1. row' = [row EXCEPT ![f] = b] /\ row[f] \in Binding
      BY <1>1, <2>2 DEF UpdateRegions, FilesTyped
    <3>2. b \in Binding
      BY <1>1, <3>1 DEF Binding
    <3> HIDE DEF b
    <3> QED
      BY <1>1, <2>2, <3>1, <3>2 DEF FilesTyped
  <2> QED
    BY <2>1, <2>2
<1> HIDE DEF f
<1>5. doubt' \in [File -> BOOLEAN]
  BY <1>1, <1>3 DEF FilesTyped, MeetsSave
<1>6. \A g \in File : (g = f => Underway(g)') /\ (g # f => (Underway(g)' <=> Underway(g)))
  BY <1>1, <1>2, EditMoved DEF f
<1>7. FilesTyped'
  BY <1>1, <1>2, <1>3, <1>4, <1>5, EditMoved DEF FilesTyped
<1>8. ASSUME NEW g \in File PROVE FileOK(g)'
  <2>1. FileOK(g)
    BY <1>1 DEF FilesOK
  <2>2. CASE g # f
    <3>1. doubt'[g] = doubt[g] /\ row'[g] = row[g]
      BY <1>1, <1>3, <1>4, <2>2 DEF FilesTyped
    <3> QED
      BY <1>3, <1>6, <2>1, <2>2, <3>1 DEF FileOK, Drawn
  <2>3. CASE g = f /\ row[f] = None
    <3>1. doubt'[g] = doubt[g] /\ row'[g] = row[g]
      BY <1>1, <1>3, <1>4, <2>3 DEF FilesTyped
    <3> QED
      BY <1>3, <1>6, <2>1, <2>3, <3>1 DEF FileOK, Drawn
  <2>4. CASE g = f /\ row[f] # None
    <3>1. ~doubt'[g] => \A s \in Saver : save'[s].file # g
      BY <1>1, <1>3, <2>4 DEF FilesTyped, MeetsSave
    <3> QED
      BY <1>6, <2>4, <3>1 DEF FileOK
  <2> QED
    BY <2>2, <2>3, <2>4
<1>9. FilesOK'
  BY <1>8 DEF FilesOK
<1> QED
  BY <1>3, <1>7, <1>9, Edited

(* An edit that has written its row moves on, without touching the row.    *)
LEMMA DropMatchInv ==
  ASSUME RuleCheckAssumption, Inv, NEW r \in Replica, DropMatch(r)
  PROVE  Inv'
<1> DEFINE f == edit[r].file
           e == IF edit[r].step = "drop" THEN [edit[r] EXCEPT !.step = "unmark"] ELSE NoEdit
<1>1. FilesTyped /\ FilesOK /\ f \in File /\ edit[r] \in EditRecord
  BY DEF Inv, Typed, FilesTyped, DropMatch, HalfDone
<1>2. /\ edit' = [edit EXCEPT ![r] = e] /\ e \in EditRecord
      /\ (e.step = "unmark" /\ e.file = f) \/ (e.step = "idle" /\ e.file = None)
  BY <1>1, NoRecords DEF DropMatch, FilesTyped, EditRecord
<1> HIDE DEF e
<1>3. /\ row' = row /\ save' = save /\ doubt' = doubt /\ edits' = edits
      /\ UNCHANGED <<job, result, crashes>> /\ run' = Disturbed
      /\ match' = [match EXCEPT ![f] = None]
  BY DEF DropMatch
<1> HIDE DEF f
<1>4. \A g \in File : g # f => (Underway(g)' <=> Underway(g))
  BY <1>1, <1>2, EditMoved, NoRecords DEF f
<1>5. match' \in [File -> Rects \cup {None}]
  BY <1>1, <1>3 DEF FilesTyped
<1>6. FilesTyped'
  BY <1>1, <1>2, <1>3, <1>5, EditMoved DEF FilesTyped
<1>7. ASSUME NEW g \in File PROVE FileOK(g)'
  <2>1. FileOK(g) /\ (g # f => match'[g] = match[g]) /\ match'[f] = None
    BY <1>1, <1>3 DEF FilesOK, FilesTyped
  <2> QED
    BY <1>3, <1>4, <2>1 DEF FileOK, Drawn
<1>8. FilesOK'
  BY <1>7 DEF FilesOK
<1> QED
  BY <1>3, <1>6, <1>8, Edited

LEMMA UnmarkInv ==
  ASSUME RuleCheckAssumption, Inv, NEW r \in Replica, Unmark(r)
  PROVE  Inv'
<1>1. /\ FilesTyped /\ FilesOK /\ edit[r].file \in File /\ ~HalfDone(r)
      /\ Mark(edit[r].file, FALSE)
  BY DEF Inv, Typed, FilesTyped, Unmark, HalfDone
<1>2. /\ edit' = [edit EXCEPT ![r] = NoEdit] /\ match' = match /\ save' = save
      /\ doubt' = doubt /\ edits' = edits /\ UNCHANGED <<job, result, crashes>> /\ run' = Disturbed
  BY DEF Unmark
<1> DEFINE e == NoEdit
<1>3. e \in EditRecord /\ e.step = "idle" /\ edit' = [edit EXCEPT ![r] = e]
  BY <1>2, NoRecords
<1> HIDE DEF e
<1>4. \A g \in File : Underway(g)' <=> Underway(g)
  BY <1>1, <1>3, EditMoved
<1>5. /\ row' \in [File -> Binding \cup {None}]
      /\ \A g \in File : (row'[g] = None <=> row[g] = None)
                         /\ (row[g] # None => row'[g].rect = row[g].rect)
  BY <1>1, MarkKeeps
<1>6. FilesTyped'
  BY <1>1, <1>2, <1>3, <1>5, EditMoved DEF FilesTyped
<1>7. FilesOK'
  BY <1>1, <1>2, <1>4, <1>5 DEF FilesOK, FileOK, Drawn
<1> QED
  BY <1>2, <1>6, <1>7, Edited

LEMMA UnbindInv ==
  ASSUME RuleCheckAssumption, Inv, NEW r \in Replica, Unbind(r)
  PROVE  Inv'
<1> DEFINE f == edit[r].file
           e == [edit[r] EXCEPT !.step = "gone"]
<1>1. FilesTyped /\ FilesOK /\ f \in File /\ edit[r] \in EditRecord
  BY DEF Inv, Typed, FilesTyped, Unbind
<1>2. /\ edit' = [edit EXCEPT ![r] = e] /\ e \in EditRecord /\ e.step = "gone" /\ e.file = f
  BY <1>1 DEF Unbind, FilesTyped, EditRecord
<1> HIDE DEF e
<1>3. /\ match' = match /\ save' = save /\ edits' = edits /\ UNCHANGED <<job, result, crashes>>
      /\ run' = Disturbed /\ row' = [row EXCEPT ![f] = None]
      /\ doubt' = [doubt EXCEPT ![f] = MeetsSave(f)]
  BY DEF Unbind
<1> HIDE DEF f
<1>4. /\ doubt' \in [File -> BOOLEAN] /\ row' \in [File -> Binding \cup {None}]
      /\ \A g \in File : g # f => doubt'[g] = doubt[g] /\ row'[g] = row[g]
      /\ doubt'[f] = MeetsSave(f)
  BY <1>1, <1>3 DEF FilesTyped, MeetsSave
<1>5. \A g \in File : (g = f => Underway(g)') /\ (g # f => (Underway(g)' <=> Underway(g)))
  BY <1>1, <1>2, EditMoved DEF f
<1>6. FilesTyped'
  BY <1>1, <1>2, <1>3, <1>4, EditMoved DEF FilesTyped
<1>7. ASSUME NEW g \in File PROVE FileOK(g)'
  <2>1. FileOK(g)
    BY <1>1 DEF FilesOK
  <2>2. CASE g # f
    BY <1>3, <1>4, <1>5, <2>1, <2>2 DEF FileOK, Drawn
  <2>3. CASE g = f
    <3>1. ~doubt'[g] => \A s \in Saver : save'[s].file # g
      BY <1>3, <1>4, <2>3 DEF MeetsSave
    <3> QED
      BY <1>5, <2>3, <3>1 DEF FileOK
  <2> QED
    BY <2>2, <2>3
<1>8. FilesOK'
  BY <1>7 DEF FilesOK
<1> QED
  BY <1>3, <1>6, <1>8, Edited

LEMMA EditDiesInv ==
  ASSUME RuleCheckAssumption, Inv, NEW r \in Replica, EditDies(r)
  PROVE  Inv'
<1> DEFINE f == edit[r].file
<1>1. FilesTyped /\ FilesOK /\ f \in File /\ crashes' \in Nat
  BY DEF Inv, Typed, FilesTyped, EditDies
<1>2. /\ row' = row /\ match' = match /\ save' = save /\ edits' = edits
      /\ UNCHANGED <<job, run, result>> /\ edit' = [edit EXCEPT ![r] = NoEdit]
      /\ doubt' = [doubt EXCEPT ![f] = doubt[f] \/ HalfDone(r)]
  BY DEF EditDies
<1> DEFINE e == NoEdit
<1>3. e \in EditRecord /\ e.step = "idle" /\ e.file = None /\ edit' = [edit EXCEPT ![r] = e]
  BY <1>2, NoRecords
<1> HIDE DEF e, f
<1>4. /\ doubt' \in [File -> BOOLEAN]
      /\ \A g \in File : g # f => doubt'[g] = doubt[g]
      /\ doubt'[f] = (doubt[f] \/ HalfDone(r))
  BY <1>1, <1>2 DEF FilesTyped, HalfDone
<1>5. /\ \A g \in File : g # f => (Underway(g)' <=> Underway(g))
      /\ ~HalfDone(r) => \A g \in File : Underway(g)' <=> Underway(g)
  BY <1>1, <1>3, EditMoved, NoRecords DEF f
<1>6. FilesTyped'
  BY <1>1, <1>2, <1>3, <1>4, EditMoved DEF FilesTyped
<1>7. \A g \in File : HalfDone(r) /\ g = f => Underway(g)
  BY DEF Underway, HalfDone, f
<1>8. FilesOK'
  BY <1>1, <1>2, <1>4, <1>5 DEF FilesOK, FileOK, Drawn
<1>9. \A g \in File : Steady(g) => Steady(g)'
  BY <1>4, <1>5, <1>7 DEF Steady
<1> QED
  BY <1>1, <1>2, <1>6, <1>8, <1>9, FilesMoved

LEMMA BindInv ==
  ASSUME RuleCheckAssumption, Inv, NEW f \in File, Bind(f)
  PROVE  Inv'
<1> DEFINE b == [rect |-> 0, saved |-> FALSE]
<1>1. FilesTyped /\ FilesOK /\ b \in Binding /\ row[f] = None
  BY DEF Inv, Typed, Binding, Rects, RuleCheckAssumption, Bind
<1>2. /\ match' = match /\ save' = save /\ edit' = edit /\ edits' \in Nat
      /\ UNCHANGED <<job, result, crashes>> /\ run' = Disturbed /\ row' = [row EXCEPT ![f] = b]
      /\ doubt' = [doubt EXCEPT ![f] = doubt[f] \/ MeetsSave(f)]
  BY DEF Bind, Began, Inv, Typed, FilesTyped
<1> HIDE DEF b
<1>3. /\ doubt' \in [File -> BOOLEAN] /\ row' \in [File -> Binding \cup {None}]
      /\ \A g \in File : g # f => doubt'[g] = doubt[g] /\ row'[g] = row[g]
      /\ doubt'[f] = (doubt[f] \/ MeetsSave(f))
  BY <1>1, <1>2 DEF FilesTyped, MeetsSave
<1>4. \A g \in File : Underway(g)' <=> Underway(g)
  BY <1>2 DEF Underway, HalfDone
<1>5. FilesTyped'
  BY <1>1, <1>2, <1>3 DEF FilesTyped
<1>6. ASSUME NEW g \in File PROVE FileOK(g)'
  <2>1. FileOK(g)
    BY <1>1 DEF FilesOK
  <2>2. CASE g # f
    BY <1>2, <1>3, <1>4, <2>1, <2>2 DEF FileOK, Drawn
  <2>3. CASE g = f
    <3>1. ~doubt'[g] => \A s \in Saver : save'[s].file # g
      BY <1>2, <1>3, <2>3 DEF MeetsSave
    <3>2. ~doubt'[g] => Underway(g)' \/ match'[g] = None
      BY <1>1, <1>2, <1>3, <1>4, <2>1, <2>3 DEF FileOK, Drawn
    <3> QED
      BY <3>1, <3>2 DEF FileOK
  <2> QED
    BY <2>2, <2>3
<1>7. FilesOK'
  BY <1>6 DEF FilesOK
<1> QED
  BY <1>2, <1>5, <1>7, Edited

LEMMA StartSaveInv ==
  ASSUME RuleCheckAssumption, Inv, NEW s \in Saver, NEW f \in File, StartSave(s, f)
  PROVE  Inv'
<1> DEFINE c == [step |-> "scan", file |-> f, rect |-> row[f].rect]
<1>1. FilesTyped /\ FilesOK /\ row[f] # None /\ row[f].rect \in Rects
  BY DEF Inv, Typed, FilesTyped, StartSave, Binding
<1>2. /\ row' = row /\ match' = match /\ edit' = edit /\ doubt' = doubt /\ edits' = edits
      /\ UNCHANGED <<job, run, result>> /\ crashes' \in Nat /\ save' = [save EXCEPT ![s] = c]
  BY DEF StartSave, Inv, Typed
<1>3. c \in SaveRecord /\ c.file = f /\ Drawn(row, f, c.rect)
  BY <1>1 DEF SaveRecord, Drawn
<1> HIDE DEF c
<1>4. \A g \in File : Underway(g)' <=> Underway(g)
  BY <1>2 DEF Underway, HalfDone
<1>5. /\ save' \in [Saver -> SaveRecord] /\ save'[s] = c
      /\ \A q \in Saver : q # s => save'[q] = save[q]
  BY <1>1, <1>2, <1>3 DEF FilesTyped
<1>6. FilesTyped'
  BY <1>1, <1>2, <1>3, <1>5 DEF FilesTyped
<1>7. FilesOK'
  BY <1>1, <1>2, <1>3, <1>4, <1>5 DEF FilesOK, FileOK, Drawn
<1>8. \A g \in File : Steady(g) => Steady(g)'
  BY <1>2, <1>4 DEF Steady
<1> QED
  BY <1>2, <1>6, <1>7, <1>8, FilesMoved

LEMMA PutMatchInv ==
  ASSUME RuleCheckAssumption, Inv, NEW s \in Saver, PutMatch(s)
  PROVE  Inv'
<1> DEFINE f == save[s].file
           c == [save[s] EXCEPT !.step = "mark"]
<1>1. FilesTyped /\ FilesOK /\ f \in File /\ save[s] \in SaveRecord /\ save[s].rect \in Rects
  BY DEF Inv, Typed, FilesTyped, PutMatch, SaveRecord
<1>2. /\ row' = row /\ edit' = edit /\ doubt' = doubt /\ edits' = edits
      /\ UNCHANGED <<job, run, result>> /\ crashes' \in Nat /\ save' = [save EXCEPT ![s] = c]
      /\ match' = [match EXCEPT ![f] = save[s].rect]
  BY <1>1 DEF PutMatch, Inv, Typed, FilesTyped
<1>3. c \in SaveRecord /\ c.file = f /\ c.rect = save[s].rect
  BY <1>1 DEF SaveRecord
<1> HIDE DEF c
<1>4. \A g \in File : Underway(g)' <=> Underway(g)
  BY <1>2 DEF Underway, HalfDone
<1>5. /\ save' \in [Saver -> SaveRecord] /\ save'[s] = c
      /\ \A q \in Saver : q # s => save'[q] = save[q]
      /\ match' \in [File -> Rects \cup {None}] /\ match'[f] = save[s].rect
      /\ \A g \in File : g # f => match'[g] = match[g]
  BY <1>1, <1>2, <1>3 DEF FilesTyped
<1>6. FilesTyped'
  BY <1>1, <1>2, <1>3, <1>5 DEF FilesTyped
<1>7. ASSUME NEW g \in File PROVE FileOK(g)'
  <2>1. FileOK(g)
    BY <1>1 DEF FilesOK
  <2>2. ~doubt[g] => \A q \in Saver : save'[q].file = g => Drawn(row, g, save'[q].rect)
    BY <1>3, <1>5, <2>1 DEF FileOK
  <2>3. g = f /\ ~doubt[g] => Drawn(row, g, match'[g])
    BY <1>5, <2>1 DEF FileOK
  <2> QED
    BY <1>2, <1>4, <1>5, <2>1, <2>2, <2>3 DEF FileOK, Drawn
<1>8. FilesOK'
  BY <1>7 DEF FilesOK
<1>9. \A g \in File : Steady(g) => Steady(g)'
  BY <1>2, <1>4 DEF Steady
<1> QED
  BY <1>2, <1>6, <1>8, <1>9, FilesMoved

(* A save-match that is over, or cut off.                                  *)
LEMMA SaveEnds ==
  ASSUME RuleCheckAssumption, Inv, NEW s \in Saver, save' = [save EXCEPT ![s] = NoSave],
         UNCHANGED <<match, edit, doubt, edits, job, run, result>>, crashes' \in Nat,
         row' \in [File -> Binding \cup {None}],
         \A g \in File : (row'[g] = None <=> row[g] = None)
                        /\ (row[g] # None => row'[g].rect = row[g].rect)
  PROVE  Inv'
<1>1. FilesTyped /\ FilesOK
  BY DEF Inv, Typed
<1> DEFINE c == NoSave
<1>2. /\ c \in SaveRecord /\ c.step = "idle" /\ c.file \notin File
      /\ save' = [save EXCEPT ![s] = c]
  BY NoRecords
<1> HIDE DEF c
<1>3. /\ save' \in [Saver -> SaveRecord] /\ save'[s] = c
      /\ \A q \in Saver : q # s => save'[q] = save[q]
  BY <1>1, <1>2 DEF FilesTyped
<1>4. FilesTyped'
  BY <1>1, <1>2, <1>3 DEF FilesTyped
<1>5. \A g \in File : Underway(g)' <=> Underway(g)
  BY DEF Underway, HalfDone
<1>6. FilesOK'
  BY <1>1, <1>2, <1>3, <1>5 DEF FilesOK, FileOK, Drawn
<1>7. \A g \in File : Steady(g) => Steady(g)'
  BY <1>5 DEF Steady
<1> QED
  BY <1>4, <1>6, <1>7, FilesMoved

LEMMA MarkSavedInv ==
  ASSUME RuleCheckAssumption, Inv, NEW s \in Saver, MarkSaved(s)
  PROVE  Inv'
<1>1. save[s].file \in File /\ Mark(save[s].file, TRUE) /\ crashes' \in Nat
  BY DEF MarkSaved, Inv, Typed, FilesTyped
<1> QED
  BY <1>1, MarkKeeps, SaveEnds DEF MarkSaved

LEMMA SaveDiesInv ==
  ASSUME RuleCheckAssumption, Inv, NEW s \in Saver, SaveDies(s)
  PROVE  Inv'
<1>1. row' = row /\ crashes' \in Nat /\ row \in [File -> Binding \cup {None}]
  BY DEF SaveDies, Inv, Typed, FilesTyped
<1> QED
  BY <1>1, SaveEnds DEF SaveDies

-----------------------------------------------------------------------------
(* The requests.                                                           *)

LEMMA JobMoved ==
  ASSUME Inv, NEW j \in Jobs, NEW q \in Job, job' = [job EXCEPT ![j] = q],
         job[j].state # "unborn" => q.state # "unborn" /\ q.files = job[j].files,
         q.state \in {"unborn", "queued"} => q.attempts < MAX_ATTEMPTS
  PROVE  JobsKept
  BY DEF Inv, Typed, JobsKept, AttemptsOK

LEMMA PostInv == ASSUME Inv, NEW j \in Jobs, Post(j) PROVE Inv'
<1> DEFINE q == [job[j] EXCEPT !.state = "queued", !.files = Bound]
<1>1. job' = [job EXCEPT ![j] = q] /\ job[j].state = "unborn"
  BY DEF Post, Inv, Typed
<1>2. Bound \in SUBSET File
  BY DEF Bound
<1>3. job[j] \in Job
  BY DEF Inv, Typed
<1>4. q \in Job /\ q.state = "queued" /\ q.attempts = job[j].attempts
  BY <1>2, <1>3 DEF Job
<1> HIDE DEF q
<1>5. JobsKept
  BY <1>1, <1>4, JobMoved DEF Inv, AttemptsOK
<1> QED
  BY <1>5, NoneMoved DEF Post, Inv, Typed

LEMMA UploadInv == ASSUME Inv, Upload PROVE Inv'
  BY SameJobs, NoneMoved DEF Upload, Inv, Typed

LEMMA StartDownloadInv ==
  ASSUME RuleCheckAssumption, Inv, NEW c \in Caller, StartDownload(c)
  PROVE  Inv'
<1> DEFINE d == [f \in Bound |-> row[f].rect]
           calm == \A f \in Bound : Steady(f)
           r == [run[c] EXCEPT !.phase = "copying", !.rows = d, !.quiet = calm]
<1>1. c \in Actor /\ c \notin Worker
  BY DEF Actor, RuleCheckAssumption
<1>2. /\ run[c] \in Run /\ run[c].phase = "idle" /\ BundleOK(run[c], Now)
  BY <1>1 DEF Inv, Typed, StartDownload
<1>3. run[c].job = None /\ run[c].copied = <<>>
  BY <1>2 DEF BundleOK
<1>4. /\ DOMAIN d = Bound /\ d \in Readings /\ calm \in BOOLEAN
      /\ calm => \A f \in DOMAIN d : Now[f] = d[f]
  <2>1. Bound \in SUBSET File /\ \A f \in Bound : row[f] \in Binding /\ row[f] # None
    BY DEF Bound, Inv, Typed, FilesTyped
  <2>2. d \in [Bound -> Rects]
    BY <2>1 DEF Binding
  <2>3. [Bound -> Rects] \in {[S -> Rects] : S \in SUBSET File}
    BY <2>1
  <2>4. d \in Readings
    BY <2>2, <2>3 DEF Readings
  <2> QED
    BY <2>1, <2>4 DEF Now
<1>5. run' = [run EXCEPT ![c] = r]
  BY <1>1 DEF StartDownload, Inv, Typed
<1> HIDE DEF d, calm
<1>6. /\ r \in Run /\ r.phase = "copying" /\ r.rows = d /\ r.copied = <<>>
      /\ r.job = None /\ r.quiet = calm
  BY <1>2, <1>3, <1>4, IdleShape DEF Run, Phases
<1> HIDE DEF r
<1>7. BundleOK(r, Now)
  BY <1>4, <1>6, NoReading DEF BundleOK, Built
<1>8. OwnOK(c, r, job')
  BY <1>1, <1>6 DEF OwnOK
<1> QED
  BY <1>1, <1>5, <1>6, <1>7, <1>8, SameJobs, OneMoved DEF StartDownload, Inv, Typed

(* A bundle that is given up or done with.                                 *)
LEMMA Dropped ==
  ASSUME Inv, JobsKept, UNCHANGED <<files, result>>, crashes' \in Nat,
         NEW a \in Actor, run' = [run EXCEPT ![a] = Idle]
  PROVE  Inv'
  BY IdleShape, OneMoved DEF Inv, Typed

LEMMA EndDownloadInv == ASSUME Inv, NEW c \in Caller, EndDownload(c) PROVE Inv'
  BY SameJobs, Dropped DEF EndDownload, Actor, Inv, Typed

-----------------------------------------------------------------------------
(* The worker.                                                             *)

LEMMA StateMoved ==
  ASSUME Inv, NEW j \in Jobs, NEW s \in {"queued", "running", "done", "error"},
         job' = [job EXCEPT ![j].state = s],
         s = "queued" => job[j].attempts < MAX_ATTEMPTS
  PROVE  JobsKept
<1> DEFINE q == [job[j] EXCEPT !.state = s]
<1>1. job[j] \in Job /\ job' = [job EXCEPT ![j] = q]
  BY DEF Inv, Typed
<1>2. q \in Job /\ q.state = s /\ q.files = job[j].files /\ q.attempts = job[j].attempts
  BY <1>1 DEF Job
<1> HIDE DEF q
<1> QED
  BY <1>1, <1>2, JobMoved

LEMMA ClaimInv ==
  ASSUME RuleCheckAssumption, Inv, NEW w \in Worker, NEW j \in Jobs, Claim(w, j)
  PROVE  Inv'
<1> DEFINE n == job[j].attempts + 1
           q == [job[j] EXCEPT !.state = "running", !.attempts = n]
           r == [Idle EXCEPT !.phase = "rows", !.job = j]
<1>1. /\ job' = [job EXCEPT ![j] = q] /\ job[j].state = "queued"
      /\ run' = [run EXCEPT ![w] = r]
  BY DEF Claim, Queued, Inv, Typed
<1>2. job[j] \in Job /\ n \in 0..MAX_ATTEMPTS
  BY <1>1 DEF Inv, Typed, AttemptsOK, Job, MAX_ATTEMPTS
<1> HIDE DEF n
<1>3. q \in Job /\ q.state = "running" /\ q.files = job[j].files
  BY <1>2 DEF Job
<1>4. /\ r \in Run /\ r.phase = "rows" /\ r.job = j /\ r.rows = <<>>
      /\ r.copied = <<>>
  BY IdleShape DEF Run, Phases
<1> HIDE DEF q, r
<1>5. JobsKept
  BY <1>1, <1>3, JobMoved
<1>6. BundleOK(r, Now)
  BY <1>4, NoReading DEF BundleOK, Built
<1>7. w \in Actor /\ w \notin Caller
  BY DEF Actor, RuleCheckAssumption
<1>8. job'[j] = q
  BY <1>1 DEF Inv, Typed
<1>9. OwnOK(w, r, job')
  BY <1>3, <1>4, <1>7, <1>8 DEF OwnOK
<1> QED
  BY <1>1, <1>4, <1>5, <1>6, <1>7, <1>9, OneMoved DEF Claim, Inv, Typed

LEMMA FailInv ==
  ASSUME Inv, NEW a \in Actor, Fail(a),
         UNCHANGED <<files, result, uploads, crashes>>
  PROVE  Inv'
<1>1. run' = [run EXCEPT ![a] = Idle]
  BY DEF Fail
<1>2. JobsKept
  <2>1. CASE run[a].job = None
    BY <2>1, SameJobs DEF Fail
  <2>2. CASE run[a].job # None
    <3> DEFINE j == run[a].job
               q == [job[j] EXCEPT !.state = "error"]
    <3>1. j \in Jobs
      BY <2>2 DEF Inv, Typed, Run
    <3>2. job' = [job EXCEPT ![j] = q] /\ job[j] \in Job
      BY <2>2, <3>1 DEF Fail, Inv, Typed
    <3> HIDE DEF j
    <3>3. q \in Job /\ q.state = "error" /\ q.files = job[j].files
      BY <3>2 DEF Job
    <3> HIDE DEF q
    <3> QED
      BY <3>1, <3>2, <3>3, JobMoved
  <2> QED
    BY <2>1, <2>2
<1> QED
  BY <1>1, <1>2, Dropped DEF Inv, Typed

LEMMA ReadRowInv ==
  ASSUME RuleCheckAssumption, Inv, NEW w \in Worker, NEW f \in File, ReadRow(w, f)
  PROVE  Inv'
<1>0. w \in Actor /\ w \notin Caller
  BY DEF Actor, RuleCheckAssumption
<1>1. CASE row[f] = None
  BY <1>0, <1>1, FailInv DEF ReadRow
<1>2. CASE row[f] # None
  <2> DEFINE n == row[f].rect
             d == With(run[w].rows, f, n)
             calm == run[w].quiet /\ Steady(f)
             r == [run[w] EXCEPT !.rows = d, !.quiet = calm]
  <2>1. /\ run[w] \in Run /\ BundleOK(run[w], Now) /\ OwnOK(w, run[w], job)
        /\ run[w].rows \in Readings /\ run[w].copied \in Readings
        /\ run[w].phase = "rows" /\ f \notin DOMAIN run[w].rows
    BY <1>0 DEF Inv, Typed, Run, ReadRow
  <2>2. /\ n \in Rects /\ calm \in BOOLEAN /\ (calm => run[w].quiet /\ Now[f] = n)
    BY <1>2, <2>1 DEF Inv, Typed, FilesTyped, Binding, Now, Run
  <2>3. run' = [run EXCEPT ![w] = r] /\ UNCHANGED job
    BY <1>0, <1>2 DEF ReadRow, With, Inv, Typed
  <2> HIDE DEF n
  <2>4. /\ d \in Readings /\ DOMAIN d = DOMAIN run[w].rows \cup {f} /\ d[f] = n
        /\ \A g \in DOMAIN run[w].rows : d[g] = run[w].rows[g]
    <3> DEFINE o == run[w].rows
    <3>1. o \in Readings /\ f \notin DOMAIN o /\ n \in Rects
      BY <2>1, <2>2
    <3> HIDE DEF o
    <3>2. /\ With(o, f, n) \in Readings /\ DOMAIN With(o, f, n) = DOMAIN o \cup {f}
          /\ With(o, f, n)[f] = n
          /\ \A g \in DOMAIN o : g # f => With(o, f, n)[g] = o[g]
      BY <3>1, WithShape, Zenon
    <3>3. d = With(o, f, n)
      BY DEF o
    <3> QED
      BY <3>1, <3>2, <3>3 DEF o
  <2> HIDE DEF d, calm
  <2>5. /\ r \in Run /\ r.phase = "rows" /\ r.job = run[w].job /\ r.rows = d
        /\ r.copied = run[w].copied /\ r.quiet = calm
    BY <2>1, <2>2, <2>4 DEF Run
  <2> HIDE DEF r
  <2>6. BundleOK(r, Now)
    BY <2>1, <2>2, <2>4, <2>5 DEF BundleOK, Built
  <2>7. OwnOK(w, r, job')
    BY <1>0, <2>1, <2>3, <2>5 DEF OwnOK
  <2> QED
    BY <1>0, <2>3, <2>5, <2>6, <2>7, SameJobs, OneMoved DEF ReadRow, Inv, Typed
<1> QED
  BY <1>1, <1>2

(* The phase of a's bundle becomes p.                                      *)
LEMMA PhaseMoved ==
  ASSUME RuleCheckAssumption, Inv, NEW a \in Actor, NEW p \in Phases \ {"idle", "rows"},
         run' = [run EXCEPT ![a].phase = p],
         UNCHANGED <<files, job, crashes>>,
         result' \in Jobs \cup {Uploaded, None},
         run[a].phase # "idle",
         p = "copying" => run[a].phase = "rows",
         p # "copying" => DOMAIN run[a].copied = DOMAIN run[a].rows,
         p \in {"checked", "put"} => a \in Worker,
         a \in Worker /\ run[a].phase = "rows" => DOMAIN run[a].rows = job[run[a].job].files
  PROVE  Inv'
<1> DEFINE r == [run[a] EXCEPT !.phase = p]
<1>1. /\ run[a] \in Run /\ BundleOK(run[a], Now) /\ OwnOK(a, run[a], job)
      /\ run' = [run EXCEPT ![a] = r]
  BY DEF Inv, Typed
<1>2. /\ r \in Run /\ r.phase = p /\ r.job = run[a].job /\ r.rows = run[a].rows
      /\ r.copied = run[a].copied /\ r.quiet = run[a].quiet
  BY <1>1 DEF Run
<1> HIDE DEF r
<1>3. BundleOK(r, Now)
  BY <1>1, <1>2 DEF BundleOK, Built, Phases
<1>4. OwnOK(a, r, job')
  BY <1>1, <1>2 DEF OwnOK, RuleCheckAssumption
<1> QED
  BY <1>1, <1>2, <1>3, <1>4, SameJobs, OneMoved DEF Inv, Typed

LEMMA ManifestInv ==
  ASSUME RuleCheckAssumption, Inv, NEW w \in Worker, Manifest(w) PROVE Inv'
  BY PhaseMoved DEF Manifest, Actor, Phases, RuleCheckAssumption, Inv, Typed

LEMMA CopyInv ==
  ASSUME RuleCheckAssumption, Inv, NEW a \in Actor, NEW f \in File, Copy(a, f)
  PROVE  Inv'
<1>1. CASE match[f] = None
  BY <1>1, FailInv DEF Copy
<1>2. CASE match[f] # None
  <2> DEFINE n == match[f]
             d == With(run[a].copied, f, n)
             r == [run[a] EXCEPT !.copied = d]
  <2>1. /\ run[a] \in Run /\ BundleOK(run[a], Now) /\ OwnOK(a, run[a], job)
        /\ run[a].rows \in Readings /\ run[a].copied \in Readings
        /\ run[a].phase = "copying"
        /\ f \in DOMAIN run[a].rows /\ f \notin DOMAIN run[a].copied
    BY DEF Inv, Typed, Run, Copy
  <2>2. n \in Rects /\ (Now[f] # None => Now[f] = n)
    <3>1. n \in Rects /\ FileOK(f)
      BY <1>2 DEF Inv, Typed, FilesTyped, FilesOK
    <3>2. ASSUME Now[f] # None PROVE Now[f] = n
      <4>1. Now[f] = row[f].rect /\ ~doubt[f] /\ ~Underway(f)
        BY <3>2 DEF Now, Steady
      <4> QED
        BY <1>2, <3>1, <4>1 DEF FileOK, Drawn
    <3> QED
      BY <3>1, <3>2
  <2>3. run' = [run EXCEPT ![a] = r] /\ UNCHANGED job
    BY <1>2 DEF Copy, With, Inv, Typed
  <2> HIDE DEF n
  <2>4. /\ d \in Readings /\ DOMAIN d = DOMAIN run[a].copied \cup {f} /\ d[f] = n
        /\ \A g \in DOMAIN run[a].copied : d[g] = run[a].copied[g]
    <3> DEFINE o == run[a].copied
    <3>1. o \in Readings /\ f \notin DOMAIN o /\ n \in Rects
      BY <2>1, <2>2
    <3> HIDE DEF o
    <3>2. /\ With(o, f, n) \in Readings /\ DOMAIN With(o, f, n) = DOMAIN o \cup {f}
          /\ With(o, f, n)[f] = n
          /\ \A g \in DOMAIN o : g # f => With(o, f, n)[g] = o[g]
      BY <3>1, WithShape, Zenon
    <3>3. d = With(o, f, n)
      BY DEF o
    <3> QED
      BY <3>1, <3>2, <3>3 DEF o
  <2> HIDE DEF d
  <2>5. /\ r \in Run /\ r.phase = "copying" /\ r.job = run[a].job /\ r.copied = d
        /\ r.rows = run[a].rows /\ r.quiet = run[a].quiet
    BY <2>1, <2>4 DEF Run
  <2> HIDE DEF r
  <2>6. run[a].quiet => run[a].rows[f] = n
    <3>1. run[a].rows[f] \in Rects /\ None \notin Rects
      BY <2>1, ReadingShape DEF RuleCheckAssumption
    <3> QED
      BY <2>1, <2>2, <3>1 DEF BundleOK
  <2>7. BundleOK(r, Now)
    BY <2>1, <2>4, <2>5, <2>6 DEF BundleOK, Built
  <2>8. OwnOK(a, r, job')
    BY <2>1, <2>3, <2>5 DEF OwnOK
  <2> QED
    BY <2>3, <2>5, <2>7, <2>8, SameJobs, OneMoved DEF Copy, Inv, Typed
<1> QED
  BY <1>1, <1>2

LEMMA HandInv ==
  ASSUME RuleCheckAssumption, Inv, NEW a \in Actor, Hand(a) PROVE Inv'
<1>1. /\ "handed" \in Phases \ {"idle", "rows"} /\ run[a].phase = "copying"
      /\ DOMAIN run[a].copied = DOMAIN run[a].rows
      /\ run' = [run EXCEPT ![a].phase = "handed"]
      /\ UNCHANGED <<files, job, crashes>>
      /\ result' \in Jobs \cup {Uploaded, None}
  BY DEF Hand, Phases, Inv, Typed
<1> QED
  BY <1>1, PhaseMoved

LEMMA CheckRulesInv ==
  ASSUME RuleCheckAssumption, Inv, NEW w \in Worker, CheckRules(w) PROVE Inv'
<1>0. /\ w \in Actor /\ w \notin Caller
      /\ DOMAIN run[w].copied = DOMAIN run[w].rows
  BY DEF Actor, RuleCheckAssumption, CheckRules, Inv, BundleOK, Built
<1>1. CASE Fail(w)
  BY <1>0, <1>1, FailInv DEF CheckRules
<1>2. CASE run' = [run EXCEPT ![w].phase = "checked"] /\ UNCHANGED job
  BY <1>0, <1>2, PhaseMoved DEF CheckRules, Phases, Inv, Typed
<1> QED
  BY <1>1, <1>2 DEF CheckRules

LEMMA PutResultInv ==
  ASSUME RuleCheckAssumption, Inv, NEW w \in Worker, PutResult(w) PROVE Inv'
<1>1. /\ w \in Actor /\ w \notin Caller
      /\ DOMAIN run[w].copied = DOMAIN run[w].rows
      /\ run[w].job \in Jobs
  BY DEF Actor, RuleCheckAssumption, PutResult, Inv, BundleOK, OwnOK, Built
<1> QED
  BY <1>1, PhaseMoved DEF PutResult, Phases

LEMMA FinishInv ==
  ASSUME RuleCheckAssumption, Inv, NEW w \in Worker, Finish(w) PROVE Inv'
<1>1. w \in Actor /\ w \notin Caller /\ run[w].job \in Jobs
  BY DEF Actor, RuleCheckAssumption, Finish, Inv, OwnOK
<1>2. JobsKept
  BY <1>1, StateMoved DEF Finish
<1> QED
  BY <1>1, <1>2, Dropped DEF Finish, Inv, Typed

LEMMA CrashInv ==
  ASSUME Inv, NEW w \in Worker, Crash(w) PROVE Inv'
<1>1. w \in Actor /\ crashes' \in Nat
  BY DEF Actor, Crash, Inv, Typed
<1> QED
  BY <1>1, SameJobs, Dropped DEF Crash

LEMMA RecoverInv ==
  ASSUME Inv, NEW j \in Jobs, Recover(j) PROVE Inv'
<1> DEFINE s == IF job[j].attempts < MAX_ATTEMPTS THEN "queued" ELSE "error"
<1>1. /\ s \in {"queued", "running", "done", "error"}
      /\ s = "queued" => job[j].attempts < MAX_ATTEMPTS
      /\ job' = [job EXCEPT ![j].state = s]
  BY DEF Recover
<1> HIDE DEF s
<1>2. JobsKept
  BY <1>1, StateMoved
<1> QED
  BY <1>2, NoneMoved DEF Recover, Inv, Typed

-----------------------------------------------------------------------------
(* The invariant.                                                          *)

LEMMA InitInv == ASSUME RuleCheckAssumption, Init PROVE Inv
<1>1. NoJob \in Job /\ NoJob.state = "unborn" /\ NoJob.attempts = 0
  BY DEF NoJob, Job, MAX_ATTEMPTS
<1>2. 0 \in Rects /\ [rect |-> 0, saved |-> TRUE] \in Binding
      /\ [rect |-> 0, saved |-> TRUE].rect = 0
  <2>1. 0 \in Rects
    BY DEF Rects, RuleCheckAssumption
  <2> QED
    BY <2>1 DEF Binding
<1>3. Typed
  BY <1>1, <1>2, IdleShape, NoRecords DEF Init, Typed, FilesTyped
<1>4. FilesOK
  BY <1>2, NoRecords DEF Init, FilesOK, FileOK, Drawn, RuleCheckAssumption
<1>5. AttemptsOK
  BY <1>1 DEF Init, AttemptsOK, MAX_ATTEMPTS
<1>6. \A a \in Actor : BundleOK(run[a], Now) /\ OwnOK(a, run[a], job)
  BY IdleShape DEF Init
<1> QED
  BY <1>3, <1>4, <1>5, <1>6 DEF Inv

LEMMA NextInv == ASSUME RuleCheckAssumption, Inv, [Next]_vars PROVE Inv'
<1>1. CASE \E r \in Replica : Edit(r)
  BY <1>1, RequestEditInv, UpdateRegionsInv, DropMatchInv, UnmarkInv, UnbindInv, EditDiesInv DEF Edit
<1>2. CASE \E f \in File : Bind(f)
  BY <1>2, BindInv
<1>3. CASE \E s \in Saver : Save(s)
  BY <1>3, StartSaveInv, PutMatchInv, MarkSavedInv, SaveDiesInv DEF Save
<1>4. CASE \E j \in Jobs : Post(j) \/ Recover(j)
  BY <1>4, PostInv, RecoverInv
<1>5. CASE Upload \/ \E d \in Caller : StartDownload(d) \/ EndDownload(d)
  BY <1>5, UploadInv, StartDownloadInv, EndDownloadInv
<1>6. CASE \E w \in Worker : Check(w)
  BY <1>6, ClaimInv, ReadRowInv, ManifestInv, CheckRulesInv, PutResultInv, FinishInv, CrashInv
  DEF Check
<1>7. CASE \E a \in Actor : Hand(a) \/ \E f \in File : Copy(a, f)
  BY <1>7, HandInv, CopyInv
<1>8. CASE UNCHANGED vars
  BY <1>8, SameJobs, NoneMoved DEF vars, Inv, Typed
<1> QED
  BY <1>1, <1>2, <1>3, <1>4, <1>5, <1>6, <1>7, <1>8 DEF Next

(* In every reachable state the bundles being built agree with the rows
   and the stored matches as Inv says.                                     *)
THEOREM InvAlways == ASSUME RuleCheckAssumption PROVE Spec => []Inv
<1>1. Init => Inv
  BY InitInv
<1>2. Inv /\ [Next]_vars => Inv'
  BY NextInv
<1> QED
  BY <1>1, <1>2, PTL DEF Spec

(* Every variable keeps its type, and no job is attempted more than
   MAX_ATTEMPTS times.                                                     *)
THEOREM TypeCorrect == ASSUME RuleCheckAssumption PROVE Spec => []TypeOK
<1>1. ASSUME Inv PROVE TypeOK
  <2>2. ASSUME NEW j \in Jobs PROVE job[j] \in Job
    BY <1>1 DEF Inv, Typed
  <2>3. ASSUME NEW a \in Actor
        PROVE  run[a].phase \in Phases /\ DOMAIN run[a].copied \subseteq DOMAIN run[a].rows
    BY <1>1 DEF Inv, Typed, Run, BundleOK
  <2> QED
    BY <1>1, <2>2, <2>3 DEF TypeOK, Typed, FilesTyped, EditRecord, SaveRecord, Inv, Job, Phases
<1> QED
  BY <1>1, InvAlways, PTL

(* The bundle that a worker hands over is whole; and the Match JSONs of a
   worker's or a download's bundle are those of the regions its manifest
   lists, unless an edit wrote or was half done while it was built, or the
   last edit of a file overlapped a save-match or was cut off
   (drc_bundle.py, jobs.py, main.py).                                      *)
THEOREM BundlesAreSound == ASSUME RuleCheckAssumption PROVE Spec => []BundleIsSound
<1>1. ASSUME Inv PROVE BundleIsSound
  <2>1. ASSUME NEW a \in Actor, run[a].phase = "handed", run[a].quiet
        PROVE  run[a].copied = run[a].rows
    <3>1. /\ run[a].copied \in Readings /\ run[a].rows \in Readings
          /\ BundleOK(run[a], Now)
      BY <1>1 DEF Inv, Typed, Run
    <3>2. /\ DOMAIN run[a].copied = DOMAIN run[a].rows
          /\ \A f \in DOMAIN run[a].copied : run[a].copied[f] = run[a].rows[f]
      BY <2>1, <3>1 DEF BundleOK, Built
    <3> QED
      BY <3>1, <3>2, SameReading
  <2>2. ASSUME NEW w \in Worker, run[w].phase \in Built
        PROVE  DOMAIN run[w].copied = job[run[w].job].files
    BY <1>1, <2>2 DEF Inv, Actor, BundleOK, OwnOK, Built
  <2> QED
    BY <2>1, <2>2 DEF BundleIsSound, BundleCoherent, WholeBundle, Built
<1> QED
  BY <1>1, InvAlways, PTL
=============================================================================
