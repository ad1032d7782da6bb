------------------------ MODULE FilePipeline_proofs ------------------------
(***************************************************************************)
(* Proofs about FilePipeline, for every number of files, requests, jobs,   *)
(* pool slots, attempts and faults.  Four layers:                          *)
(*                                                                         *)
(*   1. lemmas about lists of steps: what a tail and a concatenation keep  *)
(*      of "only steps of S", "no step s" and "s only after p";            *)
(*   2. Inv, every step of which keeps each task sound for the blobs that  *)
(*      are there, and with it TypeCorrect and ArtefactsExist;             *)
(*   3. FrozenAtRest, an action property that needs no invariant;          *)
(*   4. BInv, which adds the order in which a task announces and delivers, *)
(*      and with it BusyIsAwaited.                                         *)
(*                                                                         *)
(* Liveness (BusyEnds) is left to TLC.                                     *)
(***************************************************************************)
EXTENDS FilePipeline, FiniteSetTheorems, TLAPS

(* The steps of handlers, those of jobs, and those that need no file.      *)
HandlerSteps == {"bind", "unbind", "drop", "status", "layers", "tab", "unit",
                 "views", "unmatch", "unsave", "inflight", "reread", "resolve",
                 "reprocess", "discover", "preprocess", "match", "check"}

JobSteps == {"status", "tab", "unmatch", "unsave", "layouts", "manifest",
             "cache", "flatten", "parsed", "uncache", "publish", "autounit",
             "region", "load", "result", "save", "bundle", "verdict", "end",
             "fail"}

Fileless == {"unbind", "drop", "check", "bundle", "verdict", "end", "fail"}

(* Facts about a list of steps d: all of its steps are in S; none is s;
   every s comes after some p.                                             *)
In(d, S) == \A i \in 1..Len(d) : d[i] \in S
Lacks(d, s) == \A i \in 1..Len(d) : d[i] # s
Needs(d, s, p) ==
  \A i \in 1..Len(d) : d[i] = s => \E k \in 1..(i - 1) : d[k] = p

LEMMA TailSteps ==
  ASSUME NEW d \in Seq(Steps), d # <<>>
  PROVE  /\ Tail(d) \in Seq(Steps)
         /\ Len(d) \in Nat /\ Len(d) >= 1
         /\ Len(Tail(d)) = Len(d) - 1
         /\ \A i \in 1..Len(Tail(d)) : i + 1 \in 1..Len(d) /\ Tail(d)[i] = d[i + 1]
         /\ Head(d) = d[1] /\ Head(d) \in Steps
  OBVIOUS

LEMMA InTail ==
  ASSUME NEW d \in Seq(Steps), d # <<>>, NEW S, In(d, S)
  PROVE  In(Tail(d), S)
  BY TailSteps DEF In

LEMMA LacksTail ==
  ASSUME NEW d \in Seq(Steps), d # <<>>, NEW s, Lacks(d, s)
  PROVE  Lacks(Tail(d), s)
  BY TailSteps DEF Lacks

LEMMA NeedsTail ==
  ASSUME NEW d \in Seq(Steps), d # <<>>, NEW s, NEW p, Needs(d, s, p),
         Head(d) # p
  PROVE  Needs(Tail(d), s, p)
<1> SUFFICES ASSUME NEW i \in 1..Len(Tail(d)), Tail(d)[i] = s
             PROVE  \E k \in 1..(i - 1) : Tail(d)[k] = p
  BY DEF Needs
<1>1. PICK k \in 1..i : d[k] = p
  BY TailSteps DEF Needs
<1>2. k - 1 \in 1..(i - 1) /\ Tail(d)[k - 1] = p
  BY <1>1, TailSteps
<1> QED
  BY <1>2

LEMMA InConcat ==
  ASSUME NEW d \in Seq(Steps), NEW e \in Seq(Steps), NEW S, In(d, S), In(e, S)
  PROVE  In(d \o e, S) /\ d \o e \in Seq(Steps) /\ Len(d \o e) = Len(d) + Len(e)
  BY DEF In

LEMMA LacksConcat ==
  ASSUME NEW d \in Seq(Steps), NEW e \in Seq(Steps), NEW s, Lacks(d, s), Lacks(e, s)
  PROVE  Lacks(d \o e, s)
  BY DEF Lacks

LEMMA NeedsConcat ==
  ASSUME NEW d \in Seq(Steps), NEW e \in Seq(Steps), NEW s, NEW p,
         Needs(d, s, p), Needs(e, s, p)
  PROVE  Needs(d \o e, s, p)
<1> SUFFICES ASSUME NEW i \in 1..Len(d \o e), (d \o e)[i] = s
             PROVE  \E k \in 1..(i - 1) : (d \o e)[k] = p
  BY DEF Needs
<1>0. Len(d) \in Nat /\ Len(e) \in Nat /\ Len(d \o e) = Len(d) + Len(e)
  OBVIOUS
<1>1. CASE i <= Len(d)
  <2>1. i \in 1..Len(d) /\ d[i] = s
    BY <1>1, <1>0
  <2>2. PICK k \in 1..(i - 1) : d[k] = p
    BY <2>1 DEF Needs
  <2>3. (d \o e)[k] = p
    BY <2>1, <2>2, <1>0
  <2> QED
    BY <2>2, <2>3
<1>2. CASE i > Len(d)
  <2>1. i - Len(d) \in 1..Len(e) /\ e[i - Len(d)] = s
    BY <1>2, <1>0
  <2>2. PICK k \in 1..(i - Len(d) - 1) : e[k] = p
    BY <2>1 DEF Needs
  <2>3. k + Len(d) \in 1..(i - 1) /\ (d \o e)[k + Len(d)] = p
    BY <2>1, <2>2, <1>0, <1>2
  <2> QED
    BY <2>3
<1> QED
  BY <1>1, <1>2, <1>0

LEMMA NeedsAfter ==
  ASSUME NEW d \in Seq(Steps), NEW e \in Seq(Steps), NEW s, NEW p,
         Needs(d, s, p), ~Lacks(d, p)
  PROVE  Needs(d \o e, s, p)
<1> SUFFICES ASSUME NEW i \in 1..Len(d \o e), (d \o e)[i] = s
             PROVE  \E k \in 1..(i - 1) : (d \o e)[k] = p
  BY DEF Needs
<1>0. Len(d) \in Nat /\ Len(e) \in Nat /\ Len(d \o e) = Len(d) + Len(e)
  OBVIOUS
<1>1. CASE i <= Len(d)
  <2>1. i \in 1..Len(d) /\ d[i] = s
    BY <1>1, <1>0
  <2>2. PICK k \in 1..(i - 1) : d[k] = p
    BY <2>1 DEF Needs
  <2>3. (d \o e)[k] = p
    BY <2>1, <2>2, <1>0
  <2> QED
    BY <2>2, <2>3
<1>2. CASE i > Len(d)
  <2>1. PICK k \in 1..Len(d) : d[k] = p
    BY DEF Lacks
  <2>2. (d \o e)[k] = p /\ k \in 1..(i - 1)
    BY <2>1, <1>0, <1>2
  <2> QED
    BY <2>2
<1> QED
  BY <1>1, <1>2, <1>0

LEMMA NeedsLacking ==
  ASSUME NEW d \in Seq(Steps), NEW s, NEW p, Lacks(d, s)
  PROVE  Needs(d, s, p)
  BY DEF Lacks, Needs

-----------------------------------------------------------------------------
(* The inductive invariant of TypeOK and StatusHasArtefact.                *)

(* A task knows the file its steps are about, and the one they drop.       *)
Named(t) == /\ In(t.todo, Fileless) \/ t.file \in File
            /\ (Lacks(t.todo, "unbind") /\ Lacks(t.todo, "drop")) \/ t.victim \in File

(* It has loaded or flattened a drawing, or will before it writes one.     *)
Drawn(t) == \/ t.got \in Drawing
            \/ /\ Needs(t.todo, "parsed", "flatten")
               /\ Needs(t.todo, "publish", "flatten")
               /\ Needs(t.todo, "result", "load")

(* Before it publishes there is a parsed drawing.                          *)
Parsed(t, b) == b[t.file].parsed # None \/ Needs(t.todo, "publish", "parsed")

(* Before it writes a status that asks the user to choose there is what to
   choose from, and no task writes ready by its status step.               *)
Offered(t, b) ==
  /\ t.status = "awaiting_layers"
       => b[t.file].manifest \/ Needs(t.todo, "status", "manifest")
  /\ t.status = "awaiting_layout"
       => b[t.file].layouts \/ Needs(t.todo, "status", "layouts")
  /\ t.status = "ready" => Lacks(t.todo, "bind") /\ Lacks(t.todo, "status")
  /\ Lacks(t.todo, "bind") \/ t.status \in {"discovering", "preprocessing"}

(* Sound for the blobs b.                                                  *)
Sound(t, b) == t \in Task /\ Named(t) /\ Drawn(t) /\ Parsed(t, b) /\ Offered(t, b)

(* The task after its first step.                                          *)
Rest(t) == [t EXCEPT !.todo = Tail(t.todo)]

LEMMA RestType ==
  ASSUME NEW t \in Task, t.todo # <<>>
  PROVE  /\ Rest(t) \in Task /\ Rest(t).todo = Tail(t.todo)
         /\ Rest(t).file = t.file /\ Rest(t).victim = t.victim
         /\ Rest(t).got = t.got /\ Rest(t).status = t.status
         /\ t.todo \in Seq(Steps)
<1>1. t.todo \in Seq(Steps) /\ Tail(t.todo) \in Seq(Steps)
  BY TailSteps DEF Task
<1> QED
  BY <1>1 DEF Rest, Task

(* A task that did what its first step is for stays sound without it.      *)
LEMMA Advance ==
  ASSUME NEW t, NEW b, t.todo # <<>>, Sound(t, b),
         Head(t.todo) \in {"flatten", "load"} => t.got \in Drawing,
         Head(t.todo) = "parsed" => b[t.file].parsed # None,
         Head(t.todo) = "manifest" => b[t.file].manifest,
         Head(t.todo) = "layouts" => b[t.file].layouts
  PROVE  Sound(Rest(t), b)
<1> DEFINE d == t.todo
<1>1. t \in Task /\ d \in Seq(Steps) /\ d # <<>>
  BY DEF Sound, Task
<1>2. Rest(t) \in Task /\ Rest(t).todo = Tail(d)
      /\ Rest(t).file = t.file /\ Rest(t).victim = t.victim
      /\ Rest(t).got = t.got /\ Rest(t).status = t.status
  BY <1>1, RestType
<1> HIDE DEF d
<1>3. Named(Rest(t))
  BY <1>1, <1>2, InTail, LacksTail DEF Sound, Named, d
<1>4. Drawn(Rest(t))
  BY <1>1, <1>2, NeedsTail DEF Sound, Drawn, d
<1>5. Parsed(Rest(t), b)
  BY <1>1, <1>2, NeedsTail DEF Sound, Parsed, d
<1>6. Offered(Rest(t), b)
  BY <1>1, <1>2, NeedsTail, LacksTail DEF Sound, Offered, d
<1> QED
  BY <1>2, <1>3, <1>4, <1>5, <1>6 DEF Sound

LEMMA IdleSound ==
  ASSUME NEW b PROVE Sound(Idle, b) /\ Idle \in Task /\ Idle.todo = <<>>
<1>1. Idle \in Task
  BY DEF Idle, Task, Statuses
<1>2. Idle.todo = <<>> /\ Idle.status = "ready"
  BY DEF Idle
<1>3. /\ \A S : In(<<>>, S)
      /\ \A s : Lacks(<<>>, s)
      /\ \A s, p : Needs(<<>>, s, p)
  BY DEF In, Lacks, Needs
<1> QED
  BY <1>1, <1>2, <1>3 DEF Sound, Named, Drawn, Parsed, Offered

(* Nothing takes a parsed drawing or a manifest away.                      *)
Grows(b, c) ==
  \A f \in File : /\ b[f].parsed # None => c[f].parsed # None
                  /\ b[f].manifest => c[f].manifest
                  /\ b[f].layouts => c[f].layouts

(* So what makes a task sound is not lost when others write blobs.         *)
LEMMA SoundGrows ==
  ASSUME NEW t, NEW b, NEW c, Sound(t, b), Grows(b, c)
  PROVE  Sound(t, c)
<1>0. t \in Task /\ Named(t) /\ Drawn(t) /\ Parsed(t, b) /\ Offered(t, b)
  BY DEF Sound
<1>1. CASE t.file \in File
  BY <1>0, <1>1 DEF Sound, Grows, Parsed, Offered
<1>2. CASE t.file \notin File
  <2>1. In(t.todo, Fileless) /\ t.todo \in Seq(Steps)
    BY <1>0, <1>2 DEF Named, Task
  <2>2. Lacks(t.todo, "publish") /\ Lacks(t.todo, "status")
    BY <2>1 DEF In, Lacks, Fileless
  <2>3. \A p : Needs(t.todo, "publish", p) /\ Needs(t.todo, "status", p)
    BY <2>1, <2>2, NeedsLacking
  <2> QED
    BY <1>0, <2>3 DEF Sound, Parsed, Offered
<1> QED
  BY <1>1, <1>2

(* Handlers take the steps of handlers and jobs those of jobs.             *)
Role(x, t) == /\ x \in Request => In(t.todo, HandlerSteps)
              /\ x \in JobId => In(t.todo, JobSteps)

TasksOK == \A x \in TaskId : Sound(task[x], blob) /\ Role(x, task[x])

(* Every job but a check has a file, and only a job that exists runs.      *)
JobsOK ==
  \A j \in JobId :
    /\ job[j].state # "unborn" /\ job[j].kind # "check" => job[j].file \in File
    /\ task[j] # Idle => job[j].state # "unborn"

Inv == TypeOK /\ TasksOK /\ JobsOK /\ StatusHasArtefact

(* The preconditions of Advance.                                           *)
Covered(t, b) ==
  /\ Head(t.todo) \in {"flatten", "load"} => t.got \in Drawing
  /\ Head(t.todo) = "parsed" => b[t.file].parsed # None
  /\ Head(t.todo) = "manifest" => b[t.file].manifest
  /\ Head(t.todo) = "layouts" => b[t.file].layouts

LEMMA RoleIdle == ASSUME NEW x PROVE Role(x, Idle)
  BY IdleSound DEF Role, In

(* One task becomes another sound one.                                     *)
LEMMA Replaced ==
  ASSUME Inv, NEW x \in TaskId, NEW t, Sound(t, blob'), Role(x, t),
         Grows(blob, blob'), task' = [task EXCEPT ![x] = t]
  PROVE  /\ task' \in [TaskId -> Task]
         /\ TasksOK'
         /\ task'[x] = t
         /\ \A y \in TaskId : y # x => task'[y] = task[y]
<1>1. task \in [TaskId -> Task] /\ t \in Task
  BY DEF Inv, TypeOK, Sound
<1>2. /\ task' \in [TaskId -> Task]
      /\ task'[x] = t
      /\ \A y \in TaskId : y # x => task'[y] = task[y]
  BY <1>1
<1>3. ASSUME NEW y \in TaskId
      PROVE  Sound(task'[y], blob') /\ Role(y, task'[y])
  <2>1. CASE y = x
    BY <2>1, <1>2
  <2>2. CASE y # x
    BY <2>2, <1>2, SoundGrows DEF Inv, TasksOK
  <2> QED
    BY <2>1, <2>2
<1> QED
  BY <1>2, <1>3 DEF TasksOK, Role

LEMMA Moved ==
  ASSUME Inv, NEW x \in TaskId, NEW t, Sound(t, blob'), Role(x, t),
         t.todo # <<>>, Covered(t, blob'), Then(x, t),
         Grows(blob, blob')
  PROVE  /\ task' \in [TaskId -> Task]
         /\ TasksOK'
         /\ \A y \in TaskId : y # x => task'[y] = task[y]
<1>1. CASE Len(t.todo) <= 1
  <2>1. task' = [task EXCEPT ![x] = Idle]
    BY <1>1 DEF Then
  <2> QED
    BY <2>1, Replaced, IdleSound, RoleIdle
<1>2. CASE ~(Len(t.todo) <= 1)
  <2>1. task' = [task EXCEPT ![x] = Rest(t)]
    BY <1>2 DEF Then, Rest
  <2>2. Sound(Rest(t), blob')
    BY Advance DEF Covered
  <2>3. Role(x, Rest(t))
    <3>1. t \in Task /\ t.todo \in Seq(Steps) /\ Rest(t).todo = Tail(t.todo)
      BY RestType DEF Sound, Task
    <3> QED
      BY <3>1, InTail DEF Role
  <2> QED
    BY <2>1, <2>2, <2>3, Replaced
<1> QED
  BY <1>1, <1>2

(* What only touches a task and what the rest of it says.                  *)
LEMMA Stays ==
  ASSUME Inv, UNCHANGED <<binding, blob, verdict, signed>>, calls' \in Nat,
         faults' \in Nat, job' \in [JobId -> Job],
         task' \in [TaskId -> Task], TasksOK', JobsOK'
  PROVE  Inv'
  BY DEF Inv, TypeOK, StatusHasArtefact

LEMMA GrowsSame ==
  ASSUME UNCHANGED blob PROVE Grows(blob, blob')
  BY DEF Grows

LEMMA JobsStay ==
  ASSUME Inv, UNCHANGED job, NEW x \in TaskId,
         \A y \in TaskId : y # x => task'[y] = task[y],
         x \in JobId => job[x].state # "unborn"
  PROVE  JobsOK'
  BY DEF Inv, JobsOK, TaskId

LEMMA Called ==
  ASSUME Inv, NEW op, NEW t, Call(op, t), Sound(t, blob), In(t.todo, HandlerSteps)
  PROVE  Inv'
<1>1. PICK x \in Request : task[x] = Idle /\ task' = [task EXCEPT ![x] = t]
  BY DEF Call
<1>2. UNCHANGED <<binding, blob, verdict, signed, job, faults>> /\ calls' = calls + 1
  BY DEF Call
<1>3. x \in TaskId /\ x \notin JobId
  BY ConstantsAssumption DEF TaskId, JobId
<1>4. Role(x, t)
  BY <1>3 DEF Role
<1>5. /\ task' \in [TaskId -> Task]
      /\ TasksOK'
      /\ \A y \in TaskId : y # x => task'[y] = task[y]
  BY <1>1, <1>2, <1>3, <1>4, Replaced, GrowsSame
<1>6. JobsOK'
  BY <1>2, <1>3, <1>5, JobsStay
<1> QED
  BY <1>2, <1>5, <1>6, Stays DEF Inv, TypeOK

Busy == {"discovering", "preprocessing"}

LEMMA HandlerSound ==
  ASSUME NEW t \in Task, NEW b, In(t.todo, HandlerSteps), Named(t),
         \/ t.status \in Busy
         \/ t.status = "ready" /\ Lacks(t.todo, "bind") /\ Lacks(t.todo, "status")
  PROVE  Sound(t, b)
<1>1. t.todo \in Seq(Steps)
  BY DEF Task
<1>2. /\ Lacks(t.todo, "parsed") /\ Lacks(t.todo, "publish")
      /\ Lacks(t.todo, "result")
  BY DEF In, Lacks, HandlerSteps
<1>3. \A p : /\ Needs(t.todo, "parsed", p) /\ Needs(t.todo, "publish", p)
             /\ Needs(t.todo, "result", p)
  BY <1>1, <1>2, NeedsLacking
<1> QED
  BY <1>3 DEF Sound, Drawn, Parsed, Offered, Busy

LEMMA HandlerTask ==
  ASSUME NEW f \in File \cup {None}, NEW d \in Seq(Steps)
  PROVE  /\ Handler(f, d) \in Task /\ Handler(f, d).todo = d
         /\ Handler(f, d).file = f
         /\ Handler(f, d).status = "ready"
         /\ Handler(f, d).victim = None
  BY DEF Handler, Idle, Task, Statuses

LEMMA UploadInv == ASSUME Inv, NEW f \in File, Upload(f) PROVE Inv'
<1> DEFINE d == <<"bind", "resolve", "discover">>
           t == [Handler(f, d) EXCEPT !.status = "discovering"]
<1>1. d \in Seq(Steps) /\ In(d, HandlerSteps) /\ Lacks(d, "unbind") /\ Lacks(d, "drop")
  BY DEF In, Lacks, HandlerSteps, Steps
<1>2. Call("upload", t)
  BY DEF Upload
<1> HIDE DEF d
<1>3. t \in Task /\ t.todo = d /\ t.file = f /\ t.status = "discovering"
  BY <1>1, HandlerTask DEF Task, Statuses
<1> HIDE DEF t
<1> QED
  BY <1>1, <1>2, <1>3, HandlerSound, Called DEF Named, Busy

LEMMA UploadSkippingLayersInv ==
  ASSUME Inv, NEW f \in File, UploadSkippingLayers(f) PROVE Inv'
<1> DEFINE d == <<"bind", "resolve", "preprocess">>
           t == [Handler(f, d) EXCEPT !.status = "preprocessing"]
<1>1. d \in Seq(Steps) /\ In(d, HandlerSteps) /\ Lacks(d, "unbind") /\ Lacks(d, "drop")
  BY DEF In, Lacks, HandlerSteps, Steps
<1>2. Call("skip", t)
  BY DEF UploadSkippingLayers
<1> HIDE DEF d
<1>3. t \in Task /\ t.todo = d /\ t.file = f /\ t.status = "preprocessing"
  BY <1>1, HandlerTask DEF Task, Statuses
<1> HIDE DEF t
<1> QED
  BY <1>1, <1>2, <1>3, HandlerSound, Called DEF Named, Busy

LEMMA ReplaceInv ==
  ASSUME Inv, NEW f \in File, NEW g \in File, Replace(f, g) PROVE Inv'
<1> DEFINE d == <<"unbind", "drop", "bind", "resolve", "discover">>
           h == Handler(f, d)
           t == [h EXCEPT !.victim = g, !.status = "discovering"]
<1>1. d \in Seq(Steps) /\ In(d, HandlerSteps)
  BY DEF In, HandlerSteps, Steps
<1>2. Call("replace", t)
  BY DEF Replace
<1> HIDE DEF d
<1>h. h \in Task /\ h.todo = d /\ h.file = f /\ h.status = "ready"
  BY <1>1, HandlerTask
<1> HIDE DEF h
<1>3. t \in Task /\ t.todo = d /\ t.file = f /\ t.victim = g /\ t.status = "discovering"
  BY <1>1, <1>h DEF Task, Statuses
<1> HIDE DEF t
<1> QED
  BY <1>1, <1>2, <1>3, HandlerSound, Called DEF Named, Busy

LEMMA DeleteFileInv == ASSUME Inv, NEW f \in File, DeleteFile(f) PROVE Inv'
<1> DEFINE d == <<"unbind", "drop">>
           t == [Handler(f, d) EXCEPT !.victim = f]
<1>1. d \in Seq(Steps) /\ In(d, HandlerSteps) /\ Lacks(d, "bind") /\ Lacks(d, "status")
  BY DEF In, Lacks, HandlerSteps, Steps
<1>2. Call("delete", t)
  BY DEF DeleteFile
<1> HIDE DEF d
<1>3. t \in Task /\ t.todo = d /\ t.file = f /\ t.victim = f /\ t.status = "ready"
  BY <1>1, HandlerTask DEF Task
<1> HIDE DEF t
<1> QED
  BY <1>1, <1>2, <1>3, HandlerSound, Called DEF Named

LEMMA UnitOverrideInv ==
  ASSUME Inv, NEW f \in File, NEW u \in Unit, UnitOverride(f, u) PROVE Inv'
<1> DEFINE d == <<"inflight", "reread", "unit", "status", "resolve", "preprocess">>
           h == Handler(f, d)
           t == [h EXCEPT !.unit = u, !.status = "preprocessing"]
<1>1. d \in Seq(Steps) /\ In(d, HandlerSteps) /\ Lacks(d, "unbind") /\ Lacks(d, "drop")
  BY DEF In, Lacks, HandlerSteps, Steps
<1>2. Call("unit", t)
  BY DEF UnitOverride
<1> HIDE DEF d
<1>h. h \in Task /\ h.todo = d /\ h.file = f /\ h.status = "ready"
  BY <1>1, HandlerTask
<1> HIDE DEF h
<1>3. t \in Task /\ t.todo = d /\ t.file = f /\ t.status = "preprocessing"
  BY <1>1, <1>h DEF Task, Statuses
<1> HIDE DEF t
<1> QED
  BY <1>1, <1>2, <1>3, HandlerSound, Called DEF Named, Busy

LEMMA SideRegionsInv ==
  ASSUME Inv, NEW f \in File, NEW v \in View \cup {None}, SideRegions(f, v) PROVE Inv'
<1> DEFINE d == <<"views", "unmatch", "unsave">>
           t == [Handler(f, d) EXCEPT !.views = v]
<1>1. /\ d \in Seq(Steps) /\ In(d, HandlerSteps) /\ Lacks(d, "unbind")
      /\ Lacks(d, "drop") /\ Lacks(d, "bind") /\ Lacks(d, "status")
  BY DEF In, Lacks, HandlerSteps, Steps
<1>2. Call("regions", t)
  BY DEF SideRegions
<1> HIDE DEF d
<1>3. t \in Task /\ t.todo = d /\ t.file = f /\ t.status = "ready"
  BY <1>1, HandlerTask DEF Task
<1> HIDE DEF t
<1> QED
  BY <1>1, <1>2, <1>3, HandlerSound, Called DEF Named

LEMMA ConfirmLayersInv ==
  ASSUME Inv, NEW f \in File, NEW l \in Layers, ConfirmLayers(f, l) PROVE Inv'
<1> DEFINE d == <<"layers", "status", "resolve", "preprocess">>
           h == Handler(f, d)
           t == [h EXCEPT !.layers = l, !.status = "preprocessing"]
<1>1. d \in Seq(Steps) /\ In(d, HandlerSteps) /\ Lacks(d, "unbind") /\ Lacks(d, "drop")
  BY DEF In, Lacks, HandlerSteps, Steps
<1>2. Call("layers", t)
  BY DEF ConfirmLayers
<1> HIDE DEF d
<1>h. h \in Task /\ h.todo = d /\ h.file = f /\ h.status = "ready"
  BY <1>1, HandlerTask
<1> HIDE DEF h
<1>3. t \in Task /\ t.todo = d /\ t.file = f /\ t.status = "preprocessing"
  BY <1>1, <1>h DEF Task, Statuses
<1> HIDE DEF t
<1> QED
  BY <1>1, <1>2, <1>3, HandlerSound, Called DEF Named, Busy

LEMMA DiscoverLayersInv == ASSUME Inv, NEW f \in File, DiscoverLayers(f) PROVE Inv'
<1> DEFINE d == <<"status", "resolve", "discover">>
           t == [Handler(f, d) EXCEPT !.status = "discovering"]
<1>1. d \in Seq(Steps) /\ In(d, HandlerSteps) /\ Lacks(d, "unbind") /\ Lacks(d, "drop")
  BY DEF In, Lacks, HandlerSteps, Steps
<1>2. Call("discover", t)
  BY DEF DiscoverLayers
<1> HIDE DEF d
<1>3. t \in Task /\ t.todo = d /\ t.file = f /\ t.status = "discovering"
  BY <1>1, HandlerTask DEF Task, Statuses
<1> HIDE DEF t
<1> QED
  BY <1>1, <1>2, <1>3, HandlerSound, Called DEF Named, Busy

LEMMA ConfirmLayoutInv ==
  ASSUME Inv, NEW f \in File, NEW tab \in PaperTabs[f], ConfirmLayout(f, tab) PROVE Inv'
<1> DEFINE drop == IF tab # binding[f].tab THEN <<"unmatch", "unsave">> ELSE <<>>
           d == <<"tab">> \o drop \o <<"status", "resolve", "discover">>
           h == Handler(f, d)
           t == [h EXCEPT !.tab = tab, !.status = "discovering"]
<1>1. /\ <<"tab">> \in Seq(Steps) /\ drop \in Seq(Steps)
      /\ <<"status", "resolve", "discover">> \in Seq(Steps)
  BY DEF Steps
<1>2. \A e \in {<<"tab">>, drop, <<"status", "resolve", "discover">>} :
        In(e, HandlerSteps \ {"unbind", "drop"})
  BY DEF In, HandlerSteps
<1>3. d \in Seq(Steps) /\ In(d, HandlerSteps \ {"unbind", "drop"})
  <2> HIDE DEF drop
  <2>1. <<"tab">> \o drop \in Seq(Steps)
        /\ In(<<"tab">> \o drop, HandlerSteps \ {"unbind", "drop"})
    BY <1>1, <1>2, InConcat
  <2> QED
    BY <1>1, <1>2, <2>1, InConcat
<1>4. Call("layout", t)
  BY DEF ConfirmLayout
<1>5. tab \in Tab
  BY ConstantsAssumption
<1> HIDE DEF d
<1>h. h \in Task /\ h.todo = d /\ h.file = f /\ h.status = "ready"
  BY <1>3, HandlerTask
<1> HIDE DEF h
<1>6. t \in Task /\ t.todo = d /\ t.file = f /\ t.status = "discovering"
  BY <1>3, <1>5, <1>h DEF Task, Statuses
<1> HIDE DEF t
<1>7. In(d, HandlerSteps) /\ Lacks(d, "unbind") /\ Lacks(d, "drop")
  BY <1>3 DEF In, Lacks
<1> QED
  BY <1>4, <1>6, <1>7, HandlerSound, Called DEF Named, Busy

LEMMA SaveMatchInv == ASSUME Inv, NEW f \in File, SaveMatch(f) PROVE Inv'
<1> DEFINE d == <<"match">>
           t == Handler(f, d)
<1>1. /\ d \in Seq(Steps) /\ In(d, HandlerSteps) /\ Lacks(d, "unbind")
      /\ Lacks(d, "drop") /\ Lacks(d, "bind") /\ Lacks(d, "status")
  BY DEF In, Lacks, HandlerSteps, Steps
<1>2. Call("match", t)
  BY DEF SaveMatch
<1> HIDE DEF d
<1>3. t \in Task /\ t.todo = d /\ t.file = f /\ t.status = "ready"
  BY <1>1, HandlerTask
<1> HIDE DEF t
<1> QED
  BY <1>1, <1>2, <1>3, HandlerSound, Called DEF Named

LEMMA RuleCheckInv == ASSUME Inv, RuleCheck PROVE Inv'
<1> DEFINE d == <<"check">>
           files == {f \in File : Bound(f)}
           h == Handler(None, d)
           t == [h EXCEPT !.files = files]
<1>1. /\ d \in Seq(Steps) /\ In(d, HandlerSteps) /\ Lacks(d, "unbind")
      /\ Lacks(d, "drop") /\ Lacks(d, "bind") /\ Lacks(d, "status")
      /\ In(d, Fileless)
  BY DEF In, Lacks, HandlerSteps, Steps, Fileless
<1>2. Call("check", t)
  BY DEF RuleCheck
<1> HIDE DEF d
<1>h. h \in Task /\ h.todo = d /\ h.file = None /\ h.status = "ready"
  BY <1>1, HandlerTask
<1> HIDE DEF h
<1>3. t \in Task /\ t.todo = d /\ t.status = "ready"
  <2>1. files \in SUBSET File
    OBVIOUS
  <2> HIDE DEF files
  <2> QED
    BY <1>1, <2>1, <1>h DEF Task
<1> HIDE DEF t, files
<1> QED
  BY <1>1, <1>2, <1>3, HandlerSound, Called DEF Named

LEMMA ReprocessInv == ASSUME Inv, NEW f \in File, Reprocess(f) PROVE Inv'
<1> DEFINE d == <<"reprocess">>
           row == binding[f]
           h == Handler(f, d)
           t == [h EXCEPT !.layers = row.layers, !.tab = row.tab,
                                      !.unit = row.unit]
<1>1. /\ d \in Seq(Steps) /\ In(d, HandlerSteps) /\ Lacks(d, "unbind")
      /\ Lacks(d, "drop") /\ Lacks(d, "bind") /\ Lacks(d, "status")
  BY DEF In, Lacks, HandlerSteps, Steps
<1>2. Call("reprocess", t)
  BY DEF Reprocess
<1>3. row \in Binding
  BY DEF Inv, TypeOK
<1> HIDE DEF row, d
<1>h. h \in Task /\ h.todo = d /\ h.file = f /\ h.status = "ready"
  BY <1>1, HandlerTask
<1> HIDE DEF h
<1>4. t \in Task /\ t.todo = d /\ t.file = f /\ t.status = "ready"
  BY <1>1, <1>3, <1>h DEF Task, Binding
<1> HIDE DEF t
<1> QED
  BY <1>1, <1>2, <1>4, HandlerSound, Called DEF Named

-----------------------------------------------------------------------------

Special == {"flatten", "load", "parsed", "manifest", "layouts"}

LEMMA Standing ==
  ASSUME Inv, NEW x \in TaskId, NEW s, At(x, s)
  PROVE  /\ task[x] \in Task /\ Sound(task[x], blob) /\ Role(x, task[x])
         /\ task[x].todo # <<>> /\ Head(task[x].todo) = s
         /\ s \notin Fileless => task[x].file \in File
         /\ s \in {"unbind", "drop"} => task[x].victim \in File
         /\ s \notin HandlerSteps => x \in JobId
         /\ s \notin JobSteps => x \notin JobId
         /\ x \in JobId => job[x].state # "unborn"
<1>1. /\ task[x] \in Task /\ Sound(task[x], blob) /\ Role(x, task[x])
      /\ task[x].todo # <<>> /\ Head(task[x].todo) = s
  BY DEF Inv, TasksOK, Sound, At
<1>2. task[x].todo \in Seq(Steps)
  BY <1>1 DEF Task
<1>3. 1 \in 1..Len(task[x].todo) /\ task[x].todo[1] = s
  BY <1>1, <1>2, TailSteps
<1>4. Named(task[x])
  BY <1>1 DEF Sound
<1>5. s \notin Fileless => task[x].file \in File
  BY <1>3, <1>4 DEF Named, In
<1>6. s \in {"unbind", "drop"} => task[x].victim \in File
  BY <1>3, <1>4 DEF Named, Lacks
<1>7. s \notin HandlerSteps => x \in JobId
  BY <1>1, <1>3 DEF Role, In, TaskId
<1>8. s \notin JobSteps => x \notin JobId
  BY <1>1, <1>3 DEF Role, In
<1>9. x \in JobId => job[x].state # "unborn"
  BY <1>1, IdleSound DEF Inv, JobsOK
<1> QED
  BY <1>1, <1>5, <1>6, <1>7, <1>8, <1>9

LEMMA RowWritten ==
  ASSUME Inv, NEW x \in TaskId, NEW s, At(x, s), s \notin Special, Continue(x),
         UNCHANGED <<blob, verdict, signed, job, calls, faults>>,
         binding' \in [File -> Binding], StatusHasArtefact'
  PROVE  Inv'
<1>1. /\ task[x] \in Task /\ Sound(task[x], blob) /\ Role(x, task[x])
      /\ task[x].todo # <<>> /\ Head(task[x].todo) = s
      /\ x \in JobId => job[x].state # "unborn"
  BY Standing
<1>2. Covered(task[x], blob')
  BY <1>1 DEF Covered, Special
<1>3. /\ task' \in [TaskId -> Task]
      /\ TasksOK'
      /\ \A y \in TaskId : y # x => task'[y] = task[y]
  BY <1>1, <1>2, Moved, GrowsSame DEF Continue
<1>4. JobsOK'
  BY <1>1, <1>3, JobsStay
<1> QED
  BY <1>3, <1>4 DEF Inv, TypeOK

(* A column other than the status.                                         *)
LEMMA ColumnInv ==
  ASSUME Inv, NEW x \in TaskId, NEW s, At(x, s), s \notin Special,
         NEW field, NEW value, Column(x, field, value), task[x].file \in File,
         \/ field = "layers" /\ value \in Layers \cup {None}
         \/ field = "tab" /\ value \in Tab \cup {None}
         \/ field = "unit" /\ value \in Unit \cup {None}
         \/ field = "views" /\ value \in View \cup {None}
         \/ field = "saved" /\ value \in BOOLEAN
  PROVE  Inv'
<1> DEFINE f == task[x].file
<1>1. binding \in [File -> Binding] /\ f \in File
  BY DEF Inv, TypeOK
<1>2. binding' = [binding EXCEPT ![f][field] = value] \/ binding' = binding
  BY DEF Column, Update
<1> HIDE DEF f
<1>3. /\ binding' \in [File -> Binding]
      /\ \A g \in File : binding'[g].status = binding[g].status
  <2>1. CASE binding' = binding
    BY <1>1, <2>1
  <2>2. CASE /\ binding' = [binding EXCEPT ![f][field] = value]
             /\ field = "layers" /\ value \in Layers \cup {None}
    BY <1>1, <2>2 DEF Binding
  <2>3. CASE /\ binding' = [binding EXCEPT ![f][field] = value]
             /\ field = "tab" /\ value \in Tab \cup {None}
    BY <1>1, <2>3 DEF Binding
  <2>4. CASE /\ binding' = [binding EXCEPT ![f][field] = value]
             /\ field = "unit" /\ value \in Unit \cup {None}
    BY <1>1, <2>4 DEF Binding
  <2>5. CASE /\ binding' = [binding EXCEPT ![f][field] = value]
             /\ field = "views" /\ value \in View \cup {None}
    BY <1>1, <2>5 DEF Binding
  <2>6. CASE /\ binding' = [binding EXCEPT ![f][field] = value]
             /\ field = "saved" /\ value \in BOOLEAN
    BY <1>1, <2>6 DEF Binding
  <2> QED
    BY <1>2, <2>1, <2>2, <2>3, <2>4, <2>5, <2>6
<1>4. UNCHANGED <<blob, verdict, signed, job, calls, faults>> /\ Continue(x)
  BY DEF Column
<1>5. StatusHasArtefact'
  BY <1>3, <1>4 DEF Inv, StatusHasArtefact
<1> QED
  BY <1>3, <1>4, <1>5, RowWritten

LEMMA ColumnsInv ==
  ASSUME Inv, NEW x \in TaskId,
         \/ UpdateLayers(x) \/ SetChosenLayout(x) \/ SetUnitOverride(x)
         \/ UpdateRegions(x) \/ ClearMatchSaved(x) \/ SetMatchSaved(x)
         \/ ClearUnit(x)
  PROVE  Inv'
<1> DEFINE t == task[x]
<1>1. t \in Task
  BY DEF Inv, TypeOK
<1>2. /\ t.layers \in Layers \cup {None} /\ t.tab \in Tab \cup {None}
      /\ t.unit \in Unit \cup {None} /\ t.views \in View \cup {None}
  BY <1>1 DEF Task
<1> HIDE DEF t
<1>3. CASE UpdateLayers(x)
  <2>1. At(x, "layers") /\ Column(x, "layers", t.layers)
    BY <1>3 DEF UpdateLayers, t
  <2>2. task[x].file \in File
    BY <2>1, Standing DEF Fileless
  <2> QED
    BY <1>2, <2>1, <2>2, ColumnInv DEF Special
<1>4. CASE SetChosenLayout(x)
  <2>1. At(x, "tab") /\ Column(x, "tab", t.tab)
    BY <1>4 DEF SetChosenLayout, t
  <2>2. task[x].file \in File
    BY <2>1, Standing DEF Fileless
  <2> QED
    BY <1>2, <2>1, <2>2, ColumnInv DEF Special
<1>5. CASE SetUnitOverride(x)
  <2>1. At(x, "unit") /\ Column(x, "unit", t.unit)
    BY <1>5 DEF SetUnitOverride, t
  <2>2. task[x].file \in File
    BY <2>1, Standing DEF Fileless
  <2> QED
    BY <1>2, <2>1, <2>2, ColumnInv DEF Special
<1>6. CASE UpdateRegions(x)
  <2>1. At(x, "views") /\ Column(x, "views", t.views)
    BY <1>6 DEF UpdateRegions, t
  <2>2. task[x].file \in File
    BY <2>1, Standing DEF Fileless
  <2> QED
    BY <1>2, <2>1, <2>2, ColumnInv DEF Special
<1>7. CASE ClearMatchSaved(x)
  <2>1. At(x, "unsave") /\ Column(x, "saved", FALSE)
    BY <1>7 DEF ClearMatchSaved
  <2>2. task[x].file \in File
    BY <2>1, Standing DEF Fileless
  <2> QED
    BY <2>1, <2>2, ColumnInv DEF Special
<1>8. CASE SetMatchSaved(x)
  <2>1. At(x, "save") /\ Column(x, "saved", TRUE)
    BY <1>8 DEF SetMatchSaved
  <2>2. task[x].file \in File
    BY <2>1, Standing DEF Fileless
  <2> QED
    BY <2>1, <2>2, ColumnInv DEF Special
<1>9. CASE ClearUnit(x)
  <2>1. At(x, "autounit") /\ Column(x, "unit", None)
    BY <1>9 DEF ClearUnit
  <2>2. task[x].file \in File
    BY <2>1, Standing DEF Fileless
  <2> QED
    BY <2>1, <2>2, ColumnInv DEF Special
<1> QED
  BY <1>3, <1>4, <1>5, <1>6, <1>7, <1>8, <1>9

LEMMA FreshType ==
  ASSUME NEW status \in Statuses \cup {"unbound"}
  PROVE  Fresh(status) \in Binding /\ Fresh(status).status = status
  BY ConstantsAssumption DEF Fresh, Binding

LEMMA BindInv == ASSUME Inv, NEW x \in TaskId, Bind(x) PROVE Inv'
<1> DEFINE f == task[x].file
           r == Fresh(task[x].status)
<1>1. At(x, "bind") /\ binding' = [binding EXCEPT ![f] = r] /\ Continue(x)
      /\ UNCHANGED <<blob, verdict, signed, job, calls, faults>>
  BY DEF Bind
<1>2. /\ task[x] \in Task /\ f \in File /\ Sound(task[x], blob)
      /\ task[x].todo # <<>> /\ Head(task[x].todo) = "bind"
  BY <1>1, Standing DEF Fileless
<1>3. task[x].status \in Busy
  <2>1. ~Lacks(task[x].todo, "bind")
    BY <1>2, TailSteps DEF Lacks, Task
  <2> QED
    BY <1>2, <2>1 DEF Sound, Offered, Busy
<1>4. r \in Binding /\ r.status \in Busy
  BY <1>3, FreshType DEF Busy, Statuses
<1>5. binding \in [File -> Binding]
  BY DEF Inv, TypeOK
<1> HIDE DEF f, r
<1>6. /\ binding' \in [File -> Binding] /\ binding'[f].status \in Busy
      /\ \A g \in File : g # f => binding'[g] = binding[g]
  BY <1>1, <1>2, <1>4, <1>5
<1>7. StatusHasArtefact'
  BY <1>1, <1>6 DEF Inv, StatusHasArtefact, Busy
<1> QED
  BY <1>1, <1>6, <1>7, RowWritten DEF Special

LEMMA UnbindInv == ASSUME Inv, NEW x \in TaskId, Unbind(x) PROVE Inv'
<1> DEFINE f == task[x].victim
           r == Fresh("unbound")
<1>1. At(x, "unbind") /\ binding' = [binding EXCEPT ![f] = r] /\ Continue(x)
      /\ UNCHANGED <<blob, verdict, signed, job, calls, faults>>
  BY DEF Unbind
<1>2. f \in File
  BY <1>1, Standing
<1>3. r \in Binding /\ r.status = "unbound"
  BY FreshType
<1>4. binding \in [File -> Binding]
  BY DEF Inv, TypeOK
<1> HIDE DEF f, r
<1>5. /\ binding' \in [File -> Binding] /\ binding'[f].status = "unbound"
      /\ \A g \in File : g # f => binding'[g] = binding[g]
  BY <1>1, <1>2, <1>3, <1>4
<1>6. StatusHasArtefact'
  BY <1>1, <1>5 DEF Inv, StatusHasArtefact
<1> QED
  BY <1>1, <1>5, <1>6, RowWritten DEF Special

LEMMA UpdateStatusInv == ASSUME Inv, NEW x \in TaskId, UpdateStatus(x) PROVE Inv'
<1> DEFINE f == task[x].file
           s == task[x].status
<1>1. At(x, "status") /\ Update(f, "status", s) /\ Continue(x)
      /\ UNCHANGED <<blob, verdict, signed, job, calls, faults>>
  BY DEF UpdateStatus, Column
<1>2. /\ task[x] \in Task /\ f \in File /\ Sound(task[x], blob)
      /\ task[x].todo # <<>> /\ Head(task[x].todo) = "status"
  BY <1>1, Standing DEF Fileless
<1>3. /\ s \in Statuses /\ s # "ready"
      /\ s = "awaiting_layers" => blob[f].manifest
      /\ s = "awaiting_layout" => blob[f].layouts
  <2>1. ~Lacks(task[x].todo, "status")
    BY <1>2, TailSteps DEF Lacks, Task
  <2>2. 1 \in 1..Len(task[x].todo) /\ task[x].todo[1] = "status"
    BY <1>2, TailSteps DEF Task
  <2>3. \A p : ~Needs(task[x].todo, "status", p)
    BY <2>2 DEF Needs
  <2> QED
    BY <1>2, <2>1, <2>3 DEF Sound, Offered, Task
<1>4. binding \in [File -> Binding]
  BY DEF Inv, TypeOK
<1>5. binding' = [binding EXCEPT ![f]["status"] = s] \/ binding' = binding
  BY <1>1 DEF Update
<1> HIDE DEF f, s
<1>6. \/ binding' = binding
      \/ /\ binding' \in [File -> Binding] /\ binding'[f].status = s
         /\ \A g \in File : g # f => binding'[g] = binding[g]
  BY <1>2, <1>3, <1>4, <1>5 DEF Binding
<1>7. StatusHasArtefact'
  BY <1>1, <1>3, <1>6 DEF Inv, StatusHasArtefact
<1>8. binding' \in [File -> Binding]
  BY <1>4, <1>6
<1> QED
  BY <1>1, <1>7, <1>8, RowWritten DEF Special

LEMMA HeadConcat ==
  ASSUME NEW d \in Seq(Steps), NEW e \in Seq(Steps), d # <<>>
  PROVE  d \o e # <<>> /\ Head(d \o e) = Head(d)
<1>1. Len(d) >= 1 /\ Len(d) \in Nat /\ Len(e) \in Nat /\ Len(d \o e) = Len(d) + Len(e)
  OBVIOUS
<1>2. (d \o e)[1] = d[1]
  BY <1>1
<1> QED
  BY <1>1, <1>2

PublishSteps == {"publish", "tab", "unmatch", "unsave", "autounit"}

(* What a publish leaves to do: the fix-ups it found, then the rest.       *)
LEMMA PublishShape ==
  ASSUME Inv, NEW x \in TaskId, Publish(x)
  PROVE  /\ task[x].got \in Drawing /\ blob[task[x].file].parsed # None
         /\ \E P \in Seq(Steps), u \in Task :
              /\ In(P, PublishSteps) /\ P # <<>> /\ Head(P) = "publish"
              /\ Then(x, u) /\ u.todo = P \o Tail(task[x].todo)
              /\ u.file = task[x].file /\ u.victim = task[x].victim
              /\ u.got = task[x].got /\ u.status = task[x].status
<1> DEFINE t == task[x]
           f == t.file
           prior == IF Bound(f) THEN binding[f].scale ELSE Millimetre
           pin == IF t.got.tab # None THEN <<"tab">> ELSE <<>>
           drop == IF prior # t.got.scale THEN <<"unmatch", "unsave">> ELSE <<>>
           clear == IF t.unit = Detected THEN <<"autounit">> ELSE <<>>
           tab == IF t.got.tab # None THEN t.got.tab ELSE t.tab
           P == <<"publish">> \o pin \o drop \o clear
           d == P \o Tail(t.todo)
           u == [t EXCEPT !.tab = tab, !.todo = d]
           S == PublishSteps
<1>1. At(x, "publish") /\ Then(x, u)
  BY DEF Publish
<1>2. /\ t \in Task /\ Sound(t, blob) /\ t.todo # <<>>
      /\ Head(t.todo) = "publish"
  BY <1>1, Standing
<1>3. t.todo \in Seq(Steps) /\ Tail(t.todo) \in Seq(Steps)
  BY <1>2, TailSteps DEF Task
<1>4. t.got \in Drawing /\ blob[f].parsed # None
  <2>1. 1 \in 1..Len(t.todo) /\ t.todo[1] = "publish"
    BY <1>2, <1>3, TailSteps
  <2>2. \A p : ~Needs(t.todo, "publish", p)
    BY <2>1 DEF Needs
  <2> QED
    BY <1>2, <2>2 DEF Sound, Drawn, Parsed
<1>5. tab \in Tab \cup {None}
  BY <1>2, <1>4 DEF Drawing, Task
<1>6. P \in Seq(Steps) /\ In(P, S) /\ P # <<>> /\ Head(P) = "publish"
  <2>1. /\ <<>> \in Seq(Steps) /\ <<"publish">> \in Seq(Steps)
        /\ <<"tab">> \in Seq(Steps) /\ <<"unmatch", "unsave">> \in Seq(Steps)
        /\ <<"autounit">> \in Seq(Steps)
    BY DEF Steps
  <2>2. /\ pin \in Seq(Steps) /\ drop \in Seq(Steps) /\ clear \in Seq(Steps)
    BY <2>1, Zenon
  <2>3. In(<<"publish">>, S) /\ In(pin, S) /\ In(drop, S) /\ In(clear, S)
    BY DEF In, PublishSteps
  <2>4. <<"publish">> # <<>> /\ Head(<<"publish">>) = "publish"
    OBVIOUS
  <2> DEFINE q == <<"publish">>
  <2> HIDE DEF pin, drop, clear, S, q
  <2>5. q \o pin \in Seq(Steps) /\ In(q \o pin, S)
        /\ q \o pin # <<>> /\ Head(q \o pin) = "publish"
    BY <2>1, <2>2, <2>3, <2>4, InConcat, HeadConcat DEF q
  <2>6. q \o pin \o drop \in Seq(Steps) /\ In(q \o pin \o drop, S)
        /\ q \o pin \o drop # <<>> /\ Head(q \o pin \o drop) = "publish"
    BY <2>2, <2>3, <2>5, InConcat, HeadConcat
  <2>7. q \o pin \o drop \o clear \in Seq(Steps) /\ In(q \o pin \o drop \o clear, S)
        /\ q \o pin \o drop \o clear # <<>> /\ Head(q \o pin \o drop \o clear) = "publish"
    BY <2>2, <2>3, <2>6, InConcat, HeadConcat
  <2> QED
    BY <2>7 DEF q
<1> HIDE DEF P, tab, S
<1>7. d \in Seq(Steps)
  BY <1>3, <1>6
<1> HIDE DEF d
<1>8. /\ u \in Task /\ u.todo = d /\ u.file = f /\ u.victim = t.victim
      /\ u.got = t.got /\ u.status = t.status
  BY <1>2, <1>5, <1>7 DEF Task
<1> HIDE DEF u
<1> QED
  BY <1>1, <1>4, <1>6, <1>8 DEF d, S

(* Where it leaves the rows.                                               *)
LEMMA PublishRows ==
  ASSUME Inv, NEW x \in TaskId, Publish(x)
  PROVE  /\ binding' \in [File -> Binding]
         /\ \A g \in File : g # task[x].file => binding'[g] = binding[g]
         /\ \A g \in File : g = task[x].file =>
              \/ binding'[g].status = "ready"
              \/ binding' = binding /\ binding'[g].status = "unbound"
<1> DEFINE f == task[x].file
           scale == task[x].got.scale
<1>1. binding' = IF Bound(f)
                 THEN [binding EXCEPT ![f].status = "ready", ![f].scale = scale]
                 ELSE binding
  BY DEF Publish
<1>2. binding \in [File -> Binding] /\ f \in File
  <2>1. At(x, "publish")
    BY DEF Publish
  <2> QED
    BY <2>1, Standing DEF Inv, TypeOK, Fileless
<1>3. scale \in Unit
  BY PublishShape DEF Drawing
<1> HIDE DEF f, scale
<1>4. CASE Bound(f)
  <2>1. binding' = [binding EXCEPT ![f].status = "ready", ![f].scale = scale]
    BY <1>1, <1>4
  <2>2. binding' \in [File -> Binding] /\ binding'[f].status = "ready"
    BY <1>2, <1>3, <2>1 DEF Binding, Statuses
  <2>3. \A g \in File : g # f => binding'[g] = binding[g]
    BY <1>2, <2>1
  <2> QED
    BY <2>2, <2>3 DEF f
<1>5. CASE ~Bound(f)
  BY <1>1, <1>2, <1>5 DEF Bound, f
<1> QED
  BY <1>4, <1>5

LEMMA PublishInv == ASSUME Inv, NEW x \in TaskId, Publish(x) PROVE Inv'
<1> DEFINE t == task[x]
<1>1. At(x, "publish") /\ UNCHANGED <<blob, verdict, signed, job, calls, faults>>
  BY DEF Publish
<1>2. /\ t \in Task /\ Sound(t, blob) /\ Role(x, t) /\ t.todo # <<>>
      /\ Head(t.todo) = "publish" /\ t.file \in File /\ x \in JobId
      /\ job[x].state # "unborn"
  BY <1>1, Standing DEF Fileless, HandlerSteps
<1>3. t.todo \in Seq(Steps) /\ Tail(t.todo) \in Seq(Steps)
  BY <1>2, TailSteps DEF Task
<1>4. t.got \in Drawing /\ blob[t.file].parsed # None
  BY PublishShape
<1>5. PICK P \in Seq(Steps), u \in Task :
        /\ In(P, PublishSteps) /\ P # <<>> /\ Head(P) = "publish"
        /\ Then(x, u) /\ u.todo = P \o Tail(t.todo)
        /\ u.file = t.file /\ u.victim = t.victim
        /\ u.got = t.got /\ u.status = t.status
  BY PublishShape
<1> DEFINE d == P \o Tail(t.todo)
<1>6. d \in Seq(Steps) /\ In(d, JobSteps) /\ d # <<>> /\ Head(d) = "publish"
  <2>1. In(Tail(t.todo), JobSteps)
    BY <1>2, <1>3, InTail DEF Role
  <2>2. In(P, JobSteps)
    BY <1>5 DEF In, PublishSteps, JobSteps
  <2> QED
    BY <1>3, <1>5, <2>1, <2>2, InConcat, HeadConcat
<1>7. /\ \A p : p # "publish" /\ Needs(t.todo, "status", p) => Needs(d, "status", p)
      /\ Lacks(t.todo, "status") => Lacks(d, "status")
      /\ Lacks(d, "bind") /\ Lacks(d, "unbind") /\ Lacks(d, "drop")
  <2>1. Lacks(P, "status")
    BY <1>5 DEF In, Lacks, PublishSteps
  <2>2. \A p : Needs(P, "status", p)
    BY <2>1, NeedsLacking
  <2>3. \A p : p # "publish" /\ Needs(t.todo, "status", p) => Needs(Tail(t.todo), "status", p)
    BY <1>2, <1>3, NeedsTail
  <2>4. Lacks(t.todo, "status") => Lacks(Tail(t.todo), "status")
    BY <1>2, <1>3, LacksTail
  <2>5. Lacks(d, "bind") /\ Lacks(d, "unbind") /\ Lacks(d, "drop")
    BY <1>6 DEF In, Lacks, JobSteps
  <2> QED
    BY <1>3, <2>1, <2>2, <2>3, <2>4, <2>5, NeedsConcat, LacksConcat
<1> HIDE DEF d
<1>8. u.todo = d
  BY <1>5 DEF d
<1>9. Sound(u, blob')
  <2>1. Named(u)
    BY <1>2, <1>5, <1>7, <1>8 DEF Named
  <2>2. Drawn(u)
    BY <1>4, <1>5 DEF Drawn
  <2>3. Parsed(u, blob')
    BY <1>1, <1>4, <1>5 DEF Parsed
  <2>4. Offered(u, blob')
    BY <1>1, <1>2, <1>5, <1>7, <1>8 DEF Sound, Offered
  <2> QED
    BY <2>1, <2>2, <2>3, <2>4 DEF Sound
<1>10. Role(x, u) /\ Covered(u, blob')
  <2>1. x \notin Request
    BY <1>2, ConstantsAssumption DEF JobId
  <2> QED
    BY <2>1, <1>6, <1>8 DEF Role, Covered
<1>11. /\ task' \in [TaskId -> Task]
       /\ TasksOK'
       /\ \A y \in TaskId : y # x => task'[y] = task[y]
  BY <1>1, <1>5, <1>6, <1>8, <1>9, <1>10, Moved, GrowsSame
<1>12. JobsOK'
  BY <1>1, <1>2, <1>11, JobsStay
<1>13. StatusHasArtefact'
  BY <1>1, <1>4, PublishRows DEF Inv, StatusHasArtefact
<1>14. binding' \in [File -> Binding]
  BY PublishRows
<1> QED
  BY <1>1, <1>11, <1>12, <1>13, <1>14 DEF Inv, TypeOK

LEMMA RowStepInv == ASSUME Inv, NEW x \in TaskId, RowStep(x) PROVE Inv'
  BY BindInv, UnbindInv, UpdateStatusInv, ColumnsInv, PublishInv DEF RowStep

-----------------------------------------------------------------------------

(* A step that only reads leaves the task u to go on with.                 *)
Reads(x, u) == /\ Then(x, u) /\ u \in Task
               /\ u.todo = task[x].todo /\ u.file = task[x].file
               /\ u.victim = task[x].victim /\ u.status = task[x].status

LEMMA ReadInv ==
  ASSUME Inv, NEW x \in TaskId, NEW s, At(x, s), NEW u, Reads(x, u),
         \/ u.got = task[x].got /\ s \notin {"flatten", "load"}
         \/ u.got \in Drawing,
         s \notin {"parsed", "manifest", "layouts"},
         UNCHANGED <<binding, blob, verdict, signed, job, calls, faults>>
  PROVE  Inv'
<1>1. /\ task[x] \in Task /\ Sound(task[x], blob) /\ Role(x, task[x])
      /\ task[x].todo # <<>> /\ Head(task[x].todo) = s
      /\ x \in JobId => job[x].state # "unborn"
  BY Standing
<1>2. Sound(u, blob')
  BY <1>1 DEF Sound, Named, Drawn, Parsed, Offered, Reads
<1>3. Role(x, u) /\ Covered(u, blob') /\ u.todo # <<>>
  <2>1. Role(x, u) /\ u.todo # <<>> /\ Head(u.todo) = s
    BY <1>1 DEF Role, Reads
  <2>2. s \in {"flatten", "load"} => u.got \in Drawing
    OBVIOUS
  <2> QED
    BY <2>1, <2>2 DEF Covered
<1>4. /\ task' \in [TaskId -> Task]
      /\ TasksOK'
      /\ \A y \in TaskId : y # x => task'[y] = task[y]
  BY <1>2, <1>3, Moved, GrowsSame DEF Reads
<1>5. JobsOK'
  BY <1>1, <1>4, JobsStay
<1> QED
  BY <1>4, <1>5, Stays DEF Inv, TypeOK

LEMMA StopInv ==
  ASSUME Inv, NEW x \in TaskId, Stop(x), faults' \in Nat,
         UNCHANGED <<binding, blob, verdict, signed, job, calls>>
  PROVE  Inv'
<1>1. /\ task' \in [TaskId -> Task]
      /\ TasksOK' /\ task'[x] = Idle
      /\ \A y \in TaskId : y # x => task'[y] = task[y]
  BY IdleSound, RoleIdle, Replaced, GrowsSame DEF Stop
<1>2. JobsOK'
  BY <1>1 DEF Inv, JobsOK, TaskId
<1> QED
  BY <1>1, <1>2, Stays DEF Inv, TypeOK

LEMMA FindInflightInv == ASSUME Inv, NEW x \in TaskId, FindInflight(x) PROVE Inv'
<1>1. CASE Stop(x)
  BY <1>1, StopInv DEF FindInflight, Inv, TypeOK
<1>2. CASE Continue(x)
  <2>1. task[x] \in Task
    BY DEF Inv, TypeOK
  <2> QED
    BY <1>2, <2>1, ReadInv DEF FindInflight, Continue, Reads
<1> QED
  BY <1>1, <1>2 DEF FindInflight

LEMMA RereadShape ==
  ASSUME Inv, NEW x \in TaskId, Reread(x)
  PROVE  (\E u : Reads(x, u) /\ u.got = task[x].got) \/ Stop(x)
<1> DEFINE t == task[x]
           row == binding[t.file]
           u == [t EXCEPT !.layers = row.layers, !.tab = row.tab]
<1>1. At(x, "reread") /\ UNCHANGED <<binding, blob, verdict, signed, job, calls, faults>>
      /\ (Then(x, u) \/ Stop(x))
  BY DEF Reread
<1>2. t \in Task /\ t.file \in File
  BY <1>1, Standing DEF Fileless
<1>3. row \in Binding
  BY <1>2 DEF Inv, TypeOK
<1> HIDE DEF row
<1>4. /\ u \in Task /\ u.todo = t.todo /\ u.file = t.file
      /\ u.victim = t.victim /\ u.status = t.status /\ u.got = t.got
  BY <1>2, <1>3 DEF Task, Binding
<1> QED
  BY <1>1, <1>4 DEF Reads

LEMMA RereadInv == ASSUME Inv, NEW x \in TaskId, Reread(x) PROVE Inv'
<1>1. At(x, "reread") /\ UNCHANGED <<binding, blob, verdict, signed, job, calls, faults>>
  BY DEF Reread
<1>2. ASSUME NEW u, Reads(x, u), u.got = task[x].got PROVE Inv'
  BY <1>1, <1>2, ReadInv
<1>3. CASE Stop(x)
  BY <1>1, <1>3, StopInv DEF Inv, TypeOK
<1> QED
  BY <1>2, <1>3, RereadShape

LEMMA ResolveShape ==
  ASSUME Inv, NEW x \in TaskId, Resolve(x)
  PROVE  \E u : Reads(x, u) /\ u.got = task[x].got
<1> DEFINE t == task[x]
           row == binding[t.file]
           unit == IF t.unit = None THEN row.unit ELSE t.unit
           tab == IF t.tab = None THEN row.tab ELSE t.tab
           u == [t EXCEPT !.unit = unit, !.tab = tab]
<1>1. At(x, "resolve") /\ UNCHANGED <<binding, blob, verdict, signed, job, calls, faults>>
      /\ Then(x, u)
  BY DEF Resolve
<1>2. t \in Task /\ t.file \in File
  BY <1>1, Standing DEF Fileless
<1>3. row \in Binding
  BY <1>2 DEF Inv, TypeOK
<1> HIDE DEF row
<1>4. unit \in Unit \cup {None} /\ tab \in Tab \cup {None}
  BY <1>2, <1>3 DEF Task, Binding
<1> HIDE DEF unit, tab
<1>5. /\ u \in Task /\ u.todo = t.todo /\ u.file = t.file
      /\ u.victim = t.victim /\ u.status = t.status /\ u.got = t.got
  BY <1>2, <1>4 DEF Task
<1> QED
  BY <1>1, <1>5 DEF Reads

LEMMA ResolveInv == ASSUME Inv, NEW x \in TaskId, Resolve(x) PROVE Inv'
<1>1. At(x, "resolve") /\ UNCHANGED <<binding, blob, verdict, signed, job, calls, faults>>
  BY DEF Resolve
<1> QED
  BY <1>1, ResolveShape, ReadInv

LEMMA EnqueueInv ==
  ASSUME Inv, NEW x \in TaskId, NEW s, At(x, s), s \notin Special,
         NEW payload \in Job, payload.kind # "check" => payload.file \in File,
         payload.state = "queued", Enqueue(x, payload)
  PROVE  Inv'
<1>1. /\ Continue(x)
      /\ UNCHANGED <<binding, blob, verdict, signed, calls, faults>>
  BY DEF Enqueue
<1>2. PICK j \in JobId : job' = [job EXCEPT ![j] = payload]
  BY DEF Enqueue
<1>3. /\ task[x] \in Task /\ Sound(task[x], blob) /\ Role(x, task[x])
      /\ task[x].todo # <<>> /\ Head(task[x].todo) = s
      /\ x \in JobId => job[x].state # "unborn"
  BY Standing
<1>4. Covered(task[x], blob')
  BY <1>3 DEF Covered, Special
<1>5. /\ task' \in [TaskId -> Task]
      /\ TasksOK'
      /\ \A y \in TaskId : y # x => task'[y] = task[y]
  BY <1>1, <1>3, <1>4, Moved, GrowsSame DEF Continue
<1>6. job \in [JobId -> Job]
  BY DEF Inv, TypeOK
<1>7. /\ job' \in [JobId -> Job] /\ job'[j] = payload
      /\ \A i \in JobId : i # j => job'[i] = job[i]
  BY <1>2, <1>6
<1>8. JobsOK'
  <2> SUFFICES ASSUME NEW i \in JobId
               PROVE  /\ job'[i].state # "unborn" /\ job'[i].kind # "check"
                           => job'[i].file \in File
                      /\ task'[i] # Idle => job'[i].state # "unborn"
    BY DEF JobsOK
  <2>1. CASE i = j
    BY <1>7, <2>1
  <2>2. CASE i # j
    BY <1>3, <1>5, <1>7, <2>2 DEF Inv, JobsOK, TaskId
  <2> QED
    BY <2>1, <2>2
<1> QED
  BY <1>1, <1>5, <1>7, <1>8, Stays DEF Inv, TypeOK

LEMMA QueuedType ==
  ASSUME NEW x \in TaskId, task[x].file \in File \cup {None}, NEW kind \in Kinds
  PROVE  /\ Queued(x, kind) \in Job /\ Queued(x, kind).state = "queued"
         /\ Queued(x, kind).kind = kind /\ Queued(x, kind).file = task[x].file
  BY DEF Queued, NoJob, Job, Kinds

LEMMA EnqueuesInv ==
  ASSUME Inv, NEW x \in TaskId,
         \/ EnqueueDiscover(x) \/ EnqueuePreprocess(x, "preprocess", TRUE)
         \/ EnqueuePreprocess(x, "reprocess", FALSE)
         \/ EnqueueMatch(x) \/ EnqueueCheck(x)
  PROVE  Inv'
<1> DEFINE t == task[x]
<1>1. t \in Task
  BY DEF Inv, TypeOK
<1>2. /\ t.tab \in Tab \cup {None} /\ t.layers \in Layers \cup {None}
      /\ t.unit \in Unit \cup {None} /\ t.files \in SUBSET File
      /\ t.file \in File \cup {None}
  BY <1>1 DEF Task
<1> HIDE DEF t
<1>3. CASE EnqueueDiscover(x)
  <2> DEFINE q == Queued(x, "discover")
             p == [q EXCEPT !.tab = t.tab]
  <2>1. At(x, "discover") /\ Enqueue(x, p)
    BY <1>3 DEF EnqueueDiscover, t
  <2>2. q \in Job /\ q.state = "queued" /\ q.kind = "discover" /\ q.file = t.file
    BY <1>2, QueuedType DEF Kinds, t
  <2>3. t.file \in File
    BY <2>1, Standing DEF Fileless, t
  <2> HIDE DEF q
  <2>4. p \in Job /\ p.state = "queued" /\ p.kind = "discover" /\ p.file = t.file
    BY <1>2, <2>2 DEF Job
  <2> HIDE DEF p
  <2> QED
    BY <2>1, <2>3, <2>4, EnqueueInv DEF Special
<1>4. ASSUME NEW s \in {"preprocess", "reprocess"}, NEW c \in BOOLEAN,
             EnqueuePreprocess(x, s, c)
      PROVE  Inv'
  <2> DEFINE q == Queued(x, "preprocess")
             p == [q EXCEPT !.layers = t.layers, !.tab = t.tab,
                            !.unit = t.unit, !.cached = c]
  <2>1. At(x, s) /\ Enqueue(x, p)
    BY <1>4 DEF EnqueuePreprocess, t
  <2>2. q \in Job /\ q.state = "queued" /\ q.kind = "preprocess" /\ q.file = t.file
    BY <1>2, QueuedType DEF Kinds, t
  <2>3. t.file \in File
    BY <2>1, Standing DEF Fileless, t
  <2> HIDE DEF q
  <2>4. p \in Job /\ p.state = "queued" /\ p.kind = "preprocess" /\ p.file = t.file
    BY <1>2, <2>2 DEF Job
  <2> HIDE DEF p
  <2> QED
    BY <2>1, <2>3, <2>4, EnqueueInv DEF Special
<1>5. CASE EnqueueMatch(x)
  <2> DEFINE q == Queued(x, "match")
  <2>1. At(x, "match") /\ Enqueue(x, q)
    BY <1>5 DEF EnqueueMatch
  <2>2. q \in Job /\ q.state = "queued" /\ q.kind = "match" /\ q.file = t.file
    BY <1>2, QueuedType DEF Kinds, t
  <2>3. t.file \in File
    BY <2>1, Standing DEF Fileless, t
  <2> HIDE DEF q
  <2> QED
    BY <2>1, <2>2, <2>3, EnqueueInv DEF Special
<1>6. CASE EnqueueCheck(x)
  <2> DEFINE q == Queued(x, "check")
             p == [q EXCEPT !.files = t.files]
  <2>1. At(x, "check") /\ Enqueue(x, p)
    BY <1>6 DEF EnqueueCheck, t
  <2>2. q \in Job /\ q.state = "queued" /\ q.kind = "check"
    BY <1>2, QueuedType DEF Kinds, t
  <2> HIDE DEF q
  <2>3. p \in Job /\ p.state = "queued" /\ p.kind = "check"
    BY <1>2, <2>2 DEF Job
  <2> HIDE DEF p
  <2> QED
    BY <2>1, <2>3, EnqueueInv DEF Special
<1> QED
  BY <1>3, <1>4, <1>5, <1>6

-----------------------------------------------------------------------------

LEMMA FailingSound ==
  ASSUME Inv, NEW j \in JobId, job[j].state # "unborn", NEW b
  PROVE  /\ Sound(Failing(j), b) /\ Role(j, Failing(j))
         /\ Failing(j).todo # <<>> /\ Failing(j) # Idle
<1>1. j \notin Request
  BY ConstantsAssumption DEF JobId
<1>2. CASE job[j].kind \in {"discover", "preprocess"}
  <2> DEFINE d == <<"status", "fail">>
             t == [Idle EXCEPT !.file = job[j].file, !.status = "error", !.todo = d]
  <2>1. Failing(j) = t
    BY <1>2 DEF Failing
  <2>2. /\ d \in Seq(Steps) /\ In(d, JobSteps) /\ Lacks(d, "unbind")
        /\ Lacks(d, "drop") /\ Lacks(d, "bind") /\ Lacks(d, "parsed")
        /\ Lacks(d, "publish") /\ Lacks(d, "result") /\ d # <<>>
    BY DEF In, Lacks, JobSteps, Steps
  <2>3. job[j].file \in File
    BY <1>2 DEF Inv, JobsOK
  <2> HIDE DEF d
  <2>4. t \in Task /\ t.todo = d /\ t.file \in File /\ t.status = "error"
    BY <2>2, <2>3, IdleSound DEF Task, Statuses
  <2> HIDE DEF t
  <2>5. \A p : Needs(d, "parsed", p) /\ Needs(d, "publish", p) /\ Needs(d, "result", p)
    BY <2>2, NeedsLacking
  <2>6. Sound(t, b)
    BY <2>2, <2>4, <2>5 DEF Sound, Named, Drawn, Parsed, Offered
  <2> QED
    BY <1>1, <2>1, <2>2, <2>4, <2>6, IdleSound DEF Role
<1>3. CASE job[j].kind \notin {"discover", "preprocess"}
  <2> DEFINE d == <<"fail">>
             t == [Idle EXCEPT !.todo = d]
  <2>1. Failing(j) = t
    BY <1>3 DEF Failing
  <2>2. /\ d \in Seq(Steps) /\ In(d, JobSteps) /\ Lacks(d, "unbind")
        /\ Lacks(d, "drop") /\ Lacks(d, "bind") /\ Lacks(d, "parsed")
        /\ Lacks(d, "publish") /\ Lacks(d, "result") /\ Lacks(d, "status")
        /\ In(d, Fileless) /\ d # <<>>
    BY DEF In, Lacks, JobSteps, Steps, Fileless
  <2> HIDE DEF d
  <2>3. t \in Task /\ t.todo = d /\ t.status = "ready"
    <3>1. Idle.status = "ready" /\ Idle \in Task
      BY IdleSound DEF Idle
    <3> QED
      BY <2>2, <3>1 DEF Task
  <2> HIDE DEF t
  <2>4. \A p : Needs(d, "parsed", p) /\ Needs(d, "publish", p) /\ Needs(d, "result", p)
    BY <2>2, NeedsLacking
  <2>5. Sound(t, b)
    BY <2>2, <2>3, <2>4 DEF Sound, Named, Drawn, Parsed, Offered
  <2> QED
    BY <1>1, <2>1, <2>2, <2>3, <2>5, IdleSound DEF Role
<1> QED
  BY <1>2, <1>3

LEMMA FailInv ==
  ASSUME Inv, NEW j \in JobId, job[j].state # "unborn", Fail(j), faults' \in Nat,
         UNCHANGED <<binding, blob, verdict, signed, job, calls>>
  PROVE  Inv'
<1>1. j \in TaskId
  BY DEF TaskId
<1>2. /\ task' \in [TaskId -> Task]
      /\ TasksOK'
      /\ \A y \in TaskId : y # j => task'[y] = task[y]
  BY <1>1, FailingSound, Replaced, GrowsSame DEF Fail
<1>3. JobsOK'
  BY <1>1, <1>2, JobsStay
<1> QED
  BY <1>2, <1>3, Stays DEF Inv, TypeOK

LEMMA BlobWritten ==
  ASSUME Inv, NEW x \in TaskId, NEW s, At(x, s), Continue(x),
         blob' \in [File -> Blobs], Grows(blob, blob'), Covered(task[x], blob'),
         UNCHANGED <<binding, verdict, signed, job, calls, faults>>
  PROVE  Inv'
<1>1. /\ task[x] \in Task /\ Sound(task[x], blob) /\ Role(x, task[x])
      /\ task[x].todo # <<>> /\ Head(task[x].todo) = s
      /\ x \in JobId => job[x].state # "unborn"
  BY Standing
<1>2. Sound(task[x], blob')
  BY <1>1, SoundGrows
<1>3. /\ task' \in [TaskId -> Task]
      /\ TasksOK'
      /\ \A y \in TaskId : y # x => task'[y] = task[y]
  BY <1>1, <1>2, Moved DEF Continue
<1>4. JobsOK'
  BY <1>1, <1>3, JobsStay
<1>5. StatusHasArtefact'
  BY DEF Inv, StatusHasArtefact, Grows
<1> QED
  BY <1>3, <1>4, <1>5 DEF Inv, TypeOK

LEMMA FlattenedType ==
  ASSUME NEW f \in File, NEW tab \in Tab \cup {None}, NEW unit \in Unit \cup {None}
  PROVE  Flattened(f, tab, unit) \in Drawing
<1>1. PaperTabs[f] \in SUBSET Tab
  BY ConstantsAssumption
<1>2. PaperTabs[f] # {} => (CHOOSE t \in PaperTabs[f] : TRUE) \in Tab
  BY <1>1
<1>3. RenderedTab(f, tab) \in Tab \cup {None}
  BY <1>2 DEF RenderedTab
<1>4. (IF unit = None THEN Detected ELSE unit) \in Unit
  BY ConstantsAssumption
<1> QED
  BY <1>3, <1>4 DEF Flattened, Drawing

(* A blob that is written; no step takes a drawing or a manifest away.     *)
LEMMA CacheWritten ==
  ASSUME Inv, NEW x \in TaskId, NEW s, At(x, s), s \notin Special, Continue(x),
         NEW f \in File, NEW value \in Drawing \cup {None}, Put(f, "cache", value),
         UNCHANGED <<binding, verdict, signed, job, calls, faults>>
  PROVE  Inv'
<1>1. blob \in [File -> Blobs] /\ blob' = [blob EXCEPT ![f]["cache"] = value]
  BY DEF Inv, TypeOK, Put
<1>2. blob' \in [File -> Blobs] /\ Grows(blob, blob')
  BY <1>1 DEF Blobs, Grows
<1>3. Covered(task[x], blob')
  BY DEF At, Covered, Special
<1> QED
  BY <1>2, <1>3, BlobWritten

LEMMA MatchWritten ==
  ASSUME Inv, NEW x \in TaskId, NEW s, At(x, s), s \notin Special, Continue(x),
         NEW f \in File, NEW value \in Match \cup {None}, Put(f, "match", value),
         UNCHANGED <<binding, verdict, signed, job, calls, faults>>
  PROVE  Inv'
<1>1. blob \in [File -> Blobs] /\ blob' = [blob EXCEPT ![f]["match"] = value]
  BY DEF Inv, TypeOK, Put
<1>2. blob' \in [File -> Blobs] /\ Grows(blob, blob')
  BY <1>1 DEF Blobs, Grows
<1>3. Covered(task[x], blob')
  BY DEF At, Covered, Special
<1> QED
  BY <1>2, <1>3, BlobWritten

LEMMA PutLayoutsInv == ASSUME Inv, NEW x \in TaskId, PutLayouts(x) PROVE Inv'
<1> DEFINE f == task[x].file
<1>1. /\ At(x, "layouts") /\ Continue(x) /\ blob' = [blob EXCEPT ![f].layouts = TRUE]
      /\ UNCHANGED <<binding, verdict, signed, job, calls, faults>>
  BY DEF PutLayouts, PutBlob, Put
<1>2. f \in File /\ blob \in [File -> Blobs]
  BY <1>1, Standing DEF Fileless, Inv, TypeOK
<1> HIDE DEF f
<1>3. blob' \in [File -> Blobs]
  BY <1>1, <1>2 DEF Blobs
<1>4. /\ blob'[f].layouts = TRUE /\ blob'[f].parsed = blob[f].parsed
      /\ blob'[f].manifest = blob[f].manifest
      /\ \A g \in File : g # f => blob'[g] = blob[g]
  BY <1>1, <1>2 DEF Blobs
<1>5. Grows(blob, blob')
  BY <1>4, Zenon DEF Grows
<1>6. Covered(task[x], blob')
  BY <1>1, <1>4 DEF At, Covered, f
<1> QED
  BY <1>1, <1>3, <1>5, <1>6, BlobWritten

LEMMA PutManifestInv == ASSUME Inv, NEW x \in TaskId, PutManifest(x) PROVE Inv'
<1> DEFINE f == task[x].file
<1>1. /\ At(x, "manifest") /\ Continue(x) /\ blob' = [blob EXCEPT ![f].manifest = TRUE]
      /\ UNCHANGED <<binding, verdict, signed, job, calls, faults>>
  BY DEF PutManifest, PutBlob, Put
<1>2. f \in File /\ blob \in [File -> Blobs]
  BY <1>1, Standing DEF Fileless, Inv, TypeOK
<1> HIDE DEF f
<1>3. blob' \in [File -> Blobs]
  BY <1>1, <1>2 DEF Blobs
<1>4. /\ blob'[f].manifest = TRUE /\ blob'[f].parsed = blob[f].parsed
      /\ blob'[f].layouts = blob[f].layouts
      /\ \A g \in File : g # f => blob'[g] = blob[g]
  BY <1>1, <1>2 DEF Blobs
<1>5. Grows(blob, blob')
  BY <1>4, Zenon DEF Grows
<1>6. Covered(task[x], blob')
  BY <1>1, <1>4 DEF At, Covered, f
<1> QED
  BY <1>1, <1>3, <1>5, <1>6, BlobWritten

LEMMA PutParsedInv == ASSUME Inv, NEW x \in TaskId, PutParsed(x) PROVE Inv'
<1> DEFINE t == task[x]
           f == t.file
           got == t.got
<1>1. /\ At(x, "parsed") /\ Continue(x) /\ blob' = [blob EXCEPT ![f].parsed = got]
      /\ UNCHANGED <<binding, verdict, signed, job, calls, faults>>
  BY DEF PutParsed, PutBlob, Put
<1>2. t \in Task /\ f \in File /\ Sound(t, blob) /\ t.todo # <<>>
      /\ Head(t.todo) = "parsed" /\ blob \in [File -> Blobs]
  BY <1>1, Standing DEF Fileless, Inv, TypeOK
<1>3. 1 \in 1..Len(t.todo) /\ t.todo[1] = "parsed"
  BY <1>2, TailSteps DEF Task
<1>4. ~Needs(t.todo, "parsed", "flatten")
  BY <1>3 DEF Needs
<1>5. got \in Drawing /\ got # None
  BY <1>2, <1>4, NullAssumption DEF Sound, Drawn
<1> HIDE DEF got, f
<1>6. blob' \in [File -> Blobs] /\ Grows(blob, blob') /\ blob'[f].parsed # None
  BY <1>1, <1>2, <1>5 DEF Blobs, Grows
<1>7. Covered(task[x], blob')
  BY <1>1, <1>6 DEF At, Covered, f
<1> QED
  BY <1>1, <1>6, <1>7, BlobWritten

LEMMA PutCacheInv == ASSUME Inv, NEW x \in TaskId, PutCache(x) PROVE Inv'
<1> DEFINE t == task[x]
           v == Flattened(t.file, t.tab, None)
<1>1. At(x, "cache") /\ Put(t.file, "cache", v) /\ Continue(x)
      /\ UNCHANGED <<binding, verdict, signed, job, calls, faults>>
  BY DEF PutCache, PutBlob
<1>2. t \in Task /\ t.file \in File
  BY <1>1, Standing DEF Fileless
<1>3. t.tab \in Tab \cup {None}
  BY <1>2 DEF Task
<1>4. v \in Drawing
  BY <1>2, <1>3, FlattenedType
<1>5. "cache" \notin Special
  BY DEF Special
<1> HIDE DEF v
<1> QED
  BY <1>1, <1>2, <1>4, <1>5, CacheWritten

LEMMA DropCacheInv == ASSUME Inv, NEW x \in TaskId, DropCache(x) PROVE Inv'
<1>1. At(x, "uncache") /\ Put(task[x].file, "cache", None) /\ Continue(x)
      /\ UNCHANGED <<binding, verdict, signed, job, calls, faults>>
  BY DEF DropCache, PutBlob
<1>2. task[x].file \in File
  BY <1>1, Standing DEF Fileless
<1>3. "uncache" \notin Special
  BY DEF Special
<1> QED
  BY <1>1, <1>2, <1>3, CacheWritten

LEMMA PutMatchInv == ASSUME Inv, NEW x \in TaskId, PutMatch(x) PROVE Inv'
<1> DEFINE t == task[x]
           m == [of |-> t.got, views |-> t.views]
<1>1. At(x, "result") /\ Put(t.file, "match", m) /\ Continue(x)
      /\ UNCHANGED <<binding, verdict, signed, job, calls, faults>>
  BY DEF PutMatch, PutBlob
<1>2. t \in Task /\ t.file \in File /\ Sound(t, blob) /\ t.todo # <<>>
      /\ Head(t.todo) = "result"
  BY <1>1, Standing DEF Fileless
<1>3. 1 \in 1..Len(t.todo) /\ t.todo[1] = "result"
  BY <1>2, TailSteps DEF Task
<1>4. ~Needs(t.todo, "result", "load")
  BY <1>3 DEF Needs
<1>5. t.got \in Drawing
  BY <1>2, <1>4 DEF Sound, Drawn
<1>6. t.views \in View \cup {None}
  BY <1>2 DEF Task
<1>7. m \in Match
  BY <1>5, <1>6 DEF Match
<1>8. "result" \notin Special
  BY DEF Special
<1> HIDE DEF m
<1> QED
  BY <1>1, <1>2, <1>7, <1>8, MatchWritten

LEMMA DropMatchInv == ASSUME Inv, NEW x \in TaskId, DropMatch(x) PROVE Inv'
<1>1. At(x, "unmatch") /\ Put(task[x].file, "match", None) /\ Continue(x)
      /\ UNCHANGED <<binding, verdict, signed, job, calls, faults>>
  BY DEF DropMatch, PutBlob
<1>2. task[x].file \in File
  BY <1>1, Standing DEF Fileless
<1>3. "unmatch" \notin Special
  BY DEF Special
<1> QED
  BY <1>1, <1>2, <1>3, MatchWritten

LEMMA DropVictimMatchInv ==
  ASSUME Inv, NEW x \in TaskId, DropVictimMatch(x) PROVE Inv'
<1>1. At(x, "drop") /\ Put(task[x].victim, "match", None) /\ Continue(x)
      /\ UNCHANGED <<binding, verdict, signed, job, calls, faults>>
  BY DEF DropVictimMatch
<1>2. task[x].victim \in File
  BY <1>1, Standing
<1>3. "drop" \notin Special
  BY DEF Special
<1> QED
  BY <1>1, <1>2, <1>3, MatchWritten

LEMMA FlattenShape ==
  ASSUME Inv, NEW x \in TaskId, Flatten(x)
  PROVE  \E u : Reads(x, u) /\ u.got \in Drawing
<1> DEFINE t == task[x]
           useCache == t.unit = None /\ t.cached /\ blob[t.file].cache # None
           drawing == IF useCache THEN blob[t.file].cache
                                  ELSE Flattened(t.file, t.tab, t.unit)
           got == [drawing EXCEPT !.layers = t.layers]
           u == [t EXCEPT !.got = got]
<1>1. At(x, "flatten") /\ UNCHANGED <<binding, blob, verdict, signed, job, calls, faults>>
      /\ Then(x, u)
  BY DEF Flatten
<1>2. t \in Task /\ t.file \in File
  BY <1>1, Standing DEF Fileless
<1>3. /\ t.tab \in Tab \cup {None} /\ t.unit \in Unit \cup {None}
      /\ t.layers \in Layers \cup {None}
  BY <1>2 DEF Task
<1>4. blob[t.file].cache \in Drawing \cup {None}
  BY <1>2 DEF Inv, TypeOK, Blobs
<1>5. drawing \in Drawing
  BY <1>2, <1>3, <1>4, FlattenedType
<1> HIDE DEF drawing
<1>6. got \in Drawing
  BY <1>3, <1>5 DEF Drawing
<1> HIDE DEF got
<1>7. /\ u \in Task /\ u.todo = t.todo /\ u.file = t.file
      /\ u.victim = t.victim /\ u.status = t.status /\ u.got = got
  BY <1>2, <1>6 DEF Task
<1> QED
  BY <1>1, <1>6, <1>7 DEF Reads

LEMMA FlattenInv == ASSUME Inv, NEW x \in TaskId, Flatten(x) PROVE Inv'
<1>1. At(x, "flatten") /\ UNCHANGED <<binding, blob, verdict, signed, job, calls, faults>>
  BY DEF Flatten
<1> QED
  BY <1>1, FlattenShape, ReadInv

LEMMA ReadRegionsShape ==
  ASSUME Inv, NEW x \in TaskId, ReadRegions(x)
  PROVE  (\E u : Reads(x, u) /\ u.got = task[x].got) \/ Fail(x)
<1> DEFINE t == task[x]
           v == binding[t.file].views
           u == [t EXCEPT !.views = v]
<1>1. At(x, "region") /\ UNCHANGED <<binding, blob, verdict, signed, job, calls, faults>>
      /\ (Then(x, u) \/ Fail(x))
  BY DEF ReadRegions
<1>2. t \in Task /\ t.file \in File /\ x \in JobId /\ job[x].state # "unborn"
  BY <1>1, Standing DEF Fileless, HandlerSteps
<1>3. v \in View \cup {None}
  BY <1>2 DEF Inv, TypeOK, Binding
<1> HIDE DEF v
<1>4. /\ u \in Task /\ u.todo = t.todo /\ u.file = t.file
      /\ u.victim = t.victim /\ u.status = t.status /\ u.got = t.got
  BY <1>2, <1>3 DEF Task
<1> QED
  BY <1>1, <1>4 DEF Reads

LEMMA ReadRegionsInv == ASSUME Inv, NEW x \in TaskId, ReadRegions(x) PROVE Inv'
<1>1. At(x, "region") /\ UNCHANGED <<binding, blob, verdict, signed, job, calls, faults>>
  BY DEF ReadRegions
<1>2. x \in JobId /\ job[x].state # "unborn"
  BY <1>1, Standing DEF HandlerSteps
<1>3. ASSUME NEW u, Reads(x, u), u.got = task[x].got PROVE Inv'
  BY <1>1, <1>3, ReadInv
<1>4. CASE Fail(x)
  BY <1>1, <1>2, <1>4, FailInv DEF Inv, TypeOK
<1> QED
  BY <1>3, <1>4, ReadRegionsShape

LEMMA LoadParsedShape ==
  ASSUME Inv, NEW x \in TaskId, LoadParsed(x)
  PROVE  (\E u : Reads(x, u) /\ u.got \in Drawing) \/ Fail(x)
<1> DEFINE t == task[x]
           got == blob[t.file].parsed
           u == [t EXCEPT !.got = got]
<1>1. At(x, "load") /\ UNCHANGED <<binding, blob, verdict, signed, job, calls, faults>>
      /\ ((got # None /\ Then(x, u)) \/ Fail(x))
  BY DEF LoadParsed
<1>2. t \in Task /\ t.file \in File /\ x \in JobId /\ job[x].state # "unborn"
  BY <1>1, Standing DEF Fileless, HandlerSteps
<1>3. got \in Drawing \cup {None}
  BY <1>2 DEF Inv, TypeOK, Blobs
<1> HIDE DEF got
<1>4. /\ u \in Task /\ u.todo = t.todo /\ u.file = t.file
      /\ u.victim = t.victim /\ u.status = t.status /\ u.got = got
  BY <1>2, <1>3 DEF Task
<1> QED
  BY <1>1, <1>3, <1>4 DEF Reads

LEMMA LoadParsedInv == ASSUME Inv, NEW x \in TaskId, LoadParsed(x) PROVE Inv'
<1>1. At(x, "load") /\ UNCHANGED <<binding, blob, verdict, signed, job, calls, faults>>
  BY DEF LoadParsed
<1>2. x \in JobId /\ job[x].state # "unborn"
  BY <1>1, Standing DEF HandlerSteps
<1>3. ASSUME NEW u, Reads(x, u), u.got \in Drawing PROVE Inv'
  BY <1>1, <1>3, ReadInv
<1>4. CASE Fail(x)
  BY <1>1, <1>2, <1>4, FailInv DEF Inv, TypeOK
<1> QED
  BY <1>3, <1>4, LoadParsedShape

LEMMA MaterialiseBundleShape ==
  ASSUME Inv, NEW x \in TaskId, MaterialiseBundle(x)
  PROVE  (\E u : Reads(x, u) /\ u.got = task[x].got) \/ Fail(x)
<1> DEFINE t == task[x]
           whole == \A f \in t.files : Bound(f) /\ blob[f].match # None
           bundle == {blob[f].match : f \in t.files}
           u == [t EXCEPT !.bundle = bundle]
<1>1. At(x, "bundle") /\ UNCHANGED <<binding, blob, verdict, signed, job, calls, faults>>
      /\ ((whole /\ Then(x, u)) \/ Fail(x))
  BY DEF MaterialiseBundle
<1>2. t \in Task /\ x \in JobId /\ job[x].state # "unborn"
  BY <1>1, Standing DEF HandlerSteps
<1>3. whole => bundle \in SUBSET Match
  <2>1. t.files \in SUBSET File
    BY <1>2 DEF Task
  <2>2. \A f \in File : blob[f].match \in Match \cup {None}
    BY DEF Inv, TypeOK, Blobs
  <2> QED
    BY <2>1, <2>2
<1> HIDE DEF bundle, whole
<1>4. whole => /\ u \in Task /\ u.todo = t.todo /\ u.file = t.file
               /\ u.victim = t.victim /\ u.status = t.status /\ u.got = t.got
  BY <1>2, <1>3 DEF Task
<1> QED
  BY <1>1, <1>4 DEF Reads

LEMMA MaterialiseBundleInv == ASSUME Inv, NEW x \in TaskId, MaterialiseBundle(x) PROVE Inv'
<1>1. At(x, "bundle") /\ UNCHANGED <<binding, blob, verdict, signed, job, calls, faults>>
  BY DEF MaterialiseBundle
<1>2. x \in JobId /\ job[x].state # "unborn"
  BY <1>1, Standing DEF HandlerSteps
<1>3. ASSUME NEW u, Reads(x, u), u.got = task[x].got PROVE Inv'
  BY <1>1, <1>3, ReadInv
<1>4. CASE Fail(x)
  BY <1>1, <1>2, <1>4, FailInv DEF Inv, TypeOK
<1> QED
  BY <1>3, <1>4, MaterialiseBundleShape

LEMMA PutVerdictInv == ASSUME Inv, NEW x \in TaskId, PutVerdict(x) PROVE Inv'
<1>1. /\ At(x, "verdict") /\ verdict' = task[x].bundle /\ Continue(x)
      /\ UNCHANGED <<binding, blob, signed, job, calls, faults>>
  BY DEF PutVerdict
<1>2. /\ task[x] \in Task /\ Sound(task[x], blob) /\ Role(x, task[x])
      /\ task[x].todo # <<>> /\ Head(task[x].todo) = "verdict"
      /\ x \in JobId => job[x].state # "unborn"
  BY <1>1, Standing
<1>3. verdict' \in SUBSET Match
  BY <1>1, <1>2 DEF Task
<1>4. Covered(task[x], blob')
  BY <1>2 DEF Covered
<1>5. /\ task' \in [TaskId -> Task]
      /\ TasksOK'
      /\ \A y \in TaskId : y # x => task'[y] = task[y]
  BY <1>1, <1>2, <1>4, Moved, GrowsSame DEF Continue
<1>6. JobsOK'
  BY <1>1, <1>2, <1>5, JobsStay
<1> QED
  BY <1>1, <1>3, <1>5, <1>6 DEF Inv, TypeOK, StatusHasArtefact

(* A row of the queue that changes its state.                              *)
LEMMA JobMoved ==
  ASSUME Inv, NEW j \in JobId, job[j].state # "unborn",
         NEW state \in {"queued", "running", "done", "error"},
         job' = [job EXCEPT ![j].state = state],
         \A i \in JobId : i # j => task'[i] = task[i]
  PROVE  job' \in [JobId -> Job] /\ JobsOK'
<1>1. job \in [JobId -> Job]
  BY DEF Inv, TypeOK
<1>2. /\ job' \in [JobId -> Job] /\ job'[j].state = state
      /\ job'[j].kind = job[j].kind /\ job'[j].file = job[j].file
      /\ \A i \in JobId : i # j => job'[i] = job[i]
  BY <1>1 DEF Job
<1> QED
  BY <1>2 DEF Inv, JobsOK

LEMMA SettleInv ==
  ASSUME Inv, NEW x \in TaskId,
         Settle(x, "end", "done") \/ Settle(x, "fail", "error")
  PROVE  Inv'
<1>1. PICK step \in {"end", "fail"}, outcome \in {"done", "error"} :
        Settle(x, step, outcome)
  OBVIOUS
<1>2. /\ At(x, step) /\ job' = [job EXCEPT ![x].state = outcome] /\ Continue(x)
      /\ UNCHANGED <<binding, blob, verdict, signed, calls, faults>>
  BY <1>1 DEF Settle
<1>3. /\ task[x] \in Task /\ Sound(task[x], blob) /\ Role(x, task[x])
      /\ task[x].todo # <<>> /\ Head(task[x].todo) = step
      /\ x \in JobId /\ job[x].state # "unborn"
  BY <1>2, Standing DEF HandlerSteps
<1>4. Covered(task[x], blob')
  BY <1>3 DEF Covered
<1>5. /\ task' \in [TaskId -> Task]
      /\ TasksOK'
      /\ \A y \in TaskId : y # x => task'[y] = task[y]
  BY <1>2, <1>3, <1>4, Moved, GrowsSame DEF Continue
<1>6. job' \in [JobId -> Job] /\ JobsOK'
  BY <1>2, <1>3, <1>5, JobMoved DEF TaskId
<1> QED
  BY <1>2, <1>5, <1>6, Stays DEF Inv, TypeOK

LEMMA HandlerStepInv == ASSUME Inv, NEW x \in TaskId, HandlerStep(x) PROVE Inv'
  BY FindInflightInv, RereadInv, ResolveInv, EnqueuesInv, DropVictimMatchInv
     DEF HandlerStep

LEMMA JobStepInv == ASSUME Inv, NEW x \in TaskId, JobStep(x) PROVE Inv'
  BY PutLayoutsInv, PutManifestInv, PutCacheInv, FlattenInv, PutParsedInv,
     DropCacheInv, ReadRegionsInv, LoadParsedInv, PutMatchInv,
     MaterialiseBundleInv, PutVerdictInv, SettleInv
     DEF JobStep

LEMMA TaskStepInv == ASSUME Inv, NEW x \in TaskId, TaskStep(x) PROVE Inv'
  BY RowStepInv, HandlerStepInv, JobStepInv, DropMatchInv DEF TaskStep

(* The steps of a job, before it takes the first.                          *)
LEMMA PlanSteps ==
  ASSUME NEW j \in JobId, job[j] \in Job
  PROVE  /\ Plan(j) \in Seq(Steps) /\ In(Plan(j), JobSteps) /\ Plan(j) # <<>>
         /\ job[j].kind = "check" => In(Plan(j), Fileless)
         /\ Needs(Plan(j), "parsed", "flatten")
         /\ Needs(Plan(j), "publish", "flatten")
         /\ Needs(Plan(j), "publish", "parsed")
         /\ Needs(Plan(j), "result", "load")
         /\ ~NeedsLayoutPick(j) => Needs(Plan(j), "status", "manifest")
         /\ NeedsLayoutPick(j) => Needs(Plan(j), "status", "layouts")
<1>0. job[j].kind \in Kinds
  BY DEF Job
<1>1. CASE job[j].kind = "discover"
  <2> DEFINE a == IF NeedsLayoutPick(j) THEN <<"layouts">> ELSE <<"manifest", "cache">>
             e == <<"status", "end">>
  <2>1. Plan(j) = a \o e
    BY <1>1 DEF Plan
  <2>2. a \in Seq(Steps) /\ In(a, JobSteps) /\ a # <<>>
    <3>1. CASE NeedsLayoutPick(j)
      BY <3>1 DEF In, JobSteps, Steps
    <3>2. CASE ~NeedsLayoutPick(j)
      BY <3>2 DEF In, JobSteps, Steps
    <3> QED
      BY <3>1, <3>2
  <2>3. e \in Seq(Steps) /\ In(e, JobSteps)
    BY DEF In, JobSteps, Steps
  <2>4. /\ Lacks(a, "parsed") /\ Lacks(a, "publish") /\ Lacks(a, "result")
        /\ Lacks(a, "status")
        /\ Lacks(e, "parsed") /\ Lacks(e, "publish") /\ Lacks(e, "result")
    <3>1. CASE NeedsLayoutPick(j)
      BY <3>1 DEF Lacks
    <3>2. CASE ~NeedsLayoutPick(j)
      BY <3>2 DEF Lacks
    <3> QED
      BY <3>1, <3>2
  <2>5. /\ NeedsLayoutPick(j) => ~Lacks(a, "layouts")
        /\ ~NeedsLayoutPick(j) => ~Lacks(a, "manifest")
    <3>1. CASE NeedsLayoutPick(j)
      BY <3>1 DEF Lacks
    <3>2. CASE ~NeedsLayoutPick(j)
      BY <3>2 DEF Lacks
    <3> QED
      BY <3>1, <3>2
  <2> HIDE DEF a, e
  <2>6. a \o e \in Seq(Steps) /\ In(a \o e, JobSteps) /\ a \o e # <<>>
    BY <2>2, <2>3, InConcat, HeadConcat
  <2>7. \A p : /\ Needs(a, "status", p)
               /\ Needs(a \o e, "parsed", p) /\ Needs(a \o e, "publish", p)
               /\ Needs(a \o e, "result", p)
    BY <2>2, <2>3, <2>4, NeedsLacking, NeedsConcat
  <2>8. /\ NeedsLayoutPick(j) => Needs(a \o e, "status", "layouts")
        /\ ~NeedsLayoutPick(j) => Needs(a \o e, "status", "manifest")
    BY <2>2, <2>3, <2>5, <2>7, NeedsAfter
  <2> QED
    BY <1>1, <2>1, <2>6, <2>7, <2>8
<1>2. CASE job[j].kind = "preprocess"
  <2> DEFINE a == <<"flatten", "parsed">>
             m == IF job[j].cached THEN <<"uncache">> ELSE <<>>
             e == <<"publish", "end">>
  <2>1. Plan(j) = a \o m \o e
    BY <1>2 DEF Plan
  <2>2. a \in Seq(Steps) /\ In(a, JobSteps) /\ a # <<>>
        /\ ~Lacks(a, "flatten") /\ ~Lacks(a, "parsed")
        /\ Lacks(a, "publish") /\ Lacks(a, "result") /\ Lacks(a, "status")
        /\ Needs(a, "parsed", "flatten")
    <3>1. a[1] = "flatten" /\ a[2] = "parsed" /\ Len(a) = 2
      OBVIOUS
    <3> QED
      BY <3>1 DEF In, JobSteps, Steps, Lacks, Needs
  <2>3. e \in Seq(Steps) /\ In(e, JobSteps)
        /\ Lacks(e, "parsed") /\ Lacks(e, "result") /\ Lacks(e, "status")
    BY DEF In, JobSteps, Steps, Lacks
  <2>4. m \in Seq(Steps) /\ In(m, JobSteps)
        /\ Lacks(m, "parsed") /\ Lacks(m, "publish") /\ Lacks(m, "result")
        /\ Lacks(m, "status")
    <3>1. CASE job[j].cached
      BY <3>1 DEF In, JobSteps, Steps, Lacks
    <3>2. CASE ~job[j].cached
      BY <3>2 DEF In, JobSteps, Steps, Lacks
    <3> QED
      BY <3>1, <3>2
  <2> HIDE DEF a, m, e
  <2>5. a \o m \in Seq(Steps) /\ In(a \o m, JobSteps) /\ a \o m # <<>>
    BY <2>2, <2>4, InConcat, HeadConcat
  <2>6. ~Lacks(a \o m, "flatten") /\ ~Lacks(a \o m, "parsed")
    <3>1. /\ Len(a \o m) = Len(a) + Len(m) /\ Len(a) \in Nat /\ Len(m) \in Nat
          /\ \A i \in 1..Len(a) : (a \o m)[i] = a[i]
      BY <2>2, <2>4
    <3> QED
      BY <2>2, <3>1 DEF Lacks
  <2>7. a \o m \o e \in Seq(Steps) /\ In(a \o m \o e, JobSteps) /\ a \o m \o e # <<>>
    BY <2>3, <2>5, InConcat, HeadConcat
  <2>8. /\ Lacks(a \o m, "publish") /\ Lacks(a \o m, "result") /\ Lacks(a \o m, "status")
        /\ Needs(a \o m, "parsed", "flatten")
    BY <2>2, <2>4, LacksConcat, NeedsAfter
  <2>9. /\ Lacks(a \o m \o e, "result") /\ Lacks(a \o m \o e, "status")
        /\ Needs(a \o m \o e, "parsed", "flatten")
    BY <2>3, <2>5, <2>6, <2>8, LacksConcat, NeedsAfter
  <2>10. \A p : Needs(a \o m, "publish", p)
    BY <2>5, <2>8, NeedsLacking
  <2>11. /\ Needs(a \o m \o e, "publish", "flatten")
         /\ Needs(a \o m \o e, "publish", "parsed")
    BY <2>3, <2>5, <2>6, <2>10, NeedsAfter
  <2>12. \A p : Needs(a \o m \o e, "result", p) /\ Needs(a \o m \o e, "status", p)
    BY <2>7, <2>9, NeedsLacking
  <2> QED
    BY <1>2, <2>1, <2>7, <2>9, <2>11, <2>12
<1>3. CASE job[j].kind = "match"
  <2> DEFINE d == <<"region", "load", "result", "save", "end">>
  <2>1. Plan(j) = d
    BY <1>3 DEF Plan
  <2>2. d \in Seq(Steps) /\ In(d, JobSteps) /\ d # <<>>
        /\ Lacks(d, "parsed") /\ Lacks(d, "publish") /\ Lacks(d, "status")
    BY DEF In, JobSteps, Steps, Lacks
  <2>3. Needs(d, "result", "load")
    BY DEF Needs
  <2> HIDE DEF d
  <2>4. \A p : Needs(d, "parsed", p) /\ Needs(d, "publish", p) /\ Needs(d, "status", p)
    BY <2>2, NeedsLacking
  <2> QED
    BY <1>3, <2>1, <2>2, <2>3, <2>4
<1>4. CASE job[j].kind = "check"
  <2> DEFINE d == <<"bundle", "verdict", "end">>
  <2>1. Plan(j) = d
    BY <1>4 DEF Plan
  <2>2. d \in Seq(Steps) /\ In(d, JobSteps) /\ d # <<>> /\ In(d, Fileless)
        /\ Lacks(d, "parsed") /\ Lacks(d, "publish") /\ Lacks(d, "status")
        /\ Lacks(d, "result")
    BY DEF In, JobSteps, Steps, Lacks, Fileless
  <2> HIDE DEF d
  <2>3. \A p : /\ Needs(d, "parsed", p) /\ Needs(d, "publish", p)
               /\ Needs(d, "status", p) /\ Needs(d, "result", p)
    BY <2>2, NeedsLacking
  <2> QED
    BY <1>4, <2>1, <2>2, <2>3
<1> QED
  BY <1>0, <1>1, <1>2, <1>3, <1>4 DEF Kinds

LEMMA ClaimInv == ASSUME Inv, NEW j \in JobId, Claim(j) PROVE Inv'
<1> DEFINE r == job[j]
           status == IF NeedsLayoutPick(j) THEN "awaiting_layout" ELSE "awaiting_layers"
           d == Plan(j)
           u == [Idle EXCEPT !.todo = d, !.file = r.file,
                             !.files = r.files, !.layers = r.layers,
                             !.tab = r.tab, !.unit = r.unit,
                             !.cached = r.cached, !.status = status]
           n == r.attempts + 1
           k == [r EXCEPT !.state = "running", !.attempts = n]
<1>1. /\ r.state = "queued" /\ task' = [task EXCEPT ![j] = u]
      /\ job' = [job EXCEPT ![j] = k]
      /\ UNCHANGED <<binding, blob, verdict, signed, calls, faults>>
  BY DEF Claim, Waiting
<1>2. r \in Job /\ job \in [JobId -> Job] /\ n \in Nat
  BY DEF Inv, TypeOK, Job
<1>3. /\ d \in Seq(Steps) /\ In(d, JobSteps) /\ d # <<>>
      /\ r.kind = "check" => In(d, Fileless)
      /\ Needs(d, "parsed", "flatten") /\ Needs(d, "publish", "flatten")
      /\ Needs(d, "publish", "parsed") /\ Needs(d, "result", "load")
      /\ status = "awaiting_layers" => Needs(d, "status", "manifest")
      /\ status = "awaiting_layout" => Needs(d, "status", "layouts")
      /\ status \in {"awaiting_layers", "awaiting_layout"}
  BY <1>2, PlanSteps
<1>4. Lacks(d, "unbind") /\ Lacks(d, "drop") /\ Lacks(d, "bind")
  BY <1>3 DEF In, Lacks, JobSteps
<1>5. r.kind # "check" => r.file \in File
  BY <1>1 DEF Inv, JobsOK
<1>6. Idle \in Task
  BY IdleSound
<1> HIDE DEF d, status, n, r
<1>7. /\ u \in Task /\ u.todo = d /\ u.file = r.file /\ u.status = status
  BY <1>2, <1>3, <1>6 DEF Task, Job, Statuses
<1>8. /\ k \in Job /\ k.state = "running" /\ k.kind = r.kind /\ k.file = r.file
  BY <1>2 DEF Job
<1> HIDE DEF u, k
<1>9. Sound(u, blob)
  BY <1>3, <1>4, <1>5, <1>7 DEF Sound, Named, Drawn, Parsed, Offered
<1>10. j \in TaskId /\ j \notin Request
  BY ConstantsAssumption DEF TaskId, JobId
<1>11. Role(j, u)
  BY <1>3, <1>7, <1>10 DEF Role
<1>12. /\ task' \in [TaskId -> Task]
       /\ TasksOK'
       /\ \A y \in TaskId : y # j => task'[y] = task[y]
  BY <1>1, <1>9, <1>10, <1>11, Replaced, GrowsSame
<1>13. /\ job' \in [JobId -> Job] /\ job'[j] = k
       /\ \A i \in JobId : i # j => job'[i] = job[i]
  BY <1>1, <1>2, <1>8
<1>14. JobsOK'
  BY <1>5, <1>8, <1>12, <1>13 DEF Inv, JobsOK, TaskId
<1> QED
  BY <1>1, <1>12, <1>13, <1>14, Stays DEF Inv, TypeOK

LEMMA RequeueInv == ASSUME Inv, NEW j \in JobId, Requeue(j) PROVE Inv'
<1>1. /\ job[j].state = "running" /\ job' = [job EXCEPT ![j].state = "queued"]
      /\ UNCHANGED <<binding, blob, verdict, signed, task, calls, faults>>
  BY DEF Requeue, Orphaned, Running
<1>2. job' \in [JobId -> Job] /\ JobsOK'
  BY <1>1, JobMoved
<1>3. TasksOK' /\ task' \in [TaskId -> Task]
  BY <1>1 DEF Inv, TypeOK, TasksOK, Role
<1> QED
  BY <1>1, <1>2, <1>3, Stays DEF Inv, TypeOK

LEMMA FaultInv ==
  ASSUME Inv,
         \/ \E j \in JobId : \/ Expire(j) \/ Crash(j) \/ WorkRaises(j)
                             \/ CallbackRaises(j)
         \/ \E x \in Request : WebDies(x)
  PROVE  Inv'
<1>0. faults \in Nat
  BY DEF Inv, TypeOK
<1>1. ASSUME NEW j \in JobId, Expire(j) PROVE Inv'
  <2>1. job[j].state # "unborn"
    BY <1>1 DEF Expire, Orphaned, Running
  <2>2. /\ Fail(j) /\ faults' \in Nat
        /\ UNCHANGED <<binding, blob, verdict, signed, job, calls>>
    BY <1>0, <1>1 DEF Expire
  <2> QED
    BY <2>1, <2>2, FailInv
<1>2. ASSUME NEW j \in JobId, Crash(j) PROVE Inv'
  <2>1. j \in TaskId /\ faults' \in Nat
    BY <1>0, <1>2 DEF TaskId, Crash, Fault
  <2> QED
    BY <1>2, <2>1, StopInv DEF Crash
<1>3. ASSUME NEW j \in JobId, WorkRaises(j) PROVE Inv'
  <2>1. j \in TaskId /\ faults' \in Nat
    BY <1>0, <1>3 DEF TaskId, WorkRaises, Fault
  <2>2. job[j].state # "unborn"
    BY <1>3, <2>1, Standing DEF WorkRaises
  <2> QED
    BY <1>3, <2>1, <2>2, FailInv DEF WorkRaises
<1>4. ASSUME NEW j \in JobId, CallbackRaises(j) PROVE Inv'
  <2> DEFINE d == <<"fail">>
             u == [Idle EXCEPT !.todo = d]
  <2>1. /\ task[j].todo # <<>> /\ task' = [task EXCEPT ![j] = u]
        /\ UNCHANGED <<binding, blob, verdict, signed, job, calls>>
        /\ faults' = faults + 1
    BY <1>4 DEF CallbackRaises, Fault
  <2>2. j \in TaskId /\ j \notin Request
    BY ConstantsAssumption DEF TaskId, JobId
  <2>3. /\ d \in Seq(Steps) /\ In(d, JobSteps) /\ Lacks(d, "unbind")
        /\ Lacks(d, "drop") /\ Lacks(d, "bind") /\ Lacks(d, "parsed")
        /\ Lacks(d, "publish") /\ Lacks(d, "result") /\ Lacks(d, "status")
        /\ In(d, Fileless) /\ d # <<>>
    BY DEF In, Lacks, JobSteps, Steps, Fileless
  <2> HIDE DEF d
  <2>4. u \in Task /\ u.todo = d /\ u.status = "ready"
    <3>1. Idle.status = "ready" /\ Idle \in Task
      BY IdleSound DEF Idle
    <3> QED
      BY <2>3, <3>1 DEF Task
  <2> HIDE DEF u
  <2>5. \A p : Needs(d, "parsed", p) /\ Needs(d, "publish", p) /\ Needs(d, "result", p)
    BY <2>3, NeedsLacking
  <2>6. Sound(u, blob) /\ Role(j, u)
    BY <2>2, <2>3, <2>4, <2>5 DEF Sound, Named, Drawn, Parsed, Offered, Role
  <2>7. /\ task' \in [TaskId -> Task]
        /\ TasksOK'
        /\ \A y \in TaskId : y # j => task'[y] = task[y]
    BY <2>1, <2>2, <2>6, Replaced, GrowsSame
  <2>8. job[j].state # "unborn"
    BY <2>1, IdleSound DEF Inv, JobsOK
  <2>9. JobsOK'
    BY <2>1, <2>2, <2>7, <2>8, JobsStay
  <2> QED
    BY <1>0, <2>1, <2>7, <2>9, Stays DEF Inv, TypeOK
<1>5. ASSUME NEW x \in Request, WebDies(x) PROVE Inv'
  <2>1. x \in TaskId /\ faults' \in Nat
    BY <1>0, <1>5 DEF TaskId, WebDies, Fault
  <2> QED
    BY <1>5, <2>1, StopInv DEF WebDies
<1> QED
  BY <1>1, <1>2, <1>3, <1>4, <1>5

LEMMA SignInv == ASSUME Inv, SignOff \/ Unsign PROVE Inv'
<1>1. /\ UNCHANGED <<binding, blob, verdict, job, task, faults>>
      /\ calls' = calls + 1 /\ signed' \in BOOLEAN
  BY DEF SignOff, Unsign
<1> QED
  BY <1>1 DEF Inv, TypeOK, TasksOK, Role, JobsOK, StatusHasArtefact

LEMMA FileCallInv == ASSUME Inv, NEW f \in File, FileCall(f) PROVE Inv'
  BY UploadInv, UploadSkippingLayersInv, DeleteFileInv, ReplaceInv,
     UnitOverrideInv, SideRegionsInv, ConfirmLayersInv, DiscoverLayersInv,
     ConfirmLayoutInv, SaveMatchInv, ReprocessInv
     DEF FileCall

LEMMA NextInv == ASSUME Inv, Next PROVE Inv'
  BY FileCallInv, RuleCheckInv, SignInv, TaskStepInv, ClaimInv, RequeueInv, FaultInv
     DEF Next

LEMMA InitInv == ASSUME Init PROVE Inv
<1>1. NoBlobs \in Blobs
  BY DEF NoBlobs, Blobs
<1>2. NoJob \in Job /\ NoJob.state = "unborn"
  BY DEF NoJob, Job, Kinds
<1>3. Fresh("unbound") \in Binding /\ Fresh("unbound").status = "unbound"
  BY FreshType
<1>4. TypeOK
  BY <1>1, <1>2, <1>3, IdleSound DEF Init, TypeOK
<1>5. TasksOK
  BY IdleSound, RoleIdle DEF Init, TasksOK
<1>6. JobsOK
  BY <1>2 DEF Init, JobsOK, TaskId
<1>7. StatusHasArtefact
  BY <1>3 DEF Init, StatusHasArtefact
<1> QED
  BY <1>4, <1>5, <1>6, <1>7 DEF Inv

LEMMA StutterInv == ASSUME Inv, UNCHANGED vars PROVE Inv'
  BY DEF vars, Inv, TypeOK, TasksOK, Role, JobsOK, StatusHasArtefact

(* The invariant holds in every reachable state.                           *)
THEOREM InvAlways == Spec => []Inv
  BY InitInv, NextInv, StutterInv, PTL DEF Spec

(* Rows, blobs, jobs and tasks are what their columns and payloads allow,
   whatever handlers, jobs and faults interleave (app/main.py, app/jobs.py,
   app/files.py).                                                          *)
THEOREM TypeCorrect == Spec => []TypeOK
<1>1. Inv => TypeOK
  BY DEF Inv
<1> QED
  BY <1>1, InvAlways, PTL

(* A status the user acts on stands for an artefact that is there: a ready
   file has its parsed drawing, a file waiting for a choice its manifest.
   No fault is excluded (app/jobs.py, apply_success after the blobs).      *)
THEOREM ArtefactsExist == Spec => []StatusHasArtefact
<1>1. Inv => StatusHasArtefact
  BY DEF Inv
<1> QED
  BY <1>1, InvAlways, PTL

-----------------------------------------------------------------------------
(* A signed version at rest.                                               *)

(* Every action needs a handler to call on an unsigned version, a task that
   has a step to take, or a job that is not over.                          *)
LEMMA Frozen ==
  ASSUME Next, signed, signed', Quiet
  PROVE  UNCHANGED <<binding, blob, verdict, job, task>>
<1>1. \A x \in TaskId : task[x].todo = <<>>
  BY DEF Quiet, Idle
<1>2. \A j \in JobId : ~Unfinished(j) /\ task[j] = Idle /\ j \in TaskId
  BY DEF Quiet, TaskId
<1>3. ASSUME NEW f \in File, FileCall(f) PROVE FALSE
  BY <1>3 DEF FileCall, Upload, UploadSkippingLayers, DeleteFile, Replace,
     UnitOverride, SideRegions, ConfirmLayers, DiscoverLayers, ConfirmLayout,
     SaveMatch, Reprocess
<1>4. ~RuleCheck
  BY DEF RuleCheck
<1>5. ASSUME NEW x \in TaskId, RowStep(x) PROVE FALSE
  BY <1>1, <1>5 DEF At, RowStep, Bind, Unbind, UpdateStatus, UpdateLayers,
     SetChosenLayout, SetUnitOverride, UpdateRegions, ClearMatchSaved,
     SetMatchSaved, ClearUnit, Publish
<1>6. ASSUME NEW x \in TaskId, HandlerStep(x) PROVE FALSE
  BY <1>1, <1>6 DEF At, HandlerStep, FindInflight, Reread, Resolve,
     EnqueueDiscover, EnqueuePreprocess, EnqueueMatch, EnqueueCheck,
     DropVictimMatch
<1>7. ASSUME NEW x \in TaskId, JobStep(x) PROVE FALSE
  BY <1>1, <1>7 DEF At, JobStep, PutLayouts, PutManifest, PutCache, Flatten,
     PutParsed, DropCache, ReadRegions, LoadParsed, PutMatch,
     MaterialiseBundle, PutVerdict, Settle
<1>8. ASSUME NEW x \in TaskId, DropMatch(x) PROVE FALSE
  BY <1>1, <1>8 DEF At, DropMatch
<1>9. ASSUME NEW j \in JobId, \/ Claim(j) \/ Requeue(j) \/ Expire(j)
                              \/ Crash(j) \/ WorkRaises(j) \/ CallbackRaises(j)
      PROVE  FALSE
  <2>1. task[j].todo = <<>>
    BY <1>2 DEF Idle
  <2> QED
    BY <1>1, <1>2, <1>9, <2>1 DEF At, Claim, Requeue, Expire, Crash, WorkRaises,
       CallbackRaises, Orphaned, Unfinished, Running, Waiting, WorkSteps
<1>10. ASSUME NEW x \in Request, WebDies(x) PROVE FALSE
  BY <1>10 DEF WebDies, Quiet, TaskId
<1>11. CASE SignOff
  BY <1>11 DEF SignOff
<1>12. CASE Unsign
  BY <1>12 DEF Unsign
<1> QED
  BY <1>3, <1>4, <1>5, <1>6, <1>7, <1>8, <1>9, <1>10, <1>11, <1>12
     DEF Next, TaskStep

(* Once a signed version has come to rest nothing changes it, from whatever
   state the steps start: the sign-off check of every write handler is
   enough (app/main.py, require_unsigned).                                 *)
THEOREM FrozenAtRest == [][Next]_vars => SignedAtRestIsFrozen
<1>1. [Next]_vars => [signed /\ signed' /\ Quiet
                        => UNCHANGED <<binding, blob, verdict, job, task>>]_vars
  BY Frozen
<1> QED
  BY <1>1, PTL DEF SignedAtRestIsFrozen

-----------------------------------------------------------------------------
(* The inductive invariant of BusyIsPending, for builds in which no handler
   dies half-way and no success callback raises.                           *)

(* After a step that may write a busy status comes one that enqueues, and
   no check that might stop the handler before it.                         *)
Announces(d) ==
  \A i \in 1..Len(d) : d[i] \in {"bind", "status"} =>
    /\ \E k \in (i + 1)..Len(d) : d[k] \in {"discover", "preprocess"}
    /\ \A k \in (i + 1)..Len(d) : d[k] \notin {"inflight", "reread"}

(* A job's outcome is its last step.                                       *)
EndsLast(d) == \A i \in 1..(Len(d) - 1) : d[i] \notin {"end", "fail"}

(* The job has still to write a status; the handler has still to enqueue;
   and nothing can stop it before it does.                                 *)
Shows(d) == ~Lacks(d, "status") \/ ~Lacks(d, "publish")
Asks(d) == ~Lacks(d, "discover") \/ ~Lacks(d, "preprocess")
Committed(d) == Asks(d) /\ Lacks(d, "inflight") /\ Lacks(d, "reread")

(* Only a claimed job runs, on the file of its payload.                    *)
OwnFile(j) ==
  task[j] # Idle =>
    /\ job[j].state # "queued"
    /\ job[j].kind \in {"discover", "preprocess"} => task[j].file = job[j].file

OrderOK ==
  /\ \A x \in Request : Announces(task[x].todo)
  /\ \A j \in JobId : /\ EndsLast(task[j].todo) /\ task[j].status \notin Busy
                      /\ OwnFile(j)

(* The handler x will enqueue the work f waits for; the job j is that work
   and has not shown its outcome yet.                                      *)
AskedBy(x, f) == task[x].file = f /\ Committed(task[x].todo)
ServedBy(j, f) ==
  /\ job[j].file = f /\ job[j].kind \in {"discover", "preprocess"}
  /\ \/ job[j].state = "queued"
     \/ job[j].state = "running" /\ (task[j] = Idle \/ Shows(task[j].todo))

Pending(f) == (\E x \in Request : AskedBy(x, f)) \/ (\E j \in JobId : ServedBy(j, f))
Awaited == \A f \in File : binding[f].status \in Busy => Pending(f)

BInv == Inv /\ OrderOK /\ Awaited

LEMMA AnnouncesTail ==
  ASSUME NEW d \in Seq(Steps), d # <<>>, Announces(d)
  PROVE  Announces(Tail(d))
<1> SUFFICES ASSUME NEW i \in 1..Len(Tail(d)), Tail(d)[i] \in {"bind", "status"}
             PROVE  /\ \E k \in (i + 1)..Len(Tail(d)) :
                         Tail(d)[k] \in {"discover", "preprocess"}
                    /\ \A k \in (i + 1)..Len(Tail(d)) :
                         Tail(d)[k] \notin {"inflight", "reread"}
  BY DEF Announces
<1>1. i + 1 \in 1..Len(d) /\ d[i + 1] \in {"bind", "status"}
  BY TailSteps
<1>2. PICK k \in (i + 2)..Len(d) : d[k] \in {"discover", "preprocess"}
  BY <1>1 DEF Announces
<1>3. k - 1 \in (i + 1)..Len(Tail(d)) /\ Tail(d)[k - 1] = d[k]
  BY <1>2, TailSteps
<1>4. ASSUME NEW l \in (i + 1)..Len(Tail(d))
      PROVE  Tail(d)[l] \notin {"inflight", "reread"}
  <2>1. l + 1 \in (i + 2)..Len(d) /\ Tail(d)[l] = d[l + 1]
    BY TailSteps
  <2> QED
    BY <1>1, <2>1 DEF Announces
<1> QED
  BY <1>2, <1>3, <1>4

(* After the head has announced, the rest is committed.                    *)
LEMMA AnnouncesHead ==
  ASSUME NEW d \in Seq(Steps), d # <<>>, Announces(d), Head(d) \in {"bind", "status"}
  PROVE  Committed(Tail(d)) /\ Len(d) # 1
<1>1. 1 \in 1..Len(d) /\ d[1] \in {"bind", "status"} /\ Len(d) \in Nat
  BY TailSteps
<1>2. PICK k \in 2..Len(d) : d[k] \in {"discover", "preprocess"}
  BY <1>1 DEF Announces
<1>3. k - 1 \in 1..Len(Tail(d)) /\ Tail(d)[k - 1] = d[k]
  BY <1>2, TailSteps
<1>4. ASSUME NEW l \in 1..Len(Tail(d)) PROVE Tail(d)[l] \notin {"inflight", "reread"}
  <2>1. l + 1 \in 2..Len(d) /\ Tail(d)[l] = d[l + 1]
    BY TailSteps
  <2> QED
    BY <1>1, <2>1 DEF Announces
<1>5. Asks(Tail(d))
  BY <1>2, <1>3 DEF Asks, Lacks
<1>6. Lacks(Tail(d), "inflight") /\ Lacks(Tail(d), "reread")
  BY <1>4 DEF Lacks
<1>7. Len(d) # 1
  BY <1>1, <1>2
<1> QED
  BY <1>5, <1>6, <1>7 DEF Committed

LEMMA ConcatElements ==
  ASSUME NEW d \in Seq(Steps), NEW e \in Seq(Steps)
  PROVE  /\ Len(d) \in Nat /\ Len(e) \in Nat /\ Len(d \o e) = Len(d) + Len(e)
         /\ \A i \in 1..Len(d) : (d \o e)[i] = d[i]
         /\ \A i \in 1..Len(d \o e) : i > Len(d) =>
              i - Len(d) \in 1..Len(e) /\ (d \o e)[i] = e[i - Len(d)]
<1>1. /\ Len(d) \in Nat /\ Len(e) \in Nat /\ Len(d \o e) = Len(d) + Len(e)
      /\ \A i \in 1..Len(d) : (d \o e)[i] = d[i]
  OBVIOUS
<1>2. ASSUME NEW i \in 1..Len(d \o e), i > Len(d)
      PROVE  i - Len(d) \in 1..Len(e) /\ (d \o e)[i] = e[i - Len(d)]
  BY <1>1, <1>2
<1> QED
  BY <1>1, <1>2

LEMMA AnnouncesConcat ==
  ASSUME NEW d \in Seq(Steps), NEW e \in Seq(Steps), Lacks(d, "bind"),
         Lacks(d, "status"), Announces(e)
  PROVE  Announces(d \o e)
<1>0. /\ Len(d) \in Nat /\ Len(e) \in Nat /\ Len(d \o e) = Len(d) + Len(e)
      /\ \A i \in 1..Len(d) : (d \o e)[i] = d[i]
      /\ \A i \in 1..Len(d \o e) : i > Len(d) =>
           i - Len(d) \in 1..Len(e) /\ (d \o e)[i] = e[i - Len(d)]
  BY ConcatElements
<1> SUFFICES ASSUME NEW i \in 1..Len(d \o e), (d \o e)[i] \in {"bind", "status"}
             PROVE  /\ \E k \in (i + 1)..Len(d \o e) :
                         (d \o e)[k] \in {"discover", "preprocess"}
                    /\ \A k \in (i + 1)..Len(d \o e) :
                         (d \o e)[k] \notin {"inflight", "reread"}
  BY DEF Announces
<1>1. i > Len(d)
  BY <1>0 DEF Lacks
<1>2. i - Len(d) \in 1..Len(e) /\ e[i - Len(d)] \in {"bind", "status"}
  BY <1>0, <1>1
<1>3. PICK k \in (i - Len(d) + 1)..Len(e) : e[k] \in {"discover", "preprocess"}
  BY <1>2 DEF Announces
<1>4. k + Len(d) \in (i + 1)..Len(d \o e) /\ (d \o e)[k + Len(d)] = e[k]
  BY <1>0, <1>1, <1>3
<1>5. ASSUME NEW l \in (i + 1)..Len(d \o e)
      PROVE  (d \o e)[l] \notin {"inflight", "reread"}
  <2>1. l - Len(d) \in (i - Len(d) + 1)..Len(e) /\ (d \o e)[l] = e[l - Len(d)]
    BY <1>0, <1>1
  <2> QED
    BY <1>2, <2>1 DEF Announces
<1> QED
  BY <1>3, <1>4, <1>5

LEMMA EndsLastTail ==
  ASSUME NEW d \in Seq(Steps), d # <<>>, EndsLast(d)
  PROVE  EndsLast(Tail(d))
  BY TailSteps DEF EndsLast

LEMMA EndsLastHead ==
  ASSUME NEW d \in Seq(Steps), d # <<>>, EndsLast(d), Head(d) \in {"end", "fail"}
  PROVE  Len(d) = 1 /\ ~Shows(d)
<1>1. Len(d) \in Nat /\ Len(d) >= 1 /\ Head(d) = d[1]
  BY TailSteps
<1>2. ASSUME Len(d) > 1 PROVE FALSE
  <2>1. 1 \in 1..(Len(d) - 1)
    BY <1>1, <1>2
  <2>2. d[1] \notin {"end", "fail"}
    BY <2>1, Zenon DEF EndsLast
  <2> QED
    BY <1>1, <2>2
<1>3. Len(d) = 1
  BY <1>1, <1>2
<1> QED
  BY <1>1, <1>3 DEF Shows, Lacks

LEMMA EndsLastConcat ==
  ASSUME NEW d \in Seq(Steps), NEW e \in Seq(Steps), Lacks(d, "end"),
         Lacks(d, "fail"), EndsLast(e)
  PROVE  EndsLast(d \o e)
<1>0. /\ Len(d) \in Nat /\ Len(e) \in Nat /\ Len(d \o e) = Len(d) + Len(e)
      /\ \A i \in 1..Len(d) : (d \o e)[i] = d[i]
      /\ \A i \in 1..Len(d \o e) : i > Len(d) =>
           i - Len(d) \in 1..Len(e) /\ (d \o e)[i] = e[i - Len(d)]
  BY ConcatElements
<1> SUFFICES ASSUME NEW i \in 1..(Len(d \o e) - 1)
             PROVE  (d \o e)[i] \notin {"end", "fail"}
  BY DEF EndsLast
<1>1. CASE i <= Len(d)
  BY <1>0, <1>1 DEF Lacks
<1>2. CASE i > Len(d)
  <2>1. i - Len(d) \in 1..(Len(e) - 1) /\ (d \o e)[i] = e[i - Len(d)]
    BY <1>0, <1>2
  <2> QED
    BY <2>1 DEF EndsLast
<1> QED
  BY <1>0, <1>1, <1>2

LEMMA LacksTailConverse ==
  ASSUME NEW d \in Seq(Steps), d # <<>>, NEW s, Head(d) # s, ~Lacks(d, s)
  PROVE  ~Lacks(Tail(d), s) /\ Len(d) # 1
<1>1. PICK i \in 1..Len(d) : d[i] = s
  BY DEF Lacks
<1>2. i # 1 /\ Len(d) \in Nat
  BY <1>1, TailSteps
<1>3. i - 1 \in 1..Len(Tail(d)) /\ Tail(d)[i - 1] = s
  BY <1>1, <1>2, TailSteps
<1>4. Len(d) # 1
  BY <1>1, <1>2
<1>5. ~Lacks(Tail(d), s)
  BY <1>3, Zenon DEF Lacks
<1> QED
  BY <1>4, <1>5

LEMMA ShowsTail ==
  ASSUME NEW d \in Seq(Steps), d # <<>>, Shows(d), Head(d) \notin {"status", "publish"}
  PROVE  Shows(Tail(d)) /\ Len(d) # 1
  BY LacksTailConverse DEF Shows

LEMMA CommittedTail ==
  ASSUME NEW d \in Seq(Steps), d # <<>>, Committed(d),
         Head(d) \notin {"discover", "preprocess"}
  PROVE  Committed(Tail(d)) /\ Len(d) # 1
  BY LacksTailConverse, LacksTail DEF Committed, Asks

(* The task x goes on and nothing else about tasks changes.                *)
Onward(x) ==
  \E u \in Task : /\ Then(x, u) /\ u.todo = task[x].todo
                  /\ u.file = task[x].file /\ u.status = task[x].status

NextTask(x, file, status) ==
  /\ task'[x].file = file
  /\ task'[x].status = status

LEMMA TailNonempty ==
  ASSUME NEW d \in Seq(Steps), d # <<>>, ~(Len(d) <= 1)
  PROVE  Tail(d) # <<>> /\ Len(d) > 1
<1>1. Len(d) \in Nat /\ Len(d) > 1 /\ Len(Tail(d)) = Len(d) - 1
  BY TailSteps
<1>2. 1 \in 1..Len(Tail(d))
  BY <1>1
<1>3. 1 \notin 1..Len(<<>>)
  OBVIOUS
<1>4. Tail(d) # <<>>
  BY <1>2, <1>3, Zenon
<1> QED
  BY <1>1, <1>4

LEMMA OnwardGives ==
  ASSUME Inv, NEW x \in TaskId, task[x].todo # <<>>, Onward(x)
  PROVE  /\ \A y \in TaskId : y # x => task'[y] = task[y]
         /\ \/ Len(task[x].todo) = 1 /\ task'[x] = Idle
            \/ /\ Len(task[x].todo) > 1
               /\ task'[x].todo = Tail(task[x].todo)
               /\ task'[x].file = task[x].file
               /\ task'[x].status = task[x].status
               /\ task'[x] # Idle
<1>1. task \in [TaskId -> Task]
  BY DEF Inv, TypeOK
<1>2. PICK u \in Task : /\ Then(x, u) /\ u.todo = task[x].todo
                        /\ u.file = task[x].file /\ u.status = task[x].status
  BY DEF Onward
<1>3. u.todo \in Seq(Steps) /\ u.todo # <<>>
  BY <1>2 DEF Task
<1>4. Len(u.todo) \in Nat /\ Len(u.todo) >= 1 /\ Len(Tail(u.todo)) = Len(u.todo) - 1
  BY <1>3, TailSteps
<1>5. CASE Len(u.todo) <= 1
  <2>1. task' = [task EXCEPT ![x] = Idle]
    BY <1>2, <1>5 DEF Then
  <2> QED
    BY <1>1, <1>2, <1>4, <1>5, <2>1
<1>6. CASE ~(Len(u.todo) <= 1)
  <2>1. task' = [task EXCEPT ![x] = Rest(u)]
    BY <1>2, <1>6 DEF Then, Rest
  <2>2. /\ task'[x] = Rest(u)
        /\ \A y \in TaskId : y # x => task'[y] = task[y]
    BY <1>1, <2>1
  <2>3. /\ Rest(u).todo = Tail(u.todo) /\ Rest(u).file = u.file
        /\ Rest(u).status = u.status
    BY <1>2, <1>3, RestType
  <2>4. Tail(u.todo) # <<>> /\ Len(u.todo) > 1
    BY <1>3, <1>6, TailNonempty
  <2>5. task'[x] # Idle
    BY <2>2, <2>3, <2>4, IdleSound
  <2> QED
    BY <1>2, <2>2, <2>3, <2>4, <2>5
<1> QED
  BY <1>4, <1>5, <1>6

(* Who waits is still served when only x moves.                            *)
LEMMA OthersStand ==
  ASSUME Inv, NEW x \in TaskId, \A y \in TaskId : y # x => task'[y] = task[y],
         \A j \in JobId : j # x /\ job[j].state # "unborn" => job'[j] = job[j],
         NEW f \in File, Pending(f),
         x \in Request /\ AskedBy(x, f) => Pending(f)',
         x \in JobId /\ ServedBy(x, f) => Pending(f)'
  PROVE  Pending(f)'
<1>1. ASSUME NEW y \in Request, y # x, AskedBy(y, f) PROVE Pending(f)'
  BY <1>1 DEF Pending, AskedBy, TaskId
<1>2. ASSUME NEW j \in JobId, j # x, ServedBy(j, f) PROVE Pending(f)'
  <2>1. job'[j] = job[j] /\ task'[j] = task[j]
    BY <1>2 DEF ServedBy, TaskId
  <2>2. ServedBy(j, f)'
    BY <1>2, <2>1 DEF ServedBy
  <2> QED
    BY <2>2 DEF Pending
<1> QED
  BY <1>1, <1>2 DEF Pending

(* OrderOK is kept when x goes on and the rest stands.                     *)
LEMMA OrderOnward ==
  ASSUME Inv, OrderOK, NEW x \in TaskId, task[x].todo # <<>>, Onward(x),
         \A j \in JobId : task[j] # Idle =>
           /\ job'[j].kind = job[j].kind /\ job'[j].file = job[j].file
           /\ job'[j].state = "queued" => job[j].state = "queued"
  PROVE  OrderOK'
<1>1. /\ \A y \in TaskId : y # x => task'[y] = task[y]
      /\ \/ Len(task[x].todo) = 1 /\ task'[x] = Idle
         \/ /\ Len(task[x].todo) > 1
            /\ task'[x].todo = Tail(task[x].todo)
            /\ task'[x].file = task[x].file
            /\ task'[x].status = task[x].status
            /\ task'[x] # Idle
  BY OnwardGives
<1>2. task[x].todo \in Seq(Steps)
  BY DEF Inv, TypeOK, Task
<1>3. Announces(<<>>) /\ EndsLast(<<>>) /\ Idle.status \notin Busy
  BY DEF Announces, EndsLast, Idle, Busy
<1>4. ASSUME NEW y \in Request PROVE Announces(task'[y].todo)
  <2>1. CASE y = x
    BY <1>1, <1>2, <1>3, <2>1, AnnouncesTail, IdleSound DEF OrderOK
  <2>2. CASE y # x
    BY <1>1, <2>2 DEF OrderOK, TaskId
  <2> QED
    BY <2>1, <2>2
<1>5. ASSUME NEW j \in JobId
      PROVE  /\ EndsLast(task'[j].todo) /\ task'[j].status \notin Busy
             /\ OwnFile(j)'
  <2>1. CASE j = x
    <3>1. CASE task'[x] = Idle
      BY <1>3, <2>1, <3>1, IdleSound DEF OwnFile
    <3>2. CASE task'[x] # Idle
      <4>1. task[x] # Idle
        BY IdleSound
      <4> QED
        BY <1>1, <1>2, <2>1, <3>2, <4>1, EndsLastTail DEF OrderOK, OwnFile
    <3> QED
      BY <3>1, <3>2
  <2>2. CASE j # x
    BY <1>1, <2>2 DEF OrderOK, TaskId, OwnFile
  <2> QED
    BY <2>1, <2>2
<1> QED
  BY <1>4, <1>5 DEF OrderOK, OwnFile

LEMMA Served ==
  ASSUME BInv, NEW x \in JobId, NEW f \in File, task[x].todo # <<>>, ServedBy(x, f)
  PROVE  /\ task[x] # Idle /\ task[x].file = f
         /\ job[x].state = "queued" \/ (job[x].state = "running" /\ Shows(task[x].todo))
<1>1. task[x] # Idle
  BY IdleSound
<1>2. task[x].file = f
  BY <1>1 DEF BInv, OrderOK, OwnFile, ServedBy
<1>3. job[x].state = "queued" \/ (job[x].state = "running" /\ Shows(task[x].todo))
  BY <1>1, Zenon DEF ServedBy
<1> QED
  BY <1>1, <1>2, <1>3

LEMMA Disjoint == \A x \in TaskId : ~(x \in Request /\ x \in JobId)
  BY ConstantsAssumption DEF JobId

(* A step that neither changes a status for a waiting file nor enqueues.   *)
LEMMA PlainStep ==
  ASSUME BInv, NEW x \in TaskId, NEW s, At(x, s), Onward(x), UNCHANGED job,
         s \notin {"discover", "preprocess", "status", "publish"},
         \A f \in File : binding'[f].status \in Busy => binding[f].status \in Busy
  PROVE  OrderOK' /\ Awaited'
<1> DEFINE d == task[x].todo
<1>1. /\ d \in Seq(Steps) /\ d # <<>> /\ Head(d) = s
  BY DEF BInv, Inv, TypeOK, Task, At
<1>2. /\ \A y \in TaskId : y # x => task'[y] = task[y]
      /\ \/ Len(d) = 1 /\ task'[x] = Idle
         \/ /\ Len(d) > 1
            /\ task'[x].todo = Tail(d)
            /\ task'[x].file = task[x].file
            /\ task'[x].status = task[x].status
            /\ task'[x] # Idle
  BY <1>1, OnwardGives DEF BInv
<1>3. OrderOK'
  BY <1>1, OrderOnward DEF BInv
<1> HIDE DEF d
<1>4. ASSUME NEW f \in File, binding'[f].status \in Busy PROVE Pending(f)'
  <2>1. Pending(f)
    BY <1>4 DEF BInv, Awaited
  <2>2. ASSUME x \in Request, AskedBy(x, f) PROVE Pending(f)'
    <3>1. Committed(Tail(d)) /\ Len(d) # 1
      BY <1>1, <2>2, CommittedTail DEF AskedBy, d
    <3>2. task'[x].todo = Tail(d) /\ task'[x].file = task[x].file
      BY <1>2, <3>1, Zenon
    <3>3. AskedBy(x, f)'
      BY <2>2, <3>1, <3>2, Zenon DEF AskedBy
    <3> QED
      BY <2>2, <3>3 DEF Pending
  <2>3. ASSUME x \in JobId, ServedBy(x, f) PROVE Pending(f)'
    <3>1. job[x].state = "queued" \/ (job[x].state = "running" /\ Shows(d))
      BY <1>1, <2>3, Served DEF d
    <3>2. ServedBy(x, f)'
      <4>1. CASE job[x].state = "queued"
        BY <2>3, <4>1 DEF ServedBy
      <4>2. CASE job[x].state = "running" /\ Shows(d)
        <5>1. Shows(Tail(d)) /\ Len(d) # 1
          BY <1>1, <4>2, ShowsTail
        <5> QED
          BY <1>2, <2>3, <4>2, <5>1 DEF ServedBy
      <4> QED
        BY <3>1, <4>1, <4>2
    <3> QED
      BY <2>3, <3>2 DEF Pending
  <2>4. Inv /\ \A j \in JobId : job'[j] = job[j]
    BY DEF BInv
  <2> QED
    BY <1>2, <2>1, <2>2, <2>3, <2>4, OthersStand
<1> QED
  BY <1>3, <1>4 DEF Awaited

(* A step that changes the status of its own file.                         *)
LEMMA StatusStep ==
  ASSUME BInv, NEW x \in TaskId, task[x].todo # <<>>, UNCHANGED job, OrderOK',
         \A y \in TaskId : y # x => task'[y] = task[y],
         \A f \in File : f # task[x].file => binding'[f] = binding[f],
         \A f \in File : f = task[x].file /\ binding'[f].status \in Busy => Pending(f)'
  PROVE  Awaited'
<1> SUFFICES ASSUME NEW f \in File, binding'[f].status \in Busy PROVE Pending(f)'
  BY DEF Awaited
<1>1. CASE f = task[x].file
  BY <1>1
<1>2. CASE f # task[x].file
  <2>1. Pending(f)
    BY <1>2 DEF BInv, Awaited
  <2>2. ~(x \in Request /\ AskedBy(x, f))
    BY <1>2 DEF AskedBy
  <2>3. ~(x \in JobId /\ ServedBy(x, f))
    BY <1>2, Served
  <2>4. Inv /\ \A j \in JobId : job'[j] = job[j]
    BY DEF BInv
  <2> QED
    BY <2>1, <2>2, <2>3, <2>4, OthersStand
<1> QED
  BY <1>1, <1>2

LEMMA ContinueOnward ==
  ASSUME Inv, NEW x \in TaskId, Continue(x) PROVE Onward(x)
<1>1. task[x] \in Task
  BY DEF Inv, TypeOK
<1> QED
  BY <1>1 DEF Continue, Onward

(* A handler that announces is committed; a job announces nothing.         *)
LEMMA AnnounceStep ==
  ASSUME BInv, NEW x \in TaskId, NEW s \in {"bind", "status"}, At(x, s), Continue(x),
         UNCHANGED job, \A f \in File : f # task[x].file => binding'[f] = binding[f],
         \A f \in File : f = task[x].file =>
           binding'[f].status = task[x].status \/ binding'[f].status = "unbound"
  PROVE  OrderOK' /\ Awaited'
<1> DEFINE d == task[x].todo
<1>1. /\ d \in Seq(Steps) /\ d # <<>> /\ Head(d) = s
  BY DEF BInv, Inv, TypeOK, Task, At
<1>2. Onward(x)
  BY ContinueOnward DEF BInv
<1>3. /\ \A y \in TaskId : y # x => task'[y] = task[y]
      /\ \/ Len(d) = 1 /\ task'[x] = Idle
         \/ /\ Len(d) > 1
            /\ task'[x].todo = Tail(d)
            /\ task'[x].file = task[x].file
            /\ task'[x].status = task[x].status
            /\ task'[x] # Idle
  BY <1>1, <1>2, OnwardGives DEF BInv
<1>4. OrderOK'
  BY <1>1, <1>2, OrderOnward DEF BInv
<1> HIDE DEF d
<1>5. ASSUME NEW f \in File, f = task[x].file, binding'[f].status \in Busy
      PROVE  Pending(f)'
  <2>1. CASE x \in Request
    <3>1. Committed(Tail(d)) /\ Len(d) # 1
      BY <1>1, <2>1, AnnouncesHead DEF BInv, OrderOK, d
    <3>2. task'[x].todo = Tail(d) /\ task'[x].file = task[x].file
      BY <1>3, <3>1, Zenon
    <3>3. AskedBy(x, f)'
      BY <1>5, <3>1, <3>2, Zenon DEF AskedBy
    <3> QED
      BY <2>1, <3>3 DEF Pending
  <2>2. CASE x \in JobId
    BY <1>5, <2>2 DEF BInv, OrderOK, Busy
  <2> QED
    BY <2>1, <2>2 DEF TaskId
<1>6. Awaited'
  BY <1>1, <1>3, <1>4, <1>5, StatusStep DEF d
<1> QED
  BY <1>4, <1>6

LEMMA BindWaits == ASSUME BInv, NEW x \in TaskId, Bind(x) PROVE OrderOK' /\ Awaited'
<1> DEFINE f == task[x].file
           r == Fresh(task[x].status)
<1>1. At(x, "bind") /\ binding' = [binding EXCEPT ![f] = r] /\ Continue(x)
      /\ UNCHANGED job
  BY DEF Bind
<1>2. binding \in [File -> Binding] /\ task[x] \in Task
  BY DEF BInv, Inv, TypeOK
<1>3. r.status = task[x].status
  BY DEF Fresh
<1> HIDE DEF r
<1>4. /\ \A g \in File : g # f => binding'[g] = binding[g]
      /\ \A g \in File : g = f => binding'[g].status = task[x].status
  BY <1>1, <1>2, <1>3
<1> QED
  BY <1>1, <1>4, AnnounceStep

LEMMA UpdateStatusWaits ==
  ASSUME BInv, NEW x \in TaskId, UpdateStatus(x) PROVE OrderOK' /\ Awaited'
<1> DEFINE f == task[x].file
           s == task[x].status
<1>1. At(x, "status") /\ Update(f, "status", s) /\ Continue(x) /\ UNCHANGED job
  BY DEF UpdateStatus, Column
<1>2. binding \in [File -> Binding] /\ f \in File
  BY <1>1, Standing DEF BInv, Inv, TypeOK, Fileless
<1>3. \/ binding' = [binding EXCEPT ![f]["status"] = s]
      \/ binding' = binding /\ binding[f].status = "unbound"
  BY <1>1 DEF Update, Bound
<1> HIDE DEF f, s
<1>4. /\ \A g \in File : g # f => binding'[g] = binding[g]
      /\ \A g \in File : g = f => binding'[g].status = s \/ binding'[g].status = "unbound"
  BY <1>2, <1>3 DEF Binding
<1> QED
  BY <1>1, <1>4, AnnounceStep DEF f, s

LEMMA ColumnStatus ==
  ASSUME Inv, NEW f \in File, NEW value, NEW field,
         field \in {"layers", "tab", "unit", "views", "saved"}, Update(f, field, value)
  PROVE  \A g \in File : binding'[g].status = binding[g].status
<1>1. binding \in [File -> Binding]
  BY DEF Inv, TypeOK
<1>2. binding' = [binding EXCEPT ![f][field] = value] \/ binding' = binding
  BY DEF Update
<1>3. CASE binding' = [binding EXCEPT ![f][field] = value]
  BY <1>1, <1>3 DEF Binding
<1> QED
  BY <1>2, <1>3

LEMMA ColumnsWait ==
  ASSUME BInv, NEW x \in TaskId,
         \/ UpdateLayers(x) \/ SetChosenLayout(x) \/ SetUnitOverride(x)
         \/ UpdateRegions(x) \/ ClearMatchSaved(x) \/ SetMatchSaved(x)
         \/ ClearUnit(x)
  PROVE  OrderOK' /\ Awaited'
<1>1. PICK s \in {"layers", "tab", "unit", "views", "unsave", "save", "autounit"},
           field \in {"layers", "tab", "unit", "views", "saved"} :
        At(x, s) /\ \E value : Column(x, field, value)
  BY DEF UpdateLayers, SetChosenLayout, SetUnitOverride, UpdateRegions,
         ClearMatchSaved, SetMatchSaved, ClearUnit
<1>2. PICK value : Column(x, field, value)
  BY <1>1
<1>3. task[x].file \in File
  BY <1>1, Standing DEF BInv, Fileless
<1>4. Update(task[x].file, field, value) /\ Continue(x) /\ UNCHANGED job
  BY <1>2 DEF Column
<1>5. \A g \in File : binding'[g].status = binding[g].status
  BY <1>3, <1>4, ColumnStatus DEF BInv
<1> QED
  BY <1>1, <1>4, <1>5, ContinueOnward, PlainStep DEF BInv

LEMMA UnbindWaits == ASSUME BInv, NEW x \in TaskId, Unbind(x) PROVE OrderOK' /\ Awaited'
<1> DEFINE f == task[x].victim
           r == Fresh("unbound")
<1>1. At(x, "unbind") /\ binding' = [binding EXCEPT ![f] = r] /\ Continue(x)
      /\ UNCHANGED job
  BY DEF Unbind
<1>2. binding \in [File -> Binding]
  BY DEF BInv, Inv, TypeOK
<1>3. r.status \notin Busy
  BY FreshType DEF Busy
<1> HIDE DEF f, r
<1>4. \A g \in File : binding'[g].status \in Busy => binding[g].status \in Busy
  BY <1>1, <1>2, <1>3
<1> QED
  BY <1>1, <1>4, ContinueOnward, PlainStep DEF BInv

LEMMA PublishWaits == ASSUME BInv, NEW x \in TaskId, Publish(x) PROVE OrderOK' /\ Awaited'
<1> DEFINE t == task[x]
<1>1. At(x, "publish") /\ UNCHANGED job
  BY DEF Publish
<1>2. /\ t \in Task /\ t.todo # <<>> /\ t.file \in File /\ x \in JobId
      /\ Head(t.todo) = "publish"
  BY <1>1, Standing DEF BInv, Fileless, HandlerSteps
<1>3. t.todo \in Seq(Steps) /\ Tail(t.todo) \in Seq(Steps) /\ t # Idle
  BY <1>2, TailSteps, IdleSound DEF Task
<1>4. PICK P \in Seq(Steps), u \in Task :
        /\ In(P, PublishSteps) /\ P # <<>> /\ Head(P) = "publish"
        /\ Then(x, u) /\ u.todo = P \o Tail(t.todo)
        /\ u.file = t.file /\ u.victim = t.victim
        /\ u.got = t.got /\ u.status = t.status
  BY PublishShape DEF BInv
<1>5. EndsLast(Tail(t.todo)) /\ t.status \notin Busy /\ OwnFile(x)
  BY <1>2, <1>3, EndsLastTail DEF BInv, OrderOK
<1>6. u.todo \in Seq(Steps) /\ u.todo # <<>> /\ EndsLast(u.todo)
  <2>1. Lacks(P, "end") /\ Lacks(P, "fail")
    BY <1>4 DEF In, Lacks, PublishSteps
  <2> DEFINE e == Tail(t.todo)
  <2>2. e \in Seq(Steps) /\ EndsLast(e) /\ u.todo = P \o e
    BY <1>3, <1>4, <1>5
  <2> HIDE DEF e
  <2>3. EndsLast(P \o e)
    BY <2>1, <2>2, EndsLastConcat
  <2>4. P \o e \in Seq(Steps)
    BY <2>2
  <2>5. P \o e # <<>>
    BY <1>4, <2>2, HeadConcat
  <2> QED
    BY <2>2, <2>3, <2>4, <2>5
<1>7. /\ \A y \in TaskId : y # x => task'[y] = task[y]
      /\ \/ task'[x] = Idle
         \/ task'[x].todo = Tail(u.todo) /\ task'[x].file = t.file /\ task'[x].status = t.status
  <2>0. task \in [TaskId -> Task]
    BY DEF BInv, Inv, TypeOK
  <2>1. CASE Len(u.todo) <= 1
    <3>1. task' = [task EXCEPT ![x] = Idle]
      BY <1>4, <2>1 DEF Then
    <3> QED
      BY <2>0, <3>1
  <2>2. CASE ~(Len(u.todo) <= 1)
    <3>1. task' = [task EXCEPT ![x] = Rest(u)]
      BY <1>4, <2>2 DEF Then, Rest
    <3>2. /\ Rest(u).todo = Tail(u.todo) /\ Rest(u).file = u.file
          /\ Rest(u).status = u.status
      BY <1>6, RestType
    <3> QED
      BY <1>4, <2>0, <3>1, <3>2
  <2> QED
    BY <2>1, <2>2
<1>8. /\ EndsLast(task'[x].todo) /\ task'[x].status \notin Busy /\ OwnFile(x)'
  <2>1. CASE task'[x] = Idle
    <3>1. EndsLast(<<>>) /\ Idle.status \notin Busy /\ Idle.todo = <<>>
      BY DEF EndsLast, Idle, Busy
    <3> QED
      BY <2>1, <3>1 DEF OwnFile
  <2>2. CASE task'[x].todo = Tail(u.todo) /\ task'[x].file = t.file /\ task'[x].status = t.status
    <3>1. EndsLast(Tail(u.todo))
      BY <1>6, EndsLastTail
    <3> QED
      BY <1>1, <1>3, <1>5, <2>2, <3>1 DEF OwnFile
  <2> QED
    BY <1>7, <2>1, <2>2
<1>9. OrderOK'
  <2>1. x \notin Request
    BY <1>2, Disjoint
  <2>2. ASSUME NEW y \in Request PROVE Announces(task'[y].todo)
    BY <1>7, <2>1, <2>2 DEF BInv, OrderOK, TaskId
  <2>3. ASSUME NEW j \in JobId
        PROVE  /\ EndsLast(task'[j].todo) /\ task'[j].status \notin Busy
               /\ OwnFile(j)'
    <3>1. CASE j = x
      BY <1>8, <3>1
    <3>2. CASE j # x
      BY <1>1, <1>7, <3>2 DEF BInv, OrderOK, TaskId, OwnFile
    <3> QED
      BY <3>1, <3>2
  <2> QED
    BY <2>2, <2>3 DEF OrderOK, OwnFile
<1>10. /\ \A f \in File : f # t.file => binding'[f] = binding[f]
       /\ \A f \in File : f = t.file => binding'[f].status \notin Busy
  BY PublishRows DEF BInv, Busy
<1>11. Awaited'
  BY <1>1, <1>2, <1>7, <1>9, <1>10, StatusStep
<1> QED
  BY <1>9, <1>11

LEMMA RowStepWaits == ASSUME BInv, NEW x \in TaskId, RowStep(x) PROVE OrderOK' /\ Awaited'
  BY BindWaits, UnbindWaits, UpdateStatusWaits, ColumnsWait, PublishWaits DEF RowStep

(* The steps that leave the rows and the queue alone and go on.            *)
LEMMA ReadStep ==
  ASSUME BInv, NEW x \in TaskId, NEW s, At(x, s), Onward(x), UNCHANGED <<binding, job>>,
         s \notin {"discover", "preprocess", "status", "publish"}
  PROVE  OrderOK' /\ Awaited'
  BY PlainStep

LEMMA BlobStepsWait ==
  ASSUME BInv, NEW x \in TaskId,
         \/ PutLayouts(x) \/ PutManifest(x) \/ PutCache(x) \/ DropCache(x)
         \/ PutParsed(x) \/ PutMatch(x) \/ DropMatch(x) \/ DropVictimMatch(x)
         \/ PutVerdict(x)
  PROVE  OrderOK' /\ Awaited'
<1>1. PICK s \in {"layouts", "manifest", "cache", "uncache", "parsed", "result",
                  "unmatch", "drop", "verdict"} :
        At(x, s) /\ Continue(x) /\ UNCHANGED <<binding, job>>
  BY DEF PutLayouts, PutManifest, PutCache, DropCache, PutParsed, PutMatch,
         DropMatch, DropVictimMatch, PutVerdict, PutBlob
<1> QED
  BY <1>1, ContinueOnward, ReadStep DEF BInv

LEMMA StopWaits ==
  ASSUME BInv, NEW x \in TaskId, NEW s \in {"inflight", "reread"}, At(x, s), Stop(x),
         UNCHANGED <<binding, job>>
  PROVE  OrderOK' /\ Awaited'
<1> DEFINE d == task[x].todo
<1>1. /\ d \in Seq(Steps) /\ d # <<>> /\ Head(d) = s
  BY DEF BInv, Inv, TypeOK, Task, At
<1>2. x \notin JobId
  BY Standing DEF BInv, JobSteps
<1>3. /\ task'[x] = Idle
      /\ \A y \in TaskId : y # x => task'[y] = task[y]
  BY DEF BInv, Inv, TypeOK, Stop
<1>4. Announces(Idle.todo)
  BY DEF Idle, Announces
<1>5. ASSUME NEW y \in Request PROVE Announces(task'[y].todo)
  BY <1>3, <1>4 DEF BInv, OrderOK, TaskId
<1>6. \A j \in JobId : task'[j] = task[j]
  BY <1>2, <1>3 DEF TaskId
<1>7. OrderOK'
  BY <1>5, <1>6 DEF BInv, OrderOK, OwnFile
<1>8. ASSUME NEW f \in File, binding'[f].status \in Busy PROVE Pending(f)'
  <2>1. Pending(f)
    BY <1>8 DEF BInv, Awaited
  <2>2. ~AskedBy(x, f)
    <3>1. 1 \in 1..Len(d) /\ d[1] = s
      BY <1>1, TailSteps
    <3>2. ~Lacks(d, "inflight") \/ ~Lacks(d, "reread")
      BY <3>1 DEF Lacks
    <3> QED
      BY <3>2 DEF AskedBy, Committed
  <2>3. Inv /\ \A j \in JobId : job'[j] = job[j]
    BY DEF BInv
  <2> QED
    BY <1>2, <1>3, <2>1, <2>2, <2>3, OthersStand
<1> QED
  BY <1>7, <1>8 DEF Awaited

(* A job whose task starts afresh.                                         *)
LEMMA JobReplaced ==
  ASSUME BInv, NEW j \in JobId, NEW t, task' = [task EXCEPT ![j] = t],
         EndsLast(t.todo), t.status \notin Busy, UNCHANGED binding,
         \A i \in JobId : i # j => job'[i] = job[i],
         job'[j].kind = job[j].kind, job'[j].file = job[j].file,
         t # Idle => /\ job'[j].state # "queued"
                     /\ job[j].kind \in {"discover", "preprocess"}
                          => t.file = job[j].file /\ Shows(t.todo),
         job[j].state \in {"queued", "running"} =>
           job'[j].state \in {"queued", "running"}
  PROVE  OrderOK' /\ Awaited'
<1>1. j \in TaskId /\ j \notin Request
  BY Disjoint DEF TaskId
<1>2. /\ task'[j] = t
      /\ \A y \in TaskId : y # j => task'[y] = task[y]
  BY <1>1 DEF BInv, Inv, TypeOK
<1>3. ASSUME NEW y \in Request PROVE Announces(task'[y].todo)
  BY <1>1, <1>2 DEF BInv, OrderOK, TaskId
<1>4. ASSUME NEW i \in JobId
      PROVE  /\ EndsLast(task'[i].todo) /\ task'[i].status \notin Busy
             /\ OwnFile(i)'
  <2>1. CASE i = j
    BY <1>2, <2>1 DEF OwnFile
  <2>2. CASE i # j
    BY <1>2, <2>2 DEF BInv, OrderOK, OwnFile, TaskId
  <2> QED
    BY <2>1, <2>2
<1>5. OrderOK'
  BY <1>3, <1>4 DEF OrderOK, OwnFile
<1>6. ASSUME NEW f \in File, binding'[f].status \in Busy PROVE Pending(f)'
  <2>1. Pending(f)
    BY <1>6 DEF BInv, Awaited
  <2>2. ASSUME ServedBy(j, f) PROVE Pending(f)'
    <3>1. /\ job'[j].file = f /\ job'[j].kind \in {"discover", "preprocess"}
          /\ job'[j].state \in {"queued", "running"}
      BY <2>2 DEF ServedBy
    <3>2. task'[j] = Idle \/ Shows(task'[j].todo)
      <4>1. job[j].kind \in {"discover", "preprocess"}
        BY <3>1
      <4>2. t # Idle => Shows(t.todo)
        BY <4>1
      <4> QED
        BY <1>2, <4>2, Zenon
    <3>3. ServedBy(j, f)'
      BY <3>1, <3>2, Zenon DEF ServedBy
    <3> QED
      BY <3>3 DEF Pending
  <2> QED
    BY <1>1, <1>2, <2>1, <2>2, OthersStand DEF BInv
<1> QED
  BY <1>5, <1>6 DEF Awaited

LEMMA FailWaits ==
  ASSUME BInv, NEW j \in JobId, Fail(j), UNCHANGED <<binding, job>>,
         job[j].state # "queued"
  PROVE  OrderOK' /\ Awaited'
<1> DEFINE t == Failing(j)
<1>1. CASE job[j].kind \in {"discover", "preprocess"}
  <2>1. /\ t.todo = <<"status", "fail">> /\ t.file = job[j].file /\ t.status = "error"
    BY <1>1 DEF Failing, Idle
  <2>2. EndsLast(<<"status", "fail">>) /\ Shows(<<"status", "fail">>)
    BY DEF EndsLast, Shows, Lacks
  <2> HIDE DEF t
  <2> QED
    BY <1>1, <2>1, <2>2, JobReplaced DEF Fail, t, Busy
<1>2. CASE job[j].kind \notin {"discover", "preprocess"}
  <2>1. /\ t.todo = <<"fail">> /\ t.status = "ready"
    BY <1>2 DEF Failing, Idle
  <2>2. EndsLast(<<"fail">>)
    BY DEF EndsLast
  <2> HIDE DEF t
  <2> QED
    BY <1>2, <2>1, <2>2, JobReplaced DEF Fail, t, Busy
<1> QED
  BY <1>1, <1>2

LEMMA ReadsWait ==
  ASSUME BInv, NEW x \in TaskId,
         \/ FindInflight(x) \/ Reread(x) \/ Resolve(x) \/ Flatten(x)
         \/ ReadRegions(x) \/ LoadParsed(x) \/ MaterialiseBundle(x)
  PROVE  OrderOK' /\ Awaited'
<1>1. PICK s \in {"inflight", "reread", "resolve", "flatten", "region", "load", "bundle"} :
        /\ At(x, s) /\ UNCHANGED <<binding, job>>
        /\ \/ Onward(x)
           \/ s \in {"inflight", "reread"} /\ Stop(x)
           \/ s \in {"region", "load", "bundle"} /\ Fail(x)
  <2>0. Inv
    BY DEF BInv
  <2>1. \A u : Reads(x, u) => Onward(x)
    BY DEF Reads, Onward
  <2>2. CASE FindInflight(x)
    BY <2>0, <2>2, ContinueOnward DEF FindInflight
  <2>3. CASE Reread(x)
    BY <2>0, <2>1, <2>3, RereadShape DEF Reread
  <2>4. CASE Resolve(x)
    BY <2>0, <2>1, <2>4, ResolveShape DEF Resolve
  <2>5. CASE Flatten(x)
    BY <2>0, <2>1, <2>5, FlattenShape DEF Flatten
  <2>6. CASE ReadRegions(x)
    BY <2>0, <2>1, <2>6, ReadRegionsShape DEF ReadRegions
  <2>7. CASE LoadParsed(x)
    BY <2>0, <2>1, <2>7, LoadParsedShape DEF LoadParsed
  <2>8. CASE MaterialiseBundle(x)
    BY <2>0, <2>1, <2>8, MaterialiseBundleShape DEF MaterialiseBundle
  <2> QED
    BY <2>2, <2>3, <2>4, <2>5, <2>6, <2>7, <2>8
<1>2. CASE Onward(x)
  BY <1>1, <1>2, ReadStep
<1>3. CASE s \in {"inflight", "reread"} /\ Stop(x)
  BY <1>1, <1>3, StopWaits
<1>4. CASE s \in {"region", "load", "bundle"} /\ Fail(x)
  <2>1. x \in JobId /\ task[x] # Idle
    <3>1. task[x].todo # <<>>
      BY <1>1 DEF At
    <3>2. x \in JobId
      BY <1>1, <1>4, Standing DEF BInv, HandlerSteps
    <3> QED
      BY <3>1, <3>2, IdleSound
  <2>2. job[x].state # "queued"
    BY <2>1 DEF BInv, OrderOK, OwnFile
  <2> QED
    BY <1>1, <1>4, <2>1, <2>2, FailWaits
<1> QED
  BY <1>1, <1>2, <1>3, <1>4

LEMMA EnqueueWaits ==
  ASSUME BInv, NEW x \in TaskId, NEW s, At(x, s), NEW p, Enqueue(x, p),
         s \notin JobSteps, p.state = "queued", p.file = task[x].file,
         s \in {"discover", "preprocess"} => p.kind = s
  PROVE  OrderOK' /\ Awaited'
<1> DEFINE d == task[x].todo
<1>1. Continue(x) /\ UNCHANGED binding
  BY DEF Enqueue
<1>2. PICK j \in JobId : job[j].state = "unborn" /\ job' = [job EXCEPT ![j] = p]
  BY DEF Enqueue
<1>3. /\ job'[j] = p
      /\ \A i \in JobId : i # j => job'[i] = job[i]
  BY <1>2 DEF BInv, Inv, TypeOK
<1>4. /\ d \in Seq(Steps) /\ d # <<>> /\ Head(d) = s
  BY DEF BInv, Inv, TypeOK, Task, At
<1>5. x \in Request /\ x \notin JobId
  BY Standing DEF BInv, TaskId
<1>6. Onward(x)
  BY <1>1, ContinueOnward DEF BInv
<1>7. /\ \A y \in TaskId : y # x => task'[y] = task[y]
      /\ \/ Len(d) = 1 /\ task'[x] = Idle
         \/ /\ Len(d) > 1
            /\ task'[x].todo = Tail(d)
            /\ task'[x].file = task[x].file
            /\ task'[x].status = task[x].status
            /\ task'[x] # Idle
  BY <1>4, <1>6, OnwardGives DEF BInv
<1>8. OrderOK'
  <2>1. \A i \in JobId : task[i] # Idle => i # j
    BY <1>2 DEF BInv, Inv, JobsOK
  <2>2. \A i \in JobId : task[i] # Idle =>
          /\ job'[i].kind = job[i].kind /\ job'[i].file = job[i].file
          /\ job'[i].state = "queued" => job[i].state = "queued"
    BY <1>3, <2>1
  <2> QED
    BY <1>4, <1>6, <2>2, OrderOnward DEF BInv
<1> HIDE DEF d
<1>9. ASSUME NEW f \in File, binding'[f].status \in Busy PROVE Pending(f)'
  <2>1. Pending(f)
    BY <1>1, <1>9 DEF BInv, Awaited
  <2>2. ASSUME AskedBy(x, f) PROVE Pending(f)'
    <3>1. CASE s \in {"discover", "preprocess"}
      <4>1. ServedBy(j, f)'
        BY <1>3, <2>2, <3>1 DEF AskedBy, ServedBy
      <4> QED
        BY <4>1 DEF Pending
    <3>2. CASE s \notin {"discover", "preprocess"}
      <4>1. Committed(Tail(d)) /\ Len(d) # 1
        BY <1>4, <2>2, <3>2, CommittedTail DEF AskedBy, d
      <4>2. task'[x].todo = Tail(d) /\ task'[x].file = task[x].file
        BY <1>7, <4>1, Zenon
      <4>3. AskedBy(x, f)'
        BY <2>2, <4>1, <4>2, Zenon DEF AskedBy
      <4> QED
        BY <1>5, <4>3 DEF Pending
    <3> QED
      BY <3>1, <3>2
  <2>3. \A i \in JobId : i # x /\ job[i].state # "unborn" => job'[i] = job[i]
    BY <1>2, <1>3
  <2> QED
    BY <1>5, <1>7, <2>1, <2>2, <2>3, OthersStand DEF BInv
<1> QED
  BY <1>8, <1>9 DEF Awaited

LEMMA EnqueuesWait ==
  ASSUME BInv, NEW x \in TaskId,
         \/ EnqueueDiscover(x) \/ EnqueuePreprocess(x, "preprocess", TRUE)
         \/ EnqueuePreprocess(x, "reprocess", FALSE)
         \/ EnqueueMatch(x) \/ EnqueueCheck(x)
  PROVE  OrderOK' /\ Awaited'
<1>0. \A kind \in Kinds : /\ Queued(x, kind).state = "queued"
                          /\ Queued(x, kind).kind = kind
                          /\ Queued(x, kind).file = task[x].file
  BY DEF Queued, NoJob
<1>1. PICK s \in {"discover", "preprocess", "reprocess", "match", "check"} :
        At(x, s) /\ \E p : /\ Enqueue(x, p) /\ p.state = "queued"
                           /\ p.file = task[x].file
                           /\ s \in {"discover", "preprocess"} => p.kind = s
  <2>1. CASE EnqueueDiscover(x)
    <3> DEFINE p == [Queued(x, "discover") EXCEPT !.tab = task[x].tab]
    <3>1. At(x, "discover") /\ Enqueue(x, p)
      BY <2>1 DEF EnqueueDiscover
    <3>2. p.state = "queued" /\ p.file = task[x].file /\ p.kind = "discover"
      BY DEF Queued, NoJob
    <3> HIDE DEF p
    <3> QED
      BY <3>1, <3>2
  <2>2. ASSUME NEW c \in BOOLEAN, NEW e \in {"preprocess", "reprocess"},
               EnqueuePreprocess(x, e, c)
        PROVE  At(x, e) /\ \E p : /\ Enqueue(x, p) /\ p.state = "queued"
                                  /\ p.file = task[x].file
                                  /\ p.kind = "preprocess"
    <3> DEFINE p == [Queued(x, "preprocess")
                       EXCEPT !.layers = task[x].layers, !.tab = task[x].tab,
                              !.unit = task[x].unit, !.cached = c]
    <3>1. At(x, e) /\ Enqueue(x, p)
      BY <2>2 DEF EnqueuePreprocess
    <3>2. p.state = "queued" /\ p.file = task[x].file /\ p.kind = "preprocess"
      BY DEF Queued, NoJob
    <3> HIDE DEF p
    <3> QED
      BY <3>1, <3>2
  <2>3. CASE EnqueueMatch(x)
    BY <1>0, <2>3 DEF EnqueueMatch, Kinds
  <2>4. CASE EnqueueCheck(x)
    <3> DEFINE p == [Queued(x, "check") EXCEPT !.files = task[x].files]
    <3>1. At(x, "check") /\ Enqueue(x, p)
      BY <2>4 DEF EnqueueCheck
    <3>2. p.state = "queued" /\ p.file = task[x].file
      BY DEF Queued, NoJob
    <3> HIDE DEF p
    <3> QED
      BY <3>1, <3>2
  <2> QED
    BY <2>1, <2>2, <2>3, <2>4
<1>2. s \notin JobSteps
  BY DEF JobSteps
<1> QED
  BY <1>1, <1>2, EnqueueWaits

LEMMA SettleWaits ==
  ASSUME BInv, NEW x \in TaskId,
         Settle(x, "end", "done") \/ Settle(x, "fail", "error")
  PROVE  OrderOK' /\ Awaited'
<1> DEFINE d == task[x].todo
<1>1. PICK s \in {"end", "fail"}, o \in {"done", "error"} :
        /\ At(x, s) /\ Continue(x) /\ UNCHANGED binding
        /\ job' = [job EXCEPT ![x].state = o]
  BY DEF Settle
<1>2. /\ d \in Seq(Steps) /\ d # <<>> /\ Head(d) = s
  BY <1>1 DEF BInv, Inv, TypeOK, Task, At
<1>3. x \in JobId /\ x \notin Request
  <2>1. x \in JobId
    BY <1>1, Standing DEF BInv, HandlerSteps
  <2> QED
    BY <2>1, Disjoint
<1>4. Onward(x)
  BY <1>1, ContinueOnward DEF BInv
<1>5. \A y \in TaskId : y # x => task'[y] = task[y]
  BY <1>2, <1>4, OnwardGives DEF BInv
<1>6. /\ job[x] \in Job /\ job'[x] = [job[x] EXCEPT !.state = o]
      /\ \A i \in JobId : i # x => job'[i] = job[i]
  BY <1>1, <1>3 DEF BInv, Inv, TypeOK
<1>7. /\ job'[x].state = o /\ job'[x].kind = job[x].kind /\ job'[x].file = job[x].file
  BY <1>6 DEF Job
<1>8. OrderOK'
  <2>1. \A j \in JobId : task[j] # Idle =>
          /\ job'[j].kind = job[j].kind /\ job'[j].file = job[j].file
          /\ job'[j].state = "queued" => job[j].state = "queued"
    BY <1>1, <1>6, <1>7
  <2> QED
    BY <1>2, <1>4, <2>1, OrderOnward DEF BInv
<1>9. ASSUME NEW f \in File, binding'[f].status \in Busy PROVE Pending(f)'
  <2>1. Pending(f)
    BY <1>1, <1>9 DEF BInv, Awaited
  <2>2. ~ServedBy(x, f)
    <3>1. EndsLast(d)
      BY <1>3 DEF BInv, OrderOK
    <3>2. ~Shows(d)
      BY <1>1, <1>2, <3>1, EndsLastHead
    <3>3. task[x] # Idle /\ job[x].state # "queued"
      BY <1>2, <1>3, IdleSound DEF BInv, OrderOK, OwnFile
    <3> QED
      BY <1>2, <1>3, <3>2, <3>3, Served
  <2> QED
    BY <1>3, <1>5, <1>6, <2>1, <2>2, OthersStand DEF BInv
<1> QED
  BY <1>8, <1>9 DEF Awaited

LEMMA TaskStepWaits == ASSUME BInv, NEW x \in TaskId, TaskStep(x) PROVE OrderOK' /\ Awaited'
<1>1. CASE RowStep(x)
  BY <1>1, RowStepWaits
<1>2. CASE DropMatch(x)
  BY <1>2, BlobStepsWait
<1>3. CASE HandlerStep(x)
  BY <1>3, ReadsWait, EnqueuesWait, BlobStepsWait DEF HandlerStep
<1>4. CASE JobStep(x)
  BY <1>4, ReadsWait, BlobStepsWait, SettleWaits DEF JobStep
<1> QED
  BY <1>1, <1>2, <1>3, <1>4 DEF TaskStep

(* The first step of e is among those of d followed by e.                  *)
LEMMA ShowsConcat ==
  ASSUME NEW d \in Seq(Steps), NEW e \in Seq(Steps), Len(e) = 2,
         e[1] \in {"status", "publish"}
  PROVE  Shows(d \o e)
<1> DEFINE n == Len(d) + 1
<1>1. Len(d) \in Nat /\ Len(d \o e) = Len(d) + 2
  <2>1. Len(d) \in Nat /\ Len(d \o e) = Len(d) + Len(e)
    BY ConcatElements
  <2>2. Len(d) + Len(e) = Len(d) + 2
    OBVIOUS
  <2> QED
    BY <2>1, <2>2, Zenon
<1>2. n \in 1..Len(d \o e) /\ n > Len(d) /\ n - Len(d) = 1
  BY <1>1
<1>3. (d \o e)[n] = e[1]
  BY <1>2, ConcatElements
<1> HIDE DEF n
<1>4. CASE e[1] = "status"
  BY <1>2, <1>3, <1>4, Zenon DEF Shows, Lacks
<1>5. CASE e[1] = "publish"
  BY <1>2, <1>3, <1>5, Zenon DEF Shows, Lacks
<1> QED
  BY <1>4, <1>5

(* What a job does ends with its outcome, and a discover or a preprocess
   shows its outcome on the binding.                                       *)
LEMMA PlanShows ==
  ASSUME NEW j \in JobId, job[j] \in Job
  PROVE  /\ EndsLast(Plan(j))
         /\ job[j].kind \in {"discover", "preprocess"} => Shows(Plan(j))
<1>0. job[j].kind \in Kinds
  BY DEF Job
<1>1. CASE job[j].kind = "discover"
  <2> DEFINE a == IF NeedsLayoutPick(j) THEN <<"layouts">> ELSE <<"manifest", "cache">>
             e == <<"status", "end">>
  <2>1. Plan(j) = a \o e
    BY <1>1 DEF Plan
  <2>2. a \in Seq(Steps) /\ Lacks(a, "end") /\ Lacks(a, "fail")
    <3>1. CASE NeedsLayoutPick(j)
      BY <3>1 DEF Lacks, Steps
    <3>2. CASE ~NeedsLayoutPick(j)
      BY <3>2 DEF Lacks, Steps
    <3> QED
      BY <3>1, <3>2
  <2>3. e \in Seq(Steps) /\ EndsLast(e) /\ e[1] = "status" /\ Len(e) = 2
    BY DEF Steps, EndsLast
  <2> HIDE DEF a, e
  <2>4. EndsLast(a \o e)
    BY <2>2, <2>3, EndsLastConcat
  <2>6. Shows(a \o e)
    BY <2>2, <2>3, ShowsConcat
  <2> QED
    BY <2>1, <2>4, <2>6
<1>2. CASE job[j].kind = "preprocess"
  <2> DEFINE a == <<"flatten", "parsed">>
             m == IF job[j].cached THEN <<"uncache">> ELSE <<>>
             e == <<"publish", "end">>
  <2>1. Plan(j) = a \o m \o e
    BY <1>2 DEF Plan
  <2>2. a \in Seq(Steps) /\ Lacks(a, "end") /\ Lacks(a, "fail")
    BY DEF Lacks, Steps
  <2>3. m \in Seq(Steps) /\ Lacks(m, "end") /\ Lacks(m, "fail")
    <3>1. CASE job[j].cached
      BY <3>1 DEF Lacks, Steps
    <3>2. CASE ~job[j].cached
      BY <3>2 DEF Lacks, Steps
    <3> QED
      BY <3>1, <3>2
  <2>4. e \in Seq(Steps) /\ EndsLast(e) /\ e[1] = "publish" /\ Len(e) = 2
    BY DEF Steps, EndsLast
  <2> HIDE DEF a, m, e
  <2>5. a \o m \in Seq(Steps) /\ Lacks(a \o m, "end") /\ Lacks(a \o m, "fail")
    BY <2>2, <2>3, LacksConcat
  <2> DEFINE c == a \o m
  <2>6. c \in Seq(Steps) /\ Lacks(c, "end") /\ Lacks(c, "fail") /\ Plan(j) = c \o e
    BY <2>1, <2>5
  <2> HIDE DEF c
  <2>7. EndsLast(c \o e)
    BY <2>4, <2>6, EndsLastConcat
  <2>9. Shows(c \o e)
    BY <2>4, <2>6, ShowsConcat
  <2> QED
    BY <2>6, <2>7, <2>9
<1>3. CASE job[j].kind = "match"
  <2>1. Plan(j) = <<"region", "load", "result", "save", "end">>
    BY <1>3 DEF Plan
  <2>2. EndsLast(<<"region", "load", "result", "save", "end">>)
    BY DEF EndsLast
  <2> QED
    BY <1>3, <2>1, <2>2
<1>4. CASE job[j].kind = "check"
  <2>1. Plan(j) = <<"bundle", "verdict", "end">>
    BY <1>4 DEF Plan
  <2>2. EndsLast(<<"bundle", "verdict", "end">>)
    BY DEF EndsLast
  <2> QED
    BY <1>4, <2>1, <2>2
<1> QED
  BY <1>0, <1>1, <1>2, <1>3, <1>4 DEF Kinds

LEMMA ClaimWaits == ASSUME BInv, NEW j \in JobId, Claim(j) PROVE OrderOK' /\ Awaited'
<1> DEFINE r == job[j]
           status == IF NeedsLayoutPick(j) THEN "awaiting_layout" ELSE "awaiting_layers"
           d == Plan(j)
           u == [Idle EXCEPT !.todo = d, !.file = r.file,
                             !.files = r.files, !.layers = r.layers,
                             !.tab = r.tab, !.unit = r.unit,
                             !.cached = r.cached, !.status = status]
           n == r.attempts + 1
           k == [r EXCEPT !.state = "running", !.attempts = n]
<1>1. /\ task' = [task EXCEPT ![j] = u] /\ job' = [job EXCEPT ![j] = k]
      /\ UNCHANGED binding
  BY DEF Claim
<1>2. r \in Job /\ job \in [JobId -> Job]
  BY DEF BInv, Inv, TypeOK
<1>3. EndsLast(d) /\ (r.kind \in {"discover", "preprocess"} => Shows(d))
  BY <1>2, PlanShows
<1>4. status \notin Busy
  BY DEF Busy
<1>5. Idle \in Task
  BY IdleSound
<1> HIDE DEF d, status, n, r
<1>6. u.todo = d /\ u.file = r.file /\ u.status = status
  BY <1>5 DEF Task
<1>7. k.state = "running" /\ k.kind = r.kind /\ k.file = r.file
  BY <1>2 DEF Job
<1> HIDE DEF u, k
<1>8. /\ job'[j] = k /\ \A i \in JobId : i # j => job'[i] = job[i]
  BY <1>1, <1>2
<1> QED
  BY <1>1, <1>3, <1>4, <1>6, <1>7, <1>8, JobReplaced DEF r

LEMMA RequeueWaits == ASSUME BInv, NEW j \in JobId, Requeue(j) PROVE OrderOK' /\ Awaited'
<1>1. /\ task[j] = Idle /\ UNCHANGED <<binding, task>>
      /\ job' = [job EXCEPT ![j].state = "queued"]
  BY DEF Requeue, Orphaned
<1>2. /\ job[j] \in Job /\ job'[j] = [job[j] EXCEPT !.state = "queued"]
      /\ \A i \in JobId : i # j => job'[i] = job[i]
      /\ task' = [task EXCEPT ![j] = Idle]
  BY <1>1 DEF BInv, Inv, TypeOK
<1>3. job'[j].state = "queued" /\ job'[j].kind = job[j].kind /\ job'[j].file = job[j].file
  BY <1>2 DEF Job
<1>4. EndsLast(Idle.todo) /\ Idle.status \notin Busy
  BY DEF EndsLast, Idle, Busy
<1> QED
  BY <1>1, <1>2, <1>3, <1>4, JobReplaced

LEMMA CrashWaits == ASSUME BInv, NEW j \in JobId, Crash(j) PROVE OrderOK' /\ Awaited'
<1>1. task' = [task EXCEPT ![j] = Idle] /\ UNCHANGED <<binding, job>>
  BY DEF Crash, Stop
<1>2. EndsLast(Idle.todo) /\ Idle.status \notin Busy
  BY DEF EndsLast, Idle, Busy
<1> QED
  BY <1>1, <1>2, JobReplaced

LEMMA FailuresWait ==
  ASSUME BInv, NEW j \in JobId, Expire(j) \/ WorkRaises(j)
  PROVE  OrderOK' /\ Awaited'
<1>1. Fail(j) /\ UNCHANGED <<binding, job>>
  BY DEF Expire, WorkRaises
<1>2. job[j].state # "queued"
  <2>1. CASE Expire(j)
    BY <2>1 DEF Expire, Orphaned, Running
  <2>2. CASE WorkRaises(j)
    <3>1. task[j] # Idle
      BY <2>2, IdleSound DEF WorkRaises, At
    <3> QED
      BY <3>1 DEF BInv, OrderOK, OwnFile
  <2> QED
    BY <2>1, <2>2
<1> QED
  BY <1>1, <1>2, FailWaits

(* A new handler announces what it will enqueue.                           *)
LEMMA CalledWaits ==
  ASSUME BInv, NEW op, NEW t, Call(op, t), Announces(t.todo)
  PROVE  OrderOK' /\ Awaited'
<1>1. PICK x \in Request : task[x] = Idle /\ task' = [task EXCEPT ![x] = t]
  BY DEF Call
<1>2. UNCHANGED <<binding, job>>
  BY DEF Call
<1>3. x \in TaskId /\ x \notin JobId
  BY Disjoint DEF TaskId
<1>4. task'[x] = t /\ \A y \in TaskId : y # x => task'[y] = task[y]
  BY <1>1, <1>3 DEF BInv, Inv, TypeOK
<1>5. ASSUME NEW y \in Request PROVE Announces(task'[y].todo)
  BY <1>4 DEF BInv, OrderOK, TaskId
<1>6. \A j \in JobId : task'[j] = task[j]
  BY <1>3, <1>4 DEF TaskId
<1>7. OrderOK'
  BY <1>2, <1>5, <1>6 DEF BInv, OrderOK, OwnFile
<1>8. ASSUME NEW f \in File, binding'[f].status \in Busy PROVE Pending(f)'
  <2>1. Pending(f)
    BY <1>2, <1>8 DEF BInv, Awaited
  <2>2. ~AskedBy(x, f)
    <3>1. task[x].todo = <<>>
      BY <1>1, IdleSound
    <3>2. Lacks(<<>>, "discover") /\ Lacks(<<>>, "preprocess")
      BY DEF Lacks
    <3> QED
      BY <3>1, <3>2 DEF AskedBy, Committed, Asks
  <2> QED
    BY <1>2, <1>3, <1>4, <2>1, <2>2, OthersStand DEF BInv
<1> QED
  BY <1>7, <1>8 DEF Awaited

(* A handler that neither binds nor writes a status announces nothing.     *)
LEMMA AnnouncesNothing ==
  ASSUME NEW d, Lacks(d, "bind"), Lacks(d, "status")
  PROVE  Announces(d)
  BY DEF Lacks, Announces

(* What the handlers are left to do, as they are called.                   *)
LEMMA HandlersAnnounce ==
  /\ Announces(<<"bind", "resolve", "discover">>)
  /\ Announces(<<"bind", "resolve", "preprocess">>)
  /\ Announces(<<"unbind", "drop", "bind", "resolve", "discover">>)
  /\ Announces(<<"unbind", "drop">>)
  /\ Announces(<<"inflight", "reread", "unit", "status", "resolve", "preprocess">>)
  /\ Announces(<<"views", "unmatch", "unsave">>)
  /\ Announces(<<"layers", "status", "resolve", "preprocess">>)
  /\ Announces(<<"status", "resolve", "discover">>)
  /\ Announces(<<"match">>) /\ Announces(<<"check">>) /\ Announces(<<"reprocess">>)
<1>1. /\ Announces(<<"bind", "resolve", "discover">>)
      /\ Announces(<<"bind", "resolve", "preprocess">>)
      /\ Announces(<<"status", "resolve", "discover">>)
  BY DEF Announces
<1>2. Announces(<<"unbind", "drop", "bind", "resolve", "discover">>)
  BY DEF Announces
<1>3. Announces(<<"inflight", "reread", "unit", "status", "resolve", "preprocess">>)
  BY DEF Announces
<1>4. Announces(<<"layers", "status", "resolve", "preprocess">>)
  BY DEF Announces
<1>5. /\ Announces(<<"unbind", "drop">>)
      /\ Announces(<<"views", "unmatch", "unsave">>)
      /\ Announces(<<"match">>) /\ Announces(<<"check">>)
      /\ Announces(<<"reprocess">>)
  BY DEF Announces
<1> QED
  BY <1>1, <1>2, <1>3, <1>4, <1>5

LEMMA ConfirmLayoutWaits ==
  ASSUME BInv, NEW f \in File, NEW tab \in PaperTabs[f], ConfirmLayout(f, tab)
  PROVE  OrderOK' /\ Awaited'
<1> DEFINE drop == IF tab # binding[f].tab THEN <<"unmatch", "unsave">> ELSE <<>>
           e == <<"status", "resolve", "discover">>
           d == <<"tab">> \o drop \o e
           h == Handler(f, d)
           t == [h EXCEPT !.tab = tab, !.status = "discovering"]
<1>1. /\ <<"tab">> \in Seq(Steps) /\ drop \in Seq(Steps) /\ e \in Seq(Steps)
      /\ Lacks(<<"tab">>, "bind") /\ Lacks(<<"tab">>, "status")
      /\ Lacks(drop, "bind") /\ Lacks(drop, "status")
  <2>1. /\ <<"tab">> \in Seq(Steps) /\ e \in Seq(Steps)
        /\ Lacks(<<"tab">>, "bind") /\ Lacks(<<"tab">>, "status")
    BY DEF Steps, Lacks
  <2>2. CASE tab # binding[f].tab
    BY <2>1, <2>2 DEF Steps, Lacks
  <2>3. CASE ~(tab # binding[f].tab)
    BY <2>1, <2>3 DEF Steps, Lacks
  <2> QED
    BY <2>2, <2>3
<1>2. Announces(e)
  BY HandlersAnnounce
<1>3. Call("layout", t)
  BY DEF ConfirmLayout
<1>4. d \in Seq(Steps) /\ Announces(d)
  <2> HIDE DEF drop, e
  <2> DEFINE c == <<"tab">> \o drop
  <2>0. c \in Seq(Steps)
    BY <1>1
  <2>1. c \in Seq(Steps) /\ Lacks(c, "bind") /\ Lacks(c, "status")
    BY <1>1, <2>0, LacksConcat
  <2> HIDE DEF c
  <2>2. Announces(c \o e)
    BY <1>1, <1>2, <2>1, AnnouncesConcat
  <2>3. c \o e \in Seq(Steps)
    BY <1>1, <2>1
  <2> QED
    BY <2>2, <2>3 DEF c
<1> HIDE DEF d
<1>5. h \in Task /\ h.todo = d
  BY <1>4, HandlerTask
<1> HIDE DEF h
<1>6. t.todo = d
  BY <1>5 DEF Task
<1> HIDE DEF t
<1> QED
  BY <1>3, <1>4, <1>6, CalledWaits

LEMMA FileCallWaits ==
  ASSUME BInv, NEW f \in File, FileCall(f)
  PROVE  OrderOK' /\ Awaited'
<1>0. \A d \in Seq(Steps) : Handler(f, d) \in Task /\ Handler(f, d).todo = d
  BY HandlerTask
<1>1. CASE Upload(f)
  <2> DEFINE d == <<"bind", "resolve", "discover">>
             h == Handler(f, d)
             t == [h EXCEPT !.status = "discovering"]
  <2>1. d \in Seq(Steps) /\ Announces(d)
    BY HandlersAnnounce DEF Steps
  <2>2. Call("upload", t)
    BY <1>1 DEF Upload
  <2> HIDE DEF d
  <2>3. h \in Task /\ h.todo = d
    BY <1>0, <2>1
  <2> HIDE DEF h
  <2>4. t.todo = d
    BY <2>3 DEF Task
  <2> HIDE DEF t
  <2> QED
    BY <2>1, <2>2, <2>4, CalledWaits
<1>2. CASE UploadSkippingLayers(f)
  <2> DEFINE d == <<"bind", "resolve", "preprocess">>
             h == Handler(f, d)
             t == [h EXCEPT !.status = "preprocessing"]
  <2>1. d \in Seq(Steps) /\ Announces(d)
    BY HandlersAnnounce DEF Steps
  <2>2. Call("skip", t)
    BY <1>2 DEF UploadSkippingLayers
  <2> HIDE DEF d
  <2>3. h \in Task /\ h.todo = d
    BY <1>0, <2>1
  <2> HIDE DEF h
  <2>4. t.todo = d
    BY <2>3 DEF Task
  <2> HIDE DEF t
  <2> QED
    BY <2>1, <2>2, <2>4, CalledWaits
<1>3. CASE DeleteFile(f)
  <2> DEFINE d == <<"unbind", "drop">>
             h == Handler(f, d)
             t == [h EXCEPT !.victim = f]
  <2>1. d \in Seq(Steps) /\ Announces(d)
    BY HandlersAnnounce DEF Steps
  <2>2. Call("delete", t)
    BY <1>3 DEF DeleteFile
  <2> HIDE DEF d
  <2>3. h \in Task /\ h.todo = d
    BY <1>0, <2>1
  <2> HIDE DEF h
  <2>4. t.todo = d
    BY <2>3 DEF Task
  <2> HIDE DEF t
  <2> QED
    BY <2>1, <2>2, <2>4, CalledWaits
<1>4. ASSUME NEW g \in File, Replace(f, g)
      PROVE  OrderOK' /\ Awaited'
  <2> DEFINE d == <<"unbind", "drop", "bind", "resolve", "discover">>
             h == Handler(f, d)
             t == [h EXCEPT !.victim = g, !.status = "discovering"]
  <2>1. d \in Seq(Steps) /\ Announces(d)
    BY HandlersAnnounce DEF Steps
  <2>2. Call("replace", t)
    BY <1>4 DEF Replace
  <2> HIDE DEF d
  <2>3. h \in Task /\ h.todo = d
    BY <1>0, <2>1
  <2> HIDE DEF h
  <2>4. t.todo = d
    BY <2>3 DEF Task
  <2> HIDE DEF t
  <2> QED
    BY <2>1, <2>2, <2>4, CalledWaits
<1>5. ASSUME NEW u \in Unit, UnitOverride(f, u)
      PROVE  OrderOK' /\ Awaited'
  <2> DEFINE d == <<"inflight", "reread", "unit", "status", "resolve", "preprocess">>
             h == Handler(f, d)
             t == [h EXCEPT !.unit = u, !.status = "preprocessing"]
  <2>1. d \in Seq(Steps) /\ Announces(d)
    BY HandlersAnnounce DEF Steps
  <2>2. Call("unit", t)
    BY <1>5 DEF UnitOverride
  <2> HIDE DEF d
  <2>3. h \in Task /\ h.todo = d
    BY <1>0, <2>1
  <2> HIDE DEF h
  <2>4. t.todo = d
    BY <2>3 DEF Task
  <2> HIDE DEF t
  <2> QED
    BY <2>1, <2>2, <2>4, CalledWaits
<1>6. ASSUME NEW v \in View \cup {None}, SideRegions(f, v)
      PROVE  OrderOK' /\ Awaited'
  <2> DEFINE d == <<"views", "unmatch", "unsave">>
             h == Handler(f, d)
             t == [h EXCEPT !.views = v]
  <2>1. d \in Seq(Steps) /\ Announces(d)
    BY HandlersAnnounce DEF Steps
  <2>2. Call("regions", t)
    BY <1>6 DEF SideRegions
  <2> HIDE DEF d
  <2>3. h \in Task /\ h.todo = d
    BY <1>0, <2>1
  <2> HIDE DEF h
  <2>4. t.todo = d
    BY <2>3 DEF Task
  <2> HIDE DEF t
  <2> QED
    BY <2>1, <2>2, <2>4, CalledWaits
<1>7. ASSUME NEW l \in Layers, ConfirmLayers(f, l)
      PROVE  OrderOK' /\ Awaited'
  <2> DEFINE d == <<"layers", "status", "resolve", "preprocess">>
             h == Handler(f, d)
             t == [h EXCEPT !.layers = l, !.status = "preprocessing"]
  <2>1. d \in Seq(Steps) /\ Announces(d)
    BY HandlersAnnounce DEF Steps
  <2>2. Call("layers", t)
    BY <1>7 DEF ConfirmLayers
  <2> HIDE DEF d
  <2>3. h \in Task /\ h.todo = d
    BY <1>0, <2>1
  <2> HIDE DEF h
  <2>4. t.todo = d
    BY <2>3 DEF Task
  <2> HIDE DEF t
  <2> QED
    BY <2>1, <2>2, <2>4, CalledWaits
<1>8. CASE DiscoverLayers(f)
  <2> DEFINE d == <<"status", "resolve", "discover">>
             h == Handler(f, d)
             t == [h EXCEPT !.status = "discovering"]
  <2>1. d \in Seq(Steps) /\ Announces(d)
    BY HandlersAnnounce DEF Steps
  <2>2. Call("discover", t)
    BY <1>8 DEF DiscoverLayers
  <2> HIDE DEF d
  <2>3. h \in Task /\ h.todo = d
    BY <1>0, <2>1
  <2> HIDE DEF h
  <2>4. t.todo = d
    BY <2>3 DEF Task
  <2> HIDE DEF t
  <2> QED
    BY <2>1, <2>2, <2>4, CalledWaits
<1>9. CASE SaveMatch(f)
  <2> DEFINE d == <<"match">>
             h == Handler(f, d)
             t == h
  <2>1. d \in Seq(Steps) /\ Announces(d)
    BY HandlersAnnounce DEF Steps
  <2>2. Call("match", t)
    BY <1>9 DEF SaveMatch
  <2> HIDE DEF d
  <2>3. h \in Task /\ h.todo = d
    BY <1>0, <2>1
  <2> HIDE DEF h
  <2>4. t.todo = d
    BY <2>3 DEF Task
  <2> HIDE DEF t
  <2> QED
    BY <2>1, <2>2, <2>4, CalledWaits
<1>10. ASSUME NEW tab \in PaperTabs[f], ConfirmLayout(f, tab)
      PROVE  OrderOK' /\ Awaited'
  BY <1>10, ConfirmLayoutWaits
<1>11. CASE Reprocess(f)
  <2> DEFINE d == <<"reprocess">>
             h == Handler(f, d)
             row == binding[f]
             t == [h EXCEPT !.layers = row.layers, !.tab = row.tab, !.unit = row.unit]
  <2>1. d \in Seq(Steps) /\ Announces(d)
    BY HandlersAnnounce DEF Steps
  <2>2. Call("reprocess", t)
    BY <1>11 DEF Reprocess
  <2> HIDE DEF d, row
  <2>3. h \in Task /\ h.todo = d
    BY <1>0, <2>1
  <2> HIDE DEF h
  <2>4. t.todo = d
    BY <2>3 DEF Task
  <2> HIDE DEF t
  <2> QED
    BY <2>1, <2>2, <2>4, CalledWaits
<1> QED
  BY <1>1, <1>2, <1>3, <1>4, <1>5, <1>6, <1>7, <1>8, <1>9, <1>10, <1>11 DEF FileCall

LEMMA RuleCheckWaits == ASSUME BInv, RuleCheck PROVE OrderOK' /\ Awaited'
<1> DEFINE d == <<"check">>
           files == {f \in File : Bound(f)}
           h == Handler(None, d)
           t == [h EXCEPT !.files = files]
<1>1. d \in Seq(Steps) /\ Announces(d)
  BY HandlersAnnounce DEF Steps
<1>2. Call("check", t)
  BY DEF RuleCheck
<1> HIDE DEF d, files
<1>3. h \in Task /\ h.todo = d
  BY <1>1, HandlerTask
<1> HIDE DEF h
<1>4. t.todo = d
  BY <1>3 DEF Task
<1> HIDE DEF t
<1> QED
  BY <1>1, <1>2, <1>4, CalledWaits

LEMMA UnchangedWaits ==
  ASSUME BInv, UNCHANGED <<binding, job, task>>
  PROVE  OrderOK' /\ Awaited'
<1>1. OrderOK'
  BY DEF BInv, OrderOK, OwnFile
<1>2. ASSUME NEW f \in File, Pending(f) PROVE Pending(f)'
  BY <1>2 DEF Pending, AskedBy, ServedBy
<1>3. Awaited'
  BY <1>2 DEF BInv, Awaited
<1> QED
  BY <1>1, <1>3

LEMMA NextWaits ==
  ASSUME BInv, Next, "web" \notin Faults, "callback" \notin Faults
  PROVE  BInv'
<1>1. Inv'
  BY NextInv DEF BInv
<1>2. OrderOK' /\ Awaited'
  <2>1. CASE \E f \in File : FileCall(f)
    BY <2>1, FileCallWaits
  <2>2. CASE RuleCheck
    BY <2>2, RuleCheckWaits
  <2>3. CASE SignOff \/ Unsign
    BY <2>3, UnchangedWaits DEF SignOff, Unsign
  <2>4. CASE \E x \in TaskId : TaskStep(x)
    BY <2>4, TaskStepWaits
  <2>5. CASE \E j \in JobId : Claim(j) \/ Requeue(j) \/ Crash(j) \/ Expire(j)
                                \/ WorkRaises(j)
    BY <2>5, ClaimWaits, RequeueWaits, CrashWaits, FailuresWait
  <2>6. CASE (\E j \in JobId : CallbackRaises(j)) \/ \E x \in Request : WebDies(x)
    BY <2>6 DEF CallbackRaises, WebDies, Fault
  <2> QED
    BY <2>1, <2>2, <2>3, <2>4, <2>5, <2>6 DEF Next
<1> QED
  BY <1>1, <1>2 DEF BInv

LEMMA InitWaits == ASSUME Init PROVE BInv
<1>1. Inv
  BY InitInv
<1>2. Idle.todo = <<>> /\ Idle.status \notin Busy
  BY DEF Idle, Busy
<1>3. Announces(<<>>) /\ EndsLast(<<>>)
  BY DEF Announces, EndsLast
<1>4. \A x \in TaskId : task[x] = Idle
  BY DEF Init
<1>5. OrderOK
  BY <1>2, <1>3, <1>4 DEF OrderOK, OwnFile, TaskId
<1>6. \A f \in File : binding[f].status = "unbound"
  BY DEF Init, Fresh
<1>7. Awaited
  BY <1>6 DEF Awaited, Busy
<1> QED
  BY <1>1, <1>5, <1>7 DEF BInv

LEMMA AwaitedPends == ASSUME BInv PROVE BusyIsPending
<1> SUFFICES ASSUME NEW f \in File, binding[f].status \in Busy
             PROVE  \/ \E x \in Request : Promises(x, f, {"discover", "preprocess"})
                    \/ \E j \in JobId : Unfinished(j) /\ job[j].file = f
                                        /\ job[j].kind \in {"discover", "preprocess"}
  BY DEF BusyIsPending, Busy
<1>1. Pending(f)
  BY DEF BInv, Awaited
<1>2. ASSUME NEW x \in Request, AskedBy(x, f)
      PROVE  Promises(x, f, {"discover", "preprocess"})
  <2>1. task[x].todo \in Seq(Steps)
    BY DEF BInv, Inv, TypeOK, Task, TaskId
  <2>2. DOMAIN task[x].todo = 1..Len(task[x].todo)
    BY <2>1
  <2>3. PICK i \in 1..Len(task[x].todo) : task[x].todo[i] \in {"discover", "preprocess"}
    BY <1>2 DEF AskedBy, Committed, Asks, Lacks
  <2> QED
    BY <1>2, <2>2, <2>3 DEF AskedBy, Promises
<1>3. ASSUME NEW j \in JobId, ServedBy(j, f)
      PROVE  /\ Unfinished(j) /\ job[j].file = f
             /\ job[j].kind \in {"discover", "preprocess"}
  BY <1>3 DEF ServedBy, Unfinished, Waiting, Running
<1> QED
  BY <1>1, <1>2, <1>3 DEF Pending

(* A file that reads discovering or preprocessing has work pending that
   will change it, for every order in which handlers and jobs finish,
   through crashes, retries and failures.  The two faults left out break
   it: a handler that dies between its UPDATE and its INSERT, and a success
   callback that raises (app/main.py, app/jobs.py apply_success).          *)
THEOREM BusyIsAwaited ==
  ASSUME "web" \notin Faults, "callback" \notin Faults
  PROVE  Spec => []BusyIsPending
<1>1. ASSUME BInv, UNCHANGED vars PROVE BInv'
  BY <1>1, StutterInv, UnchangedWaits DEF BInv, vars
<1>2. BInv /\ [Next]_vars => BInv'
  BY <1>1, NextWaits
<1> QED
  BY <1>2, InitWaits, AwaitedPends, PTL DEF Spec

=============================================================================
