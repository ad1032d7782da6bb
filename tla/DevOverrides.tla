---------------------------- MODULE DevOverrides ----------------------------
(***************************************************************************)
(* The developer overrides (app/dev_overrides.py): tunables of matching    *)
(* and preprocessing that are module attributes of each process.  A POST   *)
(* changes those of the web process; a preprocess carries the ones that    *)
(* are not default to the pool process it runs in, which sets them there   *)
(* and goes on to the next job (app/jobs.py, app/worker_loop.py).          *)
(***************************************************************************)
EXTENDS Naturals, FiniteSets

CONSTANTS
  Name,     \* the allow-list
  Value,
  Default,  \* Default[n]: the compiled default
  Accepted, \* Accepted[n]: what _coerce accepts, a NaN included
  Process,  \* the worker pool's processes
  MaxJobs,  \* bound: jobs submitted
  MaxPosts, \* bound: POST /api/dev/settings
  MaxStops, \* bound: processes that die, and web restarts
  None

DevOverridesAssumption ==
  /\ Default \in [Name -> Value]
  /\ \A n \in Name : Accepted[n] \subseteq Value /\ Default[n] \in Accepted[n]
  /\ {MaxJobs, MaxPosts, MaxStops} \subseteq Nat
  /\ None \notin Process

Jobs == 1..MaxJobs
Settings == [Name -> Value]

VARIABLES
  web,   \* the attributes in the web process
  pool,  \* pool[p]: those in a pool process, None before it is started
  job,   \* job[j]
  posts, stops

vars == <<web, pool, job, posts, stops>>

(* current: the attributes when the job was submitted, for the properties; *)
(* used: those it ran under.                                               *)
Unborn == [state |-> "unborn", kind |-> None, snapshot |-> <<>>, current |-> None,
           process |-> None, used |-> None]

Kind == {"preprocess", "save_match"}

(* Every attribute is, in every process, a value that _coerce accepts. *)
TypeOK ==
  /\ \A n \in Name : web[n] \in Accepted[n]
  /\ \A p \in Process : pool[p] # None => \A n \in Name : pool[p][n] \in Accepted[n]
  /\ \A j \in Jobs :
       /\ job[j].state \in {"unborn", "queued", "running", "done"}
       /\ DOMAIN job[j].snapshot \subseteq Name
       /\ job[j].used # None => job[j].used \in Settings

Init ==
  /\ web = [n \in Name |-> Default[n]]
  /\ pool = [p \in Process |-> None]
  /\ job = [j \in Jobs |-> Unborn]
  /\ posts = 0
  /\ stops = 0

(* A body may name any subset of the allow-list, with any values. *)
Overrides == UNION {[S -> Value] : S \in SUBSET Name \ {{}}}

(* Mutant: apply does not validate the values. *)
AnyValue(o) == TRUE

(* apply's validation: every entry, before any is set. *)
Valid(o) == \A n \in DOMAIN o : o[n] \in Accepted[n]

Updated(s, o) == [n \in Name |-> IF n \in DOMAIN o THEN o[n] ELSE s[n]]

(* POST /api/dev/settings: apply, or a 400 that touches nothing. *)
Apply(o) ==
  /\ posts < MaxPosts /\ posts' = posts + 1
  /\ Valid(o)
  /\ web' = Updated(web, o)
  /\ UNCHANGED <<pool, job, stops>>

(* POST {"reset": true} *)
Reset ==
  /\ posts < MaxPosts /\ posts' = posts + 1
  /\ web' = [n \in Name |-> Default[n]]
  /\ UNCHANGED <<pool, job, stops>>

(* snapshot_non_default *)
Snapshot == [n \in {m \in Name : web[m] # Default[m]} |-> web[n]]

(* submit_preprocess, submit_reprocess_all, submit_save_match. *)
Submit(j, kind) ==
  /\ job[j].state = "unborn" /\ \A k \in 1..(j - 1) : job[k].state # "unborn"
  /\ job' = [job EXCEPT ![j] = [Unborn EXCEPT !.state = "queued", !.kind = kind,
               !.snapshot = IF kind = "preprocess" THEN Snapshot ELSE <<>>, !.current = web]]
  /\ UNCHANGED <<web, pool, posts, stops>>

(* The pool starts a process: a fork has the web process's attributes, a   *)
(* spawn the compiled ones.                                                *)
StartProcess(p) ==
  /\ pool[p] = None
  /\ pool' = [pool EXCEPT ![p] = web] \/ pool' = [pool EXCEPT ![p] = Default]
  /\ UNCHANGED <<web, job, posts, stops>>

Free(p) == pool[p] # None /\ \A j \in Jobs : job[j].process # p

(* Mutant: the worker does not apply the snapshot it was sent. *)
RunWithout(j, p) ==
  /\ job[j].state = "queued" /\ Free(p)
  /\ job' = [job EXCEPT ![j].state = "running", ![j].process = p, ![j].used = pool[p]]
  /\ UNCHANGED <<web, pool, posts, stops>>

(* The head of _preprocess_worker; the other workers apply no snapshot. *)
Run(j, p) ==
  /\ job[j].state = "queued" /\ Free(p)
  /\ pool' = [pool EXCEPT ![p] = Updated(@, job[j].snapshot)]
  /\ job' = [job EXCEPT ![j].state = "running", ![j].process = p, ![j].used = pool'[p]]
  /\ UNCHANGED <<web, posts, stops>>

(* The result is reaped; the process keeps its attributes. *)
Finish(j) ==
  /\ job[j].state = "running"
  /\ job' = [job EXCEPT ![j].state = "done", ![j].process = None]
  /\ UNCHANGED <<web, pool, posts, stops>>

(* A process dies and its job is queued again. *)
Die(p) ==
  /\ stops < MaxStops /\ stops' = stops + 1
  /\ pool[p] # None
  /\ pool' = [pool EXCEPT ![p] = None]
  /\ job' = [j \in Jobs |-> IF job[j].process = p
                            THEN [job[j] EXCEPT !.state = "queued", !.process = None, !.used = None]
                            ELSE job[j]]
  /\ UNCHANGED <<web, posts>>

(* The web process restarts; its jobs are in the database. *)
Restart ==
  /\ stops < MaxStops /\ stops' = stops + 1
  /\ web' = [n \in Name |-> Default[n]]
  /\ UNCHANGED <<pool, job, posts>>

Next ==
  \/ \E o \in Overrides : Apply(o)
  \/ Reset \/ Restart
  \/ \E j \in Jobs, k \in Kind : Submit(j, k)
  \/ \E p \in Process : StartProcess(p) \/ Die(p)
  \/ \E j \in Jobs, p \in Process : Run(j, p)
  \/ \E j \in Jobs : Finish(j)

Spec == Init /\ [][Next]_vars

-----------------------------------------------------------------------------
Overridden(j) == {n \in Name : job[j].current[n] # Default[n]}

(* The comment of jobs._current_dev_overrides: what is overridden when a   *)
(* preprocess is submitted reaches the process that runs it, whatever ran  *)
(* there before and whether it was restarted.                              *)
OverridesReach ==
  \A j \in Jobs : job[j].kind = "preprocess" /\ job[j].used # None
                  => \A n \in Overridden(j) : job[j].used[n] = job[j].current[n]
=============================================================================
