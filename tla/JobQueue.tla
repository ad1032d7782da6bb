------------------------------ MODULE JobQueue ------------------------------
(***************************************************************************)
(* The database-backed job queue (app/jobstore.py) and the worker loops    *)
(* that drain it (app/worker_loop.py), with the fan-out of reprocess-all   *)
(* (app/jobs.py).                                                          *)
(*                                                                         *)
(* Any number of web replicas insert rows; any number of worker loops      *)
(* claim, execute and settle them.  They share nothing but the jobs table, *)
(* so the unit of atomicity is one database transaction: every action      *)
(* below is at most one transaction of one worker or one web handler, and  *)
(* a crash or a database error may fall between any two of them.           *)
(*                                                                         *)
(* Time is abstract.  heartbeat_at is "fresh" or "stale" (older than       *)
(* STALE_AFTER_SECONDS); submitted_at is the order of the row numbers.     *)
(* What a job computes and its effect on the file binding are in           *)
(* FilePipeline; here a job only returns or raises.                        *)
(***************************************************************************)
EXTENDS Integers, FiniteSets

CONSTANTS
  Worker,       \* identities of the worker loops, "hostname:pid"
  MaxJobs,      \* bound: rows ever inserted
  MaxAttempts,  \* MAX_ATTEMPTS
  Slots,        \* max_workers, the size of a loop's process pool
  Faults,       \* the kinds of fault that may happen
  MaxFaults,    \* bound: faults in one behaviour
  None          \* SQL NULL

(***************************************************************************)
(* "crash"  a worker process dies (pod evicted, OOM, deploy)               *)
(* "db"     a transaction raises; run_forever logs it, the tick is lost    *)
(* "pool"   a pool child is killed: every future raises BrokenProcessPool  *)
(*          and the executor refuses work from then on                     *)
(* "pause"  a live loop makes no heartbeat for 120 s                       *)
(* "raise"  a job function, its plan or its success callback raises        *)
(* "web"    a web replica dies between two inserts of a fan-out            *)
(* "week"   RETENTION_SECONDS pass while a loop is in its maintenance      *)
(***************************************************************************)
FaultKinds == {"crash", "db", "pool", "pause", "raise", "web", "week"}

ASSUME ConstantsAssumption ==
  /\ MaxJobs \in Nat
  /\ MaxAttempts \in Nat \ {0}
  /\ Slots \in Nat \ {0}
  /\ Faults \subseteq FaultKinds
  /\ MaxFaults \in Nat
  /\ None \notin Worker
  /\ None \notin Nat
  /\ None \notin {"fresh", "stale"}

VARIABLES
  rows,     \* the jobs table
  alive,    \* alive[w]: the worker process is up
  broken,   \* broken[w]: its ProcessPoolExecutor is broken
  future,   \* future[w][j]: the future _inflight holds for row j
  tick,     \* tick[w]: where run_once stands
  web,      \* the reprocess-all handler that is inserting children
  faults    \* faults so far

vars == <<rows, alive, broken, future, tick, web, faults>>

JobId == 1..MaxJobs

(* A row that was never inserted, or that prune deleted, matches no WHERE. *)
Row == [status     : {"unborn", "queued", "running", "done", "error", "pruned"},
        parent     : JobId \cup {None},
        total      : Nat,
        done       : Nat,
        errors     : SUBSET JobId,
        attempts   : Nat,
        claimed_by : Worker \cup {None},
        heartbeat  : {None, "fresh", "stale"}]

UnbornRow == [status |-> "unborn", parent |-> None, total |-> 0, done |-> 0,
              errors |-> {}, attempts |-> 0, claimed_by |-> None,
              heartbeat |-> None]

(***************************************************************************)
(* The position of run_once: the statement it is at, the job it is         *)
(* handling, how that job ended, where the handling returns to, the jobs   *)
(* still to be looped over, and the parent's error list as last read.      *)
(***************************************************************************)
Steps == {"idle", "reap", "claim", "take", "submit", "log", "append", "bump",
          "close", "settle", "beat", "maintain", "exhausted", "expire", "prune"}

Tick == [step    : Steps,
         job     : JobId \cup {None},
         outcome : {"done", "error"},
         back    : {"reap", "claim", "expire"},
         todo    : SUBSET JobId,
         seen    : SUBSET JobId]

BetweenTicks == [step |-> "idle", job |-> None, outcome |-> "done",
                 back |-> "reap", todo |-> {}, seen |-> {}]

NoFanOut == [parent |-> None, left |-> 0]
FanOut(p, n) == IF n = 0 THEN NoFanOut ELSE [parent |-> p, left |-> n]

TypeOK ==
  /\ rows \in [JobId -> Row]
  /\ alive \in [Worker -> BOOLEAN]
  /\ broken \in [Worker -> BOOLEAN]
  /\ future \in [Worker -> [JobId -> {"none", "running", "returned", "raised"}]]
  /\ tick \in [Worker -> Tick]
  /\ web \in [parent : JobId \cup {None}, left : Nat]
  /\ faults \in Nat

Init ==
  /\ rows = [j \in JobId |-> UnbornRow]
  /\ alive = [w \in Worker |-> TRUE]
  /\ broken = [w \in Worker |-> FALSE]
  /\ future = [w \in Worker |-> [j \in JobId |-> "none"]]
  /\ tick = [w \in Worker |-> BetweenTicks]
  /\ web = NoFanOut
  /\ faults = 0

-----------------------------------------------------------------------------
(* Helper state functions.                                                 *)

Exists(j)  == rows[j].status \notin {"unborn", "pruned"}
Settled(j) == rows[j].status \in {"done", "error", "pruned"}
Children(p) == {j \in JobId : rows[j].parent = p}

(* Row numbers follow submitted_at, so insertion takes the next number.    *)
NextId(j) == /\ rows[j].status = "unborn"
             /\ \A i \in JobId : rows[i].status = "unborn" => j <= i

(* SELECT id ... WHERE status = 'queued' ORDER BY submitted_at LIMIT 1     *)
OldestQueued(j) == /\ rows[j].status = "queued"
                   /\ \A i \in JobId : rows[i].status = "queued" => j <= i

Inflight(w) == {j \in JobId : future[w][j] # "none"}
DoneFutures(w) == {j \in JobId : future[w][j] \in {"returned", "raised"}}

Fault(kind) == /\ kind \in Faults
               /\ faults < MaxFaults
               /\ faults' = faults + 1

Goto(w, t) == tick' = [tick EXCEPT ![w] = t]
Move(w, step) == Goto(w, [tick[w] EXCEPT !.step = step])

-----------------------------------------------------------------------------
(* The transactions of JobStore, as the new value of the table.            *)

Inserted(j, status, parent, total) ==
  [rows EXCEPT ![j] = [UnbornRow EXCEPT !.status = status, !.parent = parent,
                                        !.total = total]]

Claimed(j, w) ==
  [rows EXCEPT ![j] = [@ EXCEPT !.status = "running", !.claimed_by = w,
                                !.heartbeat = "fresh",
                                !.attempts = rows[j].attempts + 1]]

(* Every running row of this identity, whether or not it is in _inflight.  *)
Heartbeats(w) ==
  [j \in JobId |->
     IF rows[j].status = "running" /\ rows[j].claimed_by = w
     THEN [rows[j] EXCEPT !.heartbeat = "fresh"] ELSE rows[j]]

(* complete and fail: UPDATE ... WHERE id = ?, whatever the status.        *)
Ended(j, outcome) ==
  IF Exists(j) THEN [rows EXCEPT ![j].status = outcome] ELSE rows

Bumped(p) ==
  IF Exists(p) THEN [rows EXCEPT ![p].done = @ + 1] ELSE rows

(* Mutant: the close compares with >, so the last bump is one short.       *)
ClosedLate(p) ==
  IF rows[p].status = "running" /\ rows[p].done > rows[p].total
  THEN [rows EXCEPT ![p].status = "done"] ELSE rows

Closed(p) ==
  IF rows[p].status = "running" /\ rows[p].done >= rows[p].total
  THEN [rows EXCEPT ![p].status = "done"] ELSE rows

ErrorsWritten(p, errors) ==
  IF Exists(p) THEN [rows EXCEPT ![p].errors = errors] ELSE rows

(* Mutants: the requeue without its attempts limit, and one off by one.    *)
RequeueableAlways(j) == rows[j].status = "running" /\ rows[j].heartbeat = "stale"
RequeueableShort(j) == /\ rows[j].status = "running"
                       /\ rows[j].heartbeat = "stale"
                       /\ rows[j].attempts + 1 < MaxAttempts

Requeueable(j) == /\ rows[j].status = "running"
                  /\ rows[j].heartbeat = "stale"
                  /\ rows[j].attempts < MaxAttempts

Requeued ==
  [j \in JobId |->
     IF Requeueable(j)
     THEN [rows[j] EXCEPT !.status = "queued", !.claimed_by = None,
                          !.heartbeat = None]
     ELSE rows[j]]

StaleExhausted == {j \in JobId : /\ rows[j].status = "running"
                                 /\ rows[j].heartbeat = "stale"
                                 /\ rows[j].attempts >= MaxAttempts}

Pruned(S) == [j \in JobId |-> IF j \in S THEN [rows[j] EXCEPT !.status = "pruned"]
                                         ELSE rows[j]]

-----------------------------------------------------------------------------
(* The web handlers.                                                       *)

(* submit_preprocess, submit_discover_layers, submit_save_match and
   submit_rule_check: one queued row.                                      *)
Submit ==
  /\ \E j \in JobId : NextId(j) /\ rows' = Inserted(j, "queued", None, 0)
  /\ UNCHANGED <<alive, broken, future, tick, web, faults>>

(* submit_reprocess_all inserts the parent, already "running" and without
   a heartbeat, then one child per eligible binding.                       *)
SubmitParent(n) ==
  /\ web.left = 0
  /\ \E p \in JobId :
       /\ NextId(p)
       /\ p + n <= MaxJobs
       /\ rows' = Inserted(p, IF n = 0 THEN "done" ELSE "running", None, n)
       /\ web' = FanOut(p, n)
  /\ UNCHANGED <<alive, broken, future, tick, faults>>

SubmitChild ==
  /\ web.left > 0
  /\ \E j \in JobId : NextId(j) /\ rows' = Inserted(j, "queued", web.parent, 0)
  /\ web' = FanOut(web.parent, web.left - 1)
  /\ UNCHANGED <<alive, broken, future, tick, faults>>

WebCrash ==
  /\ web.left > 0
  /\ Fault("web")
  /\ web' = NoFanOut
  /\ UNCHANGED <<rows, alive, broken, future, tick>>

-----------------------------------------------------------------------------
(* run_once, part 1: reap.                                                 *)

(* The list of finished futures is taken once, at the start of the tick.   *)
StartTick(w) ==
  /\ tick[w].step = "idle"
  /\ alive[w]
  /\ Goto(w, [tick[w] EXCEPT
                !.step = IF DoneFutures(w) = {} THEN "claim" ELSE "reap",
                !.todo = DoneFutures(w)])
  /\ UNCHANGED <<rows, alive, broken, future, web, faults>>

(* Mutant: a failed child is logged nowhere and not counted.               *)
FirstStepSkipsFailures(j, outcome) ==
  IF rows[j].parent = None \/ outcome = "error" THEN "settle" ELSE "bump"

(* The first statement of settling j: a failure of a child is first logged
   on its parent, a success bumps the parent at once.                      *)
FirstStep(j, outcome) ==
  CASE rows[j].parent = None -> "settle"
    [] rows[j].parent # None /\ outcome = "error" -> "log"
    [] OTHER -> "bump"

Handle(w, j, outcome, back) ==
  Goto(w, [step |-> FirstStep(j, outcome), job |-> j, outcome |-> outcome,
           back |-> back, todo |-> tick[w].todo \ {j}, seen |-> {}])

(* Mutants: the finished future stays in _inflight; the state of the future
   is taken for the outcome of the job.                                    *)
ReapKeepsFuture(w) ==
  /\ tick[w].step = "reap"
  /\ \E j \in tick[w].todo :
       \/ /\ future[w][j] = "returned" /\ Handle(w, j, "done", "reap")
          /\ UNCHANGED faults
       \/ /\ future[w][j] = "raised" /\ Handle(w, j, "error", "reap")
          /\ UNCHANGED faults
       \/ /\ future[w][j] = "returned" /\ Handle(w, j, "error", "reap")
          /\ Fault("raise")
  /\ UNCHANGED <<rows, alive, broken, future, web>>

ReapRawOutcome(w) ==
  /\ tick[w].step = "reap"
  /\ \E j \in tick[w].todo :
       /\ future' = [future EXCEPT ![w][j] = "none"]
       /\ Handle(w, j, future[w][j], "reap")
  /\ UNCHANGED <<rows, alive, broken, web, faults>>

(* Pop one finished future.  A returned job still fails when its success
   callback raises.                                                        *)
Reap(w) ==
  /\ tick[w].step = "reap"
  /\ \E j \in tick[w].todo :
       /\ future' = [future EXCEPT ![w][j] = "none"]
       /\ \/ /\ future[w][j] = "returned" /\ Handle(w, j, "done", "reap")
             /\ UNCHANGED faults
          \/ /\ future[w][j] = "raised" /\ Handle(w, j, "error", "reap")
             /\ UNCHANGED faults
          \/ /\ future[w][j] = "returned" /\ Handle(w, j, "error", "reap")
             /\ Fault("raise")
  /\ UNCHANGED <<rows, alive, broken, web>>

EndReap(w) ==
  /\ tick[w].step = "reap"
  /\ tick[w].todo = {}
  /\ Move(w, "claim")
  /\ UNCHANGED <<rows, alive, broken, future, web, faults>>

-----------------------------------------------------------------------------
(* Settling one job: append_parent_error (a read and a write),
   bump_parent_done (an increment and a conditional close), and last the
   row of the job itself.                                                  *)

ReadErrors(w) ==
  /\ tick[w].step = "log"
  /\ LET p == rows[tick[w].job].parent IN
     Goto(w, [tick[w] EXCEPT !.step = IF Exists(p) THEN "append" ELSE "bump",
                             !.seen = rows[p].errors])
  /\ UNCHANGED <<rows, alive, broken, future, web, faults>>

AppendError(w) ==
  /\ tick[w].step = "append"
  /\ rows' = ErrorsWritten(rows[tick[w].job].parent,
                           tick[w].seen \cup {tick[w].job})
  /\ Goto(w, [tick[w] EXCEPT !.step = "bump", !.seen = {}])
  /\ UNCHANGED <<alive, broken, future, web, faults>>

BumpParent(w) ==
  /\ tick[w].step = "bump"
  /\ rows' = Bumped(rows[tick[w].job].parent)
  /\ Move(w, "close")
  /\ UNCHANGED <<alive, broken, future, web, faults>>

CloseParent(w) ==
  /\ tick[w].step = "close"
  /\ rows' = Closed(rows[tick[w].job].parent)
  /\ Move(w, "settle")
  /\ UNCHANGED <<alive, broken, future, web, faults>>

Settle(w) ==
  /\ tick[w].step = "settle"
  /\ rows' = Ended(tick[w].job, tick[w].outcome)
  /\ Goto(w, [tick[w] EXCEPT !.step = tick[w].back, !.job = None,
                             !.outcome = "done"])
  /\ UNCHANGED <<alive, broken, future, web, faults>>

-----------------------------------------------------------------------------
(* run_once, part 2: claim while slots are free.                           *)

Select(w) ==
  /\ tick[w].step = "claim"
  /\ Cardinality(Inflight(w)) < Slots
  /\ \E j \in JobId :
       /\ OldestQueued(j)
       /\ Goto(w, [tick[w] EXCEPT !.step = "take", !.job = j])
  /\ UNCHANGED <<rows, alive, broken, future, web, faults>>

EndClaim(w) ==
  /\ tick[w].step = "claim"
  /\ \/ Cardinality(Inflight(w)) >= Slots
     \/ \A j \in JobId : rows[j].status # "queued"
  /\ Move(w, IF Inflight(w) = {} THEN "maintain" ELSE "beat")
  /\ UNCHANGED <<rows, alive, broken, future, web, faults>>

(* Mutant: the UPDATE of the claim without AND status = 'queued'.          *)
TakeUnguarded(w) ==
  /\ tick[w].step = "take"
  /\ rows' = Claimed(tick[w].job, w)
  /\ Move(w, "submit")
  /\ UNCHANGED <<alive, broken, future, web, faults>>

(* UPDATE ... WHERE id = ? AND status = 'queued'; on rowcount 0 pick again. *)
Take(w) ==
  /\ tick[w].step = "take"
  /\ LET j == tick[w].job IN
     \/ /\ rows[j].status = "queued"
        /\ rows' = Claimed(j, w)
        /\ Move(w, "submit")
     \/ /\ rows[j].status # "queued"
        /\ Goto(w, [tick[w] EXCEPT !.step = "claim", !.job = None])
        /\ UNCHANGED rows
  /\ UNCHANGED <<alive, broken, future, web, faults>>

Start(w) ==
  /\ tick[w].step = "submit"
  /\ ~broken[w]
  /\ future' = [future EXCEPT ![w][tick[w].job] = "running"]
  /\ Goto(w, [tick[w] EXCEPT !.step = "claim", !.job = None])
  /\ UNCHANGED <<rows, alive, broken, web, faults>>

(* execution_plan raises: a payload without a key, a kind it does not know. *)
PlanRaises(w) ==
  /\ tick[w].step = "submit"
  /\ Fault("raise")
  /\ Handle(w, tick[w].job, "error", "claim")
  /\ UNCHANGED <<rows, alive, broken, future, web>>

(* executor.submit on a broken pool raises out of the tick: the row stays
   running under this identity and no future stands for it.                *)
StartRefused(w) ==
  /\ tick[w].step = "submit"
  /\ broken[w]
  /\ Goto(w, BetweenTicks)
  /\ UNCHANGED <<rows, alive, broken, future, web, faults>>

-----------------------------------------------------------------------------
(* run_once, part 3: heartbeat and maintenance.                            *)

(* The heartbeat is due every 25 s; a tick that comes earlier skips it.    *)
Beat(w) ==
  /\ tick[w].step = "beat"
  /\ rows' \in {Heartbeats(w), rows}
  /\ Move(w, "maintain")
  /\ UNCHANGED <<alive, broken, future, web, faults>>

EndTick(w) ==
  /\ tick[w].step = "maintain"
  /\ Goto(w, BetweenTicks)
  /\ UNCHANGED <<rows, alive, broken, future, web, faults>>

(* Once a minute, by every loop.                                           *)
RequeueStale(w) ==
  /\ tick[w].step = "maintain"
  /\ rows' = Requeued
  /\ Move(w, "exhausted")
  /\ UNCHANGED <<alive, broken, future, web, faults>>

SelectExhausted(w) ==
  /\ tick[w].step = "exhausted"
  /\ Goto(w, [tick[w] EXCEPT
                !.step = IF StaleExhausted = {} THEN "prune" ELSE "expire",
                !.todo = StaleExhausted])
  /\ UNCHANGED <<rows, alive, broken, future, web, faults>>

Expire(w) ==
  /\ tick[w].step = "expire"
  /\ \E j \in tick[w].todo : Handle(w, j, "error", "expire")
  /\ UNCHANGED <<rows, alive, broken, future, web, faults>>

EndExpire(w) ==
  /\ tick[w].step = "expire"
  /\ tick[w].todo = {}
  /\ Move(w, "prune")
  /\ UNCHANGED <<rows, alive, broken, future, web, faults>>

EndMaintenance(w) ==
  /\ tick[w].step = "prune"
  /\ Goto(w, BetweenTicks)
  /\ UNCHANGED <<rows, alive, broken, future, web, faults>>

(* Rows that ended more than RETENTION_SECONDS ago.                        *)
Prune(w) ==
  /\ tick[w].step = "prune"
  /\ Fault("week")
  /\ \E S \in SUBSET {j \in JobId : rows[j].status \in {"done", "error"}} :
       rows' = Pruned(S)
  /\ Goto(w, BetweenTicks)
  /\ UNCHANGED <<alive, broken, future, web>>

-----------------------------------------------------------------------------
(* The pool and the environment.                                           *)

Finish(w, j) ==
  /\ future[w][j] = "running"
  /\ \/ future' = [future EXCEPT ![w][j] = "returned"] /\ UNCHANGED faults
     \/ future' = [future EXCEPT ![w][j] = "raised"] /\ Fault("raise")
  /\ UNCHANGED <<rows, alive, broken, tick, web>>

PoolBreaks(w) ==
  /\ \E j \in JobId : future[w][j] = "running"
  /\ Fault("pool")
  /\ future' = [future EXCEPT ![w] = [j \in JobId |->
                  IF future[w][j] = "running" THEN "raised" ELSE future[w][j]]]
  /\ broken' = [broken EXCEPT ![w] = TRUE]
  /\ UNCHANGED <<rows, alive, tick, web>>

Crash(w) ==
  /\ alive[w]
  /\ Fault("crash")
  /\ alive' = [alive EXCEPT ![w] = FALSE]
  /\ future' = [future EXCEPT ![w] = [j \in JobId |-> "none"]]
  /\ Goto(w, BetweenTicks)
  /\ UNCHANGED <<rows, broken, web>>

(* A restarted container keeps its host name and its process is again
   number 1, so the loop comes back under the same identity.               *)
Restart(w) ==
  /\ ~alive[w]
  /\ alive' = [alive EXCEPT ![w] = TRUE]
  /\ broken' = [broken EXCEPT ![w] = FALSE]
  /\ UNCHANGED <<rows, future, tick, web, faults>>

(* run_forever catches whatever a tick raises and starts the next one.     *)
TickRaises(w) ==
  /\ tick[w].step # "idle"
  /\ Fault("db")
  /\ Goto(w, BetweenTicks)
  /\ UNCHANGED <<rows, alive, broken, future, web>>

(* w is executing j or is between claiming and settling it.                *)
Holds(w, j) ==
  \/ future[w][j] # "none"
  \/ /\ tick[w].job = j
     /\ \/ tick[w].step = "submit"
        \/ /\ tick[w].step \in {"log", "append", "bump", "close", "settle"}
           /\ tick[w].back \in {"reap", "claim"}

(* Ticks take about a second, so a row of a loop with work in its pool is
   refreshed in time; so is a row the loop is about to start or settle.    *)
Silent(w, j) == ~alive[w] \/ (Inflight(w) = {} /\ ~Holds(w, j))

(* STALE_AFTER_SECONDS pass without a heartbeat of row j.                  *)
Lapse(j) ==
  /\ rows[j].status = "running"
  /\ rows[j].heartbeat = "fresh"
  /\ \/ Silent(rows[j].claimed_by, j) /\ UNCHANGED faults
     \/ ~Silent(rows[j].claimed_by, j) /\ Fault("pause")
  /\ rows' = [rows EXCEPT ![j].heartbeat = "stale"]
  /\ UNCHANGED <<alive, broken, future, tick, web>>

-----------------------------------------------------------------------------

Settling(w) == ReadErrors(w) \/ AppendError(w) \/ BumpParent(w)
               \/ CloseParent(w) \/ Settle(w)
Claiming(w) == Select(w) \/ EndClaim(w) \/ Take(w) \/ Start(w)
               \/ PlanRaises(w) \/ StartRefused(w)
Maintaining(w) == RequeueStale(w) \/ SelectExhausted(w) \/ Expire(w)
                  \/ EndExpire(w) \/ EndMaintenance(w) \/ Prune(w)

(* What the loop's own thread does when nothing goes wrong.                *)
Step(w) == StartTick(w) \/ Reap(w) \/ EndReap(w) \/ Settling(w) \/ Claiming(w)
           \/ Beat(w) \/ EndTick(w) \/ Maintaining(w)

Next ==
  \/ Submit \/ (\E n \in 0..MaxJobs : SubmitParent(n)) \/ SubmitChild
  \/ WebCrash
  \/ \E w \in Worker :
       \/ Step(w)
       \/ \E j \in JobId : Finish(w, j)
       \/ PoolBreaks(w) \/ Crash(w) \/ Restart(w) \/ TickRaises(w)
  \/ \E j \in JobId : Lapse(j)

(***************************************************************************)
(* Every loop's thread keeps running and is restarted by its supervisor,   *)
(* a job terminates, time passes, and maintenance comes due again and      *)
(* again.  Nothing is assumed of the users, and faults are finitely many.  *)
(***************************************************************************)
Fairness ==
  /\ \A w \in Worker :
       /\ WF_vars(Step(w))
       /\ WF_vars(Restart(w))
       /\ SF_vars(RequeueStale(w))
       /\ \A j \in JobId : WF_vars(Finish(w, j))
  /\ \A j \in JobId : WF_vars(Lapse(j) /\ UNCHANGED faults)
  /\ WF_vars(SubmitChild)

Spec == Init /\ [][Next]_vars
FairSpec == Spec /\ Fairness

-----------------------------------------------------------------------------
(* Properties.                                                             *)

(* A row that a worker could still claim has attempts left, and no row is
   ever claimed more than MAX_ATTEMPTS times: a job that kills every worker
   it meets is given up (requeue_stale and stale_exhausted split the stale
   rows between them and no third path leads back to "queued").            *)
AttemptsBounded ==
  \A j \in JobId :
    /\ rows[j].attempts <= MaxAttempts
    /\ rows[j].status = "queued" => rows[j].attempts < MaxAttempts

(* A job is never in the hands of two workers, and whoever executes or
   settles it still owns the claimed, running row: the promise of the
   two-step claim and of the heartbeat together, through crashes, restarts
   under the same identity, lost ticks and broken pools.                   *)
ExclusiveExecution ==
  \A w \in Worker, j \in JobId :
    Holds(w, j) => /\ rows[j].status = "running"
                   /\ rows[j].claimed_by = w
                   /\ \A v \in Worker : Holds(v, j) => v = w

(* How a job ended is final: the unguarded UPDATEs of complete and fail
   never turn a done job into a failed one or back, and no requeue revives
   it, although two loops may run maintenance on the same stale rows.      *)
SettledIsFinal ==
  [][\A j \in JobId :
       /\ rows[j].status \in {"done", "error"}
            => rows'[j].status \in {rows[j].status, "pruned"}
       /\ rows[j].status = "pruned" => rows'[j].status = "pruned"]_rows

(* Reprocess-all progress never lags: each child that ended was counted on
   its parent before, so a batch whose children have all been inserted and
   have all ended is itself closed, wherever a worker died in between.     *)
BatchCloses ==
  \A p \in JobId :
    /\ rows[p].total > 0
    /\ Cardinality(Children(p)) = rows[p].total
    /\ \A c \in Children(p) : Settled(c)
    => Settled(p)

(* Each submitted job ends, done or in error, as long as faults are
   finitely many: orphaned rows are found by their heartbeat, requeued or
   expired, also past a broken pool.                                       *)
JobsEnd ==
  \A j \in JobId :
    rows[j].status \in {"queued", "running"} /\ rows[j].total = 0
      ~> Settled(j)

(* A batch ends once its fan-out was not cut short.                        *)
BatchEnds ==
  \A p \in JobId :
    rows[p].total > 0 /\ Cardinality(Children(p)) = rows[p].total ~> Settled(p)

(* openspec job-queue, Parent progress, and the comment over
   submit_reprocess_all: the progress of the one parent covers every file,
   so a batch that reads done has run each of its children.  The code bumps
   the parent before it marks the child: a worker that dies in between
   makes the requeued child count twice, and the batch reads done while
   another child still waits in the queue.                                 *)
BatchDoneMeansAllRan ==
  \A p \in JobId :
    rows[p].total > 0 /\ rows[p].status = "done"
      => \A c \in Children(p) : rows[c].attempts > 0

=============================================================================
