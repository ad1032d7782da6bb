--------------------------- MODULE JobQueue_proofs ---------------------------
(***************************************************************************)
(* Proofs about JobQueue, for every number of workers, rows, attempts,     *)
(* slots and faults.  Three invariants, each proved on top of the one      *)
(* before: Inv (types and attempts), ProgressOK (what a batch has counted) *)
(* and, if no live loop falls silent, OwnersOK (who holds which job).      *)
(* Liveness is left to TLC.                                                *)
(***************************************************************************)
EXTENDS JobQueue, FiniteSetTheorems, TLAPS

-----------------------------------------------------------------------------
(* What each transaction does to the table: the type of the new table and  *)
(* the columns the proofs below look at.  The definitions of the           *)
(* transactions are not expanded again after this section.                 *)

Table == [JobId -> Row]

LEMMA InsertedRows ==
  ASSUME rows \in Table, NEW j \in JobId, NEW s \in {"queued", "running", "done"},
         NEW p \in JobId \cup {None}, NEW n \in Nat
  PROVE  /\ Inserted(j, s, p, n) \in Table
         /\ \A i \in JobId \ {j} : Inserted(j, s, p, n)[i] = rows[i]
         /\ Inserted(j, s, p, n)[j].status = s
         /\ Inserted(j, s, p, n)[j].parent = p
         /\ Inserted(j, s, p, n)[j].attempts = 0
         /\ Inserted(j, s, p, n)[j].claimed_by = None
         /\ Inserted(j, s, p, n)[j].heartbeat = None
BY DEF Table, Row, Inserted, UnbornRow

LEMMA ClaimedRows ==
  ASSUME rows \in Table, NEW j \in JobId, NEW w \in Worker
  PROVE  /\ Claimed(j, w) \in Table
         /\ \A i \in JobId \ {j} : Claimed(j, w)[i] = rows[i]
         /\ Claimed(j, w)[j].status = "running"
         /\ Claimed(j, w)[j].claimed_by = w
         /\ Claimed(j, w)[j].heartbeat = "fresh"
         /\ Claimed(j, w)[j].attempts = rows[j].attempts + 1
         /\ Claimed(j, w)[j].parent = rows[j].parent
<1> DEFINE r == [rows[j] EXCEPT !.status = "running", !.claimed_by = w,
                                !.heartbeat = "fresh",
                                !.attempts = rows[j].attempts + 1]
<1>1. rows[j] \in Row /\ rows[j].attempts + 1 \in Nat
  BY DEF Table, Row
<1>2. r \in Row
  BY <1>1 DEF Row
<1>3. /\ r.status = "running" /\ r.claimed_by = w /\ r.heartbeat = "fresh"
      /\ r.attempts = rows[j].attempts + 1 /\ r.parent = rows[j].parent
  BY <1>1 DEF Row
<1>4. Claimed(j, w) = [rows EXCEPT ![j] = r]
  BY DEF Claimed
<1> HIDE DEF r
<1>5. QED
  BY <1>2, <1>3, <1>4 DEF Table

LEMMA RequeuedRows ==
  ASSUME rows \in Table
  PROVE  /\ Requeued \in Table
         /\ \A i \in JobId :
              /\ Requeueable(i) => /\ Requeued[i].status = "queued"
                                   /\ Requeued[i].claimed_by = None
                                   /\ Requeued[i].heartbeat = None
                                   /\ Requeued[i].attempts = rows[i].attempts
                                   /\ Requeued[i].parent = rows[i].parent
              /\ ~Requeueable(i) => Requeued[i] = rows[i]
<1> DEFINE q(r) == [r EXCEPT !.status = "queued", !.claimed_by = None,
                             !.heartbeat = None]
<1>1. ASSUME NEW r \in Row
      PROVE  /\ q(r) \in Row
             /\ q(r).status = "queued" /\ q(r).claimed_by = None
             /\ q(r).heartbeat = None
             /\ q(r).attempts = r.attempts /\ q(r).parent = r.parent
  BY DEF Row
<1>2. Requeued = [i \in JobId |-> IF Requeueable(i) THEN q(rows[i]) ELSE rows[i]]
  BY DEF Requeued
<1> HIDE DEF q
<1>3. QED
  BY <1>1, <1>2 DEF Table
(* A column update that leaves the claim alone.                            *)
SameClaim(r, s) == /\ s.parent = r.parent
                   /\ s.attempts = r.attempts
                   /\ s.claimed_by = r.claimed_by
                   /\ s.heartbeat = r.heartbeat

LEMMA HeartbeatsRows ==
  ASSUME rows \in Table, NEW w \in Worker
  PROVE  /\ Heartbeats(w) \in Table
         /\ \A i \in JobId :
              /\ Heartbeats(w)[i].status = rows[i].status
              /\ Heartbeats(w)[i].parent = rows[i].parent
              /\ Heartbeats(w)[i].attempts = rows[i].attempts
              /\ Heartbeats(w)[i].claimed_by = rows[i].claimed_by
              /\ IF rows[i].status = "running" /\ rows[i].claimed_by = w
                 THEN Heartbeats(w)[i].heartbeat = "fresh"
                 ELSE Heartbeats(w)[i] = rows[i]
BY DEF Table, Row, Heartbeats

LEMMA EndedRows ==
  ASSUME rows \in Table, NEW j \in JobId, NEW o \in {"done", "error"}
  PROVE  /\ Ended(j, o) \in Table
         /\ \A i \in JobId \ {j} : Ended(j, o)[i] = rows[i]
         /\ SameClaim(rows[j], Ended(j, o)[j])
         /\ Ended(j, o)[j].status = IF Exists(j) THEN o ELSE rows[j].status
BY DEF Table, Row, Ended, SameClaim

LEMMA BumpedRows ==
  ASSUME rows \in Table, NEW p \in JobId
  PROVE  /\ Bumped(p) \in Table
         /\ \A i \in JobId : /\ SameClaim(rows[i], Bumped(p)[i])
                             /\ Bumped(p)[i].status = rows[i].status
<1>1. rows[p].done + 1 \in Nat
  BY DEF Table, Row
<1>2. QED
  BY <1>1 DEF Table, Row, Bumped, SameClaim

LEMMA ClosedRows ==
  ASSUME rows \in Table, NEW p \in JobId
  PROVE  /\ Closed(p) \in Table
         /\ \A i \in JobId \ {p} : Closed(p)[i] = rows[i]
         /\ SameClaim(rows[p], Closed(p)[p])
         /\ Closed(p)[p].status # rows[p].status
              => rows[p].status = "running" /\ Closed(p)[p].status = "done"
BY DEF Table, Row, Closed, SameClaim

LEMMA ErrorsRows ==
  ASSUME rows \in Table, NEW p \in JobId, NEW S \in SUBSET JobId
  PROVE  /\ ErrorsWritten(p, S) \in Table
         /\ \A i \in JobId : /\ SameClaim(rows[i], ErrorsWritten(p, S)[i])
                             /\ ErrorsWritten(p, S)[i].status = rows[i].status
BY DEF Table, Row, ErrorsWritten, SameClaim

LEMMA PrunedRows ==
  ASSUME rows \in Table, NEW S \in SUBSET JobId
  PROVE  /\ Pruned(S) \in Table
         /\ \A i \in JobId : /\ SameClaim(rows[i], Pruned(S)[i])
                             /\ Pruned(S)[i].status =
                                  IF i \in S THEN "pruned" ELSE rows[i].status
BY DEF Table, Row, Pruned, SameClaim

LEMMA LapsedRows ==
  ASSUME rows \in Table, NEW j \in JobId,
         rows' = [rows EXCEPT ![j].heartbeat = "stale"]
  PROVE  /\ rows' \in Table
         /\ \A i \in JobId \ {j} : rows'[i] = rows[i]
         /\ rows'[j].status = rows[j].status
         /\ rows'[j].parent = rows[j].parent
         /\ rows'[j].attempts = rows[j].attempts
         /\ rows'[j].claimed_by = rows[j].claimed_by
         /\ rows'[j].heartbeat = "stale"
BY DEF Table, Row

-----------------------------------------------------------------------------
(* Type correctness and the bound on attempts, for every set of faults.    *)

Handling == {"log", "append", "bump", "close", "settle"}

(* A job in a loop's hands is a row that was inserted, and it has a parent
   where the loop updates one: the row's parent column never changes.      *)
InHand(w) ==
  /\ tick[w].step \in Handling \cup {"take", "submit"}
       => tick[w].job \in JobId /\ rows[tick[w].job].status # "unborn"
  /\ tick[w].step \in Handling \ {"settle"} => rows[tick[w].job].parent \in JobId
  /\ \A j \in tick[w].todo : rows[j].status # "unborn"
  /\ \A j \in JobId : future[w][j] # "none" => rows[j].status # "unborn"

HandsOK == \A w \in Worker : InHand(w)

(* Inserted rows stay inserted, under the same parent.                     *)
Grown == \A j \in JobId : rows[j].status # "unborn"
           => rows'[j].status # "unborn" /\ rows'[j].parent = rows[j].parent

LEMMA InHandKept ==
  ASSUME TypeOK, HandsOK, Grown, NEW w \in Worker,
         tick'[w] = tick[w], future'[w] = future[w]
  PROVE  InHand(w)'
BY DEF TypeOK, Tick, Handling, HandsOK, InHand, Grown

LEMMA GotoStep ==
  ASSUME TypeOK, NEW w \in Worker, NEW t \in Tick, Goto(w, t)
  PROVE  /\ tick' \in [Worker -> Tick]
         /\ \A v \in Worker \ {w} : tick'[v] = tick[v]
         /\ tick'[w] = t
BY DEF TypeOK, Goto

LEMMA HandleStep ==
  ASSUME TypeOK, NEW w \in Worker, NEW j \in JobId, rows[j].status # "unborn",
         NEW o \in {"done", "error"}, NEW b \in {"reap", "claim", "expire"},
         Handle(w, j, o, b)
  PROVE  /\ tick' \in [Worker -> Tick]
         /\ \A v \in Worker \ {w} : tick'[v] = tick[v]
         /\ tick'[w].step \in Handling
         /\ tick'[w].job = j
         /\ tick'[w].outcome = o
         /\ tick'[w].back = b
         /\ tick'[w].todo = tick[w].todo \ {j}
         /\ tick'[w].step # "settle" => rows[j].parent \in JobId
<1> DEFINE t == [step |-> FirstStep(j, o), job |-> j, outcome |-> o,
                 back |-> b, todo |-> tick[w].todo \ {j}, seen |-> {}]
<1>1. /\ FirstStep(j, o) \in Handling
      /\ FirstStep(j, o) # "settle" => rows[j].parent \in JobId
  BY DEF FirstStep, Handling, TypeOK, Row
<1>2. tick[w].todo \ {j} \in SUBSET JobId
  BY DEF TypeOK, Tick
<1>3. t \in Tick
  BY <1>1, <1>2 DEF Tick, Steps, Handling
<1>4. Goto(w, t)
  BY DEF Handle
<1>5. t.step = FirstStep(j, o) /\ t.job = j /\ t.outcome = o /\ t.back = b
      /\ t.todo = tick[w].todo \ {j}
  OBVIOUS
<1> HIDE DEF t
<1>6. QED
  BY <1>1, <1>3, <1>4, <1>5, GotoStep

(* A move within the tick that keeps the job and the lists.                *)
LEMMA MoveStep ==
  ASSUME TypeOK, NEW w \in Worker, NEW s \in Steps, Move(w, s)
  PROVE  /\ tick' \in [Worker -> Tick]
         /\ \A v \in Worker \ {w} : tick'[v] = tick[v]
         /\ tick'[w].step = s
         /\ tick'[w].job = tick[w].job
         /\ tick'[w].outcome = tick[w].outcome
         /\ tick'[w].back = tick[w].back
         /\ tick'[w].todo = tick[w].todo
<1> DEFINE t == [tick[w] EXCEPT !.step = s]
<1>1. tick[w] \in Tick
  BY DEF TypeOK
<1>2. /\ t \in Tick
      /\ t.step = s /\ t.job = tick[w].job /\ t.outcome = tick[w].outcome
      /\ t.back = tick[w].back /\ t.todo = tick[w].todo
  BY <1>1 DEF Tick
<1>3. Goto(w, t)
  BY DEF Move
<1> HIDE DEF t
<1>4. QED
  BY <1>2, <1>3, GotoStep

LEMMA SeenStep ==
  ASSUME TypeOK, NEW w \in Worker, NEW s \in Steps, NEW E \in SUBSET JobId,
         Goto(w, [tick[w] EXCEPT !.step = s, !.seen = E])
  PROVE  /\ tick' \in [Worker -> Tick]
         /\ \A v \in Worker \ {w} : tick'[v] = tick[v]
         /\ tick'[w].step = s
         /\ tick'[w].job = tick[w].job
         /\ tick'[w].back = tick[w].back
         /\ tick'[w].todo = tick[w].todo
<1> DEFINE t == [tick[w] EXCEPT !.step = s, !.seen = E]
<1>1. tick[w] \in Tick
  BY DEF TypeOK
<1>2. /\ t \in Tick
      /\ t.step = s /\ t.job = tick[w].job
      /\ t.back = tick[w].back /\ t.todo = tick[w].todo
  BY <1>1 DEF Tick
<1>3. Goto(w, t)
  OBVIOUS
<1> HIDE DEF t
<1>4. QED
  BY <1>2, <1>3, GotoStep

LEMMA BetweenTicksStep ==
  ASSUME TypeOK, NEW w \in Worker, Goto(w, BetweenTicks)
  PROVE  /\ tick' \in [Worker -> Tick]
         /\ \A v \in Worker \ {w} : tick'[v] = tick[v]
         /\ tick'[w].step = "idle"
         /\ tick'[w].todo = {}
<1>1. BetweenTicks \in Tick /\ BetweenTicks.step = "idle" /\ BetweenTicks.todo = {}
  BY DEF BetweenTicks, Tick, Steps
<1>2. QED
  BY <1>1, GotoStep

(* The invariant that holds whatever fails.                                *)
Inv == TypeOK /\ HandsOK /\ AttemptsBounded

(* Attempts only grow in Claimed and rows only become queued in Requeued
   and Inserted.                                                           *)
LEMMA AttemptsKept ==
  ASSUME AttemptsBounded,
         \A j \in JobId : /\ rows'[j].attempts = rows[j].attempts
                          /\ rows'[j].status = "queued" => rows[j].status = "queued"
  PROVE  AttemptsBounded'
BY DEF AttemptsBounded

LEMMA WebStep ==
  ASSUME Inv,
         Submit \/ (\E n \in 0..MaxJobs : SubmitParent(n)) \/ SubmitChild \/ WebCrash
  PROVE  Inv'
<1> USE DEF Inv
<1>0. rows \in Table /\ web.parent \in JobId \cup {None} /\ web.left \in Nat
  BY DEF TypeOK, Table
<1>1. ASSUME NEW j \in JobId, NextId(j), NEW s \in {"queued", "running", "done"},
             NEW p \in JobId \cup {None}, NEW n \in Nat,
             rows' = Inserted(j, s, p, n)
      PROVE  rows' \in Table /\ Grown /\ AttemptsBounded'
  <2>1. /\ rows' \in Table
        /\ \A i \in JobId : i # j => rows'[i] = rows[i]
        /\ rows'[j].attempts = 0
    BY <1>0, <1>1, InsertedRows
  <2>2. Grown
    BY <2>1, <1>1 DEF Grown, NextId
  <2>3. AttemptsBounded'
    BY <2>1, ConstantsAssumption DEF AttemptsBounded
  <2>4. QED
    BY <2>1, <2>2, <2>3
<1>2. CASE Submit
  <2>1. rows' \in Table /\ Grown /\ AttemptsBounded'
    BY <1>1, <1>2 DEF Submit
  <2>2. TypeOK'
    BY <2>1, <1>2 DEF Submit, TypeOK, Table
  <2>3. HandsOK'
    BY <2>1, <1>2, InHandKept DEF Submit, HandsOK
  <2>4. QED
    BY <2>1, <2>2, <2>3
<1>3. ASSUME NEW n \in 0..MaxJobs, SubmitParent(n)
      PROVE  Inv'
  <2>1. PICK p \in JobId :
          /\ NextId(p)
          /\ rows' = Inserted(p, IF n = 0 THEN "done" ELSE "running", None, n)
          /\ web' = FanOut(p, n)
    BY <1>3 DEF SubmitParent
  <2>2. n \in Nat
    BY ConstantsAssumption
  <2>3. rows' \in Table /\ Grown /\ AttemptsBounded'
    <3>1. CASE n = 0
      BY <1>1, <2>1, <2>2, <3>1
    <3>2. CASE n # 0
      BY <1>1, <2>1, <2>2, <3>2
    <3>3. QED
      BY <3>1, <3>2
  <2>4. TypeOK'
    BY <2>1, <2>2, <2>3, <1>3 DEF SubmitParent, TypeOK, Table, FanOut, NoFanOut
  <2>5. HandsOK'
    BY <2>3, <1>3, InHandKept DEF SubmitParent, HandsOK
  <2>6. QED
    BY <2>3, <2>4, <2>5
<1>4. CASE SubmitChild
  <2>1. web.left - 1 \in Nat
    BY <1>0, <1>4 DEF SubmitChild
  <2>2. rows' \in Table /\ Grown /\ AttemptsBounded'
    BY <1>0, <1>1, <1>4 DEF SubmitChild
  <2>3. TypeOK'
    BY <1>0, <2>1, <2>2, <1>4 DEF SubmitChild, TypeOK, Table, FanOut, NoFanOut
  <2>4. HandsOK'
    BY <2>2, <1>4, InHandKept DEF SubmitChild, HandsOK
  <2>5. QED
    BY <2>2, <2>3, <2>4
<1>5. CASE WebCrash
  <2>1. TypeOK'
    BY <1>5 DEF WebCrash, Fault, TypeOK, NoFanOut
  <2>2. HandsOK'
    BY <1>5, InHandKept DEF WebCrash, HandsOK, Grown
  <2>3. AttemptsBounded'
    BY <1>5 DEF WebCrash, AttemptsBounded
  <2>4. QED
    BY <2>1, <2>2, <2>3
<1>6. QED
  BY <1>2, <1>3, <1>4, <1>5

(* One worker's step leaves the hands of the others as they are.           *)
LEMMA WorkerKeeps ==
  ASSUME Inv, NEW w \in Worker,
         rows' \in Table, Grown, AttemptsBounded', InHand(w)',
         tick' \in [Worker -> Tick],
         future' \in [Worker -> [JobId -> {"none", "running", "returned", "raised"}]],
         alive' \in [Worker -> BOOLEAN], broken' \in [Worker -> BOOLEAN],
         web' = web, faults' \in Nat,
         \A v \in Worker \ {w} : tick'[v] = tick[v] /\ future'[v] = future[v]
  PROVE  Inv'
<1>1. TypeOK'
  BY DEF Inv, TypeOK, Table
<1>2. HandsOK'
  BY InHandKept DEF Inv, HandsOK
<1>3. QED
  BY <1>1, <1>2 DEF Inv

(* A step that only moves within the tick, w's futures unchanged.          *)
LEMMA TickOnly ==
  ASSUME Inv, NEW w \in Worker,
         UNCHANGED <<rows, alive, broken, future, web>>, faults' \in Nat,
         tick' \in [Worker -> Tick],
         \A v \in Worker \ {w} : tick'[v] = tick[v],
         InHand(w)'
  PROVE  Inv'
<1>1. rows' \in Table /\ Grown /\ AttemptsBounded'
  BY DEF Inv, TypeOK, Table, Grown, AttemptsBounded
<1>2. QED
  BY <1>1, WorkerKeeps DEF Inv, TypeOK

LEMMA ReapStep ==
  ASSUME Inv, NEW w \in Worker, StartTick(w) \/ Reap(w) \/ EndReap(w)
  PROVE  Inv'
<1>1. CASE StartTick(w)
  <2>1. /\ tick' \in [Worker -> Tick]
        /\ \A v \in Worker \ {w} : tick'[v] = tick[v]
        /\ tick'[w].step \in {"reap", "claim"}
        /\ tick'[w].todo = DoneFutures(w)
    <3>1. DoneFutures(w) \in SUBSET JobId
      BY DEF DoneFutures
    <3>2. PICK s \in {"reap", "claim"} :
            Goto(w, [tick[w] EXCEPT !.step = s, !.todo = DoneFutures(w)])
      BY <1>1 DEF StartTick
    <3> DEFINE t == [tick[w] EXCEPT !.step = s, !.todo = DoneFutures(w)]
    <3>3. tick[w] \in Tick
      BY DEF Inv, TypeOK
    <3>4. t \in Tick /\ t.step = s /\ t.todo = DoneFutures(w)
      BY <3>1, <3>3 DEF Tick, Steps
    <3> HIDE DEF t
    <3>5. QED
      BY <3>2, <3>4, GotoStep DEF Inv, t
  <2>2. future' = future /\ rows' = rows
    BY <1>1 DEF StartTick
  <2>3. \A j \in JobId : future[w][j] # "none" => rows[j].status # "unborn"
    BY DEF Inv, HandsOK, InHand
  <2>4. \A j \in DoneFutures(w) : rows[j].status # "unborn"
    BY <2>3 DEF DoneFutures
  <2>5. InHand(w)'
    BY <2>1, <2>2, <2>3, <2>4 DEF InHand, Handling
  <2>6. QED
    BY <2>1, <2>5, <1>1, TickOnly DEF StartTick, Inv, TypeOK
<1>2. CASE Reap(w)
  <2>1. PICK j \in tick[w].todo :
          /\ future' = [future EXCEPT ![w][j] = "none"]
          /\ \E o \in {"done", "error"} : Handle(w, j, o, "reap")
    BY <1>2 DEF Reap
  <2>2. j \in JobId /\ rows[j].status # "unborn"
    BY DEF Inv, TypeOK, Tick, HandsOK, InHand
  <2>3. /\ tick' \in [Worker -> Tick]
        /\ \A v \in Worker \ {w} : tick'[v] = tick[v]
        /\ tick'[w].step \in Handling
        /\ tick'[w].job = j
        /\ tick'[w].todo = tick[w].todo \ {j}
        /\ tick'[w].step # "settle" => rows[j].parent \in JobId
    BY <2>1, <2>2, HandleStep DEF Inv
  <2>4. /\ future' \in [Worker -> [JobId -> {"none", "running", "returned", "raised"}]]
        /\ \A v \in Worker \ {w} : future'[v] = future[v]
        /\ \A i \in JobId : future'[w][i] # "none" => future[w][i] # "none"
    BY <2>1, <2>2 DEF Inv, TypeOK
  <2>5. rows' = rows
    BY <1>2 DEF Reap
  <2>6. InHand(w)'
    BY <2>2, <2>3, <2>4, <2>5 DEF InHand, Handling, Inv, HandsOK
  <2>7. rows' \in Table /\ Grown /\ AttemptsBounded'
    BY <2>5 DEF Inv, TypeOK, Table, Grown, AttemptsBounded
  <2>8. faults' \in Nat
    BY <1>2 DEF Reap, Fault, Inv, TypeOK
  <2>9. QED
    BY <2>3, <2>4, <2>6, <2>7, <2>8, <1>2, WorkerKeeps DEF Reap, Inv, TypeOK
<1>3. CASE EndReap(w)
  <2>1. Move(w, "claim") /\ "claim" \in Steps
    BY <1>3 DEF EndReap, Steps
  <2>2. InHand(w)'
    BY <2>1, <1>3, MoveStep DEF EndReap, InHand, Handling, Inv, HandsOK
  <2>3. QED
    BY <2>1, <2>2, <1>3, MoveStep, TickOnly DEF EndReap, Inv, TypeOK
<1>4. QED
  BY <1>1, <1>2, <1>3

LEMMA SettlingStep ==
  ASSUME Inv, NEW w \in Worker, Settling(w)
  PROVE  Inv'
<1> DEFINE j == tick[w].job
           p == rows[j].parent
<1>1. tick[w].step \in Handling
  BY DEF Settling, ReadErrors, AppendError, BumpParent, CloseParent, Settle,
         Handling
<1>2. /\ j \in JobId /\ rows[j].status # "unborn"
      /\ tick[w].step # "settle" => p \in JobId
      /\ \A i \in tick[w].todo : rows[i].status # "unborn"
      /\ \A i \in JobId : future[w][i] # "none" => rows[i].status # "unborn"
  BY <1>1 DEF Inv, HandsOK, InHand, Handling
<1>3. rows \in Table /\ future' = future /\ alive' = alive /\ broken' = broken
      /\ web' = web /\ faults' = faults
  BY DEF Settling, ReadErrors, AppendError, BumpParent, CloseParent, Settle,
         Inv, TypeOK, Table
<1>4. ASSUME rows' \in Table, Grown, AttemptsBounded',
             tick' \in [Worker -> Tick],
             \A v \in Worker \ {w} : tick'[v] = tick[v],
             tick'[w].job = j \/ tick'[w].step \notin Handling \cup {"take", "submit"},
             tick'[w].todo = tick[w].todo,
             tick'[w].step \in Handling \ {"settle"} => p \in JobId
      PROVE  Inv'
  <2>1. InHand(w)'
    BY <1>2, <1>3, <1>4 DEF InHand, Handling, Grown, Inv, TypeOK, Tick
  <2>2. QED
    BY <1>3, <1>4, <2>1, WorkerKeeps DEF Inv, TypeOK
<1>5. ASSUME rows' \in Table,
             \A i \in JobId : SameClaim(rows[i], rows'[i]),
             \A i \in JobId : rows'[i].status # rows[i].status
               => rows'[i].status \in {"done", "error"} /\ rows[i].status # "unborn"
      PROVE  Grown /\ AttemptsBounded'
  BY <1>5, AttemptsKept DEF Grown, SameClaim, Inv
<1>6. CASE ReadErrors(w)
  <2>1. rows' = rows /\ p \in JobId /\ rows[p].errors \in SUBSET JobId
    BY <1>2, <1>3, <1>6 DEF ReadErrors, Table, Row
  <2>2. PICK s \in Steps :
          Goto(w, [tick[w] EXCEPT !.step = s, !.seen = rows[p].errors])
    BY <1>6 DEF ReadErrors, Steps
  <2>3. /\ tick' \in [Worker -> Tick]
        /\ \A v \in Worker \ {w} : tick'[v] = tick[v]
        /\ tick'[w].job = j /\ tick'[w].todo = tick[w].todo
    BY <2>1, <2>2, SeenStep DEF Inv
  <2>4. Grown /\ AttemptsBounded'
    BY <2>1 DEF Grown, Inv, AttemptsBounded
  <2>5. QED
    BY <1>3, <1>4, <2>1, <2>3, <2>4
<1>7. CASE AppendError(w)
  <2>1. /\ p \in JobId /\ tick[w].seen \cup {j} \in SUBSET JobId
        /\ {} \in SUBSET JobId /\ "bump" \in Steps
    BY <1>2, <1>7 DEF AppendError, Inv, TypeOK, Tick, Steps
  <2>2. Goto(w, [tick[w] EXCEPT !.step = "bump", !.seen = {}])
    BY <1>7 DEF AppendError
  <2>3. /\ tick' \in [Worker -> Tick]
        /\ \A v \in Worker \ {w} : tick'[v] = tick[v]
        /\ tick'[w].job = j /\ tick'[w].todo = tick[w].todo
    BY <2>1, <2>2, SeenStep DEF Inv
  <2>4. rows' = ErrorsWritten(p, tick[w].seen \cup {j})
    BY <1>7 DEF AppendError
  <2>5. /\ rows' \in Table
        /\ \A i \in JobId : /\ SameClaim(rows[i], rows'[i])
                            /\ rows'[i].status = rows[i].status
    BY <1>3, <2>1, <2>4, ErrorsRows
  <2>6. Grown /\ AttemptsBounded'
    BY <1>5, <2>5
  <2>7. QED
    BY <1>4, <2>1, <2>3, <2>5, <2>6
<1>8. CASE BumpParent(w)
  <2>1. p \in JobId /\ rows' = Bumped(p) /\ Move(w, "close") /\ "close" \in Steps
    BY <1>2, <1>8 DEF BumpParent, Steps
  <2>2. /\ rows' \in Table
        /\ \A i \in JobId : /\ SameClaim(rows[i], rows'[i])
                            /\ rows'[i].status = rows[i].status
    BY <1>3, <2>1, BumpedRows
  <2>3. Grown /\ AttemptsBounded'
    BY <1>5, <2>2
  <2>4. QED
    BY <1>4, <2>1, <2>2, <2>3, MoveStep DEF Inv
<1>9. CASE CloseParent(w)
  <2>1. p \in JobId /\ rows' = Closed(p) /\ Move(w, "settle") /\ "settle" \in Steps
    BY <1>2, <1>9 DEF CloseParent, Steps
  <2>2. /\ rows' \in Table
        /\ \A i \in JobId \ {p} : rows'[i] = rows[i]
        /\ SameClaim(rows[p], rows'[p])
        /\ rows'[p].status # rows[p].status
             => rows[p].status = "running" /\ rows'[p].status = "done"
    BY <1>3, <2>1, ClosedRows
  <2>3. Grown /\ AttemptsBounded'
    BY <1>5, <2>2 DEF SameClaim
  <2>4. QED
    BY <1>4, <2>1, <2>2, <2>3, MoveStep DEF Inv
<1>10. CASE Settle(w)
  <2>1. tick[w].outcome \in {"done", "error"} /\ tick[w].back \in Steps
    BY DEF Inv, TypeOK, Tick, Steps
  <2>2. rows' = Ended(j, tick[w].outcome)
    BY <1>10 DEF Settle
  <2>3. /\ rows' \in Table
        /\ \A i \in JobId \ {j} : rows'[i] = rows[i]
        /\ SameClaim(rows[j], rows'[j])
        /\ rows'[j].status = IF Exists(j) THEN tick[w].outcome ELSE rows[j].status
    BY <1>2, <1>3, <2>1, <2>2, EndedRows
  <2>4. Grown /\ AttemptsBounded'
    BY <1>2, <1>5, <2>1, <2>3 DEF SameClaim, Exists
  <2>5. Goto(w, [tick[w] EXCEPT !.step = tick[w].back, !.job = None,
                             !.outcome = "done"])
    BY <1>10 DEF Settle
  <2>6. /\ tick' \in [Worker -> Tick]
        /\ \A v \in Worker \ {w} : tick'[v] = tick[v]
        /\ tick'[w].step \notin Handling \cup {"take", "submit"}
        /\ tick'[w].todo = tick[w].todo
    <3> DEFINE t == [tick[w] EXCEPT !.step = tick[w].back, !.job = None,
                                   !.outcome = "done"]
    <3>1. tick[w] \in Tick
      BY DEF Inv, TypeOK
    <3>2. /\ t \in Tick
          /\ t.step \notin Handling \cup {"take", "submit"}
          /\ t.todo = tick[w].todo
      BY <3>1, <2>1 DEF Tick, Handling
    <3>3. Goto(w, t)
      BY <2>5
    <3> HIDE DEF t
    <3>4. QED
      BY <3>2, <3>3, GotoStep DEF Inv
  <2>7. QED
    BY <1>4, <2>3, <2>4, <2>6
<1>11. QED
  BY <1>6, <1>7, <1>8, <1>9, <1>10 DEF Settling

(* Leaving a job: the tick keeps its lists and is between two jobs.        *)
LEMMA DropStep ==
  ASSUME TypeOK, NEW w \in Worker,
         Goto(w, [tick[w] EXCEPT !.step = "claim", !.job = None])
  PROVE  /\ tick' \in [Worker -> Tick]
         /\ \A v \in Worker \ {w} : tick'[v] = tick[v]
         /\ tick'[w].step = "claim"
         /\ tick'[w].job = None
         /\ tick'[w].todo = tick[w].todo
<1> DEFINE t == [tick[w] EXCEPT !.step = "claim", !.job = None]
<1>1. tick[w] \in Tick
  BY DEF TypeOK
<1>2. /\ t \in Tick
      /\ t.step = "claim" /\ t.job = None /\ t.todo = tick[w].todo
  BY <1>1 DEF Tick, Steps
<1>3. Goto(w, t)
  OBVIOUS
<1> HIDE DEF t
<1>4. QED
  BY <1>2, <1>3, GotoStep

LEMMA ClaimStep ==
  ASSUME Inv, NEW w \in Worker, Claiming(w)
  PROVE  Inv'
<1>1. /\ \A i \in tick[w].todo : i \in JobId /\ rows[i].status # "unborn"
      /\ \A i \in JobId : future[w][i] # "none" => rows[i].status # "unborn"
  BY DEF Inv, HandsOK, InHand, TypeOK, Tick
<1>2. tick[w].step \in {"take", "submit"} =>
        tick[w].job \in JobId /\ rows[tick[w].job].status # "unborn"
  BY DEF Inv, HandsOK, InHand
<1>4. CASE Select(w)
  <2>1. PICK j \in JobId :
          /\ OldestQueued(j)
          /\ Goto(w, [tick[w] EXCEPT !.step = "take", !.job = j])
    BY <1>4 DEF Select
  <2> DEFINE t == [tick[w] EXCEPT !.step = "take", !.job = j]
  <2>2. tick[w] \in Tick
    BY DEF Inv, TypeOK
  <2>3. t \in Tick /\ t.step = "take" /\ t.job = j /\ t.todo = tick[w].todo
    BY <2>2 DEF Tick, Steps
  <2>4. Goto(w, t)
    BY <2>1
  <2>5. rows[j].status # "unborn"
    BY <2>1 DEF OldestQueued
  <2> HIDE DEF t
  <2>6. /\ tick' \in [Worker -> Tick]
        /\ \A v \in Worker \ {w} : tick'[v] = tick[v]
        /\ tick'[w] = t
    BY <2>3, <2>4, GotoStep DEF Inv
  <2>7. InHand(w)'
    BY <1>1, <2>3, <2>5, <2>6, <1>4 DEF InHand, Handling, Select
  <2>8. QED
    BY <2>6, <2>7, <1>4, TickOnly DEF Select, Inv, TypeOK
<1>5. CASE EndClaim(w)
  <2>1. PICK s \in {"maintain", "beat"} : Move(w, s)
    BY <1>5 DEF EndClaim
  <2>2. s \in Steps
    BY DEF Steps
  <2>3. /\ tick' \in [Worker -> Tick]
        /\ \A v \in Worker \ {w} : tick'[v] = tick[v]
        /\ tick'[w].step = s /\ tick'[w].todo = tick[w].todo
    BY <2>1, <2>2, MoveStep DEF Inv
  <2>4. InHand(w)'
    BY <1>1, <2>3, <1>5 DEF InHand, Handling, EndClaim
  <2>5. QED
    BY <2>3, <2>4, <1>5, TickOnly DEF EndClaim, Inv, TypeOK
<1>6. CASE Take(w)
  <2> DEFINE j == tick[w].job
  <2>1. j \in JobId /\ rows[j].status # "unborn"
    BY <1>2, <1>6 DEF Take
  <2>2. CASE rows[j].status = "queued" /\ rows' = Claimed(j, w) /\ Move(w, "submit")
    <3>1. /\ rows' \in Table
          /\ \A i \in JobId \ {j} : rows'[i] = rows[i]
          /\ rows'[j].status = "running"
          /\ rows'[j].attempts = rows[j].attempts + 1
          /\ rows'[j].parent = rows[j].parent
      BY <2>1, <2>2, ClaimedRows DEF Inv, TypeOK, Table
    <3>2. Grown
      BY <3>1 DEF Grown
    <3>3. rows[j].attempts + 1 <= MaxAttempts
      <4>1. rows[j].attempts \in Nat
        BY <2>1 DEF Inv, TypeOK, Row
      <4>2. rows[j].attempts < MaxAttempts
        BY <2>1, <2>2 DEF Inv, AttemptsBounded
      <4>3. QED
        BY <4>1, <4>2, ConstantsAssumption
    <3>4. AttemptsBounded'
      BY <3>1, <3>3 DEF AttemptsBounded, Inv
    <3>5. "submit" \in Steps
      BY DEF Steps
    <3>6. /\ tick' \in [Worker -> Tick]
          /\ \A v \in Worker \ {w} : tick'[v] = tick[v]
          /\ tick'[w].step = "submit" /\ tick'[w].job = j
          /\ tick'[w].todo = tick[w].todo
      BY <2>2, <3>5, MoveStep DEF Inv
    <3>7. InHand(w)'
      BY <1>1, <2>1, <3>2, <3>6, <1>6 DEF InHand, Handling, Take, Grown
    <3>8. QED
      BY <3>1, <3>2, <3>4, <3>6, <3>7, <1>6, WorkerKeeps DEF Take, Inv, TypeOK
  <2>3. CASE /\ Goto(w, [tick[w] EXCEPT !.step = "claim", !.job = None])
             /\ rows' = rows
    <3>1. /\ tick' \in [Worker -> Tick]
          /\ \A v \in Worker \ {w} : tick'[v] = tick[v]
          /\ tick'[w].step = "claim" /\ tick'[w].todo = tick[w].todo
      BY <2>3, DropStep DEF Inv
    <3>2. InHand(w)'
      BY <1>1, <2>3, <3>1, <1>6 DEF InHand, Handling, Take
    <3>3. QED
      BY <2>3, <3>1, <3>2, <1>6, TickOnly DEF Take, Inv, TypeOK
  <2>4. QED
    BY <1>6, <2>2, <2>3 DEF Take
<1>7. CASE Start(w)
  <2>1. tick[w].job \in JobId /\ rows[tick[w].job].status # "unborn"
    BY <1>2, <1>7 DEF Start
  <2>2. /\ tick' \in [Worker -> Tick]
        /\ \A v \in Worker \ {w} : tick'[v] = tick[v]
        /\ tick'[w].step = "claim" /\ tick'[w].todo = tick[w].todo
    BY <1>7, DropStep DEF Inv, Start
  <2>3. /\ future' \in [Worker -> [JobId -> {"none", "running", "returned", "raised"}]]
        /\ \A v \in Worker \ {w} : future'[v] = future[v]
        /\ \A i \in JobId : i # tick[w].job => future'[w][i] = future[w][i]
    BY <1>7, <2>1 DEF Start, Inv, TypeOK
  <2>4. InHand(w)'
    BY <1>1, <2>1, <2>2, <2>3, <1>7 DEF InHand, Handling, Start
  <2>5. rows' \in Table /\ Grown /\ AttemptsBounded'
    BY <1>7 DEF Start, Inv, TypeOK, Table, Grown, AttemptsBounded
  <2>6. QED
    BY <2>2, <2>3, <2>4, <2>5, <1>7, WorkerKeeps DEF Start, Inv, TypeOK
<1>8. CASE PlanRaises(w)
  <2> DEFINE j == tick[w].job
  <2>1. j \in JobId /\ rows[j].status # "unborn" /\ Handle(w, j, "error", "claim")
    BY <1>2, <1>8 DEF PlanRaises
  <2>2. /\ tick' \in [Worker -> Tick]
        /\ \A v \in Worker \ {w} : tick'[v] = tick[v]
        /\ tick'[w].step \in Handling
        /\ tick'[w].job = j
        /\ tick'[w].todo = tick[w].todo \ {j}
        /\ tick'[w].step # "settle" => rows[j].parent \in JobId
    BY <2>1, HandleStep DEF Inv
  <2>3. InHand(w)'
    BY <1>1, <2>1, <2>2, <1>8 DEF InHand, Handling, PlanRaises
  <2>4. faults' \in Nat
    BY <1>8 DEF PlanRaises, Fault, Inv, TypeOK
  <2>5. QED
    BY <2>2, <2>3, <2>4, <1>8, TickOnly DEF PlanRaises, Inv, TypeOK
<1>9. CASE StartRefused(w)
  <2>1. /\ tick' \in [Worker -> Tick]
        /\ \A v \in Worker \ {w} : tick'[v] = tick[v]
        /\ tick'[w].step = "idle" /\ tick'[w].todo = {}
    BY <1>9, BetweenTicksStep DEF StartRefused, Inv
  <2>2. InHand(w)'
    BY <1>1, <2>1, <1>9 DEF InHand, Handling, StartRefused
  <2>3. QED
    BY <2>1, <2>2, <1>9, TickOnly DEF StartRefused, Inv, TypeOK
<1>10. QED
  BY <1>4, <1>5, <1>6, <1>7, <1>8, <1>9 DEF Claiming

(* A step that writes the table and moves on within the tick.              *)
LEMMA RowsAndMove ==
  ASSUME Inv, NEW w \in Worker, NEW s \in Steps, Move(w, s),
         s \notin Handling \cup {"take", "submit"},
         UNCHANGED <<alive, broken, future, web, faults>>,
         rows' \in Table, Grown, AttemptsBounded'
  PROVE  Inv'
<1>1. /\ tick' \in [Worker -> Tick]
      /\ \A v \in Worker \ {w} : tick'[v] = tick[v]
      /\ tick'[w].step = s /\ tick'[w].todo = tick[w].todo
  BY MoveStep DEF Inv
<1>2. /\ \A i \in tick[w].todo : i \in JobId /\ rows[i].status # "unborn"
      /\ \A i \in JobId : future[w][i] # "none" => rows[i].status # "unborn"
  BY DEF Inv, HandsOK, InHand, TypeOK, Tick
<1>3. InHand(w)'
  BY <1>1, <1>2 DEF InHand, Handling, Grown
<1>4. QED
  BY <1>1, <1>3, WorkerKeeps DEF Inv, TypeOK

(* A step that ends the tick, whatever it did to the table.                *)
LEMMA RowsAndEnd ==
  ASSUME Inv, NEW w \in Worker, Goto(w, BetweenTicks),
         UNCHANGED <<broken, web>>, alive' \in [Worker -> BOOLEAN],
         faults' \in Nat,
         future' \in [Worker -> [JobId -> {"none", "running", "returned", "raised"}]],
         \A v \in Worker \ {w} : future'[v] = future[v],
         \A i \in JobId : future'[w][i] # "none" => future[w][i] # "none",
         rows' \in Table, Grown, AttemptsBounded'
  PROVE  Inv'
<1>1. /\ tick' \in [Worker -> Tick]
      /\ \A v \in Worker \ {w} : tick'[v] = tick[v]
      /\ tick'[w].step = "idle" /\ tick'[w].todo = {}
  BY BetweenTicksStep DEF Inv
<1>2. \A i \in JobId : future[w][i] # "none" => rows[i].status # "unborn"
  BY DEF Inv, HandsOK, InHand
<1>3. InHand(w)'
  BY <1>1, <1>2 DEF InHand, Handling, Grown
<1>4. QED
  BY <1>1, <1>3, WorkerKeeps DEF Inv, TypeOK

LEMMA SameRows ==
  ASSUME Inv, rows' = rows
  PROVE  rows' \in Table /\ Grown /\ AttemptsBounded'
BY DEF Inv, TypeOK, Table, Grown, AttemptsBounded

LEMMA MaintStep ==
  ASSUME Inv, NEW w \in Worker, Beat(w) \/ EndTick(w) \/ Maintaining(w)
  PROVE  Inv'
<1>1. rows \in Table /\ faults \in Nat /\ faults + 1 \in Nat
      /\ alive \in [Worker -> BOOLEAN]
      /\ future \in [Worker -> [JobId -> {"none", "running", "returned", "raised"}]]
  BY DEF Inv, TypeOK, Table
<1>2. /\ \A i \in tick[w].todo : i \in JobId /\ rows[i].status # "unborn"
      /\ \A i \in JobId : future[w][i] # "none" => rows[i].status # "unborn"
  BY DEF Inv, HandsOK, InHand, TypeOK, Tick
<1>3. {"maintain", "exhausted", "prune"} \subseteq Steps
      /\ {"maintain", "exhausted", "prune"} \cap (Handling \cup {"take", "submit"}) = {}
  BY DEF Steps, Handling
<1>4. CASE Beat(w)
  <2>1. CASE rows' = Heartbeats(w)
    <3>1. /\ rows' \in Table
          /\ \A i \in JobId : /\ rows'[i].status = rows[i].status
                              /\ rows'[i].parent = rows[i].parent
                              /\ rows'[i].attempts = rows[i].attempts
      BY <1>1, <2>1, HeartbeatsRows
    <3>2. Grown /\ AttemptsBounded'
      BY <3>1, AttemptsKept DEF Grown, Inv
    <3>3. QED
      BY <1>3, <1>4, <3>1, <3>2, RowsAndMove DEF Beat
  <2>2. CASE rows' = rows
    BY <1>3, <1>4, <2>2, SameRows, RowsAndMove DEF Beat
  <2>3. QED
    BY <1>4, <2>1, <2>2 DEF Beat
<1>5. CASE EndTick(w)
  BY <1>1, <1>5, SameRows, RowsAndEnd DEF EndTick
<1>6. CASE RequeueStale(w)
  <2>1. rows' = Requeued
    BY <1>6 DEF RequeueStale
  <2>2. /\ rows' \in Table
        /\ \A i \in JobId :
             /\ Requeueable(i) => /\ rows'[i].status = "queued"
                                  /\ rows'[i].attempts = rows[i].attempts
                                  /\ rows'[i].parent = rows[i].parent
             /\ ~Requeueable(i) => rows'[i] = rows[i]
    BY <1>1, <2>1, RequeuedRows
  <2>3. Grown
    BY <2>2 DEF Grown
  <2>4. AttemptsBounded'
    BY <2>2 DEF AttemptsBounded, Inv, Requeueable
  <2>5. QED
    BY <1>3, <1>6, <2>2, <2>3, <2>4, RowsAndMove DEF RequeueStale
<1>7. CASE SelectExhausted(w)
  <2>1. PICK s \in {"prune", "expire"} :
          Goto(w, [tick[w] EXCEPT !.step = s, !.todo = StaleExhausted])
    BY <1>7 DEF SelectExhausted
  <2> DEFINE t == [tick[w] EXCEPT !.step = s, !.todo = StaleExhausted]
  <2>2. tick[w] \in Tick /\ StaleExhausted \in SUBSET JobId
    BY DEF Inv, TypeOK, StaleExhausted
  <2>3. t \in Tick /\ t.step = s /\ t.todo = StaleExhausted
    BY <2>2 DEF Tick, Steps
  <2>4. Goto(w, t)
    BY <2>1
  <2>5. \A i \in StaleExhausted : rows[i].status # "unborn"
    BY DEF StaleExhausted
  <2> HIDE DEF t
  <2>6. /\ tick' \in [Worker -> Tick]
        /\ \A v \in Worker \ {w} : tick'[v] = tick[v]
        /\ tick'[w] = t
    BY <2>3, <2>4, GotoStep DEF Inv
  <2>7. rows' = rows /\ future' = future
    BY <1>7 DEF SelectExhausted
  <2>8. InHand(w)'
    BY <1>2, <2>3, <2>5, <2>6, <2>7 DEF InHand, Handling
  <2>9. QED
    BY <2>6, <2>8, <1>1, <1>7, TickOnly DEF SelectExhausted
<1>8. CASE Expire(w)
  <2>1. PICK j \in tick[w].todo : Handle(w, j, "error", "expire")
    BY <1>8 DEF Expire
  <2>2. j \in JobId /\ rows[j].status # "unborn"
    BY <1>2
  <2>3. /\ tick' \in [Worker -> Tick]
        /\ \A v \in Worker \ {w} : tick'[v] = tick[v]
        /\ tick'[w].step \in Handling
        /\ tick'[w].job = j
        /\ tick'[w].todo = tick[w].todo \ {j}
        /\ tick'[w].step # "settle" => rows[j].parent \in JobId
    BY <2>1, <2>2, HandleStep DEF Inv
  <2>4. rows' = rows /\ future' = future
    BY <1>8 DEF Expire
  <2>5. InHand(w)'
    BY <1>2, <2>2, <2>3, <2>4 DEF InHand, Handling
  <2>6. QED
    BY <2>3, <2>5, <1>1, <1>8, TickOnly DEF Expire
<1>9. CASE EndExpire(w)
  BY <1>3, <1>9, SameRows, RowsAndMove DEF EndExpire
<1>10. CASE EndMaintenance(w)
  BY <1>1, <1>10, SameRows, RowsAndEnd DEF EndMaintenance
<1>11. CASE Prune(w)
  <2>1. PICK S \in SUBSET {j \in JobId : rows[j].status \in {"done", "error"}} :
          rows' = Pruned(S)
    BY <1>11 DEF Prune
  <2>2. /\ rows' \in Table
        /\ \A i \in JobId : /\ SameClaim(rows[i], rows'[i])
                            /\ rows'[i].status =
                                 IF i \in S THEN "pruned" ELSE rows[i].status
    BY <1>1, <2>1, PrunedRows
  <2>3. Grown /\ AttemptsBounded'
    BY <2>2, AttemptsKept DEF Grown, Inv, SameClaim
  <2>4. QED
    BY <1>1, <1>11, <2>2, <2>3, RowsAndEnd DEF Prune, Fault
<1>12. QED
  BY <1>4, <1>5, <1>6, <1>7, <1>8, <1>9, <1>10, <1>11 DEF Maintaining

LEMMA EnvStep ==
  ASSUME Inv, NEW w \in Worker,
         \/ \E j \in JobId : Finish(w, j)
         \/ PoolBreaks(w) \/ Crash(w) \/ Restart(w) \/ TickRaises(w)
  PROVE  Inv'
<1>1. rows \in Table /\ faults \in Nat /\ faults + 1 \in Nat
      /\ alive \in [Worker -> BOOLEAN] /\ broken \in [Worker -> BOOLEAN]
      /\ future \in [Worker -> [JobId -> {"none", "running", "returned", "raised"}]]
      /\ tick \in [Worker -> Tick]
  BY DEF Inv, TypeOK, Table
<1>2. ASSUME rows' = rows, tick' = tick, web' = web, faults' \in Nat,
             alive' \in [Worker -> BOOLEAN], broken' \in [Worker -> BOOLEAN],
             future' \in [Worker -> [JobId -> {"none", "running", "returned", "raised"}]],
             \A v \in Worker \ {w} : future'[v] = future[v],
             \A i \in JobId : future'[w][i] # "none" => future[w][i] # "none"
      PROVE  Inv'
  <2>1. InHand(w)
    BY DEF Inv, HandsOK
  <2>2. InHand(w)'
    BY <1>2, <2>1 DEF InHand
  <2>3. QED
    BY <1>1, <1>2, <2>2, SameRows, WorkerKeeps
<1>3. ASSUME NEW j \in JobId, Finish(w, j)
      PROVE  Inv'
  <2>1. PICK end \in {"returned", "raised"} :
          future' = [future EXCEPT ![w][j] = end]
    BY <1>3 DEF Finish
  <2>2. future[w][j] = "running"
    BY <1>3 DEF Finish
  <2>3. /\ future' \in [Worker -> [JobId -> {"none", "running", "returned", "raised"}]]
        /\ \A v \in Worker \ {w} : future'[v] = future[v]
        /\ \A i \in JobId : future'[w][i] # "none" => future[w][i] # "none"
    BY <1>1, <2>1, <2>2
  <2>4. faults' \in Nat
    BY <1>1, <1>3 DEF Finish, Fault
  <2>5. QED
    BY <1>1, <1>2, <1>3, <2>3, <2>4 DEF Finish
<1>4. CASE PoolBreaks(w)
  <2>1. /\ future' \in [Worker -> [JobId -> {"none", "running", "returned", "raised"}]]
        /\ \A v \in Worker \ {w} : future'[v] = future[v]
        /\ \A i \in JobId : future'[w][i] # "none" => future[w][i] # "none"
    BY <1>1, <1>4 DEF PoolBreaks
  <2>2. broken' \in [Worker -> BOOLEAN] /\ faults' \in Nat
    BY <1>1, <1>4 DEF PoolBreaks, Fault
  <2>3. QED
    BY <1>1, <1>2, <1>4, <2>1, <2>2 DEF PoolBreaks
<1>5. CASE Crash(w)
  <2>1. /\ future' \in [Worker -> [JobId -> {"none", "running", "returned", "raised"}]]
        /\ \A v \in Worker \ {w} : future'[v] = future[v]
        /\ \A i \in JobId : future'[w][i] # "none" => future[w][i] # "none"
    BY <1>1, <1>5 DEF Crash
  <2>2. alive' \in [Worker -> BOOLEAN] /\ faults' \in Nat
    BY <1>1, <1>5 DEF Crash, Fault
  <2>3. QED
    BY <1>5, <2>1, <2>2, SameRows, RowsAndEnd DEF Crash
<1>6. CASE Restart(w)
  <2>1. alive' \in [Worker -> BOOLEAN] /\ broken' \in [Worker -> BOOLEAN]
    BY <1>1, <1>6 DEF Restart
  <2>2. QED
    BY <1>1, <1>2, <1>6, <2>1 DEF Restart
<1>7. CASE TickRaises(w)
  BY <1>1, <1>7, SameRows, RowsAndEnd DEF TickRaises, Fault
<1>8. QED
  BY <1>3, <1>4, <1>5, <1>6, <1>7

LEMMA LapseStep ==
  ASSUME Inv, NEW j \in JobId, Lapse(j)
  PROVE  Inv'
<1>1. rows \in Table /\ rows' = [rows EXCEPT ![j].heartbeat = "stale"]
  BY DEF Inv, TypeOK, Table, Lapse
<1>2. /\ rows' \in Table
      /\ \A i \in JobId : /\ rows'[i].status = rows[i].status
                          /\ rows'[i].parent = rows[i].parent
                          /\ rows'[i].attempts = rows[i].attempts
  BY <1>1, LapsedRows
<1>3. Grown /\ AttemptsBounded'
  BY <1>2, AttemptsKept DEF Grown, Inv
<1>4. faults' \in Nat
  BY DEF Lapse, Fault, Inv, TypeOK
<1>5. TypeOK'
  BY <1>2, <1>4 DEF Inv, TypeOK, Table, Lapse
<1>6. HandsOK'
  BY <1>3, InHandKept DEF Inv, HandsOK, Lapse
<1>7. QED
  BY <1>3, <1>5, <1>6 DEF Inv

LEMMA InvInit == Init => Inv
<1> SUFFICES ASSUME Init PROVE Inv
  OBVIOUS
<1>1. UnbornRow \in Row /\ BetweenTicks \in Tick
  BY ConstantsAssumption DEF UnbornRow, Row, BetweenTicks, Tick, Steps
<1>2. TypeOK
  BY <1>1 DEF Init, TypeOK, NoFanOut
<1>3. HandsOK
  BY DEF Init, HandsOK, InHand, BetweenTicks, Handling
<1>4. AttemptsBounded
  BY ConstantsAssumption DEF Init, AttemptsBounded, UnbornRow
<1>5. QED
  BY <1>2, <1>3, <1>4 DEF Inv

LEMMA InvNext == Inv /\ [Next]_vars => Inv'
<1> SUFFICES ASSUME Inv, [Next]_vars PROVE Inv'
  OBVIOUS
<1>1. CASE Submit \/ (\E n \in 0..MaxJobs : SubmitParent(n)) \/ SubmitChild
           \/ WebCrash
  BY <1>1, WebStep
<1>2. ASSUME NEW w \in Worker, Step(w)
      PROVE  Inv'
  BY <1>2, ReapStep, SettlingStep, ClaimStep, MaintStep DEF Step
<1>3. ASSUME NEW w \in Worker,
             \/ \E j \in JobId : Finish(w, j)
             \/ PoolBreaks(w) \/ Crash(w) \/ Restart(w) \/ TickRaises(w)
      PROVE  Inv'
  BY <1>3, EnvStep
<1>4. ASSUME NEW j \in JobId, Lapse(j)
      PROVE  Inv'
  BY <1>4, LapseStep
<1>5. CASE UNCHANGED vars
  BY <1>5 DEF vars, Inv, TypeOK, HandsOK, InHand, AttemptsBounded
<1>6. QED
  BY <1>1, <1>2, <1>3, <1>4, <1>5 DEF Next

LEMMA InvAlways == Spec => []Inv
BY InvInit, InvNext, PTL DEF Spec

(* The state of the queue, of every loop and of the fan-out keeps its type
   through any sequence of transactions, crashes and restarts.             *)
THEOREM TypeCorrect == Spec => []TypeOK
<1>1. Inv => TypeOK
  BY DEF Inv
<1>2. QED
  BY <1>1, InvAlways, PTL

(* No row is claimed more often than MAX_ATTEMPTS, and a row waiting in the
   queue has an attempt left, whatever crashes, pauses or races happen.    *)
THEOREM AttemptsAreBounded == Spec => []AttemptsBounded
<1>1. Inv => AttemptsBounded
  BY DEF Inv
<1>2. QED
  BY <1>1, InvAlways, PTL

-----------------------------------------------------------------------------
(* What each transaction does to the counters of a parent row.             *)

SameCounters(r, s) == s.total = r.total /\ s.done = r.done

LEMMA InsertedCounters ==
  ASSUME rows \in Table, NEW j \in JobId, NEW s, NEW p, NEW n
  PROVE  Inserted(j, s, p, n)[j].total = n /\ Inserted(j, s, p, n)[j].done = 0
BY DEF Table, Inserted, UnbornRow

LEMMA ClaimedCounters ==
  ASSUME rows \in Table, NEW j \in JobId, NEW w \in Worker, NEW i \in JobId
  PROVE  SameCounters(rows[i], Claimed(j, w)[i])
BY DEF Table, Row, Claimed, SameCounters

LEMMA RequeuedCounters ==
  ASSUME rows \in Table, NEW i \in JobId
  PROVE  SameCounters(rows[i], Requeued[i])
BY DEF Table, Row, Requeued, SameCounters

LEMMA HeartbeatsCounters ==
  ASSUME rows \in Table, NEW w \in Worker, NEW i \in JobId
  PROVE  SameCounters(rows[i], Heartbeats(w)[i])
BY DEF Table, Row, Heartbeats, SameCounters

LEMMA EndedCounters ==
  ASSUME rows \in Table, NEW j \in JobId, NEW o, NEW i \in JobId
  PROVE  SameCounters(rows[i], Ended(j, o)[i])
BY DEF Table, Row, Ended, SameCounters

LEMMA BumpedCounters ==
  ASSUME rows \in Table, NEW p \in JobId, NEW i \in JobId
  PROVE  /\ Bumped(p)[i].total = rows[i].total
         /\ Bumped(p)[i].done = IF i = p /\ Exists(p) THEN rows[i].done + 1
                                                      ELSE rows[i].done
BY DEF Table, Row, Bumped

LEMMA ClosedCounters ==
  ASSUME rows \in Table, NEW p \in JobId, NEW i \in JobId
  PROVE  /\ SameCounters(rows[i], Closed(p)[i])
         /\ rows[p].status = "running" /\ rows[p].done >= rows[p].total
              => Closed(p)[p].status = "done"
BY DEF Table, Row, Closed, SameCounters

LEMMA ErrorsCounters ==
  ASSUME rows \in Table, NEW p \in JobId, NEW S, NEW i \in JobId
  PROVE  SameCounters(rows[i], ErrorsWritten(p, S)[i])
BY DEF Table, Row, ErrorsWritten, SameCounters

LEMMA PrunedCounters ==
  ASSUME rows \in Table, NEW S, NEW i \in JobId
  PROVE  SameCounters(rows[i], Pruned(S)[i])
BY DEF Table, Row, Pruned, SameCounters

LEMMA LapsedCounters ==
  ASSUME rows \in Table, NEW j \in JobId, NEW i \in JobId,
         rows' = [rows EXCEPT ![j].heartbeat = "stale"]
  PROVE  SameCounters(rows[i], rows'[i])
BY DEF Table, Row, SameCounters

-----------------------------------------------------------------------------
(* What each statement of a tick does to the position of the loop.         *)

Hands == Handling \cup {"take", "submit"}

Only(w) == \A v \in Worker \ {w} : tick'[v] = tick[v] /\ future'[v] = future[v]

(* The loop starts settling job j, which ended as o.                       *)
Handled(w, j, o, b) ==
  /\ tick'[w].step \in {"settle", "log", "bump"}
  /\ tick'[w].step = "settle" <=> rows[j].parent = None
  /\ tick'[w].job = j
  /\ tick'[w].outcome = o
  /\ tick'[w].back = b
  /\ tick'[w].todo = tick[w].todo \ {j}

(* It goes on to one of the statements S with the same job.                *)
Goes(w, S) ==
  /\ tick'[w].step \in S
  /\ tick'[w].job = tick[w].job
  /\ tick'[w].outcome = tick[w].outcome
  /\ tick'[w].back = tick[w].back
  /\ tick'[w].todo = tick[w].todo

(* It has no job in its hands, and the list todo before it.                *)
Free(w, S, todo) ==
  /\ tick'[w].step \in S
  /\ tick'[w].todo = todo

LEMMA HandleEffect ==
  ASSUME TypeOK, NEW w \in Worker, NEW j \in JobId,
         NEW o \in {"done", "error"}, NEW b \in {"reap", "claim", "expire"},
         Handle(w, j, o, b)
  PROVE  Handled(w, j, o, b) /\ \A v \in Worker \ {w} : tick'[v] = tick[v]
<1> DEFINE t == [step |-> FirstStep(j, o), job |-> j, outcome |-> o,
                 back |-> b, todo |-> tick[w].todo \ {j}, seen |-> {}]
<1>1. /\ FirstStep(j, o) \in {"settle", "log", "bump"}
      /\ FirstStep(j, o) = "settle" <=> rows[j].parent = None
  BY DEF FirstStep
<1>2. tick[w].todo \ {j} \in SUBSET JobId
  BY DEF TypeOK, Tick
<1>3. t \in Tick
  BY <1>1, <1>2 DEF Tick, Steps
<1>4. Goto(w, t)
  BY DEF Handle
<1>5. t.step = FirstStep(j, o) /\ t.job = j /\ t.outcome = o /\ t.back = b
      /\ t.todo = tick[w].todo \ {j}
  OBVIOUS
<1> HIDE DEF t
<1>6. QED
  BY <1>1, <1>3, <1>4, <1>5, GotoStep DEF Handled

LEMMA StartTickEffect ==
  ASSUME Inv, NEW w \in Worker, StartTick(w)
  PROVE  Free(w, {"reap", "claim"}, DoneFutures(w)) /\ Only(w)
<1>1. DoneFutures(w) \in SUBSET JobId
  BY DEF DoneFutures
<1>2. PICK s \in {"reap", "claim"} :
        Goto(w, [tick[w] EXCEPT !.step = s, !.todo = DoneFutures(w)])
  BY DEF StartTick
<1> DEFINE t == [tick[w] EXCEPT !.step = s, !.todo = DoneFutures(w)]
<1>3. tick[w] \in Tick
  BY DEF Inv, TypeOK
<1>4. t \in Tick /\ t.step = s /\ t.todo = DoneFutures(w)
  BY <1>1, <1>3 DEF Tick, Steps
<1>5. Goto(w, t)
  BY <1>2
<1> HIDE DEF t
<1>6. QED
  BY <1>4, <1>5, GotoStep DEF Inv, StartTick, Free, Only

LEMMA ReapEffect ==
  ASSUME Inv, NEW w \in Worker, Reap(w)
  PROVE  /\ Only(w)
         /\ \E j \in tick[w].todo, o \in {"done", "error"} :
              /\ j \in JobId
              /\ future[w][j] # "none"
              /\ Handled(w, j, o, "reap")
              /\ future'[w][j] = "none"
              /\ \A i \in JobId \ {j} : future'[w][i] = future[w][i]
<1>1. PICK j \in tick[w].todo :
        /\ future' = [future EXCEPT ![w][j] = "none"]
        /\ future[w][j] # "none"
        /\ \E o \in {"done", "error"} : Handle(w, j, o, "reap")
  BY DEF Reap
<1>2. PICK o \in {"done", "error"} : Handle(w, j, o, "reap")
  BY <1>1
<1>3. j \in JobId
  BY DEF Inv, TypeOK, Tick
<1>4. Handled(w, j, o, "reap") /\ \A v \in Worker \ {w} : tick'[v] = tick[v]
  BY <1>2, <1>3, HandleEffect DEF Inv
<1>5. /\ future'[w][j] = "none"
      /\ \A i \in JobId \ {j} : future'[w][i] = future[w][i]
      /\ \A v \in Worker \ {w} : future'[v] = future[v]
  BY <1>1, <1>3 DEF Inv, TypeOK
<1>6. QED
  BY <1>1, <1>3, <1>4, <1>5 DEF Only

LEMMA MoveEffect ==
  ASSUME Inv, NEW w \in Worker, NEW s \in Steps, Move(w, s), future' = future
  PROVE  Goes(w, {s}) /\ Only(w)
BY MoveStep DEF Inv, Goes, Only

LEMMA ReadErrorsEffect ==
  ASSUME Inv, NEW w \in Worker, ReadErrors(w)
  PROVE  Goes(w, {"append", "bump"}) /\ Only(w)
<1>1. PICK s \in {"append", "bump"} :
        \E E : Goto(w, [tick[w] EXCEPT !.step = s, !.seen = E])
  BY DEF ReadErrors
<1>2. PICK E : Goto(w, [tick[w] EXCEPT !.step = s, !.seen = E])
  BY <1>1
<1>3. tick' = [tick EXCEPT ![w] = [tick[w] EXCEPT !.step = s, !.seen = E]]
  BY <1>2 DEF Goto
<1>4. /\ \A v \in Worker \ {w} : tick'[v] = tick[v]
      /\ tick'[w] = [tick[w] EXCEPT !.step = s, !.seen = E]
  BY <1>3 DEF Inv, TypeOK
<1>5. tick[w] \in Tick
  BY DEF Inv, TypeOK
<1>6. Goes(w, {s})
  BY <1>4, <1>5 DEF Goes, Tick
<1>7. QED
  BY <1>4, <1>6 DEF Goes, Only, ReadErrors

LEMMA AppendErrorEffect ==
  ASSUME Inv, NEW w \in Worker, AppendError(w)
  PROVE  Goes(w, {"bump"}) /\ Only(w)
<1>1. tick' = [tick EXCEPT ![w] = [tick[w] EXCEPT !.step = "bump", !.seen = {}]]
  BY DEF AppendError, Goto
<1>2. /\ \A v \in Worker \ {w} : tick'[v] = tick[v]
      /\ tick'[w] = [tick[w] EXCEPT !.step = "bump", !.seen = {}]
  BY <1>1 DEF Inv, TypeOK
<1>3. tick[w] \in Tick
  BY DEF Inv, TypeOK
<1>4. Goes(w, {"bump"})
  BY <1>2, <1>3 DEF Goes, Tick
<1>5. QED
  BY <1>2, <1>4 DEF Only, AppendError

LEMMA SettleEffect ==
  ASSUME Inv, NEW w \in Worker, Settle(w)
  PROVE  Free(w, {tick[w].back}, tick[w].todo) /\ Only(w)
<1>1. tick' = [tick EXCEPT ![w] = [tick[w] EXCEPT !.step = tick[w].back,
                                                  !.job = None, !.outcome = "done"]]
  BY DEF Settle, Goto
<1>2. /\ \A v \in Worker \ {w} : tick'[v] = tick[v]
      /\ tick'[w] = [tick[w] EXCEPT !.step = tick[w].back,
                                    !.job = None, !.outcome = "done"]
  BY <1>1 DEF Inv, TypeOK
<1>3. tick[w] \in Tick
  BY DEF Inv, TypeOK
<1>4. Free(w, {tick[w].back}, tick[w].todo)
  BY <1>2, <1>3 DEF Free, Tick
<1>5. QED
  BY <1>2, <1>4 DEF Only, Settle

LEMMA SelectEffect ==
  ASSUME Inv, NEW w \in Worker, Select(w)
  PROVE  /\ Free(w, {"take"}, tick[w].todo) /\ Only(w)
         /\ tick'[w].job \in JobId
         /\ rows[tick'[w].job].status = "queued"
<1>1. PICK j \in JobId : /\ rows[j].status = "queued"
                         /\ Goto(w, [tick[w] EXCEPT !.step = "take", !.job = j])
  BY DEF Select, OldestQueued
<1>2. tick' = [tick EXCEPT ![w] = [tick[w] EXCEPT !.step = "take", !.job = j]]
  BY <1>1 DEF Goto
<1>3. /\ \A v \in Worker \ {w} : tick'[v] = tick[v]
      /\ tick'[w] = [tick[w] EXCEPT !.step = "take", !.job = j]
  BY <1>2 DEF Inv, TypeOK
<1>4. tick[w] \in Tick
  BY DEF Inv, TypeOK
<1>5. Free(w, {"take"}, tick[w].todo) /\ tick'[w].job = j
  BY <1>3, <1>4 DEF Free, Tick
<1>6. QED
  BY <1>1, <1>3, <1>5 DEF Only, Select

LEMMA TakeEffect ==
  ASSUME Inv, NEW w \in Worker, Take(w)
  PROVE  /\ Only(w)
         /\ \/ /\ rows[tick[w].job].status = "queued"
               /\ rows' = Claimed(tick[w].job, w)
               /\ Goes(w, {"submit"})
            \/ /\ Free(w, {"claim"}, tick[w].todo)
               /\ rows' = rows
<1>1. CASE /\ rows[tick[w].job].status = "queued"
           /\ rows' = Claimed(tick[w].job, w)
           /\ Move(w, "submit")
  <2>1. "submit" \in Steps
    BY DEF Steps
  <2>2. QED
    BY <1>1, <2>1, MoveEffect DEF Take
<1>2. CASE /\ Goto(w, [tick[w] EXCEPT !.step = "claim", !.job = None])
           /\ rows' = rows
  BY <1>2, DropStep DEF Take, Inv, Only, Free
<1>3. QED
  BY <1>1, <1>2 DEF Take

LEMMA StartEffect ==
  ASSUME Inv, NEW w \in Worker, Start(w)
  PROVE  /\ Free(w, {"claim"}, tick[w].todo) /\ Only(w)
         /\ tick[w].job \in JobId
         /\ future'[w][tick[w].job] # "none"
         /\ \A i \in JobId \ {tick[w].job} : future'[w][i] = future[w][i]
<1>1. tick[w].job \in JobId
  BY DEF Start, Inv, HandsOK, InHand, Handling
<1>2. /\ \A v \in Worker \ {w} : future'[v] = future[v]
      /\ future'[w][tick[w].job] = "running"
      /\ \A i \in JobId \ {tick[w].job} : future'[w][i] = future[w][i]
  BY <1>1 DEF Start, Inv, TypeOK
<1>3. QED
  BY <1>1, <1>2, DropStep DEF Start, Inv, Only, Free

LEMMA PlanRaisesEffect ==
  ASSUME Inv, NEW w \in Worker, PlanRaises(w)
  PROVE  Handled(w, tick[w].job, "error", "claim") /\ Only(w)
<1>1. tick[w].job \in JobId
  BY DEF PlanRaises, Inv, HandsOK, InHand, Handling
<1>2. QED
  BY <1>1, HandleEffect DEF PlanRaises, Inv, Only

LEMMA SelectExhaustedEffect ==
  ASSUME Inv, NEW w \in Worker, SelectExhausted(w)
  PROVE  Free(w, {"prune", "expire"}, StaleExhausted) /\ Only(w)
<1>1. PICK s \in {"prune", "expire"} :
        Goto(w, [tick[w] EXCEPT !.step = s, !.todo = StaleExhausted])
  BY DEF SelectExhausted
<1>2. tick' = [tick EXCEPT ![w] = [tick[w] EXCEPT !.step = s,
                                                  !.todo = StaleExhausted]]
  BY <1>1 DEF Goto
<1>3. /\ \A v \in Worker \ {w} : tick'[v] = tick[v]
      /\ tick'[w] = [tick[w] EXCEPT !.step = s, !.todo = StaleExhausted]
  BY <1>2 DEF Inv, TypeOK
<1>4. tick[w] \in Tick
  BY DEF Inv, TypeOK
<1>5. Free(w, {s}, StaleExhausted)
  BY <1>3, <1>4 DEF Free, Tick
<1>6. QED
  BY <1>3, <1>5 DEF Only, Free, SelectExhausted

LEMMA ExpireEffect ==
  ASSUME Inv, NEW w \in Worker, Expire(w)
  PROVE  /\ Only(w)
         /\ \E j \in tick[w].todo : j \in JobId /\ Handled(w, j, "error", "expire")
<1>1. PICK j \in tick[w].todo : Handle(w, j, "error", "expire")
  BY DEF Expire
<1>2. j \in JobId
  BY DEF Inv, TypeOK, Tick
<1>3. QED
  BY <1>1, <1>2, HandleEffect DEF Expire, Inv, Only

(* The end of a tick, regular or not.                                      *)
LEMMA ResetEffect ==
  ASSUME Inv, NEW w \in Worker, Goto(w, BetweenTicks),
         \A v \in Worker \ {w} : future'[v] = future[v]
  PROVE  Free(w, {"idle"}, {}) /\ Only(w)
BY BetweenTicksStep DEF Inv, Free, Only

-----------------------------------------------------------------------------
(* Batches and single jobs.                                                *)

(* The row of a reprocess-all is never claimed, so no maintenance of the
   worker loops selects it: only its children close it.                    *)
Batch(p) ==
  /\ rows[p].status \in {"running", "done", "pruned"}
  /\ rows[p].total > 0
  /\ rows[p].parent = None
  /\ rows[p].attempts = 0
  /\ rows[p].claimed_by = None
  /\ rows[p].heartbeat = None

Single(j) == rows[j].status # "unborn" /\ rows[j].total = 0

(* A row with a total is a batch, a row with a parent is a single job of a
   batch, and the handler that fans out does it under a batch.             *)
BatchesOK ==
  /\ \A j \in JobId : rows[j].total > 0 => Batch(j)
  /\ \A j \in JobId : rows[j].parent # None
                        => Batch(rows[j].parent) /\ Single(j)
  /\ web.left > 0 => web.parent \in JobId /\ Batch(web.parent)

(* The loops only handle single jobs.                                      *)
SinglesOK == \A w \in Worker :
  /\ tick[w].step \in Hands => Single(tick[w].job)
  /\ \A j \in tick[w].todo : Single(j)
  /\ \A j \in JobId : future[w][j] # "none" => Single(j)

(* A step that only touches the claims: no row ends, no counter moves.     *)
Calm == \A i \in JobId :
  /\ rows'[i].parent = rows[i].parent
  /\ SameCounters(rows[i], rows'[i])
  /\ rows'[i].status = "unborn" <=> rows[i].status = "unborn"
  /\ rows'[i].status \in {"done", "error", "pruned"}
       <=> rows[i].status \in {"done", "error", "pruned"}
  /\ Batch(i) => Batch(i)'

LEMMA SameRowsCalm ==
  ASSUME rows' = rows
  PROVE  Calm
BY DEF Calm, SameCounters, Batch

LEMMA ClaimedCalm ==
  ASSUME rows \in Table, NEW j \in JobId, NEW w \in Worker,
         rows[j].status = "queued", rows' = Claimed(j, w)
  PROVE  Calm
<1>1. /\ \A i \in JobId \ {j} : rows'[i] = rows[i]
      /\ rows'[j].status = "running"
      /\ rows'[j].parent = rows[j].parent
  BY ClaimedRows
<1>2. \A i \in JobId : SameCounters(rows[i], rows'[i])
  BY ClaimedCounters
<1>3. QED
  BY <1>1, <1>2 DEF Calm, Batch

LEMMA RequeuedCalm ==
  ASSUME rows \in Table, rows' = Requeued
  PROVE  Calm
<1>1. \A i \in JobId :
        /\ Requeueable(i) => /\ rows'[i].status = "queued"
                             /\ rows'[i].parent = rows[i].parent
        /\ ~Requeueable(i) => rows'[i] = rows[i]
  BY RequeuedRows
<1>2. \A i \in JobId : SameCounters(rows[i], rows'[i])
  BY RequeuedCounters
<1>3. \A i \in JobId : Batch(i) => ~Requeueable(i)
  BY ConstantsAssumption DEF Batch, Requeueable
<1>4. \A i \in JobId : Requeueable(i) => rows[i].status = "running"
  BY DEF Requeueable
<1>5. QED
  BY <1>1, <1>2, <1>3, <1>4 DEF Calm, Batch

LEMMA HeartbeatsCalm ==
  ASSUME rows \in Table, NEW w \in Worker, rows' = Heartbeats(w)
  PROVE  Calm
<1>1. \A i \in JobId :
        /\ rows'[i].status = rows[i].status
        /\ rows'[i].parent = rows[i].parent
        /\ rows[i].claimed_by # w => rows'[i] = rows[i]
  BY HeartbeatsRows
<1>2. \A i \in JobId : SameCounters(rows[i], rows'[i])
  BY HeartbeatsCounters
<1>3. \A i \in JobId : Batch(i) => rows'[i] = rows[i]
  BY <1>1, ConstantsAssumption DEF Batch
<1>4. QED
  BY <1>1, <1>2, <1>3 DEF Calm, Batch

LEMMA ErrorsCalm ==
  ASSUME rows \in Table, NEW p \in JobId, NEW S \in SUBSET JobId,
         rows' = ErrorsWritten(p, S)
  PROVE  Calm
<1>1. \A i \in JobId : /\ SameClaim(rows[i], rows'[i])
                       /\ rows'[i].status = rows[i].status
  BY ErrorsRows
<1>2. \A i \in JobId : SameCounters(rows[i], rows'[i])
  BY ErrorsCounters
<1>3. QED
  BY <1>1, <1>2 DEF Calm, Batch, SameClaim, SameCounters

LEMMA PrunedCalm ==
  ASSUME rows \in Table,
         NEW S \in SUBSET {j \in JobId : rows[j].status \in {"done", "error"}},
         rows' = Pruned(S)
  PROVE  Calm
<1>1. \A i \in JobId :
        /\ SameClaim(rows[i], rows'[i])
        /\ rows'[i].status = IF i \in S THEN "pruned" ELSE rows[i].status
  BY PrunedRows
<1>2. \A i \in JobId : SameCounters(rows[i], rows'[i])
  BY PrunedCounters
<1>3. QED
  BY <1>1, <1>2 DEF Calm, Batch, SameClaim, SameCounters

LEMMA LapsedCalm ==
  ASSUME rows \in Table, NEW j \in JobId, rows[j].heartbeat = "fresh",
         rows' = [rows EXCEPT ![j].heartbeat = "stale"]
  PROVE  Calm
<1>1. /\ \A i \in JobId \ {j} : rows'[i] = rows[i]
      /\ rows'[j].status = rows[j].status
      /\ rows'[j].parent = rows[j].parent
  BY LapsedRows
<1>2. \A i \in JobId : SameCounters(rows[i], rows'[i])
  BY LapsedCounters
<1>3. ~Batch(j)
  BY ConstantsAssumption DEF Batch
<1>4. QED
  BY <1>1, <1>2, <1>3 DEF Calm, Batch

-----------------------------------------------------------------------------
(* Where the jobs in a loop's hands come from.                             *)

FromHands(w) ==
  /\ tick'[w].step \in Hands => Single(tick'[w].job) /\ tick'[w].job \in JobId
  /\ \A j \in tick'[w].todo : j \in JobId /\ Single(j)
  /\ \A j \in JobId : future'[w][j] # "none" => Single(j)

(* No child arrives past the bump or past the close of its parent.         *)
Quiet(w) == tick'[w].step \in {"close", "settle"}
              => rows[tick'[w].job].parent = None

LEMMA FreeHands ==
  ASSUME SinglesOK, NEW w \in Worker, NEW S, NEW T \in SUBSET JobId,
         Free(w, S, T), S \cap Hands = {},
         \A j \in T : Single(j),
         \A j \in JobId : future'[w][j] # "none" => Single(j)
  PROVE  FromHands(w) /\ Quiet(w)
BY DEF FromHands, Quiet, Free, Hands, Handling

LEMMA GoesHands ==
  ASSUME Inv, SinglesOK, NEW w \in Worker, NEW S, Goes(w, S),
         S \cap Hands = {} \/ tick[w].step \in Hands,
         \A j \in JobId : future'[w][j] # "none" => future[w][j] # "none"
  PROVE  /\ FromHands(w)
         /\ S \cap {"close", "settle"} = {} => Quiet(w)
<1>1. /\ tick[w].step \in Hands => tick[w].job \in JobId
      /\ \A j \in tick[w].todo : j \in JobId
  BY DEF Inv, TypeOK, Tick, HandsOK, InHand, Hands
<1>2. QED
  BY <1>1 DEF FromHands, Quiet, Goes, SinglesOK

LEMMA HandledHands ==
  ASSUME Inv, SinglesOK, NEW w \in Worker, NEW j \in JobId, NEW o, NEW b,
         Handled(w, j, o, b), Single(j),
         \A i \in JobId : future'[w][i] # "none" => future[w][i] # "none"
  PROVE  FromHands(w) /\ Quiet(w)
<1>1. \A i \in tick[w].todo : i \in JobId
  BY DEF Inv, TypeOK, Tick
<1>2. QED
  BY <1>1 DEF FromHands, Quiet, Handled, SinglesOK

(* What holds of a step of loop w that ends no job.                        *)
CalmStep(w) == Calm /\ Only(w) /\ FromHands(w) /\ Quiet(w) /\ web' = web

LEMMA CalmReap ==
  ASSUME Inv, BatchesOK, SinglesOK, NEW w \in Worker,
         StartTick(w) \/ Reap(w) \/ EndReap(w)
  PROVE  CalmStep(w)
<1> USE DEF CalmStep
<1>0. /\ \A j \in JobId : future[w][j] # "none" => Single(j)
      /\ \A j \in tick[w].todo : Single(j)
  BY DEF SinglesOK
<1>1. rows' = rows /\ web' = web
  BY DEF StartTick, Reap, EndReap
<1>2. CASE StartTick(w)
  <2>1. Free(w, {"reap", "claim"}, DoneFutures(w)) /\ Only(w)
    BY <1>2, StartTickEffect
  <2>2. \A j \in DoneFutures(w) : Single(j)
    BY <1>0 DEF DoneFutures
  <2>3. {"reap", "claim"} \cap Hands = {} /\ DoneFutures(w) \in SUBSET JobId
        /\ future' = future
    BY <1>2 DEF Hands, Handling, DoneFutures, StartTick
  <2>4. QED
    BY <1>0, <1>1, <2>1, <2>2, <2>3, FreeHands, SameRowsCalm
<1>3. CASE Reap(w)
  <2>1. Only(w)
    BY <1>3, ReapEffect
  <2>2. PICK j \in tick[w].todo, o \in {"done", "error"} :
          /\ j \in JobId
          /\ Handled(w, j, o, "reap")
          /\ future'[w][j] = "none"
          /\ \A i \in JobId \ {j} : future'[w][i] = future[w][i]
    BY <1>3, ReapEffect
  <2>3. QED
    BY <1>0, <1>1, <2>1, <2>2, HandledHands, SameRowsCalm
<1>4. CASE EndReap(w)
  <2>1. Goes(w, {"claim"}) /\ Only(w) /\ future' = future
    BY <1>4, MoveEffect DEF EndReap, Steps
  <2>2. {"claim"} \cap Hands = {}
    BY DEF Hands, Handling
  <2>3. QED
    BY <1>1, <2>1, <2>2, GoesHands, SameRowsCalm
<1>5. QED
  BY <1>2, <1>3, <1>4

LEMMA CalmLog ==
  ASSUME Inv, BatchesOK, SinglesOK, NEW w \in Worker,
         ReadErrors(w) \/ AppendError(w)
  PROVE  CalmStep(w)
<1> USE DEF CalmStep
<1>1. tick[w].step \in Hands /\ web' = web /\ future' = future
  BY DEF ReadErrors, AppendError, Hands, Handling
<1>2. CASE ReadErrors(w)
  <2>1. Goes(w, {"append", "bump"}) /\ Only(w)
    BY <1>2, ReadErrorsEffect
  <2>2. rows' = rows
    BY <1>2 DEF ReadErrors
  <2>3. QED
    BY <1>1, <2>1, <2>2, GoesHands, SameRowsCalm
<1>3. CASE AppendError(w)
  <2>1. Goes(w, {"bump"}) /\ Only(w)
    BY <1>3, AppendErrorEffect
  <2>2. /\ rows \in Table
        /\ rows[tick[w].job].parent \in JobId
        /\ tick[w].seen \cup {tick[w].job} \in SUBSET JobId
    BY <1>3 DEF AppendError, Inv, TypeOK, Table, Tick, HandsOK, InHand, Handling
  <2>3. Calm
    BY <1>3, <2>2, ErrorsCalm DEF AppendError
  <2>4. QED
    BY <1>1, <2>1, <2>3, GoesHands
<1>4. QED
  BY <1>2, <1>3

LEMMA CalmClaim ==
  ASSUME Inv, BatchesOK, SinglesOK, NEW w \in Worker, Claiming(w)
  PROVE  CalmStep(w)
<1> USE DEF CalmStep
<1>0. /\ \A j \in JobId : future[w][j] # "none" => Single(j)
      /\ \A j \in tick[w].todo : j \in JobId /\ Single(j)
      /\ rows \in Table
  BY DEF SinglesOK, Inv, TypeOK, Tick, Table
<1>1. web' = web
  BY DEF Claiming, Select, EndClaim, Take, Start, PlanRaises, StartRefused
<1>2. CASE Select(w)
  <2>1. /\ Free(w, {"take"}, tick[w].todo) /\ Only(w)
        /\ tick'[w].job \in JobId
        /\ rows[tick'[w].job].status = "queued"
    BY <1>2, SelectEffect
  <2>2. Single(tick'[w].job)
    <3>1. ASSUME NEW j \in JobId, rows[j].status = "queued"
          PROVE  Single(j)
      <4>1. rows[j].total \in Nat /\ ~Batch(j)
        BY <1>0, <3>1 DEF Table, Row, Batch
      <4>2. QED
        BY <3>1, <4>1 DEF BatchesOK, Single
    <3>2. QED
      BY <2>1, <3>1
  <2>3. FromHands(w) /\ Quiet(w)
    BY <1>0, <1>2, <2>1, <2>2 DEF FromHands, Quiet, Free, Select
  <2>4. QED
    BY <1>1, <1>2, <2>1, <2>3, SameRowsCalm DEF Select
<1>3. CASE EndClaim(w)
  <2>1. PICK s \in {"maintain", "beat"} : Move(w, s)
    BY <1>3 DEF EndClaim
  <2>2. s \in Steps /\ {s} \cap Hands = {} /\ rows' = rows /\ future' = future
    BY <1>3 DEF EndClaim, Steps, Hands, Handling
  <2>3. Goes(w, {s}) /\ Only(w)
    BY <2>1, <2>2, MoveEffect
  <2>4. FromHands(w) /\ Quiet(w)
    BY <2>2, <2>3, GoesHands DEF Hands, Handling
  <2>5. QED
    BY <1>1, <2>2, <2>3, <2>4, SameRowsCalm
<1>4. CASE Take(w)
  <2>1. Only(w)
    BY <1>4, TakeEffect
  <2>2. tick[w].step \in Hands /\ tick[w].job \in JobId /\ future' = future
    BY <1>4 DEF Take, Hands, Inv, HandsOK, InHand
  <2>3. CASE /\ rows[tick[w].job].status = "queued"
             /\ rows' = Claimed(tick[w].job, w)
             /\ Goes(w, {"submit"})
    BY <1>0, <1>1, <2>1, <2>2, <2>3, ClaimedCalm, GoesHands
  <2>4. CASE Free(w, {"claim"}, tick[w].todo) /\ rows' = rows
    <3>1. {"claim"} \cap Hands = {} /\ tick[w].todo \in SUBSET JobId
      BY DEF Hands, Handling, Inv, TypeOK, Tick
    <3>2. QED
      BY <1>0, <1>1, <2>1, <2>2, <2>4, <3>1, FreeHands, SameRowsCalm
  <2>5. QED
    BY <1>4, <2>3, <2>4, TakeEffect
<1>5. CASE Start(w)
  <2>1. /\ Free(w, {"claim"}, tick[w].todo) /\ Only(w)
        /\ \A i \in JobId \ {tick[w].job} : future'[w][i] = future[w][i]
    BY <1>5, StartEffect
  <2>2. Single(tick[w].job)
    BY <1>5 DEF Start, SinglesOK, Hands
  <2>3. {"claim"} \cap Hands = {} /\ tick[w].todo \in SUBSET JobId
    BY DEF Hands, Handling, Inv, TypeOK, Tick
  <2>4. FromHands(w) /\ Quiet(w)
    BY <1>0, <2>1, <2>2, <2>3, FreeHands
  <2>5. QED
    BY <1>1, <1>5, <2>1, <2>4, SameRowsCalm DEF Start
<1>6. CASE PlanRaises(w)
  <2>1. Handled(w, tick[w].job, "error", "claim") /\ Only(w)
    BY <1>6, PlanRaisesEffect
  <2>2. /\ Single(tick[w].job) /\ tick[w].job \in JobId
        /\ future' = future /\ rows' = rows
    BY <1>6 DEF PlanRaises, SinglesOK, Hands, Inv, HandsOK, InHand
  <2>3. QED
    BY <1>1, <2>1, <2>2, HandledHands, SameRowsCalm
<1>7. CASE StartRefused(w)
  <2>1. future' = future /\ rows' = rows
    BY <1>7 DEF StartRefused
  <2>2. Free(w, {"idle"}, {}) /\ Only(w)
    BY <1>7, <2>1, ResetEffect DEF StartRefused
  <2>3. {"idle"} \cap Hands = {}
    BY DEF Hands, Handling
  <2>4. QED
    BY <1>0, <1>1, <2>1, <2>2, <2>3, FreeHands, SameRowsCalm
<1>8. QED
  BY <1>2, <1>3, <1>4, <1>5, <1>6, <1>7 DEF Claiming

LEMMA CalmMaint ==
  ASSUME Inv, BatchesOK, SinglesOK, NEW w \in Worker,
         Beat(w) \/ EndTick(w) \/ Maintaining(w)
  PROVE  CalmStep(w)
<1> USE DEF CalmStep
<1>0. /\ \A j \in JobId : future[w][j] # "none" => Single(j)
      /\ \A j \in tick[w].todo : j \in JobId /\ Single(j)
      /\ rows \in Table
  BY DEF SinglesOK, Inv, TypeOK, Tick, Table
<1>1. web' = web /\ future' = future
  BY DEF Maintaining, Beat, EndTick, RequeueStale, SelectExhausted, Expire,
         EndExpire, EndMaintenance, Prune
<1>2. ASSUME NEW s \in {"maintain", "exhausted", "prune"}, Move(w, s)
      PROVE  Only(w) /\ FromHands(w) /\ Quiet(w)
  <2>1. s \in Steps /\ {s} \cap Hands = {} /\ {s} \cap {"close", "settle"} = {}
    BY DEF Steps, Hands, Handling
  <2>2. Goes(w, {s}) /\ Only(w)
    BY <1>1, <1>2, <2>1, MoveEffect
  <2>3. QED
    BY <1>1, <2>1, <2>2, GoesHands
<1>3. ASSUME Goto(w, BetweenTicks)
      PROVE  Only(w) /\ FromHands(w) /\ Quiet(w)
  <2>1. Free(w, {"idle"}, {}) /\ Only(w)
    BY <1>1, <1>3, ResetEffect
  <2>2. {"idle"} \cap Hands = {}
    BY DEF Hands, Handling
  <2>3. QED
    BY <1>0, <1>1, <2>1, <2>2, FreeHands
<1>4. CASE Beat(w)
  <2>1. Calm
    BY <1>0, <1>4, HeartbeatsCalm, SameRowsCalm DEF Beat
  <2>2. QED
    BY <1>1, <1>2, <1>4, <2>1 DEF Beat
<1>5. CASE EndTick(w)
  BY <1>1, <1>3, <1>5, SameRowsCalm DEF EndTick
<1>6. CASE RequeueStale(w)
  BY <1>0, <1>1, <1>2, <1>6, RequeuedCalm DEF RequeueStale
<1>7. CASE SelectExhausted(w)
  <2>1. Free(w, {"prune", "expire"}, StaleExhausted) /\ Only(w)
    BY <1>7, SelectExhaustedEffect
  <2>2. {"prune", "expire"} \cap Hands = {} /\ StaleExhausted \in SUBSET JobId
    BY DEF Hands, Handling, StaleExhausted
  <2>3. ASSUME NEW j \in StaleExhausted
        PROVE  Single(j)
    <3>1. j \in JobId /\ rows[j].total \in Nat
      BY <1>0 DEF StaleExhausted, Table, Row
    <3>2. ~Batch(j) /\ rows[j].status # "unborn"
      BY ConstantsAssumption DEF StaleExhausted, Batch
    <3>3. QED
      BY <3>1, <3>2 DEF BatchesOK, Single
  <2>4. QED
    BY <1>0, <1>1, <1>7, <2>1, <2>2, <2>3, FreeHands, SameRowsCalm
       DEF SelectExhausted
<1>8. CASE Expire(w)
  <2>1. PICK j \in tick[w].todo : j \in JobId /\ Handled(w, j, "error", "expire")
    BY <1>8, ExpireEffect
  <2>2. Only(w) /\ rows' = rows
    BY <1>8, ExpireEffect DEF Expire
  <2>3. QED
    BY <1>0, <1>1, <2>1, <2>2, HandledHands, SameRowsCalm
<1>9. CASE EndExpire(w)
  BY <1>1, <1>2, <1>9, SameRowsCalm DEF EndExpire
<1>10. CASE EndMaintenance(w)
  BY <1>1, <1>3, <1>10, SameRowsCalm DEF EndMaintenance
<1>11. CASE Prune(w)
  <2>1. Calm
    BY <1>0, <1>11, PrunedCalm DEF Prune
  <2>2. QED
    BY <1>1, <1>3, <1>11, <2>1 DEF Prune
<1>12. QED
  BY <1>4, <1>5, <1>6, <1>7, <1>8, <1>9, <1>10, <1>11 DEF Maintaining

LEMMA CalmEnv ==
  ASSUME Inv, BatchesOK, SinglesOK, NEW w \in Worker,
         \/ \E j \in JobId : Finish(w, j)
         \/ PoolBreaks(w) \/ Crash(w) \/ Restart(w) \/ TickRaises(w)
  PROVE  /\ Calm /\ Only(w) /\ FromHands(w) /\ web' = web
         /\ tick'[w] = tick[w] \/ Quiet(w)
<1>0. /\ \A j \in JobId : future[w][j] # "none" => Single(j)
      /\ \A j \in tick[w].todo : j \in JobId /\ Single(j)
      /\ tick[w].step \in Hands => tick[w].job \in JobId /\ Single(tick[w].job)
      /\ tick \in [Worker -> Tick]
      /\ future \in [Worker -> [JobId -> {"none", "running", "returned", "raised"}]]
  BY DEF SinglesOK, Inv, TypeOK, Tick, HandsOK, InHand, Hands
<1>1. web' = web /\ rows' = rows
  BY DEF Finish, PoolBreaks, Crash, Restart, TickRaises
<1>2. /\ \A v \in Worker \ {w} : future'[v] = future[v]
      /\ \A j \in JobId : future'[w][j] # "none" => future[w][j] # "none"
  BY <1>0 DEF Finish, PoolBreaks, Crash, Restart, TickRaises
<1>3. CASE tick' = tick
  BY <1>0, <1>1, <1>2, <1>3, SameRowsCalm DEF Only, FromHands
<1>4. CASE Goto(w, BetweenTicks)
  <2>1. Free(w, {"idle"}, {}) /\ Only(w)
    BY <1>2, <1>4, ResetEffect
  <2>2. {"idle"} \cap Hands = {}
    BY DEF Hands, Handling
  <2>3. QED
    BY <1>0, <1>1, <1>2, <2>1, <2>2, FreeHands, SameRowsCalm
<1>5. QED
  BY <1>3, <1>4 DEF Finish, PoolBreaks, Crash, Restart, TickRaises

-----------------------------------------------------------------------------
(* Batches stay batches and loops only handle single jobs.                 *)

(* No row changes its parent or its total, none is deleted.                *)
SameShape == \A i \in JobId :
  /\ rows'[i].parent = rows[i].parent
  /\ rows'[i].total = rows[i].total
  /\ rows'[i].status = "unborn" <=> rows[i].status = "unborn"
  /\ Batch(i) => Batch(i)'

LEMMA CalmShape == Calm => SameShape
BY DEF Calm, SameShape, SameCounters

LEMMA BatchesKept ==
  ASSUME Inv, BatchesOK, SameShape, web' = web \/ web' = NoFanOut
  PROVE  BatchesOK'
<1>1. \A j \in JobId : rows'[j].total > 0 => Batch(j)'
  BY DEF BatchesOK, SameShape
<1>2. ASSUME NEW j \in JobId, rows'[j].parent # None
      PROVE  Batch(rows[j].parent)' /\ Single(j)'
             /\ rows'[j].parent = rows[j].parent
  <2>1. /\ rows'[j].parent = rows[j].parent
        /\ rows[j].parent \in JobId
    BY <1>2 DEF SameShape, Inv, TypeOK, Row
  <2>2. QED
    BY <1>2, <2>1 DEF BatchesOK, SameShape, Single
<1>3. web'.left > 0 => web'.parent \in JobId /\ Batch(web.parent)' /\ web' = web
  BY DEF BatchesOK, SameShape, NoFanOut
<1>4. QED
  BY <1>1, <1>2, <1>3 DEF BatchesOK, Batch

LEMMA SinglesKept ==
  ASSUME Inv, SinglesOK, SameShape, NEW w \in Worker, Only(w), FromHands(w)
  PROVE  SinglesOK'
<1>1. \A j \in JobId : Single(j) => Single(j)'
  BY DEF Single, SameShape
<1>2. \A v \in Worker :
        /\ tick[v].step \in Hands => tick[v].job \in JobId
        /\ \A j \in tick[v].todo : j \in JobId
  BY DEF Inv, TypeOK, Tick, HandsOK, InHand, Hands
<1>3. ASSUME NEW v \in Worker
      PROVE  /\ tick'[v].step \in Hands
                  => tick'[v].job \in JobId /\ Single(tick'[v].job)
             /\ \A j \in tick'[v].todo : j \in JobId /\ Single(j)
             /\ \A j \in JobId : future'[v][j] # "none" => Single(j)
  BY <1>2 DEF Only, FromHands, SinglesOK
<1>4. QED
  BY <1>1, <1>3 DEF SinglesOK, Single

(* The three statements that count a child.                                *)
LEMMA SettlingHands ==
  ASSUME Inv, SinglesOK, NEW w \in Worker,
         BumpParent(w) \/ CloseParent(w) \/ Settle(w)
  PROVE  Only(w) /\ FromHands(w) /\ web' = web /\ future' = future
<1>1. /\ tick[w].step \in Hands /\ future' = future /\ web' = web
      /\ {"close", "settle"} \subseteq Steps
      /\ \A j \in JobId : future[w][j] # "none" => Single(j)
      /\ \A j \in tick[w].todo : j \in JobId /\ Single(j)
      /\ tick[w].back \notin Hands
  BY DEF BumpParent, CloseParent, Settle, Hands, Handling, Steps, SinglesOK,
         Inv, TypeOK, Tick
<1>2. CASE BumpParent(w)
  BY <1>1, <1>2, MoveEffect, GoesHands DEF BumpParent
<1>3. CASE CloseParent(w)
  BY <1>1, <1>3, MoveEffect, GoesHands DEF CloseParent
<1>4. CASE Settle(w)
  <2>1. Free(w, {tick[w].back}, tick[w].todo) /\ Only(w)
    BY <1>4, SettleEffect
  <2>2. tick[w].todo \in SUBSET JobId /\ {tick[w].back} \cap Hands = {}
    BY <1>1
  <2>3. QED
    BY <1>1, <2>1, <2>2, FreeHands
<1>5. QED
  BY <1>2, <1>3, <1>4

LEMMA SettlingShape ==
  ASSUME Inv, BatchesOK, SinglesOK, NEW w \in Worker,
         BumpParent(w) \/ CloseParent(w) \/ Settle(w)
  PROVE  SameShape
<1>1. rows \in Table /\ tick[w].job \in JobId /\ Single(tick[w].job)
  BY DEF BumpParent, CloseParent, Settle, Inv, HandsOK, InHand, TypeOK, Table,
         SinglesOK, Hands, Handling
<1>2. CASE BumpParent(w)
  <2> DEFINE p == rows[tick[w].job].parent
  <2>1. p \in JobId /\ rows' = Bumped(p)
    BY <1>2 DEF BumpParent, Inv, HandsOK, InHand, Handling
  <2> HIDE DEF p
  <2>2. \A i \in JobId : /\ SameClaim(rows[i], rows'[i])
                         /\ rows'[i].status = rows[i].status
                         /\ rows'[i].total = rows[i].total
    BY <1>1, <2>1, BumpedRows, BumpedCounters
  <2>3. QED
    BY <2>2 DEF SameShape, SameClaim, Batch
<1>3. CASE CloseParent(w)
  <2> DEFINE p == rows[tick[w].job].parent
  <2>1. p \in JobId /\ rows' = Closed(p)
    BY <1>3 DEF CloseParent, Inv, HandsOK, InHand, Handling
  <2> HIDE DEF p
  <2>2. /\ \A i \in JobId \ {p} : rows'[i] = rows[i]
        /\ SameClaim(rows[p], rows'[p])
        /\ rows'[p].status # rows[p].status
             => rows[p].status = "running" /\ rows'[p].status = "done"
        /\ rows'[p].total = rows[p].total
    BY <1>1, <2>1, ClosedRows, ClosedCounters DEF SameCounters
  <2>3. QED
    BY <2>1, <2>2 DEF SameShape, SameClaim, Batch
<1>4. CASE Settle(w)
  <2> DEFINE j == tick[w].job
  <2>1. j \in JobId /\ tick[w].outcome \in {"done", "error"}
        /\ rows' = Ended(j, tick[w].outcome)
    BY <1>1, <1>4 DEF Settle, Inv, TypeOK, Tick
  <2>2. /\ \A i \in JobId \ {j} : rows'[i] = rows[i]
        /\ SameClaim(rows[j], rows'[j])
        /\ rows'[j].status = IF Exists(j) THEN tick[w].outcome ELSE rows[j].status
        /\ rows'[j].total = rows[j].total
    BY <1>1, <2>1, EndedRows, EndedCounters DEF SameCounters
  <2>3. ~Batch(j)
    BY <1>1 DEF Single, Batch
  <2>4. rows'[j].status = "unborn" <=> rows[j].status = "unborn"
    BY <2>1, <2>2 DEF Exists
  <2>5. QED
    BY <2>1, <2>2, <2>3, <2>4 DEF SameShape, SameClaim, Batch
<1>5. QED
  BY <1>2, <1>3, <1>4

(* A row is inserted.                                                      *)
InsertedAs(j, s, p, n) ==
  /\ rows[j].status = "unborn"
  /\ \A i \in JobId \ {j} : rows'[i] = rows[i]
  /\ rows'[j].status = s
  /\ rows'[j].parent = p
  /\ rows'[j].total = n
  /\ rows'[j].done = 0
  /\ rows'[j].attempts = 0
  /\ rows'[j].claimed_by = None
  /\ rows'[j].heartbeat = None

LEMMA InsertedEffect ==
  ASSUME Inv, NEW j \in JobId, NEW s \in {"queued", "running", "done"},
         NEW p \in JobId \cup {None}, NEW n \in Nat,
         NextId(j), rows' = Inserted(j, s, p, n)
  PROVE  InsertedAs(j, s, p, n)
<1>1. rows \in Table
  BY DEF Inv, TypeOK, Table
<1>2. QED
  BY <1>1, InsertedRows, InsertedCounters DEF InsertedAs, NextId

(* What a web handler does, in those terms.                                *)
LEMMA WebEffect ==
  ASSUME Inv, BatchesOK,
         Submit \/ (\E n \in 0..MaxJobs : SubmitParent(n)) \/ SubmitChild
  PROVE  /\ tick' = tick /\ future' = future /\ alive' = alive
         /\ \E j \in JobId :
              \/ InsertedAs(j, "queued", None, 0) /\ web' = web
              \/ \E n \in Nat :
                   /\ InsertedAs(j, IF n = 0 THEN "done" ELSE "running", None, n)
                   /\ web' = FanOut(j, n)
              \/ /\ web.left > 0
                 /\ InsertedAs(j, "queued", web.parent, 0)
                 /\ web' = FanOut(web.parent, web.left - 1)
<1>1. tick' = tick /\ future' = future /\ alive' = alive
  BY DEF Submit, SubmitParent, SubmitChild
<1>2. CASE Submit
  BY <1>1, <1>2, InsertedEffect DEF Submit
<1>3. ASSUME NEW n \in 0..MaxJobs, SubmitParent(n)
      PROVE  \E j \in JobId :
               /\ InsertedAs(j, IF n = 0 THEN "done" ELSE "running", None, n)
               /\ web' = FanOut(j, n)
  <2>1. n \in Nat /\ (IF n = 0 THEN "done" ELSE "running") \in {"queued", "running", "done"}
    BY ConstantsAssumption
  <2>2. QED
    BY <1>3, <2>1, InsertedEffect DEF SubmitParent
<1>4. CASE SubmitChild
  <2>1. web.parent \in JobId
    BY <1>4 DEF SubmitChild, BatchesOK
  <2>2. QED
    BY <1>1, <1>4, <2>1, InsertedEffect DEF SubmitChild
<1>5. 0..MaxJobs \subseteq Nat
  BY ConstantsAssumption
<1>6. QED
  BY <1>1, <1>2, <1>3, <1>4, <1>5

LEMMA WebShape ==
  ASSUME Inv, BatchesOK, SinglesOK,
         Submit \/ (\E n \in 0..MaxJobs : SubmitParent(n)) \/ SubmitChild
  PROVE  BatchesOK' /\ SinglesOK'
<1>1. PICK j \in JobId :
        \/ InsertedAs(j, "queued", None, 0) /\ web' = web
        \/ \E n \in Nat :
             /\ InsertedAs(j, IF n = 0 THEN "done" ELSE "running", None, n)
             /\ web' = FanOut(j, n)
        \/ /\ web.left > 0
           /\ InsertedAs(j, "queued", web.parent, 0)
           /\ web' = FanOut(web.parent, web.left - 1)
  BY WebEffect
<1>2. /\ tick' = tick /\ future' = future
      /\ rows[j].status = "unborn"
      /\ \A i \in JobId \ {j} : rows'[i] = rows[i]
  BY <1>1, WebEffect DEF InsertedAs
<1>3. /\ \A i \in JobId : Batch(i) => Batch(i)'
      /\ \A i \in JobId : Single(i) => Single(i)'
      /\ \A i \in JobId : Batch(i) \/ Single(i) => i # j
  BY <1>2 DEF Batch, Single
<1>4. SinglesOK'
  <2>1. ASSUME NEW w \in Worker
        PROVE  /\ tick[w].step \in Hands => tick[w].job \in JobId
               /\ \A i \in tick[w].todo : i \in JobId
    BY DEF Inv, TypeOK, Tick, HandsOK, InHand, Hands
  <2>2. QED
    BY <1>2, <1>3, <2>1 DEF SinglesOK, Single
<1>5. \A i \in JobId : rows[i].parent \in JobId \cup {None}
  BY DEF Inv, TypeOK, Row
<1>6. /\ \A i \in JobId \ {j} : rows'[i].total > 0 => Batch(i)'
      /\ \A i \in JobId \ {j} : rows'[i].parent # None
           => Batch(rows[i].parent)' /\ Single(i)'
  BY <1>2, <1>3, <1>5 DEF BatchesOK
<1>7. CASE InsertedAs(j, "queued", None, 0) /\ web' = web
  <2>1. web'.left > 0 => web'.parent \in JobId /\ Batch(web.parent)'
    BY <1>3, <1>7 DEF BatchesOK
  <2>2. BatchesOK'
    BY <1>2, <1>6, <1>7, <2>1 DEF BatchesOK, InsertedAs, Batch, Single
  <2>3. QED
    BY <1>4, <2>2
<1>8. ASSUME NEW n \in Nat,
             InsertedAs(j, IF n = 0 THEN "done" ELSE "running", None, n),
             web' = FanOut(j, n)
      PROVE  BatchesOK'
  <2>1. n # 0 => Batch(j)'
    BY <1>8 DEF InsertedAs, Batch
  <2>2. web'.left > 0 => web'.parent = j /\ Batch(j)'
    BY <1>8, <2>1 DEF FanOut, NoFanOut
  <2>3. rows'[j].parent = None /\ (rows'[j].total > 0 => n # 0)
    BY <1>8 DEF InsertedAs
  <2>4. QED
    BY <1>2, <1>6, <2>1, <2>2, <2>3 DEF BatchesOK, Batch, Single
<1>9. CASE /\ web.left > 0
           /\ InsertedAs(j, "queued", web.parent, 0)
           /\ web' = FanOut(web.parent, web.left - 1)
  <2>1. PICK p \in JobId : p = web.parent /\ Batch(p)
    BY <1>9 DEF BatchesOK
  <2>2. Batch(p)' /\ (web'.left > 0 => web'.parent = p)
    BY <1>3, <1>9, <2>1 DEF FanOut, NoFanOut
  <2>3. rows'[j].parent = p /\ rows'[j].total = 0 /\ Single(j)'
    BY <1>9, <2>1 DEF InsertedAs, Single
  <2>4. BatchesOK'
    BY <1>2, <1>6, <2>1, <2>2, <2>3 DEF BatchesOK, Batch, Single
  <2>5. QED
    BY <1>4, <2>4
<1>10. QED
  BY <1>1, <1>4, <1>7, <1>8, <1>9

-----------------------------------------------------------------------------
(* The progress of a batch.                                                *)

(* Some loop stands at one of these statements of settling c.              *)
At(c, steps) == \E w \in Worker : tick[w].job = c /\ tick[w].step \in steps

(* The children that have been counted on p, and those past its close.     *)
Counted(p) == {c \in Children(p) : Settled(c) \/ At(c, {"close", "settle"})}
Passed(p)  == {c \in Children(p) : Settled(c) \/ At(c, {"settle"})}

(* A running batch has counted at least its counted children; a requeued
   child may be counted twice.                                             *)
CountOK == \A p \in JobId :
  rows[p].total > 0 /\ rows[p].status = "running"
    => Cardinality(Counted(p)) <= rows[p].done

(* The last child past the close has closed the batch.                     *)
ClosedOK == \A p \in JobId :
  /\ rows[p].total > 0
  /\ Cardinality(Children(p)) = rows[p].total
  /\ Passed(p) = Children(p)
  => Settled(p)

ProgressOK == BatchesOK /\ SinglesOK /\ CountOK /\ ClosedOK

LEMMA ChildrenFinite ==
  ASSUME NEW S \in SUBSET JobId
  PROVE  IsFiniteSet(S) /\ Cardinality(S) \in Nat
<1>1. IsFiniteSet(JobId)
  BY FS_Interval, ConstantsAssumption DEF JobId
<1>2. QED
  BY <1>1, FS_Subset, FS_CardinalityType

(* A step that counts no child and passes none keeps the progress.         *)
LEMMA ProgressKept ==
  ASSUME Inv, CountOK, ClosedOK, SameShape,
         \A p \in JobId : rows[p].total > 0 =>
           /\ Counted(p)' \subseteq Counted(p)
           /\ Passed(p)' \subseteq Passed(p)
           /\ Settled(p) => Settled(p)'
           /\ rows'[p].status = "running"
                => rows[p].status = "running" /\ rows'[p].done = rows[p].done
  PROVE  CountOK' /\ ClosedOK'
<1>1. \A p \in JobId : Children(p)' = Children(p)
  BY DEF Children, SameShape
<1>2. ASSUME NEW p \in JobId, rows'[p].total > 0, rows'[p].status = "running"
      PROVE  Cardinality(Counted(p)') <= rows'[p].done
  <2>1. rows[p].total > 0
    BY <1>2 DEF SameShape
  <2>2. /\ Counted(p)' \subseteq Counted(p)
        /\ rows'[p].done = rows[p].done
        /\ Cardinality(Counted(p)) <= rows[p].done
    BY <1>2, <2>1 DEF CountOK
  <2>3. Counted(p) \in SUBSET JobId
    BY DEF Counted, Children
  <2>4. /\ IsFiniteSet(Counted(p)) /\ Cardinality(Counted(p)) \in Nat
        /\ Cardinality(Counted(p)') \in Nat
    BY <2>2, <2>3, ChildrenFinite
  <2>5. Cardinality(Counted(p)') <= Cardinality(Counted(p))
    BY <2>2, <2>4, FS_Subset
  <2>6. rows[p].done \in Nat
    BY DEF Inv, TypeOK, Row
  <2>7. QED
    BY <2>2, <2>4, <2>5, <2>6
<1>3. ASSUME NEW p \in JobId, rows'[p].total > 0,
             Cardinality(Children(p)') = rows'[p].total,
             Passed(p)' = Children(p)'
      PROVE  Settled(p)'
  <2>1. rows[p].total > 0 /\ rows'[p].total = rows[p].total
    BY <1>3 DEF SameShape
  <2>2. Passed(p)' \subseteq Passed(p) /\ Passed(p) \subseteq Children(p)
    BY <2>1 DEF Passed
  <2>3. Passed(p) = Children(p)
    BY <1>1, <1>3, <2>2
  <2>4. Settled(p)
    BY <1>1, <1>3, <2>1, <2>3 DEF ClosedOK
  <2>5. QED
    BY <2>1, <2>4
<1>4. QED
  BY <1>2, <1>3 DEF CountOK, ClosedOK

(* A quiet loop brings no child to the close or past it.                   *)
LEMMA QuietAt ==
  ASSUME Inv, NEW w \in Worker, Only(w), Quiet(w) \/ tick'[w] = tick[w],
         NEW c \in JobId, rows[c].parent # None,
         NEW S \in SUBSET {"close", "settle"}, At(c, S)'
  PROVE  At(c, S)
<1>1. PICK v \in Worker : tick'[v].job = c /\ tick'[v].step \in S
  BY DEF At
<1>2. tick'[v] = tick[v]
  BY <1>1 DEF Only, Quiet
<1>3. QED
  BY <1>1, <1>2 DEF At

LEMMA CalmProgress ==
  ASSUME Inv, ProgressOK, NEW w \in Worker, Calm, Only(w), FromHands(w),
         Quiet(w) \/ tick'[w] = tick[w], web' = web
  PROVE  ProgressOK'
<1>1. SameShape /\ BatchesOK' /\ SinglesOK'
  BY CalmShape, BatchesKept, SinglesKept DEF ProgressOK
<1>2. ASSUME NEW p \in JobId, NEW c \in Children(p)'
      PROVE  /\ c \in Children(p) /\ c \in JobId /\ rows[c].parent # None
             /\ Settled(c)' => Settled(c)
  BY <1>2, ConstantsAssumption DEF Children, Calm, Settled, JobId
<1>3. ASSUME NEW p \in JobId
      PROVE  Counted(p)' \subseteq Counted(p) /\ Passed(p)' \subseteq Passed(p)
  BY <1>2, QuietAt DEF Counted, Passed
<1>4. ASSUME NEW p \in JobId, rows[p].total > 0
      PROVE  /\ Settled(p) => Settled(p)'
             /\ rows'[p].status = "running"
                  => rows[p].status = "running" /\ rows'[p].done = rows[p].done
  BY <1>4 DEF Calm, SameCounters, Settled, ProgressOK, BatchesOK, Batch
<1>5. QED
  BY <1>1, <1>3, <1>4, ProgressKept DEF ProgressOK

(* What a loop that counts a child does to the tick; the child is a row of
   a batch.                                                                *)
LEMMA BumpParentEffect ==
  ASSUME Inv, NEW w \in Worker, BumpParent(w)
  PROVE  /\ Goes(w, {"close"}) /\ Only(w) /\ tick[w].step = "bump"
         /\ rows[tick[w].job].parent \in JobId
         /\ rows' = Bumped(rows[tick[w].job].parent)
BY MoveEffect DEF BumpParent, Inv, HandsOK, InHand, Handling, Steps

LEMMA CloseParentEffect ==
  ASSUME Inv, NEW w \in Worker, CloseParent(w)
  PROVE  /\ Goes(w, {"settle"}) /\ Only(w) /\ tick[w].step = "close"
         /\ rows[tick[w].job].parent \in JobId
         /\ rows' = Closed(rows[tick[w].job].parent)
BY MoveEffect DEF CloseParent, Inv, HandsOK, InHand, Handling, Steps

(* Only the loop that moves changes where a job stands.                    *)
LEMMA OtherAt ==
  ASSUME NEW w \in Worker, Only(w), NEW c, c # tick'[w].job, NEW S, At(c, S)'
  PROVE  At(c, S)
BY DEF At, Only

LEMMA BumpProgress ==
  ASSUME Inv, ProgressOK, NEW w \in Worker, BumpParent(w)
  PROVE  CountOK' /\ ClosedOK'
<1> DEFINE c == tick[w].job
           p == rows[c].parent
<1>1. /\ Goes(w, {"close"}) /\ Only(w) /\ tick[w].step = "bump"
      /\ p \in JobId /\ rows' = Bumped(p)
      /\ tick'[w].job = c /\ tick'[w].step = "close"
  BY BumpParentEffect DEF Goes
<1>2. rows \in Table /\ SameShape /\ BatchesOK /\ SinglesOK
  BY SettlingShape DEF Inv, TypeOK, Table, ProgressOK
<1> HIDE DEF p
<1>3. \A i \in JobId :
        /\ rows'[i].status = rows[i].status
        /\ rows'[i].parent = rows[i].parent
        /\ rows'[i].total = rows[i].total
        /\ rows'[i].done = IF i = p /\ Exists(p) THEN rows[i].done + 1
                                                 ELSE rows[i].done
  BY <1>1, <1>2, BumpedRows, BumpedCounters DEF SameClaim
<1>4. \A q \in JobId : /\ Children(q)' = Children(q)
                       /\ Settled(q)' <=> Settled(q)
                       /\ Children(q) \in SUBSET JobId
  BY <1>3 DEF Children, Settled
<1>5. ASSUME NEW q \in JobId
      PROVE  /\ Counted(q)' \subseteq Counted(q) \cup {c}
             /\ q # p => c \notin Children(q)
  <2>1. q # p => c \notin Children(q)
    BY DEF Children, p
  <2>2. ASSUME NEW d \in Counted(q)', d # c
        PROVE  d \in Counted(q)
    <3>1. d \in Children(q) /\ (Settled(d) \/ At(d, {"close", "settle"})')
      BY <1>4, <2>2 DEF Counted
    <3>2. At(d, {"close", "settle"})' => At(d, {"close", "settle"})
      BY <1>1, <2>2, OtherAt
    <3>3. QED
      BY <3>1, <3>2 DEF Counted
  <2>3. QED
    BY <2>1, <2>2
<1>6. ASSUME NEW q \in JobId, rows'[q].total > 0, rows'[q].status = "running"
      PROVE  Cardinality(Counted(q)') <= rows'[q].done
  <2>1. rows[q].total > 0 /\ rows[q].status = "running" /\ rows[q].done \in Nat
    BY <1>2, <1>3, <1>6 DEF Table, Row
  <2>2. Cardinality(Counted(q)) <= rows[q].done
    BY <2>1 DEF ProgressOK, CountOK
  <2>3. Counted(q) \in SUBSET JobId /\ Counted(q)' \subseteq Children(q)
    BY <1>4 DEF Counted
  <2>4. IsFiniteSet(Counted(q)) /\ Cardinality(Counted(q)) \in Nat
        /\ Cardinality(Counted(q)') \in Nat
    BY <1>4, <2>3, ChildrenFinite
  <2>5. CASE q = p
    <3>1. /\ IsFiniteSet(Counted(q) \cup {c})
          /\ Cardinality(Counted(q) \cup {c}) <= Cardinality(Counted(q)) + 1
          /\ Cardinality(Counted(q) \cup {c}) \in Nat
      BY <2>4, FS_AddElement
    <3>2. Cardinality(Counted(q)') <= Cardinality(Counted(q) \cup {c})
      BY <1>5, <3>1, FS_Subset
    <3>3. rows'[q].done = rows[q].done + 1
      BY <1>3, <2>1, <2>5 DEF Exists
    <3>4. QED
      BY <2>1, <2>2, <2>4, <3>1, <3>2, <3>3
  <2>6. CASE q # p
    <3>1. Counted(q)' \subseteq Counted(q)
      BY <1>5, <2>3, <2>6
    <3>2. Cardinality(Counted(q)') <= Cardinality(Counted(q))
      BY <2>4, <3>1, FS_Subset
    <3>3. rows'[q].done = rows[q].done
      BY <1>3, <2>6
    <3>4. QED
      BY <2>1, <2>2, <2>4, <3>2, <3>3
  <2>7. QED
    BY <2>5, <2>6
<1>7. ASSUME NEW q \in JobId
      PROVE  Passed(q)' \subseteq Passed(q)
  <2>1. ASSUME NEW d \in JobId, At(d, {"settle"})'
        PROVE  At(d, {"settle"})
    <3>1. PICK v \in Worker : tick'[v].job = d /\ tick'[v].step = "settle"
      BY <2>1 DEF At
    <3>2. tick'[v] = tick[v]
      BY <1>1, <3>1 DEF Only
    <3>3. QED
      BY <3>1, <3>2 DEF At
  <2>2. QED
    BY <1>4, <2>1 DEF Passed
<1>8. ClosedOK'
  <2>1. ASSUME NEW q \in JobId, rows'[q].total > 0,
               Cardinality(Children(q)') = rows'[q].total,
               Passed(q)' = Children(q)'
        PROVE  Settled(q)'
    <3>1. Passed(q) = Children(q)
      BY <1>4, <1>7, <2>1 DEF Passed
    <3>2. QED
      BY <1>3, <1>4, <2>1, <3>1 DEF ProgressOK, ClosedOK
  <2>2. QED
    BY <2>1 DEF ClosedOK
<1>9. QED
  BY <1>6, <1>8 DEF CountOK

(* If the close does not close the batch, fewer children are counted than
   it has, so one is not past its close.                                   *)
LEMMA CloseProgress ==
  ASSUME Inv, ProgressOK, NEW w \in Worker, CloseParent(w)
  PROVE  CountOK' /\ ClosedOK'
<1> DEFINE c == tick[w].job
           p == rows[c].parent
<1>1. /\ Goes(w, {"settle"}) /\ Only(w) /\ tick[w].step = "close"
      /\ p \in JobId /\ rows' = Closed(p)
      /\ tick'[w].job = c /\ tick'[w].step = "settle"
      /\ c \in JobId
  BY CloseParentEffect DEF Goes, Inv, HandsOK, InHand, Handling
<1>2. rows \in Table /\ SameShape /\ BatchesOK /\ SinglesOK
  BY SettlingShape DEF Inv, TypeOK, Table, ProgressOK
<1>3. Single(c)
  BY <1>1, <1>2 DEF SinglesOK, Hands, Handling
<1>4. Batch(p)
  BY <1>1, <1>2, ConstantsAssumption DEF BatchesOK, JobId
<1>5. At(c, {"close", "settle"})
  BY <1>1 DEF At
<1>6. \A q \in JobId : q # p => c \notin Children(q)
  BY DEF Children
<1> HIDE DEF p
<1>7. /\ \A i \in JobId \ {p} : rows'[i] = rows[i]
      /\ rows'[p].status # rows[p].status
           => rows[p].status = "running" /\ rows'[p].status = "done"
      /\ \A i \in JobId : SameCounters(rows[i], rows'[i])
      /\ rows[p].status = "running" /\ rows[p].done >= rows[p].total
           => rows'[p].status = "done"
  BY <1>1, <1>2, ClosedRows, ClosedCounters
<1>8. \A q \in JobId :
        /\ Children(q)' = Children(q)
        /\ Children(q) \in SUBSET JobId
        /\ q # p => (Settled(q)' <=> Settled(q))
        /\ Settled(q) => Settled(q)'
        /\ rows'[q].status = "running" => rows[q].status = "running"
  BY <1>2, <1>7 DEF Children, SameShape, Settled
<1>9. \A q \in JobId : p \notin Children(q)
  BY <1>4, ConstantsAssumption DEF Batch, Children, JobId
<1>10. ASSUME NEW q \in JobId
       PROVE  Counted(q)' \subseteq Counted(q)
  <2>1. ASSUME NEW d \in Counted(q)'
        PROVE  d \in Counted(q)
    <3>1. d \in Children(q) /\ (Settled(d) \/ At(d, {"close", "settle"})')
      BY <1>8, <1>9 DEF Counted
    <3>2. d # c /\ At(d, {"close", "settle"})' => At(d, {"close", "settle"})
      BY <1>1, OtherAt
    <3>3. QED
      BY <1>5, <3>1, <3>2 DEF Counted
  <2>2. QED
    BY <2>1
<1>11. ASSUME NEW q \in JobId
       PROVE  Passed(q)' \subseteq Passed(q) \cup {c}
  <2>1. ASSUME NEW d \in Passed(q)', d # c
        PROVE  d \in Passed(q)
    <3>1. d \in Children(q) /\ (Settled(d) \/ At(d, {"settle"})')
      BY <1>8, <1>9 DEF Passed
    <3>2. At(d, {"settle"})' => At(d, {"settle"})
      BY <1>1, <2>1, OtherAt
    <3>3. QED
      BY <3>1, <3>2 DEF Passed
  <2>2. QED
    BY <2>1
<1>12. CountOK'
  <2>1. ASSUME NEW q \in JobId, rows'[q].total > 0, rows'[q].status = "running"
        PROVE  Cardinality(Counted(q)') <= rows'[q].done
    <3>1. /\ rows[q].total > 0 /\ rows[q].status = "running"
          /\ rows'[q].done = rows[q].done /\ rows[q].done \in Nat
      BY <1>2, <1>7, <1>8, <2>1 DEF SameCounters, Table, Row
    <3>2. Cardinality(Counted(q)) <= rows[q].done
      BY <3>1 DEF ProgressOK, CountOK
    <3>3. Counted(q) \in SUBSET JobId /\ Counted(q)' \in SUBSET JobId
      BY <1>8, <1>10 DEF Counted
    <3>4. /\ IsFiniteSet(Counted(q)) /\ Cardinality(Counted(q)) \in Nat
          /\ Cardinality(Counted(q)') \in Nat
      BY <3>3, ChildrenFinite
    <3>5. Cardinality(Counted(q)') <= Cardinality(Counted(q))
      BY <1>10, <3>4, FS_Subset
    <3>6. QED
      BY <3>1, <3>2, <3>4, <3>5
  <2>2. QED
    BY <2>1 DEF CountOK
<1>13. ClosedOK'
  <2>1. ASSUME NEW q \in JobId, rows'[q].total > 0,
               Cardinality(Children(q)') = rows'[q].total,
               Passed(q)' = Children(q)', ~Settled(q)'
        PROVE  FALSE
    <3>1. /\ rows[q].total > 0 /\ rows'[q].total = rows[q].total
          /\ rows'[q].done = rows[q].done
          /\ rows[q].done \in Nat /\ rows[q].total \in Nat
          /\ ~Settled(q)
          /\ Cardinality(Children(q)) = rows[q].total
      BY <1>2, <1>7, <1>8, <2>1 DEF SameCounters, Table, Row
    <3>2. CASE q # p
      <4>1. c \notin Children(q)
        BY <1>6, <3>2 DEF p
      <4>2. Passed(q) = Children(q)
        BY <1>8, <1>11, <2>1, <4>1 DEF Passed
      <4>3. QED
        BY <3>1, <4>2 DEF ProgressOK, ClosedOK
    <3>3. CASE q = p
      <4>1. rows[p].status = "running" /\ rows'[p].status = "running"
        BY <1>4, <1>7, <2>1, <3>1, <3>3 DEF Batch, Settled
      <4>2. rows[p].done < rows[p].total
        BY <1>7, <3>1, <3>3, <4>1
      <4>3. Children(p) \subseteq Counted(p)
        <5>1. Passed(p) \subseteq Counted(p)
          BY DEF Passed, Counted, At
        <5>2. c \in Children(p) => c \in Counted(p)
          BY <1>5 DEF Counted
        <5>3. QED
          BY <1>8, <1>11, <2>1, <3>3, <5>1, <5>2
      <4>4. Counted(p) = Children(p)
        BY <4>3 DEF Counted
      <4>5. Cardinality(Counted(p)) <= rows[p].done
        BY <1>1, <3>1, <3>3, <4>1 DEF ProgressOK, CountOK
      <4>6. QED
        BY <3>1, <3>3, <4>2, <4>4, <4>5
    <3>4. QED
      BY <3>2, <3>3
  <2>2. QED
    BY <2>1 DEF ClosedOK
<1>14. QED
  BY <1>12, <1>13

LEMMA SettleProgress ==
  ASSUME Inv, ProgressOK, NEW w \in Worker, Settle(w)
  PROVE  CountOK' /\ ClosedOK'
<1> DEFINE c == tick[w].job
<1>1. /\ c \in JobId /\ Single(c) /\ tick[w].step = "settle"
      /\ tick[w].outcome \in {"done", "error"}
      /\ rows \in Table
      /\ rows' = Ended(c, tick[w].outcome)
  BY DEF Settle, Inv, HandsOK, InHand, Handling, Hands, TypeOK, Tick, Table,
         ProgressOK, SinglesOK
<1>2. Free(w, {tick[w].back}, tick[w].todo) /\ Only(w)
  BY SettleEffect
<1>3. tick'[w].step \notin {"close", "settle"}
  BY <1>2 DEF Free, Inv, TypeOK, Tick
<1>4. SameShape
  BY SettlingShape DEF ProgressOK
<1>5. At(c, {"settle"}) /\ At(c, {"close", "settle"})
  BY <1>1 DEF At
<1> HIDE DEF c
<1>6. /\ \A i \in JobId \ {c} : rows'[i] = rows[i]
      /\ rows'[c].total = 0
  BY <1>1, EndedRows, EndedCounters DEF SameCounters, Single
<1>7. ASSUME NEW d \in JobId, NEW S \in SUBSET {"close", "settle"}, At(d, S)'
      PROVE  At(d, S)
  <2>1. PICK v \in Worker : tick'[v].job = d /\ tick'[v].step \in S
    BY <1>7 DEF At
  <2>2. tick'[v] = tick[v]
    BY <1>2, <1>3, <2>1 DEF Only
  <2>3. QED
    BY <2>1, <2>2 DEF At
<1>8. ASSUME NEW q \in JobId
      PROVE  /\ Counted(q)' \subseteq Counted(q)
             /\ Passed(q)' \subseteq Passed(q)
  <2>1. ASSUME NEW d \in Children(q)'
        PROVE  d \in Children(q) /\ d \in JobId
               /\ (Settled(d)' => Settled(d) \/ d = c)
    BY <1>4, <1>6 DEF Children, SameShape, Settled
  <2>2. QED
    BY <1>5, <1>7, <2>1 DEF Counted, Passed
<1>9. ASSUME NEW q \in JobId, rows[q].total > 0
      PROVE  rows'[q] = rows[q]
  BY <1>1, <1>6, <1>9 DEF Single
<1>10. \A q \in JobId : rows[q].total > 0 =>
         /\ Settled(q) => Settled(q)'
         /\ rows'[q].status = "running"
              => rows[q].status = "running" /\ rows'[q].done = rows[q].done
  BY <1>9 DEF Settled
<1>11. QED
  BY <1>4, <1>8, <1>10, ProgressKept DEF ProgressOK

(* A new row is a batch without children, or an open child.                *)
LEMMA WebProgress ==
  ASSUME Inv, ProgressOK,
         Submit \/ (\E n \in 0..MaxJobs : SubmitParent(n)) \/ SubmitChild
  PROVE  CountOK' /\ ClosedOK'
<1>1. PICK j \in JobId, s \in {"queued", "running", "done"},
           p \in JobId \cup {None}, n \in Nat :
        /\ InsertedAs(j, s, p, n)
        /\ p # None => s = "queued" /\ n = 0 /\ rows[p].status # "unborn"
  <2>1. web.left > 0 => web.parent \in JobId
                        /\ rows[web.parent].status # "unborn"
    BY DEF ProgressOK, BatchesOK, Batch
  <2>2. QED
    BY <2>1, WebEffect DEF ProgressOK
<1>2. /\ tick' = tick
      /\ rows[j].status = "unborn"
      /\ \A i \in JobId \ {j} : rows'[i] = rows[i]
      /\ rows'[j].status = s /\ rows'[j].parent = p
      /\ rows'[j].total = n /\ rows'[j].done = 0
  BY <1>1, WebEffect DEF InsertedAs, ProgressOK
<1>3. None # j
  BY ConstantsAssumption DEF JobId
<1>4. \A q \in JobId : rows[q].parent # j
  BY <1>2, <1>3 DEF ProgressOK, BatchesOK, Batch
<1>5. rows[j].parent = None /\ ~Settled(j) /\ rows[j].total = 0
  <2>1. rows[j].total \in Nat
    BY DEF Inv, TypeOK, Row
  <2>2. QED
    BY <1>2, <2>1 DEF ProgressOK, BatchesOK, Batch, Single, Settled
<1>6. ~At(j, {"close", "settle"}) /\ ~At(j, {"settle"})
  BY <1>2 DEF At, ProgressOK, SinglesOK, Single, Hands, Handling
<1>7. ASSUME NEW q \in JobId \ {j}
      PROVE  /\ Counted(q)' = Counted(q)
             /\ Passed(q)' = Passed(q)
             /\ Children(q)' \subseteq Children(q) \cup {j}
             /\ j \notin Passed(q)'
             /\ Children(q) \subseteq Children(q)'
  <2>1. \A d \in JobId \ {j} : /\ d \in Children(q)' <=> d \in Children(q)
                               /\ Settled(d)' <=> Settled(d)
    BY <1>2 DEF Children, Settled
  <2>2. \A d \in JobId : \A S : At(d, S)' <=> At(d, S)
    BY <1>2 DEF At
  <2>3. j \notin Children(q) /\ j \notin Counted(q) /\ j \notin Passed(q)
    BY <1>5, ConstantsAssumption DEF Children, Counted, Passed, JobId
  <2>4. j \in Children(q)' => ~Settled(j)'
    BY <1>1, <1>2, ConstantsAssumption DEF Children, Settled, JobId
  <2>5. j \notin Counted(q)' /\ j \notin Passed(q)'
    BY <1>6, <2>2, <2>4 DEF Counted, Passed
  <2>6. QED
    BY <2>1, <2>2, <2>3, <2>5 DEF Counted, Passed, Children
<1>8. Children(j)' = {} /\ Counted(j)' = {}
  <2>1. \A d \in JobId \ {j} : rows'[d].parent # j
    BY <1>2, <1>4
  <2>2. p # j
    BY <1>1, <1>2, ConstantsAssumption DEF JobId
  <2>3. QED
    BY <1>2, <2>1, <2>2 DEF Children, Counted
<1>9. CountOK'
  <2>1. Cardinality(Counted(j)') = 0
    BY <1>8, FS_EmptySet
  <2>2. QED
    BY <1>2, <1>7, <2>1 DEF CountOK, ProgressOK
<1>10. ClosedOK'
  <2>1. Cardinality(Children(j)') = 0
    BY <1>8, FS_EmptySet
  <2>2. ASSUME NEW q \in JobId \ {j}, rows'[q].total > 0,
               Cardinality(Children(q)') = rows'[q].total,
               Passed(q)' = Children(q)'
        PROVE  Settled(q)'
    <3>1. Children(q)' = Children(q) /\ Passed(q) = Children(q)
      BY <1>7, <2>2
    <3>2. QED
      BY <1>2, <2>2, <3>1 DEF ProgressOK, ClosedOK, Settled
  <2>3. QED
    BY <1>2, <2>1, <2>2 DEF ClosedOK
<1>11. QED
  BY <1>9, <1>10

LEMMA ProgressInit == Init => ProgressOK
<1> SUFFICES ASSUME Init PROVE ProgressOK
  OBVIOUS
<1>1. BatchesOK /\ SinglesOK
  BY DEF Init, BatchesOK, SinglesOK, UnbornRow, NoFanOut, BetweenTicks, Hands,
         Handling
<1>2. CountOK /\ ClosedOK
  BY DEF Init, CountOK, ClosedOK, UnbornRow
<1>3. QED
  BY <1>1, <1>2 DEF ProgressOK

LEMMA ProgressNext == Inv /\ ProgressOK /\ [Next]_vars => ProgressOK'
<1> SUFFICES ASSUME Inv, ProgressOK, [Next]_vars PROVE ProgressOK'
  OBVIOUS
<1>0. BatchesOK /\ SinglesOK
  BY DEF ProgressOK
<1>1. CASE Submit \/ (\E n \in 0..MaxJobs : SubmitParent(n)) \/ SubmitChild
  BY <1>0, <1>1, WebShape, WebProgress DEF ProgressOK
<1>2. CASE WebCrash
  <2>1. /\ rows' = rows /\ tick' = tick /\ future' = future
        /\ web' = NoFanOut
    BY <1>2 DEF WebCrash
  <2>2. BatchesOK'
    BY <1>0, <2>1, SameRowsCalm, CalmShape, BatchesKept
  <2>3. SinglesOK' /\ CountOK' /\ ClosedOK'
    BY <2>1 DEF ProgressOK, SinglesOK, Single, CountOK, ClosedOK, Counted,
                Passed, Children, Settled, At
  <2>4. QED
    BY <2>2, <2>3 DEF ProgressOK
<1>3. ASSUME NEW w \in Worker, CalmStep(w)
      PROVE  ProgressOK'
  BY <1>3, CalmProgress DEF CalmStep
<1>4. ASSUME NEW w \in Worker,
             BumpParent(w) \/ CloseParent(w) \/ Settle(w)
      PROVE  ProgressOK'
  <2>1. Only(w) /\ FromHands(w) /\ web' = web /\ SameShape
    BY <1>0, <1>4, SettlingHands, SettlingShape
  <2>2. BatchesOK' /\ SinglesOK'
    BY <1>0, <2>1, BatchesKept, SinglesKept
  <2>3. CountOK' /\ ClosedOK'
    BY <1>4, BumpProgress, CloseProgress, SettleProgress
  <2>4. QED
    BY <2>2, <2>3 DEF ProgressOK
<1>5. ASSUME NEW w \in Worker, Step(w)
      PROVE  ProgressOK'
  BY <1>0, <1>3, <1>4, <1>5, CalmReap, CalmLog, CalmClaim, CalmMaint
     DEF Step, Settling
<1>6. ASSUME NEW w \in Worker,
             \/ \E j \in JobId : Finish(w, j)
             \/ PoolBreaks(w) \/ Crash(w) \/ Restart(w) \/ TickRaises(w)
      PROVE  ProgressOK'
  BY <1>0, <1>6, CalmEnv, CalmProgress
<1>7. ASSUME NEW j \in JobId, Lapse(j)
      PROVE  ProgressOK'
  <2>1. Calm
    BY <1>7, LapsedCalm DEF Lapse, Inv, TypeOK, Table
  <2>2. tick' = tick /\ future' = future /\ web' = web
    BY <1>7 DEF Lapse
  <2>3. SinglesOK'
    <3>1. \A i \in JobId : Single(i) => Single(i)'
      BY <2>1 DEF Single, Calm, SameCounters
    <3>2. \A w \in Worker : /\ tick[w].step \in Hands => tick[w].job \in JobId
                            /\ tick[w].todo \subseteq JobId
      BY DEF Inv, TypeOK, Tick, HandsOK, InHand, Hands
    <3>3. QED
      BY <1>0, <2>2, <3>1, <3>2 DEF SinglesOK, Single
  <2>4. \A p \in JobId : Counted(p)' = Counted(p) /\ Passed(p)' = Passed(p)
    BY <2>1, <2>2 DEF Calm, Counted, Passed, Children, Settled, At
  <2>5. \A p \in JobId : rows[p].total > 0 =>
          /\ Settled(p) => Settled(p)'
          /\ rows'[p].status = "running"
               => rows[p].status = "running" /\ rows'[p].done = rows[p].done
    BY <1>0, <2>1 DEF Calm, SameCounters, Settled, BatchesOK, Batch
  <2>6. QED
    BY <1>0, <2>1, <2>2, <2>3, <2>4, <2>5, CalmShape, BatchesKept, ProgressKept
       DEF ProgressOK
<1>8. CASE UNCHANGED vars
  BY <1>8 DEF vars, ProgressOK, BatchesOK, Batch, SinglesOK, Single, CountOK,
              ClosedOK, Counted, Passed, Children, Settled, At
<1>9. QED
  BY <1>1, <1>2, <1>5, <1>6, <1>7, <1>8 DEF Next

LEMMA ProgressAlways == Spec => [](Inv /\ ProgressOK)
<1>1. Init => Inv /\ ProgressOK
  BY InvInit, ProgressInit
<1>2. Inv /\ ProgressOK /\ [Next]_vars => Inv' /\ ProgressOK'
  BY InvNext, ProgressNext
<1>3. QED
  BY <1>1, <1>2, PTL DEF Spec

(* A batch whose children were all inserted and have all ended is closed,
   wherever a loop died, lost its tick or was restarted in between.        *)
THEOREM BatchesClose == Spec => []BatchCloses
<1>1. ProgressOK => BatchCloses
  BY DEF ProgressOK, ClosedOK, BatchCloses, Passed
<1>2. QED
  BY <1>1, ProgressAlways, PTL

-----------------------------------------------------------------------------
(* Who owns a running row.                                                 *)

Tended(w, j) == /\ rows[j].status = "running"
                /\ rows[j].claimed_by = w
                /\ rows[j].heartbeat = "fresh"

(* Loop w is between claiming j and its future, or settles how it ended.   *)
TickHolds(w, j) ==
  /\ tick[w].job = j
  /\ \/ tick[w].step = "submit"
     \/ tick[w].step \in Handling /\ tick[w].back \in {"reap", "claim"}

(* Whoever holds a job owns its fresh row, and holds it once; a dead
   process holds nothing.                                                  *)
HeldOK ==
  /\ \A w \in Worker, j \in JobId : Holds(w, j) => Tended(w, j)
  /\ \A w \in Worker, j \in JobId : TickHolds(w, j) => future[w][j] = "none"
  /\ \A w \in Worker : ~alive[w] => /\ tick[w].step = "idle"
                                    /\ \A j \in JobId : future[w][j] = "none"

(* A job out of attempts that nobody holds: it can only end in error.      *)
GivenUp(j) == /\ rows[j].attempts >= MaxAttempts
              /\ rows[j].status \in {"running", "error", "pruned"}
              /\ \A w \in Worker : ~Holds(w, j)

Expiring(w) == /\ tick[w].step \in Handling
               /\ tick[w].back = "expire"

(* The list a maintenance works through stays a list of given-up jobs.     *)
ExpireOK == \A w \in Worker :
  /\ Expiring(w) \/ tick[w].step = "expire"
       => \A j \in tick[w].todo : GivenUp(j)
  /\ Expiring(w) => GivenUp(tick[w].job) /\ tick[w].outcome = "error"

OwnersOK == HeldOK /\ ExpireOK

LEMMA HoldsMeans ==
  \A w, j : Holds(w, j) <=> future[w][j] # "none" \/ TickHolds(w, j)
BY DEF Holds, TickHolds, Handling

(* What every step but a claim and the end of a job does to the rows.      *)
SteadyRow(i) ==
  /\ rows'[i].attempts = rows[i].attempts
  /\ \A v \in Worker : Tended(v, i) => Tended(v, i)'
  /\ rows[i].attempts >= MaxAttempts
       => \/ rows'[i].status = rows[i].status
          \/ rows'[i].status = "pruned"
  /\ Settled(i) => rows'[i].status \in {rows[i].status, "pruned"}
  /\ rows[i].status = "pruned" => rows'[i].status = "pruned"

Steady == \A i \in JobId : SteadyRow(i)

LEMMA SameRowsSteady ==
  ASSUME rows' = rows
  PROVE  Steady
BY DEF Steady, SteadyRow, Tended

LEMMA SameClaimSteady ==
  ASSUME rows \in Table,
         \A i \in JobId : /\ SameClaim(rows[i], rows'[i])
                          /\ rows'[i].status = rows[i].status
  PROVE  Steady
BY DEF Steady, SteadyRow, Tended, SameClaim

LEMMA RequeuedSteady ==
  ASSUME rows \in Table, rows' = Requeued
  PROVE  Steady
<1>1. \A i \in JobId :
        /\ Requeueable(i) => /\ rows'[i].status = "queued"
                             /\ rows'[i].attempts = rows[i].attempts
        /\ ~Requeueable(i) => rows'[i] = rows[i]
  BY RequeuedRows
<1>2. \A i \in JobId : Requeueable(i) => /\ rows[i].status = "running"
                                         /\ rows[i].heartbeat = "stale"
                                         /\ rows[i].attempts < MaxAttempts
                                         /\ rows[i].attempts \in Nat
  BY DEF Requeueable, Table, Row
<1>3. ASSUME NEW i \in JobId
      PROVE  SteadyRow(i)
  <2>1. CASE Requeueable(i)
    BY <1>1, <1>2, <2>1, ConstantsAssumption DEF SteadyRow, Tended, Settled
  <2>2. CASE ~Requeueable(i)
    BY <1>1, <2>2 DEF SteadyRow, Tended
  <2>3. QED
    BY <2>1, <2>2
<1>4. QED
  BY <1>3 DEF Steady

LEMMA HeartbeatsSteady ==
  ASSUME rows \in Table, NEW w \in Worker, rows' = Heartbeats(w)
  PROVE  Steady
<1>1. \A i \in JobId :
        /\ rows'[i].status = rows[i].status
        /\ rows'[i].attempts = rows[i].attempts
        /\ rows'[i].claimed_by = rows[i].claimed_by
        /\ rows'[i].heartbeat = "fresh" \/ rows'[i] = rows[i]
  BY HeartbeatsRows
<1>2. QED
  BY <1>1 DEF Steady, SteadyRow, Tended, Settled

LEMMA PrunedSteady ==
  ASSUME rows \in Table,
         NEW S \in SUBSET {j \in JobId : rows[j].status \in {"done", "error"}},
         rows' = Pruned(S)
  PROVE  Steady
<1>1. \A i \in JobId :
        /\ SameClaim(rows[i], rows'[i])
        /\ rows'[i].status = IF i \in S THEN "pruned" ELSE rows[i].status
  BY PrunedRows
<1>2. QED
  BY <1>1 DEF Steady, SteadyRow, Tended, SameClaim, Settled

(* Only a batch is closed, and a batch is never claimed.                   *)
LEMMA ClosedSteady ==
  ASSUME rows \in Table, NEW p \in JobId, Batch(p), rows' = Closed(p)
  PROVE  Steady
<1>1. /\ \A i \in JobId \ {p} : rows'[i] = rows[i]
      /\ SameClaim(rows[p], rows'[p])
      /\ rows'[p].status # rows[p].status
           => rows[p].status = "running" /\ rows'[p].status = "done"
  BY ClosedRows
<1>2. /\ ~(rows[p].attempts >= MaxAttempts)
      /\ \A v \in Worker : ~Tended(v, p)
  BY ConstantsAssumption DEF Batch, Tended
<1>3. SteadyRow(p)
  BY <1>1, <1>2 DEF SteadyRow, SameClaim, Settled
<1>4. \A i \in JobId \ {p} : SteadyRow(i)
  BY <1>1 DEF SteadyRow, Tended, Settled
<1>5. QED
  BY <1>3, <1>4 DEF Steady

-----------------------------------------------------------------------------
(* Where the jobs that a loop holds, or expires, come from.                *)

FromHolders(w) ==
  /\ \A j \in JobId : Holds(w, j)' => Holds(w, j)
  /\ \A j \in JobId : TickHolds(w, j)' => future'[w][j] = "none"
  /\ Expiring(w)' \/ tick'[w].step = "expire"
       => \A j \in tick'[w].todo : j \in JobId /\ GivenUp(j)
  /\ Expiring(w)' => /\ tick'[w].job \in JobId
                     /\ GivenUp(tick'[w].job)
                     /\ tick'[w].outcome = "error"

HoldingSteps == Handling \cup {"submit"}

LEMMA FreeHolders ==
  ASSUME NEW w \in Worker, NEW S, NEW T \in SUBSET JobId,
         Free(w, S, T), S \cap HoldingSteps = {},
         "expire" \in S => \A j \in T : GivenUp(j),
         \A j \in JobId : future'[w][j] # "none" => Holds(w, j)
  PROVE  FromHolders(w)
<1>1. tick'[w].step \notin HoldingSteps /\ tick'[w].step \in S /\ tick'[w].todo = T
  BY DEF Free
<1>2. ~Expiring(w)' /\ \A j \in JobId : ~TickHolds(w, j)'
  BY <1>1 DEF Expiring, TickHolds, HoldingSteps
<1>3. \A j \in JobId : Holds(w, j)' => Holds(w, j)
  BY <1>1 DEF Holds, HoldingSteps, Handling
<1>4. QED
  BY <1>1, <1>2, <1>3 DEF FromHolders

LEMMA GoesHolders ==
  ASSUME Inv, OwnersOK, NEW w \in Worker, NEW S, Goes(w, S),
         \/ S \cap HoldingSteps = {} /\ "expire" \notin S
         \/ S \subseteq Handling /\ tick[w].step \in Handling,
         \A j \in JobId : future'[w][j] = future[w][j]
  PROVE  FromHolders(w)
<1>1. /\ tick'[w].step \in S
      /\ tick'[w].job = tick[w].job
      /\ tick'[w].outcome = tick[w].outcome
      /\ tick'[w].back = tick[w].back
      /\ tick'[w].todo = tick[w].todo
      /\ \A j \in tick[w].todo : j \in JobId
      /\ tick[w].step \in Handling => tick[w].job \in JobId
  BY DEF Goes, Inv, TypeOK, Tick, HandsOK, InHand
<1>2. CASE S \cap HoldingSteps = {} /\ "expire" \notin S
  BY <1>1, <1>2, HoldsMeans
     DEF FromHolders, Holds, TickHolds, Expiring, HoldingSteps, Handling
<1>3. CASE S \subseteq Handling /\ tick[w].step \in Handling
  <2>1. tick'[w].step \in Handling /\ tick'[w].step # "expire" /\ tick'[w].step # "submit"
    BY <1>1, <1>3 DEF Handling
  <2>2. \A j \in JobId : TickHolds(w, j)' => TickHolds(w, j)
    BY <1>1, <1>3, <2>1 DEF TickHolds
  <2>3. \A j \in JobId : Holds(w, j)' => Holds(w, j)
    BY <1>1, <1>3, <2>1 DEF Holds, Handling
  <2>4. Expiring(w)' => Expiring(w)
    BY <1>1, <1>3 DEF Expiring
  <2>5. QED
    BY <1>1, <1>3, <2>1, <2>2, <2>3, <2>4
       DEF FromHolders, OwnersOK, HeldOK, ExpireOK, Expiring
<1>4. QED
  BY <1>2, <1>3

LEMMA HandledHolders ==
  ASSUME Inv, OwnersOK, NEW w \in Worker, NEW j \in JobId, NEW o,
         NEW b \in {"reap", "claim", "expire"}, Handled(w, j, o, b),
         b # "expire" => Holds(w, j) /\ future'[w][j] = "none",
         b = "expire" => GivenUp(j) /\ o = "error"
                         /\ \A i \in tick[w].todo : GivenUp(i),
         \A i \in JobId : future'[w][i] # "none" => future[w][i] # "none"
  PROVE  FromHolders(w)
<1>1. /\ tick'[w].step \in Handling /\ tick'[w].step # "expire"
      /\ tick'[w].step # "submit"
      /\ tick'[w].job = j /\ tick'[w].outcome = o /\ tick'[w].back = b
      /\ tick'[w].todo = tick[w].todo \ {j}
      /\ \A i \in tick[w].todo : i \in JobId
  BY DEF Handled, Handling, Inv, TypeOK, Tick
<1>2. \A i \in JobId : TickHolds(w, i)' => i = j /\ b # "expire"
  BY <1>1 DEF TickHolds
<1>3. \A i \in JobId : Holds(w, i)' => Holds(w, i)
  BY <1>1 DEF Holds, Handling
<1>4. Expiring(w)' <=> b = "expire"
  BY <1>1 DEF Expiring
<1>5. QED
  BY <1>1, <1>2, <1>3, <1>4 DEF FromHolders

-----------------------------------------------------------------------------
(* The steps that neither claim nor end a job.                             *)

AliveKept(w) ==
  /\ \A v \in Worker \ {w} : alive'[v] = alive[v]
  /\ ~alive'[w] => /\ tick'[w].step = "idle"
                   /\ \A j \in JobId : future'[w][j] = "none"

SteadyStep(w) == Steady /\ Only(w) /\ FromHolders(w) /\ AliveKept(w)

(* A loop that is not between two ticks, or has a future, is up.           *)
LEMMA Awake ==
  ASSUME HeldOK, NEW w \in Worker, alive' = alive,
         \/ alive[w]
         \/ tick[w].step # "idle"
         \/ \E j \in JobId : future[w][j] # "none"
  PROVE  AliveKept(w)
BY DEF HeldOK, AliveKept

LEMMA StepAwake ==
  ASSUME HeldOK, NEW w \in Worker, Step(w)
  PROVE  AliveKept(w)
<1>1. alive' = alive
  BY DEF Step, StartTick, Reap, EndReap, Settling, ReadErrors, AppendError,
         BumpParent, CloseParent, Settle, Claiming, Select, EndClaim, Take,
         Start, PlanRaises, StartRefused, Beat, EndTick, Maintaining,
         RequeueStale, SelectExhausted, Expire, EndExpire, EndMaintenance, Prune
<1>2. alive[w] \/ tick[w].step # "idle"
  BY DEF Step, StartTick, Reap, EndReap, Settling, ReadErrors, AppendError,
         BumpParent, CloseParent, Settle, Claiming, Select, EndClaim, Take,
         Start, PlanRaises, StartRefused, Beat, EndTick, Maintaining,
         RequeueStale, SelectExhausted, Expire, EndExpire, EndMaintenance, Prune
<1>3. QED
  BY <1>1, <1>2, Awake

LEMMA SteadyReap ==
  ASSUME Inv, OwnersOK, NEW w \in Worker,
         StartTick(w) \/ Reap(w) \/ EndReap(w)
  PROVE  Steady /\ Only(w) /\ FromHolders(w)
<1>0. /\ \A j \in JobId : future[w][j] # "none" => Holds(w, j)
      /\ rows' = rows
  BY HoldsMeans DEF StartTick, Reap, EndReap
<1>1. Steady
  BY <1>0, SameRowsSteady
<1>2. CASE StartTick(w)
  <2>1. Free(w, {"reap", "claim"}, DoneFutures(w)) /\ Only(w) /\ future' = future
    BY <1>2, StartTickEffect DEF StartTick
  <2>2. {"reap", "claim"} \cap HoldingSteps = {} /\ DoneFutures(w) \in SUBSET JobId
    BY DEF HoldingSteps, Handling, DoneFutures
  <2>3. FromHolders(w)
    BY <1>0, <2>1, <2>2, FreeHolders
  <2>4. QED
    BY <1>1, <2>1, <2>3
<1>3. CASE Reap(w)
  <2>1. Only(w)
    BY <1>3, ReapEffect
  <2>2. PICK j \in tick[w].todo, o \in {"done", "error"} :
          /\ j \in JobId
          /\ future[w][j] # "none"
          /\ Handled(w, j, o, "reap")
          /\ future'[w][j] = "none"
          /\ \A i \in JobId \ {j} : future'[w][i] = future[w][i]
    BY <1>3, ReapEffect
  <2>3. FromHolders(w)
    BY <1>0, <2>2, HandledHolders
  <2>4. QED
    BY <1>1, <2>1, <2>3
<1>4. CASE EndReap(w)
  <2>1. Goes(w, {"claim"}) /\ Only(w) /\ future' = future
    BY <1>4, MoveEffect DEF EndReap, Steps
  <2>2. {"claim"} \cap HoldingSteps = {}
    BY DEF HoldingSteps, Handling
  <2>3. QED
    BY <1>1, <2>1, <2>2, GoesHolders
<1>5. QED
  BY <1>2, <1>3, <1>4

LEMMA SteadySettling ==
  ASSUME Inv, BatchesOK, OwnersOK, NEW w \in Worker,
         ReadErrors(w) \/ AppendError(w) \/ BumpParent(w) \/ CloseParent(w)
  PROVE  Steady /\ Only(w) /\ FromHolders(w)
<1> DEFINE p == rows[tick[w].job].parent
<1>0. /\ tick[w].step \in Handling /\ future' = future /\ rows \in Table
      /\ p \in JobId /\ {"append", "bump", "close", "settle"} \subseteq Handling
      /\ tick[w].job \in JobId /\ tick[w].seen \in SUBSET JobId
  BY DEF ReadErrors, AppendError, BumpParent, CloseParent, Inv, TypeOK, Table,
         HandsOK, InHand, Handling, Tick
<1>1. CASE ReadErrors(w)
  <2>1. Goes(w, {"append", "bump"}) /\ Only(w) /\ rows' = rows
    BY <1>1, ReadErrorsEffect DEF ReadErrors
  <2>2. QED
    BY <1>0, <2>1, SameRowsSteady, GoesHolders
<1>2. CASE AppendError(w)
  <2>1. Goes(w, {"bump"}) /\ Only(w)
    BY <1>2, AppendErrorEffect
  <2>2. rows' = ErrorsWritten(p, tick[w].seen \cup {tick[w].job})
    BY <1>2 DEF AppendError
  <2>3. tick[w].seen \cup {tick[w].job} \in SUBSET JobId
    BY <1>0
  <2> HIDE DEF p
  <2>4. Steady
    BY <1>0, <2>2, <2>3, ErrorsRows, SameClaimSteady
  <2>5. QED
    BY <1>0, <2>1, <2>4, GoesHolders
<1>3. CASE BumpParent(w)
  <2>1. Goes(w, {"close"}) /\ Only(w) /\ rows' = Bumped(p)
    BY <1>3, BumpParentEffect
  <2> HIDE DEF p
  <2>2. Steady
    BY <1>0, <2>1, BumpedRows, SameClaimSteady
  <2>3. QED
    BY <1>0, <2>1, <2>2, GoesHolders
<1>4. CASE CloseParent(w)
  <2>1. Goes(w, {"settle"}) /\ Only(w) /\ rows' = Closed(p)
    BY <1>4, CloseParentEffect
  <2>2. Batch(p)
    BY <1>0, ConstantsAssumption DEF BatchesOK, JobId
  <2> HIDE DEF p
  <2>3. Steady
    BY <1>0, <2>1, <2>2, ClosedSteady
  <2>4. QED
    BY <1>0, <2>1, <2>3, GoesHolders
<1>5. QED
  BY <1>1, <1>2, <1>3, <1>4

LEMMA SteadyClaim ==
  ASSUME Inv, OwnersOK, NEW w \in Worker,
         \/ Select(w) \/ EndClaim(w) \/ Start(w) \/ PlanRaises(w) \/ StartRefused(w)
         \/ Take(w) /\ rows' = rows /\ Free(w, {"claim"}, tick[w].todo)
  PROVE  Steady /\ Only(w) /\ FromHolders(w)
<1>0. /\ \A j \in JobId : future[w][j] # "none" => Holds(w, j)
      /\ rows' = rows
      /\ tick[w].todo \in SUBSET JobId
  BY HoldsMeans DEF Select, EndClaim, Start, PlanRaises, StartRefused, Inv,
                    TypeOK, Tick
<1>1. Steady
  BY <1>0, SameRowsSteady
<1>2. CASE Select(w)
  <2>1. Free(w, {"take"}, tick[w].todo) /\ Only(w) /\ future' = future
    BY <1>2, SelectEffect DEF Select
  <2>2. {"take"} \cap HoldingSteps = {}
    BY DEF HoldingSteps, Handling
  <2>3. FromHolders(w)
    BY <1>0, <2>1, <2>2, FreeHolders
  <2>4. QED
    BY <1>1, <2>1, <2>3
<1>3. CASE EndClaim(w)
  <2>1. PICK s \in {"maintain", "beat"} : Move(w, s)
    BY <1>3 DEF EndClaim
  <2>2. s \in Steps /\ {s} \cap HoldingSteps = {} /\ future' = future
    BY <1>3 DEF EndClaim, Steps, HoldingSteps, Handling
  <2>3. Goes(w, {s}) /\ Only(w)
    BY <2>1, <2>2, MoveEffect
  <2>4. QED
    BY <1>1, <2>2, <2>3, GoesHolders
<1>4. CASE Start(w)
  <2>1. /\ Free(w, {"claim"}, tick[w].todo) /\ Only(w)
        /\ \A i \in JobId \ {tick[w].job} : future'[w][i] = future[w][i]
    BY <1>4, StartEffect
  <2>2. Holds(w, tick[w].job)
    BY <1>4 DEF Start, Holds
  <2>3. {"claim"} \cap HoldingSteps = {}
    BY DEF HoldingSteps, Handling
  <2>4. FromHolders(w)
    BY <1>0, <2>1, <2>2, <2>3, FreeHolders
  <2>5. QED
    BY <1>1, <2>1, <2>4
<1>5. CASE PlanRaises(w)
  <2>1. Handled(w, tick[w].job, "error", "claim") /\ Only(w) /\ future' = future
    BY <1>5, PlanRaisesEffect DEF PlanRaises
  <2>2. /\ TickHolds(w, tick[w].job) /\ tick[w].job \in JobId
        /\ Holds(w, tick[w].job)
    BY <1>5 DEF PlanRaises, TickHolds, Holds, Inv, HandsOK, InHand, Handling
  <2>3. future[w][tick[w].job] = "none"
    BY <2>2 DEF OwnersOK, HeldOK
  <2>4. QED
    BY <1>1, <2>1, <2>2, <2>3, HandledHolders
<1>6. CASE StartRefused(w)
  <2>1. Free(w, {"idle"}, {}) /\ Only(w) /\ future' = future
    BY <1>6, ResetEffect DEF StartRefused
  <2>2. {"idle"} \cap HoldingSteps = {}
    BY DEF HoldingSteps, Handling
  <2>3. QED
    BY <1>0, <1>1, <2>1, <2>2, FreeHolders
<1>7. CASE Take(w) /\ rows' = rows /\ Free(w, {"claim"}, tick[w].todo)
  <2>1. Only(w) /\ future' = future
    BY <1>7, TakeEffect DEF Take
  <2>2. {"claim"} \cap HoldingSteps = {}
    BY DEF HoldingSteps, Handling
  <2>3. QED
    BY <1>0, <1>1, <1>7, <2>1, <2>2, FreeHolders
<1>8. QED
  BY <1>2, <1>3, <1>4, <1>5, <1>6, <1>7

LEMMA SteadyMaint ==
  ASSUME Inv, OwnersOK, NEW w \in Worker, Beat(w) \/ EndTick(w) \/ Maintaining(w)
  PROVE  Steady /\ Only(w) /\ FromHolders(w)
<1>0. /\ \A j \in JobId : future[w][j] # "none" => Holds(w, j)
      /\ rows \in Table
  BY HoldsMeans DEF Inv, TypeOK, Table
<1>1. future' = future
  BY DEF Maintaining, Beat, EndTick, RequeueStale, SelectExhausted, Expire,
         EndExpire, EndMaintenance, Prune
<1>2. ASSUME NEW s \in {"maintain", "exhausted", "prune"}, Move(w, s)
      PROVE  Only(w) /\ FromHolders(w)
  <2>1. s \in Steps /\ {s} \cap HoldingSteps = {} /\ "expire" \notin {s}
    BY DEF Steps, HoldingSteps, Handling
  <2>2. Goes(w, {s}) /\ Only(w)
    BY <1>1, <1>2, <2>1, MoveEffect
  <2>3. QED
    BY <1>1, <2>1, <2>2, GoesHolders
<1>3. ASSUME Goto(w, BetweenTicks)
      PROVE  Only(w) /\ FromHolders(w)
  <2>1. Free(w, {"idle"}, {}) /\ Only(w)
    BY <1>1, <1>3, ResetEffect
  <2>2. {"idle"} \cap HoldingSteps = {}
    BY DEF HoldingSteps, Handling
  <2>3. QED
    BY <1>0, <1>1, <2>1, <2>2, FreeHolders
<1>4. CASE Beat(w)
  <2>1. Steady
    BY <1>0, <1>4, HeartbeatsSteady, SameRowsSteady DEF Beat
  <2>2. QED
    BY <1>2, <1>4, <2>1 DEF Beat
<1>5. CASE EndTick(w)
  BY <1>3, <1>5, SameRowsSteady DEF EndTick
<1>6. CASE RequeueStale(w)
  BY <1>0, <1>2, <1>6, RequeuedSteady DEF RequeueStale
<1>7. CASE SelectExhausted(w)
  <2>1. Free(w, {"prune", "expire"}, StaleExhausted) /\ Only(w) /\ rows' = rows
    BY <1>7, SelectExhaustedEffect DEF SelectExhausted
  <2>2. {"prune", "expire"} \cap HoldingSteps = {} /\ StaleExhausted \in SUBSET JobId
    BY DEF HoldingSteps, Handling, StaleExhausted
  <2>3. ASSUME NEW j \in StaleExhausted
        PROVE  GivenUp(j)
    <3>1. \A v \in Worker : ~Holds(v, j)
      BY <2>2 DEF StaleExhausted, OwnersOK, HeldOK, Tended
    <3>2. QED
      BY <3>1 DEF GivenUp, StaleExhausted
  <2>4. FromHolders(w)
    BY <1>0, <1>1, <2>1, <2>2, <2>3, FreeHolders
  <2>5. QED
    BY <2>1, <2>4, SameRowsSteady
<1>8. CASE Expire(w)
  <2>1. PICK j \in tick[w].todo : j \in JobId /\ Handled(w, j, "error", "expire")
    BY <1>8, ExpireEffect
  <2>2. Only(w) /\ rows' = rows /\ tick[w].step = "expire"
    BY <1>8, ExpireEffect DEF Expire
  <2>3. \A i \in tick[w].todo : GivenUp(i)
    BY <2>2 DEF OwnersOK, ExpireOK
  <2>4. FromHolders(w)
    BY <1>1, <2>1, <2>3, HandledHolders
  <2>5. QED
    BY <2>2, <2>4, SameRowsSteady
<1>9. CASE EndExpire(w)
  BY <1>2, <1>9, SameRowsSteady DEF EndExpire
<1>10. CASE EndMaintenance(w)
  BY <1>3, <1>10, SameRowsSteady DEF EndMaintenance
<1>11. CASE Prune(w)
  <2>1. Steady
    BY <1>0, <1>11, PrunedSteady DEF Prune
  <2>2. QED
    BY <1>3, <1>11, <2>1 DEF Prune
<1>12. QED
  BY <1>4, <1>5, <1>6, <1>7, <1>8, <1>9, <1>10, <1>11 DEF Maintaining

LEMMA SteadyEnv ==
  ASSUME Inv, OwnersOK, NEW w \in Worker,
         \/ \E j \in JobId : Finish(w, j)
         \/ PoolBreaks(w) \/ Crash(w) \/ Restart(w) \/ TickRaises(w)
  PROVE  SteadyStep(w)
<1>0. /\ \A j \in JobId : future[w][j] # "none" => Holds(w, j)
      /\ tick \in [Worker -> Tick] /\ alive \in [Worker -> BOOLEAN]
      /\ future \in [Worker -> [JobId -> {"none", "running", "returned", "raised"}]]
  BY HoldsMeans DEF Inv, TypeOK
<1>1. rows' = rows
  BY DEF Finish, PoolBreaks, Crash, Restart, TickRaises
<1>2. /\ \A v \in Worker \ {w} : future'[v] = future[v]
      /\ \A j \in JobId : future'[w][j] # "none" => future[w][j] # "none"
  BY <1>0 DEF Finish, PoolBreaks, Crash, Restart, TickRaises
<1>3. CASE (\E j \in JobId : Finish(w, j)) \/ PoolBreaks(w) \/ Restart(w)
  <2>0. tick' = tick
    BY <1>3 DEF Finish, PoolBreaks, Restart
  <2>1. \A j \in JobId : TickHolds(w, j)' <=> TickHolds(w, j)
    BY <2>0 DEF TickHolds
  <2>2. \A j \in JobId : Holds(w, j)' => Holds(w, j)
    BY <1>2, <2>0 DEF Holds
  <2>3. Expiring(w)' <=> Expiring(w)
    BY <2>0 DEF Expiring
  <2>4. \A j \in JobId : TickHolds(w, j)' => future'[w][j] = "none"
    BY <1>2, <2>1 DEF OwnersOK, HeldOK
  <2>5. /\ \A j \in tick[w].todo : j \in JobId
        /\ Expiring(w) => tick[w].job \in JobId
    BY DEF Inv, TypeOK, Tick, HandsOK, InHand, Expiring
  <2>6. FromHolders(w)
    BY <2>0, <2>2, <2>3, <2>4, <2>5 DEF FromHolders, OwnersOK, ExpireOK
  <2>7. Only(w)
    BY <1>2, <2>0 DEF Only
  <2>8. AliveKept(w)
    <3>1. CASE (\E j \in JobId : Finish(w, j)) \/ PoolBreaks(w)
      <4>1. alive' = alive /\ \E j \in JobId : future[w][j] # "none"
        BY <3>1 DEF Finish, PoolBreaks
      <4>2. QED
        BY <4>1, Awake DEF OwnersOK
    <3>2. CASE Restart(w)
      BY <1>0, <3>2 DEF Restart, AliveKept
    <3>3. QED
      BY <1>3, <3>1, <3>2
  <2>9. QED
    BY <1>1, <2>6, <2>7, <2>8, SameRowsSteady DEF SteadyStep
<1>4. CASE Crash(w) \/ TickRaises(w)
  <2>1. Free(w, {"idle"}, {}) /\ Only(w)
    BY <1>2, <1>4, ResetEffect DEF Crash, TickRaises
  <2>2. {"idle"} \cap HoldingSteps = {}
    BY DEF HoldingSteps, Handling
  <2>3. FromHolders(w)
    BY <1>0, <1>2, <2>1, <2>2, FreeHolders
  <2>4. AliveKept(w)
    <3>1. CASE Crash(w)
      BY <1>0, <2>1, <3>1 DEF Crash, AliveKept, Free
    <3>2. CASE TickRaises(w)
      BY <3>2, Awake DEF TickRaises, OwnersOK
    <3>3. QED
      BY <1>4, <3>1, <3>2
  <2>5. QED
    BY <1>1, <2>1, <2>3, <2>4, SameRowsSteady DEF SteadyStep
<1>5. QED
  BY <1>3, <1>4

LEMMA OwnersKept ==
  ASSUME Inv, OwnersOK, NEW w \in Worker, SteadyStep(w)
  PROVE  OwnersOK'
<1>0. Steady /\ Only(w) /\ FromHolders(w) /\ AliveKept(w)
  BY DEF SteadyStep
<1>1. \A v \in Worker \ {w}, j \in JobId :
        /\ Holds(v, j)' <=> Holds(v, j)
        /\ TickHolds(v, j)' <=> TickHolds(v, j)
  BY <1>0 DEF Only, Holds, TickHolds
<1>2. \A v \in Worker, j \in JobId : Holds(v, j)' => Holds(v, j)
  BY <1>0, <1>1 DEF FromHolders
<1>3. HeldOK'
  <2>1. ASSUME NEW v \in Worker, NEW j \in JobId, Holds(v, j)'
        PROVE  Tended(v, j)'
    <3>1. Tended(v, j)
      BY <1>2, <2>1 DEF OwnersOK, HeldOK
    <3>2. QED
      BY <1>0, <3>1 DEF Steady, SteadyRow
  <2>2. ASSUME NEW v \in Worker, NEW j \in JobId, TickHolds(v, j)'
        PROVE  future'[v][j] = "none"
    <3>1. CASE v = w
      BY <1>0, <2>2, <3>1 DEF FromHolders
    <3>2. CASE v # w
      BY <1>0, <1>1, <2>2, <3>2 DEF OwnersOK, HeldOK, Only
    <3>3. QED
      BY <3>1, <3>2
  <2>3. ASSUME NEW v \in Worker, ~alive'[v]
        PROVE  /\ tick'[v].step = "idle"
               /\ \A j \in JobId : future'[v][j] = "none"
    <3>1. CASE v = w
      BY <1>0, <2>3, <3>1 DEF AliveKept
    <3>2. CASE v # w
      BY <1>0, <2>3, <3>2 DEF OwnersOK, HeldOK, Only, AliveKept
    <3>3. QED
      BY <3>1, <3>2
  <2>4. QED
    BY <2>1, <2>2, <2>3 DEF HeldOK
<1>4. ASSUME NEW j \in JobId, GivenUp(j)
      PROVE  GivenUp(j)'
  <2>1. rows'[j].attempts = rows[j].attempts
        /\ (rows'[j].status = rows[j].status \/ rows'[j].status = "pruned")
    BY <1>0, <1>4 DEF Steady, SteadyRow, GivenUp
  <2>2. \A v \in Worker : ~Holds(v, j)'
    BY <1>2, <1>4 DEF GivenUp
  <2>3. QED
    BY <1>4, <2>1, <2>2 DEF GivenUp
<1>5. ASSUME NEW v \in Worker
      PROVE  /\ Expiring(v)' \/ tick'[v].step = "expire"
                  => \A j \in tick'[v].todo : j \in JobId /\ GivenUp(j)
             /\ Expiring(v)' => /\ tick'[v].job \in JobId
                                /\ GivenUp(tick'[v].job)
                                /\ tick'[v].outcome = "error"
  <2>1. CASE v = w
    BY <1>0, <2>1 DEF FromHolders
  <2>2. CASE v # w
    <3>1. tick'[v] = tick[v]
      BY <1>0, <2>2 DEF Only
    <3>2. /\ \A j \in tick[v].todo : j \in JobId
          /\ Expiring(v) => tick[v].job \in JobId
      BY DEF Inv, TypeOK, Tick, HandsOK, InHand, Expiring
    <3>3. QED
      BY <3>1, <3>2 DEF OwnersOK, ExpireOK, Expiring
  <2>3. QED
    BY <2>1, <2>2
<1>6. ExpireOK'
  BY <1>4, <1>5 DEF ExpireOK, GivenUp
<1>7. QED
  BY <1>3, <1>6 DEF OwnersOK

(* The claim is the only way to a job, and its guard finds it unowned.     *)
LEMMA TakeOwners ==
  ASSUME Inv, OwnersOK, NEW w \in Worker, Take(w), Goes(w, {"submit"}),
         rows[tick[w].job].status = "queued", rows' = Claimed(tick[w].job, w)
  PROVE  OwnersOK' /\ \A i \in JobId : Settled(i) => rows'[i] = rows[i]
<1>0. PICK j \in JobId : j = tick[w].job
  BY DEF Take, Inv, HandsOK, InHand
<1>1. /\ rows \in Table /\ alive' = alive /\ future' = future
      /\ tick[w].step = "take" /\ alive[w]
  BY DEF Take, Inv, TypeOK, Table, OwnersOK, HeldOK
<1>2. /\ Only(w)
      /\ tick'[w].step = "submit" /\ tick'[w].job = j
  BY <1>0, TakeEffect DEF Goes
<1>3. rows[j].status = "queued" /\ rows' = Claimed(j, w)
  BY <1>0
<1>4. /\ \A i \in JobId \ {j} : rows'[i] = rows[i]
      /\ Tended(w, j)'
  BY <1>1, <1>3, ClaimedRows DEF Tended
<1>5. \A v \in Worker : ~Holds(v, j)
  BY <1>1, <1>3 DEF OwnersOK, HeldOK, Tended
<1>6. \A v \in Worker, i \in JobId : Holds(v, i)' => Holds(v, i) \/ (v = w /\ i = j)
  BY <1>1, <1>2, HoldsMeans DEF Holds, Only
<1>7. HeldOK'
  <2>1. \A v \in Worker, i \in JobId : Holds(v, i)' => Tended(v, i)'
    BY <1>4, <1>5, <1>6 DEF OwnersOK, HeldOK, Tended
  <2>2. \A v \in Worker, i \in JobId : TickHolds(v, i)' => future'[v][i] = "none"
    <3>1. \A v \in Worker \ {w}, i \in JobId : TickHolds(v, i)' => TickHolds(v, i)
      BY <1>2 DEF Only, TickHolds
    <3>2. \A i \in JobId : TickHolds(w, i)' => i = j
      BY <1>2 DEF TickHolds
    <3>3. future[w][j] = "none"
      BY <1>1, <1>5, HoldsMeans
    <3>4. QED
      BY <1>1, <3>1, <3>2, <3>3 DEF OwnersOK, HeldOK
  <2>3. \A v \in Worker : ~alive'[v] => /\ tick'[v].step = "idle"
                                        /\ \A i \in JobId : future'[v][i] = "none"
    BY <1>1, <1>2 DEF Only, OwnersOK, HeldOK
  <2>4. QED
    BY <2>1, <2>2, <2>3 DEF HeldOK
<1>8. ASSUME NEW i \in JobId, GivenUp(i)
      PROVE  GivenUp(i)'
  <2>1. i # j /\ rows'[i] = rows[i]
    BY <1>3, <1>4, <1>8 DEF GivenUp
  <2>2. QED
    BY <1>6, <1>8, <2>1 DEF GivenUp
<1>9. ExpireOK'
  <2>1. ASSUME NEW v \in Worker, Expiring(v)' \/ tick'[v].step = "expire"
        PROVE  tick'[v] = tick[v] /\ v # w
    BY <1>2, <2>1 DEF Expiring, Handling, Only
  <2>2. \A v \in Worker : /\ \A i \in tick[v].todo : i \in JobId
                          /\ Expiring(v) => tick[v].job \in JobId
    BY DEF Inv, TypeOK, Tick, HandsOK, InHand, Expiring
  <2>3. QED
    BY <1>8, <2>1, <2>2 DEF OwnersOK, ExpireOK, Expiring, GivenUp
<1>10. QED
  BY <1>3, <1>4, <1>7, <1>9 DEF OwnersOK, Settled

(* A job that ends is held by the loop that ends it, or given up.          *)
LEMMA SettleOwners ==
  ASSUME Inv, OwnersOK, NEW w \in Worker, Settle(w)
  PROVE  /\ OwnersOK'
         /\ \A i \in JobId :
              /\ Settled(i) => rows'[i].status = rows[i].status
<1>0. PICK c \in JobId, o \in {"done", "error"} :
        c = tick[w].job /\ o = tick[w].outcome
  BY DEF Settle, Inv, TypeOK, Tick, HandsOK, InHand, Handling
<1>1. /\ rows \in Table
      /\ tick[w].step = "settle" /\ tick[w].step \in Handling
      /\ rows' = Ended(c, o) /\ future' = future /\ alive' = alive
      /\ tick[w].back \in {"reap", "claim", "expire"}
      /\ tick[w].todo \in SUBSET JobId
  BY <1>0 DEF Settle, Inv, TypeOK, Table, Tick, Handling
<1>2. Free(w, {tick[w].back}, tick[w].todo) /\ Only(w)
  BY SettleEffect
<1>3. \/ TickHolds(w, c) /\ Tended(w, c)
      \/ Expiring(w) /\ GivenUp(c) /\ o = "error"
  <2>1. CASE tick[w].back = "expire"
    BY <1>0, <1>1, <2>1 DEF Expiring, OwnersOK, ExpireOK
  <2>2. CASE tick[w].back \in {"reap", "claim"}
    BY <1>0, <1>1, <2>2, HoldsMeans DEF TickHolds, OwnersOK, HeldOK
  <2>3. QED
    BY <1>1, <2>1, <2>2
<1>4. AliveKept(w)
  BY <1>1, Awake DEF OwnersOK
<1>5. /\ \A i \in JobId \ {c} : rows'[i] = rows[i]
      /\ SameClaim(rows[c], rows'[c])
      /\ rows'[c].status = IF Exists(c) THEN o ELSE rows[c].status
  BY <1>1, EndedRows
<1>6. /\ tick'[w].step = tick[w].back
      /\ tick'[w].step \notin HoldingSteps
      /\ tick'[w].todo = tick[w].todo
  BY <1>1, <1>2 DEF Free, HoldingSteps, Handling
<1>7. \A v \in Worker, i \in JobId : Holds(v, i)' => Holds(v, i)
  BY <1>1, <1>2, <1>6 DEF Holds, Only, HoldingSteps, Handling
<1>8. \A v \in Worker : ~Holds(v, c)'
  <2>1. CASE GivenUp(c)
    BY <1>1, <1>7, <2>1 DEF GivenUp
  <2>2. CASE TickHolds(w, c) /\ Tended(w, c)
    <3>1. \A v \in Worker \ {w} : ~Holds(v, c)
      BY <1>1, <2>2 DEF OwnersOK, HeldOK, Tended
    <3>2. ~Holds(w, c)'
      <4>1. future'[w][c] = "none"
        BY <1>1, <2>2 DEF OwnersOK, HeldOK
      <4>2. QED
        BY <1>6, <4>1 DEF Holds, HoldingSteps, Handling
    <3>3. QED
      BY <1>1, <1>7, <3>1, <3>2
  <2>3. QED
    BY <1>3, <2>1, <2>2
<1>9. HeldOK'
  <2>1. \A v \in Worker, i \in JobId : Holds(v, i)' => Tended(v, i)'
    BY <1>5, <1>7, <1>8 DEF OwnersOK, HeldOK, Tended
  <2>2. \A v \in Worker, i \in JobId : TickHolds(v, i)' => TickHolds(v, i)
    BY <1>2, <1>6 DEF TickHolds, Only, HoldingSteps
  <2>3. \A v \in Worker : ~alive'[v] => /\ tick'[v].step = "idle"
                                        /\ \A i \in JobId : future'[v][i] = "none"
    BY <1>1, <1>2, <1>4 DEF AliveKept, Only, OwnersOK, HeldOK
  <2>4. QED
    BY <1>1, <2>1, <2>2, <2>3 DEF HeldOK, OwnersOK
<1>10. ASSUME NEW i \in JobId, GivenUp(i)
       PROVE  GivenUp(i)'
  <2>1. CASE i # c
    BY <1>5, <1>7, <1>10, <2>1 DEF GivenUp
  <2>2. CASE i = c
    <3>1. o = "error"
      BY <1>1, <1>3, <1>10, <2>2, HoldsMeans DEF GivenUp
    <3>2. QED
      BY <1>5, <1>8, <1>10, <2>2, <3>1 DEF GivenUp, SameClaim
  <2>3. QED
    BY <2>1, <2>2
<1>11. ExpireOK'
  <2>1. ASSUME NEW v \in Worker, Expiring(v)' \/ tick'[v].step = "expire"
        PROVE  \A i \in tick'[v].todo : i \in JobId /\ GivenUp(i)
    <3>1. CASE v = w
      <4>1. tick[w].back = "expire"
        BY <1>6, <2>1, <3>1 DEF Expiring, HoldingSteps
      <4>2. Expiring(w)
        BY <1>1, <4>1 DEF Expiring
      <4>3. QED
        BY <1>1, <1>6, <3>1, <4>2 DEF OwnersOK, ExpireOK
    <3>2. CASE v # w
      <4>1. tick'[v] = tick[v]
        BY <1>2, <3>2 DEF Only
      <4>2. \A i \in tick[v].todo : i \in JobId
        BY DEF Inv, TypeOK, Tick
      <4>3. QED
        BY <2>1, <4>1, <4>2 DEF OwnersOK, ExpireOK, Expiring
    <3>3. QED
      BY <3>1, <3>2
  <2>2. ASSUME NEW v \in Worker, Expiring(v)'
        PROVE  /\ tick'[v].job \in JobId /\ GivenUp(tick'[v].job)
               /\ tick'[v].outcome = "error"
    <3>1. v # w
      BY <1>6, <2>2 DEF Expiring, HoldingSteps
    <3>2. tick'[v] = tick[v]
      BY <1>2, <3>1 DEF Only
    <3>3. Expiring(v) /\ tick[v].job \in JobId
      BY <2>2, <3>2 DEF Expiring, Inv, HandsOK, InHand
    <3>4. QED
      BY <3>2, <3>3 DEF OwnersOK, ExpireOK
  <2>3. QED
    BY <1>10, <2>1, <2>2 DEF ExpireOK, GivenUp
<1>12. \A i \in JobId : Settled(i) => rows'[i].status = rows[i].status
  <2>1. Settled(c) => rows'[c].status = rows[c].status
    BY <1>1, <1>3, <1>5 DEF Settled, Tended, GivenUp, Exists
  <2>2. QED
    BY <1>5, <2>1
<1>13. QED
  BY <1>9, <1>11, <1>12 DEF OwnersOK

(* A new row is in nobody's hands.                                         *)
LEMMA WebOwners ==
  ASSUME Inv, BatchesOK, OwnersOK,
         Submit \/ (\E n \in 0..MaxJobs : SubmitParent(n)) \/ SubmitChild
  PROVE  OwnersOK' /\ \A i \in JobId : Settled(i) => rows'[i] = rows[i]
<1>1. /\ tick' = tick /\ future' = future /\ alive' = alive
      /\ \E j \in JobId : /\ rows[j].status = "unborn"
                          /\ \A i \in JobId \ {j} : rows'[i] = rows[i]
  BY WebEffect DEF InsertedAs
<1>2. PICK j \in JobId : /\ rows[j].status = "unborn"
                         /\ \A i \in JobId \ {j} : rows'[i] = rows[i]
  BY <1>1
<1>3. \A v \in Worker, i \in JobId : /\ Holds(v, i)' <=> Holds(v, i)
                                     /\ TickHolds(v, i)' <=> TickHolds(v, i)
  BY <1>1 DEF Holds, TickHolds
<1>4. \A v \in Worker : ~Holds(v, j)
  BY <1>2 DEF OwnersOK, HeldOK, Tended
<1>5. HeldOK'
  BY <1>1, <1>2, <1>3, <1>4 DEF OwnersOK, HeldOK, Tended
<1>6. \A i \in JobId : GivenUp(i) => GivenUp(i)'
  BY <1>2, <1>3 DEF GivenUp
<1>7. \A v \in Worker : /\ \A i \in tick[v].todo : i \in JobId
                        /\ Expiring(v) => tick[v].job \in JobId
  BY DEF Inv, TypeOK, Tick, HandsOK, InHand, Expiring
<1>8. ExpireOK'
  BY <1>1, <1>6, <1>7 DEF OwnersOK, ExpireOK, Expiring, GivenUp
<1>9. QED
  BY <1>2, <1>5, <1>8 DEF OwnersOK, Settled

(* Without a pause the heartbeat of a row that is held never lapses.       *)
LEMMA LapseOwners ==
  ASSUME Inv, OwnersOK, NEW j \in JobId, Lapse(j), "pause" \notin Faults
  PROVE  OwnersOK' /\ \A i \in JobId : rows'[i].status = rows[i].status
<1>1. /\ rows \in Table /\ rows' = [rows EXCEPT ![j].heartbeat = "stale"]
      /\ tick' = tick /\ future' = future /\ alive' = alive
      /\ Silent(rows[j].claimed_by, j)
  BY DEF Lapse, Inv, TypeOK, Table, Fault
<1>2. /\ \A i \in JobId \ {j} : rows'[i] = rows[i]
      /\ rows'[j].status = rows[j].status
      /\ rows'[j].attempts = rows[j].attempts
  BY <1>1, LapsedRows
<1>3. ASSUME NEW v \in Worker, Holds(v, j)
      PROVE  FALSE
  <2>1. rows[j].claimed_by = v
    BY <1>3 DEF OwnersOK, HeldOK, Tended
  <2>2. ~alive[v]
    BY <1>1, <1>3, <2>1 DEF Silent
  <2>3. QED
    BY <1>3, <2>2 DEF OwnersOK, HeldOK, Holds
<1>4. \A v \in Worker, i \in JobId : /\ Holds(v, i)' <=> Holds(v, i)
                                     /\ TickHolds(v, i)' <=> TickHolds(v, i)
  BY <1>1 DEF Holds, TickHolds
<1>5. HeldOK'
  BY <1>1, <1>2, <1>3, <1>4 DEF OwnersOK, HeldOK, Tended
<1>6. \A i \in JobId : GivenUp(i) => GivenUp(i)'
  BY <1>2, <1>4 DEF GivenUp
<1>7. \A v \in Worker : /\ \A i \in tick[v].todo : i \in JobId
                        /\ Expiring(v) => tick[v].job \in JobId
  BY DEF Inv, TypeOK, Tick, HandsOK, InHand, Expiring
<1>8. ExpireOK'
  BY <1>1, <1>6, <1>7 DEF OwnersOK, ExpireOK, Expiring, GivenUp
<1>9. QED
  BY <1>2, <1>5, <1>8 DEF OwnersOK

(* No step of the program undoes how a job ended.                          *)
Final == \A i \in JobId : Settled(i) => rows'[i].status \in {rows[i].status, "pruned"}

LEMMA OwnersInit == Init => OwnersOK
<1> SUFFICES ASSUME Init PROVE OwnersOK
  OBVIOUS
<1>1. \A w \in Worker, j \in JobId : ~Holds(w, j) /\ ~TickHolds(w, j)
  BY DEF Init, Holds, TickHolds, BetweenTicks, Handling
<1>2. HeldOK
  BY <1>1 DEF Init, HeldOK
<1>3. ExpireOK
  BY DEF Init, ExpireOK, Expiring, BetweenTicks, Handling
<1>4. QED
  BY <1>2, <1>3 DEF OwnersOK

LEMMA OwnersNext ==
  ASSUME "pause" \notin Faults, Inv, ProgressOK, OwnersOK, [Next]_vars
  PROVE  OwnersOK' /\ Final
<1>0. BatchesOK /\ SinglesOK /\ HeldOK
  BY DEF ProgressOK, OwnersOK
<1>1. CASE Submit \/ (\E n \in 0..MaxJobs : SubmitParent(n)) \/ SubmitChild
  BY <1>0, <1>1, WebOwners DEF Final
<1>2. ASSUME rows' = rows, alive' = alive, future' = future, tick' = tick
      PROVE  OwnersOK' /\ Final
  BY <1>2 DEF OwnersOK, HeldOK, ExpireOK, GivenUp, Tended, TickHolds, Holds,
              Inflight, Expiring, Final
<1>3. CASE WebCrash
  BY <1>2, <1>3 DEF WebCrash
<1>4. ASSUME NEW w \in Worker, SteadyStep(w)
      PROVE  OwnersOK' /\ Final
  BY <1>4, OwnersKept DEF SteadyStep, Steady, SteadyRow, Final
<1>5. ASSUME NEW w \in Worker, Take(w)
      PROVE  OwnersOK' /\ Final
  <2>1. CASE /\ rows[tick[w].job].status = "queued"
             /\ rows' = Claimed(tick[w].job, w)
             /\ Goes(w, {"submit"})
    BY <1>5, <2>1, TakeOwners DEF Final
  <2>2. CASE Free(w, {"claim"}, tick[w].todo) /\ rows' = rows
    BY <1>0, <1>4, <1>5, <2>2, SteadyClaim, StepAwake
       DEF SteadyStep, Step, Claiming
  <2>3. QED
    BY <1>5, <2>1, <2>2, TakeEffect
<1>6. ASSUME NEW w \in Worker, Step(w)
      PROVE  OwnersOK' /\ Final
  <2>1. AliveKept(w)
    BY <1>0, <1>6, StepAwake
  <2>2. CASE StartTick(w) \/ Reap(w) \/ EndReap(w)
    BY <1>4, <2>1, <2>2, SteadyReap DEF SteadyStep
  <2>3. CASE ReadErrors(w) \/ AppendError(w) \/ BumpParent(w) \/ CloseParent(w)
    BY <1>0, <1>4, <2>1, <2>3, SteadySettling DEF SteadyStep
  <2>4. CASE Settle(w)
    BY <2>4, SettleOwners DEF Final
  <2>5. CASE Select(w) \/ EndClaim(w) \/ Start(w) \/ PlanRaises(w)
             \/ StartRefused(w)
    BY <1>4, <2>1, <2>5, SteadyClaim DEF SteadyStep
  <2>6. CASE Beat(w) \/ EndTick(w) \/ Maintaining(w)
    BY <1>4, <2>1, <2>6, SteadyMaint DEF SteadyStep
  <2>7. QED
    BY <1>5, <1>6, <2>2, <2>3, <2>4, <2>5, <2>6 DEF Step, Settling, Claiming
<1>7. ASSUME NEW w \in Worker,
             \/ \E j \in JobId : Finish(w, j)
             \/ PoolBreaks(w) \/ Crash(w) \/ Restart(w) \/ TickRaises(w)
      PROVE  OwnersOK' /\ Final
  BY <1>4, <1>7, SteadyEnv
<1>8. ASSUME NEW j \in JobId, Lapse(j)
      PROVE  OwnersOK' /\ Final
  BY <1>8, LapseOwners DEF Final
<1>9. CASE UNCHANGED vars
  BY <1>2, <1>9 DEF vars
<1>10. QED
  BY <1>1, <1>3, <1>6, <1>7, <1>8, <1>9 DEF Next

(* As long as no live loop stays silent for STALE_AFTER_SECONDS, a job is
   never in the hands of two workers and whoever has it owns its running
   row: the claim and the heartbeat exclude, through crashes, restarts
   under the same identity, lost ticks and broken pools.                   *)
THEOREM JobsAreExclusive ==
  ASSUME "pause" \notin Faults
  PROVE  Spec => []ExclusiveExecution
<1>1. Init => OwnersOK
  BY OwnersInit
<1>2. (Inv /\ ProgressOK) /\ OwnersOK /\ [Next]_vars => OwnersOK'
  BY OwnersNext
<1>3. OwnersOK => ExclusiveExecution
  BY DEF OwnersOK, HeldOK, ExclusiveExecution, Tended
<1>4. QED
  BY <1>1, <1>2, <1>3, ProgressAlways, PTL DEF Spec

(* Under the same condition no job that ended done is turned into a failed
   one or back, and none is revived: the unguarded UPDATEs of complete and
   fail only meet the row of their own running job, or one that is out of
   attempts.                                                               *)
THEOREM EndsAreFinal ==
  ASSUME "pause" \notin Faults
  PROVE  Spec => SettledIsFinal
<1>1. Init => OwnersOK
  BY OwnersInit
<1>2. (Inv /\ ProgressOK) /\ OwnersOK /\ [Next]_vars => OwnersOK'
  BY OwnersNext
<1>3. (Inv /\ ProgressOK) /\ OwnersOK /\ [Next]_vars
        => [\A j \in JobId :
              /\ rows[j].status \in {"done", "error"}
                   => rows'[j].status \in {rows[j].status, "pruned"}
              /\ rows[j].status = "pruned" => rows'[j].status = "pruned"]_rows
  BY OwnersNext DEF Final, Settled
<1>4. QED
  BY <1>1, <1>2, <1>3, ProgressAlways, PTL DEF Spec, SettledIsFinal

=============================================================================
