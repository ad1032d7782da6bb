--------------------------- MODULE EditLock_proofs ---------------------------
(***************************************************************************)
(* The edit lock implements Lease, for any users and any number of pages.  *)
(* The proof needs the types only: the guards of the transactions carry    *)
(* the rest.                                                               *)
(***************************************************************************)
EXTENDS EditLock, TLAPS

(* A flow is idle, at a stage, or carries a holder that was read.          *)
LEMMA FlowType ==
  /\ NoFlow \in Flow
  /\ \A s \in Stages : To(s) \in Flow
  /\ \A s \in Stages, u \in User \cup {None} : Saw(s, u) \in Flow
BY DEF NoFlow, To, Saw, Flow, Stages

(* A flow of a page may be replaced by any flow.                           *)
LEMMA FlowOfPage ==
  ASSUME NEW r \in PageState, NEW f \in Flow
  PROVE  /\ [r EXCEPT !.click = f] \in PageState
         /\ [r EXCEPT !.pulse = f] \in PageState
         /\ [r EXCEPT !.click = f].click = f
         /\ [r EXCEPT !.pulse = f].click = r.click
BY DEF PageState

LEMMA RenderedType ==
  ASSUME NEW p, NEW u
  PROVE  Rendered(p, u) \in {"nothing", "button", "mine", "other"}
BY DEF Rendered

(* Pages that were told "acquired" and have not read it yet.               *)
Told == {p \in Page : page[p].click.at = "granted"}

(* One page turns from one state into another, and the row is of its type. *)
LEMMA Turned ==
  ASSUME TypeOK, NEW p \in Page, NEW r \in PageState, Turn(p, r),
         holder' \in User \cup {None}, expired' \in BOOLEAN,
         byes' \in SUBSET Page
  PROVE  TypeOK'
BY DEF TypeOK, Turn

(* ... and then only that page may join or leave Told.                     *)
LEMMA TurnedTold ==
  ASSUME TypeOK, NEW p \in Page, NEW r \in PageState, Turn(p, r)
  PROVE  /\ r.click.at = "granted" => Told' = Told \cup {p}
         /\ r.click.at # "granted" => Told' = Told \ {p}
<1>1. page'[p] = r /\ \A q \in Page \ {p} : page'[q] = page[q]
  BY DEF TypeOK, Turn
<1> QED
  BY <1>1 DEF Told

(***************************************************************************)
(* Each step of a page, seen from the lock: what it does to the row, to    *)
(* the releases under way and to Told.                                     *)
(***************************************************************************)
Takes(p) == /\ holder \in {None, Owner[p]} \/ expired
            /\ holder' = Owner[p] /\ expired' = FALSE
            /\ Told' = Told \cup {p}
Frees    == /\ holder # None
            /\ holder' = None /\ expired' = FALSE
            /\ Told' = Told
Renews   == /\ holder # None
            /\ holder' = holder /\ expired' = FALSE
            /\ Told' = Told
Keeps(p) == /\ UNCHANGED <<holder, expired>>
            /\ Told' = Told \/ Told' = Told \ {p}

(* The steps of the click flow take the lock, free it or leave it alone.   *)
LEMMA ClickFlowStep ==
  ASSUME TypeOK, ConstantsAssumption, NEW p \in Page, ClickFlow(p)
  PROVE  TypeOK' /\ (Takes(p) \/ Frees \/ Keeps(p))
<1>0. /\ Owner[p] \in User /\ None \notin User
      /\ holder \in User \cup {None} /\ expired \in BOOLEAN
      /\ byes \in SUBSET Page /\ page[p] \in PageState
  BY DEF ConstantsAssumption, TypeOK
<1>1. LiveHolder \in User \cup {None}
  BY <1>0 DEF LiveHolder
<1> DEFINE With(f) == [page[p] EXCEPT !.click = f]
<1>2. ASSUME NEW f \in Flow, Click(p, f),
             holder' \in User \cup {None}, expired' \in BOOLEAN, byes' = byes
      PROVE  /\ TypeOK'
             /\ f.at = "granted" => Told' = Told \cup {p}
             /\ f.at # "granted" => Told' = Told \ {p}
  <2>1. With(f) \in PageState /\ With(f).click = f
    BY <1>0, FlowOfPage
  <2>2. Turn(p, With(f))
    BY <1>2 DEF Click
  <2>3. byes' \in SUBSET Page
    BY <1>0, <1>2
  <2> HIDE DEF With
  <2> QED
    BY <1>2, <2>1, <2>2, <2>3, Turned, TurnedTold
<1>3. p \notin Told => Told \ {p} = Told
  OBVIOUS
<1>4. page[p].click.at # "granted" => p \notin Told
  BY DEF Told
<1>5. CASE AcquireUpdate(p)
  <2>1. To("granted") \in Flow /\ To("granted").at = "granted"
    BY FlowType DEF Stages, To
  <2>2. To("insert") \in Flow /\ To("insert").at # "granted"
    BY FlowType DEF Stages, To
  <2>3. byes' = byes /\ page[p].click.at # "granted"
    BY <1>5 DEF AcquireUpdate
  <2>4. CASE /\ holder = Owner[p] \/ (holder # None /\ expired)
             /\ Hold(Owner[p]) /\ Click(p, To("granted"))
    BY <1>0, <1>2, <2>1, <2>3, <2>4 DEF Hold, Takes
  <2>5. CASE Click(p, To("insert")) /\ UNCHANGED <<holder, expired>>
    BY <1>0, <1>2, <2>2, <2>3, <2>5 DEF Keeps
  <2> QED
    BY <1>5, <2>4, <2>5 DEF AcquireUpdate
<1>6. CASE AcquireInsert(p)
  <2>1. To("granted") \in Flow /\ To("granted").at = "granted"
    BY FlowType DEF Stages, To
  <2>2. To("select") \in Flow /\ To("select").at # "granted"
    BY FlowType DEF Stages, To
  <2>3. byes' = byes
    BY <1>6 DEF AcquireInsert
  <2>4. CASE holder = None /\ Hold(Owner[p]) /\ Click(p, To("granted"))
    BY <1>0, <1>2, <2>1, <2>3, <2>4 DEF Hold, Takes
  <2>5. CASE Click(p, To("select")) /\ UNCHANGED <<holder, expired>>
    BY <1>0, <1>2, <2>2, <2>3, <2>5 DEF Keeps
  <2> QED
    BY <1>6, <2>4, <2>5 DEF AcquireInsert
<1>7. CASE AcquireSelect(p)
  <2> DEFINE f == IF holder = None THEN To("broke") ELSE Saw("occupied", holder)
  <2>1. f \in Flow /\ f.at # "granted"
    BY <1>0, FlowType DEF Stages, To, Saw
  <2>2. Click(p, f) /\ UNCHANGED <<holder, expired, byes>>
    BY <1>7 DEF AcquireSelect
  <2> HIDE DEF f
  <2> QED
    BY <1>0, <1>2, <2>1, <2>2 DEF Keeps
<1>8. CASE Release(p)
  <2>1. To("refresh") \in Flow /\ To("refresh").at # "granted"
    BY FlowType DEF Stages, To
  <2>2. byes' = byes /\ Click(p, To("refresh")) /\ p \notin Told
    BY <1>4, <1>8 DEF Release
  <2>3. CASE holder = Owner[p] /\ Drop
    BY <1>0, <1>2, <1>3, <2>1, <2>2, <2>3 DEF Drop, Frees
  <2>4. CASE UNCHANGED <<holder, expired>>
    BY <1>0, <1>2, <2>1, <2>2, <2>4 DEF Keeps
  <2> QED
    BY <1>8, <2>3, <2>4 DEF Release
<1>9. CASE ReadStatus(p)
  <2>1. Saw("status", LiveHolder) \in Flow /\ Saw("status", LiveHolder).at # "granted"
    BY <1>1, FlowType DEF Stages, Saw
  <2>2. Click(p, Saw("status", LiveHolder)) /\ UNCHANGED <<holder, expired, byes>>
    BY <1>9 DEF ReadStatus
  <2> QED
    BY <1>0, <1>2, <2>1, <2>2 DEF Keeps
<1>10. CASE HearError(p)
  <2>1. NoFlow \in Flow /\ NoFlow.at # "granted"
    BY FlowType DEF NoFlow
  <2>2. Click(p, NoFlow) /\ UNCHANGED <<holder, expired, byes>>
    BY <1>10 DEF HearError
  <2> QED
    BY <1>0, <1>2, <2>1, <2>2 DEF Keeps
<1>11. CASE HearGrant(p)
  <2> DEFINE r == [page[p] EXCEPT !.timer = TRUE, !.shown = "mine",
                                  !.click = NoFlow]
  <2>1. r \in PageState /\ r.click.at # "granted"
    BY <1>0, FlowType DEF PageState, NoFlow
  <2>2. Turn(p, r) /\ UNCHANGED <<holder, expired, byes>>
    BY <1>11 DEF HearGrant
  <2> HIDE DEF r
  <2> QED
    BY <1>0, <2>1, <2>2, Turned, TurnedTold DEF Keeps
<1>12. CASE HearHolder(p)
  <2> DEFINE s == Rendered(p, page[p].click.saw)
  <2>1. s \in {"nothing", "button", "mine", "other"}
    BY RenderedType
  <2> DEFINE r == [page[p] EXCEPT !.shown = s, !.click = NoFlow]
  <2>2. Turn(p, r) /\ UNCHANGED <<holder, expired, byes>>
    BY <1>12 DEF HearHolder
  <2> HIDE DEF s
  <2>3. r \in PageState /\ r.click.at # "granted"
    BY <1>0, <2>1, FlowType DEF PageState, NoFlow
  <2> HIDE DEF r
  <2> QED
    BY <1>0, <2>2, <2>3, Turned, TurnedTold DEF Keeps
<1> QED
  BY <1>5, <1>6, <1>7, <1>8, <1>9, <1>10, <1>11, <1>12 DEF ClickFlow

(* The heartbeat renews the lock of the page's user or leaves it alone.    *)
LEMMA PulseFlowStep ==
  ASSUME TypeOK, ConstantsAssumption, NEW p \in Page, PulseFlow(p)
  PROVE  TypeOK' /\ (Renews \/ Keeps(p))
<1>0. /\ Owner[p] \in User /\ None \notin User
      /\ holder \in User \cup {None} /\ expired \in BOOLEAN
      /\ byes \in SUBSET Page /\ page[p] \in PageState
  BY DEF ConstantsAssumption, TypeOK
<1>1. LiveHolder \in User \cup {None}
  BY <1>0 DEF LiveHolder
<1>2. ASSUME NEW r \in PageState, Turn(p, r), r.click = page[p].click
      PROVE  Told' = Told
  <2>1. CASE p \in Told
    BY <1>2, <2>1, TurnedTold DEF Told
  <2>2. CASE p \notin Told
    BY <1>2, <2>2, TurnedTold DEF Told
  <2> QED
    BY <2>1, <2>2
<1> DEFINE With(f) == [page[p] EXCEPT !.pulse = f]
<1>3. ASSUME NEW f \in Flow, Pulse(p, f),
             holder' \in User \cup {None}, expired' \in BOOLEAN, byes' = byes
      PROVE  TypeOK' /\ Told' = Told
  <2>1. With(f) \in PageState /\ With(f).click = page[p].click
    BY <1>0, FlowOfPage
  <2>2. Turn(p, With(f))
    BY <1>3 DEF Pulse
  <2>3. byes' \in SUBSET Page
    BY <1>0, <1>3
  <2> HIDE DEF With
  <2> QED
    BY <1>2, <1>3, <2>1, <2>2, <2>3, Turned
<1>4. CASE SendHeartbeat(p)
  <2>1. To("beat") \in Flow
    BY FlowType DEF Stages
  <2> QED
    BY <1>0, <1>3, <1>4, <2>1 DEF SendHeartbeat, Keeps
<1>5. CASE Heartbeat(p)
  <2>1. To("kept") \in Flow /\ To("lost") \in Flow
    BY FlowType DEF Stages
  <2>2. byes' = byes
    BY <1>5 DEF Heartbeat
  <2>3. CASE holder = Owner[p] /\ Hold(holder) /\ Pulse(p, To("kept"))
    BY <1>0, <1>3, <2>1, <2>2, <2>3 DEF Hold, Renews
  <2>4. CASE Pulse(p, To("lost")) /\ UNCHANGED <<holder, expired>>
    BY <1>0, <1>3, <2>1, <2>2, <2>4 DEF Keeps
  <2> QED
    BY <1>5, <2>3, <2>4 DEF Heartbeat
<1>6. CASE ReadStatusAfterLoss(p)
  <2>1. Saw("status", LiveHolder) \in Flow
    BY <1>1, FlowType DEF Stages
  <2> QED
    BY <1>0, <1>3, <1>6, <2>1 DEF ReadStatusAfterLoss, Keeps
<1>7. CASE HearKept(p)
  BY <1>0, <1>3, <1>7, FlowType DEF HearKept, Keeps
<1>8. CASE HearLost(p)
  <2> DEFINE r == [page[p] EXCEPT !.timer = FALSE, !.pulse = To("refresh")]
  <2>1. To("refresh") \in Flow
    BY FlowType DEF Stages
  <2>2. r \in PageState /\ r.click = page[p].click
    BY <1>0, <2>1 DEF PageState
  <2>3. Turn(p, r) /\ UNCHANGED <<holder, expired, byes>>
    BY <1>8 DEF HearLost
  <2> HIDE DEF r
  <2> QED
    BY <1>0, <1>2, <2>2, <2>3, Turned DEF Keeps
<1>9. CASE HearStatusAfterLoss(p)
  <2> DEFINE s == Rendered(p, page[p].pulse.saw)
  <2>1. s \in {"nothing", "button", "mine", "other"}
    BY RenderedType
  <2> DEFINE r == [page[p] EXCEPT !.shown = s, !.pulse = NoFlow]
  <2>2. Turn(p, r) /\ UNCHANGED <<holder, expired, byes>>
    BY <1>9 DEF HearStatusAfterLoss
  <2> HIDE DEF s
  <2>3. r \in PageState /\ r.click = page[p].click
    BY <1>0, <2>1, FlowType DEF PageState
  <2> HIDE DEF r
  <2> QED
    BY <1>0, <1>2, <2>2, <2>3, Turned DEF Keeps
<1> QED
  BY <1>4, <1>5, <1>6, <1>7, <1>8, <1>9 DEF PulseFlow

(* What people do at a page leaves the lock alone.                         *)
LEMMA PersonStep ==
  ASSUME TypeOK, NEW p \in Page, Person(p)
  PROVE  TypeOK' /\ Keeps(p)
<1>0. /\ holder \in User \cup {None} /\ expired \in BOOLEAN
      /\ byes \in SUBSET Page /\ page[p] \in PageState
  BY DEF TypeOK
<1>1. /\ To("refresh") \in Flow /\ To("update") \in Flow /\ To("release") \in Flow
      /\ To("refresh").at # "granted" /\ To("update").at # "granted"
      /\ To("release").at # "granted"
  BY FlowType DEF Stages, To
<1>2. ASSUME NEW r \in PageState, Turn(p, r), UNCHANGED <<holder, expired>>,
             byes' \in SUBSET Page,
             r.click.at # "granted" \/ r.click = page[p].click
      PROVE  TypeOK' /\ Keeps(p)
  <2>1. TypeOK'
    BY <1>0, <1>2, Turned
  <2>2. r.click.at = "granted" => Told' = Told
    BY <1>2, TurnedTold DEF Told
  <2>3. r.click.at # "granted" => Told' = Told \ {p}
    BY <1>2, TurnedTold
  <2> QED
    BY <1>2, <2>1, <2>2, <2>3 DEF Keeps
<1>3. CASE Open(p)
  <2> DEFINE r == [page[p] EXCEPT !.open = "open", !.click = To("refresh")]
  <2>1. r \in PageState /\ r.click.at # "granted"
    BY <1>0, <1>1 DEF PageState
  <2>2. Turn(p, r) /\ UNCHANGED <<holder, expired, byes>>
    BY <1>3 DEF Open
  <2> HIDE DEF r
  <2> QED
    BY <1>0, <1>2, <2>1, <2>2
<1>4. CASE ClickAcquire(p)
  <2> DEFINE r == [page[p] EXCEPT !.click = To("update")]
  <2>1. r \in PageState /\ r.click.at # "granted"
    BY <1>0, <1>1 DEF PageState
  <2>2. Turn(p, r) /\ UNCHANGED <<holder, expired, byes>>
    BY <1>4 DEF ClickAcquire, Click
  <2> HIDE DEF r
  <2> QED
    BY <1>0, <1>2, <2>1, <2>2
<1>5. CASE ClickRelease(p)
  <2> DEFINE r == [page[p] EXCEPT !.timer = FALSE, !.click = To("release")]
  <2>1. r \in PageState /\ r.click.at # "granted"
    BY <1>0, <1>1 DEF PageState
  <2>2. Turn(p, r) /\ UNCHANGED <<holder, expired, byes>>
    BY <1>5 DEF ClickRelease
  <2> HIDE DEF r
  <2> QED
    BY <1>0, <1>2, <2>1, <2>2
<1>6. CASE Close(p)
  <2> DEFINE r == [page[p] EXCEPT !.open = "closed", !.timer = FALSE]
  <2>1. r \in PageState /\ r.click = page[p].click
    BY <1>0 DEF PageState
  <2>2. Turn(p, r) /\ UNCHANGED <<holder, expired>> /\ byes' \in SUBSET Page
    BY <1>0, <1>6 DEF Close
  <2> HIDE DEF r
  <2> QED
    BY <1>2, <2>1, <2>2
<1>7. ASSUME NEW b \in BOOLEAN, Turn(p, [page[p] EXCEPT !.awake = b]),
             UNCHANGED <<holder, expired, byes>>
      PROVE  TypeOK' /\ Keeps(p)
  <2> DEFINE r == [page[p] EXCEPT !.awake = b]
  <2>1. r \in PageState /\ r.click = page[p].click /\ Turn(p, r)
    BY <1>0, <1>7 DEF PageState
  <2> HIDE DEF r
  <2> QED
    BY <1>0, <1>2, <1>7, <2>1
<1> QED
  BY <1>3, <1>4, <1>5, <1>6, <1>7 DEF Person, Sleep, Wake

(* Releases that arrive or are lost, administrators and time.              *)
LEMMA OtherStep ==
  ASSUME TypeOK, ConstantsAssumption,
         \/ \E p \in Page : ByeArrives(p) \/ ByeIsLost(p)
         \/ ForceRelease
         \/ Lapse
  PROVE  /\ TypeOK' /\ Told' = Told
         /\ \/ Frees
            \/ UNCHANGED <<holder, expired>>
            \/ holder # None /\ holder' = holder /\ expired' = TRUE
<1>1. page' = page => Told' = Told
  BY DEF Told
<1>2. ASSUME NEW p \in Page, ByeArrives(p)
      PROVE  /\ TypeOK' /\ page' = page
             /\ \/ holder # None /\ holder' = None /\ expired' = FALSE
                \/ UNCHANGED <<holder, expired>>
  <2>1. Owner[p] # None
    BY DEF ConstantsAssumption
  <2> QED
    BY <1>2, <2>1 DEF ByeArrives, Drop, TypeOK
<1>3. ASSUME NEW p \in Page, ByeIsLost(p)
      PROVE  TypeOK' /\ page' = page /\ UNCHANGED <<holder, expired>>
  BY <1>3 DEF ByeIsLost, TypeOK
<1>4. CASE ForceRelease
  BY <1>1, <1>4 DEF ForceRelease, Drop, Frees, TypeOK
<1>5. CASE Lapse
  BY <1>1, <1>5 DEF Lapse, TypeOK
<1> QED
  BY <1>1, <1>2, <1>3, <1>4, <1>5 DEF Frees

-----------------------------------------------------------------------------

LEMMA InitType == Init => TypeOK
<1> SUFFICES ASSUME Init PROVE TypeOK
  OBVIOUS
<1> QED
  BY FlowType DEF Init, TypeOK, PageState

LEMMA NextType ==
  ASSUME TypeOK, ConstantsAssumption, [Next]_vars
  PROVE  TypeOK'
<1>1. CASE UNCHANGED vars
  BY <1>1 DEF vars, TypeOK
<1> QED
  BY <1>1, ClickFlowStep, PulseFlowStep, PersonStep, OtherStep DEF Next

(* Every variable of the lock and of the pages keeps its type: the lock is
   held by a user or by nobody, and every flow stands at a stage.          *)
THEOREM TypeCorrect == Spec => []TypeOK
<1>1. ASSUME TypeOK, [Next]_vars PROVE TypeOK'
  BY <1>1, NextType, ConstantsAssumption
<1> QED
  BY <1>1, InitType, PTL DEF Spec

(* A step of the lock is a step of the lease.                              *)
LEMMA NextRefines ==
  ASSUME TypeOK, ConstantsAssumption, [Next]_vars
  PROVE  [Promised!Next]_(Promised!vars)
<1> DEFINE told == {p \in Page : page[p].click.at = "granted"}
<1>0. told = Told /\ told' = Told'
  BY DEF Told
<1>1. ASSUME NEW p \in Page, Takes(p) PROVE Promised!Grant(p)
  BY <1>0, <1>1 DEF Takes, Promised!Grant
<1>2. ASSUME Frees PROVE Promised!End
  BY <1>0, <1>2 DEF Frees, Promised!End
<1>3. ASSUME Renews PROVE Promised!Renew
  BY <1>0, <1>3 DEF Renews, Promised!Renew
<1>4. ASSUME NEW p \in Page, Keeps(p)
      PROVE  Promised!Read(p) \/ UNCHANGED Promised!vars
  <2>1. CASE p \in Told /\ Told' = Told \ {p}
    BY <1>0, <1>4, <2>1 DEF Keeps, Promised!Read
  <2>2. CASE Told' = Told
    BY <1>0, <1>4, <2>2 DEF Keeps, Promised!vars
  <2>3. p \notin Told => Told \ {p} = Told
    OBVIOUS
  <2> QED
    BY <1>4, <2>1, <2>2, <2>3 DEF Keeps
<1>5. ASSUME Told' = Told, UNCHANGED <<holder, expired>>
      PROVE  UNCHANGED Promised!vars
  BY <1>0, <1>5 DEF Promised!vars
<1>6. ASSUME Told' = Told, holder # None, holder' = holder, expired' = TRUE
      PROVE  Promised!Lapse
  BY <1>0, <1>6 DEF Promised!Lapse
<1>7. CASE UNCHANGED vars
  BY <1>5, <1>7 DEF vars, Told
<1>8. ASSUME NEW p \in Page, ClickFlow(p) \/ PulseFlow(p) \/ Person(p)
      PROVE  [Promised!Next]_(Promised!vars)
  BY <1>1, <1>2, <1>3, <1>4, <1>8, ClickFlowStep, PulseFlowStep, PersonStep
     DEF Promised!Next
<1>9. CASE \/ \E p \in Page : ByeArrives(p) \/ ByeIsLost(p)
           \/ ForceRelease
           \/ Lapse
  BY <1>2, <1>5, <1>6, <1>9, OtherStep DEF Promised!Next
<1> QED
  BY <1>7, <1>8, <1>9 DEF Next

LEMMA InitRefines == Init => Promised!Init
<1> SUFFICES ASSUME Init PROVE Promised!Init
  OBVIOUS
<1>1. \A p \in Page : page[p].click.at # "granted"
  BY DEF Init, NoFlow
<1> QED
  BY <1>1 DEF Init, Promised!Init

(* The lock implements the lease: one user holds it at a time, it changes
   hands only when free or after its holder's silence, and "acquired" is
   answered only to the user who holds it from that moment, however the
   transactions of racing acquires, heartbeats and releases interleave.    *)
THEOREM LockIsALease == Spec => LeaseSpec
<1>1. ASSUME TypeOK, [Next]_vars PROVE [Promised!Next]_(Promised!vars)
  BY <1>1, NextRefines, ConstantsAssumption
<1> QED
  BY <1>1, InitRefines, TypeCorrect, PTL DEF Spec, LeaseSpec, Promised!Spec
=============================================================================
