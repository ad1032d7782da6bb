------------------------------ MODULE EditLock ------------------------------
(***************************************************************************)
(* The product edit lock: the row of product_edit_locks and the operations *)
(* of AuthStore on it (app/auth.py), the lock endpoints (app/main.py), the *)
(* write guard (app/guards.py) and the widget in the browser               *)
(* (app/static/edit_lock.js).                                              *)
(*                                                                         *)
(* Each page runs two flows of its own, a call the user clicked for and a  *)
(* heartbeat of the timer, and each flow is a request, the transactions    *)
(* the server makes for it and the answer the page reads.  A closed page's *)
(* release is sent without waiting; it may arrive late or not at all.      *)
(*                                                                         *)
(* Time is abstract: heartbeat_at is older than LOCK_TTL_SECONDS or not.   *)
(***************************************************************************)
CONSTANTS
  User,
  Page,    \* loads of a page with the widget, each opened once
  Owner,   \* Owner[p]: the user logged in at page p
  Laptop,  \* pages on a machine that may fall asleep
  None     \* no row, nobody

ASSUME ConstantsAssumption ==
  /\ Owner \in [Page -> User]
  /\ Laptop \subseteq Page
  /\ None \notin User

VARIABLES
  holder,   \* held_by, None if there is no row
  expired,  \* heartbeat_at is older than LOCK_TTL_SECONDS
  page,     \* page[p]: the state of the widget and its two flows
  byes      \* pages whose release on beforeunload is under way

vars == <<holder, expired, page, byes>>

(* Where a flow stands: what the server has still to do for it, or the
   answer that travels back, with the holder that was read.                *)
Stages == {"none", "update", "insert", "select", "granted", "occupied",
           "broke", "release", "refresh", "status", "beat", "kept", "lost"}

Flow == [at : Stages, saw : User \cup {None}]
NoFlow == [at |-> "none", saw |-> None]
To(stage) == [at |-> stage, saw |-> None]
Saw(stage, user) == [at |-> stage, saw |-> user]

PageState == [open  : {"unborn", "open", "closed"},
              awake : BOOLEAN,                    \* the machine is not asleep
              shown : {"nothing", "button", "mine", "other"},
              timer : BOOLEAN,                    \* the 30 s heartbeat runs
              click : Flow,
              pulse : Flow]

TypeOK ==
  /\ holder \in User \cup {None}
  /\ expired \in BOOLEAN
  /\ page \in [Page -> PageState]
  /\ byes \in SUBSET Page

Init ==
  /\ holder = None
  /\ expired = FALSE
  /\ page = [p \in Page |-> [open |-> "unborn", awake |-> TRUE,
                             shown |-> "nothing", timer |-> FALSE,
                             click |-> NoFlow, pulse |-> NoFlow]]
  /\ byes = {}

-----------------------------------------------------------------------------
(* The database row.                                                       *)

Hold(user) == holder' = user /\ expired' = FALSE
Drop == holder' = None /\ expired' = FALSE

(* lock_holder: the live holder.                                           *)
LiveHolder == IF expired THEN None ELSE holder

Turn(p, state) == page' = [page EXCEPT ![p] = state]
Click(p, flow) == Turn(p, [page[p] EXCEPT !.click = flow])
Pulse(p, flow) == Turn(p, [page[p] EXCEPT !.pulse = flow])

(* Mutant: any row with the product is updated.                            *)
AcquireUpdateTakes(p) ==
  /\ page[p].click.at = "update"
  /\ \/ holder # None /\ Hold(Owner[p]) /\ Click(p, To("granted"))
     \/ /\ holder = None /\ Click(p, To("insert"))
        /\ UNCHANGED <<holder, expired>>
  /\ UNCHANGED byes

(* acquire_lock, first transaction: UPDATE ... WHERE held_by = me OR the
   heartbeat is too old.                                                   *)
AcquireUpdate(p) ==
  /\ page[p].click.at = "update"
  /\ \/ /\ holder = Owner[p] \/ (holder # None /\ expired)
        /\ Hold(Owner[p])
        /\ Click(p, To("granted"))
     \/ /\ holder # Owner[p] /\ (holder = None \/ ~expired)
        /\ Click(p, To("insert"))
        /\ UNCHANGED <<holder, expired>>
  /\ UNCHANGED byes

(* Second transaction: the primary key lets one INSERT in.                 *)
AcquireInsert(p) ==
  /\ page[p].click.at = "insert"
  /\ \/ holder = None /\ Hold(Owner[p]) /\ Click(p, To("granted"))
     \/ holder # None /\ Click(p, To("select")) /\ UNCHANGED <<holder, expired>>
  /\ UNCHANGED byes

(* Mutant: the lost INSERT answers without looking up the holder.          *)
AcquireSelectBlind(p) ==
  /\ page[p].click.at = "select"
  /\ Click(p, Saw("occupied", expired))
  /\ UNCHANGED <<holder, expired, byes>>

(* Third: who holds it.  If the row is gone by now, the subscript of None
   raises and the answer is a 500.                                         *)
AcquireSelect(p) ==
  /\ page[p].click.at = "select"
  /\ Click(p, IF holder = None THEN To("broke") ELSE Saw("occupied", holder))
  /\ UNCHANGED <<holder, expired, byes>>

(* DELETE ... WHERE held_by = me, and the refresh that follows it.         *)
Release(p) ==
  /\ page[p].click.at = "release"
  /\ IF holder = Owner[p] THEN Drop ELSE UNCHANGED <<holder, expired>>
  /\ Click(p, To("refresh"))
  /\ UNCHANGED byes

ReadStatus(p) ==
  /\ page[p].click.at = "refresh"
  /\ Click(p, Saw("status", LiveHolder))
  /\ UNCHANGED <<holder, expired, byes>>

ReadStatusAfterLoss(p) ==
  /\ page[p].pulse.at = "refresh"
  /\ Pulse(p, Saw("status", LiveHolder))
  /\ UNCHANGED <<holder, expired, byes>>

(* Mutant: UPDATE heartbeat_at without AND held_by = me.                   *)
HeartbeatOfAnyone(p) ==
  /\ page[p].pulse.at = "beat"
  /\ \/ holder # None /\ Hold(holder) /\ Pulse(p, To("kept"))
     \/ holder = None /\ Pulse(p, To("lost")) /\ UNCHANGED <<holder, expired>>
  /\ UNCHANGED byes

(* UPDATE heartbeat_at WHERE held_by = me; a lock that expired but was not
   taken is alive again.                                                   *)
Heartbeat(p) ==
  /\ page[p].pulse.at = "beat"
  /\ \/ holder = Owner[p] /\ Hold(holder) /\ Pulse(p, To("kept"))
     \/ holder # Owner[p] /\ Pulse(p, To("lost")) /\ UNCHANGED <<holder, expired>>
  /\ UNCHANGED byes

(* The release of a page that was closed, and an administrator's.          *)
ByeArrives(p) ==
  /\ p \in byes
  /\ byes' = byes \ {p}
  /\ IF holder = Owner[p] THEN Drop ELSE UNCHANGED <<holder, expired>>
  /\ UNCHANGED page

ByeIsLost(p) ==
  /\ p \in byes
  /\ byes' = byes \ {p}
  /\ UNCHANGED <<holder, expired, page>>

ForceRelease ==
  /\ holder # None
  /\ Drop
  /\ UNCHANGED <<page, byes>>

-----------------------------------------------------------------------------
(* The widget.                                                             *)

Running(p) == page[p].open = "open" /\ page[p].awake

Rendered(p, user) == CASE user = Owner[p] -> "mine"
                       [] user = None -> "button"
                       [] OTHER -> "other"

(* The page loads and asks who holds the lock.                             *)
Open(p) ==
  /\ page[p].open = "unborn"
  /\ Turn(p, [page[p] EXCEPT !.open = "open", !.click = To("refresh")])
  /\ UNCHANGED <<holder, expired, byes>>

ClickAcquire(p) ==
  /\ Running(p) /\ page[p].shown = "button" /\ page[p].click = NoFlow
  /\ Click(p, To("update"))
  /\ UNCHANGED <<holder, expired, byes>>

ClickRelease(p) ==
  /\ Running(p) /\ page[p].shown = "mine" /\ page[p].click = NoFlow
  /\ Turn(p, [page[p] EXCEPT !.timer = FALSE, !.click = To("release")])
  /\ UNCHANGED <<holder, expired, byes>>

(* 200: start the heartbeat.                                               *)
HearGrant(p) ==
  /\ Running(p) /\ page[p].click.at = "granted"
  /\ Turn(p, [page[p] EXCEPT !.timer = TRUE, !.shown = "mine",
                          !.click = NoFlow])
  /\ UNCHANGED <<holder, expired, byes>>

(* 423, or the answer of a refresh: render the holder, no heartbeat.       *)
HearHolder(p) ==
  /\ Running(p) /\ page[p].click.at \in {"occupied", "status"}
  /\ Turn(p, [page[p] EXCEPT !.shown = Rendered(p, page[p].click.saw),
                          !.click = NoFlow])
  /\ UNCHANGED <<holder, expired, byes>>

HearError(p) ==
  /\ Running(p) /\ page[p].click.at = "broke"
  /\ Click(p, NoFlow)
  /\ UNCHANGED <<holder, expired, byes>>

SendHeartbeat(p) ==
  /\ Running(p) /\ page[p].timer /\ page[p].pulse = NoFlow
  /\ Pulse(p, To("beat"))
  /\ UNCHANGED <<holder, expired, byes>>

HearKept(p) ==
  /\ Running(p) /\ page[p].pulse.at = "kept"
  /\ Pulse(p, NoFlow)
  /\ UNCHANGED <<holder, expired, byes>>

(* 409: stop the timer, whichever acquire it belongs to, and refresh.      *)
HearLost(p) ==
  /\ Running(p) /\ page[p].pulse.at = "lost"
  /\ Turn(p, [page[p] EXCEPT !.timer = FALSE, !.pulse = To("refresh")])
  /\ UNCHANGED <<holder, expired, byes>>

HearStatusAfterLoss(p) ==
  /\ Running(p) /\ page[p].pulse.at = "status"
  /\ Turn(p, [page[p] EXCEPT !.shown = Rendered(p, page[p].pulse.saw),
                          !.pulse = NoFlow])
  /\ UNCHANGED <<holder, expired, byes>>

(* beforeunload: a running timer sends the release.  What the server is
   doing for the page goes on, and nobody reads the answer.                *)
Close(p) ==
  /\ Running(p)
  /\ Turn(p, [page[p] EXCEPT !.open = "closed", !.timer = FALSE])
  /\ byes' = IF page[p].timer THEN byes \cup {p} ELSE byes
  /\ UNCHANGED <<holder, expired>>

Sleep(p) ==
  /\ p \in Laptop /\ Running(p)
  /\ Turn(p, [page[p] EXCEPT !.awake = FALSE])
  /\ UNCHANGED <<holder, expired, byes>>

Wake(p) ==
  /\ ~page[p].awake
  /\ Turn(p, [page[p] EXCEPT !.awake = TRUE])
  /\ UNCHANGED <<holder, expired, byes>>

(* 300 s pass: ten heartbeats of a running timer, so none runs.            *)
Beating(user) == \E p \in Page : Owner[p] = user /\ Running(p) /\ page[p].timer
Lapse ==
  /\ holder # None /\ ~expired /\ ~Beating(holder)
  /\ expired' = TRUE
  /\ UNCHANGED <<holder, page, byes>>

-----------------------------------------------------------------------------

ClickFlow(p) == \/ AcquireUpdate(p) \/ AcquireInsert(p) \/ AcquireSelect(p)
                \/ Release(p) \/ ReadStatus(p)
                \/ HearGrant(p) \/ HearHolder(p) \/ HearError(p)
PulseFlow(p) == \/ SendHeartbeat(p) \/ Heartbeat(p) \/ ReadStatusAfterLoss(p)
                \/ HearKept(p) \/ HearLost(p) \/ HearStatusAfterLoss(p)
Person(p) == \/ Open(p) \/ ClickAcquire(p) \/ ClickRelease(p) \/ Close(p)
             \/ Sleep(p) \/ Wake(p)

Next ==
  \/ \E p \in Page : ClickFlow(p) \/ PulseFlow(p) \/ Person(p)
                     \/ ByeArrives(p) \/ ByeIsLost(p)
  \/ ForceRelease \/ Lapse

(* The server answers what reached it, and a page that is awake goes on.
   Nothing is assumed of the users, of sleeping machines or of a release
   sent by a page that was closed.                                         *)
Fairness == \A p \in Page : WF_vars(ClickFlow(p)) /\ WF_vars(PulseFlow(p))

Spec == Init /\ [][Next]_vars
FairSpec == Spec /\ Fairness

-----------------------------------------------------------------------------
(* Properties.                                                             *)

(* acquire_lock: "two replicas racing cannot both win".  The row, its age
   and the answers under way implement Lease: across the three transactions
   of acquire_lock, racing acquires, heartbeats, releases and expiry, the
   lock changes hands only when it is free or its holder was silent, and
   "acquired" is answered only to the user who has it from that moment.    *)
Promised == INSTANCE Lease WITH lapsed <- expired,
                                told <- {p \in Page : page[p].click.at = "granted"}
LeaseSpec == Promised!Spec

(* A page that heartbeats a lock its user has lost learns of it and stops,
   unless the machine falls asleep, the page is closed or the user gets the
   lock back: heartbeat_lock names the user it updates for.                *)
LossIsNoticed ==
  \A p \in Page :
    page[p].timer /\ holder # Owner[p]
      ~> ~page[p].timer \/ ~page[p].awake \/ holder = Owner[p]

=============================================================================
