----------------------------- MODULE Connection -----------------------------
(***************************************************************************)
(* A store's one database connection (app/db.py) and a server whose link   *)
(* may drop or which may be away: statements that commit at once and are   *)
(* retried over a new link, and `with conn:` blocks, which are not.  The   *)
(* store's lock makes its calls follow each other.                         *)
(*                                                                         *)
(* SQLAlchemy's connection, which is not part of the repository, begins a  *)
(* transaction of its own with a statement (begun), learns from a failed   *)
(* statement that its link is gone (known), reconnects on its own only     *)
(* when no transaction is begun, and refuses any use until a transaction   *)
(* that was cut is rolled back.                                            *)
(***************************************************************************)
EXTENDS Naturals, FiniteSets

CONSTANTS
  MaxCalls,  \* bound: calls on the store
  MaxDrops,  \* bound: drops and lost commits
  MaxOutages \* bound: times the server goes away

ASSUME ConnectionAssumption == {MaxCalls, MaxDrops, MaxOutages} \subseteq Nat

Call == 1..MaxCalls
(* 1 is a statement on its own, 2 and 3 those of a block. *)
Write == Call \X {1, 2, 3}

VARIABLES
  up,      \* the server answers
  live,    \* the link of self._conn has not been dropped
  open,    \* the writes of the server's transaction on that link
  applied, \* applied[w]: how often a write was committed
  known,   \* the connection has noticed that its link is gone
  begun,   \* it has begun a transaction
  tx,      \* self._tx is set
  pc,      \* where the current call is
  call,    \* the current call
  outcome, \* outcome[c]
  drops, outages

vars == <<up, live, open, applied, known, begun, tx, pc, call, outcome, drops, outages>>
server == <<up, live, open, applied>>
conn == <<known, begun, tx>>
caller == <<call, outcome, drops, outages>>

PCs == {"idle", "execute", "retry", "again", "commit", "enter", "body", "exit"}

(* A transaction of the server has a link, an explicit one is begun. *)
TypeOK ==
  /\ up \in BOOLEAN /\ live \in BOOLEAN /\ open \subseteq Write
  /\ applied \in [Write -> Nat]
  /\ known \in BOOLEAN /\ begun \in BOOLEAN /\ tx \in BOOLEAN
  /\ pc \in PCs /\ call \in 0..MaxCalls
  /\ outcome \in [Call -> {"none", "ok", "error"}]
  /\ open # {} => live
  /\ tx => begun

Init ==
  /\ up = TRUE /\ live = TRUE /\ open = {}
  /\ applied = [w \in Write |-> 0]
  /\ known = FALSE /\ begun = FALSE /\ tx = FALSE
  /\ pc = "idle" /\ call = 0
  /\ outcome = [c \in Call |-> "none"]
  /\ drops = 0 /\ outages = 0

Running == pc # "idle"

-----------------------------------------------------------------------------
(* The server.  A link that drops takes its transaction with it. *)

Drop ==
  /\ drops < MaxDrops /\ drops' = drops + 1
  /\ live
  /\ live' = FALSE /\ open' = {}
  /\ UNCHANGED <<up, applied, conn, pc, call, outcome, outages>>

GoAway ==
  /\ outages < MaxOutages /\ outages' = outages + 1
  /\ up
  /\ up' = FALSE /\ live' = FALSE /\ open' = {}
  /\ UNCHANGED <<applied, conn, pc, call, outcome, drops>>

ComeBack ==
  /\ ~up
  /\ up' = TRUE
  /\ UNCHANGED <<live, open, applied, conn, pc, caller>>

-----------------------------------------------------------------------------
(* The calls. *)

Start(first) ==
  /\ pc = "idle" /\ call < MaxCalls
  /\ call' = call + 1
  /\ pc' = first
  /\ UNCHANGED <<server, conn, outcome, drops, outages>>

End(o) ==
  /\ outcome' = [outcome EXCEPT ![call] = o]
  /\ pc' = "idle"

(* The statement reaches the server and is not yet committed. *)
Sent(n, next) ==
  /\ live' = TRUE
  /\ open' = open \cup {<<call, n>>}
  /\ known' = FALSE /\ begun' = TRUE
  /\ pc' = next
  /\ UNCHANGED <<up, applied, tx, caller>>

(* The first _raw_execute of execute, outside a block.                     *)
Execute ==
  /\ pc = "execute"
  /\ \/ /\ known /\ begun                        \* refused by the library
        /\ End("error")
        /\ UNCHANGED <<server, conn, call, drops, outages>>
     \/ /\ known /\ ~begun /\ ~up                \* cannot reconnect
        /\ End("error")
        /\ UNCHANGED <<server, conn, call, drops, outages>>
     \/ /\ IF known THEN ~begun /\ up ELSE live
        /\ Sent(1, "commit")
     \/ /\ ~known /\ ~live
        /\ known' = TRUE /\ begun' = TRUE
        /\ pc' = "retry"
        /\ UNCHANGED <<server, tx, caller>>

(* connection_invalidated: a new connection, which may be refused.         *)
Reconnect ==
  /\ pc = "retry"
  /\ IF up
     THEN /\ live' = TRUE /\ open' = {}
          /\ known' = FALSE /\ begun' = FALSE
          /\ pc' = "again"
          /\ UNCHANGED <<up, applied, tx, caller>>
     ELSE /\ End("error")
          /\ UNCHANGED <<server, conn, call, drops, outages>>

(* The second _raw_execute; nothing catches what it raises.                *)
ExecuteAgain ==
  /\ pc = "again"
  /\ \/ live /\ Sent(1, "commit")
     \/ /\ ~live
        /\ known' = TRUE /\ begun' = TRUE
        /\ End("error")
        /\ UNCHANGED <<server, tx, call, drops, outages>>

Committed == [w \in Write |-> applied[w] + IF w \in open THEN 1 ELSE 0]

Commits ==
  /\ live
  /\ applied' = Committed
  /\ open' = {}
  /\ begun' = FALSE /\ tx' = FALSE
  /\ End("ok")
  /\ UNCHANGED <<up, live, known, call, drops, outages>>

(* The commit is done and its answer is lost. *)
AnswerLost ==
  /\ live /\ drops < MaxDrops /\ drops' = drops + 1
  /\ applied' = Committed
  /\ open' = {} /\ live' = FALSE
  /\ known' = TRUE /\ begun' = FALSE /\ tx' = FALSE
  /\ End("error")
  /\ UNCHANGED <<up, call, outages>>

CommitFails ==
  /\ ~live
  /\ known' = TRUE /\ begun' = FALSE /\ tx' = FALSE
  /\ End("error")
  /\ UNCHANGED <<server, call, drops, outages>>

(* A commit inside the try: a lost answer is retried with the statement. *)
CommitRetried ==
  /\ pc = "commit"
  /\ \/ Commits
     \/ /\ live /\ drops < MaxDrops /\ drops' = drops + 1
        /\ applied' = Committed
        /\ open' = {} /\ live' = FALSE
        /\ known' = TRUE /\ begun' = FALSE
        /\ pc' = "retry"
        /\ UNCHANGED <<up, tx, call, outcome, outages>>
     \/ CommitFails

(* execute's commit, after the try: self._tx is None. *)
Commit ==
  /\ pc = "commit"
  /\ Commits \/ AnswerLost \/ CommitFails

(* __enter__: begin, which reconnects a connection known to be cut. *)
Enter ==
  /\ pc = "enter"
  /\ \/ /\ begun \/ (known /\ ~up)
        /\ End("error")
        /\ UNCHANGED <<server, conn, call, drops, outages>>
     \/ /\ ~begun /\ (known => up)
        /\ live' = (live \/ known) /\ known' = FALSE
        /\ begun' = TRUE /\ tx' = TRUE
        /\ pc' = "body"
        /\ UNCHANGED <<up, open, applied, caller>>

(* __exit__ with an exception: rollback, of a cut transaction too. *)
RollBack ==
  /\ open' = {}
  /\ begun' = FALSE /\ tx' = FALSE
  /\ End("error")
  /\ UNCHANGED <<up, live, applied, call, drops, outages>>

First == <<call, 2>> \notin open

(* execute in a block: nothing is retried.  The body may raise on its own. *)
Body ==
  /\ pc = "body"
  /\ \/ live /\ Sent(IF First THEN 2 ELSE 3, IF First THEN "body" ELSE "exit")
     \/ ~live /\ known' = TRUE /\ RollBack
     \/ UNCHANGED known /\ RollBack

(* __exit__ without one: commit. *)
Exit ==
  /\ pc = "exit"
  /\ Commits \/ AnswerLost \/ CommitFails

Next ==
  \/ Drop \/ GoAway \/ ComeBack
  \/ Start("execute") \/ Start("enter")
  \/ Execute \/ Reconnect \/ ExecuteAgain \/ Commit
  \/ Enter \/ Body \/ Exit

Spec == Init /\ [][Next]_vars

-----------------------------------------------------------------------------
(* A statement that is retried is not applied twice. *)
AtMostOnce == \A w \in Write : applied[w] <= 1

(* A block is applied whole or not at all, whatever link it met. *)
AllOrNothing ==
  \A c \in Call : applied[<<c, 2>>] = applied[<<c, 3>>]

(* A call that returned was applied. *)
ReturnedIsApplied ==
  \A c \in Call : outcome[c] = "ok" => \E n \in {1, 2} : applied[<<c, n>>] = 1

(* No write is lost, doubled or done by half, whatever the link does. *)
WritesAreSound == AtMostOnce /\ AllOrNothing /\ ReturnedIsApplied
=============================================================================
