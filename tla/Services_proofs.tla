--------------------------- MODULE Services_proofs ---------------------------
(***************************************************************************)
(* What is proved of the components that serve the others: the database    *)
(* connection (Connection), the schema (Schema), the developer overrides   *)
(* (DevOverrides), the template library (TemplateLibrary) and the contract *)
(* on rule results (RuleContract).                                         *)
(*                                                                         *)
(* The connection: what a store's calls commit, for any number of calls,   *)
(* drops, lost answers and outages.  The inductive invariant says which    *)
(* writes the server's transaction holds at each point of a call, and that *)
(* the writes of a call that is not over have not been committed.          *)
(***************************************************************************)
EXTENDS Connection, Sequences, TLAPS

(* A connection that knows of its loss has no link.                        *)
Links == known => ~live

Transaction ==
  /\ pc # "idle" => call \in Call
  /\ pc \in {"idle", "execute", "retry", "again", "enter"} => open = {} /\ ~tx
  /\ pc = "commit" /\ live => open = {<<call, 1>>}
  /\ pc = "body" /\ live => open \in {{}, {<<call, 2>>}}
  /\ pc = "exit" /\ live => open = {<<call, 2>>, <<call, 3>>}

(* Calls that have not begun, and the one under way.                       *)
Unfinished(c) == c > call \/ (c = call /\ pc # "idle")

Untouched(c) == /\ outcome[c] = "none"
                /\ applied[<<c, 1>>] = 0
                /\ applied[<<c, 2>>] = 0 /\ applied[<<c, 3>>] = 0

Sound(c) == /\ applied[<<c, 1>>] <= 1
            /\ applied[<<c, 2>>] <= 1 /\ applied[<<c, 2>>] = applied[<<c, 3>>]
            /\ outcome[c] = "ok" => applied[<<c, 1>>] = 1 \/ applied[<<c, 2>>] = 1

History == \A c \in Call : Sound(c) /\ (Unfinished(c) => Untouched(c))

IInv == TypeOK /\ Links /\ Transaction /\ History

LEMMA CallType == Call \subseteq Nat /\ \A c \in Call, n \in {1, 2, 3} : <<c, n>> \in Write
BY ConnectionAssumption DEF Call, Write

LEMMA InitInvariant == Init => IInv
<1> SUFFICES ASSUME Init PROVE IInv
  OBVIOUS
<1>1. TypeOK
  <2>1. applied \in [Write -> Nat] /\ outcome \in [Call -> {"none", "ok", "error"}]
    BY DEF Init
  <2>2. call \in 0..MaxCalls /\ pc \in PCs
    BY ConnectionAssumption DEF Init, PCs
  <2> QED
    BY <2>1, <2>2 DEF Init, TypeOK
<1>2. Links /\ Transaction
  BY DEF Init, Links, Transaction
<1>3. History
  <2> SUFFICES ASSUME NEW c \in Call PROVE Sound(c) /\ Untouched(c)
    BY DEF History
  <2>1. \A n \in {1, 2, 3} : applied[<<c, n>>] = 0
    BY CallType DEF Init
  <2>2. outcome[c] = "none"
    BY DEF Init
  <2> QED
    BY <2>1, <2>2 DEF Sound, Untouched
<1> QED
  BY <1>1, <1>2, <1>3 DEF IInv

(* A step that neither ends nor starts a call, and commits nothing.        *)
LEMMA Continues ==
  ASSUME IInv, UNCHANGED <<applied, outcome, call>>, pc # "idle" \/ pc' = "idle"
  PROVE  History'
BY CallType DEF IInv, History, Sound, Unfinished, Untouched

(* A call that ends with an error and commits nothing.                     *)
LEMMA Fails ==
  ASSUME IInv, pc # "idle", End("error"), UNCHANGED <<applied, call>>
  PROVE  History' /\ outcome' \in [Call -> {"none", "ok", "error"}]
<1>1. outcome' = [outcome EXCEPT ![call] = "error"] /\ pc' = "idle"
      /\ outcome \in [Call -> {"none", "ok", "error"}]
  BY DEF End, IInv, TypeOK
<1>2. \A c \in Call : outcome'[c] = "ok" => outcome[c] = "ok"
  BY <1>1
<1>3. \A c \in Call : c # call => outcome'[c] = outcome[c]
  BY <1>1
<1>4. ASSUME NEW c \in Call, Unfinished(c)'
      PROVE  c # call /\ Unfinished(c)
  BY <1>1, <1>4, CallType DEF Unfinished, IInv, TypeOK
<1>5. History'
  BY <1>2, <1>3, <1>4 DEF IInv, History, Sound, Untouched
<1> QED
  BY <1>1, <1>5

(* A call that ends with its commit, whether it learns of it or not.       *)
LEMMA Ends ==
  ASSUME IInv, pc # "idle", NEW o \in {"ok", "error"}, End(o), UNCHANGED call,
         applied' = Committed, open \in {{<<call, 1>>}, {<<call, 2>>, <<call, 3>>}}
  PROVE  /\ History'
         /\ outcome' \in [Call -> {"none", "ok", "error"}]
         /\ applied' \in [Write -> Nat]
<1>1. /\ outcome' = [outcome EXCEPT ![call] = o] /\ pc' = "idle" /\ call \in Call
      /\ outcome \in [Call -> {"none", "ok", "error"}] /\ applied \in [Write -> Nat]
  BY DEF End, IInv, TypeOK, Transaction
<1>2. applied' \in [Write -> Nat]
  BY <1>1 DEF Committed
<1>3. \A c \in Call, n \in {1, 2, 3} :
        applied'[<<c, n>>] = applied[<<c, n>>] + IF <<c, n>> \in open THEN 1 ELSE 0
  BY CallType DEF Committed
<1>4. Untouched(call)
  BY <1>1 DEF IInv, History, Unfinished
<1>5. Sound(call)'
  <2>1. call' = call
    OBVIOUS
  <2>2. applied[<<call, 1>>] = 0 /\ applied[<<call, 2>>] = 0 /\ applied[<<call, 3>>] = 0
    BY <1>4 DEF Untouched
  <2>3. CASE open = {<<call, 1>>}
    BY <1>1, <1>3, <2>1, <2>2, <2>3 DEF Sound
  <2>4. CASE open = {<<call, 2>>, <<call, 3>>}
    BY <1>1, <1>3, <2>1, <2>2, <2>4 DEF Sound
  <2> QED
    BY <2>3, <2>4
<1>6. ASSUME NEW c \in Call, c # call
      PROVE  Sound(c)' /\ (Unfinished(c)' => Untouched(c)')
  <2>1. ASSUME NEW n \in {1, 2, 3} PROVE applied'[<<c, n>>] = applied[<<c, n>>]
    <3>1. <<c, n>> \notin open
      BY <1>6, CallType
    <3>2. applied[<<c, n>>] \in Nat
      BY <1>1, CallType
    <3>3. applied'[<<c, n>>] = applied[<<c, n>>] + 0
      BY <1>3, <3>1
    <3> QED
      BY <3>2, <3>3
  <2>2. outcome'[c] = outcome[c]
    BY <1>1, <1>6
  <2>3. Unfinished(c)' => Unfinished(c)
    BY <1>6 DEF Unfinished
  <2> QED
    BY <2>1, <2>2, <2>3 DEF IInv, History, Sound, Untouched
<1>7. ~Unfinished(call)'
  BY <1>1, CallType DEF Unfinished
<1>8. ASSUME NEW c \in Call PROVE Sound(c)' /\ (Unfinished(c)' => Untouched(c)')
  BY <1>5, <1>6, <1>7
<1> QED
  BY <1>1, <1>2, <1>8 DEF History

(* The call that starts is one that was unfinished.                        *)
LEMMA Starts ==
  ASSUME IInv, NEW first \in {"execute", "enter"}, Start(first)
  PROVE  IInv'
<1>1. /\ pc = "idle" /\ call < MaxCalls /\ call' = call + 1 /\ pc' = first
      /\ UNCHANGED <<up, live, open, applied, known, begun, tx, outcome>>
      /\ call \in 0..MaxCalls
  BY DEF Start, server, conn, IInv, TypeOK
<1>2. call' \in Call /\ call' \in 0..MaxCalls
  BY <1>1, ConnectionAssumption DEF Call
<1>3. TypeOK'
  BY <1>1, <1>2 DEF IInv, TypeOK, PCs
<1>4. Links' /\ Transaction'
  BY <1>1, <1>2 DEF IInv, Links, Transaction
<1>5. ASSUME NEW c \in Call, Unfinished(c)' PROVE Unfinished(c)
  BY <1>1, <1>5, CallType DEF Unfinished
<1>6. History'
  BY <1>1, <1>5 DEF IInv, History, Sound, Untouched
<1> QED
  BY <1>3, <1>4, <1>6 DEF IInv

(* Commit and Exit share what the server may do with a commit.             *)
LEMMA CommitStep ==
  ASSUME IInv, pc \in {"commit", "exit"}, Commits \/ AnswerLost \/ CommitFails
  PROVE  IInv'
<1>1. CASE Commits
  <2>1. /\ live /\ applied' = Committed /\ open' = {} /\ ~begun' /\ ~tx'
        /\ begun' \in BOOLEAN /\ tx' \in BOOLEAN /\ End("ok")
        /\ UNCHANGED <<up, live, known, call>>
    BY <1>1 DEF Commits
  <2>2. open \in {{<<call, 1>>}, {<<call, 2>>, <<call, 3>>}}
    BY <2>1 DEF IInv, Transaction
  <2>3. /\ History' /\ outcome' \in [Call -> {"none", "ok", "error"}]
        /\ applied' \in [Write -> Nat]
    BY <2>1, <2>2, Ends
  <2>4. pc' = "idle"
    BY <2>1 DEF End
  <2>5. TypeOK'
    BY <2>1, <2>3, <2>4 DEF IInv, TypeOK, PCs
  <2> QED
    BY <2>1, <2>3, <2>4, <2>5 DEF IInv, Links, Transaction
<1>2. CASE AnswerLost
  <2>1. /\ live /\ applied' = Committed /\ open' = {} /\ ~live' /\ ~begun' /\ ~tx'
        /\ live' \in BOOLEAN /\ known' \in BOOLEAN
        /\ begun' \in BOOLEAN /\ tx' \in BOOLEAN /\ End("error")
        /\ UNCHANGED <<up, call>>
    BY <1>2 DEF AnswerLost
  <2>2. open \in {{<<call, 1>>}, {<<call, 2>>, <<call, 3>>}}
    BY <2>1 DEF IInv, Transaction
  <2>3. /\ History' /\ outcome' \in [Call -> {"none", "ok", "error"}]
        /\ applied' \in [Write -> Nat]
    BY <2>1, <2>2, Ends
  <2>4. pc' = "idle"
    BY <2>1 DEF End
  <2>5. TypeOK'
    BY <2>1, <2>3, <2>4 DEF IInv, TypeOK, PCs
  <2> QED
    BY <2>1, <2>3, <2>4, <2>5 DEF IInv, Links, Transaction
<1>3. CASE CommitFails
  <2>1. /\ ~live /\ ~begun' /\ ~tx' /\ known' \in BOOLEAN
        /\ begun' \in BOOLEAN /\ tx' \in BOOLEAN /\ End("error")
        /\ UNCHANGED <<up, live, open, applied, call>>
    BY <1>3 DEF CommitFails, server
  <2>2. History' /\ outcome' \in [Call -> {"none", "ok", "error"}]
    BY <2>1, Fails
  <2>3. pc' = "idle"
    BY <2>1 DEF End
  <2>4. TypeOK'
    BY <2>1, <2>2, <2>3 DEF IInv, TypeOK, PCs
  <2>5. open = {}
    BY <2>1 DEF IInv, TypeOK
  <2> QED
    BY <2>1, <2>2, <2>3, <2>4, <2>5 DEF IInv, Links, Transaction
<1> QED
  BY <1>1, <1>2, <1>3

(* A statement reaches the server.                                         *)
LEMMA SentStep ==
  ASSUME IInv, NEW n \in {1, 2, 3}, NEW next \in {"commit", "body", "exit"},
         Sent(n, next), pc # "idle",
         next = "commit" => n = 1 /\ open = {},
         next = "body" => n = 2 /\ open = {},
         next = "exit" => n = 3 /\ open = {<<call, 2>>}
  PROVE  IInv'
<1>1. /\ live' = TRUE /\ open' = open \cup {<<call, n>>} /\ known' = FALSE /\ begun' = TRUE
      /\ pc' = next /\ UNCHANGED <<up, applied, tx, call, outcome>>
  BY DEF Sent, caller
<1>2. <<call, n>> \in Write /\ call \in Call
  BY CallType DEF IInv, Transaction
<1>3. TypeOK'
  BY <1>1, <1>2 DEF IInv, TypeOK, PCs
<1>4. Links' /\ Transaction'
  BY <1>1, <1>2 DEF Links, Transaction
<1>5. History'
  BY <1>1, Continues
<1> QED
  BY <1>3, <1>4, <1>5 DEF IInv

(* A call ends with an error and no transaction is left at the server.     *)
LEMMA FailedStep ==
  ASSUME IInv, pc # "idle", End("error"), UNCHANGED <<up, live, applied, call>>,
         open' = {}, known' \in BOOLEAN, begun' \in BOOLEAN, tx' = FALSE,
         known' => ~live
  PROVE  IInv'
<1>1. History' /\ outcome' \in [Call -> {"none", "ok", "error"}]
  BY Fails
<1>2. pc' = "idle"
  BY DEF End
<1>3. TypeOK'
  BY <1>1, <1>2 DEF IInv, TypeOK, PCs
<1> QED
  BY <1>1, <1>2, <1>3 DEF IInv, Links, Transaction

LEMMA StepInvariant == IInv /\ [Next]_vars => IInv'
<1> SUFFICES ASSUME IInv, [Next]_vars PROVE IInv'
  OBVIOUS
<1> USE DEF IInv
<1>1. CASE Drop \/ GoAway
  <2>1. /\ up' \in BOOLEAN /\ live' = FALSE /\ open' = {}
        /\ UNCHANGED <<applied, known, begun, tx, pc, call, outcome>>
    BY <1>1 DEF Drop, GoAway, conn, TypeOK
  <2>2. TypeOK' /\ Links' /\ Transaction'
    BY <2>1 DEF TypeOK, Links, Transaction
  <2>3. History'
    BY <2>1, Continues
  <2> QED
    BY <2>2, <2>3
<1>2. CASE ComeBack
  <2>1. up' = TRUE /\ UNCHANGED <<live, open, applied, known, begun, tx, pc, call, outcome>>
    BY <1>2 DEF ComeBack, conn, caller
  <2>2. TypeOK' /\ Links' /\ Transaction'
    BY <2>1 DEF TypeOK, Links, Transaction
  <2>3. History'
    BY <2>1, Continues
  <2> QED
    BY <2>2, <2>3
<1>3. CASE Start("execute") \/ Start("enter")
  BY <1>3, Starts
<1>4. CASE Execute
  <2>1. pc = "execute" /\ open = {} /\ tx = FALSE
    BY <1>4 DEF Execute, Transaction, TypeOK
  <2>2. CASE End("error") /\ UNCHANGED <<server, conn, call>>
    BY <2>1, <2>2, FailedStep DEF server, conn, TypeOK, Links
  <2>3. CASE Sent(1, "commit")
    BY <2>1, <2>3, SentStep
  <2>4. CASE ~live /\ known' = TRUE /\ begun' = TRUE /\ pc' = "retry"
             /\ UNCHANGED <<server, tx, caller>>
    <3>1. TypeOK' /\ Links' /\ Transaction'
      BY <2>1, <2>4 DEF TypeOK, Links, Transaction, server, caller, PCs
    <3>2. History'
      BY <2>1, <2>4, Continues DEF server, caller
    <3> QED
      BY <3>1, <3>2
  <2> QED
    BY <1>4, <2>2, <2>3, <2>4 DEF Execute
<1>5. CASE Reconnect
  <2>1. pc = "retry" /\ open = {} /\ tx = FALSE
    BY <1>5 DEF Reconnect, Transaction, TypeOK
  <2>2. CASE up
    <3>1. /\ live' = TRUE /\ open' = {} /\ known' = FALSE /\ begun' = FALSE /\ pc' = "again"
          /\ UNCHANGED <<up, applied, tx, call, outcome>>
      BY <1>5, <2>2 DEF Reconnect, caller
    <3>3. TypeOK' /\ Links' /\ Transaction'
      BY <2>1, <3>1 DEF TypeOK, Links, Transaction, PCs
    <3>4. History'
      BY <2>1, <3>1, Continues
    <3> QED
      BY <3>3, <3>4
  <2>3. CASE ~up
    BY <1>5, <2>1, <2>3, FailedStep DEF Reconnect, server, conn, TypeOK, Links
  <2> QED
    BY <2>2, <2>3
<1>6. CASE ExecuteAgain
  <2>1. pc = "again" /\ open = {} /\ tx = FALSE
    BY <1>6 DEF ExecuteAgain, Transaction, TypeOK
  <2>2. CASE live /\ Sent(1, "commit")
    BY <2>1, <2>2, SentStep
  <2>3. CASE ~live /\ known' = TRUE /\ begun' = TRUE /\ End("error")
             /\ UNCHANGED <<server, tx, call>>
    BY <2>1, <2>3, FailedStep DEF server, TypeOK
  <2> QED
    BY <1>6, <2>2, <2>3 DEF ExecuteAgain
<1>7. CASE Commit \/ Exit
  BY <1>7, CommitStep DEF Commit, Exit
<1>8. CASE Enter
  <2>1. pc = "enter" /\ open = {} /\ tx = FALSE
    BY <1>8 DEF Enter, Transaction, TypeOK
  <2>2. CASE End("error") /\ UNCHANGED <<server, conn, call>>
    BY <2>1, <2>2, FailedStep DEF server, conn, TypeOK, Links
  <2>3. CASE /\ live' = (live \/ known) /\ known' = FALSE /\ begun' = TRUE /\ tx' = TRUE
             /\ pc' = "body" /\ UNCHANGED <<up, open, applied, caller>>
    <3>1. TypeOK' /\ Links' /\ Transaction'
      BY <2>1, <2>3 DEF TypeOK, Links, Transaction, caller, PCs
    <3>2. History'
      BY <2>1, <2>3, Continues DEF caller
    <3> QED
      BY <3>1, <3>2
  <2> QED
    BY <1>8, <2>2, <2>3 DEF Enter
<1>9. CASE Body
  <2>1. pc = "body"
    BY <1>9 DEF Body
  <2>2. CASE live /\ Sent(IF First THEN 2 ELSE 3, IF First THEN "body" ELSE "exit")
    <3>1. open \in {{}, {<<call, 2>>}}
      BY <2>1, <2>2 DEF Transaction
    <3>2. CASE First
      BY <2>1, <2>2, <3>1, <3>2, SentStep DEF First
    <3>3. CASE ~First
      BY <2>1, <2>2, <3>1, <3>3, SentStep DEF First
    <3> QED
      BY <3>2, <3>3
  <2>3. CASE ~live /\ known' = TRUE /\ RollBack
    BY <2>1, <2>3, FailedStep DEF RollBack
  <2>4. CASE UNCHANGED known /\ RollBack
    BY <2>1, <2>4, FailedStep DEF RollBack, TypeOK, Links
  <2> QED
    BY <1>9, <2>2, <2>3, <2>4 DEF Body
<1>10. CASE UNCHANGED vars
  BY <1>10 DEF vars, TypeOK, Links, Transaction, History, Sound, Unfinished, Untouched
<1> QED
  BY <1>1, <1>2, <1>3, <1>4, <1>5, <1>6, <1>7, <1>8, <1>9, <1>10 DEF Next

(* The types of every variable, the transaction of the server on its link  *)
(* and that of the adapter begun, at any time.                             *)
THEOREM TypeCorrect == Spec => []TypeOK
<1>1. IInv => TypeOK
  BY DEF IInv
<1> QED
  BY InitInvariant, StepInvariant, <1>1, PTL DEF Spec

(* db.py's retry, for every number of calls, drops, lost answers and       *)
(* outages: no write is committed twice.                                   *)
THEOREM RetriesOnce == Spec => []AtMostOnce
<1>1. IInv => AtMostOnce
  <2>1. ASSUME IInv, NEW c \in Call, NEW n \in {1, 2, 3} PROVE applied[<<c, n>>] <= 1
    <3>1. Sound(c)
      BY <2>1 DEF IInv, History
    <3>2. applied[<<c, 1>>] <= 1 /\ applied[<<c, 2>>] <= 1 /\ applied[<<c, 3>>] <= 1
      BY <3>1 DEF Sound
    <3> QED
      BY <3>2
  <2>2. \A w \in Write : \E c \in Call, n \in {1, 2, 3} : w = <<c, n>>
    BY DEF Write
  <2> QED
    BY <2>1, <2>2 DEF AtMostOnce
<1> QED
  BY InitInvariant, StepInvariant, <1>1, PTL DEF Spec

(* A `with conn:` block is committed whole or not at all.                  *)
THEOREM BlocksAreAtomic == Spec => []AllOrNothing
<1>1. IInv => AllOrNothing
  BY DEF IInv, History, Sound, AllOrNothing
<1> QED
  BY InitInvariant, StepInvariant, <1>1, PTL DEF Spec

(* A call that returned without an exception was committed.                *)
THEOREM AnswersAreTrue == Spec => []ReturnedIsApplied
<1>1. IInv => ReturnedIsApplied
  BY DEF IInv, History, Sound, ReturnedIsApplied
<1> QED
  BY InitInvariant, StepInvariant, <1>1, PTL DEF Spec

(* No write is lost, doubled or done by half, whatever the link does.      *)
THEOREM NothingLostOrDoubled == Spec => []WritesAreSound
<1>1. AtMostOnce /\ AllOrNothing /\ ReturnedIsApplied => WritesAreSound
  BY DEF WritesAreSound
<1> QED
  BY <1>1, RetriesOnce, BlocksAreAtomic, AnswersAreTrue, PTL

-----------------------------------------------------------------------------
(* The schema.                                                             *)

CONSTANTS Process, Sqlite, Database

VARIABLES table, rows, boot

B == INSTANCE Schema

(* Two processes that start together are only safe over a database that is *)
(* versioned: else one drops what the other has created and users wrote.   *)
OneBoots == (\E p : Process = {p}) \/ Database \subseteq {"older", "current"}

TableShape == {"absent", "legacy", "older", "current"}

(* The guard leaves such a database alone. *)
Versioned == table["versions"] # "absent" /\ \A t \in B!Table : table[t] # "legacy"

(* Of the stores before the n-th, the tables are as the code expects. *)
Done(n) == \A i \in 1..4 : i < n => table[B!Stores[i]] = "current"

Booting(p) ==
  /\ boot[p].at = "drop" =>
       rows = {} /\ \A i \in 1..4 : i < boot[p].n => table[B!KnownTables[i]] = "absent"
  /\ boot[p].at \in {"create", "probe", "alter", "up", "failed"} =>
       \A t \in B!Table : table[t] # "legacy"
  /\ boot[p].at \in {"create", "probe", "alter"} => Done(boot[p].n)
  /\ boot[p].at \in {"probe", "alter"} => table[B!Stores[boot[p].n]] # "absent"
  /\ boot[p].at = "up" => \A t \in B!Table : table[t] = "current"

BInv ==
  /\ B!TypeOK
  /\ table["files"] # "older"
  /\ rows # {} => Versioned
  /\ \A p \in Process : Booting(p)
  /\ (\E p : Process = {p}) \/ (Versioned /\ \A p \in Process : boot[p].at # "drop")

(* The lists that the code runs through. *)
LEMMA Lists ==
  /\ B!Table = {"files", "libraries", "products", "versions"}
  /\ DOMAIN B!Stores = 1..4 /\ Len(B!Stores) = 4 /\ Len(B!KnownTables) = 4
  /\ B!Stores[1] = "files" /\ B!Stores[2] = "libraries"
  /\ B!Stores[3] = "products" /\ B!Stores[4] = "versions"
  /\ B!KnownTables[1] = "libraries" /\ B!KnownTables[2] = "files"
  /\ B!KnownTables[3] = "products" /\ B!KnownTables[4] = "versions"
  /\ \A t \in B!Table : \E i \in 1..4 : B!Stores[i] = t
  /\ \A t \in B!Table : \E i \in 1..4 : B!KnownTables[i] = t
  /\ \A i \in 1..4 : B!Stores[i] \in B!Table /\ B!KnownTables[i] \in B!Table
<1>1. /\ DOMAIN B!Stores = 1..4 /\ Len(B!Stores) = 4 /\ Len(B!KnownTables) = 4
      /\ B!Stores[1] = "files" /\ B!Stores[2] = "libraries"
      /\ B!Stores[3] = "products" /\ B!Stores[4] = "versions"
      /\ B!KnownTables[1] = "libraries" /\ B!KnownTables[2] = "files"
      /\ B!KnownTables[3] = "products" /\ B!KnownTables[4] = "versions"
  BY DEF B!Stores, B!KnownTables
<1>2. \A i \in 1..4 : i = 1 \/ i = 2 \/ i = 3 \/ i = 4
  OBVIOUS
<1>3. B!Table = {"files", "libraries", "products", "versions"}
  BY <1>1, <1>2 DEF B!Table
<1> QED
  BY <1>1, <1>2, <1>3

LEMMA BootTypes ==
  /\ B!Down \in B!Boots /\ B!Step("up", 0) \in B!Boots /\ B!Step("failed", 0) \in B!Boots
  /\ \A n \in 1..4 : /\ B!Step("drop", n) \in B!Boots /\ B!Step("create", n) \in B!Boots
                     /\ B!Step("probe", n) \in B!Boots /\ B!Step("alter", n) \in B!Boots
  /\ \A b \in B!Boots : b.at \in {"drop", "create", "probe", "alter"} => b.n \in 1..4
  /\ B!Down.at = "down"
  /\ \A at, n : B!Step(at, n).at = at /\ B!Step(at, n).n = n
  BY Lists DEF B!Boots, B!Step, B!Down

LEMMA Next4 == \A n \in 1..4 : B!AfterStore(n) \in B!Boots
                 /\ B!AfterStore(n).at \in {"create", "up"}
                 /\ (n < 4 => B!AfterStore(n) = B!Step("create", n + 1))
                 /\ (n = 4 => B!AfterStore(n) = B!Step("up", 0))
<1> SUFFICES ASSUME NEW n \in 1..4 PROVE B!AfterStore(n) \in B!Boots
                 /\ B!AfterStore(n).at \in {"create", "up"}
                 /\ (n < 4 => B!AfterStore(n) = B!Step("create", n + 1))
                 /\ (n = 4 => B!AfterStore(n) = B!Step("up", 0))
  OBVIOUS
<1>1. CASE n < 4
  <2>1. B!AfterStore(n) = B!Step("create", n + 1) /\ n + 1 \in 1..4
    BY <1>1, Lists DEF B!AfterStore
  <2> QED
    BY <1>1, <2>1, BootTypes
<1>2. CASE n = 4
  BY <1>2, Lists, BootTypes DEF B!AfterStore
<1> QED
  BY <1>1, <1>2

(* A process that does not move, while tables only get better.             *)
Improved ==
  \A t \in B!Table :
    /\ table[t] = "current" => table'[t] = "current"
    /\ table[t] # "absent" => table'[t] # "absent"
    /\ table[t] # "legacy" => table'[t] # "legacy"

LEMMA Better ==
  ASSUME NEW q \in Process, Booting(q), boot[q].at # "drop", boot'[q] = boot[q],
         Improved,
         boot[q] \in B!Boots
  PROVE  Booting(q)'
<1>1. CASE boot[q].at \in {"create", "probe", "alter"}
  <2>1. boot[q].n \in 1..4 /\ \A i \in 1..4 : B!Stores[i] \in B!Table
    BY <1>1, BootTypes, Lists
  <2>2. Done(boot[q].n)'
    BY <1>1, <2>1 DEF Done, Booting, Improved
  <2> QED
    BY <1>1, <2>1, <2>2 DEF Booting, Improved
<1>2. CASE boot[q].at = "up"
  BY <1>2 DEF Booting, Improved
<1>3. CASE boot[q].at = "failed"
  BY <1>3 DEF Booting, Improved
<1>4. CASE boot[q].at \notin {"create", "probe", "alter", "up", "failed"}
  BY <1>4 DEF Booting, Improved
<1> QED
  BY <1>1, <1>2, <1>3, <1>4

(* p goes on, from create, probe or alter, and tables only get better.     *)
LEMMA Onward ==
  ASSUME BInv, NEW p \in Process, boot[p].at # "drop", NEW b \in B!Boots,
         boot' = [boot EXCEPT ![p] = b], rows' = rows, b.at # "drop",
         table' \in [B!Table -> TableShape], table'["files"] # "older",
         Improved,
         Booting(p)'
  PROVE  BInv'
<1>1. boot \in [Process -> B!Boots] /\ boot' \in [Process -> B!Boots] /\ boot'[p] = b
      /\ \A q \in Process : q # p => boot'[q] = boot[q]
  BY DEF BInv, B!TypeOK
<1>2. B!TypeOK'
  BY <1>1 DEF BInv, B!TypeOK, TableShape, Improved
<1>3. Versioned => Versioned'
  BY Lists DEF Versioned, Improved
<1>4. \A q \in Process : q # p => boot[q].at # "drop"
  BY DEF BInv
<1>5. ASSUME NEW q \in Process PROVE Booting(q)'
  <2>1. CASE q = p
    BY <2>1
  <2>2. CASE q # p
    <3>1. Booting(q) /\ boot[q] \in B!Boots /\ boot[q].at # "drop" /\ boot'[q] = boot[q]
      BY <1>1, <1>4, <2>2 DEF BInv
    <3> QED
      BY <3>1, Better
  <2> QED
    BY <2>1, <2>2
<1>6. ((\E q : Process = {q}) \/ (Versioned /\ \A q \in Process : boot[q].at # "drop"))'
  BY <1>1, <1>3 DEF BInv
<1> QED
  BY <1>2, <1>3, <1>5, <1>6 DEF BInv

(* After the n-th store p creates the next, or is up.                      *)
LEMMA After ==
  ASSUME NEW p \in Process, NEW n \in 1..4, boot'[p] = B!AfterStore(n),
         \A t \in B!Table : table'[t] # "legacy", Done(n)', table'[B!Stores[n]] = "current"
  PROVE  Booting(p)'
<1>1. \A i \in 1..4 : i <= n => table'[B!Stores[i]] = "current"
  BY DEF Done
<1>2. CASE n < 4
  <2>1. boot'[p].at = "create" /\ boot'[p].n = n + 1
    BY <1>2, Next4, BootTypes
  <2>2. Done(boot[p].n)'
    BY <1>1, <2>1 DEF Done
  <2> QED
    BY <2>1, <2>2 DEF Booting
<1>3. CASE n = 4
  <2>1. boot'[p].at = "up"
    BY <1>3, Next4, BootTypes
  <2>2. \A t \in B!Table : table'[t] = "current"
    BY <1>1, <1>3, Lists
  <2> QED
    BY <2>1, <2>2 DEF Booting
<1> QED
  BY <1>2, <1>3

LEMMA GuardKeeps ==
  ASSUME BInv, Sqlite = TRUE, NEW p \in Process, B!Guard(p)
  PROVE  BInv'
<1>1. /\ boot[p] = B!Down /\ table' = table /\ rows' = rows
      /\ boot' = [boot EXCEPT ![p] = IF B!IsLegacy THEN B!Step("drop", 1) ELSE B!Step("create", 1)]
  BY DEF B!Guard
<1>2. boot[p].at # "drop" /\ 1 \in 1..4
  BY <1>1, BootTypes
<1>3. table \in [B!Table -> TableShape] /\ table["files"] # "older"
  BY DEF BInv, B!TypeOK, TableShape
<1>4. CASE B!IsLegacy
  <2>1. ~Versioned /\ rows = {}
    BY <1>4 DEF BInv, Versioned, B!IsLegacy
  <2>2. PICK q : Process = {q}
    BY <2>1 DEF BInv
  <2>3. boot' = [boot EXCEPT ![p] = B!Step("drop", 1)] /\ boot \in [Process -> B!Boots]
        /\ B!Step("drop", 1) \in B!Boots
    BY <1>1, <1>2, <1>4, BootTypes DEF BInv, B!TypeOK
  <2>4. boot' \in [Process -> B!Boots] /\ boot'[p] = B!Step("drop", 1)
    BY <2>3
  <2>5. B!TypeOK'
    BY <1>1, <2>4 DEF BInv, B!TypeOK
  <2>6. boot'[p].at = "drop" /\ boot'[p].n = 1
    BY <2>4, BootTypes
  <2>7. Booting(p)'
    BY <1>1, <2>1, <2>6 DEF Booting
  <2> QED
    BY <1>1, <1>3, <2>1, <2>2, <2>5, <2>7 DEF BInv
<1>5. CASE ~B!IsLegacy
  <2>1. \A t \in B!Table : table[t] # "legacy"
    BY <1>5 DEF B!IsLegacy
  <2>2. boot' = [boot EXCEPT ![p] = B!Step("create", 1)] /\ B!Step("create", 1) \in B!Boots
        /\ B!Step("create", 1).at = "create" /\ B!Step("create", 1).n = 1
    BY <1>1, <1>2, <1>5, BootTypes
  <2>3. boot'[p].at = "create" /\ boot'[p].n = 1
    BY <2>2 DEF BInv, B!TypeOK
  <2>4. Done(boot[p].n)'
    BY <2>3 DEF Done
  <2>5. Booting(p)'
    BY <1>1, <2>1, <2>3, <2>4 DEF Booting
  <2>6. B!Step("create", 1).at # "drop"
    BY <2>2
  <2> QED
    BY <1>1, <1>2, <1>3, <2>2, <2>5, <2>6, Onward DEF Improved
<1> QED
  BY <1>4, <1>5

LEMMA DropKeeps ==
  ASSUME BInv, NEW p \in Process, B!Drop(p)
  PROVE  BInv'
<1> DEFINE n == boot[p].n
           t == B!KnownTables[n]
<1>1. boot[p].at = "drop" /\ boot[p] \in B!Boots /\ Booting(p) /\ rows = {}
  BY DEF B!Drop, BInv, B!TypeOK, Booting
<1>2. n \in 1..4 /\ t \in B!Table
  BY <1>1, BootTypes, Lists
<1>3. PICK q : Process = {q}
  BY <1>1 DEF BInv
<1>4. table' = [table EXCEPT ![t] = "absent"] /\ rows' = {}
  BY <1>1 DEF B!Drop
<1>5. boot' = [boot EXCEPT ![p] = IF n < 4 THEN B!Step("drop", n + 1) ELSE B!Step("create", 1)]
  BY Lists DEF B!Drop
<1>6. table \in [B!Table -> TableShape] /\ boot \in [Process -> B!Boots] /\ table["files"] # "older"
  BY DEF BInv, B!TypeOK, TableShape
<1>7. table' \in [B!Table -> TableShape] /\ table'["files"] # "older"
  BY <1>2, <1>4, <1>6, Lists DEF TableShape
<1>8. \A i \in 1..4 : i <= n => table'[B!KnownTables[i]] = "absent"
  <2> SUFFICES ASSUME NEW i \in 1..4, i <= n PROVE table'[B!KnownTables[i]] = "absent"
    OBVIOUS
  <2>1. B!KnownTables[i] \in B!Table
    BY Lists
  <2>2. CASE i = n
    BY <1>2, <1>4, <1>6, <2>2
  <2>3. CASE i # n
    <3>1. i < n
      BY <1>2, <2>3
    <3>2. table[B!KnownTables[i]] = "absent"
      BY <1>1, <3>1 DEF Booting
    <3> QED
      BY <1>4, <1>6, <2>1, <3>2
  <2> QED
    BY <2>2, <2>3
<1>9. Booting(p)' /\ boot' \in [Process -> B!Boots]
  <2>1. CASE n < 4
    <3>1. n + 1 \in 1..4 /\ B!Step("drop", n + 1) \in B!Boots
          /\ boot' = [boot EXCEPT ![p] = B!Step("drop", n + 1)]
      BY <1>2, <1>5, <2>1, BootTypes
    <3>2. boot' \in [Process -> B!Boots] /\ boot'[p] = B!Step("drop", n + 1)
      BY <1>6, <3>1
    <3>3. boot'[p].at = "drop" /\ boot'[p].n = n + 1
      BY <3>2, BootTypes
    <3>4. \A i \in 1..4 : i < n + 1 => i <= n
      BY <1>2
    <3>5. \A i \in 1..4 : i < boot'[p].n => table'[B!KnownTables[i]] = "absent"
      BY <1>8, <3>3, <3>4
    <3> QED
      BY <1>4, <3>2, <3>3, <3>5 DEF Booting
  <2>2. CASE n = 4
    <3>1. B!Step("create", 1) \in B!Boots /\ boot' = [boot EXCEPT ![p] = B!Step("create", 1)]
      BY <1>5, <2>2, BootTypes
    <3>2. boot' \in [Process -> B!Boots] /\ boot'[p] = B!Step("create", 1)
      BY <1>6, <3>1
    <3>3. boot'[p].at = "create" /\ boot'[p].n = 1
      BY <3>2, BootTypes
    <3>4. \A u \in B!Table : table'[u] = "absent"
      BY <1>8, <2>2, Lists
    <3>5. Done(boot[p].n)'
      BY <3>3 DEF Done
    <3> QED
      BY <3>2, <3>3, <3>4, <3>5 DEF Booting
  <2> QED
    BY <1>2, <2>1, <2>2
<1>10. B!TypeOK'
  BY <1>4, <1>7, <1>9 DEF B!TypeOK, TableShape
<1> QED
  BY <1>3, <1>4, <1>7, <1>9, <1>10 DEF BInv

LEMMA CreateKeeps ==
  ASSUME BInv, Sqlite = TRUE, NEW p \in Process, B!Create(p)
  PROVE  BInv'
<1>1. boot[p].at = "create" /\ boot[p] \in B!Boots /\ Booting(p)
  BY DEF B!Create, BInv, B!TypeOK
<1>n. PICK n \in 1..4 : n = boot[p].n
  BY <1>1, BootTypes
<1>s. PICK store \in B!Table : store = B!Stores[n]
  BY Lists
<1>2. store \in B!Schema(store)
  BY DEF B!Schema
<1>3. /\ table' = [t \in B!Table |-> IF t \in B!Schema(store) /\ table[t] = "absent"
                                   THEN "current" ELSE table[t]]
      /\ boot' = [boot EXCEPT ![p] = IF store \in B!Grown THEN B!Step("probe", n)
                                     ELSE B!AfterStore(n)]
      /\ rows' = rows
  BY <1>n, <1>s DEF B!Create
<1>4. table \in [B!Table -> TableShape] /\ boot \in [Process -> B!Boots] /\ table["files"] # "older"
  BY DEF BInv, B!TypeOK, TableShape
<1>5. table' \in [B!Table -> TableShape] /\ table'["files"] # "older"
  BY <1>3, <1>4, Lists DEF TableShape
<1>6. Improved
  BY <1>3 DEF Improved
<1>7. (\A t \in B!Table : table[t] # "legacy") /\ Done(n)
  BY <1>1, <1>n DEF Booting
<1>8. \A t \in B!Table : table'[t] # "legacy"
  BY <1>6, <1>7 DEF Improved
<1>9. \A i \in 1..4 : i < n => table'[B!Stores[i]] = "current"
  BY <1>6, <1>7, Lists DEF Done, Improved
<1>10. table'[store] # "absent"
  BY <1>2, <1>3
<1>11. CASE store \in B!Grown
  <2>1. boot' = [boot EXCEPT ![p] = B!Step("probe", n)] /\ B!Step("probe", n) \in B!Boots
        /\ B!Step("probe", n).at = "probe" /\ B!Step("probe", n).n = n
    BY <1>2, <1>3, <1>11, BootTypes
  <2>2. boot'[p].at = "probe" /\ boot'[p].n = n
    BY <1>4, <2>1
  <2>3. Done(boot[p].n)'
    BY <1>9, <2>2 DEF Done
  <2>4. table'[B!Stores[boot'[p].n]] # "absent"
    BY <1>10, <1>s, <2>2
  <2>5. Booting(p)'
    BY <1>8, <2>2, <2>3, <2>4 DEF Booting
  <2>6. B!Step("probe", n).at # "drop" /\ boot[p].at # "drop"
    BY <1>1, <2>1
  <2> QED
    BY <1>3, <1>5, <1>6, <2>1, <2>5, <2>6, Onward
<1>12. CASE store \notin B!Grown
  <2>1. boot' = [boot EXCEPT ![p] = B!AfterStore(n)] /\ B!AfterStore(n) \in B!Boots
        /\ B!AfterStore(n).at # "drop"
    BY <1>2, <1>3, <1>12, Next4
  <2>2. boot'[p] = B!AfterStore(n)
    BY <1>4, <2>1
  <2>3. store = "files"
    BY <1>12, Lists DEF B!Grown
  <2>4. table'[store] \in TableShape
    BY <1>2, <1>5
  <2>5. table'[store] = "current"
    BY <1>2, <1>5, <1>8, <1>10, <2>3, <2>4 DEF TableShape
  <2>6. table'[B!Stores[n]] = "current"
    BY <1>s, <2>5
  <2>9. Done(n)'
    BY <1>9 DEF Done
  <2>7. Booting(p)'
    BY <1>8, <2>2, <2>6, <2>9, After
  <2>8. boot[p].at # "drop"
    BY <1>1
  <2> QED
    BY <1>3, <1>5, <1>6, <2>1, <2>7, <2>8, Onward
<1> QED
  BY <1>11, <1>12

LEMMA ProbeKeeps ==
  ASSUME BInv, Sqlite = TRUE, NEW p \in Process, B!Probe(p)
  PROVE  BInv'
<1>1. boot[p].at = "probe" /\ boot[p] \in B!Boots /\ Booting(p)
  BY DEF B!Probe, BInv, B!TypeOK
<1>n. PICK n \in 1..4 : n = boot[p].n
  BY <1>1, BootTypes
<1>2. /\ boot' = [boot EXCEPT ![p] = IF table[B!Stores[n]] = "older" THEN B!Step("alter", n)
                                      ELSE B!AfterStore(n)]
      /\ table' = table /\ rows' = rows
  BY <1>n DEF B!Probe, B!Misses
<1>3. table \in [B!Table -> TableShape] /\ boot \in [Process -> B!Boots] /\ table["files"] # "older"
  BY DEF BInv, B!TypeOK, TableShape
<1>4. table' \in [B!Table -> TableShape] /\ table'["files"] # "older" /\ Improved
      /\ boot[p].at # "drop"
  BY <1>1, <1>2, <1>3 DEF Improved
<1>5. (\A t \in B!Table : table'[t] # "legacy") /\ Done(n)' /\ table'[B!Stores[n]] # "absent"
  BY <1>1, <1>2, <1>n DEF Booting, Done
<1>6. CASE table[B!Stores[n]] = "older"
  <2>1. boot' = [boot EXCEPT ![p] = B!Step("alter", n)] /\ B!Step("alter", n) \in B!Boots
        /\ B!Step("alter", n).at = "alter" /\ B!Step("alter", n).n = n
    BY <1>2, <1>6, BootTypes
  <2>2. boot'[p].at = "alter" /\ boot'[p].n = n
    BY <1>3, <2>1
  <2>3. Done(boot[p].n)'
    BY <1>5, <2>2 DEF Done
  <2>4. Booting(p)'
    BY <1>5, <2>2, <2>3 DEF Booting
  <2>5. B!Step("alter", n).at # "drop"
    BY <2>1
  <2> QED
    BY <1>2, <1>4, <2>1, <2>4, <2>5, Onward
<1>7. CASE table[B!Stores[n]] # "older"
  <2>1. boot' = [boot EXCEPT ![p] = B!AfterStore(n)] /\ B!AfterStore(n) \in B!Boots
        /\ B!AfterStore(n).at # "drop"
    BY <1>2, <1>7, Next4
  <2>2. boot'[p] = B!AfterStore(n)
    BY <1>3, <2>1
  <2>3. table'[B!Stores[n]] = "current"
    BY <1>2, <1>3, <1>5, <1>7, Lists DEF TableShape
  <2>4. Booting(p)'
    BY <1>5, <2>2, <2>3, After
  <2> QED
    BY <1>2, <1>4, <2>1, <2>4, Onward
<1> QED
  BY <1>6, <1>7

LEMMA AlterKeeps ==
  ASSUME BInv, NEW p \in Process, B!Alter(p)
  PROVE  BInv'
<1>1. boot[p].at = "alter" /\ boot[p] \in B!Boots /\ Booting(p)
  BY DEF B!Alter, BInv, B!TypeOK
<1>n. PICK n \in 1..4 : n = boot[p].n
  BY <1>1, BootTypes
<1>s. PICK store \in B!Table : store = B!Stores[n]
  BY Lists
<1>3. table \in [B!Table -> TableShape] /\ boot \in [Process -> B!Boots] /\ table["files"] # "older"
      /\ boot[p].at # "drop"
  BY <1>1 DEF BInv, B!TypeOK, TableShape
<1>4. (\A t \in B!Table : table[t] # "legacy") /\ Done(n) /\ rows' = rows
  BY <1>1, <1>n DEF Booting, B!Alter
<1>5. CASE table[store] = "older"
  <2>1. table' = [table EXCEPT ![store] = "current"]
        /\ boot' = [boot EXCEPT ![p] = B!AfterStore(n)]
    BY <1>5, <1>n, <1>s DEF B!Alter
  <2>2. table' \in [B!Table -> TableShape] /\ table'["files"] # "older" /\ table'[store] = "current"
    BY <1>3, <2>1 DEF TableShape
  <2>3. Improved /\ \A t \in B!Table : table'[t] # "legacy"
    BY <1>3, <1>4, <2>1 DEF Improved
  <2>4. Done(n)'
    BY <1>4, <2>3, Lists DEF Done, Improved
  <2>5. B!AfterStore(n) \in B!Boots /\ B!AfterStore(n).at # "drop"
    BY Next4
  <2>6. boot'[p] = B!AfterStore(n) /\ table'[B!Stores[n]] = "current"
    BY <1>3, <1>s, <2>1, <2>2, <2>5
  <2>7. Booting(p)'
    BY <2>3, <2>4, <2>6, After
  <2> QED
    BY <1>3, <1>4, <2>1, <2>2, <2>3, <2>5, <2>7, Onward
<1>6. CASE table[store] # "older"
  <2>1. table' = table /\ boot' = [boot EXCEPT ![p] = B!Step("failed", 0)]
        /\ B!Step("failed", 0) \in B!Boots /\ B!Step("failed", 0).at = "failed"
    BY <1>6, <1>n, <1>s, BootTypes DEF B!Alter
  <2>2. boot'[p].at = "failed" /\ Improved
    BY <1>3, <2>1 DEF Improved
  <2>3. Booting(p)'
    BY <1>4, <2>1, <2>2 DEF Booting
  <2>4. table' \in [B!Table -> TableShape] /\ table'["files"] # "older" /\ B!Step("failed", 0).at # "drop"
    BY <1>3, <2>1
  <2> QED
    BY <1>3, <1>4, <2>1, <2>2, <2>3, <2>4, Onward
<1> QED
  BY <1>5, <1>6

LEMMA WriteKeeps ==
  ASSUME BInv, NEW p \in Process, NEW t \in B!Table, B!Write(p, t)
  PROVE  BInv'
<1>1. boot[p].at = "up" /\ table[t] # "absent" /\ rows' = rows \cup {t}
      /\ table' = table /\ boot' = boot
  BY DEF B!Write
<1>2. \A u \in B!Table : table[u] = "current"
  BY <1>1 DEF BInv, Booting
<1>3. Versioned'
  BY <1>1, <1>2, Lists DEF Versioned
<1>4. B!TypeOK'
  BY <1>1 DEF BInv, B!TypeOK
<1>5. ASSUME NEW q \in Process PROVE Booting(q)'
  <2>1. Booting(q) /\ (q = p \/ boot[q].at # "drop")
    BY DEF BInv
  <2>2. boot[q].at # "drop"
    BY <1>1, <2>1
  <2> QED
    BY <1>1, <2>1, <2>2 DEF Booting, Done
<1>6. table'["files"] # "older"
  BY <1>1 DEF BInv
<1>7. ((\E q : Process = {q}) \/ (Versioned /\ \A q \in Process : boot[q].at # "drop"))'
  BY <1>1, <1>3 DEF BInv
<1> QED
  BY <1>3, <1>4, <1>5, <1>6, <1>7 DEF BInv

LEMMA CrashKeeps ==
  ASSUME BInv, NEW p \in Process, B!Crash(p)
  PROVE  BInv'
<1>1. boot' = [boot EXCEPT ![p] = B!Down] /\ table' = table /\ rows' = rows
  BY DEF B!Crash
<1>2. boot \in [Process -> B!Boots] /\ B!Down \in B!Boots /\ B!Down.at = "down"
  BY BootTypes DEF BInv, B!TypeOK
<1>3. boot' \in [Process -> B!Boots] /\ boot'[p].at = "down"
      /\ \A q \in Process : q # p => boot'[q] = boot[q]
  BY <1>1, <1>2
<1>4. B!TypeOK' /\ (table["files"] # "older")' /\ (rows # {} => Versioned)'
  BY <1>1, <1>3 DEF BInv, B!TypeOK, Versioned
<1>5. ASSUME NEW q \in Process PROVE Booting(q)'
  <2>1. CASE q = p
    BY <1>3, <2>1 DEF Booting
  <2>2. CASE q # p
    BY <1>1, <1>3, <2>2 DEF BInv, Booting, Done
  <2> QED
    BY <2>1, <2>2
<1>6. ((\E q : Process = {q}) \/ (Versioned /\ \A q \in Process : boot[q].at # "drop"))'
  BY <1>1, <1>3 DEF BInv, Versioned
<1> QED
  BY <1>4, <1>5, <1>6 DEF BInv

LEMMA BootsSafely ==
  ASSUME B!SchemaAssumption, Sqlite = TRUE, OneBoots
  PROVE  B!Spec => []BInv
<1>1. B!Init => BInv
  <2> SUFFICES ASSUME B!Init PROVE BInv
    OBVIOUS
  <2>1. PICK d \in Database :
          /\ table = B!Found(d)
          /\ rows = IF d \in {"older", "current"} THEN B!Table ELSE {}
          /\ boot = [p \in Process |-> B!Down]
    BY DEF B!Init
  <2>2. d \in {"fresh", "legacy", "older", "current"}
    BY DEF B!SchemaAssumption
  <2>3. \A p \in Process : boot[p] = B!Down /\ boot[p].at = "down"
    BY <2>1, BootTypes
  <2>4. \A p \in Process : Booting(p)
    BY <2>3 DEF Booting
  <2>5. table \in [B!Table -> TableShape] /\ table["files"] # "older"
    BY <2>1, <2>2, Lists DEF B!Found, B!Grown, TableShape
  <2>6. d \in {"older", "current"} => Versioned /\ \A t \in B!Table : table[t] # "absent"
    BY <2>1, Lists DEF B!Found, B!Grown, Versioned
  <2>7. B!TypeOK
    <3>1. rows \in SUBSET {t \in B!Table : table[t] # "absent"}
      BY <2>1, <2>6
    <3>2. boot \in [Process -> B!Boots]
      BY <2>1, BootTypes
    <3> QED
      BY <2>5, <3>1, <3>2 DEF B!TypeOK, TableShape
  <2>8. (\E p : Process = {p}) \/ (Versioned /\ \A p \in Process : boot[p].at # "drop")
    BY <2>1, <2>3, <2>6 DEF OneBoots
  <2> QED
    BY <2>1, <2>4, <2>5, <2>6, <2>7, <2>8 DEF BInv
<1>2. BInv /\ [B!Next]_B!vars => BInv'
  <2> SUFFICES ASSUME BInv, [B!Next]_B!vars PROVE BInv'
    OBVIOUS
  <2>1. CASE B!Next
    <3> SUFFICES ASSUME NEW p \in Process,
                        \/ B!Guard(p) \/ B!Drop(p) \/ B!Create(p) \/ B!Probe(p) \/ B!Alter(p)
                        \/ B!Crash(p) \/ \E t \in B!Table : B!Write(p, t)
                 PROVE  BInv'
      BY <2>1 DEF B!Next
    <3> QED
      BY GuardKeeps, DropKeeps, CreateKeeps, ProbeKeeps, AlterKeeps, CrashKeeps, WriteKeeps
  <2>2. CASE UNCHANGED B!vars
    BY <2>2 DEF B!vars, BInv, B!TypeOK, Booting, Done, Versioned
  <2> QED
    BY <2>1, <2>2
<1> QED
  BY <1>1, <1>2, PTL DEF B!Spec

(* Every variable keeps its type, whatever starts when.                    *)
THEOREM SchemaTypes ==
  ASSUME B!SchemaAssumption
  PROVE  B!Spec => []B!TypeOK
<1>1. B!Init => B!TypeOK
  <2> SUFFICES ASSUME B!Init PROVE B!TypeOK
    OBVIOUS
  <2>1. PICK d \in Database :
          /\ table = B!Found(d)
          /\ rows = IF d \in {"older", "current"} THEN B!Table ELSE {}
          /\ boot = [p \in Process |-> B!Down]
    BY DEF B!Init
  <2>2. d \in {"fresh", "legacy", "older", "current"}
    BY DEF B!SchemaAssumption
  <2>3. table \in [B!Table -> TableShape]
    BY <2>1, <2>2, Lists DEF B!Found, B!Grown, TableShape
  <2>4. d \in {"older", "current"} => \A t \in B!Table : table[t] # "absent"
    BY <2>1, Lists DEF B!Found, B!Grown
  <2>5. rows \in SUBSET {t \in B!Table : table[t] # "absent"}
    BY <2>1, <2>4
  <2>6. boot \in [Process -> B!Boots]
    BY <2>1, BootTypes
  <2> QED
    BY <2>3, <2>5, <2>6 DEF B!TypeOK, TableShape
<1>2. B!TypeOK /\ [B!Next]_B!vars => B!TypeOK'
  <2> SUFFICES ASSUME B!TypeOK, [B!Next]_B!vars PROVE B!TypeOK'
    OBVIOUS
  <2>1. CASE UNCHANGED B!vars
    BY <2>1 DEF B!vars, B!TypeOK
  <2>2. ASSUME NEW p \in Process, NEW b \in B!Boots, boot' = [boot EXCEPT ![p] = b],
               table' \in [B!Table -> TableShape], rows' \in SUBSET {t \in B!Table : table'[t] # "absent"}
        PROVE  B!TypeOK'
    BY <2>2 DEF B!TypeOK, TableShape
  <2>3. table \in [B!Table -> TableShape] /\ rows \in SUBSET {t \in B!Table : table[t] # "absent"}
        /\ boot \in [Process -> B!Boots]
    BY DEF B!TypeOK, TableShape
  <2>4. ASSUME NEW p \in Process, B!Guard(p) PROVE B!TypeOK'
    <3>1. \E b \in {B!Step("drop", 1), B!Step("create", 1)} : boot' = [boot EXCEPT ![p] = b]
      BY <2>4 DEF B!Guard
    <3>2. B!Step("drop", 1) \in B!Boots /\ B!Step("create", 1) \in B!Boots
      BY BootTypes
    <3> QED
      BY <2>2, <2>3, <2>4, <3>1, <3>2 DEF B!Guard
  <2>5. ASSUME NEW p \in Process, boot[p].at \in {"drop", "create", "probe", "alter"}
        PROVE  \E n \in 1..4 : n = boot[p].n
    BY <2>3, <2>5, BootTypes
  <2>6. ASSUME NEW p \in Process, B!Drop(p) PROVE B!TypeOK'
    <3>n. PICK n \in 1..4 : n = boot[p].n
      BY <2>5, <2>6 DEF B!Drop
    <3>t. PICK t \in B!Table : t = B!KnownTables[n]
      BY Lists
    <3>1. table' = [table EXCEPT ![t] = "absent"] /\ rows' = rows \ {t}
      BY <2>6, <3>n, <3>t DEF B!Drop
    <3>2. boot' = [boot EXCEPT ![p] = IF n < 4 THEN B!Step("drop", n + 1) ELSE B!Step("create", 1)]
      BY <2>6, <3>n, Lists DEF B!Drop
    <3>3. \E b \in B!Boots : boot' = [boot EXCEPT ![p] = b]
      <4>1. CASE n < 4
        <5>1. B!Step("drop", n + 1) \in B!Boots /\ boot' = [boot EXCEPT ![p] = B!Step("drop", n + 1)]
          BY <3>2, <4>1, BootTypes
        <5> QED
          BY <5>1
      <4>2. CASE ~(n < 4)
        <5>1. B!Step("create", 1) \in B!Boots /\ boot' = [boot EXCEPT ![p] = B!Step("create", 1)]
          BY <3>2, <4>2, BootTypes
        <5> QED
          BY <5>1
      <4> QED
        BY <4>1, <4>2
    <3>4. table' \in [B!Table -> TableShape] /\ rows' \in SUBSET {u \in B!Table : table'[u] # "absent"}
      BY <2>3, <3>1 DEF TableShape
    <3> QED
      BY <2>2, <3>3, <3>4
  <2>7. ASSUME NEW p \in Process, B!Create(p) PROVE B!TypeOK'
    <3>n. PICK n \in 1..4 : n = boot[p].n
      BY <2>5, <2>7 DEF B!Create
    <3>1. \E b \in {B!Step("probe", n), B!AfterStore(n)} : boot' = [boot EXCEPT ![p] = b]
      BY <2>7, <3>n DEF B!Create
    <3>2. B!Step("probe", n) \in B!Boots /\ B!AfterStore(n) \in B!Boots
      BY BootTypes, Next4
    <3>3. rows' = rows /\ table' \in [B!Table -> TableShape]
          /\ \A t \in B!Table : table[t] # "absent" => table'[t] # "absent"
      BY <2>3, <2>7 DEF B!Create, TableShape
    <3> QED
      BY <2>2, <2>3, <3>1, <3>2, <3>3
  <2>8. ASSUME NEW p \in Process, B!Probe(p) PROVE B!TypeOK'
    <3>n. PICK n \in 1..4 : n = boot[p].n
      BY <2>5, <2>8 DEF B!Probe
    <3>1. \E b \in {B!Step("alter", n), B!AfterStore(n)} : boot' = [boot EXCEPT ![p] = b]
      BY <2>8, <3>n DEF B!Probe
    <3>2. B!Step("alter", n) \in B!Boots /\ B!AfterStore(n) \in B!Boots
      BY BootTypes, Next4
    <3> QED
      BY <2>2, <2>3, <2>8, <3>1, <3>2 DEF B!Probe
  <2>9. ASSUME NEW p \in Process, B!Alter(p) PROVE B!TypeOK'
    <3>n. PICK n \in 1..4 : n = boot[p].n
      BY <2>5, <2>9 DEF B!Alter
    <3>1. \E b \in {B!Step("failed", 0), B!AfterStore(n)} : boot' = [boot EXCEPT ![p] = b]
      BY <2>9, <3>n DEF B!Alter
    <3>2. B!Step("failed", 0) \in B!Boots /\ B!AfterStore(n) \in B!Boots
      BY BootTypes, Next4
    <3>3. rows' = rows /\ table' \in [B!Table -> TableShape]
          /\ \A t \in B!Table : table[t] # "absent" => table'[t] # "absent"
      BY <2>3, <2>9 DEF B!Alter, TableShape
    <3> QED
      BY <2>2, <2>3, <3>1, <3>2, <3>3
  <2>10. ASSUME NEW p \in Process, B!Crash(p) PROVE B!TypeOK'
    BY <2>2, <2>3, <2>10, BootTypes DEF B!Crash
  <2>11. ASSUME NEW p \in Process, NEW t \in B!Table, B!Write(p, t) PROVE B!TypeOK'
    BY <2>3, <2>11 DEF B!Write, B!TypeOK
  <2>12. CASE B!Next
    BY <2>4, <2>6, <2>7, <2>8, <2>9, <2>10, <2>11, <2>12 DEF B!Next
  <2> QED
    BY <2>1, <2>12
<1> QED
  BY <1>1, <1>2, PTL DEF B!Spec

(* A process that is up finds every table in the shape its code expects,   *)
(* from whichever database and after whichever crashes, if processes do    *)
(* not start side by side over a database that is fresh or from before the *)
(* versions (the guard and the stores of app/dbschema.py).                 *)
THEOREM UpMeansReady ==
  ASSUME B!SchemaAssumption, Sqlite = TRUE, OneBoots
  PROVE  B!Spec => []B!Ready
<1>1. BInv => B!Ready
  BY DEF BInv, Booting, B!Ready
<1> QED
  BY <1>1, BootsSafely, PTL

(* On MariaDB nobody drops.                                                *)
LEMMA NoDrop ==
  ASSUME B!SchemaAssumption, Sqlite = FALSE
  PROVE  B!Spec => [](boot \in [Process -> B!Boots] /\ \A p \in Process : boot[p].at # "drop")
<1> DEFINE I == boot \in [Process -> B!Boots] /\ \A p \in Process : boot[p].at # "drop"
<1>1. B!Init => I
  BY BootTypes DEF B!Init
<1>2. I /\ [B!Next]_B!vars => I'
  <2> SUFFICES ASSUME I, [B!Next]_B!vars PROVE I'
    OBVIOUS
  <2>1. CASE UNCHANGED B!vars
    BY <2>1 DEF B!vars
  <2>2. CASE B!Next
    <3>1. \A p \in Process : ~B!Drop(p)
      BY DEF B!Drop
    <3>2. PICK p \in Process : \/ B!Guard(p) \/ B!Create(p) \/ B!Probe(p) \/ B!Alter(p)
                               \/ B!Crash(p) \/ \E t \in B!Table : B!Write(p, t)
      BY <2>2, <3>1 DEF B!Next
    <3>3. ASSUME NEW b \in B!Boots, b.at # "drop", boot' = [boot EXCEPT ![p] = b] PROVE I'
      BY <3>3
    <3>4. CASE B!Guard(p)
      <4>1. boot' = [boot EXCEPT ![p] = B!Step("create", 1)]
        BY <3>4 DEF B!Guard
      <4> QED
        BY <3>3, <4>1, BootTypes
    <3>5. CASE B!Create(p) \/ B!Probe(p) \/ B!Alter(p)
      <4>1. boot[p].at \in {"create", "probe", "alter"} /\ boot[p] \in B!Boots
        BY <3>5 DEF B!Create, B!Probe, B!Alter
      <4>n. PICK n \in 1..4 : n = boot[p].n
        BY <4>1, BootTypes
      <4>2. \E b \in {B!Step("probe", n), B!Step("alter", n), B!Step("failed", 0), B!AfterStore(n)} :
              boot' = [boot EXCEPT ![p] = b]
        BY <3>5, <4>n DEF B!Create, B!Probe, B!Alter
      <4>3. \A b \in {B!Step("probe", n), B!Step("alter", n), B!Step("failed", 0), B!AfterStore(n)} :
              b \in B!Boots /\ b.at # "drop"
        BY BootTypes, Next4
      <4> QED
        BY <3>3, <4>2, <4>3
    <3>6. CASE B!Crash(p)
      BY <3>3, <3>6, BootTypes DEF B!Crash
    <3>7. CASE \E t \in B!Table : B!Write(p, t)
      BY <3>7 DEF B!Write
    <3> QED
      BY <3>2, <3>4, <3>5, <3>6, <3>7
  <2> QED
    BY <2>1, <2>2
<1> QED
  BY <1>1, <1>2, PTL DEF B!Spec

(* What is stored since the versions is never dropped, under the same      *)
(* hypothesis, and on MariaDB whatever starts when (the guard of           *)
(* ensure_versioned_schema, app/dbschema.py).                              *)
THEOREM StoredRowsAreKept ==
  ASSUME B!SchemaAssumption, Sqlite = FALSE \/ OneBoots
  PROVE  B!Spec => B!RowsKept
<1>1. ASSUME \A p \in Process : boot[p].at = "drop" => rows = {}, [B!Next]_B!vars
      PROVE  [rows \subseteq rows']_B!vars
  <2>1. CASE UNCHANGED B!vars
    BY <2>1
  <2>2. CASE B!Next
    <3>1. PICK p \in Process : B!Drop(p) \/ rows' = rows \/ \E t : rows' = rows \cup {t}
      BY <2>2 DEF B!Next, B!Guard, B!Create, B!Probe, B!Alter, B!Crash, B!Write
    <3>2. B!Drop(p) => boot[p].at = "drop"
      BY DEF B!Drop
    <3> QED
      BY <1>1, <3>1, <3>2
  <2> QED
    BY <1>1, <2>1, <2>2
<1>2. (\A p \in Process : boot[p].at = "drop" => rows = {}) /\ [B!Next]_B!vars
        => [rows \subseteq rows']_B!vars
  BY <1>1
<1>3. CASE Sqlite = FALSE
  <2>1. (\A p \in Process : boot[p].at # "drop")
           => (\A p \in Process : boot[p].at = "drop" => rows = {})
    OBVIOUS
  <2>2. B!Spec => [](\A p \in Process : boot[p].at = "drop" => rows = {})
    BY <1>3, <2>1, NoDrop, PTL
  <2> QED
    BY <1>2, <2>2, PTL DEF B!Spec, B!RowsKept
<1>4. CASE Sqlite = TRUE /\ OneBoots
  <2>1. BInv => \A p \in Process : boot[p].at = "drop" => rows = {}
    BY DEF BInv, Booting
  <2>2. B!Spec => []BInv
    BY <1>4, BootsSafely
  <2> QED
    BY <1>2, <2>1, <2>2, PTL DEF B!Spec, B!RowsKept
<1> QED
  BY <1>3, <1>4 DEF B!SchemaAssumption

-----------------------------------------------------------------------------
(* The developer overrides.                                                *)

CONSTANTS Name, Value, Default, Accepted, MaxJobs, MaxPosts, MaxStops, None

VARIABLES web, pool, devJob, posts, stops

D == INSTANCE DevOverrides WITH job <- devJob

(* A setting of every tunable that _coerce accepts.                        *)
Legal(s) == s \in D!Settings /\ \A n \in Name : s[n] \in Accepted[n]

DevJob ==
  [state : {"unborn", "queued", "running", "done"}, kind : D!Kind \cup {None},
   snapshot : UNION {[S -> Value] : S \in SUBSET Name}, current : D!Settings \cup {None},
   process : Process \cup {None}, used : D!Settings \cup {None}]

(* A job's snapshot is legal; a preprocess has in it whatever was          *)
(* overridden when it was submitted; and it ran under what is in it.       *)
JobOk(d) ==
  /\ \A n \in DOMAIN d.snapshot : d.snapshot[n] \in Accepted[n]
  /\ d.kind = "preprocess" /\ d.state # "unborn" =>
       \A n \in Name : d.current[n] # Default[n] =>
          n \in DOMAIN d.snapshot /\ d.snapshot[n] = d.current[n]
  /\ d.used # None =>
       d.state # "unborn" /\ \A n \in DOMAIN d.snapshot : d.used[n] = d.snapshot[n]
  /\ d.process # None => d.state # "unborn"

DInv ==
  /\ Legal(web)
  /\ pool \in [Process -> D!Settings \cup {None}]
  /\ \A p \in Process : pool[p] # None => Legal(pool[p])
  /\ devJob \in [D!Jobs -> DevJob]
  /\ \A j \in D!Jobs : JobOk(devJob[j])

(* One job becomes d, or none does.                                        *)
LEMMA JobBecomes ==
  ASSUME DInv, NEW j \in D!Jobs, NEW d \in DevJob, devJob' = [devJob EXCEPT ![j] = d], JobOk(d),
         Legal(web)', pool' \in [Process -> D!Settings \cup {None}],
         \A p \in Process : pool'[p] # None => Legal(pool'[p])
  PROVE  DInv'
<1>1. devJob' \in [D!Jobs -> DevJob] /\ \A i \in D!Jobs : devJob'[i] = d \/ devJob'[i] = devJob[i]
  BY DEF DInv
<1>2. \A i \in D!Jobs : JobOk(devJob'[i])
  BY <1>1 DEF DInv
<1> QED
  BY <1>1, <1>2 DEF DInv, JobOk, Legal, D!Settings, D!Jobs

LEMMA UpdatedIsLegal ==
  ASSUME NEW s, Legal(s), NEW o, \A n \in DOMAIN o : o[n] \in Accepted[n], D!DevOverridesAssumption
  PROVE  Legal(D!Updated(s, o)) /\ \A n \in Name : n \in DOMAIN o => D!Updated(s, o)[n] = o[n]
  BY DEF Legal, D!Updated, D!Settings, D!DevOverridesAssumption

LEMMA DefaultIsLegal ==
  ASSUME D!DevOverridesAssumption
  PROVE  Legal(Default) /\ Legal([n \in Name |-> Default[n]])
  BY DEF Legal, D!Settings, D!DevOverridesAssumption

LEMMA SubmitKeeps ==
  ASSUME DInv, NEW j \in D!Jobs, NEW kind \in D!Kind, D!Submit(j, kind)
  PROVE  DInv'
<1> DEFINE taken == IF kind = "preprocess" THEN D!Snapshot ELSE <<>>
           d == [state |-> "queued", kind |-> kind, snapshot |-> taken, current |-> web,
                 process |-> None, used |-> None]
<1>1. web' = web /\ pool' = pool
  BY DEF D!Submit
<1> DEFINE e(x) == [D!Unborn EXCEPT !.state = "queued", !.kind = kind, !.snapshot = x, !.current = web]
<1>a. \A x : e(x) = [state |-> "queued", kind |-> kind, snapshot |-> x, current |-> web,
                    process |-> None, used |-> None]
  <2> SUFFICES ASSUME NEW x
               PROVE  e(x) = [state |-> "queued", kind |-> kind, snapshot |-> x, current |-> web,
                              process |-> None, used |-> None]
    OBVIOUS
  <2> DEFINE u == D!Unborn
  <2>1. u = [state |-> "unborn", kind |-> None, snapshot |-> <<>>, current |-> None,
             process |-> None, used |-> None]
    BY DEF D!Unborn
  <2>2. e(x) = [u EXCEPT !.state = "queued", !.kind = kind, !.snapshot = x, !.current = web]
    OBVIOUS
  <2> HIDE DEF u, e, taken, d
  <2> QED
    BY <2>1, <2>2
<1>b. devJob' = [devJob EXCEPT ![j] = e(taken)]
  BY DEF D!Submit
<1>c. e(taken) = d
  <2> HIDE DEF taken, e
  <2> QED
    BY <1>a
<1>2. devJob' = [devJob EXCEPT ![j] = d]
  <2> HIDE DEF taken, e, d
  <2> QED
    BY <1>b, <1>c
<1> HIDE DEF e
<1>3. web \in D!Settings /\ \A n \in Name : web[n] \in Accepted[n]
  BY DEF DInv, Legal
<1>4. /\ \E S \in SUBSET Name : taken \in [S -> Value]
      /\ \A n \in DOMAIN taken : taken[n] \in Accepted[n]
      /\ kind = "preprocess" => \A n \in Name : web[n] # Default[n] =>
                                 n \in DOMAIN taken /\ taken[n] = web[n]
  <2>1. CASE kind = "preprocess"
    <3>1. taken = [n \in {m \in Name : web[m] # Default[m]} |-> web[n]]
      BY <2>1 DEF D!Snapshot
    <3>2. taken \in [{m \in Name : web[m] # Default[m]} -> Value]
      BY <1>3, <3>1 DEF D!Settings
    <3> QED
      BY <1>3, <3>1, <3>2
  <2>2. CASE kind # "preprocess"
    <3>1. taken = <<>>
      BY <2>2
    <3>2. taken = [n \in {} |-> 0]
      BY <3>1
    <3>3. taken \in [{} -> Value] /\ DOMAIN taken = {}
      BY <3>2
    <3> QED
      BY <2>2, <3>3
  <2> QED
    BY <2>1, <2>2
<1>5. taken \in UNION {[S -> Value] : S \in SUBSET Name}
  BY <1>4
<1> HIDE DEF taken
<1>6. d \in DevJob
  BY <1>3, <1>5 DEF DevJob
<1>7. JobOk(d)
  BY <1>4 DEF JobOk
<1> HIDE DEF d
<1>8. Legal(web)' /\ pool' \in [Process -> D!Settings \cup {None}]
      /\ \A p \in Process : pool'[p] # None => Legal(pool'[p])
  BY <1>1 DEF DInv, Legal
<1> QED
  BY <1>2, <1>6, <1>7, <1>8, JobBecomes

LEMMA RunKeeps ==
  ASSUME DInv, D!DevOverridesAssumption, NEW j \in D!Jobs, NEW p \in Process, D!Run(j, p)
  PROVE  DInv'
<1> DEFINE taken == devJob[j].snapshot
           s == D!Updated(pool[p], taken)
           d == [devJob[j] EXCEPT !.state = "running", !.process = p, !.used = s]
<1>1. web' = web /\ pool' = [pool EXCEPT ![p] = s] /\ pool[p] # None /\ devJob[j].state = "queued"
  BY DEF D!Run, D!Free
<1>2. devJob[j] \in DevJob /\ JobOk(devJob[j]) /\ Legal(pool[p])
      /\ pool \in [Process -> D!Settings \cup {None}]
  BY <1>1 DEF DInv
<1>3. Legal(s) /\ \A n \in Name : n \in DOMAIN taken => s[n] = taken[n]
  BY <1>2, UpdatedIsLegal DEF JobOk
<1>4. s \in D!Settings
  BY <1>3 DEF Legal
<1> HIDE DEF s
<1>5. pool' \in [Process -> D!Settings \cup {None}] /\ pool'[p] = s
      /\ \A q \in Process : q # p => pool'[q] = pool[q]
  BY <1>1, <1>2, <1>4
<1>6. devJob' = [devJob EXCEPT ![j] = d]
  BY <1>5 DEF D!Run, DInv
<1>7. d \in DevJob
  BY <1>2, <1>4 DEF DevJob
<1>8. DOMAIN taken \subseteq Name
  BY <1>2 DEF DevJob
<1>9. /\ d.snapshot = devJob[j].snapshot /\ d.kind = devJob[j].kind
      /\ d.current = devJob[j].current /\ d.state = "running" /\ d.used = s
  BY <1>2 DEF DevJob
<1>10. JobOk(d)
  BY <1>1, <1>2, <1>3, <1>8, <1>9 DEF JobOk
<1> HIDE DEF d
<1>11. Legal(web)' /\ \A q \in Process : pool'[q] # None => Legal(pool'[q])
  <2>1. \A q \in Process : pool'[q] # None => Legal(pool'[q])
    BY <1>3, <1>5 DEF DInv
  <2>2. Legal(web)'
    BY <1>1 DEF DInv, Legal
  <2> QED
    BY <2>1, <2>2
<1> QED
  BY <1>5, <1>6, <1>7, <1>10, <1>11, JobBecomes

LEMMA FinishKeeps ==
  ASSUME DInv, NEW j \in D!Jobs, D!Finish(j)
  PROVE  DInv'
<1> DEFINE d == [devJob[j] EXCEPT !.state = "done", !.process = None]
<1>1. web' = web /\ pool' = pool /\ devJob[j].state = "running"
  BY DEF D!Finish
<1>2. devJob[j] \in DevJob /\ JobOk(devJob[j])
  BY DEF DInv
<1>3. devJob' = [devJob EXCEPT ![j] = d]
  BY DEF D!Finish, DInv
<1>4. d \in DevJob
  BY <1>2 DEF DevJob
<1>5. /\ d.snapshot = devJob[j].snapshot /\ d.kind = devJob[j].kind
      /\ d.process = None
      /\ d.current = devJob[j].current /\ d.state = "done" /\ d.used = devJob[j].used
  BY <1>2 DEF DevJob
<1>6. JobOk(d)
  BY <1>1, <1>2, <1>5 DEF JobOk
<1> HIDE DEF d
<1>7. Legal(web)' /\ pool' \in [Process -> D!Settings \cup {None}]
      /\ \A p \in Process : pool'[p] # None => Legal(pool'[p])
  BY <1>1 DEF DInv, Legal
<1> QED
  BY <1>3, <1>4, <1>6, <1>7, JobBecomes

LEMMA DieKeeps ==
  ASSUME DInv, NEW p \in Process, D!Die(p), None \notin Process
  PROVE  DInv'
<1>1. web' = web /\ pool' = [pool EXCEPT ![p] = None]
  BY DEF D!Die
<1>2. ASSUME NEW j \in D!Jobs PROVE devJob'[j] \in DevJob /\ JobOk(devJob'[j])
  <2> DEFINE d == [devJob[j] EXCEPT !.state = "queued", !.process = None, !.used = None]
  <2>1. devJob'[j] = devJob[j] \/ (devJob[j].process = p /\ devJob'[j] = d)
    BY DEF D!Die
  <2>2. devJob[j] \in DevJob /\ JobOk(devJob[j])
    BY DEF DInv
  <2>3. CASE devJob'[j] = devJob[j]
    BY <2>2, <2>3
  <2>4. CASE devJob[j].process = p /\ devJob'[j] = d
    <3>1. d \in DevJob
      BY <2>2 DEF DevJob
    <3>2. /\ d.snapshot = devJob[j].snapshot /\ d.kind = devJob[j].kind
          /\ d.current = devJob[j].current /\ d.state = "queued" /\ d.used = None
          /\ d.process = None
      BY <2>2 DEF DevJob
    <3>3. devJob[j].state # "unborn" => JobOk(d)
      BY <2>2, <3>2 DEF JobOk
    <3>4. devJob[j].state # "unborn"
      BY <2>2, <2>4 DEF JobOk
    <3> QED
      BY <2>4, <3>1, <3>3, <3>4
  <2> QED
    BY <2>1, <2>3, <2>4
<1>3. devJob' \in [D!Jobs -> DevJob]
  BY <1>2 DEF D!Die
<1>4. \A j \in D!Jobs : JobOk(devJob'[j])
  BY <1>2
<1> QED
  BY <1>1, <1>3, <1>4 DEF DInv, Legal, JobOk, D!Settings, D!Jobs

LEMMA OverridesAreCarried ==
  ASSUME D!DevOverridesAssumption
  PROVE  D!Spec => []DInv
<1>1. D!Init => DInv
  <2> SUFFICES ASSUME D!Init PROVE DInv
    OBVIOUS
  <2>1. web = [n \in Name |-> Default[n]] /\ pool = [p \in Process |-> None]
        /\ devJob = [j \in D!Jobs |-> D!Unborn]
    BY DEF D!Init
  <2>2. <<>> \in [{} -> Value] /\ DOMAIN <<>> = {}
    OBVIOUS
  <2>3. <<>> \in UNION {[S -> Value] : S \in SUBSET Name}
    BY <2>2
  <2>4. D!Unborn \in DevJob
    BY <2>3 DEF D!Unborn, DevJob
  <2>5. JobOk(D!Unborn)
    BY <2>2 DEF JobOk, D!Unborn
  <2>6. Legal(web)
    BY <2>1, DefaultIsLegal
  <2> QED
    BY <2>1, <2>4, <2>5, <2>6 DEF DInv
<1>2. DInv /\ [D!Next]_D!vars => DInv'
  <2> SUFFICES ASSUME DInv, [D!Next]_D!vars PROVE DInv'
    OBVIOUS
  <2>1. ASSUME devJob' = devJob, Legal(web)', pool' \in [Process -> D!Settings \cup {None}],
               \A p \in Process : pool'[p] # None => Legal(pool'[p])
        PROVE  DInv'
    BY <2>1 DEF DInv, Legal, JobOk, D!Settings, D!Jobs
  <2>2. Legal(web) /\ pool \in [Process -> D!Settings \cup {None}]
        /\ \A p \in Process : pool[p] # None => Legal(pool[p])
    BY DEF DInv
  <2>3. CASE UNCHANGED D!vars
    BY <2>1, <2>2, <2>3 DEF D!vars, Legal
  <2>4. ASSUME NEW o \in D!Overrides, D!Apply(o) PROVE DInv'
    <3>1. pool' = pool /\ devJob' = devJob /\ web' = D!Updated(web, o)
          /\ \A n \in DOMAIN o : o[n] \in Accepted[n]
      BY <2>4 DEF D!Apply, D!Valid
    <3>2. Legal(D!Updated(web, o))
      BY <2>2, <3>1, UpdatedIsLegal
    <3>3. Legal(web)'
      BY <3>1, <3>2 DEF Legal
    <3> QED
      BY <2>1, <2>2, <3>1, <3>3
  <2>5. CASE D!Reset \/ D!Restart
    <3>1. pool' = pool /\ devJob' = devJob /\ web' = [n \in Name |-> Default[n]]
      BY <2>5 DEF D!Reset, D!Restart
    <3>2. Legal(web)'
      BY <3>1, DefaultIsLegal DEF Legal
    <3> QED
      BY <2>1, <2>2, <3>1, <3>2
  <2>6. ASSUME NEW p \in Process, D!StartProcess(p) PROVE DInv'
    <3>1. devJob' = devJob /\ web' = web
          /\ \E s \in {web, Default} : pool' = [pool EXCEPT ![p] = s]
      BY <2>6 DEF D!StartProcess
    <3>2. PICK s \in {web, Default} : pool' = [pool EXCEPT ![p] = s]
      BY <3>1
    <3>3. Legal(s) /\ s \in D!Settings
      BY <2>2, DefaultIsLegal DEF Legal
    <3>4. pool' \in [Process -> D!Settings \cup {None}]
          /\ \A q \in Process : pool'[q] # None => Legal(pool'[q])
      BY <2>2, <3>2, <3>3
    <3>5. Legal(web)'
      BY <2>2, <3>1 DEF Legal
    <3> QED
      BY <2>1, <3>1, <3>4, <3>5
  <2>7. CASE D!Next
    <3>1. None \notin Process
      BY DEF D!DevOverridesAssumption
    <3> QED
      BY <2>4, <2>5, <2>6, <2>7, <3>1, SubmitKeeps, RunKeeps, FinishKeeps, DieKeeps DEF D!Next
  <2> QED
    BY <2>3, <2>7
<1> QED
  BY <1>1, <1>2, PTL DEF D!Spec

(* Every tunable has a value that _coerce accepts, in every process         *)
(* (dev_overrides.apply validates, and what a job carries was validated).    *)
THEOREM OverridesInRange ==
  ASSUME D!DevOverridesAssumption
  PROVE  D!Spec => []D!TypeOK
<1>1. DInv => D!TypeOK
  BY DEF DInv, D!TypeOK, Legal, DevJob
<1> QED
  BY <1>1, OverridesAreCarried, PTL

(* Every name that was overridden when a preprocess was submitted has that *)
(* value where the preprocess runs, whatever its process ran before, and   *)
(* if that one died and another took the job.  Of the other names it says   *)
(* nothing: a process keeps what an earlier job set (_preprocess_worker,   *)
(* jobs._current_dev_overrides).                                           *)
THEOREM OverridesAreApplied ==
  ASSUME D!DevOverridesAssumption
  PROVE  D!Spec => []D!OverridesReach
<1>1. DInv => D!OverridesReach
  BY DEF DInv, JobOk, D!OverridesReach, D!Overridden
<1> QED
  BY <1>1, OverridesAreCarried, PTL

-----------------------------------------------------------------------------
(* The template library.                                                   *)

CONSTANTS Class, Custom, Large, Constrained, Shape, Drawing, Replica, MaxTemplates

VARIABLES rev, strategy, template, used, drawing, sides, ready, snap, handler, libraryJob,
          jobs, page, calls

L == INSTANCE TemplateLibrary WITH call <- handler, job <- libraryJob

Strategies == {"none", "chamfer", "signature"}
TemplateRow == [class : Class \cup {None}, shape : Shape \cup {None}]
CallRecord ==
  [step : {"idle", "commit", "commit_class", "delete", "move", "move_class", "strategy"},
   class : Class \cup {None}, shape : Shape \cup {None}, id : 0..MaxTemplates,
   strategy : Strategies, known : SUBSET TemplateRow]
JobRecord ==
  [kind : {"none", "preprocess", "save_match", "done"},
   step : {"none", "parse", "binding", "store", "revision", "classes", "templates", "drawing",
           "put", "apply"},
   drawing : SUBSET Shape, sides : BOOLEAN, rev : Nat, strategy : [Class -> Strategies],
   content : SUBSET ((Class \cup {None}) \X (Shape \cup {None}) \X Strategies)]

LTypes ==
  /\ rev \in Nat
  /\ strategy \in [Class -> Strategies]
  /\ template \in [L!Id -> TemplateRow]
  /\ used \in 0..MaxTemplates
  /\ drawing \in SUBSET Shape /\ sides \in BOOLEAN /\ ready \in BOOLEAN
  /\ snap.rev \in Nat
  /\ handler \in [Replica -> CallRecord]
  /\ libraryJob \in [L!Job -> JobRecord]
  /\ jobs \in Nat
  /\ page.step \in {"closed", "answer", "fresh", "live"}
  /\ page = [step |-> page.step, snap |-> page.snap]

(* A template's class has a row, and a handler only stores one whose class *)
(* has: a row that is added later finds no template of its class.          *)
ClassFirst == \A i \in L!Id : template[i] # L!NoTemplate =>
                template[i].class \in Class /\ strategy[template[i].class] # "none"

CallOk(d, s) ==
  /\ d.step \in {"commit", "commit_class", "move", "move_class", "strategy"} => d.class \in Class
  /\ d.step \in {"commit", "move"} => s[d.class] # "none"
  /\ d.step \in {"commit", "commit_class"} => d.shape \in Shape
  /\ d.step \in {"delete", "move", "move_class"} => d.id \in L!Id
  /\ d.step = "strategy" => d.strategy # "none"

(* The content now is the one x or what an upkeep made of it since.        *)
UpTo(x, now) == now \in {x, L!Upkept(x)}

(* A snapshot of this revision is of the library up to an upkeep.          *)
Fresh(s, r, content) == s.rev \in Nat /\ s.rev <= r /\ (s.rev = r => UpTo(s.content, content))

(* The classes that a job has read are, as far as they have templates, the *)
(* rows or were so until an upkeep.                                        *)
Agree(s, rows_, ts) ==
  \/ \A t \in ts : rows_[t.class] = s[t.class]
  \/ \A t \in ts : rows_[t.class] = L!Upkeep(t.class, s[t.class])

JobFresh(d, r, rows_, ts) ==
  /\ d.step \in {"classes", "templates", "drawing", "put"} => d.rev <= r
  /\ d.step = "templates" /\ d.rev = r => Agree(d.strategy, rows_, ts)
  /\ d.step \in {"drawing", "put"} /\ d.rev = r => UpTo(d.content, L!Matched(ts, rows_))

AllFresh ==
  /\ \A j \in L!Job : JobFresh(libraryJob[j], rev, strategy, L!Templates)
  /\ Fresh(snap, rev, L!Content)
  /\ page.step = "answer" => Fresh(page.snap, rev, L!Content)

LInv ==
  /\ LTypes
  /\ ClassFirst
  /\ \A r \in Replica : CallOk(handler[r], strategy)
  /\ AllFresh

(* What a step may do to the library: nothing, add a class, run an upkeep, *)
(* or change it under the next revision.                                   *)
AddsClass == \E c \in Class : L!UpsertClass(c)
RunsUpkeep == strategy' = [c \in Class |-> L!Upkeep(c, strategy[c])]
LibraryMoves ==
  \/ /\ rev' = rev /\ L!Templates' = L!Templates
     /\ AddsClass \/ RunsUpkeep \/ strategy' = strategy
  \/ rev' = rev + 1

KeepsRows == \A c \in Class : strategy[c] # "none" => strategy'[c] # "none"

LEMMA UpkeepTwice ==
  /\ \A c, n : L!Upkeep(c, L!Upkeep(c, n)) = L!Upkeep(c, n)
  /\ \A x : L!Upkept(L!Upkept(x)) = L!Upkept(x)
<1>1. \A c, n : L!Upkeep(c, L!Upkeep(c, n)) = L!Upkeep(c, n)
  BY DEF L!Upkeep
<1> DEFINE upkeepOf(h) == <<h[1], h[2], L!Upkeep(h[1], h[3])>>
<1>2. ASSUME NEW x PROVE L!Upkept(L!Upkept(x)) = L!Upkept(x)
  <2>1. \A h : upkeepOf(upkeepOf(h)) = upkeepOf(h)
    <3> TAKE h
    <3>1. upkeepOf(h)[1] = h[1] /\ upkeepOf(h)[2] = h[2] /\ upkeepOf(h)[3] = L!Upkeep(h[1], h[3])
      OBVIOUS
    <3> QED
      BY <1>1, <3>1
  <2>2. L!Upkept(x) = {upkeepOf(h) : h \in x} /\ L!Upkept(L!Upkept(x)) = {upkeepOf(h) : h \in L!Upkept(x)}
    BY DEF L!Upkept
  <2> HIDE DEF upkeepOf
  <2> QED
    BY <2>1, <2>2
<1> QED
  BY <1>1, <1>2

LEMMA UpToStays ==
  ASSUME NEW x, NEW now, UpTo(x, now)
  PROVE  UpTo(x, L!Upkept(now))
BY UpkeepTwice DEF UpTo

LEMMA UpkeptMatches ==
  ASSUME NEW s, NEW w, NEW ts, \A t \in ts : w[t.class] = L!Upkeep(t.class, s[t.class])
  PROVE  L!Matched(ts, w) = L!Upkept(L!Matched(ts, s))
<1> DEFINE found(t, v) == <<t.class, t.shape, v>>
           rowed == {t \in ts : s[t.class] # "none"}
<1>1. \A t \in ts : w[t.class] # "none" <=> s[t.class] # "none"
  BY DEF L!Upkeep
<1>2. L!Matched(ts, w) = {found(t, w[t.class]) : t \in rowed}
  BY <1>1 DEF L!Matched
<1>3. L!Matched(ts, s) = {found(t, s[t.class]) : t \in rowed}
  BY DEF L!Matched
<1>4. \A t \in rowed : found(t, w[t.class])
        = LET h == found(t, s[t.class]) IN <<h[1], h[2], L!Upkeep(h[1], h[3])>>
  OBVIOUS
<1> HIDE DEF rowed, found
<1> QED
  BY <1>2, <1>3, <1>4 DEF L!Upkept

LEMMA RowsAgree ==
  ASSUME NEW s, NEW w, NEW ts, Agree(s, w, ts)
  PROVE  UpTo(L!Matched(ts, s), L!Matched(ts, w))
<1>1. CASE \A t \in ts : w[t.class] = s[t.class]
  <2>1. L!Matched(ts, w) = L!Matched(ts, s)
    BY <1>1 DEF L!Matched
  <2> QED
    BY <2>1 DEF UpTo
<1>2. CASE \A t \in ts : w[t.class] = L!Upkeep(t.class, s[t.class])
  BY <1>2, UpkeptMatches DEF UpTo
<1> QED
  BY <1>1, <1>2 DEF Agree

LEMMA OfClass ==
  ASSUME ClassFirst
  PROVE  \A t \in L!Templates : t.class \in Class /\ strategy[t.class] # "none"
  BY DEF ClassFirst, L!Templates

(* What was fresh stays so, or is of an earlier revision.                  *)
LEMMA FreshStays ==
  ASSUME LTypes, ClassFirst, LibraryMoves
  PROVE  /\ \A s : Fresh(s, rev, L!Content) => Fresh(s, rev', L!Content')
         /\ \A d \in JobRecord : JobFresh(d, rev, strategy, L!Templates)
                                   => JobFresh(d, rev', strategy', L!Templates')
<1>1. rev \in Nat /\ strategy \in [Class -> Strategies]
  BY DEF LTypes
<1>2. CASE rev' = rev + 1
  <2>1. \A n \in Nat : n <= rev => n <= rev' /\ n # rev'
    BY <1>1, <1>2
  <2>2. \A s : Fresh(s, rev, L!Content) => Fresh(s, rev', L!Content')
    BY <2>1 DEF Fresh
  <2>3. ASSUME NEW d \in JobRecord, JobFresh(d, rev, strategy, L!Templates)
        PROVE  JobFresh(d, rev', strategy', L!Templates')
    BY <2>1, <2>3 DEF JobFresh, JobRecord
  <2> QED
    BY <2>2, <2>3
<1>3. CASE rev' = rev /\ L!Templates' = L!Templates /\ AddsClass
  <2>1. PICK c \in Class : strategy' = [strategy EXCEPT ![c] = IF strategy[c] = "none"
                                                               THEN "chamfer" ELSE strategy[c]]
    BY <1>3 DEF AddsClass, L!UpsertClass
  <2>2. \A t \in L!Templates : strategy'[t.class] = strategy[t.class]
    BY <1>1, <2>1, OfClass
  <2>3. L!Matched(L!Templates, strategy') = L!Matched(L!Templates, strategy)
    BY <2>2 DEF L!Matched
  <2>4. L!Content' = L!Content
    BY <1>3, <2>3 DEF L!Content
  <2>5. ASSUME NEW s, Agree(s, strategy, L!Templates) PROVE Agree(s, strategy', L!Templates)
    BY <2>2, <2>5 DEF Agree
  <2>6. ASSUME NEW d \in JobRecord, JobFresh(d, rev, strategy, L!Templates)
        PROVE  JobFresh(d, rev', strategy', L!Templates')
    BY <1>3, <2>3, <2>5, <2>6 DEF JobFresh
  <2> QED
    BY <1>3, <2>4, <2>6
<1>4. CASE rev' = rev /\ L!Templates' = L!Templates /\ RunsUpkeep
  <2>1. \A t \in L!Templates : strategy'[t.class] = L!Upkeep(t.class, strategy[t.class])
    BY <1>4, OfClass DEF RunsUpkeep
  <2>2. L!Matched(L!Templates, strategy') = L!Upkept(L!Matched(L!Templates, strategy))
    BY <2>1, UpkeptMatches
  <2>3. L!Content' = L!Upkept(L!Content)
    BY <1>4, <2>2 DEF L!Content
  <2>4. \A s : Fresh(s, rev, L!Content) => Fresh(s, rev', L!Content')
    BY <1>4, <2>3, UpToStays DEF Fresh
  <2>5. ASSUME NEW s, Agree(s, strategy, L!Templates) PROVE Agree(s, strategy', L!Templates)
    BY <2>1, <2>5, UpkeepTwice DEF Agree
  <2>6. ASSUME NEW d \in JobRecord, JobFresh(d, rev, strategy, L!Templates)
        PROVE  JobFresh(d, rev', strategy', L!Templates')
    BY <1>4, <2>2, <2>5, <2>6, UpToStays DEF JobFresh
  <2> QED
    BY <2>4, <2>6
<1>5. CASE rev' = rev /\ strategy' = strategy /\ L!Templates' = L!Templates
  <2>1. L!Content' = L!Content
    BY <1>5 DEF L!Content
  <2> QED
    BY <1>5, <2>1
<1> QED
  BY <1>2, <1>3, <1>4, <1>5 DEF LibraryMoves

(* A handler goes on to d and may move the library.                        *)
LEMMA HandlerMoves ==
  ASSUME LInv, NEW r \in Replica, NEW d \in CallRecord, CallOk(d, strategy'),
         handler' = [handler EXCEPT ![r] = d],
         UNCHANGED <<L!file, snap, libraryJob, jobs, page>>,
         rev' \in Nat, strategy' \in [Class -> Strategies],
         template' \in [L!Id -> TemplateRow], used' \in 0..MaxTemplates,
         ClassFirst', KeepsRows, LibraryMoves
  PROVE  LInv'
<1>1. LTypes /\ ClassFirst
  BY DEF LInv
<1>2. /\ drawing' = drawing /\ sides' = sides /\ ready' = ready /\ snap' = snap
      /\ libraryJob' = libraryJob /\ jobs' = jobs /\ page' = page
  BY DEF L!file
<1>3. handler' \in [Replica -> CallRecord]
      /\ \A q \in Replica : handler'[q] = d \/ handler'[q] = handler[q]
  BY <1>1 DEF LTypes
<1>4. LTypes'
  BY <1>1, <1>2, <1>3 DEF LTypes, L!Id, L!Job, TemplateRow, JobRecord, CallRecord
<1>5. ASSUME NEW q \in Replica PROVE CallOk(handler'[q], strategy')
  <2>1. CallOk(handler[q], strategy)
    BY DEF LInv
  <2>2. CallOk(handler[q], strategy) => CallOk(handler[q], strategy')
    BY DEF CallOk, KeepsRows
  <2> QED
    BY <1>3, <2>1, <2>2
<1>6. AllFresh'
  <2>1. AllFresh
    BY DEF LInv
  <2>2. \A j \in L!Job : libraryJob[j] \in JobRecord
    BY <1>1 DEF LTypes
  <2>3. \A j \in L!Job : JobFresh(libraryJob'[j], rev', strategy', L!Templates')
    BY <1>1, <1>2, <2>1, <2>2, FreshStays DEF AllFresh
  <2>4. Fresh(snap', rev', L!Content')
    BY <1>1, <1>2, <2>1, FreshStays DEF AllFresh
  <2>5. page'.step = "answer" => Fresh(page'.snap, rev', L!Content')
    BY <1>1, <1>2, <2>1, FreshStays DEF AllFresh
  <2> QED
    BY <2>3, <2>4, <2>5 DEF AllFresh, L!Job
<1>7. \A q \in Replica : CallOk(handler[q], strategy)'
  BY <1>5 DEF CallOk, L!Id
<1> QED
  BY <1>4, <1>6, <1>7 DEF LInv

(* A job goes on to d: the library rests, or an upkeep runs.               *)
LEMMA JobMoves ==
  ASSUME LInv, NEW j \in L!Job, NEW d \in JobRecord, libraryJob' = [libraryJob EXCEPT ![j] = d],
         UNCHANGED <<rev, template, used, handler>>,
         strategy' \in [Class -> Strategies], KeepsRows, LibraryMoves,
         drawing' \in SUBSET Shape, sides' \in BOOLEAN, ready' \in BOOLEAN, jobs' \in Nat,
         snap'.rev \in Nat, page' = page,
         JobFresh(d, rev, strategy, L!Templates), Fresh(snap', rev, L!Content)
  PROVE  LInv'
<1>1. LTypes /\ ClassFirst
  BY DEF LInv
<1>2. rev' = rev /\ template' = template /\ used' = used /\ handler' = handler
  OBVIOUS
<1>3. libraryJob' \in [L!Job -> JobRecord]
      /\ \A i \in L!Job : libraryJob'[i] = d \/ libraryJob'[i] = libraryJob[i]
  BY <1>1 DEF LTypes
<1>4. LTypes'
  BY <1>1, <1>2, <1>3 DEF LTypes, L!Id, L!Job, TemplateRow, JobRecord, CallRecord
<1>5. ClassFirst'
  BY <1>1, <1>2 DEF ClassFirst, KeepsRows, L!Id, L!NoTemplate
<1>6. ASSUME NEW q \in Replica PROVE CallOk(handler[q], strategy)'
  <2>1. CallOk(handler[q], strategy)
    BY DEF LInv
  <2>2. CallOk(handler[q], strategy) => CallOk(handler[q], strategy')
    BY DEF CallOk, KeepsRows
  <2> QED
    BY <1>2, <2>1, <2>2 DEF CallOk, L!Id
<1>7. AllFresh'
  <2>1. AllFresh
    BY DEF LInv
  <2>2. \A i \in L!Job : libraryJob[i] \in JobRecord
    BY <1>1 DEF LTypes
  <2>3. \A i \in L!Job : JobFresh(libraryJob'[i], rev', strategy', L!Templates')
    BY <1>1, <1>3, <2>1, <2>2, FreshStays DEF AllFresh
  <2>4. Fresh(snap', rev', L!Content')
    BY <1>1, FreshStays
  <2>5. page'.step = "answer" => Fresh(page'.snap, rev', L!Content')
    BY <1>1, <2>1, FreshStays DEF AllFresh
  <2> QED
    BY <2>3, <2>4, <2>5 DEF AllFresh, L!Job
<1> QED
  BY <1>4, <1>5, <1>6, <1>7 DEF LInv

(* The library as it is.                                                   *)
LEMMA LibraryRests ==
  ASSUME LInv, UNCHANGED L!lib
  PROVE  /\ rev' \in Nat /\ strategy' \in [Class -> Strategies]
         /\ template' \in [L!Id -> TemplateRow] /\ used' \in 0..MaxTemplates
         /\ ClassFirst' /\ KeepsRows /\ LibraryMoves /\ strategy' = strategy
<1>1. rev' = rev /\ strategy' = strategy /\ template' = template /\ used' = used
  BY DEF L!lib
<1> QED
  BY <1>1 DEF LInv, LTypes, ClassFirst, KeepsRows, LibraryMoves, L!Templates, L!Id, L!NoTemplate,
              TemplateRow

LEMMA IdleCall ==
  ASSUME L!ConstantsAssumption
  PROVE  /\ L!NoCall \in CallRecord
         /\ L!NoCall = [step |-> "idle", class |-> None, shape |-> None, id |-> 0,
                        strategy |-> "none", known |-> {}]
         /\ \A s : CallOk(L!NoCall, s)
  BY DEF L!ConstantsAssumption, L!NoCall, CallRecord, Strategies, CallOk

(* What a request begins.                                                  *)
LEMMA RequestBegins ==
  ASSUME LInv, L!ConstantsAssumption, NEW r \in Replica, NEW d \in CallRecord,
         CallOk(d, strategy), handler' = [handler EXCEPT ![r] = d],
         UNCHANGED <<L!lib, L!file, snap, libraryJob, jobs, page>>
  PROVE  LInv'
<1>1. UNCHANGED L!lib /\ UNCHANGED <<L!file, snap, libraryJob, jobs, page>>
  OBVIOUS
<1>2. CallOk(d, strategy')
  BY <1>1, LibraryRests
<1> QED
  BY <1>1, <1>2, LibraryRests, HandlerMoves

LEMMA Requests ==
  ASSUME LInv, L!ConstantsAssumption, NEW r \in Replica,
         \/ \E c \in Class, s \in Shape : L!RequestCommit(r, c, s)
         \/ \E i \in L!Id : L!RequestDelete(r, i) \/ (\E c \in Class : L!RequestMove(r, i, c))
         \/ \E c \in Class, s \in {"chamfer", "signature"} : L!RequestStrategy(r, c, s)
  PROVE  LInv'
<1>t. L!Templates \subseteq TemplateRow /\ L!Id \subseteq 0..MaxTemplates
  BY DEF LInv, LTypes, L!Templates, L!Id
<1>1. ASSUME NEW c \in Class, NEW s \in Shape, L!RequestCommit(r, c, s) PROVE LInv'
  <2> DEFINE st == IF L!HasRow(c) THEN "commit" ELSE "commit_class"
             d == [step |-> st, class |-> c, shape |-> s, id |-> 0,
                   strategy |-> "none", known |-> L!Templates]
             e == [L!NoCall EXCEPT !.step = st, !.class = c, !.shape = s, !.known = L!Templates]
  <2>1. st \in {"commit", "commit_class"} /\ (st = "commit" => strategy[c] # "none")
    BY DEF L!HasRow
  <2>2. handler' = [handler EXCEPT ![r] = e]
        /\ UNCHANGED <<L!lib, L!file, snap, libraryJob, jobs, page>>
    BY <1>1 DEF L!RequestCommit, L!Begin
  <2> HIDE DEF st
  <2>3. e = d
    <3> DEFINE u == L!NoCall
    <3>1. u = [step |-> "idle", class |-> None, shape |-> None, id |-> 0,
               strategy |-> "none", known |-> {}]
      BY IdleCall
    <3>2. e = [u EXCEPT !.step = st, !.class = c, !.shape = s, !.known = L!Templates]
      OBVIOUS
    <3> HIDE DEF u, e
    <3> QED
      BY <3>1, <3>2
  <2>4. d \in CallRecord
    BY <1>t, <2>1 DEF CallRecord, Strategies, L!ConstantsAssumption
  <2>5. CallOk(d, strategy)
    BY <2>1 DEF CallOk
  <2> HIDE DEF d, e
  <2> QED
    BY <2>2, <2>3, <2>4, <2>5, RequestBegins
<1>2. ASSUME NEW i \in L!Id, L!RequestDelete(r, i) PROVE LInv'
  <2> DEFINE d == [step |-> "delete", class |-> None, shape |-> None, id |-> i,
                   strategy |-> "none", known |-> {}]
             e == [L!NoCall EXCEPT !.step = "delete", !.id = i]
  <2>2. handler' = [handler EXCEPT ![r] = e]
        /\ UNCHANGED <<L!lib, L!file, snap, libraryJob, jobs, page>>
    BY <1>2 DEF L!RequestDelete, L!Begin
  <2>3. e = d
    <3> DEFINE u == L!NoCall
    <3>1. u = [step |-> "idle", class |-> None, shape |-> None, id |-> 0,
               strategy |-> "none", known |-> {}]
      BY IdleCall
    <3>2. e = [u EXCEPT !.step = "delete", !.id = i]
      OBVIOUS
    <3> HIDE DEF u, e
    <3> QED
      BY <3>1, <3>2
  <2>4. d \in CallRecord
    BY <1>t DEF CallRecord, Strategies
  <2>5. CallOk(d, strategy)
    BY DEF CallOk
  <2> HIDE DEF d, e
  <2> QED
    BY <2>2, <2>3, <2>4, <2>5, RequestBegins
<1>3. ASSUME NEW i \in L!Id, NEW c \in Class, L!RequestMove(r, i, c) PROVE LInv'
  <2> DEFINE st == IF L!HasRow(c) THEN "move" ELSE "move_class"
             d == [step |-> st, class |-> c, shape |-> None, id |-> i,
                   strategy |-> "none", known |-> {}]
             e == [L!NoCall EXCEPT !.step = st, !.id = i, !.class = c]
  <2>1. st \in {"move", "move_class"} /\ (st = "move" => strategy[c] # "none")
    BY DEF L!HasRow
  <2>2. handler' = [handler EXCEPT ![r] = e]
        /\ UNCHANGED <<L!lib, L!file, snap, libraryJob, jobs, page>>
    BY <1>3 DEF L!RequestMove, L!Begin
  <2> HIDE DEF st
  <2>3. e = d
    <3> DEFINE u == L!NoCall
    <3>1. u = [step |-> "idle", class |-> None, shape |-> None, id |-> 0,
               strategy |-> "none", known |-> {}]
      BY IdleCall
    <3>2. e = [u EXCEPT !.step = st, !.id = i, !.class = c]
      OBVIOUS
    <3> HIDE DEF u, e
    <3> QED
      BY <3>1, <3>2
  <2>4. d \in CallRecord
    BY <1>t, <2>1 DEF CallRecord, Strategies
  <2>5. CallOk(d, strategy)
    BY <2>1 DEF CallOk
  <2> HIDE DEF d, e
  <2> QED
    BY <2>2, <2>3, <2>4, <2>5, RequestBegins
<1>4. ASSUME NEW c \in Class, NEW s \in {"chamfer", "signature"}, L!RequestStrategy(r, c, s)
      PROVE  LInv'
  <2> DEFINE d == [step |-> "strategy", class |-> c, shape |-> None, id |-> 0,
                   strategy |-> s, known |-> {}]
             e == [L!NoCall EXCEPT !.step = "strategy", !.class = c, !.strategy = s]
  <2>2. handler' = [handler EXCEPT ![r] = e]
        /\ UNCHANGED <<L!lib, L!file, snap, libraryJob, jobs, page>>
    BY <1>4 DEF L!RequestStrategy, L!Begin
  <2>3. e = d
    <3> DEFINE u == L!NoCall
    <3>1. u = [step |-> "idle", class |-> None, shape |-> None, id |-> 0,
               strategy |-> "none", known |-> {}]
      BY IdleCall
    <3>2. e = [u EXCEPT !.step = "strategy", !.class = c, !.strategy = s]
      OBVIOUS
    <3> HIDE DEF u, e
    <3> QED
      BY <3>1, <3>2
  <2>4. d \in CallRecord
    BY DEF CallRecord, Strategies, L!ConstantsAssumption
  <2>5. CallOk(d, strategy)
    BY DEF CallOk
  <2> HIDE DEF d, e
  <2> QED
    BY <2>2, <2>3, <2>4, <2>5, RequestBegins
<1> QED
  BY <1>1, <1>2, <1>3, <1>4

(* upsert_class is not asked of a class that it could change a template of. *)
LEMMA AddClassKeeps ==
  ASSUME LInv, L!ConstantsAssumption, NEW r \in Replica,
         L!AddClassForCommit(r) \/ L!AddClassForMove(r)
  PROVE  LInv'
<1> DEFINE c == handler[r].class
           st == IF handler[r].step = "commit_class" THEN "commit" ELSE "move"
           d == [handler[r] EXCEPT !.step = st]
<1>1. handler \in [Replica -> CallRecord] /\ handler[r] \in CallRecord /\ CallOk(handler[r], strategy)
      /\ strategy \in [Class -> Strategies]
  BY DEF LInv, LTypes
<1>2. /\ handler[r].step \in {"commit_class", "move_class"} /\ L!UpsertClass(c)
      /\ handler' = [handler EXCEPT ![r].step = st]
      /\ rev' = rev /\ template' = template /\ used' = used
      /\ UNCHANGED <<L!file, snap, libraryJob, jobs, page>>
  BY DEF L!AddClassForCommit, L!AddClassForMove, L!At, L!Goto
<1>3. st \in {"commit", "move"} /\ c \in Class
      /\ (st = "commit" => handler[r].step = "commit_class")
      /\ (st = "move" => handler[r].step = "move_class")
  BY <1>1, <1>2 DEF CallOk
<1> HIDE DEF st
<1>4. handler' = [handler EXCEPT ![r] = d]
  BY <1>1, <1>2
<1>5. d \in CallRecord
  BY <1>1, <1>3 DEF CallRecord
<1>6. strategy' = [strategy EXCEPT ![c] = IF strategy[c] = "none" THEN "chamfer" ELSE strategy[c]]
  BY <1>2 DEF L!UpsertClass
<1>7. strategy' \in [Class -> Strategies] /\ KeepsRows /\ strategy'[c] # "none"
  <2>1. strategy' \in [Class -> Strategies]
    BY <1>1, <1>6 DEF Strategies
  <2>2. \A k \in Class : strategy'[k] = strategy[k] \/ strategy'[k] = "chamfer"
    BY <1>1, <1>6
  <2>3. strategy'[c] # "none"
    BY <1>1, <1>3, <1>6
  <2> QED
    BY <2>1, <2>2, <2>3 DEF KeepsRows
<1>8. L!Templates' = L!Templates
  BY <1>2 DEF L!Templates, L!Id, L!NoTemplate
<1>9. LibraryMoves
  BY <1>2, <1>3, <1>8 DEF LibraryMoves, AddsClass
<1>10. ClassFirst'
  BY <1>2, <1>7 DEF LInv, ClassFirst, KeepsRows, L!Id, L!NoTemplate
<1>11. /\ d.step = st /\ d.class = c /\ d.shape = handler[r].shape /\ d.id = handler[r].id
  BY <1>1 DEF CallRecord
<1>12. CallOk(d, strategy')
  BY <1>1, <1>3, <1>7, <1>11 DEF CallOk
<1>13. rev' \in Nat /\ template' \in [L!Id -> TemplateRow] /\ used' \in 0..MaxTemplates
  BY <1>2 DEF LInv, LTypes
<1> HIDE DEF d, c
<1> QED
  BY <1>2, <1>4, <1>5, <1>7, <1>9, <1>10, <1>12, <1>13, HandlerMoves

(* The transactions, each with a new revision or none at all.              *)
LEMMA Returns ==
  ASSUME LInv, L!ConstantsAssumption, NEW r \in Replica, L!Return(r),
         UNCHANGED <<L!file, snap, libraryJob, jobs, page>>,
         rev' \in Nat, strategy' \in [Class -> Strategies],
         template' \in [L!Id -> TemplateRow], used' \in 0..MaxTemplates,
         ClassFirst', KeepsRows, LibraryMoves
  PROVE  LInv'
<1>1. handler' = [handler EXCEPT ![r] = L!NoCall]
  BY DEF L!Return
<1>2. L!NoCall \in CallRecord /\ CallOk(L!NoCall, strategy')
  BY IdleCall
<1> DEFINE d == L!NoCall
<1>3. d \in CallRecord /\ CallOk(d, strategy') /\ handler' = [handler EXCEPT ![r] = d]
  BY <1>1, <1>2
<1> HIDE DEF d
<1> QED
  BY <1>3, HandlerMoves

LEMMA NoLibraryChange ==
  ASSUME LInv, L!ConstantsAssumption, NEW r \in Replica, L!Return(r),
         UNCHANGED <<L!lib, L!file, snap, libraryJob, jobs, page>>
  PROVE  LInv'
<1>1. UNCHANGED L!lib /\ UNCHANGED <<L!file, snap, libraryJob, jobs, page>>
  OBVIOUS
<1> QED
  BY <1>1, LibraryRests, Returns

LEMMA InsertKeeps ==
  ASSUME LInv, L!ConstantsAssumption, NEW r \in Replica, L!InsertTemplate(r)
  PROVE  LInv'
<1> DEFINE new == [class |-> handler[r].class, shape |-> handler[r].shape]
<1>1. handler[r].step = "commit" /\ L!Return(r) /\ strategy' = strategy
      /\ UNCHANGED <<L!file, snap, libraryJob, jobs, page>>
  BY DEF L!InsertTemplate, L!At
<1>2. LTypes /\ ClassFirst /\ CallOk(handler[r], strategy)
  BY DEF LInv
<1>3. handler[r].class \in Class /\ strategy[handler[r].class] # "none" /\ handler[r].shape \in Shape
  BY <1>1, <1>2 DEF CallOk
<1>4. CASE new \in handler[r].known
  <2>1. UNCHANGED <<template, used, rev>>
    BY <1>4 DEF L!InsertTemplate
  <2> QED
    BY <1>1, <2>1, NoLibraryChange DEF L!lib
<1>5. CASE new \notin handler[r].known
  <2>1. used < MaxTemplates /\ template' = [template EXCEPT ![used + 1] = new]
        /\ used' = used + 1 /\ rev' = rev + 1
    BY <1>5 DEF L!InsertTemplate
  <2>2. used + 1 \in L!Id /\ used' \in 0..MaxTemplates /\ rev' \in Nat
    BY <1>2, <2>1 DEF LTypes, L!Id, L!ConstantsAssumption
  <2>3. new \in TemplateRow /\ new.class = handler[r].class
    BY <1>3 DEF TemplateRow
  <2> HIDE DEF new
  <2>4. template' \in [L!Id -> TemplateRow]
        /\ \A i \in L!Id : template'[i] = template[i] \/ template'[i] = new
    BY <1>2, <2>1, <2>2, <2>3 DEF LTypes
  <2>5. ClassFirst'
    <3>1. \A i \in L!Id : template'[i] # L!NoTemplate =>
            template'[i].class \in Class /\ strategy[template'[i].class] # "none"
      BY <1>2, <1>3, <2>3, <2>4 DEF ClassFirst
    <3> QED
      BY <1>1, <3>1 DEF ClassFirst, L!Id, L!NoTemplate
  <2>6. KeepsRows /\ LibraryMoves /\ strategy' \in [Class -> Strategies]
    BY <1>1, <1>2, <2>1 DEF KeepsRows, LibraryMoves, LTypes
  <2> QED
    BY <1>1, <2>2, <2>4, <2>5, <2>6, Returns
<1> QED
  BY <1>4, <1>5

LEMMA DeleteKeeps ==
  ASSUME LInv, L!ConstantsAssumption, NEW r \in Replica, L!DeleteTemplate(r)
  PROVE  LInv'
<1> DEFINE i == handler[r].id
<1>1. handler[r].step = "delete" /\ L!Return(r) /\ strategy' = strategy /\ used' = used
      /\ UNCHANGED <<L!file, snap, libraryJob, jobs, page>>
  BY DEF L!DeleteTemplate, L!At
<1>2. LTypes /\ ClassFirst /\ CallOk(handler[r], strategy)
  BY DEF LInv
<1>3. CASE template[i] = L!NoTemplate
  <2>1. UNCHANGED <<template, rev>>
    BY <1>3 DEF L!DeleteTemplate
  <2> QED
    BY <1>1, <2>1, NoLibraryChange DEF L!lib
<1>4. CASE template[i] # L!NoTemplate
  <2>1. template' = [template EXCEPT ![i] = L!NoTemplate] /\ rev' = rev + 1
    BY <1>4 DEF L!DeleteTemplate
  <2>2. L!NoTemplate \in TemplateRow
    BY DEF L!NoTemplate, TemplateRow
  <2>3. template' \in [L!Id -> TemplateRow]
        /\ \A k \in L!Id : template'[k] = template[k] \/ template'[k] = L!NoTemplate
    BY <1>2, <2>1, <2>2 DEF LTypes
  <2>5. ClassFirst'
    <3>1. \A k \in L!Id : template'[k] # L!NoTemplate =>
            template'[k].class \in Class /\ strategy[template'[k].class] # "none"
      BY <1>2, <2>3 DEF ClassFirst
    <3> QED
      BY <1>1, <3>1 DEF ClassFirst, L!Id, L!NoTemplate
  <2>6. KeepsRows /\ LibraryMoves /\ strategy' \in [Class -> Strategies] /\ rev' \in Nat
        /\ used' \in 0..MaxTemplates
    BY <1>1, <1>2, <2>1 DEF KeepsRows, LibraryMoves, LTypes
  <2> QED
    BY <1>1, <2>3, <2>5, <2>6, Returns
<1> QED
  BY <1>3, <1>4

LEMMA MoveKeeps ==
  ASSUME LInv, L!ConstantsAssumption, NEW r \in Replica, L!MoveTemplate(r)
  PROVE  LInv'
<1> DEFINE i == handler[r].id
           c == handler[r].class
           new == [template[i] EXCEPT !.class = c]
<1>1. handler[r].step = "move" /\ L!Return(r) /\ strategy' = strategy /\ used' = used
      /\ UNCHANGED <<L!file, snap, libraryJob, jobs, page>>
  BY DEF L!MoveTemplate, L!At
<1>2. LTypes /\ ClassFirst /\ CallOk(handler[r], strategy)
  BY DEF LInv
<1>3. CASE template[i] = L!NoTemplate
  <2>1. UNCHANGED <<template, rev>>
    BY <1>3 DEF L!MoveTemplate
  <2> QED
    BY <1>1, <2>1, NoLibraryChange DEF L!lib
<1>4. CASE template[i] # L!NoTemplate
  <2>1. template' = [template EXCEPT ![i].class = c] /\ rev' = rev + 1
    BY <1>4 DEF L!MoveTemplate
  <2>2. c \in Class /\ strategy[c] # "none" /\ i \in L!Id /\ template[i] \in TemplateRow
    BY <1>1, <1>2 DEF CallOk, LTypes
  <2>3. new \in TemplateRow /\ new.class = c
    BY <2>2 DEF TemplateRow
  <2>4. template' = [template EXCEPT ![i] = new]
    BY <2>1
  <2> HIDE DEF new
  <2>5. template' \in [L!Id -> TemplateRow]
        /\ \A k \in L!Id : template'[k] = template[k] \/ template'[k] = new
    BY <1>2, <2>3, <2>4 DEF LTypes
  <2>6. ClassFirst'
    <3>1. \A k \in L!Id : template'[k] # L!NoTemplate =>
            template'[k].class \in Class /\ strategy[template'[k].class] # "none"
      BY <1>2, <2>2, <2>3, <2>5 DEF ClassFirst
    <3> QED
      BY <1>1, <3>1 DEF ClassFirst, L!Id, L!NoTemplate
  <2>7. KeepsRows /\ LibraryMoves /\ strategy' \in [Class -> Strategies] /\ rev' \in Nat
        /\ used' \in 0..MaxTemplates
    BY <1>1, <1>2, <2>1 DEF KeepsRows, LibraryMoves, LTypes
  <2> QED
    BY <1>1, <2>5, <2>6, <2>7, Returns
<1> QED
  BY <1>3, <1>4

LEMMA SetStrategyKeeps ==
  ASSUME LInv, L!ConstantsAssumption, NEW r \in Replica, L!SetStrategy(r)
  PROVE  LInv'
<1>1. /\ handler[r].step = "strategy" /\ L!Return(r) /\ used' = used /\ template' = template
      /\ rev' = rev + 1 /\ strategy' = [strategy EXCEPT ![handler[r].class] = handler[r].strategy]
      /\ UNCHANGED <<L!file, snap, libraryJob, jobs, page>>
  BY DEF L!SetStrategy, L!At
<1>2. LTypes /\ ClassFirst /\ CallOk(handler[r], strategy) /\ handler[r] \in CallRecord
  BY DEF LInv, LTypes
<1>3. handler[r].strategy \in Strategies \ {"none"} /\ handler[r].class \in Class
  BY <1>1, <1>2 DEF CallOk, CallRecord
<1>4. strategy' \in [Class -> Strategies] /\ KeepsRows
  BY <1>1, <1>2, <1>3 DEF LTypes, KeepsRows
<1>5. ClassFirst'
  BY <1>1, <1>2, <1>4 DEF ClassFirst, KeepsRows, L!Id, L!NoTemplate
<1>6. LibraryMoves /\ rev' \in Nat /\ used' \in 0..MaxTemplates
      /\ template' \in [L!Id -> TemplateRow]
  BY <1>1, <1>2 DEF LibraryMoves, LTypes
<1> QED
  BY <1>1, <1>4, <1>5, <1>6, Returns

(* Jobs.                                                                   *)
LEMMA NoJobRecord ==
  /\ L!NoJob \in JobRecord
  /\ L!NoJob = [kind |-> "none", step |-> "none", drawing |-> {}, sides |-> FALSE, rev |-> 0,
                strategy |-> [c \in Class |-> "none"], content |-> {}]
<1>1. [c \in Class |-> "none"] \in [Class -> Strategies]
  BY DEF Strategies
<1> QED
  BY <1>1 DEF L!NoJob, JobRecord

(* The library rests while a job goes on to d, with or without a snapshot. *)
LEMMA JobReads ==
  ASSUME LInv, NEW j \in L!Job, NEW d \in JobRecord, libraryJob' = [libraryJob EXCEPT ![j] = d],
         UNCHANGED <<L!lib, handler, page>>,
         drawing' \in SUBSET Shape, sides' \in BOOLEAN, ready' \in BOOLEAN, jobs' \in Nat,
         snap' = snap,
         JobFresh(d, rev, strategy, L!Templates)
  PROVE  LInv'
<1>1. UNCHANGED L!lib /\ UNCHANGED <<handler, page>>
  OBVIOUS
<1>2. UNCHANGED <<rev, template, used, handler>> /\ page' = page /\ strategy' = strategy
  BY <1>1 DEF L!lib
<1>3. snap'.rev \in Nat
  BY DEF LInv, LTypes
<1>4. Fresh(snap', rev, L!Content)
  BY DEF LInv, AllFresh
<1> QED
  BY <1>1, <1>2, <1>3, <1>4, LibraryRests, JobMoves

LEMMA SubmitJobKeeps ==
  ASSUME LInv, L!ConstantsAssumption,
         (\E d \in Drawing : L!SubmitPreprocess(d)) \/ L!SubmitSaveMatch
  PROVE  LInv'
<1> DEFINE rec(k, st, b) ==
             [kind |-> k, step |-> st, drawing |-> b, sides |-> FALSE, rev |-> 0,
              strategy |-> [c \in Class |-> "none"], content |-> {}]
<1>1. LTypes
  BY DEF LInv
<1>2. jobs < MaxJobs => jobs + 1 \in L!Job /\ jobs + 1 \in Nat
  BY <1>1 DEF LTypes, L!Job, L!ConstantsAssumption
<1>3. [c \in Class |-> "none"] \in [Class -> Strategies]
  BY DEF Strategies
<1>4. ASSUME NEW b \in SUBSET Shape PROVE rec("preprocess", "parse", b) \in JobRecord
  BY <1>3 DEF JobRecord
<1>5. rec("save_match", "binding", {}) \in JobRecord
  BY <1>3 DEF JobRecord
<1>6. ASSUME NEW b PROVE JobFresh(rec("preprocess", "parse", b), rev, strategy, L!Templates)
                          /\ JobFresh(rec("save_match", "binding", b), rev, strategy, L!Templates)
  BY DEF JobFresh
<1>7. ASSUME NEW b \in Drawing, L!SubmitPreprocess(b) PROVE LInv'
  <2> DEFINE e == [L!NoJob EXCEPT !.kind = "preprocess", !.step = "parse", !.drawing = b]
             d == rec("preprocess", "parse", b)
  <2>1. libraryJob' = [libraryJob EXCEPT ![jobs + 1] = e] /\ jobs < MaxJobs
        /\ jobs' = jobs + 1 /\ ready' = FALSE /\ drawing' = drawing /\ sides' = sides
        /\ snap' = snap /\ UNCHANGED <<L!lib, handler, page>>
    BY <1>7 DEF L!SubmitPreprocess
  <2>2. e = d
    <3> DEFINE u == L!NoJob
    <3>1. u = [kind |-> "none", step |-> "none", drawing |-> {}, sides |-> FALSE, rev |-> 0,
               strategy |-> [c \in Class |-> "none"], content |-> {}]
      BY NoJobRecord
    <3>2. e = [u EXCEPT !.kind = "preprocess", !.step = "parse", !.drawing = b]
      OBVIOUS
    <3> HIDE DEF u, e
    <3> QED
      BY <3>1, <3>2
  <2>3. b \in SUBSET Shape
    BY DEF L!ConstantsAssumption
  <2>4. d \in JobRecord /\ JobFresh(d, rev, strategy, L!Templates)
    BY <1>4, <1>6, <2>3
  <2>5. drawing' \in SUBSET Shape /\ sides' \in BOOLEAN /\ ready' \in BOOLEAN /\ jobs' \in Nat
    BY <1>1, <1>2, <2>1 DEF LTypes
  <2> HIDE DEF d, e
  <2> QED
    BY <1>2, <2>1, <2>2, <2>4, <2>5, JobReads
<1>8. ASSUME L!SubmitSaveMatch PROVE LInv'
  <2> DEFINE e == [L!NoJob EXCEPT !.kind = "save_match", !.step = "binding"]
             d == rec("save_match", "binding", {})
  <2>1. libraryJob' = [libraryJob EXCEPT ![jobs + 1] = e] /\ jobs < MaxJobs
        /\ jobs' = jobs + 1 /\ ready' = ready /\ drawing' = drawing /\ sides' = sides
        /\ snap' = snap /\ UNCHANGED <<L!lib, handler, page>>
    BY <1>8 DEF L!SubmitSaveMatch, L!file
  <2>2. e = d
    <3> DEFINE u == L!NoJob
    <3>1. u = [kind |-> "none", step |-> "none", drawing |-> {}, sides |-> FALSE, rev |-> 0,
               strategy |-> [c \in Class |-> "none"], content |-> {}]
      BY NoJobRecord
    <3>2. e = [u EXCEPT !.kind = "save_match", !.step = "binding"]
      OBVIOUS
    <3> HIDE DEF u, e
    <3> QED
      BY <3>1, <3>2
  <2>4. d \in JobRecord /\ JobFresh(d, rev, strategy, L!Templates)
    BY <1>5, <1>6
  <2>5. drawing' \in SUBSET Shape /\ sides' \in BOOLEAN /\ ready' \in BOOLEAN /\ jobs' \in Nat
    BY <1>1, <1>2, <2>1 DEF LTypes
  <2> HIDE DEF d, e
  <2> QED
    BY <1>2, <2>1, <2>2, <2>4, <2>5, JobReads
<1> QED
  BY <1>7, <1>8

(* The steps that read nothing of the library.                             *)
LEMMA QuietJobKeeps ==
  ASSUME LInv, L!ConstantsAssumption, NEW j \in L!Job,
         L!PutParsed(j) \/ L!ReadBinding(j) \/ L!ReadDrawing(j)
  PROVE  LInv'
<1> DEFINE q == libraryJob[j]
<1>1. LTypes /\ q \in JobRecord
  BY DEF LInv, LTypes
<1>2. JobFresh(q, rev, strategy, L!Templates)
  BY DEF LInv, AllFresh
<1>3. CASE L!PutParsed(j)
  <2> DEFINE d == [q EXCEPT !.step = "store"]
  <2>1. libraryJob' = [libraryJob EXCEPT ![j] = d]
    BY <1>3 DEF L!PutParsed, L!Step
  <2>2. d \in JobRecord /\ d.step = "store"
    BY <1>1 DEF JobRecord
  <2>3. JobFresh(d, rev, strategy, L!Templates)
    BY <2>2 DEF JobFresh
  <2>4. drawing' \in SUBSET Shape /\ sides' \in BOOLEAN /\ ready' \in BOOLEAN /\ jobs' \in Nat
        /\ snap' = snap /\ UNCHANGED <<L!lib, handler, page>>
    BY <1>1, <1>3 DEF L!PutParsed, LTypes, JobRecord
  <2> HIDE DEF d
  <2> QED
    BY <2>1, <2>2, <2>3, <2>4, JobReads
<1>4. CASE L!ReadBinding(j)
  <2> DEFINE d == [q EXCEPT !.step = "store", !.sides = sides]
  <2>1. libraryJob' = [libraryJob EXCEPT ![j] = d]
    BY <1>4 DEF L!ReadBinding
  <2>2. d \in JobRecord /\ d.step = "store"
    BY <1>1 DEF JobRecord, LTypes
  <2>3. JobFresh(d, rev, strategy, L!Templates)
    BY <2>2 DEF JobFresh
  <2>4. drawing' \in SUBSET Shape /\ sides' \in BOOLEAN /\ ready' \in BOOLEAN /\ jobs' \in Nat
        /\ snap' = snap /\ UNCHANGED <<L!lib, handler, page>>
    BY <1>1, <1>4 DEF L!ReadBinding, LTypes, L!file
  <2> HIDE DEF d
  <2> QED
    BY <2>1, <2>2, <2>3, <2>4, JobReads
<1>5. CASE L!ReadDrawing(j)
  <2> DEFINE d == [q EXCEPT !.step = "put", !.drawing = drawing]
  <2>1. libraryJob' = [libraryJob EXCEPT ![j] = d] /\ q.step = "drawing"
    BY <1>5 DEF L!ReadDrawing
  <2>2. d \in JobRecord /\ d.step = "put" /\ d.rev = q.rev /\ d.content = q.content
    BY <1>1 DEF JobRecord, LTypes
  <2> HIDE DEF d
  <2>3. JobFresh(d, rev, strategy, L!Templates)
    BY <1>2, <2>1, <2>2 DEF JobFresh
  <2>4. drawing' \in SUBSET Shape /\ sides' \in BOOLEAN /\ ready' \in BOOLEAN /\ jobs' \in Nat
        /\ snap' = snap /\ UNCHANGED <<L!lib, handler, page>>
    BY <1>1, <1>5 DEF L!ReadDrawing, LTypes, L!file
  <2> QED
    BY <2>1, <2>2, <2>3, <2>4, JobReads
<1> QED
  BY <1>3, <1>4, <1>5

(* The steps that read the library, the revision first.                    *)
LEMMA ReadingJobKeeps ==
  ASSUME LInv, L!ConstantsAssumption, NEW j \in L!Job,
         L!ReadRevision(j) \/ L!ReadClasses(j) \/ L!ReadTemplates(j)
  PROVE  LInv'
<1> DEFINE q == libraryJob[j]
<1>1. LTypes /\ ClassFirst /\ q \in JobRecord
  BY DEF LInv, LTypes
<1>2. JobFresh(q, rev, strategy, L!Templates)
  BY DEF LInv, AllFresh
<1>3. drawing' \in SUBSET Shape /\ sides' \in BOOLEAN /\ ready' \in BOOLEAN /\ jobs' \in Nat
      /\ snap' = snap /\ UNCHANGED <<L!lib, handler, page>>
  BY <1>1 DEF L!ReadRevision, L!ReadClasses, L!ReadTemplates, LTypes, L!file
<1>4. CASE L!ReadRevision(j)
  <2> DEFINE d == [q EXCEPT !.step = "classes", !.rev = rev]
  <2>1. libraryJob' = [libraryJob EXCEPT ![j] = d]
    BY <1>4 DEF L!ReadRevision
  <2>2. d \in JobRecord /\ d.step = "classes" /\ d.rev = rev
    BY <1>1 DEF JobRecord, LTypes
  <2> HIDE DEF d
  <2>3. JobFresh(d, rev, strategy, L!Templates)
    BY <1>1, <2>2 DEF JobFresh, LTypes
  <2> QED
    BY <1>3, <2>1, <2>2, <2>3, JobReads
<1>5. CASE L!ReadClasses(j)
  <2> DEFINE d == [q EXCEPT !.step = "templates", !.strategy = strategy]
  <2>1. libraryJob' = [libraryJob EXCEPT ![j] = d] /\ q.step = "classes"
    BY <1>5 DEF L!ReadClasses
  <2>2. d \in JobRecord /\ d.step = "templates" /\ d.rev = q.rev /\ d.strategy = strategy
    BY <1>1 DEF JobRecord, LTypes
  <2> HIDE DEF d
  <2>3. Agree(d.strategy, strategy, L!Templates)
    BY <2>2 DEF Agree
  <2>4. JobFresh(d, rev, strategy, L!Templates)
    BY <1>2, <2>1, <2>2, <2>3 DEF JobFresh
  <2> QED
    BY <1>3, <2>1, <2>2, <2>4, JobReads
<1>6. CASE L!ReadTemplates(j)
  <2> DEFINE found == L!Matched(L!Templates, q.strategy)
             st == IF q.kind = "save_match" THEN "drawing" ELSE "put"
             d == [q EXCEPT !.step = st, !.content = found]
  <2>1. libraryJob' = [libraryJob EXCEPT ![j] = d] /\ q.step = "templates"
    BY <1>6 DEF L!ReadTemplates
  <2>2. st \in {"drawing", "put"}
    OBVIOUS
  <2>3. found \in SUBSET ((Class \cup {None}) \X (Shape \cup {None}) \X Strategies)
    <3>1. \A t \in L!Templates : t \in TemplateRow /\ t.class \in Class
      BY <1>1, OfClass DEF LTypes, L!Templates
    <3>2. q.strategy \in [Class -> Strategies]
      BY <1>1 DEF JobRecord
    <3>3. ASSUME NEW t \in L!Templates
          PROVE  <<t.class, t.shape, q.strategy[t.class]>>
                   \in (Class \cup {None}) \X (Shape \cup {None}) \X Strategies
      BY <3>1, <3>2 DEF TemplateRow
    <3> QED
      BY <3>3 DEF L!Matched
  <2> HIDE DEF st, found
  <2>4. d \in JobRecord /\ d.step = st /\ d.rev = q.rev /\ d.content = found
    BY <1>1, <2>2, <2>3 DEF JobRecord
  <2>5. q.rev = rev => UpTo(found, L!Matched(L!Templates, strategy))
    BY <1>2, <2>1, RowsAgree DEF JobFresh, found
  <2> HIDE DEF d
  <2>6. JobFresh(d, rev, strategy, L!Templates)
    BY <1>2, <2>1, <2>2, <2>4, <2>5 DEF JobFresh
  <2> QED
    BY <1>3, <2>1, <2>4, <2>6, JobReads
<1> QED
  BY <1>4, <1>5, <1>6

(* The upkeep of the schema, the snapshot and the end of a job.            *)
LEMMA WritingJobKeeps ==
  ASSUME LInv, L!ConstantsAssumption, NEW j \in L!Job,
         L!OpenStore(j) \/ L!PutSnapshot(j) \/ L!ApplySuccess(j)
  PROVE  LInv'
<1> DEFINE q == libraryJob[j]
<1>1. LTypes /\ ClassFirst /\ q \in JobRecord
  BY DEF LInv, LTypes
<1>2. JobFresh(q, rev, strategy, L!Templates) /\ Fresh(snap, rev, L!Content)
  BY DEF LInv, AllFresh
<1>3. CASE L!OpenStore(j)
  <2> DEFINE d == [q EXCEPT !.step = "revision"]
  <2>1. /\ libraryJob' = [libraryJob EXCEPT ![j] = d]
        /\ strategy' = [c \in Class |-> L!Upkeep(c, strategy[c])]
        /\ UNCHANGED <<rev, template, used, handler>> /\ page' = page
    BY <1>3 DEF L!OpenStore, L!Step
  <2>2. d \in JobRecord /\ d.step = "revision"
    BY <1>1 DEF JobRecord
  <2> HIDE DEF d
  <2>3. strategy' \in [Class -> Strategies] /\ KeepsRows
    BY <1>1, <2>1 DEF LTypes, KeepsRows, Strategies, L!Upkeep
  <2>4. LibraryMoves
    BY <2>1 DEF LibraryMoves, RunsUpkeep, L!Templates, L!Id, L!NoTemplate
  <2>5. drawing' \in SUBSET Shape /\ sides' \in BOOLEAN /\ ready' \in BOOLEAN /\ jobs' \in Nat
        /\ snap' = snap /\ snap'.rev \in Nat
    BY <1>1, <1>3 DEF L!OpenStore, LTypes, L!file
  <2>6. JobFresh(d, rev, strategy, L!Templates) /\ Fresh(snap', rev, L!Content)
    BY <1>2, <2>2, <2>5 DEF JobFresh
  <2> QED
    BY <2>1, <2>2, <2>3, <2>4, <2>5, <2>6, JobMoves
<1>4. CASE L!PutSnapshot(j)
  <2> DEFINE d == [q EXCEPT !.step = "apply"]
  <2>1. /\ libraryJob' = [libraryJob EXCEPT ![j] = d] /\ q.step = "put"
        /\ snap'.rev = q.rev /\ snap'.content = q.content
        /\ UNCHANGED L!lib /\ UNCHANGED <<handler, page>>
    BY <1>4 DEF L!PutSnapshot, L!Step
  <2>2. d \in JobRecord /\ d.step = "apply"
    BY <1>1 DEF JobRecord
  <2> HIDE DEF d
  <2>3. UNCHANGED <<rev, template, used, handler>> /\ page' = page
    BY <2>1 DEF L!lib
  <2>4. drawing' \in SUBSET Shape /\ sides' \in BOOLEAN /\ ready' \in BOOLEAN /\ jobs' \in Nat
    BY <1>1, <1>4 DEF L!PutSnapshot, LTypes, L!file
  <2>5. q.rev \in Nat
    BY <1>1 DEF JobRecord
  <2>6. JobFresh(d, rev, strategy, L!Templates)
    BY <2>2 DEF JobFresh
  <2>7. Fresh(snap', rev, L!Content)
    BY <1>2, <2>1, <2>5 DEF JobFresh, Fresh, L!Content
  <2>8. snap'.rev \in Nat
    BY <2>1, <2>5
  <2> QED
    BY <2>1, <2>2, <2>3, <2>4, <2>6, <2>7, <2>8, LibraryRests, JobMoves
<1>5. CASE L!ApplySuccess(j)
  <2> DEFINE e == [L!NoJob EXCEPT !.kind = "done"]
             d == [kind |-> "done", step |-> "none", drawing |-> {}, sides |-> FALSE, rev |-> 0,
                   strategy |-> [c \in Class |-> "none"], content |-> {}]
  <2>1. libraryJob' = [libraryJob EXCEPT ![j] = e]
    BY <1>5 DEF L!ApplySuccess
  <2>2. e = d
    <3> DEFINE u == L!NoJob
    <3>1. u = [kind |-> "none", step |-> "none", drawing |-> {}, sides |-> FALSE, rev |-> 0,
               strategy |-> [c \in Class |-> "none"], content |-> {}]
      BY NoJobRecord
    <3>2. e = [u EXCEPT !.kind = "done"]
      OBVIOUS
    <3> HIDE DEF u, e
    <3> QED
      BY <3>1, <3>2
  <2>3. [c \in Class |-> "none"] \in [Class -> Strategies]
    BY DEF Strategies
  <2>4. d \in JobRecord /\ d.step = "none"
    BY <2>3 DEF JobRecord
  <2>5. drawing' \in SUBSET Shape /\ sides' \in BOOLEAN /\ ready' \in BOOLEAN /\ jobs' \in Nat
        /\ snap' = snap /\ UNCHANGED <<L!lib, handler, page>>
    BY <1>1, <1>5 DEF L!ApplySuccess, LTypes, JobRecord
  <2> HIDE DEF d, e
  <2>6. JobFresh(d, rev, strategy, L!Templates)
    BY <2>4 DEF JobFresh
  <2> QED
    BY <2>1, <2>2, <2>4, <2>5, <2>6, JobReads
<1> QED
  BY <1>3, <1>4, <1>5

(* The viewer, and who draws the view rectangles.                          *)
LEMMA PageKeeps ==
  ASSUME LInv, (\E d \in BOOLEAN : L!DrawSides(d)) \/ L!RequestPrematch \/ L!AnswerPrematch
  PROVE  LInv'
<1>1. LTypes /\ ClassFirst
  BY DEF LInv
<1>2. /\ rev' = rev /\ strategy' = strategy /\ template' = template /\ used' = used
      /\ drawing' = drawing /\ ready' = ready /\ snap' = snap /\ handler' = handler
      /\ libraryJob' = libraryJob /\ jobs' = jobs
  BY DEF L!DrawSides, L!RequestPrematch, L!AnswerPrematch, L!lib, L!file
<1>3. sides' \in BOOLEAN
  BY <1>1 DEF L!DrawSides, L!RequestPrematch, L!AnswerPrematch, L!file, LTypes
<1>4. /\ page' = page \/ (page'.step = "answer" /\ page'.snap = snap) \/ page'.step \in {"fresh", "live"}
      /\ page'.step \in {"closed", "answer", "fresh", "live"}
      /\ page' = [step |-> page'.step, snap |-> page'.snap]
  <2>1. CASE page' = page
    BY <1>1, <2>1 DEF LTypes
  <2>2. CASE L!RequestPrematch
    <3>1. page' = [step |-> "answer", snap |-> snap]
      BY <2>2 DEF L!RequestPrematch
    <3> QED
      BY <3>1
  <2>3. CASE L!AnswerPrematch
    <3> DEFINE st == IF page.snap.rev = rev /\ page.snap.hits # {} THEN "fresh" ELSE "live"
    <3>1. page' = [page EXCEPT !.step = st]
      BY <2>3 DEF L!AnswerPrematch
    <3>2. st \in {"fresh", "live"}
      OBVIOUS
    <3> HIDE DEF st
    <3>3. page = [step |-> page.step, snap |-> page.snap]
      BY <1>1 DEF LTypes
    <3>4. page' = [step |-> st, snap |-> page.snap]
      BY <3>1, <3>3
    <3> QED
      BY <3>2, <3>4
  <2> QED
    BY <2>1, <2>2, <2>3 DEF L!DrawSides
<1>5. LTypes'
  BY <1>1, <1>2, <1>3, <1>4 DEF LTypes, L!Id, L!Job, TemplateRow, JobRecord, CallRecord
<1>6. ClassFirst' /\ L!Templates' = L!Templates /\ L!Content' = L!Content
  BY <1>1, <1>2 DEF ClassFirst, L!Templates, L!Content, L!Id, L!NoTemplate
<1>7. \A r \in Replica : CallOk(handler[r], strategy)'
  BY <1>2 DEF LInv, CallOk, L!Id
<1>8. AllFresh'
  <2>1. AllFresh
    BY DEF LInv
  <2>2. page'.step = "answer" => Fresh(page'.snap, rev', L!Content')
    BY <1>2, <1>4, <1>6, <2>1 DEF AllFresh
  <2> QED
    BY <1>2, <1>6, <2>1, <2>2 DEF AllFresh, L!Job
<1> QED
  BY <1>5, <1>6, <1>7, <1>8 DEF LInv

LEMMA LibraryKept ==
  ASSUME L!ConstantsAssumption
  PROVE  L!Spec => []LInv
<1>1. L!Init => LInv
  <2> SUFFICES ASSUME L!Init PROVE LInv
    OBVIOUS
  <2>1. /\ rev = 0 /\ used = 0 /\ jobs = 0 /\ ready = TRUE /\ sides = FALSE
        /\ template = [i \in L!Id |-> L!NoTemplate]
        /\ drawing \in Drawing
        /\ snap.rev = 0 /\ snap.content = {}
        /\ handler = [r \in Replica |-> L!NoCall]
        /\ libraryJob = [j \in L!Job |-> L!NoJob]
        /\ page = L!NoPage
    BY DEF L!Init
  <2>2. strategy \in [Class -> Strategies]
    BY DEF L!Init, Strategies
  <2>3. L!NoTemplate \in TemplateRow
    BY DEF L!NoTemplate, TemplateRow
  <2>4. L!Templates = {}
    BY <2>1 DEF L!Templates
  <2>5. L!Content = {}
    BY <2>4 DEF L!Content, L!Matched
  <2>6. L!NoPage.step = "closed"
    BY DEF L!NoPage
  <2>7. LTypes
    <3>1. rev \in Nat /\ used \in 0..MaxTemplates /\ jobs \in Nat /\ snap.rev \in Nat
          /\ drawing \in SUBSET Shape /\ sides \in BOOLEAN /\ ready \in BOOLEAN
      <4>1. 0 \in 0..MaxTemplates
        BY DEF L!ConstantsAssumption
      <4>2. drawing \in SUBSET Shape
        BY <2>1 DEF L!ConstantsAssumption
      <4>3. rev \in Nat /\ jobs \in Nat /\ snap.rev \in Nat
        BY <2>1
      <4> QED
        BY <2>1, <4>1, <4>2, <4>3
    <3>2. template \in [L!Id -> TemplateRow]
      BY <2>1, <2>3
    <3>3. handler \in [Replica -> CallRecord]
      BY <2>1, IdleCall
    <3>4. libraryJob \in [L!Job -> JobRecord]
      BY <2>1, NoJobRecord
    <3>5. page = [step |-> page.step, snap |-> page.snap]
      BY <2>1 DEF L!NoPage
    <3> QED
      BY <2>1, <2>2, <2>6, <3>1, <3>2, <3>3, <3>4, <3>5 DEF LTypes
  <2>8. L!NoJob.step = "none"
    BY DEF L!NoJob
  <2>9. AllFresh
    BY <2>1, <2>5, <2>6, <2>8 DEF AllFresh, Fresh, JobFresh, UpTo
  <2>10. ClassFirst /\ \A r \in Replica : CallOk(handler[r], strategy)
    BY <2>1, IdleCall DEF ClassFirst
  <2> QED
    BY <2>7, <2>9, <2>10 DEF LInv
<1>2. LInv /\ [L!Next]_L!vars => LInv'
  <2> SUFFICES ASSUME LInv, [L!Next]_L!vars PROVE LInv'
    OBVIOUS
  <2>1. CASE UNCHANGED L!vars
    <3>1. /\ rev' = rev /\ strategy' = strategy /\ template' = template /\ used' = used
          /\ drawing' = drawing /\ ready' = ready /\ sides' = sides /\ snap' = snap
          /\ handler' = handler /\ libraryJob' = libraryJob /\ jobs' = jobs /\ page' = page
      BY <2>1 DEF L!vars, L!lib, L!file
    <3>2. LTypes /\ ClassFirst /\ AllFresh /\ \A j \in L!Job : libraryJob[j] \in JobRecord
      BY DEF LInv, LTypes
    <3>3. UNCHANGED L!lib
      BY <3>1 DEF L!lib
    <3>4. LibraryMoves
      BY <3>3, LibraryRests
    <3>5. AllFresh'
      BY <3>1, <3>2, <3>4, FreshStays DEF AllFresh, L!Job
    <3> QED
      BY <3>1, <3>5 DEF LInv, LTypes, ClassFirst, CallOk, L!Id, L!Job, L!NoTemplate, TemplateRow,
         JobRecord, CallRecord
  <2>2. ASSUME NEW r \in Replica, L!Handler(r) PROVE LInv'
    BY <2>2, Requests, AddClassKeeps, InsertKeeps, DeleteKeeps, MoveKeeps, SetStrategyKeeps
    DEF L!Handler
  <2>3. ASSUME NEW j \in L!Job, L!Worker(j) PROVE LInv'
    BY <2>3, QuietJobKeeps, ReadingJobKeeps, WritingJobKeeps DEF L!Worker
  <2>4. CASE L!Next
    BY <2>2, <2>3, <2>4, SubmitJobKeeps, PageKeeps DEF L!Next
  <2> QED
    BY <2>1, <2>4
<1> QED
  BY <1>1, <1>2, PTL DEF L!Spec

(* Every variable keeps its type.                                          *)
THEOREM LibraryTypes ==
  ASSUME L!ConstantsAssumption
  PROVE  L!Spec => []L!TypeOK
<1>1. LInv => L!TypeOK
  BY DEF LInv, LTypes, L!TypeOK, Strategies, TemplateRow, JobRecord
<1> QED
  BY <1>1, LibraryKept, PTL

(* A snapshot that the viewer is told to be fresh was computed from the    *)
(* library as it is at that moment or as it was before an upkeep made the  *)
(* large classes signature, whatever jobs and requests, at however many    *)
(* replicas, ran in between (the revision that jobs.py stamps it with and  *)
(* the endpoint of main.py compares).                                      *)
THEOREM FreshIsCurrent ==
  ASSUME L!ConstantsAssumption
  PROVE  L!Spec => L!FreshMeansCurrent
<1>1. LInv /\ [L!Next]_L!vars
        => [L!Answered("fresh") => L!Content' \in {page.snap.content, L!Upkept(page.snap.content)}]_L!vars
  <2> SUFFICES ASSUME LInv, L!Next, L!Answered("fresh")
               PROVE  L!Content' \in {page.snap.content, L!Upkept(page.snap.content)}
    OBVIOUS
  <2>1. page.step = "answer" /\ page'.step = "fresh"
    BY DEF L!Answered
  <2>2. page' # page
    BY <2>1
  <2>3. L!RequestPrematch \/ L!AnswerPrematch
    BY <2>2 DEF L!Next, L!Handler, L!Worker, L!RequestCommit, L!AddClassForCommit, L!InsertTemplate,
       L!RequestDelete, L!RequestMove, L!DeleteTemplate, L!AddClassForMove, L!MoveTemplate,
       L!RequestStrategy, L!SetStrategy, L!DrawSides, L!SubmitPreprocess, L!SubmitSaveMatch,
       L!PutParsed, L!ReadBinding, L!OpenStore, L!ReadRevision, L!ReadClasses, L!ReadTemplates,
       L!ReadDrawing, L!PutSnapshot, L!ApplySuccess
  <2>4. L!AnswerPrematch
    BY <2>1, <2>3 DEF L!RequestPrematch
  <2>5. page.snap.rev = rev /\ UNCHANGED L!lib
    BY <2>1, <2>4 DEF L!AnswerPrematch
  <2>6. L!Content' = L!Content
    BY <2>5 DEF L!lib, L!Content, L!Templates, L!Id, L!NoTemplate
  <2>7. Fresh(page.snap, rev, L!Content)
    BY <2>1 DEF LInv, AllFresh
  <2> QED
    BY <2>5, <2>6, <2>7 DEF Fresh, UpTo
<1> QED
  BY <1>1, LibraryKept, PTL DEF L!Spec, L!FreshMeansCurrent

-----------------------------------------------------------------------------
(* The contract on rule results.                                           *)

CONSTANTS Handle, Empty, Point, BadPoint, Wrong, MaxSet

VARIABLES sub, rule

E == INSTANCE RuleContract

(* A sub-rule has every field.                                             *)
Whole(s) == s = [k \in E!Field |-> s[k]]

LEMMA ContractFields == DOMAIN E!ValueOf = E!Field
  BY DEF E!ValueOf, E!Field

LEMMA AliasLemma ==
  ASSUME NEW s, Whole(s)
  PROVE  E!ValidSubRule(s)
         = E!ValidSubRule([s EXCEPT !.from = s.from_entity, !.from_entity = s.from])
<1> DEFINE t == [s EXCEPT !.from = s.from_entity, !.from_entity = s.from]
<1>1. DOMAIN s = E!Field
  BY DEF Whole
<1>2. /\ t.part = s.part /\ t.text = s.text /\ t.file_id = s.file_id
      /\ t.from = s.from_entity /\ t.from_entity = s.from /\ t.to = s.to
      /\ t.tol = s.tol /\ t.tol_text = s.tol_text
      /\ t.from_coordinates = s.from_coordinates /\ t.to_coordinates = s.to_coordinates
      /\ t.to_entity = s.to_entity
  BY <1>1 DEF E!Field
<1> HIDE DEF t
<1>3. E!ValidSubRule(s) <=> E!ValidSubRule(t)
  BY <1>2 DEF E!ValidSubRule, E!TypedHandle, E!TypedTo, E!TypedPoint, E!TypedPointList, E!HasTo,
     E!HasHandle, E!EffectiveFrom, E!IsList
<1>4. E!ValidSubRule(s) \in BOOLEAN /\ E!ValidSubRule(t) \in BOOLEAN
  BY DEF E!ValidSubRule
<1> QED
  BY <1>3, <1>4 DEF t

LEMMA GroupLemma ==
  ASSUME NEW s, Whole(s)
  PROVE  E!ValidSubRule(s) <=> /\ E!ValidSubRule(E!Without(s, E!HandleGroup))
                               /\ E!ValidSubRule(E!Without(s, E!PointGroup))
<1> DEFINE h == E!Without(s, E!HandleGroup)
           p == E!Without(s, E!PointGroup)
<1>1. DOMAIN s = E!Field
  BY DEF Whole
<1>2. /\ h.part = s.part /\ h.text = s.text
      /\ h.file_id = None /\ h.from = None /\ h.from_entity = None /\ h.to = None
      /\ h.tol = None /\ h.tol_text = None
      /\ h.from_coordinates = s.from_coordinates /\ h.to_coordinates = s.to_coordinates
      /\ h.to_entity = s.to_entity
  BY <1>1 DEF E!Field, E!Without, E!HandleGroup
<1>3. /\ p.part = s.part /\ p.text = s.text /\ p.file_id = s.file_id
      /\ p.from = s.from /\ p.from_entity = s.from_entity /\ p.to = s.to
      /\ p.tol = s.tol /\ p.tol_text = s.tol_text
      /\ p.from_coordinates = None /\ p.to_coordinates = None /\ p.to_entity = None
  BY <1>1 DEF E!Field, E!Without, E!PointGroup
<1> HIDE DEF h, p
<1>4. E!ValidSubRule(s) <=> E!ValidSubRule(h) /\ E!ValidSubRule(p)
  BY <1>2, <1>3 DEF E!ValidSubRule, E!TypedHandle, E!TypedTo, E!TypedPoint, E!TypedPointList,
     E!HasTo, E!HasHandle, E!EffectiveFrom
<1> QED
  BY <1>4 DEF h, p

LEMMA DrawLemma ==
  ASSUME E!RuleContractAssumption
  PROVE  E!ValidIsDrawable
<1> SUFFICES ASSUME E!ValidRule(rule, sub)
             PROVE  /\ \A k \in {"from", "from_entity", "to", "tol"} : sub[k] # None => sub.file_id \in E!Strings
                    /\ sub.to # None => {sub.from, sub.from_entity} \cap E!Strings # {}
                    /\ E!IsList(sub.to) => sub.to.items \cap Handle # {}
                    /\ E!IsList(sub.to_entity) => sub.to_entity.items = {Point}
                    /\ sub.from_coordinates = Point <=> sub.to_coordinates = Point
                    /\ sub.tol_text # None => sub.tol \in E!Strings
                    /\ rule.pass = "bool"
  BY DEF E!ValidIsDrawable
<1>1. E!ValidSubRule(sub) /\ rule.pass = "bool"
  BY DEF E!ValidRule
<1>2. \A k \in {"from", "from_entity", "to", "tol"} : sub[k] # None => sub.file_id \in E!Strings
  <2>1. \A k \in {"from", "from_entity", "to", "tol"} : sub[k] # None => E!HasHandle(sub)
    BY DEF E!HasHandle, E!HasTo, E!EffectiveFrom
  <2>2. E!HasHandle(sub) => sub.file_id # None
    BY <1>1 DEF E!ValidSubRule
  <2>3. sub.file_id \in E!Strings \cup {None}
    BY <1>1 DEF E!ValidSubRule
  <2> QED
    BY <2>1, <2>2, <2>3
<1>3. sub.to # None => {sub.from, sub.from_entity} \cap E!Strings # {}
  <2>1. sub.from \in E!Strings \cup {None} /\ sub.from_entity \in E!Strings \cup {None}
        /\ (sub.to # None => E!EffectiveFrom(sub) # None)
    BY <1>1 DEF E!ValidSubRule, E!TypedHandle, E!HasTo
  <2> QED
    BY <2>1 DEF E!EffectiveFrom
<1>4. E!IsList(sub.to) => sub.to.items \cap Handle # {}
  BY <1>1 DEF E!ValidSubRule, E!TypedTo, E!IsList
<1>5. E!IsList(sub.to_entity) => sub.to_entity.items = {Point}
  BY <1>1 DEF E!ValidSubRule, E!TypedPointList, E!IsList
<1>6. sub.from_coordinates = Point <=> sub.to_coordinates = Point
  BY <1>1 DEF E!ValidSubRule, E!TypedPoint
<1>7. sub.tol_text # None => sub.tol \in E!Strings
  BY <1>1 DEF E!ValidSubRule, E!TypedHandle
<1> QED
  BY <1>1, <1>2, <1>3, <1>4, <1>5, <1>6, <1>7

LEMMA SubRuleTyped ==
  ASSUME E!RuleContractAssumption
  PROVE  E!Spec => [](E!TypeOK /\ Whole(sub))
<1> DEFINE RuleType == [pass : {"bool", Wrong, None}, text : {"str", Wrong, None},
                        rules : {"list", Wrong, None}]
           T == /\ Whole(sub)
                /\ \A k \in E!Field : sub[k] \in E!ValueOf[k]
                /\ rule \in RuleType
<1>1. E!Init => T
  <2> SUFFICES ASSUME E!Init PROVE T
    OBVIOUS
  <2>1. sub = [k \in E!Field |-> IF k = "part" THEN "SBT" ELSE None] /\ rule = E!Sound
    BY DEF E!Init, E!Blank
  <2>2. Whole(sub)
    BY <2>1 DEF Whole
  <2>3. \A k \in E!Field : (IF k = "part" THEN "SBT" ELSE None) \in E!ValueOf[k]
    BY DEF E!Field, E!ValueOf
  <2>4. rule \in RuleType
    BY <2>1 DEF E!Sound
  <2> QED
    BY <2>1, <2>2, <2>3, <2>4
<1>2. T /\ [E!Next]_E!vars => T'
  <2> SUFFICES ASSUME T, [E!Next]_E!vars PROVE T'
    OBVIOUS
  <2>1. CASE UNCHANGED E!vars
    BY <2>1 DEF E!vars, Whole
  <2>2. ASSUME NEW k \in DOMAIN E!ValueOf, NEW v \in E!ValueOf[k], E!SetField(k, v) PROVE T'
    <3>1. sub' = [sub EXCEPT ![k] = v] /\ rule' = rule /\ k \in E!Field
      BY <2>2, ContractFields DEF E!SetField
    <3>2. DOMAIN sub = E!Field
      BY DEF Whole
    <3>3. Whole(sub)' /\ \A l \in E!Field : sub'[l] = IF l = k THEN v ELSE sub[l]
      BY <3>1, <3>2 DEF Whole
    <3>4. \A l \in E!Field : sub'[l] \in E!ValueOf[l]
      BY <2>2, <3>3
    <3> QED
      BY <3>1, <3>3, <3>4
  <2>3. ASSUME NEW k \in DOMAIN rule, NEW v \in {Wrong, None}, E!SpoilRule(k, v) PROVE T'
    <3>1. sub' = sub /\ rule' = [rule EXCEPT ![k] = v] /\ rule \in RuleType
      BY <2>3 DEF E!SpoilRule
    <3>2. k \in {"pass", "text", "rules"}
      BY <3>1
    <3>3. rule' \in RuleType
      BY <3>1, <3>2
    <3> QED
      BY <3>1, <3>3 DEF Whole
  <2> QED
    BY <2>1, <2>2, <2>3 DEF E!Next
<1>3. T => E!TypeOK /\ Whole(sub)
  BY ContractFields DEF E!TypeOK, Whole
<1> QED
  BY <1>1, <1>2, <1>3, PTL DEF E!Spec

(* Every variable keeps its type.                                          *)
THEOREM ContractTypes ==
  ASSUME E!RuleContractAssumption
  PROVE  E!Spec => []E!TypeOK
  BY SubRuleTyped, PTL

(* Of every sub-rule that an emitter can build, the contract takes an      *)
(* alias for its name, judges each group of fields alone, and lets only    *)
(* through what the viewer can draw (_validate_rule, app/rule_check.py).   *)
THEOREM ContractFair ==
  ASSUME E!RuleContractAssumption
  PROVE  E!Spec => []E!ContractIsFair
<1>1. Whole(sub) => E!ContractIsFair
  BY AliasLemma, GroupLemma, DrawLemma DEF E!ContractIsFair, E!AliasInterchangeable, E!GroupsIndependent
<1> QED
  BY <1>1, SubRuleTyped, PTL
=============================================================================
