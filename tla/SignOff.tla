------------------------------ MODULE SignOff ------------------------------
(***************************************************************************)
(* Signing a version off (app/versions.py, app/main.py): the freeze, the   *)
(* proof image kept beside it, its revocation, and the "check DAM" switch  *)
(* that the freeze covers.                                                 *)
(*                                                                         *)
(* A handler awaits nothing after it has read its request, so it runs to   *)
(* its end on the event loop of its web replica: one call at a time per    *)
(* replica, any number of replicas.  Between replicas every SQL statement  *)
(* and every blob operation may interleave; a transaction reads the latest *)
(* committed row (READ COMMITTED) and self.lock is a lock of one process.  *)
(***************************************************************************)
EXTENDS Integers

CONSTANTS
  User,       \* editors, and administrators who may unsign
  Image,      \* proof images; one stands for its bytes, name and type
  Replica,    \* web replicas
  MaxCalls,   \* bound: calls ever made
  MaxFaults,  \* bound: replicas that die inside a handler
  None        \* SQL NULL, no image, no blob

ConstantsAssumption ==
  /\ MaxCalls \in Nat /\ MaxFaults \in Nat
  /\ None \notin User \cup Image

VARIABLES
  row,      \* the versions row: signed_off_by, evidence_name, check_dam
  blob,     \* what the key sign_off_evidence_key(version_id) holds
  call,     \* call[r]: the handler that replica r is running; early: the
            \* version was unsigned at some time since it began; alone: no
            \* other call that changes the proof has met it (history)
  calls,    \* calls so far
  faults    \* faults so far

vars == <<row, blob, call, calls, faults>>

Steps == {"idle", "put", "select", "freeze", "rollback", "drop", "toggle"}

Call == [step : Steps, user : User \cup {None}, image : Image \cup {None},
         dam : BOOLEAN, early : BOOLEAN, alone : BOOLEAN]

NoCall == [step |-> "idle", user |-> None, image |-> None, dam |-> FALSE,
           early |-> FALSE, alone |-> FALSE]

(* Every variable keeps its type. *)
TypeOK ==
  /\ row \in [by : User \cup {None}, evidence : Image \cup {None}, dam : BOOLEAN]
  /\ blob \in Image \cup {None}
  /\ call \in [Replica -> Call]
  /\ calls \in Nat
  /\ faults \in Nat

Init ==
  /\ row = [by |-> None, evidence |-> None, dam |-> FALSE]
  /\ blob = None
  /\ call = [r \in Replica |-> NoCall]
  /\ calls = 0
  /\ faults = 0

-----------------------------------------------------------------------------

At(r, step) == call[r].step = step
Goto(r, step) == call' = [call EXCEPT ![r].step = step]
Return(r) == call' = [call EXCEPT ![r] = NoCall]

(* Calls that write or delete the proof. *)
Touches(c) == c.image # None \/ c.step = "drop"

Begin(r, c) ==
  /\ At(r, "idle")
  /\ calls < MaxCalls
  /\ calls' = calls + 1
  /\ call' = [q \in Replica |->
       IF q = r
       THEN [c EXCEPT !.early = row'.by = None,
                      !.alone = \A o \in Replica \ {r} : ~Touches(call[o])]
       ELSE [call[q] EXCEPT !.early = @ \/ (~At(q, "idle") /\ row'.by = None),
                            !.alone = @ /\ ~Touches(c)]]

-----------------------------------------------------------------------------
(* POST .../sign-off.                                                      *)

(* Mutant: the metadata is frozen first and the bytes are put after.       *)
RequestSignOffMetadataFirst(r, u, i) ==
  /\ UNCHANGED <<row, blob, faults>>
  /\ Begin(r, [NoCall EXCEPT !.step = "select", !.user = u, !.image = i])

(* An oversized or unrecognised image is refused before anything is
   written, and an empty one counts as none.  Whether the version is signed
   already is not asked here.                                              *)
RequestSignOff(r, u, i) ==
  /\ UNCHANGED <<row, blob, faults>>
  /\ Begin(r, [NoCall EXCEPT !.step = IF i = None THEN "select" ELSE "put",
                             !.user = u, !.image = i])

PutEvidence(r) ==
  /\ At(r, "put")
  /\ blob' = call[r].image
  /\ Goto(r, "select")
  /\ UNCHANGED <<row, calls, faults>>

(* VersionStore.sign_off: the SELECT, and SignedOff if it finds a signer.  *)
SelectUnsigned(r) ==
  /\ At(r, "select")
  /\ \/ row.by = None /\ Goto(r, "freeze")
     \/ row.by # None /\ call[r].image # None /\ Goto(r, "rollback")
     \/ row.by # None /\ call[r].image = None /\ Return(r)
  /\ UNCHANGED <<row, blob, calls, faults>>

(* Its UPDATE has no condition but the id.                                 *)
Freeze(r) ==
  /\ At(r, "freeze")
  /\ row' = [row EXCEPT !.by = call[r].user, !.evidence = call[r].image]
  /\ Return(r)
  /\ UNCHANGED <<blob, calls, faults>>

RollBack(r) ==
  /\ At(r, "rollback")
  /\ blob' = None
  /\ Return(r)
  /\ UNCHANGED <<row, calls, faults>>

-----------------------------------------------------------------------------
(* DELETE .../sign-off, PATCH .../check-dam, GET .../sign-off/evidence.    *)

Unsign(r) ==
  /\ row' = [row EXCEPT !.by = None, !.evidence = None]
  /\ Begin(r, [NoCall EXCEPT !.step = "drop"])
  /\ UNCHANGED <<blob, faults>>

DropEvidence(r) ==
  /\ At(r, "drop")
  /\ blob' = None
  /\ Return(r)
  /\ UNCHANGED <<row, calls, faults>>

(* set_check_dam: the SELECT, and SignedOff ...                            *)
RequestDam(r, d) ==
  /\ row.by = None
  /\ UNCHANGED <<row, blob, faults>>
  /\ Begin(r, [NoCall EXCEPT !.step = "toggle", !.dam = d])

(* ... and the UPDATE.                                                     *)
ToggleDam(r) ==
  /\ At(r, "toggle")
  /\ row' = [row EXCEPT !.dam = call[r].dam]
  /\ Return(r)
  /\ UNCHANGED <<blob, calls, faults>>

(* None is the 404.                                                        *)
EvidenceAnswer == IF row.evidence = None THEN None ELSE blob

Crash(r) ==
  /\ ~At(r, "idle")
  /\ faults < MaxFaults
  /\ faults' = faults + 1
  /\ Return(r)
  /\ UNCHANGED <<row, blob, calls>>

-----------------------------------------------------------------------------

Next ==
  \E r \in Replica :
    \/ \E u \in User, i \in Image \cup {None} : RequestSignOff(r, u, i)
    \/ PutEvidence(r) \/ SelectUnsigned(r) \/ Freeze(r) \/ RollBack(r)
    \/ Unsign(r) \/ DropEvidence(r)
    \/ \E d \in BOOLEAN : RequestDam(r, d)
    \/ ToggleDam(r) \/ Crash(r)

Spec == Init /\ [][Next]_vars

-----------------------------------------------------------------------------
(* Properties.                                                             *)

(* sign_off_version: "Already-signed -> 409", and set_check_dam: "Rejected
   on a signed-off version - flipping it would change the rule-check input
   behind the freeze".  Both select first and update by the id alone, so a
   call that met the version unsigned may still write once it is signed;
   when the last such call has ended, the signer, the proof's metadata and
   the switch stay as they are until the version is unsigned.              *)
SignatureStays ==
  [][row.by # None /\ (\A r \in Replica : ~call[r].early) => row' = row \/ row'.by = None]_vars

(* "Bytes first, metadata with the freeze": a proof that is frozen is in the
   blob store at that moment, wherever earlier calls died, unless another
   call that writes or deletes the version's one proof key came across.    *)
FrozenWithProof ==
  [][\A r \in Replica : call[r].alone /\ row'.evidence \notin {row.evidence, None}
                          => EvidenceAnswer' = row'.evidence]_vars

FreezeHolds == SignatureStays /\ FrozenWithProof

=============================================================================
