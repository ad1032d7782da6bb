----------------------------- MODULE MCServices -----------------------------
(***************************************************************************)
(* The database connection (Connection) and schema (Schema), the developer *)
(* overrides (DevOverrides), the template library with its pre-match       *)
(* snapshot (TemplateLibrary), the rule check (RuleCheck) and the contract *)
(* on its result (RuleContract), side by side for TLC.  They share no      *)
(* state here: one component moves in a behaviour and the others stay      *)
(* where they start.                                                       *)
(***************************************************************************)
EXTENDS Connection

CONSTANTS a1, a2, b1, b2, w1, w2,  \* processes, files, tunables, workers
          k1, k2, s1, s2, h1, h2, Empty, Point, BadPoint, Wrong, None

VARIABLES
  moving,
  table, rows, boot,                                                   \* Schema
  web, pool, devJob, posts, stops,                                     \* DevOverrides
  rev, strategy, template, used, drawing, sides, ready, snap,          \* TemplateLibrary
  handler, libraryJob, jobs, page, calls,
  row, match, edit, save, doubt, job, run, result, edits, uploads, crashes,   \* RuleCheck
  sub, rule                                                            \* RuleContract

schemaVars == <<table, rows, boot>>
devVars == <<web, pool, devJob, posts, stops>>
libraryVars == <<rev, strategy, template, used, drawing, sides, ready, snap,
                 handler, libraryJob, jobs, page, calls>>
checkVars == <<row, match, edit, save, doubt, job, run, result, edits, uploads, crashes>>
contractVars == <<sub, rule>>
allVars == <<vars, schemaVars, devVars, libraryVars, checkVars, contractVars, moving>>

-----------------------------------------------------------------------------
(* One process over every database, two over a versioned one.              *)
S1 == INSTANCE Schema WITH
        Process <- {a1}, Sqlite <- TRUE, Database <- {"fresh", "legacy", "older", "current"}

S2 == INSTANCE Schema WITH
        Process <- {a1, a2}, Sqlite <- TRUE, Database <- {"older", "current"}

(* Two tunables with a default 0, an accepted 1 and a 2 that is not.       *)
DevValues == 0..2
D == INSTANCE DevOverrides WITH
       Name <- {b1, b2}, Value <- DevValues, Default <- [n \in {b1, b2} |-> 0],
       Accepted <- [n \in {b1, b2} |-> 0..1], Process <- {a1, a2},
       MaxJobs <- 2, MaxPosts <- 2, MaxStops <- 1,
       job <- devJob

(* A large class and one without a row, one shape, two web replicas.       *)
L == INSTANCE TemplateLibrary WITH
       Class <- {k1, k2}, Custom <- {k2}, Large <- {k1}, Constrained <- {},
       Shape <- {s1}, Drawing <- {{s1}}, Replica <- {b1, b2},
       MaxTemplates <- 2, MaxCalls <- 2, MaxJobs <- 2,
       call <- handler, job <- libraryJob

(* Downloads of one file that two replicas edit and two slots match; and   *)
(* checks of two files by either of two workers.  Any of them may die.     *)
R1 == INSTANCE RuleCheck WITH
        File <- {a1}, Replica <- {b1, b2}, Saver <- {s1, s2}, Worker <- {}, Caller <- {w1},
        MaxJobs <- 0, MaxEdits <- 2, MaxUploads <- 0, MaxCrashes <- 1

R2 == INSTANCE RuleCheck WITH
        File <- {a1, a2}, Replica <- {b1}, Saver <- {s1}, Worker <- {w1, w2}, Caller <- {},
        MaxJobs <- 1, MaxEdits <- 1, MaxUploads <- 1, MaxCrashes <- 1

C == INSTANCE RuleContract WITH
       Handle <- {h1}, MaxSet <- 4

ASSUME S1!SchemaAssumption /\ S2!SchemaAssumption
ASSUME D!DevOverridesAssumption
ASSUME L!ConstantsAssumption
ASSUME R1!RuleCheckAssumption /\ R2!RuleCheckAssumption
ASSUME C!RuleContractAssumption

-----------------------------------------------------------------------------
Part == {"connection", "boot", "rolling", "overrides", "library", "download", "checks",
         "contract"}

StartSideBySide ==
  /\ moving \in Part
  /\ Init /\ D!Init /\ L!Init /\ C!Init
  /\ IF moving = "rolling" THEN S2!Init ELSE S1!Init
  /\ moving \notin {"boot", "rolling"} => table = S1!Found("current")
  /\ IF moving = "checks" THEN R2!Init ELSE R1!Init

Connection_ ==
  /\ moving = "connection" /\ Next
  /\ UNCHANGED <<schemaVars, devVars, libraryVars, checkVars, contractVars, moving>>
Schema_ ==
  /\ \/ moving = "boot" /\ S1!Next
     \/ moving = "rolling" /\ S2!Next
  /\ UNCHANGED <<vars, devVars, libraryVars, checkVars, contractVars, moving>>
Overrides_ ==
  /\ moving = "overrides" /\ D!Next
  /\ UNCHANGED <<vars, schemaVars, libraryVars, checkVars, contractVars, moving>>
Library_ ==
  /\ moving = "library" /\ L!Next
  /\ UNCHANGED <<vars, schemaVars, devVars, checkVars, contractVars, moving>>
Check_ ==
  /\ \/ moving = "download" /\ R1!Next
     \/ moving = "checks" /\ R2!Next
  /\ UNCHANGED <<vars, schemaVars, devVars, libraryVars, contractVars, moving>>
Contract_ ==
  /\ moving = "contract" /\ C!Next
  /\ UNCHANGED <<vars, schemaVars, devVars, libraryVars, checkVars, moving>>

OneMoves == Connection_ \/ Schema_ \/ Overrides_ \/ Library_ \/ Check_ \/ Contract_

SideBySide == StartSideBySide /\ [][OneMoves]_allVars

-----------------------------------------------------------------------------
(* What the components promise; each is stated and explained in its module. *)

(* Every component's variables have their types. *)
TypesOK ==
  /\ moving = "connection" => TypeOK
  /\ moving = "boot" => S1!TypeOK
  /\ moving = "rolling" => S2!TypeOK
  /\ moving = "overrides" => D!TypeOK
  /\ moving = "library" => L!TypeOK
  /\ moving = "download" => R1!TypeOK
  /\ moving = "checks" => R2!TypeOK
  /\ moving = "contract" => C!TypeOK

(* A process that is up has the tables its code expects (app/dbschema.py). *)
Ready ==
  /\ moving = "boot" => S1!Ready
  /\ moving = "rolling" => S2!Ready

(* No boot drops rows of the versioned schema (app/dbschema.py).           *)
RowsKept == S1!RowsKept

(* An override reaches the process its job runs in (app/dev_overrides.py). *)
OverridesReach == moving = "overrides" => D!OverridesReach

(* A snapshot that is said to be fresh is of the library as it is, or was  *)
(* before an upkeep (app/jobs.py, app/main.py).                            *)
FreshMeansCurrent == L!FreshMeansCurrent

(* A bundle is whole and, but for the edits that overlap it or a           *)
(* save-match, has the matches of its rows (app/jobs.py, app/main.py).     *)
RuleCheckIsSound ==
  /\ moving = "download" => R1!BundleIsSound
  /\ moving = "checks" => R2!BundleIsSound

(* The contract on rule results takes an alias for its name, judges each   *)
(* group of fields alone and lets through what can be drawn                *)
(* (app/rule_check.py).                                                    *)
ContractIsFair == moving = "contract" => C!ContractIsFair
=============================================================================
