-------------------------------- MODULE Lease --------------------------------
(***************************************************************************)
(* What the product edit lock promises to the pages that ask for it: one   *)
(* user holds it at a time, an answer "acquired" is given only to a page   *)
(* of the user who holds it from that moment, and a user who is heard from *)
(* in time loses it only by giving it back or to an administrator.         *)
(***************************************************************************)
CONSTANTS
  Page,   \* claimants
  Owner,  \* Owner[p]: the user at page p
  None    \* nobody

VARIABLES
  holder,  \* the user the lock belongs to, or None
  lapsed,  \* the holder was not heard from for the time to live
  told     \* pages that were told "acquired" and have not read it yet

vars == <<holder, lapsed, told>>

Init == holder = None /\ lapsed = FALSE /\ told = {}

Grant(p) ==
  /\ holder \in {None, Owner[p]} \/ lapsed
  /\ holder' = Owner[p]
  /\ lapsed' = FALSE
  /\ told' = told \cup {p}

Read(p) ==
  /\ p \in told
  /\ told' = told \ {p}
  /\ UNCHANGED <<holder, lapsed>>

Renew ==
  /\ holder # None
  /\ lapsed' = FALSE
  /\ UNCHANGED <<holder, told>>

Lapse ==
  /\ holder # None
  /\ lapsed' = TRUE
  /\ UNCHANGED <<holder, told>>

End ==
  /\ holder # None
  /\ holder' = None
  /\ lapsed' = FALSE
  /\ UNCHANGED told

Next == (\E p \in Page : Grant(p) \/ Read(p)) \/ Renew \/ Lapse \/ End

Spec == Init /\ [][Next]_vars
==============================================================================
