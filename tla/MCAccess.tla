------------------------------ MODULE MCAccess ------------------------------
(* Two editors of one product, whose requests two replicas serve.          *)
EXTENDS Access, TLC

CONSTANTS ann, bob, lab, acme, board, r1, r2

TheUsers == {ann, bob}
OneProduct == [p \in {board} |-> acme]
Apart == r1 :> "a" @@ r2 :> "b"

(* Either may edit. *)
TheEditors == {AdminOf(ann), AdminOf(bob)}
=============================================================================
