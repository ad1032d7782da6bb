----------------------------- MODULE MCEditLock -----------------------------
EXTENDS EditLock

CONSTANTS ann, bob, page1, page2, page3

(* Ann has two pages, Bob one.                                             *)
TwoUsers == [p \in Page |-> IF p = page3 THEN bob ELSE ann]
=============================================================================
