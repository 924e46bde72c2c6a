-------------------------- MODULE MCTaskController --------------------------
(* Instances of TaskController for TLC. *)
EXTENDS TaskController

CONSTANTS t1, t2, t3, n1, n2

\* Two tasks for one node, the third for another.
TwoAndOne(t) == IF t = t3 THEN n2 ELSE n1
=============================================================================
