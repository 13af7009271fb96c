------------------------------ MODULE MCJossServer ------------------------------
(***************************************************************************)
(* Instances of JossServer for TLC.  Runtime objects and requests are      *)
(* interchangeable in the safety run.                                      *)
(***************************************************************************)
EXTENDS JossServer, TLC

CONSTANTS r1, r2, r3, r4, q1, q2, u1, u2

Symmetry == Permutations(Runtimes) \cup Permutations(Requests)
================================================================================
