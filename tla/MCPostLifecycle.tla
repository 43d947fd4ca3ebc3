---------------------------- MODULE MCPostLifecycle ----------------------------
(* Instances of PostLifecycle for TLC.                                         *)
EXTENDS PostLifecycle, TLC

CONSTANTS p1, c1, c2

CallSymmetry == Permutations(Calls)
===============================================================================
