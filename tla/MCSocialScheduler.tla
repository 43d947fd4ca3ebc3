--------------------------- MODULE MCSocialScheduler ---------------------------
(* Instances of SocialScheduler for TLC.                                       *)
EXTENDS SocialScheduler, TLC

CONSTANTS p1, c1, c2

CallSymmetry == Permutations(Calls)
===============================================================================
