----------------------------- MODULE MCUserAccount -----------------------------
(* Instances of UserAccount for TLC.                                           *)
EXTENDS UserAccount, TLC

CONSTANTS u1, u2, c1, c2

AccountSymmetry == Permutations(Calls) \cup Permutations(Users)
===============================================================================
