-------------------------- MODULE MCSocialConnections --------------------------
(* Instances of SocialConnections for TLC.                                     *)
EXTENDS SocialConnections, TLC

CONSTANTS o1, o2, u1, u2, m1, p1, p2, c1, c2

(* One page of the first user's is the second's too.                           *)
ManagesInstance == u1 :> {p1, p2} @@ u2 :> {p2}
ConnectionSymmetry == Permutations(Organizations) \cup Permutations(Calls)
===============================================================================
