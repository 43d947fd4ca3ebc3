---------------------------- MODULE MCOrganization -----------------------------
(* Instances of Organization for TLC.                                          *)
EXTENDS Organization, TLC

CONSTANTS u1, u2, u3, u4, i1, i2, i3, c1, c2

OrganizationSymmetry == Permutations(Calls) \cup Permutations(Users) \cup Permutations(Invites)

(* An organization its founder has sent invitations from, one for each other   *)
(* user as far as the rows reach.                                              *)
InUse ==
    /\ organization = "active"
    /\ \E founder \in Users :
          /\ member = [u \in Users |-> IF u = founder THEN [state |-> "active", role |-> "OWNER"]
                                       ELSE [state |-> "none", role |-> "MEMBER"]]
          /\ \E email \in [Invites -> Users \ {founder}] :
                /\ \A i, j \in Invites : email[i] = email[j] => i = j
                /\ invitation = [i \in Invites |->
                        [status |-> "PENDING", email |-> email[i], role |-> "MEMBER",
                         expired |-> FALSE]]
    /\ request = [c \in Calls |-> IdleRequest]
    /\ calls = 0
    /\ overlapped = FALSE

MCInit == OrganizationInit \/ InUse
MCSpec == MCInit /\ [][OrganizationNext]_organizationVars
===============================================================================
