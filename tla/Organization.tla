----------------------------- MODULE Organization ------------------------------
(* One organization (src/src/organizations): its members and invitations.      *)
(* Every request reads what it needs to decide and then writes in a second     *)
(* step, by row id and without repeating the test; a request that is refused   *)
(* writes nothing.  A user stands for his e-mail address too.  The rows of the *)
(* table Role are seeded outside this code; they are taken to exist under the  *)
(* names of the enum OrganizationRole, which acceptInvitation uses as row ids. *)
EXTENDS Naturals, FiniteSets

CONSTANTS
    Users,
    Invites,      \* bound: ids of invitation rows
    Calls,        \* requests that can overlap
    MaxMembers,   \* Organization.maxMembers, 5 by default
    MaxCalls      \* bound on the requests

ASSUME OrganizationAssumption == MaxMembers \in Nat \ {0} /\ MaxCalls \in Nat
ASSUME CallsAssumption == IsFiniteSet(Calls)

VARIABLES
    organization, \* "none", "active" or "inactive" (column isActive)
    member,       \* [Users -> Membership], the row unique per user
    invitation,   \* [Invites -> Invitation]
    request,      \* [Calls -> Request], what a request has read and will write
    calls,        \* requests so far
    overlapped    \* history: two requests were ever open together

organizationVars == <<organization, member, invitation, request, calls, overlapped>>

Roles == {"OWNER", "ADMIN", "MEMBER"}
Membership == [state : {"none", "active", "inactive"}, role : Roles]
Invitation == [status : {"none", "PENDING", "ACCEPTED", "REVOKED"},
               email : Users \cup {"none"}, role : Roles, expired : BOOLEAN]
Pcs == {"idle", "invite", "accept", "resend", "updateMember", "removeMember", "leave",
        "transferOwnership", "updateOrganization", "deleteOrganization"}
Request == [pc : Pcs, by : Users \cup {"none"}, target : Users \cup {"none"},
            invite : Invites \cup {"none"}, role : Roles \cup {"none"},
            active : {"keep", "active", "inactive"}]
IdleRequest == [pc |-> "idle", by |-> "none", target |-> "none", invite |-> "none",
                role |-> "none", active |-> "keep"]

OrganizationInit ==
    /\ organization = "none"
    /\ member = [u \in Users |-> [state |-> "none", role |-> "MEMBER"]]
    /\ invitation = [i \in Invites |-> [status |-> "none", email |-> "none",
                                        role |-> "MEMBER", expired |-> FALSE]]
    /\ request = [c \in Calls |-> IdleRequest]
    /\ calls = 0
    /\ overlapped = FALSE

IsActive(u) == member[u].state = "active"
IsOwner(u) == IsActive(u) /\ member[u].role = "OWNER"
IsAdminOrOwner(u) == IsActive(u) /\ member[u].role \in {"ADMIN", "OWNER"}
ActiveMembers == {u \in Users : IsActive(u)}

(* checkMemberLimit.  (Mutant: off by one.)                                    *)
BelowLimitOrAt == Cardinality(ActiveMembers) <= MaxMembers
BelowLimit == Cardinality(ActiveMembers) < MaxMembers

(* A request that has passed its tests waits for its write.                    *)
Pass(c, r) ==
    /\ request[c].pc = "idle"
    /\ calls < MaxCalls
    /\ calls' = calls + 1
    /\ request' = [request EXCEPT ![c] = r]
    /\ overlapped' = (overlapped \/ \E d \in Calls \ {c} : request[d].pc # "idle")
    /\ UNCHANGED <<organization, member, invitation>>

Done(c) ==
    /\ request' = [request EXCEPT ![c] = IdleRequest]
    /\ UNCHANGED <<calls, overlapped>>

-------------------------------------------------------------------------------
(* OrganizationsService                                                        *)

(* createOrganization: one transaction; a second one with the slug is refused. *)
CreateOrganization(u) ==
    /\ organization = "none"
    /\ organization' = "active"
    /\ member' = [member EXCEPT ![u] = [state |-> "active", role |-> "OWNER"]]
    /\ UNCHANGED <<invitation, request, calls, overlapped>>

UpdateOrganization(c, u, isActive) ==
    /\ IsOwner(u)
    /\ Pass(c, [IdleRequest EXCEPT !.pc = "updateOrganization", !.active = isActive])

CommitUpdateOrganization(c) ==
    /\ request[c].pc = "updateOrganization"
    /\ organization' = request[c].active
    /\ Done(c)
    /\ UNCHANGED <<member, invitation>>

DeleteOrganization(c, u) ==
    /\ IsOwner(u)
    /\ Pass(c, [IdleRequest EXCEPT !.pc = "deleteOrganization"])

CommitDeleteOrganization(c) ==
    /\ request[c].pc = "deleteOrganization"
    /\ organization' = "inactive"
    /\ member' = [u \in Users |->
                    IF IsActive(u) THEN [member[u] EXCEPT !.state = "inactive"] ELSE member[u]]
    /\ Done(c)
    /\ UNCHANGED invitation

-------------------------------------------------------------------------------
(* InvitationsService                                                          *)

HasRow(email, status) ==
    \E i \in Invites : invitation[i].email = email /\ invitation[i].status = status

(* inviteMember: not a member, room left, no invitation still valid.           *)
InviteMember(c, email, role) ==
    /\ organization # "none"
    /\ ~IsActive(email) /\ BelowLimit
    /\ ~\E i \in Invites : /\ invitation[i].email = email
                           /\ invitation[i].status = "PENDING" /\ ~invitation[i].expired
    /\ Pass(c, [IdleRequest EXCEPT !.pc = "invite", !.target = email, !.role = role])

(* The key (email, organization, status) refuses a second PENDING row, an      *)
(* expired one counts too.  Mail and audit log follow and change nothing here. *)
CreateInvitation(c) ==
    LET email == request[c].target IN
    /\ request[c].pc = "invite"
    /\ \/ /\ ~HasRow(email, "PENDING")
          /\ \E i \in Invites :
                /\ invitation[i].status = "none"
                /\ invitation' = [invitation EXCEPT ![i] =
                      [status |-> "PENDING", email |-> email, role |-> request[c].role,
                       expired |-> FALSE]]
       \/ UNCHANGED invitation
    /\ Done(c)
    /\ UNCHANGED <<organization, member>>

(* The invitation is for the user who accepts it.  (Mutant: or for anybody.)   *)
MatchesAnyEmail(i, u) == TRUE
MatchesEmail(i, u) == invitation[i].email = u

AcceptInvitation(c, i, u) ==
    /\ invitation[i].status = "PENDING" /\ ~invitation[i].expired
    /\ MatchesEmail(i, u) /\ BelowLimit
    /\ Pass(c, [IdleRequest EXCEPT !.pc = "accept", !.target = u, !.invite = i])

(* One transaction; either unique key, or the audit log, rolls it back.  A     *)
(* former member has a row, so he cannot come back.                            *)
CommitAcceptance(c) ==
    LET u == request[c].target
        i == request[c].invite
    IN
    /\ request[c].pc = "accept"
    /\ \/ /\ member[u].state = "none"
          /\ invitation[i].status = "ACCEPTED" \/ ~HasRow(invitation[i].email, "ACCEPTED")
          /\ member' = [member EXCEPT ![u] = [state |-> "active", role |-> invitation[i].role]]
          /\ invitation' = [invitation EXCEPT ![i].status = "ACCEPTED"]
       \/ UNCHANGED <<member, invitation>>
    /\ Done(c)
    /\ UNCHANGED organization

ResendInvitation(c, i) ==
    /\ invitation[i].status = "PENDING"
    /\ Pass(c, [IdleRequest EXCEPT !.pc = "resend", !.invite = i])

CommitResend(c) ==
    /\ request[c].pc = "resend"
    /\ invitation' = [invitation EXCEPT ![request[c].invite].expired = FALSE]
    /\ Done(c)
    /\ UNCHANGED <<organization, member>>

(* revokeInvitation asks only that the row exists; the unique key refuses a    *)
(* second REVOKED row for the same address.                                    *)
RevokeInvitation(i) ==
    /\ invitation[i].status # "none"
    /\ invitation[i].status = "REVOKED" \/ ~HasRow(invitation[i].email, "REVOKED")
    /\ calls < MaxCalls
    /\ calls' = calls + 1
    /\ invitation' = [invitation EXCEPT ![i].status = "REVOKED"]
    /\ UNCHANGED <<organization, member, request, overlapped>>

(* Seven days pass.                                                            *)
Expire(i) ==
    /\ invitation[i].status = "PENDING" /\ ~invitation[i].expired
    /\ invitation' = [invitation EXCEPT ![i].expired = TRUE]
    /\ UNCHANGED <<organization, member, request, calls, overlapped>>

-------------------------------------------------------------------------------
(* MembersService                                                              *)

UpdateMember(c, by, target, role, active) ==
    /\ IsAdminOrOwner(by)
    /\ IsActive(target) /\ ~IsOwner(target)
    /\ role # "none" => IsOwner(by)
    /\ Pass(c, [IdleRequest EXCEPT !.pc = "updateMember", !.target = target,
                                   !.role = role, !.active = active])

RemoveMember(c, by, target) ==
    /\ IsAdminOrOwner(by)
    /\ IsActive(target) /\ ~IsOwner(target) /\ target # by
    /\ Pass(c, [IdleRequest EXCEPT !.pc = "removeMember", !.target = target,
                                   !.active = "inactive"])

LeaveOrganization(c, u) ==
    /\ IsActive(u) /\ ~IsOwner(u)
    /\ Pass(c, [IdleRequest EXCEPT !.pc = "leave", !.target = u, !.active = "inactive"])

(* The three writes: columns the request does not give are kept.  (Mutant: the *)
(* role is written although none is given.)                                    *)
CommitMemberOverwrites(c) ==
    LET r == request[c] IN
    /\ r.pc \in {"updateMember", "removeMember", "leave"}
    /\ member' = [member EXCEPT ![r.target] =
                    [state |-> IF r.active = "keep" THEN @.state ELSE r.active, role |-> r.role]]
    /\ Done(c)
    /\ UNCHANGED <<organization, invitation>>

CommitMember(c) ==
    LET r == request[c] IN
    /\ r.pc \in {"updateMember", "removeMember", "leave"}
    /\ member' = [member EXCEPT ![r.target] =
                    [state |-> IF r.active = "keep" THEN @.state ELSE r.active,
                     role |-> IF r.role = "none" THEN @.role ELSE r.role]]
    /\ Done(c)
    /\ UNCHANGED <<organization, invitation>>

TransferOwnership(c, by, target) ==
    /\ IsOwner(by) /\ IsActive(target)
    /\ Pass(c, [IdleRequest EXCEPT !.pc = "transferOwnership", !.by = by, !.target = target])

(* One transaction: the old owner becomes ADMIN, then the new one OWNER, who   *)
(* may be the same.  The audit log can roll it back.  (Mutant: the other way   *)
(* round.)                                                                     *)
CommitTransferSwapped(c) ==
    LET r == request[c] IN
    /\ r.pc = "transferOwnership"
    /\ member' \in {member, [[member EXCEPT ![r.target].role = "OWNER"] EXCEPT
                                ![r.by].role = "ADMIN"]}
    /\ Done(c)
    /\ UNCHANGED <<organization, invitation>>

CommitTransfer(c) ==
    LET r == request[c] IN
    /\ r.pc = "transferOwnership"
    /\ member' \in {member, [[member EXCEPT ![r.by].role = "ADMIN"] EXCEPT
                                ![r.target].role = "OWNER"]}
    /\ Done(c)
    /\ UNCHANGED <<organization, invitation>>

-------------------------------------------------------------------------------
(* The requests of the three controllers, and the write a request waits for.   *)
OrganizationRequest ==
    \E u \in Users :
       \/ CreateOrganization(u)
       \/ \E c \in Calls : \/ DeleteOrganization(c, u)
                           \/ \E a \in {"active", "inactive"} : UpdateOrganization(c, u, a)

InvitationRequest ==
    \/ \E i \in Invites : \/ RevokeInvitation(i)
                          \/ \E c \in Calls : \/ ResendInvitation(c, i)
                                              \/ \E u \in Users : AcceptInvitation(c, i, u)
    \/ \E c \in Calls, u \in Users, r \in Roles : InviteMember(c, u, r)

MemberRequest ==
    \E c \in Calls, target \in Users :
       \/ LeaveOrganization(c, target)
       \/ \E by \in Users :
             \/ RemoveMember(c, by, target) \/ TransferOwnership(c, by, target)
             \/ \E r \in Roles \cup {"none"}, a \in {"keep", "active", "inactive"} :
                   UpdateMember(c, by, target, r, a)

Commit(c) ==
    \/ CommitUpdateOrganization(c) \/ CommitDeleteOrganization(c)
    \/ CreateInvitation(c) \/ CommitAcceptance(c) \/ CommitResend(c)
    \/ CommitMember(c) \/ CommitTransfer(c)

OrganizationNext ==
    \/ OrganizationRequest \/ InvitationRequest \/ MemberRequest
    \/ \E i \in Invites : Expire(i)
    \/ \E c \in Calls : Commit(c)

OrganizationSpec == OrganizationInit /\ [][OrganizationNext]_organizationVars

-------------------------------------------------------------------------------
(* Properties.                                                                 *)

OrganizationTypeOK ==
    /\ organization \in {"none", "active", "inactive"}
    /\ member \in [Users -> Membership]
    /\ invitation \in [Invites -> Invitation]
    /\ request \in [Calls -> Request]
    /\ calls \in 0..MaxCalls
    /\ overlapped \in BOOLEAN

(* 'Organization owner cannot leave. Transfer ownership first.': as long as    *)
(* requests do not overlap, no sequence of invitations, transfers, updates,    *)
(* removals and departures leaves an active organization without an active     *)
(* owner.                                                                      *)
HasOwner == organization = "active" => \E u \in Users : IsOwner(u)
OwnerKept == ~overlapped => HasOwner

(* 'Organization member limit reached': the limit is tested outside the        *)
(* transaction that adds the member, so overlapping requests may pass it, but  *)
(* by no more than the other requests open with the first.                     *)
MemberLimitOvershoot ==
    Cardinality(ActiveMembers) <= MaxMembers + (IF overlapped THEN Cardinality(Calls) - 1 ELSE 0)

(* Membership and invitation agree across the transaction, a later revocation  *)
(* and any overlap: nobody but the founder is in without an invitation of his  *)
(* own that was taken up, and an ACCEPTED invitation has its member.           *)
MembersWereInvited ==
    /\ Cardinality({u \in Users : member[u].state # "none" /\
                       ~HasRow(u, "ACCEPTED") /\ ~HasRow(u, "REVOKED")}) <= 1
    /\ \A i \in Invites : invitation[i].status = "ACCEPTED" =>
          member[invitation[i].email].state # "none"

===============================================================================
