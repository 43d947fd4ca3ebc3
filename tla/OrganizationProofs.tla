-------------------------- MODULE OrganizationProofs ---------------------------
(* Proofs about Organization, for every set of users and of invitations, every *)
(* finite set of overlapping requests and every limit of members.              *)
EXTENDS Organization, TLAPS, FiniteSetTheorems

-------------------------------------------------------------------------------
(* The inductive invariant.                                                    *)

MemberPcs == {"updateMember", "removeMember", "leave"}

(* What a request in flight still can count on, whatever happens meanwhile:    *)
(* rows stay, and so does the address of an invitation.                        *)
Carries(r) ==
    /\ r.pc = "updateOrganization" => r.active # "keep"
    /\ r.pc = "invite" => r.target \in Users /\ r.role \in Roles
    /\ r.pc = "accept" => /\ r.target \in Users /\ r.invite \in Invites
                          /\ invitation[r.invite].status # "none"
                          /\ invitation[r.invite].email = r.target
    /\ r.pc = "resend" => r.invite \in Invites
    /\ r.pc \in MemberPcs => r.target \in Users /\ member[r.target].state # "none"
    /\ r.pc = "transferOwnership" => r.by \in Users /\ r.target \in Users

RequestInv == \A c \in Calls : Carries(request[c])

(* Nothing comes before the organization.                                      *)
FoundedInv ==
    organization = "none" =>
        /\ \A u \in Users : member[u].state = "none"
        /\ \A i \in Invites : invitation[i].status = "none"
        /\ \A c \in Calls : request[c].pc = "idle"
        /\ ~overlapped

(* Until two requests overlap only one is open, and what it tested still holds *)
(* when it writes.                                                             *)
StillTested(r) ==
    /\ r.pc = "updateOrganization" => \E u \in Users : IsOwner(u)
    /\ r.pc \in MemberPcs => ~IsOwner(r.target)
    /\ r.pc = "transferOwnership" => IsOwner(r.by) /\ IsActive(r.target)

SoloInv ==
    ~overlapped =>
        /\ \A c, d \in Calls : request[c].pc # "idle" /\ request[d].pc # "idle" => c = d
        /\ \A c \in Calls : StillTested(request[c])

(* Those who are active, or will be again when an update that names them is    *)
(* written after a removal, and those who are about to join.                   *)
Reactivating == {c \in Calls : request[c].pc \in MemberPcs /\ request[c].active = "active"}
Present == ActiveMembers \cup {request[c].target : c \in Reactivating}
Accepting == {c \in Calls : request[c].pc = "accept"}

LimitInv ==
    /\ IsFiniteSet(Present)
    /\ Cardinality(Present) + Cardinality(Accepting)
          <= MaxMembers + (IF overlapped THEN Cardinality(Calls) - 1 ELSE 0)

(* Only one, the founder, is in without an invitation.                         *)
Uninvited == {u \in Users : member[u].state # "none" /\
                               ~HasRow(u, "ACCEPTED") /\ ~HasRow(u, "REVOKED")}
InvitedInv ==
    /\ \A u, v \in Uninvited : u = v
    /\ \A i \in Invites : invitation[i].status # "none" => invitation[i].email \in Users
    /\ \A i \in Invites : invitation[i].status = "ACCEPTED" =>
          member[invitation[i].email].state # "none"

OrganizationInv ==
    /\ OrganizationTypeOK /\ RequestInv /\ FoundedInv /\ SoloInv /\ OwnerKept
    /\ LimitInv /\ InvitedInv

-------------------------------------------------------------------------------
(* Counting those who are in.                                                  *)

(* Calls is finite, and so is every set of requests; an open request is one of *)
(* them.                                                                       *)
LEMMA CallsCounted ==
    /\ Cardinality(Calls) \in Nat
    /\ \A S \in SUBSET Calls : IsFiniteSet(S) /\ Cardinality(S) \in Nat
    /\ \A c \in Calls : Cardinality(Calls) >= 1
<1>1. Cardinality(Calls) \in Nat
  BY CallsAssumption, FS_CardinalityType
<1>2. ASSUME NEW S \in SUBSET Calls
      PROVE  IsFiniteSet(S) /\ Cardinality(S) \in Nat
  BY CallsAssumption, FS_Subset, FS_CardinalityType
<1>3. ASSUME NEW c \in Calls PROVE Cardinality(Calls) >= 1
  <2>1. Cardinality(Calls) # 0
    BY <1>3, CallsAssumption, FS_EmptySet
  <2> QED BY <2>1, <1>1
<1> QED BY <1>1, <1>2, <1>3

(* What the limit leaves to overlapping requests.                              *)
Excess == IF overlapped THEN Cardinality(Calls) - 1 ELSE 0

(* Those who will be active again are no more than the requests that say so.   *)
LEMMA PresentBound ==
    ASSUME IsFiniteSet(ActiveMembers)
    PROVE  /\ IsFiniteSet(Present)
           /\ Cardinality(Present) \in Nat /\ Cardinality(ActiveMembers) \in Nat
           /\ Cardinality(Present) <= Cardinality(ActiveMembers) + Cardinality(Reactivating)
<1> DEFINE T == {request[c].target : c \in Reactivating}
           f == [c \in Reactivating |-> request[c].target]
<1>1. Reactivating \in SUBSET Calls
  BY DEF Reactivating
<1>2. IsFiniteSet(Reactivating) /\ Cardinality(Reactivating) \in Nat
  BY <1>1, CallsCounted
<1>3. f \in Surjection(Reactivating, T)
  BY DEF Surjection
<1>4. IsFiniteSet(T) /\ Cardinality(T) <= Cardinality(Reactivating) /\ Cardinality(T) \in Nat
  <2> HIDE DEF f, T
  <2> QED BY <1>2, <1>3, FS_Surjection, FS_CardinalityType
<1>5. /\ IsFiniteSet(ActiveMembers \cup T) /\ IsFiniteSet(ActiveMembers \cap T)
      /\ Cardinality(ActiveMembers \cup T) = Cardinality(ActiveMembers) + Cardinality(T)
                                             - Cardinality(ActiveMembers \cap T)
  <2> HIDE DEF T
  <2>1. ActiveMembers \cap T \in SUBSET T
    OBVIOUS
  <2> QED BY <2>1, <1>4, FS_Union, FS_Subset
<1>6. /\ Cardinality(ActiveMembers) \in Nat /\ Cardinality(ActiveMembers \cap T) \in Nat
      /\ Cardinality(ActiveMembers \cup T) \in Nat
  <2> HIDE DEF T
  <2> QED BY <1>5, FS_CardinalityType
<1>7. Present = ActiveMembers \cup T
  BY DEF Present
<1> HIDE DEF T
<1> QED BY <1>2, <1>4, <1>5, <1>6, <1>7

(* Nobody comes in and nobody starts to accept: the limit is kept.             *)
LEMMA LimitKept ==
    ASSUME OrganizationInv, Present' \subseteq Present, Accepting' \subseteq Accepting,
           Excess <= Excess'
    PROVE  LimitInv'
<1>1. /\ IsFiniteSet(Present)
      /\ Cardinality(Present) + Cardinality(Accepting) <= MaxMembers + Excess
  BY DEF OrganizationInv, LimitInv, Excess
<1>2. /\ Accepting \in SUBSET Calls /\ IsFiniteSet(Accepting) /\ IsFiniteSet(Accepting')
  BY CallsCounted, FS_Subset DEF Accepting
<1>3. /\ IsFiniteSet(Present') /\ Cardinality(Present') <= Cardinality(Present)
      /\ Cardinality(Accepting') <= Cardinality(Accepting)
  BY <1>1, <1>2, FS_Subset
<1>4. /\ Cardinality(Present) \in Nat /\ Cardinality(Present') \in Nat
      /\ Cardinality(Accepting) \in Nat /\ Cardinality(Accepting') \in Nat
  BY <1>1, <1>2, <1>3, FS_CardinalityType
<1>5. MaxMembers \in Nat /\ Excess \in Int /\ Excess' \in Int
  BY OrganizationAssumption, CallsCounted DEF Excess
<1>6. Cardinality(Present') + Cardinality(Accepting') <= MaxMembers + Excess'
  BY <1>1, <1>3, <1>4, <1>5
<1> QED BY <1>3, <1>6 DEF LimitInv, Excess

(* One who joins takes the place of the request that brought him in.           *)
LEMMA LimitSwapped ==
    ASSUME OrganizationInv, NEW c \in Accepting, NEW u, Present' \subseteq Present \cup {u},
           Accepting' = Accepting \ {c}, overlapped' = overlapped
    PROVE  LimitInv'
<1>1. /\ IsFiniteSet(Present)
      /\ Cardinality(Present) + Cardinality(Accepting) <= MaxMembers + Excess
  BY DEF OrganizationInv, LimitInv, Excess
<1>2. Accepting \in SUBSET Calls /\ IsFiniteSet(Accepting) /\ Cardinality(Accepting) \in Nat
  BY CallsCounted DEF Accepting
<1>3. Cardinality(Accepting') = Cardinality(Accepting) - 1
  BY <1>2, FS_RemoveElement
<1>4. /\ IsFiniteSet(Present \cup {u}) /\ Cardinality(Present) \in Nat
      /\ Cardinality(Present \cup {u}) <= Cardinality(Present) + 1
  <2>1. Cardinality(Present) \in Nat
    BY <1>1, FS_CardinalityType
  <2>2. /\ IsFiniteSet(Present \cup {u})
        /\ Cardinality(Present \cup {u}) =
              IF u \in Present THEN Cardinality(Present) ELSE Cardinality(Present) + 1
    BY <1>1, FS_AddElement
  <2> QED BY <2>1, <2>2
<1>5. IsFiniteSet(Present') /\ Cardinality(Present') <= Cardinality(Present \cup {u})
  BY <1>4, FS_Subset
<1>6. Cardinality(Present') \in Nat /\ Cardinality(Present \cup {u}) \in Nat
  BY <1>4, <1>5, FS_CardinalityType
<1>7. MaxMembers \in Nat /\ Excess \in Int /\ Excess' = Excess
  BY OrganizationAssumption, CallsCounted DEF Excess
<1>8. Cardinality(Present') + Cardinality(Accepting') <= MaxMembers + Excess'
  BY <1>1, <1>2, <1>3, <1>4, <1>5, <1>6, <1>7
<1> QED BY <1>5, <1>8 DEF LimitInv, Excess

(* A request passes the test of the limit: beside those who are active, only   *)
(* the other requests in flight can add members before it writes.              *)
LEMMA LimitTested ==
    ASSUME OrganizationInv, NEW c \in Calls, request[c].pc = "idle", BelowLimit,
           Present' = Present, Accepting' = Accepting \cup {c},
           overlapped' = (overlapped \/ \E d \in Calls \ {c} : request[d].pc # "idle")
    PROVE  LimitInv'
<1>1. IsFiniteSet(ActiveMembers)
  <2>1. IsFiniteSet(Present) /\ ActiveMembers \in SUBSET Present
    BY DEF OrganizationInv, LimitInv, Present
  <2> QED BY <2>1, FS_Subset
<1>2. /\ IsFiniteSet(Present)
      /\ Cardinality(Present) \in Nat /\ Cardinality(ActiveMembers) \in Nat
      /\ Cardinality(Present) <= Cardinality(ActiveMembers) + Cardinality(Reactivating)
  BY <1>1, PresentBound
<1>3. Accepting \in SUBSET Calls /\ Reactivating \in SUBSET Calls /\ c \notin Accepting
  BY DEF Accepting, Reactivating
<1>4. /\ IsFiniteSet(Accepting) /\ IsFiniteSet(Reactivating)
      /\ Cardinality(Accepting) \in Nat /\ Cardinality(Reactivating) \in Nat
  BY <1>3, CallsCounted
<1>5. Cardinality(Accepting') = Cardinality(Accepting) + 1
  BY <1>3, <1>4, FS_AddElement
<1>6. Cardinality(Accepting') + Cardinality(Reactivating) <= Cardinality(Calls)
  <2>1. /\ Accepting' \in SUBSET Calls /\ Accepting' \cup Reactivating \in SUBSET Calls
        /\ Accepting' \cap Reactivating = {}
    BY <1>3 DEF Accepting, Reactivating, MemberPcs
  <2>2. IsFiniteSet(Accepting')
    BY <2>1, CallsCounted
  <2>3. Cardinality(Accepting' \cup Reactivating)
           = Cardinality(Accepting') + Cardinality(Reactivating) - 0
    BY <2>1, <2>2, <1>4, FS_Union, FS_EmptySet
  <2>4. Cardinality(Accepting' \cup Reactivating) <= Cardinality(Calls)
    BY <2>1, CallsAssumption, FS_Subset
  <2>5. Cardinality(Accepting') \in Nat
    BY <1>4, <1>5
  <2> QED BY <2>3, <2>4, <2>5, <1>4
<1>7. /\ MaxMembers \in Nat /\ Cardinality(ActiveMembers) < MaxMembers
      /\ Cardinality(Calls) \in Nat
  BY OrganizationAssumption, CallsCounted DEF BelowLimit
<1>8. CASE overlapped'
  <2>1. Cardinality(Present) + Cardinality(Accepting') <= MaxMembers + (Cardinality(Calls) - 1)
    BY <1>2, <1>4, <1>5, <1>6, <1>7
  <2> QED BY <1>2, <1>8, <2>1 DEF LimitInv
<1>9. CASE ~overlapped'
  <2>1. Accepting = {} /\ Reactivating = {}
    BY <1>9 DEF Accepting, Reactivating, MemberPcs
  <2>2. Cardinality(Accepting) = 0 /\ Cardinality(Reactivating) = 0
    BY <2>1, FS_EmptySet
  <2>3. Cardinality(Present) + Cardinality(Accepting') <= MaxMembers + 0
    BY <2>2, <1>2, <1>5, <1>7
  <2> QED BY <1>2, <1>9, <2>3 DEF LimitInv
<1> QED BY <1>8, <1>9

-------------------------------------------------------------------------------
(* What the steps have in common.                                              *)

(* The rows agree as before when no user comes in or loses his row and no      *)
(* invitation is newly ACCEPTED; an ACCEPTED one may be revoked.               *)
LEMMA InvitedKept ==
    ASSUME OrganizationInv, 
           \A u \in Users : member'[u].state # "none" <=> member[u].state # "none",
           \A i \in Invites :
              /\ invitation[i].status \in {"ACCEPTED", "REVOKED"} =>
                    /\ invitation'[i].status \in {"ACCEPTED", "REVOKED"}
                    /\ invitation'[i].email = invitation[i].email
              /\ invitation'[i].status = "ACCEPTED" => invitation[i].status = "ACCEPTED"
              /\ invitation'[i].status # "none" => invitation'[i].email \in Users
    PROVE  InvitedInv'
<1>1. InvitedInv
  BY DEF OrganizationInv
<1>2. Uninvited' \subseteq Uninvited
  BY DEF Uninvited, HasRow
<1>3. \A i \in Invites : invitation'[i].status = "ACCEPTED" => 
          member'[invitation'[i].email].state # "none"
  BY <1>1 DEF InvitedInv
<1> QED BY <1>1, <1>2, <1>3 DEF InvitedInv

(* A request that has passed its tests, and carries what they told, waits.     *)
LEMMA PassKeeps ==
    ASSUME OrganizationInv, NEW c \in Calls, NEW r \in Request, Pass(c, r),
           organization # "none", Carries(r), StillTested(r),
           r.pc = "accept" => BelowLimit,
           r.pc \in MemberPcs => IsActive(r.target)
    PROVE  OrganizationInv'
<1>0. /\ OrganizationTypeOK /\ RequestInv /\ FoundedInv /\ SoloInv /\ OwnerKept /\ InvitedInv
      /\ UNCHANGED <<organization, member, invitation>>
  BY DEF OrganizationInv, Pass
<1>1. /\ request \in [Calls -> Request] /\ request' = [request EXCEPT ![c] = r]
      /\ request[c].pc = "idle"
  BY DEF OrganizationInv, OrganizationTypeOK, Pass
<1>2. request'[c] = r /\ \A d \in Calls \ {c} : request'[d] = request[d]
  BY <1>1
<1>3. OrganizationTypeOK'
  <2>1. request' \in [Calls -> Request]
    BY <1>1
  <2>2. calls' \in 0..MaxCalls
    BY OrganizationAssumption, <1>0 DEF OrganizationTypeOK, Pass
  <2>3. overlapped' \in BOOLEAN
    BY Zenon, <1>0 DEF OrganizationTypeOK, Pass
  <2> QED BY <1>0, <2>1, <2>2, <2>3 DEF OrganizationTypeOK
<1>4. RequestInv'
  BY <1>0, <1>2 DEF RequestInv, Carries
<1>5. FoundedInv'
  BY <1>0 DEF FoundedInv
<1>6. SoloInv'
  <2> SUFFICES ASSUME ~overlapped'
               PROVE  /\ \A a, d \in Calls : request'[a].pc # "idle" /\ request'[d].pc # "idle" => a = d
                      /\ \A d \in Calls : StillTested(request[d])'
    BY DEF SoloInv
  <2>1. \A d \in Calls \ {c} : request[d].pc = "idle"
    BY DEF Pass
  <2>2. \A d \in Calls : StillTested(request[d])'
    BY <2>1, <1>0, <1>2 DEF StillTested, IsOwner, IsActive, MemberPcs
  <2> QED BY <2>1, <2>2, <1>2
<1>7. OwnerKept'
  BY <1>0 DEF OwnerKept, HasOwner, IsOwner, IsActive, Pass
<1>8. InvitedInv'
  BY <1>0 DEF InvitedInv, Uninvited, HasRow
<1>9. Present' = Present
  BY <1>0, <1>1, <1>2 DEF Present, Reactivating, ActiveMembers, IsActive, Carries, MemberPcs
<1>10. LimitInv'
  <2>1. CASE r.pc = "accept"
    <3>1. Accepting' = Accepting \cup {c}
      BY <1>2, <2>1 DEF Accepting
    <3> QED BY <1>1, <1>9, <2>1, <3>1, LimitTested DEF Pass
  <2>2. CASE r.pc # "accept"
    <3>1. Accepting' \subseteq Accepting
      BY <1>2, <2>2 DEF Accepting
    <3>2. Excess <= Excess'
      <4>1. Cardinality(Calls) \in Nat /\ Cardinality(Calls) >= 1
        BY CallsCounted
      <4>2. overlapped => overlapped'
        BY DEF Pass
      <4> QED BY <4>1, <4>2 DEF Excess
    <3> QED BY <1>9, <3>1, <3>2, LimitKept
  <2> QED BY <2>1, <2>2
<1> QED BY <1>3, <1>4, <1>5, <1>6, <1>7, <1>8, <1>10 DEF OrganizationInv

(* A write ends its request; rows stay, and so do the addresses.               *)
LEMMA CommitKeeps ==
    ASSUME OrganizationInv, NEW c \in Calls, request[c].pc # "idle", Done(c),
           organization' \in {"active", "inactive"} \/ organization' = organization,
           member' \in [Users -> Membership], invitation' \in [Invites -> Invitation],
           \A u \in Users : member[u].state # "none" => member'[u].state # "none",
           \A i \in Invites : invitation[i].status # "none" =>
              invitation'[i].status # "none" /\ invitation'[i].email = invitation[i].email,
           ~overlapped => HasOwner', LimitInv', InvitedInv'
    PROVE  OrganizationInv'
<1>0. OrganizationTypeOK /\ RequestInv /\ FoundedInv /\ SoloInv /\ request \in [Calls -> Request]
  BY DEF OrganizationInv, OrganizationTypeOK
<1>1. /\ request'[c] = IdleRequest /\ \A d \in Calls \ {c} : request'[d] = request[d]
      /\ request' \in [Calls -> Request] /\ UNCHANGED <<calls, overlapped>>
  <2>1. IdleRequest \in Request
    BY DEF IdleRequest, Request, Pcs
  <2> QED BY <1>0, <2>1 DEF Done
<1>2. organization # "none" /\ organization' # "none"
  BY <1>0 DEF FoundedInv
<1>3. OrganizationTypeOK' /\ FoundedInv'
  BY <1>0, <1>1, <1>2 DEF OrganizationTypeOK, FoundedInv
<1>4. RequestInv'
  <2> SUFFICES ASSUME NEW d \in Calls PROVE Carries(request[d])'
    BY DEF RequestInv
  <2>1. CASE d = c
    BY <2>1, <1>1 DEF Carries, IdleRequest, MemberPcs
  <2>2. CASE d # c
    <3>1. Carries(request[d]) /\ request'[d] = request[d]
      BY <2>2, <1>0, <1>1 DEF RequestInv
    <3> QED BY <3>1 DEF Carries
  <2> QED BY <2>1, <2>2
<1>5. SoloInv'
  <2> SUFFICES ASSUME ~overlapped PROVE \A d \in Calls : request'[d].pc = "idle"
    BY <1>1 DEF SoloInv, StillTested, MemberPcs
  <2> QED BY <1>0, <1>1 DEF SoloInv, IdleRequest
<1> QED BY <1>1, <1>3, <1>4, <1>5 DEF OrganizationInv, OwnerKept

-------------------------------------------------------------------------------
(* The invariant holds initially, and every step keeps it.                     *)

LEMMA InitKeeps == OrganizationInit => OrganizationInv
<1> SUFFICES ASSUME OrganizationInit PROVE OrganizationInv
  OBVIOUS
<1>1. OrganizationTypeOK
  <2>1. member \in [Users -> Membership] /\ invitation \in [Invites -> Invitation]
    <3> DEFINE m == [state |-> "none", role |-> "MEMBER"]
               i == [status |-> "none", email |-> "none", role |-> "MEMBER", expired |-> FALSE]
    <3>1. m \in Membership /\ i \in Invitation
      BY DEF Membership, Invitation, Roles
    <3>2. member = [u \in Users |-> m] /\ invitation = [j \in Invites |-> i]
      BY DEF OrganizationInit
    <3> HIDE DEF m, i
    <3> QED BY <3>1, <3>2
  <2>2. IdleRequest \in Request
    BY DEF IdleRequest, Request, Pcs
  <2>3. request \in [Calls -> Request]
    BY <2>2 DEF OrganizationInit
  <2>4. organization = "none" /\ calls = 0 /\ overlapped = FALSE
    BY DEF OrganizationInit
  <2>5. calls \in 0..MaxCalls
    BY <2>4, OrganizationAssumption
  <2> QED BY <2>1, <2>3, <2>4, <2>5 DEF OrganizationTypeOK
<1>2. RequestInv /\ FoundedInv /\ SoloInv
  BY DEF OrganizationInit, RequestInv, Carries, FoundedInv, SoloInv, StillTested, MemberPcs,
         IdleRequest
<1>3. OwnerKept /\ InvitedInv
  BY DEF OrganizationInit, OwnerKept, HasOwner, InvitedInv, Uninvited
<1>4. LimitInv
  <2>1. Present = {} /\ Accepting = {}
    BY DEF OrganizationInit, Present, ActiveMembers, IsActive, Reactivating, Accepting, MemberPcs,
           IdleRequest
  <2> QED BY <2>1, FS_EmptySet, OrganizationAssumption DEF LimitInv, OrganizationInit
<1> QED BY <1>1, <1>2, <1>3, <1>4 DEF OrganizationInv

(* The founder is the first and the only member.                               *)
LEMMA CreateKeeps ==
    ASSUME OrganizationInv, NEW u \in Users, CreateOrganization(u)
    PROVE  OrganizationInv'
<1>0. /\ OrganizationTypeOK /\ RequestInv /\ SoloInv
      /\ \A v \in Users : member[v].state = "none"
      /\ \A i \in Invites : invitation[i].status = "none"
      /\ \A c \in Calls : request[c].pc = "idle"
      /\ ~overlapped
      /\ UNCHANGED <<invitation, request, calls, overlapped>>
  BY DEF OrganizationInv, FoundedInv, CreateOrganization
<1>1. /\ member' \in [Users -> Membership]
      /\ member'[u] = [state |-> "active", role |-> "OWNER"]
      /\ \A v \in Users \ {u} : member'[v] = member[v]
  BY <1>0 DEF OrganizationTypeOK, CreateOrganization, Membership, Roles
<1>2. OrganizationTypeOK' /\ FoundedInv'
  BY <1>0, <1>1 DEF OrganizationTypeOK, FoundedInv, CreateOrganization
<1>3. RequestInv' /\ SoloInv'
  BY <1>0 DEF RequestInv, Carries, SoloInv, StillTested, MemberPcs
<1>4. OwnerKept'
  BY <1>1 DEF OwnerKept, HasOwner, IsOwner, IsActive
<1>5. InvitedInv'
  BY <1>0, <1>1 DEF InvitedInv, Uninvited
<1>6. LimitInv'
  <2>1. Present' = {u} /\ Accepting' = {}
    BY <1>0, <1>1 DEF Present, ActiveMembers, IsActive, Reactivating, Accepting, MemberPcs
  <2>2. /\ IsFiniteSet(Present') /\ Cardinality(Present') = 1 /\ Cardinality(Accepting') = 0
    BY <2>1, FS_Singleton, FS_EmptySet
  <2>3. ~overlapped'
    BY <1>0
  <2> QED BY <2>2, <2>3, OrganizationAssumption DEF LimitInv
<1> QED BY <1>2, <1>3, <1>4, <1>5, <1>6 DEF OrganizationInv

(* Nobody is active and no invitation has a row before the organization.       *)
LEMMA FoundedFirst ==
    ASSUME OrganizationInv
    PROVE  /\ \A u \in Users : IsActive(u) => organization # "none"
           /\ \A i \in Invites : invitation[i].status # "none" => organization # "none"
BY DEF OrganizationInv, FoundedInv, IsActive

LEMMA OrganizationRequestKeeps ==
    ASSUME OrganizationInv, OrganizationRequest PROVE OrganizationInv'
<1> SUFFICES ASSUME NEW u \in Users,
                    \/ CreateOrganization(u)
                    \/ \E c \in Calls : \/ DeleteOrganization(c, u)
                                        \/ \E a \in {"active", "inactive"} :
                                              UpdateOrganization(c, u, a)
             PROVE  OrganizationInv'
  BY DEF OrganizationRequest
<1>1. CASE CreateOrganization(u)
  BY <1>1, CreateKeeps
<1>2. ASSUME NEW c \in Calls, DeleteOrganization(c, u) PROVE OrganizationInv'
  <2> DEFINE r == [IdleRequest EXCEPT !.pc = "deleteOrganization"]
  <2>1. r \in Request /\ r.pc = "deleteOrganization"
    BY DEF IdleRequest, Request, Pcs
  <2>2. Pass(c, r) /\ organization # "none"
    BY <1>2, FoundedFirst DEF DeleteOrganization, IsOwner
  <2> HIDE DEF r
  <2>3. Carries(r) /\ StillTested(r)
    BY <2>1 DEF Carries, StillTested, MemberPcs
  <2> QED BY <2>1, <2>2, <2>3, PassKeeps DEF MemberPcs
<1>3. ASSUME NEW c \in Calls, NEW a \in {"active", "inactive"}, UpdateOrganization(c, u, a)
      PROVE  OrganizationInv'
  <2> DEFINE r == [IdleRequest EXCEPT !.pc = "updateOrganization", !.active = a]
  <2>1. r \in Request /\ r.pc = "updateOrganization" /\ r.active = a
    BY DEF IdleRequest, Request, Pcs
  <2>2. Pass(c, r) /\ organization # "none" /\ IsOwner(u)
    BY <1>3, FoundedFirst DEF UpdateOrganization, IsOwner
  <2> HIDE DEF r
  <2>3. Carries(r) /\ StillTested(r)
    BY <2>1, <2>2 DEF Carries, StillTested, MemberPcs
  <2> QED BY <2>1, <2>2, <2>3, PassKeeps DEF MemberPcs
<1> QED BY <1>1, <1>2, <1>3

(* A write of an invitation alone: who is in, and who asks, stays.             *)
LEMMA InvitationWritten ==
    ASSUME OrganizationInv, UNCHANGED <<organization, member, request, overlapped>>,
           calls' \in 0..MaxCalls, invitation' \in [Invites -> Invitation],
           \A i \in Invites :
              invitation'[i] # invitation[i] =>
                 /\ invitation[i].status # "none" /\ invitation'[i].email = invitation[i].email
                 /\ invitation'[i].status \in {invitation[i].status, "REVOKED"}
    PROVE  OrganizationInv'
<1>0. /\ OrganizationTypeOK /\ RequestInv /\ FoundedInv /\ SoloInv /\ OwnerKept
      /\ LimitInv /\ InvitedInv
  BY DEF OrganizationInv
<1>1. OrganizationTypeOK'
  BY <1>0 DEF OrganizationTypeOK
<1>2. RequestInv'
  BY <1>0 DEF RequestInv, Carries
<1>3. FoundedInv'
  BY <1>0 DEF FoundedInv
<1>4. SoloInv' /\ OwnerKept'
  BY <1>0 DEF SoloInv, StillTested, OwnerKept, HasOwner, IsOwner, IsActive
<1>5. LimitInv'
  BY <1>0 DEF LimitInv, Present, ActiveMembers, IsActive, Reactivating, Accepting
<1>6. InvitedInv'
  <2>1. \A i \in Invites :
              /\ invitation[i].status \in {"ACCEPTED", "REVOKED"} =>
                    /\ invitation'[i].status \in {"ACCEPTED", "REVOKED"}
                    /\ invitation'[i].email = invitation[i].email
              /\ invitation'[i].status = "ACCEPTED" => invitation[i].status = "ACCEPTED"
              /\ invitation'[i].status # "none" => invitation'[i].email \in Users
    BY <1>0 DEF InvitedInv
  <2> QED BY <2>1, InvitedKept
<1> QED BY <1>1, <1>2, <1>3, <1>4, <1>5, <1>6 DEF OrganizationInv

LEMMA RevokeKeeps ==
    ASSUME OrganizationInv, NEW i \in Invites, RevokeInvitation(i) PROVE OrganizationInv'
<1>1. invitation \in [Invites -> Invitation] /\ calls \in 0..MaxCalls /\ MaxCalls \in Nat
  BY OrganizationAssumption DEF OrganizationInv, OrganizationTypeOK
<1>2. calls' \in 0..MaxCalls
  BY <1>1 DEF RevokeInvitation
<1>3. invitation' \in [Invites -> Invitation]
  BY <1>1 DEF RevokeInvitation, Invitation
<1>4. \A j \in Invites :
         invitation'[j] # invitation[j] =>
            /\ invitation[j].status # "none" /\ invitation'[j].email = invitation[j].email
            /\ invitation'[j].status \in {invitation[j].status, "REVOKED"}
  BY <1>1 DEF RevokeInvitation, Invitation
<1> QED BY <1>2, <1>3, <1>4, InvitationWritten DEF RevokeInvitation

LEMMA ExpireKeeps ==
    ASSUME OrganizationInv, NEW i \in Invites, Expire(i) PROVE OrganizationInv'
<1>1. invitation \in [Invites -> Invitation] /\ calls' \in 0..MaxCalls
  BY DEF OrganizationInv, OrganizationTypeOK, Expire
<1>2. invitation' \in [Invites -> Invitation]
  BY <1>1 DEF Expire, Invitation
<1>3. \A j \in Invites :
         invitation'[j] # invitation[j] =>
            /\ invitation[j].status # "none" /\ invitation'[j].email = invitation[j].email
            /\ invitation'[j].status \in {invitation[j].status, "REVOKED"}
  BY <1>1 DEF Expire, Invitation
<1> QED BY <1>1, <1>2, <1>3, InvitationWritten DEF Expire

LEMMA InvitationRequestKeeps ==
    ASSUME OrganizationInv, InvitationRequest PROVE OrganizationInv'
<1>0. \A i \in Invites : invitation[i].status # "none" => invitation[i].email \in Users
  BY DEF OrganizationInv, InvitedInv
<1>1. ASSUME NEW i \in Invites, RevokeInvitation(i) PROVE OrganizationInv'
  BY <1>1, RevokeKeeps
<1>2. ASSUME NEW i \in Invites, NEW c \in Calls, ResendInvitation(c, i) PROVE OrganizationInv'
  <2> DEFINE r == [IdleRequest EXCEPT !.pc = "resend", !.invite = i]
  <2>1. r \in Request /\ r.pc = "resend" /\ r.invite = i
    BY DEF IdleRequest, Request, Pcs
  <2>2. Pass(c, r) /\ organization # "none"
    BY <1>2, FoundedFirst DEF ResendInvitation
  <2> HIDE DEF r
  <2>3. Carries(r) /\ StillTested(r)
    BY <2>1 DEF Carries, StillTested, MemberPcs
  <2> QED BY <2>1, <2>2, <2>3, PassKeeps DEF MemberPcs
<1>3. ASSUME NEW i \in Invites, NEW c \in Calls, NEW u \in Users, AcceptInvitation(c, i, u)
      PROVE  OrganizationInv'
  <2> DEFINE r == [IdleRequest EXCEPT !.pc = "accept", !.target = u, !.invite = i]
  <2>1. r \in Request /\ r.pc = "accept" /\ r.invite = i /\ r.target = u
    BY DEF IdleRequest, Request, Pcs
  <2>2. /\ Pass(c, r) /\ organization # "none" /\ BelowLimit
        /\ invitation[i].status # "none" /\ invitation[i].email = u
    BY <1>3, FoundedFirst DEF AcceptInvitation, MatchesEmail
  <2> HIDE DEF r
  <2>3. Carries(r) /\ StillTested(r)
    BY <2>1, <2>2 DEF Carries, StillTested, MemberPcs
  <2> QED BY <2>1, <2>2, <2>3, PassKeeps DEF MemberPcs
<1>4. ASSUME NEW c \in Calls, NEW u \in Users, NEW role \in Roles, InviteMember(c, u, role)
      PROVE  OrganizationInv'
  <2> DEFINE r == [IdleRequest EXCEPT !.pc = "invite", !.target = u, !.role = role]
  <2>1. r \in Request /\ r.pc = "invite" /\ r.target = u /\ r.role = role
    BY DEF IdleRequest, Request, Pcs
  <2>2. Pass(c, r) /\ organization # "none"
    BY <1>4 DEF InviteMember
  <2> HIDE DEF r
  <2>3. Carries(r) /\ StillTested(r)
    BY <2>1 DEF Carries, StillTested, MemberPcs
  <2> QED BY <2>1, <2>2, <2>3, PassKeeps DEF MemberPcs
<1> QED BY <1>1, <1>2, <1>3, <1>4 DEF InvitationRequest

(* The three requests that will write a member's row carry what they tested.   *)
LEMMA MemberPassKeeps ==
    ASSUME OrganizationInv, NEW c \in Calls, NEW r \in Request, Pass(c, r),
           r.pc \in MemberPcs, r.target \in Users, IsActive(r.target), ~IsOwner(r.target)
    PROVE  OrganizationInv'
<1>1. organization # "none"
  BY FoundedFirst
<1>2. Carries(r) /\ StillTested(r) /\ r.pc # "accept"
  BY DEF Carries, StillTested, IsActive, MemberPcs
<1> QED BY <1>1, <1>2, PassKeeps

LEMMA MemberRequestKeeps ==
    ASSUME OrganizationInv, MemberRequest PROVE OrganizationInv'
<1>1. ASSUME NEW c \in Calls, NEW u \in Users, LeaveOrganization(c, u) PROVE OrganizationInv'
  <2> DEFINE r == [IdleRequest EXCEPT !.pc = "leave", !.target = u, !.active = "inactive"]
  <2>1. r \in Request /\ r.pc \in MemberPcs /\ r.target = u
    BY DEF IdleRequest, Request, Pcs, MemberPcs
  <2>2. Pass(c, r) /\ IsActive(u) /\ ~IsOwner(u)
    BY <1>1 DEF LeaveOrganization
  <2> HIDE DEF r
  <2> QED BY <2>1, <2>2, MemberPassKeeps
<1>2. ASSUME NEW c \in Calls, NEW u \in Users, NEW by \in Users, RemoveMember(c, by, u)
      PROVE  OrganizationInv'
  <2> DEFINE r == [IdleRequest EXCEPT !.pc = "removeMember", !.target = u, !.active = "inactive"]
  <2>1. r \in Request /\ r.pc \in MemberPcs /\ r.target = u
    BY DEF IdleRequest, Request, Pcs, MemberPcs
  <2>2. Pass(c, r) /\ IsActive(u) /\ ~IsOwner(u)
    BY <1>2 DEF RemoveMember
  <2> HIDE DEF r
  <2> QED BY <2>1, <2>2, MemberPassKeeps
<1>3. ASSUME NEW c \in Calls, NEW u \in Users, NEW by \in Users,
             NEW role \in Roles \cup {"none"}, NEW a \in {"keep", "active", "inactive"},
             UpdateMember(c, by, u, role, a)
      PROVE  OrganizationInv'
  <2> DEFINE r == [IdleRequest EXCEPT !.pc = "updateMember", !.target = u,
                                      !.role = role, !.active = a]
  <2>1. r \in Request /\ r.pc \in MemberPcs /\ r.target = u
    BY DEF IdleRequest, Request, Pcs, MemberPcs
  <2>2. Pass(c, r) /\ IsActive(u) /\ ~IsOwner(u)
    BY <1>3 DEF UpdateMember
  <2> HIDE DEF r
  <2> QED BY <2>1, <2>2, MemberPassKeeps
<1>4. ASSUME NEW c \in Calls, NEW u \in Users, NEW by \in Users, TransferOwnership(c, by, u)
      PROVE  OrganizationInv'
  <2> DEFINE r == [IdleRequest EXCEPT !.pc = "transferOwnership", !.by = by, !.target = u]
  <2>1. r \in Request /\ r.pc = "transferOwnership" /\ r.target = u /\ r.by = by
    BY DEF IdleRequest, Request, Pcs
  <2>2. Pass(c, r) /\ IsOwner(by) /\ IsActive(u) /\ organization # "none"
    BY <1>4, FoundedFirst DEF TransferOwnership
  <2> HIDE DEF r
  <2>3. Carries(r) /\ StillTested(r)
    BY <2>1, <2>2 DEF Carries, StillTested, MemberPcs
  <2> QED BY <2>1, <2>2, <2>3, PassKeeps DEF MemberPcs
<1> QED BY <1>1, <1>2, <1>3, <1>4 DEF MemberRequest

(* The seven writes.                                                           *)

(* A write takes its request out of those that will add somebody.              *)
LEMMA DoneRequests ==
    ASSUME OrganizationInv, NEW c \in Calls, Done(c)
    PROVE  /\ Reactivating' = Reactivating \ {c} /\ Accepting' = Accepting \ {c}
           /\ \A d \in Calls \ {c} : request'[d] = request[d]
           /\ Excess' = Excess
<1>1. request \in [Calls -> Request]
  BY DEF OrganizationInv, OrganizationTypeOK
<1>2. request'[c] = IdleRequest /\ \A d \in Calls \ {c} : request'[d] = request[d]
  BY <1>1 DEF Done
<1>3. Reactivating' = Reactivating \ {c} /\ Accepting' = Accepting \ {c}
  BY <1>2 DEF Reactivating, Accepting, IdleRequest, MemberPcs
<1> QED BY <1>2, <1>3 DEF Done, Excess

(* Writes that leave nobody active who was not, or was not about to be.        *)
LEMMA WriteLimit ==
    ASSUME OrganizationInv, NEW c \in Calls, Done(c), ActiveMembers' \subseteq Present
    PROVE  LimitInv'
<1>1. /\ Reactivating' = Reactivating \ {c} /\ Accepting' = Accepting \ {c}
      /\ \A d \in Calls \ {c} : request'[d] = request[d]
      /\ Excess' = Excess
  BY DoneRequests
<1>2. Present' \subseteq Present
  BY <1>1 DEF Present, Reactivating
<1>3. Excess <= Excess'
  <2>1. Excess \in Int
    BY CallsCounted DEF Excess
  <2> QED BY <2>1, <1>1
<1> QED BY <1>1, <1>2, <1>3, LimitKept

LEMMA CommitUpdateOrganizationKeeps ==
    ASSUME OrganizationInv, NEW c \in Calls, CommitUpdateOrganization(c) PROVE OrganizationInv'
<1>0. /\ OrganizationTypeOK /\ RequestInv /\ SoloInv /\ InvitedInv
      /\ request[c].pc = "updateOrganization" /\ UNCHANGED <<member, invitation>>
      /\ organization' = request[c].active /\ Done(c)
  BY DEF OrganizationInv, CommitUpdateOrganization
<1>1. organization' \in {"active", "inactive"}
  BY <1>0 DEF OrganizationTypeOK, Request, RequestInv, Carries
<1>2. ~overlapped => HasOwner'
  BY <1>0 DEF SoloInv, StillTested, HasOwner, IsOwner, IsActive
<1>3. InvitedInv'
  BY <1>0 DEF InvitedInv, Uninvited, HasRow
<1>4. LimitInv'
  BY <1>0, WriteLimit DEF Present, ActiveMembers, IsActive
<1> QED BY <1>0, <1>1, <1>2, <1>3, <1>4, CommitKeeps DEF OrganizationTypeOK

LEMMA CommitDeleteOrganizationKeeps ==
    ASSUME OrganizationInv, NEW c \in Calls, CommitDeleteOrganization(c) PROVE OrganizationInv'
<1>0. /\ member \in [Users -> Membership] /\ invitation \in [Invites -> Invitation] /\ InvitedInv
      /\ request[c].pc = "deleteOrganization" /\ organization' = "inactive"
      /\ UNCHANGED invitation /\ Done(c)
  BY DEF OrganizationInv, OrganizationTypeOK, CommitDeleteOrganization
<1>1. ASSUME NEW u \in Users
      PROVE  /\ member'[u] \in Membership /\ member'[u].state # "active"
             /\ member'[u].state # "none" <=> member[u].state # "none"
  <2>1. member[u] \in Membership
    BY <1>0
  <2>2. member'[u] = IF IsActive(u) THEN [member[u] EXCEPT !.state = "inactive"] ELSE member[u]
    BY DEF CommitDeleteOrganization
  <2> QED BY <2>1, <2>2 DEF Membership, IsActive
<1>2. member' \in [Users -> Membership]
  <2>1. member' = [u \in Users |-> member'[u]]
    BY DEF CommitDeleteOrganization
  <2> QED BY <1>1, <2>1
<1>3. ~overlapped => HasOwner'
  BY <1>0 DEF HasOwner
<1>4. InvitedInv'
  BY <1>0, <1>1, InvitedKept DEF InvitedInv
<1>5. LimitInv'
  <2>1. ActiveMembers' = {}
    BY <1>1 DEF ActiveMembers, IsActive
  <2> QED BY <1>0, <2>1, WriteLimit
<1> QED BY <1>0, <1>1, <1>2, <1>3, <1>4, <1>5, CommitKeeps

LEMMA CreateInvitationKeeps ==
    ASSUME OrganizationInv, NEW c \in Calls, CreateInvitation(c) PROVE OrganizationInv'
<1>0. /\ OrganizationTypeOK /\ RequestInv /\ InvitedInv /\ OwnerKept
      /\ request[c].pc = "invite" /\ UNCHANGED <<organization, member>> /\ Done(c)
      /\ request[c].target \in Users /\ request[c].role \in Roles
  BY DEF OrganizationInv, CreateInvitation, RequestInv, Carries
<1> DEFINE row == [status |-> "PENDING", email |-> request[c].target, role |-> request[c].role,
                   expired |-> FALSE]
<1>1. row \in Invitation /\ row.status = "PENDING" /\ row.email \in Users
  BY <1>0 DEF Invitation
<1>2. \/ UNCHANGED invitation
      \/ \E i \in Invites : invitation[i].status = "none" /\ invitation' = [invitation EXCEPT ![i] = row]
  BY DEF CreateInvitation
<1> HIDE DEF row
<1>3. /\ invitation' \in [Invites -> Invitation]
      /\ \A j \in Invites : \/ invitation'[j] = invitation[j]
                            \/ invitation[j].status = "none" /\ invitation'[j] = row
  BY <1>0, <1>1, <1>2 DEF OrganizationTypeOK
<1>4. InvitedInv'
  <2>1. \A i \in Invites :
           /\ invitation[i].status \in {"ACCEPTED", "REVOKED"} =>
                 /\ invitation'[i].status \in {"ACCEPTED", "REVOKED"}
                 /\ invitation'[i].email = invitation[i].email
           /\ invitation'[i].status = "ACCEPTED" => invitation[i].status = "ACCEPTED"
           /\ invitation'[i].status # "none" => invitation'[i].email \in Users
    BY <1>0, <1>1, <1>3 DEF InvitedInv
  <2> QED BY <1>0, <2>1, InvitedKept
<1>5. LimitInv'
  BY <1>0, WriteLimit DEF Present, ActiveMembers, IsActive
<1>6. ~overlapped => HasOwner'
  BY <1>0 DEF OwnerKept, HasOwner, IsOwner, IsActive
<1> QED BY <1>0, <1>3, <1>4, <1>5, <1>6, CommitKeeps DEF OrganizationTypeOK

LEMMA CommitResendKeeps ==
    ASSUME OrganizationInv, NEW c \in Calls, CommitResend(c) PROVE OrganizationInv'
<1>0. /\ OrganizationTypeOK /\ RequestInv /\ InvitedInv /\ OwnerKept
      /\ request[c].pc = "resend" /\ UNCHANGED <<organization, member>> /\ Done(c)
      /\ request[c].invite \in Invites
      /\ invitation' = [invitation EXCEPT ![request[c].invite].expired = FALSE]
  BY DEF OrganizationInv, CommitResend, RequestInv, Carries
<1>1. invitation' \in [Invites -> Invitation]
  BY <1>0 DEF OrganizationTypeOK, Invitation
<1>2. \A j \in Invites : /\ invitation'[j].status = invitation[j].status
                         /\ invitation'[j].email = invitation[j].email
  BY <1>0 DEF OrganizationTypeOK, Invitation
<1>3. InvitedInv'
  BY <1>0, <1>2, InvitedKept DEF InvitedInv
<1>4. LimitInv'
  BY <1>0, WriteLimit DEF Present, ActiveMembers, IsActive
<1>5. ~overlapped => HasOwner'
  BY <1>0 DEF OwnerKept, HasOwner, IsOwner, IsActive
<1> QED BY <1>0, <1>1, <1>2, <1>3, <1>4, <1>5, CommitKeeps DEF OrganizationTypeOK

(* Whoever leaves or is removed loses no row; who is written active was to be. *)
LEMMA CommitMemberKeeps ==
    ASSUME OrganizationInv, NEW c \in Calls, CommitMember(c) PROVE OrganizationInv'
<1> DEFINE r == request[c]
           row == [state |-> IF r.active = "keep" THEN member[r.target].state ELSE r.active,
                   role |-> IF r.role = "none" THEN member[r.target].role ELSE r.role]
<1>0. /\ member \in [Users -> Membership] /\ invitation \in [Invites -> Invitation]
      /\ InvitedInv /\ SoloInv /\ OwnerKept
      /\ r \in Request /\ r.pc \in MemberPcs
      /\ r.target \in Users /\ member[r.target].state # "none" /\ member[r.target] \in Membership
      /\ UNCHANGED <<organization, invitation>> /\ Done(c)
      /\ member' = [member EXCEPT ![r.target] = row]
  BY DEF OrganizationInv, OrganizationTypeOK, CommitMember, MemberPcs, RequestInv, Carries
<1>1. /\ row \in Membership /\ row.state # "none"
      /\ row.state = "active" => IsActive(r.target) \/ r.active = "active"
  BY <1>0 DEF Membership, Request, IsActive
<1>2. ~overlapped => ~IsOwner(r.target)
  BY <1>0 DEF SoloInv, StillTested
<1>3. r.active = "active" => r.target \in Present
  BY <1>0 DEF Present, Reactivating
<1> HIDE DEF row
<1>4. /\ member' \in [Users -> Membership] /\ member'[r.target] = row
      /\ \A u \in Users \ {r.target} : member'[u] = member[u]
  BY <1>0, <1>1
<1>5. r.pc # "idle"
  BY <1>0 DEF MemberPcs
<1> HIDE DEF r
<1>6. \A u \in Users : member'[u].state # "none" <=> member[u].state # "none"
  BY <1>0, <1>1, <1>4
<1>7. InvitedInv'
  BY <1>0, <1>6, InvitedKept DEF InvitedInv
<1>8. ~overlapped => HasOwner'
  BY <1>0, <1>2, <1>4 DEF OwnerKept, HasOwner, IsOwner, IsActive
<1>9. LimitInv'
  <2>1. ActiveMembers' \subseteq Present
    BY <1>1, <1>3, <1>4 DEF ActiveMembers, IsActive, Present
  <2> QED BY <1>0, <2>1, WriteLimit
<1> QED BY <1>0, <1>4, <1>5, <1>6, <1>7, <1>8, <1>9, CommitKeeps DEF r

(* The old owner gives the role to the new one, who still is active.           *)
LEMMA CommitTransferKeeps ==
    ASSUME OrganizationInv, NEW c \in Calls, CommitTransfer(c) PROVE OrganizationInv'
<1> DEFINE r == request[c]
           demoted == [member EXCEPT ![r.by].role = "ADMIN"]
<1>0. /\ member \in [Users -> Membership] /\ invitation \in [Invites -> Invitation]
      /\ InvitedInv /\ SoloInv /\ OwnerKept
      /\ r.pc = "transferOwnership" /\ r.by \in Users /\ r.target \in Users
      /\ UNCHANGED <<organization, invitation>> /\ Done(c)
      /\ \/ member' = member
         \/ member' = [demoted EXCEPT ![r.target].role = "OWNER"]
  BY DEF OrganizationInv, OrganizationTypeOK, CommitTransfer, RequestInv, Carries
<1>1. /\ demoted \in [Users -> Membership]
      /\ \A u \in Users : demoted[u].state = member[u].state
  BY <1>0 DEF Membership, Roles
<1> HIDE DEF demoted
<1>2. /\ member' \in [Users -> Membership]
      /\ \A u \in Users : member'[u].state = member[u].state
      /\ member' = member \/ member'[r.target].role = "OWNER"
  BY <1>0, <1>1 DEF Membership, Roles
<1>3. InvitedInv'
  BY <1>0, <1>2, InvitedKept DEF InvitedInv
<1>4. ~overlapped => HasOwner'
  BY <1>0, <1>2 DEF SoloInv, StillTested, OwnerKept, HasOwner, IsOwner, IsActive
<1>5. LimitInv'
  BY <1>0, <1>2, WriteLimit DEF ActiveMembers, IsActive, Present
<1> QED BY <1>0, <1>2, <1>3, <1>4, <1>5, CommitKeeps

(* The invitation is ACCEPTED and its addressee a member, both or neither.     *)
LEMMA CommitAcceptanceKeeps ==
    ASSUME OrganizationInv, NEW c \in Calls, CommitAcceptance(c) PROVE OrganizationInv'
<1> DEFINE u == request[c].target
           i == request[c].invite
           row == [state |-> "active", role |-> invitation[i].role]
<1>0. /\ member \in [Users -> Membership] /\ invitation \in [Invites -> Invitation]
      /\ InvitedInv /\ OwnerKept
      /\ request[c].pc = "accept" /\ u \in Users /\ i \in Invites
      /\ invitation[i].status # "none" /\ invitation[i].email = u /\ invitation[i] \in Invitation
      /\ UNCHANGED organization /\ Done(c)
  BY DEF OrganizationInv, OrganizationTypeOK, CommitAcceptance, RequestInv, Carries
<1>1. CASE UNCHANGED <<member, invitation>>
  <2>1. InvitedInv'
    BY <1>0, <1>1 DEF InvitedInv, Uninvited, HasRow
  <2>2. ~overlapped => HasOwner'
    BY <1>0, <1>1 DEF OwnerKept, HasOwner, IsOwner, IsActive
  <2>3. LimitInv'
    BY <1>0, <1>1, WriteLimit DEF ActiveMembers, IsActive, Present
  <2> QED BY <1>0, <1>1, <2>1, <2>2, <2>3, CommitKeeps
<1>2. CASE /\ member[u].state = "none"
           /\ member' = [member EXCEPT ![u] = row]
           /\ invitation' = [invitation EXCEPT ![i].status = "ACCEPTED"]
  <2>1. /\ row \in Membership /\ row.state = "active"
    BY <1>0 DEF Membership, Invitation
  <2> HIDE DEF row
  <2>2. /\ member' \in [Users -> Membership] /\ member'[u] = row
        /\ \A v \in Users \ {u} : member'[v] = member[v]
    BY <1>0, <1>2, <2>1
  <2>3. /\ invitation' \in [Invites -> Invitation]
        /\ invitation'[i].status = "ACCEPTED" /\ invitation'[i].email = u
        /\ \A j \in Invites \ {i} : invitation'[j] = invitation[j]
    BY <1>0, <1>2 DEF Invitation
  <2>4. InvitedInv'
    <3>1. Uninvited' \subseteq Uninvited
      <4> SUFFICES ASSUME NEW v \in Users, v \in Uninvited' PROVE v \in Uninvited
        BY DEF Uninvited
      <4>1. v # u
        BY <1>0, <2>3 DEF Uninvited, HasRow
      <4>2. \A s : (\E j \in Invites : invitation[j].email = v /\ invitation[j].status = s) =>
                   (\E j \in Invites : invitation'[j].email = v /\ invitation'[j].status = s)
        BY <1>0, <2>3, <4>1
      <4> QED BY <2>2, <4>1, <4>2 DEF Uninvited, HasRow
    <3>2. \A j \in Invites : invitation'[j].status # "none" => invitation'[j].email \in Users
      BY <1>0, <2>3 DEF InvitedInv
    <3>3. \A j \in Invites : invitation'[j].status = "ACCEPTED" =>
             member'[invitation'[j].email].state # "none"
      BY <1>0, <2>1, <2>2, <2>3 DEF InvitedInv
    <3> QED BY <1>0, <3>1, <3>2, <3>3 DEF InvitedInv
  <2>5. ~overlapped => HasOwner'
    BY <1>0, <1>2, <2>2 DEF OwnerKept, HasOwner, IsOwner, IsActive
  <2>6. LimitInv'
    <3>1. /\ Reactivating' = Reactivating \ {c} /\ Accepting' = Accepting \ {c}
          /\ \A d \in Calls \ {c} : request'[d] = request[d]
      BY <1>0, DoneRequests
    <3>2. Present' \subseteq Present \cup {u}
      BY <2>2, <3>1 DEF Present, ActiveMembers, IsActive, Reactivating
    <3>3. c \in Accepting /\ overlapped' = overlapped
      BY <1>0 DEF Accepting, Done
    <3> HIDE DEF u
    <3> QED BY <3>1, <3>2, <3>3, LimitSwapped
  <2>7. \A v \in Users : member[v].state # "none" => member'[v].state # "none"
    BY <1>2, <2>2
  <2>8. \A j \in Invites : invitation[j].status # "none" =>
           invitation'[j].status # "none" /\ invitation'[j].email = invitation[j].email
    BY <1>0, <2>3
  <2> QED BY <1>0, <2>2, <2>3, <2>4, <2>5, <2>6, <2>7, <2>8, CommitKeeps
<1> QED BY <1>1, <1>2 DEF CommitAcceptance

-------------------------------------------------------------------------------

LEMMA StepKeeps ==
    ASSUME OrganizationInv, [OrganizationNext]_organizationVars PROVE OrganizationInv'
<1>1. CASE OrganizationRequest
  BY <1>1, OrganizationRequestKeeps
<1>2. CASE InvitationRequest
  BY <1>2, InvitationRequestKeeps
<1>3. CASE MemberRequest
  BY <1>3, MemberRequestKeeps
<1>4. CASE \E i \in Invites : Expire(i)
  BY <1>4, ExpireKeeps
<1>5. CASE \E c \in Calls : Commit(c)
  BY <1>5, CommitUpdateOrganizationKeeps, CommitDeleteOrganizationKeeps, CreateInvitationKeeps,
     CommitAcceptanceKeeps, CommitResendKeeps, CommitMemberKeeps, CommitTransferKeeps DEF Commit
<1>6. CASE UNCHANGED organizationVars
  <2>1. calls' \in 0..MaxCalls /\ invitation' \in [Invites -> Invitation] /\ invitation' = invitation
    BY <1>6 DEF OrganizationInv, OrganizationTypeOK, organizationVars
  <2> QED BY <1>6, <2>1, InvitationWritten DEF organizationVars
<1> QED BY <1>1, <1>2, <1>3, <1>4, <1>5, <1>6 DEF OrganizationNext

THEOREM OrganizationInvariant == OrganizationSpec => []OrganizationInv
<1>1. OrganizationInit => OrganizationInv
  BY InitKeeps
<1>2. OrganizationInv /\ [OrganizationNext]_organizationVars => OrganizationInv'
  BY StepKeeps
<1> QED BY <1>1, <1>2, PTL DEF OrganizationSpec

(* Types.                                                                      *)
THEOREM OrganizationTypeCorrect == OrganizationSpec => []OrganizationTypeOK
<1>1. OrganizationInv => OrganizationTypeOK
  BY DEF OrganizationInv
<1> QED BY <1>1, OrganizationInvariant, PTL

(* An active organization keeps an active owner while requests do not overlap. *)
THEOREM OwnerAlways == OrganizationSpec => []OwnerKept
<1>1. OrganizationInv => OwnerKept
  BY DEF OrganizationInv
<1> QED BY <1>1, OrganizationInvariant, PTL

(* The limit of members is passed by no more than the other open requests.     *)
THEOREM LimitOvershoot == OrganizationSpec => []MemberLimitOvershoot
<1>1. OrganizationInv => MemberLimitOvershoot
  <2> SUFFICES ASSUME OrganizationInv PROVE MemberLimitOvershoot
    OBVIOUS
  <2>1. /\ IsFiniteSet(Present) /\ ActiveMembers \in SUBSET Present
        /\ Cardinality(Present) + Cardinality(Accepting) <= MaxMembers + Excess
    BY DEF OrganizationInv, LimitInv, Present, Excess
  <2>2. /\ IsFiniteSet(ActiveMembers) /\ Cardinality(ActiveMembers) <= Cardinality(Present)
        /\ Cardinality(Present) \in Nat
    BY <2>1, FS_Subset, FS_CardinalityType
  <2>3. Cardinality(ActiveMembers) \in Nat
    BY <2>2, FS_CardinalityType
  <2>4. Accepting \in SUBSET Calls
    BY DEF Accepting
  <2>5. Cardinality(Accepting) \in Nat /\ MaxMembers \in Nat /\ Excess \in Int
    BY <2>4, CallsCounted, OrganizationAssumption DEF Excess
  <2>6. Cardinality(ActiveMembers) <= MaxMembers + Excess
    BY <2>1, <2>2, <2>3, <2>5
  <2> QED BY <2>6 DEF MemberLimitOvershoot, Excess
<1> QED BY <1>1, OrganizationInvariant, PTL

(* Nobody but the founder is in without an invitation of his own that was      *)
(* taken up, and an ACCEPTED invitation has its member.                        *)
THEOREM Invited == OrganizationSpec => []MembersWereInvited
<1>1. OrganizationInv => MembersWereInvited
  <2> SUFFICES ASSUME OrganizationInv PROVE MembersWereInvited
    OBVIOUS
  <2>1. InvitedInv
    BY DEF OrganizationInv
  <2>2. Uninvited = {} \/ \E u : Uninvited = {u}
    BY <2>1 DEF InvitedInv
  <2>3. Cardinality(Uninvited) \in {0, 1}
    BY <2>2, FS_EmptySet, FS_Singleton
  <2>4. \A i \in Invites : invitation[i].status = "ACCEPTED" =>
           member[invitation[i].email].state # "none"
    BY <2>1 DEF InvitedInv
  <2>5. Cardinality(Uninvited) <= 1
    BY <2>3
  <2> QED BY Zenon, <2>4, <2>5 DEF MembersWereInvited, Uninvited
<1> QED BY <1>1, OrganizationInvariant, PTL

===============================================================================
