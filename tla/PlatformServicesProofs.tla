------------------------ MODULE PlatformServicesProofs -------------------------
(* Proofs about PlatformServices, for every set of calls and of media and every *)
(* value of the limits: its invariants, and that it implements OneShotPublish. *)
EXTENDS PlatformServices, TLAPS

-------------------------------------------------------------------------------
(* The inductive invariant, one call at a time: k is the call c, o the object  *)
(* it made, shown n times, md its media and fl those asked for and not         *)
(* answered.                                                                   *)

Building == {"idle", "create", "children", "pollChildren", "carousel", "uploads",
             "reelStart", "reelUpload", "post"}
Ready == {"finished", "expired"}

(* Where a call stands tells what it is for and whether it is still open.      *)
Stands(c, k) ==
    /\ k.pc = "idle" => k.aim = "none" /\ k.outcome = "none" /\ k.kind # "carousel"
    /\ k.pc = "done" => k.outcome \in {"success", "failure"}
    /\ k.pc \notin {"idle", "done"} => k.outcome = "open"
    /\ k.pc \in {"state", "mediaPublish"} => k.aim = "publish"
    /\ k.pc = "delete" => k.aim = "delete" /\ k.target # c
    /\ k.pc \in {"uploads", "reelStart", "reelUpload", "post"} => k.kind # "carousel"
    /\ k.pc \in Building => k.target = c

(* An object is there from the step that makes it, was shown if it is public,  *)
(* and the platform shows by itself only what a call has scheduled.            *)
Made(k, o, n) ==
    /\ k.pc \in Building => o = "none"
    /\ k.pc = "poll" => o # "none"
    /\ k.outcome = "success" /\ k.aim \in {"prepare", "schedule"} => o # "none"
    /\ o = "published" => n = 1
    /\ o \notin {"published", "deleted"} => n = 0
    /\ o = "scheduled" => k.aim = "schedule" /\ k.outcome \in {"success", "failure"}

(* Media that were found finished stay so (or expire): by then no request can  *)
(* make them anew.                                                             *)
Complete(k, o, md, fl) ==
    /\ k.pc = "children" => k.todo = Media
    /\ k.pc = "pollChildren" => fl = {} /\ \A m \in Media \ k.todo : md[m] \in Ready
    /\ k.pc = "carousel" => fl = {} /\ \A m \in Media : md[m] \in Ready
    /\ k.kind = "carousel" /\ o # "none" => fl = {} /\ \A m \in Media : md[m] \in Ready

CallOK(c, k, o, md, fl, n) == Stands(c, k) /\ Made(k, o, n) /\ Complete(k, o, md, fl)

(* A call that takes up another's object found that one successful.            *)
TakenUp(k) == k.pc = "done" /\ k.outcome = "success" /\ k.aim \in {"prepare", "schedule"}
TargetInv == \A c \in Calls : call[c].target # c => TakenUp(call[call[c].target])

ServiceInv ==
    /\ ServiceTypeOK
    /\ \A c \in Calls : CallOK(c, call[c], object[c], media[c], inflight[c], shown[c])
    /\ TargetInv

-------------------------------------------------------------------------------
(* What the steps have in common.                                              *)

(* A step writes nothing of any call but c.                                    *)
OnlyOf(c) ==
    \A e \in Calls \ {c} :
       /\ call'[e] = call[e] /\ object'[e] = object[e] /\ media'[e] = media[e]
       /\ inflight'[e] = inflight[e] /\ shown'[e] = shown[e]

(* What was taken up stays what it was.                                        *)
LEMMA TargetsKept ==
    ASSUME ServiceInv, NEW c \in Calls, ServiceTypeOK',
           \A e \in Calls \ {c} : call'[e] = call[e],
           call'[c].target = call[c].target \/ TakenUp(call[call'[c].target]),
           TakenUp(call[c]) => TakenUp(call'[c])
    PROVE  TargetInv'
<1>1. \A e \in Calls : TakenUp(call[e]) => TakenUp(call'[e])
  OBVIOUS
<1> SUFFICES ASSUME NEW e \in Calls, call'[e].target # e
             PROVE  TakenUp(call'[call'[e].target])
  BY DEF TargetInv, TakenUp
<1>2. call'[e].target \in Calls
  BY DEF ServiceTypeOK, Call
<1>3. TakenUp(call[call'[e].target])
  <2>1. CASE e = c /\ call'[c].target # call[c].target
    BY <2>1
  <2>2. CASE call'[e].target = call[e].target
    BY <2>2 DEF ServiceInv, TargetInv
  <2> QED BY <2>1, <2>2
<1> QED BY <1>1, <1>2, <1>3

(* A step that writes nothing of any other call keeps the invariant if its own *)
(* call does.                                                                  *)
LEMMA OwnStep ==
    ASSUME ServiceInv, NEW c \in Calls, ServiceTypeOK', OnlyOf(c),
           CallOK(c, call'[c], object'[c], media'[c], inflight'[c], shown'[c]),
           call'[c].target = call[c].target \/ TakenUp(call[call'[c].target]),
           TakenUp(call[c]) => TakenUp(call'[c])
    PROVE  ServiceInv'
<1>1. \A e \in Calls : CallOK(e, call'[e], object'[e], media'[e], inflight'[e], shown'[e])
  BY DEF ServiceInv, OnlyOf
<1>2. TargetInv'
  BY TargetsKept DEF OnlyOf
<1> QED BY <1>1, <1>2 DEF ServiceInv

(* The three ways a step moves its call on.                                     *)
LEMMA Moves ==
    ASSUME ServiceTypeOK, NEW c \in Calls
    PROVE  /\ call[c] \in Call
           /\ \A pc \in Pcs : Goto(c, pc) =>
                 /\ call' \in [Calls -> Call] /\ call'[c] = [call[c] EXCEPT !.pc = pc]
                 /\ \A e \in Calls \ {c} : call'[e] = call[e]
           /\ \A pc \in Pcs, left \in Nat : GotoWith(c, pc, left) =>
                 /\ call' \in [Calls -> Call]
                 /\ call'[c] = [call[c] EXCEPT !.pc = pc, !.left = left]
                 /\ \A e \in Calls \ {c} : call'[e] = call[e]
           /\ \A r \in {"success", "failure"} : End(c, r) =>
                 /\ call' \in [Calls -> Call]
                 /\ call'[c] = [call[c] EXCEPT !.pc = "done", !.outcome = r]
                 /\ \A e \in Calls \ {c} : call'[e] = call[e]
<1>1. call \in [Calls -> Call] /\ call[c] \in Call
  BY DEF ServiceTypeOK
<1>2. ASSUME NEW pc \in Pcs, Goto(c, pc)
      PROVE  /\ call' \in [Calls -> Call] /\ call'[c] = [call[c] EXCEPT !.pc = pc]
             /\ \A e \in Calls \ {c} : call'[e] = call[e]
  <2>1. [call[c] EXCEPT !.pc = pc] \in Call
    BY <1>1 DEF Call
  <2> QED BY <1>1, <1>2, <2>1 DEF Goto
<1>3. ASSUME NEW pc \in Pcs, NEW left \in Nat, GotoWith(c, pc, left)
      PROVE  /\ call' \in [Calls -> Call]
             /\ call'[c] = [call[c] EXCEPT !.pc = pc, !.left = left]
             /\ \A e \in Calls \ {c} : call'[e] = call[e]
  <2>1. [call[c] EXCEPT !.pc = pc, !.left = left] \in Call
    BY <1>1 DEF Call
  <2>2. call' = [call EXCEPT ![c] = [call[c] EXCEPT !.pc = pc, !.left = left]]
    BY <1>1, <1>3 DEF GotoWith
  <2> QED BY <1>1, <2>1, <2>2
<1>4. ASSUME NEW r \in {"success", "failure"}, End(c, r)
      PROVE  /\ call' \in [Calls -> Call]
             /\ call'[c] = [call[c] EXCEPT !.pc = "done", !.outcome = r]
             /\ \A e \in Calls \ {c} : call'[e] = call[e]
  <2>1. [call[c] EXCEPT !.pc = "done", !.outcome = r] \in Call
    BY <1>1 DEF Call, Pcs
  <2>2. call' = [call EXCEPT ![c] = [call[c] EXCEPT !.pc = "done", !.outcome = r]]
    BY <1>1, <1>4 DEF End
  <2> QED BY <1>1, <2>1, <2>2
<1> QED BY <1>1, <1>2, <1>3, <1>4

(* What the invariant says of one call.                                        *)
LEMMA Here ==
    ASSUME ServiceInv, NEW c \in Calls
    PROVE  /\ ServiceTypeOK /\ call[c] \in Call /\ object[c] \in ObjectState
           /\ shown[c] \in 0..1 /\ media[c] \in [Media -> ObjectState] /\ inflight[c] \subseteq Media
           /\ CallOK(c, call[c], object[c], media[c], inflight[c], shown[c])
           /\ call[c].target \in Calls
           /\ call[c].target # c => TakenUp(call[call[c].target])
BY DEF ServiceInv, ServiceTypeOK, TargetInv, Call

(* A call that fails leaves what it made as it is.                             *)
LEMMA FailKeeps ==
    ASSUME ServiceInv, NEW c \in Calls, call[c].pc # "done", End(c, "failure"),
           UNCHANGED <<object, media, inflight, shown>>
    PROVE  ServiceInv'
<1>1. /\ call' \in [Calls -> Call]
      /\ call'[c] = [call[c] EXCEPT !.pc = "done", !.outcome = "failure"]
      /\ \A e \in Calls \ {c} : call'[e] = call[e]
  BY Moves DEF ServiceInv
<1>2. /\ call[c] \in Call /\ ServiceTypeOK
      /\ CallOK(c, call[c], object[c], media[c], inflight[c], shown[c])
  BY Here
<1>3. ServiceTypeOK' /\ OnlyOf(c)
  BY <1>1, <1>2 DEF ServiceTypeOK, OnlyOf
<1>4. call'[c].target = call[c].target /\ ~TakenUp(call[c])
  BY <1>1, <1>2 DEF Call, TakenUp
<1>5. CallOK(c, call'[c], object'[c], media'[c], inflight'[c], shown'[c])
  BY <1>1, <1>2 DEF CallOK, Stands, Made, Complete, Building, Call
<1> QED BY <1>3, <1>4, <1>5, OwnStep

LEMMA RefuseKeeps ==
    ASSUME ServiceInv, NEW c \in Calls, Refuse(c) PROVE ServiceInv'
BY FailKeeps DEF Refuse

LEMMA BeginKeeps ==
    ASSUME ServiceInv, NEW c \in Calls, NEW kind \in Kinds,
           NEW aim \in {"prepare", "schedule", "publish"},
           NEW first \in {"create", "children", "uploads", "reelStart", "post"},
           NEW sent \in SUBSET Media,
           first \in {"uploads", "reelStart", "post"} => kind # "carousel",
           Begin(c, kind, aim, first, sent)
    PROVE  ServiceInv'
<1> DEFINE k == [call[c] EXCEPT !.pc = first, !.aim = aim, !.kind = kind,
                                !.outcome = "open", !.todo = Media]
<1>1. /\ call[c] \in Call /\ ServiceTypeOK /\ call[c].pc = "idle"
      /\ CallOK(c, call[c], object[c], media[c], inflight[c], shown[c])
  BY Here DEF Begin
<1>2. k \in Call /\ k.pc = first /\ k.aim = aim /\ k.kind = kind /\ k.outcome = "open"
      /\ k.todo = Media /\ k.target = call[c].target
  BY <1>1 DEF Call, Pcs
<1>3. /\ call' = [call EXCEPT ![c] = k] /\ inflight' = [inflight EXCEPT ![c] = sent]
      /\ UNCHANGED <<object, media, shown>>
  BY DEF Begin
<1> HIDE DEF k
<1>4. /\ ServiceTypeOK' /\ OnlyOf(c) /\ call'[c] = k
  BY <1>1, <1>2, <1>3 DEF ServiceTypeOK, OnlyOf
<1>5. ~TakenUp(call[c])
  BY <1>1 DEF TakenUp
<1>6. CallOK(c, k, object'[c], media'[c], inflight'[c], shown'[c])
  BY <1>1, <1>2, <1>3 DEF CallOK, Stands, Made, Complete, Building
<1> QED BY <1>2, <1>4, <1>5, <1>6, OwnStep

(* The two calls that take up what an earlier one made.                        *)
LEMMA TakeUpKeeps ==
    ASSUME ServiceInv, NEW c \in Calls, NEW d \in Calls,
           PublishExisting(c, d) \/ DeleteScheduledPost(c, d)
    PROVE  ServiceInv'
<1>1. /\ call[c] \in Call /\ ServiceTypeOK /\ call[c].pc = "idle" /\ MaxRechecks \in Nat
      /\ CallOK(c, call[c], object[c], media[c], inflight[c], shown[c])
  BY Here, ServiceAssumption DEF PublishExisting, DeleteScheduledPost
<1>2. /\ call[d] \in Call /\ call[d].outcome = "success"
      /\ call[d].aim \in {"prepare", "schedule"}
      /\ CallOK(d, call[d], object[d], media[d], inflight[d], shown[d])
  BY Here DEF PublishExisting, DeleteScheduledPost
<1>3. TakenUp(call[d]) /\ d # c /\ ~TakenUp(call[c])
  BY <1>1, <1>2 DEF CallOK, Stands, TakenUp
<1>4. PICK k \in Call :
         /\ call' = [call EXCEPT ![c] = k] /\ k.target = d /\ k.kind = call[c].kind
         /\ \/ k.pc = "state" /\ k.aim = "publish"
            \/ k.pc = "delete" /\ k.aim = "delete"
         /\ k.outcome = "open"
  <2>1. CASE PublishExisting(c, d)
    <3> DEFINE k == [call[c] EXCEPT !.pc = "state", !.aim = "publish", !.target = d,
                                    !.outcome = "open", !.left = MaxRechecks]
    <3>1. /\ k \in Call /\ k.target = d /\ k.kind = call[c].kind
          /\ k.pc = "state" /\ k.aim = "publish" /\ k.outcome = "open"
      BY <1>1 DEF Call, Pcs
    <3>2. call' = [call EXCEPT ![c] = k]
      BY <2>1 DEF PublishExisting
    <3> HIDE DEF k
    <3> QED BY <3>1, <3>2
  <2>2. CASE DeleteScheduledPost(c, d)
    <3> DEFINE k == [call[c] EXCEPT !.pc = "delete", !.aim = "delete", !.target = d,
                                    !.outcome = "open"]
    <3>1. /\ k \in Call /\ k.target = d /\ k.kind = call[c].kind
          /\ k.pc = "delete" /\ k.aim = "delete" /\ k.outcome = "open"
      BY <1>1 DEF Call, Pcs
    <3>2. call' = [call EXCEPT ![c] = k]
      BY <2>2 DEF DeleteScheduledPost
    <3> HIDE DEF k
    <3> QED BY <3>1, <3>2
  <2> QED BY <2>1, <2>2
<1>5. UNCHANGED <<object, media, inflight, shown>>
  BY DEF PublishExisting, DeleteScheduledPost
<1>6. ServiceTypeOK' /\ OnlyOf(c) /\ call'[c] = k
  BY <1>1, <1>4, <1>5 DEF ServiceTypeOK, OnlyOf
<1>7. CallOK(c, k, object'[c], media'[c], inflight'[c], shown'[c])
  BY <1>1, <1>3, <1>4, <1>5 DEF CallOK, Stands, Made, Complete, Building
<1> QED BY <1>3, <1>4, <1>6, <1>7, OwnStep

LEMMA EntryKeeps ==
    ASSUME ServiceInv, NEW c \in Calls, Entry(c) PROVE ServiceInv'
<1>1. CASE Refuse(c)
  BY <1>1, RefuseKeeps
<1>2. ASSUME NEW kind \in Instagram, NEW aim \in {"prepare", "publish"},
             CreateContainers(c, kind, aim)
      PROVE  ServiceInv'
  <2>1. kind \in Kinds
    BY DEF Kinds
  <2>2. CASE kind = "carousel"
    BY <1>2, <2>1, <2>2, BeginKeeps DEF CreateContainers
  <2>3. CASE kind # "carousel"
    BY <1>2, <2>1, <2>3, BeginKeeps DEF CreateContainers
  <2> QED BY <2>2, <2>3
<1>3. ASSUME NEW kind \in Facebook, NEW aim \in {"schedule", "publish"},
             Begin(c, kind, aim, FirstStep(kind), {})
      PROVE  ServiceInv'
  <2>1. kind \in Kinds /\ kind # "carousel" /\ FirstStep(kind) \in {"uploads", "reelStart", "post"}
    BY DEF Kinds, Facebook, FirstStep
  <2> QED BY <1>3, <2>1, BeginKeeps
<1>4. ASSUME NEW d \in Fresh, PublishExisting(c, d) \/ DeleteScheduledPost(c, d)
      PROVE  ServiceInv'
  BY <1>4, TakeUpKeeps, ServiceAssumption
<1> QED BY <1>1, <1>2, <1>3, <1>4
        DEF Entry, ScheduleInstagramPost, PublishInstagramNow, ScheduleFacebookPost, PublishFacebookNow

-------------------------------------------------------------------------------
(* InstagramPlatformService                                                    *)

(* A container of c that is not shown yet takes the place of what it had.      *)
LEMMA ContainerWritten ==
    ASSUME ServiceInv, NEW c \in Calls, NEW s \in {"inProgress", "finished"},
           call[c].pc \in {"create", "carousel", "poll"},
           call[c].pc = "create" => call[c].kind # "carousel",
           object' = [object EXCEPT ![c] = s], shown[c] = 0,
           UNCHANGED <<media, inflight, shown>>,
           NEW k \in Call, call' = [call EXCEPT ![c] = k],
           k.kind = call[c].kind, k.target = call[c].target, k.aim = call[c].aim,
           \/ k.pc = "poll" /\ k.outcome = "open"
           \/ k.pc = "state" /\ k.outcome = "open" /\ k.aim = "publish"
           \/ k.pc = "done" /\ k.outcome \in {"success", "failure"}
    PROVE  ServiceInv'
<1>1. /\ call[c] \in Call /\ ServiceTypeOK
      /\ CallOK(c, call[c], object[c], media[c], inflight[c], shown[c])
  BY Here
<1>2. /\ call' \in [Calls -> Call] /\ call'[c] = k
      /\ \A e \in Calls \ {c} : call'[e] = call[e]
  BY <1>1 DEF ServiceTypeOK
<1>3. /\ object' \in [Calls -> ObjectState] /\ object'[c] = s
      /\ \A e \in Calls \ {c} : object'[e] = object[e]
  BY <1>1 DEF ServiceTypeOK, ObjectState
<1>4. ServiceTypeOK' /\ OnlyOf(c)
  BY <1>1, <1>2, <1>3 DEF ServiceTypeOK, OnlyOf
<1>5. ~TakenUp(call[c])
  BY <1>1 DEF TakenUp
<1>6. CallOK(c, k, s, media[c], inflight[c], shown[c])
  BY <1>1 DEF CallOK, Stands, Made, Complete, Building
<1> QED BY <1>2, <1>3, <1>4, <1>5, <1>6, OwnStep

(* Prepared moves such a call on to the publication or ends it.                *)
LEMMA PreparedMoves ==
    ASSUME ServiceInv, NEW c \in Calls, call[c].pc \in {"create", "carousel", "poll"}, Prepared(c)
    PROVE  \E k \in Call :
              /\ call' = [call EXCEPT ![c] = k]
              /\ k.kind = call[c].kind /\ k.target = call[c].target /\ k.aim = call[c].aim
              /\ \/ k.pc = "state" /\ k.outcome = "open" /\ k.aim = "publish"
                 \/ k.pc = "done" /\ k.outcome \in {"success", "failure"}
<1>1. /\ call \in [Calls -> Call] /\ call[c] \in Call /\ call[c].outcome = "open"
      /\ MaxRechecks \in Nat
  BY Here, ServiceAssumption DEF CallOK, Stands, ServiceTypeOK
<1>2. CASE call[c].aim = "publish"
  <2> DEFINE k == [call[c] EXCEPT !.pc = "state", !.left = MaxRechecks]
  <2>1. /\ k \in Call /\ k.kind = call[c].kind /\ k.target = call[c].target
        /\ k.aim = call[c].aim /\ k.pc = "state" /\ k.outcome = "open"
    BY <1>1 DEF Call, Pcs
  <2>2. call' = [call EXCEPT ![c] = k]
    BY <1>1, <1>2 DEF Prepared, GotoWith
  <2> HIDE DEF k
  <2> QED BY <1>2, <2>1, <2>2
<1>3. CASE call[c].aim # "publish"
  <2> DEFINE k == [call[c] EXCEPT !.pc = "done", !.outcome = "success"]
  <2>1. /\ k \in Call /\ k.kind = call[c].kind /\ k.target = call[c].target
        /\ k.aim = call[c].aim /\ k.pc = "done" /\ k.outcome = "success"
    BY <1>1 DEF Call, Pcs
  <2>2. call' = [call EXCEPT ![c] = k]
    BY <1>1, <1>3 DEF Prepared, End
  <2> HIDE DEF k
  <2> QED BY <2>1, <2>2
<1> QED BY <1>2, <1>3

LEMMA PolledMoves ==
    ASSUME ServiceInv, NEW c \in Calls, NEW left \in Nat,
           call[c].pc \in {"create", "poll"}, GotoWith(c, "poll", left)
    PROVE  \E k \in Call :
              /\ call' = [call EXCEPT ![c] = k]
              /\ k.kind = call[c].kind /\ k.target = call[c].target /\ k.aim = call[c].aim
              /\ k.pc = "poll" /\ k.outcome = "open"
<1>1. call \in [Calls -> Call] /\ call[c] \in Call /\ call[c].outcome = "open"
  BY Here DEF CallOK, Stands, ServiceTypeOK
<1> DEFINE k == [call[c] EXCEPT !.pc = "poll", !.left = left]
<1>2. /\ k \in Call /\ k.kind = call[c].kind /\ k.target = call[c].target
      /\ k.aim = call[c].aim /\ k.pc = "poll" /\ k.outcome = "open"
  BY <1>1 DEF Call, Pcs
<1>3. call' = [call EXCEPT ![c] = k]
  BY <1>1 DEF GotoWith
<1> HIDE DEF k
<1> QED BY <1>2, <1>3

(* A call that fails after its container was made.                             *)
LEMMA EndMoves ==
    ASSUME ServiceInv, NEW c \in Calls, NEW r \in {"success", "failure"}, End(c, r)
    PROVE  \E k \in Call :
              /\ call' = [call EXCEPT ![c] = k]
              /\ k.kind = call[c].kind /\ k.target = call[c].target /\ k.aim = call[c].aim
              /\ k.pc = "done" /\ k.outcome = r
<1>1. call \in [Calls -> Call] /\ call[c] \in Call
  BY Here DEF ServiceTypeOK
<1> DEFINE k == [call[c] EXCEPT !.pc = "done", !.outcome = r]
<1>2. /\ k \in Call /\ k.kind = call[c].kind /\ k.target = call[c].target
      /\ k.aim = call[c].aim /\ k.pc = "done" /\ k.outcome = r
  BY <1>1 DEF Call, Pcs
<1>3. call' = [call EXCEPT ![c] = k]
  BY <1>1 DEF End
<1> HIDE DEF k
<1> QED BY <1>2, <1>3

LEMMA CreateContainerKeeps ==
    ASSUME ServiceInv, NEW c \in Calls,
           CreateMediaContainer(c) \/ CreateReelContainer(c) \/ CreateCarouselContainer(c)
    PROVE  ServiceInv'
<1>1. /\ call[c].pc \in {"create", "carousel"}
      /\ call[c].pc = "create" => call[c].kind # "carousel"
      /\ shown[c] = 0 /\ object[c] = "none" /\ MaxPolls \in Nat /\ MaxReelPolls \in Nat
      /\ UNCHANGED <<media, inflight, shown>>
  BY Here, ServiceAssumption
  DEF CreateMediaContainer, CreateReelContainer, CreateCarouselContainer, CreateAnd, CallOK, Made,
      Building
<1>2. CASE UNCHANGED object /\ End(c, "failure")
  BY <1>1, <1>2, FailKeeps
<1>3. CASE /\ object' = [object EXCEPT ![c] = "inProgress"]
           /\ \/ End(c, "failure") \/ Prepared(c)
              \/ call[c].pc = "create" /\ \E left \in Nat : GotoWith(c, "poll", left)
  <2>1. CASE End(c, "failure")
    BY <1>1, <1>3, <2>1, EndMoves, ContainerWritten
  <2>2. CASE Prepared(c)
    BY <1>1, <1>3, <2>2, PreparedMoves, ContainerWritten
  <2>3. ASSUME NEW left \in Nat, call[c].pc = "create", GotoWith(c, "poll", left)
        PROVE  ServiceInv'
    BY <1>1, <1>3, <2>3, PolledMoves, ContainerWritten
  <2> QED BY <1>3, <2>1, <2>2, <2>3
<1> QED BY <1>1, <1>2, <1>3
        DEF CreateMediaContainer, CreateReelContainer, CreateCarouselContainer, CreateAnd

LEMMA PollMediaProcessingKeeps ==
    ASSUME ServiceInv, NEW c \in Calls, PollMediaProcessing(c) PROVE ServiceInv'
<1>1. /\ call[c].pc = "poll" /\ UNCHANGED <<object, media, inflight, shown>>
      /\ call[c].left \in Nat
      /\ object \in [Calls -> ObjectState]
  BY Here DEF PollMediaProcessing, Call, ServiceTypeOK
<1>2. CASE End(c, "failure")
  BY <1>1, <1>2, FailKeeps
<1>3. CASE object[c] = "finished" /\ Prepared(c)
  <2>1. object' = [object EXCEPT ![c] = "finished"] /\ shown[c] = 0
    BY <1>1, <1>3, Here DEF CallOK, Made
  <2> QED BY <1>1, <1>3, <2>1, PreparedMoves, ContainerWritten
<1>4. CASE object[c] = "inProgress" /\ call[c].left > 1 /\ GotoWith(c, "poll", call[c].left - 1)
  <2>1. object' = [object EXCEPT ![c] = "inProgress"] /\ shown[c] = 0
    BY <1>1, <1>4, Here DEF CallOK, Made
  <2>2. call[c].left - 1 \in Nat
    BY <1>1, <1>4
  <2> QED BY <1>1, <1>4, <2>1, <2>2, PolledMoves, ContainerWritten
<1> QED BY <1>2, <1>3, <1>4 DEF PollMediaProcessing

LEMMA MediumWritten ==
    ASSUME ServiceInv, NEW c \in Calls, NEW m \in Media, NEW s \in ObjectState,
           media' = media \/ media' = [media EXCEPT ![c][m] = s]
    PROVE  /\ media' \in [Calls -> [Media -> ObjectState]]
           /\ \A e \in Calls \ {c} : media'[e] = media[e]
           /\ \A n \in Media : media'[c][n] = media[c][n] \/ (n = m /\ media'[c][n] = s)
<1>1. media \in [Calls -> [Media -> ObjectState]]
  BY DEF ServiceInv, ServiceTypeOK
<1>2. CASE media' = media
  BY <1>1, <1>2
<1>3. CASE media' = [media EXCEPT ![c][m] = s]
  <2> DEFINE row == [media[c] EXCEPT ![m] = s]
  <2>1. row \in [Media -> ObjectState] /\ \A n \in Media : row[n] = IF n = m THEN s ELSE media[c][n]
    BY <1>1
  <2>2. media' = [media EXCEPT ![c] = row]
    BY <1>3
  <2> HIDE DEF row
  <2> QED BY <1>1, <2>1, <2>2
<1> QED BY <1>2, <1>3

(* An item is asked for only before the carousel is; the last answer starts    *)
(* the polling with every item still to be asked about.                        *)
LEMMA CreateCarouselItemKeeps ==
    ASSUME ServiceInv, NEW c \in Calls, NEW m \in Media, CreateCarouselItem(c, m)
    PROVE  ServiceInv'
<1>1. /\ ServiceTypeOK /\ call[c] \in Call /\ media[c] \in [Media -> ObjectState]
      /\ CallOK(c, call[c], object[c], media[c], inflight[c], shown[c])
      /\ call[c].kind = "carousel" /\ m \in inflight[c] /\ MaxPolls \in Nat
      /\ UNCHANGED <<object, shown>>
  BY Here, ServiceAssumption DEF CreateCarouselItem
<1>2. object[c] = "none" /\ call[c].pc \notin {"pollChildren", "carousel"}
  BY <1>1 DEF CallOK, Complete
<1>3. /\ inflight' \in [Calls -> SUBSET Media] /\ inflight'[c] = inflight[c] \ {m}
      /\ \A e \in Calls \ {c} : inflight'[e] = inflight[e]
  BY <1>1 DEF CreateCarouselItem, ServiceTypeOK
<1>4. /\ media' \in [Calls -> [Media -> ObjectState]]
      /\ \A e \in Calls \ {c} : media'[e] = media[e]
  <2>1. media' = media \/ media' = [media EXCEPT ![c][m] = "inProgress"]
    BY DEF CreateCarouselItem
  <2>2. "inProgress" \in ObjectState
    BY DEF ObjectState
  <2> QED BY <2>1, <2>2, MediumWritten
<1>5. CASE UNCHANGED call
  <2>1. ServiceTypeOK' /\ OnlyOf(c)
    BY <1>1, <1>3, <1>4, <1>5 DEF ServiceTypeOK, OnlyOf
  <2>2. CallOK(c, call'[c], object'[c], media'[c], inflight'[c], shown'[c])
    BY <1>1, <1>2, <1>5 DEF CallOK, Complete
  <2> QED BY <1>5, <2>1, <2>2, OwnStep
<1>6. CASE call[c].pc = "children" /\ inflight[c] = {m} /\ GotoWith(c, "pollChildren", MaxPolls)
  <2> DEFINE k == [call[c] EXCEPT !.pc = "pollChildren", !.left = MaxPolls]
  <2>1. /\ k.pc = "pollChildren" /\ k.kind = call[c].kind /\ k.target = call[c].target
        /\ k.aim = call[c].aim /\ k.outcome = call[c].outcome /\ k.todo = call[c].todo
    BY <1>1 DEF Call
  <2>2. call' \in [Calls -> Call] /\ call'[c] = k /\ \A e \in Calls \ {c} : call'[e] = call[e]
    <3>1. "pollChildren" \in Pcs
      BY DEF Pcs
    <3>2. ServiceTypeOK /\ MaxPolls \in Nat /\ GotoWith(c, "pollChildren", MaxPolls)
      BY <1>1, <1>6
    <3> HIDE DEF k
    <3>3. \A left \in Nat : GotoWith(c, "pollChildren", left) =>
             /\ call' \in [Calls -> Call]
             /\ call'[c] = [call[c] EXCEPT !.pc = "pollChildren", !.left = left]
             /\ \A e \in Calls \ {c} : call'[e] = call[e]
      BY <3>1, <3>2, Moves
    <3> QED BY <3>2, <3>3 DEF k
  <2> HIDE DEF k
  <2>3. ServiceTypeOK' /\ OnlyOf(c) /\ ~TakenUp(call[c])
    BY <1>1, <1>3, <1>4, <1>6, <2>2 DEF ServiceTypeOK, OnlyOf, TakenUp
  <2>4. CallOK(c, k, object'[c], media'[c], inflight'[c], shown'[c])
    BY <1>1, <1>2, <1>3, <1>6, <2>1 DEF CallOK, Stands, Made, Complete, Building
  <2> QED BY <2>1, <2>2, <2>3, <2>4, OwnStep
<1>7. CASE call[c].pc = "children" /\ End(c, "failure")
  <2> DEFINE k == [call[c] EXCEPT !.pc = "done", !.outcome = "failure"]
  <2>1. /\ k.pc = "done" /\ k.kind = call[c].kind /\ k.target = call[c].target
        /\ k.aim = call[c].aim /\ k.outcome = "failure"
    BY <1>1 DEF Call
  <2>2. call' \in [Calls -> Call] /\ call'[c] = k /\ \A e \in Calls \ {c} : call'[e] = call[e]
    BY <1>1, <1>7, Moves
  <2> HIDE DEF k
  <2>3. ServiceTypeOK' /\ OnlyOf(c) /\ ~TakenUp(call[c])
    BY <1>1, <1>3, <1>4, <1>7, <2>2 DEF ServiceTypeOK, OnlyOf, TakenUp
  <2>4. CallOK(c, k, object'[c], media'[c], inflight'[c], shown'[c])
    BY <1>1, <1>2, <1>7, <2>1 DEF CallOK, Stands, Made, Complete, Building
  <2> QED BY <2>1, <2>2, <2>3, <2>4, OwnStep
<1> QED BY <1>5, <1>6, <1>7 DEF CreateCarouselItem

(* What is no longer asked about was found finished.                           *)
LEMMA PollMultipleContainersKeeps ==
    ASSUME ServiceInv, NEW c \in Calls, PollMultipleContainers(c) PROVE ServiceInv'
<1> DEFINE rest == {m \in call[c].todo : media[c][m] # "finished"}
<1>1. /\ ServiceTypeOK /\ call[c] \in Call /\ call[c].left \in Nat /\ call[c].todo \subseteq Media
      /\ CallOK(c, call[c], object[c], media[c], inflight[c], shown[c])
      /\ call[c].pc = "pollChildren" /\ UNCHANGED <<object, media, inflight, shown>>
      /\ ~TakenUp(call[c])
  BY Here DEF PollMultipleContainers, Call, TakenUp
<1>2. inflight[c] = {} /\ \A m \in Media \ rest : media[c][m] \in Ready
  BY <1>1 DEF CallOK, Complete, Ready
<1>3. CASE End(c, "failure")
  BY <1>1, <1>3, FailKeeps
<1>4. CASE rest = {} /\ Goto(c, "carousel")
  <2> DEFINE k == [call[c] EXCEPT !.pc = "carousel"]
  <2>1. /\ k.pc = "carousel" /\ k.kind = call[c].kind /\ k.target = call[c].target
        /\ k.aim = call[c].aim /\ k.outcome = call[c].outcome /\ k.todo = call[c].todo
    BY <1>1 DEF Call
  <2>2. call' \in [Calls -> Call] /\ call'[c] = k /\ \A e \in Calls \ {c} : call'[e] = call[e]
    BY <1>1, <1>4, Moves DEF Pcs
  <2> HIDE DEF k
  <2>3. ServiceTypeOK' /\ OnlyOf(c)
    BY <1>1, <2>2 DEF ServiceTypeOK, OnlyOf
  <2>4. CallOK(c, k, object[c], media[c], inflight[c], shown[c])
    BY <1>1, <1>2, <1>4, <2>1 DEF CallOK, Stands, Made, Complete, Building
  <2> QED BY <1>1, <2>1, <2>2, <2>3, <2>4, OwnStep
<1>5. CASE /\ call[c].left > 1
           /\ call' = [call EXCEPT ![c].todo = rest, ![c].left = @ - 1]
  <2>0. rest \in SUBSET Media /\ call[c].left - 1 \in Nat
    BY <1>1, <1>5
  <2> HIDE DEF rest
  <2> DEFINE k == [call[c] EXCEPT !.todo = rest, !.left = @ - 1]
  <2>1. /\ k \in Call /\ k.pc = call[c].pc /\ k.kind = call[c].kind /\ k.target = call[c].target
        /\ k.aim = call[c].aim /\ k.outcome = call[c].outcome /\ k.todo = rest
    BY <1>1, <2>0 DEF Call
  <2>2. call' = [call EXCEPT ![c] = k]
    BY <1>1, <1>5 DEF ServiceTypeOK
  <2> HIDE DEF k
  <2>3. call' \in [Calls -> Call] /\ call'[c] = k /\ \A e \in Calls \ {c} : call'[e] = call[e]
    BY <1>1, <2>1, <2>2 DEF ServiceTypeOK
  <2>4. ServiceTypeOK' /\ OnlyOf(c)
    BY <1>1, <2>3 DEF ServiceTypeOK, OnlyOf
  <2>5. CallOK(c, k, object[c], media[c], inflight[c], shown[c])
    BY <1>1, <1>2, <2>1 DEF CallOK, Stands, Made, Complete, Building
  <2> QED BY <1>1, <2>1, <2>3, <2>4, <2>5, OwnStep
<1> QED BY <1>3, <1>4, <1>5 DEF PollMultipleContainers

LEMMA PublishContainerKeeps ==
    ASSUME ServiceInv, NEW c \in Calls, PublishContainer(c) PROVE ServiceInv'
<1>1. /\ ServiceTypeOK /\ call[c] \in Call /\ call[c].left \in Nat
      /\ CallOK(c, call[c], object[c], media[c], inflight[c], shown[c])
      /\ call[c].pc = "state" /\ UNCHANGED <<object, media, inflight, shown>>
      /\ ~TakenUp(call[c])
  BY Here DEF PublishContainer, Call, TakenUp
<1>2. CASE End(c, "failure")
  BY <1>1, <1>2, FailKeeps
<1>3. CASE End(c, "success")
  <2> DEFINE k == [call[c] EXCEPT !.pc = "done", !.outcome = "success"]
  <2>1. /\ k.pc = "done" /\ k.kind = call[c].kind /\ k.target = call[c].target
        /\ k.aim = call[c].aim /\ k.outcome = "success"
    BY <1>1 DEF Call
  <2>2. call' \in [Calls -> Call] /\ call'[c] = k /\ \A e \in Calls \ {c} : call'[e] = call[e]
    BY <1>1, <1>3, Moves
  <2> HIDE DEF k
  <2>3. ServiceTypeOK' /\ OnlyOf(c)
    BY <1>1, <2>2 DEF ServiceTypeOK, OnlyOf
  <2>4. CallOK(c, k, object[c], media[c], inflight[c], shown[c])
    BY <1>1, <2>1 DEF CallOK, Stands, Made, Complete, Building
  <2> QED BY <1>1, <2>1, <2>2, <2>3, <2>4, OwnStep
<1>4. ASSUME NEW pc \in {"state", "mediaPublish"}, NEW left \in Nat,
             call' = [call EXCEPT ![c] = [call[c] EXCEPT !.pc = pc, !.left = left]]
      PROVE  ServiceInv'
  <2> DEFINE k == [call[c] EXCEPT !.pc = pc, !.left = left]
  <2>1. /\ k \in Call /\ k.pc = pc /\ k.kind = call[c].kind /\ k.target = call[c].target
        /\ k.aim = call[c].aim /\ k.outcome = call[c].outcome
    BY <1>1 DEF Call, Pcs
  <2>2. call' = [call EXCEPT ![c] = k]
    BY <1>4
  <2> HIDE DEF k
  <2>3. ServiceTypeOK' /\ OnlyOf(c) /\ call'[c] = k
    BY <1>1, <2>1, <2>2 DEF ServiceTypeOK, OnlyOf
  <2>4. CallOK(c, k, object[c], media[c], inflight[c], shown[c])
    BY <1>1, <2>1 DEF CallOK, Stands, Made, Complete, Building
  <2> QED BY <1>1, <2>1, <2>3, <2>4, OwnStep
<1>5. CASE Goto(c, "mediaPublish")
  <2>1. call' = [call EXCEPT ![c] = [call[c] EXCEPT !.pc = "mediaPublish", !.left = call[c].left]]
    BY <1>1, <1>5 DEF Goto, ServiceTypeOK, Call
  <2> QED BY <1>1, <1>4, <2>1
<1>6. CASE call[c].left > 0 /\ GotoWith(c, "state", call[c].left - 1)
  <2>1. call[c].left - 1 \in Nat
    BY <1>1, <1>6
  <2> DEFINE left == call[c].left - 1
  <2>2. left \in Nat /\ GotoWith(c, "state", left)
    BY <1>6, <2>1
  <2> HIDE DEF left
  <2>3. call' = [call EXCEPT ![c] = [call[c] EXCEPT !.pc = "state", !.left = left]]
    BY <1>1, <2>2 DEF GotoWith, ServiceTypeOK
  <2> QED BY <1>4, <2>2, <2>3
<1> QED BY <1>2, <1>3, <1>5, <1>6 DEF PublishContainer

(* A finished container, the call's own or one it took up, is shown.           *)
LEMMA MediaPublishKeeps ==
    ASSUME ServiceInv, NEW c \in Calls, MediaPublish(c) PROVE ServiceInv'
<1> DEFINE d == call[c].target
<1>1. /\ ServiceTypeOK /\ call[c] \in Call /\ d \in Calls
      /\ CallOK(c, call[c], object[c], media[c], inflight[c], shown[c])
      /\ CallOK(d, call[d], object[d], media[d], inflight[d], shown[d])
      /\ call[c].pc = "mediaPublish" /\ UNCHANGED <<media, inflight>> /\ ~TakenUp(call[c])
      /\ d # c => TakenUp(call[d])
  BY Here DEF MediaPublish, TakenUp
<1>2. CASE End(c, "failure") /\ UNCHANGED <<object, shown>>
  BY <1>1, <1>2, FailKeeps
<1>3. ASSUME NEW r \in {"success", "failure"}, End(c, r), object[d] = "finished",
             object' = [object EXCEPT ![d] = "published"], shown' = [shown EXCEPT ![d] = @ + 1]
      PROVE  ServiceInv'
  <2> DEFINE k == [call[c] EXCEPT !.pc = "done", !.outcome = r]
  <2>1. /\ k.pc = "done" /\ k.kind = call[c].kind /\ k.target = d
        /\ k.aim = call[c].aim /\ k.outcome = r
    BY <1>1 DEF Call
  <2>2. call' \in [Calls -> Call] /\ call'[c] = k /\ \A e \in Calls \ {c} : call'[e] = call[e]
    BY <1>1, <1>3, Moves
  <2> HIDE DEF k, d
  <2>3. shown[d] = 0 /\ shown[d] + 1 = 1
    BY <1>1, <1>3 DEF CallOK, Made
  <2>4. /\ object' \in [Calls -> ObjectState] /\ shown' \in [Calls -> 0..1]
        /\ object'[d] = "published" /\ shown'[d] = 1
        /\ \A e \in Calls \ {d} : object'[e] = object[e] /\ shown'[e] = shown[e]
    BY <1>1, <1>3, <2>3 DEF ServiceTypeOK, ObjectState
  <2>5. ServiceTypeOK'
    BY <1>1, <2>2, <2>4 DEF ServiceTypeOK
  <2>6. CallOK(c, k, object'[c], media[c], inflight[c], shown'[c])
    BY <1>1, <1>3, <2>1, <2>4 DEF CallOK, Stands, Made, Complete, Building
  <2>7. d # c => CallOK(d, call[d], object'[d], media[d], inflight[d], shown'[d])
    BY <1>1, <1>3, <2>4 DEF CallOK, Stands, Made, Complete, Building, TakenUp
  <2>8. \A e \in Calls : CallOK(e, call'[e], object'[e], media'[e], inflight'[e], shown'[e])
    <3> SUFFICES ASSUME NEW e \in Calls
                 PROVE  CallOK(e, call'[e], object'[e], media'[e], inflight'[e], shown'[e])
      OBVIOUS
    <3>1. CASE e = c
      BY <1>1, <2>2, <2>6, <3>1
    <3>2. CASE e # c /\ e = d
      BY <1>1, <2>2, <2>7, <3>2
    <3>3. CASE e # c /\ e # d
      BY <1>1, <2>2, <2>4, <3>3, Here
    <3> QED BY <3>1, <3>2, <3>3
  <2>9. TargetInv'
    BY <1>1, <2>1, <2>2, <2>5, TargetsKept DEF d
  <2> QED BY <2>5, <2>8, <2>9 DEF ServiceInv
<1> QED BY <1>2, <1>3 DEF MediaPublish

(* What a call took up is deleted; it stays the object of a successful call.   *)
LEMMA DeleteKeeps ==
    ASSUME ServiceInv, NEW c \in Calls, DeleteContainer(c) \/ DeletePageObject(c)
    PROVE  ServiceInv'
<1> DEFINE d == call[c].target
<1>1. /\ ServiceTypeOK /\ call[c] \in Call /\ d \in Calls
      /\ CallOK(c, call[c], object[c], media[c], inflight[c], shown[c])
      /\ CallOK(d, call[d], object[d], media[d], inflight[d], shown[d])
      /\ call[c].pc = "delete" /\ UNCHANGED <<media, inflight, shown>> /\ ~TakenUp(call[c])
      /\ d # c => TakenUp(call[d])
  BY Here DEF DeleteContainer, DeletePageObject, DeleteObject, TakenUp
<1>2. d # c /\ TakenUp(call[d])
  BY <1>1 DEF CallOK, Stands
<1>3. CASE End(c, "failure") /\ UNCHANGED object
  BY <1>1, <1>3, FailKeeps
<1>4. ASSUME NEW r \in {"success", "failure"}, End(c, r), object' = [object EXCEPT ![d] = "deleted"]
      PROVE  ServiceInv'
  <2> DEFINE k == [call[c] EXCEPT !.pc = "done", !.outcome = r]
  <2>1. /\ k.pc = "done" /\ k.kind = call[c].kind /\ k.target = d
        /\ k.aim = call[c].aim /\ k.outcome = r
    BY <1>1 DEF Call
  <2>2. call' \in [Calls -> Call] /\ call'[c] = k /\ \A e \in Calls \ {c} : call'[e] = call[e]
    BY <1>1, <1>4, Moves
  <2> HIDE DEF k, d
  <2>3. /\ object' \in [Calls -> ObjectState] /\ object'[d] = "deleted"
        /\ \A e \in Calls \ {d} : object'[e] = object[e]
    BY <1>1, <1>4 DEF ServiceTypeOK, ObjectState
  <2>4. ServiceTypeOK'
    BY <1>1, <2>2, <2>3 DEF ServiceTypeOK
  <2>5. CallOK(c, k, object[c], media[c], inflight[c], shown[c])
    BY <1>1, <2>1 DEF CallOK, Stands, Made, Complete, Building
  <2>6. CallOK(d, call[d], object'[d], media[d], inflight[d], shown[d])
    BY <1>1, <1>2, <2>3 DEF CallOK, Stands, Made, Complete, Building, TakenUp
  <2>7. \A e \in Calls : CallOK(e, call'[e], object'[e], media'[e], inflight'[e], shown'[e])
    <3> SUFFICES ASSUME NEW e \in Calls
                 PROVE  CallOK(e, call'[e], object'[e], media'[e], inflight'[e], shown'[e])
      OBVIOUS
    <3>1. CASE e = c
      BY <1>1, <1>2, <2>2, <2>3, <2>5, <3>1
    <3>2. CASE e = d
      BY <1>1, <1>2, <2>2, <2>6, <3>2
    <3>3. CASE e # c /\ e # d
      BY <1>1, <2>2, <2>3, <3>3, Here
    <3> QED BY <3>1, <3>2, <3>3
  <2>8. TargetInv'
    BY <1>1, <2>1, <2>2, <2>4, TargetsKept DEF d
  <2> QED BY <2>4, <2>7, <2>8 DEF ServiceInv
<1> QED BY <1>3, <1>4 DEF DeleteContainer, DeletePageObject, DeleteObject

-------------------------------------------------------------------------------
(* FacebookPlatformService                                                     *)

LEMMA StartBatchKeeps ==
    ASSUME ServiceInv, NEW c \in Calls, StartBatch(c) PROVE ServiceInv'
<1>1. /\ ServiceTypeOK /\ call[c] \in Call /\ call[c].todo \subseteq Media
      /\ CallOK(c, call[c], object[c], media[c], inflight[c], shown[c])
      /\ call[c].pc = "uploads" /\ UNCHANGED <<object, media, shown>> /\ ~TakenUp(call[c])
  BY Here DEF StartBatch, Call, TakenUp
<1>2. PICK k \in Call, batch \in SUBSET Media :
         /\ call' = [call EXCEPT ![c] = k] /\ inflight' = [inflight EXCEPT ![c] = batch]
         /\ k.pc \in {"uploads", "post"} /\ k.kind = call[c].kind /\ k.target = call[c].target
         /\ k.aim = call[c].aim /\ k.outcome = call[c].outcome
  <2>1. CASE call[c].todo = {} /\ Goto(c, "post") /\ UNCHANGED inflight /\ inflight[c] = {}
    <3> DEFINE k == [call[c] EXCEPT !.pc = "post"]
    <3>1. /\ k \in Call /\ k.pc = "post" /\ k.kind = call[c].kind /\ k.target = call[c].target
          /\ k.aim = call[c].aim /\ k.outcome = call[c].outcome
      BY <1>1 DEF Call, Pcs
    <3>2. call' = [call EXCEPT ![c] = k]
      BY <1>1, <2>1 DEF Goto, ServiceTypeOK
    <3> DEFINE b == {}
    <3>3. b \in SUBSET Media /\ inflight' = [inflight EXCEPT ![c] = b]
      BY <1>1, <2>1 DEF ServiceTypeOK
    <3> HIDE DEF k, b
    <3> QED BY <3>1, <3>2, <3>3
  <2>2. ASSUME NEW batch \in Batches(call[c].todo),
               inflight' = [inflight EXCEPT ![c] = batch],
               call' = [call EXCEPT ![c].todo = @ \ batch]
        PROVE  \E k \in Call, b \in SUBSET Media :
                  /\ call' = [call EXCEPT ![c] = k] /\ inflight' = [inflight EXCEPT ![c] = b]
                  /\ k.pc \in {"uploads", "post"} /\ k.kind = call[c].kind
                  /\ k.target = call[c].target
                  /\ k.aim = call[c].aim /\ k.outcome = call[c].outcome
    <3> DEFINE k == [call[c] EXCEPT !.todo = @ \ batch]
    <3>1. /\ k \in Call /\ k.pc = "uploads" /\ k.kind = call[c].kind /\ k.target = call[c].target
          /\ k.aim = call[c].aim /\ k.outcome = call[c].outcome
      BY <1>1 DEF Call, Pcs
    <3>2. call' = [call EXCEPT ![c] = k]
      BY <1>1, <2>2 DEF ServiceTypeOK
    <3>3. batch \in SUBSET Media
      BY <1>1, <2>2 DEF Batches
    <3> HIDE DEF k
    <3> QED BY <2>2, <3>1, <3>2, <3>3
  <2> QED BY <2>1, <2>2 DEF StartBatch
<1>3. ServiceTypeOK' /\ OnlyOf(c) /\ call'[c] = k
  BY <1>1, <1>2 DEF ServiceTypeOK, OnlyOf
<1>4. CallOK(c, k, object[c], media[c], inflight'[c], shown[c])
  BY <1>1, <1>2 DEF CallOK, Stands, Made, Complete, Building
<1> QED BY <1>1, <1>2, <1>3, <1>4, OwnStep

LEMMA UploadSingleMediaFileKeeps ==
    ASSUME ServiceInv, NEW c \in Calls, NEW m \in Media, UploadSingleMediaFile(c, m)
    PROVE  ServiceInv'
<1>1. /\ ServiceTypeOK /\ call[c] \in Call
      /\ CallOK(c, call[c], object[c], media[c], inflight[c], shown[c])
      /\ call[c].pc = "uploads" /\ UNCHANGED <<call, object, shown>> /\ ~TakenUp(call[c])
      /\ inflight' = [inflight EXCEPT ![c] = @ \ {m}]
  BY Here DEF UploadSingleMediaFile, TakenUp
<1>2. /\ media' \in [Calls -> [Media -> ObjectState]]
      /\ \A e \in Calls \ {c} : media'[e] = media[e]
  <2>1. media' = media \/ media' = [media EXCEPT ![c][m] = "finished"]
    BY DEF UploadSingleMediaFile
  <2>2. "finished" \in ObjectState
    BY DEF ObjectState
  <2> QED BY <2>1, <2>2, MediumWritten
<1>3. ServiceTypeOK' /\ OnlyOf(c)
  BY <1>1, <1>2 DEF ServiceTypeOK, OnlyOf
<1>4. CallOK(c, call[c], object[c], media'[c], inflight'[c], shown[c])
  BY <1>1 DEF CallOK, Stands, Made, Complete, Building
<1> QED BY <1>1, <1>3, <1>4, OwnStep

LEMMA ReelKeeps ==
    ASSUME ServiceInv, NEW c \in Calls, InitiateReelUpload(c) \/ UploadVideoFile(c)
    PROVE  ServiceInv'
<1>1. /\ ServiceTypeOK /\ call[c] \in Call
      /\ CallOK(c, call[c], object[c], media[c], inflight[c], shown[c])
      /\ call[c].pc \in {"reelStart", "reelUpload"} /\ UNCHANGED <<object, media, inflight, shown>>
      /\ ~TakenUp(call[c])
  BY Here DEF InitiateReelUpload, UploadVideoFile, TakenUp
<1>2. CASE End(c, "failure")
  BY <1>1, <1>2, FailKeeps
<1>3. ASSUME NEW pc \in {"reelUpload", "post"}, Goto(c, pc) PROVE ServiceInv'
  <2> DEFINE k == [call[c] EXCEPT !.pc = pc]
  <2>1. /\ k.pc = pc /\ k.kind = call[c].kind /\ k.target = call[c].target
        /\ k.aim = call[c].aim /\ k.outcome = call[c].outcome /\ pc \in Pcs
    BY <1>1 DEF Call, Pcs
  <2>2. call' \in [Calls -> Call] /\ call'[c] = k /\ \A e \in Calls \ {c} : call'[e] = call[e]
    BY <1>1, <1>3, <2>1, Moves
  <2> HIDE DEF k
  <2>3. ServiceTypeOK' /\ OnlyOf(c)
    BY <1>1, <2>2 DEF ServiceTypeOK, OnlyOf
  <2>4. CallOK(c, k, object[c], media[c], inflight[c], shown[c])
    BY <1>1, <2>1 DEF CallOK, Stands, Made, Complete, Building
  <2> QED BY <1>1, <2>1, <2>2, <2>3, <2>4, OwnStep
<1> QED BY <1>2, <1>3 DEF InitiateReelUpload, UploadVideoFile

(* The page object is there from the request that makes it.                    *)
LEMMA PageObjectKeeps ==
    ASSUME ServiceInv, NEW c \in Calls, SchedulePageObject(c) \/ PublishPageObject(c)
    PROVE  ServiceInv'
<1>1. /\ ServiceTypeOK /\ call[c] \in Call
      /\ CallOK(c, call[c], object[c], media[c], inflight[c], shown[c])
      /\ call[c].pc = "post" /\ UNCHANGED <<media, inflight>> /\ ~TakenUp(call[c])
  BY Here DEF SchedulePageObject, PublishPageObject, TakenUp
<1>2. object[c] = "none" /\ shown[c] = 0
  BY <1>1 DEF CallOK, Made, Building
<1>3. CASE End(c, "failure") /\ UNCHANGED <<object, shown>>
  BY <1>1, <1>3, FailKeeps
<1>4. ASSUME NEW r \in {"success", "failure"}, End(c, r),
             \/ /\ object' = [object EXCEPT ![c] = "scheduled"] /\ UNCHANGED shown
                /\ call[c].aim = "schedule"
             \/ object' = [object EXCEPT ![c] = "published"] /\ shown' = [shown EXCEPT ![c] = @ + 1]
      PROVE  ServiceInv'
  <2> DEFINE k == [call[c] EXCEPT !.pc = "done", !.outcome = r]
  <2>1. /\ k.pc = "done" /\ k.kind = call[c].kind /\ k.target = call[c].target
        /\ k.aim = call[c].aim /\ k.outcome = r
    BY <1>1 DEF Call
  <2>2. call' \in [Calls -> Call] /\ call'[c] = k /\ \A e \in Calls \ {c} : call'[e] = call[e]
    BY <1>1, <1>4, Moves
  <2> HIDE DEF k
  <2>3. /\ object' \in [Calls -> ObjectState] /\ shown' \in [Calls -> 0..1]
        /\ \A e \in Calls \ {c} : object'[e] = object[e] /\ shown'[e] = shown[e]
        /\ \/ object'[c] = "scheduled" /\ shown'[c] = 0 /\ call[c].aim = "schedule"
           \/ object'[c] = "published" /\ shown'[c] = 1
    <3>1. "scheduled" \in ObjectState /\ "published" \in ObjectState
      BY DEF ObjectState
    <3>2. object \in [Calls -> ObjectState] /\ shown \in [Calls -> 0..1]
      BY <1>1 DEF ServiceTypeOK
    <3>3. CASE /\ object' = [object EXCEPT ![c] = "scheduled"] /\ UNCHANGED shown
               /\ call[c].aim = "schedule"
      BY <1>2, <3>1, <3>2, <3>3
    <3>4. CASE /\ object' = [object EXCEPT ![c] = "published"]
               /\ shown' = [shown EXCEPT ![c] = @ + 1]
      <4>1. shown[c] + 1 \in 0..1 /\ shown[c] + 1 = 1
        BY <1>2
      <4> QED BY <3>1, <3>2, <3>4, <4>1
    <3> QED BY <1>4, <3>3, <3>4
  <2>4. ServiceTypeOK' /\ OnlyOf(c)
    BY <1>1, <2>2, <2>3 DEF ServiceTypeOK, OnlyOf
  <2>5. CallOK(c, k, object'[c], media[c], inflight[c], shown'[c])
    BY <1>1, <2>1, <2>3 DEF CallOK, Stands, Made, Complete, Building
  <2> QED BY <1>1, <2>1, <2>2, <2>4, <2>5, OwnStep
<1> QED BY <1>3, <1>4 DEF SchedulePageObject, PublishPageObject

-------------------------------------------------------------------------------
(* The platforms' own steps.  Processing starts from a container that is there *)
(* and not yet shown; a finished item can only expire.                         *)
LEMMA PlatformActsKeeps ==
    ASSUME ServiceInv, NEW c \in Calls, PlatformActs(c) PROVE ServiceInv'
<1>1. /\ ServiceTypeOK /\ call[c] \in Call
      /\ object \in [Calls -> ObjectState] /\ shown \in [Calls -> 0..1]
      /\ CallOK(c, call[c], object[c], media[c], inflight[c], shown[c])
      /\ UNCHANGED <<call, inflight>>
  BY Here DEF PlatformActs, ServiceTypeOK
<1>2. ASSUME NEW s \in Processed(object[c]), object' = [object EXCEPT ![c] = s],
             UNCHANGED <<media, shown>>
      PROVE  ServiceInv'
  <2>1. /\ s \in {"finished", "error", "expired"} /\ object[c] \in {"inProgress", "finished"}
        /\ s \in ObjectState
    BY <1>2 DEF Processed, ObjectState
  <2>2. ServiceTypeOK' /\ OnlyOf(c) /\ object'[c] = s
    BY <1>1, <1>2, <2>1 DEF ServiceTypeOK, OnlyOf
  <2>3. CallOK(c, call[c], s, media[c], inflight[c], shown[c])
    BY <1>1, <2>1 DEF CallOK, Stands, Made, Complete, Building
  <2> QED BY <1>1, <1>2, <2>2, <2>3, OwnStep
<1>3. ASSUME NEW m \in Media, NEW s \in Processed(media[c][m]),
             media' = [media EXCEPT ![c][m] = s], UNCHANGED <<object, shown>>
      PROVE  ServiceInv'
  <2>1. /\ s \in ObjectState /\ s \in {"finished", "error", "expired"}
        /\ media[c][m] \in Ready => s \in Ready
    BY <1>3 DEF Processed, ObjectState, Ready
  <2>2. /\ media' \in [Calls -> [Media -> ObjectState]]
        /\ \A e \in Calls \ {c} : media'[e] = media[e]
        /\ \A n \in Media : media'[c][n] = media[c][n] \/ (n = m /\ media'[c][n] = s)
    BY <1>3, <2>1, MediumWritten
  <2>3. ServiceTypeOK' /\ OnlyOf(c)
    BY <1>1, <1>3, <2>2 DEF ServiceTypeOK, OnlyOf
  <2>4. \A n \in Media : media[c][n] \in Ready => media'[c][n] \in Ready
    BY <2>1, <2>2
  <2>5. CallOK(c, call[c], object[c], media'[c], inflight[c], shown[c])
    BY <1>1, <2>4 DEF CallOK, Complete
  <2> QED BY <1>1, <1>3, <2>3, <2>5, OwnStep
<1>4. CASE /\ object[c] = "scheduled" /\ object' = [object EXCEPT ![c] = "published"]
           /\ shown' = [shown EXCEPT ![c] = @ + 1] /\ UNCHANGED media
  <2>1. shown[c] + 1 = 1 /\ shown[c] + 1 \in 0..1 /\ "published" \in ObjectState
    BY <1>1, <1>4 DEF CallOK, Made, ObjectState
  <2>2. /\ object' \in [Calls -> ObjectState] /\ object'[c] = "published"
        /\ shown' \in [Calls -> 0..1] /\ shown'[c] = 1
        /\ \A e \in Calls \ {c} : object'[e] = object[e] /\ shown'[e] = shown[e]
    BY <1>1, <1>4, <2>1
  <2>3. ServiceTypeOK' /\ OnlyOf(c)
    BY <1>1, <1>4, <2>2 DEF ServiceTypeOK, OnlyOf
  <2>4. CallOK(c, call[c], "published", media[c], inflight[c], 1)
    BY <1>1, <1>4 DEF CallOK, Stands, Made, Complete, Building
  <2> QED BY <1>1, <1>4, <2>2, <2>3, <2>4, OwnStep
<1> QED BY <1>2, <1>3, <1>4 DEF PlatformActs

-------------------------------------------------------------------------------
(* The invariant.                                                              *)

LEMMA InitKeeps == ServiceInit => ServiceInv
<1> SUFFICES ASSUME ServiceInit PROVE ServiceInv
  OBVIOUS
<1>1. \A c \in Calls : /\ NewCall(c) \in Call /\ call[c] = NewCall(c)
                       /\ object[c] = "none" /\ shown[c] = 0
  BY DEF ServiceInit, NewCall, Call, Pcs, Kinds, Instagram
<1>2. ServiceTypeOK
  BY <1>1 DEF ServiceInit, ServiceTypeOK, ObjectState
<1>3. ASSUME NEW c \in Calls
      PROVE  /\ CallOK(c, call[c], object[c], media[c], inflight[c], shown[c])
             /\ call[c].target = c
  <2>1. /\ call[c].pc = "idle" /\ call[c].aim = "none" /\ call[c].kind = "image"
        /\ call[c].target = c /\ call[c].outcome = "none"
        /\ object[c] = "none" /\ shown[c] = 0
    BY DEF ServiceInit, NewCall
  <2> QED BY <2>1 DEF CallOK, Stands, Made, Complete, Building
<1>4. TargetInv
  BY <1>3 DEF TargetInv
<1> QED BY <1>2, <1>3, <1>4 DEF ServiceInv

LEMMA StepKeeps ==
    ASSUME ServiceInv, [ServiceNext]_serviceVars PROVE ServiceInv'
<1>1. ASSUME NEW c \in Calls, Entry(c) PROVE ServiceInv'
  BY <1>1, EntryKeeps
<1>2. ASSUME NEW c \in Calls, PlatformActs(c) PROVE ServiceInv'
  BY <1>2, PlatformActsKeeps
<1>3. ASSUME NEW c \in Calls, ServiceStep(c) PROVE ServiceInv'
  BY <1>3, CreateContainerKeeps, PollMediaProcessingKeeps, PollMultipleContainersKeeps,
     PublishContainerKeeps, MediaPublishKeeps, DeleteKeeps, StartBatchKeeps, ReelKeeps,
     PageObjectKeeps, CreateCarouselItemKeeps, UploadSingleMediaFileKeeps
  DEF ServiceStep
<1>4. CASE UNCHANGED serviceVars
  BY <1>4 DEF serviceVars, ServiceInv, ServiceTypeOK, TargetInv, TakenUp
<1> QED BY <1>1, <1>2, <1>3, <1>4 DEF ServiceNext

THEOREM ServiceInvariant == ServiceSpec => []ServiceInv
<1>1. ServiceInit => ServiceInv
  BY InitKeeps
<1>2. ServiceInv /\ [ServiceNext]_serviceVars => ServiceInv'
  BY StepKeeps
<1> QED BY <1>1, <1>2, PTL DEF ServiceSpec

(* Types; in them, that nothing is shown twice.                                *)
THEOREM ServiceTypeCorrect == ServiceSpec => []ServiceTypeOK
<1>1. ServiceInv => ServiceTypeOK
  BY DEF ServiceInv
<1> QED BY <1>1, ServiceInvariant, PTL

(* No carousel is made of items Instagram has not finished processing.         *)
THEOREM CarouselsComplete == ServiceSpec => []CarouselComplete
<1>1. ServiceInv => CarouselComplete
  BY DEF ServiceInv, CarouselComplete, CallOK, Complete, Ready
<1> QED BY <1>1, ServiceInvariant, PTL

-------------------------------------------------------------------------------
(* The services implement OneShotPublish: every step opens or closes a call,   *)
(* shows what a call made, or is none of the caller's business.                *)

(* What the caller sees of the calls.                                          *)
AimOf == [e \in Calls |-> call[e].aim]
TargetOf == [e \in Calls |-> call[e].target]
OutcomeOf == [e \in Calls |-> call[e].outcome]

LEMMA Fields ==
    ASSUME ServiceTypeOK, NEW c \in Calls, NEW k, call' = [call EXCEPT ![c] = k]
    PROVE  /\ AimOf' = [AimOf EXCEPT ![c] = k.aim]
           /\ TargetOf' = [TargetOf EXCEPT ![c] = k.target]
           /\ OutcomeOf' = [OutcomeOf EXCEPT ![c] = k.outcome]
<1>1. call'[c] = k /\ \A e \in Calls \ {c} : call'[e] = call[e]
  BY DEF ServiceTypeOK
<1>2. AimOf' = [AimOf EXCEPT ![c] = k.aim]
  <2>1. AimOf' = [e \in Calls |-> IF e = c THEN k.aim ELSE call[e].aim]
    BY <1>1 DEF AimOf
  <2>2. [AimOf EXCEPT ![c] = k.aim] = [e \in Calls |-> IF e = c THEN k.aim ELSE call[e].aim]
    BY DEF AimOf
  <2> QED BY <2>1, <2>2
<1>3. TargetOf' = [TargetOf EXCEPT ![c] = k.target]
  <2>1. TargetOf' = [e \in Calls |-> IF e = c THEN k.target ELSE call[e].target]
    BY <1>1 DEF TargetOf
  <2>2. [TargetOf EXCEPT ![c] = k.target] = [e \in Calls |-> IF e = c THEN k.target ELSE call[e].target]
    BY DEF TargetOf
  <2> QED BY <2>1, <2>2
<1>4. OutcomeOf' = [OutcomeOf EXCEPT ![c] = k.outcome]
  <2>1. OutcomeOf' = [e \in Calls |-> IF e = c THEN k.outcome ELSE call[e].outcome]
    BY <1>1 DEF OutcomeOf
  <2>2. [OutcomeOf EXCEPT ![c] = k.outcome] = [e \in Calls |-> IF e = c THEN k.outcome ELSE call[e].outcome]
    BY DEF OutcomeOf
  <2> QED BY <2>1, <2>2
<1> QED BY <1>2, <1>3, <1>4

LEMMA QuietStep ==
    ASSUME ServiceTypeOK, NEW c \in Calls, UNCHANGED shown,
           \/ UNCHANGED call
           \/ \E pc : Goto(c, pc)
           \/ \E pc, left : GotoWith(c, pc, left)
           \/ \E todo : call' = [call EXCEPT ![c].todo = todo]
           \/ \E todo, left : call' = [call EXCEPT ![c].todo = todo, ![c].left = left]
    PROVE  UNCHANGED Abstract!oneShotVars
<1>1. call \in [Calls -> Call] /\ call[c] \in Call
  BY DEF ServiceTypeOK
<1>2. CASE UNCHANGED call
  BY <1>2 DEF Abstract!oneShotVars
<1>3. CASE \E k : /\ call' = [call EXCEPT ![c] = k]
                 /\ k.aim = call[c].aim /\ k.target = call[c].target
                 /\ k.outcome = call[c].outcome
  <2>1. PICK k : /\ call' = [call EXCEPT ![c] = k]
                 /\ k.aim = call[c].aim /\ k.target = call[c].target
                 /\ k.outcome = call[c].outcome
    BY <1>3
  <2>2. AimOf' = AimOf
    BY <2>1, Fields DEF AimOf
  <2>3. TargetOf' = TargetOf
    BY <2>1, Fields DEF TargetOf
  <2>4. OutcomeOf' = OutcomeOf
    BY <2>1, Fields DEF OutcomeOf
  <2> QED BY Zenon, <2>2, <2>3, <2>4 DEF Abstract!oneShotVars, AimOf, TargetOf, OutcomeOf
<1>4. ASSUME NEW pc, Goto(c, pc) PROVE UNCHANGED Abstract!oneShotVars
  <2> DEFINE k == [call[c] EXCEPT !.pc = pc]
  <2>1. call' = [call EXCEPT ![c] = k]
    BY <1>1, <1>4 DEF Goto
  <2>2. k.aim = call[c].aim /\ k.target = call[c].target /\ k.outcome = call[c].outcome
    BY <1>1 DEF Call
  <2> HIDE DEF k
  <2> QED BY <1>3, <2>1, <2>2
<1>5. ASSUME NEW pc, NEW left, GotoWith(c, pc, left) PROVE UNCHANGED Abstract!oneShotVars
  <2> DEFINE k == [call[c] EXCEPT !.pc = pc, !.left = left]
  <2>1. call' = [call EXCEPT ![c] = k]
    BY <1>1, <1>5 DEF GotoWith
  <2>2. k.aim = call[c].aim /\ k.target = call[c].target /\ k.outcome = call[c].outcome
    BY <1>1 DEF Call
  <2> HIDE DEF k
  <2> QED BY <1>3, <2>1, <2>2
<1>6. ASSUME NEW todo, call' = [call EXCEPT ![c].todo = todo]
      PROVE  UNCHANGED Abstract!oneShotVars
  <2> DEFINE k == [call[c] EXCEPT !.todo = todo]
  <2>1. call' = [call EXCEPT ![c] = k]
    BY <1>1, <1>6
  <2>2. k.aim = call[c].aim /\ k.target = call[c].target /\ k.outcome = call[c].outcome
    BY <1>1 DEF Call
  <2> HIDE DEF k
  <2> QED BY <1>3, <2>1, <2>2
<1>7. ASSUME NEW todo, NEW left, call' = [call EXCEPT ![c].todo = todo, ![c].left = left]
      PROVE  UNCHANGED Abstract!oneShotVars
  <2> DEFINE k == [call[c] EXCEPT !.todo = todo, !.left = left]
  <2>1. call' = [call EXCEPT ![c] = k]
    BY <1>1, <1>7
  <2>2. k.aim = call[c].aim /\ k.target = call[c].target /\ k.outcome = call[c].outcome
    BY <1>1 DEF Call
  <2> HIDE DEF k
  <2> QED BY <1>3, <2>1, <2>2
<1> QED BY <1>2, <1>4, <1>5, <1>6, <1>7

LEMMA OpenStep ==
    ASSUME ServiceTypeOK, NEW c \in Calls, call[c].outcome = "none", UNCHANGED shown,
           NEW k, call' = [call EXCEPT ![c] = k], k.aim \in Abstract!Aims, k.target \in Calls,
           k.outcome = IF k.aim = "none" THEN "failure" ELSE "open"
    PROVE  Abstract!OneShotNext
<1>1. OutcomeOf[c] = "none"
  BY DEF OutcomeOf
<1>2. /\ AimOf' = [AimOf EXCEPT ![c] = k.aim]
      /\ TargetOf' = [TargetOf EXCEPT ![c] = k.target]
      /\ OutcomeOf' = [OutcomeOf EXCEPT ![c] = IF k.aim = "none" THEN "failure" ELSE "open"]
  <2>1. /\ AimOf' = [AimOf EXCEPT ![c] = k.aim]
        /\ TargetOf' = [TargetOf EXCEPT ![c] = k.target]
        /\ OutcomeOf' = [OutcomeOf EXCEPT ![c] = k.outcome]
    BY Fields
  <2> QED BY <2>1
<1>3. Abstract!Open(c, k.aim, k.target)
  BY Zenon, <1>1, <1>2 DEF Abstract!Open, AimOf, TargetOf, OutcomeOf
<1> QED BY Zenon, <1>3 DEF Abstract!OneShotNext

(* An answer; with success, what it was to publish has been shown.             *)
LEMMA CloseStep ==
    ASSUME ServiceTypeOK, NEW c \in Calls, call[c].outcome = "open",
           NEW r \in {"success", "failure"}, End(c, r),
           r = "success" /\ call[c].aim = "publish" => shown'[call[c].target] > 0,
           \/ UNCHANGED shown
           \/ /\ call[c].aim = "publish" /\ shown[call[c].target] = 0
              /\ shown' = [shown EXCEPT ![call[c].target] = 1]
    PROVE  Abstract!OneShotNext
<1> DEFINE k == [call[c] EXCEPT !.pc = "done", !.outcome = r]
<1>1. call \in [Calls -> Call] /\ call[c] \in Call /\ call[c].target \in Calls
  BY DEF ServiceTypeOK, Call
<1>2. /\ call' = [call EXCEPT ![c] = k]
      /\ k.aim = call[c].aim /\ k.target = call[c].target /\ k.outcome = r
  BY <1>1 DEF End, Call
<1> HIDE DEF k
<1>3. AimOf' = AimOf /\ TargetOf' = TargetOf /\ OutcomeOf' = [OutcomeOf EXCEPT ![c] = r]
  <2>1. AimOf' = AimOf
    BY <1>2, Fields DEF AimOf
  <2>2. TargetOf' = TargetOf
    BY <1>2, Fields DEF TargetOf
  <2>3. OutcomeOf' = [OutcomeOf EXCEPT ![c] = r]
    BY <1>2, Fields
  <2> QED BY <2>1, <2>2, <2>3
<1>4. AimOf[c] = call[c].aim /\ TargetOf[c] = call[c].target /\ OutcomeOf[c] = "open"
  BY DEF AimOf, TargetOf, OutcomeOf
<1>5. Abstract!Close(c, r)
  BY <1>3, <1>4 DEF Abstract!Close, AimOf, TargetOf, OutcomeOf
<1>6. CASE UNCHANGED shown
  BY <1>5, <1>6 DEF Abstract!OneShotNext
<1>7. CASE /\ call[c].aim = "publish" /\ shown[call[c].target] = 0
           /\ shown' = [shown EXCEPT ![call[c].target] = 1]
  <2>1. Abstract!MayShow(TargetOf[c])
    BY <1>4, <1>7 DEF Abstract!MayShow, AimOf, TargetOf, OutcomeOf
  <2>2. Abstract!Show(TargetOf[c])
    BY <1>3, <1>4, <1>7, <2>1 DEF Abstract!Show, AimOf, TargetOf
  <2> QED BY Zenon, <1>5, <2>2 DEF Abstract!OneShotNext, TargetOf
<1> QED BY <1>6, <1>7

LEMMA EntryRefines ==
    ASSUME ServiceInv, NEW c \in Calls, Entry(c) PROVE Abstract!OneShotNext
<1>1. /\ ServiceTypeOK /\ call \in [Calls -> Call] /\ call[c] \in Call
      /\ call[c].pc = "idle" => call[c].outcome = "none" /\ call[c].aim = "none" /\ call[c].target = c
  BY Here DEF CallOK, Stands, Building, ServiceTypeOK
<1>2. CASE Refuse(c)
  <2> DEFINE k == [call[c] EXCEPT !.pc = "done", !.outcome = "failure"]
  <2>1. call[c].pc = "idle" /\ UNCHANGED shown /\ call' = [call EXCEPT ![c] = k]
    BY <1>1, <1>2 DEF Refuse, End
  <2>2. k.aim = "none" /\ k.target = c /\ k.outcome = "failure" /\ k.aim \in Abstract!Aims
    BY <1>1, <2>1 DEF Call, Abstract!Aims
  <2> HIDE DEF k
  <2> QED BY <1>1, <2>1, <2>2, OpenStep
<1>3. ASSUME NEW kind, NEW aim \in {"prepare", "schedule", "publish"}, NEW first, NEW sent,
             Begin(c, kind, aim, first, sent)
      PROVE  Abstract!OneShotNext
  <2> DEFINE k == [call[c] EXCEPT !.pc = first, !.aim = aim, !.kind = kind,
                                  !.outcome = "open", !.todo = Media]
  <2>1. call[c].pc = "idle" /\ UNCHANGED shown /\ call' = [call EXCEPT ![c] = k]
    BY <1>1, <1>3 DEF Begin
  <2>2. k.aim = aim /\ k.target = c /\ k.outcome = "open" /\ k.aim \in Abstract!Aims
    BY <1>1, <2>1 DEF Call, Abstract!Aims
  <2> HIDE DEF k
  <2> QED BY <1>1, <2>1, <2>2, OpenStep
<1>4. ASSUME NEW d \in Calls, PublishExisting(c, d) PROVE Abstract!OneShotNext
  <2> DEFINE k == [call[c] EXCEPT !.pc = "state", !.aim = "publish", !.target = d,
                                  !.outcome = "open", !.left = MaxRechecks]
  <2>1. call[c].pc = "idle" /\ UNCHANGED shown /\ call' = [call EXCEPT ![c] = k]
    BY <1>1, <1>4 DEF PublishExisting
  <2>2. k.aim = "publish" /\ k.target = d /\ k.outcome = "open" /\ k.aim \in Abstract!Aims
    BY <1>1, <2>1 DEF Call, Abstract!Aims
  <2> HIDE DEF k
  <2> QED BY <1>1, <2>1, <2>2, OpenStep
<1>5. ASSUME NEW d \in Calls, DeleteScheduledPost(c, d) PROVE Abstract!OneShotNext
  <2> DEFINE k == [call[c] EXCEPT !.pc = "delete", !.aim = "delete", !.target = d,
                                  !.outcome = "open"]
  <2>1. call[c].pc = "idle" /\ UNCHANGED shown /\ call' = [call EXCEPT ![c] = k]
    BY <1>1, <1>5 DEF DeleteScheduledPost
  <2>2. k.aim = "delete" /\ k.target = d /\ k.outcome = "open" /\ k.aim \in Abstract!Aims
    BY <1>1, <2>1 DEF Call, Abstract!Aims
  <2> HIDE DEF k
  <2> QED BY <1>1, <2>1, <2>2, OpenStep
<1> QED BY <1>2, <1>3, <1>4, <1>5, ServiceAssumption
        DEF Entry, CreateContainers, ScheduleInstagramPost, PublishInstagramNow,
            ScheduleFacebookPost, PublishFacebookNow

(* The requests that show nothing.                                             *)
LEMMA HiddenStepRefines ==
    ASSUME ServiceInv, NEW c \in Calls, ServiceStep(c),
           ~MediaPublish(c), ~PublishPageObject(c)
    PROVE  Abstract!OneShotNext \/ UNCHANGED Abstract!oneShotVars
<1>1. /\ ServiceTypeOK /\ call[c] \in Call
      /\ CallOK(c, call[c], object[c], media[c], inflight[c], shown[c])
  BY Here
<1>2. call[c].pc \notin {"idle", "done"} => call[c].outcome = "open"
  BY <1>1 DEF CallOK, Stands
<1>3. ASSUME UNCHANGED shown, call[c].pc \notin {"idle", "done"}, End(c, "failure")
      PROVE  Abstract!OneShotNext
  BY <1>1, <1>2, <1>3, CloseStep
<1>4. ASSUME UNCHANGED shown, call[c].pc \notin {"idle", "done"}, End(c, "success"),
             call[c].aim # "publish"
      PROVE  Abstract!OneShotNext
  BY <1>1, <1>2, <1>4, CloseStep
<1>5. ASSUME UNCHANGED shown, call[c].pc \notin {"idle", "done"}, Prepared(c)
      PROVE  Abstract!OneShotNext \/ UNCHANGED Abstract!oneShotVars
  BY <1>1, <1>4, <1>5, QuietStep DEF Prepared
<1>6. CASE CreateMediaContainer(c) \/ CreateReelContainer(c) \/ CreateCarouselContainer(c)
  <2>1. /\ call[c].pc \notin {"idle", "done"} /\ UNCHANGED shown
        /\ End(c, "failure") \/ Prepared(c) \/ \E pc, left : GotoWith(c, pc, left)
    BY <1>6 DEF CreateMediaContainer, CreateReelContainer, CreateCarouselContainer, CreateAnd
  <2> QED BY <1>1, <1>3, <1>5, <2>1, QuietStep
<1>7. CASE PollMediaProcessing(c)
  <2>1. /\ call[c].pc \notin {"idle", "done"} /\ UNCHANGED shown
        /\ End(c, "failure") \/ Prepared(c) \/ \E pc, left : GotoWith(c, pc, left)
    BY <1>7 DEF PollMediaProcessing
  <2> QED BY <1>1, <1>3, <1>5, <2>1, QuietStep
<1>8. CASE PollMultipleContainers(c)
  <2>1. /\ call[c].pc \notin {"idle", "done"} /\ UNCHANGED shown
        /\ \/ End(c, "failure") \/ \E pc : Goto(c, pc)
           \/ \E todo, left : call' = [call EXCEPT ![c].todo = todo, ![c].left = left]
    BY <1>8 DEF PollMultipleContainers
  <2> QED BY <1>1, <1>3, <2>1, QuietStep
<1>9. CASE PublishContainer(c)
  <2>1. /\ call[c].pc \notin {"idle", "done"} /\ UNCHANGED shown
        /\ \/ End(c, "failure") \/ \E pc : Goto(c, pc)
           \/ \E pc, left : GotoWith(c, pc, left)
           \/ object[call[c].target] = "published" /\ End(c, "success")
    BY <1>9 DEF PublishContainer, ContainerState
  <2>2. ASSUME object[call[c].target] = "published", End(c, "success")
        PROVE  Abstract!OneShotNext
    <3>1. call[c].target \in Calls /\ shown[call[c].target] = 1
      BY <2>2, Here DEF CallOK, Made
    <3>2. shown'[call[c].target] > 0
      BY <2>1, <3>1
    <3> QED BY <1>1, <1>2, <2>1, <2>2, <3>2, CloseStep
  <2> QED BY <1>1, <1>3, <2>1, <2>2, QuietStep
<1>10. CASE DeleteContainer(c) \/ DeletePageObject(c)
  <2>1. /\ call[c].pc = "delete" /\ UNCHANGED shown
        /\ End(c, "failure") \/ End(c, "success")
    BY <1>10 DEF DeleteContainer, DeletePageObject, DeleteObject
  <2>2. call[c].aim = "delete"
    BY <1>1, <2>1 DEF CallOK, Stands
  <2> QED BY <1>3, <1>4, <2>1, <2>2
<1>11. CASE StartBatch(c)
  BY <1>1, <1>11, QuietStep DEF StartBatch
<1>12. CASE InitiateReelUpload(c) \/ UploadVideoFile(c)
  BY <1>1, <1>3, <1>12, QuietStep DEF InitiateReelUpload, UploadVideoFile
<1>13. CASE SchedulePageObject(c)
  <2>1. /\ call[c].pc = "post" /\ call[c].aim = "schedule" /\ UNCHANGED shown
        /\ End(c, "failure") \/ End(c, "success")
    BY <1>13 DEF SchedulePageObject
  <2> QED BY <1>3, <1>4, <2>1
<1>14. ASSUME NEW m \in Media, CreateCarouselItem(c, m)
       PROVE  Abstract!OneShotNext \/ UNCHANGED Abstract!oneShotVars
  <2>1. /\ UNCHANGED shown
        /\ \/ UNCHANGED call \/ \E pc, left : GotoWith(c, pc, left)
           \/ call[c].pc = "children" /\ End(c, "failure")
    BY <1>14 DEF CreateCarouselItem
  <2> QED BY <1>1, <1>3, <2>1, QuietStep
<1>15. ASSUME NEW m \in Media, UploadSingleMediaFile(c, m)
       PROVE  Abstract!OneShotNext \/ UNCHANGED Abstract!oneShotVars
  BY <1>1, <1>15, QuietStep DEF UploadSingleMediaFile
<1> QED BY <1>6, <1>7, <1>8, <1>9, <1>10, <1>11, <1>12, <1>13, <1>14, <1>15 DEF ServiceStep

(* The two requests that show, one of them what another call had prepared; an  *)
(* answer that is lost closes the call with a failure.                         *)
LEMMA MediaPublishRefines ==
    ASSUME ServiceInv, NEW c \in Calls, MediaPublish(c) PROVE Abstract!OneShotNext
<1>1. /\ ServiceTypeOK /\ call[c].outcome = "open" /\ call[c].aim = "publish"
      /\ call[c].target \in Calls
  BY Here DEF MediaPublish, CallOK, Stands
<1>2. CASE End(c, "failure") /\ UNCHANGED shown
  BY <1>1, <1>2, CloseStep
<1>3. ASSUME NEW r \in {"success", "failure"}, End(c, r), object[call[c].target] = "finished",
             shown' = [shown EXCEPT ![call[c].target] = @ + 1]
      PROVE  Abstract!OneShotNext
  <2>1. shown[call[c].target] = 0
    BY <1>1, <1>3, Here DEF CallOK, Made
  <2>2. shown' = [shown EXCEPT ![call[c].target] = 1]
    <3>1. shown[call[c].target] + 1 = 1
      BY <2>1
    <3> QED BY <1>3, <3>1
  <2>3. shown'[call[c].target] > 0
    BY <1>1, <2>2 DEF ServiceTypeOK
  <2> QED BY <1>1, <1>3, <2>1, <2>2, <2>3, CloseStep
<1> QED BY <1>2, <1>3 DEF MediaPublish

LEMMA PublishPageObjectRefines ==
    ASSUME ServiceInv, NEW c \in Calls, PublishPageObject(c) PROVE Abstract!OneShotNext
<1>1. /\ ServiceTypeOK /\ call[c].outcome = "open" /\ call[c].aim = "publish"
      /\ call[c].target = c /\ shown[c] = 0
  BY Here DEF PublishPageObject, CallOK, Stands, Made, Building
<1>2. CASE End(c, "failure") /\ UNCHANGED shown
  BY <1>1, <1>2, CloseStep
<1>3. ASSUME NEW r \in {"success", "failure"}, End(c, r), shown' = [shown EXCEPT ![c] = @ + 1]
      PROVE  Abstract!OneShotNext
  <2>1. shown[c] + 1 = 1
    BY <1>1
  <2>2. shown' = [shown EXCEPT ![c] = 1]
    BY <1>3, <2>1
  <2>3. shown'[c] > 0
    BY <1>1, <2>2 DEF ServiceTypeOK
  <2> QED BY <1>1, <1>3, <2>2, <2>3, CloseStep
<1> QED BY <1>2, <1>3 DEF PublishPageObject

(* What a call has scheduled the platform shows by itself, once.               *)
LEMMA PlatformRefines ==
    ASSUME ServiceInv, NEW c \in Calls, PlatformActs(c)
    PROVE  Abstract!OneShotNext \/ UNCHANGED Abstract!oneShotVars
<1>1. ServiceTypeOK /\ UNCHANGED call
  BY DEF ServiceInv, PlatformActs
<1>2. CASE UNCHANGED shown
  BY <1>1, <1>2, QuietStep
<1>3. CASE object[c] = "scheduled" /\ shown' = [shown EXCEPT ![c] = @ + 1]
  <2>1. shown[c] = 0 /\ call[c].aim = "schedule" /\ call[c].outcome \in {"success", "failure"}
    BY <1>3, Here DEF CallOK, Made
  <2>2. AimOf' = AimOf /\ TargetOf' = TargetOf /\ OutcomeOf' = OutcomeOf
    BY <1>1 DEF AimOf, TargetOf, OutcomeOf
  <2>3. AimOf[c] = "schedule" /\ OutcomeOf[c] \in {"success", "failure"}
    BY <2>1 DEF AimOf, OutcomeOf
  <2>4. shown' = [shown EXCEPT ![c] = 1]
    <3>1. shown[c] + 1 = 1
      BY <2>1
    <3> QED BY <1>3, <3>1
  <2>5. Abstract!MayShow(c)
    BY Zenon, <2>3 DEF Abstract!MayShow, AimOf, OutcomeOf
  <2>6. Abstract!Show(c)
    BY Zenon, <2>1, <2>2, <2>4, <2>5 DEF Abstract!Show, AimOf, TargetOf
  <2> QED BY Zenon, <2>2, <2>6 DEF Abstract!OneShotNext, OutcomeOf
<1> QED BY <1>2, <1>3 DEF PlatformActs

LEMMA StepRefines ==
    ServiceInv /\ [ServiceNext]_serviceVars => [Abstract!OneShotNext]_Abstract!oneShotVars
<1> SUFFICES ASSUME ServiceInv, [ServiceNext]_serviceVars
             PROVE  Abstract!OneShotNext \/ UNCHANGED Abstract!oneShotVars
  OBVIOUS
<1>1. ASSUME NEW c \in Calls, Entry(c) PROVE Abstract!OneShotNext
  BY <1>1, EntryRefines
<1>2. ASSUME NEW c \in Calls, ServiceStep(c)
      PROVE  Abstract!OneShotNext \/ UNCHANGED Abstract!oneShotVars
  BY <1>2, HiddenStepRefines, MediaPublishRefines, PublishPageObjectRefines
<1>3. ASSUME NEW c \in Calls, PlatformActs(c)
      PROVE  Abstract!OneShotNext \/ UNCHANGED Abstract!oneShotVars
  BY <1>3, PlatformRefines
<1>4. CASE UNCHANGED serviceVars
  BY <1>4 DEF serviceVars, Abstract!oneShotVars
<1> QED BY <1>1, <1>2, <1>3, <1>4 DEF ServiceNext

LEMMA InitRefines == ServiceInit => Abstract!OneShotInit
<1> SUFFICES ASSUME ServiceInit PROVE Abstract!OneShotInit
  OBVIOUS
<1>1. \A c \in Calls : /\ call[c].aim = "none" /\ call[c].target = c
                       /\ call[c].outcome = "none"
  BY DEF ServiceInit, NewCall
<1>2. AimOf = [c \in Calls |-> "none"]
  BY <1>1 DEF AimOf
<1>3. TargetOf = [c \in Calls |-> c]
  BY <1>1 DEF TargetOf
<1>4. OutcomeOf = [c \in Calls |-> "none"]
  BY <1>1 DEF OutcomeOf
<1> QED BY Zenon, <1>2, <1>3, <1>4 DEF Abstract!OneShotInit, AimOf, TargetOf, OutcomeOf, ServiceInit

(* For any number of calls and whatever is lost, late or concurrent, a call is *)
(* shown at most once, only on behalf of a call that asks for it, and has been *)
(* when it reports success.                                                    *)
THEOREM OneShotRefinement == ServiceSpec => ImplementsOneShot
<1>1. ServiceInit => Abstract!OneShotInit
  BY InitRefines
<1>2. ServiceInv /\ [ServiceNext]_serviceVars => [Abstract!OneShotNext]_Abstract!oneShotVars
  BY StepRefines
<1> QED BY <1>1, <1>2, ServiceInvariant, PTL
        DEF ServiceSpec, ImplementsOneShot, Abstract!OneShotSpec

===============================================================================
