--------------------------- MODULE PlatformServices ----------------------------
(* The two platform services the scheduler calls                               *)
(* (src/src/social-scheduler/platforms): what happens inside one call, request *)
(* by request.  A request is accepted and answered, accepted with the answer   *)
(* lost (every request times out after 30 s or sooner), or refused.  What the  *)
(* services learn of a container they learn by asking for its status.          *)
EXTENDS Naturals, FiniteSets

CONSTANTS
    Calls,        \* calls of schedulePost, publishImmediately, deleteScheduledPost
    Fresh,        \* bound: those that start from nothing; the others take up what
                  \* an earlier call prepared
    Media,        \* the media of a post with more than one
    BatchSize,    \* concurrencyLimit of the Facebook uploads
    MaxPolls,     \* MAX_POLL_ATTEMPTS
    MaxReelPolls, \* status checks of a reel (60 in the code)
    MaxRechecks   \* status checks publishContainer repeats

ASSUME ServiceAssumption ==
    /\ Fresh \subseteq Calls
    /\ {BatchSize, MaxPolls, MaxReelPolls, MaxRechecks} \subseteq Nat \ {0}

VARIABLES
    call,     \* [Calls -> Call], one call of a service
    object,   \* [Calls -> ObjectState], the container or the post it made
    media,    \* [Calls -> [Media -> ObjectState]], carousel items, unpublished uploads
    inflight, \* [Calls -> SUBSET Media], requests about media not answered yet
    shown     \* [Calls -> Nat], how often object was made public

serviceVars == <<call, object, media, inflight, shown>>

Instagram == {"image", "video", "reel", "carousel"}
Facebook == {"fbText", "fbPhoto", "fbVideo", "fbReel"}
Kinds == Instagram \cup Facebook
ObjectState == {"none", "inProgress", "finished", "error", "expired",
                "scheduled", "published", "deleted"}
Pcs == {"idle", "create", "children", "poll", "pollChildren", "carousel", "state",
        "mediaPublish", "uploads", "reelStart", "reelUpload", "post", "delete", "done"}
Call == [pc : Pcs, aim : {"none", "prepare", "schedule", "publish", "delete"}, kind : Kinds,
         target : Calls, left : Nat, todo : SUBSET Media,
         outcome : {"none", "open", "success", "failure"}]

NewCall(c) == [pc |-> "idle", aim |-> "none", kind |-> "image", target |-> c,
               left |-> 0, todo |-> {}, outcome |-> "none"]

ServiceInit ==
    /\ call = [c \in Calls |-> NewCall(c)]
    /\ object = [c \in Calls |-> "none"]
    /\ media = [c \in Calls |-> [m \in Media |-> "none"]]
    /\ inflight = [c \in Calls |-> {}]
    /\ shown = [c \in Calls |-> 0]

Goto(c, pc) == call' = [call EXCEPT ![c].pc = pc]
GotoWith(c, pc, left) == call' = [call EXCEPT ![c].pc = pc, ![c].left = left]
End(c, r) == call' = [call EXCEPT ![c].pc = "done", ![c].outcome = r]

-------------------------------------------------------------------------------
(* Entry                                                                       *)

(* A call without the required fields, with unusable media, or (Facebook) with *)
(* a link that contains 'reel' in a post that is no reel, for which no branch  *)
(* exists, makes no request.                                                   *)
Refuse(c) ==
    /\ call[c].pc = "idle"
    /\ End(c, "failure")
    /\ UNCHANGED <<object, media, inflight, shown>>

Begin(c, kind, aim, first, sent) ==
    /\ call[c].pc = "idle"
    /\ call' = [call EXCEPT ![c] =
                  [@ EXCEPT !.pc = first, !.aim = aim, !.kind = kind,
                            !.outcome = "open", !.todo = Media]]
    /\ inflight' = [inflight EXCEPT ![c] = sent]
    /\ UNCHANGED <<object, media, shown>>

(* Instagram.  The items of a carousel are asked for all at once.              *)
CreateContainers(c, kind, aim) ==
    IF kind = "carousel" THEN Begin(c, kind, aim, "children", Media)
                         ELSE Begin(c, kind, aim, "create", {})

ScheduleInstagramPost(c, kind) == CreateContainers(c, kind, "prepare")

(* publishImmediately, from nothing or with the container of an earlier call   *)
(* of schedulePost.                                                            *)
PublishInstagramNow(c, kind) == CreateContainers(c, kind, "publish")

(* Facebook.                                                                   *)
FirstStep(kind) ==
    CASE kind = "fbPhoto" -> "uploads"
      [] kind = "fbReel" -> "reelStart"
      [] kind \in {"fbText", "fbVideo"} -> "post"

ScheduleFacebookPost(c, kind) == Begin(c, kind, "schedule", FirstStep(kind), {})

PublishFacebookNow(c, kind) == Begin(c, kind, "publish", FirstStep(kind), {})

PublishExisting(c, d) ==
    /\ call[c].pc = "idle"
    /\ call[d].aim = "prepare" /\ call[d].outcome = "success"
    /\ call' = [call EXCEPT ![c] = [@ EXCEPT !.pc = "state", !.aim = "publish",
                                    !.target = d, !.outcome = "open", !.left = MaxRechecks]]
    /\ UNCHANGED <<object, media, inflight, shown>>

DeleteScheduledPost(c, d) ==
    /\ call[c].pc = "idle"
    /\ call[d].aim \in {"prepare", "schedule"} /\ call[d].outcome = "success"
    /\ call' = [call EXCEPT ![c] = [@ EXCEPT !.pc = "delete", !.aim = "delete",
                                    !.target = d, !.outcome = "open"]]
    /\ UNCHANGED <<object, media, inflight, shown>>

-------------------------------------------------------------------------------
(* InstagramPlatformService                                                    *)

(* The container is ready as far as this call knows.                           *)
Prepared(c) ==
    IF call[c].aim = "publish" THEN GotoWith(c, "state", MaxRechecks) ELSE End(c, "success")

(* A request for a container; it is there although its answer may be lost.     *)
CreateAnd(c, next) ==
    /\ \/ /\ object' = [object EXCEPT ![c] = "inProgress"]
          /\ next \/ End(c, "failure")
       \/ UNCHANGED object /\ End(c, "failure")
    /\ UNCHANGED <<media, inflight, shown>>

(* Only a video is waited for: an image and a carousel are said to be READY    *)
(* without asking.                                                             *)
CreateMediaContainer(c) ==
    /\ call[c].pc = "create" /\ call[c].kind \in {"image", "video"}
    /\ CreateAnd(c, IF call[c].kind = "video" THEN GotoWith(c, "poll", MaxPolls) ELSE Prepared(c))

CreateReelContainer(c) ==
    /\ call[c].pc = "create" /\ call[c].kind = "reel"
    /\ CreateAnd(c, GotoWith(c, "poll", MaxReelPolls))

CreateCarouselContainer(c) ==
    /\ call[c].pc = "carousel"
    /\ CreateAnd(c, Prepared(c))

(* createCarouselItemContainer for every medium at once.  The first failure    *)
(* ends the call, whose list of items is still undefined then: the clean-up    *)
(* has nothing to delete, and the other requests go on.                        *)
CreateCarouselItem(c, m) ==
    /\ call[c].kind = "carousel" /\ m \in inflight[c]
    /\ inflight' = [inflight EXCEPT ![c] = @ \ {m}]
    /\ \/ /\ media' = [media EXCEPT ![c][m] = "inProgress"]
          /\ IF call[c].pc = "children" /\ inflight[c] = {m}
             THEN GotoWith(c, "pollChildren", MaxPolls)
             ELSE UNCHANGED call
       \/ /\ media' \in {media, [media EXCEPT ![c][m] = "inProgress"]}
          /\ IF call[c].pc = "children" THEN End(c, "failure") ELSE UNCHANGED call
    /\ UNCHANGED <<object, shown>>

(* pollMediaProcessing: no answer, ERROR and EXPIRED end the call; so does the *)
(* last attempt.  (Mutant: the attempts are not counted down to an end.)       *)
PollMediaProcessingEndless(c) ==
    /\ call[c].pc = "poll"
    /\ \/ End(c, "failure")
       \/ object[c] = "finished" /\ Prepared(c)
       \/ object[c] \in {"inProgress"} /\ GotoWith(c, "poll", call[c].left - 1)
    /\ UNCHANGED <<object, media, inflight, shown>>

PollMediaProcessing(c) ==
    /\ call[c].pc = "poll"
    /\ \/ End(c, "failure")
       \/ object[c] = "finished" /\ Prepared(c)
       \/ object[c] = "inProgress" /\ call[c].left > 1 /\ GotoWith(c, "poll", call[c].left - 1)
    /\ UNCHANGED <<object, media, inflight, shown>>

(* pollMultipleContainers: one round asks for every item not yet finished.     *)
(* (Mutant: what is pending after the last round is not an error.)             *)
PollMultipleContainersLenient(c) ==
    LET rest == {m \in call[c].todo : media[c][m] # "finished"} IN
    /\ call[c].pc = "pollChildren"
    /\ \/ End(c, "failure")
       \/ /\ \A m \in rest : media[c][m] = "inProgress"
          /\ IF rest # {} /\ call[c].left > 1
             THEN call' = [call EXCEPT ![c].todo = rest, ![c].left = @ - 1]
             ELSE Goto(c, "carousel")
    /\ UNCHANGED <<object, media, inflight, shown>>

PollMultipleContainers(c) ==
    LET rest == {m \in call[c].todo : media[c][m] # "finished"} IN
    /\ call[c].pc = "pollChildren"
    /\ \/ End(c, "failure")
       \/ rest = {} /\ Goto(c, "carousel")
       \/ /\ rest # {} /\ \A m \in rest : media[c][m] = "inProgress"
          /\ call[c].left > 1
          /\ call' = [call EXCEPT ![c].todo = rest, ![c].left = @ - 1]
    /\ UNCHANGED <<object, media, inflight, shown>>

ContainerState(c) == object[call[c].target]

(* publishContainer asks for the state first.  A failed request is thrown as a *)
(* plain Error, which isRetryableError never takes for a transient one, so it  *)
(* ends the call.  (Mutant: the checks start over when they have run out.)         *)
PublishContainerUncounted(c) ==
    LET state == ContainerState(c) IN
    /\ call[c].pc = "state"
    /\ \/ End(c, "failure")
       \/ state = "published" /\ End(c, "success")
       \/ state = "finished" /\ Goto(c, "mediaPublish")
       \/ /\ state \in {"inProgress", "error", "expired"}
          /\ GotoWith(c, "state", IF call[c].left > 0 THEN call[c].left - 1 ELSE MaxRechecks)
    /\ UNCHANGED <<object, media, inflight, shown>>

PublishContainer(c) ==
    LET state == ContainerState(c) IN
    /\ call[c].pc = "state"
    /\ \/ End(c, "failure")
       \/ state = "published" /\ End(c, "success")
       \/ state = "finished" /\ Goto(c, "mediaPublish")
       \/ /\ state \in {"inProgress", "error", "expired"} /\ call[c].left > 0
          /\ GotoWith(c, "state", call[c].left - 1)
    /\ UNCHANGED <<object, media, inflight, shown>>

(* media_publish; Instagram publishes a container once.                        *)
MediaPublish(c) ==
    LET d == call[c].target IN
    /\ call[c].pc = "mediaPublish"
    /\ \/ /\ object[d] = "finished"
          /\ object' = [object EXCEPT ![d] = "published"]
          /\ shown' = [shown EXCEPT ![d] = @ + 1]
          /\ \E r \in {"success", "failure"} : End(c, r)
       \/ End(c, "failure") /\ UNCHANGED <<object, shown>>
    /\ UNCHANGED <<media, inflight>>

-------------------------------------------------------------------------------
(* FacebookPlatformService                                                     *)

Batches(todo) == {b \in SUBSET todo : Cardinality(b) = BatchSize \/ (b = todo /\ Cardinality(b) < BatchSize)}

(* handleMediaUpload: batch after batch, each under Promise.allSettled; what   *)
(* could not be uploaded is left out of the post, all of it if need be.        *)
StartBatch(c) ==
    /\ call[c].pc = "uploads" /\ inflight[c] = {}
    /\ IF call[c].todo = {}
       THEN Goto(c, "post") /\ UNCHANGED inflight
       ELSE \E batch \in Batches(call[c].todo) :
               /\ inflight' = [inflight EXCEPT ![c] = batch]
               /\ call' = [call EXCEPT ![c].todo = @ \ batch]
    /\ UNCHANGED <<object, media, shown>>

UploadSingleMediaFile(c, m) ==
    /\ call[c].pc = "uploads" /\ m \in inflight[c]
    /\ inflight' = [inflight EXCEPT ![c] = @ \ {m}]
    /\ media' \in {media, [media EXCEPT ![c][m] = "finished"]}
    /\ UNCHANGED <<call, object, shown>>

InitiateReelUpload(c) ==
    /\ call[c].pc = "reelStart"
    /\ Goto(c, "reelUpload") \/ End(c, "failure")
    /\ UNCHANGED <<object, media, inflight, shown>>

UploadVideoFile(c) ==
    /\ call[c].pc = "reelUpload"
    /\ Goto(c, "post") \/ End(c, "failure")
    /\ UNCHANGED <<object, media, inflight, shown>>

(* The request that makes the post: to feed or videos, or the finish of a reel, *)
(* with a time to publish it at, or without one.                               *)
SchedulePageObject(c) ==
    /\ call[c].pc = "post" /\ call[c].aim = "schedule"
    /\ \/ /\ object' = [object EXCEPT ![c] = "scheduled"]
          /\ \E r \in {"success", "failure"} : End(c, r)
       \/ End(c, "failure") /\ UNCHANGED object
    /\ UNCHANGED <<media, inflight, shown>>

(* (Mutant: it is repeated when no answer came, as executeWithRetry would.)    *)
PublishPageObjectAgain(c) ==
    /\ call[c].pc = "post" /\ call[c].aim = "publish"
    /\ \/ /\ object' = [object EXCEPT ![c] = "published"]
          /\ shown' = [shown EXCEPT ![c] = @ + 1]
          /\ End(c, "success") \/ (shown[c] < 2 /\ UNCHANGED call)
       \/ End(c, "failure") /\ UNCHANGED <<object, shown>>
    /\ UNCHANGED <<media, inflight>>

PublishPageObject(c) ==
    /\ call[c].pc = "post" /\ call[c].aim = "publish"
    /\ \/ /\ object' = [object EXCEPT ![c] = "published"]
          /\ shown' = [shown EXCEPT ![c] = @ + 1]
          /\ \E r \in {"success", "failure"} : End(c, r)
       \/ End(c, "failure") /\ UNCHANGED <<object, shown>>
    /\ UNCHANGED <<media, inflight>>

-------------------------------------------------------------------------------
(* deleteScheduledPost of the two services; a published Instagram post stays.  *)
DeleteObject(c, mayGo) ==
    /\ call[c].pc = "delete"
    /\ \/ /\ mayGo
          /\ object' = [object EXCEPT ![call[c].target] = "deleted"]
          /\ \E r \in {"success", "failure"} : End(c, r)
       \/ End(c, "failure") /\ UNCHANGED object
    /\ UNCHANGED <<media, inflight, shown>>

DeleteContainer(c) ==
    /\ call[call[c].target].kind \in Instagram
    /\ DeleteObject(c, object[call[c].target] # "published")

DeletePageObject(c) ==
    /\ call[call[c].target].kind \in Facebook
    /\ DeleteObject(c, TRUE)

(* The platforms' own steps.                                                   *)
Processed(state) ==
    CASE state = "inProgress" -> {"finished", "error"}
      [] state = "finished" -> {"expired"}
      [] OTHER -> {}

PlatformActs(c) ==
    /\ \/ /\ call[c].kind \in Instagram
          /\ \E s \in Processed(object[c]) : object' = [object EXCEPT ![c] = s]
          /\ UNCHANGED <<media, shown>>
       \/ /\ call[c].kind = "carousel"
          /\ \E m \in Media : \E s \in Processed(media[c][m]) :
                media' = [media EXCEPT ![c][m] = s]
          /\ UNCHANGED <<object, shown>>
       \/ /\ object[c] = "scheduled"
          /\ object' = [object EXCEPT ![c] = "published"]
          /\ shown' = [shown EXCEPT ![c] = @ + 1]
          /\ UNCHANGED media
    /\ UNCHANGED <<call, inflight>>

-------------------------------------------------------------------------------
ServiceStep(c) ==
    \/ CreateMediaContainer(c) \/ CreateReelContainer(c) \/ CreateCarouselContainer(c)
    \/ PollMediaProcessing(c) \/ PollMultipleContainers(c)
    \/ PublishContainer(c) \/ MediaPublish(c) \/ DeleteContainer(c)
    \/ StartBatch(c) \/ InitiateReelUpload(c) \/ UploadVideoFile(c)
    \/ SchedulePageObject(c) \/ PublishPageObject(c) \/ DeletePageObject(c)
    \/ \E m \in Media : CreateCarouselItem(c, m) \/ UploadSingleMediaFile(c, m)

Entry(c) ==
    \/ /\ c \in Fresh
       /\ \/ Refuse(c)
          \/ \E kind \in Instagram : ScheduleInstagramPost(c, kind) \/ PublishInstagramNow(c, kind)
          \/ \E kind \in Facebook : ScheduleFacebookPost(c, kind) \/ PublishFacebookNow(c, kind)
    \/ c \notin Fresh /\ \E d \in Fresh : PublishExisting(c, d) \/ DeleteScheduledPost(c, d)

ServiceNext == \E c \in Calls : Entry(c) \/ ServiceStep(c) \/ PlatformActs(c)

ServiceSpec == ServiceInit /\ [][ServiceNext]_serviceVars

(* Every request ends, by its answer or by its timeout, and the event loop     *)
(* runs what waits for it.  Nothing is assumed of the platforms' own steps.    *)
ServiceFairSpec == ServiceSpec /\ \A c \in Calls : WF_serviceVars(ServiceStep(c))

-------------------------------------------------------------------------------
(* Properties.                                                                 *)

ServiceTypeOK ==
    /\ call \in [Calls -> Call]
    /\ object \in [Calls -> ObjectState]
    /\ media \in [Calls -> [Media -> ObjectState]]
    /\ inflight \in [Calls -> SUBSET Media]
    /\ shown \in [Calls -> 0..1]

(* Whatever is lost, late or concurrent, a call implements OneShotPublish:     *)
(* its post is shown at most once, never without a call that asks for it, and  *)
(* a reported success is a post that was shown (publishContainer with its      *)
(* 'Container already published' branch, publishImmediately of both services). *)
Abstract == INSTANCE OneShotPublish WITH
    aim <- [c \in Calls |-> call[c].aim],
    target <- [c \in Calls |-> call[c].target],
    outcome <- [c \in Calls |-> call[c].outcome]

ImplementsOneShot == Abstract!OneShotSpec

(* No carousel is made of items Instagram has not finished processing, however *)
(* the parallel creations and the rounds of polling fall (createCarousel-      *)
(* Containers).                                                                *)
CarouselComplete ==
    \A c \in Calls : call[c].kind = "carousel" /\ object[c] # "none" =>
        \A m \in Media : media[c][m] \in {"finished", "expired"}

(* Every call comes to an end, even if Instagram never finishes processing:    *)
(* all polling is bounded.                                                     *)
CallsEnd == \A c \in Calls : call[c].outcome = "open" ~> call[c].pc = "done"

===============================================================================
