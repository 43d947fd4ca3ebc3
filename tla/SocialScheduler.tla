---------------------------- MODULE SocialScheduler ----------------------------
(* The scheduler service of src/src/social-scheduler: the three HTTP           *)
(* operations (schedule, publish now, cancel), the BullMQ worker that          *)
(* publishes queued posts, the queue 'social-posting' itself, and the social   *)
(* platform.  Every `await` of the code is a place where another call, the     *)
(* worker or the platform may step in, so each stretch between two awaits is   *)
(* one action.  The API and the worker live in one Node process: Crash stops   *)
(* both at once, and only the database, the queue and the platform survive.    *)
EXTENDS Naturals, Sequences, FiniteSets

CONSTANTS
    Posts,        \* rows of the table Post
    Calls,        \* HTTP requests that can be in flight at the same time
    MaxRetries,   \* Post.maxRetries (RETRY_CONFIG.MAX_RETRIES)
    JobAttempts,  \* defaultJobOptions.attempts of the queue
    MaxStalls,    \* BullMQ's maxStalledCount
    MaxCalls,     \* bound: requests received in a behaviour
    MaxCrashes    \* bound: process crashes in a behaviour

ASSUME PostsAssumption == Posts # {}
ASSUME RetryAssumption == MaxRetries \in Nat \ {0} /\ JobAttempts \in Nat \ {0}
ASSUME BoundAssumption == MaxStalls \in Nat /\ MaxCalls \in Nat /\ MaxCrashes \in Nat

VARIABLES
    post,       \* [Posts -> Row], the database
    queue,      \* [JobIds -> Job], the Redis queue
    platform,   \* [Posts -> Seq(ObjectState)], what the platform holds; an id is an index
    call,       \* [Calls -> Call], the local state of the requests in flight
    worker,     \* the local state of the single worker (concurrency 1)
    lateFail,   \* [Posts -> Nat], FAILED writes started and not awaited
    scheduled,  \* history: [Posts -> Nat], writes of status SCHEDULED
    attempted,  \* history: [Posts -> Nat], publications the worker asked for
    calls,      \* requests received so far
    crashes     \* crashes so far

historyVars == <<scheduled, attempted>>
boundVars == <<calls, crashes>>
schedulerVars == <<post, queue, platform, call, worker, lateFail, scheduled,
                   attempted, calls, crashes>>

-------------------------------------------------------------------------------
(* Data.                                                                       *)

PostStatus == {"DRAFT", "PENDING_APPROVAL", "APPROVED", "SCHEDULED", "PUBLISHING",
               "PUBLISHED", "FAILED", "CANCELED"}
QueueStatus == {"PENDING", "PROCESSING", "SCHEDULED", "FAILED", "CANCELLED", "QUEUED",
                "PUBLISHED", "RETRYING"}

(* How schedulePost will treat the post; the platform in the metadata and the  *)
(* kind of the account decide it, and no operation changes either.             *)
Routes == {"INSTAGRAM_CONTAINER", "NATIVE", "BULLMQ"}

(* The part of the JSON column `metadata` the scheduler reads back.            *)
Metadata == [method : Routes \cup {"NONE"}, containerId : Nat]
NoMetadata == [method |-> "NONE", containerId |-> 0]

(* Status NONE: no row yet.  DELETED: the row is gone and its id is not reused. *)
Row == [status : PostStatus \cup {"NONE", "DELETED"}, queueStatus : QueueStatus,
        retryCount : Nat, route : Routes, metadata : Metadata, platformPostId : Nat]

Exists(p) == post[p].status \notin {"NONE", "DELETED"}

(* Job <<p, 0>> is the one schedulePost adds, with jobId = post.id; job        *)
(* <<p, n>> is retry-p-n.  Job data: postId, retryCount = n, containerId.      *)
JobIds == Posts \X (0 .. MaxRetries - 1)
Attempts(id) == IF id[2] = 0 THEN JobAttempts ELSE MaxRetries - id[2]

(* waiting stands for waiting and delayed: when a delay ends is left open.     *)
Job == [state : {"none", "waiting", "active", "failed"}, containerId : Nat,
        made : Nat, stalls : Nat]
NoJob == [state |-> "none", containerId |-> 0, made |-> 0, stalls |-> 0]

ObjectState == {"container", "scheduled", "live", "gone"}
NewId(p) == Len(platform[p]) + 1
Live(p) == {i \in DOMAIN platform[p] : platform[p][i] = "live"}

CallPc == {"idle", "container", "native", "enqueue", "saveScheduled",
           "publish", "savePublished", "saveFailed", "cancel"}
Call == [pc : CallPc, post : Posts, metadata : Metadata, obj : Nat,
         todo : SUBSET {"platform", "queue"}]
IdleCall == [pc |-> "idle", post |-> CHOOSE p \in Posts : TRUE,
             metadata |-> NoMetadata, obj |-> 0, todo |-> {}]

WorkerPc == {"idle", "fetch", "claim", "publish", "savePublished", "saveError",
             "addRetry", "rethrow"}
Worker == [pc : WorkerPc, job : JobIds, metadata : Metadata, obj : Nat]
IdleWorker == [pc |-> "idle", job |-> <<CHOOSE p \in Posts : TRUE, 0>>,
               metadata |-> NoMetadata, obj |-> 0]

TypeOK ==
    /\ post \in [Posts -> Row]
    /\ queue \in [JobIds -> Job]
    /\ platform \in [Posts -> Seq(ObjectState)]
    /\ call \in [Calls -> Call]
    /\ worker \in Worker
    /\ lateFail \in [Posts -> Nat]
    /\ scheduled \in [Posts -> Nat]
    /\ attempted \in [Posts -> Nat]
    /\ calls \in Nat
    /\ crashes \in Nat

NewRow(status, route) ==
    [status |-> status, queueStatus |-> "PENDING", retryCount |-> 0, route |-> route,
     metadata |-> NoMetadata, platformPostId |-> 0]

InitWith(status) ==
    /\ post \in {[p \in Posts |-> NewRow(status, r[p])] : r \in [Posts -> Routes]}
    /\ queue = [id \in JobIds |-> NoJob]
    /\ platform = [p \in Posts |-> <<>>]
    /\ call = [c \in Calls |-> IdleCall]
    /\ worker = IdleWorker
    /\ lateFail = [p \in Posts |-> 0]
    /\ scheduled = [p \in Posts |-> 0]
    /\ attempted = [p \in Posts |-> 0]
    /\ calls = 0
    /\ crashes = 0

-------------------------------------------------------------------------------
(* Steps the operations share.                                                 *)

(* BullMQ ignores an add whose jobId is already known, whatever its state.     *)
AddJob(id, containerId) ==
    queue' = IF queue[id].state = "none"
             THEN [queue EXCEPT ![id] = [state |-> "waiting", containerId |-> containerId,
                                         made |-> 0, stalls |-> 0]]
             ELSE queue

SetStatus(p, status, queueStatus) ==
    post' = [post EXCEPT ![p].status = status, ![p].queueStatus = queueStatus]

(* fetchPost: the operation starts, with what it keeps of the row it read.  A  *)
(* post that does not exist ends it with nothing changed.                      *)
StartCall(c, p, kept) ==
    /\ call[c].pc = "idle"
    /\ Exists(p)
    /\ call' = [call EXCEPT ![c] = [kept EXCEPT !.post = p]]
    /\ UNCHANGED <<post, queue, platform, worker, lateFail, historyVars, crashes>>

CountCall == calls < MaxCalls /\ calls' = calls + 1

Goto(c, pc) == call' = [call EXCEPT ![c].pc = pc]
GotoWith(c, pc, obj) == call' = [call EXCEPT ![c].pc = pc, ![c].obj = obj]
Return(c) == call' = [call EXCEPT ![c] = IdleCall]

(* handleSchedulingFailure starts the FAILED write and returns without         *)
(* awaiting it.                                                                *)
SchedulingFails(c) ==
    /\ lateFail' = [lateFail EXCEPT ![call[c].post] = @ + 1]
    /\ Return(c)

(* handleSchedulingError; an update of a missing row is caught and logged.     *)
(* Every other write may be refused; this one, the record of a failure, is     *)
(* assumed to find the database.                                               *)
HandleSchedulingError(p) ==
    IF Exists(p) THEN SetStatus(p, "FAILED", "FAILED") ELSE UNCHANGED post

LateFailWrite(p) ==
    /\ lateFail[p] > 0
    /\ lateFail' = [lateFail EXCEPT ![p] = @ - 1]
    /\ HandleSchedulingError(p)
    /\ UNCHANGED <<queue, platform, call, worker, historyVars, boundVars>>

-------------------------------------------------------------------------------
(* POST /social-scheduler/:postId/schedule.  No status is required of the post. *)

FirstStep(route) ==
    CASE route = "INSTAGRAM_CONTAINER" -> "container"
      [] route = "NATIVE" -> "native"
      [] route = "BULLMQ" -> "enqueue"

SchedulePost(c, p) == StartCall(c, p, [IdleCall EXCEPT !.pc = FirstStep(post[p].route)])

(* instagramService.schedulePost: a container is created, or nothing that a    *)
(* row will ever name.                                                         *)
CreateContainer(c) ==
    LET p == call[c].post IN
    /\ call[c].pc = "container"
    /\ \/ /\ platform' = [platform EXCEPT ![p] = Append(@, "container")]
          /\ GotoWith(c, "enqueue", NewId(p))
          /\ UNCHANGED lateFail
       \/ SchedulingFails(c) /\ UNCHANGED platform
    /\ UNCHANGED <<post, queue, worker, historyVars, boundVars>>

(* facebookService.schedulePost: it may succeed, fail, or take effect while    *)
(* its answer is lost (the request times out).                                 *)
ScheduleNative(c) ==
    LET p == call[c].post IN
    /\ call[c].pc = "native"
    /\ \/ /\ platform' = [platform EXCEPT ![p] = Append(@, "scheduled")]
          /\ \/ GotoWith(c, "saveScheduled", NewId(p)) /\ UNCHANGED lateFail
             \/ SchedulingFails(c)
       \/ SchedulingFails(c) /\ UNCHANGED platform
    /\ UNCHANGED <<post, queue, worker, historyVars, boundVars>>

(* queueInstagramJob, queueJob; Redis may refuse.                              *)
QueueJob(c) ==
    /\ call[c].pc = "enqueue"
    /\ \/ /\ AddJob(<<call[c].post, 0>>, call[c].obj)
          /\ Goto(c, "saveScheduled")
          /\ UNCHANGED lateFail
       \/ SchedulingFails(c) /\ UNCHANGED queue
    /\ UNCHANGED <<post, platform, worker, historyVars, boundVars>>

ScheduledRow(row, obj) ==
    [row EXCEPT !.status = "SCHEDULED",
                !.queueStatus = IF row.route = "NATIVE" THEN "SCHEDULED" ELSE "QUEUED",
                !.platformPostId = IF row.route = "NATIVE" THEN obj ELSE @,
                !.metadata.method = row.route,
                !.metadata.containerId = IF row.route = "INSTAGRAM_CONTAINER" THEN obj ELSE @]

(* updateScheduledPost, updateNativeScheduledPost, updateBullMQScheduledPost:  *)
(* the metadata they read first is merged key by key, and every key of it that *)
(* is kept here is written by this very update or by no one else.              *)
(* The second disjunct is an update the database refuses, the row being gone   *)
(* or the connection lost.                                                     *)
SaveScheduled(c) ==
    LET p == call[c].post IN
    /\ call[c].pc = "saveScheduled"
    /\ \/ /\ Exists(p)
          /\ post' = [post EXCEPT ![p] = ScheduledRow(@, call[c].obj)]
          /\ scheduled' = [scheduled EXCEPT ![p] = @ + 1]
          /\ Return(c)
          /\ UNCHANGED lateFail
       \/ SchedulingFails(c) /\ UNCHANGED <<post, scheduled>>
    /\ UNCHANGED <<queue, platform, worker, attempted, boundVars>>

-------------------------------------------------------------------------------
(* POST /social-scheduler/:postId/publish.  No status is required of the post  *)
(* and none is written before the platform is called.                          *)

PublishImmediately(c, p) ==
    StartCall(c, p, [IdleCall EXCEPT !.pc = "publish", !.metadata = post[p].metadata])

(* platformService.publishImmediately with no container: published, refused,   *)
(* or published with the answer lost.  (Mutant: whether the answer reports     *)
(* success is not looked at.)                                                  *)
CallPlatformUnchecked(c) ==
    LET p == call[c].post IN
    /\ call[c].pc = "publish"
    /\ \/ /\ platform' = [platform EXCEPT ![p] = Append(@, "live")]
          /\ GotoWith(c, "savePublished", NewId(p)) \/ Goto(c, "saveFailed")
       \/ Goto(c, "savePublished") /\ UNCHANGED platform
    /\ UNCHANGED <<post, queue, worker, lateFail, historyVars, boundVars>>

CallPlatform(c) ==
    LET p == call[c].post IN
    /\ call[c].pc = "publish"
    /\ \/ /\ platform' = [platform EXCEPT ![p] = Append(@, "live")]
          /\ GotoWith(c, "savePublished", NewId(p)) \/ Goto(c, "saveFailed")
       \/ Goto(c, "saveFailed") /\ UNCHANGED platform
    /\ UNCHANGED <<post, queue, worker, lateFail, historyVars, boundVars>>

(* The row of a published post; the metadata written back is the copy read at  *)
(* the start of the operation.                                                 *)
PublishedRow(row, obj, metadata) ==
    [row EXCEPT !.status = "PUBLISHED", !.queueStatus = "SCHEDULED",
                !.platformPostId = obj, !.metadata = metadata]

UpdatePublishedPost(c) ==
    LET p == call[c].post IN
    /\ call[c].pc = "savePublished"
    /\ \/ /\ Exists(p)
          /\ post' = [post EXCEPT ![p] = PublishedRow(@, call[c].obj, call[c].metadata)]
          /\ Return(c)
       \/ GotoWith(c, "saveFailed", 0) /\ UNCHANGED post
    /\ UNCHANGED <<queue, platform, worker, lateFail, historyVars, boundVars>>

PublishImmediatelyFails(c) ==
    /\ call[c].pc = "saveFailed"
    /\ HandleSchedulingError(call[c].post)
    /\ Return(c)
    /\ UNCHANGED <<queue, platform, worker, lateFail, historyVars, boundVars>>

-------------------------------------------------------------------------------
(* DELETE /social-scheduler/:postId/:organizationId/cancel.                    *)

(* What cancelPlatformResources will delete, by the row it was given: the      *)
(* container the metadata names, or a native post still in status SCHEDULED.   *)
(* (Mutant: a native post in any status.)                                      *)
ToDeleteAnyStatus(row) ==
    CASE row.metadata.method = "INSTAGRAM_CONTAINER" -> row.metadata.containerId
      [] row.metadata.method = "NATIVE" -> row.platformPostId
      [] OTHER -> 0
ToDelete(row) ==
    CASE row.metadata.method = "INSTAGRAM_CONTAINER" -> row.metadata.containerId
      [] row.metadata.method = "NATIVE" /\ row.status = "SCHEDULED" -> row.platformPostId
      [] OTHER -> 0

CancelScheduledPost(c, p) ==
    StartCall(c, p, [IdleCall EXCEPT !.pc = "cancel", !.obj = ToDelete(post[p]),
                                     !.todo = {"platform", "queue"}])

(* A native post can be deleted before and after it is live; deleting a        *)
(* container does not touch the media published from it.                       *)
Deleted(state, route) ==
    IF state = "live" /\ route = "INSTAGRAM_CONTAINER" THEN "live" ELSE "gone"

(* The two halves run under Promise.allSettled: in any order, and a failure of *)
(* either is swallowed.                                                        *)
CancelPlatformResources(c) ==
    LET p == call[c].post
        i == call[c].obj
    IN
    /\ call[c].pc = "cancel" /\ "platform" \in call[c].todo
    /\ call' = [call EXCEPT ![c].todo = @ \ {"platform"}, ![c].obj = 0]
    /\ \/ /\ i \in DOMAIN platform[p]
          /\ platform' = [platform EXCEPT ![p][i] = Deleted(@, post[p].route)]
       \/ UNCHANGED platform
    /\ UNCHANGED <<post, queue, worker, lateFail, historyVars, boundVars>>

(* A job the worker holds is locked and job.remove() fails on it.              *)
Locked(id) == worker.pc # "idle" /\ worker.job = id
Removable(p) == {id \in JobIds : /\ id[1] = p
                                 /\ queue[id].state \in {"waiting", "active"}
                                 /\ ~Locked(id)}

RemoveQueueJobs(c) ==
    /\ call[c].pc = "cancel" /\ "queue" \in call[c].todo
    /\ call' = [call EXCEPT ![c].todo = @ \ {"queue"}]
    /\ \E removed \in SUBSET Removable(call[c].post) :
           queue' = [id \in JobIds |-> IF id \in removed THEN NoJob ELSE queue[id]]
    /\ UNCHANGED <<post, platform, worker, lateFail, historyVars, boundVars>>

MarkPostAsCancelledMisspelt(c) ==
    LET p == call[c].post IN
    /\ call[c].pc = "cancel" /\ call[c].todo = {}
    /\ \/ Exists(p) /\ SetStatus(p, "CANCELLED", "CANCELLED")
       \/ UNCHANGED post
    /\ Return(c)
    /\ UNCHANGED <<queue, platform, worker, lateFail, historyVars, boundVars>>

(* The two enums spell it differently.  (Mutant: they are confused.)           *)
MarkPostAsCancelled(c) ==
    LET p == call[c].post IN
    /\ call[c].pc = "cancel" /\ call[c].todo = {}
    /\ \/ Exists(p) /\ SetStatus(p, "CANCELED", "CANCELLED")
       \/ UNCHANGED post
    /\ Return(c)
    /\ UNCHANGED <<queue, platform, worker, lateFail, historyVars, boundVars>>

-------------------------------------------------------------------------------
(* The worker: SocialPostProcessor.process and processScheduledPost.           *)

JobPost == worker.job[1]
WorkerGoto(pc) == worker' = [worker EXCEPT !.pc = pc]

(* The catch of processScheduledPost: of the attempt, only the job is left.    *)
AttemptFails ==
    worker' = [worker EXCEPT !.pc = "saveError", !.metadata = NoMetadata, !.obj = 0]

TakeJob(id) ==
    /\ worker.pc = "idle"
    /\ queue[id].state = "waiting"
    /\ queue' = [queue EXCEPT ![id].state = "active"]
    /\ worker' = [IdleWorker EXCEPT !.pc = "fetch", !.job = id]
    /\ UNCHANGED <<post, platform, call, lateFail, historyVars, boundVars>>

(* removeOnComplete                                                            *)
CompleteJob ==
    /\ queue' = [queue EXCEPT ![worker.job] = NoJob]
    /\ worker' = IdleWorker

(* isPostScheduled: a post in another status is skipped and the job completes. *)
(* (Mutant: the job is put back to wait for its post.)                         *)
SkipJobRequeues ==
    /\ worker.pc = "fetch"
    /\ Exists(JobPost) /\ post[JobPost].status # "SCHEDULED"
    /\ queue' = [queue EXCEPT ![worker.job].state = "waiting"]
    /\ worker' = IdleWorker
    /\ UNCHANGED <<post, platform, call, lateFail, historyVars, boundVars>>

SkipJob ==
    /\ worker.pc = "fetch"
    /\ Exists(JobPost) /\ post[JobPost].status # "SCHEDULED"
    /\ CompleteJob
    /\ UNCHANGED <<post, platform, call, lateFail, historyVars, boundVars>>

(* A row that is missing, or a database that refuses, ends the attempt.        *)
(* (Mutant: isPostScheduled is not asked.)                                     *)
FetchPostUnchecked ==
    /\ worker.pc = "fetch"
    /\ \/ /\ Exists(JobPost)
          /\ worker' = [worker EXCEPT !.pc = "claim", !.metadata = post[JobPost].metadata]
       \/ WorkerGoto("rethrow")
    /\ UNCHANGED <<post, queue, platform, call, lateFail, historyVars, boundVars>>

FetchPost ==
    /\ worker.pc = "fetch"
    /\ \/ /\ Exists(JobPost) /\ post[JobPost].status = "SCHEDULED"
          /\ worker' = [worker EXCEPT !.pc = "claim", !.metadata = post[JobPost].metadata]
       \/ WorkerGoto("rethrow")
    /\ UNCHANGED <<post, queue, platform, call, lateFail, historyVars, boundVars>>

(* updatePostStatus(PUBLISHING, PROCESSING, retryCount): no condition on the   *)
(* status the row has by now.  (Mutant: only the queue's status is written.)   *)
ClaimedRowKeepsStatus(row, n) ==
    [row EXCEPT !.queueStatus = "PROCESSING", !.retryCount = n]
ClaimedRow(row, n) ==
    [row EXCEPT !.status = "PUBLISHING", !.queueStatus = "PROCESSING", !.retryCount = n]

ClaimPost ==
    /\ worker.pc = "claim"
    /\ \/ /\ Exists(JobPost)
          /\ post' = [post EXCEPT ![JobPost] = ClaimedRow(@, worker.job[2])]
          /\ WorkerGoto("publish")
       \/ AttemptFails /\ UNCHANGED post
    /\ UNCHANGED <<queue, platform, call, lateFail, historyVars, boundVars>>

(* The platform objects the publication may make live: the container of the    *)
(* job data (publishContainer reports success for one already published), or a *)
(* new object when the job names none.                                         *)
Container == queue[worker.job].containerId
Publishable ==
    IF Container = 0 THEN {NewId(JobPost)}
    ELSE {i \in {Container} : platform[JobPost][i] \in {"container", "live"}}

MakeLive(p, i) ==
    platform' = [platform EXCEPT ![p] = IF i \in DOMAIN @ THEN [@ EXCEPT ![i] = "live"]
                                                          ELSE Append(@, "live")]

PublishPost ==
    /\ worker.pc = "publish"
    /\ attempted' = [attempted EXCEPT ![JobPost] = @ + 1]
    /\ \/ \E i \in Publishable :
             /\ MakeLive(JobPost, i)
             /\ \/ worker' = [worker EXCEPT !.pc = "savePublished", !.obj = i]
                \/ AttemptFails
       \/ AttemptFails /\ UNCHANGED platform
    /\ UNCHANGED <<post, queue, call, lateFail, scheduled, boundVars>>

MarkPostAsPublished ==
    /\ worker.pc = "savePublished"
    /\ \/ /\ Exists(JobPost)
          /\ post' = [post EXCEPT ![JobPost] = PublishedRow(@, worker.obj, worker.metadata)]
          /\ CompleteJob
       \/ AttemptFails /\ UNCHANGED <<post, queue>>
    /\ UNCHANGED <<platform, call, lateFail, historyVars, boundVars>>

(* handlePublishingError: the retry count comes from the job data, the row is  *)
(* read only to see whether it is there.                                       *)
CanRetry(n) == n + 1 < MaxRetries

FailedRow(row, n) ==
    [row EXCEPT !.retryCount = n + 1,
                !.queueStatus = IF CanRetry(n) THEN "RETRYING" ELSE "FAILED",
                !.status = IF CanRetry(n) THEN @ ELSE "FAILED"]

HandlePublishingError ==
    LET n == worker.job[2] IN
    /\ worker.pc = "saveError"
    /\ \/ /\ Exists(JobPost)
          /\ post' = [post EXCEPT ![JobPost] = FailedRow(@, n)]
          /\ WorkerGoto(IF CanRetry(n) THEN "addRetry" ELSE "rethrow")
       \/ WorkerGoto("rethrow") /\ UNCHANGED post
    /\ UNCHANGED <<queue, platform, call, lateFail, historyVars, boundVars>>

(* scheduleRetry: the new job names no container; a refusal of Redis is        *)
(* swallowed.                                                                  *)
ScheduleRetry ==
    /\ worker.pc = "addRetry"
    /\ AddJob(<<JobPost, worker.job[2] + 1>>, 0) \/ UNCHANGED queue
    /\ WorkerGoto("rethrow")
    /\ UNCHANGED <<post, platform, call, lateFail, historyVars, boundVars>>

(* The processor rethrows: BullMQ runs the job again until its attempts are    *)
(* used up, then keeps it as failed (removeOnFail).                            *)
RethrowError ==
    LET made == queue[worker.job].made + 1 IN
    /\ worker.pc = "rethrow"
    /\ queue' = [queue EXCEPT ![worker.job].made = made,
                              ![worker.job].state =
                                  IF made < Attempts(worker.job) THEN "waiting" ELSE "failed"]
    /\ worker' = IdleWorker
    /\ UNCHANGED <<post, platform, call, lateFail, historyVars, boundVars>>

-------------------------------------------------------------------------------
(* The environment.                                                            *)

(* BullMQ finds an active job nobody holds and queues it again, or fails it    *)
(* when that has happened too often.                                           *)
RecoverStalledJob(id) ==
    /\ queue[id].state = "active" /\ ~Locked(id)
    /\ queue' = [queue EXCEPT ![id].stalls = @ + 1,
                              ![id].state = IF queue[id].stalls < MaxStalls THEN "waiting"
                                                                          ELSE "failed"]
    /\ UNCHANGED <<post, platform, call, worker, lateFail, historyVars, boundVars>>

(* removeOnFail of retry jobs is the queue's default: old ones are dropped.    *)
EvictFailedRetry(id) ==
    /\ queue[id].state = "failed" /\ id[2] > 0
    /\ queue' = [queue EXCEPT ![id] = NoJob]
    /\ UNCHANGED <<post, platform, call, worker, lateFail, historyVars, boundVars>>

(* Facebook publishes a natively scheduled post by itself, and nothing tells   *)
(* this program; an Instagram container nobody published expires.              *)
PlatformActs(p, i) ==
    /\ \/ /\ platform[p][i] = "scheduled"
          /\ platform' = [platform EXCEPT ![p][i] = "live"]
       \/ /\ platform[p][i] = "container"
          /\ platform' = [platform EXCEPT ![p][i] = "gone"]
    /\ UNCHANGED <<post, queue, call, worker, lateFail, historyVars, boundVars>>

Crash ==
    /\ crashes < MaxCrashes
    /\ crashes' = crashes + 1
    /\ call' = [c \in Calls |-> IdleCall]
    /\ worker' = IdleWorker
    /\ lateFail' = [p \in Posts |-> 0]
    /\ UNCHANGED <<post, queue, platform, historyVars, calls>>

-------------------------------------------------------------------------------
Request(c, p) ==
    /\ CountCall
    /\ SchedulePost(c, p) \/ PublishImmediately(c, p) \/ CancelScheduledPost(c, p)

CallStep(c) ==
    \/ CreateContainer(c) \/ ScheduleNative(c) \/ QueueJob(c) \/ SaveScheduled(c)
    \/ CallPlatform(c) \/ UpdatePublishedPost(c) \/ PublishImmediatelyFails(c)
    \/ CancelPlatformResources(c) \/ RemoveQueueJobs(c) \/ MarkPostAsCancelled(c)

JobStep ==
    \/ SkipJob \/ FetchPost \/ ClaimPost \/ PublishPost \/ MarkPostAsPublished
    \/ HandlePublishingError \/ ScheduleRetry \/ RethrowError

WorkerStep == JobStep \/ \E id \in JobIds : TakeJob(id)

Environment ==
    \/ \E id \in JobIds : RecoverStalledJob(id) \/ EvictFailedRetry(id)
    \/ \E p \in Posts : \E i \in DOMAIN platform[p] : PlatformActs(p, i)

(* Every step but the arrival of requests and the crash.                       *)
SchedulerStep ==
    \/ \E c \in Calls : CallStep(c)
    \/ \E p \in Posts : LateFailWrite(p)
    \/ WorkerStep
    \/ Environment

Init == InitWith("APPROVED")

Next ==
    \/ \E c \in Calls, p \in Posts : Request(c, p)
    \/ SchedulerStep
    \/ Crash

Spec == Init /\ [][Next]_schedulerVars

(* The event loop runs every continuation (HTTP calls end at their timeouts of *)
(* 30 s and 60 s), the worker takes what waits, BullMQ checks for stalled jobs *)
(* periodically.  Requests, crashes and the platform owe nothing.              *)
Fairness ==
    /\ \A c \in Calls : WF_schedulerVars(CallStep(c))
    /\ \A p \in Posts : WF_schedulerVars(LateFailWrite(p))
    /\ WF_schedulerVars(JobStep)
    /\ \A id \in JobIds : SF_schedulerVars(TakeJob(id)) /\ WF_schedulerVars(RecoverStalledJob(id))

FairSpec == Spec /\ Fairness

-------------------------------------------------------------------------------
(* Properties.                                                                 *)

(* The worker asks the platform to publish a post at most once for each time   *)
(* the post was put on the schedule: BullMQ re-running a failed or stalled     *)
(* job, the retry jobs, a crash, a lost answer and a second schedule, cancel   *)
(* or publish request never add a publication.  processScheduledPost's status  *)
(* test and its PUBLISHING write, two separate steps, are what ensures it.     *)
AtMostOncePerSchedule == \A p \in Posts : attempted[p] <= scheduled[p]

(* The scheduler implements PublishPermit.  A post is on the schedule while    *)
(* its row says SCHEDULED, and still when the worker's test has seen it so and *)
(* the row is not claimed yet; the PUBLISHING write claims it.  More than the  *)
(* count above: a publication follows its own claim, of a post whose SCHEDULED *)
(* no cancel, decision, deletion or other publication took away before the     *)
(* test, and schedules that pile up on a row give one publication.             *)
OnSchedule ==
    {p \in Posts : post[p].status = "SCHEDULED" \/ (worker.pc = "claim" /\ JobPost = p)}
Claimed == {p \in Posts : worker.pc = "publish" /\ JobPost = p}

Permit == INSTANCE PublishPermit
          WITH pending <- OnSchedule, claimed <- Claimed,
               granted <- scheduled, used <- attempted
ImplementsPermit == Permit!Spec

(* A post the database calls PUBLISHED is on the platform, whatever a          *)
(* concurrent cancel deletes, a container's expiry or a failed publication do. *)
PublishedIsLive == \A p \in Posts : post[p].status = "PUBLISHED" => Live(p) # {}

(* Every job leaves the queue or ends as failed: re-attempts, retry jobs,      *)
(* skipped jobs and stalled-job recovery never keep one going for ever.        *)
QueueDrains ==
    \A id \in JobIds : queue[id].state \in {"waiting", "active"}
                       ~> queue[id].state \in {"none", "failed"}

(* A retry that was queued is made: the row leaves RETRYING, as                *)
(* handlePublishingError promises ("Scheduled retry n for post ...").          *)
RetryHappens ==
    \A p \in Posts :
        /\ post[p].queueStatus = "RETRYING"
        /\ \E id \in JobIds : id[1] = p /\ id[2] > 0 /\ queue[id].state = "waiting"
        ~> post[p].queueStatus # "RETRYING"

(* Once a cancel has answered, and until a client asks for the post again, the *)
(* objects its row names do not go live: "Cancels (deletes) a scheduled post"  *)
(* (social-scheduler.controller, cancelScheduledPost).                         *)
AtRest(p) == \A c \in Calls : call[c].pc = "idle" \/ call[c].post # p
Named(p) == {post[p].platformPostId, post[p].metadata.containerId}

CancelledStaysDown ==
    [][\A p \in Posts : post[p].status = "CANCELED" /\ AtRest(p)
                        => Live(p)' \cap Named(p) \subseteq Live(p)]_schedulerVars

===============================================================================
