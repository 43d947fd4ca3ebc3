-------------------------- MODULE PostLifecycleProofs --------------------------
(* Proofs about PostLifecycle, for every set of posts and of requests and      *)
(* every value of the bounds.  What the scheduler's own steps preserve is      *)
(* cited from SocialSchedulerProofs; here are the handlers of the posts and    *)
(* approvals services, and the composition.                                    *)
EXTENDS PostLifecycle, SocialSchedulerProofs

-------------------------------------------------------------------------------
(* Type correctness.                                                           *)

(* A handler that opens, moves on or closes keeps its type.                    *)
LEMMA OpenType ==
    ASSUME handler \in [Calls -> Handler], NEW c \in Calls, NEW p \in Posts,
           NEW pc \in HandlerPc, NEW d \in Decisions, Open(c, p, pc, d)
    PROVE  handler' \in [Calls -> Handler]
<1>1. [pc |-> pc, post |-> p, decision |-> d] \in Handler
  BY DEF Handler
<1> QED BY <1>1 DEF Open

(* The record of an idle handler is a handler.                                 *)
LEMMA IdleHandlerType == IdleHandler \in Handler
BY PostsAssumption DEF IdleHandler, Handler, HandlerPc, Decisions

LEMMA ContinueType ==
    ASSUME handler \in [Calls -> Handler], NEW c \in Calls
    PROVE  /\ \A pc \in HandlerPc : Continue(c, pc) => handler' \in [Calls -> Handler]
           /\ Close(c) => handler' \in [Calls -> Handler]
<1>1. ASSUME NEW pc \in HandlerPc PROVE [handler[c] EXCEPT !.pc = pc] \in Handler
  BY DEF Handler
<1> QED BY <1>1, IdleHandlerType DEF Continue, Close

(* The rows the handlers write are rows: one with another status.              *)
LEMMA StatusRowType ==
    ASSUME post \in [Posts -> Row], NEW p \in Posts, NEW s \in PostStatus,
           post' = [post EXCEPT ![p].status = s]
    PROVE  post' \in [Posts -> Row]
<1>1. ASSUME NEW row \in Row PROVE [row EXCEPT !.status = s] \in Row
  BY DEF Row
<1> QED BY <1>1

(* The row of a published post.                                                *)
LEMMA FullRowType ==
    ASSUME post \in [Posts -> Row], NEW p \in Posts,
           NEW s \in PostStatus, NEW q \in QueueStatus, NEW n \in Nat,
           post' = [post EXCEPT ![p].status = s, ![p].queueStatus = q, ![p].retryCount = n]
    PROVE  post' \in [Posts -> Row]
<1>1. ASSUME NEW row \in Row
      PROVE  [row EXCEPT !.status = s, !.queueStatus = q, !.retryCount = n] \in Row
  BY DEF Row
<1> QED BY <1>1

(* The row of a post that failed.                                              *)
LEMMA FailedRowType ==
    ASSUME post \in [Posts -> Row], NEW p \in Posts, NEW n \in Nat, NEW q \in QueueStatus,
           post' = [post EXCEPT ![p].status = "FAILED", ![p].retryCount = n, ![p].queueStatus = q]
    PROVE  post' \in [Posts -> Row]
<1>1. ASSUME NEW row \in Row
      PROVE  [row EXCEPT !.status = "FAILED", !.retryCount = n, !.queueStatus = q] \in Row
  BY DEF Row, PostStatus
<1> QED BY <1>1

(* What is left of a deleted row is a row.                                     *)
LEMMA DeletedRowType ==
    ASSUME post \in [Posts -> Row], NEW p \in Posts
    PROVE  NewRow("DELETED", post[p].route) \in Row
<1>1. ASSUME NEW r \in Routes PROVE NewRow("DELETED", r) \in Row
  BY IdleTypes DEF NewRow, Row, QueueStatus, NoMetadata
<1>2. post[p].route \in Routes
  BY DEF Row
<1> QED BY <1>1, <1>2

(* Every step of a handler keeps the types.                                    *)
LEMMA HandlerStepType ==
    ASSUME LifecycleTypeOK, NEW c \in Calls, HandlerStep(c)
    PROVE  LifecycleTypeOK'
<1> DEFINE p == handler[c].post
           d == handler[c].decision
<1>0. /\ TypeOK /\ post \in [Posts -> Row] /\ platform \in [Posts -> Seq(ObjectState)]
      /\ scheduled \in [Posts -> Nat] /\ handler \in [Calls -> Handler]
      /\ approval \in [Posts -> ApprovalStatus \cup {"NONE"}] /\ allowed \in SUBSET Posts
      /\ p \in Posts /\ d \in Decisions /\ post[p] \in Row
  BY DEF LifecycleTypeOK, TypeOK, Handler
<1> HIDE DEF p, d
<1>1. /\ \A pc \in HandlerPc : Continue(c, pc) => handler' \in [Calls -> Handler]
      /\ Close(c) => handler' \in [Calls -> Handler]
  BY <1>0, ContinueType
<1>2. CASE CommitSubmission(c)
  <2>1. post' \in [Posts -> Row]
    <3>1. post' = [post EXCEPT ![p].status = "PENDING_APPROVAL"] \/ UNCHANGED post
      BY <1>2 DEF CommitSubmission, p
    <3>2. "PENDING_APPROVAL" \in PostStatus
      BY DEF PostStatus
    <3>3. CASE UNCHANGED post
      BY <1>0, <3>3
    <3> QED BY <1>0, <3>1, <3>2, <3>3, StatusRowType
  <2>2. approval' \in [Posts -> ApprovalStatus \cup {"NONE"}]
    BY <1>2, <1>0 DEF CommitSubmission, ApprovalStatus, p
  <2> QED BY <1>2, <1>0, <1>1, <2>1, <2>2
          DEF CommitSubmission, LifecycleTypeOK, TypeOK, unchangedInScheduler
<1>3. CASE CommitDelete(c)
  <2>1. post' \in [Posts -> Row]
    BY <1>3, <1>0, DeletedRowType DEF CommitDelete, p
  <2>2. approval' \in [Posts -> ApprovalStatus \cup {"NONE"}]
    BY <1>3, <1>0 DEF CommitDelete, p
  <2> QED BY <1>3, <1>0, <1>1, <2>1, <2>2
          DEF CommitDelete, LifecycleTypeOK, TypeOK, unchangedInScheduler
<1>4. CASE ExecuteMarkPublishing(c)
  <2>1. post' \in [Posts -> Row]
    BY <1>4, <1>0, SetStatusType DEF ExecuteMarkPublishing, PostStatus, QueueStatus, p
  <2>2. handler' \in [Calls -> Handler]
    BY <1>4, <1>1 DEF ExecuteMarkPublishing, HandlerPc
  <2> QED BY <1>4, <1>0, <2>1, <2>2
          DEF ExecuteMarkPublishing, LifecycleTypeOK, TypeOK, unchangedInScheduler
<1>5. CASE ExecuteCallPlatform(c)
  <2>1. handler' \in [Calls -> Handler]
    BY <1>5, <1>1 DEF ExecuteCallPlatform, HandlerPc
  <2> QED BY <1>5, <1>0, <2>1
          DEF ExecuteCallPlatform, LifecycleTypeOK, TypeOK, unchangedInScheduler
<1>7. CASE ExecuteMarkFailed(c)
  <2>1. post[p].retryCount + 1 \in Nat
    BY <1>0 DEF Row
  <2>2. post' \in [Posts -> Row]
    <3>1. CASE UNCHANGED post
      BY <1>0, <3>1
    <3>2. ASSUME NEW n \in Nat, NEW q \in QueueStatus,
                 post' = [post EXCEPT ![p].status = "FAILED", ![p].retryCount = n,
                                      ![p].queueStatus = q]
          PROVE  post' \in [Posts -> Row]
      BY <1>0, <3>2, FailedRowType
    <3>3. {"RETRYING", "FAILED"} \subseteq QueueStatus
      BY DEF QueueStatus
    <3> QED BY <1>7, <2>1, <3>1, <3>2, <3>3 DEF ExecuteMarkFailed, p
  <2> QED BY <1>7, <1>0, <1>1, <2>2
          DEF ExecuteMarkFailed, LifecycleTypeOK, TypeOK, unchangedInScheduler
<1>8. CASE CommitDecision(c)
  <2>1. post' \in [Posts -> Row]
    <3>1. DecidedStatus(d) \in PostStatus
      BY DEF DecidedStatus, PostStatus
    <3>2. post' = [post EXCEPT ![p].status = DecidedStatus(d)] \/ UNCHANGED post
      BY <1>8 DEF CommitDecision, p, d
    <3>3. CASE UNCHANGED post
      BY <1>0, <3>3
    <3> QED BY <1>0, <3>1, <3>2, <3>3, StatusRowType
  <2>2. approval' \in [Posts -> ApprovalStatus \cup {"NONE"}]
    BY <1>8, <1>0 DEF CommitDecision, ApprovalStatus, p, d
  <2>3. handler' \in [Calls -> Handler]
    BY <1>8, <1>1 DEF CommitDecision, HandlerPc
  <2>4. allowed' \in SUBSET Posts
    BY <1>8, <1>0 DEF CommitDecision, p
  <2> QED BY <1>8, <1>0, <2>1, <2>2, <2>3, <2>4
          DEF CommitDecision, LifecycleTypeOK, TypeOK, unchangedInScheduler
<1>9. CASE HandlePostAfterApproval(c)
  <2>1. handler' \in [Calls -> Handler]
    BY <1>9, <1>1 DEF HandlePostAfterApproval, HandlerPc
  <2>2. call' \in [Calls -> Call]
    BY <1>9, <1>0, RequestType
       DEF HandlePostAfterApproval, unchangedInScheduler, TypeOK, p
  <2>3. UNCHANGED <<post, queue, platform, worker, lateFail, scheduled, attempted, calls,
                    crashes, approval, allowed>>
    BY <1>9 DEF HandlePostAfterApproval, SchedulePost, PublishImmediately, StartCall,
                unchangedInScheduler, historyVars
  <2> QED BY <1>0, <2>1, <2>2, <2>3 DEF LifecycleTypeOK, TypeOK
<1>10. CASE MarkScheduled(c)
  <2>1. post' \in [Posts -> Row]
    <3>1. post' = [post EXCEPT ![p].status = "SCHEDULED"] \/ UNCHANGED post
      BY <1>10 DEF MarkScheduled, p
    <3>2. "SCHEDULED" \in PostStatus
      BY DEF PostStatus
    <3>3. CASE UNCHANGED post
      BY <1>0, <3>3
    <3> QED BY <1>0, <3>1, <3>2, <3>3, StatusRowType
  <2>2. scheduled' \in [Posts -> Nat]
    <3>1. scheduled' = [scheduled EXCEPT ![p] = @ + 1] \/ UNCHANGED scheduled
      BY <1>10 DEF MarkScheduled, p
    <3>2. CASE scheduled' = [scheduled EXCEPT ![p] = @ + 1]
      BY <1>0, <3>2
    <3> QED BY <1>0, <3>1, <3>2
  <2> QED BY <1>10, <1>0, <1>1, <2>1, <2>2
          DEF MarkScheduled, LifecycleTypeOK, TypeOK, unchangedInScheduler
<1>11. CASE FinishPublishing(c)
  BY <1>11, <1>0, <1>1 DEF FinishPublishing, LifecycleTypeOK, TypeOK, schedulerVars
<1> QED BY <1>2, <1>3, <1>4, <1>5, <1>7, <1>8, <1>9, <1>10, <1>11 DEF HandlerStep

(* A request that arrives, at any of the services, keeps the types.            *)
LEMMA ArrivalType ==
    ASSUME LifecycleTypeOK, Arrival
    PROVE  LifecycleTypeOK'
<1>0. /\ TypeOK /\ post \in [Posts -> Row] /\ handler \in [Calls -> Handler]
      /\ approval \in [Posts -> ApprovalStatus \cup {"NONE"}] /\ allowed \in SUBSET Posts
  BY DEF LifecycleTypeOK, TypeOK
<1>1. CountCall => calls' \in Nat
  BY <1>0 DEF CountCall, TypeOK
<1>2. ASSUME NEW p \in Posts, CreatePost(p) PROVE LifecycleTypeOK'
  <2>1. post' \in [Posts -> Row]
    BY <1>2, <1>0, StatusRowType DEF CreatePost, PostStatus
  <2> QED BY <1>2, <1>0, <2>1
          DEF CreatePost, LifecycleTypeOK, TypeOK, unchangedInScheduler, reviewVars
<1>3. ASSUME NEW p \in Posts, RequestApproval(p) PROVE LifecycleTypeOK'
  <2>1. approval' \in [Posts -> ApprovalStatus \cup {"NONE"}]
    BY <1>3, <1>0 DEF RequestApproval, ApprovalStatus
  <2> QED BY <1>3, <1>0, <1>1, <2>1
          DEF RequestApproval, LifecycleTypeOK, TypeOK, unchangedInScheduler
<1>4. ASSUME NEW c \in Calls, NEW p \in Posts, NEW d \in Decisions,
             SubmitForApproval(c, p) \/ DeletePost(c, p) \/ ExecutePublish(c, p) \/ Decide(c, p, d)
      PROVE  LifecycleTypeOK'
  <2>1. handler' \in [Calls -> Handler]
    BY <1>4, <1>0, OpenType
       DEF SubmitForApproval, DeletePost, ExecutePublish, Decide, HandlerPc, Decisions
  <2>2. allowed' \in SUBSET Posts
    BY <1>4, <1>0 DEF SubmitForApproval, DeletePost, ExecutePublish, Decide
  <2> QED BY <1>4, <1>0, <1>1, <2>1, <2>2
          DEF SubmitForApproval, DeletePost, ExecutePublish, Decide, LifecycleTypeOK, TypeOK,
              unchangedInScheduler
<1>5. ASSUME NEW c \in Calls, NEW p \in Posts, DirectRequest(c, p) PROVE LifecycleTypeOK'
  <2>1. call' \in [Calls -> Call]
    BY <1>5, <1>0, RequestType DEF DirectRequest
  <2>2. UNCHANGED <<post, queue, platform, worker, lateFail, scheduled, attempted, crashes>>
    BY <1>5 DEF DirectRequest, SchedulePost, PublishImmediately, CancelScheduledPost, StartCall,
                historyVars
  <2>3. allowed' \in SUBSET Posts
    BY <1>5, <1>0 DEF DirectRequest
  <2> QED BY <1>5, <1>0, <1>1, <2>1, <2>2, <2>3 DEF DirectRequest, LifecycleTypeOK, TypeOK
<1>6. "APPROVED" \in Decisions
  BY DEF Decisions
<1> QED BY <1>2, <1>3, <1>4, <1>5, <1>6 DEF Arrival, PostsRequest, ApprovalsRequest

(* The scheduler's own steps keep the types, with or without the handlers.     *)
LEMMA SchedulerStepType == ASSUME TypeOK, SchedulerStep \/ Crash PROVE TypeOK'
BY CallStepType, WorkerStepType, OtherStepType DEF SchedulerStep

(* Every step of the composed system keeps the types.                          *)
LEMMA LifecycleStepType ==
    ASSUME LifecycleTypeOK, [LifecycleNext]_lifecycleVars
    PROVE  LifecycleTypeOK'
<1>1. CASE InternalStep
  BY <1>1, SchedulerStepType DEF InternalStep, LifecycleTypeOK, reviewVars
<1>2. CASE CrashAll
  <2>1. TypeOK'
    BY <1>2, SchedulerStepType DEF CrashAll, LifecycleTypeOK
  <2> QED BY <1>2, <2>1, IdleHandlerType DEF CrashAll, LifecycleTypeOK
<1>3. CASE UNCHANGED lifecycleVars
  BY <1>3 DEF lifecycleVars, schedulerVars, reviewVars, LifecycleTypeOK, TypeOK
<1> QED BY <1>1, <1>2, <1>3, ArrivalType, HandlerStepType DEF LifecycleNext

(* The initial states are in the types.                                        *)
LEMMA LifecycleInitType == LifecycleInit => LifecycleTypeOK
BY InitType, IdleHandlerType DEF LifecycleInit, LifecycleTypeOK

(* Every variable of the composed system stays in its type.                    *)
THEOREM LifecycleTypeCorrect == LifecycleSpec => []LifecycleTypeOK
BY LifecycleInitType, LifecycleStepType, PTL DEF LifecycleSpec

-------------------------------------------------------------------------------
(* A submitted post can be decided.                                            *)

(* The scheduler writes no status of the review: neither DRAFT nor             *)
(* PENDING_APPROVAL nor APPROVED.                                              *)
SchedulerStatus == {"SCHEDULED", "PUBLISHING", "PUBLISHED", "FAILED", "CANCELED"}
SchedulerWrites(p) == post'[p].status \in {post[p].status} \cup SchedulerStatus

(* What each of the scheduler's four row updates leaves as the status.         *)
LEMMA RowStatus ==
    ASSUME NEW row \in Row, NEW obj \in Nat, NEW m \in Metadata, NEW n \in Nat
    PROVE  /\ ScheduledRow(row, obj).status = "SCHEDULED"
           /\ PublishedRow(row, obj, m).status = "PUBLISHED"
           /\ ClaimedRow(row, n).status = "PUBLISHING"
           /\ FailedRow(row, n).status \in {row.status, "FAILED"}
BY DEF ScheduledRow, PublishedRow, ClaimedRow, FailedRow, Row

(* Writing one whole row is a scheduler's write when the new status is.        *)
LEMMA RowWritten ==
    ASSUME post \in [Posts -> Row], NEW p \in Posts, NEW row,
           row.status \in {post[p].status} \cup SchedulerStatus,
           post' = [post EXCEPT ![p] = row]
    PROVE  \A q \in Posts : SchedulerWrites(q)
<1> SUFFICES ASSUME NEW q \in Posts PROVE SchedulerWrites(q)
  OBVIOUS
<1>1. CASE q = p
  BY <1>1 DEF SchedulerWrites
<1>2. CASE q # p
  BY <1>2 DEF SchedulerWrites
<1> QED BY <1>1, <1>2

(* So is writing one of its statuses into a row.                               *)
LEMMA StatusWritten ==
    ASSUME post \in [Posts -> Row], NEW p \in Posts, NEW s \in SchedulerStatus, NEW k,
           SetStatus(p, s, k)
    PROVE  \A q \in Posts : SchedulerWrites(q)
BY DEF SetStatus, SchedulerWrites, Row

(* Every step inside the scheduler writes only its own statuses.               *)
LEMMA SchedulerStepStatus ==
    ASSUME TypeOK, SchedulerStep
    PROVE  \A q \in Posts : SchedulerWrites(q)
<1>0. post \in [Posts -> Row] /\ JobPost \in Posts /\ worker.job[2] \in Nat
      /\ worker.obj \in Nat /\ worker.metadata \in Metadata
  BY WorkerTypes DEF TypeOK
<1>1. CASE UNCHANGED post
  BY <1>1 DEF SchedulerWrites
<1>2. ASSUME NEW p \in Posts, HandleSchedulingError(p) PROVE \A q \in Posts : SchedulerWrites(q)
  BY <1>0, <1>1, <1>2, StatusWritten DEF HandleSchedulingError, SchedulerStatus
<1>3. ASSUME NEW c \in Calls, CallStep(c) PROVE \A q \in Posts : SchedulerWrites(q)
  <2> DEFINE p == call[c].post
  <2>0. p \in Posts /\ post[p] \in Row /\ call[c].obj \in Nat /\ call[c].metadata \in Metadata
    BY <1>0 DEF TypeOK, Call
  <2> HIDE DEF p
  <2>1. CASE SaveScheduled(c)
    <3>1. UNCHANGED post \/ post' = [post EXCEPT ![p] = ScheduledRow(post[p], call[c].obj)]
      BY <2>1 DEF SaveScheduled, p
    <3>2. ScheduledRow(post[p], call[c].obj).status \in SchedulerStatus
      BY <2>0, RowStatus, IdleTypes DEF SchedulerStatus
    <3> QED BY <1>0, <1>1, <2>0, <3>1, <3>2, RowWritten
  <2>2. CASE UpdatePublishedPost(c)
    <3>1. \/ UNCHANGED post
          \/ post' = [post EXCEPT ![p] = PublishedRow(post[p], call[c].obj, call[c].metadata)]
      BY <2>2 DEF UpdatePublishedPost, p
    <3>2. PublishedRow(post[p], call[c].obj, call[c].metadata).status \in SchedulerStatus
      BY <2>0, RowStatus DEF SchedulerStatus
    <3> QED BY <1>0, <1>1, <2>0, <3>1, <3>2, RowWritten
  <2>3. CASE PublishImmediatelyFails(c)
    BY <1>2, <2>0, <2>3 DEF PublishImmediatelyFails, p
  <2>4. CASE MarkPostAsCancelled(c)
    BY <1>0, <1>1, <2>0, <2>4, StatusWritten DEF MarkPostAsCancelled, SchedulerStatus, p
  <2>5. CASE CreateContainer(c) \/ ScheduleNative(c) \/ QueueJob(c) \/ CallPlatform(c)
             \/ CancelPlatformResources(c) \/ RemoveQueueJobs(c)
    BY <1>1, <2>5 DEF CreateContainer, ScheduleNative, QueueJob, CallPlatform,
                      CancelPlatformResources, RemoveQueueJobs
  <2> QED BY <1>3, <2>1, <2>2, <2>3, <2>4, <2>5 DEF CallStep
<1>4. CASE WorkerStep
  <2>1. CASE ClaimPost
    <3>1. \/ UNCHANGED post
          \/ post' = [post EXCEPT ![JobPost] = ClaimedRow(post[JobPost], worker.job[2])]
      BY <2>1 DEF ClaimPost
    <3>2. ClaimedRow(post[JobPost], worker.job[2]).status \in SchedulerStatus
      BY <1>0, RowStatus DEF SchedulerStatus
    <3> QED BY <1>0, <1>1, <3>1, <3>2, RowWritten
  <2>2. CASE MarkPostAsPublished
    <3>1. \/ UNCHANGED post
          \/ post' = [post EXCEPT ![JobPost] =
                        PublishedRow(post[JobPost], worker.obj, worker.metadata)]
      BY <2>2 DEF MarkPostAsPublished
    <3>2. PublishedRow(post[JobPost], worker.obj, worker.metadata).status \in SchedulerStatus
      BY <1>0, RowStatus DEF SchedulerStatus
    <3> QED BY <1>0, <1>1, <3>1, <3>2, RowWritten
  <2>3. CASE HandlePublishingError
    <3>1. \/ UNCHANGED post
          \/ post' = [post EXCEPT ![JobPost] = FailedRow(post[JobPost], worker.job[2])]
      BY <2>3 DEF HandlePublishingError
    <3>2. FailedRow(post[JobPost], worker.job[2]).status
            \in {post[JobPost].status} \cup SchedulerStatus
      BY <1>0, RowStatus, IdleTypes DEF SchedulerStatus
    <3> QED BY <1>0, <1>1, <3>1, <3>2, RowWritten
  <2>4. CASE SkipJob \/ FetchPost \/ PublishPost \/ ScheduleRetry \/ RethrowError
             \/ \E id \in JobIds : TakeJob(id)
    BY <1>1, <2>4 DEF SkipJob, FetchPost, PublishPost, ScheduleRetry, RethrowError, TakeJob
  <2> QED BY <1>4, <2>1, <2>2, <2>3, <2>4 DEF WorkerStep, JobStep
<1>5. ASSUME NEW p \in Posts, LateFailWrite(p) PROVE \A q \in Posts : SchedulerWrites(q)
  BY <1>2, <1>5 DEF LateFailWrite
<1>6. CASE Environment
  BY <1>1, <1>6 DEF Environment, RecoverStalledJob, EvictFailedRetry, PlatformActs
<1> QED BY <1>3, <1>4, <1>5, <1>6 DEF SchedulerStep

(* A step that writes only such statuses and leaves the approval rows alone    *)
(* keeps the two rows of every review in agreement.                            *)
LEMMA SchedulerWritesKeep ==
    ASSUME PendingHasRequest, UNCHANGED approval, \A q \in Posts : SchedulerWrites(q)
    PROVE  PendingHasRequest'
BY DEF PendingHasRequest, SchedulerWrites, SchedulerStatus

(* A step that changes the two rows of one post, and the new ones agree.       *)
LEMMA OneReviewKeeps ==
    ASSUME LifecycleTypeOK, PendingHasRequest, NEW p \in Posts,
           \A q \in Posts \ {p} : post'[q].status = post[q].status /\ approval'[q] = approval[q],
           post'[p].status = "PENDING_APPROVAL" => approval'[p] = "PENDING"
    PROVE  PendingHasRequest'
BY DEF PendingHasRequest

(* Every step of a handler keeps the two rows in agreement.                    *)
LEMMA HandlerStepPending ==
    ASSUME LifecycleTypeOK, PendingHasRequest, NEW c \in Calls, HandlerStep(c)
    PROVE  PendingHasRequest'
<1> DEFINE p == handler[c].post
           d == handler[c].decision
<1>0. /\ post \in [Posts -> Row] /\ p \in Posts /\ post[p] \in Row
      /\ approval \in [Posts -> ApprovalStatus \cup {"NONE"}]
  BY DEF LifecycleTypeOK, TypeOK, Handler
<1> HIDE DEF p, d
<1>a. CASE UNCHANGED <<post, approval>>
  BY <1>a DEF PendingHasRequest
<1>b. ASSUME NEW s \in SchedulerStatus \cup {"APPROVED", "DRAFT"},
             post' = [post EXCEPT ![p].status = s],
             \A q \in Posts \ {p} : approval'[q] = approval[q]
      PROVE  PendingHasRequest'
  <2>1. post'[p].status = s
    BY <1>0, <1>b DEF Row
  <2>2. \A q \in Posts \ {p} : post'[q].status = post[q].status
    BY <1>0, <1>b
  <2>3. s # "PENDING_APPROVAL"
    BY DEF SchedulerStatus
  <2> QED BY <1>0, <1>b, <2>1, <2>2, <2>3, OneReviewKeeps
<1>2. CASE CommitSubmission(c)
  <2>1. CASE /\ approval' = [approval EXCEPT ![p] = "PENDING"]
             /\ post' = [post EXCEPT ![p].status = "PENDING_APPROVAL"]
    <3>1. /\ approval'[p] = "PENDING"
          /\ \A q \in Posts \ {p} : post'[q].status = post[q].status /\ approval'[q] = approval[q]
      BY <1>0, <2>1
    <3> QED BY <1>0, <3>1, OneReviewKeeps
  <2> QED BY <1>2, <1>a, <2>1 DEF CommitSubmission, p
<1>3. CASE CommitDelete(c)
  <2>1. CASE /\ post' = [post EXCEPT ![p] = NewRow("DELETED", @.route)]
             /\ approval' = [approval EXCEPT ![p] = "NONE"]
    <3>1. /\ post'[p].status = "DELETED"
          /\ \A q \in Posts \ {p} : post'[q].status = post[q].status /\ approval'[q] = approval[q]
      BY <1>0, <2>1 DEF NewRow
    <3> QED BY <1>0, <3>1, OneReviewKeeps
  <2> QED BY <1>3, <1>a, <2>1 DEF CommitDelete, p
<1>4. CASE ExecuteMarkPublishing(c)
  BY <1>4, <1>0, <1>a, StatusWritten, SchedulerWritesKeep
     DEF ExecuteMarkPublishing, SchedulerStatus, p
<1>7. CASE ExecuteMarkFailed(c)
  <2>1. ASSUME NEW n, NEW k,
               post' = [post EXCEPT ![p].status = "FAILED", ![p].retryCount = n,
                                    ![p].queueStatus = k]
        PROVE  \A q \in Posts : SchedulerWrites(q)
    BY <1>0, <2>1 DEF SchedulerWrites, SchedulerStatus, Row
  <2> QED BY <1>7, <1>a, <2>1, SchedulerWritesKeep DEF ExecuteMarkFailed, p
<1>8. CASE CommitDecision(c)
  <2>1. CASE /\ approval' = [approval EXCEPT ![p] = d]
             /\ post' = [post EXCEPT ![p].status = DecidedStatus(d)]
    <3>1. \A q \in Posts \ {p} : approval'[q] = approval[q]
      BY <1>0, <2>1
    <3>2. DecidedStatus(d) \in {"APPROVED", "DRAFT"}
      BY DEF DecidedStatus
    <3> QED BY <1>b, <2>1, <3>1, <3>2
  <2> QED BY <1>8, <1>a, <2>1 DEF CommitDecision, p, d
<1>10. CASE MarkScheduled(c)
  <2>1. CASE post' = [post EXCEPT ![p].status = "SCHEDULED"]
    BY <1>10, <1>b, <2>1 DEF MarkScheduled, SchedulerStatus
  <2> QED BY <1>10, <1>a, <2>1 DEF MarkScheduled, p
<1>11. CASE ExecuteCallPlatform(c) \/ HandlePostAfterApproval(c) \/ FinishPublishing(c)
  BY <1>11, <1>a DEF ExecuteCallPlatform, HandlePostAfterApproval, SchedulePost,
                     PublishImmediately, StartCall, FinishPublishing, schedulerVars
<1> QED BY <1>2, <1>3, <1>4, <1>7, <1>8, <1>10, <1>11 DEF HandlerStep

(* So does every request that arrives: none of them moves a post to            *)
(* PENDING_APPROVAL or takes an approval row away.                             *)
LEMMA ArrivalPending ==
    ASSUME LifecycleTypeOK, PendingHasRequest, Arrival
    PROVE  PendingHasRequest'
<1>0. post \in [Posts -> Row] /\ approval \in [Posts -> ApprovalStatus \cup {"NONE"}]
  BY DEF LifecycleTypeOK, TypeOK
<1>1. ASSUME NEW p \in Posts, CreatePost(p) PROVE PendingHasRequest'
  <2>1. /\ post'[p].status = "DRAFT" /\ UNCHANGED approval
        /\ \A q \in Posts \ {p} : post'[q].status = post[q].status
    BY <1>0, <1>1 DEF CreatePost, Row, reviewVars
  <2> QED BY <2>1, OneReviewKeeps
<1>2. ASSUME NEW p \in Posts, RequestApproval(p) PROVE PendingHasRequest'
  BY <1>0, <1>2 DEF RequestApproval, PendingHasRequest
<1>3. ASSUME NEW c \in Calls, NEW p \in Posts, NEW d \in Decisions,
             \/ SubmitForApproval(c, p) \/ DeletePost(c, p) \/ ExecutePublish(c, p)
             \/ DirectRequest(c, p) \/ Decide(c, p, d)
      PROVE  PendingHasRequest'
  <2>1. UNCHANGED <<post, approval>>
    BY <1>3 DEF SubmitForApproval, DeletePost, ExecutePublish, DirectRequest, Decide,
                SchedulePost, PublishImmediately, CancelScheduledPost, StartCall
  <2> QED BY <2>1 DEF PendingHasRequest
<1>4. "APPROVED" \in Decisions
  BY DEF Decisions
<1> QED BY <1>1, <1>2, <1>3, <1>4 DEF Arrival, PostsRequest, ApprovalsRequest

(* A post that is PENDING_APPROVAL always has an approval row that is PENDING, *)
(* so some decision on it is always possible (posts.service.ts                 *)
(* submitForApproval, approvals.service.ts updateApprovalStatus): the rows are *)
(* written in different transactions by different services, with the worker    *)
(* and the scheduler writing the same status column in between.                *)
THEOREM PendingDecidable == LifecycleSpec => []PendingHasRequest
<1>1. LifecycleInit => PendingHasRequest
  BY DEF LifecycleInit, InitWith, NewRow, PendingHasRequest
<1>2. LifecycleTypeOK /\ PendingHasRequest /\ [LifecycleNext]_lifecycleVars => PendingHasRequest'
  <2> SUFFICES ASSUME LifecycleTypeOK, PendingHasRequest, [LifecycleNext]_lifecycleVars
               PROVE  PendingHasRequest'
    OBVIOUS
  <2>1. CASE InternalStep
    BY <2>1, SchedulerStepStatus, SchedulerWritesKeep DEF InternalStep, reviewVars, LifecycleTypeOK
  <2>2. CASE CrashAll
    BY <2>2 DEF CrashAll, Crash, PendingHasRequest
  <2>3. CASE UNCHANGED lifecycleVars
    BY <2>3 DEF lifecycleVars, schedulerVars, reviewVars, PendingHasRequest
  <2> QED BY <2>1, <2>2, <2>3, HandlerStepPending, ArrivalPending DEF LifecycleNext
<1> QED BY <1>1, <1>2, LifecycleTypeCorrect, PTL DEF LifecycleSpec

-------------------------------------------------------------------------------
(* What the scheduler promises, it keeps in the composed system.               *)

Schedules(p) ==
    /\ scheduled' = [scheduled EXCEPT ![p] = @ + 1]
    /\ post'[p].status = "SCHEDULED"
    /\ \A q \in Posts \ {p} : post'[q] = post[q]

(* The rows that posts and approvals write name no other object, and none      *)
(* becomes PUBLISHED.                                                          *)
ReviewWrite(p, s) ==
    \/ post' = [post EXCEPT ![p].status = s]
    \/ \E k : post' = [post EXCEPT ![p].status = s, ![p].queueStatus = k]
    \/ \E n, k : post' = [post EXCEPT ![p].status = s, ![p].retryCount = n, ![p].queueStatus = k]
    \/ post' = [post EXCEPT ![p] = NewRow("DELETED", @.route)]

LEMMA ReviewWrites ==
    ASSUME TypeOK, NEW p \in Posts, NEW s \in PostStatus \ {"PUBLISHED"}, ReviewWrite(p, s)
    PROVE  /\ RowsRouted /\ \A q \in Posts : RowQuiet(q)
           /\ \A q \in Posts \ {p} : post'[q] = post[q]
           /\ post'[p].status \in {s, "DELETED"}
           /\ s # "SCHEDULED" /\ UNCHANGED scheduled => Unscheduling
<1>0. post \in [Posts -> Row] /\ post[p] \in Row
  BY DEF TypeOK
<1>1. \A q \in Posts \ {p} : post'[q] = post[q]
  BY <1>0 DEF ReviewWrite
<1>2. /\ post'[p].route = post[p].route
      /\ post'[p].metadata.method \in {post[p].metadata.method, "NONE"}
      /\ post'[p].platformPostId \in {post[p].platformPostId, 0}
      /\ post'[p].status \in {s, "DELETED"}
  <2>1. CASE post' = [post EXCEPT ![p].status = s]
    <3>1. post'[p] = [post[p] EXCEPT !.status = s]
      BY <1>0, <2>1
    <3> QED BY <1>0, <3>1 DEF Row
  <2>2. ASSUME NEW k, post' = [post EXCEPT ![p].status = s, ![p].queueStatus = k]
        PROVE  /\ post'[p].route = post[p].route /\ post'[p].metadata = post[p].metadata
               /\ post'[p].platformPostId = post[p].platformPostId /\ post'[p].status = s
    <3>1. post'[p] = [post[p] EXCEPT !.status = s, !.queueStatus = k]
      BY <1>0, <2>2
    <3> QED BY <1>0, <3>1 DEF Row
  <2>3. ASSUME NEW n, NEW k,
               post' = [post EXCEPT ![p].status = s, ![p].retryCount = n, ![p].queueStatus = k]
        PROVE  /\ post'[p].route = post[p].route /\ post'[p].metadata = post[p].metadata
               /\ post'[p].platformPostId = post[p].platformPostId /\ post'[p].status = s
    <3>1. post'[p] = [post[p] EXCEPT !.status = s, !.retryCount = n, !.queueStatus = k]
      BY <1>0, <2>3
    <3> QED BY <1>0, <3>1 DEF Row
  <2>4. CASE post' = [post EXCEPT ![p] = NewRow("DELETED", @.route)]
    <3>1. post'[p] = NewRow("DELETED", post[p].route)
      BY <1>0, <2>4
    <3> QED BY <3>1 DEF NewRow, NoMetadata
  <2> QED BY <2>1, <2>2, <2>3, <2>4 DEF ReviewWrite
<1> QED BY <1>1, <1>2 DEF RowsRouted, RowQuiet, Unscheduling

(* What a step of posts or approvals does to the scheduler: it writes a row,   *)
(* and grants a permit with every SCHEDULED, or it calls one of the operations. *)
LEMMA ReviewStep ==
    ASSUME LifecycleTypeOK, Arrival \/ \E c \in Calls : HandlerStep(c)
    PROVE  /\ UNCHANGED <<queue, platform, worker, attempted>>
           /\ \/ /\ UNCHANGED call
                 /\ RowsRouted /\ \A q \in Posts : RowQuiet(q)
                 /\ Unscheduling \/ \E p \in Posts : Schedules(p)
              \/ /\ UNCHANGED <<post, scheduled>>
                 /\ \E c \in Calls, p \in Posts :
                       SchedulePost(c, p) \/ PublishImmediately(c, p) \/ CancelScheduledPost(c, p)
<1>0. TypeOK /\ post \in [Posts -> Row] /\ handler \in [Calls -> Handler]
  BY DEF LifecycleTypeOK, TypeOK
<1>1. CASE Arrival
  <2>1. ASSUME NEW p \in Posts, CreatePost(p)
        PROVE  /\ UNCHANGED <<unchangedInScheduler, scheduled>>
               /\ RowsRouted /\ (\A q \in Posts : RowQuiet(q)) /\ Unscheduling
    <3>1. "DRAFT" \in PostStatus \ {"PUBLISHED"}
      BY DEF PostStatus
    <3>2. UNCHANGED <<unchangedInScheduler, scheduled>> /\ post' = [post EXCEPT ![p].status = "DRAFT"]
      BY <2>1 DEF CreatePost
    <3>3. RowsRouted /\ (\A q \in Posts : RowQuiet(q)) /\ Unscheduling
      BY <1>0, <3>1, <3>2, ReviewWrites DEF ReviewWrite
    <3> QED BY <3>2, <3>3
  <2>2. ASSUME NEW c \in Calls, NEW p \in Posts, NEW d \in Decisions,
               \/ SubmitForApproval(c, p) \/ DeletePost(c, p) \/ ExecutePublish(c, p)
               \/ RequestApproval(p) \/ Decide(c, p, d)
        PROVE  UNCHANGED <<unchangedInScheduler, scheduled, post>>
    BY <2>2 DEF SubmitForApproval, DeletePost, ExecutePublish, RequestApproval, Decide
  <2>3. ASSUME NEW c \in Calls, NEW p \in Posts, DirectRequest(c, p)
        PROVE  /\ UNCHANGED <<post, scheduled, queue, platform, worker, attempted>>
               /\ SchedulePost(c, p) \/ PublishImmediately(c, p) \/ CancelScheduledPost(c, p)
    BY <2>3 DEF DirectRequest, SchedulePost, PublishImmediately, CancelScheduledPost, StartCall,
                historyVars
  <2>4. ASSUME NEW p \in Posts, RequestApproval(p) PROVE UNCHANGED <<unchangedInScheduler, scheduled, post>>
    BY <2>4 DEF RequestApproval
  <2>5. UNCHANGED post => RowsRouted /\ \A q \in Posts : RowQuiet(q)
    BY <1>0, SameRouted
  <2>6. "APPROVED" \in Decisions
    BY DEF Decisions
  <2>7. CASE UNCHANGED <<unchangedInScheduler, scheduled, post>>
    BY <2>5, <2>7, UnschedulingSame DEF unchangedInScheduler
  <2> QED BY <1>1, <2>1, <2>2, <2>3, <2>4, <2>6, <2>7
          DEF Arrival, PostsRequest, ApprovalsRequest, unchangedInScheduler
<1>2. ASSUME NEW c \in Calls, HandlerStep(c)
      PROVE  \/ /\ UNCHANGED unchangedInScheduler
                /\ RowsRouted /\ \A q \in Posts : RowQuiet(q)
                /\ Unscheduling \/ \E p \in Posts : Schedules(p)
             \/ /\ UNCHANGED <<post, scheduled, queue, platform, worker, attempted>>
                /\ \E p \in Posts : SchedulePost(c, p) \/ PublishImmediately(c, p)
  <2> PICK p \in Posts : p = handler[c].post
    BY <1>0 DEF Handler
  <2>1. UNCHANGED post => RowsRouted /\ \A q \in Posts : RowQuiet(q)
    BY <1>0, SameRouted
  <2>2. CASE UNCHANGED <<unchangedInScheduler, scheduled, post>>
    BY <2>1, <2>2, UnschedulingSame
  <2>3. ASSUME NEW s \in PostStatus \ {"PUBLISHED", "SCHEDULED"},
               UNCHANGED <<unchangedInScheduler, scheduled>>, ReviewWrite(p, s)
        PROVE  /\ UNCHANGED unchangedInScheduler
               /\ RowsRouted /\ (\A q \in Posts : RowQuiet(q)) /\ Unscheduling
    <3>1. s \in PostStatus \ {"PUBLISHED"}
      OBVIOUS
    <3>2. RowsRouted /\ (\A q \in Posts : RowQuiet(q)) /\ Unscheduling
      BY <1>0, <2>3, <3>1, ReviewWrites
    <3> QED BY <2>3, <3>2
  <2>4. {"PENDING_APPROVAL", "PUBLISHING", "FAILED", "APPROVED", "DRAFT"}
           \subseteq PostStatus \ {"PUBLISHED", "SCHEDULED"}
    BY DEF PostStatus
  <2>5. CASE CommitSubmission(c)
    BY <2>2, <2>3, <2>4, <2>5 DEF CommitSubmission, ReviewWrite
  <2>6. CASE CommitDelete(c)
    <3>1. \/ UNCHANGED post
          \/ post' = [post EXCEPT ![p] = NewRow("DELETED", @.route)]
      BY <2>6 DEF CommitDelete
    <3>2. UNCHANGED <<unchangedInScheduler, scheduled>> /\ "DRAFT" \in PostStatus \ {"PUBLISHED", "SCHEDULED"}
      BY <2>4, <2>6 DEF CommitDelete
    <3> QED BY <2>2, <2>3, <3>1, <3>2 DEF ReviewWrite
  <2>7. CASE ExecuteMarkPublishing(c)
    BY <2>2, <2>3, <2>4, <2>7 DEF ExecuteMarkPublishing, SetStatus, ReviewWrite
  <2>8. CASE ExecuteMarkFailed(c)
    BY <2>2, <2>3, <2>4, <2>8 DEF ExecuteMarkFailed, ReviewWrite
  <2>9. CASE CommitDecision(c)
    <3>1. DecidedStatus(handler[c].decision) \in {"APPROVED", "DRAFT"}
      BY DEF DecidedStatus
    <3> QED BY <2>2, <2>3, <2>4, <2>9, <3>1 DEF CommitDecision, ReviewWrite
  <2>10. CASE MarkScheduled(c) /\ ~UNCHANGED <<post, scheduled>>
    <3>1. /\ post' = [post EXCEPT ![p].status = "SCHEDULED"]
          /\ scheduled' = [scheduled EXCEPT ![p] = @ + 1] /\ UNCHANGED unchangedInScheduler
      BY <2>10 DEF MarkScheduled
    <3>2. "SCHEDULED" \in PostStatus \ {"PUBLISHED"}
      BY DEF PostStatus
    <3>3. post'[p].status = "SCHEDULED"
      <4>1. post'[p] = [post[p] EXCEPT !.status = "SCHEDULED"] /\ post[p] \in Row
        BY <1>0, <3>1
      <4> QED BY <4>1 DEF Row
    <3> QED BY <1>0, <3>1, <3>2, <3>3, ReviewWrites DEF Schedules, ReviewWrite
  <2>11. CASE \/ ExecuteCallPlatform(c) \/ FinishPublishing(c)
              \/ MarkScheduled(c) /\ UNCHANGED <<post, scheduled>>
    BY <2>2, <2>11
       DEF ExecuteCallPlatform, FinishPublishing, MarkScheduled, schedulerVars, unchangedInScheduler
  <2>12. CASE HandlePostAfterApproval(c)
    <3>1. CASE SchedulePost(c, p) \/ PublishImmediately(c, p)
      BY <3>1 DEF SchedulePost, PublishImmediately, StartCall, historyVars
    <3> QED BY <2>2, <2>12, <3>1 DEF HandlePostAfterApproval
  <2> QED BY <1>2, <2>5, <2>6, <2>7, <2>8, <2>9, <2>10, <2>11, <2>12 DEF HandlerStep
<1> QED BY <1>1, <1>2 DEF unchangedInScheduler

(* A permit that posts or approvals grant comes with the status that needs it. *)
LEMMA ReviewPermit ==
    ASSUME LifecycleTypeOK, PermitInv, Arrival \/ \E c \in Calls : HandlerStep(c)
    PROVE  PermitInv' /\ [Permit!Next]_Permit!permitVars
<1>0. post \in [Posts -> Row]
  BY DEF LifecycleTypeOK, TypeOK
<1>1. UNCHANGED <<worker, attempted>>
  BY ReviewStep
<1>2. CASE Unscheduling
  <2>1. PermitInv'
    BY <1>1, <1>2, QuietStep DEF Unscheduling
  <2> QED BY <1>1, <1>2, <2>1, UnschedulingRefines
<1>3. ASSUME NEW p \in Posts, Schedules(p) PROVE PermitInv' /\ [Permit!Next]_Permit!permitVars
  <2>1. [Permit!Next]_Permit!permitVars
    BY <1>0, <1>1, <1>3, SchedulingRefines DEF Schedules
  <2> SUFFICES ASSUME NEW q \in Posts
               PROVE  /\ attempted[q] <= scheduled'[q]
                      /\ Holding(q) \/ post'[q].status = "SCHEDULED"
                            => attempted[q] + 1 <= scheduled'[q]
                      /\ worker.pc = "publish" /\ JobPost = q /\ post'[q].status = "SCHEDULED"
                            => attempted[q] + 2 <= scheduled'[q]
    BY <1>1, <2>1 DEF PermitInv, Holding, JobPost
  <2>2. attempted[q] \in Nat /\ scheduled[q] \in Nat /\ scheduled \in [Posts -> Nat]
    BY DEF LifecycleTypeOK, TypeOK
  <2>3. CASE q = p
    <3>1. scheduled'[q] = scheduled[q] + 1
      BY <1>3, <2>2, <2>3 DEF Schedules
    <3>2. attempted[q] <= scheduled[q] /\ (Holding(q) => attempted[q] + 1 <= scheduled[q])
      BY DEF PermitInv
    <3>3. worker.pc = "publish" /\ JobPost = q => Holding(q)
      BY DEF Holding
    <3> QED BY <2>2, <3>1, <3>2, <3>3
  <2>4. CASE q # p
    BY <1>3, <2>2, <2>4 DEF Schedules, PermitInv
  <2> QED BY <2>3, <2>4
<1>4. CASE UNCHANGED <<post, scheduled>>
  BY <1>2, <1>4, UnschedulingSame
<1> QED BY <1>2, <1>3, <1>4, ReviewStep

LEMMA LifecycleStepPermit ==
    ASSUME LifecycleTypeOK, PermitInv, [LifecycleNext]_lifecycleVars
    PROVE  PermitInv' /\ [Permit!Next]_Permit!permitVars
<1>0. TypeOK
  BY DEF LifecycleTypeOK
<1>1. CASE SchedulerStep \/ Crash
  <2>1. PermitInv'
    BY <1>0, <1>1, CallStepPermit, WorkerStepPermit, OtherStepPermit DEF SchedulerStep
  <2> QED BY <1>0, <1>1, <2>1, SchedulerStepRefines
<1>2. CASE UNCHANGED lifecycleVars
  <2>1. UNCHANGED <<post, scheduled, attempted, worker>>
    BY <1>2 DEF lifecycleVars, schedulerVars
  <2> QED BY <2>1, QuietStep, UnschedulingSame, UnschedulingRefines
<1> QED BY <1>1, <1>2, ReviewPermit DEF LifecycleNext, InternalStep, CrashAll

LEMMA LifecycleInitPermit == LifecycleInit => PermitInv
BY DEF LifecycleInit, InitWith, PermitInv, Holding, IdleWorker, NewRow

(* With the approvals service writing SCHEDULED too, after the scheduler has   *)
(* written it or failed to, and with executePublish, deletes and decisions in  *)
(* between, the worker asks the platform to publish a post at most once for    *)
(* each time it was put on the schedule.                                       *)
THEOREM LifecycleAtMostOnce == LifecycleSpec => []AtMostOncePerSchedule
<1>1. PermitInv => AtMostOncePerSchedule
  BY DEF PermitInv, AtMostOncePerSchedule
<1>2. LifecycleSpec => []PermitInv
  BY LifecycleInitPermit, LifecycleStepPermit, LifecycleTypeCorrect, PTL DEF LifecycleSpec
<1> QED BY <1>1, <1>2, PTL

(* The composed system implements PublishPermit as the scheduler alone does.   *)
THEOREM LifecycleRefinement == LifecycleSpec => ImplementsPermit
<1>1. LifecycleInit => Permit!Init
  BY DEF LifecycleInit, InitWith, NewRow, IdleWorker, OnSchedule, Claimed, Permit!Init
<1>2. LifecycleTypeOK /\ PermitInv /\ [LifecycleNext]_lifecycleVars => [Permit!Next]_Permit!permitVars
  BY LifecycleStepPermit
<1>3. LifecycleSpec => []PermitInv
  BY LifecycleInitPermit, LifecycleStepPermit, LifecycleTypeCorrect, PTL DEF LifecycleSpec
<1> QED BY <1>1, <1>2, <1>3, LifecycleTypeCorrect, PTL
        DEF LifecycleSpec, ImplementsPermit, Permit!Spec

LEMMA LifecycleStepLive ==
    ASSUME LifecycleTypeOK, LiveInv, [LifecycleNext]_lifecycleVars
    PROVE  LiveInv'
<1>0. TypeOK /\ TypeOK' /\ RouteInv /\ \A q \in Posts : PostLive(q)
  BY LifecycleStepType DEF LifecycleTypeOK, LiveInv
<1>1. ASSUME RowsRouted, \A q \in Posts : RowQuiet(q), UNCHANGED <<queue, platform, call, worker>>
      PROVE  LiveInv'
  BY <1>0, <1>1, SameRouted, QuietPost, RouteStep DEF LiveInv
<1>2. CASE Arrival \/ \E c \in Calls : HandlerStep(c)
  BY <1>0, <1>1, <1>2, ReviewStep, RequestLive
<1>3. CASE UNCHANGED lifecycleVars
  <2>1. UNCHANGED <<post, queue, platform, call, worker>>
    BY <1>3 DEF lifecycleVars, schedulerVars
  <2> QED BY <1>0, <1>1, <2>1, SameRouted
<1> QED BY <1>0, <1>2, <1>3, SchedulerStepLive DEF LifecycleNext, InternalStep, CrashAll

(* A post the database calls PUBLISHED is on the platform, in the composed     *)
(* system too: nothing that posts or approvals write makes a row PUBLISHED or  *)
(* lets a cancel find the object of a published post.                          *)
THEOREM LifecyclePublishedLive == LifecycleSpec => []PublishedIsLive
<1>1. LifecycleInit => LiveInv
  BY InitLive DEF LifecycleInit, PostStatus
<1>2. LifecycleTypeOK /\ LiveInv /\ [LifecycleNext]_lifecycleVars => LiveInv'
  BY LifecycleStepLive
<1>3. LifecycleSpec => []LiveInv
  BY <1>1, <1>2, LifecycleTypeCorrect, PTL DEF LifecycleSpec
<1> QED BY <1>3, LiveFollows, PTL

-------------------------------------------------------------------------------
(* Nothing is published that nobody was allowed to publish.                    *)

(* The inductive invariant: such a post has nothing at the platform, in the    *)
(* queue, with the worker or with a request but a cancel, and no handler that  *)
(* goes on to the scheduler.                                                   *)
UntouchedByScheduler(p) ==
    /\ platform[p] = <<>>
    /\ \A id \in JobIds : id[1] = p => queue[id].state = "none"
    /\ post[p].status \notin {"SCHEDULED", "PUBLISHING", "PUBLISHED"}
    /\ \A c \in Calls : call[c].post = p => call[c].pc \in {"idle", "cancel"}
    /\ worker.pc # "idle" => JobPost # p

UntouchedByReview(p) ==
    \A c \in Calls : handler[c].post = p =>
        handler[c].pc \notin {"afterApproval", "scheduling", "execute"}

UntouchedInv == \A p \in Posts \ allowed : UntouchedByScheduler(p) /\ UntouchedByReview(p)

(* The steps inside the scheduler touch no such post: a request about it is a  *)
(* cancel, the worker has another.                                             *)
LEMMA CallStepUntouched ==
    ASSUME TypeOK, NEW p \in Posts, UntouchedByScheduler(p), NEW c \in Calls, CallStep(c)
    PROVE  UntouchedByScheduler(p)'
<1>0. /\ post \in [Posts -> Row] /\ queue \in [JobIds -> Job] /\ platform \in [Posts -> Seq(ObjectState)]
      /\ call[c].post \in Posts /\ UNCHANGED worker
  BY CallMoves DEF TypeOK, CallStep, CreateContainer, ScheduleNative, QueueJob, SaveScheduled, CallPlatform,
     UpdatePublishedPost, PublishImmediatelyFails, CancelPlatformResources, RemoveQueueJobs,
     MarkPostAsCancelled
<1>1. CASE call[c].post = p
  <2>1. call[c].pc \in {"idle", "cancel"}
    BY <1>1 DEF UntouchedByScheduler
  <2>2. CancelPlatformResources(c) \/ RemoveQueueJobs(c) \/ MarkPostAsCancelled(c)
    BY <2>1 DEF CallStep, CreateContainer, ScheduleNative, QueueJob, SaveScheduled, CallPlatform,
       UpdatePublishedPost, PublishImmediatelyFails
  <2>3. call'[c].pc \in {"idle", "cancel"} /\ \A d \in Calls \ {c} : call'[d] = call[d]
    <3>1. CASE MarkPostAsCancelled(c)
      BY <3>1, CallMoves DEF MarkPostAsCancelled
    <3> QED BY <2>2, <3>1 DEF CancelPlatformResources, RemoveQueueJobs, TypeOK, Call
  <2>4. platform'[p] = <<>>
    <3>1. CASE CancelPlatformResources(c)
      <4>1. platform[p] = <<>> /\ DOMAIN platform[p] = {}
        BY DEF UntouchedByScheduler
      <4> QED BY <1>1, <3>1, <4>1 DEF CancelPlatformResources
    <3> QED BY <2>2, <3>1 DEF RemoveQueueJobs, MarkPostAsCancelled, UntouchedByScheduler
  <2>5. \A id \in JobIds : id[1] = p => queue'[id].state = "none"
    BY <2>2 DEF CancelPlatformResources, RemoveQueueJobs, MarkPostAsCancelled, UntouchedByScheduler, NoJob
  <2>6. post'[p].status \notin {"SCHEDULED", "PUBLISHING", "PUBLISHED"}
    <3>1. CASE SetStatus(p, "CANCELED", "CANCELLED")
      BY <1>0, <3>1 DEF SetStatus, Row
    <3> QED BY <1>1, <2>2, <3>1
            DEF CancelPlatformResources, RemoveQueueJobs, MarkPostAsCancelled, UntouchedByScheduler
  <2> QED BY <1>0, <2>3, <2>4, <2>5, <2>6 DEF UntouchedByScheduler, JobPost
<1>2. CASE call[c].post # p
  <2>1. /\ \A d \in Calls \ {c} : call'[d] = call[d]
        /\ call'[c].pc = "idle" \/ call'[c].post # p
    <3>1. CASE Return(c) \/ SchedulingFails(c)
      BY <3>1, CallMoves DEF SchedulingFails
    <3>2. CASE CreateContainer(c)
      <4>1. "container" \in ObjectState
        BY DEF ObjectState
      <4>2. CASE /\ platform' = [platform EXCEPT ![call[c].post] = Append(@, "container")]
                 /\ GotoWith(c, "enqueue", NewId(call[c].post))
        <5>1. NewId(call[c].post) \in Nat
          BY <1>0, Unchanging DEF NewId
        <5> QED BY <1>2, <4>2, <5>1, CallMoves DEF CallPc
      <4> QED BY <3>1, <3>2, <4>2 DEF CreateContainer
    <3>3. CASE ScheduleNative(c) \/ CallPlatform(c)
      <4>1. NewId(call[c].post) \in Nat
        BY <1>0, Unchanging DEF NewId
      <4> QED BY <1>2, <3>1, <3>3, <4>1, CallMoves DEF CallPc, ScheduleNative, CallPlatform
    <3>4. CASE QueueJob(c) \/ SaveScheduled(c) \/ UpdatePublishedPost(c) \/ PublishImmediatelyFails(c)
               \/ MarkPostAsCancelled(c)
      BY <1>2, <3>1, <3>4, CallMoves
         DEF CallPc, QueueJob, SaveScheduled, UpdatePublishedPost, PublishImmediatelyFails,
             MarkPostAsCancelled
    <3>5. CASE CancelPlatformResources(c) \/ RemoveQueueJobs(c)
      BY <1>2, <3>5 DEF CancelPlatformResources, RemoveQueueJobs, TypeOK, Call
    <3> QED BY <3>2, <3>3, <3>4, <3>5 DEF CallStep
  <2>2. platform'[p] = platform[p]
    BY <1>0, <1>2 DEF CallStep, CreateContainer, ScheduleNative, QueueJob, SaveScheduled, CallPlatform,
       UpdatePublishedPost, PublishImmediatelyFails, CancelPlatformResources, RemoveQueueJobs,
       MarkPostAsCancelled
  <2>3. post'[p] = post[p]
    BY <1>0, <1>2 DEF CallStep, CreateContainer, ScheduleNative, QueueJob, SaveScheduled, CallPlatform,
       UpdatePublishedPost, PublishImmediatelyFails, CancelPlatformResources, RemoveQueueJobs,
       MarkPostAsCancelled, HandleSchedulingError, SetStatus
  <2>4. \A id \in JobIds : id[1] = p => queue'[id].state \in {queue[id].state, "none"}
    <3>1. CASE queue' = queue
      BY <3>1
    <3>2. CASE RemoveQueueJobs(c)
      BY <3>2 DEF RemoveQueueJobs, NoJob
    <3>3. CASE AddJob(<<call[c].post, 0>>, call[c].obj)
      BY <1>0, <1>2, <3>3 DEF AddJob
    <3>4. CASE QueueJob(c)
      BY <3>1, <3>3, <3>4 DEF QueueJob
    <3> QED BY <3>1, <3>2, <3>4 DEF CallStep, CreateContainer, ScheduleNative, SaveScheduled, CallPlatform,
            UpdatePublishedPost, PublishImmediatelyFails, CancelPlatformResources, MarkPostAsCancelled
  <2> QED BY <1>0, <1>2, <2>1, <2>2, <2>3, <2>4 DEF UntouchedByScheduler, JobPost
<1> QED BY <1>1, <1>2

LEMMA WorkerStepUntouched ==
    ASSUME TypeOK, NEW p \in Posts, UntouchedByScheduler(p), WorkerStep
    PROVE  UntouchedByScheduler(p)'
<1>0. /\ post \in [Posts -> Row] /\ queue \in [JobIds -> Job] /\ platform \in [Posts -> Seq(ObjectState)]
      /\ JobPost \in Posts /\ worker \in Worker /\ worker.job \in JobIds
  BY WorkerTypes DEF TypeOK
<1>1. ASSUME NEW id \in JobIds, TakeJob(id) PROVE UntouchedByScheduler(p)'
  <2>1. id[1] # p
    BY <1>1 DEF TakeJob, UntouchedByScheduler
  <2>2. worker'.job = id
    BY <1>1 DEF TakeJob, IdleWorker
  <2>3. \A i \in JobIds : i[1] = p => queue'[i] = queue[i]
    BY <1>0, <1>1, <2>1 DEF TakeJob
  <2> QED BY <1>1, <2>1, <2>2, <2>3 DEF TakeJob, UntouchedByScheduler, JobPost
<1>2. CASE JobStep
  <2>1. worker.pc # "idle"
    BY <1>2 DEF JobStep, SkipJob, FetchPost, ClaimPost, PublishPost, MarkPostAsPublished,
       HandlePublishingError, ScheduleRetry, RethrowError
  <2>2. JobPost # p /\ worker.job[1] # p
    BY <2>1 DEF UntouchedByScheduler, JobPost
  <2>3. UNCHANGED call /\ post'[p] = post[p] /\ platform'[p] = platform[p]
    BY <1>0, <1>2, <2>2 DEF JobStep, SkipJob, FetchPost, ClaimPost, PublishPost, MarkPostAsPublished,
       HandlePublishingError, ScheduleRetry, RethrowError, MakeLive
  <2>4. worker'.pc = "idle" \/ worker'.job = worker.job
    <3>1. ASSUME NEW pc, WorkerGoto(pc) PROVE worker'.job = worker.job
      BY <1>0, <3>1 DEF WorkerGoto, Worker
    <3>2. AttemptFails => worker'.job = worker.job
      BY <1>0 DEF AttemptFails, Worker
    <3>3. worker' = IdleWorker => worker'.pc = "idle"
      BY DEF IdleWorker
    <3>4. CASE PublishPost
      <4>1. ASSUME NEW i, worker' = [worker EXCEPT !.pc = "savePublished", !.obj = i]
            PROVE  worker'.job = worker.job
        BY <1>0, <4>1 DEF Worker
      <4> QED BY <3>2, <3>4, <4>1 DEF PublishPost
    <3>5. CASE FetchPost
      <4>1. ASSUME NEW m, worker' = [worker EXCEPT !.pc = "claim", !.metadata = m]
            PROVE  worker'.job = worker.job
        BY <1>0, <4>1 DEF Worker
      <4> QED BY <3>1, <3>5, <4>1 DEF FetchPost
    <3>6. CASE SkipJob \/ MarkPostAsPublished \/ RethrowError
      BY <3>2, <3>3, <3>6 DEF SkipJob, CompleteJob, MarkPostAsPublished, RethrowError
    <3> QED BY <1>2, <3>1, <3>2, <3>4, <3>5, <3>6 DEF JobStep, ClaimPost, HandlePublishingError, ScheduleRetry
  <2>5. \A id \in JobIds : id[1] = p => queue'[id] = queue[id]
    <3>1. ASSUME NEW n, AddJob(<<JobPost, n>>, 0) PROVE \A id \in JobIds : id[1] = p => queue'[id] = queue[id]
      BY <1>0, <2>2, <3>1 DEF AddJob
    <3> QED BY <1>0, <1>2, <2>2, <3>1 DEF JobStep, SkipJob, FetchPost, ClaimPost, PublishPost,
            MarkPostAsPublished, HandlePublishingError, ScheduleRetry, RethrowError, CompleteJob
  <2> QED BY <2>2, <2>3, <2>4, <2>5 DEF UntouchedByScheduler, JobPost
<1> QED BY <1>1, <1>2 DEF WorkerStep

LEMMA SchedulerStepUntouched ==
    ASSUME TypeOK, NEW p \in Posts, UntouchedByScheduler(p), SchedulerStep \/ Crash
    PROVE  UntouchedByScheduler(p)'
<1>0. /\ post \in [Posts -> Row] /\ queue \in [JobIds -> Job] /\ platform \in [Posts -> Seq(ObjectState)]
  BY DEF TypeOK
<1>1. ASSUME NEW q \in Posts, LateFailWrite(q) PROVE UntouchedByScheduler(p)'
  <2>1. post'[p].status \in {post[p].status, "FAILED"}
    BY <1>0, <1>1 DEF LateFailWrite, HandleSchedulingError, SetStatus, Row
  <2> QED BY <1>1, <2>1 DEF LateFailWrite, UntouchedByScheduler, JobPost
<1>2. ASSUME NEW id \in JobIds, RecoverStalledJob(id) \/ EvictFailedRetry(id)
      PROVE  UntouchedByScheduler(p)'
  <2>1. id[1] # p
    BY <1>2 DEF RecoverStalledJob, EvictFailedRetry, UntouchedByScheduler
  <2>2. \A i \in JobIds : i[1] = p => queue'[i] = queue[i]
    BY <1>0, <1>2, <2>1 DEF RecoverStalledJob, EvictFailedRetry
  <2> QED BY <1>2, <2>2 DEF RecoverStalledJob, EvictFailedRetry, UntouchedByScheduler, JobPost
<1>3. ASSUME NEW q \in Posts, NEW i \in DOMAIN platform[q], PlatformActs(q, i)
      PROVE  UntouchedByScheduler(p)'
  <2>1. q # p
    BY <1>3 DEF UntouchedByScheduler
  <2>2. platform'[p] = platform[p]
    BY <1>0, <1>3, <2>1 DEF PlatformActs
  <2> QED BY <1>3, <2>2 DEF PlatformActs, UntouchedByScheduler, JobPost
<1>4. CASE Crash
  BY <1>4 DEF Crash, UntouchedByScheduler, IdleCall, IdleWorker
<1> QED BY <1>1, <1>2, <1>3, <1>4, CallStepUntouched, WorkerStepUntouched DEF SchedulerStep, Environment

(* How a handler begins, moves on and ends.                                    *)
LEMMA HandlerMoves ==
    ASSUME handler \in [Calls -> Handler], NEW c \in Calls
    PROVE  /\ \A pc : Continue(c, pc) =>
                 handler'[c].pc = pc /\ handler'[c].post = handler[c].post
           /\ Close(c) => handler'[c].pc = "idle"
           /\ \A p, pc, d : Open(c, p, pc, d) => handler'[c].pc = pc /\ handler'[c].post = p
           /\ \A p, pc, d : Continue(c, pc) \/ Close(c) \/ Open(c, p, pc, d) =>
                 \A b \in Calls \ {c} : handler'[b] = handler[b]
<1>1. ASSUME NEW pc, Continue(c, pc)
      PROVE  handler'[c].pc = pc /\ handler'[c].post = handler[c].post
  <2>1. handler'[c] = [handler[c] EXCEPT !.pc = pc]
    BY <1>1 DEF Continue
  <2> QED BY <2>1 DEF Handler
<1>2. Close(c) => handler'[c].pc = "idle"
  BY DEF Close, IdleHandler
<1>3. \A p, pc, d : Open(c, p, pc, d) => handler'[c].pc = pc /\ handler'[c].post = p
  BY DEF Open
<1>4. \A p, pc, d : Continue(c, pc) \/ Close(c) \/ Open(c, p, pc, d) =>
         \A b \in Calls \ {c} : handler'[b] = handler[b]
  BY DEF Continue, Close, Open
<1> QED BY <1>1, <1>2, <1>3, <1>4

LEMMA HandlerStepUntouched ==
    ASSUME LifecycleTypeOK, NEW p \in Posts, UntouchedByScheduler(p), UntouchedByReview(p),
           p \notin allowed', NEW c \in Calls, HandlerStep(c)
    PROVE  UntouchedByScheduler(p)' /\ UntouchedByReview(p)'
<1> PICK h \in Posts : h = handler[c].post
  BY DEF LifecycleTypeOK, Handler
<1>0. /\ TypeOK /\ post \in [Posts -> Row] /\ call \in [Calls -> Call]
      /\ handler \in [Calls -> Handler] /\ UNCHANGED <<queue, platform, worker>>
  BY ReviewStep DEF LifecycleTypeOK, TypeOK
<1>1. \A b \in Calls \ {c} : handler'[b] = handler[b]
  BY <1>0, HandlerMoves
     DEF HandlerStep, CommitSubmission, CommitDelete, ExecuteMarkPublishing, ExecuteCallPlatform,
         ExecuteMarkFailed, CommitDecision, HandlePostAfterApproval, MarkScheduled, FinishPublishing
<1>2. handler'[c].pc = "idle" \/ handler'[c].post = h
  BY <1>0, HandlerMoves
     DEF HandlerStep, CommitSubmission, CommitDelete, ExecuteMarkPublishing, ExecuteCallPlatform,
         ExecuteMarkFailed, CommitDecision, HandlePostAfterApproval, MarkScheduled, FinishPublishing
<1>3. CASE h # p
  <2>1. post'[p] = post[p]
    BY <1>0, <1>3 DEF HandlerStep, CommitSubmission, CommitDelete, ExecuteMarkPublishing,
       ExecuteCallPlatform, ExecuteMarkFailed, CommitDecision, HandlePostAfterApproval, MarkScheduled,
       FinishPublishing, SetStatus, SchedulePost, PublishImmediately, StartCall, schedulerVars
  <2>2. \A b \in Calls : call'[b] = call[b] \/ call'[b].post = h
    <3>1. CASE SchedulePost(c, h) \/ PublishImmediately(c, h)
      <4>1. \A b \in Calls \ {c} : call'[b] = call[b]
        BY <1>0, <3>1 DEF SchedulePost, PublishImmediately, StartCall
      <4>2. call'[c].post = h
        BY <1>0, <3>1, Started
      <4> QED BY <4>1, <4>2
    <3> QED BY <3>1 DEF HandlerStep, CommitSubmission, CommitDelete, ExecuteMarkPublishing,
            ExecuteCallPlatform, ExecuteMarkFailed, CommitDecision, HandlePostAfterApproval,
            MarkScheduled, FinishPublishing, schedulerVars, unchangedInScheduler
  <2>3. UntouchedByReview(p)'
    BY <1>1, <1>2, <1>3 DEF UntouchedByReview
  <2> QED BY <1>0, <1>3, <2>1, <2>2, <2>3 DEF UntouchedByScheduler, JobPost
<1>4. CASE h = p
  <2>1. handler[c].pc \notin {"afterApproval", "scheduling", "execute"}
    BY <1>4 DEF UntouchedByReview
  <2>2. \/ CommitSubmission(c) \/ CommitDelete(c) \/ ExecuteCallPlatform(c) \/ ExecuteMarkFailed(c)
        \/ CommitDecision(c) \/ FinishPublishing(c)
    BY <2>1 DEF HandlerStep, ExecuteMarkPublishing, HandlePostAfterApproval, MarkScheduled
  <2>3. UNCHANGED call
    BY <2>2 DEF CommitSubmission, CommitDelete, ExecuteCallPlatform, ExecuteMarkFailed, CommitDecision,
       FinishPublishing, schedulerVars, unchangedInScheduler
  <2>4. post'[p].status \notin {"SCHEDULED", "PUBLISHING", "PUBLISHED"}
    <3>1. CASE UNCHANGED post
      BY <3>1 DEF UntouchedByScheduler
    <3>2. ASSUME NEW s \in {"PENDING_APPROVAL", "APPROVED", "DRAFT"},
                 post' = [post EXCEPT ![p].status = s]
          PROVE  post'[p].status = s
      BY <1>0, <3>2 DEF Row
    <3>3. CASE CommitDelete(c)
      BY <1>0, <1>4, <3>1, <3>3 DEF CommitDelete, NewRow
    <3>4. CASE ExecuteMarkFailed(c)
      <4>1. ASSUME NEW n, NEW k,
                   post' = [post EXCEPT ![p].status = "FAILED", ![p].retryCount = n,
                                        ![p].queueStatus = k]
            PROVE  post'[p].status = "FAILED"
        BY <1>0, <4>1 DEF Row
      <4>2. \/ UNCHANGED post
            \/ \E n, k : post' = [post EXCEPT ![p].status = "FAILED", ![p].retryCount = n,
                                              ![p].queueStatus = k]
        BY <1>4, <3>4 DEF ExecuteMarkFailed
      <4> QED BY <3>1, <4>1, <4>2
    <3>5. CASE CommitDecision(c)
      <4>1. PICK s \in {"APPROVED", "DRAFT"} : s = DecidedStatus(handler[c].decision)
        BY DEF DecidedStatus
      <4>2. UNCHANGED post \/ post' = [post EXCEPT ![p].status = s]
        BY <1>4, <3>5, <4>1 DEF CommitDecision
      <4>3. s \in {"PENDING_APPROVAL", "APPROVED", "DRAFT"}
        OBVIOUS
      <4> QED BY <3>1, <3>2, <4>2, <4>3
    <3>6. CASE CommitSubmission(c)
      BY <1>4, <3>1, <3>2, <3>6 DEF CommitSubmission
    <3> QED BY <2>2, <3>1, <3>3, <3>4, <3>5, <3>6 DEF ExecuteCallPlatform, FinishPublishing, schedulerVars
  <2>5. handler'[c].pc \in {"idle", "execFailed"}
    <3>1. CASE CommitDecision(c)
      <4>1. Close(c)
        BY <1>4, <3>1 DEF CommitDecision, MovesOn
      <4> QED BY <1>0, <4>1, HandlerMoves
    <3> QED BY <1>0, <2>2, <3>1, HandlerMoves
            DEF CommitSubmission, CommitDelete, ExecuteCallPlatform, ExecuteMarkFailed, FinishPublishing
  <2>6. UntouchedByReview(p)'
    BY <1>1, <2>5 DEF UntouchedByReview
  <2> QED BY <1>0, <2>3, <2>4, <2>6 DEF UntouchedByScheduler, JobPost
<1> QED BY <1>3, <1>4

LEMMA ArrivalUntouched ==
    ASSUME LifecycleTypeOK, NEW p \in Posts, UntouchedByScheduler(p), UntouchedByReview(p),
           p \notin allowed', Arrival
    PROVE  UntouchedByScheduler(p)' /\ UntouchedByReview(p)'
<1>0. /\ TypeOK /\ post \in [Posts -> Row] /\ call \in [Calls -> Call]
      /\ handler \in [Calls -> Handler] /\ UNCHANGED <<queue, platform, worker>>
  BY ReviewStep DEF LifecycleTypeOK, TypeOK
<1>1. ASSUME NEW q \in Posts, CreatePost(q) \/ RequestApproval(q)
      PROVE  UntouchedByScheduler(p)' /\ UntouchedByReview(p)'
  <2>1. UNCHANGED <<call, handler>> /\ post'[p].status \in {post[p].status, "DRAFT"}
    BY <1>0, <1>1 DEF CreatePost, RequestApproval, reviewVars, unchangedInScheduler, Row
  <2> QED BY <1>0, <2>1 DEF UntouchedByScheduler, UntouchedByReview, JobPost
<1>2. ASSUME NEW c \in Calls, NEW q \in Posts, NEW d \in Decisions,
             SubmitForApproval(c, q) \/ DeletePost(c, q) \/ ExecutePublish(c, q) \/ Decide(c, q, d)
      PROVE  UntouchedByScheduler(p)' /\ UntouchedByReview(p)'
  <2>1. UNCHANGED <<post, call>>
    BY <1>2 DEF SubmitForApproval, DeletePost, ExecutePublish, Decide, unchangedInScheduler
  <2>2. \E pc, e : /\ Open(c, q, pc, e) /\ pc \notin {"afterApproval", "scheduling"}
                   /\ pc = "execute" => q \in allowed'
    BY <1>2 DEF SubmitForApproval, DeletePost, ExecutePublish, Decide
  <2>3. /\ \A b \in Calls \ {c} : handler'[b] = handler[b]
        /\ handler'[c].post = q /\ handler'[c].pc \notin {"afterApproval", "scheduling"}
        /\ handler'[c].pc = "execute" => q \in allowed'
    BY <1>0, <2>2, HandlerMoves
  <2> QED BY <1>0, <2>1, <2>3 DEF UntouchedByScheduler, UntouchedByReview, JobPost
<1>3. ASSUME NEW c \in Calls, NEW q \in Posts, DirectRequest(c, q)
      PROVE  UntouchedByScheduler(p)' /\ UntouchedByReview(p)'
  <2>1. /\ UNCHANGED <<post, handler>> /\ \A b \in Calls \ {c} : call'[b] = call[b]
        /\ call'[c].post = q /\ (q \in allowed' \/ call'[c].pc = "cancel")
    BY <1>0, <1>3, Started
       DEF DirectRequest, SchedulePost, PublishImmediately, CancelScheduledPost, StartCall
  <2> QED BY <1>0, <2>1 DEF UntouchedByScheduler, UntouchedByReview, JobPost
<1>4. "APPROVED" \in Decisions
  BY DEF Decisions
<1> QED BY <1>1, <1>2, <1>3, <1>4 DEF Arrival, PostsRequest, ApprovalsRequest

LEMMA LifecycleStepUntouched ==
    ASSUME LifecycleTypeOK, UntouchedInv, [LifecycleNext]_lifecycleVars
    PROVE  UntouchedInv'
<1> SUFFICES ASSUME NEW p \in Posts \ allowed'
             PROVE  UntouchedByScheduler(p)' /\ UntouchedByReview(p)'
  BY DEF UntouchedInv
<1>0. TypeOK
  BY DEF LifecycleTypeOK
<1>1. allowed \subseteq allowed'
  BY DEF LifecycleNext, Arrival, CreatePost, RequestApproval, PostsRequest, ApprovalsRequest,
     DirectRequest, SubmitForApproval, DeletePost, ExecutePublish, Decide, HandlerStep,
     CommitSubmission, CommitDelete, ExecuteMarkPublishing, ExecuteCallPlatform, ExecuteMarkFailed,
     CommitDecision, HandlePostAfterApproval, MarkScheduled, FinishPublishing, InternalStep, CrashAll,
     reviewVars, lifecycleVars
<1>2. UntouchedByScheduler(p) /\ UntouchedByReview(p)
  BY <1>1 DEF UntouchedInv
<1>3. CASE InternalStep
  BY <1>0, <1>2, <1>3, SchedulerStepUntouched DEF InternalStep, reviewVars, UntouchedByReview
<1>4. CASE CrashAll
  <2>1. UntouchedByReview(p)'
    BY <1>4 DEF CrashAll, UntouchedByReview, IdleHandler
  <2> QED BY <1>0, <1>2, <1>4, <2>1, SchedulerStepUntouched DEF CrashAll
<1>5. CASE UNCHANGED lifecycleVars
  BY <1>2, <1>5 DEF lifecycleVars, schedulerVars, reviewVars, UntouchedByScheduler, UntouchedByReview,
                    JobPost
<1> QED BY <1>2, <1>3, <1>4, <1>5, HandlerStepUntouched, ArrivalUntouched DEF LifecycleNext

(* Nothing is queued, sent to the platform or shown as scheduled or published  *)
(* unless an approver approved the post, or a client used an endpoint that     *)
(* asks for no approval: a decision, a deletion, a job of another post, a late *)
(* write and a crash never open a way of their own.                            *)
THEOREM UnapprovedUntouched == LifecycleSpec => []NothingUnapproved
<1>1. LifecycleInit => UntouchedInv
  BY DEF LifecycleInit, InitWith, NewRow, NoJob, IdleCall, IdleWorker, IdleHandler,
     UntouchedInv, UntouchedByScheduler, UntouchedByReview
<1>2. LifecycleTypeOK /\ UntouchedInv /\ [LifecycleNext]_lifecycleVars => UntouchedInv'
  BY LifecycleStepUntouched
<1>3. UntouchedInv => NothingUnapproved
  BY DEF UntouchedInv, UntouchedByScheduler, NothingUnapproved
<1> QED BY <1>1, <1>2, <1>3, LifecycleTypeCorrect, PTL DEF LifecycleSpec

-------------------------------------------------------------------------------
(* Every draft goes a way on which it can be published.                        *)

(* A request to create a draft, of any hour and any zone.                      *)
AnyDraft ==
    [platform : Platforms, override : Override, media : {"none", "own", "foreign"},
     timed : BOOLEAN, scheduledAt : Int, timezone : Int]

(* Whatever the draft and the account, and though the account be switched off  *)
(* or get pages before the worker comes: what schedulePost prepared is         *)
(* accepted again by the service the worker resolves, with the same token, and *)
(* a post is queued without a container only for a service that wants none.    *)
THEOREM DraftsPublishable ==
    ASSUME NEW account \in SocialAccount, NEW later \in SocialAccount, NEW ServerZone \in Int,
           NEW dto \in AnyDraft, SameConnection(account, later)
    PROVE  PublishedAsScheduled(account, later, DraftOf(dto), ServerZone)
<1> DEFINE draft == DraftOf(dto)
<1>0. /\ account.page # "none" => account.platform = "META" /\ later.page = account.page
      /\ later.page # "none" => later.platform = "META"
      /\ later.platform = account.platform
  BY DEF SocialAccount, SameConnection
<1> HIDE DEF draft
<1>1. PICK before : before = PreparePlatformPost(account, draft)
  OBVIOUS
<1>a. PICK after : after = PreparePlatformPost(later, draft)
  OBVIOUS
<1>2. PICK prepared : prepared = ScheduledWith(account, draft, ServerZone)
  OBVIOUS
<1>3. /\ account.page # "none" => after.token = "page" /\ after.pageId = TRUE
      /\ TargetPlatform(draft) # "INSTAGRAM" => after.instagramBusinessId = FALSE
      /\ account.page # "instagram" => before.instagramBusinessId = FALSE
      /\ account.page = "instagram" => before = after
  BY <1>0, <1>1, <1>a
     DEF PreparePlatformPost, PrepareMetaPlatformPost, PrepareGenericPlatformPost, PlatformPost
<1> SUFFICES /\ Accepts(prepared.service, prepared.post) =>
                   /\ ResolvePlatformService(later, draft) = prepared.service
                   /\ Accepts(prepared.service, after)
                   /\ after.token = prepared.post.token
             /\ Route(account, draft) = "BULLMQ" => ~Accepts("instagram", after)
  BY <1>a, <1>2 DEF PublishedAsScheduled, draft
<1>5. CASE TargetPlatform(draft) = "INSTAGRAM"
  <2>1. Route(account, draft) = "INSTAGRAM_CONTAINER"
    BY <1>5 DEF Route
  <2>2. prepared.service = "instagram" /\ prepared.post = before
    BY <1>1, <1>2, <2>1 DEF ScheduledWith
  <2>3. Accepts("instagram", before) => account.page = "instagram"
    BY <1>3 DEF Accepts
  <2>4. account.page = "instagram" => ResolvePlatformService(later, draft) = "instagram"
    BY <1>0, <1>5 DEF ResolvePlatformService
  <2> QED BY <1>3, <2>1, <2>2, <2>3, <2>4
<1>6. CASE TargetPlatform(draft) # "INSTAGRAM" /\ CanUseNativeScheduling(account, draft)
  <2>1. /\ Route(account, draft) = "NATIVE"
        /\ account.platform = "META" /\ account.page # "none"
    BY <1>6 DEF Route, CanUseNativeScheduling
  <2>2. /\ ResolvePlatformService(account, draft) = "facebook"
        /\ ResolvePlatformService(later, draft) = "facebook"
    BY <1>0, <1>6, <2>1 DEF ResolvePlatformService, RegisteredService
  <2>3. prepared.service = "facebook" /\ prepared.post = BuildScheduledPost
    BY <1>2, <2>1, <2>2 DEF ScheduledWith
  <2>4. Accepts("facebook", after) /\ after.token = "page" /\ BuildScheduledPost.token = "page"
    BY <1>3, <2>1 DEF Accepts, BuildScheduledPost, PlatformPost
  <2> QED BY <2>1, <2>2, <2>3, <2>4
<1>7. CASE TargetPlatform(draft) # "INSTAGRAM" /\ ~CanUseNativeScheduling(account, draft)
  <2>1. Route(account, draft) = "BULLMQ"
    BY <1>7 DEF Route
  <2>2. prepared.service = "none"
    BY <1>2, <2>1 DEF ScheduledWith
  <2>3. ~Accepts("none", prepared.post) /\ ~Accepts("instagram", after)
    BY <1>3, <1>7 DEF Accepts
  <2> QED BY <2>2, <2>3
<1> QED BY <1>5, <1>6, <1>7

(* Whatever the zones: a post waits on the queue for the very time that        *)
(* validatePostCreation found not to have passed, and one that Facebook is to  *)
(* publish itself appears at that time if and only if its zone is the server's *)
(* (fromZonedTime, moment.tz and new Date read one string).                    *)
THEOREM DraftsDue ==
    ASSUME NEW account \in SocialAccount, NEW ServerZone \in Int, NEW dto \in AnyDraft,
           dto.timed, ValidatePostCreation(account, dto)
    PROVE  DueAsChecked(account, dto, ServerZone)
<1>1. PICK draft : draft = DraftOf(dto)
  OBVIOUS
<1>2. /\ dto.scheduledAt \in Int /\ dto.timezone \in Int
      /\ draft.scheduledAt = dto.scheduledAt /\ draft.timezone = dto.timezone
      /\ ~(dto.scheduledAt - dto.timezone < 0)
  BY <1>1 DEF AnyDraft, DraftOf, ValidatePostCreation, TimeHasPassed, InZone
<1>3. CalculateDelay(draft) = dto.scheduledAt - dto.timezone
  BY <1>2 DEF CalculateDelay, InZone
<1>4. ScheduledPublishTime(draft, ServerZone) = dto.scheduledAt - ServerZone
  BY <1>2 DEF ScheduledPublishTime, InZone
<1>5. ScheduledWith(account, draft, ServerZone).due =
          IF Route(account, draft) = "NATIVE" THEN dto.scheduledAt - ServerZone
                                              ELSE dto.scheduledAt - dto.timezone
  BY <1>3, <1>4 DEF ScheduledWith, Route
<1> QED BY <1>1, <1>2, <1>5 DEF DueAsChecked, InZone

===============================================================================
