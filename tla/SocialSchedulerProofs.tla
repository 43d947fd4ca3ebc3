------------------------- MODULE SocialSchedulerProofs -------------------------
(* Proofs about SocialScheduler, for every set of posts and of requests and    *)
(* every value of the bounds.                                                  *)
EXTENDS SocialScheduler, TLAPS

-------------------------------------------------------------------------------
(* Types of the pieces the actions are built from.                             *)

(* The resting values have their types.                                        *)
LEMMA IdleTypes ==
    /\ IdleCall \in Call
    /\ IdleWorker \in Worker
    /\ NoJob \in Job
    /\ NoMetadata \in Metadata
BY PostsAssumption, RetryAssumption
   DEF IdleCall, Call, CallPc, IdleWorker, Worker, WorkerPc, JobIds, NoJob, Job,
       NoMetadata, Metadata, Routes

(* A new object gets the next id and the platform keeps its type.              *)
LEMMA AppendType ==
    ASSUME platform \in [Posts -> Seq(ObjectState)], NEW p \in Posts, NEW x \in ObjectState
    PROVE  /\ [platform EXCEPT ![p] = Append(@, x)] \in [Posts -> Seq(ObjectState)]
           /\ NewId(p) \in Nat
<1>1. ASSUME NEW s \in Seq(ObjectState)
      PROVE  Append(s, x) \in Seq(ObjectState) /\ Len(s) + 1 \in Nat
  OBVIOUS
<1> QED BY <1>1 DEF NewId

(* The row every operation writes is a row.                                    *)
LEMMA RowTypes ==
    ASSUME NEW row \in Row, NEW obj \in Nat, NEW m \in Metadata, NEW n \in Nat
    PROVE  /\ ScheduledRow(row, obj) \in Row
           /\ PublishedRow(row, obj, m) \in Row
           /\ ClaimedRow(row, n) \in Row
           /\ FailedRow(row, n) \in Row
<1>1. ScheduledRow(row, obj) \in Row
  BY DEF ScheduledRow, Row, PostStatus, QueueStatus, Metadata, Routes
<1>2. PublishedRow(row, obj, m) \in Row
  BY DEF PublishedRow, Row, PostStatus, QueueStatus
<1>3. ClaimedRow(row, n) \in Row
  BY DEF ClaimedRow, Row, PostStatus, QueueStatus
<1>4. FailedRow(row, n) \in Row
  <2>1. ASSUME NEW k \in Nat, NEW q \in QueueStatus, NEW s \in PostStatus \cup {"NONE", "DELETED"}
        PROVE  [row EXCEPT !.retryCount = k, !.queueStatus = q, !.status = s] \in Row
    BY DEF Row
  <2>2. (IF CanRetry(n) THEN "RETRYING" ELSE "FAILED") \in QueueStatus
    BY DEF QueueStatus
  <2>3. (IF CanRetry(n) THEN row.status ELSE "FAILED") \in PostStatus \cup {"NONE", "DELETED"}
    BY DEF Row, PostStatus
  <2>4. n + 1 \in Nat
    OBVIOUS
  <2> QED BY <2>1, <2>2, <2>3, <2>4 DEF FailedRow
<1> QED BY <1>1, <1>2, <1>3, <1>4

LEMMA SetStatusType ==
    ASSUME post \in [Posts -> Row], NEW p \in Posts, NEW s \in PostStatus, NEW q \in QueueStatus,
           SetStatus(p, s, q)
    PROVE  post' \in [Posts -> Row]
BY DEF SetStatus, Row

LEMMA HandleSchedulingErrorType ==
    ASSUME post \in [Posts -> Row], NEW p \in Posts, HandleSchedulingError(p)
    PROVE  post' \in [Posts -> Row]
BY SetStatusType DEF HandleSchedulingError, PostStatus, QueueStatus

(* Adding a job keeps the queue's type, also when the id is already taken.     *)
LEMMA AddJobType ==
    ASSUME queue \in [JobIds -> Job], NEW id, NEW n \in Nat, AddJob(id, n)
    PROVE  queue' \in [JobIds -> Job]
BY DEF AddJob, Job

(* A request moves on, or ends.                                                *)
LEMMA CallTypes ==
    ASSUME call \in [Calls -> Call], NEW c \in Calls, NEW pc \in CallPc, NEW obj \in Nat
    PROVE  /\ Goto(c, pc) => call' \in [Calls -> Call]
           /\ GotoWith(c, pc, obj) => call' \in [Calls -> Call]
           /\ Return(c) => call' \in [Calls -> Call]
<1>1. Goto(c, pc) => call' \in [Calls -> Call]
  <2>1. [call[c] EXCEPT !.pc = pc] \in Call
    BY DEF Call
  <2> QED BY <2>1 DEF Goto
<1>2. GotoWith(c, pc, obj) => call' \in [Calls -> Call]
  <2>1. [call[c] EXCEPT !.pc = pc, !.obj = obj] \in Call
    BY DEF Call
  <2> QED BY <2>1 DEF GotoWith
<1>3. Return(c) => call' \in [Calls -> Call]
  BY IdleTypes DEF Return
<1> QED BY <1>1, <1>2, <1>3

LEMMA SchedulingFailsType ==
    ASSUME call \in [Calls -> Call], lateFail \in [Posts -> Nat], NEW c \in Calls,
           SchedulingFails(c)
    PROVE  call' \in [Calls -> Call] /\ lateFail' \in [Posts -> Nat]
BY IdleTypes DEF SchedulingFails, Return, Call

-------------------------------------------------------------------------------
(* Type correctness.                                                           *)

(* A request that arrives keeps the types.                                     *)
LEMMA StartCallType ==
    ASSUME TypeOK, NEW c \in Calls, NEW p \in Posts, NEW kept \in Call, StartCall(c, p, kept)
    PROVE  call' \in [Calls -> Call]
<1>1. [kept EXCEPT !.post = p] \in Call
  BY DEF Call
<1> QED BY <1>1 DEF TypeOK, StartCall

(* Every step of a request keeps the types.                                    *)
LEMMA CallStepType ==
    ASSUME TypeOK, NEW c \in Calls, CallStep(c)
    PROVE  TypeOK'
<1> DEFINE p == call[c].post
<1>0. /\ post \in [Posts -> Row] /\ queue \in [JobIds -> Job]
      /\ platform \in [Posts -> Seq(ObjectState)] /\ call \in [Calls -> Call]
      /\ lateFail \in [Posts -> Nat] /\ scheduled \in [Posts -> Nat]
      /\ call[c] \in Call /\ p \in Posts /\ call[c].obj \in Nat /\ call[c].metadata \in Metadata
  BY DEF TypeOK, Call
<1> HIDE DEF p
<1>1. CASE CreateContainer(c)
  <2>1. CASE /\ platform' = [platform EXCEPT ![p] = Append(@, "container")]
             /\ GotoWith(c, "enqueue", NewId(p)) /\ UNCHANGED lateFail
    <3>1. platform' \in [Posts -> Seq(ObjectState)] /\ NewId(p) \in Nat
      BY <2>1, <1>0, AppendType DEF ObjectState
    <3>2. call' \in [Calls -> Call]
      BY <2>1, <1>0, <3>1, CallTypes DEF CallPc
    <3> QED BY <1>1, <2>1, <3>1, <3>2 DEF CreateContainer, TypeOK, historyVars, boundVars
  <2>2. CASE SchedulingFails(c) /\ UNCHANGED platform
    BY <1>1, <2>2, <1>0, SchedulingFailsType DEF CreateContainer, TypeOK, historyVars, boundVars
  <2> QED BY <1>1, <2>1, <2>2 DEF CreateContainer, p
<1>2. CASE ScheduleNative(c)
  <2>1. CASE platform' = [platform EXCEPT ![p] = Append(@, "scheduled")]
    <3>1. platform' \in [Posts -> Seq(ObjectState)] /\ NewId(p) \in Nat
      BY <2>1, <1>0, AppendType DEF ObjectState
    <3>2. CASE GotoWith(c, "saveScheduled", NewId(p)) /\ UNCHANGED lateFail
      <4>1. call' \in [Calls -> Call]
        BY <3>2, <1>0, <3>1, CallTypes DEF CallPc
      <4> QED BY <1>2, <3>1, <3>2, <4>1 DEF ScheduleNative, TypeOK, historyVars, boundVars
    <3>3. CASE SchedulingFails(c)
      BY <1>2, <3>1, <3>3, <1>0, SchedulingFailsType
         DEF ScheduleNative, TypeOK, historyVars, boundVars
    <3> QED BY <1>2, <3>2, <3>3 DEF ScheduleNative, p
  <2>2. CASE SchedulingFails(c) /\ UNCHANGED platform
    BY <1>2, <2>2, <1>0, SchedulingFailsType DEF ScheduleNative, TypeOK, historyVars, boundVars
  <2> QED BY <1>2, <2>1, <2>2 DEF ScheduleNative, p
<1>3. CASE QueueJob(c)
  <2>1. CASE AddJob(<<p, 0>>, call[c].obj) /\ Goto(c, "saveScheduled") /\ UNCHANGED lateFail
    <3>1. call' \in [Calls -> Call]
      BY <2>1, <1>0, CallTypes DEF CallPc
    <3> QED BY <1>3, <2>1, <3>1, <1>0, AddJobType DEF QueueJob, TypeOK, historyVars, boundVars
  <2>2. CASE SchedulingFails(c) /\ UNCHANGED queue
    BY <1>3, <2>2, <1>0, SchedulingFailsType DEF QueueJob, TypeOK, historyVars, boundVars
  <2> QED BY <1>3, <2>1, <2>2 DEF QueueJob, p
<1>4. CASE SaveScheduled(c)
  <2>1. CASE /\ post' = [post EXCEPT ![p] = ScheduledRow(@, call[c].obj)]
             /\ scheduled' = [scheduled EXCEPT ![p] = @ + 1]
             /\ Return(c) /\ UNCHANGED lateFail
    <3>1. ScheduledRow(post[p], call[c].obj) \in Row
      BY <1>0, IdleTypes, RowTypes
    <3>2. call' \in [Calls -> Call]
      BY <2>1, <1>0, CallTypes DEF CallPc
    <3> QED BY <1>4, <2>1, <3>1, <3>2, <1>0 DEF SaveScheduled, TypeOK, boundVars
  <2>2. CASE SchedulingFails(c) /\ UNCHANGED <<post, scheduled>>
    BY <1>4, <2>2, <1>0, SchedulingFailsType DEF SaveScheduled, TypeOK, boundVars
  <2> QED BY <1>4, <2>1, <2>2 DEF SaveScheduled, p
<1>5. CASE CallPlatform(c)
  <2>1. NewId(p) \in Nat /\ platform' \in [Posts -> Seq(ObjectState)]
    BY <1>5, <1>0, AppendType DEF CallPlatform, ObjectState, p
  <2>2. call' \in [Calls -> Call]
    BY <1>5, <1>0, <2>1, CallTypes DEF CallPlatform, CallPc, p
  <2> QED BY <1>5, <2>1, <2>2 DEF CallPlatform, TypeOK, historyVars, boundVars
<1>6. CASE UpdatePublishedPost(c)
  <2>1. PublishedRow(post[p], call[c].obj, call[c].metadata) \in Row
    BY <1>0, RowTypes
  <2>2. post' \in [Posts -> Row]
    BY <1>6, <1>0, <2>1 DEF UpdatePublishedPost, p
  <2>3. call' \in [Calls -> Call]
    BY <1>6, <1>0, CallTypes DEF UpdatePublishedPost, CallPc
  <2> QED BY <1>6, <2>2, <2>3 DEF UpdatePublishedPost, TypeOK, historyVars, boundVars
<1>7. CASE PublishImmediatelyFails(c)
  <2>1. call' \in [Calls -> Call]
    BY <1>7, <1>0, CallTypes DEF PublishImmediatelyFails, CallPc
  <2>2. post' \in [Posts -> Row]
    BY <1>7, <1>0, HandleSchedulingErrorType DEF PublishImmediatelyFails, p
  <2> QED BY <1>7, <2>1, <2>2 DEF PublishImmediatelyFails, TypeOK, historyVars, boundVars
<1>8. CASE CancelPlatformResources(c)
  <2>1. ASSUME NEW s \in Seq(ObjectState), NEW i \in DOMAIN s
        PROVE  [s EXCEPT ![i] = Deleted(@, post[p].route)] \in Seq(ObjectState)
    <3>1. Deleted(s[i], post[p].route) \in ObjectState
      BY DEF Deleted, ObjectState
    <3> QED BY <3>1
  <2>2. platform' \in [Posts -> Seq(ObjectState)]
    <3>1. platform[p] \in Seq(ObjectState)
      BY <1>0
    <3>2. CASE UNCHANGED platform
      BY <3>2, <1>0
    <3>3. CASE call[c].obj \in DOMAIN platform[p]
      <4>1. [platform[p] EXCEPT ![call[c].obj] = Deleted(@, post[p].route)] \in Seq(ObjectState)
        BY <3>1, <3>3, <2>1
      <4> QED BY <1>8, <1>0, <4>1 DEF CancelPlatformResources, p
    <3> QED BY <1>8, <3>2, <3>3 DEF CancelPlatformResources, p
  <2>3. call' \in [Calls -> Call]
    BY <1>8, <1>0 DEF CancelPlatformResources, Call
  <2> QED BY <1>8, <2>2, <2>3 DEF CancelPlatformResources, TypeOK, historyVars, boundVars
<1>9. CASE RemoveQueueJobs(c)
  <2>1. queue' \in [JobIds -> Job]
    BY <1>9, <1>0, IdleTypes DEF RemoveQueueJobs
  <2>2. call' \in [Calls -> Call]
    BY <1>9, <1>0 DEF RemoveQueueJobs, Call
  <2> QED BY <1>9, <2>1, <2>2 DEF RemoveQueueJobs, TypeOK, historyVars, boundVars
<1>10. CASE MarkPostAsCancelled(c)
  <2>1. post' \in [Posts -> Row]
    BY <1>10, <1>0, SetStatusType DEF MarkPostAsCancelled, PostStatus, QueueStatus, p
  <2>2. call' \in [Calls -> Call]
    BY <1>10, <1>0, CallTypes DEF MarkPostAsCancelled, CallPc
  <2> QED BY <1>10, <2>1, <2>2 DEF MarkPostAsCancelled, TypeOK, historyVars, boundVars
<1> QED BY <1>1, <1>2, <1>3, <1>4, <1>5, <1>6, <1>7, <1>8, <1>9, <1>10 DEF CallStep

(* The worker holds a job of the queue.                                        *)
LEMMA WorkerTypes ==
    ASSUME TypeOK
    PROVE  /\ worker \in Worker /\ worker.job \in JobIds /\ JobPost \in Posts
           /\ worker.job[2] \in Nat /\ worker.obj \in Nat /\ worker.metadata \in Metadata
           /\ queue[worker.job] \in Job
           /\ \A pc \in WorkerPc : WorkerGoto(pc) => worker' \in Worker
           /\ AttemptFails => worker' \in Worker /\ worker'.pc = "saveError"
<1>1. worker \in Worker /\ worker.job \in JobIds
  BY DEF TypeOK, Worker
<1>2. worker.job[1] \in Posts /\ worker.job[2] \in Nat
  BY <1>1, RetryAssumption DEF JobIds
<1>3. \A pc \in WorkerPc : WorkerGoto(pc) => worker' \in Worker
  BY <1>1 DEF Worker, WorkerGoto
<1>4. AttemptFails => worker' \in Worker /\ worker'.pc = "saveError"
  <2>1. ASSUME NEW m \in Metadata, worker' = [worker EXCEPT !.pc = "saveError", !.metadata = m,
                                                             !.obj = 0]
        PROVE  worker' \in Worker /\ worker'.pc = "saveError"
    BY <1>1, <2>1 DEF Worker, WorkerPc
  <2>2. NoMetadata \in Metadata
    BY IdleTypes
  <2> QED BY <2>1, <2>2 DEF AttemptFails
<1> QED BY <1>1, <1>2, <1>3, <1>4 DEF TypeOK, Worker, JobPost

LEMMA CompleteJobType ==
    ASSUME TypeOK, CompleteJob
    PROVE  queue' \in [JobIds -> Job] /\ worker' \in Worker
BY IdleTypes DEF CompleteJob, TypeOK

(* Every step of the worker keeps the types.                                   *)
LEMMA WorkerStepType ==
    ASSUME TypeOK, WorkerStep
    PROVE  TypeOK'
<1> DEFINE p == JobPost
           n == worker.job[2]
<1>0. /\ post \in [Posts -> Row] /\ queue \in [JobIds -> Job]
      /\ platform \in [Posts -> Seq(ObjectState)] /\ attempted \in [Posts -> Nat]
      /\ worker \in Worker /\ worker.job \in JobIds /\ p \in Posts /\ n \in Nat
      /\ worker.obj \in Nat /\ worker.metadata \in Metadata /\ post[p] \in Row
  BY WorkerTypes DEF TypeOK
<1>1. ASSUME NEW id \in JobIds, TakeJob(id) PROVE TypeOK'
  <2>1. queue' \in [JobIds -> Job]
    BY <1>1, <1>0 DEF TakeJob, Job
  <2>2. worker' \in Worker
    BY <1>1, IdleTypes DEF TakeJob, Worker, WorkerPc
  <2> QED BY <1>1, <2>1, <2>2 DEF TakeJob, TypeOK, historyVars, boundVars
<1>2. CASE SkipJob
  BY <1>2, CompleteJobType DEF SkipJob, TypeOK, historyVars, boundVars
<1>3. CASE FetchPost
  <2>1. worker' \in Worker
    BY <1>3, <1>0, WorkerTypes DEF FetchPost, Worker, WorkerPc, Row
  <2> QED BY <1>3, <2>1 DEF FetchPost, TypeOK, historyVars, boundVars
<1>4. CASE ClaimPost
  <2>1. worker' \in Worker
    BY <1>4, WorkerTypes DEF ClaimPost, WorkerPc
  <2>2. ClaimedRow(post[p], n) \in Row
    BY <1>0, IdleTypes, RowTypes
  <2>3. post' \in [Posts -> Row]
    BY <1>4, <1>0, <2>2 DEF ClaimPost
  <2> QED BY <1>4, <2>1, <2>3 DEF ClaimPost, TypeOK, historyVars, boundVars
<1>5. CASE PublishPost
  <2>1. attempted' \in [Posts -> Nat]
    <3>1. attempted' = [attempted EXCEPT ![p] = @ + 1]
      BY <1>5 DEF PublishPost
    <3> HIDE DEF p
    <3> QED BY <3>1, <1>0
  <2>2. \A i \in Publishable : i \in Nat
    <3>1. NewId(p) \in Nat
      BY <1>0, AppendType DEF ObjectState
    <3>2. Container \in Nat
      BY WorkerTypes DEF Container, Job
    <3> QED BY <3>1, <3>2 DEF Publishable
  <2>3. worker' \in Worker
    BY <1>5, <1>0, <2>2, WorkerTypes DEF PublishPost, Worker, WorkerPc
  <2>4. platform' \in [Posts -> Seq(ObjectState)]
    <3>1. CASE UNCHANGED platform
      BY <3>1, <1>0
    <3>2. ASSUME NEW i \in Publishable, MakeLive(p, i)
          PROVE  platform' \in [Posts -> Seq(ObjectState)]
      <4>1. CASE i \in DOMAIN platform[p]
        <5>1. ASSUME NEW s \in Seq(ObjectState), i \in DOMAIN s
              PROVE  [s EXCEPT ![i] = "live"] \in Seq(ObjectState)
          <6>1. "live" \in ObjectState
            BY DEF ObjectState
          <6> QED BY <5>1, <6>1
        <5>2. [platform[p] EXCEPT ![i] = "live"] \in Seq(ObjectState)
          BY <5>1, <4>1, <1>0
        <5> QED BY <3>2, <4>1, <5>2, <1>0 DEF MakeLive
      <4>2. CASE i \notin DOMAIN platform[p]
        <5>1. platform' = [platform EXCEPT ![p] = Append(@, "live")]
          BY <3>2, <4>2 DEF MakeLive
        <5> QED BY <5>1, <1>0, AppendType DEF ObjectState
      <4> QED BY <4>1, <4>2
    <3> QED BY <1>5, <3>1, <3>2 DEF PublishPost
  <2> QED BY <1>5, <2>1, <2>3, <2>4 DEF PublishPost, TypeOK, boundVars
<1>6. CASE MarkPostAsPublished
  <2>1. CASE /\ post' = [post EXCEPT ![p] = PublishedRow(@, worker.obj, worker.metadata)]
             /\ CompleteJob
    <3>1. PublishedRow(post[p], worker.obj, worker.metadata) \in Row
      BY <1>0, RowTypes
    <3> QED BY <1>6, <2>1, <3>1, <1>0, CompleteJobType
            DEF MarkPostAsPublished, TypeOK, historyVars, boundVars
  <2>2. CASE AttemptFails /\ UNCHANGED <<post, queue>>
    BY <1>6, <2>2, WorkerTypes DEF MarkPostAsPublished, TypeOK, historyVars, boundVars
  <2> QED BY <1>6, <2>1, <2>2 DEF MarkPostAsPublished
<1>7. CASE HandlePublishingError
  <2>1. FailedRow(post[p], n) \in Row
    BY <1>0, IdleTypes, RowTypes
  <2>2. post' \in [Posts -> Row]
    BY <1>7, <1>0, <2>1 DEF HandlePublishingError
  <2>3. worker' \in Worker
    BY <1>7, WorkerTypes DEF HandlePublishingError, WorkerPc
  <2> QED BY <1>7, <2>2, <2>3 DEF HandlePublishingError, TypeOK, historyVars, boundVars
<1>8. CASE ScheduleRetry
  <2>1. queue' \in [JobIds -> Job]
    BY <1>8, <1>0, AddJobType DEF ScheduleRetry
  <2>2. worker' \in Worker
    BY <1>8, WorkerTypes DEF ScheduleRetry, WorkerPc
  <2> QED BY <1>8, <2>1, <2>2 DEF ScheduleRetry, TypeOK, historyVars, boundVars
<1>9. CASE RethrowError
  <2>1. queue' \in [JobIds -> Job]
    <3>1. ASSUME NEW j \in Job, NEW k \in Nat, NEW s \in {"waiting", "failed"}
          PROVE  [j EXCEPT !.made = k, !.state = s] \in Job
      BY DEF Job
    <3>2. queue[worker.job].made + 1 \in Nat
      BY <1>0 DEF Job
    <3> QED BY <1>9, <1>0, <3>1, <3>2 DEF RethrowError
  <2> QED BY <1>9, <2>1, IdleTypes DEF RethrowError, TypeOK, historyVars, boundVars
<1> QED BY <1>1, <1>2, <1>3, <1>4, <1>5, <1>6, <1>7, <1>8, <1>9 DEF WorkerStep, JobStep

(* A FAILED write that nobody awaited, the environment and a crash keep the    *)
(* types.                                                                      *)
LEMMA OtherStepType ==
    ASSUME TypeOK, (\E p \in Posts : LateFailWrite(p)) \/ Environment \/ Crash
    PROVE  TypeOK'
<1>0. /\ queue \in [JobIds -> Job] /\ platform \in [Posts -> Seq(ObjectState)]
      /\ post \in [Posts -> Row] /\ lateFail \in [Posts -> Nat]
  BY DEF TypeOK
<1>1. ASSUME NEW p \in Posts, LateFailWrite(p) PROVE TypeOK'
  <2>1. post' \in [Posts -> Row]
    BY <1>1, <1>0, HandleSchedulingErrorType DEF LateFailWrite
  <2>2. lateFail' \in [Posts -> Nat]
    BY <1>1, <1>0 DEF LateFailWrite
  <2> QED BY <1>1, <2>1, <2>2 DEF LateFailWrite, TypeOK, historyVars, boundVars
<1>2. ASSUME NEW id \in JobIds, RecoverStalledJob(id) PROVE TypeOK'
  <2>1. ASSUME NEW j \in Job, NEW k \in Nat, NEW s \in {"waiting", "failed"}
        PROVE  [j EXCEPT !.stalls = k, !.state = s] \in Job
    BY DEF Job
  <2>2. queue[id].stalls + 1 \in Nat
    BY <1>0 DEF Job
  <2>3. queue' \in [JobIds -> Job]
    BY <1>2, <1>0, <2>1, <2>2 DEF RecoverStalledJob
  <2> QED BY <1>2, <2>3 DEF RecoverStalledJob, TypeOK, historyVars, boundVars
<1>3. ASSUME NEW id \in JobIds, EvictFailedRetry(id) PROVE TypeOK'
  BY <1>3, <1>0, IdleTypes DEF EvictFailedRetry, TypeOK, historyVars, boundVars
<1>4. ASSUME NEW p \in Posts, NEW i \in DOMAIN platform[p], PlatformActs(p, i) PROVE TypeOK'
  <2>1. ASSUME NEW s \in Seq(ObjectState), NEW k \in DOMAIN s, NEW x \in ObjectState
        PROVE  [s EXCEPT ![k] = x] \in Seq(ObjectState)
    OBVIOUS
  <2>2. platform[p] \in Seq(ObjectState) /\ "live" \in ObjectState /\ "gone" \in ObjectState
    BY <1>0 DEF ObjectState
  <2>3. /\ [platform[p] EXCEPT ![i] = "live"] \in Seq(ObjectState)
        /\ [platform[p] EXCEPT ![i] = "gone"] \in Seq(ObjectState)
    BY <2>1, <2>2
  <2>4. platform' \in [Posts -> Seq(ObjectState)]
    BY <1>4, <1>0, <2>3 DEF PlatformActs
  <2> QED BY <1>4, <2>4 DEF PlatformActs, TypeOK, historyVars, boundVars
<1>5. CASE Crash
  BY <1>5, IdleTypes DEF Crash, TypeOK, historyVars
<1> QED BY <1>1, <1>2, <1>3, <1>4, <1>5 DEF Environment

(* A request of any of the three kinds keeps the types.                        *)
LEMMA RequestType ==
    ASSUME TypeOK, NEW c \in Calls, NEW p \in Posts
    PROVE  /\ SchedulePost(c, p) => call' \in [Calls -> Call]
           /\ PublishImmediately(c, p) => call' \in [Calls -> Call]
           /\ CancelScheduledPost(c, p) => call' \in [Calls -> Call]
<1>1. ASSUME NEW k \in Call, NEW pc \in CallPc, NEW m \in Metadata, NEW obj \in Nat,
             NEW todo \in SUBSET {"platform", "queue"}
      PROVE  /\ [k EXCEPT !.pc = pc] \in Call
             /\ [k EXCEPT !.pc = pc, !.metadata = m] \in Call
             /\ [k EXCEPT !.pc = pc, !.obj = obj, !.todo = todo] \in Call
  BY DEF Call
<1>2. FirstStep(post[p].route) \in CallPc
  BY DEF TypeOK, Row, Routes, FirstStep, CallPc
<1>3. post[p].metadata \in Metadata
  BY DEF TypeOK, Row
<1>4. ToDelete(post[p]) \in Nat
  <2>1. post[p].metadata.containerId \in Nat /\ post[p].platformPostId \in Nat
    BY DEF TypeOK, Row, Metadata
  <2> QED BY <2>1 DEF ToDelete
<1>5. {"publish", "cancel"} \subseteq CallPc
  BY DEF CallPc
<1>6. SchedulePost(c, p) => call' \in [Calls -> Call]
  BY <1>1, <1>2, IdleTypes, StartCallType DEF SchedulePost
<1>7. PublishImmediately(c, p) => call' \in [Calls -> Call]
  BY <1>1, <1>3, <1>5, IdleTypes, StartCallType DEF PublishImmediately
<1>8. CancelScheduledPost(c, p) => call' \in [Calls -> Call]
  BY <1>1, <1>4, <1>5, IdleTypes, StartCallType DEF CancelScheduledPost
<1> QED BY <1>6, <1>7, <1>8

LEMMA InitType == ASSUME NEW s \in PostStatus \cup {"NONE"}, InitWith(s) PROVE TypeOK
<1>1. post \in [Posts -> Row]
  <2>1. \A r \in Routes : NewRow(s, r) \in Row
    BY IdleTypes DEF NewRow, Row, QueueStatus, NoMetadata
  <2> QED BY <2>1 DEF InitWith
<1>2. platform \in [Posts -> Seq(ObjectState)]
  BY DEF InitWith
<1> QED BY <1>1, <1>2, IdleTypes DEF InitWith, TypeOK

LEMMA StepType == ASSUME TypeOK, [Next]_schedulerVars PROVE TypeOK'
<1>1. ASSUME NEW c \in Calls, NEW p \in Posts, Request(c, p) PROVE TypeOK'
  <2>1. call' \in [Calls -> Call]
    BY <1>1, RequestType DEF Request
  <2>2. calls' \in Nat
    BY <1>1 DEF Request, CountCall, TypeOK
  <2>3. UNCHANGED <<post, queue, platform, worker, lateFail, scheduled, attempted, crashes>>
    BY <1>1 DEF Request, SchedulePost, PublishImmediately, CancelScheduledPost, StartCall,
                historyVars
  <2> QED BY <2>1, <2>2, <2>3 DEF TypeOK
<1>2. CASE SchedulerStep
  BY <1>2, CallStepType, WorkerStepType, OtherStepType DEF SchedulerStep
<1>3. CASE Crash
  BY <1>3, OtherStepType
<1>4. CASE UNCHANGED schedulerVars
  BY <1>4 DEF schedulerVars, TypeOK
<1> QED BY <1>1, <1>2, <1>3, <1>4 DEF Next

(* Every variable of the scheduler stays in its type: the rows, the jobs, the  *)
(* platform's objects and the state of every request and of the worker.        *)
THEOREM TypeCorrect == Spec => []TypeOK
<1>1. Init => TypeOK
  BY InitType DEF Init, PostStatus
<1> QED BY <1>1, StepType, PTL DEF Spec

-------------------------------------------------------------------------------
(* At most one publication per schedule.                                       *)

(* The invariant that is inductive: a worker past the status test, or a row    *)
(* that would pass it, still has a permit; a worker about to publish a row     *)
(* that was scheduled again meanwhile has two.                                 *)
Holding(p) == worker.pc \in {"claim", "publish"} /\ JobPost = p

PermitInv ==
    \A p \in Posts :
        /\ attempted[p] <= scheduled[p]
        /\ Holding(p) \/ post[p].status = "SCHEDULED" => attempted[p] + 1 <= scheduled[p]
        /\ worker.pc = "publish" /\ JobPost = p /\ post[p].status = "SCHEDULED"
              => attempted[p] + 2 <= scheduled[p]

(* A step that schedules nothing, publishes nothing and does not bring the     *)
(* worker past the status test keeps PermitInv.                                *)
LEMMA QuietStep ==
    ASSUME PermitInv,
           UNCHANGED <<scheduled, attempted>>,
           \A p \in Posts : post'[p].status = "SCHEDULED" => post[p].status = "SCHEDULED",
           worker' = worker \/ worker'.pc \notin {"claim", "publish"}
    PROVE  PermitInv'
<1>1. \A p \in Posts : Holding(p)' => Holding(p)
  BY DEF Holding, JobPost
<1>2. \A p \in Posts : worker'.pc = "publish" /\ JobPost' = p => worker.pc = "publish" /\ JobPost = p
  BY DEF JobPost
<1> QED BY <1>1, <1>2 DEF PermitInv

(* Writing anything but SCHEDULED in one row is quiet.                         *)
LEMMA QuietRow ==
    ASSUME post \in [Posts -> Row], NEW p \in Posts, NEW row, row.status # "SCHEDULED",
           post' = [post EXCEPT ![p] = row]
    PROVE  \A q \in Posts : post'[q].status = "SCHEDULED" => post[q].status = "SCHEDULED"
OBVIOUS

LEMMA QuietError ==
    ASSUME post \in [Posts -> Row], NEW p \in Posts,
           HandleSchedulingError(p) \/ SetStatus(p, "CANCELED", "CANCELLED")
    PROVE  \A q \in Posts : post'[q].status = "SCHEDULED" => post[q].status = "SCHEDULED"
BY DEF HandleSchedulingError, SetStatus, Row

(* The steps of a request keep PermitInv: SaveScheduled issues a permit with   *)
(* the status that needs it, the others are quiet.                             *)
LEMMA CallStepPermit ==
    ASSUME TypeOK, PermitInv, NEW c \in Calls, CallStep(c)
    PROVE  PermitInv'
<1> DEFINE p == call[c].post
<1>0. p \in Posts /\ post \in [Posts -> Row]
  BY DEF TypeOK, Call
<1> HIDE DEF p
<1>1. CASE SaveScheduled(c)
  <2>1. CASE /\ post' = [post EXCEPT ![p] = ScheduledRow(@, call[c].obj)]
             /\ scheduled' = [scheduled EXCEPT ![p] = @ + 1]
    <3>1. UNCHANGED <<worker, attempted>>
      BY <1>1 DEF SaveScheduled
    <3> SUFFICES ASSUME NEW q \in Posts
                 PROVE  /\ attempted[q] <= scheduled'[q]
                        /\ Holding(q) \/ post'[q].status = "SCHEDULED"
                              => attempted[q] + 1 <= scheduled'[q]
                        /\ worker.pc = "publish" /\ JobPost = q /\ post'[q].status = "SCHEDULED"
                              => attempted[q] + 2 <= scheduled'[q]
      BY <3>1 DEF PermitInv, Holding, JobPost
    <3>2. attempted[q] \in Nat /\ scheduled[q] \in Nat
      BY DEF TypeOK
    <3>3. CASE q = p
      <4>1. scheduled'[q] = scheduled[q] + 1
        BY <2>1, <1>0, <3>3 DEF TypeOK
      <4>2. attempted[q] <= scheduled[q] /\ (Holding(q) => attempted[q] + 1 <= scheduled[q])
        BY DEF PermitInv
      <4>3. worker.pc = "publish" /\ JobPost = q => Holding(q)
        BY DEF Holding
      <4> QED BY <3>2, <4>1, <4>2, <4>3
    <3>4. CASE q # p
      BY <2>1, <3>4, <1>0 DEF PermitInv, TypeOK
    <3> QED BY <3>3, <3>4
  <2>2. CASE UNCHANGED <<post, scheduled>>
    BY <1>1, <2>2, QuietStep DEF SaveScheduled
  <2> QED BY <1>1, <2>1, <2>2 DEF SaveScheduled, p
<1>2. CASE CreateContainer(c) \/ ScheduleNative(c) \/ QueueJob(c)
           \/ CallPlatform(c) \/ CancelPlatformResources(c) \/ RemoveQueueJobs(c)
  BY <1>2, QuietStep DEF CreateContainer, ScheduleNative, QueueJob, CallPlatform,
     CancelPlatformResources, RemoveQueueJobs, historyVars
<1>3. CASE UpdatePublishedPost(c)
  <2>1. PublishedRow(post[p], call[c].obj, call[c].metadata).status # "SCHEDULED"
    BY <1>0 DEF PublishedRow, Row
  <2>2. \A q \in Posts : post'[q].status = "SCHEDULED" => post[q].status = "SCHEDULED"
    BY <1>3, <2>1, <1>0, QuietRow DEF UpdatePublishedPost, p
  <2> QED BY <1>3, <2>2, QuietStep DEF UpdatePublishedPost, historyVars
<1>4. CASE PublishImmediatelyFails(c)
  BY <1>4, <1>0, QuietError, QuietStep DEF PublishImmediatelyFails, historyVars, p
<1>5. CASE MarkPostAsCancelled(c)
  BY <1>5, <1>0, QuietError, QuietStep DEF MarkPostAsCancelled, historyVars, p
<1> QED BY <1>1, <1>2, <1>3, <1>4, <1>5 DEF CallStep

(* The steps of the worker keep PermitInv: the status test needs a permit, the *)
(* claim takes the row off the schedule, the publication uses the permit.      *)
LEMMA WorkerStepPermit ==
    ASSUME TypeOK, PermitInv, WorkerStep
    PROVE  PermitInv'
<1> DEFINE p == JobPost
<1>0. /\ post \in [Posts -> Row] /\ p \in Posts /\ worker \in Worker
      /\ worker.job[2] \in Nat
  BY WorkerTypes DEF TypeOK
<1>1. CASE SkipJob \/ ScheduleRetry \/ RethrowError \/ \E id \in JobIds : TakeJob(id)
  <2>1. worker'.pc \notin {"claim", "publish"}
    <3>1. CASE SkipJob
      BY <3>1 DEF SkipJob, CompleteJob, IdleWorker
    <3>2. CASE ScheduleRetry
      BY <3>2, <1>0 DEF ScheduleRetry, WorkerGoto, Worker
    <3>3. CASE RethrowError
      BY <3>3 DEF RethrowError, IdleWorker
    <3>4. ASSUME NEW id \in JobIds, TakeJob(id) PROVE worker'.pc = "fetch"
      BY <3>4 DEF TakeJob, IdleWorker
    <3> QED BY <1>1, <3>1, <3>2, <3>3, <3>4
  <2> QED BY <1>1, <2>1, QuietStep DEF SkipJob, ScheduleRetry, RethrowError, TakeJob, historyVars
<1>2. CASE FetchPost
  <2>1. UNCHANGED <<post, scheduled, attempted>>
    BY <1>2 DEF FetchPost, historyVars
  <2>2. CASE /\ post[p].status = "SCHEDULED"
             /\ worker' = [worker EXCEPT !.pc = "claim", !.metadata = post[p].metadata]
    <3>1. worker'.pc = "claim" /\ JobPost' = p
      BY <2>2, <1>0 DEF Worker, JobPost
    <3> QED BY <2>1, <2>2, <3>1 DEF PermitInv, Holding
  <2>3. CASE WorkerGoto("rethrow")
    <3>1. worker'.pc = "rethrow"
      BY <2>3, <1>0 DEF WorkerGoto, Worker
    <3> QED BY <2>1, <3>1, QuietStep
  <2> QED BY <1>2, <2>2, <2>3 DEF FetchPost
<1>3. CASE ClaimPost
  <2>1. UNCHANGED <<scheduled, attempted>>
    BY <1>3 DEF ClaimPost, historyVars
  <2>2. CASE /\ post' = [post EXCEPT ![p] = ClaimedRow(@, worker.job[2])]
             /\ WorkerGoto("publish")
    <3>1. worker'.pc = "publish" /\ JobPost' = p
      BY <2>2, <1>0 DEF WorkerGoto, Worker, JobPost
    <3>2. ClaimedRow(post[p], worker.job[2]).status # "SCHEDULED"
      BY <1>0 DEF ClaimedRow, Row
    <3>3. /\ post'[p].status # "SCHEDULED"
          /\ \A q \in Posts : post'[q].status = "SCHEDULED" => post[q].status = "SCHEDULED"
      BY <2>2, <3>2, <1>0
    <3>4. Holding(p)
      BY <1>3 DEF ClaimPost, Holding
    <3> QED BY <2>1, <3>1, <3>3, <3>4 DEF PermitInv, Holding
  <2>3. CASE AttemptFails /\ UNCHANGED post
    <3>1. worker'.pc = "saveError"
      BY <2>3, WorkerTypes
    <3> QED BY <2>1, <2>3, <3>1, QuietStep
  <2> QED BY <1>3, <2>2, <2>3 DEF ClaimPost
<1>4. CASE PublishPost
  <2>1. /\ attempted' = [attempted EXCEPT ![p] = @ + 1]
        /\ UNCHANGED <<post, scheduled>>
        /\ worker.pc = "publish"
    BY <1>4 DEF PublishPost
  <2>2. worker'.pc \notin {"claim", "publish"}
    BY <1>4, <1>0, WorkerTypes DEF PublishPost, Worker
  <2>3. Holding(p)
    BY <2>1 DEF Holding
  <2> SUFFICES ASSUME NEW q \in Posts
               PROVE  /\ attempted'[q] <= scheduled[q]
                      /\ post[q].status = "SCHEDULED" => attempted'[q] + 1 <= scheduled[q]
    BY <2>1, <2>2 DEF PermitInv, Holding
  <2>4. attempted[q] \in Nat /\ scheduled[q] \in Nat
    BY DEF TypeOK
  <2>5. CASE q = p
    <3>1. attempted'[q] = attempted[q] + 1
      BY <2>1, <2>5, <1>0 DEF TypeOK
    <3>2. /\ attempted[q] + 1 <= scheduled[q]
          /\ post[q].status = "SCHEDULED" => attempted[q] + 2 <= scheduled[q]
      BY <2>1, <2>3, <2>5 DEF PermitInv
    <3> QED BY <2>4, <3>1, <3>2
  <2>6. CASE q # p
    BY <2>1, <2>6, <1>0 DEF PermitInv, TypeOK
  <2> QED BY <2>5, <2>6
<1>5. CASE MarkPostAsPublished
  <2>1. PublishedRow(post[p], worker.obj, worker.metadata).status # "SCHEDULED"
    BY <1>0 DEF PublishedRow, Row
  <2>2. \A q \in Posts : post'[q].status = "SCHEDULED" => post[q].status = "SCHEDULED"
    BY <1>5, <2>1, <1>0, QuietRow DEF MarkPostAsPublished
  <2>3. worker'.pc \notin {"claim", "publish"}
    BY <1>5, WorkerTypes DEF MarkPostAsPublished, CompleteJob, IdleWorker
  <2> QED BY <1>5, <2>2, <2>3, QuietStep DEF MarkPostAsPublished, historyVars
<1>6. CASE HandlePublishingError
  <2>1. FailedRow(post[p], worker.job[2]).status = "SCHEDULED" => post[p].status = "SCHEDULED"
    BY <1>0 DEF FailedRow, Row
  <2>2. \A q \in Posts : post'[q].status = "SCHEDULED" => post[q].status = "SCHEDULED"
    BY <1>6, <2>1, <1>0 DEF HandlePublishingError
  <2>3. worker'.pc \notin {"claim", "publish"}
    BY <1>6, <1>0 DEF HandlePublishingError, WorkerGoto, Worker
  <2> QED BY <1>6, <2>2, <2>3, QuietStep DEF HandlePublishingError, historyVars
<1> QED BY <1>1, <1>2, <1>3, <1>4, <1>5, <1>6 DEF WorkerStep, JobStep

(* The other steps are quiet.                                                  *)
LEMMA OtherStepPermit ==
    ASSUME TypeOK, PermitInv,
           \/ \E c \in Calls, p \in Posts : Request(c, p)
           \/ \E p \in Posts : LateFailWrite(p)
           \/ Environment
           \/ Crash
    PROVE  PermitInv'
<1>1. ASSUME NEW c \in Calls, NEW p \in Posts, Request(c, p) PROVE PermitInv'
  BY <1>1, QuietStep DEF Request, SchedulePost, PublishImmediately, CancelScheduledPost,
     StartCall, historyVars
<1>2. ASSUME NEW p \in Posts, LateFailWrite(p) PROVE PermitInv'
  BY <1>2, QuietError, QuietStep DEF LateFailWrite, historyVars, TypeOK
<1>3. CASE Environment
  BY <1>3, QuietStep DEF Environment, RecoverStalledJob, EvictFailedRetry, PlatformActs,
     historyVars
<1>4. CASE Crash
  BY <1>4, QuietStep DEF Crash, IdleWorker, historyVars
<1> QED BY <1>1, <1>2, <1>3, <1>4

LEMMA StepPermit == TypeOK /\ PermitInv /\ [Next]_schedulerVars => PermitInv'
<1> SUFFICES ASSUME TypeOK, PermitInv, [Next]_schedulerVars PROVE PermitInv'
  OBVIOUS
<1>1. CASE UNCHANGED schedulerVars
  BY <1>1, QuietStep DEF schedulerVars
<1> QED BY <1>1, CallStepPermit, WorkerStepPermit, OtherStepPermit DEF Next, SchedulerStep

LEMMA InitPermit == Init => PermitInv
BY DEF Init, InitWith, PermitInv, Holding, IdleWorker, NewRow

(* The invariant holds in every behaviour.                                     *)
THEOREM PermitInvariant == Spec => []PermitInv
BY InitPermit, StepPermit, TypeCorrect, PTL DEF Spec

(* For any number of posts and requests, any interleaving and any number of    *)
(* crashes, retries and stalls, the worker asks the platform to publish a post *)
(* at most once for each time it was put on the schedule.                      *)
THEOREM AtMostOnce == Spec => []AtMostOncePerSchedule
<1>1. PermitInv => AtMostOncePerSchedule
  BY DEF PermitInv, AtMostOncePerSchedule
<1> QED BY <1>1, PermitInvariant, PTL

-------------------------------------------------------------------------------
(* The scheduler implements PublishPermit.                                     *)

(* The step writes one row at most, and puts no post on the schedule.          *)
Unscheduling ==
    /\ UNCHANGED scheduled
    /\ \E p \in Posts : \A q \in Posts \ {p} : post'[q] = post[q]
    /\ \A q \in Posts : post'[q].status = "SCHEDULED" => post[q].status = "SCHEDULED"

LEMMA UnschedulingRow ==
    ASSUME post \in [Posts -> Row], NEW p \in Posts, NEW row,
           row.status = "SCHEDULED" => post[p].status = "SCHEDULED",
           post' = [post EXCEPT ![p] = row], UNCHANGED scheduled
    PROVE  Unscheduling
BY DEF Unscheduling

LEMMA UnschedulingError ==
    ASSUME post \in [Posts -> Row], NEW p \in Posts, UNCHANGED scheduled,
           HandleSchedulingError(p) \/ SetStatus(p, "CANCELED", "CANCELLED")
    PROVE  Unscheduling
BY PostsAssumption DEF HandleSchedulingError, SetStatus, Row, Unscheduling

LEMMA UnschedulingSame ==
    ASSUME UNCHANGED <<post, scheduled>>
    PROVE  Unscheduling
BY PostsAssumption DEF Unscheduling

(* Where the worker neither holds a post nor takes one, such a step withdraws  *)
(* the post whose row it writes, or nothing changes.                           *)
LEMMA UnschedulingRefines ==
    ASSUME Unscheduling, UNCHANGED attempted,
           \/ worker' = worker
           \/ worker.pc \notin {"claim", "publish"} /\ worker'.pc \notin {"claim", "publish"}
    PROVE  [Permit!Next]_Permit!permitVars
<1>1. PICK p \in Posts : \A q \in Posts \ {p} : post'[q] = post[q]
  BY DEF Unscheduling
<1>2. Claimed' = Claimed
  BY DEF Claimed, JobPost
<1>3. \A q \in Posts \ {p} : q \in OnSchedule' <=> q \in OnSchedule
  BY <1>1 DEF OnSchedule, JobPost
<1>4. p \in OnSchedule' => p \in OnSchedule
  BY DEF OnSchedule, JobPost, Unscheduling
<1>5. OnSchedule \subseteq Posts /\ OnSchedule' \subseteq Posts
  BY DEF OnSchedule
<1>6. OnSchedule' = OnSchedule \/ (p \in OnSchedule /\ OnSchedule' = OnSchedule \ {p})
  BY <1>3, <1>4, <1>5
<1>7. CASE OnSchedule' = OnSchedule
  BY <1>2, <1>7 DEF Unscheduling, Permit!permitVars
<1>8. CASE p \in OnSchedule /\ OnSchedule' = OnSchedule \ {p}
  <2>1. Permit!Withdraw(p)
    BY <1>2, <1>8 DEF Unscheduling, Permit!Withdraw
  <2> QED BY <2>1 DEF Permit!Next
<1> QED BY <1>6, <1>7, <1>8

(* A write of SCHEDULED is a grant.                                            *)
LEMMA SchedulingRefines ==
    ASSUME post \in [Posts -> Row], NEW p \in Posts, UNCHANGED <<worker, attempted>>,
           scheduled' = [scheduled EXCEPT ![p] = @ + 1],
           post'[p].status = "SCHEDULED", \A q \in Posts \ {p} : post'[q] = post[q]
    PROVE  [Permit!Next]_Permit!permitVars
<1>1. Claimed' = Claimed
  BY DEF Claimed, JobPost
<1>2. OnSchedule' = OnSchedule \cup {p}
  BY DEF OnSchedule, JobPost
<1>3. Permit!Grant(p)
  BY <1>1, <1>2 DEF Permit!Grant
<1> QED BY <1>3 DEF Permit!Next

(* The steps of a request: SaveScheduled grants, the others withdraw at most.  *)
LEMMA CallStepRefines ==
    ASSUME TypeOK, NEW c \in Calls, CallStep(c)
    PROVE  [Permit!Next]_Permit!permitVars
<1> DEFINE p == call[c].post
<1>0. p \in Posts /\ post \in [Posts -> Row]
  BY DEF TypeOK, Call
<1>a. post[p] \in Row
  BY <1>0
<1> HIDE DEF p
<1>1. CASE SaveScheduled(c)
  <2>0. UNCHANGED <<worker, attempted>>
    BY <1>1 DEF SaveScheduled
  <2>1. CASE /\ post' = [post EXCEPT ![p] = ScheduledRow(@, call[c].obj)]
             /\ scheduled' = [scheduled EXCEPT ![p] = @ + 1]
    <3>1. ScheduledRow(post[p], call[c].obj).status = "SCHEDULED"
      BY <1>a DEF ScheduledRow, Row
    <3>2. post'[p].status = "SCHEDULED" /\ \A q \in Posts \ {p} : post'[q] = post[q]
      BY <1>0, <2>1, <3>1
    <3> QED BY <1>0, <2>0, <2>1, <3>2, SchedulingRefines
  <2>2. CASE UNCHANGED <<post, scheduled>>
    BY <2>0, <2>2, UnschedulingSame, UnschedulingRefines
  <2> QED BY <1>1, <2>1, <2>2 DEF SaveScheduled, p
<1>2. CASE CreateContainer(c) \/ ScheduleNative(c) \/ QueueJob(c)
           \/ CallPlatform(c) \/ CancelPlatformResources(c) \/ RemoveQueueJobs(c)
  BY <1>2, UnschedulingSame, UnschedulingRefines
     DEF CreateContainer, ScheduleNative, QueueJob, CallPlatform, CancelPlatformResources,
         RemoveQueueJobs, historyVars
<1>3. CASE UpdatePublishedPost(c)
  <2>0. UNCHANGED <<worker, attempted, scheduled>>
    BY <1>3 DEF UpdatePublishedPost, historyVars
  <2>1. PublishedRow(post[p], call[c].obj, call[c].metadata).status # "SCHEDULED"
    BY <1>a DEF PublishedRow, Row
  <2>2. CASE post' = [post EXCEPT ![p] = PublishedRow(@, call[c].obj, call[c].metadata)]
    BY <1>0, <2>0, <2>1, <2>2, UnschedulingRow, UnschedulingRefines
  <2>3. CASE UNCHANGED post
    BY <2>0, <2>3, UnschedulingSame, UnschedulingRefines
  <2> QED BY <1>3, <2>2, <2>3 DEF UpdatePublishedPost, p
<1>4. CASE PublishImmediatelyFails(c)
  BY <1>4, <1>0, UnschedulingError, UnschedulingRefines DEF PublishImmediatelyFails, historyVars, p
<1>5. CASE MarkPostAsCancelled(c)
  BY <1>5, <1>0, UnschedulingError, UnschedulingSame, UnschedulingRefines
     DEF MarkPostAsCancelled, historyVars, p
<1> QED BY <1>1, <1>2, <1>3, <1>4, <1>5 DEF CallStep

(* The steps of the worker: the status test and the claim, seen together, take *)
(* the post off the schedule; the publication uses the claim.                  *)
LEMMA WorkerStepRefines ==
    ASSUME TypeOK, WorkerStep
    PROVE  [Permit!Next]_Permit!permitVars
<1> DEFINE p == JobPost
<1>0. /\ post \in [Posts -> Row] /\ p \in Posts /\ worker \in Worker
      /\ worker.job[2] \in Nat /\ post[p] \in Row
  BY WorkerTypes DEF TypeOK
<1>1. CASE SkipJob \/ ScheduleRetry \/ RethrowError \/ \E id \in JobIds : TakeJob(id)
  <2>1. worker'.pc \notin {"claim", "publish"} /\ worker.pc \notin {"claim", "publish"}
    <3>1. CASE SkipJob
      BY <3>1 DEF SkipJob, CompleteJob, IdleWorker
    <3>2. CASE ScheduleRetry
      BY <3>2, <1>0 DEF ScheduleRetry, WorkerGoto, Worker
    <3>3. CASE RethrowError
      BY <3>3 DEF RethrowError, IdleWorker
    <3>4. ASSUME NEW id \in JobIds, TakeJob(id) PROVE worker'.pc = "fetch" /\ worker.pc = "idle"
      BY <3>4 DEF TakeJob, IdleWorker
    <3> QED BY <1>1, <3>1, <3>2, <3>3, <3>4
  <2>2. UNCHANGED <<post, scheduled, attempted>>
    BY <1>1 DEF SkipJob, ScheduleRetry, RethrowError, TakeJob, historyVars
  <2> QED BY <2>1, <2>2, UnschedulingSame, UnschedulingRefines
<1>2. CASE FetchPost
  <2>1. UNCHANGED <<post, scheduled, attempted>> /\ worker.pc = "fetch"
    BY <1>2 DEF FetchPost, historyVars
  <2>2. CASE /\ post[p].status = "SCHEDULED"
             /\ worker' = [worker EXCEPT !.pc = "claim", !.metadata = post[p].metadata]
    <3>1. worker'.pc = "claim" /\ JobPost' = p
      BY <2>2, <1>0 DEF Worker, JobPost
    <3>2. OnSchedule' = OnSchedule
      BY <2>1, <2>2, <3>1 DEF OnSchedule
    <3>3. Claimed' = Claimed
      BY <2>1, <3>1 DEF Claimed
    <3> QED BY <2>1, <3>2, <3>3 DEF Permit!permitVars
  <2>3. CASE WorkerGoto("rethrow")
    <3>1. worker'.pc = "rethrow"
      BY <2>3, <1>0 DEF WorkerGoto, Worker
    <3> QED BY <2>1, <3>1, UnschedulingSame, UnschedulingRefines
  <2> QED BY <1>2, <2>2, <2>3 DEF FetchPost
<1>3. CASE ClaimPost
  <2>1. UNCHANGED <<scheduled, attempted>> /\ worker.pc = "claim"
    BY <1>3 DEF ClaimPost, historyVars
  <2>2. p \in OnSchedule /\ Claimed = {}
    BY <2>1, <1>0 DEF OnSchedule, Claimed
  <2>3. CASE /\ post' = [post EXCEPT ![p] = ClaimedRow(@, worker.job[2])]
             /\ WorkerGoto("publish")
    <3>1. worker'.pc = "publish" /\ JobPost' = p
      BY <2>3, <1>0 DEF WorkerGoto, Worker, JobPost
    <3>2. ClaimedRow(post[p], worker.job[2]).status # "SCHEDULED"
      BY <1>0 DEF ClaimedRow, Row
    <3>3. post'[p].status # "SCHEDULED" /\ \A q \in Posts \ {p} : post'[q] = post[q]
      BY <2>3, <3>2, <1>0
    <3>4. OnSchedule' = OnSchedule \ {p}
      BY <2>1, <3>1, <3>3 DEF OnSchedule
    <3>5. Claimed' = {p}
      BY <1>0, <3>1 DEF Claimed
    <3>6. Permit!Claim(p)
      BY <2>1, <2>2, <3>4, <3>5 DEF Permit!Claim
    <3> QED BY <1>0, <3>6 DEF Permit!Next
  <2>4. CASE AttemptFails /\ UNCHANGED post
    <3>1. worker'.pc = "saveError"
      BY <2>4, WorkerTypes
    <3>2. Claimed' = Claimed
      BY <2>2, <3>1 DEF Claimed
    <3>3. OnSchedule' = {q \in Posts : post[q].status = "SCHEDULED"}
      BY <2>4, <3>1 DEF OnSchedule
    <3>4. OnSchedule = {q \in Posts : post[q].status = "SCHEDULED"} \cup {p}
      BY <2>1, <1>0 DEF OnSchedule
    <3>5. CASE post[p].status = "SCHEDULED"
      BY <2>1, <3>2, <3>3, <3>4, <3>5, <1>0 DEF Permit!permitVars
    <3>6. CASE post[p].status # "SCHEDULED"
      <4>1. OnSchedule' = OnSchedule \ {p}
        BY <3>3, <3>4, <3>6
      <4>2. Permit!Withdraw(p)
        BY <2>1, <2>2, <3>2, <4>1 DEF Permit!Withdraw
      <4> QED BY <1>0, <4>2 DEF Permit!Next
    <3> QED BY <3>5, <3>6
  <2> QED BY <1>3, <2>3, <2>4 DEF ClaimPost
<1>4. CASE PublishPost
  <2>1. /\ attempted' = [attempted EXCEPT ![p] = @ + 1]
        /\ UNCHANGED <<post, scheduled>>
        /\ worker.pc = "publish"
    BY <1>4 DEF PublishPost
  <2>2. worker'.pc \notin {"claim", "publish"}
    BY <1>4, <1>0, WorkerTypes DEF PublishPost, Worker
  <2>3. OnSchedule' = OnSchedule
    BY <2>1, <2>2 DEF OnSchedule
  <2>4. p \in Claimed /\ Claimed' = {}
    BY <1>0, <2>1, <2>2 DEF Claimed
  <2>5. Permit!Use(p)
    BY <2>1, <2>3, <2>4 DEF Permit!Use
  <2> QED BY <1>0, <2>5 DEF Permit!Next
<1>5. CASE MarkPostAsPublished
  <2>0. UNCHANGED <<attempted, scheduled>>
    BY <1>5 DEF MarkPostAsPublished, historyVars
  <2>1. PublishedRow(post[p], worker.obj, worker.metadata).status # "SCHEDULED"
    BY <1>0 DEF PublishedRow, Row
  <2>2. worker'.pc \notin {"claim", "publish"} /\ worker.pc \notin {"claim", "publish"}
    BY <1>5, WorkerTypes DEF MarkPostAsPublished, CompleteJob, IdleWorker
  <2>3. CASE post' = [post EXCEPT ![p] = PublishedRow(@, worker.obj, worker.metadata)]
    BY <1>0, <2>0, <2>1, <2>2, <2>3, UnschedulingRow, UnschedulingRefines
  <2>4. CASE UNCHANGED post
    BY <2>0, <2>2, <2>4, UnschedulingSame, UnschedulingRefines
  <2> QED BY <1>5, <2>3, <2>4 DEF MarkPostAsPublished
<1>6. CASE HandlePublishingError
  <2>0. UNCHANGED <<attempted, scheduled>>
    BY <1>6 DEF HandlePublishingError, historyVars
  <2>1. FailedRow(post[p], worker.job[2]).status = "SCHEDULED" => post[p].status = "SCHEDULED"
    BY <1>0 DEF FailedRow, Row
  <2>2. worker'.pc \notin {"claim", "publish"} /\ worker.pc \notin {"claim", "publish"}
    BY <1>6, <1>0 DEF HandlePublishingError, WorkerGoto, Worker
  <2>3. CASE post' = [post EXCEPT ![p] = FailedRow(@, worker.job[2])]
    BY <1>0, <2>0, <2>1, <2>2, <2>3, UnschedulingRow, UnschedulingRefines
  <2>4. CASE UNCHANGED post
    BY <2>0, <2>2, <2>4, UnschedulingSame, UnschedulingRefines
  <2> QED BY <1>6, <2>3, <2>4 DEF HandlePublishingError
<1> QED BY <1>1, <1>2, <1>3, <1>4, <1>5, <1>6 DEF WorkerStep, JobStep

(* A crash drops the claim, or withdraws a post the test had passed.           *)
LEMMA CrashRefines ==
    ASSUME TypeOK, Crash
    PROVE  [Permit!Next]_Permit!permitVars
<1>0. UNCHANGED <<post, scheduled, attempted>> /\ worker'.pc = "idle"
  BY DEF Crash, IdleWorker, historyVars
<1>1. Claimed' = {} /\ OnSchedule' = {q \in Posts : post[q].status = "SCHEDULED"}
  BY <1>0 DEF Claimed, OnSchedule
<1>2. CASE worker.pc = "publish"
  <2>1. OnSchedule' = OnSchedule
    BY <1>0, <1>1, <1>2 DEF OnSchedule
  <2>2. Claimed # {}
    BY <1>2, WorkerTypes DEF Claimed
  <2>3. Permit!Drop
    BY <1>0, <1>1, <2>1, <2>2 DEF Permit!Drop
  <2> QED BY <2>3 DEF Permit!Next
<1>3. CASE worker.pc = "claim"
  <2>0. PICK p \in Posts : p = JobPost
    BY WorkerTypes
  <2>1. OnSchedule = {q \in Posts : post[q].status = "SCHEDULED"} \cup {p} /\ Claimed = {}
    BY <1>3, <2>0 DEF OnSchedule, Claimed
  <2>2. CASE post[p].status = "SCHEDULED"
    BY <1>0, <1>1, <2>1, <2>2 DEF Permit!permitVars
  <2>3. CASE post[p].status # "SCHEDULED"
    <3>1. OnSchedule' = OnSchedule \ {p} /\ p \in OnSchedule
      BY <1>1, <2>1, <2>3
    <3>2. Permit!Withdraw(p)
      BY <1>0, <1>1, <2>1, <3>1 DEF Permit!Withdraw
    <3> QED BY <3>2 DEF Permit!Next
  <2> QED BY <2>2, <2>3
<1>4. CASE worker.pc \notin {"claim", "publish"}
  BY <1>0, <1>4, UnschedulingSame, UnschedulingRefines
<1> QED BY <1>2, <1>3, <1>4

(* Every step inside the scheduler maps to a step of PublishPermit or to none, *)
(* whoever makes the requests.                                                 *)
LEMMA SchedulerStepRefines ==
    ASSUME TypeOK, SchedulerStep \/ Crash
    PROVE  [Permit!Next]_Permit!permitVars
<1>1. ASSUME NEW p \in Posts, LateFailWrite(p) PROVE [Permit!Next]_Permit!permitVars
  BY <1>1, UnschedulingError, UnschedulingRefines DEF LateFailWrite, historyVars, TypeOK
<1>2. CASE Environment
  <2>1. UNCHANGED <<post, scheduled, attempted, worker>>
    BY <1>2 DEF Environment, RecoverStalledJob, EvictFailedRetry, PlatformActs, historyVars
  <2> QED BY <2>1, UnschedulingSame, UnschedulingRefines
<1> QED BY <1>1, <1>2, CallStepRefines, WorkerStepRefines, CrashRefines DEF SchedulerStep

LEMMA StepRefines ==
    ASSUME TypeOK, [Next]_schedulerVars
    PROVE  [Permit!Next]_Permit!permitVars
<1>1. ASSUME NEW c \in Calls, NEW p \in Posts, Request(c, p)
      PROVE  UNCHANGED <<post, scheduled, attempted, worker>>
  BY <1>1 DEF Request, SchedulePost, PublishImmediately, CancelScheduledPost, StartCall, historyVars
<1>2. CASE UNCHANGED <<post, scheduled, attempted, worker>>
  BY <1>2, UnschedulingSame, UnschedulingRefines
<1> QED BY <1>1, <1>2, SchedulerStepRefines DEF Next, schedulerVars

(* The scheduler implements the abstract specification PublishPermit: writes   *)
(* of SCHEDULED put a post on the schedule, the worker's PUBLISHING write      *)
(* claims it, each publication uses a claim of its own, and a post taken off   *)
(* the schedule before its claim is not published.                             *)
THEOREM Refinement == Spec => ImplementsPermit
<1>1. Init => Permit!Init
  BY DEF Init, InitWith, NewRow, IdleWorker, OnSchedule, Claimed, Permit!Init
<1>2. TypeOK /\ [Next]_schedulerVars => [Permit!Next]_Permit!permitVars
  BY StepRefines
<1> QED BY <1>1, <1>2, TypeCorrect, PTL DEF Spec, ImplementsPermit, Permit!Spec

-------------------------------------------------------------------------------
(* A post called PUBLISHED is on the platform: the inductive invariant.        *)

(* Who has the object i of p in hand: a request or the worker that made it and *)
(* will write it in the row, a cancel that will delete it.                     *)
Saves(c, p, i) ==
    /\ call[c].post = p /\ call[c].obj = i
    /\ call[c].pc \in {"saveScheduled", "savePublished"}
WorkerSaves(p, i) == worker.pc = "savePublished" /\ JobPost = p /\ worker.obj = i
Deletes(c, p, i) == call[c].pc = "cancel" /\ call[c].post = p /\ call[c].obj = i

IsLive(p, i) == i \in DOMAIN platform[p] /\ platform[p][i] = "live"

(* A row that says PUBLISHED names an object that is live, and so will one     *)
(* that is about to say so.                                                    *)
Alive(p) ==
    /\ post[p].status = "PUBLISHED" => IsLive(p, post[p].platformPostId)
    /\ \A c \in Calls : call[c].pc = "savePublished" /\ call[c].post = p => IsLive(p, call[c].obj)
    /\ worker.pc = "savePublished" /\ JobPost = p => IsLive(p, worker.obj)

(* An object that a cancel would delete even when it is live was named by the  *)
(* row first: nobody has it in hand any more, and the row either names another *)
(* or no longer says PUBLISHED.                                                *)
Owned(p, i) ==
    /\ \A c, d \in Calls : Saves(c, p, i) /\ Saves(d, p, i) => c = d
    /\ \A c \in Calls : ~(Saves(c, p, i) /\ WorkerSaves(p, i))
    /\ WorkerSaves(p, i) \/ (\E c \in Calls : Saves(c, p, i)) =>
          i # post[p].platformPostId /\ \A d \in Calls : ~Deletes(d, p, i)
    /\ post[p].status = "PUBLISHED" /\ i = post[p].platformPostId =>
          \A d \in Calls : ~Deletes(d, p, i)
    /\ \/ WorkerSaves(p, i)
       \/ i = post[p].platformPostId
       \/ \E c \in Calls : Saves(c, p, i) \/ Deletes(c, p, i)
       => i <= Len(platform[p])

PostLive(p) ==
    Alive(p) /\ (post[p].route # "INSTAGRAM_CONTAINER" => \A i \in Nat \ {0} : Owned(p, i))

(* Only posts of the container's route have containers, in their requests and  *)
(* in their jobs, and metadata name the route of their post.                   *)
CallRoute(c) ==
    LET p == call[c].post IN
    /\ call[c].metadata.method \in {"NONE", post[p].route}
    /\ call[c].pc = "container" => post[p].route = "INSTAGRAM_CONTAINER"
    /\ call[c].pc = "enqueue" /\ call[c].obj # 0 =>
          post[p].route = "INSTAGRAM_CONTAINER" /\ call[c].obj \in DOMAIN platform[p]

JobRoute(id) ==
    queue[id].containerId # 0 =>
       /\ post[id[1]].route = "INSTAGRAM_CONTAINER"
       /\ queue[id].containerId \in DOMAIN platform[id[1]]

RouteInv ==
    /\ \A p \in Posts : post[p].metadata.method \in {"NONE", post[p].route}
    /\ \A c \in Calls : CallRoute(c)
    /\ worker.metadata.method \in {"NONE", post[JobPost].route}
    /\ \A id \in JobIds : JobRoute(id)

LiveInv == RouteInv /\ \A p \in Posts : PostLive(p)

-------------------------------------------------------------------------------
(* Steps that take nothing in hand and delete nothing.                         *)

(* The row does not become PUBLISHED or name another object.                   *)
RowQuiet(p) ==
    /\ post'[p].route = post[p].route
    /\ post'[p].platformPostId \in {post[p].platformPostId, 0}
    /\ post'[p].status = "PUBLISHED" =>
          post[p].status = "PUBLISHED" /\ post'[p].platformPostId = post[p].platformPostId

(* The request takes no object of p in hand that it had not before, but the    *)
(* container to be saved.                                                      *)
CallQuiet(c, p) ==
    \/ call'[c].pc = call[c].pc /\ call'[c].post = call[c].post /\ call'[c].obj = call[c].obj
    \/ call'[c].pc \notin {"saveScheduled", "savePublished", "cancel"}
    \/ call'[c].post # p
    \/ call'[c].pc = "cancel" /\ call'[c].obj = 0
    \/ call'[c].pc = "saveScheduled"
       /\ (call'[c].obj = 0 \/ post[p].route = "INSTAGRAM_CONTAINER")

WorkerQuiet(p) == worker' = worker \/ worker'.pc # "savePublished" \/ JobPost' # p

(* What is live stays live, and no object is lost.                             *)
PlatformKept(p) ==
    /\ Len(platform[p]) \in Nat /\ Len(platform'[p]) \in Nat
    /\ Len(platform[p]) <= Len(platform'[p])
    /\ \A i : IsLive(p, i) => IsLive(p, i)'

LEMMA QuietPost ==
    ASSUME TypeOK, NEW p \in Posts, PostLive(p), RowQuiet(p), WorkerQuiet(p), PlatformKept(p),
           \A c \in Calls : CallQuiet(c, p)
    PROVE  PostLive(p)'
<1>1. Alive(p)'
  <2>1. \A c \in Calls : call'[c].pc = "savePublished" /\ call'[c].post = p =>
           call[c].pc = "savePublished" /\ call[c].post = p /\ call'[c].obj = call[c].obj
    BY DEF CallQuiet
  <2>2. worker'.pc = "savePublished" /\ JobPost' = p =>
           worker.pc = "savePublished" /\ JobPost = p /\ worker'.obj = worker.obj
    BY DEF WorkerQuiet, JobPost
  <2>3. Alive(p)
    BY DEF PostLive
  <2> QED BY <2>1, <2>2, <2>3 DEF Alive, RowQuiet, PlatformKept
<1>2. ASSUME post'[p].route # "INSTAGRAM_CONTAINER", NEW i \in Nat \ {0} PROVE Owned(p, i)'
  <2>1. Owned(p, i) /\ post[p].route # "INSTAGRAM_CONTAINER"
    BY <1>2 DEF PostLive, RowQuiet
  <2>2. \A c \in Calls : Saves(c, p, i)' => Saves(c, p, i)
    BY <1>2, <2>1 DEF Saves, CallQuiet
  <2>3. \A c \in Calls : Deletes(c, p, i)' => Deletes(c, p, i)
    BY <1>2 DEF Deletes, CallQuiet
  <2>4. WorkerSaves(p, i)' => WorkerSaves(p, i)
    BY DEF WorkerSaves, WorkerQuiet, JobPost
  <2>5. i = post'[p].platformPostId => i = post[p].platformPostId
    BY <1>2 DEF RowQuiet
  <2>6. post'[p].status = "PUBLISHED" => post[p].status = "PUBLISHED"
    BY DEF RowQuiet
  <2>7. i <= Len(platform[p]) => i <= Len(platform'[p])
    BY DEF PlatformKept
  <2>8. post'[p].status = "PUBLISHED" => post'[p].platformPostId = post[p].platformPostId
    BY DEF RowQuiet
  <2> QED BY <2>1, <2>2, <2>3, <2>4, <2>5, <2>6, <2>7, <2>8 DEF Owned
<1> QED BY <1>1, <1>2 DEF PostLive

(* Rows, objects or the worker left alone are quiet.                           *)
LEMMA Unchanging ==
    ASSUME TypeOK, NEW p \in Posts
    PROVE  /\ platform'[p] = platform[p] => PlatformKept(p)
           /\ post'[p] = post[p] => RowQuiet(p)
           /\ Len(platform[p]) \in Nat /\ DOMAIN platform[p] = 1..Len(platform[p])
<1>1. platform[p] \in Seq(ObjectState)
  BY DEF TypeOK
<1>2. Len(platform[p]) \in Nat /\ DOMAIN platform[p] = 1..Len(platform[p])
  BY <1>1
<1>3. ASSUME platform'[p] = platform[p] PROVE PlatformKept(p)
  BY <1>2, <1>3 DEF PlatformKept, IsLive
<1>4. post'[p] = post[p] => RowQuiet(p)
  BY DEF RowQuiet
<1> QED BY <1>2, <1>3, <1>4

(* A new object is the last, and changes no other.                             *)
LEMMA Appended ==
    ASSUME TypeOK, NEW p \in Posts, NEW x \in ObjectState,
           platform' = [platform EXCEPT ![p] = Append(@, x)]
    PROVE  /\ \A q \in Posts : PlatformKept(q)
           /\ NewId(p) \in Nat \ {0} /\ Len(platform[p]) \in Nat
           /\ NewId(p) = Len(platform[p]) + 1 /\ Len(platform'[p]) = NewId(p)
           /\ NewId(p) \in DOMAIN platform'[p] /\ platform'[p][NewId(p)] = x
           /\ x = "live" => \A i : i = NewId(p) => IsLive(p, i)'
<1>1. platform \in [Posts -> Seq(ObjectState)] /\ platform[p] \in Seq(ObjectState)
  BY DEF TypeOK
<1>2. platform'[p] = Append(platform[p], x) /\ \A q \in Posts \ {p} : platform'[q] = platform[q]
  BY <1>1
<1>3. ASSUME NEW s \in Seq(ObjectState)
      PROVE  /\ Append(s, x) \in Seq(ObjectState) /\ Len(s) \in Nat /\ Len(Append(s, x)) = Len(s) + 1
             /\ DOMAIN s = 1..Len(s) /\ DOMAIN Append(s, x) = 1..(Len(s) + 1)
             /\ \A i \in DOMAIN s : Append(s, x)[i] = s[i]
             /\ Append(s, x)[Len(s) + 1] = x
  OBVIOUS
<1>4. /\ Len(platform[p]) \in Nat /\ Len(platform'[p]) = Len(platform[p]) + 1
      /\ DOMAIN platform[p] = 1..Len(platform[p]) /\ DOMAIN platform'[p] = 1..(Len(platform[p]) + 1)
      /\ \A i \in DOMAIN platform[p] : platform'[p][i] = platform[p][i]
      /\ platform'[p][Len(platform[p]) + 1] = x
  BY <1>1, <1>2, <1>3
<1>5. PlatformKept(p)
  BY <1>4 DEF PlatformKept, IsLive
<1>6. \A q \in Posts : PlatformKept(q)
  BY <1>2, <1>5, Unchanging
<1>7. NewId(p) = Len(platform[p]) + 1
  BY DEF NewId
<1>8. NewId(p) \in DOMAIN platform'[p]
  BY <1>4, <1>7
<1>9. x = "live" => \A i : i = NewId(p) => IsLive(p, i)'
  BY <1>4, <1>7, <1>8 DEF IsLive
<1> QED BY <1>4, <1>6, <1>7, <1>8, <1>9

-------------------------------------------------------------------------------
(* Steps that take an object in hand, write it in the row or delete it.        *)

(* A request made the object it will write.                                    *)
LEMMA CallMakes ==
    ASSUME TypeOK, NEW c \in Calls, NEW p \in Posts, PostLive(p), NEW x \in ObjectState,
           platform' = [platform EXCEPT ![p] = Append(@, x)],
           post' = post, worker' = worker, \A d \in Calls \ {c} : call'[d] = call[d],
           call'[c].post = p, call'[c].obj = NewId(p),
           \/ call'[c].pc = "saveScheduled"
           \/ call'[c].pc = "savePublished" /\ x = "live"
    PROVE  PostLive(p)'
<1> PICK n \in Nat \ {0} : n = NewId(p)
  BY Appended
<1>1. /\ PlatformKept(p) /\ Len(platform[p]) \in Nat /\ n = Len(platform[p]) + 1
      /\ Len(platform'[p]) = n /\ (x = "live" => IsLive(p, n)')
  BY Appended
<1>2. Alive(p)'
  BY <1>1 DEF PostLive, Alive, PlatformKept, JobPost
<1>3. ASSUME post'[p].route # "INSTAGRAM_CONTAINER", NEW i \in Nat \ {0} PROVE Owned(p, i)'
  <2>1. Owned(p, i)
    BY <1>3 DEF PostLive
  <2>2. \A d \in Calls \ {c} : /\ Saves(d, p, i)' <=> Saves(d, p, i)
                               /\ Deletes(d, p, i)' <=> Deletes(d, p, i)
    BY DEF Saves, Deletes
  <2>3. ~Deletes(c, p, i)' /\ (WorkerSaves(p, i)' <=> WorkerSaves(p, i))
    BY DEF Deletes, WorkerSaves, JobPost
  <2>4. CASE i = n
    <3>1. ~(i <= Len(platform[p])) /\ i <= Len(platform'[p])
      BY <1>1, <2>4
    <3>2. /\ ~WorkerSaves(p, i) /\ i # post[p].platformPostId
          /\ \A d \in Calls : ~Saves(d, p, i) /\ ~Deletes(d, p, i)
      BY <2>1, <3>1 DEF Owned
    <3> QED BY <2>2, <2>3, <3>1, <3>2 DEF Owned
  <2>5. CASE i # n
    <3>1. ~Saves(c, p, i)'
      BY <2>5 DEF Saves
    <3>2. i <= Len(platform[p]) => i <= Len(platform'[p])
      BY <1>1
    <3> QED BY <2>1, <2>2, <2>3, <3>1, <3>2 DEF Owned
  <2> QED BY <2>4, <2>5
<1> QED BY <1>2, <1>3 DEF PostLive

(* So does the worker, unless it publishes a container.                        *)
LEMMA WorkerMakes ==
    ASSUME TypeOK, NEW p \in Posts, PostLive(p), p = JobPost', NEW n \in Nat \ {0},
           post' = post, call' = call, PlatformKept(p), IsLive(p, n)',
           worker.pc # "savePublished", worker'.pc = "savePublished", worker'.obj = n,
           \/ post[p].route = "INSTAGRAM_CONTAINER"
           \/ n = NewId(p) /\ Len(platform'[p]) = n
    PROVE  PostLive(p)'
<1>1. Alive(p)'
  BY DEF PostLive, Alive, PlatformKept
<1>2. ASSUME post'[p].route # "INSTAGRAM_CONTAINER", NEW i \in Nat \ {0} PROVE Owned(p, i)'
  <2>1. Owned(p, i) /\ n = Len(platform[p]) + 1 /\ Len(platform[p]) \in Nat /\ Len(platform'[p]) = n
    BY <1>2, Unchanging DEF PostLive, NewId
  <2>2. \A d \in Calls : /\ Saves(d, p, i)' <=> Saves(d, p, i)
                         /\ Deletes(d, p, i)' <=> Deletes(d, p, i)
    BY DEF Saves, Deletes
  <2>3. WorkerSaves(p, i)' <=> i = n
    BY DEF WorkerSaves
  <2>4. CASE i = n
    <3>1. ~(i <= Len(platform[p])) /\ i <= Len(platform'[p])
      BY <2>1, <2>4
    <3>2. /\ i # post[p].platformPostId
          /\ \A d \in Calls : ~Saves(d, p, i) /\ ~Deletes(d, p, i)
      BY <2>1, <3>1 DEF Owned
    <3> QED BY <2>2, <2>3, <3>1, <3>2 DEF Owned
  <2>5. CASE i # n
    <3>1. i <= Len(platform[p]) => i <= Len(platform'[p])
      BY <2>1
    <3> QED BY <2>1, <2>2, <2>3, <2>5, <3>1 DEF Owned
  <2> QED BY <2>4, <2>5
<1> QED BY <1>1, <1>2 DEF PostLive

(* A request writes the object it made in the row.                             *)
LEMMA CallSaves ==
    ASSUME TypeOK, NEW c \in Calls, NEW p \in Posts, PostLive(p), call[c].post = p,
           platform' = platform, worker' = worker, \A d \in Calls \ {c} : call'[d] = call[d],
           call'[c].pc = "idle", post'[p].route = post[p].route,
           \/ /\ call[c].pc = "saveScheduled" /\ post'[p].status = "SCHEDULED"
              /\ post'[p].platformPostId \in {post[p].platformPostId, call[c].obj}
           \/ /\ call[c].pc = "savePublished" /\ post'[p].platformPostId = call[c].obj
    PROVE  PostLive(p)'
<1>1. \A i : IsLive(p, i) => IsLive(p, i)'
  BY DEF IsLive
<1>2. Alive(p)'
  BY <1>1 DEF PostLive, Alive, JobPost
<1>3. ASSUME post'[p].route # "INSTAGRAM_CONTAINER", NEW i \in Nat \ {0} PROVE Owned(p, i)'
  <2>1. Owned(p, i)
    BY <1>3 DEF PostLive
  <2>2. \A d \in Calls \ {c} : /\ Saves(d, p, i)' <=> Saves(d, p, i)
                               /\ Deletes(d, p, i)' <=> Deletes(d, p, i)
    BY DEF Saves, Deletes
  <2>3. /\ ~Deletes(c, p, i)' /\ ~Saves(c, p, i)' /\ ~Deletes(c, p, i)
        /\ WorkerSaves(p, i)' <=> WorkerSaves(p, i)
        /\ Saves(c, p, i) <=> i = call[c].obj
    BY DEF Deletes, Saves, WorkerSaves, JobPost
  <2>4. i <= Len(platform'[p]) <=> i <= Len(platform[p])
    OBVIOUS
  <2>5. CASE i = call[c].obj
    <3>1. Saves(c, p, i)
      BY <2>3, <2>5
    <3>2. /\ \A d \in Calls \ {c} : ~Saves(d, p, i)
          /\ ~WorkerSaves(p, i) /\ i <= Len(platform[p])
          /\ \A d \in Calls : ~Deletes(d, p, i)
      BY <2>1, <3>1 DEF Owned
    <3> QED BY <2>2, <2>3, <2>4, <3>2 DEF Owned
  <2>6. CASE i # call[c].obj
    <3>1. i = post'[p].platformPostId => i = post[p].platformPostId /\ post'[p].status = "SCHEDULED"
      BY <2>6
    <3>2. /\ post'[p].status = "PUBLISHED" /\ i = post'[p].platformPostId => FALSE
      BY <3>1
    <3> QED BY <2>1, <2>2, <2>3, <2>4, <3>1, <3>2 DEF Owned
  <2> QED BY <2>5, <2>6
<1> QED BY <1>2, <1>3 DEF PostLive

(* And so does the worker.                                                     *)
LEMMA WorkerWrites ==
    ASSUME TypeOK, NEW p \in Posts, PostLive(p), JobPost = p, worker.pc = "savePublished",
           platform' = platform, call' = call, worker'.pc = "idle",
           post'[p].route = post[p].route, post'[p].platformPostId = worker.obj
    PROVE  PostLive(p)'
<1>1. \A i : IsLive(p, i) => IsLive(p, i)'
  BY DEF IsLive
<1>2. Alive(p)'
  BY <1>1 DEF PostLive, Alive
<1>3. ASSUME post'[p].route # "INSTAGRAM_CONTAINER", NEW i \in Nat \ {0} PROVE Owned(p, i)'
  <2>1. Owned(p, i)
    BY <1>3 DEF PostLive
  <2>2. \A d \in Calls : /\ Saves(d, p, i)' <=> Saves(d, p, i)
                         /\ Deletes(d, p, i)' <=> Deletes(d, p, i)
    BY DEF Saves, Deletes
  <2>3. ~WorkerSaves(p, i)' /\ (WorkerSaves(p, i) <=> i = worker.obj)
    BY DEF WorkerSaves
  <2>4. i <= Len(platform'[p]) <=> i <= Len(platform[p])
    OBVIOUS
  <2> QED BY <2>1, <2>2, <2>3, <2>4 DEF Owned
<1> QED BY <1>2, <1>3 DEF PostLive

(* A cancel begins: of a post without container it will delete at most what    *)
(* the row names, and the row says SCHEDULED.                                  *)
LEMMA CallCancels ==
    ASSUME TypeOK, NEW c \in Calls, NEW p \in Posts, PostLive(p),
           UNCHANGED <<post, platform, worker>>, \A d \in Calls \ {c} : call'[d] = call[d],
           call'[c].pc = "cancel",
           \/ post[p].route = "INSTAGRAM_CONTAINER"
           \/ call'[c].obj = 0
           \/ post[p].status = "SCHEDULED" /\ call'[c].obj = post[p].platformPostId
    PROVE  PostLive(p)'
<1>1. \A i : IsLive(p, i) => IsLive(p, i)'
  BY DEF IsLive
<1>2. Alive(p)'
  BY <1>1 DEF PostLive, Alive, JobPost
<1>3. ASSUME post'[p].route # "INSTAGRAM_CONTAINER", NEW i \in Nat \ {0} PROVE Owned(p, i)'
  <2>1. Owned(p, i)
    BY <1>3 DEF PostLive
  <2>2. \A d \in Calls \ {c} : /\ Saves(d, p, i)' <=> Saves(d, p, i)
                               /\ Deletes(d, p, i)' <=> Deletes(d, p, i)
    BY DEF Saves, Deletes
  <2>3. /\ ~Saves(c, p, i)' /\ (WorkerSaves(p, i)' <=> WorkerSaves(p, i))
        /\ Deletes(c, p, i)' => post[p].status = "SCHEDULED" /\ i = post[p].platformPostId
    BY <1>3 DEF Deletes, Saves, WorkerSaves, JobPost
  <2>4. i <= Len(platform'[p]) <=> i <= Len(platform[p])
    OBVIOUS
  <2> QED BY <2>1, <2>2, <2>3, <2>4 DEF Owned
<1> QED BY <1>2, <1>3 DEF PostLive

(* A cancel deletes: nobody needs what it had in hand.                         *)
LEMMA CallDeletes ==
    ASSUME TypeOK, NEW c \in Calls, CancelPlatformResources(c), NEW p \in Posts, call[c].post = p,
           PostLive(p)
    PROVE  PostLive(p)'
<1> DEFINE s == platform[p]
           i == call[c].obj
<1>1. /\ call[c].pc = "cancel" /\ UNCHANGED <<post, worker>>
      /\ \A d \in Calls \ {c} : call'[d] = call[d]
      /\ call'[c].pc = "cancel" /\ call'[c].obj = 0 /\ call'[c].post = p
  BY DEF CancelPlatformResources, TypeOK, Call
<1>2. \A d \in Calls : CallQuiet(d, p)
  BY <1>1 DEF CallQuiet
<1>3. RowQuiet(p) /\ WorkerQuiet(p)
  BY <1>1 DEF RowQuiet, WorkerQuiet
<1>4. CASE UNCHANGED platform
  BY <1>2, <1>3, <1>4, Unchanging, QuietPost
<1>5. CASE i \in DOMAIN s /\ platform' = [platform EXCEPT ![p][i] = Deleted(@, post[p].route)]
  <2>1. s \in Seq(ObjectState) /\ platform \in [Posts -> Seq(ObjectState)]
    BY DEF TypeOK
  <2>2. platform'[p] = [s EXCEPT ![i] = Deleted(s[i], post[p].route)]
    BY <1>5, <2>1
  <2>3. /\ Len(platform'[p]) = Len(s) /\ Len(s) \in Nat /\ DOMAIN platform'[p] = DOMAIN s
        /\ DOMAIN s = 1..Len(s)
        /\ platform'[p][i] = Deleted(s[i], post[p].route)
        /\ \A j \in DOMAIN s \ {i} : platform'[p][j] = s[j]
    BY <1>5, <2>1, <2>2
  <2>4. CASE post[p].route = "INSTAGRAM_CONTAINER"
    <3>1. s[i] = "live" => platform'[p][i] = "live"
      BY <2>3, <2>4 DEF Deleted
    <3>2. PlatformKept(p)
      BY <2>3, <3>1 DEF PlatformKept, IsLive
    <3> QED BY <1>2, <1>3, <3>2, QuietPost
  <2>5. CASE post[p].route # "INSTAGRAM_CONTAINER"
    <3>1. i \in Nat \ {0} /\ Deletes(c, p, i)
      BY <1>1, <1>5, <2>3 DEF Deletes
    <3>2. Alive(p) /\ Owned(p, i)
      BY <2>5, <3>1 DEF PostLive
    <3>3. \A j : IsLive(p, j) /\ j # i => IsLive(p, j)'
      BY <2>3 DEF IsLive
    <3>4. Alive(p)'
      <4>1. post'[p].status = "PUBLISHED" => IsLive(p, post[p].platformPostId) /\ post[p].platformPostId # i
        BY <1>1, <3>1, <3>2 DEF Alive, Owned
      <4>2. \A d \in Calls : call'[d].pc = "savePublished" /\ call'[d].post = p =>
               call'[d].obj = call[d].obj /\ IsLive(p, call[d].obj) /\ call[d].obj # i
        BY <1>1, <3>1, <3>2 DEF Alive, Owned, Saves
      <4>3. worker.pc = "savePublished" /\ JobPost = p => IsLive(p, worker.obj) /\ worker.obj # i
        BY <3>1, <3>2 DEF Alive, Owned, WorkerSaves
      <4> QED BY <1>1, <3>3, <4>1, <4>2, <4>3 DEF Alive, JobPost
    <3>5. ASSUME NEW j \in Nat \ {0} PROVE Owned(p, j)'
      <4>1. Owned(p, j)
        BY <2>5 DEF PostLive
      <4>2. \A d \in Calls : /\ Saves(d, p, j)' => Saves(d, p, j)
                             /\ Deletes(d, p, j)' => Deletes(d, p, j)
        BY <1>1 DEF Saves, Deletes
      <4>3. WorkerSaves(p, j)' <=> WorkerSaves(p, j)
        BY <1>1 DEF WorkerSaves, JobPost
      <4>4. j <= Len(platform'[p]) <=> j <= Len(platform[p])
        BY <2>3
      <4> QED BY <1>1, <4>1, <4>2, <4>3, <4>4 DEF Owned
    <3> QED BY <3>4, <3>5 DEF PostLive
  <2> QED BY <2>4, <2>5
<1> QED BY <1>4, <1>5 DEF CancelPlatformResources

-------------------------------------------------------------------------------
(* The steps of the scheduler, one part of the state at a time.                *)

(* The metadata written name the route of their post, which never changes.     *)
RowsRouted ==
    \A p \in Posts : /\ post'[p].route = post[p].route
                     /\ post'[p].metadata.method \in {post[p].metadata.method, "NONE", post[p].route}
CallsRouted == \A c \in Calls : call'[c] = call[c] \/ CallRoute(c)'
WorkerRouted ==
    \/ worker' = worker
    \/ worker'.metadata.method = "NONE"
    \/ worker'.metadata.method \in {"NONE", post[worker'.job[1]].route}
JobsRouted ==
    \A id \in JobIds : queue'[id].containerId \in {0, queue[id].containerId} \/ JobRoute(id)'
NoneLost == \A p \in Posts : Len(platform[p]) <= Len(platform'[p])

LEMMA RouteStep ==
    ASSUME TypeOK, TypeOK', RouteInv, RowsRouted, CallsRouted, WorkerRouted, JobsRouted, NoneLost
    PROVE  RouteInv'
<1>1. \A p \in Posts : DOMAIN platform[p] \subseteq DOMAIN platform'[p]
  <2>1. ASSUME NEW s \in Seq(ObjectState) PROVE Len(s) \in Nat /\ DOMAIN s = 1..Len(s)
    OBVIOUS
  <2>2. \A p \in Posts : platform[p] \in Seq(ObjectState) /\ platform'[p] \in Seq(ObjectState)
    BY DEF TypeOK
  <2> SUFFICES ASSUME NEW p \in Posts PROVE DOMAIN platform[p] \subseteq DOMAIN platform'[p]
    OBVIOUS
  <2>3. /\ Len(platform[p]) \in Nat /\ DOMAIN platform[p] = 1..Len(platform[p])
        /\ Len(platform'[p]) \in Nat /\ DOMAIN platform'[p] = 1..Len(platform'[p])
    BY <2>1, <2>2
  <2>4. Len(platform[p]) <= Len(platform'[p])
    BY DEF NoneLost
  <2> QED BY <2>3, <2>4
<1>2. \A p \in Posts : post'[p].metadata.method \in {"NONE", post'[p].route}
  BY DEF RouteInv, RowsRouted
<1>3. ASSUME NEW c \in Calls PROVE CallRoute(c)'
  <2>1. CASE call'[c] = call[c]
    <3>1. call[c].post \in Posts
      BY DEF TypeOK, Call
    <3> QED BY <1>1, <2>1, <3>1 DEF RouteInv, CallRoute, RowsRouted
  <2> QED BY <2>1 DEF CallsRouted
<1>4. worker'.metadata.method \in {"NONE", post'[JobPost'].route}
  <2>1. JobPost' \in Posts /\ JobPost \in Posts
    BY WorkerTypes DEF TypeOK, Worker, JobIds, JobPost
  <2> QED BY <2>1 DEF WorkerRouted, RowsRouted, RouteInv, JobPost
<1>5. ASSUME NEW id \in JobIds PROVE JobRoute(id)'
  <2>1. id[1] \in Posts
    BY DEF JobIds
  <2>2. CASE queue'[id].containerId \in {0, queue[id].containerId}
    BY <1>1, <2>1, <2>2 DEF RouteInv, JobRoute, RowsRouted
  <2> QED BY <2>2 DEF JobsRouted
<1> QED BY <1>2, <1>3, <1>4, <1>5 DEF RouteInv

(* A step that writes no other row, queues no job and moves no worker.         *)
LEMMA SameRouted ==
    ASSUME TypeOK
    PROVE  /\ post' = post => RowsRouted /\ \A p \in Posts : RowQuiet(p)
           /\ worker' = worker => WorkerRouted /\ \A p \in Posts : WorkerQuiet(p)
           /\ queue' = queue => JobsRouted
           /\ platform' = platform => NoneLost /\ \A p \in Posts : PlatformKept(p)
           /\ call' = call => CallsRouted /\ \A p \in Posts, c \in Calls : CallQuiet(c, p)
           /\ (\A p \in Posts : PlatformKept(p)) => NoneLost
<1>1. platform' = platform => \A p \in Posts : PlatformKept(p)
  BY Unchanging
<1>2. (\A p \in Posts : PlatformKept(p)) => NoneLost
  BY DEF NoneLost, PlatformKept
<1>3. post' = post => RowsRouted /\ \A p \in Posts : RowQuiet(p)
  BY Unchanging DEF RowsRouted
<1>4. worker' = worker => WorkerRouted /\ \A p \in Posts : WorkerQuiet(p)
  BY DEF WorkerRouted, WorkerQuiet
<1>5. queue' = queue => JobsRouted
  BY DEF JobsRouted
<1>6. call' = call => CallsRouted /\ \A p \in Posts, c \in Calls : CallQuiet(c, p)
  BY DEF CallsRouted, CallQuiet
<1> QED BY <1>1, <1>2, <1>3, <1>4, <1>5, <1>6

(* How a request moves on.                                                     *)
LEMMA CallMoves ==
    ASSUME TypeOK, NEW c \in Calls
    PROVE  /\ \A pc \in CallPc : Goto(c, pc) =>
                 /\ call'[c].pc = pc /\ call'[c].obj = call[c].obj
                 /\ call'[c].post = call[c].post /\ call'[c].metadata = call[c].metadata
           /\ \A pc \in CallPc, i \in Nat : GotoWith(c, pc, i) =>
                 /\ call'[c].pc = pc /\ call'[c].obj = i
                 /\ call'[c].post = call[c].post /\ call'[c].metadata = call[c].metadata
           /\ Return(c) => call'[c].pc = "idle" /\ call'[c].metadata.method = "NONE"
           /\ \A pc, i : Goto(c, pc) \/ GotoWith(c, pc, i) \/ Return(c) =>
                 \A d \in Calls \ {c} : call'[d] = call[d]
           /\ call[c].post \in Posts /\ call[c].obj \in Nat /\ call[c].metadata \in Metadata
<1>1. call \in [Calls -> Call] /\ call[c] \in Call
  BY DEF TypeOK
<1>2. call[c].post \in Posts /\ call[c].obj \in Nat /\ call[c].metadata \in Metadata
  BY <1>1 DEF Call
<1>3. ASSUME NEW pc \in CallPc, Goto(c, pc)
      PROVE  /\ call'[c].pc = pc /\ call'[c].obj = call[c].obj
             /\ call'[c].post = call[c].post /\ call'[c].metadata = call[c].metadata
  <2>1. call'[c] = [call[c] EXCEPT !.pc = pc]
    BY <1>1, <1>3 DEF Goto
  <2> QED BY <1>1, <2>1 DEF Call
<1>4. ASSUME NEW pc \in CallPc, NEW i \in Nat, GotoWith(c, pc, i)
      PROVE  /\ call'[c].pc = pc /\ call'[c].obj = i
             /\ call'[c].post = call[c].post /\ call'[c].metadata = call[c].metadata
  <2>1. call'[c] = [call[c] EXCEPT !.pc = pc, !.obj = i]
    BY <1>1, <1>4 DEF GotoWith
  <2> QED BY <1>1, <2>1 DEF Call
<1>5. Return(c) => call'[c].pc = "idle" /\ call'[c].metadata.method = "NONE"
  BY <1>1 DEF Return, IdleCall, NoMetadata
<1>6. \A pc, i : Goto(c, pc) \/ GotoWith(c, pc, i) \/ Return(c) =>
         \A d \in Calls \ {c} : call'[d] = call[d]
  BY <1>1 DEF Goto, GotoWith, Return
<1> QED BY <1>2, <1>3, <1>4, <1>5, <1>6

(* A request that does not go to make a container or to queue.                 *)
LEMMA CallRouted ==
    ASSUME TypeOK, RouteInv, NEW c \in Calls, RowsRouted, \A d \in Calls \ {c} : call'[d] = call[d],
           \/ call'[c].post = call[c].post /\ call'[c].metadata = call[c].metadata
           \/ call'[c].metadata.method = "NONE",
           call'[c].pc \notin {"container", "enqueue"}
    PROVE  CallsRouted
<1>1. call[c].post \in Posts
  BY DEF TypeOK, Call
<1>2. CallRoute(c)'
  BY <1>1 DEF RouteInv, CallRoute, RowsRouted
<1> QED BY <1>2 DEF CallsRouted

(* The rows the scheduler writes.                                              *)
LEMMA RowFacts ==
    ASSUME NEW row \in Row, NEW i \in Nat, NEW m \in Metadata, NEW n \in Nat
    PROVE  /\ LET new == ScheduledRow(row, i)
              IN  /\ new.route = row.route /\ new.status = "SCHEDULED" /\ new.metadata.method = row.route
                  /\ new.platformPostId \in {row.platformPostId, i}
           /\ LET new == PublishedRow(row, i, m)
              IN  new.route = row.route /\ new.metadata = m /\ new.platformPostId = i
           /\ LET new == ClaimedRow(row, n)
              IN  /\ new.route = row.route /\ new.status = "PUBLISHING"
                  /\ new.metadata = row.metadata /\ new.platformPostId = row.platformPostId
           /\ LET new == FailedRow(row, n)
              IN  /\ new.route = row.route /\ new.status \in {row.status, "FAILED"}
                  /\ new.metadata = row.metadata /\ new.platformPostId = row.platformPostId
<1>1. LET new == ScheduledRow(row, i)
      IN  /\ new.route = row.route /\ new.status = "SCHEDULED" /\ new.metadata.method = row.route
          /\ new.platformPostId \in {row.platformPostId, i}
  BY DEF Row, Metadata, ScheduledRow
<1>2. LET new == PublishedRow(row, i, m)
      IN  new.route = row.route /\ new.metadata = m /\ new.platformPostId = i
  BY DEF Row, PublishedRow
<1>3. LET new == ClaimedRow(row, n)
      IN  /\ new.route = row.route /\ new.status = "PUBLISHING"
          /\ new.metadata = row.metadata /\ new.platformPostId = row.platformPostId
  BY DEF Row, ClaimedRow
<1>4. LET new == FailedRow(row, n)
      IN  /\ new.route = row.route /\ new.status \in {row.status, "FAILED"}
          /\ new.metadata = row.metadata /\ new.platformPostId = row.platformPostId
  BY DEF Row, FailedRow
<1> QED BY <1>1, <1>2, <1>3, <1>4

(* One row is written, and it is quiet; or only its status is.                 *)
LEMMA RowWrites ==
    ASSUME TypeOK, NEW p \in Posts, NEW row,
           row.route = post[p].route, row.metadata.method \in {post[p].metadata.method, "NONE", post[p].route},
           post' = [post EXCEPT ![p] = row]
    PROVE  /\ RowsRouted /\ \A q \in Posts \ {p} : RowQuiet(q)
           /\ /\ row.status # "PUBLISHED" \/ row.status = post[p].status
              /\ row.platformPostId = post[p].platformPostId
              => RowQuiet(p)
BY DEF TypeOK, RowsRouted, RowQuiet

LEMMA StatusWrites ==
    ASSUME TypeOK, NEW p \in Posts,
           \/ \E s \in PostStatus \ {"PUBLISHED"} : \E q : SetStatus(p, s, q)
           \/ HandleSchedulingError(p)
    PROVE  RowsRouted /\ \A q \in Posts : RowQuiet(q)
<1>1. ASSUME NEW s \in PostStatus \ {"PUBLISHED"}, NEW k, SetStatus(p, s, k)
      PROVE  RowsRouted /\ \A q \in Posts : RowQuiet(q)
  <2>1. post \in [Posts -> Row] /\ post[p] \in Row
    BY DEF TypeOK
  <2>2. post' = [post EXCEPT ![p] = [post[p] EXCEPT !.status = s, !.queueStatus = k]]
    BY <1>1, <2>1 DEF SetStatus
  <2> DEFINE row == [post[p] EXCEPT !.status = s, !.queueStatus = k]
  <2>3. /\ row.route = post[p].route /\ row.metadata = post[p].metadata
        /\ row.platformPostId = post[p].platformPostId /\ row.status # "PUBLISHED"
    BY <2>1 DEF Row
  <2> HIDE DEF row
  <2>4. post' = [post EXCEPT ![p] = row]
    BY <2>2 DEF row
  <2> QED BY <2>3, <2>4, RowWrites
<1>2. "FAILED" \in PostStatus \ {"PUBLISHED"}
  BY DEF PostStatus
<1>3. CASE UNCHANGED post
  BY <1>3, SameRouted
<1> QED BY <1>1, <1>2, <1>3 DEF HandleSchedulingError

-------------------------------------------------------------------------------
(* Every step of a request keeps the invariant.                                *)

LEMMA ScheduleStepLive ==
    ASSUME TypeOK, TypeOK', LiveInv, NEW c \in Calls,
           CreateContainer(c) \/ ScheduleNative(c) \/ QueueJob(c)
    PROVE  LiveInv'
<1> PICK p \in Posts : p = call[c].post
  BY CallMoves
<1> DEFINE n == NewId(p)
<1>0. RouteInv /\ (\A q \in Posts : PostLive(q)) /\ CallRoute(c)
  BY DEF LiveInv, RouteInv
<1>1. UNCHANGED <<post, worker>>
  BY DEF CreateContainer, ScheduleNative, QueueJob
<1>2. /\ RowsRouted /\ WorkerRouted
      /\ \A q \in Posts : RowQuiet(q) /\ WorkerQuiet(q)
  BY <1>1, SameRouted
<1>3. CASE SchedulingFails(c)
  <2>1. Return(c)
    BY <1>3 DEF SchedulingFails
  <2>2. call'[c].pc = "idle" /\ call'[c].metadata.method = "NONE" /\ \A d \in Calls \ {c} : call'[d] = call[d]
    BY <2>1, CallMoves
  <2>3. CallsRouted
    BY <1>0, <1>2, <2>2, CallRouted
  <2>4. \A q \in Posts, d \in Calls : CallQuiet(d, q)
    BY <2>2 DEF CallQuiet
  <2>5. (\A q \in Posts : PlatformKept(q)) /\ queue' = queue
    <3>1. ~Goto(c, "saveScheduled") /\ ~GotoWith(c, "enqueue", n)
      <4>1. call \in [Calls -> Call] /\ call[c] \in Call
        BY DEF TypeOK
      <4> QED BY <2>2, <4>1 DEF Call, Goto, GotoWith
    <3>2. CASE CreateContainer(c) \/ QueueJob(c)
      BY <3>1, <3>2, SameRouted DEF CreateContainer, QueueJob
    <3>3. CASE ScheduleNative(c) /\ UNCHANGED platform
      BY <3>3, SameRouted DEF ScheduleNative
    <3>4. CASE ScheduleNative(c) /\ platform' = [platform EXCEPT ![p] = Append(@, "scheduled")]
      <4>1. "scheduled" \in ObjectState
        BY DEF ObjectState
      <4> QED BY <3>4, <4>1, Appended DEF ScheduleNative
    <3> QED BY <3>2, <3>3, <3>4 DEF ScheduleNative
  <2>6. JobsRouted /\ NoneLost
    BY <2>5, SameRouted
  <2> QED BY <1>0, <1>2, <2>3, <2>4, <2>5, <2>6, QuietPost, RouteStep DEF LiveInv
<1>4. CASE /\ CreateContainer(c)
           /\ platform' = [platform EXCEPT ![p] = Append(@, "container")]
           /\ GotoWith(c, "enqueue", n)
  <2>1. /\ \A q \in Posts : PlatformKept(q)
        /\ n \in Nat \ {0} /\ n \in DOMAIN platform'[p]
    BY <1>4, Appended DEF ObjectState
  <2>2. /\ call'[c].pc = "enqueue" /\ call'[c].obj = n /\ call'[c].post = p
        /\ call'[c].metadata = call[c].metadata /\ \A d \in Calls \ {c} : call'[d] = call[d]
    BY <1>4, <2>1, CallMoves DEF CallPc
  <2>3. post[p].route = "INSTAGRAM_CONTAINER"
    BY <1>0, <1>4 DEF CreateContainer, CallRoute
  <2>4. CallsRouted
    BY <1>0, <1>1, <2>1, <2>2, <2>3 DEF CallsRouted, CallRoute
  <2>5. \A q \in Posts, d \in Calls : CallQuiet(d, q)
    BY <2>2 DEF CallQuiet
  <2>6. JobsRouted /\ NoneLost
    BY <1>4, <2>1, SameRouted DEF CreateContainer
  <2> QED BY <1>0, <1>2, <2>1, <2>4, <2>5, <2>6, QuietPost, RouteStep DEF LiveInv
<1>5. CASE /\ ScheduleNative(c)
           /\ platform' = [platform EXCEPT ![p] = Append(@, "scheduled")]
           /\ GotoWith(c, "saveScheduled", n)
  <2>1. "scheduled" \in ObjectState
    BY DEF ObjectState
  <2>2. (\A q \in Posts : PlatformKept(q)) /\ n \in Nat \ {0}
    BY <1>5, <2>1, Appended
  <2>3. /\ call'[c].pc = "saveScheduled" /\ call'[c].obj = n /\ call'[c].post = p
        /\ call'[c].metadata = call[c].metadata /\ \A d \in Calls \ {c} : call'[d] = call[d]
    BY <1>5, <2>2, CallMoves DEF CallPc
  <2>4. PostLive(p)'
    BY <1>0, <1>1, <1>5, <2>1, <2>3, CallMakes
  <2>5. \A q \in Posts \ {p} : PostLive(q)'
    <3>1. \A q \in Posts \ {p}, d \in Calls : CallQuiet(d, q)
      BY <2>3 DEF CallQuiet
    <3> QED BY <1>0, <1>2, <2>2, <3>1, QuietPost
  <2>6. CallsRouted
    BY <1>0, <1>2, <2>3, CallRouted
  <2>7. JobsRouted /\ NoneLost
    BY <1>5, <2>2, SameRouted DEF ScheduleNative
  <2> QED BY <1>0, <1>2, <2>4, <2>5, <2>6, <2>7, RouteStep DEF LiveInv
<1>6. CASE QueueJob(c) /\ AddJob(<<p, 0>>, call[c].obj) /\ Goto(c, "saveScheduled")
  <2>1. platform' = platform /\ call[c].pc = "enqueue"
    BY <1>6 DEF QueueJob
  <2>2. /\ call'[c].pc = "saveScheduled" /\ call'[c].obj = call[c].obj /\ call'[c].post = p
        /\ call'[c].metadata = call[c].metadata /\ \A d \in Calls \ {c} : call'[d] = call[d]
    BY <1>6, CallMoves DEF CallPc
  <2>3. call[c].obj # 0 =>
           post[p].route = "INSTAGRAM_CONTAINER" /\ call[c].obj \in DOMAIN platform[p]
    BY <1>0, <2>1 DEF CallRoute
  <2>4. \A q \in Posts, d \in Calls : CallQuiet(d, q)
    BY <2>2, <2>3 DEF CallQuiet
  <2>5. CallsRouted
    BY <1>0, <1>2, <2>2, CallRouted
  <2>6. JobsRouted
    <3>1. \A id \in JobIds : \/ queue'[id] = queue[id]
                             \/ id = <<p, 0>> /\ queue'[id].containerId = call[c].obj
      BY <1>6 DEF AddJob, TypeOK
    <3>2. ASSUME NEW id \in JobIds, id = <<p, 0>>, queue'[id].containerId = call[c].obj
          PROVE  JobRoute(id)'
      BY <1>1, <2>1, <2>3, <3>2 DEF JobRoute
    <3> QED BY <3>1, <3>2 DEF JobsRouted
  <2>7. NoneLost /\ \A q \in Posts : PlatformKept(q)
    BY <2>1, SameRouted
  <2> QED BY <1>0, <1>2, <2>4, <2>5, <2>6, <2>7, QuietPost, RouteStep DEF LiveInv
<1> QED BY <1>3, <1>4, <1>5, <1>6 DEF CreateContainer, ScheduleNative, QueueJob

LEMMA SaveStepLive ==
    ASSUME TypeOK, TypeOK', LiveInv, NEW c \in Calls,
           SaveScheduled(c) \/ UpdatePublishedPost(c), post' # post
    PROVE  LiveInv'
<1> PICK p \in Posts : p = call[c].post
  BY CallMoves
<1>0. RouteInv /\ (\A q \in Posts : PostLive(q)) /\ CallRoute(c)
  BY DEF LiveInv, RouteInv
<1>1. UNCHANGED <<queue, platform, worker>> /\ Return(c)
  BY DEF SaveScheduled, UpdatePublishedPost
<1>2. /\ JobsRouted /\ WorkerRouted /\ NoneLost
      /\ \A q \in Posts : PlatformKept(q) /\ WorkerQuiet(q)
  BY <1>1, SameRouted
<1>3. call'[c].pc = "idle" /\ call'[c].metadata.method = "NONE" /\ \A d \in Calls \ {c} : call'[d] = call[d]
  BY <1>1, CallMoves
<1>4. post[p] \in Row /\ call[c].obj \in Nat /\ call[c].metadata \in Metadata /\ 0 \in Nat
  BY CallMoves DEF TypeOK
<1>5. PICK row : post' = [post EXCEPT ![p] = row] /\
         (\/ call[c].pc = "saveScheduled" /\ row = ScheduledRow(post[p], call[c].obj)
          \/ call[c].pc = "savePublished" /\ row = PublishedRow(post[p], call[c].obj, call[c].metadata))
  BY DEF SaveScheduled, UpdatePublishedPost
<1>6. row.route = post[p].route /\ row.metadata.method \in {post[p].metadata.method, "NONE", post[p].route}
  BY <1>0, <1>4, <1>5, RowFacts DEF CallRoute
<1>7. /\ \/ call[c].pc = "saveScheduled" /\ row.status = "SCHEDULED"
            /\ row.platformPostId \in {post[p].platformPostId, call[c].obj}
         \/ call[c].pc = "savePublished" /\ row.platformPostId = call[c].obj
  BY <1>4, <1>5, RowFacts
<1>8. RowsRouted /\ \A q \in Posts \ {p} : RowQuiet(q)
  BY <1>5, <1>6, RowWrites
<1>9. post'[p] = row
  BY <1>5 DEF TypeOK
<1>10. PostLive(p)'
  BY <1>0, <1>1, <1>3, <1>6, <1>7, <1>9, CallSaves
<1>11. \A q \in Posts \ {p} : PostLive(q)'
  <2>1. \A q \in Posts \ {p}, d \in Calls : CallQuiet(d, q)
    BY <1>3 DEF CallQuiet
  <2> QED BY <1>0, <1>2, <1>8, <2>1, QuietPost
<1>12. CallsRouted
  BY <1>0, <1>3, <1>8, CallRouted
<1> QED BY <1>0, <1>2, <1>8, <1>10, <1>11, <1>12, RouteStep DEF LiveInv

(* The steps that write no object's id in a row.                               *)
LEMMA OtherCallStepLive ==
    ASSUME TypeOK, TypeOK', LiveInv, NEW c \in Calls,
           \/ SaveScheduled(c) /\ post' = post
           \/ UpdatePublishedPost(c) /\ post' = post
           \/ PublishImmediatelyFails(c)
           \/ RemoveQueueJobs(c)
           \/ MarkPostAsCancelled(c)
    PROVE  LiveInv'
<1>0. RouteInv /\ (\A q \in Posts : PostLive(q)) /\ call[c].post \in Posts
  BY CallMoves DEF LiveInv
<1>1. UNCHANGED <<platform, worker>>
  BY DEF SaveScheduled, UpdatePublishedPost, PublishImmediatelyFails, RemoveQueueJobs, MarkPostAsCancelled
<1>2. /\ WorkerRouted /\ NoneLost
      /\ \A q \in Posts : PlatformKept(q) /\ WorkerQuiet(q)
  BY <1>1, SameRouted
<1>3. RowsRouted /\ \A q \in Posts : RowQuiet(q)
  <2>1. CASE post' = post
    BY <2>1, SameRouted
  <2>2. CASE PublishImmediatelyFails(c)
    BY <1>0, <2>2, StatusWrites DEF PublishImmediatelyFails
  <2>3. CASE MarkPostAsCancelled(c)
    <3>1. "CANCELED" \in PostStatus \ {"PUBLISHED"}
      BY DEF PostStatus
    <3> QED BY <1>0, <2>1, <2>3, <3>1, StatusWrites DEF MarkPostAsCancelled
  <2> QED BY <2>1, <2>2, <2>3 DEF RemoveQueueJobs
<1>4. JobsRouted
  <2>1. CASE queue' = queue
    BY <2>1, SameRouted
  <2>2. CASE RemoveQueueJobs(c)
    BY <2>2 DEF RemoveQueueJobs, JobsRouted, NoJob
  <2> QED BY <2>1, <2>2
          DEF SaveScheduled, UpdatePublishedPost, PublishImmediatelyFails, MarkPostAsCancelled
<1>5. /\ \A d \in Calls \ {c} : call'[d] = call[d]
      /\ \/ call'[c].pc \in {"idle", "saveFailed"}
         \/ call'[c].pc = call[c].pc /\ call'[c].pc = "cancel" /\ call'[c].obj = call[c].obj
      /\ \/ call'[c].post = call[c].post /\ call'[c].metadata = call[c].metadata
         \/ call'[c].metadata.method = "NONE"
      /\ call'[c].pc = "cancel" => call'[c].post = call[c].post
  <2>1. CASE Return(c)
    BY <2>1, CallMoves
  <2>2. CASE UpdatePublishedPost(c) /\ GotoWith(c, "saveFailed", 0)
    BY <2>2, CallMoves DEF CallPc
  <2>3. CASE RemoveQueueJobs(c)
    BY <2>3 DEF RemoveQueueJobs, TypeOK, Call
  <2> QED BY <2>1, <2>2, <2>3 DEF SaveScheduled, SchedulingFails, UpdatePublishedPost,
             PublishImmediatelyFails, MarkPostAsCancelled
<1>6. \A q \in Posts, d \in Calls : CallQuiet(d, q)
  BY <1>5 DEF CallQuiet
<1>7. CallsRouted
  BY <1>0, <1>3, <1>5, CallRouted
<1> QED BY <1>0, <1>2, <1>3, <1>4, <1>6, <1>7, QuietPost, RouteStep DEF LiveInv

LEMMA CallPlatformLive ==
    ASSUME TypeOK, TypeOK', LiveInv, NEW c \in Calls, CallPlatform(c)
    PROVE  LiveInv'
<1> PICK p \in Posts : p = call[c].post
  BY CallMoves
<1>0. RouteInv /\ (\A q \in Posts : PostLive(q)) /\ "live" \in ObjectState
  BY DEF LiveInv, ObjectState
<1>1. UNCHANGED <<post, queue, worker>>
  BY DEF CallPlatform
<1>2. /\ RowsRouted /\ WorkerRouted /\ JobsRouted
      /\ \A q \in Posts : RowQuiet(q) /\ WorkerQuiet(q)
  BY <1>1, SameRouted
<1>3. \/ platform' = platform
      \/ platform' = [platform EXCEPT ![p] = Append(@, "live")]
  BY DEF CallPlatform
<1>4. (\A q \in Posts : PlatformKept(q)) /\ NoneLost
  BY <1>0, <1>3, Appended, SameRouted
<1>5. CASE Goto(c, "saveFailed")
  <2>1. /\ call'[c].pc = "saveFailed" /\ call'[c].post = call[c].post
        /\ call'[c].metadata = call[c].metadata /\ \A d \in Calls \ {c} : call'[d] = call[d]
    BY <1>5, CallMoves DEF CallPc
  <2>2. \A q \in Posts, d \in Calls : CallQuiet(d, q)
    BY <2>1 DEF CallQuiet
  <2>3. CallsRouted
    BY <1>0, <1>2, <2>1, CallRouted
  <2> QED BY <1>0, <1>2, <1>4, <2>2, <2>3, QuietPost, RouteStep DEF LiveInv
<1>6. CASE GotoWith(c, "savePublished", NewId(p)) /\ platform' = [platform EXCEPT ![p] = Append(@, "live")]
  <2>1. NewId(p) \in Nat
    BY <1>0, <1>6, Appended
  <2>2. /\ call'[c].pc = "savePublished" /\ call'[c].obj = NewId(p) /\ call'[c].post = p
        /\ call'[c].metadata = call[c].metadata /\ \A d \in Calls \ {c} : call'[d] = call[d]
    BY <1>6, <2>1, CallMoves DEF CallPc
  <2>3. PostLive(p)'
    BY <1>0, <1>1, <1>6, <2>2, CallMakes
  <2>4. \A q \in Posts \ {p} : PostLive(q)'
    <3>1. \A q \in Posts \ {p}, d \in Calls : CallQuiet(d, q)
      BY <2>2 DEF CallQuiet
    <3> QED BY <1>0, <1>2, <1>4, <3>1, QuietPost
  <2>5. CallsRouted
    BY <1>0, <1>2, <2>2, CallRouted
  <2> QED BY <1>0, <1>2, <1>4, <2>3, <2>4, <2>5, RouteStep DEF LiveInv
<1> QED BY <1>5, <1>6 DEF CallPlatform

LEMMA CancelResourcesLive ==
    ASSUME TypeOK, TypeOK', LiveInv, NEW c \in Calls, CancelPlatformResources(c)
    PROVE  LiveInv'
<1> PICK p \in Posts : p = call[c].post
  BY CallMoves
<1>0. RouteInv /\ (\A q \in Posts : PostLive(q))
  BY DEF LiveInv
<1>1. UNCHANGED <<post, queue, worker>>
  BY DEF CancelPlatformResources
<1>2. /\ RowsRouted /\ WorkerRouted /\ JobsRouted
      /\ \A q \in Posts : RowQuiet(q) /\ WorkerQuiet(q)
  BY <1>1, SameRouted
<1>3. /\ call'[c].pc = "cancel" /\ call'[c].obj = 0 /\ call'[c].post = call[c].post
      /\ call'[c].metadata = call[c].metadata /\ \A d \in Calls \ {c} : call'[d] = call[d]
  BY DEF CancelPlatformResources, TypeOK, Call
<1>4. CallsRouted /\ \A q \in Posts, d \in Calls : CallQuiet(d, q)
  BY <1>0, <1>2, <1>3, CallRouted DEF CallQuiet
<1>5. /\ \A q \in Posts \ {p} : platform'[q] = platform[q]
      /\ \A q \in Posts : Len(platform'[q]) = Len(platform[q])
  <2>1. platform \in [Posts -> Seq(ObjectState)]
    BY DEF TypeOK
  <2>2. CASE UNCHANGED platform
    BY <2>2
  <2>3. CASE /\ call[c].obj \in DOMAIN platform[p]
             /\ platform' = [platform EXCEPT ![p][call[c].obj] = Deleted(@, post[p].route)]
    <3>1. ASSUME NEW s \in Seq(ObjectState), NEW i, NEW x PROVE Len([s EXCEPT ![i] = x]) = Len(s)
      OBVIOUS
    <3> QED BY <2>1, <2>3, <3>1
  <2> QED BY <2>2, <2>3 DEF CancelPlatformResources
<1>6. NoneLost
  BY <1>5, Unchanging DEF NoneLost
<1>7. PostLive(p)'
  BY <1>0, CallDeletes
<1>8. \A q \in Posts \ {p} : PostLive(q)'
  BY <1>0, <1>2, <1>4, <1>5, Unchanging, QuietPost
<1> QED BY <1>0, <1>2, <1>4, <1>6, <1>7, <1>8, RouteStep DEF LiveInv

LEMMA CallStepLive ==
    ASSUME TypeOK, LiveInv, NEW c \in Calls, CallStep(c)
    PROVE  LiveInv'
<1>1. TypeOK'
  BY CallStepType
<1> QED BY <1>1, ScheduleStepLive, SaveStepLive, OtherCallStepLive, CallPlatformLive, CancelResourcesLive
        DEF CallStep

-------------------------------------------------------------------------------
(* So does every step of the worker.                                           *)

(* What it publishes is live, and nothing that was live is lost.               *)
LEMMA MadeLive ==
    ASSUME TypeOK, NEW p \in Posts, NEW i, MakeLive(p, i), i = NewId(p) \/ i \in DOMAIN platform[p]
    PROVE  /\ (\A q \in Posts : PlatformKept(q)) /\ IsLive(p, i)' /\ i \in Nat \ {0}
           /\ i = NewId(p) => Len(platform'[p]) = i
<1>1. Len(platform[p]) \in Nat /\ DOMAIN platform[p] = 1..Len(platform[p])
  BY Unchanging
<1>2. CASE i \in DOMAIN platform[p]
  <2>1. i \in Nat \ {0} /\ i # NewId(p)
    BY <1>1, <1>2 DEF NewId
  <2>2. platform[p] \in Seq(ObjectState) /\ platform \in [Posts -> Seq(ObjectState)]
    BY DEF TypeOK
  <2>3. platform' = [platform EXCEPT ![p] = [platform[p] EXCEPT ![i] = "live"]]
    BY <1>2, <2>2 DEF MakeLive
  <2>4. /\ platform'[p] = [platform[p] EXCEPT ![i] = "live"]
        /\ \A q \in Posts \ {p} : platform'[q] = platform[q]
    BY <2>2, <2>3
  <2>5. /\ Len(platform'[p]) = Len(platform[p]) /\ DOMAIN platform'[p] = DOMAIN platform[p]
        /\ platform'[p][i] = "live"
        /\ \A j \in DOMAIN platform[p] \ {i} : platform'[p][j] = platform[p][j]
    BY <1>2, <2>2, <2>4
  <2>6. PlatformKept(p) /\ IsLive(p, i)'
    BY <1>1, <1>2, <2>5 DEF PlatformKept, IsLive
  <2> QED BY <2>1, <2>4, <2>6, Unchanging
<1>3. CASE i = NewId(p)
  <2>1. i \notin DOMAIN platform[p]
    BY <1>1, <1>3 DEF NewId
  <2>2. platform' = [platform EXCEPT ![p] = Append(@, "live")] /\ "live" \in ObjectState
    BY <2>1 DEF MakeLive, ObjectState, TypeOK
  <2> QED BY <1>3, <2>2, Appended
<1> QED BY <1>2, <1>3

(* The steps that publish nothing and write no object's id.                    *)
LEMMA WorkerMovesLive ==
    ASSUME TypeOK, TypeOK', LiveInv,
           \/ \E id \in JobIds : TakeJob(id)
           \/ SkipJob \/ FetchPost \/ ClaimPost \/ HandlePublishingError \/ ScheduleRetry \/ RethrowError
           \/ MarkPostAsPublished /\ AttemptFails /\ UNCHANGED <<post, queue>>
    PROVE  LiveInv'
<1>0. /\ RouteInv /\ (\A q \in Posts : PostLive(q))
      /\ JobPost \in Posts /\ post[JobPost] \in Row /\ worker.job[2] \in Nat /\ worker \in Worker
      /\ 0 \in Nat /\ NoMetadata \in Metadata /\ worker.job \in JobIds
  BY WorkerTypes, IdleTypes DEF LiveInv, TypeOK
<1>1. platform' = platform /\ call' = call
  BY DEF TakeJob, SkipJob, FetchPost, ClaimPost, HandlePublishingError, ScheduleRetry, RethrowError,
         MarkPostAsPublished
<1>2. /\ CallsRouted /\ NoneLost /\ \A q \in Posts : PlatformKept(q) /\ \A c \in Calls : CallQuiet(c, q)
  BY <1>1, SameRouted
<1>3. RowsRouted /\ \A q \in Posts : RowQuiet(q)
  <2>1. CASE post' = post
    BY <2>1, SameRouted
  <2>2. ASSUME NEW row, post' = [post EXCEPT ![JobPost] = row], row.route = post[JobPost].route,
               row.metadata = post[JobPost].metadata,
               row.platformPostId = post[JobPost].platformPostId,
               row.status # "PUBLISHED" \/ row.status = post[JobPost].status
        PROVE  RowsRouted /\ \A q \in Posts : RowQuiet(q)
    BY <1>0, <2>2, RowWrites
  <2>3. CASE ClaimPost
    <3>1. post' = post \/ post' = [post EXCEPT ![JobPost] = ClaimedRow(post[JobPost], worker.job[2])]
      BY <2>3 DEF ClaimPost
    <3>2. PICK row : row = ClaimedRow(post[JobPost], worker.job[2])
      OBVIOUS
    <3>3. /\ row.route = post[JobPost].route /\ row.metadata = post[JobPost].metadata
          /\ row.platformPostId = post[JobPost].platformPostId /\ row.status = "PUBLISHING"
      BY <1>0, <3>2, RowFacts
    <3> QED BY <2>1, <2>2, <3>1, <3>2, <3>3
  <2>4. CASE HandlePublishingError
    <3>1. post' = post \/ post' = [post EXCEPT ![JobPost] = FailedRow(post[JobPost], worker.job[2])]
      BY <2>4 DEF HandlePublishingError
    <3>2. PICK row : row = FailedRow(post[JobPost], worker.job[2])
      OBVIOUS
    <3>3. /\ row.route = post[JobPost].route /\ row.metadata = post[JobPost].metadata
          /\ row.platformPostId = post[JobPost].platformPostId
          /\ row.status \in {post[JobPost].status, "FAILED"}
      BY <1>0, <3>2, RowFacts
    <3> QED BY <2>1, <2>2, <3>1, <3>2, <3>3
  <2> QED BY <2>1, <2>3, <2>4 DEF TakeJob, SkipJob, FetchPost, ScheduleRetry, RethrowError
<1>4. /\ worker'.pc # "savePublished"
      /\ \/ worker'.metadata.method = "NONE"
         \/ worker'.job = worker.job
            /\ worker'.metadata.method \in {worker.metadata.method, post[JobPost].metadata.method}
  <2>1. ASSUME NEW pc \in WorkerPc \ {"savePublished"}, WorkerGoto(pc)
        PROVE  /\ worker'.pc # "savePublished" /\ worker'.job = worker.job
               /\ worker'.metadata.method = worker.metadata.method
    BY <1>0, <2>1 DEF WorkerGoto, Worker
  <2>2. CASE AttemptFails
    BY <1>0, <2>2 DEF AttemptFails, Worker, NoMetadata
  <2>3. CASE worker' = IdleWorker
    BY <2>3 DEF IdleWorker, NoMetadata
  <2>4. ASSUME NEW id \in JobIds, TakeJob(id)
        PROVE  worker'.pc # "savePublished" /\ worker'.metadata.method = "NONE"
    BY <2>4 DEF TakeJob, IdleWorker, NoMetadata
  <2>5. CASE worker' = [worker EXCEPT !.pc = "claim", !.metadata = post[JobPost].metadata]
    BY <1>0, <2>5 DEF Worker
  <2>6. {"rethrow", "publish", "addRetry"} \subseteq WorkerPc \ {"savePublished"}
    BY DEF WorkerPc
  <2> QED BY <2>1, <2>2, <2>3, <2>4, <2>5, <2>6
          DEF SkipJob, CompleteJob, FetchPost, ClaimPost, HandlePublishingError, ScheduleRetry, RethrowError
<1>5. WorkerRouted /\ \A q \in Posts : WorkerQuiet(q)
  BY <1>0, <1>4 DEF WorkerRouted, WorkerQuiet, RouteInv, JobPost
<1>6. JobsRouted
  <2>1. queue \in [JobIds -> Job]
    BY DEF TypeOK
  <2>2. CASE queue' = queue
    BY <2>2, SameRouted
  <2>3. CASE queue' = [queue EXCEPT ![worker.job] = NoJob]
    BY <2>1, <2>3 DEF JobsRouted, NoJob
  <2>4. ASSUME NEW id \in JobIds, NEW st, NEW m, \/ queue' = [queue EXCEPT ![id].state = st]
                                                 \/ queue' = [queue EXCEPT ![id].made = m, ![id].state = st]
        PROVE  JobsRouted
    BY <2>1, <2>4 DEF JobsRouted, Job
  <2>5. ASSUME NEW id, AddJob(id, 0) PROVE JobsRouted
    BY <2>1, <2>5 DEF AddJob, JobsRouted
  <2> QED BY <1>0, <2>2, <2>3, <2>4, <2>5
          DEF TakeJob, SkipJob, CompleteJob, FetchPost, ClaimPost, HandlePublishingError, ScheduleRetry,
              RethrowError
<1> QED BY <1>0, <1>2, <1>3, <1>5, <1>6, QuietPost, RouteStep DEF LiveInv

LEMMA PublishPostLive ==
    ASSUME TypeOK, TypeOK', LiveInv, PublishPost
    PROVE  LiveInv'
<1> PICK p \in Posts : p = JobPost
  BY WorkerTypes
<1>0. /\ RouteInv /\ (\A q \in Posts : PostLive(q)) /\ worker \in Worker
      /\ JobRoute(worker.job) /\ worker.job[1] = p
  BY WorkerTypes DEF LiveInv, RouteInv, JobPost
<1>1. UNCHANGED <<post, queue, call>> /\ worker.pc = "publish"
  BY DEF PublishPost
<1>2. /\ RowsRouted /\ JobsRouted /\ CallsRouted
      /\ \A q \in Posts : RowQuiet(q) /\ \A c \in Calls : CallQuiet(c, q)
  BY <1>1, SameRouted
<1>3. \A i \in Publishable : \/ i = NewId(p)
                             \/ i \in DOMAIN platform[p] /\ post[p].route = "INSTAGRAM_CONTAINER"
  BY <1>0 DEF Publishable, Container, JobRoute
<1>4. CASE AttemptFails
  <2>1. \A q \in Posts : PlatformKept(q)
    <3>1. CASE platform' = platform
      BY <3>1, SameRouted
    <3>2. ASSUME NEW i \in Publishable, MakeLive(p, i) PROVE \A q \in Posts : PlatformKept(q)
      BY <1>3, <3>2, MadeLive
    <3> QED BY <3>1, <3>2 DEF PublishPost
  <2>2. worker'.pc = "saveError" /\ worker'.metadata.method = "NONE"
    BY <1>0, <1>4 DEF AttemptFails, Worker, NoMetadata
  <2>3. WorkerRouted /\ NoneLost /\ \A q \in Posts : WorkerQuiet(q)
    BY <2>1, <2>2, SameRouted DEF WorkerRouted, WorkerQuiet
  <2> QED BY <1>0, <1>2, <2>1, <2>3, QuietPost, RouteStep DEF LiveInv
<1>5. ASSUME NEW i \in Publishable, MakeLive(p, i),
             worker' = [worker EXCEPT !.pc = "savePublished", !.obj = i]
      PROVE  LiveInv'
  <2>1. /\ (\A q \in Posts : PlatformKept(q)) /\ i \in Nat \ {0} /\ IsLive(p, i)'
        /\ i = NewId(p) => Len(platform'[p]) = i
    BY <1>3, <1>5, MadeLive
  <2>2. /\ worker'.pc = "savePublished" /\ worker'.obj = i /\ JobPost' = p
        /\ worker'.metadata = worker.metadata /\ worker'.job = worker.job
    BY <1>0, <1>5 DEF Worker, JobPost
  <2>3. PostLive(p)'
    BY <1>0, <1>1, <1>3, <2>1, <2>2, WorkerMakes
  <2>4. \A q \in Posts \ {p} : PostLive(q)'
    <3>1. \A q \in Posts \ {p} : WorkerQuiet(q)
      BY <2>2 DEF WorkerQuiet
    <3> QED BY <1>0, <1>2, <2>1, <3>1, QuietPost
  <2>5. WorkerRouted /\ NoneLost
    BY <1>0, <2>1, <2>2, SameRouted DEF WorkerRouted, RouteInv, JobPost
  <2> QED BY <1>0, <1>2, <2>3, <2>4, <2>5, RouteStep DEF LiveInv
<1> QED BY <1>4, <1>5 DEF PublishPost

LEMMA MarkPublishedLive ==
    ASSUME TypeOK, TypeOK', LiveInv, worker.pc = "savePublished",
           post' = [post EXCEPT ![JobPost] = PublishedRow(@, worker.obj, worker.metadata)],
           CompleteJob, UNCHANGED <<platform, call>>
    PROVE  LiveInv'
<1> PICK p \in Posts : p = JobPost
  BY WorkerTypes
<1>0. /\ RouteInv /\ (\A q \in Posts : PostLive(q)) /\ worker \in Worker /\ worker.job \in JobIds
      /\ post[p] \in Row /\ worker.obj \in Nat /\ worker.metadata \in Metadata /\ 0 \in Nat
  BY WorkerTypes DEF LiveInv, TypeOK
<1>1. /\ CallsRouted /\ NoneLost /\ \A q \in Posts : PlatformKept(q) /\ \A c \in Calls : CallQuiet(c, q)
  BY SameRouted
<1>2. PICK row : row = PublishedRow(post[p], worker.obj, worker.metadata)
  OBVIOUS
<1>3. row.route = post[p].route /\ row.metadata = worker.metadata /\ row.platformPostId = worker.obj
  BY <1>0, <1>2, RowFacts
<1>4. post' = [post EXCEPT ![p] = row] /\ post'[p] = row
  BY <1>2 DEF TypeOK
<1>5. row.metadata.method \in {post[p].metadata.method, "NONE", post[p].route}
  BY <1>0, <1>3 DEF RouteInv
<1>6. RowsRouted /\ \A q \in Posts \ {p} : RowQuiet(q)
  BY <1>3, <1>4, <1>5, RowWrites
<1>7. worker'.pc = "idle" /\ worker'.metadata.method = "NONE"
  BY DEF CompleteJob, IdleWorker, NoMetadata
<1>8. WorkerRouted /\ \A q \in Posts : WorkerQuiet(q)
  BY <1>7 DEF WorkerRouted, WorkerQuiet
<1>9. JobsRouted
  BY <1>0 DEF CompleteJob, JobsRouted, NoJob, TypeOK
<1>10. PostLive(p)'
  BY <1>0, <1>3, <1>4, <1>7, WorkerWrites
<1>11. \A q \in Posts \ {p} : PostLive(q)'
  BY <1>0, <1>1, <1>6, <1>8, QuietPost
<1> QED BY <1>0, <1>1, <1>6, <1>8, <1>9, <1>10, <1>11, RouteStep DEF LiveInv

LEMMA WorkerStepLive ==
    ASSUME TypeOK, LiveInv, WorkerStep
    PROVE  LiveInv'
<1>1. TypeOK'
  BY WorkerStepType
<1>2. CASE MarkPostAsPublished
  BY <1>1, <1>2, MarkPublishedLive, WorkerMovesLive DEF MarkPostAsPublished
<1> QED BY <1>1, <1>2, WorkerMovesLive, PublishPostLive DEF WorkerStep, JobStep

-------------------------------------------------------------------------------
(* So do the requests, the environment and a crash.                            *)

(* What a request starts with.                                                 *)
LEMMA Started ==
    ASSUME TypeOK, NEW c \in Calls, NEW p \in Posts
    PROVE  /\ SchedulePost(c, p) =>
                 /\ call'[c].pc \in {"container", "native", "enqueue"} /\ call'[c].post = p
                 /\ call'[c].obj = 0 /\ call'[c].metadata.method = "NONE"
                 /\ call'[c].pc = "container" => post[p].route = "INSTAGRAM_CONTAINER"
           /\ PublishImmediately(c, p) =>
                 call'[c].pc = "publish" /\ call'[c].post = p /\ call'[c].metadata = post[p].metadata
           /\ CancelScheduledPost(c, p) =>
                 /\ call'[c].pc = "cancel" /\ call'[c].post = p /\ call'[c].metadata.method = "NONE"
                 /\ call'[c].obj = ToDelete(post[p])
<1>0. call \in [Calls -> Call] /\ post[p].route \in Routes
  BY DEF TypeOK, Row
<1>1. ASSUME SchedulePost(c, p)
      PROVE  /\ call'[c].pc \in {"container", "native", "enqueue"} /\ call'[c].post = p
             /\ call'[c].obj = 0 /\ call'[c].metadata.method = "NONE"
             /\ call'[c].pc = "container" => post[p].route = "INSTAGRAM_CONTAINER"
  <2>1. /\ FirstStep(post[p].route) \in {"container", "native", "enqueue"}
        /\ FirstStep(post[p].route) = "container" => post[p].route = "INSTAGRAM_CONTAINER"
    BY <1>0 DEF FirstStep, Routes
  <2>2. PICK pc : pc = FirstStep(post[p].route)
    OBVIOUS
  <2>3. call'[c] = [[IdleCall EXCEPT !.pc = pc] EXCEPT !.post = p]
    BY <1>0, <1>1, <2>2 DEF SchedulePost, StartCall
  <2> QED BY <2>1, <2>2, <2>3 DEF IdleCall, NoMetadata
<1>2. ASSUME PublishImmediately(c, p)
      PROVE  call'[c].pc = "publish" /\ call'[c].post = p /\ call'[c].metadata = post[p].metadata
  BY <1>0, <1>2 DEF PublishImmediately, StartCall, IdleCall
<1>3. ASSUME CancelScheduledPost(c, p)
      PROVE  /\ call'[c].pc = "cancel" /\ call'[c].post = p /\ call'[c].metadata.method = "NONE"
             /\ call'[c].obj = ToDelete(post[p])
  <2>1. PICK i : i = ToDelete(post[p])
    OBVIOUS
  <2>2. call'[c] = [[IdleCall EXCEPT !.pc = "cancel", !.obj = i, !.todo = {"platform", "queue"}]
                       EXCEPT !.post = p]
    BY <1>0, <1>3, <2>1 DEF CancelScheduledPost, StartCall
  <2> QED BY <2>1, <2>2 DEF IdleCall, NoMetadata
<1> QED BY <1>1, <1>2, <1>3

LEMMA RequestLive ==
    ASSUME TypeOK, TypeOK', LiveInv, NEW c \in Calls, NEW p \in Posts,
           SchedulePost(c, p) \/ PublishImmediately(c, p) \/ CancelScheduledPost(c, p)
    PROVE  LiveInv'
<1>0. RouteInv /\ (\A q \in Posts : PostLive(q)) /\ post[p].metadata.method \in {"NONE", post[p].route}
  BY DEF LiveInv, RouteInv
<1>1. UNCHANGED <<post, queue, platform, worker>> /\ \A d \in Calls \ {c} : call'[d] = call[d]
  BY DEF SchedulePost, PublishImmediately, CancelScheduledPost, StartCall, TypeOK
<1>2. /\ RowsRouted /\ WorkerRouted /\ JobsRouted /\ NoneLost
      /\ \A q \in Posts : RowQuiet(q) /\ WorkerQuiet(q) /\ PlatformKept(q)
  BY <1>1, SameRouted
<1>3. call'[c].post = p
  BY Started
<1>4. CallsRouted
  <2>1. CallRoute(c)'
    BY <1>0, <1>1, <1>3, Started DEF CallRoute
  <2> QED BY <1>1, <2>1 DEF CallsRouted
<1>5. \A q \in Posts \ {p} : PostLive(q)'
  <2>1. \A q \in Posts \ {p}, d \in Calls : CallQuiet(d, q)
    BY <1>1, <1>3 DEF CallQuiet
  <2> QED BY <1>0, <1>2, <2>1, QuietPost
<1>6. PostLive(p)'
  <2>1. CASE SchedulePost(c, p) \/ PublishImmediately(c, p)
    <3>1. \A d \in Calls : CallQuiet(d, p)
      BY <1>1, <2>1, Started DEF CallQuiet
    <3> QED BY <1>0, <1>2, <3>1, QuietPost
  <2>2. CASE CancelScheduledPost(c, p)
    <3>1. \/ post[p].route = "INSTAGRAM_CONTAINER"
          \/ ToDelete(post[p]) = 0
          \/ post[p].status = "SCHEDULED" /\ ToDelete(post[p]) = post[p].platformPostId
      BY <1>0 DEF ToDelete
    <3>2. call'[c].pc = "cancel" /\ call'[c].obj = ToDelete(post[p])
      BY <2>2, Started
    <3> QED BY <1>0, <1>1, <3>1, <3>2, CallCancels
  <2> QED BY <2>1, <2>2
<1> QED BY <1>0, <1>2, <1>4, <1>5, <1>6, RouteStep DEF LiveInv

LEMMA OtherStepLive ==
    ASSUME TypeOK, LiveInv, (\E p \in Posts : LateFailWrite(p)) \/ Environment \/ Crash
    PROVE  LiveInv'
<1>0. TypeOK' /\ RouteInv /\ (\A q \in Posts : PostLive(q))
  BY OtherStepType DEF LiveInv
<1>1. ASSUME NEW p \in Posts, LateFailWrite(p) PROVE LiveInv'
  <2>1. HandleSchedulingError(p) /\ UNCHANGED <<queue, platform, call, worker>>
    BY <1>1 DEF LateFailWrite
  <2>2. RowsRouted /\ \A q \in Posts : RowQuiet(q)
    BY <2>1, StatusWrites
  <2> QED BY <1>0, <2>1, <2>2, SameRouted, QuietPost, RouteStep DEF LiveInv
<1>2. ASSUME NEW id \in JobIds, RecoverStalledJob(id) \/ EvictFailedRetry(id) PROVE LiveInv'
  <2>1. UNCHANGED <<post, platform, call, worker>>
    BY <1>2 DEF RecoverStalledJob, EvictFailedRetry
  <2>2. JobsRouted
    <3>1. queue \in [JobIds -> Job]
      BY DEF TypeOK
    <3>2. CASE EvictFailedRetry(id)
      BY <3>1, <3>2 DEF EvictFailedRetry, JobsRouted, NoJob
    <3>3. ASSUME NEW s, NEW n, queue' = [queue EXCEPT ![id].stalls = n, ![id].state = s] PROVE JobsRouted
      BY <3>1, <3>3 DEF JobsRouted, Job
    <3>4. CASE RecoverStalledJob(id)
      <4>1. queue' = [queue EXCEPT ![id].stalls = queue[id].stalls + 1,
                                   ![id].state = IF queue[id].stalls < MaxStalls THEN "waiting"
                                                                               ELSE "failed"]
        BY <3>1, <3>4 DEF RecoverStalledJob
      <4> QED BY <3>3, <4>1
    <3> QED BY <1>2, <3>2, <3>4
  <2> QED BY <1>0, <2>1, <2>2, SameRouted, QuietPost, RouteStep DEF LiveInv
<1>3. ASSUME NEW p \in Posts, NEW i \in DOMAIN platform[p], PlatformActs(p, i) PROVE LiveInv'
  <2>1. UNCHANGED <<post, queue, call, worker>>
    BY <1>3 DEF PlatformActs
  <2>2. platform[p][i] # "live" /\ \E x : platform' = [platform EXCEPT ![p][i] = x]
    BY <1>3 DEF PlatformActs
  <2>3. platform \in [Posts -> Seq(ObjectState)] /\ platform[p] \in Seq(ObjectState)
    BY DEF TypeOK
  <2>4. PICK x : platform' = [platform EXCEPT ![p] = [platform[p] EXCEPT ![i] = x]]
    BY <2>2, <2>3
  <2>5. /\ platform'[p] = [platform[p] EXCEPT ![i] = x]
        /\ \A q \in Posts \ {p} : platform'[q] = platform[q]
    BY <2>3, <2>4
  <2>6. /\ Len(platform'[p]) = Len(platform[p]) /\ DOMAIN platform'[p] = DOMAIN platform[p]
        /\ \A j \in DOMAIN platform[p] \ {i} : platform'[p][j] = platform[p][j]
    BY <1>3, <2>3, <2>5
  <2>7. Len(platform[p]) \in Nat
    BY <2>3
  <2>8. PlatformKept(p)
    BY <2>2, <2>6, <2>7 DEF PlatformKept, IsLive
  <2>9. \A q \in Posts : PlatformKept(q)
    BY <2>5, <2>8, Unchanging
  <2> QED BY <1>0, <2>1, <2>9, SameRouted, QuietPost, RouteStep DEF LiveInv
<1>4. CASE Crash
  <2>1. UNCHANGED <<post, queue, platform>> /\ worker' = IdleWorker /\ call' = [c \in Calls |-> IdleCall]
    BY <1>4 DEF Crash
  <2>2. WorkerRouted /\ \A q \in Posts : WorkerQuiet(q)
    BY <2>1 DEF WorkerRouted, WorkerQuiet, IdleWorker, NoMetadata
  <2>3. \A c \in Calls : /\ call'[c].pc = "idle" /\ call'[c].obj = 0 /\ call'[c].metadata.method = "NONE"
                         /\ CallRoute(c)' /\ \A q \in Posts : CallQuiet(c, q)
    BY <2>1 DEF IdleCall, NoMetadata, CallRoute, CallQuiet
  <2>4. CallsRouted
    BY <2>3 DEF CallsRouted
  <2> QED BY <1>0, <2>1, <2>2, <2>3, <2>4, SameRouted, QuietPost, RouteStep DEF LiveInv
<1> QED BY <1>1, <1>2, <1>3, <1>4 DEF Environment

(* Every step inside the scheduler, whoever makes the requests.                *)
LEMMA SchedulerStepLive == ASSUME TypeOK, LiveInv, SchedulerStep \/ Crash PROVE LiveInv'
BY CallStepLive, WorkerStepLive, OtherStepLive DEF SchedulerStep

LEMMA InitLive ==
    ASSUME NEW s \in (PostStatus \cup {"NONE"}) \ {"PUBLISHED"}, InitWith(s)
    PROVE  LiveInv
<1>1. /\ \A p \in Posts : /\ post[p].status # "PUBLISHED" /\ post[p].metadata.method = "NONE"
                          /\ post[p].platformPostId = 0
      /\ \A c \in Calls : call[c].pc = "idle" /\ call[c].obj = 0 /\ call[c].metadata.method = "NONE"
      /\ worker.pc = "idle" /\ worker.metadata.method = "NONE"
      /\ \A id \in JobIds : queue[id].containerId = 0
  BY DEF InitWith, NewRow, NoMetadata, IdleCall, IdleWorker, NoJob
<1>2. RouteInv
  BY <1>1 DEF RouteInv, CallRoute, JobRoute
<1>3. ASSUME NEW p \in Posts PROVE Alive(p) /\ \A i \in Nat \ {0} : Owned(p, i)
  BY <1>1 DEF Alive, Owned, Saves, Deletes, WorkerSaves
<1> QED BY <1>2, <1>3 DEF LiveInv, PostLive

(* A live object the row names is among the live ones.                         *)
LEMMA LiveFollows == LiveInv => PublishedIsLive
BY DEF LiveInv, PostLive, Alive, IsLive, PublishedIsLive, Live

LEMMA StepLive ==
    ASSUME TypeOK, LiveInv, [Next]_schedulerVars
    PROVE  LiveInv'
<1>1. TypeOK'
  BY StepType
<1>2. CASE UNCHANGED schedulerVars
  <2>1. UNCHANGED <<post, queue, platform, call, worker>>
    BY <1>2 DEF schedulerVars
  <2> QED BY <1>1, <2>1, SameRouted, QuietPost, RouteStep DEF LiveInv
<1> QED BY <1>1, <1>2, RequestLive, SchedulerStepLive DEF Next, Request

(* Whatever requests, jobs, crashes and the platform do, in any order: an      *)
(* object that a row called PUBLISHED names is live and in nobody's hand.      *)
THEOREM LiveInvariant == Spec => []LiveInv
<1>1. Init => LiveInv
  BY InitLive DEF Init, PostStatus
<1>2. TypeOK /\ LiveInv /\ [Next]_schedulerVars => LiveInv'
  BY StepLive
<1> QED BY <1>1, <1>2, TypeCorrect, PTL DEF Spec

(* A post the database calls PUBLISHED is on the platform: no cancel deletes   *)
(* the object of a published post, and none is called published without one.   *)
THEOREM PublishedLive == Spec => []PublishedIsLive
BY LiveInvariant, LiveFollows, PTL

===============================================================================
