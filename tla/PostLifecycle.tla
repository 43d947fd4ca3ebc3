----------------------------- MODULE PostLifecycle -----------------------------
(* A post from its draft to the platform: the posts service (src/src/posts),   *)
(* the approvals service (src/src/approvals) and the scheduler they call.  A   *)
(* request that goes through posts or approvals runs in handler[c]; when the   *)
(* approvals service calls the scheduler, that call runs in call[c] of         *)
(* SocialScheduler and the handler waits for it.  The clients may also use the *)
(* scheduler's own endpoints, which ask for no approval.  A write or a         *)
(* transaction that finds its row gone, or that the database refuses, changes  *)
(* nothing.                                                                    *)
EXTENDS SocialScheduler, PostRouting

VARIABLES
    approval,      \* [Posts -> ApprovalStatus or NONE], the row PostApproval of the post
    handler,       \* [Calls -> Handler], requests running in posts or approvals
    allowed        \* history: posts an approval was committed for, or that a client
                   \* scheduled or published at an endpoint that asks for none

reviewVars == <<approval, handler, allowed>>
lifecycleVars == <<schedulerVars, reviewVars>>

Decisions == {"APPROVED", "REJECTED", "CHANGES_REQUESTED"}
ApprovalStatus == Decisions \cup {"PENDING"}

HandlerPc == {"idle", "submit", "decide", "afterApproval", "scheduling", "publishing",
              "delete", "execute", "execPublish", "execFailed"}
Handler == [pc : HandlerPc, post : Posts, decision : Decisions]
IdleHandler == [pc |-> "idle", post |-> CHOOSE p \in Posts : TRUE, decision |-> "APPROVED"]

LifecycleTypeOK ==
    /\ TypeOK
    /\ approval \in [Posts -> ApprovalStatus \cup {"NONE"}]
    /\ handler \in [Calls -> Handler]
    /\ allowed \in SUBSET Posts

LifecycleInit ==
    /\ InitWith("NONE")
    /\ approval = [p \in Posts |-> "NONE"]
    /\ handler = [c \in Calls |-> IdleHandler]
    /\ allowed = {}

Idle(c) == call[c].pc = "idle" /\ handler[c].pc = "idle"

Open(c, p, pc, decision) ==
    /\ Idle(c)
    /\ handler' = [handler EXCEPT ![c] = [pc |-> pc, post |-> p, decision |-> decision]]

Continue(c, pc) == handler' = [handler EXCEPT ![c].pc = pc]
Close(c) == handler' = [handler EXCEPT ![c] = IdleHandler]

unchangedInScheduler == <<queue, platform, call, worker, lateFail, attempted, crashes>>

-------------------------------------------------------------------------------
(* PostsService                                                                *)

(* createPost: always a draft, whose account and metadata fix the route that   *)
(* the scheduler will send it on.                                              *)
DraftRoutes ==
    {Route(d.account, DraftOf(d.dto)) : d \in
        {d \in [account : SocialAccount, dto : CreatePostDto] :
            ValidatePostCreation(d.account, d.dto)}}

CreatePost(p) ==
    /\ post[p].status = "NONE"
    /\ post[p].route \in DraftRoutes
    /\ post' = [post EXCEPT ![p].status = "DRAFT"]
    /\ UNCHANGED <<unchangedInScheduler, scheduled, calls, reviewVars>>

(* submitForApproval: the draft is looked up, then one transaction creates the *)
(* approval row, unique per post, and moves the post; a second row is refused  *)
(* and the transaction rolls back.                                             *)
SubmitForApproval(c, p) ==
    /\ CountCall
    /\ post[p].status = "DRAFT"
    /\ Open(c, p, "submit", "APPROVED")
    /\ UNCHANGED <<post, unchangedInScheduler, scheduled, approval, allowed>>

CommitSubmission(c) ==
    LET p == handler[c].post IN
    /\ handler[c].pc = "submit"
    /\ \/ /\ Exists(p) /\ approval[p] = "NONE"
          /\ approval' = [approval EXCEPT ![p] = "PENDING"]
          /\ post' = [post EXCEPT ![p].status = "PENDING_APPROVAL"]
       \/ UNCHANGED <<approval, post>>
    /\ Close(c)
    /\ UNCHANGED <<unchangedInScheduler, scheduled, calls, allowed>>

(* deletePost: the status is read, then the row is deleted whatever it is by   *)
(* then; the approval row goes with it (onDelete: Cascade), queue jobs do not. *)
Deletable == {"DRAFT", "FAILED", "CANCELED"}

DeletePost(c, p) ==
    /\ CountCall
    /\ post[p].status \in Deletable
    /\ Open(c, p, "delete", "APPROVED")
    /\ UNCHANGED <<post, unchangedInScheduler, scheduled, approval, allowed>>

CommitDelete(c) ==
    LET p == handler[c].post IN
    /\ handler[c].pc = "delete"
    /\ \/ /\ Exists(p)
          /\ post' = [post EXCEPT ![p] = NewRow("DELETED", @.route)]
          /\ approval' = [approval EXCEPT ![p] = "NONE"]
       \/ UNCHANGED <<post, approval>>
    /\ Close(c)
    /\ UNCHANGED <<unchangedInScheduler, scheduled, calls, allowed>>

(* getPostWithAccount, which executePublish starts with: the row and the       *)
(* account it belongs to, which a post always has.                             *)
PostWithAccount(p) == Exists(p)

(* executePublish: no status is required of the post.                          *)
ExecutePublish(c, p) ==
    /\ CountCall
    /\ PostWithAccount(p)
    /\ Open(c, p, "execute", "APPROVED")
    /\ allowed' = allowed \cup {p}
    /\ UNCHANGED <<post, unchangedInScheduler, scheduled, approval>>

ExecuteMarkPublishing(c) ==
    LET p == handler[c].post IN
    /\ handler[c].pc = "execute"
    /\ \/ Exists(p) /\ SetStatus(p, "PUBLISHING", "PROCESSING") /\ Continue(c, "execPublish")
       \/ Continue(c, "execFailed") /\ UNCHANGED post
    /\ UNCHANGED <<unchangedInScheduler, scheduled, calls, approval, allowed>>

(* publishToPlatform checks the account before it turns to a client: it asks   *)
(* the database for an active account of the organization whose token is not   *)
(* null, and the query is refused, for the column cannot be null.  The answer  *)
(* is always a failure, so markPostAsPublished of the posts service is never   *)
(* reached.                                                                    *)
ExecuteCallPlatform(c) ==
    /\ handler[c].pc = "execPublish"
    /\ Continue(c, "execFailed")
    /\ UNCHANGED <<post, unchangedInScheduler, scheduled, calls, approval, allowed>>

(* markPostAsFailed: RETRYING is written, but nothing is queued.  The count is *)
(* read just before; the two accesses are one step here.                       *)
ExecuteMarkFailed(c) ==
    LET p == handler[c].post
        n == post[p].retryCount + 1
    IN
    /\ handler[c].pc = "execFailed"
    /\ \/ /\ Exists(p)
          /\ post' = [post EXCEPT ![p].status = "FAILED", ![p].retryCount = n,
                                  ![p].queueStatus =
                                      IF n < MaxRetries THEN "RETRYING" ELSE "FAILED"]
       \/ UNCHANGED post
    /\ Close(c)
    /\ UNCHANGED <<unchangedInScheduler, scheduled, calls, approval, allowed>>

-------------------------------------------------------------------------------
(* ApprovalsService                                                            *)

(* POST /post/approvals/request: createApprovalRequest outside any             *)
(* transaction, for a post in any status, which it leaves as it is.            *)
RequestApproval(p) ==
    /\ CountCall
    /\ Exists(p) /\ approval[p] = "NONE"
    /\ approval' = [approval EXCEPT ![p] = "PENDING"]
    /\ UNCHANGED <<post, unchangedInScheduler, scheduled, handler, allowed>>

(* updateApprovalStatus, first half: the row must be PENDING when it is read.  *)
(* approvePost and requestChanges wait for the second; rejectPost does not, so *)
(* it answers before the write, and a refusal of it is nobody's to catch.      *)
Decide(c, p, decision) ==
    /\ CountCall
    /\ approval[p] = "PENDING"
    /\ Open(c, p, "decide", decision)
    /\ UNCHANGED <<post, unchangedInScheduler, scheduled, approval, allowed>>

(* The status a decision gives the post.  (Mutants: the decision itself, which *)
(* is no PostStatus; a post sent back for changes stays submitted.)            *)
DecidedStatusCopied(decision) == decision
DecidedStatusKept(decision) ==
    CASE decision = "APPROVED" -> "APPROVED"
      [] decision = "REJECTED" -> "DRAFT"
      [] decision = "CHANGES_REQUESTED" -> "PENDING_APPROVAL"

DecidedStatus(decision) == IF decision = "APPROVED" THEN "APPROVED" ELSE "DRAFT"

(* approvePost goes on to the scheduler; rejectPost and requestChanges do not. *)
(* (Mutant: requestChanges does.)                                              *)
MovesOnUnlessRejected(decision) == decision # "REJECTED"
MovesOn(decision) == decision = "APPROVED"

(* Second half, one transaction: both rows are updated without looking at      *)
(* what they hold by now.                                                      *)
CommitDecision(c) ==
    LET p == handler[c].post
        d == handler[c].decision
    IN
    /\ handler[c].pc = "decide"
    /\ \/ /\ approval[p] # "NONE"
          /\ approval' = [approval EXCEPT ![p] = d]
          /\ post' = [post EXCEPT ![p].status = DecidedStatus(d)]
          /\ IF MovesOn(d) THEN Continue(c, "afterApproval") ELSE Close(c)
          /\ allowed' = allowed \cup {q \in {p} : d = "APPROVED"}
       \/ Close(c) /\ UNCHANGED <<approval, post, allowed>>
    /\ UNCHANGED <<unchangedInScheduler, scheduled, calls>>

(* handlePostAfterApproval: a post with a future time is scheduled, another is *)
(* published at once (the clock decides, and the server's zone, in which the   *)
(* hour is read here; both are possible).  The status is not looked at.        *)
(* (Mutant: a post with no future time is left alone.)                         *)
HandlePostAfterApprovalNoElse(c) ==
    LET p == handler[c].post IN
    /\ handler[c].pc = "afterApproval"
    /\ \/ SchedulePost(c, p) /\ Continue(c, "scheduling")
       \/ Close(c) /\ UNCHANGED <<post, unchangedInScheduler, scheduled>>
    /\ UNCHANGED <<calls, approval, allowed>>

HandlePostAfterApproval(c) ==
    LET p == handler[c].post IN
    /\ handler[c].pc = "afterApproval"
    /\ \/ SchedulePost(c, p) /\ Continue(c, "scheduling")
       \/ PublishImmediately(c, p) /\ Continue(c, "publishing")
       \/ ~Exists(p) /\ Close(c) /\ UNCHANGED <<post, unchangedInScheduler, scheduled>>
    /\ UNCHANGED <<calls, approval, allowed>>

(* schedulePost has returned; its result is ignored and SCHEDULED is written.  *)
MarkScheduled(c) ==
    LET p == handler[c].post IN
    /\ handler[c].pc = "scheduling" /\ call[c].pc = "idle"
    /\ \/ /\ Exists(p)
          /\ post' = [post EXCEPT ![p].status = "SCHEDULED"]
          /\ scheduled' = [scheduled EXCEPT ![p] = @ + 1]
       \/ UNCHANGED <<post, scheduled>>
    /\ Close(c)
    /\ UNCHANGED <<unchangedInScheduler, calls, approval, allowed>>

(* publishImmediately has returned; its result is ignored.                     *)
FinishPublishing(c) ==
    /\ handler[c].pc = "publishing" /\ call[c].pc = "idle"
    /\ Close(c)
    /\ UNCHANGED <<schedulerVars, approval, allowed>>

-------------------------------------------------------------------------------
(* The endpoints of the three controllers, the scheduler's internal steps and  *)
(* the crash, in the composed system.                                          *)

PostsRequest(c, p) ==
    SubmitForApproval(c, p) \/ DeletePost(c, p) \/ ExecutePublish(c, p)

ApprovalsRequest(c, p) == \E d \in Decisions : Decide(c, p, d)

DirectRequest(c, p) ==
    /\ Idle(c)
    /\ CountCall
    /\ \/ SchedulePost(c, p) /\ allowed' = allowed \cup {p}
       \/ PublishImmediately(c, p) /\ allowed' = allowed \cup {p}
       \/ CancelScheduledPost(c, p) /\ UNCHANGED allowed
    /\ UNCHANGED <<approval, handler>>

InternalStep == SchedulerStep /\ UNCHANGED reviewVars

CrashAll ==
    /\ Crash
    /\ handler' = [c \in Calls |-> IdleHandler]
    /\ UNCHANGED <<approval, allowed>>

HandlerStep(c) ==
    \/ CommitSubmission(c) \/ CommitDelete(c)
    \/ ExecuteMarkPublishing(c) \/ ExecuteCallPlatform(c)
    \/ ExecuteMarkFailed(c)
    \/ CommitDecision(c) \/ HandlePostAfterApproval(c)
    \/ MarkScheduled(c) \/ FinishPublishing(c)

Arrival ==
    \/ \E p \in Posts : CreatePost(p) \/ RequestApproval(p)
    \/ \E c \in Calls, p \in Posts :
          PostsRequest(c, p) \/ ApprovalsRequest(c, p) \/ DirectRequest(c, p)

LifecycleNext ==
    \/ Arrival
    \/ \E c \in Calls : HandlerStep(c)
    \/ InternalStep
    \/ CrashAll

LifecycleSpec == LifecycleInit /\ [][LifecycleNext]_lifecycleVars

(* What the process and BullMQ owe: the event loop runs every continuation,    *)
(* the worker takes what waits, stalled jobs are looked for.                   *)
Owed ==
    \/ \E c \in Calls : HandlerStep(c)
    \/ /\ \/ \E c \in Calls : CallStep(c)
          \/ \E p \in Posts : LateFailWrite(p)
          \/ WorkerStep
          \/ \E id \in JobIds : RecoverStalledJob(id)
       /\ UNCHANGED reviewVars

(* Less than the process gives: some step that is owed is taken, not each.     *)
(* With finitely many requests that is enough.                                 *)
LifecycleFairSpec == LifecycleSpec /\ WF_lifecycleVars(Owed)

-------------------------------------------------------------------------------
(* Properties.                                                                 *)

(* The two rows a review involves agree: a post that is PENDING_APPROVAL has   *)
(* an approval row that is still PENDING, so it can always be decided.  Submit, *)
(* decide and delete each change both rows in one transaction.                 *)
PendingHasRequest ==
    \A p \in Posts : post[p].status = "PENDING_APPROVAL" => approval[p] = "PENDING"

(* What is left of the documented rule below: nothing is queued, sent to the   *)
(* platform or shown as scheduled or published unless an approver approved the *)
(* post at some time, or a client used one of the endpoints that ask for no    *)
(* approval.  No stale decision, rejected request, late write or crash opens   *)
(* a third way.                                                                *)
NothingUnapproved ==
    \A p \in Posts :
        \/ platform[p] # <<>>
        \/ \E id \in JobIds : id[1] = p /\ queue[id].state # "none"
        \/ post[p].status \in {"SCHEDULED", "PUBLISHING", "PUBLISHED"}
        => p \in allowed

(* A post is put on the schedule, or handed to the platform, only while it is  *)
(* approved: 'Every post must be approved before scheduling or publishing'     *)
(* (posts.controller.ts, create).                                              *)
ApprovalRequired ==
    [][\A p \in Posts :
          \/ post[p].status # "SCHEDULED" /\ post'[p].status = "SCHEDULED"
          \/ Len(platform'[p]) > Len(platform[p])
          => approval[p] = "APPROVED"]_lifecycleVars

(* Unless the process crashes, an approved post moves on: it is scheduled,     *)
(* published or marked failed, whatever the platform, the queue and the        *)
(* scheduler answer, and never left APPROVED (handlePostAfterApproval).        *)
ApprovedMovesOn ==
    \A p \in Posts :
        post[p].status = "APPROVED" ~> post[p].status # "APPROVED" \/ crashes > 0

(* A decision is final: 'Approval request has already been processed' refuses  *)
(* a second one (updateApprovalStatus).                                        *)
DecisionIsFinal ==
    [][\A p \in Posts : approval[p] \in Decisions => approval'[p] \in {approval[p], "NONE"}]_lifecycleVars

===============================================================================
