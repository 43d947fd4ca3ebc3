# Formal models of the social media manager

The repository is a NestJS server (`src/src`) over PostgreSQL (Prisma, `src/prisma/schema.prisma`),
Redis and BullMQ: teams write posts, review them, and have them published on Facebook,
Instagram, LinkedIn and X. This directory holds TLA+ models of its core, the TLC configurations
that check them on small instances, and proofs TLAPS checks for every value of the constants.

- [1. The system](#1-the-system)
- [2. The modules and the code they model](#2-the-modules-and-the-code-they-model)
- [3. The environment: what is assumed](#3-the-environment-what-is-assumed)
- [4. What the runs check](#4-what-the-runs-check)
- [5. What the runs found](#5-what-the-runs-found)
- [6. What is proved](#6-what-is-proved)
- [7. What is not modelled](#7-what-is-not-modelled)
- [8. Plan](#8-plan)
- [9. Running the checks](#9-running-the-checks)

## 1. The system

One Node process runs every controller, every service, the cron jobs and the BullMQ worker. Its
event loop runs one continuation at a time, so code between two `await`s is atomic, and two
requests (or a request and the worker) interleave at every `await`. What survives the process is in
the database, in Redis and at the platforms. Most operations that read, test and then write do it in
separate queries with no condition on the write: that is where most of the hazards are.

### The path of a post

```
 client --> PostsService --------- Post, PostApproval (database)
   |          ^  executePublish -> PostPublishingService ----------+
   |        ApprovalsService                                       |
   |          | handlePostAfterApproval                            v
   +-----> SocialSchedulerService --> queue 'social-posting'    Facebook,
              |                          | SocialPostProcessor  Instagram, ...
              +-- native schedule, container, publish now ---->    ^
                         processScheduledPost ---------------------+
```

| Component | State | Operations | What is hard | What makes it correct |
|---|---|---|---|---|
| social-scheduler service (`social-scheduler/social-scheduler.service.ts`) | `Post.status`, `queueStatus`, `retryCount`, `metadata`, `platformPostId` | schedule (three routes: an Instagram container plus a job, Facebook's own scheduling, a plain job), publish now, cancel, `processScheduledPost` with its error and retry path | several requests and the worker on one row, none of them locked; calls whose answer is lost; a FAILED write nobody awaits; a metadata copy kept across the platform call | a post is published at most once per schedule; a post called PUBLISHED is on the platform; a retry that is queued is made; a cancelled post stays down |
| social-posting queue and processor (`processors/`, `social-scheduler.module.ts`) | jobs in Redis: waiting, active, failed | add, take, complete, fail, re-run, recover a stalled job | BullMQ's own re-attempts and the code's retry jobs at once; a duplicate job id is ignored; a crash leaves an active job | every job ends |
| posts service (`posts/posts.service.ts`) | `Post`, `PostApproval` | create, update, delete, submit for approval, `executePublish` | tests the status, then writes without it | the two rows of a review agree; an approved post moves on; nothing goes out without an approval but through the scheduler's own endpoints |
| approvals service (`approvals/approvals.service.ts`) | `PostApproval`, `Post.status` | request, approve, reject, request changes, and what follows an approval | the PENDING test is outside the transaction that writes; the results of the scheduler are ignored | a decision is final; an approved post moves on |
| post publishing (`post-publishing/`) | none of its own; metrics rows | `publishToPlatform` | in this build it never gets past its first query | - |
| platform services (`social-scheduler/platforms/`) | containers and posts at the platform | create a container, publish it, schedule, delete | carousels: several containers of which one may fail; polling until ready | what a call makes is shown at most once; a success was shown; a carousel has all its items; every call ends |

### The other components

| Component | State | Operations | What is hard | What makes it correct |
|---|---|---|---|---|
| organizations, invitations, members (`organizations/`) | `Organization`, `OrganizationMember` (unique on organization, user), `OrganizationInvitation` (unique on email, organization, status) | create, update and delete an organization; invite, accept, resend, revoke; update, remove, leave, transfer ownership | every test is made before the write; the member limit is tested outside the transaction that adds the member; an expired invitation is still PENDING and holds its key; a membership that was left keeps its unique row | an organization keeps its owner; the limit holds up to the overlap; nobody is in without an invitation of his own |
| authentication, users (`auth`, `user`) | `User`: password, attempts, lock, reset token, provider | register, login, login through a provider, forgotten password, reset, change, deactivate | the counter is read, then written; bcrypt runs between a test and its write; the owner of a token is looked up as the first user with any pending token | a lock comes only after the failures; a password is its user's own; a token is used once |
| brand kit (`brand-kit`) | `BrandKit.isActive`, a cached copy in Redis (300 s) | create, update, activate, deactivate, delete, get active | table and cache are written in two steps, and only `activate` uses a transaction | at most one kit is active; the cache holds it |
| media (`media`) | `MediaFile`, the assets at Cloudinary | upload and delete one or many, nightly cleanup | two stores, no common transaction; failures of the second are only logged; a deletion takes the rows of any organization and the assets of its own | every row has its asset, and every asset its row; expired files go |
| AI (`ai`) | `AiContentGeneration`, `AiImageGeneration`, `AIUsage` | generate and enhance a text, generate an image, track the usage | the kit comes from the cache; costs are read, then written; the model's answer may be anything | costs and usage are those of the calls |
| templates (`templates`) | `ContentTemplate`, `UserFavoriteTemplate` | create, duplicate, update, delete, generate, favourites | the kit can be deleted meanwhile; pair and count are two writes; placeholders are replaced one after the other, by `String.replace` with an unescaped expression | the count is that of the favourites; plain values leave no placeholder in a text |
| rate limiting (`rate-limit`) | one Redis counter with an expiry per account and action | `checkLimit` (a Lua script), `getQuota` | the boundary; how a limit is looked up | at most `limit` calls per window |
| social integration, social accounts (`social-integration`, `social-account`) | `SocialAccount`, `PageAccount`, state in the link to log in | callbacks, disconnect, revoke, upsert | the SDK of Meta has one token for the process; pages are stored in parallel; a page is shared by users; a PATCH may give a row to another user | a page is stored under a user who manages it; success means connected |
| billing, messaging, webhooks, polling, notifications, scheduling service, optimizer | | | not reached in this build, see section 7 | - |
| analytics, permissions, mail, guards, Redis and Prisma clients | rows, or none | queries, pure output | nothing concurrent of their own | - |

## 2. The modules and the code they model

| Module | Models | Uses |
|---|---|---|
| `PublishPermit` | the abstract promise of the scheduler: a post goes out only while it is claimed, is claimed only while on the schedule, and each claim is used at most once | - |
| `SocialScheduler` | scheduler service, processor, queue, platform | instance of `PublishPermit` |
| `PostRouting` | which way, with which service and credentials, and when a draft goes: operators, no state | - |
| `PostLifecycle` | posts service and approvals service, composed with the scheduler | EXTENDS `SocialScheduler`, `PostRouting` |
| `OneShotPublish` | the abstract promise of a platform service: what a call makes is shown at most once | - |
| `PlatformServices` | the Facebook and Instagram services of the scheduler, request by request | instance of `OneShotPublish` |
| `Organization` | organizations, invitations, members | - |
| `UserAccount` | auth and user services | - |
| `ContentRequests` | what the next four share: a request as a chain of awaited calls, overlap, failure | - |
| `BrandKit`, `MediaLibrary` | those services, with the cache and the media store | EXTEND `ContentRequests` |
| `AiContent` | the AI services | EXTENDS `BrandKit`, `MediaLibrary` |
| `TemplateText`, `Templates` | validation and filling of a template (operators); the templates service | `Templates` EXTENDS `BrandKit`, `TemplateText` |
| `ContentStudio` | the four services composed: they share the kit's cache and the media table | EXTENDS `AiContent`, `Templates` |
| `SocialConnections` | social integration, Meta and social account services | - |
| `RateLimit` | the rate limiter | - |
| `MC...` | model values and symmetry for TLC | |
| `SocialSchedulerProofs` | theorems about `SocialScheduler` | EXTENDS it |
| `PostLifecycleProofs` | theorems about `PostLifecycle` | EXTENDS it and `SocialSchedulerProofs` |
| `PlatformServicesProofs`, `OrganizationProofs`, `UserAccountProofs`, `ContentStudioProofs`, `SocialConnectionsProofs` | theorems about those modules | EXTEND them and TLAPS |
| `TextProofs` | theorems about `TemplateText`, for texts of any length | EXTENDS it and TLAPS |

### SocialScheduler

| Variable | In the code |
|---|---|
| `post[p]` | the row of table Post: `status`, `queueStatus`, `retryCount`, `platformPostId`, and of `metadata` the keys the scheduler reads back (the method and the container). `route` stands for what decides the branch of `schedulePost`: the platform and the kind of account. `NONE` and `DELETED` are rows that do not exist |
| `queue[<<p, n>>]` | the job of p: n = 0 is the one `schedulePost` adds (its jobId is the post's id), n > 0 is `retry-p-n`. `made` is BullMQ's attemptsMade, `stalls` its stalled counter, `containerId` the part of the job data that matters |
| `platform[p]` | every object ever created for p at the platform, in order; the index is the id. `container`, `scheduled` (Facebook holds it), `live`, `gone` |
| `call[c]` | a request in flight: where it is (`pc`), the copy of the metadata it read, the id the platform returned, the halves of a cancellation still to do |
| `worker` | the one job being processed, and the same kind of local state |
| `lateFail[p]` | FAILED writes that `handleSchedulingFailure` started and did not await |
| `scheduled`, `attempted` | history: writes of SCHEDULED, publications asked for by the worker |

Each action is a stretch of code between two awaits:

| Operation | Actions, in order |
|---|---|
| `schedulePost` | `SchedulePost` (read) ; `CreateContainer` ; `QueueJob` or `ScheduleNative` ; `SaveScheduled` ; on failure `LateFailWrite`, at any later time |
| `publishImmediately` | `PublishImmediately` (read) ; `CallPlatform` ; `UpdatePublishedPost` or `PublishImmediatelyFails` |
| `cancelScheduledPost` | `CancelScheduledPost` (read, and the decision what to delete) ; `CancelPlatformResources` and `RemoveQueueJobs` in either order, each may fail ; `MarkPostAsCancelled` |
| `processScheduledPost` | `TakeJob` ; `SkipJob` or `FetchPost` ; `ClaimPost` ; `PublishPost` ; `MarkPostAsPublished`, or `HandlePublishingError` ; `ScheduleRetry` ; `RethrowError` |
| environment | `RecoverStalledJob`, `EvictFailedRetry`, `PlatformActs`, `Crash` |

Some reads are merged with the write that follows them, where nothing that was read can change the
outcome: `update*ScheduledPost` reads the metadata and merges its own keys into it;
`handlePublishingError` reads the row only to see whether it exists; `markPostAsFailed` reads the
retry count it increments.

### PostLifecycle

Adds `approval[p]` (the row PostApproval, unique per post), `handler[c]` (a request running in posts or
approvals) and a history variable. When approvals calls the scheduler, the scheduler's request runs
in `call[c]` and the handler waits for it: `HandlePostAfterApproval` starts it, `MarkScheduled` or
`FinishPublishing` continues once it is over. `SubmitForApproval`, `Decide`, `DeletePost` and
`ExecutePublish` are the first reads and tests of their operations; `CommitSubmission`,
`CommitDecision`, `CommitDelete` and the `Execute...` actions are what is written later.
`CommitSubmission` and `CommitDecision` are single steps because the code uses a transaction there.
Every action of the scheduler keeps its meaning in the composition, and the scheduler's own endpoints
stay open to clients (`DirectRequest`): the code asks for no approval there. The history
variable `allowed` holds the posts an approval was committed for and those a client sent to such an endpoint.
`rejectPost` is the one decision whose write is not awaited: its answer comes first, and a refused write ends as an
unhandled rejection; no property depends on either.

`CreatePost` takes only the routes (`DraftRoutes`) that some draft gets which `validatePostCreation` lets through.
`ExecuteCallPlatform` always fails: `publishToPlatform` first asks the database for an account whose token is
`not: null`, a condition Prisma refuses on a column that cannot be null.

### PostRouting

Everything the scheduler decides from a row alone, as operators over all accounts and all bodies of a request:
`Route`, `ResolvePlatformService`, `PreparePlatformPost`, `CalculateDelay`, and what the posts service accepts
(`ValidatePostCreation`, whose checked platform the request's own metadata may override). `Accepts` is what the two platform
services ask of a post. The column `scheduledAt` is a string without a zone, and the row keeps the zone beside it (`DraftOf`). The
same string is read three ways: `createPost` checks it in the zone of the request (`posts.service.ts:331-337`), `calculateDelay` waits for it in the
post's zone (`social-scheduler.service.ts:340`), and what goes to Facebook is `new Date(...)` in the server's
(`facebook-platform.service.ts:87,168,462`; `approvals.service.ts:207` reads it so, too). Hours are counted from now, zones are offsets.

### PlatformServices

| Variable | In the code |
|---|---|
| `call[c]` | one call of `schedulePost`, `publishImmediately` or `deleteScheduledPost`: the step it is at, the kind of post, the loop counter (`left`), the items not ready or not uploaded (`todo`), and what was answered |
| `object[c]`, `media[c][m]` | at the platform: the container or post the call made; the items of a carousel or the unpublished photos |
| `inflight[c]` | requests of a `Promise.all` or `Promise.allSettled` that are not answered |
| `shown[c]` | how often what the call made went public |

An action is one HTTP request with its three outcomes: accepted and answered, accepted with the answer lost, refused.
The items of a carousel are asked for at once; the first failure ends the call and the other requests go on. The abstract
view is the `aim`, `target` and `outcome` of a call.

### Organization, UserAccount

Both split each operation in the tests (`InviteMember`, `Login`, ...), after which the request waits, and its write
(`CommitAcceptance`, `HandleFailedLogin`, ...), which does not repeat them; a transaction is one step, and where it can be rolled
back (a unique key, the audit row) one outcome changes nothing. `overlapped` records whether two requests were ever open together:
several properties are promised only to requests one at a time, and say by how much overlaps may break them.
A user stands for his address. `LockEnds`, `ResetExpires` and `Expire` are time passing.

### ContentStudio and its parts

`request[c]` is the next awaited call of a request and what it carries along: the copy of the kit, files still to be
processed, a cost read before a write. `StepFails` ends any request at any call, which is also what a stop of the process
does; where the code catches a failure and goes on (`DestroyFails`, `CleanupDestroyFails`) that is an action of
its own. `kit` and `cache` are the table and the key of Redis, `file` and `asset` the table and the media store.
`StudioInit` is an organization that has just begun, or one with a kit, a text, an expiring image and a favourite template. A kit that is
deleted takes its reference from the templates (`KitsDetached`, onDelete SetNull) and makes later rows that refer to it fail.
`Foreign` are the files of another organization, which share the table: `deleteFiles` destroys the assets of the files it found for its own
organization (`media.service.ts:174`) and then deletes every row with one of the ids (`:203-205`). `Strayed` is the history of files whose
row went that way and whose asset stayed.
There is no action for taking a favourite back: `templates.controller.ts:83` (`:id/:organizationId`) is declared before `:114`
(`:id/favorite`) and takes its requests.
`TemplateText` is pure: a text is a sequence of placeholders and pieces. `Replace` is the code's `String.replace` with a global expression
made of the unescaped key: `Matches` says which placeholders that expression matches, which need not be the key's own, and `$&` and its kind in
a value are expanded.

### SocialConnections

`account` and `page` are the tables, `link[o]` the links that still lead to a good callback, `api` the user whose token the
Meta SDK has, `request[c]` a callback under way: exchange of the code, profile, pages, upsert, then the pages in parallel.
`tokens` are numbered as they are issued. `Update` is the PATCH of an account, which writes whatever it is given: the row may change
its organization, platform and id, that is, become another account's (`Rekeyed`), and its pages and a callback that is storing pages for it
go along; `rewritten` is the history of accounts that got their row this way. `Disconnect` leaves the row as it is: the database client refuses the null.

### RateLimit

`used[a]` is the counter of an action in Redis, `admitted[a]` the calls let through in its window. The script runs as one step.

## 3. The environment: what is assumed

- One process, one worker with concurrency 1 (`QUEUE_CONFIG.CONCURRENCY` = 3 is declared and not used).
  A crash stops all requests and the worker; the database, the queue and the platform keep their state.
- BullMQ: adding a job whose id is known does nothing, whatever the state of that job; a job that
  throws runs again until its attempts are used, then is kept as failed; failed retry jobs may be
  dropped; an active job nobody holds is found and re-queued up to `MaxStalls` times, then failed; a job a
  worker holds cannot be removed. A live worker does not lose its lock: its renewal is not modelled.
- When a delay ends is left open, so a delayed job may run at any time. This includes a delay of 0.
- Platforms: a call succeeds, fails, or takes effect while its answer is lost (HTTP requests end at their
  timeout of 30 or 60 s). A natively scheduled post goes live by itself; a container may expire;
  publishing a published container answers success; deleting a container leaves the published media alone.
- Every write to the database may be refused (the row is gone, the connection is lost), except the
  record of a failed scheduling, `handleSchedulingError`: it is assumed to find the database, otherwise
  nothing could be said of where a failed post ends. The first read of `handlePostAfterApproval` is
  assumed to be answered, for the same reason.
- A failure while a publication is being prepared is counted as an attempt (the property counts calls,
  so this is on the safe side).
- An approval that schedules writes SCHEDULED twice, once in the scheduler and once in approvals; the history
  `scheduled` counts both, as each of them lets the worker pass its status test.

- The other modules: requests may overlap at every await and each awaited call may fail; unique keys and foreign keys refuse
  a write; time limits (cache, token, invitation, file) may end at any moment. Cloudinary, Meta and LinkedIn keep what they were given.

**Fairness.** `FairSpec` (the scheduler alone): weak fairness for every continuation of a request, for the
late write and for the worker's steps, since the event loop runs every promise that settles and
every promise settles (HTTP timeouts, a database that answers or refuses); strong fairness for taking each
waiting job, since the worker is busy and free again and again and BullMQ's list is in order; weak fairness for the
stalled-job check, which runs periodically. `LifecycleFairSpec` asks for less: weak fairness of `Owed`, some step of these, which is enough
where requests are finitely many. Clients, crashes, evictions and platforms owe nothing.
`ServiceFairSpec`: weak fairness for the steps of a call, since every HTTP request has a timeout; nothing for the platform, so a
container may stay in processing. `StudioFairSpec`: weak fairness for the next awaited call of each request and for the nightly
cleanup (`@Cron`, which `ScheduleModule.forRoot` starts); failures are bounded by `MaxFailures`.

## 4. What the runs check

| Run | Instance | Shows |
|---|---|---|
| `scheduler_safety` | 1 post, 2 overlapping requests of 3 in all, 1 crash, 1 stall, one retry job; 2.7 million states | `TypeOK`, `AtMostOncePerSchedule`, `PublishedIsLive`, and that the scheduler implements `PublishPermit` |
| `lifecycle` | 1 post, 2 requests over all endpoints, 2 at a time, 1 crash, jobs that run twice, one retry job, 1 stall; 386 thousand states | `LifecycleTypeOK`, `PendingHasRequest`, `NothingUnapproved`, the two scheduler properties in the composed system, `ApprovedMovesOn` and `QueueDrains` |
| `platform_calls` | 1 call from nothing and 2 on what it prepared, 3 media, batches of 2, 3 polls; 129 thousand states | `ServiceTypeOK`, `CarouselComplete`, `CallsEnd`, and that a service implements `OneShotPublish` |
| `organization_safety` | 4 users, a limit of 2, 3 invitation rows, 2 overlapping requests of 4, from nothing or after three sent invitations; 91 thousand states | `OrganizationTypeOK`, `OwnerKept`, `MemberLimitOvershoot`, `MembersWereInvited` |
| `account_safety` | 2 users, a lock after 2 failures, 1 reset token each, 2 overlapping requests of 6; 65 thousand states | `AccountTypeOK`, `LockNeedsFailures`, `PasswordIsOwn`, `TokenUsedOnce` |
| `content_studio` | 2 kits and templates, 2 files of the organization and 1 of another one, 1 text, 2 overlapping requests, 1 failure; 307 thousand states | `StudioTypeOK`, `OneActiveKit`, `CacheIsActive`, `MediaAccounted`, `CostAccounted`, `UsageAccounted`, `FavoritesCounted`, `ExpiredFilesGo` |
| `connections` | 2 organizations, 2 users of Meta who share a page, 1 of LinkedIn, 2 overlapping requests of 3, PATCHes among them, 2 good links at a time; 1.6 million states | `ConnectionTypeOK`, `PagesOfTheirUser`, `AnsweredIsConnected` |
| `retry_happens` | one schedule request, 3 attempts, 3 retries | a violation of `RetryHappens` (section 5) |
| `cancel_stays_down` | a schedule, then a cancel, no crash | a violation of `CancelledStaysDown` |
| `approval_required` | one draft, one request | a violation of `ApprovalRequired` (section 5) |
| `decision_final` | two approvers | a violation of `DecisionIsFinal` |
| `rate_limit` | 2 actions, a default limit of 2 | a violation of `CallsWithinLimit` |

The properties:

- **AtMostOncePerSchedule** - the worker asks for a publication at most once per write of SCHEDULED,
  despite BullMQ's re-attempts, retry jobs, stalled jobs, crashes, lost answers and any overlapping request.
- **ImplementsPermit** - more than that count: a publication follows its own claim, of a post whose row said SCHEDULED when the worker tested it; what a
  cancel, a decision or a deletion takes off the schedule before the test does not go out; schedules that pile up on a row give
  one publication; a claim lost in a crash is not used later.
- **PublishedIsLive** - a row that says PUBLISHED has a live object. A cancel that decided from an old
  row what to delete, an expired container, a publication that failed and a stale metadata copy could each break it.
- **PendingHasRequest** - a post in PENDING_APPROVAL has an approval row that is PENDING, so it can be decided.
- **NothingUnapproved** - nothing is queued, sent, or called SCHEDULED, PUBLISHING or PUBLISHED unless an approval was
  committed, or a client used an endpoint that asks for none: no stale decision, late write, rejected request or crash opens a third way.
  It is what remains of **ApprovalRequired**, the rule the API documents and the code breaks (section 5).
- **ApprovedMovesOn** - without a crash, APPROVED is left, whatever the scheduler, the queue and the
  platform answer. (With a crash between the decision and `handlePostAfterApproval` it is not:
  nothing in the code looks for such posts. Hence the `crashes > 0` in the property.)
- **QueueDrains** - every job completes, fails or is removed.
- **ImplementsOneShot** - what a call makes is shown at most once, only for a call that asks for it, and a success means it was shown.
- **CarouselComplete** - no carousel is made while one of its items is unfinished, however creations and polls fall.
- **CallsEnd** - every call ends, even if Instagram never finishes processing.
- **OwnerKept** - as long as requests come one at a time, no sequence leaves an active organization without an active owner.
  (Two that overlap can: a member who is removed while he is given the ownership.)
- **MemberLimitOvershoot** - the limit holds for requests one at a time, and overlapping ones pass it by at most their number less one.
- **MembersWereInvited** - at any overlap with revocations and removals nobody but the founder is in without an invitation of his own.
- **LockNeedsFailures**, **PasswordIsOwn**, **TokenUsedOnce** - a lock comes only after `MAX_LOGIN_ATTEMPTS` failures; no reset writes
  another user's password; one token writes one password, or one per overlapping request.
- **OneActiveKit**, **CacheIsActive** - one at a time: at most one kit is active, there is one if there is any, and the cache has
  that kit as it is stored. (What an overlap or a failure leaves in the cache stays until the key expires.)
- **MediaAccounted** - without failures every row, of whichever organization, has its asset between requests, however they overlapped; one
  at a time an asset without a row is one whose row another organization deleted. **ExpiredFilesGo** - expired files are removed in the end.
- **CostAccounted** - the cost of a text is what its calls cost; overlapping enhancements lose at most each other's.
- **UsageAccounted** - without failures the organization's usage has every text, enhancement and image once, whatever overlaps.
- **FavoritesCounted** - the count is that of the pairs but for requests between the two writes, also across deletions of the template.
- **PagesOfTheirUser**, **AnsweredIsConnected** - overlapping callbacks do not mix up their users' pages although they share the SDK, and only
  a PATCH that gives an account's row to another user hands over its pages;
  a callback that is answered with success has stored all pages, and one at a time its account is active with the new token.

**Why these bounds.** No operation on a post reads or writes a row, a job or an object of another post: the only thing two
posts share is the worker, which the proofs treat for any number of posts. So one post is
enough for TLC, and the interesting behaviours are overlaps on that post: two requests and the worker (three
actors), in `scheduler_safety` with a third request that starts when one has ended, one crash that can fall between any two steps, and one
recovery of the job it leaves behind. `MaxRetries` = 2 gives one retry job after the first; `JobAttempts` = 2 in the run
`lifecycle` gives BullMQ's own second attempt, also for the liveness properties (`scheduler_safety`, with more requests, has 1). The code has 3 and 3: the
further ones repeat the same steps, and the proofs hold for every value.
In the other runs too two requests are open at a time, since every race found is between two, and the number in all is what it takes to
build up a state worth racing on: an owner, a member, an invitation and a transfer; a registration, two failures and a reset. Where
fewer requests are affordable the run starts from a state in use as well (`StudioInit`, `MCInit`: an organization whose founder has sent
three invitations). Limits are the smallest that can be passed: two members,
two failures, three items in batches of two, three polls. With four users and a limit of two, two overlapping acceptances could pass the
limit by more than the one the
property allows. Three users of the platforms and a shared page are what it takes to confuse two.
Symmetry is used in the runs that check no liveness. Deadlock is not checked where requests are
bounded: a state where all are served is a proper end.

Every property of a passing run has a mutant in `PROJECT.json`: a definition with a plausible bug (a test that is not made, a
status that is not written, two writes in the wrong order, a result that is not awaited) under which the same run finds the property violated.

## 5. What the runs found

1. **A post goes out without an approval** (`approval_required`). `posts.controller.ts:45` says "Every post must be approved before scheduling or
   publishing", but `POST /social-scheduler/:postId/schedule` and `/publish` (`social-scheduler.controller.ts:29-61`) call `schedulePost` and
   `publishImmediately`, which read neither the status nor the approval.
2. **A queued retry is never made** (`retry_happens`). A failed attempt leaves the row PUBLISHING, since
   `handlePublishingError` writes no status while it can retry. `processScheduledPost` skips every post
   that is not SCHEDULED, so the retry job, and BullMQ's own re-attempts, complete without publishing. The log line
   `Scheduled retry ... for post ...` (`social-scheduler.service.ts:849`) promises otherwise.
   It is also what makes `AtMostOncePerSchedule` hold: the model shows both.
3. **A cancelled post can go live** (`cancel_stays_down`). Both halves of `cancelScheduledPost` run under
   `Promise.allSettled` and a failure is dropped: the row says CANCELED and the client is told so, while
   Facebook still holds the scheduled post. The controller (`social-scheduler.controller.ts:66`) documents the endpoint as deleting it.
4. **A decision can be overwritten** (`decision_final`). The PENDING test of `updateApprovalStatus` is outside
   the transaction that writes: two approvers both pass it, and the later one wins, although
   `approvals.service.ts:253` refuses a second decision.
5. **No call is ever refused for its rate** (`rate_limit`). The script stops counting at the limit and answers the limit; `checkLimit`
   refuses when the answer is more than the limit (`rate-limit.service.ts:86`). The configured limits are not found either: the key
   map has small letters, the table capitals, so every action has the general default.

Other behaviours seen while modelling, which no property states:

- Posts: a post SCHEDULED by approvals although `schedulePost` failed, which nothing will publish; a rejected post, a draft
  again, that cannot be submitted again because its approval row is unique and stays; a natively scheduled post whose row stays
  SCHEDULED after Facebook published it; a job with delay 0 that runs before SCHEDULED is written and is skipped, so that
    the post stays SCHEDULED with no job; the hour of a post that Facebook is to publish read in the server's zone, after it was checked in
  the post's; a post on a plain queue route, which no
  service accepts unless pages are connected later.
- Platform services: a failed carousel leaves its items behind, as the list to clean up is not assigned yet; photos that could
  not be uploaded are left out of the post, all of them if need be; a failed request is never repeated.
- Organizations: an invitation that expired keeps the address from being invited again; a second revocation for an address is
  refused by the unique key; a former member cannot come back; an acceptance that commits after the organization was deleted adds an active member.
- Accounts: a failed login below the limit lifts a lock set meanwhile; a valid reset token is refused while the database lists
  another pending user first; no verification mail is sent.
- Content: a deletion of media takes the rows of another organization's ids and leaves their assets; the favourite route's DELETE never
    gets its requests; overlapping creations leave two active kits, and an overlap or a failure a stale copy in the cache until it expires;
  an image without an active kit fails; a cached kit that was
  deleted makes the row fail after the image was stored; the AI enhancement of a template never happens, since the text is passed as an id; a
  duplicate belongs to no organization; a value that contains a placeholder is replaced again, `$&` in a value puts the placeholder back, and a
  key with parentheses never matches its own; an optional variable's default is not used.
- Connections: a PATCH that names another user's id at the platform hands the stored pages and tokens to that row; disconnect never changes
  the row; X, Facebook and Instagram callbacks cannot succeed; a LinkedIn answer without an
  expiry fails; a shared page keeps its first account with the other's token; tokens sent to `/social-accounts` are stored as they are.

## 6. What is proved

`SocialSchedulerProofs`, for every set of posts and of requests and all values of the bounds, from the assumptions the
module `SocialScheduler` declares (`PostsAssumption`: there is a post; `RetryAssumption`: `MaxRetries` and `JobAttempts`
are positive naturals; `BoundAssumption`: the bounds are naturals):

- **TypeCorrect**: `Spec => []TypeOK`. One lemma per group of actions; the rows each operation writes are shown to be rows first.
- **AtMostOnce**: `Spec => []AtMostOncePerSchedule`. The property alone is not inductive: from a state
  in which the worker stands before `PublishPost` with `attempted = scheduled` the next step breaks it. `PermitInv` adds what
  excludes such states: while the worker is between the status test and the publication, or while the row is
  SCHEDULED, one permit is still unused; and if the worker is about to publish a row that somebody scheduled again, two are.
  Only five steps matter: `SaveScheduled` issues a permit together with the status that needs one; `FetchPost`
  turns the SCHEDULED of the row into a claim of the worker; `ClaimPost` takes the status off the row and keeps the permit;
  `PublishPost` uses it; `HandlePublishingError` puts no status back. Every other step is covered by `QuietStep`: it neither schedules,
  nor publishes, nor brings the worker past the test.
- **Refinement**: `Spec => ImplementsPermit`, the scheduler implements `PublishPermit`. On the schedule (`pending`) are the posts whose row says
  SCHEDULED, and the one the worker has seen so and not claimed yet; claimed is the post the worker stands before publishing; granted and used are
  the two histories. `SaveScheduled` is a grant, `ClaimPost` a claim, `PublishPost` a use, a crash or a refused claim a drop or a withdrawal. A write of
  any other status withdraws the post or changes nothing (`UnschedulingRefines`), whoever makes it. One worker makes the claims exclusive.

`PostLifecycleProofs`, under the same assumptions, for the composition; what the scheduler's steps preserve is
cited from the module above:

- **LifecycleTypeCorrect**: `LifecycleSpec => []LifecycleTypeOK`, one step per handler action.
- **PendingDecidable**: `LifecycleSpec => []PendingHasRequest`. The property is inductive once the types are known, and the
  argument is a division of the column `status`: the scheduler and the worker write only SCHEDULED, PUBLISHING,
  PUBLISHED, FAILED and CANCELED (`SchedulerStepStatus`, over all their steps), the decisions only APPROVED and DRAFT;
  the one step that writes PENDING_APPROVAL and the two that take a request away (`CommitDecision`,
  `CommitDelete`) change both rows at once. `OneReviewKeeps` and `SchedulerWritesKeep` are the two halves of it.

`SocialSchedulerProofs` again, of the objects at the platform:

- **PublishedLive**: `Spec => []PublishedIsLive`, by `LiveInv`. The danger is a cancel that deletes an object which somebody else then saves as
  published. The invariant says who has an object in hand: a request or the worker that made it and will write it in the row
  (`Saves`, `WorkerSaves`), a cancel that will delete it (`Deletes`). `Owned` says that such an object has one holder, that the row does not
  name it yet, and that no cancel has it; and that a cancel which has the row's object stands beside a row that is not PUBLISHED. This needs
  that an object nobody named was not thought of (`i <= Len(platform[p])`), and `RouteInv`: only posts of Instagram's
  container route have containers, so only there a deletion of a live object is refused by the platform. Steps that take nothing in
  hand and delete nothing are covered by one lemma (`QuietPost`); the creation of an object, its saving and its deletion have their own.

`PostLifecycleProofs` carries the scheduler's theorems over to the composition. A step of `LifecycleNext` is a step inside the scheduler,
whose lemmas are cited, a step that leaves its variables alone, a change of one row's status, or `MarkScheduled`:

- **LifecycleAtMostOnce**, **LifecycleRefinement**, **LifecyclePublishedLive**: the composition keeps `PermitInv` and `LiveInv`. `MarkScheduled` writes
  SCHEDULED a second time and is a grant of its own; a decision, a submission and a deletion never write a status that opens a way.
- **UnapprovedUntouched**: `LifecycleSpec => []NothingUnapproved`. `UntouchedInv` adds what would break it a few steps later: a request of
  the scheduler about such a post other than a cancel, the worker with its job, a handler past the approval.
- **DraftsPublishable**, **DraftsDue**: no invariants but theorems about `PostRouting`. The first: for every account, every draft, and the
  account as it is when the
  worker comes, switched off or with pages meanwhile (`SameConnection`), the worker's service and token are the ones `schedulePost`
  prepared and the service accepts the post again. The second: for every hour and every offset of a zone that `ValidatePostCreation` lets through, a queued
  post waits for the very time that was checked, and one Facebook publishes itself appears at that time if and only if its zone is the
  server's. No run checks them, as they are about no state.

`PlatformServicesProofs`, for every set of calls and media and every bound of the polling loops:

- **ServiceTypeCorrect**, **CarouselsComplete**, by `ServiceInv`: what the step of a call says of its aim and outcome (`Stands`), of its
  object and how often it
  was shown (`Made`), and of its items (`Complete`: an item found finished has no request in flight that could make it anew).
- **OneShotRefinement**: `ServiceSpec => ImplementsOneShot`, step by step; lost answers and the platform's own acts included. `TargetInv`
  (an object another call takes up was a success) is what the guards of the abstract specification need.

`OrganizationProofs`, for every set of users and invitations and every limit, from `CallsAssumption` (the requests that can overlap are finitely many:
sums with their number would mean nothing otherwise):

- **OrganizationTypeCorrect**, **OwnerAlways**: while no requests overlapped, what the open one tested still holds when it writes (`SoloInv`).
- **LimitOvershoot**: `LimitInv` counts those who are active or will be active again (an update that was read before a removal), plus
  the acceptances that passed the test. A test passes only below the limit; each further open request adds one.
- **Invited**: the row of an invitation outlives the departure of its member, and only the founder has none.

`UserAccountProofs`, under the same assumption:

- **LockJustified**: overlapping logins lose each other's counts. The count a login is about to write is at most one more than the failures
  written by then (`RequestInv`), and a row counts no more than those (`RowInv`).
- **PasswordOwned**: what is carried to a write of a password is its user's own, and a token belongs to the user it was issued to.
- **TokenBounded**: the passwords written with a token and the requests that still will write with it are together no more than the
  requests that can overlap; a token that was used is not the stored one and never will be again, since `issued` only grows.

`ContentStudioProofs`, for every set of kits, files, templates and users, from `StudioAssumption` (there is a kit, a file of the
organization and a template, the generated
texts are finitely many so that their writes can be counted, and the model's value for no kit is not a kit), `CallsAssumption` and
`RequestAssumption` (bounds):

- **StudioInvariant**: `StudioSpec => []StudioInv`, which all the others follow from. None of the properties is inductive: each speaks of the
  tables between requests, and what makes it true is what the requests under way hold. `TypeInv` gives the type of what a request carries at
  each of its steps (`Carries`: a kit where a row of a kit is written, a text where a text is written). Four parts hold at any overlap:
  `FilesInv` (a file that is being made has no row and one maker, who keeps its asset; a row without its asset is about to be deleted),
  `TextsInv` (a text is generated by one request; nobody writes back more than was spent), `UsageInv` (the usage lacks exactly what some
  request has still to track) and `TemplatesInv` (a template that is not there yet has one request that writes it). The last, `AloneInv`, says for
  requests one at a time what the open one finds (`Finds`): that the kit it will cache is the active one as it is stored, that the old kits
  were deactivated before a new row, that an asset without a row is its own. Without `overlapped` and `failures` in it, it would be false.
- **StudioTypeCorrect**, **KeepsOneActiveKit**, **CacheStaysActive**, **KeepsMediaAccounted**, **KeepsFavoritesCounted**, **KeepsCostAccounted**,
    **KeepsUsageAccounted**: the invariants of the run `content_studio`. That an asset is its request's own, or `Strayed`, is part of
  `Finds`. There is a lemma for each action; those that leave a service's tables
  alone share one lemma per part of the invariant (`FilesQuiet`, `UsageQuiet`, ...). The counts of favourites, of texts and of
  the requests that still track are cardinalities, which change by one at most (`TrackingMoves`, `WritesGrow`).

`SocialConnectionsProofs`, for every set of people, organizations and pages and every relation between people and pages, from
`ConnectionAssumption` ("none" is no organization's name):

- **PagesOwned**: a callback carries only pages its own user manages, through exchange, profile and sync, unless a PATCH took its account's row
  meanwhile; then the account is in `rewritten` (`Carries`).
- **AnswerConnects**, an action property: a page that is not left to be synced is stored (`SyncInv`); alone, the callback's token
  is newer than every revoked one (`Known`, `Counted`) and stands in the account from the upsert on (`Alone`).

`TextProofs`, for texts, values and rules of any length, from `TextAssumption` (the keys are finitely many, none is one of the other
parts of a text, and an expression matches some placeholders):

- **TextsAreFilled**: if the values pass the validation and are plain, the text shows no placeholder that has a value and none of a required variable,
  and the order of the values does not matter. **ExamplesAreFilled**: the example shows none at all, if the defaults are plain.

*Plain* (`PlainVariables`) is a hypothesis the code does not ensure and the theorems need: the key's expression matches its own placeholder and no
other, and the value has neither a placeholder nor a `$` pattern. With it, a replacement is a `FlatMap(text, f)`, which puts `f[x]` in the
place of each part x
(`ReplaceIsFlatMap`). Two of them in a row are one (`FlatMapTwice`), so replacing the keys one after the other is replacing all at once
(`ReplaceEachIsFlatMap`), as what a value brings in has nothing left to replace (`FillOneMore`). That no placeholder is left is then a matter of types
(`FillingGives`: the result is made of parts that are not among the keys).

The library's theorems of induction take an operator, which the provers cannot instantiate, but its theorem that the naturals are well-founded takes
none: `LeastNumber` draws a least element from it, `NumbersInduction` and `SequencesInduction` state induction with a set in the place of the
predicate, and `LoopRuns` and `LoopIsUnique` give what a recursive function computes. `FlattenSeq` of the library and the loop
over the entries (`ReplaceEach`) are such functions; this is why `ReplaceEach` is written as one and not with the library's folds.

Every safety invariant and action property of the passing runs is proved. Only model-checked is
liveness (`QueueDrains`, `ApprovedMovesOn`, `CallsEnd`, `ExpiredFilesGo`), which is out of the
prover's reach (it supports neither fairness nor ENABLED here). The five violations are TLC counterexamples. The operators of `TemplateText` and
`PostRouting` are pure: what is said of them is proved and not run, but for the routes a created draft can get.

## 7. What is not modelled

Not reached in this build, so that a model would have no behaviour:

- **Billing**: nothing creates a `Subscription` and the endpoint of Stripe's events is commented out; whatever writes ends at 'No subscription found'.
- **Webhooks**: the worker is commented out of `webhook.module.ts`, so accepted events wait in the queue for ever.
- **Messaging**: conversations come only from inbound messages, whose event that worker would emit.
- **Polling**: the module is commented out of `app.module.ts`.
- **Scheduling service, optimizer**: an empty controller, and a class no module provides.
- **Post publishing beyond its first query**, the four platform clients included: that query is always refused (section 2, `PostLifecycle`).
- **Notifications**: the gateways verify sockets with a JWT service that has no secret and refuse every one; no code that is reached emits the events.
- **Verification of addresses**: no such mail is sent. **Refresh of platform tokens**: no caller.

Nothing to check: analytics, permissions (look-ups and one insert), mail, statistics and lists of the modelled services; guards and decorators
are stateless.

Left out of the modelled parts: `updatePost` (content and time, no status; it also edits pending posts, so no fixed content is promised);
`updateProfile`; the times of the last post and poll; session tokens, which are stateless JWTs and outlive a reset; columns nothing
tests (`jobId`, `pageAccountId`, `publishedAt`, `errorMessage`, names, versions, counts of uses); permissions; prompts and prices; how the
text and the hashtags are cut from a model's answer, which is formatting; the unfavourite route, which is not reached.
`SocialScheduler` sees a platform call as one step with the outcomes of section 3; `PlatformServices` shows that this is what a call may do.

## 8. Plan

1. `SocialScheduler`: when a SCHEDULED post keeps its job. It does not if the job is due at once and taken before the row is written; what
   remains true needs the crashes, the skips and the failed job that blocks its id as exceptions.

## 9. Running the checks

```
tlc -workers 2 -config SocialScheduler_safety.cfg MCSocialScheduler.tla
tlc -workers 2 -config SocialScheduler_retry.cfg  MCSocialScheduler.tla     # finds the violation
tlc -workers 2 -config SocialScheduler_cancel.cfg MCSocialScheduler.tla     # finds the violation
tlc -workers 2 -config PostLifecycle.cfg          MCPostLifecycle.tla
tlc -workers 2 -config PostLifecycle_approval.cfg MCPostLifecycle.tla       # finds the violation
tlc -workers 2 -config PostLifecycle_decision.cfg MCPostLifecycle.tla       # finds the violation
tlc -workers 2 -config PlatformServices.cfg       MCPlatformServices.tla
tlc -workers 2 -config Organization_safety.cfg    MCOrganization.tla
tlc -workers 2 -config UserAccount_safety.cfg     MCUserAccount.tla
tlc -workers 2 -config ContentStudio.cfg          MCContentStudio.tla
tlc -workers 2 -config SocialConnections.cfg      MCSocialConnections.tla
tlc -workers 2 -config RateLimit.cfg              RateLimit.tla             # finds the violation
tlapm SocialSchedulerProofs.tla
tlapm PostLifecycleProofs.tla
tlapm PlatformServicesProofs.tla
tlapm OrganizationProofs.tla
tlapm UserAccountProofs.tla
tlapm ContentStudioProofs.tla
tlapm SocialConnectionsProofs.tla
tlapm TextProofs.tla
```
