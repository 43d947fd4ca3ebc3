------------------------------ MODULE PostRouting ------------------------------
(* Which way a post goes: what the posts service lets a draft be (src/src/     *)
(* posts), which of the three routes the scheduler sends it on, with which     *)
(* service of a platform and which credentials (src/src/social-scheduler).     *)
(* Everything is decided from the post's row and the account's, each time      *)
(* again: by schedulePost, by the worker and by publishImmediately.            *)
EXTENDS Integers

Platforms == {"META", "FACEBOOK", "INSTAGRAM", "LINKEDIN", "X"}

(* page: the first of the account's pages, which only Meta's accounts have,    *)
(* with or without an Instagram account linked to it.                          *)
SocialAccount ==
    {a \in [platform : Platforms, accountType : {"PAGE", "PROFILE"},
            page : {"none", "page", "instagram"}, isActive : BOOLEAN] :
        a.page # "none" => a.platform = "META"}

(* The body of the request; override is a platform in its own metadata, which  *)
(* is written over the checked one.  scheduledAt is a string that names an     *)
(* hour and no zone; here it is counted from the present hour in UTC, so it is *)
(* the instant scheduledAt - z when it is read in a zone of offset z.          *)
Override == Platforms \cup {"NONE"}
CreatePostDto ==
    [platform : Platforms, override : Override, media : {"none", "own", "foreign"},
     timed : BOOLEAN, scheduledAt : -1..1, timezone : -1..1]

PlatformMismatch(account, dto) ==
    IF account.platform = "META" THEN dto.platform \notin {"FACEBOOK", "INSTAGRAM"}
                                 ELSE dto.platform # account.platform

InZone(hour, zone) == hour - zone

(* fromZonedTime: the hour is read in the zone of the request.                 *)
TimeHasPassed(dto) == dto.timed /\ InZone(dto.scheduledAt, dto.timezone) < 0

ValidateMediaFiles(dto) == dto.media # "foreign"

ValidatePostCreation(account, dto) ==
    /\ account.isActive
    /\ ~PlatformMismatch(account, dto)
    /\ ~TimeHasPassed(dto)
    /\ ValidateMediaFiles(dto)

(* The row of the draft, as far as the scheduler looks at it.                  *)
DraftOf(dto) ==
    [platform |-> IF dto.override # "NONE" THEN dto.override ELSE dto.platform,
     scheduledAt |-> dto.scheduledAt, timezone |-> dto.timezone]

-------------------------------------------------------------------------------
(* The scheduler.                                                              *)
TargetPlatform(draft) == IF draft.platform = "INSTAGRAM" THEN "INSTAGRAM" ELSE "FACEBOOK"

CanUseNativeScheduling(account, draft) ==
    /\ account.platform = "META" /\ account.accountType = "PAGE"
    /\ account.page # "none"
    /\ TargetPlatform(draft) # "INSTAGRAM"

Route(account, draft) ==
    IF TargetPlatform(draft) = "INSTAGRAM" THEN "INSTAGRAM_CONTAINER"
    ELSE IF CanUseNativeScheduling(account, draft) THEN "NATIVE" ELSE "BULLMQ"

(* moment.tz(scheduledAt, timezone): the hour is read in the zone the row      *)
(* kept; a time that has passed is no delay.  (Without a time the delay is not *)
(* a number; nothing here is about that.)                                      *)
CalculateDelay(draft) ==
    LET time == InZone(draft.scheduledAt, draft.timezone) IN IF time > 0 THEN time ELSE 0

(* What buildScheduledPost passes to Facebook has no zone: new Date(...) reads *)
(* the hour in the server's, an offset of ServerZone.                          *)
ScheduledPublishTime(draft, ServerZone) == InZone(draft.scheduledAt, ServerZone)

(* The parts of a platform post the services ask for: whose token it carries,  *)
(* and the ids of the page and of the Instagram account, if it has them.       *)
PlatformPost(token, pageId, instagramId) ==
    [token |-> token, pageId |-> pageId, instagramBusinessId |-> instagramId]

PrepareMetaPlatformPost(account, draft) ==
    IF account.page = "none" THEN PlatformPost("account", FALSE, FALSE)
    ELSE PlatformPost("page", TRUE,
                      TargetPlatform(draft) = "INSTAGRAM" /\ account.page = "instagram")

PrepareGenericPlatformPost == PlatformPost("account", FALSE, FALSE)

PreparePlatformPost(account, draft) ==
    IF account.platform = "META" THEN PrepareMetaPlatformPost(account, draft)
                                 ELSE PrepareGenericPlatformPost

(* What native scheduling sends instead.                                       *)
BuildScheduledPost == PlatformPost("page", TRUE, FALSE)

RegisteredService(name) ==
    CASE name = "META" -> "facebook"
      [] name = "INSTAGRAM" -> "instagram"
      [] OTHER -> "none"

ResolvePlatformService(account, draft) ==
    IF account.platform = "META" /\ TargetPlatform(draft) = "INSTAGRAM" THEN "instagram"
    ELSE RegisteredService(account.platform)

(* validateRequiredFields and validateFacebookPost.                            *)
Accepts(service, platformPost) ==
    CASE service = "instagram" -> platformPost.instagramBusinessId
      [] service = "facebook" -> platformPost.pageId
      [] service = "none" -> FALSE

(* The post that schedulePost hands to a service, the service, and the hours   *)
(* until it is to appear; one that is only queued has no service.              *)
ScheduledWith(account, draft, ServerZone) ==
    CASE Route(account, draft) = "INSTAGRAM_CONTAINER" ->
            [service |-> "instagram", post |-> PreparePlatformPost(account, draft),
             due |-> CalculateDelay(draft)]
      [] Route(account, draft) = "NATIVE" ->
            [service |-> ResolvePlatformService(account, draft), post |-> BuildScheduledPost,
             due |-> ScheduledPublishTime(draft, ServerZone)]
      [] OTHER -> [service |-> "none", post |-> PrepareGenericPlatformPost,
                   due |-> CalculateDelay(draft)]

-------------------------------------------------------------------------------
(* Between schedulePost and the worker the account may have been switched on   *)
(* or off and pages may have been connected to it, its first page still first. *)
SameConnection(account, later) ==
    /\ later.platform = account.platform /\ later.accountType = account.accountType
    /\ account.page # "none" => later.page = account.page

(* What schedulePost has created at a platform the worker finds again, from    *)
(* the account as it is by then: it resolves the same service, which accepts   *)
(* its post, with the same token; and no post is queued without a container to *)
(* a service that wants one (resolvePlatformService, preparePlatformPost).     *)
PublishedAsScheduled(account, later, draft, ServerZone) ==
    LET prepared == ScheduledWith(account, draft, ServerZone)
        platformPost == PreparePlatformPost(later, draft)
    IN
    /\ Accepts(prepared.service, prepared.post) =>
          /\ ResolvePlatformService(later, draft) = prepared.service
          /\ Accepts(prepared.service, platformPost)
          /\ platformPost.token = prepared.post.token
    /\ Route(account, draft) = "BULLMQ" => ~Accepts("instagram", platformPost)

(* The time createPost checked is the time the post waits for: on the queue's  *)
(* routes in every zone, on the native one only in the server's.               *)
DueAsChecked(account, dto, ServerZone) ==
    LET due == ScheduledWith(account, DraftOf(dto), ServerZone).due IN
    IF Route(account, DraftOf(dto)) = "NATIVE"
    THEN due = InZone(dto.scheduledAt, dto.timezone) <=> dto.timezone = ServerZone
    ELSE due = InZone(dto.scheduledAt, dto.timezone)

===============================================================================
