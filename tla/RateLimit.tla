------------------------------- MODULE RateLimit --------------------------------
(* The counters of src/src/rate-limit: one key in Redis per action, counted by *)
(* a script and gone when its window ends.  The actions are those of one       *)
(* organization and user.                                                      *)
EXTENDS Naturals

CONSTANTS
    Actions,      \* "content_generation" and the others
    ActionLimit,  \* PLATFORM_RATE_LIMITS.AI.content_generation and the others
    DefaultLimit  \* PLATFORM_RATE_LIMITS.GENERAL.default

VARIABLES
    used,     \* [Actions -> 0..Limit], the counters
    admitted  \* history: [Actions -> Nat], calls let through in this window

limitVars == <<used, admitted>>

LimitInit == used = [a \in Actions |-> 0] /\ admitted = [a \in Actions |-> 0]

(* getLimitConfig looks the platform up under the name that another table has  *)
(* for it, but that is in small letters and the configuration's are not: the   *)
(* general default is the limit of every action.                               *)
PLATFORM_KEY_MAP == [AI |-> "ai", API |-> "api", GENERAL |-> "general"]
PLATFORM_RATE_LIMITS == {"INSTAGRAM", "FACEBOOK", "LINKEDIN", "X", "AI", "API", "GENERAL"}
GetLimitConfig(name) ==
    IF PLATFORM_KEY_MAP[name] \in PLATFORM_RATE_LIMITS THEN ActionLimit ELSE DefaultLimit

Limit == GetLimitConfig("AI")

(* The script counts up to the limit and then answers the limit.               *)
Counted(a) == IF used[a] >= Limit THEN used[a] ELSE used[a] + 1
Exceeds(count) == count > Limit

(* checkLimit lets the call through; a call it refuses changes nothing.        *)
CheckLimit(a) ==
    /\ ~Exceeds(Counted(a))
    /\ used' = [used EXCEPT ![a] = Counted(a)]
    /\ admitted' = [admitted EXCEPT ![a] = @ + 1]

WindowEnds(a) ==
    /\ used[a] # 0
    /\ used' = [used EXCEPT ![a] = 0]
    /\ admitted' = [admitted EXCEPT ![a] = 0]

LimitNext == \E a \in Actions : CheckLimit(a) \/ WindowEnds(a)

LimitSpec == LimitInit /\ [][LimitNext]_limitVars

-------------------------------------------------------------------------------
(* 'Rate limit exceeded': no more calls than the limit get through in one      *)
(* window (checkLimit).  The script never answers more than the limit and the  *)
(* test asks for more, so none is refused.                                     *)
CallsWithinLimit == \A a \in Actions : admitted[a] <= Limit

===============================================================================
