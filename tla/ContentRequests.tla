---------------------------- MODULE ContentRequests -----------------------------
(* Requests to the services that prepare content (brand kits, media, AI,       *)
(* templates) for one organization.  Each is a chain of awaited calls: other   *)
(* requests run between them, and any of them can fail and end its request,    *)
(* as a stop of the process does.                                              *)
EXTENDS Naturals, FiniteSets

CONSTANTS
    Calls,       \* requests that can overlap
    MaxCalls,    \* bound on the requests
    MaxFailures  \* bound on the calls that fail

ASSUME RequestAssumption == MaxCalls \in Nat \ {0} /\ MaxFailures \in Nat
ASSUME CallsAssumption == IsFiniteSet(Calls) /\ Calls # {}

VARIABLES
    request,    \* [Calls -> Request]: its next step, and what it carries along
    calls,      \* requests so far
    failures,   \* calls that failed so far
    overlapped  \* history: two requests were ever open together

requestVars == <<request, calls, failures, overlapped>>

(* "for" is the step that waits for the brand kit, "copy" that kit as it was   *)
(* read, "item", "files" and "user" the subject ("user" is also who asks, or   *)
(* the status asked for), "left" the files still to be processed, "seen" the   *)
(* cost that goes into a later write.                                          *)
Nothing == [kit |-> "nothing", version |-> 0]
IdleRequest == [pc |-> "idle", for |-> "idle", copy |-> Nothing, item |-> "nothing",
                user |-> "nothing", files |-> {}, left |-> {}, seen |-> 0]

RequestInit ==
    /\ request = [c \in Calls |-> IdleRequest]
    /\ calls = 0
    /\ failures = 0
    /\ overlapped = FALSE

At(c, pc) == request[c].pc = pc
Open == {c \in Calls : ~At(c, "idle")}

(* A request begins, goes on, or is answered.                                  *)
Begin(c, r) ==
    /\ At(c, "idle")
    /\ calls < MaxCalls
    /\ calls' = calls + 1
    /\ request' = [request EXCEPT ![c] = r]
    /\ overlapped' = (overlapped \/ Open # {})
    /\ UNCHANGED failures

Continue(c, r) ==
    /\ request' = [request EXCEPT ![c] = r]
    /\ UNCHANGED <<calls, failures, overlapped>>

GoTo(c, pc) == Continue(c, [request[c] EXCEPT !.pc = pc])
End(c) == Continue(c, IdleRequest)

(* One of its calls fails, and the request goes on as r.                       *)
Fail(c, r) ==
    /\ failures < MaxFailures
    /\ failures' = failures + 1
    /\ request' = [request EXCEPT ![c] = r]
    /\ UNCHANGED <<calls, overlapped>>

Quiet == Open = {} /\ failures = 0

===============================================================================
