----------------------------- MODULE PublishPermit -----------------------------
(* What the scheduler promises about automatic publication, and nothing else:  *)
(* a post is handed to the platform only while it is claimed, one post is      *)
(* claimed at a time, a claim takes the post off the schedule and is used      *)
(* once.  So a post scheduled twice before it is claimed goes out once, and a  *)
(* post that was withdrawn, cancelled say, before its claim does not go out    *)
(* until it is scheduled again.  The status column, the queue, BullMQ's own    *)
(* retries and its stalled-job recovery do not appear here; SocialScheduler    *)
(* implements it.                                                              *)
EXTENDS Naturals

CONSTANT Posts

VARIABLES
    pending,  \* posts on the schedule: the next claim may take them
    claimed,  \* the post about to be handed to the platform, if there is one
    granted,  \* [Posts -> Nat] times the post was put on the schedule
    used      \* [Posts -> Nat] times it was handed to the platform

permitVars == <<pending, claimed, granted, used>>

Init ==
    /\ pending = {} /\ claimed = {}
    /\ granted = [p \in Posts |-> 0]
    /\ used = [p \in Posts |-> 0]

Grant(p) ==
    /\ pending' = pending \cup {p}
    /\ granted' = [granted EXCEPT ![p] = @ + 1]
    /\ UNCHANGED <<claimed, used>>

Withdraw(p) ==
    /\ p \in pending
    /\ pending' = pending \ {p}
    /\ UNCHANGED <<claimed, granted, used>>

Claim(p) ==
    /\ p \in pending /\ claimed = {}
    /\ pending' = pending \ {p}
    /\ claimed' = {p}
    /\ UNCHANGED <<granted, used>>

Use(p) ==
    /\ p \in claimed
    /\ claimed' = {}
    /\ used' = [used EXCEPT ![p] = @ + 1]
    /\ UNCHANGED <<pending, granted>>

(* The process that claimed the post died.                                     *)
Drop ==
    /\ claimed # {}
    /\ claimed' = {}
    /\ UNCHANGED <<pending, granted, used>>

Next == Drop \/ \E p \in Posts : Grant(p) \/ Withdraw(p) \/ Claim(p) \/ Use(p)

Spec == Init /\ [][Next]_permitVars

===============================================================================
