----------------------------- MODULE OneShotPublish ----------------------------
(* What a service that talks to a social platform promises its caller, without *)
(* the containers, uploads and polling it takes: what one call makes is shown  *)
(* to the public at most once, only while a call that is to publish it is open *)
(* or, for a post the platform itself schedules, after it was handed over; and *)
(* a publication reported as successful has been shown.  A call that fails may *)
(* have shown its post: its last answer can be lost.                           *)
EXTENDS Naturals

CONSTANT Calls

VARIABLES
    aim,      \* [Calls -> Aims], what the call is for
    target,   \* [Calls -> Calls], the call whose post it is about
    outcome,  \* [Calls -> {"none", "open", "success", "failure"}]
    shown     \* [Calls -> Nat], publications of what this call made

oneShotVars == <<aim, target, outcome, shown>>

Aims == {"none", "prepare", "schedule", "publish", "delete"}

OneShotInit ==
    /\ aim = [c \in Calls |-> "none"]
    /\ target = [c \in Calls |-> c]
    /\ outcome = [c \in Calls |-> "none"]
    /\ shown = [c \in Calls |-> 0]

(* A call is answered at once when it is malformed.                            *)
Open(c, a, t) ==
    /\ outcome[c] = "none"
    /\ aim' = [aim EXCEPT ![c] = a]
    /\ target' = [target EXCEPT ![c] = t]
    /\ outcome' = [outcome EXCEPT ![c] = IF a = "none" THEN "failure" ELSE "open"]
    /\ UNCHANGED shown

Close(c, r) ==
    /\ outcome[c] = "open"
    /\ r = "success" /\ aim[c] = "publish" => shown'[target[c]] > 0
    /\ outcome' = [outcome EXCEPT ![c] = r]
    /\ UNCHANGED <<aim, target>>

MayShow(t) ==
    \/ \E c \in Calls : aim[c] = "publish" /\ outcome[c] = "open" /\ target[c] = t
    \/ aim[t] = "schedule" /\ outcome[t] \in {"success", "failure"}

Show(t) ==
    /\ MayShow(t) /\ shown[t] = 0
    /\ shown' = [shown EXCEPT ![t] = 1]
    /\ UNCHANGED <<aim, target>>

OneShotNext ==
    \/ \E c \in Calls, t \in Calls, a \in Aims : Open(c, a, t)
    \/ \E c \in Calls, r \in {"success", "failure"} :
          /\ Close(c, r)
          /\ UNCHANGED shown \/ Show(target[c])
    \/ \E t \in Calls : Show(t) /\ UNCHANGED outcome

OneShotSpec == OneShotInit /\ [][OneShotNext]_oneShotVars

===============================================================================
