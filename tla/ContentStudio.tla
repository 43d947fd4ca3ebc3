----------------------------- MODULE ContentStudio ------------------------------
(* Brand kits, media, AI and templates of one organization together: they      *)
(* share the brand kit's cache and the media table.  Another organization's    *)
(* files are in that table, too.                                               *)
EXTENDS AiContent, Templates

ASSUME StudioAssumption ==
    /\ Kits # {} /\ Files \ Foreign # {} /\ TemplateIds # {}
    /\ "nothing" \notin Kits
    /\ IsFiniteSet(Generations)

studioVars == <<requestVars, kitVars, mediaVars, aiVars, templateVars>>

(* An organization that has just begun, or one that has an active kit, which   *)
(* is in the cache, the other kits, a text, a generated image that will expire,   *)
(* and an active template that a user likes.  Which ids these have is all one. *)
StudioInit ==
    LET k == CHOOSE i \in Kits : TRUE
        f == CHOOSE i \in Files \ Foreign : TRUE
        t == CHOOSE i \in TemplateIds : TRUE
        none == [state |-> "none", expires |-> "never"]
    IN
    /\ RequestInit
    /\ \/ /\ kit = [i \in Kits |-> [state |-> "none", version |-> 0]]
          /\ cache = Nothing
          /\ file = [i \in Files |-> none]
          /\ asset = {} /\ images = {} /\ usage = 0
          /\ generation = [g \in Generations |-> NoGeneration]
          /\ template = [i \in TemplateIds |-> NoTemplate]
          /\ favorite = {}
       \/ /\ kit = [i \in Kits |-> [state |-> IF i = k THEN "active" ELSE "inactive", version |-> 1]]
          /\ cache = CopyOf(k)
          /\ file = [i \in Files |-> IF i = f THEN [state |-> "stored", expires |-> "later"] ELSE none]
          /\ asset = {f} /\ images = {f} /\ usage = 1 + Cardinality(Generations)
          /\ generation = [g \in Generations |-> [cost |-> 1, writes |-> 1]]
          /\ template = [i \in TemplateIds |-> IF i = t
                            THEN [NoTemplate EXCEPT !.status = "ACTIVE", !.owned = TRUE, !.favoriteCount = 1]
                            ELSE NoTemplate]
          /\ \E u \in Users : favorite = {<<u, t>>}

Others == UNCHANGED <<mediaVars, aiVars>>

(* What the users ask for, service by service.                                 *)
Arrive(c) ==
    \/ KitRequest(c) /\ Others /\ UNCHANGED templateVars
    \/ MediaRequest(c) /\ UNCHANGED <<kitVars, aiVars, templateVars>>
    \/ AiRequest(c) /\ UNCHANGED templateVars
    \/ TemplateRequest(c) /\ Others

(* The next call of a request that does not fail.                              *)
Step(c) ==
    \/ KitStep(c) /\ KitsDetached /\ Others /\ UNCHANGED favorite
    \/ (MediaStep(c) \/ CleanupStep(c)) /\ UNCHANGED <<kitVars, aiVars, templateVars>>
    \/ AiStep(c) /\ UNCHANGED templateVars
    \/ TemplateStep(c) /\ Others

(* A call fails: the request ends, where its service does not go on.           *)
StepFails(c) ==
    \/ /\ ~At(c, "idle") /\ Fail(c, IdleRequest)
       /\ UNCHANGED <<kitVars, mediaVars, aiVars, templateVars>>
    \/ MediaFails(c) /\ UNCHANGED <<kitVars, aiVars, templateVars>>

TimePasses ==
    \/ CacheExpires /\ Others /\ UNCHANGED templateVars
    \/ \E f \in Files : FileExpires(f) /\ UNCHANGED <<kitVars, aiVars, templateVars>>

Cleanup(c) == CleanupExpiredFiles(c) /\ UNCHANGED <<kitVars, aiVars, templateVars>>

StudioNext ==
    \/ TimePasses
    \/ \E c \in Calls : Arrive(c) \/ Step(c) \/ StepFails(c) \/ Cleanup(c)

StudioSpec == StudioInit /\ [][StudioNext]_studioVars

(* Awaited calls return, and the scheduler runs the cleanup every night.       *)
StudioFairSpec ==
    /\ StudioSpec
    /\ \A c \in Calls : WF_studioVars(Step(c))
    /\ WF_studioVars(\E c \in Calls : Cleanup(c))

StudioTypeOK ==
    /\ calls \in 0..MaxCalls /\ failures \in 0..MaxFailures /\ overlapped \in BOOLEAN
    /\ kit \in [Kits -> KitRow] /\ cache \in Copy
    /\ file \in [Files -> FileRow] /\ asset \subseteq Files
    /\ generation \in [Generations -> GenerationRow] /\ images \subseteq Files /\ usage \in Nat
    /\ template \in [TemplateIds -> TemplateRow] /\ favorite \subseteq Users \X TemplateIds

===============================================================================
