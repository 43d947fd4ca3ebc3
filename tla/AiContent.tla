------------------------------- MODULE AiContent --------------------------------
(* Texts and images made by models (src/src/ai): each request takes the active *)
(* brand kit, as the cache has it, calls the model, stores the result and its  *)
(* cost, and tracks the usage.  A model call costs one unit.  The rate limiter *)
(* is asked first and lets every call through (module RateLimit).              *)
EXTENDS BrandKit, MediaLibrary

CONSTANTS Generations  \* ids of AiContentGeneration rows

VARIABLES
    generation,  \* [Generations -> GenerationRow]; writes is a history
    images,      \* AiImageGeneration rows, by file
    usage        \* cost in the AIUsage rows

aiVars == <<generation, images, usage>>

GenerationRow == [cost : Nat, writes : Nat]
NoGeneration == [cost |-> 0, writes |-> 0]
Written(g) == generation[g] # NoGeneration

(* A row may refer to no kit, or to one that is still there (foreign key).     *)
KitStored(r) == r.copy = Nothing \/ Exists(r.copy.kit)

-------------------------------------------------------------------------------
(* generateContent: without a kit there is a default one.                      *)
GenerateContent(c, g) ==
    /\ ~Written(g) /\ \A d \in Calls : request[d].item # g
    /\ GetActiveBrandKit(c, [IdleRequest EXCEPT !.for = "generate", !.item = g])
    /\ UNCHANGED <<mediaVars, aiVars>>

GenerationRowWritten(c) ==
    /\ At(c, "generate")
    /\ IF KitStored(request[c])
       THEN /\ generation' = [generation EXCEPT ![request[c].item] =
                                [cost |-> 1, writes |-> 1]]
            /\ Continue(c, [IdleRequest EXCEPT !.pc = "trackUsage"])
       ELSE End(c) /\ UNCHANGED generation
    /\ UNCHANGED <<kitVars, mediaVars, images, usage>>

(* enhanceContent reads the row; without an active kit it throws.              *)
EnhanceContent(c, g) ==
    /\ GetActiveBrandKit(c, [IdleRequest EXCEPT !.for = "enhance", !.item = g])
    /\ UNCHANGED <<mediaVars, aiVars>>

ReadGeneration(c) ==
    LET r == request[c] IN
    /\ At(c, "enhance")
    /\ IF Written(r.item) /\ r.copy # Nothing
       THEN Continue(c, [r EXCEPT !.pc = "enhanceRow", !.seen = generation[r.item].cost])
       ELSE End(c)
    /\ UNCHANGED <<kitVars, mediaVars, aiVars>>

(* The cost that was read, and the new one.  (Mutant: the new one alone.)      *)
OwnCost(seen) == 1
TotalCost(seen) == seen + 1

(* The caller may say not to track it; none does.  (Mutant: that is the default.) *)
UntrackedEnhancement == IdleRequest
AfterEnhancement == [IdleRequest EXCEPT !.pc = "trackUsage"]

EnhancedRowWritten(c) ==
    LET g == request[c].item IN
    /\ At(c, "enhanceRow")
    /\ generation' = [generation EXCEPT ![g].cost = TotalCost(request[c].seen), ![g].writes = @ + 1]
    /\ Continue(c, AfterEnhancement)
    /\ UNCHANGED <<kitVars, mediaVars, images, usage>>

-------------------------------------------------------------------------------
(* generateImage: without an active kit the prompt cannot be built.            *)
GenerateImage(c, f) ==
    /\ f \in Fresh \ Foreign
    /\ GetActiveBrandKit(c, [IdleRequest EXCEPT !.for = "image", !.files = {f}, !.item = f])
    /\ UNCHANGED <<mediaVars, aiVars>>

UploadImage(c) ==
    /\ At(c, "image")
    /\ IF request[c].copy = Nothing
       THEN End(c) /\ UNCHANGED asset
       ELSE /\ asset' = asset \cup request[c].files
            /\ GoTo(c, "imageRow")
    /\ UNCHANGED <<kitVars, file, aiVars>>

ImageRowWritten(c) ==
    /\ At(c, "imageRow")
    /\ IF KitStored(request[c])
       THEN images' = images \cup request[c].files /\ GoTo(c, "imageFile")
       ELSE End(c) /\ UNCHANGED images
    /\ UNCHANGED <<kitVars, mediaVars, generation, usage>>

ImageFileWritten(c) ==
    /\ At(c, "imageFile")
    /\ StoreRows(request[c].files, "later")
    /\ Continue(c, [IdleRequest EXCEPT !.pc = "trackUsage"])
    /\ UNCHANGED <<kitVars, asset, aiVars>>

(* trackUsage, whose failure is only logged.                                   *)
TrackUsage(c) ==
    /\ At(c, "trackUsage")
    /\ usage' = usage + 1
    /\ End(c)
    /\ UNCHANGED <<kitVars, mediaVars, generation, images>>

-------------------------------------------------------------------------------
AiRequest(c) ==
    \/ \E g \in Generations : GenerateContent(c, g) \/ EnhanceContent(c, g)
    \/ \E f \in Files : GenerateImage(c, f)

AiStep(c) ==
    \/ GenerationRowWritten(c) \/ ReadGeneration(c) \/ EnhancedRowWritten(c)
    \/ UploadImage(c) \/ ImageRowWritten(c) \/ ImageFileWritten(c) \/ TrackUsage(c)

-------------------------------------------------------------------------------
(* Properties.                                                                 *)

(* What a text has cost is what the calls for it cost, 'accumulate total       *)
(* cost': enhancements that overlap may lose each other's, but not more, and   *)
(* one at a time none is lost, whatever fails.                                 *)
CostAccounted ==
    \A g \in Generations :
        IF overlapped THEN generation[g].cost <= generation[g].writes
                      ELSE generation[g].cost = generation[g].writes

(* As long as nothing fails the usage of the organization has every text,      *)
(* enhancement and image, of overlapping requests too (AIUsage, from which the *)
(* monthly cost is summed).                                                    *)
TextsWritten == UNION {{g} \X (1..generation[g].writes) : g \in Generations}

UsageAccounted == Quiet => usage = Cardinality(TextsWritten) + Cardinality(images)

===============================================================================
