-------------------------------- MODULE BrandKit --------------------------------
(* Brand kits of an organization (src/src/brand-kit) and the copy of the       *)
(* active one that Redis keeps for five minutes.  Every operation writes the   *)
(* table first and the cache in a later step, and only activate uses a         *)
(* transaction: requests overlap between the steps, and any step can fail.     *)
EXTENDS ContentRequests

CONSTANTS Kits  \* ids of brand kits; one that was deleted does not come back

VARIABLES
    kit,    \* [Kits -> KitRow]
    cache   \* the key brandkit:<organization>: a copy of a row, or nothing

kitVars == <<kit, cache>>

KitState == {"none", "active", "inactive", "deleted"}
KitRow == [state : KitState, version : 0..MaxCalls]
Copy == [kit : Kits \cup {"nothing"}, version : 0..MaxCalls]

Exists(k) == k \in Kits /\ kit[k].state \in {"active", "inactive"}
Active == {k \in Kits : kit[k].state = "active"}
CopyOf(k) == [kit |-> k, version |-> kit[k].version]

-------------------------------------------------------------------------------
(* create: deactivate the active kits, insert the new one, cache it.           *)
CreateBrandKit(c, k) ==
    /\ kit[k].state = "none" /\ \A d \in Calls : request[d].copy.kit # k
    /\ Begin(c, [IdleRequest EXCEPT !.pc = "createKitRow", !.copy.kit = k])
    /\ kit' = [i \in Kits |-> IF i \in Active THEN [kit[i] EXCEPT !.state = "inactive"] ELSE kit[i]]
    /\ UNCHANGED cache

CreateKitRow(c) ==
    LET k == request[c].copy.kit IN
    /\ At(c, "createKitRow")
    /\ kit[k].state = "none"
    /\ kit' = [kit EXCEPT ![k] = [state |-> "active", version |-> 1]]
    /\ Continue(c, [request[c] EXCEPT !.pc = "cacheRow", !.copy.version = 1])
    /\ UNCHANGED cache

(* What follows getActiveBrandKit: nothing for a plain read or a template.     *)
AfterKit(r) == IF r.for = "idle" THEN IdleRequest ELSE [r EXCEPT !.pc = r.for]

CacheRow(c) ==
    /\ At(c, "cacheRow")
    /\ cache' = request[c].copy
    /\ Continue(c, AfterKit(request[c]))
    /\ UNCHANGED kit

(* getActiveBrandKit: the cached copy, else the first active row, else null.   *)
GetActiveBrandKit(c, r) ==
    /\ Begin(c, IF cache # Nothing THEN AfterKit([r EXCEPT !.copy = cache])
                                   ELSE [r EXCEPT !.pc = "readActive"])
    /\ UNCHANGED kitVars

ReadActive(c) ==
    /\ At(c, "readActive")
    /\ \/ \E k \in Active :
             Continue(c, [request[c] EXCEPT !.pc = "cacheRow", !.copy = CopyOf(k)])
       \/ Active = {} /\ Continue(c, AfterKit(request[c]))
    /\ UNCHANGED kitVars

(* update: the row, then the cache if the row is active.  (Mutant: always.)    *)
CachesUpdateAlways(k) == TRUE
CachesUpdate(k) == k \in Active

UpdateBrandKit(c, k) ==
    /\ Exists(k) /\ kit[k].version < MaxCalls
    /\ kit' = [kit EXCEPT ![k].version = @ + 1]
    /\ Begin(c, IF CachesUpdate(k)
                THEN [IdleRequest EXCEPT !.pc = "cacheRow",
                                         !.copy = [kit |-> k, version |-> kit[k].version + 1]]
                ELSE IdleRequest)
    /\ UNCHANGED cache

(* deactivate: the kit is active, and another one is, then the write.          *)
DeactivateBrandKit(c, k) ==
    /\ k \in Active
    /\ Begin(c, [IdleRequest EXCEPT !.pc = "countActive", !.copy.kit = k])
    /\ UNCHANGED kitVars

(* (Mutant: the only active kit may go.)                                       *)
MayDeactivateAny == TRUE
MayDeactivate == Cardinality(Active) # 1

CountActive(c) ==
    /\ At(c, "countActive")
    /\ IF MayDeactivate THEN GoTo(c, "deactivateRow") ELSE End(c)
    /\ UNCHANGED kitVars

DeactivateRow(c) ==
    LET k == request[c].copy.kit IN
    /\ At(c, "deactivateRow")
    /\ IF Exists(k) THEN /\ kit' = [kit EXCEPT ![k].state = "inactive"]
                         /\ Continue(c, [IdleRequest EXCEPT !.pc = "dropCache"])
                    ELSE End(c) /\ UNCHANGED kit
    /\ UNCHANGED cache

(* activate, in a transaction that a missing kit rolls back.                   *)
ActivateBrandKit(c, k) ==
    /\ Exists(k)
    /\ kit' = [i \in Kits |-> IF i = k THEN [kit[i] EXCEPT !.state = "active"]
                              ELSE IF i \in Active THEN [kit[i] EXCEPT !.state = "inactive"]
                              ELSE kit[i]]
    /\ Begin(c, [IdleRequest EXCEPT !.pc = "dropCache"])
    /\ UNCHANGED cache

(* delete: not the active kit, as it was read.                                 *)
DeleteBrandKit(c, k) ==
    /\ Exists(k) /\ k \notin Active
    /\ Begin(c, [IdleRequest EXCEPT !.pc = "deleteKitRow", !.copy.kit = k])
    /\ UNCHANGED kitVars

DeleteKitRow(c) ==
    LET k == request[c].copy.kit IN
    /\ At(c, "deleteKitRow")
    /\ IF Exists(k) THEN /\ kit' = [kit EXCEPT ![k].state = "deleted"]
                         /\ Continue(c, [IdleRequest EXCEPT !.pc = "dropCache"])
                    ELSE End(c) /\ UNCHANGED kit
    /\ UNCHANGED cache

DropCache(c) ==
    /\ At(c, "dropCache")
    /\ cache' = Nothing
    /\ End(c)
    /\ UNCHANGED kit

(* The five minutes of the key are over.                                       *)
CacheExpires ==
    /\ cache # Nothing
    /\ cache' = Nothing
    /\ UNCHANGED <<kit, requestVars>>

-------------------------------------------------------------------------------
KitRequest(c) ==
    \/ GetActiveBrandKit(c, IdleRequest)
    \/ \E k \in Kits : \/ CreateBrandKit(c, k) \/ UpdateBrandKit(c, k) \/ DeactivateBrandKit(c, k)
                       \/ ActivateBrandKit(c, k) \/ DeleteBrandKit(c, k)

KitStep(c) == \/ CreateKitRow(c) \/ CacheRow(c) \/ ReadActive(c) \/ CountActive(c)
              \/ DeactivateRow(c) \/ DeleteKitRow(c) \/ DropCache(c)

-------------------------------------------------------------------------------
(* Properties.                                                                 *)

(* While requests come one at a time at most one kit is active; and if none of *)
(* their steps failed either, there is one as soon as there is a kit at all:   *)
(* create, activate, deactivate and delete together never leave none.          *)
OneActiveKit ==
    ~overlapped =>
        /\ Cardinality(Active) <= 1
        /\ Quiet /\ (\E k \in Kits : Exists(k)) => Active # {}

(* While requests come one at a time and no step fails, what the cache serves  *)
(* between them is the active kit as it is stored, however the operations that *)
(* fill, refresh and drop the cache follow each other.                         *)
CacheIsActive ==
    ~overlapped /\ Quiet => cache = Nothing \/ \E k \in Active : cache = CopyOf(k)
(* When they do overlap or fail the cache can hold a kit that was deactivated, *)
(* deleted or changed, until its time is over.                                 *)

===============================================================================
