-------------------------------- MODULE Templates -------------------------------
(* Content templates (src/src/templates): rows with the brand kit they use,    *)
(* favourites of users and their count.  A request reads the template, asks    *)
(* about the kit, and writes.  Names, contents, versions and the count of uses *)
(* are left out.                                                               *)
EXTENDS BrandKit, TemplateText, Integers

CONSTANTS
    TemplateIds,  \* ids of templates, each used once
    Users

VARIABLES
    template,  \* [TemplateIds -> TemplateRow]
    favorite   \* the pairs <<user, template>> of UserFavoriteTemplate

templateVars == <<template, favorite>>

Status == {"none", "DRAFT", "ACTIVE", "deleted"}
TemplateRow == [status : Status, kit : Kits \cup {"nothing"}, owned : BOOLEAN, favoriteCount : Int]
NoTemplate == [status |-> "none", kit |-> "nothing", owned |-> FALSE, favoriteCount |-> 0]

HasTemplate(t) == template[t].status \in {"DRAFT", "ACTIVE"}
FreshTemplate(t) == template[t].status = "none" /\ \A c \in Calls : request[c].item # t

(* getTemplateById for the organization.  A copy made by duplicate belongs to  *)
(* none and is not public, so it is found only by its id alone.                *)
GetTemplateById(t) == HasTemplate(t) /\ template[t].owned

-------------------------------------------------------------------------------
(* The kit a template is given must be there.                                  *)
VerifyBrandKitAccess(k) == Exists(k)

(* createTemplate.  That a content can be accepted, see TemplateText.          *)
CreateTemplate(c, t, k) ==
    /\ FreshTemplate(t)
    /\ k = "nothing" \/ VerifyBrandKitAccess(k)
    /\ Begin(c, [IdleRequest EXCEPT !.pc = "templateRow", !.item = t, !.copy.kit = k, !.user = "owned"])
    /\ UNCHANGED <<kitVars, templateVars>>

(* duplicateTemplate gives createTemplate no organization, so the kit of a     *)
(* template that has one is refused.                                           *)
DuplicateTemplate(c, source, t) ==
    /\ GetTemplateById(source) /\ template[source].kit = "nothing"
    /\ FreshTemplate(t)
    /\ Begin(c, [IdleRequest EXCEPT !.pc = "templateRow", !.item = t])
    /\ UNCHANGED <<kitVars, templateVars>>

(* (Mutant: the template's id in the column of the kit's.)                     *)
TemplateRowMixedUp(c) ==
    LET r == request[c] IN
    /\ At(c, "templateRow")
    /\ template' = IF r.copy.kit = "nothing" \/ Exists(r.copy.kit)
                   THEN [template EXCEPT ![r.item] = [NoTemplate EXCEPT
                            !.status = "DRAFT", !.kit = r.item, !.owned = (r.user = "owned")]]
                   ELSE template
    /\ End(c)
    /\ UNCHANGED <<kitVars, favorite>>

TemplateRowWritten(c) ==
    LET r == request[c] IN
    /\ At(c, "templateRow")
    /\ template' = IF r.copy.kit = "nothing" \/ Exists(r.copy.kit)
                   THEN [template EXCEPT ![r.item] = [NoTemplate EXCEPT
                            !.status = "DRAFT", !.kit = r.copy.kit, !.owned = (r.user = "owned")]]
                   ELSE template
    /\ End(c)
    /\ UNCHANGED <<kitVars, favorite>>

(* updateTemplate writes the status and the kit it was given.                  *)
UpdateTemplate(c, t, status, k) ==
    /\ GetTemplateById(t)
    /\ VerifyBrandKitAccess(k) \/ k = template[t].kit
    /\ Begin(c, [IdleRequest EXCEPT !.pc = "updateTemplate", !.item = t, !.copy.kit = k, !.user = status])
    /\ UNCHANGED <<kitVars, templateVars>>

UpdatedRowWritten(c) ==
    LET r == request[c] IN
    /\ At(c, "updateTemplate")
    /\ template' = IF HasTemplate(r.item) /\ (r.copy.kit = "nothing" \/ Exists(r.copy.kit))
                   THEN [template EXCEPT ![r.item].status = r.user, ![r.item].kit = r.copy.kit]
                   ELSE template
    /\ End(c)
    /\ UNCHANGED <<kitVars, favorite>>

(* deleteTemplate takes the favourites with it (onDelete: Cascade).            *)
DeleteTemplate(c, t) ==
    /\ GetTemplateById(t)
    /\ Begin(c, [IdleRequest EXCEPT !.pc = "deleteTemplate", !.item = t])
    /\ UNCHANGED <<kitVars, templateVars>>

TemplateRowDeleted(c) ==
    LET t == request[c].item IN
    /\ At(c, "deleteTemplate")
    /\ template' = [template EXCEPT ![t].status = "deleted"]
    /\ favorite' = {p \in favorite : p[2] # t}
    /\ End(c)
    /\ UNCHANGED kitVars

(* generateFromTemplate fills the text (TemplateText) and counts the use.  With *)
(* the AI it takes the active kit for it, through the cache; the enhancement   *)
(* is then asked for the text in place of an id, finds no row, and the text    *)
(* stays as it was.                                                            *)
EnhanceContentWithAI(c) == GetActiveBrandKit(c, IdleRequest)

GenerateFromTemplate(c, t) ==
    /\ GetTemplateById(t) /\ template[t].status = "ACTIVE"
    /\ EnhanceContentWithAI(c)
    /\ UNCHANGED templateVars

-------------------------------------------------------------------------------
(* favoriteTemplate: any template, then the pair, which is unique, the count.  *)
FavoriteTemplate(c, t, u) ==
    /\ HasTemplate(t)
    /\ Begin(c, [IdleRequest EXCEPT !.pc = "favorite", !.item = t, !.user = u])
    /\ UNCHANGED <<kitVars, templateVars>>

(* (Mutant: a pair that is there is counted once more.)                        *)
FavoriteCountedAgain(c) ==
    /\ At(c, "favorite")
    /\ IF HasTemplate(request[c].item)
       THEN favorite' = favorite \cup {<<request[c].user, request[c].item>>} /\ GoTo(c, "increment")
       ELSE End(c) /\ UNCHANGED favorite
    /\ UNCHANGED <<kitVars, template>>

FavoriteRowWritten(c) ==
    LET pair == <<request[c].user, request[c].item>> IN
    /\ At(c, "favorite")
    /\ IF HasTemplate(request[c].item) /\ pair \notin favorite
       THEN favorite' = favorite \cup {pair} /\ GoTo(c, "increment")
       ELSE End(c) /\ UNCHANGED favorite
    /\ UNCHANGED <<kitVars, template>>

CountFavorite(c) ==
    LET t == request[c].item IN
    /\ At(c, "increment")
    /\ template' = IF HasTemplate(t) THEN [template EXCEPT ![t].favoriteCount = @ + 1] ELSE template
    /\ End(c)
    /\ UNCHANGED <<kitVars, favorite>>

-------------------------------------------------------------------------------
TemplateRequest(c) ==
    \E t \in TemplateIds :
       \/ DeleteTemplate(c, t) \/ GenerateFromTemplate(c, t)
       \/ \E u \in Users : FavoriteTemplate(c, t, u)
       \/ \E source \in TemplateIds : DuplicateTemplate(c, source, t)
       \/ \E k \in Kits \cup {"nothing"} :
             \/ CreateTemplate(c, t, k)
             \/ \E status \in {"DRAFT", "ACTIVE"} : UpdateTemplate(c, t, status, k)

TemplateStep(c) ==
    \/ TemplateRowWritten(c) \/ UpdatedRowWritten(c) \/ TemplateRowDeleted(c)
    \/ FavoriteRowWritten(c) \/ CountFavorite(c)

(* What the deletion of a kit does to the templates (onDelete: SetNull).       *)
KitsDetached ==
    template' = [t \in TemplateIds |-> IF \E k \in Kits : template[t].kit = k /\ kit'[k].state = "deleted"
                                       THEN [template[t] EXCEPT !.kit = "nothing"] ELSE template[t]]

-------------------------------------------------------------------------------
(* Properties.                                                                 *)

Counting(t) == Cardinality({c \in Calls : At(c, "increment") /\ request[c].item = t})

(* The count of a template's favourites is theirs, but for the requests that   *)
(* have written a pair and not yet counted it, however favourites and the      *)
(* deletion of the template overlap, as long as no call fails in between       *)
(* (favoriteCount orders the lists).                                           *)
FavoritesCounted ==
    failures = 0 => \A t \in TemplateIds : HasTemplate(t) =>
        template[t].favoriteCount + Counting(t) = Cardinality({p \in favorite : p[2] = t})

===============================================================================
