-------------------------- MODULE ContentStudioProofs --------------------------
(* Proofs about ContentStudio, for every set of kits, files, templates and     *)
(* users, and every finite set of overlapping requests.                        *)
EXTENDS ContentStudio, FiniteSetTheorems, TLAPS

-------------------------------------------------------------------------------
(* The inductive invariant: the requests.                                      *)

KitPcs == {"createKitRow", "countActive", "deactivateRow", "deleteKitRow", "cacheRow"}
MediaPcs == {"upload", "destroy", "cleanup", "cleanupRow"}
CountPcs == {"increment"}
TemplatePcs == {"updateTemplate", "deleteTemplate", "favorite"} \cup CountPcs
Pcs == {"idle", "readActive", "dropCache", "trackUsage", "templateRow",
        "generate", "enhance", "enhanceRow", "image", "imageRow", "imageFile"}
       \cup KitPcs \cup MediaPcs \cup TemplatePcs

Request == [pc : Pcs, for : {"idle", "generate", "enhance", "image"}, copy : Copy,
            item : Files \cup Generations \cup TemplateIds \cup {"nothing"},
            user : Users \cup {"owned", "DRAFT", "ACTIVE", "other", "nothing"},
            files : SUBSET Files, left : SUBSET Files, seen : Nat]

(* What waits for a kit and what goes on with it.                              *)
Stages(for) ==
    {"readActive", "cacheRow"} \cup
    (IF for = "generate" THEN {"generate"}
     ELSE IF for = "enhance" THEN {"enhance", "enhanceRow"}
     ELSE {"image", "imageRow", "imageFile"})

Carries(r) ==
    /\ r.pc \in KitPcs => r.copy.kit \in Kits
    /\ r.pc = "readActive" => r.copy = Nothing
    /\ r.for # "idle" => r.pc \in Stages(r.for)
    /\ r.pc \in {"generate", "enhance", "image"} => r.for = r.pc
    /\ r.pc = "enhanceRow" => r.for = "enhance"
    /\ r.pc \in {"imageRow", "imageFile"} => r.for = "image"
    /\ r.for \in {"generate", "enhance"} => r.item \in Generations
    /\ r.pc \in TemplatePcs \cup {"templateRow"} => r.item \in TemplateIds
    /\ r.pc = "updateTemplate" => r.user \in {"DRAFT", "ACTIVE"}
    /\ r.pc = "favorite" => r.user \in Users
    /\ r.left \subseteq r.files
    /\ r.pc \in {"cleanup", "cleanupRow"} => r.left = {}
    /\ r.pc = "cleanupRow" => r.item \in r.files

TypeInv == StudioTypeOK /\ request \in [Calls -> Request] /\ \A c \in Calls : Carries(request[c])

-------------------------------------------------------------------------------
(* The inductive invariant: what holds however requests overlap.               *)

(* A file that is being made has no row yet, no other request makes it, and    *)
(* what was uploaded stays there until the row is written.                     *)
Makes(r) == r.pc = "upload" \/ r.for = "image"

MakerOK(r) ==
    /\ Makes(r) => \A f \in r.files : file[f].state = "none"
    /\ r.pc = "upload" => r.files \ r.left \subseteq asset
    /\ r.pc \in {"imageRow", "imageFile"} => r.files \subseteq asset

(* Only files that had a row lose their asset.                                 *)
DestroyerOK(r) ==
    /\ r.pc = "destroy" => \A f \in r.left : file[f].state # "none"
    /\ r.pc \in {"cleanup", "cleanupRow"} => \A f \in r.files : file[f].state # "none"

(* A row without its asset is about to be deleted.                             *)
Drops(r, f) == (r.pc = "destroy" /\ f \in r.files) \/ (r.pc = "cleanupRow" /\ r.item = f)

FilesInv ==
    /\ \A c \in Calls : MakerOK(request[c]) /\ DestroyerOK(request[c])
    /\ \A c, d \in Calls : Makes(request[c]) /\ Makes(request[d]) /\ c # d =>
          request[c].files \cap request[d].files = {}
    /\ failures = 0 => \A f \in Stored \ asset : \E c \in Calls : Drops(request[c], f)

(* A text is generated once, and no enhancement writes more than was spent.    *)
TextOK(r) ==
    /\ r.for = "generate" => ~Written(r.item)
    /\ r.pc = "enhanceRow" => Written(r.item) /\ r.seen <= generation[r.item].writes

TextsInv ==
    /\ \A g \in Generations : generation[g].cost <= generation[g].writes
    /\ \A c \in Calls : TextOK(request[c])
    /\ \A c, d \in Calls :
          /\ request[c].for = "generate" /\ request[d].for = "generate"
          /\ request[c].item = request[d].item
          => c = d

(* The usage lacks what some request has still to track; an image has one row, *)
(* of the request that makes its file.                                         *)
Tracks(r) == r.pc \in {"trackUsage", "imageFile"}
Tracking == {c \in Calls : Tracks(request[c])}

ImageOK(r) == r.for = "image" => r.files = {r.item} /\ (r.pc # "imageFile" => r.item \notin images)

UsageInv ==
    /\ IsFiniteSet(TextsWritten) /\ IsFiniteSet(images)
    /\ \A f \in images : f \in asset \/ file[f].state # "none"
    /\ \A c \in Calls : ImageOK(request[c])
    /\ failures = 0 => usage + Cardinality(Tracking) = Cardinality(TextsWritten) + Cardinality(images)

(* A template that is not there yet has one request that will write it, and no *)
(* other; favourites are of templates that are or were there.                  *)
TemplateOK(r) ==
    /\ r.pc = "templateRow" => template[r.item].status = "none"
    /\ r.pc \in TemplatePcs => template[r.item].status # "none"

TemplatesInv ==
    /\ IsFiniteSet(favorite)
    /\ \A p \in favorite : template[p[2]].status # "none"
    /\ \A c \in Calls : TemplateOK(request[c])
    /\ \A c, d \in Calls :
          At(c, "templateRow") /\ At(d, "templateRow") /\ request[c].item = request[d].item => c = d

-------------------------------------------------------------------------------
(* The inductive invariant: what one request at a time, r, finds.              *)

CacheCurrent == cache = Nothing \/ \E k \in Active : cache = CopyOf(k)

KitsFor(r) ==
    /\ \A k, l \in Active : k = l
    /\ r.pc = "createKitRow" => Active = {}
    /\ r.pc = "cacheRow" => \E k \in Active : r.copy = CopyOf(k)
    /\ r.pc = "countActive" => r.copy.kit \in Active
    /\ r.pc # "deactivateRow"
    /\ r.pc = "deleteKitRow" => r.copy.kit \notin Active

UnfailedKitsFor(r) ==
    /\ r.pc \notin {"createKitRow", "cacheRow", "dropCache"} => CacheCurrent
    /\ r.pc # "createKitRow" /\ (\E k \in Kits : Exists(k)) => Active # {}
    /\ r.pc \in {"image", "imageRow"} => KitStored(r)

UnfailedFilesFor(r) ==
    /\ \A f \in asset \ (Stored \cup Strayed) : r.pc \in {"upload", "imageRow", "imageFile"} /\ f \in r.files
    /\ r.pc = "destroy" => \A f \in r.files \cap Stored \cap Library(r.user) : f \in r.left \/ f \notin asset
    /\ r.pc = "cleanupRow" => r.item \notin asset

TextsFor(r) ==
    /\ \A g \in Generations : generation[g].cost = generation[g].writes
    /\ r.pc = "enhanceRow" => r.seen = generation[r.item].cost

Finds(r) ==
    /\ KitsFor(r) /\ TextsFor(r)
    /\ failures = 0 => UnfailedKitsFor(r) /\ UnfailedFilesFor(r)

AloneInv ==
    ~overlapped =>
        /\ \A c, d \in Calls : At(c, "idle") \/ At(d, "idle") \/ c = d
        /\ \A c \in Calls : Open \subseteq {c} => Finds(request[c])

StudioInv ==
    TypeInv /\ FilesInv /\ TextsInv /\ UsageInv /\ TemplatesInv /\ FavoritesCounted /\ AloneInv

-------------------------------------------------------------------------------
(* Requests and their rows.                                                    *)

LEMMA IdleRow ==
    /\ IdleRequest \in Request /\ Carries(IdleRequest)
    /\ IdleRequest.pc = "idle" /\ IdleRequest.for = "idle" /\ IdleRequest.files = {}
    /\ IdleRequest.copy = Nothing /\ Nothing \in Copy
BY RequestAssumption DEF IdleRequest, Nothing, Request, Carries, Copy, Pcs, KitPcs, MediaPcs, TemplatePcs,
   CountPcs

(* A request about a kit, and one at a step of its own.                        *)
AboutKit(pc, k) == [IdleRequest EXCEPT !.pc = pc, !.copy.kit = k]
AtStep(pc) == [IdleRequest EXCEPT !.pc = pc]
CachesKit(copy) == [IdleRequest EXCEPT !.pc = "cacheRow", !.copy = copy]

LEMMA AboutKitRow ==
    ASSUME NEW pc \in {"createKitRow", "countActive", "deleteKitRow"}, NEW k \in Kits, NEW r,
           r = AboutKit(pc, k)
    PROVE  r \in Request /\ Carries(r) /\ r.pc = pc /\ r.for = "idle" /\ r.copy.kit = k
<1>1. PICK y : y = [Nothing EXCEPT !.kit = k]
  OBVIOUS
<1>2. y \in Copy /\ y.kit = k
  BY <1>1, IdleRow DEF Copy, Nothing
<1>3. r = [IdleRequest EXCEPT !.pc = pc, !.copy = y]
  BY <1>1, IdleRow DEF IdleRequest, AboutKit
<1>4. pc \in Pcs
  BY DEF Pcs, KitPcs
<1>5. r \in Request /\ r.pc = pc /\ r.for = "idle" /\ r.copy = y /\ r.files = {} /\ r.left = {}
  BY <1>2, <1>3, <1>4, IdleRow DEF Request, IdleRequest
<1> QED BY <1>2, <1>5 DEF Carries, KitPcs, TemplatePcs, CountPcs

LEMMA AtStepRow ==
    ASSUME NEW pc \in {"dropCache", "trackUsage"}, NEW r, r = AtStep(pc)
    PROVE  r \in Request /\ Carries(r) /\ r.pc = pc /\ r.for = "idle"
<1>1. pc \in Pcs
  BY DEF Pcs
<1>2. r \in Request /\ r.pc = pc /\ r.for = "idle" /\ r.files = {} /\ r.left = {}
  BY <1>1, IdleRow DEF Request, IdleRequest, AtStep
<1> QED BY <1>2 DEF Carries, KitPcs, TemplatePcs, CountPcs

LEMMA CachesKitRow ==
    ASSUME NEW y \in Copy, y.kit \in Kits, NEW r, r = CachesKit(y)
    PROVE  r \in Request /\ Carries(r) /\ r.pc = "cacheRow" /\ r.for = "idle" /\ r.copy = y
<1>1. "cacheRow" \in Pcs
  BY DEF Pcs, KitPcs
<1>2. r \in Request /\ r.pc = "cacheRow" /\ r.for = "idle" /\ r.copy = y /\ r.files = {} /\ r.left = {}
  BY <1>1, IdleRow DEF Request, IdleRequest, CachesKit
<1> QED BY <1>2 DEF Carries, KitPcs, TemplatePcs, CountPcs

(* What goes on with a kit is what waited for it.                              *)
LEMMA AfterRow ==
    ASSUME NEW r \in Request, r.left \subseteq r.files,
           r.for \in {"generate", "enhance"} => r.item \in Generations, NEW s, s = AfterKit(r)
    PROVE  /\ s \in Request /\ Carries(s)
           /\ s.pc = r.for /\ s.for = r.for
           /\ r.for # "idle" => s.files = r.files /\ s.copy = r.copy /\ s.item = r.item
<1>1. CASE r.for = "idle"
  BY <1>1, IdleRow DEF AfterKit
<1>2. CASE r.for # "idle"
  <2>1. s = [r EXCEPT !.pc = r.for]
    BY <1>2 DEF AfterKit
  <2>2. r.for \in Pcs
    BY DEF Request, Pcs
  <2>3. /\ s \in Request /\ s.pc = r.for /\ s.for = r.for /\ s.files = r.files /\ s.copy = r.copy
        /\ s.item = r.item /\ s.left = r.left
    BY <2>1, <2>2 DEF Request
  <2>4. r.for \in {"generate", "enhance", "image"}
    BY <1>2 DEF Request
  <2> QED BY <1>2, <2>3, <2>4 DEF Carries, Stages, KitPcs, TemplatePcs, CountPcs
<1> QED BY <1>1, <1>2

-------------------------------------------------------------------------------
(* What the steps have in common.                                              *)

(* The request c becomes r, and it is the only one, if none overlapped.        *)
Move(c, r) ==
    /\ request' = [request EXCEPT ![c] = r]
    /\ calls' \in 0..MaxCalls /\ failures' \in 0..MaxFailures /\ overlapped' \in BOOLEAN
    /\ failures' = 0 => failures = 0
    /\ ~overlapped' => ~overlapped /\ Open \subseteq {c}

RowsTyped ==
    /\ kit \in [Kits -> KitRow] /\ cache \in Copy
    /\ file \in [Files -> FileRow] /\ asset \subseteq Files
    /\ generation \in [Generations -> GenerationRow] /\ images \subseteq Files /\ usage \in Nat
    /\ template \in [TemplateIds -> TemplateRow] /\ favorite \subseteq Users \X TemplateIds

LEMMA Moved ==
    ASSUME TypeInv, NEW c \in Calls, NEW r, Move(c, r)
    PROVE  request'[c] = r /\ \A d \in Calls : d # c => request'[d] = request[d]
BY DEF TypeInv, Move

LEMMA Begins ==
    ASSUME TypeInv, NEW c \in Calls, NEW r, Begin(c, r)
    PROVE  Move(c, r) /\ request[c].pc = "idle" /\ failures' = failures
<1>1. calls' \in 0..MaxCalls /\ failures' = failures /\ failures \in 0..MaxFailures
  BY RequestAssumption DEF TypeInv, StudioTypeOK, Begin
<1>2. overlapped' \in BOOLEAN /\ (~overlapped' => ~overlapped /\ Open = {})
  BY DEF Begin
<1> QED BY <1>1, <1>2 DEF Begin, Move, At

LEMMA Continues ==
    ASSUME TypeInv, AloneInv, NEW c \in Calls, NEW r, Continue(c, r), request[c].pc # "idle"
    PROVE  Move(c, r) /\ failures' = failures
BY DEF TypeInv, StudioTypeOK, Continue, Move, AloneInv, Open, At

LEMMA Ends ==
    ASSUME TypeInv, AloneInv, NEW c \in Calls, End(c), request[c].pc # "idle"
    PROVE  Move(c, IdleRequest) /\ failures' = failures
BY Continues DEF End

LEMMA Fails ==
    ASSUME TypeInv, AloneInv, NEW c \in Calls, NEW r, Fail(c, r), request[c].pc # "idle"
    PROVE  Move(c, r) /\ failures' # 0
BY RequestAssumption DEF TypeInv, StudioTypeOK, Fail, Move, AloneInv, Open, At

LEMMA TypeKept ==
    ASSUME TypeInv, NEW c \in Calls, NEW r \in Request, Carries(r), Move(c, r), RowsTyped'
    PROVE  TypeInv'
<1>1. request' \in [Calls -> Request]
  BY DEF TypeInv, Move
<1>2. \A d \in Calls : Carries(request'[d])
  BY Moved DEF TypeInv
<1> QED BY <1>1, <1>2 DEF TypeInv, StudioTypeOK, RowsTyped, Move

(* Steps that leave the files alone: the request holds none, or holds a new    *)
(* image as it did.                                                            *)
LEMMA FilesQuiet ==
    ASSUME TypeInv, FilesInv, NEW c \in Calls, NEW r \in Request, Carries(r), Move(c, r),
           UNCHANGED mediaVars,
           failures' # 0 \/ request[c].pc \notin {"destroy", "cleanupRow"},
           r.pc \notin MediaPcs,
           r.for = "image" => request[c].for = "image" /\ r.files = request[c].files,
           r.pc \in {"imageRow", "imageFile"} => request[c].pc = "imageRow"
    PROVE  FilesInv'
<1>1. /\ request'[c] = r /\ \A d \in Calls : d # c => request'[d] = request[d]
      /\ file' = file /\ asset' = asset /\ Stored' = Stored /\ Strayed' = Strayed
  BY Moved DEF mediaVars, Stored, Strayed
<1>2. /\ Makes(r) => Makes(request[c]) /\ r.files = request[c].files
      /\ \A f : Drops(request[c], f) => failures' # 0
  BY DEF Makes, Drops, MediaPcs
<1>3. MakerOK(r)' /\ DestroyerOK(r)'
  <2>1. MakerOK(request[c])
    BY DEF FilesInv
  <2>2. Makes(r)' => \A f \in r.files : file'[f].state = "none"
    BY <1>1, <1>2, <2>1 DEF MakerOK, Makes
  <2>3. r.pc \in {"imageRow", "imageFile"} => r.files \subseteq asset'
    BY <1>1, <2>1 DEF MakerOK, Carries
  <2> QED BY <2>2, <2>3 DEF MakerOK, DestroyerOK, MediaPcs
<1>4. \A d \in Calls : (MakerOK(request[d]) /\ DestroyerOK(request[d]))'
  BY <1>1, <1>3 DEF FilesInv, MakerOK, DestroyerOK
<1>5. \A d, e \in Calls : Makes(request'[d]) /\ Makes(request'[e]) /\ d # e =>
         request'[d].files \cap request'[e].files = {}
  BY <1>1, <1>2 DEF FilesInv
<1>6. failures' = 0 => \A f \in Stored' \ asset' : \E d \in Calls : Drops(request'[d], f)
  BY <1>1, <1>2 DEF FilesInv, Move
<1> QED BY <1>4, <1>5, <1>6 DEF FilesInv, Makes, Drops

(* Steps that leave the texts alone.                                           *)
LEMMA TextsQuiet ==
    ASSUME TypeInv, TextsInv, NEW c \in Calls, NEW r \in Request, Move(c, r),
           generation' = generation, r.pc # "enhanceRow",
           r.for = "generate" => request[c].for = "generate" /\ r.item = request[c].item
    PROVE  TextsInv'
<1>1. request'[c] = r /\ \A d \in Calls : d # c => request'[d] = request[d]
  BY Moved
<1>2. \A d \in Calls : TextOK(request[d])'
  BY <1>1 DEF TextsInv, TextOK, Written
<1> QED BY <1>1, <1>2 DEF TextsInv

(* How many requests have still to track what they have cost.                  *)
LEMMA TrackingMoves ==
    ASSUME TypeInv, NEW c \in Calls, NEW r, Move(c, r)
    PROVE  /\ Cardinality(Tracking) \in Nat
           /\ Cardinality(Tracking)' = Cardinality(Tracking) + (IF Tracks(r) THEN 1 ELSE 0)
                                                           - (IF Tracks(request[c]) THEN 1 ELSE 0)
<1> DEFINE others == Tracking \ {c}
<1>1. request'[c] = r /\ \A d \in Calls : d # c => request'[d] = request[d]
  BY Moved
<1>2. IsFiniteSet(others)
  <2>1. others \in SUBSET Calls
    BY DEF Tracking
  <2> HIDE DEF others
  <2> QED BY <2>1, CallsAssumption, FS_Subset
<1>3. Tracking = (IF Tracks(request[c]) THEN others \cup {c} ELSE others)
  BY DEF Tracking
<1>4. Tracking' = (IF Tracks(r) THEN others \cup {c} ELSE others)
  BY <1>1 DEF Tracking, Tracks
<1>5. /\ Cardinality(others) \in Nat
      /\ Cardinality(others \cup {c}) = Cardinality(others) + 1
  BY <1>2, FS_AddElement, FS_CardinalityType
<1> HIDE DEF others
<1> QED BY <1>3, <1>4, <1>5

(* Steps that write no text, no image and no usage.                            *)
LEMMA UsageQuiet ==
    ASSUME TypeInv, UsageInv, NEW c \in Calls, NEW r, Move(c, r), UNCHANGED aiVars,
           ~Tracks(r), failures' # 0 \/ ~Tracks(request[c]),
           r.for = "image" => r.files = {r.item} /\ r.item \notin images,
           \A f \in images : f \in asset' \/ file'[f].state # "none"
    PROVE  UsageInv'
<1>1. request'[c] = r /\ \A d \in Calls : d # c => request'[d] = request[d]
  BY Moved
<1>2. images' = images /\ usage' = usage /\ TextsWritten' = TextsWritten
  BY DEF aiVars, TextsWritten
<1>3. \A d \in Calls : ImageOK(request[d])'
  BY <1>1, <1>2 DEF UsageInv, ImageOK
<1>4. ASSUME failures' = 0
      PROVE  usage' + Cardinality(Tracking)' = Cardinality(TextsWritten) + Cardinality(images)
  <2>1. Cardinality(Tracking)' = Cardinality(Tracking)
    BY <1>4, TrackingMoves
  <2>2. usage + Cardinality(Tracking) = Cardinality(TextsWritten) + Cardinality(images)
    BY <1>4 DEF UsageInv, Move
  <2> QED BY <1>2, <2>1, <2>2
<1> QED BY <1>2, <1>3, <1>4 DEF UsageInv

(* Steps that leave the templates alone, but for their kits.                   *)
LEMMA TemplatesQuiet ==
    ASSUME TypeInv, TemplatesInv, FavoritesCounted, NEW c \in Calls, NEW r \in Request, Move(c, r),
           r.pc \notin TemplatePcs \cup {"templateRow"},
           failures' # 0 \/ request[c].pc \notin CountPcs,
           favorite' = favorite,
           \A t \in TemplateIds : /\ template'[t].status = template[t].status
                                  /\ template'[t].favoriteCount = template[t].favoriteCount
    PROVE  TemplatesInv' /\ FavoritesCounted'
<1>1. request'[c] = r /\ \A d \in Calls : d # c => request'[d] = request[d]
  BY Moved
<1>2. \A p \in favorite : p[2] \in TemplateIds
  BY DEF TypeInv, StudioTypeOK
<1>3. TemplatesInv'
  <2>1. \A d \in Calls : TemplateOK(request[d])'
    BY <1>1 DEF TemplatesInv, TemplateOK, TypeInv, Carries
  <2> QED BY <1>1, <1>2, <2>1 DEF TemplatesInv, At
<1>4. ASSUME failures' = 0, NEW t \in TemplateIds, HasTemplate(t)'
      PROVE  template'[t].favoriteCount + Counting(t)' = Cardinality({p \in favorite' : p[2] = t})
  <2>1. Counting(t)' = Counting(t)
    <3>1. {d \in Calls : At(d, "increment") /\ request[d].item = t}'
             = {d \in Calls : At(d, "increment") /\ request[d].item = t}
      BY <1>1, <1>4 DEF At, CountPcs, TemplatePcs
    <3> QED BY <3>1 DEF Counting
  <2>2. HasTemplate(t) /\ failures = 0
    BY <1>4 DEF HasTemplate, Move
  <2> QED BY <2>1, <2>2 DEF FavoritesCounted
<1> QED BY <1>3, <1>4 DEF FavoritesCounted

(* What a request finds is the same for any that is over.                      *)
LEMMA IdleFinds ==
    ASSUME NEW x, NEW y, x.pc = "idle", y.pc = "idle", Finds(x)'
    PROVE  Finds(y)'
BY DEF Finds, KitsFor, UnfailedKitsFor, UnfailedFilesFor, TextsFor, KitStored

LEMMA AloneStep ==
    ASSUME TypeInv, AloneInv, NEW c \in Calls, NEW r, Move(c, r),
           ~overlapped' /\ Finds(request[c]) => Finds(r)'
    PROVE  AloneInv'
<1>1. request'[c] = r /\ \A d \in Calls : d # c => request'[d] = request[d]
  BY Moved
<1> SUFFICES ASSUME ~overlapped' PROVE /\ \A d, e \in Calls : (At(d, "idle") \/ At(e, "idle") \/ d = e)'
                                       /\ \A d \in Calls : (Open \subseteq {d} => Finds(request[d]))'
  BY DEF AloneInv
<1>2. ~overlapped /\ \A d \in Calls : d # c => request[d].pc = "idle"
  BY DEF Move, Open, At
<1>3. Finds(r)'
  BY <1>2 DEF AloneInv, Open, At
<1>4. ASSUME NEW d \in Calls, Open' \subseteq {d} PROVE Finds(request[d])'
  <2>1. CASE d = c
    BY <1>1, <1>3, <2>1
  <2>2. CASE d # c
    <3>1. r.pc = "idle"
      BY <1>1, <1>4, <2>2 DEF Open, At
    <3>2. PICK x : x = request[d]
      OBVIOUS
    <3>3. Finds(x)'
      BY <1>2, <1>3, <2>2, <3>1, <3>2, IdleFinds
    <3> QED BY <1>1, <2>2, <3>2, <3>3
  <2> QED BY <2>1, <2>2
<1>5. \A d, e \in Calls : (At(d, "idle") \/ At(e, "idle") \/ d = e)'
  BY <1>1, <1>2 DEF At
<1> QED BY <1>4, <1>5

(* Steps that leave kits, files and texts as a single request found them.      *)
LEMMA FindsKits ==
    ASSUME NEW x, NEW r, UNCHANGED kitVars, failures' = 0 => failures = 0,
           x.pc \notin {"createKitRow", "cacheRow", "dropCache"} \/ failures' # 0,
           r.pc \notin KitPcs,
           failures' = 0 /\ r.pc \in {"image", "imageRow"} => KitStored(r)',
           KitsFor(x), failures = 0 => UnfailedKitsFor(x)
    PROVE  KitsFor(r)' /\ (failures' = 0 => UnfailedKitsFor(r)')
<1>1. Active' = Active /\ \A k : Exists(k)' = Exists(k)
  BY DEF kitVars, Active, Exists
<1>2. KitsFor(r)'
  BY <1>1 DEF KitsFor, KitPcs
<1>3. ASSUME failures' = 0 PROVE UnfailedKitsFor(r)'
  <2>1. UnfailedKitsFor(x) /\ x.pc \notin {"createKitRow", "cacheRow", "dropCache"}
    BY <1>3
  <2>2. CacheCurrent'
    BY <1>1, <2>1 DEF UnfailedKitsFor, CacheCurrent, kitVars, CopyOf
  <2>3. (\E k \in Kits : Exists(k)') => Active' # {}
    BY <1>1, <2>1 DEF UnfailedKitsFor
  <2>4. r.pc \in {"image", "imageRow"} => KitStored(r)'
    BY <1>3
  <2> QED BY <2>2, <2>3, <2>4 DEF UnfailedKitsFor
<1> QED BY <1>2, <1>3

LEMMA FindsFiles ==
    ASSUME NEW x, NEW r, UNCHANGED mediaVars, failures' = 0 => failures = 0,
           \/ x.pc \notin {"upload", "imageRow", "imageFile"}
           \/ x.pc = "imageRow" /\ r.pc = "imageFile" /\ r.files = x.files
           \/ failures' # 0,
           r.pc \notin {"destroy", "cleanupRow"},
           failures = 0 => UnfailedFilesFor(x)
    PROVE  failures' = 0 => UnfailedFilesFor(r)'
BY DEF UnfailedFilesFor, mediaVars, Stored, Strayed

LEMMA FindsTexts ==
    ASSUME NEW x, NEW r, UNCHANGED generation, r.pc # "enhanceRow", TextsFor(x)
    PROVE  TextsFor(r)'
BY DEF TextsFor

LEMMA AloneQuiet ==
    ASSUME TypeInv, AloneInv, NEW c \in Calls, NEW r, Move(c, r),
           UNCHANGED <<kitVars, mediaVars, generation>>,
           \/ request[c].pc \notin {"createKitRow", "cacheRow", "dropCache", "upload", "imageRow", "imageFile"}
           \/ failures' # 0,
           r.pc \notin KitPcs \cup {"destroy", "cleanupRow", "enhanceRow", "image", "imageRow"}
    PROVE  AloneInv'
<1> SUFFICES ASSUME ~overlapped', Finds(request[c]) PROVE Finds(r)'
  BY AloneStep
<1>1. PICK x : x = request[c]
  OBVIOUS
<1>2. KitsFor(r)' /\ (failures' = 0 => UnfailedKitsFor(r)')
  BY <1>1, FindsKits DEF Finds, Move
<1>3. failures' = 0 => UnfailedFilesFor(r)'
  BY <1>1, FindsFiles DEF Finds, Move
<1>4. TextsFor(r)'
  BY <1>1, FindsTexts DEF Finds
<1> QED BY <1>2, <1>3, <1>4 DEF Finds

-------------------------------------------------------------------------------
(* Templates.                                                                  *)

(* How many requests are about to count a favourite of t.                      *)
LEMMA CountingMoves ==
    ASSUME TypeInv, NEW c \in Calls, NEW r, Move(c, r), NEW t
    PROVE  /\ Counting(t) \in Nat
           /\ Counting(t)' =
                Counting(t) + (IF r.pc = "increment" /\ r.item = t THEN 1 ELSE 0)
                                - (IF request[c].pc = "increment" /\ request[c].item = t THEN 1 ELSE 0)
<1> DEFINE before == {d \in Calls : At(d, "increment") /\ request[d].item = t}
           after == {d \in Calls : At(d, "increment")' /\ request'[d].item = t}
           others == before \ {c}
<1>1. request'[c] = r /\ \A d \in Calls : d # c => request'[d] = request[d]
  BY Moved
<1>2. IsFiniteSet(before) /\ IsFiniteSet(others)
  <2>1. before \in SUBSET Calls /\ others \in SUBSET Calls
    OBVIOUS
  <2>2. IsFiniteSet(Calls)
    BY CallsAssumption
  <2> HIDE DEF before, others
  <2>3. IsFiniteSet(before)
    BY <2>1, <2>2, FS_Subset
  <2>4. IsFiniteSet(others)
    BY <2>1, <2>2, FS_Subset
  <2> QED BY <2>3, <2>4
<1>3. c \in before <=> request[c].pc = "increment" /\ request[c].item = t
  BY DEF At
<1>4. c \in after <=> r.pc = "increment" /\ r.item = t
  BY <1>1 DEF At
<1>5. before = (IF request[c].pc = "increment" /\ request[c].item = t THEN others \cup {c} ELSE others)
  BY <1>3
<1>6. after = (IF r.pc = "increment" /\ r.item = t THEN others \cup {c} ELSE others)
  BY <1>1, <1>4 DEF At
<1>7. /\ c \notin others /\ Cardinality(others) \in Nat
      /\ Cardinality(others \cup {c}) = Cardinality(others) + 1
  BY <1>2, FS_AddElement, FS_CardinalityType
<1>8. Counting(t) = Cardinality(before) /\ Counting(t)' = Cardinality(after)
  BY DEF Counting
<1> HIDE DEF before, after, others
<1> QED BY <1>5, <1>6, <1>7, <1>8

FavoritesOf(t) == {p \in favorite : p[2] = t}

(* The books of a template are right when count, requests and favourites agree.*)
Balanced(t) ==
    template[t].favoriteCount + Counting(t) = Cardinality(FavoritesOf(t))

LEMMA Balances ==
    FavoritesCounted <=> (failures = 0 => \A t \in TemplateIds : HasTemplate(t) => Balanced(t))
BY DEF FavoritesCounted, Balanced, FavoritesOf

(* A template's books are untouched by what counts no favourite of it.         *)
LEMMA BalanceQuiet ==
    ASSUME TypeInv, NEW c \in Calls, NEW r, Move(c, r), NEW t \in TemplateIds,
           r.pc \notin CountPcs \/ r.item # t,
           request[c].pc \notin CountPcs \/ request[c].item # t,
           FavoritesOf(t)' = FavoritesOf(t),
           template'[t].favoriteCount = template[t].favoriteCount, Balanced(t)
    PROVE  Balanced(t)'
<1>1. Counting(t)' = Counting(t)
  BY CountingMoves DEF CountPcs
<1> QED BY <1>1 DEF Balanced

TemplateOnly == {"idle", "templateRow"} \cup TemplatePcs

(* Requests about templates do nothing else.                                   *)
LEMMA TemplateMove ==
    ASSUME StudioInv, NEW c \in Calls, NEW r \in Request, Carries(r), Move(c, r),
           UNCHANGED <<kitVars, mediaVars, aiVars>>, failures' = failures,
           request[c].pc \in TemplateOnly, r.pc \in TemplateOnly, r.for = "idle",
           template' \in [TemplateIds -> TemplateRow], favorite' \subseteq Users \X TemplateIds,
           TemplatesInv', failures = 0 => \A t \in TemplateIds : HasTemplate(t)' => Balanced(t)'
    PROVE  StudioInv'
<1>1. RowsTyped'
  BY DEF StudioInv, TypeInv, StudioTypeOK, RowsTyped, kitVars, mediaVars, aiVars
<1>2. TypeInv'
  BY <1>1, TypeKept DEF StudioInv
<1>3. FilesInv'
  BY FilesQuiet DEF StudioInv, TemplateOnly, TemplatePcs, CountPcs, MediaPcs
<1>4. TextsInv'
  BY TextsQuiet DEF StudioInv, TemplateOnly, TemplatePcs, CountPcs, aiVars
<1>5. AloneInv'
  BY AloneQuiet DEF StudioInv, TemplateOnly, TemplatePcs, CountPcs, KitPcs, aiVars
<1>6. FavoritesCounted'
  BY DEF FavoritesCounted, Balanced, FavoritesOf
<1>7. UsageInv'
  BY UsageQuiet DEF StudioInv, UsageInv, mediaVars, Tracks, TemplateOnly, TemplatePcs, CountPcs
<1> QED BY <1>2, <1>3, <1>4, <1>5, <1>6, <1>7 DEF StudioInv

(* The requests about a template: what they carry.                             *)
ItemRequest(pc, t) == [IdleRequest EXCEPT !.pc = pc, !.item = t]
UserRequest(t, u) == [IdleRequest EXCEPT !.pc = "favorite", !.item = t, !.user = u]
GivenRequest(pc, t, k, u) == [IdleRequest EXCEPT !.pc = pc, !.item = t, !.copy.kit = k, !.user = u]

LEMMA TemplateRow1 ==
    ASSUME NEW pc \in {"templateRow", "deleteTemplate"}, NEW t \in TemplateIds, NEW r,
           r = ItemRequest(pc, t)
    PROVE  r \in Request /\ Carries(r) /\ r.pc = pc /\ r.for = "idle" /\ r.item = t
<1>1. pc \in Pcs
  BY DEF Pcs, TemplatePcs, CountPcs
<1>2. r \in Request /\ r.pc = pc /\ r.for = "idle" /\ r.item = t /\ r.files = {} /\ r.left = {}
  BY <1>1, IdleRow DEF Request, IdleRequest, ItemRequest, UserRequest
<1> QED BY <1>2 DEF Carries, KitPcs, TemplatePcs, CountPcs

LEMMA TemplateRow2 ==
    ASSUME NEW t \in TemplateIds, NEW u \in Users, NEW r,
           r = UserRequest(t, u)
    PROVE  r \in Request /\ Carries(r) /\ r.pc = "favorite" /\ r.for = "idle" /\ r.item = t /\ r.user = u
<1>1. "favorite" \in Pcs
  BY DEF Pcs, TemplatePcs
<1>2. r \in Request /\ r.pc = "favorite" /\ r.for = "idle" /\ r.item = t /\ r.user = u /\ r.files = {} /\ r.left = {}
  BY <1>1, IdleRow DEF Request, IdleRequest, ItemRequest, UserRequest
<1> QED BY <1>2 DEF Carries, KitPcs, TemplatePcs, CountPcs

LEMMA TemplateRow3 ==
    ASSUME NEW pc \in {"templateRow", "updateTemplate"}, NEW t \in TemplateIds, NEW k \in Kits \cup {"nothing"},
           NEW u \in {"owned", "DRAFT", "ACTIVE"}, pc = "updateTemplate" => u \in {"DRAFT", "ACTIVE"}, NEW r,
           r = GivenRequest(pc, t, k, u)
    PROVE  r \in Request /\ Carries(r) /\ r.pc = pc /\ r.for = "idle" /\ r.item = t
<1>1. PICK y : y = [Nothing EXCEPT !.kit = k]
  OBVIOUS
<1>2. y \in Copy
  BY <1>1, IdleRow DEF Copy, Nothing
<1>3. r = [IdleRequest EXCEPT !.pc = pc, !.item = t, !.copy = y, !.user = u]
  BY <1>1, IdleRow DEF IdleRequest, GivenRequest
<1>4. pc \in Pcs
  BY DEF Pcs, TemplatePcs
<1>5. r \in Request /\ r.pc = pc /\ r.for = "idle" /\ r.item = t /\ r.user = u /\ r.files = {} /\ r.left = {}
  BY <1>2, <1>3, <1>4, IdleRow DEF Request, IdleRequest, ItemRequest, UserRequest
<1> QED BY <1>5 DEF Carries, KitPcs, TemplatePcs, CountPcs

(* A request that begins changes no template.                                  *)
LEMMA TemplateBegins ==
    ASSUME StudioInv, NEW c \in Calls, NEW r \in Request, Carries(r), Begin(c, r),
           UNCHANGED <<kitVars, mediaVars, aiVars, templateVars>>,
           r.pc \in {"templateRow", "updateTemplate", "deleteTemplate", "favorite"}, r.for = "idle",
           r.pc = "templateRow" => FreshTemplate(r.item),
           r.pc # "templateRow" => HasTemplate(r.item)
    PROVE  StudioInv'
<1>0. TypeInv /\ TemplatesInv /\ FavoritesCounted
  BY DEF StudioInv
<1>1. Move(c, r) /\ request[c].pc = "idle" /\ failures' = failures
  BY <1>0, Begins
<1>2. request'[c] = r /\ (\A d \in Calls : d # c => request'[d] = request[d])
      /\ template' = template /\ favorite' = favorite
  BY <1>0, <1>1, Moved DEF templateVars
<1>3. TemplateOK(r)'
  BY <1>2 DEF TemplateOK, FreshTemplate, HasTemplate, TemplatePcs, CountPcs
<1>4. TemplatesInv'
  <2>1. \A d \in Calls : TemplateOK(request[d])'
    BY <1>0, <1>2, <1>3 DEF TemplatesInv, TemplateOK
  <2>2. \A d, e \in Calls : At(d, "templateRow")' /\ At(e, "templateRow")'
                            /\ request'[d].item = request'[e].item => d = e
    BY <1>0, <1>2 DEF TemplatesInv, At, FreshTemplate
  <2> QED BY <1>0, <1>2, <2>1, <2>2 DEF TemplatesInv
<1>5. ASSUME failures = 0, NEW t \in TemplateIds, HasTemplate(t)' PROVE Balanced(t)'
  <2>1. Balanced(t) /\ FavoritesOf(t)' = FavoritesOf(t)
    BY <1>0, <1>2, <1>5, Balances DEF HasTemplate, FavoritesOf
  <2> QED BY <1>0, <1>1, <1>2, <2>1, BalanceQuiet DEF CountPcs
<1>6. template' \in [TemplateIds -> TemplateRow] /\ favorite' \subseteq Users \X TemplateIds
  BY <1>0, <1>2 DEF TypeInv, StudioTypeOK
<1>7. UNCHANGED <<kitVars, mediaVars, aiVars>>
  OBVIOUS
<1>8. request[c].pc \in TemplateOnly /\ r.pc \in TemplateOnly
  BY <1>1 DEF TemplateOnly, TemplatePcs
<1> QED BY <1>1, <1>4, <1>5, <1>6, <1>7, <1>8, TemplateMove

LEMMA TemplateRequestKeeps ==
    ASSUME StudioInv, NEW c \in Calls, NEW t \in TemplateIds, UNCHANGED <<mediaVars, aiVars>>,
           \/ DeleteTemplate(c, t)
           \/ \E u \in Users : FavoriteTemplate(c, t, u)
           \/ \E source \in TemplateIds : DuplicateTemplate(c, source, t)
           \/ \E k \in Kits \cup {"nothing"} :
                 \/ CreateTemplate(c, t, k)
                 \/ \E status \in {"DRAFT", "ACTIVE"} : UpdateTemplate(c, t, status, k)
    PROVE  StudioInv'
<1>1. CASE DeleteTemplate(c, t)
  <2>1. PICK r : r = ItemRequest("deleteTemplate", t)
    OBVIOUS
  <2>2. Begin(c, r) /\ GetTemplateById(t) /\ UNCHANGED <<kitVars, templateVars>>
    BY <1>1, <2>1 DEF DeleteTemplate, ItemRequest
  <2> QED BY <2>1, <2>2, TemplateRow1, TemplateBegins DEF GetTemplateById
<1>2. CASE \E u \in Users : FavoriteTemplate(c, t, u)
  <2>1. PICK u \in Users : FavoriteTemplate(c, t, u)
    BY <1>2
  <2>2. PICK r : r = UserRequest(t, u)
    OBVIOUS
  <2>3. Begin(c, r) /\ HasTemplate(t) /\ UNCHANGED <<kitVars, templateVars>>
    BY <2>1, <2>2 DEF FavoriteTemplate, UserRequest
  <2> QED BY <2>2, <2>3, TemplateRow2, TemplateBegins
<1>3. CASE \E source \in TemplateIds : DuplicateTemplate(c, source, t)
  <2>1. PICK r : r = ItemRequest("templateRow", t)
    OBVIOUS
  <2>2. Begin(c, r) /\ FreshTemplate(t) /\ UNCHANGED <<kitVars, templateVars>>
    BY <1>3, <2>1 DEF DuplicateTemplate, ItemRequest
  <2> QED BY <2>1, <2>2, TemplateRow1, TemplateBegins
<1>4. ASSUME NEW k \in Kits \cup {"nothing"}, CreateTemplate(c, t, k) PROVE StudioInv'
  <2>1. PICK r : r = GivenRequest("templateRow", t, k, "owned")
    OBVIOUS
  <2>2. Begin(c, r) /\ FreshTemplate(t) /\ UNCHANGED <<kitVars, templateVars>>
    BY <1>4, <2>1 DEF CreateTemplate, GivenRequest
  <2>3. r \in Request /\ Carries(r) /\ r.pc = "templateRow" /\ r.for = "idle" /\ r.item = t
    BY <2>1, TemplateRow3
  <2> QED BY <2>2, <2>3, TemplateBegins
<1>5. ASSUME NEW k \in Kits \cup {"nothing"}, NEW status \in {"DRAFT", "ACTIVE"}, UpdateTemplate(c, t, status, k)
      PROVE  StudioInv'
  <2>1. PICK r : r = GivenRequest("updateTemplate", t, k, status)
    OBVIOUS
  <2>2. Begin(c, r) /\ GetTemplateById(t) /\ UNCHANGED <<kitVars, templateVars>>
    BY <1>5, <2>1 DEF UpdateTemplate, GivenRequest
  <2>3. r \in Request /\ Carries(r) /\ r.pc = "updateTemplate" /\ r.for = "idle" /\ r.item = t
    BY <2>1, TemplateRow3
  <2> QED BY <2>2, <2>3, TemplateBegins DEF GetTemplateById
<1> QED BY <1>1, <1>2, <1>3, <1>4, <1>5

(* The row of a new template: it has no favourites, and nobody counts any.     *)
LEMMA TemplateRowWrittenKeeps ==
    ASSUME StudioInv, NEW c \in Calls, UNCHANGED <<mediaVars, aiVars>>, TemplateRowWritten(c)
    PROVE  StudioInv'
<1>0. TypeInv /\ TemplatesInv /\ FavoritesCounted /\ AloneInv
  BY DEF StudioInv
<1>1. PICK x : x = request[c]
  OBVIOUS
<1>2. /\ x.pc = "templateRow" /\ x.item \in TemplateIds /\ template[x.item].status = "none"
      /\ x.copy.kit \in Kits \cup {"nothing"}
  BY <1>0, <1>1 DEF TemplateRowWritten, At, TypeInv, Carries, TemplatesInv, TemplateOK, Request, Copy
<1>3. PICK row : row = [NoTemplate EXCEPT !.status = "DRAFT", !.kit = x.copy.kit, !.owned = (x.user = "owned")]
  OBVIOUS
<1>4. row \in TemplateRow /\ row.status = "DRAFT" /\ row.favoriteCount = 0
  <2>1. PICK owned \in BOOLEAN : owned = (x.user = "owned")
    OBVIOUS
  <2>2. row = [NoTemplate EXCEPT !.status = "DRAFT", !.kit = x.copy.kit, !.owned = owned]
    BY <1>3, <2>1
  <2>3. NoTemplate \in TemplateRow /\ NoTemplate.favoriteCount = 0
    BY DEF NoTemplate, TemplateRow, Status
  <2> QED BY <1>2, <2>1, <2>2, <2>3 DEF TemplateRow, Status
<1>5. /\ template' = [template EXCEPT ![x.item] = row] \/ template' = template
      /\ End(c) /\ UNCHANGED kitVars /\ favorite' = favorite
  BY <1>1, <1>3 DEF TemplateRowWritten
<1>6. Move(c, IdleRequest) /\ failures' = failures
  BY <1>0, <1>1, <1>2, <1>5, Ends
<1>7. /\ request'[c] = IdleRequest /\ \A d \in Calls : d # c => request'[d] = request[d]
      /\ IdleRequest.pc = "idle" /\ IdleRequest.for = "idle"
  BY <1>0, <1>6, Moved, IdleRow
<1>8. /\ template \in [TemplateIds -> TemplateRow] /\ template' \in [TemplateIds -> TemplateRow]
      /\ favorite' \subseteq Users \X TemplateIds
      /\ \A p \in favorite : p[2] \in TemplateIds
      /\ \A t \in TemplateIds : t # x.item => template'[t] = template[t]
      /\ template'[x.item] \in {row, template[x.item]}
  BY <1>0, <1>2, <1>4, <1>5 DEF TypeInv, StudioTypeOK
<1>9. /\ \A p \in favorite : p[2] # x.item
      /\ \A d \in Calls : request[d].pc \in TemplatePcs => request[d].item # x.item
      /\ \A d \in Calls : d # c /\ request[d].pc = "templateRow" => request[d].item # x.item
  BY <1>0, <1>1, <1>2 DEF TemplatesInv, TemplateOK, At
<1>10. TemplatesInv'
  <2>1. \A d \in Calls : TemplateOK(request[d])'
    BY <1>0, <1>7, <1>8, <1>9 DEF TemplatesInv, TemplateOK, TypeInv, Carries, TemplatePcs, CountPcs
  <2>2. \A p \in favorite' : template'[p[2]].status # "none"
    BY <1>0, <1>5, <1>8, <1>9 DEF TemplatesInv
  <2>3. \A d, e \in Calls : At(d, "templateRow")' /\ At(e, "templateRow")'
                            /\ request'[d].item = request'[e].item => d = e
    BY <1>0, <1>7 DEF TemplatesInv, At
  <2> QED BY <1>0, <1>5, <2>1, <2>2, <2>3 DEF TemplatesInv
<1>11. ASSUME failures = 0, NEW t \in TemplateIds, HasTemplate(t)' PROVE Balanced(t)'
  <2>1. FavoritesOf(t)' = FavoritesOf(t)
    BY <1>5 DEF FavoritesOf
  <2>2. CASE t # x.item
    <3>1. Balanced(t)
      BY <1>0, <1>8, <1>11, <2>2, Balances DEF HasTemplate
    <3> QED BY <1>0, <1>1, <1>2, <1>6, <1>7, <1>8, <2>1, <2>2, <3>1, BalanceQuiet DEF CountPcs
  <2>3. CASE t = x.item
    <3>1. template'[t].favoriteCount = 0
      BY <1>2, <1>4, <1>8, <1>11, <2>3 DEF HasTemplate
    <3>2. Cardinality(FavoritesOf(t)') = 0
      <4>1. FavoritesOf(t)' = {}
        BY <1>5, <1>9, <2>3 DEF FavoritesOf
      <4> QED BY <4>1, FS_EmptySet
    <3>3. {d \in Calls : At(d, "increment") /\ request[d].item = t}' = {}
      BY <1>7, <1>9, <2>3 DEF At, TemplatePcs, CountPcs
    <3>4. Counting(t)' = 0
      BY <3>3, FS_EmptySet DEF Counting
    <3> QED BY <3>1, <3>2, <3>4 DEF Balanced
  <2> QED BY <2>2, <2>3
<1>12. request[c].pc \in TemplateOnly /\ IdleRequest.pc \in TemplateOnly
  BY <1>1, <1>2, <1>7 DEF TemplateOnly
<1> QED BY <1>5, <1>6, <1>7, <1>8, <1>10, <1>11, <1>12, IdleRow, TemplateMove

(* A template that is there is changed, but not its count.                     *)
LEMMA UpdatedRowWrittenKeeps ==
    ASSUME StudioInv, NEW c \in Calls, UNCHANGED <<mediaVars, aiVars>>, UpdatedRowWritten(c)
    PROVE  StudioInv'
<1>0. TypeInv /\ TemplatesInv /\ FavoritesCounted /\ AloneInv
  BY DEF StudioInv
<1>1. PICK x : x = request[c]
  OBVIOUS
<1>2. /\ x.pc = "updateTemplate" /\ x.item \in TemplateIds /\ x.user \in {"DRAFT", "ACTIVE"}
      /\ x.copy.kit \in Kits \cup {"nothing"}
  BY <1>0, <1>1 DEF UpdatedRowWritten, At, TypeInv, Carries, Request, Copy, TemplatePcs
<1>3. /\ \/ HasTemplate(x.item)
            /\ template' = [template EXCEPT ![x.item].status = x.user, ![x.item].kit = x.copy.kit]
         \/ template' = template
      /\ End(c) /\ UNCHANGED kitVars /\ favorite' = favorite
  BY <1>1 DEF UpdatedRowWritten
<1>4. Move(c, IdleRequest) /\ failures' = failures
  BY <1>0, <1>1, <1>2, <1>3, Ends
<1>5. /\ request'[c] = IdleRequest /\ \A d \in Calls : d # c => request'[d] = request[d]
      /\ IdleRequest.pc = "idle" /\ IdleRequest.for = "idle"
  BY <1>0, <1>4, Moved, IdleRow
<1>6. /\ template \in [TemplateIds -> TemplateRow] /\ template' \in [TemplateIds -> TemplateRow]
      /\ favorite' \subseteq Users \X TemplateIds
      /\ \A p \in favorite : p[2] \in TemplateIds
      /\ \A t \in TemplateIds : /\ template'[t].favoriteCount = template[t].favoriteCount
                                /\ HasTemplate(t)' <=> HasTemplate(t)
                                /\ template'[t].status = "none" <=> template[t].status = "none"
  <2>0. /\ template \in [TemplateIds -> TemplateRow] /\ favorite \subseteq Users \X TemplateIds
        /\ \A p \in favorite : p[2] \in TemplateIds
    BY <1>0 DEF TypeInv, StudioTypeOK
  <2>1. CASE template' = template
    BY <1>3, <2>0, <2>1 DEF HasTemplate
  <2>2. CASE HasTemplate(x.item)
             /\ template' = [template EXCEPT ![x.item].status = x.user, ![x.item].kit = x.copy.kit]
    <3>1. PICK row : row = [template[x.item] EXCEPT !.status = x.user, !.kit = x.copy.kit]
      OBVIOUS
    <3>2. template[x.item] \in TemplateRow
      BY <1>2, <2>0
    <3>3. row \in TemplateRow /\ row.status = x.user /\ row.favoriteCount = template[x.item].favoriteCount
      BY <1>2, <3>1, <3>2 DEF TemplateRow, Status
    <3>4. template' = [template EXCEPT ![x.item] = row]
      BY <2>0, <2>2, <3>1
    <3> QED BY <1>2, <1>3, <2>0, <2>2, <3>3, <3>4 DEF HasTemplate
  <2> QED BY <1>3, <2>1, <2>2
<1>7. TemplatesInv'
  <2>1. \A d \in Calls : TemplateOK(request[d])'
    BY <1>0, <1>5, <1>6 DEF TemplatesInv, TemplateOK, TypeInv, Carries, TemplatePcs, CountPcs
  <2>2. \A p \in favorite' : template'[p[2]].status # "none"
    BY <1>0, <1>3, <1>6 DEF TemplatesInv
  <2>3. \A d, e \in Calls : At(d, "templateRow")' /\ At(e, "templateRow")'
                            /\ request'[d].item = request'[e].item => d = e
    BY <1>0, <1>5 DEF TemplatesInv, At
  <2> QED BY <1>0, <1>3, <2>1, <2>2, <2>3 DEF TemplatesInv
<1>8. ASSUME failures = 0, NEW t \in TemplateIds, HasTemplate(t)' PROVE Balanced(t)'
  <2>1. Balanced(t) /\ FavoritesOf(t)' = FavoritesOf(t)
    BY <1>0, <1>3, <1>6, <1>8, Balances DEF FavoritesOf
  <2> QED BY <1>0, <1>1, <1>2, <1>4, <1>5, <1>6, <2>1, BalanceQuiet DEF CountPcs
<1>9. request[c].pc \in TemplateOnly /\ IdleRequest.pc \in TemplateOnly
  BY <1>1, <1>2, <1>5 DEF TemplateOnly, TemplatePcs
<1> QED BY <1>3, <1>4, <1>5, <1>6, <1>7, <1>8, <1>9, IdleRow, TemplateMove

(* A deleted template and its favourites are out of the books.                 *)
LEMMA TemplateRowDeletedKeeps ==
    ASSUME StudioInv, NEW c \in Calls, UNCHANGED <<mediaVars, aiVars>>, TemplateRowDeleted(c)
    PROVE  StudioInv'
<1>0. TypeInv /\ TemplatesInv /\ FavoritesCounted /\ AloneInv
  BY DEF StudioInv
<1>1. PICK x : x = request[c]
  OBVIOUS
<1>2. x.pc = "deleteTemplate" /\ x.item \in TemplateIds /\ template[x.item].status # "none"
  BY <1>0, <1>1 DEF TemplateRowDeleted, At, TypeInv, Carries, TemplatePcs, TemplatesInv, TemplateOK
<1>3. /\ template' = [template EXCEPT ![x.item].status = "deleted"]
      /\ favorite' = {p \in favorite : p[2] # x.item}
      /\ End(c) /\ UNCHANGED kitVars
  BY <1>1 DEF TemplateRowDeleted
<1>4. Move(c, IdleRequest) /\ failures' = failures
  BY <1>0, <1>1, <1>2, <1>3, Ends
<1>5. /\ request'[c] = IdleRequest /\ \A d \in Calls : d # c => request'[d] = request[d]
      /\ IdleRequest.pc = "idle" /\ IdleRequest.for = "idle"
  BY <1>0, <1>4, Moved, IdleRow
<1>6. /\ template \in [TemplateIds -> TemplateRow] /\ template' \in [TemplateIds -> TemplateRow]
      /\ favorite' \subseteq Users \X TemplateIds
      /\ \A p \in favorite : p[2] \in TemplateIds
      /\ \A t \in TemplateIds : t # x.item => template'[t] = template[t]
      /\ template'[x.item].status = "deleted"
  <2>0. /\ template \in [TemplateIds -> TemplateRow] /\ favorite \subseteq Users \X TemplateIds
    BY <1>0 DEF TypeInv, StudioTypeOK
  <2>1. PICK row : row = [template[x.item] EXCEPT !.status = "deleted"]
    OBVIOUS
  <2>2. row \in TemplateRow /\ row.status = "deleted"
    BY <1>2, <2>0, <2>1 DEF TemplateRow, Status
  <2>3. template' = [template EXCEPT ![x.item] = row]
    BY <1>3, <2>1
  <2> QED BY <1>2, <1>3, <2>0, <2>2, <2>3
<1>7. TemplatesInv'
  <2>1. \A d \in Calls : TemplateOK(request[d])'
    BY <1>0, <1>2, <1>5, <1>6 DEF TemplatesInv, TemplateOK, TypeInv, Carries, TemplatePcs, CountPcs
  <2>2. \A p \in favorite' : template'[p[2]].status # "none"
    BY <1>0, <1>3, <1>6 DEF TemplatesInv
  <2>3. \A d, e \in Calls : At(d, "templateRow")' /\ At(e, "templateRow")'
                            /\ request'[d].item = request'[e].item => d = e
    BY <1>0, <1>5 DEF TemplatesInv, At
  <2>4. IsFiniteSet(favorite')
    <3>1. favorite' \in SUBSET favorite /\ IsFiniteSet(favorite)
      BY <1>0, <1>3 DEF TemplatesInv
    <3> QED BY <3>1, FS_Subset
  <2> QED BY <2>1, <2>2, <2>3, <2>4 DEF TemplatesInv
<1>8. ASSUME failures = 0, NEW t \in TemplateIds, HasTemplate(t)' PROVE Balanced(t)'
  <2>1. t # x.item /\ template'[t] = template[t]
    BY <1>6, <1>8 DEF HasTemplate
  <2>2. Balanced(t)
    BY <1>0, <1>8, <2>1, Balances DEF HasTemplate
  <2>3. FavoritesOf(t)' = FavoritesOf(t)
    BY <1>3, <2>1 DEF FavoritesOf
  <2> QED BY <1>0, <1>1, <1>2, <1>4, <1>5, <2>1, <2>2, <2>3, BalanceQuiet DEF CountPcs
<1>9. request[c].pc \in TemplateOnly /\ IdleRequest.pc \in TemplateOnly
  BY <1>1, <1>2, <1>5 DEF TemplateOnly, TemplatePcs
<1> QED BY <1>3, <1>4, <1>5, <1>6, <1>7, <1>8, <1>9, IdleRow, TemplateMove

(* A pair is written, and its counting still to come.                          *)
LEMMA FavoriteRowWrittenKeeps ==
    ASSUME StudioInv, NEW c \in Calls, UNCHANGED <<mediaVars, aiVars>>, FavoriteRowWritten(c)
    PROVE  StudioInv'
<1>0. TypeInv /\ TemplatesInv /\ FavoritesCounted /\ AloneInv
  BY DEF StudioInv
<1>1. PICK x : x = request[c]
  OBVIOUS
<1>2. /\ x \in Request /\ Carries(x) /\ x.pc = "favorite" /\ x.for = "idle"
      /\ x.item \in TemplateIds /\ x.user \in Users
  BY <1>0, <1>1 DEF FavoriteRowWritten, At, TypeInv, Carries, TemplatePcs, Stages
<1> DEFINE pair == <<x.user, x.item>>
           counted == HasTemplate(x.item) /\ pair \notin favorite
<1>3. PICK r : r = IF counted THEN [x EXCEPT !.pc = "increment"] ELSE IdleRequest
  OBVIOUS
<1>4. /\ r \in Request /\ Carries(r) /\ r.for = "idle"
      /\ counted => r.pc = "increment" /\ r.item = x.item
      /\ ~counted => r.pc = "idle"
  <2>1. CASE counted
    <3>1. r = [x EXCEPT !.pc = "increment"] /\ "increment" \in Pcs
      BY <1>3, <2>1 DEF Pcs, TemplatePcs, CountPcs
    <3>2. /\ r \in Request /\ r.pc = "increment" /\ r.for = "idle" /\ r.item = x.item
          /\ r.left = x.left /\ r.files = x.files
      BY <1>2, <3>1 DEF Request
    <3> QED BY <1>2, <2>1, <3>2 DEF Carries, KitPcs, TemplatePcs, CountPcs
  <2>2. CASE ~counted
    BY <1>3, <2>2, IdleRow
  <2> QED BY <2>1, <2>2
<1>5. /\ Continue(c, r) /\ UNCHANGED <<kitVars, template>>
      /\ favorite' = IF counted THEN favorite \cup {pair} ELSE favorite
  BY <1>1, <1>3 DEF FavoriteRowWritten, GoTo, End
<1> HIDE DEF counted
<1>6. Move(c, r) /\ failures' = failures
  BY <1>0, <1>1, <1>2, <1>5, Continues
<1>7. request'[c] = r /\ \A d \in Calls : d # c => request'[d] = request[d]
  BY <1>0, <1>6, Moved
<1>8. /\ IsFiniteSet(favorite) /\ IsFiniteSet(favorite') /\ favorite' \subseteq Users \X TemplateIds
      /\ template' = template /\ template \in [TemplateIds -> TemplateRow]
  <2>1. IsFiniteSet(favorite) /\ IsFiniteSet(favorite \cup {pair})
    BY <1>0, FS_AddElement DEF TemplatesInv
  <2>2. favorite \subseteq Users \X TemplateIds /\ pair \in Users \X TemplateIds
    BY <1>0, <1>2 DEF TypeInv, StudioTypeOK
  <2> QED BY <1>0, <1>5, <2>1, <2>2 DEF TypeInv, StudioTypeOK
<1>9. pair[2] = x.item /\ template[x.item].status # "none"
  BY <1>0, <1>1, <1>2 DEF TemplatesInv, TemplateOK, TemplatePcs
<1>10. TemplatesInv'
  <2>1. \A d \in Calls : TemplateOK(request[d])'
    BY <1>0, <1>4, <1>7, <1>8, <1>9 DEF TemplatesInv, TemplateOK, TemplatePcs, CountPcs
  <2>2. \A p \in favorite' : template'[p[2]].status # "none"
    BY <1>0, <1>5, <1>8, <1>9 DEF TemplatesInv
  <2>3. \A d, e \in Calls : At(d, "templateRow")' /\ At(e, "templateRow")'
                            /\ request'[d].item = request'[e].item => d = e
    BY <1>0, <1>4, <1>7 DEF TemplatesInv, At
  <2> QED BY <1>8, <2>1, <2>2, <2>3 DEF TemplatesInv
<1>11. ASSUME failures = 0, NEW t \in TemplateIds, HasTemplate(t)' PROVE Balanced(t)'
  <2>1. Balanced(t)
    BY <1>0, <1>8, <1>11, Balances DEF HasTemplate
  <2>2. CASE counted /\ t = x.item
    <3>1. FavoritesOf(t)' = FavoritesOf(t) \cup {pair} /\ pair \notin FavoritesOf(t)
      BY <1>5, <1>9, <2>2 DEF FavoritesOf, counted
    <3>2. IsFiniteSet(FavoritesOf(t))
      <4>1. FavoritesOf(t) \in SUBSET favorite
        BY DEF FavoritesOf
      <4> QED BY <4>1, <1>8, FS_Subset
    <3>3. Cardinality(FavoritesOf(t)') = Cardinality(FavoritesOf(t)) + 1 /\ Cardinality(FavoritesOf(t)) \in Nat
      BY <3>1, <3>2, FS_AddElement, FS_CardinalityType
    <3>4. Counting(t)' = Counting(t) + 1 /\ Counting(t) \in Nat
      BY <1>0, <1>1, <1>2, <1>4, <1>6, <2>2, CountingMoves
    <3>5. template'[t].favoriteCount = template[t].favoriteCount /\ template[t].favoriteCount \in Int
      BY <1>8 DEF TemplateRow
    <3> QED BY <2>1, <2>2, <3>3, <3>4, <3>5 DEF Balanced
  <2>3. CASE ~(counted /\ t = x.item)
    <3>1. FavoritesOf(t)' = FavoritesOf(t)
      BY <1>5, <1>9, <2>3 DEF FavoritesOf
    <3> QED BY <1>0, <1>1, <1>2, <1>4, <1>6, <1>8, <2>1, <2>3, <3>1, BalanceQuiet DEF CountPcs
  <2> QED BY <2>2, <2>3
<1>12. request[c].pc \in TemplateOnly /\ r.pc \in TemplateOnly
  BY <1>1, <1>2, <1>4 DEF TemplateOnly, TemplatePcs, CountPcs
<1> QED BY <1>4, <1>5, <1>6, <1>8, <1>10, <1>11, <1>12, TemplateMove

(* What was to be counted is counted, or its template is gone.                 *)
LEMMA CountFavoriteKeeps ==
    ASSUME StudioInv, NEW c \in Calls, UNCHANGED <<mediaVars, aiVars>>, CountFavorite(c)
    PROVE  StudioInv'
<1>0. TypeInv /\ TemplatesInv /\ FavoritesCounted /\ AloneInv
  BY DEF StudioInv
<1>1. PICK x : x = request[c]
  OBVIOUS
<1>2. x.pc \in CountPcs /\ x.item \in TemplateIds
  BY <1>0, <1>1 DEF CountFavorite, At, TypeInv, Carries, TemplatePcs, CountPcs
<1>3. /\ template' = IF HasTemplate(x.item) THEN [template EXCEPT ![x.item].favoriteCount = @ + 1] ELSE template
      /\ End(c) /\ UNCHANGED kitVars /\ favorite' = favorite
  BY <1>1 DEF CountFavorite, At
<1>4. Move(c, IdleRequest) /\ failures' = failures
  BY <1>0, <1>1, <1>2, <1>3, Ends DEF CountPcs
<1>5. /\ request'[c] = IdleRequest /\ \A d \in Calls : d # c => request'[d] = request[d]
      /\ IdleRequest.pc = "idle" /\ IdleRequest.for = "idle"
  BY <1>0, <1>4, Moved, IdleRow
<1>6. /\ template \in [TemplateIds -> TemplateRow] /\ favorite' \subseteq Users \X TemplateIds
      /\ \A p \in favorite : p[2] \in TemplateIds
  BY <1>0, <1>3 DEF TypeInv, StudioTypeOK
<1>7. /\ template' \in [TemplateIds -> TemplateRow]
      /\ \A t \in TemplateIds : /\ t # x.item => template'[t] = template[t]
                                /\ template'[t].status = template[t].status
      /\ HasTemplate(x.item) => template'[x.item].favoriteCount = template[x.item].favoriteCount + 1
  <2>1. CASE ~HasTemplate(x.item)
    BY <1>3, <1>6, <2>1
  <2>2. CASE HasTemplate(x.item)
    <3>1. PICK row : row = [template[x.item] EXCEPT !.favoriteCount = @ + 1]
      OBVIOUS
    <3>2. template[x.item] \in TemplateRow
      BY <1>2, <1>6
    <3>3. template[x.item].favoriteCount + 1 \in Int
      BY <3>2 DEF TemplateRow
    <3>4. /\ row \in TemplateRow /\ row.status = template[x.item].status
          /\ row.favoriteCount = template[x.item].favoriteCount + 1
      BY <3>1, <3>2, <3>3 DEF TemplateRow
    <3>5. template' = [template EXCEPT ![x.item] = row]
      BY <1>3, <1>6, <2>2, <3>1
    <3> QED BY <1>2, <1>6, <3>4, <3>5
  <2> QED BY <2>1, <2>2
<1>8. TemplatesInv'
  <2>1. \A d \in Calls : TemplateOK(request[d])'
    BY <1>0, <1>5, <1>7 DEF TemplatesInv, TemplateOK, TypeInv, Carries, TemplatePcs, CountPcs
  <2>2. \A p \in favorite' : template'[p[2]].status # "none"
    BY <1>0, <1>3, <1>6, <1>7 DEF TemplatesInv
  <2>3. \A d, e \in Calls : At(d, "templateRow")' /\ At(e, "templateRow")'
                            /\ request'[d].item = request'[e].item => d = e
    BY <1>0, <1>5 DEF TemplatesInv, At
  <2> QED BY <1>0, <1>3, <2>1, <2>2, <2>3 DEF TemplatesInv
<1>9. ASSUME failures = 0, NEW t \in TemplateIds, HasTemplate(t)' PROVE Balanced(t)'
  <2>1. Balanced(t) /\ HasTemplate(t)
    BY <1>0, <1>7, <1>9, Balances DEF HasTemplate
  <2>2. FavoritesOf(t)' = FavoritesOf(t)
    BY <1>3 DEF FavoritesOf
  <2>3. CASE t = x.item
    <3>1. template'[t].favoriteCount = template[t].favoriteCount + 1 /\ template[t].favoriteCount \in Int
      BY <1>6, <1>7, <2>1, <2>3 DEF TemplateRow
    <3>2. Counting(t) \in Nat /\ Counting(t)' = Counting(t) - 1
      BY <1>0, <1>1, <1>2, <1>4, <1>5, <2>3, CountingMoves DEF CountPcs
    <3> QED BY <2>1, <2>2, <3>1, <3>2 DEF Balanced
  <2>4. CASE t # x.item
    BY <1>0, <1>1, <1>4, <1>5, <1>7, <2>1, <2>2, <2>4, BalanceQuiet DEF CountPcs
  <2> QED BY <2>3, <2>4
<1>10. request[c].pc \in TemplateOnly /\ IdleRequest.pc \in TemplateOnly
  BY <1>1, <1>2, <1>5 DEF TemplateOnly, TemplatePcs
<1> QED BY <1>3, <1>4, <1>5, <1>6, <1>7, <1>8, <1>9, <1>10, IdleRow, TemplateMove

-------------------------------------------------------------------------------
(* Brand kits.                                                                 *)

(* New files are held by nobody.                                               *)
LEMMA FilesBegin ==
    ASSUME TypeInv, FilesInv, NEW c \in Calls, NEW r \in Request, Carries(r), Move(c, r),
           failures' = failures, UNCHANGED mediaVars, request[c].pc = "idle",
           r.files \subseteq Fresh, r.pc \in {"upload", "readActive", "image"},
           r.pc = "upload" => r.left = r.files
    PROVE  FilesInv'
<1>1. /\ request'[c] = r /\ \A d \in Calls : d # c => request'[d] = request[d]
      /\ file' = file /\ asset' = asset /\ Stored' = Stored /\ Strayed' = Strayed
  BY Moved DEF mediaVars, Stored, Strayed
<1>2. MakerOK(r)' /\ DestroyerOK(r)'
  BY <1>1 DEF MakerOK, DestroyerOK, Fresh
<1>3. \A d \in Calls : (MakerOK(request[d]) /\ DestroyerOK(request[d]))'
  BY <1>1, <1>2 DEF FilesInv, MakerOK, DestroyerOK
<1>4. \A d, e \in Calls : Makes(request'[d]) /\ Makes(request'[e]) /\ d # e =>
         request'[d].files \cap request'[e].files = {}
  BY <1>1 DEF FilesInv, Fresh
<1>5. failures' = 0 => \A f \in Stored' \ asset' : \E d \in Calls : Drops(request'[d], f)
  BY <1>1 DEF FilesInv, Drops
<1> QED BY <1>3, <1>4, <1>5 DEF FilesInv, Makes, Drops

(* A text that is new is generated by nobody.                                  *)
LEMMA TextsBegin ==
    ASSUME TypeInv, TextsInv, NEW c \in Calls, NEW r \in Request, Move(c, r),
           generation' = generation, r.pc # "enhanceRow",
           r.for = "generate" => ~Written(r.item) /\ \A d \in Calls : request[d].item # r.item
    PROVE  TextsInv'
<1>1. request'[c] = r /\ \A d \in Calls : d # c => request'[d] = request[d]
  BY Moved
<1>2. \A d \in Calls : TextOK(request[d])'
  BY <1>1 DEF TextsInv, TextOK, Written
<1> QED BY <1>1, <1>2 DEF TextsInv

(* A request that takes the active kit, from the cache or from the table.      *)
LEMMA GetActiveKeeps ==
    ASSUME StudioInv, NEW c \in Calls, NEW r \in Request, r.pc = "idle", r.copy = Nothing, r.left = {},
           r.for \in {"generate", "enhance"} => r.item \in Generations,
           r.for = "generate" => ~Written(r.item) /\ \A d \in Calls : request[d].item # r.item,
           r.for = "image" => r.files \subseteq Fresh /\ r.files = {r.item},
           GetActiveBrandKit(c, r), UNCHANGED <<mediaVars, aiVars, templateVars>>
    PROVE  StudioInv'
<1>0. TypeInv /\ FilesInv /\ TextsInv /\ TemplatesInv /\ FavoritesCounted /\ AloneInv
  BY DEF StudioInv
<1>1. PICK s : s = IF cache # Nothing THEN AfterKit([r EXCEPT !.copy = cache]) ELSE [r EXCEPT !.pc = "readActive"]
  OBVIOUS
<1>2. Begin(c, s) /\ UNCHANGED kitVars
  BY <1>1 DEF GetActiveBrandKit
<1>3. /\ s \in Request /\ Carries(s) /\ s.for = r.for
      /\ s.pc = "readActive" \/ (s.pc = r.for /\ cache # Nothing /\ (s.for # "idle" => s.copy = cache))
      /\ s.for # "idle" => s.item = r.item /\ s.files = r.files
  <2>1. CASE cache # Nothing
    <3>1. PICK q : q = [r EXCEPT !.copy = cache]
      OBVIOUS
    <3>2. cache \in Copy
      BY <1>0 DEF TypeInv, StudioTypeOK
    <3>3. /\ q \in Request /\ q.for = r.for /\ q.item = r.item /\ q.files = r.files /\ q.left = r.left
          /\ q.copy = cache
      BY <3>1, <3>2 DEF Request
    <3>4. s = AfterKit(q)
      BY <1>1, <2>1, <3>1
    <3> QED BY <2>1, <3>3, <3>4, AfterRow
  <2>2. CASE cache = Nothing
    <3>1. s = [r EXCEPT !.pc = "readActive"] /\ "readActive" \in Pcs
      BY <1>1, <2>2 DEF Pcs
    <3>2. /\ s \in Request /\ s.pc = "readActive" /\ s.for = r.for /\ s.item = r.item /\ s.files = r.files
          /\ s.left = {} /\ s.copy = Nothing
      BY <3>1 DEF Request
    <3> QED BY <3>2 DEF Carries, Stages, KitPcs, TemplatePcs, CountPcs
  <2> QED BY <2>1, <2>2
<1>4. s.pc \in {"readActive", "idle", "generate", "enhance", "image"} /\ (s.pc = "image" => s.for = "image")
  BY <1>3 DEF Request
<1>5. Move(c, s) /\ request[c].pc = "idle" /\ failures' = failures
  BY <1>0, <1>2, Begins
<1>6. /\ UNCHANGED <<kitVars, mediaVars, aiVars, templateVars>>
      /\ generation' = generation /\ template' = template /\ favorite' = favorite
  BY <1>2 DEF aiVars, templateVars
<1>7. RowsTyped'
  BY <1>0, <1>6 DEF TypeInv, StudioTypeOK, RowsTyped, kitVars, mediaVars, aiVars, templateVars
<1>8. TypeInv'
  BY <1>0, <1>3, <1>5, <1>7, TypeKept
<1>9. FilesInv'
  <2>1. CASE s.for = "image"
    BY <1>0, <1>3, <1>4, <1>5, <1>6, <2>1, FilesBegin
  <2>2. CASE s.for # "image"
    BY <1>0, <1>3, <1>4, <1>5, <1>6, <2>2, FilesQuiet DEF MediaPcs
  <2> QED BY <2>1, <2>2
<1>10. TextsInv'
  BY <1>0, <1>3, <1>4, <1>5, <1>6, TextsBegin
<1>11. TemplatesInv' /\ FavoritesCounted'
  BY <1>0, <1>3, <1>4, <1>5, <1>6, TemplatesQuiet DEF TemplatePcs, CountPcs
<1>12. AloneInv'
  <2> SUFFICES ASSUME ~overlapped', Finds(request[c]) PROVE Finds(s)'
    BY <1>0, <1>5, AloneStep
  <2>1. PICK x : x = request[c]
    OBVIOUS
  <2>2. failures' = 0 /\ s.pc \in {"image", "imageRow"} => KitStored(s)'
    <3> SUFFICES ASSUME failures' = 0, s.pc = "image" PROVE KitStored(s)'
      BY <1>4
    <3>1. s.copy = cache /\ cache # Nothing /\ CacheCurrent
      BY <1>3, <1>4, <1>5 DEF Finds, UnfailedKitsFor
    <3>2. PICK k \in Active : cache = CopyOf(k)
      BY <3>1 DEF CacheCurrent
    <3>3. s.copy.kit = k /\ k \in Kits /\ kit[k].state = "active"
      BY <3>1, <3>2 DEF CopyOf, Active
    <3> QED BY <1>6, <3>3 DEF KitStored, Exists, kitVars
  <2>3. KitsFor(s)' /\ (failures' = 0 => UnfailedKitsFor(s)')
    BY <1>4, <1>5, <1>6, <2>1, <2>2, FindsKits DEF Finds, Move, KitPcs
  <2>4. failures' = 0 => UnfailedFilesFor(s)'
    BY <1>4, <1>5, <1>6, <2>1, FindsFiles DEF Finds, Move
  <2>5. TextsFor(s)'
    BY <1>4, <1>6, <2>1, FindsTexts DEF Finds
  <2> QED BY <2>3, <2>4, <2>5 DEF Finds
<1>13. UsageInv'
  <2>1. s.for = "image" => s.files = {s.item} /\ s.item \notin images
    BY <1>3 DEF StudioInv, UsageInv, Fresh
  <2>2. UsageInv /\ ~Tracks(s) /\ ~Tracks(request[c])
    BY <1>4, <1>5 DEF StudioInv, Tracks
  <2> QED BY <1>0, <1>5, <1>6, <2>1, <2>2, UsageQuiet DEF UsageInv, mediaVars
<1> QED BY <1>8, <1>9, <1>10, <1>11, <1>12, <1>13 DEF StudioInv

(* Requests about kits write kits and the cache; templates may lose their kit. *)
KitsWaiting == {"idle", "readActive", "dropCache"} \cup KitPcs
KitsGoing == KitsWaiting \cup {"generate", "enhance", "image"}

LEMMA KitMove ==
    ASSUME StudioInv, NEW c \in Calls, NEW r \in Request, Carries(r), Move(c, r), failures' = failures,
           UNCHANGED <<mediaVars, aiVars, favorite>>, template' = template \/ KitsDetached,
           request[c].pc \in KitsWaiting, r.pc \in KitsGoing,
           r.for # "idle" => /\ request[c].for = r.for /\ r.item = request[c].item
                             /\ r.files = request[c].files,
           kit' \in [Kits -> KitRow], cache' \in Copy,
           ~overlapped' /\ Finds(request[c]) => KitsFor(r)' /\ (failures = 0 => UnfailedKitsFor(r)')
    PROVE  StudioInv'
<1>0. TypeInv /\ FilesInv /\ TextsInv /\ TemplatesInv /\ FavoritesCounted /\ AloneInv
  BY DEF StudioInv
<1>1. /\ template' \in [TemplateIds -> TemplateRow]
      /\ \A t \in TemplateIds : /\ template'[t].status = template[t].status
                                /\ template'[t].favoriteCount = template[t].favoriteCount
  <2>1. template \in [TemplateIds -> TemplateRow]
    BY <1>0 DEF TypeInv, StudioTypeOK
  <2>2. CASE template' = template
    BY <2>1, <2>2
  <2>3. CASE KitsDetached
    <3>1. \A t \in TemplateIds : template'[t] \in {template[t], [template[t] EXCEPT !.kit = "nothing"]}
      BY <2>3 DEF KitsDetached
    <3>2. \A t \in TemplateIds : template[t] \in TemplateRow
      BY <2>1
    <3>3. ASSUME NEW t \in TemplateIds
          PROVE  /\ template'[t] \in TemplateRow /\ template'[t].status = template[t].status
                 /\ template'[t].favoriteCount = template[t].favoriteCount
      <4>1. PICK x : x = template[t]
        OBVIOUS
      <4>2. PICK y : y = [x EXCEPT !.kit = "nothing"]
        OBVIOUS
      <4>3. x \in TemplateRow
        BY <3>2, <4>1
      <4>4. y \in TemplateRow /\ y.status = x.status /\ y.favoriteCount = x.favoriteCount
        BY <4>2, <4>3 DEF TemplateRow
      <4>5. template'[t] \in {x, y}
        BY <3>1, <4>1, <4>2
      <4> QED BY <4>1, <4>3, <4>4, <4>5
    <3>4. DOMAIN template' = TemplateIds /\ template' = [t \in TemplateIds |-> template'[t]]
      BY <2>3 DEF KitsDetached
    <3> QED BY <3>3, <3>4
  <2> QED BY <2>2, <2>3
<1>2. favorite' = favorite /\ generation' = generation /\ UNCHANGED mediaVars
  BY DEF aiVars
<1>3. RowsTyped'
  BY <1>0, <1>1 DEF TypeInv, StudioTypeOK, RowsTyped, mediaVars, aiVars
<1>4. TypeInv'
  BY <1>0, <1>3, TypeKept
<1>5. FilesInv'
  BY <1>0, <1>2, FilesQuiet DEF KitsWaiting, KitsGoing, KitPcs, MediaPcs
<1>6. TextsInv'
  BY <1>0, <1>2, TextsQuiet DEF KitsGoing, KitsWaiting, KitPcs
<1>7. TemplatesInv' /\ FavoritesCounted'
  BY <1>0, <1>1, <1>2, TemplatesQuiet DEF KitsWaiting, KitsGoing, KitPcs, TemplatePcs, CountPcs
<1>8. AloneInv'
  <2> SUFFICES ASSUME ~overlapped', Finds(request[c]) PROVE Finds(r)'
    BY <1>0, AloneStep
  <2>1. PICK x : x = request[c]
    OBVIOUS
  <2>2. failures' = 0 => UnfailedFilesFor(r)'
    BY <1>2, <2>1, FindsFiles DEF Finds, KitsWaiting, KitsGoing, KitPcs
  <2>3. TextsFor(r)'
    BY <1>2, <2>1, FindsTexts DEF Finds, KitsGoing, KitsWaiting, KitPcs
  <2> QED BY <2>2, <2>3 DEF Finds
<1>9. UsageInv'
  <2>1. UsageInv /\ ~Tracks(r) /\ ~Tracks(request[c]) /\ request[c].pc # "imageFile"
    BY DEF StudioInv, Tracks, KitsWaiting, KitsGoing, KitPcs
  <2>2. r.for = "image" => r.files = {r.item} /\ r.item \notin images
    BY <2>1 DEF UsageInv, ImageOK
  <2> QED BY <1>0, <1>2, <2>1, <2>2, UsageQuiet DEF UsageInv, mediaVars
<1> QED BY <1>4, <1>5, <1>6, <1>7, <1>8, <1>9 DEF StudioInv

(* create leaves no kit active until its own row is written.                   *)
LEMMA CreateBrandKitKeeps ==
    ASSUME StudioInv, NEW c \in Calls, NEW k \in Kits, CreateBrandKit(c, k),
           UNCHANGED <<mediaVars, aiVars, templateVars>>
    PROVE  StudioInv'
<1>0. TypeInv /\ kit \in [Kits -> KitRow] /\ cache \in Copy
  BY DEF StudioInv, TypeInv, StudioTypeOK
<1>1. PICK r : r = AboutKit("createKitRow", k)
  OBVIOUS
<1>2. /\ Begin(c, r) /\ cache' = cache
      /\ kit' = [i \in Kits |-> IF i \in Active THEN [kit[i] EXCEPT !.state = "inactive"] ELSE kit[i]]
  BY <1>1 DEF CreateBrandKit, AboutKit
<1>3. r \in Request /\ Carries(r) /\ r.pc = "createKitRow" /\ r.for = "idle"
  BY <1>1, AboutKitRow
<1>4. Move(c, r) /\ request[c].pc = "idle" /\ failures' = failures
  BY <1>0, <1>2, Begins
<1>5. kit' \in [Kits -> KitRow] /\ Active' = {}
  <2>1. \A i \in Kits : [kit[i] EXCEPT !.state = "inactive"] \in KitRow
                         /\ [kit[i] EXCEPT !.state = "inactive"].state = "inactive"
    BY <1>0 DEF KitRow, KitState
  <2> QED BY <1>0, <1>2, <2>1 DEF Active
<1>6. KitsFor(r)' /\ UnfailedKitsFor(r)'
  BY <1>3, <1>5 DEF KitsFor, UnfailedKitsFor
<1>7. UNCHANGED <<mediaVars, aiVars, favorite>> /\ template' = template
  BY DEF templateVars
<1> QED BY <1>0, <1>2, <1>3, <1>4, <1>5, <1>6, <1>7, KitMove DEF KitsWaiting, KitsGoing, KitPcs

(* Two copies are equal when their parts are.                                  *)
LEMMA CopyEqual ==
    ASSUME NEW x \in Copy, NEW y \in Copy, x.kit = y.kit, x.version = y.version
    PROVE  x = y
BY DEF Copy

(* A copy of a stored kit.                                                     *)
LEMMA CopyTyped ==
    ASSUME TypeInv, NEW k \in Kits
    PROVE  CopyOf(k) \in Copy /\ CopyOf(k).kit = k /\ CopyOf(k).version = kit[k].version /\ CopyOf(k) # Nothing
<1>1. kit[k].version \in 0..MaxCalls /\ k # "nothing"
  BY StudioAssumption DEF TypeInv, StudioTypeOK, KitRow
<1> QED BY <1>1 DEF CopyOf, Copy, Nothing

LEMMA CreateKitRowKeeps ==
    ASSUME StudioInv, NEW c \in Calls, CreateKitRow(c), KitsDetached, UNCHANGED <<mediaVars, aiVars, favorite>>
    PROVE  StudioInv'
<1>0. TypeInv /\ AloneInv /\ kit \in [Kits -> KitRow] /\ cache \in Copy
  BY DEF StudioInv, TypeInv, StudioTypeOK
<1>1. PICK x : x = request[c]
  OBVIOUS
<1>2. x \in Request /\ Carries(x) /\ x.pc = "createKitRow" /\ x.copy.kit \in Kits /\ x.for = "idle"
  BY <1>0, <1>1 DEF CreateKitRow, At, TypeInv, Carries, KitPcs, Stages
<1>3. PICK y : y = [x.copy EXCEPT !.version = 1]
  OBVIOUS
<1>4. y \in Copy /\ y.kit = x.copy.kit /\ y.version = 1
  <2>1. x.copy \in Copy /\ 1 \in 0..MaxCalls
    BY <1>2, RequestAssumption DEF Request
  <2> QED BY <1>3, <2>1 DEF Copy
<1>5. PICK r : r = [x EXCEPT !.pc = "cacheRow", !.copy = y]
  OBVIOUS
<1>6. PICK row : row = [state |-> "active", version |-> 1]
  OBVIOUS
<1>7. row \in KitRow /\ row.state = "active" /\ row.version = 1
  BY <1>6, RequestAssumption DEF KitRow, KitState
<1>8. Continue(c, r) /\ kit' = [kit EXCEPT ![x.copy.kit] = row] /\ cache' = cache
  BY <1>1, <1>2, <1>3, <1>5, <1>6 DEF CreateKitRow, Request, Copy
<1>9. /\ r \in Request /\ Carries(r) /\ r.pc = "cacheRow" /\ r.for = "idle" /\ r.copy = y
  <2>1. "cacheRow" \in Pcs
    BY DEF Pcs, KitPcs
  <2>2. r \in Request /\ r.pc = "cacheRow" /\ r.for = "idle" /\ r.copy = y /\ r.files = x.files /\ r.left = x.left
    BY <1>2, <1>4, <1>5, <2>1 DEF Request
  <2> QED BY <1>2, <1>4, <2>2 DEF Carries, KitPcs, TemplatePcs, CountPcs
<1>10. Move(c, r) /\ failures' = failures
  BY <1>0, <1>1, <1>2, <1>8, Continues
<1>11. /\ kit' \in [Kits -> KitRow] /\ Active' = Active \cup {x.copy.kit}
       /\ kit'[x.copy.kit].version = 1
  BY <1>0, <1>2, <1>7, <1>8 DEF Active
<1>12. ASSUME Finds(request[c]) PROVE KitsFor(r)' /\ UnfailedKitsFor(r)'
  <2>1. Active' = {x.copy.kit}
    BY <1>1, <1>2, <1>11, <1>12 DEF Finds, KitsFor
  <2>2. CopyOf(x.copy.kit)' \in Copy /\ CopyOf(x.copy.kit)'.kit = x.copy.kit /\ CopyOf(x.copy.kit)'.version = 1
    BY <1>2, <1>11, RequestAssumption DEF CopyOf, Copy
  <2>3. y = CopyOf(x.copy.kit)'
    BY <1>4, <2>2, CopyEqual
  <2> QED BY <1>9, <2>1, <2>3 DEF KitsFor, UnfailedKitsFor
<1>13. request[c].pc \in KitsWaiting /\ r.pc \in KitsGoing
  BY <1>1, <1>2, <1>9 DEF KitsWaiting, KitsGoing, KitPcs
<1> QED BY <1>0, <1>8, <1>9, <1>10, <1>11, <1>12, <1>13, KitMove

(* The row that was written or read goes into the cache.                       *)
LEMMA CacheRowKeeps ==
    ASSUME StudioInv, NEW c \in Calls, CacheRow(c), KitsDetached, UNCHANGED <<mediaVars, aiVars, favorite>>
    PROVE  StudioInv'
<1>0. TypeInv /\ AloneInv /\ kit \in [Kits -> KitRow] /\ cache \in Copy
  BY DEF StudioInv, TypeInv, StudioTypeOK
<1>1. PICK x : x = request[c]
  OBVIOUS
<1>2. x \in Request /\ Carries(x) /\ x.pc = "cacheRow" /\ x.copy \in Copy
  BY <1>0, <1>1 DEF CacheRow, At, TypeInv, Request
<1>3. PICK r : r = AfterKit(x)
  OBVIOUS
<1>4. /\ r \in Request /\ Carries(r) /\ r.pc = x.for /\ r.for = x.for
      /\ r.for # "idle" => r.files = x.files /\ r.copy = x.copy /\ r.item = x.item
  BY <1>2, <1>3, AfterRow DEF Carries
<1>5. Continue(c, r) /\ cache' = x.copy /\ kit' = kit
  BY <1>1, <1>3 DEF CacheRow
<1>6. Move(c, r) /\ failures' = failures
  BY <1>0, <1>1, <1>2, <1>5, Continues
<1>7. r.pc \in {"idle", "generate", "enhance", "image"}
  BY <1>2, <1>4 DEF Request
<1>8. ASSUME Finds(request[c]) PROVE KitsFor(r)' /\ (failures = 0 => UnfailedKitsFor(r)')
  <2>1. KitsFor(x) /\ \E k \in Active : x.copy = CopyOf(k)
    BY <1>1, <1>2, <1>8 DEF Finds, KitsFor
  <2>2. PICK k \in Active : x.copy = CopyOf(k)
    BY <2>1
  <2>3. Active' = Active /\ CopyOf(k)' = CopyOf(k) /\ k \in Kits /\ Exists(k)'
    BY <1>5, <2>2 DEF Active, CopyOf, Exists
  <2>4. r.pc = "image" => KitStored(r)'
    BY <1>4, <2>2, <2>3 DEF KitStored, CopyOf
  <2>5. CacheCurrent'
    BY <1>5, <2>2, <2>3 DEF CacheCurrent
  <2> QED BY <1>7, <2>1, <2>2, <2>3, <2>4, <2>5 DEF KitsFor, UnfailedKitsFor
<1>9. request[c].pc \in KitsWaiting /\ r.pc \in KitsGoing
  BY <1>1, <1>2, <1>7 DEF KitsWaiting, KitsGoing, KitPcs
<1> QED BY <1>0, <1>1, <1>2, <1>4, <1>5, <1>6, <1>8, <1>9, KitMove

LEMMA ReadActiveKeeps ==
    ASSUME StudioInv, NEW c \in Calls, ReadActive(c), KitsDetached, UNCHANGED <<mediaVars, aiVars, favorite>>
    PROVE  StudioInv'
<1>0. TypeInv /\ AloneInv /\ kit \in [Kits -> KitRow] /\ cache \in Copy
  BY DEF StudioInv, TypeInv, StudioTypeOK
<1>1. PICK x : x = request[c]
  OBVIOUS
<1>2. x \in Request /\ Carries(x) /\ x.pc = "readActive" /\ x.copy = Nothing
  BY <1>0, <1>1 DEF ReadActive, At, TypeInv, Carries
<1>3. UNCHANGED kitVars /\ kit' = kit /\ cache' = cache
  BY DEF ReadActive, kitVars
<1>4. request[c].pc \in KitsWaiting
  BY <1>1, <1>2 DEF KitsWaiting
<1>5. CASE \E k \in Active : Continue(c, [request[c] EXCEPT !.pc = "cacheRow", !.copy = CopyOf(k)])
  <2>1. PICK k \in Active : Continue(c, [x EXCEPT !.pc = "cacheRow", !.copy = CopyOf(k)])
    BY <1>1, <1>5
  <2>2. k \in Kits
    BY DEF Active
  <2>3. PICK y : y = CopyOf(k)
    OBVIOUS
  <2>4. y \in Copy /\ y.kit = k
    BY <1>0, <2>2, <2>3, CopyTyped
  <2>5. PICK r : r = [x EXCEPT !.pc = "cacheRow", !.copy = y]
    OBVIOUS
  <2>6. Continue(c, r)
    BY <2>1, <2>3, <2>5
  <2>7. /\ r \in Request /\ r.pc = "cacheRow" /\ r.for = x.for /\ r.item = x.item /\ r.files = x.files
        /\ r.left = x.left /\ r.copy = y
    <3>1. "cacheRow" \in Pcs
      BY DEF Pcs, KitPcs
    <3> QED BY <1>2, <2>4, <2>5, <3>1 DEF Request
  <2>8. Carries(r)
    BY <1>2, <2>2, <2>4, <2>7 DEF Carries, Stages, KitPcs, TemplatePcs, CountPcs
  <2>9. Move(c, r) /\ failures' = failures
    BY <1>0, <1>1, <1>2, <2>6, Continues
  <2>10. ASSUME Finds(request[c]) PROVE KitsFor(r)' /\ (failures = 0 => UnfailedKitsFor(r)')
    <3>1. Active' = Active /\ CopyOf(k)' = CopyOf(k)
      BY <1>3 DEF Active, CopyOf
    <3>2. \A i, j \in Active : i = j
      BY <2>10 DEF Finds, KitsFor
    <3> QED BY <2>3, <2>7, <3>1, <3>2 DEF KitsFor, UnfailedKitsFor
  <2>11. r.pc \in KitsGoing
    BY <2>7 DEF KitsGoing, KitsWaiting, KitPcs
  <2> QED BY <1>0, <1>1, <1>3, <1>4, <2>7, <2>8, <2>9, <2>10, <2>11, KitMove
<1>6. CASE Active = {} /\ Continue(c, AfterKit(request[c]))
  <2>1. PICK r : r = AfterKit(x)
    OBVIOUS
  <2>2. Continue(c, r)
    BY <1>1, <1>6, <2>1
  <2>3. /\ r \in Request /\ Carries(r) /\ r.pc = x.for /\ r.for = x.for
        /\ r.for # "idle" => r.files = x.files /\ r.copy = x.copy /\ r.item = x.item
    BY <1>2, <2>1, AfterRow DEF Carries
  <2>4. Move(c, r) /\ failures' = failures
    BY <1>0, <1>1, <1>2, <2>2, Continues
  <2>5. r.pc \in {"idle", "generate", "enhance", "image"}
    BY <1>2, <2>3 DEF Request
  <2>6. ASSUME Finds(request[c]) PROVE KitsFor(r)' /\ (failures' = 0 => UnfailedKitsFor(r)')
    <3>1. r.pc = "image" => KitStored(r)'
      BY <1>2, <2>3 DEF KitStored
    <3> QED BY <1>1, <1>2, <1>3, <2>4, <2>5, <2>6, <3>1, FindsKits DEF Finds, KitPcs
  <2>7. r.pc \in KitsGoing
    BY <2>5 DEF KitsGoing, KitsWaiting
  <2> QED BY <1>0, <1>1, <1>3, <1>4, <2>3, <2>4, <2>6, <2>7, KitMove
<1> QED BY <1>5, <1>6 DEF ReadActive

(* update: the copy of the active kit is replaced by the new one.              *)
LEMMA UpdateBrandKitKeeps ==
    ASSUME StudioInv, NEW c \in Calls, NEW k \in Kits, UpdateBrandKit(c, k),
           UNCHANGED <<mediaVars, aiVars, templateVars>>
    PROVE  StudioInv'
<1>0. TypeInv /\ kit \in [Kits -> KitRow] /\ cache \in Copy
  BY DEF StudioInv, TypeInv, StudioTypeOK
<1>1. PICK y : y = [kit |-> k, version |-> kit[k].version + 1]
  OBVIOUS
<1>2. kit[k] \in KitRow /\ kit[k].version < MaxCalls
  BY <1>0 DEF UpdateBrandKit
<1>3. y \in Copy /\ y.kit = k /\ y.version = kit[k].version + 1
  BY <1>1, <1>2, RequestAssumption DEF Copy, KitRow
<1>4. PICK r : r = IF k \in Active THEN CachesKit(y) ELSE IdleRequest
  OBVIOUS
<1>5. PICK row : row = [kit[k] EXCEPT !.version = @ + 1]
  OBVIOUS
<1>6. row \in KitRow /\ row.state = kit[k].state /\ row.version = kit[k].version + 1
  <2>1. kit[k].version + 1 \in 0..MaxCalls
    BY <1>2, RequestAssumption DEF KitRow
  <2> QED BY <1>2, <1>5, <2>1 DEF KitRow
<1>7. Begin(c, r) /\ kit' = [kit EXCEPT ![k] = row] /\ cache' = cache
  BY <1>1, <1>4, <1>5 DEF UpdateBrandKit, CachesUpdate, CachesKit
<1>8. /\ r \in Request /\ Carries(r) /\ r.for = "idle"
      /\ k \in Active => r.pc = "cacheRow" /\ r.copy = y
      /\ k \notin Active => r.pc = "idle"
  BY <1>3, <1>4, CachesKitRow, IdleRow
<1>9. Move(c, r) /\ request[c].pc = "idle" /\ failures' = failures
  BY <1>0, <1>7, Begins
<1>10. /\ kit' \in [Kits -> KitRow] /\ kit'[k] = row /\ \A i \in Kits : i # k => kit'[i] = kit[i]
       /\ Active' = Active /\ \A i : Exists(i)' = Exists(i)
  <2>1. kit' \in [Kits -> KitRow] /\ kit'[k] = row /\ \A i \in Kits : i # k => kit'[i] = kit[i]
    BY <1>0, <1>6, <1>7
  <2> QED BY <1>6, <2>1 DEF Active, Exists
<1>11. ASSUME Finds(request[c]) PROVE KitsFor(r)' /\ (failures = 0 => UnfailedKitsFor(r)')
  <2>1. \A i, j \in Active : i = j
    BY <1>11 DEF Finds, KitsFor
  <2>2. CASE k \in Active
    <3>1. CopyOf(k)' \in Copy /\ CopyOf(k)'.kit = k /\ CopyOf(k)'.version = row.version
      BY <1>6, <1>10 DEF CopyOf, Copy, KitRow
    <3>2. y = CopyOf(k)'
      BY <1>3, <1>6, <3>1, CopyEqual
    <3> QED BY <1>8, <1>10, <2>1, <2>2, <3>2 DEF KitsFor, UnfailedKitsFor
  <2>3. CASE k \notin Active
    <3>1. KitsFor(r)'
      BY <1>8, <1>10, <2>1, <2>3 DEF KitsFor
    <3>2. ASSUME failures = 0 PROVE UnfailedKitsFor(r)'
      <4>1. CacheCurrent /\ ((\E i \in Kits : Exists(i)) => Active # {})
        BY <1>9, <1>11, <3>2 DEF Finds, UnfailedKitsFor
      <4>2. CacheCurrent'
        <5>1. \A i \in Active : CopyOf(i)' = CopyOf(i)
          BY <1>10, <2>3 DEF CopyOf, Active
        <5> QED BY <1>7, <1>10, <4>1, <5>1 DEF CacheCurrent
      <4> QED BY <1>8, <1>10, <2>3, <4>1, <4>2 DEF UnfailedKitsFor
    <3> QED BY <3>1, <3>2
  <2> QED BY <2>2, <2>3
<1>12. UNCHANGED <<mediaVars, aiVars, favorite>> /\ template' = template
  BY DEF templateVars
<1>13. request[c].pc \in KitsWaiting /\ r.pc \in KitsGoing
  BY <1>8, <1>9 DEF KitsWaiting, KitsGoing, KitPcs
<1> QED BY <1>0, <1>7, <1>8, <1>9, <1>10, <1>11, <1>12, <1>13, KitMove

(* deactivate and delete read the kit first.                                   *)
LEMMA AboutKitBegins ==
    ASSUME StudioInv, NEW c \in Calls, NEW pc \in {"countActive", "deleteKitRow"}, NEW k \in Kits,
           Begin(c, AboutKit(pc, k)), pc = "countActive" <=> k \in Active,
           UNCHANGED <<kitVars, mediaVars, aiVars, templateVars>>
    PROVE  StudioInv'
<1>0. TypeInv /\ kit \in [Kits -> KitRow] /\ cache \in Copy
  BY DEF StudioInv, TypeInv, StudioTypeOK
<1>1. PICK r : r = AboutKit(pc, k)
  OBVIOUS
<1>2. Begin(c, r)
  BY <1>1
<1>3. r \in Request /\ Carries(r) /\ r.pc = pc /\ r.for = "idle" /\ r.copy.kit = k
  BY <1>1, AboutKitRow
<1>4. Move(c, r) /\ request[c].pc = "idle" /\ failures' = failures
  BY <1>0, <1>2, Begins
<1>5. /\ kit' = kit /\ cache' = cache /\ Active' = Active
      /\ \A i : Exists(i)' = Exists(i) /\ CopyOf(i)' = CopyOf(i)
  BY DEF kitVars, Active, Exists, CopyOf
<1>6. ASSUME Finds(request[c]) PROVE KitsFor(r)' /\ (failures = 0 => UnfailedKitsFor(r)')
  <2>1. KitsFor(r)'
    BY <1>3, <1>5, <1>6 DEF Finds, KitsFor
  <2>2. ASSUME failures = 0 PROVE UnfailedKitsFor(r)'
    BY <1>3, <1>4, <1>5, <1>6, <2>2 DEF Finds, UnfailedKitsFor, CacheCurrent
  <2> QED BY <2>1, <2>2
<1>7. UNCHANGED <<mediaVars, aiVars, favorite>> /\ template' = template
  BY DEF templateVars
<1>8. request[c].pc \in KitsWaiting /\ r.pc \in KitsGoing
  BY <1>3, <1>4 DEF KitsWaiting, KitsGoing, KitPcs
<1> QED BY <1>0, <1>3, <1>4, <1>5, <1>6, <1>7, <1>8, KitMove

(* One request at a time does not come past the count: the kit it was asked    *)
(* about is the only active one.                                               *)
LEMMA CountActiveKeeps ==
    ASSUME StudioInv, NEW c \in Calls, CountActive(c), KitsDetached, UNCHANGED <<mediaVars, aiVars, favorite>>
    PROVE  StudioInv'
<1>0. TypeInv /\ AloneInv /\ kit \in [Kits -> KitRow] /\ cache \in Copy
  BY DEF StudioInv, TypeInv, StudioTypeOK
<1>1. PICK x : x = request[c]
  OBVIOUS
<1>2. x \in Request /\ Carries(x) /\ x.pc = "countActive"
  BY <1>0, <1>1 DEF CountActive, At, TypeInv
<1>3. PICK r : r = IF MayDeactivate THEN [x EXCEPT !.pc = "deactivateRow"] ELSE IdleRequest
  OBVIOUS
<1>4. Continue(c, r)
  BY <1>1, <1>3 DEF CountActive, GoTo, End
<1>5. /\ r \in Request /\ Carries(r) /\ r.for = "idle" /\ r.pc \in {"deactivateRow", "idle"}
      /\ r.pc = "deactivateRow" => MayDeactivate
  <2>1. CASE MayDeactivate
    <3>1. "deactivateRow" \in Pcs
      BY DEF Pcs, KitPcs
    <3>2. /\ r \in Request /\ r.pc = "deactivateRow" /\ r.for = x.for /\ r.copy = x.copy /\ r.files = x.files
          /\ r.left = x.left
      BY <1>2, <1>3, <2>1, <3>1 DEF Request
    <3>3. x.for = "idle"
      BY <1>2 DEF Carries, Stages
    <3> QED BY <1>2, <2>1, <3>2, <3>3 DEF Carries, KitPcs, TemplatePcs, CountPcs
  <2>2. CASE ~MayDeactivate
    BY <1>3, <2>2, IdleRow
  <2> QED BY <2>1, <2>2
<1>6. Move(c, r) /\ failures' = failures
  BY <1>0, <1>1, <1>2, <1>4, Continues
<1>7. /\ kit' = kit /\ cache' = cache /\ Active' = Active
      /\ \A i : Exists(i)' = Exists(i) /\ CopyOf(i)' = CopyOf(i)
  BY DEF CountActive, kitVars, Active, Exists, CopyOf
<1>8. ASSUME Finds(request[c]) PROVE KitsFor(r)' /\ (failures = 0 => UnfailedKitsFor(r)')
  <2>1. KitsFor(x) /\ (failures = 0 => UnfailedKitsFor(x))
    BY <1>1, <1>8 DEF Finds
  <2>2. Active = {x.copy.kit}
    BY <1>2, <2>1 DEF KitsFor
  <2>3. ~MayDeactivate
    BY <2>2, FS_Singleton DEF MayDeactivate
  <2>4. r.pc = "idle"
    BY <1>5, <2>3
  <2>5. KitsFor(r)'
    BY <1>7, <2>1, <2>4 DEF KitsFor
  <2>6. ASSUME failures = 0 PROVE UnfailedKitsFor(r)'
    BY <1>2, <1>7, <2>1, <2>4, <2>6 DEF UnfailedKitsFor, CacheCurrent
  <2> QED BY <2>5, <2>6
<1>9. request[c].pc \in KitsWaiting /\ r.pc \in KitsGoing
  BY <1>1, <1>2, <1>5 DEF KitsWaiting, KitsGoing, KitPcs
<1> QED BY <1>0, <1>5, <1>6, <1>7, <1>8, <1>9, KitMove

(* The state of a kit is written, and the cache dropped in the next step.      *)
LEMMA StateWritten ==
    ASSUME StudioInv, NEW k \in Kits, NEW state \in KitState, kit' = [kit EXCEPT ![k].state = state]
    PROVE  /\ kit' \in [Kits -> KitRow] /\ kit'[k].state = state
           /\ \A i \in Kits : i # k => kit'[i] = kit[i]
<1>1. kit \in [Kits -> KitRow]
  BY DEF StudioInv, TypeInv, StudioTypeOK
<1>2. PICK row : row = [kit[k] EXCEPT !.state = state]
  OBVIOUS
<1>3. row \in KitRow /\ row.state = state
  BY <1>1, <1>2 DEF KitRow
<1> QED BY <1>1, <1>2, <1>3

LEMMA DeactivateRowKeeps ==
    ASSUME StudioInv, NEW c \in Calls, DeactivateRow(c), KitsDetached, UNCHANGED <<mediaVars, aiVars, favorite>>
    PROVE  StudioInv'
<1>0. TypeInv /\ AloneInv /\ kit \in [Kits -> KitRow] /\ cache \in Copy
  BY DEF StudioInv, TypeInv, StudioTypeOK
<1>1. PICK k : k = request[c].copy.kit
  OBVIOUS
<1>2. k \in Kits /\ request[c].pc = "deactivateRow" /\ cache' = cache
  BY <1>0, <1>1 DEF DeactivateRow, At, TypeInv, Carries, KitPcs
<1>3. PICK r : r = IF Exists(k) THEN AtStep("dropCache") ELSE IdleRequest
  OBVIOUS
<1>4. Continue(c, r)
  BY <1>1, <1>3 DEF DeactivateRow, End, AtStep
<1>5. r \in Request /\ Carries(r) /\ r.for = "idle" /\ r.pc \in {"dropCache", "idle"}
  BY <1>3, AtStepRow, IdleRow
<1>6. Move(c, r) /\ failures' = failures
  BY <1>0, <1>2, <1>4, Continues
<1>7. kit' \in [Kits -> KitRow]
  BY <1>0, <1>1, <1>2, StateWritten DEF DeactivateRow, KitState
<1>8. ~Finds(request[c])
  BY <1>2 DEF Finds, KitsFor
<1>9. request[c].pc \in KitsWaiting /\ r.pc \in KitsGoing
  BY <1>2, <1>5 DEF KitsWaiting, KitsGoing, KitPcs
<1> QED BY <1>0, <1>2, <1>5, <1>6, <1>7, <1>8, <1>9, KitMove

(* activate leaves the one kit active.                                         *)
LEMMA ActivateBrandKitKeeps ==
    ASSUME StudioInv, NEW c \in Calls, NEW k \in Kits, ActivateBrandKit(c, k),
           UNCHANGED <<mediaVars, aiVars, templateVars>>
    PROVE  StudioInv'
<1>0. TypeInv /\ kit \in [Kits -> KitRow] /\ cache \in Copy
  BY DEF StudioInv, TypeInv, StudioTypeOK
<1>1. PICK r : r = AtStep("dropCache")
  OBVIOUS
<1>2. /\ Begin(c, r) /\ cache' = cache
      /\ kit' = [i \in Kits |-> IF i = k THEN [kit[i] EXCEPT !.state = "active"]
                                ELSE IF i \in Active THEN [kit[i] EXCEPT !.state = "inactive"]
                                ELSE kit[i]]
  BY <1>1 DEF ActivateBrandKit, AtStep
<1>3. r \in Request /\ Carries(r) /\ r.pc = "dropCache" /\ r.for = "idle"
  BY <1>1, AtStepRow
<1>4. Move(c, r) /\ request[c].pc = "idle" /\ failures' = failures
  BY <1>0, <1>2, Begins
<1>5. kit' \in [Kits -> KitRow] /\ Active' = {k}
  <2>1. \A i \in Kits : \A state \in KitState : /\ [kit[i] EXCEPT !.state = state] \in KitRow
                                                /\ [kit[i] EXCEPT !.state = state].state = state
    BY <1>0 DEF KitRow, KitState
  <2>2. {"active", "inactive"} \subseteq KitState
    BY DEF KitState
  <2> QED BY <1>0, <1>2, <2>1, <2>2 DEF Active
<1>6. KitsFor(r)' /\ UnfailedKitsFor(r)'
  BY <1>3, <1>5 DEF KitsFor, UnfailedKitsFor
<1>7. UNCHANGED <<mediaVars, aiVars, favorite>> /\ template' = template
  BY DEF templateVars
<1>8. request[c].pc \in KitsWaiting /\ r.pc \in KitsGoing
  BY <1>3, <1>4 DEF KitsWaiting, KitsGoing, KitPcs
<1> QED BY <1>0, <1>2, <1>3, <1>4, <1>5, <1>6, <1>7, <1>8, KitMove

LEMMA DeleteKitRowKeeps ==
    ASSUME StudioInv, NEW c \in Calls, DeleteKitRow(c), KitsDetached, UNCHANGED <<mediaVars, aiVars, favorite>>
    PROVE  StudioInv'
<1>0. TypeInv /\ AloneInv /\ kit \in [Kits -> KitRow] /\ cache \in Copy
  BY DEF StudioInv, TypeInv, StudioTypeOK
<1>1. PICK k : k = request[c].copy.kit
  OBVIOUS
<1>2. k \in Kits /\ request[c].pc = "deleteKitRow" /\ cache' = cache
  BY <1>0, <1>1 DEF DeleteKitRow, At, TypeInv, Carries, KitPcs
<1>3. PICK r : r = IF Exists(k) THEN AtStep("dropCache") ELSE IdleRequest
  OBVIOUS
<1>4. Continue(c, r) /\ (IF Exists(k) THEN kit' = [kit EXCEPT ![k].state = "deleted"] ELSE kit' = kit)
  BY <1>1, <1>3 DEF DeleteKitRow, End, AtStep
<1>5. /\ r \in Request /\ Carries(r) /\ r.for = "idle" /\ r.pc \in {"dropCache", "idle"}
      /\ r.pc = "idle" => ~Exists(k)
  BY <1>3, AtStepRow, IdleRow
<1>6. Move(c, r) /\ failures' = failures
  BY <1>0, <1>2, <1>4, Continues
<1>7. /\ kit' \in [Kits -> KitRow] /\ \A i \in Kits : i # k => kit'[i] = kit[i]
      /\ kit'[k].state = "deleted" \/ kit' = kit
  BY <1>0, <1>2, <1>4, StateWritten DEF KitState
<1>8. ASSUME Finds(request[c]) PROVE KitsFor(r)' /\ (failures = 0 => UnfailedKitsFor(r)')
  <2>1. k \notin Active /\ \A i, j \in Active : i = j
    BY <1>1, <1>2, <1>8 DEF Finds, KitsFor
  <2>2. Active' = Active /\ \A i \in Active : CopyOf(i)' = CopyOf(i)
    BY <1>7, <2>1 DEF Active, CopyOf
  <2>3. \A i \in Kits : Exists(i)' => Exists(i)
    BY <1>7 DEF Exists
  <2>4. ASSUME failures = 0 PROVE UnfailedKitsFor(r)'
    <3>1. CacheCurrent /\ ((\E i \in Kits : Exists(i)) => Active # {})
      BY <1>2, <1>8, <2>4 DEF Finds, UnfailedKitsFor
    <3>2. CacheCurrent'
      BY <1>2, <2>2, <3>1 DEF CacheCurrent
    <3> QED BY <1>5, <2>2, <2>3, <3>1, <3>2 DEF UnfailedKitsFor
  <2> QED BY <1>5, <2>1, <2>2, <2>4 DEF KitsFor
<1>9. request[c].pc \in KitsWaiting /\ r.pc \in KitsGoing
  BY <1>2, <1>5 DEF KitsWaiting, KitsGoing, KitPcs
<1> QED BY <1>0, <1>2, <1>5, <1>6, <1>7, <1>8, <1>9, KitMove

LEMMA DropCacheKeeps ==
    ASSUME StudioInv, NEW c \in Calls, DropCache(c), KitsDetached, UNCHANGED <<mediaVars, aiVars, favorite>>
    PROVE  StudioInv'
<1>0. TypeInv /\ AloneInv /\ kit \in [Kits -> KitRow]
  BY DEF StudioInv, TypeInv, StudioTypeOK
<1>1. request[c].pc = "dropCache" /\ cache' = Nothing /\ kit' = kit /\ End(c)
  BY DEF DropCache, At
<1>2. Move(c, IdleRequest) /\ failures' = failures
  BY <1>0, <1>1, Ends
<1>3. Active' = Active /\ \A i : Exists(i)' = Exists(i)
  BY <1>1 DEF Active, Exists
<1>4. ASSUME Finds(request[c]) PROVE KitsFor(IdleRequest)' /\ (failures = 0 => UnfailedKitsFor(IdleRequest)')
  <2>1. \A i, j \in Active : i = j
    BY <1>4 DEF Finds, KitsFor
  <2>2. ASSUME failures = 0 PROVE (\E i \in Kits : Exists(i)) => Active # {}
    BY <1>1, <1>4, <2>2 DEF Finds, UnfailedKitsFor
  <2> QED BY <1>1, <1>3, <2>1, <2>2, IdleRow DEF KitsFor, UnfailedKitsFor, CacheCurrent
<1>5. request[c].pc \in KitsWaiting /\ IdleRequest.pc \in KitsGoing
  BY <1>1, IdleRow DEF KitsWaiting, KitsGoing
<1> QED BY <1>0, <1>1, <1>2, <1>4, <1>5, IdleRow, KitMove

LEMMA CacheExpiresKeeps ==
    ASSUME StudioInv, CacheExpires, UNCHANGED <<mediaVars, aiVars, templateVars>>
    PROVE  StudioInv'
<1>1. /\ cache' = Nothing /\ kit' = kit /\ request' = request /\ calls' = calls /\ failures' = failures
      /\ overlapped' = overlapped /\ file' = file /\ asset' = asset /\ generation' = generation
      /\ images' = images /\ usage' = usage /\ template' = template /\ favorite' = favorite
  BY DEF CacheExpires, requestVars, mediaVars, aiVars, templateVars
<1>2. Active' = Active /\ Open' = Open /\ \A i : Exists(i)' = Exists(i) /\ CopyOf(i)' = CopyOf(i)
  BY <1>1 DEF Active, Open, At, Exists, CopyOf
<1>3. TypeInv'
  BY <1>1, IdleRow DEF StudioInv, TypeInv, StudioTypeOK
<1>4. FilesInv' /\ TextsInv' /\ UsageInv' /\ TemplatesInv' /\ FavoritesCounted'
  <2>1. FilesInv'
    BY <1>1 DEF StudioInv, FilesInv, MakerOK, DestroyerOK, Stored, Strayed
  <2>2. TextsInv'
    BY <1>1 DEF StudioInv, TextsInv, TextOK, Written
  <2>3. TemplatesInv'
    BY <1>1 DEF StudioInv, TemplatesInv, TemplateOK, At
  <2>4. FavoritesCounted'
    BY <1>1 DEF StudioInv, FavoritesCounted, HasTemplate, Counting, At
  <2>5. UsageInv'
    BY <1>1 DEF StudioInv, UsageInv, TextsWritten, Tracking, ImageOK
  <2> QED BY <2>1, <2>2, <2>3, <2>4, <2>5
<1>5. ASSUME NEW r, Finds(r) PROVE Finds(r)'
  <2>1. KitsFor(r)'
    BY <1>2, <1>5 DEF Finds, KitsFor
  <2>2. UnfailedKitsFor(r) => UnfailedKitsFor(r)'
    BY <1>1, <1>2 DEF UnfailedKitsFor, CacheCurrent, KitStored
  <2>3. UnfailedFilesFor(r) => UnfailedFilesFor(r)'
    BY <1>1 DEF UnfailedFilesFor, Stored, Strayed
  <2>4. TextsFor(r)'
    BY <1>1, <1>5 DEF Finds, TextsFor
  <2> QED BY <1>1, <1>5, <2>1, <2>2, <2>3, <2>4 DEF Finds
<1>6. AloneInv'
  BY <1>1, <1>2, <1>5 DEF StudioInv, AloneInv, At
<1> QED BY <1>3, <1>4, <1>6 DEF StudioInv

(* Each request for the kits, and each of their steps.                         *)
LEMMA KitsKeep ==
    ASSUME StudioInv, NEW c \in Calls,
           \/ KitRequest(c) /\ Others /\ UNCHANGED templateVars
           \/ KitStep(c) /\ KitsDetached /\ Others /\ UNCHANGED favorite
    PROVE  StudioInv'
<1>1. UNCHANGED <<mediaVars, aiVars>> /\ UNCHANGED <<mediaVars, aiVars, favorite>>
  BY DEF Others, templateVars
<1>2. CASE KitRequest(c) /\ UNCHANGED templateVars
  <2>0. UNCHANGED <<mediaVars, aiVars, templateVars>>
    BY <1>1, <1>2
  <2>1. CASE GetActiveBrandKit(c, IdleRequest)
    <3>1. PICK r : r = IdleRequest
      OBVIOUS
    <3>2. r \in Request /\ r.pc = "idle" /\ r.copy = Nothing /\ r.left = {} /\ r.for = "idle"
      BY <3>1, IdleRow DEF IdleRequest
    <3> QED BY <2>0, <2>1, <3>1, <3>2, GetActiveKeeps
  <2>2. CASE \E k \in Kits : CreateBrandKit(c, k)
    BY <2>0, <2>2, CreateBrandKitKeeps
  <2>3. CASE \E k \in Kits : UpdateBrandKit(c, k)
    BY <2>0, <2>3, UpdateBrandKitKeeps
  <2>4. ASSUME NEW k \in Kits, DeactivateBrandKit(c, k) PROVE StudioInv'
    <3>1. Begin(c, AboutKit("countActive", k)) /\ k \in Active /\ UNCHANGED kitVars
      BY <2>4 DEF DeactivateBrandKit, AboutKit
    <3> QED BY <2>0, <3>1, AboutKitBegins
  <2>5. CASE \E k \in Kits : ActivateBrandKit(c, k)
    BY <2>0, <2>5, ActivateBrandKitKeeps
  <2>6. ASSUME NEW k \in Kits, DeleteBrandKit(c, k) PROVE StudioInv'
    <3>1. Begin(c, AboutKit("deleteKitRow", k)) /\ k \notin Active /\ UNCHANGED kitVars
      BY <2>6 DEF DeleteBrandKit, AboutKit
    <3> QED BY <2>0, <3>1, AboutKitBegins
  <2> QED BY <1>2, <2>1, <2>2, <2>3, <2>4, <2>5, <2>6 DEF KitRequest
<1>3. CASE KitStep(c) /\ KitsDetached
  BY <1>1, <1>3, CreateKitRowKeeps, CacheRowKeeps, ReadActiveKeeps, CountActiveKeeps, DeactivateRowKeeps,
     DeleteKitRowKeeps, DropCacheKeeps DEF KitStep
<1> QED BY <1>2, <1>3

-------------------------------------------------------------------------------
(* Media.                                                                      *)

(* A request that makes no file it did not make before.                        *)
LEMMA FilesMove ==
    ASSUME TypeInv, FilesInv, NEW c \in Calls, NEW r \in Request, Move(c, r), MakerOK(r)', DestroyerOK(r)',
           Makes(r) => Makes(request[c]) /\ r.files \subseteq request[c].files,
           \A f \in Files : file'[f].state = "none" => file[f].state = "none",
           \A f \in Files : file[f].state = "none" =>
                               file'[f].state = "none" \/ (Makes(request[c]) /\ f \in request[c].files),
           \A f \in asset \ asset' : file[f].state # "none",
           failures' = 0 => \A f \in Stored' \ asset' :
                               Drops(r, f) \/ (f \in Stored \ asset /\ ~Drops(request[c], f))
    PROVE  FilesInv'
<1>1. request'[c] = r /\ \A d \in Calls : d # c => request'[d] = request[d]
  BY Moved
<1>2. ASSUME NEW d \in Calls, d # c PROVE (MakerOK(request[d]) /\ DestroyerOK(request[d]))'
  <2>1. MakerOK(request[d]) /\ DestroyerOK(request[d]) /\ request[d] \in Request /\ Carries(request[d])
    BY DEF FilesInv, TypeInv
  <2>2. request[d].files \subseteq Files /\ request[d].left \subseteq Files
    BY <2>1 DEF Request
  <2>3. Makes(request[d]) => /\ \A f \in request[d].files : file'[f].state = "none"
                             /\ request[d].files \cap asset \subseteq asset'
    <3>1. Makes(request[d]) /\ Makes(request[c]) => request[c].files \cap request[d].files = {}
      BY <1>2 DEF FilesInv
    <3> QED BY <2>1, <2>2, <3>1 DEF MakerOK
  <2>4. request[d].pc \in {"imageRow", "imageFile"} => Makes(request[d])
    BY <2>1 DEF Carries, Makes
  <2> QED BY <1>1, <1>2, <2>1, <2>2, <2>3, <2>4 DEF MakerOK, DestroyerOK, Makes
<1>3. \A d \in Calls : (MakerOK(request[d]) /\ DestroyerOK(request[d]))'
  BY <1>1, <1>2 DEF MakerOK, DestroyerOK, Makes
<1>4. \A d, e \in Calls : Makes(request'[d]) /\ Makes(request'[e]) /\ d # e =>
         request'[d].files \cap request'[e].files = {}
  BY <1>1 DEF FilesInv
<1>5. failures' = 0 => \A f \in Stored' \ asset' : \E d \in Calls : Drops(request'[d], f)
  BY <1>1 DEF FilesInv, Move
<1> QED BY <1>3, <1>4, <1>5 DEF FilesInv, Makes, Drops

MediaOnly == {"idle"} \cup MediaPcs

(* Requests about files do nothing else.                                       *)
LEMMA MediaMove ==
    ASSUME StudioInv, NEW c \in Calls, NEW r \in Request, Carries(r), Move(c, r),
           UNCHANGED <<kitVars, aiVars, templateVars>>,
           request[c].pc \in MediaOnly, r.pc \in MediaOnly,
           file' \in [Files -> FileRow], asset' \subseteq Files, FilesInv',
           \A f \in Files : file'[f].state = "none" => file[f].state = "none",
           \A f \in asset \ asset' : file[f].state # "none",
           failures' = 0 /\ UnfailedFilesFor(request[c]) => UnfailedFilesFor(r)'
    PROVE  StudioInv'
<1>0. TypeInv /\ FilesInv /\ TextsInv /\ TemplatesInv /\ FavoritesCounted /\ AloneInv
  BY DEF StudioInv
<1>1. RowsTyped'
  BY <1>0 DEF TypeInv, StudioTypeOK, RowsTyped, kitVars, templateVars, aiVars
<1>2. TypeInv'
  BY <1>0, <1>1, TypeKept
<1>3. r.for = "idle"
  BY DEF Carries, MediaOnly, MediaPcs, Stages
<1>4. generation' = generation /\ template' = template /\ favorite' = favorite
  BY DEF aiVars, templateVars
<1>5. TextsInv'
  BY <1>0, <1>3, <1>4, TextsQuiet DEF MediaOnly, MediaPcs
<1>6. TemplatesInv' /\ FavoritesCounted'
  BY <1>0, <1>4, TemplatesQuiet DEF MediaOnly, MediaPcs, TemplatePcs, CountPcs
<1>7. AloneInv'
  <2> SUFFICES ASSUME ~overlapped', Finds(request[c]) PROVE Finds(r)'
    BY <1>0, AloneStep
  <2>1. PICK x : x = request[c]
    OBVIOUS
  <2>2. KitsFor(r)' /\ (failures' = 0 => UnfailedKitsFor(r)')
    BY <2>1, FindsKits DEF Finds, Move, MediaOnly, MediaPcs, KitPcs
  <2>3. TextsFor(r)'
    BY <1>4, <2>1, FindsTexts DEF Finds, MediaOnly, MediaPcs
  <2>4. failures' = 0 => UnfailedFilesFor(r)'
    BY DEF Finds, Move
  <2> QED BY <2>2, <2>3, <2>4 DEF Finds
<1>8. UsageInv'
  <2>1. UsageInv /\ ~Tracks(r) /\ ~Tracks(request[c]) /\ images \subseteq Files
    BY <1>0 DEF StudioInv, Tracks, MediaOnly, MediaPcs, TypeInv, StudioTypeOK
  <2>2. \A f \in images : f \in asset' \/ file'[f].state # "none"
    BY <2>1 DEF UsageInv
  <2> QED BY <1>0, <1>3, <2>1, <2>2, UsageQuiet
<1> QED BY <1>2, <1>5, <1>6, <1>7, <1>8 DEF StudioInv

(* The requests to delete files: what they carry.                              *)
FilesRequest(fs, left, organization) ==
    [IdleRequest EXCEPT !.pc = "destroy", !.files = fs, !.left = left, !.user = organization]

LEMMA FilesRow ==
    ASSUME NEW fs \in SUBSET Files, NEW left \in SUBSET fs,
           NEW organization \in {"nothing", "other"}, NEW r, r = FilesRequest(fs, left, organization)
    PROVE  /\ r \in Request /\ Carries(r) /\ r.pc = "destroy" /\ r.for = "idle" /\ r.files = fs
           /\ r.left = left /\ r.user = organization
<1>1. "destroy" \in Pcs
  BY DEF Pcs, MediaPcs
<1>2. /\ r \in Request /\ r.pc = "destroy" /\ r.for = "idle" /\ r.files = fs /\ r.left = left
      /\ r.user = organization
  BY <1>1, IdleRow DEF Request, IdleRequest, FilesRequest
<1> QED BY <1>2 DEF Carries, KitPcs, TemplatePcs, CountPcs

CleanupRequest(fs) == [IdleRequest EXCEPT !.pc = "cleanup", !.files = fs]

LEMMA CleanupStart ==
    ASSUME NEW fs \in SUBSET Files, NEW r, r = CleanupRequest(fs)
    PROVE  r \in Request /\ Carries(r) /\ r.pc = "cleanup" /\ r.for = "idle" /\ r.files = fs
<1>1. "cleanup" \in Pcs
  BY DEF Pcs, MediaPcs
<1>2. r \in Request /\ r.pc = "cleanup" /\ r.for = "idle" /\ r.files = fs /\ r.left = {}
  BY <1>1, IdleRow DEF Request, IdleRequest, CleanupRequest
<1> QED BY <1>2 DEF Carries, KitPcs, TemplatePcs, CountPcs

(* A request on files, one of which is done.                                   *)
Less(x, f) == [x EXCEPT !.left = @ \ {f}]

LEMMA LessRow ==
    ASSUME NEW x \in Request, Carries(x), x.pc \in {"upload", "destroy"}, NEW f, NEW r, r = Less(x, f)
    PROVE  /\ r \in Request /\ Carries(r) /\ r.pc = x.pc /\ r.for = "idle" /\ x.for = "idle"
           /\ r.files = x.files /\ r.left = x.left \ {f} /\ r.user = x.user
<1>1. x.for = "idle"
  BY DEF Carries, Stages
<1>2. r \in Request /\ r.pc = x.pc /\ r.for = x.for /\ r.files = x.files /\ r.left = x.left \ {f}
      /\ r.user = x.user
  BY DEF Request, Less
<1> QED BY <1>1, <1>2 DEF Carries, KitPcs, TemplatePcs, CountPcs

(* The cleanup comes to a file, and goes on after it.                          *)
CleansRow(x, f) == [x EXCEPT !.pc = "cleanupRow", !.item = f]
CleansOn(x, f) == [x EXCEPT !.pc = "cleanup", !.files = @ \ {f}]

LEMMA CleanupRows ==
    ASSUME NEW x \in Request, Carries(x), x.pc \in {"cleanup", "cleanupRow"}, NEW f \in x.files, NEW r, NEW s,
           r = CleansRow(x, f), s = CleansOn(x, f)
    PROVE  /\ r \in Request /\ Carries(r) /\ r.pc = "cleanupRow" /\ r.item = f /\ r.files = x.files
           /\ s \in Request /\ Carries(s) /\ s.pc = "cleanup" /\ s.files = x.files \ {f}
           /\ r.for = "idle" /\ s.for = "idle" /\ x.for = "idle"
<1>1. x.for = "idle" /\ x.left = {}
  BY DEF Carries, Stages
<1>2. {"cleanup", "cleanupRow"} \subseteq Pcs /\ f \in Files
  BY DEF Pcs, MediaPcs, Request
<1>3. /\ r \in Request /\ r.pc = "cleanupRow" /\ r.item = f /\ r.files = x.files /\ r.for = x.for
      /\ r.left = x.left
  BY <1>2 DEF Request, CleansRow
<1>4. /\ s \in Request /\ s.pc = "cleanup" /\ s.files = x.files \ {f} /\ s.for = x.for
      /\ s.left = x.left
  BY <1>2 DEF Request, CleansOn
<1> QED BY <1>1, <1>3, <1>4 DEF Carries, KitPcs, TemplatePcs, CountPcs

LEMMA UploadFilesKeeps ==
    ASSUME StudioInv, NEW c \in Calls, NEW fs \in SUBSET Files, NEW organization \in {"nothing", "other"},
           UploadFiles(c, fs, organization), UNCHANGED <<kitVars, aiVars, templateVars>>
    PROVE  StudioInv'
<1>0. TypeInv /\ FilesInv /\ file \in [Files -> FileRow] /\ asset \subseteq Files
  BY DEF StudioInv, TypeInv, StudioTypeOK
<1>1. PICK r : r = [IdleRequest EXCEPT !.pc = "upload", !.files = fs, !.left = fs]
  OBVIOUS
<1>2. Begin(c, r) /\ fs \subseteq Fresh /\ UNCHANGED mediaVars
  BY <1>1 DEF UploadFiles
<1>3. r \in Request /\ Carries(r) /\ r.pc = "upload" /\ r.for = "idle" /\ r.files = fs /\ r.left = fs
  <2>1. /\ r \in Request /\ r.pc = "upload" /\ r.for = "idle" /\ r.files = fs /\ r.left = fs
        /\ r.copy = Nothing
    BY <1>1, IdleRow DEF Request, IdleRequest, Pcs, MediaPcs
  <2> QED BY <2>1 DEF Carries, KitPcs, TemplatePcs, CountPcs
<1>4. Move(c, r) /\ request[c].pc = "idle" /\ failures' = failures
  BY <1>0, <1>2, Begins
<1>5. FilesInv'
  BY <1>0, <1>2, <1>3, <1>4, FilesBegin
<1>6. file' = file /\ asset' = asset /\ Stored' = Stored /\ Strayed' = Strayed
  BY <1>2 DEF mediaVars, Stored, Strayed
<1>7. UnfailedFilesFor(request[c]) => UnfailedFilesFor(r)'
  BY <1>3, <1>4, <1>6 DEF UnfailedFilesFor
<1>8. request[c].pc \in MediaOnly /\ r.pc \in MediaOnly
  BY <1>3, <1>4 DEF MediaOnly, MediaPcs
<1> QED BY <1>0, <1>3, <1>4, <1>5, <1>6, <1>7, <1>8, MediaMove

LEMMA UploadAssetKeeps ==
    ASSUME StudioInv, NEW c \in Calls, NEW f \in Files, UploadAsset(c, f),
           UNCHANGED <<kitVars, aiVars, templateVars>>
    PROVE  StudioInv'
<1>0. TypeInv /\ FilesInv /\ AloneInv /\ file \in [Files -> FileRow] /\ asset \subseteq Files
  BY DEF StudioInv, TypeInv, StudioTypeOK
<1>1. PICK x : x = request[c]
  OBVIOUS
<1>2. x \in Request /\ Carries(x) /\ x.pc = "upload" /\ f \in x.left /\ MakerOK(x)
  BY <1>0, <1>1 DEF UploadAsset, At, TypeInv, FilesInv
<1>3. PICK r : r = Less(x, f)
  OBVIOUS
<1>4. /\ r \in Request /\ Carries(r) /\ r.pc = "upload" /\ r.for = "idle" /\ r.files = x.files
      /\ r.left = x.left \ {f} /\ r.user = x.user
  BY <1>2, <1>3, LessRow
<1>5. Continue(c, r) /\ asset' = asset \cup {f} /\ file' = file
  BY <1>1, <1>3 DEF UploadAsset, Less
<1>6. Move(c, r) /\ failures' = failures
  BY <1>0, <1>1, <1>2, <1>5, Continues
<1>7. Stored' = Stored /\ Strayed' = Strayed
  BY <1>5 DEF Stored, Strayed
<1>8. MakerOK(r)' /\ DestroyerOK(r)'
  BY <1>2, <1>4, <1>5 DEF MakerOK, DestroyerOK, Makes
<1>9. Makes(request[c]) /\ Makes(r) /\ \A g : ~Drops(request[c], g)
  BY <1>1, <1>2, <1>4 DEF Makes, Drops
<1>10. FilesInv'
  BY <1>0, <1>1, <1>4, <1>5, <1>6, <1>7, <1>8, <1>9, FilesMove
<1>11. UnfailedFilesFor(request[c]) => UnfailedFilesFor(r)'
  BY <1>1, <1>2, <1>4, <1>5, <1>7 DEF UnfailedFilesFor, Carries
<1>12. request[c].pc \in MediaOnly /\ r.pc \in MediaOnly
  BY <1>1, <1>2, <1>4 DEF MediaOnly, MediaPcs
<1> QED BY <1>0, <1>4, <1>5, <1>6, <1>10, <1>11, <1>12, MediaMove

LEMMA UploadFailsKeeps ==
    ASSUME StudioInv, NEW c \in Calls, UploadFails(c), UNCHANGED <<kitVars, aiVars, templateVars>>
    PROVE  StudioInv'
<1>0. TypeInv /\ FilesInv /\ AloneInv /\ file \in [Files -> FileRow] /\ asset \subseteq Files
  BY DEF StudioInv, TypeInv, StudioTypeOK
<1>1. /\ request[c] \in Request /\ Carries(request[c]) /\ request[c].pc = "upload" /\ Fail(c, IdleRequest)
      /\ file' = file
  BY <1>0 DEF UploadFails, At, TypeInv
<1>2. PICK late \in SUBSET request[c].left : asset' = asset \cup late
  BY DEF UploadFails
<1>3. Move(c, IdleRequest) /\ failures' # 0
  BY <1>0, <1>1, Fails
<1>4. asset' \subseteq Files
  BY <1>0, <1>1, <1>2 DEF Request
<1>5. MakerOK(IdleRequest)' /\ DestroyerOK(IdleRequest)' /\ ~Makes(IdleRequest)
  BY IdleRow DEF MakerOK, DestroyerOK, Makes
<1>6. FilesInv'
  BY <1>0, <1>1, <1>2, <1>3, <1>5, IdleRow, FilesMove
<1>7. request[c].pc \in MediaOnly /\ IdleRequest.pc \in MediaOnly
  BY <1>1, IdleRow DEF MediaOnly, MediaPcs
<1> QED BY <1>0, <1>1, <1>2, <1>3, <1>4, <1>6, <1>7, IdleRow, MediaMove

(* The rows that are written, and those that are deleted.                      *)
LEMMA RowsStored ==
    ASSUME StudioInv, NEW fs \in SUBSET Files, NEW expires \in {"never", "later"}, StoreRows(fs, expires)
    PROVE  /\ file' \in [Files -> FileRow] /\ Stored' = Stored \cup fs /\ Strayed \subseteq Strayed' \cup fs
           /\ \A f \in Files : f \notin fs => file'[f] = file[f]
           /\ \A f \in fs : file'[f].state = "stored"
<1>1. file \in [Files -> FileRow]
  BY DEF StudioInv, TypeInv, StudioTypeOK
<1>2. PICK row : row = [state |-> "stored", expires |-> expires]
  OBVIOUS
<1>3. row \in FileRow /\ row.state = "stored"
  BY <1>2 DEF FileRow
<1>4. file' = [f \in Files |-> IF f \in fs THEN row ELSE file[f]]
  BY <1>2 DEF StoreRows
<1> QED BY <1>1, <1>3, <1>4 DEF Stored, Strayed

LEMMA RowsDropped ==
    ASSUME StudioInv, NEW fs \in SUBSET Files, NEW own, DropRows(fs, own)
    PROVE  /\ file' \in [Files -> FileRow] /\ Stored' = Stored \ fs
           /\ Strayed' = Strayed \cup ((fs \cap Stored) \ own)
           /\ \A f \in Files : file'[f].state = "none" <=> file[f].state = "none"
<1>1. file \in [Files -> FileRow]
  BY DEF StudioInv, TypeInv, StudioTypeOK
<1>2. PICK row : row = [f \in Files |-> [file[f] EXCEPT !.state = IF f \in own THEN "deleted" ELSE "strayed"]]
  OBVIOUS
<1>3. \A f \in Files : row[f] \in FileRow /\ row[f].state = IF f \in own THEN "deleted" ELSE "strayed"
  BY <1>1, <1>2 DEF FileRow
<1>4. file' = [f \in Files |-> IF f \in fs \cap Stored THEN row[f] ELSE file[f]]
  BY <1>2 DEF DropRows
<1> QED BY <1>1, <1>3, <1>4 DEF Stored, Strayed

LEMMA CreateFilesKeeps ==
    ASSUME StudioInv, NEW c \in Calls, CreateFiles(c), UNCHANGED <<kitVars, aiVars, templateVars>>
    PROVE  StudioInv'
<1>0. TypeInv /\ FilesInv /\ AloneInv /\ file \in [Files -> FileRow] /\ asset \subseteq Files
  BY DEF StudioInv, TypeInv, StudioTypeOK
<1>1. PICK x : x = request[c]
  OBVIOUS
<1>2. /\ x \in Request /\ Carries(x) /\ x.pc = "upload" /\ x.left = {} /\ MakerOK(x) /\ x.files \in SUBSET Files
      /\ End(c) /\ StoreRows(x.files, "never") /\ asset' = asset
  BY <1>0, <1>1 DEF CreateFiles, Uploaded, At, TypeInv, FilesInv, Request
<1>3. Move(c, IdleRequest) /\ failures' = failures
  BY <1>0, <1>1, <1>2, Ends
<1>4. /\ file' \in [Files -> FileRow] /\ Stored' = Stored \cup x.files /\ Strayed \subseteq Strayed' \cup x.files
      /\ \A f \in Files : f \notin x.files => file'[f] = file[f]
      /\ \A f \in x.files : file'[f].state = "stored"
  BY <1>2, RowsStored
<1>5. MakerOK(IdleRequest)' /\ DestroyerOK(IdleRequest)' /\ ~Makes(IdleRequest)
  BY IdleRow DEF MakerOK, DestroyerOK, Makes
<1>6. Makes(request[c]) /\ (\A f : ~Drops(request[c], f)) /\ x.files \subseteq asset
  BY <1>1, <1>2 DEF Makes, Drops, MakerOK
<1>7. FilesInv'
  BY <1>0, <1>1, <1>2, <1>3, <1>4, <1>5, <1>6, IdleRow, FilesMove
<1>8. UnfailedFilesFor(request[c]) => UnfailedFilesFor(IdleRequest)'
  BY <1>1, <1>2, <1>4, IdleRow DEF UnfailedFilesFor
<1>9. request[c].pc \in MediaOnly /\ IdleRequest.pc \in MediaOnly
  BY <1>1, <1>2, IdleRow DEF MediaOnly, MediaPcs
<1> QED BY <1>0, <1>2, <1>3, <1>4, <1>7, <1>8, <1>9, IdleRow, MediaMove

LEMMA DeleteFilesKeeps ==
    ASSUME StudioInv, NEW c \in Calls, NEW fs \in SUBSET Files, NEW organization \in {"nothing", "other"},
           DeleteFiles(c, fs, organization), UNCHANGED <<kitVars, aiVars, templateVars>>
    PROVE  StudioInv'
<1>0. TypeInv /\ FilesInv /\ file \in [Files -> FileRow] /\ asset \subseteq Files
  BY DEF StudioInv, TypeInv, StudioTypeOK
<1>1. PICK r : r = FilesRequest(fs, fs \cap Stored \cap Library(organization), organization)
  OBVIOUS
<1>2. Begin(c, r) /\ UNCHANGED mediaVars
  BY <1>1 DEF DeleteFiles, FilesRequest
<1>3. /\ r \in Request /\ Carries(r) /\ r.pc = "destroy" /\ r.for = "idle" /\ r.files = fs
      /\ r.left = fs \cap Stored \cap Library(organization) /\ r.user = organization
  BY <1>1, FilesRow
<1>4. Move(c, r) /\ request[c].pc = "idle" /\ failures' = failures
  BY <1>0, <1>2, Begins
<1>5. file' = file /\ asset' = asset /\ Stored' = Stored /\ Strayed' = Strayed
  BY <1>2 DEF mediaVars, Stored, Strayed
<1>6. MakerOK(r)' /\ DestroyerOK(r)' /\ ~Makes(r)
  BY <1>3, <1>5 DEF MakerOK, DestroyerOK, Makes, Stored, Strayed
<1>7. \A f : ~Drops(request[c], f)
  BY <1>4 DEF Drops
<1>8. FilesInv'
  BY <1>0, <1>3, <1>4, <1>5, <1>6, <1>7, FilesMove
<1>9. UnfailedFilesFor(request[c]) => UnfailedFilesFor(r)'
  BY <1>3, <1>4, <1>5 DEF UnfailedFilesFor
<1>10. request[c].pc \in MediaOnly /\ r.pc \in MediaOnly
  BY <1>3, <1>4 DEF MediaOnly, MediaPcs
<1> QED BY <1>0, <1>3, <1>4, <1>5, <1>8, <1>9, <1>10, MediaMove

LEMMA DestroyKeeps ==
    ASSUME StudioInv, NEW c \in Calls, NEW f \in Files, Destroy(c, f) \/ DestroyFails(c, f),
           UNCHANGED <<kitVars, aiVars, templateVars>>
    PROVE  StudioInv'
<1>0. TypeInv /\ FilesInv /\ AloneInv /\ file \in [Files -> FileRow] /\ asset \subseteq Files
  BY DEF StudioInv, TypeInv, StudioTypeOK
<1>1. PICK x : x = request[c]
  OBVIOUS
<1>2. x \in Request /\ Carries(x) /\ x.pc = "destroy" /\ f \in x.left /\ DestroyerOK(x)
  BY <1>0, <1>1 DEF Destroy, DestroyFails, At, TypeInv, FilesInv
<1>3. PICK r : r = Less(x, f)
  OBVIOUS
<1>4. /\ r \in Request /\ Carries(r) /\ r.pc = "destroy" /\ r.for = "idle" /\ r.files = x.files
      /\ r.left = x.left \ {f} /\ r.user = x.user
  BY <1>2, <1>3, LessRow
<1>5. /\ file' = file /\ Move(c, r)
      /\ (asset' = asset \ {f} /\ failures' = failures) \/ (asset' = asset /\ failures' # 0)
  <2>1. CASE Destroy(c, f)
    <3>1. Continue(c, r)
      BY <1>1, <1>3, <2>1 DEF Destroy, Less
    <3> QED BY <1>0, <1>1, <1>2, <2>1, <3>1, Continues DEF Destroy
  <2>2. CASE DestroyFails(c, f)
    <3>1. Fail(c, r)
      BY <1>1, <1>3, <2>2 DEF DestroyFails, Less
    <3> QED BY <1>0, <1>1, <1>2, <2>2, <3>1, Fails DEF DestroyFails, mediaVars
  <2> QED BY <2>1, <2>2
<1>6. Stored' = Stored /\ Strayed' = Strayed
  BY <1>5 DEF Stored, Strayed
<1>7. MakerOK(r)' /\ DestroyerOK(r)' /\ ~Makes(r)
  BY <1>2, <1>4, <1>5 DEF MakerOK, DestroyerOK, Makes
<1>8. file[f].state # "none" /\ f \in x.files
  BY <1>2 DEF DestroyerOK, Carries
<1>9. \A g : Drops(request[c], g) <=> Drops(r, g)
  BY <1>1, <1>2, <1>4 DEF Drops
<1>10. Drops(r, f)
  BY <1>4, <1>8 DEF Drops
<1>11. FilesInv'
  <2>1. \A g \in asset \ asset' : g = f
    BY <1>5
  <2>2. failures' = 0 => \A g \in Stored' \ asset' : Drops(r, g) \/ (g \in Stored \ asset /\ ~Drops(request[c], g))
    BY <1>5, <1>6, <1>9, <1>10
  <2> QED BY <1>0, <1>4, <1>5, <1>7, <1>8, <2>1, <2>2, FilesMove
<1>12. failures' = 0 /\ UnfailedFilesFor(request[c]) => UnfailedFilesFor(r)'
  BY <1>1, <1>2, <1>4, <1>5, <1>6 DEF UnfailedFilesFor
<1>13. request[c].pc \in MediaOnly /\ r.pc \in MediaOnly
  BY <1>1, <1>2, <1>4 DEF MediaOnly, MediaPcs
<1>14. \A g \in asset \ asset' : file[g].state # "none"
  BY <1>5, <1>8
<1> QED BY <1>0, <1>4, <1>5, <1>11, <1>12, <1>13, <1>14, MediaMove

LEMMA DeleteRowsKeeps ==
    ASSUME StudioInv, NEW c \in Calls, DeleteRows(c), UNCHANGED <<kitVars, aiVars, templateVars>>
    PROVE  StudioInv'
<1>0. TypeInv /\ FilesInv /\ AloneInv /\ file \in [Files -> FileRow] /\ asset \subseteq Files
  BY DEF StudioInv, TypeInv, StudioTypeOK
<1>1. PICK x : x = request[c]
  OBVIOUS
<1>2. /\ x \in Request /\ Carries(x) /\ x.pc = "destroy" /\ x.left = {} /\ x.files \in SUBSET Files
      /\ End(c) /\ DropRows(x.files, Library(x.user)) /\ asset' = asset
  BY <1>0, <1>1 DEF DeleteRows, At, TypeInv, Request
<1>3. Move(c, IdleRequest) /\ failures' = failures
  BY <1>0, <1>1, <1>2, Ends
<1>4. /\ file' \in [Files -> FileRow] /\ Stored' = Stored \ x.files
      /\ Strayed' = Strayed \cup ((x.files \cap Stored) \ Library(x.user))
      /\ \A f \in Files : file'[f].state = "none" <=> file[f].state = "none"
  BY <1>2, RowsDropped
<1>5. MakerOK(IdleRequest)' /\ DestroyerOK(IdleRequest)' /\ ~Makes(IdleRequest)
  BY IdleRow DEF MakerOK, DestroyerOK, Makes
<1>6. \A f : Drops(request[c], f) <=> f \in x.files
  BY <1>1, <1>2 DEF Drops
<1>7. FilesInv'
  BY <1>0, <1>1, <1>2, <1>3, <1>4, <1>5, <1>6, IdleRow, FilesMove
<1>8. UnfailedFilesFor(request[c]) => UnfailedFilesFor(IdleRequest)'
  BY <1>1, <1>2, <1>4, IdleRow DEF UnfailedFilesFor
<1>9. request[c].pc \in MediaOnly /\ IdleRequest.pc \in MediaOnly
  BY <1>1, <1>2, IdleRow DEF MediaOnly, MediaPcs
<1> QED BY <1>0, <1>2, <1>3, <1>4, <1>7, <1>8, <1>9, IdleRow, MediaMove

(* The nightly job starts, which is no call of a user.                         *)
LEMMA CleanupExpiredFilesKeeps ==
    ASSUME StudioInv, NEW c \in Calls, Cleanup(c)
    PROVE  StudioInv'
<1>0. TypeInv /\ FilesInv /\ file \in [Files -> FileRow] /\ asset \subseteq Files
  BY DEF StudioInv, TypeInv, StudioTypeOK
<1>1. PICK r : r = CleanupRequest(Expired)
  OBVIOUS
<1>2. Expired \in SUBSET Files /\ \A f \in Expired : file[f].state = "stored"
  BY DEF Expired, Stored, Strayed
<1>3. r \in Request /\ Carries(r) /\ r.pc = "cleanup" /\ r.for = "idle" /\ r.files = Expired
  BY <1>1, <1>2, CleanupStart
<1>4. UNCHANGED <<kitVars, aiVars, templateVars>> /\ UNCHANGED mediaVars
  BY DEF Cleanup, CleanupExpiredFiles
<1>5. file' = file /\ asset' = asset /\ Stored' = Stored /\ Strayed' = Strayed
  BY <1>4 DEF mediaVars, Stored, Strayed
<1>6. Move(c, r) /\ request[c].pc = "idle" /\ failures' = failures
  <2>1. /\ request[c].pc = "idle" /\ request' = [request EXCEPT ![c] = r]
        /\ overlapped' = (overlapped \/ Open # {}) /\ calls' = calls /\ failures' = failures
    BY <1>1 DEF Cleanup, CleanupExpiredFiles, CleanupRequest, At
  <2>2. calls \in 0..MaxCalls /\ failures \in 0..MaxFailures /\ overlapped \in BOOLEAN
    BY <1>0 DEF TypeInv, StudioTypeOK
  <2>3. overlapped' \in BOOLEAN /\ (~overlapped' => ~overlapped /\ Open = {})
    BY <2>1
  <2> QED BY <2>1, <2>2, <2>3 DEF Move
<1>7. MakerOK(r)' /\ DestroyerOK(r)' /\ ~Makes(r)
  BY <1>2, <1>3, <1>5 DEF MakerOK, DestroyerOK, Makes
<1>8. \A f : ~Drops(request[c], f)
  BY <1>6 DEF Drops
<1>9. FilesInv'
  BY <1>0, <1>3, <1>5, <1>6, <1>7, <1>8, FilesMove
<1>10. UnfailedFilesFor(request[c]) => UnfailedFilesFor(r)'
  BY <1>3, <1>5, <1>6 DEF UnfailedFilesFor
<1>11. request[c].pc \in MediaOnly /\ r.pc \in MediaOnly
  BY <1>3, <1>6 DEF MediaOnly, MediaPcs
<1> QED BY <1>0, <1>3, <1>4, <1>5, <1>6, <1>9, <1>10, <1>11, MediaMove

(* Its steps: the asset of a file that has a row, or a file that has none.     *)
LEMMA CleanupNextKeeps ==
    ASSUME StudioInv, NEW c \in Calls, CleanupNext(c) \/ CleanupDestroyFails(c),
           UNCHANGED <<kitVars, aiVars, templateVars>>
    PROVE  StudioInv'
<1>0. TypeInv /\ FilesInv /\ AloneInv /\ file \in [Files -> FileRow] /\ asset \subseteq Files
  BY DEF StudioInv, TypeInv, StudioTypeOK
<1>1. PICK x : x = request[c]
  OBVIOUS
<1>2. /\ x \in Request /\ Carries(x) /\ x.pc = "cleanup" /\ x.files \subseteq Files /\ DestroyerOK(x)
      /\ x.for = "idle" /\ ~Makes(x) /\ \A g : ~Drops(request[c], g)
  BY <1>0, <1>1 DEF CleanupNext, CleanupDestroyFails, At, TypeInv, FilesInv, Request, Carries, Stages, Makes,
     Drops
<1>3. file' = file /\ Stored' = Stored /\ Strayed' = Strayed
  BY DEF CleanupNext, CleanupDestroyFails, mediaVars, Stored, Strayed
<1>4. request[c].pc \in MediaOnly
  BY <1>1, <1>2 DEF MediaOnly, MediaPcs
<1>5. ASSUME End(c), asset' = asset PROVE StudioInv'
  <2>1. Move(c, IdleRequest) /\ failures' = failures
    BY <1>0, <1>1, <1>2, <1>5, Ends
  <2>2. MakerOK(IdleRequest)' /\ DestroyerOK(IdleRequest)' /\ ~Makes(IdleRequest)
    BY IdleRow DEF MakerOK, DestroyerOK, Makes
  <2>3. FilesInv'
    BY <1>0, <1>2, <1>3, <1>5, <2>1, <2>2, IdleRow, FilesMove
  <2>4. UnfailedFilesFor(request[c]) => UnfailedFilesFor(IdleRequest)'
    BY <1>1, <1>2, <1>3, <1>5, IdleRow DEF UnfailedFilesFor
  <2>5. IdleRequest.pc \in MediaOnly
    BY IdleRow DEF MediaOnly
  <2> QED BY <1>0, <1>3, <1>4, <1>5, <2>1, <2>3, <2>4, <2>5, IdleRow, MediaMove
<1>6. ASSUME NEW f \in x.files, f \in Stored,
             \/ asset' = asset \ {f} /\ Continue(c, CleansRow(x, f))
             \/ asset' = asset /\ Fail(c, CleansRow(x, f))
      PROVE  StudioInv'
  <2>1. PICK r : r = CleansRow(x, f)
    OBVIOUS
  <2>2. r \in Request /\ Carries(r) /\ r.pc = "cleanupRow" /\ r.item = f /\ r.files = x.files /\ r.for = "idle"
    BY <1>2, <2>1, CleanupRows
  <2>3. Move(c, r) /\ (asset' = asset \ {f} \/ (asset' = asset /\ failures' # 0))
    BY <1>0, <1>1, <1>2, <1>6, <2>1, Continues, Fails
  <2>4. MakerOK(r)' /\ DestroyerOK(r)' /\ ~Makes(r)
    BY <1>2, <1>3, <2>2 DEF MakerOK, DestroyerOK, Makes
  <2>9. \A g \in asset \ asset' : file[g].state # "none"
    BY <1>6, <2>3 DEF Stored, Strayed
  <2>5. FilesInv'
    <3>1. Drops(r, f)
      BY <2>2 DEF Drops
    <3> QED BY <1>0, <1>2, <1>3, <2>2, <2>3, <2>4, <2>9, <3>1, FilesMove
  <2>6. failures' = 0 /\ UnfailedFilesFor(request[c]) => UnfailedFilesFor(r)'
    BY <1>1, <1>2, <1>3, <2>2, <2>3 DEF UnfailedFilesFor
  <2>7. r.pc \in MediaOnly
    BY <2>2 DEF MediaOnly, MediaPcs
  <2>8. asset' \subseteq Files
    BY <1>0, <2>3
  <2> QED BY <1>0, <1>3, <1>4, <2>2, <2>3, <2>5, <2>6, <2>7, <2>8, <2>9, MediaMove
<1>7. ASSUME NEW f \in x.files, asset' = asset, Continue(c, [x EXCEPT !.files = @ \ {f}]) PROVE StudioInv'
  <2>1. PICK r : r = CleansOn(x, f)
    OBVIOUS
  <2>2. r \in Request /\ Carries(r) /\ r.pc = "cleanup" /\ r.files = x.files \ {f} /\ r.for = "idle"
    BY <1>2, <2>1, CleanupRows
  <2>3. Continue(c, r)
    <3>1. r = [x EXCEPT !.files = @ \ {f}]
      BY <1>2, <2>1 DEF CleansOn, Request
    <3> QED BY <1>7, <3>1
  <2>4. Move(c, r) /\ failures' = failures
    BY <1>0, <1>1, <1>2, <2>3, Continues
  <2>5. MakerOK(r)' /\ DestroyerOK(r)' /\ ~Makes(r)
    BY <1>2, <1>3, <2>2 DEF MakerOK, DestroyerOK, Makes
  <2>6. FilesInv'
    BY <1>0, <1>2, <1>3, <1>7, <2>2, <2>4, <2>5, FilesMove
  <2>7. UnfailedFilesFor(request[c]) => UnfailedFilesFor(r)'
    BY <1>1, <1>2, <1>3, <1>7, <2>2 DEF UnfailedFilesFor
  <2>8. r.pc \in MediaOnly
    BY <2>2 DEF MediaOnly, MediaPcs
  <2> QED BY <1>0, <1>3, <1>4, <1>7, <2>2, <2>4, <2>6, <2>7, <2>8, MediaMove
<1>8. CASE CleanupDestroyFails(c)
  <2>1. PICK f \in x.files \cap Stored : Fail(c, CleansRow(x, f))
    BY <1>1, <1>8 DEF CleanupDestroyFails, CleansRow
  <2>2. asset' = asset
    BY <1>8 DEF CleanupDestroyFails, mediaVars
  <2> QED BY <1>6, <2>1, <2>2
<1>9. CASE CleanupNext(c)
  <2>1. CASE x.files = {} /\ End(c) /\ UNCHANGED mediaVars
    BY <1>5, <2>1 DEF mediaVars
  <2>2. ASSUME NEW f \in x.files,
               IF f \in Stored
               THEN asset' = asset \ {f} /\ Continue(c, CleansRow(x, f)) /\ UNCHANGED file
               ELSE Continue(c, [x EXCEPT !.files = @ \ {f}]) /\ UNCHANGED mediaVars
        PROVE  StudioInv'
    <3>1. CASE f \in Stored
      BY <1>6, <2>2, <3>1
    <3>2. CASE f \notin Stored
      BY <1>7, <2>2, <3>2 DEF mediaVars
    <3> QED BY <3>1, <3>2
  <2> QED BY <1>1, <1>9, <2>1, <2>2 DEF CleanupNext, CleansRow
<1> QED BY <1>8, <1>9

LEMMA CleanupRowKeeps ==
    ASSUME StudioInv, NEW c \in Calls, CleanupRow(c), UNCHANGED <<kitVars, aiVars, templateVars>>
    PROVE  StudioInv'
<1>0. TypeInv /\ FilesInv /\ AloneInv /\ file \in [Files -> FileRow] /\ asset \subseteq Files
  BY DEF StudioInv, TypeInv, StudioTypeOK
<1>1. PICK x : x = request[c]
  OBVIOUS
<1>2. PICK f : f = x.item
  OBVIOUS
<1>3. /\ x \in Request /\ Carries(x) /\ x.pc = "cleanupRow" /\ f \in x.files /\ f \in Files /\ DestroyerOK(x)
      /\ asset' = asset
  BY <1>0, <1>1, <1>2 DEF CleanupRow, At, TypeInv, FilesInv, Request, Carries
<1>4. PICK r : r = CleansOn(x, f)
  OBVIOUS
<1>5. r \in Request /\ Carries(r) /\ r.pc = "cleanup" /\ r.files = x.files \ {f} /\ r.for = "idle" /\ x.for = "idle"
  BY <1>3, <1>4, CleanupRows
<1>6. (DropRows({f}, Files) /\ Continue(c, r)) \/ (Fail(c, r) /\ file' = file)
  BY <1>1, <1>2, <1>4 DEF CleanupRow, CleansOn
<1>7. /\ Move(c, r) /\ file' \in [Files -> FileRow]
      /\ \A g \in Files : file'[g].state = "none" <=> file[g].state = "none"
      /\ failures' = 0 => Stored' = Stored \ {f} /\ Strayed' = Strayed
  <2>1. CASE DropRows({f}, Files) /\ Continue(c, r)
    <3>1. Move(c, r) /\ failures' = failures
      BY <1>0, <1>1, <1>3, <2>1, Continues
    <3>2. /\ file' \in [Files -> FileRow] /\ Stored' = Stored \ {f}
          /\ Strayed' = Strayed \cup (({f} \cap Stored) \ Files)
          /\ \A g \in Files : file'[g].state = "none" <=> file[g].state = "none"
      BY <1>3, <2>1, RowsDropped
    <3>3. ({f} \cap Stored) \ Files = {}
      BY <1>3
    <3> QED BY <3>1, <3>2, <3>3
  <2>2. CASE Fail(c, r) /\ file' = file
    BY <1>0, <1>1, <1>3, <2>2, Fails
  <2> QED BY <1>6, <2>1, <2>2
<1>8. MakerOK(r)' /\ DestroyerOK(r)' /\ ~Makes(r)
  <2>1. x.files \subseteq Files
    BY <1>3 DEF Request
  <2> QED BY <1>3, <1>5, <1>7, <2>1 DEF MakerOK, DestroyerOK, Makes
<1>9. \A g : Drops(request[c], g) <=> g = f
  BY <1>1, <1>2, <1>3 DEF Drops
<1>10. FilesInv'
  BY <1>0, <1>3, <1>5, <1>7, <1>8, <1>9, FilesMove
<1>11. failures' = 0 /\ UnfailedFilesFor(request[c]) => UnfailedFilesFor(r)'
  BY <1>1, <1>2, <1>3, <1>5, <1>7 DEF UnfailedFilesFor
<1>12. request[c].pc \in MediaOnly /\ r.pc \in MediaOnly
  BY <1>1, <1>3, <1>5 DEF MediaOnly, MediaPcs
<1> QED BY <1>0, <1>3, <1>5, <1>7, <1>10, <1>11, <1>12, MediaMove

LEMMA FileExpiresKeeps ==
    ASSUME StudioInv, NEW f \in Files, FileExpires(f), UNCHANGED <<kitVars, aiVars, templateVars>>
    PROVE  StudioInv'
<1>1. /\ kit' = kit /\ cache' = cache /\ request' = request /\ calls' = calls /\ failures' = failures
      /\ overlapped' = overlapped /\ asset' = asset /\ generation' = generation
      /\ images' = images /\ usage' = usage /\ template' = template /\ favorite' = favorite
  BY DEF FileExpires, requestVars, kitVars, aiVars, templateVars
<1>2. file' \in [Files -> FileRow] /\ \A g \in Files : file'[g].state = file[g].state
  <2>1. file \in [Files -> FileRow]
    BY DEF StudioInv, TypeInv, StudioTypeOK
  <2>2. PICK row : row = [file[f] EXCEPT !.expires = "past"]
    OBVIOUS
  <2>3. row \in FileRow /\ row.state = file[f].state
    BY <2>1, <2>2 DEF FileRow
  <2>4. file' = [file EXCEPT ![f] = row]
    BY <2>2 DEF FileExpires
  <2> QED BY <2>1, <2>3, <2>4
<1>3. Stored' = Stored /\ Strayed' = Strayed
  BY <1>2 DEF Stored, Strayed
<1>4. TypeInv'
  BY <1>1, <1>2 DEF StudioInv, TypeInv, StudioTypeOK
<1>5. FilesInv' /\ TextsInv' /\ UsageInv' /\ TemplatesInv' /\ FavoritesCounted'
  <2>1. FilesInv'
    <3>1. \A c \in Calls : (MakerOK(request[c]) /\ DestroyerOK(request[c]))'
      <4>1. \A c \in Calls : /\ MakerOK(request[c]) /\ DestroyerOK(request[c])
                             /\ request[c].files \subseteq Files /\ request[c].left \subseteq Files
        BY DEF StudioInv, FilesInv, TypeInv, Request
      <4> QED BY <1>1, <1>2, <4>1 DEF MakerOK, DestroyerOK
    <3> QED BY <1>1, <1>3, <3>1 DEF StudioInv, FilesInv
  <2>2. TextsInv'
    BY <1>1 DEF StudioInv, TextsInv, TextOK, Written
  <2>3. TemplatesInv'
    BY <1>1 DEF StudioInv, TemplatesInv, TemplateOK, At
  <2>4. FavoritesCounted'
    BY <1>1 DEF StudioInv, FavoritesCounted, HasTemplate, Counting, At
  <2>5. UsageInv'
    <3>1. \A g \in images : g \in Files
      BY DEF StudioInv, TypeInv, StudioTypeOK
    <3> QED BY <1>1, <1>2, <3>1 DEF StudioInv, UsageInv, TextsWritten, Tracking, ImageOK
  <2> QED BY <2>1, <2>2, <2>3, <2>4, <2>5
<1>6. ASSUME NEW r, Finds(r) PROVE Finds(r)'
  <2>1. KitsFor(r)'
    BY <1>1, <1>6 DEF Finds, KitsFor, Active, CopyOf
  <2>2. UnfailedKitsFor(r) => UnfailedKitsFor(r)'
    BY <1>1 DEF UnfailedKitsFor, CacheCurrent, KitStored, Active, CopyOf, Exists
  <2>3. UnfailedFilesFor(r) => UnfailedFilesFor(r)'
    BY <1>1, <1>3 DEF UnfailedFilesFor
  <2>4. TextsFor(r)'
    BY <1>1, <1>6 DEF Finds, TextsFor
  <2> QED BY <1>1, <1>6, <2>1, <2>2, <2>3, <2>4 DEF Finds
<1>7. AloneInv'
  BY <1>1, <1>6 DEF StudioInv, AloneInv, At, Open
<1> QED BY <1>4, <1>5, <1>7 DEF StudioInv

(* Each request about files, each of their steps, and what fails of them.      *)
LEMMA MediaKeeps ==
    ASSUME StudioInv, NEW c \in Calls, UNCHANGED <<kitVars, aiVars, templateVars>>,
           MediaRequest(c) \/ MediaStep(c) \/ CleanupStep(c) \/ MediaFails(c)
    PROVE  StudioInv'
<1>1. CASE MediaRequest(c)
  BY <1>1, UploadFilesKeeps, DeleteFilesKeeps DEF MediaRequest
<1>2. CASE MediaStep(c)
  BY <1>2, CreateFilesKeeps, DeleteRowsKeeps, UploadAssetKeeps, DestroyKeeps DEF MediaStep
<1>3. CASE CleanupStep(c)
  BY <1>3, CleanupNextKeeps, CleanupRowKeeps DEF CleanupStep
<1>4. CASE MediaFails(c)
  BY <1>4, UploadFailsKeeps, CleanupNextKeeps, DestroyKeeps DEF MediaFails
<1> QED BY <1>1, <1>2, <1>3, <1>4

-------------------------------------------------------------------------------
(* Texts and images.                                                           *)

TextRequest(for, g) == [IdleRequest EXCEPT !.for = for, !.item = g]
ImageRequest(f) == [IdleRequest EXCEPT !.for = "image", !.files = {f}, !.item = f]

LEMMA AiRequestKeeps ==
    ASSUME StudioInv, NEW c \in Calls, AiRequest(c), UNCHANGED templateVars
    PROVE  StudioInv'
<1>1. ASSUME NEW g \in Generations, GenerateContent(c, g) PROVE StudioInv'
  <2>1. PICK r : r = TextRequest("generate", g)
    OBVIOUS
  <2>2. /\ r \in Request /\ r.pc = "idle" /\ r.copy = Nothing /\ r.left = {} /\ r.for = "generate"
        /\ r.item = g
    BY <2>1, IdleRow DEF TextRequest, IdleRequest, Request
  <2>3. GetActiveBrandKit(c, r) /\ UNCHANGED <<mediaVars, aiVars, templateVars>>
    BY <1>1, <2>1 DEF GenerateContent, TextRequest
  <2>4. ~Written(g) /\ \A d \in Calls : request[d].item # g
    BY <1>1 DEF GenerateContent
  <2> QED BY <2>2, <2>3, <2>4, GetActiveKeeps
<1>2. ASSUME NEW g \in Generations, EnhanceContent(c, g) PROVE StudioInv'
  <2>1. PICK r : r = TextRequest("enhance", g)
    OBVIOUS
  <2>2. /\ r \in Request /\ r.pc = "idle" /\ r.copy = Nothing /\ r.left = {} /\ r.for = "enhance"
        /\ r.item = g
    BY <2>1, IdleRow DEF TextRequest, IdleRequest, Request
  <2>3. GetActiveBrandKit(c, r) /\ UNCHANGED <<mediaVars, aiVars, templateVars>>
    BY <1>2, <2>1 DEF EnhanceContent, TextRequest
  <2> QED BY <2>2, <2>3, GetActiveKeeps
<1>3. ASSUME NEW f \in Files, GenerateImage(c, f) PROVE StudioInv'
  <2>1. PICK r : r = ImageRequest(f)
    OBVIOUS
  <2>2. /\ r \in Request /\ r.pc = "idle" /\ r.copy = Nothing /\ r.left = {} /\ r.for = "image"
        /\ r.files = {f} /\ r.item = f
    BY <2>1, IdleRow DEF ImageRequest, IdleRequest, Request
  <2>3. GetActiveBrandKit(c, r) /\ UNCHANGED <<mediaVars, aiVars, templateVars>> /\ f \in Fresh
    BY <1>3, <2>1 DEF GenerateImage, ImageRequest
  <2> QED BY <2>2, <2>3, GetActiveKeeps
<1> QED BY <1>1, <1>2, <1>3 DEF AiRequest

AiHas == {"generate", "enhance", "enhanceRow", "image", "imageRow", "imageFile", "trackUsage"}
AiGoes == {"idle", "trackUsage", "enhanceRow", "imageRow", "imageFile"}

(* Requests to the AI write no kit and no template.                            *)
LEMMA AiMove ==
    ASSUME StudioInv, NEW c \in Calls, NEW r \in Request, Carries(r), Move(c, r), failures' = failures,
           UNCHANGED <<kitVars, templateVars>>,
           request[c].pc \in AiHas, r.pc \in AiGoes,
           file' \in [Files -> FileRow], asset' \subseteq Files,
           generation' \in [Generations -> GenerationRow], images' \subseteq Files, usage' \in Nat,
           FilesInv', TextsInv', UsageInv',
           ~overlapped' /\ Finds(request[c]) =>
              TextsFor(r)' /\ (failures = 0 => UnfailedFilesFor(r)' /\ (r.pc = "imageRow" => KitStored(r)'))
    PROVE  StudioInv'
<1>0. TypeInv /\ TemplatesInv /\ FavoritesCounted /\ AloneInv
  BY DEF StudioInv
<1>1. RowsTyped'
  BY <1>0 DEF TypeInv, StudioTypeOK, RowsTyped, kitVars, templateVars
<1>2. TypeInv'
  BY <1>0, <1>1, TypeKept
<1>3. template' = template /\ favorite' = favorite
  BY DEF templateVars
<1>4. TemplatesInv' /\ FavoritesCounted'
  BY <1>0, <1>3, TemplatesQuiet DEF AiHas, AiGoes, TemplatePcs, CountPcs
<1>5. AloneInv'
  <2> SUFFICES ASSUME ~overlapped', Finds(request[c]) PROVE Finds(r)'
    BY <1>0, AloneStep
  <2>1. PICK x : x = request[c]
    OBVIOUS
  <2>2. failures' = 0 /\ r.pc \in {"image", "imageRow"} => KitStored(r)'
    BY DEF AiGoes
  <2>3. KitsFor(r)' /\ (failures' = 0 => UnfailedKitsFor(r)')
    BY <2>1, <2>2, FindsKits DEF Finds, Move, AiHas, AiGoes, KitPcs
  <2> QED BY <2>3 DEF Finds
<1> QED BY <1>2, <1>4, <1>5 DEF StudioInv

(* One more writing of a text.                                                 *)
LEMMA WritesGrow ==
    ASSUME TypeInv, NEW g \in Generations, NEW row \in GenerationRow, row.writes = generation[g].writes + 1,
           generation' = [generation EXCEPT ![g] = row], IsFiniteSet(TextsWritten)
    PROVE  /\ IsFiniteSet(TextsWritten') /\ Cardinality(TextsWritten) \in Nat
           /\ Cardinality(TextsWritten)' = Cardinality(TextsWritten) + 1
<1> DEFINE last == <<g, row.writes>>
<1>1. generation \in [Generations -> GenerationRow] /\ generation[g].writes \in Nat
  BY DEF TypeInv, StudioTypeOK, GenerationRow
<1>2. generation'[g] = row /\ \A h \in Generations : h # g => generation'[h] = generation[h]
  BY <1>1
<1>3. {g} \X (1..row.writes) = ({g} \X (1..generation[g].writes)) \cup {last}
  <2>1. 1..row.writes = (1..generation[g].writes) \cup {row.writes}
    BY <1>1
  <2> QED BY <2>1
<1>4. TextsWritten' = TextsWritten \cup {last}
  BY <1>2, <1>3 DEF TextsWritten
<1>5. last \notin TextsWritten
  <2>1. row.writes \notin 1..generation[g].writes
    BY <1>1
  <2> QED BY <2>1 DEF TextsWritten
<1> HIDE DEF last
<1> QED BY <1>4, <1>5, FS_AddElement, FS_CardinalityType

LEMMA UsageOfText ==
    ASSUME StudioInv, NEW c \in Calls, NEW r, Move(c, r), Tracks(r), ~Tracks(request[c]), r.for # "image",
           UNCHANGED <<mediaVars, images, usage>>,
           NEW g \in Generations, NEW row \in GenerationRow, row.writes = generation[g].writes + 1,
           generation' = [generation EXCEPT ![g] = row]
    PROVE  UsageInv'
<1>0. TypeInv /\ UsageInv /\ usage \in Nat
  BY DEF StudioInv, TypeInv, StudioTypeOK
<1>1. request'[c] = r /\ \A d \in Calls : d # c => request'[d] = request[d]
  BY <1>0, Moved
<1>2. /\ IsFiniteSet(TextsWritten') /\ Cardinality(TextsWritten) \in Nat
      /\ Cardinality(TextsWritten)' = Cardinality(TextsWritten) + 1
  BY <1>0, WritesGrow DEF UsageInv
<1>3. images' = images /\ Cardinality(images) \in Nat
  BY <1>0, FS_CardinalityType DEF UsageInv
<1>4. Cardinality(Tracking) \in Nat /\ Cardinality(Tracking)' = Cardinality(Tracking) + 1
  BY <1>0, TrackingMoves
<1>5. \A d \in Calls : ImageOK(request[d])'
  BY <1>0, <1>1, <1>3 DEF UsageInv, ImageOK
<1>6. ASSUME failures' = 0
      PROVE  usage + (Cardinality(Tracking) + 1) = (Cardinality(TextsWritten) + 1) + Cardinality(images)
  <2>1. usage + Cardinality(Tracking) = Cardinality(TextsWritten) + Cardinality(images)
    BY <1>0, <1>6 DEF UsageInv, Move
  <2> QED BY <1>0, <1>2, <1>3, <1>4, <2>1
<1>7. failures' = 0 => usage' + Cardinality(Tracking)' = Cardinality(TextsWritten)' + Cardinality(images')
  BY <1>2, <1>3, <1>4, <1>6
<1> QED BY <1>0, <1>2, <1>3, <1>5, <1>7 DEF UsageInv, mediaVars

(* Requests to the AI that track nothing in this step.                         *)
LEMMA UsageWaits ==
    ASSUME StudioInv, NEW c \in Calls, NEW r, Move(c, r), UNCHANGED <<file, aiVars>>, asset \subseteq asset',
           ~Tracks(r), ~Tracks(request[c]),
           r.for = "image" => request[c].for = "image" /\ r.files = request[c].files /\ r.item = request[c].item
    PROVE  UsageInv'
<1>0. TypeInv /\ UsageInv
  BY DEF StudioInv
<1>1. \A f \in images : f \in asset' \/ file'[f].state # "none"
  BY <1>0 DEF UsageInv
<1>2. r.for = "image" => r.files = {r.item} /\ r.item \notin images
  BY <1>0 DEF UsageInv, ImageOK, Tracks
<1> QED BY <1>0, <1>1, <1>2, UsageQuiet

(* A text is written by the one request that generates it.                     *)
LEMMA GenerationRowKeeps ==
    ASSUME StudioInv, NEW c \in Calls, GenerationRowWritten(c), UNCHANGED templateVars
    PROVE  StudioInv'
<1>0. /\ TypeInv /\ FilesInv /\ TextsInv /\ AloneInv /\ file \in [Files -> FileRow] /\ asset \subseteq Files
      /\ generation \in [Generations -> GenerationRow] /\ images \subseteq Files /\ usage \in Nat
  BY DEF StudioInv, TypeInv, StudioTypeOK
<1>1. PICK x : x = request[c]
  OBVIOUS
<1>2. /\ x \in Request /\ Carries(x) /\ x.pc = "generate" /\ x.for = "generate" /\ x.item \in Generations
      /\ ~Written(x.item)
  BY <1>0, <1>1 DEF GenerationRowWritten, At, TypeInv, TextsInv, TextOK, Carries
<1>3. PICK r : r = IF KitStored(x) THEN AtStep("trackUsage") ELSE IdleRequest
  OBVIOUS
<1>4. r \in Request /\ Carries(r) /\ r.for = "idle" /\ r.pc \in {"trackUsage", "idle"}
  BY <1>3, AtStepRow, IdleRow
<1>5. Continue(c, r) /\ UNCHANGED <<kitVars, mediaVars, images, usage>>
  BY <1>1, <1>3 DEF GenerationRowWritten, AtStep, End
<1>6. Move(c, r) /\ failures' = failures
  BY <1>0, <1>1, <1>2, <1>5, Continues
<1>7. PICK row : row = [cost |-> 1, writes |-> 1]
  OBVIOUS
<1>8. row \in GenerationRow /\ row.cost = 1 /\ row.writes = 1 /\ row # NoGeneration
  BY <1>7 DEF GenerationRow, NoGeneration
<1>9. generation' = generation \/ generation' = [generation EXCEPT ![x.item] = row]
  BY <1>1, <1>7 DEF GenerationRowWritten
<1>10. /\ generation' \in [Generations -> GenerationRow]
       /\ \A g \in Generations : g # x.item => generation'[g] = generation[g]
       /\ generation'[x.item] = generation[x.item] \/ generation'[x.item] = row
  BY <1>0, <1>2, <1>8, <1>9
<1>11. TextsInv'
  <2>1. request'[c] = r /\ \A d \in Calls : d # c => request'[d] = request[d]
    BY <1>0, <1>6, Moved
  <2>2. ASSUME NEW d \in Calls, d # c PROVE TextOK(request[d])'
    <3>1. TextOK(request[d]) /\ Carries(request[d])
      BY <1>0 DEF TextsInv, TypeInv
    <3>2. request[d].for = "generate" => request[d].item # x.item
      BY <1>0, <1>1, <1>2, <2>2 DEF TextsInv
    <3>3. request[d].pc = "enhanceRow" => request[d].item # x.item
      BY <1>2, <3>1 DEF TextOK
    <3>4. request[d].for = "generate" \/ request[d].pc = "enhanceRow" => request[d].item \in Generations
      BY <3>1 DEF Carries
    <3> QED BY <1>10, <2>1, <2>2, <3>1, <3>2, <3>3, <3>4 DEF TextOK, Written
  <2>3. TextOK(r)'
    BY <1>4 DEF TextOK
  <2>4. \A d \in Calls : TextOK(request[d])'
    BY <2>1, <2>2, <2>3 DEF TextOK, Written
  <2>5. \A g \in Generations : generation'[g].cost <= generation'[g].writes
    BY <1>0, <1>8, <1>10 DEF TextsInv
  <2> QED BY <1>0, <1>4, <2>1, <2>4, <2>5 DEF TextsInv
<1>12. FilesInv'
  BY <1>0, <1>1, <1>2, <1>4, <1>5, <1>6, FilesQuiet DEF MediaPcs
<1>13. ASSUME Finds(request[c]) PROVE TextsFor(r)' /\ (failures = 0 => UnfailedFilesFor(r)')
  <2>1. TextsFor(r)'
    BY <1>4, <1>8, <1>10, <1>13 DEF Finds, TextsFor
  <2>2. failures' = 0 => UnfailedFilesFor(r)'
    BY <1>1, <1>2, <1>4, <1>5, <1>6, <1>13, FindsFiles DEF Finds
  <2> QED BY <1>6, <2>1, <2>2
<1>14. request[c].pc \in AiHas /\ r.pc \in AiGoes /\ r.pc # "imageRow"
  BY <1>1, <1>2, <1>4 DEF AiHas, AiGoes
<1>15. UNCHANGED <<kitVars, templateVars>> /\ file' = file /\ asset' = asset /\ images' = images /\ usage' = usage
  BY <1>5 DEF mediaVars
<1>16. UsageInv'
  <2>1. CASE KitStored(x)
    <3>1. r.pc = "trackUsage"
      BY <1>3, <2>1, AtStepRow
    <3>2. generation[x.item].writes = 0 /\ generation' = [generation EXCEPT ![x.item] = row]
      BY <1>1, <1>2, <1>7, <2>1 DEF Written, NoGeneration, GenerationRowWritten
    <3>3. Tracks(r) /\ ~Tracks(request[c]) /\ r.for # "image"
      BY <1>1, <1>2, <1>4, <3>1 DEF Tracks
    <3>4. row.writes = generation[x.item].writes + 1
      BY <1>8, <3>2
    <3>5. UNCHANGED <<mediaVars, images, usage>>
      BY <1>5
    <3> QED BY <1>2, <1>6, <1>8, <3>2, <3>3, <3>4, <3>5, UsageOfText
  <2>2. CASE ~KitStored(x)
    <3>1. r.pc = "idle" /\ UNCHANGED <<file, aiVars>> /\ asset' = asset
      BY <1>1, <1>3, <1>5, <2>2, IdleRow DEF GenerationRowWritten, aiVars, mediaVars
    <3> QED BY <1>1, <1>2, <1>4, <1>6, <3>1, UsageWaits DEF Tracks
  <2> QED BY <2>1, <2>2
<1> QED BY <1>0, <1>4, <1>6, <1>10, <1>11, <1>12, <1>13, <1>14, <1>15, <1>16, AiMove

LEMMA ReadGenerationKeeps ==
    ASSUME StudioInv, NEW c \in Calls, ReadGeneration(c), UNCHANGED templateVars
    PROVE  StudioInv'
<1>0. /\ TypeInv /\ FilesInv /\ TextsInv /\ AloneInv /\ file \in [Files -> FileRow] /\ asset \subseteq Files
      /\ generation \in [Generations -> GenerationRow] /\ images \subseteq Files /\ usage \in Nat
  BY DEF StudioInv, TypeInv, StudioTypeOK
<1>1. PICK x : x = request[c]
  OBVIOUS
<1>2. x \in Request /\ Carries(x) /\ x.pc = "enhance" /\ x.for = "enhance" /\ x.item \in Generations
  BY <1>0, <1>1 DEF ReadGeneration, At, TypeInv, Carries
<1>3. PICK r : r = IF Written(x.item) /\ x.copy # Nothing
                   THEN [x EXCEPT !.pc = "enhanceRow", !.seen = generation[x.item].cost] ELSE IdleRequest
  OBVIOUS
<1>4. Continue(c, r) /\ UNCHANGED <<kitVars, mediaVars, aiVars>>
  BY <1>1, <1>3 DEF ReadGeneration, End
<1>5. /\ r \in Request /\ Carries(r) /\ r.for \in {"enhance", "idle"} /\ r.pc \in {"enhanceRow", "idle"}
      /\ r.pc = "enhanceRow" => Written(r.item) /\ r.seen = generation[r.item].cost /\ r.item \in Generations
  <2>1. CASE Written(x.item) /\ x.copy # Nothing
    <3>1. "enhanceRow" \in Pcs /\ generation[x.item].cost \in Nat
      BY <1>0, <1>2 DEF Pcs, GenerationRow
    <3>2. /\ r \in Request /\ r.pc = "enhanceRow" /\ r.for = "enhance" /\ r.item = x.item
          /\ r.seen = generation[x.item].cost /\ r.left = x.left /\ r.files = x.files
      BY <1>2, <1>3, <2>1, <3>1 DEF Request
    <3> QED BY <1>2, <2>1, <3>2 DEF Carries, Stages, KitPcs, TemplatePcs, CountPcs
  <2>2. CASE ~(Written(x.item) /\ x.copy # Nothing)
    BY <1>3, <2>2, IdleRow
  <2> QED BY <2>1, <2>2
<1>6. Move(c, r) /\ failures' = failures
  BY <1>0, <1>1, <1>2, <1>4, Continues
<1>7. /\ UNCHANGED <<kitVars, templateVars>> /\ file' = file /\ asset' = asset /\ generation' = generation
      /\ images' = images /\ usage' = usage
  BY <1>4 DEF mediaVars, aiVars
<1>8. TextsInv'
  <2>1. request'[c] = r /\ \A d \in Calls : d # c => request'[d] = request[d]
    BY <1>0, <1>6, Moved
  <2>2. TextOK(r)'
    BY <1>0, <1>5, <1>7 DEF TextOK, Written, TextsInv
  <2>3. \A d \in Calls : TextOK(request[d])'
    BY <1>0, <1>7, <2>1, <2>2 DEF TextOK, Written, TextsInv
  <2> QED BY <1>0, <1>5, <1>7, <2>1, <2>3 DEF TextsInv
<1>9. FilesInv'
  BY <1>0, <1>1, <1>2, <1>4, <1>5, <1>6, FilesQuiet DEF MediaPcs
<1>10. ASSUME Finds(request[c]) PROVE TextsFor(r)' /\ (failures = 0 => UnfailedFilesFor(r)')
  <2>1. TextsFor(r)'
    BY <1>5, <1>7, <1>10 DEF Finds, TextsFor
  <2>2. failures' = 0 => UnfailedFilesFor(r)'
    BY <1>1, <1>2, <1>4, <1>5, <1>6, <1>10, FindsFiles DEF Finds
  <2> QED BY <1>6, <2>1, <2>2
<1>11. request[c].pc \in AiHas /\ r.pc \in AiGoes /\ r.pc # "imageRow"
  BY <1>1, <1>2, <1>5 DEF AiHas, AiGoes
<1>12. UsageInv'
  BY <1>1, <1>2, <1>4, <1>5, <1>6, UsageWaits DEF Tracks, mediaVars
<1> QED BY <1>0, <1>5, <1>6, <1>7, <1>8, <1>9, <1>10, <1>11, <1>12, AiMove

(* The cost that was read is of writes that were made, so one more is too.     *)
LEMMA EnhancedRowKeeps ==
    ASSUME StudioInv, NEW c \in Calls, EnhancedRowWritten(c), UNCHANGED templateVars
    PROVE  StudioInv'
<1>0. /\ TypeInv /\ FilesInv /\ TextsInv /\ AloneInv /\ file \in [Files -> FileRow] /\ asset \subseteq Files
      /\ generation \in [Generations -> GenerationRow] /\ images \subseteq Files /\ usage \in Nat
  BY DEF StudioInv, TypeInv, StudioTypeOK
<1>1. PICK x : x = request[c]
  OBVIOUS
<1>2. PICK g : g = x.item
  OBVIOUS
<1>3. /\ x \in Request /\ Carries(x) /\ x.pc = "enhanceRow" /\ x.for = "enhance" /\ g \in Generations
      /\ Written(g) /\ x.seen <= generation[g].writes /\ x.seen \in Nat /\ generation[g] \in GenerationRow
  BY <1>0, <1>1, <1>2 DEF EnhancedRowWritten, At, TypeInv, TextsInv, TextOK, Carries, Request
<1>4. PICK r : r = AtStep("trackUsage")
  OBVIOUS
<1>5. r \in Request /\ Carries(r) /\ r.for = "idle" /\ r.pc = "trackUsage"
  BY <1>4, AtStepRow
<1>6. Continue(c, r) /\ UNCHANGED <<kitVars, mediaVars, images, usage>>
  BY <1>4 DEF EnhancedRowWritten, AfterEnhancement, AtStep
<1>7. Move(c, r) /\ failures' = failures
  BY <1>0, <1>1, <1>3, <1>6, Continues
<1>8. PICK row : row = [generation[g] EXCEPT !.cost = x.seen + 1, !.writes = generation[g].writes + 1]
  OBVIOUS
<1>9. /\ row \in GenerationRow /\ row.cost = x.seen + 1 /\ row.writes = generation[g].writes + 1
      /\ row # NoGeneration /\ row.cost <= row.writes
  <2>1. x.seen \in Nat /\ generation[g].cost \in Nat /\ generation[g].writes \in Nat
    BY <1>3 DEF GenerationRow
  <2>2. x.seen + 1 \in Nat /\ generation[g].writes + 1 \in Nat /\ x.seen + 1 # 0
        /\ x.seen + 1 <= generation[g].writes + 1
    BY <1>3, <2>1
  <2>3. row \in GenerationRow /\ row.cost = x.seen + 1 /\ row.writes = generation[g].writes + 1
    BY <1>3, <1>8, <2>2 DEF GenerationRow
  <2> QED BY <2>2, <2>3 DEF NoGeneration
<1>10. generation' = [generation EXCEPT ![g] = row]
  <2>1. generation' = [generation EXCEPT ![g].cost = x.seen + 1, ![g].writes = @ + 1]
    BY <1>1, <1>2 DEF EnhancedRowWritten, TotalCost
  <2>2. PICK mid : mid = [generation EXCEPT ![g].cost = x.seen + 1]
    OBVIOUS
  <2>3. mid[g] = [generation[g] EXCEPT !.cost = x.seen + 1] /\ mid[g].writes = generation[g].writes
    BY <1>0, <1>3, <2>2 DEF GenerationRow
  <2>4. [mid[g] EXCEPT !.writes = mid[g].writes + 1] = row
    BY <1>3, <1>8, <2>3 DEF GenerationRow
  <2> QED BY <1>0, <1>3, <1>9, <2>1, <2>2, <2>3, <2>4
<1>11. /\ generation' \in [Generations -> GenerationRow] /\ generation'[g] = row
       /\ \A h \in Generations : h # g => generation'[h] = generation[h]
  BY <1>0, <1>3, <1>9, <1>10
<1>12. TextsInv'
  <2>1. request'[c] = r /\ \A d \in Calls : d # c => request'[d] = request[d]
    BY <1>0, <1>7, Moved
  <2>2. ASSUME NEW d \in Calls, d # c PROVE TextOK(request[d])'
    <3>1. TextOK(request[d]) /\ Carries(request[d]) /\ request[d].seen \in Nat
      BY <1>0 DEF TextsInv, TypeInv, Request
    <3>2. request[d].for = "generate" => request[d].item # g
      BY <1>3, <3>1 DEF TextOK
    <3>3. request[d].for = "generate" \/ request[d].pc = "enhanceRow" => request[d].item \in Generations
      BY <3>1 DEF Carries
    <3>4. row.writes \in Nat /\ generation[g].writes \in Nat
      BY <1>3, <1>9 DEF GenerationRow
    <3>5. request[d].for = "generate" => generation'[request[d].item] = NoGeneration
      BY <1>11, <3>1, <3>2, <3>3 DEF TextOK, Written
    <3>6. ASSUME request[d].pc = "enhanceRow"
          PROVE  /\ generation'[request[d].item] # NoGeneration
                 /\ request[d].seen <= generation'[request[d].item].writes
      <4>1. Written(request[d].item) /\ request[d].seen <= generation[request[d].item].writes
        BY <3>1, <3>6 DEF TextOK
      <4>2. CASE request[d].item = g
        BY <1>9, <1>11, <3>1, <3>4, <4>1, <4>2
      <4>3. CASE request[d].item # g
        BY <1>11, <3>3, <3>6, <4>1, <4>3 DEF Written
      <4> QED BY <4>2, <4>3
    <3> QED BY <2>1, <2>2, <3>5, <3>6 DEF TextOK, Written
  <2>3. TextOK(r)'
    BY <1>5 DEF TextOK
  <2>4. \A d \in Calls : TextOK(request[d])'
    BY <2>1, <2>2, <2>3 DEF TextOK, Written
  <2>5. \A h \in Generations : generation'[h].cost <= generation'[h].writes
    BY <1>0, <1>9, <1>11 DEF TextsInv
  <2> QED BY <1>0, <1>5, <2>1, <2>4, <2>5 DEF TextsInv
<1>13. FilesInv'
  BY <1>0, <1>1, <1>3, <1>5, <1>6, <1>7, FilesQuiet DEF MediaPcs
<1>14. ASSUME Finds(request[c]) PROVE TextsFor(r)' /\ (failures = 0 => UnfailedFilesFor(r)')
  <2>1. TextsFor(r)'
    BY <1>1, <1>2, <1>3, <1>5, <1>9, <1>11, <1>14 DEF Finds, TextsFor
  <2>2. failures' = 0 => UnfailedFilesFor(r)'
    BY <1>1, <1>3, <1>5, <1>6, <1>7, <1>14, FindsFiles DEF Finds
  <2> QED BY <1>7, <2>1, <2>2
<1>15. request[c].pc \in AiHas /\ r.pc \in AiGoes /\ r.pc # "imageRow"
  BY <1>1, <1>3, <1>5 DEF AiHas, AiGoes
<1>16. UNCHANGED <<kitVars, templateVars>> /\ file' = file /\ asset' = asset /\ images' = images /\ usage' = usage
  BY <1>6 DEF mediaVars
<1>17. UsageInv'
  BY <1>1, <1>3, <1>5, <1>6, <1>7, <1>9, <1>10, UsageOfText DEF Tracks
<1> QED BY <1>0, <1>5, <1>7, <1>11, <1>12, <1>13, <1>14, <1>15, <1>16, <1>17, AiMove

(* An image goes to Cloudinary, then its row, then its file's.                 *)
ImageAt(x, pc) == [x EXCEPT !.pc = pc]

LEMMA ImageRow ==
    ASSUME NEW x \in Request, Carries(x), x.pc \in {"image", "imageRow"}, NEW pc \in {"imageRow", "imageFile"},
           NEW r, r = ImageAt(x, pc)
    PROVE  /\ r \in Request /\ Carries(r) /\ r.pc = pc /\ r.for = "image" /\ x.for = "image"
           /\ r.files = x.files /\ r.copy = x.copy /\ r.item = x.item
<1>1. x.for = "image"
  BY DEF Carries
<1>2. pc \in Pcs
  BY DEF Pcs
<1>3. /\ r \in Request /\ r.pc = pc /\ r.for = "image" /\ r.files = x.files /\ r.copy = x.copy
      /\ r.left = x.left /\ r.item = x.item
  BY <1>1, <1>2 DEF Request, ImageAt
<1> QED BY <1>1, <1>3 DEF Carries, Stages, KitPcs, TemplatePcs, CountPcs

LEMMA UploadImageKeeps ==
    ASSUME StudioInv, NEW c \in Calls, UploadImage(c), UNCHANGED templateVars
    PROVE  StudioInv'
<1>0. /\ TypeInv /\ FilesInv /\ TextsInv /\ AloneInv /\ file \in [Files -> FileRow] /\ asset \subseteq Files
      /\ generation \in [Generations -> GenerationRow] /\ images \subseteq Files /\ usage \in Nat
  BY DEF StudioInv, TypeInv, StudioTypeOK
<1>1. PICK x : x = request[c]
  OBVIOUS
<1>2. x \in Request /\ Carries(x) /\ x.pc = "image" /\ x.for = "image" /\ x.files \subseteq Files /\ MakerOK(x)
  BY <1>0, <1>1 DEF UploadImage, At, TypeInv, FilesInv, Request, Carries
<1>3. PICK r : r = IF x.copy = Nothing THEN IdleRequest ELSE ImageAt(x, "imageRow")
  OBVIOUS
<1>4. /\ Continue(c, r) /\ UNCHANGED <<kitVars, file, aiVars>>
      /\ IF x.copy = Nothing THEN asset' = asset ELSE asset' = asset \cup x.files
  BY <1>1, <1>3 DEF UploadImage, ImageAt, GoTo, End
<1>5. /\ r \in Request /\ Carries(r)
      /\ x.copy = Nothing => r.pc = "idle" /\ r.for = "idle"
      /\ x.copy # Nothing => /\ r.pc = "imageRow" /\ r.for = "image" /\ r.files = x.files
                             /\ r.copy = x.copy /\ r.item = x.item
  BY <1>2, <1>3, IdleRow, ImageRow
<1>6. Move(c, r) /\ failures' = failures
  BY <1>0, <1>1, <1>2, <1>4, Continues
<1>7. /\ UNCHANGED <<kitVars, templateVars>> /\ file' = file /\ asset' \subseteq Files /\ generation' = generation
      /\ images' = images /\ usage' = usage /\ Stored' = Stored /\ Strayed' = Strayed
  BY <1>0, <1>2, <1>4 DEF aiVars, Stored, Strayed
<1>8. TextsInv'
  BY <1>0, <1>2, <1>5, <1>6, <1>7, TextsQuiet
<1>9. FilesInv'
  <2>1. MakerOK(r)' /\ DestroyerOK(r)'
    BY <1>2, <1>4, <1>5, <1>7 DEF MakerOK, DestroyerOK, Makes
  <2>2. Makes(request[c]) /\ (Makes(r) => r.files \subseteq request[c].files) /\ \A f : ~Drops(request[c], f)
    BY <1>1, <1>2, <1>5 DEF Makes, Drops
  <2> QED BY <1>0, <1>4, <1>5, <1>6, <1>7, <2>1, <2>2, FilesMove
<1>10. ASSUME Finds(request[c])
       PROVE  TextsFor(r)' /\ (failures = 0 => UnfailedFilesFor(r)' /\ (r.pc = "imageRow" => KitStored(r)'))
  <2>1. TextsFor(r)'
    BY <1>5, <1>7, <1>10 DEF Finds, TextsFor
  <2>2. failures = 0 => UnfailedFilesFor(r)'
    BY <1>1, <1>2, <1>4, <1>5, <1>7, <1>10 DEF Finds, UnfailedFilesFor
  <2>3. failures = 0 => KitStored(x)
    BY <1>1, <1>2, <1>10 DEF Finds, UnfailedKitsFor
  <2>4. KitStored(x) /\ r.pc = "imageRow" => KitStored(r)'
    BY <1>5, <1>7 DEF KitStored, Exists, kitVars
  <2> QED BY <2>1, <2>2, <2>3, <2>4
<1>11. request[c].pc \in AiHas /\ r.pc \in AiGoes
  BY <1>1, <1>2, <1>5 DEF AiHas, AiGoes
<1>12. UsageInv'
  BY <1>1, <1>2, <1>4, <1>5, <1>6, UsageWaits DEF Tracks
<1> QED BY <1>0, <1>5, <1>6, <1>7, <1>8, <1>9, <1>10, <1>11, <1>12, AiMove

LEMMA ImageRowKeeps ==
    ASSUME StudioInv, NEW c \in Calls, ImageRowWritten(c), UNCHANGED templateVars
    PROVE  StudioInv'
<1>0. /\ TypeInv /\ FilesInv /\ TextsInv /\ AloneInv /\ file \in [Files -> FileRow] /\ asset \subseteq Files
      /\ generation \in [Generations -> GenerationRow] /\ images \subseteq Files /\ usage \in Nat
  BY DEF StudioInv, TypeInv, StudioTypeOK
<1>1. PICK x : x = request[c]
  OBVIOUS
<1>2. x \in Request /\ Carries(x) /\ x.pc = "imageRow" /\ x.for = "image" /\ x.files \subseteq Files
  BY <1>0, <1>1 DEF ImageRowWritten, At, TypeInv, Request, Carries
<1>3. PICK r : r = IF KitStored(x) THEN ImageAt(x, "imageFile") ELSE IdleRequest
  OBVIOUS
<1>4. /\ Continue(c, r) /\ UNCHANGED <<kitVars, mediaVars, generation, usage>> /\ images' \subseteq Files
  BY <1>0, <1>1, <1>2, <1>3 DEF ImageRowWritten, ImageAt, GoTo, End
<1>5. /\ r \in Request /\ Carries(r)
      /\ ~KitStored(x) => r.pc = "idle" /\ r.for = "idle"
      /\ KitStored(x) => r.pc = "imageFile" /\ r.for = "image" /\ r.files = x.files /\ r.item = x.item
  BY <1>2, <1>3, IdleRow, ImageRow
<1>6. Move(c, r) /\ failures' = failures
  BY <1>0, <1>1, <1>2, <1>4, Continues
<1>7. /\ UNCHANGED <<kitVars, templateVars>> /\ file' = file /\ asset' = asset /\ generation' = generation
      /\ usage' = usage /\ Stored' = Stored /\ Strayed' = Strayed
  BY <1>4 DEF mediaVars, Stored, Strayed
<1>8. TextsInv'
  BY <1>0, <1>2, <1>5, <1>6, <1>7, TextsQuiet
<1>9. FilesInv'
  BY <1>0, <1>1, <1>2, <1>4, <1>5, <1>6, FilesQuiet DEF MediaPcs
<1>10. ASSUME Finds(request[c]) PROVE TextsFor(r)' /\ (failures = 0 => UnfailedFilesFor(r)')
  <2>1. TextsFor(r)'
    BY <1>5, <1>7, <1>10 DEF Finds, TextsFor
  <2>2. ASSUME failures = 0 PROVE UnfailedFilesFor(r)'
    <3>1. KitStored(x) /\ UnfailedFilesFor(x)
      BY <1>1, <1>2, <1>10, <2>2 DEF Finds, UnfailedKitsFor
    <3> QED BY <1>2, <1>5, <1>7, <3>1 DEF UnfailedFilesFor
  <2> QED BY <2>1, <2>2
<1>11. request[c].pc \in AiHas /\ r.pc \in AiGoes /\ r.pc # "imageRow"
  BY <1>1, <1>2, <1>5 DEF AiHas, AiGoes
<1>12. UsageInv'
  <2>0. UsageInv /\ MakerOK(x) /\ ImageOK(x) /\ usage \in Nat
    BY <1>0, <1>1 DEF StudioInv, UsageInv, FilesInv
  <2>1. CASE KitStored(x)
    <3>1. x.files = {x.item} /\ x.item \notin images /\ x.item \in asset /\ images' = images \cup {x.item}
      BY <1>1, <1>2, <2>0, <2>1 DEF ImageOK, MakerOK, ImageRowWritten
    <3>2. /\ IsFiniteSet(images') /\ Cardinality(images) \in Nat
          /\ Cardinality(images') = Cardinality(images) + 1
      BY <2>0, <3>1, FS_AddElement, FS_CardinalityType DEF UsageInv
    <3>3. request'[c] = r /\ \A d \in Calls : d # c => request'[d] = request[d]
      BY <1>0, <1>6, Moved
    <3>4. \A d \in Calls : ImageOK(request[d])'
      <4>1. ASSUME NEW d \in Calls, d # c, request[d].for = "image" PROVE request[d].item # x.item
        <5>1. Makes(request[d]) /\ Makes(request[c]) /\ request[d].files = {request[d].item}
          BY <1>1, <1>2, <2>0, <4>1 DEF Makes, UsageInv, ImageOK
        <5>2. request[d].files \cap request[c].files = {}
          BY <1>0, <4>1, <5>1 DEF FilesInv
        <5> QED BY <1>1, <3>1, <5>1, <5>2
      <4>2. ImageOK(r)'
        BY <1>5, <2>1, <3>1 DEF ImageOK
      <4> QED BY <2>0, <3>1, <3>3, <4>1, <4>2 DEF UsageInv, ImageOK
    <3>5. Cardinality(Tracking) \in Nat /\ Cardinality(Tracking)' = Cardinality(Tracking) + 1
      BY <1>0, <1>1, <1>2, <1>5, <1>6, <2>1, TrackingMoves DEF Tracks
    <3>6. IsFiniteSet(TextsWritten) /\ TextsWritten' = TextsWritten /\ Cardinality(TextsWritten) \in Nat
      BY <1>4, <2>0, FS_CardinalityType DEF UsageInv, TextsWritten
    <3>7. ASSUME failures' = 0
          PROVE  usage + (Cardinality(Tracking) + 1) = Cardinality(TextsWritten) + (Cardinality(images) + 1)
      <4>1. usage + Cardinality(Tracking) = Cardinality(TextsWritten) + Cardinality(images)
        BY <1>6, <2>0, <3>7 DEF UsageInv
      <4> QED BY <1>0, <3>2, <3>5, <3>6, <4>1
    <3>8. failures' = 0 => usage' + Cardinality(Tracking)' = Cardinality(TextsWritten') + Cardinality(images')
      BY <1>7, <3>2, <3>5, <3>6, <3>7
    <3>9. \A f \in images' : f \in asset' \/ file'[f].state # "none"
      BY <1>7, <2>0, <3>1 DEF UsageInv
    <3> QED BY <3>2, <3>4, <3>6, <3>8, <3>9 DEF UsageInv
  <2>2. CASE ~KitStored(x)
    <3>1. UNCHANGED <<file, aiVars>> /\ asset' = asset
      BY <1>1, <1>4, <2>2 DEF ImageRowWritten, aiVars, mediaVars
    <3> QED BY <1>1, <1>2, <1>5, <1>6, <2>2, <3>1, UsageWaits DEF Tracks
  <2> QED BY <2>1, <2>2
<1> QED BY <1>0, <1>4, <1>5, <1>6, <1>7, <1>8, <1>9, <1>10, <1>11, <1>12, AiMove

LEMMA ImageFileKeeps ==
    ASSUME StudioInv, NEW c \in Calls, ImageFileWritten(c), UNCHANGED templateVars
    PROVE  StudioInv'
<1>0. /\ TypeInv /\ FilesInv /\ TextsInv /\ AloneInv /\ file \in [Files -> FileRow] /\ asset \subseteq Files
      /\ generation \in [Generations -> GenerationRow] /\ images \subseteq Files /\ usage \in Nat
  BY DEF StudioInv, TypeInv, StudioTypeOK
<1>1. PICK x : x = request[c]
  OBVIOUS
<1>2. /\ x \in Request /\ Carries(x) /\ x.pc = "imageFile" /\ x.for = "image" /\ x.files \in SUBSET Files
      /\ MakerOK(x) /\ x.files \subseteq asset
  BY <1>0, <1>1 DEF ImageFileWritten, At, TypeInv, FilesInv, MakerOK, Request, Carries
<1>3. PICK r : r = AtStep("trackUsage")
  OBVIOUS
<1>4. Continue(c, r) /\ UNCHANGED <<kitVars, asset, aiVars>> /\ StoreRows(x.files, "later")
  BY <1>1, <1>3 DEF ImageFileWritten, AtStep
<1>5. r \in Request /\ Carries(r) /\ r.pc = "trackUsage" /\ r.for = "idle"
  BY <1>3, AtStepRow
<1>6. Move(c, r) /\ failures' = failures
  BY <1>0, <1>1, <1>2, <1>4, Continues
<1>7. /\ file' \in [Files -> FileRow] /\ Stored' = Stored \cup x.files /\ Strayed \subseteq Strayed' \cup x.files
      /\ \A f \in Files : f \notin x.files => file'[f] = file[f]
      /\ \A f \in x.files : file'[f].state = "stored"
  BY <1>2, <1>4, RowsStored
<1>8. /\ UNCHANGED <<kitVars, templateVars>> /\ asset' = asset /\ generation' = generation
      /\ images' = images /\ usage' = usage
  BY <1>4 DEF aiVars
<1>9. TextsInv'
  BY <1>0, <1>2, <1>5, <1>6, <1>8, TextsQuiet
<1>10. FilesInv'
  <2>1. MakerOK(r)' /\ DestroyerOK(r)' /\ ~Makes(r)
    BY <1>5 DEF MakerOK, DestroyerOK, Makes
  <2>2. Makes(request[c]) /\ \A f : ~Drops(request[c], f)
    BY <1>1, <1>2 DEF Makes, Drops
  <2> QED BY <1>0, <1>1, <1>2, <1>5, <1>6, <1>7, <1>8, <2>1, <2>2, FilesMove
<1>11. ASSUME Finds(request[c]) PROVE TextsFor(r)' /\ (failures = 0 => UnfailedFilesFor(r)')
  <2>1. TextsFor(r)'
    BY <1>5, <1>8, <1>11 DEF Finds, TextsFor
  <2>2. failures = 0 => UnfailedFilesFor(r)'
    BY <1>1, <1>2, <1>5, <1>7, <1>8, <1>11 DEF Finds, UnfailedFilesFor
  <2> QED BY <2>1, <2>2
<1>12. request[c].pc \in AiHas /\ r.pc \in AiGoes /\ r.pc # "imageRow"
  BY <1>1, <1>2, <1>5 DEF AiHas, AiGoes
<1>13. UsageInv'
  <2>0. UsageInv
    BY DEF StudioInv
  <2>1. request'[c] = r /\ \A d \in Calls : d # c => request'[d] = request[d]
    BY <1>0, <1>6, Moved
  <2>2. \A d \in Calls : ImageOK(request[d])'
    BY <1>5, <1>8, <2>0, <2>1 DEF UsageInv, ImageOK
  <2>3. Cardinality(Tracking)' = Cardinality(Tracking)
    BY <1>0, <1>1, <1>2, <1>5, <1>6, TrackingMoves DEF Tracks
  <2>4. TextsWritten' = TextsWritten
    BY <1>8 DEF TextsWritten
  <2>5. \A f \in images : f \in asset' \/ file'[f].state # "none"
    BY <1>0, <1>7, <1>8, <2>0 DEF UsageInv
  <2> QED BY <1>6, <1>8, <2>0, <2>2, <2>3, <2>4, <2>5 DEF UsageInv
<1> QED BY <1>0, <1>5, <1>6, <1>7, <1>8, <1>9, <1>10, <1>11, <1>12, <1>13, AiMove

LEMMA TrackUsageKeeps ==
    ASSUME StudioInv, NEW c \in Calls, TrackUsage(c), UNCHANGED templateVars
    PROVE  StudioInv'
<1>0. /\ TypeInv /\ FilesInv /\ TextsInv /\ AloneInv /\ file \in [Files -> FileRow] /\ asset \subseteq Files
      /\ generation \in [Generations -> GenerationRow] /\ images \subseteq Files /\ usage \in Nat
  BY DEF StudioInv, TypeInv, StudioTypeOK
<1>1. /\ request[c].pc = "trackUsage" /\ End(c) /\ UNCHANGED <<kitVars, mediaVars, generation, images>>
      /\ usage' \in Nat
  BY <1>0 DEF TrackUsage, At
<1>2. Move(c, IdleRequest) /\ failures' = failures
  BY <1>0, <1>1, Ends
<1>3. file' = file /\ asset' = asset /\ generation' = generation /\ images' = images
  BY <1>1 DEF mediaVars
<1>4. TextsInv'
  BY <1>0, <1>2, <1>3, IdleRow, TextsQuiet
<1>5. FilesInv'
  BY <1>0, <1>1, <1>2, IdleRow, FilesQuiet DEF MediaPcs
<1>6. PICK x : x = request[c]
  OBVIOUS
<1>7. Finds(request[c]) => TextsFor(IdleRequest)' /\ (failures = 0 => UnfailedFilesFor(IdleRequest)')
  <2> SUFFICES ASSUME Finds(x) PROVE TextsFor(IdleRequest)' /\ (failures' = 0 => UnfailedFilesFor(IdleRequest)')
    BY <1>2, <1>6
  <2>1. TextsFor(IdleRequest)'
    BY <1>3, IdleRow DEF Finds, TextsFor
  <2> QED BY <1>1, <1>2, <1>6, <2>1, IdleRow, FindsFiles DEF Finds
<1>8. request[c].pc \in AiHas /\ IdleRequest.pc \in AiGoes /\ IdleRequest.pc # "imageRow"
  BY <1>1, IdleRow DEF AiHas, AiGoes
<1>9. UNCHANGED <<kitVars, templateVars>>
  BY <1>1
<1>10. UsageInv'
  <2>0. UsageInv
    BY DEF StudioInv
  <2>1. request'[c] = IdleRequest /\ \A d \in Calls : d # c => request'[d] = request[d]
    BY <1>0, <1>2, Moved
  <2>2. \A d \in Calls : ImageOK(request[d])'
    BY <1>3, <2>0, <2>1, IdleRow DEF UsageInv, ImageOK
  <2>3. Cardinality(Tracking) \in Nat /\ Cardinality(Tracking)' = Cardinality(Tracking) - 1
    BY <1>0, <1>1, <1>2, IdleRow, TrackingMoves DEF Tracks
  <2>4. TextsWritten' = TextsWritten
    BY <1>3 DEF TextsWritten
  <2>5. usage' + Cardinality(Tracking)' = usage + Cardinality(Tracking)
    <3>1. usage' = usage + 1
      BY DEF TrackUsage
    <3> QED BY <1>0, <2>3, <3>1
  <2> QED BY <1>2, <1>3, <2>0, <2>2, <2>4, <2>5 DEF UsageInv
<1> QED BY <1>0, <1>1, <1>2, <1>3, <1>4, <1>5, <1>7, <1>8, <1>9, <1>10, IdleRow, AiMove

(* Each request to the AI, and each of their steps.                            *)
LEMMA AiKeeps ==
    ASSUME StudioInv, NEW c \in Calls, UNCHANGED templateVars, AiRequest(c) \/ AiStep(c)
    PROVE  StudioInv'
BY AiRequestKeeps, GenerationRowKeeps, ReadGenerationKeeps, EnhancedRowKeeps, UploadImageKeeps, ImageRowKeeps,
   ImageFileKeeps, TrackUsageKeeps DEF AiStep

-------------------------------------------------------------------------------
(* The whole.                                                                  *)

LEMMA TemplatesKeep ==
    ASSUME StudioInv, NEW c \in Calls, Others, TemplateRequest(c) \/ TemplateStep(c)
    PROVE  StudioInv'
<1>1. UNCHANGED <<mediaVars, aiVars>>
  BY DEF Others
<1>2. CASE TemplateRequest(c)
  <2>1. PICK t \in TemplateIds :
           \/ DeleteTemplate(c, t) \/ GenerateFromTemplate(c, t)
           \/ \E u \in Users : FavoriteTemplate(c, t, u)
           \/ \E source \in TemplateIds : DuplicateTemplate(c, source, t)
           \/ \E k \in Kits \cup {"nothing"} :
                 \/ CreateTemplate(c, t, k)
                 \/ \E status \in {"DRAFT", "ACTIVE"} : UpdateTemplate(c, t, status, k)
    BY <1>2 DEF TemplateRequest
  <2>2. CASE GenerateFromTemplate(c, t)
    <3>1. PICK r : r = IdleRequest
      OBVIOUS
    <3>2. r \in Request /\ r.pc = "idle" /\ r.copy = Nothing /\ r.left = {} /\ r.for = "idle"
      BY <3>1, IdleRow DEF IdleRequest
    <3>3. GetActiveBrandKit(c, r) /\ UNCHANGED <<mediaVars, aiVars, templateVars>>
      BY <1>1, <2>2, <3>1 DEF GenerateFromTemplate, EnhanceContentWithAI
    <3> QED BY <3>2, <3>3, GetActiveKeeps
  <2> QED BY <1>1, <2>1, <2>2, TemplateRequestKeeps
<1>3. CASE TemplateStep(c)
  BY <1>1, <1>3, TemplateRowWrittenKeeps, UpdatedRowWrittenKeeps, TemplateRowDeletedKeeps,
     FavoriteRowWrittenKeeps, CountFavoriteKeeps DEF TemplateStep
<1> QED BY <1>2, <1>3

(* A call that fails leaves everything as it was, and ends its request.        *)
LEMMA StepFailsKeeps ==
    ASSUME StudioInv, NEW c \in Calls, Fail(c, IdleRequest), request[c].pc # "idle",
           UNCHANGED <<kitVars, mediaVars, aiVars, templateVars>>
    PROVE  StudioInv'
<1>0. TypeInv /\ FilesInv /\ TextsInv /\ TemplatesInv /\ FavoritesCounted /\ AloneInv
  BY DEF StudioInv
<1>1. Move(c, IdleRequest) /\ failures' # 0
  BY <1>0, Fails
<1>2. /\ UNCHANGED <<kitVars, mediaVars, generation>>
      /\ generation' = generation /\ template' = template /\ favorite' = favorite
  BY DEF aiVars, templateVars
<1>3. TypeInv'
  <2>1. RowsTyped'
    BY <1>0 DEF TypeInv, StudioTypeOK, RowsTyped, kitVars, mediaVars, aiVars, templateVars
  <2> QED BY <1>0, <1>1, <2>1, IdleRow, TypeKept
<1>4. FilesInv'
  BY <1>0, <1>1, IdleRow, FilesQuiet DEF MediaPcs
<1>5. TextsInv'
  BY <1>0, <1>1, <1>2, IdleRow, TextsQuiet
<1>6. TemplatesInv' /\ FavoritesCounted'
  BY <1>0, <1>1, <1>2, IdleRow, TemplatesQuiet DEF TemplatePcs, CountPcs
<1>7. AloneInv'
  BY <1>0, <1>1, <1>2, IdleRow, AloneQuiet DEF KitPcs
<1>8. UsageInv'
  BY <1>0, <1>1, IdleRow, UsageQuiet DEF StudioInv, UsageInv, Tracks, mediaVars
<1> QED BY <1>3, <1>4, <1>5, <1>6, <1>7, <1>8 DEF StudioInv

LEMMA StudioNextKeeps ==
    ASSUME StudioInv, [StudioNext]_studioVars
    PROVE  StudioInv'
<1>1. CASE UNCHANGED studioVars
  <2>1. /\ kit' = kit /\ cache' = cache /\ request' = request /\ calls' = calls /\ failures' = failures
        /\ overlapped' = overlapped /\ file' = file /\ asset' = asset /\ generation' = generation
        /\ images' = images /\ usage' = usage /\ template' = template /\ favorite' = favorite
    BY <1>1 DEF studioVars, requestVars, kitVars, mediaVars, aiVars, templateVars
  <2>2. TypeInv'
    BY <2>1 DEF StudioInv, TypeInv, StudioTypeOK
  <2>3. FilesInv'
    BY <2>1 DEF StudioInv, FilesInv, MakerOK, DestroyerOK, Stored, Strayed
  <2>4. TextsInv'
    BY <2>1 DEF StudioInv, TextsInv, TextOK, Written
  <2>5. TemplatesInv'
    BY <2>1 DEF StudioInv, TemplatesInv, TemplateOK, At
  <2>6. FavoritesCounted'
    BY <2>1 DEF StudioInv, FavoritesCounted, HasTemplate, Counting, At
  <2>7. ASSUME NEW r, Finds(r) PROVE Finds(r)'
    <3>1. KitsFor(r)' /\ TextsFor(r)'
      BY <2>1, <2>7 DEF Finds, KitsFor, TextsFor, Active, CopyOf
    <3>2. UnfailedKitsFor(r) => UnfailedKitsFor(r)'
      BY <2>1 DEF UnfailedKitsFor, CacheCurrent, KitStored, Active, CopyOf, Exists
    <3>3. UnfailedFilesFor(r) => UnfailedFilesFor(r)'
      BY <2>1 DEF UnfailedFilesFor, Stored, Strayed
    <3> QED BY <2>1, <2>7, <3>1, <3>2, <3>3 DEF Finds
  <2>8. AloneInv'
    BY <2>1, <2>7 DEF StudioInv, AloneInv, At, Open
  <2>9. UsageInv'
    BY <2>1 DEF StudioInv, UsageInv, TextsWritten, Tracking, ImageOK
  <2> QED BY <2>2, <2>3, <2>4, <2>5, <2>6, <2>8, <2>9 DEF StudioInv
<1>2. CASE TimePasses
  BY <1>2, CacheExpiresKeeps, FileExpiresKeeps DEF TimePasses, Others
<1>3. ASSUME NEW c \in Calls, Arrive(c) PROVE StudioInv'
  BY <1>3, KitsKeep, MediaKeeps, AiKeeps, TemplatesKeep DEF Arrive
<1>4. ASSUME NEW c \in Calls, Step(c) PROVE StudioInv'
  BY <1>4, KitsKeep, MediaKeeps, AiKeeps, TemplatesKeep DEF Step
<1>5. ASSUME NEW c \in Calls, StepFails(c) PROVE StudioInv'
  BY <1>5, StepFailsKeeps, MediaKeeps DEF StepFails, At
<1>6. ASSUME NEW c \in Calls, Cleanup(c) PROVE StudioInv'
  BY <1>6, CleanupExpiredFilesKeeps
<1> QED BY <1>1, <1>2, <1>3, <1>4, <1>5, <1>6 DEF StudioNext

(* Before the first request.                                                   *)
LEMMA Starts ==
    ASSUME RequestInit, RowsTyped, CacheCurrent, \A k, l \in Active : k = l,
           (\E k \in Kits : Exists(k)) => Active # {},
           asset = Stored, \A g \in Generations : generation[g].cost = generation[g].writes,
           IsFiniteSet(favorite), \A p \in favorite : template[p[2]].status # "none",
           IsFiniteSet(TextsWritten), IsFiniteSet(images), images \subseteq asset,
           usage = Cardinality(TextsWritten) + Cardinality(images),
           \A t \in TemplateIds : HasTemplate(t) =>
               template[t].favoriteCount = Cardinality({p \in favorite : p[2] = t})
    PROVE  StudioInv
<1>1. \A c \in Calls : request[c] = IdleRequest
  BY DEF RequestInit
<1>2. TypeInv
  <2>1. request \in [Calls -> Request]
    BY IdleRow DEF RequestInit
  <2>2. calls \in 0..MaxCalls /\ failures \in 0..MaxFailures
    BY RequestAssumption DEF RequestInit
  <2>3. overlapped \in BOOLEAN
    BY DEF RequestInit
  <2> QED BY <1>1, <2>1, <2>2, <2>3, IdleRow DEF TypeInv, StudioTypeOK, RowsTyped
<1>3. FilesInv
  <2>1. \A c \in Calls : MakerOK(request[c]) /\ DestroyerOK(request[c]) /\ ~Makes(request[c])
    BY <1>1, IdleRow DEF MakerOK, DestroyerOK, Makes
  <2> QED BY <2>1 DEF FilesInv
<1>4. TextsInv
  <2>1. \A c \in Calls : TextOK(request[c]) /\ request[c].for = "idle"
    BY <1>1, IdleRow DEF TextOK
  <2>2. \A g \in Generations : generation[g].cost <= generation[g].writes
    BY DEF RowsTyped, GenerationRow
  <2> QED BY <2>1, <2>2 DEF TextsInv
<1>5. TemplatesInv
  BY <1>1, IdleRow DEF TemplatesInv, TemplateOK, TemplatePcs, CountPcs, At
<1>6. FavoritesCounted
  <2>1. ASSUME NEW t \in TemplateIds PROVE Counting(t) = 0
    <3>1. {c \in Calls : At(c, "increment") /\ request[c].item = t} = {}
      BY <1>1, IdleRow DEF At
    <3> QED BY <3>1, FS_EmptySet DEF Counting
  <2>2. \A t \in TemplateIds : template[t].favoriteCount \in Int
    BY DEF RowsTyped, TemplateRow
  <2> QED BY <2>1, <2>2 DEF FavoritesCounted
<1>7. AloneInv
  <2>1. KitsFor(IdleRequest) /\ UnfailedKitsFor(IdleRequest)
    BY IdleRow DEF KitsFor, UnfailedKitsFor
  <2>2. UnfailedFilesFor(IdleRequest) /\ TextsFor(IdleRequest)
    BY IdleRow DEF UnfailedFilesFor, TextsFor
  <2>3. Finds(IdleRequest)
    BY <2>1, <2>2 DEF Finds
  <2> QED BY <1>1, <2>3, IdleRow DEF AloneInv, At
<1>8. UsageInv
  <2>1. Tracking = {}
    BY <1>1, IdleRow DEF Tracking, Tracks
  <2>2. Cardinality(Tracking) = 0 /\ usage \in Nat
    BY <2>1, FS_EmptySet DEF RowsTyped
  <2>3. usage + Cardinality(Tracking) = usage
    BY <2>2
  <2> QED BY <1>1, <2>3, IdleRow DEF UsageInv, ImageOK
<1> QED BY <1>2, <1>3, <1>4, <1>5, <1>6, <1>7, <1>8 DEF StudioInv

LEMMA StudioStarts ==
    ASSUME StudioInit
    PROVE  StudioInv
<1> DEFINE k == CHOOSE i \in Kits : TRUE
           f == CHOOSE i \in Files \ Foreign : TRUE
           t == CHOOSE i \in TemplateIds : TRUE
           none == [state |-> "none", expires |-> "never"]
<1>0. k \in Kits /\ f \in Files /\ t \in TemplateIds
  BY StudioAssumption
<1>1. none \in FileRow /\ none.state = "none"
  BY DEF FileRow
<1>2. RequestInit
  BY DEF StudioInit
<1>3. NoGeneration \in GenerationRow /\ NoGeneration.cost = 0 /\ NoGeneration.writes = 0
  BY DEF NoGeneration, GenerationRow
<1>4. NoTemplate \in TemplateRow /\ NoTemplate.status = "none"
  BY DEF NoTemplate, TemplateRow, Status
<1>5. Cardinality(Generations) \in Nat
  BY StudioAssumption, FS_CardinalityType
<1>6. CASE /\ kit = [i \in Kits |-> [state |-> "none", version |-> 0]]
           /\ cache = Nothing
           /\ file = [i \in Files |-> none]
           /\ asset = {} /\ images = {} /\ usage = 0
           /\ generation = [g \in Generations |-> NoGeneration]
           /\ template = [i \in TemplateIds |-> NoTemplate]
           /\ favorite = {}
  <2>1. kit \in [Kits -> KitRow] /\ Active = {} /\ \A i \in Kits : ~Exists(i)
    BY <1>6, RequestAssumption DEF KitRow, KitState, Active, Exists
  <2>2. file \in [Files -> FileRow] /\ Stored = {}
    BY <1>1, <1>6 DEF Stored, Strayed
  <2>3. /\ generation \in [Generations -> GenerationRow]
        /\ \A g \in Generations : generation[g].cost = generation[g].writes
    BY <1>3, <1>6
  <2>4. template \in [TemplateIds -> TemplateRow] /\ \A i \in TemplateIds : ~HasTemplate(i)
    BY <1>4, <1>6 DEF HasTemplate
  <2>5. RowsTyped
    BY <1>6, <2>1, <2>2, <2>3, <2>4, IdleRow DEF RowsTyped
  <2>6. CacheCurrent
    BY <1>6 DEF CacheCurrent
  <2>7. IsFiniteSet(favorite) /\ favorite = {} /\ IsFiniteSet(images) /\ Cardinality(images) = 0
    BY <1>6, FS_EmptySet
  <2>8. TextsWritten = {}
    <3>1. \A g \in Generations : {g} \X (1..generation[g].writes) = {}
      BY <1>3, <1>6
    <3> QED BY <3>1 DEF TextsWritten
  <2>9. IsFiniteSet(TextsWritten) /\ usage = Cardinality(TextsWritten) + Cardinality(images)
    BY <1>6, <2>7, <2>8, FS_EmptySet
  <2> QED BY <1>2, <1>6, <2>1, <2>2, <2>3, <2>4, <2>5, <2>6, <2>7, <2>9, Starts
<1>7. ASSUME kit = [i \in Kits |-> [state |-> IF i = k THEN "active" ELSE "inactive", version |-> 1]],
             cache = CopyOf(k),
             file = [i \in Files |-> IF i = f THEN [state |-> "stored", expires |-> "later"] ELSE none],
             asset = {f}, images = {f}, usage = 1 + Cardinality(Generations),
             generation = [g \in Generations |-> [cost |-> 1, writes |-> 1]],
             template = [i \in TemplateIds |-> IF i = t
                            THEN [NoTemplate EXCEPT !.status = "ACTIVE", !.owned = TRUE, !.favoriteCount = 1]
                            ELSE NoTemplate],
             NEW u \in Users, favorite = {<<u, t>>}
      PROVE  StudioInv
  <2>1. kit \in [Kits -> KitRow] /\ Active = {k} /\ kit[k].version = 1
    BY <1>0, <1>7, RequestAssumption DEF KitRow, KitState, Active
  <2>2. cache \in Copy
    BY <1>0, <1>7, <2>1, RequestAssumption DEF CopyOf, Copy
  <2>3. file \in [Files -> FileRow] /\ Stored = {f}
    <3>1. [state |-> "stored", expires |-> "later"] \in FileRow
      BY DEF FileRow
    <3> QED BY <1>0, <1>1, <1>7, <3>1 DEF Stored, Strayed
  <2>4. /\ generation \in [Generations -> GenerationRow]
        /\ \A g \in Generations : generation[g].cost = generation[g].writes
    BY <1>7 DEF GenerationRow
  <2>5. PICK row : row = [NoTemplate EXCEPT !.status = "ACTIVE", !.owned = TRUE, !.favoriteCount = 1]
    OBVIOUS
  <2>6. row \in TemplateRow /\ row.status = "ACTIVE" /\ row.favoriteCount = 1
    <3>1. PICK b \in BOOLEAN : b = TRUE
      OBVIOUS
    <3>2. PICK x \in TemplateRow : x = NoTemplate
      BY <1>4
    <3>3. row = [x EXCEPT !.status = "ACTIVE", !.owned = b, !.favoriteCount = 1]
      BY <2>5, <3>1, <3>2
    <3>4. row.status = "ACTIVE" /\ row.favoriteCount = 1
      BY <3>3 DEF TemplateRow
    <3>5. "ACTIVE" \in Status /\ 1 \in Int
      BY DEF Status
    <3>6. row \in TemplateRow
      BY <3>3, <3>5 DEF TemplateRow
    <3> QED BY <3>4, <3>6
  <2>7. /\ template \in [TemplateIds -> TemplateRow] /\ template[t] = row
        /\ \A i \in TemplateIds : HasTemplate(i) => i = t
    BY <1>0, <1>4, <1>7, <2>5, <2>6 DEF HasTemplate
  <2>8. images \subseteq Files /\ asset \subseteq Files /\ usage \in Nat
    BY <1>0, <1>5, <1>7
  <2>9. RowsTyped
    BY <1>0, <1>7, <2>1, <2>2, <2>3, <2>4, <2>7, <2>8 DEF RowsTyped
  <2>10. IsFiniteSet(favorite) /\ Cardinality({p \in favorite : p[2] = t}) = 1
    <3>1. {p \in favorite : p[2] = t} = favorite
      BY <1>7
    <3> QED BY <1>7, <3>1, FS_Singleton
  <2>11. \A p \in favorite : template[p[2]].status # "none"
    <3>1. \A p \in favorite : p[2] = t
      BY <1>7
    <3> HIDE DEF t
    <3> QED BY <2>6, <2>7, <3>1
  <2>12. \A i \in TemplateIds : HasTemplate(i) =>
            template[i].favoriteCount = Cardinality({p \in favorite : p[2] = i})
    BY <2>6, <2>7, <2>10
  <2>13. CacheCurrent
    BY <1>7, <2>1 DEF CacheCurrent
  <2>14. IsFiniteSet(TextsWritten) /\ Cardinality(TextsWritten) = Cardinality(Generations)
    <3>1. TextsWritten = {<<g, 1>> : g \in Generations}
      <4>1. \A g \in Generations : {g} \X (1..generation[g].writes) = {<<g, 1>>}
        BY <1>7
      <4> QED BY <4>1 DEF TextsWritten
    <3>2. PICK b : b = [g \in Generations |-> <<g, 1>>]
      OBVIOUS
    <3>3. b \in [Generations -> TextsWritten] /\ \A g, h \in Generations : b[g] = b[h] => g = h
      BY <3>1, <3>2
    <3>4. \A p \in TextsWritten : \E g \in Generations : b[g] = p
      BY <3>1, <3>2
    <3>5. b \in Bijection(Generations, TextsWritten)
      BY <3>3, <3>4 DEF Bijection, Injection, Surjection, IsInjective
    <3>6. ExistsBijection(Generations, TextsWritten)
      BY <3>5 DEF ExistsBijection
    <3> QED BY <3>6, StudioAssumption, FS_Bijection
  <2>15. IsFiniteSet(images) /\ Cardinality(images) = 1
    BY <1>7, FS_Singleton
  <2>16. usage = Cardinality(TextsWritten) + Cardinality(images)
    BY <1>5, <1>7, <2>14, <2>15
  <2> QED BY <1>2, <1>7, <2>1, <2>3, <2>4, <2>9, <2>10, <2>11, <2>12, <2>13, <2>14, <2>15, <2>16, Starts
<1> HIDE DEF k, f, t, none
<1> QED BY <1>6, <1>7 DEF StudioInit, k, f, t, none

(* The invariant holds.                                                        *)
THEOREM StudioInvariant == StudioSpec => []StudioInv
<1>1. StudioInit => StudioInv
  BY StudioStarts
<1>2. StudioInv /\ [StudioNext]_studioVars => StudioInv'
  BY StudioNextKeeps
<1> QED BY <1>1, <1>2, PTL DEF StudioSpec

(* Every row, the cached copy and the counters keep their types.               *)
THEOREM StudioTypeCorrect == StudioSpec => []StudioTypeOK
<1>1. StudioInv => StudioTypeOK
  BY DEF StudioInv, TypeInv
<1> QED BY <1>1, StudioInvariant, PTL

(* While no two requests were open together there is one whose view of kits,   *)
(* files and texts is described, and between requests it is that of none.      *)
LEMMA AloneView ==
    ASSUME StudioInv, ~overlapped
    PROVE  \E c \in Calls : Finds(request[c]) /\ (Open = {} => request[c].pc = "idle")
<1>1. \E c \in Calls : Open \subseteq {c}
  <2>1. CASE Open = {}
    BY <2>1, CallsAssumption
  <2>2. CASE Open # {}
    BY <2>2 DEF StudioInv, AloneInv, Open
  <2> QED BY <2>1, <2>2
<1> QED BY <1>1 DEF StudioInv, AloneInv, Open, At

(* One at a time, create, activate, update, deactivate and delete leave at     *)
(* most one kit active, and one if there is any kit and nothing failed.        *)
THEOREM KeepsOneActiveKit == StudioSpec => []OneActiveKit
<1>1. StudioInv => OneActiveKit
  <2> SUFFICES ASSUME StudioInv, ~overlapped
               PROVE  /\ Cardinality(Active) <= 1
                      /\ Quiet /\ (\E k \in Kits : Exists(k)) => Active # {}
    BY DEF OneActiveKit
  <2>1. PICK c \in Calls : Finds(request[c]) /\ (Open = {} => request[c].pc = "idle")
    BY AloneView
  <2>2. Cardinality(Active) <= 1
    <3>1. CASE Active = {}
      BY <3>1, FS_EmptySet
    <3>2. CASE Active # {}
      <4>1. PICK k \in Active : Active = {k}
        BY <2>1, <3>2 DEF Finds, KitsFor
      <4>2. Cardinality(Active) = 1
        BY <4>1, FS_Singleton
      <4> QED BY <4>2
    <3> QED BY <3>1, <3>2
  <2>3. Quiet /\ (\E k \in Kits : Exists(k)) => Active # {}
    BY <2>1 DEF Quiet, Finds, UnfailedKitsFor
  <2> QED BY <2>2, <2>3
<1> QED BY <1>1, StudioInvariant, PTL

(* One at a time and without failures, the cache between two requests is the   *)
(* active kit as it is stored, or empty.                                       *)
THEOREM CacheStaysActive == StudioSpec => []CacheIsActive
<1>1. StudioInv => CacheIsActive
  <2> SUFFICES ASSUME StudioInv, ~overlapped, Quiet PROVE CacheCurrent
    BY DEF CacheIsActive, CacheCurrent
  <2>1. PICK c \in Calls : Finds(request[c]) /\ (Open = {} => request[c].pc = "idle")
    BY AloneView
  <2> QED BY <2>1 DEF Quiet, Finds, UnfailedKitsFor
<1> QED BY <1>1, StudioInvariant, PTL

(* However uploads, images, deletions and the nightly cleanup of two           *)
(* organizations overlap, between them every row has its asset if none of      *)
(* their calls failed; and one at a time every asset has its row, unless the   *)
(* other organization deleted it.                                              *)
THEOREM KeepsMediaAccounted == StudioSpec => []MediaAccounted
<1>1. StudioInv => MediaAccounted
  <2> SUFFICES ASSUME StudioInv, Quiet PROVE Stored \subseteq asset /\ (~overlapped => asset \subseteq Stored \cup Strayed)
    BY DEF MediaAccounted
  <2>1. Stored \subseteq asset
    BY DEF StudioInv, FilesInv, Drops, Quiet, Open, At
  <2>2. ASSUME ~overlapped PROVE asset \subseteq Stored \cup Strayed
    <3>1. PICK c \in Calls : Finds(request[c]) /\ (Open = {} => request[c].pc = "idle")
      BY <2>2, AloneView
    <3> QED BY <3>1 DEF Quiet, Finds, UnfailedFilesFor
  <2> QED BY <2>1, <2>2
<1> QED BY <1>1, StudioInvariant, PTL

(* A template's count of favourites is the number of its pairs, but for the    *)
(* requests that have still to count one, whatever overlaps, if no call fails. *)
THEOREM KeepsFavoritesCounted == StudioSpec => []FavoritesCounted
<1>1. StudioInv => FavoritesCounted
  BY DEF StudioInv
<1> QED BY <1>1, StudioInvariant, PTL

(* The cost of a text is never more than was spent on it, and no less either   *)
(* while requests come one at a time.                                          *)
THEOREM KeepsCostAccounted == StudioSpec => []CostAccounted
<1>1. StudioInv => CostAccounted
  <2> SUFFICES ASSUME StudioInv PROVE CostAccounted
    OBVIOUS
  <2>1. \A g \in Generations : generation[g].cost <= generation[g].writes
    BY DEF StudioInv, TextsInv
  <2>2. ~overlapped => \A g \in Generations : generation[g].cost = generation[g].writes
    BY AloneView DEF Finds, TextsFor
  <2> QED BY <2>1, <2>2 DEF CostAccounted
<1> QED BY <1>1, StudioInvariant, PTL

(* As long as no call fails, the organization's usage between requests is one  *)
(* for each text, enhancement and image that was stored (trackUsage).          *)
THEOREM KeepsUsageAccounted == StudioSpec => []UsageAccounted
<1>1. StudioInv => UsageAccounted
  <2> SUFFICES ASSUME StudioInv, Quiet PROVE usage = Cardinality(TextsWritten) + Cardinality(images)
    BY DEF UsageAccounted
  <2>1. Tracking = {}
    BY DEF Tracking, Tracks, Quiet, Open, At
  <2>2. Cardinality(Tracking) = 0 /\ usage \in Nat
    BY <2>1, FS_EmptySet DEF StudioInv, TypeInv, StudioTypeOK
  <2>3. usage + Cardinality(Tracking) = Cardinality(TextsWritten) + Cardinality(images)
    BY DEF StudioInv, UsageInv, Quiet
  <2> QED BY <2>2, <2>3
<1> QED BY <1>1, StudioInvariant, PTL

===============================================================================
