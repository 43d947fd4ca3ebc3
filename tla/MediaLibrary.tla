------------------------------ MODULE MediaLibrary ------------------------------
(* Media files (src/src/media): a row in the database and an asset at          *)
(* Cloudinary under one public id.  An upload stores the asset and then the    *)
(* row, a deletion destroys the asset, whether or not that works, and then     *)
(* deletes the row; a job does so at midnight with the files that expired.     *)
(* The table has the files of all organizations: here those of the studio's    *)
(* and of another one, whose requests run with its.                            *)
EXTENDS ContentRequests

CONSTANTS
    Files,   \* ids of files, each used once
    Foreign  \* those of them that are the other organization's

VARIABLES
    file,   \* [Files -> FileRow]
    asset   \* the assets at Cloudinary

mediaVars == <<file, asset>>

(* A row is "strayed" when a deletion of an organization whose file it was not *)
(* has deleted it; the row is gone all the same (history).                     *)
FileRow == [state : {"none", "stored", "deleted", "strayed"}, expires : {"never", "later", "past"}]
Stored == {f \in Files : file[f].state = "stored"}
Strayed == {f \in Files : file[f].state = "strayed"}
Fresh == {f \in Files : /\ file[f].state = "none" /\ f \notin asset
                        /\ \A c \in Calls : f \notin request[c].files}

StoreRows(fs, expires) ==
    file' = [f \in Files |-> IF f \in fs THEN [state |-> "stored", expires |-> expires] ELSE file[f]]
DropRows(fs, own) ==
    file' = [f \in Files |-> IF f \in fs \cap Stored
                             THEN [file[f] EXCEPT !.state = IF f \in own THEN "deleted" ELSE "strayed"]
                             ELSE file[f]]

(* The files of the organization that asks.                                    *)
Library(organization) == IF organization = "other" THEN Foreign ELSE Files \ Foreign

-------------------------------------------------------------------------------
(* uploadFile, and uploadMultipleFiles, which uploads all at once and waits.   *)
UploadFiles(c, fs, organization) ==
    /\ fs # {} /\ fs \subseteq Fresh \cap Library(organization)
    /\ Begin(c, [IdleRequest EXCEPT !.pc = "upload", !.files = fs, !.left = fs])
    /\ UNCHANGED mediaVars

UploadAsset(c, f) ==
    /\ At(c, "upload") /\ f \in request[c].left
    /\ asset' = asset \cup {f}
    /\ Continue(c, [request[c] EXCEPT !.left = @ \ {f}])
    /\ UNCHANGED file

(* One upload fails and the request with it; the others may still arrive.      *)
UploadFails(c) ==
    /\ At(c, "upload") /\ request[c].left # {}
    /\ \E late \in SUBSET request[c].left : asset' = asset \cup late
    /\ Fail(c, IdleRequest)
    /\ UNCHANGED file

(* (Mutant: the uploads are not awaited.)                                      *)
UploadedSome(r) == r.left # r.files
Uploaded(r) == r.left = {}

CreateFiles(c) ==
    /\ At(c, "upload") /\ Uploaded(request[c])
    /\ StoreRows(request[c].files, "never")
    /\ End(c)
    /\ UNCHANGED asset

(* deleteFile, and deleteMultipleFiles: the rows found of those the            *)
(* organization has, their assets at once, then the rows of all ids it gave.   *)
DeleteFiles(c, fs, organization) ==
    LET found == fs \cap Stored \cap Library(organization) IN
    /\ found # {}
    /\ Begin(c, [IdleRequest EXCEPT !.pc = "destroy", !.files = fs, !.left = found, !.user = organization])
    /\ UNCHANGED mediaVars

Destroy(c, f) ==
    /\ At(c, "destroy") /\ f \in request[c].left
    /\ asset' = asset \ {f}
    /\ Continue(c, [request[c] EXCEPT !.left = @ \ {f}])
    /\ UNCHANGED file

(* The failure is only logged.                                                 *)
DestroyFails(c, f) ==
    /\ At(c, "destroy") /\ f \in request[c].left
    /\ Fail(c, [request[c] EXCEPT !.left = @ \ {f}])
    /\ UNCHANGED mediaVars

DeleteRows(c) ==
    /\ At(c, "destroy") /\ request[c].left = {}
    /\ DropRows(request[c].files, Library(request[c].user))
    /\ End(c)
    /\ UNCHANGED asset

-------------------------------------------------------------------------------
(* cleanupExpiredFiles takes the files that have expired, one after the other. *)
(* (Mutant: those that have not.)                                              *)
Unexpired == {f \in Stored : file[f].expires = "later"}
Expired == {f \in Stored : file[f].expires = "past"}

CleanupExpiredFiles(c) ==
    /\ At(c, "idle") /\ Expired # {}
    /\ request' = [request EXCEPT ![c] = [IdleRequest EXCEPT !.pc = "cleanup", !.files = Expired]]
    /\ overlapped' = (overlapped \/ Open # {})
    /\ UNCHANGED <<calls, failures, mediaVars>>

(* deleteFile for one of them: its row may be gone; else the asset, then the   *)
(* row.  A failure is logged and the next file taken.                          *)
CleanupNext(c) ==
    /\ At(c, "cleanup")
    /\ \/ request[c].files = {} /\ End(c) /\ UNCHANGED mediaVars
       \/ \E f \in request[c].files :
             IF f \in Stored
             THEN /\ asset' = asset \ {f}
                  /\ Continue(c, [request[c] EXCEPT !.pc = "cleanupRow", !.item = f])
                  /\ UNCHANGED file
             ELSE Continue(c, [request[c] EXCEPT !.files = @ \ {f}]) /\ UNCHANGED mediaVars

CleanupDestroyFails(c) ==
    /\ At(c, "cleanup")
    /\ \E f \in request[c].files \cap Stored :
          Fail(c, [request[c] EXCEPT !.pc = "cleanupRow", !.item = f])
    /\ UNCHANGED mediaVars

CleanupRow(c) ==
    LET goOn == [request[c] EXCEPT !.pc = "cleanup", !.files = @ \ {request[c].item}] IN
    /\ At(c, "cleanupRow")
    /\ \/ DropRows({request[c].item}, Files) /\ Continue(c, goOn)
       \/ Fail(c, goOn) /\ UNCHANGED file
    /\ UNCHANGED asset

(* Seven days after an image was generated.                                    *)
FileExpires(f) ==
    /\ f \in Stored /\ file[f].expires = "later"
    /\ file' = [file EXCEPT ![f].expires = "past"]
    /\ UNCHANGED <<asset, requestVars>>

-------------------------------------------------------------------------------
MediaRequest(c) ==
    \E fs \in SUBSET Files, organization \in {"nothing", "other"} :
        UploadFiles(c, fs, organization) \/ DeleteFiles(c, fs, organization)

MediaStep(c) ==
    \/ CreateFiles(c) \/ DeleteRows(c)
    \/ \E f \in Files : UploadAsset(c, f) \/ Destroy(c, f)

CleanupStep(c) == CleanupNext(c) \/ CleanupRow(c)

MediaFails(c) == UploadFails(c) \/ CleanupDestroyFails(c) \/ \E f \in Files : DestroyFails(c, f)

-------------------------------------------------------------------------------
(* Properties.                                                                 *)

(* As long as no call fails the rows and the assets agree between requests: no *)
(* overlap of uploads, deletions and the nightly cleanup leaves a row without  *)
(* its asset, of whichever organization, and requests one at a time leave no   *)
(* asset without its row but by the deletion of another organization, which    *)
(* takes the rows of all ids it was given and the assets of its own.           *)
MediaAccounted ==
    Quiet => /\ Stored \subseteq asset
             /\ ~overlapped => asset \subseteq Stored \cup Strayed

(* Expired files are removed, although Cloudinary's failures are only logged  *)
(* and the cleanup goes over a file whose row cannot be deleted (@Cron at      *)
(* midnight, as long as not every attempt fails).                              *)
Overdue == {f \in Stored : file[f].expires = "past"}
ExpiredFilesGo == []<>(Overdue = {})

===============================================================================
