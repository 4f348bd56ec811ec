----------------------------- MODULE Thumbnails -----------------------------
(***************************************************************************)
(* Thumbnails of pictures on local storage.  The last chunk of an upload   *)
(* starts a goroutine that makes one with the FileSystem object of the     *)
(* request, which Recycle must not reset before the goroutine has ended; a *)
(* request for a thumbnail that is missing makes it itself.  A channel     *)
(* bounds how many are made at once.  Files are deleted meanwhile.         *)
(***************************************************************************)
EXTENDS Naturals, FiniteSets

CONSTANTS
    Pictures,     \* files
    Makers,       \* requests, each with a FileSystem object of its own
    ThumbWorkers  \* the setting thumb_max_task_count

ASSUME ThumbAssumption == ThumbWorkers \in Nat \ {0} /\ IsFiniteSet(Makers)

VARIABLES
    picture,    \* whether the row, its PicInfo, the content and the thumbnail exist
    workers,    \* tokens in the channel thumbPool.worker
    maker,      \* the requests: the handler, its goroutine, recycleLock and fs.Handler
    overtaken   \* history: pictures deleted while a thumbnail was being made

thumbVars == <<picture, workers, maker, overtaken>>

NoMaker == [req |-> "idle", go |-> "none", pic |-> {}, lock |-> FALSE, driver |-> FALSE]

(* The steps of GenerateThumbnail that hold a token, and those that call   *)
(* fs.Handler.                                                             *)
Holding == {"decode", "save", "info", "undo", "release"}
Calling == {"clean", "open", "undo"}

(* Pictures that have just become files.                                   *)
ThumbInit ==
    /\ picture = [p \in Pictures |-> {"row", "content"}]
    /\ workers = 0
    /\ maker = [g \in Makers |-> NoMaker]
    /\ overtaken = {}

PicOf(g) == CHOOSE p \in maker[g].pic : TRUE
Has(g, part) == part \in picture[PicOf(g)]
Gains(g, part) == picture' = [picture EXCEPT ![PicOf(g)] = @ \cup {part}]
Loses(g, part) == picture' = [picture EXCEPT ![PicOf(g)] = @ \ {part}]
Moves(g, go) == maker' = [maker EXCEPT ![g].go = go]

-----------------------------------------------------------------------------
(* The requests.                                                           *)

(* HookGenerateThumb, in a handler that goes on to its deferred Recycle.   *)
HookGenerateThumb(g, p) ==
    /\ maker[g].req = "idle" /\ "row" \in picture[p]
    /\ maker' = [maker EXCEPT ![g] = [req |-> "recycle", go |-> "clean", pic |-> {p},
                                      lock |-> TRUE, driver |-> TRUE]]
    /\ UNCHANGED <<picture, workers, overtaken>>

(* GetThumb of a file with PicInfo: the stored thumbnail, or a new one.    *)
ThumbOf(g, p) ==
    /\ maker[g].req = "idle" /\ {"row", "info"} \subseteq picture[p]
    /\ maker' = [maker EXCEPT ![g] = [req |-> "recycle", pic |-> {p}, lock |-> FALSE, driver |-> TRUE,
                                      go |-> IF "thumb" \in picture[p] THEN "none" ELSE "open"]]
    /\ UNCHANGED <<picture, workers, overtaken>>

RecycleAtOnce(g) == TRUE

(* Recycle waits for recycleLock; a request that makes the thumbnail       *)
(* itself comes to it afterwards.                                          *)
RecycleReady(g) == ~maker[g].lock /\ maker[g].go = "none"

RecycleFS(g) ==
    /\ maker[g].req = "recycle" /\ RecycleReady(g)
    /\ maker' = [maker EXCEPT ![g].req = "over", ![g].driver = FALSE]
    /\ UNCHANGED <<picture, workers, overtaken>>

-----------------------------------------------------------------------------
(* The goroutine, and GenerateThumbnail.                                   *)

CleanOldThumb(g) ==
    /\ maker[g].go = "clean" /\ Loses(g, "thumb") /\ Moves(g, "open")
    /\ UNCHANGED <<workers, overtaken>>

OpenSource(g) ==
    /\ maker[g].go = "open" /\ Moves(g, IF Has(g, "content") THEN "wait" ELSE "unlock")
    /\ UNCHANGED <<picture, workers, overtaken>>

addWorkerSpare(g) ==
    /\ maker[g].go = "wait" /\ workers + 1 < ThumbWorkers
    /\ workers' = workers + 1 /\ Moves(g, "decode")
    /\ UNCHANGED <<picture, overtaken>>

(* A send to a channel that is full waits.                                 *)
addWorker(g) ==
    /\ maker[g].go = "wait" /\ workers < ThumbWorkers
    /\ workers' = workers + 1 /\ Moves(g, "decode")
    /\ UNCHANGED <<picture, overtaken>>

(* NewThumbFromFile fails on what is no picture; the content stays open    *)
(* when the file is deleted.                                               *)
NewThumbFromFile(g) ==
    /\ maker[g].go = "decode" /\ \E go \in {"save", "release"} : Moves(g, go)
    /\ UNCHANGED <<picture, workers, overtaken>>

(* Save creates the file first: a failure may leave it.                    *)
Save(g) ==
    /\ maker[g].go = "save"
    /\ \/ Gains(g, "thumb") /\ \E go \in {"info", "release"} : Moves(g, go)
       \/ Moves(g, "release") /\ UNCHANGED picture
    /\ UNCHANGED <<workers, overtaken>>

(* UpdatePicInfo of a row that is gone changes nothing and is no error.    *)
UpdatePicInfo(g) ==
    /\ maker[g].go = "info"
    /\ \/ /\ Moves(g, "release")
          /\ IF Has(g, "row") THEN Gains(g, "info") ELSE UNCHANGED picture
       \/ Moves(g, "undo") /\ UNCHANGED picture
    /\ UNCHANGED <<workers, overtaken>>

UndoThumb(g) ==
    /\ maker[g].go = "undo" /\ Loses(g, "thumb") /\ Moves(g, "release")
    /\ UNCHANGED <<workers, overtaken>>

(* releaseWorker, deferred: on every way out.                              *)
releaseWorker(g) == workers - 1

MakerDone(g) ==
    /\ maker[g].go = "release" /\ workers' = releaseWorker(g) /\ Moves(g, "unlock")
    /\ UNCHANGED <<picture, overtaken>>

(* The goroutine's deferred Unlock; a request that made the thumbnail      *)
(* itself asks the driver again.                                           *)
UnlockRecycle(g) ==
    /\ maker[g].go = "unlock" /\ maker' = [maker EXCEPT ![g].go = "none", ![g].lock = FALSE]
    /\ UNCHANGED <<picture, workers, overtaken>>

-----------------------------------------------------------------------------
(* FileSystem.Delete: the driver removes the content and the thumbnail     *)
(* beside it; the row goes afterwards.                                     *)

DeletedParts == {"content", "thumb"}

PictureDeleted(p) ==
    /\ {"row", "content"} \subseteq picture[p]
    /\ picture' = [picture EXCEPT ![p] = @ \ DeletedParts]
    /\ overtaken' = overtaken \cup {q \in {p} : \E g \in Makers : maker[g].pic = {p} /\ maker[g].go # "none"}
    /\ UNCHANGED <<workers, maker>>

PictureRowDeleted(p) ==
    /\ "row" \in picture[p] /\ "content" \notin picture[p]
    /\ picture' = [picture EXCEPT ![p] = @ \ {"row", "info"}]
    /\ UNCHANGED <<workers, maker, overtaken>>

-----------------------------------------------------------------------------
MakerStep(g) ==
    \/ RecycleFS(g) \/ CleanOldThumb(g) \/ OpenSource(g) \/ addWorker(g) \/ NewThumbFromFile(g)
    \/ Save(g) \/ UpdatePicInfo(g) \/ UndoThumb(g) \/ MakerDone(g) \/ UnlockRecycle(g)

ThumbNext ==
    \/ \E g \in Makers : MakerStep(g) \/ \E p \in Pictures : HookGenerateThumb(g, p) \/ ThumbOf(g, p)
    \/ \E p \in Pictures : PictureDeleted(p) \/ PictureRowDeleted(p)

(* While a goroutine can run, one runs; each has finitely many steps.      *)
ThumbFairness == WF_thumbVars(\E g \in Makers : MakerStep(g))

ThumbSpec == ThumbInit /\ [][ThumbNext]_thumbVars /\ ThumbFairness

-----------------------------------------------------------------------------
(* The goroutine never calls the driver of a FileSystem object that has    *)
(* been reset, which would end the process, although the request that      *)
(* owned the object may be over long before (HookGenerateThumb, Recycle).  *)
DriverKept == \A g \in Makers : maker[g].go \in Calling => maker[g].driver

(* The channel holds one token for each thumbnail being made, on every     *)
(* path out of GenerateThumbnail (addWorker, releaseWorker).               *)
TokensExact == workers = Cardinality({g \in Makers : maker[g].go \in Holding})

(* A thumbnail without a file is left only by a file that was deleted      *)
(* while its thumbnail was being made (Driver.Delete, GenerateThumbnail).  *)
ThumbHasFile ==
    \A p \in Pictures : "thumb" \in picture[p] => "content" \in picture[p] \/ p \in overtaken

(* Every request ends: none waits for ever for a worker, or for the        *)
(* goroutine it has started (addWorker, Recycle).  Again and again there   *)
(* is a moment when none is under way.                                     *)
MakerEnds == []<>(\A g \in Makers : maker[g].req # "recycle")

(* What a request and the goroutine it leaves behind keep together: the    *)
(* object they share, the workers' tokens and the thumbnails on disk       *)
(* (HookGenerateThumb, Recycle, GenerateThumbnail, Delete).                *)
ThumbInv == DriverKept /\ TokensExact /\ ThumbHasFile
=============================================================================
