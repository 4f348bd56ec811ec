--------------------------- MODULE BackgroundTasks ---------------------------
(***************************************************************************)
(* The queue of background tasks (pkg/task) and the five kinds of task.    *)
(*                                                                         *)
(* A task is a row of the database and, once submitted, a goroutine that   *)
(* waits for one of the pool's workers, runs the job and gives the worker  *)
(* back.  The rows outlive a crash of the process, the goroutines do not:  *)
(* on start the master resumes every row that is Queued or Processing.     *)
(*                                                                         *)
(* Jobs upload through FileSystem.UploadFromStream, whose FileStream has   *)
(* no Model: once the content is stored, Upload panics in the type         *)
(* assertion on file.Model and no record is inserted (StreamUpload models  *)
(* Upload itself).                                                         *)
(***************************************************************************)
EXTENDS Naturals, FiniteSets

CONSTANTS
    Tasks,        \* the identifiers of task rows
    Items,        \* the objects of a listing, an archive, or a transfer
    MaxWorkers,   \* the setting max_worker_num
    Parallel,     \* the setting max_parallel_transfer
    Quota,        \* the owner's capacity, in objects
    MaxCrashes    \* bound on the crashes of a behaviour

ASSUME TasksAssumption ==
    /\ MaxWorkers \in Nat \ {0} /\ Parallel \in Nat \ {0}
    /\ Quota \in Nat /\ MaxCrashes \in Nat
    /\ IsFiniteSet(Tasks) /\ IsFiniteSet(Items)

VARIABLES
    row,       \* the database: status, kind and whether an error is saved
    goro,      \* the goroutine of each submitted task and its job object
    idle,      \* tokens in the pool's channel idleWorker
    temp,      \* temporary archives of each task in temp_path
    imported,  \* the objects with a file record made by an import
    charged,   \* the storage charged to the owner for them
    active,    \* the owner's account is active
    up, crashes,
    skipped,   \* history: rows that Resume could not rebuild
    leaked     \* history: temporary archives the code gives up

taskVars == <<row, goro, idle, temp, imported, charged, active, up, crashes, skipped, leaked>>

Kinds == {"compress", "decompress", "transfer", "import", "recycle"}
Statuses == {"none", "Queued", "Processing", "Error", "Complete", "deleted"}

(* A goroutine that does not exist; "seen" is the storage in the job's     *)
(* copy of its owner, "zip" says that zipPath is set, "held" that this run *)
(* of the job has a temporary archive, "failed" that Extract failed.       *)
NoGoro == [pc |-> "none", err |-> FALSE, zip |-> FALSE, held |-> FALSE, failed |-> FALSE,
           todo |-> {}, busy |-> {}, seen |-> 0]

(* The goroutine holds a worker of the pool.                               *)
Working == {"start", "do", "zip", "upload", "extract", "panic", "done", "free"}

(* The types of the variables.                                             *)
TasksTypeOK ==
    /\ row \in [Tasks -> [status : Statuses, kind : Kinds \cup {"none"}, error : BOOLEAN]]
    /\ goro \in [Tasks -> [pc : Working \cup {"none", "recorded", "waiting"},
                           err : BOOLEAN, zip : BOOLEAN, held : BOOLEAN, failed : BOOLEAN,
                           todo : SUBSET Items, busy : SUBSET Items, seen : Nat]]
    /\ idle \in 0 .. MaxWorkers
    /\ temp \in [Tasks -> Nat] /\ leaked \in [Tasks -> Nat]
    /\ imported \subseteq Items /\ charged \in Nat
    /\ active \in BOOLEAN /\ up \in BOOLEAN /\ crashes \in 0 .. MaxCrashes
    /\ skipped \subseteq Tasks

TasksInit ==
    /\ row = [t \in Tasks |-> [status |-> "none", kind |-> "none", error |-> FALSE]]
    /\ goro = [t \in Tasks |-> NoGoro]
    /\ idle = MaxWorkers
    /\ temp = [t \in Tasks |-> 0] /\ leaked = [t \in Tasks |-> 0]
    /\ imported = {} /\ charged = 0
    /\ active = TRUE /\ up = TRUE /\ crashes = 0
    /\ skipped = {}

-----------------------------------------------------------------------------
(* Task rows.  An update of a row that was deleted matches nothing.        *)

SetStatus(t, s) == IF row[t].status = "deleted" THEN row ELSE [row EXCEPT ![t].status = s]

SetError(t) == IF row[t].status = "deleted" THEN row ELSE [row EXCEPT ![t].error = TRUE]

GetTasksByStatus(S) == {t \in Tasks : row[t].status \in S}

(* Record, called by the constructors: the row is inserted Queued.         *)
Record(t, k) ==
    /\ up /\ row[t].status = "none"
    /\ row' = [row EXCEPT ![t] = [status |-> "Queued", kind |-> k, error |-> FALSE]]
    /\ goro' = [goro EXCEPT ![t] = [NoGoro EXCEPT !.pc = "recorded", !.seen = charged]]
    /\ UNCHANGED <<idle, temp, imported, charged, active, up, crashes, skipped, leaked>>

(* The constructors.  Those of transfers and imports look their owner up   *)
(* as an active user; the others are given a user who was loaded before.   *)
NewCompressTask(t) == Record(t, "compress")
NewDecompressTask(t) == Record(t, "decompress")
NewRecycleTask(t) == Record(t, "recycle")
NewTransferTask(t) == active /\ Record(t, "transfer")
NewImportTask(t) == active /\ Record(t, "import")

(* The requests that make tasks.  One that the group, the names or the     *)
(* sizes rule out leaves no trace.                                         *)
CreateCompressTask(t) == NewCompressTask(t)
CreateDecompressTask(t) == NewDecompressTask(t)
ImportTaskCreate(t) == NewImportTask(t)

Goes(t, pc) == goro' = [goro EXCEPT ![t] = [@ EXCEPT !.pc = pc]]

Submit(t) ==
    /\ goro[t].pc = "recorded" /\ Goes(t, "waiting")
    /\ UNCHANGED <<row, idle, temp, imported, charged, active, up, crashes, skipped, leaked>>

obtainWorkerSpare(t) ==
    /\ goro[t].pc = "waiting" /\ idle > 1
    /\ idle' = idle - 1 /\ Goes(t, "start")
    /\ UNCHANGED <<row, temp, imported, charged, active, up, crashes, skipped, leaked>>

obtainWorker(t) ==
    /\ goro[t].pc = "waiting" /\ idle > 0
    /\ idle' = idle - 1 /\ Goes(t, "start")
    /\ UNCHANGED <<row, temp, imported, charged, active, up, crashes, skipped, leaked>>

freeWorker(t) ==
    /\ goro[t].pc = "free"
    /\ idle' = idle + 1 /\ goro' = [goro EXCEPT ![t] = NoGoro]
    /\ UNCHANGED <<row, temp, imported, charged, active, up, crashes, skipped, leaked>>

(* GeneralWorker.Do: the job starts.                                       *)
WorkerStart(t) ==
    /\ goro[t].pc = "start" /\ row' = SetStatus(t, "Processing") /\ Goes(t, "do")
    /\ UNCHANGED <<idle, temp, imported, charged, active, up, crashes, skipped, leaked>>

(* GeneralWorker.Do: the job returned.                                     *)
WorkerEnd(t) ==
    /\ goro[t].pc = "done"
    /\ row' = SetStatus(t, IF goro[t].err THEN "Error" ELSE "Complete")
    /\ Goes(t, "free")
    /\ UNCHANGED <<idle, temp, imported, charged, active, up, crashes, skipped, leaked>>

(* CompressTask.removeZipFile, called by its SetError and at the end: the  *)
(* archive is removed only if the job knows its path.                      *)
removeZipFile(t) ==
    temp' = IF goro[t].zip THEN [temp EXCEPT ![t] = @ - 1] ELSE temp

(* An archive whose path the job does not know is given up.                *)
GivesUp(t) == goro[t].held /\ ~goro[t].zip

SetErrorMsg(t) ==
    /\ row' = SetError(t)
    /\ goro' = [goro EXCEPT ![t] = [@ EXCEPT !.err = TRUE, !.held = FALSE, !.pc = "done",
                                               !.todo = {}, !.busy = {}]]
    /\ IF row[t].kind = "compress"
       THEN /\ removeZipFile(t)
            /\ leaked' = IF GivesUp(t) THEN [leaked EXCEPT ![t] = @ + 1] ELSE leaked
       ELSE UNCHANGED <<temp, leaked>>

(* GeneralWorker.Do recovers from a panic of the job.                      *)
WorkerRecover(t) ==
    /\ goro[t].pc = "panic"
    /\ row' = IF row[t].status = "deleted" THEN row
              ELSE [row EXCEPT ![t].error = TRUE, ![t].status = "Error"]
    /\ goro' = [goro EXCEPT ![t] = [@ EXCEPT !.pc = "free", !.err = TRUE, !.held = FALSE]]
    /\ IF row[t].kind = "compress" THEN removeZipFile(t) ELSE UNCHANGED temp
    /\ UNCHANGED <<idle, imported, charged, active, up, crashes, skipped, leaked>>

-----------------------------------------------------------------------------
(* The jobs.                                                               *)

Runs(t, k, pc) == goro[t].pc = pc /\ row[t].kind = k

jobFrame == UNCHANGED <<idle, imported, charged, active, up, crashes, skipped>>

(* A job's first step fails: no file system for the owner, no policy, no   *)
(* listing, no archive, no download row or node.                           *)
DoFails(t) ==
    /\ goro[t].pc = "do" /\ goro[t].todo = {} /\ ~goro[t].failed
    /\ SetErrorMsg(t)
    /\ jobFrame

(* CompressTask.Do: the temporary archive is created.                      *)
CompressCreates(t) ==
    /\ Runs(t, "compress", "do")
    /\ temp' = [temp EXCEPT ![t] = @ + 1]
    /\ goro' = [goro EXCEPT ![t] = [@ EXCEPT !.pc = "zip", !.held = TRUE]]
    /\ UNCHANGED <<row, leaked>> /\ jobFrame

(* FileSystem.Compress and doCompress: an object that cannot be read is    *)
(* left out; only a failing query of the rows fails the archive.           *)
Compress(t) ==
    /\ Runs(t, "compress", "zip")
    /\ goro' = [goro EXCEPT ![t] = [@ EXCEPT !.pc = "upload", !.zip = TRUE]]
    /\ UNCHANGED <<row, temp, leaked>> /\ jobFrame

CompressFails(t) ==
    /\ Runs(t, "compress", "zip") /\ SetErrorMsg(t) /\ jobFrame

(* UploadFromPath of the archive: refused or broken, or stored and then    *)
(* the panic of Upload.                                                    *)
CompressUploadFails(t) ==
    /\ Runs(t, "compress", "upload") /\ SetErrorMsg(t) /\ jobFrame

CompressUploadStored(t) ==
    /\ Runs(t, "compress", "upload") /\ Goes(t, "panic")
    /\ UNCHANGED <<row, temp, leaked>> /\ jobFrame

(* FileSystem.Decompress: the archive is fetched to a temporary file, of   *)
(* which the deferred function disposes however Decompress ends.           *)
DecompressFetch(t) ==
    /\ Runs(t, "decompress", "do")
    /\ temp' = [temp EXCEPT ![t] = @ + 1]
    /\ goro' = [goro EXCEPT ![t] = [@ EXCEPT !.pc = "extract", !.held = TRUE, !.todo = Items]]
    /\ UNCHANGED <<row, leaked>> /\ jobFrame

(* Extract hands a file of the archive to a goroutine for which it takes a *)
(* token of the channel worker.                                            *)
DecompressTake(t, o) ==
    /\ Runs(t, "decompress", "extract")
    /\ o \in goro[t].todo /\ Cardinality(goro[t].busy) < Parallel
    /\ goro' = [goro EXCEPT ![t] = [@ EXCEPT !.todo = goro[t].todo \ {o}, !.busy = goro[t].busy \cup {o}]]
    /\ UNCHANGED <<row, temp, leaked>> /\ jobFrame

(* A directory, or an entry with an illegal path or that cannot be opened. *)
DecompressSkip(t, o) ==
    /\ Runs(t, "decompress", "extract") /\ o \in goro[t].todo
    /\ goro' = [goro EXCEPT ![t] = [@ EXCEPT !.todo = goro[t].todo \ {o}]]
    /\ UNCHANGED <<row, temp, leaked>> /\ jobFrame

(* uploadFunc: refused, broken, or stored; it recovers from the panic and  *)
(* gives its token back first in every case.                               *)
uploadFunc(t, o) ==
    /\ Runs(t, "decompress", "extract") /\ o \in goro[t].busy
    /\ goro' = [goro EXCEPT ![t] = [@ EXCEPT !.busy = goro[t].busy \ {o}]]
    /\ UNCHANGED <<row, temp, leaked>> /\ jobFrame

(* The archive is broken: no further file is extracted.                    *)
ExtractFails(t) ==
    /\ Runs(t, "decompress", "extract") /\ goro[t].todo # {}
    /\ goro' = [goro EXCEPT ![t] = [@ EXCEPT !.todo = {}, !.failed = TRUE]]
    /\ UNCHANGED <<row, temp, leaked>> /\ jobFrame

(* wg.Wait, the deferred clean-up, and the result of Extract.              *)
DecompressEnds(t) ==
    /\ Runs(t, "decompress", "extract") /\ goro[t].todo = {} /\ goro[t].busy = {}
    /\ temp' = [temp EXCEPT ![t] = @ - 1]
    /\ row' = IF goro[t].failed THEN SetError(t) ELSE row
    /\ goro' = [goro EXCEPT ![t] = [@ EXCEPT !.pc = "done", !.err = goro[t].failed, !.held = FALSE]]
    /\ UNCHANGED leaked /\ jobFrame

(* TransferTask.Do: one file after another; the first whose content is     *)
(* stored, or a slave node that is gone, makes it panic.                   *)
TransferBegins(t) ==
    /\ Runs(t, "transfer", "do") /\ goro[t].todo = {} /\ ~goro[t].failed
    /\ goro' = [goro EXCEPT ![t] = [@ EXCEPT !.todo = Items]]
    /\ UNCHANGED <<row, temp, leaked>> /\ jobFrame

TransferFileFails(t, o) ==
    /\ Runs(t, "transfer", "do") /\ o \in goro[t].todo
    /\ goro' = [goro EXCEPT ![t] = [@ EXCEPT !.todo = goro[t].todo \ {o}, !.failed = TRUE]]
    /\ UNCHANGED <<row, temp, leaked>> /\ jobFrame

TransferFileStored(t, o) ==
    /\ Runs(t, "transfer", "do") /\ o \in goro[t].todo /\ Goes(t, "panic")
    /\ UNCHANGED <<row, temp, leaked>> /\ jobFrame

TransferEnds(t) ==
    /\ Runs(t, "transfer", "do") /\ goro[t].todo = {} /\ goro[t].failed
    /\ SetErrorMsg(t) /\ jobFrame

(* ImportTask.Do: the storage is listed, then each object is given a       *)
(* record.  The quota is that of the job's own copy of the owner.          *)
ImportList(t) ==
    /\ Runs(t, "import", "do")
    /\ goro' = [goro EXCEPT ![t] = [@ EXCEPT !.pc = "extract", !.todo = Items]]
    /\ UNCHANGED <<row, temp, leaked>> /\ jobFrame

ImportFits(t) == goro[t].seen < Quota

(* AddFile: the record and the charge are one transaction, which the       *)
(* unique index on the name of a file in its folder refuses.               *)
AddObject(t, o) ==
    /\ Runs(t, "import", "extract") /\ o \in goro[t].todo /\ ImportFits(t)
    /\ o \notin imported
    /\ imported' = imported \cup {o} /\ charged' = charged + 1
    /\ goro' = [goro EXCEPT ![t] = [@ EXCEPT !.todo = goro[t].todo \ {o}, !.seen = goro[t].seen + 1]]
    /\ UNCHANGED <<row, idle, temp, active, up, crashes, skipped, leaked>>

(* An object that exists, or whose name, size or folder is refused.        *)
ImportSkip(t, o) ==
    /\ Runs(t, "import", "extract") /\ o \in goro[t].todo
    /\ goro' = [goro EXCEPT ![t] = [@ EXCEPT !.todo = goro[t].todo \ {o}]]
    /\ UNCHANGED <<row, temp, leaked>> /\ jobFrame

ImportFull(t) ==
    /\ Runs(t, "import", "extract") /\ goro[t].todo # {} /\ ~ImportFits(t)
    /\ SetErrorMsg(t) /\ jobFrame

ImportEnds(t) ==
    /\ Runs(t, "import", "extract") /\ goro[t].todo = {} /\ Goes(t, "done")
    /\ UNCHANGED <<row, temp, leaked>> /\ jobFrame

(* RecycleTask.Do: the temporary folder of a download is removed.          *)
Recycle(t) ==
    /\ Runs(t, "recycle", "do") /\ Goes(t, "done")
    /\ UNCHANGED <<row, temp, leaked>> /\ jobFrame

-----------------------------------------------------------------------------
(* The environment.                                                        *)

(* The administrator deletes rows, of running tasks too.                   *)
DeleteGeneral(t) ==
    /\ up /\ row[t].status \notin {"none", "deleted"}
    /\ row' = [row EXCEPT ![t].status = "deleted"]
    /\ UNCHANGED <<goro, idle, temp, imported, charged, active, up, crashes, skipped, leaked>>

(* The owner is banned, or activated again.                                *)
SetActive(b) ==
    /\ up /\ active # b /\ active' = b
    /\ UNCHANGED <<row, goro, idle, temp, imported, charged, up, crashes, skipped, leaked>>

Crash ==
    /\ up /\ crashes < MaxCrashes
    /\ up' = FALSE /\ crashes' = crashes + 1
    /\ goro' = [t \in Tasks |-> NoGoro] /\ idle' = 0
    /\ leaked' = [t \in Tasks |-> leaked[t] + IF goro[t].held THEN 1 ELSE 0]
    /\ UNCHANGED <<row, temp, imported, charged, active, skipped>>

(* New...TaskFromModel: every kind needs an active owner.                  *)
GetJobFromModel(t) == active

ResumeQueued ==
    LET found == GetTasksByStatus({"Queued"})
    IN  /\ goro' = [t \in Tasks |->
                      IF t \in found /\ GetJobFromModel(t)
                      THEN [NoGoro EXCEPT !.pc = "waiting", !.seen = charged] ELSE NoGoro]
        /\ skipped' = skipped \cup {t \in found : ~GetJobFromModel(t)}

(* task.Init of the master: a full pool, and Resume.                       *)
Resume ==
    LET found == GetTasksByStatus({"Queued", "Processing"})
    IN  /\ goro' = [t \in Tasks |->
                      IF t \in found /\ GetJobFromModel(t)
                      THEN [NoGoro EXCEPT !.pc = "waiting", !.seen = charged] ELSE NoGoro]
        /\ skipped' = skipped \cup {t \in found : ~GetJobFromModel(t)}

Restart ==
    /\ ~up /\ up' = TRUE /\ idle' = MaxWorkers /\ Resume
    /\ UNCHANGED <<row, temp, imported, charged, active, crashes, leaked>>

-----------------------------------------------------------------------------
JobStep(t) ==
    \/ Submit(t) \/ obtainWorker(t) \/ WorkerStart(t) \/ WorkerEnd(t)
    \/ WorkerRecover(t) \/ freeWorker(t) \/ DoFails(t)
    \/ CompressCreates(t) \/ Compress(t) \/ CompressFails(t)
    \/ CompressUploadFails(t) \/ CompressUploadStored(t)
    \/ DecompressFetch(t) \/ ExtractFails(t) \/ DecompressEnds(t)
    \/ TransferBegins(t) \/ TransferEnds(t)
    \/ ImportList(t) \/ ImportFull(t) \/ ImportEnds(t) \/ Recycle(t)
    \/ \E o \in Items :
        \/ DecompressTake(t, o) \/ DecompressSkip(t, o) \/ uploadFunc(t, o)
        \/ TransferFileFails(t, o) \/ TransferFileStored(t, o)
        \/ AddObject(t, o) \/ ImportSkip(t, o)

TasksNext ==
    \/ \E t \in Tasks :
        \/ JobStep(t) \/ DeleteGeneral(t) \/ CreateCompressTask(t) \/ CreateDecompressTask(t)
        \/ ImportTaskCreate(t) \/ NewTransferTask(t) \/ NewRecycleTask(t)
    \/ \E b \in BOOLEAN : SetActive(b)
    \/ Crash \/ Restart

(* A goroutine that can run runs; the operating system restarts nothing.   *)
TasksFairness == \A t \in Tasks : WF_taskVars(JobStep(t))

TasksSpec == TasksInit /\ [][TasksNext]_taskVars /\ TasksFairness

-----------------------------------------------------------------------------
(* No worker is lost or made up: whatever a job does, return, fail or      *)
(* panic, the tokens of the pool and the goroutines that hold one add up   *)
(* to max_worker_num (Submit, freeWorker, the recover of GeneralWorker).   *)
WorkersConserved ==
    up => idle + Cardinality({t \in Tasks : goro[t].pc \in Working}) = MaxWorkers

(* A row that is not finished has a goroutine that will finish it, across  *)
(* a crash too, unless Resume could not rebuild its job for an owner who   *)
(* was not active then (Resume, GetJobFromModel).                          *)
NoTaskForgotten ==
    up => \A t \in Tasks :
            row[t].status \in {"Queued", "Processing"} => goro[t].pc # "none" \/ t \in skipped

(* A task shown as failed says why: the error is saved before the status,  *)
(* on the path of a panic too (GeneralWorker.Do).                          *)
FailureExplained == \A t \in Tasks : row[t].status = "Error" => row[t].error

(* The temporary archives on disk are those of running jobs and the ones   *)
(* the code gives up: those of jobs a crash interrupted and of a Compress  *)
(* that failed before zipPath was set (CompressTask.SetError).             *)
TempArchivesAccounted ==
    \A t \in Tasks : temp[t] = leaked[t] + IF goro[t].held THEN 1 ELSE 0

(* An object is charged once, however often its import runs again after a  *)
(* crash or runs next to another import of the same folder (AddFile).      *)
ImportChargedOnce == charged = Cardinality(imported)

(* A submitted task gets a worker and lets go of it (or the process        *)
(* crashes): no job can starve the pool (Submit, freeWorker).              *)
TaskEnds == \A t \in Tasks : (goro[t].pc = "waiting") ~> (goro[t].pc = "none")

(* What the queue keeps through failures, panics, deletions and a crash:   *)
(* workers, rows, errors, temporary archives and charges (pkg/task).       *)
TasksInv ==
    /\ TasksTypeOK /\ WorkersConserved /\ NoTaskForgotten
    /\ FailureExplained /\ TempArchivesAccounted /\ ImportChargedOnce
=============================================================================
