--------------------------- MODULE CallbackUpload ---------------------------
(***************************************************************************)
(* One upload whose content goes from the client to a vendor, or to a      *)
(* slave, and never through this server: the session is created, the       *)
(* vendor takes the content, a callback reports it, and the placeholder    *)
(* becomes a file.  Beside it run a second delivery of the callback,       *)
(* deletions by the user, the collector of expired sessions, the expiry of *)
(* the cached session and, for OneDrive, the goroutine that watches the    *)
(* upload.                                                                 *)
(***************************************************************************)
EXTENDS Integers, FiniteSets

CONSTANTS
    Kinds,          \* policy types to explore
    Size,           \* size that the client declared
    Sizes,          \* sizes that the client may really send
    Tolerance,      \* what SharePoint may add (1 MB)
    Capacity,       \* what the user may store
    Deliveries,     \* deliveries of the callback that may be under way
    MaxFaults,      \* bound: vendor requests that fail
    MaxDeletions    \* bound: deletions begun by the user

ASSUME CallbackAssumption ==
    /\ Size \in Nat \ {0} /\ Sizes \subseteq Nat /\ Size \in Sizes
    /\ Tolerance \in Nat /\ Capacity \in Nat /\ MaxFaults \in Nat /\ MaxDeletions \in Nat

VARIABLES
    policy,         \* kind, withSize: placeholders count towards storage, sharepoint
    creating,       \* where CreateUploadSession is
    row,            \* the file record
    cached,         \* is the session in the cache?
    object,         \* what lies at the save path
    upload,         \* the vendor's side of the upload
    callback,       \* delivery -> where its request is
    monitor, told,  \* the OneDrive watcher; is there a message in its channel?
    deletion,       \* a running FileSystem.Delete of the placeholder
    used,           \* the user's storage
    faults, deletions,
    condemned,      \* history: something began to delete this upload
    late            \* history: content arrived when a deletion was over or under way

callbackVars == <<policy, creating, row, cached, object, upload, callback, monitor, told, deletion,
                  used, faults, deletions, condemned, late>>
history == <<condemned, late>>
serverVars == <<creating, row, cached, callback, deletion, used>>

Nothing == [size |-> -1, own |-> FALSE]
Stray == [size |-> Size, own |-> FALSE]
Own(n) == [size |-> n, own |-> TRUE]
NoRow == [state |-> "none", size |-> 0]
Resting == [at |-> "none", size |-> 0, sessions |-> FALSE]
Waiting == [at |-> "none", size |-> 0, used |-> 0]

(* Policy.IsUploadPlaceholderWithSize: always for slaves, by option for    *)
(* most vendors, never for Upyun.                                          *)
IsUploadPlaceholderWithSize(kind) ==
    CASE kind = "remote" -> {TRUE}
      [] kind = "upyun" -> {FALSE}
      [] OTHER -> BOOLEAN

CallbackInit ==
    /\ \E k \in Kinds : \E w \in IsUploadPlaceholderWithSize(k) :
         policy \in [kind : {k}, withSize : {w}, sharepoint : IF k = "onedrive" THEN BOOLEAN ELSE {FALSE}]
    /\ creating = "no" /\ row = NoRow /\ cached = FALSE
    /\ object \in {Nothing, Stray}
    /\ upload = "none" /\ callback = [d \in Deliveries |-> Waiting]
    /\ monitor = "off" /\ told = FALSE /\ deletion = Resting
    /\ used = 0
    /\ faults = 0 /\ deletions = 0 /\ condemned = FALSE /\ late = FALSE

Fails == faults < MaxFaults /\ faults' = faults + 1
Is(k) == policy.kind = k

-----------------------------------------------------------------------------
(* CreateUploadSession: validate, ask the vendor, insert the placeholder,  *)
(* cache the session.  Each step is visible to the others.                 *)

GetRemainingCapacity(u) == IF u > Capacity THEN 0 ELSE Capacity - u
HookValidateCapacity(u) == GetRemainingCapacity(u) >= Size

Validate ==
    /\ creating = "no"
    /\ creating' = IF HookValidateCapacity(used) THEN "valid" ELSE "refused"
    /\ UNCHANGED <<policy, row, cached, object, upload, callback, monitor, told, deletion, used,
                   faults, deletions, history>>

(* The vendor opens an upload of its own, or the credential is merely a    *)
(* signed policy.  The driver of S3, the slave and OneDrive, told to fail  *)
(* on a conflict, refuse a save path that is taken.                        *)
ossToken == Is("oss") /\ upload' = "open" /\ UNCHANGED monitor
cosToken == Is("cos") /\ upload' = "signed" /\ UNCHANGED monitor
s3Token == Is("s3") /\ object = Nothing /\ upload' = "open" /\ UNCHANGED monitor
qiniuToken == Is("qiniu") /\ upload' = "open" /\ UNCHANGED monitor
upyunToken == Is("upyun") /\ upload' = "signed" /\ UNCHANGED monitor
SlaveCreateUploadSession == object = Nothing /\ upload' = "open"
CreateUploadSessionRequest == SlaveCreateUploadSession
remoteToken == Is("remote") /\ CreateUploadSessionRequest /\ UNCHANGED monitor
onedriveCreateUploadSession == object = Nothing /\ upload' = "open"
onedriveToken == Is("onedrive") /\ onedriveCreateUploadSession /\ monitor' = "watching"

Token ==
    /\ creating = "valid" /\ creating' = "token"
    /\ ossToken \/ cosToken \/ s3Token \/ qiniuToken \/ upyunToken \/ remoteToken \/ onedriveToken
    /\ UNCHANGED <<policy, row, cached, object, callback, told, deletion, used, faults, deletions, history>>

TokenFails ==
    /\ creating = "valid" /\ creating' = "refused"
    /\ Fails
    /\ UNCHANGED <<policy, row, cached, object, upload, callback, monitor, told, deletion, used,
                   deletions, history>>

(* The second Upload validates again and inserts the placeholder, with     *)
(* size 0 after HookClearFileHeaderSize; when it fails the token stays.    *)
PlaceholderSize == IF policy.withSize THEN Size ELSE 0
CreatePlaceholder(nameTaken) ==
    /\ creating = "token"
    /\ IF ~HookValidateCapacity(used) \/ nameTaken
       THEN creating' = "refused" /\ UNCHANGED <<row, used>>
       ELSE /\ creating' = "placed"
            /\ row' = [state |-> "placeholder", size |-> PlaceholderSize]
            /\ used' = used + PlaceholderSize
    /\ UNCHANGED <<policy, cached, object, upload, callback, monitor, told, deletion, faults,
                   deletions, history>>

CacheSession ==
    /\ creating = "placed" /\ creating' = "done"
    /\ cached' = TRUE
    /\ UNCHANGED <<policy, row, object, upload, callback, monitor, told, deletion, used, faults,
                   deletions, history>>

SessionExpires ==
    /\ cached /\ cached' = FALSE
    /\ UNCHANGED <<policy, creating, row, object, upload, callback, monitor, told, deletion, used,
                   faults, deletions, history>>

-----------------------------------------------------------------------------
(* The client sends its content to the vendor (external).  A slave and     *)
(* Upyun admit only the declared size.  What was opened with a conflict    *)
(* rule is refused when the path is taken meanwhile.                       *)

StartUpload ==
    /\ creating = "done" /\ upload = "open" /\ upload' = "started"
    /\ UNCHANGED <<serverVars, policy, object, monitor, told, faults, deletions, history>>

Accepted(n) ==
    /\ Is("remote") \/ Is("upyun") => n = Size
    /\ Is("oss") \/ Is("onedrive") \/ Is("qiniu") => object = Nothing
FinishUpload(n) ==
    /\ creating = "done" /\ upload \in {"started", "signed"}
    /\ upload' = "finished"
    /\ IF Accepted(n)
       THEN object' = Own(n) /\ late' = (late \/ row.state = "none" \/ deletion.at # "none")
       ELSE UNCHANGED <<object, late>>
    /\ UNCHANGED <<serverVars, policy, monitor, told, faults, deletions, condemned>>

VendorExpires ==
    /\ upload \in {"open", "started"} /\ upload' = "closed"
    /\ UNCHANGED <<serverVars, policy, object, monitor, told, faults, deletions, history>>

-----------------------------------------------------------------------------
(* The callback.  OSS, Qiniu and Upyun call once they have the             *)
(* content, perhaps twice; for the others the client calls when it likes.  *)

ByVendor == policy.kind \in {"oss", "qiniu", "upyun"}
Step(d, from, to) == callback[d].at = from /\ callback' = [callback EXCEPT ![d].at = to]
Refused(d) == callback' = [callback EXCEPT ![d].at = "refused"]

(* A slave of this version never calls: FileSystem.Upload uses the model   *)
(* of the file, which a slave has not got, before SlaveAfterUpload.        *)
uploadCallbackCheck(d) ==
    /\ callback[d].at = "none" /\ creating = "done" /\ ~Is("remote")
    /\ ByVendor => object.own
    /\ callback' = [callback EXCEPT ![d].at = IF cached THEN "got" ELSE "refused"]
    /\ UNCHANGED <<policy, creating, row, cached, object, upload, monitor, told, deletion, used,
                   faults, deletions, history>>

(* The session goes before the user is looked up, who may be banned by     *)
(* now; the user's storage is read here, once for the whole request (and   *)
(* used only where the placeholder was not charged).                       *)
DropSession(d, active) ==
    /\ callback[d].at = "got" /\ cached' = FALSE
    /\ callback' = [callback EXCEPT ![d].at = IF active THEN "admitted" ELSE "refused",
                                    ![d].used = IF policy.withSize THEN 0 ELSE used]
    /\ UNCHANGED <<policy, creating, row, object, upload, monitor, told, deletion, used, faults,
                   deletions, history>>

(* The signature of the request, by vendor; a failure to check it counts   *)
(* as a bad signature.  OneDrive's tells the watcher instead.              *)
CallbackAuth(d) ==
    /\ Step(d, "admitted", "authentic")
    /\ told' = (told \/ (Is("onedrive") /\ monitor \in {"watching", "grace"}))
    /\ UNCHANGED <<policy, creating, row, cached, object, upload, monitor, deletion, used, faults,
                   deletions, history>>

VerifyCallbackSignatureFails == Is("oss") /\ Fails
CallbackAuthFails(d) ==
    /\ callback[d].at = "admitted" /\ Refused(d)
    /\ VerifyCallbackSignatureFails \/ (policy.kind \in {"remote", "qiniu", "upyun"} /\ Fails)
    /\ UNCHANGED <<policy, creating, row, cached, object, upload, monitor, told, deletion, used,
                   deletions, history>>

(* PreProcess, where the route calls it.  OneDrive deletes what does not   *)
(* fit; COS and S3 leave it.                                               *)
OneDriveSizeFits(n) ==
    n = Size \/ (policy.sharepoint /\ n > Size /\ n - Size <= Tolerance)
OneDrivePreProcess(d) ==
    /\ Is("onedrive") /\ callback[d].at = "authentic"
    /\ callback' = [callback EXCEPT ![d].at = IF object # Nothing /\ OneDriveSizeFits(object.size)
                                              THEN "checked" ELSE "refused"]
    /\ object' = IF object # Nothing /\ ~OneDriveSizeFits(object.size) THEN Nothing ELSE object
MutCOSPreProcess(d) ==
    /\ Is("cos") /\ callback[d].at = "authentic"
    /\ callback' = [callback EXCEPT ![d].at = IF object.size = Size THEN "checked" ELSE "refused"]
    /\ UNCHANGED object
COSPreProcess(d) ==
    /\ Is("cos") /\ callback[d].at = "authentic"
    /\ callback' = [callback EXCEPT ![d].at = IF object.size = Size /\ object.own THEN "checked" ELSE "refused"]
    /\ UNCHANGED object
S3PreProcess(d) ==
    /\ Is("s3") /\ callback[d].at = "authentic"
    /\ callback' = [callback EXCEPT ![d].at = IF object.size = Size THEN "checked" ELSE "refused"]
    /\ UNCHANGED object
NoPreProcess(d) == ByVendor /\ Step(d, "authentic", "checked") /\ UNCHANGED object

PreProcess(d) ==
    /\ OneDrivePreProcess(d) \/ COSPreProcess(d) \/ S3PreProcess(d) \/ NoPreProcess(d)
    /\ UNCHANGED <<policy, creating, row, cached, upload, monitor, told, deletion, used, faults,
                   deletions, history>>

(* ProcessCallback: find the placeholder, charge for it, promote it.       *)
GetFilesByUploadSession(d) ==
    /\ callback[d].at = "checked"
    /\ callback' = [callback EXCEPT ![d].at = IF row.state = "placeholder" THEN "found" ELSE "refused",
                                    ![d].size = row.size]
    /\ UNCHANGED <<policy, creating, row, cached, object, upload, monitor, told, deletion, used,
                   faults, deletions, history>>

(* File.UpdateSize changes the record only where it still has the size     *)
(* that was read, and the user's storage in any case.                      *)
UpdateSize(d) ==
    /\ row' = IF row.state # "none" /\ row.size = callback[d].size THEN [row EXCEPT !.size = Size] ELSE row
    /\ used' = used + Size - callback[d].size
MutHookChunkUploaded(d) ==
    /\ row' = IF row.state # "none" THEN [row EXCEPT !.size = Size] ELSE row
    /\ UNCHANGED used
HookChunkUploaded(d) == UpdateSize(d)

HookDeleteTempFile == object' = Nothing
ChargePlaceholder(d) ==
    /\ callback[d].at = "found"
    /\ \/ /\ policy.withSize
          /\ Step(d, "found", "charged")
          /\ UNCHANGED <<row, used, object, condemned>>
       \/ /\ ~policy.withSize /\ HookValidateCapacity(callback[d].used)
          /\ HookChunkUploaded(d)
          /\ Step(d, "found", "charged")
          /\ UNCHANGED <<object, condemned>>
       \/ /\ ~policy.withSize /\ ~HookValidateCapacity(callback[d].used)
          /\ HookDeleteTempFile /\ condemned' = TRUE
          /\ Refused(d)
          /\ UNCHANGED <<row, used>>
    /\ UNCHANGED <<policy, creating, cached, upload, monitor, told, deletion, faults, deletions, late>>

PopChunkToFile == row' = IF row.state = "none" THEN row ELSE [row EXCEPT !.state = "file"]
HookPopPlaceholderToFile(d) ==
    /\ Step(d, "charged", "done")
    /\ PopChunkToFile
    /\ UNCHANGED <<policy, creating, cached, object, upload, monitor, told, deletion, used, faults,
                   deletions, history>>

-----------------------------------------------------------------------------
(* FileSystem.Delete of the placeholder, by the user or by the collector.  *)
(* Records are read first; the look-up of the session, the cancelling of   *)
(* the token, the deletion of the object and that of the record follow.    *)

BeginDelete ==
    /\ deletion = Resting
    /\ deletion' = [at |-> "listed", size |-> row.size, sessions |-> FALSE]
    /\ condemned' = TRUE
    /\ UNCHANGED <<policy, creating, row, cached, object, upload, callback, monitor, told, used,
                   faults, late>>

UserDeletes ==
    /\ row.state = "placeholder" /\ deletions < MaxDeletions /\ deletions' = deletions + 1
    /\ BeginDelete

MutUploadSessionCollect == row.state = "placeholder" /\ creating = "done" /\ cached /\ BeginDelete /\ UNCHANGED deletions
uploadSessionCollect == row.state = "placeholder" /\ ~cached /\ BeginDelete /\ UNCHANGED deletions

FindSessions ==
    /\ deletion.at = "listed"
    /\ deletion' = [deletion EXCEPT !.at = "cancel", !.sessions = cached]
    /\ UNCHANGED <<policy, creating, row, cached, object, upload, callback, monitor, told, used,
                   faults, deletions, history>>

(* OSS, S3, Qiniu, OneDrive and the slave give the upload up; for COS and  *)
(* Upyun there is nothing to give up.  The slave deletes its file as well. *)
(* An error of the vendor's is logged and ignored.                         *)
Abort == upload' = IF upload \in {"open", "started"} THEN "closed" ELSE upload
ossCancelToken == Is("oss") /\ Abort /\ UNCHANGED object
s3CancelToken == Is("s3") /\ Abort /\ UNCHANGED object
qiniuCancelToken == Is("qiniu") /\ Abort /\ UNCHANGED object
DeleteUploadSession == Abort
onedriveCancelToken == Is("onedrive") /\ DeleteUploadSession /\ UNCHANGED object
SlaveDelete == Abort /\ object' = IF upload = "finished" THEN object ELSE Nothing
remoteCancelToken == Is("remote") /\ SlaveDelete
cosCancelToken == Is("cos") /\ UNCHANGED <<upload, object>>
upyunCancelToken == Is("upyun") /\ UNCHANGED <<upload, object>>
CancelTokenFails == Fails /\ UNCHANGED <<upload, object>>

CancelToken ==
    \/ ossCancelToken \/ s3CancelToken \/ qiniuCancelToken \/ onedriveCancelToken \/ remoteCancelToken
    \/ cosCancelToken \/ upyunCancelToken

CancelUpload ==
    /\ deletion.at = "cancel"
    /\ deletion' = [deletion EXCEPT !.at = "object"]
    /\ IF deletion.sessions
       THEN cached' = FALSE /\ ((CancelToken /\ UNCHANGED faults) \/ CancelTokenFails)
       ELSE UNCHANGED <<cached, upload, object, faults>>
    /\ UNCHANGED <<policy, creating, row, callback, monitor, told, used, deletions, history>>

DeleteObject ==
    /\ deletion.at = "object"
    /\ \/ object' = Nothing /\ deletion' = [deletion EXCEPT !.at = "record"] /\ UNCHANGED faults
       \/ Fails /\ deletion' = Resting /\ UNCHANGED object
    /\ UNCHANGED <<policy, creating, row, cached, upload, callback, monitor, told, used, deletions, history>>

(* DeleteFiles gives up when the record's size is not the one listed.      *)
DirtySize == row.state = "none" \/ row.size # deletion.size
DeleteFiles ==
    /\ deletion.at = "record" /\ deletion' = Resting
    /\ IF DirtySize
       THEN UNCHANGED <<row, used>>
       ELSE row' = NoRow /\ used' = used - deletion.size
    /\ UNCHANGED <<policy, creating, cached, object, upload, callback, monitor, told, faults,
                   deletions, history>>

-----------------------------------------------------------------------------
(* MonitorUpload.  Every round ends with a look at the upload, as the      *)
(* timer of the round is shorter than that of the session.                 *)

MonitorTold ==
    /\ monitor \in {"watching", "grace"} /\ told
    /\ monitor' = "ended" /\ told' = FALSE
    /\ UNCHANGED <<serverVars, policy, object, upload, faults, deletions, history>>

EmptyPlaceholder == object' = Own(0) /\ late' = (late \/ row.state = "none" \/ deletion.at # "none")
(* Not started, or of another size than declared: the upload is taken      *)
(* away and an empty file blocks the path.                                 *)
GiveUp ==
    /\ monitor' = "ended" /\ upload' = "closed" /\ condemned' = TRUE
    /\ EmptyPlaceholder

MutMonitorCheck ==
    /\ monitor = "watching"
    /\ \/ upload \in {"open", "started"} /\ GiveUp
       \/ upload = "finished" /\ monitor' = "grace" /\ UNCHANGED <<upload, object, history>>
    /\ UNCHANGED <<serverVars, policy, told, faults, deletions>>
MonitorCheck ==
    /\ monitor = "watching"
    /\ \/ upload = "open" /\ GiveUp /\ UNCHANGED faults
       \/ upload = "started" /\ GiveUp /\ UNCHANGED faults
       \/ upload = "started" /\ UNCHANGED <<monitor, upload, object, history, faults>>
       \/ upload \in {"finished", "closed"} /\ monitor' = "grace"
          /\ UNCHANGED <<upload, object, history, faults>>
       \/ Fails /\ UNCHANGED <<monitor, upload, object, history>>
    /\ UNCHANGED <<serverVars, policy, told, deletions>>

(* The interval is over and no callback was made.                          *)
MonitorDeletes ==
    /\ monitor = "grace" /\ monitor' = "ended"
    /\ cached' = FALSE /\ condemned' = TRUE
    /\ \/ object' = Nothing /\ UNCHANGED faults
       \/ Fails /\ UNCHANGED object
    /\ UNCHANGED <<policy, creating, row, upload, callback, told, deletion, used, deletions, late>>

-----------------------------------------------------------------------------
CallbackNext ==
    \/ Validate \/ Token \/ TokenFails \/ CacheSession \/ SessionExpires
    \/ \E taken \in BOOLEAN : CreatePlaceholder(taken)
    \/ StartUpload \/ VendorExpires
    \/ \E n \in Sizes : FinishUpload(n)
    \/ \E d \in Deliveries :
         \/ uploadCallbackCheck(d) \/ CallbackAuth(d) \/ CallbackAuthFails(d) \/ PreProcess(d)
         \/ \E active \in BOOLEAN : DropSession(d, active)
         \/ GetFilesByUploadSession(d) \/ ChargePlaceholder(d) \/ HookPopPlaceholderToFile(d)
    \/ UserDeletes \/ uploadSessionCollect
    \/ FindSessions \/ CancelUpload \/ DeleteObject \/ DeleteFiles
    \/ MonitorTold \/ MonitorCheck \/ MonitorDeletes

(* Sessions expire, the collector is run by the schedule, and a request or *)
(* goroutine that has begun goes on.                                       *)
CallbackFairness ==
    /\ WF_callbackVars(CacheSession) /\ WF_callbackVars(SessionExpires) /\ WF_callbackVars(uploadSessionCollect)
    /\ WF_callbackVars(FindSessions) /\ WF_callbackVars(CancelUpload)
    /\ WF_callbackVars(DeleteObject) /\ WF_callbackVars(DeleteFiles)
    /\ WF_callbackVars(VendorExpires) /\ WF_callbackVars(MonitorTold \/ MonitorCheck \/ MonitorDeletes)

CallbackSpec == CallbackInit /\ [][CallbackNext]_callbackVars /\ CallbackFairness

-----------------------------------------------------------------------------
(* The types of the variables.                                             *)
CallbackTypeOK ==
    /\ creating \in {"no", "valid", "token", "placed", "done", "refused"}
    /\ row \in [state : {"none", "placeholder", "file"}, size : {0, Size}]
    /\ cached \in BOOLEAN /\ told \in BOOLEAN
    /\ object \in [size : Sizes \cup {-1, 0}, own : BOOLEAN]
    /\ upload \in {"none", "open", "signed", "started", "finished", "closed"}
    /\ monitor \in {"off", "watching", "grace", "ended"}
    /\ callback \in [Deliveries -> [at : {"none", "got", "admitted", "authentic", "checked", "found", "charged",
                                          "done", "refused"}, size : {0, Size}, used : Int]]
    /\ deletion \in [at : {"none", "listed", "cancel", "object", "record"}, size : {0, Size}, sessions : BOOLEAN]
    /\ used \in Int

(* A file that a callback promoted has the content its client sent in this *)
(* session, of the declared size, unless a deletion, the OneDrive watcher  *)
(* or a second delivery that found the storage full by then had set about  *)
(* the upload: what lay at the path before, or an upload of another size,  *)
(* is never taken for it (ProcessCallback and the PreProcess before it).   *)
(* OSS and Qiniu report the size in a body that nothing compares, so there *)
(* only the origin is certain.                                             *)
PromotedIsUploaded ==
    row.state = "file" /\ ~condemned =>
        /\ object.own
        /\ policy.kind \in {"oss", "qiniu"} \/ OneDriveSizeFits(object.size)

(* The user's storage never falls below what the records add up to, though *)
(* two deliveries of one callback, or a callback and a deletion, work on   *)
(* the same placeholder (UpdateSize and DeleteFiles).                      *)
RecordsCharged == used >= row.size

Quiet == deletion = Resting /\ monitor \in {"off", "ended"} /\ \A d \in Deliveries : callback[d].at \in {"none", "done", "refused"}

(* When nothing is under way and the record is gone, so is the content,    *)
(* unless it came after the deletion (deleteGroupedFile: a record goes     *)
(* only after its object).                                                 *)
NothingLeftBehind == Quiet /\ row.state = "none" /\ object.own => late

(* Every placeholder is at last promoted or collected: the collector finds *)
(* it when its session has expired or was dropped by a callback that then  *)
(* failed (uploadCallbackCheck, uploadSessionCollect).                     *)
PlaceholderResolved == (row.state = "placeholder") ~> (row.state # "placeholder")

(* The goroutine that watches an upload to OneDrive ends.                  *)
MonitorEnds == (monitor = "watching") ~> (monitor = "ended")

(* What callbacks, deletions and the collector keep together: the account  *)
(* covers the records, and no content stays without one (ProcessCallback,  *)
(* FileSystem.Delete).                                                     *)
CallbackInv == CallbackTypeOK /\ RecordsCharged /\ NothingLeftBehind
=============================================================================
