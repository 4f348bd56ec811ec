---------------------------- MODULE StreamUpload ----------------------------
(***************************************************************************)
(* Uploads that stream a whole file in one request, and the WebDAV         *)
(* requests on files that run next to them.                                *)
(*                                                                         *)
(* Four handlers stream a file: the PUT of WebDAV (new or existing file),  *)
(* PutContent (the text editor, existing file), Create (an empty file) and *)
(* UploadFromStream (background tasks, new file).  Each registers hooks    *)
(* and calls FileSystem.Upload: the hooks BeforeUpload, the driver's Put,  *)
(* with the goroutine CancelUpload watching the request, and then the type *)
(* assertion on file.Model, which no handler of this module has set: the   *)
(* request panics, so the hooks AfterUpload never run.                     *)
(*                                                                         *)
(* Storage is the local driver.  A content is known by its length; the     *)
(* content that a request generates a new path for is named by the request.*)
(* DELETE, MOVE and COPY are the file operations of FileTree in one step   *)
(* each (MOVE in two: Move and then Rename).                               *)
(***************************************************************************)
EXTENDS Integers, FiniteSets, Sizes

CONSTANTS
    Files,      \* identifiers of file rows
    Requests,   \* identifiers of requests
    Folders, Names,
    MaxLength,  \* the longest upload
    MaxStorage  \* the capacity of the user's group

ASSUME StreamAssumption ==
    /\ IsFiniteSet(Files) /\ IsFiniteSet(Requests) /\ Files \cap Requests = {}
    /\ MaxLength \in Nat /\ MaxStorage \in Nat
ASSUME NoSourceIsNoKey == "" \notin Files \cup Requests
ASSUME RoomForTwo ==
    (\E f, g \in Files : f # g) /\ \E p, q \in Folders \X Names : p # q

VARIABLES
    file,    \* rows: path, source_name and size
    disk,    \* length of each stored content, or Absent
    used,    \* the user's storage column
    req,     \* the requests
    stale    \* history: an UpdateSize met another size than its snapshot's

streamVars == <<file, disk, used, req, stale>>

Paths == Folders \X Names
Lengths == 0 .. MaxLength
Contents == Files \cup Requests
Absent == -1
NoFile == [at |-> <<>>, src |-> "", size |-> 0]
NoReq == [pc |-> "idle", kind |-> "none", at |-> <<>>, to |-> <<>>, id |-> {}, size |-> 0,
          snap |-> NoFile, seen |-> 0, src |-> "", attached |-> FALSE, linked |-> FALSE,
          late |-> {}, gone |-> FALSE, watch |-> "none"]

Exists(f) == file[f] # NoFile
At(p) == {f \in Files : file[f].at = p}
Sharing(s) == {f \in Files : file[f].src = s}

(* The types of the variables.                                             *)
StreamTypeOK ==
    /\ \A f \in Files : Exists(f) =>
        /\ file[f].at \in Paths /\ file[f].src \in Contents /\ file[f].size \in Lengths
        /\ At(file[f].at) = {f}
    /\ disk \in [Contents -> Lengths \cup {Absent}]
    /\ used \in Int /\ stale \in BOOLEAN
    /\ DOMAIN req = Requests
    /\ \A r \in Requests :
        /\ req[r].pc \in {"idle", "before", "put", "writing", "stored", "move", "rename",
                          "panicked", "ended"}
        /\ req[r].watch \in {"none", "watching", "delete", "source", "clean", "size", "ended"}

(* A folder with one file, or with a file and a copy of it: a copy shares  *)
(* its content (a soft link).  Which row and path they have is all one.    *)
StreamInit ==
    \E copies \in BOOLEAN :
        LET n == MaxLength
            f == CHOOSE f \in Files : TRUE
            g == CHOOSE g \in Files : g # f
            p == CHOOSE p \in Paths : TRUE
            q == CHOOSE q \in Paths : q # p
        IN  /\ file = [x \in Files |->
                CASE x = f -> [at |-> p, src |-> f, size |-> n]
                  [] x = g /\ copies -> [at |-> q, src |-> f, size |-> n]
                  [] OTHER -> NoFile]
            /\ disk = [c \in Contents |-> IF c = f THEN n ELSE Absent]
            /\ used = IF copies THEN 2 * n ELSE n
            /\ req = [r \in Requests |-> NoReq]
            /\ stale = FALSE

-----------------------------------------------------------------------------
(* The start of a request: the row it is about and the hooks it registers. *)

(* RemoveFilesWithSoftLinks: the content of f has another row.             *)
HasSoftLinkNever(f) == FALSE

HasSoftLink(f) == Sharing(file[f].src) \ {f} # {}

(* A new file: its content goes to a path of its own.  The name it asks    *)
(* for would be used by the hooks AfterUpload, which never run.            *)
NewFile(r, k, n) ==
    [NoReq EXCEPT !.pc = "before", !.kind = k, !.size = n, !.seen = used, !.src = r]

(* An existing file: overwritten in place, or, when its content is shared, *)
(* written to a new path.                                                  *)
UpdateOf(r, k, f, n) ==
    [NewFile(r, k, n) EXCEPT
        !.id = {f}, !.snap = file[f], !.linked = HasSoftLink(f),
        !.src = IF HasSoftLink(f) THEN r ELSE file[f].src]

Starts(r, q) ==
    /\ req[r].pc = "idle" /\ req' = [req EXCEPT ![r] = q]
    /\ UNCHANGED <<file, disk, used, stale>>

handlePut(r, p, n) ==
    Starts(r, IF At(p) = {} THEN NewFile(r, "put", n)
              ELSE UpdateOf(r, "put", CHOOSE f \in At(p) : TRUE, n))

PutContent(r, f, n) == Exists(f) /\ Starts(r, UpdateOf(r, "content", f, n))

Create(r) == Starts(r, NewFile(r, "create", 0))

UploadFromStream(r, n) == Starts(r, NewFile(r, "stream", n))

-----------------------------------------------------------------------------
(* FileSystem.Upload.                                                      *)

Over(q) == q.pc \in {"panicked", "ended"}

(* What is left of a request when its handler and its watcher have ended.  *)
Rest(q) ==
    IF Over(q) /\ q.watch \in {"none", "ended"}
    THEN [NoReq EXCEPT !.pc = q.pc, !.watch = q.watch] ELSE q

Becomes(r, q) == req' = [req EXCEPT ![r] = Rest(q)]

Ends(r) == Becomes(r, [req[r] EXCEPT !.pc = "ended"])

(* HookValidateFile and HookResetPolicy may refuse any upload; the quota   *)
(* is checked against the storage the request's user was loaded with.      *)
HookValidateCapacity(q) == q.size <= MaxStorage - q.seen

HookValidateCapacityDiff(q) == q.size > q.snap.size => HookValidateCapacity(q)

HasRoom(q) ==
    CASE q.kind = "create" -> TRUE
      [] q.id = {} -> HookValidateCapacity(q)
      [] OTHER -> HookValidateCapacityDiff(q)

Refused(r) ==
    /\ req[r].pc = "before" /\ Ends(r)
    /\ UNCHANGED <<file, disk, used, stale>>

(* The requests whose context CancelUpload can see.                        *)
Watched(q) == q.kind \in {"put", "content"}

Upload(r) ==
    /\ req[r].pc = "before" /\ HasRoom(req[r])
    /\ req' = [req EXCEPT ![r].pc = "put", ![r].kind = "none", ![r].seen = 0,
                          ![r].watch = IF Watched(req[r]) THEN "watching" ELSE "none"]
    /\ UNCHANGED <<file, disk, used, stale>>

(* Put opens the file with O_CREATE and O_TRUNC.                           *)
PutOpens(r) ==
    /\ req[r].pc = "put"
    /\ disk' = [disk EXCEPT ![req[r].src] = 0]
    /\ req' = [req EXCEPT ![r].pc = "writing", ![r].attached = TRUE]
    /\ UNCHANGED <<file, used, stale>>

PutRefused(r) ==
    /\ req[r].pc = "put" /\ Ends(r)
    /\ UNCHANGED <<file, disk, used, stale>>

(* What is written to a file that was unlinked since it was opened is lost.*)
Written(r, n) == disk' = IF req[r].attached THEN [disk EXCEPT ![req[r].src] = n] ELSE disk

PutDone(r) ==
    /\ req[r].pc = "writing" /\ Written(r, req[r].size)
    /\ req' = [req EXCEPT ![r].pc = "stored"]
    /\ UNCHANGED <<file, used, stale>>

(* The body breaks off: the part that arrived stays, and no handler of     *)
(* this module registers a hook AfterUploadFailed.                         *)
PutBreaks(r, n) ==
    /\ req[r].pc = "writing" /\ n <= req[r].size /\ Written(r, n) /\ Ends(r)
    /\ UNCHANGED <<file, used, stale>>

(* file.Model is unset: the type assertion panics, before the MD5 is saved *)
(* and before the hooks AfterUpload; gin or the worker recovers.           *)
UpdateMD5(r) ==
    /\ req[r].pc = "stored" /\ Becomes(r, [req[r] EXCEPT !.pc = "panicked"])
    /\ UNCHANGED <<file, disk, used, stale>>

-----------------------------------------------------------------------------
(* CancelUpload: the goroutine that waits for the request's context.       *)

(* The connection is closed while the upload is running.                   *)
ClientGone(r) ==
    /\ req[r].pc \in {"put", "writing", "stored"} /\ req[r].watch = "watching" /\ ~req[r].gone
    /\ req' = [req EXCEPT ![r].gone = TRUE]
    /\ UNCHANGED <<file, disk, used, stale>>

(* The first hook the handler registered for a cancelled upload.           *)
AfterUploadCanceled(q) ==
    CASE Over(q) -> "ended"
      [] ~Over(q) /\ q.id = {} -> "delete"
      [] ~Over(q) /\ q.id # {} /\ q.linked -> "source"
      [] ~Over(q) /\ q.id # {} /\ ~q.linked -> "clean"

(* The handler's deferred cancel closes ctx before the request's context   *)
(* ends, so the hooks run only if the connection was closed earlier.       *)
CancelUpload(r) ==
    /\ req[r].watch = "watching" /\ (req[r].gone \/ Over(req[r]))
    /\ Becomes(r, [req[r] EXCEPT !.watch = AfterUploadCanceled(req[r])])
    /\ UNCHANGED <<file, disk, used, stale>>

Unlink(S, then) ==
    /\ disk' = [c \in Contents |-> IF c \in S THEN Absent ELSE disk[c]]
    /\ req' = [r \in Requests |->
                [then[r] EXCEPT !.attached = @ /\ then[r].src \notin S]]

Watch(r, w) == [req EXCEPT ![r] = Rest([@ EXCEPT !.watch = w])]

HookDeleteTempFile(r) ==
    /\ req[r].watch = "delete" /\ Unlink({req[r].src}, Watch(r, "ended"))
    /\ UNCHANGED <<file, used, stale>>

HookUpdateSourceName(r) ==
    /\ req[r].watch = "source" /\ req' = Watch(r, "clean")
    /\ file' = [f \in Files |-> IF f \in req[r].id /\ Exists(f)
                                THEN [file[f] EXCEPT !.src = req[r].src] ELSE file[f]]
    /\ UNCHANGED <<disk, used, stale>>

HookCleanFileContentDeletes(r) ==
    /\ req[r].watch = "clean" /\ Unlink({req[r].src}, Watch(r, "size"))
    /\ UNCHANGED <<file, used, stale>>

HookCleanFileContent(r) ==
    /\ req[r].watch = "clean" /\ req' = Watch(r, "size")
    /\ disk' = [disk EXCEPT ![req[r].src] = 0]
    /\ UNCHANGED <<file, used, stale>>

(* File.UpdateSize(0) on the snapshot: the row changes only if it still    *)
(* has the snapshot's size, the storage column always does.                *)
UpdateSize(f, snap) ==
    LET same == {g \in {f} : Exists(g) /\ file[g].size = snap.size}
    IN  /\ file' = [g \in Files |-> IF g \in same THEN [file[g] EXCEPT !.size = 0] ELSE file[g]]
        /\ used' = used - snap.size
        /\ stale' = (stale \/ same = {})

(* The last hook, HookCancelContext, closes a context nothing waits for.   *)
HookClearFileSize(r) ==
    /\ req[r].watch = "size" /\ req' = Watch(r, "ended")
    /\ UpdateSize(CHOOSE f \in req[r].id : TRUE, req[r].snap)
    /\ UNCHANGED disk

-----------------------------------------------------------------------------
(* The other requests of WebDAV on files.                                  *)

DeletesContent(f) == Sharing(file[f].src) = {f}

handleDelete(r, p) ==
    /\ req[r].pc = "idle"
    /\ \E f \in At(p) :
        /\ file' = [file EXCEPT ![f] = NoFile] /\ used' = used - file[f].size
        /\ Unlink(IF DeletesContent(f) THEN {file[f].src} ELSE {},
                  [req EXCEPT ![r].pc = "ended"])
    /\ UNCHANGED stale

(* handleCopyMove of a file that exists to another path.                   *)
handleMove(r, p, q) ==
    /\ p # q /\ At(p) # {}
    /\ Starts(r, [NoReq EXCEPT !.pc = "move", !.kind = "move", !.at = p, !.to = q, !.id = At(p)])

(* moveFiles: Move if the folder differs, then Rename if the name does.    *)
(* The unique index refuses a path that is taken; a row that is gone is    *)
(* not updated.                                                            *)
Relocate(r, f, p, pc) ==
    \/ /\ At(p) = {} /\ Exists(f)
       /\ file' = [file EXCEPT ![f].at = p] /\ Becomes(r, [req[r] EXCEPT !.pc = pc])
    \/ At(p) # {} /\ At(p) # {f} /\ Ends(r) /\ UNCHANGED file
    \/ (~Exists(f) \/ At(p) = {f}) /\ Becomes(r, [req[r] EXCEPT !.pc = pc]) /\ UNCHANGED file

moveFiles(r) ==
    /\ \E f \in req[r].id :
        \/ /\ req[r].pc = "move" /\ req[r].at[1] # req[r].to[1]
           /\ Relocate(r, f, <<req[r].to[1], req[r].at[2]>>, "rename")
        \/ /\ req[r].pc = "move" /\ req[r].at[1] = req[r].to[1]
           /\ req' = [req EXCEPT ![r].pc = "rename"] /\ UNCHANGED file
        \/ /\ req[r].pc = "rename" /\ req[r].at[2] # req[r].to[2]
           /\ IF Exists(f) THEN Relocate(r, f, <<file[f].at[1], req[r].to[2]>>, "ended")
              ELSE Ends(r) /\ UNCHANGED file
        \/ req[r].pc = "rename" /\ req[r].at[2] = req[r].to[2] /\ Ends(r) /\ UNCHANGED file
    /\ UNCHANGED <<disk, used, stale>>

(* copyFiles: FileSystem.Copy to the folder of the destination, under the  *)
(* file's own name; the new row shares the content.                        *)
copyFiles(r, p, d) ==
    /\ req[r].pc = "idle" /\ At(<<d, p[2]>>) = {}
    /\ \E f \in At(p), g \in Files :
        /\ ~Exists(g)
        /\ file' = [file EXCEPT ![g] = [file[f] EXCEPT !.at = <<d, p[2]>>]]
        /\ used' = used + file[f].size
        /\ req' = [x \in Requests |->
                    IF x = r THEN [req[r] EXCEPT !.pc = "ended"]
                    ELSE IF req[x].src = file[f].src THEN [req[x] EXCEPT !.late = @ \cup {g}]
                    ELSE req[x]]
    /\ UNCHANGED <<disk, stale>>

-----------------------------------------------------------------------------
WatcherStep(r) ==
    CancelUpload(r) \/ HookDeleteTempFile(r) \/ HookUpdateSourceName(r)
    \/ HookCleanFileContent(r) \/ HookClearFileSize(r)

HandlerStep(r) ==
    Refused(r) \/ Upload(r) \/ PutOpens(r) \/ PutRefused(r) \/ PutDone(r) \/ UpdateMD5(r)
    \/ moveFiles(r) \/ \E n \in Lengths : PutBreaks(r, n)

Begin(r) ==
    \/ Create(r)
    \/ \E p \in Paths : handleDelete(r, p)
    \/ \E p, q \in Paths : handleMove(r, p, q)
    \/ \E p \in Paths, d \in Folders : copyFiles(r, p, d)
    \/ \E n \in Lengths : \/ UploadFromStream(r, n)
                          \/ \E p \in Paths : handlePut(r, p, n)
                          \/ \E f \in Files : PutContent(r, f, n)

StreamNext == \E r \in Requests : Begin(r) \/ HandlerStep(r) \/ WatcherStep(r) \/ ClientGone(r)

StreamSpec == StreamInit /\ [][StreamNext]_streamVars

-----------------------------------------------------------------------------
(* Cancelled uploads, copies, moves and deletions in any order keep the    *)
(* storage column equal to the sizes of the rows, as long as no UpdateSize *)
(* works from a size that changed since its request looked the file up     *)
(* (HookClearFileSize, File.UpdateSize).                                   *)
StorageFollowsRows ==
    ~stale => used = Sum([f \in Files |-> file[f].size], Files)

(* A row's content exists, whatever was cancelled: only a cancelled update *)
(* of a shared content points the row to its new path a step before the    *)
(* content is created there, and a copy of the row made between the two is *)
(* pointed there too (HookUpdateSourceName, HookCleanFileContent).         *)
ContentKept ==
    \A f \in Files : Exists(f) /\ disk[file[f].src] = Absent =>
        \E r \in Requests : /\ f \in req[r].id \cup req[r].late
                           /\ req[r].watch = "clean" /\ req[r].src = file[f].src

(* An upload to one file never changes the content of another, unless the  *)
(* other is a copy made after the upload looked for soft links             *)
(* (RemoveFilesWithSoftLinks in handlePut and PutContent).                 *)
OtherContentKept ==
    [][\A f \in Files :
        Exists(f) /\ file'[f] = file[f] /\ disk'[file[f].src] # disk[file[f].src] =>
            \E r \in Requests : req[r].src = file[f].src /\ f \in req[r].id \cup req[r].late]_streamVars

(* What the tests of Upload expect: an upload whose content was stored     *)
(* returns to its handler (upload_test.go asserts NoError).                *)
StoredUploadReturns == \A r \in Requests : req[r].pc # "panicked"

(* What uploads that break off anywhere and the requests beside them keep  *)
(* together: the account and the content of every row (Upload, its hooks). *)
StreamInv == StreamTypeOK /\ StorageFollowsRows /\ ContentKept
=============================================================================
