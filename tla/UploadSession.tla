--------------------------- MODULE UploadSession ---------------------------
(***************************************************************************)
(* Chunked upload to the local storage policy: the upload sessions one     *)
(* user opens, the chunk requests that fill them, the requests that delete *)
(* files and the cron job that collects expired sessions.                  *)
(*                                                                         *)
(* Shared state is what the handlers share in the program: the `users` row *)
(* (only its used storage), the `files` rows, the physical files and the   *)
(* session cache.  A handler runs as a sequence of actions, one for each   *)
(* access it makes to that state, so that everything it read earlier may   *)
(* be stale when it is used.  A transaction is one action; so are the stat *)
(* and truncate of an opened file, and the digest of a file and its save.  *)
(*                                                                         *)
(* Sizes count abstract units; a physical file is the sequence of its      *)
(* units, each tagged with the index of the chunk it came from.            *)
(***************************************************************************)
EXTENDS Integers, Sequences, FiniteSets, Sizes

CONSTANTS
    Sessions,       \* upload sessions (fresh UUIDs); each has its own SavePath
    NameOf,         \* NameOf[s]: the name of the file that s uploads
    Total,          \* Total[s]: the size the client announced for s
    Requests,       \* slots for concurrent chunk requests
    Deleters,       \* slots for concurrent runs of FileSystem.Delete
    ChunkSize,      \* policy option; 0 means that files are not split
    MaxStorage,     \* the quota of the user's group
    MaxIndex,       \* bound: the largest chunk index a client sends
    MaxArrivals,    \* bound: chunk requests in a behaviour
    MaxPerSession,  \* environment: chunk requests of one session at a time
    MaxFaults,      \* bound: failures of the database, the disk or the cache
    MaxCrashes,     \* bound: restarts of the server
    Disconnects,    \* environment: clients may close the connection
    DeleteWhileUploading \* environment: deletes may overlap chunk requests

ASSUME SizesAreNat ==
    /\ Total \in [Sessions -> Nat]
    /\ ChunkSize \in Nat
    /\ MaxStorage \in Nat
    /\ MaxIndex \in Nat
ASSUME SessionsFinite == IsFiniteSet(Sessions) /\ IsFiniteSet(Requests)
ASSUME BoundsAreNat ==
    {MaxArrivals, MaxPerSession, MaxFaults, MaxCrashes} \subseteq Nat
ASSUME EnvironmentFlags == {Disconnects, DeleteWhileUploading} \subseteq BOOLEAN

VARIABLES
    storage,    \* users.storage
    row,        \* row[s]: the files record of s
    phys,       \* phys[s]: the physical file at the SavePath of s
    cache,      \* sessions whose "callback_<key>" entry is in the cache
    expired,    \* history: sessions whose entry was lost to its TTL or a restart
    creating,   \* creating[s]: progress of CreateUploadSession
    req,        \* req[r]: a chunk request and its CancelUpload goroutine
    del,        \* del[d]: a run of FileSystem.Delete
    lost,       \* history: what UpdateSize charged without changing a record
    arrivals, faults, crashes

db   == <<storage, row, lost>>
env  == <<arrivals, faults, crashes>>
vars == <<storage, row, phys, cache, expired, creating, req, del, lost,
          arrivals, faults, crashes>>

----------------------------------------------------------------------------
(* Records, files and sizes *)

NoSession == "none"
Hole == -1                \* a unit written by extending a file with zeros
NoDigest == <<-2>>        \* the md5 column before it is first set

\* A files record: `pending` is "upload_session_id is not NULL".
NoRow == [exists |-> FALSE, pending |-> FALSE, size |-> 0, md5 |-> NoDigest]
NoFile == [exists |-> FALSE, data |-> <<>>]

\* What each session's record adds to the storage its user occupies.
RecordedSize(rw) == [s \in Sessions |-> IF rw[s].exists THEN rw[s].size ELSE 0]

Placeholders == {s \in Sessions : row[s].exists /\ row[s].pending}

\* processChunkUpload: which chunk is the last one, and how long a chunk is.
AppendStart(i) == ChunkSize * i
IsLastChunk(s, i) == ChunkSize = 0 \/ (i + 1) * ChunkSize >= Total[s]
ChunkLength(s, i) ==
    IF IsLastChunk(s, i) THEN Total[s] - AppendStart(i) ELSE ChunkSize

\* Mutant: a chunk sent again is appended to what is already there.
MutTruncateNothing(data, n) == data

\* os.File.Truncate: cuts the file, or extends it with zeros.
TruncateTo(data, n) == [k \in 1 .. n |-> IF k <= Len(data) THEN data[k] ELSE Hole]

\* User.GetRemainingCapacity on a user record read when storage was `used`.
RemainingCapacity(used) == IF MaxStorage <= used THEN 0 ELSE MaxStorage - used

IdleRequest == [pc |-> "idle", s |-> NoSession, idx |-> 0, size |-> 0, used |-> 0,
                linked |-> FALSE, written |-> 0, gone |-> FALSE, cancel |-> "off"]
IdleDeleter == [pc |-> "idle", cron |-> FALSE, todo |-> {}, targets |-> {},
                size |-> [s \in Sessions |-> 0], pend |-> {}]

Active(s) == {r \in Requests : req[r].pc # "idle" /\ req[r].s = s}
Deleting(s) == \E d \in Deleters : s \in del[d].targets

Init ==
    /\ storage = 0
    /\ row = [s \in Sessions |-> NoRow]
    /\ phys = [s \in Sessions |-> NoFile]
    /\ cache = {}
    /\ expired = {}
    /\ creating = [s \in Sessions |-> "fresh"]
    /\ req = [r \in Requests |-> IdleRequest]
    /\ del = [d \in Deleters |-> IdleDeleter]
    /\ lost = 0
    /\ arrivals = 0 /\ faults = 0 /\ crashes = 0

----------------------------------------------------------------------------
(* FileSystem.CreateUploadSession *)

\* The first Upload runs the validation hooks on the user record of the
\* request; Token refuses a SavePath that is taken.
CreateValidate(s) ==
    /\ creating[s] = "fresh"
    /\ Total[s] <= RemainingCapacity(storage)
    /\ ~phys[s].exists
    /\ creating' = [creating EXCEPT ![s] = "validated"]
    /\ UNCHANGED <<db, phys, cache, expired, req, del, env>>

\* The second Upload: GenericAfterUpload refuses a name that is taken (so does
\* the unique index of the table), AddFile inserts the placeholder, of size 0
\* because of HookClearFileHeaderSize.
CreatePlaceholder(s) ==
    /\ creating[s] = "validated"
    /\ \/ /\ \E t \in Sessions : row[t].exists /\ NameOf[t] = NameOf[s]
          /\ creating' = [creating EXCEPT ![s] = "done"]
          /\ UNCHANGED <<row, faults>>
       \/ /\ faults < MaxFaults /\ faults' = faults + 1
          /\ creating' = [creating EXCEPT ![s] = "done"]
          /\ UNCHANGED row
       \/ /\ \A t \in Sessions : row[t].exists => NameOf[t] # NameOf[s]
          /\ creating' = [creating EXCEPT ![s] = "inserted"]
          /\ row' = [row EXCEPT ![s] =
                [exists |-> TRUE, pending |-> TRUE, size |-> 0, md5 |-> NoDigest]]
          /\ UNCHANGED faults
    /\ UNCHANGED <<storage, lost, phys, cache, expired, req, del, arrivals, crashes>>

\* cache.Set of the session.  An error leaves the placeholder behind.
CreateSession(s) ==
    /\ creating[s] = "inserted"
    /\ creating' = [creating EXCEPT ![s] = "done"]
    /\ \/ cache' = cache \cup {s} /\ UNCHANGED faults
       \/ faults < MaxFaults /\ faults' = faults + 1 /\ UNCHANGED cache
    /\ UNCHANGED <<db, phys, expired, req, del, arrivals, crashes>>

----------------------------------------------------------------------------
(* UploadService.LocalUpload, processChunkUpload, FileSystem.Upload *)

\* The handler returns: its context is done, so a CancelUpload goroutine that
\* has not yet decided to act never will.
Return(r) ==
    [req[r] EXCEPT !.pc = "idle", !.linked = FALSE,
                   !.cancel = IF @ = "truncate" THEN @ ELSE "off"]

\* CurrentUser reads the user, LocalUpload finds the session in the cache.
ReceiveChunk(r, s, i) ==
    /\ req[r].pc = "idle" /\ req[r].cancel = "off"
    /\ arrivals < MaxArrivals
    /\ Cardinality(Active(s)) < MaxPerSession
    /\ DeleteWhileUploading \/ ~Deleting(s)
    /\ s \in cache
    /\ req' = [req EXCEPT ![r] =
          [IdleRequest EXCEPT !.pc = "lookup", !.s = s, !.idx = i, !.used = storage]]
    /\ arrivals' = arrivals + 1
    /\ UNCHANGED <<db, phys, cache, expired, creating, del, faults, crashes>>

\* GetFilesByUploadSession reads the placeholder; LocalUpload checks the order
\* of chunks; HookValidateCapacity checks the quota on what CurrentUser read;
\* Upload starts the CancelUpload goroutine.  (The Content-Length check only
\* admits bodies of ChunkLength.)
LookupPlaceholder(r) ==
    LET s == req[r].s
        i == req[r].idx
    IN  /\ req[r].pc = "lookup"
        /\ req' = [req EXCEPT ![r] =
              IF /\ s \in Placeholders
                 /\ ChunkSize = 0 => i = 0
                 /\ row[s].size >= AppendStart(i)
                 /\ RemainingCapacity(@.used) >= ChunkLength(s, i)
              THEN [@ EXCEPT !.pc = "exists", !.size = row[s].size, !.cancel = "armed"]
              ELSE Return(r)]
        /\ UNCHANGED <<db, phys, cache, expired, creating, del, env>>

\* local Driver.Put: without Overwrite (the first chunk) the file must not exist.
PutCheckExists(r) ==
    /\ req[r].pc = "exists"
    /\ req' = [req EXCEPT ![r] =
          IF @.idx = 0 /\ phys[@.s].exists THEN Return(r) ELSE [@ EXCEPT !.pc = "open"]]
    /\ UNCHANGED <<db, phys, cache, expired, creating, del, env>>

\* Put opens the file with O_CREATE|O_APPEND, fails if it is shorter than the
\* chunk's start (a file it created stays) and truncates it if it is longer.
PutOpen(r) ==
    LET s == req[r].s
        start == AppendStart(req[r].idx)
    IN  /\ req[r].pc = "open"
        /\ \/ /\ Len(phys[s].data) < start
              /\ phys' = [phys EXCEPT ![s].exists = TRUE]
              /\ req' = [req EXCEPT ![r] = Return(r)]
           \/ /\ Len(phys[s].data) >= start
              /\ phys' = [phys EXCEPT ![s] =
                    [exists |-> TRUE, data |-> TruncateTo(@.data, start)]]
              /\ req' = [req EXCEPT ![r].pc = "write", ![r].linked = TRUE]
        /\ UNCHANGED <<db, cache, expired, creating, del, env>>

\* io.Copy appends the body, a unit at a time.  A file deleted since it was
\* opened swallows the data.
PutWrite(r) ==
    LET s == req[r].s
        i == req[r].idx
    IN  /\ req[r].pc = "write"
        /\ req[r].written < ChunkLength(s, i)
        /\ req' = [req EXCEPT ![r].written = @ + 1]
        /\ phys' = IF req[r].linked
                   THEN [phys EXCEPT ![s].data = Append(@, i)]
                   ELSE phys
        /\ UNCHANGED <<db, cache, expired, creating, del, env>>

\* The client closed the connection: io.Copy fails, Upload returns the error
\* (no AfterUploadFailed hook is installed).
PutBroken(r) ==
    /\ req[r].pc = "write"
    /\ req[r].gone
    /\ req[r].written < ChunkLength(req[r].s, req[r].idx)
    /\ req' = [req EXCEPT ![r] = Return(r)]
    /\ UNCHANGED <<db, phys, cache, expired, creating, del, env>>

\* generateFileMD5 and File.UpdateMD5: the digest of the whole file as it now
\* is.  A missing file or record, or an error of the database, is only logged.
UpdateMD5(r) ==
    LET s == req[r].s
    IN  /\ req[r].pc = "write"
        /\ req[r].written = ChunkLength(s, req[r].idx)
        /\ \/ /\ row' = IF phys[s].exists /\ row[s].exists
                        THEN [row EXCEPT ![s].md5 = phys[s].data]
                        ELSE row
              /\ UNCHANGED faults
           \/ /\ faults < MaxFaults /\ faults' = faults + 1
              /\ UNCHANGED row
        /\ req' = [req EXCEPT ![r].pc = "sized"]
        /\ UNCHANGED <<storage, lost, phys, cache, expired, creating, del, arrivals, crashes>>

\* Mutant: the user is charged for the whole size instead of the difference.
MutUpdateSizeChargesAll(s, read, value) ==
    /\ storage' = storage + value
    /\ row' = IF row[s].exists THEN [row EXCEPT ![s].size = value] ELSE row
    /\ UNCHANGED lost

\* Mutant: the announced size of the file instead of what has been uploaded.
MutUpdateSizeAnnounced(s, read, value) ==
    /\ storage' = storage + (Total[s] - read)
    /\ row' = IF row[s].exists /\ row[s].size = read THEN [row EXCEPT ![s].size = Total[s]] ELSE row
    /\ UNCHANGED lost

\* File.UpdateSize(value) on a record read when its size was `read`: the update
\* matches only a record that still has that size, the change of the user's
\* storage is made all the same.
UpdateSize(s, read, value) ==
    /\ storage' = storage + (value - read)
    /\ \/ /\ row[s].exists /\ row[s].size = read
          /\ row' = [row EXCEPT ![s].size = value]
          /\ UNCHANGED lost
       \/ /\ ~(row[s].exists /\ row[s].size = read)
          /\ lost' = lost + (value - read)
          /\ UNCHANGED row

\* AfterUpload: HookChunkUploaded.  When the transaction fails it is rolled
\* back; whether the ORM has already assigned the new size to the record in
\* memory is left open.
HookChunkUploaded(r) ==
    LET s == req[r].s
        value == AppendStart(req[r].idx) + ChunkLength(s, req[r].idx)
    IN  /\ req[r].pc = "sized"
        /\ \/ /\ UpdateSize(s, req[r].size, value)
              /\ req' = [req EXCEPT ![r] =
                    IF IsLastChunk(s, @.idx)
                    THEN [@ EXCEPT !.pc = "pop", !.size = value]
                    ELSE Return(r)]
              /\ UNCHANGED faults
           \/ /\ faults < MaxFaults /\ faults' = faults + 1
              /\ \E memory \in {req[r].size, value} :
                    req' = [req EXCEPT ![r].pc = "undo", ![r].size = memory]
              /\ UNCHANGED db
        /\ UNCHANGED <<phys, cache, expired, creating, del, arrivals, crashes>>

\* AfterUpload of the last chunk: HookPopPlaceholderToFile (by record ID).
HookPopPlaceholderToFile(r) ==
    LET s == req[r].s
    IN  /\ req[r].pc = "pop"
        /\ \/ /\ row' = IF row[s].exists THEN [row EXCEPT ![s].pending = FALSE] ELSE row
              /\ req' = [req EXCEPT ![r].pc = "forget"]
              /\ UNCHANGED faults
           \/ /\ faults < MaxFaults /\ faults' = faults + 1
              /\ req' = [req EXCEPT ![r].pc = "undo"]
              /\ UNCHANGED row
        /\ UNCHANGED <<storage, lost, phys, cache, expired, creating, del, arrivals, crashes>>

\* AfterUpload of the last chunk: HookDeleteUploadSession.
HookDeleteUploadSession(r) ==
    /\ req[r].pc = "forget"
    /\ cache' = cache \ {req[r].s}
    /\ req' = [req EXCEPT ![r] = Return(r)]
    /\ UNCHANGED <<db, phys, expired, creating, del, env>>

\* AfterValidateFailed: HookTruncateFileTo; an error (no such file) ends the
\* chain of hooks.
HookTruncateFile(r) ==
    LET s == req[r].s
    IN  /\ req[r].pc = "undo"
        /\ \/ /\ phys[s].exists
              /\ phys' = [phys EXCEPT ![s].data = TruncateTo(@, AppendStart(req[r].idx))]
              /\ req' = [req EXCEPT ![r].pc = "undosize"]
           \/ /\ ~phys[s].exists
              /\ req' = [req EXCEPT ![r] = Return(r)]
              /\ UNCHANGED phys
        /\ UNCHANGED <<db, cache, expired, creating, del, env>>

\* AfterValidateFailed: HookChunkUploadFailed, itself a transaction that may fail.
HookChunkUploadFailed(r) ==
    /\ req[r].pc = "undosize"
    /\ \/ /\ UpdateSize(req[r].s, req[r].size, AppendStart(req[r].idx))
          /\ UNCHANGED faults
       \/ /\ faults < MaxFaults /\ faults' = faults + 1
          /\ UNCHANGED db
    /\ req' = [req EXCEPT ![r] = Return(r)]
    /\ UNCHANGED <<phys, cache, expired, creating, del, arrivals, crashes>>

----------------------------------------------------------------------------
(* FileSystem.CancelUpload, the goroutine that watches the connection *)

ClientGone(r) ==
    /\ Disconnects
    /\ req[r].pc # "idle" /\ ~req[r].gone
    /\ req' = [req EXCEPT ![r].gone = TRUE]
    /\ UNCHANGED <<db, phys, cache, expired, creating, del, env>>

\* The request context is done and the handler's own is not.
CancelUploadDecide(r) ==
    /\ req[r].pc # "idle" /\ req[r].gone /\ req[r].cancel = "armed"
    /\ req' = [req EXCEPT ![r].cancel = "truncate"]
    /\ UNCHANGED <<db, phys, cache, expired, creating, del, env>>

\* AfterUploadCanceled: HookTruncateFileTo, possibly long after the decision.
CancelUploadTruncate(r) ==
    LET s == req[r].s
    IN  /\ req[r].cancel = "truncate"
        /\ phys' = IF phys[s].exists
                   THEN [phys EXCEPT ![s].data = TruncateTo(@, AppendStart(req[r].idx))]
                   ELSE phys
        /\ req' = [req EXCEPT ![r].cancel = "off"]
        /\ UNCHANGED <<db, cache, expired, creating, del, env>>

----------------------------------------------------------------------------
(* FileSystem.Delete: the user's requests and the cron job *)

MayDelete(T) == DeleteWhileUploading \/ \A s \in T : Active(s) = {}

\* A user deletes an upload session, all of them, or a finished file.
RequestDelete(d, T) ==
    /\ del[d].pc = "idle"
    /\ T # {} /\ \A s \in T : row[s].exists
    /\ MayDelete(T)
    /\ del' = [del EXCEPT ![d] = [IdleDeleter EXCEPT !.pc = "list", !.targets = T]]
    /\ UNCHANGED <<db, phys, cache, expired, creating, req, env>>

\* uploadSessionCollect lists the placeholders ...
CollectList(d) ==
    /\ del[d].pc = "idle"
    /\ Placeholders # {}
    /\ MayDelete(Placeholders)
    /\ del' = [del EXCEPT ![d] =
          [IdleDeleter EXCEPT !.pc = "check", !.cron = TRUE, !.todo = Placeholders]]
    /\ UNCHANGED <<db, phys, cache, expired, creating, req, env>>

\* Mutant: the test for the session is inverted.
MutCollectCheckInverted(d, s) ==
    /\ del[d].pc = "check"
    /\ s \in del[d].todo
    /\ MayDelete({s})
    /\ del' = [del EXCEPT ![d].todo = @ \ {s},
                          ![d].targets = IF s \in cache THEN @ \cup {s} ELSE @]
    /\ UNCHANGED <<db, phys, cache, expired, creating, req, env>>

\* ... keeps those whose session is not in the cache ...
CollectCheck(d, s) ==
    /\ del[d].pc = "check"
    /\ s \in del[d].todo
    /\ MayDelete({s})
    /\ del' = [del EXCEPT ![d].todo = @ \ {s},
                          ![d].targets = IF s \in cache THEN @ ELSE @ \cup {s}]
    /\ UNCHANGED <<db, phys, cache, expired, creating, req, env>>

\* ... and deletes what it kept.
CollectDelete(d) ==
    /\ del[d].pc = "check"
    /\ del[d].todo = {}
    /\ del' = [del EXCEPT ![d] =
          IF @.targets = {} THEN IdleDeleter ELSE [@ EXCEPT !.pc = "list"]]
    /\ UNCHANGED <<db, phys, cache, expired, creating, req, env>>

\* ListDeleteFiles reads the records by ID, whatever they have become.
ListDeleteFiles(d) ==
    /\ del[d].pc = "list"
    /\ LET T == {s \in del[d].targets : row[s].exists}
       IN del' = [del EXCEPT ![d].pc = "cancel", ![d].targets = T,
                             ![d].size = RecordedSize(row),
                             ![d].pend = {s \in T : row[s].pending}]
    /\ UNCHANGED <<db, phys, cache, expired, creating, req, env>>

\* deleteGroupedFile: the sessions of the placeholders leave the cache ...
CancelSessions(d) ==
    /\ del[d].pc = "cancel"
    /\ cache' = cache \ del[d].pend
    /\ del' = [del EXCEPT ![d].pc = "unlink"]
    /\ UNCHANGED <<db, phys, expired, creating, req, env>>

\* ... then the driver removes the physical files; the ones it fails to remove
\* keep their records.
DeletePhysical(d) ==
    /\ del[d].pc = "unlink"
    /\ \E failed \in SUBSET {s \in del[d].targets : phys[s].exists} :
        LET removed == del[d].targets \ failed
        IN  /\ failed # {} => faults < MaxFaults
            /\ faults' = IF failed # {} THEN faults + 1 ELSE faults
            /\ phys' = [s \in Sessions |-> IF s \in removed THEN NoFile ELSE phys[s]]
            /\ req' = [r \in Requests |->
                  [req[r] EXCEPT !.linked = @ /\ req[r].s \notin removed]]
            /\ del' = [del EXCEPT ![d].pc = "rows", ![d].targets = removed]
    /\ UNCHANGED <<db, cache, expired, creating, arrivals, crashes>>

\* Mutant: the record goes whatever its size, the listed size is given back.
MutDeleteFilesDirty(d) ==
    LET T == del[d].targets
    IN  /\ del[d].pc = "rows"
        /\ row' = [s \in Sessions |-> IF s \in T THEN NoRow ELSE row[s]]
        /\ storage' = storage - Sum(del[d].size, T)
        /\ del' = [del EXCEPT ![d] = IdleDeleter]
        /\ UNCHANGED <<lost, phys, cache, expired, creating, req, env>>

\* model.DeleteFiles, one transaction: all records go if each still has the
\* size that was listed, and none otherwise or when the database fails.
DeleteFiles(d) ==
    LET T == del[d].targets
    IN  /\ del[d].pc = "rows"
        /\ \/ /\ \A s \in T : row[s].exists /\ row[s].size = del[d].size[s]
              /\ row' = [s \in Sessions |-> IF s \in T THEN NoRow ELSE row[s]]
              /\ storage' = storage - Sum(del[d].size, T)
              /\ UNCHANGED faults
           \/ /\ \E s \in T : ~(row[s].exists /\ row[s].size = del[d].size[s])
              /\ UNCHANGED <<row, storage, faults>>
           \/ /\ faults < MaxFaults /\ faults' = faults + 1
              /\ UNCHANGED <<row, storage>>
        /\ del' = [del EXCEPT ![d] = IdleDeleter]
        /\ UNCHANGED <<lost, phys, cache, expired, creating, req, arrivals, crashes>>

----------------------------------------------------------------------------
(* Time and restarts *)

\* The TTL of a session ends.
Expire(s) ==
    /\ s \in cache
    /\ cache' = cache \ {s}
    /\ expired' = expired \cup {s}
    /\ UNCHANGED <<db, phys, creating, req, del, env>>

\* The server restarts: handlers, goroutines and the in-memory cache are gone.
Crash ==
    /\ crashes < MaxCrashes
    /\ crashes' = crashes + 1
    /\ cache' = {}
    /\ expired' = expired \cup {s \in Sessions : creating[s] \in {"inserted", "done"}}
    /\ creating' = [s \in Sessions |-> IF creating[s] = "fresh" THEN "fresh" ELSE "done"]
    /\ req' = [r \in Requests |-> IdleRequest]
    /\ del' = [d \in Deleters |-> IdleDeleter]
    /\ UNCHANGED <<db, phys, arrivals, faults>>

----------------------------------------------------------------------------
Create == \E s \in Sessions : CreateValidate(s) \/ CreatePlaceholder(s) \/ CreateSession(s)

Handle(r) ==
    \/ LookupPlaceholder(r) \/ PutCheckExists(r) \/ PutOpen(r) \/ PutWrite(r)
    \/ PutBroken(r) \/ UpdateMD5(r) \/ HookChunkUploaded(r)
    \/ HookPopPlaceholderToFile(r) \/ HookDeleteUploadSession(r)
    \/ HookTruncateFile(r) \/ HookChunkUploadFailed(r)

Cancel(r) == ClientGone(r) \/ CancelUploadDecide(r) \/ CancelUploadTruncate(r)

Collect(d) == CollectList(d) \/ CollectDelete(d) \/ \E s \in Sessions : CollectCheck(d, s)

Delete(d) == ListDeleteFiles(d) \/ CancelSessions(d) \/ DeletePhysical(d) \/ DeleteFiles(d)

Next ==
    \/ Create
    \/ \E r \in Requests, s \in Sessions, i \in 0 .. MaxIndex : ReceiveChunk(r, s, i)
    \/ \E r \in Requests : Handle(r) \/ Cancel(r)
    \/ \E d \in Deleters : Collect(d) \/ Delete(d)
    \/ \E d \in Deleters, s \in Sessions : RequestDelete(d, {s})
    \/ \E d \in Deleters : RequestDelete(d, Placeholders)
    \/ \E s \in Sessions : Expire(s)
    \/ Crash

Spec == Init /\ [][Next]_vars

\* Go schedules every runnable goroutine, the cron job runs again and again, and
\* the TTL of every session ends; nothing is assumed about clients.
Fairness ==
    /\ \A r \in Requests : WF_vars(Handle(r)) /\ WF_vars(CancelUploadTruncate(r))
    /\ \A d \in Deleters : WF_vars(Collect(d)) /\ WF_vars(Delete(d))
    /\ \A s \in Sessions : WF_vars(Expire(s)) /\ WF_vars(CreateSession(s))

FairSpec == Spec /\ Fairness

----------------------------------------------------------------------------
(* Properties *)

Request == [pc : {"idle", "lookup", "exists", "open", "write", "sized", "pop",
                  "forget", "undo", "undosize"},
            s : Sessions \cup {NoSession}, idx : 0 .. MaxIndex, size : Nat,
            used : Int, linked : BOOLEAN, written : Nat, gone : BOOLEAN,
            cancel : {"off", "armed", "truncate"}]
Deleter == [pc : {"idle", "check", "list", "cancel", "unlink", "rows"},
            cron : BOOLEAN, todo : SUBSET Sessions, targets : SUBSET Sessions,
            size : [Sessions -> Nat], pend : SUBSET Sessions]

RowType == [exists : BOOLEAN, pending : BOOLEAN, size : Nat, md5 : Seq(Int)]
FileType == [exists : BOOLEAN, data : Seq(Int)]

\* A request that is past its arrival, or whose goroutine is still to act,
\* knows its session.
RequestsOK ==
    /\ req \in [Requests -> Request]
    /\ \A r \in Requests :
          (req[r].pc # "idle" \/ req[r].cancel # "off") => req[r].s \in Sessions

\* The types of all variables; in particular the size of a record never
\* becomes negative.
TypeOK ==
    /\ storage \in Int /\ lost \in Int
    /\ row \in [Sessions -> RowType]
    /\ phys \in [Sessions -> FileType]
    /\ cache \subseteq Sessions /\ expired \subseteq Sessions
    /\ creating \in [Sessions -> {"fresh", "validated", "inserted", "done"}]
    /\ RequestsOK
    /\ del \in [Deleters -> Deleter]
    /\ arrivals \in Nat /\ faults \in Nat /\ crashes \in Nat

\* Whatever overlaps, fails or restarts, the storage charged to the user is the
\* sum of the sizes of the user's records plus what File.UpdateSize charged
\* when its conditional update matched no record: every other operation
\* (File.Create, DeleteFiles with its "file size is dirty" check) is exact.
StorageLedger == storage = Sum(RecordedSize(row), Sessions) + lost

\* With one chunk request per session at a time, no overlapping delete and no
\* failure, the user is charged exactly for the recorded sizes, over all parallel
\* sessions and whenever the server restarts.
StorageExact == faults = 0 => storage = Sum(RecordedSize(row), Sessions)

\* The content that the client meant to upload.
WholeFile(s) == [k \in 1 .. Total[s] |-> IF ChunkSize = 0 THEN 0 ELSE (k - 1) \div ChunkSize]

\* A placeholder that PopChunkToFile promoted describes a complete file: its
\* size, the content on disk and (unless the database failed: an error of
\* UpdateMD5 is only logged) its md5 are those of the announced file, even if
\* chunks were sent again, hooks failed and were undone, or the server
\* restarted.  Only FileSystem.Delete, which removes the content before the
\* record, leaves a record without content: while it runs, or for good if the
\* server stops or the database fails in between.
PromotedComplete ==
    \A s \in Sessions :
        row[s].exists /\ ~row[s].pending =>
            /\ row[s].size = Total[s]
            /\ row[s].md5 = WholeFile(s) \/ faults > 0
            /\ \/ phys[s] = [exists |-> TRUE, data |-> WholeFile(s)]
               \/ phys[s] = NoFile /\ (Deleting(s) \/ crashes > 0 \/ faults > 0)

\* HookValidateCapacity checks a user record read earlier, so parallel uploads
\* may exceed the quota, but by no more than one chunk for each other request
\* in flight.
QuotaOvershootBounded ==
    storage <= MaxStorage + (Cardinality(Requests) - 1) * ChunkSize

\* No upload stays unfinished for ever: a placeholder is promoted, or deleted
\* by its user or by the collector, whatever its client does and even if the
\* server restarted between inserting the record and caching the session.
PlaceholdersResolve ==
    \A s \in Sessions : s \in Placeholders ~> s \notin Placeholders
============================================================================
