------------------------------ MODULE FileTree ------------------------------
(***************************************************************************)
(* The directory tree of one user and the operations of FileSystem that    *)
(* change it: CreateDirectory, Rename, Move, Copy and Delete, whether they *)
(* are called by the explorer's handlers or by WebDAV.                     *)
(*                                                                         *)
(* State is the `folders` and `files` rows, the user's used storage and    *)
(* the physical files.  A copied file is a new row with the source_name of *)
(* the old one, so rows share physical files.  Operations run as sequences *)
(* of actions, one for each statement or transaction that reads or writes  *)
(* the database and one for the removal of physical files; what an action  *)
(* read is kept in the operation's record and may be stale when it is used *)
(* later.  The queries that list a subtree are one action, and so are the  *)
(* queries that look for the links of the files of one Delete.             *)
(*                                                                         *)
(* Files appear by AddFile, which stands for a whole upload; chunks and    *)
(* files that are still being uploaded are the subject of UploadSession.   *)
(***************************************************************************)
EXTENDS Integers, FiniteSets, Sizes

CONSTANTS
    FolderIds,      \* primary keys of folders; never used twice
    Root,           \* the user's root folder
    FileIds,        \* primary keys of files; never used twice
    Sources,        \* source names; uploads generate a fresh one
    SizeOf,         \* SizeOf[s]: the size of the physical file s
    Names,          \* names of files and folders
    Ops,            \* slots for concurrent operations
    MaxOps,         \* bound: requests in a behaviour
    MaxBatch,       \* bound: objects in one request
    MaxFaults,      \* bound: failures of the database or of the storage
    MaxSilent,      \* bound: failed statements whose error the code drops
    MaxCrashes,     \* bound: restarts of the server
    Serial,         \* environment: operations do not overlap
    MoveBelowSelf   \* environment: clients may move a folder below itself

ASSUME RootIsFolder == Root \in FolderIds
ASSUME KeysFinite == IsFiniteSet(FolderIds) /\ IsFiniteSet(FileIds) /\ IsFiniteSet(Ops)
ASSUME SourceSizes == SizeOf \in [Sources -> Nat]
ASSUME TreeBoundsAreNat == {MaxOps, MaxBatch, MaxFaults, MaxSilent, MaxCrashes} \subseteq Nat
ASSUME TreeFlags == {Serial, MoveBelowSelf} \subseteq BOOLEAN

VARIABLES
    folder,     \* folder[f]: the folders row; a dead one keeps its last values
    file,       \* file[x]: the files row
    content,    \* sources whose physical file exists
    storage,    \* users.storage
    op,         \* op[p]: a running Move, Copy, Delete or CreateDirectory
    uncharged,  \* history: sizes of copies whose Copy stopped before charging
    orphaned,   \* history: sources whose rows a Delete did not get to delete
    started, faults, silent, crashes

tree == <<folder, file>>
hist == <<uncharged, orphaned>>
env  == <<started, faults, silent, crashes>>
vars == <<folder, file, content, storage, op, uncharged, orphaned, env>>

----------------------------------------------------------------------------
(* Rows *)

None == "none"
FreshFolder == [st |-> "fresh", parent |-> None, name |-> None]
FreshFile   == [st |-> "fresh", folder |-> None, name |-> None, src |-> None]

ASSUME NoneIsNoKey == None \notin FolderIds

LiveFolders == {f \in FolderIds : folder[f].st = "live"}
LiveFiles   == {x \in FileIds : file[x].st = "live"}
FilesIn(F)  == {x \in LiveFiles : file[x].folder \in F}

\* The folders F and those at most k levels below them.
WithinLevels(F, k) ==
    LET level[n \in 0 .. k] ==
            IF n = 0 THEN F \cap LiveFolders
            ELSE LET above == level[n - 1]
                 IN  above \cup {f \in LiveFolders : folder[f].parent \in above}
    IN  LiveFolders \cap level[k]

\* GetRecursiveChildFolder with includeSelf: the folders F and every folder
\* below them.
Descendants(F) == WithinLevels(F, Cardinality(FolderIds))

\* IsPathExist: the folders that a path from the root can name.
Reachable == Descendants({Root})

\* The unique indexes (name, parent_id) of folders and (name, user_id,
\* folder_id) of files.
FolderNameTaken(n, d) == \E g \in LiveFolders : folder[g].parent = d /\ folder[g].name = n
FileNameTaken(n, d)   == \E y \in LiveFiles : file[y].folder = d /\ file[y].name = n

\* What each row adds to the storage its user occupies.
RowSize(fl) == [x \in FileIds |-> IF fl[x].st = "live" THEN SizeOf[fl[x].src] ELSE 0]

\* What each running Copy has inserted and not yet charged.
OpSize(o) == [p \in Ops |-> o[p].size]

----------------------------------------------------------------------------
(* Operations *)

NoRows == [x \in {} |-> FreshFile]
IdleOp == [kind |-> "idle", pc |-> "idle",
           src |-> Root, dst |-> Root, name |-> None,  \* the request
           top |-> {}, dirs |-> {}, files |-> {},
           tree |-> {}, map |-> [f \in {} |-> Root],   \* folders listed, copied
           rows |-> NoRows,                            \* file rows read, not copied
           size |-> 0,                                 \* copiedSize
           unlink |-> {}, gone |-> {},                 \* sources to remove, rows to delete
           force |-> FALSE, twice |-> {}]

\* A function with one more argument, and with one less.
With(fun, k, v) == [g \in DOMAIN fun \cup {k} |-> IF g = k THEN v ELSE fun[g]]
Without(fun, k) == [g \in DOMAIN fun \ {k} |-> fun[g]]

Idle(p) == op[p].pc = "idle"
At(p, kind, pc) == op[p].kind = kind /\ op[p].pc = pc
Step(p, q) == op' = [op EXCEPT ![p] = q]

\* A request starts: the bounds allow another one, and so does the environment.
Start ==
    /\ started < MaxOps
    /\ started' = started + 1
    /\ Serial => \A q \in Ops : Idle(q)

\* A statement fails; the operation returns the error.
Fault == faults < MaxFaults /\ faults' = faults + 1

\* A statement fails; the operation goes on as if it had found or done nothing.
SilentFault == silent < MaxSilent /\ silent' = silent + 1

\* GetRecursiveChildFolder returns the folders it has found up to the query that
\* fails, and no error: its results, and when they are not the whole subtree.
RecursiveChildFolders(F) ==
    {Descendants(F), {}} \cup {WithinLevels(F, k) : k \in 0 .. Cardinality(FolderIds)}
ListedAs(F, found) == IF found = Descendants(F) THEN UNCHANGED silent ELSE SilentFault

Init ==
    /\ folder = [f \in FolderIds |->
                    IF f = Root THEN [FreshFolder EXCEPT !.st = "live"] ELSE FreshFolder]
    /\ file = [x \in FileIds |-> FreshFile]
    /\ content = {}
    /\ storage = 0
    /\ op = [p \in Ops |-> IdleOp]
    /\ uncharged = 0
    /\ orphaned = {}
    /\ started = 0 /\ faults = 0 /\ silent = 0 /\ crashes = 0

----------------------------------------------------------------------------
(* Uploads, CreateDirectory, Rename *)

\* An upload into folder d: its content is stored, and AddFile inserts the row
\* and charges its size in one transaction, unless the name is taken.
AddFile(x, s, n, d) ==
    /\ Start
    /\ file[x].st = "fresh"
    /\ \A y \in FileIds : file[y].src # s
    /\ d \in Reachable
    /\ ~FileNameTaken(n, d)
    /\ file' = [file EXCEPT ![x] = [st |-> "live", folder |-> d, name |-> n, src |-> s]]
    /\ content' = content \cup {s}
    /\ storage' = storage + SizeOf[s]
    /\ UNCHANGED <<folder, op, hist, faults, silent, crashes>>

\* CreateDirectory finds the parent and refuses the name of a file.  (Missing
\* parents are created by the same function, one level at a time.)
CreateDirectory(p, n) ==
    /\ Idle(p) /\ Start
    /\ \E d \in Reachable :
          /\ ~FileNameTaken(n, d)
          /\ Step(p, [IdleOp EXCEPT !.kind = "mkdir", !.pc = "create", !.dst = d, !.name = n])
    /\ UNCHANGED <<tree, content, storage, hist, faults, silent, crashes>>

\* Folder.Create: FirstOrCreate returns the folder that is there, or inserts it.
FolderCreate(p) ==
    /\ At(p, "mkdir", "create")
    /\ Step(p, IdleOp)
    /\ \/ Fault /\ UNCHANGED folder
       \/ FolderNameTaken(op[p].name, op[p].dst) /\ UNCHANGED <<folder, faults>>
       \/ /\ ~FolderNameTaken(op[p].name, op[p].dst)
          /\ \E f \in FolderIds :
                /\ folder[f].st = "fresh"
                /\ folder' = [folder EXCEPT ![f] =
                      [st |-> "live", parent |-> op[p].dst, name |-> op[p].name]]
          /\ UNCHANGED faults
    /\ UNCHANGED <<file, content, storage, hist, started, silent, crashes>>

\* Rename of a file or of a folder: the unique index refuses a sibling's name.
RenameFile(x, n) ==
    /\ Start
    /\ x \in LiveFiles
    /\ ~FileNameTaken(n, file[x].folder)
    /\ file' = [file EXCEPT ![x].name = n]
    /\ UNCHANGED <<folder, content, storage, op, hist, faults, silent, crashes>>

RenameFolder(f, n) ==
    /\ Start
    /\ f \in LiveFolders
    /\ ~FolderNameTaken(n, folder[f].parent)
    /\ folder' = [folder EXCEPT ![f].name = n]
    /\ UNCHANGED <<file, content, storage, op, hist, faults, silent, crashes>>

----------------------------------------------------------------------------
(* Move *)

\* Move resolves both paths, the destination first.
Move(p, dirs, files) ==
    /\ Idle(p) /\ Start
    /\ \E src, dst \in Reachable :
          /\ MoveBelowSelf \/ \A d \in dirs : dst \notin Descendants({d}) \ {d}
          /\ Step(p, [IdleOp EXCEPT !.kind = "move", !.pc = "folders", !.src = src,
                                    !.dst = dst, !.dirs = dirs, !.files = files])
    /\ UNCHANGED <<tree, content, storage, hist, faults, silent, crashes>>

\* Mutant: a folder may be moved into itself.
MutIntoItself(p) == FALSE

\* util.ContainsUint(dirs, dstFolder.ID)
IntoItself(p) == op[p].dst \in op[p].dirs

\* MoveFolderTo: refuses to move a folder into itself, then one UPDATE, which
\* fails as a whole when the unique index is violated.
MoveFolderTo(p) ==
    LET dst == op[p].dst
        moved == {f \in op[p].dirs \cap LiveFolders : folder[f].parent = op[p].src}
        clash == \E f \in moved, g \in LiveFolders \ moved :
                    folder[g].parent = dst /\ folder[g].name = folder[f].name
    IN  /\ At(p, "move", "folders")
        /\ \/ /\ IntoItself(p) \/ clash
              /\ Step(p, IdleOp)
              /\ UNCHANGED <<folder, faults>>
           \/ Fault /\ Step(p, IdleOp) /\ UNCHANGED folder
           \/ /\ ~IntoItself(p) /\ ~clash
              /\ folder' = [f \in FolderIds |->
                    IF f \in moved THEN [folder[f] EXCEPT !.parent = dst] ELSE folder[f]]
              /\ Step(p, [op[p] EXCEPT !.pc = "files"])
              /\ UNCHANGED faults
        /\ UNCHANGED <<file, content, storage, hist, started, silent, crashes>>

\* MoveOrCopyFileTo with isCopy = false.  When it fails the folders stay moved.
MoveFilesTo(p) ==
    LET dst == op[p].dst
        moved == {x \in op[p].files \cap LiveFiles : file[x].folder = op[p].src}
        clash == \E x \in moved, y \in LiveFiles \ moved :
                    file[y].folder = dst /\ file[y].name = file[x].name
    IN  /\ At(p, "move", "files")
        /\ \/ clash /\ UNCHANGED <<file, faults>>
           \/ Fault /\ UNCHANGED file
           \/ /\ ~clash
              /\ file' = [x \in FileIds |->
                    IF x \in moved THEN [file[x] EXCEPT !.folder = dst] ELSE file[x]]
              /\ UNCHANGED faults
        /\ Step(p, IdleOp)
        /\ UNCHANGED <<folder, content, storage, hist, started, silent, crashes>>

----------------------------------------------------------------------------
(* Copy *)

\* Copy resolves both paths; of `dirs` it uses the first only.
Copy(p, dirs, files) ==
    /\ Idle(p) /\ Start
    /\ Cardinality(dirs) <= 1
    /\ \E src, dst \in Reachable :
          Step(p, [IdleOp EXCEPT !.kind = "copy", !.pc = IF dirs = {} THEN "list" ELSE "tree",
                                 !.src = src, !.dst = dst, !.top = dirs, !.files = files])
    /\ UNCHANGED <<tree, content, storage, hist, faults, silent, crashes>>

\* The rows a query returns.
FolderRows(F) == {[id |-> f, parent |-> folder[f].parent, name |-> folder[f].name] : f \in F}
FileRowsOf(X) == [x \in X |-> file[x]]

\* CopyFolderTo lists the folders to copy, with their names and parents.
CopyListFolders(p) ==
    /\ At(p, "copy", "tree")
    /\ \E found \in RecursiveChildFolders(op[p].top) :
          /\ Step(p, [op[p] EXCEPT !.pc = "folders", !.tree = FolderRows(found)])
          /\ ListedAs(op[p].top, found)
    /\ UNCHANGED <<tree, content, storage, hist, started, faults, crashes>>

\* An error: Copy returns before it charges what it has inserted.
CopyFails(p) ==
    /\ Step(p, IdleOp)
    /\ uncharged' = uncharged + op[p].size

\* Mutant: every copied folder is put directly into the destination.
MutNewParent(p, t) == op[p].dst

\* The destination for the top folder, newIDCache of the parent for the others.
NewParent(p, t) == IF t.id \in op[p].top THEN op[p].dst ELSE op[p].map[t.parent]

\* CopyFolderTo copies one folder row, after its parent.
CopyFolder(p) ==
    /\ At(p, "copy", "folders")
    /\ \E t \in op[p].tree :
          /\ t.id \notin DOMAIN op[p].map
          /\ t.id \in op[p].top \/ t.parent \in DOMAIN op[p].map
          /\ \/ /\ FolderNameTaken(t.name, NewParent(p, t))
                /\ CopyFails(p)
                /\ UNCHANGED <<folder, faults>>
             \/ Fault /\ CopyFails(p) /\ UNCHANGED folder
             \/ /\ ~FolderNameTaken(t.name, NewParent(p, t))
                /\ \E f \in FolderIds :
                      /\ folder[f].st = "fresh"
                      /\ folder' = [folder EXCEPT ![f] =
                            [st |-> "live", parent |-> NewParent(p, t), name |-> t.name]]
                      /\ Step(p, [op[p] EXCEPT !.map = With(@, t.id, f)])
                /\ UNCHANGED <<uncharged, faults>>
    /\ UNCHANGED <<file, content, storage, orphaned, started, silent, crashes>>

\* CopyFolderTo lists the files of the folders it listed.
CopyListTreeFiles(p) ==
    LET listed == {t.id : t \in op[p].tree}
    IN  /\ At(p, "copy", "folders")
        /\ listed = DOMAIN op[p].map
        /\ \/ Fault /\ CopyFails(p)
           \/ /\ Step(p, [op[p] EXCEPT !.pc = "treefiles",
                                       !.rows = FileRowsOf(FilesIn(listed))])
              /\ UNCHANGED <<uncharged, faults>>
        /\ UNCHANGED <<tree, content, storage, orphaned, started, silent, crashes>>

\* MoveOrCopyFileTo with isCopy = true lists the files, or there are none.
CopyListFiles(p) ==
    /\ \/ At(p, "copy", "list")
       \/ At(p, "copy", "treefiles") /\ DOMAIN op[p].rows = {}
    /\ \/ op[p].files # {} /\ Fault /\ CopyFails(p)
       \/ /\ IF op[p].files = {}
             THEN Step(p, [op[p] EXCEPT !.pc = "charge"])
             ELSE Step(p, [op[p] EXCEPT !.pc = "files",
                             !.rows = FileRowsOf(FilesIn({op[p].src}) \cap op[p].files)])
          /\ UNCHANGED <<uncharged, faults>>
    /\ UNCHANGED <<tree, content, storage, orphaned, started, silent, crashes>>

\* Both functions copy one file row: the new row shares the source of the old.
CopyFile(p) ==
    /\ At(p, "copy", "treefiles") \/ At(p, "copy", "files")
    /\ \E x \in DOMAIN op[p].rows :
          LET old == op[p].rows[x]
              d == IF op[p].pc = "files" THEN op[p].dst ELSE op[p].map[old.folder]
          IN  \/ /\ FileNameTaken(old.name, d)
                 /\ CopyFails(p)
                 /\ UNCHANGED <<file, faults>>
              \/ Fault /\ CopyFails(p) /\ UNCHANGED file
              \/ /\ ~FileNameTaken(old.name, d)
                 /\ \E y \in FileIds :
                       /\ file[y].st = "fresh"
                       /\ file' = [file EXCEPT ![y] = [old EXCEPT !.folder = d]]
                 /\ Step(p, [op[p] EXCEPT !.rows = Without(@, x),
                                          !.size = @ + SizeOf[old.src]])
                 /\ UNCHANGED <<uncharged, faults>>
    /\ UNCHANGED <<folder, content, storage, orphaned, started, silent, crashes>>

\* IncreaseStorageWithoutCheck; an error of its UPDATE is ignored.
CopyCharge(p) ==
    /\ \/ At(p, "copy", "charge")
       \/ At(p, "copy", "files") /\ DOMAIN op[p].rows = {}
    /\ \/ storage' = storage + op[p].size /\ UNCHANGED <<uncharged, silent>>
       \/ SilentFault /\ uncharged' = uncharged + op[p].size /\ UNCHANGED storage
    /\ Step(p, IdleOp)
    /\ UNCHANGED <<tree, content, orphaned, started, faults, crashes>>

----------------------------------------------------------------------------
(* Delete *)

\* ListDeleteDirs and ListDeleteFiles.  The root is left out of the folders; a
\* file that is named and lies in a named folder is listed twice.
Delete(p, dirs, files, force) ==
    /\ Idle(p) /\ Start
    /\ \E found \in RecursiveChildFolders(dirs) :
          LET below == found \ {Root}
              named == files \cap LiveFiles
          IN  /\ ListedAs(dirs, found)
              /\ Step(p, [IdleOp EXCEPT !.kind = "delete", !.pc = "links", !.dirs = below,
                            !.files = FilesIn(below) \cup named, !.force = force,
                            !.twice = FilesIn(below) \cap named])
    /\ UNCHANGED <<tree, content, storage, hist, faults, crashes>>

\* Mutant: links are only looked for in the folder of the file.
MutHasSoftLink(x) == \E y \in FilesIn({file[x].folder}) \ {x} : file[y].src = file[x].src

\* RemoveFilesWithSoftLinks: another row has the source of x.
HasSoftLink(x) == \E y \in LiveFiles \ {x} : file[y].src = file[x].src

\* The sources of the files to delete without those for which a link was found.
\* A query that fails counts as one that found none.
SourcesOf(F) == {file[x].src : x \in F}
WithoutSoftLinks(F, failed) == SourcesOf(F) \ SourcesOf({x \in F \ failed : HasSoftLink(x)})

RemoveFilesWithSoftLinks(p) ==
    /\ At(p, "delete", "links")
    /\ \E failed \in SUBSET op[p].files :
          /\ IF failed = {} THEN UNCHANGED silent ELSE SilentFault
          /\ Step(p, [op[p] EXCEPT !.pc = "unlink",
                                   !.unlink = WithoutSoftLinks(op[p].files, failed)])
    /\ UNCHANGED <<tree, content, storage, hist, started, faults, crashes>>

\* The rows to delete: those of files whose removal did not fail, or all.
DeletedRows(p, failed) ==
    IF op[p].force THEN op[p].files ELSE {x \in op[p].files : file[x].src \notin failed}

\* deleteGroupedFile: the storage handler removes what it can.
DeleteContent(p) ==
    /\ At(p, "delete", "unlink")
    /\ \E failed \in SUBSET op[p].unlink :
          /\ IF failed = {} THEN UNCHANGED faults ELSE Fault
          /\ content' = content \ (op[p].unlink \ failed)
          /\ Step(p, [op[p] EXCEPT !.pc = "rows", !.gone = DeletedRows(p, failed)])
    /\ UNCHANGED <<tree, storage, hist, started, silent, crashes>>

\* The sources of the listed files that are no longer there.
Missing(p) == SourcesOf(op[p].files) \ content

\* len(deletedFiles) == len(allFiles)
EveryFileDeleted(p) == op[p].gone = op[p].files

\* Mutant: rows that are already gone are not noticed.
MutDirty(p) == FALSE

\* "file size is dirty": a row to delete is gone or listed twice.
Dirty(p) == op[p].twice \cap op[p].gone # {} \/ ~(op[p].gone \subseteq LiveFiles)

\* DeleteFiles: one transaction, which gives back the sizes that were listed.
DeleteRows(p) ==
    LET gone == op[p].gone
        listed == [x \in gone |-> SizeOf[file[x].src]]
    IN  /\ At(p, "delete", "rows")
        /\ \/ /\ Dirty(p)
              /\ orphaned' = orphaned \cup Missing(p)
              /\ Step(p, IdleOp)
              /\ UNCHANGED <<file, storage, faults>>
           \/ /\ Fault
              /\ orphaned' = orphaned \cup Missing(p)
              /\ Step(p, IdleOp)
              /\ UNCHANGED <<file, storage>>
           \/ /\ ~Dirty(p)
              /\ file' = [x \in FileIds |->
                    IF x \in gone THEN [file[x] EXCEPT !.st = "dead"] ELSE file[x]]
              /\ storage' = storage - Sum(listed, gone)
              /\ Step(p, IF EveryFileDeleted(p)
                         THEN [op[p] EXCEPT !.pc = "folders"] ELSE IdleOp)
              /\ UNCHANGED <<orphaned, faults>>
        /\ UNCHANGED <<folder, content, uncharged, started, silent, crashes>>

\* DeleteFolderByIDs, reached only when every listed file row was deleted.
DeleteFolders(p) ==
    /\ At(p, "delete", "folders")
    /\ \/ /\ folder' = [f \in FolderIds |->
                IF f \in op[p].dirs THEN [folder[f] EXCEPT !.st = "dead"] ELSE folder[f]]
          /\ UNCHANGED faults
       \/ Fault /\ UNCHANGED folder
    /\ Step(p, IdleOp)
    /\ UNCHANGED <<file, content, storage, hist, started, silent, crashes>>

----------------------------------------------------------------------------
(* The server stops; every request is lost where it is. *)
Crash ==
    /\ crashes < MaxCrashes
    /\ crashes' = crashes + 1
    /\ \E p \in Ops : ~Idle(p)
    /\ op' = [p \in Ops |-> IdleOp]
    /\ uncharged' = uncharged + Sum(OpSize(op), Ops)
    /\ orphaned' = orphaned \cup UNION {Missing(p) : p \in {q \in Ops : At(q, "delete", "rows")}}
    /\ UNCHANGED <<tree, content, storage, started, faults, silent>>

\* The requests a client makes name a few objects that it has been shown.
Batch(dirs, files) ==
    /\ Cardinality(dirs) + Cardinality(files) \in 1 .. MaxBatch
    /\ \A f \in dirs : folder[f].st # "fresh"
    /\ \A x \in files : file[x].st # "fresh"

Request(p) ==
    \/ \E n \in Names : CreateDirectory(p, n)
    \/ \E dirs \in SUBSET FolderIds, files \in SUBSET FileIds :
          /\ Batch(dirs, files)
          /\ \/ Move(p, dirs, files)
             \/ Copy(p, dirs, files)
             \/ \E force \in BOOLEAN : Delete(p, dirs, files, force)

Advance(p) ==
    \/ FolderCreate(p)
    \/ MoveFolderTo(p) \/ MoveFilesTo(p)
    \/ CopyListFolders(p) \/ CopyFolder(p) \/ CopyListTreeFiles(p)
    \/ CopyListFiles(p) \/ CopyFile(p) \/ CopyCharge(p)
    \/ RemoveFilesWithSoftLinks(p) \/ DeleteContent(p) \/ DeleteRows(p) \/ DeleteFolders(p)

Write ==
    \/ \E x \in FileIds, s \in Sources, n \in Names, d \in FolderIds : AddFile(x, s, n, d)
    \/ \E x \in FileIds, n \in Names : RenameFile(x, n)
    \/ \E f \in FolderIds, n \in Names : RenameFolder(f, n)

Next == Write \/ Crash \/ \E p \in Ops : Request(p) \/ Advance(p)

Spec == Init /\ [][Next]_vars

----------------------------------------------------------------------------
(* Properties *)

FolderRow == [st : {"fresh", "live", "dead"}, parent : FolderIds \cup {None},
              name : Names \cup {None}]
FileRow   == [st : {"fresh", "live", "dead"}, folder : FolderIds \cup {None},
              name : Names \cup {None}, src : Sources \cup {None}]
Listed    == [id : FolderIds, parent : FolderIds \cup {None}, name : Names \cup {None}]

NewIds    == UNION {[F -> FolderIds] : F \in SUBSET FolderIds}
FileRows  == UNION {[X -> FileRow] : X \in SUBSET FileIds}
Operation ==
    [kind : {"idle", "mkdir", "move", "copy", "delete"},
     pc : {"idle", "create", "folders", "files", "tree", "treefiles", "list", "charge",
           "links", "unlink", "rows"},
     src : FolderIds, dst : FolderIds, name : Names \cup {None},
     top : SUBSET FolderIds, dirs : SUBSET FolderIds, files : SUBSET FileIds,
     tree : SUBSET Listed, map : NewIds, rows : FileRows, size : Nat,
     unlink : SUBSET Sources, gone : SUBSET FileIds,
     force : BOOLEAN, twice : SUBSET FileIds]

\* Only a Copy has added sizes; listed files have a source; the folders of the
\* rows to copy have a copy.
OpOK(o, fl) ==
    /\ o.pc = "idle" => o.kind = "idle"
    /\ o.kind # "copy" => o.size = 0
    /\ \A x \in DOMAIN o.rows :
          /\ o.rows[x].st = "live" /\ o.rows[x].src \in Sources
          /\ o.pc = "treefiles" => o.rows[x].folder \in DOMAIN o.map
    /\ \A x \in o.files \cup o.gone : o.kind = "delete" => fl[x].src \in Sources

CountersOK == started \in Nat /\ faults \in Nat /\ silent \in Nat /\ crashes \in Nat

\* The types of the state; a file row has a source from the start.
TypeOK ==
    /\ folder \in [FolderIds -> FolderRow]
    /\ file \in [FileIds -> FileRow]
    /\ \A x \in FileIds : file[x].st # "fresh" => file[x].src \in Sources
    /\ content \subseteq Sources
    /\ storage \in Int
    /\ op \in [Ops -> Operation]
    /\ \A p \in Ops : OpOK(op[p], file)
    /\ uncharged \in Nat
    /\ orphaned \subseteq Sources
    /\ CountersOK

\* However operations overlap, fail or are cut off, the storage charged to the
\* user, the sizes that running copies still have to charge and those that
\* failed copies never charged add up to the sizes of the file rows: File.Create
\* and DeleteFiles change rows and storage together, Copy charges what it added.
TreeLedger ==
    storage + Sum(OpSize(op), Ops) + uncharged = Sum(RowSize(file), FileIds)

\* RemoveFilesWithSoftLinks protects files that share a source: no row loses its
\* content to the deletion of another row.  A source is only missing if the
\* Delete that removed it listed all of its rows and is about to delete them, or
\* was kept from it by an error.
ContentPresent ==
    \A x \in LiveFiles :
        \/ file[x].src \in content \cup orphaned
        \/ \E p \in Ops : At(p, "delete", "rows") /\ x \in op[p].files

\* Every folder can be reached from the root and every file is in a folder:
\* neither Move nor a Delete that fails half-way leaves objects that no path
\* names.
TreeRooted == LiveFolders = Reachable /\ LiveFiles = FilesIn(Reachable)

\* When CopyFolderTo returns it has copied the whole subtree: one new folder for
\* each old one, with the same name, under the copy of its parent, and in it
\* files of the same names and sources as in the old one; what it reports as
\* their size is what it has added.
CopyFaithful ==
    \A p \in Ops :
        At(p, "copy", "treefiles") /\ DOMAIN op[p].rows = {} =>
            LET copyOf == op[p].map
                old == DOMAIN copyOf
                new == {copyOf[f] : f \in old}
                Contents(f) == {<<file[x].name, file[x].src>> : x \in FilesIn({f})}
            IN  /\ old = Descendants(op[p].top) \ new
                /\ \A f \in old :
                      /\ \A g \in old \ {f} : copyOf[g] # copyOf[f]
                      /\ copyOf[f] \in LiveFolders
                      /\ folder[copyOf[f]].name = folder[f].name
                      /\ folder[copyOf[f]].parent =
                            IF f \in op[p].top THEN op[p].dst ELSE copyOf[folder[f].parent]
                      /\ Contents(copyOf[f]) = Contents(f)
                /\ op[p].size = Sum(RowSize(file), FilesIn(new))
=============================================================================
