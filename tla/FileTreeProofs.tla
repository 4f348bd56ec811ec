--------------------------- MODULE FileTreeProofs ---------------------------
(***************************************************************************)
(* Proofs about FileTree for every set of keys, every number of concurrent *)
(* operations and every bound on failures and restarts: the types are      *)
(* invariant, and the user's storage always agrees with the file rows up   *)
(* to what copies have not charged.  For operations that do not overlap    *)
(* and queries that do not fail unnoticed: no row loses its content to the *)
(* deletion of another, every folder can be reached from the root unless   *)
(* clients move folders below themselves, and copied subtrees are complete.*)
(***************************************************************************)
EXTENDS FileTree, SizesTheorems, NaturalsInduction

USE RootIsFolder, KeysFinite, SourceSizes

----------------------------------------------------------------------------
(* The records of operations *)

\* The idle operation is well typed, whatever the files are.
LEMMA IdleOpType ==
    /\ IdleOp \in Operation
    /\ \A fl : OpOK(IdleOp, fl)
    /\ IdleOp.size = 0
<1>1. [f \in {} |-> Root] \in NewIds /\ NoRows \in FileRows
  <2>1. [f \in {} |-> Root] \in [{} -> FolderIds] /\ {} \in SUBSET FolderIds
    OBVIOUS
  <2>2. NoRows \in [{} -> FileRow] /\ {} \in SUBSET FileIds
    BY DEF NoRows
  <2> QED BY <2>1, <2>2 DEF NewIds, FileRows
<1>2. IdleOp \in Operation
  BY <1>1 DEF IdleOp, Operation
<1>3. DOMAIN NoRows = {}
  BY DEF NoRows
<1> QED BY <1>2, <1>3 DEF IdleOp, OpOK

\* What GetRecursiveChildFolder returns are folders.
LEMMA ListedFolders ==
    ASSUME NEW F
    PROVE  /\ \A k : WithinLevels(F, k) \subseteq FolderIds
           /\ Descendants(F) \subseteq FolderIds
           /\ \A found \in RecursiveChildFolders(F) : found \subseteq FolderIds
<1>1. \A k : WithinLevels(F, k) \subseteq FolderIds
  BY DEF WithinLevels, LiveFolders
<1>2. Descendants(F) \subseteq FolderIds
  BY <1>1 DEF Descendants
<1> QED BY <1>1, <1>2 DEF RecursiveChildFolders

\* A step that changes one operation keeps the operations well typed, if the
\* new record is and no file loses its source.
LEMMA OneOpChanges ==
    ASSUME op \in [Ops -> Operation], \A r \in Ops : OpOK(op[r], file),
           NEW p \in Ops, NEW q \in Operation, OpOK(q, file'), Step(p, q),
           \A x \in FileIds : file[x].src \in Sources => file'[x].src \in Sources
    PROVE  op' \in [Ops -> Operation] /\ \A r \in Ops : OpOK(op'[r], file')
<1>1. op' \in [Ops -> Operation]
  BY DEF Step
<1>2. ASSUME NEW r \in Ops PROVE OpOK(op'[r], file')
  <2>1. CASE r = p
    BY <2>1 DEF Step
  <2>2. CASE r # p
    <3>1. op'[r] = op[r] /\ OpOK(op[r], file)
      BY <2>2 DEF Step
    <3>2. op[r].files \subseteq FileIds /\ op[r].gone \subseteq FileIds
      BY DEF Operation
    <3> QED BY <3>1, <3>2 DEF OpOK
  <2> QED BY <2>1, <2>2
<1> QED BY <1>1, <1>2

----------------------------------------------------------------------------
(* Type correctness *)

\* Every action leaves the counters of the model as they are or adds one.
LEMMA CountersType ==
    ASSUME CountersOK, [Next]_vars PROVE CountersOK'
<1> DEFINE Grows == /\ started' = started \/ started' = started + 1
                    /\ faults' = faults \/ faults' = faults + 1
                    /\ silent' = silent \/ silent' = silent + 1
                    /\ crashes' = crashes \/ crashes' = crashes + 1
<1> USE DEF Start, Fault, SilentFault, ListedAs, env
<1>1. ASSUME UNCHANGED vars PROVE Grows
  BY <1>1, Zenon DEF vars
<1>2. ASSUME Write PROVE Grows
  BY <1>2, Zenon DEF Write, AddFile, RenameFile, RenameFolder
<1>3. ASSUME Crash PROVE Grows
  BY <1>3, Zenon DEF Crash
<1>4. ASSUME NEW p \in Ops, Request(p) PROVE Grows
  <2>1. ASSUME NEW n \in Names, CreateDirectory(p, n) PROVE Grows
    BY <2>1, Zenon DEF CreateDirectory
  <2>2. ASSUME NEW dirs, NEW files, Move(p, dirs, files) PROVE Grows
    BY <2>2, Zenon DEF Move
  <2>3. ASSUME NEW dirs, NEW files, Copy(p, dirs, files) PROVE Grows
    BY <2>3, Zenon DEF Copy
  <2>4. ASSUME NEW dirs, NEW files, NEW force, Delete(p, dirs, files, force) PROVE Grows
    BY <2>4, Zenon DEF Delete
  <2> QED BY <1>4, <2>1, <2>2, <2>3, <2>4, Zenon DEF Request
<1>5. ASSUME NEW p \in Ops, Advance(p) PROVE Grows
  <2>1. CASE FolderCreate(p)
    BY <2>1, Zenon DEF FolderCreate
  <2>2. CASE MoveFolderTo(p)
    BY <2>2, Zenon DEF MoveFolderTo
  <2>3. CASE MoveFilesTo(p)
    BY <2>3, Zenon DEF MoveFilesTo
  <2>4. CASE CopyListFolders(p)
    BY <2>4, Zenon DEF CopyListFolders
  <2>5. CASE CopyListTreeFiles(p)
    BY <2>5, Zenon DEF CopyListTreeFiles
  <2>6. CASE CopyListFiles(p)
    BY <2>6, Zenon DEF CopyListFiles
  <2>7. CASE CopyCharge(p)
    BY <2>7, Zenon DEF CopyCharge
  <2>8. CASE CopyFolder(p)
    BY <2>8, Zenon DEF CopyFolder
  <2>9. CASE CopyFile(p)
    BY <2>9, Zenon DEF CopyFile
  <2>10. CASE RemoveFilesWithSoftLinks(p)
    BY <2>10, Zenon DEF RemoveFilesWithSoftLinks
  <2>11. CASE DeleteContent(p)
    BY <2>11, Zenon DEF DeleteContent
  <2>12. CASE DeleteRows(p)
    BY <2>12, Zenon DEF DeleteRows
  <2>13. CASE DeleteFolders(p)
    BY <2>13, Zenon DEF DeleteFolders
  <2> QED BY <1>5, <2>1, <2>2, <2>3, <2>4, <2>5, <2>6, <2>7, <2>8, <2>9, <2>10, <2>11, <2>12,
             <2>13, Zenon DEF Advance
<1>6. Grows
  BY <1>1, <1>2, <1>3, <1>4, <1>5, Zenon DEF Next
<1> QED BY <1>6 DEF CountersOK

\* What the rest of the proof needs of a step that changes file rows: they stay
\* well typed and none loses its source.
FilesKept ==
    /\ file' \in [FileIds -> FileRow]
    /\ \A x \in FileIds : /\ file'[x].st # "fresh" => file'[x].src \in Sources
                          /\ file[x].src \in Sources => file'[x].src \in Sources

\* A step of one operation keeps the types if it keeps those of the rows.
LEMMA TypesKept ==
    ASSUME TypeOK, CountersOK', NEW p \in Ops, NEW q \in Operation, OpOK(q, file'), Step(p, q),
           folder' \in [FolderIds -> FolderRow], FilesKept, content' \subseteq Sources,
           storage' \in Int, uncharged' \in Nat, orphaned' \subseteq Sources
    PROVE  TypeOK'
<1>1. op' \in [Ops -> Operation] /\ \A r \in Ops : OpOK(op'[r], file')
  BY OneOpChanges DEF TypeOK, FilesKept
<1> QED BY <1>1 DEF TypeOK, FilesKept

\* A step of an operation that changes no row keeps the types.
LEMMA RowsUnchanged ==
    ASSUME TypeOK, CountersOK', NEW p \in Ops, NEW q \in Operation, OpOK(q, file), Step(p, q),
           UNCHANGED tree, content' \subseteq Sources, storage' \in Int, uncharged' \in Nat,
           orphaned' \subseteq Sources
    PROVE  TypeOK'
<1>1. folder' = folder /\ file' = file
  BY DEF tree
<1>2. FilesKept
  BY <1>1 DEF FilesKept, TypeOK
<1> QED BY <1>1, <1>2, TypesKept DEF TypeOK

\* The requests that start an operation keep the types.
LEMMA RequestTypes ==
    ASSUME TypeOK, CountersOK', NEW p \in Ops, Request(p) PROVE TypeOK'
<1>0. IdleOp \in Operation /\ DOMAIN IdleOp.rows = {} /\ IdleOp.size = 0
  BY IdleOpType DEF IdleOp, NoRows
<1>1. Reachable \subseteq FolderIds
  BY ListedFolders DEF Reachable
<1>t. content \subseteq Sources /\ storage \in Int /\ uncharged \in Nat /\ orphaned \subseteq Sources
  BY DEF TypeOK
<1>2. ASSUME NEW n \in Names, CreateDirectory(p, n) PROVE TypeOK'
  <2> DEFINE q(d) == [IdleOp EXCEPT !.kind = "mkdir", !.pc = "create", !.dst = d, !.name = n]
  <2>1. PICK d \in Reachable : Step(p, q(d))
    BY <1>2, Zenon DEF CreateDirectory
  <2>2. q(d) \in Operation
    BY <1>0, <1>1 DEF Operation
  <2>3. OpOK(q(d), file)
    BY <1>0 DEF OpOK, Operation
  <2>4. UNCHANGED <<tree, content, storage, hist>>
    BY <1>2, Zenon DEF CreateDirectory
  <2> HIDE DEF q
  <2> QED BY <1>t, <2>1, <2>2, <2>3, <2>4, RowsUnchanged DEF hist
<1>3. ASSUME NEW dirs \in SUBSET FolderIds, NEW files \in SUBSET FileIds, Move(p, dirs, files)
      PROVE  TypeOK'
  <2> DEFINE q(s, d) == [IdleOp EXCEPT !.kind = "move", !.pc = "folders", !.src = s,
                                    !.dst = d, !.dirs = dirs, !.files = files]
  <2>1. PICK s \in Reachable, d \in Reachable : Step(p, q(s, d))
    BY <1>3, Zenon DEF Move
  <2>2. q(s, d) \in Operation
    BY <1>0, <1>1 DEF Operation
  <2>3. OpOK(q(s, d), file)
    BY <1>0 DEF OpOK, Operation
  <2>4. UNCHANGED <<tree, content, storage, hist>>
    BY <1>3, Zenon DEF Move
  <2> HIDE DEF q
  <2> QED BY <1>t, <2>1, <2>2, <2>3, <2>4, RowsUnchanged DEF hist
<1>4. ASSUME NEW dirs \in SUBSET FolderIds, NEW files \in SUBSET FileIds, Copy(p, dirs, files)
      PROVE  TypeOK'
  <2> DEFINE q(s, d) == [IdleOp EXCEPT !.kind = "copy",
                                 !.pc = IF dirs = {} THEN "list" ELSE "tree",
                                 !.src = s, !.dst = d, !.top = dirs, !.files = files]
  <2>1. PICK s \in Reachable, d \in Reachable : Step(p, q(s, d))
    BY <1>4, Zenon DEF Copy
  <2>2. q(s, d) \in Operation
    BY <1>0, <1>1, ZenonT(60) DEF Operation
  <2>3. OpOK(q(s, d), file)
    BY <1>0 DEF OpOK, Operation
  <2>4. UNCHANGED <<tree, content, storage, hist>>
    BY <1>4, Zenon DEF Copy
  <2> HIDE DEF q
  <2> QED BY <1>t, <2>1, <2>2, <2>3, <2>4, RowsUnchanged DEF hist
<1>5. ASSUME NEW dirs \in SUBSET FolderIds, NEW files \in SUBSET FileIds, NEW force \in BOOLEAN,
             Delete(p, dirs, files, force)
      PROVE  TypeOK'
  <2> DEFINE named == files \cap LiveFiles
             q(below) == [IdleOp EXCEPT !.kind = "delete", !.pc = "links", !.dirs = below,
                            !.files = FilesIn(below) \cup named, !.force = force,
                            !.twice = FilesIn(below) \cap named]
  <2>1. PICK found \in RecursiveChildFolders(dirs) : Step(p, q(found \ {Root}))
    BY <1>5, Zenon DEF Delete
  <2>a. found \ {Root} \subseteq FolderIds
    BY ListedFolders
  <2>b. \A F : FilesIn(F) \subseteq LiveFiles
    BY DEF FilesIn
  <2>c. LiveFiles \subseteq FileIds /\ \A x \in LiveFiles : file[x].src \in Sources
    BY DEF LiveFiles, TypeOK
  <2>2. q(found \ {Root}) \in Operation
    BY <1>0, <2>a, <2>b, <2>c DEF Operation
  <2>3. OpOK(q(found \ {Root}), file)
    <3>1. IdleOp.gone = {}
      BY DEF IdleOp
    <3> QED BY <1>0, <2>b, <2>c, <3>1 DEF OpOK, Operation
  <2>4. UNCHANGED <<tree, content, storage, hist>>
    BY <1>5, Zenon DEF Delete
  <2> HIDE DEF q
  <2> QED BY <1>t, <2>1, <2>2, <2>3, <2>4, RowsUnchanged DEF hist
<1> QED BY <1>2, <1>3, <1>4, <1>5, Zenon DEF Request

\* CreateDirectory and Move keep the types.
LEMMA MoveTypes ==
    ASSUME TypeOK, CountersOK', NEW p \in Ops,
           FolderCreate(p) \/ MoveFolderTo(p) \/ MoveFilesTo(p)
    PROVE  TypeOK'
<1>o. op[p] \in Operation /\ OpOK(op[p], file)
  BY DEF TypeOK
<1>i. IdleOp \in Operation /\ OpOK(IdleOp, file) /\ OpOK(IdleOp, file')
  BY IdleOpType
<1>t. /\ content \subseteq Sources /\ storage \in Int /\ uncharged \in Nat
      /\ orphaned \subseteq Sources /\ folder \in [FolderIds -> FolderRow]
  BY DEF TypeOK
<1>1. CASE FolderCreate(p)
  <2>1. Step(p, IdleOp) /\ UNCHANGED <<file, content, storage, hist>>
    BY <1>1, Zenon DEF FolderCreate
  <2>2. folder' \in [FolderIds -> FolderRow]
    <3>1. CASE UNCHANGED folder
      BY <1>t, <3>1
    <3>2. CASE \E f \in FolderIds : folder' = [folder EXCEPT ![f] =
                      [st |-> "live", parent |-> op[p].dst, name |-> op[p].name]]
      BY <1>t, <1>o, <3>2 DEF FolderRow, Operation
    <3> QED BY <1>1, <3>1, <3>2, Zenon DEF FolderCreate
  <2>3. FilesKept
    BY <2>1 DEF FilesKept, TypeOK
  <2> QED BY <1>i, <1>t, <2>1, <2>2, <2>3, TypesKept DEF hist
<1>2. CASE MoveFolderTo(p)
  <2> DEFINE q == [op[p] EXCEPT !.pc = "files"]
             M == {f \in op[p].dirs \cap LiveFolders : folder[f].parent = op[p].src}
  <2>1. UNCHANGED <<file, content, storage, hist>> /\ (Step(p, IdleOp) \/ Step(p, q))
    BY <1>2, Zenon DEF MoveFolderTo
  <2>2. q \in Operation /\ OpOK(q, file)
    BY <1>o DEF Operation, OpOK
  <2>3. folder' \in [FolderIds -> FolderRow]
    <3>1. \/ UNCHANGED folder
          \/ folder' = [f \in FolderIds |->
                IF f \in M THEN [folder[f] EXCEPT !.parent = op[p].dst] ELSE folder[f]]
      BY <1>2, Zenon DEF MoveFolderTo
    <3>2. \A f \in FolderIds : [folder[f] EXCEPT !.parent = op[p].dst] \in FolderRow
      BY <1>o, <1>t DEF FolderRow, Operation
    <3> HIDE DEF M
    <3> QED BY <1>t, <3>1, <3>2
  <2>4. FilesKept /\ file' = file
    BY <2>1 DEF FilesKept, TypeOK
  <2> HIDE DEF q
  <2> QED BY <1>i, <1>t, <2>1, <2>2, <2>3, <2>4, TypesKept DEF hist
<1>3. CASE MoveFilesTo(p)
  <2> DEFINE M == {x \in op[p].files \cap LiveFiles : file[x].folder = op[p].src}
  <2>1. UNCHANGED <<folder, content, storage, hist>> /\ Step(p, IdleOp)
    BY <1>3, Zenon DEF MoveFilesTo
  <2>2. \/ UNCHANGED file
        \/ file' = [x \in FileIds |->
              IF x \in M THEN [file[x] EXCEPT !.folder = op[p].dst] ELSE file[x]]
    BY <1>3, Zenon DEF MoveFilesTo
  <2>3. \A x \in FileIds : /\ [file[x] EXCEPT !.folder = op[p].dst] \in FileRow
                           /\ [file[x] EXCEPT !.folder = op[p].dst].st = file[x].st
                           /\ [file[x] EXCEPT !.folder = op[p].dst].src = file[x].src
    BY <1>o DEF FileRow, Operation, TypeOK
  <2> HIDE DEF M
  <2>4. FilesKept
    BY <2>2, <2>3 DEF FilesKept, TypeOK
  <2> QED BY <1>i, <1>t, <2>1, <2>4, TypesKept DEF hist
<1> QED BY <1>1, <1>2, <1>3

\* The rows that queries return, and the maps and rows of a Copy, are well typed.
LEMMA RowTypes ==
    ASSUME TypeOK
    PROVE  /\ \A F \in SUBSET FolderIds : FolderRows(F) \subseteq Listed
           /\ \A X \in SUBSET LiveFiles :
                 /\ FileRowsOf(X) \in FileRows
                 /\ DOMAIN FileRowsOf(X) = X
                 /\ \A x \in X : /\ FileRowsOf(X)[x].st = "live"
                                 /\ FileRowsOf(X)[x].src \in Sources
                                 /\ FileRowsOf(X)[x].folder = file[x].folder
           /\ \A r \in FileRows : \A x :
                 /\ Without(r, x) \in FileRows
                 /\ DOMAIN Without(r, x) = DOMAIN r \ {x}
                 /\ \A y \in DOMAIN r \ {x} : Without(r, x)[y] = r[y]
           /\ \A m \in NewIds, k \in FolderIds, v \in FolderIds : With(m, k, v) \in NewIds
<1>1. ASSUME NEW F \in SUBSET FolderIds PROVE FolderRows(F) \subseteq Listed
  BY DEF FolderRows, Listed, TypeOK, FolderRow
<1>2. ASSUME NEW X \in SUBSET LiveFiles
      PROVE  /\ FileRowsOf(X) \in FileRows
             /\ DOMAIN FileRowsOf(X) = X
             /\ \A x \in X : /\ FileRowsOf(X)[x].st = "live"
                             /\ FileRowsOf(X)[x].src \in Sources
                             /\ FileRowsOf(X)[x].folder = file[x].folder
  <2>1. X \in SUBSET FileIds /\ FileRowsOf(X) \in [X -> FileRow]
    BY DEF FileRowsOf, LiveFiles, TypeOK
  <2>2. \A x \in X : FileRowsOf(X)[x] = file[x]
    BY DEF FileRowsOf
  <2>3. \A x \in X : file[x].st = "live" /\ file[x].src \in Sources
    BY DEF LiveFiles, TypeOK
  <2> QED BY <2>1, <2>2, <2>3 DEF FileRows
<1>3. ASSUME NEW r \in FileRows, NEW x
      PROVE  /\ Without(r, x) \in FileRows
             /\ DOMAIN Without(r, x) = DOMAIN r \ {x}
             /\ \A y \in DOMAIN r \ {x} : Without(r, x)[y] = r[y]
  <2>1. PICK X \in SUBSET FileIds : r \in [X -> FileRow]
    BY DEF FileRows
  <2>2. Without(r, x) \in [X \ {x} -> FileRow] /\ X \ {x} \in SUBSET FileIds
    BY <2>1 DEF Without
  <2> QED BY <2>1, <2>2 DEF FileRows, Without
<1>4. ASSUME NEW m \in NewIds, NEW k \in FolderIds, NEW v \in FolderIds
      PROVE  With(m, k, v) \in NewIds
  <2>1. PICK F \in SUBSET FolderIds : m \in [F -> FolderIds]
    BY DEF NewIds
  <2>2. With(m, k, v) \in [F \cup {k} -> FolderIds] /\ F \cup {k} \in SUBSET FolderIds
    BY <2>1 DEF With
  <2> QED BY <2>2 DEF NewIds
<1> QED BY <1>1, <1>2, <1>3, <1>4

\* The steps of Copy that read rows or charge the user keep the types.
LEMMA CopyReadTypes ==
    ASSUME TypeOK, CountersOK', NEW p \in Ops,
           CopyListFolders(p) \/ CopyListTreeFiles(p) \/ CopyListFiles(p) \/ CopyCharge(p)
    PROVE  TypeOK'
<1>o. op[p] \in Operation /\ OpOK(op[p], file)
  BY DEF TypeOK
<1>t. /\ content \subseteq Sources /\ storage \in Int /\ uncharged \in Nat
      /\ orphaned \subseteq Sources /\ op[p].size \in Nat
  BY <1>o DEF TypeOK, Operation
<1>f. \A F : FilesIn(F) \in SUBSET LiveFiles
  BY DEF FilesIn
<1>0. ASSUME CopyFails(p), UNCHANGED <<tree, content, storage, orphaned>> PROVE TypeOK'
  <2>1. Step(p, IdleOp) /\ uncharged' \in Nat
    BY <1>0, <1>t DEF CopyFails
  <2> QED BY <1>0, <1>t, <2>1, IdleOpType, RowsUnchanged
<1>1. CASE CopyListFolders(p)
  <2> DEFINE q(F) == [op[p] EXCEPT !.pc = "folders", !.tree = FolderRows(F)]
  <2>1. PICK found \in RecursiveChildFolders(op[p].top) : Step(p, q(found))
    BY <1>1, Zenon DEF CopyListFolders
  <2>2. FolderRows(found) \subseteq Listed
    BY ListedFolders, RowTypes
  <2>3. q(found) \in Operation /\ OpOK(q(found), file)
    BY <1>o, <2>2, ZenonT(60) DEF Operation, OpOK
  <2>4. UNCHANGED <<tree, content, storage, hist>>
    BY <1>1, Zenon DEF CopyListFolders
  <2> HIDE DEF q
  <2> QED BY <1>t, <2>1, <2>3, <2>4, RowsUnchanged DEF hist
<1>2. CASE CopyListTreeFiles(p)
  <2> DEFINE L == {t.id : t \in op[p].tree}
             R == FileRowsOf(FilesIn(L))
             q == [op[p] EXCEPT !.pc = "treefiles", !.rows = R]
  <2>1. /\ UNCHANGED <<tree, content, storage, orphaned>>
        /\ CopyFails(p) \/ (Step(p, q) /\ UNCHANGED uncharged)
        /\ L = DOMAIN op[p].map /\ op[p].kind = "copy"
    BY <1>2, Zenon DEF CopyListTreeFiles, At
  <2>2. /\ R \in FileRows /\ DOMAIN R = FilesIn(L)
        /\ \A x \in DOMAIN R : /\ R[x].st = "live" /\ R[x].src \in Sources
                               /\ R[x].folder = file[x].folder
    BY <1>f, RowTypes
  <2>3. \A x \in FilesIn(L) : file[x].folder \in L
    BY DEF FilesIn
  <2> HIDE DEF R, L
  <2>4. q \in Operation
    BY <1>o, <2>2 DEF Operation
  <2>5. q.rows = R /\ q.map = op[p].map /\ q.kind = "copy" /\ q.pc = "treefiles"
    BY <1>o, <2>1 DEF Operation
  <2> HIDE DEF q
  <2>6. OpOK(q, file)
    BY <2>1, <2>2, <2>3, <2>5 DEF OpOK
  <2> QED BY <1>0, <1>t, <2>1, <2>4, <2>6, RowsUnchanged
<1>3. CASE CopyListFiles(p)
  <2> DEFINE R == FileRowsOf(FilesIn({op[p].src}) \cap op[p].files)
             q1 == [op[p] EXCEPT !.pc = "charge"]
             q2 == [op[p] EXCEPT !.pc = "files", !.rows = R]
  <2>1. /\ CopyFails(p) \/ (Step(p, q1) /\ UNCHANGED uncharged)
                       \/ (Step(p, q2) /\ UNCHANGED uncharged)
        /\ UNCHANGED <<tree, content, storage, orphaned>> /\ op[p].kind = "copy"
    BY <1>3, Zenon DEF CopyListFiles, At
  <2>2. /\ R \in FileRows
        /\ \A x \in DOMAIN R : R[x].st = "live" /\ R[x].src \in Sources
    BY <1>f, RowTypes
  <2>3. q1 \in Operation /\ OpOK(q1, file)
    BY <1>o DEF Operation, OpOK
  <2> HIDE DEF R
  <2>4. q2 \in Operation
    BY <1>o, <2>2 DEF Operation
  <2>5. q2.rows = R /\ q2.pc = "files" /\ q2.kind = "copy"
    BY <1>o, <2>1 DEF Operation
  <2> HIDE DEF q1, q2
  <2>6. OpOK(q2, file)
    BY <2>2, <2>5 DEF OpOK
  <2> QED BY <1>0, <1>t, <2>1, <2>3, <2>4, <2>6, RowsUnchanged
<1>4. CASE CopyCharge(p)
  <2>1. /\ Step(p, IdleOp) /\ UNCHANGED <<tree, content, orphaned>>
        /\ storage' = storage \/ storage' = storage + op[p].size
        /\ uncharged' = uncharged \/ uncharged' = uncharged + op[p].size
    BY <1>4, Zenon DEF CopyCharge
  <2>2. storage' \in Int /\ uncharged' \in Nat
    BY <1>t, <2>1
  <2> QED BY <1>t, <2>1, <2>2, IdleOpType, RowsUnchanged
<1> QED BY <1>1, <1>2, <1>3, <1>4

\* CopyFolderTo's step for one folder keeps the types.
LEMMA CopyFolderTypes ==
    ASSUME TypeOK, CountersOK', NEW p \in Ops, CopyFolder(p) PROVE TypeOK'
<1>o. op[p] \in Operation /\ OpOK(op[p], file)
  BY DEF TypeOK
<1>t. /\ content \subseteq Sources /\ storage \in Int /\ uncharged \in Nat
      /\ orphaned \subseteq Sources /\ folder \in [FolderIds -> FolderRow] /\ op[p].size \in Nat
  BY <1>o DEF TypeOK, Operation
<1> DEFINE q(t, f) == [op[p] EXCEPT !.map = With(op[p].map, t.id, f)]
           Fails == CopyFails(p) /\ UNCHANGED folder
           Inserts(t, f) ==
              /\ folder' = [folder EXCEPT ![f] =
                    [st |-> "live", parent |-> NewParent(p, t), name |-> t.name]]
              /\ Step(p, q(t, f)) /\ UNCHANGED uncharged
<1>1. /\ UNCHANGED <<file, content, storage, orphaned>>
      /\ op[p].kind = "copy" /\ op[p].pc = "folders"
    BY Zenon DEF CopyFolder, At
<1>2. PICK t \in op[p].tree :
         /\ t.id \in op[p].top \/ t.parent \in DOMAIN op[p].map
         /\ Fails \/ \E f \in FolderIds : Inserts(t, f)
  BY Zenon DEF CopyFolder
<1>3. FilesKept /\ file' = file
  BY <1>1 DEF FilesKept, TypeOK
<1>4. CASE Fails
  BY <1>1, <1>3, <1>4, <1>t, IdleOpType, TypesKept DEF CopyFails
<1>5. ASSUME NEW f \in FolderIds, Inserts(t, f) PROVE TypeOK'
  <2>1. t \in Listed
    BY <1>o DEF Operation
  <2>2. NewParent(p, t) \in FolderIds
    <3>1. CASE t.id \in op[p].top
      BY <1>o, <3>1 DEF NewParent, Operation
    <3>2. CASE t.id \notin op[p].top
      <4>1. PICK F \in SUBSET FolderIds : op[p].map \in [F -> FolderIds]
        BY <1>o DEF Operation, NewIds
      <4> QED BY <1>2, <3>2, <4>1 DEF NewParent
    <3> QED BY <3>1, <3>2
  <2>3. folder' \in [FolderIds -> FolderRow]
    <3>1. t.name \in Names \cup {None}
      BY <2>1 DEF Listed
    <3>2. [st |-> "live", parent |-> NewParent(p, t), name |-> t.name] \in FolderRow
      BY <2>2, <3>1 DEF FolderRow
    <3> QED BY <1>5, <1>t, <3>2
  <2>4. With(op[p].map, t.id, f) \in NewIds
    BY <1>o, <2>1, RowTypes DEF Operation, Listed
  <2>5. q(t, f) \in Operation /\ OpOK(q(t, f), file)
    BY <1>o, <1>1, <2>4 DEF Operation, OpOK
  <2>6. Step(p, q(t, f)) /\ uncharged' = uncharged
    BY <1>5
  <2> HIDE DEF q
  <2> QED BY <1>1, <1>3, <1>t, <2>3, <2>5, <2>6, TypesKept
<1> QED BY <1>2, <1>4, <1>5, Zenon

\* What the copy of one file row does: it fails and charges nothing, or inserts
\* a row with the source of one of the rows read.
CopyInserts(p, x, y, d) ==
    /\ file[y].st = "fresh"
    /\ file' = [file EXCEPT ![y] = [op[p].rows[x] EXCEPT !.folder = d]]
    /\ Step(p, [op[p] EXCEPT !.rows = Without(op[p].rows, x),
                             !.size = op[p].size + SizeOf[op[p].rows[x].src]])
    /\ UNCHANGED uncharged

LEMMA CopyFileCases ==
    ASSUME TypeOK, NEW p \in Ops, CopyFile(p)
    PROVE  /\ UNCHANGED <<folder, content, storage, orphaned>>
           /\ op[p].kind = "copy"
           /\ \/ CopyFails(p) /\ UNCHANGED file
              \/ \E x \in DOMAIN op[p].rows, y \in FileIds, d \in FolderIds : CopyInserts(p, x, y, d)
<1>o. op[p] \in Operation /\ OpOK(op[p], file)
  BY DEF TypeOK
<1> DEFINE dest(x) == IF op[p].pc = "files" THEN op[p].dst ELSE op[p].map[op[p].rows[x].folder]
<1>1. /\ UNCHANGED <<folder, content, storage, orphaned>>
      /\ op[p].kind = "copy" /\ (op[p].pc = "files" \/ op[p].pc = "treefiles")
  BY Zenon DEF CopyFile, At
<1>2. PICK x \in DOMAIN op[p].rows :
         \/ CopyFails(p) /\ UNCHANGED file
         \/ \E y \in FileIds : CopyInserts(p, x, y, dest(x))
  BY Zenon DEF CopyFile, CopyInserts
<1>3. dest(x) \in FolderIds
  <2>1. CASE op[p].pc = "files"
    BY <1>o, <2>1 DEF Operation
  <2>2. CASE op[p].pc = "treefiles"
    <3>1. PICK F \in SUBSET FolderIds : op[p].map \in [F -> FolderIds]
      BY <1>o DEF Operation, NewIds
    <3>2. op[p].rows[x].folder \in DOMAIN op[p].map
      BY <1>o, <2>2 DEF OpOK
    <3> QED BY <2>2, <3>1, <3>2
  <2> QED BY <1>1, <2>1, <2>2
<1> HIDE DEF dest
<1> QED BY <1>1, <1>2, <1>3, Zenon

\* The copy of one file row keeps the types.
LEMMA CopyFileTypes ==
    ASSUME TypeOK, CountersOK', NEW p \in Ops, CopyFile(p) PROVE TypeOK'
<1>o. op[p] \in Operation /\ OpOK(op[p], file)
  BY DEF TypeOK
<1>t. /\ content \subseteq Sources /\ storage \in Int /\ uncharged \in Nat
      /\ orphaned \subseteq Sources /\ folder \in [FolderIds -> FolderRow] /\ op[p].size \in Nat
  BY <1>o DEF TypeOK, Operation
<1>1. UNCHANGED <<folder, content, storage, orphaned>> /\ op[p].kind = "copy"
  BY CopyFileCases
<1>2. CASE CopyFails(p) /\ UNCHANGED file
  <2>1. FilesKept
    BY <1>2 DEF FilesKept, TypeOK
  <2>2. uncharged' \in Nat /\ Step(p, IdleOp)
    BY <1>2, <1>t DEF CopyFails
  <2> QED BY <1>1, <1>t, <2>1, <2>2, IdleOpType, TypesKept
<1>3. ASSUME NEW x \in DOMAIN op[p].rows, NEW y \in FileIds, NEW d \in FolderIds,
             CopyInserts(p, x, y, d)
      PROVE  TypeOK'
  <2> DEFINE old == op[p].rows[x]
             W == Without(op[p].rows, x)
             n == op[p].size + SizeOf[old.src]
             q == [op[p] EXCEPT !.rows = W, !.size = n]
  <2>0. op[p].rows \in FileRows
    BY <1>o DEF Operation
  <2>1. old \in FileRow /\ old.st = "live" /\ old.src \in Sources
    <3>1. PICK X \in SUBSET FileIds : op[p].rows \in [X -> FileRow]
      BY <2>0 DEF FileRows
    <3> QED BY <1>o, <3>1 DEF OpOK
  <2>2. n \in Nat
    BY <1>t, <2>1
  <2>3. FilesKept
    <3>1. [old EXCEPT !.folder = d] \in FileRow /\ [old EXCEPT !.folder = d].src \in Sources
      BY <2>1 DEF FileRow
    <3>2. file' = [file EXCEPT ![y] = [old EXCEPT !.folder = d]]
      BY <1>3, Zenon DEF CopyInserts
    <3> HIDE DEF old
    <3> QED BY <3>1, <3>2 DEF FilesKept, TypeOK
  <2>4. Step(p, q) /\ uncharged' = uncharged
    BY <1>3, Zenon DEF CopyInserts
  <2>5. W \in FileRows /\ DOMAIN W \subseteq DOMAIN op[p].rows
        /\ \A z \in DOMAIN W : W[z] = op[p].rows[z]
    <3>1. \A r \in FileRows : /\ Without(r, x) \in FileRows
                              /\ DOMAIN Without(r, x) = DOMAIN r \ {x}
                              /\ \A z \in DOMAIN r \ {x} : Without(r, x)[z] = r[z]
      BY RowTypes, Zenon
    <3> QED BY <2>0, <3>1, Zenon
  <2> HIDE DEF old, W, n
  <2>6. q \in Operation /\ q.rows = W /\ q.map = op[p].map /\ q.pc = op[p].pc /\ q.kind = "copy"
    BY <1>o, <1>1, <2>2, <2>5 DEF Operation
  <2> HIDE DEF q
  <2>7. OpOK(q, file')
    BY <1>o, <1>1, <2>5, <2>6 DEF OpOK
  <2> QED BY <1>1, <1>t, <2>3, <2>4, <2>6, <2>7, TypesKept
<1> QED BY <1>2, <1>3, CopyFileCases

\* What DeleteFiles does: it rolls back, or the rows die and their sizes are
\* given back.
DeleteCommits(p) ==
    /\ op[p].gone \subseteq LiveFiles
    /\ file' = [x \in FileIds |->
          IF x \in op[p].gone THEN [file[x] EXCEPT !.st = "dead"] ELSE file[x]]
    /\ storage' = storage - Sum([x \in op[p].gone |-> SizeOf[file[x].src]], op[p].gone)
    /\ Step(p, IdleOp) \/ Step(p, [op[p] EXCEPT !.pc = "folders"])

LEMMA DeleteRowsCases ==
    ASSUME NEW p \in Ops, DeleteRows(p)
    PROVE  /\ UNCHANGED <<folder, content, uncharged>>
           /\ op[p].kind = "delete"
           /\ orphaned' \subseteq orphaned \cup SourcesOf(op[p].files)
           /\ (UNCHANGED <<file, storage>> /\ Step(p, IdleOp)) \/ DeleteCommits(p)
<1>1. UNCHANGED <<folder, content, uncharged>> /\ op[p].kind = "delete"
  BY Zenon DEF DeleteRows, At
<1>2. orphaned' = orphaned \/ orphaned' = orphaned \cup Missing(p)
  BY Zenon DEF DeleteRows
<1>3. (UNCHANGED <<file, storage>> /\ Step(p, IdleOp)) \/ DeleteCommits(p)
  BY Zenon DEF DeleteRows, DeleteCommits, Dirty
<1> QED BY <1>1, <1>2, <1>3, Zenon DEF Missing

\* The steps of Delete keep the types.
LEMMA DeleteTypes ==
    ASSUME TypeOK, CountersOK', NEW p \in Ops,
           \/ RemoveFilesWithSoftLinks(p) \/ DeleteContent(p)
           \/ DeleteRows(p) \/ DeleteFolders(p)
    PROVE  TypeOK'
<1>o. op[p] \in Operation /\ OpOK(op[p], file)
  BY DEF TypeOK
<1>i. IdleOp \in Operation /\ OpOK(IdleOp, file) /\ OpOK(IdleOp, file')
  BY IdleOpType
<1>t. /\ content \subseteq Sources /\ storage \in Int /\ uncharged \in Nat
      /\ orphaned \subseteq Sources /\ folder \in [FolderIds -> FolderRow]
      /\ file \in [FileIds -> FileRow]
  BY <1>o DEF TypeOK
<1>s. op[p].kind = "delete" => SourcesOf(op[p].files) \subseteq Sources
  BY <1>o DEF SourcesOf, OpOK
<1>1. CASE RemoveFilesWithSoftLinks(p)
  <2> DEFINE q(S) == [op[p] EXCEPT !.pc = "unlink", !.unlink = S]
  <2>1. PICK failed \in SUBSET op[p].files : Step(p, q(WithoutSoftLinks(op[p].files, failed)))
    BY <1>1, Zenon DEF RemoveFilesWithSoftLinks
  <2>2. UNCHANGED <<tree, content, storage, hist>> /\ op[p].kind = "delete"
    BY <1>1, Zenon DEF RemoveFilesWithSoftLinks, At
  <2>3. WithoutSoftLinks(op[p].files, failed) \subseteq Sources
    BY <1>s, <2>2 DEF WithoutSoftLinks
  <2>4. \A S \in SUBSET Sources : q(S) \in Operation /\ OpOK(q(S), file)
    BY <1>o, ZenonT(60) DEF Operation, OpOK
  <2> HIDE DEF q
  <2> QED BY <1>t, <2>1, <2>2, <2>3, <2>4, RowsUnchanged DEF hist
<1>2. CASE DeleteContent(p)
  <2> DEFINE q(X) == [op[p] EXCEPT !.pc = "rows", !.gone = X]
  <2>1. PICK failed \in SUBSET op[p].unlink :
           Step(p, q(DeletedRows(p, failed))) /\ content' = content \ (op[p].unlink \ failed)
    BY <1>2, Zenon DEF DeleteContent
  <2>2. UNCHANGED <<tree, storage, hist>> /\ op[p].kind = "delete"
    BY <1>2, Zenon DEF DeleteContent, At
  <2>3. DeletedRows(p, failed) \subseteq op[p].files
    BY DEF DeletedRows
  <2>4. ASSUME NEW X \in SUBSET op[p].files PROVE q(X) \in Operation /\ OpOK(q(X), file)
    <3>1. q(X) \in Operation
      BY <1>o DEF Operation
    <3>2. /\ q(X).rows = op[p].rows /\ q(X).files = op[p].files /\ q(X).gone = X
          /\ q(X).pc = "rows" /\ q(X).kind = op[p].kind /\ q(X).size = op[p].size
      BY <1>o DEF Operation
    <3> HIDE DEF q
    <3> QED BY <1>o, <2>2, <3>1, <3>2 DEF OpOK
  <2>5. content' \subseteq Sources
    BY <1>t, <2>1
  <2> HIDE DEF q
  <2> QED BY <1>t, <2>1, <2>2, <2>3, <2>4, <2>5, RowsUnchanged DEF hist
<1>3. CASE DeleteRows(p)
  <2> DEFINE q == [op[p] EXCEPT !.pc = "folders"]
  <2>1. /\ UNCHANGED <<folder, content, uncharged>> /\ orphaned' \subseteq Sources
    BY <1>3, <1>s, <1>t, DeleteRowsCases
  <2>2. CASE UNCHANGED <<file, storage>> /\ Step(p, IdleOp)
    <3>1. FilesKept
      BY <2>2 DEF FilesKept, TypeOK
    <3> QED BY <1>i, <1>t, <2>1, <2>2, <3>1, TypesKept
  <2>3. CASE DeleteCommits(p)
    <3>1. \A x \in FileIds : /\ [file[x] EXCEPT !.st = "dead"] \in FileRow
                             /\ [file[x] EXCEPT !.st = "dead"].src = file[x].src
                             /\ file'[x].src = file[x].src
      BY <1>t, <2>3 DEF DeleteCommits, FileRow
    <3>2. \A x \in FileIds : file'[x] = IF x \in op[p].gone
                                        THEN [file[x] EXCEPT !.st = "dead"] ELSE file[x]
      BY <2>3 DEF DeleteCommits
    <3>3. FilesKept
      <4>1. file' \in [FileIds -> FileRow]
        BY <1>t, <2>3, <3>1 DEF DeleteCommits
      <4>2. ASSUME NEW x \in FileIds
            PROVE  /\ file'[x].st # "fresh" => file'[x].src \in Sources
                   /\ file[x].src \in Sources => file'[x].src \in Sources
        <5>1. CASE x \in op[p].gone
          BY <2>3, <3>1, <5>1 DEF DeleteCommits, LiveFiles, TypeOK
        <5>2. CASE x \notin op[p].gone
          BY <3>2, <5>2 DEF TypeOK
        <5> QED BY <5>1, <5>2
      <4> QED BY <4>1, <4>2 DEF FilesKept
    <3>4. storage' \in Int
      <4>1. op[p].gone \subseteq FileIds
        BY <1>o DEF Operation
      <4>2. IsFiniteSet(op[p].gone)
        BY <4>1, FS_Subset
      <4> DEFINE sizes == [x \in op[p].gone |-> SizeOf[file[x].src]]
      <4>3. \A x \in op[p].gone : sizes[x] \in Nat
        BY <2>3 DEF DeleteCommits, LiveFiles, TypeOK
      <4>4. storage' = storage - Sum(sizes, op[p].gone)
        BY <2>3 DEF DeleteCommits
      <4> HIDE DEF sizes
      <4>5. Sum(sizes, op[p].gone) \in Nat
        BY <4>2, <4>3, SumIsNat
      <4> QED BY <1>t, <4>4, <4>5
    <3>5. q \in Operation
      BY <1>o DEF Operation
    <3>6. /\ q.rows = op[p].rows /\ q.files = op[p].files /\ q.gone = op[p].gone
          /\ q.pc = "folders" /\ q.kind = op[p].kind /\ q.size = op[p].size
      BY <1>o DEF Operation
    <3>7. OpOK(q, file')
      <4>1. op[p].files \subseteq FileIds /\ op[p].gone \subseteq FileIds
        BY <1>o DEF Operation
      <4> HIDE DEF q
      <4> QED BY <1>o, <3>1, <3>6, <4>1 DEF OpOK
    <3>8. Step(p, IdleOp) \/ Step(p, q)
      BY <2>3 DEF DeleteCommits
    <3> HIDE DEF q
    <3> QED BY <1>i, <1>t, <2>1, <3>3, <3>4, <3>5, <3>7, <3>8, TypesKept
  <2> QED BY <1>3, <2>2, <2>3, DeleteRowsCases
<1>4. CASE DeleteFolders(p)
  <2>1. Step(p, IdleOp) /\ UNCHANGED <<file, content, storage, hist>>
    BY <1>4, Zenon DEF DeleteFolders
  <2>2. folder' \in [FolderIds -> FolderRow]
    <3>1. \/ UNCHANGED folder
          \/ folder' = [f \in FolderIds |->
                IF f \in op[p].dirs THEN [folder[f] EXCEPT !.st = "dead"] ELSE folder[f]]
      BY <1>4, Zenon DEF DeleteFolders
    <3>2. \A f \in FolderIds : [folder[f] EXCEPT !.st = "dead"] \in FolderRow
      BY <1>t DEF FolderRow
    <3> QED BY <1>t, <3>1, <3>2
  <2>3. FilesKept
    BY <2>1 DEF FilesKept, TypeOK
  <2> QED BY <1>i, <1>t, <2>1, <2>2, <2>3, TypesKept DEF hist
<1> QED BY <1>1, <1>2, <1>3, <1>4

\* Uploads and renames keep the types.
LEMMA WriteTypes ==
    ASSUME TypeOK, CountersOK', Write PROVE TypeOK'
<1>1. op' = op /\ orphaned' = orphaned /\ uncharged' = uncharged
  BY Zenon DEF Write, AddFile, RenameFile, RenameFolder, hist
<1>2. ASSUME FilesKept, folder' \in [FolderIds -> FolderRow], content' \subseteq Sources,
             storage' \in Int
      PROVE  TypeOK'
  <2>1. ASSUME NEW r \in Ops PROVE OpOK(op'[r], file')
    <3>1. OpOK(op[r], file) /\ op'[r] = op[r]
      BY <1>1 DEF TypeOK
    <3>2. op[r].files \subseteq FileIds /\ op[r].gone \subseteq FileIds
      BY DEF TypeOK, Operation
    <3> QED BY <1>2, <3>1, <3>2 DEF OpOK, FilesKept
  <2> QED BY <1>1, <1>2, <2>1 DEF TypeOK, FilesKept
<1>3. ASSUME NEW x \in FileIds, NEW s \in Sources, NEW n \in Names, NEW d \in FolderIds,
             AddFile(x, s, n, d)
      PROVE  TypeOK'
  <2>1. [st |-> "live", folder |-> d, name |-> n, src |-> s] \in FileRow
    BY DEF FileRow
  <2>2. FilesKept
    BY <1>3, <2>1 DEF AddFile, FilesKept, TypeOK
  <2>3. content' \subseteq Sources /\ storage' \in Int /\ folder' = folder
    BY <1>3 DEF AddFile, TypeOK
  <2> QED BY <1>2, <2>2, <2>3 DEF TypeOK
<1>4. ASSUME NEW x \in FileIds, NEW n \in Names, RenameFile(x, n) PROVE TypeOK'
  <2>1. FilesKept
    BY <1>4 DEF RenameFile, FilesKept, TypeOK, FileRow
  <2> QED BY <1>2, <1>4, <2>1 DEF RenameFile, TypeOK
<1>5. ASSUME NEW f \in FolderIds, NEW n \in Names, RenameFolder(f, n) PROVE TypeOK'
  <2>1. FilesKept
    BY <1>5 DEF RenameFolder, FilesKept, TypeOK
  <2>2. folder' \in [FolderIds -> FolderRow]
    BY <1>5 DEF RenameFolder, TypeOK, FolderRow
  <2> QED BY <1>2, <1>5, <2>1, <2>2 DEF RenameFolder, TypeOK
<1> QED BY <1>3, <1>4, <1>5, Zenon DEF Write

\* What running copies have added is a natural number.
LEMMA OpSizeType ==
    ASSUME TypeOK
    PROVE  /\ \A p \in Ops : OpSize(op)[p] = op[p].size /\ OpSize(op)[p] \in Nat
           /\ Sum(OpSize(op), Ops) \in Nat
<1>1. \A p \in Ops : OpSize(op)[p] = op[p].size /\ OpSize(op)[p] \in Nat
  BY DEF OpSize, TypeOK, Operation
<1>2. Sum(OpSize(op), Ops) \in Nat
  BY <1>1, SumIsNat
<1> QED BY <1>1, <1>2

\* A restart keeps the types.
LEMMA CrashTypes ==
    ASSUME TypeOK, CountersOK', Crash PROVE TypeOK'
<1>1. /\ op' = [p \in Ops |-> IdleOp] /\ UNCHANGED <<tree, content, storage>>
      /\ uncharged' = uncharged + Sum(OpSize(op), Ops)
      /\ orphaned' = orphaned \cup UNION {Missing(p) : p \in {q \in Ops : At(q, "delete", "rows")}}
  BY Zenon DEF Crash
<1>2. ASSUME NEW p \in Ops, At(p, "delete", "rows") PROVE Missing(p) \subseteq Sources
  BY <1>2 DEF TypeOK, OpOK, Missing, SourcesOf, At
<1>3. orphaned' \subseteq Sources
  BY <1>1, <1>2 DEF TypeOK
<1>4. uncharged' \in Nat
  BY <1>1, OpSizeType DEF TypeOK
<1>5. op' \in [Ops -> Operation] /\ \A p \in Ops : OpOK(op'[p], file')
  BY <1>1, IdleOpType
<1> QED BY <1>1, <1>3, <1>4, <1>5 DEF TypeOK, tree

\* The initial state has the types.
LEMMA TreeInitTypes == Init => TypeOK
<1> SUFFICES ASSUME Init PROVE TypeOK
  OBVIOUS
<1>1. FreshFolder \in FolderRow /\ [FreshFolder EXCEPT !.st = "live"] \in FolderRow
  BY DEF FreshFolder, FolderRow
<1>2. FreshFile \in FileRow /\ FreshFile.st = "fresh"
  BY DEF FreshFile, FileRow
<1>3. folder \in [FolderIds -> FolderRow] /\ file \in [FileIds -> FileRow]
  BY <1>1, <1>2 DEF Init
<1>4. op \in [Ops -> Operation] /\ \A p \in Ops : OpOK(op[p], file)
  BY IdleOpType DEF Init
<1> QED BY <1>2, <1>3, <1>4 DEF Init, TypeOK, CountersOK

\* Every step keeps the types, whatever the interleaving.
LEMMA TreeNextTypes == TypeOK /\ [Next]_vars => TypeOK'
<1> SUFFICES ASSUME TypeOK, [Next]_vars PROVE TypeOK'
  OBVIOUS
<1>0. CountersOK'
  BY CountersType DEF TypeOK
<1>1. CASE UNCHANGED vars
  <2>1. /\ UNCHANGED <<folder, file, content, storage, op, uncharged, orphaned>>
    BY <1>1 DEF vars
  <2> QED BY <1>0, <2>1 DEF TypeOK
<1>2. CASE Write
  BY <1>0, <1>2, WriteTypes
<1>3. CASE Crash
  BY <1>0, <1>3, CrashTypes
<1>4. ASSUME NEW p \in Ops, Request(p) PROVE TypeOK'
  BY <1>0, <1>4, RequestTypes
<1>5. ASSUME NEW p \in Ops, Advance(p) PROVE TypeOK'
  BY <1>0, <1>5, MoveTypes, CopyReadTypes, CopyFolderTypes, CopyFileTypes, DeleteTypes, Zenon
     DEF Advance
<1> QED BY <1>1, <1>2, <1>3, <1>4, <1>5, Zenon DEF Next

\* The types of FileTree are invariant.
THEOREM TreeTypeCorrect == Spec => []TypeOK
BY TreeInitTypes, TreeNextTypes, PTL DEF Spec

----------------------------------------------------------------------------
(* The ledger *)

\* The sizes of the file rows are natural numbers.
LEMMA RowSizeType ==
    ASSUME TypeOK
    PROVE  /\ \A x \in FileIds : RowSize(file)[x] \in Nat
           /\ Sum(RowSize(file), FileIds) \in Nat
<1>1. ASSUME NEW x \in FileIds PROVE RowSize(file)[x] \in Nat
  BY DEF RowSize, TypeOK
<1> QED BY <1>1, SumIsNat

\* A step of one operation changes the sum of what copies have added by what it
\* changes in that operation.
LEMMA OpSizeStep ==
    ASSUME TypeOK, TypeOK', NEW p \in Ops, NEW q \in Operation, Step(p, q)
    PROVE  Sum(OpSize(op'), Ops) = Sum(OpSize(op), Ops) + (q.size - op[p].size)
<1> DEFINE f == OpSize(op)
           g == OpSize(op')
<1>1. f[p] = op[p].size /\ g[p] = q.size /\ \A r \in Ops \ {p} : f[r] = g[r]
  BY DEF OpSize, Step, TypeOK
<1>2. \A r \in Ops : f[r] \in Nat /\ g[r] \in Nat
  BY DEF OpSize, TypeOK, Operation
<1> HIDE DEF f, g
<1>3. Sum(g, Ops) = Sum(f, Ops) + (g[p] - f[p])
  BY <1>1, <1>2, SumUpdate
<1> QED BY <1>1, <1>3 DEF f, g

\* A step that leaves the sizes of the rows alone keeps the ledger if what it
\* takes from one of the three accounts it adds to another.
LEMMA LedgerStep ==
    ASSUME TypeOK, TypeOK', TreeLedger, NEW p \in Ops, NEW q \in Operation, Step(p, q),
           RowSize(file') = RowSize(file),
           storage' + q.size + uncharged' = storage + op[p].size + uncharged
    PROVE  TreeLedger'
<1>1. Sum(OpSize(op'), Ops) = Sum(OpSize(op), Ops) + (q.size - op[p].size)
  BY OpSizeStep
<1>2. Sum(OpSize(op), Ops) \in Nat /\ op[p].size \in Nat
  BY OpSizeType
<1>3. q.size \in Nat /\ storage \in Int /\ uncharged \in Nat /\ storage' \in Int /\ uncharged' \in Nat
  BY DEF Operation, TypeOK
<1>4. Sum(RowSize(file), FileIds) \in Nat
  BY RowSizeType
<1>5. storage + Sum(OpSize(op), Ops) + uncharged = Sum(RowSize(file), FileIds)
  BY DEF TreeLedger
<1>6. storage' + Sum(OpSize(op'), Ops) + uncharged' = Sum(RowSize(file'), FileIds)
  BY <1>1, <1>2, <1>3, <1>4, <1>5
<1> QED BY <1>6 DEF TreeLedger

\* A step of one operation that neither adds nor charges anything.
LEMMA LedgerUntouched ==
    ASSUME TypeOK, TypeOK', TreeLedger, NEW p \in Ops, NEW q \in Operation, Step(p, q),
           q.size = op[p].size, RowSize(file') = RowSize(file), UNCHANGED <<storage, uncharged>>
    PROVE  TreeLedger'
<1>1. storage' + q.size + uncharged' = storage + op[p].size + uncharged
  OBVIOUS
<1> QED BY <1>1, LedgerStep

\* Requests add and charge nothing.
LEMMA RequestLedger ==
    ASSUME TypeOK, TypeOK', TreeLedger, NEW p \in Ops, Request(p) PROVE TreeLedger'
<1>0. IdleOp \in Operation /\ IdleOp.size = 0
  BY IdleOpType
<1>1. Idle(p) => op[p].size = 0
  BY DEF TypeOK, OpOK, Idle
<1>2. ASSUME Idle(p), NEW q, Step(p, q), q.size = 0, UNCHANGED <<tree, storage, hist>>
      PROVE  TreeLedger'
  <2>1. op'[p] = q /\ q \in Operation
    BY <1>2 DEF Step, TypeOK
  <2> QED BY <1>1, <1>2, <2>1, LedgerUntouched DEF tree, hist
<1>3. ASSUME NEW n \in Names, CreateDirectory(p, n) PROVE TreeLedger'
  <2> DEFINE q(d) == [IdleOp EXCEPT !.kind = "mkdir", !.pc = "create", !.dst = d, !.name = n]
  <2>1. PICK d \in Reachable : Step(p, q(d))
    BY <1>3, Zenon DEF CreateDirectory
  <2>2. q(d).size = 0
    BY <1>0 DEF Operation
  <2>3. Idle(p) /\ UNCHANGED <<tree, storage, hist>>
    BY <1>3, Zenon DEF CreateDirectory
  <2> HIDE DEF q
  <2> QED BY <1>2, <2>1, <2>2, <2>3
<1>4. ASSUME NEW dirs, NEW files, Move(p, dirs, files) PROVE TreeLedger'
  <2> DEFINE q(s, d) == [IdleOp EXCEPT !.kind = "move", !.pc = "folders", !.src = s,
                                    !.dst = d, !.dirs = dirs, !.files = files]
  <2>1. PICK s \in Reachable, d \in Reachable : Step(p, q(s, d))
    BY <1>4, Zenon DEF Move
  <2>2. q(s, d).size = 0
    BY <1>0 DEF Operation
  <2>3. Idle(p) /\ UNCHANGED <<tree, storage, hist>>
    BY <1>4, Zenon DEF Move
  <2> HIDE DEF q
  <2> QED BY <1>2, <2>1, <2>2, <2>3
<1>5. ASSUME NEW dirs, NEW files, Copy(p, dirs, files) PROVE TreeLedger'
  <2> DEFINE q(s, d) == [IdleOp EXCEPT !.kind = "copy",
                                 !.pc = IF dirs = {} THEN "list" ELSE "tree",
                                 !.src = s, !.dst = d, !.top = dirs, !.files = files]
  <2>1. PICK s \in Reachable, d \in Reachable : Step(p, q(s, d))
    BY <1>5, Zenon DEF Copy
  <2>2. q(s, d).size = 0
    BY <1>0 DEF Operation
  <2>3. Idle(p) /\ UNCHANGED <<tree, storage, hist>>
    BY <1>5, Zenon DEF Copy
  <2> HIDE DEF q
  <2> QED BY <1>2, <2>1, <2>2, <2>3
<1>6. ASSUME NEW dirs, NEW files, NEW force, Delete(p, dirs, files, force) PROVE TreeLedger'
  <2> DEFINE named == files \cap LiveFiles
             q(below) == [IdleOp EXCEPT !.kind = "delete", !.pc = "links", !.dirs = below,
                            !.files = FilesIn(below) \cup named, !.force = force,
                            !.twice = FilesIn(below) \cap named]
  <2>1. PICK found \in RecursiveChildFolders(dirs) : Step(p, q(found \ {Root}))
    BY <1>6, Zenon DEF Delete
  <2>2. q(found \ {Root}).size = 0
    BY <1>0 DEF Operation
  <2>3. Idle(p) /\ UNCHANGED <<tree, storage, hist>>
    BY <1>6, Zenon DEF Delete
  <2> HIDE DEF q
  <2> QED BY <1>2, <2>1, <2>2, <2>3
<1> QED BY <1>3, <1>4, <1>5, <1>6, Zenon DEF Request

\* Rows whose state and source stay the same keep their size.
LEMMA SameRowSize ==
    ASSUME \A x \in FileIds : file'[x].st = file[x].st /\ file'[x].src = file[x].src
    PROVE  RowSize(file') = RowSize(file)
BY DEF RowSize

\* A Copy that fails moves what it has added to the account of the uncharged.
LEMMA FailedCopyLedger ==
    ASSUME TypeOK, TypeOK', TreeLedger, NEW p \in Ops, CopyFails(p), UNCHANGED <<file, storage>>
    PROVE  TreeLedger'
<1>1. Step(p, IdleOp) /\ uncharged' = uncharged + op[p].size
  BY DEF CopyFails
<1>2. IdleOp \in Operation /\ IdleOp.size = 0
  BY IdleOpType
<1>3. storage \in Int /\ uncharged \in Nat /\ op[p].size \in Nat
  BY DEF TypeOK, Operation
<1>4. storage' + IdleOp.size + uncharged' = storage + op[p].size + uncharged
  BY <1>1, <1>2, <1>3
<1> QED BY <1>1, <1>2, <1>4, LedgerStep

\* Everything but inserting, charging and deleting files leaves the accounts as
\* they are, unless it ends a Copy.
LEMMA QuietLedger ==
    ASSUME TypeOK, TypeOK', TreeLedger, NEW p \in Ops,
           \/ FolderCreate(p) \/ MoveFolderTo(p) \/ MoveFilesTo(p) \/ CopyListFolders(p)
           \/ CopyListTreeFiles(p) \/ CopyListFiles(p) \/ RemoveFilesWithSoftLinks(p)
           \/ DeleteContent(p) \/ DeleteFolders(p)
    PROVE  TreeLedger'
<1>o. op[p] \in Operation /\ (op[p].kind # "copy" => op[p].size = 0)
  BY DEF TypeOK, OpOK
<1>i. IdleOp \in Operation /\ IdleOp.size = 0
  BY IdleOpType
<1>0. ASSUME NEW q, Step(p, q), q.size = op[p].size, RowSize(file') = RowSize(file),
             UNCHANGED <<storage, uncharged>>
      PROVE  TreeLedger'
  <2>1. op'[p] = q /\ q \in Operation
    BY <1>0 DEF Step, TypeOK
  <2> QED BY <1>0, <2>1, LedgerUntouched
<1>1. CASE FolderCreate(p)
  <2>1. Step(p, IdleOp) /\ UNCHANGED <<file, storage, uncharged>> /\ op[p].kind = "mkdir"
    BY <1>1, Zenon DEF FolderCreate, At, hist
  <2> QED BY <1>o, <1>i, <1>0, <2>1
<1>2. CASE MoveFolderTo(p)
  <2> DEFINE q == [op[p] EXCEPT !.pc = "files"]
  <2>1. /\ Step(p, IdleOp) \/ Step(p, q)
        /\ UNCHANGED <<file, storage, uncharged>> /\ op[p].kind = "move"
    BY <1>2, Zenon DEF MoveFolderTo, At, hist
  <2>2. q.size = op[p].size
    BY <1>o DEF Operation
  <2> HIDE DEF q
  <2> QED BY <1>o, <1>i, <1>0, <2>1, <2>2
<1>3. CASE MoveFilesTo(p)
  <2> DEFINE M == {x \in op[p].files \cap LiveFiles : file[x].folder = op[p].src}
  <2>1. UNCHANGED <<storage, uncharged>> /\ Step(p, IdleOp) /\ op[p].kind = "move"
    BY <1>3, Zenon DEF MoveFilesTo, At, hist
  <2>2. \/ UNCHANGED file
        \/ file' = [x \in FileIds |->
              IF x \in M THEN [file[x] EXCEPT !.folder = op[p].dst] ELSE file[x]]
    BY <1>3, Zenon DEF MoveFilesTo
  <2>3. \A x \in FileIds : /\ [file[x] EXCEPT !.folder = op[p].dst].st = file[x].st
                           /\ [file[x] EXCEPT !.folder = op[p].dst].src = file[x].src
    BY DEF FileRow, TypeOK
  <2> HIDE DEF M
  <2>4. RowSize(file') = RowSize(file)
    BY <2>2, <2>3, SameRowSize
  <2> QED BY <1>o, <1>i, <1>0, <2>1, <2>4
<1>4. CASE CopyListFolders(p)
  <2> DEFINE q(F) == [op[p] EXCEPT !.pc = "folders", !.tree = FolderRows(F)]
  <2>1. PICK found \in RecursiveChildFolders(op[p].top) : Step(p, q(found))
    BY <1>4, Zenon DEF CopyListFolders
  <2>2. q(found).size = op[p].size
    BY <1>o DEF Operation
  <2>3. UNCHANGED <<file, storage, uncharged>>
    BY <1>4, Zenon DEF CopyListFolders, tree, hist
  <2> HIDE DEF q
  <2> QED BY <1>0, <2>1, <2>2, <2>3
<1>5. CASE CopyListTreeFiles(p)
  <2> DEFINE R == FileRowsOf(FilesIn({t.id : t \in op[p].tree}))
             q == [op[p] EXCEPT !.pc = "treefiles", !.rows = R]
  <2>1. /\ UNCHANGED <<file, storage>>
        /\ CopyFails(p) \/ (Step(p, q) /\ UNCHANGED uncharged)
    BY <1>5, Zenon DEF CopyListTreeFiles, tree
  <2> HIDE DEF R
  <2>2. q.size = op[p].size
    BY <1>o DEF Operation
  <2> HIDE DEF q
  <2> QED BY <1>0, <2>1, <2>2, FailedCopyLedger
<1>6. CASE CopyListFiles(p)
  <2> DEFINE R == FileRowsOf(FilesIn({op[p].src}) \cap op[p].files)
             q1 == [op[p] EXCEPT !.pc = "charge"]
             q2 == [op[p] EXCEPT !.pc = "files", !.rows = R]
  <2>1. /\ UNCHANGED <<file, storage>>
        /\ CopyFails(p) \/ (Step(p, q1) /\ UNCHANGED uncharged)
                       \/ (Step(p, q2) /\ UNCHANGED uncharged)
    BY <1>6, Zenon DEF CopyListFiles, tree
  <2> HIDE DEF R
  <2>2. q1.size = op[p].size /\ q2.size = op[p].size
    BY <1>o DEF Operation
  <2> HIDE DEF q1, q2
  <2> QED BY <1>0, <2>1, <2>2, FailedCopyLedger
<1>7. CASE RemoveFilesWithSoftLinks(p)
  <2> DEFINE q(S) == [op[p] EXCEPT !.pc = "unlink", !.unlink = S]
  <2>1. PICK failed \in SUBSET op[p].files : Step(p, q(WithoutSoftLinks(op[p].files, failed)))
    BY <1>7, Zenon DEF RemoveFilesWithSoftLinks
  <2>2. UNCHANGED <<file, storage, uncharged>>
    BY <1>7, Zenon DEF RemoveFilesWithSoftLinks, tree, hist
  <2>3. \A S : q(S).size = op[p].size
    BY <1>o DEF Operation
  <2> HIDE DEF q
  <2> QED BY <1>0, <2>1, <2>2, <2>3
<1>8. CASE DeleteContent(p)
  <2> DEFINE q(X) == [op[p] EXCEPT !.pc = "rows", !.gone = X]
  <2>1. PICK failed \in SUBSET op[p].unlink : Step(p, q(DeletedRows(p, failed)))
    BY <1>8, Zenon DEF DeleteContent
  <2>2. UNCHANGED <<file, storage, uncharged>>
    BY <1>8, Zenon DEF DeleteContent, tree, hist
  <2>3. \A X : q(X).size = op[p].size
    BY <1>o DEF Operation
  <2> HIDE DEF q
  <2> QED BY <1>0, <2>1, <2>2, <2>3
<1>9. CASE DeleteFolders(p)
  <2>1. Step(p, IdleOp) /\ UNCHANGED <<file, storage, uncharged>> /\ op[p].kind = "delete"
    BY <1>9, Zenon DEF DeleteFolders, At, hist
  <2> QED BY <1>o, <1>i, <1>0, <2>1
<1> QED BY <1>1, <1>2, <1>3, <1>4, <1>5, <1>6, <1>7, <1>8, <1>9

\* A new row of size n raises the sum of the rows by n.
LEMMA NewRow ==
    ASSUME TypeOK, TypeOK', NEW y \in FileIds, file[y].st = "fresh", NEW r,
           r.st = "live", file' = [file EXCEPT ![y] = r]
    PROVE  Sum(RowSize(file'), FileIds) = Sum(RowSize(file), FileIds) + SizeOf[r.src]
<1> DEFINE f == RowSize(file)
           g == RowSize(file')
<1>1. f[y] = 0 /\ g[y] = SizeOf[r.src] /\ \A x \in FileIds \ {y} : f[x] = g[x]
  BY DEF RowSize, TypeOK
<1>2. \A x \in FileIds : f[x] \in Nat /\ g[x] \in Nat
  BY DEF RowSize, TypeOK
<1> HIDE DEF f, g
<1>3. Sum(g, FileIds) = Sum(f, FileIds) + (g[y] - f[y])
  BY <1>1, <1>2, SumUpdate
<1>4. g[y] - f[y] = SizeOf[r.src]
  BY <1>1, <1>2
<1> QED BY <1>3, <1>4 DEF f, g

\* The steps of Copy that insert rows or charge the user keep the ledger.
LEMMA CopyLedger ==
    ASSUME TypeOK, TypeOK', TreeLedger, NEW p \in Ops,
           CopyFolder(p) \/ CopyFile(p) \/ CopyCharge(p)
    PROVE  TreeLedger'
<1>o. op[p] \in Operation /\ OpOK(op[p], file)
  BY DEF TypeOK
<1>t. storage \in Int /\ uncharged \in Nat /\ op[p].size \in Nat
  BY <1>o DEF TypeOK, Operation
<1>1. CASE CopyFolder(p)
  <2> DEFINE q(t, f) == [op[p] EXCEPT !.map = With(op[p].map, t.id, f)]
  <2>1. UNCHANGED <<file, storage>>
    BY <1>1, Zenon DEF CopyFolder
  <2>2. CopyFails(p) \/ \E t, f : Step(p, q(t, f)) /\ UNCHANGED uncharged
    BY <1>1, Zenon DEF CopyFolder
  <2>3. ASSUME NEW t, NEW f, Step(p, q(t, f)), UNCHANGED uncharged PROVE TreeLedger'
    <3>1. q(t, f).size = op[p].size
      BY <1>o DEF Operation
    <3>2. q(t, f) \in Operation
      <4>1. op'[p] = q(t, f)
        BY <2>3 DEF Step, TypeOK
      <4> QED BY <4>1 DEF TypeOK
    <3> HIDE DEF q
    <3> QED BY <2>1, <2>3, <3>1, <3>2, LedgerUntouched
  <2> QED BY <2>1, <2>2, <2>3, FailedCopyLedger
<1>2. CASE CopyFile(p)
  <2>1. storage' = storage
    BY <1>2, CopyFileCases
  <2>2. ASSUME NEW x \in DOMAIN op[p].rows, NEW y \in FileIds, NEW d \in FolderIds,
               CopyInserts(p, x, y, d)
        PROVE  TreeLedger'
    <3> DEFINE old == op[p].rows[x]
               r == [old EXCEPT !.folder = d]
               W == Without(op[p].rows, x)
               n == SizeOf[old.src]
               q == [op[p] EXCEPT !.rows = W, !.size = op[p].size + n]
    <3>1. old \in FileRow /\ old.st = "live" /\ old.src \in Sources
      <4>1. PICK X \in SUBSET FileIds : op[p].rows \in [X -> FileRow]
        BY <1>o DEF Operation, FileRows
      <4> QED BY <1>o, <4>1 DEF OpOK
    <3>2. r.st = "live" /\ r.src = old.src /\ n \in Nat
      BY <3>1 DEF FileRow
    <3>3. file[y].st = "fresh" /\ file' = [file EXCEPT ![y] = r] /\ Step(p, q) /\ uncharged' = uncharged
      BY <2>2, Zenon DEF CopyInserts
    <3> HIDE DEF old, r, W
    <3>4. Sum(RowSize(file'), FileIds) = Sum(RowSize(file), FileIds) + n
      BY <3>2, <3>3, NewRow
    <3>5. q.size = op[p].size + n
      BY <1>o DEF Operation
    <3>6. q \in Operation
      <4>1. op'[p] = q
        BY <3>3 DEF Step, TypeOK
      <4> QED BY <4>1 DEF TypeOK
    <3> HIDE DEF q, n
    <3>7. Sum(OpSize(op'), Ops) = Sum(OpSize(op), Ops) + (q.size - op[p].size)
      BY <3>3, <3>6, OpSizeStep
    <3>8. Sum(OpSize(op), Ops) \in Nat /\ Sum(RowSize(file), FileIds) \in Nat
      BY OpSizeType, RowSizeType
    <3>9. storage + Sum(OpSize(op), Ops) + uncharged = Sum(RowSize(file), FileIds)
      BY DEF TreeLedger
    <3>10. storage' + Sum(OpSize(op'), Ops) + uncharged' = Sum(RowSize(file'), FileIds)
      BY <1>t, <2>1, <3>2, <3>3, <3>4, <3>5, <3>7, <3>8, <3>9
    <3> QED BY <3>10 DEF TreeLedger
  <2> QED BY <1>2, <2>1, <2>2, CopyFileCases, FailedCopyLedger
<1>3. CASE CopyCharge(p)
  <2>1. /\ Step(p, IdleOp) /\ file' = file
        /\ \/ storage' = storage + op[p].size /\ uncharged' = uncharged
           \/ storage' = storage /\ uncharged' = uncharged + op[p].size
    BY <1>3, Zenon DEF CopyCharge, tree
  <2>2. IdleOp \in Operation /\ IdleOp.size = 0
    BY IdleOpType
  <2>3. storage' + IdleOp.size + uncharged' = storage + op[p].size + uncharged
    BY <1>t, <2>1, <2>2
  <2> QED BY <2>1, <2>2, <2>3, LedgerStep
<1> QED BY <1>1, <1>2, <1>3

\* DeleteFiles gives back exactly the sizes of the rows it deletes.
LEMMA DeleteLedger ==
    ASSUME TypeOK, TypeOK', TreeLedger, NEW p \in Ops, DeleteRows(p) PROVE TreeLedger'
<1> DEFINE T == op[p].gone
           f == RowSize(file)
           g == RowSize(file')
           sizes == [x \in T |-> SizeOf[file[x].src]]
           q == [op[p] EXCEPT !.pc = "folders"]
<1>o. op[p] \in Operation /\ OpOK(op[p], file)
  BY DEF TypeOK
<1>z. op[p].size = 0 /\ uncharged' = uncharged
  BY <1>o, DeleteRowsCases DEF OpOK
<1>i. IdleOp \in Operation /\ IdleOp.size = 0
  BY IdleOpType
<1>q. q \in Operation /\ q.size = op[p].size
  BY <1>o DEF Operation
<1>1. CASE UNCHANGED <<file, storage>> /\ Step(p, IdleOp)
  BY <1>1, <1>i, <1>z, LedgerUntouched
<1>2. CASE DeleteCommits(p)
  <2>1. /\ T \subseteq LiveFiles
        /\ file' = [x \in FileIds |-> IF x \in T THEN [file[x] EXCEPT !.st = "dead"] ELSE file[x]]
        /\ storage' = storage - Sum(sizes, T)
        /\ Step(p, IdleOp) \/ Step(p, q)
    BY <1>2 DEF DeleteCommits
  <2>2. T \subseteq FileIds
    BY <1>o DEF Operation
  <2>3. \A x \in FileIds : f[x] \in Nat
    BY RowSizeType
  <2>4. \A x \in T : g[x] = 0 /\ f[x] = sizes[x]
    <3>1. \A x \in T : file'[x].st = "dead" /\ file[x].st = "live"
      BY <2>1, <2>2 DEF LiveFiles, TypeOK, FileRow
    <3> QED BY <2>2, <3>1 DEF RowSize
  <2>5. \A x \in FileIds \ T : g[x] = f[x]
    BY <2>1 DEF RowSize
  <2>6. IsFiniteSet(T) /\ IsFiniteSet(FileIds \ T)
    BY <2>2, FS_Subset
  <2>7. T \cup (FileIds \ T) = FileIds /\ T \cap (FileIds \ T) = {}
    BY <2>2
  <2>o. Sum(OpSize(op'), Ops) = Sum(OpSize(op), Ops)
    <3> HIDE DEF q
    <3>1. Sum(OpSize(op), Ops) \in Nat
      BY OpSizeType
    <3>2. Sum(OpSize(op'), Ops) = Sum(OpSize(op), Ops) + (0 - 0)
      BY <1>i, <1>q, <1>z, <2>1, OpSizeStep
    <3> QED BY <3>1, <3>2
  <2> HIDE DEF f, g, T, sizes, q
  <2>8. Sum(f, FileIds) = Sum(f, T) + Sum(f, FileIds \ T)
    <3>1. Sum(f, T \cup (FileIds \ T)) = Sum(f, T) + Sum(f, FileIds \ T)
      BY <2>3, <2>6, <2>7, SumSplit
    <3> QED BY <2>7, <3>1
  <2>9. Sum(g, FileIds) = Sum(g, T) + Sum(g, FileIds \ T)
    <3>1. \A x \in T \cup (FileIds \ T) : g[x] \in Nat
      BY <2>3, <2>4, <2>5, <2>7
    <3>2. Sum(g, T \cup (FileIds \ T)) = Sum(g, T) + Sum(g, FileIds \ T)
      BY <2>6, <2>7, <3>1, SumSplit
    <3> QED BY <2>7, <3>2
  <2>10. Sum(g, T) = 0 /\ Sum(g, FileIds \ T) = Sum(f, FileIds \ T) /\ Sum(sizes, T) = Sum(f, T)
    BY <2>4, <2>5, SumZero, SumAgree
  <2>11. Sum(f, T) \in Nat /\ Sum(f, FileIds \ T) \in Nat
    BY <2>2, <2>3, <2>6, SumIsNat
  <2>12. storage \in Int /\ uncharged \in Nat /\ Sum(OpSize(op), Ops) \in Nat
    BY OpSizeType DEF TypeOK
  <2>13. storage + Sum(OpSize(op), Ops) + uncharged = Sum(f, FileIds)
    BY DEF TreeLedger, f
  <2>14. storage' + Sum(OpSize(op'), Ops) + uncharged' = Sum(g, FileIds)
    BY <1>z, <2>1, <2>o, <2>8, <2>9, <2>10, <2>11, <2>12, <2>13
  <2> QED BY <2>14 DEF TreeLedger, g
<1> QED BY <1>1, <1>2, DeleteRowsCases

\* Uploads charge what they add; renames add nothing.
LEMMA WriteLedger ==
    ASSUME TypeOK, TypeOK', TreeLedger, Write PROVE TreeLedger'
<1>1. op' = op /\ uncharged' = uncharged
  BY Zenon DEF Write, AddFile, RenameFile, RenameFolder, hist
<1>2. storage \in Int /\ uncharged \in Nat /\ Sum(OpSize(op), Ops) \in Nat
      /\ Sum(RowSize(file), FileIds) \in Nat
  BY OpSizeType, RowSizeType DEF TypeOK
<1>3. ASSUME NEW x \in FileIds, NEW s \in Sources, NEW n \in Names, NEW d \in FolderIds,
             AddFile(x, s, n, d)
      PROVE  TreeLedger'
  <2> DEFINE r == [st |-> "live", folder |-> d, name |-> n, src |-> s]
  <2>1. /\ file[x].st = "fresh" /\ file' = [file EXCEPT ![x] = r]
        /\ storage' = storage + SizeOf[s]
    BY <1>3 DEF AddFile
  <2>2. r.st = "live" /\ r.src = s /\ SizeOf[s] \in Nat
    OBVIOUS
  <2> HIDE DEF r
  <2>3. Sum(RowSize(file'), FileIds) = Sum(RowSize(file), FileIds) + SizeOf[s]
    BY <2>1, <2>2, NewRow
  <2>4. storage' + Sum(OpSize(op'), Ops) + uncharged' = Sum(RowSize(file'), FileIds)
    BY <1>1, <1>2, <2>1, <2>2, <2>3 DEF TreeLedger
  <2> QED BY <2>4 DEF TreeLedger
<1>4. ASSUME NEW x \in FileIds, NEW n \in Names, RenameFile(x, n) PROVE TreeLedger'
  <2>1. \A y \in FileIds : file'[y].st = file[y].st /\ file'[y].src = file[y].src
    BY <1>4 DEF RenameFile, TypeOK, FileRow
  <2>2. storage' = storage /\ RowSize(file') = RowSize(file)
    BY <1>4, <2>1, SameRowSize DEF RenameFile
  <2> QED BY <1>1, <2>2 DEF TreeLedger
<1>5. ASSUME NEW f \in FolderIds, NEW n \in Names, RenameFolder(f, n) PROVE TreeLedger'
  BY <1>1, <1>5 DEF RenameFolder, TreeLedger
<1> QED BY <1>3, <1>4, <1>5, Zenon DEF Write

\* A restart moves what running copies have added to the uncharged.
LEMMA CrashLedger ==
    ASSUME TypeOK, TypeOK', TreeLedger, Crash PROVE TreeLedger'
<1>1. /\ op' = [p \in Ops |-> IdleOp] /\ file' = file /\ storage' = storage
      /\ uncharged' = uncharged + Sum(OpSize(op), Ops)
  BY Zenon DEF Crash, tree
<1>2. \A p \in Ops : OpSize(op')[p] = 0
  BY <1>1, IdleOpType DEF OpSize
<1>3. Sum(OpSize(op'), Ops) = 0
  BY <1>2, SumZero
<1>4. storage \in Int /\ uncharged \in Nat /\ Sum(OpSize(op), Ops) \in Nat
  BY OpSizeType DEF TypeOK
<1> QED BY <1>1, <1>3, <1>4 DEF TreeLedger

\* The ledger holds at the start: there are no files and nothing is charged.
LEMMA TreeInitLedger == Init => TreeLedger
<1> SUFFICES ASSUME Init PROVE TreeLedger
  OBVIOUS
<1>1. \A x \in FileIds : RowSize(file)[x] = 0
  BY DEF Init, RowSize, FreshFile
<1>2. \A p \in Ops : OpSize(op)[p] = 0
  BY IdleOpType DEF Init, OpSize
<1>3. Sum(RowSize(file), FileIds) = 0 /\ Sum(OpSize(op), Ops) = 0
  BY <1>1, <1>2, SumZero
<1> QED BY <1>3 DEF Init, TreeLedger

\* Every step keeps the ledger.
LEMMA TreeNextLedger == TypeOK /\ TypeOK' /\ TreeLedger /\ [Next]_vars => TreeLedger'
<1> SUFFICES ASSUME TypeOK, TypeOK', TreeLedger, [Next]_vars PROVE TreeLedger'
  OBVIOUS
<1>1. CASE UNCHANGED vars
  <2>1. UNCHANGED <<file, storage, op, uncharged>>
    BY <1>1 DEF vars
  <2> QED BY <2>1 DEF TreeLedger
<1>2. ASSUME NEW p \in Ops, Advance(p) PROVE TreeLedger'
  BY <1>2, QuietLedger, CopyLedger, DeleteLedger, Zenon DEF Advance
<1> QED BY <1>1, <1>2, WriteLedger, CrashLedger, RequestLedger, Zenon DEF Next

\* For any number of concurrent operations, failures and restarts, the storage
\* charged to the user, what running copies will charge and what failed copies
\* did not charge add up to the sizes of the user's file rows.
THEOREM TreeLedgerCorrect == Spec => []TreeLedger
BY TreeInitTypes, TreeNextTypes, TreeInitLedger, TreeNextLedger, PTL DEF Spec

----------------------------------------------------------------------------
(* Operations that do not overlap *)

\* At most one operation is running.
Alone == \A p, q \in Ops : ~Idle(p) /\ ~Idle(q) => p = q

\* A request or a step of an operation changes that operation only.
LEMMA StepsOne ==
    ASSUME TypeOK, NEW p \in Ops, Request(p) \/ Advance(p)
    PROVE  \A q \in Ops \ {p} : op'[q] = op[q]
<1>1. ASSUME Request(p) PROVE \E q : Step(p, q)
  BY <1>1, Zenon DEF Request, CreateDirectory, Move, Copy, Delete
<1>2. ASSUME Advance(p) PROVE \E q : Step(p, q)
  BY <1>2, Zenon DEF Advance, FolderCreate, MoveFolderTo, MoveFilesTo, CopyListFolders, CopyFolder,
     CopyListTreeFiles, CopyListFiles, CopyFile, CopyCharge, RemoveFilesWithSoftLinks,
     DeleteContent, DeleteRows, DeleteFolders, CopyFails
<1> QED BY <1>1, <1>2 DEF Step, TypeOK

\* A running operation is not idle, and an idle one has no kind.
LEMMA Running ==
    ASSUME TypeOK, NEW p \in Ops
    PROVE  /\ Advance(p) => ~Idle(p)
           /\ Request(p) => Idle(p)
           /\ Idle(p) => op[p].kind = "idle"
<1>1. Idle(p) => op[p].kind = "idle"
  BY DEF TypeOK, OpOK, Idle
<1>2. Advance(p) => op[p].kind # "idle"
  BY Zenon DEF Advance, At, FolderCreate, MoveFolderTo, MoveFilesTo, CopyListFolders, CopyFolder,
     CopyListTreeFiles, CopyListFiles, CopyFile, CopyCharge, RemoveFilesWithSoftLinks,
     DeleteContent, DeleteRows, DeleteFolders
<1>3. Request(p) => Idle(p)
  BY Zenon DEF Request, CreateDirectory, Move, Copy, Delete
<1> QED BY <1>1, <1>2, <1>3

\* When requests wait for each other, a request finds every operation idle, and
\* a running operation all others.
LEMMA SerialKinds ==
    ASSUME Serial, TypeOK, Alone, [Next]_vars
    PROVE  /\ Alone'
           /\ \/ UNCHANGED vars
              \/ Write /\ \A q \in Ops : Idle(q)
              \/ Crash
              \/ \E p \in Ops : Request(p) /\ \A q \in Ops : Idle(q)
              \/ \E p \in Ops : Advance(p) /\ \A q \in Ops \ {p} : Idle(q)
<1>1. CASE UNCHANGED vars
  BY <1>1 DEF vars, Alone, Idle
<1>2. CASE Write
  <2>1. op' = op /\ \A q \in Ops : Idle(q)
    BY <1>2, Zenon DEF Write, AddFile, RenameFile, RenameFolder, Start
  <2> QED BY <1>2, <2>1 DEF Alone, Idle
<1>3. CASE Crash
  <2>1. \A q \in Ops : op'[q].pc = "idle"
    BY <1>3 DEF Crash, IdleOp
  <2> QED BY <1>3, <2>1 DEF Alone, Idle
<1>4. ASSUME NEW p \in Ops, Request(p)
      PROVE  Alone' /\ \A q \in Ops : Idle(q)
  <2>1. \A q \in Ops : Idle(q)
    BY <1>4, Zenon DEF Request, CreateDirectory, Move, Copy, Delete, Start
  <2> QED BY <1>4, <2>1, StepsOne DEF Alone, Idle
<1>5. ASSUME NEW p \in Ops, Advance(p)
      PROVE  Alone' /\ \A q \in Ops \ {p} : Idle(q)
  <2>1. \A q \in Ops \ {p} : Idle(q)
    BY <1>5, Running DEF Alone
  <2> QED BY <1>5, <2>1, StepsOne DEF Alone, Idle
<1> QED BY <1>1, <1>2, <1>3, <1>4, <1>5 DEF Next

----------------------------------------------------------------------------
(* The content of files *)

\* The sources that are there, or given up by a Delete that failed.
Kept == content \cup orphaned

\* A Delete knows every live row of the sources it removes; a Copy has read rows
\* whose content is there.
ContentOK(o) ==
    /\ o.kind = "delete" /\ o.pc \in {"links", "unlink", "rows"} => o.files \subseteq LiveFiles
    /\ o.kind = "delete" /\ o.pc = "unlink" =>
          \A x \in LiveFiles : file[x].src \in o.unlink => x \in o.files
    /\ o.kind = "delete" /\ o.pc = "rows" =>
          \A x \in o.files : file[x].src \in Kept \/ x \in o.gone
    /\ o.kind = "copy" => \A x \in DOMAIN o.rows : o.rows[x].src \in Kept

\* The inductive invariant of ContentPresent.
ContentHeld == Alone /\ (\A p \in Ops : ContentOK(op[p])) /\ ContentPresent

\* While no Delete is removing rows all content is there.
LEMMA AllKept ==
    ASSUME ContentHeld, NEW p \in Ops, ~At(p, "delete", "rows"), TypeOK,
           \A q \in Ops \ {p} : Idle(q)
    PROVE  \A x \in LiveFiles : file[x].src \in Kept
<1>1. \A q \in Ops : ~At(q, "delete", "rows")
  BY DEF At, Idle
<1> QED BY <1>1 DEF ContentHeld, ContentPresent, Kept

\* A step that leaves every file its source, and all sources alone.
LEMMA QuietContent ==
    ASSUME TypeOK, TypeOK', ContentHeld, Alone', NEW p \in Ops, ~At(p, "delete", "rows"),
           \A q \in Ops \ {p} : Idle(q) /\ op'[q] = op[q],
           \A x \in FileIds : file'[x].st = file[x].st /\ file'[x].src = file[x].src,
           UNCHANGED <<content, orphaned>>, ContentOK(op[p])'
    PROVE  ContentHeld'
<1>1. \A x \in LiveFiles : file[x].src \in Kept
  BY AllKept
<1>2. LiveFiles' = LiveFiles /\ Kept' = Kept
  BY DEF LiveFiles, Kept
<1>3. ContentPresent'
  BY <1>1, <1>2 DEF ContentPresent, LiveFiles, Kept
<1>4. ASSUME NEW q \in Ops \ {p} PROVE ContentOK(op[q])'
  <2>1. op'[q].kind = "idle"
    BY Running
  <2> QED BY <2>1 DEF ContentOK
<1> QED BY <1>3, <1>4 DEF ContentHeld

\* Requests read rows whose content is there.
LEMMA RequestContent ==
    ASSUME TypeOK, TypeOK', ContentHeld, Alone', NEW p \in Ops, Request(p),
           \A q \in Ops : Idle(q)
    PROVE  ContentHeld'
<1>0. /\ \A q \in Ops \ {p} : Idle(q) /\ op'[q] = op[q]
      /\ ~At(p, "delete", "rows")
  BY StepsOne DEF At, Idle
<1>1. UNCHANGED <<file, content, orphaned>>
  BY Zenon DEF Request, CreateDirectory, Move, Copy, Delete, tree, hist
<1>2. ContentOK(op[p])'
  <2>i. /\ IdleOp \in Operation /\ op = [q \in Ops |-> op[q]] /\ DOMAIN IdleOp.rows = {}
    BY IdleOpType DEF TypeOK, IdleOp, NoRows
  <2>1. ASSUME NEW n \in Names, CreateDirectory(p, n) PROVE ContentOK(op[p])'
    <3>1. PICK d : Step(p, [IdleOp EXCEPT !.kind = "mkdir", !.pc = "create", !.dst = d, !.name = n])
      BY <2>1, Zenon DEF CreateDirectory
    <3>2. op'[p].kind = "mkdir"
      BY <2>i, <3>1 DEF Step, Operation
    <3> QED BY <3>2 DEF ContentOK
  <2>2. ASSUME NEW dirs, NEW files, Move(p, dirs, files) PROVE ContentOK(op[p])'
    <3>1. PICK src, dst : Step(p, [IdleOp EXCEPT !.kind = "move", !.pc = "folders", !.src = src,
                                    !.dst = dst, !.dirs = dirs, !.files = files])
      BY <2>2, Zenon DEF Move
    <3>2. op'[p].kind = "move"
      BY <2>i, <3>1 DEF Step, Operation
    <3> QED BY <3>2 DEF ContentOK
  <2>3. ASSUME NEW dirs, NEW files, Copy(p, dirs, files) PROVE ContentOK(op[p])'
    <3>1. PICK src, dst :
             Step(p, [IdleOp EXCEPT !.kind = "copy", !.pc = IF dirs = {} THEN "list" ELSE "tree",
                                 !.src = src, !.dst = dst, !.top = dirs, !.files = files])
      BY <2>3, Zenon DEF Copy
    <3>2. op'[p].kind = "copy" /\ op'[p].rows = IdleOp.rows
      BY <2>i, <3>1 DEF Step, Operation
    <3> QED BY <2>i, <3>2 DEF ContentOK
  <2>4. ASSUME NEW dirs, NEW files, NEW force, Delete(p, dirs, files, force) PROVE ContentOK(op[p])'
    <3>1. PICK below, X : /\ X \subseteq LiveFiles
              /\ Step(p, [IdleOp EXCEPT !.kind = "delete", !.pc = "links", !.dirs = below,
                            !.files = X, !.force = force,
                            !.twice = FilesIn(below) \cap (files \cap LiveFiles)])
      <4>1. PICK found : Step(p, [IdleOp EXCEPT !.kind = "delete", !.pc = "links", !.dirs = found \ {Root},
                            !.files = FilesIn(found \ {Root}) \cup (files \cap LiveFiles), !.force = force,
                            !.twice = FilesIn(found \ {Root}) \cap (files \cap LiveFiles)])
        BY <2>4, Zenon DEF Delete
      <4>2. FilesIn(found \ {Root}) \cup (files \cap LiveFiles) \subseteq LiveFiles
        BY DEF FilesIn
      <4> QED BY <4>1, <4>2, Zenon
    <3>2. op'[p].kind = "delete" /\ op'[p].pc = "links" /\ op'[p].files = X
      BY <2>i, <3>1 DEF Step, Operation
    <3> QED BY <1>1, <3>1, <3>2 DEF ContentOK, LiveFiles
  <2> QED BY <2>1, <2>2, <2>3, <2>4, Zenon DEF Request
<1> QED BY <1>0, <1>1, <1>2, QuietContent

\* Moving, creating and deleting folders, and the bookkeeping of a Copy, leave
\* sources alone; what a Copy lists has its content.
LEMMA QuietStepsContent ==
    ASSUME TypeOK, TypeOK', ContentHeld, Alone', NEW p \in Ops, \A q \in Ops \ {p} : Idle(q),
           \/ FolderCreate(p) \/ MoveFolderTo(p) \/ MoveFilesTo(p) \/ CopyListFolders(p)
           \/ CopyFolder(p) \/ CopyListTreeFiles(p) \/ CopyListFiles(p) \/ CopyCharge(p)
           \/ DeleteFolders(p)
    PROVE  ContentHeld'
<1>o. /\ op[p] \in Operation /\ op = [q \in Ops |-> op[q]] /\ ContentOK(op[p])
      /\ file \in [FileIds -> FileRow]
  BY DEF TypeOK, ContentHeld
<1>0. \A q \in Ops \ {p} : Idle(q) /\ op'[q] = op[q]
  <2>1. Advance(p)
    BY Zenon DEF Advance
  <2> QED BY <2>1, StepsOne
<1>i. IdleOp.kind = "idle"
  BY DEF IdleOp
<1>idle. ASSUME Step(p, IdleOp) PROVE ContentOK(op[p])'
  BY <1>o, <1>i, <1>idle DEF Step, ContentOK
<1>fail. ASSUME CopyFails(p) PROVE ContentOK(op[p])'
  BY <1>fail, <1>idle DEF CopyFails
<1>1. CASE FolderCreate(p)
  <2>1. Step(p, IdleOp) /\ UNCHANGED <<file, content, orphaned>> /\ op[p].kind = "mkdir"
    BY <1>1, Zenon DEF FolderCreate, hist, At
  <2> QED BY <1>0, <1>idle, <2>1, QuietContent DEF At
<1>2. CASE MoveFolderTo(p)
  <2>1. /\ Step(p, IdleOp) \/ Step(p, [op[p] EXCEPT !.pc = "files"])
        /\ UNCHANGED <<file, content, orphaned>> /\ op[p].kind = "move"
    BY <1>2, Zenon DEF MoveFolderTo, hist, At
  <2>2. ASSUME Step(p, [op[p] EXCEPT !.pc = "files"]) PROVE ContentOK(op[p])'
    <3>1. op'[p].kind = "move"
      BY <1>o, <2>1, <2>2 DEF Step, Operation
    <3> QED BY <3>1 DEF ContentOK
  <2> QED BY <1>0, <1>idle, <2>1, <2>2, QuietContent DEF At
<1>3. CASE MoveFilesTo(p)
  <2> DEFINE moved == {x \in op[p].files \cap LiveFiles : file[x].folder = op[p].src}
  <2>1. /\ Step(p, IdleOp) /\ UNCHANGED <<content, orphaned>> /\ op[p].kind = "move"
        /\ \/ UNCHANGED file
           \/ file' = [x \in FileIds |->
                 IF x \in moved THEN [file[x] EXCEPT !.folder = op[p].dst] ELSE file[x]]
    BY <1>3, Zenon DEF MoveFilesTo, hist, At
  <2> HIDE DEF moved
  <2>2. \A x \in FileIds : file'[x].st = file[x].st /\ file'[x].src = file[x].src
    BY <1>o, <2>1 DEF FileRow
  <2> QED BY <1>0, <1>idle, <2>1, <2>2, QuietContent DEF At
<1>4. CASE CopyListFolders(p)
  <2>1. PICK found : Step(p, [op[p] EXCEPT !.pc = "folders", !.tree = FolderRows(found)])
    BY <1>4, Zenon DEF CopyListFolders
  <2>2. UNCHANGED <<file, content, orphaned>> /\ op[p].kind = "copy"
    BY <1>4, Zenon DEF CopyListFolders, hist, tree, At
  <2>3. op'[p].kind = "copy" /\ op'[p].rows = op[p].rows
    BY <1>o, <2>1, <2>2 DEF Step, Operation
  <2>4. ContentOK(op[p])'
    BY <1>o, <2>2, <2>3 DEF ContentOK, Kept
  <2> QED BY <1>0, <2>2, <2>4, QuietContent DEF At
<1>5. CASE CopyFolder(p)
  <2>1. /\ CopyFails(p) \/ \E t, f : Step(p, [op[p] EXCEPT !.map = With(op[p].map, t.id, f)])
        /\ UNCHANGED <<file, content, orphaned>> /\ op[p].kind = "copy"
    BY <1>5, Zenon DEF CopyFolder, At
  <2>2. ASSUME NEW t, NEW f, Step(p, [op[p] EXCEPT !.map = With(op[p].map, t.id, f)])
        PROVE  ContentOK(op[p])'
    <3>1. op'[p].kind = "copy" /\ op'[p].rows = op[p].rows
      BY <1>o, <2>1, <2>2 DEF Step, Operation
    <3> QED BY <1>o, <2>1, <3>1 DEF ContentOK, Kept
  <2> QED BY <1>0, <1>fail, <2>1, <2>2, QuietContent DEF At
<1>list. ASSUME op[p].kind = "copy", UNCHANGED <<file, content, orphaned>>,
                NEW X \in SUBSET LiveFiles, op'[p].kind = "copy", op'[p].rows = FileRowsOf(X)
         PROVE  ContentOK(op[p])'
  <2>1. \A x \in LiveFiles : file[x].src \in Kept
    BY <1>list, AllKept DEF At
  <2>2. DOMAIN FileRowsOf(X) = X /\ \A x \in X : FileRowsOf(X)[x].src = file[x].src
    BY DEF FileRowsOf
  <2> QED BY <1>list, <2>1, <2>2 DEF ContentOK, Kept
<1>6. CASE CopyListTreeFiles(p)
  <2> DEFINE X == FilesIn({t.id : t \in op[p].tree})
  <2>1. /\ CopyFails(p) \/ Step(p, [op[p] EXCEPT !.pc = "treefiles", !.rows = FileRowsOf(X)])
        /\ UNCHANGED <<file, content, orphaned>> /\ op[p].kind = "copy"
    BY <1>6, Zenon DEF CopyListTreeFiles, At, tree
  <2>2. ASSUME Step(p, [op[p] EXCEPT !.pc = "treefiles", !.rows = FileRowsOf(X)])
        PROVE  ContentOK(op[p])'
    <3>1. X \in SUBSET LiveFiles
      BY DEF FilesIn
    <3> HIDE DEF X
    <3>2. op'[p].kind = "copy" /\ op'[p].rows = FileRowsOf(X)
      BY <1>o, <2>1, <2>2 DEF Step, Operation
    <3> QED BY <1>list, <2>1, <3>1, <3>2
  <2> QED BY <1>0, <1>fail, <2>1, <2>2, QuietContent DEF At
<1>7. CASE CopyListFiles(p)
  <2> DEFINE X == FilesIn({op[p].src}) \cap op[p].files
  <2>1. /\ \/ CopyFails(p) \/ Step(p, [op[p] EXCEPT !.pc = "charge"])
           \/ Step(p, [op[p] EXCEPT !.pc = "files", !.rows = FileRowsOf(X)])
        /\ UNCHANGED <<file, content, orphaned>> /\ op[p].kind = "copy"
    BY <1>7, Zenon DEF CopyListFiles, At, tree
  <2>2. ASSUME Step(p, [op[p] EXCEPT !.pc = "files", !.rows = FileRowsOf(X)])
        PROVE  ContentOK(op[p])'
    <3>1. X \in SUBSET LiveFiles
      BY DEF FilesIn
    <3> HIDE DEF X
    <3>2. op'[p].kind = "copy" /\ op'[p].rows = FileRowsOf(X)
      BY <1>o, <2>1, <2>2 DEF Step, Operation
    <3> QED BY <1>list, <2>1, <3>1, <3>2
  <2>3. ASSUME Step(p, [op[p] EXCEPT !.pc = "charge"]) PROVE ContentOK(op[p])'
    <3>1. op'[p].kind = "copy" /\ op'[p].rows = op[p].rows
      BY <1>o, <2>1, <2>3 DEF Step, Operation
    <3> QED BY <1>o, <2>1, <3>1 DEF ContentOK, Kept
  <2> QED BY <1>0, <1>fail, <2>1, <2>2, <2>3, QuietContent DEF At
<1>8. CASE CopyCharge(p)
  <2>1. Step(p, IdleOp) /\ UNCHANGED <<file, content, orphaned>> /\ op[p].kind = "copy"
    BY <1>8, Zenon DEF CopyCharge, At, tree
  <2> QED BY <1>0, <1>idle, <2>1, QuietContent DEF At
<1>9. CASE DeleteFolders(p)
  <2>1. Step(p, IdleOp) /\ UNCHANGED <<file, content, orphaned>> /\ op[p].pc = "folders"
    BY <1>9, Zenon DEF DeleteFolders, hist, At
  <2> QED BY <1>0, <1>idle, <2>1, QuietContent DEF At
<1> QED BY <1>1, <1>2, <1>3, <1>4, <1>5, <1>6, <1>7, <1>8, <1>9

\* A copied row has the source of a row whose content is there.
LEMMA CopyFileContent ==
    ASSUME TypeOK, TypeOK', ContentHeld, Alone', NEW p \in Ops, \A q \in Ops \ {p} : Idle(q),
           CopyFile(p)
    PROVE  ContentHeld'
<1>o. /\ op[p] \in Operation /\ op = [q \in Ops |-> op[q]] /\ ContentOK(op[p])
      /\ file \in [FileIds -> FileRow] /\ OpOK(op[p], file)
  BY DEF TypeOK, ContentHeld
<1>0. \A q \in Ops \ {p} : Idle(q) /\ op'[q] = op[q]
  <2>1. Advance(p)
    BY Zenon DEF Advance
  <2> QED BY <2>1, StepsOne
<1>1. UNCHANGED <<folder, content, storage, orphaned>> /\ op[p].kind = "copy"
  BY CopyFileCases
<1>2. CASE CopyFails(p) /\ UNCHANGED file
  <2>1. ContentOK(op[p])'
    BY <1>o, <1>2 DEF CopyFails, Step, ContentOK, IdleOp
  <2> QED BY <1>0, <1>1, <1>2, <2>1, QuietContent DEF At
<1>3. ASSUME NEW x \in DOMAIN op[p].rows, NEW y \in FileIds, NEW d \in FolderIds,
             CopyInserts(p, x, y, d)
      PROVE  ContentHeld'
  <2>0. op[p].rows \in FileRows /\ op[p].rows[x] \in FileRow /\ op[p].rows[x].st = "live"
    BY <1>o DEF Operation, FileRows, OpOK
  <2>1. /\ file' = [file EXCEPT ![y] = [op[p].rows[x] EXCEPT !.folder = d]]
        /\ op'[p].rows = Without(op[p].rows, x) /\ op'[p].kind = "copy"
    BY <1>o, <1>1, <1>3 DEF CopyInserts, Step, Operation
  <2>2. /\ file'[y].src = op[p].rows[x].src
        /\ \A z \in FileIds \ {y} : file'[z] = file[z]
    BY <1>o, <2>0, <2>1 DEF FileRow
  <2>3. op[p].rows[x].src \in Kept /\ \A z \in LiveFiles : file[z].src \in Kept
    BY <1>o, <1>1, AllKept DEF ContentOK, At
  <2>4. \A z \in LiveFiles' : file'[z].src \in Kept'
    BY <1>1, <2>2, <2>3 DEF LiveFiles, Kept
  <2>5. ContentPresent'
    BY <2>4 DEF ContentPresent, Kept
  <2>6. /\ DOMAIN Without(op[p].rows, x) = DOMAIN op[p].rows \ {x}
        /\ \A z \in DOMAIN op[p].rows \ {x} : Without(op[p].rows, x)[z] = op[p].rows[z]
    BY DEF Without
  <2>7. ContentOK(op[p])'
    BY <1>o, <1>1, <2>1, <2>6 DEF ContentOK, Kept
  <2>8. ASSUME NEW q \in Ops \ {p} PROVE ContentOK(op[q])'
    <3>1. op'[q].kind = "idle"
      BY <1>0, Running
    <3> QED BY <3>1 DEF ContentOK
  <2> QED BY <2>5, <2>7, <2>8 DEF ContentHeld
<1> QED BY <1>2, <1>3, CopyFileCases

\* Without failed queries the sources to remove have no row that is not listed;
\* a row that stays keeps its content, or its source is given up.
LEMMA DeleteStepsContent ==
    ASSUME MaxSilent = 0, TypeOK, TypeOK', ContentHeld, Alone', NEW p \in Ops,
           \A q \in Ops \ {p} : Idle(q),
           RemoveFilesWithSoftLinks(p) \/ DeleteContent(p) \/ DeleteRows(p)
    PROVE  ContentHeld'
<1>o. /\ op[p] \in Operation /\ op = [q \in Ops |-> op[q]] /\ ContentOK(op[p])
      /\ file \in [FileIds -> FileRow] /\ silent \in Nat
  BY DEF TypeOK, ContentHeld, CountersOK
<1>0. \A q \in Ops \ {p} : Idle(q) /\ op'[q] = op[q]
  <2>1. Advance(p)
    BY Zenon DEF Advance
  <2> QED BY <2>1, StepsOne
<1>others. ASSUME NEW q \in Ops \ {p} PROVE ContentOK(op[q])'
  <2>1. op'[q].kind = "idle"
    BY <1>0, Running
  <2> QED BY <2>1 DEF ContentOK
<1>1. CASE RemoveFilesWithSoftLinks(p)
  <2>1. op[p].kind = "delete" /\ op[p].pc = "links" /\ UNCHANGED <<file, content, orphaned>>
    BY <1>1, Zenon DEF RemoveFilesWithSoftLinks, At, tree, hist
  <2>2. Step(p, [op[p] EXCEPT !.pc = "unlink", !.unlink = WithoutSoftLinks(op[p].files, {})])
    <3>1. ~SilentFault
      BY <1>o DEF SilentFault
    <3> QED BY <1>1, <3>1, Zenon DEF RemoveFilesWithSoftLinks
  <2> DEFINE U == WithoutSoftLinks(op[p].files, {})
  <2>3. \A x \in LiveFiles : file[x].src \in U => x \in op[p].files
    BY DEF WithoutSoftLinks, SourcesOf, HasSoftLink
  <2> HIDE DEF U
  <2>4. /\ op'[p].kind = "delete" /\ op'[p].pc = "unlink" /\ op'[p].unlink = U
        /\ op'[p].files = op[p].files
    BY <1>o, <2>1, <2>2 DEF Step, Operation, U
  <2>5. ContentOK(op[p])'
    BY <1>o, <2>1, <2>3, <2>4 DEF ContentOK, LiveFiles
  <2> QED BY <1>0, <2>1, <2>5, QuietContent DEF At
<1>2. CASE DeleteContent(p)
  <2>1. op[p].kind = "delete" /\ op[p].pc = "unlink" /\ UNCHANGED <<file, orphaned>>
    BY <1>2, Zenon DEF DeleteContent, At, tree, hist
  <2>2. PICK failed \in SUBSET op[p].unlink :
          /\ content' = content \ (op[p].unlink \ failed)
          /\ Step(p, [op[p] EXCEPT !.pc = "rows", !.gone = DeletedRows(p, failed)])
    BY <1>2, Zenon DEF DeleteContent
  <2>3. /\ op'[p].kind = "delete" /\ op'[p].pc = "rows" /\ op'[p].gone = DeletedRows(p, failed)
        /\ op'[p].files = op[p].files
    BY <1>o, <2>1, <2>2 DEF Step, Operation
  <2>4. LiveFiles' = LiveFiles /\ op[p].files \subseteq LiveFiles
    BY <1>o, <2>1 DEF LiveFiles, ContentOK
  <2>5. \A x \in LiveFiles : file[x].src \in Kept
    BY <2>1, AllKept DEF At
  <2>6. \A x \in LiveFiles : file[x].src \notin Kept' => file[x].src \in op[p].unlink \ failed
    BY <2>1, <2>2, <2>5 DEF Kept
  <2>7. \A x \in LiveFiles : file[x].src \notin Kept' => x \in op[p].files
    BY <1>o, <2>1, <2>6 DEF ContentOK
  <2>8. \A x \in op[p].files : file[x].src \notin Kept' => x \in DeletedRows(p, failed)
    BY <2>4, <2>6 DEF DeletedRows
  <2>9. ContentOK(op[p])'
    BY <2>1, <2>3, <2>4, <2>8 DEF ContentOK
  <2>10. ContentPresent'
    BY <2>1, <2>3, <2>4, <2>7 DEF ContentPresent, At, Kept
  <2> QED BY <1>others, <2>9, <2>10 DEF ContentHeld
<1>3. CASE DeleteRows(p)
  <2>1. op[p].kind = "delete" /\ op[p].pc = "rows" /\ UNCHANGED content
    BY <1>3, Zenon DEF DeleteRows, At
  <2>2. \A x \in LiveFiles : file[x].src \in Kept \/ x \in op[p].files
    <3>1. \A q \in Ops \ {p} : ~At(q, "delete", "rows")
      BY <1>0, Running DEF At
    <3> QED BY <3>1 DEF ContentHeld, ContentPresent, Kept
  <2>3. CASE orphaned' = orphaned \cup Missing(p) /\ Step(p, IdleOp) /\ UNCHANGED file
    <3>1. \A x \in LiveFiles' : file'[x].src \in content' \cup orphaned'
      BY <2>1, <2>2, <2>3 DEF Missing, SourcesOf, Kept, LiveFiles
    <3>2. ContentPresent'
      BY <3>1 DEF ContentPresent
    <3>3. ContentOK(op[p])'
      BY <1>o, <2>3 DEF Step, IdleOp, ContentOK
    <3> QED BY <1>others, <3>2, <3>3 DEF ContentHeld
  <2>4. CASE /\ file' = [x \in FileIds |->
                    IF x \in op[p].gone THEN [file[x] EXCEPT !.st = "dead"] ELSE file[x]]
             /\ Step(p, IdleOp) \/ Step(p, [op[p] EXCEPT !.pc = "folders"])
             /\ UNCHANGED orphaned
    <3>1. \A x \in FileIds : x \in op[p].gone => file'[x].st = "dead"
      BY <1>o, <2>4 DEF FileRow
    <3>2. \A x \in LiveFiles' : x \in LiveFiles /\ file'[x] = file[x] /\ x \notin op[p].gone
      BY <2>4, <3>1 DEF LiveFiles
    <3>3. \A x \in LiveFiles' : file'[x].src \in content' \cup orphaned'
      BY <1>o, <2>1, <2>2, <2>4, <3>2 DEF ContentOK, Kept
    <3>4. ContentPresent'
      BY <3>3 DEF ContentPresent
    <3>5. op'[p].kind = "idle" \/ (op'[p].kind = "delete" /\ op'[p].pc = "folders")
      <4>1. IdleOp.kind = "idle"
        BY DEF IdleOp
      <4> QED BY <1>o, <2>1, <2>4, <4>1 DEF Step, Operation
    <3>6. ContentOK(op[p])'
      BY <3>5 DEF ContentOK
    <3> QED BY <1>others, <3>4, <3>6 DEF ContentHeld
  <2> QED BY <1>3, <2>3, <2>4, Zenon DEF DeleteRows
<1> QED BY <1>1, <1>2, <1>3

\* Uploads bring their content; renaming leaves it alone.
LEMMA WriteContent ==
    ASSUME TypeOK, TypeOK', ContentHeld, Alone', Write, \A q \in Ops : Idle(q)
    PROVE  ContentHeld'
<1>0. op' = op /\ file \in [FileIds -> FileRow] /\ orphaned' = orphaned
  BY Zenon DEF TypeOK, Write, AddFile, RenameFile, RenameFolder, hist
<1>1. \A q \in Ops : ContentOK(op[q])'
  BY <1>0, Running DEF ContentOK
<1>2. \A x \in LiveFiles : file[x].src \in Kept
  BY DEF ContentHeld, ContentPresent, Kept, At, Idle
<1>3. ASSUME \A x \in LiveFiles' : file'[x].src \in content' \cup orphaned PROVE ContentHeld'
  <2>1. ContentPresent'
    BY <1>0, <1>3 DEF ContentPresent
  <2> QED BY <1>1, <2>1 DEF ContentHeld
<1>4. ASSUME NEW x \in FileIds, NEW s \in Sources, NEW n \in Names, NEW d \in FolderIds,
             AddFile(x, s, n, d)
      PROVE  ContentHeld'
  <2>1. /\ file' = [file EXCEPT ![x] = [st |-> "live", folder |-> d, name |-> n, src |-> s]]
        /\ content' = content \cup {s}
    BY <1>4, Zenon DEF AddFile
  <2>2. file'[x].src = s /\ \A y \in FileIds \ {x} : file'[y] = file[y]
    BY <1>0, <2>1
  <2> QED BY <1>2, <1>3, <2>1, <2>2 DEF LiveFiles, Kept
<1>5. ASSUME NEW x \in FileIds, NEW n \in Names, RenameFile(x, n) PROVE ContentHeld'
  <2>1. file' = [file EXCEPT ![x].name = n] /\ content' = content
    BY <1>5, Zenon DEF RenameFile
  <2>2. \A y \in FileIds : file'[y].st = file[y].st /\ file'[y].src = file[y].src
    BY <1>0, <2>1 DEF FileRow
  <2> QED BY <1>2, <1>3, <2>1, <2>2 DEF LiveFiles, Kept
<1>6. ASSUME NEW f \in FolderIds, NEW n \in Names, RenameFolder(f, n) PROVE ContentHeld'
  <2>1. file' = file /\ content' = content
    BY <1>6, Zenon DEF RenameFolder
  <2> QED BY <1>2, <1>3, <2>1 DEF LiveFiles, Kept
<1> QED BY <1>4, <1>5, <1>6 DEF Write

\* A restart gives up the sources that a Delete has removed.
LEMMA CrashContent ==
    ASSUME TypeOK, ContentHeld, Alone', Crash PROVE ContentHeld'
<1>1. /\ op' = [p \in Ops |-> IdleOp] /\ UNCHANGED <<file, content>>
      /\ orphaned' = orphaned \cup UNION {Missing(p) : p \in {q \in Ops : At(q, "delete", "rows")}}
  BY Zenon DEF Crash, tree
<1>2. \A p \in Ops : ContentOK(op[p])'
  BY <1>1 DEF ContentOK, IdleOp
<1>3. ASSUME NEW x \in LiveFiles PROVE file[x].src \in content \cup orphaned'
  <2>1. CASE file[x].src \in content \cup orphaned
    BY <1>1, <2>1
  <2>2. ASSUME NEW p \in Ops, At(p, "delete", "rows"), x \in op[p].files
        PROVE  file[x].src \in content \cup orphaned'
    <3>1. file[x].src \in content \cup Missing(p)
      BY <2>2 DEF Missing, SourcesOf
    <3> QED BY <1>1, <2>2, <3>1
  <2> QED BY <2>1, <2>2 DEF ContentHeld, ContentPresent
<1>4. ContentPresent'
  BY <1>1, <1>3 DEF ContentPresent, LiveFiles
<1> QED BY <1>2, <1>4 DEF ContentHeld

\* When operations do not overlap and no query fails unnoticed, no row loses its
\* content to the deletion of another: RemoveFilesWithSoftLinks spares every
\* source that has a row outside the deleted files, whatever statement fails
\* with an error, whatever the storage handler fails to remove, and wherever the
\* server stops.
THEOREM ContentCorrect ==
    ASSUME Serial, MaxSilent = 0 PROVE Spec => []ContentPresent
<1>1. Init => TypeOK /\ ContentHeld
  <2> SUFFICES ASSUME Init PROVE TypeOK /\ ContentHeld
    OBVIOUS
  <2>1. LiveFiles = {} /\ \A p \in Ops : op[p] = IdleOp
    BY DEF Init, LiveFiles, FreshFile
  <2> QED BY <2>1, TreeInitTypes DEF ContentHeld, ContentPresent, ContentOK, Alone, Idle, IdleOp
<1>2. TypeOK /\ ContentHeld /\ [Next]_vars => (TypeOK /\ ContentHeld)'
  <2> SUFFICES ASSUME TypeOK, ContentHeld, [Next]_vars PROVE TypeOK' /\ ContentHeld'
    OBVIOUS
  <2>1. TypeOK' /\ Alone'
    BY TreeNextTypes, SerialKinds DEF ContentHeld
  <2>2. CASE UNCHANGED vars
    <3>1. UNCHANGED <<op, file, content, orphaned>>
      BY <2>2 DEF vars
    <3> QED BY <2>1, <3>1 DEF ContentHeld, ContentPresent, ContentOK, Kept, LiveFiles, At
  <2>3. CASE Write /\ \A q \in Ops : Idle(q)
    BY <2>1, <2>3, WriteContent
  <2>4. CASE Crash
    BY <2>1, <2>4, CrashContent
  <2>5. ASSUME NEW p \in Ops, Request(p), \A q \in Ops : Idle(q) PROVE ContentHeld'
    BY <2>1, <2>5, RequestContent
  <2>6. ASSUME NEW p \in Ops, Advance(p), \A q \in Ops \ {p} : Idle(q) PROVE ContentHeld'
    BY <2>1, <2>6, QuietStepsContent, CopyFileContent, DeleteStepsContent DEF Advance
  <2> QED BY <2>1, <2>2, <2>3, <2>4, <2>5, <2>6, SerialKinds DEF ContentHeld
<1>3. ContentHeld => ContentPresent
  BY DEF ContentHeld
<1> QED BY <1>1, <1>2, <1>3, PTL DEF Spec

----------------------------------------------------------------------------
(* Subtrees *)

\* A non-empty set of naturals has a least element: induction over the naturals
\* in the form that the provers can use.
LEMMA LeastNatural ==
    ASSUME NEW S \in SUBSET Nat, S # {}
    PROVE  \E n \in S : \A m \in S : n <= m
<1>1. PICK n \in S : \A m \in S : ~(<<m, n>> \in OpToRel(<, Nat))
  BY NatLessThanWellFounded, WFMin, Zenon
<1>2. ASSUME NEW m \in S PROVE n <= m
  <2>1. n \in Nat /\ m \in Nat
    OBVIOUS
  <2>2. m < n => <<m, n>> \in OpToRel(<, Nat)
    BY <2>1 DEF OpToRel
  <2>3. ~(m < n)
    BY <1>1, <2>2, Zenon
  <2> QED BY <2>1, <2>3
<1> QED BY <1>2

\* Folder tables: the live folders, the children of a set, the sets that
\* contain the children of their members, and the levels of a subtree.
Live(fo) == {f \in FolderIds : fo[f].st = "live"}
ChildrenOf(fo, S) == {f \in Live(fo) : fo[f].parent \in S}
Closed(fo, S) == ChildrenOf(fo, S) \subseteq S
AreLevels(fo, F, k, g) ==
    g = [n \in 0 .. k |-> IF n = 0 THEN F \cap Live(fo) ELSE g[n - 1] \cup ChildrenOf(fo, g[n - 1])]
LevelsOf(fo, F, k) == CHOOSE g : AreLevels(fo, F, k, g)
Below(fo, F) == Live(fo) \cap LevelsOf(fo, F, Cardinality(FolderIds))[Cardinality(FolderIds)]

\* Descendants computes the levels of the current folder table.
LEMMA DescendantsBelow ==
    ASSUME NEW CONSTANT F
    PROVE  Descendants(F) = Below(folder, F) /\ Descendants(F)' = Below(folder', F)
<1>1. Descendants(F) = Below(folder, F)
  BY Zenon DEF Descendants, WithinLevels, Below, LevelsOf, AreLevels, ChildrenOf, Live, LiveFolders
<1>2. Descendants(F)' = Below(folder', F)
  BY Zenon DEF Descendants, WithinLevels, Below, LevelsOf, AreLevels, ChildrenOf, Live, LiveFolders
<1> QED BY <1>1, <1>2

\* There are levels, however deep one looks.
LEMMA LevelsExist ==
    ASSUME NEW fo, NEW F, NEW k \in Nat
    PROVE  AreLevels(fo, F, k, LevelsOf(fo, F, k))
<1> DEFINE none == {n \in Nat : ~\E g : AreLevels(fo, F, n, g)}
           next(S) == S \cup ChildrenOf(fo, S)
<1>1. CASE none # {}
  <2>1. PICK n \in none : \A m \in none : n <= m
    <3>1. none \in SUBSET Nat
      OBVIOUS
    <3> HIDE DEF none
    <3> QED BY <1>1, <3>1, LeastNatural
  <2>2. n \in Nat /\ ~\E g : AreLevels(fo, F, n, g)
    OBVIOUS
  <2>3. n # 0
    <3>1. AreLevels(fo, F, 0, [m \in 0 .. 0 |-> F \cap Live(fo)])
      BY DEF AreLevels
    <3> QED BY <2>2, <3>1
  <2>4. PICK h : AreLevels(fo, F, n - 1, h)
    <3>1. n - 1 \in Nat /\ ~(n <= n - 1)
      BY <2>2, <2>3
    <3>2. n - 1 \notin none
      <4> HIDE DEF none
      <4> QED BY <2>1, <3>1
    <3> QED BY <3>1, <3>2
  <2> HIDE DEF next
  <2>5. h = [m \in 0 .. n - 1 |-> IF m = 0 THEN F \cap Live(fo) ELSE next(h[m - 1])]
    BY <2>4, Zenon DEF AreLevels, next
  <2> DEFINE g == [m \in 0 .. n |-> IF m = n THEN next(h[n - 1]) ELSE h[m]]
  <2>6. \A m \in 0 .. n : g[m] = IF m = 0 THEN F \cap Live(fo) ELSE next(g[m - 1])
    <3> SUFFICES ASSUME NEW m \in 0 .. n
                 PROVE  g[m] = IF m = 0 THEN F \cap Live(fo) ELSE next(g[m - 1])
      OBVIOUS
    <3>1. CASE m = n
      <4>1. g[m] = next(h[n - 1]) /\ m - 1 = n - 1 /\ g[n - 1] = h[n - 1]
        BY <2>2, <2>3, <3>1
      <4> QED BY <2>3, <3>1, <4>1
    <3>2. CASE m # n /\ m # 0
      <4>1. m \in 0 .. n - 1 /\ m - 1 \in 0 .. n /\ m - 1 # n
        BY <2>2, <3>2
      <4>2. g[m] = h[m] /\ g[m - 1] = h[m - 1]
        BY <3>2, <4>1
      <4>3. h[m] = next(h[m - 1])
        BY <2>5, <3>2, <4>1
      <4> QED BY <3>2, <4>2, <4>3
    <3>3. CASE m = 0
      <4>1. 0 \in 0 .. n - 1 /\ 0 \in 0 .. n
        BY <2>2, <2>3
      <4>2. h[0] = F \cap Live(fo)
        BY <2>5, <4>1
      <4>3. g[0] = h[0]
        BY <2>3, <4>1
      <4> QED BY <3>3, <4>2, <4>3
    <3> QED BY <3>1, <3>2, <3>3
  <2>7. g = [m \in 0 .. n |-> g[m]]
    OBVIOUS
  <2> HIDE DEF g
  <2>8. g = [m \in 0 .. n |-> IF m = 0 THEN F \cap Live(fo) ELSE next(g[m - 1])]
    BY <2>6, <2>7
  <2>9. AreLevels(fo, F, n, g)
    BY <2>8, Zenon DEF AreLevels, next
  <2> QED BY <2>2, <2>9
<1>2. CASE none = {}
  <2>1. \E g : AreLevels(fo, F, k, g)
    BY <1>2
  <2> QED BY <2>1, Zenon DEF LevelsOf
<1> QED BY <1>1, <1>2

\* The subtree of F contains the live folders of F, contains the children of
\* its members, and is the least such set.
LEMMA BelowLeast ==
    ASSUME NEW fo, NEW F
    PROVE  /\ F \cap Live(fo) \subseteq Below(fo, F) /\ Below(fo, F) \subseteq Live(fo)
           /\ Closed(fo, Below(fo, F))
           /\ \A S : F \cap Live(fo) \subseteq S /\ Closed(fo, S) => Below(fo, F) \subseteq S
<1> DEFINE N == Cardinality(FolderIds)
           g == LevelsOf(fo, F, N)
           L == Live(fo)
<1>1. N \in Nat
  BY FS_CardinalityType
<1>2. AreLevels(fo, F, N, g)
  BY <1>1, LevelsExist
<1> HIDE DEF g, N, L
<1>3. /\ g[0] = F \cap L
      /\ \A n \in 1 .. N : g[n] = g[n - 1] \cup ChildrenOf(fo, g[n - 1])
  <2>1. g = [n \in 0 .. N |-> IF n = 0 THEN F \cap L ELSE g[n - 1] \cup ChildrenOf(fo, g[n - 1])]
    BY <1>2, Zenon DEF AreLevels, L
  <2>2. 0 \in 0 .. N /\ \A n \in 1 .. N : n \in 0 .. N /\ n # 0
    BY <1>1
  <2> QED BY <2>1, <2>2
\* A property of level 0 that every level hands to the next one.
<1>4. \A S : F \cap L \subseteq S /\ Closed(fo, S) => \A n \in 0 .. N : g[n] \subseteq S
  <2> SUFFICES ASSUME NEW S, F \cap L \subseteq S, Closed(fo, S),
                      {n \in 0 .. N : ~(g[n] \subseteq S)} # {}
               PROVE  FALSE
    OBVIOUS
  <2>1. PICK n \in {m \in 0 .. N : ~(g[m] \subseteq S)} :
             \A m \in {i \in 0 .. N : ~(g[i] \subseteq S)} : n <= m
    <3>1. {m \in 0 .. N : ~(g[m] \subseteq S)} \in SUBSET Nat
      BY <1>1
    <3> QED BY <3>1, LeastNatural
  <2>2. n \in 1 .. N /\ n - 1 \in 0 .. N /\ ~(n <= n - 1)
    BY <1>1, <1>3, <2>1
  <2>3. g[n - 1] \subseteq S
    BY <2>1, <2>2
  <2>4. ChildrenOf(fo, g[n - 1]) \subseteq S
    BY <2>3 DEF Closed, ChildrenOf
  <2> QED BY <1>3, <2>1, <2>2, <2>3, <2>4
<1>5. \A n \in 0 .. N : F \cap L \subseteq g[n] /\ g[n] \subseteq L
  <2>1. F \cap L \subseteq L /\ Closed(fo, L)
    BY DEF Closed, ChildrenOf, L
  <2>2. \A n \in 0 .. N : g[n] \subseteq L
    BY <1>4, <2>1
  <2> SUFFICES ASSUME {n \in 0 .. N : ~(F \cap L \subseteq g[n])} # {} PROVE FALSE
    BY <2>2
  <2>3. PICK n \in {m \in 0 .. N : ~(F \cap L \subseteq g[m])} :
             \A m \in {i \in 0 .. N : ~(F \cap L \subseteq g[i])} : n <= m
    <3>1. {m \in 0 .. N : ~(F \cap L \subseteq g[m])} \in SUBSET Nat
      BY <1>1
    <3> QED BY <3>1, LeastNatural
  <2>4. n \in 1 .. N /\ n - 1 \in 0 .. N /\ ~(n <= n - 1)
    BY <1>1, <1>3, <2>3
  <2>5. F \cap L \subseteq g[n - 1]
    BY <2>3, <2>4
  <2> QED BY <1>3, <2>3, <2>4, <2>5
\* A level is closed, or it has more members than its number.
<1>6. IsFiniteSet(L) /\ Cardinality(L) <= N
  BY FS_Subset DEF L, N, Live
<1>7. \A n \in 0 .. N : IsFiniteSet(g[n]) /\ Cardinality(g[n]) \in Nat /\ Cardinality(g[n]) <= N
  BY <1>1, <1>5, <1>6, FS_Subset, FS_CardinalityType
<1>8. \A n \in 0 .. N : Closed(fo, g[n]) \/ Cardinality(g[n]) > n
  <2> DEFINE few == {n \in 0 .. N : ~(Closed(fo, g[n]) \/ Cardinality(g[n]) > n)}
  <2> SUFFICES ASSUME few # {} PROVE FALSE
    OBVIOUS
  <2>1. PICK n \in few : \A m \in few : n <= m
    <3>1. few \in SUBSET Nat
      BY <1>1
    <3> HIDE DEF few
    <3> QED BY <3>1, LeastNatural
  <2>2. n \in 0 .. N /\ ~Closed(fo, g[n]) /\ ~(Cardinality(g[n]) > n)
    OBVIOUS
  <2>3. n # 0
    <3>1. ASSUME n = 0 PROVE FALSE
      <4>1. Cardinality(g[0]) = 0
        BY <1>7, <2>2, <3>1
      <4>2. g[0] = {}
        BY <1>7, <2>2, <3>1, <4>1, FS_EmptySet
      <4> QED BY <2>2, <3>1, <4>2 DEF Closed, ChildrenOf
    <3> QED BY <3>1
  <2>4. n \in 1 .. N /\ n - 1 \in 0 .. N /\ ~(n <= n - 1)
    BY <1>1, <2>2, <2>3
  <2>5. n - 1 \notin few
    <3> HIDE DEF few
    <3> QED BY <2>1, <2>4
  <2>6. Closed(fo, g[n - 1]) \/ Cardinality(g[n - 1]) > n - 1
    BY <2>4, <2>5
  <2>7. g[n] = g[n - 1] \cup ChildrenOf(fo, g[n - 1])
    BY <1>3, <2>4
  <2>8. ~Closed(fo, g[n - 1])
    BY <2>2, <2>7 DEF Closed
  <2>9. g[n - 1] \subseteq g[n] /\ g[n - 1] # g[n]
    BY <2>7, <2>8 DEF Closed
  <2>10. Cardinality(g[n - 1]) < Cardinality(g[n])
    <3>1. Cardinality(g[n - 1]) <= Cardinality(g[n])
          /\ (Cardinality(g[n]) = Cardinality(g[n - 1]) => g[n] = g[n - 1])
      BY <1>7, <2>2, <2>9, FS_Subset
    <3> QED BY <1>7, <2>2, <2>4, <2>9, <3>1
  <2> QED BY <1>7, <2>2, <2>4, <2>6, <2>8, <2>10
<1>9. Closed(fo, g[N])
  BY <1>1, <1>7, <1>8
<1>10. Below(fo, F) = L \cap g[N] /\ N \in 0 .. N
  BY <1>1 DEF Below, g, N, L
<1>11. Below(fo, F) = g[N]
  BY <1>5, <1>10
<1> QED BY <1>4, <1>5, <1>9, <1>10, <1>11 DEF L

----------------------------------------------------------------------------
(* Places in the tree *)

\* A running operation knows live folders; a Delete has listed whole subtrees
\* and all their files.
PlaceOK(o) ==
    /\ o.kind \in {"mkdir", "move", "copy"} => o.dst \in LiveFolders
    /\ o.kind = "copy" => /\ \A f \in DOMAIN o.map : o.map[f] \in LiveFolders
                          /\ \A f \in o.top : folder[f].st # "fresh"
    /\ o.kind = "delete" => /\ Root \notin o.dirs
                            /\ ChildrenOf(folder, o.dirs) \subseteq o.dirs \cup {Root}
                            /\ FilesIn(o.dirs) \subseteq IF o.pc = "folders" THEN {} ELSE o.files

\* Every file is in a live folder; no folder is below a key that is yet to be used.
PlacesHeld ==
    /\ Alone
    /\ \A p \in Ops : PlaceOK(op[p])
    /\ Root \in LiveFolders
    /\ \A x \in LiveFiles : file[x].folder \in LiveFolders
    /\ \A f \in LiveFolders, g \in FolderIds : folder[g].st = "fresh" => folder[f].parent # g

\* What a request remembers.
Remembers(p) ==
    \/ op'[p].kind = "mkdir" /\ op'[p].dst \in Reachable
    \/ /\ op'[p].kind = "move" /\ op'[p].dst \in Reachable
       /\ MoveBelowSelf \/ \A d \in op'[p].dirs : op'[p].dst \notin Descendants({d}) \ {d}
    \/ /\ op'[p].kind = "copy" /\ op'[p].pc \in {"list", "tree"} /\ op'[p].dst \in Reachable
       /\ DOMAIN op'[p].map = {} /\ DOMAIN op'[p].rows = {} /\ op'[p].size = 0
       /\ \A f \in op'[p].top : folder[f].st # "fresh"
    \/ /\ op'[p].kind = "delete" /\ op'[p].pc = "links"
       /\ \E F : op'[p].dirs = Descendants(F) \ {Root}
       /\ FilesIn(op'[p].dirs) \subseteq op'[p].files

\* Requests change no rows, and a listing without failed queries is complete.
LEMMA RequestCases ==
    ASSUME MaxSilent = 0, TypeOK, NEW p \in Ops, Request(p)
    PROVE  UNCHANGED <<folder, file, content, orphaned>> /\ Remembers(p)
<1>1. UNCHANGED <<folder, file, content, orphaned>>
  BY Zenon DEF Request, CreateDirectory, Move, Copy, Delete, tree, hist
<1>i. /\ IdleOp \in Operation /\ op = [q \in Ops |-> op[q]] /\ DOMAIN IdleOp.rows = {}
      /\ DOMAIN IdleOp.map = {} /\ IdleOp.size = 0
  BY IdleOpType DEF TypeOK, IdleOp, NoRows
<1>2. ASSUME NEW n \in Names, CreateDirectory(p, n) PROVE Remembers(p)
  <2>1. PICK d \in Reachable :
           Step(p, [IdleOp EXCEPT !.kind = "mkdir", !.pc = "create", !.dst = d, !.name = n])
    BY <1>2, Zenon DEF CreateDirectory
  <2>2. op'[p].kind = "mkdir" /\ op'[p].dst = d
    BY <1>i, <2>1 DEF Step, Operation
  <2> QED BY <2>2 DEF Remembers
<1>3. ASSUME NEW dirs, NEW files, Move(p, dirs, files) PROVE Remembers(p)
  <2>1. PICK src, dst \in Reachable :
           /\ MoveBelowSelf \/ \A d \in dirs : dst \notin Descendants({d}) \ {d}
           /\ Step(p, [IdleOp EXCEPT !.kind = "move", !.pc = "folders", !.src = src,
                                    !.dst = dst, !.dirs = dirs, !.files = files])
    BY <1>3, Zenon DEF Move
  <2>2. op'[p].kind = "move" /\ op'[p].dst = dst /\ op'[p].dirs = dirs
    BY <1>i, <2>1 DEF Step, Operation
  <2> QED BY <2>1, <2>2, Zenon DEF Remembers
<1>4. ASSUME NEW dirs, NEW files, Batch(dirs, files), Copy(p, dirs, files) PROVE Remembers(p)
  <2>1. PICK src, dst \in Reachable :
           Step(p, [IdleOp EXCEPT !.kind = "copy", !.pc = IF dirs = {} THEN "list" ELSE "tree",
                               !.src = src, !.dst = dst, !.top = dirs, !.files = files])
    BY <1>4, Zenon DEF Copy
  <2>2. /\ op'[p].kind = "copy" /\ op'[p].rows = IdleOp.rows /\ op'[p].map = IdleOp.map
        /\ op'[p].size = IdleOp.size /\ op'[p].pc \in {"list", "tree"}
        /\ op'[p].dst = dst /\ op'[p].top = dirs
    BY <1>i, <2>1 DEF Step, Operation
  <2>3. \A f \in dirs : folder[f].st # "fresh"
    BY <1>4 DEF Batch
  <2> QED BY <1>i, <2>1, <2>2, <2>3, Zenon DEF Remembers
<1>5. ASSUME NEW dirs, NEW files, NEW force, Delete(p, dirs, files, force) PROVE Remembers(p)
  <2>1. PICK found : /\ ListedAs(dirs, found)
           /\ Step(p, [IdleOp EXCEPT !.kind = "delete", !.pc = "links", !.dirs = found \ {Root},
                         !.files = FilesIn(found \ {Root}) \cup (files \cap LiveFiles), !.force = force,
                         !.twice = FilesIn(found \ {Root}) \cap (files \cap LiveFiles)])
    BY <1>5, Zenon DEF Delete
  <2>2. found = Descendants(dirs)
    BY <2>1 DEF ListedAs, SilentFault, TypeOK, CountersOK
  <2>3. /\ op'[p].kind = "delete" /\ op'[p].pc = "links" /\ op'[p].dirs = found \ {Root}
        /\ op'[p].files = FilesIn(found \ {Root}) \cup (files \cap LiveFiles)
    BY <1>i, <2>1 DEF Step, Operation
  <2> QED BY <2>2, <2>3, Zenon DEF Remembers
<1> QED BY <1>1, <1>2, <1>3, <1>4, <1>5, Zenon DEF Request

\* A fresh key becomes the folder n of d.
NewFolder(f, d, n) ==
    /\ folder[f].st = "fresh"
    /\ folder' = [folder EXCEPT ![f] = [st |-> "live", parent |-> d, name |-> n]]

\* What the creation of a folder changes.
LEMMA NewFolderRows ==
    ASSUME TypeOK, NEW f \in FolderIds, NEW d, NEW n, NewFolder(f, d, n)
    PROVE  /\ f \notin LiveFolders /\ LiveFolders' = LiveFolders \cup {f}
           /\ folder'[f] = [st |-> "live", parent |-> d, name |-> n]
           /\ \A g \in FolderIds \ {f} : folder'[g] = folder[g]
           /\ Live(folder) = LiveFolders /\ Live(folder') = LiveFolders'
<1>1. /\ folder'[f] = [st |-> "live", parent |-> d, name |-> n]
      /\ \A g \in FolderIds \ {f} : folder'[g] = folder[g]
  BY DEF TypeOK, NewFolder
<1> QED BY <1>1 DEF NewFolder, LiveFolders, Live

\* A step of the only operation keeps PlacesHeld if it keeps its parts.
LEMMA PlacesStep ==
    ASSUME TypeOK, TypeOK', PlacesHeld, Alone', NEW p \in Ops,
           \A q \in Ops \ {p} : Idle(q) /\ op'[q] = op[q],
           PlaceOK(op[p])', Root \in LiveFolders',
           \A x \in LiveFiles' : file'[x].folder \in LiveFolders',
           \A f \in LiveFolders', g \in FolderIds : folder'[g].st = "fresh" => folder'[f].parent # g
    PROVE  PlacesHeld'
<1>1. ASSUME NEW q \in Ops \ {p} PROVE PlaceOK(op[q])'
  <2>1. op'[q].kind = "idle"
    BY Running
  <2> QED BY <2>1 DEF PlaceOK
<1> QED BY <1>1 DEF PlacesHeld

\* Reading changes nothing.
LEMMA QuietPlaces ==
    ASSUME TypeOK, TypeOK', PlacesHeld, Alone', NEW p \in Ops,
           \A q \in Ops \ {p} : Idle(q) /\ op'[q] = op[q],
           UNCHANGED <<folder, file>>, PlaceOK(op[p])'
    PROVE  PlacesHeld'
BY PlacesStep DEF PlacesHeld, LiveFolders, LiveFiles

\* A new folder is put into a live one.
LEMMA NewFolderPlaces ==
    ASSUME TypeOK, TypeOK', PlacesHeld, Alone', NEW p \in Ops,
           \A q \in Ops \ {p} : Idle(q) /\ op'[q] = op[q],
           NEW f \in FolderIds, NEW d \in LiveFolders, NEW n, NewFolder(f, d, n),
           UNCHANGED file, PlaceOK(op[p])'
    PROVE  PlacesHeld'
<1>0. /\ f \notin LiveFolders /\ LiveFolders' = LiveFolders \cup {f}
      /\ folder'[f].parent = d /\ folder'[f].st = "live"
      /\ \A g \in FolderIds \ {f} : folder'[g] = folder[g]
  <2>1. /\ folder'[f] = [st |-> "live", parent |-> d, name |-> n]
        /\ \A g \in FolderIds \ {f} : folder'[g] = folder[g]
    BY DEF TypeOK, NewFolder
  <2> QED BY <2>1 DEF NewFolder, LiveFolders
<1>1. Root \in LiveFolders' /\ \A x \in LiveFiles' : file'[x].folder \in LiveFolders'
  BY <1>0 DEF PlacesHeld, LiveFiles
<1>2. ASSUME NEW h \in LiveFolders', NEW g \in FolderIds, folder'[g].st = "fresh"
      PROVE  folder'[h].parent # g
  <2>1. g # f /\ folder[g].st = "fresh" /\ g \notin LiveFolders /\ h \in FolderIds
    BY <1>0, <1>2 DEF LiveFolders
  <2>2. CASE h = f
    BY <1>0, <2>1, <2>2
  <2>3. CASE h # f
    <3>1. h \in LiveFolders /\ folder'[h] = folder[h]
      BY <1>0, <1>2, <2>1, <2>3
    <3> QED BY <2>1, <3>1 DEF PlacesHeld
  <2> QED BY <2>2, <2>3
<1> QED BY <1>1, <1>2, PlacesStep

\* What a request remembers is live.
LEMMA RequestPlaces ==
    ASSUME MaxSilent = 0, TypeOK, TypeOK', PlacesHeld, Alone', NEW p \in Ops, Request(p),
           \A q \in Ops : Idle(q)
    PROVE  PlacesHeld'
<1>0. \A q \in Ops \ {p} : Idle(q) /\ op'[q] = op[q]
  BY StepsOne
<1>1. UNCHANGED <<folder, file>> /\ Remembers(p)
  BY RequestCases
<1>2. Reachable \subseteq LiveFolders /\ LiveFolders' = LiveFolders /\ LiveFolders = Live(folder)
  <2>1. LiveFolders' = LiveFolders /\ LiveFolders = Live(folder)
    BY <1>1 DEF LiveFolders, Live
  <2> QED BY <2>1, DescendantsBelow, BelowLeast DEF Reachable
<1>3. PlaceOK(op[p])'
  <2>1. CASE op'[p].kind \in {"mkdir", "move"} /\ op'[p].dst \in Reachable
    BY <1>2, <2>1 DEF PlaceOK
  <2>2. CASE /\ op'[p].kind = "copy" /\ op'[p].dst \in Reachable /\ DOMAIN op'[p].map = {}
             /\ \A f \in op'[p].top : folder[f].st # "fresh"
    BY <1>1, <1>2, <2>2 DEF PlaceOK
  <2>3. ASSUME op'[p].kind = "delete", op'[p].pc = "links",
               NEW F, op'[p].dirs = Descendants(F) \ {Root},
               FilesIn(op'[p].dirs) \subseteq op'[p].files
        PROVE  PlaceOK(op[p])'
    <3>1. Closed(folder, Descendants(F))
      BY DescendantsBelow, BelowLeast
    <3>2. ChildrenOf(folder, op'[p].dirs) \subseteq op'[p].dirs \cup {Root}
      BY <2>3, <3>1 DEF Closed, ChildrenOf
    <3>3. FilesIn(op[p].dirs)' = FilesIn(op'[p].dirs)
      BY <1>1 DEF FilesIn, LiveFiles
    <3> QED BY <1>1, <2>3, <3>2, <3>3 DEF PlaceOK
  <2> QED BY <1>1, <2>1, <2>2, <2>3 DEF Remembers
<1> QED BY <1>0, <1>1, <1>3, QuietPlaces

\* What the steps of an operation do to the tree and to what it remembers.
Ends(p) == Step(p, IdleOp) /\ UNCHANGED <<folder, file>>
FolderMade(p, f) ==
    /\ op[p].kind = "mkdir" /\ NewFolder(f, op[p].dst, op[p].name)
    /\ Step(p, IdleOp) /\ UNCHANGED file
FoldersMoved(p) ==
    /\ op[p].kind = "move" /\ op[p].pc = "folders" /\ op[p].dst \notin op[p].dirs
    /\ folder' = [f \in FolderIds |->
          IF f \in op[p].dirs \cap LiveFolders /\ folder[f].parent = op[p].src
          THEN [folder[f] EXCEPT !.parent = op[p].dst] ELSE folder[f]]
    /\ Step(p, [op[p] EXCEPT !.pc = "files"]) /\ UNCHANGED file
FilesMoved(p) ==
    /\ op[p].kind = "move"
    /\ \E moved : file' = [x \in FileIds |->
          IF x \in moved THEN [file[x] EXCEPT !.folder = op[p].dst] ELSE file[x]]
    /\ Step(p, IdleOp) /\ UNCHANGED folder
TreeListed(p) ==
    /\ op[p].kind = "copy" /\ op[p].pc = "tree"
    /\ Step(p, [op[p] EXCEPT !.pc = "folders", !.tree = FolderRows(Descendants(op[p].top))])
    /\ UNCHANGED <<folder, file>>
FolderCopied(p, t, f) ==
    /\ op[p].kind = "copy" /\ op[p].pc = "folders"
    /\ t.id \notin DOMAIN op[p].map
    /\ t.id \in op[p].top \/ t.parent \in DOMAIN op[p].map
    /\ NewFolder(f, NewParent(p, t), t.name)
    /\ Step(p, [op[p] EXCEPT !.map = With(@, t.id, f)]) /\ UNCHANGED file
TreeFilesListed(p) ==
    /\ op[p].kind = "copy" /\ op[p].pc = "folders"
    /\ {t.id : t \in op[p].tree} = DOMAIN op[p].map
    /\ Step(p, [op[p] EXCEPT !.pc = "treefiles",
                             !.rows = FileRowsOf(FilesIn({t.id : t \in op[p].tree}))])
    /\ UNCHANGED <<folder, file>>
FilesListed(p) ==
    /\ op[p].kind = "copy"
    /\ \/ Step(p, [op[p] EXCEPT !.pc = "charge"])
       \/ \E r : Step(p, [op[p] EXCEPT !.pc = "files", !.rows = r])
    /\ UNCHANGED <<folder, file>>
FileCopied(p, x, y) ==
    /\ op[p].kind = "copy" /\ op[p].pc \in {"files", "treefiles"}
    /\ CopyInserts(p, x, y, IF op[p].pc = "files" THEN op[p].dst
                            ELSE op[p].map[op[p].rows[x].folder])
    /\ UNCHANGED folder
DeleteGoesOn(p) ==
    /\ op[p].kind = "delete" /\ op[p].pc \in {"links", "unlink"}
    /\ \/ \E u : Step(p, [op[p] EXCEPT !.pc = "unlink", !.unlink = u])
       \/ \E g : Step(p, [op[p] EXCEPT !.pc = "rows", !.gone = g])
    /\ UNCHANGED <<folder, file>>
RowsDeleted(p) ==
    /\ op[p].kind = "delete" /\ op[p].pc = "rows"
    /\ file' = [x \in FileIds |->
          IF x \in op[p].gone THEN [file[x] EXCEPT !.st = "dead"] ELSE file[x]]
    /\ \/ Step(p, IdleOp)
       \/ op[p].gone = op[p].files /\ Step(p, [op[p] EXCEPT !.pc = "folders"])
    /\ UNCHANGED folder
FoldersDeleted(p) ==
    /\ op[p].kind = "delete" /\ op[p].pc = "folders"
    /\ folder' = [f \in FolderIds |->
          IF f \in op[p].dirs THEN [folder[f] EXCEPT !.st = "dead"] ELSE folder[f]]
    /\ Step(p, IdleOp) /\ UNCHANGED file

\* Without failed queries, one of these is what a step does.
LEMMA AdvanceCases ==
    ASSUME MaxSilent = 0, TypeOK, NEW p \in Ops, Advance(p)
    PROVE  \/ Ends(p)
           \/ \E f \in FolderIds : FolderMade(p, f)
           \/ FoldersMoved(p) \/ FilesMoved(p) \/ TreeListed(p)
           \/ \E t \in op[p].tree, f \in FolderIds : FolderCopied(p, t, f)
           \/ TreeFilesListed(p) \/ FilesListed(p)
           \/ \E x \in DOMAIN op[p].rows, y \in FileIds : FileCopied(p, x, y)
           \/ DeleteGoesOn(p) \/ RowsDeleted(p) \/ FoldersDeleted(p)
<1>1. CASE FolderCreate(p)
  BY <1>1, Zenon DEF FolderCreate, At, Ends, FolderMade, NewFolder
<1>2. CASE MoveFolderTo(p)
  <2> DEFINE moved == {f \in op[p].dirs \cap LiveFolders : folder[f].parent = op[p].src}
  <2>1. \/ Ends(p)
        \/ /\ op[p].kind = "move" /\ op[p].pc = "folders" /\ op[p].dst \notin op[p].dirs
           /\ folder' = [f \in FolderIds |->
                 IF f \in moved THEN [folder[f] EXCEPT !.parent = op[p].dst] ELSE folder[f]]
           /\ Step(p, [op[p] EXCEPT !.pc = "files"]) /\ UNCHANGED file
    BY <1>2, Zenon DEF MoveFolderTo, At, Ends, IntoItself
  <2>2. \A f : f \in moved <=> f \in op[p].dirs \cap LiveFolders /\ folder[f].parent = op[p].src
    OBVIOUS
  <2> HIDE DEF moved
  <2>3. [f \in FolderIds |-> IF f \in moved THEN [folder[f] EXCEPT !.parent = op[p].dst] ELSE folder[f]]
        = [f \in FolderIds |->
            IF f \in op[p].dirs \cap LiveFolders /\ folder[f].parent = op[p].src
            THEN [folder[f] EXCEPT !.parent = op[p].dst] ELSE folder[f]]
    BY <2>2
  <2> QED BY <2>1, <2>3, Zenon DEF FoldersMoved
<1>3. CASE MoveFilesTo(p)
  BY <1>3, Zenon DEF MoveFilesTo, At, Ends, FilesMoved
<1>4. CASE CopyListFolders(p)
  <2>1. PICK found : Step(p, [op[p] EXCEPT !.pc = "folders", !.tree = FolderRows(found)])
                     /\ ListedAs(op[p].top, found)
    BY <1>4, Zenon DEF CopyListFolders
  <2>2. found = Descendants(op[p].top)
    BY <2>1 DEF ListedAs, SilentFault, TypeOK, CountersOK
  <2>3. op[p].kind = "copy" /\ op[p].pc = "tree" /\ UNCHANGED <<folder, file>>
    BY <1>4, Zenon DEF CopyListFolders, At, tree
  <2> QED BY <2>1, <2>2, <2>3, Zenon DEF TreeListed
<1>5. CASE CopyFolder(p)
  BY <1>5, Zenon DEF CopyFolder, At, CopyFails, Ends, FolderCopied, NewFolder
<1>6. CASE CopyListTreeFiles(p)
  BY <1>6, Zenon DEF CopyListTreeFiles, At, CopyFails, tree, Ends, TreeFilesListed
<1>7. CASE CopyListFiles(p)
  BY <1>7, Zenon DEF CopyListFiles, At, CopyFails, tree, Ends, FilesListed
<1>8. CASE CopyFile(p)
  <2>1. UNCHANGED folder /\ op[p].kind = "copy" /\ op[p].pc \in {"files", "treefiles"}
    BY <1>8, Zenon DEF CopyFile, At
  <2>2. \/ CopyFails(p) /\ UNCHANGED file
        \/ \E x \in DOMAIN op[p].rows, y \in FileIds :
              CopyInserts(p, x, y, IF op[p].pc = "files" THEN op[p].dst
                                   ELSE op[p].map[op[p].rows[x].folder])
    BY <1>8, Zenon DEF CopyFile, CopyInserts
  <2> QED BY <2>1, <2>2, Zenon DEF CopyFails, Ends, FileCopied
<1>9. CASE CopyCharge(p)
  BY <1>9, Zenon DEF CopyCharge, tree, Ends
<1>10. CASE RemoveFilesWithSoftLinks(p)
  BY <1>10, Zenon DEF RemoveFilesWithSoftLinks, At, tree, DeleteGoesOn
<1>11. CASE DeleteContent(p)
  BY <1>11, Zenon DEF DeleteContent, At, tree, DeleteGoesOn
<1>12. CASE DeleteRows(p)
  BY <1>12, Zenon DEF DeleteRows, At, EveryFileDeleted, Ends, RowsDeleted
<1>13. CASE DeleteFolders(p)
  BY <1>13, Zenon DEF DeleteFolders, At, Ends, FoldersDeleted
<1> QED BY <1>1, <1>2, <1>3, <1>4, <1>5, <1>6, <1>7, <1>8, <1>9, <1>10, <1>11, <1>12, <1>13, Zenon
        DEF Advance

\* The destination of a copied folder is a live one.
LEMMA NewParentLive ==
    ASSUME PlacesHeld, NEW p \in Ops, op[p].kind = "copy", NEW t,
           t.id \in op[p].top \/ t.parent \in DOMAIN op[p].map
    PROVE  NewParent(p, t) \in LiveFolders
BY DEF PlacesHeld, PlaceOK, NewParent

\* The steps of an operation keep objects in live folders.
LEMMA AdvancePlaces ==
    ASSUME MaxSilent = 0, TypeOK, TypeOK', PlacesHeld, Alone', NEW p \in Ops, Advance(p),
           \A q \in Ops \ {p} : Idle(q)
    PROVE  PlacesHeld'
<1>o. /\ op[p] \in Operation /\ op = [q \in Ops |-> op[q]] /\ PlaceOK(op[p])
      /\ file \in [FileIds -> FileRow] /\ folder \in [FolderIds -> FolderRow]
      /\ op[p].map \in NewIds
  BY DEF TypeOK, PlacesHeld, Operation
<1>0. \A q \in Ops \ {p} : Idle(q) /\ op'[q] = op[q]
  BY StepsOne
<1>i. IdleOp.kind = "idle"
  BY DEF IdleOp
<1>idle. Step(p, IdleOp) => PlaceOK(op[p])'
  BY <1>o, <1>i DEF Step, PlaceOK
<1>1. CASE Ends(p)
  BY <1>0, <1>1, <1>idle, QuietPlaces DEF Ends
<1>2. ASSUME NEW f \in FolderIds, FolderMade(p, f) PROVE PlacesHeld'
  <2>1. op[p].dst \in LiveFolders
    BY <1>o, <1>2 DEF FolderMade, PlaceOK
  <2> QED BY <1>0, <1>2, <1>idle, <2>1, NewFolderPlaces DEF FolderMade
<1>3. CASE FoldersMoved(p)
  <2>1. op[p].dst \in LiveFolders /\ op[p].kind = "move"
    BY <1>o, <1>3 DEF FoldersMoved, PlaceOK
  <2>2. \A f \in FolderIds : /\ folder'[f].st = folder[f].st
                             /\ folder'[f].parent \in {folder[f].parent, op[p].dst}
    BY <1>o, <1>3 DEF FoldersMoved, FolderRow
  <2>3. LiveFolders' = LiveFolders /\ LiveFiles' = LiveFiles /\ file' = file
    BY <1>3, <2>2 DEF LiveFolders, LiveFiles, FoldersMoved
  <2>4. op'[p].kind = "move" /\ op'[p].dst = op[p].dst
    BY <1>o, <1>3, <2>1 DEF FoldersMoved, Step, Operation
  <2>5. PlaceOK(op[p])'
    BY <2>1, <2>3, <2>4 DEF PlaceOK
  <2>6. ASSUME NEW f \in LiveFolders', NEW g \in FolderIds, folder'[g].st = "fresh"
        PROVE  folder'[f].parent # g
    BY <2>1, <2>2, <2>3, <2>6 DEF PlacesHeld, LiveFolders
  <2>7. Root \in LiveFolders' /\ \A x \in LiveFiles' : file'[x].folder \in LiveFolders'
    BY <2>3 DEF PlacesHeld
  <2> QED BY <1>0, <2>5, <2>6, <2>7, PlacesStep
<1>4. CASE FilesMoved(p)
  <2>1. op[p].dst \in LiveFolders /\ folder' = folder /\ Step(p, IdleOp)
    BY <1>o, <1>4 DEF FilesMoved, PlaceOK
  <2>2. \A x \in FileIds : /\ file'[x].st = file[x].st
                           /\ file'[x].folder \in {file[x].folder, op[p].dst}
    BY <1>o, <1>4 DEF FilesMoved, FileRow
  <2>3. LiveFolders' = LiveFolders /\ LiveFiles' = LiveFiles
    BY <2>1, <2>2 DEF LiveFolders, LiveFiles
  <2>4. /\ Root \in LiveFolders' /\ \A x \in LiveFiles' : file'[x].folder \in LiveFolders'
        /\ \A f \in LiveFolders', g \in FolderIds : folder'[g].st = "fresh" => folder'[f].parent # g
    BY <2>1, <2>2, <2>3 DEF PlacesHeld, LiveFiles
  <2> QED BY <1>0, <1>idle, <2>1, <2>4, PlacesStep
<1>copy. ASSUME op[p].kind = "copy", UNCHANGED <<folder, file>>, op'[p].kind = "copy",
                op'[p].dst = op[p].dst, op'[p].map = op[p].map, op'[p].top = op[p].top
         PROVE  PlacesHeld'
  <2>1. PlaceOK(op[p])'
    BY <1>o, <1>copy DEF PlaceOK, LiveFolders
  <2> QED BY <1>0, <1>copy, <2>1, QuietPlaces
<1>5. CASE TreeListed(p)
  <2>1. Step(p, [op[p] EXCEPT !.pc = "folders", !.tree = FolderRows(Descendants(op[p].top))])
        /\ op[p].kind = "copy" /\ UNCHANGED <<folder, file>>
    BY <1>5 DEF TreeListed
  <2>2. /\ op'[p].kind = "copy" /\ op'[p].dst = op[p].dst /\ op'[p].map = op[p].map
        /\ op'[p].top = op[p].top
    BY <1>o, <2>1 DEF Step, Operation
  <2> QED BY <1>copy, <2>1, <2>2
<1>6. ASSUME NEW t \in op[p].tree, NEW f \in FolderIds, FolderCopied(p, t, f) PROVE PlacesHeld'
  <2> DEFINE d == NewParent(p, t)
             W == With(op[p].map, t.id, f)
  <2>1. /\ op[p].kind = "copy" /\ NewFolder(f, d, t.name) /\ UNCHANGED file
        /\ Step(p, [op[p] EXCEPT !.map = W]) /\ d \in LiveFolders
    BY <1>6, NewParentLive DEF FolderCopied
  <2>2. \A g \in DOMAIN W : W[g] = f \/ (g \in DOMAIN op[p].map /\ W[g] = op[p].map[g])
    BY DEF With
  <2> HIDE DEF d, W
  <2>3. /\ op'[p].kind = "copy" /\ op'[p].dst = op[p].dst /\ op'[p].map = W
        /\ op'[p].top = op[p].top
    BY <1>o, <2>1 DEF Step, Operation
  <2>4. /\ LiveFolders \subseteq LiveFolders' /\ f \in LiveFolders'
        /\ \A g \in FolderIds : folder[g].st # "fresh" => folder'[g].st # "fresh"
    BY <1>o, <2>1 DEF LiveFolders, NewFolder
  <2>5. PlaceOK(op[p])'
    <3>1. op[p].top \subseteq FolderIds
      BY <1>o DEF Operation
    <3> QED BY <1>o, <2>1, <2>2, <2>3, <2>4, <3>1 DEF PlaceOK
  <2> QED BY <1>0, <2>1, <2>5, NewFolderPlaces
<1>7. CASE TreeFilesListed(p)
  <2> DEFINE r == FileRowsOf(FilesIn({t.id : t \in op[p].tree}))
  <2>1. /\ Step(p, [op[p] EXCEPT !.pc = "treefiles", !.rows = r])
        /\ op[p].kind = "copy" /\ UNCHANGED <<folder, file>>
    BY <1>7, Zenon DEF TreeFilesListed
  <2> HIDE DEF r
  <2>2. /\ op'[p].kind = "copy" /\ op'[p].dst = op[p].dst /\ op'[p].map = op[p].map
        /\ op'[p].top = op[p].top
    BY <1>o, <2>1 DEF Step, Operation
  <2> QED BY <1>copy, <2>1, <2>2
<1>8. CASE FilesListed(p)
  <2>1. op[p].kind = "copy" /\ UNCHANGED <<folder, file>>
    BY <1>8 DEF FilesListed
  <2>2. /\ op'[p].kind = "copy" /\ op'[p].dst = op[p].dst /\ op'[p].map = op[p].map
        /\ op'[p].top = op[p].top
    <3>1. CASE Step(p, [op[p] EXCEPT !.pc = "charge"])
      BY <1>o, <2>1, <3>1 DEF Step, Operation
    <3>2. ASSUME NEW r, Step(p, [op[p] EXCEPT !.pc = "files", !.rows = r])
          PROVE  /\ op'[p].kind = "copy" /\ op'[p].dst = op[p].dst /\ op'[p].map = op[p].map
                 /\ op'[p].top = op[p].top
      BY <1>o, <2>1, <3>2 DEF Step, Operation
    <3> QED BY <1>8, <3>1, <3>2, Zenon DEF FilesListed
  <2> QED BY <1>copy, <2>1, <2>2
<1>9. ASSUME NEW x \in DOMAIN op[p].rows, NEW y \in FileIds, FileCopied(p, x, y) PROVE PlacesHeld'
  <2> DEFINE d == IF op[p].pc = "files" THEN op[p].dst ELSE op[p].map[op[p].rows[x].folder]
             old == op[p].rows[x]
  <2>1. /\ op[p].kind = "copy" /\ op[p].pc \in {"files", "treefiles"} /\ folder' = folder
        /\ CopyInserts(p, x, y, d)
    BY <1>9 DEF FileCopied
  <2>2. d \in LiveFolders
    <3>1. OpOK(op[p], file)
      BY DEF TypeOK
    <3> QED BY <1>o, <2>1, <3>1 DEF PlaceOK, OpOK
  <2>3. old \in FileRow
    BY <1>o DEF Operation, FileRows
  <2> HIDE DEF d, old
  <2>4. /\ op'[p].kind = "copy" /\ op'[p].dst = op[p].dst /\ op'[p].map = op[p].map
        /\ op'[p].top = op[p].top
    BY <1>o, <2>1 DEF CopyInserts, Step, Operation
  <2>5. file'[y].folder = d /\ \A z \in FileIds \ {y} : file'[z] = file[z]
    <3>1. file' = [file EXCEPT ![y] = [old EXCEPT !.folder = d]]
      BY <2>1 DEF CopyInserts, old
    <3> QED BY <1>o, <2>3, <3>1 DEF FileRow
  <2>6. LiveFolders' = LiveFolders /\ PlaceOK(op[p])'
    BY <1>o, <2>1, <2>4 DEF LiveFolders, PlaceOK
  <2>7. /\ Root \in LiveFolders' /\ \A z \in LiveFiles' : file'[z].folder \in LiveFolders'
        /\ \A f \in LiveFolders', g \in FolderIds : folder'[g].st = "fresh" => folder'[f].parent # g
    BY <2>1, <2>2, <2>5, <2>6 DEF PlacesHeld, LiveFiles
  <2> QED BY <1>0, <2>6, <2>7, PlacesStep
<1>10. CASE DeleteGoesOn(p)
  <2>1. UNCHANGED <<folder, file>> /\ op[p].kind = "delete" /\ op[p].pc # "folders"
    BY <1>10 DEF DeleteGoesOn
  <2>2. /\ op'[p].kind = "delete" /\ op'[p].dirs = op[p].dirs /\ op'[p].files = op[p].files
        /\ op'[p].pc # "folders"
    <3> DEFINE same == /\ op'[p].kind = "delete" /\ op'[p].dirs = op[p].dirs
                       /\ op'[p].files = op[p].files /\ op'[p].pc # "folders"
    <3>1. ASSUME NEW u, Step(p, [op[p] EXCEPT !.pc = "unlink", !.unlink = u]) PROVE same
      BY <1>o, <2>1, <3>1 DEF Step, Operation
    <3>2. ASSUME NEW g, Step(p, [op[p] EXCEPT !.pc = "rows", !.gone = g]) PROVE same
      BY <1>o, <2>1, <3>2 DEF Step, Operation
    <3> QED BY <1>10, <3>1, <3>2, Zenon DEF DeleteGoesOn
  <2>3. PlaceOK(op[p])'
    BY <1>o, <2>1, <2>2 DEF PlaceOK, FilesIn, LiveFiles
  <2> QED BY <1>0, <2>1, <2>3, QuietPlaces
<1>11. CASE RowsDeleted(p)
  <2>1. /\ folder' = folder /\ op[p].kind = "delete" /\ op[p].pc # "folders"
        /\ \A x \in FileIds : /\ x \in op[p].gone => file'[x].st = "dead"
                              /\ file'[x].st \in {file[x].st, "dead"}
                              /\ file'[x].folder = file[x].folder
    BY <1>o, <1>11 DEF RowsDeleted, FileRow
  <2>2. LiveFolders' = LiveFolders /\ LiveFiles' \subseteq LiveFiles \ op[p].gone
    BY <2>1 DEF LiveFolders, LiveFiles
  <2>3. /\ Root \in LiveFolders' /\ \A x \in LiveFiles' : file'[x].folder \in LiveFolders'
        /\ \A f \in LiveFolders', g \in FolderIds : folder'[g].st = "fresh" => folder'[f].parent # g
    BY <2>1, <2>2 DEF PlacesHeld, LiveFiles
  <2>4. CASE Step(p, IdleOp)
    BY <1>0, <1>idle, <2>3, <2>4, PlacesStep
  <2>5. CASE op[p].gone = op[p].files /\ Step(p, [op[p] EXCEPT !.pc = "folders"])
    <3>1. op'[p].kind = "delete" /\ op'[p].dirs = op[p].dirs
      BY <1>o, <2>1, <2>5 DEF Step, Operation
    <3>2. FilesIn(op[p].dirs)' = {}
      <4>1. \A x \in LiveFiles' : x \in LiveFiles \ op[p].gone /\ file'[x].folder = file[x].folder
        BY <2>1, <2>2 DEF LiveFiles
      <4>2. FilesIn(op[p].dirs) \subseteq op[p].gone
        BY <1>o, <2>1, <2>5 DEF PlaceOK
      <4> QED BY <3>1, <4>1, <4>2 DEF FilesIn
    <3>3. PlaceOK(op[p])'
      BY <1>o, <2>1, <3>1, <3>2 DEF PlaceOK
    <3> QED BY <1>0, <2>3, <3>3, PlacesStep
  <2> QED BY <1>11, <2>4, <2>5 DEF RowsDeleted
<1>12. CASE FoldersDeleted(p)
  <2> DEFINE D == op[p].dirs
  <2>1. /\ file' = file /\ Step(p, IdleOp) /\ Root \notin D /\ FilesIn(D) = {}
        /\ ChildrenOf(folder, D) \subseteq D \cup {Root}
    BY <1>o, <1>12 DEF FoldersDeleted, PlaceOK
  <2>2. \A f \in FolderIds : /\ f \in D => folder'[f].st = "dead"
                             /\ f \notin D => folder'[f] = folder[f]
                             /\ folder'[f].parent = folder[f].parent
    BY <1>o, <1>12 DEF FoldersDeleted, FolderRow
  <2>3. LiveFolders' = LiveFolders \ D
    BY <2>2 DEF LiveFolders
  <2>4. Root \in LiveFolders' /\ \A x \in LiveFiles' : file'[x].folder \in LiveFolders'
    BY <2>1, <2>3 DEF PlacesHeld, FilesIn, LiveFiles
  <2>5. ASSUME NEW f \in LiveFolders', NEW g \in FolderIds, folder'[g].st = "fresh"
        PROVE  folder'[f].parent # g
    BY <2>2, <2>3, <2>5 DEF PlacesHeld, LiveFolders
  <2> QED BY <1>0, <1>idle, <2>1, <2>4, <2>5, PlacesStep
<1> QED BY <1>1, <1>2, <1>3, <1>4, <1>5, <1>6, <1>7, <1>8, <1>9, <1>10, <1>11, <1>12, AdvanceCases

\* Uploads go into folders that a path names.
LEMMA WritePlaces ==
    ASSUME TypeOK, TypeOK', PlacesHeld, Alone', Write, \A q \in Ops : Idle(q)
    PROVE  PlacesHeld'
<1>0. op' = op /\ file \in [FileIds -> FileRow] /\ folder \in [FolderIds -> FolderRow]
  BY Zenon DEF TypeOK, Write, AddFile, RenameFile, RenameFolder
<1>1. \A q \in Ops : PlaceOK(op[q])'
  BY <1>0, Running DEF PlaceOK
<1>2. ASSUME NEW x \in FileIds, NEW s \in Sources, NEW n \in Names, NEW d \in FolderIds,
             AddFile(x, s, n, d)
      PROVE  PlacesHeld'
  <2>1. /\ file' = [file EXCEPT ![x] = [st |-> "live", folder |-> d, name |-> n, src |-> s]]
        /\ d \in Reachable /\ folder' = folder
    BY <1>2, Zenon DEF AddFile
  <2>2. d \in LiveFolders
    <3>1. LiveFolders = Live(folder)
      BY DEF LiveFolders, Live
    <3> QED BY <2>1, <3>1, DescendantsBelow, BelowLeast DEF Reachable
  <2>3. file'[x].folder = d /\ \A y \in FileIds \ {x} : file'[y] = file[y]
    BY <1>0, <2>1
  <2> QED BY <1>1, <2>1, <2>2, <2>3 DEF PlacesHeld, LiveFiles, LiveFolders
<1>3. ASSUME NEW x \in FileIds, NEW n \in Names, RenameFile(x, n) PROVE PlacesHeld'
  <2>1. file' = [file EXCEPT ![x].name = n] /\ folder' = folder
    BY <1>3, Zenon DEF RenameFile
  <2>2. \A y \in FileIds : file'[y].st = file[y].st /\ file'[y].folder = file[y].folder
    BY <1>0, <2>1 DEF FileRow
  <2> QED BY <1>1, <2>1, <2>2 DEF PlacesHeld, LiveFiles, LiveFolders
<1>4. ASSUME NEW f \in FolderIds, NEW n \in Names, RenameFolder(f, n) PROVE PlacesHeld'
  <2>1. folder' = [folder EXCEPT ![f].name = n] /\ file' = file
    BY <1>4, Zenon DEF RenameFolder
  <2>2. \A g \in FolderIds : folder'[g].st = folder[g].st /\ folder'[g].parent = folder[g].parent
    BY <1>0, <2>1 DEF FolderRow
  <2> QED BY <1>1, <2>1, <2>2 DEF PlacesHeld, LiveFiles, LiveFolders
<1> QED BY <1>2, <1>3, <1>4 DEF Write

\* At the start there is the root only.
LEMMA InitPlaces == Init => PlacesHeld
<1> SUFFICES ASSUME Init PROVE PlacesHeld
  OBVIOUS
<1>1. Root \in LiveFolders /\ LiveFiles = {}
  BY DEF Init, LiveFolders, LiveFiles, FreshFolder, FreshFile
<1>2. \A f \in FolderIds : folder[f].parent = None
  BY DEF Init, FreshFolder
<1>3. \A p \in Ops : Idle(p) /\ PlaceOK(op[p])
  BY DEF Init, IdleOp, PlaceOK, Idle
<1> QED BY <1>1, <1>2, <1>3, NoneIsNoKey DEF PlacesHeld, Alone, LiveFolders

\* When operations do not overlap and no query fails unnoticed, objects stay in
\* live folders.
LEMMA NextPlaces ==
    ASSUME Serial, MaxSilent = 0, TypeOK, TypeOK', PlacesHeld, [Next]_vars PROVE PlacesHeld'
<1>1. /\ Alone'
      /\ \/ UNCHANGED vars
         \/ Write /\ \A q \in Ops : Idle(q)
         \/ Crash
         \/ \E p \in Ops : Request(p) /\ \A q \in Ops : Idle(q)
         \/ \E p \in Ops : Advance(p) /\ \A q \in Ops \ {p} : Idle(q)
  BY SerialKinds DEF PlacesHeld
<1>2. CASE UNCHANGED vars
  <2>1. UNCHANGED <<folder, file, op>>
    BY <1>2 DEF vars
  <2> QED BY <1>1, <2>1 DEF PlacesHeld, PlaceOK, LiveFolders, LiveFiles, FilesIn
<1>3. CASE Crash
  <2>1. op' = [p \in Ops |-> IdleOp] /\ UNCHANGED <<folder, file>>
    BY <1>3, Zenon DEF Crash, tree
  <2>2. \A p \in Ops : PlaceOK(op[p])'
    BY <2>1 DEF PlaceOK, IdleOp
  <2> QED BY <1>1, <2>1, <2>2 DEF PlacesHeld, LiveFolders, LiveFiles
<1> QED BY <1>1, <1>2, <1>3, WritePlaces, RequestPlaces, AdvancePlaces

----------------------------------------------------------------------------
(* The tree is rooted *)

\* Every set that contains the root and the children of its members contains
\* every live folder: all of them can be reached from the root.
RootedIn(fo) == \A S : Root \in S /\ Closed(fo, S) => Live(fo) \subseteq S

\* A Move that has resolved its paths does not move a folder below itself.
MoveOK(o) ==
    o.kind = "move" /\ o.pc = "folders" =>
        \A d \in o.dirs : o.dst \notin Below(folder, {d}) \ {d}

\* The inductive invariant of TreeRooted.
RootedHeld == PlacesHeld /\ RootedIn(folder) /\ \A p \in Ops : MoveOK(op[p])

\* That is what TreeRooted says.
LEMMA RootedMeans == ASSUME RootedHeld PROVE TreeRooted
<1>1. LiveFolders = Live(folder) /\ Reachable = Below(folder, {Root})
  BY DescendantsBelow DEF LiveFolders, Live, Reachable
<1>2. Root \in Below(folder, {Root}) /\ Closed(folder, Below(folder, {Root}))
      /\ Below(folder, {Root}) \subseteq Live(folder)
  BY <1>1, BelowLeast DEF RootedHeld, PlacesHeld
<1>3. LiveFolders = Reachable
  BY <1>1, <1>2 DEF RootedHeld, RootedIn
<1> QED BY <1>3 DEF RootedHeld, PlacesHeld, TreeRooted, FilesIn

\* Names do not matter.
LEMMA SameShape ==
    ASSUME RootedIn(folder),
           \A f \in FolderIds : folder'[f].st = folder[f].st /\ folder'[f].parent = folder[f].parent
    PROVE  RootedIn(folder')
<1>1. Live(folder') = Live(folder)
  BY DEF Live
<1>2. \A S : ChildrenOf(folder', S) = ChildrenOf(folder, S)
  BY <1>1 DEF ChildrenOf, Live
<1> QED BY <1>1, <1>2 DEF RootedIn, Closed

\* A new folder in a live one can be reached.
LEMMA NewFolderRooted ==
    ASSUME TypeOK, RootedIn(folder), NEW f \in FolderIds, NEW d \in LiveFolders, NEW n,
           NewFolder(f, d, n)
    PROVE  RootedIn(folder')
<1>1. /\ folder'[f] = [st |-> "live", parent |-> d, name |-> n]
      /\ \A g \in FolderIds \ {f} : folder'[g] = folder[g]
      /\ folder[f].st = "fresh"
  BY DEF TypeOK, NewFolder
<1>2. /\ Live(folder') = Live(folder) \cup {f} /\ f \notin Live(folder) /\ d \in Live(folder)
      /\ folder'[f].parent = d
  BY <1>1 DEF Live, LiveFolders
<1> SUFFICES ASSUME NEW S, Root \in S, Closed(folder', S) PROVE Live(folder') \subseteq S
  BY DEF RootedIn
<1>3. Closed(folder, S)
  BY <1>1, <1>2 DEF Closed, ChildrenOf, Live
<1>4. Live(folder) \subseteq S
  BY <1>3 DEF RootedIn
<1> QED BY <1>2, <1>4 DEF Closed, ChildrenOf

\* Deleting whole subtrees leaves no folder without a parent.
LEMMA DeleteRooted ==
    ASSUME TypeOK, RootedIn(folder), PlacesHeld, NEW p \in Ops, FoldersDeleted(p)
    PROVE  RootedIn(folder')
<1> DEFINE D == op[p].dirs
<1>1. /\ op[p].kind = "delete"
      /\ folder' = [f \in FolderIds |-> IF f \in D THEN [folder[f] EXCEPT !.st = "dead"] ELSE folder[f]]
  BY DEF FoldersDeleted
<1>2. ChildrenOf(folder, D) \subseteq D \cup {Root}
  BY <1>1 DEF PlacesHeld, PlaceOK
<1>3. \A f \in FolderIds : /\ f \in D => folder'[f].st = "dead"
                           /\ f \notin D => folder'[f] = folder[f]
  BY <1>1 DEF TypeOK, FolderRow
<1> HIDE DEF D
<1>4. Live(folder') = Live(folder) \ D
  BY <1>3 DEF Live
<1> SUFFICES ASSUME NEW S, Root \in S, Closed(folder', S) PROVE Live(folder') \subseteq S
  BY DEF RootedIn
<1>5. Closed(folder, S \cup D)
  <2> SUFFICES ASSUME NEW g \in Live(folder), folder[g].parent \in S \cup D, g \notin D
               PROVE  g \in S
    BY DEF Closed, ChildrenOf
  <2>1. CASE folder[g].parent \in D
    BY <1>2, <2>1 DEF ChildrenOf
  <2>2. CASE folder[g].parent \in S
    <3>1. g \in Live(folder') /\ folder'[g].parent \in S
      BY <1>3, <1>4, <2>2 DEF Live
    <3> QED BY <3>1 DEF Closed, ChildrenOf
  <2> QED BY <2>1, <2>2
<1>6. Live(folder) \subseteq S \cup D
  BY <1>5 DEF RootedIn
<1> QED BY <1>4, <1>6

\* Folders that are moved to a folder outside their subtrees can be reached.
LEMMA MoveRooted ==
    ASSUME TypeOK, RootedIn(folder), PlacesHeld, NEW p \in Ops, MoveOK(op[p]), FoldersMoved(p)
    PROVE  RootedIn(folder')
<1> DEFINE dst == op[p].dst
           M == {f \in FolderIds : f \in op[p].dirs \cap LiveFolders /\ folder[f].parent = op[p].src}
           B == {g \in Live(folder) : \E d \in M : g \in Below(folder, {d})}
<1>1. /\ op[p].kind = "move" /\ op[p].pc = "folders" /\ dst \notin op[p].dirs
      /\ folder' = [f \in FolderIds |->
            IF f \in op[p].dirs \cap LiveFolders /\ folder[f].parent = op[p].src
            THEN [folder[f] EXCEPT !.parent = dst] ELSE folder[f]]
  BY DEF FoldersMoved
<1>2. /\ dst \in Live(folder) /\ M \subseteq Live(folder) /\ M \subseteq op[p].dirs
  BY <1>1 DEF PlacesHeld, PlaceOK, Live, LiveFolders
<1>3. \A f \in FolderIds : /\ folder'[f].st = folder[f].st
                           /\ f \in M => folder'[f].parent = dst
                           /\ f \notin M => folder'[f].parent = folder[f].parent
  BY <1>1 DEF TypeOK, FolderRow
<1>4. dst \notin B
  BY <1>1, <1>2 DEF MoveOK
<1>5. Live(folder') = Live(folder) /\ Live(folder) \subseteq FolderIds
  BY <1>3 DEF Live
<1> SUFFICES ASSUME NEW S, Root \in S, Closed(folder', S) PROVE Live(folder') \subseteq S
  BY DEF RootedIn
<1>6. \A d \in M : d \in Below(folder, {d}) /\ Closed(folder, Below(folder, {d}))
  BY <1>2, BelowLeast
<1> HIDE DEF M, dst
<1>7. \A g \in Live(folder) : /\ g \in M /\ dst \in S => g \in S
                              /\ g \notin M /\ folder[g].parent \in S => g \in S
  BY <1>3, <1>5 DEF Closed, ChildrenOf
<1>8. Closed(folder, S \cup B)
  <2> SUFFICES ASSUME NEW g \in Live(folder), folder[g].parent \in S \cup B
               PROVE  g \in S \cup B
    BY DEF Closed, ChildrenOf
  <2>1. ASSUME NEW d \in M, folder[g].parent \in Below(folder, {d}) PROVE g \in B
    BY <1>6, <2>1 DEF Closed, ChildrenOf
  <2>2. CASE folder[g].parent \in S /\ g \in M
    BY <1>6, <2>2
  <2>3. CASE folder[g].parent \in S /\ g \notin M
    BY <1>7, <2>3
  <2> QED BY <2>1, <2>2, <2>3
<1>9. dst \in S
  BY <1>2, <1>4, <1>8 DEF RootedIn
<1>10. Closed(folder, S)
  BY <1>7, <1>9 DEF Closed, ChildrenOf
<1> QED BY <1>5, <1>10 DEF RootedIn

\* A step of an operation leaves a rooted tree.
LEMMA AdvanceRooted ==
    ASSUME MaxSilent = 0, TypeOK, TypeOK', RootedHeld, NEW p \in Ops, Advance(p),
           \A q \in Ops \ {p} : Idle(q)
    PROVE  RootedIn(folder') /\ \A q \in Ops : MoveOK(op[q])'
<1>o. /\ op[p] \in Operation /\ op = [q \in Ops |-> op[q]] /\ PlaceOK(op[p]) /\ MoveOK(op[p])
      /\ PlacesHeld /\ RootedIn(folder)
  BY DEF TypeOK, RootedHeld, PlacesHeld
<1>0. \A q \in Ops \ {p} : op'[q].kind = "idle"
  BY StepsOne, Running
<1>i. IdleOp.kind = "idle"
  BY DEF IdleOp
<1>idle. Step(p, IdleOp) => op'[p].kind = "idle"
  BY <1>o, <1>i DEF Step
<1>same. UNCHANGED folder => RootedIn(folder')
  BY <1>o
<1>1. RootedIn(folder') /\ (op'[p].kind = "move" => op'[p].pc # "folders")
  <2>1. CASE Ends(p)
    BY <1>idle, <1>same, <2>1 DEF Ends
  <2>2. ASSUME NEW f \in FolderIds, FolderMade(p, f)
        PROVE  RootedIn(folder') /\ op'[p].kind = "idle"
    <3>1. op[p].dst \in LiveFolders
      BY <1>o, <2>2 DEF FolderMade, PlaceOK
    <3> QED BY <1>o, <1>idle, <2>2, <3>1, NewFolderRooted DEF FolderMade
  <2>3. CASE FoldersMoved(p)
    <3>1. op'[p].pc = "files"
      BY <1>o, <2>3 DEF FoldersMoved, Step, Operation
    <3> QED BY <1>o, <2>3, <3>1, MoveRooted
  <2>4. CASE FilesMoved(p)
    BY <1>idle, <1>same, <2>4 DEF FilesMoved
  <2>copy. ASSUME op[p].kind = "copy", NEW s, Step(p, s), s.kind = op[p].kind
           PROVE  op'[p].kind = "copy"
    BY <1>o, <2>copy DEF Step
  <2>5. CASE TreeListed(p)
    <3> DEFINE s == [op[p] EXCEPT !.pc = "folders", !.tree = FolderRows(Descendants(op[p].top))]
    <3>1. s.kind = op[p].kind
      BY <1>o DEF Operation
    <3> HIDE DEF s
    <3>2. op[p].kind = "copy" /\ Step(p, s) /\ UNCHANGED folder
      BY <2>5 DEF TreeListed, s
    <3> QED BY <1>same, <2>copy, <3>1, <3>2
  <2>6. ASSUME NEW t \in op[p].tree, NEW f \in FolderIds, FolderCopied(p, t, f)
        PROVE  RootedIn(folder') /\ op'[p].kind = "copy"
    <3> DEFINE d == NewParent(p, t)
               s == [op[p] EXCEPT !.map = With(op[p].map, t.id, f)]
    <3>1. s.kind = op[p].kind
      BY <1>o DEF Operation
    <3>2. /\ op[p].kind = "copy" /\ NewFolder(f, d, t.name) /\ Step(p, s)
          /\ d \in LiveFolders
      BY <1>o, <2>6, NewParentLive DEF FolderCopied
    <3> HIDE DEF s, d
    <3> QED BY <1>o, <2>copy, <3>1, <3>2, NewFolderRooted
  <2>7. CASE TreeFilesListed(p)
    <3> DEFINE s == [op[p] EXCEPT !.pc = "treefiles",
                                  !.rows = FileRowsOf(FilesIn({t.id : t \in op[p].tree}))]
    <3>1. s.kind = op[p].kind
      BY <1>o DEF Operation
    <3> HIDE DEF s
    <3>2. op[p].kind = "copy" /\ Step(p, s) /\ UNCHANGED folder
      BY <2>7 DEF TreeFilesListed, s
    <3> QED BY <1>same, <2>copy, <3>1, <3>2
  <2>8. CASE FilesListed(p)
    <3>1. op[p].kind = "copy" /\ UNCHANGED folder
      BY <2>8 DEF FilesListed
    <3>2. CASE Step(p, [op[p] EXCEPT !.pc = "charge"])
      BY <1>o, <1>same, <3>1, <3>2 DEF Step, Operation
    <3>3. ASSUME NEW r, Step(p, [op[p] EXCEPT !.pc = "files", !.rows = r])
          PROVE  op'[p].kind = "copy"
      BY <1>o, <3>1, <3>3 DEF Step, Operation
    <3> QED BY <1>same, <2>8, <3>1, <3>2, <3>3 DEF FilesListed
  <2>9. ASSUME NEW x \in DOMAIN op[p].rows, NEW y \in FileIds, FileCopied(p, x, y)
        PROVE  RootedIn(folder') /\ op'[p].kind = "copy"
    <3> DEFINE s == [op[p] EXCEPT !.rows = Without(op[p].rows, x),
                                  !.size = op[p].size + SizeOf[op[p].rows[x].src]]
    <3>1. s.kind = op[p].kind
      BY <1>o DEF Operation
    <3> HIDE DEF s
    <3>2. op[p].kind = "copy" /\ Step(p, s) /\ UNCHANGED folder
      BY <2>9 DEF FileCopied, CopyInserts, s
    <3> QED BY <1>same, <2>copy, <3>1, <3>2
  <2>10. CASE DeleteGoesOn(p)
    <3>1. op[p].kind = "delete" /\ UNCHANGED folder
      BY <2>10 DEF DeleteGoesOn
    <3>2. ASSUME NEW u, Step(p, [op[p] EXCEPT !.pc = "unlink", !.unlink = u])
          PROVE  op'[p].kind = "delete"
      BY <1>o, <3>1, <3>2 DEF Step, Operation
    <3>3. ASSUME NEW g, Step(p, [op[p] EXCEPT !.pc = "rows", !.gone = g])
          PROVE  op'[p].kind = "delete"
      BY <1>o, <3>1, <3>3 DEF Step, Operation
    <3> QED BY <1>same, <2>10, <3>1, <3>2, <3>3 DEF DeleteGoesOn
  <2>11. CASE RowsDeleted(p)
    <3>1. op[p].kind = "delete" /\ UNCHANGED folder
          /\ (Step(p, IdleOp) \/ Step(p, [op[p] EXCEPT !.pc = "folders"]))
      BY <2>11 DEF RowsDeleted
    <3>2. op'[p].kind \in {"idle", "delete"}
      BY <1>o, <1>idle, <3>1 DEF Step, Operation
    <3> QED BY <1>same, <3>1, <3>2
  <2>12. CASE FoldersDeleted(p)
    BY <1>o, <1>idle, <2>12, DeleteRooted DEF FoldersDeleted
  <2> QED BY <2>1, <2>2, <2>3, <2>4, <2>5, <2>6, <2>7, <2>8, <2>9, <2>10, <2>11, <2>12, AdvanceCases
<1>2. ASSUME NEW q \in Ops PROVE MoveOK(op[q])'
  BY <1>0, <1>1 DEF MoveOK
<1> QED BY <1>1, <1>2

\* When operations do not overlap, no query fails unnoticed and no client moves a
\* folder below itself, every folder can be reached from the root and every file
\* is in a folder: no Move, Copy or Delete leaves objects that no path names,
\* whichever of its statements fails and wherever the server stops.
THEOREM TreeRootedCorrect ==
    ASSUME Serial, MaxSilent = 0, ~MoveBelowSelf PROVE Spec => []TreeRooted
<1>1. Init => TypeOK /\ RootedHeld
  <2> SUFFICES ASSUME Init PROVE TypeOK /\ RootedHeld
    OBVIOUS
  <2>1. \A p \in Ops : MoveOK(op[p])
    BY DEF Init, IdleOp, MoveOK
  <2>2. Live(folder) = {Root}
    BY DEF Init, Live, FreshFolder
  <2> QED BY <2>1, <2>2, TreeInitTypes, InitPlaces DEF RootedHeld, RootedIn
<1>2. TypeOK /\ RootedHeld /\ [Next]_vars => (TypeOK /\ RootedHeld)'
  <2> SUFFICES ASSUME TypeOK, RootedHeld, [Next]_vars PROVE (TypeOK /\ RootedHeld)'
    OBVIOUS
  <2>1. TypeOK' /\ PlacesHeld /\ PlacesHeld' /\ RootedIn(folder)
    BY TreeNextTypes, NextPlaces DEF RootedHeld
  <2> SUFFICES RootedIn(folder') /\ \A q \in Ops : MoveOK(op[q])'
    BY <2>1 DEF RootedHeld
  <2>2. CASE UNCHANGED vars
    <3>1. UNCHANGED <<folder, op>>
      BY <2>2 DEF vars
    <3> QED BY <3>1 DEF RootedHeld, MoveOK
  <2>3. CASE Write /\ \A q \in Ops : Idle(q)
    <3>1. op' = op /\ folder \in [FolderIds -> FolderRow]
      BY <2>3, Zenon DEF TypeOK, Write, AddFile, RenameFile, RenameFolder
    <3>2. \A q \in Ops : MoveOK(op[q])'
      BY <2>3, <3>1, Running DEF MoveOK
    <3>3. folder' = folder \/ \E f \in FolderIds, n \in Names : folder' = [folder EXCEPT ![f].name = n]
      BY <2>3, Zenon DEF Write, AddFile, RenameFile, RenameFolder
    <3>4. \A f \in FolderIds : folder'[f].st = folder[f].st /\ folder'[f].parent = folder[f].parent
      BY <3>1, <3>3 DEF FolderRow
    <3> QED BY <2>1, <3>2, <3>4, SameShape
  <2>4. CASE Crash
    <3>1. op' = [p \in Ops |-> IdleOp] /\ UNCHANGED folder
      BY <2>4, Zenon DEF Crash, tree
    <3> QED BY <2>1, <3>1 DEF MoveOK, IdleOp
  <2>5. ASSUME NEW p \in Ops, Request(p), \A q \in Ops : Idle(q)
        PROVE  RootedIn(folder') /\ \A q \in Ops : MoveOK(op[q])'
    <3>1. UNCHANGED folder /\ Remembers(p)
      BY <2>5, RequestCases
    <3>2. ASSUME NEW q \in Ops \ {p} PROVE MoveOK(op[q])'
      <4>1. op'[q].kind = "idle"
        BY <2>5, StepsOne, Running
      <4> QED BY <4>1 DEF MoveOK
    <3>3. MoveOK(op[p])'
      <4>1. CASE op'[p].kind = "move" /\ \A d \in op'[p].dirs : op'[p].dst \notin Descendants({d}) \ {d}
        BY <3>1, <4>1, DescendantsBelow DEF MoveOK
      <4>2. CASE op'[p].kind # "move"
        BY <4>2 DEF MoveOK
      <4> QED BY <3>1, <4>1, <4>2 DEF Remembers
    <3> QED BY <2>1, <3>1, <3>2, <3>3
  <2>6. ASSUME NEW p \in Ops, Advance(p), \A q \in Ops \ {p} : Idle(q)
        PROVE  RootedIn(folder') /\ \A q \in Ops : MoveOK(op[q])'
    BY <2>1, <2>6, AdvanceRooted
  <2> QED BY <2>1, <2>2, <2>3, <2>4, <2>5, <2>6, SerialKinds DEF PlacesHeld
<1>3. RootedHeld => TreeRooted
  BY RootedMeans
<1> QED BY <1>1, <1>2, <1>3, PTL DEF Spec

----------------------------------------------------------------------------
(* Copies *)

\* The copies a Copy has made, the folders it has listed, the files of a folder
\* by name and source, and those of a listed folder that are yet to be copied.
NewOf(o) == {o.map[f] : f \in DOMAIN o.map}
IdsOf(o) == {t.id : t \in o.tree}
Within(fl, F) == {x \in FileIds : fl[x].st = "live" /\ fl[x].folder \in F}
HeldIn(fl, f) == {<<fl[x].name, fl[x].src>> : x \in Within(fl, {f})}
LeftIn(o, f) ==
    {<<o.rows[x].name, o.rows[x].src>> : x \in {y \in DOMAIN o.rows : o.rows[y].folder = f}}

\* The listed folders are the subtree without the copies; their rows are as
\* they were listed; each copy has the name of its original and is below the
\* copy of its parent.
FoldersOK(o, fo) ==
    /\ IdsOf(o) = Below(fo, o.top) \ NewOf(o)
    /\ \A t \in o.tree : t.parent = fo[t.id].parent /\ t.name = fo[t.id].name
    /\ DOMAIN o.map \subseteq IdsOf(o)
    /\ \A f \in DOMAIN o.map :
          /\ \A g \in DOMAIN o.map \ {f} : o.map[g] # o.map[f]
          /\ fo[o.map[f]].name = fo[f].name
          /\ f \notin o.top => fo[f].parent \in DOMAIN o.map
          /\ fo[o.map[f]].parent = IF f \in o.top THEN o.dst ELSE o.map[fo[f].parent]

\* Copies of folders are empty until the files are copied; then each holds the
\* files of its original but for those that are yet to be copied.
CopyOK(o, fo, fl) ==
    o.kind = "copy" =>
        /\ o.pc = "tree" => DOMAIN o.map = {} /\ o.size = 0
        /\ o.pc \in {"folders", "treefiles"} => FoldersOK(o, fo)
        /\ o.pc = "folders" => Within(fl, NewOf(o)) = {} /\ o.size = 0
        /\ o.pc = "treefiles" =>
              /\ DOMAIN o.map = IdsOf(o)
              /\ \A f \in DOMAIN o.map : HeldIn(fl, o.map[f]) \cup LeftIn(o, f) = HeldIn(fl, f)
              /\ o.size = Sum(RowSize(fl), Within(fl, NewOf(o)))

\* The inductive invariant of CopyFaithful.
CopyHeld == PlacesHeld /\ \A p \in Ops : CopyOK(op[p], folder, file)

\* A new folder joins the subtrees it is put into and changes nothing else in them.
LEMMA NewFolderBelow ==
    ASSUME TypeOK, PlacesHeld, NEW f \in FolderIds, NEW d \in LiveFolders, NEW n,
           NewFolder(f, d, n), NEW T, f \notin T
    PROVE  Below(folder', T) \ {f} = Below(folder, T) /\ f \notin Below(folder, T)
<1> DEFINE A == Below(folder, T)
           B == Below(folder', T)
<1>1. /\ folder'[f] = [st |-> "live", parent |-> d, name |-> n]
      /\ \A g \in FolderIds \ {f} : folder'[g] = folder[g]
      /\ folder[f].st = "fresh"
  BY DEF TypeOK, NewFolder
<1>2. /\ Live(folder') = Live(folder) \cup {f} /\ f \notin Live(folder) /\ d # f
      /\ Live(folder) \subseteq FolderIds \ {f}
      /\ folder'[f].parent = d /\ Live(folder) = LiveFolders
  BY <1>1 DEF Live, LiveFolders
<1>3. \A g \in Live(folder) : folder[g].parent # f
  BY <1>1, <1>2 DEF PlacesHeld
<1>4. /\ T \cap Live(folder) \subseteq A /\ A \subseteq Live(folder) /\ Closed(folder, A)
      /\ \A S : T \cap Live(folder) \subseteq S /\ Closed(folder, S) => A \subseteq S
      /\ T \cap Live(folder') \subseteq B /\ B \subseteq Live(folder') /\ Closed(folder', B)
      /\ \A S : T \cap Live(folder') \subseteq S /\ Closed(folder', S) => B \subseteq S
  BY BelowLeast
<1> HIDE DEF A, B
<1>5. Closed(folder, B)
  BY <1>1, <1>2, <1>4 DEF Closed, ChildrenOf
<1>6. A \subseteq B
  BY <1>2, <1>4, <1>5
<1>7. Closed(folder', A \cup {f})
  <2> SUFFICES ASSUME NEW g \in Live(folder'), folder'[g].parent \in A \cup {f}, g # f
               PROVE  g \in A
    BY DEF Closed, ChildrenOf
  <2>1. g \in Live(folder) /\ folder'[g] = folder[g]
    BY <1>1, <1>2
  <2> QED BY <1>3, <1>4, <2>1 DEF Closed, ChildrenOf
<1>8. B \subseteq A \cup {f}
  BY <1>2, <1>4, <1>7
<1> QED BY <1>2, <1>4, <1>6, <1>8 DEF A, B

\* FoldersOK depends on the folders of a Copy only.
LEMMA SameFolders ==
    ASSUME NEW o, NEW q, NEW fo, FoldersOK(o, fo),
           q.tree = o.tree, q.map = o.map, q.top = o.top, q.dst = o.dst
    PROVE  FoldersOK(q, fo)
<1>1. NewOf(q) = NewOf(o) /\ IdsOf(q) = IdsOf(o)
  BY DEF NewOf, IdsOf
<1> QED BY <1>1 DEF FoldersOK

\* The copy of one folder.
LEMMA FolderCopiedOK ==
    ASSUME TypeOK, TypeOK', CopyHeld, NEW p \in Ops, NEW t \in op[p].tree, NEW f \in FolderIds,
           FolderCopied(p, t, f)
    PROVE  CopyOK(op'[p], folder', file')
<1> DEFINE o == op[p]
           q == op'[p]
           d == NewParent(p, t)
           W == With(op[p].map, t.id, f)
<1>o. /\ o \in Operation /\ PlaceOK(o) /\ PlacesHeld /\ CopyOK(o, folder, file)
      /\ op = [r \in Ops |-> op[r]] /\ folder \in [FolderIds -> FolderRow]
  BY DEF TypeOK, CopyHeld, PlacesHeld
<1>1. /\ o.kind = "copy" /\ o.pc = "folders" /\ t.id \notin DOMAIN o.map
      /\ t.id \in o.top \/ t.parent \in DOMAIN o.map
      /\ NewFolder(f, d, t.name) /\ d \in LiveFolders /\ file' = file
      /\ Step(p, [o EXCEPT !.map = W])
  BY <1>o, NewParentLive DEF FolderCopied
<1>2. /\ q.kind = "copy" /\ q.pc = "folders" /\ q.map = W /\ q.top = o.top /\ q.dst = o.dst
      /\ q.tree = o.tree /\ q.size = o.size
  <2> HIDE DEF W
  <2> QED BY <1>o, <1>1 DEF Step, Operation
<1>3. /\ FoldersOK(o, folder) /\ Within(file, NewOf(o)) = {} /\ o.size = 0
  BY <1>o, <1>1 DEF CopyOK
<1>4. /\ folder'[f].name = t.name /\ folder'[f].parent = d /\ folder[f].st = "fresh"
      /\ \A g \in FolderIds \ {f} : folder'[g] = folder[g]
  <2>1. /\ folder'[f] = [st |-> "live", parent |-> d, name |-> t.name]
        /\ \A g \in FolderIds \ {f} : folder'[g] = folder[g]
    BY <1>1 DEF TypeOK, NewFolder
  <2> QED BY <1>1, <2>1 DEF NewFolder
<1>5. f \notin LiveFolders /\ LiveFolders \subseteq FolderIds /\ f \notin o.top
  BY <1>o, <1>1, <1>4 DEF LiveFolders, PlaceOK
<1>6. /\ DOMAIN W = DOMAIN o.map \cup {t.id} /\ W[t.id] = f
      /\ \A g \in DOMAIN o.map : W[g] = o.map[g]
  BY <1>1 DEF With
<1>7. NewOf(q) = NewOf(o) \cup {f} /\ NewOf(o) \subseteq LiveFolders /\ IdsOf(q) = IdsOf(o)
  BY <1>o, <1>1, <1>2, <1>6 DEF NewOf, IdsOf, PlaceOK
<1>8. Below(folder', o.top) \ {f} = Below(folder, o.top) /\ f \notin Below(folder, o.top)
      /\ Below(folder, o.top) \subseteq LiveFolders
  <2>1. LiveFolders = Live(folder)
    BY DEF LiveFolders, Live
  <2> QED BY <1>o, <1>1, <1>5, <2>1, NewFolderBelow, BelowLeast
<1>9. IdsOf(q) = Below(folder', q.top) \ NewOf(q) /\ IdsOf(o) \subseteq LiveFolders
  BY <1>2, <1>3, <1>7, <1>8 DEF FoldersOK
<1>10. /\ t.id \in IdsOf(o) /\ \A u \in o.tree : u.id \in IdsOf(o)
  BY DEF IdsOf
<1>11. /\ t.name = folder[t.id].name /\ t.parent = folder[t.id].parent
       /\ DOMAIN o.map \subseteq IdsOf(o)
  BY <1>3 DEF FoldersOK
<1> HIDE DEF d, W
<1>12. \A g \in LiveFolders : folder'[g] = folder[g]
  BY <1>4, <1>5
<1>13. /\ \A u \in q.tree : u.parent = folder'[u.id].parent /\ u.name = folder'[u.id].name
       /\ DOMAIN q.map \subseteq IdsOf(q)
  <2>1. \A u \in q.tree : u \in o.tree /\ folder'[u.id] = folder[u.id]
    BY <1>2, <1>9, <1>10, <1>12
  <2>2. \A u \in q.tree : u.parent = folder'[u.id].parent /\ u.name = folder'[u.id].name
    BY <1>3, <2>1 DEF FoldersOK
  <2> QED BY <1>2, <1>6, <1>7, <1>10, <1>11, <2>2
<1>14. ASSUME NEW g \in DOMAIN q.map
       PROVE  /\ \A h \in DOMAIN q.map \ {g} : q.map[h] # q.map[g]
              /\ folder'[q.map[g]].name = folder'[g].name
              /\ g \notin q.top => folder'[g].parent \in DOMAIN q.map
              /\ folder'[q.map[g]].parent = IF g \in q.top THEN q.dst ELSE q.map[folder'[g].parent]
  <2>0. g \in LiveFolders /\ folder'[g] = folder[g] /\ \A h \in DOMAIN o.map : o.map[h] \in LiveFolders
    BY <1>o, <1>1, <1>2, <1>6, <1>9, <1>10, <1>11, <1>12 DEF PlaceOK
  <2>1. CASE g = t.id
    <3>1. q.map[g] = f /\ \A h \in DOMAIN q.map \ {g} : q.map[h] \in LiveFolders
      BY <1>2, <1>6, <2>0, <2>1
    <3>2. g \notin o.top => folder[g].parent \in DOMAIN o.map /\ d = o.map[folder[g].parent]
      BY <1>1, <1>11, <2>1 DEF d, NewParent
    <3>3. g \in o.top => d = o.dst
      BY <2>1 DEF d, NewParent
    <3> QED BY <1>2, <1>4, <1>5, <1>6, <1>11, <2>0, <2>1, <3>1, <3>2, <3>3
  <2>2. CASE g # t.id
    <3>1. g \in DOMAIN o.map /\ q.map[g] = o.map[g] /\ o.map[g] \in LiveFolders
      BY <1>2, <1>6, <2>0, <2>2
    <3>2. folder'[o.map[g]] = folder[o.map[g]]
      BY <1>12, <3>1
    <3>3. /\ \A h \in DOMAIN o.map \ {g} : o.map[h] # o.map[g]
          /\ folder[o.map[g]].name = folder[g].name
          /\ g \notin o.top => folder[g].parent \in DOMAIN o.map
          /\ folder[o.map[g]].parent = IF g \in o.top THEN o.dst ELSE o.map[folder[g].parent]
      BY <1>3, <3>1 DEF FoldersOK
    <3>4. \A h \in DOMAIN q.map \ {g} : q.map[h] # q.map[g]
      BY <1>2, <1>5, <1>6, <3>1, <3>3
    <3> QED BY <1>2, <1>6, <2>0, <3>1, <3>2, <3>3, <3>4
  <2> QED BY <2>1, <2>2
<1>15. Within(file', NewOf(q)) = {} /\ q.size = 0
  <2>1. \A x \in FileIds : file[x].st = "live" => file[x].folder \in LiveFolders
    BY <1>o DEF PlacesHeld, LiveFiles
  <2> QED BY <1>1, <1>2, <1>3, <1>5, <1>7, <2>1 DEF Within
<1>16. FoldersOK(q, folder')
  BY <1>9, <1>13, <1>14 DEF FoldersOK
<1> QED BY <1>2, <1>15, <1>16 DEF CopyOK

\* The copy of one file of the subtree.
LEMMA FileCopiedOK ==
    ASSUME TypeOK, TypeOK', CopyHeld, NEW p \in Ops, NEW x \in DOMAIN op[p].rows, NEW y \in FileIds,
           FileCopied(p, x, y)
    PROVE  CopyOK(op'[p], folder', file')
<1> DEFINE o == op[p]
           q == op'[p]
           old == op[p].rows[x]
           d == IF op[p].pc = "files" THEN op[p].dst ELSE op[p].map[op[p].rows[x].folder]
           W == Without(op[p].rows, x)
<1>o. /\ o \in Operation /\ OpOK(o, file) /\ CopyOK(o, folder, file)
      /\ op = [r \in Ops |-> op[r]] /\ file \in [FileIds -> FileRow]
  BY DEF TypeOK, CopyHeld
<1>1. /\ o.kind = "copy" /\ o.pc \in {"files", "treefiles"} /\ folder' = folder
      /\ file[y].st = "fresh" /\ file' = [file EXCEPT ![y] = [old EXCEPT !.folder = d]]
      /\ Step(p, [o EXCEPT !.rows = W, !.size = o.size + SizeOf[old.src]])
  BY DEF FileCopied, CopyInserts
<1>2. old \in FileRow /\ old.st = "live" /\ old.src \in Sources
  BY <1>o DEF Operation, FileRows, OpOK
<1>3. /\ DOMAIN W = DOMAIN o.rows \ {x} /\ \A z \in DOMAIN W : W[z] = o.rows[z]
  BY DEF Without
<1>4. /\ q.kind = "copy" /\ q.pc = o.pc /\ q.map = o.map /\ q.top = o.top /\ q.dst = o.dst
      /\ q.tree = o.tree /\ q.size = o.size + SizeOf[old.src] /\ q.rows = W
  <2> HIDE DEF W, old
  <2> QED BY <1>o, <1>1 DEF Step, Operation
<1>5. CASE o.pc = "files"
  BY <1>4, <1>5 DEF CopyOK
<1>6. CASE o.pc = "treefiles"
  <2>1. /\ FoldersOK(o, folder) /\ DOMAIN o.map = IdsOf(o)
        /\ \A f \in DOMAIN o.map : HeldIn(file, o.map[f]) \cup LeftIn(o, f) = HeldIn(file, f)
        /\ o.size = Sum(RowSize(file), Within(file, NewOf(o)))
    BY <1>o, <1>1, <1>6 DEF CopyOK
  <2>2. old.folder \in DOMAIN o.map /\ d = o.map[old.folder]
    BY <1>o, <1>6 DEF OpOK
  <2>3. NewOf(q) = NewOf(o) /\ IdsOf(q) = IdsOf(o) /\ FoldersOK(q, folder')
    <3>1. NewOf(q) = NewOf(o) /\ IdsOf(q) = IdsOf(o)
      BY <1>4 DEF NewOf, IdsOf
    <3>2. folder' = folder
      BY <1>1
    <3>3. FoldersOK(q, folder)
      BY <1>4, <2>1, SameFolders
    <3> QED BY <3>1, <3>2, <3>3
  <2> HIDE DEF W, d
  <2>4. /\ file'[y].st = "live" /\ file'[y].folder = d /\ file'[y].name = old.name
        /\ file'[y].src = old.src /\ \A z \in FileIds \ {y} : file'[z] = file[z]
    <3> HIDE DEF old
    <3> QED BY <1>o, <1>1, <1>2 DEF FileRow
  <2>5. \A F : Within(file', F) = Within(file, F) \cup (IF d \in F THEN {y} ELSE {})
    BY <1>1, <2>4 DEF Within
  <2>6. \A F : y \notin Within(file, F)
    BY <1>1 DEF Within
  <2>7. \A f : HeldIn(file', f) = HeldIn(file, f) \cup (IF f = d THEN {<<old.name, old.src>>} ELSE {})
    <3> TAKE f
    <3>1. \A z \in Within(file, {f}) : file'[z] = file[z]
      BY <2>4, <2>6 DEF Within
    <3> HIDE DEF old
    <3>2. CASE f = d
      <4>1. Within(file', {f}) = Within(file, {f}) \cup {y}
        BY <2>5, <3>2
      <4>2. {<<file'[z].name, file'[z].src>> : z \in Within(file, {f}) \cup {y}}
            = {<<file'[z].name, file'[z].src>> : z \in Within(file, {f})}
              \cup {<<file'[y].name, file'[y].src>>}
        OBVIOUS
      <4>3. {<<file'[z].name, file'[z].src>> : z \in Within(file, {f})} = HeldIn(file, f)
        BY <3>1 DEF HeldIn
      <4> QED BY <2>4, <3>2, <4>1, <4>2, <4>3 DEF HeldIn
    <3>3. CASE f # d
      <4>1. Within(file', {f}) = Within(file, {f})
        BY <2>5, <3>3
      <4> QED BY <3>1, <3>3, <4>1 DEF HeldIn
    <3> QED BY <3>2, <3>3
  <2>8. \A f : LeftIn(o, f) = LeftIn(q, f) \cup (IF f = old.folder THEN {<<old.name, old.src>>} ELSE {})
    <3> TAKE f
    <3> DEFINE X == {z \in DOMAIN o.rows : o.rows[z].folder = f}
               Y == {z \in DOMAIN q.rows : q.rows[z].folder = f}
    <3>1. X = Y \cup (IF f = old.folder THEN {x} ELSE {}) /\ \A z \in Y : q.rows[z] = o.rows[z]
      BY <1>3, <1>4
    <3>2. LeftIn(o, f) = {<<o.rows[z].name, o.rows[z].src>> : z \in X}
          /\ LeftIn(q, f) = {<<q.rows[z].name, q.rows[z].src>> : z \in Y}
      BY DEF LeftIn
    <3> HIDE DEF X, Y
    <3>3. LeftIn(q, f) = {<<o.rows[z].name, o.rows[z].src>> : z \in Y}
      BY <3>1, <3>2
    <3>4. CASE f = old.folder
      <4>1. X = Y \cup {x}
        BY <3>1, <3>4
      <4> QED BY <3>2, <3>3, <3>4, <4>1
    <3>5. CASE f # old.folder
      <4>1. X = Y
        BY <3>1, <3>5
      <4> QED BY <3>2, <3>3, <3>5, <4>1
    <3> QED BY <3>4, <3>5
  <2>9. ASSUME NEW f \in DOMAIN q.map
        PROVE  HeldIn(file', q.map[f]) \cup LeftIn(q, f) = HeldIn(file', f)
    <3>1. f \in DOMAIN o.map /\ q.map[f] = o.map[f]
      BY <1>4
    <3>2. f # d
      BY <2>1, <2>2, <3>1 DEF FoldersOK, NewOf
    <3>3. o.map[f] = d <=> f = old.folder
      BY <2>1, <2>2, <3>1 DEF FoldersOK
    <3>4. HeldIn(file, o.map[f]) \cup LeftIn(o, f) = HeldIn(file, f)
      BY <2>1, <3>1
    <3> HIDE DEF o, q, old
    <3>5. CASE f = old.folder
      <4>1. /\ HeldIn(file', o.map[f]) = HeldIn(file, o.map[f]) \cup {<<old.name, old.src>>}
            /\ LeftIn(o, f) = LeftIn(q, f) \cup {<<old.name, old.src>>}
        BY <2>7, <2>8, <3>3, <3>5
      <4> QED BY <2>7, <3>1, <3>2, <3>4, <4>1
    <3>6. CASE f # old.folder
      BY <2>7, <2>8, <3>1, <3>2, <3>3, <3>4, <3>6
    <3> QED BY <3>5, <3>6
  <2>10. q.size = Sum(RowSize(file'), Within(file', NewOf(q)))
    <3> DEFINE N == Within(file, NewOf(o))
    <3>1. Within(file', NewOf(q)) = N \cup {y} /\ y \notin N /\ N \subseteq FileIds
      <4>1. d \in NewOf(o)
        BY <2>2 DEF NewOf
      <4> QED BY <2>3, <2>5, <2>6, <4>1 DEF Within
    <3> HIDE DEF N
    <3>2. \A z \in FileIds : RowSize(file')[z] \in Nat
      BY DEF RowSize, TypeOK
    <3>3. RowSize(file')[y] = SizeOf[old.src] /\ \A z \in N : RowSize(file')[z] = RowSize(file)[z]
      BY <2>4, <3>1 DEF RowSize
    <3>4. IsFiniteSet(N) /\ IsFiniteSet({y})
      BY <3>1, FS_Subset, FS_Singleton
    <3>5. Sum(RowSize(file'), N \cup {y}) = Sum(RowSize(file'), N) + Sum(RowSize(file'), {y})
      <4>1. N \cap {y} = {} /\ \A z \in N \cup {y} : RowSize(file')[z] \in Nat
        BY <3>1, <3>2
      <4> QED BY <3>4, <4>1, SumSplit
    <3>6. Sum(RowSize(file'), N) = Sum(RowSize(file), N)
      BY <3>3, SumAgree
    <3>7. Sum(RowSize(file'), {y}) = SizeOf[old.src]
      BY <3>2, <3>3, SumSingleton
    <3> QED BY <1>4, <2>1, <3>1, <3>5, <3>6, <3>7 DEF N
  <2> QED BY <1>4, <1>6, <2>1, <2>3, <2>9, <2>10 DEF CopyOK
<1> QED BY <1>1, <1>5, <1>6

\* What CopyHeld says of a Copy that has copied all files of the subtree.
LEMMA CopyMeans == ASSUME TypeOK, CopyHeld PROVE CopyFaithful
<1> SUFFICES ASSUME NEW p \in Ops, At(p, "copy", "treefiles"), DOMAIN op[p].rows = {}
             PROVE  LET copyOf == op[p].map
                        old == DOMAIN copyOf
                        new == {copyOf[f] : f \in old}
                        Contents(f) == {<<file[x].name, file[x].src>> : x \in FilesIn({f})}
                    IN  /\ old = Descendants(op[p].top) \ new
                        /\ \A f \in old :
                              /\ \A g \in old \ {f} : copyOf[g] # copyOf[f]
                              /\ copyOf[f] \in LiveFolders
                              /\ folder[copyOf[f]].name = folder[f].name
                              /\ folder[copyOf[f]].parent =
                                    IF f \in op[p].top THEN op[p].dst ELSE copyOf[folder[f].parent]
                              /\ Contents(copyOf[f]) = Contents(f)
                        /\ op[p].size = Sum(RowSize(file), FilesIn(new))
  BY Zenon DEF CopyFaithful
<1> DEFINE o == op[p]
<1>1. /\ o.kind = "copy" /\ o.pc = "treefiles" /\ CopyOK(o, folder, file) /\ PlaceOK(o)
  BY DEF At, CopyHeld, PlacesHeld
<1>2. /\ FoldersOK(o, folder) /\ DOMAIN o.map = IdsOf(o)
      /\ \A f \in DOMAIN o.map : HeldIn(file, o.map[f]) \cup LeftIn(o, f) = HeldIn(file, f)
      /\ o.size = Sum(RowSize(file), Within(file, NewOf(o)))
  BY <1>1 DEF CopyOK
<1>3. \A F : Within(file, F) = FilesIn(F)
  BY DEF Within, FilesIn, LiveFiles
<1>4. \A f : HeldIn(file, f) = {<<file[x].name, file[x].src>> : x \in FilesIn({f})}
  BY <1>3, Zenon DEF HeldIn
<1>5. \A f \in DOMAIN o.map : HeldIn(file, o.map[f]) = HeldIn(file, f)
  <2>1. \A f : LeftIn(o, f) = {}
    BY DEF LeftIn
  <2> QED BY <1>2, <2>1
<1>6. \A f \in DOMAIN o.map :
         {<<file[x].name, file[x].src>> : x \in FilesIn({o.map[f]})}
         = {<<file[x].name, file[x].src>> : x \in FilesIn({f})}
  BY <1>4, <1>5, Zenon
<1>7. DOMAIN o.map = Descendants(o.top) \ {o.map[f] : f \in DOMAIN o.map}
  <2>1. Descendants(o.top) = Below(folder, o.top)
    BY Zenon DEF Descendants, WithinLevels, Below, LevelsOf, AreLevels, ChildrenOf, Live, LiveFolders
  <2> QED BY <1>2, <2>1 DEF FoldersOK, NewOf
<1>8. o.size = Sum(RowSize(file), FilesIn({o.map[f] : f \in DOMAIN o.map}))
  BY <1>2, <1>3, Zenon DEF NewOf
<1>9. \A f \in DOMAIN o.map :
         /\ \A g \in DOMAIN o.map \ {f} : o.map[g] # o.map[f]
         /\ o.map[f] \in LiveFolders
         /\ folder[o.map[f]].name = folder[f].name
         /\ folder[o.map[f]].parent = IF f \in o.top THEN o.dst ELSE o.map[folder[f].parent]
  BY <1>1, <1>2, Zenon DEF FoldersOK, PlaceOK
<1> QED BY <1>6, <1>7, <1>8, <1>9, Zenon

\* A step of a Copy keeps what it knows of the copies.
LEMMA AdvanceCopy ==
    ASSUME MaxSilent = 0, TypeOK, TypeOK', CopyHeld, NEW p \in Ops, Advance(p)
    PROVE  CopyOK(op'[p], folder', file')
<1> DEFINE o == op[p]
           q == op'[p]
<1>o. /\ o \in Operation /\ PlaceOK(o) /\ CopyOK(o, folder, file) /\ op = [r \in Ops |-> op[r]]
  BY DEF TypeOK, CopyHeld, PlacesHeld
<1>i. IdleOp.kind = "idle"
  BY DEF IdleOp
<1>idle. Step(p, IdleOp) => CopyOK(q, folder', file')
  BY <1>o, <1>i DEF Step, CopyOK
<1>other. ASSUME NEW s, Step(p, s), s.kind = o.kind, o.kind # "copy" \/ s.pc \in {"charge", "files"}
          PROVE  CopyOK(q, folder', file')
  <2>1. q = s
    BY <1>o, <1>other DEF Step
  <2> QED BY <1>other, <2>1 DEF CopyOK
<1>1. CASE Ends(p)
  BY <1>idle, <1>1 DEF Ends
<1>2. ASSUME NEW f \in FolderIds, FolderMade(p, f) PROVE CopyOK(q, folder', file')
  BY <1>idle, <1>2 DEF FolderMade
<1>3. CASE FoldersMoved(p)
  <2>1. /\ Step(p, [o EXCEPT !.pc = "files"]) /\ o.kind = "move"
        /\ [o EXCEPT !.pc = "files"].kind = o.kind
    BY <1>o, <1>3 DEF FoldersMoved, Operation
  <2> QED BY <1>other, <2>1
<1>4. CASE FilesMoved(p)
  BY <1>idle, <1>4 DEF FilesMoved
<1>5. CASE TreeListed(p)
  <2> DEFINE T == FolderRows(Descendants(op[p].top))
  <2>1. /\ o.kind = "copy" /\ o.pc = "tree" /\ UNCHANGED <<folder, file>>
        /\ Step(p, [o EXCEPT !.pc = "folders", !.tree = T])
    BY <1>5 DEF TreeListed
  <2> HIDE DEF T
  <2>2. /\ q.kind = "copy" /\ q.pc = "folders" /\ q.tree = T /\ q.map = o.map /\ q.size = o.size
        /\ q.top = o.top
    BY <1>o, <2>1 DEF Step, Operation
  <2>3. DOMAIN q.map = {} /\ q.size = 0
    BY <1>o, <2>1, <2>2 DEF CopyOK
  <2>4. NewOf(q) = {}
    BY <2>3 DEF NewOf
  <2>5. Descendants(o.top) = Below(folder, o.top)
    BY Zenon DEF Descendants, WithinLevels, Below, LevelsOf, AreLevels, ChildrenOf, Live, LiveFolders
  <2>6. /\ IdsOf(q) = Below(folder, q.top)
        /\ \A t \in q.tree : t.parent = folder[t.id].parent /\ t.name = folder[t.id].name
    <3>1. T = {[id |-> f, parent |-> folder[f].parent, name |-> folder[f].name] :
                  f \in Descendants(o.top)}
      BY DEF T, FolderRows
    <3>2. \A t \in T : /\ t.id \in Descendants(o.top)
                      /\ t.parent = folder[t.id].parent /\ t.name = folder[t.id].name
      BY <3>1
    <3>3. ASSUME NEW f \in Descendants(o.top) PROVE \E t \in T : t.id = f
      <4> DEFINE t == [id |-> f, parent |-> folder[f].parent, name |-> folder[f].name]
      <4>1. t \in T
        BY <3>1, Zenon
      <4>2. t.id = f
        OBVIOUS
      <4> QED BY <4>1, <4>2, Zenon
    <3>4. IdsOf(q) = Descendants(o.top)
      BY <2>2, <3>2, <3>3 DEF IdsOf
    <3> QED BY <2>2, <2>5, <3>2, <3>4
  <2>7. FoldersOK(q, folder')
    BY <2>1, <2>3, <2>4, <2>6 DEF FoldersOK
  <2> QED BY <2>2, <2>3, <2>4, <2>7 DEF CopyOK, Within
<1>6. ASSUME NEW t \in o.tree, NEW f \in FolderIds, FolderCopied(p, t, f)
      PROVE  CopyOK(q, folder', file')
  BY <1>6, FolderCopiedOK
<1>7. CASE TreeFilesListed(p)
  <2> DEFINE R == FileRowsOf(FilesIn({t.id : t \in op[p].tree}))
  <2>1. /\ o.kind = "copy" /\ o.pc = "folders" /\ UNCHANGED <<folder, file>>
        /\ Step(p, [o EXCEPT !.pc = "treefiles", !.rows = R])
        /\ DOMAIN o.map = IdsOf(o)
    BY <1>7 DEF TreeFilesListed, IdsOf
  <2>r. R = [x \in Within(file, IdsOf(o)) |-> file[x]]
    BY DEF FileRowsOf, FilesIn, LiveFiles, Within, IdsOf
  <2> HIDE DEF R
  <2>2. /\ q.kind = "copy" /\ q.pc = "treefiles" /\ q.tree = o.tree /\ q.map = o.map
        /\ q.size = o.size /\ q.top = o.top /\ q.dst = o.dst /\ q.rows = R
    BY <1>o, <2>1 DEF Step, Operation
  <2>3. FoldersOK(o, folder) /\ Within(file, NewOf(o)) = {} /\ o.size = 0
    BY <1>o, <2>1 DEF CopyOK
  <2>4. NewOf(q) = NewOf(o) /\ IdsOf(q) = IdsOf(o)
    BY <2>2 DEF NewOf, IdsOf
  <2>5. FoldersOK(q, folder')
    <3>1. FoldersOK(q, folder)
      BY <2>2, <2>3, SameFolders
    <3> QED BY <2>1, <3>1
  <2>6. ASSUME NEW f \in DOMAIN q.map
        PROVE  HeldIn(file', q.map[f]) \cup LeftIn(q, f) = HeldIn(file', f)
    <3>1. HeldIn(file, q.map[f]) = {}
      <4>1. q.map[f] \in NewOf(o)
        BY <2>2 DEF NewOf
      <4> QED BY <2>3, <4>1 DEF HeldIn, Within
    <3>2. {y \in DOMAIN q.rows : q.rows[y].folder = f} = Within(file, {f})
      BY <2>1, <2>2, <2>r DEF Within
    <3>3. \A y \in Within(file, {f}) : q.rows[y] = file[y]
      BY <2>1, <2>2, <2>r DEF Within
    <3>4. LeftIn(q, f) = HeldIn(file, f)
      BY <3>2, <3>3 DEF LeftIn, HeldIn
    <3> QED BY <2>1, <3>1, <3>4
  <2>7. q.size = Sum(RowSize(file'), Within(file', NewOf(q)))
    <3>1. Sum(RowSize(file), {}) = 0
      BY SumZero
    <3> QED BY <2>1, <2>2, <2>3, <2>4, <3>1
  <2> QED BY <2>1, <2>2, <2>4, <2>5, <2>6, <2>7 DEF CopyOK
<1>8. CASE FilesListed(p)
  <2>1. o.kind = "copy"
    BY <1>8 DEF FilesListed
  <2>2. CASE Step(p, [o EXCEPT !.pc = "charge"])
    <3>1. [o EXCEPT !.pc = "charge"].kind = o.kind /\ [o EXCEPT !.pc = "charge"].pc = "charge"
      BY <1>o DEF Operation
    <3> QED BY <1>other, <2>2, <3>1
  <2>3. ASSUME NEW r, Step(p, [o EXCEPT !.pc = "files", !.rows = r])
        PROVE  CopyOK(q, folder', file')
    <3> DEFINE s == [o EXCEPT !.pc = "files", !.rows = r]
    <3>1. s.kind = o.kind /\ s.pc = "files" /\ Step(p, s)
      BY <1>o, <2>3 DEF Operation
    <3> HIDE DEF s
    <3> QED BY <1>other, <3>1
  <2> QED BY <1>8, <2>2, <2>3 DEF FilesListed
<1>9. ASSUME NEW x \in DOMAIN o.rows, NEW y \in FileIds, FileCopied(p, x, y)
      PROVE  CopyOK(q, folder', file')
  BY <1>9, FileCopiedOK
<1>10. CASE DeleteGoesOn(p)
  <2>1. o.kind = "delete"
    BY <1>10 DEF DeleteGoesOn
  <2>2. ASSUME NEW u, Step(p, [o EXCEPT !.pc = "unlink", !.unlink = u])
        PROVE  CopyOK(q, folder', file')
    <3> DEFINE s == [o EXCEPT !.pc = "unlink", !.unlink = u]
    <3>1. s.kind = o.kind /\ Step(p, s)
      BY <1>o, <2>2 DEF Operation
    <3> HIDE DEF s
    <3> QED BY <1>other, <2>1, <3>1
  <2>3. ASSUME NEW g, Step(p, [o EXCEPT !.pc = "rows", !.gone = g])
        PROVE  CopyOK(q, folder', file')
    <3> DEFINE s == [o EXCEPT !.pc = "rows", !.gone = g]
    <3>1. s.kind = o.kind /\ Step(p, s)
      BY <1>o, <2>3 DEF Operation
    <3> HIDE DEF s
    <3> QED BY <1>other, <2>1, <3>1
  <2> QED BY <1>10, <2>2, <2>3 DEF DeleteGoesOn
<1>11. CASE RowsDeleted(p)
  <2>1. o.kind = "delete" /\ (Step(p, IdleOp) \/ Step(p, [o EXCEPT !.pc = "folders"]))
    BY <1>11 DEF RowsDeleted
  <2>2. [o EXCEPT !.pc = "folders"].kind = o.kind
    BY <1>o DEF Operation
  <2> QED BY <1>idle, <1>other, <2>1, <2>2
<1>12. CASE FoldersDeleted(p)
  BY <1>idle, <1>12 DEF FoldersDeleted
<1> QED BY <1>1, <1>2, <1>3, <1>4, <1>5, <1>6, <1>7, <1>8, <1>9, <1>10, <1>11, <1>12, AdvanceCases

\* When operations do not overlap and no query fails unnoticed, a subtree that
\* CopyFolderTo has copied is the subtree: no folder or file is left out, copied
\* twice or put below the wrong parent, even when the destination lies in the
\* subtree itself, and the size it reports is that of the rows it has added.
THEOREM CopyFaithfulCorrect ==
    ASSUME Serial, MaxSilent = 0 PROVE Spec => []CopyFaithful
<1>1. Init => TypeOK /\ CopyHeld
  <2> SUFFICES ASSUME Init PROVE TypeOK /\ CopyHeld
    OBVIOUS
  <2>1. \A p \in Ops : CopyOK(op[p], folder, file)
    BY DEF Init, IdleOp, CopyOK
  <2> QED BY <2>1, TreeInitTypes, InitPlaces DEF CopyHeld
<1>2. TypeOK /\ CopyHeld /\ [Next]_vars => (TypeOK /\ CopyHeld)'
  <2> SUFFICES ASSUME TypeOK, CopyHeld, [Next]_vars PROVE (TypeOK /\ CopyHeld)'
    OBVIOUS
  <2>1. TypeOK' /\ PlacesHeld /\ PlacesHeld'
    BY TreeNextTypes, NextPlaces DEF CopyHeld
  <2> SUFFICES ASSUME NEW q \in Ops PROVE CopyOK(op'[q], folder', file')
    BY <2>1 DEF CopyHeld
  <2>idle. op'[q].kind = "idle" => CopyOK(op'[q], folder', file')
    BY DEF CopyOK
  <2>2. CASE UNCHANGED vars
    <3>1. UNCHANGED <<folder, file, op>>
      BY <2>2 DEF vars
    <3> QED BY <3>1 DEF CopyHeld
  <2>3. CASE Write /\ \A r \in Ops : Idle(r)
    <3>1. op' = op
      BY <2>3, Zenon DEF Write, AddFile, RenameFile, RenameFolder
    <3> QED BY <2>3, <2>idle, <3>1, Running
  <2>4. CASE Crash
    <3>1. op' = [p \in Ops |-> IdleOp]
      BY <2>4, Zenon DEF Crash
    <3> QED BY <2>idle, <3>1 DEF IdleOp
  <2>5. ASSUME NEW p \in Ops, Request(p), \A r \in Ops : Idle(r)
        PROVE  CopyOK(op'[q], folder', file')
    <3>1. CASE q # p
      BY <2>5, <2>idle, <3>1, StepsOne, Running
    <3>2. CASE q = p
      <4>1. Remembers(p)
        BY <2>5, RequestCases
      <4>2. CASE /\ op'[p].kind = "copy" /\ op'[p].pc \in {"list", "tree"}
                 /\ DOMAIN op'[p].map = {} /\ op'[p].size = 0
        BY <3>2, <4>2 DEF CopyOK
      <4>3. CASE op'[p].kind # "copy"
        BY <3>2, <4>3 DEF CopyOK
      <4> QED BY <4>1, <4>2, <4>3 DEF Remembers
    <3> QED BY <3>1, <3>2
  <2>6. ASSUME NEW p \in Ops, Advance(p), \A r \in Ops \ {p} : Idle(r)
        PROVE  CopyOK(op'[q], folder', file')
    <3>1. CASE q # p
      BY <2>6, <2>idle, <3>1, StepsOne, Running
    <3>2. CASE q = p
      BY <2>1, <2>6, <3>2, AdvanceCopy
    <3> QED BY <3>1, <3>2
  <2> QED BY <2>1, <2>2, <2>3, <2>4, <2>5, <2>6, SerialKinds DEF PlacesHeld
<1>3. TypeOK /\ CopyHeld => CopyFaithful
  BY CopyMeans
<1> QED BY <1>1, <1>2, <1>3, PTL DEF Spec
=============================================================================
