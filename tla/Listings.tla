------------------------------ MODULE Listings ------------------------------
(***************************************************************************)
(* Requests that read the tree in several queries while other requests     *)
(* change it: a directory listing (folders, then files), a search below a  *)
(* folder and the properties of a folder (its folders level by level, then *)
(* the files in them), the walk of a WebDAV PROPFIND (folder by folder),   *)
(* and the path of an object (parent by parent).  No query sees the same   *)
(* tree as the one before.                                                 *)
(***************************************************************************)
EXTENDS Naturals, FiniteSets

CONSTANTS
    Dirs,      \* folders
    Top,       \* the root folder of the user, never moved
    LeafFiles,    \* files
    Matching,  \* files whose names match the search
    Readers,   \* requests
    Outside,   \* the parent of what does not exist
    MaxMoves,  \* bound on the changes made by others
    MaxCached  \* bound on the folders with cached properties

ASSUME ListingsAssumption ==
    /\ Top \in Dirs /\ IsFiniteSet(Dirs) /\ Dirs \cap LeafFiles = {} /\ Matching \subseteq LeafFiles
    /\ Outside \notin Dirs \cup LeafFiles /\ {MaxMoves, MaxCached} \subseteq Nat

VARIABLES
    at,       \* parent_id of folders, folder_id of files
    hidden,   \* files that have an upload session
    reader,
    props,    \* folder_props_<id> in the cache
    moves,
    stale     \* history: folders whose cached properties the tree has left behind

listingVars == <<at, hidden, reader, props, moves, stale>>

Objs == Dirs \cup LeafFiles
NoReader == [pc |-> "idle", kind |-> "none", root |-> Top, dirs |-> {}, frontier |-> {}, got |-> {},
             twice |-> {}, calm |-> {}, seen |-> {}, shaken |-> FALSE, touched |-> FALSE]
Kinds == {"list", "search", "props", "walk", "trace"}

-----------------------------------------------------------------------------
(* The tree.                                                               *)

ParentOf(A, o) == IF o = Top THEN Outside ELSE A[o]
ChildDirs(A, F) == {x \in Dirs : ParentOf(A, x) \in F}
ChildLeaves(A, F) == {x \in LeafFiles : A[x] \in F}

(* Folders reached from those of F in any number of steps.                 *)
Below(A, F) ==
    LET L[n \in 0 .. Cardinality(Dirs)] ==
            IF n = 0 THEN F ELSE LET S == L[n - 1] IN S \cup ChildDirs(A, S)
    IN  L[Cardinality(Dirs)]

(* IsPathExist: d is reached from the root, name by name (in one step here).*)
IsPathExist(d) == d \in Below(at, {Top})

Above(A, d) == {x \in Dirs : x # d /\ d \in Below(A, {x})}

(* What a request of each kind is to answer, in the tree A.                *)
ScopeIn(A, H, k, d) ==
    CASE k = "list"   -> ChildDirs(A, {d}) \cup (ChildLeaves(A, {d}) \ H)
      [] k = "search" -> (ChildLeaves(A, Below(A, {d})) \cap Matching) \ H
      [] k = "props"  -> (Below(A, {d}) \ {d}) \cup ChildLeaves(A, Below(A, {d}))
      [] k = "walk"   -> Below(A, {d}) \cup ChildLeaves(A, Below(A, {d}))
      [] OTHER        -> Above(A, d)

(* The types of the variables.                                             *)
ListingsTypeOK ==
    /\ at \in [Objs \ {Top} -> Dirs \cup {Outside}] /\ hidden \subseteq LeafFiles
    /\ \A d \in Dirs : props[d] \subseteq SUBSET Objs /\ Cardinality(props[d]) <= 1
    /\ \A r \in Readers : LET q == reader[r] IN
        /\ q.kind \in Kinds \cup {"none"} /\ q.dirs \cup q.frontier \subseteq Dirs /\ q.got \subseteq Objs

(* Any tree to begin with.                                                 *)
ListingsInit ==
    /\ at \in {A \in [Objs \ {Top} -> Dirs] : Below(A, {Top}) = Dirs} /\ hidden = {}
    /\ reader = [r \in Readers |-> NoReader] /\ props = [d \in Dirs |-> {}] /\ moves = 0 /\ stale = {}

-----------------------------------------------------------------------------
(* Changes by other requests (the operations of FileTree, object by        *)
(* object, and of UploadSession).                                          *)

(* A change to o is seen by the history of every request under way.        *)
Changed(o) ==
    /\ moves' = moves + 1
    /\ stale' = Dirs
    /\ reader' = [r \in Readers |->
        LET q == reader[r]
            hit == IF q.kind = "list" THEN {o}
                   ELSE IF q.kind = "trace" /\ o \in Dirs THEN Dirs
                   ELSE IF o \in Dirs THEN Below(at, {o}) \cup ChildLeaves(at, Below(at, {o}))
                   ELSE {o}
        IN  IF q.pc = "idle" THEN q
            ELSE [q EXCEPT !.calm = @ \ hit, !.seen = @ \cup ScopeIn(at', hidden', q.kind, q.root),
                           !.shaken = @ \/ o \in Dirs, !.touched = TRUE]]
    /\ UNCHANGED props

Moved(o, d) ==
    /\ o # Top /\ at[o] \notin {Outside, d} /\ IsPathExist(d) /\ d \notin Below(at, {o})
    /\ at' = [at EXCEPT ![o] = d] /\ UNCHANGED hidden
    /\ Changed(o)

Deleted(o) ==
    /\ o # Top /\ at[o] # Outside /\ ChildDirs(at, {o}) \cup ChildLeaves(at, {o}) = {}
    /\ at' = [at EXCEPT ![o] = Outside] /\ hidden' = hidden \ {o}
    /\ Changed(o)

(* A placeholder is inserted; its upload ends.                             *)
Inserted(o, d) ==
    /\ o \in LeafFiles /\ at[o] = Outside /\ IsPathExist(d)
    /\ at' = [at EXCEPT ![o] = d] /\ hidden' = hidden \cup {o}
    /\ Changed(o)

Promoted(o) ==
    /\ o \in hidden /\ hidden' = hidden \ {o} /\ UNCHANGED at
    /\ Changed(o)

-----------------------------------------------------------------------------
Reads(r, q) == reader' = [reader EXCEPT ![r] = q] /\ UNCHANGED <<at, hidden, moves>>

Opens(r, k, pc, d) ==
    LET S == ScopeIn(at, hidden, k, d) IN
    /\ reader[r].pc = "idle" /\ IsPathExist(d)
    /\ Reads(r, [NoReader EXCEPT !.pc = pc, !.kind = k, !.root = d, !.calm = S, !.seen = S])
    /\ UNCHANGED <<props, stale>>

(* FileSystem.List: the sub-folders, then the files.                       *)
List(r, d) == Opens(r, "list", "dirs", d)

(* The two routes to it.                                                   *)
ListDirectory(r, d) == List(r, d)
ListDirectoryTool(r, d) == List(r, d)

GetChildFolder(r) ==
    LET q == reader[r] IN
    /\ q.pc = "dirs"
    /\ Reads(r, [q EXCEPT !.pc = "files", !.got = ChildDirs(at, {q.root})])
    /\ UNCHANGED <<props, stale>>

(* listObjects leaves placeholders out.                                    *)
listObjects(F) == F \ hidden

GetChildFiles(r) ==
    LET q == reader[r] IN
    /\ q.pc = "files"
    /\ Reads(r, [q EXCEPT !.pc = "done", !.got = @ \cup listObjects(ChildLeaves(at, {q.root}))])
    /\ UNCHANGED <<props, stale>>

(* Search: below the folder, or below that of a share.                     *)
Search(r, d) == Opens(r, "search", "roots", d)

(* GetProperty of a folder: the cached answer, or count.                   *)
GetProperty(r, d) ==
    /\ props[d] = {} /\ Cardinality({x \in Dirs : props[x] # {}}) < MaxCached
    /\ Opens(r, "props", "roots", d)

(* GetRecursiveChildFolder: the folder itself, if its row is still there.  *)
GetRecursiveChildFolder(r) ==
    LET q == reader[r]
        R == {x \in {q.root} : x = Top \/ at[x] # Outside}
    IN
    /\ q.pc = "roots"
    /\ Reads(r, [q EXCEPT !.pc = "level", !.dirs = R, !.frontier = R])
    /\ UNCHANGED <<props, stale>>

NextLevelRoot(q) == IF q.dirs = {q.root} THEN ChildDirs(at, q.frontier) ELSE {}

(* The folders whose parents are those of the last level.                  *)
NextLevel(q) == ChildDirs(at, q.frontier)

ChildLevel(r) ==
    LET q == reader[r]
        N == NextLevel(q)
    IN
    /\ q.pc = "level"
    /\ Reads(r, IF N = {} THEN [q EXCEPT !.pc = "query"]
                ELSE [q EXCEPT !.frontier = N, !.dirs = @ \cup N, !.twice = @ \cup (N \cap q.dirs)])
    /\ UNCHANGED <<props, stale>>

(* GetFilesByKeywords: an empty list of parents is no restriction.         *)
GetFilesByKeywords(P) == {x \in Matching : at[x] # Outside /\ (P # {} => at[x] \in P)}

SearchKeywords(r) ==
    LET q == reader[r] IN
    /\ q.pc = "query" /\ q.kind = "search"
    /\ Reads(r, [q EXCEPT !.pc = "done", !.got = listObjects(GetFilesByKeywords(q.dirs))])
    /\ UNCHANGED <<props, stale>>

(* GetChildFilesOfFolders: every file, placeholders too.                   *)
CountFiles(r) ==
    LET q == reader[r] IN
    /\ q.pc = "query" /\ q.kind = "props"
    /\ Reads(r, [q EXCEPT !.pc = "store", !.got = (q.dirs \ {q.root}) \cup ChildLeaves(at, q.dirs)])
    /\ UNCHANGED <<props, stale>>

(* cache.Set("folder_props_<id>") replaces what another request stored.    *)
CacheProps(d, S) == [props EXCEPT ![d] = {S}]

StoreProps(r) ==
    LET q == reader[r] IN
    /\ q.pc = "store"
    /\ Reads(r, [q EXCEPT !.pc = "done"])
    /\ props' = CacheProps(q.root, q.got)
    /\ stale' = IF q.touched THEN stale \cup {q.root} ELSE stale \ {q.root}

(* folder_props_timeout.                                                   *)
PropsExpire(d) ==
    /\ props[d] # {} /\ props' = [props EXCEPT ![d] = {}]
    /\ UNCHANGED <<at, hidden, reader, moves, stale>>

(* handlePropfind, of depth infinity.                                      *)
handlePropfind(r, d) == Opens(r, "walk", "walk", d)

(* walkFS reports a folder and reads its sub-folders, then its files (any  *)
(* order of the pending folders; the walk's depth-first order is one).     *)
walkFS(r) ==
    LET q == reader[r] IN
    /\ q.pc = "walk"
    /\ \/ /\ q.dirs = {} /\ q.got = {} /\ Reads(r, [q EXCEPT !.dirs = {q.root}])
       \/ /\ q.dirs = {} /\ q.got # {} /\ Reads(r, [q EXCEPT !.pc = "done"])
       \/ \E x \in q.dirs :
            Reads(r, [q EXCEPT !.pc = "walkfiles", !.frontier = {x},
                               !.dirs = (@ \ {x}) \cup ChildDirs(at, {x}),
                               !.got = @ \cup {x}, !.twice = IF x \in q.got THEN @ \cup {x} ELSE @])
    /\ UNCHANGED <<props, stale>>

walkFiles(r) ==
    LET q == reader[r] IN
    /\ q.pc = "walkfiles"
    /\ Reads(r, [q EXCEPT !.pc = "walk", !.frontier = {}, !.got = @ \cup ChildLeaves(at, q.frontier)])
    /\ UNCHANGED <<props, stale>>

(* TraceRoot: from a folder to its parent, until the root.                 *)
TraceStart(r, d) == Opens(r, "trace", "up", d)

(* The query for the parent's row.                                         *)
ParentFound(o) == at[o] # Outside

TraceRoot(r) ==
    LET q == reader[r]
        cur == IF q.frontier = {} THEN q.root ELSE CHOOSE x \in q.frontier : TRUE
    IN
    /\ q.pc = "up"
    /\ IF cur = Top THEN Reads(r, [q EXCEPT !.pc = "done"])
       ELSE IF ~ParentFound(cur) THEN Reads(r, NoReader)
       ELSE Reads(r, [q EXCEPT !.frontier = {at[cur]}, !.got = @ \cup {at[cur]}])
    /\ UNCHANGED <<props, stale>>

Answered(r) ==
    /\ reader[r].pc = "done" /\ Reads(r, NoReader)
    /\ UNCHANGED <<props, stale>>

ListingsNext ==
    \/ /\ moves < MaxMoves
       /\ \E o \in Objs : Deleted(o) \/ Promoted(o) \/ \E d \in Dirs : Moved(o, d) \/ Inserted(o, d)
    \/ \E r \in Readers :
        \/ \E d \in Dirs :
            \/ ListDirectory(r, d) \/ ListDirectoryTool(r, d) \/ Search(r, d)
            \/ GetProperty(r, d) \/ handlePropfind(r, d) \/ TraceStart(r, d)
        \/ GetChildFolder(r) \/ GetChildFiles(r) \/ GetRecursiveChildFolder(r) \/ ChildLevel(r)
        \/ SearchKeywords(r) \/ CountFiles(r) \/ StoreProps(r) \/ walkFS(r) \/ walkFiles(r) \/ TraceRoot(r)
        \/ Answered(r)
    \/ \E d \in Dirs : PropsExpire(d)

ListingsSpec == ListingsInit /\ [][ListingsNext]_listingVars

-----------------------------------------------------------------------------
(* What stays where it is, with the folders above it, from the beginning   *)
(* of a request to its end is in the answer, whatever is moved, deleted or *)
(* uploaded beside it between the queries (List, GetRecursiveChildFolder,  *)
(* GetFilesByKeywords, walkFS, TraceRoot).                                 *)
UndisturbedFound ==
    \A r \in Readers : reader[r].pc = "done" => reader[r].calm \subseteq reader[r].got

(* What is in the answer was below the folder at some moment of the        *)
(* request, unless a folder was moved or deleted meanwhile; for a listing  *)
(* of one folder, always.                                                  *)
FoundWasInside ==
    \A r \in Readers : LET q == reader[r] IN
        q.pc = "done" /\ (q.kind = "list" \/ ~q.shaken) => q.got \subseteq q.seen

(* A folder is counted or reported twice only if a folder was moved or     *)
(* deleted meanwhile (GetRecursiveChildFolder, walkFS).                    *)
CountedOnce == \A r \in Readers : reader[r].twice # {} => reader[r].shaken

(* Cached properties are those of the folder, unless the tree has changed  *)
(* since their counting began (GetProperty).                               *)
PropsFresh ==
    \A d \in Dirs \ stale : props[d] \subseteq {ScopeIn(at, hidden, "props", d)}

(* What an answer put together from several queries is worth while the tree *)
(* changes: complete, correct and counted once, changes apart.             *)
ListingsInv ==
    /\ ListingsTypeOK /\ UndisturbedFound /\ FoundWasInside
    /\ CountedOnce /\ PropsFresh
=============================================================================
