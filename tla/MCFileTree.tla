----------------------------- MODULE MCFileTree -----------------------------
(* Small instances of FileTree. *)
EXTENDS FileTree, TLC

CONSTANTS r, f1, f2, f3, f4, x1, x2, x3, x4, p1, p2, a, b, m, n

OneSource == a :> 1
TwoSources == a :> 1 @@ b :> 2

\* Either nothing fails, there are two files of one source, and the last request
\* comes when all folders have been made; or there are two folders below the
\* root, and one request less.
UsedFolders == {k \in FolderIds : folder[k].st # "fresh"}
UsedFiles == {k \in FileIds : file[k].st # "fresh"}
SmallOrSound ==
    \/ /\ faults + crashes = 0 /\ (UsedFolders = FolderIds \/ started < MaxOps)
       /\ Cardinality(UsedFiles) <= 2 /\ \A k \in UsedFiles : file[k].src = a
    \/ Cardinality(UsedFolders) <= 3 /\ started < MaxOps
SerialSpec == Init /\ [][Next /\ SmallOrSound']_vars

\* Keys other than the root's, names and slots are interchangeable.
Keys ==
    Permutations(FolderIds \ {Root}) \cup Permutations(FileIds) \cup Permutations(Names)
KeysAndOps == Keys \cup Permutations(Ops)
=============================================================================
