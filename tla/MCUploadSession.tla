-------------------------- MODULE MCUploadSession --------------------------
(* Small instances of UploadSession. *)
EXTENDS UploadSession, TLC

CONSTANTS s1, s2, s3, r1, r2, d1, d2, fileA, fileB

OneName == s1 :> fileA
OneTotal == s1 :> 2
ThreeNames == s1 :> fileA @@ s2 :> fileB @@ s3 :> fileA
ThreeTotals == s1 :> 3 @@ s2 :> 4 @@ s3 :> 3

\* Two sessions at most: for two names, or twice for one.
TwoSessions == "fresh" \in {creating[s2], creating[s3]}

\* Slots for requests are interchangeable.
RequestSymmetry == Permutations(Requests)
============================================================================
