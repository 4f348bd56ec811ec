------------------------ MODULE UploadSessionProofs ------------------------
(***************************************************************************)
(* Proofs about UploadSession for every set of sessions, every number of   *)
(* concurrent requests and deletes, and every bound: the types are         *)
(* invariant, the storage charged to the user is the sum of the recorded   *)
(* sizes plus what UpdateSize charged without changing a record, and the   *)
(* quota is exceeded by one chunk per other request at most.  Without      *)
(* overlaps within a session the charge is exact, and with connections     *)
(* that last every promoted file is complete.                              *)
(***************************************************************************)
EXTENDS UploadSession, SizesTheorems

USE SizesAreNat, SessionsFinite

----------------------------------------------------------------------------
(* The operators on sizes and files *)

\* The offset at which processChunkUpload starts a chunk is a natural number.
LEMMA AppendStartIsNat ==
    ASSUME NEW i \in Nat PROVE AppendStart(i) \in Nat
BY DEF AppendStart

\* The size HookChunkUploaded records is a natural number.
LEMMA ChunkEndIsNat ==
    ASSUME NEW s \in Sessions, NEW i \in Nat
    PROVE  AppendStart(i) + ChunkLength(s, i) \in Nat
<1>1. AppendStart(i) \in Nat /\ Total[s] \in Nat /\ ChunkSize \in Nat
  BY AppendStartIsNat
<1> QED BY <1>1 DEF ChunkLength

\* Truncating a file gives a file.
LEMMA TruncateIsSeq ==
    ASSUME NEW data \in Seq(Int), NEW n \in Nat
    PROVE  TruncateTo(data, n) \in Seq(Int)
<1>1. \A k \in 1 .. n : (IF k <= Len(data) THEN data[k] ELSE Hole) \in Int
  BY DEF Hole
<1>2. TruncateTo(data, n) \in [1 .. n -> Int]
  BY <1>1 DEF TruncateTo
<1> QED BY <1>2

\* A handler that returns leaves a well-typed, idle request behind.
LEMMA ReturnIsRequest ==
    ASSUME NEW r \in Requests, req[r] \in Request
    PROVE  /\ Return(r) \in Request
           /\ Return(r).s = req[r].s
           /\ Return(r).cancel # "off" => req[r].cancel # "off"
           /\ Return(r).pc = "idle"
BY DEF Return, Request

\* The idle request and the idle deleter are well typed.
LEMMA IdleTypes ==
    IdleRequest \in Request /\ IdleDeleter \in Deleter
BY DEF IdleRequest, IdleDeleter, Request, Deleter

----------------------------------------------------------------------------
(* Type correctness *)

\* A step that changes one request and keeps the request well typed.
LEMMA OneRequestChanges ==
    ASSUME RequestsOK, NEW r \in Requests, NEW q \in Request,
           req' = [req EXCEPT ![r] = q],
           q.pc # "idle" \/ q.cancel # "off" => q.s \in Sessions
    PROVE  RequestsOK'
BY DEF RequestsOK

\* The initial state has the types.
LEMMA InitTypes == Init => TypeOK
<1> SUFFICES ASSUME Init PROVE TypeOK
  OBVIOUS
<1>1. NoDigest \in Seq(Int) /\ <<>> \in Seq(Int)
  BY DEF NoDigest
<1>2. NoRow \in RowType /\ NoFile \in FileType
  BY <1>1 DEF NoRow, NoFile, RowType, FileType
<1>3. req \in [Requests -> Request] /\ del \in [Deleters -> Deleter]
  BY IdleTypes DEF Init
<1>4. \A r \in Requests : req[r].pc = "idle" /\ req[r].cancel = "off"
  BY DEF Init, IdleRequest
<1>5. row \in [Sessions -> RowType] /\ phys \in [Sessions -> FileType]
  BY <1>2 DEF Init
<1> QED BY <1>3, <1>4, <1>5 DEF Init, TypeOK, RequestsOK

\* Every step keeps the types, whatever the interleaving.
LEMMA NextTypes == TypeOK /\ [Next]_vars => TypeOK'
<1> SUFFICES ASSUME TypeOK, [Next]_vars PROVE TypeOK'
  OBVIOUS
<1> USE DEF db, env
<1>idx. \A r \in Requests : req[r].idx \in Nat /\ AppendStart(req[r].idx) \in Nat
  BY AppendStartIsNat DEF TypeOK, RequestsOK, Request
<1>seq. NoDigest \in Seq(Int) /\ <<>> \in Seq(Int)
  BY DEF NoDigest
<1>1. ASSUME NEW s \in Sessions, CreateValidate(s) PROVE TypeOK'
  BY <1>1 DEF CreateValidate, TypeOK, RequestsOK
<1>row. ASSUME NEW s \in Sessions, NEW q \in RowType, row' = [row EXCEPT ![s] = q]
        PROVE  row' \in [Sessions -> RowType]
  BY <1>row DEF TypeOK
<1>phys. ASSUME NEW s \in Sessions, NEW q \in FileType, phys' = [phys EXCEPT ![s] = q]
         PROVE  phys' \in [Sessions -> FileType]
  BY <1>phys DEF TypeOK
<1>del. ASSUME NEW d \in Deleters, NEW q \in Deleter, del' = [del EXCEPT ![d] = q]
        PROVE  del' \in [Deleters -> Deleter]
  BY <1>del DEF TypeOK
<1>del1. ASSUME NEW d \in Deleters PROVE del[d] \in Deleter
  BY DEF TypeOK
<1>2. ASSUME NEW s \in Sessions, CreatePlaceholder(s) PROVE TypeOK'
  <2>1. [exists |-> TRUE, pending |-> TRUE, size |-> 0, md5 |-> NoDigest] \in RowType
    BY <1>seq DEF RowType
  <2>2. row' \in [Sessions -> RowType]
    BY <1>2, <1>row, <2>1 DEF CreatePlaceholder, TypeOK
  <2> QED BY <1>2, <2>2 DEF CreatePlaceholder, TypeOK, RequestsOK
<1>3. ASSUME NEW s \in Sessions, CreateSession(s) PROVE TypeOK'
  BY <1>3 DEF CreateSession, TypeOK, RequestsOK
<1>4. ASSUME NEW r \in Requests, NEW s \in Sessions, NEW i \in 0 .. MaxIndex,
             ReceiveChunk(r, s, i)
      PROVE  TypeOK'
  <2> DEFINE q == [IdleRequest EXCEPT !.pc = "lookup", !.s = s, !.idx = i, !.used = storage]
  <2>1. q \in Request /\ q.s = s
    BY DEF TypeOK, IdleRequest, Request
  <2>2. RequestsOK'
    BY <1>4, <2>1, OneRequestChanges DEF ReceiveChunk, TypeOK
  <2> QED BY <1>4, <2>2 DEF ReceiveChunk, TypeOK
<1>5. ASSUME NEW r \in Requests, LookupPlaceholder(r) PROVE TypeOK'
  <2> DEFINE s == req[r].s
             q == [req[r] EXCEPT !.pc = "exists", !.size = row[s].size, !.cancel = "armed"]
  <2>1. req[r] \in Request /\ s \in Sessions
    BY <1>5 DEF LookupPlaceholder, TypeOK, RequestsOK
  <2>2. q \in Request /\ q.s \in Sessions
    BY <2>1 DEF TypeOK, RowType, Request
  <2>3. Return(r) \in Request /\ Return(r).s \in Sessions
    BY <2>1, ReturnIsRequest
  <2>4. req' = [req EXCEPT ![r] = q] \/ req' = [req EXCEPT ![r] = Return(r)]
    BY <1>5, <2>1 DEF LookupPlaceholder, TypeOK, RequestsOK
  <2>5. RequestsOK'
    BY <2>2, <2>3, <2>4, OneRequestChanges DEF TypeOK
  <2> QED BY <1>5, <2>5 DEF LookupPlaceholder, TypeOK
<1>back. ASSUME NEW r \in Requests, req[r].pc # "idle", req' = [req EXCEPT ![r] = Return(r)]
         PROVE  RequestsOK'
  <2>1. req[r] \in Request /\ req[r].s \in Sessions
    BY <1>back DEF TypeOK, RequestsOK
  <2> QED BY <1>back, <2>1, ReturnIsRequest, OneRequestChanges DEF TypeOK
<1>6. ASSUME NEW r \in Requests, PutCheckExists(r) PROVE TypeOK'
  <2> DEFINE q == [req[r] EXCEPT !.pc = "open"]
  <2>1. req[r] \in Request /\ req[r].s \in Sessions /\ req[r].pc # "idle"
    BY <1>6 DEF PutCheckExists, TypeOK, RequestsOK
  <2>2. q \in Request /\ q.s \in Sessions
    BY <2>1 DEF Request
  <2>3. req' = [req EXCEPT ![r] = q] \/ req' = [req EXCEPT ![r] = Return(r)]
    BY <1>6, <2>1 DEF PutCheckExists, TypeOK, RequestsOK
  <2>4. RequestsOK'
    BY <1>back, <2>1, <2>2, <2>3, OneRequestChanges DEF TypeOK
  <2> QED BY <1>6, <2>4 DEF PutCheckExists, TypeOK
<1>7. ASSUME NEW r \in Requests, PutOpen(r) PROVE TypeOK'
  <2> DEFINE s == req[r].s
             q == [req[r] EXCEPT !.pc = "write", !.linked = TRUE]
             cut == TruncateTo(phys[s].data, AppendStart(req[r].idx))
  <2>1. req[r] \in Request /\ s \in Sessions /\ req[r].pc # "idle"
    BY <1>7 DEF PutOpen, TypeOK, RequestsOK
  <2>2. q \in Request /\ q.s \in Sessions
    BY <2>1 DEF Request
  <2>3. req' = [req EXCEPT ![r] = q] \/ req' = [req EXCEPT ![r] = Return(r)]
    BY <1>7, <2>1 DEF PutOpen, TypeOK, RequestsOK
  <2>4. RequestsOK'
    BY <1>back, <2>1, <2>2, <2>3, OneRequestChanges DEF TypeOK
  <2>5. cut \in Seq(Int)
    BY <1>idx, <2>1, TruncateIsSeq DEF TypeOK, FileType
  <2>6. phys' = [phys EXCEPT ![s].exists = TRUE]
        \/ phys' = [phys EXCEPT ![s] = [exists |-> TRUE, data |-> cut]]
    BY <1>7, <2>1 DEF PutOpen, TypeOK
  <2>a. [phys[s] EXCEPT !.exists = TRUE] \in FileType
        /\ [exists |-> TRUE, data |-> cut] \in FileType
    BY <2>1, <2>5 DEF TypeOK, FileType
  <2>7. phys' \in [Sessions -> FileType]
    BY <1>phys, <2>1, <2>6, <2>a
  <2> QED BY <1>7, <2>4, <2>7 DEF PutOpen, TypeOK
<1>8. ASSUME NEW r \in Requests, PutWrite(r) PROVE TypeOK'
  <2> DEFINE s == req[r].s
             q == [req[r] EXCEPT !.written = @ + 1]
  <2>1. req[r] \in Request /\ s \in Sessions
    BY <1>8 DEF PutWrite, TypeOK, RequestsOK
  <2>2. q \in Request /\ q.s \in Sessions
    BY <2>1 DEF Request
  <2>3. req' = [req EXCEPT ![r] = q]
    BY <1>8, <2>1 DEF PutWrite, TypeOK, RequestsOK
  <2>4. RequestsOK'
    BY <2>1, <2>2, <2>3, OneRequestChanges DEF TypeOK
  <2>5. Append(phys[s].data, req[r].idx) \in Seq(Int)
    BY <1>idx, <2>1 DEF TypeOK, FileType
  <2>6. phys' = phys \/ phys' = [phys EXCEPT ![s].data = Append(phys[s].data, req[r].idx)]
    BY <1>8, <2>1 DEF PutWrite, TypeOK
  <2>a. [phys[s] EXCEPT !.data = Append(phys[s].data, req[r].idx)] \in FileType
    BY <2>1, <2>5 DEF TypeOK, FileType
  <2>7. phys' \in [Sessions -> FileType]
    BY <1>phys, <2>1, <2>6, <2>a DEF TypeOK
  <2> QED BY <1>8, <2>4, <2>7 DEF PutWrite, TypeOK
<1>9. ASSUME NEW r \in Requests, PutBroken(r) PROVE TypeOK'
  <2>1. RequestsOK'
    BY <1>9, <1>back DEF PutBroken
  <2> QED BY <1>9, <2>1 DEF PutBroken, TypeOK
<1>10. ASSUME NEW r \in Requests, UpdateMD5(r) PROVE TypeOK'
  <2> DEFINE s == req[r].s
             q == [req[r] EXCEPT !.pc = "sized"]
  <2>1. req[r] \in Request /\ s \in Sessions
    BY <1>10 DEF UpdateMD5, TypeOK, RequestsOK
  <2>2. q \in Request /\ q.s \in Sessions
    BY <2>1 DEF Request
  <2>3. req' = [req EXCEPT ![r] = q]
    BY <1>10, <2>1 DEF UpdateMD5, TypeOK, RequestsOK
  <2>4. RequestsOK'
    BY <2>1, <2>2, <2>3, OneRequestChanges DEF TypeOK
  <2>5. row' = row \/ row' = [row EXCEPT ![s].md5 = phys[s].data]
    BY <1>10 DEF UpdateMD5
  <2>a. [row[s] EXCEPT !.md5 = phys[s].data] \in RowType
    BY <2>1, ZenonT(60) DEF TypeOK, FileType, RowType
  <2>6. row' \in [Sessions -> RowType]
    BY <1>row, <2>1, <2>5, <2>a DEF TypeOK
  <2> QED BY <1>10, <2>4, <2>6 DEF UpdateMD5, TypeOK
<1>size. ASSUME NEW s \in Sessions, NEW read \in Nat, NEW value \in Nat,
                UpdateSize(s, read, value)
         PROVE  storage' \in Int /\ lost' \in Int /\ row' \in [Sessions -> RowType]
  <2>1. [row[s] EXCEPT !.size = value] \in RowType
    BY DEF TypeOK, RowType
  <2>2. row' = row \/ row' = [row EXCEPT ![s] = [row[s] EXCEPT !.size = value]]
    BY <1>size DEF UpdateSize
  <2>3. row' \in [Sessions -> RowType]
    BY <1>row, <2>1, <2>2 DEF TypeOK
  <2>4. storage' \in Int /\ lost' \in Int
    BY <1>size DEF UpdateSize, TypeOK
  <2> QED BY <2>3, <2>4
<1>11. ASSUME NEW r \in Requests, HookChunkUploaded(r) PROVE TypeOK'
  <2> DEFINE s == req[r].s
             value == AppendStart(req[r].idx) + ChunkLength(s, req[r].idx)
             Q(pc, size) == [req[r] EXCEPT !.pc = pc, !.size = size]
  <2>1. req[r] \in Request /\ s \in Sessions /\ req[r].pc # "idle" /\ req[r].size \in Nat
    BY <1>11 DEF HookChunkUploaded, TypeOK, RequestsOK, Request
  <2>2. value \in Nat
    BY <1>idx, <2>1, ChunkEndIsNat
  <2>3. \A pc \in {"pop", "undo"}, n \in Nat : Q(pc, n) \in Request /\ Q(pc, n).s \in Sessions
    BY <2>1 DEF Request
  <2>4. \/ req' = [req EXCEPT ![r] = Return(r)]
        \/ \E pc \in {"pop", "undo"}, n \in Nat : req' = [req EXCEPT ![r] = Q(pc, n)]
    BY <1>11, <2>1, <2>2 DEF HookChunkUploaded, TypeOK, RequestsOK
  <2>5. RequestsOK'
    BY <1>back, <2>1, <2>3, <2>4, OneRequestChanges DEF TypeOK
  <2>6. storage' \in Int /\ lost' \in Int /\ row' \in [Sessions -> RowType]
    BY <1>11, <1>size, <2>1, <2>2 DEF HookChunkUploaded, TypeOK
  <2> QED BY <1>11, <2>5, <2>6 DEF HookChunkUploaded, TypeOK
<1>12. ASSUME NEW r \in Requests, HookPopPlaceholderToFile(r) PROVE TypeOK'
  <2> DEFINE s == req[r].s
             Q(pc) == [req[r] EXCEPT !.pc = pc]
  <2>1. req[r] \in Request /\ s \in Sessions
    BY <1>12 DEF HookPopPlaceholderToFile, TypeOK, RequestsOK
  <2>2. \A pc \in {"forget", "undo"} : Q(pc) \in Request /\ Q(pc).s \in Sessions
    BY <2>1 DEF Request
  <2>3. \E pc \in {"forget", "undo"} : req' = [req EXCEPT ![r] = Q(pc)]
    BY <1>12, <2>1 DEF HookPopPlaceholderToFile, TypeOK, RequestsOK
  <2>4. RequestsOK'
    BY <2>2, <2>3, OneRequestChanges DEF TypeOK
  <2>5. row' = row \/ row' = [row EXCEPT ![s].pending = FALSE]
    BY <1>12 DEF HookPopPlaceholderToFile
  <2>a. [row[s] EXCEPT !.pending = FALSE] \in RowType
    BY <2>1, ZenonT(60) DEF TypeOK, RowType
  <2>6. row' \in [Sessions -> RowType]
    BY <1>row, <2>1, <2>5, <2>a DEF TypeOK
  <2> QED BY <1>12, <2>4, <2>6 DEF HookPopPlaceholderToFile, TypeOK
<1>13. ASSUME NEW r \in Requests, HookDeleteUploadSession(r) PROVE TypeOK'
  <2>1. RequestsOK'
    BY <1>13, <1>back DEF HookDeleteUploadSession
  <2> QED BY <1>13, <2>1 DEF HookDeleteUploadSession, TypeOK
<1>cut. ASSUME NEW s \in Sessions, NEW n \in Nat,
               phys' = phys \/ phys' = [phys EXCEPT ![s].data = TruncateTo(phys[s].data, n)]
        PROVE  phys' \in [Sessions -> FileType]
  <2>1. TruncateTo(phys[s].data, n) \in Seq(Int)
    BY TruncateIsSeq DEF TypeOK, FileType
  <2> QED BY <1>cut, <2>1, ZenonT(60) DEF TypeOK, FileType
<1>14. ASSUME NEW r \in Requests, HookTruncateFile(r) PROVE TypeOK'
  <2> DEFINE q == [req[r] EXCEPT !.pc = "undosize"]
  <2>1. req[r] \in Request /\ req[r].s \in Sessions /\ req[r].pc # "idle"
    BY <1>14 DEF HookTruncateFile, TypeOK, RequestsOK
  <2>2. q \in Request /\ q.s \in Sessions
    BY <2>1 DEF Request
  <2>3. req' = [req EXCEPT ![r] = q] \/ req' = [req EXCEPT ![r] = Return(r)]
    BY <1>14, <2>1 DEF HookTruncateFile, TypeOK, RequestsOK
  <2>4. RequestsOK'
    BY <1>back, <2>1, <2>2, <2>3, OneRequestChanges DEF TypeOK
  <2>5. phys' = phys \/
        phys' = [phys EXCEPT ![req[r].s].data =
                    TruncateTo(phys[req[r].s].data, AppendStart(req[r].idx))]
    BY <1>14, <2>1 DEF HookTruncateFile, TypeOK
  <2>6. phys' \in [Sessions -> FileType]
    BY <1>idx, <1>cut, <2>1, <2>5
  <2> QED BY <1>14, <2>4, <2>6 DEF HookTruncateFile, TypeOK
<1>15. ASSUME NEW r \in Requests, HookChunkUploadFailed(r) PROVE TypeOK'
  <2>1. RequestsOK'
    BY <1>15, <1>back DEF HookChunkUploadFailed
  <2>2. req[r].s \in Sessions /\ req[r].size \in Nat
    BY <1>15 DEF HookChunkUploadFailed, TypeOK, RequestsOK, Request
  <2>3. storage' \in Int /\ lost' \in Int /\ row' \in [Sessions -> RowType]
    BY <1>15, <1>idx, <1>size, <2>2 DEF HookChunkUploadFailed, TypeOK
  <2> QED BY <1>15, <2>1, <2>3 DEF HookChunkUploadFailed, TypeOK
<1>16. ASSUME NEW r \in Requests, ClientGone(r) PROVE TypeOK'
  <2> DEFINE q == [req[r] EXCEPT !.gone = TRUE]
  <2>1. q \in Request /\ q.s \in Sessions
    BY <1>16, ZenonT(60) DEF ClientGone, TypeOK, RequestsOK, Request
  <2>2. RequestsOK'
    BY <1>16, <2>1, OneRequestChanges DEF ClientGone, TypeOK
  <2> QED BY <1>16, <2>2 DEF ClientGone, TypeOK
<1>17. ASSUME NEW r \in Requests, CancelUploadDecide(r) PROVE TypeOK'
  <2> DEFINE q == [req[r] EXCEPT !.cancel = "truncate"]
  <2>1. q \in Request /\ q.s \in Sessions
    BY <1>17 DEF CancelUploadDecide, TypeOK, RequestsOK, Request
  <2>2. RequestsOK'
    BY <1>17, <2>1, OneRequestChanges DEF CancelUploadDecide, TypeOK
  <2> QED BY <1>17, <2>2 DEF CancelUploadDecide, TypeOK
<1>18. ASSUME NEW r \in Requests, CancelUploadTruncate(r) PROVE TypeOK'
  <2> DEFINE q == [req[r] EXCEPT !.cancel = "off"]
  <2>1. req[r].s \in Sessions
    BY <1>18 DEF CancelUploadTruncate, TypeOK, RequestsOK
  <2>2. q \in Request /\ q.s \in Sessions
    BY <2>1 DEF TypeOK, RequestsOK, Request
  <2>3. RequestsOK'
    BY <1>18, <2>2, OneRequestChanges DEF CancelUploadTruncate, TypeOK
  <2>4. phys' = phys \/
        phys' = [phys EXCEPT ![req[r].s].data =
                    TruncateTo(phys[req[r].s].data, AppendStart(req[r].idx))]
    BY <1>18 DEF CancelUploadTruncate
  <2>5. phys' \in [Sessions -> FileType]
    BY <1>idx, <1>cut, <2>1, <2>4
  <2> QED BY <1>18, <2>3, <2>5 DEF CancelUploadTruncate, TypeOK
<1>19. ASSUME NEW d \in Deleters, NEW T \in SUBSET Sessions, RequestDelete(d, T) PROVE TypeOK'
  <2>1. [IdleDeleter EXCEPT !.pc = "list", !.targets = T] \in Deleter
    BY DEF IdleDeleter, Deleter
  <2>2. del' \in [Deleters -> Deleter]
    BY <1>19, <1>del, <2>1 DEF RequestDelete
  <2> QED BY <1>19, <2>2 DEF RequestDelete, TypeOK, RequestsOK
<1>20. ASSUME NEW d \in Deleters, CollectList(d) PROVE TypeOK'
  <2>1. [IdleDeleter EXCEPT !.pc = "check", !.cron = TRUE, !.todo = Placeholders] \in Deleter
    BY DEF IdleDeleter, Deleter, Placeholders
  <2>2. del' \in [Deleters -> Deleter]
    BY <1>20, <1>del, <2>1 DEF CollectList
  <2> QED BY <1>20, <2>2 DEF CollectList, TypeOK, RequestsOK
<1>21. ASSUME NEW d \in Deleters, NEW s \in Sessions, CollectCheck(d, s) PROVE TypeOK'
  <2> DEFINE Q(T) == [del[d] EXCEPT !.todo = @ \ {s}, !.targets = T]
  <2>a. \A T \in SUBSET Sessions : Q(T) \in Deleter
    BY DEF TypeOK, Deleter
  <2>b. del[d].targets \in SUBSET Sessions /\ del[d].targets \cup {s} \in SUBSET Sessions
    BY DEF TypeOK, Deleter
  <2>c. \E T \in SUBSET Sessions : del' = [del EXCEPT ![d] = Q(T)]
    BY <1>21, <2>b DEF CollectCheck, TypeOK
  <2>1. del' \in [Deleters -> Deleter]
    BY <1>del, <2>a, <2>c
  <2> QED BY <1>21, <2>1 DEF CollectCheck, TypeOK, RequestsOK
<1>22. ASSUME NEW d \in Deleters, CollectDelete(d) PROVE TypeOK'
  <2>1. [del[d] EXCEPT !.pc = "list"] \in Deleter
    BY <1>del1 DEF Deleter
  <2>2. \/ del' = [del EXCEPT ![d] = IdleDeleter]
        \/ del' = [del EXCEPT ![d] = [del[d] EXCEPT !.pc = "list"]]
    BY <1>22 DEF CollectDelete, TypeOK
  <2>3. del' \in [Deleters -> Deleter]
    BY <1>del, <2>1, <2>2, IdleTypes
  <2> QED BY <1>22, <2>3 DEF CollectDelete, TypeOK, RequestsOK
<1>rec. RecordedSize(row) \in [Sessions -> Nat]
  BY DEF RecordedSize, TypeOK, RowType
<1>23. ASSUME NEW d \in Deleters, ListDeleteFiles(d) PROVE TypeOK'
  <2> DEFINE T == {s \in del[d].targets : row[s].exists}
             q == [del[d] EXCEPT !.pc = "cancel", !.targets = T, !.size = RecordedSize(row),
                                 !.pend = {s \in T : row[s].pending}]
  <2>a. q \in Deleter
    BY <1>rec, ZenonT(60) DEF TypeOK, Deleter
  <2>b. del' = [del EXCEPT ![d] = q]
    BY <1>23 DEF ListDeleteFiles, TypeOK
  <2>1. del' \in [Deleters -> Deleter]
    BY <1>del, <2>a, <2>b
  <2> QED BY <1>23, <2>1 DEF ListDeleteFiles, TypeOK, RequestsOK
<1>24. ASSUME NEW d \in Deleters, CancelSessions(d) PROVE TypeOK'
  <2>a. [del[d] EXCEPT !.pc = "unlink"] \in Deleter
    BY <1>del1 DEF Deleter
  <2>1. del' \in [Deleters -> Deleter]
    BY <1>24, <1>del, <2>a DEF CancelSessions
  <2> QED BY <1>24, <2>1 DEF CancelSessions, TypeOK, RequestsOK
<1>25. ASSUME NEW d \in Deleters, DeletePhysical(d) PROVE TypeOK'
  <2> PICK failed \in SUBSET {s \in del[d].targets : phys[s].exists} :
            DeletePhysical(d)!2!(failed)
    BY <1>25 DEF DeletePhysical
  <2> DEFINE removed == del[d].targets \ failed
             Q(r) == [req[r] EXCEPT !.linked = @ /\ req[r].s \notin removed]
  <2>a. [del[d] EXCEPT !.pc = "rows", !.targets = removed] \in Deleter
    BY ZenonT(60) DEF TypeOK, Deleter
  <2>1. del' \in [Deleters -> Deleter]
    BY <1>del, <2>a, ZenonT(60)
  <2>2. phys' \in [Sessions -> FileType]
    BY <1>seq DEF TypeOK, FileType, NoFile
  <2>3. \A r \in Requests : Q(r) \in Request /\ Q(r).s = req[r].s /\ Q(r).pc = req[r].pc
                               /\ Q(r).cancel = req[r].cancel
    <3> SUFFICES ASSUME NEW r \in Requests
                 PROVE  Q(r) \in Request /\ Q(r).s = req[r].s /\ Q(r).pc = req[r].pc
                           /\ Q(r).cancel = req[r].cancel
      OBVIOUS
    <3>1. req[r] \in Request
      BY DEF TypeOK, RequestsOK
    <3>2. (req[r].linked /\ req[r].s \notin removed) \in BOOLEAN
      BY <3>1 DEF Request
    <3> QED BY <3>1, <3>2 DEF Request
  <2>4. req' = [r \in Requests |-> Q(r)]
    OBVIOUS
  <2> HIDE DEF Q
  <2>b. req' \in [Requests -> Request]
    BY <2>3, <2>4
  <2>c. \A r \in Requests : /\ req'[r].s = req[r].s /\ req'[r].pc = req[r].pc
                            /\ req'[r].cancel = req[r].cancel
    BY <2>3, <2>4
  <2>5. RequestsOK'
    BY <2>b, <2>c DEF TypeOK, RequestsOK
  <2>6. faults' \in Nat
    BY DEF TypeOK
  <2> QED BY <1>25, <2>1, <2>2, <2>5, <2>6 DEF DeletePhysical, TypeOK
<1>26. ASSUME NEW d \in Deleters, DeleteFiles(d) PROVE TypeOK'
  <2>1. del' \in [Deleters -> Deleter]
    BY <1>26, <1>del, IdleTypes DEF DeleteFiles
  <2>a. NoRow \in RowType
    BY <1>seq DEF RowType, NoRow
  <2>2. row' \in [Sessions -> RowType]
    BY <1>26, <2>a DEF DeleteFiles, TypeOK
  <2>b. del[d].targets \in SUBSET Sessions /\ del[d].size \in [Sessions -> Nat]
    BY DEF TypeOK, Deleter
  <2>c. IsFiniteSet(del[d].targets)
    BY <2>b, FS_Subset
  <2>3. Sum(del[d].size, del[d].targets) \in Nat
    BY <2>b, <2>c, SumIsNat
  <2>4. storage' \in Int
    BY <1>26, <2>3 DEF DeleteFiles, TypeOK
  <2> QED BY <1>26, <2>1, <2>2, <2>4 DEF DeleteFiles, TypeOK, RequestsOK
<1>27. ASSUME NEW s \in Sessions, Expire(s) PROVE TypeOK'
  BY <1>27 DEF Expire, TypeOK, RequestsOK
<1>28. ASSUME Crash PROVE TypeOK'
  <2>1. RequestsOK' /\ del' \in [Deleters -> Deleter]
    BY <1>28, IdleTypes DEF Crash, RequestsOK, IdleRequest
  <2>2. creating' \in [Sessions -> {"fresh", "validated", "inserted", "done"}]
    BY <1>28 DEF Crash
  <2> QED BY <1>28, <2>1, <2>2 DEF Crash, TypeOK
<1>29. ASSUME UNCHANGED vars PROVE TypeOK'
  BY <1>29 DEF vars, TypeOK, RequestsOK
<1>30. Placeholders \in SUBSET Sessions /\ \A s \in Sessions : {s} \in SUBSET Sessions
  BY DEF Placeholders
<1> QED
  BY <1>1, <1>2, <1>3, <1>4, <1>5, <1>6, <1>7, <1>8, <1>9, <1>10, <1>11, <1>12, <1>13,
     <1>14, <1>15, <1>16, <1>17, <1>18, <1>19, <1>20, <1>21, <1>22, <1>23, <1>24, <1>25,
     <1>26, <1>27, <1>28, <1>29, <1>30
     DEF Next, Create, Handle, Cancel, Collect, Delete

\* The types hold in every reachable state.
THEOREM TypeCorrect == Spec => []TypeOK
BY InitTypes, NextTypes, PTL DEF Spec

----------------------------------------------------------------------------
(* The ledger *)

\* The sizes that the records claim are natural numbers.
LEMMA RecordedSizeType ==
    ASSUME TypeOK PROVE RecordedSize(row) \in [Sessions -> Nat]
BY DEF RecordedSize, TypeOK, RowType

\* A step that changes neither the recorded sizes nor the two counters keeps
\* the ledger.
LEMMA LedgerFrame ==
    ASSUME StorageLedger, storage' = storage, lost' = lost,
           RecordedSize(row') = RecordedSize(row)
    PROVE  StorageLedger'
BY DEF StorageLedger

\* UpdateSize keeps the ledger, whether or not its update matched the record.
LEMMA UpdateSizeLedger ==
    ASSUME TypeOK, TypeOK', StorageLedger,
           NEW s \in Sessions, NEW read \in Nat, NEW value \in Nat,
           UpdateSize(s, read, value)
    PROVE  StorageLedger'
<1> DEFINE f == RecordedSize(row)
           g == RecordedSize(row')
<1>1. f \in [Sessions -> Nat] /\ g \in [Sessions -> Nat]
  BY DEF RecordedSize, TypeOK, RowType
<1>2. storage \in Int /\ lost \in Int /\ Sum(f, Sessions) \in Nat
  BY <1>1, SumIsNat DEF TypeOK
<1>3. CASE row[s].exists /\ row[s].size = read
  <2>1. row' = [row EXCEPT ![s].size = value] /\ lost' = lost
    BY <1>3 DEF UpdateSize
  <2>2. f[s] = read /\ g[s] = value
    BY <1>3, <2>1 DEF TypeOK, RowType, RecordedSize
  <2>3. \A t \in Sessions \ {s} : f[t] = g[t]
    BY <2>1 DEF TypeOK, RecordedSize
  <2>4. \A y \in Sessions : f[y] \in Nat /\ g[y] \in Nat
    BY <1>1
  <2> HIDE DEF f, g
  <2>5. Sum(g, Sessions) = Sum(f, Sessions) + (g[s] - f[s])
    BY <2>3, <2>4, SumUpdate
  <2>6. storage' = storage + (value - read)
    BY DEF UpdateSize
  <2> QED BY <1>2, <2>1, <2>2, <2>5, <2>6 DEF StorageLedger, f, g
<1>4. CASE ~(row[s].exists /\ row[s].size = read)
  <2>1. row' = row /\ lost' = lost + (value - read) /\ storage' = storage + (value - read)
    BY <1>4 DEF UpdateSize
  <2> QED BY <1>2, <2>1 DEF StorageLedger
<1> QED BY <1>3, <1>4

\* DeleteFiles gives back exactly the sizes of the records it removes.
LEMMA DeleteFilesLedger ==
    ASSUME TypeOK, StorageLedger, NEW d \in Deleters, DeleteFiles(d)
    PROVE  StorageLedger'
<1> DEFINE T == del[d].targets
           f == RecordedSize(row)
           g == RecordedSize(row')
<1>0. lost' = lost
  BY DEF DeleteFiles
<1>1. CASE UNCHANGED <<row, storage>>
  BY <1>0, <1>1, LedgerFrame
<1>2. CASE ~UNCHANGED <<row, storage>>
  <2>1. /\ row' = [s \in Sessions |-> IF s \in T THEN NoRow ELSE row[s]]
        /\ storage' = storage - Sum(del[d].size, T) /\ lost' = lost
        /\ \A s \in T : row[s].exists /\ row[s].size = del[d].size[s]
    BY <1>2 DEF DeleteFiles
  <2>2. T \subseteq Sessions
    BY DEF TypeOK, Deleter
  <2>3. f \in [Sessions -> Nat]
    BY RecordedSizeType
  <2>4. \A s \in T : g[s] = 0 /\ f[s] = del[d].size[s]
    BY <2>1, <2>2 DEF RecordedSize, NoRow
  <2>5. \A s \in Sessions \ T : g[s] = f[s]
    BY <2>1 DEF RecordedSize
  <2>6. IsFiniteSet(T) /\ IsFiniteSet(Sessions \ T)
    BY <2>2, FS_Subset
  <2>7. T \cup (Sessions \ T) = Sessions /\ T \cap (Sessions \ T) = {}
    BY <2>2
  <2> HIDE DEF f, g, T
  <2>8. Sum(f, Sessions) = Sum(f, T) + Sum(f, Sessions \ T)
    <3>1. \A x \in T \cup (Sessions \ T) : f[x] \in Nat
      BY <2>3, <2>7
    <3>2. Sum(f, T \cup (Sessions \ T)) = Sum(f, T) + Sum(f, Sessions \ T)
      BY <2>6, <2>7, <3>1, SumSplit
    <3> QED BY <2>7, <3>2
  <2>9. Sum(g, Sessions) = Sum(g, T) + Sum(g, Sessions \ T)
    <3>1. \A x \in T \cup (Sessions \ T) : g[x] \in Nat
      BY <2>3, <2>4, <2>5, <2>7
    <3>2. Sum(g, T \cup (Sessions \ T)) = Sum(g, T) + Sum(g, Sessions \ T)
      BY <2>6, <2>7, <3>1, SumSplit
    <3> QED BY <2>7, <3>2
  <2>10. Sum(g, T) = 0
    BY <2>4, SumZero
  <2>11. Sum(g, Sessions \ T) = Sum(f, Sessions \ T)
    BY <2>5, SumAgree
  <2>12. Sum(del[d].size, T) = Sum(f, T)
    BY <2>4, SumAgree
  <2>13. Sum(f, T) \in Nat /\ Sum(f, Sessions \ T) \in Nat
    BY <2>2, <2>3, <2>6, SumIsNat
  <2>14. storage \in Int /\ lost \in Int
    BY DEF TypeOK
  <2>15. storage = Sum(f, Sessions) + lost
    BY DEF StorageLedger, f
  <2>16. storage' = Sum(g, Sessions) + lost'
    BY <2>1, <2>8, <2>9, <2>10, <2>11, <2>12, <2>13, <2>14, <2>15 DEF T
  <2> QED BY <2>16 DEF StorageLedger, g
<1> QED BY <1>1, <1>2

\* The ledger holds at the start: nothing is recorded and nothing is charged.
LEMMA InitLedger == Init => StorageLedger
<1> SUFFICES ASSUME Init PROVE StorageLedger
  OBVIOUS
<1>1. \A s \in Sessions : RecordedSize(row)[s] = 0
  BY DEF Init, RecordedSize, NoRow
<1>2. Sum(RecordedSize(row), Sessions) = 0
  BY <1>1, SumZero
<1> QED BY <1>2 DEF Init, StorageLedger

\* Every step keeps the ledger: the steps of CreateUploadSession, of a chunk
\* request and of FileSystem.Delete that write the database, and all others.
LEMMA NextLedger == TypeOK /\ TypeOK' /\ StorageLedger /\ [Next]_vars => StorageLedger'
<1> SUFFICES ASSUME TypeOK, TypeOK', StorageLedger, [Next]_vars PROVE StorageLedger'
  OBVIOUS
<1> USE DEF db, env
<1>1. ASSUME NEW s \in Sessions, CreatePlaceholder(s) PROVE StorageLedger'
  <2>1. storage' = storage /\ lost' = lost
    BY <1>1 DEF CreatePlaceholder
  <2>2. row' = row \/ (~row[s].exists /\ \E q : q.size = 0 /\ row' = [row EXCEPT ![s] = q])
    BY <1>1 DEF CreatePlaceholder
  <2>3. RecordedSize(row') = RecordedSize(row)
    <3>1. CASE row' = row
      BY <3>1
    <3>2. CASE ~row[s].exists /\ \E q : q.size = 0 /\ row' = [row EXCEPT ![s] = q]
      <4>1. row'[s].size = 0 /\ \A t \in Sessions \ {s} : row'[t] = row[t]
        BY <3>2 DEF TypeOK
      <4> QED BY <3>2, <4>1 DEF RecordedSize
    <3> QED BY <2>2, <3>1, <3>2
  <2> QED BY <2>1, <2>3, LedgerFrame
<1>2. ASSUME NEW r \in Requests, UpdateMD5(r) PROVE StorageLedger'
  <2>1. req[r].s \in Sessions
    BY <1>2 DEF UpdateMD5, TypeOK, RequestsOK
  <2>b. row' = row \/ row' = [row EXCEPT ![req[r].s] = [row[req[r].s] EXCEPT !.md5 = phys[req[r].s].data]]
    BY <1>2, <2>1 DEF UpdateMD5, TypeOK
  <2>c. \A q \in RowType : \A v : 
        /\ [q EXCEPT !.md5 = v].exists <=> q.exists
        /\ [q EXCEPT !.md5 = v].size = q.size
    BY DEF RowType
  <2>a. \A t \in Sessions : (row'[t].exists <=> row[t].exists) /\ row'[t].size = row[t].size
    <3> SUFFICES ASSUME NEW t \in Sessions
                 PROVE  (row'[t].exists <=> row[t].exists) /\ row'[t].size = row[t].size
      OBVIOUS
    <3>1. row[t] \in RowType
      BY DEF TypeOK
    <3>2. row'[t] = row[t] \/ row'[t] = [row[t] EXCEPT !.md5 = phys[req[r].s].data]
      BY <2>1, <2>b DEF TypeOK
    <3>3. CASE row'[t] = row[t]
      BY <3>3
    <3>4. CASE row'[t] = [row[t] EXCEPT !.md5 = phys[req[r].s].data]
      BY <2>c, <3>1, <3>4
    <3> QED BY <3>2, <3>3, <3>4
  <2>2. RecordedSize(row') = RecordedSize(row)
    BY <2>a DEF RecordedSize
  <2> QED BY <1>2, <2>2, LedgerFrame DEF UpdateMD5
<1>3. ASSUME NEW r \in Requests, HookPopPlaceholderToFile(r) PROVE StorageLedger'
  <2>1. req[r].s \in Sessions
    BY <1>3 DEF HookPopPlaceholderToFile, TypeOK, RequestsOK
  <2>b. row' = row \/ row' = [row EXCEPT ![req[r].s] = [row[req[r].s] EXCEPT !.pending = FALSE]]
    BY <1>3, <2>1 DEF HookPopPlaceholderToFile, TypeOK
  <2>c. \A q \in RowType : \A v : 
        /\ [q EXCEPT !.pending = v].exists <=> q.exists
        /\ [q EXCEPT !.pending = v].size = q.size
    BY DEF RowType
  <2>a. \A t \in Sessions : (row'[t].exists <=> row[t].exists) /\ row'[t].size = row[t].size
    <3> SUFFICES ASSUME NEW t \in Sessions
                 PROVE  (row'[t].exists <=> row[t].exists) /\ row'[t].size = row[t].size
      OBVIOUS
    <3>1. row[t] \in RowType
      BY DEF TypeOK
    <3>2. row'[t] = row[t] \/ row'[t] = [row[t] EXCEPT !.pending = FALSE]
      BY <2>1, <2>b DEF TypeOK
    <3>3. CASE row'[t] = row[t]
      BY <3>3
    <3>4. CASE row'[t] = [row[t] EXCEPT !.pending = FALSE]
      BY <2>c, <3>1, <3>4
    <3> QED BY <3>2, <3>3, <3>4
  <2>2. RecordedSize(row') = RecordedSize(row)
    BY <2>a DEF RecordedSize
  <2> QED BY <1>3, <2>2, LedgerFrame DEF HookPopPlaceholderToFile
<1>4. ASSUME NEW r \in Requests, HookChunkUploaded(r) PROVE StorageLedger'
  <2>1. req[r].s \in Sessions /\ req[r].size \in Nat /\ req[r].idx \in Nat
    BY <1>4 DEF HookChunkUploaded, TypeOK, RequestsOK, Request
  <2>2. AppendStart(req[r].idx) + ChunkLength(req[r].s, req[r].idx) \in Nat
    BY <2>1, ChunkEndIsNat
  <2>3. CASE UNCHANGED db
    BY <2>3, LedgerFrame
  <2>4. CASE UpdateSize(req[r].s, req[r].size,
                        AppendStart(req[r].idx) + ChunkLength(req[r].s, req[r].idx))
    BY <2>1, <2>2, <2>4, UpdateSizeLedger
  <2> QED BY <1>4, <2>3, <2>4 DEF HookChunkUploaded
<1>5. ASSUME NEW r \in Requests, HookChunkUploadFailed(r) PROVE StorageLedger'
  <2>1. req[r].s \in Sessions /\ req[r].size \in Nat /\ req[r].idx \in Nat
    BY <1>5 DEF HookChunkUploadFailed, TypeOK, RequestsOK, Request
  <2>2. AppendStart(req[r].idx) \in Nat
    BY <2>1, AppendStartIsNat
  <2>3. CASE UNCHANGED db
    BY <2>3, LedgerFrame
  <2>4. CASE UpdateSize(req[r].s, req[r].size, AppendStart(req[r].idx))
    BY <2>1, <2>2, <2>4, UpdateSizeLedger
  <2> QED BY <1>5, <2>3, <2>4 DEF HookChunkUploadFailed
<1>6. ASSUME NEW d \in Deleters, DeleteFiles(d) PROVE StorageLedger'
  BY <1>6, DeleteFilesLedger
<1>7. ASSUME UNCHANGED db PROVE StorageLedger'
  BY <1>7, LedgerFrame
<1>8. ASSUME NEW s \in Sessions, CreateValidate(s) \/ CreateSession(s) \/ Expire(s)
      PROVE  UNCHANGED db
  BY <1>8 DEF CreateValidate, CreateSession, Expire
<1>9. ASSUME NEW r \in Requests, Handle(r) \/ Cancel(r)
      PROVE  \/ UNCHANGED db \/ UpdateMD5(r) \/ HookPopPlaceholderToFile(r)
             \/ HookChunkUploaded(r) \/ HookChunkUploadFailed(r)
  BY <1>9 DEF Handle, Cancel, LookupPlaceholder, PutCheckExists, PutOpen, PutWrite, PutBroken,
              HookDeleteUploadSession, HookTruncateFile, ClientGone, CancelUploadDecide,
              CancelUploadTruncate
<1>10. ASSUME NEW d \in Deleters, Collect(d) \/ Delete(d)
       PROVE  UNCHANGED db \/ DeleteFiles(d)
  BY <1>10 DEF Collect, CollectList, CollectCheck, CollectDelete, Delete, ListDeleteFiles,
               CancelSessions, DeletePhysical
<1>11. ASSUME NEW d \in Deleters, NEW T, RequestDelete(d, T) PROVE UNCHANGED db
  BY <1>11 DEF RequestDelete
<1>12. ASSUME NEW r \in Requests, NEW s \in Sessions, NEW i \in 0 .. MaxIndex,
              ReceiveChunk(r, s, i)
       PROVE  UNCHANGED db
  BY <1>12 DEF ReceiveChunk
<1>13. ASSUME Crash \/ UNCHANGED vars PROVE UNCHANGED db
  BY <1>13 DEF Crash, vars
<1> QED
  BY <1>1, <1>2, <1>3, <1>4, <1>5, <1>6, <1>7, <1>8, <1>9, <1>10, <1>11, <1>12, <1>13
     DEF Next, Create

\* In every reachable state the storage charged to the user is the sum of the
\* recorded sizes plus the charges of UpdateSize calls that matched no record.
THEOREM LedgerCorrect == Spec => []StorageLedger
<1>1. Init => TypeOK /\ StorageLedger
  BY InitTypes, InitLedger
<1>2. TypeOK /\ StorageLedger /\ [Next]_vars => TypeOK' /\ StorageLedger'
  BY NextTypes, NextLedger
<1> QED BY <1>1, <1>2, PTL DEF Spec

----------------------------------------------------------------------------
(* One chunk request per session, and no delete that overlaps it *)

\* A handler is running.
Busy(r) == req[r].pc # "idle"

\* The environment of the run on failures: one chunk request per session at a
\* time, none while the session is being deleted.
OneAtATime == MaxPerSession = 1 /\ ~DeleteWhileUploading

\* A running request is the only one of its session, the session is not being
\* deleted, and its CreateUploadSession has returned.
Exclusive ==
    /\ \A r, t \in Requests : Busy(r) /\ Busy(t) /\ req[r].s = req[t].s => r = t
    /\ \A r \in Requests : Busy(r) => ~Deleting(req[r].s) /\ creating[req[r].s] = "done"
    /\ \A s \in cache : creating[s] = "done"

\* The states of a request that has found its placeholder, and of one that
\* has not yet written its size.
Holding == {"exists", "open", "write", "sized", "pop", "undo", "undosize"}
Unsized == {"exists", "open", "write", "sized"}

\* What a request q knows of the record w of its session.
RowOK(q, w, fl) ==
    /\ q.pc \in Holding => w.exists /\ w.pending
    /\ q.pc \in Unsized => w.size = q.size
    /\ q.pc \in {"undo", "undosize"} => fl > 0

\* The inductive invariant of StorageExact: the record that a request looked up
\* is still there, with the size it read, so every UpdateSize matches it.
RowsHeld ==
    /\ Exclusive
    /\ \A r \in Requests : RowOK(req[r], row[req[r].s], faults)
    /\ faults = 0 => lost = 0

\* The steps of one request change its own record, file and slot only.
LEMMA RequestStep ==
    ASSUME TypeOK, NEW r \in Requests, Handle(r) \/ Cancel(r)
    PROVE  /\ req'[r].s = req[r].s /\ req'[r].idx = req[r].idx
           /\ req'[r].pc # "idle" => req[r].pc # "idle"
           /\ \A t \in Requests \ {r} : req'[t] = req[t]
           /\ del' = del /\ creating' = creating /\ cache' \subseteq cache
           /\ crashes' = crashes /\ faults' \in Nat /\ faults' >= faults
           /\ \A s \in Sessions \ {req[r].s} : row'[s] = row[s] /\ phys'[s] = phys[s]
<1> USE DEF db, env
<1>0. /\ req[r] \in Request /\ faults \in Nat
      /\ row = [s \in Sessions |-> row[s]] /\ phys = [s \in Sessions |-> phys[s]]
      /\ req = [t \in Requests |-> req[t]]
  BY DEF TypeOK, RequestsOK
<1>ret. Return(r).pc = "idle" /\ Return(r).s = req[r].s /\ Return(r).idx = req[r].idx
  BY <1>0 DEF Return, Request
<1>sz. ASSUME NEW read, NEW value, UpdateSize(req[r].s, read, value)
       PROVE  \A s \in Sessions \ {req[r].s} : row'[s] = row[s]
  BY <1>0, <1>sz DEF UpdateSize
<1>1. CASE LookupPlaceholder(r)
  BY <1>0, <1>1, <1>ret DEF LookupPlaceholder, Request
<1>2. CASE PutCheckExists(r)
  BY <1>0, <1>2, <1>ret DEF PutCheckExists, Request
<1>3. CASE PutOpen(r)
  BY <1>0, <1>3, <1>ret DEF PutOpen, Request
<1>4. CASE PutWrite(r)
  <2>1. \A s \in Sessions \ {req[r].s} : phys'[s] = phys[s]
    <3>1. CASE req[r].linked
      BY <1>0, <1>4, <3>1 DEF PutWrite
    <3>2. CASE ~req[r].linked
      BY <1>4, <3>2 DEF PutWrite
    <3> QED BY <3>1, <3>2
  <2>2. req' = [req EXCEPT ![r].written = @ + 1]
        /\ UNCHANGED <<db, cache, creating, del, env>>
    BY <1>4 DEF PutWrite
  <2>3. req[r].pc = "write"
    BY <1>4 DEF PutWrite
  <2> QED BY <1>0, <2>1, <2>2, <2>3 DEF Request
<1>5. CASE PutBroken(r)
  BY <1>0, <1>5, <1>ret DEF PutBroken, Request
<1>6. CASE UpdateMD5(r)
  BY <1>0, <1>6, <1>ret DEF UpdateMD5, Request
<1>7. CASE HookChunkUploaded(r)
  <2>1. \A s \in Sessions \ {req[r].s} : row'[s] = row[s]
    BY <1>7, <1>sz DEF HookChunkUploaded
  <2>2. /\ req'[r].s = req[r].s /\ req'[r].idx = req[r].idx
        /\ \A t \in Requests \ {r} : req'[t] = req[t]
    <3> DEFINE value == AppendStart(req[r].idx) + ChunkLength(req[r].s, req[r].idx)
               Q(pc, sz) == [req[r] EXCEPT !.pc = pc, !.size = sz]
    <3>1. \/ req' = [req EXCEPT ![r] = Q("pop", value)] \/ req' = [req EXCEPT ![r] = Return(r)]
          \/ \E memory \in {req[r].size, value} : req' = [req EXCEPT ![r] = Q("undo", memory)]
      BY <1>7 DEF HookChunkUploaded
    <3>2. \A pc, sz : Q(pc, sz).s = req[r].s /\ Q(pc, sz).idx = req[r].idx
      BY <1>0 DEF Request
    <3> HIDE DEF value, Q
    <3>3. \E q : req' = [req EXCEPT ![r] = q] /\ q.s = req[r].s /\ q.idx = req[r].idx
      BY <1>ret, <3>1, <3>2
    <3> QED BY <1>0, <3>3
  <2>3. req[r].pc # "idle" /\ faults' \in Nat /\ faults' >= faults
        /\ UNCHANGED <<phys, cache, creating, del, crashes>>
    BY <1>0, <1>7 DEF HookChunkUploaded
  <2> QED BY <2>1, <2>2, <2>3
<1>8. CASE HookPopPlaceholderToFile(r)
  BY <1>0, <1>8, <1>ret DEF HookPopPlaceholderToFile, Request
<1>9. CASE HookDeleteUploadSession(r)
  BY <1>0, <1>9, <1>ret DEF HookDeleteUploadSession, Request
<1>10. CASE HookTruncateFile(r)
  BY <1>0, <1>10, <1>ret DEF HookTruncateFile, Request
<1>11. CASE HookChunkUploadFailed(r)
  <2>1. \A s \in Sessions \ {req[r].s} : row'[s] = row[s]
    BY <1>11, <1>sz DEF HookChunkUploadFailed
  <2> QED BY <1>0, <1>11, <1>ret, <2>1 DEF HookChunkUploadFailed, Request
<1>12. CASE ClientGone(r)
  BY <1>0, <1>12 DEF ClientGone, Request
<1>13. CASE CancelUploadDecide(r)
  BY <1>0, <1>13 DEF CancelUploadDecide, Request
<1>14. CASE CancelUploadTruncate(r)
  BY <1>0, <1>14 DEF CancelUploadTruncate, Request
<1> QED
  BY <1>1, <1>2, <1>3, <1>4, <1>5, <1>6, <1>7, <1>8, <1>9, <1>10, <1>11, <1>12, <1>13, <1>14
     DEF Handle, Cancel

\* What the steps of one request do to its own record.
LEMMA RequestRow ==
    ASSUME TypeOK, NEW r \in Requests, Handle(r) \/ Cancel(r),
           RowOK(req[r], row[req[r].s], faults)
    PROVE  /\ RowOK(req'[r], row'[req[r].s], faults')
           /\ (faults = 0 => lost = 0) => (faults' = 0 => lost' = 0)
<1> USE DEF db, env
<1> DEFINE s == req[r].s
<1>0. /\ req[r] \in Request /\ faults \in Nat
      /\ row = [t \in Sessions |-> row[t]] /\ req = [t \in Requests |-> req[t]]
  BY DEF TypeOK, RequestsOK
<1>s. ASSUME req[r].pc # "idle" PROVE s \in Sessions /\ row[s] \in RowType
  BY <1>s DEF TypeOK, RequestsOK
<1>ret. Return(r).pc = "idle"
  BY <1>0 DEF Return, Request
<1>idle. ASSUME req'[r].pc \in {"idle", "forget", "lookup"} PROVE RowOK(req'[r], row'[s], faults')
  BY <1>idle DEF RowOK, Holding, Unsized
<1>1. CASE LookupPlaceholder(r)
  <2>1. s \in Placeholders =>  row[s].exists /\ row[s].pending
    BY DEF Placeholders
  <2>2. CASE req'[r] = Return(r)
    BY <1>1, <1>idle, <1>ret, <2>2 DEF LookupPlaceholder
  <2>3. CASE req'[r] # Return(r)
    <3>1. req'[r] = [req[r] EXCEPT !.pc = "exists", !.size = row[s].size, !.cancel = "armed"]
          /\ s \in Placeholders
      BY <1>0, <1>1, <2>3 DEF LookupPlaceholder
    <3>2. req'[r].pc = "exists" /\ req'[r].size = row[s].size
      BY <1>0, <3>1 DEF Request
    <3> QED BY <1>1, <2>1, <3>1, <3>2 DEF LookupPlaceholder, RowOK, Holding, Unsized
  <2> QED BY <1>1, <2>2, <2>3 DEF LookupPlaceholder
<1>2. CASE PutCheckExists(r) \/ PutOpen(r) \/ PutWrite(r) \/ PutBroken(r)
           \/ ClientGone(r) \/ CancelUploadDecide(r) \/ CancelUploadTruncate(r)
  <2>1. row' = row /\ lost' = lost /\ faults' = faults
    BY <1>2 DEF PutCheckExists, PutOpen, PutWrite, PutBroken, ClientGone, CancelUploadDecide,
                CancelUploadTruncate
  <2>2. req'[r].pc = "idle" \/ (req'[r].size = req[r].size /\
           (req'[r].pc = req[r].pc \/ (req[r].pc \in Unsized /\ req'[r].pc \in Unsized)))
    BY <1>0, <1>2, <1>ret
       DEF PutCheckExists, PutOpen, PutWrite, PutBroken, ClientGone, CancelUploadDecide,
           CancelUploadTruncate, Request, Unsized
  <2> QED BY <2>1, <2>2 DEF RowOK, Holding, Unsized
<1>3. CASE UpdateMD5(r)
  <2>1. s \in Sessions /\ row[s] \in RowType
    BY <1>3, <1>s DEF UpdateMD5
  <2>2. /\ row'[s].exists = row[s].exists /\ row'[s].pending = row[s].pending
        /\ row'[s].size = row[s].size
    <3>1. row' = row \/ row' = [row EXCEPT ![s].md5 = phys[s].data]
      BY <1>3 DEF UpdateMD5
    <3>2. CASE row' = row
      BY <3>2
    <3>3. CASE row' = [row EXCEPT ![s].md5 = phys[s].data]
      BY <1>0, <2>1, <3>3 DEF RowType
    <3> QED BY <3>1, <3>2, <3>3
  <2>3. req'[r].pc = "sized" /\ req'[r].size = req[r].size /\ lost' = lost
    BY <1>0, <1>3 DEF UpdateMD5, Request
  <2> QED BY <1>0, <1>3, <2>2, <2>3 DEF UpdateMD5, RowOK, Holding, Unsized
<1>4. CASE HookChunkUploaded(r)
  <2> DEFINE value == AppendStart(req[r].idx) + ChunkLength(s, req[r].idx)
  <2>1. s \in Sessions /\ row[s] \in RowType /\ row[s].exists /\ row[s].pending
        /\ row[s].size = req[r].size
    BY <1>4, <1>s DEF HookChunkUploaded, RowOK, Holding, Unsized
  <2>2. CASE UpdateSize(s, req[r].size, value) /\ faults' = faults
    <3>1. row' = [row EXCEPT ![s].size = value] /\ lost' = lost
      BY <2>1, <2>2 DEF UpdateSize
    <3>2. row'[s].exists /\ row'[s].pending
      BY <1>0, <2>1, <3>1 DEF RowType
    <3>3. req'[r].pc \in {"pop", "idle"}
      <4>1. \/ req'[r] = [req[r] EXCEPT !.pc = "pop", !.size = value]
            \/ req'[r] = Return(r) \/ faults' = faults + 1
        BY <1>0, <1>4 DEF HookChunkUploaded
      <4>2. faults' # faults + 1
        BY <1>0, <2>2
      <4>3. [req[r] EXCEPT !.pc = "pop", !.size = value].pc = "pop"
        BY <1>0 DEF Request
      <4> QED BY <1>ret, <4>1, <4>2, <4>3
    <3> QED BY <2>2, <3>1, <3>2, <3>3 DEF RowOK, Holding, Unsized
  <2>3. CASE UNCHANGED db /\ faults' = faults + 1 /\ req'[r].pc = "undo"
    BY <1>0, <2>1, <2>3 DEF RowOK, Holding, Unsized
  <2> QED BY <1>0, <1>4, <2>2, <2>3 DEF HookChunkUploaded, Request
<1>5. CASE HookPopPlaceholderToFile(r)
  <2>1. row[s].exists /\ row[s].pending
    BY <1>5 DEF HookPopPlaceholderToFile, RowOK, Holding
  <2>2. CASE req'[r].pc = "forget" /\ faults' = faults
    BY <1>5, <1>idle, <2>2 DEF HookPopPlaceholderToFile
  <2>3. CASE req'[r].pc = "undo" /\ faults' = faults + 1 /\ row' = row
    BY <1>0, <1>5, <2>1, <2>3 DEF HookPopPlaceholderToFile, RowOK, Holding, Unsized
  <2> QED BY <1>0, <1>5, <2>2, <2>3 DEF HookPopPlaceholderToFile, Request
<1>6. CASE HookDeleteUploadSession(r)
  BY <1>0, <1>6, <1>idle, <1>ret DEF HookDeleteUploadSession
<1>7. CASE HookTruncateFile(r)
  <2>1. req'[r].pc = "undosize" \/ req'[r].pc = "idle"
    BY <1>0, <1>7, <1>ret DEF HookTruncateFile, Request
  <2> QED BY <1>7, <2>1 DEF HookTruncateFile, RowOK, Holding, Unsized
<1>8. CASE HookChunkUploadFailed(r)
  <2>1. faults' > 0
    BY <1>0, <1>8 DEF HookChunkUploadFailed, RowOK
  <2> QED BY <1>0, <1>8, <1>idle, <1>ret, <2>1 DEF HookChunkUploadFailed
<1> QED BY <1>1, <1>2, <1>3, <1>4, <1>5, <1>6, <1>7, <1>8 DEF Handle, Cancel

\* An action of a request keeps what every request knows.
LEMMA RequestRowsHeld ==
    ASSUME TypeOK, RowsHeld, NEW r \in Requests, Handle(r) \/ Cancel(r)
    PROVE  RowsHeld'
<1>1. Exclusive'
  <2>1. \A t \in Requests : Busy(t)' => Busy(t) /\ req'[t].s = req[t].s
    BY RequestStep DEF Busy
  <2>2. UNCHANGED <<del, creating>> /\ cache' \subseteq cache
    BY RequestStep
  <2> QED BY <2>1, <2>2 DEF RowsHeld, Exclusive, Deleting
<1>2. RowOK(req'[r], row'[req'[r].s], faults') /\ (faults' = 0 => lost' = 0)
  BY RequestStep, RequestRow DEF RowsHeld
<1>3. ASSUME NEW t \in Requests \ {r} PROVE RowOK(req'[t], row'[req'[t].s], faults')
  <2>1. req'[t] = req[t] /\ faults' >= faults /\ faults \in Nat /\ faults' \in Nat
    BY RequestStep DEF TypeOK
  <2>2. CASE ~Busy(t)
    BY <2>1, <2>2 DEF Busy, RowOK, Holding, Unsized
  <2>3. CASE Busy(t) /\ Busy(r)
    <3>1. req[t].s # req[r].s /\ req[t].s \in Sessions
      BY <2>3 DEF RowsHeld, Exclusive, Busy, TypeOK, RequestsOK
    <3>2. row'[req[t].s] = row[req[t].s]
      BY <3>1, RequestStep
    <3>3. RowOK(req[t], row[req[t].s], faults)
      BY DEF RowsHeld
    <3> QED BY <2>1, <3>2, <3>3 DEF RowOK
  <2>4. CASE Busy(t) /\ ~Busy(r)
    <3>1. row' = row
      BY <2>4 DEF Busy, Handle, Cancel, LookupPlaceholder, PutCheckExists, PutOpen, PutWrite, PutBroken,
         UpdateMD5, HookChunkUploaded, HookPopPlaceholderToFile, HookDeleteUploadSession,
         HookTruncateFile, HookChunkUploadFailed, ClientGone, CancelUploadDecide,
         CancelUploadTruncate, db
    <3>3. RowOK(req[t], row[req[t].s], faults)
      BY DEF RowsHeld
    <3> QED BY <2>1, <3>1, <3>3 DEF RowOK
  <2> QED BY <2>2, <2>3, <2>4
<1> QED BY <1>1, <1>2, <1>3 DEF RowsHeld

\* CreateUploadSession, the TTL and the restart keep what requests know.
LEMMA SessionRowsHeld ==
    ASSUME TypeOK, RowsHeld,
           Create \/ (\E s \in Sessions : Expire(s)) \/ Crash \/ UNCHANGED vars
    PROVE  RowsHeld'
<1> USE DEF db, env
<1>0. /\ req \in [Requests -> Request] /\ row = [s \in Sessions |-> row[s]]
      /\ creating = [s \in Sessions |-> creating[s]] /\ faults \in Nat
      /\ \A r \in Requests : Busy(r) => req[r].s \in Sessions
  BY DEF TypeOK, RequestsOK, Busy
<1>new. ASSUME NEW s \in Sessions, creating[s] # "done", req' = req, del' = del,
               \A t \in Sessions \ {s} : creating'[t] = creating[t] /\ row'[t] = row[t],
               \A t \in cache' : t \in cache \/ (t = s /\ creating'[s] = "done"),
               cache \subseteq Sessions, lost' = lost, faults' \in {faults, faults + 1}
        PROVE  RowsHeld'
  <2>1. \A r \in Requests : Busy(r) => req[r].s # s
    BY <1>new DEF RowsHeld, Exclusive
  <2>2. Exclusive'
    <3>1. \A t \in cache' : creating'[t] = "done"
      BY <1>new DEF RowsHeld, Exclusive
    <3> QED BY <1>0, <1>new, <2>1, <3>1 DEF RowsHeld, Exclusive, Busy, Deleting
  <2>3. ASSUME NEW r \in Requests PROVE RowOK(req[r], row'[req[r].s], faults')
    <3>1. RowOK(req[r], row[req[r].s], faults)
      BY DEF RowsHeld
    <3>2. CASE Busy(r)
      <4>1. row'[req[r].s] = row[req[r].s]
        BY <1>0, <1>new, <2>1, <3>2
      <4> QED BY <1>0, <1>new, <3>1, <4>1 DEF RowOK
    <3>3. CASE ~Busy(r)
      BY <3>3 DEF RowOK, Busy, Holding, Unsized
    <3> QED BY <3>2, <3>3
  <2>4. faults' = 0 => lost' = 0
    BY <1>0, <1>new DEF RowsHeld
  <2> QED BY <1>new, <2>2, <2>3, <2>4 DEF RowsHeld
<1>c. cache \subseteq Sessions
  BY DEF TypeOK
<1>1. ASSUME NEW s \in Sessions, CreateValidate(s) PROVE RowsHeld'
  BY <1>0, <1>1, <1>new, <1>c DEF CreateValidate
<1>2. ASSUME NEW s \in Sessions, CreatePlaceholder(s) PROVE RowsHeld'
  <2>1. /\ creating[s] # "done" /\ req' = req /\ del' = del /\ cache' = cache
        /\ lost' = lost /\ faults' \in {faults, faults + 1}
    BY <1>2 DEF CreatePlaceholder
  <2>2. \A t \in Sessions \ {s} : creating'[t] = creating[t] /\ row'[t] = row[t]
    BY <1>0, <1>2 DEF CreatePlaceholder
  <2> QED BY <1>new, <1>c, <2>1, <2>2
<1>3. ASSUME NEW s \in Sessions, CreateSession(s) PROVE RowsHeld'
  <2>1. /\ creating[s] # "done" /\ req' = req /\ del' = del /\ row' = row
        /\ lost' = lost /\ faults' \in {faults, faults + 1}
        /\ creating' = [creating EXCEPT ![s] = "done"] /\ cache' \subseteq cache \cup {s}
    BY <1>3 DEF CreateSession
  <2>2. creating'[s] = "done"
    BY <1>0, <2>1
  <2>3. \A t \in Sessions \ {s} : creating'[t] = creating[t] /\ row'[t] = row[t]
    BY <1>0, <2>1
  <2> QED BY <1>new, <1>c, <2>1, <2>2, <2>3
<1>4. ASSUME NEW s \in Sessions, Expire(s) PROVE RowsHeld'
  BY <1>4 DEF Expire, RowsHeld, Exclusive, Busy, Deleting
<1>5. CASE Crash
  <2>1. \A r \in Requests : req'[r].pc = "idle"
    BY <1>5 DEF Crash, IdleRequest
  <2>2. Exclusive'
    BY <1>5, <2>1 DEF Crash, Exclusive, Busy
  <2> QED BY <1>5, <2>1, <2>2 DEF Crash, RowsHeld, RowOK, Holding, Unsized
<1>6. CASE UNCHANGED vars
  BY <1>6 DEF vars, RowsHeld, Exclusive, Busy, Deleting
<1> QED BY <1>1, <1>2, <1>3, <1>4, <1>5, <1>6 DEF Create

\* A chunk request arrives only when no other of its session is running, and
\* while the session is not being deleted.
LEMMA ReceiveRowsHeld ==
    ASSUME OneAtATime, TypeOK, RowsHeld, NEW r \in Requests, NEW s \in Sessions,
           NEW i \in 0 .. MaxIndex, ReceiveChunk(r, s, i)
    PROVE  RowsHeld'
<1> USE DEF db
<1>0. req \in [Requests -> Request]
  BY DEF TypeOK, RequestsOK
<1>1. Active(s) = {}
  <2>1. IsFiniteSet(Active(s))
    BY FS_Subset DEF Active
  <2>2. Cardinality(Active(s)) \in Nat /\ Cardinality(Active(s)) < 1
    BY <2>1, FS_CardinalityType DEF ReceiveChunk, OneAtATime
  <2> QED BY <2>1, <2>2, FS_EmptySet
<1>2. /\ req'[r].pc = "lookup" /\ req'[r].s = s
      /\ \A t \in Requests \ {r} : req'[t] = req[t]
  BY <1>0 DEF ReceiveChunk, IdleRequest
<1>3. ~Deleting(s) /\ creating[s] = "done"
  BY DEF ReceiveChunk, OneAtATime, RowsHeld, Exclusive
<1>4. UNCHANGED <<row, lost, cache, creating, del, faults>>
  BY DEF ReceiveChunk
<1>5. Exclusive'
  <2>1. \A t \in Requests \ {r} : Busy(t) => req[t].s # s
    BY <1>1 DEF Active, Busy
  <2> QED BY <1>2, <1>3, <1>4, <2>1 DEF RowsHeld, Exclusive, Busy, Deleting
<1>6. ASSUME NEW t \in Requests PROVE RowOK(req'[t], row[req'[t].s], faults)
  BY <1>2 DEF RowsHeld, RowOK, Holding, Unsized
<1> QED BY <1>4, <1>5, <1>6 DEF RowsHeld

\* Deletes pick sessions without a running request, and leave the others alone.
LEMMA DeleteRowsHeld ==
    ASSUME OneAtATime, TypeOK, RowsHeld, NEW d \in Deleters,
           Collect(d) \/ Delete(d) \/ \E T \in SUBSET Sessions : RequestDelete(d, T)
    PROVE  RowsHeld'
<1> USE DEF db, env
<1>0. /\ req \in [Requests -> Request] /\ faults \in Nat /\ del \in [Deleters -> Deleter]
      /\ row = [s \in Sessions |-> row[s]]
      /\ \A r \in Requests : Busy(r) => req[r].s \in Sessions
  BY DEF TypeOK, RequestsOK, Busy
<1>1. UNCHANGED <<lost, creating>> /\ cache' \subseteq cache /\ faults' \in {faults, faults + 1}
  BY <1>0 DEF Collect, CollectList, CollectCheck, CollectDelete, Delete, ListDeleteFiles,
         CancelSessions, DeletePhysical, DeleteFiles, RequestDelete
<1>2. \A r \in Requests : req'[r].pc = req[r].pc /\ req'[r].s = req[r].s /\ req'[r].size = req[r].size
  <2>1. CASE DeletePhysical(d)
    BY <1>0, <2>1 DEF DeletePhysical, Request
  <2>2. CASE ~DeletePhysical(d)
    <3>1. req' = req
      BY <2>2 DEF Collect, CollectList, CollectCheck, CollectDelete, Delete, ListDeleteFiles,
           CancelSessions, DeleteFiles, RequestDelete
    <3> QED BY <3>1
  <2> QED BY <2>1, <2>2
<1>3. \A r \in Requests : Busy(r) => ~Deleting(req[r].s)
  BY DEF RowsHeld, Exclusive
<1>4. /\ \A e \in Deleters \ {d} : del'[e] = del[e]
      /\ \A s \in del'[d].targets : s \in del[d].targets \/ Active(s) = {}
  <2>1. CASE CollectList(d)
    BY <1>0, <2>1 DEF CollectList, IdleDeleter
  <2>a. CASE CollectDelete(d)
    <3>1. del'[d] = IdleDeleter \/ del'[d] = [del[d] EXCEPT !.pc = "list"]
      BY <1>0, <2>a DEF CollectDelete
    <3>2. del'[d].targets \subseteq del[d].targets
      BY <1>0, <3>1 DEF IdleDeleter, Deleter
    <3>3. \A e \in Deleters \ {d} : del'[e] = del[e]
      BY <1>0, <2>a DEF CollectDelete
    <3> QED BY <3>2, <3>3
  <2>2. ASSUME NEW s \in Sessions, CollectCheck(d, s)
        PROVE  /\ \A e \in Deleters \ {d} : del'[e] = del[e]
               /\ del'[d].targets \subseteq del[d].targets \cup {s} /\ Active(s) = {}
    BY <1>0, <2>2 DEF CollectCheck, Deleter, MayDelete, OneAtATime
  <2>3. CASE Delete(d)
    <3>1. CASE ListDeleteFiles(d)
      BY <1>0, <3>1 DEF ListDeleteFiles, Deleter
    <3>2. CASE CancelSessions(d)
      BY <1>0, <3>2 DEF CancelSessions, Deleter
    <3>3. CASE DeletePhysical(d)
      BY <1>0, <3>3 DEF DeletePhysical, Deleter
    <3>4. CASE DeleteFiles(d)
      BY <1>0, <3>4 DEF DeleteFiles, IdleDeleter
    <3> QED BY <2>3, <3>1, <3>2, <3>3, <3>4 DEF Delete
  <2>4. ASSUME NEW T \in SUBSET Sessions, RequestDelete(d, T)
        PROVE  /\ \A e \in Deleters \ {d} : del'[e] = del[e]
               /\ del'[d].targets = T /\ \A s \in T : Active(s) = {}
    BY <1>0, <2>4 DEF RequestDelete, IdleDeleter, Deleter, MayDelete, OneAtATime
  <2> QED BY <2>1, <2>a, <2>2, <2>3, <2>4 DEF Collect
<1>5. \A s \in Sessions : Deleting(s)' => Deleting(s) \/ Active(s) = {}
  BY <1>4 DEF Deleting
<1>6. Exclusive'
  BY <1>0, <1>1, <1>2, <1>3, <1>5 DEF RowsHeld, Exclusive, Busy, Active
<1>7. \A s \in Sessions : row'[s] = row[s] \/ Deleting(s)
  <2>1. row' = row \/ row' = [s \in Sessions |-> IF s \in del[d].targets THEN NoRow ELSE row[s]]
    BY DEF Collect, CollectList, CollectCheck, CollectDelete, Delete, ListDeleteFiles,
           CancelSessions, DeletePhysical, DeleteFiles, RequestDelete
  <2> QED BY <1>0, <2>1 DEF Deleting
<1>8. ASSUME NEW r \in Requests PROVE RowOK(req'[r], row'[req'[r].s], faults')
  <2>1. RowOK(req[r], row[req[r].s], faults)
    BY DEF RowsHeld
  <2>2. CASE Busy(r)
    <3>1. row'[req[r].s] = row[req[r].s]
      BY <1>0, <1>3, <1>7, <2>2
    <3> QED BY <1>0, <1>1, <1>2, <2>1, <3>1 DEF RowOK
  <2>3. CASE ~Busy(r)
    BY <1>2, <2>3 DEF RowOK, Busy, Holding, Unsized
  <2> QED BY <2>2, <2>3
<1>9. faults' = 0 => lost' = 0
  BY <1>0, <1>1 DEF RowsHeld
<1> QED BY <1>6, <1>8, <1>9 DEF RowsHeld

\* Every step keeps what requests know of their records.
LEMMA NextRowsHeld == OneAtATime /\ TypeOK /\ RowsHeld /\ [Next]_vars => RowsHeld'
<1> SUFFICES ASSUME OneAtATime, TypeOK, RowsHeld, [Next]_vars PROVE RowsHeld'
  OBVIOUS
<1>1. \A d \in Deleters : Collect(d) \/ Delete(d) => RowsHeld'
  BY DeleteRowsHeld
<1>2. \A d \in Deleters, T \in SUBSET Sessions : RequestDelete(d, T) => RowsHeld'
  BY DeleteRowsHeld
<1>3. Placeholders \in SUBSET Sessions /\ \A s \in Sessions : {s} \in SUBSET Sessions
  BY DEF Placeholders
<1>4. (\E d \in Deleters, s \in Sessions : RequestDelete(d, {s}))
      \/ (\E d \in Deleters : RequestDelete(d, Placeholders)) => RowsHeld'
  BY <1>2, <1>3
<1>5. (\E r \in Requests : Handle(r) \/ Cancel(r)) => RowsHeld'
  BY RequestRowsHeld
<1>6. (\E r \in Requests, s \in Sessions, i \in 0 .. MaxIndex : ReceiveChunk(r, s, i)) => RowsHeld'
  BY ReceiveRowsHeld
<1>7. Create \/ (\E s \in Sessions : Expire(s)) \/ Crash \/ UNCHANGED vars => RowsHeld'
  BY SessionRowsHeld
<1> QED BY <1>1, <1>4, <1>5, <1>6, <1>7 DEF Next

\* At the start no request is running.
LEMMA InitRowsHeld == Init => RowsHeld
BY DEF Init, RowsHeld, Exclusive, Busy, RowOK, Holding, Unsized, IdleRequest

\* With one chunk request per session at a time and no delete of a session that
\* is being written, and as long as nothing failed, the user is charged exactly
\* for the recorded sizes: in whatever order parallel sessions upload, cancel,
\* expire, are collected or lost to a restart, every File.UpdateSize finds the
\* record with the size its request had read.
THEOREM StorageExactCorrect == ASSUME OneAtATime PROVE Spec => []StorageExact
<1>1. Init => TypeOK /\ StorageLedger /\ RowsHeld
  BY InitTypes, InitLedger, InitRowsHeld
<1>2. TypeOK /\ StorageLedger /\ RowsHeld /\ [Next]_vars => (TypeOK /\ StorageLedger /\ RowsHeld)'
  BY NextTypes, NextLedger, NextRowsHeld
<1>3. TypeOK /\ StorageLedger /\ RowsHeld => StorageExact
  <2> SUFFICES ASSUME TypeOK, StorageLedger, RowsHeld, faults = 0
               PROVE  storage = Sum(RecordedSize(row), Sessions)
    BY DEF StorageExact
  <2>1. Sum(RecordedSize(row), Sessions) \in Nat
    BY RecordedSizeType, SumIsNat
  <2> QED BY <2>1 DEF RowsHeld, StorageLedger
<1> QED BY <1>1, <1>2, <1>3, PTL DEF Spec

----------------------------------------------------------------------------
(* The quota *)

\* A chunk is no longer than the policy's chunk size and ends within the file.
LEMMA ChunkBounds ==
    ASSUME NEW s \in Sessions, NEW i \in Nat, AppendStart(i) <= Total[s]
    PROVE  /\ ChunkLength(s, i) \in Nat
           /\ ChunkSize > 0 => ChunkLength(s, i) <= ChunkSize
           /\ AppendStart(i) + ChunkLength(s, i) <= Total[s]
           /\ IsLastChunk(s, i) => AppendStart(i) + ChunkLength(s, i) = Total[s]
<1> DEFINE a == AppendStart(i)
<1>1. a \in Nat /\ Total[s] \in Nat /\ ChunkSize \in Nat
  BY AppendStartIsNat
<1>2. (i + 1) * ChunkSize = a + ChunkSize
  BY DEF AppendStart
<1>3. IsLastChunk(s, i) <=> ChunkSize = 0 \/ a + ChunkSize >= Total[s]
  BY <1>2 DEF IsLastChunk
<1>4. ChunkLength(s, i) = IF IsLastChunk(s, i) THEN Total[s] - a ELSE ChunkSize
  BY DEF ChunkLength
<1> HIDE DEF a
<1>5. CASE IsLastChunk(s, i)
  BY <1>1, <1>3, <1>4, <1>5 DEF a
<1>6. CASE ~IsLastChunk(s, i)
  BY <1>1, <1>3, <1>4, <1>6 DEF a
<1> QED BY <1>5, <1>6

\* The states in which a request may still add to the storage.
Claiming == {"lookup", "exists", "open", "write", "sized"}

\* What a request may still add: its chunk, if the storage it was given at its
\* arrival leaves room for it.
Claim(q) ==
    IF /\ q.pc \in Claiming
       /\ AppendStart(q.idx) <= Total[q.s]
       /\ ChunkLength(q.s, q.idx) <= RemainingCapacity(q.used)
    THEN ChunkLength(q.s, q.idx) ELSE 0

Claims(rq) == [r \in Requests |-> Claim(rq[r])]

\* What HookValidateCapacity and the order of chunks established for q.
ChunkOK(q) ==
    /\ q.pc \in Holding => AppendStart(q.idx) <= q.size /\ AppendStart(q.idx) <= Total[q.s]
    /\ q.pc \in Unsized => ChunkLength(q.s, q.idx) <= RemainingCapacity(q.used)

\* Chunks lie within their files, and so do the recorded sizes.
ChunksHeld ==
    /\ \A s \in Sessions : row[s].size <= Total[s]
    /\ \A r \in Requests : ChunkOK(req[r])

\* The inductive invariant of QuotaOvershootBounded, with ChunksHeld: the storage
\* and all that running requests may still add stay within the bound.
QuotaHeld ==
    storage + Sum(Claims(req), Requests) <= MaxStorage + (Cardinality(Requests) - 1) * ChunkSize

\* Claims are natural numbers, no larger than a chunk.
LEMMA ClaimType ==
    ASSUME NEW q, q.pc \in Claiming => q.s \in Sessions /\ q.idx \in Nat
    PROVE  Claim(q) \in Nat /\ (ChunkSize > 0 => Claim(q) <= ChunkSize)
<1>1. CASE q.pc \in Claiming /\ AppendStart(q.idx) <= Total[q.s]
  <2>1. ChunkLength(q.s, q.idx) \in Nat /\ (ChunkSize > 0 => ChunkLength(q.s, q.idx) <= ChunkSize)
    BY <1>1, ChunkBounds
  <2> QED BY <2>1 DEF Claim
<1>2. CASE ~(q.pc \in Claiming /\ AppendStart(q.idx) <= Total[q.s])
  BY <1>2 DEF Claim
<1> QED BY <1>1, <1>2

\* The claims of well-typed requests have a sum.
LEMMA ClaimsType ==
    ASSUME NEW rq, \A r \in Requests : rq[r].pc \in Claiming => rq[r].s \in Sessions /\ rq[r].idx \in Nat
    PROVE  /\ \A r \in Requests : Claims(rq)[r] \in Nat
           /\ \A r \in Requests : ChunkSize > 0 => Claims(rq)[r] <= ChunkSize
           /\ Sum(Claims(rq), Requests) \in Nat
<1>1. \A r \in Requests : Claims(rq)[r] \in Nat /\ (ChunkSize > 0 => Claims(rq)[r] <= ChunkSize)
  BY ClaimType DEF Claims
<1> QED BY <1>1, SumIsNat

\* Well-typed requests know what they claim.
LEMMA ClaimsKnown ==
    TypeOK => \A r \in Requests : req[r].pc \in Claiming => req[r].s \in Sessions /\ req[r].idx \in Nat
BY DEF TypeOK, RequestsOK, Request, Claiming

\* A step of one request that charges no more than it gives up of its claim.
LEMMA QuotaStep ==
    ASSUME TypeOK, TypeOK', QuotaHeld, NEW r \in Requests,
           \A t \in Requests \ {r} : req'[t] = req[t],
           storage' + Claim(req'[r]) <= storage + Claim(req[r])
    PROVE  storage' + Sum(Claims(req'), Requests)
              <= MaxStorage + (Cardinality(Requests) - 1) * ChunkSize
<1> DEFINE f == Claims(req)
           g == Claims(req')
           bound == MaxStorage + (Cardinality(Requests) - 1) * ChunkSize
<1>1. \A t \in Requests : req'[t].pc \in Claiming => req'[t].s \in Sessions /\ req'[t].idx \in Nat
  BY DEF TypeOK, RequestsOK, Request, Claiming
<1>3. \A t \in Requests : f[t] \in Nat /\ g[t] \in Nat
  BY <1>1, ClaimsKnown, ClaimsType
<1>4. \A t \in Requests \ {r} : f[t] = g[t]
  BY DEF Claims
<1>5. f[r] = Claim(req[r]) /\ g[r] = Claim(req'[r])
  BY DEF Claims
<1>6. storage \in Int /\ storage' \in Int /\ bound \in Int
  <2>1. Cardinality(Requests) \in Nat
    BY FS_CardinalityType
  <2> QED BY <2>1 DEF TypeOK
<1>7. Sum(f, Requests) \in Nat
  BY ClaimsKnown, ClaimsType
<1>8. storage + Sum(f, Requests) <= bound
  BY DEF QuotaHeld
<1> HIDE DEF f, g, bound
<1>9. Sum(g, Requests) = Sum(f, Requests) + (g[r] - f[r])
  BY <1>3, <1>4, SumUpdate
<1>10. storage' + Sum(g, Requests) <= bound
  BY <1>3, <1>5, <1>6, <1>7, <1>8, <1>9
<1> QED BY <1>10 DEF g, bound

\* The steps of a request that charge nothing: its claim does not grow.
LEMMA RequestClaim ==
    ASSUME TypeOK, NEW r \in Requests, Handle(r) \/ Cancel(r)
    PROVE  /\ req'[r].used = req[r].used
           /\ req'[r].pc \in Claiming => req[r].pc \in Claiming
           /\ HookChunkUploaded(r) \/ HookChunkUploadFailed(r) \/ storage' = storage
<1> USE DEF db, env, Claiming
<1>0. req[r] \in Request /\ req = [t \in Requests |-> req[t]]
  BY DEF TypeOK, RequestsOK
<1>ret. Return(r).pc = "idle" /\ Return(r).used = req[r].used
  BY <1>0 DEF Return, Request
<1>1. CASE LookupPlaceholder(r)
  BY <1>0, <1>1, <1>ret DEF LookupPlaceholder, Request
<1>2. CASE PutCheckExists(r)
  BY <1>0, <1>2, <1>ret DEF PutCheckExists, Request
<1>3. CASE PutOpen(r)
  BY <1>0, <1>3, <1>ret DEF PutOpen, Request
<1>4. CASE PutWrite(r) \/ PutBroken(r)
  BY <1>0, <1>4, <1>ret DEF PutWrite, PutBroken, Request
<1>5. CASE UpdateMD5(r)
  BY <1>0, <1>5 DEF UpdateMD5, Request
<1>6. CASE HookChunkUploaded(r)
  <2> DEFINE value == AppendStart(req[r].idx) + ChunkLength(req[r].s, req[r].idx)
             Q(pc, sz) == [req[r] EXCEPT !.pc = pc, !.size = sz]
  <2>1. \/ req' = [req EXCEPT ![r] = Q("pop", value)] \/ req' = [req EXCEPT ![r] = Return(r)]
        \/ \E memory \in {req[r].size, value} : req' = [req EXCEPT ![r] = Q("undo", memory)]
    BY <1>6 DEF HookChunkUploaded
  <2>2. \A pc, sz : Q(pc, sz).pc = pc /\ Q(pc, sz).used = req[r].used
    BY <1>0 DEF Request
  <2> HIDE DEF value, Q
  <2> QED BY <1>0, <1>6, <1>ret, <2>1, <2>2
<1>7. CASE HookPopPlaceholderToFile(r)
  BY <1>0, <1>7 DEF HookPopPlaceholderToFile, Request
<1>8. CASE HookDeleteUploadSession(r) \/ HookTruncateFile(r) \/ HookChunkUploadFailed(r)
  BY <1>0, <1>8, <1>ret DEF HookDeleteUploadSession, HookTruncateFile, HookChunkUploadFailed, Request
<1>9. CASE ClientGone(r) \/ CancelUploadDecide(r) \/ CancelUploadTruncate(r)
  BY <1>0, <1>9 DEF ClientGone, CancelUploadDecide, CancelUploadTruncate, Request
<1> QED BY <1>1, <1>2, <1>3, <1>4, <1>5, <1>6, <1>7, <1>8, <1>9 DEF Handle, Cancel

\* What a request knows of its chunk is kept, and sizes stay within the file.
LEMMA RequestChunk ==
    ASSUME TypeOK, NEW r \in Requests, Handle(r) \/ Cancel(r), ChunkOK(req[r]),
           \A s \in Sessions : row[s].size <= Total[s]
    PROVE  ChunkOK(req'[r]) /\ \A s \in Sessions : row'[s].size <= Total[s]
<1> USE DEF db, env
<1> DEFINE s == req[r].s
           start == AppendStart(req[r].idx)
           value == start + ChunkLength(s, req[r].idx)
<1>0. /\ req[r] \in Request /\ req = [t \in Requests |-> req[t]] /\ row = [t \in Sessions |-> row[t]]
      /\ req[r].pc # "idle" => s \in Sessions
      /\ start \in Nat /\ req[r].idx \in Nat /\ \A t \in Sessions : row[t] \in RowType /\ Total[t] \in Nat
  BY AppendStartIsNat DEF TypeOK, RequestsOK, Request
<1>1. req'[r].s = s /\ req'[r].idx = req[r].idx /\ req'[r].used = req[r].used
  BY RequestStep, RequestClaim
<1>ret. Return(r).pc = "idle"
  BY <1>0 DEF Return, Request
<1>over. ASSUME req'[r].pc \in {"idle", "forget", "lookup"} PROVE ChunkOK(req'[r])
  BY <1>over DEF ChunkOK, Holding, Unsized
<1>same. ASSUME req[r].pc \in Holding, req'[r].size = req[r].size, req'[r].pc \in Holding,
                req'[r].pc \in Unsized => req[r].pc \in Unsized
         PROVE  ChunkOK(req'[r])
  BY <1>1, <1>same DEF ChunkOK
<1>val. ASSUME req[r].pc \in Holding PROVE value \in Nat /\ start <= value /\ value <= Total[s]
  <2>1. s \in Sessions /\ start <= Total[s]
    BY <1>0, <1>val DEF ChunkOK, Holding
  <2>2. ChunkLength(s, req[r].idx) \in Nat /\ value <= Total[s]
    BY <1>0, <2>1, ChunkBounds
  <2> QED BY <1>0, <2>2
<1>sz. ASSUME NEW read, NEW v \in Nat, s \in Sessions, UpdateSize(s, read, v), v <= Total[s],
              \A t \in Sessions : row[t].size <= Total[t]
       PROVE  \A t \in Sessions : row'[t].size <= Total[t]
  <2>1. row' = row \/ row' = [row EXCEPT ![s].size = v]
    BY <1>sz DEF UpdateSize
  <2>2. CASE row' = row
    BY <1>sz, <2>2
  <2>3. CASE row' = [row EXCEPT ![s].size = v]
    BY <1>0, <1>sz, <2>3 DEF RowType
  <2> QED BY <2>1, <2>2, <2>3
<1> HIDE DEF value, start
<1>2. CASE LookupPlaceholder(r)
  <2>1. CASE req'[r] = Return(r)
    BY <1>2, <1>over, <1>ret, <2>1 DEF LookupPlaceholder
  <2>2. CASE req'[r] # Return(r)
    <3>1. /\ req'[r] = [req[r] EXCEPT !.pc = "exists", !.size = row[s].size, !.cancel = "armed"]
          /\ row[s].size >= start /\ RemainingCapacity(req[r].used) >= ChunkLength(s, req[r].idx)
          /\ s \in Sessions
      BY <1>0, <1>2, <2>2 DEF LookupPlaceholder, start
    <3>2. req'[r].pc = "exists" /\ req'[r].size = row[s].size
      BY <1>0, <3>1 DEF Request
    <3>3. row[s].size \in Nat /\ row[s].size <= Total[s] /\ Total[s] \in Nat
      BY <1>0, <3>1 DEF RowType
    <3>4. RemainingCapacity(req[r].used) \in Int /\ ChunkLength(s, req[r].idx) \in Int
      BY <1>0, <3>1 DEF RemainingCapacity, ChunkLength, Request, start
    <3>5. start <= row[s].size /\ start <= Total[s]
          /\ ChunkLength(s, req[r].idx) <= RemainingCapacity(req[r].used)
      BY <1>0, <3>1, <3>3, <3>4
    <3> QED BY <1>1, <1>2, <3>2, <3>5 DEF LookupPlaceholder, ChunkOK, Holding, Unsized, start
  <2> QED BY <1>2, <2>1, <2>2 DEF LookupPlaceholder
<1>3. CASE PutCheckExists(r) \/ PutOpen(r) \/ PutWrite(r) \/ PutBroken(r)
           \/ ClientGone(r) \/ CancelUploadDecide(r) \/ CancelUploadTruncate(r)
  <2>1. row' = row
    BY <1>3 DEF PutCheckExists, PutOpen, PutWrite, PutBroken, ClientGone, CancelUploadDecide,
                CancelUploadTruncate
  <2>2. req'[r].pc = "idle" \/ (req'[r].size = req[r].size /\
           (req'[r].pc = req[r].pc \/ (req[r].pc \in Unsized /\ req'[r].pc \in Unsized)))
    BY <1>0, <1>3, <1>ret
       DEF PutCheckExists, PutOpen, PutWrite, PutBroken, ClientGone, CancelUploadDecide,
           CancelUploadTruncate, Request, Unsized
  <2> QED BY <1>1, <2>1, <2>2 DEF ChunkOK, Holding, Unsized
<1>4. CASE UpdateMD5(r)
  <2>1. s \in Sessions
    BY <1>0, <1>4 DEF UpdateMD5
  <2>2. \A t \in Sessions : row'[t].size = row[t].size
    <3>1. row' = row \/ row' = [row EXCEPT ![s].md5 = phys[s].data]
      BY <1>4 DEF UpdateMD5
    <3>2. ASSUME row' = [row EXCEPT ![s].md5 = phys[s].data], NEW t \in Sessions
          PROVE  row'[t].size = row[t].size
      BY <1>0, <2>1, <3>2 DEF RowType
    <3> QED BY <3>1, <3>2
  <2>3. req[r].pc = "write" /\ req'[r].pc = "sized" /\ req'[r].size = req[r].size
    BY <1>0, <1>4 DEF UpdateMD5, Request
  <2> QED BY <1>same, <2>2, <2>3 DEF Holding, Unsized
<1>5. CASE HookChunkUploaded(r)
  <2>0. req[r].pc = "sized" /\ s \in Sessions
    BY <1>0, <1>5 DEF HookChunkUploaded
  <2>v. value \in Nat /\ start <= value /\ value <= Total[s] /\ start <= req[r].size /\ start <= Total[s]
    BY <1>0, <1>val, <2>0 DEF Holding, ChunkOK, start
  <2>1. \/ req'[r].pc = "idle"
        \/ req'[r].pc \in {"pop", "undo"} /\ req'[r].size \in {value, req[r].size}
    <3> DEFINE Q(pc, sz) == [req[r] EXCEPT !.pc = pc, !.size = sz]
    <3>1. \/ req' = [req EXCEPT ![r] = Q("pop", value)] \/ req' = [req EXCEPT ![r] = Return(r)]
          \/ \E memory \in {req[r].size, value} : req' = [req EXCEPT ![r] = Q("undo", memory)]
      BY <1>5 DEF HookChunkUploaded, value, start
    <3>2. \A pc, sz : Q(pc, sz).pc = pc /\ Q(pc, sz).size = sz
      BY <1>0 DEF Request
    <3> HIDE DEF Q
    <3> QED BY <1>0, <1>ret, <3>1, <3>2
  <2>2. ChunkOK(req'[r])
    BY <1>0, <1>1, <2>1, <2>v DEF ChunkOK, Holding, Unsized, start
  <2>3. UNCHANGED row \/ UpdateSize(s, req[r].size, value)
    BY <1>5 DEF HookChunkUploaded, value, start
  <2> QED BY <1>sz, <2>0, <2>2, <2>3, <2>v
<1>6. CASE HookPopPlaceholderToFile(r)
  <2>1. req[r].pc = "pop" /\ s \in Sessions /\ req'[r].size = req[r].size
        /\ req'[r].pc \in {"forget", "undo"}
    BY <1>0, <1>6 DEF HookPopPlaceholderToFile, Request
  <2>2. ChunkOK(req'[r])
    BY <1>over, <1>same, <2>1 DEF Holding, Unsized
  <2>3. row' = row \/ row' = [row EXCEPT ![s].pending = FALSE]
    BY <1>6 DEF HookPopPlaceholderToFile
  <2>4. \A t \in Sessions : row'[t].size = row[t].size
    <3>1. ASSUME row' = [row EXCEPT ![s].pending = FALSE], NEW t \in Sessions
          PROVE  row'[t].size = row[t].size
      BY <1>0, <2>1, <3>1 DEF RowType
    <3> QED BY <2>3, <3>1
  <2> QED BY <2>2, <2>4
<1>7. CASE HookDeleteUploadSession(r)
  BY <1>0, <1>7, <1>over, <1>ret DEF HookDeleteUploadSession
<1>8. CASE HookTruncateFile(r)
  <2>1. req[r].pc = "undo" /\ row' = row /\
        (req'[r].pc = "idle" \/ (req'[r].pc = "undosize" /\ req'[r].size = req[r].size))
    BY <1>0, <1>8, <1>ret DEF HookTruncateFile, Request
  <2> QED BY <1>over, <1>same, <2>1 DEF Holding, Unsized
<1>9. CASE HookChunkUploadFailed(r)
  <2>1. req[r].pc = "undosize" /\ s \in Sessions /\ req'[r].pc = "idle"
        /\ (UNCHANGED row \/ UpdateSize(s, req[r].size, start))
    BY <1>0, <1>9, <1>ret DEF HookChunkUploadFailed, start
  <2>2. start <= Total[s]
    BY <2>1 DEF ChunkOK, Holding, start
  <2> QED BY <1>0, <1>over, <1>sz, <2>1, <2>2
<1> QED BY <1>2, <1>3, <1>4, <1>5, <1>6, <1>7, <1>8, <1>9 DEF Handle, Cancel

\* A step of a request charges at most what it claimed.
LEMMA RequestQuota ==
    ASSUME TypeOK, TypeOK', ChunksHeld, QuotaHeld, NEW r \in Requests, Handle(r) \/ Cancel(r)
    PROVE  QuotaHeld'
<1> USE DEF db, env
<1> DEFINE s == req[r].s
           start == AppendStart(req[r].idx)
           len == ChunkLength(s, req[r].idx)
<1>2. \A t \in Requests \ {r} : req'[t] = req[t]
  BY RequestStep
<1>4. req'[r].s = s /\ req'[r].idx = req[r].idx /\ req'[r].used = req[r].used
      /\ (req'[r].pc \in Claiming => req[r].pc \in Claiming)
  BY RequestStep, RequestClaim
<1>5. /\ storage \in Int /\ storage' \in Int /\ req[r].size \in Nat
      /\ start \in Nat /\ req[r].idx \in Nat
  BY AppendStartIsNat DEF TypeOK, RequestsOK, Request
<1>6. Claim(req[r]) \in Nat /\ Claim(req'[r]) \in Nat
  BY ClaimsKnown, ClaimType, <1>4
<1>7. Claim(req'[r]) \in {0, Claim(req[r])}
  BY <1>4 DEF Claim
<1>8. storage' + Claim(req'[r]) <= storage + Claim(req[r])
  <2>1. CASE storage' = storage
    BY <1>5, <1>6, <1>7, <2>1
  <2>2. CASE HookChunkUploaded(r) /\ storage' # storage
    <3>1. req[r].pc = "sized" /\ s \in Sessions /\ storage' = storage + ((start + len) - req[r].size)
      BY <2>2 DEF HookChunkUploaded, UpdateSize, TypeOK, RequestsOK
    <3>2. req'[r].pc \notin Claiming
      <4>1. req'[r] = Return(r) \/ req'[r] = [req[r] EXCEPT !.pc = "pop", !.size = start + len]
        BY <2>2 DEF HookChunkUploaded, TypeOK, RequestsOK
      <4>2. req[r] \in Request
        BY DEF TypeOK, RequestsOK
      <4> HIDE DEF start, len
      <4>3. Return(r).pc = "idle" /\ [req[r] EXCEPT !.pc = "pop", !.size = start + len].pc = "pop"
        BY <4>2 DEF Return, Request
      <4> QED BY <4>1, <4>3 DEF Claiming
    <3>3. start <= req[r].size /\ start <= Total[s] /\ len <= RemainingCapacity(req[r].used)
      BY <3>1 DEF ChunksHeld, ChunkOK, Holding, Unsized
    <3>4. Claim(req[r]) = len /\ Claim(req'[r]) = 0
      BY <3>1, <3>2, <3>3 DEF Claim, Claiming
    <3> QED BY <1>5, <1>6, <3>1, <3>3, <3>4
  <2>3. CASE HookChunkUploadFailed(r) /\ storage' # storage
    <3>1. req[r].pc = "undosize" /\ storage' = storage + (start - req[r].size)
      BY <2>3 DEF HookChunkUploadFailed, UpdateSize
    <3>2. start <= req[r].size
      BY <3>1 DEF ChunksHeld, ChunkOK, Holding
    <3> QED BY <1>5, <1>6, <1>7, <3>1, <3>2
  <2> QED BY <2>1, <2>2, <2>3, RequestClaim
<1> QED BY <1>2, <1>8, QuotaStep DEF QuotaHeld

\* A request that arrives claims its chunk only if it fits into the storage of
\* that moment; the others claim a chunk each at most.
LEMMA ReceiveQuota ==
    ASSUME ChunkSize > 0, TypeOK, TypeOK', QuotaHeld, NEW r \in Requests, NEW s \in Sessions,
           NEW i \in 0 .. MaxIndex, ReceiveChunk(r, s, i)
    PROVE  QuotaHeld'
<1> USE DEF db, env
<1> DEFINE g == Claims(req')
           n == Cardinality(Requests)
<1>1. /\ req'[r].pc = "lookup" /\ req'[r].s = s /\ req'[r].idx = i /\ req'[r].used = storage
      /\ \A t \in Requests \ {r} : req'[t] = req[t]
      /\ UNCHANGED <<row, storage>>
  BY DEF ReceiveChunk, IdleRequest, TypeOK, RequestsOK
<1>3. \A t \in Requests : req'[t].pc \in Claiming => req'[t].s \in Sessions /\ req'[t].idx \in Nat
  BY DEF TypeOK, RequestsOK, Request, Claiming
<1>4. \A t \in Requests : g[t] \in Nat /\ g[t] <= ChunkSize
  BY <1>3, ClaimsType
<1>5. IsFiniteSet(Requests \ {r}) /\ Cardinality(Requests \ {r}) = n - 1 /\ n \in Nat
  BY FS_RemoveElement, FS_CardinalityType
<1>6. storage \in Int
  BY DEF TypeOK
<1>7. CASE g[r] = 0
  <2>1. Claim(req'[r]) = 0 /\ Claim(req[r]) \in Nat
    BY <1>7, ClaimsKnown, ClaimType DEF Claims
  <2>2. storage' + Claim(req'[r]) <= storage + Claim(req[r])
    BY <1>1, <1>6, <2>1
  <2> QED BY <1>1, <2>2, QuotaStep DEF QuotaHeld
<1>8. CASE g[r] # 0
  <2>1. g[r] = ChunkLength(s, i) /\ g[r] <= RemainingCapacity(storage)
    BY <1>1, <1>8 DEF Claims, Claim
  <2>2. storage + g[r] <= MaxStorage
    BY <1>4, <1>6, <1>8, <2>1 DEF RemainingCapacity
  <2> HIDE DEF g, n
  <2>3. Sum(g, Requests \ {r}) \in Nat /\ Sum(g, Requests \ {r}) <= (n - 1) * ChunkSize
    BY <1>4, <1>5, SumIsNat, SumBound
  <2>4. Sum(g, Requests) = Sum(g, Requests \ {r}) + g[r]
    <3>1. Requests = (Requests \ {r}) \cup {r} /\ (Requests \ {r}) \cap {r} = {} /\ IsFiniteSet({r})
      BY FS_Singleton
    <3>2. \A x \in (Requests \ {r}) \cup {r} : g[x] \in Nat
      BY <1>4
    <3>3. Sum(g, (Requests \ {r}) \cup {r}) = Sum(g, Requests \ {r}) + Sum(g, {r})
      BY <1>5, <3>1, <3>2, SumSplit
    <3>4. Sum(g, {r}) = g[r]
      BY <1>4, SumSingleton
    <3> QED BY <3>1, <3>3, <3>4
  <2>5. g[r] \in Nat /\ (n - 1) * ChunkSize \in Int
    BY <1>4, <1>5
  <2>6. storage + Sum(g, Requests) <= MaxStorage + (n - 1) * ChunkSize
    BY <1>6, <2>2, <2>3, <2>4, <2>5
  <2> QED BY <1>1, <2>6 DEF QuotaHeld, g, n
<1> QED BY <1>7, <1>8

\* Steps that are not of requests neither charge nor claim.
LEMMA QuietQuota ==
    ASSUME TypeOK, TypeOK', QuotaHeld,
           \A r \in Requests : Claim(req'[r]) = Claim(req[r]) \/ Claim(req'[r]) = 0,
           storage' <= storage
    PROVE  QuotaHeld'
<1> DEFINE f == Claims(req)
           g == Claims(req')
           bound == MaxStorage + (Cardinality(Requests) - 1) * ChunkSize
<1>1. \A t \in Requests : req'[t].pc \in Claiming => req'[t].s \in Sessions /\ req'[t].idx \in Nat
  BY DEF TypeOK, RequestsOK, Request, Claiming
<1>2. \A t \in Requests : f[t] \in Nat /\ g[t] \in Nat /\ g[t] <= f[t]
  <2>1. \A t \in Requests : f[t] \in Nat /\ g[t] \in Nat
    BY <1>1, ClaimsKnown, ClaimsType
  <2>2. \A t \in Requests : g[t] = f[t] \/ g[t] = 0
    BY DEF Claims
  <2> QED BY <2>1, <2>2
<1>3. storage \in Int /\ storage' \in Int /\ bound \in Int
  <2>1. Cardinality(Requests) \in Nat
    BY FS_CardinalityType
  <2> QED BY <2>1 DEF TypeOK
<1>4. storage + Sum(f, Requests) <= bound
  BY DEF QuotaHeld
<1> HIDE DEF f, g, bound
<1>5. Sum(f, Requests) \in Nat /\ Sum(g, Requests) \in Nat
  BY <1>2, SumIsNat
<1>6. Sum(g, Requests) <= Sum(f, Requests)
  <2>1. Units(g, Requests) \subseteq Units(f, Requests)
    <3> SUFFICES ASSUME NEW x \in Requests, NEW u \in {x} \X (1 .. g[x])
                 PROVE  u \in {x} \X (1 .. f[x])
      BY DEF Units
    <3>1. 1 .. g[x] \subseteq 1 .. f[x]
      BY <1>2
    <3> QED BY <3>1
  <2>2. IsFiniteSet(Units(f, Requests))
    BY <1>2, SumIsNat
  <2> QED BY <2>1, <2>2, FS_Subset DEF Sum
<1>7. storage' + Sum(g, Requests) <= bound
  BY <1>3, <1>4, <1>5, <1>6
<1> QED BY <1>7 DEF QuotaHeld, g, bound

\* The steps that are not of requests leave requests as they are, or end them,
\* and sizes as they are, or 0.
LEMMA OtherSteps ==
    ASSUME TypeOK,
           \/ Create \/ (\E s \in Sessions : Expire(s)) \/ Crash \/ UNCHANGED vars
           \/ \E d \in Deleters : Collect(d) \/ Delete(d) \/ \E T : RequestDelete(d, T)
    PROVE  /\ \A r \in Requests :
                \/ req'[r].pc = "idle"
                \/ /\ req'[r].pc = req[r].pc /\ req'[r].s = req[r].s /\ req'[r].idx = req[r].idx
                   /\ req'[r].size = req[r].size /\ req'[r].used = req[r].used
           /\ \A s \in Sessions : row'[s].size = row[s].size \/ row'[s].size = 0
           /\ storage' <= storage
<1> USE DEF db, env
<1>0. /\ req \in [Requests -> Request] /\ row = [s \in Sessions |-> row[s]] /\ storage \in Int
  BY DEF TypeOK, RequestsOK
<1>1. ASSUME NEW s \in Sessions, CreatePlaceholder(s)
      PROVE  req' = req /\ storage' = storage /\ \A t \in Sessions : row'[t].size = row[t].size \/ row'[t].size = 0
  <2>1. req' = req /\ storage' = storage
    BY <1>1 DEF CreatePlaceholder
  <2>2. row' = row \/ \E q : q.size = 0 /\ row' = [row EXCEPT ![s] = q]
    BY <1>1 DEF CreatePlaceholder
  <2> QED BY <1>0, <2>1, <2>2
<1>2. ASSUME NEW s \in Sessions, CreateValidate(s) \/ CreateSession(s) \/ Expire(s)
      PROVE  req' = req /\ storage' = storage /\ row' = row
  BY <1>2 DEF CreateValidate, CreateSession, Expire
<1>3. ASSUME Crash
      PROVE  (\A r \in Requests : req'[r].pc = "idle") /\ storage' = storage /\ row' = row
  BY <1>3 DEF Crash, IdleRequest
<1>4. ASSUME NEW d \in Deleters, Collect(d) \/ ListDeleteFiles(d) \/ CancelSessions(d)
                                 \/ \E T : RequestDelete(d, T)
      PROVE  req' = req /\ storage' = storage /\ row' = row
  BY <1>4 DEF Collect, CollectList, CollectCheck, CollectDelete, ListDeleteFiles,
              CancelSessions, RequestDelete
<1>5. ASSUME NEW d \in Deleters, DeletePhysical(d)
      PROVE  /\ row' = row /\ storage' = storage
             /\ \A r \in Requests :
                  /\ req'[r].pc = req[r].pc /\ req'[r].s = req[r].s /\ req'[r].idx = req[r].idx
                  /\ req'[r].size = req[r].size /\ req'[r].used = req[r].used
  BY <1>0, <1>5 DEF DeletePhysical, Request
<1>6. ASSUME NEW d \in Deleters, DeleteFiles(d)
      PROVE  /\ req' = req /\ storage' <= storage
             /\ \A s \in Sessions : row'[s].size = row[s].size \/ row'[s].size = 0
  <2>1. req' = req
    BY <1>6 DEF DeleteFiles
  <2>2. \A t \in Sessions : row'[t].size = row[t].size \/ row'[t].size = 0
    <3>1. row' = row \/ row' = [s \in Sessions |-> IF s \in del[d].targets THEN NoRow ELSE row[s]]
      BY <1>6 DEF DeleteFiles
    <3> QED BY <1>0, <3>1 DEF NoRow
  <2>3. storage' <= storage
    <3>1. IsFiniteSet(del[d].targets) /\ \A x \in del[d].targets : del[d].size[x] \in Nat
      BY FS_Subset DEF TypeOK, Deleter
    <3>2. Sum(del[d].size, del[d].targets) \in Nat
      BY <3>1, SumIsNat
    <3>3. storage' = storage \/ storage' = storage - Sum(del[d].size, del[d].targets)
      BY <1>6 DEF DeleteFiles
    <3> QED BY <1>0, <3>2, <3>3
  <2> QED BY <2>1, <2>2, <2>3
<1>7. ASSUME UNCHANGED vars PROVE req' = req /\ storage' = storage /\ row' = row
  BY <1>7 DEF vars
<1>8. storage <= storage
  BY <1>0
<1> QED BY <1>1, <1>2, <1>3, <1>4, <1>5, <1>6, <1>7, <1>8 DEF Create, Delete

\* Every step is one of a request, an arrival, or one of the others.
LEMMA StepKinds ==
    ASSUME [Next]_vars
    PROVE  \/ \E r \in Requests : Handle(r) \/ Cancel(r)
           \/ \E r \in Requests, s \in Sessions, i \in 0 .. MaxIndex : ReceiveChunk(r, s, i)
           \/ Create \/ (\E s \in Sessions : Expire(s)) \/ Crash \/ UNCHANGED vars
           \/ \E d \in Deleters : Collect(d) \/ Delete(d) \/ \E T : RequestDelete(d, T)
BY DEF Next

\* Chunks and sizes stay within the files.
LEMMA NextChunks == TypeOK /\ ChunksHeld /\ [Next]_vars => ChunksHeld'
<1> SUFFICES ASSUME TypeOK, ChunksHeld, [Next]_vars PROVE ChunksHeld'
  OBVIOUS
<1>1. ASSUME NEW r \in Requests, Handle(r) \/ Cancel(r) PROVE ChunksHeld'
  <2>1. ChunkOK(req'[r]) /\ \A t \in Sessions : row'[t].size <= Total[t]
    BY <1>1, RequestChunk DEF ChunksHeld
  <2>2. \A t \in Requests \ {r} : req'[t] = req[t]
    BY <1>1, RequestStep
  <2> QED BY <2>1, <2>2 DEF ChunksHeld
<1>2. ASSUME NEW r \in Requests, NEW s \in Sessions, NEW i \in 0 .. MaxIndex, ReceiveChunk(r, s, i)
      PROVE  ChunksHeld'
  <2>1. req'[r].pc = "lookup" /\ (\A t \in Requests \ {r} : req'[t] = req[t]) /\ row' = row
    BY <1>2 DEF ReceiveChunk, IdleRequest, TypeOK, RequestsOK, db
  <2> QED BY <2>1 DEF ChunksHeld, ChunkOK, Holding, Unsized
<1>3. ASSUME \/ Create \/ (\E s \in Sessions : Expire(s)) \/ Crash \/ UNCHANGED vars
             \/ \E d \in Deleters : Collect(d) \/ Delete(d) \/ \E T : RequestDelete(d, T)
      PROVE  ChunksHeld'
  <2>1. ASSUME NEW r \in Requests PROVE ChunkOK(req'[r])
    <3>1. \/ req'[r].pc = "idle"
          \/ /\ req'[r].pc = req[r].pc /\ req'[r].s = req[r].s /\ req'[r].idx = req[r].idx
             /\ req'[r].size = req[r].size /\ req'[r].used = req[r].used
      BY <1>3, OtherSteps
    <3> QED BY <3>1 DEF ChunksHeld, ChunkOK, Holding, Unsized
  <2>2. \A s \in Sessions : row'[s].size = row[s].size \/ row'[s].size = 0
    BY <1>3, OtherSteps
  <2> QED BY <2>1, <2>2 DEF ChunksHeld
<1> QED BY <1>1, <1>2, <1>3, StepKinds

\* At the start there are no records and no requests.
LEMMA InitChunks == Init => ChunksHeld
BY DEF Init, IdleRequest, ChunksHeld, ChunkOK, Holding, Unsized, NoRow

\* At the start nothing is charged or claimed.
LEMMA InitQuota == ASSUME Requests # {}, Init PROVE QuotaHeld
<1>1. \A r \in Requests : Claims(req)[r] = 0
  BY DEF Init, IdleRequest, Claims, Claim, Claiming
<1>2. Sum(Claims(req), Requests) = 0
  BY <1>1, SumZero
<1>4. Cardinality(Requests) \in Nat /\ Cardinality(Requests) # 0
  BY FS_CardinalityType, FS_EmptySet
<1>5. (Cardinality(Requests) - 1) * ChunkSize \in Nat
  <2>1. Cardinality(Requests) - 1 \in Nat
    BY <1>4
  <2> QED BY <2>1
<1> QED BY <1>2, <1>5 DEF Init, QuotaHeld

\* Every step keeps the bound on storage and claims.
LEMMA NextQuota ==
    ASSUME ChunkSize > 0, TypeOK, TypeOK', ChunksHeld, QuotaHeld, [Next]_vars PROVE QuotaHeld'
<1>1. (\E r \in Requests : Handle(r) \/ Cancel(r)) => QuotaHeld'
  BY RequestQuota
<1>2. (\E r \in Requests, s \in Sessions, i \in 0 .. MaxIndex : ReceiveChunk(r, s, i)) => QuotaHeld'
  BY ReceiveQuota
<1>3. ASSUME \/ Create \/ (\E s \in Sessions : Expire(s)) \/ Crash \/ UNCHANGED vars
             \/ \E d \in Deleters : Collect(d) \/ Delete(d) \/ \E T : RequestDelete(d, T)
      PROVE  QuotaHeld'
  <2>1. ASSUME NEW r \in Requests PROVE Claim(req'[r]) = Claim(req[r]) \/ Claim(req'[r]) = 0
    <3>1. \/ req'[r].pc = "idle"
          \/ /\ req'[r].pc = req[r].pc /\ req'[r].s = req[r].s /\ req'[r].idx = req[r].idx
             /\ req'[r].size = req[r].size /\ req'[r].used = req[r].used
      BY <1>3, OtherSteps
    <3> QED BY <3>1 DEF Claim, Claiming
  <2>2. storage' <= storage
    BY <1>3, OtherSteps
  <2> QED BY <2>1, <2>2, QuietQuota
<1> QED BY <1>1, <1>2, <1>3, StepKinds

\* Whatever overlaps, fails or restarts, the storage of a user whose files are
\* uploaded in chunks exceeds the quota by no more than one chunk for each
\* request slot but one: a request that HookValidateCapacity admits on a user
\* record read earlier adds one chunk at most, and the last one admitted fitted.
THEOREM QuotaCorrect ==
    ASSUME ChunkSize > 0, Requests # {} PROVE Spec => []QuotaOvershootBounded
<1>1. Init => TypeOK /\ ChunksHeld /\ QuotaHeld
  BY InitTypes, InitChunks, InitQuota
<1>2. TypeOK /\ ChunksHeld /\ QuotaHeld /\ [Next]_vars => (TypeOK /\ ChunksHeld /\ QuotaHeld)'
  BY NextTypes, NextChunks, NextQuota
<1>3. TypeOK /\ QuotaHeld => QuotaOvershootBounded
  <2> SUFFICES ASSUME TypeOK, QuotaHeld PROVE QuotaOvershootBounded
    OBVIOUS
  <2>1. Sum(Claims(req), Requests) \in Nat /\ storage \in Int
    BY ClaimsKnown, ClaimsType DEF TypeOK
  <2>2. (Cardinality(Requests) - 1) * ChunkSize \in Int
    <3>1. Cardinality(Requests) - 1 \in Int
      BY FS_CardinalityType
    <3> QED BY <3>1
  <2> QED BY <2>1, <2>2 DEF QuotaHeld, QuotaOvershootBounded
<1> QED BY <1>1, <1>2, <1>3, PTL DEF Spec

----------------------------------------------------------------------------
(* Promoted files are complete *)

\* The chunk that unit k of a file belongs to, and a file whose units are those
\* of the announced file as far as it goes.
ChunkOf(k) == IF ChunkSize = 0 THEN 0 ELSE (k - 1) \div ChunkSize
Prefix(data) == \A k \in 1 .. Len(data) : data[k] = ChunkOf(k)

\* What a request q knows of the file f and the record w of its session.
FileOK(q, w, f, fl) ==
    LET start == AppendStart(q.idx)
        end == start + ChunkLength(q.s, q.idx)
    IN  /\ ~q.gone /\ q.cancel # "truncate"
        /\ q.pc \in {"lookup", "exists", "open"} => q.written = 0
        /\ q.pc \in Holding => (ChunkSize = 0 => q.idx = 0)
        /\ q.pc = "write" => /\ f.exists /\ q.linked
                             /\ Len(f.data) = start + q.written
                             /\ start + q.written <= end
        /\ q.pc \in {"sized", "pop", "undo"} => f.exists /\ Len(f.data) = end
        /\ q.pc \in {"sized", "pop"} => w.md5 = f.data \/ fl > 0
        /\ q.pc = "pop" => IsLastChunk(q.s, q.idx) /\ w.size = Total[q.s]

\* A delete has read the sizes that its records still have.
DeleterOK(d) ==
    /\ del[d].pc = "idle" => del[d].targets = {}
    /\ del[d].pc \in {"cancel", "unlink", "rows"} =>
          \A s \in del[d].targets : row[s].exists /\ row[s].size = del[d].size[s]

\* The inductive invariant of PromotedComplete, with RowsHeld and ChunksHeld:
\* every file is a prefix of what its client meant to upload.
FilesHeld ==
    /\ \A s \in Sessions : Prefix(phys[s].data)
    /\ \A r \in Requests : FileOK(req[r], row[req[r].s], phys[req[r].s], faults)
    /\ \A d \in Deleters : DeleterOK(d)
    /\ PromotedComplete

\* Unit w of chunk i, counted from 0, is unit ChunkSize * i + w of the file.
LEMMA ChunkOfUnit ==
    ASSUME NEW i \in Nat, NEW w \in Nat, ChunkSize = 0 => i = 0, ChunkSize > 0 => w < ChunkSize
    PROVE  ChunkOf(AppendStart(i) + w + 1) = i
<1>1. CASE ChunkSize = 0
  BY <1>1 DEF ChunkOf
<1>2. CASE ChunkSize > 0
  <2>1. ChunkSize \in Nat /\ ChunkSize * i \in Nat
    OBVIOUS
  <2>2. (ChunkSize * i + w) \div ChunkSize = i
    BY <1>2, <2>1, SMTT(30)
  <2>3. ASSUME NEW k \in Int, k = ChunkSize * i + w + 1 PROVE ChunkOf(k) = i
    <3>1. k - 1 = ChunkSize * i + w /\ ChunkSize # 0
      BY <1>2, <2>1, <2>3
    <3>2. ChunkOf(k) = (k - 1) \div ChunkSize
      BY <3>1 DEF ChunkOf
    <3> QED BY <2>2, <3>1, <3>2
  <2> QED BY <2>1, <2>3 DEF AppendStart
<1> QED BY <1>1, <1>2

\* Cutting a prefix gives a prefix, as long as what was asked for.
LEMMA TruncatePrefix ==
    ASSUME NEW data \in Seq(Int), NEW n \in Nat, n <= Len(data), Prefix(data)
    PROVE  Len(TruncateTo(data, n)) = n /\ Prefix(TruncateTo(data, n))
<1>1. Len(data) \in Nat
  OBVIOUS
<1>2. \A k \in 1 .. n : TruncateTo(data, n)[k] = data[k]
  BY <1>1 DEF TruncateTo
<1>3. TruncateTo(data, n) \in Seq(Int) /\ DOMAIN TruncateTo(data, n) = 1 .. n
  BY TruncateIsSeq DEF TruncateTo
<1>4. Len(TruncateTo(data, n)) = n
  BY <1>3
<1> QED BY <1>1, <1>2, <1>4 DEF Prefix

\* The next unit of the announced file prolongs a prefix.
LEMMA AppendPrefix ==
    ASSUME NEW data \in Seq(Int), Prefix(data), NEW v \in Int, v = ChunkOf(Len(data) + 1)
    PROVE  Len(Append(data, v)) = Len(data) + 1 /\ Prefix(Append(data, v))
<1>1. Len(data) \in Nat /\ Len(Append(data, v)) = Len(data) + 1
  OBVIOUS
<1>2. \A k \in 1 .. Len(data) + 1 : Append(data, v)[k] = IF k <= Len(data) THEN data[k] ELSE v
  OBVIOUS
<1> QED BY <1>1, <1>2 DEF Prefix

\* A prefix of the announced length is the announced file.
LEMMA WholePrefix ==
    ASSUME NEW s \in Sessions, NEW data \in Seq(Int), Prefix(data), Len(data) = Total[s]
    PROVE  data = WholeFile(s)
<1>1. DOMAIN data = 1 .. Total[s] /\ data = [k \in 1 .. Total[s] |-> data[k]]
  OBVIOUS
<1>2. \A k \in 1 .. Total[s] : data[k] = WholeFile(s)[k]
  BY DEF Prefix, ChunkOf, WholeFile
<1> QED BY <1>1, <1>2 DEF WholeFile

\* The environment of the theorem: requests are not cut off by their clients,
\* and deletes do not overlap each other.
Calm == ~Disconnects /\ \A d, e \in Deleters : d = e

\* What the steps of a request do to its own file, and that a record is
\* promoted only with its whole file.
LEMMA RequestFile ==
    ASSUME Calm, TypeOK, TypeOK', NEW r \in Requests, Handle(r) \/ Cancel(r),
           RowOK(req[r], row[req[r].s], faults), ChunkOK(req[r]),
           FileOK(req[r], row[req[r].s], phys[req[r].s], faults),
           req[r].s \in Sessions => Prefix(phys[req[r].s].data)
    PROVE  LET s == req[r].s
           IN  /\ FileOK(req'[r], row'[s], phys'[s], faults')
               /\ s \in Sessions => Prefix(phys'[s].data)
               /\ \/ row'[s] = row[s] /\ phys'[s] = phys[s]
                  \/ row'[s].exists /\ row'[s].pending
                  \/ /\ row'[s].size = Total[s] /\ phys'[s] = [exists |-> TRUE, data |-> WholeFile(s)]
                     /\ row'[s].md5 = WholeFile(s) \/ faults' > 0
<1> USE DEF db, env
<1> DEFINE s == req[r].s
           start == AppendStart(req[r].idx)
           len == ChunkLength(s, req[r].idx)
           Goal == /\ FileOK(req'[r], row'[s], phys'[s], faults')
                   /\ s \in Sessions => Prefix(phys'[s].data)
                   /\ \/ row'[s] = row[s] /\ phys'[s] = phys[s]
                      \/ row'[s].exists /\ row'[s].pending
                      \/ /\ row'[s].size = Total[s] /\ phys'[s] = [exists |-> TRUE, data |-> WholeFile(s)]
                         /\ row'[s].md5 = WholeFile(s) \/ faults' > 0
<1>0. /\ req[r] \in Request /\ req = [t \in Requests |-> req[t]]
      /\ row = [t \in Sessions |-> row[t]] /\ phys = [t \in Sessions |-> phys[t]]
      /\ req[r].pc # "idle" => s \in Sessions /\ row[s] \in RowType /\ phys[s] \in FileType
      /\ start \in Nat /\ req[r].idx \in Nat /\ faults \in Nat
      /\ req[r].written \in Nat
  BY AppendStartIsNat DEF TypeOK, RequestsOK, Request
<1>1. ~req[r].gone /\ req[r].cancel # "truncate"
  BY DEF FileOK
<1>ret. Return(r).pc = "idle" /\ ~Return(r).gone /\ Return(r).cancel # "truncate"
  BY <1>0, <1>1 DEF Return, Request
<1>idle. ASSUME req'[r] = Return(r) PROVE FileOK(req'[r], row'[s], phys'[s], faults')
  BY <1>idle, <1>ret DEF FileOK, Holding
<1>len. ASSUME req[r].pc \in Holding
        PROVE  /\ len \in Nat /\ start <= start + len /\ start + len <= Total[s]
               /\ ChunkSize > 0 => len <= ChunkSize
               /\ IsLastChunk(s, req[r].idx) => start + len = Total[s]
               /\ s \in Sessions /\ Total[s] \in Nat
  <2>1. s \in Sessions /\ start <= Total[s]
    BY <1>0, <1>len DEF ChunkOK, Holding
  <2> QED BY <1>0, <2>1, ChunkBounds
<1>pend. ASSUME row'[s].exists, row'[s].pending, FileOK(req'[r], row'[s], phys'[s], faults'),
                s \in Sessions => Prefix(phys'[s].data)
         PROVE  Goal
  BY <1>pend
<1>keep. ASSUME row'[s] = row[s], phys'[s] = phys[s], FileOK(req'[r], row'[s], phys'[s], faults')
         PROVE  Goal
  BY <1>keep
<1>2. CASE LookupPlaceholder(r)
  <2>1. row' = row /\ phys' = phys
    BY <1>2 DEF LookupPlaceholder
  <2>2. CASE req'[r] = Return(r)
    BY <1>idle, <1>keep, <2>1, <2>2
  <2>3. CASE req'[r] # Return(r)
    <3>1. /\ req'[r] = [req[r] EXCEPT !.pc = "exists", !.size = row[s].size, !.cancel = "armed"]
          /\ ChunkSize = 0 => req[r].idx = 0
      BY <1>0, <1>2, <2>3 DEF LookupPlaceholder
    <3>2. /\ req'[r].pc = "exists" /\ req'[r].cancel = "armed" /\ req'[r].gone = req[r].gone
          /\ req'[r].written = req[r].written /\ req'[r].idx = req[r].idx
      BY <1>0, <3>1 DEF Request
    <3>3. req[r].written = 0
      BY <1>2 DEF LookupPlaceholder, FileOK
    <3>4. FileOK(req'[r], row'[s], phys'[s], faults')
      BY <1>1, <3>1, <3>2, <3>3 DEF FileOK, Holding
    <3> QED BY <1>keep, <2>1, <3>4
  <2> QED BY <2>2, <2>3
<1>3. CASE PutCheckExists(r)
  <2>1. row' = row /\ phys' = phys
    BY <1>3 DEF PutCheckExists
  <2>2. CASE req'[r] = Return(r)
    BY <1>idle, <1>keep, <2>1, <2>2
  <2>3. CASE req'[r] # Return(r)
    <3>1. req'[r] = [req[r] EXCEPT !.pc = "open"] /\ req[r].pc = "exists"
      BY <1>0, <1>3, <2>3 DEF PutCheckExists
    <3>2. /\ req'[r].pc = "open" /\ req'[r].cancel = req[r].cancel /\ req'[r].gone = req[r].gone
          /\ req'[r].written = req[r].written /\ req'[r].idx = req[r].idx
      BY <1>0, <3>1 DEF Request
    <3>4. FileOK(req'[r], row'[s], phys'[s], faults')
      BY <1>1, <3>1, <3>2 DEF FileOK, Holding
    <3> QED BY <1>keep, <2>1, <3>4
  <2> QED BY <2>2, <2>3
<1>4. CASE PutOpen(r)
  <2>1. row' = row /\ req[r].pc = "open" /\ row[s].exists /\ row[s].pending /\ s \in Sessions
        /\ phys[s] \in FileType /\ phys[s].data \in Seq(Int)
    BY <1>0, <1>4 DEF PutOpen, RowOK, Holding, FileType
  <2>2. CASE Len(phys[s].data) < start
    <3>1. phys' = [phys EXCEPT ![s].exists = TRUE] /\ req'[r] = Return(r)
      BY <1>0, <1>4, <2>1, <2>2 DEF PutOpen
    <3>2. phys'[s].data = phys[s].data
      BY <1>0, <2>1, <3>1 DEF FileType
    <3> QED BY <1>idle, <1>pend, <2>1, <3>1, <3>2
  <2>3. CASE Len(phys[s].data) >= start
    <3>1. /\ phys' = [phys EXCEPT ![s] = [exists |-> TRUE, data |-> TruncateTo(phys[s].data, start)]]
          /\ req' = [req EXCEPT ![r].pc = "write", ![r].linked = TRUE]
      BY <1>0, <1>4, <2>1, <2>3 DEF PutOpen
    <3>2. phys'[s].exists = TRUE /\ phys'[s].data = TruncateTo(phys[s].data, start)
      BY <1>0, <2>1, <3>1
    <3>3. Len(phys'[s].data) = start /\ Prefix(phys'[s].data)
      BY <1>0, <2>1, <2>3, <3>2, TruncatePrefix
    <3>4. /\ req'[r].pc = "write" /\ req'[r].cancel = req[r].cancel /\ req'[r].gone = req[r].gone
          /\ req'[r].written = req[r].written /\ req'[r].idx = req[r].idx /\ req'[r].s = s
          /\ req'[r].linked = TRUE
      BY <1>0, <3>1 DEF Request
    <3>5. req[r].written = 0 /\ (ChunkSize = 0 => req[r].idx = 0)
      BY <2>1 DEF FileOK, Holding
    <3>6. start + 0 = start /\ start <= start + len
      BY <1>0, <1>len, <2>1 DEF Holding
    <3>7. FileOK(req'[r], row'[s], phys'[s], faults')
      BY <1>1, <3>2, <3>3, <3>4, <3>5, <3>6 DEF FileOK, Holding
    <3> QED BY <1>pend, <2>1, <3>3, <3>7
  <2>4. Len(phys[s].data) < start \/ Len(phys[s].data) >= start
    BY <1>0, <1>4, <2>1 DEF PutOpen
  <2> QED BY <2>2, <2>3, <2>4
<1>5. CASE PutWrite(r)
  <2>1. /\ row' = row /\ req[r].pc = "write" /\ row[s].exists /\ row[s].pending /\ s \in Sessions
        /\ phys[s] \in FileType /\ phys[s].data \in Seq(Int) /\ req[r].written < len
        /\ phys[s].exists /\ req[r].linked /\ Len(phys[s].data) = start + req[r].written
        /\ ChunkSize = 0 => req[r].idx = 0
    BY <1>0, <1>5 DEF PutWrite, RowOK, Holding, FileType, FileOK
  <2>2. phys' = [phys EXCEPT ![s].data = Append(phys[s].data, req[r].idx)]
    BY <1>0, <1>5, <2>1 DEF PutWrite
  <2>3. phys'[s].exists = phys[s].exists /\ phys'[s].data = Append(phys[s].data, req[r].idx)
    BY <1>0, <2>1, <2>2 DEF FileType
  <2>4. len \in Nat /\ (ChunkSize > 0 => len <= ChunkSize)
    BY <1>len, <2>1 DEF Holding
  <2>5. ChunkOf(Len(phys[s].data) + 1) = req[r].idx
    <3>1. ChunkSize > 0 => req[r].written < ChunkSize
      BY <1>0, <2>1, <2>4
    <3>2. ChunkOf(start + req[r].written + 1) = req[r].idx
      <4>1. req[r].idx \in Nat /\ req[r].written \in Nat /\ (ChunkSize = 0 => req[r].idx = 0)
        BY <1>0, <2>1
      <4> QED BY <3>1, <4>1, ChunkOfUnit
    <3> QED BY <2>1, <3>2
  <2>6. Len(phys'[s].data) = Len(phys[s].data) + 1 /\ Prefix(phys'[s].data)
    <3>1. req[r].idx \in Int /\ req[r].idx = ChunkOf(Len(phys[s].data) + 1)
      BY <1>0, <2>5
    <3>2. phys[s].data \in Seq(Int) /\ Prefix(phys[s].data)
      BY <2>1
    <3> QED BY <2>3, <3>1, <3>2, AppendPrefix
  <2>7. /\ req'[r].pc = "write" /\ req'[r].cancel = req[r].cancel /\ req'[r].gone = req[r].gone
        /\ req'[r].written = req[r].written + 1 /\ req'[r].idx = req[r].idx /\ req'[r].s = s
        /\ req'[r].linked = req[r].linked
    BY <1>0, <1>5 DEF PutWrite, Request
  <2>8. /\ Len(phys'[s].data) = start + (req[r].written + 1)
        /\ start + (req[r].written + 1) <= start + len
    BY <1>0, <2>1, <2>4, <2>6
  <2>9. FileOK(req'[r], row'[s], phys'[s], faults')
    BY <1>1, <2>1, <2>3, <2>7, <2>8 DEF FileOK, Holding
  <2> QED BY <1>pend, <2>1, <2>6, <2>9
<1>6. CASE PutBroken(r)
  BY <1>1, <1>6 DEF PutBroken
<1>7. CASE UpdateMD5(r)
  <2>1. /\ req[r].pc = "write" /\ row[s].exists /\ row[s].pending /\ s \in Sessions
        /\ phys' = phys /\ req[r].written = len
        /\ phys[s].exists /\ Len(phys[s].data) = start + req[r].written
        /\ ChunkSize = 0 => req[r].idx = 0
    BY <1>0, <1>7 DEF UpdateMD5, RowOK, Holding, FileOK
  <2>2. row' = [row EXCEPT ![s].md5 = phys[s].data] \/ (row' = row /\ faults' = faults + 1)
    BY <1>7, <2>1 DEF UpdateMD5
  <2>3. row'[s].exists /\ row'[s].pending /\ (row'[s].md5 = phys[s].data \/ faults' > 0)
    <3>1. CASE row' = [row EXCEPT ![s].md5 = phys[s].data]
      BY <1>0, <2>1, <3>1 DEF RowType
    <3>2. CASE row' = row /\ faults' = faults + 1
      BY <1>0, <2>1, <3>2
    <3> QED BY <2>2, <3>1, <3>2
  <2>4. /\ req'[r].pc = "sized" /\ req'[r].cancel = req[r].cancel /\ req'[r].gone = req[r].gone
        /\ req'[r].idx = req[r].idx /\ req'[r].s = s
    BY <1>0, <1>7 DEF UpdateMD5, Request
  <2>5. FileOK(req'[r], row'[s], phys'[s], faults')
    BY <1>1, <2>1, <2>3, <2>4 DEF FileOK, Holding
  <2> QED BY <1>pend, <2>1, <2>3, <2>5
<1>8. CASE HookChunkUploaded(r)
  <2> DEFINE value == start + len
             Q(pc, sz) == [req[r] EXCEPT !.pc = pc, !.size = sz]
  <2>1. /\ req[r].pc = "sized" /\ row[s].exists /\ row[s].pending /\ row[s].size = req[r].size
        /\ s \in Sessions /\ phys' = phys /\ phys[s].exists /\ Len(phys[s].data) = start + len
        /\ row[s].md5 = phys[s].data \/ faults > 0
        /\ ChunkSize = 0 => req[r].idx = 0
    BY <1>0, <1>8 DEF HookChunkUploaded, RowOK, Holding, Unsized, FileOK
  <2>2. \A pc, sz : /\ Q(pc, sz).pc = pc /\ Q(pc, sz).s = s /\ Q(pc, sz).idx = req[r].idx
                    /\ Q(pc, sz).gone = req[r].gone /\ Q(pc, sz).cancel = req[r].cancel
    BY <1>0 DEF Request
  <2>3. CASE UpdateSize(s, req[r].size, value) /\ faults' = faults
    <3>1. row' = [row EXCEPT ![s].size = value]
      BY <2>1, <2>3 DEF UpdateSize
    <3>2. /\ row'[s].exists /\ row'[s].pending /\ row'[s].size = value
          /\ row'[s].md5 = row[s].md5
      BY <1>0, <2>1, <3>1 DEF RowType
    <3>3. req'[r] = Return(r) \/ (IsLastChunk(s, req[r].idx) /\ req'[r] = Q("pop", value))
      <4>1. req' = [req EXCEPT ![r] = IF IsLastChunk(s, req[r].idx) THEN Q("pop", value) ELSE Return(r)]
            \/ faults' = faults + 1
        BY <1>8 DEF HookChunkUploaded
      <4>2. faults' # faults + 1
        BY <1>0, <2>3
      <4> QED BY <1>0, <4>1, <4>2
    <3>4. CASE req'[r] = Return(r)
      BY <1>idle, <1>pend, <2>1, <3>2, <3>4
    <3>5. CASE IsLastChunk(s, req[r].idx) /\ req'[r] = Q("pop", value)
      <4>1. value = Total[s]
        BY <1>len, <2>1, <3>5 DEF Holding
      <4>2. FileOK(req'[r], row'[s], phys'[s], faults')
        BY <1>1, <2>1, <2>2, <2>3, <3>2, <3>5, <4>1 DEF FileOK, Holding
      <4> QED BY <1>pend, <2>1, <3>2, <4>2
    <3> QED BY <3>3, <3>4, <3>5
  <2>4. CASE row' = row /\ faults' = faults + 1 /\ \E sz : req'[r] = Q("undo", sz)
    <3>1. FileOK(req'[r], row'[s], phys'[s], faults')
      BY <1>1, <2>1, <2>2, <2>4 DEF FileOK, Holding
    <3> QED BY <1>pend, <2>1, <2>4, <3>1
  <2>5. \/ UpdateSize(s, req[r].size, value) /\ faults' = faults
        \/ row' = row /\ faults' = faults + 1 /\ \E sz : req'[r] = Q("undo", sz)
    <3>1. \/ UpdateSize(s, req[r].size, value) /\ faults' = faults
          \/ row' = row /\ faults' = faults + 1 /\ \E sz : req' = [req EXCEPT ![r] = Q("undo", sz)]
      BY <1>8 DEF HookChunkUploaded
    <3> QED BY <1>0, <3>1
  <2> QED BY <2>3, <2>4, <2>5
<1>9. CASE HookPopPlaceholderToFile(r)
  <2>1. /\ req[r].pc = "pop" /\ row[s].exists /\ row[s].pending
        /\ s \in Sessions /\ phys' = phys /\ phys[s].exists /\ Len(phys[s].data) = start + len
        /\ row[s].md5 = phys[s].data \/ faults > 0
        /\ ChunkSize = 0 => req[r].idx = 0
        /\ IsLastChunk(s, req[r].idx) /\ row[s].size = Total[s]
    BY <1>0, <1>9 DEF HookPopPlaceholderToFile, RowOK, Holding, Unsized, FileOK
  <2>2. CASE row' = row /\ req' = [req EXCEPT ![r].pc = "undo"]
    <3>1. /\ req'[r].pc = "undo" /\ req'[r].cancel = req[r].cancel /\ req'[r].gone = req[r].gone
          /\ req'[r].idx = req[r].idx /\ req'[r].s = s
      BY <1>0, <2>2 DEF Request
    <3>2. FileOK(req'[r], row'[s], phys'[s], faults')
      BY <1>1, <2>1, <3>1 DEF FileOK, Holding
    <3> QED BY <1>pend, <2>1, <2>2, <3>2
  <2>3. CASE row' = [row EXCEPT ![s].pending = FALSE] /\ req' = [req EXCEPT ![r].pc = "forget"]
             /\ faults' = faults
    <3>1. /\ req'[r].pc = "forget" /\ req'[r].cancel = req[r].cancel /\ req'[r].gone = req[r].gone
      BY <1>0, <2>3 DEF Request
    <3>2. FileOK(req'[r], row'[s], phys'[s], faults')
      BY <1>1, <2>1, <3>1 DEF FileOK, Holding
    <3>3. row'[s].size = Total[s] /\ row'[s].md5 = row[s].md5
      BY <1>0, <2>1, <2>3 DEF RowType
    <3>4. phys[s].data \in Seq(Int) /\ Len(phys[s].data) = Total[s] /\ phys[s] \in FileType
      BY <1>0, <1>len, <2>1 DEF Holding, FileType
    <3>5. phys[s].data = WholeFile(s)
      BY <2>1, <3>4, WholePrefix
    <3>6. phys[s] = [exists |-> TRUE, data |-> WholeFile(s)]
      BY <2>1, <3>4, <3>5 DEF FileType
    <3> QED BY <2>1, <2>3, <3>2, <3>3, <3>5, <3>6
  <2> QED BY <1>9, <2>1, <2>2, <2>3 DEF HookPopPlaceholderToFile
<1>10. CASE HookDeleteUploadSession(r)
  <2>1. row' = row /\ phys' = phys /\ req'[r] = Return(r)
    BY <1>0, <1>10 DEF HookDeleteUploadSession
  <2> QED BY <1>idle, <1>keep, <2>1
<1>11. CASE HookTruncateFile(r)
  <2>1. /\ req[r].pc = "undo" /\ row[s].exists /\ row[s].pending /\ row' = row /\ faults' = faults
        /\ s \in Sessions /\ phys[s].exists /\ Len(phys[s].data) = start + len
        /\ ChunkSize = 0 => req[r].idx = 0
        /\ phys[s].data \in Seq(Int) /\ phys[s] \in FileType
    BY <1>0, <1>11 DEF HookTruncateFile, RowOK, Holding, FileOK, FileType
  <2>2. /\ phys' = [phys EXCEPT ![s].data = TruncateTo(phys[s].data, start)]
        /\ req' = [req EXCEPT ![r].pc = "undosize"]
    BY <1>0, <1>11, <2>1 DEF HookTruncateFile
  <2>3. phys'[s].data = TruncateTo(phys[s].data, start)
    BY <1>0, <2>1, <2>2 DEF FileType
  <2>4. start <= Len(phys[s].data)
    BY <1>len, <2>1 DEF Holding
  <2>5. Prefix(phys'[s].data)
    BY <1>0, <2>1, <2>3, <2>4, TruncatePrefix
  <2>6. /\ req'[r].pc = "undosize" /\ req'[r].cancel = req[r].cancel /\ req'[r].gone = req[r].gone
        /\ req'[r].idx = req[r].idx /\ req'[r].s = s
    BY <1>0, <2>2 DEF Request
  <2>7. FileOK(req'[r], row'[s], phys'[s], faults')
    BY <1>1, <2>1, <2>6 DEF FileOK, Holding
  <2> QED BY <1>pend, <2>1, <2>5, <2>7
<1>12. CASE HookChunkUploadFailed(r)
  <2>1. /\ req[r].pc = "undosize" /\ row[s].exists /\ row[s].pending /\ phys' = phys
        /\ s \in Sessions /\ req'[r] = Return(r)
        /\ row' = row \/ row' = [row EXCEPT ![s].size = start]
    BY <1>0, <1>12 DEF HookChunkUploadFailed, RowOK, Holding, UpdateSize
  <2>2. row'[s].exists /\ row'[s].pending
    <3>1. CASE row' = row
      BY <2>1, <3>1
    <3>2. CASE row' = [row EXCEPT ![s].size = start]
      BY <1>0, <2>1, <3>2 DEF RowType
    <3> QED BY <2>1, <3>1, <3>2
  <2> QED BY <1>idle, <1>pend, <2>1, <2>2
<1>13. CASE ClientGone(r)
  BY <1>13 DEF ClientGone, Calm
<1>14. CASE CancelUploadDecide(r)
  BY <1>1, <1>14 DEF CancelUploadDecide
<1>15. CASE CancelUploadTruncate(r)
  BY <1>1, <1>15 DEF CancelUploadTruncate
<1> QED
  BY <1>2, <1>3, <1>4, <1>5, <1>6, <1>7, <1>8, <1>9, <1>10, <1>11, <1>12, <1>13, <1>14, <1>15
     DEF Handle, Cancel

\* A delete, a restart or a failure may have left the record of s without content.
Excused(s) == Deleting(s) \/ crashes > 0 \/ faults > 0

\* A step of a request leaves the other sessions alone.
LEMMA RequestFilesHeld ==
    ASSUME Calm, TypeOK, TypeOK', RowsHeld, ChunksHeld, FilesHeld,
           NEW r \in Requests, Handle(r) \/ Cancel(r)
    PROVE  FilesHeld'
<1> DEFINE s == req[r].s
<1>1. Busy(r) /\ s \in Sessions
  <2>1. ~req[r].gone /\ req[r].cancel # "truncate"
    BY DEF FilesHeld, FileOK
  <2>2. Busy(r)
    BY <2>1 DEF Busy, Handle, Cancel, Calm, LookupPlaceholder, PutCheckExists, PutOpen, PutWrite,
       PutBroken, UpdateMD5, HookChunkUploaded, HookPopPlaceholderToFile, HookDeleteUploadSession,
       HookTruncateFile, HookChunkUploadFailed, ClientGone, CancelUploadDecide, CancelUploadTruncate
  <2> QED BY <2>2 DEF Busy, TypeOK, RequestsOK
<1>2. /\ req'[r].s = s
      /\ \A t \in Requests \ {r} : req'[t] = req[t]
      /\ del' = del /\ crashes' = crashes /\ faults' \in Nat /\ faults \in Nat /\ faults' >= faults
      /\ \A t \in Sessions \ {s} : row'[t] = row[t] /\ phys'[t] = phys[t]
  BY RequestStep DEF TypeOK
<1>3. /\ FileOK(req'[r], row'[s], phys'[s], faults')
      /\ Prefix(phys'[s].data)
      /\ \/ row'[s] = row[s] /\ phys'[s] = phys[s]
         \/ row'[s].exists /\ row'[s].pending
         \/ /\ row'[s].size = Total[s] /\ phys'[s] = [exists |-> TRUE, data |-> WholeFile(s)]
            /\ row'[s].md5 = WholeFile(s) \/ faults' > 0
  <2>1. /\ RowOK(req[r], row[req[r].s], faults) /\ ChunkOK(req[r])
        /\ FileOK(req[r], row[req[r].s], phys[req[r].s], faults)
        /\ Prefix(phys[req[r].s].data)
    BY <1>1 DEF RowsHeld, ChunksHeld, FilesHeld
  <2> HIDE DEF s
  <2>2. LET t == req[r].s
           IN  /\ FileOK(req'[r], row'[t], phys'[t], faults')
               /\ t \in Sessions => Prefix(phys'[t].data)
               /\ \/ row'[t] = row[t] /\ phys'[t] = phys[t]
                  \/ row'[t].exists /\ row'[t].pending
                  \/ /\ row'[t].size = Total[t] /\ phys'[t] = [exists |-> TRUE, data |-> WholeFile(t)]
                     /\ row'[t].md5 = WholeFile(t) \/ faults' > 0
    BY <2>1, RequestFile
  <2> QED BY <1>1, <2>2, Zenon DEF s
<1>4. ASSUME NEW t \in Requests PROVE FileOK(req'[t], row'[req'[t].s], phys'[req'[t].s], faults')
  <2>1. CASE t = r
    BY <1>2, <1>3, <2>1
  <2>2. CASE t # r /\ ~Busy(t)
    BY <1>2, <2>2 DEF FilesHeld, FileOK, Busy, Holding
  <2>3. CASE t # r /\ Busy(t)
    <3>1. req[t].s \in Sessions \ {s} /\ req'[t] = req[t]
      BY <1>1, <1>2, <2>3 DEF RowsHeld, Exclusive, Busy, TypeOK, RequestsOK
    <3>2. row'[req[t].s] = row[req[t].s] /\ phys'[req[t].s] = phys[req[t].s]
      BY <1>2, <3>1
    <3>3. FileOK(req[t], row[req[t].s], phys[req[t].s], faults)
      BY DEF FilesHeld
    <3>4. faults > 0 => faults' > 0
      BY <1>2
    <3> QED BY <3>1, <3>2, <3>3, <3>4 DEF FileOK
  <2> QED BY <2>1, <2>2, <2>3
<1>5. ASSUME NEW d \in Deleters PROVE DeleterOK(d)'
  <2>1. del'[d] = del[d] /\ DeleterOK(d) /\ del[d].targets \subseteq Sessions \ {s}
    BY <1>1, <1>2 DEF FilesHeld, RowsHeld, Exclusive, Deleting, TypeOK, Deleter
  <2> QED BY <1>2, <2>1 DEF DeleterOK
<1>6. PromotedComplete'
  <2> SUFFICES ASSUME NEW t \in Sessions, row'[t].exists, ~row'[t].pending
               PROVE  /\ row'[t].size = Total[t]
                      /\ row'[t].md5 = WholeFile(t) \/ faults' > 0
                      /\ \/ phys'[t] = [exists |-> TRUE, data |-> WholeFile(t)]
                         \/ phys'[t] = NoFile /\ (Deleting(t)' \/ crashes' > 0 \/ faults' > 0)
    BY DEF PromotedComplete, NoFile, WholeFile
  <2>1. Deleting(t)' = Deleting(t) /\ (faults > 0 => faults' > 0)
    BY <1>2 DEF Deleting
  <2>2. CASE row'[t] = row[t] /\ phys'[t] = phys[t]
    BY <1>2, <2>1, <2>2 DEF FilesHeld, PromotedComplete
  <2>3. CASE t = s /\ row'[s].size = Total[s] /\ phys'[s] = [exists |-> TRUE, data |-> WholeFile(s)]
            /\ (row'[s].md5 = WholeFile(s) \/ faults' > 0)
    BY <2>3
  <2> QED BY <1>2, <1>3, <2>2, <2>3
<1>7. \A t \in Sessions : Prefix(phys'[t].data)
  BY <1>1, <1>2, <1>3 DEF FilesHeld
<1> QED BY <1>4, <1>5, <1>6, <1>7 DEF FilesHeld, Prefix, ChunkOf, PromotedComplete, NoFile

\* Steps that promote nothing, and excuse what they delete, keep FilesHeld.
LEMMA FilesKept ==
    ASSUME TypeOK, TypeOK', FilesHeld, faults' >= faults,
           \A r \in Requests :
              \/ /\ req'[r].pc = "idle" \/ (req'[r].pc = "lookup" /\ req'[r].written = 0)
                 /\ ~req'[r].gone /\ req'[r].cancel # "truncate"
              \/ /\ req'[r] = req[r]
                 /\ Busy(r) => row'[req[r].s] = row[req[r].s] /\ phys'[req[r].s] = phys[req[r].s],
           \A s \in Sessions : phys'[s] \in {phys[s], NoFile},
           \A d \in Deleters : DeleterOK(d)',
           \A s \in Sessions : row'[s].exists /\ ~row'[s].pending =>
              /\ row'[s] = row[s]
              /\ \/ phys'[s] = phys[s] /\ (phys[s].exists \/ (Excused(s) => Excused(s)'))
                 \/ phys'[s] = NoFile /\ Excused(s)'
    PROVE  FilesHeld'
<1>0. faults \in Nat /\ faults' \in Nat
  BY DEF TypeOK
<1>1. \A s \in Sessions : Prefix(phys'[s].data)
  BY DEF FilesHeld, NoFile, Prefix
<1>2. ASSUME NEW r \in Requests PROVE FileOK(req'[r], row'[req'[r].s], phys'[req'[r].s], faults')
  <2>1. CASE (req'[r].pc = "idle" \/ (req'[r].pc = "lookup" /\ req'[r].written = 0))
             /\ ~req'[r].gone /\ req'[r].cancel # "truncate"
    BY <2>1 DEF FileOK, Holding
  <2>2. CASE req'[r] = req[r] /\ ~Busy(r)
    BY <2>2 DEF FilesHeld, FileOK, Holding, Busy
  <2>3. CASE /\ req'[r] = req[r] /\ row'[req[r].s] = row[req[r].s]
             /\ phys'[req[r].s] = phys[req[r].s]
    <3>1. FileOK(req[r], row[req[r].s], phys[req[r].s], faults)
      BY DEF FilesHeld
    <3>2. faults > 0 => faults' > 0
      BY <1>0
    <3> QED BY <2>3, <3>1, <3>2 DEF FileOK
  <2> QED BY <2>1, <2>2, <2>3
<1>3. ASSUME NEW s \in Sessions, row'[s].exists, ~row'[s].pending
      PROVE  /\ row'[s].size = Total[s]
             /\ row'[s].md5 = WholeFile(s) \/ faults' > 0
             /\ \/ phys'[s] = [exists |-> TRUE, data |-> WholeFile(s)]
                \/ phys'[s] = NoFile /\ Excused(s)'
  <2>1. /\ row'[s] = row[s]
        /\ \/ phys'[s] = phys[s] /\ (phys[s].exists \/ (Excused(s) => Excused(s)'))
           \/ phys'[s] = NoFile /\ Excused(s)'
    BY <1>3
  <2>2. /\ row[s].size = Total[s]
        /\ row[s].md5 = WholeFile(s) \/ faults > 0
        /\ \/ phys[s] = [exists |-> TRUE, data |-> WholeFile(s)]
           \/ phys[s] = NoFile /\ Excused(s)
    BY <1>3, <2>1 DEF FilesHeld, PromotedComplete, Excused
  <2>3. ~NoFile.exists /\ (faults > 0 => faults' > 0)
    BY <1>0 DEF NoFile
  <2> QED BY <2>1, <2>2, <2>3
<1>4. PromotedComplete'
  BY <1>3 DEF PromotedComplete, Excused, WholeFile, NoFile
<1> QED BY <1>1, <1>2, <1>4 DEF FilesHeld, Prefix, ChunkOf

\* An arriving request, CreateUploadSession, the TTL and the restart keep FilesHeld.
LEMMA SessionFilesHeld ==
    ASSUME TypeOK, TypeOK', RowsHeld, FilesHeld,
           \/ \E r \in Requests, s \in Sessions, i \in 0 .. MaxIndex : ReceiveChunk(r, s, i)
           \/ Create \/ (\E s \in Sessions : Expire(s)) \/ Crash \/ UNCHANGED vars
    PROVE  FilesHeld'
<1> USE DEF db, env
<1>0. /\ req = [r \in Requests |-> req[r]] /\ row = [s \in Sessions |-> row[s]]
      /\ faults \in Nat /\ crashes \in Nat /\ faults >= faults /\ faults + 1 >= faults
  BY DEF TypeOK, RequestsOK
<1>quiet. ASSUME req' = req, row' = row, phys' = phys, del' = del, crashes' = crashes,
                 faults' \in {faults, faults + 1}
          PROVE  FilesHeld'
  <2>1. \A d \in Deleters : DeleterOK(d)'
    BY <1>quiet DEF FilesHeld, DeleterOK
  <2>2. \A s \in Sessions : Excused(s) => Excused(s)'
    BY <1>0, <1>quiet DEF Excused, Deleting
  <2>3. faults' >= faults
    BY <1>0, <1>quiet
  <2> QED BY <1>quiet, <2>1, <2>2, <2>3, FilesKept
<1>1. ASSUME NEW r \in Requests, NEW s \in Sessions, NEW i \in 0 .. MaxIndex, ReceiveChunk(r, s, i)
      PROVE  FilesHeld'
  <2>1. UNCHANGED <<row, phys, del, faults, crashes>>
    BY <1>1 DEF ReceiveChunk
  <2>2. /\ req'[r].pc = "lookup" /\ req'[r].written = 0 /\ ~req'[r].gone /\ req'[r].cancel = "off"
        /\ \A t \in Requests \ {r} : req'[t] = req[t]
    BY <1>0, <1>1 DEF ReceiveChunk, IdleRequest
  <2>3. \A d \in Deleters : DeleterOK(d)'
    BY <2>1 DEF FilesHeld, DeleterOK
  <2>4. \A t \in Sessions : Excused(t) => Excused(t)'
    BY <2>1 DEF Excused, Deleting
  <2> QED BY <1>0, <2>1, <2>2, <2>3, <2>4, FilesKept
<1>2. ASSUME NEW s \in Sessions, CreateValidate(s) \/ CreateSession(s) \/ Expire(s) PROVE FilesHeld'
  BY <1>2, <1>quiet DEF CreateValidate, CreateSession, Expire
<1>3. ASSUME NEW s \in Sessions, CreatePlaceholder(s) PROVE FilesHeld'
  <2>1. UNCHANGED <<req, phys, del, crashes>> /\ faults' \in {faults, faults + 1}
    BY <1>3 DEF CreatePlaceholder
  <2>2. CASE row' = row
    BY <1>quiet, <2>1, <2>2
  <2>3. CASE row' # row
    <3> DEFINE new == [exists |-> TRUE, pending |-> TRUE, size |-> 0, md5 |-> NoDigest]
    <3>1. /\ ~row[s].exists /\ row' = [row EXCEPT ![s] = new] /\ faults' = faults
          /\ creating[s] = "validated"
      BY <1>3, <2>3 DEF CreatePlaceholder
    <3>2. row'[s] = new /\ \A t \in Sessions \ {s} : row'[t] = row[t]
      BY <1>0, <3>1
    <3>3. ASSUME NEW d \in Deleters PROVE DeleterOK(d)'
      <4>1. DeleterOK(d) /\ del'[d] = del[d] /\ del[d].targets \subseteq Sessions
        BY <2>1 DEF FilesHeld, TypeOK, Deleter
      <4> QED BY <3>1, <3>2, <4>1 DEF DeleterOK
    <3>4. \A t \in Sessions : Excused(t) => Excused(t)'
      BY <2>1, <3>1 DEF Excused, Deleting
    <3>5. \A r \in Requests : Busy(r) => row'[req[r].s] = row[req[r].s]
      BY <3>1, <3>2 DEF RowsHeld, Exclusive, Busy, TypeOK, RequestsOK
    <3>6. row'[s].pending
      BY <3>2
    <3> QED BY <1>0, <2>1, <3>1, <3>2, <3>3, <3>4, <3>5, <3>6, FilesKept
  <2> QED BY <2>2, <2>3
<1>4. ASSUME Crash PROVE FilesHeld'
  <2>1. UNCHANGED <<row, phys, faults>> /\ crashes' = crashes + 1
    BY <1>4 DEF Crash
  <2>2. \A r \in Requests : req'[r].pc = "idle" /\ req'[r].written = 0 /\ ~req'[r].gone
                            /\ req'[r].cancel = "off"
    BY <1>4 DEF Crash, IdleRequest
  <2>3. \A d \in Deleters : DeleterOK(d)'
    BY <1>4 DEF Crash, DeleterOK, IdleDeleter
  <2>4. \A s \in Sessions : Excused(s)'
    BY <1>0, <2>1 DEF Excused
  <2> QED BY <1>0, <2>1, <2>2, <2>3, <2>4, FilesKept
<1>5. ASSUME UNCHANGED vars PROVE FilesHeld'
  BY <1>5, <1>quiet DEF vars
<1> QED BY <1>1, <1>2, <1>3, <1>4, <1>5 DEF Create

\* Deletes remove the content of a record before the record, and lose track of
\* a record without content only when the database fails.
LEMMA DeleteFilesHeld ==
    ASSUME Calm, TypeOK, TypeOK', RowsHeld, FilesHeld, NEW d \in Deleters,
           Collect(d) \/ Delete(d) \/ \E T : RequestDelete(d, T)
    PROVE  FilesHeld'
<1> USE DEF db, env
<1>0. /\ row = [s \in Sessions |-> row[s]] /\ del = [e \in Deleters |-> del[e]]
      /\ del[d] \in Deleter /\ del'[d] \in Deleter /\ Deleters = {d}
      /\ faults \in Nat /\ crashes \in Nat /\ faults >= faults /\ faults + 1 >= faults
      /\ req \in [Requests -> Request]
  BY DEF TypeOK, RequestsOK, Calm
<1>one. DeleterOK(d) /\ (\A s : Deleting(s) <=> s \in del[d].targets)
        /\ (\A s : Deleting(s)' <=> s \in del'[d].targets)
  BY <1>0 DEF FilesHeld, Deleting
<1>busy. \A r \in Requests : Busy(r) => req[r].s \in Sessions \ del[d].targets
  BY <1>one DEF RowsHeld, Exclusive, Busy, TypeOK, RequestsOK
\* The bookkeeping steps only change the deleter's own notes.
<1>note. ASSUME UNCHANGED <<req, row, phys, faults, crashes>>, DeleterOK(d)',
                \A s \in del[d].targets : row[s].exists => s \in del'[d].targets
         PROVE  FilesHeld'
  <2>1. \A s \in Sessions : row'[s].exists => (Excused(s) => Excused(s)')
    BY <1>note, <1>one DEF Excused
  <2>2. \A e \in Deleters : DeleterOK(e)'
    BY <1>0, <1>note
  <2> QED BY <1>0, <1>note, <2>1, <2>2, FilesKept
<1>1. ASSUME NEW T, RequestDelete(d, T) PROVE FilesHeld'
  <2>1. /\ del'[d].pc = "list" /\ del[d].pc = "idle"
        /\ UNCHANGED <<req, row, phys, faults, crashes>>
    BY <1>0, <1>1 DEF RequestDelete, IdleDeleter
  <2> QED BY <1>note, <1>one, <2>1 DEF DeleterOK
<1>2. CASE CollectList(d)
  <2>1. /\ del'[d].pc = "check" /\ del[d].pc = "idle"
        /\ UNCHANGED <<req, row, phys, faults, crashes>>
    BY <1>0, <1>2 DEF CollectList, IdleDeleter
  <2> QED BY <1>note, <1>one, <2>1 DEF DeleterOK
<1>3. ASSUME NEW s \in Sessions, CollectCheck(d, s) PROVE FilesHeld'
  <2>1. /\ del'[d].pc = "check" /\ UNCHANGED <<req, row, phys, faults, crashes>>
        /\ del[d].targets \subseteq del'[d].targets
    <3> DEFINE D(T) == [del[d] EXCEPT !.todo = @ \ {s}, !.targets = T]
    <3>1. del'[d] = D(IF s \in cache THEN del[d].targets ELSE del[d].targets \cup {s})
          /\ del[d].pc = "check"
      BY <1>0, <1>3 DEF CollectCheck
    <3>2. \A T : D(T).pc = del[d].pc /\ D(T).targets = T
      BY <1>0 DEF Deleter
    <3> HIDE DEF D
    <3> QED BY <1>3, <3>1, <3>2 DEF CollectCheck
  <2> QED BY <1>note, <2>1 DEF DeleterOK
<1>4. CASE CollectDelete(d)
  <2>1. /\ del[d].pc = "check" /\ UNCHANGED <<req, row, phys, faults, crashes>>
        /\ del'[d] = IF del[d].targets = {} THEN IdleDeleter ELSE [del[d] EXCEPT !.pc = "list"]
    BY <1>0, <1>4 DEF CollectDelete
  <2>2. CASE del[d].targets = {}
    <3>1. del'[d].pc = "idle" /\ del'[d].targets = {}
      BY <2>1, <2>2 DEF IdleDeleter
    <3> QED BY <1>note, <2>1, <2>2, <3>1 DEF DeleterOK
  <2>3. CASE del[d].targets # {}
    <3>1. del'[d].pc = "list" /\ del'[d].targets = del[d].targets
      BY <1>0, <2>1, <2>3 DEF Deleter
    <3> QED BY <1>note, <2>1, <3>1 DEF DeleterOK
  <2> QED BY <2>2, <2>3
<1>5. CASE ListDeleteFiles(d)
  <2> DEFINE T == {s \in del[d].targets : row[s].exists}
  <2>1. /\ UNCHANGED <<req, row, phys, faults, crashes>>
        /\ del'[d] = [del[d] EXCEPT !.pc = "cancel", !.targets = T, !.size = RecordedSize(row),
                                    !.pend = {s \in T : row[s].pending}]
    BY <1>0, <1>5 DEF ListDeleteFiles
  <2>2. del'[d].pc = "cancel" /\ del'[d].targets = T /\ del'[d].size = RecordedSize(row)
    BY <1>0, <2>1 DEF Deleter
  <2>3. T \subseteq Sessions
    BY <1>0 DEF Deleter
  <2>4. DeleterOK(d)'
    BY <2>1, <2>2, <2>3 DEF DeleterOK, RecordedSize
  <2> QED BY <1>note, <2>1, <2>2, <2>4
<1>6. CASE CancelSessions(d)
  <2>1. /\ UNCHANGED <<req, row, phys, faults, crashes>> /\ del[d].pc = "cancel"
        /\ del'[d].pc = "unlink" /\ del'[d].targets = del[d].targets /\ del'[d].size = del[d].size
    BY <1>0, <1>6 DEF CancelSessions, Deleter
  <2> QED BY <1>note, <1>one, <2>1 DEF DeleterOK
<1>7. CASE DeletePhysical(d)
  <2>1. PICK failed \in SUBSET {s \in del[d].targets : phys[s].exists} :
          /\ faults' = IF failed # {} THEN faults + 1 ELSE faults
          /\ phys' = [s \in Sessions |-> IF s \in del[d].targets \ failed THEN NoFile ELSE phys[s]]
          /\ req' = [r \in Requests |->
                [req[r] EXCEPT !.linked = @ /\ req[r].s \notin del[d].targets \ failed]]
          /\ del' = [del EXCEPT ![d].pc = "rows", ![d].targets = del[d].targets \ failed]
    BY <1>7 DEF DeletePhysical
  <2>2. del[d].pc = "unlink" /\ UNCHANGED <<row, crashes>>
    BY <1>7 DEF DeletePhysical
  <2>3. /\ del'[d].pc = "rows" /\ del'[d].targets = del[d].targets \ failed
        /\ del'[d].size = del[d].size
    BY <1>0, <2>1 DEF Deleter
  <2>4. \A e \in Deleters : DeleterOK(e)'
    BY <1>0, <1>one, <2>2, <2>3 DEF DeleterOK
  <2>5. ASSUME NEW r \in Requests
        PROVE  \/ req'[r].pc = "idle" /\ ~req'[r].gone /\ req'[r].cancel # "truncate"
               \/ req'[r] = req[r] /\ (Busy(r) => phys'[req[r].s] = phys[req[r].s])
    <3>1. req[r] \in Request /\ ~req[r].gone /\ req[r].cancel # "truncate"
      BY <1>0 DEF FilesHeld, FileOK
    <3>2. CASE ~Busy(r)
      <4>1. /\ req'[r].pc = req[r].pc /\ req'[r].gone = req[r].gone /\ req'[r].cancel = req[r].cancel
        BY <2>1, <3>1 DEF Request
      <4> QED BY <3>1, <3>2, <4>1 DEF Busy
    <3>3. CASE Busy(r)
      <4>1. req[r].s \in Sessions \ del[d].targets
        BY <1>busy, <3>3
      <4>2. req'[r] = [req[r] EXCEPT !.linked = @ /\ req[r].s \notin del[d].targets \ failed]
        BY <2>1
      <4>3. (req[r].linked /\ req[r].s \notin del[d].targets \ failed) = req[r].linked
        BY <3>1, <4>1 DEF Request
      <4>4. req'[r] = req[r]
        BY <3>1, <4>2, <4>3 DEF Request
      <4> QED BY <2>1, <4>1, <4>4
    <3> QED BY <3>2, <3>3
  <2>6. ASSUME NEW s \in Sessions
        PROVE  \/ phys'[s] = phys[s] /\ (phys[s].exists \/ (Excused(s) => Excused(s)'))
               \/ phys'[s] = NoFile /\ Excused(s)'
    <3>1. CASE s \in del[d].targets \ failed
      BY <1>one, <2>1, <2>3, <3>1 DEF Excused
    <3>2. CASE s \in failed
      BY <2>1, <3>2
    <3>3. CASE s \notin del[d].targets
      <4>1. faults > 0 => faults' > 0
        BY <1>0, <2>1
      <4> QED BY <1>one, <2>1, <2>2, <3>3, <4>1 DEF Excused
    <3> QED BY <3>1, <3>2, <3>3
  <2>7. faults' >= faults
    BY <1>0, <2>1
  <2> QED BY <2>1, <2>2, <2>4, <2>5, <2>6, <2>7, FilesKept
<1>8. CASE DeleteFiles(d)
  <2>1. /\ del[d].pc = "rows" /\ UNCHANGED <<req, phys, crashes>>
        /\ del'[d].pc = "idle" /\ del'[d].targets = {}
    BY <1>0, <1>8 DEF DeleteFiles, IdleDeleter
  <2>2. \A e \in Deleters : DeleterOK(e)'
    BY <1>0, <2>1 DEF DeleterOK
  <2>3. CASE row' = row /\ faults' = faults + 1
    <3>1. \A s \in Sessions : Excused(s)'
      BY <1>0, <2>3 DEF Excused
    <3> QED BY <1>0, <2>1, <2>2, <2>3, <3>1, FilesKept
  <2>4. CASE /\ row' = [s \in Sessions |-> IF s \in del[d].targets THEN NoRow ELSE row[s]]
             /\ faults' = faults
    <3>1. \A s \in Sessions : row'[s].exists => s \notin del[d].targets /\ row'[s] = row[s]
      BY <2>4 DEF NoRow
    <3>2. \A s \in Sessions : s \notin del[d].targets => (Excused(s) => Excused(s)')
      BY <1>one, <2>1, <2>4 DEF Excused
    <3>3. \A r \in Requests : Busy(r) => row'[req[r].s] = row[req[r].s]
      BY <1>busy, <2>4
    <3> QED BY <1>0, <2>1, <2>2, <2>4, <3>1, <3>2, <3>3, FilesKept
  <2>5. ~(\E s \in del[d].targets : ~(row[s].exists /\ row[s].size = del[d].size[s]))
    BY <1>one, <2>1 DEF DeleterOK
  <2> QED BY <1>8, <2>3, <2>4, <2>5 DEF DeleteFiles
<1> QED BY <1>1, <1>2, <1>3, <1>4, <1>5, <1>6, <1>7, <1>8 DEF Collect, Delete

\* Every step keeps FilesHeld.
LEMMA NextFilesHeld ==
    ASSUME Calm, TypeOK, TypeOK', RowsHeld, ChunksHeld, FilesHeld, [Next]_vars PROVE FilesHeld'
<1>1. (\E r \in Requests : Handle(r) \/ Cancel(r)) => FilesHeld'
  BY RequestFilesHeld
<1>2. (\E d \in Deleters : Collect(d) \/ Delete(d) \/ \E T : RequestDelete(d, T)) => FilesHeld'
  BY DeleteFilesHeld
<1> QED BY <1>1, <1>2, SessionFilesHeld, StepKinds

\* At the start there are no files.
LEMMA InitFilesHeld == Init => FilesHeld
BY DEF Init, FilesHeld, Prefix, NoFile, FileOK, Holding, IdleRequest, DeleterOK, IdleDeleter,
       PromotedComplete, NoRow

\* With one chunk request per session at a time, connections that last and
\* deletes that overlap neither requests nor each other, a record that
\* PopChunkToFile promoted has the announced size, digest and content, however
\* often chunks are sent again, hooks fail and are undone, and the server
\* restarts.  (Overlapping deletes that share a record break it: once one has
\* removed the shared record, the other, which has already removed the content of
\* its files, finds a size "dirty" and keeps all their records.)
THEOREM PromotedCorrect ==
    ASSUME OneAtATime, Calm PROVE Spec => []PromotedComplete
<1>1. Init => TypeOK /\ RowsHeld /\ ChunksHeld /\ FilesHeld
  BY InitTypes, InitRowsHeld, InitChunks, InitFilesHeld
<1>2. TypeOK /\ RowsHeld /\ ChunksHeld /\ FilesHeld /\ [Next]_vars
        => (TypeOK /\ RowsHeld /\ ChunksHeld /\ FilesHeld)'
  BY NextTypes, NextRowsHeld, NextChunks, NextFilesHeld
<1>3. FilesHeld => PromotedComplete
  BY DEF FilesHeld
<1> QED BY <1>1, <1>2, <1>3, PTL DEF Spec
============================================================================
