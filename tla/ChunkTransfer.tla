---------------------------- MODULE ChunkTransfer ----------------------------
(***************************************************************************)
(* ChunkGroup (pkg/filesystem/chunk): a stream is sent to a storage        *)
(* backend chunk by chunk, and a chunk that fails is sent again, from the  *)
(* start of the chunk if the stream can seek, or from a temporary file to  *)
(* which the first attempt copied what it read.                            *)
(*                                                                         *)
(* A byte is known by its offset.  The backend accepts a chunk only if it  *)
(* is given as many bytes as the chunk is long; what it is given instead   *)
(* of the right bytes is what could go wrong.                              *)
(***************************************************************************)
EXTENDS Naturals, Sequences

CONSTANTS
    Sizes,       \* sizes of streams
    ChunkSizes,  \* chunk sizes of policies, 0 for no chunks
    MaxRetries   \* Max of the ConstantBackoff

ASSUME ChunksAssumption ==
    Sizes \subseteq Nat /\ ChunkSizes \subseteq Nat /\ MaxRetries \in Nat

VARIABLES
    stream,  \* what is constant: size, chunk size, seekable, useBuffer, whether
             \* BlackHole drains, and the offset at which the client breaks off
    pos,     \* the offset of the next byte read from the stream
    index, tried,
    buffer,  \* the temporary file: the offsets of its first byte and of its end
    parts,   \* the offsets of the first bytes of the chunks the backend accepted
    state    \* "next", "process", "done" or "failed"

chunkVars == <<stream, pos, index, tried, buffer, parts, state>>

NoBuffer == [open |-> FALSE, first |-> 0, last |-> 0]

(* NewChunkGroup.                                                          *)
chunkSizeOf(s) == IF s.chunk = 0 THEN s.size ELSE s.chunk

chunkNum(s) ==
    IF s.size = 0 THEN 1
    ELSE s.size \div chunkSizeOf(s) + IF s.size % chunkSizeOf(s) # 0 THEN 1 ELSE 0

Start == index * chunkSizeOf(stream)

IsLast == index = chunkNum(stream) - 1

Length ==
    IF IsLast THEN stream.size - chunkSizeOf(stream) * (chunkNum(stream) - 1)
    ELSE chunkSizeOf(stream)

(* The types of the variables.                                             *)
ChunkTypeOK ==
    /\ pos \in 0 .. stream.size /\ index \in 0 .. stream.size + 1
    /\ tried \in 0 .. MaxRetries + 1
    /\ parts \in Seq(Nat)
    /\ buffer.open \in BOOLEAN /\ buffer.last - buffer.first \in 0 .. stream.size
    /\ state \in {"next", "process", "done", "failed"}

Streams ==
    [size : Sizes, chunk : ChunkSizes, seekable : BOOLEAN, useBuffer : BOOLEAN,
     drains : BOOLEAN, breaks : Sizes]

ChunkInit ==
    /\ stream \in Streams
    /\ pos = 0 /\ index = 0 /\ tried = 0
    /\ buffer = NoBuffer /\ parts = <<>>
    /\ state = "process"

-----------------------------------------------------------------------------
(* The stream delivers the bytes before the offset at which it breaks.     *)
Available == IF stream.breaks < stream.size THEN stream.breaks ELSE stream.size

Upto(n) == IF n <= Available THEN n ELSE Available

TempAvailable(b) == b.open /\ b.last - b.first = Length

(* The first attempt copies what it reads; later ones read the copy.       *)
Tees == stream.useBuffer /\ ~stream.seekable /\ ~buffer.open

ReadsBuffer == TempAvailable(buffer)

(* Process: the processor takes the whole chunk and the backend accepts.   *)
Process ==
    /\ state = "process"
    /\ IF ReadsBuffer
       THEN parts' = Append(parts, buffer.first) /\ pos' = pos
       ELSE /\ Upto(pos + Length) = pos + Length
            /\ parts' = Append(parts, pos) /\ pos' = pos + Length
    /\ buffer' = NoBuffer
    /\ state' = "next"
    /\ UNCHANGED <<stream, index, tried>>

(* Next: the following chunk.                                              *)
NextChunk ==
    /\ state = "next" /\ index' = index + 1 /\ tried' = 0
    /\ state' = IF index' < chunkNum(stream) THEN "process" ELSE "done"
    /\ UNCHANGED <<stream, pos, buffer, parts>>

(* Seek back to the start of the chunk.                                    *)
SeekBackNot(p) == p

SeekBack(p) == IF stream.seekable THEN Start ELSE p

(* The attempt fails after n bytes; with a retry buffer the rest of the    *)
(* chunk is drained, unless reset_after_upload_failed is set.              *)
ProcessFails(n, canceled) ==
    LET upto == IF ReadsBuffer THEN pos
                ELSE Upto(pos + IF stream.useBuffer /\ stream.drains THEN Length ELSE n)
        copy == IF Tees THEN [open |-> TRUE, first |-> pos, last |-> upto] ELSE buffer
        retry == ~canceled /\ (stream.seekable \/ TempAvailable(copy))
        again == retry /\ tried < MaxRetries
    IN  /\ state = "process" /\ n <= Length
        /\ tried' = IF retry THEN tried + 1 ELSE tried
        /\ pos' = IF again THEN SeekBack(upto) ELSE upto
        /\ buffer' = IF again THEN copy ELSE NoBuffer
        /\ state' = IF again THEN "process" ELSE "failed"
        /\ UNCHANGED <<stream, index, parts>>

ChunkNext ==
    \/ Process \/ NextChunk
    \/ \E n \in 0 .. stream.size, canceled \in BOOLEAN : ProcessFails(n, canceled)

ChunkSpec == ChunkInit /\ [][ChunkNext]_chunkVars

-----------------------------------------------------------------------------
(* However often chunks were sent again, the backend holds the stream's    *)
(* own bytes in order: chunk i starts at byte i times the chunk size       *)
(* (Process, the seek, and the temporary file).                            *)
ChunksInPlace == \A i \in 1 .. Len(parts) : parts[i] = (i - 1) * chunkSizeOf(stream)

(* When all chunks were accepted their lengths add up to the size, for a   *)
(* last chunk shorter than the others and for an empty stream too          *)
(* (NewChunkGroup, Length).                                                *)
WholeStreamSent ==
    state = "done" =>
        /\ Len(parts) = chunkNum(stream)
        /\ chunkSizeOf(stream) * Len(parts) >= stream.size
        /\ chunkSizeOf(stream) * (Len(parts) - 1) <= stream.size

(* No temporary file outlives the chunk it was made for (the deferred      *)
(* function of Process).                                                   *)
NoBufferLeft == state # "process" => ~buffer.open

(* What ChunkGroup keeps, however often chunks are sent again: the stream  *)
(* arrives whole and in place, and no temporary file stays (Process, Next). *)
ChunkInv == ChunkTypeOK /\ ChunksInPlace /\ WholeStreamSent /\ NoBufferLeft
=============================================================================
