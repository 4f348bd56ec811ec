---------------------------- MODULE DriverProofs ----------------------------
(***************************************************************************)
(* Proofs about the storage drivers and what they rely on: chunked         *)
(* transfers, the credentials of OneDrive and the cache of settings, the   *)
(* drivers of the vendors, the background tasks, and the uploads that      *)
(* stream a whole file to the local driver, for every size, every set of   *)
(* clients, readers, keys, files and requests and every bound on failures. *)
(* Each part has an inductive invariant of its own, and a lemma for the    *)
(* initial states and one for the steps.                                   *)
(***************************************************************************)
EXTENDS ChunkTransfer, CredentialRefresh, SettingsCache, BackgroundTasks, VendorDrivers, StreamUpload,
        SizesTheorems, FiniteSetTheorems, WellFoundedInduction, TLAPS

-----------------------------------------------------------------------------
(* ChunkTransfer: chunks and retries                                       *)

\* One factor more is one summand more.
LEMMA ProductStep ==
    ASSUME NEW a \in Nat, NEW b \in Nat
    PROVE  a * b \in Nat /\ (a + 1) * b = a * b + b
OBVIOUS

\* A size is what its full chunks hold and the rest.
LEMMA DivisionParts ==
    ASSUME NEW s \in Nat, NEW c \in Nat \ {0}
    PROVE  /\ s \div c \in Nat /\ s % c \in Nat /\ s % c < c
           /\ s = c * (s \div c) + (s % c)
<1>1. c > 0
  OBVIOUS
<1>2. s = c * (s \div c) + (s % c)
  BY <1>1
<1>3. s \div c \in Nat
  OBVIOUS
<1>4. s % c \in Nat /\ s % c < c
  OBVIOUS
<1> QED BY <1>2, <1>3, <1>4

\* There are no more full chunks than bytes.
LEMMA QuotientBound ==
    ASSUME NEW s \in Nat, NEW c \in Nat \ {0}, NEW q \in Nat, c * q <= s
    PROVE  q <= s
OBVIOUS

\* NewChunkGroup's number of chunks is right for every size and every chunk
\* size: one chunk fewer does not reach past the stream, and all of them cover
\* it; an empty stream has one chunk.
LEMMA ChunkNumber ==
    ASSUME NEW s \in Streams
    PROVE  /\ chunkSizeOf(s) \in Nat /\ chunkNum(s) \in Nat \ {0}
           /\ chunkSizeOf(s) * (chunkNum(s) - 1) <= s.size
           /\ s.size <= chunkSizeOf(s) * chunkNum(s)
           /\ chunkNum(s) <= s.size + 1
<1> DEFINE c == chunkSizeOf(s)
           n == chunkNum(s)
<1>1. s.size \in Nat /\ s.chunk \in Nat
  BY ChunksAssumption DEF Streams
<1>2. c \in Nat /\ (s.size # 0 => c # 0)
  BY <1>1 DEF chunkSizeOf
<1>3. CASE s.size = 0
  BY <1>2, <1>3 DEF chunkNum
<1>4. CASE s.size # 0
  <2> DEFINE q == s.size \div c
             r == s.size % c
  <2>1. q \in Nat /\ r \in Nat /\ r < c /\ s.size = c * q + r
    BY <1>1, <1>2, <1>4, DivisionParts
  <2>2. n = q + IF r # 0 THEN 1 ELSE 0
    BY <1>4 DEF chunkNum
  <2>3. q <= s.size
    <3>1. c * q <= s.size
      BY <1>1, <1>2, <2>1
    <3> HIDE DEF q, c
    <3> QED BY <1>1, <1>2, <1>4, <2>1, <3>1, QuotientBound
  <2>4. CASE r # 0
    <3>1. n = q + 1 /\ n - 1 = q
      BY <2>1, <2>2, <2>4
    <3> HIDE DEF q, c, r, n
    <3>2. c * (q + 1) = c * q + c /\ c * q \in Nat
      BY <1>2, <2>1
    <3>3. c * (n - 1) <= s.size /\ s.size <= c * n /\ n <= s.size + 1 /\ n \in Nat \ {0}
      BY <1>1, <1>2, <2>1, <2>3, <3>1, <3>2
    <3> QED BY <1>2, <3>3 DEF c, n
  <2>5. CASE r = 0
    <3>1. n = q
      BY <2>1, <2>2, <2>5
    <3> HIDE DEF q, c, r, n
    <3>2. q # 0
      BY <1>1, <1>2, <1>4, <2>1, <2>5
    <3>3. c * q = c * (q - 1) + c /\ c * (q - 1) \in Nat /\ c * q \in Nat
      BY <1>2, <2>1, <3>2
    <3>4. c * (n - 1) <= s.size /\ s.size <= c * n /\ n <= s.size + 1 /\ n \in Nat \ {0}
      BY <1>1, <1>2, <2>1, <2>3, <2>5, <3>1, <3>2, <3>3
    <3> QED BY <1>2, <3>4 DEF c, n
  <2> QED BY <2>4, <2>5
<1> QED BY <1>3, <1>4

\* The types of the variables; the stream was read up to what the client sends
\* at most.
Reached ==
    /\ stream \in Streams /\ index \in Nat /\ tried \in 0 .. MaxRetries + 1 /\ parts \in Seq(Nat)
    /\ pos \in Nat /\ pos <= Available
    /\ state \in {"next", "process", "done", "failed"}

\* Before an attempt the backend has the chunks before this one, and the stream
\* stands at the start of the chunk; or the temporary file has all of it, and
\* the stream stands at its end (Process).
Attempting ==
    state = "process" =>
        /\ index < chunkNum(stream) /\ Len(parts) = index /\ tried <= MaxRetries
        /\ Start <= Available
        /\ \/ buffer = NoBuffer /\ pos = Start
           \/ /\ buffer = [open |-> TRUE, first |-> Start, last |-> Start + Length]
              /\ ~stream.seekable /\ pos = Start + Length

\* After an accepted chunk the stream stands at the start of the next one, and
\* there is no temporary file.
Accepted ==
    /\ state = "next" => /\ index < chunkNum(stream) /\ Len(parts) = index + 1
                         /\ tried <= MaxRetries /\ pos = Start + Length
    /\ state = "done" => index = chunkNum(stream) /\ Len(parts) = index
    /\ state = "failed" => index < chunkNum(stream)
    /\ state # "process" => buffer = NoBuffer

\* The inductive invariant. ChunksInPlace says where the chunks sent so far
\* begin; where the next one begins depends on where the stream and the
\* temporary file stand.
ChunkIndInv == Reached /\ Attempting /\ Accepted /\ ChunksInPlace

\* The start and the length of a chunk are natural numbers, and a chunk that is
\* not the last ends where the next one starts (Start, Length).
LEMMA ChunkBounds ==
    ASSUME stream \in Streams, index \in Nat, index < chunkNum(stream)
    PROVE  /\ chunkSizeOf(stream) \in Nat /\ Start \in Nat /\ Length \in Nat
           /\ index + 1 < chunkNum(stream) => Start + Length = (index + 1) * chunkSizeOf(stream)
<1> DEFINE c == chunkSizeOf(stream)
           n == chunkNum(stream)
<1>1. c \in Nat /\ n \in Nat \ {0} /\ c * (n - 1) <= stream.size /\ stream.size \in Nat
  BY ChunkNumber, ChunksAssumption DEF Streams
<1>2. Start = index * c /\ Length = IF index = n - 1 THEN stream.size - c * (n - 1) ELSE c
  BY DEF Start, Length, IsLast
<1> HIDE DEF c, n
<1>3. index * c \in Nat /\ (index + 1) * c = index * c + c /\ c * (n - 1) \in Nat
  BY <1>1, ProductStep
<1>4. index + 1 < n => index # n - 1
  BY <1>1
<1>5. Start \in Nat /\ Length \in Nat /\ (index + 1 < n => Start + Length = (index + 1) * c)
  BY <1>1, <1>2, <1>3, <1>4
<1> QED BY <1>1, <1>5 DEF c, n

\* A read never gets past what the client sends.
LEMMA ReadsWithin ==
    ASSUME stream \in Streams, NEW m \in Nat
    PROVE  Available \in Nat /\ Available <= stream.size /\ stream.size \in Nat
           /\ Upto(m) \in Nat /\ Upto(m) <= Available /\ Upto(m) <= m
           /\ \A p \in Nat : p <= Available /\ p <= m => p <= Upto(m)
<1>1. stream.size \in Nat /\ stream.breaks \in Nat
  BY ChunksAssumption DEF Streams
<1>2. Available \in Nat /\ Available <= stream.size
  BY <1>1 DEF Available
<1>3. Upto(m) \in Nat /\ Upto(m) <= Available /\ Upto(m) <= m
  BY <1>2 DEF Upto
<1>4. \A p \in Nat : p <= Available /\ p <= m => p <= Upto(m)
  BY <1>2 DEF Upto
<1> QED BY <1>1, <1>2, <1>3, <1>4

\* It holds for a new ChunkGroup.
LEMMA ChunkInitInv == ChunkInit => ChunkIndInv
<1> SUFFICES ASSUME ChunkInit PROVE ChunkIndInv
  OBVIOUS
<1> USE DEF ChunkInit
<1>1. stream \in Streams /\ index = 0 /\ index \in Nat
  OBVIOUS
<1>2. index < chunkNum(stream) /\ Start = 0
  BY <1>1, ChunkNumber DEF Start
<1>3. 0 <= Available
  BY <1>1, ReadsWithin
<1>4. Reached
  BY <1>1, <1>3, ChunksAssumption DEF Reached
<1>5. Attempting /\ Accepted /\ ChunksInPlace
  BY <1>2, <1>3, ChunksAssumption DEF Attempting, Accepted, ChunksInPlace
<1> QED BY <1>4, <1>5 DEF ChunkIndInv

\* Process, with and without success, and Next keep it.
LEMMA ChunkStep == ChunkIndInv /\ [ChunkNext]_chunkVars => ChunkIndInv'
<1> SUFFICES ASSUME ChunkIndInv, [ChunkNext]_chunkVars PROVE ChunkIndInv'
  OBVIOUS
<1> USE DEF ChunkIndInv
<1>1. ASSUME Process PROVE ChunkIndInv'
  <2>1. /\ state = "process" /\ buffer' = NoBuffer /\ state' = "next" /\ UNCHANGED <<stream, index, tried>>
        /\ index < chunkNum(stream) /\ Len(parts) = index /\ tried <= MaxRetries
        /\ stream \in Streams /\ index \in Nat /\ parts \in Seq(Nat)
    BY <1>1 DEF Process, Attempting, Reached
  <2>2. chunkSizeOf(stream) \in Nat /\ Start \in Nat /\ Length \in Nat /\ Start = index * chunkSizeOf(stream)
    BY <2>1, ChunkBounds DEF Start
  <2>3. parts' = Append(parts, Start) /\ pos' = Start + Length /\ Start + Length <= Available
    <3>1. CASE buffer = NoBuffer /\ pos = Start
      <4>1. ~ReadsBuffer
        BY <3>1 DEF ReadsBuffer, TempAvailable, NoBuffer
      <4>2. Upto(Start + Length) = Start + Length /\ parts' = Append(parts, Start) /\ pos' = Start + Length
        BY <1>1, <3>1, <4>1 DEF Process
      <4>3. Start + Length \in Nat
        BY <2>2
      <4>4. Upto(Start + Length) <= Available
        BY <2>1, <4>3, ReadsWithin
      <4> QED BY <4>2, <4>4
    <3>2. CASE /\ buffer = [open |-> TRUE, first |-> Start, last |-> Start + Length]
               /\ pos = Start + Length
      <4>1. ReadsBuffer /\ buffer.first = Start
        BY <2>2, <3>2 DEF ReadsBuffer, TempAvailable
      <4> QED BY <1>1, <3>2, <4>1 DEF Process, Reached
    <3> QED BY <2>1, <3>1, <3>2 DEF Attempting
  <2>4. Start' = Start /\ Length' = Length /\ Available' = Available
    BY <2>1 DEF Start, Length, IsLast, Available
  <2>5. parts' \in Seq(Nat) /\ Len(parts') = Len(parts) + 1 /\ parts'[Len(parts) + 1] = Start
        /\ \A i \in 1 .. Len(parts) : parts'[i] = parts[i]
    <3>1. \A x \in Nat : /\ Append(parts, x) \in Seq(Nat) /\ Len(Append(parts, x)) = Len(parts) + 1
                         /\ Append(parts, x)[Len(parts) + 1] = x
                         /\ \A i \in 1 .. Len(parts) : Append(parts, x)[i] = parts[i]
      BY <2>1
    <3> QED BY <2>2, <2>3, <3>1
  <2>6. Reached'
    BY <2>1, <2>2, <2>3, <2>4, <2>5 DEF Reached
  <2>7. Attempting' /\ Accepted'
    BY <2>1, <2>3, <2>4, <2>5 DEF Attempting, Accepted
  <2>8. ChunksInPlace'
    <3>1. \A i \in 1 .. Len(parts') : i \in 1 .. Len(parts) \/ i = Len(parts) + 1
      BY <2>1, <2>5
    <3>2. (Len(parts) + 1) - 1 = index
      BY <2>1
    <3> QED BY <2>1, <2>2, <2>5, <3>1, <3>2 DEF ChunksInPlace
  <2> QED BY <2>6, <2>7, <2>8
<1>2. ASSUME NextChunk PROVE ChunkIndInv'
  <2>1. /\ state = "next" /\ index' = index + 1 /\ tried' = 0 /\ UNCHANGED <<stream, pos, buffer, parts>>
        /\ state' = IF index + 1 < chunkNum(stream) THEN "process" ELSE "done"
        /\ index < chunkNum(stream) /\ Len(parts) = index + 1 /\ pos = Start + Length /\ buffer = NoBuffer
        /\ stream \in Streams /\ index \in Nat /\ chunkNum(stream) \in Nat
    BY <1>2, ChunkNumber DEF NextChunk, Accepted, Reached
  <2>2. Start' = (index + 1) * chunkSizeOf(stream) /\ Available' = Available
    BY <2>1 DEF Start, Available
  <2>3. Reached'
    BY <2>1, <2>2, ChunksAssumption DEF Reached
  <2>4. ChunksInPlace'
    BY <2>1 DEF ChunksInPlace
  <2>5. CASE index + 1 < chunkNum(stream)
    <3>1. pos = Start'
      BY <2>1, <2>2, <2>5, ChunkBounds
    <3>2. Attempting'
      BY <2>1, <2>2, <2>5, <3>1, ChunksAssumption DEF Attempting, Reached
    <3>3. Accepted'
      BY <2>1, <2>5 DEF Accepted
    <3> QED BY <2>3, <2>4, <3>2, <3>3
  <2>6. CASE ~(index + 1 < chunkNum(stream))
    BY <2>1, <2>3, <2>4, <2>6 DEF Attempting, Accepted
  <2> QED BY <2>5, <2>6
<1>3. ASSUME NEW m \in 0 .. stream.size, NEW canceled \in BOOLEAN, ProcessFails(m, canceled) PROVE ChunkIndInv'
  <2> DEFINE upto == IF ReadsBuffer THEN pos
                     ELSE Upto(pos + IF stream.useBuffer /\ stream.drains THEN Length ELSE m)
             copy == IF Tees THEN [open |-> TRUE, first |-> pos, last |-> upto] ELSE buffer
             retry == ~canceled /\ (stream.seekable \/ TempAvailable(copy))
             again == retry /\ tried < MaxRetries
  <2>1. /\ state = "process" /\ UNCHANGED <<stream, index, parts>>
        /\ index < chunkNum(stream) /\ Len(parts) = index /\ tried <= MaxRetries /\ Start <= Available
        /\ stream \in Streams /\ index \in Nat /\ parts \in Seq(Nat) /\ tried \in Nat
        /\ pos \in Nat /\ pos <= Available /\ MaxRetries \in Nat
    BY <1>3, ChunksAssumption DEF ProcessFails, Attempting, Reached
  <2>2. /\ tried' = IF retry THEN tried + 1 ELSE tried
        /\ pos' = IF again THEN SeekBack(upto) ELSE upto
        /\ buffer' = IF again THEN copy ELSE NoBuffer
        /\ state' = IF again THEN "process" ELSE "failed"
    BY <1>3 DEF ProcessFails
  <2>3. chunkSizeOf(stream) \in Nat /\ Start \in Nat /\ Length \in Nat /\ stream.size \in Nat
    BY <2>1, ChunkBounds, ChunksAssumption DEF Streams
  <2>4. upto \in Nat /\ upto <= Available /\ pos <= upto
    <3>1. m \in Nat
      BY <2>3
    <3>2. CASE ReadsBuffer
      BY <2>1, <3>2
    <3>3. CASE ~ReadsBuffer
      <4>1. PICK d \in Nat : upto = Upto(pos + d)
        BY <2>3, <3>1, <3>3
      <4>2. pos + d \in Nat /\ pos <= pos + d
        BY <2>1
      <4> QED BY <2>1, <4>1, <4>2, ReadsWithin
    <3> QED BY <3>2, <3>3
  <2>5. Start' = Start /\ Length' = Length /\ Available' = Available
    BY <2>1 DEF Start, Length, IsLast, Available
  <2>6. ChunksInPlace'
    BY <2>1 DEF ChunksInPlace
  <2>7. CASE ~again
    <3>1. pos' = upto /\ buffer' = NoBuffer /\ state' = "failed" /\ tried' \in 0 .. MaxRetries + 1
      BY <2>1, <2>2, <2>7
    <3> QED BY <2>1, <2>4, <2>5, <2>6, <3>1 DEF Reached, Attempting, Accepted
  <2>8. CASE again
    <3>1. /\ pos' = SeekBack(upto) /\ buffer' = copy /\ state' = "process"
          /\ tried' = tried + 1 /\ tried < MaxRetries
      BY <2>2, <2>8
    <3>2. stream.seekable \in BOOLEAN
      BY <2>1 DEF Streams
    <3>3. \/ buffer = NoBuffer /\ pos = Start
          \/ buffer = [open |-> TRUE, first |-> Start, last |-> Start + Length]
             /\ ~stream.seekable /\ pos = Start + Length
      BY <2>1 DEF Attempting
    <3>4. CASE stream.seekable
      <4>1. buffer = NoBuffer /\ copy = buffer
        BY <3>3, <3>4 DEF Tees
      <4>2. pos' = Start
        BY <3>1, <3>4 DEF SeekBack
      <4>3. Reached' /\ Attempting' /\ Accepted'
        BY <2>1, <2>3, <2>5, <3>1, <4>1, <4>2 DEF Reached, Attempting, Accepted
      <4> QED BY <2>6, <4>3
    <3>5. CASE ~stream.seekable
      <4>1. pos' = upto /\ TempAvailable(copy)
        BY <2>8, <3>1, <3>5 DEF SeekBack
      <4>2. copy = [open |-> TRUE, first |-> Start, last |-> Start + Length] /\ upto = Start + Length
        <5>1. CASE buffer = NoBuffer /\ pos = Start
          <6>1. Tees /\ copy = [open |-> TRUE, first |-> Start, last |-> upto]
            BY <4>1, <5>1 DEF TempAvailable, NoBuffer
          <6>2. upto - Start = Length
            BY <4>1, <6>1 DEF TempAvailable
          <6>3. upto = Start + Length
            BY <2>3, <2>4, <6>2
          <6> QED BY <6>1, <6>3
        <5>2. CASE /\ buffer = [open |-> TRUE, first |-> Start, last |-> Start + Length]
                   /\ pos = Start + Length
          <6>1. ~Tees /\ copy = buffer /\ ReadsBuffer
            BY <2>3, <5>2 DEF Tees, ReadsBuffer, TempAvailable
          <6> QED BY <5>2, <6>1
        <5> QED BY <3>3, <5>1, <5>2
      <4>3. Reached' /\ Attempting' /\ Accepted'
        BY <2>1, <2>3, <2>4, <2>5, <3>1, <3>5, <4>1, <4>2 DEF Reached, Attempting, Accepted
      <4> QED BY <2>6, <4>3
    <3> QED BY <3>2, <3>4, <3>5
  <2> QED BY <2>7, <2>8
<1>4. CASE UNCHANGED chunkVars
  BY <1>4 DEF chunkVars, Reached, Attempting, Accepted, ChunksInPlace, Start, Length, IsLast,
    Available
<1> QED BY <1>1, <1>2, <1>3, <1>4 DEF ChunkNext

\* It implies what the run checks.
LEMMA ChunkIndInvImplies == ChunkIndInv => ChunkInv
<1> SUFFICES ASSUME ChunkIndInv PROVE ChunkInv
  OBVIOUS
<1> USE DEF ChunkIndInv
<1>1. /\ stream \in Streams /\ index \in Nat /\ index <= chunkNum(stream) /\ pos \in Nat /\ pos <= Available
      /\ tried \in 0 .. MaxRetries + 1 /\ parts \in Seq(Nat) /\ state \in {"next", "process", "done", "failed"}
  <2>1. stream \in Streams /\ index \in Nat /\ chunkNum(stream) \in Nat
    BY ChunkNumber DEF Reached
  <2>2. index <= chunkNum(stream)
    BY <2>1 DEF Reached, Attempting, Accepted
  <2> QED BY <2>1, <2>2 DEF Reached
<1>2. /\ chunkSizeOf(stream) \in Nat /\ chunkNum(stream) \in Nat \ {0} /\ stream.size \in Nat
      /\ chunkSizeOf(stream) * (chunkNum(stream) - 1) <= stream.size
      /\ stream.size <= chunkSizeOf(stream) * chunkNum(stream) /\ chunkNum(stream) <= stream.size + 1
      /\ Available \in Nat /\ Available <= stream.size
  BY <1>1, ChunkNumber, ReadsWithin
<1>3. buffer.open \in BOOLEAN /\ buffer.last - buffer.first \in 0 .. stream.size
  <2>1. CASE buffer = NoBuffer
    BY <1>2, <2>1 DEF NoBuffer
  <2>2. CASE buffer # NoBuffer
    <3>1. /\ buffer = [open |-> TRUE, first |-> Start, last |-> Start + Length] /\ pos = Start + Length
          /\ index < chunkNum(stream)
      BY <1>1, <2>2 DEF Attempting, Accepted
    <3>2. Start \in Nat /\ Length \in Nat
      BY <1>1, <3>1, ChunkBounds
    <3>3. buffer.last - buffer.first = Length /\ Length <= stream.size
      BY <1>1, <1>2, <3>1, <3>2
    <3> QED BY <3>1, <3>2, <3>3, <1>2
  <2> QED BY <2>1, <2>2
<1>4. pos \in 0 .. stream.size /\ index \in 0 .. stream.size + 1
  BY <1>1, <1>2
<1>5. ChunkTypeOK
  BY <1>1, <1>3, <1>4 DEF ChunkTypeOK
<1>6. WholeStreamSent
  BY <1>2 DEF WholeStreamSent, Accepted
<1>7. NoBufferLeft
  BY DEF NoBufferLeft, Accepted, NoBuffer
<1> QED BY <1>5, <1>6, <1>7 DEF ChunkInv

\* However often chunks fail and are sent again, from a stream that can seek or
\* from the temporary file, the backend gets the stream's own bytes in order
\* and all of them, and no temporary file stays (ChunkGroup.Process, Next): for
\* every size, every chunk size, every place at which the client breaks off and
\* every number of retries.
THEOREM ChunksArrive == ChunkSpec => []ChunkInv
BY ChunkInitInv, ChunkStep, ChunkIndInvImplies, PTL DEF ChunkSpec

-----------------------------------------------------------------------------
(* CredentialRefresh: one refresh for all clients                          *)

\* Where a client is in UpdateCredential, ...
ClientPCs == {"idle", "new", "locked", "save", "cache", "fetch", "ok", "error"}

\* ... and its credential.
ClientRows == [pc : ClientPCs, access : Tokens, refresh : Tokens]

\* A client between Lock and Unlock is the only one (GlobalMutex).
HolderAlone == \A c \in Clients : client[c].pc \in {"locked", "save", "cache"} => mutex = {c}

\* The access token that has not expired is the one in the cache, or the one
\* that the client holding the lock is about to store there.
LiveTokenKnown ==
    /\ \A c \in Clients : client[c].pc \in {"save", "cache"} => alive \subseteq {client[c].access}
    /\ (\A c \in Clients : client[c].pc \notin {"save", "cache"}) => alive \subseteq {cached}

\* Unless the OAuth callback crossed a refresh, who is about to save a refresh
\* token has the newest one.
ExchangeNewest ==
    ~crossed => /\ auth > 0 => auth = issued
                /\ \A c \in Clients : client[c].pc = "save" => client[c].refresh = issued

\* The inductive invariant. That there is one live token only needs to know
\* where it is: a client that finds none in the cache, under the lock, can
\* conclude that there is none.
CredIndInv ==
    CredTypeOK /\ HolderAlone /\ LiveTokenKnown /\ ExchangeNewest /\ NewestRefreshTokenSaved

\* It holds for a policy that was authorised once.
LEMMA CredInitInv == CredInit => CredIndInv
<1> SUFFICES ASSUME CredInit PROVE CredIndInv
  OBVIOUS
<1>1. 1 \in Tokens /\ 0 \in Tokens
  BY ClientsAssumption DEF Tokens
<1>2. \A c \in Clients \cup SlaveClients : client[c] = NoClient
  BY DEF CredInit
<1>3. client \in [Clients \cup SlaveClients -> ClientRows]
  BY <1>1 DEF CredInit, NoClient, ClientRows, ClientPCs
<1>4. CredTypeOK
  BY <1>1, <1>3 DEF CredInit, CredTypeOK, ClientRows, ClientPCs
<1>5. HolderAlone /\ LiveTokenKnown /\ ExchangeNewest /\ NewestRefreshTokenSaved
  BY <1>2 DEF CredInit, NoClient, HolderAlone, LiveTokenKnown, ExchangeNewest,
    NewestRefreshTokenSaved
<1> QED BY <1>4, <1>5 DEF CredIndInv

\* A step of a client changes this client only.
LEMMA ClientMoves ==
    ASSUME CredTypeOK, NEW c \in Clients \cup SlaveClients,
           NEW pc \in ClientPCs, NEW a \in Tokens, NEW f \in Tokens, Client(c, pc, a, f)
    PROVE  /\ client' \in [Clients \cup SlaveClients -> ClientRows]
           /\ client'[c].pc = pc /\ client'[c].access = a /\ client'[c].refresh = f
           /\ \A d \in Clients \cup SlaveClients : d # c => client'[d] = client[d]
<1>1. client \in [Clients \cup SlaveClients -> ClientRows]
  BY DEF CredTypeOK, ClientRows, ClientPCs
<1>2. [pc |-> pc, access |-> a, refresh |-> f] \in ClientRows
  BY DEF ClientRows
<1> QED BY <1>1, <1>2 DEF Client

\* A step of a client that neither obtains nor stores a token keeps the
\* invariant.
LEMMA QuietMove ==
    ASSUME CredIndInv, NEW c \in Clients \cup SlaveClients,
           NEW pc \in {"idle", "new", "locked", "fetch", "ok", "error"},
           NEW a \in Tokens, NEW f \in Tokens, Client(c, pc, a, f),
           client[c].pc \notin {"save", "cache"},
           UNCHANGED <<issued, alive, accessKey, cached, auth, crossed>>,
           IF pc = "locked" /\ c \in Clients THEN mutex = {} /\ mutex' = {c}
           ELSE IF c \in Clients THEN mutex' = mutex \ {c} ELSE mutex' = mutex
    PROVE  CredIndInv'
<1> USE DEF CredIndInv
<1>0. CredTypeOK /\ pc \in ClientPCs
  BY DEF ClientPCs
<1>1. /\ client' \in [Clients \cup SlaveClients -> ClientRows]
      /\ client'[c].pc = pc
      /\ \A d \in Clients \cup SlaveClients : d # c => client'[d] = client[d]
  BY <1>0, ClientMoves
<1>2. mutex' \subseteq Clients
  BY DEF CredTypeOK
<1>3. CredTypeOK'
  BY <1>1, <1>2 DEF CredTypeOK, ClientRows, ClientPCs
<1>4. HolderAlone'
  BY <1>1, ClientsAssumption DEF HolderAlone, CredTypeOK
<1>5. LiveTokenKnown'
  BY <1>1 DEF LiveTokenKnown, CredTypeOK
<1>6. ExchangeNewest'
  BY <1>1 DEF ExchangeNewest, CredTypeOK
<1>7. NewestRefreshTokenSaved'
  BY <1>1 DEF NewestRefreshTokenSaved, CredTypeOK
<1> QED BY <1>3, <1>4, <1>5, <1>6, <1>7

\* Every step of the clients on the master and on slaves, of the OAuth callback
\* and of time keeps it.
LEMMA CredStep == CredIndInv /\ [CredNext]_credVars => CredIndInv'
<1> SUFFICES ASSUME CredIndInv, [CredNext]_credVars PROVE CredIndInv'
  OBVIOUS
<1> USE DEF CredIndInv
<1>0. /\ issued \in Tokens /\ accessKey \in Tokens /\ cached \in Tokens /\ auth \in Tokens /\ 0 \in Tokens
      /\ issued \in Nat /\ auth \in Nat /\ CredTypeOK
      /\ {"new", "fetch", "cache", "ok", "save"} \subseteq ClientPCs
      /\ \A c \in Clients \cup SlaveClients :
            client[c] \in ClientRows /\ client[c].access \in Tokens /\ client[c].refresh \in Tokens
  BY ClientsAssumption DEF CredTypeOK, Tokens, ClientRows, ClientPCs
<1>1. ASSUME NEW c \in Clients \cup SlaveClients, NewClient(c) PROVE CredIndInv'
  <2>1. client[c].pc \notin {"save", "cache", "locked"} /\ (c \in Clients => c \notin mutex \/ mutex' = mutex)
    BY <1>1 DEF NewClient
  <2>2. PICK pc \in {"new", "fetch"} : Client(c, pc, 0, accessKey) /\ pc \in ClientPCs
    BY <1>0, <1>1 DEF NewClient
  <2>3. UNCHANGED <<issued, alive, accessKey, cached, mutex, auth, crossed>>
    BY <1>1 DEF NewClient
  <2>4. /\ client' \in [Clients \cup SlaveClients -> ClientRows]
        /\ client'[c].pc = pc
        /\ \A d \in Clients \cup SlaveClients : d # c => client'[d] = client[d]
    BY <1>0, <2>2, ClientMoves
  <2> QED BY <2>1, <2>3, <2>4 DEF CredTypeOK, ClientRows, ClientPCs, HolderAlone, LiveTokenKnown,
                                 ExchangeNewest, NewestRefreshTokenSaved
<1>2. ASSUME NEW c \in Clients \cup SlaveClients, UseAgain(c) PROVE CredIndInv'
  <2>1. client[c].pc \notin {"save", "cache", "locked"}
    BY <1>2 DEF UseAgain
  <2>2. PICK pc \in {"new", "fetch"} : Client(c, pc, client[c].access, client[c].refresh) /\ pc \in ClientPCs
    BY <1>0, <1>2 DEF UseAgain
  <2>3. UNCHANGED <<issued, alive, accessKey, cached, mutex, auth, crossed>>
    BY <1>2 DEF UseAgain
  <2>4. /\ client' \in [Clients \cup SlaveClients -> ClientRows]
        /\ client'[c].pc = pc
        /\ \A d \in Clients \cup SlaveClients : d # c => client'[d] = client[d]
    BY <1>0, <2>2, ClientMoves
  <2> QED BY <2>1, <2>3, <2>4 DEF CredTypeOK, ClientRows, ClientPCs, HolderAlone, LiveTokenKnown,
                                 ExchangeNewest, NewestRefreshTokenSaved
<1>3. ASSUME NEW c \in Clients, Lock(c) PROVE CredIndInv'
  BY <1>0, <1>3, QuietMove DEF Lock
<1>4. ASSUME NEW c \in Clients, UpdateCredentialKeeps(c) PROVE CredIndInv'
  BY <1>0, <1>4, QuietMove DEF UpdateCredentialKeeps
<1>5. ASSUME NEW c \in Clients, UpdateCredentialCached(c) PROVE CredIndInv'
  BY <1>0, <1>5, QuietMove DEF UpdateCredentialCached
<1>6. ASSUME NEW c \in Clients, ObtainTokenFails(c) PROVE CredIndInv'
  BY <1>0, <1>6, QuietMove DEF ObtainTokenFails
<1>7. ASSUME NEW c \in Clients, ObtainToken(c) PROVE CredIndInv'
  <2>1. /\ client[c].pc = "locked" /\ cached \notin alive /\ issued < MaxExchanges
        /\ issued' = issued + 1 /\ alive' = alive \cup {issued + 1}
        /\ Client(c, "save", issued + 1, issued + 1)
        /\ UNCHANGED <<accessKey, cached, mutex, auth>>
    BY <1>7 DEF ObtainToken, CachedAlive
  <2>1a. crossed' = (crossed \/ auth > 0)
    BY <1>7 DEF ObtainToken
  <2>2. issued + 1 \in Tokens
    BY <1>0, <2>1, ClientsAssumption DEF Tokens
  <2>3. /\ client' \in [Clients \cup SlaveClients -> ClientRows]
        /\ client'[c].pc = "save" /\ client'[c].access = issued + 1 /\ client'[c].refresh = issued + 1
        /\ \A d \in Clients \cup SlaveClients : d # c => client'[d] = client[d]
    BY <1>0, <2>1, <2>2, ClientMoves
  <2>4. \A d \in Clients : d # c => client[d].pc \notin {"locked", "save", "cache"}
    BY <2>1 DEF HolderAlone
  <2>5. alive = {}
    <3>1. \A d \in Clients : client[d].pc \notin {"save", "cache"}
      BY <2>1, <2>4
    <3> QED BY <3>1, <2>1 DEF LiveTokenKnown
  <2>6. CredTypeOK'
    <3>1. crossed' \in BOOLEAN
      BY <2>1a
    <3>2. alive' \subseteq 1 .. issued'
      BY <1>0, <2>1, <2>5
    <3> QED BY <2>1, <2>2, <2>3, <3>1, <3>2 DEF CredTypeOK, ClientRows, ClientPCs
  <2>7. HolderAlone'
    BY <2>1, <2>3, <2>4 DEF HolderAlone
  <2>8. LiveTokenKnown'
    BY <2>1, <2>3, <2>4, <2>5 DEF LiveTokenKnown
  <2>9. ExchangeNewest'
    <3>1. CASE crossed'
      BY <3>1 DEF ExchangeNewest
    <3>2. CASE ~crossed'
      <4>1. ~(auth' > 0)
        BY <2>1, <2>1a, <3>2
      <4> QED BY <4>1, <2>1, <2>3, <2>4 DEF ExchangeNewest
    <3> QED BY <3>1, <3>2
  <2>10. NewestRefreshTokenSaved'
    BY <2>1, <2>3 DEF NewestRefreshTokenSaved
  <2> QED BY <2>6, <2>7, <2>8, <2>9, <2>10
<1>8. ASSUME NEW c \in Clients, UpdateAccessKey(c) PROVE CredIndInv'
  <2>1. /\ client[c].pc = "save" /\ accessKey' = client[c].refresh
        /\ Client(c, "cache", client[c].access, client[c].refresh)
        /\ UNCHANGED <<issued, alive, cached, mutex, auth, crossed>>
    BY <1>8 DEF UpdateAccessKey
  <2>3. /\ client' \in [Clients \cup SlaveClients -> ClientRows]
        /\ client'[c].pc = "cache" /\ client'[c].access = client[c].access
        /\ \A d \in Clients \cup SlaveClients : d # c => client'[d] = client[d]
    BY <1>0, <2>1, ClientMoves, ZenonT(60)
  <2>6. CredTypeOK'
    BY <1>0, <2>1, <2>3 DEF CredTypeOK, ClientRows, ClientPCs
  <2>7. HolderAlone'
    BY <2>1, <2>3 DEF HolderAlone
  <2>8. LiveTokenKnown'
    BY <2>1, <2>3 DEF LiveTokenKnown
  <2>9. ExchangeNewest'
    BY <2>1, <2>3 DEF ExchangeNewest
  <2>10. NewestRefreshTokenSaved'
    BY <2>1, <2>3 DEF NewestRefreshTokenSaved, ExchangeNewest
  <2> QED BY <2>6, <2>7, <2>8, <2>9, <2>10
<1>9. ASSUME NEW c \in Clients, CacheCredential(c) PROVE CredIndInv'
  <2>1. /\ client[c].pc = "cache" /\ cached' = client[c].access /\ mutex' = mutex \ {c}
        /\ Client(c, "ok", client[c].access, client[c].refresh)
        /\ UNCHANGED <<issued, alive, accessKey, auth, crossed>>
    BY <1>9 DEF CacheCredential
  <2>3. /\ client' \in [Clients \cup SlaveClients -> ClientRows]
        /\ client'[c].pc = "ok" /\ client'[c].access = client[c].access
        /\ \A d \in Clients \cup SlaveClients : d # c => client'[d] = client[d]
    BY <1>0, <2>1, ClientMoves, ZenonT(60)
  <2>4. \A d \in Clients : d # c => client[d].pc \notin {"locked", "save", "cache"}
    BY <2>1 DEF HolderAlone
  <2>6. CredTypeOK'
    BY <1>0, <2>1, <2>3 DEF CredTypeOK, ClientRows, ClientPCs
  <2>7. HolderAlone'
    BY <2>1, <2>3, <2>4 DEF HolderAlone
  <2>8. LiveTokenKnown'
    BY <2>1, <2>3, <2>4 DEF LiveTokenKnown
  <2>9. ExchangeNewest'
    BY <2>1, <2>3 DEF ExchangeNewest
  <2>10. NewestRefreshTokenSaved'
    BY <2>1, <2>3 DEF NewestRefreshTokenSaved
  <2> QED BY <2>6, <2>7, <2>8, <2>9, <2>10
<1>10. ASSUME NEW s \in SlaveClients, GetOneDriveTokenFails(s) PROVE CredIndInv'
  <2>1. s \notin Clients
    BY ClientsAssumption
  <2> QED BY <1>0, <1>10, <2>1, QuietMove DEF GetOneDriveTokenFails
<1>11. ASSUME NEW s \in SlaveClients, NEW c \in Clients, GetOneDriveToken(s, c) PROVE CredIndInv'
  <2>1. s \notin Clients
    BY ClientsAssumption
  <2> QED BY <1>0, <1>11, <2>1, QuietMove DEF GetOneDriveToken
<1>12. ASSUME AuthObtains PROVE CredIndInv'
  <2>1. /\ auth = 0 /\ issued < MaxExchanges /\ issued' = issued + 1 /\ auth' = issued + 1
        /\ UNCHANGED <<alive, accessKey, cached, mutex, client>>
    BY <1>12 DEF AuthObtains
  <2>2. issued + 1 \in Tokens
    BY <1>0, <2>1, ClientsAssumption DEF Tokens
  <2>3. crossed' \in BOOLEAN /\ (~crossed' => \A c \in Clients : client[c].pc \notin {"save", "cache"})
    BY <1>12 DEF AuthObtains, Refreshing, CredTypeOK
  <2>4. alive' \subseteq 1 .. issued'
    BY <1>0, <2>1 DEF CredTypeOK
  <2>5. CredTypeOK'
    BY <2>1, <2>2, <2>3, <2>4 DEF CredTypeOK
  <2>6. HolderAlone' /\ LiveTokenKnown'
    BY <2>1 DEF HolderAlone, LiveTokenKnown
  <2>7. ExchangeNewest' /\ NewestRefreshTokenSaved'
    BY <2>1, <2>3 DEF ExchangeNewest, NewestRefreshTokenSaved
  <2> QED BY <2>5, <2>6, <2>7
<1>13. ASSUME AuthSaves PROVE CredIndInv'
  <2>1. /\ auth > 0 /\ accessKey' = auth /\ auth' = 0
        /\ UNCHANGED <<issued, alive, cached, mutex, client>>
    BY <1>13 DEF AuthSaves
  <2>3. crossed' \in BOOLEAN /\ (~crossed' => ~crossed /\ \A c \in Clients : client[c].pc \notin {"save", "cache"})
    BY <1>13 DEF AuthSaves, Refreshing, CredTypeOK
  <2>5. CredTypeOK'
    BY <1>0, <2>1, <2>3 DEF CredTypeOK
  <2>6. HolderAlone' /\ LiveTokenKnown'
    BY <2>1 DEF HolderAlone, LiveTokenKnown
  <2>7. ExchangeNewest' /\ NewestRefreshTokenSaved'
    BY <2>1, <2>3 DEF ExchangeNewest, NewestRefreshTokenSaved
  <2> QED BY <2>5, <2>6, <2>7
<1>14. ASSUME NEW n \in alive, Expire(n) PROVE CredIndInv'
  <2>1. alive' \subseteq alive /\ UNCHANGED <<issued, accessKey, cached, mutex, client, auth, crossed>>
    BY <1>14 DEF Expire
  <2> QED BY <2>1 DEF CredTypeOK, HolderAlone, LiveTokenKnown, ExchangeNewest,
          NewestRefreshTokenSaved
<1>15. CASE UNCHANGED credVars
  BY <1>15 DEF credVars, CredTypeOK, HolderAlone, LiveTokenKnown, ExchangeNewest,
    NewestRefreshTokenSaved
<1> QED BY <1>1, <1>2, <1>3, <1>4, <1>5, <1>6, <1>7, <1>8, <1>9, <1>10, <1>11, <1>12, <1>13, <1>14,
        <1>15
        DEF CredNext

\* It implies what the run checks.
LEMMA CredIndInvImplies == CredIndInv => CredInv
<1> SUFFICES ASSUME CredIndInv PROVE OneLiveToken
  BY DEF CredIndInv, CredInv
<1>1. PICK t : alive \subseteq {t}
  BY DEF CredIndInv, LiveTokenKnown
<1>2. IsFiniteSet({t}) /\ Cardinality({t}) = 1
  BY FS_Singleton
<1>3. IsFiniteSet(alive) /\ Cardinality(alive) <= 1
  BY <1>1, <1>2, FS_Subset
<1> QED BY <1>3 DEF OneLiveToken

\* Clients that find the credential of a OneDrive policy expired at the same
\* time refresh it once, and the policy keeps the refresh token that was issued
\* last unless the OAuth callback ran during a refresh
\* (Client.UpdateCredential, GlobalMutex): for every set of clients on the
\* master and on slaves, and every number of exchanges.
THEOREM OneRefresh == CredSpec => []CredInv
<1>1. CredIndInv /\ [CredNext]_credVars => CredIndInv'
  BY CredStep
<1> QED BY CredInitInv, <1>1, CredIndInvImplies, PTL DEF CredSpec

-----------------------------------------------------------------------------
(* SettingsCache: the cache in front of the settings                       *)

\* The entries of the cache.
ItemRows == [value : 0 .. MaxChanges, expires : 0 .. MaxClock + TTL, found : BOOLEAN]

\* A reader that missed the cache is reading a setting.
ReadersTyped ==
    /\ reader = [p \in Readers |-> reader[p]]
    /\ \A p \in Readers : reader[p].pc # "idle" => reader[p].key \in Settings
    /\ \A p \in Readers : reader[p].value \in 0 .. MaxChanges

\* A reader that is about to write an old version to the cache reads a setting
\* whose change has not cleared the cache yet, or one that is noted as raced.
StaleReaders ==
    \A p \in Readers : reader[p].pc = "fill" /\ reader[p].value # table[reader[p].key]
                          => reader[p].key \in writer \cup raced

\* The inductive invariant: what readers hold will be in the cache one step
\* later.
CacheIndInv == CacheTypeOK /\ ReadersTyped /\ StaleReaders /\ CachedSettingFresh

\* It holds for an empty cache.
LEMMA CacheInitInv == CacheInit => CacheIndInv
<1> SUFFICES ASSUME CacheInit PROVE CacheIndInv
  OBVIOUS
<1>1. \A p \in Readers : reader[p] = NoRead /\ reader[p].pc = "idle" /\ reader[p].value = 0
  BY DEF CacheInit, NoRead
<1>2. \A k \in CacheKeys : store[k] = NoItem /\ store[k].found = FALSE /\ store[k].expires = 0
  BY DEF CacheInit, NoItem
<1>3. NoItem \in ItemRows
  BY CacheAssumption DEF NoItem, ItemRows
<1>4. CacheTypeOK
  BY <1>1, <1>2, <1>3, CacheAssumption DEF CacheInit, CacheTypeOK, ItemRows, CacheKeys
<1>5. ReadersTyped /\ StaleReaders
  BY <1>1, CacheAssumption DEF CacheInit, ReadersTyped, StaleReaders
<1>6. CachedSettingFresh
  BY <1>2 DEF CachedSettingFresh, Hit, memoGet, redisGet, CacheKeys
<1> QED BY <1>4, <1>5, <1>6 DEF CacheIndInv

\* An entry of a setting never expires, so it is read whenever it is there.
LEMMA SettingHit ==
    ASSUME CacheTypeOK, NEW k \in Settings
    PROVE  Hit(k) <=> store[k].found = TRUE
BY DEF CacheTypeOK, Hit, memoGet, redisGet, memoExpired

\* Every step of the readers and writers of settings, of sessions, of the
\* collector and of time keeps it.
LEMMA CacheStep == CacheIndInv /\ [CacheNext]_cacheVars => CacheIndInv'
<1> SUFFICES ASSUME CacheIndInv, [CacheNext]_cacheVars PROVE CacheIndInv'
  OBVIOUS
<1> USE DEF CacheIndInv
<1>0. /\ clock \in Nat /\ clock <= MaxClock
      /\ store \in [CacheKeys -> ItemRows]
      /\ NoItem \in ItemRows /\ NoItem.expires = 0 /\ NoItem.found = FALSE
      /\ Settings \subseteq CacheKeys /\ Sessions \subseteq CacheKeys
  BY CacheAssumption DEF CacheTypeOK, ItemRows, NoItem, CacheKeys
\* sessions
<1>1. ASSUME Tick PROVE CacheIndInv'
  <2>1. clock' = clock + 1 /\ clock < MaxClock /\ UNCHANGED <<driver, table, store, reader, writer, gc, raced>>
    BY <1>1 DEF Tick
  <2>2. CacheTypeOK'
    BY <1>0, <2>1, CacheAssumption DEF CacheTypeOK
  <2>3. ReadersTyped' /\ StaleReaders'
    BY <2>1 DEF ReadersTyped, StaleReaders
  <2>4. CachedSettingFresh'
    <3> SUFFICES ASSUME NEW k \in Settings, Hit(k)', store[k].value # table[k] PROVE k \in writer \cup raced
      BY <2>1 DEF CachedSettingFresh
    <3>1. store[k].found
      BY <2>1 DEF Hit, memoGet, redisGet
    <3>2. Hit(k)
      BY <3>1, SettingHit
    <3> QED BY <3>2 DEF CachedSettingFresh
  <2> QED BY <2>2, <2>3, <2>4
<1>2. ASSUME NEW S \in SUBSET CacheKeys, Deletes(S),
             UNCHANGED <<driver, table, clock, reader>>,
             writer' \subseteq Settings, raced' \subseteq Settings,
             \A k \in Settings \ S : k \in writer \cup raced => k \in writer' \cup raced',
             StaleReaders'
      PROVE  CacheIndInv'
  <2>1. /\ store' \in [CacheKeys -> ItemRows]
        /\ \A k \in CacheKeys : store'[k] = IF k \in S THEN NoItem ELSE store[k]
    BY <1>0, <1>2 DEF Deletes
  <2>2. CacheTypeOK'
    BY <1>0, <1>2, <2>1 DEF CacheTypeOK, ItemRows
  <2>3. ReadersTyped'
    BY <1>2 DEF ReadersTyped
  <2>4. CachedSettingFresh'
    <3> SUFFICES ASSUME NEW k \in Settings, Hit(k)', store'[k].value # table[k] PROVE k \in writer' \cup raced'
      BY <1>2 DEF CachedSettingFresh
    <3>1. store'[k].found
      BY <1>2 DEF Hit, memoGet, redisGet
    <3>2. k \notin S /\ store'[k] = store[k]
      BY <1>0, <2>1, <3>1
    <3>3. Hit(k)
      BY <3>1, <3>2, SettingHit
    <3> QED BY <1>2, <3>2, <3>3 DEF CachedSettingFresh
  <2> QED BY <1>2, <2>2, <2>3, <2>4
<1>3. ASSUME NEW k \in Sessions, DeleteSession(k) PROVE CacheIndInv'
  <2>1. StaleReaders' /\ writer' \subseteq Settings /\ raced' \subseteq Settings
    BY <1>3 DEF DeleteSession, StaleReaders, CacheTypeOK
  <2> QED BY <1>0, <1>2, <1>3, <2>1 DEF DeleteSession
<1>4. ASSUME NEW k \in Sessions, GarbageCollectSees(k) PROVE CacheIndInv'
  BY <1>4 DEF GarbageCollectSees, CacheTypeOK, ReadersTyped, StaleReaders, CachedSettingFresh,
             Hit, memoGet, redisGet, memoExpired
<1>5. ASSUME NEW k \in Sessions, GarbageCollectDeletes(k) PROVE CacheIndInv'
  <2>1. StaleReaders' /\ writer' \subseteq Settings /\ raced' \subseteq Settings
    BY <1>5 DEF GarbageCollectDeletes, StaleReaders, CacheTypeOK
  <2> QED BY <1>0, <1>2, <1>5, <2>1 DEF GarbageCollectDeletes
<1>6. ASSUME NEW k \in Sessions, NEW v \in 0 .. MaxChanges, SetSession(k, v) PROVE CacheIndInv'
  <2>1. /\ store' = [store EXCEPT ![k] = newItem(v, TTL)]
        /\ UNCHANGED <<driver, table, clock, reader, writer, gc, raced>>
    BY <1>6 DEF SetSession, Set
  <2>2. newItem(v, TTL) \in ItemRows
    BY <1>0, CacheAssumption DEF newItem, ItemRows
  <2>3. store' \in [CacheKeys -> ItemRows] /\ \A s \in Settings : store'[s] = store[s]
    BY <1>0, <2>1, <2>2, CacheAssumption
  <2>4. CacheTypeOK'
    BY <2>1, <2>3 DEF CacheTypeOK, ItemRows
  <2>5. ReadersTyped' /\ StaleReaders'
    BY <2>1 DEF ReadersTyped, StaleReaders
  <2>6. CachedSettingFresh'
    BY <2>1, <2>3 DEF CachedSettingFresh, Hit, memoGet, redisGet, memoExpired
  <2> QED BY <2>4, <2>5, <2>6
\* settings
<1>7. ASSUME NEW k \in Settings, Change(k) PROVE CacheIndInv'
  <2>1. /\ table[k] < MaxChanges /\ table' = [table EXCEPT ![k] = table[k] + 1] /\ writer' = writer \cup {k}
        /\ UNCHANGED <<driver, store, clock, reader, gc, raced>>
    BY <1>7 DEF Change
  <2>2. table' \in [Settings -> 0 .. MaxChanges] /\ \A s \in Settings : s # k => table'[s] = table[s]
    BY <2>1, CacheAssumption DEF CacheTypeOK
  <2>3. CacheTypeOK'
    BY <2>1, <2>2 DEF CacheTypeOK
  <2>4. ReadersTyped' /\ StaleReaders'
    BY <2>1, <2>2 DEF ReadersTyped, StaleReaders, CacheTypeOK
  <2>5. CachedSettingFresh'
    BY <2>1, <2>2 DEF CachedSettingFresh, Hit, memoGet, redisGet, memoExpired
  <2> QED BY <2>3, <2>4, <2>5
<1>8. ASSUME NEW k \in Settings, ClearCache(k) PROVE CacheIndInv'
  <2>1. /\ writer' = writer \ {k} /\ Deletes({k}) /\ UNCHANGED <<driver, table, clock, reader, gc>>
        /\ raced' = IF \E p \in Readers : reader[p].pc = "fill" /\ reader[p].key = k
                                          /\ reader[p].value # table[k]
                    THEN raced \cup {k} ELSE raced \ {k}
    BY <1>8 DEF ClearCache
  <2>2. \A s \in Settings : s # k /\ s \in writer \cup raced => s \in writer' \cup raced'
    BY <2>1
  <2>3. writer' \subseteq Settings /\ raced' \subseteq Settings
    BY <2>1 DEF CacheTypeOK
  <2>4. StaleReaders'
    <3> SUFFICES ASSUME NEW p \in Readers, reader[p].pc = "fill", reader[p].value # table[reader[p].key]
                 PROVE  reader[p].key \in writer' \cup raced'
      BY <2>1 DEF StaleReaders
    <3>1. CASE reader[p].key = k
      BY <2>1, <3>1
    <3>2. CASE reader[p].key # k
      BY <2>2, <3>2 DEF StaleReaders, ReadersTyped
    <3> QED BY <3>1, <3>2
  <2> QED BY <1>0, <1>2, <2>1, <2>2, <2>3, <2>4
\* readers
<1>9. ASSUME NEW p \in Readers, NEW k \in Settings, NEW pc \in {"table", "fill"}, NEW v \in 0 .. MaxChanges,
             Reads(p, pc, k, v), pc = "fill" /\ v # table[k] => k \in writer \cup raced,
             UNCHANGED <<driver, table, store, clock, writer, gc, raced>>
      PROVE  CacheIndInv'
  <2>1. /\ reader' = [q \in Readers |-> reader'[q]]
        /\ \A q \in Readers : q # p => reader'[q] = reader[q]
        /\ reader'[p].pc = pc /\ reader'[p].key = k /\ reader'[p].value = v
    BY <1>9 DEF Reads, ReadersTyped, NoRead
  <2>2. CacheTypeOK'
    BY <1>9, <2>1 DEF CacheTypeOK
  <2>3. ReadersTyped'
    BY <2>1 DEF ReadersTyped
  <2>4. StaleReaders'
    BY <1>9, <2>1 DEF StaleReaders
  <2>5. CachedSettingFresh'
    BY <1>9 DEF CachedSettingFresh, Hit, memoGet, redisGet, memoExpired
  <2> QED BY <2>2, <2>3, <2>4, <2>5
<1>10. ASSUME NEW p \in Readers, NEW k \in Settings, GetSettingByName(p, k) PROVE CacheIndInv'
  <2>1. 0 \in 0 .. MaxChanges
    BY CacheAssumption
  <2> QED BY <1>9, <1>10, <2>1 DEF GetSettingByName
<1>11. ASSUME NEW p \in Readers, NEW k \in Settings, GetSettingByNames(p, k) PROVE CacheIndInv'
  <2>1. 0 \in 0 .. MaxChanges /\ store[k].value \in 0 .. MaxChanges
    BY <1>0, CacheAssumption DEF ItemRows
  <2>2. UNCHANGED <<driver, table, store, clock, writer, gc, raced>>
    BY <1>11 DEF GetSettingByNames
  <2>3. CASE Hit(k)
    <3>1. Reads(p, "fill", k, store[k].value)
      BY <1>11, <2>3 DEF GetSettingByNames
    <3>2. store[k].value # table[k] => k \in writer \cup raced
      BY <2>3 DEF CachedSettingFresh
    <3> QED BY <1>9, <2>1, <2>2, <3>1, <3>2
  <2>4. CASE ~Hit(k)
    BY <1>9, <1>11, <2>1, <2>2, <2>4 DEF GetSettingByNames
  <2> QED BY <2>3, <2>4
<1>12. ASSUME NEW p \in Readers, QueryTable(p) PROVE CacheIndInv'
  <2>1. reader[p].key \in Settings /\ table[reader[p].key] \in 0 .. MaxChanges
    BY <1>12 DEF QueryTable, ReadersTyped, CacheTypeOK
  <2> QED BY <1>9, <1>12, <2>1 DEF QueryTable
<1>13. ASSUME NEW p \in Readers, SetSettings(p) PROVE CacheIndInv'
  <2> DEFINE k == reader[p].key
  <2>1. /\ reader[p].pc = "fill" /\ k \in Settings /\ reader[p].value \in 0 .. MaxChanges
        /\ store' = [store EXCEPT ![k] = newItem(reader[p].value, 0)]
        /\ reader' = [reader EXCEPT ![p] = NoRead]
        /\ UNCHANGED <<driver, table, clock, writer, gc, raced>>
    BY <1>13 DEF SetSettings, Set, ReadersTyped
  <2>2. newItem(reader[p].value, 0) \in ItemRows /\ newItem(reader[p].value, 0).value = reader[p].value
        /\ newItem(reader[p].value, 0).expires = 0
    BY <1>0, <2>1, CacheAssumption DEF newItem, ItemRows
  <2>3. /\ store' \in [CacheKeys -> ItemRows] /\ store'[k].value = reader[p].value /\ store'[k].expires = 0
        /\ \A s \in CacheKeys : s # k => store'[s] = store[s]
    BY <1>0, <2>1, <2>2
  <2>4. /\ reader' = [q \in Readers |-> reader'[q]]
        /\ \A q \in Readers : q # p => reader'[q] = reader[q]
        /\ reader'[p].pc = "idle" /\ reader'[p].value = 0
    BY <2>1 DEF ReadersTyped, NoRead
  <2>5. CacheTypeOK'
    BY <1>0, <2>1, <2>3, <2>4 DEF CacheTypeOK, ItemRows
  <2>6. ReadersTyped'
    BY <2>4, CacheAssumption DEF ReadersTyped
  <2>7. StaleReaders'
    BY <2>1, <2>4 DEF StaleReaders
  <2>8. CachedSettingFresh'
    <3> SUFFICES ASSUME NEW s \in Settings, Hit(s)', store'[s].value # table[s] PROVE s \in writer \cup raced
      BY <2>1 DEF CachedSettingFresh
    <3>1. CASE s = k
      BY <2>1, <2>3, <3>1 DEF StaleReaders
    <3>2. CASE s # k
      <4>1. store'[s] = store[s] /\ clock' = clock /\ driver' = driver
        BY <1>0, <2>1, <2>3, <3>2
      <4>2. Hit(s)
        BY <4>1 DEF Hit, memoGet, redisGet, memoExpired
      <4> QED BY <4>1, <4>2 DEF CachedSettingFresh
    <3> QED BY <3>1, <3>2
  <2> QED BY <2>5, <2>6, <2>7, <2>8
<1>14. CASE UNCHANGED cacheVars
  BY <1>14 DEF cacheVars, CacheTypeOK, ReadersTyped, StaleReaders, CachedSettingFresh,
             Hit, memoGet, redisGet, memoExpired
<1> QED BY <1>1, <1>3, <1>4, <1>5, <1>6, <1>7, <1>8, <1>10, <1>11, <1>12, <1>13, <1>14 DEF CacheNext

\* A setting or policy that is read from the cache is the one of the database,
\* except until its change has cleared the cache and except after a reader
\* wrote back the version that it held at that moment (GetSettingByNames,
\* BatchSettingChangeService, SaveAndClearCache): with either store, for every
\* set of settings, sessions and readers.
THEOREM SettingsFresh == CacheSpec => []CacheInv
<1>1. CacheIndInv => CacheInv
  BY DEF CacheIndInv, CacheInv
<1> QED BY CacheInitInv, CacheStep, <1>1, PTL DEF CacheSpec

-----------------------------------------------------------------------------
(* BackgroundTasks: workers, rows and temporary archives                   *)

\* The rows of the task table, ...
TaskRows == [status : Statuses, kind : Kinds \cup {"none"}, error : BOOLEAN]

\* ... and the goroutines of submitted tasks with their job objects.
GoroRows ==
    [pc : Working \cup {"none", "recorded", "waiting"}, err : BOOLEAN, zip : BOOLEAN, held : BOOLEAN, failed : BOOLEAN,
     todo : SUBSET Items, busy : SUBSET Items, seen : Nat]

\* Where a job is tells whether it holds a temporary archive, and whether it
\* has noted it in zipPath: only so can its clean-up be right on every way out,
\* that of a panic too (CompressTask.Do, DecompressTask.Do, removeZipFile).
ArchiveKnown(r, g) ==
    /\ g.pc \in {"none", "recorded", "waiting", "start", "do"} => ~g.held /\ ~g.zip
    /\ g.pc = "zip" => r.kind = "compress" /\ g.held /\ ~g.zip
    /\ g.pc = "upload" => r.kind = "compress" /\ g.held /\ g.zip
    /\ g.pc = "extract" => ~g.zip /\ (g.held <=> r.kind = "decompress") /\ r.kind \in {"decompress", "import"}
    /\ g.pc = "panic" => (g.held <=> r.kind = "compress") /\ (g.zip <=> r.kind = "compress")
    /\ g.pc \in {"done", "free"} => ~g.held

\* A row with status Error has an error; a job that failed has saved its error,
\* or its row is deleted; a job that gives its worker back has set its last
\* status (GeneralWorker.Do).
FailureKnown(r, g) ==
    /\ r.status = "Error" => r.error
    /\ g.err => g.pc \in {"done", "free"} /\ (r.error \/ r.status = "deleted")
    /\ g.pc = "free" => r.status \notin {"none", "Queued", "Processing"}
    /\ r.status = "none" => g.pc = "none"

\* A row, its goroutine, and its archives on disk and given up, fit together.
TaskFine(r, g, a, b) ==
    /\ r \in TaskRows /\ g \in GoroRows /\ a \in Nat /\ b \in Nat
    /\ ArchiveKnown(r, g) /\ FailureKnown(r, g)
    /\ a = b + IF g.held THEN 1 ELSE 0

\* The tasks whose goroutine holds a worker.
Busy == {t \in Tasks : goro[t].pc \in Working}

\* The types of the variables.
TasksTypes ==
    /\ row \in [Tasks -> TaskRows] /\ goro \in [Tasks -> GoroRows] /\ temp \in [Tasks -> Nat] /\ leaked \in [Tasks -> Nat]
    /\ idle \in 0 .. MaxWorkers /\ active \in BOOLEAN /\ up \in BOOLEAN /\ crashes \in 0 .. MaxCrashes
    /\ skipped \subseteq Tasks

\* An import charges what it records (ImportTask.Do).
Charges == imported \subseteq Items /\ charged \in Nat /\ charged = Cardinality(imported)

\* The inductive invariant. The workers and archives that the run counts add up
\* only because each goroutine's place in its job says what it holds, and
\* nothing runs while the process is down.
TasksIndInv ==
    /\ TasksTypes /\ Charges /\ WorkersConserved /\ NoTaskForgotten
    /\ \A t \in Tasks : TaskFine(row[t], goro[t], temp[t], leaked[t])
    /\ ~up => \A t \in Tasks : goro[t] = NoGoro

-----------------------------------------------------------------------------

\* No goroutine holds nothing.
LEMMA NoGoroFine ==
    /\ NoGoro \in GoroRows /\ NoGoro.pc = "none" /\ "none" \notin Working /\ ~NoGoro.held
    /\ \A r \in TaskRows : (r.status = "Error" => r.error) => ArchiveKnown(r, NoGoro) /\ FailureKnown(r, NoGoro)
<1>1. NoGoro \in GoroRows
  BY DEF NoGoro, GoroRows
<1>2. NoGoro.pc = "none" /\ ~NoGoro.held /\ ~NoGoro.zip /\ ~NoGoro.err /\ "none" \notin Working
  BY DEF NoGoro, Working
<1>3. \A r \in TaskRows : (r.status = "Error" => r.error) => ArchiveKnown(r, NoGoro) /\ FailureKnown(r, NoGoro)
  BY <1>2 DEF ArchiveKnown, FailureKnown
<1> QED BY <1>1, <1>2, <1>3

\* The goroutine of a task that was just submitted or resumed.
NewGoro(pc, n) == [NoGoro EXCEPT !.pc = pc, !.seen = n]

\* It holds nothing either.
LEMMA NewGoroFine ==
    ASSUME NEW pc \in {"recorded", "waiting"}, NEW n \in Nat
    PROVE  /\ NewGoro(pc, n) \in GoroRows /\ NewGoro(pc, n).pc = pc /\ ~NewGoro(pc, n).held /\ pc \notin Working
           /\ \A r \in TaskRows : (r.status = "Error" => r.error) /\ r.status # "none" =>
                  ArchiveKnown(r, NewGoro(pc, n)) /\ FailureKnown(r, NewGoro(pc, n))
<1> DEFINE g == NewGoro(pc, n)
<1>1. g \in GoroRows
  BY DEF NewGoro, NoGoro, GoroRows
<1>2. g.pc = pc /\ ~g.held /\ ~g.err /\ ~g.zip
  BY DEF NewGoro, NoGoro
<1>3. pc \notin Working
  BY DEF Working
<1> HIDE DEF g
<1>4. \A r \in TaskRows : (r.status = "Error" => r.error) /\ r.status # "none" => ArchiveKnown(r, g) /\ FailureKnown(r, g)
  BY <1>2 DEF ArchiveKnown, FailureKnown
<1> QED BY <1>1, <1>2, <1>3, <1>4 DEF g

\* The invariant holds in an empty queue.
LEMMA TasksInitInv == TasksInit => TasksIndInv
<1> SUFFICES ASSUME TasksInit PROVE TasksIndInv
  OBVIOUS
<1> DEFINE r0 == [status |-> "none", kind |-> "none", error |-> FALSE]
<1>1. r0 \in TaskRows /\ r0.status = "none"
  BY DEF TaskRows, Statuses
<1>2. \A t \in Tasks : row[t] = r0 /\ goro[t] = NoGoro /\ temp[t] = 0 /\ leaked[t] = 0
  BY DEF TasksInit
<1>3. TasksTypes
  <2>1. row \in [Tasks -> TaskRows] /\ goro \in [Tasks -> GoroRows]
    BY <1>1, NoGoroFine DEF TasksInit
  <2>2. temp \in [Tasks -> Nat] /\ leaked \in [Tasks -> Nat]
    BY DEF TasksInit
  <2>3. idle \in 0 .. MaxWorkers /\ active \in BOOLEAN /\ up \in BOOLEAN /\ crashes \in 0 .. MaxCrashes /\ skipped \subseteq Tasks
    BY TasksAssumption DEF TasksInit
  <2> QED BY <2>1, <2>2, <2>3 DEF TasksTypes
<1>4. Charges
  BY FS_EmptySet DEF TasksInit, Charges
<1> HIDE DEF r0
<1>5. Busy = {}
  BY <1>2, NoGoroFine DEF Busy
<1>6. WorkersConserved
  <2>1. idle = MaxWorkers /\ MaxWorkers \in Nat /\ Cardinality(Busy) = 0
    BY <1>5, FS_EmptySet, TasksAssumption DEF TasksInit
  <2>2. idle + Cardinality(Busy) = MaxWorkers
    BY <2>1
  <2> QED BY <2>2 DEF WorkersConserved, Busy
<1>7. NoTaskForgotten
  BY <1>1, <1>2 DEF NoTaskForgotten
<1>8. \A t \in Tasks : TaskFine(row[t], goro[t], temp[t], leaked[t])
  <2>1. TaskFine(r0, NoGoro, 0, 0)
    BY <1>1, NoGoroFine DEF TaskFine
  <2> QED BY <1>2, <2>1
<1> QED BY <1>2, <1>3, <1>4, <1>6, <1>7, <1>8 DEF TasksIndInv

\* There are finitely many busy tasks.
LEMMA BusyFinite == IsFiniteSet(Busy) /\ Cardinality(Busy) \in Nat
<1>1. Busy \in SUBSET Tasks
  BY DEF Busy
<1> QED BY <1>1, TasksAssumption, FS_Subset, FS_CardinalityType

\* A goroutine that gets, keeps or gives back a worker changes their number by
\* one, not at all, or by one (Submit, freeWorker).
LEMMA BusyMoves ==
    ASSUME TasksTypes, NEW t \in Tasks, NEW g, goro' = [goro EXCEPT ![t] = g]
    PROVE  /\ g.pc \in Working /\ goro[t].pc \notin Working => Cardinality(Busy') = Cardinality(Busy) + 1
           /\ g.pc \notin Working /\ goro[t].pc \in Working => Cardinality(Busy') = Cardinality(Busy) - 1
           /\ (g.pc \in Working <=> goro[t].pc \in Working) => Busy' = Busy
           /\ IsFiniteSet(Busy) /\ Cardinality(Busy) \in Nat /\ (goro[t].pc \in Working => Cardinality(Busy) > 0)
<1>1. goro'[t] = g /\ \A u \in Tasks : u # t => goro'[u] = goro[u]
  BY DEF TasksTypes
<1>2. \A u \in Tasks : (u \in Busy <=> goro[u].pc \in Working) /\ (u \in Busy' <=> goro'[u].pc \in Working)
  BY DEF Busy
<1>3. Busy \subseteq Tasks /\ Busy' \subseteq Tasks
  BY DEF Busy
<1>4. IsFiniteSet(Busy) /\ Cardinality(Busy) \in Nat
  BY BusyFinite
<1>5. ASSUME g.pc \in Working, goro[t].pc \notin Working PROVE Cardinality(Busy') = Cardinality(Busy) + 1
  <2>1. Busy' = Busy \cup {t} /\ t \notin Busy
    BY <1>1, <1>2, <1>3, <1>5
  <2> QED BY <1>4, <2>1, FS_AddElement
<1>6. ASSUME g.pc \notin Working, goro[t].pc \in Working PROVE Cardinality(Busy') = Cardinality(Busy) - 1
  <2>1. Busy' = Busy \ {t} /\ t \in Busy
    BY <1>1, <1>2, <1>3, <1>6
  <2> QED BY <1>4, <2>1, FS_RemoveElement
<1>7. ASSUME g.pc \in Working <=> goro[t].pc \in Working PROVE Busy' = Busy
  BY <1>1, <1>2, <1>3, <1>7
<1>8. ASSUME goro[t].pc \in Working PROVE Cardinality(Busy) > 0
  <2>1. Busy # {}
    BY <1>2, <1>8
  <2>2. Cardinality(Busy) # 0
    BY <1>4, <2>1, FS_EmptySet
  <2> QED BY <1>4, <2>2
<1> QED BY <1>4, <1>5, <1>6, <1>7, <1>8

\* The workers a goroutine holds.
Weight(g) == IF g.pc \in Working THEN 1 ELSE 0

\* f with the value v at t.
Updated(f, t, v) == [f EXCEPT ![t] = v]

\* A step that changes one task, and the pool by what its goroutine takes or
\* gives, keeps the invariant when the task's parts still fit.
LEMMA OneTaskMoves ==
    ASSUME TasksIndInv, NEW t \in Tasks, NEW r, NEW g, NEW a, NEW b, up,
           row' = Updated(row, t, r), goro' = Updated(goro, t, g),
           temp' = Updated(temp, t, a), leaked' = Updated(leaked, t, b),
           TaskFine(r, g, a, b), idle' = idle + Weight(goro[t]) - Weight(g), idle' >= 0, Charges',
           r.status \in {"Queued", "Processing"} => g.pc # "none" \/ t \in skipped,
           UNCHANGED <<active, up, crashes, skipped>>
    PROVE  TasksIndInv'
<1>1. /\ TasksTypes /\ WorkersConserved /\ NoTaskForgotten
      /\ \A u \in Tasks : TaskFine(row[u], goro[u], temp[u], leaked[u])
  BY DEF TasksIndInv
<1>2. /\ row'[t] = r /\ goro'[t] = g /\ temp'[t] = a /\ leaked'[t] = b
      /\ \A u \in Tasks : u # t => row'[u] = row[u] /\ goro'[u] = goro[u] /\ temp'[u] = temp[u] /\ leaked'[u] = leaked[u]
  BY <1>1 DEF TasksTypes, Updated
<1>3. /\ row' \in [Tasks -> TaskRows] /\ goro' \in [Tasks -> GoroRows]
      /\ temp' \in [Tasks -> Nat] /\ leaked' \in [Tasks -> Nat]
  BY <1>1 DEF TasksTypes, TaskFine, Updated
<1>4. \A u \in Tasks : TaskFine(row'[u], goro'[u], temp'[u], leaked'[u])
  BY <1>1, <1>2
<1>5. idle \in Nat /\ MaxWorkers \in Nat /\ idle + Cardinality(Busy) = MaxWorkers /\ Cardinality(Busy) \in Nat
  BY <1>1, BusyFinite, TasksAssumption DEF TasksTypes, WorkersConserved, Busy
<1>6. idle' + Cardinality(Busy') = MaxWorkers /\ idle' \in 0 .. MaxWorkers
  <2>1. CASE g.pc \in Working /\ goro[t].pc \notin Working
    <3>1. Weight(g) = 1 /\ Weight(goro[t]) = 0
      BY <2>1 DEF Weight
    <3>2. Cardinality(Busy') = Cardinality(Busy) + 1
      BY <1>1, <2>1, BusyMoves DEF Updated
    <3>3. idle' = idle - 1
      BY <1>5, <3>1
    <3> QED BY <1>5, <3>2, <3>3
  <2>2. CASE g.pc \notin Working /\ goro[t].pc \in Working
    <3>1. Weight(g) = 0 /\ Weight(goro[t]) = 1
      BY <2>2 DEF Weight
    <3>2. Cardinality(Busy') = Cardinality(Busy) - 1 /\ Cardinality(Busy) > 0
      BY <1>1, <2>2, BusyMoves DEF Updated
    <3>3. idle' = idle + 1
      BY <1>5, <3>1
    <3> QED BY <1>5, <3>2, <3>3
  <2>3. CASE g.pc \in Working <=> goro[t].pc \in Working
    <3>1. Weight(g) = Weight(goro[t]) /\ Weight(g) \in Nat
      BY <2>3 DEF Weight
    <3>2. Busy' = Busy
      BY <1>1, <2>3, BusyMoves DEF Updated
    <3> QED BY <1>5, <3>1, <3>2
  <2> QED BY <2>1, <2>2, <2>3
<1>7. WorkersConserved'
  BY <1>6 DEF WorkersConserved, Busy
<1>8. NoTaskForgotten'
  BY <1>1, <1>2 DEF NoTaskForgotten
<1>9. TasksTypes'
  BY <1>1, <1>3, <1>6 DEF TasksTypes
<1> QED BY <1>4, <1>7, <1>8, <1>9 DEF TasksIndInv

\* What the invariant says of one task.
LEMMA TaskKnown ==
    ASSUME TasksIndInv, NEW t \in Tasks
    PROVE  /\ TasksTypes /\ Charges /\ WorkersConserved /\ NoTaskForgotten
           /\ TaskFine(row[t], goro[t], temp[t], leaked[t])
           /\ row[t] \in TaskRows /\ goro[t] \in GoroRows /\ temp[t] \in Nat /\ leaked[t] \in Nat /\ idle \in Nat
           /\ goro[t].pc # "none" => up
           /\ row = Updated(row, t, row[t]) /\ goro = Updated(goro, t, goro[t])
           /\ temp = Updated(temp, t, temp[t]) /\ leaked = Updated(leaked, t, leaked[t])
<1>1. /\ TasksTypes /\ Charges /\ WorkersConserved /\ NoTaskForgotten /\ TaskFine(row[t], goro[t], temp[t], leaked[t])
      /\ goro[t].pc # "none" => up
  BY NoGoroFine DEF TasksIndInv
<1> QED BY <1>1 DEF TasksTypes, Updated

\* A step of a goroutine that keeps its worker and its archive keeps the
\* invariant.
LEMMA GoroMoves ==
    ASSUME TasksIndInv, NEW t \in Tasks, NEW g \in GoroRows, goro' = Updated(goro, t, g),
           UNCHANGED <<row, idle, temp, imported, charged, active, up, crashes, skipped, leaked>>,
           ArchiveKnown(row[t], g), FailureKnown(row[t], g), g.held = goro[t].held,
           g.pc \in Working <=> goro[t].pc \in Working, goro[t].pc # "none", g.pc # "none"
    PROVE  TasksIndInv'
<1>1. /\ TaskFine(row[t], goro[t], temp[t], leaked[t]) /\ row[t] \in TaskRows /\ up /\ Charges /\ idle \in Nat
      /\ row = Updated(row, t, row[t]) /\ temp = Updated(temp, t, temp[t]) /\ leaked = Updated(leaked, t, leaked[t])
  BY TaskKnown
<1>2. TaskFine(row[t], g, temp[t], leaked[t])
  BY <1>1 DEF TaskFine
<1>3. Weight(g) = Weight(goro[t]) /\ Weight(g) \in Nat
  BY DEF Weight
<1>4. idle' = idle + Weight(goro[t]) - Weight(g) /\ idle' >= 0
  BY <1>1, <1>3
<1>5. Charges'
  BY <1>1 DEF Charges
<1>6. /\ row' = Updated(row, t, row[t]) /\ temp' = Updated(temp, t, temp[t]) /\ leaked' = Updated(leaked, t, leaked[t])
  BY <1>1
<1>7. UNCHANGED <<active, up, crashes, skipped>> /\ goro' = Updated(goro, t, g) /\ g.pc # "none" /\ up
  BY <1>1
<1> QED BY <1>2, <1>4, <1>5, <1>6, <1>7, OneTaskMoves, SMTT(60)

\* SetStatus on a row that may be deleted, ...
StatusOf(r, s) == IF r.status = "deleted" THEN r ELSE [r EXCEPT !.status = s]

\* ... and SetError on it.
ErrorOf(r) == IF r.status = "deleted" THEN r ELSE [r EXCEPT !.error = TRUE]

\* They give rows, and are all that they change (TaskModel.SetStatus,
\* SetError).
LEMMA RowChanges ==
    ASSUME TasksIndInv, NEW t \in Tasks, NEW s \in Statuses
    PROVE  /\ SetStatus(t, s) = Updated(row, t, StatusOf(row[t], s))
           /\ SetError(t) = Updated(row, t, ErrorOf(row[t]))
           /\ StatusOf(row[t], s) \in TaskRows /\ StatusOf(row[t], s).kind = row[t].kind
           /\ StatusOf(row[t], s).error = row[t].error
           /\ StatusOf(row[t], s).status = (IF row[t].status = "deleted" THEN "deleted" ELSE s)
           /\ ErrorOf(row[t]) \in TaskRows /\ ErrorOf(row[t]).kind = row[t].kind
           /\ ErrorOf(row[t]).status = row[t].status /\ (row[t].status # "deleted" => ErrorOf(row[t]).error)
           /\ (row[t].status = "deleted" => ErrorOf(row[t]).error = row[t].error)
<1>1. row[t] \in TaskRows /\ row = Updated(row, t, row[t])
  BY TaskKnown
<1>2. SetStatus(t, s) = Updated(row, t, StatusOf(row[t], s))
  BY <1>1 DEF SetStatus, StatusOf, Updated
<1>3. SetError(t) = Updated(row, t, ErrorOf(row[t]))
  BY <1>1 DEF SetError, ErrorOf, Updated
<1>4. /\ StatusOf(row[t], s) \in TaskRows /\ StatusOf(row[t], s).kind = row[t].kind /\ StatusOf(row[t], s).error = row[t].error
      /\ StatusOf(row[t], s).status = (IF row[t].status = "deleted" THEN "deleted" ELSE s)
  BY <1>1 DEF StatusOf, TaskRows
<1>5. /\ ErrorOf(row[t]) \in TaskRows /\ ErrorOf(row[t]).kind = row[t].kind
      /\ ErrorOf(row[t]).status = row[t].status /\ (row[t].status # "deleted" => ErrorOf(row[t]).error)
      /\ (row[t].status = "deleted" => ErrorOf(row[t]).error = row[t].error)
  BY <1>1 DEF ErrorOf, TaskRows
<1> QED BY <1>2, <1>3, <1>4, <1>5

\* A job that ends with SetError, its archive removed if it was noted, keeps
\* the invariant (CompressTask.SetError).
LEMMA ErrorMoves ==
    ASSUME TasksIndInv, NEW t \in Tasks, SetErrorMsg(t), jobFrame, goro[t].pc \in {"do", "zip", "upload", "extract"},
           row[t].kind # "compress" => ~goro[t].held
    PROVE  TasksIndInv'
<1> DEFINE r == ErrorOf(row[t])
           g == [goro[t] EXCEPT !.err = TRUE, !.held = FALSE, !.pc = "done", !.todo = {}, !.busy = {}]
           a == IF row[t].kind = "compress" /\ goro[t].zip THEN temp[t] - 1 ELSE temp[t]
           b == IF row[t].kind = "compress" /\ GivesUp(t) THEN leaked[t] + 1 ELSE leaked[t]
<1>1. /\ TaskFine(row[t], goro[t], temp[t], leaked[t]) /\ row[t] \in TaskRows /\ goro[t] \in GoroRows
      /\ (goro[t].pc # "none" => up) /\ Charges /\ idle \in Nat /\ temp[t] \in Nat /\ leaked[t] \in Nat
      /\ temp = Updated(temp, t, temp[t]) /\ leaked = Updated(leaked, t, leaked[t])
  BY TaskKnown
<1>2. UNCHANGED <<idle, imported, charged, active, up, crashes, skipped>>
  BY DEF jobFrame
<1>3. row' = Updated(row, t, r)
  BY RowChanges DEF SetErrorMsg, Statuses
<1>4. goro' = Updated(goro, t, g)
  BY DEF SetErrorMsg, Updated
<1>5. temp' = Updated(temp, t, a) /\ leaked' = Updated(leaked, t, b)
  BY <1>1 DEF SetErrorMsg, removeZipFile, Updated
<1>6. /\ g \in GoroRows /\ g.err = TRUE /\ g.held = FALSE /\ g.pc = "done" /\ g.zip = goro[t].zip
  BY <1>1 DEF GoroRows, Working
<1>7. /\ r \in TaskRows /\ r.kind = row[t].kind /\ r.status = row[t].status /\ (r.status # "deleted" => r.error)
  BY RowChanges DEF Statuses
<1>8. /\ goro[t].zip => goro[t].held
      /\ temp[t] = leaked[t] + IF goro[t].held THEN 1 ELSE 0
  BY <1>1 DEF TaskFine, ArchiveKnown
<1>9. GivesUp(t) <=> goro[t].held /\ ~goro[t].zip
  BY DEF GivesUp
<1>10. a \in Nat /\ b \in Nat /\ a = b
  BY <1>1, <1>8, <1>9
<1>11. ArchiveKnown(r, g) /\ FailureKnown(r, g)
  <2>1. r.status = "Error" => r.error
    BY <1>7
  <2>2. r.status # "none"
    BY <1>1, <1>7 DEF TaskFine, FailureKnown
  <2> QED BY <1>6, <1>7, <2>1, <2>2 DEF ArchiveKnown, FailureKnown
<1>12. Weight(g) = 1 /\ Weight(goro[t]) = 1
  BY <1>6 DEF Weight, Working
<1> HIDE DEF r, g, a, b
<1>13. TaskFine(r, g, a, b)
  BY <1>6, <1>7, <1>10, <1>11 DEF TaskFine
<1>14. idle' = idle + Weight(goro[t]) - Weight(g) /\ idle' >= 0
  BY <1>1, <1>2, <1>12
<1>15. Charges'
  BY <1>1, <1>2 DEF Charges
<1>16. up /\ g.pc # "none"
  BY <1>1, <1>6
<1> QED BY <1>2, <1>3, <1>4, <1>5, <1>13, <1>14, <1>15, <1>16, OneTaskMoves

\* Getting a worker, taking up the job, and GeneralWorker.Do's end, recover and
\* freeWorker keep the invariant.
LEMMA WorkerSteps ==
    ASSUME TasksIndInv, NEW t \in Tasks,
           Submit(t) \/ obtainWorker(t) \/ WorkerStart(t) \/ WorkerEnd(t) \/ WorkerRecover(t) \/ freeWorker(t)
    PROVE  TasksIndInv'
<1>1. /\ TaskFine(row[t], goro[t], temp[t], leaked[t]) /\ row[t] \in TaskRows /\ goro[t] \in GoroRows
      /\ (goro[t].pc # "none" => up) /\ Charges /\ idle \in Nat /\ temp[t] \in Nat /\ leaked[t] \in Nat
      /\ row = Updated(row, t, row[t])
      /\ temp = Updated(temp, t, temp[t]) /\ leaked = Updated(leaked, t, leaked[t])
  BY TaskKnown
<1>2. ArchiveKnown(row[t], goro[t]) /\ FailureKnown(row[t], goro[t]) /\ temp[t] = leaked[t] + IF goro[t].held THEN 1 ELSE 0
  BY <1>1 DEF TaskFine
<1>3. ASSUME NEW pc \in Working \cup {"none", "recorded", "waiting"}
      PROVE  LET g == [goro[t] EXCEPT !.pc = pc]
             IN  g \in GoroRows /\ g.pc = pc /\ g.held = goro[t].held /\ g.zip = goro[t].zip /\ g.err = goro[t].err
  BY <1>1 DEF GoroRows
<1>4. CASE Submit(t)
  <2> DEFINE g == [goro[t] EXCEPT !.pc = "waiting"]
  <2>1. goro[t].pc = "recorded" /\ goro' = Updated(goro, t, g)
        /\ UNCHANGED <<row, idle, temp, imported, charged, active, up, crashes, skipped, leaked>>
    BY <1>4 DEF Submit, Goes, Updated
  <2>2. g \in GoroRows /\ g.pc = "waiting" /\ g.held = goro[t].held /\ g.zip = goro[t].zip /\ g.err = goro[t].err
    BY <1>3
  <2> HIDE DEF g
  <2>3. ArchiveKnown(row[t], g) /\ FailureKnown(row[t], g)
    BY <1>2, <2>1, <2>2 DEF ArchiveKnown, FailureKnown
  <2>4. g.pc \notin Working /\ goro[t].pc \notin Working
    BY <2>1, <2>2 DEF Working
  <2> QED BY <2>1, <2>2, <2>3, <2>4, GoroMoves
<1>5. CASE obtainWorker(t)
  <2> DEFINE g == [goro[t] EXCEPT !.pc = "start"]
  <2>1. /\ goro[t].pc = "waiting" /\ idle > 0 /\ idle' = idle - 1 /\ goro' = Updated(goro, t, g)
        /\ UNCHANGED <<row, temp, imported, charged, active, up, crashes, skipped, leaked>>
    BY <1>5 DEF obtainWorker, Goes, Updated
  <2>2. g \in GoroRows /\ g.pc = "start" /\ g.held = goro[t].held /\ g.zip = goro[t].zip /\ g.err = goro[t].err
    BY <1>3 DEF Working
  <2> HIDE DEF g
  <2>3. ArchiveKnown(row[t], g) /\ FailureKnown(row[t], g)
    BY <1>2, <2>1, <2>2 DEF ArchiveKnown, FailureKnown
  <2>4. Weight(g) = 1 /\ Weight(goro[t]) = 0
    BY <2>1, <2>2 DEF Working, Weight
  <2>5. TaskFine(row[t], g, temp[t], leaked[t])
    BY <1>1, <1>2, <2>2, <2>3 DEF TaskFine
  <2>6. idle' = idle + Weight(goro[t]) - Weight(g) /\ idle' >= 0
    BY <1>1, <2>1, <2>4
  <2>7. Charges' /\ up /\ g.pc # "none"
    BY <1>1, <2>1, <2>2 DEF Charges
  <2>8. /\ row' = Updated(row, t, row[t]) /\ temp' = Updated(temp, t, temp[t]) /\ leaked' = Updated(leaked, t, leaked[t])
        /\ UNCHANGED <<active, up, crashes, skipped>>
    BY <1>1, <2>1
  <2> QED BY <2>1, <2>5, <2>6, <2>7, <2>8, OneTaskMoves
<1>6. CASE WorkerStart(t)
  <2> DEFINE g == [goro[t] EXCEPT !.pc = "do"]
             r == StatusOf(row[t], "Processing")
  <2>1. /\ goro[t].pc = "start" /\ row' = SetStatus(t, "Processing") /\ goro' = Updated(goro, t, g)
        /\ UNCHANGED <<idle, temp, imported, charged, active, up, crashes, skipped, leaked>>
    BY <1>6 DEF WorkerStart, Goes, Updated
  <2>2. g \in GoroRows /\ g.pc = "do" /\ g.held = goro[t].held /\ g.zip = goro[t].zip /\ g.err = goro[t].err
    BY <1>3 DEF Working
  <2>3. /\ row' = Updated(row, t, r) /\ r \in TaskRows /\ r.kind = row[t].kind /\ r.error = row[t].error
        /\ r.status = (IF row[t].status = "deleted" THEN "deleted" ELSE "Processing")
    BY <2>1, RowChanges DEF Statuses
  <2> HIDE DEF g, r
  <2>4. ArchiveKnown(r, g) /\ FailureKnown(r, g)
    BY <1>2, <2>1, <2>2, <2>3 DEF ArchiveKnown, FailureKnown
  <2>5. Weight(g) = 1 /\ Weight(goro[t]) = 1
    BY <2>1, <2>2 DEF Working, Weight
  <2>6. TaskFine(r, g, temp[t], leaked[t])
    BY <1>1, <1>2, <2>2, <2>3, <2>4 DEF TaskFine
  <2>7. idle' = idle + Weight(goro[t]) - Weight(g) /\ idle' >= 0
    BY <1>1, <2>1, <2>5
  <2>8. Charges' /\ up /\ g.pc # "none"
    BY <1>1, <2>1, <2>2 DEF Charges
  <2>9. /\ temp' = Updated(temp, t, temp[t]) /\ leaked' = Updated(leaked, t, leaked[t])
        /\ UNCHANGED <<active, up, crashes, skipped>>
    BY <1>1, <2>1
  <2> QED BY <2>1, <2>3, <2>6, <2>7, <2>8, <2>9, OneTaskMoves
<1>7. CASE WorkerEnd(t)
  <2> DEFINE g == [goro[t] EXCEPT !.pc = "free"]
             s == IF goro[t].err THEN "Error" ELSE "Complete"
             r == StatusOf(row[t], s)
  <2>1. /\ goro[t].pc = "done" /\ row' = SetStatus(t, s) /\ goro' = Updated(goro, t, g)
        /\ UNCHANGED <<idle, temp, imported, charged, active, up, crashes, skipped, leaked>>
    BY <1>7 DEF WorkerEnd, Goes, Updated
  <2>2. g \in GoroRows /\ g.pc = "free" /\ g.held = goro[t].held /\ g.zip = goro[t].zip /\ g.err = goro[t].err
    BY <1>3 DEF Working
  <2>3. s \in Statuses /\ (s = "Error" => goro[t].err) /\ s \notin {"none", "Queued", "Processing"}
    BY DEF Statuses
  <2> HIDE DEF s
  <2>4. /\ row' = Updated(row, t, r) /\ r \in TaskRows /\ r.kind = row[t].kind /\ r.error = row[t].error
        /\ r.status = (IF row[t].status = "deleted" THEN "deleted" ELSE s)
    BY <2>1, <2>3, RowChanges
  <2> HIDE DEF g, r
  <2>5. ArchiveKnown(r, g) /\ FailureKnown(r, g)
    BY <1>2, <2>1, <2>2, <2>3, <2>4 DEF ArchiveKnown, FailureKnown
  <2>6. Weight(g) = 1 /\ Weight(goro[t]) = 1
    BY <2>1, <2>2 DEF Working, Weight
  <2>7. TaskFine(r, g, temp[t], leaked[t])
    BY <1>1, <1>2, <2>2, <2>4, <2>5 DEF TaskFine
  <2>8. idle' = idle + Weight(goro[t]) - Weight(g) /\ idle' >= 0
    BY <1>1, <2>1, <2>6
  <2>9. Charges' /\ up /\ g.pc # "none"
    BY <1>1, <2>1, <2>2 DEF Charges
  <2>10. /\ temp' = Updated(temp, t, temp[t]) /\ leaked' = Updated(leaked, t, leaked[t])
         /\ UNCHANGED <<active, up, crashes, skipped>>
    BY <1>1, <2>1
  <2> QED BY <2>1, <2>4, <2>7, <2>8, <2>9, <2>10, OneTaskMoves
<1>8. CASE WorkerRecover(t)
  <2> DEFINE g == [goro[t] EXCEPT !.pc = "free", !.err = TRUE, !.held = FALSE]
             r == IF row[t].status = "deleted" THEN row[t] ELSE [row[t] EXCEPT !.error = TRUE, !.status = "Error"]
             a == IF row[t].kind = "compress" /\ goro[t].zip THEN temp[t] - 1 ELSE temp[t]
  <2>1. /\ goro[t].pc = "panic" /\ goro' = Updated(goro, t, g)
        /\ UNCHANGED <<idle, imported, charged, active, up, crashes, skipped, leaked>>
    BY <1>8 DEF WorkerRecover, Updated
  <2>2. row' = Updated(row, t, r)
    <3>1. CASE row[t].status = "deleted"
      BY <1>1, <1>8, <3>1 DEF WorkerRecover
    <3>2. CASE row[t].status # "deleted"
      <4>1. row' = [row EXCEPT ![t].error = TRUE, ![t].status = "Error"]
        BY <1>8, <3>2 DEF WorkerRecover
      <4>2. row \in [Tasks -> TaskRows]
        BY TaskKnown DEF TasksTypes
      <4> QED BY <1>1, <3>2, <4>1, <4>2 DEF Updated
    <3> QED BY <3>1, <3>2
  <2>3. temp' = Updated(temp, t, a)
    BY <1>1, <1>8 DEF WorkerRecover, removeZipFile, Updated
  <2>4. g \in GoroRows /\ g.pc = "free" /\ g.held = FALSE /\ g.zip = goro[t].zip /\ g.err = TRUE
    BY <1>1 DEF GoroRows, Working
  <2>5. /\ r \in TaskRows /\ r.kind = row[t].kind
        /\ r.status = (IF row[t].status = "deleted" THEN "deleted" ELSE "Error")
        /\ (row[t].status # "deleted" => r.error = TRUE)
    BY <1>1 DEF TaskRows, Statuses
  <2>6. a \in Nat /\ a = leaked[t]
    BY <1>1, <1>2, <2>1 DEF ArchiveKnown
  <2> HIDE DEF g, r, a
  <2>7. ArchiveKnown(r, g) /\ FailureKnown(r, g)
    BY <2>4, <2>5 DEF ArchiveKnown, FailureKnown
  <2>8. Weight(g) = 1 /\ Weight(goro[t]) = 1
    BY <2>1, <2>4 DEF Working, Weight
  <2>9. TaskFine(r, g, a, leaked[t])
    BY <1>1, <2>4, <2>5, <2>6, <2>7 DEF TaskFine
  <2>10. idle' = idle + Weight(goro[t]) - Weight(g) /\ idle' >= 0
    BY <1>1, <2>1, <2>8
  <2>11. Charges' /\ up /\ g.pc # "none"
    BY <1>1, <2>1, <2>4 DEF Charges
  <2>12. leaked' = Updated(leaked, t, leaked[t]) /\ UNCHANGED <<active, up, crashes, skipped>>
    BY <1>1, <2>1
  <2> QED BY <2>1, <2>2, <2>3, <2>9, <2>10, <2>11, <2>12, OneTaskMoves
<1>9. CASE freeWorker(t)
  <2>1. /\ goro[t].pc = "free" /\ idle' = idle + 1 /\ goro' = Updated(goro, t, NoGoro)
        /\ UNCHANGED <<row, temp, imported, charged, active, up, crashes, skipped, leaked>>
    BY <1>9 DEF freeWorker, Updated
  <2>2. row[t].status = "Error" => row[t].error
    BY <1>2 DEF FailureKnown
  <2>3. TaskFine(row[t], NoGoro, temp[t], leaked[t])
    <3>1. ~goro[t].held
      BY <1>2, <2>1 DEF ArchiveKnown
    <3> QED BY <1>1, <1>2, <2>2, <3>1, NoGoroFine DEF TaskFine
  <2>4. Weight(NoGoro) = 0 /\ Weight(goro[t]) = 1
    BY <2>1, NoGoroFine DEF Working, Weight
  <2>5. idle' = idle + Weight(goro[t]) - Weight(NoGoro) /\ idle' >= 0
    BY <1>1, <2>1, <2>4
  <2>6. Charges' /\ up /\ row[t].status \notin {"Queued", "Processing"}
    BY <1>1, <1>2, <2>1 DEF Charges, FailureKnown
  <2>7. /\ row' = Updated(row, t, row[t]) /\ temp' = Updated(temp, t, temp[t]) /\ leaked' = Updated(leaked, t, leaked[t])
        /\ UNCHANGED <<active, up, crashes, skipped>>
    BY <1>1, <2>1
  <2> QED BY <2>1, <2>3, <2>5, <2>6, <2>7, OneTaskMoves
<1> QED BY <1>4, <1>5, <1>6, <1>7, <1>8, <1>9

\* The steps of the jobs up to their end keep it: archives are made, noted and
\* removed.
LEMMA JobSteps ==
    ASSUME TasksIndInv, NEW t \in Tasks,
           \/ CompressCreates(t) \/ Compress(t) \/ CompressUploadStored(t)
           \/ DecompressFetch(t) \/ ExtractFails(t) \/ DecompressEnds(t)
           \/ TransferBegins(t) \/ ImportList(t) \/ ImportEnds(t) \/ Recycle(t)
    PROVE  TasksIndInv'
<1>1. /\ TaskFine(row[t], goro[t], temp[t], leaked[t]) /\ row[t] \in TaskRows /\ goro[t] \in GoroRows
      /\ (goro[t].pc # "none" => up) /\ Charges /\ idle \in Nat /\ temp[t] \in Nat /\ leaked[t] \in Nat
      /\ row = Updated(row, t, row[t]) /\ temp = Updated(temp, t, temp[t]) /\ leaked = Updated(leaked, t, leaked[t])
  BY TaskKnown
<1>2. ArchiveKnown(row[t], goro[t]) /\ FailureKnown(row[t], goro[t]) /\ temp[t] = leaked[t] + IF goro[t].held THEN 1 ELSE 0
  BY <1>1 DEF TaskFine
<1>3. /\ goro[t].pc \in Working \cup {"none", "recorded", "waiting"} /\ goro[t].todo \in SUBSET Items
      /\ goro[t].busy \in SUBSET Items /\ goro[t].seen \in Nat
  BY <1>1 DEF GoroRows
<1>4. CASE Compress(t)
  <2> DEFINE g == [goro[t] EXCEPT !.pc = "upload", !.zip = TRUE]
  <2>1. /\ goro[t].pc = "zip" /\ row[t].kind = "compress" /\ goro' = Updated(goro, t, g)
        /\ UNCHANGED <<row, idle, temp, imported, charged, active, up, crashes, skipped, leaked>>
    BY <1>4 DEF Compress, Runs, Goes, jobFrame, Updated
  <2>2. g \in GoroRows /\ g.pc = "upload" /\ g.held = goro[t].held /\ g.zip = TRUE /\ g.err = goro[t].err
    BY <1>1, <1>3 DEF GoroRows, Working
  <2> HIDE DEF g
  <2>3. ArchiveKnown(row[t], g) /\ FailureKnown(row[t], g)
    BY <1>2, <2>1, <2>2 DEF ArchiveKnown, FailureKnown
  <2>4. g.pc \in Working /\ goro[t].pc \in Working /\ g.pc # "none" /\ goro[t].pc # "none"
    BY <2>1, <2>2 DEF Working
  <2> QED BY <2>1, <2>2, <2>3, <2>4, GoroMoves
<1>5. CASE CompressUploadStored(t)
  <2> DEFINE g == [goro[t] EXCEPT !.pc = "panic"]
  <2>1. /\ goro[t].pc = "upload" /\ row[t].kind = "compress" /\ goro' = Updated(goro, t, g)
        /\ UNCHANGED <<row, idle, temp, imported, charged, active, up, crashes, skipped, leaked>>
    BY <1>5 DEF CompressUploadStored, Runs, Goes, jobFrame, Updated
  <2>2. g \in GoroRows /\ g.pc = "panic" /\ g.held = goro[t].held /\ g.zip = goro[t].zip /\ g.err = goro[t].err
    BY <1>1, <1>3 DEF GoroRows, Working
  <2> HIDE DEF g
  <2>3. ArchiveKnown(row[t], g) /\ FailureKnown(row[t], g)
    BY <1>2, <2>1, <2>2 DEF ArchiveKnown, FailureKnown
  <2>4. g.pc \in Working /\ goro[t].pc \in Working /\ g.pc # "none" /\ goro[t].pc # "none"
    BY <2>1, <2>2 DEF Working
  <2> QED BY <2>1, <2>2, <2>3, <2>4, GoroMoves
<1>6. CASE ExtractFails(t)
  <2> DEFINE g == [goro[t] EXCEPT !.todo = {}, !.failed = TRUE]
  <2>1. /\ goro[t].pc = "extract" /\ row[t].kind = "decompress" /\ goro' = Updated(goro, t, g)
        /\ UNCHANGED <<row, idle, temp, imported, charged, active, up, crashes, skipped, leaked>>
    BY <1>6 DEF ExtractFails, Runs, Goes, jobFrame, Updated
  <2>2. g \in GoroRows /\ g.pc = goro[t].pc /\ g.held = goro[t].held /\ g.zip = goro[t].zip /\ g.err = goro[t].err
    BY <1>1, <1>3 DEF GoroRows, Working
  <2> HIDE DEF g
  <2>3. ArchiveKnown(row[t], g) /\ FailureKnown(row[t], g)
    BY <1>2, <2>1, <2>2 DEF ArchiveKnown, FailureKnown
  <2>4. g.pc \in Working /\ goro[t].pc \in Working /\ g.pc # "none" /\ goro[t].pc # "none"
    BY <2>1, <2>2 DEF Working
  <2> QED BY <2>1, <2>2, <2>3, <2>4, GoroMoves
<1>7. CASE TransferBegins(t)
  <2> DEFINE g == [goro[t] EXCEPT !.todo = Items]
  <2>1. /\ goro[t].pc = "do" /\ row[t].kind = "transfer" /\ goro' = Updated(goro, t, g)
        /\ UNCHANGED <<row, idle, temp, imported, charged, active, up, crashes, skipped, leaked>>
    BY <1>7 DEF TransferBegins, Runs, Goes, jobFrame, Updated
  <2>2. g \in GoroRows /\ g.pc = goro[t].pc /\ g.held = goro[t].held /\ g.zip = goro[t].zip /\ g.err = goro[t].err
    BY <1>1, <1>3 DEF GoroRows, Working
  <2> HIDE DEF g
  <2>3. ArchiveKnown(row[t], g) /\ FailureKnown(row[t], g)
    BY <1>2, <2>1, <2>2 DEF ArchiveKnown, FailureKnown
  <2>4. g.pc \in Working /\ goro[t].pc \in Working /\ g.pc # "none" /\ goro[t].pc # "none"
    BY <2>1, <2>2 DEF Working
  <2> QED BY <2>1, <2>2, <2>3, <2>4, GoroMoves
<1>8. CASE ImportList(t)
  <2> DEFINE g == [goro[t] EXCEPT !.pc = "extract", !.todo = Items]
  <2>1. /\ goro[t].pc = "do" /\ row[t].kind = "import" /\ goro' = Updated(goro, t, g)
        /\ UNCHANGED <<row, idle, temp, imported, charged, active, up, crashes, skipped, leaked>>
    BY <1>8 DEF ImportList, Runs, Goes, jobFrame, Updated
  <2>2. g \in GoroRows /\ g.pc = "extract" /\ g.held = goro[t].held /\ g.zip = goro[t].zip /\ g.err = goro[t].err
    BY <1>1, <1>3 DEF GoroRows, Working
  <2> HIDE DEF g
  <2>3. ArchiveKnown(row[t], g) /\ FailureKnown(row[t], g)
    BY <1>2, <2>1, <2>2 DEF ArchiveKnown, FailureKnown
  <2>4. g.pc \in Working /\ goro[t].pc \in Working /\ g.pc # "none" /\ goro[t].pc # "none"
    BY <2>1, <2>2 DEF Working
  <2> QED BY <2>1, <2>2, <2>3, <2>4, GoroMoves
<1>9. CASE ImportEnds(t)
  <2> DEFINE g == [goro[t] EXCEPT !.pc = "done"]
  <2>1. /\ goro[t].pc = "extract" /\ row[t].kind = "import" /\ goro' = Updated(goro, t, g)
        /\ UNCHANGED <<row, idle, temp, imported, charged, active, up, crashes, skipped, leaked>>
    BY <1>9 DEF ImportEnds, Runs, Goes, jobFrame, Updated
  <2>2. g \in GoroRows /\ g.pc = "done" /\ g.held = goro[t].held /\ g.zip = goro[t].zip /\ g.err = goro[t].err
    BY <1>1, <1>3 DEF GoroRows, Working
  <2> HIDE DEF g
  <2>3. ArchiveKnown(row[t], g) /\ FailureKnown(row[t], g)
    BY <1>2, <2>1, <2>2 DEF ArchiveKnown, FailureKnown
  <2>4. g.pc \in Working /\ goro[t].pc \in Working /\ g.pc # "none" /\ goro[t].pc # "none"
    BY <2>1, <2>2 DEF Working
  <2> QED BY <2>1, <2>2, <2>3, <2>4, GoroMoves
<1>10. CASE Recycle(t)
  <2> DEFINE g == [goro[t] EXCEPT !.pc = "done"]
  <2>1. /\ goro[t].pc = "do" /\ row[t].kind = "recycle" /\ goro' = Updated(goro, t, g)
        /\ UNCHANGED <<row, idle, temp, imported, charged, active, up, crashes, skipped, leaked>>
    BY <1>10 DEF Recycle, Runs, Goes, jobFrame, Updated
  <2>2. g \in GoroRows /\ g.pc = "done" /\ g.held = goro[t].held /\ g.zip = goro[t].zip /\ g.err = goro[t].err
    BY <1>1, <1>3 DEF GoroRows, Working
  <2> HIDE DEF g
  <2>3. ArchiveKnown(row[t], g) /\ FailureKnown(row[t], g)
    BY <1>2, <2>1, <2>2 DEF ArchiveKnown, FailureKnown
  <2>4. g.pc \in Working /\ goro[t].pc \in Working /\ g.pc # "none" /\ goro[t].pc # "none"
    BY <2>1, <2>2 DEF Working
  <2> QED BY <2>1, <2>2, <2>3, <2>4, GoroMoves
<1>11. CASE CompressCreates(t)
  <2> DEFINE g == [goro[t] EXCEPT !.pc = "zip", !.held = TRUE]
             a == temp[t] + 1
  <2>1. /\ goro[t].pc = "do" /\ row[t].kind = "compress" /\ goro' = Updated(goro, t, g) /\ temp' = Updated(temp, t, a)
        /\ UNCHANGED <<row, idle, imported, charged, active, up, crashes, skipped, leaked>>
    BY <1>11 DEF CompressCreates, Runs, jobFrame, Updated
  <2>2. g \in GoroRows /\ g.pc = "zip" /\ g.held = TRUE /\ g.zip = goro[t].zip /\ g.err = goro[t].err
    BY <1>1, <1>3 DEF GoroRows, Working
  <2> HIDE DEF g
  <2>3. ArchiveKnown(row[t], g) /\ FailureKnown(row[t], g)
    BY <1>2, <2>1, <2>2 DEF ArchiveKnown, FailureKnown
  <2>4. a \in Nat /\ a = leaked[t] + 1
    BY <1>1, <1>2, <2>1 DEF ArchiveKnown
  <2> HIDE DEF a
  <2>5. TaskFine(row[t], g, a, leaked[t])
    BY <1>1, <2>2, <2>3, <2>4 DEF TaskFine
  <2>6. Weight(g) = 1 /\ Weight(goro[t]) = 1
    BY <2>1, <2>2 DEF Working, Weight
  <2>7. idle' = idle + Weight(goro[t]) - Weight(g) /\ idle' >= 0
    BY <1>1, <2>1, <2>6
  <2>8. Charges' /\ up /\ g.pc # "none"
    BY <1>1, <2>1, <2>2 DEF Charges
  <2>9. row' = Updated(row, t, row[t]) /\ leaked' = Updated(leaked, t, leaked[t]) /\ UNCHANGED <<active, up, crashes, skipped>>
    BY <1>1, <2>1
  <2> QED BY <2>1, <2>5, <2>7, <2>8, <2>9, OneTaskMoves
<1>12. CASE DecompressFetch(t)
  <2> DEFINE g == [goro[t] EXCEPT !.pc = "extract", !.held = TRUE, !.todo = Items]
             a == temp[t] + 1
  <2>1. /\ goro[t].pc = "do" /\ row[t].kind = "decompress" /\ goro' = Updated(goro, t, g) /\ temp' = Updated(temp, t, a)
        /\ UNCHANGED <<row, idle, imported, charged, active, up, crashes, skipped, leaked>>
    BY <1>12 DEF DecompressFetch, Runs, jobFrame, Updated
  <2>2. g \in GoroRows /\ g.pc = "extract" /\ g.held = TRUE /\ g.zip = goro[t].zip /\ g.err = goro[t].err
    BY <1>1, <1>3 DEF GoroRows, Working
  <2> HIDE DEF g
  <2>3. ArchiveKnown(row[t], g) /\ FailureKnown(row[t], g)
    BY <1>2, <2>1, <2>2 DEF ArchiveKnown, FailureKnown
  <2>4. a \in Nat /\ a = leaked[t] + 1
    BY <1>1, <1>2, <2>1 DEF ArchiveKnown
  <2> HIDE DEF a
  <2>5. TaskFine(row[t], g, a, leaked[t])
    BY <1>1, <2>2, <2>3, <2>4 DEF TaskFine
  <2>6. Weight(g) = 1 /\ Weight(goro[t]) = 1
    BY <2>1, <2>2 DEF Working, Weight
  <2>7. idle' = idle + Weight(goro[t]) - Weight(g) /\ idle' >= 0
    BY <1>1, <2>1, <2>6
  <2>8. Charges' /\ up /\ g.pc # "none"
    BY <1>1, <2>1, <2>2 DEF Charges
  <2>9. row' = Updated(row, t, row[t]) /\ leaked' = Updated(leaked, t, leaked[t]) /\ UNCHANGED <<active, up, crashes, skipped>>
    BY <1>1, <2>1
  <2> QED BY <2>1, <2>5, <2>7, <2>8, <2>9, OneTaskMoves
<1>13. CASE DecompressEnds(t)
  <2> DEFINE g == [goro[t] EXCEPT !.pc = "done", !.err = goro[t].failed, !.held = FALSE]
             a == temp[t] - 1
             r == IF goro[t].failed THEN ErrorOf(row[t]) ELSE row[t]
  <2>1. /\ goro[t].pc = "extract" /\ row[t].kind = "decompress" /\ goro' = Updated(goro, t, g) /\ temp' = Updated(temp, t, a)
        /\ row' = (IF goro[t].failed THEN SetError(t) ELSE row)
        /\ UNCHANGED <<idle, imported, charged, active, up, crashes, skipped, leaked>>
    BY <1>13 DEF DecompressEnds, Runs, jobFrame, Updated
  <2>2. goro[t].failed \in BOOLEAN
    BY <1>1 DEF GoroRows
  <2>3. g \in GoroRows /\ g.pc = "done" /\ g.held = FALSE /\ g.err = goro[t].failed
    BY <1>1, <1>3, <2>2 DEF GoroRows, Working
  <2>4. /\ row' = Updated(row, t, r) /\ r \in TaskRows /\ r.status = row[t].status
        /\ (goro[t].failed => r.error \/ r.status = "deleted") /\ (r.status = "Error" => r.error)
    <3>1. CASE goro[t].failed
      BY <2>1, <3>1, RowChanges DEF Statuses
    <3>2. CASE ~goro[t].failed
      BY <1>1, <1>2, <2>1, <3>2 DEF FailureKnown
    <3> QED BY <3>1, <3>2
  <2> HIDE DEF g, r
  <2>5. ArchiveKnown(r, g) /\ FailureKnown(r, g)
    <3>1. row[t].status # "none"
      BY <1>2, <2>1 DEF FailureKnown
    <3> QED BY <2>3, <2>4, <3>1 DEF ArchiveKnown, FailureKnown
  <2>6. a \in Nat /\ a = leaked[t]
    BY <1>1, <1>2, <2>1 DEF ArchiveKnown
  <2> HIDE DEF a
  <2>7. TaskFine(r, g, a, leaked[t])
    BY <1>1, <2>3, <2>4, <2>5, <2>6 DEF TaskFine
  <2>8. Weight(g) = 1 /\ Weight(goro[t]) = 1
    BY <2>1, <2>3 DEF Working, Weight
  <2>9. idle' = idle + Weight(goro[t]) - Weight(g) /\ idle' >= 0
    BY <1>1, <2>1, <2>8
  <2>10. Charges' /\ up /\ g.pc # "none"
    BY <1>1, <2>1, <2>3 DEF Charges
  <2>11. leaked' = Updated(leaked, t, leaked[t]) /\ UNCHANGED <<active, up, crashes, skipped>>
    BY <1>1, <2>1
  <2> QED BY <2>1, <2>4, <2>7, <2>9, <2>10, <2>11, OneTaskMoves
<1> QED BY <1>4, <1>5, <1>6, <1>7, <1>8, <1>9, <1>10, <1>11, <1>12, <1>13

\* So do the steps over the entries of an archive, the files of a transfer and
\* the objects of an import.
LEMMA ItemSteps ==
    ASSUME TasksIndInv, NEW t \in Tasks, NEW o \in Items,
           \/ DecompressTake(t, o) \/ DecompressSkip(t, o) \/ uploadFunc(t, o)
           \/ TransferFileFails(t, o) \/ TransferFileStored(t, o)
           \/ AddObject(t, o) \/ ImportSkip(t, o)
    PROVE  TasksIndInv'
<1>1. /\ TaskFine(row[t], goro[t], temp[t], leaked[t]) /\ row[t] \in TaskRows /\ goro[t] \in GoroRows
      /\ (goro[t].pc # "none" => up) /\ Charges /\ idle \in Nat /\ temp[t] \in Nat /\ leaked[t] \in Nat
      /\ row = Updated(row, t, row[t]) /\ temp = Updated(temp, t, temp[t]) /\ leaked = Updated(leaked, t, leaked[t])
  BY TaskKnown
<1>2. ArchiveKnown(row[t], goro[t]) /\ FailureKnown(row[t], goro[t]) /\ temp[t] = leaked[t] + IF goro[t].held THEN 1 ELSE 0
  BY <1>1 DEF TaskFine
<1>3. /\ goro[t].pc \in Working \cup {"none", "recorded", "waiting"} /\ goro[t].todo \in SUBSET Items
      /\ goro[t].busy \in SUBSET Items /\ goro[t].seen \in Nat
  BY <1>1 DEF GoroRows
<1>4. CASE DecompressTake(t, o)
  <2> DEFINE g == [goro[t] EXCEPT !.todo = goro[t].todo \ {o}, !.busy = goro[t].busy \cup {o}]
  <2>1. /\ goro[t].pc = "extract" /\ row[t].kind = "decompress" /\ goro' = Updated(goro, t, g)
        /\ UNCHANGED <<row, idle, temp, imported, charged, active, up, crashes, skipped, leaked>>
    BY <1>4 DEF DecompressTake, Runs, Goes, jobFrame, Updated
  <2>2. g \in GoroRows /\ g.pc = goro[t].pc /\ g.held = goro[t].held /\ g.zip = goro[t].zip /\ g.err = goro[t].err
    BY <1>1, <1>3 DEF GoroRows, Working
  <2> HIDE DEF g
  <2>3. ArchiveKnown(row[t], g) /\ FailureKnown(row[t], g)
    BY <1>2, <2>1, <2>2 DEF ArchiveKnown, FailureKnown
  <2>4. g.pc \in Working /\ goro[t].pc \in Working /\ g.pc # "none" /\ goro[t].pc # "none"
    BY <2>1, <2>2 DEF Working
  <2> QED BY <2>1, <2>2, <2>3, <2>4, GoroMoves
<1>5. CASE DecompressSkip(t, o)
  <2> DEFINE g == [goro[t] EXCEPT !.todo = goro[t].todo \ {o}]
  <2>1. /\ goro[t].pc = "extract" /\ row[t].kind = "decompress" /\ goro' = Updated(goro, t, g)
        /\ UNCHANGED <<row, idle, temp, imported, charged, active, up, crashes, skipped, leaked>>
    BY <1>5 DEF DecompressSkip, Runs, Goes, jobFrame, Updated
  <2>2. g \in GoroRows /\ g.pc = goro[t].pc /\ g.held = goro[t].held /\ g.zip = goro[t].zip /\ g.err = goro[t].err
    BY <1>1, <1>3 DEF GoroRows, Working
  <2> HIDE DEF g
  <2>3. ArchiveKnown(row[t], g) /\ FailureKnown(row[t], g)
    BY <1>2, <2>1, <2>2 DEF ArchiveKnown, FailureKnown
  <2>4. g.pc \in Working /\ goro[t].pc \in Working /\ g.pc # "none" /\ goro[t].pc # "none"
    BY <2>1, <2>2 DEF Working
  <2> QED BY <2>1, <2>2, <2>3, <2>4, GoroMoves
<1>6. CASE uploadFunc(t, o)
  <2> DEFINE g == [goro[t] EXCEPT !.busy = goro[t].busy \ {o}]
  <2>1. /\ goro[t].pc = "extract" /\ row[t].kind = "decompress" /\ goro' = Updated(goro, t, g)
        /\ UNCHANGED <<row, idle, temp, imported, charged, active, up, crashes, skipped, leaked>>
    BY <1>6 DEF uploadFunc, Runs, Goes, jobFrame, Updated
  <2>2. g \in GoroRows /\ g.pc = goro[t].pc /\ g.held = goro[t].held /\ g.zip = goro[t].zip /\ g.err = goro[t].err
    BY <1>1, <1>3 DEF GoroRows, Working
  <2> HIDE DEF g
  <2>3. ArchiveKnown(row[t], g) /\ FailureKnown(row[t], g)
    BY <1>2, <2>1, <2>2 DEF ArchiveKnown, FailureKnown
  <2>4. g.pc \in Working /\ goro[t].pc \in Working /\ g.pc # "none" /\ goro[t].pc # "none"
    BY <2>1, <2>2 DEF Working
  <2> QED BY <2>1, <2>2, <2>3, <2>4, GoroMoves
<1>7. CASE TransferFileFails(t, o)
  <2> DEFINE g == [goro[t] EXCEPT !.todo = goro[t].todo \ {o}, !.failed = TRUE]
  <2>1. /\ goro[t].pc = "do" /\ row[t].kind = "transfer" /\ goro' = Updated(goro, t, g)
        /\ UNCHANGED <<row, idle, temp, imported, charged, active, up, crashes, skipped, leaked>>
    BY <1>7 DEF TransferFileFails, Runs, Goes, jobFrame, Updated
  <2>2. g \in GoroRows /\ g.pc = goro[t].pc /\ g.held = goro[t].held /\ g.zip = goro[t].zip /\ g.err = goro[t].err
    BY <1>1, <1>3 DEF GoroRows, Working
  <2> HIDE DEF g
  <2>3. ArchiveKnown(row[t], g) /\ FailureKnown(row[t], g)
    BY <1>2, <2>1, <2>2 DEF ArchiveKnown, FailureKnown
  <2>4. g.pc \in Working /\ goro[t].pc \in Working /\ g.pc # "none" /\ goro[t].pc # "none"
    BY <2>1, <2>2 DEF Working
  <2> QED BY <2>1, <2>2, <2>3, <2>4, GoroMoves
<1>8. CASE TransferFileStored(t, o)
  <2> DEFINE g == [goro[t] EXCEPT !.pc = "panic"]
  <2>1. /\ goro[t].pc = "do" /\ row[t].kind = "transfer" /\ goro' = Updated(goro, t, g)
        /\ UNCHANGED <<row, idle, temp, imported, charged, active, up, crashes, skipped, leaked>>
    BY <1>8 DEF TransferFileStored, Runs, Goes, jobFrame, Updated
  <2>2. g \in GoroRows /\ g.pc = "panic" /\ g.held = goro[t].held /\ g.zip = goro[t].zip /\ g.err = goro[t].err
    BY <1>1, <1>3 DEF GoroRows, Working
  <2> HIDE DEF g
  <2>3. ArchiveKnown(row[t], g) /\ FailureKnown(row[t], g)
    BY <1>2, <2>1, <2>2 DEF ArchiveKnown, FailureKnown
  <2>4. g.pc \in Working /\ goro[t].pc \in Working /\ g.pc # "none" /\ goro[t].pc # "none"
    BY <2>1, <2>2 DEF Working
  <2> QED BY <2>1, <2>2, <2>3, <2>4, GoroMoves
<1>9. CASE ImportSkip(t, o)
  <2> DEFINE g == [goro[t] EXCEPT !.todo = goro[t].todo \ {o}]
  <2>1. /\ goro[t].pc = "extract" /\ row[t].kind = "import" /\ goro' = Updated(goro, t, g)
        /\ UNCHANGED <<row, idle, temp, imported, charged, active, up, crashes, skipped, leaked>>
    BY <1>9 DEF ImportSkip, Runs, Goes, jobFrame, Updated
  <2>2. g \in GoroRows /\ g.pc = goro[t].pc /\ g.held = goro[t].held /\ g.zip = goro[t].zip /\ g.err = goro[t].err
    BY <1>1, <1>3 DEF GoroRows, Working
  <2> HIDE DEF g
  <2>3. ArchiveKnown(row[t], g) /\ FailureKnown(row[t], g)
    BY <1>2, <2>1, <2>2 DEF ArchiveKnown, FailureKnown
  <2>4. g.pc \in Working /\ goro[t].pc \in Working /\ g.pc # "none" /\ goro[t].pc # "none"
    BY <2>1, <2>2 DEF Working
  <2> QED BY <2>1, <2>2, <2>3, <2>4, GoroMoves
<1>10. CASE AddObject(t, o)
  <2> DEFINE g == [goro[t] EXCEPT !.todo = goro[t].todo \ {o}, !.seen = goro[t].seen + 1]
  <2>1. /\ goro[t].pc = "extract" /\ goro' = Updated(goro, t, g) /\ o \notin imported
        /\ imported' = imported \cup {o} /\ charged' = charged + 1
        /\ UNCHANGED <<row, idle, temp, active, up, crashes, skipped, leaked>>
    BY <1>10 DEF AddObject, Runs, Updated
  <2>2. g \in GoroRows /\ g.pc = goro[t].pc /\ g.held = goro[t].held /\ g.zip = goro[t].zip /\ g.err = goro[t].err
    <3>1. goro[t].seen + 1 \in Nat /\ goro[t].todo \ {o} \in SUBSET Items
      BY <1>3
    <3> QED BY <1>1, <3>1 DEF GoroRows
  <2> HIDE DEF g
  <2>3. ArchiveKnown(row[t], g) /\ FailureKnown(row[t], g)
    BY <1>2, <2>1, <2>2 DEF ArchiveKnown, FailureKnown
  <2>4. TaskFine(row[t], g, temp[t], leaked[t])
    BY <1>1, <1>2, <2>2, <2>3 DEF TaskFine
  <2>5. Weight(g) = 1 /\ Weight(goro[t]) = 1
    BY <2>1, <2>2 DEF Working, Weight
  <2>6. idle' = idle + Weight(goro[t]) - Weight(g) /\ idle' >= 0
    BY <1>1, <2>1, <2>5
  <2>7. Charges'
    <3>1. imported \in SUBSET Items /\ charged = Cardinality(imported) /\ IsFiniteSet(imported) /\ charged \in Nat
      BY <1>1, TasksAssumption, FS_Subset DEF Charges
    <3>2. Cardinality(imported \cup {o}) = Cardinality(imported) + 1
      BY <2>1, <3>1, FS_AddElement
    <3> QED BY <2>1, <3>1, <3>2 DEF Charges
  <2>8. up /\ g.pc # "none"
    BY <1>1, <2>1, <2>2
  <2>9. /\ row' = Updated(row, t, row[t]) /\ temp' = Updated(temp, t, temp[t]) /\ leaked' = Updated(leaked, t, leaked[t])
        /\ UNCHANGED <<active, up, crashes, skipped>>
    BY <1>1, <2>1
  <2> QED BY <2>1, <2>4, <2>6, <2>7, <2>8, <2>9, OneTaskMoves
<1> QED BY <1>4, <1>5, <1>6, <1>7, <1>8, <1>9, <1>10

\* So do the jobs' failures.
LEMMA FailingSteps ==
    ASSUME TasksIndInv, NEW t \in Tasks,
           DoFails(t) \/ CompressFails(t) \/ CompressUploadFails(t) \/ TransferEnds(t) \/ ImportFull(t)
    PROVE  TasksIndInv'
<1>1. ArchiveKnown(row[t], goro[t])
  BY TaskKnown DEF TaskFine
<1>2. SetErrorMsg(t) /\ jobFrame
  BY DEF DoFails, CompressFails, CompressUploadFails, TransferEnds, ImportFull
<1>3. goro[t].pc \in {"do", "zip", "upload", "extract"} /\ (goro[t].pc = "extract" => row[t].kind = "import")
  BY DEF DoFails, CompressFails, CompressUploadFails, TransferEnds, ImportFull, Runs
<1>4. row[t].kind # "compress" => ~goro[t].held
  BY <1>1, <1>3 DEF ArchiveKnown
<1> QED BY <1>2, <1>3, <1>4, ErrorMoves

\* Submitting a task and deleting its row keep it.
LEMMA RowSteps ==
    ASSUME TasksIndInv, NEW t \in Tasks, (\E k \in Kinds : Record(t, k)) \/ DeleteGeneral(t)
    PROVE  TasksIndInv'
<1>1. /\ TaskFine(row[t], goro[t], temp[t], leaked[t]) /\ row[t] \in TaskRows /\ goro[t] \in GoroRows
      /\ (goro[t].pc # "none" => up) /\ Charges /\ idle \in Nat /\ temp[t] \in Nat /\ leaked[t] \in Nat
      /\ row = Updated(row, t, row[t]) /\ temp = Updated(temp, t, temp[t]) /\ leaked = Updated(leaked, t, leaked[t])
  BY TaskKnown
<1>2. ArchiveKnown(row[t], goro[t]) /\ FailureKnown(row[t], goro[t]) /\ temp[t] = leaked[t] + IF goro[t].held THEN 1 ELSE 0
  BY <1>1 DEF TaskFine
<1>3. /\ goro[t].pc \in Working \cup {"none", "recorded", "waiting"} /\ goro[t].todo \in SUBSET Items
      /\ goro[t].busy \in SUBSET Items /\ goro[t].seen \in Nat
  BY <1>1 DEF GoroRows
<1>4. ASSUME NEW k \in Kinds, Record(t, k) PROVE TasksIndInv'
  <2> DEFINE g == NewGoro("recorded", charged)
             r == [status |-> "Queued", kind |-> k, error |-> FALSE]
  <2>1. /\ up /\ row[t].status = "none" /\ row' = Updated(row, t, r) /\ goro' = Updated(goro, t, g)
        /\ UNCHANGED <<idle, temp, imported, charged, active, up, crashes, skipped, leaked>>
    BY <1>4 DEF Record, Updated, NewGoro
  <2>2. r \in TaskRows /\ r.status = "Queued"
    BY DEF TaskRows, Statuses
  <2>3. charged \in Nat
    BY <1>1 DEF Charges
  <2> HIDE DEF r
  <2>4. /\ g \in GoroRows /\ g.pc = "recorded" /\ ~g.held /\ "recorded" \notin Working
        /\ ArchiveKnown(r, g) /\ FailureKnown(r, g)
    BY <2>2, <2>3, NewGoroFine
  <2> HIDE DEF g
  <2>5. goro[t].pc \notin Working /\ ~goro[t].held
    BY <1>2, <2>1, NoGoroFine DEF FailureKnown, ArchiveKnown
  <2>6. TaskFine(r, g, temp[t], leaked[t])
    BY <1>1, <1>2, <2>2, <2>4, <2>5 DEF TaskFine
  <2>7. Weight(g) = 0 /\ Weight(goro[t]) = 0
    BY <2>4, <2>5 DEF Weight
  <2>8. idle' = idle + Weight(goro[t]) - Weight(g) /\ idle' >= 0
    BY <1>1, <2>1, <2>7
  <2>9. Charges' /\ g.pc # "none"
    BY <1>1, <2>1, <2>4 DEF Charges
  <2>10. /\ temp' = Updated(temp, t, temp[t]) /\ leaked' = Updated(leaked, t, leaked[t])
         /\ UNCHANGED <<active, up, crashes, skipped>>
    BY <1>1, <2>1
  <2> QED BY <2>1, <2>6, <2>8, <2>9, <2>10, OneTaskMoves
<1>5. CASE DeleteGeneral(t)
  <2> DEFINE r == [row[t] EXCEPT !.status = "deleted"]
  <2>1. /\ up /\ row' = Updated(row, t, r)
        /\ UNCHANGED <<goro, idle, temp, imported, charged, active, up, crashes, skipped, leaked>>
    <3>1. /\ up /\ row' = [row EXCEPT ![t].status = "deleted"]
          /\ UNCHANGED <<goro, idle, temp, imported, charged, active, up, crashes, skipped, leaked>>
      BY <1>5 DEF DeleteGeneral
    <3> QED BY <1>1, <3>1 DEF Updated
  <2>2. r \in TaskRows /\ r.status = "deleted" /\ r.kind = row[t].kind
    BY <1>1 DEF TaskRows, Statuses
  <2> HIDE DEF r
  <2>3. ArchiveKnown(r, goro[t]) /\ FailureKnown(r, goro[t])
    BY <1>2, <2>2 DEF ArchiveKnown, FailureKnown
  <2>4. TaskFine(r, goro[t], temp[t], leaked[t])
    BY <1>1, <1>2, <2>2, <2>3 DEF TaskFine
  <2>5. Weight(goro[t]) \in Nat
    BY DEF Weight
  <2>6. idle' = idle + Weight(goro[t]) - Weight(goro[t]) /\ idle' >= 0
    BY <1>1, <2>1, <2>5
  <2>7. Charges'
    BY <1>1, <2>1 DEF Charges
  <2>8. /\ goro' = Updated(goro, t, goro[t]) /\ temp' = Updated(temp, t, temp[t]) /\ leaked' = Updated(leaked, t, leaked[t])
        /\ UNCHANGED <<active, up, crashes, skipped>>
    BY <1>1, <2>1, TaskKnown
  <2> QED BY <2>1, <2>2, <2>4, <2>6, <2>7, <2>8, OneTaskMoves
<1> QED BY <1>4, <1>5

\* So do closing or opening the owner's account, a crash, and the start after
\* it with Resume.
LEMMA ProcessSteps ==
    ASSUME TasksIndInv, (\E b \in BOOLEAN : SetActive(b)) \/ Crash \/ Restart \/ UNCHANGED taskVars
    PROVE  TasksIndInv'
<1>1. /\ TasksTypes /\ Charges /\ WorkersConserved /\ NoTaskForgotten
      /\ \A t \in Tasks : TaskFine(row[t], goro[t], temp[t], leaked[t])
      /\ ~up => \A t \in Tasks : goro[t] = NoGoro
  BY DEF TasksIndInv
<1>2. CASE \E b \in BOOLEAN : SetActive(b)
  <2>1. active' \in BOOLEAN /\ UNCHANGED <<row, goro, idle, temp, imported, charged, up, crashes, skipped, leaked>>
    BY <1>2 DEF SetActive
  <2>2. TasksTypes' /\ Charges' /\ WorkersConserved' /\ NoTaskForgotten'
    BY <1>1, <2>1 DEF TasksTypes, Charges, WorkersConserved, NoTaskForgotten
  <2>3. \A t \in Tasks : TaskFine(row'[t], goro'[t], temp'[t], leaked'[t])
    BY <1>1, <2>1
  <2> QED BY <1>1, <2>1, <2>2, <2>3 DEF TasksIndInv
<1>3. CASE Crash
  <2>1. /\ up /\ crashes < MaxCrashes /\ up' = FALSE /\ crashes' = crashes + 1
        /\ goro' = [t \in Tasks |-> NoGoro] /\ idle' = 0
        /\ leaked' = [t \in Tasks |-> leaked[t] + IF goro[t].held THEN 1 ELSE 0]
        /\ UNCHANGED <<row, temp, imported, charged, active, skipped>>
    BY <1>3 DEF Crash
  <2>2. ASSUME NEW t \in Tasks PROVE leaked'[t] \in Nat /\ goro'[t] = NoGoro /\ TaskFine(row'[t], goro'[t], temp'[t], leaked'[t])
    <3>1. /\ temp[t] = leaked[t] + (IF goro[t].held THEN 1 ELSE 0) /\ temp[t] \in Nat /\ row[t] \in TaskRows
          /\ (row[t].status = "Error" => row[t].error) /\ leaked[t] \in Nat
      BY <1>1 DEF TaskFine, FailureKnown
    <3>2. leaked'[t] = temp[t] /\ goro'[t] = NoGoro /\ row'[t] = row[t] /\ temp'[t] = temp[t]
      BY <2>1, <3>1
    <3>3. TaskFine(row[t], NoGoro, temp[t], temp[t])
      BY <3>1, NoGoroFine DEF TaskFine
    <3> QED BY <3>1, <3>2, <3>3
  <2>3. TasksTypes'
    <3>1. leaked' \in [Tasks -> Nat] /\ goro' \in [Tasks -> GoroRows]
      BY <2>1, <2>2, NoGoroFine
    <3>2. crashes' \in 0 .. MaxCrashes /\ idle' \in 0 .. MaxWorkers
      BY <1>1, <2>1, TasksAssumption DEF TasksTypes
    <3> QED BY <1>1, <2>1, <3>1, <3>2 DEF TasksTypes
  <2>4. Charges' /\ WorkersConserved' /\ NoTaskForgotten'
    BY <1>1, <2>1 DEF Charges, WorkersConserved, NoTaskForgotten
  <2> QED BY <2>2, <2>3, <2>4 DEF TasksIndInv
<1>4. CASE Restart
  <2> DEFINE found == GetTasksByStatus({"Queued", "Processing"})
  <2>1. /\ ~up /\ up' = TRUE /\ idle' = MaxWorkers /\ UNCHANGED <<row, temp, imported, charged, active, crashes, leaked>>
        /\ goro' = [t \in Tasks |-> IF t \in found /\ active THEN NewGoro("waiting", charged) ELSE NoGoro]
        /\ skipped' = skipped \cup {t \in found : ~active}
    BY <1>4 DEF Restart, Resume, GetJobFromModel, NewGoro
  <2>2. \A t \in Tasks : t \in found <=> row[t].status \in {"Queued", "Processing"}
    BY DEF GetTasksByStatus
  <2>3. found \subseteq Tasks
    BY DEF GetTasksByStatus
  <2>4. charged \in Nat
    BY <1>1 DEF Charges
  <2> HIDE DEF found
  <2>5. /\ NewGoro("waiting", charged) \in GoroRows /\ NewGoro("waiting", charged).pc = "waiting"
        /\ ~NewGoro("waiting", charged).held /\ "waiting" \notin Working
        /\ \A r \in TaskRows : (r.status = "Error" => r.error) /\ r.status # "none" =>
               ArchiveKnown(r, NewGoro("waiting", charged)) /\ FailureKnown(r, NewGoro("waiting", charged))
    BY <2>4, NewGoroFine
  <2>6. ASSUME NEW t \in Tasks
        PROVE  /\ goro'[t] \in GoroRows /\ goro'[t].pc \notin Working /\ TaskFine(row'[t], goro'[t], temp'[t], leaked'[t])
               /\ row'[t].status \in {"Queued", "Processing"} => goro'[t].pc # "none" \/ t \in skipped'
    <3>1. /\ temp[t] = leaked[t] /\ temp[t] \in Nat /\ row[t] \in TaskRows
          /\ (row[t].status = "Error" => row[t].error) /\ leaked[t] \in Nat
      BY <1>1, <2>1, NoGoroFine DEF TaskFine, FailureKnown
    <3>2. CASE t \in found /\ active
      <4>1. goro'[t] = NewGoro("waiting", charged) /\ row[t].status # "none"
        BY <2>1, <2>2, <3>2
      <4>2. TaskFine(row[t], NewGoro("waiting", charged), temp[t], leaked[t])
        BY <2>5, <3>1, <4>1 DEF TaskFine
      <4> QED BY <2>1, <2>5, <4>1, <4>2
    <3>3. CASE ~(t \in found /\ active)
      <4>1. goro'[t] = NoGoro
        BY <2>1, <3>3
      <4>2. TaskFine(row[t], NoGoro, temp[t], leaked[t])
        BY <3>1, NoGoroFine DEF TaskFine
      <4>3. row[t].status \in {"Queued", "Processing"} => t \in skipped'
        BY <2>1, <2>2, <3>3
      <4> QED BY <2>1, <4>1, <4>2, <4>3, NoGoroFine
    <3> QED BY <3>2, <3>3
  <2>7. TasksTypes'
    <3>1. goro' \in [Tasks -> GoroRows] /\ skipped' \subseteq Tasks
      BY <1>1, <2>1, <2>3, <2>6 DEF TasksTypes
    <3>2. idle' \in 0 .. MaxWorkers
      BY <2>1, TasksAssumption
    <3> QED BY <1>1, <2>1, <3>1, <3>2 DEF TasksTypes
  <2>8. WorkersConserved'
    <3>1. Busy' = {}
      BY <2>6 DEF Busy
    <3>2. Cardinality(Busy') = 0
      BY <3>1, FS_EmptySet
    <3>3. idle' + Cardinality(Busy') = MaxWorkers
      BY <2>1, <3>2, TasksAssumption
    <3> QED BY <3>3 DEF WorkersConserved, Busy
  <2>9. Charges' /\ NoTaskForgotten'
    BY <1>1, <2>1, <2>6 DEF Charges, NoTaskForgotten
  <2> QED BY <2>1, <2>6, <2>7, <2>8, <2>9 DEF TasksIndInv
<1>5. CASE UNCHANGED taskVars
  <2>1. UNCHANGED <<row, goro, idle, temp, imported, charged, active, up, crashes, skipped, leaked>>
    BY <1>5 DEF taskVars
  <2>2. TasksTypes' /\ Charges' /\ WorkersConserved' /\ NoTaskForgotten'
    BY <1>1, <2>1 DEF TasksTypes, Charges, WorkersConserved, NoTaskForgotten
  <2>3. \A t \in Tasks : TaskFine(row'[t], goro'[t], temp'[t], leaked'[t])
    BY <1>1, <2>1
  <2> QED BY <1>1, <2>1, <2>2, <2>3 DEF TasksIndInv
<1> QED BY <1>2, <1>3, <1>4, <1>5

\* Every step keeps it.
LEMMA TasksStep == TasksIndInv /\ [TasksNext]_taskVars => TasksIndInv'
<1> SUFFICES ASSUME TasksIndInv, [TasksNext]_taskVars PROVE TasksIndInv'
  OBVIOUS
<1>1. ASSUME NEW t \in Tasks, JobStep(t) PROVE TasksIndInv'
  BY <1>1, WorkerSteps, JobSteps, ItemSteps, FailingSteps DEF JobStep
<1>2. ASSUME NEW t \in Tasks, \/ DeleteGeneral(t) \/ CreateCompressTask(t) \/ CreateDecompressTask(t)
                              \/ ImportTaskCreate(t) \/ NewTransferTask(t) \/ NewRecycleTask(t)
      PROVE  TasksIndInv'
  <2>1. (\E k \in Kinds : Record(t, k)) \/ DeleteGeneral(t)
    BY <1>2 DEF CreateCompressTask, CreateDecompressTask, ImportTaskCreate, NewTransferTask,
      NewRecycleTask,
                NewCompressTask, NewDecompressTask, NewImportTask, Kinds
  <2> QED BY <2>1, RowSteps
<1> QED BY <1>1, <1>2, ProcessSteps DEF TasksNext

\* It implies what the run checks.
LEMMA TasksIndMeans == TasksIndInv => TasksInv
<1> SUFFICES ASSUME TasksIndInv PROVE TasksInv
  OBVIOUS
<1>1. /\ TasksTypes /\ Charges /\ WorkersConserved /\ NoTaskForgotten
      /\ \A t \in Tasks : TaskFine(row[t], goro[t], temp[t], leaked[t])
  BY DEF TasksIndInv
<1>2. TasksTypeOK
  BY <1>1 DEF TasksTypes, TasksTypeOK, TaskRows, GoroRows, Charges
<1>3. FailureExplained /\ TempArchivesAccounted /\ ImportChargedOnce
  BY <1>1 DEF FailureExplained, TempArchivesAccounted, ImportChargedOnce, TaskFine, FailureKnown,
    Charges
<1> QED BY <1>1, <1>2, <1>3 DEF TasksInv

\* However jobs fail, panic, are deleted or are cut off by a crash and resumed,
\* no worker of the pool is lost, no unfinished row is without a goroutine
\* (except those that Resume could not rebuild), every failure has its error,
\* every temporary archive on disk is that of a running job or one that the
\* code gives up, and an imported object is charged once (GeneralWorker.Do,
\* Resume, CompressTask, DecompressTask, TransferTask, ImportTask): for every
\* set of tasks and objects, every number of workers and crashes.
THEOREM TasksKept == TasksSpec => []TasksInv
<1>1. TasksInit => TasksIndInv
  BY TasksInitInv
<1>2. TasksIndInv /\ [TasksNext]_taskVars => TasksIndInv'
  BY TasksStep
<1>3. TasksIndInv => TasksInv
  BY TasksIndMeans
<1> QED BY <1>1, <1>2, <1>3, PTL DEF TasksSpec

-----------------------------------------------------------------------------
(* VendorDrivers: links                                                    *)

\* The links that drivers hand out.
LinkRows == [key : Nat, signed : BOOLEAN, until : Int, given : Nat, limit : Nat]

\* A link works now, ends if the bucket is private, and has a limit that the
\* vendor accepts.
LinkGood(l) ==
    /\ l.until = Forever \/ l.until > now
    /\ private => l.signed /\ l.until # Forever
    /\ l.limit # 0 => l.limit \in MinLimit .. MaxLimit

\* A cached OneDrive link ends when the vendor said, counted from when it was
\* fetched (Driver.Source).
CachedGood(l) ==
    l.key # 0 => /\ l.given <= now /\ l.until = l.given + VendorLinkLife
                 /\ l.signed /\ l.limit = 0

\* The inductive invariant of links: a link from the cache is handed out as of
\* now, so how old it is has to be known.
LinkIndInv ==
    /\ kind \in Drivers /\ private \in BOOLEAN /\ now \in Nat
    /\ link \in LinkRows /\ link.given <= now /\ LinkUsable
    /\ sourceCache \in [Keys -> LinkRows] /\ \A k \in Keys : CachedGood(sourceCache[k])

\* The larger and the smaller of two numbers.
LEMMA LimitOfTwo ==
    ASSUME NEW a \in Int, NEW b \in Int
    PROVE  /\ Max({a, b}) \in {a, b} /\ Max({a, b}) >= a /\ Max({a, b}) >= b
           /\ Min({a, b}) \in {a, b} /\ Min({a, b}) <= a /\ Min({a, b}) <= b
<1>1. \E x \in {a, b} : \A y \in {a, b} : x >= y
  OBVIOUS
<1>2. \E x \in {a, b} : \A y \in {a, b} : x =< y
  OBVIOUS
<1>3. Max({a, b}) \in {a, b} /\ \A y \in {a, b} : Max({a, b}) >= y
  BY <1>1 DEF Max
<1>4. Min({a, b}) \in {a, b} /\ \A y \in {a, b} : Min({a, b}) =< y
  BY <1>2 DEF Min
<1> QED BY <1>3, <1>4

\* The limit on the speed is none or in the vendors' range, whatever the
\* group's limit is (Source of OSS and COS).
LEMMA LimitInRange ==
    ASSUME NEW speed \in Nat
    PROVE  InRange(speed) \in Nat /\ (InRange(speed) # 0 => InRange(speed) \in MinLimit .. MaxLimit)
<1> DEFINE m == Min({speed, MaxLimit})
<1>1. MinLimit \in Nat /\ MaxLimit \in Nat /\ MinLimit <= MaxLimit
  BY VendorAssumption
<1>2. m \in {speed, MaxLimit} /\ m <= MaxLimit
  BY <1>1, LimitOfTwo
<1> HIDE DEF m
<1>3. m \in Nat
  BY <1>1, <1>2
<1>4. Max({MinLimit, m}) \in {MinLimit, m} /\ Max({MinLimit, m}) >= MinLimit
  BY <1>1, <1>3, LimitOfTwo
<1>5. Max({MinLimit, m}) \in MinLimit .. MaxLimit
  BY <1>1, <1>2, <1>3, <1>4
<1>6. InRange(speed) = IF speed = 0 THEN 0 ELSE Max({MinLimit, m})
  BY DEF InRange, m
<1> QED BY <1>1, <1>5, <1>6

\* It holds before the first link.
LEMMA LinkInitInv == VendorInit => LinkIndInv
<1> SUFFICES ASSUME VendorInit PROVE LinkIndInv
  OBVIOUS
<1>1. NoLink \in LinkRows /\ NoLink.key = 0 /\ NoLink.given = 0
  BY DEF NoLink, LinkRows
<1>2. kind \in Drivers /\ private \in BOOLEAN /\ now = 0 /\ link = NoLink /\ sourceCache = [k \in Keys |-> NoLink]
  BY DEF VendorInit
<1> QED BY <1>1, <1>2 DEF LinkIndInv, LinkUsable, CachedGood

\* A link made from a signature that ends in the future is a good one.
LEMMA MadeLink ==
    ASSUME LinkIndInv, NEW s \in BOOLEAN, NEW u \in Int, NEW limit \in Nat,
           NEW l, l.signed = s, l.until = u,
           u = Forever \/ u > now, private => s /\ u # Forever,
           limit # 0 => limit \in MinLimit .. MaxLimit
    PROVE  With(l, limit) \in LinkRows /\ With(l, limit).given = now /\ LinkGood(With(l, limit))
<1>1. With(l, limit) = [key |-> 0, signed |-> s, until |-> u, given |-> now, limit |-> limit]
  BY DEF With
<1>2. now \in Nat
  BY DEF LinkIndInv
<1> QED BY <1>1, <1>2 DEF LinkRows, LinkGood

\* The three kinds of signature.
LEMMA SignatureKinds ==
    ASSUME LinkIndInv, NEW ttl \in Nat \ {0}
    PROVE  /\ Signed(ttl).signed = TRUE /\ Signed(ttl).until = now + ttl
           /\ SignURI(ttl).signed = TRUE /\ SignURI(ttl).until = now + ttl
           /\ Plain.signed = FALSE /\ Plain.until = Forever
           /\ now + ttl \in Int /\ now + ttl > now /\ now + ttl # Forever /\ Forever \in Int
<1>1. now \in Nat
  BY DEF LinkIndInv
<1> QED BY <1>1 DEF Signed, SignURI, Plain, Forever

\* A link that was made now.
Fresh(l) == l \in LinkRows /\ l.given = now /\ LinkGood(l)

\* With a lifetime that is not 0, all of them give good links.
LEMMA FreshLinks ==
    ASSUME LinkIndInv, NEW ttl \in Nat \ {0}, NEW limit \in Nat, limit # 0 => limit \in MinLimit .. MaxLimit
    PROVE  /\ Fresh(With(Signed(ttl), limit)) /\ Fresh(With(SignURI(ttl), limit))
           /\ Fresh(With(IF private THEN Signed(ttl) ELSE Plain, limit))
<1>1. Fresh(With(Signed(ttl), limit))
  BY SignatureKinds, MadeLink DEF Fresh
<1>2. Fresh(With(SignURI(ttl), limit))
  BY SignatureKinds, MadeLink DEF Fresh
<1>3. ~private => Fresh(With(Plain, limit))
  BY SignatureKinds, MadeLink DEF Fresh
<1> QED BY <1>1, <1>2, <1>3

\* So does every driver's Source, ...
LEMMA SourceFresh ==
    ASSUME LinkIndInv, NEW speed \in Nat, kind # "onedrive"
    PROVE  Fresh(SourceLink(LinkTTL, speed))
<1>1. LinkTTL \in Nat \ {0} /\ kind \in {"oss", "cos", "s3", "qiniu", "upyun", "remote", "local"} /\ private \in BOOLEAN
  BY VendorAssumption DEF LinkIndInv
<1>2. 8 * speed \in Nat
  OBVIOUS
<1> DEFINE a == IF private THEN InRange(8 * speed) ELSE 0
           b == InRange(speed)
<1>3. a \in Nat /\ (a # 0 => a \in MinLimit .. MaxLimit)
  BY <1>2, LimitInRange
<1>4. b \in Nat /\ (b # 0 => b \in MinLimit .. MaxLimit)
  BY LimitInRange
<1> HIDE DEF a, b
<1>5. CASE kind = "oss"
  <2>1. SourceLink(LinkTTL, speed) = With(IF private THEN Signed(LinkTTL) ELSE Plain, a)
    BY <1>5 DEF SourceLink, ossSource, ossSignSourceURL, a
  <2> QED BY <1>1, <1>3, <2>1, FreshLinks
<1>6. CASE kind = "cos"
  <2>1. SourceLink(LinkTTL, speed) = With(IF private THEN Signed(LinkTTL) ELSE Plain, b)
    BY <1>6 DEF SourceLink, cosSource, cosSignSourceURL, b
  <2> QED BY <1>1, <1>4, <2>1, FreshLinks
<1>7. CASE kind \in {"s3", "qiniu", "upyun"}
  <2>1. SourceLink(LinkTTL, speed) = With(IF private THEN Signed(LinkTTL) ELSE Plain, 0)
    BY <1>7 DEF SourceLink, s3Source, qiniuSource, qiniuSignSourceURL, upyunSource, upyunSignURL
  <2> QED BY <1>1, <2>1, FreshLinks
<1>8. CASE kind \in {"remote", "local"}
  <2>1. SourceLink(LinkTTL, speed) = With(SignURI(LinkTTL), 0)
    BY <1>8 DEF SourceLink, remoteSource, localSource
  <2> QED BY <1>1, <2>1, FreshLinks
<1> QED BY <1>1, <1>5, <1>6, <1>7, <1>8

\* ... and handing it out for a file keeps it one.
LEMMA HandedOut ==
    ASSUME LinkIndInv, NEW k \in Keys, NEW l, Fresh(l), HandOut(k, l), UNCHANGED <<kind, private, now>>
    PROVE  /\ link' \in LinkRows /\ link'.given <= now /\ LinkUsable'
           /\ link' = [l EXCEPT !.key = k] /\ link'.key = k
           /\ link'.signed = l.signed /\ link'.until = l.until /\ link'.given = l.given /\ link'.limit = l.limit
<1>1. link' = [l EXCEPT !.key = k] /\ l \in LinkRows /\ l.given = now /\ LinkGood(l) /\ now \in Nat /\ k \in Nat
  BY DEF HandOut, Fresh, LinkIndInv, Keys
<1>2. /\ link' \in LinkRows /\ link'.key = k
      /\ link'.signed = l.signed /\ link'.until = l.until /\ link'.given = l.given /\ link'.limit = l.limit
  BY <1>1 DEF LinkRows
<1>3. LinkUsable'
  BY <1>1, <1>2 DEF LinkUsable, LinkGood
<1> QED BY <1>1, <1>2, <1>3

\* A step that does not touch links keeps the invariant.
LEMMA LinksKept ==
    ASSUME LinkIndInv, UNCHANGED <<kind, private, link, sourceCache, now>>
    PROVE  LinkIndInv'
BY DEF LinkIndInv, LinkUsable, CachedGood

\* Source keeps it, ...
LEMMA SourceStep ==
    ASSUME LinkIndInv, NEW k \in Keys, NEW s \in Speeds, Source(k, s), UNCHANGED <<kind, private, focus>>
    PROVE  LinkIndInv'
<1>1. s \in Nat
  BY VendorAssumption
<1>2. HandOut(k, SourceLink(LinkTTL, s)) /\ kind # "onedrive" /\ UNCHANGED <<kind, private, sourceCache, now>>
  BY DEF Source
<1>3. Fresh(SourceLink(LinkTTL, s))
  BY <1>1, <1>2, SourceFresh
<1>4. link' \in LinkRows /\ link'.given <= now /\ LinkUsable'
  BY <1>2, <1>3, HandedOut
<1> QED BY <1>2, <1>4 DEF LinkIndInv, CachedGood

\* ... Thumb does, ...
LEMMA ThumbStep ==
    ASSUME LinkIndInv, NEW k \in Keys, Thumb(k), UNCHANGED <<kind, private, focus>>
    PROVE  LinkIndInv'
<1> DEFINE t == CASE kind = "oss" -> ossThumb [] kind = "cos" -> cosThumb [] kind = "qiniu" -> qiniuThumb
                    [] kind = "upyun" -> upyunThumb [] kind = "remote" -> remoteThumb
                    [] kind = "onedrive" -> onedriveThumb
<1>1. HandOut(k, With(t, 0)) /\ kind \notin {"s3", "local"} /\ UNCHANGED <<kind, private, sourceCache, now>>
  BY DEF Thumb
<1>2. LinkTTL \in Nat \ {0} /\ VendorLinkLife \in Nat \ {0} /\ kind \in {"oss", "cos", "qiniu", "upyun", "remote", "onedrive"}
  BY <1>1, VendorAssumption DEF LinkIndInv
<1>3. Fresh(With(t, 0))
  <2>1. CASE kind \in {"oss", "cos", "qiniu", "upyun"}
    <3>1. t = IF private THEN Signed(LinkTTL) ELSE Plain
      BY <2>1 DEF ossThumb, ossSignSourceURL, cosThumb, cosSignSourceURL, qiniuThumb,
        qiniuSignSourceURL,
                  upyunThumb, upyunSignURL
    <3> HIDE DEF t
    <3> QED BY <1>2, <3>1, FreshLinks
  <2>2. CASE kind = "remote"
    <3>1. t = SignURI(LinkTTL)
      BY <2>2 DEF remoteThumb
    <3> HIDE DEF t
    <3> QED BY <1>2, <3>1, FreshLinks
  <2>3. CASE kind = "onedrive"
    <3>1. t = Signed(VendorLinkLife)
      BY <2>3 DEF onedriveThumb
    <3> HIDE DEF t
    <3> QED BY <1>2, <3>1, FreshLinks
  <2> QED BY <1>2, <2>1, <2>2, <2>3
<1> HIDE DEF t
<1>4. link' \in LinkRows /\ link'.given <= now /\ LinkUsable'
  BY <1>1, <1>3, HandedOut
<1> QED BY <1>1, <1>4 DEF LinkIndInv, CachedGood

\* ... and OneDrive's Source, from the cache or not, because CacheTTL is less
\* than the vendor's lifetime.
LEMMA OneDriveStep ==
    ASSUME LinkIndInv, NEW k \in Keys, OneDriveSource(k), UNCHANGED <<kind, private, focus>>
    PROVE  LinkIndInv'
<1>0. /\ CacheTTL \in Nat /\ VendorLinkLife \in Nat \ {0} /\ CacheTTL < VendorLinkLife /\ now \in Nat
      /\ sourceCache \in [Keys -> LinkRows] /\ sourceCache[k] \in LinkRows /\ CachedGood(sourceCache[k])
      /\ UNCHANGED <<kind, private, now>>
  BY VendorAssumption DEF LinkIndInv, OneDriveSource
<1>1. CASE sourceCache[k].key # 0 /\ sourceCache[k].given + CacheFor > now
  <2> DEFINE c == sourceCache[k]
  <2>1. link' = [c EXCEPT !.given = now] /\ UNCHANGED sourceCache
    BY <1>1 DEF OneDriveSource
  <2>2. c.given \in Nat /\ c.until = c.given + VendorLinkLife /\ c.signed /\ c.limit = 0 /\ c.given + CacheTTL > now
    BY <1>0, <1>1 DEF LinkRows, CachedGood, CacheFor
  <2>3. link' \in LinkRows /\ link'.given = now /\ link'.until = c.until /\ link'.signed = c.signed /\ link'.limit = 0
    BY <1>0, <2>1, <2>2 DEF LinkRows
  <2>4. c.until > now /\ c.until # Forever
    BY <1>0, <2>2 DEF Forever
  <2> HIDE DEF c
  <2>5. LinkUsable'
    BY <1>0, <2>2, <2>3, <2>4 DEF LinkUsable
  <2> QED BY <1>0, <2>1, <2>3, <2>5 DEF LinkIndInv, CachedGood
<1>2. CASE ~(sourceCache[k].key # 0 /\ sourceCache[k].given + CacheFor > now)
  <2> DEFINE l == With(Signed(VendorLinkLife), 0)
  <2>1. HandOut(k, l) /\ sourceCache' = [sourceCache EXCEPT ![k] = link']
    BY <1>2 DEF OneDriveSource
  <2>2. Fresh(l)
    BY <1>0, FreshLinks
  <2>3. l.signed = TRUE /\ l.until = now + VendorLinkLife /\ l.limit = 0 /\ l.given = now
    BY <1>0, SignatureKinds DEF With
  <2> HIDE DEF l
  <2>4. /\ link' \in LinkRows /\ link'.given <= now /\ LinkUsable'
        /\ link'.signed = l.signed /\ link'.until = l.until /\ link'.given = l.given /\ link'.limit = l.limit
    BY <1>0, <2>1, <2>2, HandedOut
  <2>5. CachedGood(link)'
    BY <1>0, <2>3, <2>4 DEF CachedGood
  <2>6. sourceCache' \in [Keys -> LinkRows]
    BY <1>0, <2>1, <2>4
  <2>7. \A j \in Keys : CachedGood(sourceCache[j])'
    <3> SUFFICES ASSUME NEW j \in Keys PROVE CachedGood(sourceCache[j])'
      OBVIOUS
    <3>1. CachedGood(sourceCache[j])
      BY DEF LinkIndInv
    <3>2. sourceCache'[j] = IF j = k THEN link' ELSE sourceCache[j]
      BY <1>0, <2>1
    <3>3. CASE j = k
      BY <2>5, <3>2, <3>3 DEF CachedGood
    <3>4. CASE j # k
      BY <1>0, <3>1, <3>2, <3>4 DEF CachedGood
    <3> QED BY <3>3, <3>4
  <2> QED BY <1>0, <2>4, <2>6, <2>7 DEF LinkIndInv
<1> QED BY <1>1, <1>2

\* Time keeps it: a link says nothing about later than when it was handed out.
LEMMA ClockStep ==
    ASSUME LinkIndInv, Clock, UNCHANGED <<kind, private, focus>>
    PROVE  LinkIndInv'
<1>1. now \in Nat /\ now' = now + 1 /\ UNCHANGED <<kind, private, link, sourceCache>> /\ link \in LinkRows /\ link.given <= now
  BY DEF Clock, LinkIndInv
<1>2. link.given \in Nat /\ link.given # now' /\ link.given <= now'
  BY <1>1 DEF LinkRows
<1>3. LinkUsable'
  BY <1>1, <1>2 DEF LinkUsable
<1>4. ASSUME NEW k \in Keys PROVE CachedGood(sourceCache[k])'
  <2>1. CachedGood(sourceCache[k]) /\ sourceCache[k] \in LinkRows /\ sourceCache[k].given \in Nat
    BY DEF LinkIndInv, LinkRows
  <2> QED BY <1>1, <2>1 DEF CachedGood
<1> QED BY <1>1, <1>2, <1>3, <1>4 DEF LinkIndInv

\* Every step keeps it.
LEMMA LinkStep == LinkIndInv /\ [VendorNext]_vendorVars => LinkIndInv'
<1> SUFFICES ASSUME LinkIndInv, [VendorNext]_vendorVars PROVE LinkIndInv'
  OBVIOUS
<1>1. CASE UNCHANGED vendorVars
  BY <1>1, LinksKept DEF vendorVars
<1>2. CASE VendorNext
  <2>0. UNCHANGED <<kind, private, focus>>
    BY <1>2 DEF VendorNext
  <2>1. CASE focus = "objects"
    <3>1. UNCHANGED <<link, sourceCache, now>>
      <4>1. CASE \/ \E b \in BOOLEAN : List(b)
                 \/ ossList \/ s3List \/ qiniuList \/ cosList \/ upyunList \/ remoteList \/ localList
                 \/ ListFails \/ ListReturns
                 \/ \E d \in {0} \cup Keys : ListChildren(d) \/ ListChildrenFails(d)
        BY <4>1 DEF List, ossList, s3List, qiniuList, cosList, upyunList, remoteList, localList,
          ListFails,
                    ListReturns, ListChildren, ListChildrenFails, NextPage, AllAtOnce
      <4>2. CASE \/ \E k \in Keys, b, c \in BOOLEAN : Put(k, b, c)
                 \/ PutObject \/ InitiateMultipartUpload \/ UploadChunks \/ PutFails
                 \/ \E k \in Keys : OtherWrites(k) \/ VendorDeletes(k)
        BY <4>2 DEF Put, PutObject, InitiateMultipartUpload, UploadChunks, PutFails, OtherWrites,
          VendorDeletes
      <4>3. CASE \/ \E files \in Batches : Delete(files)
                 \/ DeleteAtOnce \/ BatchDelete \/ RoutinesDone \/ DropRows \/ ForgetOrphans
                 \/ \E r \in Routines : TakeFile(r) \/ DeleteFile(r)
        BY <4>3 DEF Delete, DeleteAtOnce, BatchDelete, RoutinesDone, DropRows, ForgetOrphans,
          TakeFile, DeleteFile
      <4> QED BY <1>2, <2>1, <4>1, <4>2, <4>3 DEF VendorNext
    <3> QED BY <2>0, <3>1, LinksKept
  <2>2. CASE focus = "links"
    BY <1>2, <2>0, <2>2, SourceStep, ThumbStep, OneDriveStep, ClockStep DEF VendorNext
  <2> QED BY <1>2, <2>1, <2>2 DEF VendorNext
<1> QED BY <1>1, <1>2

-----------------------------------------------------------------------------
(* VendorDrivers: versions and uploads, deletions                          *)

\* The uploads.
PutRows == [on : {TRUE}, key : Keys, overwrite : BOOLEAN, content : Nat \ {0}, stage : {"session", "whole", "chunks", "complete"}]

\* Every upload and every foreign write has a version of its own, and the one
\* of an upload under way is nowhere in the bucket.
VersionsKnown ==
    /\ version \in Nat /\ objects \in [Keys -> Nat] /\ \A k \in Keys : objects[k] <= version
    /\ putting = Idle \/ putting \in PutRows
    /\ putting.on => putting.content <= version /\ \A k \in Keys : objects[k] # putting.content

\* An operation that is not under way is off.
LEMMA IdleOff == ~Idle.on
BY DEF Idle

\* It holds for the first bucket.
LEMMA VersionsInit == VendorInit => VersionsKnown
<1> SUFFICES ASSUME VendorInit PROVE VersionsKnown
  OBVIOUS
<1>1. objects \in [Keys -> Nat] /\ version = 1 /\ putting = Idle /\ \A k \in Keys : objects[k] <= 1
  BY DEF VendorInit
<1> QED BY <1>1, IdleOff DEF VersionsKnown

-----------------------------------------------------------------------------

\* An upload under way goes on, or ends.
PutAdvances ==
    \/ putting' = putting \/ putting' = Idle
    \/ putting.on /\ \E s \in {"chunks", "complete"} : putting' = [putting EXCEPT !.stage = s]

\* The steps that leave the bucket alone, ...
Quiet == UNCHANGED <<objects, version, dying, deleting, kind>> /\ PutAdvances

\* ... those that begin an upload, ...
JobStarts(k, b, c) ==
    /\ version' = version + 1 /\ UNCHANGED <<objects, dying, deleting, kind>>
    /\ putting' = [on |-> TRUE, key |-> k, overwrite |-> b, content |-> version',
                   stage |-> IF c /\ kind \in ChunkedPut THEN "session" ELSE "whole"]

\* ... that write its object, ...
Writes ==
    /\ putting.on /\ ~RefusedAtEnd(putting.overwrite)
    /\ objects' = [objects EXCEPT ![putting.key] = putting.content]
    /\ putting' = Idle /\ dying' = dying \ {putting.key} /\ UNCHANGED <<version, deleting, kind>>

\* ... somebody else's, ...
Adds(k) ==
    /\ objects[k] = 0 /\ objects' = [objects EXCEPT ![k] = version'] /\ version' = version + 1
    /\ UNCHANGED <<putting, dying, deleting, kind>>

\* ... that remove one that was accepted for deletion, ...
Removes(k) ==
    /\ objects' = Without({k}) /\ dying' = dying \ {k}
    /\ UNCHANGED <<putting, version, deleting, kind>>

\* ... and those of a deletion.
DeleteActs ==
    \/ \E files \in Batches : Delete(files)
    \/ DeleteAtOnce \/ BatchDelete \/ RoutinesDone \/ DropRows \/ ForgetOrphans
    \/ \E r \in Routines : TakeFile(r) \/ DeleteFile(r)

\* Listings are quiet.
LEMMA ListStepsQuiet ==
    ASSUME \/ \E b \in BOOLEAN : List(b)
           \/ ossList \/ s3List \/ qiniuList \/ cosList \/ upyunList \/ remoteList \/ localList
           \/ ListFails \/ ListReturns
           \/ \E d \in {0} \cup Keys : ListChildren(d) \/ ListChildrenFails(d),
           UNCHANGED kind
    PROVE  Quiet
BY DEF List, ossList, s3List, qiniuList, cosList, upyunList, remoteList, localList, ListFails,
  ListReturns,
       ListChildren, ListChildrenFails, NextPage, AllAtOnce, Quiet, PutAdvances

\* Links are quiet.
LEMMA LinkStepsQuiet ==
    ASSUME \/ \E k \in Keys : OneDriveSource(k) \/ Thumb(k) \/ \E s \in Speeds : Source(k, s)
           \/ Clock,
           UNCHANGED kind
    PROVE  Quiet
BY DEF OneDriveSource, Thumb, Source, Clock, Quiet, PutAdvances

\* An upload writes its object, in PutObject or in a request whose reply is
\* lost, or is quiet.
LEMMA PutSteps ==
    ASSUME PutObject \/ InitiateMultipartUpload \/ UploadChunks \/ PutFails, UNCHANGED kind
    PROVE  Quiet \/ Writes
<1>1. CASE PutObject
  BY <1>1 DEF PutObject, Store, Writes, Quiet, PutAdvances
<1>2. CASE InitiateMultipartUpload
  BY <1>2 DEF InitiateMultipartUpload, Quiet, PutAdvances
<1>3. CASE UploadChunks
  BY <1>3 DEF UploadChunks, Quiet, PutAdvances
<1>4. CASE PutFails
  BY <1>4 DEF PutFails, Store, Writes, Quiet, PutAdvances
<1> QED BY <1>1, <1>2, <1>3, <1>4

\* All of them.
BucketStep ==
    \/ Quiet \/ Writes \/ (DeleteActs /\ UNCHANGED kind)
    \/ \E k \in Keys, b, c \in BOOLEAN : JobStarts(k, b, c)
    \/ \E k \in Keys : Adds(k) \/ Removes(k)

\* There are no other steps.
LEMMA BucketSteps == [VendorNext]_vendorVars => BucketStep
<1> SUFFICES ASSUME [VendorNext]_vendorVars PROVE BucketStep
  OBVIOUS
<1>1. CASE UNCHANGED vendorVars
  BY <1>1 DEF vendorVars, BucketStep, Quiet, PutAdvances
<1>2. CASE VendorNext
  <2>0. UNCHANGED kind
    BY <1>2 DEF VendorNext
  <2>1. ASSUME NEW k \in Keys, NEW b \in BOOLEAN, NEW c \in BOOLEAN, Put(k, b, c) PROVE JobStarts(k, b, c)
    BY <2>0, <2>1 DEF Put, JobStarts
  <2>2. ASSUME NEW k \in Keys, OtherWrites(k) PROVE Adds(k)
    BY <2>0, <2>2 DEF OtherWrites, Store, Adds
  <2>3. ASSUME NEW k \in Keys, VendorDeletes(k) PROVE Removes(k)
    BY <2>0, <2>3 DEF VendorDeletes, Store, Removes
  <2>4. CASE focus = "objects"
    <3>1. CASE \/ \E b \in BOOLEAN : List(b)
               \/ ossList \/ s3List \/ qiniuList \/ cosList \/ upyunList \/ remoteList \/ localList
               \/ ListFails \/ ListReturns
               \/ \E d \in {0} \cup Keys : ListChildren(d) \/ ListChildrenFails(d)
      BY <2>0, <3>1, ListStepsQuiet DEF BucketStep
    <3>2. CASE PutObject \/ InitiateMultipartUpload \/ UploadChunks \/ PutFails
      BY <2>0, <3>2, PutSteps DEF BucketStep
    <3>3. CASE DeleteActs
      BY <2>0, <3>3 DEF BucketStep
    <3>4. CASE (\E k \in Keys, b, c \in BOOLEAN : Put(k, b, c)) \/ \E k \in Keys : OtherWrites(k) \/ VendorDeletes(k)
      BY <2>1, <2>2, <2>3, <3>4 DEF BucketStep
    <3> QED BY <1>2, <2>4, <3>1, <3>2, <3>3, <3>4 DEF VendorNext, DeleteActs
  <2>5. CASE focus = "links"
    BY <1>2, <2>0, <2>5, LinkStepsQuiet DEF VendorNext, BucketStep
  <2> QED BY <1>2, <2>4, <2>5 DEF VendorNext
<1> QED BY <1>1, <1>2

\* A deletion only removes.
LEMMA DeleteActsRemove ==
    ASSUME DeleteActs
    PROVE  UNCHANGED <<putting, version>> /\ (objects' = objects \/ \E S : objects' = Without(S))
<1>1. CASE \/ \E files \in Batches : Delete(files)
           \/ RoutinesDone \/ DropRows \/ ForgetOrphans
           \/ \E r \in Routines : TakeFile(r) \/ DeleteFile(r)
  BY <1>1 DEF Delete, RoutinesDone, DropRows, ForgetOrphans, TakeFile, DeleteFile
<1>2. CASE DeleteAtOnce
  BY <1>2 DEF DeleteAtOnce, Request, Store
<1>3. CASE BatchDelete
  BY <1>3 DEF BatchDelete, Request, Store
<1> QED BY <1>1, <1>2, <1>3 DEF DeleteActs

\* What is left after removing the keys of S.
LEMMA RemovedObjects ==
    ASSUME VersionsKnown, NEW S
    PROVE  /\ Without(S) \in [Keys -> Nat]
           /\ \A k \in Keys : Without(S)[k] = IF k \in S THEN 0 ELSE objects[k]
BY DEF Without, VersionsKnown

\* Removing keeps versions known.
LEMMA RemovingKeepsVersions ==
    ASSUME VersionsKnown, NEW S, objects' = Without(S), UNCHANGED <<putting, version>>
    PROVE  VersionsKnown'
<1>1. objects' \in [Keys -> Nat] /\ \A k \in Keys : objects'[k] = IF k \in S THEN 0 ELSE objects[k]
  BY RemovedObjects
<1>2. \A k \in Keys : objects'[k] <= version
  BY <1>1 DEF VersionsKnown
<1>3. putting.on => putting.content <= version /\ \A k \in Keys : objects'[k] # putting.content
  <2>1. putting.on => putting.content # 0
    BY IdleOff DEF VersionsKnown, PutRows
  <2> QED BY <1>1, <2>1 DEF VersionsKnown
<1> QED BY <1>1, <1>2, <1>3 DEF VersionsKnown

\* So does every step.
LEMMA VersionsStep == VersionsKnown /\ [VendorNext]_vendorVars => VersionsKnown'
<1> SUFFICES ASSUME VersionsKnown, [VendorNext]_vendorVars PROVE VersionsKnown'
  OBVIOUS
<1>1. CASE Quiet
  <2>1. UNCHANGED <<objects, version>> /\ PutAdvances
    BY <1>1 DEF Quiet
  <2>2. CASE putting' = putting
    BY <2>1, <2>2 DEF VersionsKnown
  <2>3. CASE putting' = Idle
    BY <2>1, <2>3, IdleOff DEF VersionsKnown
  <2>4. ASSUME NEW s \in {"chunks", "complete"}, putting.on, putting' = [putting EXCEPT !.stage = s] PROVE VersionsKnown'
    <3>1. putting \in PutRows
      BY <2>4, IdleOff DEF VersionsKnown
    <3>2. putting' \in PutRows /\ putting'.content = putting.content
      BY <2>4, <3>1 DEF PutRows
    <3> QED BY <2>1, <2>4, <3>2 DEF VersionsKnown
  <2> QED BY <2>1, <2>2, <2>3, <2>4 DEF PutAdvances
<1>2. CASE Writes
  <2>1. putting \in PutRows /\ putting.key \in Keys /\ putting.content \in Nat /\ putting.content <= version
    BY <1>2, IdleOff DEF Writes, VersionsKnown, PutRows
  <2>2. objects' \in [Keys -> Nat] /\ \A k \in Keys : objects'[k] \in {objects[k], putting.content}
    BY <1>2, <2>1 DEF Writes, VersionsKnown
  <2> QED BY <1>2, <2>1, <2>2, IdleOff DEF Writes, VersionsKnown
<1>3. CASE DeleteActs
  <2>1. UNCHANGED <<putting, version>> /\ (objects' = objects \/ \E S : objects' = Without(S))
    BY <1>3, DeleteActsRemove
  <2>2. CASE objects' = objects
    BY <2>1, <2>2 DEF VersionsKnown
  <2>3. CASE \E S : objects' = Without(S)
    BY <2>1, <2>3, RemovingKeepsVersions
  <2> QED BY <2>1, <2>2, <2>3
<1>4. ASSUME NEW k \in Keys, NEW b \in BOOLEAN, NEW c \in BOOLEAN, JobStarts(k, b, c) PROVE VersionsKnown'
  <2>1. version \in Nat /\ version' = version + 1 /\ UNCHANGED objects
    BY <1>4 DEF JobStarts, VersionsKnown
  <2>2. putting' \in PutRows /\ putting'.content = version'
    BY <1>4, <2>1 DEF JobStarts, PutRows
  <2>3. \A j \in Keys : objects[j] \in Nat /\ objects[j] <= version /\ objects[j] # version'
    BY <2>1 DEF VersionsKnown
  <2> QED BY <2>1, <2>2, <2>3 DEF VersionsKnown
<1>5. ASSUME NEW k \in Keys, Adds(k) PROVE VersionsKnown'
  <2>1. /\ version \in Nat /\ version' = version + 1 /\ UNCHANGED putting /\ objects \in [Keys -> Nat]
        /\ objects' = [objects EXCEPT ![k] = version']
    BY <1>5 DEF Adds, VersionsKnown
  <2>2. objects' \in [Keys -> Nat] /\ \A j \in Keys : objects'[j] = IF j = k THEN version' ELSE objects[j]
    BY <2>1
  <2>3. putting.on => putting.content \in Nat /\ putting.content <= version /\ putting.content # version'
    <3>1. putting.on => putting \in PutRows /\ putting.content <= version
      BY IdleOff DEF VersionsKnown
    <3>2. putting.on => putting.content \in Nat
      BY <3>1 DEF PutRows
    <3> QED BY <2>1, <3>1, <3>2
  <2>4. \A j \in Keys : objects[j] \in Nat /\ objects[j] <= version
    BY DEF VersionsKnown
  <2> QED BY <2>1, <2>2, <2>3, <2>4 DEF VersionsKnown
<1>6. ASSUME NEW k \in Keys, Removes(k) PROVE VersionsKnown'
  BY <1>6, RemovingKeepsVersions DEF Removes
<1> QED BY <1>1, <1>2, <1>3, <1>4, <1>5, <1>6, BucketSteps DEF BucketStep

\* An upload that is not refused although its key is taken may overwrite, with
\* the drivers that pass the mode on (OSS, Qiniu, OneDrive, slaves).
LEMMA RefusalMeans ==
    ASSUME kind \in RefusingDrivers, NEW k, putting.key = k, objects[k] # 0, ~RefusedAtEnd(putting.overwrite)
    PROVE  putting.overwrite
<1>1. Taken
  BY DEF Taken
<1>2. ~Refuses(putting.overwrite)
  BY <1>1 DEF RefusedAtEnd
<1> QED BY <1>2 DEF Refuses, RefusingDrivers, ossForbidOverWrite, qiniuScopeIsBucket,
        onedriveConflictFail, remoteRefuses

\* An upload that may not overwrite never replaces an object, even one that
\* appeared after its session was opened, with the drivers that pass the
\* Overwrite mode on (Put of OSS, Qiniu, OneDrive and the slave): for every
\* bucket and every number of versions.
THEOREM ObjectsSafe == VendorSpec => NeverClobbers
<1> DEFINE Kept == \A k \in Keys : objects[k] # 0 /\ objects'[k] \notin {0, objects[k]} /\ kind \in RefusingDrivers
                       => putting.on /\ putting.key = k /\ putting.overwrite
<1>1. VersionsKnown /\ [VendorNext]_vendorVars => Kept
  <2> SUFFICES ASSUME VersionsKnown, [VendorNext]_vendorVars, NEW k \in Keys, objects[k] # 0,
                      objects'[k] \notin {0, objects[k]}, kind \in RefusingDrivers
               PROVE  putting.on /\ putting.key = k /\ putting.overwrite
    OBVIOUS
  <2>1. CASE Quiet
    BY <2>1 DEF Quiet
  <2>2. CASE DeleteActs
    BY <2>2, DeleteActsRemove, RemovedObjects
  <2>3. CASE Writes
    <3>1. putting.on /\ putting.key = k
      BY <2>3 DEF Writes, VersionsKnown
    <3> QED BY <2>3, <3>1, RefusalMeans DEF Writes
  <2>4. CASE \E j \in Keys, b, c \in BOOLEAN : JobStarts(j, b, c)
    BY <2>4 DEF JobStarts
  <2>5. ASSUME NEW j \in Keys, Adds(j) PROVE FALSE
    BY <2>5 DEF Adds, VersionsKnown
  <2>6. ASSUME NEW j \in Keys, Removes(j) PROVE FALSE
    BY <2>6, RemovedObjects DEF Removes
  <2> QED BY <2>1, <2>2, <2>3, <2>4, <2>5, <2>6, BucketSteps DEF BucketStep
<1>2. VersionsKnown /\ [VendorNext]_vendorVars => [Kept]_vendorVars
  BY <1>1
<1> QED BY <1>2, VersionsInit, VersionsStep, PTL DEF VendorSpec, NeverClobbers

-----------------------------------------------------------------------------

\* The deletions.
DelRows ==
    [on : {TRUE}, files : Seq(Keys), index : Nat \ {0}, failed : SUBSET Keys, done : BOOLEAN,
     at : [Routines -> Nat], orphans : SUBSET Keys, was : [Keys -> Nat]]

\* The object that was at k is gone, or will be.
Gone(o, dy, was, k) == o[k] = 0 \/ o[k] # was[k] \/ k \in dy

\* File j of a deletion is gone, or is among those that the driver will report.
Handled(o, dy, del, j) == Gone(o, dy, del.was, del.files[j]) \/ del.files[j] \in del.failed

\* OneDrive: the files of the groups so far are handled; after the last group,
\* all are (BatchDelete).
GroupsBefore(o, dy, del) ==
    \A j \in 1 .. Len(del.files) :
        j <= GroupSize * (del.index - 1) \/ del.index > GroupNum(Len(del.files)) => Handled(o, dy, del, j)

\* Upyun: the files before the index are handled, or a routine has them
\* (Delete).
RoutinesHave(o, dy, del) ==
    /\ \A r \in Routines : del.at[r] < del.index /\ del.at[r] <= Len(del.files)
    /\ \A j \in 1 .. Len(del.files) : j < del.index => Handled(o, dy, del, j) \/ \E r \in Routines : del.at[r] = j
    /\ del.done => \A r \in Routines : del.at[r] = 0

\* What a deletion has done so far.
Deleted(o, dy, del) ==
    /\ del.orphans = {}
    /\ del.done => \A j \in 1 .. Len(del.files) : Handled(o, dy, del, j)
    /\ kind = "onedrive" => GroupsBefore(o, dy, del)
    /\ kind = "upyun" => RoutinesHave(o, dy, del)

\* A deletion under way saw versions that no upload under way will write.
WasOlder(del) == \A k \in Keys : del.was[k] <= version /\ (putting.on => del.was[k] # putting.content)

\* The inductive invariant of deletions: which files are handled depends on how
\* far the driver is, and an object written meanwhile must not be taken for the
\* one that was there before.
DeleteIndInv ==
    /\ VersionsKnown /\ kind \in Drivers
    /\ deleting = Idle \/ deleting \in DelRows
    /\ deleting.on => WasOlder(deleting)
    /\ deleting.on /\ kind \notin {"s3", "qiniu"} => Deleted(objects, dying, deleting)

\* It holds before the first deletion.
LEMMA DeleteInitInv == VendorInit => DeleteIndInv
<1> SUFFICES ASSUME VendorInit PROVE DeleteIndInv
  OBVIOUS
<1>1. deleting = Idle /\ kind \in Drivers
  BY DEF VendorInit
<1> QED BY <1>1, IdleOff, VersionsInit DEF DeleteIndInv

\* What is gone stays gone ...
StaysGone == \A k \in Keys : Gone(objects, dying, deleting.was, k) => Gone(objects', dying', deleting.was, k)

\* ... in every step that is not the deletion's own, ...
LEMMA OutsideStaysGone ==
    ASSUME DeleteIndInv, deleting.on,
           \/ Quiet \/ Writes
           \/ \E k \in Keys, b, c \in BOOLEAN : JobStarts(k, b, c)
           \/ \E k \in Keys : Adds(k) \/ Removes(k)
    PROVE  StaysGone
<1>1. VersionsKnown /\ WasOlder(deleting) /\ deleting \in DelRows /\ objects \in [Keys -> Nat] /\ version \in Nat
  BY IdleOff DEF DeleteIndInv, VersionsKnown
<1>2. CASE Quiet \/ \E k \in Keys, b, c \in BOOLEAN : JobStarts(k, b, c)
  BY <1>2 DEF Quiet, JobStarts, StaysGone
<1>3. CASE Writes
  <2>1. putting.on /\ putting.key \in Keys
    BY <1>1, <1>3, IdleOff DEF Writes, VersionsKnown, PutRows
  <2>2. \A k \in Keys : objects'[k] = IF k = putting.key THEN putting.content ELSE objects[k]
    BY <1>1, <1>3, <2>1 DEF Writes
  <2>3. dying' = dying \ {putting.key}
    BY <1>3 DEF Writes
  <2>4. \A k \in Keys : deleting.was[k] # putting.content
    BY <1>1, <2>1 DEF WasOlder
  <2> QED BY <2>2, <2>3, <2>4 DEF Gone, StaysGone
<1>4. ASSUME NEW j \in Keys, Adds(j) PROVE StaysGone
  <2>1. \A k \in Keys : objects'[k] = IF k = j THEN version' ELSE objects[k]
    BY <1>1, <1>4 DEF Adds
  <2>2. dying' = dying /\ version' = version + 1
    BY <1>4 DEF Adds
  <2>3. \A k \in Keys : deleting.was[k] # version'
    BY <1>1, <2>2 DEF WasOlder, DelRows
  <2> QED BY <2>1, <2>2, <2>3 DEF Gone, StaysGone
<1>5. ASSUME NEW j \in Keys, Removes(j) PROVE StaysGone
  <2>1. dying' = dying \ {j} /\ \A k \in Keys : objects'[k] = IF k = j THEN 0 ELSE objects[k]
    BY <1>1, <1>5, RemovedObjects DEF Removes
  <2> QED BY <2>1 DEF Gone, StaysGone
<1> QED BY <1>2, <1>3, <1>4, <1>5

\* ... so what is handled stays handled, ...
LEMMA HandledStays ==
    ASSUME StaysGone, deleting \in DelRows, NEW j \in 1 .. Len(deleting.files),
           Handled(objects, dying, deleting, j)
    PROVE  Handled(objects', dying', deleting, j)
<1>1. deleting.files \in Seq(Keys)
  BY DEF DelRows
<1>2. deleting.files[j] \in Keys
  BY <1>1
<1> QED BY <1>2 DEF Handled, StaysGone

\* ... and a deletion keeps its part.
LEMMA DeletedStays ==
    ASSUME StaysGone, deleting \in DelRows, Deleted(objects, dying, deleting), UNCHANGED <<kind, deleting>>
    PROVE  Deleted(objects, dying, deleting)'
<1>1. \A j \in 1 .. Len(deleting.files) : Handled(objects, dying, deleting, j) => Handled(objects', dying', deleting', j)
  BY HandledStays
<1>2. kind = "onedrive" => GroupsBefore(objects', dying', deleting')
  BY <1>1 DEF Deleted, GroupsBefore
<1>3. kind = "upyun" => RoutinesHave(objects', dying', deleting')
  BY <1>1 DEF Deleted, RoutinesHave
<1>4. deleting'.orphans = {} /\ (deleting'.done => \A j \in 1 .. Len(deleting'.files) : Handled(objects', dying', deleting', j))
  BY <1>1 DEF Deleted
<1> QED BY <1>2, <1>3, <1>4 DEF Deleted

\* New uploads and writes have versions that a deletion did not see.
LEMMA OlderStays ==
    ASSUME DeleteIndInv, deleting.on, [VendorNext]_vendorVars, UNCHANGED deleting
    PROVE  WasOlder(deleting)'
<1>1. /\ version \in Nat /\ deleting \in DelRows /\ deleting.was \in [Keys -> Nat]
      /\ \A k \in Keys : deleting.was[k] <= version /\ (putting.on => deleting.was[k] # putting.content)
  <2>1. deleting \in DelRows /\ WasOlder(deleting) /\ version \in Nat
    BY IdleOff DEF DeleteIndInv, VersionsKnown
  <2> QED BY <2>1 DEF WasOlder, DelRows
<1>2. CASE UNCHANGED version /\ (putting'.on => putting.on /\ putting'.content = putting.content)
  BY <1>1, <1>2 DEF WasOlder
<1>3. CASE Quiet
  <2>1. putting.on => putting \in PutRows
    BY IdleOff DEF DeleteIndInv, VersionsKnown
  <2>2. UNCHANGED version /\ PutAdvances
    BY <1>3 DEF Quiet
  <2>3. putting'.on => putting.on /\ putting'.content = putting.content
    <3>1. CASE putting' = putting \/ putting' = Idle
      BY <3>1, IdleOff
    <3>2. ASSUME NEW s \in {"chunks", "complete"}, putting.on, putting' = [putting EXCEPT !.stage = s]
          PROVE  putting'.content = putting.content
      BY <2>1, <3>2 DEF PutRows
    <3> QED BY <2>2, <3>1, <3>2 DEF PutAdvances
  <2> QED BY <1>2, <2>2, <2>3
<1>4. CASE Writes
  BY <1>2, <1>4, IdleOff DEF Writes
<1>5. CASE DeleteActs \/ \E k \in Keys : Removes(k)
  BY <1>2, <1>5, DeleteActsRemove DEF Removes
<1>6. ASSUME NEW k \in Keys, NEW b \in BOOLEAN, NEW c \in BOOLEAN, JobStarts(k, b, c) PROVE WasOlder(deleting)'
  <2>1. version' = version + 1 /\ putting'.content = version'
    BY <1>6 DEF JobStarts
  <2>2. \A j \in Keys : deleting.was[j] \in Nat
    BY <1>1
  <2>3. \A j \in Keys : deleting.was[j] <= version' /\ deleting.was[j] # version'
    BY <1>1, <2>1, <2>2
  <2> QED BY <2>1, <2>3 DEF WasOlder
<1>7. ASSUME NEW k \in Keys, Adds(k) PROVE WasOlder(deleting)'
  <2>1. version' = version + 1 /\ UNCHANGED putting
    BY <1>7 DEF Adds
  <2>2. \A j \in Keys : deleting.was[j] \in Nat
    BY <1>1
  <2>3. \A j \in Keys : deleting.was[j] <= version'
    BY <1>1, <2>1, <2>2
  <2> QED BY <1>1, <2>1, <2>3 DEF WasOlder
<1> QED BY <1>3, <1>4, <1>5, <1>6, <1>7, BucketSteps DEF BucketStep

\* A step of the deletion that does its part right keeps the invariant.
LEMMA DeletionGoesOn ==
    ASSUME DeleteIndInv, deleting.on, NEW d \in DelRows, deleting' = d, d.was = deleting.was,
           VersionsKnown', UNCHANGED <<putting, version, kind>>,
           kind \notin {"s3", "qiniu"} => Deleted(objects', dying', d)
    PROVE  DeleteIndInv'
<1>1. WasOlder(deleting)'
  BY DEF DeleteIndInv, WasOlder
<1>2. kind \notin {"s3", "qiniu"} => Deleted(objects, dying, deleting)'
  BY DEF Deleted, GroupsBefore, RoutinesHave
<1> QED BY <1>1, <1>2 DEF DeleteIndInv

\* So does its end.
LEMMA DeletionEnds ==
    ASSUME DeleteIndInv, deleting' = Idle, VersionsKnown', UNCHANGED kind
    PROVE  DeleteIndInv'
BY IdleOff DEF DeleteIndInv

\* What the invariant says of a deletion under way.
LEMMA DeletionKnown ==
    ASSUME DeleteIndInv, deleting.on
    PROVE  /\ deleting \in DelRows /\ deleting.files \in Seq(Keys) /\ deleting.index \in Nat \ {0}
           /\ deleting.failed \in SUBSET Keys /\ deleting.at \in [Routines -> Nat] /\ deleting.was \in [Keys -> Nat]
           /\ deleting.done \in BOOLEAN /\ deleting.orphans \in SUBSET Keys
           /\ Len(deleting.files) \in Nat /\ DOMAIN deleting.files = 1 .. Len(deleting.files)
           /\ \A j \in 1 .. Len(deleting.files) : deleting.files[j] \in Keys
           /\ ToSet(deleting.files) \in SUBSET Keys
           /\ (kind \notin {"s3", "qiniu"} => Deleted(objects, dying, deleting))
<1>1. deleting \in DelRows
  BY IdleOff DEF DeleteIndInv
<1>2. /\ deleting.files \in Seq(Keys) /\ deleting.index \in Nat \ {0} /\ deleting.done \in BOOLEAN
      /\ deleting.failed \in SUBSET Keys /\ deleting.at \in [Routines -> Nat] /\ deleting.was \in [Keys -> Nat]
      /\ deleting.orphans \in SUBSET Keys
  BY <1>1 DEF DelRows
<1>3. /\ Len(deleting.files) \in Nat /\ DOMAIN deleting.files = 1 .. Len(deleting.files)
      /\ \A j \in 1 .. Len(deleting.files) : deleting.files[j] \in Keys
  BY <1>2
<1>4. ToSet(deleting.files) \in SUBSET Keys
  BY <1>3 DEF ToSet
<1> QED BY <1>1, <1>2, <1>3, <1>4 DEF DeleteIndInv

\* Beginning a deletion keeps it.
LEMMA DeleteBegins ==
    ASSUME DeleteIndInv, NEW files \in Batches, Delete(files), UNCHANGED kind, VersionsKnown'
    PROVE  DeleteIndInv'
<1> DEFINE d == [on |-> TRUE, files |-> files, index |-> 1, failed |-> {}, done |-> FALSE,
                 at |-> [r \in Routines |-> 0], orphans |-> {}, was |-> objects]
<1>1. deleting' = d /\ UNCHANGED <<objects, dying, putting, version>>
  BY DEF Delete
<1>2. files \in Seq(Keys)
  BY VendorAssumption DEF Batches
<1>3. VersionsKnown /\ objects \in [Keys -> Nat] /\ version \in Nat
  BY DEF DeleteIndInv, VersionsKnown
<1>4. d \in DelRows
  BY <1>2, <1>3 DEF DelRows
<1>5. /\ d.was = objects /\ d.on /\ d.orphans = {} /\ d.done = FALSE /\ d.index = 1 /\ d.files = files
      /\ \A r \in Routines : d.at[r] = 0
  OBVIOUS
<1> HIDE DEF d
<1>6. WasOlder(deleting)'
  BY <1>1, <1>3, <1>5 DEF WasOlder, VersionsKnown
<1>7. GroupSize \in Nat \ {0} /\ Len(files) \in Nat /\ GroupSize * (1 - 1) = 0 /\ GroupNum(Len(files)) >= 1
  BY <1>2, VendorAssumption DEF GroupNum
<1>8. GroupsBefore(objects', dying', d) /\ RoutinesHave(objects', dying', d)
  <2>1. d.index - 1 = 0 /\ GroupSize * (d.index - 1) = 0 /\ ~(d.index > GroupNum(Len(d.files)))
    <3>1. GroupNum(Len(files)) \in Int
      BY <1>7 DEF GroupNum
    <3> QED BY <1>5, <1>7, <3>1
  <2>2. GroupsBefore(objects', dying', d)
    BY <2>1 DEF GroupsBefore
  <2>3. RoutinesHave(objects', dying', d)
    BY <1>5, <1>7 DEF RoutinesHave
  <2> QED BY <2>2, <2>3
<1>9. Deleted(objects, dying, deleting)'
  BY <1>1, <1>5, <1>8 DEF Deleted
<1> QED BY <1>1, <1>4, <1>5, <1>6, <1>9 DEF DeleteIndInv

\* What a driver does not report was removed by the vendor, in a request that
\* failed as well; the drivers of S3 and Qiniu are the ones that do not
\* (Delete).
LEMMA ReportedOrGone ==
    ASSUME kind \in Drivers, kind \notin {"s3", "qiniu", "upyun"}, NEW F, NEW gone, NEW err \in BOOLEAN
    PROVE  F \ gone \subseteq DeleteFailed(F, gone, err)
<1>1. kind \in {"oss", "cos", "onedrive", "remote", "local"}
  BY VendorAssumption
<1> QED BY <1>1 DEF DeleteFailed, ossDelete, cosDelete, onedriveDelete, remoteDelete, localDelete

\* A driver reports files of the request.
LEMMA ReportsFiles ==
    ASSUME kind \in Drivers, kind # "upyun", NEW F, NEW gone, NEW err \in BOOLEAN
    PROVE  DeleteFailed(F, gone, err) \subseteq F
<1>1. kind \in {"oss", "cos", "s3", "qiniu", "onedrive", "remote", "local"}
  BY VendorAssumption
<1> QED BY <1>1 DEF DeleteFailed, ossDelete, cosDelete, s3Delete, qiniuDelete, onedriveDelete,
        remoteDelete, localDelete

\* A deletion in one request keeps the invariant.
LEMMA AtOnceStep ==
    ASSUME DeleteIndInv, DeleteAtOnce, UNCHANGED kind, VersionsKnown'
    PROVE  DeleteIndInv'
<1> DEFINE F == ToSet(deleting.files)
<1>0. /\ deleting.on /\ kind \notin {"upyun", "onedrive"} /\ kind \in Drivers /\ VersionsKnown
      /\ UNCHANGED <<dying, putting, version>>
  BY DEF DeleteAtOnce, DeleteIndInv
<1>1. PICK gone \in SUBSET F, err \in BOOLEAN :
        objects' = Without(gone) /\ deleting' = [deleting EXCEPT !.failed = DeleteFailed(F, gone, err), !.done = TRUE]
  BY DEF DeleteAtOnce, Request, Store
<1> DEFINE d == [deleting EXCEPT !.failed = DeleteFailed(F, gone, err), !.done = TRUE]
<1>2. DeleteFailed(F, gone, err) \subseteq F /\ (kind \notin {"s3", "qiniu"} => F \ gone \subseteq DeleteFailed(F, gone, err))
  BY <1>0, ReportedOrGone, ReportsFiles
<1>3. DeleteFailed(F, gone, err) \in SUBSET Keys
  BY <1>0, <1>2, DeletionKnown
<1>4. d \in DelRows /\ d.was = deleting.was /\ d.files = deleting.files /\ d.orphans = deleting.orphans
      /\ d.failed = DeleteFailed(F, gone, err)
  BY <1>0, <1>3, DeletionKnown DEF DelRows
<1>5. \A k \in Keys : objects'[k] = IF k \in gone THEN 0 ELSE objects[k]
  BY <1>0, <1>1, RemovedObjects
<1> HIDE DEF d
<1>6. ASSUME kind \notin {"s3", "qiniu"} PROVE Deleted(objects', dying', d)
  <2>1. ASSUME NEW j \in 1 .. Len(d.files) PROVE Handled(objects', dying', d, j)
    <3>1. d.files[j] \in F /\ d.files[j] \in Keys
      BY <1>0, <1>4, DeletionKnown DEF ToSet
    <3>2. d.files[j] \in gone \/ d.files[j] \in d.failed
      BY <1>2, <1>4, <1>6, <3>1
    <3> QED BY <1>5, <3>1, <3>2 DEF Handled, Gone
  <2>2. d.orphans = {}
    BY <1>0, <1>4, <1>6, DeletionKnown DEF Deleted
  <2> QED BY <1>0, <2>1, <2>2 DEF Deleted
<1>7. deleting' = d
  BY <1>1 DEF d
<1> QED BY <1>0, <1>4, <1>6, <1>7, DeletionGoesOn

\* All groups of OneDrive but the last are full and within the files, ...
LEMMA GroupWithin ==
    ASSUME NEW n \in Nat, NEW i \in Nat, i < GroupNum(n)
    PROVE  GroupSize * i <= n
<1>1. GroupSize \in Nat \ {0} /\ n \div GroupSize \in Nat /\ n % GroupSize \in Nat
  BY VendorAssumption
<1>2. n = GroupSize * (n \div GroupSize) + (n % GroupSize)
  <2>1. GroupSize > 0
    BY <1>1
  <2> QED BY <1>1, <2>1
<1>3. i <= n \div GroupSize
  BY <1>1 DEF GroupNum
<1> DEFINE q == n \div GroupSize
<1>4. GroupSize * i <= GroupSize * q
  <2>1. PICK e \in Nat : q = i + e
    <3>1. q - i \in Nat /\ q = i + (q - i)
      BY <1>1, <1>3
    <3> QED BY <3>1
  <2> HIDE DEF q
  <2>2. GroupSize * q = GroupSize * i + GroupSize * e /\ GroupSize * e \in Nat /\ GroupSize * i \in Nat
    BY <1>1, <2>1
  <2> QED BY <2>2
<1>5. GroupSize * i \in Nat /\ GroupSize * q \in Nat
  BY <1>1
<1> HIDE DEF q
<1>6. n = GroupSize * q + (n % GroupSize)
  BY <1>2 DEF q
<1> QED BY <1>1, <1>4, <1>5, <1>6

\* ... and the last one has the rest: no file is in between (BatchDelete).
LEMMA GroupFiles ==
    ASSUME DeleteIndInv, deleting.on, deleting.index <= GroupNum(Len(deleting.files))
    PROVE  /\ Group(deleting.index) \in SUBSET Keys
           /\ \A j \in 1 .. Len(deleting.files) :
                 /\ ~(j <= GroupSize * (deleting.index - 1))
                 /\ j <= GroupSize * deleting.index \/ deleting.index + 1 > GroupNum(Len(deleting.files))
                 => deleting.files[j] \in Group(deleting.index)
<1> DEFINE n == Len(deleting.files)
           i == deleting.index
           last == IF i = GroupNum(n) THEN n ELSE GroupSize * i
<1>1. /\ n \in Nat /\ i \in Nat /\ i >= 1 /\ GroupSize \in Nat /\ GroupNum(n) \in Int /\ i <= GroupNum(n)
      /\ \A j \in 1 .. n : deleting.files[j] \in Keys
  <2>1. n \in Nat /\ i \in Nat \ {0} /\ \A j \in 1 .. n : deleting.files[j] \in Keys
    BY DeletionKnown
  <2>2. GroupNum(n) \in Int /\ GroupSize \in Nat
    BY <2>1, VendorAssumption DEF GroupNum
  <2> QED BY <2>1, <2>2
<1>2. Group(i) = {deleting.files[j] : j \in (GroupSize * (i - 1) + 1) .. last}
  BY DEF Group
<1>3. i # GroupNum(n) => GroupSize * i <= n
  BY <1>1, GroupWithin
<1> HIDE DEF n, i
<1>4. GroupSize * (i - 1) \in Nat /\ GroupSize * i \in Nat
  BY <1>1
<1>5. last \in Nat /\ last <= n
  BY <1>1, <1>3, <1>4
<1>6. ASSUME NEW j \in 1 .. n, ~(j <= GroupSize * (i - 1)), j <= GroupSize * i \/ i + 1 > GroupNum(n)
      PROVE  j \in (GroupSize * (i - 1) + 1) .. last
  <2>1. CASE i = GroupNum(n)
    BY <1>1, <1>4, <1>6, <2>1
  <2>2. CASE i # GroupNum(n)
    <3>1. ~(i + 1 > GroupNum(n))
      BY <1>1, <2>2
    <3> QED BY <1>1, <1>4, <1>6, <2>2, <3>1
  <2> QED BY <2>1, <2>2
<1> HIDE DEF last
<1>7. Group(i) \in SUBSET Keys
  <2>1. ASSUME NEW j \in (GroupSize * (i - 1) + 1) .. last PROVE deleting.files[j] \in Keys
    <3>1. j \in 1 .. n
      BY <1>1, <1>4, <1>5, <2>1
    <3> QED BY <1>1, <3>1
  <2> QED BY <1>2, <2>1
<1>8. \A j \in 1 .. n : ~(j <= GroupSize * (i - 1)) /\ (j <= GroupSize * i \/ i + 1 > GroupNum(n)) => deleting.files[j] \in Group(i)
  BY <1>2, <1>6
<1> QED BY <1>7, <1>8 DEF n, i

\* A group of OneDrive keeps it.
LEMMA BatchStep ==
    ASSUME DeleteIndInv, BatchDelete, UNCHANGED kind, VersionsKnown'
    PROVE  DeleteIndInv'
<1>0. /\ deleting.on /\ ~deleting.done /\ kind = "onedrive" /\ kind \in Drivers /\ VersionsKnown
      /\ UNCHANGED <<dying, putting, version>>
  BY DEF BatchDelete, DeleteIndInv
<1>1. GroupsBefore(objects, dying, deleting) /\ deleting.orphans = {}
  BY <1>0, DeletionKnown DEF Deleted
<1> DEFINE n == Len(deleting.files)
           i == deleting.index
<1>2. CASE /\ i > GroupNum(n) /\ deleting' = [deleting EXCEPT !.done = TRUE] /\ UNCHANGED objects
  <2> DEFINE d == [deleting EXCEPT !.done = TRUE]
  <2>1. /\ d \in DelRows /\ d.was = deleting.was /\ d.files = deleting.files /\ d.orphans = deleting.orphans
        /\ d.failed = deleting.failed /\ d.index = deleting.index
    BY <1>0, DeletionKnown DEF DelRows
  <2>2. deleting' = d
    BY <1>2
  <2> HIDE DEF d
  <2>3. \A j \in 1 .. Len(d.files) : Handled(objects', dying', d, j)
    BY <1>0, <1>1, <1>2, <2>1 DEF GroupsBefore, Handled
  <2>4. GroupsBefore(objects', dying', d)
    BY <2>3 DEF GroupsBefore
  <2>5. Deleted(objects', dying', d)
    BY <1>0, <1>1, <2>1, <2>3, <2>4 DEF Deleted
  <2> QED BY <1>0, <2>1, <2>2, <2>5, DeletionGoesOn
<1>3. CASE /\ i <= GroupNum(n)
           /\ \E gone \in SUBSET Group(i), err \in BOOLEAN :
                /\ objects' = Without(gone)
                /\ deleting' = [deleting EXCEPT !.index = @ + 1, !.failed = @ \cup DeleteFailed(Group(i), gone, err)]
  <2>1. PICK gone \in SUBSET Group(i), err \in BOOLEAN :
          /\ objects' = Without(gone)
          /\ deleting' = [deleting EXCEPT !.index = @ + 1, !.failed = @ \cup DeleteFailed(Group(i), gone, err)]
    BY <1>3
  <2> DEFINE E == DeleteFailed(Group(i), gone, err)
             d == [deleting EXCEPT !.index = deleting.index + 1, !.failed = deleting.failed \cup E]
  <2>2. deleting' = d
    BY <2>1
  <2>3. Group(i) \ gone \subseteq E /\ E \in SUBSET Keys
    <3>1. E \subseteq Group(i)
      BY <1>0, ReportsFiles
    <3>2. Group(i) \in SUBSET Keys
      BY <1>0, <1>3, GroupFiles
    <3>3. Group(i) \ gone \subseteq E
      BY <1>0, ReportedOrGone
    <3> QED BY <3>1, <3>2, <3>3
  <2> HIDE DEF E
  <2>4. /\ d \in DelRows /\ d.was = deleting.was /\ d.files = deleting.files /\ d.orphans = deleting.orphans
        /\ d.failed = deleting.failed \cup E /\ d.index = deleting.index + 1 /\ d.done = deleting.done
    <3>1. deleting.index + 1 \in Nat \ {0} /\ deleting.failed \cup E \in SUBSET Keys /\ deleting \in DelRows
      BY <1>0, <2>3, DeletionKnown
    <3> QED BY <3>1 DEF DelRows
  <2> HIDE DEF d
  <2>5. \A k \in Keys : objects'[k] = IF k \in gone THEN 0 ELSE objects[k]
    BY <1>0, <2>1, RemovedObjects
  <2>6. ASSUME NEW j \in 1 .. n, j <= GroupSize * i \/ i + 1 > GroupNum(n)
        PROVE  Handled(objects', dying', d, j)
    <3>1. deleting.files[j] \in Keys
      BY <1>0, DeletionKnown
    <3>2. CASE j <= GroupSize * (i - 1)
      <4>1. Handled(objects, dying, deleting, j)
        BY <1>1, <3>2 DEF GroupsBefore
      <4> QED BY <1>0, <2>4, <2>5, <3>1, <4>1 DEF Handled, Gone
    <3>3. CASE ~(j <= GroupSize * (i - 1))
      <4>1. deleting.files[j] \in Group(i)
        BY <1>0, <1>3, <2>6, <3>3, GroupFiles
      <4>2. deleting.files[j] \in gone \/ deleting.files[j] \in E
        BY <2>3, <4>1
      <4> QED BY <2>4, <2>5, <3>1, <4>2 DEF Handled, Gone
    <3> QED BY <3>2, <3>3
  <2>7. GroupsBefore(objects', dying', d)
    <3>1. d.index - 1 = i
      BY <1>0, <2>4, DeletionKnown
    <3> QED BY <2>4, <2>6, <3>1 DEF GroupsBefore
  <2>8. Deleted(objects', dying', d)
    BY <1>0, <1>1, <2>4, <2>7 DEF Deleted
  <2> QED BY <1>0, <2>2, <2>4, <2>8, DeletionGoesOn
<1> QED BY <1>2, <1>3 DEF BatchDelete, Request, Store

\* A routine of Upyun that takes a file keeps it, ...
LEMMA TakeFileStep ==
    ASSUME DeleteIndInv, NEW r \in Routines, TakeFile(r), UNCHANGED kind, VersionsKnown'
    PROVE  DeleteIndInv'
<1> DEFINE a == [deleting.at EXCEPT ![r] = deleting.index]
           d == [deleting EXCEPT !.at = a, !.index = deleting.index + 1]
<1>0. /\ deleting.on /\ ~deleting.done /\ kind = "upyun" /\ deleting.at[r] = 0
      /\ deleting.index <= Len(deleting.files) /\ UNCHANGED <<objects, dying, putting, version>>
      /\ deleting' = d
  BY DEF TakeFile
<1>1. RoutinesHave(objects, dying, deleting) /\ deleting.orphans = {}
  BY <1>0, DeletionKnown DEF Deleted
<1>2. /\ deleting.at \in [Routines -> Nat] /\ deleting.index \in Nat /\ deleting.index + 1 \in Nat \ {0}
      /\ deleting \in DelRows /\ Len(deleting.files) \in Nat
  BY <1>0, DeletionKnown
<1>3. a \in [Routines -> Nat] /\ \A x \in Routines : a[x] = IF x = r THEN deleting.index ELSE deleting.at[x]
  BY <1>2
<1> HIDE DEF a
<1>4. /\ d \in DelRows /\ d.was = deleting.was /\ d.files = deleting.files /\ d.orphans = deleting.orphans
      /\ d.failed = deleting.failed /\ d.index = deleting.index + 1 /\ d.done = deleting.done /\ d.at = a
  BY <1>2, <1>3 DEF DelRows
<1> HIDE DEF d
<1>5. ASSUME NEW x \in Routines PROVE d.at[x] < d.index /\ d.at[x] <= Len(d.files)
  <2>1. deleting.at[x] < deleting.index /\ deleting.at[x] <= Len(deleting.files) /\ deleting.at[x] \in Nat
    BY <1>1, <1>2 DEF RoutinesHave
  <2> QED BY <1>0, <1>2, <1>3, <1>4, <2>1
<1>6. ASSUME NEW j \in 1 .. Len(d.files), j < d.index
      PROVE  Handled(objects', dying', d, j) \/ \E x \in Routines : d.at[x] = j
  <2>1. CASE j = deleting.index
    BY <1>3, <1>4, <2>1
  <2>2. CASE j # deleting.index
    <3>1. j < deleting.index /\ j \in 1 .. Len(deleting.files)
      BY <1>2, <1>4, <1>6, <2>2
    <3>2. Handled(objects, dying, deleting, j) \/ \E x \in Routines : deleting.at[x] = j
      BY <1>1, <3>1 DEF RoutinesHave
    <3>3. \A x \in Routines : deleting.at[x] = j => d.at[x] = j
      BY <1>0, <1>3, <1>4, <3>1
    <3>4. Handled(objects, dying, deleting, j) => Handled(objects', dying', d, j)
      BY <1>0, <1>4 DEF Handled
    <3> QED BY <3>2, <3>3, <3>4
  <2> QED BY <2>1, <2>2
<1>7. Deleted(objects', dying', d)
  BY <1>0, <1>1, <1>4, <1>5, <1>6 DEF Deleted, RoutinesHave
<1> QED BY <1>0, <1>4, <1>7, DeletionGoesOn

\* ... and one that deletes it, ...
LEMMA DeleteFileStep ==
    ASSUME DeleteIndInv, NEW r \in Routines, DeleteFile(r), UNCHANGED kind, VersionsKnown'
    PROVE  DeleteIndInv'
<1> DEFINE p == deleting.at[r]
           k == deleting.files[p]
           a == [deleting.at EXCEPT ![r] = 0]
<1>0. deleting.on /\ kind = "upyun" /\ p # 0 /\ UNCHANGED <<objects, putting, version>>
  BY DEF DeleteFile
<1>1. RoutinesHave(objects, dying, deleting) /\ deleting.orphans = {}
  BY <1>0, DeletionKnown DEF Deleted
<1>2. deleting.at \in [Routines -> Nat] /\ deleting \in DelRows /\ Len(deleting.files) \in Nat /\ deleting.failed \in SUBSET Keys
  BY <1>0, DeletionKnown
<1>3. a \in [Routines -> Nat] /\ \A x \in Routines : a[x] = IF x = r THEN 0 ELSE deleting.at[x]
  BY <1>2
<1>4. p \in 1 .. Len(deleting.files)
  BY <1>0, <1>1, <1>2 DEF RoutinesHave
<1>5. k \in Keys /\ ~deleting.done
  <2>1. k \in Keys
    BY <1>0, <1>4, DeletionKnown
  <2> QED BY <1>0, <1>1, <2>1 DEF RoutinesHave
<1>6. PICK f \in {deleting.failed, deleting.failed \cup {k}} :
        /\ deleting' = [deleting EXCEPT !.at = a, !.failed = f]
        /\ (dying' = dying /\ k \in f) \/ dying' = dying \cup {k}
  <2>1. CASE dying' = dying \cup {k} /\ deleting' = [deleting EXCEPT !.at = a]
    <3>1. [deleting EXCEPT !.at = a] = [deleting EXCEPT !.at = a, !.failed = deleting.failed]
      BY <1>2 DEF DelRows
    <3> QED BY <2>1, <3>1
  <2>2. CASE UNCHANGED dying /\ deleting' = [deleting EXCEPT !.at = a, !.failed = deleting.failed \cup {k}]
    BY <2>2
  <2> QED BY <2>1, <2>2 DEF DeleteFile
<1> DEFINE d == [deleting EXCEPT !.at = a, !.failed = f]
<1>7. f \in SUBSET Keys /\ deleting.failed \subseteq f
  BY <1>2, <1>5
<1> HIDE DEF a, k
<1>8. /\ d \in DelRows /\ d.was = deleting.was /\ d.files = deleting.files /\ d.orphans = deleting.orphans
      /\ d.failed = f /\ d.index = deleting.index /\ d.done = deleting.done /\ d.at = a
  BY <1>2, <1>3, <1>7 DEF DelRows
<1>9. deleting' = d
  BY <1>6
<1> HIDE DEF d
<1>10. \A x \in Routines : d.at[x] < d.index /\ d.at[x] <= Len(d.files)
  <2>1. \A x \in Routines : deleting.at[x] < deleting.index /\ deleting.at[x] <= Len(deleting.files) /\ 0 < deleting.index
    <3>1. deleting.index \in Nat \ {0}
      BY <1>0, DeletionKnown
    <3> QED BY <1>1, <3>1 DEF RoutinesHave
  <2> QED BY <1>2, <1>3, <1>8, <2>1
<1>11. ASSUME NEW j \in 1 .. Len(d.files), j < d.index
       PROVE  Handled(objects', dying', d, j) \/ \E x \in Routines : d.at[x] = j
  <2>1. Handled(objects, dying, deleting, j) \/ \E x \in Routines : deleting.at[x] = j
    BY <1>1, <1>8, <1>11 DEF RoutinesHave
  <2>2. Handled(objects, dying, deleting, j) => Handled(objects', dying', d, j)
    <3>1. objects' = objects /\ dying \subseteq dying' /\ deleting.failed \subseteq d.failed
      BY <1>0, <1>6, <1>7, <1>8
    <3> QED BY <1>8, <3>1 DEF Handled, Gone
  <2>3. j = p => Handled(objects', dying', d, j)
    <3>1. k \in dying' \/ k \in d.failed
      BY <1>6, <1>8
    <3> QED BY <1>8, <3>1 DEF Handled, Gone, k
  <2>4. \A x \in Routines : deleting.at[x] = j /\ x # r => d.at[x] = j
    BY <1>3, <1>8
  <2> QED BY <2>1, <2>2, <2>3, <2>4
<1>12. Deleted(objects', dying', d)
  BY <1>0, <1>1, <1>5, <1>8, <1>10, <1>11 DEF Deleted, RoutinesHave
<1> QED BY <1>0, <1>8, <1>9, <1>12, DeletionGoesOn

\* ... and the end of the routines.
LEMMA RoutinesDoneStep ==
    ASSUME DeleteIndInv, RoutinesDone, UNCHANGED kind, VersionsKnown'
    PROVE  DeleteIndInv'
<1> DEFINE d == [deleting EXCEPT !.done = TRUE]
<1>0. /\ deleting.on /\ kind = "upyun" /\ deleting.index > Len(deleting.files) /\ \A r \in Routines : deleting.at[r] = 0
      /\ UNCHANGED <<objects, dying, putting, version>> /\ deleting' = d
  BY DEF RoutinesDone
<1>1. RoutinesHave(objects, dying, deleting) /\ deleting.orphans = {}
  BY <1>0, DeletionKnown DEF Deleted
<1>2. /\ d \in DelRows /\ d.was = deleting.was /\ d.files = deleting.files /\ d.orphans = deleting.orphans
      /\ d.failed = deleting.failed /\ d.index = deleting.index /\ d.at = deleting.at
  BY <1>0, DeletionKnown DEF DelRows
<1>3. Len(deleting.files) \in Nat /\ deleting.index \in Nat
  BY <1>0, DeletionKnown
<1> HIDE DEF d
<1>4. ASSUME NEW j \in 1 .. Len(d.files) PROVE Handled(objects', dying', d, j)
  <2>1. j < deleting.index /\ j \in 1 .. Len(deleting.files) /\ j # 0
    BY <1>0, <1>2, <1>3
  <2>2. Handled(objects, dying, deleting, j)
    BY <1>0, <1>1, <2>1 DEF RoutinesHave
  <2> QED BY <1>0, <1>2, <2>2 DEF Handled
<1>5. RoutinesHave(objects', dying', d)
  BY <1>0, <1>1, <1>2, <1>4 DEF RoutinesHave
<1>6. Deleted(objects', dying', d)
  BY <1>0, <1>1, <1>2, <1>4, <1>5 DEF Deleted
<1> QED BY <1>0, <1>2, <1>6, DeletionGoesOn

\* Dropping the records keeps it: nothing is left behind.
LEMMA DropRowsStep ==
    ASSUME DeleteIndInv, DropRows, UNCHANGED kind, VersionsKnown'
    PROVE  DeleteIndInv'
<1> DEFINE gone == ToSet(deleting.files) \ deleting.failed
           left == {k \in gone : objects[k] # 0 /\ objects[k] = deleting.was[k] /\ k \notin dying}
           d == [deleting EXCEPT !.orphans = left]
<1>0. /\ deleting.on /\ deleting.done /\ UNCHANGED <<objects, dying, putting, version>>
      /\ deleting' = IF left = {} THEN Idle ELSE d
  BY DEF DropRows
<1>1. ASSUME kind \notin {"s3", "qiniu"} PROVE left = {}
  <2> SUFFICES ASSUME NEW k \in gone PROVE objects[k] = 0 \/ objects[k] # deleting.was[k] \/ k \in dying
    OBVIOUS
  <2>1. PICK j \in 1 .. Len(deleting.files) : k = deleting.files[j]
    BY <1>0, DeletionKnown DEF ToSet
  <2>2. Handled(objects, dying, deleting, j)
    BY <1>0, <1>1, DeletionKnown DEF Deleted
  <2> QED BY <2>1, <2>2 DEF Handled, Gone
<1>2. left \in SUBSET Keys
  BY <1>0, DeletionKnown
<1> HIDE DEF left
<1>3. CASE left = {}
  BY <1>0, <1>3, DeletionEnds
<1>4. CASE left # {}
  <2>1. d \in DelRows /\ d.was = deleting.was
    BY <1>0, <1>2, DeletionKnown DEF DelRows
  <2> HIDE DEF d
  <2> QED BY <1>0, <1>1, <1>4, <2>1, DeletionGoesOn
<1> QED BY <1>3, <1>4

\* Every step keeps it.
LEMMA DeleteStep == DeleteIndInv /\ [VendorNext]_vendorVars => DeleteIndInv'
<1> SUFFICES ASSUME DeleteIndInv, [VendorNext]_vendorVars PROVE DeleteIndInv'
  OBVIOUS
<1>1. VersionsKnown'
  BY VersionsStep DEF DeleteIndInv
<1>2. CASE \/ Quiet \/ Writes
           \/ \E k \in Keys, b, c \in BOOLEAN : JobStarts(k, b, c)
           \/ \E k \in Keys : Adds(k) \/ Removes(k)
  <2>1. UNCHANGED <<deleting, kind>>
    BY <1>2 DEF Quiet, Writes, JobStarts, Adds, Removes
  <2>2. deleting.on => WasOlder(deleting)'
    BY <2>1, OlderStays
  <2>3. deleting.on /\ kind \notin {"s3", "qiniu"} => Deleted(objects, dying, deleting)'
    <3> SUFFICES ASSUME deleting.on, kind \notin {"s3", "qiniu"} PROVE Deleted(objects, dying, deleting)'
      OBVIOUS
    <3>1. StaysGone
      BY <1>2, OutsideStaysGone
    <3>2. deleting \in DelRows /\ Deleted(objects, dying, deleting)
      BY DeletionKnown
    <3> QED BY <2>1, <3>1, <3>2, DeletedStays
  <2> QED BY <1>1, <2>1, <2>2, <2>3 DEF DeleteIndInv
<1>3. CASE DeleteActs /\ UNCHANGED kind
  <2>1. ForgetOrphans => DeleteIndInv'
    BY <1>1, <1>3, DeletionEnds DEF ForgetOrphans
  <2> QED BY <1>1, <1>3, <2>1, DeleteBegins, AtOnceStep, BatchStep, TakeFileStep, DeleteFileStep,
          RoutinesDoneStep,
             DropRowsStep DEF DeleteActs
<1> QED BY <1>2, <1>3, BucketSteps DEF BucketStep

\* It implies that there are no orphans.
LEMMA DeleteIndMeans == DeleteIndInv => NoOrphans
BY DEF DeleteIndInv, NoOrphans, Deleted

-----------------------------------------------------------------------------
(* VendorDrivers: listings                                                 *)

\* The listings.
ListRows ==
    [on : {TRUE}, recursive : BOOLEAN, marker : Nat, pages : Nat, failed : BOOLEAN, done : BOOLEAN,
     got : [Keys -> Nat], steady : SUBSET Keys, folders : SUBSET ({0} \cup Keys)]

\* Pages: the entries up to the marker that were there all along are listed
\* once, and none after it is.
PagesRead(l) ==
    /\ \A k \in Keys : l.got[k] <= 1 /\ (l.got[k] = 1 => k <= l.marker)
    /\ \A k \in l.steady : Entry(k, l.recursive) <= l.marker \/ l.done => l.got[Entry(k, l.recursive)] = 1
    /\ l.pages = 0 => l.marker = 0

\* One call: nothing, or everything, is listed.
AllRead(l) ==
    /\ ~l.done => \A k \in Keys : l.got[k] = 0
    /\ \A k \in Keys : l.got[k] <= 1
    /\ l.done => \A k \in l.steady : l.got[Entry(k, l.recursive)] = 1

\* A directory with files.
HasFiles(d) == \E j \in Keys : j # d /\ DirOf[j] = d

\* OneDrive: a file that was there all along is listed, or its folder is to be
\* read; and no listed file is in a folder that is to be read.
FoldersRead(l) ==
    /\ l.done <=> l.folders = {}
    /\ \A k \in Keys : l.got[k] <= 1
    /\ 0 \in l.folders => l.folders = {0} /\ \A k \in Keys : l.got[k] = 0
    /\ 0 \notin l.folders /\ l.recursive =>
           /\ \A k \in l.steady : l.got[k] = 1 \/ DirOf[k] \in l.folders
           /\ \A k \in Keys : l.got[k] = 1 => DirOf[k] \notin l.folders
           /\ \A d \in l.folders : HasFiles(d)
    /\ 0 \notin l.folders /\ ~l.recursive => l.folders = {} /\ \A k \in l.steady : l.got[DirOf[k]] = 1

\* How far a listing without an error is; of COS, for the first page.
ListGood(l) ==
    ~l.failed =>
        /\ kind \in {"oss", "s3", "qiniu", "cos"} /\ (kind = "cos" => l.pages <= 1) => PagesRead(l)
        /\ kind \in {"upyun", "remote", "local"} => AllRead(l)
        /\ kind = "onedrive" => FoldersRead(l)

\* The inductive invariant of listings. That every lasting object is listed
\* once in the end needs to know at each page what the marker divides.
ListIndInv ==
    /\ VersionsKnown /\ kind \in Drivers
    /\ listing = Idle \/ listing \in ListRows
    /\ listing.on => listing.steady \subseteq Present(objects) /\ ListGood(listing)

\* It holds before the first listing.
LEMMA ListInitInv == VendorInit => ListIndInv
<1> SUFFICES ASSUME VendorInit PROVE ListIndInv
  OBVIOUS
<1>1. listing = Idle /\ kind \in Drivers
  BY DEF VendorInit
<1> QED BY <1>1, IdleOff, VersionsInit DEF ListIndInv

\* The marker after a page is its largest key.
LEMMA LastOfPage ==
    ASSUME NEW P \in SUBSET Keys, P # {}
    PROVE  Max(P) \in P /\ \A k \in P : k <= Max(P)
<1> DEFINE B == {n \in Nat : \A k \in P : k <= n}
<1>1. MaxKey \in B /\ P \subseteq Nat
  BY VendorAssumption DEF Keys
<1>2. PICK b \in B : \A n \in B : b <= n
  <2>1. PICK n \in B : \A m \in B : ~(<<m, n>> \in OpToRel(<, Nat))
    BY <1>1, NatLessThanWellFounded, WFMin, Zenon
  <2>2. ASSUME NEW m \in B PROVE n <= m
    <3>1. m < n => <<m, n>> \in OpToRel(<, Nat)
      BY DEF OpToRel
    <3>2. ~(m < n)
      BY <2>1, <3>1, Zenon
    <3> QED BY <3>2
  <2> QED BY <2>2
<1>3. b \in P
  <2> SUFFICES ASSUME b \notin P PROVE FALSE
    OBVIOUS
  <2>1. \A k \in P : k < b
    BY <1>1, <1>2
  <2>2. b > 0
    <3>1. PICK k \in P : TRUE
      OBVIOUS
    <3>2. k \in Nat /\ k < b /\ b \in Nat
      BY <1>1, <2>1
    <3> QED BY <3>2
  <2>3. b - 1 \in B
    BY <1>1, <1>2, <2>1, <2>2
  <2> QED BY <1>2, <2>3
<1>4. \A k \in P : b >= k
  BY <1>1, <1>2
<1>5. Max(P) \in P /\ \A k \in P : Max(P) >= k
  BY <1>3, <1>4 DEF Max
<1> QED BY <1>1, <1>5

\* A page has no gap: what comes before one of its entries is in it.
LEMMA PageHasNoGap ==
    ASSUME NEW S \in SUBSET Keys, NEW n, NEW m \in Lowest(S, n), NEW e \in S, e <= m, n \in Nat
    PROVE  e \in Lowest(S, n)
<1> DEFINE L(x) == {j \in S : j < x}
<1>1. IsFiniteSet(Keys) /\ Keys \subseteq Nat
  BY VendorAssumption, FS_Interval DEF Keys
<1>2. m \in S /\ Cardinality(L(m)) < n
  BY DEF Lowest
<1>3. L(e) \subseteq L(m) /\ IsFiniteSet(L(m))
  <2>1. L(e) \subseteq L(m)
    <3> SUFFICES ASSUME NEW j \in S, j < e PROVE j < m
      OBVIOUS
    <3>1. j \in Nat /\ e \in Nat /\ m \in Nat
      BY <1>1, <1>2
    <3> QED BY <3>1
  <2>2. L(m) \in SUBSET Keys
    OBVIOUS
  <2> QED BY <1>1, <2>1, <2>2, FS_Subset
<1>4. Cardinality(L(e)) <= Cardinality(L(m)) /\ Cardinality(L(e)) \in Nat /\ Cardinality(L(m)) \in Nat
  BY <1>3, FS_Subset, FS_CardinalityType
<1>5. Cardinality(L(e)) < n
  BY <1>2, <1>4
<1> QED BY <1>5 DEF Lowest

\* What the invariant says of a listing under way.
LEMMA ListKnown ==
    ASSUME ListIndInv, listing.on
    PROVE  /\ listing \in ListRows /\ listing.recursive \in BOOLEAN /\ listing.marker \in Nat /\ listing.pages \in Nat
           /\ listing.failed \in BOOLEAN /\ listing.done \in BOOLEAN /\ listing.got \in [Keys -> Nat]
           /\ listing.steady \in SUBSET Present(objects) /\ listing.folders \in SUBSET ({0} \cup Keys)
           /\ ListGood(listing) /\ kind \in Drivers
<1>1. listing \in ListRows
  BY IdleOff DEF ListIndInv
<1> QED BY <1>1 DEF ListIndInv, ListRows

\* Keys, directories and entries.
LEMMA KeysKnown ==
    /\ DirOf \in [Keys -> Keys] /\ Keys \subseteq Nat \ {0}
    /\ \A k \in Keys, b \in BOOLEAN : Entry(k, b) \in Keys
    /\ Present(objects) \subseteq Keys
    /\ \A b \in BOOLEAN : Entries(b) \subseteq Keys /\ \A k \in Present(objects) : Entry(k, b) \in Entries(b)
<1>1. DirOf \in [Keys -> Keys] /\ Keys \subseteq Nat \ {0}
  BY VendorAssumption DEF Keys
<1>2. \A k \in Keys, b \in BOOLEAN : Entry(k, b) \in Keys
  BY <1>1 DEF Entry
<1>3. Present(objects) \subseteq Keys
  BY DEF Present
<1>4. \A b \in BOOLEAN : Entries(b) \subseteq Keys /\ \A k \in Present(objects) : Entry(k, b) \in Entries(b)
  BY <1>2, <1>3 DEF Entries
<1> QED BY <1>1, <1>2, <1>3, <1>4

\* What a page adds.
LEMMA Collected ==
    ASSUME NEW got \in [Keys -> Nat], NEW S
    PROVE  /\ Collect(got, S) \in [Keys -> Nat]
           /\ \A k \in Keys : Collect(got, S)[k] = IF k \in S THEN got[k] + 1 ELSE got[k]
BY DEF Collect

\* A listing that did its part right keeps the invariant.
LEMMA ListGoesOn ==
    ASSUME ListIndInv, NEW l \in ListRows, listing' = l, l.steady \subseteq Present(objects'), VersionsKnown', UNCHANGED kind,
           ListGood(l)
    PROVE  ListIndInv'
<1>1. ListGood(listing)'
  BY DEF ListGood, PagesRead, AllRead, FoldersRead
<1> QED BY <1>1 DEF ListIndInv

\* A page of OSS, S3 or Qiniu, or the first of COS, keeps it (List).
LEMMA PageStep ==
    ASSUME ListIndInv, NEW m, m = IF kind = "cos" THEN 0 ELSE listing.marker, NextPage(m), kind \in {"oss", "s3", "qiniu", "cos"},
           UNCHANGED kind, VersionsKnown'
    PROVE  ListIndInv'
<1> DEFINE l == listing
           after == {k \in Entries(l.recursive) : k > m}
           page == Lowest(after, PageSize)
           next == IF page = {} THEN l.marker ELSE Max(page)
           q == [listing EXCEPT !.got = Collect(listing.got, page), !.pages = listing.pages + 1, !.marker = next,
                                !.done = (page = after)]
<1>0. listing.on /\ ~listing.done /\ UNCHANGED objects /\ listing' = q
  BY DEF NextPage
<1>1. /\ l \in ListRows /\ l.recursive \in BOOLEAN /\ l.marker \in Nat /\ l.pages \in Nat /\ l.got \in [Keys -> Nat]
      /\ l.steady \in SUBSET Present(objects) /\ ListGood(l) /\ l.failed \in BOOLEAN
  BY <1>0, ListKnown
<1>2. after \in SUBSET Keys /\ page \in SUBSET after
  BY <1>1, KeysKnown DEF Lowest
<1>3. page # {} => Max(page) \in page /\ \A k \in page : k <= Max(page)
  BY <1>2, LastOfPage
<1>4. next \in Nat
  BY <1>1, <1>2, <1>3, KeysKnown
<1>5. /\ Collect(l.got, page) \in [Keys -> Nat]
      /\ \A k \in Keys : Collect(l.got, page)[k] = IF k \in page THEN l.got[k] + 1 ELSE l.got[k]
  BY <1>1, Collected
<1>6. /\ q \in ListRows /\ q.got = Collect(l.got, page) /\ q.pages = l.pages + 1 /\ q.marker = next
      /\ q.done = (page = after) /\ q.recursive = l.recursive /\ q.failed = l.failed /\ q.steady = l.steady
  <2>1. l.pages + 1 \in Nat /\ (page = after) \in BOOLEAN
    BY <1>1
  <2> QED BY <1>1, <1>4, <1>5, <2>1 DEF ListRows
<1>7. ASSUME ~l.failed, kind = "cos" => l.pages + 1 <= 1 PROVE PagesRead(q)
  <2>1. PagesRead(l)
    <3>1. kind = "cos" => l.pages <= 1
      BY <1>1, <1>7
    <3> QED BY <1>1, <1>7, <3>1 DEF ListGood
  <2>2. m = l.marker
    <3>1. CASE kind = "cos"
      <4>1. l.pages = 0
        BY <1>1, <1>7, <3>1
      <4> QED BY <2>1, <3>1, <4>1 DEF PagesRead
    <3> QED BY <3>1
  <2>3. \A k \in page : k \in Keys /\ k \in Nat /\ k > l.marker
    BY <1>2, <2>2, KeysKnown
  <2>4. \A k \in Keys : k \in Nat /\ l.got[k] \in Nat /\ l.got[k] <= 1 /\ (l.got[k] = 1 => k <= l.marker)
    BY <1>1, <2>1, KeysKnown DEF PagesRead
  <2>5. next >= l.marker /\ \A k \in page : k <= next
    BY <1>1, <1>3, <2>3
  <2> HIDE DEF page, next, q
  <2>6. ASSUME NEW k \in Keys PROVE q.got[k] <= 1 /\ (q.got[k] = 1 => k <= q.marker)
    <3>1. CASE k \in page
      <4>1. l.got[k] = 0
        BY <1>1, <2>3, <2>4, <3>1
      <4> QED BY <1>5, <1>6, <2>5, <3>1, <4>1
    <3>2. CASE k \notin page
      BY <1>1, <1>4, <1>5, <1>6, <2>4, <2>5, <3>2
    <3> QED BY <3>1, <3>2
  <2>7. ASSUME NEW k \in q.steady, Entry(k, q.recursive) <= q.marker \/ q.done
        PROVE  q.got[Entry(k, q.recursive)] = 1
    <3> DEFINE e == Entry(k, l.recursive)
    <3>1. k \in Present(objects) /\ k \in l.steady /\ e \in Entries(l.recursive) /\ e \in Keys /\ e \in Nat
      BY <1>1, <1>6, <2>7, KeysKnown
    <3>2. CASE e <= l.marker
      <4>1. l.got[e] = 1
        BY <2>1, <3>1, <3>2 DEF PagesRead
      <4>2. e \notin page
        BY <1>1, <2>3, <3>1, <3>2
      <4> QED BY <1>5, <1>6, <3>1, <4>1, <4>2
    <3>3. CASE ~(e <= l.marker)
      <4>1. e \in after
        BY <1>1, <2>2, <3>1, <3>3
      <4>2. e \in page
        <5>1. CASE q.done
          BY <1>6, <4>1, <5>1
        <5>2. CASE e <= next
          <6>1. page # {} /\ next = Max(page) /\ Max(page) \in page
            BY <1>3, <3>3, <5>2 DEF next
          <6>2. PageSize \in Nat /\ page = Lowest(after, PageSize)
            BY VendorAssumption DEF page
          <6> QED BY <1>2, <4>1, <5>2, <6>1, <6>2, PageHasNoGap
        <5> QED BY <1>6, <2>7, <5>1, <5>2
      <4>3. l.got[e] = 0
        BY <1>1, <2>4, <3>1, <3>3
      <4> QED BY <1>5, <1>6, <3>1, <4>2, <4>3
    <3> QED BY <3>2, <3>3
  <2>8. q.pages # 0
    BY <1>1, <1>6
  <2> QED BY <2>6, <2>7, <2>8 DEF PagesRead
<1> HIDE DEF q, page, next
<1>8. ListGood(q)
  BY <1>6, <1>7 DEF ListGood
<1>9. q.steady \subseteq Present(objects')
  BY <1>0, <1>1, <1>6
<1> QED BY <1>0, <1>6, <1>8, <1>9, ListGoesOn

\* A listing in one call keeps it.
LEMMA AllAtOnceStep ==
    ASSUME ListIndInv, AllAtOnce, kind \in {"upyun", "remote", "local"}, UNCHANGED kind, VersionsKnown'
    PROVE  ListIndInv'
<1> DEFINE l == listing
           S == Entries(l.recursive)
           q == [listing EXCEPT !.got = Collect(listing.got, S), !.done = TRUE]
<1>0. listing.on /\ ~listing.done /\ UNCHANGED objects /\ listing' = q
  BY DEF AllAtOnce
<1>1. /\ l \in ListRows /\ l.recursive \in BOOLEAN /\ l.got \in [Keys -> Nat]
      /\ l.steady \in SUBSET Present(objects) /\ ListGood(l) /\ l.failed \in BOOLEAN
  BY <1>0, ListKnown
<1>2. /\ Collect(l.got, S) \in [Keys -> Nat]
      /\ \A k \in Keys : Collect(l.got, S)[k] = IF k \in S THEN l.got[k] + 1 ELSE l.got[k]
  BY <1>1, Collected
<1>3. /\ q \in ListRows /\ q.got = Collect(l.got, S) /\ q.done = TRUE /\ q.recursive = l.recursive
      /\ q.failed = l.failed /\ q.steady = l.steady
  BY <1>1, <1>2 DEF ListRows
<1> HIDE DEF q
<1>4. ASSUME ~l.failed PROVE AllRead(q)
  <2>1. \A k \in Keys : l.got[k] = 0
    BY <1>0, <1>1, <1>4 DEF ListGood, AllRead
  <2>2. \A k \in Keys : q.got[k] = IF k \in S THEN 1 ELSE 0
    BY <1>2, <1>3, <2>1
  <2>3. \A k \in q.steady : Entry(k, q.recursive) \in S /\ Entry(k, q.recursive) \in Keys
    BY <1>1, <1>3, KeysKnown
  <2> QED BY <1>3, <2>2, <2>3 DEF AllRead
<1>5. ListGood(q)
  BY <1>3, <1>4 DEF ListGood
<1>6. q.steady \subseteq Present(objects')
  BY <1>0, <1>1, <1>3
<1> QED BY <1>0, <1>3, <1>5, <1>6, ListGoesOn

\* So does one that fails, in whole or in a folder.
LEMMA ListFailsStep ==
    ASSUME ListIndInv, ListFails \/ \E d \in {0} \cup Keys : ListChildrenFails(d), UNCHANGED kind, VersionsKnown'
    PROVE  ListIndInv'
<1>1. /\ listing.on /\ UNCHANGED objects
      /\ \/ listing' = [listing EXCEPT !.failed = TRUE, !.done = TRUE]
         \/ \E d \in {0} \cup Keys :
              listing' = [listing EXCEPT !.folders = listing.folders \ {d}, !.failed = TRUE, !.done = (listing.folders = {d})]
  BY DEF ListFails, ListChildrenFails
<1>2. listing \in ListRows /\ listing.folders \in SUBSET ({0} \cup Keys) /\ listing.steady \in SUBSET Present(objects)
  BY <1>1, ListKnown
<1>3. listing' \in ListRows /\ listing'.failed = TRUE /\ listing'.steady = listing.steady
  <2>1. CASE listing' = [listing EXCEPT !.failed = TRUE, !.done = TRUE]
    BY <1>2, <2>1 DEF ListRows
  <2>2. ASSUME NEW d \in {0} \cup Keys,
               listing' = [listing EXCEPT !.folders = listing.folders \ {d}, !.failed = TRUE, !.done = (listing.folders = {d})]
        PROVE  listing' \in ListRows /\ listing'.failed = TRUE /\ listing'.steady = listing.steady
    <3>1. (listing.folders = {d}) \in BOOLEAN /\ listing.folders \ {d} \in SUBSET ({0} \cup Keys)
      BY <1>2
    <3> QED BY <1>2, <2>2, <3>1 DEF ListRows
  <2> QED BY <1>1, <2>1, <2>2
<1>4. ListGood(listing')
  BY <1>3 DEF ListGood
<1> QED BY <1>1, <1>2, <1>3, <1>4, ListGoesOn

\* So does a new listing.
LEMMA ListBegins ==
    ASSUME ListIndInv, NEW b \in BOOLEAN, List(b), UNCHANGED kind, VersionsKnown'
    PROVE  ListIndInv'
<1> DEFINE q == [on |-> TRUE, recursive |-> b, marker |-> 0, pages |-> 0, failed |-> FALSE,
                 done |-> FALSE, got |-> [k \in Keys |-> 0], steady |-> Present(objects), folders |-> {0}]
<1>1. listing' = q /\ UNCHANGED objects
  BY DEF List
<1>2. q \in ListRows
  BY KeysKnown DEF ListRows
<1>3. /\ q.recursive = b /\ q.marker = 0 /\ q.pages = 0 /\ q.done = FALSE /\ q.folders = {0}
      /\ q.steady = Present(objects) /\ \A k \in Keys : q.got[k] = 0
  OBVIOUS
<1> HIDE DEF q
<1>4. \A k \in q.steady : Entry(k, q.recursive) \in Nat \ {0}
  BY <1>3, KeysKnown
<1>5. PagesRead(q)
  BY <1>3, <1>4 DEF PagesRead
<1>6. AllRead(q)
  BY <1>3 DEF AllRead
<1>7. FoldersRead(q)
  BY <1>3 DEF FoldersRead
<1> QED BY <1>1, <1>2, <1>3, <1>5, <1>6, <1>7, ListGoesOn DEF ListGood

\* OneDrive: where a file is found, ...
LEMMA FolderOf ==
    ASSUME NEW k \in Present(objects)
    PROVE  /\ (k \in InFolder(0) /\ DirOf[k] = k) \/ DirOf[k] \in Subfolders
           /\ \A d \in Keys : k \in InFolder(d) <=> DirOf[k] = d
<1>1. k \in Keys /\ objects[k] # 0 /\ DirOf[k] \in Keys /\ Keys \subseteq Nat \ {0}
  BY KeysKnown DEF Present
<1>2. \A d \in Keys : k \in InFolder(d) <=> DirOf[k] = d
  BY <1>1 DEF InFolder
<1>3. CASE DirOf[k] = k
  BY <1>1, <1>2, <1>3 DEF InFolder, Subfolders
<1>4. CASE DirOf[k] # k
  <2>1. \E j \in Keys : j # DirOf[k] /\ DirOf[j] = DirOf[k] /\ (objects[j] # 0 \/ objects[DirOf[k]] # 0)
    BY <1>1, <1>4
  <2>2. DirOf[k] \in Subfolders
    BY <1>1, <2>1 DEF Subfolders
  <2> QED BY <1>2, <2>2
<1> QED BY <1>2, <1>3, <1>4

\* ... and what folders hold.
LEMMA FoldersKnown ==
    /\ Subfolders \subseteq Keys /\ 0 \notin Subfolders /\ \A d \in Subfolders : HasFiles(d)
    /\ InFolder(0) \subseteq Present(objects) /\ \A k \in InFolder(0) : DirOf[k] = k /\ ~HasFiles(k)
    /\ \A d \in Keys : InFolder(d) = {k \in Present(objects) : DirOf[k] = d}
<1>1. Keys \subseteq Nat \ {0}
  BY KeysKnown
<1> QED BY <1>1 DEF Subfolders, InFolder, HasFiles

\* Reading the top folder keeps the invariant, ...
LEMMA TopStep ==
    ASSUME ListIndInv, ListChildren(0), 0 \in listing.folders, UNCHANGED kind, VersionsKnown'
    PROVE  ListIndInv'
<1> DEFINE l == listing
           seen == IF ~l.recursive THEN InFolder(0) \cup Subfolders ELSE InFolder(0)
           todo == (l.folders \ {0}) \cup (IF l.recursive THEN Subfolders ELSE {})
           q == [listing EXCEPT !.got = Collect(listing.got, seen), !.folders = todo, !.done = (todo = {})]
<1>0. listing.on /\ ~listing.done /\ UNCHANGED objects /\ listing' = q /\ kind = "onedrive"
  BY DEF ListChildren
<1>1. /\ l \in ListRows /\ l.recursive \in BOOLEAN /\ l.got \in [Keys -> Nat] /\ l.folders \in SUBSET ({0} \cup Keys)
      /\ l.steady \in SUBSET Present(objects) /\ ListGood(l) /\ l.failed \in BOOLEAN
  BY <1>0, ListKnown
<1>2. /\ Collect(l.got, seen) \in [Keys -> Nat]
      /\ \A k \in Keys : Collect(l.got, seen)[k] = IF k \in seen THEN l.got[k] + 1 ELSE l.got[k]
  BY <1>1, Collected
<1>3. todo \in SUBSET ({0} \cup Keys)
  BY <1>1, FoldersKnown
<1>4. /\ q \in ListRows /\ q.got = Collect(l.got, seen) /\ q.folders = todo /\ q.done = (todo = {})
      /\ q.recursive = l.recursive /\ q.failed = l.failed /\ q.steady = l.steady
  <2>1. (todo = {}) \in BOOLEAN
    OBVIOUS
  <2> HIDE DEF todo, seen
  <2> QED BY <1>1, <1>2, <1>3, <2>1 DEF ListRows
<1> HIDE DEF q
<1>5. ASSUME ~l.failed PROVE FoldersRead(q)
  <2>1. l.folders = {0} /\ \A k \in Keys : l.got[k] = 0
    BY <1>0, <1>1, <1>5 DEF ListGood, FoldersRead
  <2>2. \A k \in Keys : q.got[k] = IF k \in seen THEN 1 ELSE 0
    BY <1>2, <1>4, <2>1
  <2>3. todo = IF l.recursive THEN Subfolders ELSE {}
    BY <2>1
  <2>4. 0 \notin todo
    BY <2>3, FoldersKnown
  <2>5. \A k \in Keys : q.got[k] <= 1
    BY <2>2
  <2>6. CASE l.recursive
    <3>1. seen = InFolder(0) /\ todo = Subfolders
      BY <2>3, <2>6
    <3>2. \A k \in q.steady : q.got[k] = 1 \/ DirOf[k] \in q.folders
      BY <1>1, <1>4, <2>2, <3>1, FolderOf, KeysKnown
    <3>3. \A k \in Keys : q.got[k] = 1 => DirOf[k] \notin q.folders
      BY <1>4, <2>2, <3>1, FoldersKnown
    <3>4. \A d \in q.folders : HasFiles(d)
      BY <1>4, <3>1, FoldersKnown
    <3> HIDE DEF seen, todo
    <3> QED BY <1>4, <2>4, <2>5, <2>6, <3>2, <3>3, <3>4 DEF FoldersRead
  <2>7. CASE ~l.recursive
    <3>1. seen = InFolder(0) \cup Subfolders /\ todo = {}
      BY <2>3, <2>7
    <3>2. \A k \in q.steady : q.got[DirOf[k]] = 1
      <4> SUFFICES ASSUME NEW k \in q.steady PROVE q.got[DirOf[k]] = 1
        OBVIOUS
      <4>1. k \in Present(objects) /\ DirOf[k] \in Keys
        BY <1>1, <1>4, KeysKnown
      <4>2. DirOf[k] \in seen
        BY <3>1, <4>1, FolderOf
      <4> QED BY <2>2, <4>1, <4>2
    <3> HIDE DEF seen, todo
    <3> QED BY <1>4, <2>4, <2>5, <2>7, <3>1, <3>2 DEF FoldersRead
  <2> QED BY <1>1, <2>6, <2>7
<1>6. ListGood(q)
  BY <1>0, <1>4, <1>5 DEF ListGood
<1>7. q.steady \subseteq Present(objects')
  BY <1>0, <1>1, <1>4
<1> QED BY <1>0, <1>4, <1>6, <1>7, ListGoesOn

\* ... and so does reading another one (ListChildren).
LEMMA FolderStep ==
    ASSUME ListIndInv, NEW d \in Keys, ListChildren(d), UNCHANGED kind, VersionsKnown'
    PROVE  ListIndInv'
<1> DEFINE l == listing
           seen == InFolder(d)
           todo == l.folders \ {d}
           q == [listing EXCEPT !.got = Collect(listing.got, seen), !.folders = todo, !.done = (todo = {})]
<1>0. listing.on /\ ~listing.done /\ UNCHANGED objects /\ listing' = q /\ kind = "onedrive" /\ d # 0 /\ d \in l.folders
  <2>1. d # 0
    BY KeysKnown
  <2> QED BY <2>1 DEF ListChildren
<1>1. /\ l \in ListRows /\ l.recursive \in BOOLEAN /\ l.got \in [Keys -> Nat] /\ l.folders \in SUBSET ({0} \cup Keys)
      /\ l.steady \in SUBSET Present(objects) /\ ListGood(l) /\ l.failed \in BOOLEAN
  BY <1>0, ListKnown
<1>2. /\ Collect(l.got, seen) \in [Keys -> Nat]
      /\ \A k \in Keys : Collect(l.got, seen)[k] = IF k \in seen THEN l.got[k] + 1 ELSE l.got[k]
  BY <1>1, Collected
<1>3. todo \in SUBSET ({0} \cup Keys)
  BY <1>1
<1>4. /\ q \in ListRows /\ q.got = Collect(l.got, seen) /\ q.folders = todo /\ q.done = (todo = {})
      /\ q.recursive = l.recursive /\ q.failed = l.failed /\ q.steady = l.steady
  <2>1. (todo = {}) \in BOOLEAN
    OBVIOUS
  <2> HIDE DEF todo, seen
  <2> QED BY <1>1, <1>2, <1>3, <2>1 DEF ListRows
<1> HIDE DEF q
<1>5. ASSUME ~l.failed PROVE FoldersRead(q)
  <2>1. FoldersRead(l)
    BY <1>0, <1>1, <1>5 DEF ListGood
  <2>2. 0 \notin l.folders /\ l.recursive
    BY <1>0, <1>1, <2>1 DEF FoldersRead
  <2>3. /\ \A k \in l.steady : l.got[k] = 1 \/ DirOf[k] \in l.folders
        /\ \A k \in Keys : l.got[k] = 1 => DirOf[k] \notin l.folders
        /\ \A e \in l.folders : HasFiles(e)
        /\ \A k \in Keys : l.got[k] \in {0, 1}
    <3>1. \A k \in Keys : l.got[k] <= 1 /\ l.got[k] \in Nat
      BY <1>1, <2>1 DEF FoldersRead
    <3> QED BY <2>1, <2>2, <3>1 DEF FoldersRead
  <2>4. seen = {k \in Present(objects) : DirOf[k] = d} /\ seen \subseteq Keys
    BY FoldersKnown, KeysKnown
  <2>5. \A k \in Keys : q.got[k] = IF k \in seen THEN 1 ELSE l.got[k]
    <3>1. \A k \in Keys : k \in seen => l.got[k] = 0
      BY <1>0, <2>3, <2>4
    <3> QED BY <1>2, <1>4, <3>1
  <2> HIDE DEF seen
  <2>6. \A k \in Keys : q.got[k] <= 1
    BY <2>3, <2>5
  <2>7. \A k \in q.steady : q.got[k] = 1 \/ DirOf[k] \in q.folders
    <3> SUFFICES ASSUME NEW k \in q.steady PROVE q.got[k] = 1 \/ DirOf[k] \in q.folders
      OBVIOUS
    <3>1. k \in Present(objects) /\ k \in Keys /\ k \in l.steady
      BY <1>1, <1>4, KeysKnown
    <3>2. CASE DirOf[k] = d
      BY <2>4, <2>5, <3>1, <3>2
    <3>3. CASE DirOf[k] # d
      BY <1>4, <2>3, <2>4, <2>5, <3>1, <3>3
    <3> QED BY <3>2, <3>3
  <2>8. \A k \in Keys : q.got[k] = 1 => DirOf[k] \notin q.folders
    BY <1>4, <2>3, <2>4, <2>5
  <2>9. 0 \notin q.folders /\ \A e \in q.folders : HasFiles(e)
    BY <1>4, <2>2, <2>3
  <2> HIDE DEF todo
  <2> QED BY <1>4, <2>2, <2>6, <2>7, <2>8, <2>9 DEF FoldersRead
<1>6. ListGood(q)
  BY <1>0, <1>4, <1>5 DEF ListGood
<1>7. q.steady \subseteq Present(objects')
  BY <1>0, <1>1, <1>4
<1> QED BY <1>0, <1>4, <1>6, <1>7, ListGoesOn

\* A step beside a listing: it goes on with the keys that are still there.
Beside ==
    /\ UNCHANGED kind
    /\ \/ UNCHANGED listing /\ (listing.on => UNCHANGED objects)
       \/ listing.on /\ listing' = [listing EXCEPT !.steady = listing.steady \cap Present(objects')]

\* It keeps the invariant.
LEMMA BesideStep ==
    ASSUME ListIndInv, Beside, VersionsKnown'
    PROVE  ListIndInv'
<1>1. CASE UNCHANGED listing /\ ~listing.on
  BY <1>1 DEF ListIndInv, Beside
<1>2. CASE UNCHANGED <<listing, objects>> /\ listing.on
  BY <1>2, ListKnown, ListGoesOn DEF Beside
<1>3. CASE listing.on /\ listing' = [listing EXCEPT !.steady = listing.steady \cap Present(objects')]
  <2> DEFINE q == [listing EXCEPT !.steady = listing.steady \cap Present(objects')]
  <2>1. listing \in ListRows /\ ListGood(listing) /\ listing.steady \cap Present(objects') \in SUBSET Keys
    BY <1>3, ListKnown, KeysKnown
  <2>2. /\ q \in ListRows /\ q.got = listing.got /\ q.folders = listing.folders /\ q.done = listing.done
        /\ q.recursive = listing.recursive /\ q.failed = listing.failed /\ q.pages = listing.pages
        /\ q.marker = listing.marker /\ q.steady = listing.steady \cap Present(objects')
    BY <2>1 DEF ListRows
  <2>3. listing' = q
    BY <1>3
  <2> HIDE DEF q
  <2>4. PagesRead(listing) => PagesRead(q)
    BY <2>2 DEF PagesRead
  <2>5. AllRead(listing) => AllRead(q)
    BY <2>2 DEF AllRead
  <2>6. FoldersRead(listing) => FoldersRead(q)
    BY <2>2 DEF FoldersRead
  <2>7. ListGood(q)
    BY <2>1, <2>2, <2>4, <2>5, <2>6 DEF ListGood
  <2> QED BY <2>2, <2>3, <2>7, ListGoesOn DEF Beside
<1> QED BY <1>1, <1>2, <1>3 DEF Beside

\* Changing the bucket is such a step, ...
LEMMA StoreBeside ==
    ASSUME NEW o, Store(o), UNCHANGED kind PROVE Beside
BY DEF Store, Beside

\* ... and so are all of uploads, deletions and links.
LEMMA BesideSteps ==
    ASSUME UNCHANGED kind,
           \/ \E k \in Keys, b, c \in BOOLEAN : Put(k, b, c)
           \/ PutObject \/ InitiateMultipartUpload \/ UploadChunks \/ PutFails
           \/ DeleteActs
           \/ \E k \in Keys : OtherWrites(k) \/ VendorDeletes(k)
           \/ \E k \in Keys : OneDriveSource(k) \/ Thumb(k) \/ \E s \in Speeds : Source(k, s)
           \/ Clock
    PROVE  Beside
<1>1. CASE \/ \E k \in Keys, b, c \in BOOLEAN : Put(k, b, c)
           \/ InitiateMultipartUpload \/ UploadChunks
           \/ \E files \in Batches : Delete(files)
           \/ RoutinesDone \/ DropRows \/ ForgetOrphans
           \/ \E r \in Routines : TakeFile(r) \/ DeleteFile(r)
  BY <1>1 DEF Put, InitiateMultipartUpload, UploadChunks, Delete, RoutinesDone, DropRows,
    ForgetOrphans, TakeFile,
              DeleteFile, Beside
<1>2. CASE PutObject
  BY <1>2, StoreBeside DEF PutObject, Beside
<1>3. CASE PutFails
  BY <1>3, StoreBeside DEF PutFails, Beside
<1>4. CASE DeleteAtOnce
  BY <1>4, StoreBeside DEF DeleteAtOnce, Request
<1>5. CASE BatchDelete
  BY <1>5, StoreBeside DEF BatchDelete, Request, Beside
<1>6. CASE \E k \in Keys : OtherWrites(k) \/ VendorDeletes(k)
  BY <1>6, StoreBeside DEF OtherWrites, VendorDeletes
<1>7. CASE (\E k \in Keys : OneDriveSource(k) \/ Thumb(k) \/ \E s \in Speeds : Source(k, s)) \/ Clock
  BY <1>7 DEF OneDriveSource, Thumb, Source, Clock, Beside
<1> QED BY <1>1, <1>2, <1>3, <1>4, <1>5, <1>6, <1>7 DEF DeleteActs

\* Every step keeps the invariant.
LEMMA ListingStep == ListIndInv /\ [VendorNext]_vendorVars => ListIndInv'
<1> SUFFICES ASSUME ListIndInv, [VendorNext]_vendorVars PROVE ListIndInv'
  OBVIOUS
<1>1. VersionsKnown'
  BY VersionsStep DEF ListIndInv
<1>2. CASE UNCHANGED vendorVars
  BY <1>1, <1>2, BesideStep DEF vendorVars, Beside
<1>3. CASE VendorNext
  <2>0. UNCHANGED kind
    BY <1>3 DEF VendorNext
  <2>1. CASE ossList \/ s3List \/ qiniuList \/ cosList
    <3>1. \/ kind = "cos" /\ NextPage(0)
          \/ kind \in {"oss", "s3", "qiniu"} /\ NextPage(listing.marker)
      BY <2>1 DEF ossList, s3List, qiniuList, cosList
    <3>2. CASE kind = "cos" /\ NextPage(0)
      BY <1>1, <2>0, <3>2, PageStep
    <3>3. CASE kind \in {"oss", "s3", "qiniu"} /\ NextPage(listing.marker)
      BY <1>1, <2>0, <3>3, PageStep
    <3> QED BY <3>1, <3>2, <3>3
  <2>2. CASE upyunList \/ remoteList \/ localList
    BY <1>1, <2>0, <2>2, AllAtOnceStep DEF upyunList, remoteList, localList
  <2>3. CASE ListFails \/ \E d \in {0} \cup Keys : ListChildrenFails(d)
    BY <1>1, <2>0, <2>3, ListFailsStep
  <2>4. CASE \E d \in {0} \cup Keys : ListChildren(d)
    <3>1. PICK d \in {0} \cup Keys : ListChildren(d)
      BY <2>4
    <3>2. CASE d = 0
      BY <1>1, <2>0, <3>1, <3>2, TopStep DEF ListChildren
    <3>3. CASE d \in Keys
      BY <1>1, <2>0, <3>1, <3>3, FolderStep
    <3> QED BY <3>2, <3>3
  <2>5. CASE \E b \in BOOLEAN : List(b)
    BY <1>1, <2>0, <2>5, ListBegins
  <2>6. CASE ListReturns
    BY <1>1, <2>0, <2>6, IdleOff DEF ListReturns, ListIndInv
  <2>7. CASE Beside
    BY <1>1, <2>7, BesideStep
  <2>8. CASE focus = "objects"
    BY <1>3, <2>0, <2>1, <2>2, <2>3, <2>4, <2>5, <2>6, <2>7, <2>8, BesideSteps DEF VendorNext,
      DeleteActs
  <2>9. CASE focus = "links"
    BY <1>3, <2>0, <2>7, <2>9, BesideSteps DEF VendorNext
  <2> QED BY <1>3, <2>8, <2>9 DEF VendorNext
<1> QED BY <1>2, <1>3

\* It implies that listings are exact.
LEMMA ListIndMeans == ListIndInv => ListExact
<1> SUFFICES ASSUME ListIndInv, listing.on, listing.done, ~listing.failed, kind = "cos" => listing.pages = 1
             PROVE  /\ \A k \in listing.steady : listing.got[Entry(k, listing.recursive)] = 1
                    /\ \A k \in Keys : listing.got[k] <= 1
  BY DEF ListExact
<1>1. ListGood(listing) /\ listing.pages \in Nat /\ listing.recursive \in BOOLEAN
      /\ kind \in {"oss", "s3", "qiniu", "cos", "upyun", "remote", "local", "onedrive"}
  BY ListKnown, VendorAssumption
<1>2. CASE kind \in {"oss", "s3", "qiniu", "cos"}
  BY <1>1, <1>2 DEF ListGood, PagesRead
<1>3. CASE kind \in {"upyun", "remote", "local"}
  BY <1>1, <1>3 DEF ListGood, AllRead
<1>4. CASE kind = "onedrive"
  BY <1>1, <1>4 DEF ListGood, FoldersRead, Entry
<1> QED BY <1>1, <1>2, <1>3, <1>4

\* For each of the eight storage drivers: a listing that ends without an error
\* has every object that was there all along exactly once, however uploads and
\* deletions change the bucket between its pages; no record is dropped while
\* its object stays, for deletions in one request, in groups and by parallel
\* routines (except with S3 and Qiniu); and every link that is handed out
\* works, ends if the bucket is private and has a limit the vendor accepts
\* (List, Delete and Source of the drivers): for every set of keys and
\* directories, every page and group size, and every number of failures.
THEOREM DriversHold == VendorSpec => []VendorInv
<1>1. LinkIndInv => LinkUsable
  BY DEF LinkIndInv
<1>2. ListIndInv /\ DeleteIndInv /\ LinkIndInv => VendorInv
  BY <1>1, ListIndMeans, DeleteIndMeans DEF VendorInv
<1> QED BY <1>2, LinkInitInv, LinkStep, DeleteInitInv, DeleteStep, ListInitInv, ListingStep, PTL
        DEF VendorSpec

-----------------------------------------------------------------------------
(* StreamUpload: uploads in one request                                    *)

\* The rows of files and the records of requests.
StreamRows == {NoFile} \cup [at : Paths, src : Contents, size : Lengths]
PathOrNone == Paths \cup {<<>>}
StreamReqs ==
    [pc : {"idle", "before", "put", "writing", "stored", "move", "rename", "panicked", "ended"},
     kind : {"none", "put", "content", "create", "stream", "move"},
     at : PathOrNone, to : PathOrNone, id : SUBSET Files, size : Lengths,
     snap : StreamRows, seen : Int, src : Contents \cup {""}, attached : BOOLEAN,
     linked : BOOLEAN, late : SUBSET Files, gone : BOOLEAN,
     watch : {"none", "watching", "delete", "source", "clean", "size", "ended"}]

\* The full types; no two files have the same path.
StreamTypes ==
    /\ file \in [Files -> StreamRows]
    /\ \A f, g \in Files : Exists(f) /\ Exists(g) /\ file[f].at = file[g].at => f = g
    /\ disk \in [Contents -> Lengths \cup {Absent}]
    /\ used \in Int /\ stale \in BOOLEAN
    /\ req \in [Requests -> StreamReqs]

\* A watcher that has pointed the row to the new content, or has ended.
Pointed(q) == q.watch \in {"clean", "size", "ended"}

\* What a request knows: a running upload has a source, a new one if the file
\* is new or its content shared; a hook is only reached with the row it needs.
StreamReqOK(r, q) ==
    /\ q.pc \in {"idle", "before", "move", "rename"} => q.watch = "none"
    /\ q.pc = "idle" => q.src = ""
    /\ q.pc \in {"before", "put", "writing", "stored"} => q.src # ""
    /\ q.watch \in {"watching", "delete", "source", "clean", "size"} => q.src # ""
    /\ q.src # "" /\ (q.id = {} \/ q.linked) => q.src = r
    /\ q.watch = "delete" => q.id = {}
    /\ q.watch = "source" => q.linked
    /\ q.watch \in {"source", "clean", "size"} => q.id # {}
    /\ q.pc \in {"move", "rename"} => q.at \in Paths /\ q.to \in Paths

\* Only the watcher of a request lets rows, and through them other requests,
\* have the new content of that request; the rows with the source of a request
\* are those it knows or copies made later; a content is only missing where a
\* watcher is about to create it.
SourcesHeld ==
    /\ \A r \in Requests, f \in Files : Exists(f) /\ file[f].src = r => Pointed(req[r])
    /\ \A r, x \in Requests : x # r /\ req[x].src = r => Pointed(req[r])
    /\ \A r \in Requests, f \in Files :
          Exists(f) /\ file[f].src = req[r].src => f \in req[r].id \cup req[r].late
    /\ \A f \in Files : Exists(f) /\ disk[file[f].src] = Absent =>
          \E r \in Requests : req[r].watch = "clean" /\ req[r].src = file[f].src

StreamHeld ==
    /\ StreamTypes /\ StorageFollowsRows /\ SourcesHeld
    /\ \A r \in Requests : StreamReqOK(r, req[r])

\* A row that exists has a path and a source, and the other way round.
LEMMA RowExists ==
    ASSUME StreamTypes, NEW f \in Files
    PROVE  /\ Exists(f) => file[f] \in [at : Paths, src : Contents, size : Lengths]
           /\ file[f].at \in Paths => Exists(f)
           /\ ~Exists(f) => file[f].size = 0
           /\ file[f].size \in Lengths
<1>1. <<>> \notin Paths
  BY DEF Paths
<1>2. 0 \in Lengths
  BY StreamAssumption DEF Lengths
<1>3. file[f] \in StreamRows
  BY DEF StreamTypes
<1>4. NoFile.at = <<>> /\ NoFile.size = 0
  BY DEF NoFile
<1>5. Exists(f) => file[f] \in [at : Paths, src : Contents, size : Lengths]
  BY <1>3 DEF StreamRows, Exists
<1> QED BY <1>1, <1>2, <1>4, <1>5 DEF Exists

\* StreamHeld implies the checked invariant.
LEMMA StreamMeans == ASSUME StreamHeld PROVE StreamInv
<1>1. ASSUME NEW f \in Files, Exists(f)
      PROVE  /\ file[f].at \in Paths /\ file[f].src \in Contents /\ file[f].size \in Lengths
             /\ At(file[f].at) = {f}
  <2>1. file[f] \in [at : Paths, src : Contents, size : Lengths]
    BY <1>1, RowExists DEF StreamHeld
  <2>2. \A g \in Files : file[g].at = file[f].at => g = f
    BY <1>1, <2>1, RowExists DEF StreamHeld, StreamTypes
  <2> QED BY <2>1, <2>2 DEF At
<1>2. StreamTypeOK
  BY <1>1 DEF StreamTypeOK, StreamHeld, StreamTypes, StreamReqs
<1>3. ContentKept
  <2> SUFFICES ASSUME NEW f \in Files, Exists(f), disk[file[f].src] = Absent
               PROVE  \E r \in Requests : /\ f \in req[r].id \cup req[r].late
                                          /\ req[r].watch = "clean" /\ req[r].src = file[f].src
    BY DEF ContentKept
  <2> QED BY DEF StreamHeld, SourcesHeld
<1> QED BY <1>2, <1>3 DEF StreamHeld, StreamInv

\* The idle record is well typed.
LEMMA NoReqType ==
    /\ NoReq \in StreamReqs /\ NoReq.pc = "idle" /\ NoReq.watch = "none" /\ NoReq.src = ""
    /\ NoReq.id = {} /\ NoReq.late = {}
    /\ \A r : StreamReqOK(r, NoReq)
<1>1. 0 \in Lengths /\ 0 \in Int
  BY StreamAssumption DEF Lengths
<1>2. NoReq \in StreamReqs
  BY <1>1 DEF NoReq, StreamReqs, StreamRows, PathOrNone
<1> QED BY <1>2 DEF NoReq, StreamReqOK

\* Ending a request changes its handler and its watcher only.
LEMMA EndedReq ==
    ASSUME NEW a \in {"panicked", "ended"}, NEW w \in {"none", "ended"}, NEW v \in StreamReqs,
           NEW e, e = [v EXCEPT !.pc = a, !.watch = w]
    PROVE  e \in StreamReqs /\ e.pc = a /\ e.watch = w /\ e.src = v.src /\ e.id = v.id
<1>1. e \in StreamReqs
  BY DEF StreamReqs
<1>2. e.pc = a /\ e.watch = w
  BY DEF StreamReqs
<1>3. e.src = v.src /\ e.id = v.id
  BY DEF StreamReqs
<1> QED BY <1>1, <1>2, <1>3, Zenon

\* The record that is left when handler and watcher have ended.
LEMMA LeftReq ==
    ASSUME NEW q \in StreamReqs, q.pc \in {"panicked", "ended"}, q.watch \in {"none", "ended"},
           NEW z, z = [NoReq EXCEPT !.pc = q.pc, !.watch = q.watch]
    PROVE  z \in StreamReqs /\ z.pc = q.pc /\ z.watch = q.watch /\ z.src = "" /\ z.id = {}
<1>1. NoReq \in StreamReqs /\ NoReq.src = "" /\ NoReq.id = {}
  BY NoReqType
<1>2. z \in StreamReqs
  BY <1>1, EndedReq
<1>3. z.pc = q.pc /\ z.watch = q.watch
  BY DEF NoReq
<1>4. z.src = "" /\ z.id = {}
  BY DEF NoReq
<1> QED BY <1>2, <1>3, <1>4

\* What is left of a request.
LEMMA RestOf ==
    ASSUME NEW r, NEW q \in StreamReqs, StreamReqOK(r, q)
    PROVE  /\ Rest(q) \in StreamReqs /\ StreamReqOK(r, Rest(q))
           /\ Rest(q).pc = q.pc /\ Rest(q).watch = q.watch
           /\ Rest(q) = q \/ (Rest(q).src = "" /\ q.watch \in {"none", "ended"})
<1>1. CASE Over(q) /\ q.watch \in {"none", "ended"}
  <2> DEFINE z == [NoReq EXCEPT !.pc = q.pc, !.watch = q.watch]
  <2>1. z \in StreamReqs /\ z.pc = q.pc /\ z.watch = q.watch /\ z.src = "" /\ z.id = {}
    BY <1>1, LeftReq DEF Over
  <2>2. Rest(q) = z
    BY <1>1 DEF Rest
  <2> HIDE DEF z
  <2>3. StreamReqOK(r, z)
    BY <1>1, <2>1 DEF StreamReqOK, Over
  <2> QED BY <1>1, <2>1, <2>2, <2>3
<1>2. CASE ~(Over(q) /\ q.watch \in {"none", "ended"})
  BY <1>2 DEF Rest
<1> QED BY <1>1, <1>2

\* A step that only removes rows and contents no row has, and in which requests
\* keep their sources or lose them, keeps SourcesHeld.
LEMMA OrderlyStep ==
    ASSUME StreamTypes, StreamTypes', SourcesHeld,
           \A x \in Requests :
              /\ req'[x].src = "" \/ (/\ req'[x].src = req[x].src /\ req[x].id \subseteq req'[x].id
                                      /\ req[x].late \subseteq req'[x].late)
              /\ Pointed(req[x]) => Pointed(req'[x])
              /\ req[x].watch = "clean" => \/ req'[x].watch = "clean" /\ req'[x].src = req[x].src
                                           \/ disk'[req[x].src] # Absent,
           \A f \in Files : Exists(f)' => Exists(f) /\ file'[f].src = file[f].src,
           \A c \in Contents : disk'[c] = Absent =>
              disk[c] = Absent \/ \A f \in Files : ~(Exists(f)' /\ file'[f].src = c)
    PROVE  SourcesHeld'
<1>s. \A f \in Files : Exists(f) => file[f].src \in Contents
  BY RowExists
<1>1. \A r \in Requests : r # "" /\ r \in Contents
  BY NoSourceIsNoKey DEF Contents
<1>2. ASSUME NEW r \in Requests, NEW f \in Files, Exists(f)', file'[f].src = r
      PROVE  Pointed(req'[r])
  BY <1>2 DEF SourcesHeld
<1>3. ASSUME NEW r \in Requests, NEW x \in Requests, x # r, req'[x].src = r
      PROVE  Pointed(req'[r])
  BY <1>1, <1>3 DEF SourcesHeld
<1>4. ASSUME NEW r \in Requests, NEW f \in Files, Exists(f)', file'[f].src = req'[r].src
      PROVE  f \in req'[r].id \cup req'[r].late
  <2>1. req'[r].src # ""
    BY <1>s, <1>4, NoSourceIsNoKey DEF Contents
  <2> QED BY <1>4, <2>1 DEF SourcesHeld
<1>5. ASSUME NEW f \in Files, Exists(f)', disk'[file'[f].src] = Absent
      PROVE  \E r \in Requests : req'[r].watch = "clean" /\ req'[r].src = file'[f].src
  <2>1. Exists(f) /\ file'[f].src = file[f].src /\ disk[file[f].src] = Absent
    BY <1>s, <1>5
  <2>2. PICK r \in Requests : req[r].watch = "clean" /\ req[r].src = file[f].src
    BY <2>1 DEF SourcesHeld
  <2>3. req'[r].watch = "clean" /\ req'[r].src = req[r].src
    BY <1>5, <2>1, <2>2
  <2> QED BY <2>1, <2>2, <2>3
<1> QED BY <1>2, <1>3, <1>4, <1>5 DEF SourcesHeld, Exists

PcOf == {"idle", "before", "put", "writing", "stored", "move", "rename", "panicked", "ended"}
WatchOf == {"none", "watching", "delete", "source", "clean", "size", "ended"}

\* The parts of a request that a step of its handler or watcher leaves alone.
SameUpload(e, v) ==
    e.id = v.id /\ e.late = v.late /\ e.src = v.src /\ e.linked = v.linked
    /\ e.at = v.at /\ e.to = v.to

\* The record of a request is followed by one that has its source or none.
Follows(x, q) ==
    /\ q \in StreamReqs /\ StreamReqOK(x, q)
    /\ q.src = "" \/ (/\ q.src = req[x].src /\ req[x].id \subseteq q.id
                      /\ req[x].late \subseteq q.late)
    /\ Pointed(req[x]) => Pointed(q)
    /\ req[x].watch = "clean" => \/ q.watch = "clean" /\ q.src = req[x].src
                                 \/ disk'[req[x].src] # Absent

\* A step of the handler: the record but for its place.
LEMMA PcReq ==
    ASSUME NEW v \in StreamReqs, NEW a \in PcOf, NEW e, e = [v EXCEPT !.pc = a]
    PROVE  e \in StreamReqs /\ e.pc = a /\ e.watch = v.watch /\ SameUpload(e, v)
<1>1. e \in StreamReqs
  BY DEF StreamReqs, PcOf
<1>2. e.pc = a /\ e.watch = v.watch
  BY DEF StreamReqs
<1>3. e.id = v.id /\ e.late = v.late /\ e.src = v.src /\ e.at = v.at /\ e.to = v.to
  BY DEF StreamReqs
<1>4. e.linked = v.linked
  BY DEF StreamReqs
<1> QED BY <1>1, <1>2, <1>3, <1>4 DEF SameUpload

\* A step of the watcher: the record but for its place.
LEMMA WatchReq ==
    ASSUME NEW v \in StreamReqs, NEW w \in WatchOf, NEW e, e = [v EXCEPT !.watch = w]
    PROVE  e \in StreamReqs /\ e.pc = v.pc /\ e.watch = w /\ SameUpload(e, v)
<1>1. e \in StreamReqs
  BY DEF StreamReqs, WatchOf
<1>2. e.pc = v.pc /\ e.watch = w
  BY DEF StreamReqs
<1>3. e.id = v.id /\ e.late = v.late /\ e.src = v.src /\ e.at = v.at /\ e.to = v.to
  BY DEF StreamReqs
<1>4. e.linked = v.linked
  BY DEF StreamReqs
<1> QED BY <1>1, <1>2, <1>3, <1>4 DEF SameUpload

\* Opening or unlinking: the record but for what is attached.
LEMMA AttachedReq ==
    ASSUME NEW v \in StreamReqs, NEW b \in BOOLEAN, NEW e, e = [v EXCEPT !.attached = b]
    PROVE  e \in StreamReqs /\ e.pc = v.pc /\ e.watch = v.watch /\ SameUpload(e, v)
<1>1. e \in StreamReqs
  BY DEF StreamReqs
<1>2. e.pc = v.pc /\ e.watch = v.watch
  BY DEF StreamReqs
<1>3. e.id = v.id /\ e.late = v.late /\ e.src = v.src /\ e.at = v.at /\ e.to = v.to
  BY DEF StreamReqs
<1>4. e.linked = v.linked
  BY DEF StreamReqs
<1> QED BY <1>1, <1>2, <1>3, <1>4 DEF SameUpload

\* What is left of a request follows what the request follows.
LEMMA RestFollows ==
    ASSUME NEW r, NEW q, Follows(r, q)
    PROVE  Follows(r, Rest(q))
<1>1. q \in StreamReqs /\ StreamReqOK(r, q)
  BY DEF Follows
<1>2. CASE Rest(q) = q
  BY <1>2
<1>3. CASE Rest(q).src = "" /\ q.watch \in {"none", "ended"}
  BY <1>1, <1>3, RestOf DEF Follows, Pointed
<1> QED BY <1>1, <1>2, <1>3, RestOf

\* A request that keeps its watcher, or whose handler alone has changed.
LEMMA KeepsUpload ==
    ASSUME NEW r, req[r] \in StreamReqs, StreamReqOK(r, req[r]),
           NEW q \in StreamReqs, SameUpload(q, req[r]), StreamReqOK(r, q),
           q.watch = req[r].watch \/ ~Pointed(req[r])
    PROVE  Follows(r, q)
<1> QED BY DEF Follows, SameUpload, Pointed

\* A request that no step changes follows itself.
LEMMA SameFollows ==
    ASSUME StreamHeld, NEW x \in Requests
    PROVE  Follows(x, req[x]) /\ req[x] \in StreamReqs
<1> QED BY DEF StreamHeld, StreamTypes, Follows

\* A step whose requests follow one another and whose rows and contents change
\* in an orderly way keeps the invariant.
LEMMA FollowingStep ==
    ASSUME StreamHeld, NEW q, req' = [x \in Requests |-> q[x]],
           \A x \in Requests : Follows(x, q[x]),
           file' \in [Files -> StreamRows],
           \A f, g \in Files : Exists(f)' /\ Exists(g)' /\ file'[f].at = file'[g].at => f = g,
           \A f \in Files : Exists(f)' => Exists(f) /\ file'[f].src = file[f].src,
           disk' \in [Contents -> Lengths \cup {Absent}],
           \A c \in Contents : disk'[c] = Absent =>
              disk[c] = Absent \/ \A f \in Files : ~(Exists(f)' /\ file'[f].src = c),
           used' \in Int, stale' \in BOOLEAN, StorageFollowsRows'
    PROVE  StreamHeld'
<1>1. \A x \in Requests : req'[x] = q[x]
  OBVIOUS
<1>2. req' \in [Requests -> StreamReqs]
  BY DEF Follows
<1>3. StreamTypes'
  BY <1>2 DEF StreamTypes, Exists
<1>4. \A x \in Requests :
        /\ req'[x].src = "" \/ (/\ req'[x].src = req[x].src /\ req[x].id \subseteq req'[x].id
                                /\ req[x].late \subseteq req'[x].late)
        /\ Pointed(req[x]) => Pointed(req'[x])
        /\ req[x].watch = "clean" => \/ req'[x].watch = "clean" /\ req'[x].src = req[x].src
                                     \/ disk'[req[x].src] # Absent
  BY <1>1 DEF Follows
<1>5. SourcesHeld'
  BY <1>3, <1>4, OrderlyStep DEF StreamHeld
<1>6. \A x \in Requests : StreamReqOK(x, req'[x])
  BY <1>1 DEF Follows
<1> QED BY <1>3, <1>5, <1>6 DEF StreamHeld, StreamReqOK

\* The same for one request, with the rows and the account unchanged.
LEMMA RequestStep ==
    ASSUME StreamHeld, NEW r \in Requests, NEW q, Follows(r, q), req' = [req EXCEPT ![r] = q],
           UNCHANGED <<file, used, stale>>,
           disk' \in [Contents -> Lengths \cup {Absent}],
           \A c \in Contents : disk'[c] = Absent =>
              disk[c] = Absent \/ \A f \in Files : ~(Exists(f) /\ file[f].src = c)
    PROVE  StreamHeld'
<1> DEFINE s == [x \in Requests |-> IF x = r THEN q ELSE req[x]]
<1>1. req' = [x \in Requests |-> s[x]]
  BY DEF StreamHeld, StreamTypes
<1>2. \A x \in Requests : Follows(x, s[x])
  BY SameFollows
<1> HIDE DEF s
<1>3. /\ file' \in [Files -> StreamRows] /\ used' \in Int /\ stale' \in BOOLEAN
      /\ \A f, g \in Files : Exists(f)' /\ Exists(g)' /\ file'[f].at = file'[g].at => f = g
      /\ \A f \in Files : Exists(f)' <=> Exists(f)
  BY DEF StreamHeld, StreamTypes, Exists
<1>4. StorageFollowsRows'
  BY DEF StreamHeld, StorageFollowsRows
<1> QED BY <1>1, <1>2, <1>3, <1>4, FollowingStep

\* A handler that takes a step: the record, and what is left of it.
LEMMA HandlerFollows ==
    ASSUME StreamHeld, NEW r \in Requests, NEW a \in PcOf, a # "idle",
           a \in {"move", "rename"} => req[r].pc \in {"move", "rename"},
           a = "before" => req[r].pc = "before",
           a \in {"before", "put", "writing", "stored"} => req[r].src # "",
           NEW e, e = [req[r] EXCEPT !.pc = a]
    PROVE  Follows(r, e) /\ Follows(r, Rest(e))
<1>1. req[r] \in StreamReqs /\ StreamReqOK(r, req[r])
  BY DEF StreamHeld, StreamTypes
<1>2. e \in StreamReqs /\ e.pc = a /\ e.watch = req[r].watch /\ SameUpload(e, req[r])
  <2>1. PICK v : v = req[r]
    OBVIOUS
  <2>2. v \in StreamReqs /\ e = [v EXCEPT !.pc = a]
    BY <1>1, <2>1
  <2>3. e \in StreamReqs /\ e.pc = a /\ e.watch = v.watch /\ SameUpload(e, v)
    BY <2>2, PcReq
  <2> QED BY <2>1, <2>3
<1>3. StreamReqOK(r, e)
  BY <1>1, <1>2 DEF StreamReqOK, SameUpload
<1>4. Follows(r, e)
  BY <1>1, <1>2, <1>3, KeepsUpload
<1> QED BY <1>4, RestFollows

\* The disk as it is, or with one content written.
LEMMA DiskWritten ==
    ASSUME StreamHeld, NEW c, NEW n \in Lengths
    PROVE  /\ [disk EXCEPT ![c] = n] \in [Contents -> Lengths \cup {Absent}]
           /\ disk \in [Contents -> Lengths \cup {Absent}]
           /\ \A d \in Contents : [disk EXCEPT ![c] = n][d] = Absent => disk[d] = Absent
<1>1. disk \in [Contents -> Lengths \cup {Absent}] /\ n # Absent
  BY StreamAssumption DEF StreamHeld, StreamTypes, Lengths, Absent
<1> QED BY <1>1

\* Refused: a hook BeforeUpload ends the upload.
LEMMA RefusedStep == ASSUME StreamHeld, NEW r \in Requests, Refused(r) PROVE StreamHeld'
<1> DEFINE e == [req[r] EXCEPT !.pc = "ended"]
<1>1. Follows(r, Rest(e))
  BY HandlerFollows DEF PcOf
<1> HIDE DEF e
<1>2. req' = [req EXCEPT ![r] = Rest(e)] /\ UNCHANGED <<file, disk, used, stale>>
  BY DEF Refused, Ends, Becomes, e
<1> QED BY <1>1, <1>2, RequestStep DEF StreamHeld, StreamTypes

\* PutRefused: the file cannot be opened.
LEMMA PutRefusedStep == ASSUME StreamHeld, NEW r \in Requests, PutRefused(r) PROVE StreamHeld'
<1> DEFINE e == [req[r] EXCEPT !.pc = "ended"]
<1>1. Follows(r, Rest(e))
  BY HandlerFollows DEF PcOf
<1> HIDE DEF e
<1>2. req' = [req EXCEPT ![r] = Rest(e)] /\ UNCHANGED <<file, disk, used, stale>>
  BY DEF PutRefused, Ends, Becomes, e
<1> QED BY <1>1, <1>2, RequestStep DEF StreamHeld, StreamTypes

\* UpdateMD5: the handler panics, the watcher stays.
LEMMA UpdateMD5Step == ASSUME StreamHeld, NEW r \in Requests, UpdateMD5(r) PROVE StreamHeld'
<1> DEFINE e == [req[r] EXCEPT !.pc = "panicked"]
<1>1. Follows(r, Rest(e))
  BY HandlerFollows DEF PcOf
<1> HIDE DEF e
<1>2. req' = [req EXCEPT ![r] = Rest(e)] /\ UNCHANGED <<file, disk, used, stale>>
  BY DEF UpdateMD5, Becomes, e
<1> QED BY <1>1, <1>2, RequestStep DEF StreamHeld, StreamTypes

\* PutDone: the body is stored, or lost if the file was unlinked.
LEMMA PutDoneStep == ASSUME StreamHeld, NEW r \in Requests, PutDone(r) PROVE StreamHeld'
<1>0. req[r].pc = "writing" /\ req[r].src # "" /\ req[r].size \in Lengths
  BY DEF PutDone, StreamHeld, StreamTypes, StreamReqOK, StreamReqs
<1> DEFINE e == [req[r] EXCEPT !.pc = "stored"]
<1>1. Follows(r, e)
  BY <1>0, HandlerFollows DEF PcOf
<1> HIDE DEF e
<1>2. req' = [req EXCEPT ![r] = e] /\ UNCHANGED <<file, used, stale>>
  BY DEF PutDone, e
<1>3. disk' = disk \/ disk' = [disk EXCEPT ![req[r].src] = req[r].size]
  BY DEF PutDone, Written
<1>4. /\ disk' \in [Contents -> Lengths \cup {Absent}]
      /\ \A c \in Contents : disk'[c] = Absent => disk[c] = Absent
  <2>1. CASE disk' = disk
    BY <2>1 DEF StreamHeld, StreamTypes
  <2>2. CASE disk' = [disk EXCEPT ![req[r].src] = req[r].size]
    <3>1. PICK n \in Lengths : n = req[r].size
      BY <1>0
    <3>2. disk' = [disk EXCEPT ![req[r].src] = n]
      BY <2>2, <3>1
    <3> QED BY <3>2, DiskWritten
  <2> QED BY <1>3, <2>1, <2>2
<1> QED BY <1>1, <1>2, <1>4, RequestStep

\* PutBreaks: part of the body is stored, or lost.
LEMMA PutBreaksStep ==
    ASSUME StreamHeld, NEW r \in Requests, NEW n \in Lengths, PutBreaks(r, n) PROVE StreamHeld'
<1> DEFINE e == [req[r] EXCEPT !.pc = "ended"]
<1>1. Follows(r, Rest(e))
  BY HandlerFollows DEF PcOf
<1> HIDE DEF e
<1>2. req' = [req EXCEPT ![r] = Rest(e)] /\ UNCHANGED <<file, used, stale>>
  BY DEF PutBreaks, Ends, Becomes, e
<1>3. disk' = disk \/ disk' = [disk EXCEPT ![req[r].src] = n]
  BY DEF PutBreaks, Written
<1>4. /\ disk' \in [Contents -> Lengths \cup {Absent}]
      /\ \A c \in Contents : disk'[c] = Absent => disk[c] = Absent
  BY <1>3, DiskWritten
<1> QED BY <1>1, <1>2, <1>4, RequestStep

\* PutOpens: the content is truncated.
LEMMA PutOpensStep == ASSUME StreamHeld, NEW r \in Requests, PutOpens(r) PROVE StreamHeld'
<1>0. req[r].pc = "put" /\ req[r].src # "" /\ req[r] \in StreamReqs /\ StreamReqOK(r, req[r])
  BY DEF PutOpens, StreamHeld, StreamTypes, StreamReqOK
<1> DEFINE d == [req[r] EXCEPT !.pc = "writing"]
           e == [d EXCEPT !.attached = TRUE]
<1>1. d \in StreamReqs /\ d.pc = "writing" /\ d.watch = req[r].watch /\ SameUpload(d, req[r])
  <2>1. PICK v : v = req[r]
    OBVIOUS
  <2>2. v \in StreamReqs /\ d = [v EXCEPT !.pc = "writing"] /\ "writing" \in PcOf
    BY <1>0, <2>1 DEF PcOf
  <2> HIDE DEF d
  <2>3. d \in StreamReqs /\ d.pc = "writing" /\ d.watch = v.watch /\ SameUpload(d, v)
    BY <2>2, PcReq
  <2> QED BY <2>1, <2>3
<1>2. req' = [req EXCEPT ![r] = e]
  BY <1>0 DEF PutOpens, StreamHeld, StreamTypes
<1> HIDE DEF d
<1>3. e \in StreamReqs /\ e.pc = d.pc /\ e.watch = d.watch /\ SameUpload(e, d)
  BY <1>1, AttachedReq
<1> HIDE DEF e
<1>4. StreamReqOK(r, e) /\ SameUpload(e, req[r])
  BY <1>0, <1>1, <1>3 DEF StreamReqOK, SameUpload
<1>5. Follows(r, e)
  BY <1>0, <1>1, <1>3, <1>4, KeepsUpload
<1>6. disk' = [disk EXCEPT ![req[r].src] = 0] /\ UNCHANGED <<file, used, stale>> /\ 0 \in Lengths
  BY StreamAssumption DEF PutOpens, Lengths
<1> QED BY <1>2, <1>5, <1>6, DiskWritten, RequestStep

\* What Upload forgets of the record.
LEMMA ClearedReq ==
    ASSUME NEW d \in StreamReqs, NEW n \in Int, NEW e, e = [d EXCEPT !.kind = "none", !.seen = n]
    PROVE  e \in StreamReqs
<1> QED BY DEF StreamReqs

\* Upload: the watcher starts, if the context can be seen.
LEMMA UploadStep == ASSUME StreamHeld, NEW r \in Requests, Upload(r) PROVE StreamHeld'
<1>0. req[r].pc = "before" /\ req[r].src # "" /\ req[r] \in StreamReqs /\ StreamReqOK(r, req[r])
      /\ req[r].watch = "none"
  BY DEF Upload, StreamHeld, StreamTypes, StreamReqOK
<1>1. PICK w \in {"watching", "none"} :
        req' = [req EXCEPT ![r] = [@ EXCEPT !.pc = "put", !.kind = "none", !.seen = 0, !.watch = w]]
  BY <1>0 DEF Upload, StreamHeld, StreamTypes
<1> DEFINE e == [req[r] EXCEPT !.pc = "put", !.kind = "none", !.seen = 0, !.watch = w]
<1>2. e \in StreamReqs
  <2> DEFINE d == [req[r] EXCEPT !.pc = "put", !.watch = w]
  <2>1. d \in StreamReqs
    BY <1>0, <1>1 DEF StreamReqs
  <2>2. e = [d EXCEPT !.kind = "none", !.seen = 0]
    BY <1>0 DEF StreamReqs
  <2> HIDE DEF d, e
  <2>3. 0 \in Int
    OBVIOUS
  <2> QED BY <2>1, <2>2, <2>3, ClearedReq
<1>3. e.pc = "put" /\ e.watch = w
  BY <1>0 DEF StreamReqs
<1>4. SameUpload(e, req[r])
  BY <1>0 DEF StreamReqs, SameUpload
<1>5. req' = [req EXCEPT ![r] = e]
  BY <1>1 DEF StreamHeld, StreamTypes
<1> HIDE DEF e
<1>6. StreamReqOK(r, e)
  BY <1>0, <1>3, <1>4 DEF StreamReqOK, SameUpload
<1>7. Follows(r, e)
  BY <1>0, <1>2, <1>3, <1>4, <1>6, KeepsUpload DEF Pointed
<1> QED BY <1>5, <1>7, RequestStep DEF StreamHeld, StreamTypes, Upload

\* ClientGone: the connection is closed.
LEMMA ClientGoneStep == ASSUME StreamHeld, NEW r \in Requests, ClientGone(r) PROVE StreamHeld'
<1>0. req[r] \in StreamReqs /\ StreamReqOK(r, req[r])
  BY DEF StreamHeld, StreamTypes
<1> DEFINE e == [req[r] EXCEPT !.gone = TRUE]
<1>2. e \in StreamReqs
  BY <1>0 DEF StreamReqs
<1>3. e.pc = req[r].pc /\ e.watch = req[r].watch
  BY <1>0 DEF StreamReqs
<1>4. SameUpload(e, req[r])
  BY <1>0 DEF StreamReqs, SameUpload
<1>5. req' = [req EXCEPT ![r] = e]
  BY DEF ClientGone, StreamHeld, StreamTypes
<1> HIDE DEF e
<1>6. StreamReqOK(r, e)
  BY <1>0, <1>3, <1>4 DEF StreamReqOK, SameUpload
<1>7. Follows(r, e)
  BY <1>0, <1>2, <1>3, <1>4, <1>6, KeepsUpload
<1> QED BY <1>5, <1>7, RequestStep DEF StreamHeld, StreamTypes, ClientGone

\* CancelUpload: the hook it reaches has the row it needs.
LEMMA CancelUploadStep == ASSUME StreamHeld, NEW r \in Requests, CancelUpload(r) PROVE StreamHeld'
<1>0. req[r] \in StreamReqs /\ StreamReqOK(r, req[r]) /\ req[r].watch = "watching"
  BY DEF StreamHeld, StreamTypes, CancelUpload
<1>1. PICK w : w = AfterUploadCanceled(req[r])
  OBVIOUS
<1>2. /\ w \in {"ended", "delete", "source", "clean"}
      /\ w = "delete" => req[r].id = {}
      /\ w = "source" => req[r].linked
      /\ w \in {"source", "clean"} => req[r].id # {}
      /\ w # "ended" => ~Over(req[r])
  BY <1>1 DEF AfterUploadCanceled
<1> DEFINE e == [req[r] EXCEPT !.watch = w]
<1>3. e \in StreamReqs /\ e.pc = req[r].pc /\ e.watch = w /\ SameUpload(e, req[r])
  BY <1>0, <1>2, WatchReq DEF WatchOf
<1>4. req' = [req EXCEPT ![r] = Rest(e)]
  BY <1>1 DEF CancelUpload, Becomes
<1> HIDE DEF e
<1>5. StreamReqOK(r, e)
  BY <1>0, <1>2, <1>3 DEF StreamReqOK, SameUpload
<1>6. Follows(r, Rest(e))
  BY <1>0, <1>3, <1>5, KeepsUpload, RestFollows DEF Pointed
<1> QED BY <1>4, <1>6, RequestStep DEF StreamHeld, StreamTypes, CancelUpload

\* The size of a row, and of no row, is a length.
LEMMA RowSize == ASSUME NEW v \in StreamRows PROVE v.size \in Lengths /\ v.size \in Nat
<1>1. 0 \in Lengths /\ \A n \in Lengths : n \in Nat
  BY StreamAssumption DEF Lengths
<1>2. CASE v = NoFile
  BY <1>1, <1>2 DEF NoFile
<1>3. CASE v \in [at : Paths, src : Contents, size : Lengths]
  BY <1>1, <1>3
<1> QED BY <1>2, <1>3 DEF StreamRows

\* A step that changes the size of one row and the account by the difference
\* keeps the account equal to the sizes.
LEMMA AccountStep ==
    ASSUME StreamHeld, file' \in [Files -> StreamRows], NEW g \in Files,
           \A x \in Files \ {g} : file'[x].size = file[x].size,
           ~stale' => ~stale /\ used' = used + (file'[g].size - file[g].size)
    PROVE  StorageFollowsRows'
<1> DEFINE a == [x \in Files |-> file[x].size]
           b == [x \in Files |-> file'[x].size]
<1>1. \A x \in Files : a[x] \in Nat /\ b[x] \in Nat
  BY RowSize DEF StreamHeld, StreamTypes
<1>2. \A x \in Files \ {g} : a[x] = b[x]
  OBVIOUS
<1>3. a[g] = file[g].size /\ b[g] = file'[g].size
  OBVIOUS
<1>4. ~stale => used = Sum(a, Files)
  BY DEF StreamHeld, StorageFollowsRows
<1>5. StorageFollowsRows' <=> (~stale' => used' = Sum(b, Files))
  BY DEF StorageFollowsRows
<1> HIDE DEF a, b
<1>6. Sum(b, Files) = Sum(a, Files) + (b[g] - a[g])
  BY <1>1, <1>2, SumUpdate, StreamAssumption
<1> QED BY <1>3, <1>4, <1>5, <1>6

\* Detaching writers from contents that are unlinked changes nothing else.
LEMMA DetachFollows ==
    ASSUME NEW x, NEW q, Follows(x, q), NEW S, NEW e,
           e = [q EXCEPT !.attached = @ /\ q.src \notin S]
    PROVE  Follows(x, e)
<1>0. q \in StreamReqs
  BY DEF Follows
<1>1. PICK b \in BOOLEAN : b = (q.attached /\ q.src \notin S)
  OBVIOUS
<1>2. e = [q EXCEPT !.attached = b]
  BY <1>0, <1>1 DEF StreamReqs
<1>3. e \in StreamReqs /\ e.pc = q.pc /\ e.watch = q.watch /\ SameUpload(e, q)
  BY <1>0, <1>1, <1>2, AttachedReq
<1>4. StreamReqOK(x, e)
  BY <1>3 DEF Follows, StreamReqOK, SameUpload
<1> QED BY <1>3, <1>4 DEF Follows, SameUpload, Pointed

\* Unlinking contents that no row has.
LEMMA UnlinkStep ==
    ASSUME StreamHeld, NEW S, NEW q, \A x \in Requests : Follows(x, q[x]), Unlink(S, q),
           file' \in [Files -> StreamRows],
           \A f, g \in Files : Exists(f)' /\ Exists(g)' /\ file'[f].at = file'[g].at => f = g,
           \A f \in Files : Exists(f)' =>
              Exists(f) /\ file'[f].src = file[f].src /\ file[f].src \notin S,
           used' \in Int, stale' \in BOOLEAN, StorageFollowsRows'
    PROVE  StreamHeld'
<1> DEFINE s == [x \in Requests |-> [q[x] EXCEPT !.attached = @ /\ q[x].src \notin S]]
<1>1. req' = [x \in Requests |-> s[x]]
  BY DEF Unlink
<1>2. \A x \in Requests : Follows(x, s[x])
  BY DetachFollows
<1> HIDE DEF s
<1>3. disk' = [c \in Contents |-> IF c \in S THEN Absent ELSE disk[c]]
  BY DEF Unlink
<1>4. disk \in [Contents -> Lengths \cup {Absent}]
  BY DEF StreamHeld, StreamTypes
<1>5. disk' \in [Contents -> Lengths \cup {Absent}]
  BY <1>3, <1>4
<1>6. \A c \in Contents : disk'[c] = Absent =>
        disk[c] = Absent \/ \A f \in Files : ~(Exists(f)' /\ file'[f].src = c)
  BY <1>3
<1> QED BY <1>1, <1>2, <1>5, <1>6, FollowingStep

\* A watcher that takes its next hook.
LEMMA WatcherFollows ==
    ASSUME StreamHeld, NEW r \in Requests, NEW w \in {"clean", "size", "ended"},
           req[r].watch \in {"delete", "source", "clean", "size"},
           w # "ended" => req[r].id # {},
           req[r].watch = "clean" => w # "clean" /\ disk'[req[r].src] # Absent
    PROVE  \A x \in Requests : Follows(x, Watch(r, w)[x])
<1>1. req[r] \in StreamReqs /\ StreamReqOK(r, req[r])
  BY DEF StreamHeld, StreamTypes
<1> DEFINE e == [req[r] EXCEPT !.watch = w]
<1>2. e \in StreamReqs /\ e.pc = req[r].pc /\ e.watch = w /\ SameUpload(e, req[r])
  BY <1>1, WatchReq DEF WatchOf
<1>3. \A x \in Requests : Watch(r, w)[x] = IF x = r THEN Rest(e) ELSE req[x]
  BY DEF Watch, StreamHeld, StreamTypes
<1> HIDE DEF e
<1>4. StreamReqOK(r, e)
  BY <1>1, <1>2 DEF StreamReqOK, SameUpload
<1>5. Follows(r, e)
  BY <1>2, <1>4 DEF Follows, SameUpload, Pointed
<1> QED BY <1>3, <1>5, RestFollows, SameFollows

\* The rows unchanged.
LEMMA RowsSame ==
    ASSUME StreamHeld, UNCHANGED <<file, used, stale>>
    PROVE  /\ file' \in [Files -> StreamRows] /\ used' \in Int /\ stale' \in BOOLEAN
           /\ \A f, g \in Files : Exists(f)' /\ Exists(g)' /\ file'[f].at = file'[g].at => f = g
           /\ \A f \in Files : (Exists(f)' <=> Exists(f)) /\ file'[f] = file[f]
           /\ StorageFollowsRows'
<1>1. StorageFollowsRows'
  BY DEF StreamHeld, StorageFollowsRows
<1> QED BY <1>1 DEF StreamHeld, StreamTypes, Exists

\* HookDeleteTempFile: the content is the request's own and no row has it.
LEMMA HookDeleteTempFileStep ==
    ASSUME StreamHeld, NEW r \in Requests, HookDeleteTempFile(r) PROVE StreamHeld'
<1>1. req[r].watch = "delete" /\ UNCHANGED <<file, used, stale>>
      /\ Unlink({req[r].src}, Watch(r, "ended"))
  BY DEF HookDeleteTempFile
<1>2. req[r].src = r
  BY <1>1 DEF StreamHeld, StreamReqOK
<1>3. \A f \in Files : Exists(f) => file[f].src # r
  BY <1>1 DEF StreamHeld, SourcesHeld, Pointed
<1>4. \A x \in Requests : Follows(x, Watch(r, "ended")[x])
  BY <1>1, WatcherFollows
<1> QED BY <1>1, <1>2, <1>3, <1>4, RowsSame, UnlinkStep

\* HookCleanFileContent: the content is there from now on.
LEMMA HookCleanFileContentStep ==
    ASSUME StreamHeld, NEW r \in Requests, HookCleanFileContent(r) PROVE StreamHeld'
<1>1. /\ req[r].watch = "clean" /\ UNCHANGED <<file, used, stale>> /\ req' = Watch(r, "size")
      /\ disk' = [disk EXCEPT ![req[r].src] = 0] /\ 0 \in Lengths /\ 0 # Absent
  BY StreamAssumption DEF HookCleanFileContent, Lengths, Absent
<1>2. req[r].src \in Contents /\ req[r].id # {}
  BY <1>1 DEF StreamHeld, StreamTypes, StreamReqs, StreamReqOK
<1>3. disk'[req[r].src] # Absent
  BY <1>1, <1>2 DEF StreamHeld, StreamTypes
<1>4. \A x \in Requests : Follows(x, Watch(r, "size")[x])
  BY <1>1, <1>2, <1>3, WatcherFollows
<1>5. req' = [x \in Requests |-> Watch(r, "size")[x]]
  BY <1>1 DEF Watch, StreamHeld, StreamTypes
<1>6. /\ disk' \in [Contents -> Lengths \cup {Absent}]
      /\ \A c \in Contents : disk'[c] = Absent => disk[c] = Absent
  BY <1>1, DiskWritten
<1> QED BY <1>1, <1>4, <1>5, <1>6, RowsSame, FollowingStep

\* HookClearFileSize: the account and the row change together, or the size was
\* stale.
LEMMA HookClearFileSizeStep ==
    ASSUME StreamHeld, NEW r \in Requests, HookClearFileSize(r) PROVE StreamHeld'
<1>1. req[r].watch = "size" /\ req' = Watch(r, "ended") /\ UNCHANGED disk
  BY DEF HookClearFileSize
<1>2. PICK f : f = CHOOSE h \in req[r].id : TRUE
  OBVIOUS
<1>3. f \in Files /\ req[r].snap.size \in Nat
  BY <1>1, <1>2, RowSize DEF StreamHeld, StreamTypes, StreamReqs, StreamReqOK
<1> DEFINE same == {g \in {f} : Exists(g) /\ file[g].size = req[r].snap.size}
<1>4. /\ file' = [g \in Files |-> IF g \in same THEN [file[g] EXCEPT !.size = 0] ELSE file[g]]
      /\ used' = used - req[r].snap.size
      /\ stale' = (stale \/ same = {})
  BY <1>2 DEF HookClearFileSize, UpdateSize
<1>5. ASSUME NEW g \in Files
      PROVE  /\ file'[g] \in StreamRows
             /\ Exists(g)' => Exists(g) /\ file'[g].src = file[g].src /\ file'[g].at = file[g].at
             /\ g # f => file'[g].size = file[g].size
             /\ g \in same => file'[g].size = 0
  <2>1. CASE g \in same
    <3>1. Exists(g) /\ g = f
      BY <2>1
    <3>2. file[g] \in [at : Paths, src : Contents, size : Lengths]
      BY <3>1, RowExists DEF StreamHeld
    <3>3. file'[g] = [file[g] EXCEPT !.size = 0]
      BY <1>4, <2>1
    <3>4. 0 \in Lengths
      BY StreamAssumption DEF Lengths
    <3> HIDE DEF same
    <3>5. file'[g].src = file[g].src /\ file'[g].at = file[g].at /\ file'[g].size = 0
      BY <3>2, <3>3
    <3>6. file'[g] \in [at : Paths, src : Contents, size : Lengths]
      BY <3>2, <3>3, <3>4
    <3> QED BY <3>1, <3>5, <3>6 DEF StreamRows
  <2>2. CASE g \notin same
    <3>1. file'[g] = file[g]
      BY <1>4, <2>2
    <3> QED BY <2>2, <3>1 DEF StreamHeld, StreamTypes, Exists
  <2> QED BY <2>1, <2>2
<1>6. ~stale' => ~stale /\ used' = used + (file'[f].size - file[f].size)
  <2> SUFFICES ASSUME ~stale'
               PROVE  ~stale /\ used' = used + (file'[f].size - file[f].size)
    OBVIOUS
  <2>1. ~stale /\ same # {}
    BY <1>4
  <2>2. f \in same /\ file[f].size = req[r].snap.size
    BY <2>1
  <2>3. file'[f].size = 0
    BY <1>3, <1>5, <2>2
  <2>4. used \in Int
    BY DEF StreamHeld, StreamTypes
  <2> HIDE DEF same
  <2> QED BY <1>3, <1>4, <2>1, <2>2, <2>3, <2>4
<1>7. used' \in Int
  BY <1>3, <1>4 DEF StreamHeld, StreamTypes
<1>8. stale' \in BOOLEAN
  BY <1>4 DEF StreamHeld, StreamTypes
<1>9. file' \in [Files -> StreamRows]
  BY <1>4, <1>5
<1> HIDE DEF same
<1>10. StorageFollowsRows'
  BY <1>3, <1>5, <1>6, <1>9, AccountStep
<1>11. \A x \in Requests : Follows(x, Watch(r, "ended")[x])
  BY <1>1, WatcherFollows
<1>12. req' = [x \in Requests |-> Watch(r, "ended")[x]]
  BY <1>1 DEF Watch, StreamHeld, StreamTypes
<1>13. \A g, h \in Files : Exists(g)' /\ Exists(h)' /\ file'[g].at = file'[h].at => g = h
  BY <1>5 DEF StreamHeld, StreamTypes
<1>14. disk' \in [Contents -> Lengths \cup {Absent}] /\ \A c \in Contents : disk'[c] = disk[c]
  BY <1>1 DEF StreamHeld, StreamTypes
<1> QED BY <1>5, <1>7, <1>8, <1>9, <1>10, <1>11, <1>12, <1>13, <1>14, FollowingStep

\* The row a path has.
LEMMA AtPath ==
    ASSUME StreamHeld, NEW p \in Paths, NEW f \in At(p)
    PROVE  f \in Files /\ Exists(f) /\ file[f].at = p
<1> QED BY RowExists DEF At, StreamHeld

\* handleDelete: the content goes only with its last row.
LEMMA handleDeleteStep ==
    ASSUME StreamHeld, NEW r \in Requests, NEW p \in Paths, handleDelete(r, p) PROVE StreamHeld'
<1> DEFINE q == [req EXCEPT ![r].pc = "ended"]
           e == [req[r] EXCEPT !.pc = "ended"]
<1>0. req[r].pc = "idle" /\ stale' = stale
  BY DEF handleDelete
<1>1. PICK f \in At(p) :
        /\ file' = [file EXCEPT ![f] = NoFile] /\ used' = used - file[f].size
        /\ Unlink(IF DeletesContent(f) THEN {file[f].src} ELSE {}, q)
  BY DEF handleDelete
<1> DEFINE S == IF DeletesContent(f) THEN {file[f].src} ELSE {}
<1>2. f \in Files /\ Exists(f)
  BY <1>1, AtPath
<1>3. Follows(r, e)
  BY HandlerFollows DEF PcOf
<1>4. \A x \in Requests : q[x] = IF x = r THEN e ELSE req[x]
  BY DEF StreamHeld, StreamTypes
<1>5. Unlink(S, q)
  BY <1>1
<1> HIDE DEF e, q
<1>6. \A x \in Requests : Follows(x, q[x])
  BY <1>3, <1>4, SameFollows
<1>7. \A g \in Files : file'[g] = IF g = f THEN NoFile ELSE file[g]
  BY <1>1 DEF StreamHeld, StreamTypes
<1>8. \A g \in Files : Exists(g)' => Exists(g) /\ g # f /\ file'[g] = file[g]
  BY <1>7 DEF Exists
<1>9. \A g \in Files : Exists(g)' => file[g].src \notin S
  <2> SUFFICES ASSUME NEW g \in Files, Exists(g)', DeletesContent(f), file[g].src = file[f].src
               PROVE  FALSE
    OBVIOUS
  <2> QED BY <1>8 DEF DeletesContent, Sharing
<1>10. file' \in [Files -> StreamRows]
  BY <1>1 DEF StreamHeld, StreamTypes, StreamRows
<1>11. file[f].size \in Nat /\ file'[f].size = 0
  <2>1. file[f].size \in Nat
    BY <1>2, RowSize DEF StreamHeld, StreamTypes
  <2>2. file'[f].size = 0
    <3>1. NoFile.size = 0
      BY DEF NoFile
    <3> QED BY <1>2, <1>7, <3>1
  <2> QED BY <2>1, <2>2
<1>12. used' \in Int /\ used' = used + (file'[f].size - file[f].size)
  BY <1>1, <1>11 DEF StreamHeld, StreamTypes
<1>13. StorageFollowsRows'
  BY <1>0, <1>2, <1>7, <1>10, <1>12, AccountStep
<1>14. stale' \in BOOLEAN
  BY <1>0 DEF StreamHeld, StreamTypes
<1>15. \A g, h \in Files : Exists(g)' /\ Exists(h)' /\ file'[g].at = file'[h].at => g = h
  BY <1>8 DEF StreamHeld, StreamTypes
<1> HIDE DEF S
<1> QED BY <1>5, <1>6, <1>8, <1>9, <1>10, <1>12, <1>13, <1>14, <1>15, UnlinkStep

\* Moving one row to a free path.
LEMMA RowMoved ==
    ASSUME StreamHeld, NEW f \in Files, Exists(f), NEW p \in Paths, At(p) = {},
           file' = [file EXCEPT ![f].at = p], UNCHANGED <<used, stale>>
    PROVE  /\ file' \in [Files -> StreamRows] /\ used' \in Int /\ stale' \in BOOLEAN
           /\ \A g, h \in Files : Exists(g)' /\ Exists(h)' /\ file'[g].at = file'[h].at => g = h
           /\ \A g \in Files : Exists(g)' => Exists(g) /\ file'[g].src = file[g].src
           /\ StorageFollowsRows'
<1>0. file \in [Files -> StreamRows] /\ file[f] \in [at : Paths, src : Contents, size : Lengths]
  BY RowExists DEF StreamHeld, StreamTypes
<1>1. \A g \in Files \ {f} : file'[g] = file[g]
  BY <1>0
<1>2. file'[f] = [file[f] EXCEPT !.at = p]
  BY <1>0
<1>3. /\ file'[f] \in [at : Paths, src : Contents, size : Lengths]
      /\ file'[f].at = p /\ file'[f].src = file[f].src /\ file'[f].size = file[f].size
  BY <1>0, <1>2
<1>4. file'[f] \in StreamRows
  BY <1>3 DEF StreamRows
<1>5. file' \in [Files -> StreamRows]
  <2>1. \A g \in Files : file'[g] \in StreamRows
    BY <1>0, <1>1, <1>4
  <2>2. file' = [g \in Files |-> file'[g]]
    BY <1>0
  <2> QED BY <2>1, <2>2
<1>6. \A g \in Files : Exists(g)' => Exists(g) /\ file'[g].src = file[g].src
  BY <1>1, <1>3 DEF Exists
<1>7. \A g \in Files : file[g].at # p
  BY DEF At
<1>8. \A g, h \in Files : Exists(g)' /\ Exists(h)' /\ file'[g].at = file'[h].at => g = h
  BY <1>1, <1>3, <1>6, <1>7 DEF StreamHeld, StreamTypes
<1>9. file[f].size \in Nat /\ used \in Int
  BY <1>0, RowSize DEF StreamHeld, StreamTypes
<1>10. StorageFollowsRows'
  BY <1>1, <1>3, <1>5, <1>9, AccountStep
<1> QED BY <1>5, <1>6, <1>8, <1>10 DEF StreamHeld, StreamTypes

\* Relocating a row, whatever the outcome.
LEMMA RelocateStep ==
    ASSUME StreamHeld, NEW r \in Requests, NEW f \in Files, NEW p \in Paths,
           NEW a \in {"rename", "ended"}, req[r].pc \in {"move", "rename"}, Relocate(r, f, p, a),
           UNCHANGED <<disk, used, stale>>
    PROVE  StreamHeld'
<1>1. PICK b \in {"rename", "ended"} : Becomes(r, [req[r] EXCEPT !.pc = b])
  BY DEF Relocate, Ends
<1> DEFINE e == [req[r] EXCEPT !.pc = b]
<1>2. Follows(r, Rest(e))
  BY <1>1, HandlerFollows DEF PcOf
<1>3. req' = [req EXCEPT ![r] = Rest(e)]
  BY <1>1 DEF Becomes
<1> HIDE DEF e
<1>4. CASE file' = file
  BY <1>2, <1>3, <1>4, RequestStep DEF StreamHeld, StreamTypes
<1>5. CASE At(p) = {} /\ Exists(f) /\ file' = [file EXCEPT ![f].at = p]
  <2> DEFINE s == [x \in Requests |-> IF x = r THEN Rest(e) ELSE req[x]]
  <2>1. req' = [x \in Requests |-> s[x]]
    BY <1>3 DEF StreamHeld, StreamTypes
  <2>2. \A x \in Requests : Follows(x, s[x])
    BY <1>2, SameFollows
  <2> HIDE DEF s
  <2>3. /\ disk' \in [Contents -> Lengths \cup {Absent}]
        /\ \A c \in Contents : disk'[c] = disk[c]
    BY DEF StreamHeld, StreamTypes
  <2> QED BY <1>5, <2>1, <2>2, <2>3, RowMoved, FollowingStep
<1> QED BY <1>4, <1>5 DEF Relocate

\* moveFiles: a row moves to a free path.
LEMMA moveFilesStep == ASSUME StreamHeld, NEW r \in Requests, moveFiles(r) PROVE StreamHeld'
<1>1. UNCHANGED <<disk, used, stale>>
  BY DEF moveFiles
<1>2. PICK f \in req[r].id :
        \/ /\ req[r].pc = "move" /\ req[r].at[1] # req[r].to[1]
           /\ Relocate(r, f, <<req[r].to[1], req[r].at[2]>>, "rename")
        \/ /\ req[r].pc = "move" /\ req[r].at[1] = req[r].to[1]
           /\ req' = [req EXCEPT ![r].pc = "rename"] /\ UNCHANGED file
        \/ /\ req[r].pc = "rename" /\ req[r].at[2] # req[r].to[2]
           /\ IF Exists(f) THEN Relocate(r, f, <<file[f].at[1], req[r].to[2]>>, "ended")
              ELSE Ends(r) /\ UNCHANGED file
        \/ req[r].pc = "rename" /\ req[r].at[2] = req[r].to[2] /\ Ends(r) /\ UNCHANGED file
  BY DEF moveFiles
<1>3. f \in Files /\ req[r].pc \in {"move", "rename"}
  BY <1>2 DEF StreamHeld, StreamTypes, StreamReqs
<1>4. req[r].at \in Paths /\ req[r].to \in Paths
  BY <1>3 DEF StreamHeld, StreamReqOK
<1>5. req[r].at[2] \in Names /\ req[r].to[1] \in Folders /\ req[r].to[2] \in Names
  BY <1>4 DEF Paths
<1>6. CASE Relocate(r, f, <<req[r].to[1], req[r].at[2]>>, "rename")
  <2>1. <<req[r].to[1], req[r].at[2]>> \in Paths
    BY <1>5 DEF Paths
  <2> QED BY <1>1, <1>3, <1>6, <2>1, RelocateStep
<1>7. CASE Exists(f) /\ Relocate(r, f, <<file[f].at[1], req[r].to[2]>>, "ended")
  <2>1. file[f].at \in Paths
    BY <1>3, <1>7, RowExists DEF StreamHeld
  <2>2. <<file[f].at[1], req[r].to[2]>> \in Paths
    BY <1>5, <2>1 DEF Paths
  <2> QED BY <1>1, <1>3, <1>7, <2>2, RelocateStep
<1>8. CASE req' = [req EXCEPT ![r].pc = "rename"] /\ UNCHANGED file
  <2> DEFINE e == [req[r] EXCEPT !.pc = "rename"]
  <2>1. Follows(r, e)
    BY <1>3, HandlerFollows DEF PcOf
  <2>2. req' = [req EXCEPT ![r] = e]
    BY <1>8 DEF StreamHeld, StreamTypes
  <2> HIDE DEF e
  <2> QED BY <1>1, <1>8, <2>1, <2>2, RequestStep DEF StreamHeld, StreamTypes
<1>9. CASE Ends(r) /\ UNCHANGED file
  <2> DEFINE e == [req[r] EXCEPT !.pc = "ended"]
  <2>1. Follows(r, Rest(e))
    BY HandlerFollows DEF PcOf
  <2>2. req' = [req EXCEPT ![r] = Rest(e)]
    BY <1>9 DEF Ends, Becomes
  <2> HIDE DEF e
  <2> QED BY <1>1, <1>9, <2>1, <2>2, RequestStep DEF StreamHeld, StreamTypes
<1> QED BY <1>2, <1>6, <1>7, <1>8, <1>9

\* A request that starts with no source, a new one, or that of its row.
LEMMA StartStep ==
    ASSUME StreamHeld, NEW r \in Requests, NEW q \in StreamReqs, StreamReqOK(r, q),
           q.watch = "none", Starts(r, q),
           q.src \in {"", r} \/ \E f \in Files : Exists(f) /\ q.src = file[f].src,
           \A g \in Files : Exists(g) /\ file[g].src = q.src => q.src = r \/ g \in q.id
    PROVE  StreamHeld'
<1>1. req[r].pc = "idle" /\ req[r].watch = "none" /\ UNCHANGED <<file, disk, used, stale>>
  BY DEF Starts, StreamHeld, StreamReqOK
<1>2. req' \in [Requests -> StreamReqs]
      /\ \A x \in Requests : req'[x] = IF x = r THEN q ELSE req[x]
  BY DEF Starts, StreamHeld, StreamTypes
<1>3. StreamTypes'
  BY <1>1, <1>2 DEF StreamHeld, StreamTypes, Exists
<1>4. StorageFollowsRows'
  BY <1>1, RowsSame
<1>5. \A f \in Files : (Exists(f)' <=> Exists(f)) /\ file'[f] = file[f]
  BY <1>1, RowsSame
<1>6. \A f \in Files : Exists(f) => file[f].src # "" /\ file[f].src # r
  BY <1>1, RowExists, NoSourceIsNoKey DEF StreamHeld, SourcesHeld, Pointed, Contents
<1>7. ASSUME NEW x \in Requests, NEW f \in Files, Exists(f), file[f].src = x
      PROVE  Pointed(req'[x])
  BY <1>2, <1>6, <1>7 DEF StreamHeld, SourcesHeld
<1>8. ASSUME NEW x \in Requests, NEW y \in Requests, y # x, req'[y].src = x
      PROVE  Pointed(req'[x])
  <2>0. x # ""
    BY NoSourceIsNoKey
  <2>1. CASE y = r
    <3>1. q.src = x /\ x # r
      BY <1>2, <1>8, <2>1
    <3>2. PICK f \in Files : Exists(f) /\ file[f].src = x
      BY <2>0, <3>1
    <3> QED BY <1>7, <3>2
  <2>2. CASE y # r
    <3>1. Pointed(req[x])
      BY <1>2, <1>8, <2>2 DEF StreamHeld, SourcesHeld
    <3> QED BY <1>1, <1>2, <3>1 DEF Pointed
  <2> QED BY <2>1, <2>2
<1>9. ASSUME NEW x \in Requests, NEW f \in Files, Exists(f), file[f].src = req'[x].src
      PROVE  f \in req'[x].id \cup req'[x].late
  BY <1>2, <1>6, <1>9 DEF StreamHeld, SourcesHeld
<1>10. ASSUME NEW f \in Files, Exists(f), disk[file[f].src] = Absent
       PROVE  \E x \in Requests : req'[x].watch = "clean" /\ req'[x].src = file[f].src
  <2>1. PICK x \in Requests : req[x].watch = "clean" /\ req[x].src = file[f].src
    BY <1>10 DEF StreamHeld, SourcesHeld
  <2> QED BY <1>1, <1>2, <2>1
<1>11. SourcesHeld'
  BY <1>1, <1>5, <1>7, <1>8, <1>9, <1>10 DEF SourcesHeld
<1>12. \A x \in Requests : StreamReqOK(x, req'[x])
  BY <1>2 DEF StreamHeld
<1> QED BY <1>3, <1>4, <1>11, <1>12 DEF StreamHeld, StreamReqOK

\* A record with a new source.
LEMMA NewSourceReq ==
    ASSUME NEW v \in StreamReqs, NEW k \in {"put", "content", "create", "stream"},
           NEW s \in Contents, NEW d, d = [v EXCEPT !.pc = "before", !.kind = k, !.src = s]
    PROVE  d \in StreamReqs
<1> QED BY DEF StreamReqs

\* The record of an upload of a new file.
LEMMA NewFileReq ==
    ASSUME StreamHeld, NEW r \in Requests, NEW k \in {"put", "content", "create", "stream"},
           NEW n \in Lengths, NEW e, e = NewFile(r, k, n)
    PROVE  /\ e \in StreamReqs /\ e.pc = "before" /\ e.watch = "none" /\ e.src = r /\ e.id = {}
<1>1. PICK m \in Int : m = used
  BY DEF StreamHeld, StreamTypes
<1>2. e = [NoReq EXCEPT !.pc = "before", !.kind = k, !.size = n, !.seen = m, !.src = r]
  BY <1>1 DEF NewFile
<1>3. r \in Contents
  BY DEF Contents
<1>4. e \in StreamReqs
  <2>1. PICK v \in StreamReqs : v = NoReq
    BY NoReqType
  <2> DEFINE d == [v EXCEPT !.pc = "before", !.kind = k, !.src = r]
  <2>2. d \in StreamReqs
    BY <1>3, NewSourceReq
  <2>3. e = [d EXCEPT !.size = n, !.seen = m]
    BY <1>2, <2>1 DEF StreamReqs
  <2> HIDE DEF d
  <2> QED BY <1>1, <2>2, <2>3 DEF StreamReqs
<1>5. e.pc = "before" /\ e.watch = "none" /\ e.src = r /\ e.id = {}
  BY <1>2 DEF NoReq
<1> QED BY <1>4, <1>5

\* An upload of a new file starts with a source no row has.
LEMMA NewFileStep ==
    ASSUME StreamHeld, NEW r \in Requests, NEW k \in {"put", "content", "create", "stream"},
           NEW n \in Lengths, Starts(r, NewFile(r, k, n))
    PROVE  StreamHeld'
<1>1. PICK e : e = NewFile(r, k, n)
  OBVIOUS
<1>2. e \in StreamReqs /\ e.pc = "before" /\ e.watch = "none" /\ e.src = r /\ e.id = {}
  BY <1>1, NewFileReq
<1>3. StreamReqOK(r, e)
  BY <1>2, NoSourceIsNoKey DEF StreamReqOK
<1> QED BY <1>1, <1>2, <1>3, StartStep

\* An update starts with the source of its row only if no other row has it.
LEMMA UpdateOfStep ==
    ASSUME StreamHeld, NEW r \in Requests, NEW k \in {"put", "content", "create", "stream"},
           NEW f \in Files, Exists(f), NEW n \in Lengths, Starts(r, UpdateOf(r, k, f, n))
    PROVE  StreamHeld'
<1>1. PICK d : d = NewFile(r, k, n)
  OBVIOUS
<1>2. d \in StreamReqs /\ d.pc = "before" /\ d.watch = "none" /\ d.src = r /\ d.id = {}
  BY <1>1, NewFileReq
<1>3. PICK b \in BOOLEAN : b = HasSoftLink(f)
  BY DEF HasSoftLink
<1>4. PICK s : s = IF b THEN r ELSE file[f].src
  OBVIOUS
<1>5. PICK e : e = [d EXCEPT !.id = {f}, !.snap = file[f], !.linked = b, !.src = s]
  OBVIOUS
<1>6. Starts(r, e)
  BY <1>1, <1>3, <1>4, <1>5 DEF UpdateOf
<1>7. s \in Contents /\ s # "" /\ (b => s = r) /\ file[f] \in StreamRows
  BY <1>4, RowExists, NoSourceIsNoKey DEF StreamHeld, StreamTypes, Contents
<1>8. e \in StreamReqs
  BY <1>2, <1>3, <1>5, <1>7 DEF StreamReqs
<1>9. e.pc = "before" /\ e.watch = "none" /\ e.src = s /\ e.id = {f}
  BY <1>2, <1>5 DEF StreamReqs
<1>10. e.linked = b
  BY <1>2, <1>5 DEF StreamReqs
<1>11. StreamReqOK(r, e)
  BY <1>7, <1>9, <1>10 DEF StreamReqOK
<1>12. \A g \in Files : Exists(g) /\ file[g].src = s => s = r \/ g = f
  BY <1>3, <1>4 DEF HasSoftLink, Sharing
<1>13. e.src \in {"", r} \/ \E g \in Files : Exists(g) /\ e.src = file[g].src
  BY <1>4, <1>9
<1>14. \A g \in Files : Exists(g) /\ file[g].src = e.src => e.src = r \/ g \in e.id
  BY <1>9, <1>12
<1> QED BY <1>6, <1>8, <1>9, <1>11, <1>13, <1>14, StartStep

\* handlePut: a new file or an update.
LEMMA handlePutStep ==
    ASSUME StreamHeld, NEW r \in Requests, NEW p \in Paths, NEW n \in Lengths, handlePut(r, p, n)
    PROVE  StreamHeld'
<1>1. CASE At(p) = {}
  BY <1>1, NewFileStep DEF handlePut
<1>2. CASE At(p) # {}
  <2>1. PICK f : f = CHOOSE h \in At(p) : TRUE
    OBVIOUS
  <2>2. f \in At(p)
    BY <1>2, <2>1
  <2>3. f \in Files /\ Exists(f)
    BY <2>2, AtPath
  <2>4. Starts(r, UpdateOf(r, "put", f, n))
    BY <1>2, <2>1 DEF handlePut
  <2> QED BY <2>3, <2>4, UpdateOfStep
<1> QED BY <1>1, <1>2

\* handleMove: the request remembers the row.
LEMMA handleMoveStep ==
    ASSUME StreamHeld, NEW r \in Requests, NEW p \in Paths, NEW q \in Paths, handleMove(r, p, q)
    PROVE  StreamHeld'
<1>1. PICK i : i = At(p)
  OBVIOUS
<1>2. PICK e : e = [NoReq EXCEPT !.pc = "move", !.kind = "move", !.at = p, !.to = q, !.id = i]
  OBVIOUS
<1>3. Starts(r, e)
  BY <1>1, <1>2 DEF handleMove
<1>4. i \in SUBSET Files
  BY <1>1 DEF At
<1>5. e \in StreamReqs
  BY <1>2, <1>4, NoReqType DEF StreamReqs, PathOrNone
<1>6. e.pc = "move" /\ e.watch = "none" /\ e.src = "" /\ e.at = p /\ e.to = q
  BY <1>2 DEF NoReq
<1>7. StreamReqOK(r, e)
  BY <1>6 DEF StreamReqOK
<1>8. \A g \in Files : Exists(g) => file[g].src # ""
  BY RowExists, NoSourceIsNoKey DEF StreamHeld, Contents
<1>9. e.src \in {"", r} /\ \A g \in Files : ~(Exists(g) /\ file[g].src = e.src)
  BY <1>6, <1>8
<1> QED BY <1>3, <1>5, <1>6, <1>7, <1>9, StartStep

\* copyFiles: the new row shares the content, and every request that writes the
\* content gets to know of it.
LEMMA copyFilesStep ==
    ASSUME StreamHeld, NEW r \in Requests, NEW p \in Paths, NEW d \in Folders, copyFiles(r, p, d)
    PROVE  StreamHeld'
<1>0. /\ req[r].pc = "idle" /\ At(<<d, p[2]>>) = {} /\ UNCHANGED <<disk, stale>>
      /\ req[r].src = "" /\ req[r].watch = "none"
  BY DEF copyFiles, StreamHeld, StreamReqOK
<1>1. PICK f \in At(p), g \in Files :
        /\ ~Exists(g)
        /\ file' = [file EXCEPT ![g] = [file[f] EXCEPT !.at = <<d, p[2]>>]]
        /\ used' = used + file[f].size
        /\ req' = [x \in Requests |->
                    IF x = r THEN [req[r] EXCEPT !.pc = "ended"]
                    ELSE IF req[x].src = file[f].src THEN [req[x] EXCEPT !.late = @ \cup {g}]
                    ELSE req[x]]
  BY DEF copyFiles
<1>2. f \in Files /\ Exists(f) /\ g # f
  BY <1>1, AtPath
<1>3. PICK t \in Paths : t = <<d, p[2]>>
  BY DEF Paths
<1>4. file[f] \in [at : Paths, src : Contents, size : Lengths] /\ file[f].src # ""
  BY <1>2, RowExists, NoSourceIsNoKey DEF StreamHeld, Contents
<1>5. PICK c : c = [file[f] EXCEPT !.at = t]
  OBVIOUS
<1>6. /\ c \in [at : Paths, src : Contents, size : Lengths] /\ c \in StreamRows
      /\ c.at = t /\ c.src = file[f].src /\ c.size = file[f].size
  BY <1>3, <1>4, <1>5 DEF StreamRows
<1>7. /\ file' \in [Files -> StreamRows]
      /\ \A x \in Files : file'[x] = IF x = g THEN c ELSE file[x]
  BY <1>1, <1>3, <1>5, <1>6 DEF StreamHeld, StreamTypes
<1>8. \A x \in Files : file[x].at # t
  BY <1>0, <1>3 DEF At
<1>9. \A x \in Files : Exists(x)' => x = g \/ Exists(x)
  BY <1>7 DEF Exists
<1>10. \A x, y \in Files : Exists(x)' /\ Exists(y)' /\ file'[x].at = file'[y].at => x = y
  BY <1>6, <1>7, <1>8, <1>9 DEF StreamHeld, StreamTypes
<1>11. used' \in Int /\ used' = used + (file'[g].size - file[g].size)
  <2>1. file[g].size = 0 /\ used \in Int /\ file[f].size \in Int
    BY <1>1, <1>2, RowExists, RowSize DEF StreamHeld, StreamTypes
  <2> QED BY <1>1, <1>6, <1>7, <2>1
<1>12. StorageFollowsRows'
  BY <1>0, <1>7, <1>11, AccountStep
<1>13. ASSUME NEW x \in Requests
       PROVE  /\ req'[x] \in StreamReqs /\ StreamReqOK(x, req'[x])
              /\ req'[x].src = req[x].src /\ req'[x].watch = req[x].watch
              /\ req'[x].id = req[x].id /\ req[x].late \subseteq req'[x].late
              /\ req[x].src = file[f].src => g \in req'[x].late
  <2>0. req[x] \in StreamReqs /\ StreamReqOK(x, req[x])
    BY DEF StreamHeld, StreamTypes
  <2>1. CASE x = r
    <3> DEFINE e == [req[r] EXCEPT !.pc = "ended"]
    <3>1. e \in StreamReqs
      BY <2>0, <2>1 DEF StreamReqs
    <3>2. e.pc = "ended" /\ e.watch = req[r].watch
      BY <2>0, <2>1 DEF StreamReqs
    <3>3. SameUpload(e, req[r])
      BY <2>0, <2>1 DEF StreamReqs, SameUpload
    <3>4. req'[x] = e
      BY <1>1, <2>1
    <3> HIDE DEF e
    <3>5. StreamReqOK(x, e)
      BY <2>0, <2>1, <3>2, <3>3 DEF StreamReqOK, SameUpload
    <3> QED BY <1>0, <1>4, <2>1, <3>1, <3>2, <3>3, <3>4, <3>5 DEF SameUpload
  <2>2. CASE x # r /\ req[x].src = file[f].src
    <3> DEFINE e == [req[x] EXCEPT !.late = @ \cup {g}]
    <3>1. e \in StreamReqs
      BY <2>0 DEF StreamReqs
    <3>2. e.pc = req[x].pc /\ e.watch = req[x].watch /\ e.late = req[x].late \cup {g}
      BY <2>0 DEF StreamReqs
    <3>3. e.id = req[x].id /\ e.src = req[x].src /\ e.at = req[x].at /\ e.to = req[x].to
      BY <2>0 DEF StreamReqs
    <3>4. e.linked = req[x].linked
      BY <2>0 DEF StreamReqs
    <3>5. req'[x] = e
      BY <1>1, <2>2
    <3> HIDE DEF e
    <3>6. StreamReqOK(x, e)
      BY <2>0, <3>2, <3>3, <3>4 DEF StreamReqOK
    <3> QED BY <3>1, <3>2, <3>3, <3>5, <3>6
  <2>3. CASE x # r /\ req[x].src # file[f].src
    BY <1>1, <2>0, <2>3
  <2> QED BY <2>1, <2>2, <2>3
<1>14. req' \in [Requests -> StreamReqs]
  BY <1>1, <1>13
<1>15. StreamTypes'
  BY <1>0, <1>7, <1>10, <1>11, <1>14 DEF StreamHeld, StreamTypes, Exists
<1>16. ASSUME NEW x \in Files, Exists(x)'
       PROVE  \E y \in Files : /\ Exists(y) /\ file'[x].src = file[y].src
                               /\ x = y \/ (x = g /\ y = f)
  <2>1. CASE x = g
    BY <1>2, <1>6, <1>7, <2>1
  <2>2. CASE x # g
    BY <1>7, <1>9, <1>16, <2>2
  <2> QED BY <2>1, <2>2
<1>17. ASSUME NEW x \in Requests, NEW y \in Files, Exists(y)', file'[y].src = x
       PROVE  Pointed(req'[x])
  BY <1>13, <1>16, <1>17 DEF StreamHeld, SourcesHeld, Pointed
<1>18. ASSUME NEW x \in Requests, NEW y \in Requests, y # x, req'[y].src = x
       PROVE  Pointed(req'[x])
  BY <1>13, <1>18 DEF StreamHeld, SourcesHeld, Pointed
<1>19. ASSUME NEW x \in Requests, NEW y \in Files, Exists(y)', file'[y].src = req'[x].src
       PROVE  y \in req'[x].id \cup req'[x].late
  <2>1. PICK z \in Files : /\ Exists(z) /\ file'[y].src = file[z].src
                           /\ y = z \/ (y = g /\ z = f)
    BY <1>16, <1>19
  <2>2. CASE y = z
    BY <1>13, <1>19, <2>1, <2>2 DEF StreamHeld, SourcesHeld
  <2>3. CASE y = g /\ z = f
    BY <1>13, <1>19, <2>1, <2>3
  <2> QED BY <2>1, <2>2, <2>3
<1>20. ASSUME NEW y \in Files, Exists(y)', disk'[file'[y].src] = Absent
       PROVE  \E x \in Requests : req'[x].watch = "clean" /\ req'[x].src = file'[y].src
  <2>1. PICK z \in Files : Exists(z) /\ file'[y].src = file[z].src
    BY <1>16, <1>20
  <2>2. PICK x \in Requests : req[x].watch = "clean" /\ req[x].src = file[z].src
    BY <1>0, <1>20, <2>1 DEF StreamHeld, SourcesHeld
  <2> QED BY <1>13, <2>1, <2>2
<1>21. SourcesHeld'
  BY <1>17, <1>18, <1>19, <1>20 DEF SourcesHeld, Exists
<1> QED BY <1>12, <1>13, <1>15, <1>21 DEF StreamHeld, StreamReqOK

\* HookUpdateSourceName: only the row of the request gets its new source.
LEMMA HookUpdateSourceNameStep ==
    ASSUME StreamHeld, NEW r \in Requests, HookUpdateSourceName(r) PROVE StreamHeld'
<1>0. /\ req[r].watch = "source" /\ req[r].linked /\ req[r].src = r /\ req[r].id # {}
      /\ req[r] \in StreamReqs /\ StreamReqOK(r, req[r]) /\ UNCHANGED <<disk, used, stale>>
  BY DEF HookUpdateSourceName, StreamHeld, StreamTypes, StreamReqOK
<1> DEFINE e == [req[r] EXCEPT !.watch = "clean"]
<1>1. e \in StreamReqs /\ e.pc = req[r].pc /\ e.watch = "clean" /\ SameUpload(e, req[r])
  BY <1>0, WatchReq DEF WatchOf
<1>2. req' = [req EXCEPT ![r] = Rest(e)]
  BY <1>0 DEF HookUpdateSourceName, Watch, StreamHeld, StreamTypes
<1> HIDE DEF e
<1>3. Rest(e) = e
  BY <1>1 DEF Rest
<1>4. StreamReqOK(r, e)
  BY <1>0, <1>1 DEF StreamReqOK, SameUpload
<1>5. /\ req' \in [Requests -> StreamReqs]
      /\ \A x \in Requests : req'[x] = IF x = r THEN e ELSE req[x]
  BY <1>1, <1>2, <1>3 DEF StreamHeld, StreamTypes
<1>6. ASSUME NEW f \in Files
      PROVE  /\ file'[f] \in StreamRows /\ file'[f].at = file[f].at /\ file'[f].size = file[f].size
             /\ Exists(f)' => Exists(f)
             /\ file'[f] = file[f] \/ (f \in req[r].id /\ file'[f].src = r)
  <2>1. CASE f \in req[r].id /\ Exists(f)
    <3>1. file'[f] = [file[f] EXCEPT !.src = r]
      BY <1>0, <2>1 DEF HookUpdateSourceName
    <3>2. file[f] \in [at : Paths, src : Contents, size : Lengths] /\ r \in Contents
      BY <2>1, RowExists DEF StreamHeld, Contents
    <3> QED BY <2>1, <3>1, <3>2 DEF StreamRows
  <2>2. CASE ~(f \in req[r].id /\ Exists(f))
    <3>1. file'[f] = file[f]
      BY <2>2 DEF HookUpdateSourceName
    <3> QED BY <3>1 DEF StreamHeld, StreamTypes, Exists
  <2> QED BY <2>1, <2>2
<1>7. file' \in [Files -> StreamRows]
  BY <1>6 DEF HookUpdateSourceName
<1>8. \A f, g \in Files : Exists(f)' /\ Exists(g)' /\ file'[f].at = file'[g].at => f = g
  BY <1>6 DEF StreamHeld, StreamTypes
<1>9. StreamTypes'
  BY <1>0, <1>5, <1>7, <1>8 DEF StreamHeld, StreamTypes, Exists
<1>10. StorageFollowsRows'
  <2>1. [f \in Files |-> file'[f].size] = [f \in Files |-> file[f].size]
    BY <1>6
  <2> QED BY <1>0, <2>1 DEF StorageFollowsRows, StreamHeld
<1>11. ~Pointed(req[r])
  BY <1>0 DEF Pointed
<1>12. Pointed(req'[r]) /\ req'[r].watch = "clean" /\ req'[r].src = r /\ req'[r].id = req[r].id
       /\ req'[r].late = req[r].late
  BY <1>0, <1>1, <1>5 DEF Pointed, SameUpload
<1>13. ASSUME NEW x \in Requests, NEW f \in Files, Exists(f)', file'[f].src = x
       PROVE  Pointed(req'[x])
  <2>1. CASE x = r
    BY <1>12, <2>1
  <2>2. CASE x # r
    BY <1>5, <1>6, <1>13, <2>2 DEF StreamHeld, SourcesHeld
  <2> QED BY <2>1, <2>2
<1>14. ASSUME NEW x \in Requests, NEW y \in Requests, y # x, req'[y].src = x
       PROVE  Pointed(req'[x])
  <2>1. CASE x = r
    BY <1>12, <2>1
  <2>2. CASE x # r
    BY <1>0, <1>5, <1>12, <1>14, <2>2 DEF StreamHeld, SourcesHeld
  <2> QED BY <2>1, <2>2
<1>15. ASSUME NEW x \in Requests, NEW f \in Files, Exists(f)', file'[f].src = req'[x].src
       PROVE  f \in req'[x].id \cup req'[x].late
  <2>0. req'[x].src = req[x].src /\ req'[x].id = req[x].id /\ req'[x].late = req[x].late
    BY <1>0, <1>5, <1>12
  <2>1. CASE file'[f] = file[f]
    BY <1>6, <1>15, <2>0, <2>1 DEF StreamHeld, SourcesHeld
  <2>2. CASE f \in req[r].id /\ file'[f].src = r
    <3>1. x = r
      BY <1>11, <1>15, <2>0, <2>2 DEF StreamHeld, SourcesHeld
    <3> QED BY <2>0, <2>2, <3>1
  <2> QED BY <1>6, <2>1, <2>2
<1>16. ASSUME NEW f \in Files, Exists(f)', disk'[file'[f].src] = Absent
       PROVE  \E x \in Requests : req'[x].watch = "clean" /\ req'[x].src = file'[f].src
  <2>1. CASE file'[f] = file[f]
    <3>1. PICK x \in Requests : req[x].watch = "clean" /\ req[x].src = file[f].src
      BY <1>0, <1>6, <1>16, <2>1 DEF StreamHeld, SourcesHeld
    <3> QED BY <1>0, <1>5, <2>1, <3>1
  <2>2. CASE file'[f].src = r
    BY <1>12, <2>2
  <2> QED BY <1>6, <2>1, <2>2
<1>17. SourcesHeld'
  BY <1>13, <1>14, <1>15, <1>16 DEF SourcesHeld, Exists
<1>18. \A x \in Requests : StreamReqOK(x, req'[x])
  BY <1>4, <1>5 DEF StreamHeld
<1> QED BY <1>9, <1>10, <1>17, <1>18 DEF StreamHeld, StreamReqOK

\* The sizes of one file, or of a file and its copy.
LEMMA FirstSizes ==
    ASSUME NEW n \in Nat, NEW f \in Files, NEW g \in Files, f # g, NEW copies \in BOOLEAN,
           NEW s, \A x \in Files : s[x] = IF x = f \/ (x = g /\ copies) THEN n ELSE 0
    PROVE  Sum(s, Files) = IF copies THEN 2 * n ELSE n
<1> DEFINE z == [x \in Files |-> 0]
           o == [x \in Files |-> IF x = f THEN n ELSE 0]
<1>1. Sum(z, Files) = 0
  BY SumZero
<1>2. /\ \A x \in Files : z[x] \in Nat /\ o[x] \in Nat /\ s[x] \in Nat
      /\ \A x \in Files \ {f} : z[x] = o[x]
      /\ \A x \in Files \ {g} : o[x] = s[x]
      /\ z[f] = 0 /\ o[f] = n /\ o[g] = 0 /\ s[g] = (IF copies THEN n ELSE 0)
  OBVIOUS
<1> HIDE DEF z, o
<1>3. Sum(o, Files) = n
  <2>1. Sum(o, Files) = Sum(z, Files) + (o[f] - z[f])
    BY <1>2, SumUpdate, StreamAssumption
  <2> QED BY <1>1, <1>2, <2>1
<1>4. Sum(s, Files) = Sum(o, Files) + (s[g] - o[g])
  <2>1. PICK y \in Files : y = g
    OBVIOUS
  <2>2. /\ \A x \in Files : o[x] \in Nat /\ s[x] \in Nat
        /\ \A x \in Files \ {y} : o[x] = s[x]
    BY <1>2, <2>1
  <2>3. Sum(s, Files) = Sum(o, Files) + (s[y] - o[y])
    BY <2>2, SumUpdate, StreamAssumption
  <2> QED BY <2>1, <2>3
<1> QED BY <1>2, <1>3, <1>4

\* The first states: one file, or a file and its copy.
LEMMA StreamStarts == StreamInit => StreamHeld
<1> SUFFICES ASSUME StreamInit PROVE StreamHeld
  OBVIOUS
<1> DEFINE n == MaxLength
           f == CHOOSE x \in Files : TRUE
           g == CHOOSE x \in Files : x # f
           p == CHOOSE x \in Paths : TRUE
           q == CHOOSE x \in Paths : x # p
<1>1. PICK copies \in BOOLEAN :
        /\ file = [x \in Files |->
                CASE x = f -> [at |-> p, src |-> f, size |-> n]
                  [] x = g /\ copies -> [at |-> q, src |-> f, size |-> n]
                  [] OTHER -> NoFile]
        /\ disk = [c \in Contents |-> IF c = f THEN n ELSE Absent]
        /\ used = IF copies THEN 2 * n ELSE n
        /\ req = [r \in Requests |-> NoReq]
        /\ stale = FALSE
  BY DEF StreamInit
<1>2. f \in Files /\ g \in Files /\ f # g
  <2>1. f \in Files
    BY RoomForTwo
  <2>2. \E x \in Files : x # f
    BY RoomForTwo
  <2> HIDE DEF f
  <2> QED BY <2>1, <2>2
<1>3. p \in Paths /\ q \in Paths /\ p # q
  <2>1. \E x, y \in Paths : x # y
    BY RoomForTwo DEF Paths
  <2>2. p \in Paths
    BY <2>1
  <2>3. \E x \in Paths : x # p
    BY <2>1
  <2> HIDE DEF p
  <2> QED BY <2>2, <2>3
<1> HIDE DEF f, g, p, q
<1>4. n \in Nat /\ n \in Lengths /\ n # Absent /\ f \in Contents
  BY <1>2, StreamAssumption DEF Lengths, Absent, Contents
<1>5. /\ file[f] = [at |-> p, src |-> f, size |-> n]
      /\ copies => file[g] = [at |-> q, src |-> f, size |-> n]
      /\ \A x \in Files : x = f \/ (x = g /\ copies) \/ file[x] = NoFile
  BY <1>1, <1>2
<1>6. ASSUME NEW x \in Files
      PROVE  /\ file[x] \in StreamRows
             /\ Exists(x) => x = f \/ x = g
             /\ Exists(x) => file[x].src = f
             /\ x = f => file[x].at = p
             /\ Exists(x) /\ x = g => file[x].at = q
             /\ file[x].size = IF x = f \/ (x = g /\ copies) THEN n ELSE 0
  <2>1. [at |-> p, src |-> f, size |-> n] \in StreamRows
        /\ [at |-> q, src |-> f, size |-> n] \in StreamRows
    BY <1>3, <1>4 DEF StreamRows
  <2>2. NoFile \in StreamRows /\ NoFile.size = 0
    BY DEF StreamRows, NoFile
  <2>3. CASE x = f
    BY <1>2, <1>5, <2>1, <2>3
  <2>4. CASE x = g /\ copies
    BY <1>2, <1>5, <2>1, <2>4
  <2>5. CASE ~(x = f \/ (x = g /\ copies))
    <3>1. file[x] = NoFile
      BY <1>5, <2>5
    <3> QED BY <2>2, <2>5, <3>1 DEF Exists
  <2> QED BY <2>3, <2>4, <2>5
<1>7. file \in [Files -> StreamRows]
  BY <1>1, <1>6
<1>8. disk \in [Contents -> Lengths \cup {Absent}] /\ disk[f] = n
  BY <1>1, <1>4
<1>9. req \in [Requests -> StreamReqs]
  BY <1>1, NoReqType
<1>10. \A r \in Requests : StreamReqOK(r, req[r]) /\ req[r].src = ""
  BY <1>1, NoReqType
<1>11. used \in Int /\ stale \in BOOLEAN
  <2>1. 2 * n \in Int /\ n \in Int
    BY <1>4
  <2>2. used \in Int
    BY <1>1, <2>1
  <2> QED BY <1>1, <2>2
<1>12. StreamTypes
  BY <1>3, <1>6, <1>7, <1>8, <1>9, <1>11 DEF StreamTypes
<1>13. StorageFollowsRows
  <2> DEFINE s == [x \in Files |-> file[x].size]
  <2>1. \A x \in Files : s[x] = IF x = f \/ (x = g /\ copies) THEN n ELSE 0
    BY <1>6
  <2> HIDE DEF s
  <2>2. Sum(s, Files) = IF copies THEN 2 * n ELSE n
    BY <1>1, <1>2, <1>4, <2>1, FirstSizes
  <2> QED BY <1>1, <2>2 DEF StorageFollowsRows, s
<1>14. SourcesHeld
  <2>1. \A r \in Requests : r # f /\ r # "" /\ f # ""
    BY <1>2, StreamAssumption, NoSourceIsNoKey
  <2> QED BY <1>4, <1>6, <1>8, <1>10, <2>1 DEF SourcesHeld
<1> QED BY <1>10, <1>12, <1>13, <1>14 DEF StreamHeld

\* Every step of the handlers, the watchers and the requests beside them.
LEMMA StreamSteps == ASSUME StreamHeld, [StreamNext]_streamVars PROVE StreamHeld'
<1>1. ASSUME NEW r \in Requests, Begin(r) PROVE StreamHeld'
  <2>1. ASSUME Create(r) PROVE StreamHeld'
    <3>1. 0 \in Lengths
      BY StreamAssumption DEF Lengths
    <3> QED BY <2>1, <3>1, NewFileStep DEF Create
  <2>2. ASSUME NEW n \in Lengths, UploadFromStream(r, n) PROVE StreamHeld'
    BY <2>2, NewFileStep DEF UploadFromStream
  <2>3. ASSUME NEW f \in Files, NEW n \in Lengths, PutContent(r, f, n) PROVE StreamHeld'
    BY <2>3, UpdateOfStep DEF PutContent
  <2> QED BY <1>1, <2>1, <2>2, <2>3, handleDeleteStep, handleMoveStep, copyFilesStep,
             handlePutStep DEF Begin
<1>2. ASSUME NEW r \in Requests, HandlerStep(r) PROVE StreamHeld'
  BY <1>2, RefusedStep, UploadStep, PutOpensStep, PutRefusedStep, PutDoneStep, UpdateMD5Step,
     moveFilesStep, PutBreaksStep DEF HandlerStep
<1>3. ASSUME NEW r \in Requests, WatcherStep(r) PROVE StreamHeld'
  BY <1>3, CancelUploadStep, HookDeleteTempFileStep, HookUpdateSourceNameStep,
     HookCleanFileContentStep, HookClearFileSizeStep DEF WatcherStep
<1>4. CASE UNCHANGED streamVars
  <2>1. UNCHANGED <<file, disk, used, req, stale>>
    BY <1>4 DEF streamVars
  <2>2. req' = [x \in Requests |-> req[x]]
    BY <2>1 DEF StreamHeld, StreamTypes
  <2>3. disk' \in [Contents -> Lengths \cup {Absent}]
    BY <2>1 DEF StreamHeld, StreamTypes
  <2> QED BY <2>1, <2>2, <2>3, SameFollows, RowsSame, FollowingStep
<1> QED BY <1>1, <1>2, <1>3, <1>4, ClientGoneStep DEF StreamNext

\* Every reachable state of the uploads keeps what the proofs need.
LEMMA StreamAlways == StreamSpec => []StreamHeld
<1> QED BY StreamStarts, StreamSteps, PTL DEF StreamSpec

\* Whatever breaks off: the types hold, the storage column follows the rows
\* and every row has its content (FileSystem.Upload and its hooks), for any
\* number of files, requests and folders.
THEOREM StreamCorrect == StreamSpec => []StreamInv
<1> QED BY StreamAlways, StreamMeans, PTL

\* The contents a step writes are those of its own request.
LEMMA WritesOwn ==
    ASSUME StreamHeld, NEW r \in Requests, NEW f \in Files, Exists(f),
           \A c \in Contents : c # req[r].src => disk'[c] = disk[c],
           disk'[file[f].src] # disk[file[f].src]
    PROVE  \E x \in Requests : req[x].src = file[f].src /\ f \in req[x].id \cup req[x].late
<1>1. file[f].src \in Contents
  BY RowExists DEF StreamHeld
<1>2. req[r].src = file[f].src
  BY <1>1
<1> QED BY <1>2 DEF StreamHeld, SourcesHeld

\* A step changes the content of a file only for a request that knows of the file.
LEMMA ContentStep ==
    ASSUME StreamHeld, [StreamNext]_streamVars, NEW f \in Files, Exists(f), file'[f] = file[f],
           disk'[file[f].src] # disk[file[f].src]
    PROVE  \E x \in Requests : req[x].src = file[f].src /\ f \in req[x].id \cup req[x].late
<1>0. disk \in [Contents -> Lengths \cup {Absent}] /\ file \in [Files -> StreamRows]
  BY DEF StreamHeld, StreamTypes
<1>1. disk' # disk
  OBVIOUS
<1>2. PICK r \in Requests : Begin(r) \/ HandlerStep(r) \/ WatcherStep(r)
  BY <1>1 DEF StreamNext, streamVars, ClientGone
<1>3. ASSUME NEW p \in Paths, handleDelete(r, p) PROVE FALSE
  <2>1. PICK g \in At(p) :
        /\ file' = [file EXCEPT ![g] = NoFile]
        /\ Unlink(IF DeletesContent(g) THEN {file[g].src} ELSE {}, [req EXCEPT ![r].pc = "ended"])
    BY <1>3 DEF handleDelete
  <2>2. g \in Files /\ Exists(g) /\ file[f].src \in Contents
    BY <2>1, AtPath, RowExists DEF StreamHeld
  <2>3. f # g
    BY <1>0, <2>1, <2>2 DEF Exists
  <2>4. DeletesContent(g) /\ file[f].src = file[g].src
    BY <2>1, <2>2 DEF Unlink
  <2> QED BY <2>3, <2>4 DEF DeletesContent, Sharing
<1>4. ~Begin(r)
  BY <1>1, <1>3 DEF Begin, Create, UploadFromStream, PutContent, handlePut, handleMove, copyFiles,
     Starts
<1>5. CASE HandlerStep(r)
  <2>1. PutOpens(r) \/ PutDone(r) \/ \E n \in Lengths : PutBreaks(r, n)
    BY <1>1, <1>5 DEF HandlerStep, Refused, Upload, PutRefused, UpdateMD5, moveFiles
  <2>2. \A c \in Contents : c # req[r].src => disk'[c] = disk[c]
    BY <1>0, <2>1 DEF PutOpens, PutDone, PutBreaks, Written
  <2> QED BY <2>2, WritesOwn
<1>6. CASE WatcherStep(r)
  <2>1. HookDeleteTempFile(r) \/ HookCleanFileContent(r)
    BY <1>1, <1>6 DEF WatcherStep, CancelUpload, HookUpdateSourceName, HookClearFileSize
  <2>2. \A c \in Contents : c # req[r].src => disk'[c] = disk[c]
    BY <1>0, <2>1 DEF HookDeleteTempFile, HookCleanFileContent, Unlink
  <2> QED BY <2>2, WritesOwn
<1> QED BY <1>2, <1>4, <1>5, <1>6

\* No upload, cancelled or not, changes the content of a file but its own and
\* the copies made after it looked for soft links (RemoveFilesWithSoftLinks).
THEOREM OtherContentKeptCorrect == StreamSpec => OtherContentKept
<1> DEFINE Kept == \A f \in Files :
        Exists(f) /\ file'[f] = file[f] /\ disk'[file[f].src] # disk[file[f].src] =>
            \E r \in Requests : req[r].src = file[f].src /\ f \in req[r].id \cup req[r].late
<1>1. StreamHeld /\ [StreamNext]_streamVars => [Kept]_streamVars
  BY ContentStep
<1> QED BY <1>1, StreamAlways, PTL DEF StreamSpec, OtherContentKept
=============================================================================
