------------------------ MODULE InfrastructureProofs ------------------------
(***************************************************************************)
(* Theorems about the services below the pipeline: what a transfer leaves  *)
(* in the file, what the cache answers, what the log holds, and what the   *)
(* rate limiter grants.  Each holds for any values of the constants that   *)
(* satisfy the assumption the module of the service names.                 *)
(***************************************************************************)
EXTENDS Infrastructure, Sequences, FiniteSetTheorems, WellFoundedInduction, TLAPS

-----------------------------------------------------------------------------
(* Division rounds down. *)
LEMMA DivDown ==
  ASSUME NEW a \in Nat, NEW b \in Nat \ {0}
  PROVE  /\ a \div b \in Nat
         /\ b * (a \div b) <= a
         /\ a < b * (a \div b) + b
OBVIOUS

(* A set of naturals has a least member. *)
LEMMA Least ==
  ASSUME NEW T, T \subseteq Nat, T # {}
  PROVE  \E n \in T : \A m \in T : n <= m
<1>1. PICK n \in T : \A m \in T : ~ (<<m, n>> \in OpToRel(<, Nat))
  BY NatLessThanWellFounded, WFMin
<1>2. \A m \in T : ~ (m < n)
  BY <1>1 DEF OpToRel
<1> QED BY <1>2

-----------------------------------------------------------------------------
(* Transfer: one stream has in the file what it has counted, as long as    *)
(* the place it writes to is the place it reads from.  The chunks of a     *)
(* first attempt have in the file what each of them has counted.  Both     *)
(* hold until a cancel removes the file.                                   *)

(* The assumption is that of the module.                                   *)
TransferAssumption == Transfer!SizesAssumption

(* The first n bytes of the file are those of the source. *)
Written(n) ==
  /\ n <= Len(partFile) /\ Len(partFile) <= fileSize
  /\ \A i \in 1..n : partFile[i] = i

StreamInv ==
  Transfer!Chunk = {} =>
    /\ run \in {"idle", "request", "body", "failed", "completed"}
    /\ run \in {"body", "completed"} => body <= got /\ body <= fileSize /\ (ranged => got = body)
    /\ run = "completed" => body = fileSize
    /\ ranged => got <= fileSize
    /\ \/ ranged
       \/ got = 0
       \/ run \in {"body", "completed"} /\ got = body
       => cancelled \/ Written(got)

First(c) == Transfer!createChunks[c].start
End(c)   == Transfer!createChunks[c].end

(* Nothing of a chunk was downloaded yet. *)
Fresh == finished = {} /\ \A c \in Transfer!Chunk : chunkGot[c] = 0

ChunkWritten(c) ==
  /\ First(c) + chunkGot[c] <= End(c) + 1
  /\ \A i \in First(c)..(First(c) + chunkGot[c] - 1) : i <= Len(partFile) /\ partFile[i] = i
  /\ goroutine[c] = "none" => First(c) + chunkGot[c] = End(c) + 1

ChunksInv ==
  Transfer!Chunk # {} =>
    /\ run \in {"idle", "create", "chunks", "failed", "completed"}
    /\ attempt = 0 => Fresh /\ run = "idle"
    /\ attempt = 1 /\ run = "create" => Fresh
    /\ attempt = 1 /\ run \in {"chunks", "completed"} /\ ~ cancelled =>
         Len(partFile) <= fileSize /\ \A c \in Transfer!Chunk : ChunkWritten(c)
    /\ run = "completed" => \A c \in Transfer!Chunk : goroutine[c] = "none"

TransferType ==
  /\ fileSize \in Nat \ {0} /\ attempt \in Nat /\ got \in Nat /\ body \in Nat
  /\ acceptRanges \in BOOLEAN /\ ranged \in BOOLEAN
  /\ partFile \in Seq(Nat)
  /\ cancelled \in BOOLEAN /\ linked \in BOOLEAN /\ (cancelled \/ linked)
  /\ chunkGot \in [Transfer!Chunk -> Nat]
  /\ DOMAIN goroutine = Transfer!Chunk

TransferInv == TransferType /\ StreamInv /\ ChunksInv

(* A chunk is a part of the file. *)
LEMMA ChunkBounds ==
  ASSUME TransferAssumption, fileSize \in Nat \ {0}, NEW c \in Transfer!Chunk
  PROVE  /\ First(c) \in Nat \ {0} /\ End(c) \in Nat
         /\ First(c) <= End(c) /\ End(c) <= fileSize
         /\ Transfer!Size(c) = End(c) - First(c) + 1
<1> DEFINE n == (fileSize + ChunkSize - 1) \div ChunkSize
<1>1. ChunkSize \in Nat \ {0} /\ fileSize + ChunkSize - 1 \in Nat
  BY DEF TransferAssumption, Transfer!SizesAssumption
<1>2. n \in Nat /\ ChunkSize * n <= fileSize + ChunkSize - 1
  BY <1>1, DivDown
<1>3. c \in 1..n
  BY DEF Transfer!Chunk, Transfer!createChunks
<1> HIDE DEF n
<1>4. ChunkSize * c <= ChunkSize * n
  BY <1>1, <1>2, <1>3
<1>5. (c - 1) * ChunkSize = ChunkSize * c - ChunkSize /\ c * ChunkSize = ChunkSize * c
      /\ ChunkSize * c \in Nat /\ ChunkSize * c >= ChunkSize
  BY <1>1, <1>2, <1>3
<1>6. /\ First(c) = (c - 1) * ChunkSize + 1
      /\ End(c) = IF c * ChunkSize > fileSize THEN fileSize ELSE c * ChunkSize
  BY <1>3 DEF First, End, Transfer!createChunks, n
<1>7. Transfer!Size(c) = End(c) - First(c) + 1
  BY DEF First, End, Transfer!Size
<1> QED BY <1>1, <1>2, <1>4, <1>5, <1>6, <1>7

(* Every byte of the file is in a chunk. *)
LEMMA ChunksCover ==
  ASSUME TransferAssumption, fileSize \in Nat \ {0}, Transfer!Chunk # {}, NEW i \in 1..fileSize
  PROVE  \E c \in Transfer!Chunk : First(c) <= i /\ i <= End(c)
<1> DEFINE n == (fileSize + ChunkSize - 1) \div ChunkSize
           q == (i - 1) \div ChunkSize
<1>1. ChunkSize \in Nat \ {0} /\ fileSize + ChunkSize - 1 \in Nat /\ i - 1 \in Nat
  BY DEF TransferAssumption, Transfer!SizesAssumption
<1>2. n \in Nat /\ fileSize + ChunkSize - 1 < ChunkSize * n + ChunkSize
  BY <1>1, DivDown
<1>3. q \in Nat /\ ChunkSize * q <= i - 1 /\ i - 1 < ChunkSize * q + ChunkSize
  BY <1>1, DivDown
<1> HIDE DEF q
<1>4. Transfer!Chunk = 1..n
  BY DEF Transfer!Chunk, Transfer!createChunks
<1>5. /\ q + 1 \in 1..n => First(q + 1) = q * ChunkSize + 1
      /\ q + 1 \in 1..n => End(q + 1) = IF (q + 1) * ChunkSize > fileSize THEN fileSize ELSE (q + 1) * ChunkSize
  BY <1>3 DEF First, End, Transfer!createChunks, n
<1> HIDE DEF n
<1>6. q < n
  <2>1. ASSUME n <= q PROVE ChunkSize * n <= ChunkSize * q
    BY <1>1, <1>2, <1>3, <2>1
  <2>2. ChunkSize * n \in Nat /\ ChunkSize * q \in Nat
    BY <1>1, <1>2, <1>3
  <2> QED BY <1>1, <1>2, <1>3, <2>1, <2>2
<1>7. q + 1 \in 1..n
  BY <1>2, <1>3, <1>6
<1>8. q * ChunkSize = ChunkSize * q /\ (q + 1) * ChunkSize = ChunkSize * q + ChunkSize /\ ChunkSize * q \in Nat
  BY <1>1, <1>3
<1>9. First(q + 1) <= i /\ i <= End(q + 1)
  BY <1>1, <1>3, <1>5, <1>7, <1>8
<1> QED BY <1>4, <1>7, <1>9

(* What a write leaves in a file that is still in its place. *)
LEMMA Writes ==
  ASSUME partFile \in Seq(Nat), NEW p \in Nat \ {0}, NEW b \in Nat,
         linked, Transfer!Write(p, b)
  PROVE  /\ partFile' \in Seq(Nat)
         /\ Len(partFile') = IF p > Len(partFile) THEN p ELSE Len(partFile)
         /\ partFile'[p] = b
         /\ \A i \in 1..Len(partFile) : i # p => partFile'[i] = partFile[i]
<1> DEFINE n == IF p > Len(partFile) THEN p ELSE Len(partFile)
<1>1. Len(partFile) \in Nat /\ n \in Nat /\ p \in 1..n /\ Len(partFile) <= n
      /\ \A i \in 1..Len(partFile) : partFile[i] \in Nat
  OBVIOUS
<1>2. partFile' = [i \in 1..n |-> IF i = p THEN b ELSE IF i <= Len(partFile) THEN partFile[i] ELSE 0]
  BY DEF Transfer!Write, Transfer!Extended
<1> HIDE DEF n
<1>3. partFile' \in [1..n -> Nat]
  BY <1>1, <1>2
<1>4. partFile' \in Seq(Nat) /\ Len(partFile') = n
  BY <1>1, <1>3
<1>5. \A i \in 1..Len(partFile) : i # p => partFile'[i] = partFile[i]
  BY <1>1, <1>2
<1>6. partFile'[p] = b
  BY <1>1, <1>2
<1> QED BY <1>4, <1>5, <1>6 DEF n

(* A write keeps the type of the file, and nothing else is touched. *)
LEMMA WriteType ==
  ASSUME partFile \in Seq(Nat), linked \in BOOLEAN, NEW p \in Nat \ {0}, NEW b \in Nat,
         Transfer!Write(p, b)
  PROVE  partFile' \in Seq(Nat) /\ linked' = linked /\ cancelled' = cancelled
<1>1. CASE linked
  BY <1>1, Writes DEF Transfer!Write
<1>2. CASE ~ linked
  BY <1>2 DEF Transfer!Write
<1> QED BY <1>1, <1>2

(* The size of the file and its chunks do not change. *)
LEMMA ServerStays ==
  ASSUME [Transfer!Next]_(Transfer!vars)
  PROVE  /\ UNCHANGED <<fileSize, acceptRanges, ranged>>
         /\ UNCHANGED Transfer!createChunks
         /\ UNCHANGED Transfer!Chunk
<1>1. UNCHANGED <<fileSize, acceptRanges, ranged>>
  BY DEF Transfer!Next, Transfer!vars, Transfer!server, Transfer!Start, Transfer!Retry,
         Transfer!Cancel,
         Transfer!Respond, Transfer!ReadBody, Transfer!WriteError, Transfer!EndBody,
         Transfer!CreateFile, Transfer!Join, Transfer!Acquire, Transfer!RespondChunk,
         Transfer!ReadChunk, Transfer!EndChunk, Transfer!FailChunk, Transfer!Move
<1>2. UNCHANGED Transfer!createChunks
  BY <1>1 DEF Transfer!createChunks
<1> QED BY <1>1, <1>2 DEF Transfer!Chunk

(* A write to the stream's file does not touch what has been counted. *)
LEMMA StreamWrites ==
  ASSUME TransferType, StreamInv, Transfer!Chunk = {}, run = "body", body < fileSize,
         Transfer!Write(got + 1, body + 1), fileSize' = fileSize,
         ranged \/ got = body, ~ cancelled
  PROVE  /\ got + 1 <= Len(partFile') /\ Len(partFile') <= fileSize
         /\ \A i \in 1..(got + 1) : partFile'[i] = i
<1>1. /\ got \in Nat /\ body \in Nat /\ got = body /\ got + 1 <= fileSize
      /\ Written(got) /\ fileSize \in Nat
  BY DEF TransferType, StreamInv
<1>2. /\ Len(partFile') = IF got + 1 > Len(partFile) THEN got + 1 ELSE Len(partFile)
      /\ partFile'[got + 1] = body + 1
      /\ \A i \in 1..Len(partFile) : i # got + 1 => partFile'[i] = partFile[i]
  BY <1>1, Writes DEF TransferType
<1>3. Len(partFile) \in Nat
  BY DEF TransferType
<1>4. ASSUME NEW i \in 1..(got + 1) PROVE partFile'[i] = i
  <2>1. CASE i = got + 1
    BY <1>1, <1>2, <2>1
  <2>2. CASE i # got + 1
    BY <1>1, <1>2, <1>3, <2>2 DEF Written
  <2> QED BY <2>1, <2>2
<1> QED BY <1>1, <1>2, <1>3, <1>4 DEF Written

(* Every step keeps the types. *)
LEMMA TransferTypeStep ==
  ASSUME TransferAssumption, TransferType, [Transfer!Next]_(Transfer!vars)
  PROVE  TransferType'
<1>1. UNCHANGED <<fileSize, acceptRanges, ranged>> /\ UNCHANGED Transfer!Chunk
  BY ServerStays
<1>2. CASE UNCHANGED Transfer!vars
  BY <1>1, <1>2 DEF TransferType, Transfer!vars, Transfer!single, Transfer!disk, Transfer!chunked
<1>3. CASE Transfer!Start
  BY <1>1, <1>3 DEF TransferType, Transfer!single, Transfer!disk, Transfer!chunked, Transfer!Start
<1>4. CASE Transfer!Retry \/ Transfer!Join \/ Transfer!EndBody
  BY <1>1, <1>4 DEF TransferType, Transfer!single, Transfer!disk, Transfer!chunked,
     Transfer!Retry, Transfer!Join, Transfer!EndBody
<1>5. CASE Transfer!Respond
  <2>1. /\ UNCHANGED <<attempt, got, partFile, cancelled, chunkGot, goroutine>>
        /\ body' \in {body, got, 0} /\ (linked' = linked \/ linked' = TRUE)
    BY <1>5 DEF Transfer!chunked, Transfer!Respond
  <2>2. body' \in Nat
    BY <2>1 DEF TransferType
  <2>3. linked' \in BOOLEAN
    BY <2>1 DEF TransferType
  <2>4. cancelled' \/ linked'
    <3>1. CASE linked' = linked
      BY <2>1, <3>1 DEF TransferType
    <3>2. CASE linked' = TRUE
      BY <3>2
    <3> QED BY <2>1, <3>1, <3>2
  <2> QED BY <1>1, <2>1, <2>2, <2>3, <2>4 DEF TransferType
<1>6. CASE Transfer!ReadBody \/ Transfer!WriteError
  <2>1. Transfer!Write(got + 1, body + 1)
    BY <1>6 DEF Transfer!ReadBody, Transfer!WriteError
  <2>2. partFile' \in Seq(Nat) /\ linked' = linked /\ cancelled' = cancelled
    <3>1. got + 1 \in Nat \ {0} /\ body + 1 \in Nat
      BY DEF TransferType
    <3> QED BY <2>1, <3>1, WriteType DEF TransferType
  <2> QED BY <1>1, <1>6, <2>2 DEF TransferType, Transfer!single, Transfer!disk, Transfer!chunked,
     Transfer!ReadBody, Transfer!WriteError
<1>7. CASE Transfer!CreateFile
  BY <1>1, <1>7 DEF TransferType, Transfer!single, Transfer!CreateFile
<1>8. ASSUME NEW c \in Transfer!Chunk, Transfer!ReadChunk(c) PROVE TransferType'
  <2>1. First(c) + chunkGot[c] \in Nat \ {0}
    BY ChunkBounds DEF TransferType
  <2>2. Transfer!Write(First(c) + chunkGot[c], First(c) + chunkGot[c])
    BY <1>8 DEF Transfer!ReadChunk, First
  <2>3. partFile' \in Seq(Nat) /\ linked' = linked /\ cancelled' = cancelled
    BY <2>1, <2>2, WriteType DEF TransferType
  <2> QED BY <1>1, <1>8, <2>3 DEF TransferType, Transfer!single, Transfer!ReadChunk, Transfer!Move
<1>9. ASSUME NEW c \in Transfer!Chunk,
             \/ Transfer!Acquire(c) \/ Transfer!RespondChunk(c)
             \/ Transfer!EndChunk(c) \/ Transfer!FailChunk(c)
      PROVE  TransferType'
  <2>1. /\ UNCHANGED <<attempt, got, body, partFile, linked, cancelled, chunkGot>>
        /\ DOMAIN goroutine' = DOMAIN goroutine
    BY <1>9 DEF Transfer!single, Transfer!disk, Transfer!Move, Transfer!Acquire, Transfer!RespondChunk,
       Transfer!EndChunk, Transfer!FailChunk
  <2> QED BY <1>1, <2>1 DEF TransferType
<1>10. CASE Transfer!Cancel
  <2>1. /\ UNCHANGED <<attempt, got, body, chunkGot, goroutine>>
        /\ cancelled' = TRUE /\ linked' = FALSE /\ partFile' = <<>>
    BY <1>10 DEF Transfer!single, Transfer!chunked, Transfer!Cancel
  <2>2. <<>> \in Seq(Nat)
    OBVIOUS
  <2> QED BY <1>1, <2>1, <2>2 DEF TransferType
<1> QED BY <1>2, <1>3, <1>4, <1>5, <1>6, <1>7, <1>8, <1>9, <1>10 DEF Transfer!Next

(* The bytes of the stream go where they belong, or the file is given up. *)
LEMMA StreamStep ==
  ASSUME TransferAssumption, TransferType, StreamInv, [Transfer!Next]_(Transfer!vars)
  PROVE  StreamInv'
<1>1. /\ UNCHANGED <<fileSize, acceptRanges, ranged>> /\ UNCHANGED Transfer!Chunk
  BY ServerStays
<1> SUFFICES ASSUME Transfer!Chunk = {} PROVE StreamInv'
  BY <1>1 DEF StreamInv
<1>2. CASE UNCHANGED Transfer!vars
  BY <1>1, <1>2 DEF StreamInv, Written, Transfer!vars, Transfer!single, Transfer!disk, Transfer!chunked
<1>3. CASE Transfer!Start
  BY <1>1, <1>3 DEF StreamInv, Written, Transfer!single, Transfer!disk, Transfer!chunked, Transfer!Start
<1>4. CASE Transfer!Retry
  BY <1>1, <1>4 DEF StreamInv, Written, Transfer!single, Transfer!disk, Transfer!chunked, Transfer!Retry
<1>5. CASE Transfer!Respond
  <2>1. /\ run = "request" /\ UNCHANGED <<got, partFile, cancelled>>
        /\ \/ run' = "failed" /\ body' = body
           \/ /\ run' = "body" /\ ~ (ranged /\ got = fileSize)
              /\ body' = IF ranged THEN got ELSE 0
    BY <1>5 DEF Transfer!Respond
  <2>2. /\ got \in Nat /\ fileSize \in Nat \ {0} /\ ranged \in BOOLEAN
        /\ (ranged \/ got = 0 => cancelled \/ Written(got))
    BY <2>1 DEF TransferType, StreamInv
  <2>3. ranged => got <= fileSize
    BY DEF StreamInv
  <2>4. Written(got)' <=> Written(got)
    BY <1>1, <2>1 DEF Written
  <2>5. CASE run' = "failed"
    BY <1>1, <2>1, <2>2, <2>4, <2>5 DEF StreamInv
  <2>6. CASE run' = "body"
    <3>1. ~ ranged => body' = 0
      BY <2>1, <2>6
    <3>2. ranged => body' = got
      BY <2>1, <2>6
    <3> QED BY <1>1, <2>1, <2>2, <2>3, <2>4, <2>6, <3>1, <3>2 DEF StreamInv
  <2> QED BY <2>1, <2>5, <2>6
<1>6. CASE Transfer!EndBody
  BY <1>1, <1>6 DEF TransferType, StreamInv, Written, Transfer!single, Transfer!disk, Transfer!chunked, Transfer!EndBody
<1>7. CASE Transfer!ReadBody
  <2>1. /\ run = "body" /\ run' = "body" /\ body < fileSize /\ body' = body + 1 /\ got' = got + 1
        /\ Transfer!Write(got + 1, body + 1) /\ cancelled' = cancelled
    BY <1>7 DEF Transfer!ReadBody, Transfer!Write
  <2>2. body' <= got' /\ body' <= fileSize' /\ (ranged => got' = body') /\ got' # 0
        /\ (got' = body' => got = body)
    BY <1>1, <2>1 DEF TransferType, StreamInv
  <2>3. (ranged \/ got = body) /\ ~ cancelled => Written(got)'
    <3>1. ASSUME ranged \/ got = body, ~ cancelled PROVE Written(got)'
      BY <1>1, <2>1, <3>1, StreamWrites DEF Written
    <3> QED BY <3>1
  <2> QED BY <1>1, <2>1, <2>2, <2>3 DEF StreamInv
<1>8. CASE Transfer!WriteError
  <2>1. /\ run = "body" /\ run' = "failed" /\ body < fileSize /\ body' = body /\ got' = got
        /\ Transfer!Write(got + 1, body + 1) /\ cancelled' = cancelled
    BY <1>8 DEF Transfer!WriteError, Transfer!Write, Transfer!single
  <2>2. got = 0 => got = body
    BY <2>1 DEF TransferType, StreamInv
  <2>3. ASSUME ranged \/ got = 0, ~ cancelled PROVE Written(got)'
    <3>1. /\ got + 1 <= Len(partFile') /\ Len(partFile') <= fileSize
          /\ \A i \in 1..(got + 1) : partFile'[i] = i
      BY <1>1, <2>1, <2>2, <2>3, StreamWrites
    <3>2. got \in Nat /\ Len(partFile') \in Nat
      BY TransferTypeStep DEF TransferType
    <3> QED BY <1>1, <2>1, <3>1, <3>2 DEF Written
  <2> QED BY <1>1, <2>1, <2>3 DEF StreamInv
<1>9. CASE Transfer!CreateFile \/ Transfer!Join
  BY <1>9 DEF StreamInv, Transfer!CreateFile, Transfer!Join
<1>10. CASE Transfer!Cancel
  BY <1>1, <1>10 DEF StreamInv, Transfer!single, Transfer!chunked, Transfer!Cancel
<1> QED BY <1>2, <1>3, <1>4, <1>5, <1>6, <1>7, <1>8, <1>9, <1>10 DEF Transfer!Next

(* A byte of a chunk goes to its place, and no other byte changes.         *)
LEMMA ReadChunkHolds ==
  ASSUME TransferAssumption, TransferType, NEW c \in Transfer!Chunk, Transfer!ReadChunk(c),
         UNCHANGED Transfer!createChunks, UNCHANGED <<fileSize, acceptRanges, ranged>>,
         Len(partFile) <= fileSize, \A d \in Transfer!Chunk : ChunkWritten(d), ~ cancelled
  PROVE  Len(partFile') <= fileSize /\ \A d \in Transfer!Chunk : ChunkWritten(d)'
<1>1. PICK p : p = First(c) + chunkGot[c]
  OBVIOUS
<1>2. /\ p \in Nat \ {0} /\ p <= End(c) /\ End(c) <= fileSize /\ fileSize \in Nat
      /\ First(c) \in Nat /\ End(c) \in Nat /\ chunkGot[c] \in Nat
  BY <1>1, ChunkBounds DEF TransferType, Transfer!ReadChunk
<1>3. /\ Transfer!Write(p, p)
      /\ chunkGot' = [chunkGot EXCEPT ![c] = @ + 1]
      /\ goroutine[c] = "body" /\ goroutine' = [goroutine EXCEPT ![c] = "body"]
  BY <1>1 DEF Transfer!ReadChunk, Transfer!Move, First
<1>4. /\ Len(partFile') = IF p > Len(partFile) THEN p ELSE Len(partFile)
      /\ partFile'[p] = p
      /\ \A i \in 1..Len(partFile) : i # p => partFile'[i] = partFile[i]
      /\ Len(partFile) \in Nat
  BY <1>2, <1>3, Writes DEF TransferType
<1>5. \A i \in 1..Len(partFile) : partFile[i] = i => i <= Len(partFile') /\ partFile'[i] = i
  BY <1>2, <1>4
<1>6. ASSUME NEW d \in Transfer!Chunk PROVE ChunkWritten(d)'
  <2>1. First(d)' = First(d) /\ End(d)' = End(d) /\ First(d) \in Nat \ {0} /\ End(d) \in Nat
    BY ChunkBounds DEF First, End, TransferType
  <2>2. CASE d # c
    <3>1. chunkGot'[d] = chunkGot[d] /\ goroutine'[d] = goroutine[d] /\ chunkGot[d] \in Nat
      BY <1>3, <2>2 DEF TransferType
    <3>2. ASSUME NEW i \in First(d)..(First(d) + chunkGot[d] - 1)
          PROVE  i <= Len(partFile') /\ partFile'[i] = i
      BY <1>4, <1>5, <2>1, <3>1 DEF ChunkWritten
    <3> QED BY <2>1, <3>1, <3>2 DEF ChunkWritten
  <2>3. CASE d = c
    <3>1. chunkGot'[c] = chunkGot[c] + 1 /\ goroutine'[c] # "none"
      BY <1>3 DEF TransferType
    <3>2. ASSUME NEW i \in First(c)..(First(c) + chunkGot[c])
          PROVE  i <= Len(partFile') /\ partFile'[i] = i
      <4>1. CASE i = p
        BY <1>2, <1>4, <4>1
      <4>2. CASE i # p
        <5>1. i \in First(c)..(First(c) + chunkGot[c] - 1)
          BY <1>1, <1>2, <4>2
        <5>2. i \in 1..Len(partFile) /\ partFile[i] = i
          BY <1>4, <2>1, <2>3, <5>1 DEF ChunkWritten
        <5> QED BY <1>5, <5>2
      <4> QED BY <4>1, <4>2
    <3>3. First(c) + (chunkGot[c] + 1) <= End(c) + 1 /\ First(c) + (chunkGot[c] + 1) - 1 = First(c) + chunkGot[c]
      BY <1>1, <1>2
    <3> QED BY <2>1, <2>3, <3>1, <3>2, <3>3 DEF ChunkWritten
  <2> QED BY <2>2, <2>3
<1>7. Len(partFile') <= fileSize
  BY <1>2, <1>4
<1> QED BY <1>6, <1>7

(* A step of one goroutine that writes nothing. *)
LEMMA GoroutineMoves ==
  ASSUME TransferAssumption, TransferType, NEW c \in Transfer!Chunk, ChunkWritten(c),
         \/ Transfer!Acquire(c) \/ Transfer!RespondChunk(c)
         \/ Transfer!EndChunk(c) \/ Transfer!FailChunk(c),
         UNCHANGED Transfer!createChunks, NEW d \in Transfer!Chunk, ChunkWritten(d)
  PROVE  ChunkWritten(d)'
<1>1. /\ UNCHANGED <<partFile, chunkGot>>
      /\ DOMAIN goroutine' = DOMAIN goroutine /\ (d # c => goroutine'[d] = goroutine[d])
  BY DEF TransferType, Transfer!disk, Transfer!Acquire, Transfer!RespondChunk, Transfer!EndChunk, Transfer!FailChunk, Transfer!Move
<1>2. First(d)' = First(d) /\ End(d)' = End(d)
  BY DEF First, End
<1>3. goroutine'[c] = "none" => First(c) + chunkGot[c] = End(c) + 1
  <2>1. ASSUME goroutine'[c] = "none" PROVE Transfer!EndChunk(c)
    BY <2>1 DEF TransferType, Transfer!Acquire, Transfer!RespondChunk, Transfer!FailChunk, Transfer!Move
  <2>2. Transfer!EndChunk(c) => chunkGot[c] = End(c) - First(c) + 1
    BY ChunkBounds DEF TransferType, Transfer!EndChunk
  <2> QED BY <2>1, <2>2, ChunkBounds DEF TransferType
<1> QED BY <1>1, <1>2, <1>3 DEF ChunkWritten

(* In a first attempt what a chunk has counted is in the file. *)
LEMMA ChunksStep ==
  ASSUME TransferAssumption, TransferType, ChunksInv, [Transfer!Next]_(Transfer!vars)
  PROVE  ChunksInv'
<1>1. /\ UNCHANGED <<fileSize, acceptRanges, ranged>> /\ UNCHANGED Transfer!Chunk
      /\ UNCHANGED Transfer!createChunks
  BY ServerStays
<1>a. ASSUME NEW c \in Transfer!Chunk PROVE First(c)' = First(c) /\ End(c)' = End(c)
  BY <1>1 DEF First, End
<1> SUFFICES ASSUME Transfer!Chunk # {} PROVE ChunksInv'
  BY <1>1 DEF ChunksInv
<1>2. CASE UNCHANGED Transfer!vars
  BY <1>1, <1>a, <1>2 DEF ChunksInv, Fresh, ChunkWritten, Transfer!vars, Transfer!single, Transfer!disk, Transfer!chunked
<1>3. CASE Transfer!Start
  BY <1>1, <1>3 DEF TransferType, ChunksInv, Fresh, Transfer!single, Transfer!disk, Transfer!chunked, Transfer!Start
<1>4. CASE Transfer!Retry
  BY <1>1, <1>4 DEF TransferType, ChunksInv, Fresh, Transfer!single, Transfer!disk, Transfer!chunked, Transfer!Retry
<1>5. CASE Transfer!Respond \/ Transfer!ReadBody \/ Transfer!WriteError \/ Transfer!EndBody
  BY <1>5 DEF ChunksInv, Transfer!Respond, Transfer!ReadBody, Transfer!WriteError, Transfer!EndBody
<1>6. CASE Transfer!CreateFile
  <2>1. /\ run = "create" /\ run' = "chunks" /\ attempt' = attempt /\ partFile' = <<>>
        /\ chunkGot' = chunkGot /\ finished' = finished
        /\ goroutine' = [c \in Transfer!Chunk |-> IF c \in finished THEN "none" ELSE "waiting"]
    BY <1>6 DEF Transfer!CreateFile
  <2>2. attempt # 0
    BY <2>1 DEF ChunksInv
  <2>3. ASSUME attempt = 1, NEW c \in Transfer!Chunk PROVE ChunkWritten(c)'
    <3>1. chunkGot'[c] = 0 /\ goroutine'[c] = "waiting"
      BY <2>1, <2>3 DEF ChunksInv, Fresh
    <3>2. First(c) \in Nat /\ End(c) \in Nat /\ First(c) <= End(c)
      BY ChunkBounds DEF TransferType
    <3> QED BY <1>a, <3>1, <3>2 DEF ChunkWritten
  <2>4. Len(partFile') <= fileSize'
    BY <1>1, <2>1 DEF TransferType
  <2> QED BY <1>1, <2>1, <2>2, <2>3, <2>4 DEF ChunksInv
<1>7. CASE Transfer!Join
  <2>1. /\ run = "chunks" /\ run' \in {"failed", "completed"} /\ attempt # 0
        /\ UNCHANGED <<attempt, partFile, cancelled, chunkGot, finished, goroutine>>
        /\ run' = "completed" => \A c \in Transfer!Chunk : goroutine[c] = "none"
    BY <1>7 DEF ChunksInv, Transfer!Join, Transfer!disk, Transfer!chunked
  <2> QED BY <1>1, <1>a, <2>1 DEF ChunksInv, ChunkWritten
<1>8. ASSUME NEW c \in Transfer!Chunk, Transfer!ReadChunk(c) PROVE ChunksInv'
  <2>1. run = "chunks" /\ run' = run /\ attempt' = attempt /\ attempt # 0 /\ cancelled' = cancelled
    BY <1>8 DEF ChunksInv, Transfer!ReadChunk, Transfer!Write, Transfer!Move
  <2>2. attempt = 1 /\ ~ cancelled => Len(partFile') <= fileSize /\ \A d \in Transfer!Chunk : ChunkWritten(d)'
    BY <1>1, <1>8, <2>1, ReadChunkHolds DEF ChunksInv
  <2> QED BY <1>1, <2>1, <2>2 DEF ChunksInv
<1>9. ASSUME NEW c \in Transfer!Chunk,
             \/ Transfer!Acquire(c) \/ Transfer!RespondChunk(c)
             \/ Transfer!EndChunk(c) \/ Transfer!FailChunk(c)
      PROVE  ChunksInv'
  <2>1. run = "chunks" /\ run' = run /\ attempt' = attempt /\ attempt # 0 /\ partFile' = partFile
        /\ cancelled' = cancelled
    BY <1>9 DEF ChunksInv, Transfer!disk, Transfer!Move, Transfer!Acquire, Transfer!RespondChunk,
       Transfer!EndChunk, Transfer!FailChunk
  <2>2. attempt = 1 /\ ~ cancelled => \A d \in Transfer!Chunk : ChunkWritten(d)'
    BY <1>1, <1>9, <2>1, GoroutineMoves DEF ChunksInv
  <2> QED BY <1>1, <2>1, <2>2 DEF ChunksInv
<1>10. CASE Transfer!Cancel
  BY <1>1, <1>10 DEF ChunksInv, Fresh, Transfer!single, Transfer!chunked, Transfer!Cancel
<1> QED BY <1>2, <1>3, <1>4, <1>5, <1>6, <1>7, <1>8, <1>9, <1>10 DEF Transfer!Next

(* No attempt was made in the beginning. *)
LEMMA TransferInit ==
  ASSUME TransferAssumption, Transfer!Init PROVE TransferInv
<1>1. TransferType
  <2>1. <<>> \in Seq(Nat)
    OBVIOUS
  <2>2. /\ fileSize \in FileSizes /\ acceptRanges \in BOOLEAN /\ ranged \in BOOLEAN
        /\ attempt = 0 /\ got = 0 /\ body = 0 /\ partFile = <<>>
        /\ linked = TRUE /\ cancelled = FALSE
        /\ chunkGot = [c \in Transfer!Chunk |-> 0]
        /\ goroutine = [c \in Transfer!Chunk |-> "none"]
    BY DEF Transfer!Init
  <2> QED BY <2>1, <2>2 DEF TransferType, TransferAssumption, Transfer!SizesAssumption
<1>2. StreamInv
  BY <1>1 DEF TransferType, StreamInv, Written, Transfer!Init
<1>3. ChunksInv
  BY DEF ChunksInv, Fresh, Transfer!Init
<1> QED BY <1>1, <1>2, <1>3 DEF TransferInv

(* Every step keeps the transfer. *)
LEMMA TransferStep ==
  ASSUME TransferAssumption, TransferInv, [Transfer!Next]_(Transfer!vars)
  PROVE  TransferInv'
BY TransferTypeStep, StreamStep, ChunksStep DEF TransferInv

(* A file with the right bytes, as many as the source has, is the source. *)
LEMMA TransferIntact ==
  ASSUME TransferAssumption, TransferInv PROVE Transfer!CompletedIsIntact
<1> SUFFICES ASSUME run = "completed", ~ cancelled,
                    IF Transfer!Chunk = {} THEN ranged \/ got = fileSize ELSE attempt = 1
             PROVE  partFile = Transfer!Source
  BY DEF Transfer!CompletedIsIntact
<1>1. partFile \in Seq(Nat) /\ Len(partFile) \in Nat /\ fileSize \in Nat \ {0}
  BY DEF TransferInv, TransferType
<1>2. Len(partFile) = fileSize /\ \A i \in 1..fileSize : partFile[i] = i
  <2>1. CASE Transfer!Chunk = {}
    <3>1. got = fileSize
      BY <2>1 DEF TransferInv, TransferType, StreamInv
    <3>2. Written(got)
      BY <2>1, <3>1 DEF TransferInv, StreamInv
    <3> QED BY <1>1, <3>1, <3>2 DEF Written
  <2>2. CASE Transfer!Chunk # {}
    <3>1. Len(partFile) <= fileSize
      BY <2>2 DEF TransferInv, ChunksInv
    <3>2. ASSUME NEW i \in 1..fileSize PROVE i <= Len(partFile) /\ partFile[i] = i
      <4>1. PICK c \in Transfer!Chunk : First(c) <= i /\ i <= End(c)
        BY <1>1, <2>2, ChunksCover
      <4>2. ChunkWritten(c) /\ First(c) + chunkGot[c] = End(c) + 1
        BY <2>2 DEF TransferInv, ChunksInv, ChunkWritten
      <4>3. First(c) \in Nat /\ End(c) \in Nat /\ chunkGot[c] \in Nat
        BY <1>1, ChunkBounds DEF TransferInv, TransferType
      <4>4. i \in First(c)..(First(c) + chunkGot[c] - 1)
        BY <4>1, <4>2, <4>3
      <4> QED BY <4>2, <4>4 DEF ChunkWritten
    <3> QED BY <1>1, <3>1, <3>2
  <2> QED BY <2>1, <2>2
<1> QED BY <1>1, <1>2 DEF Transfer!Source

(* A completed transfer that nobody cancelled is the source byte for byte, *)
(* for any size of the file and of the chunks: a single stream however     *)
(* often it was broken off, if the server answers Range requests, and      *)
(* chunks in the attempt that they all succeed in.                         *)
THEOREM CompletedTransfersAreIntact ==
  ASSUME TransferAssumption PROVE Transfer!Spec => []CompletedIsIntact
<1>1. Transfer!Init => TransferInv
  BY TransferInit
<1>2. TransferInv /\ [Transfer!Next]_(Transfer!vars) => TransferInv'
  BY TransferStep
<1>3. TransferInv => CompletedIsIntact
  BY TransferIntact DEF CompletedIsIntact
<1> QED BY <1>1, <1>2, <1>3, PTL DEF Transfer!Spec

(* What a single stream has counted is in the file, and right, until a     *)
(* cancel removes the file: that is what the next attempt goes on behind.  *)
THEOREM CountedBytesAreWritten ==
  ASSUME TransferAssumption PROVE Transfer!Spec => []Transfer!CountedIsWritten
<1>1. Transfer!Init => TransferInv
  BY TransferInit
<1>2. TransferInv /\ [Transfer!Next]_(Transfer!vars) => TransferInv'
  BY TransferStep
<1>3. TransferInv => Transfer!CountedIsWritten
  BY DEF TransferInv, TransferType, StreamInv, Written, Transfer!CountedIsWritten
<1> QED BY <1>1, <1>2, <1>3, PTL DEF Transfer!Spec

-----------------------------------------------------------------------------
(* Cache: while the process goes on, files and entries go together. *)

(* While copies do not break off and the process goes on, the process      *)
(* lives, and a file in the directory is the one of its key's entry.       *)
FilesAreEntries ==
  /\ entry \in [Key -> Version \cup {Nil}]
  /\ index.entry \in [Key -> Version \cup {Nil}]
  /\ file \in [Key -> Version \cup {"torn", Nil}]
  /\ scenario = {} => /\ alive
                      /\ \A k \in Key : file[k] # Nil => entry[k] = file[k]

(* Dropping entries drops their files. *)
LEMMA DropKeeps ==
  ASSUME FilesAreEntries, NEW S, Cache!Drop(S), UNCHANGED <<index, scenario, alive>>
  PROVE  FilesAreEntries'
BY DEF FilesAreEntries, Cache!Drop

(* A new entry comes with its file. *)
LEMMA PutKeeps ==
  ASSUME Cache!NilAssumption, FilesAreEntries, NEW k \in Key, NEW v \in Version, Cache!Put(k, v)
  PROVE  FilesAreEntries'
BY DEF FilesAreEntries, Cache!Put, Cache!life, Cache!NilAssumption

(* A copy that breaks off and a restart touch files or entries alone, but  *)
(* their scenarios are not the one in which the two must agree.            *)
LEMMA CacheStep ==
  ASSUME Cache!NilAssumption, FilesAreEntries, [Cache!Next]_(Cache!vars)
  PROVE  FilesAreEntries'
<1>1. ASSUME NEW k \in Key, NEW v \in Version, Cache!Put(k, v) PROVE FilesAreEntries'
  BY <1>1, PutKeeps
<1>2. ASSUME NEW k \in Key, Cache!PutFails(k) PROVE FilesAreEntries'
  BY <1>2 DEF FilesAreEntries, Cache!PutFails, Cache!map, Cache!life
<1>3. ASSUME NEW k \in Key, Cache!GetHit(k) \/ Cache!Expire(k) PROVE FilesAreEntries'
  BY <1>3 DEF FilesAreEntries, Cache!GetHit, Cache!Expire, Cache!life
<1>4. ASSUME NEW k \in Key, Cache!GetStale(k) \/ Cache!Delete(k) PROVE FilesAreEntries'
  BY <1>4, DropKeeps DEF Cache!GetStale, Cache!Delete, Cache!life
<1>5. ASSUME Cache!Cleanup PROVE FilesAreEntries'
  BY <1>5, DropKeeps DEF Cache!Cleanup, Cache!life
<1>6. ASSUME Cache!Clear PROVE FilesAreEntries'
  BY <1>6 DEF FilesAreEntries, Cache!Clear, Cache!life
<1>7. ASSUME Cache!Start PROVE FilesAreEntries'
  BY <1>7 DEF FilesAreEntries, Cache!Start, Cache!map
<1>8. ASSUME Cache!Stop PROVE FilesAreEntries'
  <2>1. /\ scenario # {} /\ UNCHANGED <<entry, file, scenario>>
        /\ index' = index \/ index' = [entry |-> entry, order |-> order]
    BY <1>8 DEF Cache!Stop, Cache!map
  <2>2. index'.entry = index.entry \/ index'.entry = entry
    BY <2>1
  <2> QED BY <2>1, <2>2 DEF FilesAreEntries
<1>9. ASSUME Cache!Exit PROVE FilesAreEntries'
  BY <1>9 DEF FilesAreEntries, Cache!Exit, Cache!map
<1>10. ASSUME Cache!NewCacheService PROVE FilesAreEntries'
  BY <1>10 DEF FilesAreEntries, Cache!NewCacheService
<1>11. ASSUME UNCHANGED Cache!vars PROVE FilesAreEntries'
  BY <1>11 DEF FilesAreEntries, Cache!vars, Cache!map, Cache!life
<1> QED BY <1>1, <1>2, <1>3, <1>4, <1>5, <1>6, <1>7, <1>8, <1>9, <1>10, <1>11 DEF Cache!Next

(* The new process of an empty directory. *)
LEMMA CacheInit ==
  ASSUME Cache!Init PROVE FilesAreEntries
BY DEF FilesAreEntries, Cache!Init, Cache!NoIndex

(* While copies do not break off and the process goes on, a cache hit is   *)
(* the content that the entry was made for, for any limits on the entries. *)
THEOREM HitsAreRight ==
  ASSUME Cache!NilAssumption PROVE Cache!Spec => []HitIsRight
<1>1. Cache!Init => FilesAreEntries
  BY CacheInit
<1>2. FilesAreEntries /\ [Cache!Next]_(Cache!vars) => FilesAreEntries'
  BY CacheStep
<1>3. FilesAreEntries => HitIsRight
  BY DEF FilesAreEntries, HitIsRight, Cache!HitIsRight, Cache!Present, Cache!Held
<1> QED BY <1>1, <1>2, <1>3, PTL DEF Cache!Spec

(* Nor does an eviction, a replacement or a drop leave a file without an   *)
(* entry.                                                                  *)
THEOREM FilesHaveEntries ==
  ASSUME Cache!NilAssumption PROVE Cache!Spec => []NoOrphanFile
<1>1. Cache!Init => FilesAreEntries
  BY CacheInit
<1>2. FilesAreEntries /\ [Cache!Next]_(Cache!vars) => FilesAreEntries'
  BY CacheStep
<1>3. FilesAreEntries => NoOrphanFile
  BY DEF FilesAreEntries, NoOrphanFile, Cache!NoOrphanFile
<1> QED BY <1>1, <1>2, <1>3, PTL DEF Cache!Spec

-----------------------------------------------------------------------------
(* Sums: what SumFunctionOnSet defines by recursion over the subsets of a  *)
(* set.  g is that recursion for the sum of w over S.                      *)
Chosen(s) == CHOOSE x \in s : TRUE

Adds(w, S, g) ==
  g = [s \in SUBSET S |-> IF s = {} THEN 0 ELSE w[Chosen(s)] + g[s \ {Chosen(s)}]]

Sum(w, S) == (CHOOSE g : Adds(w, S, g))[S]

(* The fold by which the model adds up sizes is the recursive function Sum. *)
LEMMA SumIs ==
  ASSUME NEW w, NEW S
  PROVE  Cache!SumFunctionOnSet(w, S) = Sum(w, S)
BY DEF Cache!SumFunctionOnSet, Cache!FoldFunctionOnSet, Cache!MapThenFoldSet, Sum, Adds, Chosen

(* The recursion defines a function: by induction on the size of the sets. *)
LEMMA AddsExists ==
  ASSUME NEW S, IsFiniteSet(S), NEW w, \A x \in S : w[x] \in Nat
  PROVE  \E g \in [SUBSET S -> Nat] : Adds(w, S, g)
<1> DEFINE Step(g, s) == IF s = {} THEN 0 ELSE w[Chosen(s)] + g[s \ {Chosen(s)}]
           Upto(n) == \E g \in [SUBSET S -> Nat] :
                        \A s \in SUBSET S : Cardinality(s) <= n => g[s] = Step(g, s)
           Bad == {n \in Nat : ~ Upto(n)}
<1>1. \A s \in SUBSET S : IsFiniteSet(s) /\ Cardinality(s) \in Nat /\ Cardinality(s) <= Cardinality(S)
  BY FS_Subset, FS_CardinalityType
<1>2. \A s \in SUBSET S : s # {} =>
        /\ Chosen(s) \in s /\ s \ {Chosen(s)} \in SUBSET S
        /\ Cardinality(s \ {Chosen(s)}) = Cardinality(s) - 1
  BY <1>1, FS_RemoveElement DEF Chosen
<1>3. Upto(0)
  <2> DEFINE g == [s \in SUBSET S |-> 0]
  <2>1. \A s \in SUBSET S : Cardinality(s) <= 0 => s = {}
    BY <1>1, FS_EmptySet
  <2>2. g \in [SUBSET S -> Nat] /\ \A s \in SUBSET S : Cardinality(s) <= 0 => g[s] = Step(g, s)
    BY <2>1
  <2> QED BY <2>2
<1>4. ASSUME NEW n \in Nat, Upto(n) PROVE Upto(n + 1)
  <2>1. PICK g \in [SUBSET S -> Nat] : \A s \in SUBSET S : Cardinality(s) <= n => g[s] = Step(g, s)
    BY <1>4
  <2> DEFINE h == [s \in SUBSET S |-> Step(g, s)]
  <2>2. ASSUME NEW s \in SUBSET S PROVE Step(g, s) \in Nat
    <3>1. CASE s = {}
      BY <3>1
    <3>2. CASE s # {}
      <4>1. Chosen(s) \in S /\ s \ {Chosen(s)} \in SUBSET S
        BY <1>2, <3>2
      <4>2. w[Chosen(s)] \in Nat /\ g[s \ {Chosen(s)}] \in Nat
        BY <4>1
      <4> QED BY <3>2, <4>2
    <3> QED BY <3>1, <3>2
  <2>3. h \in [SUBSET S -> Nat]
    BY <2>2
  <2>4. ASSUME NEW s \in SUBSET S, Cardinality(s) <= n + 1 PROVE h[s] = Step(h, s)
    <3>1. h[s] = Step(g, s)
      OBVIOUS
    <3>2. CASE s = {}
      BY <3>1, <3>2
    <3>3. CASE s # {}
      <4> DEFINE t == s \ {Chosen(s)}
      <4>1. t \in SUBSET S /\ Cardinality(t) <= n
        BY <1>1, <1>2, <2>4, <3>3
      <4>2. g[t] = Step(g, t) /\ h[t] = Step(g, t)
        BY <2>1, <4>1
      <4>3. h[t] = g[t]
        BY <4>2
      <4> QED BY <3>1, <3>3, <4>3
    <3> QED BY <3>2, <3>3
  <2> QED BY <2>3, <2>4
<1>5. Bad = {}
  <2>1. ASSUME Bad # {} PROVE FALSE
    <3>1. PICK n \in Bad : \A m \in Bad : n <= m
      BY <2>1, Least
    <3>2. n \in Nat /\ n # 0 /\ ~ Upto(n)
      BY <1>3, <3>1
    <3>3. n - 1 \in Nat /\ n - 1 \notin Bad /\ (n - 1) + 1 = n
      <4>1. n - 1 \in Nat /\ ~ (n <= n - 1) /\ (n - 1) + 1 = n
        BY ONLY <3>2
      <4>2. n - 1 \notin Bad
        BY ONLY <3>1, <4>1
      <4> QED BY <4>1, <4>2
    <3>4. Upto(n - 1)
      BY <3>3
    <3>5. Upto((n - 1) + 1)
      BY <1>4, <3>3, <3>4
    <3> QED BY <3>2, <3>3, <3>5
  <2> QED BY <2>1
<1>6. Upto(Cardinality(S))
  BY <1>1, <1>5
<1>7. PICK g \in [SUBSET S -> Nat] : \A s \in SUBSET S : g[s] = Step(g, s)
  BY <1>1, <1>6
<1> QED BY <1>7 DEF Adds

(* Where two functions agree, so do the recursions: by induction on the    *)
(* size of the set.                                                        *)
LEMMA AddsAgree ==
  ASSUME NEW w, NEW S, NEW g, Adds(w, S, g), NEW v, NEW T, NEW h, Adds(v, T, h),
         NEW U, U \subseteq S, U \subseteq T, IsFiniteSet(U), \A x \in U : w[x] = v[x]
  PROVE  g[U] = h[U]
<1> DEFINE Bad == {n \in Nat : \E s \in SUBSET U : Cardinality(s) = n /\ g[s] # h[s]}
<1>1. \A s \in SUBSET U : IsFiniteSet(s) /\ Cardinality(s) \in Nat
  BY FS_Subset, FS_CardinalityType
<1>2. ASSUME Bad # {} PROVE FALSE
  <2>1. PICK n \in Bad : \A m \in Bad : n <= m
    BY <1>2, Least
  <2>2. PICK s \in SUBSET U : Cardinality(s) = n /\ g[s] # h[s]
    BY <2>1
  <2>3. /\ g[s] = IF s = {} THEN 0 ELSE w[Chosen(s)] + g[s \ {Chosen(s)}]
        /\ h[s] = IF s = {} THEN 0 ELSE v[Chosen(s)] + h[s \ {Chosen(s)}]
    BY DEF Adds
  <2>4. s # {}
    BY <2>2, <2>3
  <2>5. PICK t : t = s \ {Chosen(s)}
    OBVIOUS
  <2>6. Chosen(s) \in s /\ t \in SUBSET U
    BY <2>4, <2>5 DEF Chosen
  <2>7. Cardinality(t) \in Nat /\ Cardinality(t) = n - 1
    BY <1>1, <2>2, <2>5, <2>6, FS_RemoveElement
  <2>8. g[t] = h[t]
    <3>1. n - 1 \in Nat /\ ~ (n <= n - 1)
      BY <2>1, <2>7
    <3>2. n - 1 \notin Bad
      BY ONLY <2>1, <3>1
    <3> QED BY <2>6, <2>7, <3>1, <3>2
  <2>9. w[Chosen(s)] = v[Chosen(s)]
    BY <2>6
  <2> QED BY ONLY <2>2, <2>3, <2>5, <2>8, <2>9
<1>3. Cardinality(U) \in Nat /\ Cardinality(U) \notin Bad
  BY <1>1, <1>2
<1> QED BY <1>3

(* The sum is what the recursion gives for the whole set. *)
LEMMA SumAdds ==
  ASSUME NEW S, IsFiniteSet(S), NEW w, \A x \in S : w[x] \in Nat
  PROVE  \E g \in [SUBSET S -> Nat] : Adds(w, S, g) /\ Sum(w, S) = g[S]
<1>1. PICK f \in [SUBSET S -> Nat] : Adds(w, S, f)
  BY AddsExists
<1>2. PICK g : g = CHOOSE c : Adds(w, S, c)
  OBVIOUS
<1>3. Adds(w, S, g)
  BY <1>1, <1>2
<1>4. g[S] = f[S]
  BY <1>1, <1>3, AddsAgree
<1> QED BY <1>1, <1>2, <1>4 DEF Sum

(* A sum depends on the values that are added. *)
LEMMA SumLocal ==
  ASSUME NEW S, IsFiniteSet(S), NEW w, NEW v, \A x \in S : w[x] \in Nat /\ w[x] = v[x]
  PROVE  Sum(w, S) = Sum(v, S)
<1>1. PICK g \in [SUBSET S -> Nat] : Adds(w, S, g) /\ Sum(w, S) = g[S]
  BY SumAdds
<1>2. \A x \in S : v[x] \in Nat
  OBVIOUS
<1>3. PICK h \in [SUBSET S -> Nat] : Adds(v, S, h) /\ Sum(v, S) = h[S]
  BY <1>2, SumAdds
<1> QED BY <1>1, <1>3, AddsAgree

(* A sum of naturals over a finite set is a natural, and 0 over none. *)
LEMMA SumType ==
  ASSUME NEW S, IsFiniteSet(S), NEW w, \A x \in S : w[x] \in Nat
  PROVE  Sum(w, S) \in Nat /\ (S = {} => Sum(w, S) = 0)
<1>1. PICK g \in [SUBSET S -> Nat] : Adds(w, S, g) /\ Sum(w, S) = g[S]
  BY SumAdds
<1>2. S \in SUBSET S
  OBVIOUS
<1> QED BY <1>1, <1>2 DEF Adds

(* A sum is one value and the sum of the others, ... *)
LEMMA SumChosen ==
  ASSUME NEW S, IsFiniteSet(S), S # {}, NEW w, \A x \in S : w[x] \in Nat
  PROVE  Chosen(S) \in S /\ Sum(w, S) = w[Chosen(S)] + Sum(w, S \ {Chosen(S)})
<1>1. PICK g \in [SUBSET S -> Nat] : Adds(w, S, g) /\ Sum(w, S) = g[S]
  BY SumAdds
<1>2. PICK T : T = S \ {Chosen(S)}
  OBVIOUS
<1>3. Chosen(S) \in S /\ T \subseteq S /\ IsFiniteSet(T)
  BY <1>2, FS_RemoveElement DEF Chosen
<1>4. PICK h \in [SUBSET T -> Nat] : Adds(w, T, h) /\ Sum(w, T) = h[T]
  BY <1>3, SumAdds
<1>5. g[T] = h[T]
  BY <1>1, <1>3, <1>4, AddsAgree
<1>6. g[S] = w[Chosen(S)] + g[T]
  <2>1. S \in SUBSET S
    OBVIOUS
  <2> QED BY <1>1, <1>2, <2>1 DEF Adds
<1> QED BY <1>1, <1>2, <1>3, <1>4, <1>5, <1>6

(* ... whichever it is: by induction on the size of the set. *)
LEMMA SumRemove ==
  ASSUME NEW S, IsFiniteSet(S), NEW w, \A y \in S : w[y] \in Nat, NEW x \in S
  PROVE  Sum(w, S) = w[x] + Sum(w, S \ {x})
<1> DEFINE Good(s) == \A y \in s : Sum(w, s) = w[y] + Sum(w, s \ {y})
           Bad == {n \in Nat : \E s \in SUBSET S : Cardinality(s) = n /\ ~ Good(s)}
<1>1. ASSUME NEW s \in SUBSET S
      PROVE  IsFiniteSet(s) /\ Cardinality(s) \in Nat /\ (\A y \in s : w[y] \in Nat)
  BY FS_Subset, FS_CardinalityType
<1>2. ASSUME Bad # {} PROVE FALSE
  <2>1. PICK n \in Bad : \A m \in Bad : n <= m
    BY <1>2, Least
  <2>2. PICK s \in SUBSET S : Cardinality(s) = n /\ ~ Good(s)
    BY <2>1
  <2>3. PICK y \in s : Sum(w, s) # w[y] + Sum(w, s \ {y})
    BY <2>2
  <2>4. PICK c : c = Chosen(s)
    OBVIOUS
  <2>5. c \in s /\ Sum(w, s) = w[c] + Sum(w, s \ {c})
    BY <1>1, <2>3, <2>4, SumChosen
  <2>6. y # c
    BY <2>3, <2>5
  <2>7. ASSUME NEW z \in s PROVE Good(s \ {z})
    <3>1. PICK t : t = s \ {z}
      OBVIOUS
    <3>2. t \in SUBSET S /\ Cardinality(t) \in Nat /\ Cardinality(t) = n - 1
      BY <1>1, <2>2, <3>1, FS_RemoveElement
    <3>3. n - 1 \in Nat /\ ~ (n <= n - 1)
      BY <2>1, <3>2
    <3>4. n - 1 \notin Bad
      BY ONLY <2>1, <3>3
    <3>5. Good(t)
      BY <3>2, <3>3, <3>4
    <3> QED BY <3>1, <3>5
  <2>8. Sum(w, s \ {c}) = w[y] + Sum(w, (s \ {c}) \ {y})
    BY <2>5, <2>6, <2>7
  <2>9. PICK t : t = s \ {c, y}
    OBVIOUS
  <2>10. (s \ {c}) \ {y} = t /\ (s \ {y}) \ {c} = t /\ t \in SUBSET S
    BY <2>9
  <2>11. Sum(w, s \ {y}) = w[c] + Sum(w, t)
    <3>1. Good(s \ {y}) /\ c \in s \ {y}
      BY <2>5, <2>6, <2>7
    <3> QED BY <2>10, <3>1
  <2>12. w[c] \in Nat /\ w[y] \in Nat /\ Sum(w, t) \in Nat
    BY <1>1, <2>5, <2>10, SumType
  <2>13. Sum(w, s \ {c}) = w[y] + Sum(w, t)
    BY ONLY <2>8, <2>10
  <2>14. Sum(w, s) = w[c] + (w[y] + Sum(w, t))
    BY ONLY <2>5, <2>13
  <2>15. w[c] + (w[y] + Sum(w, t)) = w[y] + (w[c] + Sum(w, t))
    BY ONLY <2>12
  <2>16. Sum(w, s) = w[y] + Sum(w, s \ {y})
    BY ONLY <2>11, <2>14, <2>15
  <2> QED BY ONLY <2>3, <2>16
<1>3. S \in SUBSET S /\ Cardinality(S) \notin Bad
  BY <1>2
<1>4. Good(S)
  BY <1>1, <1>3
<1> QED BY <1>4

(* A sum is the sum of its parts: by induction on the size of one part. *)
LEMMA SumParts ==
  ASSUME NEW S, IsFiniteSet(S), NEW w, \A x \in S : w[x] \in Nat, NEW A, A \subseteq S
  PROVE  Sum(w, S) = Sum(w, A) + Sum(w, S \ A)
<1> DEFINE Good(B) == Sum(w, S) = Sum(w, B) + Sum(w, S \ B)
           Bad == {n \in Nat : \E B \in SUBSET S : Cardinality(B) = n /\ ~ Good(B)}
<1>1. ASSUME NEW B \in SUBSET S
      PROVE  IsFiniteSet(B) /\ Cardinality(B) \in Nat /\ (\A x \in B : w[x] \in Nat)
  BY FS_Subset, FS_CardinalityType
<1>2. ASSUME Bad # {} PROVE FALSE
  <2>1. PICK n \in Bad : \A m \in Bad : n <= m
    BY <1>2, Least
  <2>2. PICK B \in SUBSET S : Cardinality(B) = n /\ Sum(w, S) # Sum(w, B) + Sum(w, S \ B)
    BY <2>1
  <2>3. B # {}
    <3>1. ASSUME B = {} PROVE Good(B)
      <4>1. Sum(w, {}) = 0 /\ Sum(w, S) \in Nat /\ S \ B = S
        BY <3>1, FS_EmptySet, SumType
      <4> QED BY <3>1, <4>1
    <3> QED BY <2>2, <3>1
  <2>4. PICK x : x \in B
    BY <2>3
  <2>5. PICK C : C = B \ {x}
    OBVIOUS
  <2>6. /\ C \in SUBSET S /\ Cardinality(C) \in Nat /\ Cardinality(C) = n - 1
        /\ (S \ C) \ {x} = S \ B /\ x \in S \ C /\ S \ C \in SUBSET S /\ S \ B \in SUBSET S
    BY <1>1, <2>2, <2>4, <2>5, FS_RemoveElement
  <2>7. Sum(w, S) = Sum(w, C) + Sum(w, S \ C)
    <3>1. n - 1 \in Nat /\ ~ (n <= n - 1)
      BY <2>1, <2>6
    <3>2. n - 1 \notin Bad
      BY ONLY <2>1, <3>1
    <3> QED BY <2>6, <3>1, <3>2
  <2>8. Sum(w, B) = w[x] + Sum(w, C)
    BY <1>1, <2>4, <2>5, SumRemove
  <2>9. Sum(w, S \ C) = w[x] + Sum(w, S \ B)
    <3>1. PICK D : D = S \ C
      OBVIOUS
    <3>2. Sum(w, D) = w[x] + Sum(w, D \ {x})
      BY <1>1, <2>6, <3>1, SumRemove
    <3> QED BY <2>6, <3>1, <3>2
  <2>10. w[x] \in Nat /\ Sum(w, C) \in Nat /\ Sum(w, S \ B) \in Nat
    BY <1>1, <2>4, <2>6, SumType
  <2> QED BY ONLY <2>2, <2>7, <2>8, <2>9, <2>10
<1>3. A \in SUBSET S /\ Cardinality(A) \notin Bad
  BY <1>2
<1>4. Good(A)
  BY <1>1, <1>3
<1> QED BY <1>4

-----------------------------------------------------------------------------
(* Without leaves the other members of a list.                             *)
Members(q) == {q[i] : i \in DOMAIN q}

Keeps(q, S, g) ==
  g = [i \in 0..Len(q) |->
         IF i = 0 THEN <<>>
         ELSE IF q[i] \in S THEN g[i - 1] ELSE Append(g[i - 1], q[i])]

(* The fold that takes keys out of the order is a recursive function. *)
LEMMA WithoutIs ==
  ASSUME NEW q, NEW S
  PROVE  Cache!Without(q, S) = (CHOOSE g : Keeps(q, S, g))[Len(q)]
BY DEF Cache!Without, Keeps

(* The recursion defines a function. *)
LEMMA KeepsExists ==
  ASSUME NEW q \in Seq(Key), NEW S
  PROVE  \E g \in [0..Len(q) -> Seq(Key)] : Keeps(q, S, g)
<1> DEFINE n == Len(q)
           Step(g, i) == IF i = 0 THEN <<>>
                         ELSE IF q[i] \in S THEN g[i - 1] ELSE Append(g[i - 1], q[i])
           Upto(m) == \E g \in [0..n -> Seq(Key)] : \A i \in 0..n : i <= m => g[i] = Step(g, i)
           Bad == {m \in Nat : ~ Upto(m)}
<1>1. n \in Nat /\ \A i \in 1..n : q[i] \in Key
  OBVIOUS
<1> HIDE DEF n
<1>2. Upto(0)
  <2> DEFINE g == [i \in 0..n |-> <<>>]
  <2>1. g \in [0..n -> Seq(Key)]
    OBVIOUS
  <2>2. \A i \in 0..n : i <= 0 => g[i] = Step(g, i)
    BY <1>1
  <2> QED BY <2>1, <2>2
<1>3. ASSUME NEW m \in Nat, Upto(m) PROVE Upto(m + 1)
  <2>1. PICK g \in [0..n -> Seq(Key)] : \A i \in 0..n : i <= m => g[i] = Step(g, i)
    BY <1>3
  <2> DEFINE h == [i \in 0..n |-> Step(g, i)]
  <2>2. ASSUME NEW i \in 0..n PROVE Step(g, i) \in Seq(Key)
    <3>1. CASE i = 0
      BY <3>1
    <3>2. CASE i # 0
      <4>1. g[i - 1] \in Seq(Key) /\ q[i] \in Key
        BY <1>1, <3>2
      <4> QED BY <3>2, <4>1
    <3> QED BY <3>1, <3>2
  <2>3. h \in [0..n -> Seq(Key)]
    BY <2>2
  <2>4. ASSUME NEW i \in 0..n, i <= m + 1 PROVE h[i] = Step(h, i)
    <3>1. h[i] = Step(g, i)
      OBVIOUS
    <3>2. CASE i = 0
      BY <3>1, <3>2
    <3>3. CASE i # 0
      <4>1. i - 1 \in 0..n /\ i - 1 <= m
        BY <1>1, <2>4, <3>3
      <4>2. g[i - 1] = Step(g, i - 1) /\ h[i - 1] = Step(g, i - 1)
        BY <2>1, <4>1
      <4>3. h[i - 1] = g[i - 1]
        BY <4>2
      <4> HIDE DEF h
      <4> QED BY <3>1, <3>3, <4>3
    <3> QED BY <3>2, <3>3
  <2> QED BY <2>3, <2>4
<1>4. ASSUME Bad # {} PROVE FALSE
  <2>1. PICK m \in Bad : \A l \in Bad : m <= l
    BY <1>4, Least
  <2>2. m \in Nat /\ m # 0 /\ ~ Upto(m)
    BY <1>2, <2>1
  <2>3. m - 1 \in Nat /\ ~ (m <= m - 1) /\ (m - 1) + 1 = m
    BY ONLY <2>2
  <2>4. m - 1 \notin Bad
    BY ONLY <2>1, <2>3
  <2>5. Upto(m - 1)
    BY <2>3, <2>4
  <2>6. Upto((m - 1) + 1)
    BY <1>3, <2>3, <2>5
  <2> QED BY <2>2, <2>3, <2>6
<1>5. Upto(n)
  BY <1>1, <1>4
<1>6. PICK g \in [0..n -> Seq(Key)] : \A i \in 0..n : g[i] = Step(g, i)
  <2>1. PICK g \in [0..n -> Seq(Key)] : \A i \in 0..n : i <= n => g[i] = Step(g, i)
    BY <1>5
  <2>2. \A i \in 0..n : i <= n
    BY <1>1
  <2>3. \A i \in 0..n : g[i] = Step(g, i)
    BY <2>1, <2>2
  <2> QED BY <2>3
<1> QED BY <1>6 DEF Keeps, n

(* By induction on the length of the prefix.                               *)
LEMMA WithoutKeeps ==
  ASSUME NEW q \in Seq(Key), NEW S
  PROVE  /\ Cache!Without(q, S) \in Seq(Key)
         /\ Members(Cache!Without(q, S)) = Members(q) \ S
<1>1. PICK f \in [0..Len(q) -> Seq(Key)] : Keeps(q, S, f)
  BY KeepsExists
<1>2. PICK g : g = CHOOSE c : Keeps(q, S, c)
  OBVIOUS
<1>3. Keeps(q, S, g)
  BY <1>1, <1>2
<1> DEFINE Good(i) == /\ g[i] \in Seq(Key)
                      /\ Members(g[i]) = {q[j] : j \in 1..i} \ S
           Bad == {i \in 0..Len(q) : ~ Good(i)}
<1>4. /\ Len(q) \in Nat /\ DOMAIN q = 1..Len(q) /\ g[0] = <<>>
      /\ \A i \in 1..Len(q) : /\ g[i] = IF q[i] \in S THEN g[i - 1] ELSE Append(g[i - 1], q[i])
                             /\ q[i] \in Key
  <2>1. Len(q) \in Nat /\ DOMAIN q = 1..Len(q) /\ \A i \in 1..Len(q) : q[i] \in Key
    OBVIOUS
  <2>2. g[0] = <<>>
    <3>1. 0 \in 0..Len(q)
      BY <2>1
    <3> QED BY <1>3, <3>1 DEF Keeps
  <2>3. ASSUME NEW i \in 1..Len(q)
        PROVE  g[i] = IF q[i] \in S THEN g[i - 1] ELSE Append(g[i - 1], q[i])
    <3>1. i \in 0..Len(q) /\ i # 0
      BY <2>1
    <3> QED BY <1>3, <3>1 DEF Keeps
  <2> QED BY <2>1, <2>2, <2>3
<1>5. Good(0)
  BY <1>4 DEF Members
<1>6. ASSUME NEW i \in 1..Len(q), Good(i - 1) PROVE Good(i)
  <2>1. PICK p : p = g[i - 1]
    OBVIOUS
  <2>2. PICK P : P = {q[j] : j \in 1..(i - 1)}
    OBVIOUS
  <2>3. p \in Seq(Key) /\ Members(p) = P \ S
    BY <1>6, <2>1, <2>2
  <2>4. {q[j] : j \in 1..i} = P \cup {q[i]}
    <3>1. 1..i = (1..(i - 1)) \cup {i}
      OBVIOUS
    <3> QED BY <2>2, <3>1
  <2>5. CASE q[i] \in S
    <3>1. g[i] = p
      BY <1>4, <2>1, <2>5
    <3> QED BY <2>3, <2>4, <2>5, <3>1
  <2>6. CASE q[i] \notin S
    <3>1. g[i] = Append(p, q[i]) /\ q[i] \in Key
      BY <1>4, <2>1, <2>6
    <3>2. /\ Append(p, q[i]) \in Seq(Key)
          /\ DOMAIN p = 1..Len(p) /\ Len(p) \in Nat
          /\ DOMAIN Append(p, q[i]) = 1..(Len(p) + 1)
          /\ \A j \in 1..Len(p) : Append(p, q[i])[j] = p[j]
          /\ Append(p, q[i])[Len(p) + 1] = q[i]
      BY <2>3, <3>1
    <3>3. Members(Append(p, q[i])) = Members(p) \cup {q[i]}
      <4>1. DOMAIN Append(p, q[i]) = DOMAIN p \cup {Len(p) + 1}
        BY <3>2
      <4> QED BY <3>2, <4>1 DEF Members
    <3> QED BY <2>3, <2>4, <2>6, <3>1, <3>2, <3>3
  <2> QED BY <2>5, <2>6
<1> HIDE DEF Good
<1>7. ASSUME Bad # {} PROVE FALSE
  <2>1. PICK i \in Bad : \A l \in Bad : i <= l
    <3>1. Bad \subseteq Nat
      BY <1>4
    <3> QED BY <1>7, <3>1, Least
  <2>2. i \in 1..Len(q) /\ ~ Good(i)
    BY <1>5, <2>1
  <2>3. i - 1 \in 0..Len(q) /\ ~ (i <= i - 1)
    BY <1>4, <2>2
  <2>4. i - 1 \notin Bad
    BY ONLY <2>1, <2>3
  <2>5. Good(i - 1)
    BY <2>3, <2>4
  <2> QED BY <1>6, <2>2, <2>5
<1>8. Good(Len(q))
  BY <1>4, <1>7
<1> USE DEF Good
<1>9. Members(q) = {q[j] : j \in 1..Len(q)}
  BY <1>4 DEF Members
<1> QED BY <1>2, <1>8, <1>9, WithoutIs

-----------------------------------------------------------------------------
(* Cache: the size it keeps is that of its entries. *)
CacheAssumption == Cache!NilAssumption /\ Cache!LimitsAssumption /\ Cache!SizeAssumption

Held(e) == Cache!Held(e)
Weights(e) == [k \in Held(e) |-> SizeOf(e[k])]
Fits == \A v \in Version : SizeOf(v) <= MaxSize

(* Entries e within the limits, and their keys in the list o.              *)
MapOK(e, o) ==
  /\ e \in [Key -> Version \cup {Nil}]
  /\ o \in Seq(Key) /\ Members(o) = Held(e)
  /\ Fits => Sum(Weights(e), Held(e)) <= MaxSize
  /\ Cardinality(Held(e)) <= MaxEntries + 1

(* The map and the index are such entries.                                 *)
SizeInv ==
  /\ MapOK(entry, order)
  /\ MapOK(index.entry, index.order)
  /\ old \subseteq Held(entry)
  /\ currentSize = Sum(Weights(entry), Held(entry))

(* The instance counts as the library does, so its facts apply. *)
LEMMA SameCardinality ==
  ASSUME NEW S PROVE Cache!Cardinality(S) = Cardinality(S)
BY DEF Cache!Cardinality, Cardinality

(* The size of the cache in the model is the sum of the weights. *)
LEMMA SizeInIs ==
  ASSUME NEW e, NEW S PROVE Cache!SizeIn(e, S) = Sum(Weights(e), S)
BY SumIs DEF Cache!SizeIn, Weights, Held

(* A key that has an entry weighs the size of it, a natural. *)
LEMMA WeightsType ==
  ASSUME CacheAssumption, NEW e \in [Key -> Version \cup {Nil}]
  PROVE  \A k \in Held(e) : Weights(e)[k] = SizeOf(e[k]) /\ Weights(e)[k] \in Nat
BY DEF CacheAssumption, Cache!NilAssumption, Cache!SizeAssumption, Weights, Held, Cache!Held

(* The members of a list from one place on are not more than the places.   *)
LEMMA MembersCount ==
  ASSUME NEW q \in Seq(Key), NEW n \in 0..Len(q)
  PROVE  /\ IsFiniteSet({q[i] : i \in (n + 1)..Len(q)})
         /\ Cardinality({q[i] : i \in (n + 1)..Len(q)}) <= Len(q) - n
<1> DEFINE D == (n + 1)..Len(q)
           T == {q[i] : i \in D}
           f == [i \in D |-> q[i]]
<1>1. n \in Nat /\ Len(q) \in Nat /\ n <= Len(q)
  OBVIOUS
<1>2. IsFiniteSet(D) /\ Cardinality(D) = Len(q) - n
  <2>1. IsFiniteSet(D) /\ Cardinality(D) = IF n + 1 > Len(q) THEN 0 ELSE Len(q) - (n + 1) + 1
    <3>1. n + 1 \in Int /\ Len(q) \in Int
      BY <1>1
    <3> QED BY <3>1, FS_Interval
  <2> QED BY ONLY <1>1, <2>1
<1>3. f \in Surjection(D, T)
  BY DEF Surjection
<1> HIDE DEF D, T, f
<1>4. IsFiniteSet(T) /\ Cardinality(T) <= Cardinality(D)
  BY <1>2, <1>3, FS_Surjection
<1> QED BY <1>2, <1>4 DEF T, D

(* Keys that have an entry are finitely many. *)
LEMMA HeldFinite ==
  ASSUME NEW e, NEW o, MapOK(e, o)
  PROVE  IsFiniteSet(Held(e)) /\ Cardinality(Held(e)) <= Len(o) /\ Cardinality(Held(e)) \in Nat
<1>1. o \in Seq(Key) /\ Len(o) \in Nat /\ 0 \in 0..Len(o) /\ DOMAIN o = 1..Len(o)
  BY DEF MapOK
<1>2. IsFiniteSet({o[i] : i \in (0 + 1)..Len(o)}) /\ Cardinality({o[i] : i \in (0 + 1)..Len(o)}) <= Len(o) - 0
  BY <1>1, MembersCount
<1>3. Held(e) = {o[i] : i \in (0 + 1)..Len(o)} /\ Len(o) - 0 = Len(o)
  BY <1>1 DEF MapOK, Members
<1>4. IsFiniteSet(Held(e)) /\ Cardinality(Held(e)) <= Len(o)
  BY ONLY <1>2, <1>3
<1> QED BY <1>4, FS_CardinalityType

(* The entries e without those of S, and with one for k.                   *)
Dropped(f, e, S) == f = [k \in Key |-> IF k \in S THEN Nil ELSE e[k]]
Entered(f, e, k, v) == f = [e EXCEPT ![k] = v]

RoomFor(e, k, v) ==
  /\ k \notin Held(e) /\ Cardinality(Held(e)) <= MaxEntries
  /\ Fits => Sum(Weights(e), Held(e)) + SizeOf(v) <= MaxSize

Leaves(f, e, o, S) ==
  /\ MapOK(f, Cache!Without(o, S))
  /\ Held(f) = Held(e) \ S
  /\ Sum(Weights(f), Held(f)) = Sum(Weights(e), Held(e) \ S)
  /\ Sum(Weights(e), Held(e) \ S) = Sum(Weights(e), Held(e)) - Sum(Weights(e), Held(e) \cap S)
  /\ Sum(Weights(f), Held(f)) \in Nat

Holds(f, e, o, k, v) ==
  /\ MapOK(f, Append(o, k))
  /\ Held(f) = Held(e) \cup {k}
  /\ Sum(Weights(f), Held(f)) = Sum(Weights(e), Held(e)) + SizeOf(v)

(* Entries that go leave the sum of the others. *)
LEMMA RestrictMap ==
  ASSUME CacheAssumption, NEW e, NEW o, MapOK(e, o), NEW S, NEW f, Dropped(f, e, S)
  PROVE  Leaves(f, e, o, S)
<1>1. e \in [Key -> Version \cup {Nil}] /\ f \in [Key -> Version \cup {Nil}]
  BY DEF MapOK, Dropped
<1>2. Held(f) = Held(e) \ S /\ \A k \in Held(f) : f[k] = e[k]
  BY <1>1 DEF Held, Cache!Held, Dropped
<1>3. IsFiniteSet(Held(e)) /\ Cardinality(Held(e)) \in Nat
  BY HeldFinite
<1>4. /\ IsFiniteSet(Held(f)) /\ Cardinality(Held(f)) <= Cardinality(Held(e))
      /\ Cardinality(Held(f)) \in Nat
  <2>1. Held(f) \in SUBSET Held(e)
    BY <1>2
  <2> QED BY <1>3, <2>1, FS_Subset, FS_CardinalityType
<1>5. \A k \in Held(f) : Weights(f)[k] \in Nat /\ Weights(f)[k] = Weights(e)[k]
  BY <1>1, <1>2, WeightsType
<1>6. Sum(Weights(f), Held(f)) = Sum(Weights(e), Held(f))
  BY <1>4, <1>5, SumLocal
<1>7. Sum(Weights(f), Held(f)) \in Nat
  BY <1>4, <1>5, SumType
<1>8. PICK A : A = Held(e) \cap S
  OBVIOUS
<1>9. A \subseteq Held(e) /\ Held(e) \ A = Held(e) \ S
  BY <1>8
<1>10. \A k \in Held(e) : Weights(e)[k] \in Nat
  BY <1>1, WeightsType
<1>11. Sum(Weights(e), A) \in Nat
  <2>1. IsFiniteSet(A)
    BY <1>3, <1>9, FS_Subset
  <2> QED BY <1>9, <1>10, <2>1, SumType
<1>12. Sum(Weights(e), Held(e)) = Sum(Weights(e), A) + Sum(Weights(e), Held(e) \ A)
  BY <1>3, <1>9, <1>10, SumParts
<1>13. Sum(Weights(e), Held(e)) = Sum(Weights(e), A) + Sum(Weights(f), Held(f))
  BY <1>2, <1>6, <1>9, <1>12
<1>14. Fits => Sum(Weights(f), Held(f)) <= MaxSize
  BY <1>7, <1>11, <1>13 DEF MapOK, CacheAssumption, Cache!LimitsAssumption
<1>15. Cardinality(Held(f)) <= MaxEntries + 1
  BY <1>3, <1>4 DEF MapOK, CacheAssumption, Cache!LimitsAssumption
<1>16. Cache!Without(o, S) \in Seq(Key) /\ Members(Cache!Without(o, S)) = Held(f)
  BY <1>2, WithoutKeeps DEF MapOK
<1>17. MapOK(f, Cache!Without(o, S))
  BY <1>1, <1>14, <1>15, <1>16 DEF MapOK
<1>18. Sum(Weights(e), Held(e) \ S) = Sum(Weights(e), Held(e)) - Sum(Weights(e), A)
  <2>1. Sum(Weights(f), Held(f)) = Sum(Weights(e), Held(e)) - Sum(Weights(e), A)
    BY ONLY <1>7, <1>11, <1>13
  <2> QED BY ONLY <2>1, <1>2, <1>6
<1> QED BY <1>2, <1>6, <1>7, <1>8, <1>17, <1>18 DEF Leaves

(* An entry that comes adds its size. *)
LEMMA InsertMap ==
  ASSUME CacheAssumption, NEW e, NEW o, MapOK(e, o), NEW k \in Key, NEW v \in Version,
         NEW f, Entered(f, e, k, v), RoomFor(e, k, v)
  PROVE  Holds(f, e, o, k, v)
<1>1. e \in [Key -> Version \cup {Nil}] /\ f \in [Key -> Version \cup {Nil}] /\ SizeOf(v) \in Nat
  BY DEF MapOK, CacheAssumption, Cache!SizeAssumption, Entered
<1>2. Held(f) = Held(e) \cup {k} /\ f[k] = v /\ \A x \in Held(e) : f[x] = e[x]
  BY <1>1 DEF Entered, RoomFor, Held, Cache!Held, CacheAssumption, Cache!NilAssumption
<1>3. IsFiniteSet(Held(e)) /\ Cardinality(Held(e)) \in Nat
  BY HeldFinite
<1>4. IsFiniteSet(Held(f)) /\ Cardinality(Held(f)) = Cardinality(Held(e)) + 1
  <2>1. /\ IsFiniteSet(Held(e) \cup {k})
        /\ Cardinality(Held(e) \cup {k}) = IF k \in Held(e) THEN Cardinality(Held(e)) ELSE Cardinality(Held(e)) + 1
    BY <1>3, FS_AddElement
  <2> QED BY <1>2, <2>1 DEF RoomFor
<1>5. /\ \A x \in Held(f) : Weights(f)[x] \in Nat
      /\ \A x \in Held(e) : Weights(f)[x] \in Nat /\ Weights(f)[x] = Weights(e)[x]
      /\ Weights(f)[k] = SizeOf(v)
  <2>1. \A x \in Held(f) : Weights(f)[x] = SizeOf(f[x]) /\ Weights(f)[x] \in Nat
    BY <1>1, WeightsType
  <2>2. \A x \in Held(e) : Weights(e)[x] = SizeOf(e[x])
    BY <1>1, WeightsType
  <2> QED BY <1>2, <2>1, <2>2
<1>6. Sum(Weights(f), Held(e)) = Sum(Weights(e), Held(e))
  BY <1>3, <1>5, SumLocal
<1>7. Sum(Weights(e), Held(e)) \in Nat
  BY <1>3, <1>5, <1>6, SumType
<1>8. Sum(Weights(f), Held(f)) = Weights(f)[k] + Sum(Weights(f), Held(f) \ {k})
  <2>1. k \in Held(f) /\ IsFiniteSet(Held(f)) /\ \A x \in Held(f) : Weights(f)[x] \in Nat
    BY <1>2, <1>4, <1>5
  <2> QED BY ONLY <2>1, SumRemove
<1>9. Held(f) \ {k} = Held(e)
  BY <1>2 DEF RoomFor
<1>10. Sum(Weights(f), Held(f)) = Sum(Weights(e), Held(e)) + SizeOf(v)
  <2>1. Sum(Weights(f), Held(f)) = SizeOf(v) + Sum(Weights(e), Held(e))
    BY ONLY <1>5, <1>6, <1>8, <1>9
  <2> QED BY ONLY <1>1, <1>7, <2>1
<1>11. Append(o, k) \in Seq(Key) /\ Members(Append(o, k)) = Held(f)
  <2>1. /\ o \in Seq(Key) /\ Members(o) = Held(e)
        /\ Append(o, k) \in Seq(Key) /\ DOMAIN Append(o, k) = DOMAIN o \cup {Len(o) + 1}
        /\ \A i \in DOMAIN o : Append(o, k)[i] = o[i]
        /\ Append(o, k)[Len(o) + 1] = k
    BY DEF MapOK
  <2>2. Members(Append(o, k)) = Members(o) \cup {k}
    BY <2>1 DEF Members
  <2> QED BY <1>2, <2>1, <2>2
<1>12. Cardinality(Held(f)) <= MaxEntries + 1
  BY <1>3, <1>4 DEF RoomFor, CacheAssumption, Cache!LimitsAssumption
<1>13. Fits => Sum(Weights(f), Held(f)) <= MaxSize
  BY <1>10 DEF RoomFor
<1> QED BY <1>1, <1>2, <1>10, <1>11, <1>12, <1>13 DEF MapOK, Holds

-----------------------------------------------------------------------------
(* How many of the oldest entries go: enough to make room, or all of them. *)
LEMMA Evicts ==
  ASSUME CacheAssumption, SizeInv, NEW v \in Version
  PROVE  \E n \in 0..Len(order) :
           /\ Cache!EvictCount(SizeOf(v)) = n
           /\ Len(order) - n <= MaxEntries
           /\ \/ currentSize - Sum(Weights(entry), {order[i] : i \in 1..n}) + SizeOf(v) <= MaxSize
              \/ n = Len(order)
<1> DEFINE fits(n) == /\ currentSize - Cache!Sizes({order[i] : i \in 1..n}) + SizeOf(v) <= MaxSize
                      /\ Len(order) - n - 1 < MaxEntries
           T == {n \in 0..Len(order) : fits(n)} \cup {Len(order)}
<1>1. Len(order) \in Nat /\ MaxEntries \in Nat \ {0}
  BY DEF SizeInv, MapOK, CacheAssumption, Cache!LimitsAssumption
<1>2. Cache!EvictCount(SizeOf(v)) = CHOOSE n \in T : \A m \in T : n <= m
  BY DEF Cache!EvictCount, Cache!Min
<1>3. T \subseteq Nat /\ T # {}
  BY <1>1
<1>4. PICK n \in T : Cache!EvictCount(SizeOf(v)) = n
  <2> HIDE DEF T
  <2> QED BY <1>2, <1>3, Least
<1>5. n \in 0..Len(order) /\ (fits(n) \/ n = Len(order))
  BY <1>1
<1>6. Len(order) - n <= MaxEntries
  BY <1>1, <1>5
<1>7. Cache!Sizes({order[i] : i \in 1..n}) = Sum(Weights(entry), {order[i] : i \in 1..n})
  BY SizeInIs DEF Cache!Sizes
<1> QED BY <1>4, <1>5, <1>6, <1>7

(* What goes leaves room for one more, and for its size when files fit.    *)
LEMMA EvictedLeavesRoom ==
  ASSUME CacheAssumption, SizeInv, NEW v \in Version
  PROVE  /\ Cache!Evicted(v) \subseteq Held(entry)
         /\ Cardinality(Held(entry) \ Cache!Evicted(v)) <= MaxEntries
         /\ Fits => currentSize - Sum(Weights(entry), Cache!Evicted(v)) + SizeOf(v) <= MaxSize
<1>1. /\ order \in Seq(Key) /\ Len(order) \in Nat /\ DOMAIN order = 1..Len(order)
      /\ Held(entry) = {order[i] : i \in 1..Len(order)}
  BY DEF SizeInv, MapOK, Members
<1>2. /\ IsFiniteSet(Held(entry)) /\ Cardinality(Held(entry)) <= Len(order)
      /\ Cardinality(Held(entry)) \in Nat
  BY HeldFinite DEF SizeInv
<1>3. currentSize = Sum(Weights(entry), Held(entry)) /\ SizeOf(v) \in Nat
      /\ MaxSize \in Nat /\ MaxEntries \in Nat \ {0}
  BY DEF SizeInv, CacheAssumption, Cache!SizeAssumption, Cache!LimitsAssumption
<1>4. \A k \in Held(entry) : Weights(entry)[k] \in Nat
  BY WeightsType DEF SizeInv, MapOK
<1>5. Sum(Weights(entry), Held(entry)) \in Nat /\ Sum(Weights(entry), {}) = 0
  BY <1>2, <1>4, SumType, FS_EmptySet
<1>6. CASE currentSize + SizeOf(v) > MaxSize \/ Len(order) >= MaxEntries
  <2>1. PICK n \in 0..Len(order) :
           /\ Cache!EvictCount(SizeOf(v)) = n
           /\ Len(order) - n <= MaxEntries
           /\ \/ currentSize - Sum(Weights(entry), {order[i] : i \in 1..n}) + SizeOf(v) <= MaxSize
              \/ n = Len(order)
    BY Evicts
  <2>2. Cache!Evicted(v) = {order[i] : i \in 1..n}
    BY <1>6, <2>1 DEF Cache!Evicted
  <2>3. Cache!Evicted(v) \subseteq Held(entry)
    BY <1>1, <2>2
  <2>4. Cardinality(Held(entry) \ Cache!Evicted(v)) <= MaxEntries
    <3>1. PICK T : T = {order[i] : i \in (n + 1)..Len(order)}
      OBVIOUS
    <3>2. IsFiniteSet(T) /\ Cardinality(T) <= Len(order) - n
      BY <1>1, <3>1, MembersCount
    <3>3. Held(entry) \ Cache!Evicted(v) \in SUBSET T
      <4>1. \A i \in 1..Len(order) : i \in 1..n \/ i \in (n + 1)..Len(order)
        BY <1>1
      <4> QED BY <1>1, <2>2, <3>1, <4>1
    <3>4. /\ Cardinality(Held(entry) \ Cache!Evicted(v)) <= Cardinality(T)
          /\ Cardinality(Held(entry) \ Cache!Evicted(v)) \in Nat /\ Cardinality(T) \in Nat
      BY <3>2, <3>3, FS_Subset, FS_CardinalityType
    <3>5. Len(order) - n \in Nat /\ Len(order) - n <= MaxEntries
      BY <1>1, <2>1
    <3> QED BY ONLY <1>3, <3>2, <3>4, <3>5
  <2>5. ASSUME Fits
        PROVE  currentSize - Sum(Weights(entry), Cache!Evicted(v)) + SizeOf(v) <= MaxSize
    <3>1. CASE n = Len(order)
      <4>1. Cache!Evicted(v) = Held(entry) /\ SizeOf(v) <= MaxSize
        BY <1>1, <2>2, <2>5, <3>1 DEF Fits
      <4> QED BY <1>3, <1>5, <4>1
    <3>2. CASE n # Len(order)
      BY <2>1, <2>2, <3>2
    <3> QED BY <3>1, <3>2
  <2> QED BY <2>3, <2>4, <2>5
<1>7. CASE ~ (currentSize + SizeOf(v) > MaxSize \/ Len(order) >= MaxEntries)
  <2>1. Cache!Evicted(v) = {} /\ Held(entry) \ {} = Held(entry)
    BY <1>7 DEF Cache!Evicted
  <2>2. Len(order) < MaxEntries /\ currentSize + SizeOf(v) <= MaxSize
    BY <1>1, <1>3, <1>5, <1>7
  <2>3. currentSize - 0 + SizeOf(v) <= MaxSize
    BY <1>3, <1>5, <2>2
  <2> QED BY <1>1, <1>2, <1>3, <1>5, <2>1, <2>2, <2>3
<1> QED BY <1>6, <1>7

(* Put drops what goes and the entry it replaces, then adds its own.       *)
LEMMA PutSize ==
  ASSUME CacheAssumption, SizeInv, NEW k \in Key, NEW v \in Version, Cache!Put(k, v)
  PROVE  SizeInv'
<1>1. PICK S : S = Cache!Evicted(v) \cup (IF entry[k] = Nil THEN {} ELSE {k})
  OBVIOUS
<1>2. /\ entry' = [x \in Key |-> IF x = k THEN v ELSE IF x \in S THEN Nil ELSE entry[x]]
      /\ order' = Append(Cache!Without(order, S \cup {k}), k)
      /\ old' = old \ (S \cup {k})
      /\ currentSize' = currentSize - Sum(Weights(entry), S) + SizeOf(v)
      /\ index' = index
  BY <1>1, SizeInIs DEF Cache!Put, Cache!Sizes
<1>3. /\ S \subseteq Held(entry) /\ (k \in S <=> k \in Held(entry))
      /\ Cache!Evicted(v) \subseteq S
  BY <1>1, EvictedLeavesRoom DEF Held, Cache!Held
<1>4. PICK e : e = [x \in Key |-> IF x \in S \cup {k} THEN Nil ELSE entry[x]]
  OBVIOUS
<1>5. MapOK(entry, order) /\ MapOK(index.entry, index.order) /\ old \subseteq Held(entry)
      /\ currentSize = Sum(Weights(entry), Held(entry))
  BY DEF SizeInv
<1>6. /\ MapOK(e, Cache!Without(order, S \cup {k}))
      /\ Held(e) = Held(entry) \ (S \cup {k})
      /\ Sum(Weights(e), Held(e))
           = Sum(Weights(entry), Held(entry)) - Sum(Weights(entry), Held(entry) \cap (S \cup {k}))
      /\ Sum(Weights(e), Held(e)) \in Nat
  <2>1. Dropped(e, entry, S \cup {k})
    BY <1>4 DEF Dropped
  <2>2. Leaves(e, entry, order, S \cup {k})
    BY <1>5, <2>1, RestrictMap
  <2> QED BY <2>2 DEF Leaves
<1>7. Held(entry) \cap (S \cup {k}) = S /\ Held(e) = Held(entry) \ S
  BY <1>3, <1>6
<1>8. Sum(Weights(e), Held(e)) = currentSize - Sum(Weights(entry), S)
  BY <1>5, <1>6, <1>7
<1>9. Cardinality(Held(e)) <= MaxEntries
  <2>1. IsFiniteSet(Held(entry) \ Cache!Evicted(v))
    BY <1>5, HeldFinite, FS_Subset
  <2>2. Held(e) \in SUBSET (Held(entry) \ Cache!Evicted(v))
    BY <1>3, <1>7
  <2>3. /\ Cardinality(Held(e)) <= Cardinality(Held(entry) \ Cache!Evicted(v))
        /\ Cardinality(Held(e)) \in Nat /\ Cardinality(Held(entry) \ Cache!Evicted(v)) \in Nat
    BY <2>1, <2>2, FS_Subset, FS_CardinalityType
  <2>4. Cardinality(Held(entry) \ Cache!Evicted(v)) <= MaxEntries /\ MaxEntries \in Nat
    BY EvictedLeavesRoom DEF CacheAssumption, Cache!LimitsAssumption
  <2> QED BY ONLY <2>3, <2>4
<1>10. ASSUME Fits PROVE Sum(Weights(e), Held(e)) + SizeOf(v) <= MaxSize
  <2>1. PICK E : E = Cache!Evicted(v)
    OBVIOUS
  <2>2. currentSize - Sum(Weights(entry), E) + SizeOf(v) <= MaxSize
    BY <1>10, <2>1, EvictedLeavesRoom
  <2>3. Sum(Weights(entry), S) = Sum(Weights(entry), E) + Sum(Weights(entry), S \ E)
    BY <1>3, <1>5, <2>1, SumParts, WeightsType, HeldFinite, FS_Subset DEF MapOK
  <2>4. Sum(Weights(entry), E) \in Nat /\ Sum(Weights(entry), S \ E) \in Nat
    BY <1>3, <1>5, <2>1, SumType, WeightsType, HeldFinite, FS_Subset DEF MapOK
  <2>5. currentSize \in Int /\ SizeOf(v) \in Nat /\ MaxSize \in Nat
    <3>1. IsFiniteSet(Held(entry)) /\ \A x \in Held(entry) : Weights(entry)[x] \in Nat
      BY <1>5, WeightsType, HeldFinite DEF MapOK
    <3>2. currentSize \in Nat
      BY <1>5, <3>1, SumType
    <3> QED BY <3>2 DEF CacheAssumption, Cache!SizeAssumption, Cache!LimitsAssumption
  <2> QED BY ONLY <1>8, <2>2, <2>3, <2>4, <2>5
<1>11. k \notin Held(e) /\ Entered(entry', e, k, v)
  BY <1>2, <1>4, <1>6 DEF Entered
<1>12. /\ MapOK(entry', order') /\ Held(entry') = Held(e) \cup {k}
       /\ Sum(Weights(entry'), Held(entry')) = Sum(Weights(e), Held(e)) + SizeOf(v)
  <2>1. RoomFor(e, k, v)
    BY <1>9, <1>10, <1>11 DEF RoomFor
  <2>2. Holds(entry', e, Cache!Without(order, S \cup {k}), k, v)
    BY <1>6, <1>11, <2>1, InsertMap
  <2> QED BY <1>2, <2>2 DEF Holds
<1>13. Sum(Weights(entry), Held(entry))' = Sum(Weights(entry'), Held(entry'))
  OBVIOUS
<1>14. old' \subseteq Held(entry')
  BY <1>2, <1>5, <1>7, <1>12
<1> QED BY <1>2, <1>5, <1>8, <1>12, <1>14 DEF SizeInv

(* A drop takes the sizes with the entries. *)
LEMMA DropSize ==
  ASSUME CacheAssumption, SizeInv, NEW S, S \subseteq Held(entry), Cache!Drop(S), index' = index
  PROVE  SizeInv'
<1>1. /\ entry' = [k \in Key |-> IF k \in S THEN Nil ELSE entry[k]]
      /\ order' = Cache!Without(order, S) /\ old' = old \ S
      /\ currentSize' = currentSize - Sum(Weights(entry), S)
  BY SizeInIs DEF Cache!Drop, Cache!Sizes
<1>2. /\ MapOK(entry', order') /\ Held(entry') = Held(entry) \ S
      /\ Sum(Weights(entry'), Held(entry')) = Sum(Weights(entry), Held(entry) \ S)
      /\ Sum(Weights(entry), Held(entry) \ S)
           = Sum(Weights(entry), Held(entry)) - Sum(Weights(entry), Held(entry) \cap S)
  <2>1. Dropped(entry', entry, S)
    BY <1>1 DEF Dropped
  <2>2. Leaves(entry', entry, order, S)
    BY <2>1, RestrictMap DEF SizeInv
  <2> QED BY <1>1, <2>2 DEF Leaves
<1>3. Held(entry) \cap S = S
  OBVIOUS
<1>4. currentSize' = Sum(Weights(entry'), Held(entry'))
  BY <1>1, <1>2, <1>3 DEF SizeInv
<1>5. old' \subseteq Held(entry')
  BY <1>1, <1>2 DEF SizeInv
<1> QED BY <1>2, <1>4, <1>5 DEF SizeInv

(* No entries. *)
LEMMA EmptyMap ==
  ASSUME CacheAssumption, NEW e, e = [k \in Key |-> Nil]
  PROVE  MapOK(e, <<>>) /\ Held(e) = {} /\ Sum(Weights(e), Held(e)) = 0
<1>1. Held(e) = {} /\ Members(<<>>) = {} /\ <<>> \in Seq(Key) /\ e \in [Key -> Version \cup {Nil}]
  BY DEF Held, Cache!Held, Members
<1>2. IsFiniteSet({}) /\ Cardinality({}) = 0
  BY FS_EmptySet
<1>3. Sum(Weights(e), {}) = 0
  BY <1>2, SumType
<1>4. MaxSize >= 0 /\ MaxEntries + 1 >= 0
  BY DEF CacheAssumption, Cache!LimitsAssumption
<1>5. Sum(Weights(e), Held(e)) = 0 /\ Cardinality(Held(e)) = 0
  BY <1>1, <1>2, <1>3
<1> QED BY <1>1, <1>4, <1>5 DEF MapOK

(* A restart reads the index. *)
LEMMA RestartSize ==
  ASSUME CacheAssumption, SizeInv, Cache!NewCacheService
  PROVE  SizeInv'
<1>1. PICK kept : kept = {k \in Key : index.entry[k] # Nil /\ file[k] # Nil}
  OBVIOUS
<1>2. /\ entry' = [k \in Key |-> IF k \in kept THEN index.entry[k] ELSE Nil]
      /\ order' = Cache!Without(index.order, Key \ kept)
      /\ old' = {} /\ index' = index
      /\ currentSize' = Sum(Weights(index.entry), kept)
  BY <1>1, SizeInIs DEF Cache!NewCacheService
<1>3. Dropped(entry', index.entry, Key \ kept)
  BY <1>2 DEF Dropped
<1>4. Held(index.entry) \ (Key \ kept) = kept
  BY <1>1 DEF Held, Cache!Held
<1>5. /\ MapOK(entry', order')
      /\ Sum(Weights(entry'), Held(entry')) = Sum(Weights(index.entry), Held(index.entry) \ (Key \ kept))
  <2>1. Leaves(entry', index.entry, index.order, Key \ kept)
    BY <1>3, RestrictMap DEF SizeInv
  <2> QED BY <1>2, <2>1 DEF Leaves
<1> QED BY <1>2, <1>4, <1>5 DEF SizeInv

(* Every step of the cache keeps SizeInv. *)
LEMMA SizeStep ==
  ASSUME CacheAssumption, SizeInv, [Cache!Next]_(Cache!vars)
  PROVE  SizeInv'
<1>0. MapOK(entry, order) /\ MapOK(index.entry, index.order)
  BY DEF SizeInv
<1>1. ASSUME NEW k \in Key, NEW v \in Version, Cache!Put(k, v) PROVE SizeInv'
  BY <1>1, PutSize
<1>2. ASSUME UNCHANGED <<entry, order, old, currentSize, index>> PROVE SizeInv'
  BY <1>2 DEF SizeInv
<1>3. ASSUME NEW k \in Key, Cache!GetHit(k) PROVE SizeInv'
  <2>1. /\ k \in Held(entry) /\ order' = Append(Cache!Without(order, {k}), k)
        /\ UNCHANGED <<entry, old, currentSize, index>>
    BY <1>3 DEF Cache!GetHit, Held, Cache!Held
  <2>2. PICK o : o = Cache!Without(order, {k})
    OBVIOUS
  <2>3. o \in Seq(Key) /\ Members(o) = Held(entry) \ {k}
    BY <1>0, <2>2, WithoutKeeps DEF MapOK
  <2>4. /\ Append(o, k) \in Seq(Key) /\ DOMAIN Append(o, k) = DOMAIN o \cup {Len(o) + 1}
        /\ \A i \in DOMAIN o : Append(o, k)[i] = o[i]
        /\ Append(o, k)[Len(o) + 1] = k
    BY <2>3
  <2>5. Members(Append(o, k)) = Held(entry)
    BY <2>1, <2>3, <2>4 DEF Members
  <2>6. MapOK(entry', order')
    BY <1>0, <2>1, <2>2, <2>4, <2>5 DEF MapOK
  <2> QED BY <2>1, <2>6 DEF SizeInv
<1>4. ASSUME NEW k \in Key, Cache!GetStale(k) \/ Cache!Delete(k) PROVE SizeInv'
  <2>1. {k} \subseteq Held(entry) /\ Cache!Drop({k}) /\ index' = index
    BY <1>4 DEF Cache!GetStale, Cache!Delete, Held, Cache!Held
  <2> QED BY <2>1, DropSize
<1>5. ASSUME NEW k \in Key, Cache!Expire(k) PROVE SizeInv'
  <2>1. k \in Held(entry) /\ old' = old \cup {k} /\ UNCHANGED <<entry, order, currentSize, index>>
    BY <1>5 DEF Cache!Expire, Held, Cache!Held
  <2> QED BY <2>1 DEF SizeInv
<1>6. ASSUME Cache!Clear PROVE SizeInv'
  <2>1. /\ entry' = [k \in Key |-> Nil] /\ order' = <<>> /\ old' = {} /\ currentSize' = 0
        /\ index' = index
    BY <1>6 DEF Cache!Clear
  <2>2. MapOK(entry', order') /\ Sum(Weights(entry'), Held(entry')) = 0
    BY <2>1, EmptyMap
  <2> QED BY <2>1, <2>2 DEF SizeInv
<1>7. ASSUME Cache!Cleanup PROVE SizeInv'
  <2>1. old \subseteq Held(entry) /\ Cache!Drop(old) /\ index' = index
    BY <1>7 DEF Cache!Cleanup, SizeInv
  <2> QED BY <2>1, DropSize
<1>8. ASSUME Cache!Stop PROVE SizeInv'
  <2>1. UNCHANGED <<entry, order, old, currentSize>>
    BY <1>8 DEF Cache!Stop, Cache!map
  <2>2. index' = index \/ index' = [entry |-> entry, order |-> order]
    BY <1>8 DEF Cache!Stop
  <2>3. MapOK(index'.entry, index'.order)
    BY <1>0, <2>2
  <2> QED BY <2>1, <2>3 DEF SizeInv
<1>9. ASSUME Cache!NewCacheService PROVE SizeInv'
  BY <1>9, RestartSize
<1>10. ASSUME \/ Cache!Start \/ Cache!Exit \/ UNCHANGED Cache!vars
              \/ \E k \in Key : Cache!PutFails(k)
       PROVE  SizeInv'
  BY <1>2, <1>10 DEF Cache!Start, Cache!Exit, Cache!PutFails, Cache!vars, Cache!map
<1> QED BY <1>1, <1>3, <1>4, <1>5, <1>6, <1>7, <1>8, <1>9, <1>10 DEF Cache!Next

(* An empty cache has size 0 and an empty order. *)
LEMMA SizeInit ==
  ASSUME CacheAssumption, Cache!Init PROVE SizeInv
<1>1. entry = [k \in Key |-> Nil] /\ order = <<>> /\ old = {} /\ currentSize = 0
      /\ index.entry = [k \in Key |-> Nil] /\ index.order = <<>>
  BY DEF Cache!Init, Cache!NoIndex
<1> QED BY <1>1, EmptyMap DEF SizeInv

(* The size that GetStats reports is the total size of the entries,        *)
(* through replacements, evictions, expiry and restarts, and within its    *)
(* limits, for any keys, sizes and limits.                                 *)
THEOREM SizesAreCounted ==
  ASSUME CacheAssumption PROVE Cache!Spec => []SizeHolds
<1>1. Cache!Init => SizeInv
  BY SizeInit
<1>2. SizeInv /\ [Cache!Next]_(Cache!vars) => SizeInv'
  BY SizeStep
<1>3. SizeInv => SizeHolds
  BY SizeInIs, SameCardinality
     DEF SizeInv, MapOK, SizeHolds, Cache!SizeHolds, Cache!GetStats, Cache!Present, Cache!Sizes, Held, Fits
<1> QED BY <1>1, <1>2, <1>3, PTL DEF Cache!Spec

-----------------------------------------------------------------------------
(* Logger: the contents of all places, as a function of places, hold every *)
(* entry that is not lost once, and in order while flushes do not overlap. *)

Place == Logger!Place

Whole(C, L, n) ==
  /\ \A p \in Place : \A i \in DOMAIN C[p] : C[p][i] \in 1..n \ L
  /\ \A e \in 1..n \ L : \E p \in Place : \E i \in DOMAIN C[p] : C[p][i] = e
  /\ \A p, q \in Place : \A i \in DOMAIN C[p], j \in DOMAIN C[q] : C[p][i] = C[q][j] => p = q /\ i = j

Ordered(C) ==
  \A p, q \in Place : \A i \in DOMAIN C[p], j \in DOMAIN C[q] :
    p < q \/ (p = q /\ i < j) => C[p][i] < C[q][j]

\* all places but those in S hold the same
Same(C, D, S) == \A p \in Place \ S : D[p] = C[p]

\* nothing is between places x and y
Clear(C, x, y) == \A r \in Place : x < r /\ r < y => C[r] = <<>>

(* A new entry goes behind all others. *)
LEMMA EntryComes ==
  ASSUME NEW C \in [Place -> Seq(Nat)], NEW D \in [Place -> Seq(Nat)], NEW L, NEW n \in Nat,
         Whole(C, L, n), L \subseteq 1..n, NEW b \in Place, \A p \in Place : p <= b,
         D[b] = Append(C[b], n + 1), Same(C, D, {b})
  PROVE  Whole(D, L, n + 1) /\ (Ordered(C) => Ordered(D))
<1> USE DEF Same
<1>1. Place \subseteq Int
  BY DEF Place, Logger!Place
<1>2. PICK m \in Nat : m = Len(C[b])
  OBVIOUS
<1>3. /\ DOMAIN D[b] = 1..(m + 1) /\ D[b][m + 1] = n + 1 /\ DOMAIN C[b] = 1..m
      /\ \A i \in 1..m : D[b][i] = C[b][i]
  BY <1>2
<1>4. \A p \in Place : \A i \in DOMAIN D[p] :
        \/ i \in DOMAIN C[p] /\ D[p][i] = C[p][i]
        \/ p = b /\ i = m + 1 /\ D[p][i] = n + 1
  <2>1. ASSUME NEW i \in DOMAIN D[b]
        PROVE  (i \in DOMAIN C[b] /\ D[b][i] = C[b][i]) \/ (i = m + 1 /\ D[b][i] = n + 1)
    BY <1>3
  <2> QED BY <2>1
<1>5. \A p \in Place : \A i \in DOMAIN C[p] : i \in DOMAIN D[p] /\ D[p][i] = C[p][i]
  <2>1. \A i \in DOMAIN C[b] : i \in DOMAIN D[b] /\ D[b][i] = C[b][i]
    BY <1>3
  <2> QED BY <2>1
<1>6. \A p \in Place : \A i \in DOMAIN C[p] : C[p][i] # n + 1
  <2>1. \A p \in Place : \A i \in DOMAIN C[p] : C[p][i] \in 1..n
    BY DEF Whole
  <2>2. n + 1 \notin 1..n
    OBVIOUS
  <2> QED BY ONLY <2>1, <2>2
<1>7. Whole(D, L, n + 1)
  <2>1. ASSUME NEW p \in Place, NEW i \in DOMAIN D[p] PROVE D[p][i] \in 1..(n + 1) \ L
    <3>1. n + 1 \in 1..(n + 1) \ L /\ 1..n \subseteq 1..(n + 1)
      OBVIOUS
    <3>2. i \in DOMAIN C[p] => C[p][i] \in 1..n \ L
      BY DEF Whole
    <3> QED BY <1>4, <3>1, <3>2
  <2>2. ASSUME NEW e \in 1..(n + 1) \ L PROVE \E p \in Place : \E i \in DOMAIN D[p] : D[p][i] = e
    BY <1>3, <1>5 DEF Whole
  <2>3. ASSUME NEW p \in Place, NEW q \in Place, NEW i \in DOMAIN D[p], NEW j \in DOMAIN D[q],
               D[p][i] = D[q][j]
        PROVE  p = q /\ i = j
    <3>1. i \in DOMAIN C[p] /\ j \in DOMAIN C[q] /\ C[p][i] = C[q][j] => p = q /\ i = j
      BY DEF Whole
    <3>2. /\ i \in DOMAIN C[p] => C[p][i] # n + 1
          /\ j \in DOMAIN C[q] => C[q][j] # n + 1
      BY <1>6
    <3>3. (i \in DOMAIN C[p] /\ D[p][i] = C[p][i]) \/ (p = b /\ i = m + 1 /\ D[p][i] = n + 1)
      BY <1>4
    <3>4. (j \in DOMAIN C[q] /\ D[q][j] = C[q][j]) \/ (q = b /\ j = m + 1 /\ D[q][j] = n + 1)
      BY <1>4
    <3> QED BY <2>3, <3>1, <3>2, <3>3, <3>4
  <2> QED BY <2>1, <2>2, <2>3 DEF Whole
<1>8. ASSUME Ordered(C), NEW p \in Place, NEW q \in Place, NEW i \in DOMAIN D[p], NEW j \in DOMAIN D[q],
             p < q \/ (p = q /\ i < j)
      PROVE  D[p][i] < D[q][j]
  <2>1. i \in DOMAIN C[p] /\ D[p][i] = C[p][i]
    <3>1. ~ (p = b /\ i = m + 1)
      <4>1. ASSUME p = b, i = m + 1 PROVE FALSE
        <5>1. q <= b /\ p \in Int /\ q \in Int /\ b \in Int
          BY <1>1
        <5>2. q = b /\ i < j
          BY <1>8, <4>1, <5>1
        <5>3. j \in 1..(m + 1)
          BY <1>3, <5>2
        <5> QED BY <4>1, <5>2, <5>3
      <4> QED BY <4>1
    <3> QED BY <1>4, <3>1
  <2>2. C[p][i] \in 1..n
    BY <2>1 DEF Whole
  <2>3. CASE j \in DOMAIN C[q] /\ D[q][j] = C[q][j]
    BY <1>8, <2>1, <2>3 DEF Ordered
  <2>4. CASE D[q][j] = n + 1
    BY <2>1, <2>2, <2>4
  <2> QED BY <1>4, <2>3, <2>4
<1> QED BY <1>7, <1>8 DEF Ordered

(* What is at one place goes to another, and what was there is lost.       *)
LEMMA PlaceMoves ==
  ASSUME NEW C \in [Place -> Seq(Nat)], NEW D \in [Place -> Seq(Nat)], NEW L, NEW n \in Nat,
         Whole(C, L, n), NEW p \in Place, NEW q \in Place, p # q,
         D[q] = C[p], D[p] = <<>>, Same(C, D, {p, q})
  PROVE  /\ Whole(D, L \cup {C[q][i] : i \in DOMAIN C[q]}, n)
         /\ Ordered(C) /\ Clear(C, p, q) /\ Clear(C, q, p) => Ordered(D)
<1> USE DEF Same
<1> DEFINE src(r) == IF r = q THEN p ELSE r
<1>1. \A r \in Place : \A i \in DOMAIN D[r] : i \in DOMAIN C[src(r)] /\ D[r][i] = C[src(r)][i] /\ r # p
  OBVIOUS
<1>2. \A r \in Place : src(r) \in Place /\ (r # p => src(r) # q)
  OBVIOUS
<1>3. \A r, s \in Place : r # p /\ s # p /\ src(r) = src(s) => r = s
  OBVIOUS
<1>4. \A e \in 1..n \ (L \cup {C[q][i] : i \in DOMAIN C[q]}) : \E r \in Place : \E i \in DOMAIN D[r] : D[r][i] = e
  <2>1. ASSUME NEW e \in 1..n \ (L \cup {C[q][i] : i \in DOMAIN C[q]})
        PROVE  \E r \in Place : \E i \in DOMAIN D[r] : D[r][i] = e
    <3>1. PICK r \in Place : r # q /\ \E i \in DOMAIN C[r] : C[r][i] = e
      <4>1. PICK r \in Place : \E i \in DOMAIN C[r] : C[r][i] = e
        BY DEF Whole
      <4>2. r # q
        BY <4>1
      <4> QED BY <4>1, <4>2
    <3>2. CASE r = p
      BY <3>1, <3>2
    <3>3. CASE r # p
      BY <3>1, <3>3
    <3> QED BY <3>2, <3>3
  <2> QED BY <2>1
<1> HIDE DEF src
<1>5. Whole(D, L \cup {C[q][i] : i \in DOMAIN C[q]}, n)
  <2>1. ASSUME NEW r \in Place, NEW i \in DOMAIN D[r]
        PROVE  D[r][i] \in 1..n \ (L \cup {C[q][k] : k \in DOMAIN C[q]})
    <3>1. D[r][i] = C[src(r)][i] /\ src(r) \in Place /\ src(r) # q /\ i \in DOMAIN C[src(r)]
      BY <1>1, <1>2
    <3> QED BY <3>1 DEF Whole
  <2>2. ASSUME NEW r \in Place, NEW s \in Place, NEW i \in DOMAIN D[r], NEW j \in DOMAIN D[s],
               D[r][i] = D[s][j]
        PROVE  r = s /\ i = j
    <3>1. src(r) = src(s) /\ i = j
      BY <1>1, <1>2, <2>2 DEF Whole
    <3> QED BY <1>1, <1>3, <3>1
  <2> QED BY <1>4, <2>1, <2>2 DEF Whole
<1>6. ASSUME Ordered(C), Clear(C, p, q), Clear(C, q, p),
             NEW r \in Place, NEW s \in Place, NEW i \in DOMAIN D[r], NEW j \in DOMAIN D[s],
             r < s \/ (r = s /\ i < j)
      PROVE  D[r][i] < D[s][j]
  <2>1. /\ D[r][i] = C[src(r)][i] /\ i \in DOMAIN C[src(r)] /\ D[s][j] = C[src(s)][j] /\ j \in DOMAIN C[src(s)]
        /\ src(r) \in Place /\ src(s) \in Place /\ r # p /\ s # p
    BY <1>1, <1>2
  <2>2. \A x \in Place : DOMAIN C[x] # {} => C[x] # <<>>
    OBVIOUS
  <2>3. src(r) < src(s) \/ (src(r) = src(s) /\ i < j)
    <3>1. Place \subseteq Int
      BY DEF Place, Logger!Place
    <3>2. p \in Int /\ q \in Int /\ r \in Int /\ s \in Int
      BY <3>1
    <3>3. C[src(r)] # <<>> /\ C[src(s)] # <<>>
      BY <2>1, <2>2
    <3>4. CASE r = q /\ s # q
      <4>1. src(r) = p /\ src(s) = s /\ q < s /\ ~ (q < s /\ s < p)
        BY <1>6, <3>2, <3>3, <3>4 DEF src, Clear
      <4> QED BY <2>1, <3>2, <4>1
    <3>5. CASE r # q /\ s = q
      <4>1. src(s) = p /\ src(r) = r /\ r < q /\ ~ (p < r /\ r < q)
        BY <1>6, <3>2, <3>3, <3>5 DEF src, Clear
      <4> QED BY <2>1, <3>2, <4>1
    <3>6. CASE r = q /\ s = q
      BY <1>6, <3>2, <3>6 DEF src
    <3>7. CASE r # q /\ s # q
      BY <1>6, <3>7 DEF src
    <3> QED BY <3>4, <3>5, <3>6, <3>7
  <2> QED BY <1>6, <2>1, <2>3 DEF Ordered
<1> QED BY <1>5, <1>6 DEF Ordered

(* The entries of a place that is emptied are lost. *)
LEMMA PlaceDrops ==
  ASSUME NEW C \in [Place -> Seq(Nat)], NEW D \in [Place -> Seq(Nat)], NEW L, NEW n \in Nat,
         Whole(C, L, n), NEW q \in Place, D[q] = <<>>, Same(C, D, {q})
  PROVE  /\ Whole(D, L \cup {C[q][i] : i \in DOMAIN C[q]}, n)
         /\ Ordered(C) => Ordered(D)
<1> USE DEF Same
<1> DEFINE gone == {C[q][i] : i \in DOMAIN C[q]}
<1>1. \A r \in Place : \A i \in DOMAIN D[r] : i \in DOMAIN C[r] /\ D[r][i] = C[r][i] /\ r # q
  OBVIOUS
<1>2. ASSUME NEW r \in Place, NEW i \in DOMAIN D[r] PROVE D[r][i] \in 1..n \ (L \cup gone)
  BY <1>1 DEF Whole
<1>3. ASSUME NEW e \in 1..n \ (L \cup gone) PROVE \E r \in Place : \E i \in DOMAIN D[r] : D[r][i] = e
  <2>1. PICK r \in Place : \E i \in DOMAIN C[r] : C[r][i] = e
    BY <1>3 DEF Whole
  <2>2. r # q
    BY <1>3, <2>1
  <2> QED BY <2>1, <2>2
<1> HIDE DEF gone
<1>4. Whole(D, L \cup gone, n)
  BY <1>1, <1>2, <1>3 DEF Whole
<1>5. Ordered(C) => Ordered(D)
  BY <1>1 DEF Ordered
<1> QED BY <1>4, <1>5 DEF gone

(* Each entry of D is one of C, from the place and index that pl and ix    *)
(* give for it; those that are not there any more are in G.                *)
Source(C, D, G, pl, ix) ==
  /\ \A r \in Place : \A i \in DOMAIN D[r] :
       /\ pl[r][i] \in Place /\ ix[r][i] \in DOMAIN C[pl[r][i]]
       /\ D[r][i] = C[pl[r][i]][ix[r][i]] /\ D[r][i] \notin G
  /\ \A r, s \in Place : \A i \in DOMAIN D[r], j \in DOMAIN D[s] :
       pl[r][i] = pl[s][j] /\ ix[r][i] = ix[s][j] => r = s /\ i = j
  /\ \A r \in Place : \A i \in DOMAIN C[r] :
       C[r][i] \in G \/ \E s \in Place : \E j \in DOMAIN D[s] : D[s][j] = C[r][i]

InOrder(D, pl, ix) ==
  \A r, s \in Place : \A i \in DOMAIN D[r], j \in DOMAIN D[s] :
    r < s \/ (r = s /\ i < j) =>
      pl[r][i] < pl[s][j] \/ (pl[r][i] = pl[s][j] /\ ix[r][i] < ix[s][j])

(* Entries that are where they are from are there once, and in the order   *)
(* they had.                                                               *)
LEMMA Traced ==
  ASSUME NEW C, NEW D, NEW L, NEW G, NEW n, NEW pl, NEW ix, Whole(C, L, n), Source(C, D, G, pl, ix)
  PROVE  Whole(D, L \cup G, n) /\ (Ordered(C) /\ InOrder(D, pl, ix) => Ordered(D))
<1>1. ASSUME NEW r \in Place, NEW i \in DOMAIN D[r] PROVE D[r][i] \in 1..n \ (L \cup G)
  BY DEF Whole, Source
<1>2. ASSUME NEW e \in 1..n \ (L \cup G) PROVE \E r \in Place : \E i \in DOMAIN D[r] : D[r][i] = e
  <2>1. PICK r \in Place : \E i \in DOMAIN C[r] : C[r][i] = e
    BY <1>2 DEF Whole, Source
  <2> QED BY <1>2, <2>1 DEF Source
<1>3. ASSUME NEW r \in Place, NEW s \in Place, NEW i \in DOMAIN D[r], NEW j \in DOMAIN D[s],
             D[r][i] = D[s][j]
      PROVE  r = s /\ i = j
  <2>1. pl[r][i] = pl[s][j] /\ ix[r][i] = ix[s][j]
    BY <1>3 DEF Whole, Source
  <2> QED BY <2>1 DEF Source
<1>4. Whole(D, L \cup G, n)
  BY <1>1, <1>2, <1>3 DEF Whole, Source
<1> QED BY <1>4 DEF Ordered, InOrder, Source

(* The first entry of a place is lost. *)
LEMMA HeadDrops ==
  ASSUME NEW C \in [Place -> Seq(Nat)], NEW D \in [Place -> Seq(Nat)], NEW L, NEW n \in Nat,
         Whole(C, L, n), NEW f \in Place, C[f] # <<>>, D[f] = Tail(C[f]),
         Same(C, D, {f})
  PROVE  Whole(D, L \cup {Head(C[f])}, n) /\ (Ordered(C) => Ordered(D))
<1> USE DEF Same
<1> DEFINE pl == [r \in Place |-> [i \in Nat |-> r]]
           ix == [r \in Place |-> [i \in Nat |-> IF r = f THEN i + 1 ELSE i]]
<1>1. PICK m \in Nat \ {0} : m = Len(C[f]) /\ Head(C[f]) = C[f][1] /\ DOMAIN C[f] = 1..m
  OBVIOUS
<1>2. DOMAIN D[f] = 1..(m - 1) /\ \A i \in 1..(m - 1) : D[f][i] = C[f][i + 1] /\ i \in Nat /\ i + 1 \in 1..m
  BY <1>1
<1>3. \A r \in Place : DOMAIN D[r] \subseteq Nat
  OBVIOUS
<1>4. ASSUME NEW r \in Place, NEW i \in DOMAIN D[r]
      PROVE  /\ pl[r][i] \in Place /\ ix[r][i] \in DOMAIN C[pl[r][i]]
             /\ D[r][i] = C[pl[r][i]][ix[r][i]] /\ D[r][i] \notin {Head(C[f])}
  <2>1. pl[r][i] = r /\ ix[r][i] = IF r = f THEN i + 1 ELSE i
    BY <1>3
  <2>2. ix[r][i] \in DOMAIN C[r] /\ D[r][i] = C[r][ix[r][i]] /\ ~ (r = f /\ ix[r][i] = 1)
    <3>1. CASE r = f
      <4>1. i \in 1..(m - 1) /\ i + 1 \in 1..m /\ i + 1 # 1 /\ ix[r][i] = i + 1
        <5>1. i \in 1..(m - 1)
          BY <1>2, <3>1
        <5> QED BY <1>1, <2>1, <3>1, <5>1
      <4>2. D[r][i] = C[r][i + 1] /\ DOMAIN C[r] = 1..m
        BY <1>1, <1>2, <3>1, <4>1
      <4> QED BY <4>1, <4>2
    <3>2. CASE r # f
      BY <2>1, <3>2
    <3> QED BY <3>1, <3>2
  <2>3. 1 \in DOMAIN C[f]
    BY <1>1
  <2>4. D[r][i] # C[f][1]
    <3>1. \A x \in DOMAIN C[r], y \in DOMAIN C[f] : C[r][x] = C[f][y] => r = f /\ x = y
      BY DEF Whole
    <3> HIDE DEF ix, pl
    <3>2. C[r][ix[r][i]] = C[f][1] => r = f /\ ix[r][i] = 1
      BY <2>2, <2>3, <3>1
    <3> QED BY <2>2, <3>2
  <2> QED BY <1>1, <2>1, <2>2, <2>4
<1>5. ASSUME NEW r \in Place, NEW i \in DOMAIN C[r]
      PROVE  C[r][i] \in {Head(C[f])} \/ \E s \in Place : \E j \in DOMAIN D[s] : D[s][j] = C[r][i]
  <2>1. CASE r = f /\ i = 1
    BY <1>1, <2>1
  <2>2. CASE r = f /\ i # 1
    <3>1. i - 1 \in DOMAIN D[f] /\ D[f][i - 1] = C[f][i]
      BY <1>1, <1>2, <2>2
    <3> QED BY <2>2, <3>1
  <2>3. CASE r # f
    BY <2>3
  <2> QED BY <2>1, <2>2, <2>3
<1>6. ASSUME NEW r \in Place, NEW s \in Place, NEW i \in DOMAIN D[r], NEW j \in DOMAIN D[s]
      PROVE  /\ pl[r][i] = pl[s][j] /\ ix[r][i] = ix[s][j] => r = s /\ i = j
             /\ r < s \/ (r = s /\ i < j) =>
                  pl[r][i] < pl[s][j] \/ (pl[r][i] = pl[s][j] /\ ix[r][i] < ix[s][j])
  <2>1. i \in Nat /\ j \in Nat
    BY <1>3
  <2>2. /\ pl[r][i] = r /\ ix[r][i] = IF r = f THEN i + 1 ELSE i
        /\ pl[s][j] = s /\ ix[s][j] = IF s = f THEN j + 1 ELSE j
    BY <2>1
  <2>3. r \in Int /\ s \in Int
    BY DEF Place, Logger!Place
  <2> QED BY ONLY <2>1, <2>2, <2>3
<1> HIDE DEF pl, ix
<1>7. Source(C, D, {Head(C[f])}, pl, ix)
  BY <1>4, <1>5, <1>6 DEF Source
<1>8. InOrder(D, pl, ix)
  BY <1>6 DEF InOrder
<1> QED BY <1>7, <1>8, Traced

(* Where an entry comes from when the first one at f becomes the one       *)
(* behind k others at c.                                                   *)
From(r, i, c, f, k)  == IF r = c /\ i = k + 1 THEN f ELSE r
Index(r, i, c, f, k) == IF r = c /\ i = k + 1 THEN 1 ELSE IF r = f THEN i + 1 ELSE i

(* No two entries come from one place. *)
LEMMA SourceIsOne ==
  ASSUME NEW r \in Int, NEW s \in Int, NEW c \in Int, NEW f \in Int, c < f,
         NEW i \in Nat, NEW j \in Nat, NEW k \in Nat, r = f => i >= 1, s = f => j >= 1,
         From(r, i, c, f, k) = From(s, j, c, f, k), Index(r, i, c, f, k) = Index(s, j, c, f, k)
  PROVE  r = s /\ i = j
BY DEF From, Index

(* D is C after the first of the m entries at f has gone behind the k at c. *)
HeadMoved(C, D, f, c, m, k) ==
  /\ \A r \in Place : DOMAIN D[r] \subseteq Nat
  /\ Same(C, D, {f, c})
  /\ DOMAIN C[f] = 1..m /\ DOMAIN D[f] = 1..(m - 1)
  /\ \A i \in 1..(m - 1) : D[f][i] = C[f][i + 1]
  /\ DOMAIN C[c] = 1..k /\ DOMAIN D[c] = 1..(k + 1) /\ D[c][k + 1] = C[f][1]
  /\ \A i \in 1..k : D[c][i] = C[c][i]

(* The first entry of a place goes to the end of a place before it.        *)
LEMMA HeadMovesAt ==
  ASSUME NEW C, NEW D, NEW L, NEW n, Whole(C, L, n), NEW f \in Place, NEW c \in Place, c < f,
         NEW m \in Nat \ {0}, NEW k \in Nat, HeadMoved(C, D, f, c, m, k)
  PROVE  /\ Whole(D, L, n)
         /\ Ordered(C) /\ (\A r \in Place : c < r /\ r < f => DOMAIN C[r] = {}) => Ordered(D)
<1> USE DEF HeadMoved, Same
<1> DEFINE pl == [r \in Place |-> [i \in Nat |-> From(r, i, c, f, k)]]
           ix == [r \in Place |-> [i \in Nat |-> Index(r, i, c, f, k)]]
<1>0. Place \subseteq Int
  BY DEF Place, Logger!Place
<1>1. \A i \in 1..(m - 1) : i \in Nat /\ i + 1 \in 1..m
  OBVIOUS
<1>4. ASSUME NEW r \in Place, NEW i \in DOMAIN D[r]
      PROVE  /\ i \in Nat
             /\ pl[r][i] = From(r, i, c, f, k)
             /\ ix[r][i] = Index(r, i, c, f, k)
  <2>1. i \in Nat
    OBVIOUS
  <2> QED BY <2>1
<1> HIDE DEF pl, ix
<1>5. ASSUME NEW r \in Place, NEW i \in DOMAIN D[r]
      PROVE  /\ pl[r][i] \in Place /\ ix[r][i] \in DOMAIN C[pl[r][i]]
             /\ D[r][i] = C[pl[r][i]][ix[r][i]]
  <2>1. CASE r = c /\ i = k + 1
    BY <1>1, <1>4, <2>1 DEF From, Index
  <2>2. CASE r = c /\ i # k + 1
    <3>1. pl[r][i] = r /\ ix[r][i] = i /\ i \in 1..k
      BY <1>0, <1>4, <2>2 DEF From, Index
    <3> QED BY <2>2, <3>1
  <2>3. CASE r = f
    <3>1. pl[r][i] = f /\ ix[r][i] = i + 1
      BY <1>0, <1>4, <2>3 DEF From, Index
    <3> QED BY <1>1, <2>3, <3>1
  <2>4. CASE r # f /\ r # c
    BY <1>4, <2>4 DEF From, Index
  <2> QED BY <2>1, <2>2, <2>3, <2>4
<1>6. ASSUME NEW r \in Place, NEW i \in DOMAIN C[r]
      PROVE  \E s \in Place : \E j \in DOMAIN D[s] : D[s][j] = C[r][i]
  <2>1. CASE r = f /\ i = 1
    <3>1. k + 1 \in DOMAIN D[c] /\ D[c][k + 1] = C[r][i]
      BY <2>1
    <3> QED BY <3>1
  <2>2. CASE r = f /\ i # 1
    <3>1. i - 1 \in DOMAIN D[f] /\ D[f][i - 1] = C[f][i]
      BY <1>1, <2>2
    <3> QED BY <2>2, <3>1
  <2>3. CASE r = c
    <3>1. i \in DOMAIN D[c] /\ D[c][i] = C[c][i]
      BY <2>3
    <3> QED BY <2>3, <3>1
  <2>4. CASE r # f /\ r # c
    BY <2>4
  <2> QED BY <2>1, <2>2, <2>3, <2>4
<1>7. ASSUME NEW r \in Place, NEW s \in Place, NEW i \in DOMAIN D[r], NEW j \in DOMAIN D[s],
             pl[r][i] = pl[s][j], ix[r][i] = ix[s][j]
      PROVE  r = s /\ i = j
  <2>1. r \in Int /\ s \in Int /\ c \in Int /\ f \in Int
    BY <1>0
  <2>2. r = f => i >= 1
    OBVIOUS
  <2>3. s = f => j >= 1
    OBVIOUS
  <2>4. /\ i \in Nat /\ j \in Nat
        /\ pl[r][i] = From(r, i, c, f, k)
        /\ pl[s][j] = From(s, j, c, f, k)
        /\ ix[r][i] = Index(r, i, c, f, k)
        /\ ix[s][j] = Index(s, j, c, f, k)
    BY <1>4
  <2>5. k \in Nat /\ c < f
    OBVIOUS
  <2>6. From(r, i, c, f, k) = From(s, j, c, f, k) /\ Index(r, i, c, f, k) = Index(s, j, c, f, k)
    BY <1>7, <2>4
  <2>7. i \in Nat /\ j \in Nat
    BY <2>4
  <2> QED BY ONLY <2>1, <2>2, <2>3, <2>5, <2>6, <2>7, SourceIsOne
<1>8. Source(C, D, {}, pl, ix)
  BY <1>5, <1>6, <1>7 DEF Source
<1>9. ASSUME \A r \in Place : c < r /\ r < f => DOMAIN C[r] = {},
             NEW r \in Place, NEW s \in Place, NEW i \in DOMAIN D[r], NEW j \in DOMAIN D[s],
             r < s \/ (r = s /\ i < j)
      PROVE  pl[r][i] < pl[s][j] \/ (pl[r][i] = pl[s][j] /\ ix[r][i] < ix[s][j])
  <2>1. r \in Int /\ s \in Int /\ c \in Int /\ f \in Int
    BY <1>0
  <2>2. ~ (c < r /\ r < f) /\ ~ (c < s /\ s < f)
    <3>1. ASSUME NEW t \in Place, NEW x \in DOMAIN D[t], c < t, t < f PROVE FALSE
      <4>1. DOMAIN C[t] = {}
        BY <1>9, <3>1
      <4>2. t # c /\ t # f
        BY <1>0, <3>1
      <4>3. D[t] = C[t]
        BY <4>2
      <4> QED BY <3>1, <4>1, <4>3
    <3> QED BY <3>1
  <2>3. (r = c => i <= k + 1) /\ (s = c => j <= k + 1)
    OBVIOUS
  <2>4. (r = f => i >= 1) /\ (s = f => j >= 1)
    OBVIOUS
  <2>5. /\ pl[r][i] = From(r, i, c, f, k) /\ ix[r][i] = Index(r, i, c, f, k)
        /\ pl[s][j] = From(s, j, c, f, k) /\ ix[s][j] = Index(s, j, c, f, k)
        /\ i \in Nat /\ j \in Nat /\ k \in Nat /\ c < f
    BY <1>4
  <2>6. r < s \/ (r = s /\ i < j)
    BY <1>9
  <2>7. \/ From(r, i, c, f, k) < From(s, j, c, f, k)
        \/ From(r, i, c, f, k) = From(s, j, c, f, k) /\ Index(r, i, c, f, k) < Index(s, j, c, f, k)
    BY ONLY <2>1, <2>2, <2>3, <2>4, <2>5, <2>6 DEF From, Index
  <2> QED BY <2>5, <2>7
<1>10. Whole(D, L \cup {}, n) /\ (Ordered(C) /\ InOrder(D, pl, ix) => Ordered(D))
  BY <1>8, Traced
<1>11. L \cup {} = L
  OBVIOUS
<1> QED BY <1>9, <1>10, <1>11 DEF InOrder

(* ... as sequences. *)
LEMMA HeadMoves ==
  ASSUME NEW C \in [Place -> Seq(Nat)], NEW D \in [Place -> Seq(Nat)], NEW L, NEW n \in Nat,
         Whole(C, L, n), NEW f \in Place, NEW c \in Place, c < f, C[f] # <<>>, D[f] = Tail(C[f]),
         D[c] = Append(C[c], Head(C[f])), Same(C, D, {f, c})
  PROVE  /\ Whole(D, L, n)
         /\ Ordered(C) /\ Clear(C, c, f) => Ordered(D)
<1> USE DEF Same
<1>1. PICK m \in Nat \ {0} : m = Len(C[f]) /\ Head(C[f]) = C[f][1] /\ DOMAIN C[f] = 1..m
  OBVIOUS
<1>2. DOMAIN D[f] = 1..(m - 1) /\ \A i \in 1..(m - 1) : D[f][i] = C[f][i + 1]
  BY <1>1
<1>3. PICK k \in Nat : k = Len(C[c]) /\ DOMAIN C[c] = 1..k
  OBVIOUS
<1>4. PICK h : h = C[f][1] /\ D[c] = Append(C[c], h)
  BY <1>1
<1>5. DOMAIN D[c] = 1..(k + 1) /\ D[c][k + 1] = h /\ \A i \in 1..k : D[c][i] = C[c][i]
  <2>1. C[c] \in Seq(Nat) /\ h \in Nat
    BY <1>1, <1>4
  <2> QED BY <1>3, <1>4, <2>1
<1>6. (\A r \in Place : DOMAIN D[r] \subseteq Nat) /\ DOMAIN <<>> = {}
  OBVIOUS
<1>7. \A r \in Place : C[r] = <<>> => DOMAIN C[r] = {}
  BY <1>6
<1>8. D[c][k + 1] = C[f][1]
  BY <1>4, <1>5
<1>9. /\ Whole(D, L, n)
      /\ Ordered(C) /\ (\A r \in Place : c < r /\ r < f => DOMAIN C[r] = {}) => Ordered(D)
  <2>1. HeadMoved(C, D, f, c, m, k)
    BY <1>1, <1>2, <1>3, <1>5, <1>6, <1>8 DEF HeadMoved
  <2> QED BY <2>1, HeadMovesAt
<1> QED BY <1>7, <1>9 DEF Clear

-----------------------------------------------------------------------------
(* The places of the log in a state. *)

N == 2 * LastSecond + 2

Pages(bk, cur, tick, call, buf) ==
  [p \in Place |->
     IF p <= N THEN bk[<<(p - 1) \div 2, IF p % 2 = 1 THEN "gz" ELSE "plain">>]
     ELSE IF p = N + 1 THEN cur ELSE IF p = N + 2 THEN tick ELSE IF p = N + 3 THEN call ELSE buf]

\* the same, place by place
PagesAre(C, bk, cur, tick, call, buf) ==
  /\ C \in [Place -> Seq(Nat)]
  /\ C[N + 1] = cur /\ C[N + 2] = tick /\ C[N + 3] = call /\ C[N + 4] = buf
  /\ \A s \in 0..LastSecond : C[2 * s + 1] = bk[<<s, "gz">>] /\ C[2 * s + 2] = bk[<<s, "plain">>]

(* The log has a page for every backup, and four more.                     *)
LEMMA PagesOf ==
  ASSUME LastSecond \in Nat, NEW bk \in [Logger!Backup -> Seq(Nat)], NEW cur \in Seq(Nat),
         NEW tick \in Seq(Nat), NEW call \in Seq(Nat), NEW buf \in Seq(Nat),
         NEW C, C = Pages(bk, cur, tick, call, buf)
  PROVE  PagesAre(C, bk, cur, tick, call, buf)
<1>1. Place = 1..(N + 4) /\ N \in Nat \ {0}
  BY DEF Place, Logger!Place, N
<1>2. ASSUME NEW p \in 1..N
      PROVE  <<(p - 1) \div 2, IF p % 2 = 1 THEN "gz" ELSE "plain">> \in Logger!Backup
  <2>1. (p - 1) \div 2 \in 0..LastSecond
    BY DEF N
  <2> QED BY <2>1 DEF Logger!Backup
<1>3. C \in [Place -> Seq(Nat)]
  BY <1>1, <1>2 DEF Pages
<1>4. C[N + 1] = cur /\ C[N + 2] = tick /\ C[N + 3] = call /\ C[N + 4] = buf
  BY <1>1 DEF Pages
<1>5. ASSUME NEW s \in 0..LastSecond
      PROVE  C[2 * s + 1] = bk[<<s, "gz">>] /\ C[2 * s + 2] = bk[<<s, "plain">>]
  <2>1. /\ 2 * s + 1 \in Place /\ 2 * s + 1 <= N /\ ((2 * s + 1) - 1) \div 2 = s /\ (2 * s + 1) % 2 = 1
        /\ 2 * s + 2 \in Place /\ 2 * s + 2 <= N /\ ((2 * s + 2) - 1) \div 2 = s /\ (2 * s + 2) % 2 # 1
    BY <1>1 DEF N
  <2> QED BY <2>1 DEF Pages
<1> QED BY <1>3, <1>4, <1>5 DEF PagesAre

(* Every page is one of those. *)
LEMMA PageNumbers ==
  ASSUME LastSecond \in Nat
  PROVE  /\ Place = 1..(N + 4) /\ N \in Nat \ {0}
         /\ \A p \in Place : \/ \E s \in 0..LastSecond : p = 2 * s + 1 \/ p = 2 * s + 2
                             \/ p \in {N + 1, N + 2, N + 3, N + 4}
         /\ \A s \in 0..LastSecond : 2 * s + 1 \in 1..N /\ 2 * s + 2 \in 1..N
<1>1. Place = 1..(N + 4) /\ N \in Nat \ {0}
  BY DEF Place, Logger!Place, N
<1>2. ASSUME NEW p \in 1..N PROVE \E s \in 0..LastSecond : p = 2 * s + 1 \/ p = 2 * s + 2
  <2>1. (p - 1) \div 2 \in 0..LastSecond /\ (p = 2 * ((p - 1) \div 2) + 1 \/ p = 2 * ((p - 1) \div 2) + 2)
    BY DEF N
  <2> QED BY <2>1
<1>3. \A s \in 0..LastSecond : 2 * s + 1 \in 1..N /\ 2 * s + 2 \in 1..N
  BY DEF N
<1>4. \A p \in Place : p \in 1..N \/ p \in {N + 1, N + 2, N + 3, N + 4}
  BY <1>1
<1> QED BY <1>1, <1>2, <1>3, <1>4

Contents == Pages(backup, current, batch["ticker"], batch["caller"], buffer)

LogType ==
  /\ logged \in Nat /\ lost \subseteq 1..logged
  /\ buffer \in Seq(Nat) /\ current \in Seq(Nat)
  /\ batch \in [Logger!Flusher -> Seq(Nat)]
  /\ backup \in [Logger!Backup -> Seq(Nat)]
  /\ second \in 0..LastSecond /\ compressing \subseteq 0..second /\ doomed \subseteq Logger!Backup

(* No backup is of a later second, a call that has not taken the buffer    *)
(* has taken nothing, and of two flushes one has written all.              *)
FlushInv ==
  /\ \A b \in Logger!Backup : b[1] > second => backup[b] = <<>>
  /\ caller \in {"none", "fatal", "close"} => batch["caller"] = <<>>
  /\ ~ mixed => batch["ticker"] = <<>> \/ batch["caller"] = <<>>

LogInv ==
  /\ LogType /\ FlushInv
  /\ Whole(Contents, lost, logged)
  /\ ~ mixed => Ordered(Contents)

(* The invariant is about what the log reads. *)
LEMMA LogReads ==
  ASSUME Logger!ClockAssumption, LogInv PROVE Logger!LogIsComplete
<1>1. LastSecond \in Nat
  BY DEF Logger!ClockAssumption
<1>2. \A p \in Place : Logger!Lines(p) = Contents[p]
  <2>1. ASSUME NEW p \in Place PROVE Logger!Lines(p) = Contents[p]
    <3>1. p \in 1..(N + 4) /\ N \in Nat
      BY <1>1, PageNumbers
    <3>2. CASE p <= N
      BY <3>1, <3>2 DEF Logger!Lines, Contents, Pages, N
    <3>3. ASSUME p > N PROVE Logger!Lines(p) = <<current, batch["ticker"], batch["caller"], buffer>>[p - N]
      <4>1. ~ (p <= 2 * LastSecond + 2) /\ p - (2 * LastSecond + 2) = p - N
        BY <3>1, <3>3 DEF N
      <4> QED BY <4>1, Zenon DEF Logger!Lines
    <3>4. CASE p = N + 1
      <4>1. p - N = 1 /\ p > N
        BY <3>1, <3>4
      <4>2. Logger!Lines(p) = <<current, batch["ticker"], batch["caller"], buffer>>[1]
        BY ONLY <3>3, <4>1, Zenon
      <4>3. Contents[p] = current
        BY <3>1, <3>4 DEF Contents, Pages
      <4> QED BY ONLY <4>2, <4>3
    <3>5. CASE p = N + 2
      <4>1. p - N = 2 /\ p > N
        BY <3>1, <3>5
      <4>2. Logger!Lines(p) = <<current, batch["ticker"], batch["caller"], buffer>>[2]
        BY ONLY <3>3, <4>1, Zenon
      <4>3. Contents[p] = batch["ticker"]
        BY <3>1, <3>5 DEF Contents, Pages
      <4> QED BY ONLY <4>2, <4>3
    <3>6. CASE p = N + 3
      <4>1. p - N = 3 /\ p > N
        BY <3>1, <3>6
      <4>2. Logger!Lines(p) = <<current, batch["ticker"], batch["caller"], buffer>>[3]
        BY ONLY <3>3, <4>1, Zenon
      <4>3. Contents[p] = batch["caller"]
        BY <3>1, <3>6 DEF Contents, Pages
      <4> QED BY ONLY <4>2, <4>3
    <3>7. CASE p = N + 4
      <4>1. p - N = 4 /\ p > N
        BY <3>1, <3>7
      <4>2. Logger!Lines(p) = <<current, batch["ticker"], batch["caller"], buffer>>[4]
        BY ONLY <3>3, <4>1, Zenon
      <4>3. Contents[p] = buffer
        BY <3>1, <3>7 DEF Contents, Pages
      <4> QED BY ONLY <4>2, <4>3
    <3> QED BY <3>1, <3>2, <3>4, <3>5, <3>6, <3>7
  <2> QED BY <2>1
<1>3. UNION {Logger!ToSet(Logger!Lines(p)) : p \in Place} = 1..logged \ lost
  <2>1. \A p \in Place : Logger!ToSet(Logger!Lines(p)) = {Contents[p][i] : i \in DOMAIN Contents[p]}
    BY <1>2 DEF Logger!ToSet
  <2>2. ASSUME NEW e PROVE e \in 1..logged \ lost <=> \E p \in Place : \E i \in DOMAIN Contents[p] : Contents[p][i] = e
    BY DEF LogInv, Whole
  <2> QED BY <2>1, <2>2
<1>4. \A p, q \in Place : \A i \in DOMAIN Logger!Lines(p), j \in DOMAIN Logger!Lines(q) :
        /\ Logger!Lines(p)[i] = Logger!Lines(q)[j] => p = q /\ i = j
        /\ ~ mixed /\ (p < q \/ (p = q /\ i < j)) => Logger!Lines(p)[i] < Logger!Lines(q)[j]
  BY <1>2 DEF LogInv, Whole, Ordered
<1> QED BY <1>3, <1>4 DEF Logger!LogIsComplete, Place

(* The pages of a state, and of the next one. *)
LEMMA PagesNow ==
  ASSUME Logger!ClockAssumption, LogType
  PROVE  PagesAre(Contents, backup, current, batch["ticker"], batch["caller"], buffer)
<1>1. /\ LastSecond \in Nat /\ backup \in [Logger!Backup -> Seq(Nat)] /\ current \in Seq(Nat)
      /\ batch["ticker"] \in Seq(Nat) /\ batch["caller"] \in Seq(Nat) /\ buffer \in Seq(Nat)
  BY DEF LogType, Logger!ClockAssumption, Logger!Flusher
<1>2. Contents = Pages(backup, current, batch["ticker"], batch["caller"], buffer)
  BY DEF Contents
<1> QED BY ONLY <1>1, <1>2, PagesOf

(* ... after the step as well, if the types are kept. *)
LEMMA PagesNext ==
  ASSUME Logger!ClockAssumption, LogType'
  PROVE  PagesAre(Contents', backup', current', batch'["ticker"], batch'["caller"], buffer')
<1>1. /\ LastSecond \in Nat /\ backup' \in [Logger!Backup -> Seq(Nat)] /\ current' \in Seq(Nat)
      /\ batch'["ticker"] \in Seq(Nat) /\ batch'["caller"] \in Seq(Nat) /\ buffer' \in Seq(Nat)
  BY DEF LogType, Logger!ClockAssumption, Logger!Flusher
<1>2. Contents' = Pages(backup', current', batch'["ticker"], batch'["caller"], buffer')
  BY DEF Contents
<1> QED BY ONLY <1>1, <1>2, PagesOf

(* A new entry. *)
LEMMA PutHolds ==
  ASSUME Logger!ClockAssumption, LogInv, LogType', Logger!Put,
         UNCHANGED <<batch, current, backup, lost, mixed>>
  PROVE  Whole(Contents, lost, logged)' /\ (~ mixed' => Ordered(Contents)')
<1>1. PICK C, D : C = Contents /\ D = Contents'
  OBVIOUS
<1>2. PagesAre(C, backup, current, batch["ticker"], batch["caller"], buffer)
  BY <1>1, PagesNow DEF LogInv
<1>3. PagesAre(D, backup', current', batch'["ticker"], batch'["caller"], buffer')
  BY <1>1, PagesNext
<1>4. D[N + 4] = Append(C[N + 4], logged + 1) /\ logged' = logged + 1 /\ lost' = lost /\ mixed' = mixed
  BY <1>2, <1>3 DEF Logger!Put, PagesAre
<1>5. Same(C, D, {N + 4})
  BY <1>2, <1>3, PageNumbers DEF Logger!ClockAssumption, PagesAre, Same
<1>6. N + 4 \in Place /\ \A p \in Place : p <= N + 4
  BY PageNumbers DEF Logger!ClockAssumption
<1>7. Whole(C, lost, logged) /\ (~ mixed => Ordered(C)) /\ logged \in Nat /\ lost \subseteq 1..logged
  BY <1>1 DEF LogInv, LogType
<1>8. C \in [Place -> Seq(Nat)] /\ D \in [Place -> Seq(Nat)]
  BY <1>2, <1>3 DEF PagesAre
<1>9. Whole(D, lost, logged + 1) /\ (Ordered(C) => Ordered(D))
  <2>1. PICK b : b = N + 4
    OBVIOUS
  <2>2. /\ b \in Place /\ \A p \in Place : p <= b
        /\ D[b] = Append(C[b], logged + 1) /\ Same(C, D, {b})
    BY <1>4, <1>5, <1>6, <2>1
  <2> QED BY ONLY <1>7, <1>8, <2>2, EntryComes
<1> QED BY <1>1, <1>4, <1>7, <1>9

\* the place of what a flusher has taken
BatchPlace(f) == IF f = "ticker" THEN N + 2 ELSE N + 3

(* The contents of a state and of the next, page by page. *)
Turned(C, D) ==
  /\ PagesAre(C, backup, current, batch["ticker"], batch["caller"], buffer)
  /\ PagesAre(D, backup', current', batch'["ticker"], batch'["caller"], buffer')
  /\ C = Contents /\ D = Contents'
  /\ Whole(C, lost, logged) /\ (~ mixed => Ordered(C))
  /\ C \in [Place -> Seq(Nat)] /\ D \in [Place -> Seq(Nat)]

(* There are such contents for every step that keeps the types. *)
LEMMA PagesTurn ==
  ASSUME Logger!ClockAssumption, LogInv, LogType'
  PROVE  \E C, D : Turned(C, D)
BY PagesNow, PagesNext DEF LogInv, Turned, PagesAre

(* The page of a batch. *)
LEMMA BatchPages ==
  ASSUME Logger!ClockAssumption, NEW C, NEW D, Turned(C, D), NEW f \in Logger!Flusher
  PROVE  /\ BatchPlace(f) \in Place /\ BatchPlace(f) \in {N + 2, N + 3}
         /\ BatchPlace(f) = N + 2 <=> f = "ticker"
         /\ C[BatchPlace(f)] = batch[f] /\ D[BatchPlace(f)] = batch'[f]
<1>1. N \in Nat /\ N + 2 \in Place /\ N + 3 \in Place
  BY PageNumbers DEF Logger!ClockAssumption
<1>2. CASE f = "ticker"
  BY <1>1, <1>2 DEF BatchPlace, Turned, PagesAre
<1>3. CASE f = "caller"
  BY <1>1, <1>3 DEF BatchPlace, Turned, PagesAre
<1> QED BY <1>2, <1>3 DEF Logger!Flusher

(* The pages that a step does not turn. *)
LEMMA PagesStay ==
  ASSUME Logger!ClockAssumption, NEW C, NEW D, Turned(C, D), NEW S,
         backup' = backup, current' = current \/ N + 1 \in S,
         \A f \in Logger!Flusher : batch'[f] = batch[f] \/ BatchPlace(f) \in S,
         buffer' = buffer \/ N + 4 \in S
  PROVE  Same(C, D, S)
<1>1. D[N + 1] = C[N + 1] \/ N + 1 \in S
  BY DEF Turned, PagesAre
<1>2. D[N + 2] = C[N + 2] \/ N + 2 \in S
  BY DEF Turned, PagesAre, Logger!Flusher, BatchPlace
<1>3. D[N + 3] = C[N + 3] \/ N + 3 \in S
  BY DEF Turned, PagesAre, Logger!Flusher, BatchPlace
<1>4. D[N + 4] = C[N + 4] \/ N + 4 \in S
  BY DEF Turned, PagesAre
<1>5. \A s \in 0..LastSecond : D[2 * s + 1] = C[2 * s + 1] /\ D[2 * s + 2] = C[2 * s + 2]
  BY DEF Turned, PagesAre
<1>6. ASSUME NEW p \in Place \ S PROVE D[p] = C[p]
  BY <1>1, <1>2, <1>3, <1>4, <1>5, PageNumbers DEF Logger!ClockAssumption
<1> QED BY <1>6 DEF Same

(* What is at a place was logged. *)
LEMMA PlacesLogged ==
  ASSUME Logger!ClockAssumption, LogInv
  PROVE  /\ \A b \in Logger!Backup : \A i \in DOMAIN backup[b] : backup[b][i] \in 1..logged
         /\ \A f \in Logger!Flusher : \A i \in DOMAIN batch[f] : batch[f][i] \in 1..logged
<1>1. PagesAre(Contents, backup, current, batch["ticker"], batch["caller"], buffer)
  BY PagesNow DEF LogInv
<1>2. \A p \in Place : \A i \in DOMAIN Contents[p] : Contents[p][i] \in 1..logged
  BY DEF LogInv, Whole
<1>3. ASSUME NEW b \in Logger!Backup PROVE \E p \in Place : backup[b] = Contents[p]
  <2>1. PICK s \in 0..LastSecond : b = <<s, "gz">> \/ b = <<s, "plain">>
    BY DEF Logger!Backup
  <2>2. 2 * s + 1 \in Place /\ 2 * s + 2 \in Place
    BY PageNumbers DEF Logger!ClockAssumption
  <2> QED BY <1>1, <2>1, <2>2 DEF PagesAre
<1>4. ASSUME NEW f \in Logger!Flusher PROVE \E p \in Place : batch[f] = Contents[p]
  <2>1. N + 2 \in Place /\ N + 3 \in Place
    BY PageNumbers DEF Logger!ClockAssumption
  <2> QED BY <1>1, <2>1 DEF PagesAre, Logger!Flusher
<1> QED BY <1>2, <1>3, <1>4

(* The buffer is taken. *)
LEMMA TakeBufferHolds ==
  ASSUME Logger!ClockAssumption, LogInv, LogType', NEW f \in Logger!Flusher, Logger!TakeBuffer(f)
  PROVE  Whole(Contents, lost, logged)' /\ (~ mixed' => Ordered(Contents)')
<1>1. PICK C, D : Turned(C, D)
  BY PagesTurn
<1>2. /\ batch[f] = <<>> /\ batch' = [batch EXCEPT ![f] = buffer] /\ buffer' = <<>>
      /\ UNCHANGED <<backup, current, lost, logged>>
      /\ ~ mixed' => ~ mixed /\ \A g \in Logger!Flusher \ {f} : batch[g] = <<>>
  BY DEF LogInv, FlushInv, Logger!TakeBuffer, Logger!Begins, Logger!file, Logger!backups
<1>3. PICK p, q : p = N + 4 /\ q = BatchPlace(f)
  OBVIOUS
<1>4. p \in Place /\ q \in Place /\ p # q /\ q \in {N + 2, N + 3} /\ N \in Nat
  BY <1>1, <1>3, PageNumbers, BatchPages DEF Logger!ClockAssumption
<1>5. D[q] = C[p] /\ D[p] = <<>> /\ C[q] = <<>>
  <2>1. C[p] = buffer /\ D[p] = buffer'
    BY <1>1, <1>3 DEF Turned, PagesAre
  <2>2. batch'[f] = buffer
    BY <1>2 DEF LogInv, LogType
  <2> QED BY <1>1, <1>2, <1>3, <2>1, <2>2, BatchPages
<1>6. Same(C, D, {p, q})
  <2>1. \A g \in Logger!Flusher : batch'[g] = batch[g] \/ BatchPlace(g) \in {p, q}
    BY <1>2, <1>3 DEF LogInv, LogType
  <2>2. N + 4 \in {p, q} /\ backup' = backup /\ current' = current
    BY <1>2, <1>3
  <2> QED BY <1>1, <2>1, <2>2, PagesStay
<1>7. lost \cup {C[q][i] : i \in DOMAIN C[q]} = lost
  BY <1>5
<1>8. ~ mixed' => Clear(C, q, p) /\ Clear(C, p, q)
  <2>1. ASSUME ~ mixed', NEW r \in Place, (q < r /\ r < p) \/ (p < r /\ r < q) PROVE C[r] = <<>>
    <3>1. r = N + 3 /\ q = N + 2
      BY <1>3, <1>4, <2>1, PageNumbers DEF Logger!ClockAssumption
    <3>2. batch["caller"] = <<>>
      BY <1>1, <1>2, <1>3, <2>1, <3>1, BatchPages DEF Logger!Flusher
    <3> QED BY <1>1, <3>1, <3>2 DEF Turned, PagesAre
  <2> QED BY <2>1 DEF Clear
<1>9. /\ Whole(D, lost \cup {C[q][i] : i \in DOMAIN C[q]}, logged)
      /\ Ordered(C) /\ Clear(C, p, q) /\ Clear(C, q, p) => Ordered(D)
  <2>1. Whole(C, lost, logged) /\ C \in [Place -> Seq(Nat)] /\ D \in [Place -> Seq(Nat)] /\ logged \in Nat
    BY <1>1 DEF Turned, LogInv, LogType
  <2>2. D[q] = C[p] /\ D[p] = <<>>
    BY <1>5
  <2> QED BY ONLY <1>4, <1>6, <2>1, <2>2, PlaceMoves
<1> QED BY <1>1, <1>2, <1>7, <1>8, <1>9 DEF Turned

(* A line is dropped. *)
LEMMA DropHolds ==
  ASSUME Logger!ClockAssumption, LogInv, LogType', NEW f \in Logger!Flusher,
         batch[f] # <<>>, Logger!Next1(f), lost' = lost \cup {Head(batch[f])},
         UNCHANGED <<logged, buffer, current, backup, mixed>>
  PROVE  Whole(Contents, lost, logged)' /\ (~ mixed' => Ordered(Contents)')
<1>1. PICK C, D : Turned(C, D)
  BY PagesTurn
<1>2. PICK q : q = BatchPlace(f)
  OBVIOUS
<1>3. batch' = [batch EXCEPT ![f] = Tail(batch[f])] /\ batch \in [Logger!Flusher -> Seq(Nat)]
  BY DEF Logger!Next1, LogInv, LogType
<1>4. q \in Place /\ C[q] = batch[f] /\ D[q] = Tail(C[q])
  BY <1>1, <1>2, <1>3, BatchPages
<1>5. Same(C, D, {q})
  <2>1. \A g \in Logger!Flusher : batch'[g] = batch[g] \/ BatchPlace(g) \in {q}
    BY <1>2, <1>3
  <2> QED BY <1>1, <2>1, PagesStay
<1>6. Whole(D, lost \cup {Head(C[q])}, logged) /\ (Ordered(C) => Ordered(D))
  <2>1. /\ Whole(C, lost, logged) /\ C \in [Place -> Seq(Nat)] /\ D \in [Place -> Seq(Nat)]
        /\ logged \in Nat /\ C[q] # <<>>
    BY <1>1, <1>4 DEF Turned, LogInv, LogType
  <2> QED BY ONLY <1>4, <1>5, <2>1, HeadDrops
<1> QED BY <1>1, <1>4, <1>6 DEF Turned

(* A line is written to the file. *)
LEMMA WriteLineHolds ==
  ASSUME Logger!ClockAssumption, LogInv, LogType', NEW f \in Logger!Flusher, Logger!WriteLine(f)
  PROVE  Whole(Contents, lost, logged)' /\ (~ mixed' => Ordered(Contents)')
<1>1. PICK C, D : Turned(C, D)
  BY PagesTurn
<1>2. PICK c, q : c = N + 1 /\ q = BatchPlace(f)
  OBVIOUS
<1>3. /\ batch' = [batch EXCEPT ![f] = Tail(batch[f])] /\ batch \in [Logger!Flusher -> Seq(Nat)]
      /\ batch[f] # <<>> /\ current' = Append(current, Head(batch[f]))
      /\ UNCHANGED <<logged, buffer, backup, lost, mixed>>
  BY DEF Logger!WriteLine, Logger!Next1, LogInv, LogType, Logger!backups
<1>4. /\ q \in Place /\ c \in Place /\ c < q /\ C[q] = batch[f] /\ D[q] = Tail(C[q])
      /\ D[c] = Append(C[c], Head(C[q])) /\ N \in Nat
  <2>1. C[c] = current /\ D[c] = current'
    BY <1>1, <1>2 DEF Turned, PagesAre
  <2>2. q \in Place /\ q \in {N + 2, N + 3} /\ C[q] = batch[f] /\ D[q] = batch'[f]
    BY <1>1, <1>2, BatchPages
  <2>3. N \in Nat /\ N + 1 \in Place
    BY PageNumbers DEF Logger!ClockAssumption
  <2> QED BY <1>2, <1>3, <2>1, <2>2, <2>3
<1>5. Same(C, D, {q, c})
  <2>1. \A g \in Logger!Flusher : batch'[g] = batch[g] \/ BatchPlace(g) \in {q, c}
    BY <1>2, <1>3
  <2>2. N + 1 \in {q, c}
    BY <1>2
  <2> QED BY <1>1, <1>3, <2>1, <2>2, PagesStay
<1>6. /\ Whole(D, lost, logged)
      /\ Ordered(C) /\ Clear(C, c, q) => Ordered(D)
  <2>1. /\ Whole(C, lost, logged) /\ C \in [Place -> Seq(Nat)] /\ D \in [Place -> Seq(Nat)]
        /\ logged \in Nat /\ C[q] # <<>>
    BY <1>1, <1>3, <1>4 DEF Turned, LogInv, LogType
  <2> QED BY ONLY <1>4, <1>5, <2>1, HeadMoves
<1>7. ~ mixed => Clear(C, c, q)
  <2>1. ASSUME ~ mixed, NEW r \in Place, c < r, r < q PROVE C[r] = <<>>
    <3>1. r = N + 2 /\ f = "caller"
      BY <1>1, <1>2, <1>4, <2>1, BatchPages, PageNumbers DEF Logger!Flusher, Logger!ClockAssumption
    <3>2. batch["ticker"] = <<>>
      BY <1>3, <2>1, <3>1 DEF LogInv, FlushInv
    <3> QED BY <1>1, <3>1, <3>2 DEF Turned, PagesAre
  <2> QED BY <2>1 DEF Clear
<1> QED BY <1>1, <1>3, <1>6, <1>7 DEF Turned

(* The file becomes the backup of this second, over another if need be.    *)
LEMMA FileRenamed ==
  ASSUME Logger!ClockAssumption, LogInv, LogType',
         backup' = [backup EXCEPT ![<<second, "plain">>] = current],
         NEW E, E = Pages(backup', <<>>, batch["ticker"], batch["caller"], buffer)
  PROVE  /\ PagesAre(E, backup', <<>>, batch["ticker"], batch["caller"], buffer)
         /\ Whole(E, lost \cup Logger!ToSet(backup[<<second, "plain">>]), logged)
         /\ ~ mixed => Ordered(E)
<1>1. /\ LastSecond \in Nat /\ backup \in [Logger!Backup -> Seq(Nat)] /\ backup' \in [Logger!Backup -> Seq(Nat)]
      /\ <<>> \in Seq(Nat)
      /\ batch["ticker"] \in Seq(Nat) /\ batch["caller"] \in Seq(Nat) /\ buffer \in Seq(Nat)
      /\ second \in 0..LastSecond /\ logged \in Nat
  BY DEF LogInv, LogType, Logger!ClockAssumption, Logger!Flusher
<1>2. PagesAre(E, backup', <<>>, batch["ticker"], batch["caller"], buffer)
  BY ONLY <1>1, PagesOf, E = Pages(backup', <<>>, batch["ticker"], batch["caller"], buffer)
<1>3. PICK C : C = Contents
  OBVIOUS
<1>4. PagesAre(C, backup, current, batch["ticker"], batch["caller"], buffer)
  BY <1>3, PagesNow DEF LogInv
<1>5. PICK p, q : p = N + 1 /\ q = 2 * second + 2
  OBVIOUS
<1>6. p \in Place /\ q \in Place /\ p # q /\ q \in 1..N /\ N \in Nat
  BY <1>1, <1>5, PageNumbers
<1>7. <<second, "plain">> \in Logger!Backup
  BY <1>1 DEF Logger!Backup
<1>8. /\ backup'[<<second, "plain">>] = current
      /\ \A s \in 0..LastSecond : /\ backup'[<<s, "gz">>] = backup[<<s, "gz">>]
                                  /\ s # second => backup'[<<s, "plain">>] = backup[<<s, "plain">>]
  <2>1. \A s \in 0..LastSecond : <<s, "gz">> \in Logger!Backup /\ <<s, "plain">> \in Logger!Backup
    BY DEF Logger!Backup
  <2> QED BY <1>1, <1>7, <2>1
<1>9. E[q] = C[p] /\ E[p] = <<>> /\ C[q] = backup[<<second, "plain">>]
  BY <1>1, <1>2, <1>4, <1>5, <1>8 DEF PagesAre
<1>10. Same(C, E, {p, q})
  <2>1. ASSUME NEW r \in Place \ {p, q} PROVE E[r] = C[r]
    <3>1. CASE \E s \in 0..LastSecond : r = 2 * s + 1 \/ r = 2 * s + 2
      <4>1. PICK s \in 0..LastSecond : r = 2 * s + 1 \/ r = 2 * s + 2
        BY <3>1
      <4>2. /\ E[2 * s + 1] = backup'[<<s, "gz">>] /\ E[2 * s + 2] = backup'[<<s, "plain">>]
            /\ C[2 * s + 1] = backup[<<s, "gz">>] /\ C[2 * s + 2] = backup[<<s, "plain">>]
        BY <1>2, <1>4 DEF PagesAre
      <4>3. s = second => r # 2 * s + 2
        BY <1>5, <2>1
      <4> QED BY <1>8, <4>1, <4>2, <4>3
    <3>2. CASE r \in {N + 2, N + 3, N + 4}
      BY <1>2, <1>4, <3>2 DEF PagesAre
    <3> QED BY <1>1, <1>5, <2>1, <3>1, <3>2, PageNumbers
  <2> QED BY <2>1 DEF Same
<1>11. Clear(C, p, q) /\ Clear(C, q, p)
  <2>1. ASSUME NEW r \in Place, (q < r /\ r < p) \/ (p < r /\ r < q) PROVE C[r] = <<>>
    <3>1. r \in Nat /\ q < r /\ r <= N
      BY <1>1, <1>5, <1>6, <2>1, PageNumbers
    <3>2. PICK s \in 0..LastSecond : r = 2 * s + 1 \/ r = 2 * s + 2
      <4>1. r \notin {N + 1, N + 2, N + 3, N + 4}
        BY <1>6, <3>1
      <4> QED BY <1>1, <4>1, PageNumbers
    <3>3. s > second
      BY <1>1, <1>5, <3>1, <3>2
    <3>4. backup[<<s, "gz">>] = <<>> /\ backup[<<s, "plain">>] = <<>>
      <4>1. <<s, "gz">> \in Logger!Backup /\ <<s, "plain">> \in Logger!Backup
        BY DEF Logger!Backup
      <4>2. <<s, "gz">>[1] > second /\ <<s, "plain">>[1] > second
        BY <3>3
      <4> QED BY <4>1, <4>2 DEF LogInv, FlushInv
    <3> QED BY <1>4, <3>2, <3>4 DEF PagesAre
  <2> QED BY <2>1 DEF Clear
<1>12. /\ Whole(E, lost \cup {C[q][i] : i \in DOMAIN C[q]}, logged)
       /\ Ordered(C) /\ Clear(C, p, q) /\ Clear(C, q, p) => Ordered(E)
  <2>1. Whole(C, lost, logged) /\ C \in [Place -> Seq(Nat)] /\ E \in [Place -> Seq(Nat)]
    BY <1>2, <1>3, <1>4 DEF LogInv, PagesAre
  <2>2. E[q] = C[p] /\ E[p] = <<>>
    BY <1>9
  <2> QED BY ONLY <1>1, <1>6, <1>10, <2>1, <2>2, PlaceMoves
<1>13. Logger!ToSet(backup[<<second, "plain">>]) = {C[q][i] : i \in DOMAIN C[q]}
  BY <1>9 DEF Logger!ToSet
<1> QED BY <1>2, <1>3, <1>11, <1>12, <1>13 DEF LogInv

(* A full file is renamed, and the line begins a new one or is dropped.    *)
LEMMA RotateHolds ==
  ASSUME Logger!ClockAssumption, LogInv, LogType', NEW f \in Logger!Flusher, Logger!Rotate(f)
  PROVE  Whole(Contents, lost, logged)' /\ (~ mixed' => Ordered(Contents)')
<1>1. PICK C, D : Turned(C, D)
  BY PagesTurn
<1>2. PICK E : E = Pages(backup', <<>>, batch["ticker"], batch["caller"], buffer)
  OBVIOUS
<1>3. /\ batch' = [batch EXCEPT ![f] = Tail(batch[f])] /\ batch \in [Logger!Flusher -> Seq(Nat)]
      /\ batch[f] # <<>> /\ backup' = [backup EXCEPT ![<<second, "plain">>] = current]
      /\ UNCHANGED <<logged, buffer, mixed>> /\ logged \in Nat
  BY DEF Logger!Rotate, Logger!Next1, LogInv, LogType
<1>4. PICK over : over = lost \cup Logger!ToSet(backup[<<second, "plain">>])
  OBVIOUS
<1>5. \/ current' = <<Head(batch[f])>> /\ lost' = over
      \/ current' = <<>> /\ lost' = over \cup {Head(batch[f])}
  BY <1>4 DEF Logger!Rotate
<1>6. /\ PagesAre(E, backup', <<>>, batch["ticker"], batch["caller"], buffer)
      /\ Whole(E, over, logged) /\ (~ mixed => Ordered(E))
  BY <1>2, <1>3, <1>4, FileRenamed
<1>7. PICK c, q : c = N + 1 /\ q = BatchPlace(f)
  OBVIOUS
<1>8. /\ q \in Place /\ c \in Place /\ c < q /\ q \in {N + 2, N + 3} /\ (q = N + 2 <=> f = "ticker")
      /\ D[q] = batch'[f] /\ N \in Nat
  BY <1>1, <1>7, BatchPages, PageNumbers DEF Logger!ClockAssumption
<1>9. E[q] = batch[f] /\ E[c] = <<>> /\ D[c] = current' /\ D[q] = Tail(E[q])
  BY <1>1, <1>3, <1>6, <1>7, <1>8 DEF PagesAre, Turned, Logger!Flusher
<1>10. Same(E, D, {q, c})
  <2>1. ASSUME NEW r \in Place \ {q, c} PROVE D[r] = E[r]
    <3>1. CASE \E s \in 0..LastSecond : r = 2 * s + 1 \/ r = 2 * s + 2
      <4>1. PICK s \in 0..LastSecond : r = 2 * s + 1 \/ r = 2 * s + 2
        BY <3>1
      <4>2. /\ E[2 * s + 1] = backup'[<<s, "gz">>] /\ E[2 * s + 2] = backup'[<<s, "plain">>]
            /\ D[2 * s + 1] = backup'[<<s, "gz">>] /\ D[2 * s + 2] = backup'[<<s, "plain">>]
        BY <1>1, <1>6 DEF PagesAre, Turned
      <4> QED BY <4>1, <4>2
    <3>2. CASE r = N + 4
      BY <1>1, <1>3, <1>6, <3>2 DEF PagesAre, Turned
    <3>3. CASE r = N + 2 /\ f = "caller"
      BY <1>1, <1>3, <1>6, <3>3 DEF PagesAre, Turned, Logger!Flusher
    <3>4. CASE r = N + 3 /\ f = "ticker"
      BY <1>1, <1>3, <1>6, <3>4 DEF PagesAre, Turned, Logger!Flusher
    <3> QED BY <1>7, <1>8, <2>1, <3>1, <3>2, <3>3, <3>4, PageNumbers DEF Logger!ClockAssumption, Logger!Flusher
  <2> QED BY <2>1 DEF Same
<1>11. E \in [Place -> Seq(Nat)] /\ D \in [Place -> Seq(Nat)] /\ E[q] # <<>>
  BY <1>1, <1>3, <1>6, <1>9 DEF PagesAre, Turned
<1>12. CASE current' = <<Head(batch[f])>> /\ lost' = over
  <2>1. D[c] = Append(E[c], Head(E[q]))
    <3>1. Append(<<>>, Head(E[q])) = <<Head(E[q])>>
      OBVIOUS
    <3> QED BY <1>9, <1>12, <3>1
  <2>2. /\ Whole(D, over, logged)
        /\ Ordered(E) /\ Clear(E, c, q) => Ordered(D)
    <3>1. c < q /\ q \in Place /\ c \in Place /\ D[q] = Tail(E[q]) /\ logged \in Nat /\ Whole(E, over, logged)
      BY <1>3, <1>6, <1>8, <1>9
    <3> QED BY ONLY <1>10, <1>11, <2>1, <3>1, HeadMoves
  <2>3. ~ mixed => Clear(E, c, q)
    <3>1. ASSUME ~ mixed, NEW r \in Place, c < r, r < q PROVE E[r] = <<>>
      <4>1. r = N + 2 /\ f = "caller"
        BY <1>7, <1>8, <3>1, PageNumbers DEF Logger!Flusher, Logger!ClockAssumption
      <4>2. batch["ticker"] = <<>>
        BY <1>3, <3>1, <4>1 DEF LogInv, FlushInv
      <4> QED BY <1>6, <4>1, <4>2 DEF PagesAre
    <3> QED BY <3>1 DEF Clear
  <2> QED BY <1>1, <1>3, <1>6, <1>12, <2>2, <2>3 DEF Turned
<1>13. CASE current' = <<>> /\ lost' = over \cup {Head(batch[f])}
  <2>1. Same(E, D, {q})
    <3>1. D[c] = E[c]
      BY <1>9, <1>13
    <3> QED BY <1>10, <3>1 DEF Same
  <2>2. Whole(D, over \cup {Head(E[q])}, logged) /\ (Ordered(E) => Ordered(D))
    <3>1. q \in Place /\ D[q] = Tail(E[q]) /\ logged \in Nat /\ Whole(E, over, logged)
      BY <1>3, <1>6, <1>8, <1>9
    <3> QED BY ONLY <1>11, <2>1, <3>1, HeadDrops
  <2> QED BY <1>1, <1>3, <1>6, <1>9, <1>13, <2>2 DEF Turned
<1> QED BY <1>5, <1>12, <1>13

(* A backup is renamed, over another if need be. *)
LEMMA CompressHolds ==
  ASSUME Logger!ClockAssumption, LogInv, LogType', NEW s \in compressing, Logger!Compress(s)
  PROVE  Whole(Contents, lost, logged)' /\ (~ mixed' => Ordered(Contents)')
<1>1. PICK C, D : Turned(C, D)
  BY PagesTurn
<1>2. UNCHANGED <<logged, buffer, batch, caller, current, mixed>>
  BY DEF Logger!Compress, Logger!entries, Logger!file
<1>3. s \in 0..LastSecond /\ LastSecond \in Nat /\ logged \in Nat
      /\ <<s, "gz">> \in Logger!Backup /\ <<s, "plain">> \in Logger!Backup /\ backup \in [Logger!Backup -> Seq(Nat)]
  BY DEF LogInv, LogType, Logger!Backup, Logger!ClockAssumption
<1>4. CASE backup' = backup /\ lost' = lost
  <2>1. Same(C, D, {})
    BY <1>1, <1>2, <1>4, PagesStay
  <2>2. C = D
    BY <1>1, <2>1 DEF Same, Turned
  <2> QED BY <1>1, <1>2, <1>4, <2>2 DEF Turned
<1>5. CASE /\ lost' = lost \cup Logger!ToSet(backup[<<s, "gz">>])
           /\ backup' = [backup EXCEPT ![<<s, "gz">>] = backup[<<s, "plain">>], ![<<s, "plain">>] = <<>>]
  <2>1. PICK p, q : p = 2 * s + 2 /\ q = 2 * s + 1
    OBVIOUS
  <2>2. p \in Place /\ q \in Place /\ p # q /\ p \in Nat /\ q \in Nat
    BY <1>3, <2>1, PageNumbers
  <2>3. \A t \in 0..LastSecond : <<t, "gz">> \in Logger!Backup /\ <<t, "plain">> \in Logger!Backup
    BY DEF Logger!Backup
  <2>4. /\ backup'[<<s, "gz">>] = backup[<<s, "plain">>] /\ backup'[<<s, "plain">>] = <<>>
        /\ \A t \in 0..LastSecond : t # s => /\ backup'[<<t, "gz">>] = backup[<<t, "gz">>]
                                           /\ backup'[<<t, "plain">>] = backup[<<t, "plain">>]
    BY <1>3, <1>5, <2>3
  <2>5. D[q] = C[p] /\ D[p] = <<>> /\ C[q] = backup[<<s, "gz">>]
    BY <1>1, <1>3, <2>1, <2>4 DEF Turned, PagesAre
  <2>6. Same(C, D, {p, q})
    <3>1. ASSUME NEW r \in Place \ {p, q} PROVE D[r] = C[r]
      <4>1. CASE \E t \in 0..LastSecond : r = 2 * t + 1 \/ r = 2 * t + 2
        <5>1. PICK t \in 0..LastSecond : t # s /\ (r = 2 * t + 1 \/ r = 2 * t + 2)
          BY <2>1, <3>1, <4>1
        <5> QED BY <1>1, <2>4, <5>1 DEF Turned, PagesAre
      <4>2. CASE r \in {N + 1, N + 2, N + 3, N + 4}
        BY <1>1, <1>2, <4>2 DEF Turned, PagesAre
      <4> QED BY <1>3, <4>1, <4>2, PageNumbers
    <3> QED BY <3>1 DEF Same
  <2>7. Clear(C, p, q) /\ Clear(C, q, p)
    <3>1. \A r \in Place : r \in Int
      BY <1>3, PageNumbers
    <3> QED BY <1>3, <2>1, <3>1 DEF Clear
  <2>8. /\ Whole(D, lost \cup {C[q][i] : i \in DOMAIN C[q]}, logged)
        /\ Ordered(C) /\ Clear(C, p, q) /\ Clear(C, q, p) => Ordered(D)
    <3>1. Whole(C, lost, logged) /\ C \in [Place -> Seq(Nat)] /\ D \in [Place -> Seq(Nat)]
          /\ logged \in Nat /\ D[q] = C[p] /\ D[p] = <<>>
      BY <1>1, <1>3, <2>5 DEF Turned
    <3> QED BY ONLY <2>2, <2>6, <3>1, PlaceMoves
  <2>9. lost' = lost \cup {C[q][i] : i \in DOMAIN C[q]}
    BY <1>5, <2>5 DEF Logger!ToSet
  <2> QED BY <1>1, <1>2, <2>7, <2>8, <2>9 DEF Turned
<1> QED BY <1>4, <1>5 DEF Logger!Compress

(* A backup is removed. *)
LEMMA RemoveBackupHolds ==
  ASSUME Logger!ClockAssumption, LogInv, LogType', NEW b \in doomed, Logger!RemoveBackup(b)
  PROVE  Whole(Contents, lost, logged)' /\ (~ mixed' => Ordered(Contents)')
<1>1. PICK C, D : Turned(C, D)
  BY PagesTurn
<1>2. /\ UNCHANGED <<logged, buffer, batch, caller, current, mixed>>
      /\ lost' = lost \cup Logger!ToSet(backup[b]) /\ backup' = [backup EXCEPT ![b] = <<>>]
  BY DEF Logger!RemoveBackup, Logger!entries, Logger!file
<1>3. b \in Logger!Backup /\ LastSecond \in Nat /\ logged \in Nat /\ backup \in [Logger!Backup -> Seq(Nat)]
  BY DEF LogInv, LogType, Logger!ClockAssumption
<1>4. PICK s \in 0..LastSecond, k \in {"gz", "plain"} : b = <<s, k>>
  BY <1>3 DEF Logger!Backup
<1>5. PICK q : q = IF k = "gz" THEN 2 * s + 1 ELSE 2 * s + 2
  OBVIOUS
<1>6. q \in Place
  BY <1>3, <1>5, PageNumbers
<1>7. C[q] = backup[b] /\ D[q] = backup'[b] /\ backup'[b] = <<>>
  BY <1>1, <1>2, <1>3, <1>4, <1>5 DEF Turned, PagesAre
<1>8. Same(C, D, {q})
  <2>1. ASSUME NEW r \in Place \ {q} PROVE D[r] = C[r]
    <3>1. CASE \E t \in 0..LastSecond : r = 2 * t + 1 \/ r = 2 * t + 2
      <4>1. PICK t \in 0..LastSecond : r = 2 * t + 1 \/ r = 2 * t + 2
        BY <3>1
      <4>2. <<t, "gz">> \in Logger!Backup /\ <<t, "plain">> \in Logger!Backup
        BY DEF Logger!Backup
      <4>3. CASE r = 2 * t + 1
        <5>1. <<t, "gz">> # b
          BY <1>4, <1>5, <2>1, <4>3
        <5>2. backup'[<<t, "gz">>] = backup[<<t, "gz">>]
          BY <1>2, <1>3, <4>2, <5>1
        <5> QED BY <1>1, <4>3, <5>2 DEF Turned, PagesAre
      <4>4. CASE r = 2 * t + 2
        <5>1. <<t, "plain">> # b
          BY <1>4, <1>5, <2>1, <4>4
        <5>2. backup'[<<t, "plain">>] = backup[<<t, "plain">>]
          BY <1>2, <1>3, <4>2, <5>1
        <5> QED BY <1>1, <4>4, <5>2 DEF Turned, PagesAre
      <4> QED BY <4>1, <4>3, <4>4
    <3>2. CASE r \in {N + 1, N + 2, N + 3, N + 4}
      BY <1>1, <1>2, <3>2 DEF Turned, PagesAre
    <3> QED BY <1>3, <3>1, <3>2, PageNumbers
  <2> QED BY <2>1 DEF Same
<1>9. Whole(D, lost \cup {C[q][i] : i \in DOMAIN C[q]}, logged) /\ (Ordered(C) => Ordered(D))
  <2>1. Whole(C, lost, logged) /\ C \in [Place -> Seq(Nat)] /\ D \in [Place -> Seq(Nat)]
        /\ logged \in Nat /\ D[q] = <<>>
    BY <1>1, <1>3, <1>7 DEF Turned
  <2> QED BY ONLY <1>6, <1>8, <2>1, PlaceDrops
<1>10. lost' = lost \cup {C[q][i] : i \in DOMAIN C[q]}
  BY <1>2, <1>7 DEF Logger!ToSet
<1> QED BY <1>1, <1>2, <1>9, <1>10 DEF Turned

(* Every step keeps the types ... *)
LEMMA LogTypeStep ==
  ASSUME Logger!ClockAssumption, LogInv, [Logger!Next]_(Logger!vars)
  PROVE  LogType'
<1> USE DEF Logger!entries, Logger!file, Logger!backups
<1>1. /\ logged \in Nat /\ lost \subseteq 1..logged /\ buffer \in Seq(Nat) /\ current \in Seq(Nat)
      /\ batch \in [Logger!Flusher -> Seq(Nat)] /\ backup \in [Logger!Backup -> Seq(Nat)]
      /\ second \in 0..LastSecond /\ compressing \subseteq 0..second /\ doomed \subseteq Logger!Backup
      /\ LastSecond \in Nat
  BY DEF LogInv, LogType, Logger!ClockAssumption
<1>2. ASSUME NEW f \in Logger!Flusher, batch[f] # <<>>
      PROVE  Head(batch[f]) \in 1..logged /\ Head(batch[f]) \in Nat /\ Tail(batch[f]) \in Seq(Nat)
  <2>1. batch[f] \in Seq(Nat)
    BY <1>1
  <2>2. 1 \in DOMAIN batch[f] /\ Head(batch[f]) = batch[f][1] /\ Tail(batch[f]) \in Seq(Nat)
    BY <1>2, <2>1
  <2>3. batch[f][1] \in 1..logged
    BY <2>2, PlacesLogged
  <2> QED BY <1>1, <2>2, <2>3
<1>3. ASSUME NEW b \in Logger!Backup PROVE Logger!ToSet(backup[b]) \subseteq 1..logged
  BY PlacesLogged DEF Logger!ToSet
<1>4. CASE UNCHANGED Logger!vars
  BY <1>1, <1>4 DEF LogType, Logger!vars
<1>5. CASE Logger!Log \/ Logger!LogFatal
  <2>1. logged' = logged + 1 /\ buffer' = Append(buffer, logged + 1)
        /\ UNCHANGED <<batch, current, backup, compressing, doomed, second, lost>>
    BY <1>5 DEF Logger!Log, Logger!LogFatal, Logger!Put
  <2>2. lost' \subseteq 1..logged' /\ buffer' \in Seq(Nat) /\ logged' \in Nat
    BY <1>1, <2>1
  <2> QED BY <1>1, <2>1, <2>2 DEF LogType
<1>6. CASE Logger!Close \/ Logger!EndCall
  BY <1>1, <1>6 DEF LogType, Logger!Close, Logger!EndCall
<1>7. ASSUME NEW f \in Logger!Flusher, Logger!TakeBuffer(f) PROVE LogType'
  <2>1. batch' = [batch EXCEPT ![f] = buffer] /\ buffer' = <<>>
        /\ UNCHANGED <<logged, current, backup, compressing, doomed, second, lost>>
    BY <1>7 DEF Logger!TakeBuffer
  <2>2. batch' \in [Logger!Flusher -> Seq(Nat)] /\ buffer' \in Seq(Nat)
    BY <1>1, <2>1
  <2> QED BY <1>1, <2>1, <2>2 DEF LogType
<1>8. ASSUME NEW f \in Logger!Flusher, Logger!DropLine(f) \/ Logger!RenameFails(f) PROVE LogType'
  <2>1. batch[f] # <<>> /\ batch' = [batch EXCEPT ![f] = Tail(batch[f])] /\ lost' = lost \cup {Head(batch[f])}
        /\ UNCHANGED <<logged, buffer, current, backup, compressing, doomed, second>>
    BY <1>8 DEF Logger!DropLine, Logger!RenameFails, Logger!Next1
  <2>2. batch' \in [Logger!Flusher -> Seq(Nat)] /\ lost' \subseteq 1..logged
    BY <1>1, <1>2, <2>1
  <2> QED BY <1>1, <2>1, <2>2 DEF LogType
<1>9. ASSUME NEW f \in Logger!Flusher, Logger!WriteLine(f) PROVE LogType'
  <2>1. batch[f] # <<>> /\ batch' = [batch EXCEPT ![f] = Tail(batch[f])]
        /\ current' = Append(current, Head(batch[f]))
        /\ UNCHANGED <<logged, buffer, backup, compressing, doomed, second, lost>>
    BY <1>9 DEF Logger!WriteLine, Logger!Next1
  <2>2. batch' \in [Logger!Flusher -> Seq(Nat)] /\ current' \in Seq(Nat)
    BY <1>1, <1>2, <2>1
  <2> QED BY <1>1, <2>1, <2>2 DEF LogType
<1>10. ASSUME NEW f \in Logger!Flusher, Logger!Rotate(f) PROVE LogType'
  <2>1. /\ batch[f] # <<>> /\ batch' = [batch EXCEPT ![f] = Tail(batch[f])]
        /\ backup' = [backup EXCEPT ![<<second, "plain">>] = current]
        /\ compressing' = compressing \cup {second}
        /\ current' = <<Head(batch[f])>> \/ current' = <<>>
        /\ lost' \subseteq lost \cup Logger!ToSet(backup[<<second, "plain">>]) \cup {Head(batch[f])}
        /\ UNCHANGED <<logged, buffer, doomed, second>>
    BY <1>10 DEF Logger!Rotate, Logger!Next1
  <2>2. <<second, "plain">> \in Logger!Backup
    BY <1>1 DEF Logger!Backup
  <2>3. batch' \in [Logger!Flusher -> Seq(Nat)]
    BY <1>1, <1>2, <2>1
  <2>4. backup' \in [Logger!Backup -> Seq(Nat)]
    BY <1>1, <2>1, <2>2
  <2>5. current' \in Seq(Nat)
    <3>1. Head(batch[f]) \in Nat
      BY <1>2, <2>1
    <3>2. <<Head(batch[f])>> \in Seq(Nat) /\ <<>> \in Seq(Nat)
      BY <3>1
    <3> QED BY <2>1, <3>2
  <2>6. compressing' \subseteq 0..second
    BY <1>1, <2>1
  <2>7. lost' \subseteq 1..logged
    <3>1. Head(batch[f]) \in 1..logged
      BY <1>2, <2>1
    <3>2. Logger!ToSet(backup[<<second, "plain">>]) \subseteq 1..logged
      BY <1>3, <2>2
    <3>3. lost' \subseteq lost \cup Logger!ToSet(backup[<<second, "plain">>]) \cup {Head(batch[f])}
      BY <2>1
    <3> QED BY <1>1, <3>1, <3>2, <3>3
  <2> QED BY <1>1, <2>1, <2>3, <2>4, <2>5, <2>6, <2>7 DEF LogType
<1>11. ASSUME NEW s \in compressing, Logger!Compress(s) PROVE LogType'
  <2>1. <<s, "gz">> \in Logger!Backup /\ <<s, "plain">> \in Logger!Backup
    BY <1>1 DEF Logger!Backup
  <2>2. /\ compressing' \subseteq compressing
        /\ UNCHANGED <<logged, buffer, batch, current, doomed, second>>
        /\ \/ UNCHANGED <<backup, lost>>
           \/ /\ lost' = lost \cup Logger!ToSet(backup[<<s, "gz">>])
              /\ backup' = [backup EXCEPT ![<<s, "gz">>] = backup[<<s, "plain">>], ![<<s, "plain">>] = <<>>]
    BY <1>11 DEF Logger!Compress
  <2>3. backup' \in [Logger!Backup -> Seq(Nat)]
    <3>1. backup[<<s, "plain">>] \in Seq(Nat) /\ <<>> \in Seq(Nat)
      BY <1>1, <2>1
    <3> QED BY <1>1, <2>1, <2>2, <3>1
  <2>4. lost' \subseteq 1..logged
    <3>1. Logger!ToSet(backup[<<s, "gz">>]) \subseteq 1..logged
      BY <1>3, <2>1
    <3> QED BY <1>1, <2>2, <3>1
  <2> QED BY <1>1, <2>2, <2>3, <2>4 DEF LogType
<1>12. CASE Logger!cleanupOldFiles
  <2>1. doomed' \subseteq Logger!Backup
        /\ UNCHANGED <<logged, buffer, batch, current, backup, compressing, second, lost>>
    BY <1>1, <1>12 DEF Logger!cleanupOldFiles, Logger!There
  <2> QED BY <1>1, <2>1 DEF LogType
<1>13. ASSUME NEW b \in doomed, Logger!RemoveBackup(b) PROVE LogType'
  <2>1. /\ doomed' \subseteq doomed /\ lost' = lost \cup Logger!ToSet(backup[b])
        /\ backup' = [backup EXCEPT ![b] = <<>>]
        /\ UNCHANGED <<logged, buffer, batch, current, compressing, second>>
    BY <1>13 DEF Logger!RemoveBackup
  <2>2. b \in Logger!Backup
    BY <1>1
  <2>3. backup' \in [Logger!Backup -> Seq(Nat)]
    BY <1>1, <2>1, <2>2
  <2>4. lost' \subseteq 1..logged
    <3>1. Logger!ToSet(backup[b]) \subseteq 1..logged
      BY <1>3, <2>2
    <3> QED BY <1>1, <2>1, <3>1
  <2> QED BY <1>1, <2>1, <2>3, <2>4 DEF LogType
<1>14. CASE Logger!Tick
  BY <1>1, <1>14 DEF LogType, Logger!Tick
<1> QED BY <1>4, <1>5, <1>6, <1>7, <1>8, <1>9, <1>10, <1>11, <1>12, <1>13, <1>14 DEF Logger!Next

(* ... and what is said of the flushers and the backups ... *)
LEMMA FlushStep ==
  ASSUME Logger!ClockAssumption, LogInv, [Logger!Next]_(Logger!vars)
  PROVE  FlushInv'
<1> USE DEF Logger!entries, Logger!file, Logger!backups
<1>1. /\ batch \in [Logger!Flusher -> Seq(Nat)] /\ backup \in [Logger!Backup -> Seq(Nat)]
      /\ second \in 0..LastSecond /\ compressing \subseteq 0..second /\ FlushInv
      /\ "ticker" \in Logger!Flusher /\ "caller" \in Logger!Flusher /\ LastSecond \in Nat
  BY DEF LogInv, LogType, Logger!Flusher, Logger!ClockAssumption
<1>2. CASE UNCHANGED Logger!vars
  BY <1>1, <1>2 DEF FlushInv, Logger!vars
<1>3. CASE Logger!Log \/ Logger!LogFatal
  BY <1>1, <1>3 DEF FlushInv, Logger!Log, Logger!LogFatal, Logger!Put
<1>4. CASE Logger!Close \/ Logger!EndCall
  BY <1>1, <1>4 DEF FlushInv, Logger!Close, Logger!EndCall
<1>5. ASSUME NEW f \in Logger!Flusher, Logger!TakeBuffer(f) PROVE FlushInv'
  <2>1. /\ batch' = [batch EXCEPT ![f] = buffer]
        /\ backup' = backup /\ second' = second
        /\ (~ mixed' => \A g \in Logger!Flusher \ {f} : batch[g] = <<>>)
    BY <1>5 DEF Logger!TakeBuffer
  <2>2. caller' \in {"none", "fatal", "close"} => f = "ticker" /\ caller' = caller
    BY <1>5 DEF Logger!TakeBuffer, Logger!Begins
  <2>3. ~ mixed' => batch'["ticker"] = <<>> \/ batch'["caller"] = <<>>
    BY <1>1, <2>1 DEF Logger!Flusher
  <2>4. f = "ticker" => batch'["caller"] = batch["caller"]
    BY <1>1, <2>1
  <2> QED BY <1>1, <2>1, <2>2, <2>3, <2>4 DEF FlushInv
<1>6. ASSUME NEW f \in Logger!Flusher,
             \/ Logger!DropLine(f) \/ Logger!WriteLine(f)
             \/ Logger!Rotate(f) \/ Logger!RenameFails(f)
      PROVE  FlushInv'
  <2>1. /\ batch[f] # <<>> /\ batch' = [batch EXCEPT ![f] = Tail(batch[f])]
        /\ UNCHANGED <<caller, second, mixed>>
        /\ backup' = backup \/ backup' = [backup EXCEPT ![<<second, "plain">>] = current]
    BY <1>6 DEF Logger!DropLine, Logger!WriteLine, Logger!Rotate, Logger!RenameFails, Logger!Next1
  <2>2. \A g \in Logger!Flusher : g # f => batch'[g] = batch[g]
    BY <1>1, <2>1
  <2>3. \A b \in Logger!Backup : b[1] > second => backup'[b] = <<>>
    <3>1. ASSUME NEW b \in Logger!Backup, b[1] > second PROVE b # <<second, "plain">>
      BY <1>1, <3>1
    <3> QED BY <1>1, <2>1, <3>1 DEF FlushInv
  <2> QED BY <1>1, <2>1, <2>2, <2>3 DEF FlushInv, Logger!Flusher
<1>7. ASSUME NEW s \in compressing, Logger!Compress(s) PROVE FlushInv'
  <2>1. /\ UNCHANGED <<caller, second, mixed, batch>>
        /\ \/ UNCHANGED backup
           \/ backup' = [backup EXCEPT ![<<s, "gz">>] = backup[<<s, "plain">>], ![<<s, "plain">>] = <<>>]
    BY <1>7 DEF Logger!Compress
  <2>2. \A b \in Logger!Backup : b[1] > second => backup'[b] = <<>>
    <3>1. ASSUME NEW b \in Logger!Backup, b[1] > second PROVE b # <<s, "gz">> /\ b # <<s, "plain">>
      BY <1>1, <3>1
    <3> QED BY <1>1, <2>1, <3>1 DEF FlushInv
  <2> QED BY <1>1, <2>1, <2>2 DEF FlushInv
<1>8. CASE Logger!cleanupOldFiles
  BY <1>1, <1>8 DEF FlushInv, Logger!cleanupOldFiles
<1>9. ASSUME NEW b \in doomed, Logger!RemoveBackup(b) PROVE FlushInv'
  BY <1>1, <1>9 DEF FlushInv, Logger!RemoveBackup
<1>10. CASE Logger!Tick
  <2>1. ASSUME NEW b \in Logger!Backup, b[1] > second' PROVE b[1] > second
    <3>1. second' = second + 1 /\ b[1] \in Nat /\ second \in Nat
      BY <1>1, <1>10 DEF Logger!Tick, Logger!Backup
    <3> QED BY <2>1, <3>1
  <2> QED BY <1>1, <1>10, <2>1 DEF FlushInv, Logger!Tick
<1> QED BY <1>2, <1>3, <1>4, <1>5, <1>6, <1>7, <1>8, <1>9, <1>10 DEF Logger!Next

(* A step that touches no entry. *)
LEMMA QuietLogHolds ==
  ASSUME LogInv, UNCHANGED <<logged, buffer, batch, current, backup, lost, mixed>>
  PROVE  Whole(Contents, lost, logged)' /\ (~ mixed' => Ordered(Contents)')
<1>1. Contents' = Contents
  BY DEF Contents
<1> QED BY <1>1 DEF LogInv, Whole, Ordered

(* ... and the entries. *)
LEMMA LogStep ==
  ASSUME Logger!ClockAssumption, LogInv, [Logger!Next]_(Logger!vars)
  PROVE  LogInv'
<1> DEFINE Kept == Whole(Contents, lost, logged)' /\ (~ mixed' => Ordered(Contents)')
<1> USE DEF Logger!entries, Logger!file, Logger!backups
<1>1. LogType' /\ FlushInv'
  BY LogTypeStep, FlushStep
<1>2. ASSUME UNCHANGED Logger!vars PROVE Kept
  BY <1>2, QuietLogHolds DEF Logger!vars
<1>3. ASSUME Logger!Log \/ Logger!LogFatal PROVE Kept
  BY <1>1, <1>3, PutHolds DEF Logger!Log, Logger!LogFatal
<1>4. ASSUME Logger!Close \/ Logger!EndCall \/ Logger!cleanupOldFiles \/ Logger!Tick PROVE Kept
  BY <1>4, QuietLogHolds DEF Logger!Close, Logger!EndCall, Logger!cleanupOldFiles, Logger!Tick
<1>5. ASSUME NEW f \in Logger!Flusher, Logger!DropLine(f) \/ Logger!RenameFails(f) PROVE Kept
  BY <1>1, <1>5, DropHolds DEF Logger!DropLine, Logger!RenameFails
<1>6. Kept
  <2> HIDE DEF Kept
  <2>1. ASSUME NEW f \in Logger!Flusher, Logger!TakeBuffer(f) \/ Logger!WriteLine(f) \/ Logger!Rotate(f)
        PROVE  Kept
    BY <1>1, <2>1, TakeBufferHolds, WriteLineHolds, RotateHolds DEF Kept
  <2>2. ASSUME NEW s \in compressing, Logger!Compress(s) PROVE Kept
    BY <1>1, <2>2, CompressHolds DEF Kept
  <2>3. ASSUME NEW b \in doomed, Logger!RemoveBackup(b) PROVE Kept
    BY <1>1, <2>3, RemoveBackupHolds DEF Kept
  <2> QED BY <1>2, <1>3, <1>4, <1>5, <2>1, <2>2, <2>3 DEF Logger!Next
<1> QED BY <1>1, <1>6 DEF LogInv

(* The empty log. *)
LEMMA LogInit ==
  ASSUME Logger!ClockAssumption, Logger!Init PROVE LogInv
<1>1. LogType
  BY DEF LogType, Logger!Init, Logger!ClockAssumption, Logger!Flusher
<1>2. FlushInv
  BY DEF FlushInv, Logger!Init, Logger!Flusher
<1>3. \A p \in Place : DOMAIN Contents[p] = {}
  <2>1. PagesAre(Contents, backup, current, batch["ticker"], batch["caller"], buffer)
    BY <1>1, PagesNow
  <2>2. ASSUME NEW p \in Place PROVE Contents[p] = <<>>
    <3>1. CASE \E s \in 0..LastSecond : p = 2 * s + 1 \/ p = 2 * s + 2
      <4>1. PICK s \in 0..LastSecond : p = 2 * s + 1 \/ p = 2 * s + 2
        BY <3>1
      <4>2. backup[<<s, "gz">>] = <<>> /\ backup[<<s, "plain">>] = <<>>
        BY DEF Logger!Init, Logger!Backup
      <4> QED BY <2>1, <4>1, <4>2 DEF PagesAre
    <3>2. CASE p \in {N + 1, N + 2, N + 3, N + 4}
      BY <2>1, <3>2 DEF PagesAre, Logger!Init, Logger!Flusher
    <3> QED BY <3>1, <3>2, PageNumbers DEF Logger!ClockAssumption
  <2> QED BY <2>2
<1>4. logged = 0 /\ lost = {} /\ 1..0 = {}
  BY DEF Logger!Init
<1> QED BY <1>1, <1>2, <1>3, <1>4 DEF LogInv, Whole, Ordered

(* However many rotations, flushes and removals there are, an entry that   *)
(* was logged is in the files or on its way there once, and in order while *)
(* flushes do not overlap, or is one of those that are known to be lost.   *)
THEOREM LogsAreComplete ==
  ASSUME Logger!ClockAssumption PROVE Logger!Spec => []LogIsComplete
<1>1. Logger!Init => LogInv
  BY LogInit
<1>2. LogInv /\ [Logger!Next]_(Logger!vars) => LogInv'
  BY LogStep
<1>3. LogInv => LogIsComplete
  BY LogReads DEF LogIsComplete
<1> QED BY <1>1, <1>2, <1>3, PTL DEF Logger!Spec

-----------------------------------------------------------------------------
(* The token bucket of the rate limiter. *)

USE RateAssumption

R == RequestsPerMinute
S == Second
B == BurstSize

(* Up to a second and a token that have come in and not been counted yet.  *)
Slack == S * (60 + R)

(* What was granted beyond a burst for every time the client was new, in   *)
(* units in which the rate is R a tick.                                    *)
Beyond(n) == 60 * S * (window.granted + n - B * (1 + window.fresh))

RateType ==
  /\ clock \in Nat
  /\ known \in BOOLEAN
  /\ tokens \in 0..B
  /\ lastRefill \in 0..clock
  /\ window \in [start : Int, granted : Nat, fresh : Nat]
  /\ window.start \in -1..clock

(* An entry older than the interval: the tokens in hand at its start are   *)
(* at most a burst, and the first request has found a refill less than a   *)
(* token behind.                                                           *)
OldEntry ==
  Watched /\ known /\ lastRefill < window.start =>
    /\ window.fresh = 0
    /\ window.granted + tokens <= B
    /\ window.granted > 0 => R * (window.start - lastRefill) <= Slack

(* An entry refilled in the interval: tokens in hand count as granted, and *)
(* only the time up to the last refill has been paid for.                  *)
NewEntry ==
  Watched /\ known /\ lastRefill >= window.start =>
    Beyond(tokens) <= R * (lastRefill - window.start) + Slack

(* No entry: the next one brings a burst of its own. *)
NoEntry ==
  Watched /\ ~ known => Beyond(0) <= R * (clock - window.start) + Slack

RateInv == RateType /\ OldEntry /\ NewEntry /\ NoEntry

-----------------------------------------------------------------------------
(* The tokens that come in are worth no more than the time that has gone   *)
(* by, and no token comes in when that is less than Slack.                 *)
LEMMA TokensToAdd ==
  ASSUME RateType
  PROVE  /\ tokensToAdd \in Nat
         /\ 60 * S * tokensToAdd <= R * (clock - lastRefill)
         /\ tokensToAdd = 0 => R * (clock - lastRefill) <= Slack
<1> DEFINE t == clock - lastRefill
           q == t \div S
           a == (q * R) \div 60
<1>1. t \in Nat /\ R \in Nat \ {0} /\ S \in Nat \ {0}
  BY DEF RateType, R, S
<1>2. q \in Nat /\ S * q <= t /\ t < S * q + S
  BY <1>1, DivDown
<1>3. q * R \in Nat
  BY <1>1, <1>2
<1>4. a \in Nat /\ 60 * a <= q * R /\ q * R < 60 * a + 60
  BY <1>3, DivDown
<1>5. tokensToAdd = a
  BY DEF tokensToAdd, R, S
<1>6. 60 * S * a <= R * t
  <2>1. S * (60 * a) <= S * (q * R)
    BY <1>1, <1>3, <1>4
  <2>2. R * (S * q) <= R * t
    BY <1>1, <1>2
  <2> QED BY <1>1, <1>2, <1>4, <2>1, <2>2
<1>7. ASSUME a = 0 PROVE R * t <= Slack
  <2>1. R * t <= R * (S * q + S)
    BY <1>1, <1>2
  <2>2. S * (q * R) <= S * 60
    BY <1>1, <1>3, <1>4, <1>7
  <2> QED BY <1>1, <1>2, <2>1, <2>2 DEF Slack
<1> HIDE DEF a
<1> QED BY <1>4, <1>5, <1>6, <1>7

(* A refill fills the bucket, or adds what has come in. *)
LEMMA RefilledType ==
  ASSUME RateType
  PROVE  /\ Refilled \in 0..B
         /\ Refilled <= tokens + tokensToAdd
         /\ tokensToAdd = 0 => Refilled = tokens
<1>1. tokensToAdd \in Nat
  BY TokensToAdd
<1> QED BY <1>1 DEF Refilled, RateType, B

(* An interval that nobody watches promises nothing. *)
LEMMA UnwatchedInv ==
  ASSUME RateType', ~ Watched'
  PROVE  RateInv'
BY DEF RateInv, OldEntry, NewEntry, NoEntry

(* Nothing is watched in the beginning. *)
LEMMA RateInit == Init => RateInv
<1> SUFFICES ASSUME Init PROVE RateInv
  OBVIOUS
<1>1. RateType
  <2>1. clock = 0 /\ lastRefill = 0 /\ tokens = 0 /\ window = Unwatched
    BY DEF Init
  <2>2. window \in [start : Int, granted : Nat, fresh : Nat] /\ window.start = -1
    BY <2>1 DEF Unwatched
  <2>3. known \in BOOLEAN
    BY DEF Init
  <2> QED BY <2>1, <2>2, <2>3 DEF RateType, B
<1>2. ~ Watched
  BY DEF Init, Watched, Unwatched
<1> QED BY <1>1, <1>2 DEF RateInv, OldEntry, NewEntry, NoEntry

(* Counting n grants and f new entries. *)
LEMMA CountType ==
  ASSUME RateType, NEW n \in Nat, NEW f \in Nat, window' = Count(n, f)
  PROVE  /\ window' \in [start : Int, granted : Nat, fresh : Nat]
         /\ window'.start = window.start
         /\ Watched' = Watched
         /\ Watched => window'.granted = window.granted + n /\ window'.fresh = window.fresh + f
<1>1. window \in [start : Int, granted : Nat, fresh : Nat]
  BY DEF RateType
<1>2. CASE Watched
  <2>1. window' = [start |-> window.start, granted |-> window.granted + n, fresh |-> window.fresh + f]
    BY <1>1, <1>2 DEF Count
  <2>2. window.granted + n \in Nat /\ window.fresh + f \in Nat
    BY <1>1
  <2>3. window'.start = window.start
    BY <2>1
  <2>4. Watched'
    BY <1>2, <2>3 DEF Watched
  <2> QED BY <1>1, <1>2, <2>1, <2>2, <2>4
<1>3. CASE ~ Watched
  BY <1>1, <1>3 DEF Count, Watched
<1> QED BY <1>2, <1>3

(* A new entry brings a burst, which the interval is given for it.         *)
LEMMA AllowNewInv ==
  ASSUME RateInv, NEW r \in Request, AllowNew(r)
  PROVE  RateInv'
<1>1. /\ window' \in [start : Int, granted : Nat, fresh : Nat]
      /\ window'.start = window.start
      /\ Watched' = Watched
      /\ Watched => window'.granted = window.granted + 1 /\ window'.fresh = window.fresh + 1
  BY CountType DEF AllowNew, RateInv
<1>2. RateType'
  BY <1>1 DEF AllowNew, RateInv, RateType, B
<1>3. CASE Watched
  <2>1. Beyond(tokens)' = Beyond(0)
    BY <1>1, <1>3 DEF AllowNew, RateInv, RateType, Beyond, B, S
  <2>2. Beyond(0) <= R * (clock - window.start) + Slack
    BY <1>3 DEF AllowNew, RateInv, NoEntry
  <2>3. known' /\ lastRefill' = clock /\ window.start <= clock
    BY DEF AllowNew, RateInv, RateType
  <2>4. Slack' = Slack
    BY DEF Slack, R, S
  <2>5. NewEntry'
    BY <1>1, <2>1, <2>2, <2>3, <2>4 DEF NewEntry, R
  <2>6. OldEntry' /\ NoEntry'
    BY <1>1, <2>3 DEF OldEntry, NoEntry, RateInv, RateType
  <2> QED BY <1>2, <2>5, <2>6 DEF RateInv
<1> QED BY <1>1, <1>2, <1>3, UnwatchedInv

(* Whether the request is granted or refused, what was granted and the     *)
(* tokens in hand come to what was granted and the refilled bucket.        *)
LEMMA BucketStep ==
  ASSUME RateInv, NEW r \in Request, tokenBucketAllow(r)
  PROVE  /\ RateType'
         /\ known /\ known' /\ clock' = clock
         /\ window'.start = window.start /\ Watched' = Watched
         /\ Watched => /\ window'.fresh = window.fresh
                       /\ window'.granted + tokens' = window.granted + Refilled
<1>1. known /\ known' = known /\ clock' = clock
  BY DEF tokenBucketAllow
<1>2. lastRefill' \in 0..clock
  BY DEF tokenBucketAllow, RateInv, RateType
<1>3. Refilled \in 0..B /\ RateType
  BY RefilledType DEF RateInv
<1>4. CASE Refilled > 0 /\ tokens' = Refilled - 1 /\ window' = Count(1, 0)
  <2>1. /\ window' \in [start : Int, granted : Nat, fresh : Nat]
        /\ window'.start = window.start
        /\ Watched' = Watched
        /\ Watched => window'.granted = window.granted + 1 /\ window'.fresh = window.fresh + 0
    BY <1>3, <1>4, CountType
  <2>2. tokens' \in 0..B
    BY <1>3, <1>4 DEF B
  <2>3. RateType'
    BY <1>1, <1>2, <1>3, <2>1, <2>2 DEF RateType, B
  <2> QED BY <1>1, <1>3, <1>4, <2>1, <2>3 DEF RateType, B
<1>5. CASE Refilled = 0 /\ tokens' = Refilled /\ window' = window
  BY <1>1, <1>2, <1>3, <1>5 DEF RateType, Watched, B
<1> QED BY <1>4, <1>5 DEF tokenBucketAllow

(* Nothing has come in: an old entry stays old, and is less than Slack     *)
(* behind if it is still used.                                             *)
LEMMA NoRefillInv ==
  ASSUME RateInv, NEW r \in Request, tokenBucketAllow(r), tokensToAdd = 0, Watched
  PROVE  RateInv'
<1>1. /\ RateType'
      /\ known /\ known' /\ clock' = clock
      /\ window'.start = window.start /\ Watched'
      /\ window'.fresh = window.fresh
      /\ window'.granted + tokens' = window.granted + tokens
  BY BucketStep, RefilledType DEF RateInv
<1>2. lastRefill' = lastRefill
  BY DEF tokenBucketAllow
<1>3. R * (clock - lastRefill) <= Slack
  BY TokensToAdd DEF RateInv
<1>4. Slack' = Slack /\ Slack \in Nat /\ R' = R /\ R \in Nat
  BY DEF Slack, R, S
<1>5. CASE lastRefill < window.start
  <2>1. window.fresh = 0 /\ window.granted + tokens <= B
    BY <1>1, <1>5 DEF RateInv, OldEntry
  <2>2. R * (window.start - lastRefill) <= R * (clock - lastRefill)
    BY <1>4 DEF RateInv, RateType
  <2>3. R * (window.start - lastRefill) <= Slack
    BY <1>3, <1>4, <2>2 DEF RateInv, RateType
  <2> QED BY <1>1, <1>2, <1>4, <1>5, <2>1, <2>3 DEF RateInv, RateType, OldEntry, NewEntry, NoEntry, B
<1>6. CASE lastRefill >= window.start
  <2>1. Beyond(tokens) <= R * (lastRefill - window.start) + Slack
    BY <1>1, <1>6 DEF RateInv, NewEntry
  <2>2. Beyond(tokens)' = Beyond(tokens)
    BY <1>1 DEF Beyond, B, S, RateInv, RateType
  <2> QED BY <1>1, <1>2, <1>4, <1>6, <2>1, <2>2 DEF RateInv, RateType, OldEntry, NewEntry, NoEntry
<1> QED BY <1>5, <1>6 DEF RateInv, RateType

(* Something has come in: the entry is renewed, and what it got is worth   *)
(* no more than the time since the last refill.                            *)
LEMMA RefillInv ==
  ASSUME RateInv, NEW r \in Request, tokenBucketAllow(r), tokensToAdd > 0, Watched
  PROVE  RateInv'
<1>1. /\ RateType'
      /\ known /\ known' /\ clock' = clock
      /\ window'.start = window.start /\ Watched'
      /\ window'.fresh = window.fresh
      /\ window'.granted + tokens' = window.granted + Refilled
  BY BucketStep
<1>2. lastRefill' = clock
  BY DEF tokenBucketAllow
<1>3. /\ Refilled \in 0..B /\ Refilled <= tokens + tokensToAdd
      /\ tokensToAdd \in Nat /\ 60 * S * tokensToAdd <= R * (clock - lastRefill)
  BY TokensToAdd, RefilledType DEF RateInv
<1>4. /\ Slack' = Slack /\ Slack \in Nat
      /\ R' = R /\ R \in Nat /\ S \in Nat /\ B \in Nat
      /\ S' = S /\ B' = B
  BY DEF Slack, R, S, B
<1>5. Beyond(tokens)' = Beyond(Refilled)
  BY <1>1, <1>3 DEF Beyond, S, B, RateInv, RateType
<1>6. Beyond(Refilled) <= R * (clock - window.start) + Slack
  <2>1. CASE lastRefill < window.start
    <3>1. window.fresh = 0 /\ window.granted + tokens <= B
      BY <1>1, <2>1 DEF RateInv, OldEntry
    <3>2. CASE window.granted = 0
      <4>1. Refilled - B <= 0
        BY <1>3, <1>4
      <4>2. Beyond(Refilled) = 60 * S * (Refilled - B)
        BY <1>3, <1>4, <3>1, <3>2 DEF Beyond
      <4>3. 60 * S * (Refilled - B) <= 0
        BY <1>3, <1>4, <4>1
      <4>4. R * (clock - window.start) >= 0
        BY <1>4 DEF RateInv, RateType
      <4>5. R * (clock - window.start) \in Int /\ Beyond(Refilled) \in Int
        BY <1>3, <1>4, <4>2 DEF RateInv, RateType
      <4> QED BY <1>4, <4>2, <4>3, <4>4, <4>5
    <3>3. CASE window.granted > 0
      <4>1. R * (window.start - lastRefill) <= Slack
        BY <1>1, <2>1, <3>3 DEF RateInv, OldEntry
      <4>2. window.granted + Refilled - B <= tokensToAdd
        BY <1>3, <1>4, <3>1 DEF RateInv, RateType
      <4>3. Beyond(Refilled) = 60 * S * (window.granted + Refilled - B)
        BY <1>3, <1>4, <3>1 DEF Beyond, RateInv, RateType
      <4>4. 60 * S * (window.granted + Refilled - B) <= 60 * S * tokensToAdd
        BY <1>3, <1>4, <4>2 DEF RateInv, RateType
      <4>5. R * (clock - lastRefill) = R * (clock - window.start) + R * (window.start - lastRefill)
        BY <1>4 DEF RateInv, RateType
      <4>6. Beyond(Refilled) <= R * (clock - lastRefill)
        BY <1>3, <1>4, <4>3, <4>4 DEF RateInv, RateType
      <4>7. /\ R * (clock - window.start) \in Int /\ R * (window.start - lastRefill) \in Int
            /\ Beyond(Refilled) \in Int
        BY <1>3, <1>4, <4>3 DEF RateInv, RateType
      <4> QED BY <1>4, <4>1, <4>5, <4>6, <4>7
    <3> QED BY <3>2, <3>3 DEF RateInv, RateType
  <2>2. CASE lastRefill >= window.start
    <3>1. Beyond(tokens) <= R * (lastRefill - window.start) + Slack
      BY <1>1, <2>2 DEF RateInv, NewEntry
    <3>2. Beyond(tokens + tokensToAdd) = Beyond(tokens) + 60 * S * tokensToAdd
      BY <1>3, <1>4 DEF Beyond, RateInv, RateType
    <3>3. Beyond(Refilled) <= Beyond(tokens + tokensToAdd)
      BY <1>3, <1>4 DEF Beyond, RateInv, RateType
    <3>4. R * (clock - window.start) = R * (clock - lastRefill) + R * (lastRefill - window.start)
      BY <1>4 DEF RateInv, RateType
    <3>5. Beyond(Refilled) \in Int /\ Beyond(tokens) \in Int /\ Beyond(tokens + tokensToAdd) \in Int
      BY <1>3, <1>4 DEF Beyond, RateInv, RateType
    <3> QED BY <1>3, <1>4, <3>1, <3>2, <3>3, <3>4, <3>5 DEF RateInv, RateType
  <2> QED BY <2>1, <2>2 DEF RateInv, RateType
<1>7. window.start <= clock
  BY DEF RateInv, RateType
<1>8. NewEntry'
  BY <1>1, <1>2, <1>4, <1>5, <1>6 DEF NewEntry
<1>9. OldEntry' /\ NoEntry'
  BY <1>1, <1>2, <1>7 DEF OldEntry, NoEntry, RateInv, RateType
<1> QED BY <1>1, <1>8, <1>9 DEF RateInv

(* A grant takes a token that was there or has come in. *)
LEMMA BucketInv ==
  ASSUME RateInv, NEW r \in Request, tokenBucketAllow(r)
  PROVE  RateInv'
<1>1. RateType' /\ Watched' = Watched /\ tokensToAdd \in Nat
  BY BucketStep, TokensToAdd DEF RateInv
<1>2. CASE Watched /\ tokensToAdd = 0
  BY <1>2, NoRefillInv
<1>3. CASE Watched /\ tokensToAdd > 0
  BY <1>3, RefillInv
<1> QED BY <1>1, <1>2, <1>3, UnwatchedInv

(* The bound follows from each of the three cases. *)
LEMMA Bound == RateInv => RateBound
<1> SUFFICES ASSUME RateInv, Watched
             PROVE  Beyond(0) <= R * (clock - window.start) + Slack
  BY DEF RateBound, Beyond, Slack, R, S, B, RateInv, RateType
<1>1. /\ R \in Nat /\ S \in Nat /\ B \in Nat /\ Slack \in Nat
      /\ tokens \in Nat /\ window.granted \in Nat /\ window.fresh \in Nat
      /\ clock \in Nat /\ lastRefill \in Int /\ window.start \in Int
      /\ window.start <= clock /\ lastRefill <= clock
  BY DEF R, S, B, Slack, RateInv, RateType
<1>2. CASE known /\ lastRefill < window.start
  <2>1. window.fresh = 0 /\ window.granted - B <= 0
    BY <1>1, <1>2 DEF RateInv, OldEntry
  <2>2. Beyond(0) = 60 * S * (window.granted - B)
    BY <1>1, <2>1 DEF Beyond
  <2>3. 60 * S * (window.granted - B) <= 0
    BY <1>1, <2>1
  <2>4. R * (clock - window.start) >= 0
    BY <1>1
  <2> QED BY <1>1, <2>2, <2>3, <2>4
<1>3. CASE known /\ lastRefill >= window.start
  <2>1. Beyond(tokens) <= R * (lastRefill - window.start) + Slack
    BY <1>3 DEF RateInv, NewEntry
  <2>2. Beyond(tokens) = Beyond(0) + 60 * S * tokens /\ 60 * S * tokens >= 0
    BY <1>1 DEF Beyond
  <2>3. R * (lastRefill - window.start) <= R * (clock - window.start)
    BY <1>1
  <2>4. Beyond(0) \in Int
    BY <1>1 DEF Beyond
  <2> QED BY <1>1, <2>1, <2>2, <2>3, <2>4
<1>4. CASE ~ known
  BY <1>4 DEF RateInv, NoEntry
<1> QED BY <1>1, <1>2, <1>3, <1>4 DEF RateInv, RateType

(* A client that is forgotten keeps the bound it had. *)
LEMMA CleanupInv ==
  ASSUME RateInv, cleanup
  PROVE  RateInv'
<1>1. RateType' /\ ~ known'
  BY DEF cleanup, RateInv, RateType
<1>2. Watched => Beyond(0) <= R * (clock - window.start) + Slack
  BY Bound DEF RateBound, Beyond, Slack, R, S, B, RateInv, RateType
<1>3. NoEntry'
  BY <1>2 DEF cleanup, NoEntry, Watched, Beyond, Slack, R, S, B
<1> QED BY <1>1, <1>3 DEF RateInv, OldEntry, NewEntry

(* Time passes, and with it what may be granted grows. *)
LEMMA TickInv ==
  ASSUME RateInv, Tick
  PROVE  RateInv'
<1>1. RateType' /\ UNCHANGED <<known, tokens, lastRefill, window>> /\ clock' = clock + 1
  BY DEF Tick, client, RateInv, RateType
<1>2. /\ R \in Nat /\ Slack \in Nat /\ clock \in Nat /\ window.start \in Int /\ Beyond(0) \in Int
      /\ Slack' = Slack /\ R' = R /\ Beyond(0)' = Beyond(0) /\ Beyond(tokens)' = Beyond(tokens)
      /\ Watched' = Watched
  BY <1>1 DEF R, S, B, Slack, Beyond, Watched, RateInv, RateType
<1>3. R * (clock' - window.start) = R * (clock - window.start) + R
  <2>1. \A t \in Int : R * (t + 1) = R * t + R
    BY <1>2
  <2>2. clock' - window.start = clock - window.start + 1
    BY <1>1, <1>2
  <2> QED BY <1>2, <2>1, <2>2
<1>4. NoEntry'
  BY <1>1, <1>2, <1>3 DEF NoEntry, RateInv
<1>5. OldEntry'
  BY <1>1, <1>2 DEF OldEntry, RateInv, B
<1>6. NewEntry'
  BY <1>1, <1>2 DEF NewEntry, RateInv
<1> QED BY <1>1, <1>4, <1>5, <1>6 DEF RateInv

(* At the start of an interval nothing has been granted in it. *)
LEMMA WatchInv ==
  ASSUME RateInv, Watch
  PROVE  RateInv'
<1>1. UNCHANGED <<clock, known, tokens, lastRefill>>
  BY DEF Watch, client
<1>2. window' = [start |-> clock, granted |-> 0, fresh |-> 0]
  BY DEF Watch, Unwatched
<1>3. RateType'
  BY <1>1, <1>2 DEF RateInv, RateType, B
<1>4. /\ R \in Nat /\ S \in Nat /\ B \in Nat /\ Slack \in Nat /\ Slack' = Slack /\ R' = R
      /\ tokens \in 0..B /\ lastRefill \in 0..clock /\ clock \in Nat
  BY DEF R, S, B, Slack, RateInv, RateType
<1>5. Beyond(tokens)' = 60 * S * (tokens - B) /\ Beyond(0)' = 60 * S * (0 - B)
  BY <1>1, <1>2, <1>4 DEF Beyond, S, B
<1>6. 60 * S * (tokens - B) <= 0 /\ 60 * S * (0 - B) <= 0
  BY <1>4
<1>7. OldEntry'
  BY <1>1, <1>2, <1>4 DEF OldEntry, B
<1>8. NewEntry'
  <2>1. lastRefill' >= window'.start => lastRefill' - window'.start = 0
    BY <1>1, <1>2, <1>4
  <2> QED BY <1>1, <1>2, <1>4, <1>5, <1>6, <2>1 DEF NewEntry
<1>9. NoEntry'
  <2>1. R * (clock' - window'.start) = 0
    BY <1>1, <1>2, <1>4
  <2> QED BY <1>1, <1>2, <1>4, <1>5, <1>6, <2>1 DEF NoEntry
<1> QED BY <1>3, <1>7, <1>8, <1>9 DEF RateInv

(* Steps that the bucket and the clock have no part in. *)
LEMMA OtherInv ==
  ASSUME RateInv, UNCHANGED <<clock, known, tokens, lastRefill, window>>
  PROVE  RateInv'
BY DEF RateInv, RateType, OldEntry, NewEntry, NoEntry, Watched, Beyond, Slack, R, S, B

(* Every step keeps the invariant. *)
LEMMA RateStep == RateInv /\ [Next]_vars => RateInv'
<1> SUFFICES ASSUME RateInv, [Next]_vars PROVE RateInv'
  OBVIOUS
<1>1. CASE \E r \in Request : AllowNew(r)
  BY <1>1, AllowNewInv
<1>2. CASE \E r \in Request : tokenBucketAllow(r)
  BY <1>2, BucketInv
<1>3. CASE \E r \in Request : SetHeaders(r)
  BY <1>3, OtherInv DEF SetHeaders, client
<1>4. CASE cleanup
  BY <1>4, CleanupInv
<1>5. CASE Tick
  BY <1>5, TickInv
<1>6. CASE Watch
  BY <1>6, WatchInv
<1>7. CASE UNCHANGED vars
  BY <1>7, OtherInv DEF vars, client
<1> QED BY <1>1, <1>2, <1>3, <1>4, <1>5, <1>6, <1>7 DEF Next

(* In any interval, however the requests fall into it and however often    *)
(* the client is forgotten, the bucket grants no more than the rate, the   *)
(* bursts, a token and a second.                                           *)
THEOREM RateIsBounded == Spec => []RateBound
<1>1. Init => RateInv
  BY RateInit
<1>2. RateInv /\ [Next]_vars => RateInv'
  BY RateStep
<1>3. RateInv => RateBound
  BY Bound
<1> QED BY <1>1, <1>2, <1>3, PTL DEF Spec
=============================================================================
