-------------------------- MODULE DownloadTransfer --------------------------
(***************************************************************************)
(* What the download manager writes to the temporary file of one task over *)
(* all the attempts at it: downloadSingle with its Range header, or        *)
(* downloadWithChunks with one goroutine per chunk.  An attempt ends early *)
(* by a network error or by the context (pause, cancel, stop) and the next *)
(* one starts from what the task remembers.  CancelDownload removes the    *)
(* file whatever is going on; that a cancelled task may be tried again is  *)
(* the subject of DownloadManager.                                         *)
(***************************************************************************)
EXTENDS Integers, Sequences, FiniteSets

CONSTANTS
  FileSizes,     \* sizes of files that are downloaded
  ChunkSize,     \* config.ChunkSize
  MaxAttempts,   \* bound on the attempts (config.MaxRetries, and pauses)
  SemCap         \* chunk downloads at a time (3 in the code)

SizesAssumption == FileSizes \subseteq Nat \ {0} /\ ChunkSize \in Nat \ {0}
BoundsAssumption == MaxAttempts \in Nat \ {0} /\ SemCap \in Nat \ {0}

VARIABLES
  fileSize,     \* Content-Length in the answer to HEAD
  acceptRanges, \* that answer said Accept-Ranges: bytes
  ranged,       \* the server answers a Range request with 206
  run,         \* where downloadFile is
  attempt,     \* attempts so far
  got,         \* task.Downloaded
  body,        \* bytes of the response body read in this attempt
  file,        \* the file at task.TempPath: file[i] is the byte of the source written there, 0 a hole
  linked,      \* the file this attempt opened or created is the one at task.TempPath
  cancelled,   \* CancelDownload has removed the file at task.TempPath
  chunkGot,    \* chunkGot[c]: chunk.Downloaded
  finished,    \* chunks with ChunkStatusCompleted
  goroutine    \* goroutine[c]: where the goroutine of chunk c is

server  == <<fileSize, acceptRanges, ranged>>
single  == <<got, body>>
disk    == <<file, linked, cancelled>>
chunked == <<chunkGot, finished, goroutine>>
vars    == <<server, run, attempt, single, disk, chunked>>

Source == [i \in 1..fileSize |-> i]

(* Mutant of createChunks: the end of a chunk is taken for exclusive. *)
createChunks_Exclusive ==
  [c \in 1..((fileSize + ChunkSize - 1) \div ChunkSize) |->
     LET end == c * ChunkSize IN
       [start |-> (c - 1) * ChunkSize + 1, end |-> IF end >= fileSize THEN fileSize ELSE end - 1]]

(* First and last byte of each chunk, counted from 1. *)
createChunks ==
  [c \in 1..((fileSize + ChunkSize - 1) \div ChunkSize) |->
     LET end == c * ChunkSize IN
       [start |-> (c - 1) * ChunkSize + 1, end |-> IF end > fileSize THEN fileSize ELSE end]]

Chunk == IF acceptRanges /\ fileSize > ChunkSize THEN DOMAIN createChunks ELSE {}
Size(c) == createChunks[c].end - createChunks[c].start + 1

(* Writing byte b at position p extends the file with holes if need be. *)
Extended(p, b) ==
  [i \in 1..(IF p > Len(file) THEN p ELSE Len(file)) |->
     IF i = p THEN b ELSE IF i <= Len(file) THEN file[i] ELSE 0]

(* What is written to a file that was removed is gone with it. *)
Write(p, b) ==
  /\ file' = IF linked THEN Extended(p, b) ELSE file
  /\ UNCHANGED <<linked, cancelled>>

-----------------------------------------------------------------------------
(* One attempt: processTask calls downloadFile *)

Start ==
  /\ run = "idle"
  /\ attempt' = attempt + 1
  /\ run' = IF Chunk = {} THEN "request" ELSE "create"
  /\ UNCHANGED <<server, single, disk, chunked>>

(* The manager tries again, or somebody resumes the task. *)
Retry ==
  /\ run = "failed"
  /\ attempt < MaxAttempts
  /\ run' = "idle"
  /\ UNCHANGED <<server, attempt, single, disk, chunked>>

(* CancelDownload removes the temporary file of a task that has been       *)
(* started, under the hands of a transfer that has it open.  The task      *)
(* forgets nothing of what it has counted.                                 *)
Cancel ==
  /\ ~ cancelled
  /\ attempt > 0
  /\ cancelled' = TRUE
  /\ file' = <<>>
  /\ linked' = FALSE
  /\ UNCHANGED <<server, run, attempt, single, chunked>>

-----------------------------------------------------------------------------
(* downloadSingle *)

(* The request carries a Range header when something was downloaded        *)
(* before.  A server that honours it sends the rest, or 416 when nothing   *)
(* is left; any other sends the file from its start.  The temporary file   *)
(* is opened without truncation.                                           *)
Respond ==
  /\ run = "request"
  /\ \/ run' = "failed" /\ UNCHANGED <<body, linked>>
     \/ /\ run' = "body"
        /\ ~ (ranged /\ got = fileSize)
        /\ body' = IF ranged THEN got ELSE 0
        /\ linked' = TRUE
  /\ UNCHANGED <<server, attempt, got, file, cancelled, chunked>>

(* Each read is written behind what was downloaded so far and counted. *)
ReadBody ==
  /\ run = "body"
  /\ body < fileSize
  /\ Write(got + 1, body + 1)
  /\ body' = body + 1
  /\ got' = got + 1
  /\ UNCHANGED <<server, run, attempt, chunked>>

(* A failed write may have reached the file; it is not counted. *)
WriteError ==
  /\ run = "body"
  /\ body < fileSize
  /\ Write(got + 1, body + 1)
  /\ run' = "failed"
  /\ UNCHANGED <<server, attempt, single, chunked>>

(* End of file, a read error, or the context found done: a pause, a cancel *)
(* or a stop ends the attempt like any other error.                        *)
EndBody ==
  /\ run = "body"
  /\ \/ body = fileSize /\ run' = "completed"
     \/ run' = "failed"
  /\ UNCHANGED <<server, attempt, single, disk, chunked>>

-----------------------------------------------------------------------------
(* downloadWithChunks *)

(* os.Create truncates the temporary file, whatever the chunks remember;   *)
(* finished chunks get no goroutine.                                       *)
CreateFile ==
  /\ run = "create"
  /\ run' = "chunks"
  /\ file' = <<>>
  /\ linked' = TRUE
  /\ goroutine' = [c \in Chunk |-> IF c \in finished THEN "none" ELSE "waiting"]
  /\ UNCHANGED <<server, attempt, single, cancelled, chunkGot, finished>>

Move(c, from, to) ==
  /\ run = "chunks"
  /\ goroutine[c] = from
  /\ goroutine' = [goroutine EXCEPT ![c] = to]
  /\ UNCHANGED <<server, run, attempt, single>>

(* semaphore <- struct{}{} *)
Acquire(c) ==
  /\ Cardinality({d \in Chunk : goroutine[d] \in {"request", "body"}}) < SemCap
  /\ Move(c, "waiting", "request")
  /\ UNCHANGED <<disk, chunkGot, finished>>

(* The range of a chunk with nothing left to download is not satisfiable,  *)
(* and only 206 is taken for an answer.  A chunk opens the file, and does  *)
(* not create it.                                                          *)
RespondChunk(c) ==
  /\ ranged /\ chunkGot[c] < Size(c)
  /\ linked
  /\ Move(c, "request", "body")
  /\ UNCHANGED <<disk, chunkGot, finished>>

ReadChunk(c) ==
  /\ chunkGot[c] < Size(c)
  /\ Move(c, "body", "body")
  /\ LET p == createChunks[c].start + chunkGot[c] IN Write(p, p)
  /\ chunkGot' = [chunkGot EXCEPT ![c] = @ + 1]
  /\ UNCHANGED finished

EndChunk(c) ==
  /\ chunkGot[c] = Size(c)
  /\ Move(c, "body", "none")
  /\ finished' = finished \cup {c}
  /\ UNCHANGED <<disk, chunkGot>>

FailChunk(c) ==
  /\ Move(c, "request", "error") \/ Move(c, "body", "error")
  /\ UNCHANGED <<disk, chunkGot, finished>>

(* wg.Wait, then the first error if there is one. *)
Join ==
  /\ run = "chunks"
  /\ \A c \in Chunk : goroutine[c] \in {"none", "error"}
  /\ run' = IF \E c \in Chunk : goroutine[c] = "error" THEN "failed" ELSE "completed"
  /\ UNCHANGED <<server, attempt, single, disk, chunked>>

-----------------------------------------------------------------------------
Init ==
  /\ fileSize \in FileSizes
  /\ acceptRanges \in BOOLEAN
  /\ ranged \in BOOLEAN
  /\ run = "idle"
  /\ attempt = 0
  /\ got = 0
  /\ body = 0
  /\ file = <<>>
  /\ linked = TRUE
  /\ cancelled = FALSE
  /\ chunkGot = [c \in Chunk |-> 0]
  /\ finished = {}
  /\ goroutine = [c \in Chunk |-> "none"]

Next ==
  \/ Start \/ Retry \/ Cancel
  \/ Respond \/ ReadBody \/ WriteError \/ EndBody
  \/ CreateFile \/ Join
  \/ \E c \in Chunk : \/ Acquire(c) \/ RespondChunk(c) \/ ReadChunk(c)
                      \/ EndChunk(c) \/ FailChunk(c)

Spec == Init /\ [][Next]_vars

-----------------------------------------------------------------------------
(* Properties *)

(* The file of a completed download that nobody cancelled is the source,   *)
(* byte for byte: a single stream however often it was broken off, if the  *)
(* server answers Range requests, and chunks in the attempt that they all  *)
(* succeed in.  A cancelled download may complete with a hole, or with no  *)
(* file at all.                                                            *)
CompletedIsIntact ==
  /\ run = "completed" /\ ~ cancelled
  /\ IF Chunk = {} THEN ranged \/ got = fileSize ELSE attempt = 1
  => file = Source

(* A download that was broken off and is resumed ends with the source too. *)
ResumedIsIntact == run = "completed" /\ ranged /\ ~ cancelled => file = Source

(* What downloadSingle has counted is in the file and correct, so that a   *)
(* later attempt can go on behind it, as long as the file is not removed   *)
(* by a cancel.                                                            *)
CountedIsWritten ==
  Chunk = {} /\ ranged /\ ~ cancelled =>
    /\ got <= fileSize /\ got <= Len(file)
    /\ \A i \in 1..got : file[i] = i
=============================================================================
