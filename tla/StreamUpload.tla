---------------------------- MODULE StreamUpload ----------------------------
(***************************************************************************)
(* The chunked upload service: sessions that clients open, fill chunk by   *)
(* chunk, cancel and resume, with one temporary file each.  The map of     *)
(* sessions is guarded by sus.mutex, what is in a session by               *)
(* session.mutex; its Status is written under either.                      *)
(***************************************************************************)
EXTENDS Integers, FiniteSets

CONSTANTS
  Session,        \* upload sessions
  Request,        \* UploadChunk and ResumeUpload calls in flight at a time
  Chunk,          \* chunk indices of each session
  MaxConcurrent,  \* config.MaxConcurrent
  Checks,         \* checksums a client may give: subset of {"chunk", "file"}
  Calls,          \* other calls made: subset of {"cancel", "resume", "expire", "stop"}
  Nil             \* no request

ASSUME NilAssumption == Nil \notin Request
ASSUME ChunkAssumption == IsFiniteSet(Chunk)
ASSUME MaxConcurrentAssumption == MaxConcurrent \in Nat \ {0}

VARIABLES
  checks,    \* checks[s]: what the client of s gives checksums of
  opening,   \* opening[s]: where InitiateUpload is for s
  uploads,   \* sus.uploads
  status,    \* status[s]: session.Status, "none" before the session is made
  file,      \* sessions whose temporary file exists
  content,   \* content[s][c]: what the temporary file holds in the place of chunk c
  uploaded,  \* uploaded[s]: chunks with Uploaded set
  size,      \* size[s]: session.UploadedSize, in chunks
  holder,    \* holder[s]: the request that holds session.mutex
  pc,        \* pc[r]: where request r is
  arg,       \* arg[r]: its session, chunk and data
  removing,  \* sessions out of the map whose file is about to be removed
  told,      \* sessions of which some reply said Completed
  stopped    \* Stop was called

book == <<content, uploaded, size>>
call == <<pc, arg>>
vars == <<checks, opening, uploads, status, file, book, holder, call, removing, told, stopped>>

Statuses == {"none", "initialized", "uploading", "completed", "failed", "cancelled", "expired"}
Data == {"good", "corrupt", "short"}
Content == {"hole", "good", "corrupt", "torn"}
PC == {"idle", "lock", "check", "write", "mark", "finalize", "lock resume", "check resume", "resume"}

-----------------------------------------------------------------------------
(* InitiateUpload *)

(* The limit counts the sessions that have received a chunk. *)
CheckLimit(s) ==
  /\ opening[s] = "no"
  /\ Cardinality({u \in uploads : status[u] = "uploading"}) < MaxConcurrent
  /\ opening' = [opening EXCEPT ![s] = "admitted"]
  /\ UNCHANGED <<checks, uploads, status, file, book, holder, call, removing, told, stopped>>

(* A file that was created and could not be extended stays. *)
CreateTempFile(s) ==
  /\ opening[s] = "admitted"
  /\ \/ file' = file \cup {s} /\ opening' = [opening EXCEPT ![s] = "created"]
     \/ file' \in {file, file \cup {s}} /\ opening' = [opening EXCEPT ![s] = "failed"]
  /\ UNCHANGED <<checks, uploads, status, book, holder, call, removing, told, stopped>>

SaveSession(s) ==
  /\ opening[s] = "created"
  /\ opening' = [opening EXCEPT ![s] = "done"]
  /\ uploads' = uploads \cup {s}
  /\ status' = [status EXCEPT ![s] = "initialized"]
  /\ UNCHANGED <<checks, file, book, holder, call, removing, told, stopped>>

-----------------------------------------------------------------------------
(* UploadChunk *)

isUploadCompleted(marked) == marked = Chunk

Step(r, from, to) == pc[r] = from /\ pc' = [pc EXCEPT ![r] = to]

Proceed(r, from, to) == Step(r, from, to) /\ UNCHANGED <<checks, holder, arg>>

(* The deferred Unlock. *)
Return(r, from) ==
  /\ Step(r, from, "idle")
  /\ holder' = [holder EXCEPT ![arg[r].session] = Nil]
  /\ arg' = [arg EXCEPT ![r] = Nil]

FindSession(r) ==
  /\ \E s \in uploads, c \in Chunk, d \in Data :
       arg' = [arg EXCEPT ![r] = [session |-> s, chunk |-> c, data |-> d]]
  /\ \/ Step(r, "idle", "lock")
     \/ "resume" \in Calls /\ Step(r, "idle", "lock resume")
  /\ UNCHANGED <<checks, opening, uploads, status, file, book, holder, removing, told, stopped>>

(* Mutant of Lock: the session's mutex is not waited for. *)
Lock_Shared(r) ==
  /\ Step(r, "lock", "check") \/ Step(r, "lock resume", "check resume")
  /\ holder' = [holder EXCEPT ![arg[r].session] = r]
  /\ UNCHANGED <<checks, opening, uploads, status, file, book, arg, removing, told, stopped>>

Lock(r) ==
  /\ Step(r, "lock", "check") \/ Step(r, "lock resume", "check resume")
  /\ holder[arg[r].session] = Nil
  /\ holder' = [holder EXCEPT ![arg[r].session] = r]
  /\ UNCHANGED <<checks, opening, uploads, status, file, book, arg, removing, told, stopped>>

Open(s) == status[s] \in {"initialized", "uploading"}

Acceptable(r) == arg[r].data = "good" \/ (arg[r].data = "corrupt" /\ checks[arg[r].session] = "file")

(* Mutant of Refuse: an early return without the deferred Unlock. *)
Refuse_KeepsLock(r) ==
  LET s == arg[r].session IN
    /\ Step(r, "check", "idle")
    /\ ~ Open(s) \/ (arg[r].chunk \notin uploaded[s] /\ ~ Acceptable(r))
    /\ arg' = [arg EXCEPT ![r] = Nil]
    /\ UNCHANGED <<checks, opening, uploads, status, file, book, holder, removing, told, stopped>>

(* A closed session, a chunk of another size, a checksum that differs. *)
Refuse(r) ==
  LET s == arg[r].session IN
    /\ Return(r, "check")
    /\ ~ Open(s) \/ (arg[r].chunk \notin uploaded[s] /\ ~ Acceptable(r))
    /\ UNCHANGED <<checks, opening, uploads, status, file, book, removing, told, stopped>>

(* A chunk sent again changes nothing; its reply says Completed when all   *)
(* chunks are there.                                                       *)
AlreadyUploaded(r) ==
  LET s == arg[r].session IN
    /\ Return(r, "check")
    /\ Open(s) /\ arg[r].chunk \in uploaded[s]
    /\ told' = IF isUploadCompleted(uploaded[s]) THEN told \cup {s} ELSE told
    /\ UNCHANGED <<checks, opening, uploads, status, file, book, removing, stopped>>

Accept(r) ==
  LET s == arg[r].session IN
    /\ Proceed(r, "check", "write")
    /\ Open(s) /\ arg[r].chunk \notin uploaded[s] /\ Acceptable(r)
    /\ UNCHANGED <<checks, opening, uploads, status, file, book, removing, told, stopped>>

(* Mutant of WriteChunk: the error of Write is dropped. *)
WriteChunk_DropsError(r) ==
  LET s == arg[r].session IN
    /\ Proceed(r, "write", "mark")
    /\ s \in file
    /\ content' \in {[content EXCEPT ![s][arg[r].chunk] = d] : d \in {arg[r].data, "torn"}}
    /\ UNCHANGED <<checks, opening, uploads, status, file, uploaded, size, removing, told, stopped>>

(* The file is opened without O_CREATE; a write that fails may have        *)
(* reached a part of the chunk.                                            *)
WriteChunk(r) ==
  LET s == arg[r].session IN
    /\ \/ /\ Proceed(r, "write", "mark")
          /\ s \in file
          /\ content' = [content EXCEPT ![s][arg[r].chunk] = arg[r].data]
       \/ /\ Return(r, "write")
          /\ \/ UNCHANGED content
             \/ s \in file /\ content' = [content EXCEPT ![s][arg[r].chunk] = "torn"]
    /\ UNCHANGED <<checks, opening, uploads, status, file, uploaded, size, removing, told, stopped>>

(* The status is set whatever it is by now. *)
MarkChunk(r) ==
  LET s == arg[r].session
      marked == uploaded[s] \cup {arg[r].chunk} IN
    /\ pc[r] = "mark"
    /\ uploaded' = [uploaded EXCEPT ![s] = marked]
    /\ size' = [size EXCEPT ![s] = @ + 1]
    /\ status' = [status EXCEPT ![s] = "uploading"]
    /\ \/ isUploadCompleted(marked) /\ Proceed(r, "mark", "finalize")
       \/ ~ isUploadCompleted(marked) /\ Return(r, "mark")
    /\ UNCHANGED <<checks, opening, uploads, file, content, removing, told, stopped>>

Intact(s) == \A c \in Chunk : content[s][c] = "good"

(* Without a checksum of the whole file there is nothing to verify. *)
Verified(s) == checks[s] = "file" => s \in file /\ Intact(s)

Finalize(r) ==
  LET s == arg[r].session IN
    /\ Return(r, "finalize")
    /\ \/ /\ Verified(s)
          /\ status' = [status EXCEPT ![s] = "completed"]
          /\ told' = told \cup {s}
       \/ /\ ~ Verified(s)
          /\ status' = [status EXCEPT ![s] = "failed"]
          /\ UNCHANGED told
    /\ UNCHANGED <<checks, opening, uploads, file, book, removing, stopped>>

-----------------------------------------------------------------------------
(* ResumeUpload: also a failed session takes chunks again. *)

(* Mutant of CheckResume: a completed session may be resumed. *)
CheckResume_Completed(r) ==
  /\ pc[r] = "check resume"
  /\ \/ status[arg[r].session] = "cancelled" /\ Return(r, "check resume")
     \/ /\ status[arg[r].session] # "cancelled"
        /\ Proceed(r, "check resume", "resume")
  /\ UNCHANGED <<checks, opening, uploads, status, file, book, removing, told, stopped>>

CheckResume(r) ==
  /\ pc[r] = "check resume"
  /\ \/ status[arg[r].session] \in {"completed", "cancelled"} /\ Return(r, "check resume")
     \/ /\ status[arg[r].session] \notin {"completed", "cancelled"}
        /\ Proceed(r, "check resume", "resume")
  /\ UNCHANGED <<checks, opening, uploads, status, file, book, removing, told, stopped>>

Resume(r) ==
  /\ Return(r, "resume")
  /\ status' = [status EXCEPT ![arg[r].session] = "uploading"]
  /\ UNCHANGED <<checks, opening, uploads, file, book, removing, told, stopped>>

-----------------------------------------------------------------------------
(* Calls under sus.mutex alone *)

CancelUpload(s) ==
  /\ "cancel" \in Calls
  /\ s \in uploads
  /\ status' = [status EXCEPT ![s] = "cancelled"]
  /\ uploads' = uploads \ {s}
  /\ removing' = removing \cup {s}
  /\ UNCHANGED <<checks, opening, file, book, holder, call, told, stopped>>

(* cleanup: all sessions not updated for SessionTimeout, in one go. *)
Cleanup ==
  /\ "expire" \in Calls
  /\ \E S \in SUBSET uploads \ {{}} :
       /\ status' = [s \in Session |-> IF s \in S THEN "expired" ELSE status[s]]
       /\ uploads' = uploads \ S
       /\ removing' = removing \cup S
  /\ UNCHANGED <<checks, opening, file, book, holder, call, told, stopped>>

(* Mutant of RemoveFile: the file of a completed upload is kept. *)
RemoveFile_KeepsCompleted(s) ==
  /\ s \in removing
  /\ removing' = removing \ {s}
  /\ file' = IF status[s] = "completed" THEN file ELSE file \ {s}
  /\ UNCHANGED <<checks, opening, uploads, status, book, holder, call, told, stopped>>

RemoveFile(s) ==
  /\ s \in removing
  /\ removing' = removing \ {s}
  /\ file' = file \ {s}
  /\ UNCHANGED <<checks, opening, uploads, status, book, holder, call, told, stopped>>

(* A second Stop would close a closed channel. *)
Stop ==
  /\ "stop" \in Calls
  /\ ~ stopped
  /\ stopped' = TRUE
  /\ file' = file \ uploads
  /\ uploads' = {}
  /\ UNCHANGED <<checks, opening, status, book, holder, call, removing, told>>

-----------------------------------------------------------------------------
Init ==
  /\ checks \in [Session -> Checks]
  /\ opening = [s \in Session |-> "no"]
  /\ uploads = {}
  /\ status = [s \in Session |-> "none"]
  /\ file = {}
  /\ content = [s \in Session |-> [c \in Chunk |-> "hole"]]
  /\ uploaded = [s \in Session |-> {}]
  /\ size = [s \in Session |-> 0]
  /\ holder = [s \in Session |-> Nil]
  /\ pc = [r \in Request |-> "idle"]
  /\ arg = [r \in Request |-> Nil]
  /\ removing = {}
  /\ told = {}
  /\ stopped = FALSE

(* One call from the lookup of its session to its return. *)
Serve(r) ==
  \/ Lock(r) \/ Refuse(r) \/ AlreadyUploaded(r) \/ Accept(r) \/ WriteChunk(r)
  \/ MarkChunk(r) \/ Finalize(r) \/ CheckResume(r) \/ Resume(r)

Next ==
  \/ \E s \in Session : \/ CheckLimit(s) \/ CreateTempFile(s) \/ SaveSession(s)
                        \/ CancelUpload(s) \/ RemoveFile(s)
  \/ \E r \in Request : FindSession(r) \/ Serve(r)
  \/ Cleanup \/ Stop

Spec == Init /\ [][Next]_vars

(* A goroutine that waits for a sync.RWMutex others take and release again *)
(* and again gets it some day, hence the strong fairness.                  *)
FairSpec == Spec /\ \A r \in Request : SF_vars(Serve(r))

-----------------------------------------------------------------------------
(* Properties *)

(* Every variable stays in its type. *)
TypeOK ==
  /\ checks \in [Session -> Checks]
  /\ opening \in [Session -> {"no", "admitted", "created", "failed", "done"}]
  /\ uploads \in SUBSET Session
  /\ status \in [Session -> Statuses]
  /\ file \in SUBSET Session
  /\ content \in [Session -> [Chunk -> Content]]
  /\ uploaded \in [Session -> SUBSET Chunk]
  /\ size \in [Session -> Nat]
  /\ holder \in [Session -> Request \cup {Nil}]
  /\ pc \in [Request -> PC]
  /\ arg \in [Request -> [session : Session, chunk : Chunk, data : Data] \cup {Nil}]
  /\ removing \in SUBSET Session
  /\ told \in SUBSET Session
  /\ stopped \in BOOLEAN

GetUploadProgress(s) == [uploadedSize |-> size[s], uploadedChunks |-> Cardinality(uploaded[s])]

GetMissingChunks(s) == Chunk \ uploaded[s]

(* The size that is reported as uploaded counts every uploaded chunk once, *)
(* however often and by how many requests at a time it is sent.            *)
CountedOnce ==
  \A s \in uploads : GetUploadProgress(s).uploadedSize = GetUploadProgress(s).uploadedChunks

(* A completed upload misses no chunk and is, byte for byte, the file that *)
(* the client sent, after torn writes and corrupted data too.              *)
CompletedIsIntact ==
  \A s \in uploads :
    status[s] = "completed" => s \in file /\ GetMissingChunks(s) = {} /\ Intact(s)

(* A client that was told Completed has a completed upload, unless its     *)
(* content failed the verification and the upload was resumed.             *)
ToldIsTrue == \A s \in told \cap uploads : Intact(s) => status[s] = "completed"

(* Once a session is gone and its removal through, no temporary file is    *)
(* left, whatever requests are still busy with it.                         *)
NoFileLeft ==
  \A s \in Session :
    opening[s] = "done" /\ s \notin uploads \cup removing => s \notin file

(* Every request returns. *)
RequestsReturn == \A r \in Request : pc[r] # "idle" ~> pc[r] = "idle"
=============================================================================
