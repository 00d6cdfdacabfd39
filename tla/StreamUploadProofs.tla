------------------------- MODULE StreamUploadProofs -------------------------
(***************************************************************************)
(* Theorems about StreamUpload, for any sessions, requests, chunks and     *)
(* checksums, and any limit.                                               *)
(***************************************************************************)
EXTENDS StreamUpload, FiniteSetTheorems, TLAPS

USE NilAssumption, ChunkAssumption

Call    == [session : Session, chunk : Chunk, data : Data]
Holding == PC \ {"idle", "lock", "lock resume"}

(* A call that is under way has a session that is or was in the map. *)
CallType ==
  \A r \in Request :
    pc[r] # "idle" => arg[r] \in Call /\ opening[arg[r].session] = "done"

(* A call past its lock holds it. *)
Exclusive == \A r \in Request : pc[r] \in Holding => holder[arg[r].session] = r

(* Every chunk has come, and as the client sent it. *)
Whole(s) == uploaded[s] = Chunk /\ uploaded[s] # {} /\ Intact(s)

(* What a call knows of its session while it holds the lock. *)
Knows(r) ==
  LET s == arg[r].session IN
    /\ pc[r] \in {"write", "mark"} => arg[r].chunk \notin uploaded[s] /\ Acceptable(r)
    /\ pc[r] = "mark" => content[s][arg[r].chunk] = arg[r].data
    /\ pc[r] = "finalize" => uploaded[s] = Chunk /\ uploaded[s] # {} /\ s \notin told
    /\ pc[r] = "resume" => s \notin uploads \/ ~ Whole(s)

(* What a session says of itself. *)
Booked(s) ==
  /\ size[s] = Cardinality(uploaded[s])
  /\ \A c \in uploaded[s] :
       content[s][c] = "good" \/ (content[s][c] = "corrupt" /\ checks[s] = "file")
  /\ status[s] = "completed" => uploaded[s] = Chunk /\ Intact(s)
  /\ s \in told => uploaded[s] = Chunk /\ uploaded[s] # {}
  /\ opening[s] # "done" => uploaded[s] = {}

(* Where a session's file is. *)
Filed(s) ==
  /\ s \in uploads => s \in file /\ s \notin removing /\ opening[s] = "done"
  /\ s \in removing => opening[s] = "done"
  /\ opening[s] = "created" => s \in file
  /\ opening[s] = "done" /\ s \notin uploads \cup removing => s \notin file

(* A whole session is completed, or is about to be. *)
Settled(s) ==
  s \in uploads /\ Whole(s) =>
    status[s] = "completed" \/ \E r \in Request : pc[r] = "finalize" /\ arg[r].session = s

IInv ==
  /\ TypeOK /\ CallType /\ Exclusive
  /\ \A r \in Request : Knows(r)
  /\ \A s \in Session : Booked(s) /\ Filed(s) /\ Settled(s)

-----------------------------------------------------------------------------
(* There is no session in the beginning. *)
LEMMA InitInv == Init => IInv
<1> SUFFICES ASSUME Init PROVE IInv
  OBVIOUS
<1>1. TypeOK
  BY DEF Init, TypeOK, Statuses, Content, PC
<1>2. CallType /\ Exclusive /\ \A r \in Request : Knows(r)
  BY DEF Init, CallType, Exclusive, Knows, Holding
<1>3. \A s \in Session : Booked(s)
  BY FS_EmptySet DEF Init, Booked
<1>4. \A s \in Session : Filed(s) /\ Settled(s)
  BY DEF Init, Filed, Settled
<1> QED BY <1>1, <1>2, <1>3, <1>4 DEF IInv

(* Two calls never hold one session. *)
LEMMA Alone ==
  ASSUME Exclusive, NEW q \in Request, NEW r \in Request, q # r,
         pc[q] \in Holding, pc[r] \in Holding
  PROVE  arg[q].session # arg[r].session
BY DEF Exclusive

(* A step of call r, which holds its session, as the rest sees it.         *)
Local(r) ==
  /\ pc[r] \in Holding
  /\ \A q \in Request \ {r} : pc'[q] = pc[q] /\ arg'[q] = arg[q]
  /\ \A u \in Session \ {arg[r].session} :
       /\ content'[u] = content[u] /\ uploaded'[u] = uploaded[u] /\ size'[u] = size[u]
       /\ status'[u] = status[u] /\ holder'[u] = holder[u]
       /\ u \in told' <=> u \in told
  /\ UNCHANGED <<checks, opening, uploads, file, removing>>

(* Such a step disturbs neither another call nor another session.          *)
LEMMA LocalCalls ==
  ASSUME IInv, NEW r \in Request, Local(r), NEW q \in Request \ {r}
  PROVE  /\ pc'[q] # "idle" => arg'[q] \in Call /\ opening'[arg'[q].session] = "done"
         /\ pc'[q] \in Holding => holder'[arg'[q].session] = q
         /\ Knows(q)'
<1>1. pc'[q] = pc[q] /\ arg'[q] = arg[q] /\ Knows(q) /\ Exclusive /\ CallType /\ opening' = opening
  BY DEF IInv, Local
<1>2. pc[q] # "idle" => arg[q] \in Call /\ opening[arg[q].session] = "done"
  BY <1>1 DEF CallType
<1>3. CASE pc[q] \in Holding
  <2>1. arg[q].session # arg[r].session
    BY <1>1, <1>3, Alone DEF Local
  <2>2. arg[q].session \in Session
    BY <1>2, <1>3 DEF Holding, Call
  <2>3. holder[arg[q].session] = q
    BY <1>1, <1>3 DEF Exclusive
  <2>4. LET s == arg[q].session IN
          /\ content'[s] = content[s] /\ uploaded'[s] = uploaded[s]
          /\ holder'[s] = holder[s] /\ checks'[s] = checks[s]
          /\ s \in told' <=> s \in told
          /\ s \in uploads' <=> s \in uploads
    BY <2>1, <2>2 DEF Local
  <2>5. Knows(q)'
    BY <1>1, <2>4 DEF Knows, Acceptable, Whole, Intact
  <2> QED BY <1>1, <1>2, <2>3, <2>4, <2>5
<1>4. CASE pc[q] \notin Holding
  <2>1. Knows(q)'
    BY <1>1, <1>4 DEF Knows, Holding, PC
  <2> QED BY <1>1, <1>2, <1>4, <2>1
<1> QED BY <1>3, <1>4

(* A request under its mutex leaves the other sessions alone. *)
LEMMA LocalSessions ==
  ASSUME IInv, NEW r \in Request, Local(r), NEW u \in Session
  PROVE  /\ Filed(u)'
         /\ u # arg[r].session => Booked(u)' /\ Settled(u)'
<1>1. Filed(u)'
  BY DEF IInv, Local, Filed
<1>2. ASSUME u # arg[r].session PROVE Booked(u)' /\ Settled(u)'
  <2>1. /\ content'[u] = content[u] /\ uploaded'[u] = uploaded[u] /\ size'[u] = size[u]
        /\ status'[u] = status[u] /\ checks' = checks /\ opening' = opening /\ uploads' = uploads
        /\ u \in told' <=> u \in told
    BY <1>2 DEF Local
  <2>2. Booked(u)'
    BY <2>1 DEF IInv, Booked, Intact
  <2>3. Whole(u)' = Whole(u)
    BY <2>1 DEF Whole, Intact
  <2>4. \A q \in Request : pc[q] = "finalize" /\ arg[q].session = u =>
                             pc'[q] = "finalize" /\ arg'[q].session = u
    BY <1>2 DEF Local
  <2>5. Settled(u)'
    BY <2>1, <2>3, <2>4 DEF IInv, Settled
  <2> QED BY <2>2, <2>5
<1> QED BY <1>1, <1>2

(* What is left to show of such a step. *)
LEMMA LocalInv ==
  ASSUME IInv, NEW r \in Request, NEW s \in Session, s = arg[r].session, Local(r), TypeOK',
         pc'[r] # "idle" => arg'[r] = arg[r],
         pc'[r] \in Holding => holder' = holder,
         Knows(r)', Booked(s)', Settled(s)'
  PROVE  IInv'
<1>1. arg[r] \in Call /\ opening[arg[r].session] = "done" /\ holder[arg[r].session] = r
  BY DEF IInv, Local, CallType, Exclusive, Holding
<1>2. CallType'
  BY <1>1, LocalCalls DEF CallType, Local
<1>3. Exclusive'
  <2>1. pc'[r] \in Holding => holder'[arg'[r].session] = r
    BY <1>1 DEF Holding
  <2> QED BY <2>1, LocalCalls DEF Exclusive
<1>4. \A q \in Request : Knows(q)'
  BY LocalCalls
<1>5. ASSUME NEW u \in Session PROVE Booked(u)' /\ Filed(u)' /\ Settled(u)'
  <2>1. CASE u = s
    BY <2>1, LocalSessions
  <2>2. CASE u # s
    BY <2>2, LocalSessions
  <2> QED BY <2>1, <2>2
<1> QED BY <1>2, <1>3, <1>4, <1>5 DEF IInv

-----------------------------------------------------------------------------
(* The steps of a call that holds its session *)

(* A call moves on, or returns and gives the session back. *)
LEMMA Moves ==
  ASSUME TypeOK, NEW r \in Request, NEW from \in Holding, NEW to \in PC,
         Return(r, from) \/ Proceed(r, from, to)
  PROVE  /\ pc[r] = from
         /\ pc' \in [Request -> PC]
         /\ holder' \in [Session -> Request \cup {Nil}]
         /\ arg' \in [Request -> Call \cup {Nil}]
         /\ pc'[r] \in {"idle", to}
         /\ pc'[r] # "idle" => arg'[r] = arg[r] /\ holder' = holder
         /\ \A q \in Request \ {r} : pc'[q] = pc[q] /\ arg'[q] = arg[q]
         /\ \A u \in Session \ {arg[r].session} : holder'[u] = holder[u]
<1>1. CASE Return(r, from)
  BY <1>1 DEF Return, Step, TypeOK, Call, PC
<1>2. CASE Proceed(r, from, to)
  BY <1>2 DEF Proceed, Step, TypeOK, Call
<1> QED BY <1>1, <1>2

(* A request that returns is idle. *)
LEMMA ReturnMoves ==
  ASSUME TypeOK, NEW r \in Request, NEW from \in Holding, Return(r, from)
  PROVE  pc'[r] = "idle"
BY DEF Return, Step, TypeOK

(* A step that changes no chunk, no status and no reply. *)
LEMMA QuietInv ==
  ASSUME IInv, NEW r \in Request, NEW s \in Session, s = arg[r].session,
         NEW from \in Holding, NEW to \in Holding,
         Return(r, from) \/ Proceed(r, from, to),
         UNCHANGED <<checks, opening, uploads, status, file, book, removing, stopped>>,
         from # "finalize",
         \/ told' = told
         \/ told' = told \cup {s} /\ uploaded[s] = Chunk /\ uploaded[s] # {},
         Knows(r)'
  PROVE  IInv'
<1>1. arg[r] \in Call /\ TypeOK /\ to \in PC /\ from # "idle"
  BY DEF Return, Proceed, Step, IInv, CallType, Holding
<1>2. /\ pc[r] = from
      /\ pc' \in [Request -> PC]
      /\ holder' \in [Session -> Request \cup {Nil}]
      /\ arg' \in [Request -> Call \cup {Nil}]
      /\ pc'[r] \in {"idle", to}
      /\ pc'[r] # "idle" => arg'[r] = arg[r] /\ holder' = holder
      /\ \A q \in Request \ {r} : pc'[q] = pc[q] /\ arg'[q] = arg[q]
      /\ \A u \in Session \ {arg[r].session} : holder'[u] = holder[u]
  BY <1>1, Moves
<1>3. TypeOK'
  BY <1>1, <1>2 DEF TypeOK, book, Call
<1>4. Local(r)
  BY <1>2 DEF Local, book
<1>5. Booked(s)'
  BY DEF IInv, Booked, Intact, book
<1>6. Settled(s)'
  <2>1. Settled(s)
    BY DEF IInv
  <2>2. \A q \in Request : pc[q] = "finalize" => q # r
    BY <1>2
  <2> QED BY <1>2, <2>1, <2>2 DEF Settled, Whole, Intact, book
<1> QED BY <1>2, <1>3, <1>4, <1>5, <1>6, LocalInv DEF Holding

(* A chunk is refused. *)
LEMMA RefuseInv ==
  ASSUME IInv, NEW r \in Request, Refuse(r)
  PROVE  IInv'
<1>1. "check" \in Holding /\ Return(r, "check")
  BY DEF Refuse, Holding, PC
<1>2. pc[r] = "check" /\ pc'[r] = "idle" /\ arg[r].session \in Session
  BY <1>1, ReturnMoves DEF Return, Step, IInv, CallType, Call
<1>3. Knows(r)'
  BY <1>2 DEF Knows
<1> QED BY <1>1, <1>2, <1>3, QuietInv DEF Refuse

(* A chunk is answered that has been uploaded before. *)
LEMMA AlreadyUploadedInv ==
  ASSUME IInv, NEW r \in Request, AlreadyUploaded(r)
  PROVE  IInv'
<1>1. "check" \in Holding /\ Return(r, "check")
  BY DEF AlreadyUploaded, Holding, PC
<1>2. pc[r] = "check" /\ pc'[r] = "idle" /\ arg[r].session \in Session
  BY <1>1, ReturnMoves DEF Return, Step, IInv, CallType, Call
<1>3. Knows(r)'
  BY <1>2 DEF Knows
<1>4. \/ told' = told
      \/ /\ told' = told \cup {arg[r].session}
         /\ uploaded[arg[r].session] = Chunk /\ uploaded[arg[r].session] # {}
  BY DEF AlreadyUploaded, isUploadCompleted
<1> QED BY <1>1, <1>2, <1>3, <1>4, QuietInv DEF AlreadyUploaded

(* A chunk is accepted. *)
LEMMA AcceptInv ==
  ASSUME IInv, NEW r \in Request, Accept(r)
  PROVE  IInv'
<1>1. "check" \in Holding /\ "write" \in Holding /\ Proceed(r, "check", "write")
  BY DEF Accept, Holding, PC
<1>2. /\ pc[r] = "check" /\ pc'[r] = "write" /\ arg' = arg /\ checks' = checks
      /\ arg[r].session \in Session
  BY <1>1 DEF Proceed, Step, IInv, TypeOK, CallType, Call
<1>3. Knows(r)'
  BY <1>2 DEF Accept, Knows, Acceptable, book
<1> QED BY <1>1, <1>2, <1>3, QuietInv DEF Accept

(* A resume looks at the status of the session. *)
LEMMA CheckResumeInv ==
  ASSUME IInv, NEW r \in Request, CheckResume(r)
  PROVE  IInv'
<1>1. "check resume" \in Holding /\ "resume" \in Holding
  BY DEF Holding, PC
<1>2. pc[r] = "check resume" /\ arg[r].session \in Session
  BY DEF CheckResume, IInv, CallType, Call
<1>3. CASE Return(r, "check resume")
  <2>1. pc'[r] = "idle"
    BY <1>1, <1>3, ReturnMoves DEF IInv
  <2>2. Knows(r)'
    BY <2>1 DEF Knows
  <2> QED BY <1>1, <1>2, <1>3, <2>2, QuietInv DEF CheckResume
<1>4. CASE Proceed(r, "check resume", "resume") /\ status[arg[r].session] # "completed"
  <2>1. pc'[r] = "resume" /\ arg' = arg
    BY <1>4 DEF Proceed, Step, IInv, TypeOK
  <2>2. \A q \in Request : pc[q] = "finalize" => arg[q].session # arg[r].session
    <3>1. \A q \in Request : pc[q] = "finalize" => q # r /\ pc[q] \in Holding
      BY <1>2 DEF Holding, PC
    <3> QED BY <1>1, <1>2, <3>1, Alone DEF IInv
  <2>3. arg[r].session \notin uploads \/ ~ Whole(arg[r].session)
    BY <1>2, <1>4, <2>2 DEF IInv, Settled
  <2>4. Knows(r)'
    BY <2>1, <2>3 DEF CheckResume, Knows, Whole, Intact, book
  <2> QED BY <1>1, <1>2, <1>4, <2>4, QuietInv DEF CheckResume
<1> QED BY <1>3, <1>4 DEF CheckResume

(* A write goes to a chunk that has not been counted, whole or torn.       *)
LEMMA WriteChunkInv ==
  ASSUME IInv, NEW r \in Request, WriteChunk(r)
  PROVE  IInv'
<1> DEFINE s == arg[r].session
           c == arg[r].chunk
<1>1. /\ pc[r] = "write" /\ s \in Session /\ c \in Chunk /\ c \notin uploaded[s] /\ Acceptable(r)
      /\ TypeOK /\ "write" \in Holding /\ "mark" \in PC /\ arg[r].data \in {"good", "corrupt"}
  BY DEF WriteChunk, Proceed, Return, Step, IInv, CallType, Call, Knows, Holding, PC, Acceptable
<1>2. Return(r, "write") \/ Proceed(r, "write", "mark")
  BY DEF WriteChunk
<1>3. /\ pc' \in [Request -> PC]
      /\ holder' \in [Session -> Request \cup {Nil}]
      /\ arg' \in [Request -> Call \cup {Nil}]
      /\ pc'[r] \in {"idle", "mark"}
      /\ pc'[r] # "idle" => arg'[r] = arg[r] /\ holder' = holder
      /\ \A q \in Request \ {r} : pc'[q] = pc[q] /\ arg'[q] = arg[q]
      /\ \A u \in Session \ {s} : holder'[u] = holder[u]
  BY <1>1, <1>2, Moves
<1>4. PICK d \in Content :
        content' = content \/ content' = [content EXCEPT ![s][c] = d]
  BY <1>1 DEF WriteChunk, Content
<1>5. /\ content' \in [Session -> [Chunk -> Content]]
      /\ \A u \in Session \ {s} : content'[u] = content[u]
      /\ \A e \in Chunk \ {c} : content'[s][e] = content[s][e]
  <2>1. content \in [Session -> [Chunk -> Content]] /\ content[s] \in [Chunk -> Content]
    BY <1>1 DEF TypeOK
  <2>2. CASE content' = content
    BY <2>1, <2>2
  <2>3. CASE content' = [content EXCEPT ![s][c] = d]
    <3>1. /\ [content[s] EXCEPT ![c] = d] \in [Chunk -> Content]
          /\ \A e \in Chunk \ {c} : [content[s] EXCEPT ![c] = d][e] = content[s][e]
      BY <1>1, <2>1
    <3>2. content' = [content EXCEPT ![s] = [content[s] EXCEPT ![c] = d]]
      BY <1>1, <2>1, <2>3
    <3> QED BY <1>1, <2>1, <3>1, <3>2
  <2> QED BY <1>4, <2>2, <2>3
<1>6. TypeOK'
  BY <1>1, <1>3, <1>5 DEF WriteChunk, TypeOK, Call
<1>7. Local(r)
  BY <1>1, <1>3, <1>5 DEF WriteChunk, Local
<1>8. Knows(r)'
  <2>1. CASE pc'[r] = "mark"
    <3>1. Proceed(r, "write", "mark") /\ content' = [content EXCEPT ![s][c] = arg[r].data]
      BY <1>1, <1>2, <2>1, ReturnMoves DEF WriteChunk
    <3>2. content'[s][c] = arg[r].data
      BY <1>1, <3>1 DEF TypeOK
    <3> QED BY <1>1, <1>3, <2>1, <3>2 DEF WriteChunk, Knows, Acceptable
  <2>2. CASE pc'[r] = "idle"
    BY <2>2 DEF Knows
  <2> QED BY <1>3, <2>1, <2>2
<1>9. uploaded[s] # Chunk /\ uploaded' = uploaded /\ status' = status /\ uploaded[s] \in SUBSET Chunk
  BY <1>1 DEF WriteChunk, TypeOK
<1>10. ASSUME NEW v \in Session, v = s PROVE Booked(v)' /\ Settled(v)'
  <2>1. Booked(v)'
    BY <1>1, <1>5, <1>9, <1>10 DEF WriteChunk, IInv, Booked
  <2>2. Settled(v)'
    BY <1>9, <1>10 DEF Settled, Whole
  <2> QED BY <2>1, <2>2
<1> HIDE DEF s
<1> QED BY <1>1, <1>3, <1>6, <1>7, <1>8, <1>10, LocalInv DEF s, Holding

(* A chunk is counted once, with the content it was accepted for.          *)
LEMMA MarkChunkInv ==
  ASSUME IInv, NEW r \in Request, MarkChunk(r)
  PROVE  IInv'
<1> DEFINE s == arg[r].session
           c == arg[r].chunk
           marked == uploaded[s] \cup {c}
<1>1. /\ pc[r] = "mark" /\ s \in Session /\ c \in Chunk /\ c \notin uploaded[s] /\ Acceptable(r)
      /\ content[s][c] = arg[r].data /\ arg[r].data \in {"good", "corrupt"}
      /\ TypeOK /\ "mark" \in Holding /\ "finalize" \in PC
  BY DEF MarkChunk, IInv, CallType, Call, Knows, Holding, PC, Acceptable
<1>2. Return(r, "mark") \/ Proceed(r, "mark", "finalize")
  BY DEF MarkChunk
<1>3. /\ pc' \in [Request -> PC]
      /\ holder' \in [Session -> Request \cup {Nil}]
      /\ arg' \in [Request -> Call \cup {Nil}]
      /\ pc'[r] \in {"idle", "finalize"}
      /\ pc'[r] # "idle" => arg'[r] = arg[r] /\ holder' = holder
      /\ \A q \in Request \ {r} : pc'[q] = pc[q] /\ arg'[q] = arg[q]
      /\ \A u \in Session \ {s} : holder'[u] = holder[u]
  BY <1>1, <1>2, Moves
<1>4. /\ uploaded' \in [Session -> SUBSET Chunk]
      /\ uploaded'[s] = marked /\ status'[s] = "uploading" /\ size'[s] = size[s] + 1
      /\ size' \in [Session -> Nat] /\ status' \in [Session -> Statuses]
      /\ \A u \in Session \ {s} :
           uploaded'[u] = uploaded[u] /\ status'[u] = status[u] /\ size'[u] = size[u]
  BY <1>1 DEF MarkChunk, TypeOK, Statuses
<1>5. TypeOK'
  BY <1>1, <1>3, <1>4 DEF MarkChunk, TypeOK, Call
<1>6. Local(r)
  BY <1>1, <1>3, <1>4 DEF MarkChunk, Local
<1>7. s \notin told
  BY <1>1 DEF IInv, Booked
<1>8. marked = Chunk \/ pc'[r] = "idle"
  BY <1>1, ReturnMoves DEF MarkChunk, isUploadCompleted
<1>9. marked # Chunk \/ pc'[r] = "finalize"
  BY <1>1 DEF MarkChunk, isUploadCompleted, Proceed, Step, TypeOK
<1>10. Knows(r)'
  BY <1>1, <1>3, <1>4, <1>7, <1>8 DEF MarkChunk, Knows
<1>11. ASSUME NEW v \in Session, v = s PROVE Booked(v)' /\ Settled(v)'
  <2>1. IsFiniteSet(uploaded[s])
    BY <1>1, FS_Subset DEF TypeOK
  <2>2. Cardinality(marked) = Cardinality(uploaded[s]) + 1
    BY <1>1, <2>1, FS_AddElement
  <2>3. size'[v] = Cardinality(uploaded'[v])
    BY <1>4, <1>11, <2>2 DEF IInv, Booked
  <2>4. \A e \in marked :
          content[s][e] = "good" \/ (content[s][e] = "corrupt" /\ checks[s] = "file")
    BY <1>1 DEF IInv, Booked, Acceptable
  <2>5. Booked(v)'
    BY <1>1, <1>4, <1>7, <1>11, <2>3, <2>4 DEF MarkChunk, IInv, CallType, Booked
  <2>6. Settled(v)'
    BY <1>3, <1>4, <1>9, <1>11 DEF Settled, Whole
  <2> QED BY <2>5, <2>6
<1> HIDE DEF s
<1> QED BY <1>1, <1>3, <1>5, <1>6, <1>10, <1>11, LocalInv DEF s, Holding

(* What is verified is completed, and what is whole can be verified.       *)
LEMMA FinalizeInv ==
  ASSUME IInv, NEW r \in Request, Finalize(r)
  PROVE  IInv'
<1> DEFINE s == arg[r].session
<1>1. /\ pc[r] = "finalize" /\ s \in Session /\ TypeOK
      /\ uploaded[s] = Chunk /\ uploaded[s] # {}
      /\ "finalize" \in Holding /\ Return(r, "finalize")
  BY DEF Finalize, Return, Step, IInv, CallType, Call, Knows, Holding, PC
<1>2. /\ pc' \in [Request -> PC]
      /\ holder' \in [Session -> Request \cup {Nil}]
      /\ arg' \in [Request -> Call \cup {Nil}]
      /\ pc'[r] = "idle"
      /\ \A q \in Request \ {r} : pc'[q] = pc[q] /\ arg'[q] = arg[q]
      /\ \A u \in Session \ {s} : holder'[u] = holder[u]
  BY <1>1, Moves, ReturnMoves DEF Holding
<1>3. /\ status' \in [Session -> Statuses] /\ told' \in SUBSET Session
      /\ told' = told \/ told' = told \cup {s}
      /\ \A u \in Session \ {s} : status'[u] = status[u]
  BY <1>1 DEF Finalize, TypeOK, Statuses
<1>4. status'[s] = IF Verified(s) THEN "completed" ELSE "failed"
  BY <1>1 DEF Finalize, TypeOK
<1>5. TypeOK'
  BY <1>1, <1>2, <1>3 DEF Finalize, TypeOK, book, Call
<1>6. Local(r)
  BY <1>1, <1>2, <1>3 DEF Finalize, Local, book
<1>7. Knows(r)'
  BY <1>2 DEF Knows
<1>8. ASSUME NEW v \in Session, v = s PROVE Booked(v)' /\ Settled(v)'
  <2>1. Verified(s) => Intact(s)
    BY <1>1, <1>8 DEF Verified, Intact, IInv, Booked
  <2>2. s \in uploads /\ Intact(s) => Verified(s)
    BY <1>1 DEF Verified, IInv, Filed
  <2>3. Booked(v)'
    BY <1>1, <1>3, <1>4, <1>8, <2>1 DEF Finalize, IInv, Booked, Intact, book
  <2>4. Settled(v)'
    BY <1>4, <1>8, <2>2 DEF Finalize, Settled, Whole, Intact, book
  <2> QED BY <2>3, <2>4
<1> HIDE DEF s
<1> QED BY <1>1, <1>2, <1>5, <1>6, <1>7, <1>8, LocalInv DEF s, Holding

(* A session that is resumed is not whole. *)
LEMMA ResumeInv ==
  ASSUME IInv, NEW r \in Request, Resume(r)
  PROVE  IInv'
<1> DEFINE s == arg[r].session
<1>1. /\ pc[r] = "resume" /\ s \in Session /\ TypeOK
      /\ s \notin uploads \/ ~ Whole(s)
      /\ "resume" \in Holding /\ Return(r, "resume")
  BY DEF Resume, Return, Step, IInv, CallType, Call, Knows, Holding, PC
<1>2. /\ pc' \in [Request -> PC]
      /\ holder' \in [Session -> Request \cup {Nil}]
      /\ arg' \in [Request -> Call \cup {Nil}]
      /\ pc'[r] = "idle"
      /\ \A q \in Request \ {r} : pc'[q] = pc[q] /\ arg'[q] = arg[q]
      /\ \A u \in Session \ {s} : holder'[u] = holder[u]
  BY <1>1, Moves, ReturnMoves DEF Holding
<1>3. /\ status' \in [Session -> Statuses] /\ status'[s] = "uploading"
      /\ \A u \in Session \ {s} : status'[u] = status[u]
  BY <1>1 DEF Resume, TypeOK, Statuses
<1>4. TypeOK'
  BY <1>1, <1>2, <1>3 DEF Resume, TypeOK, book, Call
<1>5. Local(r)
  BY <1>1, <1>2, <1>3 DEF Resume, Local, book
<1>6. Knows(r)'
  BY <1>2 DEF Knows
<1>7. ASSUME NEW v \in Session, v = s PROVE Booked(v)' /\ Settled(v)'
  BY <1>1, <1>3, <1>7 DEF Resume, IInv, Booked, Settled, Whole, Intact, book
<1> HIDE DEF s
<1> QED BY <1>1, <1>2, <1>4, <1>5, <1>6, <1>7, LocalInv DEF s, Holding

-----------------------------------------------------------------------------
(* The steps of a call that does not hold its session yet *)

(* A call takes a session that nobody holds. *)
LEMMA LockInv ==
  ASSUME IInv, NEW r \in Request, Lock(r)
  PROVE  IInv'
<1> DEFINE s == arg[r].session
<1>1. /\ TypeOK /\ s \in Session /\ pc[r] \in {"lock", "lock resume"} /\ holder[s] = Nil
      /\ pc'[r] \in {"check", "check resume"}
      /\ holder' = [holder EXCEPT ![s] = r]
      /\ UNCHANGED <<checks, opening, uploads, status, file, book, arg, removing, told, stopped>>
  BY DEF Lock, Step, IInv, TypeOK, CallType, Call
<1>2. /\ pc' \in [Request -> PC] /\ \A q \in Request \ {r} : pc'[q] = pc[q]
      /\ holder' \in [Session -> Request \cup {Nil}] /\ holder'[s] = r
      /\ \A u \in Session \ {s} : holder'[u] = holder[u]
  <2>1. PICK to \in {"check", "check resume"} : pc' = [pc EXCEPT ![r] = to]
    BY DEF Lock, Step
  <2>2. pc' \in [Request -> PC] /\ \A q \in Request \ {r} : pc'[q] = pc[q]
    BY <1>1, <2>1 DEF TypeOK, PC
  <2>3. /\ holder' \in [Session -> Request \cup {Nil}] /\ holder'[s] = r
        /\ \A u \in Session \ {s} : holder'[u] = holder[u]
    BY <1>1 DEF TypeOK
  <2> QED BY <2>2, <2>3
<1>3. TypeOK'
  BY <1>1, <1>2 DEF TypeOK, book
<1>4. CallType'
  BY <1>1, <1>2 DEF IInv, CallType
<1>5. Exclusive'
  <2>1. ASSUME NEW q \in Request \ {r}, pc'[q] \in Holding PROVE holder'[arg'[q].session] = q
    <3>1. holder[arg[q].session] = q /\ arg[q].session \in Session
      BY <1>2, <2>1 DEF IInv, Exclusive, CallType, Call, Holding
    <3>2. arg[q].session # s
      BY <1>1, <3>1
    <3> QED BY <1>1, <1>2, <3>1, <3>2
  <2> QED BY <1>1, <1>2, <2>1 DEF Exclusive
<1>6. ASSUME NEW q \in Request PROVE Knows(q)'
  <2>1. CASE q = r
    BY <1>1, <2>1 DEF Knows
  <2>2. CASE q # r
    <3>1. Knows(q) /\ pc'[q] = pc[q]
      BY <1>2, <2>2 DEF IInv
    <3> QED BY <1>1, <3>1 DEF Knows, Acceptable, Whole, Intact, book
  <2> QED BY <2>1, <2>2
<1>7. \A u \in Session : Booked(u)' /\ Filed(u)'
  BY <1>1 DEF IInv, Booked, Filed, Intact, book
<1>8. \A u \in Session : Settled(u)'
  <2>1. \A q \in Request : pc[q] = "finalize" => pc'[q] = "finalize"
    BY <1>1, <1>2
  <2> QED BY <1>1, <2>1 DEF IInv, Settled, Whole, Intact, book
<1> QED BY <1>3, <1>4, <1>5, <1>6, <1>7, <1>8 DEF IInv

(* A new call has a session of the map. *)
LEMMA FindSessionInv ==
  ASSUME IInv, NEW r \in Request, FindSession(r)
  PROVE  IInv'
<1>1. /\ TypeOK /\ pc[r] = "idle" /\ pc'[r] \in {"lock", "lock resume"}
      /\ pc' \in [Request -> PC] /\ \A q \in Request \ {r} : pc'[q] = pc[q]
      /\ UNCHANGED <<checks, opening, uploads, status, file, book, holder, removing, told, stopped>>
  BY DEF FindSession, Step, IInv, TypeOK, PC
<1>2. PICK s \in uploads, c \in Chunk, d \in Data :
        arg' = [arg EXCEPT ![r] = [session |-> s, chunk |-> c, data |-> d]]
  BY DEF FindSession
<1>3. /\ arg' \in [Request -> Call \cup {Nil}] /\ arg'[r] \in Call /\ arg'[r].session = s
      /\ \A q \in Request \ {r} : arg'[q] = arg[q]
  BY <1>1, <1>2 DEF TypeOK, Call
<1>4. TypeOK'
  BY <1>1, <1>3 DEF TypeOK, book, Call
<1>5. opening[s] = "done"
  BY <1>1 DEF IInv, Filed, TypeOK
<1>6. CallType'
  <2>1. ASSUME NEW q \in Request, pc'[q] # "idle"
        PROVE  arg'[q] \in Call /\ opening'[arg'[q].session] = "done"
    <3>1. CASE q = r
      BY <1>1, <1>3, <1>5, <3>1
    <3>2. CASE q # r
      <4>1. pc[q] # "idle" /\ arg'[q] = arg[q]
        BY <1>1, <1>3, <2>1, <3>2
      <4> QED BY <1>1, <4>1 DEF IInv, CallType
    <3> QED BY <3>1, <3>2
  <2> QED BY <2>1 DEF CallType
<1>7. Exclusive'
  BY <1>1, <1>3 DEF IInv, Exclusive, Holding
<1>8. ASSUME NEW q \in Request PROVE Knows(q)'
  <2>1. CASE q = r
    BY <1>1, <2>1 DEF Knows
  <2>2. CASE q # r
    <3>1. Knows(q) /\ pc'[q] = pc[q] /\ arg'[q] = arg[q]
      BY <1>1, <1>3, <2>2 DEF IInv
    <3> QED BY <1>1, <3>1 DEF Knows, Acceptable, Whole, Intact, book
  <2> QED BY <2>1, <2>2
<1>9. \A u \in Session : Booked(u)' /\ Filed(u)'
  BY <1>1 DEF IInv, Booked, Filed, Intact, book
<1>10. ASSUME NEW u \in Session PROVE Settled(u)'
  <2>1. \A q \in Request : pc[q] = "finalize" => pc'[q] = "finalize" /\ arg'[q] = arg[q]
    BY <1>1, <1>3
  <2>2. Settled(u) /\ Whole(u)' = Whole(u)
    BY <1>1 DEF IInv, Whole, Intact, book
  <2> QED BY <1>1, <2>1, <2>2 DEF Settled
<1> QED BY <1>4, <1>6, <1>7, <1>8, <1>9, <1>10 DEF IInv

-----------------------------------------------------------------------------
(* Sessions that are opened, cancelled, expired and removed *)

(* Such a step leaves chunks and calls alone; a session that it puts in    *)
(* the map is empty.                                                       *)
LEMMA SessionInv ==
  ASSUME IInv, TypeOK',
         UNCHANGED <<checks, book, holder, call, told>>,
         \A u \in Session :
           /\ opening'[u] = opening[u] \/ opening[u] # "done"
           /\ u \in uploads' => \/ u \in uploads /\ status'[u] = status[u]
                                \/ opening[u] # "done"
           /\ status'[u] = "completed" => status[u] = "completed"
           /\ Filed(u)'
  PROVE  IInv'
<1>1. CallType'
  BY DEF IInv, CallType, call, Call
<1>2. Exclusive'
  BY DEF IInv, Exclusive, call
<1>3. ASSUME NEW q \in Request PROVE Knows(q)'
  <2>1. pc[q] = "resume" => arg[q].session \in Session /\ opening[arg[q].session] = "done"
    BY DEF IInv, CallType, Call
  <2>2. pc[q] = "resume" /\ arg[q].session \notin uploads => arg[q].session \notin uploads'
    BY <2>1
  <2>3. Knows(q)
    BY DEF IInv
  <2> QED BY <2>2, <2>3 DEF Knows, Acceptable, Whole, Intact, book, call
<1>4. ASSUME NEW u \in Session PROVE Booked(u)' /\ Settled(u)'
  <2>1. opening[u] # "done" => uploaded[u] = {}
    BY DEF IInv, Booked
  <2>2. Booked(u)'
    BY <2>1 DEF IInv, Booked, Intact, book
  <2>3. Settled(u) /\ Whole(u)' = Whole(u)
    BY DEF IInv, Whole, Intact, book
  <2>4. Settled(u)'
    BY <2>1, <2>3 DEF Settled, Whole, call
  <2> QED BY <2>2, <2>4
<1> QED BY <1>1, <1>2, <1>3, <1>4 DEF IInv

(* A session is opened, in three steps. *)
LEMMA OpenInv ==
  ASSUME IInv, NEW s \in Session, CheckLimit(s) \/ CreateTempFile(s) \/ SaveSession(s)
  PROVE  IInv'
<1>1. CASE CheckLimit(s)
  <2>1. TypeOK'
    BY <1>1 DEF CheckLimit, IInv, TypeOK, book, call
  <2>2. \A u \in Session : opening'[u] = IF u = s THEN "admitted" ELSE opening[u]
    BY <1>1 DEF CheckLimit, IInv, TypeOK
  <2>3. \A u \in Session : Filed(u)'
    BY <1>1, <2>2 DEF CheckLimit, IInv, Filed
  <2> QED BY <1>1, <2>1, <2>2, <2>3, SessionInv DEF CheckLimit
<1>2. CASE CreateTempFile(s)
  <2>1. TypeOK'
    BY <1>2 DEF CreateTempFile, IInv, TypeOK, book, call
  <2>2. \A u \in Session : /\ opening'[u] \in IF u = s THEN {"created", "failed"} ELSE {opening[u]}
                           /\ opening'[u] = "created" /\ u = s => u \in file'
                           /\ u # s => (u \in file' <=> u \in file)
    BY <1>2 DEF CreateTempFile, IInv, TypeOK
  <2>3. \A u \in Session : Filed(u)'
    BY <1>2, <2>2 DEF CreateTempFile, IInv, Filed
  <2> QED BY <1>2, <2>1, <2>2, <2>3, SessionInv DEF CreateTempFile
<1>3. CASE SaveSession(s)
  <2>1. TypeOK'
    BY <1>3 DEF SaveSession, IInv, TypeOK, book, call, Statuses
  <2>2. \A u \in Session : /\ opening'[u] = IF u = s THEN "done" ELSE opening[u]
                           /\ status'[u] = IF u = s THEN "initialized" ELSE status[u]
    BY <1>3 DEF SaveSession, IInv, TypeOK
  <2>3. \A u \in Session : Filed(u)'
    BY <1>3, <2>2 DEF SaveSession, IInv, Filed
  <2> QED BY <1>3, <2>1, <2>2, <2>3, SessionInv DEF SaveSession
<1> QED BY <1>1, <1>2, <1>3

(* A session is cancelled, or its file removed. *)
LEMMA CloseInv ==
  ASSUME IInv, NEW s \in Session, CancelUpload(s) \/ RemoveFile(s)
  PROVE  IInv'
<1>1. CASE CancelUpload(s)
  <2>1. TypeOK'
    BY <1>1 DEF CancelUpload, IInv, TypeOK, book, call, Statuses
  <2>2. \A u \in Session : status'[u] = IF u = s THEN "cancelled" ELSE status[u]
    BY <1>1 DEF CancelUpload, IInv, TypeOK
  <2>3. \A u \in Session : Filed(u)'
    BY <1>1 DEF CancelUpload, IInv, Filed
  <2> QED BY <1>1, <2>1, <2>2, <2>3, SessionInv DEF CancelUpload
<1>2. CASE RemoveFile(s)
  <2>1. TypeOK'
    BY <1>2 DEF RemoveFile, IInv, TypeOK, book, call
  <2>2. \A u \in Session : Filed(u)'
    BY <1>2 DEF RemoveFile, IInv, Filed
  <2> QED BY <1>2, <2>1, <2>2, SessionInv DEF RemoveFile
<1> QED BY <1>1, <1>2

(* Sessions expire. *)
LEMMA CleanupInv ==
  ASSUME IInv, Cleanup
  PROVE  IInv'
<1>1. PICK S \in SUBSET uploads :
        /\ status' = [s \in Session |-> IF s \in S THEN "expired" ELSE status[s]]
        /\ uploads' = uploads \ S /\ removing' = removing \cup S
  BY DEF Cleanup
<1>2. TypeOK'
  BY <1>1 DEF Cleanup, IInv, TypeOK, book, call, Statuses
<1>3. \A u \in Session : Filed(u)'
  BY <1>1 DEF Cleanup, IInv, Filed
<1> QED BY <1>1, <1>2, <1>3, SessionInv DEF Cleanup

(* The service stops. *)
LEMMA StopInv ==
  ASSUME IInv, Stop
  PROVE  IInv'
<1>1. TypeOK'
  BY DEF Stop, IInv, TypeOK, book, call
<1>2. \A u \in Session : Filed(u)'
  BY DEF Stop, IInv, Filed
<1> QED BY <1>1, <1>2, SessionInv DEF Stop

-----------------------------------------------------------------------------
(* Every step keeps the invariant. *)
LEMMA StepInv == IInv /\ [Next]_vars => IInv'
<1> SUFFICES ASSUME IInv, [Next]_vars PROVE IInv'
  OBVIOUS
<1>1. CASE \E s \in Session : CheckLimit(s) \/ CreateTempFile(s) \/ SaveSession(s)
  BY <1>1, OpenInv
<1>2. CASE \E s \in Session : CancelUpload(s) \/ RemoveFile(s)
  BY <1>2, CloseInv
<1>3. CASE \E r \in Request : FindSession(r)
  BY <1>3, FindSessionInv
<1>4. CASE \E r \in Request : Serve(r)
  BY <1>4, LockInv, RefuseInv, AlreadyUploadedInv, AcceptInv, WriteChunkInv, MarkChunkInv,
     FinalizeInv, CheckResumeInv, ResumeInv DEF Serve
<1>5. CASE Cleanup
  BY <1>5, CleanupInv
<1>6. CASE Stop
  BY <1>6, StopInv
<1>7. CASE UNCHANGED vars
  <2>1. TypeOK'
    BY <1>7 DEF vars, IInv, TypeOK, book, call
  <2>2. \A u \in Session : Filed(u)'
    BY <1>7 DEF vars, IInv, Filed
  <2> QED BY <1>7, <2>1, <2>2, SessionInv DEF vars
<1> QED BY <1>1, <1>2, <1>3, <1>4, <1>5, <1>6, <1>7 DEF Next

(* The invariant behind the four theorems. *)
LEMMA Invariant == Spec => []IInv
BY InitInv, StepInv, PTL DEF Spec

(* The size that is reported counts every uploaded chunk once.             *)
THEOREM ChunksAreCountedOnce == Spec => []CountedOnce
<1>1. IInv => CountedOnce
  BY DEF IInv, TypeOK, Booked, CountedOnce, GetUploadProgress
<1> QED BY <1>1, Invariant, PTL

(* A completed upload is whole, and its file is there. *)
THEOREM CompletedUploadIsIntact == Spec => []CompletedIsIntact
<1>1. IInv => CompletedIsIntact
  BY DEF IInv, TypeOK, Booked, Filed, CompletedIsIntact, GetMissingChunks
<1> QED BY <1>1, Invariant, PTL

(* A client that was told Completed has a completed upload, unless its     *)
(* content has failed the verification.                                    *)
THEOREM RepliesAreTrue == Spec => []ToldIsTrue
<1>1. ASSUME IInv, NEW s \in told \cap uploads, Intact(s) PROVE status[s] = "completed"
  <2>1. s \in Session /\ Whole(s)
    BY <1>1 DEF IInv, TypeOK, Booked, Whole
  <2>2. \A r \in Request : pc[r] = "finalize" => arg[r].session # s
    BY <1>1 DEF IInv, Knows
  <2> QED BY <1>1, <2>1, <2>2 DEF IInv, Settled
<1>2. IInv => ToldIsTrue
  BY <1>1 DEF ToldIsTrue
<1> QED BY <1>2, Invariant, PTL

(* No temporary file outlives its session and the removal of its session.  *)
THEOREM FilesGoWithSessions == Spec => []NoFileLeft
<1>1. IInv => NoFileLeft
  BY DEF IInv, Filed, NoFileLeft
<1> QED BY <1>1, Invariant, PTL
=============================================================================
