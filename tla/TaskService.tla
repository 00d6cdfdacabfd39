---------------------------- MODULE TaskService ----------------------------
(***************************************************************************)
(* The conversion pipeline of the web server: the TaskService with its     *)
(* mutex, its task map and its map of event channels, the HTTP handlers    *)
(* that call it, the conversion goroutines and the SSE subscribers.        *)
(*                                                                         *)
(* Every POST /convert is a Request.  CreateTask allocates one TaskInfo    *)
(* and one event channel per call, so both heap objects are named by the   *)
(* request that made them, and so is the goroutine StartConversion spawns. *)
(* The goroutine addresses the task by its ID only, never by the pointer.  *)
(***************************************************************************)
EXTENDS Naturals, Sequences

CONSTANTS
  TaskID,      \* IDs the upload handler hands out
  Request,     \* POST /convert requests, each issued once
  TaskOf,      \* TaskOf[r]: the task_id field of request r
  Subscriber,  \* GET /events connections
  Cap,         \* capacity of an event channel (100 in the code)
  Calls,       \* optional callers: subset of {"cleanup", "cancel", "signal"}
  MaxRestarts, \* bound on restarts of the server process
  Nil          \* absence of an object

ASSUME TaskOfAssumption == TaskOf \in [Request -> TaskID]
ASSUME NilAssumption == Nil \notin TaskID \cup Request
ASSUME CapAssumption == Cap \in Nat \ {0}
ASSUME RestartsAssumption == MaxRestarts \in Nat

VARIABLES
  tasks,         \* tasks[t]: the TaskInfo the map holds for t
  eventChannels, \* eventChannels[t]: the channel the map holds for t
  status,        \* status[r]: TaskInfo.Status of the object r created
  progress,      \* progress[r]: TaskInfo.Progress of that object
  buf,           \* buf[r]: events queued in the channel r created
  closed,        \* closed[r]: whether that channel was closed
  cleaning,      \* task whose CleanupTask holds the mutex
  cancelling,    \* task whose CancelTask holds the mutex
  handler,       \* handler[r]: progress of the /convert handler of r
  stage,         \* stage[r]: part of processConversion goroutine r executes
  step,          \* step[r]: its next statement within that stage
  sendTo,        \* sendTo[r]: channel sendEvent looked up, not yet sent to
  upload,        \* upload[t]: "none", "stored" or, after a cleanup, "removed"
  outputs,       \* tasks with converted files on disk
  sse,           \* sse[s]: progress of the /events handler of s
  sseTask,       \* sseTask[s]: task ID it was called with
  sseChan,       \* sseChan[s]: channel it reads
  lastEvent,     \* lastEvent[s]: stage that sent the last event received
  exit,          \* "up", or why the server process ended
  restarts       \* restarts so far

mem      == <<tasks, eventChannels>>
objects  == <<status, progress, buf, closed>>
mutex    == <<cleaning, cancelling>>
worker   == <<stage, step, sendTo>>
files    == <<upload, outputs>>
stream   == <<sse, sseTask, sseChan, lastEvent>>
process  == <<exit, restarts>>
vars     == <<mem, objects, mutex, handler, worker, files, stream, process>>

(***************************************************************************)
(* The straight-line part of processConversion is six stages, each an      *)
(* updateTaskStatus, a sendEvent and a call that decides what comes next;  *)
(* "fail" is the early-return block and "recover" the deferred function.   *)
(***************************************************************************)
Stages == {"start", "validate", "parse", "build", "save", "finish", "fail", "recover"}

Closing == {"finish", "fail", "recover"}     \* stages that end in closeEventChannel

(* Mutant of StageProgress: the final stage overshoots. *)
StageProgress_Overshoot(s) == IF s = "finish" THEN 120 ELSE 0

StageProgress(s) ==
  CASE s = "start"    -> 10
    [] s = "validate" -> 20
    [] s = "parse"    -> 40
    [] s = "build"    -> 60
    [] s = "save"     -> 80
    [] s = "finish"   -> 100
    [] OTHER          -> 0

StageStatus(s) ==
  CASE s = "finish"              -> "completed"
    [] s \in {"fail", "recover"} -> "failed"
    [] OTHER                     -> "processing"

Statuses == {"unborn", "pending", "processing", "completed", "failed", "cancelled"}
Settled  == {"completed", "failed"}

Running(r) == stage[r] \in Stages
MuFree == cleaning = Nil /\ cancelling = Nil
Up == exit = "up"

Goto(r, st, sp) ==
  /\ stage' = [stage EXCEPT ![r] = st]
  /\ step' = [step EXCEPT ![r] = sp]

-----------------------------------------------------------------------------
(* Uploads and the convert handler *)

SaveUploadedFile(t) == upload' = [upload EXCEPT ![t] = "stored"]

GetUploadedFilePath(t) == upload[t] = "stored"

(* POST /upload stores the file under a task ID never used before.  A file *)
(* that is refused or cannot be stored leaves the client without an ID.    *)
UploadFile(t) ==
  /\ Up
  /\ upload[t] = "none"
  /\ SaveUploadedFile(t)
  /\ UNCHANGED <<mem, objects, mutex, handler, worker, outputs, stream, process>>

(* ConvertBook: GetTask, answered 400 when the task is known. *)
CheckTask(r) ==
  /\ Up /\ MuFree
  /\ handler[r] = "new"
  /\ handler' = [handler EXCEPT ![r] = IF tasks[TaskOf[r]] = Nil THEN "checked" ELSE "done"]
  /\ UNCHANGED <<mem, objects, mutex, worker, files, stream, process>>

(* ConvertBook: GetUploadedFilePath, answered 400 when there is no file. *)
CheckUpload(r) ==
  /\ Up
  /\ handler[r] = "checked"
  /\ handler' = [handler EXCEPT ![r] = IF GetUploadedFilePath(TaskOf[r]) THEN "found" ELSE "done"]
  /\ UNCHANGED <<mem, objects, mutex, worker, files, stream, process>>

(* CreateTask overwrites whatever the maps hold for the task ID. *)
CreateTask(r) ==
  /\ Up /\ MuFree
  /\ handler[r] = "found"
  /\ handler' = [handler EXCEPT ![r] = "created"]
  /\ tasks' = [tasks EXCEPT ![TaskOf[r]] = r]
  /\ eventChannels' = [eventChannels EXCEPT ![TaskOf[r]] = r]
  /\ status' = [status EXCEPT ![r] = "pending"]
  /\ UNCHANGED <<progress, buf, closed, mutex, worker, files, stream, process>>

(* StartConversion: 500 when the task is gone again, else a new goroutine. *)
StartConversion(r) ==
  /\ Up /\ MuFree
  /\ handler[r] = "created"
  /\ handler' = [handler EXCEPT ![r] = "done"]
  /\ IF tasks[TaskOf[r]] = Nil
     THEN UNCHANGED <<stage, step>>
     ELSE Goto(r, "start", "update")
  /\ UNCHANGED <<mem, objects, mutex, sendTo, files, stream, process>>

-----------------------------------------------------------------------------
(* The conversion goroutine *)

(* Mutant of UpdateStatus: the error blocks forget their error event. *)
UpdateStatus_NoErrorEvent(r) ==
  /\ Up /\ MuFree
  /\ Running(r) /\ step[r] = "update"
  /\ LET info == tasks[TaskOf[r]] IN
       IF info = Nil
       THEN UNCHANGED <<status, progress>>
       ELSE /\ status' = [status EXCEPT ![info] = StageStatus(stage[r])]
            /\ progress' = [progress EXCEPT ![info] = StageProgress(stage[r])]
  /\ Goto(r, stage[r], IF stage[r] = "fail" THEN "act" ELSE "lookup")
  /\ UNCHANGED <<mem, buf, closed, mutex, handler, sendTo, files, stream, process>>

(* Mutant of UpdateStatus: a progress of 0 is taken for "not given", the   *)
(* way an empty errorMsg is.                                               *)
UpdateStatus_KeepsProgress(r) ==
  /\ Up /\ MuFree
  /\ Running(r) /\ step[r] = "update"
  /\ LET info == tasks[TaskOf[r]]
         p == StageProgress(stage[r]) IN
       IF info = Nil
       THEN UNCHANGED <<status, progress>>
       ELSE /\ status' = [status EXCEPT ![info] = StageStatus(stage[r])]
            /\ progress' = [progress EXCEPT ![info] = IF p = 0 THEN @ ELSE p]
  /\ Goto(r, stage[r], "lookup")
  /\ UNCHANGED <<mem, buf, closed, mutex, handler, sendTo, files, stream, process>>

(* updateTaskStatus, or the locked block that completes the task: both     *)
(* address the map by ID and do nothing when the entry is gone.            *)
UpdateStatus(r) ==
  /\ Up /\ MuFree
  /\ Running(r) /\ step[r] = "update"
  /\ LET info == tasks[TaskOf[r]] IN
       IF info = Nil
       THEN UNCHANGED <<status, progress>>
       ELSE /\ status' = [status EXCEPT ![info] = StageStatus(stage[r])]
            /\ progress' = [progress EXCEPT ![info] = StageProgress(stage[r])]
  /\ Goto(r, stage[r], "lookup")
  /\ UNCHANGED <<mem, buf, closed, mutex, handler, sendTo, files, stream, process>>

(* Mutant of LookupChannel: the channel is closed before the final event   *)
(* is sent instead of after it.                                            *)
LookupChannel_EagerClose(r) ==
  /\ Up /\ MuFree
  /\ Running(r) /\ step[r] = "lookup"
  /\ LET ch == eventChannels[TaskOf[r]] IN
       /\ sendTo' = [sendTo EXCEPT ![r] = ch]
       /\ Goto(r, stage[r], IF ch = Nil THEN "act" ELSE "send")
       /\ closed' = IF ch # Nil /\ stage[r] \in Closing
                    THEN [closed EXCEPT ![ch] = TRUE] ELSE closed
  /\ UNCHANGED <<mem, status, progress, buf, mutex, handler, files, stream, process>>

(* sendEvent, first half: read the channel under RLock, then release it. *)
LookupChannel(r) ==
  /\ Up /\ MuFree
  /\ Running(r) /\ step[r] = "lookup"
  /\ sendTo' = [sendTo EXCEPT ![r] = eventChannels[TaskOf[r]]]
  /\ Goto(r, stage[r], IF eventChannels[TaskOf[r]] = Nil THEN "act" ELSE "send")
  /\ UNCHANGED <<mem, objects, mutex, handler, files, stream, process>>

(* Mutant of SendEvent: the newest event overtakes those still queued. *)
SendEvent_Lifo(r) ==
  /\ Up
  /\ Running(r) /\ step[r] = "send"
  /\ ~ closed[sendTo[r]]
  /\ buf' = IF Len(buf[sendTo[r]]) < Cap
            THEN [buf EXCEPT ![sendTo[r]] = <<stage[r]>> \o @]
            ELSE buf
  /\ sendTo' = [sendTo EXCEPT ![r] = Nil]
  /\ Goto(r, stage[r], "act")
  /\ UNCHANGED <<mem, status, progress, closed, mutex, handler, files, stream, process>>

(* sendEvent, second half: a non-blocking send, dropped when the channel   *)
(* is full.                                                                *)
SendEvent(r) ==
  /\ Up
  /\ Running(r) /\ step[r] = "send"
  /\ ~ closed[sendTo[r]]
  /\ buf' = IF Len(buf[sendTo[r]]) < Cap
            THEN [buf EXCEPT ![sendTo[r]] = Append(@, stage[r])]
            ELSE buf
  /\ sendTo' = [sendTo EXCEPT ![r] = Nil]
  /\ Goto(r, stage[r], "act")
  /\ UNCHANGED <<mem, status, progress, closed, mutex, handler, files, stream, process>>

(* Mutant of Panic: the deferred function does not set the status. *)
Panic_NoStatus(r) ==
  /\ Goto(r, "recover", "lookup")
  /\ sendTo' = [sendTo EXCEPT ![r] = Nil]

(* A panic in processConversion runs the deferred recover. *)
Panic(r) ==
  /\ Goto(r, "recover", "update")
  /\ sendTo' = [sendTo EXCEPT ![r] = Nil]

(* The send panics when the channel was closed after the lookup.           *)
SendOnClosed(r) ==
  /\ Up
  /\ Running(r) /\ step[r] = "send" /\ stage[r] # "recover"
  /\ closed[sendTo[r]]
  /\ Panic(r)
  /\ UNCHANGED <<mem, objects, mutex, handler, files, stream, process>>

Advance(r, from, to) ==
  /\ Up
  /\ stage[r] = from /\ step[r] = "act"
  /\ Goto(r, to, "update")
  /\ UNCHANGED <<mem, objects, mutex, handler, sendTo, stream, process>>

(* GetUploadedFilePath inside the goroutine. *)
FindUpload(r) ==
  /\ Advance(r, "start", IF GetUploadedFilePath(TaskOf[r]) THEN "validate" ELSE "fail")
  /\ UNCHANGED files

(* core.Check: bad regular expression, unreachable cover service, or ok. *)
Validate(r) ==
  /\ \E next \in {"parse", "fail"} : Advance(r, "validate", next)
  /\ UNCHANGED files

(* Mutant of ParseText: a read error is retried. *)
ParseText_Retry(r) ==
  /\ upload[TaskOf[r]] = "stored"
  /\ \E next \in {"build", "fail", "parse"} : Advance(r, "parse", next)
  /\ UNCHANGED files

(* core.Parse, when the file can be read. *)
ParseText(r) ==
  /\ upload[TaskOf[r]] = "stored"
  /\ \E next \in {"build", "fail"} : Advance(r, "parse", next)
  /\ UNCHANGED files

(* ConverterService.ConvertBook. *)
BuildBook(r) ==
  /\ \E next \in {"save", "fail"} : Advance(r, "build", next)
  /\ UNCHANGED files

(* SaveConvertedFiles; a failure may leave the copies made before it. *)
SaveFiles(r) ==
  \/ /\ Advance(r, "save", "finish")
     /\ outputs' = outputs \cup {TaskOf[r]}
     /\ UNCHANGED upload
  \/ /\ Advance(r, "save", "fail")
     /\ outputs' \in {outputs, outputs \cup {TaskOf[r]}}
     /\ UNCHANGED upload

(* regexp.MustCompile in core.Check and the converters may panic. *)
PanicInCall(r) ==
  /\ Up
  /\ stage[r] \in {"validate", "build"} /\ step[r] = "act"
  /\ Panic(r)
  /\ UNCHANGED <<mem, objects, mutex, handler, files, stream, process>>

(* Mutant of CloseChannel: the map keeps the closed channel. *)
CloseChannel_NoDelete(t) ==
  /\ closed' = IF eventChannels[t] = Nil THEN closed
               ELSE [closed EXCEPT ![eventChannels[t]] = TRUE]
  /\ UNCHANGED eventChannels

(* Mutant of CloseChannel: the channel is dropped from the map unclosed. *)
CloseChannel_NoClose(t) ==
  /\ eventChannels' = [eventChannels EXCEPT ![t] = Nil]
  /\ UNCHANGED closed

(* closeEventChannel: close and delete under one Lock, then return. *)
CloseChannel(t) ==
  /\ closed' = IF eventChannels[t] = Nil THEN closed
               ELSE [closed EXCEPT ![eventChannels[t]] = TRUE]
  /\ eventChannels' = [eventChannels EXCEPT ![t] = Nil]

(* Mutant of Finish: the error block lacks its return. *)
Finish_NoReturn(r) ==
  /\ Up /\ MuFree
  /\ stage[r] \in Closing /\ step[r] = "act"
  /\ CloseChannel(TaskOf[r])
  /\ IF stage[r] = "fail" THEN Goto(r, "save", "update") ELSE Goto(r, "done", "none")
  /\ UNCHANGED <<tasks, status, progress, buf, mutex, handler, sendTo, files, stream, process>>

Finish(r) ==
  /\ Up /\ MuFree
  /\ stage[r] \in Closing /\ step[r] = "act"
  /\ CloseChannel(TaskOf[r])
  /\ Goto(r, "done", "none")
  /\ UNCHANGED <<tasks, status, progress, buf, mutex, handler, sendTo, files, stream, process>>

Goroutine(r) ==
  \/ UpdateStatus(r) \/ LookupChannel(r) \/ SendEvent(r) \/ SendOnClosed(r)
  \/ FindUpload(r) \/ Validate(r) \/ ParseText(r) \/ BuildBook(r) \/ SaveFiles(r)
  \/ PanicInCall(r) \/ Finish(r)

-----------------------------------------------------------------------------
(* Cleanup and cancel *)

(* CleanupTask takes the Lock and deletes the uploaded files ... *)
CleanupBegin(t) ==
  /\ "cleanup" \in Calls
  /\ Up /\ MuFree
  /\ tasks[t] # Nil
  /\ cleaning' = t
  /\ upload' = [upload EXCEPT ![t] = "removed"]
  /\ UNCHANGED <<mem, objects, cancelling, handler, worker, outputs, stream, process>>

(* ... then the outputs, the channel and the task.  The context it cancels *)
(* is never consulted, so the goroutine is not touched.                    *)
CleanupEnd(t) ==
  /\ Up
  /\ cleaning = t
  /\ cleaning' = Nil
  /\ outputs' = outputs \ {t}
  /\ CloseChannel(t)
  /\ tasks' = [tasks EXCEPT ![t] = Nil]
  /\ UNCHANGED <<status, progress, buf, cancelling, handler, worker, upload, stream, process>>

(* CancelTask marks the task under Lock and calls sendEvent, whose RLock   *)
(* waits for that same Lock: no action ever releases the mutex.            *)
CancelTask(t) ==
  /\ "cancel" \in Calls
  /\ Up /\ MuFree
  /\ tasks[t] # Nil
  /\ status[tasks[t]] \notin Settled
  /\ status' = [status EXCEPT ![tasks[t]] = "cancelled"]
  /\ cancelling' = t
  /\ UNCHANGED <<mem, progress, buf, closed, cleaning, handler, worker, files, stream, process>>

-----------------------------------------------------------------------------
(* Server-sent events *)

(* GetTaskEvents: GetTask, 404 when there is none. *)
SseCheck(s, t) ==
  /\ Up /\ MuFree
  /\ sse[s] = "idle"
  /\ tasks[t] # Nil
  /\ sse' = [sse EXCEPT ![s] = "checked"]
  /\ sseTask' = [sseTask EXCEPT ![s] = t]
  /\ UNCHANGED <<mem, objects, mutex, handler, worker, files, sseChan, lastEvent, process>>

(* GetTaskEvents: GetEventChannel, 404 when it is already closed. *)
SseOpen(s) ==
  /\ Up /\ MuFree
  /\ sse[s] = "checked"
  /\ LET ch == eventChannels[sseTask[s]] IN
       /\ sse' = [sse EXCEPT ![s] = IF ch = Nil THEN "refused" ELSE "stream"]
       /\ sseChan' = [sseChan EXCEPT ![s] = ch]
  /\ UNCHANGED <<mem, objects, mutex, handler, worker, files, sseTask, lastEvent, process>>

SseReceive(s) ==
  /\ Up
  /\ sse[s] = "stream"
  /\ buf[sseChan[s]] # <<>>
  /\ lastEvent' = [lastEvent EXCEPT ![s] = Head(buf[sseChan[s]])]
  /\ buf' = [buf EXCEPT ![sseChan[s]] = Tail(@)]
  /\ UNCHANGED <<mem, status, progress, closed, mutex, handler, worker, files,
                 sse, sseTask, sseChan, process>>

(* A closed and drained channel ends the response. *)
SseEnd(s) ==
  /\ Up
  /\ sse[s] = "stream"
  /\ buf[sseChan[s]] = <<>> /\ closed[sseChan[s]]
  /\ sse' = [sse EXCEPT ![s] = "ended"]
  /\ UNCHANGED <<mem, objects, mutex, handler, worker, files, sseTask, sseChan, lastEvent, process>>

(* The client goes away: Request.Context().Done(). *)
SseDisconnect(s) ==
  /\ Up
  /\ sse[s] = "stream"
  /\ sse' = [sse EXCEPT ![s] = "left"]
  /\ UNCHANGED <<mem, objects, mutex, handler, worker, files, sseTask, sseChan, lastEvent, process>>

-----------------------------------------------------------------------------
(* The process *)

(* Ending the process loses the maps, the goroutines and the connections;  *)
(* the files stay.                                                         *)
Die(why) ==
  /\ Up
  /\ exit' = why
  /\ tasks' = [t \in TaskID |-> Nil]
  /\ eventChannels' = [t \in TaskID |-> Nil]
  /\ cleaning' = Nil
  /\ cancelling' = Nil
  /\ handler' = [r \in Request |-> IF handler[r] = "new" THEN "new" ELSE "done"]
  /\ stage' = [r \in Request |-> IF stage[r] = "idle" THEN "idle" ELSE "done"]
  /\ step' = [r \in Request |-> "none"]
  /\ sendTo' = [r \in Request |-> Nil]
  /\ sse' = [s \in Subscriber |-> IF sse[s] \in {"checked", "stream"} THEN "left" ELSE sse[s]]
  /\ UNCHANGED <<objects, files, sseTask, sseChan, lastEvent, restarts>>

(* core.Parse calls os.Exit(1) when it cannot open or read the uploaded    *)
(* file: the file is gone, or the system refuses (too many open files, no  *)
(* permission, an I/O error).                                              *)
ExitInParse(r) ==
  /\ stage[r] = "parse" /\ step[r] = "act"
  /\ Die("exit in parse")

(* A second panic, in the deferred function, is not recovered. *)
PanicInRecover(r) ==
  /\ stage[r] = "recover" /\ step[r] = "send"
  /\ closed[sendTo[r]]
  /\ Die("panic in recover")

(* main's signal goroutine calls os.Exit(0). *)
Signal ==
  /\ "signal" \in Calls
  /\ Die("signal")

Restart ==
  /\ ~ Up
  /\ restarts < MaxRestarts
  /\ restarts' = restarts + 1
  /\ exit' = "up"
  /\ UNCHANGED <<mem, objects, mutex, handler, worker, files, stream>>

-----------------------------------------------------------------------------
Init ==
  /\ tasks = [t \in TaskID |-> Nil]
  /\ eventChannels = [t \in TaskID |-> Nil]
  /\ status = [r \in Request |-> "unborn"]
  /\ progress = [r \in Request |-> 0]
  /\ buf = [r \in Request |-> <<>>]
  /\ closed = [r \in Request |-> FALSE]
  /\ cleaning = Nil
  /\ cancelling = Nil
  /\ handler = [r \in Request |-> "new"]
  /\ stage = [r \in Request |-> "idle"]
  /\ step = [r \in Request |-> "none"]
  /\ sendTo = [r \in Request |-> Nil]
  /\ upload = [t \in TaskID |-> "none"]
  /\ outputs = {}
  /\ sse = [s \in Subscriber |-> "idle"]
  /\ sseTask = [s \in Subscriber |-> Nil]
  /\ sseChan = [s \in Subscriber |-> Nil]
  /\ lastEvent = [s \in Subscriber |-> "none"]
  /\ exit = "up"
  /\ restarts = 0

ConvertHandler(r) == CheckTask(r) \/ CheckUpload(r) \/ CreateTask(r) \/ StartConversion(r)

Next ==
  \/ \E t \in TaskID : UploadFile(t) \/ CleanupBegin(t) \/ CleanupEnd(t) \/ CancelTask(t)
  \/ \E r \in Request : \/ ConvertHandler(r) \/ Goroutine(r)
                        \/ ExitInParse(r) \/ PanicInRecover(r)
  \/ \E s \in Subscriber : \/ \E t \in TaskID : SseCheck(s, t)
                           \/ SseOpen(s) \/ SseReceive(s) \/ SseEnd(s) \/ SseDisconnect(s)
  \/ Signal \/ Restart

Spec == Init /\ [][Next]_vars

(* The Go scheduler runs every goroutine that can run, and sync.RWMutex    *)
(* does not starve a waiter.  Clients and signals owe nothing.             *)
Fairness ==
  /\ \A r \in Request :
       /\ WF_vars(CheckUpload(r) \/ CreateTask(r) \/ StartConversion(r))
       /\ WF_vars(Goroutine(r) \/ ExitInParse(r) \/ PanicInRecover(r))
  /\ \A t \in TaskID : WF_vars(CleanupEnd(t))
  /\ \A s \in Subscriber : WF_vars(SseOpen(s) \/ SseReceive(s) \/ SseEnd(s))

FairSpec == Spec /\ Fairness

-----------------------------------------------------------------------------
(* Properties *)

(* Every variable stays in its type. *)
TypeOK ==
  /\ tasks \in [TaskID -> Request \cup {Nil}]
  /\ eventChannels \in [TaskID -> Request \cup {Nil}]
  /\ status \in [Request -> Statuses]
  /\ progress \in [Request -> 0..100]
  /\ buf \in [Request -> Seq(Stages)]
  /\ closed \in [Request -> BOOLEAN]
  /\ cleaning \in TaskID \cup {Nil}
  /\ cancelling \in TaskID \cup {Nil}
  /\ handler \in [Request -> {"new", "checked", "found", "created", "done"}]
  /\ stage \in [Request -> Stages \cup {"idle", "done"}]
  /\ step \in [Request -> {"none", "update", "lookup", "send", "act"}]
  /\ sendTo \in [Request -> Request \cup {Nil}]
  /\ upload \in [TaskID -> {"none", "stored", "removed"}]
  /\ outputs \in SUBSET TaskID
  /\ sse \in [Subscriber -> {"idle", "checked", "stream", "refused", "ended", "left"}]
  /\ sseTask \in [Subscriber -> TaskID \cup {Nil}]
  /\ sseChan \in [Subscriber -> Request \cup {Nil}]
  /\ lastEvent \in [Subscriber -> Stages \cup {"none"}]
  /\ exit \in {"up", "signal", "exit in parse", "panic in recover"}
  /\ restarts \in 0..MaxRestarts

(* Whatever requests share a task ID, a channel in the event-channel map   *)
(* is open, belongs to the TaskInfo in the task map, and its own handler   *)
(* or goroutine still has to reach closeEventChannel.  So no channel is    *)
(* closed twice and none stays in the map for good.                        *)
MappedChannelHasProducer ==
  \A t \in TaskID :
    LET ch == eventChannels[t] IN
      ch # Nil => /\ ~ closed[ch]
                  /\ tasks[t] = ch
                  /\ handler[ch] = "created" \/ Running(ch)

(* The outcome of a task is final: neither a late update nor the recovery  *)
(* from a send on a closed channel changes "completed" or "failed".        *)
SettledIsFinal ==
  [][\A r \in Request : status[r] \in Settled => status'[r] = status[r]]_vars

\* the stages that decide the outcome come last, and none after another
EventRank(s) == IF s \in Closing THEN 100 ELSE StageProgress(s)

(* A subscriber receives the events of a conversion in the order its       *)
(* stages ran, none of them twice, and after the first that carries an     *)
(* outcome no other: no error after "completed", no second error.          *)
EventsInOrder ==
  [][\A s \in Subscriber :
       SseReceive(s) => EventRank(lastEvent'[s]) > EventRank(lastEvent[s])]_vars

(* A stream that the server ends carried the outcome, unless the task was  *)
(* cleaned up before its conversion was over.                              *)
StreamEndsWithOutcome ==
  \A s \in Subscriber :
    sse[s] = "ended" => lastEvent[s] \in Closing \/ upload[sseTask[s]] = "removed"

(* The buffer is large enough that sendEvent never drops an event.         *)
NothingDropped ==
  \A r \in Request :
    step[r] = "send" /\ ~ closed[sendTo[r]] => Len(buf[sendTo[r]]) < Cap

(* No panic in a conversion ends the server, as long as every request has  *)
(* a task ID of its own: the deferred function's own send finds the        *)
(* channel open, unless a task was cleaned up under its goroutine.  The    *)
(* parser's os.Exit is not a panic and ends the server at any time.        *)
PanicsAreContained ==
  exit = "panic in recover" => \E t \in TaskID : upload[t] = "removed"

(* Every task in the map is settled in the end, removed, or lost with the  *)
(* process, unless a CancelTask, which no handler calls, keeps the mutex.  *)
TaskSettles ==
  \A t \in TaskID :
    tasks[t] # Nil ~> \/ tasks[t] = Nil \/ status[tasks[t]] \in Settled
                     \/ cancelling # Nil

(* Every event stream ends, with the same exception. *)
StreamEnds ==
  \A s \in Subscriber : sse[s] = "stream" ~> sse[s] # "stream" \/ cancelling # Nil

\* what GET /status answers for t, "absent" being 404
GetTaskStatus(t) ==
  IF tasks[t] = Nil THEN [status |-> "absent", progress |-> 0]
  ELSE [status |-> status[tasks[t]], progress |-> progress[tasks[t]]]

Lifecycle == INSTANCE TaskLifecycle WITH
  state   <- [t \in TaskID |-> GetTaskStatus(t).status],
  percent <- [t \in TaskID |-> GetTaskStatus(t).progress]

(* The task map, read through GET /status, implements TaskLifecycle: one   *)
(* outcome per task, growing progress, no reappearance of an old state.    *)
ImplementsLifecycle == Lifecycle!Spec
=============================================================================
