-------------------------- MODULE DownloadManager --------------------------
(***************************************************************************)
(* The download manager: a map of tasks, a bounded queue, a fixed pool of  *)
(* workers, delayed retries, and the control calls that pause, resume and  *)
(* cancel a task while a worker may be busy with it.  What is transferred  *)
(* is the subject of DownloadTransfer; here a transfer succeeds or fails.  *)
(***************************************************************************)
EXTENDS Integers, Sequences, FiniteSets

CONSTANTS
  Task,        \* download tasks, each added at most once
  Worker,      \* MaxConcurrent workers
  QueueCap,    \* capacity of the queue channel (100 in the code)
  MaxRetries,  \* failures after which a task is marked failed
  Calls,       \* control calls made: subset of {"pause", "resume", "cancel", "stop"}
  Nil          \* absence of a task or worker

ASSUME NilAssumption == Nil \notin Task \cup Worker
ASSUME QueueCapAssumption == QueueCap \in Nat \ {0}
ASSUME MaxRetriesAssumption == MaxRetries \in Nat \ {0}

VARIABLES
  listed,      \* tasks in dm.downloads
  status,      \* status[t]: DownloadTask.Status, "new" before AddDownload
  retries,     \* retries[t]: DownloadTask.Retries
  cancelFunc,  \* cancelFunc[t]: worker whose transfer task.cancel would stop
  caller,      \* caller[t]: where the AddDownload or CancelDownload call for t is
  queue,       \* tasks in the queue channel
  timers,      \* timers[t]: goroutines that sleep for RetryDelay before they enqueue t
  pc,          \* pc[w]: where worker w is
  job,         \* job[w]: the task worker w took from the queue
  ctxDone,     \* workers whose transfer has been cancelled
  stats,       \* DownloadStatistics
  stopped,     \* dm.ctx is done
  turnedAway   \* auxiliary: tasks that found the queue full

control == <<listed, caller, turnedAway>>
task    == <<status, retries>>
pool    == <<pc, job>>
vars    == <<control, task, cancelFunc, queue, timers, pool, ctxDone, stats, stopped>>

Status == {"new", "pending", "downloading", "paused", "completed", "failed", "cancelled"}

\* where a worker is in run, processTask and downloadFile
PC == {"idle", "taken", "claimed", "counted", "transfer", "failure", "success",
       "finalize", "give up", "leave", "gone"}

Add(counter, n) == [stats EXCEPT ![counter] = @ + n]

HasRoom == Len(queue) < QueueCap

-----------------------------------------------------------------------------
(* Control calls *)

(* AddDownload after a HEAD request that went well: the task is put in the *)
(* map and counted ...                                                     *)
AddDownload(t) ==
  /\ status[t] = "new"
  /\ status' = [status EXCEPT ![t] = "pending"]
  /\ listed' = listed \cup {t}
  /\ caller' = [caller EXCEPT ![t] = "enqueue"]
  /\ stats' = [stats EXCEPT !.total = @ + 1, !.queued = @ + 1]
  /\ UNCHANGED <<retries, cancelFunc, queue, timers, pool, ctxDone, stopped, turnedAway>>

(* Mutant of EnqueueNew: one slot of the queue is never used. *)
EnqueueNew_OffByOne(t) ==
  /\ caller[t] = "enqueue"
  /\ caller' = [caller EXCEPT ![t] = "none"]
  /\ IF Len(queue) + 1 < QueueCap THEN queue' = Append(queue, t) ELSE UNCHANGED queue
  /\ turnedAway' = IF HasRoom THEN turnedAway ELSE turnedAway \cup {t}
  /\ UNCHANGED <<listed, task, cancelFunc, timers, pool, ctxDone, stats, stopped>>

(* The select of AddDownload, ResumeDownload and the retry: a task that    *)
(* finds the queue full is not queued.                                     *)
TryEnqueue(t) ==
  /\ queue' = IF HasRoom THEN Append(queue, t) ELSE queue
  /\ turnedAway' = IF HasRoom THEN turnedAway ELSE turnedAway \cup {t}

(* ... and queued, or left in the map, counted as queued, with an error    *)
(* for the client when the queue is full.                                  *)
EnqueueNew(t) ==
  /\ caller[t] = "enqueue"
  /\ caller' = [caller EXCEPT ![t] = "none"]
  /\ TryEnqueue(t)
  /\ UNCHANGED <<listed, task, cancelFunc, timers, pool, ctxDone, stats, stopped>>

(* Mutant of PauseDownload: the task goes back to the queue at once. *)
PauseDownload_Yield(t) ==
  /\ "pause" \in Calls
  /\ t \in listed /\ status[t] = "downloading"
  /\ status' = [status EXCEPT ![t] = "pending"]
  /\ queue' = IF HasRoom THEN Append(queue, t) ELSE queue
  /\ ctxDone' = ctxDone \cup ({cancelFunc[t]} \ {Nil})
  /\ UNCHANGED <<control, retries, cancelFunc, timers, pool, stats, stopped>>

(* A transfer that has not set task.cancel yet is not stopped. *)
PauseDownload(t) ==
  /\ "pause" \in Calls
  /\ t \in listed /\ status[t] = "downloading"
  /\ status' = [status EXCEPT ![t] = "paused"]
  /\ ctxDone' = ctxDone \cup ({cancelFunc[t]} \ {Nil})
  /\ UNCHANGED <<control, retries, cancelFunc, queue, timers, pool, stats, stopped>>

(* The task becomes pending whether or not the queue has room. *)
ResumeDownload(t) ==
  /\ "resume" \in Calls
  /\ t \in listed /\ status[t] = "paused"
  /\ status' = [status EXCEPT ![t] = "pending"]
  /\ TryEnqueue(t)
  /\ UNCHANGED <<listed, caller, retries, cancelFunc, timers, pool, ctxDone, stats, stopped>>

(* CancelDownload: the map under dm.mutex ... *)
CancelDownload(t) ==
  /\ "cancel" \in Calls
  /\ t \in listed /\ caller[t] = "none"
  /\ listed' = listed \ {t}
  /\ caller' = [caller EXCEPT ![t] = "mark"]
  /\ UNCHANGED <<task, cancelFunc, queue, timers, pool, ctxDone, stats, stopped, turnedAway>>

(* ... the task under its own mutex, whatever a worker is doing with it    *)
(* (the temporary file, removed next, is in DownloadTransfer!Cancel) ...   *)
MarkCancelled(t) ==
  /\ caller[t] = "mark"
  /\ caller' = [caller EXCEPT ![t] = "count"]
  /\ status' = [status EXCEPT ![t] = "cancelled"]
  /\ ctxDone' = ctxDone \cup ({cancelFunc[t]} \ {Nil})
  /\ UNCHANGED <<listed, retries, cancelFunc, queue, timers, pool, stats, stopped, turnedAway>>

(* ... and the statistics. *)
CountCancelled(t) ==
  /\ caller[t] = "count"
  /\ caller' = [caller EXCEPT ![t] = "none"]
  /\ stats' = Add("cancelled", 1)
  /\ UNCHANGED <<listed, task, cancelFunc, queue, timers, pool, ctxDone, stopped, turnedAway>>

(* cleanup: completed tasks leave the map KeepCompleted after completion,  *)
(* when the worker is long done with them.                                 *)
Cleanup(t) ==
  /\ t \in listed /\ status[t] = "completed" /\ caller[t] = "none"
  /\ \A w \in Worker : job[w] # t
  /\ listed' = listed \ {t}
  /\ UNCHANGED <<caller, task, cancelFunc, queue, timers, pool, ctxDone, stats, stopped, turnedAway>>

Stop ==
  /\ "stop" \in Calls
  /\ ~ stopped
  /\ stopped' = TRUE
  /\ ctxDone' = {w \in Worker : pc[w] = "transfer"}
  /\ UNCHANGED <<control, task, cancelFunc, queue, timers, pool, stats>>

-----------------------------------------------------------------------------
(* Workers *)

Step(w, from, to) == pc[w] = from /\ pc' = [pc EXCEPT ![w] = to]

(* run: with the context done and tasks queued, select may take either. *)
Dequeue(w) ==
  /\ queue # <<>>
  /\ Step(w, "idle", "taken")
  /\ job' = [job EXCEPT ![w] = Head(queue)]
  /\ queue' = Tail(queue)
  /\ UNCHANGED <<control, task, cancelFunc, timers, ctxDone, stats, stopped>>

(* Mutant of Exit: the context is looked at between two tasks only. *)
Exit_AfterTask(w) ==
  /\ stopped
  /\ Step(w, "leave", "gone")
  /\ UNCHANGED <<control, task, cancelFunc, queue, timers, job, ctxDone, stats, stopped>>

Exit(w) ==
  /\ stopped
  /\ Step(w, "idle", "gone")
  /\ UNCHANGED <<control, task, cancelFunc, queue, timers, job, ctxDone, stats, stopped>>

(* processTask: only a pending task is downloaded. *)
Claim(w) ==
  LET t == job[w] IN
    \/ /\ Step(w, "taken", "claimed")
       /\ status[t] = "pending"
       /\ status' = [status EXCEPT ![t] = "downloading"]
       /\ UNCHANGED <<control, retries, cancelFunc, queue, timers, job, ctxDone, stats, stopped>>
    \/ /\ Step(w, "taken", "idle")
       /\ status[t] # "pending"
       /\ job' = [job EXCEPT ![w] = Nil]
       /\ UNCHANGED <<control, task, cancelFunc, queue, timers, ctxDone, stats, stopped>>

CountActive(w) ==
  /\ Step(w, "claimed", "counted")
  /\ stats' = [stats EXCEPT !.queued = @ - 1, !.active = @ + 1]
  /\ UNCHANGED <<control, task, cancelFunc, queue, timers, job, ctxDone, stopped>>

(* downloadFile sets task.cancel without the task's mutex. *)
StartTransfer(w) ==
  /\ Step(w, "counted", "transfer")
  /\ cancelFunc' = [cancelFunc EXCEPT ![job[w]] = w]
  /\ ctxDone' = IF stopped THEN ctxDone \cup {w} ELSE ctxDone
  /\ UNCHANGED <<control, task, queue, timers, job, stats, stopped>>

(* The deferred cancel makes the stored one a no-op.  A transfer that was  *)
(* cancelled may have read its last byte already.                          *)
EndTransfer(w) ==
  /\ \E result \in {"success", "failure"} : Step(w, "transfer", result)
  /\ cancelFunc' = [cancelFunc EXCEPT ![job[w]] = IF @ = w THEN Nil ELSE @]
  /\ ctxDone' = ctxDone \ {w}
  /\ UNCHANGED <<control, task, queue, timers, job, stats, stopped>>

(* Mutant of RecordFailure: the last allowed failure is retried too. *)
RecordFailure_OffByOne(w) ==
  LET t == job[w] IN
    /\ pc[w] = "failure"
    /\ retries' = [retries EXCEPT ![t] = @ + 1]
    /\ IF retries[t] + 1 <= MaxRetries
       THEN /\ Step(w, "failure", "leave")
            /\ status' = [status EXCEPT ![t] = "pending"]
            /\ timers' = [timers EXCEPT ![t] = @ + 1]
       ELSE /\ Step(w, "failure", "give up")
            /\ status' = [status EXCEPT ![t] = "failed"]
            /\ UNCHANGED timers
    /\ UNCHANGED <<control, cancelFunc, queue, job, ctxDone, stats, stopped>>

(* Mutant of RecordFailure: the task is not queued again. *)
RecordFailure_NoTimer(w) ==
  LET t == job[w] IN
    /\ pc[w] = "failure"
    /\ retries' = [retries EXCEPT ![t] = @ + 1]
    /\ Step(w, "failure", IF retries[t] + 1 < MaxRetries THEN "leave" ELSE "give up")
    /\ status' = [status EXCEPT ![t] = IF retries[t] + 1 < MaxRetries THEN "pending" ELSE "failed"]
    /\ UNCHANGED <<control, cancelFunc, queue, timers, job, ctxDone, stats, stopped>>

(* The error branch of processTask does not look at the status it          *)
(* overwrites.                                                             *)
RecordFailure(w) ==
  LET t == job[w] IN
    /\ pc[w] = "failure"
    /\ retries' = [retries EXCEPT ![t] = @ + 1]
    /\ \/ /\ retries[t] + 1 < MaxRetries
          /\ Step(w, "failure", "leave")
          /\ status' = [status EXCEPT ![t] = "pending"]
          /\ timers' = [timers EXCEPT ![t] = @ + 1]
       \/ /\ retries[t] + 1 >= MaxRetries
          /\ Step(w, "failure", "give up")
          /\ status' = [status EXCEPT ![t] = "failed"]
          /\ UNCHANGED timers
    /\ UNCHANGED <<control, cancelFunc, queue, job, ctxDone, stats, stopped>>

CountFailed(w) ==
  /\ Step(w, "give up", "leave")
  /\ stats' = Add("failed", 1)
  /\ UNCHANGED <<control, task, cancelFunc, queue, timers, job, ctxDone, stopped>>

RecordSuccess(w) ==
  /\ Step(w, "success", "finalize")
  /\ status' = [status EXCEPT ![job[w]] = "completed"]
  /\ UNCHANGED <<control, retries, cancelFunc, queue, timers, job, ctxDone, stats, stopped>>

(* finalizeDownload, whose error is ignored, and the statistics. *)
Finalize(w) ==
  /\ Step(w, "finalize", "leave")
  /\ stats' = Add("completed", 1)
  /\ UNCHANGED <<control, task, cancelFunc, queue, timers, job, ctxDone, stopped>>

(* Mutant of Leave: ActiveTasks is not decremented after a failure. *)
Leave_NoCount(w) ==
  /\ Step(w, "leave", "idle")
  /\ job' = [job EXCEPT ![w] = Nil]
  /\ stats' = IF status[job[w]] = "completed" THEN Add("active", -1) ELSE stats
  /\ UNCHANGED <<control, task, cancelFunc, queue, timers, ctxDone, stopped>>

Leave(w) ==
  /\ Step(w, "leave", "idle")
  /\ job' = [job EXCEPT ![w] = Nil]
  /\ stats' = Add("active", -1)
  /\ UNCHANGED <<control, task, cancelFunc, queue, timers, ctxDone, stopped>>

Work(w) ==
  \/ Dequeue(w) \/ Exit(w) \/ Claim(w) \/ CountActive(w) \/ StartTransfer(w)
  \/ EndTransfer(w) \/ RecordFailure(w) \/ CountFailed(w) \/ RecordSuccess(w)
  \/ Finalize(w) \/ Leave(w)

(* The goroutine that retries: with no room in the queue the task fails    *)
(* without being counted.                                                  *)
Requeue(t) ==
  /\ timers[t] > 0
  /\ timers' = [timers EXCEPT ![t] = @ - 1]
  /\ TryEnqueue(t)
  /\ status' = IF HasRoom THEN status ELSE [status EXCEPT ![t] = "failed"]
  /\ UNCHANGED <<listed, caller, retries, cancelFunc, pool, ctxDone, stats, stopped>>

-----------------------------------------------------------------------------
Init ==
  /\ listed = {}
  /\ status = [t \in Task |-> "new"]
  /\ retries = [t \in Task |-> 0]
  /\ cancelFunc = [t \in Task |-> Nil]
  /\ caller = [t \in Task |-> "none"]
  /\ queue = <<>>
  /\ timers = [t \in Task |-> 0]
  /\ pc = [w \in Worker |-> "idle"]
  /\ job = [w \in Worker |-> Nil]
  /\ ctxDone = {}
  /\ stats = [total |-> 0, queued |-> 0, active |-> 0, completed |-> 0, failed |-> 0, cancelled |-> 0]
  /\ stopped = FALSE
  /\ turnedAway = {}

Next ==
  \/ \E t \in Task : \/ AddDownload(t) \/ EnqueueNew(t) \/ PauseDownload(t)
                     \/ ResumeDownload(t) \/ CancelDownload(t) \/ MarkCancelled(t)
                     \/ CountCancelled(t) \/ Cleanup(t) \/ Requeue(t)
  \/ \E w \in Worker : Work(w)
  \/ Stop

Spec == Init /\ [][Next]_vars

(* Goroutines run, calls that began end, the client's Timeout ends every   *)
(* transfer and a sleep is over some day.  Nobody has to call anything.    *)
Fairness ==
  /\ \A w \in Worker : WF_vars(Work(w))
  /\ \A t \in Task : /\ WF_vars(EnqueueNew(t) \/ MarkCancelled(t) \/ CountCancelled(t))
                     /\ WF_vars(Requeue(t))

FairSpec == Spec /\ Fairness

-----------------------------------------------------------------------------
(* Properties *)

(* Every variable stays in its type. *)
TypeOK ==
  /\ listed \in SUBSET Task
  /\ status \in [Task -> Status]
  /\ retries \in [Task -> Nat]
  /\ cancelFunc \in [Task -> Worker \cup {Nil}]
  /\ caller \in [Task -> {"none", "enqueue", "mark", "count"}]
  /\ queue \in Seq(Task)
  /\ timers \in [Task -> Nat]
  /\ pc \in [Worker -> PC]
  /\ job \in [Worker -> Task \cup {Nil}]
  /\ ctxDone \in SUBSET Worker
  /\ stats \in [{"total", "queued", "active", "completed", "failed", "cancelled"} -> Int]
  /\ stopped \in BOOLEAN
  /\ turnedAway \in SUBSET Task

Downloading(w) == pc[w] \in {"claimed", "counted", "transfer", "failure", "success"}
InQueue(t) == \E i \in DOMAIN queue : queue[i] = t

(* No two workers download the same task, so no two goroutines write its   *)
(* temporary file.  True as long as nobody resumes a paused task.          *)
OneWorkerPerTask ==
  \A v, w \in Worker : Downloading(v) /\ Downloading(w) /\ job[v] = job[w] => v = w

(* A pending task is on its way to a worker: in the queue, taken out of    *)
(* it, waiting for its retry, or about to be queued.  Only a task that     *)
(* found the queue full can be pending for good.                           *)
PendingIsQueued ==
  \A t \in Task :
    status[t] = "pending" =>
      \/ InQueue(t) \/ timers[t] > 0 \/ caller[t] = "enqueue" \/ t \in turnedAway
      \/ \E w \in Worker : pc[w] = "taken" /\ job[w] = t

(* A task fails at most MaxRetries times, whoever pauses or cancels it,    *)
(* unless it is resumed.                                                   *)
RetriesBounded == \A t \in Task : retries[t] <= MaxRetries

Counted(w) == pc[w] \in {"counted", "transfer", "failure", "success", "finalize", "give up", "leave"}

Quiet ==
  /\ queue = <<>>
  /\ \A t \in Task : timers[t] = 0 /\ caller[t] = "none"
  /\ \A w \in Worker : pc[w] = "idle"

(* ActiveTasks is the number of workers between its increment and its      *)
(* decrement, and once nothing is going on every task ever added is        *)
(* counted as completed or failed, pauses included, as long as no task is  *)
(* cancelled and none finds the queue full.                                *)
StatisticsBalance ==
  /\ stats.active = Cardinality({w \in Worker : Counted(w)})
  /\ Quiet /\ stats.cancelled = 0 /\ turnedAway = {} => stats.completed + stats.failed = stats.total

(* Every task that gets into the queue is completed, failed, cancelled or  *)
(* paused in the end, retries included.  A task that finds the queue full  *)
(* is never downloaded: as a new or a resumed one it stays pending for     *)
(* good, and nobody but the client who got the error knows.                *)
DownloadEnds ==
  \A t \in Task :
    InQueue(t) /\ status[t] = "pending"
      ~> status[t] \in {"completed", "failed", "cancelled", "paused"}

(* After Stop every worker returns, whatever is queued or being retried.   *)
WorkersStop == stopped ~> \A w \in Worker : pc[w] = "gone"
=============================================================================
