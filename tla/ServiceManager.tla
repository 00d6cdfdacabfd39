--------------------------- MODULE ServiceManager ---------------------------
(***************************************************************************)
(* The service manager of the web server, from NewServiceManager to the    *)
(* end of the process, around a download manager at work: Start, the       *)
(* phases of Stop under sm.mutex, Restart by several callers, and what     *)
(* ends the process without asking the manager.                            *)
(***************************************************************************)
EXTENDS Integers, Sequences, FiniteSets

CONSTANTS
  Task, Worker, QueueCap, MaxRetries, Calls, Nil,  \* of DownloadManager
  Caller,    \* who calls Start, Stop and Restart: "main" and others
  MaxStops   \* bound on the calls of Stop and Restart

VARIABLES
  alive,       \* "new", "running", or how the process ended: "exited", "fatal" or "panicked"
  started,     \* sm.started
  at,          \* at[c]: where c is in Start, Stop or Restart
  restarts,    \* callers whose Stop is the first half of Restart
  stops,       \* calls of Stop and Restart so far
  loops,       \* services whose background loop runs
  closed,      \* services whose channel or context has been closed
  collectors,  \* goroutines of the metrics service
  db           \* sm.DB: "none", "open" or "closed"

VARIABLES listed, status, retries, cancelFunc, caller, queue, timers, pc, job, ctxDone, stats,
          stopped, turnedAway

D == INSTANCE DownloadManager

manager   == <<alive, started, at, restarts, stops, loops, closed, collectors, db>>
downloads == <<listed, status, retries, cancelFunc, caller, queue, timers, pc, job, ctxDone,
               stats, stopped, turnedAway>>
vars      == <<manager, downloads>>

Running == alive = "running"

(* Steps of the download manager go on while the process runs. *)
Downloading(step) == Running /\ step /\ UNCHANGED manager

\* the services with a loop that starts with the process
Looping == {"uploads", "downloads", "balancer"}

Stopping == {"uploads", "downloads", "balancer", "database"}
Locked   == \E c \in Caller : at[c] \in Stopping

Move(c, from, to) == Running /\ at[c] = from /\ at' = [at EXCEPT ![c] = to]

-----------------------------------------------------------------------------
(* NewServiceManager: each service starts its own loop.  One that cannot   *)
(* be set up ends the program.                                             *)
NewServiceManager ==
  /\ alive = "new"
  /\ \/ /\ alive' = "running"
        /\ loops' = Looping /\ db' = "open"
        /\ at' = [at EXCEPT !["main"] = "start"]
     \/ /\ alive' = "fatal"
        /\ UNCHANGED <<loops, db, at>>
  /\ UNCHANGED <<started, restarts, stops, closed, collectors, downloads>>

(* Start starts the metrics service and nothing else: cache and cleanup    *)
(* are never started.                                                      *)
Start(c) ==
  /\ ~ Locked
  /\ Move(c, "start", "none")
  /\ \/ /\ ~ started
        /\ started' = TRUE /\ collectors' = collectors + 2
     \/ /\ started
        /\ UNCHANGED <<started, collectors>>
  /\ UNCHANGED <<alive, restarts, stops, loops, closed, db, downloads>>

(* Stop on its own or as the first half of Restart, which sleeps before    *)
(* it calls Start.  Services that are not started are not stopped.         *)
BeginStop(c, restart) ==
  /\ ~ Locked /\ stops < MaxStops
  /\ stops' = stops + 1
  /\ Move(c, "none", IF started THEN "uploads" ELSE IF restart THEN "sleep" ELSE "none")
  /\ restarts' = IF restart THEN restarts \cup {c} ELSE restarts \ {c}
  /\ UNCHANGED <<alive, started, loops, closed, collectors, db, downloads>>

Close(service) == closed' = closed \cup {service}

StopUploads(c) ==
  /\ "uploads" \notin closed
  /\ Move(c, "uploads", "downloads")
  /\ Close("uploads")
  /\ UNCHANGED <<alive, started, restarts, stops, loops, collectors, db, downloads>>

(* After a Restart the channel is closed for a second time.  The panic     *)
(* ends the process, unless the caller recovers: the deferred Unlock runs  *)
(* and the services count as started.                                      *)
CloseTwice(c) ==
  /\ "uploads" \in closed
  /\ Move(c, "uploads", "none")
  /\ alive' \in {"running", "panicked"}
  /\ UNCHANGED <<started, restarts, stops, loops, closed, collectors, db, downloads>>

(* Mutant of StopDownloads: the download manager is left out. *)
StopDownloads_Skipped(c) ==
  /\ Move(c, "downloads", "balancer")
  /\ UNCHANGED <<alive, started, restarts, stops, loops, closed, collectors, db, downloads>>

StopDownloads(c) ==
  /\ Move(c, "downloads", "balancer")
  /\ Close("downloads")
  /\ D!Stop
  /\ UNCHANGED <<alive, started, restarts, stops, loops, collectors, db>>

StopBalancer(c) ==
  /\ Move(c, "balancer", "database")
  /\ Close("balancer")
  /\ UNCHANGED <<alive, started, restarts, stops, loops, collectors, db, downloads>>

(* Nothing opens the database again. *)
CloseDatabase(c) ==
  /\ Move(c, "database", IF c \in restarts THEN "sleep" ELSE "none")
  /\ db' = "closed" /\ started' = FALSE
  /\ UNCHANGED <<alive, restarts, stops, loops, closed, collectors, downloads>>

WakeUp(c) ==
  /\ Move(c, "sleep", "start")
  /\ UNCHANGED <<alive, started, restarts, stops, loops, closed, collectors, db, downloads>>

(* A loop sees its channel or context closed in the next select. *)
EndLoop(s) ==
  /\ Running
  /\ s \in loops \cap closed
  /\ loops' = loops \ {s}
  /\ UNCHANGED <<alive, started, at, restarts, stops, closed, collectors, db, downloads>>

(* The signal handler calls os.Exit: main's deferred Stop does not run ... *)
Signal ==
  /\ Running
  /\ alive' = "exited"
  /\ UNCHANGED <<started, at, restarts, stops, loops, closed, collectors, db, downloads>>

(* ... and neither does it when r.Run returns, which log.Fatal reports.    *)
ListenFails ==
  /\ Running /\ at["main"] = "none" /\ stops = 0
  /\ alive' = "fatal"
  /\ UNCHANGED <<started, at, restarts, stops, loops, closed, collectors, db, downloads>>

-----------------------------------------------------------------------------
ManagerInit ==
  /\ alive = "new" /\ started = FALSE
  /\ at = [c \in Caller |-> "none"]
  /\ restarts = {} /\ stops = 0
  /\ loops = {} /\ closed = {} /\ collectors = 0
  /\ db = "none"

Init == ManagerInit /\ D!Init

Stopped(c) ==
  \/ StopUploads(c) \/ CloseTwice(c) \/ StopDownloads(c)
  \/ StopBalancer(c) \/ CloseDatabase(c) \/ WakeUp(c) \/ Start(c)

DownloadStep ==
  \/ \E t \in Task :
       \/ D!AddDownload(t) \/ D!EnqueueNew(t) \/ D!PauseDownload(t)
       \/ D!ResumeDownload(t) \/ D!CancelDownload(t) \/ D!MarkCancelled(t)
       \/ D!CountCancelled(t) \/ D!Cleanup(t) \/ D!Requeue(t)
  \/ \E w \in Worker : D!Work(w)

Next ==
  \/ NewServiceManager
  \/ \E c \in Caller : Stopped(c) \/ \E restart \in BOOLEAN : BeginStop(c, restart)
  \/ \E s \in Looping : EndLoop(s)
  \/ Signal \/ ListenFails
  \/ Downloading(DownloadStep)

Spec == Init /\ [][Next]_vars

(* While the process runs its goroutines do: calls that began end, loops   *)
(* look at their channels, and the download manager goes on as its own     *)
(* fairness says.                                                          *)
Fairness ==
  /\ \A c \in Caller : WF_vars(Stopped(c))
  /\ \A s \in Looping : WF_vars(EndLoop(s))
  /\ \A w \in Worker : WF_vars(Downloading(D!Work(w)))
  /\ \A t \in Task :
       /\ WF_vars(Downloading(D!EnqueueNew(t) \/ D!MarkCancelled(t) \/ D!CountCancelled(t)))
       /\ WF_vars(Downloading(D!Requeue(t)))

FairSpec == Spec /\ Fairness

-----------------------------------------------------------------------------
(* Properties *)

(* Once somebody has called Stop or Restart on started services, every     *)
(* loop and every worker of uploads, downloads and load balancing ends,    *)
(* however many callers there are and whatever the workers are doing.      *)
ServicesStop ==
  (\E c \in Caller : at[c] = "uploads") ~>
    \/ ~ Running
    \/ loops = {} /\ \A w \in Worker : pc[w] = "gone"

(* A process that a signal has ended has stopped its services first.       *)
SignalStopsServices == alive = "exited" => ~ started
=============================================================================
