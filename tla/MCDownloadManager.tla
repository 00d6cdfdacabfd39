------------------------- MODULE MCDownloadManager -------------------------
(***************************************************************************)
(* Two download managers for TLC: a pool of two workers that is stopped    *)
(* some day, and one worker whose paused tasks are resumed.  They share    *)
(* nothing, so each behaviour looks at one of them while the other stays   *)
(* as it begins.                                                           *)
(***************************************************************************)
EXTENDS DownloadManager

CONSTANTS d1, d2, w1, w2, nil

MCNil == nil
TwoTasks == {d1, d2}
TwoWorkers == {w1, w2}

StopCalls == {"pause", "cancel", "stop"}

VARIABLE focus  \* the manager this behaviour looks at

VARIABLES listed1, status1, retries1, cancelFunc1, caller1, queue1, timers1, pc1, job1,
          ctxDone1, stats1, stopped1, turnedAway1

one == <<listed1, status1, retries1, cancelFunc1, caller1, queue1, timers1, pc1, job1,
         ctxDone1, stats1, stopped1, turnedAway1>>

OneWorker ==
  INSTANCE DownloadManager WITH
    Worker <- {w1}, Calls <- {"pause", "resume", "cancel"},
    listed <- listed1, status <- status1, retries <- retries1, cancelFunc <- cancelFunc1,
    caller <- caller1, queue <- queue1, timers <- timers1, pc <- pc1, job <- job1,
    ctxDone <- ctxDone1, stats <- stats1, stopped <- stopped1, turnedAway <- turnedAway1

MCInit == focus \in {"pool", "one worker"} /\ Init /\ OneWorker!Init

MCNext ==
  /\ \/ focus = "pool" /\ Next /\ UNCHANGED one
     \/ focus = "one worker" /\ OneWorker!Next /\ UNCHANGED vars
  /\ UNCHANGED focus

(* Nothing that the fairness is about is enabled in a manager that has no  *)
(* task yet.                                                               *)
MCSpec == MCInit /\ [][MCNext]_<<focus, vars, one>> /\ Fairness /\ OneWorker!Fairness

(* The tasks of one worker end, pauses and resumes included.               *)
ResumedDownloadEnds == OneWorker!DownloadEnds
=============================================================================
