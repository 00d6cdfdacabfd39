----------------------------- MODULE MCServices -----------------------------
(***************************************************************************)
(* The services of one process for TLC: the configuration, and the service *)
(* manager around a download manager.  They share no state, so each        *)
(* behaviour looks at one of them while the other stays as it begins.      *)
(***************************************************************************)
EXTENDS ConfigManager, Sequences

CONSTANTS d1, w1, nil, p1, p2, v0, v1, bad

MCNil == nil
TwoPaths == {p1, p2}

\* v0 is the zero value of a setting, bad one that a validator refuses
ThreeValues == {v0, v1, bad}
MCValid(c) == \A p \in TwoPaths : c[p] # bad
AnyCallback == {"return", "fail", "read"}

VARIABLE focus  \* the component this behaviour looks at

VARIABLES process, started, at, restarts, stops, loops, closed, collectors, db,
          listed, status, retries, cancelFunc, caller, queue, timers, pc, job, ctxDone,
          stats, stopped, turnedAway

services == <<process, started, at, restarts, stops, loops, closed, collectors, db,
              listed, status, retries, cancelFunc, caller, queue, timers, pc, job, ctxDone,
              stats, stopped, turnedAway>>

Services ==
  INSTANCE ServiceManager WITH
    alive <- process, Task <- {d1}, Worker <- {w1}, QueueCap <- 2, MaxRetries <- 2,
    Calls <- {"stop", "pause"}, Caller <- {"main", "other"}, MaxStops <- 2

-----------------------------------------------------------------------------
MCInit == focus \in {"services", "config"} /\ Init /\ Services!Init

MCNext ==
  /\ \/ focus = "config" /\ Next /\ UNCHANGED services
     \/ focus = "services" /\ Services!Next /\ UNCHANGED vars
  /\ UNCHANGED focus

(* Nothing that the fairness of one is about is enabled as long as it      *)
(* stays as it begins.                                                     *)
MCSpec == MCInit /\ [][MCNext]_<<focus, vars, services>> /\ Fairness /\ Services!Fairness

-----------------------------------------------------------------------------
(* Services that were told to stop end. *)
ServicesStop == Services!ServicesStop

(* A signal ends the process with its services stopped. *)
SignalStopsServices == Services!SignalStopsServices
=============================================================================
