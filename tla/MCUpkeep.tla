------------------------------ MODULE MCUpkeep ------------------------------
(***************************************************************************)
(* What the server does every now and then, for TLC: the load balancer     *)
(* with its health checks and the cleanup of old files.  They share no     *)
(* state, so each behaviour looks at one of them while the other stays as  *)
(* it begins.                                                              *)
(***************************************************************************)
EXTENDS LoadBalancer, Sequences

CONSTANTS server1, server2, r1, k1, nil, a1, b1, b2

MCNil == nil
TwoServers == {server1, server2}
OneRequest == {r1}
OneCheck == {k1}

(* Two virtual nodes per backend, interleaved on the ring. *)
MCHash == 1..4
MCPoints(b) == IF b = server1 THEN {1, 3} ELSE {2, 4}

VARIABLE focus  \* the component this behaviour looks at

VARIABLES byAge, old, running, stopChan, schedule, at, dir, todo, freed, calls

cleanup == <<byAge, old, running, stopChan, schedule, at, dir, todo, freed, calls>>

(* A file that cannot be removed in one directory, two files in another.   *)
Cleanup ==
  INSTANCE CleanupService WITH
    expired <- old, Dirs <- << <<a1>>, <<b1, b2>> >>,
    SizeOf <- LAMBDA f : IF f = b1 THEN 2 ELSE 1,
    Fixed <- {a1}, MaxDiskUsage <- 3,
    Cleaner <- {"initial", "scheduled", "caller"}, MaxCalls <- 2

-----------------------------------------------------------------------------
MCInit == focus \in {"balancer", "cleanup"} /\ Init /\ Cleanup!Init

MCNext ==
  /\ \/ focus = "balancer" /\ Next /\ UNCHANGED cleanup
     \/ focus = "cleanup" /\ Cleanup!Next /\ UNCHANGED vars
  /\ UNCHANGED focus

(* Nothing that the fairness of one is about is enabled as long as it      *)
(* stays as it begins.                                                     *)
MCSpec == MCInit /\ [][MCNext]_<<focus, vars, cleanup>> /\ Fairness /\ Cleanup!Fairness

(* Old files go. *)
OldFilesGo == Cleanup!OldFilesGo
=============================================================================
