-------------------------- MODULE MCInfrastructure --------------------------
(***************************************************************************)
(* Four components for TLC whose properties are all about safety: the rate *)
(* limiter, the result cache, the transfer of one download and the logger. *)
(* They share no state, so each behaviour looks at one of them while the   *)
(* others stay as they begin.                                              *)
(***************************************************************************)
EXTENDS Infrastructure, TLC

CONSTANTS x1, x2, x3, small, large, r1, r2

TwoRequests == {r1, r2}

(* Requests, and the keys of the cache, are interchangeable. *)
Symmetric == Permutations(TwoRequests) \cup Permutations({x1, x2, x3})

MCSizeOf(v) == IF v = small THEN 1 ELSE 2

(* A process that goes on, and one with everything that can happen to it.  *)
MCScenarios == {{}, {"start", "stop", "exit", "torn"}}

ASSUME Transfer!SizesAssumption /\ Transfer!BoundsAssumption
ASSUME Cache!NilAssumption /\ Cache!LimitsAssumption /\ Cache!SizeAssumption
ASSUME Logger!ClockAssumption

VARIABLE focus  \* the component this behaviour looks at

-----------------------------------------------------------------------------
MCInit ==
  /\ focus \in {"cache", "transfer", "logger", "limiter"}
  /\ Init
  /\ Cache!Init /\ (focus # "cache" => scenario = {})
  /\ Transfer!Init /\ (focus # "transfer" => fileSize = 2 /\ acceptRanges /\ ranged)
  /\ Logger!Init

MCNext ==
  /\ \/ /\ focus = "cache" /\ Cache!Next
        /\ UNCHANGED <<vars, transfer, logger>>
     \/ /\ focus = "transfer" /\ Transfer!Next
        /\ UNCHANGED <<vars, cache, logger>>
     \/ /\ focus = "logger" /\ Logger!Next
        /\ UNCHANGED <<vars, cache, transfer>>
     \/ /\ focus = "limiter" /\ Next
        /\ UNCHANGED <<cache, transfer, logger>>
  /\ UNCHANGED focus

MCSpec == MCInit /\ [][MCNext]_<<focus, vars, cache, transfer, logger>>
=============================================================================
