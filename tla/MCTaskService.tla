--------------------------- MODULE MCTaskService ---------------------------
(***************************************************************************)
(* Two servers for TLC: one where a task is converted by one request and   *)
(* watched by a subscriber, with a restart, and one where two requests     *)
(* carry the same task ID.  They share nothing, so each behaviour looks at *)
(* one of them while the other stays as it begins.                         *)
(***************************************************************************)
EXTENDS TaskService

CONSTANTS t1, r1, r2, s1, nil

MCNil == nil
OneTask == {t1}
OneRequest == {r1}
OneSubscriber == {s1}
SameTask == [r \in Request |-> t1]
AllCalls == {"cleanup", "cancel", "signal"}

VARIABLE focus  \* the server this behaviour looks at

VARIABLES tasks2, eventChannels2, status2, progress2, buf2, closed2, cleaning2, cancelling2,
          handler2, stage2, step2, sendTo2, upload2, outputs2, sse2, sseTask2, sseChan2,
          lastEvent2, exit2, restarts2

shared == <<tasks2, eventChannels2, status2, progress2, buf2, closed2, cleaning2, cancelling2,
            handler2, stage2, step2, sendTo2, upload2, outputs2, sse2, sseTask2, sseChan2,
            lastEvent2, exit2, restarts2>>

Shared ==
  INSTANCE TaskService WITH
    Request <- {r1, r2}, TaskOf <- [r \in {r1, r2} |-> t1], Subscriber <- {}, Cap <- 1,
    MaxRestarts <- 0,
    tasks <- tasks2, eventChannels <- eventChannels2, status <- status2,
    progress <- progress2, buf <- buf2, closed <- closed2, cleaning <- cleaning2,
    cancelling <- cancelling2, handler <- handler2, stage <- stage2, step <- step2,
    sendTo <- sendTo2, upload <- upload2, outputs <- outputs2, sse <- sse2,
    sseTask <- sseTask2, sseChan <- sseChan2, lastEvent <- lastEvent2, exit <- exit2,
    restarts <- restarts2

-----------------------------------------------------------------------------
MCInit == focus \in {"one", "shared"} /\ Init /\ Shared!Init

MCNext ==
  /\ \/ focus = "one" /\ Next /\ UNCHANGED shared
     \/ focus = "shared" /\ Shared!Next /\ UNCHANGED vars
  /\ UNCHANGED focus

(* Nothing that the fairness is about is enabled in a server that nobody   *)
(* has called.                                                             *)
MCSpec == MCInit /\ [][MCNext]_<<focus, vars, shared>> /\ Fairness /\ Shared!Fairness

-----------------------------------------------------------------------------
(* A channel in the map of two requests has somebody who will close it.    *)
SharedChannelHasProducer == Shared!MappedChannelHasProducer

(* A task of two requests settles. *)
SharedTaskSettles == Shared!TaskSettles
=============================================================================
