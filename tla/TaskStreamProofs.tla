-------------------------- MODULE TaskStreamProofs --------------------------
(***************************************************************************)
(* Theorems about what a subscriber of a task receives, about panics that  *)
(* do not end the server, and about TaskService implementing TaskLifecycle, for any   *)
(* sets of tasks, requests and subscribers, when every task ID belongs to  *)
(* one request.                                                            *)
(***************************************************************************)
EXTENDS TaskServiceProofs

USE NilAssumption, TaskOfAssumption, CapAssumption, RestartsAssumption
USE DEF vars, mem, objects, mutex, worker, files, stream, process

(* The invariants TaskServiceProofs establishes together. *)
BaseInv == TypeInv /\ ChannelInv /\ OutcomeInv

(* They hold together when no two requests carry one ID. *)
LEMMA BaseInvariant ==
  ASSUME OneRequestPerTask
  PROVE  Spec => []BaseInv
<1>1. Init => ChannelInv /\ OutcomeInv
  BY DEF Init, ChannelInv, MappedChannelHasProducer, OutcomeInv, Settled, Closing
<1>2. TypeInv /\ ChannelInv /\ OutcomeInv /\ [Next]_vars => ChannelInv' /\ OutcomeInv'
  BY ChannelInductive, OutcomeInductive
<1>3. TypeInv /\ ChannelInv /\ OutcomeInv => BaseInv
  BY DEF BaseInv
<1> QED BY <1>1, <1>2, <1>3, TypeInvariant, PTL DEF Spec

-----------------------------------------------------------------------------
(* A goroutine that is under way has its channel in the map, where nobody  *)
(* but a cleanup closes it.                                                *)
SurvivalInv ==
  /\ cleaning # Nil => upload[cleaning] = "removed"
  /\ \A r \in Request :
       (handler[r] = "created" \/ Running(r)) /\ upload[TaskOf[r]] # "removed"
         => eventChannels[TaskOf[r]] = r
  /\ PanicsAreContained

(* Events grow towards the outcome: a channel holds at most one event of   *)
(* each stage that is over, and e precedes what a goroutine at statement   *)
(* sp of stage st still has to send.                                       *)
Before(st) ==
  CASE st = "start" -> 0 [] st = "validate" -> 1 [] st = "parse" -> 2
    [] st = "build" -> 3 [] st = "save" -> 4 [] OTHER -> 5

Sent(st, sp) == IF sp = "act" THEN Before(st) + 1 ELSE Before(st)

Precedes(e, st, sp) ==
  IF sp = "act" THEN EventRank(e) <= EventRank(st) ELSE EventRank(e) < EventRank(st)

QueueInv ==
  /\ \A r \in Request : stage[r] = "idle" => buf[r] = <<>>
  /\ \A r \in Request : Running(r) =>
       /\ Len(buf[r]) <= Sent(stage[r], step[r])
       /\ \A i \in 1..Len(buf[r]) : Precedes(buf[r][i], stage[r], step[r])
  /\ \A r \in Request : \A i, j \in 1..Len(buf[r]) :
       i < j => EventRank(buf[r][i]) < EventRank(buf[r][j])

ReaderInv ==
  /\ \A s \in Subscriber : sse[s] \in {"idle", "checked"} => lastEvent[s] = "none"
  /\ \A s \in Subscriber : sse[s] = "stream" =>
       /\ stage[sseChan[s]] = "idle" => lastEvent[s] = "none"
       /\ Running(sseChan[s]) =>
            Precedes(lastEvent[s], stage[sseChan[s]], step[sseChan[s]])
       /\ \A i \in 1..Len(buf[sseChan[s]]) :
            EventRank(lastEvent[s]) < EventRank(buf[sseChan[s]][i])

EventInv == QueueInv /\ ReaderInv

(* An outcome that was sent is the last event of its channel, or the       *)
(* subscriber's last.                                                      *)
OutcomeSent(r) ==
  \/ buf[r] # <<>> /\ buf[r][Len(buf[r])] \in Closing
  \/ \E s \in Subscriber : sseChan[s] = r /\ lastEvent[s] \in Closing

Over(r) == closed[r] \/ (stage[r] \in Closing /\ step[r] = "act")

EndInv ==
  /\ \A s \in Subscriber : sse[s] \in {"stream", "ended"} =>
       sseChan[s] \in Request /\ sseTask[s] = TaskOf[sseChan[s]]
  /\ \A r \in Request : upload[TaskOf[r]] # "removed" /\ Over(r) => OutcomeSent(r)
  /\ StreamEndsWithOutcome

-----------------------------------------------------------------------------
(* The facts every proof below starts from. *)
Facts ==
  /\ tasks \in [TaskID -> Request \cup {Nil}]
  /\ eventChannels \in [TaskID -> Request \cup {Nil}]
  /\ closed \in [Request -> BOOLEAN]
  /\ handler \in [Request -> {"new", "checked", "found", "created", "done"}]
  /\ stage \in [Request -> Stages \cup {"idle", "done"}]
  /\ step \in [Request -> {"none", "update", "lookup", "send", "act"}]
  /\ upload \in [TaskID -> {"none", "stored", "removed"}]
  /\ buf \in [Request -> Seq(Stages)]
  /\ cleaning \in TaskID \cup {Nil}
  /\ exit \in {"up", "signal", "exit in parse", "panic in recover"}
  /\ sse \in [Subscriber -> {"idle", "checked", "stream", "refused", "ended", "left"}]
  /\ sseTask \in [Subscriber -> TaskID \cup {Nil}]
  /\ sseChan \in [Subscriber -> Request \cup {Nil}]
  /\ lastEvent \in [Subscriber -> Stages \cup {"none"}]
  /\ sendTo \in [Request -> Request \cup {Nil}]
  /\ \A r \in Request : /\ TaskOf[r] \in TaskID
                        /\ tasks[TaskOf[r]] \in {Nil, r}
                        /\ eventChannels[TaskOf[r]] \in {Nil, r}
                        /\ step[r] = "send" => sendTo[r] = r
  /\ \A r, q \in Request : r # q => TaskOf[r] # TaskOf[q]
  /\ \A t \in TaskID :
       eventChannels[t] # Nil =>
         /\ eventChannels[t] \in Request /\ TaskOf[eventChannels[t]] = t
         /\ ~ closed[eventChannels[t]]
         /\ \/ handler[eventChannels[t]] = "created"
            \/ Running(eventChannels[t])
  /\ \A r \in Request :
       handler[r] \in {"new", "checked", "found", "created"} => stage[r] = "idle"

(* The facts about one state that the proofs below use. *)
LEMMA Base ==
  ASSUME OneRequestPerTask, BaseInv
  PROVE  Facts
<1> USE DEF BaseInv
<1>1. TypeOK /\ References
  BY DEF TypeInv
<1>0. /\ tasks \in [TaskID -> Request \cup {Nil}]
      /\ eventChannels \in [TaskID -> Request \cup {Nil}]
  BY <1>1 DEF TypeOK
<1>2. \A t \in TaskID :
        /\ tasks[t] # Nil => tasks[t] \in Request /\ TaskOf[tasks[t]] = t
        /\ eventChannels[t] # Nil => eventChannels[t] = tasks[t] /\ ~ closed[eventChannels[t]]
  BY <1>0 DEF ChannelInv, MappedChannelHasProducer
<1>3. \A r \in Request : /\ TaskOf[r] \in TaskID
                         /\ tasks[TaskOf[r]] \in {Nil, r}
                         /\ eventChannels[TaskOf[r]] \in {Nil, r}
  BY <1>0, <1>2 DEF OneRequestPerTask
<1>4. \A r \in Request : step[r] = "send" => sendTo[r] = r
  BY <1>1 DEF References, OutcomeInv
<1>5. \A r, q \in Request : r # q => TaskOf[r] # TaskOf[q]
  BY DEF OneRequestPerTask
<1>6. \A t \in TaskID :
        eventChannels[t] # Nil => \/ handler[eventChannels[t]] = "created"
                                  \/ Running(eventChannels[t])
  BY DEF ChannelInv, MappedChannelHasProducer
<1>7. \A r \in Request :
        handler[r] \in {"new", "checked", "found", "created"} => stage[r] = "idle"
  BY DEF OutcomeInv
<1> QED BY <1>1, <1>2, <1>3, <1>4, <1>5, <1>6, <1>7 DEF TypeOK, Facts

(* No step of the pipeline breaks SurvivalInv. *)
LEMMA SurvivalInductive ==
  ASSUME OneRequestPerTask
  PROVE  BaseInv /\ SurvivalInv /\ [Next]_vars => SurvivalInv'
<1> SUFFICES ASSUME BaseInv, SurvivalInv, [Next]_vars PROVE SurvivalInv'
  OBVIOUS
<1>a. Facts
  BY Base
<1>t. /\ eventChannels \in [TaskID -> Request \cup {Nil}]
      /\ handler \in [Request -> {"new", "checked", "found", "created", "done"}]
      /\ stage \in [Request -> Stages \cup {"idle", "done"}]
      /\ upload \in [TaskID -> {"none", "stored", "removed"}]
      /\ cleaning \in TaskID \cup {Nil}
      /\ \A r \in Request : TaskOf[r] \in TaskID /\ eventChannels[TaskOf[r]] \in {Nil, r}
      /\ \A r, q \in Request : r # q => TaskOf[r] # TaskOf[q]
      /\ \A r \in Request :
           handler[r] \in {"new", "checked", "found", "created"} => stage[r] = "idle"
  BY <1>a DEF Facts
<1> USE <1>t DEF SurvivalInv, PanicsAreContained
<1>1. ASSUME UNCHANGED <<cleaning, upload, eventChannels, exit, handler, stage>>
      PROVE  SurvivalInv'
  BY <1>1 DEF Running
<1>2. ASSUME NEW t \in TaskID, UploadFile(t) PROVE SurvivalInv'
  BY <1>2 DEF UploadFile, SaveUploadedFile, Running, Up
<1>3. ASSUME NEW t \in TaskID, CleanupBegin(t) PROVE SurvivalInv'
  BY <1>3 DEF CleanupBegin, Running
<1>4. ASSUME NEW t \in TaskID, CleanupEnd(t) PROVE SurvivalInv'
  BY <1>4 DEF CleanupEnd, CloseChannel, Running
<1>5. ASSUME NEW r \in Request, CheckTask(r) \/ CheckUpload(r) PROVE SurvivalInv'
  BY <1>5 DEF CheckTask, CheckUpload, GetUploadedFilePath, Running
<1>6. ASSUME NEW r \in Request, CreateTask(r) PROVE SurvivalInv'
  BY <1>6 DEF CreateTask, Running
<1>7. ASSUME NEW r \in Request, StartConversion(r) PROVE SurvivalInv'
  BY <1>7 DEF StartConversion, Goto, Running, Stages
<1>8. ASSUME NEW r \in Request, Running(r), \A q \in Request : q # r => stage'[q] = stage[q],
             UNCHANGED <<cleaning, upload, eventChannels, exit, handler>>
      PROVE  SurvivalInv'
  BY <1>8 DEF Running
<1>9. ASSUME NEW r \in Request,
             \/ UpdateStatus(r) \/ LookupChannel(r) \/ SendEvent(r) \/ SendOnClosed(r)
             \/ PanicInCall(r) \/ FindUpload(r) \/ Validate(r) \/ ParseText(r)
             \/ BuildBook(r) \/ SaveFiles(r)
      PROVE  SurvivalInv'
  BY <1>8, <1>9 DEF UpdateStatus, LookupChannel, SendEvent, SendOnClosed, PanicInCall, Panic,
                    FindUpload, Validate, ParseText, BuildBook, SaveFiles, Advance,
                    Goto, Running, Stages
<1>10. ASSUME NEW r \in Request, Finish(r) PROVE SurvivalInv'
  BY <1>10 DEF Finish, CloseChannel, Goto, Running, Stages, Closing
<1>11. ASSUME NEW why, Die(why),
              why # "panic in recover" \/ \E t \in TaskID : upload[t] = "removed"
       PROVE  SurvivalInv'
  BY <1>11 DEF Die, Running, Stages
<1>12. ASSUME NEW r \in Request, ExitInParse(r) PROVE SurvivalInv'
  BY <1>11, <1>12 DEF ExitInParse
<1>13. ASSUME NEW r \in Request, PanicInRecover(r) PROVE SurvivalInv'
  <2>1. Running(r) /\ step[r] = "send" /\ closed[sendTo[r]]
    <3>1. stage[r] = "recover" /\ step[r] = "send" /\ closed[sendTo[r]]
      BY <1>13 DEF PanicInRecover
    <3> QED BY ONLY <3>1 DEF Running, Stages
  <2>2. closed[r]
    <3>1. \A q \in Request : Running(q) /\ step[q] = "send" => sendTo[q] = q
      BY <1>a DEF Facts
    <3> QED BY ONLY <2>1, <3>1, r \in Request
  <2>3. eventChannels[TaskOf[r]] # r
    <3>1. \A t \in TaskID : eventChannels[t] # Nil => ~ closed[eventChannels[t]]
      BY <1>a DEF Facts
    <3>2. TaskOf[r] \in TaskID /\ r # Nil
      BY <1>t
    <3> QED BY ONLY <2>2, <3>1, <3>2
  <2>4. upload[TaskOf[r]] = "removed"
    BY <2>1, <2>3
  <2> QED BY <1>11, <1>13, <2>4 DEF PanicInRecover
<1>14. CASE Signal
  BY <1>11, <1>14 DEF Signal
<1>15. CASE Restart
  BY <1>15 DEF Restart, Running
<1>16. ASSUME NEW t \in TaskID, CancelTask(t) PROVE SurvivalInv'
  BY <1>1, <1>16 DEF CancelTask
<1>17. ASSUME NEW s \in Subscriber,
              \/ \E t \in TaskID : SseCheck(s, t)
              \/ SseOpen(s) \/ SseReceive(s) \/ SseEnd(s) \/ SseDisconnect(s)
       PROVE  SurvivalInv'
  BY <1>1, <1>17 DEF SseCheck, SseOpen, SseReceive, SseEnd, SseDisconnect
<1>18. CASE UNCHANGED vars
  BY <1>1, <1>18
<1> QED BY <1>2, <1>3, <1>4, <1>5, <1>6, <1>7, <1>9, <1>10, <1>12, <1>13, <1>14, <1>15,
           <1>16, <1>17, <1>18 DEF Next, ConvertHandler, Goroutine

(* The invariant behind NoPanicEndsServer. *)
LEMMA SurvivalInvariant ==
  ASSUME OneRequestPerTask
  PROVE  Spec => []SurvivalInv
<1>1. Init => SurvivalInv
  BY DEF Init, SurvivalInv, PanicsAreContained, Running, Stages
<1> QED BY <1>1, BaseInvariant, SurvivalInductive, PTL DEF Spec

(* Whatever panics in conversions, no panic ends the server as long as no  *)
(* task is cleaned up.  The parser's os.Exit is outside of this statement. *)
THEOREM NoPanicEndsServer ==
  ASSUME OneRequestPerTask
  PROVE  Spec => []PanicsAreContained
<1>1. SurvivalInv => PanicsAreContained
  BY DEF SurvivalInv
<1> QED BY <1>1, SurvivalInvariant, PTL

-----------------------------------------------------------------------------
(* What is queued or was received before a step is still in order after it. *)
Forward(st, sp, st2, sp2) ==
  /\ Sent(st, sp) <= Sent(st2, sp2)
  /\ \A e \in Stages \cup {"none"} : Precedes(e, st, sp) => Precedes(e, st2, sp2)

(* The ranks of events are numbers, and those that close come last. *)
LEMMA StageRanks ==
  /\ \A e \in Stages \cup {"none"} : EventRank(e) \in Nat
  /\ \A e \in Stages : EventRank("none") < EventRank(e)
  /\ \A e \in Stages : EventRank(e) <= EventRank("recover") /\ Before(e) \in 0..5
  /\ \A e \in Closing : \A f \in Stages : EventRank(e) < EventRank(f) => f \in Closing
BY DEF Stages, EventRank, StageProgress, Before, Closing

(* A stage is followed by one of higher rank. *)
LEMMA StagesInOrder ==
  ASSUME NEW from \in Stages, NEW to \in Stages,
         \/ from = "start" /\ to \in {"validate", "fail"}
         \/ from = "validate" /\ to \in {"parse", "fail", "recover"}
         \/ from = "parse" /\ to \in {"build", "fail"}
         \/ from = "build" /\ to \in {"save", "fail", "recover"}
         \/ from = "save" /\ to \in {"finish", "fail"}
  PROVE  EventRank(from) < EventRank(to) /\ Before(from) + 1 <= Before(to)
BY DEF EventRank, StageProgress, Before, Closing

(* From one stage to the next, and into the recovery. *)
LEMMA ForwardStages ==
  ASSUME NEW from \in Stages, NEW to \in Stages,
         EventRank(from) < EventRank(to) /\ Before(from) + 1 <= Before(to)
  PROVE  Forward(from, "act", to, "update")
BY StageRanks DEF Forward, Sent, Precedes

(* The statements of a stage follow each other. *)
LEMMA ForwardSteps ==
  ASSUME NEW st \in Stages
  PROVE  /\ Forward(st, "update", st, "lookup")
         /\ Forward(st, "lookup", st, "send")
         /\ Forward(st, "lookup", st, "act")
         /\ Forward(st, "send", st, "act")
         /\ Forward(st, "send", "recover", "update")
<1>1. EventRank(st) \in Nat /\ EventRank("recover") \in Nat /\ EventRank(st) <= EventRank("recover")
  BY StageRanks DEF Stages
<1>2. Before(st) \in 0..5 /\ Before("recover") = 5
  BY StageRanks DEF Before
<1>3. \A e \in Stages \cup {"none"} : EventRank(e) \in Nat
  BY StageRanks
<1> QED BY <1>1, <1>2, <1>3 DEF Forward, Sent, Precedes

(* At most six events have been sent at any place. *)
LEMMA SentIsNat ==
  ASSUME NEW st \in Stages, NEW sp
  PROVE  Sent(st, sp) \in 0..6
BY StageRanks DEF Sent

(* The types the order of events depends on. *)
EventTypes ==
  /\ stage \in [Request -> Stages \cup {"idle", "done"}]
  /\ step \in [Request -> {"none", "update", "lookup", "send", "act"}]
  /\ buf \in [Request -> Seq(Stages)]
  /\ sse \in [Subscriber -> {"idle", "checked", "stream", "refused", "ended", "left"}]
  /\ sseChan \in [Subscriber -> Request \cup {Nil}]
  /\ lastEvent \in [Subscriber -> Stages \cup {"none"}]
  /\ \A s \in Subscriber : sse[s] = "stream" => sseChan[s] \in Request

(* A goroutine moves on without sending. *)
LEMMA ForwardKeepsOrder ==
  ASSUME EventTypes, EventInv, NEW r \in Request, NEW st \in Stages, NEW sp,
         Running(r), Forward(stage[r], step[r], st, sp),
         stage' = [stage EXCEPT ![r] = st], step' = [step EXCEPT ![r] = sp],
         UNCHANGED <<buf, sse, sseChan, lastEvent>>
  PROVE  EventInv'
<1> USE DEF EventTypes
<1>1. stage'[r] = st /\ step'[r] = sp /\ st # "idle"
  BY DEF Stages
<1>2. \A q \in Request : q # r => stage'[q] = stage[q] /\ step'[q] = step[q]
  OBVIOUS
<1>e. \A e \in Stages \cup {"none"} : Precedes(e, stage[r], step[r]) => Precedes(e, st, sp)
  BY DEF Forward
<1>3. QueueInv'
  <2>1. \A q \in Request : stage'[q] = "idle" => buf'[q] = <<>>
    BY <1>1, <1>2 DEF EventInv, QueueInv
  <2>2. ASSUME NEW q \in Request, stage'[q] \in Stages
        PROVE  /\ Len(buf[q]) <= Sent(stage'[q], step'[q])
               /\ \A i \in 1..Len(buf[q]) : Precedes(buf[q][i], stage'[q], step'[q])
    <3>1. CASE q # r
      BY <1>2, <2>2, <3>1 DEF EventInv, QueueInv, Running
    <3>2. CASE q = r
      <4>1. Len(buf[r]) <= Sent(stage[r], step[r]) /\ Sent(stage[r], step[r]) <= Sent(st, sp)
        BY DEF EventInv, QueueInv, Forward
      <4>2. Sent(stage[r], step[r]) \in Nat /\ Sent(st, sp) \in Nat /\ Len(buf[r]) \in Nat
        <5>1. Sent(stage[r], step[r]) \in 0..6
          BY SentIsNat DEF Running
        <5>2. Sent(st, sp) \in 0..6
          BY SentIsNat
        <5>3. Len(buf[r]) \in Nat
          OBVIOUS
        <5> QED BY ONLY <5>1, <5>2, <5>3
      <4>3. \A i \in 1..Len(buf[r]) : Precedes(buf[r][i], stage[r], step[r])
        BY DEF EventInv, QueueInv
      <4>4. \A i \in 1..Len(buf[r]) : buf[r][i] \in Stages
        OBVIOUS
      <4> QED BY <1>1, <1>e, <3>2, <4>1, <4>2, <4>3, <4>4
    <3> QED BY <3>1, <3>2
  <2>3. \A q \in Request : \A i, j \in 1..Len(buf[q]) :
          i < j => EventRank(buf[q][i]) < EventRank(buf[q][j])
    BY DEF EventInv, QueueInv
  <2> QED BY <2>1, <2>2, <2>3 DEF QueueInv, Running
<1>4. ReaderInv'
  <2>1. ASSUME NEW s \in Subscriber, sse[s] = "stream"
        PROVE  /\ stage'[sseChan[s]] = "idle" => lastEvent[s] = "none"
               /\ stage'[sseChan[s]] \in Stages =>
                    Precedes(lastEvent[s], stage'[sseChan[s]], step'[sseChan[s]])
    <3>1. sseChan[s] \in Request /\ lastEvent[s] \in Stages \cup {"none"}
      BY <2>1
    <3>2. CASE sseChan[s] = r
      BY <1>1, <1>e, <2>1, <3>1, <3>2 DEF EventInv, ReaderInv
    <3>3. CASE sseChan[s] # r
      BY <1>2, <2>1, <3>1, <3>3 DEF EventInv, ReaderInv, Running
    <3> QED BY <3>2, <3>3
  <2> QED BY <2>1 DEF EventInv, ReaderInv, Running
<1> QED BY <1>3, <1>4 DEF EventInv

(* Receiving takes the first of a channel's events. *)
LEMMA TailIndex ==
  ASSUME NEW S, NEW q \in Seq(S), q # <<>>
  PROVE  /\ Len(q) \in Nat \ {0} /\ Len(Tail(q)) = Len(q) - 1
         /\ Head(q) = q[1]
         /\ \A i \in 1..(Len(q) - 1) : Tail(q)[i] = q[i + 1]
OBVIOUS

(* A goroutine queues the event of its stage, unless the channel is full. *)
LEMMA SendKeepsOrder ==
  ASSUME EventTypes, EventInv, NEW r \in Request, NEW st \in Stages,
         stage[r] = st, step[r] = "send",
         buf' = buf \/ buf' = [buf EXCEPT ![r] = Append(@, st)],
         stage' = stage, step' = [step EXCEPT ![r] = "act"],
         UNCHANGED <<sse, sseChan, lastEvent>>
  PROVE  EventInv'
<1> USE DEF EventTypes
<1>1. CASE buf' = buf
  <2>1. Forward(stage[r], step[r], st, "act")
    BY ForwardSteps
  <2>2. stage' = [stage EXCEPT ![r] = st] /\ Running(r)
    BY DEF Running
  <2> QED BY <1>1, <2>1, <2>2, ForwardKeepsOrder
<1>2. CASE buf' = [buf EXCEPT ![r] = Append(@, st)]
  <2> DEFINE n == Len(buf[r])
  <2>1. /\ n \in Nat /\ buf'[r] = Append(buf[r], st) /\ Len(buf'[r]) = n + 1
        /\ buf'[r][n + 1] = st
        /\ \A i \in 1..n : buf'[r][i] = buf[r][i] /\ buf[r][i] \in Stages
    BY <1>2
  <2>2. \A q \in Request : q # r => buf'[q] = buf[q] /\ step'[q] = step[q]
    BY <1>2
  <2>3. step'[r] = "act" /\ st # "idle"
    BY DEF Stages
  <2>4. n <= Before(st) /\ \A i \in 1..n : EventRank(buf[r][i]) < EventRank(st)
    BY DEF EventInv, QueueInv, Running, Sent, Precedes
  <2>5. Before(st) \in 0..5 /\ EventRank(st) \in Nat
        /\ \A e \in Stages \cup {"none"} : EventRank(e) \in Nat
    BY StageRanks
  <2> HIDE DEF n
  <2>6. QueueInv'
    <3>1. \A q \in Request : stage'[q] = "idle" => buf'[q] = <<>>
      BY <2>2, <2>3 DEF EventInv, QueueInv
    <3>2. ASSUME NEW q \in Request, stage'[q] \in Stages
          PROVE  /\ Len(buf'[q]) <= Sent(stage'[q], step'[q])
                 /\ \A i \in 1..Len(buf'[q]) : Precedes(buf'[q][i], stage'[q], step'[q])
      <4>1. CASE q # r
        BY <2>2, <3>2, <4>1 DEF EventInv, QueueInv, Running
      <4>2. CASE q = r
        <5>1. Sent(stage'[q], step'[q]) = Before(st) + 1
          BY <2>3, <4>2 DEF Sent
        <5>2. \A i \in 1..(n + 1) : EventRank(buf'[r][i]) <= EventRank(st)
          <6>1. \A i \in 1..n : buf'[r][i] \in Stages /\ EventRank(buf'[r][i]) < EventRank(st)
            BY <2>1, <2>4
          <6>2. \A i \in 1..n : EventRank(buf'[r][i]) \in Nat
            BY <2>5, <6>1
          <6>3. \A i \in 1..(n + 1) : i \in 1..n \/ i = n + 1
            BY <2>1
          <6> QED BY <2>1, <2>5, <6>1, <6>2, <6>3
        <5>3. n + 1 <= Before(st) + 1
          BY <2>1, <2>4, <2>5
        <5> QED BY <2>1, <2>3, <4>2, <5>1, <5>2, <5>3 DEF Precedes
      <4> QED BY <4>1, <4>2
    <3>3. ASSUME NEW q \in Request, NEW i \in 1..Len(buf'[q]), NEW j \in 1..Len(buf'[q]), i < j
          PROVE  EventRank(buf'[q][i]) < EventRank(buf'[q][j])
      <4>1. CASE q # r
        BY <2>2, <3>3, <4>1 DEF EventInv, QueueInv
      <4>2. CASE q = r /\ j = n + 1
        <5>1. i \in 1..n
          BY <2>1, <3>3, <4>2
        <5> QED BY <2>1, <2>4, <4>2, <5>1
      <4>3. CASE q = r /\ j # n + 1
        <5>1. i \in 1..n /\ j \in 1..n
          BY <2>1, <3>3, <4>3
        <5>2. EventRank(buf[r][i]) < EventRank(buf[r][j])
          BY <3>3, <5>1 DEF EventInv, QueueInv, n
        <5> QED BY <2>1, <4>3, <5>1, <5>2
      <4> QED BY <4>1, <4>2, <4>3
    <3> QED BY <3>1, <3>2, <3>3 DEF QueueInv, Running
  <2>7. ReaderInv'
    <3>1. ASSUME NEW s \in Subscriber, sse[s] = "stream"
          PROVE  /\ stage[sseChan[s]] = "idle" => lastEvent[s] = "none"
                 /\ stage[sseChan[s]] \in Stages =>
                      Precedes(lastEvent[s], stage[sseChan[s]], step'[sseChan[s]])
                 /\ \A i \in 1..Len(buf'[sseChan[s]]) :
                      EventRank(lastEvent[s]) < EventRank(buf'[sseChan[s]][i])
      <4>1. sseChan[s] \in Request /\ EventRank(lastEvent[s]) \in Nat
        BY <2>5, <3>1
      <4>2. CASE sseChan[s] # r
        BY <2>2, <3>1, <4>1, <4>2 DEF EventInv, ReaderInv, Running
      <4>3. CASE sseChan[s] = r
        <5>1. EventRank(lastEvent[s]) < EventRank(st)
          BY <3>1, <4>3 DEF EventInv, ReaderInv, Running, Precedes
        <5>2. \A i \in 1..n : EventRank(lastEvent[s]) < EventRank(buf[r][i])
          BY <3>1, <4>3 DEF EventInv, ReaderInv, n
        <5>3. \A i \in 1..(n + 1) : EventRank(lastEvent[s]) < EventRank(buf'[r][i])
          BY <2>1, <5>1, <5>2
        <5>4. EventRank(lastEvent[s]) <= EventRank(st)
          BY <2>5, <4>1, <5>1
        <5> QED BY <2>1, <2>3, <4>3, <5>3, <5>4 DEF Precedes
      <4> QED BY <4>2, <4>3
    <3> QED BY <3>1 DEF EventInv, ReaderInv, Running
  <2> QED BY <2>6, <2>7 DEF EventInv
<1> QED BY <1>1, <1>2

(* A subscriber receives the oldest event. *)
LEMMA ReceiveKeepsOrder ==
  ASSUME EventTypes, EventInv, NEW s \in Subscriber, NEW r \in Request,
         sse[s] = "stream", sseChan[s] = r, buf[r] # <<>>,
         lastEvent' = [lastEvent EXCEPT ![s] = Head(buf[r])],
         buf' = [buf EXCEPT ![r] = Tail(@)],
         UNCHANGED <<stage, step, sse, sseChan>>
  PROVE  EventInv' /\ EventRank(lastEvent'[s]) > EventRank(lastEvent[s])
<1> USE DEF EventTypes
<1> DEFINE n == Len(buf[r])
<1>1. /\ n \in Nat \ {0} /\ Len(buf'[r]) = n - 1
      /\ lastEvent'[s] = buf[r][1]
      /\ \A i \in 1..(n - 1) : buf'[r][i] = buf[r][i + 1]
  BY TailIndex
<1>2. /\ \A q \in Request : q # r => buf'[q] = buf[q]
      /\ \A u \in Subscriber : u # s => lastEvent'[u] = lastEvent[u]
  OBVIOUS
<1>3. \A i \in 1..n : buf[r][i] \in Stages
  OBVIOUS
<1>4. \A i, j \in 1..n : i < j => EventRank(buf[r][i]) < EventRank(buf[r][j])
  BY DEF EventInv, QueueInv
<1>5. \A e \in Stages \cup {"none"} : EventRank(e) \in Nat
  BY StageRanks
<1>6. EventRank(lastEvent'[s]) > EventRank(lastEvent[s])
  <2>1. EventRank(lastEvent[s]) < EventRank(buf[r][1])
    <3>1. 1 \in 1..Len(buf[r])
      BY <1>1
    <3> QED BY <3>1 DEF EventInv, ReaderInv
  <2>2. EventRank(lastEvent[s]) \in Nat /\ EventRank(buf[r][1]) \in Nat
    <3>1. buf[r][1] \in Stages /\ lastEvent[s] \in Stages \cup {"none"}
      BY <1>1, <1>3
    <3> QED BY <1>5, <3>1
  <2> QED BY <1>1, <2>1, <2>2
<1>7. stage[r] # "idle"
  BY DEF EventInv, QueueInv
<1> HIDE DEF n
<1>8. QueueInv'
  <2>1. \A q \in Request : stage[q] = "idle" => buf'[q] = <<>>
    BY <1>2, <1>7 DEF EventInv, QueueInv
  <2>2. ASSUME NEW q \in Request, stage[q] \in Stages
        PROVE  /\ Len(buf'[q]) <= Sent(stage[q], step[q])
               /\ \A i \in 1..Len(buf'[q]) : Precedes(buf'[q][i], stage[q], step[q])
    <3>1. CASE q # r
      BY <1>2, <2>2, <3>1 DEF EventInv, QueueInv, Running
    <3>2. CASE q = r
      <4>1. n <= Sent(stage[r], step[r])
            /\ \A i \in 1..n : Precedes(buf[r][i], stage[r], step[r])
        BY <2>2, <3>2 DEF EventInv, QueueInv, Running, n
      <4>2. Sent(stage[r], step[r]) \in 0..6
        BY <2>2, <3>2, SentIsNat
      <4>3. n - 1 <= Sent(stage[r], step[r])
        BY <1>1, <4>1, <4>2
      <4>4. \A i \in 1..(n - 1) : i + 1 \in 1..n
        BY <1>1
      <4>5. \A i \in 1..(n - 1) : Precedes(buf'[r][i], stage[r], step[r])
        BY <1>1, <4>1, <4>4
      <4> QED BY <1>1, <3>2, <4>3, <4>5
    <3> QED BY <3>1, <3>2
  <2>3. ASSUME NEW q \in Request, NEW i \in 1..Len(buf'[q]), NEW j \in 1..Len(buf'[q]), i < j
        PROVE  EventRank(buf'[q][i]) < EventRank(buf'[q][j])
    <3>1. CASE q # r
      BY <1>2, <2>3, <3>1 DEF EventInv, QueueInv
    <3>2. CASE q = r
      <4>1. i + 1 \in 1..n /\ j + 1 \in 1..n /\ i + 1 < j + 1
        BY <1>1, <2>3, <3>2
      <4>2. buf'[q][i] = buf[r][i + 1] /\ buf'[q][j] = buf[r][j + 1]
        BY <1>1, <2>3, <3>2
      <4> QED BY <1>4, <4>1, <4>2
    <3> QED BY <3>1, <3>2
  <2> QED BY <2>1, <2>2, <2>3 DEF QueueInv, Running
<1>9. ReaderInv'
  <2>1. ASSUME NEW u \in Subscriber, sse[u] = "stream"
        PROVE  /\ stage[sseChan[u]] = "idle" => lastEvent'[u] = "none"
               /\ stage[sseChan[u]] \in Stages =>
                    Precedes(lastEvent'[u], stage[sseChan[u]], step[sseChan[u]])
               /\ \A i \in 1..Len(buf'[sseChan[u]]) :
                    EventRank(lastEvent'[u]) < EventRank(buf'[sseChan[u]][i])
    <3>1. CASE u = s
      <4>1. \A i \in 1..(n - 1) : EventRank(buf[r][1]) < EventRank(buf'[r][i])
        <5>1. \A i \in 1..(n - 1) : i + 1 \in 1..n /\ 1 < i + 1 /\ 1 \in 1..n
          BY <1>1
        <5> QED BY <1>1, <1>4, <5>1
      <4>2. stage[r] \in Stages => Precedes(buf[r][1], stage[r], step[r])
        <5>1. 1 \in 1..Len(buf[r])
          BY <1>1 DEF n
        <5> QED BY <5>1 DEF EventInv, QueueInv, Running
      <4> QED BY <1>1, <1>7, <3>1, <4>1, <4>2
    <3>2. CASE u # s /\ sseChan[u] # r
      BY <1>2, <2>1, <3>2 DEF EventInv, ReaderInv, Running
    <3>3. CASE u # s /\ sseChan[u] = r
      <4>1. \A i \in 1..n : EventRank(lastEvent[u]) < EventRank(buf[r][i])
        BY <2>1, <3>3 DEF EventInv, ReaderInv, n
      <4>2. \A i \in 1..(n - 1) : EventRank(lastEvent[u]) < EventRank(buf'[r][i])
        <5>1. \A i \in 1..(n - 1) : i + 1 \in 1..n
          BY <1>1
        <5> QED BY <1>1, <4>1, <5>1
      <4> QED BY <1>1, <1>2, <1>7, <2>1, <3>3, <4>2 DEF EventInv, ReaderInv, Running
    <3> QED BY <3>1, <3>2, <3>3
  <2>2. \A u \in Subscriber : sse[u] \in {"idle", "checked"} => lastEvent'[u] = "none"
    BY <1>2 DEF EventInv, ReaderInv
  <2> QED BY <2>1, <2>2 DEF ReaderInv, Running
<1> QED BY <1>6, <1>8, <1>9 DEF EventInv

(* A subscriber receives something that comes after all it has received. *)
LEMMA SseReceiveKeepsOrder ==
  ASSUME EventTypes, EventInv, NEW s \in Subscriber, SseReceive(s)
  PROVE  EventInv' /\ EventRank(lastEvent'[s]) > EventRank(lastEvent[s])
<1>1. /\ sseChan[s] \in Request /\ sse[s] = "stream" /\ buf[sseChan[s]] # <<>>
      /\ lastEvent' = [lastEvent EXCEPT ![s] = Head(buf[sseChan[s]])]
      /\ buf' = [buf EXCEPT ![sseChan[s]] = Tail(@)]
      /\ UNCHANGED <<stage, step, sse, sseChan>>
  BY DEF SseReceive, EventTypes
<1> QED BY <1>1, ReceiveKeepsOrder

(* Every step keeps the order of the events. *)
LEMMA EventInductive ==
  ASSUME OneRequestPerTask
  PROVE  BaseInv /\ EventInv /\ [Next]_vars => EventInv'
<1> SUFFICES ASSUME BaseInv, EventInv, [Next]_vars PROVE EventInv'
  OBVIOUS
<1>a. Facts
  BY Base
<1>t. EventTypes
  <2>1. \A s \in Subscriber : sse[s] = "stream" => sseChan[s] \in Request
    BY DEF BaseInv, TypeInv, References
  <2> QED BY <1>a, <2>1 DEF Facts, EventTypes
<1>1. ASSUME UNCHANGED <<stage, step, buf, sse, sseChan, lastEvent>>
      PROVE  EventInv'
  BY <1>1 DEF EventInv, QueueInv, ReaderInv, Running
<1>2. ASSUME NEW r \in Request, NEW st \in Stages, NEW sp,
             Running(r), Forward(stage[r], step[r], st, sp), Goto(r, st, sp),
             UNCHANGED <<buf, stream>>
      PROVE  EventInv'
  BY <1>t, <1>2, ForwardKeepsOrder DEF Goto
<1>3. ASSUME NEW r \in Request, UpdateStatus(r) \/ LookupChannel(r) PROVE EventInv'
  <2>1. Running(r) /\ stage[r] \in Stages
    BY <1>3 DEF UpdateStatus, LookupChannel, Running
  <2>2. UNCHANGED <<buf, stream>>
    BY <1>3 DEF UpdateStatus, LookupChannel
  <2>3. \/ step[r] = "update" /\ Goto(r, stage[r], "lookup")
        \/ step[r] = "lookup" /\ (Goto(r, stage[r], "send") \/ Goto(r, stage[r], "act"))
    BY <1>3 DEF UpdateStatus, LookupChannel
  <2>4. /\ Forward(stage[r], "update", stage[r], "lookup")
        /\ Forward(stage[r], "lookup", stage[r], "send")
        /\ Forward(stage[r], "lookup", stage[r], "act")
    BY <2>1, ForwardSteps
  <2>5. CASE step[r] = "update" /\ Goto(r, stage[r], "lookup")
    BY <1>2, <2>1, <2>2, <2>4, <2>5
  <2>6. CASE step[r] = "lookup" /\ Goto(r, stage[r], "send")
    BY <1>2, <2>1, <2>2, <2>4, <2>6
  <2>7. CASE step[r] = "lookup" /\ Goto(r, stage[r], "act")
    BY <1>2, <2>1, <2>2, <2>4, <2>7
  <2> QED BY <2>3, <2>5, <2>6, <2>7
<1>4. ASSUME NEW r \in Request, SendEvent(r) PROVE EventInv'
  <2>1. stage[r] \in Stages /\ step[r] = "send" /\ sendTo[r] = r
    BY <1>4, <1>a DEF SendEvent, Running, Facts
  <2>2. /\ buf' = buf \/ buf' = [buf EXCEPT ![r] = Append(@, stage[r])]
        /\ step' = [step EXCEPT ![r] = "act"]
        /\ UNCHANGED <<sse, sseChan, lastEvent>>
    BY <1>4, <2>1 DEF SendEvent, Goto
  <2>3. stage' = stage
    BY <1>4, <1>t DEF SendEvent, Goto, EventTypes
  <2> QED BY <1>t, <2>1, <2>2, <2>3, SendKeepsOrder
<1>5. ASSUME NEW r \in Request, SendOnClosed(r) PROVE EventInv'
  <2>1. stage[r] \in Stages /\ Running(r) /\ step[r] = "send"
        /\ Goto(r, "recover", "update") /\ UNCHANGED <<buf, stream>>
    BY <1>5 DEF SendOnClosed, Panic, Running
  <2>2. Forward(stage[r], step[r], "recover", "update") /\ "recover" \in Stages
    BY <2>1, ForwardSteps DEF Stages
  <2> QED BY <1>2, <2>1, <2>2
<1>6. ASSUME NEW r \in Request, NEW from \in Stages, NEW to \in Stages,
             EventRank(from) < EventRank(to) /\ Before(from) + 1 <= Before(to),
             stage[r] = from, step[r] = "act", Goto(r, to, "update"), UNCHANGED <<buf, stream>>
      PROVE  EventInv'
  <2>1. Forward(from, "act", to, "update")
    BY <1>6, ForwardStages
  <2> QED BY <1>2, <1>6, <2>1 DEF Running
<1>7. ASSUME NEW r \in Request,
             \/ FindUpload(r) \/ Validate(r) \/ ParseText(r) \/ BuildBook(r) \/ SaveFiles(r)
             \/ PanicInCall(r)
      PROVE  EventInv'
  <2>1. UNCHANGED <<buf, stream>> /\ step[r] = "act"
    BY <1>7 DEF FindUpload, Validate, ParseText, BuildBook, SaveFiles, Advance, PanicInCall
  <2>2. PICK to \in Stages :
          /\ Goto(r, to, "update")
          /\ stage[r] \in Stages
          /\ \/ stage[r] = "start" /\ to \in {"validate", "fail"}
             \/ stage[r] = "validate" /\ to \in {"parse", "fail", "recover"}
             \/ stage[r] = "parse" /\ to \in {"build", "fail"}
             \/ stage[r] = "build" /\ to \in {"save", "fail", "recover"}
             \/ stage[r] = "save" /\ to \in {"finish", "fail"}
    BY <1>7 DEF FindUpload, Validate, ParseText, BuildBook, SaveFiles, Advance, PanicInCall,
                Panic, Stages
  <2>3. EventRank(stage[r]) < EventRank(to) /\ Before(stage[r]) + 1 <= Before(to)
    BY <2>2, StagesInOrder
  <2> QED BY <1>6, <2>1, <2>2, <2>3
<1>8. ASSUME NEW r \in Request, StartConversion(r) PROVE EventInv'
  <2>1. CASE UNCHANGED <<stage, step>>
    BY <1>1, <1>8, <2>1 DEF StartConversion
  <2>2. CASE Goto(r, "start", "update")
    <3>1. stage[r] = "idle" /\ buf[r] = <<>> /\ UNCHANGED <<buf, stream>>
      BY <1>8, <1>a DEF StartConversion, Facts, EventInv, QueueInv
    <3>2. stage'[r] = "start" /\ step'[r] = "update" /\ "start" \in Stages
          /\ \A q \in Request : q # r => stage'[q] = stage[q] /\ step'[q] = step[q]
      BY <1>t, <2>2 DEF Goto, EventTypes, Stages
    <3>3. Sent("start", "update") = 0 /\ Precedes("none", "start", "update")
      BY StageRanks DEF Sent, Before, Precedes, Stages
    <3>4. QueueInv'
      <4>1. Len(buf[r]) = 0
        BY <3>1
      <4>2. ASSUME NEW q \in Request, q # r
            PROVE  /\ stage'[q] = "idle" => buf[q] = <<>>
                   /\ stage'[q] \in Stages =>
                        /\ Len(buf[q]) <= Sent(stage'[q], step'[q])
                        /\ \A i \in 1..Len(buf[q]) : Precedes(buf[q][i], stage'[q], step'[q])
        BY <3>2, <4>2 DEF EventInv, QueueInv, Running
      <4>3. /\ stage'[r] # "idle" /\ Len(buf[r]) <= Sent(stage'[r], step'[r])
            /\ \A i \in 1..Len(buf[r]) : Precedes(buf[r][i], stage'[r], step'[r])
        BY <3>2, <3>3, <4>1
      <4>4. \A q \in Request : \A i, j \in 1..Len(buf[q]) :
              i < j => EventRank(buf[q][i]) < EventRank(buf[q][j])
        BY DEF EventInv, QueueInv
      <4> QED BY <3>1, <4>2, <4>3, <4>4 DEF QueueInv, Running
    <3>5. ReaderInv'
      <4>1. ASSUME NEW s \in Subscriber, sse[s] = "stream"
            PROVE  /\ stage'[sseChan[s]] = "idle" => lastEvent[s] = "none"
                   /\ stage'[sseChan[s]] \in Stages =>
                        Precedes(lastEvent[s], stage'[sseChan[s]], step'[sseChan[s]])
        <5>1. sseChan[s] \in Request
          BY <1>t, <4>1 DEF EventTypes
        <5>2. CASE sseChan[s] = r
          <6>1. lastEvent[s] = "none"
            BY <3>1, <4>1, <5>2 DEF EventInv, ReaderInv
          <6> QED BY <3>2, <3>3, <5>2, <6>1
        <5>3. CASE sseChan[s] # r
          BY <3>2, <4>1, <5>1, <5>3 DEF EventInv, ReaderInv, Running
        <5> QED BY <5>2, <5>3
      <4> QED BY <3>1, <4>1 DEF EventInv, ReaderInv, Running
    <3> QED BY <3>1, <3>4, <3>5 DEF EventInv
  <2> QED BY <1>8, <2>1, <2>2 DEF StartConversion
<1>9. ASSUME \A r \in Request : \/ stage'[r] = stage[r] /\ step'[r] = step[r]
                                \/ stage'[r] = "done"
                                \/ stage'[r] = "idle" /\ stage[r] = "idle",
             \A s \in Subscriber : sse'[s] = "stream" => sse[s] = "stream",
             \A s \in Subscriber : sse'[s] \in {"idle", "checked"} => sse[s] \in {"idle", "checked"},
             UNCHANGED <<buf, sseChan, lastEvent>>
      PROVE  EventInv'
  <2>1. QueueInv'
    BY <1>9 DEF EventInv, QueueInv, Running, Stages
  <2>2. ReaderInv'
    BY <1>9, <1>t DEF EventInv, ReaderInv, Running, Stages, EventTypes
  <2> QED BY <1>9, <2>1, <2>2 DEF EventInv
<1>10. ASSUME NEW r \in Request, Finish(r) PROVE EventInv'
  <2>1. \A q \in Request : \/ stage'[q] = stage[q] /\ step'[q] = step[q]
                           \/ stage'[q] = "done"
    BY <1>10, <1>t DEF Finish, Goto, EventTypes
  <2>2. UNCHANGED <<buf, sse, sseChan, lastEvent>>
    BY <1>10 DEF Finish
  <2>3. \A s \in Subscriber : sse'[s] = sse[s]
    BY <2>2
  <2> QED BY <1>9, <2>1, <2>2, <2>3
<1>11. ASSUME NEW why, Die(why) PROVE EventInv'
  <2>1. \A r \in Request : \/ stage'[r] = "done"
                           \/ stage'[r] = "idle" /\ stage[r] = "idle"
    BY <1>11 DEF Die
  <2>2. \A s \in Subscriber :
          sse'[s] = IF sse[s] \in {"checked", "stream"} THEN "left" ELSE sse[s]
    BY <1>11 DEF Die
  <2>3. /\ \A s \in Subscriber : sse'[s] = "stream" => sse[s] = "stream"
        /\ \A s \in Subscriber :
             sse'[s] \in {"idle", "checked"} => sse[s] \in {"idle", "checked"}
    BY <2>2
  <2>4. UNCHANGED <<buf, sseChan, lastEvent>>
    BY <1>11 DEF Die
  <2> QED BY <1>9, <2>1, <2>3, <2>4
<1>12. ASSUME NEW s \in Subscriber, NEW t \in TaskID, SseCheck(s, t) PROVE EventInv'
  <2>1. /\ \A u \in Subscriber : sse'[u] = "stream" => sse[u] = "stream"
        /\ \A u \in Subscriber :
             sse'[u] \in {"idle", "checked"} => sse[u] \in {"idle", "checked"}
        /\ UNCHANGED <<stage, step, buf, sseChan, lastEvent>>
    BY <1>12, <1>t DEF SseCheck, EventTypes
  <2>2. \A r \in Request : stage'[r] = stage[r] /\ step'[r] = step[r]
    BY <2>1
  <2> QED BY <1>9, <2>1, <2>2
<1>13. ASSUME NEW s \in Subscriber, SseOpen(s) PROVE EventInv'
  <2>1. /\ lastEvent[s] = "none" /\ UNCHANGED <<stage, step, buf, lastEvent>>
        /\ sse'[s] \in {"refused", "stream"}
        /\ \A u \in Subscriber : u # s => sse'[u] = sse[u] /\ sseChan'[u] = sseChan[u]
    BY <1>13, <1>t DEF SseOpen, EventInv, ReaderInv, EventTypes
  <2>2. sse'[s] = "stream" => sseChan'[s] \in Request
    <3>1. /\ sse[s] = "checked"
          /\ sseChan' = [sseChan EXCEPT ![s] = eventChannels[sseTask[s]]]
          /\ sse' = [sse EXCEPT ![s] = IF eventChannels[sseTask[s]] = Nil
                                        THEN "refused" ELSE "stream"]
      BY <1>13 DEF SseOpen
    <3>2. sseTask[s] \in TaskID
      BY <3>1 DEF BaseInv, TypeInv, References
    <3>3. eventChannels[sseTask[s]] \in Request \cup {Nil}
      BY <1>a, <3>2 DEF Facts
    <3> QED BY <1>t, <3>1, <3>3 DEF EventTypes
  <2>3. QueueInv'
    BY <2>1 DEF EventInv, QueueInv, Running
  <2>4. ASSUME NEW c \in Request
        PROVE  /\ stage[c] \in Stages => Precedes("none", stage[c], step[c])
               /\ \A i \in 1..Len(buf[c]) : EventRank("none") < EventRank(buf[c][i])
    <3>1. \A i \in 1..Len(buf[c]) : buf[c][i] \in Stages
      BY <1>t DEF EventTypes
    <3>2. ASSUME NEW e \in Stages
          PROVE  EventRank("none") < EventRank(e) /\ EventRank("none") <= EventRank(e)
      BY StageRanks
    <3> QED BY <3>1, <3>2 DEF Precedes
  <2>5. ASSUME NEW u \in Subscriber, sse'[u] = "stream"
        PROVE  /\ stage[sseChan'[u]] = "idle" => lastEvent[u] = "none"
               /\ stage[sseChan'[u]] \in Stages =>
                    Precedes(lastEvent[u], stage[sseChan'[u]], step[sseChan'[u]])
               /\ \A i \in 1..Len(buf[sseChan'[u]]) :
                    EventRank(lastEvent[u]) < EventRank(buf[sseChan'[u]][i])
    <3>1. CASE u = s
      BY <2>1, <2>2, <2>4, <2>5, <3>1
    <3>2. CASE u # s
      BY <2>1, <2>5, <3>2 DEF EventInv, ReaderInv, Running
    <3> QED BY <3>1, <3>2
  <2>6. \A u \in Subscriber : sse'[u] \in {"idle", "checked"} => lastEvent[u] = "none"
    BY <2>1 DEF EventInv, ReaderInv
  <2>7. ReaderInv'
    BY <2>1, <2>5, <2>6 DEF ReaderInv, Running
  <2> QED BY <2>1, <2>3, <2>7 DEF EventInv
<1>14. ASSUME NEW s \in Subscriber, SseReceive(s) PROVE EventInv'
  BY <1>t, <1>14, SseReceiveKeepsOrder
<1>15. ASSUME NEW s \in Subscriber, SseEnd(s) \/ SseDisconnect(s) PROVE EventInv'
  <2>1. /\ \A u \in Subscriber : sse'[u] = "stream" => sse[u] = "stream"
        /\ \A u \in Subscriber : sse'[u] \in {"idle", "checked"} => sse[u] \in {"idle", "checked"}
        /\ UNCHANGED <<stage, step, buf, sseChan, lastEvent>>
    BY <1>15, <1>t DEF SseEnd, SseDisconnect, EventTypes
  <2>2. \A r \in Request : stage'[r] = stage[r] /\ step'[r] = step[r]
    BY <2>1
  <2> QED BY <1>9, <2>1, <2>2
<1>16. ASSUME NEW t \in TaskID,
              UploadFile(t) \/ CleanupBegin(t) \/ CleanupEnd(t) \/ CancelTask(t)
       PROVE  EventInv'
  BY <1>1, <1>16 DEF UploadFile, CleanupBegin, CleanupEnd, CancelTask
<1>17. ASSUME NEW r \in Request, CheckTask(r) \/ CheckUpload(r) \/ CreateTask(r)
       PROVE  EventInv'
  BY <1>1, <1>17 DEF CheckTask, CheckUpload, CreateTask
<1>18. CASE Restart \/ UNCHANGED vars
  BY <1>1, <1>18 DEF Restart
<1> QED BY <1>3, <1>4, <1>5, <1>7, <1>8, <1>10, <1>11, <1>12, <1>13, <1>14, <1>15, <1>16,
           <1>17, <1>18
        DEF Next, ConvertHandler, Goroutine, ExitInParse, PanicInRecover, Signal

(* The invariant behind the order of the events. *)
LEMMA EventInvariant ==
  ASSUME OneRequestPerTask
  PROVE  Spec => []EventInv
<1>1. Init => EventInv
  BY DEF Init, EventInv, QueueInv, ReaderInv, Running, Stages
<1> QED BY <1>1, BaseInvariant, EventInductive, PTL DEF Spec

(* Every subscriber receives the events of a conversion in the order of    *)
(* its stages, each once and nothing after the outcome, however the        *)
(* goroutine and cleanups interleave.                                      *)
THEOREM EventsArriveInOrder ==
  ASSUME OneRequestPerTask
  PROVE  Spec => EventsInOrder
<1>1. BaseInv => EventTypes
  <2> SUFFICES ASSUME BaseInv PROVE EventTypes
    OBVIOUS
  <2>1. Facts
    BY Base
  <2>2. \A s \in Subscriber : sse[s] = "stream" => sseChan[s] \in Request
    BY DEF BaseInv, TypeInv, References
  <2> QED BY <2>1, <2>2 DEF Facts, EventTypes
<1>2. BaseInv /\ EventInv /\ [Next]_vars
        => [\A s \in Subscriber :
              SseReceive(s) => EventRank(lastEvent'[s]) > EventRank(lastEvent[s])]_vars
  BY <1>1, SseReceiveKeepsOrder
<1> QED BY <1>2, BaseInvariant, EventInvariant, PTL DEF Spec, EventsInOrder

(* A goroutine that is at a statement is in a stage. *)
StatementInv == \A r \in Request : step[r] # "none" => stage[r] \in Stages

(* It holds whatever requests there are. *)
LEMMA StatementInvariant == Spec => []StatementInv
<1>1. Init => StatementInv
  BY DEF Init, StatementInv
<1>2. TypeInv /\ StatementInv /\ [Next]_vars => StatementInv'
  <2> SUFFICES ASSUME TypeInv, StatementInv, [Next]_vars PROVE StatementInv'
    OBVIOUS
  <2>t. stage \in [Request -> Stages \cup {"idle", "done"}]
        /\ step \in [Request -> {"none", "update", "lookup", "send", "act"}]
    BY DEF TypeInv, TypeOK
  <2>1. ASSUME NEW r \in Request, NEW st \in Stages, NEW sp, Goto(r, st, sp)
        PROVE  StatementInv'
    BY <2>t, <2>1 DEF Goto, StatementInv
  <2>2. ASSUME NEW r \in Request,
               \/ UpdateStatus(r) \/ LookupChannel(r) \/ SendEvent(r) \/ SendOnClosed(r)
               \/ FindUpload(r) \/ Validate(r) \/ ParseText(r) \/ BuildBook(r) \/ SaveFiles(r)
               \/ PanicInCall(r)
        PROVE  StatementInv'
    <3>1. \E st \in Stages : \E sp \in {"update", "lookup", "send", "act"} : Goto(r, st, sp)
      BY <2>2 DEF UpdateStatus, LookupChannel, SendEvent, SendOnClosed, FindUpload, Validate,
                  ParseText, BuildBook, SaveFiles, Advance, PanicInCall, Panic, Running, Stages
    <3> QED BY <2>1, <3>1
  <2>3. ASSUME NEW r \in Request, StartConversion(r) PROVE StatementInv'
    BY <2>1, <2>3 DEF StartConversion, StatementInv, Stages
  <2>4. ASSUME NEW r \in Request, Finish(r) PROVE StatementInv'
    BY <2>t, <2>4 DEF Finish, Goto, StatementInv
  <2>5. ASSUME NEW why, Die(why) PROVE StatementInv'
    BY <2>5 DEF Die, StatementInv
  <2>6. ASSUME UNCHANGED <<stage, step>> PROVE StatementInv'
    BY <2>6 DEF StatementInv
  <2>7. ASSUME NEW t \in TaskID,
               UploadFile(t) \/ CleanupBegin(t) \/ CleanupEnd(t) \/ CancelTask(t)
        PROVE  StatementInv'
    BY <2>6, <2>7 DEF UploadFile, CleanupBegin, CleanupEnd, CancelTask
  <2>8. ASSUME NEW r \in Request, CheckTask(r) \/ CheckUpload(r) \/ CreateTask(r)
        PROVE  StatementInv'
    BY <2>6, <2>8 DEF CheckTask, CheckUpload, CreateTask
  <2>9. ASSUME NEW s \in Subscriber,
               \/ \E t \in TaskID : SseCheck(s, t)
               \/ SseOpen(s) \/ SseReceive(s) \/ SseEnd(s) \/ SseDisconnect(s)
        PROVE  StatementInv'
    BY <2>6, <2>9 DEF SseCheck, SseOpen, SseReceive, SseEnd, SseDisconnect
  <2>10. CASE Restart \/ UNCHANGED vars
    BY <2>6, <2>10 DEF Restart
  <2> QED BY <2>2, <2>3, <2>4, <2>5, <2>7, <2>8, <2>9, <2>10
          DEF Next, ConvertHandler, Goroutine, ExitInParse, PanicInRecover, Signal
<1> QED BY <1>1, <1>2, TypeInvariant, PTL DEF Spec

(* A channel with room for six events never drops one. *)
THEOREM SixEventsSuffice ==
  ASSUME OneRequestPerTask, Cap >= 6
  PROVE  Spec => []NothingDropped
<1>1. BaseInv /\ EventInv /\ StatementInv => NothingDropped
  <2> SUFFICES ASSUME BaseInv, EventInv, StatementInv, NEW r \in Request, step[r] = "send"
               PROVE  Len(buf[sendTo[r]]) < Cap
    BY DEF NothingDropped
  <2>0. Facts
    BY Base
  <2>1. sendTo[r] = r /\ Len(buf[r]) \in Nat
    <3>1. buf[r] \in Seq(Stages)
      BY <2>0 DEF Facts
    <3>2. sendTo[r] = r
      BY <2>0 DEF Facts
    <3> QED BY <3>1, <3>2
  <2>2. stage[r] \in Stages
    BY DEF StatementInv
  <2>3. Len(buf[r]) <= Before(stage[r]) /\ Before(stage[r]) \in 0..5
    BY <2>2, StageRanks DEF EventInv, QueueInv, Running, Sent
  <2> QED BY <2>1, <2>3
<1> QED BY <1>1, BaseInvariant, EventInvariant, StatementInvariant, PTL

-----------------------------------------------------------------------------
(* Events of one channel are read by one subscriber: a second one would    *)
(* take events, the outcome among them, from the first.                    *)
SingleSubscriber == \A s, u \in Subscriber : s = u

(* No step of the pipeline breaks EndInv. *)
LEMMA EndInductive ==
  ASSUME OneRequestPerTask, SingleSubscriber, Cap >= 6
  PROVE  BaseInv /\ SurvivalInv /\ EventInv /\ StatementInv /\ EndInv /\ [Next]_vars
           => EndInv'
<1> SUFFICES ASSUME BaseInv, SurvivalInv, EventInv, StatementInv, EndInv, [Next]_vars
             PROVE  EndInv'
  OBVIOUS
<1>a. Facts
  BY Base
<1>t. /\ eventChannels \in [TaskID -> Request \cup {Nil}]
      /\ closed \in [Request -> BOOLEAN]
      /\ stage \in [Request -> Stages \cup {"idle", "done"}]
      /\ step \in [Request -> {"none", "update", "lookup", "send", "act"}]
      /\ upload \in [TaskID -> {"none", "stored", "removed"}]
      /\ sse \in [Subscriber -> {"idle", "checked", "stream", "refused", "ended", "left"}]
      /\ sseTask \in [Subscriber -> TaskID \cup {Nil}]
      /\ sseChan \in [Subscriber -> Request \cup {Nil}]
      /\ lastEvent \in [Subscriber -> Stages \cup {"none"}]
      /\ \A r \in Request : TaskOf[r] \in TaskID /\ eventChannels[TaskOf[r]] \in {Nil, r}
      /\ \A t \in TaskID :
           eventChannels[t] # Nil => TaskOf[eventChannels[t]] = t
  BY <1>a DEF Facts
<1>b. buf \in [Request -> Seq(Stages)]
  BY <1>a DEF Facts
<1>s. \A r \in Request : step[r] = "send" => sendTo[r] = r
  BY <1>a DEF Facts
<1> USE DEF EndInv, StreamEndsWithOutcome
(* Streams and channels stay as they are; a goroutine may be over only if  *)
(* it was, or if its files are removed.                                    *)
<1>1. ASSUME UNCHANGED <<buf, sseChan, sseTask, lastEvent>>,
             \A t \in TaskID : upload[t] = "removed" => upload'[t] = "removed",
             \A r \in Request : Over(r)' => Over(r) \/ upload[TaskOf[r]] = "removed",
             \A s \in Subscriber : sse'[s] \in {"stream", "ended"} => sse'[s] = sse[s]
      PROVE  EndInv'
  <2>1. ASSUME NEW r \in Request, upload'[TaskOf[r]] # "removed", Over(r)'
        PROVE  OutcomeSent(r)'
    <3>1. OutcomeSent(r)
      BY <1>1, <1>t, <2>1
    <3> QED BY <1>1, <3>1 DEF OutcomeSent
  <2>2. ASSUME NEW s \in Subscriber, sse'[s] = "ended"
        PROVE  lastEvent'[s] \in Closing \/ upload'[sseTask'[s]] = "removed"
    <3>1. sse[s] = "ended" /\ sseTask[s] \in TaskID
      BY <1>1, <1>t, <2>2
    <3> QED BY <1>1, <3>1
  <2>3. \A s \in Subscriber : sse'[s] \in {"stream", "ended"} =>
          sseChan'[s] \in Request /\ sseTask'[s] = TaskOf[sseChan'[s]]
    BY <1>1
  <2> QED BY <2>1, <2>2, <2>3
<1>2. ASSUME UNCHANGED <<buf, stream>>, UNCHANGED <<closed, stage, step>>,
             \A t \in TaskID : upload[t] = "removed" => upload'[t] = "removed"
      PROVE  EndInv'
  BY <1>1, <1>2 DEF Over
<1>3. ASSUME NEW t \in TaskID, UploadFile(t) \/ CleanupBegin(t) \/ CancelTask(t) PROVE EndInv'
  <2>1. \A u \in TaskID : upload[u] = "removed" => upload'[u] = "removed"
    BY <1>3, <1>t DEF UploadFile, SaveUploadedFile, CleanupBegin, CancelTask
  <2>2. UNCHANGED <<buf, stream>> /\ UNCHANGED <<closed, stage, step>>
    BY <1>3 DEF UploadFile, CleanupBegin, CancelTask
  <2> QED BY <1>2, <2>1, <2>2
<1>4. ASSUME NEW t \in TaskID, CleanupEnd(t) PROVE EndInv'
  <2>1. upload[t] = "removed" /\ UNCHANGED <<buf, stream>> /\ UNCHANGED <<upload, stage, step>>
    BY <1>4, <1>a DEF CleanupEnd, SurvivalInv, Facts
  <2>2. \A r \in Request : closed'[r] => closed[r] \/ upload[TaskOf[r]] = "removed"
    BY <1>4, <1>t, <2>1 DEF CleanupEnd, CloseChannel
  <2> QED BY <1>1, <2>1, <2>2 DEF Over
<1>5. ASSUME NEW r \in Request, UNCHANGED <<buf, stream, upload, closed>>,
             \A q \in Request : q # r => stage'[q] = stage[q] /\ step'[q] = step[q],
             \/ step'[r] # "act" \/ stage'[r] \notin Closing \/ upload[TaskOf[r]] = "removed"
      PROVE  EndInv'
  <2>1. \A q \in Request : Over(q)' => Over(q) \/ upload[TaskOf[q]] = "removed"
    BY <1>5 DEF Over
  <2> QED BY <1>1, <1>5, <2>1
<1>6. ASSUME NEW r \in Request,
             \/ UpdateStatus(r) \/ SendOnClosed(r) \/ PanicInCall(r) \/ FindUpload(r)
             \/ Validate(r) \/ ParseText(r) \/ BuildBook(r) \/ SaveFiles(r)
      PROVE  EndInv'
  <2>1. UNCHANGED <<buf, stream, upload, closed>>
    BY <1>6 DEF UpdateStatus, SendOnClosed, PanicInCall, FindUpload, Validate, ParseText,
                BuildBook, SaveFiles, Advance
  <2>2. \E st \in Stages : \E sp \in {"update", "lookup"} : Goto(r, st, sp)
    BY <1>6 DEF UpdateStatus, SendOnClosed, PanicInCall, Panic, FindUpload, Validate, ParseText,
                BuildBook, SaveFiles, Advance, Running, Stages
  <2>3. /\ step'[r] # "act"
        /\ \A q \in Request : q # r => stage'[q] = stage[q] /\ step'[q] = step[q]
    BY <1>t, <2>2 DEF Goto
  <2> QED BY <1>5, <2>1, <2>3
<1>7. ASSUME NEW r \in Request, LookupChannel(r) PROVE EndInv'
  <2>1. /\ UNCHANGED <<buf, stream, upload, closed>>
        /\ \A q \in Request : q # r => stage'[q] = stage[q] /\ step'[q] = step[q]
    BY <1>7 DEF LookupChannel, Goto
  <2>2. step'[r] = "act" => eventChannels[TaskOf[r]] = Nil
    BY <1>7, <1>t DEF LookupChannel, Goto
  <2>3. eventChannels[TaskOf[r]] = Nil => upload[TaskOf[r]] = "removed"
    BY <1>7 DEF LookupChannel, SurvivalInv
  <2> QED BY <1>5, <2>1, <2>2, <2>3
<1>8. ASSUME NEW r \in Request, StartConversion(r) PROVE EndInv'
  <2>1. UNCHANGED <<buf, stream, upload, closed>>
    BY <1>8 DEF StartConversion
  <2>2. CASE UNCHANGED <<stage, step>>
    BY <1>2, <2>1, <2>2
  <2>3. CASE Goto(r, "start", "update")
    BY <1>5, <1>t, <2>1, <2>3 DEF Goto
  <2> QED BY <1>8, <2>2, <2>3 DEF StartConversion
<1>9. ASSUME NEW r \in Request, SendEvent(r) PROVE EndInv'
  <2>1. /\ stage[r] \in Stages /\ step[r] = "send" /\ sendTo[r] = r /\ ~ closed[r]
        /\ buf[r] \in Seq(Stages)
    BY <1>9, <1>b, <1>s DEF SendEvent, Running
  <2>2. Len(buf[r]) < Cap
    <3>1. Len(buf[r]) <= Before(stage[r]) /\ Before(stage[r]) \in 0..5 /\ Len(buf[r]) \in Nat
      BY <2>1, StageRanks DEF EventInv, QueueInv, Running, Sent
    <3> QED BY <3>1
  <2>3. buf' = [buf EXCEPT ![r] = Append(@, stage[r])]
    BY <1>9, <2>1, <2>2 DEF SendEvent
  <2>4. buf'[r] = Append(buf[r], stage[r]) /\ \A q \in Request : q # r => buf'[q] = buf[q]
    BY <1>b, <2>3
  <2>5. buf'[r] # <<>> /\ buf'[r][Len(buf'[r])] = stage[r]
    BY <2>1, <2>4
  <2>6. /\ UNCHANGED <<stage, stream, upload, closed>>
        /\ \A q \in Request : q # r => step'[q] = step[q]
    BY <1>9, <1>t DEF SendEvent, Goto
  <2>7. ASSUME NEW q \in Request, upload[TaskOf[q]] # "removed", Over(q)'
        PROVE  OutcomeSent(q)'
    <3>1. CASE q = r
      BY <2>1, <2>5, <2>6, <2>7, <3>1 DEF Over, OutcomeSent
    <3>2. CASE q # r
      <4>1. OutcomeSent(q)
        BY <2>6, <2>7, <3>2 DEF Over
      <4> QED BY <2>4, <2>6, <3>2, <4>1 DEF OutcomeSent
    <3> QED BY <3>1, <3>2
  <2> QED BY <2>6, <2>7
<1>10. ASSUME NEW r \in Request, Finish(r) PROVE EndInv'
  <2>1. /\ stage[r] \in Closing /\ step[r] = "act" /\ UNCHANGED <<buf, stream, upload>>
        /\ CloseChannel(TaskOf[r]) /\ Goto(r, "done", "none")
    BY <1>10 DEF Finish
  <2>2. Over(r)
    BY <2>1 DEF Over
  <2>3. \A q \in Request : q # r => closed'[q] = closed[q]
    <3>1. \/ closed' = closed
          \/ closed' = [closed EXCEPT ![eventChannels[TaskOf[r]]] = TRUE]
      BY <2>1 DEF CloseChannel
    <3> QED BY <1>t, <3>1
  <2>4. \A q \in Request : Over(q)' => Over(q)
    BY <1>t, <2>1, <2>2, <2>3 DEF Goto, Over
  <2> QED BY <1>1, <2>1, <2>4
<1>11. ASSUME NEW why, Die(why) PROVE EndInv'
  <2>1. UNCHANGED <<buf, sseChan, sseTask, lastEvent, upload, closed>>
    BY <1>11 DEF Die
  <2>2. \A r \in Request : step'[r] = "none"
    BY <1>11 DEF Die
  <2>3. \A s \in Subscriber :
          sse'[s] = IF sse[s] \in {"checked", "stream"} THEN "left" ELSE sse[s]
    BY <1>11 DEF Die
  <2>4. \A s \in Subscriber : sse'[s] \in {"stream", "ended"} => sse'[s] = sse[s]
    BY <2>3
  <2>5. \A r \in Request : Over(r)' => Over(r)
    BY <2>1, <2>2 DEF Over
  <2> QED BY <1>1, <2>1, <2>4, <2>5
<1>12. ASSUME NEW s \in Subscriber, NEW t \in TaskID, SseCheck(s, t) PROVE EndInv'
  <2>1. /\ UNCHANGED <<buf, sseChan, lastEvent, upload, closed, stage, step>>
        /\ sse'[s] = "checked"
        /\ \A u \in Subscriber : u # s => sse'[u] = sse[u] /\ sseTask'[u] = sseTask[u]
    BY <1>12, <1>t DEF SseCheck
  <2> QED BY <2>1 DEF Over, OutcomeSent
<1>13. ASSUME NEW s \in Subscriber, SseOpen(s) PROVE EndInv'
  <2>1. /\ UNCHANGED <<buf, sseTask, lastEvent, upload, closed, stage, step>>
        /\ sse[s] = "checked" /\ lastEvent[s] = "none"
        /\ sseChan'[s] = eventChannels[sseTask[s]]
        /\ sse'[s] = IF eventChannels[sseTask[s]] = Nil THEN "refused" ELSE "stream"
        /\ \A u \in Subscriber : u # s => sse'[u] = sse[u] /\ sseChan'[u] = sseChan[u]
    BY <1>13, <1>t DEF SseOpen, EventInv, ReaderInv
  <2>2. sseTask[s] \in TaskID
    BY <2>1 DEF BaseInv, TypeInv, References
  <2>3. sse'[s] = "stream" => sseChan'[s] \in Request /\ sseTask'[s] = TaskOf[sseChan'[s]]
    BY <1>t, <2>1, <2>2
  <2>4. ASSUME NEW r \in Request, upload[TaskOf[r]] # "removed", Over(r)'
        PROVE  OutcomeSent(r)'
    <3>1. OutcomeSent(r)
      BY <2>1, <2>4 DEF Over
    <3>2. "none" \notin Closing
      BY DEF Closing
    <3> QED BY <2>1, <3>1, <3>2 DEF OutcomeSent
  <2> QED BY <2>1, <2>3, <2>4
<1>14. ASSUME NEW s \in Subscriber, SseReceive(s) PROVE EndInv'
  <2> DEFINE c == sseChan[s]
  <2>1. /\ UNCHANGED <<sse, sseChan, sseTask, upload, closed, stage, step>>
        /\ sse[s] = "stream" /\ buf[c] # <<>>
        /\ lastEvent' = [lastEvent EXCEPT ![s] = Head(buf[c])]
        /\ buf' = [buf EXCEPT ![c] = Tail(@)]
    BY <1>14 DEF SseReceive
  <2>2. c \in Request /\ buf[c] \in Seq(Stages)
    BY <1>a, <2>1 DEF Facts
  <2>3. /\ \A q \in Request : q # c => buf'[q] = buf[q]
        /\ \A u \in Subscriber : u # s => lastEvent'[u] = lastEvent[u]
        /\ lastEvent'[s] = Head(buf[c]) /\ buf'[c] = Tail(buf[c])
    BY <1>b, <1>t, <2>1, <2>2
  <2> HIDE DEF c
  <2>4. /\ Len(buf[c]) \in Nat \ {0} /\ Len(Tail(buf[c])) = Len(buf[c]) - 1
        /\ Head(buf[c]) = buf[c][1]
        /\ \A i \in 1..(Len(buf[c]) - 1) : Tail(buf[c])[i] = buf[c][i + 1]
    BY <2>1, <2>2, TailIndex
  <2>5. EventRank(lastEvent'[s]) > EventRank(lastEvent[s])
    <3>1. EventTypes
      <4>1. \A u \in Subscriber : sse[u] = "stream" => sseChan[u] \in Request
        BY DEF BaseInv, TypeInv, References
      <4> QED BY <1>a, <4>1 DEF Facts, EventTypes
    <3> QED BY <2>1, <2>2, <3>1, ReceiveKeepsOrder DEF c
  <2>6. lastEvent[s] \in Closing => lastEvent'[s] \in Closing
    <3>1. lastEvent'[s] \in Stages
      BY <2>1, <2>2, <2>3, HeadTail
    <3>2. Closing \subseteq Stages
      BY DEF Closing, Stages
    <3>3. lastEvent[s] \in Closing => EventRank(lastEvent[s]) < EventRank(lastEvent'[s])
      BY <2>5, <3>1, <3>2, StageRanks
    <3> QED BY <3>1, <3>3, StageRanks
  <2>7. ASSUME NEW q \in Request, upload[TaskOf[q]] # "removed", Over(q)'
        PROVE  OutcomeSent(q)'
    <3>1. OutcomeSent(q)
      BY <2>1, <2>7 DEF Over
    <3>2. CASE \E u \in Subscriber : sseChan[u] = q /\ lastEvent[u] \in Closing
      BY <2>1, <2>3, <2>6, <3>2 DEF OutcomeSent
    <3>3. CASE q # c /\ buf[q] # <<>> /\ buf[q][Len(buf[q])] \in Closing
      BY <2>3, <3>3 DEF OutcomeSent
    <3>4. CASE q = c /\ buf[q] # <<>> /\ buf[q][Len(buf[q])] \in Closing
      <4>1. CASE Len(buf[c]) = 1
        BY <2>1, <2>3, <2>4, <3>4, <4>1 DEF OutcomeSent, c
      <4>2. CASE Len(buf[c]) # 1
        <5> DEFINE n == Len(buf[c])
        <5>n. n \in Nat \ {0, 1}
          BY <2>4, <4>2
        <5>t. /\ Len(Tail(buf[c])) = n - 1
              /\ \A i \in 1..(n - 1) : Tail(buf[c])[i] = buf[c][i + 1]
          BY <2>4
        <5> HIDE DEF n
        <5>1. n - 1 \in 1..(n - 1) /\ (n - 1) + 1 = n /\ n - 1 # 0
          BY <5>n
        <5>2. Tail(buf[c])[Len(Tail(buf[c]))] = buf[c][n] /\ Len(Tail(buf[c])) # 0
          BY <5>1, <5>t
        <5>3. Tail(buf[c]) # <<>>
          <6>1. Len(<<>>) = 0
            OBVIOUS
          <6> QED BY <5>2, <6>1
        <5> QED BY <2>3, <3>4, <5>2, <5>3 DEF OutcomeSent, n
      <4> QED BY <4>1, <4>2
    <3> QED BY <3>1, <3>2, <3>3, <3>4 DEF OutcomeSent
  <2>8. ASSUME NEW u \in Subscriber, sse[u] = "ended"
        PROVE  lastEvent'[u] \in Closing \/ upload[sseTask[u]] = "removed"
    BY <2>1, <2>3, <2>8
  <2> QED BY <2>1, <2>7, <2>8
<1>15. ASSUME NEW s \in Subscriber, SseEnd(s) PROVE EndInv'
  <2>1. /\ UNCHANGED <<buf, sseChan, sseTask, lastEvent, upload, closed, stage, step>>
        /\ sse[s] = "stream" /\ buf[sseChan[s]] = <<>> /\ closed[sseChan[s]]
        /\ \A u \in Subscriber : u # s => sse'[u] = sse[u]
    BY <1>15, <1>t DEF SseEnd
  <2>2. sseChan[s] \in Request /\ sseTask[s] = TaskOf[sseChan[s]]
    BY <2>1
  <2>3. lastEvent[s] \in Closing \/ upload[sseTask[s]] = "removed"
    <3>1. upload[sseTask[s]] = "removed" \/ OutcomeSent(sseChan[s])
      BY <2>1, <2>2 DEF Over
    <3> QED BY <2>1, <3>1 DEF OutcomeSent, SingleSubscriber
  <2>4. \A r \in Request : upload[TaskOf[r]] # "removed" /\ Over(r)' => OutcomeSent(r)'
    BY <2>1 DEF Over, OutcomeSent
  <2> QED BY <2>1, <2>2, <2>3, <2>4
<1>16. ASSUME NEW s \in Subscriber, SseDisconnect(s) PROVE EndInv'
  <2>1. /\ UNCHANGED <<buf, sseChan, sseTask, lastEvent, upload, closed, stage, step>>
        /\ \A u \in Subscriber : sse'[u] \in {"stream", "ended"} => sse'[u] = sse[u]
    BY <1>16, <1>t DEF SseDisconnect
  <2> QED BY <1>1, <2>1 DEF Over
<1>17. ASSUME NEW r \in Request, CheckTask(r) \/ CheckUpload(r) \/ CreateTask(r) PROVE EndInv'
  BY <1>2, <1>17 DEF CheckTask, CheckUpload, CreateTask
<1>18. CASE Restart \/ UNCHANGED vars
  BY <1>2, <1>18 DEF Restart
<1> QED BY <1>3, <1>4, <1>6, <1>7, <1>8, <1>9, <1>10, <1>11, <1>12, <1>13, <1>14, <1>15,
           <1>16, <1>17, <1>18
        DEF Next, ConvertHandler, Goroutine, ExitInParse, PanicInRecover, Signal

(* With room for six events, a stream that the server ends has carried the *)
(* outcome to its subscriber, wherever the conversion failed or panicked,  *)
(* unless the task was cleaned up under it.                                *)
THEOREM StreamsCarryTheOutcome ==
  ASSUME OneRequestPerTask, SingleSubscriber, Cap >= 6
  PROVE  Spec => []StreamEndsWithOutcome
<1>1. Init => EndInv
  BY DEF Init, EndInv, StreamEndsWithOutcome, Over, Closing
<1>2. EndInv => StreamEndsWithOutcome
  BY DEF EndInv
<1> QED BY <1>1, <1>2, EndInductive, BaseInvariant, SurvivalInvariant, EventInvariant,
           StatementInvariant, PTL DEF Spec

-----------------------------------------------------------------------------
(* The refinement: what GET /status answers over time is a behaviour of    *)
(* TaskLifecycle.                                                          *)

(* The TaskInfo of a request that is in the map shows where its goroutine  *)
(* is: pending before the first update, then the progress of the stage it  *)
(* entered last, then the outcome.                                         *)
OnTrack(r) ==
  \/ handler[r] = "created" /\ status[r] = "pending" /\ progress[r] = 0
  \/ /\ stage[r] = "start" /\ step[r] = "update"
     /\ status[r] = "pending" /\ progress[r] = 0
  \/ /\ Running(r) /\ stage[r] # "start" /\ step[r] = "update"
     /\ status[r] = "processing"
     /\ stage[r] \in Closing \/ progress[r] < StageProgress(stage[r])
  \/ /\ Running(r) /\ stage[r] \notin Closing /\ step[r] # "update"
     /\ status[r] = "processing" /\ progress[r] = StageProgress(stage[r])
  \/ /\ stage[r] \in Closing \cup {"done"} /\ step[r] # "update"
     /\ status[r] \in Settled

(* CancelTask leaves the track, and keeps the mutex for good.              *)
ProgressInv ==
  /\ \A r \in Request : handler[r] \in {"new", "checked", "found"} => progress[r] = 0
  /\ cancelling = Nil => \A r \in Request : tasks[TaskOf[r]] = r => OnTrack(r)

-----------------------------------------------------------------------------
(* No step of the pipeline breaks ProgressInv. *)
LEMMA ProgressInductive ==
  ASSUME OneRequestPerTask
  PROVE  BaseInv /\ ProgressInv /\ [Next]_vars => ProgressInv'
<1> SUFFICES ASSUME BaseInv, ProgressInv, [Next]_vars PROVE ProgressInv'
  OBVIOUS
<1>a. Facts
  BY Base
<1>t. /\ tasks \in [TaskID -> Request \cup {Nil}]
      /\ handler \in [Request -> {"new", "checked", "found", "created", "done"}]
      /\ stage \in [Request -> Stages \cup {"idle", "done"}]
      /\ step \in [Request -> {"none", "update", "lookup", "send", "act"}]
      /\ \A r \in Request : TaskOf[r] \in TaskID /\ tasks[TaskOf[r]] \in {Nil, r}
      /\ \A r, q \in Request : r # q => TaskOf[r] # TaskOf[q]
      /\ \A r \in Request :
           handler[r] \in {"new", "checked", "found", "created"} => stage[r] = "idle"
  BY <1>a DEF Facts
<1>o. /\ status \in [Request -> Statuses] /\ progress \in [Request -> 0..100]
      /\ cancelling \in TaskID \cup {Nil}
  BY DEF BaseInv, TypeInv, TypeOK
<1> USE DEF ProgressInv
(* One request moves, or leaves the map; what the others show stays. *)
<1>1. ASSUME NEW r \in Request, cancelling' = cancelling,
             \A q \in Request : q # r =>
               /\ handler'[q] = handler[q] /\ status'[q] = status[q]
               /\ progress'[q] = progress[q] /\ stage'[q] = stage[q] /\ step'[q] = step[q]
               /\ tasks'[TaskOf[q]] = q => tasks[TaskOf[q]] = q,
             handler'[r] \in {"new", "checked", "found"} => progress'[r] = 0,
             cancelling = Nil /\ tasks'[TaskOf[r]] = r => OnTrack(r)'
      PROVE  ProgressInv'
  BY <1>1 DEF OnTrack, Running
<1>2. ASSUME UNCHANGED <<cancelling, handler, status, progress, stage, step>>,
             \A r \in Request : tasks'[TaskOf[r]] = r => tasks[TaskOf[r]] = r
      PROVE  ProgressInv'
  BY <1>2 DEF OnTrack, Running
<1>3. ASSUME NEW t \in TaskID, UploadFile(t) \/ CleanupBegin(t) PROVE ProgressInv'
  BY <1>2, <1>3 DEF UploadFile, CleanupBegin
<1>4. ASSUME NEW t \in TaskID, CleanupEnd(t) PROVE ProgressInv'
  <2>1. UNCHANGED <<cancelling, handler, status, progress, stage, step>>
        /\ tasks' = [tasks EXCEPT ![t] = Nil]
    BY <1>4 DEF CleanupEnd
  <2>2. \A r \in Request : tasks'[TaskOf[r]] = r => tasks[TaskOf[r]] = r
    BY <1>t, <2>1
  <2> QED BY <1>2, <2>1, <2>2
<1>5. ASSUME NEW t \in TaskID, CancelTask(t) PROVE ProgressInv'
  BY <1>5 DEF CancelTask
<1>6. ASSUME NEW r \in Request, CheckTask(r) \/ CheckUpload(r) PROVE ProgressInv'
  <2>1. /\ UNCHANGED <<cancelling, status, progress, stage, step, tasks>>
        /\ handler[r] \in {"new", "checked"}
        /\ \A q \in Request : q # r => handler'[q] = handler[q]
    BY <1>6, <1>t DEF CheckTask, CheckUpload
  <2>2. tasks[TaskOf[r]] = Nil /\ progress[r] = 0
    BY <2>1 DEF BaseInv, OutcomeInv
  <2> QED BY <1>1, <2>1, <2>2
<1>7. ASSUME NEW r \in Request, CreateTask(r) PROVE ProgressInv'
  <2>1. /\ handler[r] = "found" /\ UNCHANGED <<cancelling, progress, stage, step>>
        /\ handler'[r] = "created" /\ status'[r] = "pending"
        /\ \A q \in Request : q # r => handler'[q] = handler[q] /\ status'[q] = status[q]
    BY <1>7, <1>t, <1>o DEF CreateTask
  <2>2. progress'[r] = 0
    BY <2>1
  <2>3. \A q \in Request : q # r => tasks'[TaskOf[q]] = tasks[TaskOf[q]]
    BY <1>7, <1>t DEF CreateTask
  <2> QED BY <1>1, <2>1, <2>2, <2>3 DEF OnTrack
<1>8. ASSUME NEW r \in Request, StartConversion(r) PROVE ProgressInv'
  <2>1. /\ UNCHANGED <<cancelling, status, progress, tasks>>
        /\ handler[r] = "created" /\ handler'[r] = "done" /\ stage[r] = "idle"
        /\ \A q \in Request : q # r => handler'[q] = handler[q]
    BY <1>8, <1>t DEF StartConversion
  <2>2. CASE tasks[TaskOf[r]] = Nil
    <3>1. UNCHANGED <<stage, step>>
      BY <1>8, <2>2 DEF StartConversion
    <3> QED BY <1>1, <2>1, <2>2, <3>1
  <2>3. CASE tasks[TaskOf[r]] # Nil
    <3>1. /\ stage'[r] = "start" /\ step'[r] = "update"
          /\ \A q \in Request : q # r => stage'[q] = stage[q] /\ step'[q] = step[q]
      BY <1>8, <1>t, <2>3 DEF StartConversion, Goto
    <3>2. cancelling = Nil => status[r] = "pending" /\ progress[r] = 0
      BY <1>t, <2>1, <2>3 DEF OnTrack, Running, Stages, Closing
    <3> QED BY <1>1, <2>1, <3>1, <3>2 DEF OnTrack
  <2> QED BY <2>2, <2>3
<1>9. ASSUME NEW r \in Request, UpdateStatus(r) PROVE ProgressInv'
  <2>1. /\ UNCHANGED <<cancelling, tasks, handler>> /\ stage[r] \in Stages
        /\ step[r] = "update" /\ step'[r] = "lookup" /\ stage'[r] = stage[r]
        /\ \A q \in Request : q # r => stage'[q] = stage[q] /\ step'[q] = step[q]
    BY <1>9, <1>t DEF UpdateStatus, Running, Goto
  <2>2. handler[r] = "done"
    BY <1>t, <2>1 DEF Stages
  <2>3. CASE tasks[TaskOf[r]] = Nil
    <3>1. UNCHANGED <<status, progress>>
      BY <1>9, <2>3 DEF UpdateStatus
    <3> QED BY <1>1, <2>1, <2>2, <2>3, <3>1
  <2>4. CASE tasks[TaskOf[r]] = r
    <3>1. /\ status' = [status EXCEPT ![r] = StageStatus(stage[r])]
          /\ progress' = [progress EXCEPT ![r] = StageProgress(stage[r])]
      BY <1>9, <2>4 DEF UpdateStatus
    <3>2. /\ status'[r] = StageStatus(stage[r]) /\ progress'[r] = StageProgress(stage[r])
          /\ \A q \in Request : q # r => status'[q] = status[q] /\ progress'[q] = progress[q]
      BY <1>o, <3>1
    <3>3. OnTrack(r)'
      <4>1. CASE stage[r] \in Closing
        <5>1. StageStatus(stage[r]) \in Settled
          BY <4>1 DEF StageStatus, Closing, Settled
        <5> QED BY <2>1, <3>2, <4>1, <5>1 DEF OnTrack
      <4>2. CASE stage[r] \notin Closing
        <5>1. StageStatus(stage[r]) = "processing"
          BY <2>1, <4>2 DEF StageStatus, Closing, Stages
        <5> QED BY <2>1, <3>2, <4>2, <5>1 DEF OnTrack, Running
      <4> QED BY <4>1, <4>2
    <3> QED BY <1>1, <2>1, <2>2, <3>2, <3>3
  <2> QED BY <1>t, <2>3, <2>4
<1>10. ASSUME NEW r \in Request, LookupChannel(r) \/ SendEvent(r) PROVE ProgressInv'
  <2>1. /\ UNCHANGED <<cancelling, tasks, handler, status, progress>> /\ stage[r] \in Stages
        /\ step[r] # "update" /\ step'[r] # "update" /\ stage'[r] = stage[r]
        /\ \A q \in Request : q # r => stage'[q] = stage[q] /\ step'[q] = step[q]
    BY <1>10, <1>t DEF LookupChannel, SendEvent, Running, Goto
  <2>2. handler[r] = "done"
    BY <1>t, <2>1 DEF Stages
  <2>3. OnTrack(r) => OnTrack(r)'
    BY <2>1, <2>2 DEF OnTrack, Running
  <2> QED BY <1>1, <2>1, <2>2, <2>3
<1>11. ASSUME NEW r \in Request, SendOnClosed(r) PROVE ProgressInv'
  <2>1. /\ UNCHANGED <<cancelling, tasks, handler, status, progress>> /\ stage[r] \in Stages
        /\ closed[r]
        /\ \A q \in Request : q # r => stage'[q] = stage[q] /\ step'[q] = step[q]
    <3>1. step[r] = "send" => sendTo[r] = r
      BY <1>a DEF Facts
    <3> QED BY <1>11, <1>t, <3>1 DEF SendOnClosed, Running, Panic, Goto
  <2>2. tasks[TaskOf[r]] = Nil
    BY <2>1 DEF BaseInv, OutcomeInv, Stages
  <2> QED BY <1>1, <2>1, <2>2
<1>12. ASSUME NEW r \in Request,
              \/ FindUpload(r) \/ Validate(r) \/ ParseText(r) \/ BuildBook(r) \/ SaveFiles(r)
              \/ PanicInCall(r)
       PROVE  ProgressInv'
  <2>1. UNCHANGED <<cancelling, tasks, handler, status, progress>> /\ step[r] = "act"
    BY <1>12 DEF FindUpload, Validate, ParseText, BuildBook, SaveFiles, Advance, PanicInCall
  <2>2. PICK to \in Stages :
          /\ Goto(r, to, "update")
          /\ \/ stage[r] = "start" /\ to \in {"validate", "fail"}
             \/ stage[r] = "validate" /\ to \in {"parse", "fail", "recover"}
             \/ stage[r] = "parse" /\ to \in {"build", "fail"}
             \/ stage[r] = "build" /\ to \in {"save", "fail", "recover"}
             \/ stage[r] = "save" /\ to \in {"finish", "fail"}
    BY <1>12 DEF FindUpload, Validate, ParseText, BuildBook, SaveFiles, Advance, PanicInCall,
                 Panic, Stages
  <2>3. /\ stage'[r] = to /\ step'[r] = "update"
        /\ \A q \in Request : q # r => stage'[q] = stage[q] /\ step'[q] = step[q]
    BY <1>t, <2>2 DEF Goto
  <2>4. /\ to # "start" /\ stage[r] \notin Closing \cup {"idle", "done"}
        /\ to \in Closing \/ StageProgress(stage[r]) < StageProgress(to)
    BY <2>2 DEF Closing, StageProgress
  <2>5. handler[r] = "done"
    BY <1>t, <2>4
  <2>6. OnTrack(r) => OnTrack(r)'
    BY <2>1, <2>3, <2>4, <2>5 DEF OnTrack, Running
  <2> QED BY <1>1, <2>1, <2>3, <2>5, <2>6
<1>13. ASSUME NEW r \in Request, Finish(r) PROVE ProgressInv'
  <2>1. /\ UNCHANGED <<cancelling, tasks, handler, status, progress>>
        /\ stage[r] \in Closing /\ step[r] = "act"
        /\ stage'[r] = "done" /\ step'[r] = "none"
        /\ \A q \in Request : q # r => stage'[q] = stage[q] /\ step'[q] = step[q]
    BY <1>13, <1>t DEF Finish, Goto
  <2>2. handler[r] = "done"
    BY <1>t, <2>1 DEF Closing
  <2>3. OnTrack(r) => OnTrack(r)'
    BY <2>1, <2>2 DEF OnTrack, Running, Closing
  <2> QED BY <1>1, <2>1, <2>2, <2>3
<1>14. ASSUME NEW why, Die(why) PROVE ProgressInv'
  <2>1. \A r \in Request : tasks'[TaskOf[r]] = Nil
    BY <1>14, <1>t DEF Die
  <2>2. \A r \in Request : handler'[r] \in {"new", "checked", "found"} => progress'[r] = 0
    BY <1>14 DEF Die
  <2> QED BY <2>1, <2>2
<1>15. ASSUME NEW s \in Subscriber,
              \/ \E t \in TaskID : SseCheck(s, t)
              \/ SseOpen(s) \/ SseReceive(s) \/ SseEnd(s) \/ SseDisconnect(s)
       PROVE  ProgressInv'
  BY <1>2, <1>15 DEF SseCheck, SseOpen, SseReceive, SseEnd, SseDisconnect
<1>16. CASE Restart \/ UNCHANGED vars
  BY <1>2, <1>16 DEF Restart
<1> QED BY <1>3, <1>4, <1>5, <1>6, <1>7, <1>8, <1>9, <1>10, <1>11, <1>12, <1>13, <1>14,
           <1>15, <1>16
        DEF Next, ConvertHandler, Goroutine, ExitInParse, PanicInRecover, Signal

(* The invariant behind the refinement. *)
LEMMA ProgressInvariant ==
  ASSUME OneRequestPerTask
  PROVE  Spec => []ProgressInv
<1>1. Init => ProgressInv
  BY DEF Init, ProgressInv
<1> QED BY <1>1, BaseInvariant, ProgressInductive, PTL DEF Spec

-----------------------------------------------------------------------------
(* What the two variables of TaskLifecycle stand for. *)
Shown(t) == IF tasks[t] = Nil THEN "absent" ELSE status[tasks[t]]

Percent(t) == IF tasks[t] = Nil THEN 0 ELSE progress[tasks[t]]

AbstractState == [t \in TaskID |-> Shown(t)]

AbstractPercent == [t \in TaskID |-> Percent(t)]

Mapped ==
  /\ AbstractState = [t \in TaskID |-> GetTaskStatus(t).status]
  /\ AbstractPercent = [t \in TaskID |-> GetTaskStatus(t).progress]

(* The refinement mapping, task by task. *)
LEMMA Mapping == Mapped /\ Mapped'
BY DEF Mapped, AbstractState, AbstractPercent, Shown, Percent, GetTaskStatus

(* One task shows a new status, or none does. *)
LEMMA SetOne ==
  ASSUME NEW t \in TaskID, NEW st, NEW p,
         Shown(t)' = st, Percent(t)' = p,
         \A u \in TaskID : u # t => Shown(u)' = Shown(u) /\ Percent(u)' = Percent(u)
  PROVE  /\ AbstractState' = [AbstractState EXCEPT ![t] = st]
         /\ AbstractPercent' = [AbstractPercent EXCEPT ![t] = p]
BY DEF AbstractState, AbstractPercent

(* A step that shows nothing new is a stutter of TaskLifecycle. *)
LEMMA SetNone ==
  ASSUME \A u \in TaskID : Shown(u)' = Shown(u) /\ Percent(u)' = Percent(u)
  PROVE  UNCHANGED <<AbstractState, AbstractPercent>>
BY DEF AbstractState, AbstractPercent

(* What a step may do to what is shown, action by action of TaskLifecycle. *)
AbstractSet(t, st, p) ==
  /\ AbstractState' = [AbstractState EXCEPT ![t] = st]
  /\ AbstractPercent' = [AbstractPercent EXCEPT ![t] = p]

AbstractStep(t) ==
  \/ Shown(t) = "absent" /\ AbstractSet(t, "pending", 0)
  \/ /\ Shown(t) \in {"pending", "processing"}
     /\ \E p \in {10, 20, 40, 60, 80} : p > Percent(t) /\ AbstractSet(t, "processing", p)
  \/ Shown(t) = "processing" /\ AbstractSet(t, "completed", 100)
  \/ Shown(t) = "processing" /\ AbstractSet(t, "failed", 0)
  \/ Shown(t) \in {"pending", "processing"} /\ AbstractSet(t, "cancelled", Percent(t))
  \/ Shown(t) # "absent" /\ AbstractSet(t, "absent", 0)

AbstractCrash ==
  /\ AbstractState' = [t \in TaskID |-> "absent"]
  /\ AbstractPercent' = [t \in TaskID |-> 0]

(* Every step of the pipeline is one step of one task, the end of all, or  *)
(* not to be seen.                                                         *)
LEMMA StepImplements ==
  ASSUME OneRequestPerTask, BaseInv, ProgressInv, [Next]_vars
  PROVE  \/ \E t \in TaskID : AbstractStep(t)
         \/ AbstractCrash
         \/ UNCHANGED <<AbstractState, AbstractPercent>>
<1>a. Facts
  BY Base
<1>t. /\ tasks \in [TaskID -> Request \cup {Nil}]
      /\ \A r \in Request : TaskOf[r] \in TaskID /\ tasks[TaskOf[r]] \in {Nil, r}
      /\ \A r \in Request :
           handler[r] \in {"new", "checked", "found", "created"} => stage[r] = "idle"
  BY <1>a DEF Facts
<1>o. /\ status \in [Request -> Statuses] /\ progress \in [Request -> 0..100]
      /\ \A t \in TaskID : tasks[t] # Nil => tasks[t] \in Request /\ TaskOf[tasks[t]] = t
  <2>1. status \in [Request -> Statuses] /\ progress \in [Request -> 0..100]
    BY DEF BaseInv, TypeInv, TypeOK
  <2>2. \A t \in TaskID : tasks[t] # Nil => tasks[t] \in Request /\ TaskOf[tasks[t]] = t
    BY <1>t DEF BaseInv, ChannelInv
  <2> QED BY <2>1, <2>2
<1>1. ASSUME UNCHANGED <<tasks, status, progress>>
      PROVE  UNCHANGED <<AbstractState, AbstractPercent>>
  BY <1>1, SetNone DEF Shown, Percent
<1>2. ASSUME NEW r \in Request, CreateTask(r) PROVE AbstractStep(TaskOf[r])
  <2>1. tasks[TaskOf[r]] = Nil /\ progress[r] = 0
    BY <1>2 DEF CreateTask, BaseInv, OutcomeInv, ProgressInv
  <2>2. tasks' = [tasks EXCEPT ![TaskOf[r]] = r] /\ status' = [status EXCEPT ![r] = "pending"]
        /\ progress' = progress
    BY <1>2 DEF CreateTask
  <2>3. Shown(TaskOf[r]) = "absent" /\ Shown(TaskOf[r])' = "pending" /\ Percent(TaskOf[r])' = 0
    BY <1>t, <1>o, <2>1, <2>2 DEF Shown, Percent
  <2>4. ASSUME NEW u \in TaskID, u # TaskOf[r]
        PROVE  Shown(u)' = Shown(u) /\ Percent(u)' = Percent(u)
    <3>1. tasks'[u] = tasks[u] /\ tasks[u] # r
      BY <1>t, <1>o, <2>2, <2>4
    <3>2. tasks[u] # Nil => tasks[u] \in Request /\ status'[tasks[u]] = status[tasks[u]]
      BY <1>o, <2>2, <2>4, <3>1
    <3> QED BY <2>2, <3>1, <3>2 DEF Shown, Percent
  <2>5. AbstractSet(TaskOf[r], "pending", 0)
    BY <1>t, <2>3, <2>4, SetOne DEF AbstractSet
  <2> QED BY <2>3, <2>5 DEF AbstractStep
<1>3. ASSUME NEW r \in Request, UpdateStatus(r), tasks[TaskOf[r]] # Nil
      PROVE  AbstractStep(TaskOf[r])
  <2>1. /\ stage[r] \in Stages /\ step[r] = "update" /\ tasks' = tasks /\ cancelling = Nil
        /\ tasks[TaskOf[r]] = r
    BY <1>3, <1>t DEF UpdateStatus, Running, MuFree
  <2>2. /\ status' = [status EXCEPT ![r] = StageStatus(stage[r])]
        /\ progress' = [progress EXCEPT ![r] = StageProgress(stage[r])]
    BY <1>3, <2>1 DEF UpdateStatus
  <2>3. /\ Shown(TaskOf[r]) = status[r] /\ Percent(TaskOf[r]) = progress[r]
        /\ Shown(TaskOf[r])' = StageStatus(stage[r])
        /\ Percent(TaskOf[r])' = StageProgress(stage[r])
    BY <1>t, <1>o, <2>1, <2>2 DEF Shown, Percent
  <2>4. ASSUME NEW u \in TaskID, u # TaskOf[r]
        PROVE  Shown(u)' = Shown(u) /\ Percent(u)' = Percent(u)
    <3>1. tasks[u] # r
      BY <1>o, <2>4
    <3>2. tasks[u] # Nil => /\ status'[tasks[u]] = status[tasks[u]]
                            /\ progress'[tasks[u]] = progress[tasks[u]]
      BY <1>o, <2>2, <2>4, <3>1
    <3> QED BY <2>1, <3>2 DEF Shown, Percent
  <2>5. AbstractSet(TaskOf[r], StageStatus(stage[r]), StageProgress(stage[r]))
    BY <1>t, <2>3, <2>4, SetOne DEF AbstractSet
  <2>6. OnTrack(r)
    BY <2>1 DEF ProgressInv
  <2>7. /\ handler[r] # "created" /\ stage[r] \notin {"idle", "done"}
        /\ \/ stage[r] = "start" /\ status[r] = "pending" /\ progress[r] = 0
           \/ /\ stage[r] # "start" /\ status[r] = "processing"
              /\ stage[r] \in Closing \/ progress[r] < StageProgress(stage[r])
    BY <1>t, <2>1, <2>6 DEF OnTrack, Stages
  <2>8. CASE stage[r] \in Closing
    <3>1. status[r] = "processing"
      BY <2>7, <2>8 DEF Closing
    <3>2. \/ StageStatus(stage[r]) = "completed" /\ StageProgress(stage[r]) = 100
          \/ StageStatus(stage[r]) = "failed" /\ StageProgress(stage[r]) = 0
      BY <2>8 DEF Closing, StageStatus, StageProgress
    <3> QED BY <2>3, <2>5, <3>1, <3>2 DEF AbstractStep
  <2>9. CASE stage[r] \notin Closing
    <3>1. StageStatus(stage[r]) = "processing" /\ StageProgress(stage[r]) \in {10, 20, 40, 60, 80}
      BY <2>1, <2>9 DEF Closing, Stages, StageStatus, StageProgress
    <3>2. status[r] \in {"pending", "processing"} /\ StageProgress(stage[r]) > progress[r]
      <4>1. progress[r] \in 0..100
        BY <1>o
      <4> QED BY <2>7, <2>9, <3>1, <4>1
    <3> QED BY <2>3, <2>5, <3>1, <3>2 DEF AbstractStep
  <2> QED BY <2>8, <2>9
<1>4. ASSUME NEW t \in TaskID, CancelTask(t) PROVE AbstractStep(t)
  <2>1. /\ tasks[t] \in Request /\ TaskOf[tasks[t]] = t /\ cancelling = Nil
        /\ status[tasks[t]] \notin Settled
        /\ tasks' = tasks /\ progress' = progress
        /\ status' = [status EXCEPT ![tasks[t]] = "cancelled"]
    BY <1>4, <1>o DEF CancelTask, MuFree
  <2>2. /\ Shown(t) = status[tasks[t]] /\ Percent(t) = progress[tasks[t]]
        /\ Shown(t)' = "cancelled" /\ Percent(t)' = Percent(t)
    BY <1>o, <2>1 DEF Shown, Percent
  <2>3. ASSUME NEW u \in TaskID, u # t
        PROVE  Shown(u)' = Shown(u) /\ Percent(u)' = Percent(u)
    <3>1. tasks[u] # tasks[t]
      BY <1>o, <2>1, <2>3
    <3>2. tasks[u] # Nil => status'[tasks[u]] = status[tasks[u]]
      BY <1>o, <2>1, <3>1
    <3> QED BY <2>1, <3>2 DEF Shown, Percent
  <2>4. AbstractSet(t, "cancelled", Percent(t))
    BY <2>2, <2>3, SetOne DEF AbstractSet
  <2>5. status[tasks[t]] \in {"pending", "processing"}
    BY <2>1 DEF ProgressInv, OnTrack
  <2> QED BY <2>2, <2>4, <2>5 DEF AbstractStep
<1>5. ASSUME NEW t \in TaskID, CleanupEnd(t)
      PROVE  AbstractStep(t) \/ UNCHANGED <<AbstractState, AbstractPercent>>
  <2>1. tasks' = [tasks EXCEPT ![t] = Nil] /\ UNCHANGED <<status, progress>>
    BY <1>5 DEF CleanupEnd
  <2>2. tasks'[t] = Nil /\ \A u \in TaskID : u # t => tasks'[u] = tasks[u]
    BY <1>t, <2>1
  <2>3. CASE tasks[t] = Nil
    <3>1. \A u \in TaskID : Shown(u)' = Shown(u) /\ Percent(u)' = Percent(u)
      BY <2>1, <2>2, <2>3 DEF Shown, Percent
    <3> QED BY <3>1, SetNone
  <2>4. CASE tasks[t] # Nil
    <3>1. Shown(t) # "absent"
      BY <1>o, <2>4 DEF Shown, Statuses
    <3>2. Shown(t)' = "absent" /\ Percent(t)' = 0
      BY <2>2 DEF Shown, Percent
    <3>3. \A u \in TaskID : u # t => Shown(u)' = Shown(u) /\ Percent(u)' = Percent(u)
      BY <2>1, <2>2 DEF Shown, Percent
    <3>4. AbstractSet(t, "absent", 0)
      BY <3>2, <3>3, SetOne DEF AbstractSet
    <3> QED BY <3>1, <3>4 DEF AbstractStep
  <2> QED BY <2>3, <2>4
<1>6. ASSUME NEW why, Die(why) PROVE AbstractCrash
  <2>1. \A t \in TaskID : Shown(t)' = "absent" /\ Percent(t)' = 0
    BY <1>6 DEF Die, Shown, Percent
  <2> QED BY <2>1 DEF AbstractCrash, AbstractState, AbstractPercent
<1>7. ASSUME NEW r \in Request, UpdateStatus(r), tasks[TaskOf[r]] = Nil
      PROVE  UNCHANGED <<AbstractState, AbstractPercent>>
  BY <1>1, <1>7 DEF UpdateStatus
<1>8. ASSUME NEW t \in TaskID, UploadFile(t) \/ CleanupBegin(t)
      PROVE  UNCHANGED <<AbstractState, AbstractPercent>>
  BY <1>1, <1>8 DEF UploadFile, CleanupBegin
<1>9. ASSUME NEW r \in Request,
             \/ CheckTask(r) \/ CheckUpload(r) \/ StartConversion(r) \/ LookupChannel(r)
             \/ SendEvent(r) \/ SendOnClosed(r) \/ FindUpload(r) \/ Validate(r)
             \/ ParseText(r) \/ BuildBook(r) \/ SaveFiles(r) \/ PanicInCall(r) \/ Finish(r)
      PROVE  UNCHANGED <<AbstractState, AbstractPercent>>
  BY <1>1, <1>9 DEF CheckTask, CheckUpload, StartConversion, LookupChannel, SendEvent,
                    SendOnClosed, FindUpload, Validate, ParseText, BuildBook, SaveFiles,
                    PanicInCall, Finish, Advance
<1>10. ASSUME NEW s \in Subscriber,
              \/ \E t \in TaskID : SseCheck(s, t)
              \/ SseOpen(s) \/ SseReceive(s) \/ SseEnd(s) \/ SseDisconnect(s)
       PROVE  UNCHANGED <<AbstractState, AbstractPercent>>
  BY <1>1, <1>10 DEF SseCheck, SseOpen, SseReceive, SseEnd, SseDisconnect
<1>11. ASSUME Restart \/ UNCHANGED vars PROVE UNCHANGED <<AbstractState, AbstractPercent>>
  BY <1>1, <1>11 DEF Restart
<1>12. ASSUME NEW r \in Request, CreateTask(r) \/ UpdateStatus(r)
       PROVE  AbstractStep(TaskOf[r]) \/ UNCHANGED <<AbstractState, AbstractPercent>>
  BY <1>2, <1>3, <1>7, <1>12
<1> HIDE DEF AbstractState, AbstractPercent, AbstractStep, AbstractCrash
<1> QED BY <1>t, <1>4, <1>5, <1>6, <1>8, <1>9, <1>10, <1>11, <1>12
        DEF Next, ConvertHandler, Goroutine, ExitInParse, PanicInRecover, Signal

(* The status and progress that GET /status answers over time are a        *)
(* behaviour of TaskLifecycle.                                             *)
THEOREM StatusImplementsLifecycle ==
  ASSUME OneRequestPerTask
  PROVE  Spec => ImplementsLifecycle
<1>1. Init => Lifecycle!Init
  BY DEF Init, Lifecycle!Init, GetTaskStatus
<1>2. BaseInv /\ ProgressInv /\ [Next]_vars => [Lifecycle!Next]_(Lifecycle!vars)
  <2> SUFFICES ASSUME BaseInv, ProgressInv, [Next]_vars
               PROVE  Lifecycle!Next \/ UNCHANGED Lifecycle!vars
    OBVIOUS
  <2>1. CASE UNCHANGED <<AbstractState, AbstractPercent>>
    BY <2>1, Mapping DEF Mapped, Lifecycle!vars
  <2>2. CASE AbstractCrash
    <3>1. Lifecycle!Crash
      BY <2>2, Mapping DEF Mapped, AbstractCrash, Lifecycle!Crash
    <3> QED BY <3>1 DEF Lifecycle!Next
  <2>3. ASSUME NEW t \in TaskID, AbstractStep(t) PROVE Lifecycle!Next
    <3>1. /\ Shown(t) = [u \in TaskID |-> GetTaskStatus(u).status][t]
          /\ Percent(t) = [u \in TaskID |-> GetTaskStatus(u).progress][t]
      BY DEF Shown, Percent, GetTaskStatus
    <3>2. \A st, p : AbstractSet(t, st, p) => Lifecycle!Set(t, st, p)
      BY Mapping DEF Mapped, AbstractSet, Lifecycle!Set
    <3>3. \/ Lifecycle!Create(t) \/ Lifecycle!Report(t) \/ Lifecycle!Complete(t)
          \/ Lifecycle!Fail(t) \/ Lifecycle!Cancel(t) \/ Lifecycle!Remove(t)
      BY <2>3, <3>1, <3>2
         DEF AbstractStep, Lifecycle!Create, Lifecycle!Report, Lifecycle!Complete,
             Lifecycle!Fail, Lifecycle!Cancel, Lifecycle!Remove, Lifecycle!Active
    <3> QED BY <3>3 DEF Lifecycle!Next
  <2> QED BY <2>1, <2>2, <2>3, StepImplements
<1> QED BY <1>1, <1>2, BaseInvariant, ProgressInvariant, PTL
        DEF Spec, ImplementsLifecycle, Lifecycle!Spec
=============================================================================
