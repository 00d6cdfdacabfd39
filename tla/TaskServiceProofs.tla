------------------------- MODULE TaskServiceProofs -------------------------
(***************************************************************************)
(* Theorems about TaskService, for any sets of tasks, requests and         *)
(* subscribers, any channel capacity and any optional callers.             *)
(***************************************************************************)
EXTENDS TaskService, TLAPS

USE NilAssumption, TaskOfAssumption, CapAssumption, RestartsAssumption

(* What a process may dereference exists: a pending send has a channel, an *)
(* open stream has one, a checked subscriber has its task ID.              *)
References ==
  /\ \A r \in Request : step[r] = "send" => sendTo[r] \in Request
  /\ \A s \in Subscriber : sse[s] = "stream" => sseChan[s] \in Request
  /\ \A s \in Subscriber : sse[s] = "checked" => sseTask[s] \in TaskID

TypeInv == TypeOK /\ References

(* The status and progress a stage writes are ones TaskInfo may hold. *)
LEMMA StageTypes ==
  ASSUME NEW s \in Stages
  PROVE  StageStatus(s) \in Statuses /\ StageProgress(s) \in 0..100
BY DEF Stages, StageStatus, StageProgress, Statuses

(* Receiving from a non-empty channel. *)
LEMMA HeadTail ==
  ASSUME NEW S, NEW q \in Seq(S), q # <<>>
  PROVE  Head(q) \in S /\ Tail(q) \in Seq(S)
OBVIOUS

(* Counting a restart. *)
LEMMA Increment ==
  ASSUME NEW n \in 0..MaxRestarts, n < MaxRestarts
  PROVE  n + 1 \in 0..MaxRestarts
OBVIOUS

(* Sending to a channel. *)
LEMMA AppendType ==
  ASSUME NEW S, NEW q \in Seq(S), NEW e \in S
  PROVE  Append(q, e) \in Seq(S)
OBVIOUS

USE DEF vars, mem, objects, mutex, worker, files, stream, process

(* No step of the pipeline breaks the types or leaves a dangling           *)
(* reference.                                                              *)
LEMMA TypeInductive == TypeInv /\ [Next]_vars => TypeInv'
<1> SUFFICES ASSUME TypeInv, [Next]_vars PROVE TypeInv'
  OBVIOUS
<1> USE DEF TypeInv, TypeOK, References
<1>1. ASSUME NEW t \in TaskID, UploadFile(t) PROVE TypeInv'
  BY <1>1 DEF UploadFile, SaveUploadedFile
<1>2. ASSUME NEW t \in TaskID, CleanupBegin(t) PROVE TypeInv'
  BY <1>2 DEF CleanupBegin
<1>3. ASSUME NEW t \in TaskID, CleanupEnd(t) PROVE TypeInv'
  BY <1>3 DEF CleanupEnd, CloseChannel
<1>4. ASSUME NEW t \in TaskID, CancelTask(t) PROVE TypeInv'
  BY <1>4 DEF CancelTask, Statuses
<1>5. ASSUME NEW r \in Request, ConvertHandler(r) PROVE TypeInv'
  <2>1. CASE CheckTask(r)
    BY <2>1 DEF CheckTask
  <2>2. CASE CheckUpload(r)
    BY <2>2 DEF CheckUpload
  <2>3. CASE CreateTask(r)
    BY <2>3 DEF CreateTask, Statuses
  <2>4. CASE StartConversion(r)
    <3>1. handler' \in [Request -> {"new", "checked", "found", "created", "done"}]
      BY <2>4 DEF StartConversion
    <3>2. \/ stage' = stage /\ step' = step
          \/ stage' = [stage EXCEPT ![r] = "start"] /\ step' = [step EXCEPT ![r] = "update"]
      BY <2>4 DEF StartConversion, Goto
    <3>3. /\ stage' \in [Request -> Stages \cup {"idle", "done"}]
          /\ step' \in [Request -> {"none", "update", "lookup", "send", "act"}]
      BY <3>2 DEF Stages
    <3>4. \A q \in Request : step'[q] = "send" => step[q] = "send"
      BY <3>2
    <3> QED BY <2>4, <3>1, <3>3, <3>4 DEF StartConversion
  <2> QED BY <1>5, <2>1, <2>2, <2>3, <2>4 DEF ConvertHandler
<1>6. ASSUME NEW r \in Request, UpdateStatus(r) PROVE TypeInv'
  <2>1. stage[r] \in Stages
    BY <1>6 DEF UpdateStatus, Running
  <2>2. StageStatus(stage[r]) \in Statuses /\ StageProgress(stage[r]) \in 0..100
    BY <2>1, StageTypes
  <2>3. tasks[TaskOf[r]] \in Request \cup {Nil}
    OBVIOUS
  <2>4. status' \in [Request -> Statuses]
    <3>1. \/ status' = status
          \/ status' = [status EXCEPT ![tasks[TaskOf[r]]] = StageStatus(stage[r])]
      BY ONLY <1>6 DEF UpdateStatus
    <3>2. status \in [Request -> Statuses]
      OBVIOUS
    <3> QED BY ONLY <2>2, <3>1, <3>2
  <2>5. progress' \in [Request -> 0..100]
    <3>1. \/ progress' = progress
          \/ progress' = [progress EXCEPT ![tasks[TaskOf[r]]] = StageProgress(stage[r])]
      BY ONLY <1>6 DEF UpdateStatus
    <3>2. progress \in [Request -> 0..100]
      OBVIOUS
    <3> QED BY ONLY <3>1, <3>2, <2>2
  <2> QED BY <1>6, <2>4, <2>5 DEF UpdateStatus, Goto, Running
<1>7. ASSUME NEW r \in Request, LookupChannel(r) PROVE TypeInv'
  <2>1. stage' \in [Request -> Stages \cup {"idle", "done"}]
    BY <1>7 DEF LookupChannel, Goto
  <2>2. step' \in [Request -> {"none", "update", "lookup", "send", "act"}]
    BY <1>7 DEF LookupChannel, Goto
  <2>3. sendTo' \in [Request -> Request \cup {Nil}]
    BY <1>7 DEF LookupChannel
  <2>4. \A q \in Request : step'[q] = "send" => sendTo'[q] \in Request
    <3>1. eventChannels[TaskOf[r]] \in Request \cup {Nil}
      OBVIOUS
    <3> QED BY <1>7, <3>1 DEF LookupChannel, Goto
  <2> QED BY <1>7, <2>1, <2>2, <2>3, <2>4 DEF LookupChannel
<1>8. ASSUME NEW r \in Request, SendEvent(r) PROVE TypeInv'
  <2>1. sendTo[r] \in Request /\ stage[r] \in Stages
    BY <1>8 DEF SendEvent, Running
  <2>2. Append(buf[sendTo[r]], stage[r]) \in Seq(Stages)
    BY <2>1, AppendType
  <2>3. buf' \in [Request -> Seq(Stages)]
    BY <1>8, <2>1, <2>2 DEF SendEvent
  <2> QED BY <1>8, <2>1, <2>3 DEF SendEvent, Goto
<1>9. ASSUME NEW r \in Request, SendOnClosed(r) \/ PanicInCall(r) PROVE TypeInv'
  <2>1. Panic(r) /\ UNCHANGED <<mem, objects, mutex, handler, files, stream, process>>
    BY <1>9 DEF SendOnClosed, PanicInCall
  <2> QED BY <2>1 DEF Panic, Goto, Stages
<1>10. ASSUME NEW r \in Request,
              FindUpload(r) \/ Validate(r) \/ ParseText(r) \/ BuildBook(r) \/ SaveFiles(r)
       PROVE TypeInv'
  <2>1. /\ \E next \in Stages : Goto(r, next, "update")
        /\ UNCHANGED <<mem, objects, mutex, handler, sendTo, stream, process>>
    BY <1>10 DEF FindUpload, Validate, ParseText, BuildBook, SaveFiles, Advance, Stages
  <2>2. upload' = upload /\ outputs' \in {outputs, outputs \cup {TaskOf[r]}}
    BY <1>10 DEF FindUpload, Validate, ParseText, BuildBook, SaveFiles
  <2>3. PICK next \in Stages : Goto(r, next, "update")
    BY <2>1
  <2>4. outputs' \in SUBSET TaskID
    <3>1. TaskOf[r] \in TaskID /\ outputs \in SUBSET TaskID
      OBVIOUS
    <3> QED BY ONLY <2>2, <3>1
  <2>5. /\ stage' \in [Request -> Stages \cup {"idle", "done"}]
        /\ step' \in [Request -> {"none", "update", "lookup", "send", "act"}]
        /\ \A q \in Request : step'[q] = "send" => step[q] = "send"
    BY <2>3 DEF Goto
  <2> QED BY <2>1, <2>2, <2>4, <2>5
<1>11. ASSUME NEW r \in Request, Finish(r) PROVE TypeInv'
  BY <1>11 DEF Finish, CloseChannel, Goto
<1>12. ASSUME NEW why \in {"signal", "exit in parse", "panic in recover"}, Die(why)
       PROVE TypeInv'
  <2>1. /\ handler' \in [Request -> {"new", "checked", "found", "created", "done"}]
        /\ stage' \in [Request -> Stages \cup {"idle", "done"}]
    BY <1>12 DEF Die
  <2>2. sse' \in [Subscriber -> {"idle", "checked", "stream", "refused", "ended", "left"}]
    BY <1>12 DEF Die
  <2>3. \A s \in Subscriber : sse'[s] \notin {"checked", "stream"}
    BY <1>12 DEF Die
  <2> QED BY <1>12, <2>1, <2>2, <2>3 DEF Die
<1>13. ASSUME Restart PROVE TypeInv'
  <2>1. restarts' \in 0..MaxRestarts
    <3>1. restarts < MaxRestarts /\ restarts' = restarts + 1
      BY <1>13 DEF Restart
    <3> QED BY <3>1, Increment
  <2> QED BY <1>13, <2>1 DEF Restart
<1>14. ASSUME NEW s \in Subscriber, NEW t \in TaskID, SseCheck(s, t) PROVE TypeInv'
  BY <1>14 DEF SseCheck
<1>15. ASSUME NEW s \in Subscriber, SseOpen(s) PROVE TypeInv'
  <2>1. sseTask[s] \in TaskID /\ eventChannels[sseTask[s]] \in Request \cup {Nil}
    BY <1>15 DEF SseOpen
  <2> QED BY <1>15, <2>1 DEF SseOpen
<1>16. ASSUME NEW s \in Subscriber, SseReceive(s) PROVE TypeInv'
  <2>1. sseChan[s] \in Request /\ buf[sseChan[s]] \in Seq(Stages) /\ buf[sseChan[s]] # <<>>
    BY <1>16 DEF SseReceive
  <2>2. Head(buf[sseChan[s]]) \in Stages /\ Tail(buf[sseChan[s]]) \in Seq(Stages)
    BY <2>1, HeadTail
  <2>3. buf' \in [Request -> Seq(Stages)] /\ lastEvent' \in [Subscriber -> Stages \cup {"none"}]
    BY <1>16, <2>1, <2>2 DEF SseReceive
  <2> QED BY <1>16, <2>3 DEF SseReceive
<1>17. ASSUME NEW s \in Subscriber, SseEnd(s) \/ SseDisconnect(s) PROVE TypeInv'
  <2>1. PICK pc \in {"ended", "left"} : sse' = [sse EXCEPT ![s] = pc]
    BY <1>17 DEF SseEnd, SseDisconnect
  <2>2. UNCHANGED <<mem, objects, mutex, handler, worker, files, sseTask, sseChan,
                    lastEvent, process>>
    BY <1>17 DEF SseEnd, SseDisconnect
  <2> QED BY <2>1, <2>2
<1>18. CASE UNCHANGED vars
  BY <1>18
<1> QED BY <1>1, <1>2, <1>3, <1>4, <1>5, <1>6, <1>7, <1>8, <1>9, <1>10, <1>11, <1>12,
           <1>13, <1>14, <1>15, <1>16, <1>17, <1>18
        DEF Next, Goroutine, ExitInParse, PanicInRecover, Signal

(* The inductive form of TypeOK. *)
LEMMA TypeInvariant == Spec => []TypeInv
<1>1. Init => TypeInv
  BY DEF Init, TypeInv, TypeOK, References, Statuses, Stages
<1> QED BY <1>1, TypeInductive, PTL DEF Spec

(* Every variable of the pipeline keeps its type in every reachable state. *)
THEOREM TypeCorrect == Spec => []TypeOK
<1>1. TypeInv => TypeOK
  BY DEF TypeInv
<1> QED BY <1>1, TypeInvariant, PTL

-----------------------------------------------------------------------------
(* What the channel invariant needs besides itself: the task map files a   *)
(* TaskInfo under its own ID, and a request that has not reached           *)
(* CreateTask has an open channel and no goroutine.                        *)
ChannelInv ==
  /\ \A t \in TaskID : tasks[t] # Nil => TaskOf[tasks[t]] = t
  /\ \A r \in Request :
       handler[r] \in {"new", "checked", "found"} => ~ closed[r] /\ stage[r] = "idle"
  /\ MappedChannelHasProducer

(* No step of the pipeline breaks ChannelInv. *)
LEMMA ChannelInductive == TypeInv /\ ChannelInv /\ [Next]_vars => ChannelInv'
<1> SUFFICES ASSUME TypeInv, ChannelInv, [Next]_vars PROVE ChannelInv'
  OBVIOUS
<1>t. /\ tasks \in [TaskID -> Request \cup {Nil}]
      /\ eventChannels \in [TaskID -> Request \cup {Nil}]
      /\ closed \in [Request -> BOOLEAN]
      /\ handler \in [Request -> {"new", "checked", "found", "created", "done"}]
      /\ stage \in [Request -> Stages \cup {"idle", "done"}]
  BY DEF TypeInv, TypeOK
<1> USE <1>t DEF ChannelInv, MappedChannelHasProducer
<1>1. ASSUME NEW t \in TaskID, UploadFile(t) \/ CleanupBegin(t) \/ CancelTask(t)
      PROVE  ChannelInv'
  BY <1>1 DEF UploadFile, CleanupBegin, CancelTask, Running
<1>u. ASSUME NEW t \in TaskID, CloseChannel(t)
      PROVE  /\ eventChannels'[t] = Nil
             /\ \A u \in TaskID :
                  eventChannels'[u] # Nil => /\ u # t
                                             /\ eventChannels'[u] = eventChannels[u]
                                             /\ ~ closed'[eventChannels[u]]
             /\ \A r \in Request : closed'[r] => closed[r] \/ r = eventChannels[t]
  BY <1>u DEF CloseChannel
<1>2. ASSUME NEW t \in TaskID, CleanupEnd(t) PROVE ChannelInv'
  <2>1. CloseChannel(t) /\ UNCHANGED <<handler, stage>> /\ tasks' = [tasks EXCEPT ![t] = Nil]
    BY <1>2 DEF CleanupEnd
  <2>2. \A u \in TaskID : tasks'[u] # Nil => TaskOf[tasks'[u]] = u
    BY <2>1
  <2>3. \A r \in Request : handler'[r] \in {"new", "checked", "found"} => ~ closed'[r] /\ stage'[r] = "idle"
    <3>1. eventChannels[t] # Nil => handler[eventChannels[t]] \notin {"new", "checked", "found"}
      BY <2>1 DEF Running, Stages
    <3> QED BY <2>1, <1>u, <3>1
  <2>4. ASSUME NEW u \in TaskID, eventChannels'[u] # Nil
        PROVE  /\ ~ closed'[eventChannels'[u]]
               /\ tasks'[u] = eventChannels'[u]
               /\ handler'[eventChannels'[u]] = "created" \/ stage'[eventChannels'[u]] \in Stages
    <3>1. u # t /\ eventChannels'[u] = eventChannels[u] /\ ~ closed'[eventChannels[u]]
      BY <2>1, <2>4, <1>u
    <3>2. tasks'[u] = tasks[u] /\ handler' = handler /\ stage' = stage
      BY <2>1, <3>1
    <3>3. /\ tasks[u] = eventChannels[u]
          /\ handler[eventChannels[u]] = "created" \/ stage[eventChannels[u]] \in Stages
      BY <2>4, <3>1 DEF Running
    <3> QED BY ONLY <3>1, <3>2, <3>3
  <2> QED BY <2>2, <2>3, <2>4 DEF Running
<1>3. ASSUME NEW r \in Request, CheckTask(r) \/ CheckUpload(r) PROVE ChannelInv'
  BY <1>3 DEF CheckTask, CheckUpload, Running
<1>4. ASSUME NEW r \in Request, CreateTask(r) PROVE ChannelInv'
  BY <1>4 DEF CreateTask, Running
<1>5. ASSUME NEW r \in Request, StartConversion(r) PROVE ChannelInv'
  BY <1>5 DEF StartConversion, Goto, Running, Stages
<1>6. ASSUME NEW r \in Request,
             Running(r), Running(r)', \A q \in Request : q # r => stage'[q] = stage[q],
             UNCHANGED <<tasks, eventChannels, closed, handler>>
      PROVE  ChannelInv'
  <2>1. handler[r] \notin {"new", "checked", "found"}
    BY <1>6 DEF Running, Stages
  <2>2. ASSUME NEW q \in Request, handler'[q] \in {"new", "checked", "found"}
        PROVE  ~ closed'[q] /\ stage'[q] = "idle"
    BY <1>6, <2>1, <2>2
  <2>3. ASSUME NEW u \in TaskID, eventChannels'[u] # Nil
        PROVE  handler'[eventChannels'[u]] = "created" \/ stage'[eventChannels'[u]] \in Stages
    BY <1>6, <2>3 DEF Running
  <2> QED BY <1>6, <2>2, <2>3 DEF Running
<1>7. ASSUME NEW r \in Request,
             \/ UpdateStatus(r) \/ LookupChannel(r) \/ SendEvent(r) \/ SendOnClosed(r)
             \/ PanicInCall(r)
      PROVE  ChannelInv'
  BY <1>6, <1>7 DEF UpdateStatus, LookupChannel, SendEvent, SendOnClosed, PanicInCall,
                    Panic, Goto, Running, Stages
<1>8. ASSUME NEW r \in Request,
             FindUpload(r) \/ Validate(r) \/ ParseText(r) \/ BuildBook(r) \/ SaveFiles(r)
      PROVE  ChannelInv'
  BY <1>6, <1>8 DEF FindUpload, Validate, ParseText, BuildBook, SaveFiles, Advance,
                    Goto, Running, Stages
<1>9. ASSUME NEW r \in Request, Finish(r) PROVE ChannelInv'
  <2>1. CloseChannel(TaskOf[r]) /\ stage' = [stage EXCEPT ![r] = "done"]
        /\ UNCHANGED <<tasks, handler>> /\ TaskOf[r] \in TaskID
        /\ handler[r] \notin {"new", "checked", "found"}
    BY <1>9 DEF Finish, Goto, Closing
  <2>2. \A u \in TaskID : eventChannels'[u] # Nil => eventChannels[u] # r
    BY <2>1, <1>u
  <2>3. \A q \in Request : handler'[q] \in {"new", "checked", "found"} => ~ closed'[q] /\ stage'[q] = "idle"
    <3>1. LET ch == eventChannels[TaskOf[r]] IN
            ch # Nil => handler[ch] \notin {"new", "checked", "found"}
      BY <2>1 DEF Running, Stages
    <3> QED BY <2>1, <1>u, <3>1
  <2>4. ASSUME NEW u \in TaskID, eventChannels'[u] # Nil
        PROVE  /\ ~ closed'[eventChannels'[u]]
               /\ tasks'[u] = eventChannels'[u]
               /\ handler'[eventChannels'[u]] = "created" \/ stage'[eventChannels'[u]] \in Stages
    <3>1. /\ eventChannels'[u] = eventChannels[u] /\ ~ closed'[eventChannels[u]]
          /\ eventChannels[u] # r /\ eventChannels[u] \in Request
      BY <2>1, <2>2, <2>4, <1>u
    <3>2. tasks' = tasks /\ handler' = handler /\ stage'[eventChannels[u]] = stage[eventChannels[u]]
      BY <2>1, <3>1
    <3>3. /\ tasks[u] = eventChannels[u]
          /\ handler[eventChannels[u]] = "created" \/ stage[eventChannels[u]] \in Stages
      BY <2>4, <3>1 DEF Running
    <3> QED BY ONLY <3>1, <3>2, <3>3
  <2>5. \A u \in TaskID : tasks'[u] # Nil => TaskOf[tasks'[u]] = u
    BY <2>1
  <2> QED BY <2>3, <2>4, <2>5 DEF Running
<1>10. ASSUME NEW why, Die(why) PROVE ChannelInv'
  BY <1>10 DEF Die
<1>11. ASSUME UNCHANGED <<tasks, eventChannels, closed, handler, stage>> PROVE ChannelInv'
  BY <1>11 DEF Running
<1>12. ASSUME NEW s \in Subscriber,
              \/ \E t \in TaskID : SseCheck(s, t)
              \/ SseOpen(s) \/ SseReceive(s) \/ SseEnd(s) \/ SseDisconnect(s)
       PROVE  ChannelInv'
  BY <1>11, <1>12 DEF SseCheck, SseOpen, SseReceive, SseEnd, SseDisconnect
<1>13. CASE Restart
  BY <1>11, <1>13 DEF Restart
<1>14. CASE UNCHANGED vars
  BY <1>11, <1>14
<1> QED BY <1>1, <1>2, <1>3, <1>4, <1>5, <1>7, <1>8, <1>9, <1>10, <1>12, <1>13, <1>14
        DEF Next, ConvertHandler, Goroutine, ExitInParse, PanicInRecover, Signal

(* However many requests share a task ID, a mapped channel is open and its *)
(* own request still has to close it.                                      *)
THEOREM ChannelsHaveProducers == Spec => []MappedChannelHasProducer
<1>1. Init => ChannelInv
  BY DEF Init, ChannelInv, MappedChannelHasProducer
<1>2. ChannelInv => MappedChannelHasProducer
  BY DEF ChannelInv
<1> QED BY <1>1, <1>2, ChannelInductive, TypeInvariant, PTL DEF Spec

-----------------------------------------------------------------------------
(* From here on every task ID belongs to one request, as when each upload  *)
(* is converted once.                                                      *)
OneRequestPerTask == \A r, q \in Request : TaskOf[r] = TaskOf[q] => r = q

(* The outcome of a task in the map is set by the last stage of its own    *)
(* goroutine.  Only a cleanup can close the channel under that goroutine,  *)
(* and by then the task has left the map, so the status that the recovery  *)
(* writes goes nowhere.                                                    *)
OutcomeInv ==
  /\ \A r \in Request : sendTo[r] \in {Nil, r}
  /\ \A r \in Request :
       closed[r] /\ stage[r] # "done" => tasks[TaskOf[r]] = Nil
  /\ \A r \in Request :
       status[r] \in Settled /\ tasks[TaskOf[r]] = r =>
         \/ stage[r] = "done"
         \/ stage[r] \in Closing /\ step[r] # "update"
  /\ \A r \in Request :
       handler[r] \in {"new", "checked", "found"} =>
         status[r] = "unborn" /\ stage[r] = "idle" /\ tasks[TaskOf[r]] = Nil
  /\ \A r \in Request : handler[r] = "created" => stage[r] = "idle"

(* No step of the pipeline breaks OutcomeInv. *)
LEMMA OutcomeInductive ==
  ASSUME OneRequestPerTask
  PROVE  TypeInv /\ ChannelInv /\ OutcomeInv /\ [Next]_vars => OutcomeInv'
<1> SUFFICES ASSUME TypeInv, ChannelInv, OutcomeInv, [Next]_vars PROVE OutcomeInv'
  OBVIOUS
<1>t. /\ tasks \in [TaskID -> Request \cup {Nil}]
      /\ eventChannels \in [TaskID -> Request \cup {Nil}]
      /\ closed \in [Request -> BOOLEAN]
      /\ handler \in [Request -> {"new", "checked", "found", "created", "done"}]
      /\ stage \in [Request -> Stages \cup {"idle", "done"}]
      /\ step \in [Request -> {"none", "update", "lookup", "send", "act"}]
      /\ status \in [Request -> Statuses]
      /\ sendTo \in [Request -> Request \cup {Nil}]
  BY DEF TypeInv, TypeOK
<1>o. \A r \in Request : /\ TaskOf[r] \in TaskID
                         /\ tasks[TaskOf[r]] \in {Nil, r}
                         /\ eventChannels[TaskOf[r]] \in {Nil, r}
  BY <1>t DEF OneRequestPerTask, ChannelInv, MappedChannelHasProducer
<1>e. \A r \in Request : handler[r] \in {"new", "checked", "found"} => ~ closed[r]
  BY DEF ChannelInv
<1>q. \A r, q \in Request : r # q => TaskOf[r] # TaskOf[q]
  BY DEF OneRequestPerTask
<1>c. \A t \in TaskID : /\ tasks[t] # Nil => TaskOf[tasks[t]] = t
                        /\ eventChannels[t] # Nil => TaskOf[eventChannels[t]] = t
  BY DEF ChannelInv, MappedChannelHasProducer
<1>s. \A r \in Request : step[r] = "send" => sendTo[r] = r
  BY DEF TypeInv, References, OutcomeInv
<1> USE <1>t, <1>o DEF OutcomeInv, Settled
<1>1. ASSUME UNCHANGED <<tasks, closed, status, handler, stage, step, sendTo>>
      PROVE  OutcomeInv'
  BY <1>1
<1>2. ASSUME NEW t \in TaskID, UploadFile(t) \/ CleanupBegin(t) PROVE OutcomeInv'
  BY <1>1, <1>2 DEF UploadFile, CleanupBegin
<1>3. ASSUME NEW t \in TaskID, CancelTask(t) PROVE OutcomeInv'
  BY <1>3, <1>c DEF CancelTask
<1>4. ASSUME NEW t \in TaskID, CleanupEnd(t) PROVE OutcomeInv'
  BY <1>4, <1>c DEF CleanupEnd, CloseChannel
<1>5. ASSUME NEW r \in Request, CheckTask(r) \/ CheckUpload(r) PROVE OutcomeInv'
  BY <1>5 DEF CheckTask, CheckUpload
<1>6. ASSUME NEW r \in Request, CreateTask(r) PROVE OutcomeInv'
  BY <1>6, <1>e, <1>q DEF CreateTask
<1>7. ASSUME NEW r \in Request, StartConversion(r) PROVE OutcomeInv'
  BY <1>7 DEF StartConversion, Goto, Closing
<1>8. ASSUME NEW r \in Request, UpdateStatus(r) PROVE OutcomeInv'
  BY <1>8 DEF UpdateStatus, Goto, Running, StageStatus, Stages, Closing
<1>9. ASSUME NEW r \in Request, LookupChannel(r) PROVE OutcomeInv'
  BY <1>9 DEF LookupChannel, Goto, Running
<1>10. ASSUME NEW r \in Request, SendEvent(r) PROVE OutcomeInv'
  BY <1>10 DEF SendEvent, Goto, Running
<1>11. ASSUME NEW r \in Request, SendOnClosed(r) PROVE OutcomeInv'
  <2>1. /\ closed[r] /\ stage[r] # "done" /\ stage[r] \in Stages
        /\ stage' = [stage EXCEPT ![r] = "recover"] /\ step' = [step EXCEPT ![r] = "update"]
        /\ sendTo' = [sendTo EXCEPT ![r] = Nil]
        /\ UNCHANGED <<tasks, status, closed, handler>>
    BY <1>11, <1>s DEF SendOnClosed, Panic, Goto, Running, Stages
  <2>2. tasks[TaskOf[r]] = Nil
    BY <2>1
  <2>3. handler[r] \notin {"new", "checked", "found", "created"}
    BY <2>1 DEF Stages
  <2> QED BY <2>1, <2>2, <2>3
<1>12. ASSUME NEW r \in Request, PanicInCall(r) PROVE OutcomeInv'
  BY <1>12 DEF PanicInCall, Panic, Goto, Closing
<1>13. ASSUME NEW r \in Request,
             FindUpload(r) \/ Validate(r) \/ ParseText(r) \/ BuildBook(r) \/ SaveFiles(r)
      PROVE  OutcomeInv'
  BY <1>13 DEF FindUpload, Validate, ParseText, BuildBook, SaveFiles, Advance, Goto, Closing
<1>14. ASSUME NEW r \in Request, Finish(r) PROVE OutcomeInv'
  <2>1. /\ CloseChannel(TaskOf[r]) /\ stage[r] \in Closing
        /\ stage' = [stage EXCEPT ![r] = "done"] /\ step' = [step EXCEPT ![r] = "none"]
        /\ UNCHANGED <<tasks, status, handler, sendTo>>
    BY <1>14 DEF Finish, Goto
  <2>2. \A q \in Request : q # r => closed'[q] = closed[q]
    <3>1. closed' = closed \/ closed' = [closed EXCEPT ![r] = TRUE]
      BY <2>1 DEF CloseChannel
    <3> QED BY <3>1
  <2>3. handler[r] \notin {"new", "checked", "found", "created"}
    BY <2>1 DEF Closing
  <2>4. stage'[r] = "done" /\ \A q \in Request : q # r => stage'[q] = stage[q] /\ step'[q] = step[q]
    BY <2>1
  <2>5. ASSUME NEW q \in Request
        PROVE  /\ closed'[q] /\ stage'[q] # "done" => tasks[TaskOf[q]] = Nil
               /\ status[q] \in Settled /\ tasks[TaskOf[q]] = q =>
                    \/ stage'[q] = "done"
                    \/ stage'[q] \in Closing /\ step'[q] # "update"
               /\ handler[q] \in {"new", "checked", "found", "created"} => stage'[q] = "idle"
    BY <2>2, <2>3, <2>4
  <2> QED BY <2>1, <2>5
<1>15. ASSUME NEW why, Die(why) PROVE OutcomeInv'
  BY <1>15 DEF Die
<1>16. ASSUME NEW s \in Subscriber,
              \/ \E t \in TaskID : SseCheck(s, t)
              \/ SseOpen(s) \/ SseReceive(s) \/ SseEnd(s) \/ SseDisconnect(s)
       PROVE  OutcomeInv'
  BY <1>1, <1>16 DEF SseCheck, SseOpen, SseReceive, SseEnd, SseDisconnect
<1>17. CASE Restart
  BY <1>1, <1>17 DEF Restart
<1>18. CASE UNCHANGED vars
  BY <1>1, <1>18
<1> QED BY <1>2, <1>3, <1>4, <1>5, <1>6, <1>7, <1>8, <1>9, <1>10, <1>11, <1>12, <1>13,
           <1>14, <1>15, <1>16, <1>17, <1>18
        DEF Next, ConvertHandler, Goroutine, ExitInParse, PanicInRecover, Signal

(* Only CreateTask, UpdateStatus and CancelTask write a status, and none   *)
(* of them that of a settled task.                                         *)
LEMMA OutcomeStep ==
  ASSUME OneRequestPerTask, TypeInv, ChannelInv, OutcomeInv, [Next]_vars
  PROVE  \A r \in Request : status[r] \in Settled => status'[r] = status[r]
<1>t. tasks \in [TaskID -> Request \cup {Nil}] /\ status \in [Request -> Statuses]
  BY DEF TypeInv, TypeOK
<1>1. CASE UNCHANGED status
  BY <1>1
<1>2. ASSUME NEW r \in Request, CreateTask(r)
      PROVE  \A q \in Request : status[q] \in Settled => status'[q] = status[q]
  <2>1. status[r] \notin Settled
    BY <1>2 DEF CreateTask, OutcomeInv, Settled
  <2> QED BY <1>t, <1>2, <2>1 DEF CreateTask
<1>3. ASSUME NEW r \in Request, UpdateStatus(r)
      PROVE  \A q \in Request : status[q] \in Settled => status'[q] = status[q]
  <2>1. TaskOf[r] \in TaskID /\ tasks[TaskOf[r]] \in {Nil, r}
    BY <1>t DEF OneRequestPerTask, ChannelInv
  <2>2. stage[r] # "done" /\ step[r] = "update"
    BY <1>3 DEF UpdateStatus, Running, Stages
  <2>3. tasks[TaskOf[r]] = r => status[r] \notin Settled
    BY <2>2 DEF OutcomeInv
  <2>4. \/ status' = status
        \/ tasks[TaskOf[r]] = r /\ status' = [status EXCEPT ![r] = StageStatus(stage[r])]
    BY <1>3, <2>1 DEF UpdateStatus
  <2> QED BY <1>t, <2>3, <2>4
<1>4. ASSUME NEW t \in TaskID, CancelTask(t)
      PROVE  \A q \in Request : status[q] \in Settled => status'[q] = status[q]
  BY <1>t, <1>4 DEF CancelTask
<1>5. \/ UNCHANGED status
      \/ \E r \in Request : CreateTask(r) \/ UpdateStatus(r)
      \/ \E t \in TaskID : CancelTask(t)
  <2>1. ASSUME NEW t \in TaskID, UploadFile(t) \/ CleanupBegin(t) \/ CleanupEnd(t)
        PROVE  UNCHANGED status
    BY <2>1 DEF UploadFile, CleanupBegin, CleanupEnd
  <2>2. ASSUME NEW r \in Request,
               \/ CheckTask(r) \/ CheckUpload(r) \/ StartConversion(r) \/ LookupChannel(r)
               \/ SendEvent(r) \/ SendOnClosed(r) \/ FindUpload(r) \/ Validate(r)
               \/ ParseText(r) \/ BuildBook(r) \/ SaveFiles(r) \/ PanicInCall(r) \/ Finish(r)
        PROVE  UNCHANGED status
    BY <2>2 DEF CheckTask, CheckUpload, StartConversion, LookupChannel, SendEvent,
                SendOnClosed, FindUpload, Validate, ParseText, BuildBook, SaveFiles,
                PanicInCall, Finish, Advance
  <2>3. ASSUME NEW why, Die(why) PROVE UNCHANGED status
    BY <2>3 DEF Die
  <2>4. ASSUME NEW s \in Subscriber,
               \/ \E t \in TaskID : SseCheck(s, t)
               \/ SseOpen(s) \/ SseReceive(s) \/ SseEnd(s) \/ SseDisconnect(s)
        PROVE  UNCHANGED status
    BY <2>4 DEF SseCheck, SseOpen, SseReceive, SseEnd, SseDisconnect
  <2>5. CASE Restart \/ UNCHANGED vars
    BY <2>5 DEF Restart
  <2> QED BY <2>1, <2>2, <2>3, <2>4, <2>5
          DEF Next, ConvertHandler, Goroutine, ExitInParse, PanicInRecover, Signal
<1> QED BY <1>1, <1>2, <1>3, <1>4, <1>5

(* With one request per task ID, a task that is completed or failed keeps  *)
(* that status: no late stage, recovery or cancellation overwrites it.     *)
THEOREM OutcomeIsFinal ==
  ASSUME OneRequestPerTask
  PROVE  Spec => SettledIsFinal
<1>1. Init => ChannelInv /\ OutcomeInv
  BY DEF Init, ChannelInv, MappedChannelHasProducer, OutcomeInv, Settled
<1>2. TypeInv /\ ChannelInv /\ OutcomeInv /\ [Next]_vars => ChannelInv' /\ OutcomeInv'
  BY ChannelInductive, OutcomeInductive
<1>3. TypeInv /\ ChannelInv /\ OutcomeInv /\ [Next]_vars
        => [\A r \in Request : status[r] \in Settled => status'[r] = status[r]]_vars
  BY OutcomeStep
<1> QED BY <1>1, <1>2, <1>3, TypeInvariant, PTL DEF Spec, SettledIsFinal

=============================================================================
