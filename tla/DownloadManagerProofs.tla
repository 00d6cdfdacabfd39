----------------------- MODULE DownloadManagerProofs -----------------------
(***************************************************************************)
(* Theorems about DownloadManager, for any sets of tasks and workers, any  *)
(* queue capacity and any number of retries.                               *)
(***************************************************************************)
EXTENDS DownloadManager, FiniteSetTheorems, TLAPS

USE NilAssumption, QueueCapAssumption, MaxRetriesAssumption

Working == PC \ {"idle", "gone"}

(* A worker that left the idle state has a task. *)
TypeInv ==
  /\ TypeOK
  /\ \A w \in Worker : pc[w] \in Working => job[w] \in Task

(* Taking the first task of the queue. *)
LEMMA HeadTail ==
  ASSUME NEW S, NEW q \in Seq(S), q # <<>>
  PROVE  Head(q) \in S /\ Tail(q) \in Seq(S)
OBVIOUS

(* Putting a task in the queue. *)
LEMMA AppendType ==
  ASSUME NEW S, NEW q \in Seq(S), NEW e \in S
  PROVE  Append(q, e) \in Seq(S)
OBVIOUS

(* The empty queue. *)
LEMMA EmptyType == ASSUME NEW S PROVE <<>> \in Seq(S)
OBVIOUS

(* Counting up. *)
LEMMA CountUp ==
  ASSUME NEW S, NEW f \in [S -> Nat], NEW x \in S
  PROVE  [f EXCEPT ![x] = @ + 1] \in [S -> Nat]
BY ONLY f \in [S -> Nat], x \in S

Counter == {"total", "queued", "active", "completed", "failed", "cancelled"}

(* Changing one counter, or two, leaves integers. *)
LEMMA CountOne ==
  ASSUME NEW f \in [Counter -> Int], NEW c \in Counter, NEW n \in Int
  PROVE  [f EXCEPT ![c] = @ + n] \in [Counter -> Int]
BY ONLY f \in [Counter -> Int], c \in Counter, n \in Int

(* Two counters change when a task is added or claimed. *)
LEMMA CountTwo ==
  ASSUME NEW f \in [Counter -> Int], NEW c \in Counter, NEW d \in Counter
  PROVE  /\ [f EXCEPT ![c] = @ + 1, ![d] = @ + 1] \in [Counter -> Int]
         /\ [f EXCEPT ![c] = @ - 1, ![d] = @ + 1] \in [Counter -> Int]
BY ONLY f \in [Counter -> Int], c \in Counter, d \in Counter

(* Every change of the statistics leaves them integers. *)
LEMMA StatsType ==
  ASSUME stats \in [Counter -> Int]
  PROVE  /\ \A c \in Counter, n \in {1, -1} : Add(c, n) \in [Counter -> Int]
         /\ [stats EXCEPT !.total = @ + 1, !.queued = @ + 1] \in [Counter -> Int]
         /\ [stats EXCEPT !.queued = @ - 1, !.active = @ + 1] \in [Counter -> Int]
<1>1. \A c \in Counter, n \in {1, -1} : Add(c, n) \in [Counter -> Int]
  BY CountOne DEF Add
<1>2. "total" \in Counter /\ "queued" \in Counter /\ "active" \in Counter
  BY DEF Counter
<1>3. [stats EXCEPT !.total = @ + 1, !.queued = @ + 1] \in [Counter -> Int]
  BY <1>2, CountTwo
<1>4. [stats EXCEPT !.queued = @ - 1, !.active = @ + 1] \in [Counter -> Int]
  BY <1>2, CountTwo
<1> QED BY <1>1, <1>3, <1>4

(* No step of the download manager breaks the types. *)
LEMMA TypeInductive == TypeInv /\ [Next]_vars => TypeInv'
<1> SUFFICES ASSUME TypeInv, [Next]_vars PROVE TypeInv'
  OBVIOUS
<1> USE DEF TypeInv, TypeOK, Working, control, task, pool, vars
<1>s. stats \in [Counter -> Int]
  BY DEF Counter
<1>1. ASSUME NEW t \in Task, AddDownload(t) PROVE TypeInv'
  <2>1. stats' \in [Counter -> Int]
    BY <1>1, <1>s, StatsType DEF AddDownload
  <2> QED BY <1>1, <2>1 DEF AddDownload, Status, Counter
<1>q. ASSUME NEW t \in Task, TryEnqueue(t)
      PROVE  queue' \in Seq(Task) /\ turnedAway' \in SUBSET Task
  <2>1. /\ queue' = Append(queue, t) \/ queue' = queue
        /\ turnedAway' = turnedAway \/ turnedAway' = turnedAway \cup {t}
    BY <1>q DEF TryEnqueue
  <2>2. queue' \in Seq(Task)
    BY ONLY <2>1, AppendType, t \in Task, queue \in Seq(Task)
  <2> QED BY <2>1, <2>2
<1>2. ASSUME NEW t \in Task, EnqueueNew(t) PROVE TypeInv'
  BY <1>2, <1>q DEF EnqueueNew
<1>3. ASSUME NEW t \in Task, PauseDownload(t) PROVE TypeInv'
  BY <1>3 DEF PauseDownload, Status
<1>4. ASSUME NEW t \in Task, ResumeDownload(t) PROVE TypeInv'
  BY <1>4, <1>q DEF ResumeDownload, Status
<1>5. ASSUME NEW t \in Task, CancelDownload(t) \/ Cleanup(t) PROVE TypeInv'
  BY <1>5 DEF CancelDownload, Cleanup
<1>6. ASSUME NEW t \in Task, MarkCancelled(t) PROVE TypeInv'
  BY <1>6 DEF MarkCancelled, Status
<1>7. ASSUME NEW t \in Task, CountCancelled(t) PROVE TypeInv'
  <2>1. stats' \in [Counter -> Int]
    BY <1>7, <1>s, StatsType DEF CountCancelled, Counter
  <2> QED BY <1>7, <2>1 DEF CountCancelled, Counter
<1>8. ASSUME NEW t \in Task, Requeue(t) PROVE TypeInv'
  <2>1. timers' \in [Task -> Nat]
    BY <1>8 DEF Requeue
  <2>4. queue' \in Seq(Task) /\ turnedAway' \in SUBSET Task
    BY <1>8, <1>q DEF Requeue
  <2>3. status' \in [Task -> Status]
    BY <1>8 DEF Requeue, Status
  <2> QED BY <1>8, <2>1, <2>3, <2>4 DEF Requeue
<1>st. ASSUME NEW w \in Worker, NEW from \in Working, NEW to \in PC, Step(w, from, to)
       PROVE  /\ pc' \in [Worker -> PC]
              /\ job[w] \in Task
              /\ \A v \in Worker : v # w => pc'[v] = pc[v]
              /\ pc'[w] = to
  BY <1>st DEF Step
<1>wk. ASSUME NEW w \in Worker, job[w] \in Task, UNCHANGED job,
              \A v \in Worker : v # w => pc'[v] = pc[v]
       PROVE  \A v \in Worker : pc'[v] \in Working => job'[v] \in Task
  BY <1>wk
<1>9. ASSUME NEW w \in Worker, Dequeue(w) PROVE TypeInv'
  BY <1>9, HeadTail DEF Dequeue, Step, PC
<1>10. ASSUME NEW w \in Worker, Exit(w) PROVE TypeInv'
  BY <1>10 DEF Exit, Step, PC
<1>11. ASSUME NEW w \in Worker, Claim(w) PROVE TypeInv'
  <2>1. CASE /\ Step(w, "taken", "claimed")
             /\ status' = [status EXCEPT ![job[w]] = "downloading"]
             /\ UNCHANGED <<control, retries, cancelFunc, queue, timers, job, ctxDone, stats, stopped>>
    <3>1. job[w] \in Task /\ pc' \in [Worker -> PC] /\ status' \in [Task -> Status]
      BY <2>1, <1>st DEF PC, Status
    <3> QED BY <2>1, <3>1 DEF Step, PC
  <2>2. CASE /\ Step(w, "taken", "idle")
             /\ job' = [job EXCEPT ![w] = Nil]
             /\ UNCHANGED <<control, task, cancelFunc, queue, timers, ctxDone, stats, stopped>>
    BY <2>2 DEF Step, PC
  <2> QED BY <1>11, <2>1, <2>2 DEF Claim
<1>12. ASSUME NEW w \in Worker, CountActive(w) PROVE TypeInv'
  <2>1. stats' \in [Counter -> Int]
    BY <1>12, <1>s, StatsType DEF CountActive
  <2> QED BY <1>12, <2>1 DEF CountActive, Step, PC, Counter
<1>13. ASSUME NEW w \in Worker, StartTransfer(w) PROVE TypeInv'
  <2>1. job[w] \in Task /\ pc' \in [Worker -> PC]
    BY <1>13, <1>st DEF StartTransfer, PC
  <2>2. cancelFunc' \in [Task -> Worker \cup {Nil}]
    BY <1>13, <2>1 DEF StartTransfer
  <2>3. ctxDone' \in SUBSET Worker
    BY <1>13 DEF StartTransfer
  <2>4. \A v \in Worker : pc'[v] \in Working => job'[v] \in Task
    BY <1>13, <2>1, <1>wk DEF StartTransfer, Step
  <2> QED BY <1>13, <2>1, <2>2, <2>3, <2>4 DEF StartTransfer
<1>14. ASSUME NEW w \in Worker, EndTransfer(w) PROVE TypeInv'
  <2>1. PICK result \in {"success", "failure"} : Step(w, "transfer", result)
    BY <1>14 DEF EndTransfer
  <2>2. job[w] \in Task /\ pc' \in [Worker -> PC]
    <3>1. result \in PC /\ "transfer" \in Working
      BY DEF PC
    <3> QED BY <2>1, <3>1, <1>st
  <2>3. cancelFunc' \in [Task -> Worker \cup {Nil}]
    <3>1. cancelFunc' \in {[cancelFunc EXCEPT ![job[w]] = Nil], [cancelFunc EXCEPT ![job[w]] = @]}
      BY <1>14 DEF EndTransfer
    <3> QED BY <2>2, <3>1
  <2>4. \A v \in Worker : pc'[v] \in Working => job'[v] \in Task
    BY <1>14, <2>1, <2>2, <1>wk DEF EndTransfer, Step
  <2>5. ctxDone' \in SUBSET Worker
    BY <1>14 DEF EndTransfer
  <2> QED BY <1>14, <2>2, <2>3, <2>4, <2>5 DEF EndTransfer
<1>17. ASSUME NEW w \in Worker, RecordFailure(w) PROVE TypeInv'
  <2>1. PICK to \in {"leave", "give up"} : Step(w, "failure", to)
    BY <1>17 DEF RecordFailure
  <2>2. job[w] \in Task /\ pc' \in [Worker -> PC]
    <3>1. to \in PC /\ "failure" \in Working
      BY DEF PC
    <3> QED BY <2>1, <3>1, <1>st
  <2>3. retries' \in [Task -> Nat]
    <3>1. retries' = [retries EXCEPT ![job[w]] = @ + 1]
      BY <1>17 DEF RecordFailure
    <3> QED BY <2>2, <3>1, CountUp
  <2>4. \/ timers' = [timers EXCEPT ![job[w]] = @ + 1] /\ status' = [status EXCEPT ![job[w]] = "pending"]
        \/ timers' = timers /\ status' = [status EXCEPT ![job[w]] = "failed"]
    BY <1>17 DEF RecordFailure
  <2>5. timers' \in [Task -> Nat]
    <3>1. timers \in [Task -> Nat]
      OBVIOUS
    <3>2. [timers EXCEPT ![job[w]] = @ + 1] \in [Task -> Nat]
      BY ONLY <2>2, <3>1, CountUp
    <3> QED BY ONLY <2>4, <3>1, <3>2
  <2>6. status' \in [Task -> Status]
    BY <2>2, <2>4 DEF Status
  <2>7. \A v \in Worker : pc'[v] \in Working => job'[v] \in Task
    BY <1>17, <2>1, <2>2, <1>wk DEF RecordFailure, Step
  <2> QED BY <1>17, <2>2, <2>3, <2>5, <2>6, <2>7 DEF RecordFailure
<1>18. ASSUME NEW w \in Worker, CountFailed(w) \/ Finalize(w) \/ Leave(w) PROVE TypeInv'
  <2>1. stats' \in [Counter -> Int]
    BY <1>18, <1>s, StatsType DEF CountFailed, Finalize, Leave, Counter
  <2>2. pc' \in [Worker -> PC]
    BY <1>18 DEF CountFailed, Finalize, Leave, Step, PC
  <2>3. \A v \in Worker : pc'[v] \in Working => job'[v] \in Task
    <3>1. CASE CountFailed(w) \/ Finalize(w)
      <4>1. UNCHANGED job /\ pc[w] \in Working /\ \A v \in Worker : v # w => pc'[v] = pc[v]
        BY <3>1 DEF CountFailed, Finalize, Step, PC
      <4> QED BY <4>1
    <3>2. CASE Leave(w)
      <4>1. pc'[w] = "idle" /\ "idle" \notin Working
        BY <3>2 DEF Leave, Step, PC
      <4>2. \A v \in Worker : v # w => pc'[v] = pc[v] /\ job'[v] = job[v]
        BY <3>2 DEF Leave, Step
      <4> QED BY <4>1, <4>2
    <3> QED BY <1>18, <3>1, <3>2
  <2>4. job' \in [Worker -> Task \cup {Nil}]
    BY <1>18 DEF CountFailed, Finalize, Leave
  <2>5. UNCHANGED <<control, task, cancelFunc, queue, timers, ctxDone, stopped>>
    BY <1>18 DEF CountFailed, Finalize, Leave
  <2>6. TypeOK'
    BY <2>1, <2>2, <2>4, <2>5 DEF Counter
  <2> QED BY <2>3, <2>6
<1>19. ASSUME NEW w \in Worker, RecordSuccess(w) PROVE TypeInv'
  BY <1>19 DEF RecordSuccess, Step, PC, Status
<1>15. CASE Stop
  BY <1>15 DEF Stop
<1>16. CASE UNCHANGED vars
  BY <1>16
<1> QED BY <1>1, <1>2, <1>3, <1>4, <1>5, <1>6, <1>7, <1>8, <1>9, <1>10, <1>11, <1>12,
           <1>13, <1>14, <1>15, <1>16, <1>17, <1>18, <1>19 DEF Next, Work

(* The inductive form of TypeOK. *)
LEMMA TypeInvariant == Spec => []TypeInv
<1>1. Init => TypeInv
  <2> SUFFICES ASSUME Init PROVE TypeInv
    OBVIOUS
  <2>1. /\ status \in [Task -> Status] /\ retries \in [Task -> Nat] /\ timers \in [Task -> Nat]
        /\ caller \in [Task -> {"none", "enqueue", "mark", "count"}]
    BY DEF Init, Status
  <2>2. /\ cancelFunc \in [Task -> Worker \cup {Nil}]
        /\ job \in [Worker -> Task \cup {Nil}]
        /\ pc \in [Worker -> PC]
    BY DEF Init, PC
  <2>3. stats \in [Counter -> Int]
    BY DEF Init, Counter
  <2>4. /\ queue \in Seq(Task) /\ listed \in SUBSET Task /\ ctxDone \in SUBSET Worker
        /\ stopped \in BOOLEAN /\ turnedAway \in SUBSET Task
    BY EmptyType DEF Init
  <2>5. \A w \in Worker : pc[w] \notin Working
    BY DEF Init, Working
  <2> QED BY <2>1, <2>2, <2>3, <2>4, <2>5 DEF TypeInv, TypeOK, Counter
<1> QED BY <1>1, TypeInductive, PTL DEF Spec

(* Every variable of the download manager keeps its type. *)
THEOREM TypeCorrect == Spec => []TypeOK
<1>1. TypeInv => TypeOK
  BY DEF TypeInv
<1> QED BY <1>1, TypeInvariant, PTL

-----------------------------------------------------------------------------
(* A task that a worker downloads is not pending, so the check of Claim    *)
(* keeps other workers away from it, and a task that used up its retries   *)
(* is neither pending nor downloaded.                                      *)
PoolInv ==
  /\ \A w \in Worker : Downloading(w) => status[job[w]] \notin {"new", "pending"}
  /\ \A t \in Task :
       \/ retries[t] < MaxRetries
       \/ /\ retries[t] = MaxRetries
          /\ status[t] \notin {"new", "pending"}
          /\ \A w \in Worker : Downloading(w) => job[w] # t
  /\ OneWorkerPerTask

(* No step of the download manager breaks PoolInv, as long as no paused    *)
(* task is resumed.                                                        *)
LEMMA PoolInductive ==
  ASSUME "resume" \notin Calls
  PROVE  TypeInv /\ PoolInv /\ [Next]_vars => PoolInv'
<1> SUFFICES ASSUME TypeInv, PoolInv, [Next]_vars PROVE PoolInv'
  OBVIOUS
<1>t. /\ status \in [Task -> Status]
      /\ retries \in [Task -> Nat]
      /\ pc \in [Worker -> PC]
      /\ job \in [Worker -> Task \cup {Nil}]
      /\ \A w \in Worker : Downloading(w) => job[w] \in Task
      /\ \A w \in Worker : pc[w] = "taken" => job[w] \in Task
  BY DEF TypeInv, TypeOK, Working, Downloading, PC
<1> USE <1>t DEF PoolInv, OneWorkerPerTask, Downloading, control, task, pool, vars
<1>1. ASSUME UNCHANGED <<retries, pc, job>>,
             \A t \in Task : status[t] \notin {"new", "pending"} => status'[t] \notin {"new", "pending"}
      PROVE  PoolInv'
  BY <1>1
<1>nd. ASSUME UNCHANGED <<status, retries>>,
              \A v \in Worker : Downloading(v)' => Downloading(v) /\ job'[v] = job[v]
       PROVE  PoolInv'
  <2>1. \A v \in Worker : Downloading(v)' => status'[job'[v]] \notin {"new", "pending"}
    BY <1>nd
  <2>2. OneWorkerPerTask'
    BY <1>nd
  <2>3. ASSUME NEW t \in Task
        PROVE  \/ retries'[t] < MaxRetries
               \/ /\ retries'[t] = MaxRetries
                  /\ status'[t] \notin {"new", "pending"}
                  /\ \A v \in Worker : Downloading(v)' => job'[v] # t
    BY <1>nd
  <2> QED BY <2>1, <2>2, <2>3
<1>2. ASSUME NEW t \in Task, AddDownload(t) PROVE PoolInv'
  BY <1>1, <1>2 DEF AddDownload
<1>3. ASSUME NEW t \in Task, EnqueueNew(t) \/ CancelDownload(t) \/ CountCancelled(t) \/ Cleanup(t)
      PROVE  PoolInv'
  BY <1>1, <1>3 DEF EnqueueNew, CancelDownload, CountCancelled, Cleanup
<1>4. ASSUME NEW t \in Task, PauseDownload(t) \/ MarkCancelled(t) \/ Requeue(t) PROVE PoolInv'
  BY <1>1, <1>4 DEF PauseDownload, MarkCancelled, Requeue
<1>5. ASSUME NEW w \in Worker, Dequeue(w) \/ Exit(w) PROVE PoolInv'
  <2>1. \A v \in Worker : v # w => pc'[v] = pc[v] /\ job'[v] = job[v]
    BY <1>5 DEF Dequeue, Exit, Step
  <2>2. ~ Downloading(w)'
    BY <1>5 DEF Dequeue, Exit, Step
  <2>3. UNCHANGED <<status, retries>>
    BY <1>5 DEF Dequeue, Exit
  <2> QED BY <2>1, <2>2, <2>3, <1>nd
<1>6. ASSUME NEW w \in Worker, Claim(w) PROVE PoolInv'
  BY <1>6 DEF Claim, Step
<1>7. ASSUME NEW w \in Worker, CountActive(w) \/ StartTransfer(w) \/ EndTransfer(w) PROVE PoolInv'
  BY <1>7 DEF CountActive, StartTransfer, EndTransfer, Step
<1>8. ASSUME NEW w \in Worker, RecordFailure(w) PROVE PoolInv'
  <2>1. pc[w] = "failure" /\ job[w] \in Task /\ retries[job[w]] < MaxRetries
    BY <1>8 DEF RecordFailure
  <2>2. /\ pc' \in {[pc EXCEPT ![w] = "leave"], [pc EXCEPT ![w] = "give up"]}
        /\ job' = job /\ retries' = [retries EXCEPT ![job[w]] = @ + 1]
        /\ \/ retries[job[w]] + 1 < MaxRetries /\ status' = [status EXCEPT ![job[w]] = "pending"]
           \/ retries[job[w]] + 1 >= MaxRetries /\ status' = [status EXCEPT ![job[w]] = "failed"]
    BY <1>8 DEF RecordFailure, Step
  <2>3. \A v \in Worker : Downloading(v)' => v # w /\ Downloading(v) /\ job[v] # job[w]
    <3>1. Downloading(w)
      BY <2>1
    <3>2. ~ Downloading(w)'
      BY <2>2
    <3>3. \A v \in Worker : v # w => pc'[v] = pc[v] /\ job'[v] = job[v]
      BY <2>2
    <3> QED BY <3>1, <3>2, <3>3 DEF OneWorkerPerTask
  <2>4. \A t \in Task : t # job[w] => retries'[t] = retries[t] /\ status'[t] = status[t]
    BY <2>1, <2>2
  <2>5. \/ retries'[job[w]] < MaxRetries
        \/ retries'[job[w]] = MaxRetries /\ status'[job[w]] = "failed"
    <3>1. retries'[job[w]] = retries[job[w]] + 1 /\ retries[job[w]] \in Nat
      BY <2>1, <2>2
    <3>2. \/ retries[job[w]] + 1 < MaxRetries
          \/ retries[job[w]] + 1 >= MaxRetries /\ status'[job[w]] = "failed"
      BY <2>1, <2>2
    <3> QED BY <2>1, <3>1, <3>2
  <2>6. ASSUME NEW v \in Worker, Downloading(v)' PROVE status'[job'[v]] \notin {"new", "pending"}
    BY <2>2, <2>3, <2>4, <2>6
  <2>7. OneWorkerPerTask'
    BY <2>2, <2>3
  <2>8. ASSUME NEW t \in Task
        PROVE  \/ retries'[t] < MaxRetries
               \/ /\ retries'[t] = MaxRetries
                  /\ status'[t] \notin {"new", "pending"}
                  /\ \A v \in Worker : Downloading(v)' => job'[v] # t
    <3>1. CASE t = job[w]
      BY <2>2, <2>3, <2>5, <3>1
    <3>2. CASE t # job[w]
      BY <2>2, <2>3, <2>4, <3>2
    <3> QED BY <3>1, <3>2
  <2> QED BY <2>6, <2>7, <2>8
<1>9. ASSUME NEW w \in Worker, CountFailed(w) \/ Finalize(w) \/ Leave(w) PROVE PoolInv'
  <2>1. \A v \in Worker : v # w => pc'[v] = pc[v] /\ job'[v] = job[v]
    BY <1>9 DEF CountFailed, Finalize, Leave, Step
  <2>2. ~ Downloading(w)'
    BY <1>9 DEF CountFailed, Finalize, Leave, Step
  <2>3. UNCHANGED <<status, retries>>
    BY <1>9 DEF CountFailed, Finalize, Leave
  <2> QED BY <2>1, <2>2, <2>3, <1>nd
<1>10. ASSUME NEW w \in Worker, RecordSuccess(w) PROVE PoolInv'
  BY <1>10 DEF RecordSuccess, Step
<1>11. CASE Stop \/ UNCHANGED vars
  BY <1>1, <1>11 DEF Stop
<1>12. ASSUME NEW t \in Task, ResumeDownload(t) PROVE FALSE
  BY <1>12 DEF ResumeDownload
<1> QED BY <1>2, <1>3, <1>4, <1>5, <1>6, <1>7, <1>8, <1>9, <1>10, <1>11, <1>12 DEF Next, Work

(* The inductive invariant behind the two theorems that follow. *)
LEMMA PoolInvariant ==
  ASSUME "resume" \notin Calls
  PROVE  Spec => []PoolInv
<1>1. Init => PoolInv
  BY DEF Init, PoolInv, OneWorkerPerTask, Downloading
<1> QED BY <1>1, PoolInductive, TypeInvariant, PTL DEF Spec

(* While nobody resumes a paused task, no two workers download the same    *)
(* task.                                                                   *)
THEOREM WorkersAreExclusive ==
  ASSUME "resume" \notin Calls
  PROVE  Spec => []OneWorkerPerTask
<1>1. PoolInv => OneWorkerPerTask
  BY DEF PoolInv
<1> QED BY <1>1, PoolInvariant, PTL

(* While nobody resumes a paused task, no task fails more than MaxRetries  *)
(* times.                                                                  *)
THEOREM RetriesAreBounded ==
  ASSUME "resume" \notin Calls
  PROVE  Spec => []RetriesBounded
<1>1. TypeInv /\ PoolInv => RetriesBounded
  <2> SUFFICES ASSUME TypeInv, PoolInv, NEW t \in Task PROVE retries[t] <= MaxRetries
    BY DEF RetriesBounded
  <2>1. retries[t] \in Nat
    BY DEF TypeInv, TypeOK
  <2>2. retries[t] < MaxRetries \/ retries[t] = MaxRetries
    BY DEF PoolInv
  <2> QED BY <2>1, <2>2
<1> QED BY <1>1, PoolInvariant, TypeInvariant, PTL

-----------------------------------------------------------------------------
(* A worker has a task from its dequeue until the outcome is counted; a    *)
(* task that is not at a worker waits to be queued, in the queue, or for   *)
(* its retry.                                                              *)
Holding == {"taken", "claimed", "counted", "transfer", "failure", "success", "finalize", "give up"}

Held(t)  == \E w \in Worker : pc[w] \in Holding /\ job[w] = t
Taken(t) == \E w \in Worker : pc[w] = "taken" /\ job[w] = t
Waits(t) == caller[t] = "enqueue" \/ InQueue(t) \/ timers[t] > 0

(* Each task is in one of these places at most, and once. *)
PlaceInv ==
  /\ \A i, j \in DOMAIN queue : queue[i] = queue[j] => i = j
  /\ \A t \in Task :
       /\ timers[t] <= 1
       /\ caller[t] = "enqueue" => ~ InQueue(t) /\ timers[t] = 0
       /\ InQueue(t) => timers[t] = 0
       /\ Waits(t) => ~ Held(t)
       /\ status[t] = "new" => ~ Waits(t) /\ ~ Held(t)
  /\ \A v, w \in Worker : pc[v] \in Holding /\ pc[w] \in Holding /\ job[v] = job[w] => v = w

(* Taking the first task of a queue that has each task once. *)
LEMMA TakeFirst ==
  ASSUME NEW q \in Seq(Task), q # <<>>, \A i, j \in DOMAIN q : q[i] = q[j] => i = j
  PROVE  /\ \A i, j \in DOMAIN Tail(q) : Tail(q)[i] = Tail(q)[j] => i = j
         /\ \E i \in DOMAIN q : q[i] = Head(q)
         /\ \A t : (\E i \in DOMAIN Tail(q) : Tail(q)[i] = t) <=>
                     t # Head(q) /\ \E i \in DOMAIN q : q[i] = t
<1>1. Len(q) \in Nat \ {0} /\ DOMAIN q = 1..Len(q) /\ Head(q) = q[1]
  OBVIOUS
<1>2. /\ DOMAIN Tail(q) = 1..(Len(q) - 1)
      /\ \A i \in 1..(Len(q) - 1) : Tail(q)[i] = q[i + 1]
  OBVIOUS
<1>3. \A i \in 1..(Len(q) - 1) : i + 1 \in DOMAIN q /\ i + 1 # 1
  BY <1>1
<1>4. \A i \in DOMAIN q : i # 1 => i - 1 \in 1..(Len(q) - 1) /\ Tail(q)[i - 1] = q[i]
  BY <1>1, <1>2
<1>5. \A i, j \in DOMAIN Tail(q) : Tail(q)[i] = Tail(q)[j] => i = j
  <2> SUFFICES ASSUME NEW i \in 1..(Len(q) - 1), NEW j \in 1..(Len(q) - 1), q[i + 1] = q[j + 1]
               PROVE  i = j
    BY <1>2
  <2>1. i + 1 = j + 1
    BY <1>3
  <2> QED BY <1>1, <2>1
<1>6. 1 \in DOMAIN q
  BY <1>1
<1>7. ASSUME NEW t
      PROVE  (\E i \in DOMAIN Tail(q) : Tail(q)[i] = t) <=>
               t # Head(q) /\ \E i \in DOMAIN q : q[i] = t
  <2>1. ASSUME NEW i \in DOMAIN Tail(q), Tail(q)[i] = t
        PROVE  t # Head(q) /\ \E k \in DOMAIN q : q[k] = t
    BY <1>1, <1>2, <1>3, <1>6, <2>1
  <2>2. ASSUME t # Head(q), NEW i \in DOMAIN q, q[i] = t
        PROVE  \E k \in DOMAIN Tail(q) : Tail(q)[k] = t
    BY <1>1, <1>2, <1>4, <2>2
  <2> QED BY <2>1, <2>2
<1> QED BY <1>1, <1>5, <1>6, <1>7

(* Putting a task in a queue that does not have it. *)
LEMMA PutLast ==
  ASSUME NEW q \in Seq(Task), NEW t \in Task,
         \A i, j \in DOMAIN q : q[i] = q[j] => i = j,
         \A i \in DOMAIN q : q[i] # t
  PROVE  /\ \A i, j \in DOMAIN Append(q, t) : Append(q, t)[i] = Append(q, t)[j] => i = j
         /\ \A u : (\E i \in DOMAIN Append(q, t) : Append(q, t)[i] = u) <=>
                     u = t \/ \E i \in DOMAIN q : q[i] = u
<1>1. Len(q) \in Nat /\ DOMAIN q = 1..Len(q)
  OBVIOUS
<1>2. /\ DOMAIN Append(q, t) = 1..(Len(q) + 1)
      /\ \A i \in 1..Len(q) : Append(q, t)[i] = q[i]
      /\ Append(q, t)[Len(q) + 1] = t
  OBVIOUS
<1>3. DOMAIN Append(q, t) = DOMAIN q \cup {Len(q) + 1}
  BY <1>1, <1>2
<1> QED BY <1>1, <1>2, <1>3

(* No step of the download manager puts a task in two places, as long as   *)
(* no paused task is resumed.                                              *)
LEMMA PlaceInductive ==
  ASSUME "resume" \notin Calls
  PROVE  TypeInv /\ PlaceInv /\ [Next]_vars => PlaceInv'
<1> SUFFICES ASSUME TypeInv, PlaceInv, [Next]_vars PROVE PlaceInv'
  OBVIOUS
<1>t. /\ status \in [Task -> Status]
      /\ caller \in [Task -> {"none", "enqueue", "mark", "count"}]
      /\ timers \in [Task -> Nat]
      /\ queue \in Seq(Task)
      /\ pc \in [Worker -> PC]
      /\ job \in [Worker -> Task \cup {Nil}]
      /\ \A w \in Worker : pc[w] \in Holding => job[w] \in Task
  BY DEF TypeInv, TypeOK, Working, Holding, PC
<1> USE <1>t DEF control, task, pool, vars
(* Steps that move no task, or take one from a worker that is done with it. *)
<1>same. ASSUME UNCHANGED <<queue, timers>>,
                \A t \in Task : caller'[t] = "enqueue" <=> caller[t] = "enqueue",
                \A t \in Task : status'[t] = "new" => status[t] = "new",
                \A v \in Worker : pc'[v] \in Holding => pc[v] \in Holding /\ job'[v] = job[v]
         PROVE  PlaceInv'
  <2>1. \A t \in Task : (Waits(t)' <=> Waits(t)) /\ (InQueue(t)' <=> InQueue(t)) /\ (Held(t)' => Held(t))
    BY <1>same DEF Waits, InQueue, Held
  <2> QED BY <1>same, <2>1 DEF PlaceInv
<1>1. ASSUME NEW t \in Task, AddDownload(t) PROVE PlaceInv'
  <2>1. /\ UNCHANGED <<queue, timers, pc, job>>
        /\ caller' = [caller EXCEPT ![t] = "enqueue"] /\ status' = [status EXCEPT ![t] = "pending"]
        /\ ~ Waits(t) /\ ~ Held(t)
    BY <1>1 DEF AddDownload, PlaceInv
  <2>2. \A u \in Task : (InQueue(u)' <=> InQueue(u)) /\ (Held(u)' <=> Held(u))
    BY <2>1 DEF InQueue, Held
  <2>3. \A u \in Task : u # t => (Waits(u)' <=> Waits(u)) /\ status'[u] = status[u]
    BY <2>1, <2>2 DEF Waits
  <2>4. caller'[t] = "enqueue" /\ status'[t] = "pending"
    BY <2>1
  <2> QED BY <2>1, <2>2, <2>3, <2>4 DEF PlaceInv, Waits
<1>put. ASSUME NEW t \in Task, queue' = Append(queue, t), ~ InQueue(t), ~ Held(t), status[t] # "new",
               UNCHANGED <<status, pc, job>>,
               \A u \in Task : u # t => caller'[u] = caller[u] /\ timers'[u] = timers[u],
               caller'[t] # "enqueue", timers'[t] = 0
        PROVE  PlaceInv'
  <2>1. /\ \A i, j \in DOMAIN queue' : queue'[i] = queue'[j] => i = j
        /\ \A u : InQueue(u)' <=> u = t \/ InQueue(u)
    <3>1. \A i, j \in DOMAIN queue : queue[i] = queue[j] => i = j
      BY DEF PlaceInv
    <3>2. \A i \in DOMAIN queue : queue[i] # t
      BY <1>put DEF InQueue
    <3>3. /\ \A i, j \in DOMAIN Append(queue, t) : Append(queue, t)[i] = Append(queue, t)[j] => i = j
          /\ \A u : (\E i \in DOMAIN Append(queue, t) : Append(queue, t)[i] = u) <=>
                      u = t \/ \E i \in DOMAIN queue : queue[i] = u
      BY ONLY <3>1, <3>2, PutLast, t \in Task, queue \in Seq(Task)
    <3> QED BY <1>put, <3>3 DEF InQueue
  <2>2. \A u \in Task : Held(u)' <=> Held(u)
    BY <1>put DEF Held
  <2>3. \A u \in Task : u # t => (Waits(u)' <=> Waits(u))
    BY <1>put, <2>1 DEF Waits
  <2> QED BY <1>put, <2>1, <2>2, <2>3 DEF PlaceInv, Waits
<1>drop. ASSUME NEW t \in Task, ~ InQueue(t), ~ Held(t), status'[t] # "new",
                UNCHANGED <<queue, pc, job>>,
                \A u \in Task : u # t => /\ caller'[u] = caller[u] /\ timers'[u] = timers[u]
                                         /\ status'[u] = status[u],
                caller'[t] # "enqueue", timers'[t] = 0
         PROVE  PlaceInv'
  <2>1. \A u \in Task : (InQueue(u)' <=> InQueue(u)) /\ (Held(u)' <=> Held(u))
    BY <1>drop DEF InQueue, Held
  <2>2. \A u \in Task : u # t => (Waits(u)' <=> Waits(u))
    BY <1>drop, <2>1 DEF Waits
  <2> QED BY <1>drop, <2>1, <2>2 DEF PlaceInv, Waits
<1>2. ASSUME NEW t \in Task, EnqueueNew(t) PROVE PlaceInv'
  <2>1. caller[t] = "enqueue" /\ Waits(t)
    BY <1>2 DEF EnqueueNew, Waits
  <2>2. ~ InQueue(t) /\ ~ Held(t) /\ timers[t] = 0 /\ status[t] # "new"
    BY <2>1 DEF PlaceInv
  <2>3. /\ caller' = [caller EXCEPT ![t] = "none"] /\ UNCHANGED <<status, timers, pc, job>>
        /\ queue' = IF HasRoom THEN Append(queue, t) ELSE queue
    BY <1>2 DEF EnqueueNew, TryEnqueue
  <2>4. CASE HasRoom
    BY <1>put, <2>2, <2>3, <2>4
  <2>5. CASE ~ HasRoom
    BY <1>drop, <2>2, <2>3, <2>5
  <2> QED BY <2>4, <2>5
<1>3. ASSUME NEW t \in Task, PauseDownload(t) \/ CancelDownload(t) \/ MarkCancelled(t)
                               \/ CountCancelled(t) \/ Cleanup(t)
      PROVE  PlaceInv'
  <2>1. UNCHANGED <<queue, timers, pc, job>>
    BY <1>3 DEF PauseDownload, CancelDownload, MarkCancelled, CountCancelled, Cleanup
  <2>2. \A u \in Task : caller'[u] = "enqueue" <=> caller[u] = "enqueue"
    BY <1>3 DEF PauseDownload, CancelDownload, MarkCancelled, CountCancelled, Cleanup
  <2>3. \A u \in Task : status'[u] \in {"new", "pending"} => status'[u] = status[u]
    BY <1>3 DEF PauseDownload, CancelDownload, MarkCancelled, CountCancelled, Cleanup
  <2> QED BY <1>same, <2>1, <2>2, <2>3
<1>4. ASSUME NEW t \in Task, Requeue(t) PROVE PlaceInv'
  <2>1. timers[t] = 1 /\ timers' = [timers EXCEPT ![t] = @ - 1] /\ Waits(t)
    BY <1>4 DEF Requeue, PlaceInv, Waits
  <2>2. ~ InQueue(t) /\ ~ Held(t) /\ caller[t] # "enqueue" /\ status[t] # "new"
    BY <2>1 DEF PlaceInv
  <2>4. /\ queue' = IF HasRoom THEN Append(queue, t) ELSE queue
        /\ status' = IF HasRoom THEN status ELSE [status EXCEPT ![t] = "failed"]
        /\ UNCHANGED <<pc, job, caller>>
    BY <1>4 DEF Requeue, TryEnqueue
  <2>5. timers'[t] = 0 /\ \A u \in Task : u # t => timers'[u] = timers[u]
    BY <2>1
  <2>6. CASE HasRoom
    BY <1>put, <2>2, <2>4, <2>5, <2>6
  <2>7. CASE ~ HasRoom
    BY <1>drop, <2>2, <2>4, <2>5, <2>7
  <2> QED BY <2>6, <2>7
<1>5. ASSUME NEW w \in Worker, Dequeue(w) PROVE PlaceInv'
  <2>h. Head(queue) \in Task
    BY <1>5, HeadTail DEF Dequeue
  <2>t. PICK t \in Task : t = Head(queue)
    BY <2>h
  <2>1. /\ queue # <<>> /\ pc[w] = "idle" /\ pc' = [pc EXCEPT ![w] = "taken"]
        /\ job' = [job EXCEPT ![w] = t]
        /\ queue' = Tail(queue) /\ UNCHANGED <<status, caller, timers>>
    BY <1>5, <2>t DEF Dequeue, Step
  <2>3. /\ \A i, j \in DOMAIN queue' : queue'[i] = queue'[j] => i = j
        /\ InQueue(t)
        /\ \A u : InQueue(u)' <=> u # t /\ InQueue(u)
    <3>1. \A i, j \in DOMAIN queue : queue[i] = queue[j] => i = j
      BY DEF PlaceInv
    <3>2. queue \in Seq(Task)
      OBVIOUS
    <3> QED BY ONLY <2>1, <2>t, <3>1, <3>2, TakeFirst DEF InQueue
  <2>4. ~ Held(t) /\ timers[t] = 0 /\ caller[t] # "enqueue" /\ status[t] # "new"
    BY <2>3 DEF PlaceInv, Waits
  <2>5. /\ pc'[w] = "taken" /\ job'[w] = t
        /\ \A v \in Worker : v # w => pc'[v] = pc[v] /\ job'[v] = job[v]
        /\ pc[w] \notin Holding
    BY <2>1 DEF Holding
  <2>6. \A u \in Task : Held(u)' <=> u = t \/ Held(u)
    BY <2>5 DEF Held, Holding
  <2>7. \A u \in Task : u # t => (Waits(u)' <=> Waits(u))
    BY <2>1, <2>3 DEF Waits
  <2>8. ~ Waits(t)'
    <3>1. ~ InQueue(t)' /\ ~ timers'[t] > 0 /\ caller'[t] # "enqueue"
      BY <2>1, <2>3, <2>4
    <3> QED BY <3>1 DEF Waits
  <2>9. \A v, x \in Worker : pc'[v] \in Holding /\ pc'[x] \in Holding /\ job'[v] = job'[x] => v = x
    BY <2>4, <2>5 DEF PlaceInv, Held
  <2> QED BY <2>1, <2>3, <2>4, <2>6, <2>7, <2>8, <2>9 DEF PlaceInv
<1>6. ASSUME NEW w \in Worker,
             Exit(w) \/ CountActive(w) \/ StartTransfer(w) \/ EndTransfer(w) \/ CountFailed(w)
               \/ RecordSuccess(w) \/ Finalize(w) \/ Leave(w) \/ Claim(w)
      PROVE  PlaceInv'
  <2>1. UNCHANGED <<queue, timers, caller>>
    BY <1>6 DEF Exit, CountActive, StartTransfer, EndTransfer, CountFailed, RecordSuccess,
                Finalize, Leave, Claim
  <2>2. \A v \in Worker : pc'[v] \in Holding => pc[v] \in Holding /\ job'[v] = job[v]
    BY <1>6 DEF Exit, CountActive, StartTransfer, EndTransfer, CountFailed, RecordSuccess,
                Finalize, Leave, Claim, Step, Holding
  <2>3. \A u \in Task : status'[u] \in {"new", "pending"} => status'[u] = status[u]
    BY <1>6 DEF Exit, CountActive, StartTransfer, EndTransfer, CountFailed, RecordSuccess,
                Finalize, Leave, Claim
  <2> QED BY <1>same, <2>1, <2>2, <2>3
<1>7. ASSUME NEW w \in Worker, RecordFailure(w) PROVE PlaceInv'
  <2>j. job[w] \in Task
    BY <1>7 DEF RecordFailure, Holding
  <2>t. PICK t \in Task : t = job[w]
    BY <2>j
  <2>1. pc[w] = "failure" /\ job[w] = t /\ UNCHANGED <<queue, caller, job>>
    BY <1>7, <2>t DEF RecordFailure
  <2>2. Held(t)
    BY <2>1 DEF Held, Holding
  <2>3. ~ Waits(t) /\ status[t] # "new"
    BY <2>1, <2>2 DEF PlaceInv
  <2>4. CASE /\ Step(w, "failure", "leave")
             /\ status' = [status EXCEPT ![t] = "pending"]
             /\ timers' = [timers EXCEPT ![t] = @ + 1]
    <3>1. /\ timers[t] = 0 /\ timers'[t] = 1
          /\ \A u \in Task : u # t => timers'[u] = timers[u] /\ status'[u] = status[u]
          /\ status'[t] = "pending"
      BY <2>1, <2>3, <2>4 DEF Waits
    <3>2. /\ pc'[w] = "leave" /\ \A v \in Worker : v # w => pc'[v] = pc[v]
      BY <2>4 DEF Step
    <3>3. \A v \in Worker : pc'[v] \in Holding => pc[v] \in Holding /\ v # w /\ job[v] # t
      BY <2>1, <3>2 DEF PlaceInv, Holding
    <3>4. \A u \in Task : (InQueue(u)' <=> InQueue(u)) /\ (Held(u)' => Held(u) /\ u # t)
      BY <2>1, <3>3 DEF InQueue, Held
    <3>5. \A u \in Task : u # t => (Waits(u)' <=> Waits(u))
      BY <2>1, <3>1, <3>4 DEF Waits
    <3>6. ~ InQueue(t)' /\ caller'[t] # "enqueue"
      BY <2>1, <2>3, <3>4 DEF Waits
    <3>7. \A i, j \in DOMAIN queue' : queue'[i] = queue'[j] => i = j
      BY <2>1 DEF PlaceInv
    <3>8. \A v, x \in Worker : pc'[v] \in Holding /\ pc'[x] \in Holding /\ job'[v] = job'[x] => v = x
      BY <2>1, <3>3 DEF PlaceInv
    <3>9. ASSUME NEW u \in Task
          PROVE  /\ timers'[u] <= 1
                 /\ caller'[u] = "enqueue" => ~ InQueue(u)' /\ timers'[u] = 0
                 /\ InQueue(u)' => timers'[u] = 0
                 /\ Waits(u)' => ~ Held(u)'
                 /\ status'[u] = "new" => ~ Waits(u)' /\ ~ Held(u)'
      <4>1. CASE u = t
        <5>1. ~ Held(t)' /\ ~ InQueue(t)' /\ caller'[t] # "enqueue" /\ timers'[t] = 1
              /\ status'[t] # "new"
          BY <2>1, <3>1, <3>4, <3>6
        <5> QED BY <4>1, <5>1
      <4>2. CASE u # t
        BY <2>1, <3>1, <3>4, <3>5, <4>2 DEF PlaceInv
      <4> QED BY <4>1, <4>2
    <3> QED BY <3>7, <3>8, <3>9 DEF PlaceInv
  <2>5. CASE /\ Step(w, "failure", "give up")
             /\ status' = [status EXCEPT ![t] = "failed"]
             /\ UNCHANGED timers
    <3>1. \A v \in Worker : pc'[v] \in Holding => pc[v] \in Holding
      BY <2>5 DEF Step, Holding
    <3>2. \A u \in Task : status'[u] \in {"new", "pending"} => status'[u] = status[u]
      BY <2>5
    <3> QED BY <1>same, <2>1, <2>5, <3>1, <3>2
  <2> QED BY <1>7, <2>1, <2>4, <2>5 DEF RecordFailure
<1>8. CASE Stop \/ UNCHANGED vars
  <2>1. UNCHANGED <<queue, timers, caller, status, pc, job>>
    BY <1>8 DEF Stop
  <2> QED BY <1>same, <2>1
<1>9. ASSUME NEW t \in Task, ResumeDownload(t) PROVE FALSE
  BY <1>9 DEF ResumeDownload
<1> QED BY <1>1, <1>2, <1>3, <1>4, <1>5, <1>6, <1>7, <1>8, <1>9 DEF Next, Work

(* The inductive invariant behind the statistics. *)
LEMMA PlaceInvariant ==
  ASSUME "resume" \notin Calls
  PROVE  Spec => []PlaceInv
<1>1. Init => PlaceInv
  <2> SUFFICES ASSUME Init PROVE PlaceInv
    OBVIOUS
  <2>1. DOMAIN queue = {} /\ \A t \in Task : ~ InQueue(t)
    BY DEF Init, InQueue
  <2>2. \A t \in Task : ~ Waits(t) /\ ~ Held(t)
    BY <2>1 DEF Init, Waits, Held, Holding
  <2> QED BY <2>1, <2>2 DEF Init, PlaceInv, Holding
<1> QED BY <1>1, PlaceInductive, TypeInvariant, PTL DEF Spec

-----------------------------------------------------------------------------
(* No step leaves a pending task that never found the queue full without a *)
(* place.                                                                  *)
LEMMA PendingInductive == TypeInv /\ PendingIsQueued /\ [Next]_vars => PendingIsQueued'
<1> SUFFICES ASSUME TypeInv, PendingIsQueued, [Next]_vars PROVE PendingIsQueued'
  OBVIOUS
<1>t. /\ status \in [Task -> Status]
      /\ caller \in [Task -> {"none", "enqueue", "mark", "count"}]
      /\ timers \in [Task -> Nat]
      /\ queue \in Seq(Task)
      /\ pc \in [Worker -> PC]
      /\ job \in [Worker -> Task \cup {Nil}]
      /\ \A w \in Worker : pc[w] \in Working => job[w] \in Task
  BY DEF TypeInv, TypeOK
<1> USE <1>t DEF control, task, pool, vars
(* Tasks that are pending after the step were pending before it, and those *)
(* that were at a worker still are.                                        *)
<1>keep. ASSUME UNCHANGED <<queue, turnedAway>>,
                \A t \in Task : status'[t] = "pending" =>
                  /\ status[t] = "pending" \/ timers'[t] > 0 \/ caller'[t] = "enqueue"
                  /\ timers[t] > 0 => timers'[t] > 0
                  /\ caller[t] = "enqueue" => caller'[t] = "enqueue"
                  /\ \A v \in Worker : pc[v] = "taken" /\ job[v] = t => pc'[v] = "taken" /\ job'[v] = t
         PROVE  PendingIsQueued'
  <2>1. \A t : InQueue(t)' <=> InQueue(t)
    BY <1>keep DEF InQueue
  <2> QED BY <1>keep, <2>1 DEF PendingIsQueued
(* A task that is put in the queue, or finds it full. *)
<1>put. ASSUME NEW t \in Task, TryEnqueue(t), UNCHANGED <<pc, job>>,
               \A u \in Task : u # t =>
                 /\ status'[u] = status[u] /\ caller'[u] = caller[u] /\ timers'[u] = timers[u]
        PROVE  PendingIsQueued'
  <2>1. /\ \A u \in Task : InQueue(u) => InQueue(u)'
        /\ InQueue(t)' \/ t \in turnedAway'
        /\ turnedAway \subseteq turnedAway'
    <3>1. CASE HasRoom
      <4>1. queue' = Append(queue, t) /\ turnedAway' = turnedAway
        BY <1>put, <3>1 DEF TryEnqueue
      <4>2. /\ DOMAIN queue = 1..Len(queue) /\ Len(queue) \in Nat
            /\ DOMAIN queue' = 1..(Len(queue) + 1)
            /\ \A i \in 1..Len(queue) : queue'[i] = queue[i]
            /\ queue'[Len(queue) + 1] = t
        BY <4>1
      <4>3. Len(queue) + 1 \in DOMAIN queue' /\ DOMAIN queue \subseteq DOMAIN queue'
        BY ONLY <4>2
      <4> QED BY ONLY <4>1, <4>2, <4>3 DEF InQueue
    <3>2. CASE ~ HasRoom
      <4>1. queue' = queue /\ turnedAway' = turnedAway \cup {t}
        BY <1>put, <3>2 DEF TryEnqueue
      <4> QED BY <4>1 DEF InQueue
    <3> QED BY <3>1, <3>2
  <2>2. ASSUME NEW u \in Task, u # t, status'[u] = "pending"
        PROVE  \/ InQueue(u)' \/ timers'[u] > 0 \/ caller'[u] = "enqueue" \/ u \in turnedAway'
               \/ \E w \in Worker : pc'[w] = "taken" /\ job'[w] = u
    BY <1>put, <2>1, <2>2 DEF PendingIsQueued
  <2> QED BY <2>1, <2>2 DEF PendingIsQueued
<1>1. ASSUME NEW t \in Task, AddDownload(t) PROVE PendingIsQueued'
  BY <1>1, <1>keep DEF AddDownload
<1>2. ASSUME NEW t \in Task, EnqueueNew(t) PROVE PendingIsQueued'
  BY <1>2, <1>put DEF EnqueueNew
<1>3. ASSUME NEW t \in Task, ResumeDownload(t) PROVE PendingIsQueued'
  BY <1>3, <1>put DEF ResumeDownload
<1>4. ASSUME NEW t \in Task, Requeue(t) PROVE PendingIsQueued'
  <2>1. \A u \in Task : u # t => status'[u] = status[u] /\ timers'[u] = timers[u]
    BY <1>4 DEF Requeue
  <2> QED BY <1>4, <1>put, <2>1 DEF Requeue
<1>5. ASSUME NEW t \in Task, PauseDownload(t) \/ CancelDownload(t) \/ MarkCancelled(t)
                               \/ CountCancelled(t) \/ Cleanup(t)
      PROVE  PendingIsQueued'
  <2>1. UNCHANGED <<queue, turnedAway, timers, pc, job>>
    BY <1>5 DEF PauseDownload, CancelDownload, MarkCancelled, CountCancelled, Cleanup
  <2>2. \A u \in Task : /\ status'[u] = "pending" => status[u] = "pending"
                        /\ caller[u] = "enqueue" => caller'[u] = "enqueue"
    BY <1>5 DEF PauseDownload, CancelDownload, MarkCancelled, CountCancelled, Cleanup
  <2> QED BY <1>keep, <2>1, <2>2
<1>6. ASSUME NEW w \in Worker, Dequeue(w) PROVE PendingIsQueued'
  <2>1. /\ queue # <<>> /\ pc[w] = "idle" /\ pc' = [pc EXCEPT ![w] = "taken"]
        /\ job' = [job EXCEPT ![w] = Head(queue)] /\ queue' = Tail(queue)
        /\ UNCHANGED <<status, caller, timers, turnedAway>>
    BY <1>6 DEF Dequeue, Step
  <2>2. \A u \in Task : InQueue(u) => u = Head(queue) \/ InQueue(u)'
    <3>1. /\ DOMAIN queue = 1..Len(queue) /\ Len(queue) \in Nat \ {0} /\ Head(queue) = queue[1]
          /\ DOMAIN queue' = 1..(Len(queue) - 1)
          /\ \A i \in 1..(Len(queue) - 1) : queue'[i] = queue[i + 1]
      BY <2>1
    <3>2. \A i \in DOMAIN queue : i # 1 => i - 1 \in DOMAIN queue' /\ queue'[i - 1] = queue[i]
      BY <3>1
    <3> QED BY <3>1, <3>2 DEF InQueue
  <2>3. /\ pc'[w] = "taken" /\ job'[w] = Head(queue)
        /\ \A v \in Worker : pc[v] = "taken" => pc'[v] = "taken" /\ job'[v] = job[v]
    BY <2>1
  <2> QED BY <2>1, <2>2, <2>3 DEF PendingIsQueued
<1>7. ASSUME NEW w \in Worker, Claim(w) PROVE PendingIsQueued'
  <2>1. /\ UNCHANGED <<queue, turnedAway, timers, caller>>
        /\ \A u \in Task : status'[u] = "pending" => status[u] = "pending"
    BY <1>7 DEF Claim
  <2>2. ASSUME NEW u \in Task, NEW v \in Worker, status'[u] = "pending", pc[v] = "taken", job[v] = u
        PROVE  pc'[v] = "taken" /\ job'[v] = u
    BY <1>7, <2>2 DEF Claim, Step
  <2> QED BY <1>keep, <2>1, <2>2
<1>8. ASSUME NEW w \in Worker,
             Exit(w) \/ CountActive(w) \/ StartTransfer(w) \/ EndTransfer(w) \/ CountFailed(w)
               \/ RecordSuccess(w) \/ Finalize(w) \/ Leave(w)
      PROVE  PendingIsQueued'
  <2>1. UNCHANGED <<queue, timers, caller, turnedAway>>
    BY <1>8 DEF Exit, CountActive, StartTransfer, EndTransfer, CountFailed, RecordSuccess,
                Finalize, Leave
  <2>2. \A v \in Worker : pc[v] = "taken" => pc'[v] = "taken" /\ job'[v] = job[v]
    BY <1>8 DEF Exit, CountActive, StartTransfer, EndTransfer, CountFailed, RecordSuccess,
                Finalize, Leave, Step
  <2>3. \A u \in Task : status'[u] = "pending" => status[u] = "pending"
    BY <1>8 DEF Exit, CountActive, StartTransfer, EndTransfer, CountFailed, RecordSuccess,
                Finalize, Leave
  <2> QED BY <1>keep, <2>1, <2>2, <2>3
<1>9. ASSUME NEW w \in Worker, RecordFailure(w) PROVE PendingIsQueued'
  <2>1. /\ UNCHANGED <<queue, caller, job, turnedAway>> /\ pc[w] = "failure"
        /\ \A v \in Worker : v # w => pc'[v] = pc[v]
    BY <1>9 DEF RecordFailure, Step
  <2>2. job[w] \in Task
    BY <2>1 DEF Working, PC
  <2>t. PICK t \in Task : t = job[w]
    BY <2>2
  <2>3. \/ timers' = [timers EXCEPT ![t] = @ + 1] /\ status' = [status EXCEPT ![t] = "pending"]
        \/ timers' = timers /\ status' = [status EXCEPT ![t] = "failed"]
    BY <1>9, <2>t DEF RecordFailure
  <2>4. \A u \in Task : /\ status'[u] = "pending" => status[u] = "pending" \/ timers'[u] > 0
                        /\ timers[u] > 0 => timers'[u] > 0
    <3>1. timers[t] \in Nat
      OBVIOUS
    <3>2. CASE timers' = [timers EXCEPT ![t] = @ + 1] /\ status' = [status EXCEPT ![t] = "pending"]
      <4>1. timers'[t] = timers[t] + 1 /\ timers'[t] > 0
        BY <3>1, <3>2
      <4> QED BY <3>2, <4>1
    <3>3. CASE timers' = timers /\ status' = [status EXCEPT ![t] = "failed"]
      BY <3>3
    <3> QED BY <2>3, <3>2, <3>3
  <2>5. \A v \in Worker : pc[v] = "taken" => pc'[v] = "taken" /\ job'[v] = job[v]
    BY <2>1
  <2> QED BY <1>keep, <2>1, <2>4, <2>5
<1>10. CASE Stop \/ UNCHANGED vars
  BY <1>keep, <1>10 DEF Stop
<1> QED BY <1>1, <1>2, <1>3, <1>4, <1>5, <1>6, <1>7, <1>8, <1>9, <1>10 DEF Next, Work

(* A pending task that never found the queue full is on its way to a       *)
(* worker, whatever the capacity of the queue, and with resumed tasks too. *)
THEOREM PendingTasksAreQueued == Spec => []PendingIsQueued
<1>1. Init => PendingIsQueued
  BY DEF Init, PendingIsQueued
<1> QED BY <1>1, PendingInductive, TypeInvariant, PTL DEF Spec

-----------------------------------------------------------------------------
(* Counting workers *)

Active == {w \in Worker : Counted(w)}

ActiveInv == IsFiniteSet(Active) /\ stats.active = Cardinality(Active)

(* One more in a finite set. *)
LEMMA AddOne ==
  ASSUME NEW S, IsFiniteSet(S), NEW x, x \notin S
  PROVE  /\ IsFiniteSet(S \cup {x})
         /\ Cardinality(S \cup {x}) = Cardinality(S) + 1
BY FS_AddElement

(* One less in a finite set. *)
LEMMA RemoveOne ==
  ASSUME NEW S, IsFiniteSet(S), NEW x \in S
  PROVE  /\ IsFiniteSet(S \ {x})
         /\ Cardinality(S \ {x}) = Cardinality(S) - 1
BY FS_RemoveElement

(* The counters after one of them has changed. *)
LEMMA Recount ==
  ASSUME stats \in [Counter -> Int], NEW c \in Counter, NEW n \in Int
  PROVE  /\ Add(c, n)[c] = stats[c] + n
         /\ \A d \in Counter \ {c} : Add(c, n)[d] = stats[d]
BY DEF Add

(* ActiveTasks counts the workers between increment and decrement.         *)
LEMMA ActiveInductive == TypeInv /\ ActiveInv /\ [Next]_vars => ActiveInv'
<1> SUFFICES ASSUME TypeInv, ActiveInv, [Next]_vars PROVE ActiveInv'
  OBVIOUS
<1>t. /\ pc \in [Worker -> PC] /\ stats \in [Counter -> Int]
  BY DEF TypeInv, TypeOK, Counter
<1> USE <1>t DEF control, task, pool, vars
<1>same. ASSUME stats'["active"] = stats["active"],
                \A w \in Worker : Counted(w)' <=> Counted(w)
         PROVE  ActiveInv'
  <2>1. Active' = Active
    BY <1>same DEF Active
  <2> QED BY <1>same, <2>1 DEF ActiveInv
<1>1. ASSUME NEW t \in Task,
             AddDownload(t) \/ EnqueueNew(t) \/ PauseDownload(t) \/ ResumeDownload(t)
               \/ CancelDownload(t) \/ MarkCancelled(t) \/ CountCancelled(t) \/ Cleanup(t) \/ Requeue(t)
      PROVE  ActiveInv'
  <2>1. pc' = pc
    BY <1>1 DEF AddDownload, EnqueueNew, PauseDownload, ResumeDownload, CancelDownload,
                MarkCancelled, CountCancelled, Cleanup, Requeue
  <2>2. stats' = stats \/ stats' = Add("cancelled", 1)
          \/ stats' = [stats EXCEPT !.total = @ + 1, !.queued = @ + 1]
    BY <1>1 DEF AddDownload, EnqueueNew, PauseDownload, ResumeDownload, CancelDownload,
                MarkCancelled, CountCancelled, Cleanup, Requeue
  <2>3. stats'["active"] = stats["active"]
    BY <2>2 DEF Add, Counter
  <2> QED BY <1>same, <2>1, <2>3 DEF Counted
<1>2. ASSUME NEW w \in Worker,
             Dequeue(w) \/ Exit(w) \/ Claim(w) \/ StartTransfer(w) \/ EndTransfer(w)
               \/ RecordFailure(w) \/ CountFailed(w) \/ RecordSuccess(w) \/ Finalize(w)
      PROVE  ActiveInv'
  <2>1. \A v \in Worker : Counted(v)' <=> Counted(v)
    BY <1>2 DEF Dequeue, Exit, Claim, StartTransfer, EndTransfer, RecordFailure, CountFailed,
                RecordSuccess, Finalize, Step, Counted
  <2>2. stats' = stats \/ stats' = Add("failed", 1) \/ stats' = Add("completed", 1)
    BY <1>2 DEF Dequeue, Exit, Claim, StartTransfer, EndTransfer, RecordFailure, CountFailed,
                RecordSuccess, Finalize
  <2>3. stats'["active"] = stats["active"]
    BY <2>2 DEF Add, Counter
  <2> QED BY <1>same, <2>1, <2>3
<1>3. ASSUME NEW w \in Worker, CountActive(w) PROVE ActiveInv'
  <2>1. w \notin Active /\ Active' = Active \cup {w}
    BY <1>3 DEF CountActive, Step, Active, Counted
  <2>2. stats'["active"] = stats["active"] + 1
    BY <1>3 DEF CountActive, Counter
  <2> QED BY <2>1, <2>2, AddOne DEF ActiveInv
<1>4. ASSUME NEW w \in Worker, Leave(w) PROVE ActiveInv'
  <2>1. w \in Active /\ Active' = Active \ {w}
    BY <1>4 DEF Leave, Step, Active, Counted
  <2>2. stats'["active"] = stats["active"] - 1
    BY <1>4 DEF Leave, Add, Counter
  <2> QED BY <2>1, <2>2, RemoveOne DEF ActiveInv
<1>5. CASE Stop \/ UNCHANGED vars
  BY <1>same, <1>5 DEF Stop, Counted
<1> QED BY <1>1, <1>2, <1>3, <1>4, <1>5 DEF Next, Work

-----------------------------------------------------------------------------
(* As long as nobody has begun to cancel a task and none has found the     *)
(* queue full, a task on its way to a worker is pending, so that no worker *)
(* lets it drop, and each task added is completed, failed or still in one  *)
(* of its places.                                                          *)
Undisturbed ==
  /\ turnedAway = {} /\ stats.cancelled = 0
  /\ \A t \in Task : caller[t] \notin {"mark", "count"}

Open == {t \in Task : Waits(t) \/ Held(t)}

BalanceInv ==
  /\ stats.cancelled >= 0
  /\ \A t \in Task : status[t] = "new" => t \notin listed /\ caller[t] = "none"
  /\ Undisturbed =>
       /\ \A t \in Task : Waits(t) \/ Taken(t) => status[t] = "pending"
       /\ stats.total = stats.completed + stats.failed + Cardinality(Open)

(* No step of the download manager breaks BalanceInv under the same        *)
(* conditions.                                                             *)
LEMMA BalanceInductive ==
  ASSUME "resume" \notin Calls, IsFiniteSet(Task)
  PROVE  TypeInv /\ PlaceInv /\ PlaceInv' /\ BalanceInv /\ [Next]_vars => BalanceInv'
<1> SUFFICES ASSUME TypeInv, PlaceInv, PlaceInv', BalanceInv, [Next]_vars
             PROVE  BalanceInv'
  OBVIOUS
<1>t. /\ status \in [Task -> Status]
      /\ caller \in [Task -> {"none", "enqueue", "mark", "count"}]
      /\ timers \in [Task -> Nat]
      /\ queue \in Seq(Task)
      /\ pc \in [Worker -> PC]
      /\ job \in [Worker -> Task \cup {Nil}]
      /\ \A w \in Worker : pc[w] \in Holding => job[w] \in Task
      /\ stats \in [Counter -> Int]
  BY DEF TypeInv, TypeOK, Working, Holding, PC, Counter
(* Who found the queue full is not forgotten. *)
<1>away. turnedAway' = {} => turnedAway = {}
  <2>1. ASSUME NEW t \in Task,
               AddDownload(t) \/ EnqueueNew(t) \/ PauseDownload(t) \/ ResumeDownload(t)
                 \/ CancelDownload(t) \/ MarkCancelled(t) \/ CountCancelled(t) \/ Cleanup(t) \/ Requeue(t)
        PROVE  turnedAway \subseteq turnedAway'
    BY <2>1 DEF AddDownload, EnqueueNew, PauseDownload, ResumeDownload, CancelDownload,
                MarkCancelled, CountCancelled, Cleanup, Requeue, TryEnqueue, control
  <2>2. ASSUME NEW w \in Worker, Work(w) PROVE turnedAway \subseteq turnedAway'
    BY <2>2 DEF Work, Dequeue, Exit, Claim, CountActive, StartTransfer, EndTransfer, RecordFailure,
                CountFailed, RecordSuccess, Finalize, Leave, control
  <2>3. CASE Stop \/ UNCHANGED vars
    BY <2>3 DEF Stop, control, vars
  <2> QED BY <2>1, <2>2, <2>3 DEF Next
<1> USE <1>t, <1>away DEF control, task, pool, vars
<1>f. IsFiniteSet(Open) /\ Cardinality(Open) \in Nat
  <2>1. Open \in SUBSET Task
    BY DEF Open
  <2> QED BY <2>1, FS_Subset, FS_CardinalityType
(* Steps after which the same tasks are open as before. *)
<1>same. ASSUME \A c \in Counter \ {"queued", "active"} : stats'[c] = stats[c],
                \A t \in Task : status'[t] = "new" =>
                  status[t] = "new" /\ (t \in listed' => t \in listed) /\ caller'[t] = caller[t],
                Undisturbed' => Undisturbed,
                Undisturbed => \A t \in Task : Waits(t)' \/ Held(t)' <=> Waits(t) \/ Held(t),
                Undisturbed => \A t \in Task : Waits(t)' \/ Taken(t)' => status'[t] = "pending"
         PROVE  BalanceInv'
  <2>1. Undisturbed => Open' = Open
    BY <1>same DEF Open
  <2>2. stats'["cancelled"] = stats["cancelled"] /\ stats'["total"] = stats["total"]
        /\ stats'["completed"] = stats["completed"] /\ stats'["failed"] = stats["failed"]
    BY <1>same DEF Counter
  <2> QED BY <1>same, <2>1, <2>2 DEF BalanceInv
(* A task that a worker has claimed is nowhere else. *)
<1>mine. ASSUME NEW w \in Worker, NEW t \in Task, job'[w] = t, pc'[w] \in Holding \ {"taken"}
         PROVE  ~ Waits(t)' /\ ~ Taken(t)'
  <2>1. ~ Waits(t)'
    BY <1>mine DEF PlaceInv, Held
  <2>2. ASSUME NEW v \in Worker, pc'[v] = "taken", job'[v] = t PROVE FALSE
    <3>1. pc'[v] \in Holding /\ pc'[w] \in Holding /\ job'[v] = job'[w]
      BY <1>mine, <2>2 DEF Holding
    <3>2. v = w
      BY <3>1 DEF PlaceInv
    <3> QED BY <1>mine, <2>2, <3>2
  <2> QED BY <2>1, <2>2 DEF Taken
<1>1. ASSUME NEW t \in Task, AddDownload(t) PROVE BalanceInv'
  <2>1. /\ UNCHANGED <<queue, timers, pc, job>> /\ listed' = listed \cup {t}
        /\ caller' = [caller EXCEPT ![t] = "enqueue"] /\ status' = [status EXCEPT ![t] = "pending"]
        /\ ~ Waits(t) /\ ~ Held(t) /\ caller[t] = "none"
    BY <1>1 DEF AddDownload, PlaceInv, BalanceInv
  <2>2. /\ stats'["cancelled"] = stats["cancelled"] /\ stats'["total"] = stats["total"] + 1
        /\ stats'["completed"] = stats["completed"] /\ stats'["failed"] = stats["failed"]
    BY <1>1 DEF AddDownload, Counter
  <2>3. \A u \in Task : (InQueue(u)' <=> InQueue(u)) /\ (Held(u)' <=> Held(u)) /\ (Taken(u)' <=> Taken(u))
    BY <2>1 DEF InQueue, Held, Taken
  <2>4. \A u \in Task : u # t => (Waits(u)' <=> Waits(u)) /\ status'[u] = status[u]
    BY <2>1, <2>3 DEF Waits
  <2>5. Waits(t)' /\ status'[t] = "pending"
    BY <2>1 DEF Waits
  <2>6. t \notin Open /\ Open' = Open \cup {t}
    BY <2>1, <2>3, <2>4, <2>5 DEF Open
  <2>7. Cardinality(Open)' = Cardinality(Open) + 1
    BY <1>f, <2>6, AddOne
  <2>8. Undisturbed' => Undisturbed
    BY <2>1, <2>2 DEF Undisturbed
  <2>9. \A u \in Task : status'[u] = "new" => u \notin listed' /\ caller'[u] = "none"
    BY <2>1 DEF BalanceInv
  <2>10. Undisturbed => \A u \in Task : Waits(u)' \/ Taken(u)' => status'[u] = "pending"
    BY <2>3, <2>4, <2>5 DEF BalanceInv
  <2>11. Undisturbed => stats'["total"] = stats'["completed"] + stats'["failed"] + Cardinality(Open)'
    <3>1. /\ stats["total"] \in Int /\ stats["completed"] \in Int /\ stats["failed"] \in Int
      BY DEF Counter
    <3>2. Undisturbed => stats["total"] = stats["completed"] + stats["failed"] + Cardinality(Open)
      BY DEF BalanceInv
    <3> QED BY ONLY <1>f, <2>2, <2>7, <3>1, <3>2
  <2>12. stats'["cancelled"] >= 0
    BY <2>2 DEF BalanceInv
  <2> QED BY <2>8, <2>9, <2>10, <2>11, <2>12 DEF BalanceInv
(* A task that goes to the queue waits as it did before. *)
<1>put. ASSUME NEW t \in Task, queue' = Append(queue, t), Waits(t), ~ InQueue(t),
               UNCHANGED <<listed, status, pc, job, stats>>,
               \A u \in Task : u # t => caller'[u] = caller[u] /\ timers'[u] = timers[u],
               caller[t] \in {"mark", "count"} => caller'[t] = caller[t]
        PROVE  BalanceInv'
  <2>1. \A u \in Task : InQueue(u)' <=> u = t \/ InQueue(u)
    <3>1. \A i, j \in DOMAIN queue : queue[i] = queue[j] => i = j
      BY DEF PlaceInv
    <3>2. \A i \in DOMAIN queue : queue[i] # t
      BY <1>put DEF InQueue
    <3>3. \A u : (\E i \in DOMAIN Append(queue, t) : Append(queue, t)[i] = u) <=>
                   u = t \/ \E i \in DOMAIN queue : queue[i] = u
      BY ONLY <3>1, <3>2, PutLast, t \in Task, queue \in Seq(Task)
    <3> QED BY <1>put, <3>3 DEF InQueue
  <2>2. \A u \in Task : (Held(u)' <=> Held(u)) /\ (Taken(u)' <=> Taken(u))
    BY <1>put DEF Held, Taken
  <2>3. \A u \in Task : Waits(u)' <=> Waits(u)
    BY <1>put, <2>1 DEF Waits
  <2>4. Undisturbed' => Undisturbed
    BY <1>put DEF Undisturbed
  <2>5. \A u \in Task : status'[u] = "new" => u # t
    BY <1>put DEF PlaceInv
  <2>6. Undisturbed => \A u \in Task : Waits(u)' \/ Taken(u)' => status'[u] = "pending"
    BY <1>put, <2>2, <2>3 DEF BalanceInv
  <2> QED BY <1>same, <1>put, <2>2, <2>3, <2>4, <2>5, <2>6
(* A task that finds the queue full. *)
<1>full. ASSUME UNCHANGED <<listed, stats>>, turnedAway' # {},
                \A u \in Task : /\ status'[u] = "new" => status[u] = "new"
                                /\ caller[u] = "none" => caller'[u] = "none"
         PROVE  BalanceInv'
  BY <1>full DEF BalanceInv, Undisturbed
<1>2. ASSUME NEW t \in Task, EnqueueNew(t) PROVE BalanceInv'
  <2>1. caller[t] = "enqueue" /\ Waits(t)
    BY <1>2 DEF EnqueueNew, Waits
  <2>2. ~ InQueue(t)
    BY <2>1 DEF PlaceInv
  <2>3. /\ caller' = [caller EXCEPT ![t] = "none"]
        /\ UNCHANGED <<listed, status, timers, pc, job, stats>>
    BY <1>2 DEF EnqueueNew
  <2>4. CASE HasRoom
    <3>1. queue' = Append(queue, t)
      BY <1>2, <2>4 DEF EnqueueNew, TryEnqueue
    <3> QED BY <1>put, <2>1, <2>2, <2>3, <3>1
  <2>5. CASE ~ HasRoom
    <3>1. turnedAway' # {}
      BY <1>2, <2>5 DEF EnqueueNew, TryEnqueue
    <3> QED BY <1>full, <2>3, <3>1
  <2> QED BY <2>4, <2>5
<1>3. ASSUME NEW t \in Task, Requeue(t) PROVE BalanceInv'
  <2>1. timers[t] > 0 /\ timers' = [timers EXCEPT ![t] = @ - 1] /\ Waits(t)
    BY <1>3 DEF Requeue, Waits
  <2>2. ~ InQueue(t)
    BY <2>1 DEF PlaceInv
  <2>3. UNCHANGED <<listed, pc, job, stats, caller>>
    BY <1>3 DEF Requeue
  <2>4. CASE HasRoom
    <3>1. queue' = Append(queue, t) /\ status' = status
      BY <1>3, <2>4 DEF Requeue, TryEnqueue
    <3> QED BY <1>put, <2>1, <2>2, <2>3, <3>1
  <2>5. CASE ~ HasRoom
    <3>1. turnedAway' # {} /\ status' = [status EXCEPT ![t] = "failed"]
      BY <1>3, <2>5 DEF Requeue, TryEnqueue
    <3> QED BY <1>full, <2>3, <3>1
  <2> QED BY <2>4, <2>5
<1>4. ASSUME NEW t \in Task, PauseDownload(t) PROVE BalanceInv'
  <2>1. /\ status[t] = "downloading" /\ status' = [status EXCEPT ![t] = "paused"]
        /\ UNCHANGED <<listed, caller, queue, timers, pc, job, stats>>
    BY <1>4 DEF PauseDownload
  <2>2. \A u \in Task : /\ Waits(u)' <=> Waits(u)
                        /\ Held(u)' <=> Held(u)
                        /\ Taken(u)' <=> Taken(u)
    BY <2>1 DEF Waits, InQueue, Held, Taken
  <2>3. Undisturbed => \A u \in Task : Waits(u)' \/ Taken(u)' => status'[u] = "pending"
    BY <2>1, <2>2 DEF BalanceInv
  <2>4. Undisturbed' => Undisturbed
    BY <2>1 DEF Undisturbed
  <2> QED BY <1>same, <2>1, <2>2, <2>3, <2>4
<1>5. ASSUME NEW t \in Task, CancelDownload(t) \/ MarkCancelled(t) PROVE BalanceInv'
  <2>1. caller'[t] \in {"mark", "count"} /\ stats' = stats
    BY <1>5 DEF CancelDownload, MarkCancelled
  <2>2. ~ Undisturbed'
    BY <2>1 DEF Undisturbed
  <2>3. ASSUME NEW u \in Task, status'[u] = "new" PROVE u \notin listed' /\ caller'[u] = "none"
    <3>1. status[u] = "new" /\ u # t
      BY <1>5, <2>3 DEF CancelDownload, MarkCancelled, BalanceInv
    <3> QED BY <1>5, <3>1 DEF CancelDownload, MarkCancelled, BalanceInv
  <2> QED BY <2>1, <2>2, <2>3 DEF BalanceInv
<1>6. ASSUME NEW t \in Task, CountCancelled(t) PROVE BalanceInv'
  <2>1. /\ stats'["cancelled"] = stats["cancelled"] + 1
        /\ caller' = [caller EXCEPT ![t] = "none"] /\ UNCHANGED <<listed, status>>
    <3>1. stats' = Add("cancelled", 1) /\ "cancelled" \in Counter /\ 1 \in Int
      BY <1>6 DEF CountCancelled, Counter
    <3>2. stats'["cancelled"] = stats["cancelled"] + 1
      BY <3>1, Recount
    <3> QED BY <1>6, <3>2 DEF CountCancelled
  <2>2. stats["cancelled"] \in Int /\ stats["cancelled"] >= 0
    BY DEF BalanceInv, Counter
  <2>3. stats'["cancelled"] >= 0 /\ stats'["cancelled"] # 0
    BY <2>1, <2>2
  <2>4. \A u \in Task : status'[u] = "new" => u \notin listed' /\ caller'[u] = "none"
    BY <2>1 DEF BalanceInv
  <2> QED BY <2>3, <2>4 DEF BalanceInv, Undisturbed
<1>7. CASE (\E t \in Task : Cleanup(t)) \/ Stop \/ UNCHANGED vars
  <2>1. /\ UNCHANGED <<caller, status, queue, timers, pc, job, stats>>
        /\ listed' \subseteq listed
    BY <1>7 DEF Cleanup, Stop
  <2>2. \A u \in Task : /\ Waits(u)' <=> Waits(u)
                        /\ Held(u)' <=> Held(u)
                        /\ Taken(u)' <=> Taken(u)
    BY <2>1 DEF Waits, InQueue, Held, Taken
  <2>3. Undisturbed => \A u \in Task : Waits(u)' \/ Taken(u)' => status'[u] = "pending"
    BY <2>1, <2>2 DEF BalanceInv
  <2>4. Undisturbed' => Undisturbed
    BY <2>1 DEF Undisturbed
  <2> QED BY <1>same, <2>1, <2>2, <2>3, <2>4
<1>8. ASSUME NEW w \in Worker, Dequeue(w) PROVE BalanceInv'
  <2>h. Head(queue) \in Task
    BY <1>8, HeadTail DEF Dequeue
  <2>t. PICK t \in Task : t = Head(queue)
    BY <2>h
  <2>1. /\ queue # <<>> /\ pc[w] = "idle" /\ pc' = [pc EXCEPT ![w] = "taken"]
        /\ job' = [job EXCEPT ![w] = t]
        /\ queue' = Tail(queue) /\ UNCHANGED <<listed, status, caller, timers, stats>>
    BY <1>8, <2>t DEF Dequeue, Step
  <2>2. /\ InQueue(t)
        /\ \A u : InQueue(u)' <=> u # t /\ InQueue(u)
    <3>1. \A i, j \in DOMAIN queue : queue[i] = queue[j] => i = j
      BY DEF PlaceInv
    <3>2. /\ \E i \in DOMAIN queue : queue[i] = t
          /\ \A u : (\E i \in DOMAIN queue' : queue'[i] = u) <=>
                      u # t /\ \E i \in DOMAIN queue : queue[i] = u
      BY ONLY <2>1, <2>t, <3>1, TakeFirst, queue \in Seq(Task)
    <3> QED BY <3>2 DEF InQueue
  <2>3. /\ pc'[w] = "taken" /\ job'[w] = t /\ pc[w] \notin Holding
        /\ \A v \in Worker : v # w => pc'[v] = pc[v] /\ job'[v] = job[v]
    BY <2>1 DEF Holding
  <2>4. \A u \in Task : (Held(u)' <=> u = t \/ Held(u)) /\ (Taken(u)' <=> u = t \/ Taken(u))
    BY <2>3 DEF Held, Taken, Holding
  <2>5. \A u \in Task : u # t => (Waits(u)' <=> Waits(u))
    BY <2>1, <2>2 DEF Waits
  <2>6. Waits(t) /\ ~ Waits(t)'
    <3>1. Waits(t)
      BY <2>2 DEF Waits
    <3>2. Held(t)'
      BY <2>4
    <3> QED BY <3>1, <3>2 DEF PlaceInv
  <2>7. Undisturbed => \A u \in Task : Waits(u)' \/ Taken(u)' => status'[u] = "pending"
    BY <2>1, <2>4, <2>5, <2>6 DEF BalanceInv
  <2>8. Undisturbed' => Undisturbed
    BY <2>1 DEF Undisturbed
  <2> QED BY <1>same, <2>1, <2>4, <2>5, <2>6, <2>7, <2>8
(* A worker that keeps its task, or has none, and writes no status.        *)
<1>9. ASSUME NEW w \in Worker,
             Exit(w) \/ CountActive(w) \/ StartTransfer(w) \/ EndTransfer(w) \/ Leave(w)
      PROVE  BalanceInv'
  <2>1. /\ UNCHANGED <<listed, caller, status, queue, timers>>
        /\ \A c \in Counter \ {"queued", "active"} : stats'[c] = stats[c]
    BY <1>9 DEF Exit, CountActive, StartTransfer, EndTransfer, Leave, Add, Counter
  <2>2. \A v \in Worker : /\ pc'[v] \in Holding <=> pc[v] \in Holding
                          /\ pc'[v] = "taken" <=> pc[v] = "taken"
                          /\ pc[v] \in Holding => job'[v] = job[v]
    BY <1>9 DEF Exit, CountActive, StartTransfer, EndTransfer, Leave, Step, Holding
  <2>3. \A u \in Task : /\ Waits(u)' <=> Waits(u)
                        /\ Held(u)' <=> Held(u)
                        /\ Taken(u)' <=> Taken(u)
    BY <2>1, <2>2 DEF Waits, InQueue, Held, Taken, Holding
  <2>4. Undisturbed => \A u \in Task : Waits(u)' \/ Taken(u)' => status'[u] = "pending"
    BY <2>1, <2>3 DEF BalanceInv
  <2>5. Undisturbed' => Undisturbed
    BY <2>1 DEF Undisturbed, Counter
  <2> QED BY <1>same, <2>1, <2>3, <2>4, <2>5
(* A worker that keeps its task and writes its status. *)
<1>keep. ASSUME NEW w \in Worker, NEW t \in Task, job[w] = t, pc[w] \in Holding,
                pc'[w] \in Holding \ {"taken"},
                \A v \in Worker : v # w => pc'[v] = pc[v],
                UNCHANGED <<listed, caller, queue, timers, job, stats>>,
                status'[t] # "new", \A u \in Task : u # t => status'[u] = status[u]
         PROVE  BalanceInv'
  <2>1. ~ Waits(t)' /\ ~ Taken(t)'
    BY <1>keep, <1>mine
  <2>2. \A u \in Task : (Waits(u)' <=> Waits(u)) /\ (Held(u)' <=> Held(u))
    BY <1>keep DEF Waits, InQueue, Held
  <2>3. \A u \in Task : u # t => (Taken(u)' <=> Taken(u))
    BY <1>keep DEF Taken
  <2>4. Undisturbed => \A u \in Task : Waits(u)' \/ Taken(u)' => status'[u] = "pending"
    BY <1>keep, <2>1, <2>2, <2>3 DEF BalanceInv
  <2>5. Undisturbed' => Undisturbed
    BY <1>keep DEF Undisturbed
  <2> QED BY <1>keep, <1>same, <2>2, <2>4, <2>5
<1>10. ASSUME NEW w \in Worker, Claim(w) PROVE BalanceInv'
  <2>1. UNCHANGED <<listed, caller, queue, timers, stats>> /\ pc[w] = "taken"
    BY <1>10 DEF Claim, Step
  <2>j. job[w] \in Task
    BY <2>1 DEF Holding
  <2>t. PICK t \in Task : t = job[w]
    BY <2>j
  <2>2. CASE Step(w, "taken", "claimed") /\ status' = [status EXCEPT ![t] = "downloading"] /\ job' = job
    <3>1. pc[w] \in Holding /\ pc'[w] = "claimed" /\ \A v \in Worker : v # w => pc'[v] = pc[v]
      BY <2>2 DEF Step, Holding
    <3> QED BY <1>keep, <2>1, <2>2, <2>t, <3>1 DEF Holding
  <2>3. CASE status[t] # "pending" /\ status' = status
    <3>1. Taken(t)
      BY <2>1, <2>t DEF Taken
    <3>2. ~ Undisturbed
      BY <2>3, <3>1 DEF BalanceInv
    <3>3. ~ Undisturbed'
      BY <2>1, <3>2 DEF Undisturbed
    <3> QED BY <2>1, <2>3, <3>3 DEF BalanceInv
  <2> QED BY <1>10, <2>1, <2>2, <2>3, <2>t DEF Claim
<1>11. ASSUME NEW w \in Worker, RecordSuccess(w) PROVE BalanceInv'
  <2>1. /\ pc[w] = "success" /\ pc'[w] = "finalize" /\ \A v \in Worker : v # w => pc'[v] = pc[v]
        /\ UNCHANGED <<listed, caller, queue, timers, job, stats>>
        /\ status' = [status EXCEPT ![job[w]] = "completed"]
    BY <1>11 DEF RecordSuccess, Step
  <2>2. job[w] \in Task
    BY <2>1 DEF Holding
  <2> QED BY <1>keep, <2>1, <2>2 DEF Holding
<1>12. ASSUME NEW w \in Worker, RecordFailure(w) PROVE BalanceInv'
  <2>1. pc[w] = "failure" /\ UNCHANGED <<listed, caller, queue, job, stats>>
    BY <1>12 DEF RecordFailure
  <2>j. job[w] \in Task
    BY <2>1 DEF Holding
  <2>t. PICK t \in Task : t = job[w]
    BY <2>j
  <2>2. CASE /\ Step(w, "failure", "give up")
             /\ status' = [status EXCEPT ![t] = "failed"] /\ UNCHANGED timers
    <3>1. pc[w] \in Holding /\ pc'[w] = "give up" /\ \A v \in Worker : v # w => pc'[v] = pc[v]
      BY <2>2 DEF Step, Holding
    <3> QED BY <1>keep, <2>1, <2>2, <2>t, <3>1 DEF Holding
  <2>3. CASE /\ Step(w, "failure", "leave")
             /\ status' = [status EXCEPT ![t] = "pending"]
             /\ timers' = [timers EXCEPT ![t] = @ + 1]
    <3>1. /\ timers'[t] > 0 /\ \A u \in Task : u # t => timers'[u] = timers[u] /\ status'[u] = status[u]
          /\ status'[t] = "pending"
      BY <2>3
    <3>2. pc'[w] = "leave" /\ \A v \in Worker : v # w => pc'[v] = pc[v]
      BY <2>3 DEF Step
    <3>3. Held(t) /\ Waits(t)'
      BY <2>1, <2>t, <3>1 DEF Held, Holding, Waits
    <3>8. \A u \in Task : u # t => (Waits(u)' <=> Waits(u))
      BY <2>1, <3>1 DEF Waits, InQueue
    <3>9. \A u \in Task : u # t => (Held(u)' <=> Held(u)) /\ (Taken(u)' <=> Taken(u))
      BY <2>1, <2>t, <3>2 DEF Held, Taken
    <3>10. ~ Taken(t)'
      <4> SUFFICES ASSUME NEW v \in Worker, pc'[v] = "taken", job'[v] = t PROVE FALSE
        BY DEF Taken
      <4>1. v # w /\ pc[v] \in Holding /\ pc[w] \in Holding /\ job[v] = job[w]
        BY <2>1, <2>t, <3>2 DEF Holding
      <4> QED BY <4>1 DEF PlaceInv
    <3>5. Undisturbed => \A u \in Task : Waits(u)' \/ Taken(u)' => status'[u] = "pending"
      BY <3>1, <3>8, <3>9, <3>10 DEF BalanceInv
    <3>6. Undisturbed' => Undisturbed
      BY <2>1 DEF Undisturbed
    <3>7. \A u \in Task : Waits(u)' \/ Held(u)' <=> Waits(u) \/ Held(u)
      BY <3>3, <3>8, <3>9
    <3> QED BY <1>same, <2>1, <3>1, <3>5, <3>6, <3>7
  <2> QED BY <1>12, <2>2, <2>3, <2>t DEF RecordFailure
(* A worker that counts the outcome of its task. *)
<1>13. ASSUME NEW w \in Worker, pc[w] \in {"give up", "finalize"}, pc' = [pc EXCEPT ![w] = "leave"],
              stats' \in [Counter -> Int],
              stats'["cancelled"] = stats["cancelled"], stats'["total"] = stats["total"],
              stats'["completed"] + stats'["failed"] = stats["completed"] + stats["failed"] + 1,
              UNCHANGED <<listed, caller, status, queue, timers, job>>
       PROVE  BalanceInv'
  <2>j. job[w] \in Task /\ pc[w] \in Holding
    BY <1>13 DEF Holding
  <2>t. PICK t \in Task : t = job[w]
    BY <2>j
  <2>1. pc'[w] = "leave" /\ \A v \in Worker : v # w => pc'[v] = pc[v]
    BY <1>13
  <2>2. Held(t)
    BY <2>j, <2>t DEF Held
  <2>3. ~ Waits(t) /\ ~ Held(t)'
    <3>1. ~ Waits(t)
      BY <2>2 DEF PlaceInv
    <3>2. ASSUME NEW v \in Worker, pc'[v] \in Holding, job'[v] = t PROVE FALSE
      <4>1. v # w
        BY <2>1, <3>2 DEF Holding
      <4>2. pc[v] \in Holding /\ job[v] = job[w] /\ pc[w] \in Holding
        BY <1>13, <2>1, <2>j, <2>t, <3>2, <4>1 DEF Holding
      <4> QED BY <4>1, <4>2 DEF PlaceInv
    <3> QED BY <3>1, <3>2 DEF Held
  <2>4. \A u \in Task : /\ Waits(u)' <=> Waits(u)
                        /\ u # t => (Held(u)' <=> Held(u))
                        /\ Taken(u)' <=> Taken(u)
    BY <1>13, <2>1, <2>j, <2>t DEF Waits, InQueue, Held, Taken
  <2>5. t \in Open /\ Open' = Open \ {t}
    BY <2>2, <2>3, <2>4 DEF Open
  <2>6. Cardinality(Open)' = Cardinality(Open) - 1
    BY <1>f, <2>5, RemoveOne
  <2>8. stats'["completed"] \in Int /\ stats'["failed"] \in Int
        /\ stats["total"] \in Int /\ stats["completed"] \in Int /\ stats["failed"] \in Int
    BY <1>13 DEF Counter
  <2>9. Undisturbed' => Undisturbed
    BY <1>13 DEF Undisturbed
  <2>10. Undisturbed => stats'["total"] = stats'["completed"] + stats'["failed"] + Cardinality(Open)'
    <3>1. Undisturbed => stats["total"] = stats["completed"] + stats["failed"] + Cardinality(Open)
      BY DEF BalanceInv
    <3>2. stats'["total"] = stats["total"]
          /\ stats'["completed"] + stats'["failed"] = stats["completed"] + stats["failed"] + 1
      BY <1>13
    <3> QED BY ONLY <1>f, <2>6, <2>8, <3>1, <3>2
  <2>11. Undisturbed => \A u \in Task : Waits(u)' \/ Taken(u)' => status'[u] = "pending"
    BY <1>13, <2>4 DEF BalanceInv
  <2>12. /\ stats'["cancelled"] >= 0
         /\ \A u \in Task : status'[u] = "new" => u \notin listed' /\ caller'[u] = "none"
    BY <1>13 DEF BalanceInv
  <2> QED BY <2>9, <2>10, <2>11, <2>12 DEF BalanceInv
<1>14. ASSUME NEW w \in Worker, CountFailed(w) \/ Finalize(w) PROVE BalanceInv'
  <2>1. /\ pc[w] \in {"give up", "finalize"} /\ pc' = [pc EXCEPT ![w] = "leave"]
        /\ UNCHANGED <<listed, caller, status, queue, timers, job>>
        /\ stats' = Add("failed", 1) \/ stats' = Add("completed", 1)
    BY <1>14 DEF CountFailed, Finalize, Step
  <2>2. /\ stats' \in [Counter -> Int]
        /\ stats'["cancelled"] = stats["cancelled"] /\ stats'["total"] = stats["total"]
        /\ stats'["completed"] + stats'["failed"] = stats["completed"] + stats["failed"] + 1
    <3>1. CASE stats' = Add("failed", 1)
      <4>1. stats'["failed"] = stats["failed"] + 1 /\ stats'["completed"] = stats["completed"]
        BY <3>1 DEF Add, Counter
      <4>2. stats["failed"] \in Int /\ stats["completed"] \in Int
        BY DEF Counter
      <4>3. stats' \in [Counter -> Int]
        BY <3>1 DEF Add, Counter
      <4>4. stats'["cancelled"] = stats["cancelled"] /\ stats'["total"] = stats["total"]
        BY <3>1 DEF Add, Counter
      <4> QED BY ONLY <4>1, <4>2, <4>3, <4>4
    <3>2. CASE stats' = Add("completed", 1)
      <4>1. stats'["completed"] = stats["completed"] + 1 /\ stats'["failed"] = stats["failed"]
        BY <3>2 DEF Add, Counter
      <4>2. stats["failed"] \in Int /\ stats["completed"] \in Int
        BY DEF Counter
      <4>3. stats' \in [Counter -> Int]
        BY <3>2 DEF Add, Counter
      <4>4. stats'["cancelled"] = stats["cancelled"] /\ stats'["total"] = stats["total"]
        BY <3>2 DEF Add, Counter
      <4> QED BY ONLY <4>1, <4>2, <4>3, <4>4
    <3> QED BY <2>1, <3>1, <3>2
  <2> QED BY <1>13, <2>1, <2>2
<1>15. ASSUME NEW t \in Task, ResumeDownload(t) PROVE FALSE
  BY <1>15 DEF ResumeDownload
<1> QED BY <1>1, <1>2, <1>3, <1>4, <1>5, <1>6, <1>7, <1>8, <1>9, <1>10, <1>11, <1>12, <1>14, <1>15
        DEF Next, Work

(* While nobody resumes a paused task, the statistics add up. *)
THEOREM StatisticsAddUp ==
  ASSUME "resume" \notin Calls, IsFiniteSet(Task)
  PROVE  Spec => []StatisticsBalance
<1>1. Init => ActiveInv /\ BalanceInv
  <2> SUFFICES ASSUME Init PROVE ActiveInv /\ BalanceInv
    OBVIOUS
  <2>1. DOMAIN queue = {} /\ \A t \in Task : ~ InQueue(t)
    BY DEF Init, InQueue
  <2>2. \A t \in Task : ~ Waits(t) /\ ~ Held(t) /\ ~ Taken(t)
    BY <2>1 DEF Init, Waits, Held, Taken, Holding
  <2>3. Open = {} /\ Active = {}
    BY <2>2 DEF Init, Open, Active, Counted
  <2> QED BY <2>2, <2>3, FS_EmptySet DEF Init, ActiveInv, BalanceInv
<1>2. Spec => []ActiveInv
  BY <1>1, ActiveInductive, TypeInvariant, PTL DEF Spec
<1>3. Spec => []BalanceInv
  BY <1>1, BalanceInductive, TypeInvariant, PlaceInvariant, PTL DEF Spec
<1>4. TypeInv /\ ActiveInv /\ BalanceInv => StatisticsBalance
  <2> SUFFICES ASSUME TypeInv, ActiveInv, BalanceInv, Quiet, stats.cancelled = 0, turnedAway = {}
               PROVE  stats.completed + stats.failed = stats.total
    BY DEF StatisticsBalance, ActiveInv, Active
  <2>1. DOMAIN queue = {} /\ \A t \in Task : ~ InQueue(t)
    BY DEF Quiet, InQueue
  <2>2. Open = {}
    <3>1. \A t \in Task : ~ Held(t)
      BY DEF Quiet, Held, Holding
    <3>2. \A t \in Task : ~ Waits(t)
      BY <2>1 DEF Quiet, Waits
    <3> QED BY <3>1, <3>2 DEF Open
  <2>3. Cardinality(Open) = 0
    BY <2>2, FS_EmptySet
  <2>4. Undisturbed
    BY DEF Undisturbed, Quiet
  <2>5. stats \in [Counter -> Int]
    BY DEF TypeInv, TypeOK, Counter
  <2> QED BY <2>3, <2>4, <2>5 DEF BalanceInv, Counter
<1> QED BY <1>2, <1>3, <1>4, TypeInvariant, PTL
=============================================================================
