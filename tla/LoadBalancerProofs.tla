------------------------- MODULE LoadBalancerProofs -------------------------
(***************************************************************************)
(* Theorems about LoadBalancer, for any backends, requests, checks, hashes *)
(* and thresholds, and with consistent hashing or without.                 *)
(***************************************************************************)
EXTENDS LoadBalancer, FiniteSetTheorems, TLAPS

USE NilAssumption, RequestAssumption

Busy   == {r \in Request : request[r].at # "idle"}
At(b)  == {r \in Request : request[r].backend = b}

(* A request has a backend from its selection to its end. *)
LoadType ==
  /\ request = [r \in Request |-> request[r]]
  /\ \A r \in Request :
       /\ request[r] = [at |-> request[r].at, backend |-> request[r].backend]
       /\ request[r].at \in {"idle", "select", "proxy"}
       /\ request[r].at # "proxy" => request[r].backend = Nil
  /\ connections \in [Backend -> Int]

LoadInv == LoadType /\ ConnectionsBalance

-----------------------------------------------------------------------------
(* Counting requests *)

(* Sets of requests are finite. *)
LEMMA Finite ==
  ASSUME NEW A \in SUBSET Request
  PROVE  IsFiniteSet(A) /\ Cardinality(A) \in Nat
BY FS_Subset, FS_CardinalityType

(* One request more. *)
LEMMA OneMore ==
  ASSUME NEW A \in SUBSET Request, NEW r, r \notin A
  PROVE  Cardinality(A \cup {r}) = Cardinality(A) + 1
BY Finite, FS_AddElement

(* One request less. *)
LEMMA OneLess ==
  ASSUME NEW A \in SUBSET Request, NEW r \in A
  PROVE  Cardinality(A \ {r}) = Cardinality(A) - 1
BY Finite, FS_RemoveElement

-----------------------------------------------------------------------------
(* There are no requests in the beginning. *)
LEMMA InitLoad == Init => LoadInv
<1> SUFFICES ASSUME Init PROVE LoadInv
  OBVIOUS
<1>1. LoadType
  BY DEF Init, LoadType
<1>2. {r \in Request : request[r].at # "idle"} = {}
  BY DEF Init
<1>3. \A b \in Backend : {r \in Request : request[r].backend = b} = {}
  BY DEF Init
<1> QED BY <1>1, <1>2, <1>3, FS_EmptySet DEF Init, LoadInv, ConnectionsBalance

(* A function is what it is at each argument. *)
LEMMA Extensional ==
  ASSUME NEW X, NEW Y, NEW f \in [X -> Y]
  PROVE  f = [x \in X |-> f[x]]
OBVIOUS

(* Counting at a backend keeps the counters integers. *)
LEMMA CountType ==
  ASSUME NEW f \in [Backend -> Int], NEW b
  PROVE  /\ [f EXCEPT ![b] = @ + 1] \in [Backend -> Int]
         /\ [f EXCEPT ![b] = @ - 1] \in [Backend -> Int]
<1>1. CASE b \in Backend
  BY <1>1
<1>2. CASE b \notin Backend
  <2>1. [f EXCEPT ![b] = @ + 1] = f /\ [f EXCEPT ![b] = @ - 1] = f
    BY <1>2
  <2> QED BY <2>1
<1> QED BY <1>1, <1>2

(* What a change of one request does to the others: nothing. *)
LEMMA Changed ==
  ASSUME LoadType, NEW r \in Request, NEW a \in {"idle", "select", "proxy"}, NEW b,
         a # "proxy" => b = Nil,
         request' = [request EXCEPT ![r] = [at |-> a, backend |-> b]],
         connections' \in [Backend -> Int]
  PROVE  /\ LoadType'
         /\ request'[r].at = a /\ request'[r].backend = b
         /\ \A q \in Request \ {r} : request'[q] = request[q]
<1>1. \A q \in Request : request'[q] = IF q = r THEN [at |-> a, backend |-> b] ELSE request[q]
  BY DEF LoadType
<1>2. request' = [q \in Request |-> request'[q]]
  <2> DEFINE Old == {request[q] : q \in Request}
  <2>1. request \in [Request -> Old]
    BY DEF LoadType
  <2> DEFINE New == Old \cup {[at |-> a, backend |-> b]}
  <2>2. request' \in [Request -> New]
    BY <2>1
  <2> HIDE DEF New
  <2> QED BY <2>2, Extensional
<1> QED BY <1>1, <1>2 DEF LoadType

(* A request that arrives is counted. *)
LEMMA ArriveLoad ==
  ASSUME LoadInv, NEW r \in Request, Arrive(r)
  PROVE  LoadInv'
<1>1. request[r].at = "idle" /\ request[r].backend = Nil
  BY DEF Arrive, LoadInv, LoadType
<1>2. request' = [request EXCEPT ![r] = [at |-> "select", backend |-> Nil]]
  <2>1. request[r] = [at |-> "idle", backend |-> Nil]
    BY <1>1 DEF LoadInv, LoadType
  <2>2. [request[r] EXCEPT !.at = "select"] = [at |-> "select", backend |-> Nil]
    BY <2>1
  <2>3. request' = [request EXCEPT ![r] = [request[r] EXCEPT !.at = "select"]]
    BY DEF Arrive
  <2> QED BY <2>2, <2>3
<1>3. /\ LoadType'
      /\ request'[r].at = "select" /\ request'[r].backend = Nil
      /\ \A q \in Request \ {r} : request'[q] = request[q]
  BY <1>2, Changed DEF Arrive, LoadInv, LoadType
<1>4. r \notin Busy /\ Busy' = Busy \cup {r}
  BY <1>1, <1>3 DEF Busy
<1>5. \A b \in Backend : At(b)' = At(b)
  BY <1>1, <1>3 DEF At
<1>6. Cardinality(Busy)' = Cardinality(Busy) + 1
  BY <1>4, OneMore DEF Busy
<1> QED BY <1>3, <1>5, <1>6 DEF Arrive, LoadInv, ConnectionsBalance, Busy, At

(* A request that has a backend is counted at that backend. *)
LEMMA SelectLoad ==
  ASSUME LoadInv, NEW r \in Request, Select(r)
  PROVE  LoadInv'
<1>1. PICK b \in Selected \ {Nil} :
        /\ request' = [request EXCEPT ![r] = [at |-> "proxy", backend |-> b]]
        /\ connections' = [connections EXCEPT ![b] = @ + 1]
  BY DEF Select
<1>2. request[r].at = "select" /\ request[r].backend = Nil
  BY DEF Select, LoadInv, LoadType
<1>3. /\ LoadType'
      /\ request'[r].at = "proxy" /\ request'[r].backend = b
      /\ \A q \in Request \ {r} : request'[q] = request[q]
  <2>1. connections' \in [Backend -> Int]
    BY <1>1, CountType DEF LoadInv, LoadType
  <2> QED BY <1>1, <2>1, Changed DEF LoadInv
<1>4. Busy' = Busy
  BY <1>2, <1>3 DEF Busy
<1>5. ASSUME NEW c \in Backend PROVE connections'[c] = Cardinality(At(c))'
  <2>1. CASE c = b
    <3>1. r \notin At(c) /\ At(c)' = At(c) \cup {r}
      BY <1>2, <1>3, <2>1 DEF At
    <3>2. Cardinality(At(c))' = Cardinality(At(c)) + 1
      BY <3>1, OneMore DEF At
    <3>3. connections'[c] = connections[c] + 1
      BY <1>1, <2>1 DEF LoadInv, LoadType
    <3> QED BY <3>2, <3>3 DEF LoadInv, ConnectionsBalance, At
  <2>2. CASE c # b
    <3>1. At(c)' = At(c)
      BY <1>2, <1>3, <2>2 DEF At
    <3> QED BY <1>1, <2>2, <3>1 DEF LoadInv, LoadType, ConnectionsBalance, At
  <2> QED BY <2>1, <2>2
<1> QED BY <1>3, <1>4, <1>5 DEF Select, LoadInv, ConnectionsBalance, Busy, At

(* A request that is refused was counted, but at no backend. *)
LEMMA UnavailableLoad ==
  ASSUME LoadInv, NEW r \in Request, Unavailable(r)
  PROVE  LoadInv'
<1>1. request[r].at = "select" /\ request[r].backend = Nil
  BY DEF Unavailable, LoadInv, LoadType
<1>2. /\ LoadType'
      /\ request'[r].at = "idle" /\ request'[r].backend = Nil
      /\ \A q \in Request \ {r} : request'[q] = request[q]
  BY Changed DEF Unavailable, Idle, LoadInv, LoadType
<1>3. r \in Busy /\ Busy' = Busy \ {r}
  BY <1>1, <1>2 DEF Busy
<1>4. \A b \in Backend : At(b)' = At(b)
  BY <1>1, <1>2 DEF At
<1>5. Cardinality(Busy)' = Cardinality(Busy) - 1
  BY <1>3, OneLess DEF Busy
<1> QED BY <1>2, <1>4, <1>5 DEF Unavailable, LoadInv, ConnectionsBalance, Busy, At

(* A request that ends is counted neither in all nor at its backend. *)
LEMMA LeaveLoad ==
  ASSUME LoadInv, NEW r \in Request, Leave(r)
  PROVE  LoadInv'
<1> DEFINE b == request[r].backend
<1>1. request[r].at = "proxy"
  BY DEF Leave
<1>2. /\ LoadType'
      /\ request'[r].at = "idle" /\ request'[r].backend = Nil
      /\ \A q \in Request \ {r} : request'[q] = request[q]
  <2>1. connections' \in [Backend -> Int]
    BY CountType DEF Leave, LoadInv, LoadType
  <2> QED BY <2>1, Changed DEF Leave, Idle, LoadInv
<1>3. r \in Busy /\ Busy' = Busy \ {r}
  BY <1>1, <1>2 DEF Busy
<1>4. Cardinality(Busy)' = Cardinality(Busy) - 1
  BY <1>3, OneLess DEF Busy
<1>5. ASSUME NEW c \in Backend PROVE connections'[c] = Cardinality(At(c))'
  <2>1. CASE c = b
    <3>1. r \in At(c) /\ At(c)' = At(c) \ {r}
      BY <1>2, <2>1 DEF At
    <3>2. Cardinality(At(c))' = Cardinality(At(c)) - 1
      BY <3>1, OneLess DEF At
    <3>3. connections'[c] = connections[c] - 1
      BY <2>1 DEF Leave, LoadInv, LoadType
    <3> QED BY <3>2, <3>3 DEF LoadInv, ConnectionsBalance, At
  <2>2. CASE c # b
    <3>1. At(c)' = At(c)
      BY <1>2, <2>2 DEF At
    <3> QED BY <2>2, <3>1 DEF Leave, LoadInv, LoadType, ConnectionsBalance, At
  <2> QED BY <2>1, <2>2
<1> QED BY <1>2, <1>4, <1>5 DEF Leave, LoadInv, ConnectionsBalance, Busy, At

(* Administration and health checks leave the requests alone. *)
LEMMA OtherLoad ==
  ASSUME LoadInv, UNCHANGED load
  PROVE  LoadInv'
BY DEF load, LoadInv, LoadType, ConnectionsBalance

(* Every step keeps the counters. *)
LEMMA StepLoad == LoadInv /\ [Next]_vars => LoadInv'
<1> SUFFICES ASSUME LoadInv, [Next]_vars PROVE LoadInv'
  OBVIOUS
<1>1. CASE \E b \in Backend :
             AddBackend(b) \/ AddToRing(b) \/ RemoveBackend(b) \/ Environment(b) \/ Expire(b)
  BY <1>1, OtherLoad DEF AddBackend, AddToRing, RemoveBackend, Environment, Expire
<1>2. CASE \E k \in Check : StartCheck(k) \/ Probe(k)
  BY <1>2, OtherLoad DEF StartCheck, Probe, Answer, EndCheck
<1>3. CASE \E r \in Request : Arrive(r)
  BY <1>3, ArriveLoad
<1>4. CASE \E r \in Request : Select(r)
  BY <1>4, SelectLoad
<1>5. CASE \E r \in Request : Unavailable(r)
  BY <1>5, UnavailableLoad
<1>6. CASE \E r \in Request : Respond(r) \/ Abort(r)
  BY <1>6, LeaveLoad DEF Respond, Abort
<1>7. CASE UNCHANGED vars
  BY <1>7, OtherLoad DEF vars
<1> QED BY <1>1, <1>2, <1>3, <1>4, <1>5, <1>6, <1>7 DEF Next

(* The counters of connections are the requests in flight, in all and at   *)
(* each backend, through refusals, answers, broken responses and removals. *)
THEOREM CountersBalance == Spec => []ConnectionsBalance
<1>1. Init => LoadInv
  BY InitLoad
<1>2. LoadInv /\ [Next]_vars => LoadInv'
  BY StepLoad
<1>3. LoadInv => ConnectionsBalance
  BY DEF LoadInv
<1> QED BY <1>1, <1>2, <1>3, PTL DEF Spec

-----------------------------------------------------------------------------
(* The ring *)

(* No two virtual nodes have the same hash. *)
PointsDisjoint ==
  \A b \in Backend, c \in Backend : b # c => Points(b) \cap Points(c) = {}

(* Every hash is in the ring at most once, and not before its backend.     *)
RingInv ==
  /\ adding \in [Backend -> {"no", "ring", "done"}]
  /\ points \in [Hash -> {0, 1}]
  /\ hashRing \in [Hash -> Backend \cup {Nil}]
  /\ RingIsComplete
  /\ \A b \in Backend : adding[b] # "done" => \A h \in Points(b) : points[h] = 0

(* The ring is empty in the beginning. *)
LEMMA InitRing == Init => RingInv
BY PointsAssumption DEF Init, RingInv, RingIsComplete

(* A backend comes into the ring, where its points are not yet. *)
LEMMA AddRing ==
  ASSUME PointsDisjoint, RingInv, NEW b \in Backend, AddToRing(b)
  PROVE  RingInv'
<1>1. CASE Consistent
  <2>1. \A h \in Hash : /\ hashRing'[h] = IF h \in Points(b) THEN b ELSE hashRing[h]
                        /\ points'[h] = IF h \in Points(b) THEN 1 ELSE points[h]
    BY <1>1 DEF AddToRing, RingAdd, RingInv
  <2>2. points' \in [Hash -> {0, 1}] /\ hashRing' \in [Hash -> Backend \cup {Nil}]
    <3>1. points' = [h \in Hash |-> IF h \in Points(b) THEN points[h] + 1 ELSE points[h]]
      BY <1>1 DEF AddToRing, RingAdd
    <3>2. \A h \in Hash : points'[h] \in {0, 1}
      BY <2>1 DEF RingInv
    <3>3. points' \in [Hash -> {0, 1}]
      BY <3>1, <3>2
    <3> QED BY <1>1, <3>3 DEF AddToRing, RingAdd, RingInv
  <2>3. RingIsComplete'
    BY <2>1 DEF RingIsComplete, RingInv
  <2>4. \A c \in Backend : adding'[c] # "done" => \A h \in Points(c) : points'[h] = 0
    BY <2>1, PointsAssumption DEF AddToRing, RingInv, PointsDisjoint
  <2> QED BY <2>2, <2>3, <2>4 DEF AddToRing, RingInv
<1>2. CASE ~ Consistent
  BY <1>2 DEF AddToRing, ring, RingInv, RingIsComplete
<1> QED BY <1>1, <1>2

(* A backend leaves the ring with all its points. *)
LEMMA RemoveRing ==
  ASSUME RingInv, NEW b \in Backend, RemoveBackend(b)
  PROVE  RingInv'
<1>1. CASE Consistent
  <2>1. \A h \in Hash : /\ hashRing'[h] = IF h \in Points(b) THEN Nil ELSE hashRing[h]
                        /\ points'[h] = IF h \in Points(b) THEN 0 ELSE points[h]
    BY <1>1 DEF RemoveBackend, RingRemove, RingInv
  <2>2. points' \in [Hash -> {0, 1}] /\ hashRing' \in [Hash -> Backend \cup {Nil}]
    <3>1. points' = [h \in Hash |-> IF h \in Points(b) /\ points[h] > 0 THEN points[h] - 1 ELSE points[h]]
      BY <1>1 DEF RemoveBackend, RingRemove
    <3>2. \A h \in Hash : points'[h] \in {0, 1}
      BY <2>1 DEF RingInv
    <3>3. points' \in [Hash -> {0, 1}]
      BY <3>1, <3>2
    <3> QED BY <1>1, <3>3 DEF RemoveBackend, RingRemove, RingInv
  <2>3. RingIsComplete'
    BY <2>1 DEF RingIsComplete, RingInv
  <2>4. \A c \in Backend : adding'[c] # "done" => \A h \in Points(c) : points'[h] = 0
    BY <2>1, PointsAssumption DEF RemoveBackend, RingInv
  <2> QED BY <2>2, <2>3, <2>4 DEF RemoveBackend, RingInv
<1>2. CASE ~ Consistent
  BY <1>2 DEF RemoveBackend, ring, RingInv, RingIsComplete
<1> QED BY <1>1, <1>2

(* Every step keeps the ring. *)
LEMMA StepRing == ASSUME PointsDisjoint PROVE RingInv /\ [Next]_vars => RingInv'
<1> SUFFICES ASSUME RingInv, [Next]_vars PROVE RingInv'
  OBVIOUS
<1>1. CASE \E b \in Backend : AddBackend(b)
  BY <1>1 DEF AddBackend, ring, RingInv, RingIsComplete
<1>2. CASE \E b \in Backend : AddToRing(b)
  BY <1>2, AddRing
<1>3. CASE \E b \in Backend : RemoveBackend(b)
  BY <1>3, RemoveRing
<1>4. CASE UNCHANGED <<adding, ring>>
  BY <1>4 DEF ring, RingInv, RingIsComplete
<1>5. CASE \E b \in Backend : Environment(b) \/ Expire(b)
  BY <1>4, <1>5 DEF Environment, Expire
<1>6. CASE \E k \in Check : StartCheck(k) \/ Probe(k)
  BY <1>4, <1>6 DEF StartCheck, Probe, Answer, EndCheck
<1>7. CASE \E r \in Request : Arrive(r) \/ Select(r) \/ Unavailable(r) \/ Respond(r) \/ Abort(r)
  BY <1>4, <1>7 DEF Arrive, Select, Unavailable, Respond, Abort, Leave
<1>8. CASE UNCHANGED vars
  BY <1>4, <1>8 DEF vars
<1> QED BY <1>1, <1>2, <1>3, <1>5, <1>6, <1>7, <1>8 DEF Next

(* A point of the ring leads to a backend, however additions and removals  *)
(* fall into each other, if no two virtual nodes have the same hash.       *)
THEOREM RingLeadsToBackends == ASSUME PointsDisjoint PROVE Spec => []RingIsComplete
<1>1. Init => RingInv
  BY InitRing
<1>2. RingInv /\ [Next]_vars => RingInv'
  BY StepRing
<1>3. RingInv => RingIsComplete
  BY DEF RingInv
<1> QED BY <1>1, <1>2, <1>3, PTL DEF Spec
=============================================================================
