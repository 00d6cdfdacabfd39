---------------------------- MODULE LoadBalancer ----------------------------
(***************************************************************************)
(* The load balancer: backends that are added and removed while requests   *)
(* are routed and health checks are under way, a circuit breaker per       *)
(* backend, and the ring of consistent hashing.                            *)
(***************************************************************************)
EXTENDS Integers, FiniteSets, FiniteSetsExt

CONSTANTS
  Backend,           \* backends, each added at most once
  Request,           \* requests in flight at a time
  Check,             \* health checks in flight at a time
  Consistent,        \* the algorithm is consistent hashing
  Hash,              \* values of the hash function, a set of integers
  Points(_),         \* hashes of the virtual nodes of a backend
  FailureThreshold, SuccessThreshold, HalfOpenRequests,
  Calls,             \* admin calls made: subset of {"remove"}
  Nil                \* no backend

ASSUME NilAssumption == Nil \notin Backend
ASSUME RequestAssumption == IsFiniteSet(Request)
ASSUME HashAssumption == Hash \subseteq Int /\ IsFiniteSet(Hash) /\ Hash # {}
ASSUME PointsAssumption == \A b \in Backend : Points(b) \subseteq Hash
ASSUME ThresholdAssumption ==
  /\ FailureThreshold \in Nat \ {0} /\ SuccessThreshold \in Nat \ {0}
  /\ HalfOpenRequests \in Nat \ {0}

VARIABLES
  backends,   \* lb.backends
  adding,     \* adding[b]: where AddBackend is for b
  up,         \* up[b]: the server behind b answers
  healthy,    \* healthy[b]: Backend.Healthy
  breaker,    \* breaker[b]: its CircuitBreaker
  expired,    \* expired[b]: not open, or Timeout has passed since lastFailure
  hashRing,   \* hashRing[h]: the backend at h, or Nil
  points,     \* points[h]: how often h occurs in sortedHashes
  check,      \* check[k]: backend and answer of health check k
  request,    \* request[r]: where request r is and its backend
  active,     \* stats.ActiveConnections
  connections \* connections[b]: Backend.Connections

ring    == <<hashRing, points>>
circuit == <<healthy, breaker, expired>>
load    == <<request, active, connections>>
vars    == <<backends, adding, up, circuit, ring, check, load>>

Least(n, bound) == IF n < bound THEN n ELSE bound

-----------------------------------------------------------------------------
(* The circuit breaker, and the counters up to what is compared with them  *)

SuccessCap == IF SuccessThreshold > HalfOpenRequests THEN SuccessThreshold ELSE HalfOpenRequests

Closed == [state |-> "closed", failures |-> 0, successes |-> 0]

(* Mutant of CanRequest: an open breaker waits to be half open. *)
CanRequest_Strict(b) ==
  CASE breaker[b].state = "closed"    -> TRUE
    [] breaker[b].state = "open"      -> FALSE
    [] breaker[b].state = "half_open" -> breaker[b].successes < HalfOpenRequests

(* An open breaker lets requests pass after Timeout and stays open. *)
CanRequest(b) ==
  CASE breaker[b].state = "closed"    -> TRUE
    [] breaker[b].state = "open"      -> expired[b]
    [] breaker[b].state = "half_open" -> breaker[b].successes < HalfOpenRequests

RecordSuccess(cb) ==
  LET counted == [cb EXCEPT !.successes = Least(@ + 1, SuccessCap)] IN
    CASE cb.state = "half_open" -> IF counted.successes >= SuccessThreshold THEN Closed ELSE counted
      [] cb.state = "closed"    -> [counted EXCEPT !.failures = 0]
      [] cb.state = "open"      -> counted

RecordFailure(cb) ==
  LET counted == [cb EXCEPT !.failures = Least(@ + 1, FailureThreshold)] IN
    IF cb.state = "half_open" \/ (cb.state = "closed" /\ counted.failures >= FailureThreshold)
    THEN [counted EXCEPT !.state = "open", !.successes = 0]
    ELSE counted

(* Time passes since the last failure, which matters to an open breaker. *)
Expire(b) ==
  /\ ~ expired[b]
  /\ expired' = [expired EXCEPT ![b] = TRUE]
  /\ UNCHANGED <<backends, adding, up, healthy, breaker, ring, check, load>>

-----------------------------------------------------------------------------
(* The ring *)

RingAdd(b) ==
  /\ hashRing' = [h \in Hash |-> IF h \in Points(b) THEN b ELSE hashRing[h]]
  /\ points' = [h \in Hash |-> IF h \in Points(b) THEN points[h] + 1 ELSE points[h]]

(* Mutant of RingRemove: sortedHashes is not cleaned up. *)
RingRemove_KeepsPoints(b) ==
  /\ hashRing' = [h \in Hash |-> IF h \in Points(b) THEN Nil ELSE hashRing[h]]
  /\ UNCHANGED points

RingRemove(b) ==
  /\ hashRing' = [h \in Hash |-> IF h \in Points(b) THEN Nil ELSE hashRing[h]]
  /\ points' = [h \in Hash |-> IF h \in Points(b) /\ points[h] > 0 THEN points[h] - 1 ELSE points[h]]

(* The backend at the first point from hash h on, or at the first of all. *)
RingGet(h) ==
  LET taken == {p \in Hash : points[p] > 0}
      after == {p \in taken : p >= h} IN
    IF taken = {} THEN Nil
    ELSE hashRing[Min(IF after = {} THEN taken ELSE after)]

-----------------------------------------------------------------------------
(* Administration *)

(* AddBackend: the list under lb.mutex ... *)
AddBackend(b) ==
  /\ adding[b] = "no"
  /\ adding' = [adding EXCEPT ![b] = "ring"]
  /\ backends' = backends \cup {b}
  /\ UNCHANGED <<up, circuit, ring, check, load>>

(* ... and the ring after it is released. *)
AddToRing(b) ==
  /\ adding[b] = "ring"
  /\ adding' = [adding EXCEPT ![b] = "done"]
  /\ IF Consistent THEN RingAdd(b) ELSE UNCHANGED ring
  /\ UNCHANGED <<backends, up, circuit, check, load>>

RemoveBackend(b) ==
  /\ "remove" \in Calls
  /\ b \in backends
  /\ backends' = backends \ {b}
  /\ IF Consistent THEN RingRemove(b) ELSE UNCHANGED ring
  /\ UNCHANGED <<adding, up, circuit, check, load>>

(* The server behind a backend goes down or comes back. *)
Environment(b) ==
  /\ up' = [up EXCEPT ![b] = ~ @]
  /\ UNCHANGED <<backends, adding, circuit, ring, check, load>>

-----------------------------------------------------------------------------
(* Health checks: every tick starts a goroutine per backend *)

StartCheck(k) ==
  /\ check[k].backend = Nil
  /\ \E b \in backends : check' = [check EXCEPT ![k] = [backend |-> b, answer |-> "none"]]
  /\ UNCHANGED <<backends, adding, up, circuit, ring, load>>

Answer(k) ==
  /\ check[k].backend # Nil /\ check[k].answer = "none"
  /\ check' = [check EXCEPT ![k].answer = IF up[check[k].backend] THEN "good" ELSE "bad"]
  /\ UNCHANGED <<backends, adding, up, circuit, ring, load>>

(* Under the backend's mutex. *)
EndCheck(k) ==
  LET b == check[k].backend IN
    /\ check[k].answer # "none"
    /\ check' = [check EXCEPT ![k] = [backend |-> Nil, answer |-> "none"]]
    /\ \/ /\ check[k].answer = "good"
          /\ healthy' = [healthy EXCEPT ![b] = TRUE]
          /\ breaker' = [breaker EXCEPT ![b] = RecordSuccess(@)]
          /\ UNCHANGED expired
       \/ /\ check[k].answer = "bad"
          /\ healthy' = [healthy EXCEPT ![b] = FALSE]
          /\ breaker' = [breaker EXCEPT ![b] = RecordFailure(@)]
          /\ expired' = [expired EXCEPT ![b] = breaker'[b].state # "open"]
    /\ UNCHANGED <<backends, adding, up, ring, load>>

-----------------------------------------------------------------------------
(* ServeHTTP *)

Arrive(r) ==
  /\ request[r].at = "idle"
  /\ request' = [request EXCEPT ![r].at = "select"]
  /\ active' = active + 1
  /\ UNCHANGED <<backends, adding, up, circuit, ring, check, connections>>

Usable == {b \in backends : healthy[b] /\ CanRequest(b)}

(* Every algorithm but consistent hashing returns a usable backend.        *)
Selected == IF Consistent THEN {RingGet(h) : h \in Hash} ELSE Usable

Select(r) ==
  /\ request[r].at = "select"
  /\ Usable # {}
  /\ \E b \in Selected \ {Nil} :
       /\ request' = [request EXCEPT ![r] = [at |-> "proxy", backend |-> b]]
       /\ connections' = [connections EXCEPT ![b] = @ + 1]
  /\ UNCHANGED <<backends, adding, up, circuit, ring, check, active>>

Idle(r) == request' = [request EXCEPT ![r] = [at |-> "idle", backend |-> Nil]]

(* Mutant of Unavailable: the early return forgets the counter. *)
Unavailable_NoCount(r) ==
  /\ request[r].at = "select"
  /\ Usable = {} \/ Nil \in Selected
  /\ Idle(r)
  /\ UNCHANGED <<backends, adding, up, circuit, ring, check, active, connections>>

(* 503, or the nil backend of an empty ring, whose use panics. *)
Unavailable(r) ==
  /\ request[r].at = "select"
  /\ Usable = {} \/ Nil \in Selected
  /\ Idle(r)
  /\ active' = active - 1
  /\ UNCHANGED <<backends, adding, up, circuit, ring, check, connections>>

Leave(r) ==
  /\ request[r].at = "proxy"
  /\ Idle(r)
  /\ active' = active - 1
  /\ connections' = [connections EXCEPT ![request[r].backend] = @ - 1]
  /\ UNCHANGED <<backends, adding, up, healthy, expired, ring, check>>

(* The proxy answered, with the backend's response or with 502. *)
Respond(r) ==
  /\ Leave(r)
  /\ breaker' = [breaker EXCEPT ![request[r].backend] = RecordSuccess(@)]

(* The proxy panics when the response breaks off. *)
Abort(r) ==
  /\ Leave(r)
  /\ UNCHANGED breaker

-----------------------------------------------------------------------------
Init ==
  /\ backends = {}
  /\ adding = [b \in Backend |-> "no"]
  /\ up = [b \in Backend |-> TRUE]
  /\ healthy = [b \in Backend |-> TRUE]
  /\ breaker = [b \in Backend |-> Closed]
  /\ expired = [b \in Backend |-> TRUE]
  /\ hashRing = [h \in Hash |-> Nil]
  /\ points = [h \in Hash |-> 0]
  /\ check = [k \in Check |-> [backend |-> Nil, answer |-> "none"]]
  /\ request = [r \in Request |-> [at |-> "idle", backend |-> Nil]]
  /\ active = 0
  /\ connections = [b \in Backend |-> 0]

Probe(k) == Answer(k) \/ EndCheck(k)

Next ==
  \/ \E b \in Backend : AddBackend(b) \/ AddToRing(b) \/ RemoveBackend(b) \/ Environment(b) \/ Expire(b)
  \/ \E k \in Check : StartCheck(k) \/ Probe(k)
  \/ \E r \in Request : Arrive(r) \/ Select(r) \/ Unavailable(r) \/ Respond(r) \/ Abort(r)

Spec == Init /\ [][Next]_vars

(* The ticker goes on, every check ends (its client has a timeout), every  *)
(* backend of the list is checked again and again, and time passes.        *)
Fairness ==
  /\ \A k \in Check : WF_vars(Probe(k))
  /\ \A b \in Backend :
       /\ WF_vars(Expire(b))
       /\ SF_vars(\E k \in Check : StartCheck(k) /\ check'[k].backend = b)

FairSpec == Spec /\ Fairness

-----------------------------------------------------------------------------
(* Properties *)

(* The counters of connections are the requests in flight, whether they    *)
(* were refused, answered or broke off, and wherever their backend is.     *)
ConnectionsBalance ==
  /\ active = Cardinality({r \in Request : request[r].at # "idle"})
  /\ \A b \in Backend : connections[b] = Cardinality({r \in Request : request[r].backend = b})

(* Every point of the ring leads to a backend, as long as no two virtual   *)
(* nodes have the same hash.                                               *)
RingIsComplete == \A h \in Hash : points[h] > 0 => hashRing[h] # Nil

(* A backend whose server comes back for good can be chosen again. *)
BackendReturns ==
  \A b \in Backend :
    <>[](up[b] /\ b \in backends) => <>[](b \in backends => b \in Usable)
=============================================================================
