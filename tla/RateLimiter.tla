----------------------------- MODULE RateLimiter -----------------------------
(***************************************************************************)
(* The AdvancedRateLimiter as one of its clients sees it: a token bucket   *)
(* that is refilled by the clock when a request arrives, a goroutine that  *)
(* forgets the client, and a middleware that looks the client up a second  *)
(* time after Allow has released the lock.                                 *)
(***************************************************************************)
EXTENDS Integers

CONSTANTS
  Request,            \* requests of the client that are handled at a time
  RequestsPerMinute,
  BurstSize,
  Second,             \* ticks of the clock in a second
  Expiry,             \* ticks after which cleanup forgets a client (10 minutes)
  MaxClock            \* bound on the clock

ASSUME RateAssumption ==
  RequestsPerMinute \in Nat \ {0} /\ BurstSize \in Nat \ {0} /\ Second \in Nat \ {0}

VARIABLES
  clock,
  known,        \* rl.clients has the client
  lastReset,    \* when its entry was made
  tokens,
  lastRefill,
  readers,      \* read locks of rl.mutex that are never released
  handling,     \* handling[r]: where the middleware is with request r
  window        \* an interval of time that is watched: its start, what was
                \* granted and how often the client was new in it

client == <<known, lastReset, tokens, lastRefill>>
vars   == <<clock, client, readers, handling, window>>

Unwatched == [start |-> -1, granted |-> 0, fresh |-> 0]
Watched   == window.start >= 0

Count(n, f) == IF Watched THEN [window EXCEPT !.granted = @ + n, !.fresh = @ + f] ELSE window

-----------------------------------------------------------------------------
(* int(elapsed.Seconds()) * RequestsPerMinute / 60 *)
tokensToAdd == (((clock - lastRefill) \div Second) * RequestsPerMinute) \div 60

Refilled == IF tokens + tokensToAdd > BurstSize THEN BurstSize ELSE tokens + tokensToAdd

(* rl.mutex.Lock waits for readers. *)
Lockable == readers = 0

AllowNew(r) ==
  /\ handling[r] = "none" /\ Lockable
  /\ ~ known
  /\ known' = TRUE
  /\ lastReset' = clock /\ lastRefill' = clock
  /\ tokens' = BurstSize - 1
  /\ handling' = [handling EXCEPT ![r] = "allowed"]
  /\ window' = Count(1, 1)
  /\ UNCHANGED <<clock, readers>>

(* Mutant of tokenBucketAllow: the time of the refill is not noted. *)
tokenBucketAllow_KeepsTime(r) ==
  /\ handling[r] = "none" /\ Lockable
  /\ known
  /\ UNCHANGED lastRefill
  /\ \/ /\ Refilled > 0
        /\ tokens' = Refilled - 1
        /\ handling' = [handling EXCEPT ![r] = "allowed"]
        /\ window' = Count(1, 0)
     \/ /\ Refilled = 0
        /\ UNCHANGED <<tokens, handling, window>>
  /\ UNCHANGED <<clock, known, lastReset, readers>>

(* The fraction of a token that has come in is lost with each refill.  A   *)
(* request that is refused is answered with 429.                           *)
tokenBucketAllow(r) ==
  /\ handling[r] = "none" /\ Lockable
  /\ known
  /\ lastRefill' = IF tokensToAdd > 0 THEN clock ELSE lastRefill
  /\ \/ /\ Refilled > 0
        /\ tokens' = Refilled - 1
        /\ handling' = [handling EXCEPT ![r] = "allowed"]
        /\ window' = Count(1, 0)
     \/ /\ Refilled = 0
        /\ tokens' = Refilled
        /\ UNCHANGED <<handling, window>>
  /\ UNCHANGED <<clock, known, lastReset, readers>>

(* Middleware: the client is looked up again for the headers.  One that    *)
(* was forgotten meanwhile is a nil pointer: the panic passes RUnlock by.  *)
SetHeaders(r) ==
  /\ handling[r] = "allowed"
  /\ handling' = [handling EXCEPT ![r] = "none"]
  /\ readers' = IF known THEN readers ELSE readers + 1
  /\ UNCHANGED <<clock, client, window>>

(* LastReset is set when an entry is made and never again: cleanup forgets *)
(* clients however busy they are.                                          *)
cleanup ==
  /\ Lockable
  /\ known /\ clock - lastReset > Expiry
  /\ known' = FALSE
  /\ UNCHANGED <<clock, lastReset, tokens, lastRefill, readers, handling, window>>

Tick ==
  /\ clock < MaxClock
  /\ clock' = clock + 1
  /\ UNCHANGED <<client, readers, handling, window>>

(* From now on grants are counted.  No step of the code. *)
Watch ==
  /\ ~ Watched
  /\ window' = [Unwatched EXCEPT !.start = clock]
  /\ UNCHANGED <<clock, client, readers, handling>>

-----------------------------------------------------------------------------
Init ==
  /\ clock = 0
  /\ known = FALSE
  /\ lastReset = 0 /\ tokens = 0 /\ lastRefill = 0
  /\ readers = 0
  /\ handling = [r \in Request |-> "none"]
  /\ window = Unwatched

Next ==
  \/ \E r \in Request : AllowNew(r) \/ tokenBucketAllow(r) \/ SetHeaders(r)
  \/ cleanup \/ Tick \/ Watch

Spec == Init /\ [][Next]_vars

-----------------------------------------------------------------------------
(* In any interval of time the client is granted a burst for each time it  *)
(* is new to the limiter, one more burst, and what its rate comes to: the  *)
(* interval may begin when up to a token has come in unnoticed and a       *)
(* second is under way.                                                    *)
RateBound ==
  Watched =>
    60 * Second * (window.granted - BurstSize * (1 + window.fresh)) <=
      RequestsPerMinute * (clock - window.start) + Second * (60 + RequestsPerMinute)
=============================================================================
