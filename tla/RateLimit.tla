------------------------------ MODULE RateLimit ------------------------------
(***************************************************************************)
(* RateLimitMiddleware (core/middleware/rate_limit.py): a counter in Redis *)
(* for each client, `ratelimit:{client_id}`, incremented by every request  *)
(* and given a TTL of 60 seconds by the request that created it.           *)
(*                                                                         *)
(* INCR and EXPIRE are two commands with an await in between, and other    *)
(* requests, an expiry, an eviction, an error or the end of the process    *)
(* may come there.  The keys of different clients do not touch each other, *)
(* so the module follows one client and the requests it has in progress.   *)
(***************************************************************************)
EXTENDS Naturals, FiniteSets

CONSTANTS
  Requests,      \* the requests the client may have in progress at a time
  Limit,         \* RATE_LIMIT_DEFAULT
  Disruptions    \* which of "redis", "crash", "evict" may happen

ASSUME LimitAssumption == Limit \in Nat \ {0}
ASSUME RequestsAssumption == IsFiniteSet(Requests)

VARIABLES
  count,      \* the value of the key, 0 when there is none (see More)
  expires,    \* whether the key has a TTL
  pc,         \* per request: where its middleware is
  seen,       \* per request: the value its INCR returned
  fresh,      \* per request: whether its INCR counted in the present window
  admitted,   \* requests handed to the application in the present window,
              \* whichever window their INCR counted in
  overtaken,  \* requests that held a place when the present window began
  cut         \* whether the request that was to set the key's TTL was cut off

key  == <<count, expires>>
vars == <<count, expires, pc, seen, fresh, admitted, overtaken, cut>>

\* "incr": INCR has been carried out and its answer is on the way.
PC == {"idle", "incr", "expire", "expired", "ttl"}

Disrupted(kind) == kind \in Disruptions

Init ==
  /\ count = 0
  /\ expires = FALSE
  /\ pc = [r \in Requests |-> "idle"]
  /\ seen = [r \in Requests |-> 0]
  /\ fresh = [r \in Requests |-> FALSE]
  /\ admitted = 0
  /\ overtaken = 0
  /\ cut = FALSE

Moves(r, to) == pc' = [pc EXCEPT ![r] = to]

\* The counter, one up.  The middleware tells apart the first value, the values
\* up to Limit and those above it, so all those above it are Limit + 1 here.
More == IF count <= Limit THEN count + 1 ELSE count

\* GET and INCR as two commands: the answer is what the key held before.
IncrReadFirst(r) ==
  /\ pc[r] = "idle"
  /\ count' = More
  /\ seen' = [seen EXCEPT ![r] = IF count = 0 THEN 1 ELSE count]
  /\ fresh' = [fresh EXCEPT ![r] = TRUE]
  /\ Moves(r, "incr")
  /\ UNCHANGED <<expires, admitted, overtaken, cut>>

\* Redis carries out `incr(key)` for a new request.
Incr(r) ==
  /\ pc[r] = "idle"
  /\ count' = More
  /\ seen' = [seen EXCEPT ![r] = More]
  /\ fresh' = [fresh EXCEPT ![r] = TRUE]
  /\ Moves(r, "incr")
  /\ UNCHANGED <<expires, admitted, overtaken, cut>>

\* What follows when the counter needs no TTL, or has got one: call_next, or
\* `ttl(key)` for the text of the 429.
Decide(r) ==
  /\ Moves(r, IF seen[r] > Limit THEN "ttl" ELSE "idle")
  /\ admitted' = IF seen[r] <= Limit THEN admitted + 1 ELSE admitted

\* A TTL set by the request that reaches the limit and not by the first.
CountedLate(r) ==
  /\ pc[r] = "incr"
  /\ IF seen[r] = Limit
     THEN Moves(r, "expire") /\ UNCHANGED admitted
     ELSE Decide(r)
  /\ UNCHANGED <<key, seen, fresh, overtaken, cut>>

\* The answer of INCR arrives: `if count == 1` the handler awaits EXPIRE.
Counted(r) ==
  /\ pc[r] = "incr"
  /\ IF seen[r] = 1
     THEN Moves(r, "expire") /\ UNCHANGED admitted
     ELSE Decide(r)
  /\ UNCHANGED <<key, seen, fresh, overtaken, cut>>

\* A middleware that takes the key it created to be still there.
ExpireBlind(r) ==
  /\ pc[r] = "expire"
  /\ expires' = TRUE
  /\ Moves(r, "expired")
  /\ UNCHANGED <<count, seen, fresh, admitted, overtaken, cut>>

\* Redis carries out `expire(key, 60)`, on whatever key has that name by now.
Expire(r) ==
  /\ pc[r] = "expire"
  /\ expires' = (count > 0)
  /\ Moves(r, "expired")
  /\ UNCHANGED <<count, seen, fresh, admitted, overtaken, cut>>

\* Its answer arrives.
ExpireAnswered(r) ==
  /\ pc[r] = "expired"
  /\ Decide(r)
  /\ UNCHANGED <<key, seen, fresh, overtaken, cut>>

\* The answer of TTL arrives: the client gets its 429.
Limited(r) ==
  /\ pc[r] = "ttl"
  /\ Moves(r, "idle")
  /\ UNCHANGED <<key, seen, fresh, admitted, overtaken, cut>>

\* The requests that have seen a value within the limit and are going to be
\* handed to the application: nothing they await makes them look again.
Held == {r \in Requests : seen[r] <= Limit /\ pc[r] \in {"incr", "expire", "expired"}}

\* The key is gone, and with it the window; a new one begins under the requests
\* that hold a place.
KeyGone ==
  /\ count > 0
  /\ count' = 0
  /\ expires' = FALSE
  /\ fresh' = [r \in Requests |-> FALSE]
  /\ admitted' = 0
  /\ overtaken' = Cardinality(Held)
  /\ cut' = FALSE
  /\ UNCHANGED <<pc, seen>>

\* The TTL has run out.
KeyExpires == expires /\ KeyGone

\* Redis evicts the key (allkeys-lru), or restarts without what it held.
KeyEvicted == Disrupted("evict") /\ KeyGone

\* The request that created the key has not set its TTL yet.
Owes(r) == fresh[r] /\ seen[r] = 1 /\ pc[r] \in {"incr", "expire"}

\* Redis raises: the request ends with an error, and an EXPIRE that was still
\* to come is never sent.
RedisFails(r) ==
  /\ Disrupted("redis")
  /\ pc[r] # "idle"
  /\ Moves(r, "idle")
  /\ cut' = (cut \/ Owes(r))
  /\ UNCHANGED <<key, seen, fresh, admitted, overtaken>>

\* The process ends and the key stays in Redis.
Crash ==
  /\ Disrupted("crash")
  /\ \E r \in Requests : pc[r] # "idle"
  /\ pc' = [r \in Requests |-> "idle"]
  /\ cut' = (cut \/ \E r \in Requests : Owes(r))
  /\ UNCHANGED <<key, seen, fresh, admitted, overtaken>>

Dispatch(r) ==
  \/ Counted(r)
  \/ Expire(r)
  \/ ExpireAnswered(r)
  \/ Limited(r)

Next ==
  \/ \E r \in Requests : Incr(r)
  \/ \E r \in Requests : Dispatch(r)
  \/ KeyExpires
  \/ KeyEvicted
  \/ \E r \in Requests : RedisFails(r)
  \/ Crash

Spec == Init /\ [][Next]_vars

\* The event loop runs every request that can move, and time passes: a key
\* with a TTL expires.
FairSpec ==
  /\ Spec
  /\ \A r \in Requests : WF_vars(Dispatch(r))
  /\ WF_vars(KeyExpires)
-----------------------------------------------------------------------------
(* Properties.                                                            *)

\* The state has the shape the code gives it; a TTL belongs to a key.
TypeOK ==
  /\ count \in 0 .. Limit + 1
  /\ expires \in BOOLEAN
  /\ expires => count > 0
  /\ pc \in [Requests -> PC]
  /\ seen \in [Requests -> 0 .. Limit + 1]
  /\ fresh \in [Requests -> BOOLEAN]
  /\ admitted \in Nat
  /\ overtaken \in Nat
  /\ cut \in BOOLEAN

\* Between two losses of the key no more than Limit requests of the client reach
\* the application, but for those that held a place when the key went: they are
\* admitted on the count of a window that is over.  Nothing else, however the
\* middlewares of the requests interleave, gets past the limit.
WindowRespectsLimit == admitted <= Limit + overtaken

\* A counter without a TTL is one whose creator has its EXPIRE still to come, or
\* was cut off before it: neither another request that sees the count, nor the
\* EXPIRE of an older window, nor a new key after an expiry leaves one behind that
\* nobody will limit (`if count == 1`).
TtlIsOwed == count > 0 /\ ~expires /\ ~cut => \E r \in Requests : Owes(r)

\* A counter goes in the end, and with it the limitation of its client, unless
\* the request that created it was cut off between its INCR and its EXPIRE: no
\* expiry, eviction or other request in between loses the TTL.
CounterEndsUnlessCut == (count > 0) ~> (count = 0 \/ cut)

\* docs/phase-1-core-foundation.md: Redis holds "only short-lived" state, of it
\* "rate-limit counters (TTL = 60s)".  A counter is in the end gone, and a
\* client that was limited can be served again.
CounterIsShortLived == (count > 0) ~> (count = 0)
=============================================================================
