--------------------------- MODULE RateLimitProofs ---------------------------
(***************************************************************************)
(* What the rate limiter guarantees for any limit and any number of        *)
(* concurrent requests: a window admits no more than its limit and those   *)
(* that held a place when it began, and a counter without a TTL has a      *)
(* request that is about to set one.                                       *)
(*                                                                         *)
(* The first is not inductive: a request is admitted on what it has seen,  *)
(* which may be long ago.  Of the places of a window some are given and    *)
(* some Held, by a request that has seen a value within the limit and has  *)
(* not been decided; given and held places together exceed neither the     *)
(* counter nor the limit by more than the places held at its beginning     *)
(* (Places).                                                               *)
(***************************************************************************)
EXTENDS RateLimit, FiniteSetTheorems, TLAPS

Places ==
  /\ admitted + Cardinality(Held) <= count + overtaken
  /\ admitted + Cardinality(Held) <= Limit + overtaken

\* The inductive invariant.
IInv == TypeOK /\ Places

LEMMA HeldFinite == IsFiniteSet(Held) /\ Cardinality(Held) \in Nat
  BY RequestsAssumption, FS_Subset, FS_CardinalityType DEF Held

LEMMA TypePreserved == TypeOK /\ [Next]_vars => TypeOK'
<1> SUFFICES ASSUME TypeOK, [Next]_vars PROVE TypeOK'
  OBVIOUS
<1> USE LimitAssumption
<1>1. ASSUME NEW r \in Requests, Incr(r) PROVE TypeOK'
  <2>1. More \in 1 .. Limit + 1
    BY DEF TypeOK, More
  <2> QED BY <1>1, <2>1 DEF TypeOK, Incr, Moves, PC
<1>2. ASSUME NEW r \in Requests, Dispatch(r) PROVE TypeOK'
  <2>1. CASE Counted(r)
    BY <2>1 DEF TypeOK, Counted, Decide, Moves, key, PC
  <2>2. CASE Expire(r)
    BY <2>2 DEF TypeOK, Expire, Moves, PC
  <2>3. CASE ExpireAnswered(r)
    BY <2>3 DEF TypeOK, ExpireAnswered, Decide, Moves, key, PC
  <2>4. CASE Limited(r)
    BY <2>4 DEF TypeOK, Limited, Moves, key, PC
  <2> QED BY <1>2, <2>1, <2>2, <2>3, <2>4 DEF Dispatch
<1>3. CASE KeyExpires \/ KeyEvicted
  <2>1. KeyGone
    BY <1>3 DEF KeyExpires, KeyEvicted
  <2>2. expires' \in BOOLEAN /\ ~expires' /\ cut' \in BOOLEAN
    BY <2>1, Zenon DEF KeyGone
  <2>3. /\ count' \in 0 .. Limit + 1 /\ admitted' \in Nat /\ overtaken' \in Nat
        /\ pc' \in [Requests -> PC] /\ seen' \in [Requests -> 0 .. Limit + 1]
        /\ fresh' \in [Requests -> BOOLEAN]
    BY <2>1, HeldFinite DEF KeyGone, TypeOK
  <2> QED BY <2>2, <2>3 DEF TypeOK
<1>4. ASSUME NEW r \in Requests, RedisFails(r) PROVE TypeOK'
  BY <1>4 DEF TypeOK, RedisFails, Moves, Owes, key, PC
<1>5. CASE Crash
  BY <1>5 DEF TypeOK, Crash, Owes, key, PC
<1>6. CASE UNCHANGED vars
  BY <1>6 DEF TypeOK, vars
<1> QED BY <1>1, <1>2, <1>3, <1>4, <1>5, <1>6 DEF Next

\* A step that gives no place and takes none keeps the bounds.
LEMMA NoneTaken ==
  ASSUME IInv, TypeOK', Held' \subseteq Held, UNCHANGED <<admitted, count, overtaken>>
  PROVE  Places'
<1>1. Cardinality(Held') <= Cardinality(Held) /\ Cardinality(Held') \in Nat
  BY HeldFinite, FS_Subset, FS_CardinalityType
<1> QED BY <1>1, HeldFinite, LimitAssumption DEF IInv, TypeOK, Places

\* A request that is decided turns the place it holds, if any, into a given one.
LEMMA DecidePreserves ==
  ASSUME IInv, TypeOK', NEW r \in Requests, pc[r] \in {"incr", "expired"}, Decide(r),
         UNCHANGED <<key, seen, fresh, overtaken>>
  PROVE  Places'
<1>1. Held' = Held \ {r}
  BY DEF Held, Decide, Moves, IInv, TypeOK, PC
<1>2. CASE r \in Held
  <2>1. Cardinality(Held') = Cardinality(Held) - 1
    BY <1>1, <1>2, HeldFinite, FS_RemoveElement
  <2>2. admitted' = admitted + 1
    BY <1>2 DEF Held, Decide
  <2> QED BY <2>1, <2>2, HeldFinite, LimitAssumption DEF IInv, TypeOK, Places, key
<1>3. CASE r \notin Held
  <2>1. admitted' = admitted
    BY <1>3 DEF Held, Decide
  <2> QED BY <1>1, <2>1, NoneTaken DEF key
<1> QED BY <1>2, <1>3

LEMMA PlacesPreserved == IInv /\ TypeOK' /\ [Next]_vars => Places'
<1> SUFFICES ASSUME IInv, TypeOK', [Next]_vars PROVE Places'
  OBVIOUS
<1>1. ASSUME NEW r \in Requests, Incr(r) PROVE Places'
  <2>1. /\ admitted' = admitted /\ overtaken' = overtaken /\ count' = More
        /\ seen' = [seen EXCEPT ![r] = More]
        /\ fresh' = [fresh EXCEPT ![r] = TRUE]
        /\ pc[r] = "idle" /\ pc' = [pc EXCEPT ![r] = "incr"]
    BY <1>1 DEF Incr, Moves
  <2>2. CASE count < Limit
    <3>1. Held' = Held \cup {r} /\ r \notin Held /\ count' = count + 1
      BY <2>1, <2>2, LimitAssumption DEF Held, IInv, TypeOK, PC, More
    <3>2. Cardinality(Held') = Cardinality(Held) + 1
      BY <3>1, HeldFinite, FS_AddElement
    <3> QED BY <2>1, <2>2, <3>1, <3>2, HeldFinite, LimitAssumption DEF IInv, TypeOK, Places
  <2>3. CASE ~(count < Limit)
    <3>1. Held' = Held /\ count' >= Limit /\ count' >= count
      BY <2>1, <2>3, LimitAssumption DEF Held, IInv, TypeOK, PC, More
    <3> QED BY <2>1, <3>1, HeldFinite, LimitAssumption DEF IInv, TypeOK, Places
  <2> QED BY <2>2, <2>3
<1>2. ASSUME NEW r \in Requests, Counted(r) PROVE Places'
  <2>1. CASE seen[r] = 1
    <3>1. Held' \subseteq Held /\ UNCHANGED <<admitted, count, overtaken>>
      BY <1>2, <2>1 DEF Counted, Moves, Held, key, IInv, TypeOK, PC
    <3> QED BY <3>1, NoneTaken
  <2>2. CASE seen[r] # 1
    BY <1>2, <2>2, DecidePreserves DEF Counted
  <2> QED BY <2>1, <2>2
<1>3. ASSUME NEW r \in Requests, ExpireAnswered(r) PROVE Places'
  BY <1>3, DecidePreserves DEF ExpireAnswered
<1>4. ASSUME NEW r \in Requests, Expire(r) \/ Limited(r) \/ RedisFails(r) PROVE Places'
  <2>1. Held' \subseteq Held /\ UNCHANGED <<admitted, count, overtaken>>
    BY <1>4 DEF Expire, Limited, RedisFails, Moves, Held, key, IInv, TypeOK, PC
  <2> QED BY <2>1, NoneTaken
<1>5. CASE KeyExpires \/ KeyEvicted
  <2>1. admitted' = 0 /\ count' = 0 /\ Held' = Held /\ overtaken' = Cardinality(Held)
    BY <1>5 DEF KeyExpires, KeyEvicted, KeyGone, Held
  <2> QED BY <2>1, HeldFinite, LimitAssumption DEF Places
<1>6. CASE Crash \/ UNCHANGED vars
  <2>1. Held' \subseteq Held /\ UNCHANGED <<admitted, count, overtaken>>
    BY <1>6 DEF Crash, vars, Held, key
  <2> QED BY <2>1, NoneTaken
<1> QED BY <1>1, <1>2, <1>3, <1>4, <1>5, <1>6 DEF Next, Dispatch

LEMMA Invariance == Spec => []IInv
<1>1. Init => IInv
  <2> SUFFICES ASSUME Init PROVE IInv
    OBVIOUS
  <2>1. TypeOK
    <3>1. expires \in BOOLEAN /\ ~expires /\ cut \in BOOLEAN
      BY Zenon DEF Init
    <3>2. /\ count \in 0 .. Limit + 1 /\ admitted \in Nat /\ overtaken \in Nat
          /\ pc \in [Requests -> PC] /\ seen \in [Requests -> 0 .. Limit + 1]
          /\ fresh \in [Requests -> BOOLEAN]
      BY LimitAssumption DEF Init, PC
    <3> QED BY <3>1, <3>2 DEF TypeOK
  <2>2. Held = {} /\ admitted = 0 /\ count = 0 /\ overtaken = 0
    BY DEF Init, Held
  <2>3. Places
    BY <2>2, FS_EmptySet, LimitAssumption DEF Places
  <2> QED BY <2>1, <2>3 DEF IInv
<1>2. IInv /\ [Next]_vars => IInv'
  BY TypePreserved, PlacesPreserved DEF IInv
<1> QED BY <1>1, <1>2, PTL DEF Spec
-----------------------------------------------------------------------------
\* The counter, its TTL and the requests keep their shape for any limit.
THEOREM TypeCorrect == Spec => []TypeOK
<1>1. IInv => TypeOK
  BY DEF IInv
<1> QED BY <1>1, Invariance, PTL

\* A window admits no more than its limit and the requests that held a place when
\* it began, for any number of concurrent requests, whatever expires, is evicted,
\* fails or crashes in between.
THEOREM LimitRespected == Spec => []WindowRespectsLimit
<1>1. IInv => WindowRespectsLimit
  BY HeldFinite, LimitAssumption DEF IInv, TypeOK, Places, WindowRespectsLimit
<1> QED BY <1>1, Invariance, PTL
-----------------------------------------------------------------------------
(* The debt of a TTL is passed on by every step until it is paid or cut.   *)

LEMMA OwedStays ==
  ASSUME NEW r \in Requests, Owes(r),
         fresh'[r] = fresh[r], seen'[r] = seen[r], pc'[r] \in {"incr", "expire"}
  PROVE  Owes(r)'
BY DEF Owes

LEMMA OwedPreserved == TypeOK /\ TtlIsOwed /\ [Next]_vars => TtlIsOwed'
<1> SUFFICES ASSUME TypeOK, TtlIsOwed, [Next]_vars,
                    (count > 0)', (~expires)', (~cut)'
             PROVE  \E r \in Requests : Owes(r)'
  BY DEF TtlIsOwed
<1>1. ASSUME NEW q \in Requests, Incr(q) PROVE \E r \in Requests : Owes(r)'
  <2>1. CASE count = 0
    <3>1. More = 1
      BY <2>1, LimitAssumption DEF More
    <3>2. seen'[q] = 1 /\ fresh'[q] /\ pc'[q] = "incr"
      BY <1>1, <3>1 DEF Incr, Moves, TypeOK
    <3> QED BY <3>2 DEF Owes
  <2>2. CASE count # 0
    <3>1. count > 0 /\ ~expires /\ ~cut
      BY <1>1, <2>2 DEF Incr, TypeOK
    <3>2. PICK r \in Requests : Owes(r)
      BY <3>1 DEF TtlIsOwed
    <3>3. r # q
      BY <1>1, <3>2 DEF Incr, Owes
    <3>4. fresh'[r] = fresh[r] /\ seen'[r] = seen[r] /\ pc'[r] = pc[r]
      BY <1>1, <3>3 DEF Incr, Moves, TypeOK
    <3> QED BY <3>2, <3>4, OwedStays DEF Owes
  <2> QED BY <2>1, <2>2
<1>2. ASSUME NEW q \in Requests, Counted(q) \/ ExpireAnswered(q) \/ Limited(q)
      PROVE  \E r \in Requests : Owes(r)'
  <2>1. count > 0 /\ ~expires /\ ~cut
    BY <1>2 DEF Counted, ExpireAnswered, Limited, key
  <2>2. PICK r \in Requests : Owes(r)
    BY <2>1 DEF TtlIsOwed
  <2>3. pc'[r] \in {"incr", "expire"}
    BY <1>2, <2>2 DEF Counted, ExpireAnswered, Limited, Decide, Moves, Owes, TypeOK
  <2>4. fresh'[r] = fresh[r] /\ seen'[r] = seen[r]
    BY <1>2 DEF Counted, ExpireAnswered, Limited
  <2> QED BY <2>2, <2>3, <2>4, OwedStays
<1>3. ASSUME NEW q \in Requests, Expire(q) PROVE FALSE
  <2>1. expires' = (count > 0) /\ count' = count
    BY <1>3 DEF Expire
  <2> QED BY <2>1
<1>4. CASE KeyExpires \/ KeyEvicted
  BY <1>4 DEF KeyExpires, KeyEvicted, KeyGone
<1>5. ASSUME NEW q \in Requests, RedisFails(q) PROVE \E r \in Requests : Owes(r)'
  <2>1. count > 0 /\ ~expires /\ ~cut /\ ~Owes(q)
    BY <1>5 DEF RedisFails, key
  <2>2. PICK r \in Requests : Owes(r)
    BY <2>1 DEF TtlIsOwed
  <2>3. fresh'[r] = fresh[r] /\ seen'[r] = seen[r] /\ pc'[r] = pc[r]
    BY <1>5, <2>1, <2>2 DEF RedisFails, Moves, TypeOK
  <2> QED BY <2>2, <2>3, OwedStays DEF Owes
<1>6. ASSUME Crash PROVE FALSE
  <2>1. count > 0 /\ ~expires /\ ~cut /\ ~ \E r \in Requests : Owes(r)
    BY <1>6 DEF Crash, key
  <2> QED BY <2>1 DEF TtlIsOwed
<1>7. CASE UNCHANGED vars
  BY <1>7 DEF vars, TtlIsOwed, Owes
<1> QED BY <1>1, <1>2, <1>3, <1>4, <1>5, <1>6, <1>7 DEF Next, Dispatch

\* As long as nobody is cut off between INCR and EXPIRE, a counter without a TTL
\* has a request in progress that will set one (RateLimitMiddleware.dispatch).
THEOREM TtlNotForgotten == Spec => []TtlIsOwed
<1>1. Init => TtlIsOwed
  BY DEF Init, TtlIsOwed
<1>2. IInv => TypeOK
  BY DEF IInv
<1> QED BY <1>1, <1>2, OwedPreserved, Invariance, PTL DEF Spec
=============================================================================
