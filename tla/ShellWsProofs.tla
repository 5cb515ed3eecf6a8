---------------------------- MODULE ShellWsProofs ----------------------------
(***************************************************************************)
(* What the shell's live feed guarantees for any number of sockets, timers *)
(* and attempts, any size of the list and any number of envelopes.         *)
(*                                                                         *)
(* OneLiveSocket and NeverSilentlyDown are inductive together with the     *)
(* types of the client's variables (ClientInv): that onopen resets the     *)
(* counter is harmless because the socket that opens is the one `ws` names.*)
(* That the list shows nothing twice (StoreInv) rests on OneLiveSocket: at *)
(* most one socket is open when an envelope is broadcast.                  *)
(***************************************************************************)
EXTENDS ShellWs, FiniteSetTheorems, SequenceTheorems, TLAPS

Ready == {"closed", "connecting", "open", "closing", "aborting"}

ClientType ==
  /\ shell \in BOOLEAN /\ up \in BOOLEAN
  /\ ready \in [Socket -> Ready]
  /\ ws \in Socket \cup {Null}
  /\ reconnects \in 0 .. MAX_RECONNECT
  /\ reconnectTimer \in BOOLEAN /\ loose \in Nat

ClientInv == ClientType /\ OneLiveSocket /\ NeverSilentlyDown

StoreInv ==
  /\ announced \in 0 .. MaxAnnounced /\ paused \in BOOLEAN
  /\ events \in Seq(Nat) /\ unread \in Nat
  /\ Len(events) <= MAX_EVENTS
  /\ unread > Len(events) => Len(events) = MAX_EVENTS
  /\ \A i \in 1 .. Len(events) : events[i] <= announced
  /\ ShownNewestFirst

\* The inductive invariant.
IInv == ClientInv /\ StoreInv
-----------------------------------------------------------------------------
(* The client.                                                            *)

LEMMA ClientStarts == Init => ClientInv
<1> SUFFICES ASSUME Init PROVE ClientInv
  OBVIOUS
<1>1. ClientType
  <2>1. shell \in BOOLEAN /\ up \in BOOLEAN /\ reconnectTimer \in BOOLEAN
    BY Zenon DEF Init
  <2>2. ready \in [Socket -> Ready] /\ ws \in Socket \cup {Null}
    BY DEF Init, Ready
  <2>3. reconnects \in 0 .. MAX_RECONNECT /\ loose \in Nat
    BY ConstantsAssumption DEF Init
  <2> QED BY <2>1, <2>2, <2>3 DEF ClientType
<1>2. OneLiveSocket
  BY DEF Init, OneLiveSocket, Live
<1>3. NeverSilentlyDown
  BY Zenon DEF Init, NeverSilentlyDown
<1> QED BY <1>1, <1>2, <1>3 DEF ClientInv

\* The client's invariant speaks only of its own variables.
LEMMA ClientAlone ==
  ASSUME ClientInv, UNCHANGED <<shell, ready, ws, reconnects, reconnectTimer, loose>>,
         up' \in BOOLEAN
  PROVE  ClientInv'
  BY DEF ClientInv, ClientType, OneLiveSocket, NeverSilentlyDown, Live, Timers

\* After connect, `ws` names a live socket, and no other is.
LEMMA ConnectConnects ==
  ASSUME ClientInv, connect
  PROVE  /\ ready' \in [Socket -> Ready] /\ ws' \in Socket
         /\ ready'[ws'] \in {"connecting", "open"}
         /\ \A s \in Socket : ready'[s] \in {"connecting", "open"} => s = ws'
<1>1. CASE ws # Null /\ Live(ws)
  BY <1>1 DEF connect, ClientInv, ClientType, OneLiveSocket, Live
<1>2. CASE ~(ws # Null /\ Live(ws))
  <2>1. \A s \in Socket : ~Live(s)
    BY <1>2, ConstantsAssumption DEF ClientInv, OneLiveSocket
  <2>2. NewSocket
    BY <1>2 DEF connect
  <2>3. Fresh \in Socket
    BY <2>2 DEF NewSocket, Fresh
  <2> QED BY <2>1, <2>2, <2>3 DEF NewSocket, ClientInv, ClientType, Ready, Live
<1> QED BY <1>1, <1>2

\* close() on what `ws` names leaves at most that socket live, or none.
LEMMA CloseCloses ==
  ASSUME NEW r \in [Socket -> Ready], NEW s \in Socket \cup {Null},
         \A t \in Socket : r[t] \in {"connecting", "open"} => t = s
  PROVE  /\ Close(r, s) \in [Socket -> Ready]
         /\ \A t \in Socket : Close(r, s)[t] \notin {"connecting", "open"}
         /\ \A t \in Socket : Close(r, s)[t] = "closed" <=> r[t] = "closed"
  BY ConstantsAssumption DEF Close, Ready

LEMMA ClientPreserved == ClientInv /\ [Next]_vars => ClientInv'
<1> SUFFICES ASSUME ClientInv, [Next]_vars PROVE ClientInv'
  OBVIOUS
<1>1. CASE startWebSocket
  BY <1>1, ConnectConnects, ConstantsAssumption
  DEF startWebSocket, ClientInv, ClientType, OneLiveSocket, NeverSilentlyDown, Live
<1>2. CASE stopWebSocket
  <2>1. \A t \in Socket : ready[t] \in {"connecting", "open"} => t = ws
    BY DEF ClientInv, OneLiveSocket, Live
  <2> QED
    BY <1>2, <2>1, CloseCloses
    DEF stopWebSocket, ClientInv, ClientType, OneLiveSocket, NeverSilentlyDown, Live
<1>3. ASSUME NEW s \in Socket, onopen(s) PROVE ClientInv'
  BY <1>3, ConstantsAssumption
  DEF onopen, ClientInv, ClientType, Ready, OneLiveSocket, NeverSilentlyDown, Live
<1>4. ASSUME NEW s \in Socket, NEW error \in BOOLEAN, onclose(s, error)
      PROVE  ClientInv'
  <2> DEFINE r == [ready EXCEPT ![s] = "closed"]
  <2>1. r \in [Socket -> Ready] /\ \A t \in Socket : r[t] \in {"connecting", "open"} => t = ws
    BY DEF ClientInv, ClientType, Ready, OneLiveSocket, Live
  <2>2. ready' = r \/ ready' = Close(r, ws)
    BY <1>4 DEF onclose, onerror
  <2>3. /\ ready' \in [Socket -> Ready]
        /\ \A t \in Socket : ready'[t] \in {"connecting", "open"} => t = ws
        /\ \A t \in Socket : t # s => (ready'[t] = "closed" <=> ready[t] = "closed")
    <3>1. \A t \in Socket : t # s => r[t] = ready[t]
      BY DEF ClientInv, ClientType
    <3> HIDE DEF r
    <3>2. CASE ready' = r
      BY <2>1, <3>1, <3>2
    <3>3. CASE ready' = Close(r, ws)
      <4>1. ws \in Socket \cup {Null}
        BY DEF ClientInv, ClientType
      <4> QED BY <2>1, <3>1, <3>3, <4>1, CloseCloses
    <3> QED BY <2>2, <3>2, <3>3
  <2>4. ws' = ws /\ shell' = shell /\ up' = up
    BY <1>4 DEF onclose
  <2>5. CASE reconnects < MAX_RECONNECT
    BY <1>4, <2>3, <2>4, <2>5, ConstantsAssumption
    DEF onclose, Retry, Timers, ClientInv, ClientType, OneLiveSocket, NeverSilentlyDown, Live
  <2>6. CASE ~(reconnects < MAX_RECONNECT)
    BY <1>4, <2>3, <2>4, <2>6, ConstantsAssumption
    DEF onclose, ClientInv, ClientType, OneLiveSocket, NeverSilentlyDown, Live
  <2> QED BY <2>5, <2>6
<1>5. CASE TimerFires
  <2>1. /\ ready' \in [Socket -> Ready] /\ ws' \in Socket
        /\ ready'[ws'] \in {"connecting", "open"}
        /\ \A s \in Socket : ready'[s] \in {"connecting", "open"} => s = ws'
    BY <1>5, ConnectConnects DEF TimerFires
  <2>2. /\ reconnectTimer' \in BOOLEAN /\ loose' \in Nat
        /\ UNCHANGED <<shell, up, reconnects>>
    <3>1. reconnectTimer' \in BOOLEAN
      BY <1>5, Zenon DEF TimerFires, ClientInv, ClientType
    <3>2. loose' \in Nat
      <4>1. loose' = loose \/ (loose > 0 /\ loose' = loose - 1)
        BY <1>5, Zenon DEF TimerFires
      <4> QED BY <4>1 DEF ClientInv, ClientType
    <3>3. UNCHANGED <<shell, up, reconnects>>
      BY <1>5, Zenon DEF TimerFires
    <3> QED BY <3>1, <3>2, <3>3
  <2>3. ClientType'
    BY <2>1, <2>2 DEF ClientInv, ClientType
  <2>4. OneLiveSocket' /\ NeverSilentlyDown'
    BY <2>1, ConstantsAssumption DEF OneLiveSocket, NeverSilentlyDown, Live
  <2> QED BY <2>3, <2>4 DEF ClientInv
<1>6. CASE Announce \/ markRead \/ setPaused \/ clear \/ ServerChanges \/ UNCHANGED vars
  <2>1. /\ UNCHANGED <<shell, ready, ws, reconnects, reconnectTimer, loose>>
        /\ up' \in BOOLEAN
    BY <1>6
    DEF Announce, markRead, setPaused, clear, ServerChanges, vars, client, ClientInv, ClientType
  <2> QED BY <2>1, ClientAlone
<1> QED BY <1>1, <1>2, <1>3, <1>4, <1>5, <1>6 DEF Next, Ends
-----------------------------------------------------------------------------
(* The store.                                                             *)

LEMMA StoreStarts == Init => StoreInv
<1> SUFFICES ASSUME Init PROVE StoreInv
  OBVIOUS
<1>1. announced = 0 /\ events = <<>> /\ unread = 0 /\ paused \in BOOLEAN
  BY DEF Init
<1>2. <<>> \in Seq(Nat) /\ Len(<<>>) = 0
  OBVIOUS
<1> QED BY <1>1, <1>2, ConstantsAssumption DEF StoreInv, ShownNewestFirst

LEMMA AtMostOneOpen ==
  ASSUME OneLiveSocket
  PROVE  Cardinality({s \in Socket : ready[s] = "open"}) \in {0, 1}
<1> DEFINE open == {s \in Socket : ready[s] = "open"}
<1>1. open \subseteq {ws}
  BY DEF OneLiveSocket, Live
<1>2. open = {} \/ open = {ws}
  BY <1>1
<1>3. Cardinality({}) = 0 /\ Cardinality({ws}) = 1
  BY FS_EmptySet, FS_Singleton
<1> QED BY <1>2, <1>3

\* What is shown after a push.
LEMMA PushShape ==
  ASSUME NEW new \in Seq(Nat), events \in Seq(Nat)
  PROVE  /\ Push(new) \in Seq(Nat)
         /\ Len(Push(new)) = IF Len(new) + Len(events) < MAX_EVENTS
                             THEN Len(new) + Len(events) ELSE MAX_EVENTS
         /\ \A i \in 1 .. Len(Push(new)) :
              Push(new)[i] = IF i <= Len(new) THEN new[i] ELSE events[i - Len(new)]
<1> DEFINE all == new \o events
           k == IF Len(all) < MAX_EVENTS THEN Len(all) ELSE MAX_EVENTS
<1>1. /\ all \in Seq(Nat) /\ Len(all) = Len(new) + Len(events)
      /\ \A i \in 1 .. Len(all) :
           all[i] = IF i <= Len(new) THEN new[i] ELSE events[i - Len(new)]
  OBVIOUS
<1>2. k \in 0 .. Len(all)
  BY <1>1, ConstantsAssumption
<1>3. Push(new) = SubSeq(all, 1, k)
  <2>1. Take(all, MAX_EVENTS) = SubSeq(all, 1, k)
    BY DEF Take
  <2> QED BY <2>1 DEF Push
<1>4. k = IF Len(new) + Len(events) < MAX_EVENTS
          THEN Len(new) + Len(events) ELSE MAX_EVENTS
  BY <1>1
<1> HIDE DEF all, k
<1>5. /\ SubSeq(all, 1, k) \in Seq(Nat) /\ Len(SubSeq(all, 1, k)) = k
      /\ \A i \in 1 .. k : SubSeq(all, 1, k)[i] = all[i]
  BY <1>1, <1>2
<1>6. Push(new) \in Seq(Nat) /\ Len(Push(new)) = k
  BY <1>3, <1>5
<1>7. ASSUME NEW i \in 1 .. k
      PROVE  Push(new)[i] = IF i <= Len(new) THEN new[i] ELSE events[i - Len(new)]
  <2>1. Push(new)[i] = all[i] /\ i \in 1 .. Len(all)
    BY <1>1, <1>2, <1>3, <1>5
  <2> QED BY <1>1, <2>1
<1> QED BY <1>4, <1>6, <1>7

LEMMA StorePreserved == ClientInv /\ StoreInv /\ [Next]_vars => StoreInv'
<1> SUFFICES ASSUME ClientInv, StoreInv, [Next]_vars PROVE StoreInv'
  OBVIOUS
<1>1. CASE Announce
  <2> DEFINE c == Cardinality({s \in Socket : ready[s] = "open"})
             new == [i \in 1 .. c |-> announced']
  <2>1. c \in {0, 1}
    BY AtMostOneOpen DEF ClientInv
  <2>2. announced' = announced + 1 /\ announced' \in 0 .. MaxAnnounced /\ paused' = paused
    BY <1>1, ConstantsAssumption DEF Announce, StoreInv
  <2>3. CASE paused
    BY <1>1, <2>2, <2>3 DEF Announce, StoreInv, ShownNewestFirst
  <2>4. CASE ~paused
    <3>1. events' = Push(new) /\ unread' = unread + Len(new)
      BY <1>1, <2>4 DEF Announce
    <3> HIDE DEF c
    <3>2. new \in Seq(Nat) /\ Len(new) = c /\ \A i \in 1 .. c : new[i] = announced'
      BY <2>1, <2>2
    <3> HIDE DEF new
    <3>3. /\ events' \in Seq(Nat)
          /\ Len(events') = IF c + Len(events) < MAX_EVENTS THEN c + Len(events)
                            ELSE MAX_EVENTS
          /\ \A i \in 1 .. Len(events') :
               events'[i] = IF i <= c THEN new[i] ELSE events[i - c]
      BY <3>1, <3>2, PushShape DEF StoreInv
    <3>4. \A i \in 1 .. Len(events') :
            \/ i <= c /\ events'[i] = announced'
            \/ i > c /\ i - c \in 1 .. Len(events) /\ events'[i] = events[i - c]
      BY <2>1, <3>2, <3>3, ConstantsAssumption DEF StoreInv
    <3>5. /\ Len(events) \in Nat /\ Len(events') \in Nat /\ announced \in Nat
          /\ \A i \in 1 .. Len(events) : events[i] \in Nat
      BY <3>3 DEF StoreInv
    <3>6. \A i \in 1 .. Len(events') : events'[i] <= announced'
      <4> SUFFICES ASSUME NEW i \in 1 .. Len(events') PROVE events'[i] <= announced'
        OBVIOUS
      <4>1. CASE i > c
        <5>1. events'[i] = events[i - c] /\ i - c \in 1 .. Len(events)
          BY <2>1, <3>4, <4>1
        <5>2. events[i - c] <= announced /\ events[i - c] \in Nat
          BY <3>5, <5>1 DEF StoreInv
        <5> QED BY <2>2, <3>5, <5>1, <5>2
      <4>2. CASE ~(i > c)
        BY <2>2, <3>4, <3>5, <4>2
      <4> QED BY <4>1, <4>2
    <3>7. \A i \in 1 .. Len(events') - 1 : events'[i] > events'[i + 1]
      <4> SUFFICES ASSUME NEW i \in 1 .. Len(events') - 1
                   PROVE  events'[i] > events'[i + 1]
        OBVIOUS
      <4>1. i + 1 \in 1 .. Len(events') /\ i \in 1 .. Len(events')
        BY <3>5
      <4>2. CASE i <= c
        <5>1. events'[i] = announced' /\ i + 1 > c
          BY <2>1, <3>4, <4>1, <4>2
        <5>2. i + 1 - c \in 1 .. Len(events) /\ events'[i + 1] = events[i + 1 - c]
          BY <2>1, <3>4, <4>1, <5>1
        <5> QED BY <2>2, <3>5, <5>1, <5>2 DEF StoreInv
      <4>3. CASE i > c
        <5> DEFINE j == i - c
        <5>1. j \in 1 .. Len(events) /\ events'[i] = events[j]
          BY <2>1, <3>4, <4>1, <4>3
        <5>2. j + 1 \in 1 .. Len(events) /\ events'[i + 1] = events[j + 1]
          <6>1. ~(i + 1 <= c)
            BY <2>1, <4>3
          <6>2. ASSUME NEW m \in 1 .. Len(events'), ~(m <= c)
                PROVE  m - c \in 1 .. Len(events) /\ events'[m] = events[m - c]
            BY <2>1, <3>4, <6>2
          <6>3. (i + 1) - c = j + 1
            BY <2>1
          <6> HIDE DEF j
          <6>4. (i + 1) - c \in 1 .. Len(events) /\ events'[i + 1] = events[(i + 1) - c]
            BY <4>1, <6>1, <6>2
          <6> QED BY <6>3, <6>4
        <5>3. j \in 1 .. Len(events) - 1
          BY <3>5, <5>1, <5>2
        <5> HIDE DEF j
        <5> QED BY <5>1, <5>2, <5>3 DEF StoreInv, ShownNewestFirst
      <4> QED BY <2>1, <4>2, <4>3
    <3>8. unread' \in Nat /\ Len(events') <= MAX_EVENTS
          /\ (unread' > Len(events') => Len(events') = MAX_EVENTS)
      BY <2>1, <3>1, <3>2, <3>3, <3>5, ConstantsAssumption DEF StoreInv
    <3> QED BY <2>2, <3>3, <3>6, <3>7, <3>8 DEF StoreInv, ShownNewestFirst
  <2> QED BY <2>3, <2>4 DEF StoreInv
<1>2. CASE markRead
  BY <1>2, ConstantsAssumption DEF markRead, StoreInv, ShownNewestFirst
<1>3. CASE setPaused
  BY <1>3 DEF setPaused, StoreInv, ShownNewestFirst
<1>4. CASE clear
  BY <1>4, ConstantsAssumption DEF clear, StoreInv, ShownNewestFirst
<1>5. ASSUME UNCHANGED <<announced, store>> PROVE StoreInv'
  BY <1>5 DEF store, StoreInv, ShownNewestFirst
<1>6. CASE \/ startWebSocket \/ stopWebSocket \/ TimerFires \/ ServerChanges
           \/ UNCHANGED vars
  BY <1>5, <1>6 DEF startWebSocket, stopWebSocket, TimerFires, ServerChanges, vars
<1>7. ASSUME NEW s \in Socket, onopen(s) \/ Ends(s) PROVE StoreInv'
  BY <1>5, <1>7 DEF onopen, Ends, onclose
<1> QED BY <1>1, <1>2, <1>3, <1>4, <1>6, <1>7 DEF Next

LEMMA Invariance == Spec => []IInv
<1>1. Init => IInv
  BY ClientStarts, StoreStarts DEF IInv
<1>2. IInv /\ [Next]_vars => IInv'
  BY ClientPreserved, StorePreserved DEF IInv
<1> QED BY <1>1, <1>2, PTL DEF Spec
-----------------------------------------------------------------------------
\* The client and the store keep their types, and the badge counts more than the
\* list holds only when the list has overflowed.
THEOREM TypeCorrect == Spec => []TypeOK
<1>1. IInv => TypeOK
  BY DEF IInv, ClientInv, ClientType, Ready, StoreInv, TypeOK
<1> QED BY <1>1, Invariance, PTL

\* The shell has one connection at most, the one stopWebSocket would close, for any
\* number of sockets still closing and of timers still pending.
THEOREM OneConnection == Spec => []OneLiveSocket
<1>1. IInv => OneLiveSocket
  BY DEF IInv, ClientInv
<1> QED BY <1>1, Invariance, PTL

\* A mounted shell with attempts left is connected or will try again.
THEOREM NotForgotten == Spec => []NeverSilentlyDown
<1>1. IInv => NeverSilentlyDown
  BY DEF IInv, ClientInv
<1> QED BY <1>1, Invariance, PTL

\* The list shows each envelope once, the newest first, for any size of the list.
THEOREM NewestFirst == Spec => []ShownNewestFirst
<1>1. IInv => ShownNewestFirst
  BY DEF IInv, StoreInv
<1> QED BY <1>1, Invariance, PTL
=============================================================================
