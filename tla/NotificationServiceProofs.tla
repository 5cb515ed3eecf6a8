---------------------- MODULE NotificationServiceProofs ----------------------
(***************************************************************************)
(* What NotificationService guarantees for any messages, any bound and any *)
(* disruptions: its type, that no message is forgotten or counted twice,   *)
(* that only overdue writes are overtaken in a store, and that each        *)
(* subject tree implements LossyFifo.                                      *)
(*                                                                         *)
(* None of these is inductive alone.  ChannelInv says of one subject tree  *)
(* where its messages are: pending ones come after the one in the handler, *)
(* which comes after those the handler is done with (stored or overdue),   *)
(* and together with the lost ones they are all there are.  A late write   *)
(* changes none of it.  Every other action changes a subject tree in one   *)
(* of six ways, and one lemma for each says that ChannelInv survives it.   *)
(***************************************************************************)
EXTENDS NotificationService, TLAPS

\* n messages were taken, q is pending, c is in the handler (0: none), the
\* handler tried to store P, ls was lost.
ChannelType(n, q, c, P, ls) ==
  n \in Nat /\ q \in Seq(Nat) /\ c \in Nat /\ P \in SUBSET Nat /\ ls \in SUBSET Nat

Increasing(q) == \A i, j \in DOMAIN q : i < j => q[i] < q[j]

\* What the handler has tried, what it holds and what is pending ascends.
Ascending(q, c, P) ==
  /\ Increasing(q)
  /\ \A p \in P, j \in DOMAIN q : p < q[j]
  /\ c # 0 => \A p \in P : p < c
  /\ c # 0 => \A j \in DOMAIN q : c < q[j]

\* Every message is somewhere.
Covered(n, q, c, P, ls) ==
  \A o \in 1 .. n : o \in ls \/ o = c \/ o \in P \/ \E j \in DOMAIN q : q[j] = o

\* Nothing else is anywhere, and what is lost is nowhere else.
Sound(n, q, c, P, ls) ==
  /\ \A o \in ls : o \in 1 .. n /\ o # c
  /\ c \in 0 .. n
  /\ \A p \in P : p \in 1 .. n /\ p \notin ls
  /\ \A j \in DOMAIN q : q[j] \in 1 .. n /\ q[j] \notin ls

ChannelInv(n, q, c, P, ls) ==
  /\ ChannelType(n, q, c, P, ls)
  /\ Ascending(q, c, P)
  /\ Covered(n, q, c, P, ls)
  /\ Sound(n, q, c, P, ls)

\* What the handler of s is done with and did not drop.
Tried(s) == Image(stored[s]) \cup overdue[s]

Channel(s) == ChannelInv(Len(log[s]), queue[s], cur[s], Tried(s), lost[s])

\* The inductive invariant.
IInv ==
  /\ TypeOK
  /\ NoWorkWithoutSubscription
  /\ OnlyOverdueOvertaken
  /\ \A s \in Subject : Channel(s)

-----------------------------------------------------------------------------
(* One subject tree.                                                      *)

\* Before the first message.
LEMMA ChannelEmpty == ChannelInv(0, <<>>, 0, {}, {})
  BY DEF ChannelInv, ChannelType, Ascending, Covered, Sound, Increasing

\* What Append does, as the lemmas need it.
LEMMA Appended ==
  ASSUME NEW q \in Seq(Nat), NEW o \in Nat
  PROVE  /\ Append(q, o) \in Seq(Nat)
         /\ Len(q) \in Nat /\ DOMAIN q = 1 .. Len(q)
         /\ DOMAIN Append(q, o) = 1 .. Len(q) + 1
         /\ \A j \in DOMAIN q : j \in DOMAIN Append(q, o) /\ Append(q, o)[j] = q[j]
         /\ \A j \in DOMAIN Append(q, o) : j \in DOMAIN q \/ j = Len(q) + 1
         /\ Append(q, o)[Len(q) + 1] = o
  OBVIOUS

LEMMA ImageAppended ==
  ASSUME NEW q \in Seq(Nat), NEW o \in Nat
  PROVE  Image(Append(q, o)) = Image(q) \cup {o}
<1> DEFINE r == Append(q, o)
<1>1. /\ \A j \in DOMAIN q : j \in DOMAIN r /\ r[j] = q[j]
      /\ \A j \in DOMAIN r : j \in DOMAIN q \/ j = Len(q) + 1
      /\ Len(q) + 1 \in DOMAIN r /\ r[Len(q) + 1] = o
  BY Appended
<1> HIDE DEF r
<1>2. Image(r) = Image(q) \cup {o}
  BY <1>1 DEF Image
<1> QED BY <1>2 DEF r

\* A sequence stays increasing when a number above all of its own is appended.
LEMMA IncreasingAppend ==
  ASSUME NEW q \in Seq(Nat), NEW o \in Nat, Increasing(q),
         \A j \in DOMAIN q : q[j] < o
  PROVE  Increasing(Append(q, o))
<1> DEFINE r == Append(q, o)
<1>1. /\ Len(q) \in Nat /\ DOMAIN q = 1 .. Len(q) /\ DOMAIN r = 1 .. Len(q) + 1
      /\ \A j \in DOMAIN q : r[j] = q[j]
      /\ \A j \in DOMAIN r : j \in DOMAIN q \/ j = Len(q) + 1
      /\ r[Len(q) + 1] = o
  BY Appended
<1> SUFFICES ASSUME NEW i \in DOMAIN r, NEW j \in DOMAIN r, i < j
             PROVE  r[i] < r[j]
  BY DEF Increasing
<1>2. i \in DOMAIN q
  BY <1>1
<1>3. CASE j \in DOMAIN q
  BY <1>1, <1>2, <1>3 DEF Increasing
<1>4. CASE j = Len(q) + 1
  BY <1>1, <1>2, <1>4
<1> QED BY <1>1, <1>3, <1>4

\* What is stored stays ordered when something new is stored that is overdue or
\* comes after all the rest, whatever becomes overdue by the way.
LEMMA OrderedAppend ==
  ASSUME NEW q \in Seq(Nat), NEW o \in Nat, NEW late, Ordered(q, late),
         o \notin Image(q),
         o \in late \/ \A j \in DOMAIN q : q[j] < o
  PROVE  Ordered(Append(q, o), late)
<1> DEFINE r == Append(q, o)
<1>1. /\ Len(q) \in Nat /\ DOMAIN q = 1 .. Len(q) /\ DOMAIN r = 1 .. Len(q) + 1
      /\ \A j \in DOMAIN q : r[j] = q[j] /\ q[j] \in Nat /\ q[j] # o
      /\ \A j \in DOMAIN r : j \in DOMAIN q \/ j = Len(q) + 1
      /\ r[Len(q) + 1] = o
  BY Appended DEF Image
<1> SUFFICES ASSUME NEW i \in DOMAIN r, NEW j \in DOMAIN r, i < j
             PROVE  r[i] < r[j] \/ (r[j] < r[i] /\ r[j] \in late)
  BY DEF Ordered
<1>2. i \in DOMAIN q
  BY <1>1
<1>3. CASE j \in DOMAIN q
  BY <1>1, <1>2, <1>3 DEF Ordered
<1>4. CASE j = Len(q) + 1
  BY <1>1, <1>2, <1>4
<1> QED BY <1>1, <1>3, <1>4

\* The server takes a message and the subscription gets it.
LEMMA ChannelDelivered ==
  ASSUME NEW n, NEW q, NEW c, NEW P, NEW ls, ChannelInv(n, q, c, P, ls)
  PROVE  ChannelInv(n + 1, Append(q, n + 1), c, P, ls)
<1> DEFINE r == Append(q, n + 1)
<1>1. n \in Nat /\ q \in Seq(Nat) /\ c \in Nat /\ P \in SUBSET Nat /\ ls \in SUBSET Nat
  BY DEF ChannelInv, ChannelType
<1>2. Ascending(q, c, P) /\ Covered(n, q, c, P, ls) /\ Sound(n, q, c, P, ls)
  BY DEF ChannelInv
<1>3. /\ r \in Seq(Nat) /\ Len(q) \in Nat
      /\ \A j \in DOMAIN q : j \in DOMAIN r /\ r[j] = q[j]
      /\ \A j \in DOMAIN r : j \in DOMAIN q \/ j = Len(q) + 1
      /\ Len(q) + 1 \in DOMAIN r /\ r[Len(q) + 1] = n + 1
  BY <1>1, Appended
<1>4. Increasing(r)
  BY <1>1, <1>2, IncreasingAppend DEF Ascending, Sound
<1> HIDE DEF r
<1>5. ChannelType(n + 1, r, c, P, ls)
  BY <1>1, <1>3 DEF ChannelType
<1>6. Ascending(r, c, P)
  <2>1. \A p \in P, j \in DOMAIN r : p < r[j]
    <3> SUFFICES ASSUME NEW p \in P, NEW j \in DOMAIN r
                 PROVE  p < r[j]
      OBVIOUS
    <3>1. p < n + 1
      BY <1>1, <1>2 DEF Sound
    <3>2. CASE j \in DOMAIN q
      BY <1>2, <1>3, <3>2 DEF Ascending
    <3> QED BY <1>3, <3>1, <3>2
  <2>2. c # 0 => \A j \in DOMAIN r : c < r[j]
    <3>1. c < n + 1
      BY <1>1, <1>2 DEF Sound
    <3>2. c # 0 => \A j \in DOMAIN q : c < r[j]
      BY <1>2, <1>3 DEF Ascending
    <3> QED BY <1>3, <3>1, <3>2
  <2> QED BY <1>2, <1>4, <2>1, <2>2 DEF Ascending
<1>7. Covered(n + 1, r, c, P, ls)
  <2> SUFFICES ASSUME NEW o \in 1 .. n + 1
               PROVE  \/ o \in ls \/ o = c
                      \/ o \in P
                      \/ \E j \in DOMAIN r : r[j] = o
    BY DEF Covered
  <2>1. CASE o = n + 1
    BY <1>3, <2>1
  <2>2. CASE o \in 1 .. n
    BY <1>2, <1>3, <2>2 DEF Covered
  <2> QED BY <1>1, <2>1, <2>2
<1>8. Sound(n + 1, r, c, P, ls)
  <2>1. \A j \in DOMAIN q : q[j] \in 1 .. n + 1 /\ q[j] \notin ls
    BY <1>1, <1>2 DEF Sound
  <2>2. n + 1 \in 1 .. n + 1 /\ n + 1 \notin ls
    BY <1>1, <1>2 DEF Sound
  <2>3. \A j \in DOMAIN r : r[j] \in 1 .. n + 1 /\ r[j] \notin ls
    BY <1>3, <2>1, <2>2
  <2> QED BY <1>1, <1>2, <2>3 DEF Sound
<1>9. ChannelInv(n + 1, r, c, P, ls)
  BY <1>5, <1>6, <1>7, <1>8 DEF ChannelInv
<1> QED BY <1>9 DEF r

\* The server takes a message and the subscription never sees it.
LEMMA ChannelMissed ==
  ASSUME NEW n, NEW q, NEW c, NEW P, NEW ls, ChannelInv(n, q, c, P, ls)
  PROVE  ChannelInv(n + 1, q, c, P, ls \cup {n + 1})
<1>1. n \in Nat /\ q \in Seq(Nat) /\ c \in Nat /\ P \in SUBSET Nat /\ ls \in SUBSET Nat
  BY DEF ChannelInv, ChannelType
<1>2. Ascending(q, c, P) /\ Covered(n, q, c, P, ls) /\ Sound(n, q, c, P, ls)
  BY DEF ChannelInv
<1>3. ChannelType(n + 1, q, c, P, ls \cup {n + 1})
  BY <1>1 DEF ChannelType
<1>4. Covered(n + 1, q, c, P, ls \cup {n + 1})
  <2> SUFFICES ASSUME NEW o \in 1 .. n + 1, o # n + 1
               PROVE  \/ o \in ls \/ o = c
                      \/ o \in P
                      \/ \E j \in DOMAIN q : q[j] = o
    BY DEF Covered
  <2>1. o \in 1 .. n
    BY <1>1
  <2> QED BY <1>2, <2>1 DEF Covered
<1>5. Sound(n + 1, q, c, P, ls \cup {n + 1})
  BY <1>1, <1>2 DEF Sound
<1> QED BY <1>2, <1>3, <1>4, <1>5 DEF ChannelInv

\* The handler begins with the first pending message.
LEMMA ChannelTaken ==
  ASSUME NEW n, NEW q, NEW P, NEW ls, ChannelInv(n, q, 0, P, ls), q # <<>>
  PROVE  ChannelInv(n, Tail(q), Head(q), P, ls) /\ Head(q) # 0
<1> DEFINE r == Tail(q)
           h == Head(q)
<1>1. n \in Nat /\ q \in Seq(Nat) /\ P \in SUBSET Nat /\ ls \in SUBSET Nat
  BY DEF ChannelInv, ChannelType
<1>2. Ascending(q, 0, P) /\ Covered(n, q, 0, P, ls) /\ Sound(n, q, 0, P, ls)
  BY DEF ChannelInv
<1>3. /\ r \in Seq(Nat) /\ Len(q) \in Nat \ {0} /\ DOMAIN q = 1 .. Len(q)
      /\ DOMAIN r = 1 .. Len(q) - 1 /\ h = q[1]
      /\ \A j \in 1 .. Len(q) - 1 : r[j] = q[j + 1]
  BY <1>1
<1>4. /\ 1 \in DOMAIN q
      /\ \A j \in DOMAIN r : j \in Nat /\ j + 1 \in DOMAIN q /\ 1 < j + 1 /\ r[j] = q[j + 1]
      /\ \A j \in DOMAIN q : j = 1 \/ (j - 1 \in DOMAIN r /\ r[j - 1] = q[j])
  BY <1>3
<1> HIDE DEF r, h
<1>5. h \in 1 .. n /\ h \notin ls
  BY <1>2, <1>3, <1>4 DEF Sound
<1>6. ChannelType(n, r, h, P, ls)
  BY <1>1, <1>3, <1>5 DEF ChannelType
<1>7. Ascending(r, h, P)
  <2>1. Increasing(r)
    <3> SUFFICES ASSUME NEW i \in DOMAIN r, NEW j \in DOMAIN r, i < j
                 PROVE  r[i] < r[j]
      BY DEF Increasing
    <3>1. i + 1 \in DOMAIN q /\ j + 1 \in DOMAIN q /\ i + 1 < j + 1
      BY <1>4
    <3>2. q[i + 1] < q[j + 1]
      BY <1>2, <3>1 DEF Ascending, Increasing
    <3> QED BY <1>4, <3>2
  <2>2. \A j \in DOMAIN r : h < r[j]
    BY <1>2, <1>3, <1>4 DEF Ascending, Increasing
  <2>3. \A p \in P : p < h /\ \A j \in DOMAIN r : p < r[j]
    BY <1>2, <1>3, <1>4 DEF Ascending
  <2> QED BY <1>2, <2>1, <2>2, <2>3 DEF Ascending
<1>8. Covered(n, r, h, P, ls)
  <2> SUFFICES ASSUME NEW o \in 1 .. n, o # h, NEW j \in DOMAIN q, q[j] = o
               PROVE  \E k \in DOMAIN r : r[k] = o
    BY <1>2 DEF Covered
  <2> QED BY <1>3, <1>4
<1>9. Sound(n, r, h, P, ls)
  <2>1. \A j \in DOMAIN r : r[j] \in 1 .. n /\ r[j] \notin ls
    BY <1>2, <1>4 DEF Sound
  <2> QED BY <1>1, <1>2, <1>5, <2>1 DEF Sound
<1>10. ChannelInv(n, r, h, P, ls) /\ h # 0
  BY <1>1, <1>5, <1>6, <1>7, <1>8, <1>9 DEF ChannelInv
<1> QED BY <1>10 DEF r, h

\* The handler drops the message it holds.
LEMMA ChannelDropped ==
  ASSUME NEW n, NEW q, NEW c, NEW P, NEW ls, ChannelInv(n, q, c, P, ls), c # 0
  PROVE  ChannelInv(n, q, 0, P, ls \cup {c})
<1>1. n \in Nat /\ q \in Seq(Nat) /\ c \in Nat /\ P \in SUBSET Nat /\ ls \in SUBSET Nat
  BY DEF ChannelInv, ChannelType
<1>2. Ascending(q, c, P) /\ Covered(n, q, c, P, ls) /\ Sound(n, q, c, P, ls)
  BY DEF ChannelInv
<1>3. ChannelType(n, q, 0, P, ls \cup {c}) /\ Ascending(q, 0, P)
  BY <1>1, <1>2 DEF ChannelType, Ascending
<1>4. Covered(n, q, 0, P, ls \cup {c})
  BY <1>2 DEF Covered
<1>5. Sound(n, q, 0, P, ls \cup {c})
  <2>1. \A p \in P : p # c
    BY <1>1, <1>2 DEF Ascending, Sound
  <2>2. \A j \in DOMAIN q : q[j] # c
    BY <1>1, <1>2 DEF Ascending, Sound
  <2> QED BY <1>1, <1>2, <2>1, <2>2 DEF Sound
<1> QED BY <1>3, <1>4, <1>5 DEF ChannelInv

\* The message in the handler reaches its backend, or becomes overdue.
LEMMA ChannelTried ==
  ASSUME NEW n, NEW q, NEW c, NEW P, NEW ls, ChannelInv(n, q, c, P, ls), c # 0
  PROVE  ChannelInv(n, q, 0, P \cup {c}, ls)
<1>1. n \in Nat /\ q \in Seq(Nat) /\ c \in Nat /\ P \in SUBSET Nat /\ ls \in SUBSET Nat
  BY DEF ChannelInv, ChannelType
<1>2. Ascending(q, c, P) /\ Covered(n, q, c, P, ls) /\ Sound(n, q, c, P, ls)
  BY DEF ChannelInv
<1>3. ChannelType(n, q, 0, P \cup {c}, ls)
  BY <1>1 DEF ChannelType
<1>4. Ascending(q, 0, P \cup {c})
  BY <1>1, <1>2 DEF Ascending
<1>5. Covered(n, q, 0, P \cup {c}, ls)
  BY <1>2 DEF Covered
<1>6. Sound(n, q, 0, P \cup {c}, ls)
  <2>1. c \in 1 .. n /\ c \notin ls
    BY <1>1, <1>2 DEF Sound
  <2> QED BY <1>1, <1>2, <2>1 DEF Sound
<1> QED BY <1>3, <1>4, <1>5, <1>6 DEF ChannelInv

\* What is pending is forgotten.
LEMMA ChannelForgotten ==
  ASSUME NEW n, NEW q, NEW P, NEW ls, ChannelInv(n, q, 0, P, ls)
  PROVE  ChannelInv(n, <<>>, 0, P, ls \cup Image(q))
<1>1. /\ n \in Nat /\ q \in Seq(Nat) /\ P \in SUBSET Nat /\ ls \in SUBSET Nat
      /\ DOMAIN <<>> = {} /\ <<>> \in Seq(Nat)
  BY DEF ChannelInv, ChannelType
<1>2. Ascending(q, 0, P) /\ Covered(n, q, 0, P, ls) /\ Sound(n, q, 0, P, ls)
  BY DEF ChannelInv
<1>3. \A o : o \in Image(q) <=> \E j \in DOMAIN q : q[j] = o
  BY DEF Image
<1>4. \A o \in Image(q) : o \in 1 .. n
  BY <1>2, <1>3 DEF Sound
<1>5. ChannelType(n, <<>>, 0, P, ls \cup Image(q))
  <2>1. 1 .. n \subseteq Nat
    BY <1>1
  <2> QED BY <1>1, <1>4, <2>1 DEF ChannelType
<1>6. Ascending(<<>>, 0, P)
  BY <1>1, <1>2 DEF Ascending, Increasing
<1>7. Covered(n, <<>>, 0, P, ls \cup Image(q))
  BY <1>1, <1>2, <1>3 DEF Covered
<1>8. Sound(n, <<>>, 0, P, ls \cup Image(q))
  <2>1. \A p \in P : p \notin Image(q)
    BY <1>1, <1>2, <1>3 DEF Ascending, Sound
  <2>2. \A o \in Image(q) : o # 0
    BY <1>4
  <2> QED BY <1>1, <1>2, <1>4, <2>1, <2>2 DEF Sound
<1> QED BY <1>5, <1>6, <1>7, <1>8 DEF ChannelInv
-----------------------------------------------------------------------------
(* The three subject trees together.                                      *)

LEMMA InitIInv == Init => IInv
<1> SUFFICES ASSUME Init PROVE IInv
  OBVIOUS
<1>1. TypeOK
  BY DEF Init, TypeOK, Phase
<1>2. NoWorkWithoutSubscription
  BY DEF Init, NoWorkWithoutSubscription
<1>3. OnlyOverdueOvertaken
  BY DEF Init, OnlyOverdueOvertaken, Ordered
<1>4. \A s \in Subject : Channel(s)
  <2> SUFFICES ASSUME NEW s \in Subject PROVE Channel(s)
    OBVIOUS
  <2>1. Tried(s) = {}
    BY DEF Init, Tried, Image
  <2>2. Len(log[s]) = 0 /\ queue[s] = <<>> /\ cur[s] = 0 /\ lost[s] = {}
    BY DEF Init
  <2> QED BY <2>1, <2>2, ChannelEmpty DEF Channel
<1> QED BY <1>1, <1>2, <1>3, <1>4 DEF IInv

\* Steps of the process that leave the messages where they are.
LEMMA UntouchedIInv ==
  ASSUME IInv, phase' \in Phase, subs' \in SUBSET Subject, subs \subseteq subs',
         UNCHANGED <<log, queue, cur, outcome>>
  PROVE  IInv'
  BY DEF IInv, TypeOK, NoWorkWithoutSubscription, OnlyOverdueOvertaken, Channel, Tried,
         outcome

\* A stop or a crash takes the subscriptions S away.
LEMMA AbandonIInv ==
  ASSUME IInv, phase' \in Phase, UNCHANGED <<log, stored, announced>>,
         NEW S \in SUBSET Subject, Abandon(S)
  PROVE  IInv'
<1>1. /\ TypeOK /\ NoWorkWithoutSubscription /\ OnlyOverdueOvertaken
      /\ \A s \in Subject : Channel(s)
  BY DEF IInv
<1>2. \A s \in Subject : /\ queue[s] \in Seq(Nat) /\ cur[s] \in Nat
                         /\ overdue[s] \in SUBSET Nat /\ lost[s] \in SUBSET Nat
  BY <1>1 DEF TypeOK
<1>3. TypeOK'
  <2>1. subs' \in SUBSET Subject
    BY <1>1 DEF Abandon, TypeOK
  <2>2. queue' \in [Subject -> Seq(Nat)]
    BY <1>2 DEF Abandon
  <2>3. cur' \in [Subject -> Nat]
    BY <1>2 DEF Abandon
  <2>4. overdue' \in [Subject -> SUBSET Nat]
    BY <1>2 DEF Abandon
  <2>5. lost' \in [Subject -> SUBSET Nat]
    <3>1. \A s \in Subject : lost[s] \cup Image(queue[s]) \in SUBSET Nat
      BY <1>2 DEF Image
    <3> QED BY <1>2, <3>1 DEF Abandon
  <2> QED BY <1>1, <2>1, <2>2, <2>3, <2>4, <2>5 DEF TypeOK
<1>4. NoWorkWithoutSubscription'
  BY <1>1 DEF Abandon, NoWorkWithoutSubscription
<1>5. OnlyOverdueOvertaken'
  <2>1. \A s \in Subject : overdue[s] \subseteq overdue'[s]
    BY DEF Abandon
  <2> QED BY <1>1, <2>1 DEF OnlyOverdueOvertaken, Ordered
<1>6. \A s \in Subject : Channel(s)'
  <2> SUFFICES ASSUME NEW s \in Subject PROVE Channel(s)'
    OBVIOUS
  <2>1. ChannelInv(Len(log[s]), queue[s], cur[s], Tried(s), lost[s])
    BY <1>1 DEF Channel
  <2>2. CASE s \notin S
    <3>1. /\ queue'[s] = queue[s] /\ cur'[s] = cur[s] /\ log'[s] = log[s]
          /\ Tried(s)' = Tried(s) /\ lost'[s] = lost[s]
      BY <2>2 DEF Abandon, Tried
    <3> QED BY <2>1, <3>1 DEF Channel
  <2>3. CASE s \in S
    <3>1. /\ queue'[s] = <<>> /\ cur'[s] = 0 /\ log'[s] = log[s]
          /\ Tried(s)' = Tried(s) \cup ({cur[s]} \ {0})
          /\ lost'[s] = lost[s] \cup Image(queue[s])
      BY <2>3 DEF Abandon, Tried
    <3>2. ChannelInv(Len(log[s]), queue[s], 0, Tried(s)', lost[s])
      <4>1. CASE cur[s] = 0
        <5>1. Tried(s)' = Tried(s)
          BY <3>1, <4>1
        <5> QED BY <2>1, <4>1, <5>1
      <4>2. CASE cur[s] # 0
        <5>1. Tried(s)' = Tried(s) \cup {cur[s]}
          BY <3>1, <4>2
        <5> QED BY <2>1, <4>2, <5>1, ChannelTried
      <4> QED BY <4>1, <4>2
    <3>3. ChannelInv(Len(log[s]), <<>>, 0, Tried(s)', lost[s] \cup Image(queue[s]))
      BY <3>2, ChannelForgotten
    <3> QED BY <3>1, <3>3 DEF Channel
  <2> QED BY <2>2, <2>3
<1> QED BY <1>3, <1>4, <1>5, <1>6 DEF IInv

\* A step that concerns the messages of one subject tree s only.
LEMMA OneSubjectIInv ==
  ASSUME IInv, UNCHANGED life, NEW s \in Subject,
         TypeOK', s \in subs \/ (queue'[s] = queue[s] /\ cur'[s] = cur[s]),
         Channel(s)', Ordered(stored[s], overdue[s])',
         \A t \in Subject \ {s} :
           /\ log'[t] = log[t] /\ queue'[t] = queue[t] /\ cur'[t] = cur[t]
           /\ stored'[t] = stored[t] /\ lost'[t] = lost[t] /\ overdue'[t] = overdue[t]
  PROVE  IInv'
<1>1. /\ NoWorkWithoutSubscription /\ OnlyOverdueOvertaken
      /\ \A t \in Subject : Channel(t)
  BY DEF IInv
<1>2. NoWorkWithoutSubscription'
  BY <1>1 DEF NoWorkWithoutSubscription, life
<1>3. \A t \in Subject \ {s} : Channel(t)'
  BY <1>1 DEF Channel, Tried
<1>4. OnlyOverdueOvertaken'
  BY <1>1 DEF OnlyOverdueOvertaken
<1> QED BY <1>2, <1>3, <1>4 DEF IInv

LEMMA ArriveIInv ==
  ASSUME IInv, NEW s \in Subject, NEW m \in Message, NEW connected \in BOOLEAN,
         Arrive(s, m, connected)
  PROVE  IInv'
<1> DEFINE n == Len(log[s])
<1>1. /\ TypeOK /\ ChannelInv(n, queue[s], cur[s], Tried(s), lost[s])
      /\ Ordered(stored[s], overdue[s])
  BY DEF IInv, Channel, OnlyOverdueOvertaken
<1>2. /\ log[s] \in Seq(Message) /\ n \in Nat /\ queue[s] \in Seq(Nat)
      /\ lost[s] \in SUBSET Nat
  BY <1>1 DEF TypeOK
<1>3. /\ log' = [log EXCEPT ![s] = Append(@, m)]
      /\ log'[s] = Append(log[s], m) /\ Append(log[s], m) \in Seq(Message)
      /\ Len(log'[s]) = n + 1
      /\ UNCHANGED <<life, cur, stored, overdue, announced>>
  BY <1>1, <1>2 DEF Arrive, TypeOK
<1>4. Tried(s)' = Tried(s) /\ Ordered(stored[s], overdue[s])'
  BY <1>1, <1>3 DEF Tried
<1>5. CASE s \in subs /\ connected /\ Len(queue[s]) < QueueLimit
  <2>1. /\ queue' = [queue EXCEPT ![s] = Append(@, n + 1)] /\ UNCHANGED lost
        /\ queue'[s] = Append(queue[s], n + 1) /\ Append(queue[s], n + 1) \in Seq(Nat)
    BY <1>1, <1>2, <1>5 DEF Arrive, TypeOK
  <2>2. Channel(s)'
    BY <1>1, <1>3, <1>4, <2>1, ChannelDelivered DEF Channel
  <2>3. TypeOK'
    BY <1>1, <1>3, <2>1 DEF TypeOK, life
  <2> QED BY <1>1, <1>3, <1>4, <1>5, <2>1, <2>2, <2>3, OneSubjectIInv DEF TypeOK
<1>6. CASE ~(s \in subs /\ connected /\ Len(queue[s]) < QueueLimit)
  <2>1. /\ lost' = [lost EXCEPT ![s] = @ \cup {n + 1}] /\ UNCHANGED queue
        /\ lost'[s] = lost[s] \cup {n + 1}
    BY <1>1, <1>6 DEF Arrive, TypeOK
  <2>2. Channel(s)'
    <3>1. ChannelInv(n + 1, queue[s], cur[s], Tried(s), lost[s] \cup {n + 1})
      BY <1>1, ChannelMissed
    <3> QED BY <1>3, <1>4, <2>1, <3>1 DEF Channel
  <2>3. TypeOK'
    BY <1>1, <1>2, <1>3, <2>1 DEF TypeOK, life
  <2> QED BY <1>1, <1>3, <1>4, <2>1, <2>2, <2>3, OneSubjectIInv DEF TypeOK
<1> QED BY <1>5, <1>6

LEMMA TakeIInv ==
  ASSUME IInv, NEW s \in Subject, Take(s)
  PROVE  IInv'
<1>1. /\ TypeOK /\ ChannelInv(Len(log[s]), queue[s], 0, Tried(s), lost[s])
      /\ Ordered(stored[s], overdue[s])
      /\ queue[s] # <<>> /\ s \in subs /\ queue[s] \in Seq(Nat)
  BY DEF IInv, Channel, OnlyOverdueOvertaken, Take, Idle, TypeOK
<1>2. /\ queue' = [queue EXCEPT ![s] = Tail(@)]
      /\ cur' = [cur EXCEPT ![s] = Head(queue[s])]
      /\ UNCHANGED <<life, log, outcome>>
  BY DEF Take
<1>3. Head(queue[s]) \in Nat /\ Tail(queue[s]) \in Seq(Nat)
  BY <1>1
<1>4. TypeOK'
  BY <1>1, <1>2, <1>3 DEF TypeOK, life, outcome
<1>5. Channel(s)'
  <2>1. /\ queue'[s] = Tail(queue[s]) /\ cur'[s] = Head(queue[s]) /\ log'[s] = log[s]
        /\ Tried(s)' = Tried(s) /\ lost'[s] = lost[s]
    BY <1>1, <1>2 DEF TypeOK, outcome, Tried
  <2> QED BY <1>1, <2>1, ChannelTaken DEF Channel
<1>6. Ordered(stored[s], overdue[s])'
  BY <1>1, <1>2 DEF outcome
<1> QED BY <1>1, <1>2, <1>4, <1>5, <1>6, OneSubjectIInv DEF TypeOK, outcome

LEMMA RejectIInv ==
  ASSUME IInv, NEW s \in Subject, Reject(s)
  PROVE  IInv'
<1>1. /\ TypeOK /\ ChannelInv(Len(log[s]), queue[s], 0, Tried(s), lost[s])
      /\ Ordered(stored[s], overdue[s])
      /\ queue[s] # <<>> /\ s \in subs /\ queue[s] \in Seq(Nat) /\ cur[s] = 0
      /\ lost[s] \in SUBSET Nat
  BY DEF IInv, Channel, OnlyOverdueOvertaken, Reject, Idle, TypeOK
<1>2. /\ queue' = [queue EXCEPT ![s] = Tail(@)]
      /\ lost' = [lost EXCEPT ![s] = @ \cup {Head(queue[s])}]
      /\ UNCHANGED <<life, log, cur, stored, overdue, announced>>
  BY DEF Reject
<1>3. Head(queue[s]) \in Nat /\ Tail(queue[s]) \in Seq(Nat)
  BY <1>1
<1>4. TypeOK'
  BY <1>1, <1>2, <1>3 DEF TypeOK, life
<1>5. Channel(s)'
  <2>1. /\ queue'[s] = Tail(queue[s]) /\ cur'[s] = 0 /\ log'[s] = log[s]
        /\ Tried(s)' = Tried(s) /\ lost'[s] = lost[s] \cup {Head(queue[s])}
    BY <1>1, <1>2 DEF TypeOK, Tried
  <2>2. /\ ChannelInv(Len(log[s]), Tail(queue[s]), Head(queue[s]), Tried(s), lost[s])
        /\ Head(queue[s]) # 0
    BY <1>1, ChannelTaken
  <2>3. ChannelInv(Len(log[s]), Tail(queue[s]), 0, Tried(s),
                   lost[s] \cup {Head(queue[s])})
    BY <2>2, ChannelDropped
  <2> QED BY <2>1, <2>3 DEF Channel
<1>6. Ordered(stored[s], overdue[s])'
  BY <1>1, <1>2
<1> QED BY <1>1, <1>2, <1>4, <1>5, <1>6, OneSubjectIInv DEF TypeOK

\* What is known when a handler is at its write.
LEMMA AtWrite ==
  ASSUME IInv, NEW s \in Subject, cur[s] # 0
  PROVE  /\ TypeOK /\ s \in subs
         /\ ChannelInv(Len(log[s]), queue[s], cur[s], Tried(s), lost[s])
         /\ Ordered(stored[s], overdue[s])
         /\ cur[s] \in Nat /\ stored[s] \in Seq(Nat)
         /\ lost[s] \in SUBSET Nat /\ overdue[s] \in SUBSET Nat
         /\ \A p \in Tried(s) : p < cur[s]
         /\ cur[s] \in 1 .. Len(log[s])
<1>1. /\ TypeOK /\ NoWorkWithoutSubscription /\ OnlyOverdueOvertaken
      /\ ChannelInv(Len(log[s]), queue[s], cur[s], Tried(s), lost[s])
  BY DEF IInv, Channel
<1>2. s \in subs
  BY <1>1 DEF NoWorkWithoutSubscription
<1>3. \A p \in Tried(s) : p < cur[s]
  BY <1>1 DEF ChannelInv, Ascending
<1>4. cur[s] \in 1 .. Len(log[s])
  BY <1>1 DEF ChannelInv, ChannelType, Sound
<1> QED BY <1>1, <1>2, <1>3, <1>4 DEF TypeOK, OnlyOverdueOvertaken

\* The three ways for a handler to end: its message is stored,
LEMMA WriteDoneIInv ==
  ASSUME IInv, NEW s \in Subject, WriteDone(s)
  PROVE  IInv'
<1>1. /\ cur[s] # 0
      /\ stored' = [stored EXCEPT ![s] = Append(@, cur[s])]
      /\ cur' = [cur EXCEPT ![s] = 0]
      /\ UNCHANGED <<life, log, queue, lost, overdue>>
  BY DEF WriteDone
<1>2. /\ TypeOK /\ s \in subs
      /\ ChannelInv(Len(log[s]), queue[s], cur[s], Tried(s), lost[s])
      /\ Ordered(stored[s], overdue[s])
      /\ cur[s] \in Nat /\ stored[s] \in Seq(Nat)
      /\ \A p \in Tried(s) : p < cur[s]
  BY <1>1, AtWrite
<1>3. announced' \in [Subject -> SUBSET Nat] /\ Append(stored[s], cur[s]) \in Seq(Nat)
  BY <1>2 DEF WriteDone, TypeOK
<1>4. TypeOK'
  BY <1>1, <1>2, <1>3 DEF TypeOK, life
<1>5. stored'[s] = Append(stored[s], cur[s]) /\ cur'[s] = 0
  BY <1>1, <1>2 DEF TypeOK
<1>6. Channel(s)'
  <2>1. Tried(s)' = Tried(s) \cup {cur[s]}
    BY <1>1, <1>2, <1>5, ImageAppended DEF Tried
  <2>2. ChannelInv(Len(log[s]), queue[s], 0, Tried(s) \cup {cur[s]}, lost[s])
    BY <1>1, <1>2, ChannelTried
  <2> QED BY <1>1, <1>5, <2>1, <2>2 DEF Channel
<1>7. Ordered(stored[s], overdue[s])'
  <2>1. /\ cur[s] \notin Image(stored[s])
        /\ \A j \in DOMAIN stored[s] : stored[s][j] < cur[s]
    <3>1. \A j \in DOMAIN stored[s] : stored[s][j] \in Tried(s)
      BY DEF Tried, Image
    <3>2. cur[s] \notin Tried(s)
      BY <1>2
    <3> QED BY <1>2, <3>1, <3>2 DEF Tried
  <2> QED BY <1>1, <1>2, <1>5, <2>1, OrderedAppend
<1> QED BY <1>1, <1>2, <1>4, <1>6, <1>7, OneSubjectIInv DEF TypeOK

\* it is lost,
LEMMA WriteFailsIInv ==
  ASSUME IInv, NEW s \in Subject, WriteFails(s)
  PROVE  IInv'
<1>1. /\ cur[s] # 0
      /\ lost' = [lost EXCEPT ![s] = @ \cup {cur[s]}]
      /\ cur' = [cur EXCEPT ![s] = 0]
      /\ UNCHANGED <<life, log, queue, stored, overdue, announced>>
  BY DEF WriteFails
<1>2. /\ TypeOK /\ s \in subs
      /\ ChannelInv(Len(log[s]), queue[s], cur[s], Tried(s), lost[s])
      /\ Ordered(stored[s], overdue[s])
      /\ cur[s] \in Nat /\ lost[s] \in SUBSET Nat
  BY <1>1, AtWrite
<1>3. TypeOK'
  BY <1>1, <1>2 DEF TypeOK, life
<1>4. Channel(s)'
  <2>1. lost'[s] = lost[s] \cup {cur[s]} /\ cur'[s] = 0 /\ Tried(s)' = Tried(s)
    BY <1>1, <1>2 DEF TypeOK, Tried
  <2> QED BY <1>1, <1>2, <2>1, ChannelDropped DEF Channel
<1>5. Ordered(stored[s], overdue[s])'
  BY <1>1, <1>2
<1> QED BY <1>1, <1>2, <1>3, <1>4, <1>5, OneSubjectIInv DEF TypeOK

\* or it is overdue.
LEMMA WriteTimesOutIInv ==
  ASSUME IInv, NEW s \in Subject, WriteTimesOut(s)
  PROVE  IInv'
<1>1. /\ cur[s] # 0
      /\ overdue' = [overdue EXCEPT ![s] = @ \cup {cur[s]}]
      /\ cur' = [cur EXCEPT ![s] = 0]
      /\ UNCHANGED <<life, log, queue, stored, lost, announced>>
  BY DEF WriteTimesOut
<1>2. /\ TypeOK /\ s \in subs
      /\ ChannelInv(Len(log[s]), queue[s], cur[s], Tried(s), lost[s])
      /\ Ordered(stored[s], overdue[s])
      /\ cur[s] \in Nat /\ overdue[s] \in SUBSET Nat
  BY <1>1, AtWrite
<1>3. TypeOK'
  BY <1>1, <1>2 DEF TypeOK, life
<1>4. overdue'[s] = overdue[s] \cup {cur[s]} /\ cur'[s] = 0
  BY <1>1, <1>2 DEF TypeOK
<1>5. Channel(s)'
  <2>1. Tried(s)' = Tried(s) \cup {cur[s]}
    BY <1>1, <1>4 DEF Tried
  <2>2. ChannelInv(Len(log[s]), queue[s], 0, Tried(s) \cup {cur[s]}, lost[s])
    BY <1>1, <1>2, ChannelTried
  <2> QED BY <1>1, <1>4, <2>1, <2>2 DEF Channel
<1>6. Ordered(stored[s], overdue[s])'
  BY <1>1, <1>2, <1>4 DEF Ordered
<1> QED BY <1>1, <1>2, <1>3, <1>5, <1>6, OneSubjectIInv DEF TypeOK

\* A late write stores what was overdue and not stored yet.
LEMMA LateWriteIInv ==
  ASSUME IInv, NEW s \in Subject, LateWrite(s)
  PROVE  IInv'
<1>1. PICK o \in Late(s) : stored' = [stored EXCEPT ![s] = Append(@, o)]
  BY DEF LateWrite
<1>2. /\ TypeOK /\ Channel(s) /\ Ordered(stored[s], overdue[s])
      /\ stored[s] \in Seq(Nat) /\ overdue[s] \in SUBSET Nat
  BY DEF IInv, OnlyOverdueOvertaken, TypeOK
<1>3. o \in Nat /\ o \in overdue[s] /\ o \notin Image(stored[s])
  BY <1>1, <1>2 DEF Late, Settled
<1>4. UNCHANGED <<life, log, queue, cur, lost, overdue, announced>>
  BY DEF LateWrite
<1>5. stored'[s] = Append(stored[s], o) /\ Append(stored[s], o) \in Seq(Nat)
  BY <1>1, <1>2, <1>3 DEF TypeOK
<1>6. TypeOK'
  BY <1>1, <1>2, <1>4, <1>5 DEF TypeOK, life
<1>7. Tried(s)' = Tried(s)
  BY <1>2, <1>3, <1>4, <1>5, ImageAppended DEF Tried
<1>8. Channel(s)'
  BY <1>2, <1>4, <1>7 DEF Channel
<1>9. Ordered(stored[s], overdue[s])'
  BY <1>2, <1>3, <1>4, <1>5, OrderedAppend
<1> QED BY <1>1, <1>2, <1>4, <1>6, <1>8, <1>9, OneSubjectIInv DEF TypeOK

\* Every action of the specification keeps the invariant.
LEMMA NextIInv == IInv /\ [Next]_vars => IInv'
<1> SUFFICES ASSUME IInv, [Next]_vars PROVE IInv'
  OBVIOUS
<1>t. TypeOK
  BY DEF IInv
<1>1. CASE Boot
  BY <1>1, <1>t, UntouchedIInv DEF Boot, TypeOK, Phase
<1>2. ASSUME NEW s \in Subject, Subscribe(s) PROVE IInv'
  BY <1>2, <1>t, UntouchedIInv DEF Subscribe, TypeOK, Phase
<1>3. CASE Serve
  BY <1>3, <1>t, UntouchedIInv DEF Serve, TypeOK, Phase
<1>4. CASE Stop
  BY <1>4, <1>t, UntouchedIInv DEF Stop, TypeOK, Phase
<1>5. ASSUME NEW s \in Subject, Unsubscribe(s) PROVE IInv'
  BY <1>5, <1>t, AbandonIInv DEF Unsubscribe, TypeOK, Phase
<1>6. CASE Shutdown
  BY <1>6, <1>t, UntouchedIInv DEF Shutdown, TypeOK, Phase
<1>7. CASE Crash
  BY <1>7, <1>t, AbandonIInv DEF Crash, TypeOK, Phase
<1>8. ASSUME NEW s \in Subject, NEW m \in Message, NEW connected \in BOOLEAN,
             Arrive(s, m, connected)
      PROVE  IInv'
  BY <1>8, ArriveIInv
<1>9. ASSUME NEW s \in Subject, Handler(s) PROVE IInv'
  BY <1>9, TakeIInv, RejectIInv, WriteDoneIInv, WriteFailsIInv, WriteTimesOutIInv
     DEF Handler
<1>10. ASSUME NEW s \in Subject, LateWrite(s) PROVE IInv'
  BY <1>10, LateWriteIInv
<1>11. CASE UNCHANGED vars
  BY <1>11, <1>t, UntouchedIInv DEF vars, TypeOK, outcome
<1> QED BY <1>1, <1>2, <1>3, <1>4, <1>5, <1>6, <1>7, <1>8, <1>9, <1>10, <1>11
        DEF Next, Lifecycle

LEMMA Invariance == Spec => []IInv
  BY InitIInv, NextIInv, PTL DEF Spec

-----------------------------------------------------------------------------
(* What follows from it.                                                  *)

\* The variables keep the shape service.py and nats.py give them.
THEOREM TypeCorrect == Spec => []TypeOK
<1>1. IInv => TypeOK
  BY DEF IInv
<1> QED BY <1>1, Invariance, PTL

\* Each message the server took is stored, lost, pending, in a handler or given
\* up on, and in one of these places only: for any pending limit, any number of
\* messages and any of the disruptions.
THEOREM Accounting == Spec => []Accounted
<1>1. IInv => Accounted
  <2> SUFFICES ASSUME IInv, NEW s \in Subject
               PROVE  /\ 1 .. Len(log[s])
                         = Settled(s) \cup Pending(s) \cup Handled(s) \cup Late(s)
                      /\ Image(stored[s]) \cap lost[s] = {}
                      /\ (Settled(s) \cup Late(s)) \cap (Pending(s) \cup Handled(s)) = {}
                      /\ Pending(s) \cap Handled(s) = {}
    BY DEF Accounted
  <2> DEFINE n == Len(log[s])
  <2>1. /\ Ascending(queue[s], cur[s], Tried(s))
        /\ Covered(n, queue[s], cur[s], Tried(s), lost[s])
        /\ Sound(n, queue[s], cur[s], Tried(s), lost[s])
        /\ n \in Nat /\ Tried(s) \in SUBSET Nat
    BY DEF IInv, Channel, ChannelInv, ChannelType
  <2>2. /\ queue[s] \in Seq(Nat) /\ cur[s] \in Nat
        /\ \A j \in DOMAIN queue[s] : queue[s][j] \in Nat
    BY DEF IInv, TypeOK
  <2>3. Settled(s) \cup Late(s) = Tried(s) \cup lost[s]
    BY DEF Settled, Late, Tried
  <2> HIDE DEF n
  <2>4. 1 .. n = Settled(s) \cup Pending(s) \cup Handled(s) \cup Late(s)
    <3>1. ASSUME NEW o \in 1 .. n
          PROVE  o \in Tried(s) \cup lost[s] \cup Pending(s) \cup Handled(s)
      BY <2>1, <3>1 DEF Covered, Pending, Handled, Image
    <3>2. ASSUME NEW o \in Tried(s) \cup lost[s] \cup Pending(s) \cup Handled(s)
          PROVE  o \in 1 .. n
      BY <2>1, <2>2, <3>2 DEF Sound, Pending, Handled, Image
    <3>3. 1 .. n = Tried(s) \cup lost[s] \cup Pending(s) \cup Handled(s)
      BY <3>1, <3>2
    <3> QED BY <2>3, <3>3
  <2>5. Image(stored[s]) \cap lost[s] = {}
    BY <2>1 DEF Sound, Tried
  <2>6. (Settled(s) \cup Late(s)) \cap (Pending(s) \cup Handled(s)) = {}
    <3>1. \A p \in Tried(s), j \in DOMAIN queue[s] : p # queue[s][j]
      BY <2>1, <2>2 DEF Ascending
    <3>2. cur[s] # 0 => \A p \in Tried(s) : p # cur[s]
      BY <2>1, <2>2 DEF Ascending
    <3>3. Tried(s) \cap (Pending(s) \cup Handled(s)) = {}
      BY <3>1, <3>2 DEF Pending, Handled, Image
    <3>4. lost[s] \cap (Pending(s) \cup Handled(s)) = {}
      BY <2>1 DEF Sound, Pending, Handled, Image
    <3> QED BY <2>3, <3>3, <3>4
  <2>7. Pending(s) \cap Handled(s) = {}
    <3>1. cur[s] # 0 => \A j \in DOMAIN queue[s] : queue[s][j] # cur[s]
      BY <2>1, <2>2 DEF Ascending
    <3> QED BY <3>1 DEF Pending, Handled, Image
  <2> QED BY <2>4, <2>5, <2>6, <2>7 DEF n
<1> QED BY <1>1, Invariance, PTL

\* What reaches the stores from one subject tree does so at most once and in the
\* order of the log, but for writes whose client gave up, which may come later:
\* for any number of timeouts, stops and restarts.
THEOREM Ordering == Spec => []OnlyOverdueOvertaken
<1>1. IInv => OnlyOverdueOvertaken
  BY DEF IInv
<1> QED BY <1>1, Invariance, PTL

\* Neither stop() nor a crash leaves a handler or a pending message behind.
THEOREM NothingLeftBehind == Spec => []NoWorkWithoutSubscription
<1>1. IInv => NoWorkWithoutSubscription
  BY DEF IInv
<1> QED BY <1>1, Invariance, PTL

-----------------------------------------------------------------------------
(* Refinement: each subject tree is a lossy first-in first-out channel.   *)

\* A message in a handler is ahead of all the channel was busy with.
LEMMA InFlightIsNext ==
  ASSUME IInv, NEW s \in Subject, cur[s] # 0
  PROVE  cur[s] \in 1 .. Len(log[s]) /\ Fifo(s)!Ahead(cur[s])
  BY AtWrite DEF Fifo!Ahead, Fifo!Arrived, Tried, Image

\* Every step is, for each subject tree, a step of the channel or none.
LEMMA StepOfEachFifo ==
  IInv /\ [Next]_vars =>
    \A s \in Subject : [Fifo(s)!Next]_<<log[s], stored[s], overdue[s]>>
<1> SUFFICES ASSUME IInv, [Next]_vars, NEW s \in Subject
             PROVE  [Fifo(s)!Next]_<<log[s], stored[s], overdue[s]>>
  OBVIOUS
<1>t. /\ log \in [Subject -> Seq(Message)] /\ stored \in [Subject -> Seq(Nat)]
      /\ overdue \in [Subject -> SUBSET Nat]
  BY DEF IInv, TypeOK
<1> DEFINE Still     == UNCHANGED <<log[s], stored[s], overdue[s]>>
           Publishes == \E m \in Message : /\ log'[s] = Append(log[s], m)
                                           /\ UNCHANGED <<stored[s], overdue[s]>>
           Stores    == /\ cur[s] # 0
                        /\ stored'[s] = Append(stored[s], cur[s])
                        /\ UNCHANGED <<log[s], overdue[s]>>
           Delays    == /\ cur[s] # 0
                        /\ overdue'[s] = overdue[s] \cup {cur[s]}
                        /\ UNCHANGED <<log[s], stored[s]>>
           Overtakes == \E o \in Late(s) : /\ stored'[s] = Append(stored[s], o)
                                           /\ UNCHANGED <<log[s], overdue[s]>>
<1>1. ASSUME Still \/ Publishes \/ Stores \/ Delays \/ Overtakes
      PROVE  [Fifo(s)!Next]_<<log[s], stored[s], overdue[s]>>
  <2>1. CASE Still
    BY <2>1
  <2>2. CASE Publishes
    BY <2>2 DEF Fifo!Next, Fifo!Publish
  <2>3. CASE Stores
    <3>1. cur[s] \in 1 .. Len(log[s]) /\ Fifo(s)!Ahead(cur[s])
      BY <2>3, InFlightIsNext
    <3>2. Fifo(s)!Store(cur[s])
      BY <2>3, <3>1 DEF Fifo!Store
    <3> QED BY <3>1, <3>2 DEF Fifo!Next
  <2>4. CASE Delays
    <3>1. cur[s] \in 1 .. Len(log[s]) /\ Fifo(s)!Ahead(cur[s])
      BY <2>4, InFlightIsNext
    <3>2. Fifo(s)!Delay(cur[s])
      BY <2>4, <3>1 DEF Fifo!Delay
    <3> QED BY <3>1, <3>2 DEF Fifo!Next
  <2>5. CASE Overtakes
    <3>1. PICK o \in Late(s) : /\ stored'[s] = Append(stored[s], o)
                               /\ UNCHANGED <<log[s], overdue[s]>>
      BY <2>5
    <3>2. o \in 1 .. Len(log[s])
      BY <3>1 DEF IInv, Channel, ChannelInv, Sound, Late, Tried
    <3>3. Fifo(s)!Overtaken(o)
      BY <3>1 DEF Fifo!Overtaken, Fifo!Arrived, Late, Settled, Image
    <3> QED BY <3>2, <3>3 DEF Fifo!Next
  <2> QED BY <1>1, <2>1, <2>2, <2>3, <2>4, <2>5
<1>2. CASE Boot \/ Serve \/ Stop \/ Shutdown
  BY <1>1, <1>2 DEF Boot, Serve, Stop, Shutdown, outcome
<1>3. ASSUME NEW t \in Subject, Subscribe(t) PROVE Still
  BY <1>3 DEF Subscribe, outcome
<1>4. ASSUME NEW S, Abandon(S), UNCHANGED <<log, stored>>
      PROVE  Still \/ Delays
  <2>1. CASE s \in S /\ cur[s] # 0
    BY <1>4, <2>1 DEF Abandon
  <2>2. CASE ~(s \in S /\ cur[s] # 0)
    BY <1>4, <2>2 DEF Abandon
  <2> QED BY <2>1, <2>2
<1>5. ASSUME NEW t \in Subject, Unsubscribe(t) PROVE Still \/ Delays
  BY <1>4, <1>5 DEF Unsubscribe
<1>6. CASE Crash
  BY <1>1, <1>4, <1>6 DEF Crash
<1>7. ASSUME NEW t \in Subject, NEW m \in Message, NEW connected \in BOOLEAN,
             Arrive(t, m, connected)
      PROVE  Still \/ Publishes
  BY <1>7, <1>t DEF Arrive
<1>8. ASSUME NEW t \in Subject, Handler(t) PROVE Still \/ Stores \/ Delays
  <2>1. CASE Take(t) \/ Reject(t)
    BY <2>1 DEF Take, Reject, outcome
  <2>2. CASE WriteDone(t)
    BY <2>2, <1>t DEF WriteDone
  <2>3. CASE WriteFails(t)
    BY <2>3 DEF WriteFails
  <2>4. CASE WriteTimesOut(t)
    BY <2>4, <1>t DEF WriteTimesOut
  <2> QED BY <1>8, <2>1, <2>2, <2>3, <2>4 DEF Handler
<1>9. ASSUME NEW t \in Subject, LateWrite(t) PROVE Still \/ Overtakes
  <2>1. PICK o \in Late(t) : stored' = [stored EXCEPT ![t] = Append(@, o)]
    BY <1>9 DEF LateWrite
  <2>2. UNCHANGED <<log, overdue>>
    BY <1>9 DEF LateWrite
  <2> QED BY <1>t, <2>1, <2>2
<1>10. CASE UNCHANGED vars
  BY <1>1, <1>10 DEF vars
<1> QED BY <1>1, <1>2, <1>3, <1>5, <1>6, <1>7, <1>8, <1>9, <1>10 DEF Next, Lifecycle

\* The service implements LossyFifo for each of its three subject trees: the
\* stores see a tree in order, with gaps, and only what _handle gave up on late.
THEOREM LossyFifoImplemented == Spec => ImplementsLossyFifo
<1>1. Init => \A s \in Subject : Fifo(s)!Init
  BY DEF Init, Fifo!Init
<1>2. IInv /\ [Next]_vars =>
        [\A s \in Subject :
           [Fifo(s)!Next]_<<log[s], stored[s], overdue[s]>>]_channels
  BY StepOfEachFifo
<1> QED BY <1>1, <1>2, Invariance, PTL DEF Spec, ImplementsLossyFifo
=============================================================================
