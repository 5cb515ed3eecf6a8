------------------------- MODULE WsBroadcasterProofs -------------------------
(***************************************************************************)
(* What ConnectionManager guarantees for any number of subject trees,      *)
(* browsers and broadcasts: who is present is registered, nobody present   *)
(* is skipped, what is written are the broadcasts since the browser came,  *)
(* and each tree implements ContiguousFeed.                                *)
(*                                                                         *)
(* What is inductive is what is true in the middle of a broadcast: a       *)
(* browser that is present has been sent all but the broadcast that still  *)
(* has it in its copy (Fed), only browsers that have gone are found dead,  *)
(* and only those are disconnected (Members).                              *)
(***************************************************************************)
EXTENDS WsBroadcaster, TLAPS

Cast == [on : BOOLEAN, todo : SUBSET Connection, dead : SUBSET Connection,
         at : Connection \cup {NoOne}]

Types ==
  /\ peer \in [Connection -> {"absent", "reading", "stalled", "gone"}]
  /\ loop \in [Connection -> {"none", "accepting", "asleep", "pinging", "ended"}]
  /\ conns \in SUBSET Connection
  /\ cast \in [Tree -> Cast]
  /\ announced \in [Tree -> Nat]
  /\ since \in [Tree -> [Connection -> Nat]]
  /\ got \in [Tree -> [Connection -> Seq(Nat)]]

Joined(c) == loop[c] \in {"asleep", "pinging", "ended"}

\* Where a connection may be mentioned.
Members ==
  /\ \A c \in Connection : Registered(c) /\ ~ Gone(c) => c \in conns
  /\ \A c \in conns : Joined(c)
  /\ \A c \in Connection : loop[c] = "ended" => Gone(c)
  /\ \A t \in Tree : ~ cast[t].on => cast[t].todo = {}
  /\ \A t \in Tree : \A c \in cast[t].todo : Joined(c)
  /\ \A t \in Tree : \A c \in cast[t].dead : Gone(c)

\* What tree t has sent to c, and what it owes it.
Fed(t, c) ==
  /\ ~ Joined(c) => got[t][c] = <<>>
  /\ Joined(c) /\ ~ Gone(c) =>
       IF c \in cast[t].todo THEN since[t][c] + Len(got[t][c]) + 1 = announced[t]
                             ELSE since[t][c] + Len(got[t][c]) = announced[t]

\* A browser that has not come has no coroutine.
NotYet == \A c \in Connection : peer[c] = "absent" => loop[c] = "none"

\* The inductive invariant, together with NotYet.
IInv == Types /\ Members /\ \A t \in Tree, c \in Connection : Fed(t, c)
-----------------------------------------------------------------------------
LEMMA InvStarts == Init => IInv
<1> SUFFICES ASSUME Init PROVE IInv
  OBVIOUS
<1>1. Types
  BY DEF Init, Types, Cast, Quiet
<1>2. Members
  BY DEF Init, Members, Quiet, Registered, Joined
<1>3. \A t \in Tree, c \in Connection : Fed(t, c)
  BY DEF Init, Fed, Joined
<1> QED BY <1>1, <1>2, <1>3 DEF IInv

\* A step that changes only the browser's end, and brings no browser back.
LEMMA PeersMove ==
  ASSUME IInv, NEW c \in Connection, NEW p \in {"reading", "stalled", "gone"},
         ~ Gone(c), peer' = [peer EXCEPT ![c] = p],
         UNCHANGED <<loop, conns, cast, announced, since, got>>
  PROVE  IInv'
<1>1. Types'
  BY DEF IInv, Types
<1>2. \A d \in Connection : Gone(d) => Gone(d)'
  BY DEF IInv, Types, Gone
<1>3. Members'
  BY <1>2 DEF IInv, Types, Cast, Members, Registered, Joined
<1>4. \A t \in Tree, d \in Connection : Fed(t, d)'
  BY <1>2 DEF IInv, Fed, Joined
<1> QED BY <1>1, <1>3, <1>4 DEF IInv

\* A step of a coroutine that is not and does not become registered.
LEMMA OutsideMoves ==
  ASSUME IInv, NEW c \in Connection, NEW l \in {"none", "accepting"},
         ~ Joined(c), loop' = [loop EXCEPT ![c] = l],
         \A d \in Connection : Gone(d)' <=> Gone(d),
         peer' \in [Connection -> {"absent", "reading", "stalled", "gone"}],
         UNCHANGED <<conns, cast, announced, since, got>>
  PROVE  IInv'
<1>1. Types'
  BY DEF IInv, Types
<1>2. \A d \in Connection : /\ Joined(d)' <=> Joined(d)
                            /\ Registered(d)' <=> Registered(d)
                            /\ loop'[d] = "ended" => loop[d] = "ended"
  BY DEF IInv, Types, Joined, Registered
<1>3. Members'
  BY <1>2 DEF IInv, Types, Cast, Members
<1>4. \A t \in Tree, d \in Connection : Fed(t, d)'
  BY <1>2 DEF IInv, Fed
<1> QED BY <1>1, <1>3, <1>4 DEF IInv

\* A ping begins or ends well.
LEMMA PingMoves ==
  ASSUME IInv, NEW c \in Connection, NEW l \in {"asleep", "pinging"},
         Registered(c), loop' = [loop EXCEPT ![c] = l],
         UNCHANGED <<peer, conns, cast, announced, since, got>>
  PROVE  IInv'
<1>1. Types'
  BY DEF IInv, Types
<1>2. \A d \in Connection : /\ Joined(d)' <=> Joined(d)
                            /\ Registered(d)' <=> Registered(d)
                            /\ loop'[d] = "ended" => loop[d] = "ended"
                            /\ Gone(d)' <=> Gone(d)
  BY DEF IInv, Types, Joined, Registered, Gone
<1>3. Members'
  BY <1>2 DEF IInv, Types, Cast, Members
<1>4. \A t \in Tree, d \in Connection : Fed(t, d)'
  BY <1>2 DEF IInv, Fed
<1> QED BY <1>1, <1>3, <1>4 DEF IInv

LEMMA DisconnectPreserves ==
  ASSUME IInv, NEW c \in Connection, Registered(c), Gone(c), Disconnect(c)
  PROVE  IInv'
<1>1. Types'
  BY DEF IInv, Types, Disconnect
<1>2. \A d \in Connection : /\ Joined(d)' <=> Joined(d)
                            /\ Registered(d)' => Registered(d)
                            /\ loop'[d] = "ended" => loop[d] = "ended" \/ d = c
                            /\ Gone(d)' <=> Gone(d)
  BY DEF IInv, Types, Joined, Registered, Gone, Disconnect
<1>3. conns' = conns \ {c} /\ cast' = cast
  BY DEF Disconnect
<1>4. Members'
  BY <1>2, <1>3 DEF IInv, Types, Cast, Members
<1>5. \A t \in Tree, d \in Connection : Fed(t, d)'
  BY <1>2 DEF IInv, Fed, Disconnect
<1> QED BY <1>1, <1>4, <1>5 DEF IInv

LEMMA ConnectPreserves ==
  ASSUME IInv, NEW c \in Connection, Connect(c)
  PROVE  IInv'
<1>1. Types'
  <2>1. since' \in [Tree -> [Connection -> Nat]]
    BY DEF IInv, Types, Connect
  <2> QED BY <2>1 DEF IInv, Types, Connect
<1>2. /\ \A d \in Connection : d # c => /\ Joined(d)' <=> Joined(d)
                                        /\ Registered(d)' <=> Registered(d)
                                        /\ loop'[d] = loop[d]
      /\ \A d \in Connection : Gone(d)' <=> Gone(d)
      /\ ~ Joined(c) /\ Joined(c)' /\ loop'[c] = "asleep"
      /\ conns' = conns \cup {c} /\ UNCHANGED <<cast, announced, got>>
  BY DEF IInv, Types, Joined, Registered, Gone, Connect
<1>3. Members'
  <2>1. \A d \in Connection : Registered(d)' /\ ~ Gone(d)' => d \in conns'
    BY <1>2 DEF IInv, Members
  <2>2. \A d \in conns' : Joined(d)'
    BY <1>2 DEF IInv, Types, Members
  <2>3. \A d \in Connection : loop'[d] = "ended" => Gone(d)'
    BY <1>2 DEF IInv, Members
  <2>4. \A t \in Tree : /\ ~ cast'[t].on => cast'[t].todo = {}
                        /\ \A d \in cast'[t].todo : Joined(d)'
                        /\ \A d \in cast'[t].dead : Gone(d)'
    BY <1>2 DEF IInv, Types, Cast, Members
  <2> QED BY <2>1, <2>2, <2>3, <2>4 DEF Members
<1>4. ASSUME NEW t \in Tree, NEW d \in Connection PROVE Fed(t, d)'
  <2>1. CASE d = c
    <3>1. c \notin cast[t].todo /\ got[t][c] = <<>>
      BY <1>2 DEF IInv, Members, Fed
    <3>2. since'[t][c] = announced[t]
      BY DEF Connect, IInv, Types
    <3>3. announced[t] \in Nat
      BY DEF IInv, Types
    <3> QED BY <1>2, <2>1, <3>1, <3>2, <3>3 DEF Fed
  <2>2. CASE d # c
    <3>1. since'[t][d] = since[t][d]
      BY <2>2 DEF Connect, IInv, Types
    <3> QED BY <1>2, <2>2, <3>1 DEF IInv, Fed
  <2> QED BY <2>1, <2>2
<1> QED BY <1>1, <1>3, <1>4 DEF IInv

\* A step of one broadcast leaves those of the other trees alone.
LEMMA CastStep ==
  ASSUME IInv, NEW t \in Tree, NEW r \in Cast, cast' = [cast EXCEPT ![t] = r]
  PROVE  /\ cast' \in [Tree -> Cast]
         /\ cast'[t] = r
         /\ \A u \in Tree : u # t => cast'[u] = cast[u]
BY DEF IInv, Types

LEMMA BroadcastPreserves ==
  ASSUME IInv, NEW t \in Tree, Broadcast(t)
  PROVE  IInv'
<1>1. Types'
  <2> DEFINE r == [Quiet EXCEPT !.on = TRUE, !.todo = conns]
  <2>1. r \in Cast
    BY DEF IInv, Types, Cast, Quiet
  <2>2. /\ cast' = [cast EXCEPT ![t] = r]
        /\ announced' = [announced EXCEPT ![t] = @ + 1]
        /\ UNCHANGED <<peer, loop, conns, since, got>>
    BY DEF Broadcast
  <2> HIDE DEF r
  <2>3. cast' \in [Tree -> Cast]
    BY <2>1, <2>2, CastStep
  <2> QED BY <2>2, <2>3 DEF IInv, Types
<1>2. /\ cast'[t].on /\ cast'[t].todo = conns /\ cast'[t].dead = {}
      /\ \A u \in Tree : u # t => cast'[u] = cast[u] /\ announced'[u] = announced[u]
      /\ announced'[t] = announced[t] + 1 /\ cast[t].todo = {}
      /\ UNCHANGED <<peer, loop, conns, since, got>>
  BY DEF IInv, Types, Cast, Members, Broadcast, Quiet
<1>3. \A d \in Connection : /\ Joined(d)' <=> Joined(d)
                            /\ Gone(d)' <=> Gone(d)
                            /\ Registered(d)' <=> Registered(d)
  BY <1>2 DEF Joined, Gone, Registered
<1>4. Members'
  BY <1>2, <1>3 DEF IInv, Types, Cast, Members
<1>5. ASSUME NEW u \in Tree, NEW d \in Connection PROVE Fed(u, d)'
  <2>1. CASE u # t
    BY <1>2, <1>3, <2>1 DEF IInv, Fed
  <2>2. CASE u = t
    <3>1. Joined(d) /\ ~ Gone(d) => d \in conns
      BY DEF IInv, Members, Joined, Registered
    <3>2. since[t][d] \in Nat /\ Len(got[t][d]) \in Nat /\ announced[t] \in Nat
      BY DEF IInv, Types
    <3> QED BY <1>2, <1>3, <2>2, <3>1, <3>2 DEF IInv, Fed
  <2> QED BY <2>1, <2>2
<1> QED BY <1>1, <1>4, <1>5 DEF IInv

\* Who is still in the copy and has not gone is owed the broadcast.
LEMMA Owed ==
  ASSUME IInv, NEW t \in Tree, NEW c \in cast[t].todo, ~ Gone(c)
  PROVE  /\ c \in Connection /\ Joined(c)
         /\ since[t][c] + Len(got[t][c]) + 1 = announced[t]
         /\ got[t][c] \in Seq(Nat) /\ since[t][c] \in Nat /\ announced[t] \in Nat
  BY DEF IInv, Types, Cast, Members, Fed

LEMMA SendPreserves ==
  ASSUME IInv, NEW t \in Tree, Send(t)
  PROVE  IInv'
<1>1. PICK c \in cast[t].todo :
        /\ cast[t].at = NoOne
        /\ IF Gone(c)
           THEN /\ cast' = [cast EXCEPT ![t].todo = @ \ {c}, ![t].dead = @ \cup {c}]
                /\ UNCHANGED got
           ELSE /\ cast' = [cast EXCEPT ![t].todo = @ \ {c}, ![t].at = c]
                /\ got' = [got EXCEPT ![t][c] = Append(@, announced[t])]
        /\ UNCHANGED <<peer, loop, conns, announced, since>>
  BY DEF Send
<1>2. c \in Connection /\ Joined(c)
  BY DEF IInv, Types, Cast, Members
<1>3. \A d \in Connection : /\ Joined(d)' <=> Joined(d)
                            /\ Gone(d)' <=> Gone(d)
                            /\ Registered(d)' <=> Registered(d)
  BY <1>1 DEF Joined, Gone, Registered
<1>r. cast[t] \in Cast
  BY DEF IInv, Types
<1>4. CASE Gone(c)
  <2> DEFINE r == [cast[t] EXCEPT !.todo = @ \ {c}, !.dead = @ \cup {c}]
  <2>r. /\ r \in Cast /\ r.on = cast[t].on
        /\ r.todo = cast[t].todo \ {c} /\ r.dead = cast[t].dead \cup {c}
    BY <1>2, <1>r DEF Cast
  <2>c. cast' = [cast EXCEPT ![t] = r]
    BY <1>1, <1>4
  <2> HIDE DEF r
  <2>s. /\ cast' \in [Tree -> Cast] /\ cast'[t] = r
        /\ \A u \in Tree : u # t => cast'[u] = cast[u]
    BY <2>r, <2>c, CastStep
  <2>1. Types'
    BY <1>1, <1>4, <2>s DEF IInv, Types
  <2>2. /\ cast'[t].todo = cast[t].todo \ {c} /\ cast'[t].dead = cast[t].dead \cup {c}
        /\ cast'[t].on = cast[t].on
        /\ \A u \in Tree : u # t => cast'[u] = cast[u]
        /\ UNCHANGED <<peer, loop, conns, announced, since, got>>
    BY <1>1, <1>4, <2>r, <2>s
  <2>3. Members'
    <3>1. \A u \in Tree : /\ cast'[u].on = cast[u].on
                          /\ cast'[u].todo \subseteq cast[u].todo
                          /\ cast'[u].dead \subseteq cast[u].dead \cup {c}
      BY <2>2
    <3>2. ASSUME NEW u \in Tree, NEW d \in cast'[u].dead PROVE Gone(d)'
      <4>1. d \in cast[u].dead \/ d = c
        BY <3>1
      <4>2. d \in Connection /\ Gone(d)
        BY <1>2, <1>4, <4>1 DEF IInv, Types, Cast, Members
      <4> QED BY <1>3, <4>2
    <3> QED BY <1>3, <2>2, <3>1, <3>2 DEF IInv, Types, Cast, Members
  <2>4. \A u \in Tree, d \in Connection : Fed(u, d)'
    BY <1>3, <1>4, <2>2 DEF IInv, Fed
  <2> QED BY <2>1, <2>3, <2>4 DEF IInv
<1>5. CASE ~ Gone(c)
  <2> DEFINE r == [cast[t] EXCEPT !.todo = @ \ {c}, !.at = c]
  <2>r. /\ r \in Cast /\ r.on = cast[t].on
        /\ r.todo = cast[t].todo \ {c} /\ r.dead = cast[t].dead
    BY <1>2, <1>r DEF Cast
  <2>c. cast' = [cast EXCEPT ![t] = r]
    BY <1>1, <1>5
  <2> HIDE DEF r
  <2>s. /\ cast' \in [Tree -> Cast] /\ cast'[t] = r
        /\ \A u \in Tree : u # t => cast'[u] = cast[u]
    BY <2>r, <2>c, CastStep
  <2>g. /\ got' = [got EXCEPT ![t][c] = Append(got[t][c], announced[t])]
        /\ got[t][c] \in Seq(Nat) /\ announced[t] \in Nat
    BY <1>1, <1>2, <1>5 DEF IInv, Types
  <2>h. /\ got' \in [Tree -> [Connection -> Seq(Nat)]]
        /\ got'[t][c] = Append(got[t][c], announced[t])
        /\ \A u \in Tree : u # t => got'[u] = got[u]
        /\ \A d \in Connection : d # c => got'[t][d] = got[t][d]
    <3> DEFINE new == Append(got[t][c], announced[t])
    <3>1. new \in Seq(Nat)
      BY <2>g
    <3> HIDE DEF new
    <3> QED BY <1>2, <2>g, <3>1 DEF IInv, Types, new
  <2>1. Types'
    BY <1>1, <1>5, <2>s, <2>h DEF IInv, Types
  <2>2. /\ cast'[t].todo = cast[t].todo \ {c} /\ cast'[t].dead = cast[t].dead
        /\ cast'[t].on = cast[t].on
        /\ \A u \in Tree : u # t => cast'[u] = cast[u] /\ got'[u] = got[u]
        /\ \A d \in Connection : d # c => got'[t][d] = got[t][d]
        /\ got'[t][c] = Append(got[t][c], announced[t])
        /\ UNCHANGED <<peer, loop, conns, announced, since>>
    BY <1>1, <1>5, <2>r, <2>s, <2>h
  <2>3. Members'
    <3>1. \A u \in Tree : /\ cast'[u].on = cast[u].on
                          /\ cast'[u].todo \subseteq cast[u].todo
                          /\ cast'[u].dead = cast[u].dead
      BY <2>2
    <3> QED BY <1>3, <2>2, <3>1 DEF IInv, Types, Cast, Members
  <2>4. ASSUME NEW u \in Tree, NEW d \in Connection PROVE Fed(u, d)'
    <3>1. CASE u # t
      BY <1>3, <2>2, <3>1 DEF IInv, Fed
    <3>2. CASE u = t /\ d # c
      BY <1>3, <2>2, <3>2 DEF IInv, Fed
    <3>3. CASE u = t /\ d = c
      <4>1. Len(got'[t][c]) = Len(got[t][c]) + 1
        BY <1>5, <2>2, Owed
      <4>2. since'[t][c] + Len(got'[t][c]) = announced'[t] /\ c \notin cast'[t].todo
        BY <1>5, <2>2, <4>1, Owed
      <4> QED BY <1>2, <1>3, <3>3, <4>2 DEF Fed
    <3> QED BY <3>1, <3>2, <3>3
  <2> QED BY <2>1, <2>3, <2>4 DEF IInv
<1> QED BY <1>4, <1>5

\* The rest of a broadcast: what was owed stays owed, who is found dead has gone.
LEMMA CastMoves ==
  ASSUME IInv, Types', NEW t \in Tree, NEW S \in SUBSET Connection,
         \A c \in S : Gone(c),
         \/ conns' = conns /\ cast'[t].dead \subseteq cast[t].dead \cup S
         \/ conns' = conns \ cast[t].dead /\ cast'[t].dead = {},
         cast'[t].todo = cast[t].todo,
         cast'[t].on = cast[t].on \/ cast[t].todo = {},
         \A u \in Tree : u # t => cast'[u] = cast[u],
         UNCHANGED <<peer, loop, announced, since, got>>
  PROVE  IInv'
<1>1. \A d \in Connection : /\ Joined(d)' <=> Joined(d)
                            /\ Gone(d)' <=> Gone(d)
                            /\ Registered(d)' <=> Registered(d)
  BY DEF Joined, Gone, Registered
<1>2. Members'
  <2>1. \A d \in Connection : Registered(d)' /\ ~ Gone(d)' => d \in conns'
    BY <1>1 DEF IInv, Members
  <2>2. \A d \in conns' : Joined(d)'
    BY <1>1 DEF IInv, Types, Members
  <2>3. \A d \in Connection : loop'[d] = "ended" => Gone(d)'
    BY <1>1 DEF IInv, Members
  <2>4. \A u \in Tree : /\ ~ cast'[u].on => cast'[u].todo = {}
                        /\ \A d \in cast'[u].todo : Joined(d)'
                        /\ \A d \in cast'[u].dead : Gone(d)'
    BY <1>1 DEF IInv, Types, Cast, Members
  <2> QED BY <2>1, <2>2, <2>3, <2>4 DEF Members
<1>3. \A u \in Tree, d \in Connection : Fed(u, d)'
  BY <1>1 DEF IInv, Fed
<1> QED BY <1>2, <1>3 DEF IInv

LEMMA HandlingPreserves ==
  ASSUME IInv, NEW t \in Tree, Handling(t)
  PROVE  IInv'
<1>1. CASE Send(t)
  BY <1>1, SendPreserves
<1>2. CASE SendReturns(t)
  <2> DEFINE c == cast[t].at
  <2>1. c \in Connection
    BY <1>2 DEF SendReturns, IInv, Types, Cast
  <2>2. \/ cast' = [cast EXCEPT ![t].at = NoOne]
        \/ Gone(c) /\ cast' = [cast EXCEPT ![t].at = NoOne, ![t].dead = @ \cup {c}]
    BY <1>2 DEF SendReturns
  <2> DEFINE S == IF Gone(c) THEN {c} ELSE {}
  <2>3. PICK D \in {cast[t].dead, cast[t].dead \cup S} :
               cast' = [cast EXCEPT ![t] = [cast[t] EXCEPT !.at = NoOne, !.dead = D]]
    <3>1. cast[t] \in Cast
      BY DEF IInv, Types
    <3>2. CASE cast' = [cast EXCEPT ![t].at = NoOne]
      <4>1. [cast[t] EXCEPT !.at = NoOne] = [cast[t] EXCEPT !.at = NoOne, !.dead = cast[t].dead]
        BY <3>1 DEF Cast
      <4> QED BY <3>2, <4>1
    <3>3. CASE Gone(c) /\ cast' = [cast EXCEPT ![t].at = NoOne, ![t].dead = @ \cup {c}]
      <4>1. S = {c}
        BY <3>3
      <4> QED BY <3>3, <4>1
    <3> QED BY <2>2, <3>2, <3>3
  <2> DEFINE r == [cast[t] EXCEPT !.at = NoOne, !.dead = D]
  <2>r. /\ r \in Cast /\ r.on = cast[t].on /\ r.todo = cast[t].todo
        /\ r.dead \subseteq cast[t].dead \cup S
    BY <2>1, <2>3 DEF IInv, Types, Cast
  <2>f. S \in SUBSET Connection /\ \A d \in S : Gone(d)
    BY <2>1
  <2> HIDE DEF r
  <2>s. /\ cast' \in [Tree -> Cast] /\ cast'[t] = r
        /\ \A u \in Tree : u # t => cast'[u] = cast[u]
    BY <2>r, <2>3, CastStep DEF r
  <2>u. UNCHANGED <<peer, loop, conns, announced, since, got>>
    BY <1>2 DEF SendReturns
  <2>4. Types'
    BY <2>s, <2>u DEF IInv, Types
  <2> HIDE DEF S, c
  <2> QED BY <2>4, <2>r, <2>f, <2>s, <2>u, CastMoves
<1>3. CASE Finish(t)
  <2>q. Quiet \in Cast /\ Quiet.todo = {} /\ Quiet.dead = {}
    BY DEF Quiet, Cast
  <2>s. /\ cast' \in [Tree -> Cast] /\ cast'[t] = Quiet
        /\ \A u \in Tree : u # t => cast'[u] = cast[u]
    BY <1>3, <2>q, CastStep DEF Finish
  <2>1. Types'
    BY <1>3, <2>s DEF Finish, IInv, Types
  <2>2. /\ conns' = conns \ cast[t].dead /\ cast'[t].dead = {}
        /\ cast'[t].todo = cast[t].todo /\ cast[t].todo = {}
        /\ \A u \in Tree : u # t => cast'[u] = cast[u]
        /\ UNCHANGED <<peer, loop, announced, since, got>>
    BY <1>3, <2>q, <2>s DEF Finish
  <2>3. {} \in SUBSET Connection /\ \A d \in {} : Gone(d)
    OBVIOUS
  <2> QED BY <2>1, <2>2, <2>3, CastMoves
<1> QED BY <1>1, <1>2, <1>3 DEF Handling

LEMMA InvPreserved == IInv /\ NotYet /\ [Next]_vars => IInv'
<1> SUFFICES ASSUME IInv, NotYet, [Next]_vars PROVE IInv'
  OBVIOUS
<1>1. ASSUME NEW c \in Connection, Arrive(c) PROVE IInv'
  <2>1. \A d \in Connection : Gone(d)' <=> Gone(d)
    BY <1>1 DEF Arrive, Gone, IInv, Types
  <2>2. peer' \in [Connection -> {"absent", "reading", "stalled", "gone"}]
    BY <1>1 DEF Arrive, IInv, Types
  <2>3. ~ Joined(c)
    BY <1>1 DEF Arrive, NotYet, Joined
  <2>4. /\ loop' = [loop EXCEPT ![c] = "accepting"]
        /\ UNCHANGED <<conns, cast, announced, since, got>>
    BY <1>1 DEF Arrive
  <2> QED BY <2>1, <2>2, <2>3, <2>4, OutsideMoves
<1>2. ASSUME NEW c \in Connection, Stall(c) \/ Resume(c) \/ Leave(c) PROVE IInv'
  <2>1. ~ Gone(c) /\ UNCHANGED <<loop, conns, cast, announced, since, got>>
    BY <1>2 DEF Stall, Resume, Leave, Gone
  <2>2. \E p \in {"reading", "stalled", "gone"} : peer' = [peer EXCEPT ![c] = p]
    BY <1>2 DEF Stall, Resume, Leave
  <2> QED BY <2>1, <2>2, PeersMove
<1>3. ASSUME NEW c \in Connection, AcceptFails(c) PROVE IInv'
  <2>1. ~ Joined(c)
    BY <1>3 DEF AcceptFails, Joined
  <2>2. /\ loop' = [loop EXCEPT ![c] = "none"]
        /\ UNCHANGED <<peer, conns, cast, announced, since, got>>
    BY <1>3 DEF AcceptFails
  <2>3. peer' \in [Connection -> {"absent", "reading", "stalled", "gone"}]
    BY <2>2 DEF IInv, Types
  <2>4. \A d \in Connection : Gone(d)' <=> Gone(d)
    BY <2>2 DEF Gone
  <2> QED BY <2>1, <2>2, <2>3, <2>4, OutsideMoves
<1>4. ASSUME NEW c \in Connection, Ping(c) \/ PingReturns(c) PROVE IInv'
  <2>1. Registered(c)
    BY <1>4 DEF Ping, PingReturns, Registered
  <2>2. CASE Gone(c) /\ Disconnect(c)
    BY <2>1, <2>2, DisconnectPreserves
  <2>3. CASE ~ (Gone(c) /\ Disconnect(c))
    <3>1. /\ \E l \in {"asleep", "pinging"} : loop' = [loop EXCEPT ![c] = l]
          /\ UNCHANGED <<peer, conns, cast, announced, since, got>>
      BY <1>4, <2>3 DEF Ping, PingReturns
    <3> QED BY <2>1, <3>1, PingMoves
  <2> QED BY <2>2, <2>3
<1>5. CASE UNCHANGED vars
  BY <1>5 DEF vars, IInv, Types, Members, Fed, Joined, Registered, Gone
<1> QED
  BY <1>1, <1>2, <1>3, <1>4, <1>5, ConnectPreserves, BroadcastPreserves,
     HandlingPreserves DEF Next, WsEvents

LEMMA NotYetPreserved == IInv /\ NotYet /\ [Next]_vars => NotYet'
<1> SUFFICES ASSUME IInv, NotYet, [Next]_vars PROVE NotYet'
  OBVIOUS
<1>1. ASSUME NEW c \in Connection, Arrive(c) \/ Stall(c) \/ Resume(c) \/ Leave(c)
      PROVE  NotYet'
  BY <1>1 DEF Arrive, Stall, Resume, Leave, NotYet, IInv, Types
<1>2. ASSUME NEW c \in Connection, WsEvents(c) PROVE NotYet'
  BY <1>2 DEF WsEvents, Connect, AcceptFails, Ping, PingReturns, Disconnect, Gone,
              NotYet, IInv, Types
<1>3. ASSUME NEW t \in Tree, Broadcast(t) \/ Handling(t) PROVE NotYet'
  BY <1>3 DEF Broadcast, Handling, Send, SendReturns, Finish, NotYet
<1> QED BY <1>1, <1>2, <1>3 DEF Next, vars, NotYet

LEMMA Invariance == Spec => [](IInv /\ NotYet)
<1>1. Init => NotYet
  BY DEF Init, NotYet
<1> QED BY <1>1, InvStarts, InvPreserved, NotYetPreserved, PTL DEF Spec
-----------------------------------------------------------------------------
\* What a browser has been written, and joined after, has begun.
Begun == \A t \in Tree, c \in Connection :
           since[t][c] \in 0 .. announced[t] /\ got[t][c] \in Seq(1 .. announced[t])

LEMMA BegunPreserved == IInv /\ Begun /\ [Next]_vars => Begun'
<1> SUFFICES ASSUME IInv, Begun, [Next]_vars, NEW u \in Tree, NEW d \in Connection
             PROVE  /\ since'[u][d] \in 0 .. announced'[u]
                    /\ got'[u][d] \in Seq(1 .. announced'[u])
  BY DEF Begun
<1>1. /\ announced[u] \in Nat /\ since[u][d] \in 0 .. announced[u]
      /\ got[u][d] \in Seq(1 .. announced[u])
  BY DEF Begun, IInv, Types
<1>2. CASE UNCHANGED <<announced, since, got>>
  BY <1>1, <1>2
<1>3. ASSUME NEW c \in Connection, Connect(c)
      PROVE  since'[u][d] \in 0 .. announced'[u] /\ UNCHANGED <<announced, got>>
  <2>1. since'[u] = [since[u] EXCEPT ![c] = announced[u]] /\ UNCHANGED <<announced, got>>
    BY <1>3 DEF Connect
  <2>2. since'[u][d] \in {since[u][d], announced[u]}
    BY <2>1 DEF IInv, Types
  <2> QED BY <1>1, <2>1, <2>2
<1>4. ASSUME NEW t \in Tree, Broadcast(t)
      PROVE  /\ since'[u][d] \in 0 .. announced'[u]
             /\ got'[u][d] \in Seq(1 .. announced'[u])
  <2>1. announced'[u] \in {announced[u], announced[u] + 1} /\ UNCHANGED <<since, got>>
    BY <1>1, <1>4 DEF Broadcast, IInv, Types
  <2> QED BY <1>1, <2>1
<1>5. ASSUME NEW t \in Tree, Send(t)
      PROVE  UNCHANGED <<announced, since>> /\ got'[u][d] \in Seq(1 .. announced[u])
  <2>1. PICK c \in cast[t].todo :
          /\ IF Gone(c) THEN UNCHANGED got
             ELSE got' = [got EXCEPT ![t][c] = Append(@, announced[t])]
          /\ UNCHANGED <<peer, loop, conns, announced, since>>
    BY <1>5 DEF Send
  <2>2. CASE Gone(c) \/ u # t \/ d # c
    <3>1. got'[u][d] = got[u][d]
      BY <2>1, <2>2 DEF IInv, Types
    <3> QED BY <1>1, <2>1, <3>1
  <2>3. CASE ~ Gone(c) /\ u = t /\ d = c
    <3>1. announced[u] \in 1 .. announced[u]
      BY <1>1, <2>3, Owed
    <3>2. got'[u][d] = Append(got[u][d], announced[u])
      BY <2>1, <2>3 DEF IInv, Types
    <3> QED BY <1>1, <2>1, <3>1, <3>2
  <2> QED BY <2>2, <2>3
<1> QED
  BY <1>1, <1>2, <1>3, <1>4, <1>5
     DEF Next, vars, WsEvents, Handling, Arrive, Stall, Resume, Leave, AcceptFails,
         Ping, PingReturns, Disconnect, SendReturns, Finish

\* The state keeps its shape, and the histories name only broadcasts that have
\* begun (ConnectionManager, ws_events).
THEOREM TypeCorrect == Spec => []TypeOK
<1>1. Init => Begun
  BY DEF Init, Begun
<1>2. IInv /\ Begun => TypeOK
  BY DEF IInv, Types, Cast, Begun, TypeOK
<1> QED BY <1>1, <1>2, Invariance, BegunPreserved, PTL DEF Spec

\* A browser that is there is in the set, whatever broadcasts and disconnects
\* of others did meanwhile (ConnectionManager).
THEOREM PresentRegistered == Spec => []PresentIsRegistered
<1>1. IInv => PresentIsRegistered
  BY DEF IInv, Members, PresentIsRegistered
<1> QED BY <1>1, Invariance, PTL

\* Between two broadcasts of a tree, who is there has been sent each one begun
\* since it came: a send that raises ends neither the loop nor the others.
THEOREM NoneSkipped == Spec => []NobodyIsSkipped
<1>1. IInv => NobodyIsSkipped
  <2> SUFFICES ASSUME IInv, NEW t \in Tree, NEW c \in Connection,
                      ~ cast[t].on, Registered(c), ~ Gone(c)
               PROVE  since[t][c] + Len(got[t][c]) = announced[t]
    BY DEF NobodyIsSkipped
  <2>1. c \notin cast[t].todo
    BY DEF IInv, Members
  <2>2. Joined(c)
    BY DEF Joined, Registered
  <2> QED BY <2>1, <2>2 DEF IInv, Fed
<1> QED BY <1>1, Invariance, PTL

\* The numbers a browser has been written follow each other, from the first
\* broadcast begun after it came.
Consecutive(t, c) ==
  \A i \in 1 .. Len(got[t][c]) : got[t][c][i] = since[t][c] + i

LEMMA ConsecutivePreserved ==
  IInv /\ (\A t \in Tree, c \in Connection : Consecutive(t, c)) /\ [Next]_vars
    => (\A t \in Tree, c \in Connection : Consecutive(t, c))'
<1> SUFFICES ASSUME IInv, \A t \in Tree, c \in Connection : Consecutive(t, c), [Next]_vars,
                    NEW u \in Tree, NEW d \in Connection
             PROVE  Consecutive(u, d)'
  OBVIOUS
<1>1. Consecutive(u, d)
  OBVIOUS
<1>2. ASSUME since'[u][d] = since[u][d], got'[u][d] = got[u][d]
      PROVE  Consecutive(u, d)'
  BY <1>1, <1>2 DEF Consecutive
<1>3. CASE UNCHANGED <<announced, since, got>>
  BY <1>2, <1>3
<1>4. ASSUME NEW c \in Connection, Connect(c) PROVE Consecutive(u, d)'
  <2>1. /\ got' = got /\ ~ Joined(c)
        /\ since'[u] = [since[u] EXCEPT ![c] = announced[u]]
    BY <1>4 DEF Connect, Joined
  <2>2. CASE d = c
    <3>1. got'[u][d] = <<>>
      BY <2>1, <2>2 DEF IInv, Fed
    <3> QED BY <3>1 DEF Consecutive
  <2>3. CASE d # c
    <3>1. since'[u][d] = since[u][d]
      BY <2>1, <2>3 DEF IInv, Types
    <3> QED BY <1>2, <2>1, <3>1
  <2> QED BY <2>2, <2>3
<1>5. ASSUME NEW t \in Tree, Broadcast(t) PROVE Consecutive(u, d)'
  BY <1>2, <1>5 DEF Broadcast
<1>6. ASSUME NEW t \in Tree, Send(t) PROVE Consecutive(u, d)'
  <2>1. PICK c \in cast[t].todo :
          /\ IF Gone(c) THEN UNCHANGED got
             ELSE got' = [got EXCEPT ![t][c] = Append(@, announced[t])]
          /\ UNCHANGED <<peer, loop, conns, announced, since>>
    BY <1>6 DEF Send
  <2>2. CASE Gone(c) \/ u # t \/ d # c
    <3>1. got'[u][d] = got[u][d]
      BY <2>1, <2>2 DEF IInv, Types
    <3> QED BY <1>2, <2>1, <3>1
  <2>3. CASE ~ Gone(c) /\ u = t /\ d = c
    <3>1. /\ since[u][d] + Len(got[u][d]) + 1 = announced[u]
          /\ got[u][d] \in Seq(Nat) /\ since[u][d] \in Nat /\ announced[u] \in Nat
      BY <2>3, Owed
    <3>2. got'[u][d] = Append(got[u][d], announced[u]) /\ since' = since
      BY <2>1, <2>3 DEF IInv, Types
    <3>3. Len(got'[u][d]) = Len(got[u][d]) + 1
      BY <3>1, <3>2
    <3>4. ASSUME NEW i \in 1 .. Len(got'[u][d]) PROVE got'[u][d][i] = since'[u][d] + i
      <4>1. CASE i \in 1 .. Len(got[u][d])
        BY <1>1, <3>1, <3>2, <4>1 DEF Consecutive
      <4>2. CASE i = Len(got[u][d]) + 1
        BY <3>1, <3>2, <4>2
      <4> QED BY <3>1, <3>3, <3>4, <4>1, <4>2
    <3> QED BY <3>4 DEF Consecutive
  <2> QED BY <2>2, <2>3
<1> QED
  BY <1>3, <1>4, <1>5, <1>6
     DEF Next, vars, WsEvents, Handling, Arrive, Stall, Resume, Leave, AcceptFails,
         Ping, PingReturns, Disconnect, SendReturns, Finish

\* At every moment, also in the middle of a broadcast, what a browser has been written
\* of a tree is the broadcasts since it came, each once and without a gap.
THEOREM WrittenConsecutively ==
  Spec => [](\A t \in Tree, c \in Connection : Consecutive(t, c))
<1>1. Init => \A t \in Tree, c \in Connection : Consecutive(t, c)
  BY DEF Init, Consecutive
<1> QED BY <1>1, Invariance, ConsecutivePreserved, PTL DEF Spec
-----------------------------------------------------------------------------
(***************************************************************************)
(* Each subject tree is a feed without gaps for each connection.           *)
(***************************************************************************)
\* The connections that the feed of every tree counts as joined.
In == {c \in Connection : loop[c] \in {"asleep", "pinging", "ended"}}

LEMMA FeedStarts == ASSUME NEW t \in Tree, Init PROVE Feed(t)!Init
<1>1. {c \in Connection : loop[c] \in {"asleep", "pinging", "ended"}} = {}
  BY DEF Init
<1>2. announced[t] = 0 /\ since[t] = [c \in Connection |-> 0]
      /\ got[t] = [c \in Connection |-> <<>>]
  BY DEF Init
<1> QED BY <1>1, <1>2 DEF Feed!Init

\* Who joins is new to the feed and joins at its present end.
LEMMA ConnectIsJoin ==
  ASSUME IInv, NEW t \in Tree, NEW c \in Connection, Connect(c)
  PROVE  Feed(t)!Join(c)
<1>1. c \notin In /\ In' = In \cup {c}
  BY DEF Connect, In, IInv, Types
<1>2. since'[t] = [since[t] EXCEPT ![c] = announced[t]]
  BY DEF Connect
<1>3. UNCHANGED <<announced, got>>
  BY DEF Connect
<1> QED BY <1>1, <1>2, <1>3 DEF Feed!Join, In

\* A message written to a browser is the next one of its feed.
LEMMA SendIsDelivery ==
  ASSUME IInv, NEW t \in Tree, Send(t), NEW u \in Tree
  PROVE  \/ UNCHANGED <<announced[u], In, since[u], got[u]>>
         \/ \E c \in Connection : Feed(u)!Deliver(c)
<1>1. PICK c \in cast[t].todo :
        /\ IF Gone(c) THEN UNCHANGED got
           ELSE got' = [got EXCEPT ![t][c] = Append(@, announced[t])]
        /\ UNCHANGED <<peer, loop, conns, announced, since>>
  BY DEF Send
<1>2. c \in Connection /\ UNCHANGED In
  BY <1>1 DEF IInv, Types, Cast, In
<1>3. CASE Gone(c) \/ u # t
  <2>1. got'[u] = got[u]
    BY <1>1, <1>3 DEF IInv, Types
  <2> QED BY <1>1, <1>2, <2>1
<1>4. CASE ~ Gone(c) /\ u = t
  <2>1. /\ Joined(c) /\ since[t][c] + Len(got[t][c]) + 1 = announced[t]
        /\ announced[t] \in Nat
    BY <1>4, Owed
  <2>2. c \in In
    BY <1>2, <2>1 DEF In, Joined
  <2>3. got'[t] = [got[t] EXCEPT ![c] = Append(got[t][c], announced[t])]
    BY <1>1, <1>2, <1>4 DEF IInv, Types
  <2>4. UNCHANGED <<announced[t], since[t]>>
    BY <1>1
  <2>5. Feed(t)!Deliver(c)
    BY <1>2, <2>1, <2>2, <2>3, <2>4 DEF Feed!Deliver, In
  <2> QED BY <1>2, <1>4, <2>5
<1> QED BY <1>3, <1>4

\* Every step of the broadcaster is, for each tree, a step of its feed or none.
LEMMA StepOfEachFeed ==
  ASSUME IInv, NotYet, [Next]_vars, NEW t \in Tree
  PROVE  [Feed(t)!Next]_(Feed(t)!vars)
<1>1. ASSUME UNCHANGED <<announced[t], In, since[t], got[t]>>
      PROVE  UNCHANGED Feed(t)!vars
  BY <1>1 DEF Feed!vars, In
<1>2. ASSUME NEW c \in Connection, Arrive(c) \/ Stall(c) \/ Resume(c) \/ Leave(c)
      PROVE  UNCHANGED Feed(t)!vars
  <2>1. In' = In
    BY <1>2 DEF Arrive, Stall, Resume, Leave, In, IInv, NotYet, Types
  <2> QED BY <1>1, <1>2, <2>1 DEF Arrive, Stall, Resume, Leave
<1>3. ASSUME NEW c \in Connection, WsEvents(c) PROVE [Feed(t)!Next]_(Feed(t)!vars)
  <2>1. CASE Connect(c)
    BY <2>1, ConnectIsJoin DEF Feed!Next
  <2>2. CASE AcceptFails(c) \/ Ping(c) \/ PingReturns(c)
    <3>1. In' = In
      BY <2>2 DEF AcceptFails, Ping, PingReturns, Disconnect, In, IInv, Types
    <3> QED BY <1>1, <2>2, <3>1 DEF AcceptFails, Ping, PingReturns, Disconnect
  <2> QED BY <1>3, <2>1, <2>2 DEF WsEvents
<1>4. ASSUME NEW u \in Tree, Broadcast(u) PROVE [Feed(t)!Next]_(Feed(t)!vars)
  <2>1. /\ UNCHANGED <<In, since[t], got[t]>>
        /\ announced' = [announced EXCEPT ![u] = @ + 1]
    BY <1>4 DEF Broadcast, In
  <2>2. CASE t = u
    <3>1. announced'[t] = announced[t] + 1
      BY <2>1, <2>2 DEF IInv, Types
    <3> QED BY <2>1, <3>1 DEF Feed!Next, Feed!Announce, In
  <2>3. CASE t # u
    <3>1. announced'[t] = announced[t]
      BY <2>1, <2>3 DEF IInv, Types
    <3> QED BY <1>1, <2>1, <3>1
  <2> QED BY <2>2, <2>3
<1>5. ASSUME NEW u \in Tree, Handling(u) PROVE [Feed(t)!Next]_(Feed(t)!vars)
  <2>1. CASE Send(u)
    BY <1>1, <2>1, SendIsDelivery DEF Feed!Next
  <2>2. CASE SendReturns(u) \/ Finish(u)
    BY <1>1, <2>2 DEF SendReturns, Finish, In
  <2> QED BY <1>5, <2>1, <2>2 DEF Handling
<1>6. CASE UNCHANGED vars
  BY <1>1, <1>6 DEF vars, In
<1> QED BY <1>2, <1>3, <1>4, <1>5, <1>6 DEF Next

\* A browser gets, of each subject tree, every broadcast begun since it came,
\* once and in order: ConnectionManager implements ContiguousFeed.
THEOREM ContiguousFeedImplemented == Spec => ImplementsContiguousFeed
<1>1. Init => \A t \in Tree : Feed(t)!Init
  BY FeedStarts
<1>2. IInv /\ NotYet /\ [Next]_vars => [\A t \in Tree : [Feed(t)!Next]_(Feed(t)!vars)]_vars
  BY StepOfEachFeed
<1> QED BY <1>1, <1>2, Invariance, PTL DEF Spec, ImplementsContiguousFeed
=============================================================================
