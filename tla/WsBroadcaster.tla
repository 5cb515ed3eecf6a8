---------------------------- MODULE WsBroadcaster ----------------------------
(***************************************************************************)
(* ConnectionManager of core/ws/router.py: the set of connected browsers,  *)
(* one ws_events coroutine per browser that pings it, and broadcasts that  *)
(* the handlers of the subject trees run concurrently.  Everything runs on *)
(* one event loop, so a step is what happens from one await to the next.   *)
(*                                                                         *)
(* A connection is a WebSocket object: a browser that comes back is another*)
(* one.  The caller, NotificationService._handle, is finding Broadcast: the*)
(* module models what broadcast_envelope does for whoever calls it.        *)
(***************************************************************************)
EXTENDS Naturals, Sequences, Functions

CONSTANTS
  Tree,          \* the subject trees: each has one handler that broadcasts
  Connection,    \* the connections of the model
  Slow,          \* those whose browser may stop reading
  MaxAnnounced,  \* bound of the model: the broadcasts of all trees together
  NoOne          \* not a connection

ASSUME NoOneAssumption == NoOne \notin Connection
ASSUME SlowAssumption == Slow \in SUBSET Connection
ASSUME MaxAnnouncedAssumption == MaxAnnounced \in Nat

VARIABLES
  peer,       \* per connection, the browser's end of it
  loop,       \* per connection, where its ws_events coroutine stands
  conns,      \* ConnectionManager._connections
  cast,       \* per tree, its broadcast(): copy, dead list, pending send
  announced,  \* history: how many broadcasts each tree has begun
  since,      \* history: `announced` when the connection was registered
  got         \* history: the broadcasts written to the connection, by number

vars == <<peer, loop, conns, cast, announced, since, got>>

Quiet == [on |-> FALSE, todo |-> {}, dead |-> {}, at |-> NoOne]

Gone(c) == peer[c] = "gone"
Registered(c) == loop[c] \in {"asleep", "pinging"}

Init ==
  /\ peer = [c \in Connection |-> "absent"]
  /\ loop = [c \in Connection |-> "none"]
  /\ conns = {}
  /\ cast = [t \in Tree |-> Quiet]
  /\ announced = [t \in Tree |-> 0]
  /\ since = [t \in Tree |-> [c \in Connection |-> 0]]
  /\ got = [t \in Tree |-> [c \in Connection |-> <<>>]]
-----------------------------------------------------------------------------
(* The browser's end.  A browser that does not read fills the buffers, and *)
(* a send to it waits; uvicorn's keepalive closes it when no pong comes.   *)

Arrive(c) ==
  /\ peer[c] = "absent"
  /\ peer' = [peer EXCEPT ![c] = "reading"]
  /\ loop' = [loop EXCEPT ![c] = "accepting"]
  /\ UNCHANGED <<conns, cast, announced, since, got>>

Stall(c) ==
  /\ c \in Slow
  /\ peer[c] = "reading"
  /\ peer' = [peer EXCEPT ![c] = "stalled"]
  /\ UNCHANGED <<loop, conns, cast, announced, since, got>>

Resume(c) ==
  /\ peer[c] = "stalled"
  /\ peer' = [peer EXCEPT ![c] = "reading"]
  /\ UNCHANGED <<loop, conns, cast, announced, since, got>>

Leave(c) ==
  /\ peer[c] \in {"reading", "stalled"}
  /\ peer' = [peer EXCEPT ![c] = "gone"]
  /\ UNCHANGED <<loop, conns, cast, announced, since, got>>

KeepaliveCloses(c) == peer[c] = "stalled" /\ Leave(c)
-----------------------------------------------------------------------------
(* ws_events: accept, then a ping every 30 seconds until one raises.       *)

\* A manager that counts a new browser as waiting for the last broadcast.
ConnectReplays(c) ==
  /\ loop[c] = "accepting"
  /\ loop' = [loop EXCEPT ![c] = "asleep"]
  /\ conns' = conns \cup {c}
  /\ since' = [t \in Tree |-> [since[t] EXCEPT ![c] = announced[t] - 1]]
  /\ UNCHANGED <<peer, cast, announced, got>>

\* A broadcast that iterates over the set itself, not over a copy of it.
ConnectIntoCasts(c) ==
  /\ loop[c] = "accepting"
  /\ loop' = [loop EXCEPT ![c] = "asleep"]
  /\ conns' = conns \cup {c}
  /\ since' = [t \in Tree |-> [since[t] EXCEPT ![c] = announced[t]]]
  /\ cast' = [t \in Tree |-> IF cast[t].on
                THEN [cast[t] EXCEPT !.todo = @ \cup {c}] ELSE cast[t]]
  /\ UNCHANGED <<peer, announced, got>>

\* `await ws.accept()` returns and the connection is added.
Connect(c) ==
  /\ loop[c] = "accepting"
  /\ loop' = [loop EXCEPT ![c] = "asleep"]
  /\ conns' = conns \cup {c}
  /\ since' = [t \in Tree |-> [since[t] EXCEPT ![c] = announced[t]]]
  /\ UNCHANGED <<peer, cast, announced, got>>

\* accept() raises outside the try: the connection was never in the set.
AcceptFails(c) ==
  /\ loop[c] = "accepting"
  /\ Gone(c)
  /\ loop' = [loop EXCEPT ![c] = "none"]
  /\ UNCHANGED <<peer, conns, cast, announced, since, got>>

\* A handler that ends when its ping raises, and leaves the set as it is.
DisconnectForgotten(c) ==
  /\ loop' = [loop EXCEPT ![c] = "ended"]
  /\ UNCHANGED <<peer, conns, cast, announced, since, got>>

\* The ping raised: manager.disconnect(websocket), whichever except it is.
Disconnect(c) ==
  /\ loop' = [loop EXCEPT ![c] = "ended"]
  /\ conns' = conns \ {c}
  /\ UNCHANGED <<peer, cast, announced, since, got>>

\* The sleep is over and send_text writes the ping, or raises.
Ping(c) ==
  /\ loop[c] = "asleep"
  /\ \/ /\ ~ Gone(c)
        /\ loop' = [loop EXCEPT ![c] = "pinging"]
        /\ UNCHANGED <<peer, conns, cast, announced, since, got>>
     \/ Gone(c) /\ Disconnect(c)

\* send_text of the ping returns, or raises after all.
PingReturns(c) ==
  /\ loop[c] = "pinging"
  /\ \/ /\ peer[c] = "reading"
        /\ loop' = [loop EXCEPT ![c] = "asleep"]
        /\ UNCHANGED <<peer, conns, cast, announced, since, got>>
     \/ Gone(c) /\ Disconnect(c)
-----------------------------------------------------------------------------
(* broadcast, run by the handler of a subject tree.                        *)

\* It starts with a copy of the set and an empty list of the dead.
Broadcast(t) ==
  /\ ~ cast[t].on
  /\ FoldFunction(+, 0, announced) < MaxAnnounced
  /\ announced' = [announced EXCEPT ![t] = @ + 1]
  /\ cast' = [cast EXCEPT ![t] = [Quiet EXCEPT !.on = TRUE, !.todo = conns]]
  /\ UNCHANGED <<peer, loop, conns, since, got>>

\* A broadcast whose first exception ends it.
SendAborting(t) ==
  \E c \in cast[t].todo :
    /\ cast[t].at = NoOne
    /\ IF Gone(c)
       THEN /\ cast' = [cast EXCEPT ![t].todo = {}, ![t].dead = {c}]
            /\ UNCHANGED got
       ELSE /\ cast' = [cast EXCEPT ![t].todo = @ \ {c}, ![t].at = c]
            /\ got' = [got EXCEPT ![t][c] = Append(@, announced[t])]
    /\ UNCHANGED <<peer, loop, conns, announced, since>>

\* send_text to the next of the copy writes the message, or raises.  The copy
\* of a set has some order: any connection left in it may be the next one.
Send(t) ==
  \E c \in cast[t].todo :
    /\ cast[t].at = NoOne
    /\ IF Gone(c)
       THEN /\ cast' = [cast EXCEPT ![t].todo = @ \ {c}, ![t].dead = @ \cup {c}]
            /\ UNCHANGED got
       ELSE /\ cast' = [cast EXCEPT ![t].todo = @ \ {c}, ![t].at = c]
            /\ got' = [got EXCEPT ![t][c] = Append(@, announced[t])]
    /\ UNCHANGED <<peer, loop, conns, announced, since>>

\* A broadcast that waits for a browser to read, whatever becomes of it.
SendReturnsRead(t) ==
  /\ cast[t].at # NoOne
  /\ peer[cast[t].at] = "reading"
  /\ cast' = [cast EXCEPT ![t].at = NoOne]
  /\ UNCHANGED <<peer, loop, conns, announced, since, got>>

\* The pending send_text returns, or raises when the browser has gone.
SendReturns(t) ==
  LET c == cast[t].at IN
    /\ c # NoOne
    /\ \/ /\ peer[c] = "reading"
          /\ cast' = [cast EXCEPT ![t].at = NoOne]
       \/ /\ Gone(c)
          /\ cast' = [cast EXCEPT ![t].at = NoOne, ![t].dead = @ \cup {c}]
    /\ UNCHANGED <<peer, loop, conns, announced, since, got>>

\* A broadcast that keeps who answered, and so loses who came meanwhile.
FinishReplacing(t) ==
  /\ cast[t].on /\ cast[t].todo = {} /\ cast[t].at = NoOne
  /\ cast' = [cast EXCEPT ![t] = Quiet]
  /\ conns' = {c \in conns : got[t][c] # <<>>} \ cast[t].dead
  /\ UNCHANGED <<peer, loop, announced, since, got>>

\* After the loop the dead are discarded; discard() accepts who left already.
Finish(t) ==
  /\ cast[t].on /\ cast[t].todo = {} /\ cast[t].at = NoOne
  /\ cast' = [cast EXCEPT ![t] = Quiet]
  /\ conns' = conns \ cast[t].dead
  /\ UNCHANGED <<peer, loop, announced, since, got>>
-----------------------------------------------------------------------------
Handling(t) == Send(t) \/ SendReturns(t) \/ Finish(t)
WsEvents(c) == Connect(c) \/ AcceptFails(c) \/ Ping(c) \/ PingReturns(c)

Next ==
  \/ \E c \in Connection : Arrive(c) \/ Stall(c) \/ Resume(c) \/ Leave(c)
  \/ \E c \in Connection : WsEvents(c)
  \/ \E t \in Tree : Broadcast(t)
  \/ \E t \in Tree : Handling(t)

Spec == Init /\ [][Next]_vars

\* The event loop runs what is ready, the sleep of a ping ends, and uvicorn's
\* keepalive (20 s, on by default) closes a browser that stays silent.  A
\* browser that reads a little wakes the send that waits for it, even if it
\* stalls again before the coroutine runs: hence SF.
Fairness ==
  /\ \A c \in Connection : SF_vars(WsEvents(c)) /\ WF_vars(KeepaliveCloses(c))
  /\ \A t \in Tree : SF_vars(Handling(t))

FairSpec == Spec /\ Fairness
-----------------------------------------------------------------------------
\* The state has the shape the code gives it, and nobody has been written, or
\* joined after, a broadcast that has not begun.
TypeOK ==
  /\ peer \in [Connection -> {"absent", "reading", "stalled", "gone"}]
  /\ loop \in [Connection -> {"none", "accepting", "asleep", "pinging", "ended"}]
  /\ conns \in SUBSET Connection
  /\ cast \in [Tree -> [on : BOOLEAN, todo : SUBSET Connection,
                        dead : SUBSET Connection, at : Connection \cup {NoOne}]]
  /\ announced \in [Tree -> Nat]
  /\ since \in [Tree -> [Connection -> Nat]]
  /\ got \in [Tree -> [Connection -> Seq(Nat)]]
  /\ \A t \in Tree, c \in Connection :
       since[t][c] \in 0 .. announced[t] /\ got[t][c] \in Seq(1 .. announced[t])

\* A browser that was accepted and is still there is in the set, whatever
\* broadcasts and disconnects go on around it: no broadcast removes a
\* connection that came after its copy or that only another one found dead.
PresentIsRegistered ==
  \A c \in Connection : (Registered(c) /\ ~ Gone(c)) => c \in conns

\* When no broadcast of a tree is running, every browser that is still there
\* has been sent each broadcast begun since it came, in spite of the others
\* that raised or left during them.
NobodyIsSkipped ==
  \A t \in Tree, c \in Connection :
    (~ cast[t].on /\ Registered(c) /\ ~ Gone(c)) =>
      since[t][c] + Len(got[t][c]) = announced[t]

\* The stream of each subject tree at each browser has no gap, no repetition
\* and no message older than its connection (\A t \in Tree : Feed(t)!Spec,
\* in the form TLC evaluates).
Feed(t) == INSTANCE ContiguousFeed
  WITH announced <- announced[t], since <- since[t], got <- got[t],
       joined <- {c \in Connection : loop[c] \in {"asleep", "pinging", "ended"}}
ImplementsContiguousFeed ==
  /\ \A t \in Tree : Feed(t)!Init
  /\ [][\A t \in Tree : [Feed(t)!Next]_(Feed(t)!vars)]_vars

\* A browser that has gone leaves the set, even if nothing is broadcast.
GoneLeavesTheSet == \A c \in Connection : Gone(c) ~> (Gone(c) /\ c \notin conns)

\* A broadcast ends, and its handler can take the next message of its tree,
\* even when a browser stops reading in the middle of it.
BroadcastEnds == \A t \in Tree : cast[t].on ~> ~ cast[t].on
=============================================================================
