------------------------------- MODULE ShellWs -------------------------------
(***************************************************************************)
(* The live feed of the shell (ui/shell/src): ShellLayout starts the       *)
(* WebSocket client of ws/client.ts when a user is logged in and stops it  *)
(* when the user logs out; a connection that ends is tried again up to     *)
(* MAX_RECONNECT times; its events go to the store of store/events.ts.     *)
(* The callbacks of a socket outlive its being stopped, so an old socket   *)
(* and the one `ws` names now act on the same three variables.             *)
(***************************************************************************)
EXTENDS Naturals, Sequences, FiniteSets

CONSTANTS
  Socket,        \* WebSocket objects; one that is CLOSED may serve as a new one
  MAX_RECONNECT, \* 10 in client.ts
  MAX_EVENTS,    \* 200 in events.ts
  MaxAnnounced,  \* bound: envelopes broadcast
  Null           \* no socket

ASSUME ConstantsAssumption ==
  /\ IsFiniteSet(Socket) /\ Socket # {} /\ Null \notin Socket
  /\ MAX_RECONNECT \in Nat \ {0} /\ MAX_EVENTS \in Nat \ {0} /\ MaxAnnounced \in Nat

VARIABLES
  shell,           \* ShellLayout is mounted, with a token
  up,              \* core-api can be reached
  ready,           \* readyState per socket; "aborting": closed before it was open
  ws,              \* the variable of client.ts
  reconnects,
  reconnectTimer,  \* the timer the variable names is pending
  loose,           \* pending timers no variable names any more
  announced,       \* envelopes broadcast so far
  events,          \* the store: what is shown, the newest first
  unread,
  paused

client == <<ready, ws, reconnects, reconnectTimer, loose>>
store == <<events, unread, paused>>
vars == <<shell, up, client, announced, store>>

Live(s) == ready[s] \in {"connecting", "open"}
Busy == {s \in Socket : ready[s] # "closed"}
Timers == loose + (IF reconnectTimer THEN 1 ELSE 0)

Init ==
  /\ shell = FALSE /\ up = TRUE
  /\ ready = [s \in Socket |-> "closed"]
  /\ ws = Null /\ reconnects = 0
  /\ reconnectTimer = FALSE /\ loose = 0
  /\ announced = 0
  /\ events = <<>> /\ unread = 0 /\ paused = FALSE
-----------------------------------------------------------------------------
(* ws/client.ts                                                           *)

Fresh == CHOOSE s \in Socket : ready[s] = "closed"
NewSocket ==
  /\ \E s \in Socket : ready[s] = "closed"
  /\ ws' = Fresh /\ ready' = [ready EXCEPT ![Fresh] = "connecting"]

\* A connect that does not look at `ws`.
ConnectUnguarded == NewSocket

\* A connect that returns as soon as there has been a socket.
ConnectOnce == IF ws # Null THEN UNCHANGED <<ws, ready>> ELSE NewSocket

connect == IF ws # Null /\ Live(ws) THEN UNCHANGED <<ws, ready>> ELSE NewSocket

\* close() on a socket: that of one that is not yet open fails its connection.
Close(r, s) ==
  IF s = Null THEN r
  ELSE [r EXCEPT ![s] = CASE @ = "connecting" -> "aborting"
                          [] @ = "open" -> "closing"
                          [] OTHER -> @]

\* startWebSocket, after a login or with the token of an earlier visit.  All other
\* steps spend a timer for a socket or a socket for a timer; the guard bounds how
\* often a user comes back before the traces of the last visit are gone, and so
\* leaves every timer a socket.
startWebSocket ==
  /\ ~shell /\ Cardinality(Busy) + Timers < Cardinality(Socket)
  /\ shell' = TRUE
  /\ connect
  /\ UNCHANGED <<up, reconnects, reconnectTimer, loose, announced, store>>

\* logout unmounts ShellLayout, whose effect is cleaned up.
stopWebSocket ==
  /\ shell
  /\ shell' = FALSE
  /\ reconnectTimer' = FALSE
  /\ ready' = Close(ready, ws) /\ ws' = Null
  /\ UNCHANGED <<up, reconnects, loose, announced, store>>

onopen(s) ==
  /\ up /\ ready[s] = "connecting"
  /\ ready' = [ready EXCEPT ![s] = "open"]
  /\ reconnects' = 0
  /\ UNCHANGED <<shell, up, ws, reconnectTimer, loose, announced, store>>

\* How a connection may end: an attempt that fails or is aborted ends in an error,
\* an open or closing one ends cleanly or, while the server cannot be reached, in
\* an error.
MayEnd(s, error) ==
  CASE ready[s] = "closed"     -> FALSE
    [] ready[s] = "connecting" -> ~up /\ error
    [] ready[s] = "aborting"   -> error
    [] ready[s] = "open"       -> ~up
    [] ready[s] = "closing"    -> error => ~up

\* The browser runs onerror, if there was an error, and onclose in one task.
\* onerror closes the socket that `ws` names, be it s or not.
onerror(s, error) ==
  LET r == [ready EXCEPT ![s] = "closed"]
  IN  ready' = IF error THEN Close(r, ws) ELSE r

Retry ==
  /\ reconnects' = reconnects + 1
  /\ reconnectTimer' = TRUE
  /\ loose' = Timers

\* An onclose that retries only after a connection that ended cleanly.
oncloseCleanly(s, error) ==
  /\ MayEnd(s, error) /\ onerror(s, error)
  /\ IF reconnects < MAX_RECONNECT /\ ~error THEN Retry
     ELSE UNCHANGED <<reconnects, reconnectTimer, loose>>
  /\ UNCHANGED <<shell, up, ws, announced, store>>

onclose(s, error) ==
  /\ MayEnd(s, error) /\ onerror(s, error)
  /\ IF reconnects < MAX_RECONNECT THEN Retry
     ELSE UNCHANGED <<reconnects, reconnectTimer, loose>>
  /\ UNCHANGED <<shell, up, ws, announced, store>>

\* setTimeout(connect, delay): at any moment after, also between the close() of a
\* socket and its events.
TimerFires ==
  /\ \/ reconnectTimer /\ reconnectTimer' = FALSE /\ UNCHANGED loose
     \/ loose > 0 /\ loose' = loose - 1 /\ UNCHANGED reconnectTimer
  /\ connect
  /\ UNCHANGED <<shell, up, reconnects, announced, store>>
-----------------------------------------------------------------------------
(* store/events.ts and the world around.                                  *)

Take(q, n) == SubSeq(q, 1, IF Len(q) < n THEN Len(q) ELSE n)

\* A push that appends.
PushAppended(new) == Take(events \o new, MAX_EVENTS)

Push(new) == Take(new \o events, MAX_EVENTS)

\* onmessage of every open socket: core-api sends each envelope once to each.
Announce ==
  /\ up /\ announced < MaxAnnounced
  /\ announced' = announced + 1
  /\ LET new == [i \in 1 .. Cardinality({s \in Socket : ready[s] = "open"}) |-> announced']
     IN  IF paused THEN UNCHANGED <<events, unread>>
         ELSE events' = Push(new) /\ unread' = unread + Len(new)
  /\ UNCHANGED <<shell, up, client, paused>>

markRead ==
  /\ shell /\ unread' = 0
  /\ UNCHANGED <<shell, up, client, announced, events, paused>>

setPaused ==
  /\ shell /\ paused' = ~paused
  /\ UNCHANGED <<shell, up, client, announced, events, unread>>

\* A clear that leaves the badge.
clearEvents ==
  /\ shell /\ events' = <<>>
  /\ UNCHANGED <<shell, up, client, announced, unread, paused>>

clear ==
  /\ shell /\ events' = <<>> /\ unread' = 0
  /\ UNCHANGED <<shell, up, client, announced, paused>>

\* core-api, nginx or the network between goes down or comes back.
ServerChanges ==
  /\ up' = ~up
  /\ UNCHANGED <<shell, client, announced, store>>

Ends(s) == \E error \in BOOLEAN : onclose(s, error)

Next ==
  \/ startWebSocket \/ stopWebSocket
  \/ \E s \in Socket : onopen(s) \/ Ends(s)
  \/ TimerFires
  \/ Announce \/ markRead \/ setPaused \/ clear
  \/ ServerChanges

\* The browser runs the callbacks of sockets and timers.
Fairness ==
  /\ \A s \in Socket : WF_vars(onopen(s)) /\ WF_vars(Ends(s))
  /\ WF_vars(TimerFires)

Spec == Init /\ [][Next]_vars /\ Fairness
-----------------------------------------------------------------------------
(* Properties.                                                            *)

\* The type invariant.  The badge counts more than the list holds only when the
\* list has overflowed.
TypeOK ==
  /\ shell \in BOOLEAN /\ up \in BOOLEAN /\ paused \in BOOLEAN
  /\ ready \in [Socket -> {"closed", "connecting", "open", "closing", "aborting"}]
  /\ ws \in Socket \cup {Null}
  /\ reconnects \in 0 .. MAX_RECONNECT
  /\ reconnectTimer \in BOOLEAN /\ loose \in Nat
  /\ announced \in 0 .. MaxAnnounced
  /\ Len(events) <= MAX_EVENTS
  /\ unread > Len(events) => Len(events) = MAX_EVENTS

\* However logins, logouts, errors of old sockets and late timers interleave, the
\* shell never has two connections (client.ts:12), and the one that is alive is the
\* one stopWebSocket would close.
OneLiveSocket == \A s \in Socket : Live(s) => s = ws

\* A shell that is mounted and has attempts left is connected, or an attempt is on
\* its way: no order of closes and timers makes the client forget that it is down
\* (client.ts:51-57).
NeverSilentlyDown ==
  shell /\ reconnects < MAX_RECONNECT =>
    \/ Timers > 0
    \/ ws # Null /\ ready[ws] # "closed"

\* The list shows each envelope once, the newest first, through every reconnection
\* (events.ts:33-37): a second connection would show what comes twice.
ShownNewestFirst ==
  \A i \in 1 .. Len(events) - 1 : events[i] > events[i + 1]

\* Once the server stays up, a shell that stays mounted is in the end connected for
\* good, unless MAX_RECONNECT attempts in a row had failed before.
ComesBack ==
  <>[](shell /\ up) =>
    <>[](\/ ws # Null /\ ready[ws] = "open"
         \/ reconnects = MAX_RECONNECT)
=============================================================================
