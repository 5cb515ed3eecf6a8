------------------------- MODULE NotificationService -------------------------
(***************************************************************************)
(* NotificationService (core/notifications/service.py): the one consumer   *)
(* of the event bus.  It holds a core NATS subscription for each of three  *)
(* subject trees and hands every message to _handle, which writes the      *)
(* envelope to a storage backend and then should announce it to the        *)
(* connected browsers.                                                     *)
(*                                                                         *)
(* nats.py runs one task for a subscription: it takes a message off the    *)
(* subscription's pending queue, awaits the callback, takes the next.  So  *)
(* each subject tree has at most one message in a handler, and the three   *)
(* handlers interleave at their awaits.  The subscriptions are plain ones, *)
(* not JetStream consumers: nothing is acknowledged and nothing is sent    *)
(* again.                                                                  *)
(*                                                                         *)
(* A message is named by its offset in `log`, the order in which the NATS  *)
(* server took the messages of its subject tree.                           *)
(*                                                                         *)
(* A write is a request to a database.  When its client gives up on the    *)
(* answer the handler goes on with the next message, and the database may  *)
(* still carry out the request, at any later time or never (`overdue`).    *)
(***************************************************************************)
EXTENDS Naturals, Sequences

CONSTANTS
  Message,       \* what can be published
  Malformed,     \* the messages _handle cannot parse as a MessageEnvelope
  Unwritable,    \* those that parse and whose write raises, whenever it is tried
  QueueLimit,    \* messages nats.py keeps pending for a subscription
  Disruptions,   \* which of "crash", "stop", "link", "write" may happen
  MaxLog         \* bound of the model: messages published altogether

ASSUME QueueLimitAssumption == QueueLimit \in Nat \ {0}
ASSUME MaxLogAssumption == MaxLog \in Nat
ASSUME MalformedAssumption == Malformed \subseteq Message
ASSUME UnwritableAssumption == Unwritable \subseteq Message

VARIABLES
  phase,       \* of the process: "down", "starting", "serving", "stopping"
  subs,        \* the subject trees NATS has a subscription for
  log,         \* per subject tree: every message the server took, in order
  queue,       \* per subscription: offsets delivered and not yet handled
  cur,         \* per subscription: the offset its handler is writing, or 0
  stored,      \* per subject tree: offsets a backend accepted, in order
  lost,        \* per subject tree: offsets that will never be stored
  overdue,     \* per subject tree: offsets whose write was given up on
  announced    \* per subject tree: offsets broadcast to the browsers

life     == <<phase, subs>>
outcome  == <<stored, lost, overdue, announced>>
vars     == <<phase, subs, log, queue, cur, stored, lost, overdue, announced>>

\* _SUBJECTS: "fcaps.done.>", "fcaps.ingest.>", "fcaps.simulated.>".
Subjects == <<"done", "ingest", "simulated">>

Subject == {"done", "ingest", "simulated"}

\* The loops of start() and stop() follow the order of the list.
FirstOf(S) ==
  Subjects[CHOOSE i \in 1 .. 3 :
             /\ Subjects[i] \in S
             /\ \A j \in 1 .. i - 1 : Subjects[j] \notin S]

Disrupted(kind) == kind \in Disruptions

Published == Len(log["done"]) + Len(log["ingest"]) + Len(log["simulated"])

Image(q) == {q[i] : i \in DOMAIN q}

-----------------------------------------------------------------------------
(* The process around the service: the lifespan of core/app.py.           *)

Init ==
  /\ phase = "down"
  /\ subs = {}
  /\ log = [s \in Subject |-> <<>>]
  /\ queue = [s \in Subject |-> <<>>]
  /\ cur = [s \in Subject |-> 0]
  /\ stored = [s \in Subject |-> <<>>]
  /\ lost = [s \in Subject |-> {}]
  /\ overdue = [s \in Subject |-> {}]
  /\ announced = [s \in Subject |-> {}]

\* The container starts, or restarts ("restart: unless-stopped").
Boot ==
  /\ phase = "down"
  /\ phase' = "starting"
  /\ UNCHANGED <<subs, log, queue, cur, outcome>>

\* One round of the loop of start(), which awaits subscribe().
Subscribe(s) ==
  /\ phase = "starting"
  /\ subs # Subject
  /\ s = FirstOf(Subject \ subs)
  /\ subs' = subs \cup {s}
  /\ UNCHANGED <<phase, log, queue, cur, outcome>>

\* lifespan yields: uvicorn begins to serve requests.
Serve ==
  /\ phase = "starting"
  /\ subs = Subject
  /\ phase' = "serving"
  /\ UNCHANGED <<subs, log, queue, cur, outcome>>

\* SIGTERM: uvicorn has no request left and resumes lifespan after its yield.
Stop ==
  /\ Disrupted("stop")
  /\ phase = "serving"
  /\ phase' = "stopping"
  /\ UNCHANGED <<subs, log, queue, cur, outcome>>

\* What becomes of the messages a set S of subscriptions holds when their
\* tasks are cancelled or the process dies.  Nobody waits any more for a write
\* in flight; what is pending is gone, because nothing will deliver it again.
Abandon(S) ==
  /\ overdue' = [s \in Subject |->
       IF s \in S THEN overdue[s] \cup ({cur[s]} \ {0}) ELSE overdue[s]]
  /\ lost' = [s \in Subject |->
       IF s \in S THEN lost[s] \cup Image(queue[s]) ELSE lost[s]]
  /\ queue' = [s \in Subject |-> IF s \in S THEN <<>> ELSE queue[s]]
  /\ cur' = [s \in Subject |-> IF s \in S THEN 0 ELSE cur[s]]
  /\ subs' = subs \ S

\* A faulty stop(): it drops the subscription and leaves its task running.
UnsubscribeKeepsTask(s) ==
  /\ phase = "stopping"
  /\ subs # {}
  /\ s = FirstOf(subs)
  /\ subs' = subs \ {s}
  /\ queue' = [queue EXCEPT ![s] = <<>>]
  /\ UNCHANGED <<phase, log, cur, outcome>>

\* One round of the loop of stop(): unsubscribe() without a limit cancels the
\* subscription's task, handler included, and forgets its pending queue.
Unsubscribe(s) ==
  /\ phase = "stopping"
  /\ subs # {}
  /\ s = FirstOf(subs)
  /\ Abandon({s})
  /\ UNCHANGED <<phase, log, stored, announced>>

\* redis.aclose(), nats.drain(), end of the process.
Shutdown ==
  /\ phase = "stopping"
  /\ subs = {}
  /\ phase' = "down"
  /\ UNCHANGED <<subs, log, queue, cur, outcome>>

\* The process is killed, in whichever phase it is.
Crash ==
  /\ Disrupted("crash")
  /\ phase # "down"
  /\ phase' = "down"
  /\ Abandon(Subject)
  /\ UNCHANGED <<log, stored, announced>>
-----------------------------------------------------------------------------
(* The NATS server takes a message published on subject tree s and sends  *)
(* it to the subscription, if there is one and the connection holds.  The *)
(* client drops what its pending queue has no room for.                   *)

Arrive(s, m, connected) ==
  /\ Published < MaxLog
  /\ connected \/ Disrupted("link")
  /\ log' = [log EXCEPT ![s] = Append(@, m)]
  /\ LET o == Len(log[s]) + 1 IN
       IF s \in subs /\ connected /\ Len(queue[s]) < QueueLimit
       THEN queue' = [queue EXCEPT ![s] = Append(@, o)] /\ UNCHANGED lost
       ELSE lost' = [lost EXCEPT ![s] = @ \cup {o}] /\ UNCHANGED queue
  /\ UNCHANGED <<life, cur, stored, overdue, announced>>
-----------------------------------------------------------------------------
(* _handle, one invocation for each message.                              *)

Idle(s) == s \in subs /\ cur[s] = 0 /\ queue[s] # <<>>

HeadMessage(s) == log[s][Head(queue[s])]

\* A subscription that fetched its messages without waiting for the callback.
TakeUnordered(s) ==
  /\ s \in subs /\ cur[s] = 0
  /\ \E i \in DOMAIN queue[s] :
       /\ log[s][queue[s][i]] \notin Malformed
       /\ cur' = [cur EXCEPT ![s] = queue[s][i]]
       /\ queue' = [queue EXCEPT ![s] =
            SubSeq(@, 1, i - 1) \o SubSeq(@, i + 1, Len(@))]
  /\ UNCHANGED <<life, log, outcome>>

\* The message parses: the handler awaits write_pm, write_fm or write_log.
Take(s) ==
  /\ Idle(s)
  /\ HeadMessage(s) \notin Malformed
  /\ cur' = [cur EXCEPT ![s] = Head(queue[s])]
  /\ queue' = [queue EXCEPT ![s] = Tail(@)]
  /\ UNCHANGED <<life, log, outcome>>

\* A handler that tries again what it cannot parse before it takes the next.
RejectRetried(s) ==
  /\ Idle(s)
  /\ HeadMessage(s) \in Malformed
  /\ UNCHANGED vars

\* json.loads or model_validate raises: logged, and the message is dropped.
Reject(s) ==
  /\ Idle(s)
  /\ HeadMessage(s) \in Malformed
  /\ queue' = [queue EXCEPT ![s] = Tail(@)]
  /\ lost' = [lost EXCEPT ![s] = @ \cup {Head(queue[s])}]
  /\ UNCHANGED <<life, log, cur, stored, overdue, announced>>

\* TrishulBaseModel sets use_enum_values: a validated envelope carries its
\* domain as a plain str, which has no attribute `value`.
UseEnumValues == TRUE

\* What a backend can store at all.
Writable(s, o) == log[s][o] \notin Unwritable

\* A record of what was stored that holds the message and not its offset.
WriteDoneByValue(s) ==
  /\ cur[s] # 0
  /\ Writable(s, cur[s])
  /\ stored' = [stored EXCEPT ![s] = Append(@, log[s][cur[s]])]
  /\ cur' = [cur EXCEPT ![s] = 0]
  /\ UNCHANGED <<life, log, queue, lost, overdue, announced>>

\* The backend accepted the write.  The next statement evaluates
\* envelope.domain.value for the log line; when that raises, the handler ends
\* there and the broadcast after it is skipped.
WriteDone(s) ==
  /\ cur[s] # 0
  /\ Writable(s, cur[s])
  /\ stored' = [stored EXCEPT ![s] = Append(@, cur[s])]
  /\ announced' = IF UseEnumValues THEN announced
                  ELSE [announced EXCEPT ![s] = @ \cup {cur[s]}]
  /\ cur' = [cur EXCEPT ![s] = 0]
  /\ UNCHANGED <<life, log, queue, lost, overdue>>

\* The write raises and nothing was written: float() of the value does, or the
\* backend refuses the line, fails, or cannot be reached.  The exception is
\* logged and the message is not tried again.
WriteFails(s) ==
  /\ cur[s] # 0
  /\ Disrupted("write") \/ ~Writable(s, cur[s])
  /\ lost' = [lost EXCEPT ![s] = @ \cup {cur[s]}]
  /\ cur' = [cur EXCEPT ![s] = 0]
  /\ UNCHANGED <<life, log, queue, stored, overdue, announced>>

\* A handler that puts a message whose write timed out back on the queue.
WriteTimesOutRequeued(s) ==
  /\ Disrupted("write")
  /\ cur[s] # 0
  /\ overdue' = [overdue EXCEPT ![s] = @ \cup {cur[s]}]
  /\ queue' = [queue EXCEPT ![s] = Append(@, cur[s])]
  /\ cur' = [cur EXCEPT ![s] = 0]
  /\ UNCHANGED <<life, log, stored, lost, announced>>

\* The client's timeout: the write raises, is logged and not tried again, and
\* the backend may have the request.
WriteTimesOut(s) ==
  /\ Disrupted("write")
  /\ cur[s] # 0
  /\ overdue' = [overdue EXCEPT ![s] = @ \cup {cur[s]}]
  /\ cur' = [cur EXCEPT ![s] = 0]
  /\ UNCHANGED <<life, log, queue, stored, lost, announced>>
-----------------------------------------------------------------------------
(* The backend carries out a write that nobody waits for any more.        *)

Settled(s) == Image(stored[s]) \cup lost[s]

\* The writes given up on that have not been carried out.
Late(s) == overdue[s] \ Settled(s)

LateWrite(s) ==
  /\ \E o \in Late(s) :
       /\ Writable(s, o)
       /\ stored' = [stored EXCEPT ![s] = Append(@, o)]
  /\ UNCHANGED <<life, log, queue, cur, lost, overdue, announced>>
-----------------------------------------------------------------------------
Handler(s) ==
  \/ Take(s)
  \/ Reject(s)
  \/ WriteDone(s)
  \/ WriteFails(s)
  \/ WriteTimesOut(s)

Lifecycle ==
  \/ Boot
  \/ \E s \in Subject : Subscribe(s)
  \/ Serve
  \/ Stop
  \/ \E s \in Subject : Unsubscribe(s)
  \/ Shutdown
  \/ Crash

Next ==
  \/ Lifecycle
  \/ \E s \in Subject, m \in Message, connected \in BOOLEAN : Arrive(s, m, connected)
  \/ \E s \in Subject : Handler(s)
  \/ \E s \in Subject : LateWrite(s)

Spec == Init /\ [][Next]_vars

\* The event loop runs every ready task, and both storage clients time out a
\* write, so a handler that can move does.
FairSpec == Spec /\ \A s \in Subject : WF_vars(Handler(s))
-----------------------------------------------------------------------------
(* Properties.                                                            *)

Phase == {"down", "starting", "serving", "stopping"}

\* The state has the shape the code gives it.
TypeOK ==
  /\ phase \in Phase
  /\ subs \in SUBSET Subject
  /\ log \in [Subject -> Seq(Message)]
  /\ queue \in [Subject -> Seq(Nat)]
  /\ cur \in [Subject -> Nat]
  /\ stored \in [Subject -> Seq(Nat)]
  /\ lost \in [Subject -> SUBSET Nat]
  /\ overdue \in [Subject -> SUBSET Nat]
  /\ announced \in [Subject -> SUBSET Nat]

\* No message is forgotten or counted twice: whatever _handle, stop(), a crash,
\* an overflow or a timeout did, each message the server took is in exactly one
\* place, stored, lost, pending, in a handler or given up on.
Pending(s)  == Image(queue[s])
Handled(s)  == {cur[s]} \ {0}

Accounted ==
  \A s \in Subject :
    /\ 1 .. Len(log[s]) = Settled(s) \cup Pending(s) \cup Handled(s) \cup Late(s)
    /\ Image(stored[s]) \cap lost[s] = {}
    /\ (Settled(s) \cup Late(s)) \cap (Pending(s) \cup Handled(s)) = {}
    /\ Pending(s) \cap Handled(s) = {}

\* The envelopes of a subject tree reach the stores in the order in which the
\* server took them, and none twice, across failed writes, stops and restarts.
\* The one exception is a write that was given up on: it may come after later
\* ones, and never before an earlier one that was not given up on itself.
Ordered(q, late) ==
  \A i, j \in DOMAIN q : i < j => q[i] < q[j] \/ (q[j] < q[i] /\ q[j] \in late)

OnlyOverdueOvertaken == \A s \in Subject : Ordered(stored[s], overdue[s])

\* A subscription that is gone has no message pending and no handler running:
\* after stop() nothing of the process writes to a store, but for the requests
\* it had sent, and a restarted one does not find work of the one before it.
NoWorkWithoutSubscription ==
  \A s \in Subject \ subs : queue[s] = <<>> /\ cur[s] = 0

\* Each subject tree behaves as a channel that loses messages and delays some,
\* and only that (\A s \in Subject : Fifo(s)!Spec, in the form TLC evaluates).
Fifo(s) ==
  INSTANCE LossyFifo WITH log <- log[s], stored <- stored[s], overdue <- overdue[s]

channels == <<log, stored, overdue>>

ImplementsLossyFifo ==
  /\ \A s \in Subject : Fifo(s)!Init
  /\ [][\A s \in Subject :
          [Fifo(s)!Next]_<<log[s], stored[s], overdue[s]>>]_channels

\* The service is in the end done with every message the server took: it is
\* stored, lost or given up on, and no message it cannot parse or write keeps
\* those behind it from the store.
EveryMessageSettles ==
  \A s \in Subject, o \in 1 .. MaxLog :
    (o <= Len(log[s])) ~> (o \in Settled(s) \cup overdue[s])

\* The docstring of NotificationService: it dispatches to the storage writers
\* and to the "WebSocket broadcaster -> connected browsers".  So a handler
\* whose write succeeded announces the envelope it wrote.
StoredIsAnnounced ==
  [][\A s \in Subject :
       WriteDone(s) => announced'[s] = announced[s] \cup {cur[s]}]_vars
=============================================================================
