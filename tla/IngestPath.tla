----------------------------- MODULE IngestPath -----------------------------
(***************************************************************************)
(* The whole path of an event through core-api: an HTTP handler of a       *)
(* plugin (receive, simulate) or of the transformer (transform/run) makes  *)
(* envelopes and publishes them with js.publish, which waits for the       *)
(* acknowledgement of JetStream; the NATS server stores each message in    *)
(* its stream, acknowledges it and sends it to the core subscription of    *)
(* NotificationService, which writes it to a store.                        *)
(*                                                                         *)
(* One event loop runs the handlers, so a step below is what happens from  *)
(* one await to the next.  Publishers and subscriptions share one NATS     *)
(* connection: `wire` holds what was published on it and not yet read by   *)
(* the server.  nats.py keeps it across a lost connection and sends it     *)
(* after the reconnect, even when the publisher stopped waiting.           *)
(***************************************************************************)
EXTENDS Naturals, Sequences

CONSTANTS
  Requests,      \* the HTTP requests of the model
  MaxBatch,      \* bound of the model: the largest `count` of a simulate
  QueueLimit,    \* as in NotificationService
  MaxLog,        \* as in NotificationService: Requests times MaxBatch suffice
  Disruptions    \* as in NotificationService, and "stream", "redis"

ASSUME MaxBatchAssumption == MaxBatch \in Nat \ {0}
ASSUME QueueLimitAssumption == QueueLimit \in Nat \ {0}
ASSUME MaxLogAssumption == MaxLog \in Nat

VARIABLES
  phase, subs, log, queue, cur, stored, lost, overdue, announced,  \* the service
  req,           \* per request: what it asked for and where its handler is
  keys,          \* the envelopes with a dedup:{envelope_id} key in Redis
  wire,          \* messages on the way to the NATS server
  kept,          \* envelopes JetStream stored in the stream of their subject
  acked          \* envelopes whose acknowledgement JetStream has sent

\* An envelope is named by its request and its place in the batch: uuid4()
\* gives each a fresh id.
Envelope == Requests \X (1 .. MaxBatch)

\* What is in the bytes of a message: an envelope, one that no store can write
\* (a PM value that is no number, a source_ne InfluxDB cannot parse), or
\* something that is not the JSON of a MessageEnvelope.
Kind == {"envelope", "unwritable", "foreign"}

Delivery == [env : Envelope, kind : Kind]

OfKind(kind) == {m \in Delivery : m.kind = kind}

Service ==
  INSTANCE NotificationService
  WITH Message <- Delivery,
       Malformed <- OfKind("foreign"), Unwritable <- OfKind("unwritable")

\* The trees of subjects a request can publish on: those NotificationService
\* subscribes to, fcaps.process.> (a stream nobody subscribes to) and all else.
Tree == Service!Subject \cup {"process", "elsewhere"}

\* provision_streams: JetStream has a stream for each tree but "elsewhere".
Streamed == Tree \ {"elsewhere"}

intake      == <<req, keys, wire, kept, acked>>
serviceVars == <<phase, subs, log, queue, cur, stored, lost, overdue, announced>>
vars        == <<serviceVars, intake>>
-----------------------------------------------------------------------------
(* The handlers, as far as the path can tell them apart: the subject trees *)
(* they may publish on, whether they look at the dedup key first, whether  *)
(* they publish a batch, and whether the bytes they publish may be         *)
(* something else than an envelope.                                        *)

Receive(dedup) == [trees |-> {"ingest"}, dedup |-> dedup, batch |-> FALSE,
                   foreign |-> FALSE]
Simulate == [trees |-> {"simulated"}, dedup |-> FALSE, batch |-> TRUE,
             foreign |-> FALSE]

WebhookReceive   == Receive(TRUE)
SnmpReceive      == Receive(FALSE)
VesReceive       == Receive(FALSE)
AvroReceive      == Receive(FALSE)
ProtobufReceive  == Receive(FALSE)
SftpReceive      == Receive(FALSE)
WebhookSimulate  == Simulate
SnmpSimulate     == Simulate
VesSimulate      == Simulate
AvroSimulate     == Simulate
ProtobufSimulate == Simulate
SftpSimulate     == Simulate

\* transform/run with the NATS writer: the request's sink_config names any
\* subject (fcaps.done.nats when it names none), and its encoder may produce
\* CSV, XML or protobuf bytes.
TransformRun == [trees |-> Tree, dedup |-> FALSE, batch |-> FALSE,
                 foreign |-> TRUE]

Endpoint ==
  {WebhookReceive, SnmpReceive, VesReceive, AvroReceive, ProtobufReceive,
   SftpReceive, WebhookSimulate, SnmpSimulate, VesSimulate, AvroSimulate,
   ProtobufSimulate, SftpSimulate, TransformRun}

\* What a request carries: data that decodes and normalises to an envelope,
\* whether a store can write it or not, data that is refused on the way (an
\* unknown domain or severity), or data that TransformRun publishes in a form
\* no envelope can be read from.
Content(ep) ==
  {"envelope", "unwritable", "refused"} \cup (IF ep.foreign THEN {"foreign"} ELSE {})

Busy     == {"exists", "setex", "publish", "await"}
Answered == {"accepted", "duplicate", "failed"}

Request == [pc : {"idle"} \cup Busy \cup Answered, ep : Endpoint, tree : Tree,
            size : 0 .. MaxBatch, sent : 0 .. MaxBatch,
            content : Kind \cup {"refused"}, event : Requests]

\* The envelope the handler of r is working on, and what it publishes of it.
Current(r) == <<r, req[r].sent + 1>>

Packet(r, env) ==
  [subject |-> req[r].tree, msg |-> [env |-> env, kind |-> req[r].content]]

Moves(r, pc) == req' = [req EXCEPT ![r].pc = pc]

Init ==
  /\ Service!Init
  /\ req = [r \in Requests |-> [pc |-> "idle", ep |-> SnmpReceive,
              tree |-> "ingest", size |-> 0, sent |-> 0, content |-> "envelope", event |-> r]]
  /\ keys = {}
  /\ wire = <<>>
  /\ kept = {}
  /\ acked = {}
-----------------------------------------------------------------------------
(* The HTTP handlers.                                                     *)

\* A request arrives.  It reports an event of its own, or, when a client tries
\* again, the event of a request that failed.
Arrives(r, ep, tree, size, content) ==
  /\ phase = "serving"
  /\ req[r].pc = "idle"
  /\ size = 1 \/ ep.batch
  /\ \E event \in {r} \cup {req[q].event : q \in {p \in Requests :
                       req[p].pc = "failed" /\ req[p].ep = ep}} :
       req' = [req EXCEPT ![r] =
         [pc |-> IF ep.dedup THEN "exists"
                 ELSE IF size = 0 THEN "accepted" ELSE "publish",
          ep |-> ep, tree |-> tree, size |-> size, sent |-> 0,
          content |-> content, event |-> event]]
  /\ UNCHANGED <<keys, wire, kept, acked, serviceVars>>

\* `await redis.exists(dedup_key)`: the handler skips what has a key.
DedupExists(r) ==
  /\ req[r].pc = "exists"
  /\ Moves(r, IF Current(r) \in keys THEN "duplicate" ELSE "setex")
  /\ UNCHANGED <<keys, wire, kept, acked, serviceVars>>

\* `await redis.setex(dedup_key, 900, "processing")`.
DedupSet(r) ==
  /\ req[r].pc = "setex"
  /\ Moves(r, "publish")
  /\ keys' = keys \cup {Current(r)}
  /\ UNCHANGED <<wire, kept, acked, serviceVars>>

\* Redis raises; a SETEX may have been carried out all the same.
DedupFails(r) ==
  /\ Service!Disrupted("redis")
  /\ req[r].pc \in {"exists", "setex"}
  /\ Moves(r, "failed")
  /\ \/ UNCHANGED keys
     \/ req[r].pc = "setex" /\ keys' = keys \cup {Current(r)}
  /\ UNCHANGED <<wire, kept, acked, serviceVars>>

\* The key expires after 900 seconds, or Redis evicts it.
DedupForgets(e) ==
  /\ e \in keys
  /\ keys' = keys \ {e}
  /\ UNCHANGED <<req, wire, kept, acked, serviceVars>>

\* Decoding or normalising raises, so nothing of the request is published.
Refuse(r) ==
  /\ req[r].pc = "publish"
  /\ req[r].content = "refused"
  /\ Moves(r, "failed")
  /\ UNCHANGED <<keys, wire, kept, acked, serviceVars>>

\* A batch published without waiting for one acknowledgement after the other.
PublishAhead(r) ==
  /\ req[r].pc = "publish"
  /\ req[r].content # "refused"
  /\ Moves(r, "await")
  /\ wire' = wire \o [i \in 1 .. req[r].size - req[r].sent |->
       Packet(r, <<r, req[r].sent + i>>)]
  /\ UNCHANGED <<keys, kept, acked, serviceVars>>

\* Decode, normalise, encode and hand the bytes to the NATS client: no await
\* on the way suspends the handler before it waits for the acknowledgement.
Publish(r) ==
  /\ req[r].pc = "publish"
  /\ req[r].content # "refused"
  /\ Moves(r, "await")
  /\ wire' = Append(wire, Packet(r, Current(r)))
  /\ UNCHANGED <<keys, kept, acked, serviceVars>>

\* A loop over the batch with one round too many.
AdvancePastEnd(r) ==
  req' = [req EXCEPT ![r].sent = @ + 1,
                     ![r].pc = IF req[r].sent = req[r].size
                               THEN "accepted" ELSE "publish"]

\* The next state of a handler that has published one more envelope.
Advance(r) ==
  req' = [req EXCEPT ![r].sent = @ + 1,
                     ![r].pc = IF req[r].sent + 1 = req[r].size
                               THEN "accepted" ELSE "publish"]

\* A publisher that does not wait for JetStream (nc.publish for js.publish).
AcknowledgedBlind(r) ==
  /\ req[r].pc = "await"
  /\ Advance(r)
  /\ UNCHANGED <<keys, wire, kept, acked, serviceVars>>

\* The acknowledgement arrives: the handler answers, or goes on with its batch.
Acknowledged(r) ==
  /\ req[r].pc = "await"
  /\ Current(r) \in acked
  /\ Advance(r)
  /\ UNCHANGED <<keys, wire, kept, acked, serviceVars>>

\* A publisher with no timeout, which gives up only on an error of the server.
PublishFailsNever(r) == FALSE /\ UNCHANGED vars

\* A publisher that publishes again when js.publish raises.
PublishRetried(r) ==
  /\ req[r].pc = "await"
  /\ Moves(r, "publish")
  /\ UNCHANGED <<keys, wire, kept, acked, serviceVars>>

\* js.publish raises (no acknowledgement in 5 s, an error answer, the
\* connection closed): the request is answered with an error.  The message is
\* not called back, and what was published before it stays published.
PublishFails(r) ==
  /\ req[r].pc = "await"
  /\ Moves(r, "failed")
  /\ UNCHANGED <<keys, wire, kept, acked, serviceVars>>
-----------------------------------------------------------------------------
(* The NATS server takes the next message off the connection, stores it in *)
(* the stream of its subject (when there is one and it does not refuse),   *)
(* acknowledges what it stored, and sends it to the subscription, if there *)
(* is one.                                                                 *)

Route(keep, connected) ==
  /\ wire # <<>>
  /\ wire' = Tail(wire)
  /\ LET m == Head(wire) IN
       /\ IF keep THEN m.subject \in Streamed
          ELSE m.subject \notin Streamed \/ Service!Disrupted("stream")
       /\ \/ m.subject \in Service!Subject /\ Service!Arrive(m.subject, m.msg, connected)
          \/ m.subject \notin Service!Subject /\ UNCHANGED serviceVars
       /\ kept' = IF keep THEN kept \cup {m.msg.env} ELSE kept
       /\ acked' = IF keep THEN acked \cup {m.msg.env} ELSE acked
  /\ UNCHANGED <<req, keys>>
-----------------------------------------------------------------------------
(* NotificationService and the process around it.                         *)

Handle(s) == Service!Handler(s) /\ UNCHANGED intake

\* A store carries out a write the service has given up on.
Overdue(s) == Service!LateWrite(s) /\ UNCHANGED intake

Start ==
  /\ Service!Boot \/ (\E s \in Service!Subject : Service!Subscribe(s)) \/ Service!Serve
  /\ UNCHANGED intake

\* uvicorn lets the requests it has accepted finish before lifespan resumes.
Stop ==
  /\ \A r \in Requests : req[r].pc \notin Busy
  /\ Service!Stop
  /\ UNCHANGED intake

\* lifespan after its yield: the subscriptions, then Redis and NATS.
FinishStop ==
  /\ (\E s \in Service!Subject : Service!Unsubscribe(s)) \/ Service!Shutdown
  /\ UNCHANGED intake

\* Every client that waits sees its connection break.  What the kernel had not
\* sent to the NATS server is gone; the rest the server still reads.
Crash ==
  /\ Service!Crash
  /\ req' = [r \in Requests |->
       IF req[r].pc \in Busy THEN [req[r] EXCEPT !.pc = "failed"] ELSE req[r]]
  /\ \E n \in 0 .. Len(wire) : wire' = SubSeq(wire, 1, n)
  /\ UNCHANGED <<keys, kept, acked>>
-----------------------------------------------------------------------------
HandlerStep(r) ==
  \/ DedupExists(r)
  \/ DedupSet(r)
  \/ Refuse(r)
  \/ Publish(r)
  \/ Acknowledged(r)
  \/ PublishFails(r)

Next ==
  \/ \E r \in Requests, ep \in Endpoint, size \in 0 .. MaxBatch :
       \E tree \in ep.trees, content \in Content(ep) :
         Arrives(r, ep, tree, size, content)
  \/ \E r \in Requests : HandlerStep(r)
  \/ \E r \in Requests : DedupFails(r)
  \/ \E e \in keys : DedupForgets(e)
  \/ \E keep, connected \in BOOLEAN : Route(keep, connected)
  \/ \E s \in Service!Subject : Handle(s) \/ Overdue(s)
  \/ Start
  \/ Stop
  \/ FinishStop
  \/ Crash

Spec == Init /\ [][Next]_vars

\* The event loop runs every handler that can move, js.publish times out, the
\* NATS client reconnects for ever and flushes what it holds, and the storage
\* clients time out a write.
Fairness ==
  /\ \A r \in Requests : WF_vars(HandlerStep(r))
  /\ WF_vars(\E keep, connected \in BOOLEAN : Route(keep, connected))
  /\ \A s \in Service!Subject : WF_vars(Handle(s))

FairSpec == Spec /\ Fairness
-----------------------------------------------------------------------------
(* Properties.                                                            *)

\* The state has the shape the code gives it.
TypeOK ==
  /\ Service!TypeOK
  /\ req \in [Requests -> Request]
  /\ keys \in SUBSET Envelope
  /\ wire \in Seq([subject : Tree, msg : Delivery])
  /\ kept \in SUBSET Envelope
  /\ acked \in SUBSET Envelope

\* A request answered with success has every envelope of its batch in a
\* stream of JetStream, whatever happened since.
AcceptedIsDurable ==
  \A r \in Requests : req[r].pc = "accepted" =>
    \A i \in 1 .. req[r].size : <<r, i>> \in kept

Sent == {wire[i].msg.env : i \in DOMAIN wire}
Taken == UNION {{log[s][i].env : i \in DOMAIN log[s]} : s \in Service!Subject}

\* A batch stops at its first failure: an envelope is on the wire or at the
\* server only if all those before it in its batch are safe in the stream, so
\* a failed simulate leaves a durable prefix and one envelope of unknown fate.
BatchIsPrefix ==
  \A e \in Sent \cup Taken : \A i \in 1 .. e[2] - 1 : <<e[1], i>> \in kept

\* The envelopes in the stores are pairwise different: no path from one HTTP
\* request publishes or writes an envelope twice.
EnvelopeAt(s, i) == log[s][stored[s][i]].env
StoredOnce ==
  \A s, t \in Service!Subject : \A i \in DOMAIN stored[s], j \in DOMAIN stored[t] :
    EnvelopeAt(s, i) = EnvelopeAt(t, j) => s = t /\ i = j

\* Every request is answered, with an error when nothing else comes.
EveryRequestIsAnswered ==
  \A r \in Requests : (req[r].pc \in Busy) ~> (req[r].pc \in Answered)

\* With no disruption and room in the pending queues, what was accepted on a
\* subject the service listens to is in the end in a store, if a store can write
\* it: a message before it that cannot be parsed or written does not hold it up.
AcceptedIsStored ==
  \A r \in Requests :
    (/\ req[r].pc = "accepted"
     /\ req[r].tree \in Service!Subject /\ req[r].content = "envelope")
      ~> (\A i \in 1 .. req[r].size :
            \E s \in Service!Subject : \E j \in DOMAIN stored[s] :
              EnvelopeAt(s, j) = <<r, i>>)

\* docs/architecture.md, design rule 10: the dedup key "prevents
\* double-processing on retries".  So an event a client reports again after an
\* error, through the endpoint that keeps the key, is not stored twice.
RetriedEventStoredOnce ==
  \A s, t \in Service!Subject : \A i \in DOMAIN stored[s], j \in DOMAIN stored[t] :
    LET r == EnvelopeAt(s, i)[1]
        q == EnvelopeAt(t, j)[1]
    IN  (r # q /\ req[r].ep.dedup /\ req[q].ep.dedup) => req[r].event # req[q].event
=============================================================================
