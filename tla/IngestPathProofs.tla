--------------------------- MODULE IngestPathProofs ---------------------------
(***************************************************************************)
(* What the event path guarantees for any number of requests, any batch    *)
(* and any disruptions.                                                    *)
(*                                                                         *)
(* Two things are put together.  Seen from NotificationService every step  *)
(* of the path is a step of the service or none (PathIsService), so that   *)
(* the theorems about the service hold of the path.  And PathInv says how  *)
(* far each request has got: what it has on the wire and at the server is  *)
(* at most one envelope ahead of what JetStream is known to hold.          *)
(***************************************************************************)
EXTENDS IngestPath, TLAPS

\* The theorems about the service.
Proved ==
  INSTANCE NotificationServiceProofs
  WITH Message <- Delivery,
       Malformed <- OfKind("foreign"), Unwritable <- OfKind("unwritable")

Packets == [subject : Tree, msg : Delivery]

PathType ==
  /\ req \in [Requests -> Request]
  /\ keys \in SUBSET Envelope
  /\ wire \in Seq(Packets)
  /\ kept \in SUBSET Envelope
  /\ acked \in SUBSET kept
  /\ log \in [Service!Subject -> Seq(Delivery)]

\* A handler at work has an envelope left to publish; one that has answered
\* with success has none.
Progress ==
  \A r \in Requests :
    /\ req[r].pc \in Busy => req[r].sent < req[r].size
    /\ req[r].pc = "accepted" => req[r].sent = req[r].size
    /\ req[r].pc = "idle" => req[r].sent = 0

\* What was acknowledged to a handler is in the stream.
SentIsKept == \A r \in Requests : \A i \in 1 .. req[r].sent : <<r, i>> \in kept

\* The last envelope of r that may be under way.
Frontier(r) == req[r].sent + (IF req[r].pc \in {"await", "failed"} THEN 1 ELSE 0)

\* Nothing is under way that is ahead of the frontier of its request.
Behind(e) == e \in Envelope /\ e[2] <= Frontier(e[1])

NothingAhead ==
  /\ \A i \in DOMAIN wire : Behind(wire[i].msg.env)
  /\ \A s \in Service!Subject : \A i \in DOMAIN log[s] : Behind(log[s][i].env)

\* No envelope is twice on the wire or at the server.
NoneTwice ==
  /\ \A i, j \in DOMAIN wire : wire[i].msg.env = wire[j].msg.env => i = j
  /\ \A s, t \in Service!Subject : \A i \in DOMAIN log[s], j \in DOMAIN log[t] :
       log[s][i].env = log[t][j].env => s = t /\ i = j
  /\ \A i \in DOMAIN wire, s \in Service!Subject : \A j \in DOMAIN log[s] :
       wire[i].msg.env # log[s][j].env

PathInv ==
  /\ PathType
  /\ Progress
  /\ SentIsKept
  /\ NothingAhead
  /\ NoneTwice

-----------------------------------------------------------------------------
(* The path and the service.                                              *)

LEMMA OfKindIsMessage == \A kind : OfKind(kind) \subseteq Delivery
  BY DEF OfKind

LEMMA EndpointTrees == \A ep \in Endpoint : ep.trees \subseteq Tree
  BY DEF Endpoint, WebhookReceive, SnmpReceive, VesReceive, AvroReceive,
         ProtobufReceive, SftpReceive, WebhookSimulate, SnmpSimulate, VesSimulate,
         AvroSimulate, ProtobufSimulate, SftpSimulate, TransformRun, Receive,
         Simulate, Tree, Service!Subject

\* The steps that the service takes part in are its own.
LEMMA StepOfService ==
  ASSUME PathType, [Next]_vars
  PROVE  [Service!Next]_serviceVars
<1>1. CASE \E r \in Requests, ep \in Endpoint, size \in 0 .. MaxBatch :
             \E tree \in ep.trees, content \in Content(ep) :
               Arrives(r, ep, tree, size, content)
  BY <1>1 DEF Arrives
<1>2. ASSUME NEW r \in Requests, HandlerStep(r) \/ DedupFails(r)
      PROVE  UNCHANGED serviceVars
  BY <1>2 DEF HandlerStep, DedupExists, DedupSet, Refuse, Publish, Acknowledged,
              PublishFails, DedupFails
<1>3. CASE \E e \in keys : DedupForgets(e)
  BY <1>3 DEF DedupForgets
<1>4. ASSUME NEW keep \in BOOLEAN, NEW connected \in BOOLEAN, Route(keep, connected)
      PROVE  Service!Next \/ UNCHANGED serviceVars
  <2>1. wire \in Seq(Packets) /\ wire # <<>>
    BY <1>4 DEF Route, PathType
  <2>2. Head(wire) \in Packets
    BY <2>1
  <2>3. Head(wire).msg \in Delivery
    BY <2>2 DEF Packets
  <2>4. CASE Head(wire).subject \in Service!Subject
    <3>1. Service!Arrive(Head(wire).subject, Head(wire).msg, connected)
      BY <1>4, <2>4 DEF Route
    <3> QED BY <2>3, <2>4, <3>1 DEF Service!Next
  <2>5. CASE Head(wire).subject \notin Service!Subject
    BY <1>4, <2>5 DEF Route
  <2> QED BY <2>4, <2>5
<1>5. CASE \E s \in Service!Subject : Handle(s) \/ Overdue(s)
  BY <1>5 DEF Handle, Overdue, Service!Next
<1>6. CASE Start
  BY <1>6 DEF Start, Service!Next, Service!Lifecycle
<1>7. CASE Stop
  BY <1>7 DEF Stop, Service!Next, Service!Lifecycle
<1>8. CASE FinishStop
  BY <1>8 DEF FinishStop, Service!Next, Service!Lifecycle
<1>9. CASE Crash
  BY <1>9 DEF Crash, Service!Next, Service!Lifecycle
<1>10. CASE UNCHANGED vars
  BY <1>10 DEF vars
<1> QED BY <1>1, <1>2, <1>3, <1>4, <1>5, <1>6, <1>7, <1>8, <1>9, <1>10 DEF Next

\* Only the server adds to the log.
LEMMA LogKept ==
  ASSUME \/ \E s \in Service!Subject : Handle(s) \/ Overdue(s)
         \/ Start \/ Stop \/ FinishStop \/ Crash
  PROVE  log' = log
<1>1. ASSUME NEW s \in Service!Subject, Handle(s) \/ Overdue(s) PROVE log' = log
  BY <1>1 DEF Handle, Overdue, Service!Handler, Service!Take, Service!Reject,
              Service!WriteDone, Service!WriteFails, Service!WriteTimesOut,
              Service!LateWrite
<1>2. CASE Start
  BY <1>2 DEF Start, Service!Boot, Service!Subscribe, Service!Serve
<1>3. CASE Stop
  BY <1>3 DEF Stop, Service!Stop
<1>4. CASE FinishStop
  BY <1>4 DEF FinishStop, Service!Unsubscribe, Service!Shutdown
<1>5. CASE Crash
  BY <1>5 DEF Crash, Service!Crash
<1> QED BY <1>1, <1>2, <1>3, <1>4, <1>5

-----------------------------------------------------------------------------
(* The invariant of the path.                                             *)

LEMMA InitPathInv == Init => PathInv
<1> SUFFICES ASSUME Init PROVE PathInv
  OBVIOUS
<1>1. PathType
  <2>1. SnmpReceive \in Endpoint /\ 0 \in 0 .. MaxBatch /\ "ingest" \in Tree
    BY MaxBatchAssumption DEF Endpoint, Tree, Service!Subject
  <2>2. req \in [Requests -> Request]
    BY <2>1 DEF Init, Request, Kind
  <2>3. log \in [Service!Subject -> Seq(Delivery)]
    BY DEF Init, Service!Init
  <2> QED BY <2>2, <2>3 DEF Init, PathType
<1>2. Progress /\ SentIsKept
  BY DEF Init, Progress, SentIsKept, Busy
<1>3. NothingAhead /\ NoneTwice
  BY DEF Init, Service!Init, NothingAhead, NoneTwice
<1> QED BY <1>1, <1>2, <1>3 DEF PathInv

\* A step that leaves the wire and the log alone and takes no handler back.
LEMMA HandlerKeepsPathInv ==
  ASSUME PathInv, PathType', Progress', SentIsKept', UNCHANGED <<wire, log>>,
         \A r \in Requests : Frontier(r) <= Frontier(r)'
  PROVE  PathInv'
<1>1. \A r \in Requests : Frontier(r) \in Nat /\ Frontier(r)' \in Nat
  <2>1. \A r \in Requests : req[r].sent \in Nat /\ req'[r].sent \in Nat
    BY DEF PathInv, PathType, Request
  <2> QED BY <2>1 DEF Frontier
<1>2. \A e : Behind(e) => Behind(e)'
  <2> SUFFICES ASSUME NEW e, Behind(e) PROVE Behind(e)'
    OBVIOUS
  <2>1. e[1] \in Requests /\ e[2] \in Nat /\ e \in Envelope
    BY DEF Behind, Envelope
  <2> QED BY <1>1, <2>1 DEF Behind
<1>3. NothingAhead'
  BY <1>2 DEF PathInv, NothingAhead
<1>4. NoneTwice'
  BY DEF PathInv, NoneTwice
<1> QED BY <1>3, <1>4 DEF PathInv

\* A handler that moves on without publishing.
LEMMA MovesKeepsPathInv ==
  ASSUME PathInv, NEW r \in Requests, NEW pc,
         req[r].pc \in Busy,
         pc \in {"duplicate", "setex", "publish", "failed"},
         req[r].pc = "await" => pc = "failed",
         Moves(r, pc),
         keys' \in SUBSET Envelope,
         UNCHANGED <<wire, kept, acked, log>>
  PROVE  PathInv'
<1>1. /\ req \in [Requests -> Request] /\ req' = [req EXCEPT ![r].pc = pc]
      /\ PathType /\ Progress /\ SentIsKept
  BY DEF PathInv, PathType, Moves
<1>2. /\ req'[r] = [req[r] EXCEPT !.pc = pc]
      /\ \A q \in Requests \ {r} : req'[q] = req[q]
      /\ req[r] \in Request
  BY <1>1
<1>3. /\ req'[r].pc = pc /\ req'[r].sent = req[r].sent /\ req'[r].size = req[r].size
      /\ req'[r] \in Request
  BY <1>2 DEF Request, Busy, Answered
<1>4. PathType'
  BY <1>1, <1>2, <1>3 DEF PathType
<1>5. Progress'
  BY <1>1, <1>2, <1>3 DEF Progress, Busy
<1>6. SentIsKept'
  BY <1>1, <1>2, <1>3 DEF SentIsKept
<1>7. \A q \in Requests : Frontier(q) <= Frontier(q)'
  <2>1. \A q \in Requests : req[q].sent \in Nat
    BY <1>1 DEF Request
  <2>2. \A q \in Requests \ {r} : Frontier(q)' = Frontier(q)
    BY <1>2 DEF Frontier
  <2>3. Frontier(r) <= Frontier(r)'
    BY <1>3, <2>1 DEF Frontier, Busy
  <2> QED BY <2>1, <2>2, <2>3 DEF Frontier
<1> QED BY <1>4, <1>5, <1>6, <1>7, HandlerKeepsPathInv

\* The envelope a handler at work is about to publish is one of its own.
LEMMA CurrentIsEnvelope ==
  ASSUME PathInv, NEW r \in Requests, req[r].pc \in Busy
  PROVE  Current(r) \in Envelope
<1>1. req[r].sent \in 0 .. MaxBatch /\ req[r].size \in 0 .. MaxBatch
  BY DEF PathInv, PathType, Request
<1>2. req[r].sent < req[r].size
  BY DEF PathInv, Progress
<1> QED BY <1>1, <1>2, MaxBatchAssumption DEF Current, Envelope

LEMMA ArrivesPathInv ==
  ASSUME PathInv, NEW r \in Requests, NEW ep \in Endpoint, NEW tree \in ep.trees,
         NEW size \in 0 .. MaxBatch, NEW content \in Content(ep),
         Arrives(r, ep, tree, size, content)
  PROVE  PathInv'
<1>1. PICK event \in Requests :
        req' = [req EXCEPT ![r] =
          [pc |-> IF ep.dedup THEN "exists"
                  ELSE IF size = 0 THEN "accepted" ELSE "publish",
           ep |-> ep, tree |-> tree, size |-> size, sent |-> 0,
           content |-> content, event |-> event]]
  <2>1. \A q \in Requests : req[q].event \in Requests
    BY DEF PathInv, PathType, Request
  <2> QED BY <2>1 DEF Arrives
<1>2. /\ req[r].pc = "idle" /\ (size = 1 \/ ep.batch)
      /\ UNCHANGED <<keys, wire, kept, acked, log>>
      /\ PathType /\ Progress /\ SentIsKept
  BY DEF Arrives, serviceVars, PathInv
<1>3. ep.dedup => ~ep.batch
  BY DEF Endpoint, WebhookReceive, SnmpReceive, VesReceive, AvroReceive,
         ProtobufReceive, SftpReceive, WebhookSimulate, SnmpSimulate, VesSimulate,
         AvroSimulate, ProtobufSimulate, SftpSimulate, TransformRun, Receive, Simulate
<1>4. /\ req'[r].sent = 0 /\ req'[r].size = size
      /\ req'[r].pc = (IF ep.dedup THEN "exists"
                       ELSE IF size = 0 THEN "accepted" ELSE "publish")
      /\ \A q \in Requests \ {r} : req'[q] = req[q]
  BY <1>1, <1>2 DEF PathType
<1>5. PathType'
  <2>1. content \in Kind \cup {"refused"} /\ 0 \in 0 .. MaxBatch /\ tree \in Tree
    BY MaxBatchAssumption, EndpointTrees DEF Content, Kind
  <2>2. [pc |-> IF ep.dedup THEN "exists"
                ELSE IF size = 0 THEN "accepted" ELSE "publish",
         ep |-> ep, tree |-> tree, size |-> size, sent |-> 0,
         content |-> content, event |-> event] \in Request
    BY <2>1 DEF Request, Busy, Answered
  <2>3. req' \in [Requests -> Request]
    BY <1>1, <1>2, <2>2 DEF PathType
  <2> QED BY <1>2, <2>3 DEF PathType
<1>6. Progress'
  BY <1>2, <1>3, <1>4 DEF Progress, Busy
<1>7. SentIsKept'
  <2>1. \A i \in 1 .. req'[r].sent : FALSE
    BY <1>4
  <2>2. \A q \in Requests \ {r} : \A i \in 1 .. req'[q].sent : <<q, i>> \in kept'
    BY <1>2, <1>4 DEF SentIsKept
  <2> QED BY <2>1, <2>2 DEF SentIsKept
<1>8. \A q \in Requests : Frontier(q) <= Frontier(q)'
  <2>1. \A q \in Requests : req[q].sent \in Nat
    BY <1>2 DEF PathType, Request
  <2>2. Frontier(r) = 0 /\ Frontier(r)' = 0
    BY <1>2, <1>4 DEF Frontier, Progress
  <2>3. \A q \in Requests \ {r} : Frontier(q)' = Frontier(q)
    BY <1>4 DEF Frontier
  <2> QED BY <2>1, <2>2, <2>3 DEF Frontier
<1> QED BY <1>2, <1>5, <1>6, <1>7, <1>8, HandlerKeepsPathInv

LEMMA AcknowledgedPathInv ==
  ASSUME PathInv, NEW r \in Requests, Acknowledged(r)
  PROVE  PathInv'
<1> DEFINE pc == IF req[r].sent + 1 = req[r].size THEN "accepted" ELSE "publish"
<1>1. /\ PathType /\ Progress /\ SentIsKept
      /\ req[r].pc = "await" /\ Current(r) \in kept
      /\ req' = [req EXCEPT ![r].sent = @ + 1, ![r].pc = pc]
      /\ UNCHANGED <<keys, wire, kept, acked, log>>
  BY DEF PathInv, PathType, Acknowledged, Advance, serviceVars
<1>2. /\ req[r] \in Request /\ req[r].sent \in Nat /\ req[r].size \in 0 .. MaxBatch
      /\ req[r].sent < req[r].size
  BY <1>1 DEF PathType, Progress, Request, Busy
<1>3. /\ req'[r] = [req[r] EXCEPT !.sent = @ + 1, !.pc = pc]
      /\ \A q \in Requests \ {r} : req'[q] = req[q]
  BY <1>1 DEF PathType
<1>4. /\ req'[r].pc = pc /\ req'[r].sent = req[r].sent + 1
      /\ req'[r].size = req[r].size
  BY <1>2, <1>3 DEF Request
<1>5. PathType'
  <2>1. req[r].sent + 1 \in 0 .. MaxBatch
    BY <1>2, MaxBatchAssumption
  <2>2. req'[r] \in Request
    BY <1>2, <1>3, <2>1 DEF Request, Busy, Answered
  <2> QED BY <1>1, <1>3, <2>2 DEF PathType
<1>6. Progress'
  <2>1. /\ pc \in Busy => req[r].sent + 1 < req[r].size
        /\ pc = "accepted" => req[r].sent + 1 = req[r].size
        /\ pc # "idle"
    BY <1>2 DEF Busy
  <2> HIDE DEF pc
  <2>2. /\ req'[r].pc \in Busy => req'[r].sent < req'[r].size
        /\ req'[r].pc = "accepted" => req'[r].sent = req'[r].size
        /\ req'[r].pc # "idle"
    BY <1>4, <2>1
  <2> QED BY <1>1, <1>3, <2>2 DEF Progress
<1>7. SentIsKept'
  <2>1. \A i \in 1 .. req[r].sent + 1 : i \in 1 .. req[r].sent \/ i = req[r].sent + 1
    BY <1>2
  <2>2. \A i \in 1 .. req'[r].sent : <<r, i>> \in kept
    BY <1>1, <1>4, <2>1 DEF SentIsKept, Current
  <2> QED BY <1>1, <1>3, <2>2 DEF SentIsKept
<1>8. \A q \in Requests : Frontier(q) <= Frontier(q)'
  <2>1. \A q \in Requests : req[q].sent \in Nat
    BY <1>1 DEF PathType, Request
  <2>2. \A q \in Requests \ {r} : Frontier(q)' = Frontier(q)
    BY <1>3 DEF Frontier
  <2>3. Frontier(r) <= Frontier(r)'
    BY <1>1, <1>4, <2>1 DEF Frontier
  <2> QED BY <2>1, <2>2, <2>3 DEF Frontier
<1> QED BY <1>1, <1>5, <1>6, <1>7, <1>8, HandlerKeepsPathInv

\* What Append does, as the lemmas below need it.
LEMMA AppendedElements ==
  ASSUME NEW T, NEW q \in Seq(T), NEW x \in T
  PROVE  /\ Append(q, x) \in Seq(T)
         /\ \A i \in DOMAIN q : i \in DOMAIN Append(q, x) /\ Append(q, x)[i] = q[i]
         /\ \A i \in DOMAIN Append(q, x) :
              i \in DOMAIN q \/ (i = Len(q) + 1 /\ Append(q, x)[i] = x)
         /\ Len(q) + 1 \notin DOMAIN q
  OBVIOUS

LEMMA PublishPathInv ==
  ASSUME PathInv, NEW r \in Requests, Publish(r)
  PROVE  PathInv'
<1> DEFINE packet == Packet(r, Current(r))
<1>1. /\ PathType /\ Progress /\ SentIsKept /\ NothingAhead /\ NoneTwice
      /\ req[r].pc = "publish" /\ req[r].content # "refused"
      /\ req' = [req EXCEPT ![r].pc = "await"]
      /\ wire' = Append(wire, packet)
      /\ UNCHANGED <<keys, kept, acked, log>>
  BY DEF PathInv, Publish, Moves, serviceVars
<1>2. /\ req'[r] = [req[r] EXCEPT !.pc = "await"]
      /\ \A q \in Requests \ {r} : req'[q] = req[q]
      /\ req[r] \in Request
  BY <1>1 DEF PathType
<1>3. /\ req'[r].pc = "await" /\ req'[r].sent = req[r].sent /\ req'[r].size = req[r].size
      /\ req'[r] \in Request
  BY <1>2 DEF Request, Busy
<1>4. Current(r) \in Envelope
  BY <1>1, CurrentIsEnvelope DEF Busy
<1>5. packet \in Packets /\ packet.msg.env = Current(r)
  BY <1>1, <1>2, <1>4 DEF Packet, Packets, Delivery, Request
<1> HIDE DEF packet
<1>6. /\ wire' \in Seq(Packets)
      /\ \A i \in DOMAIN wire : i \in DOMAIN wire' /\ wire'[i] = wire[i]
      /\ \A i \in DOMAIN wire' :
           i \in DOMAIN wire \/ (i = Len(wire) + 1 /\ wire'[i] = packet)
  BY <1>1, <1>5, AppendedElements DEF PathType
<1>7. PathType'
  BY <1>1, <1>2, <1>3, <1>6 DEF PathType
<1>8. Progress'
  BY <1>1, <1>2, <1>3 DEF Progress, Busy
<1>9. SentIsKept'
  BY <1>1, <1>2, <1>3 DEF SentIsKept
<1>10. \A q \in Requests : req[q].sent \in Nat
  BY <1>1 DEF PathType, Request
<1> DEFINE Limit(q) == req'[q].sent + (IF req'[q].pc \in {"await", "failed"} THEN 1 ELSE 0)
<1>11. /\ Frontier(r) = req[r].sent /\ Limit(r) = req[r].sent + 1
       /\ \A q \in Requests \ {r} : Limit(q) = Frontier(q)
  BY <1>1, <1>2, <1>3, <1>10 DEF Frontier
<1> HIDE DEF Limit
<1>12. /\ ~Behind(Current(r))
       /\ Current(r)[1] = r /\ Current(r)[2] <= Limit(r)
  BY <1>10, <1>11 DEF Behind, Current
<1>13. \A e : Behind(e) => e \in Envelope /\ e[2] <= Limit(e[1])
  <2> SUFFICES ASSUME NEW e, Behind(e) PROVE e \in Envelope /\ e[2] <= Limit(e[1])
    OBVIOUS
  <2>1. e[1] \in Requests /\ e[2] \in Nat /\ e \in Envelope
    BY DEF Behind, Envelope
  <2>2. CASE e[1] = r
    BY <1>10, <1>11, <2>1, <2>2 DEF Behind
  <2>3. CASE e[1] # r
    BY <1>11, <2>1, <2>3 DEF Behind
  <2> QED BY <2>2, <2>3
<1>14. NothingAhead'
  <2>1. \A i \in DOMAIN wire' : /\ wire'[i].msg.env \in Envelope
                                /\ wire'[i].msg.env[2] <= Limit(wire'[i].msg.env[1])
    <3> SUFFICES ASSUME NEW i \in DOMAIN wire'
                 PROVE  /\ wire'[i].msg.env \in Envelope
                        /\ wire'[i].msg.env[2] <= Limit(wire'[i].msg.env[1])
      OBVIOUS
    <3>1. CASE i \in DOMAIN wire
      BY <1>1, <1>6, <1>13, <3>1 DEF NothingAhead
    <3>2. CASE wire'[i] = packet
      BY <1>4, <1>5, <1>12, <3>2
    <3> QED BY <1>6, <3>1, <3>2
  <2>2. \A s \in Service!Subject : \A i \in DOMAIN log[s] :
          log[s][i].env \in Envelope /\ log[s][i].env[2] <= Limit(log[s][i].env[1])
    BY <1>1, <1>13 DEF NothingAhead
  <2> QED BY <1>1, <2>1, <2>2 DEF NothingAhead, Behind, Frontier, Limit
<1>15. NoneTwice'
  <2>1. \A i \in DOMAIN wire : wire[i].msg.env # Current(r)
    BY <1>1, <1>12 DEF NothingAhead
  <2>2. \A s \in Service!Subject : \A i \in DOMAIN log[s] : log[s][i].env # Current(r)
    BY <1>1, <1>12 DEF NothingAhead
  <2>3. \A i, j \in DOMAIN wire' : wire'[i].msg.env = wire'[j].msg.env => i = j
    BY <1>1, <1>5, <1>6, <2>1 DEF NoneTwice
  <2>4. \A i \in DOMAIN wire', s \in Service!Subject : \A j \in DOMAIN log[s] :
          wire'[i].msg.env # log[s][j].env
    BY <1>1, <1>5, <1>6, <2>2 DEF NoneTwice
  <2> QED BY <1>1, <2>3, <2>4 DEF NoneTwice
<1> QED BY <1>7, <1>8, <1>9, <1>14, <1>15 DEF PathInv

\* The head of the wire moves to the end of a log.
LEMMA HeardPathInv ==
  ASSUME PathInv, NEW keep \in BOOLEAN, NEW connected \in BOOLEAN,
         Route(keep, connected), Head(wire).subject \in Service!Subject
  PROVE  PathInv'
<1> DEFINE m == Head(wire)
<1>1. /\ PathType /\ Progress /\ SentIsKept /\ NothingAhead /\ NoneTwice
      /\ wire # <<>> /\ wire' = Tail(wire)
      /\ log' = [log EXCEPT ![m.subject] = Append(@, m.msg)]
      /\ kept' = IF keep THEN kept \cup {m.msg.env} ELSE kept
      /\ acked' = IF keep THEN acked \cup {m.msg.env} ELSE acked
      /\ UNCHANGED <<req, keys>>
  BY DEF PathInv, Route, Service!Arrive
<1>2. /\ m \in Packets /\ m.subject \in Service!Subject /\ m.msg \in Delivery
      /\ m.msg.env \in Envelope
      /\ 1 \in DOMAIN wire /\ m = wire[1]
  <2>1. wire \in Seq(Packets)
    BY <1>1 DEF PathType
  <2>2. m \in Packets /\ 1 \in DOMAIN wire /\ m = wire[1] /\ m.subject \in Service!Subject
    BY <1>1, <2>1
  <2> HIDE DEF m
  <2> QED BY <2>2 DEF Packets, Delivery
<1>3. /\ wire' \in Seq(Packets)
      /\ \A i \in DOMAIN wire' : i # 0 /\ i + 1 \in DOMAIN wire /\ wire'[i] = wire[i + 1]
      /\ DOMAIN wire' \subseteq Nat
  <2>1. wire \in Seq(Packets)
    BY <1>1 DEF PathType
  <2> QED BY <1>1, <2>1
<1> HIDE DEF m
<1> DEFINE old == log[m.subject]
           new == Append(old, m.msg)
<1>4. /\ new \in Seq(Delivery)
      /\ \A i \in DOMAIN old : i \in DOMAIN new /\ new[i] = old[i]
      /\ \A i \in DOMAIN new :
           i \in DOMAIN old \/ (i = Len(old) + 1 /\ new[i] = m.msg)
      /\ Len(old) + 1 \notin DOMAIN old
  BY <1>1, <1>2, AppendedElements DEF PathType
<1>5. /\ log'[m.subject] = new
      /\ \A s \in Service!Subject \ {m.subject} : log'[s] = log[s]
  BY <1>1, <1>2 DEF PathType
<1> HIDE DEF new
<1>6. PathType'
  <2>1. log' \in [Service!Subject -> Seq(Delivery)]
    BY <1>1, <1>4, <1>5 DEF PathType, new
  <2>2. acked' \in SUBSET kept' /\ kept' \in SUBSET Envelope
    BY <1>1, <1>2 DEF PathType
  <2> QED BY <1>1, <1>3, <2>1, <2>2 DEF PathType
<1>7. Progress'
  BY <1>1 DEF Progress
<1>8. SentIsKept'
  BY <1>1 DEF SentIsKept
<1>9. \A e : Behind(e) <=> Behind(e)'
  BY <1>1 DEF Behind, Frontier
<1>10. Behind(m.msg.env)
  BY <1>1, <1>2 DEF NothingAhead
\* Every element of a log is an old one at its old place, or the head of the wire.
<1>11. \A s \in Service!Subject : \A i \in DOMAIN log'[s] :
         \/ i \in DOMAIN log[s] /\ log'[s][i] = log[s][i]
         \/ s = m.subject /\ i = Len(old) + 1 /\ log'[s][i] = m.msg
  BY <1>4, <1>5
<1>12. NothingAhead'
  <2>1. \A i \in DOMAIN wire' : Behind(wire'[i].msg.env)
    BY <1>1, <1>3 DEF NothingAhead
  <2>2. \A s \in Service!Subject : \A i \in DOMAIN log'[s] : Behind(log'[s][i].env)
    BY <1>1, <1>10, <1>11 DEF NothingAhead
  <2> QED BY <1>1, <2>1, <2>2 DEF NothingAhead, Behind, Frontier
<1>13. NoneTwice'
  <2>1. \A i \in DOMAIN wire' : wire'[i].msg.env # m.msg.env
    <3>1. \A i \in DOMAIN wire' : i + 1 # 1
      BY <1>3
    <3> QED BY <1>1, <1>2, <1>3, <3>1 DEF NoneTwice
  <2>2. \A s \in Service!Subject : \A i \in DOMAIN log[s] : log[s][i].env # m.msg.env
    BY <1>1, <1>2 DEF NoneTwice
  <2>3. \A i, j \in DOMAIN wire' : wire'[i].msg.env = wire'[j].msg.env => i = j
    <3>1. \A i, j \in DOMAIN wire' : i + 1 = j + 1 => i = j
      BY <1>3
    <3> QED BY <1>1, <1>3, <3>1 DEF NoneTwice
  <2>4. \A s, t \in Service!Subject : \A i \in DOMAIN log'[s], j \in DOMAIN log'[t] :
          log'[s][i].env = log'[t][j].env => s = t /\ i = j
    <3> SUFFICES ASSUME NEW s \in Service!Subject, NEW t \in Service!Subject,
                        NEW i \in DOMAIN log'[s], NEW j \in DOMAIN log'[t],
                        log'[s][i].env = log'[t][j].env
                 PROVE  s = t /\ i = j
      OBVIOUS
    <3>1. CASE i \in DOMAIN log[s] /\ log'[s][i] = log[s][i]
      BY <1>1, <1>11, <2>2, <3>1 DEF NoneTwice
    <3>2. CASE s = m.subject /\ i = Len(old) + 1 /\ log'[s][i] = m.msg
      BY <1>11, <2>2, <3>2
    <3> QED BY <1>11, <3>1, <3>2
  <2>5. \A i \in DOMAIN wire', s \in Service!Subject : \A j \in DOMAIN log'[s] :
          wire'[i].msg.env # log'[s][j].env
    BY <1>1, <1>3, <1>11, <2>1 DEF NoneTwice
  <2> QED BY <2>3, <2>4, <2>5 DEF NoneTwice
<1> QED BY <1>6, <1>7, <1>8, <1>12, <1>13 DEF PathInv

\* The head of the wire goes to a subject nobody subscribes to.
LEMMA UnheardPathInv ==
  ASSUME PathInv, NEW keep \in BOOLEAN, NEW connected \in BOOLEAN,
         Route(keep, connected), Head(wire).subject \notin Service!Subject
  PROVE  PathInv'
<1> DEFINE m == Head(wire)
<1>1. /\ PathType /\ Progress /\ SentIsKept /\ NothingAhead /\ NoneTwice
      /\ wire # <<>> /\ wire' = Tail(wire)
      /\ kept' = IF keep THEN kept \cup {m.msg.env} ELSE kept
      /\ acked' = IF keep THEN acked \cup {m.msg.env} ELSE acked
      /\ UNCHANGED <<req, keys, log>>
  BY DEF PathInv, Route, serviceVars
<1>2. /\ m \in Packets
      /\ wire' \in Seq(Packets)
      /\ \A i \in DOMAIN wire' : i + 1 \in DOMAIN wire /\ wire'[i] = wire[i + 1]
      /\ DOMAIN wire' \subseteq Nat
  <2>1. wire \in Seq(Packets)
    BY <1>1 DEF PathType
  <2> QED BY <1>1, <2>1
<1> HIDE DEF m
<1>3. m.msg.env \in Envelope
  BY <1>2 DEF Packets, Delivery
<1>4. PathType'
  <2>1. acked' \in SUBSET kept' /\ kept' \in SUBSET Envelope
    BY <1>1, <1>3 DEF PathType
  <2> QED BY <1>1, <1>2, <2>1 DEF PathType
<1>5. Progress' /\ SentIsKept'
  BY <1>1 DEF Progress, SentIsKept
<1>6. NothingAhead'
  BY <1>1, <1>2 DEF NothingAhead, Behind, Frontier
<1>7. NoneTwice'
  <2>1. \A i, j \in DOMAIN wire' : i + 1 = j + 1 => i = j
    BY <1>2
  <2> QED BY <1>1, <1>2, <2>1 DEF NoneTwice
<1> QED BY <1>4, <1>5, <1>6, <1>7 DEF PathInv

\* A crash fails the requests in progress and cuts the wire short.
LEMMA CrashPathInv ==
  ASSUME PathInv, Crash
  PROVE  PathInv'
<1>1. PICK n \in 0 .. Len(wire) : wire' = SubSeq(wire, 1, n)
  BY DEF Crash
<1>2. /\ PathType /\ Progress /\ SentIsKept /\ NothingAhead /\ NoneTwice
      /\ UNCHANGED <<keys, kept, acked, log>>
  BY LogKept DEF PathInv, Crash
<1>3. \A r \in Requests :
        /\ req'[r] \in Request
        /\ req'[r].sent = req[r].sent /\ req'[r].size = req[r].size
        /\ req'[r].pc = IF req[r].pc \in Busy THEN "failed" ELSE req[r].pc
  <2> SUFFICES ASSUME NEW r \in Requests
               PROVE  /\ req'[r] \in Request
                      /\ req'[r].sent = req[r].sent /\ req'[r].size = req[r].size
                      /\ req'[r].pc = IF req[r].pc \in Busy THEN "failed" ELSE req[r].pc
    OBVIOUS
  <2>1. req[r] \in Request
    BY <1>2 DEF PathType
  <2>2. req'[r] = IF req[r].pc \in Busy THEN [req[r] EXCEPT !.pc = "failed"] ELSE req[r]
    BY DEF Crash
  <2>3. CASE req[r].pc \in Busy
    BY <2>1, <2>2, <2>3 DEF Request, Answered
  <2>4. CASE req[r].pc \notin Busy
    BY <2>1, <2>2, <2>4
  <2> QED BY <2>3, <2>4
<1>4. /\ wire' \in Seq(Packets)
      /\ \A i \in DOMAIN wire' : i \in DOMAIN wire /\ wire'[i] = wire[i]
  <2>1. wire \in Seq(Packets)
    BY <1>2 DEF PathType
  <2> QED BY <1>1, <2>1
<1>5. PathType'
  <2>1. DOMAIN req' = Requests
    BY DEF Crash
  <2>2. req' = [r \in Requests |-> req'[r]]
    BY <2>1 DEF Crash
  <2>3. req' \in [Requests -> Request]
    BY <1>3, <2>2
  <2> QED BY <1>2, <1>4, <2>3 DEF PathType
<1>6. Progress'
  BY <1>2, <1>3 DEF Progress, Busy
<1>7. SentIsKept'
  BY <1>2, <1>3 DEF SentIsKept
<1> DEFINE Limit(q) == req'[q].sent + (IF req'[q].pc \in {"await", "failed"} THEN 1 ELSE 0)
<1>8. \A q \in Requests : Frontier(q) <= Limit(q) /\ Frontier(q) \in Nat /\ Limit(q) \in Nat
  <2> SUFFICES ASSUME NEW q \in Requests
               PROVE  Frontier(q) <= Limit(q) /\ Frontier(q) \in Nat /\ Limit(q) \in Nat
    OBVIOUS
  <2>1. req[q].sent \in Nat
    BY <1>2 DEF PathType, Request
  <2> QED BY <1>3, <2>1 DEF Frontier, Busy
<1> HIDE DEF Limit
<1>9. \A e : Behind(e) => e \in Envelope /\ e[2] <= Limit(e[1])
  <2> SUFFICES ASSUME NEW e, Behind(e) PROVE e \in Envelope /\ e[2] <= Limit(e[1])
    OBVIOUS
  <2>1. e[1] \in Requests /\ e[2] \in Nat /\ e \in Envelope /\ e[2] <= Frontier(e[1])
    BY DEF Behind, Envelope
  <2> QED BY <1>8, <2>1
<1>10. NothingAhead'
  <2>1. \A i \in DOMAIN wire' : /\ wire'[i].msg.env \in Envelope
                                /\ wire'[i].msg.env[2] <= Limit(wire'[i].msg.env[1])
    BY <1>2, <1>4, <1>9 DEF NothingAhead
  <2>2. \A s \in Service!Subject : \A i \in DOMAIN log[s] :
          log[s][i].env \in Envelope /\ log[s][i].env[2] <= Limit(log[s][i].env[1])
    BY <1>2, <1>9 DEF NothingAhead
  <2> QED BY <1>2, <2>1, <2>2 DEF NothingAhead, Behind, Frontier, Limit
<1>11. NoneTwice'
  BY <1>2, <1>4 DEF NoneTwice
<1> QED BY <1>5, <1>6, <1>7, <1>10, <1>11 DEF PathInv

\* One step of one handler that does not publish or advance.
LEMMA WaitsPathInv ==
  ASSUME PathInv, NEW r \in Requests,
         \/ DedupExists(r) \/ DedupSet(r) \/ DedupFails(r)
         \/ Refuse(r) \/ PublishFails(r)
  PROVE  PathInv'
<1>1. keys \in SUBSET Envelope /\ (req[r].pc \in Busy => Current(r) \in Envelope)
  BY CurrentIsEnvelope DEF PathInv, PathType
<1>2. CASE DedupExists(r)
  <2>1. PICK pc \in {"duplicate", "setex"} : Moves(r, pc)
    BY <1>2 DEF DedupExists
  <2> QED BY <1>1, <1>2, <2>1, MovesKeepsPathInv DEF DedupExists, Busy, serviceVars
<1>3. CASE DedupSet(r)
  <2>1. /\ req[r].pc = "setex" /\ Moves(r, "publish") /\ keys' \in SUBSET Envelope
        /\ UNCHANGED <<wire, kept, acked, log>>
    BY <1>1, <1>3 DEF DedupSet, Busy, serviceVars
  <2> QED BY <2>1, MovesKeepsPathInv DEF Busy
<1>4. CASE DedupFails(r)
  <2>1. /\ req[r].pc \in {"exists", "setex"} /\ Moves(r, "failed")
        /\ keys' \in SUBSET Envelope /\ UNCHANGED <<wire, kept, acked, log>>
    BY <1>1, <1>4 DEF DedupFails, Busy, serviceVars
  <2> QED BY <2>1, MovesKeepsPathInv DEF Busy
<1>5. CASE Refuse(r)
  BY <1>1, <1>5, MovesKeepsPathInv DEF Refuse, Busy, serviceVars
<1>6. CASE PublishFails(r)
  BY <1>1, <1>6, MovesKeepsPathInv DEF PublishFails, Busy, serviceVars
<1> QED BY <1>2, <1>3, <1>4, <1>5, <1>6

\* A step that PathInv does not see, but for the keys.
LEMMA ElsewherePathInv ==
  ASSUME PathInv, keys' \in SUBSET keys, UNCHANGED <<req, wire, kept, acked, log>>
  PROVE  PathInv'
  BY DEF PathInv, PathType, Progress, SentIsKept, NothingAhead, NoneTwice,
         Behind, Frontier

LEMMA NextPathInv == PathInv /\ [Next]_vars => PathInv'
<1> SUFFICES ASSUME PathInv, [Next]_vars PROVE PathInv'
  OBVIOUS
<1>1. ASSUME NEW r \in Requests, NEW ep \in Endpoint, NEW size \in 0 .. MaxBatch,
             NEW tree \in ep.trees, NEW content \in Content(ep),
             Arrives(r, ep, tree, size, content)
      PROVE  PathInv'
  BY <1>1, ArrivesPathInv
<1>2. ASSUME NEW r \in Requests, HandlerStep(r) \/ DedupFails(r)
      PROVE  PathInv'
  BY <1>2, WaitsPathInv, PublishPathInv, AcknowledgedPathInv DEF HandlerStep
<1>3. ASSUME NEW e \in keys, DedupForgets(e) PROVE PathInv'
  BY <1>3, ElsewherePathInv DEF DedupForgets, serviceVars
<1>4. ASSUME NEW keep \in BOOLEAN, NEW connected \in BOOLEAN, Route(keep, connected)
      PROVE  PathInv'
  BY <1>4, HeardPathInv, UnheardPathInv
<1>5. CASE \/ \E s \in Service!Subject : Handle(s) \/ Overdue(s)
           \/ Start \/ Stop \/ FinishStop
  <2>1. UNCHANGED <<intake, log>>
    BY <1>5, LogKept DEF Handle, Overdue, Start, Stop, FinishStop
  <2> QED BY <2>1, ElsewherePathInv DEF intake
<1>6. CASE Crash
  BY <1>6, CrashPathInv
<1>7. CASE UNCHANGED vars
  BY <1>7, ElsewherePathInv DEF vars, serviceVars, intake
<1> QED BY <1>1, <1>2, <1>3, <1>4, <1>5, <1>6, <1>7 DEF Next

LEMMA PathInvariance == Spec => []PathInv
  BY InitPathInv, NextPathInv, PTL DEF Spec

-----------------------------------------------------------------------------
(* What follows from it.                                                  *)

\* A request answered with success has its whole batch in JetStream, for any
\* batch and across crashes, lost connections and requests answered with an
\* error: a handler advances only on an acknowledgement (js.publish in
\* core/bus/nats.py), and JetStream acknowledges only what it stored.
THEOREM Durability == Spec => []AcceptedIsDurable
<1>1. PathInv => AcceptedIsDurable
  <2> SUFFICES ASSUME PathInv, NEW r \in Requests, req[r].pc = "accepted",
                      NEW i \in 1 .. req[r].size
               PROVE  <<r, i>> \in kept
    BY DEF AcceptedIsDurable
  <2>1. req[r].sent = req[r].size
    BY DEF PathInv, Progress
  <2> QED BY <2>1 DEF PathInv, SentIsKept
<1> QED BY <1>1, PathInvariance, PTL

\* A failed simulate leaves a durable prefix of its batch and at most one
\* envelope more, wherever it failed: the loop of each simulate handler
\* publishes an envelope only after the acknowledgement of the one before.
THEOREM DurablePrefix == Spec => []BatchIsPrefix
<1>1. PathInv => BatchIsPrefix
  <2> SUFFICES ASSUME PathInv, NEW e \in Sent \cup Taken, NEW i \in 1 .. e[2] - 1
               PROVE  <<e[1], i>> \in kept
    BY DEF BatchIsPrefix
  <2>1. Behind(e)
    BY DEF PathInv, NothingAhead, Sent, Taken
  <2>2. /\ e[1] \in Requests /\ e[2] \in Nat /\ e[2] <= Frontier(e[1])
        /\ req[e[1]].sent \in Nat
    BY <2>1 DEF Behind, Envelope, PathInv, PathType, Request
  <2>3. i \in 1 .. req[e[1]].sent
    BY <2>2 DEF Frontier
  <2> QED BY <2>2, <2>3 DEF PathInv, SentIsKept
<1> QED BY <1>1, PathInvariance, PTL

\* Seen from NotificationService each step of the path is one of the service's
\* or leaves it alone, and the service of this module is that of the theorems:
\* what was proved of the service holds of the path.
LEMMA PathIsService == Spec => Proved!Spec
<1>1. Init => Proved!Init
  BY DEF Init, Proved!Init, Service!Init, Proved!Subject, Service!Subject
<1>2. [Service!Next]_serviceVars => [Proved!Next]_Proved!vars
  BY DEF serviceVars,
         Proved!Next, Proved!Lifecycle, Proved!Boot, Proved!Subscribe, Proved!Serve,
         Proved!Stop, Proved!Unsubscribe, Proved!Shutdown, Proved!Crash,
         Proved!Abandon, Proved!Arrive, Proved!Handler, Proved!Take, Proved!Reject,
         Proved!WriteDone, Proved!WriteFails, Proved!WriteTimesOut,
         Proved!LateWrite, Proved!Late, Proved!Settled, Proved!Writable,
         Proved!Subject, Proved!Subjects, Proved!FirstOf, Proved!Image,
         Proved!Disrupted, Proved!Published, Proved!Idle, Proved!HeadMessage,
         Proved!UseEnumValues, Proved!outcome, Proved!life, Proved!vars,
         Service!Next, Service!Lifecycle, Service!Boot, Service!Subscribe,
         Service!Serve, Service!Stop, Service!Unsubscribe, Service!Shutdown,
         Service!Crash, Service!Abandon, Service!Arrive, Service!Handler,
         Service!Take, Service!Reject, Service!WriteDone, Service!WriteFails,
         Service!WriteTimesOut, Service!LateWrite, Service!Late, Service!Settled,
         Service!Writable, Service!Subject, Service!Subjects, Service!FirstOf,
         Service!Image, Service!Disrupted, Service!Published, Service!Idle,
         Service!HeadMessage, Service!UseEnumValues, Service!outcome, Service!life
<1>3. PathInv /\ [Next]_vars => [Proved!Next]_Proved!vars
  BY <1>2, StepOfService DEF PathInv
<1> QED BY <1>1, <1>3, PathInvariance, PTL DEF Spec, Proved!Spec

\* The theorems about the service, read off for the path.
LEMMA ServiceInvariance ==
  Spec => [](Proved!TypeOK /\ Proved!Accounted /\ Proved!OnlyOverdueOvertaken)
<1> USE QueueLimitAssumption, MaxLogAssumption, OfKindIsMessage
<1>1. Proved!Spec => []Proved!TypeOK
  BY Proved!TypeCorrect
<1>2. Proved!Spec => []Proved!Accounted
  BY Proved!Accounting
<1>3. Proved!Spec => []Proved!OnlyOverdueOvertaken
  BY Proved!Ordering
<1> QED BY <1>1, <1>2, <1>3, PathIsService, PTL

\* From the HTTP handler to the stores each subject tree is a channel that may
\* lose a message, and may deliver one late whose write timed out, and does
\* nothing else to it, whatever requests, refusals and disruptions there are.
THEOREM PathIsLossyFifo == Spec => Proved!ImplementsLossyFifo
<1>1. Proved!Spec => Proved!ImplementsLossyFifo
  BY Proved!LossyFifoImplemented, QueueLimitAssumption, MaxLogAssumption, OfKindIsMessage
<1> QED BY <1>1, PathIsService, PTL

\* The state of the path has the shape the code gives it, for every request.
THEOREM TypeCorrect == Spec => []TypeOK
<1>1. Proved!TypeOK /\ PathInv => TypeOK
  BY DEF Proved!TypeOK, Proved!Phase, Proved!Subject, PathInv, PathType, Packets,
         TypeOK, Service!TypeOK, Service!Phase, Service!Subject
<1> QED BY <1>1, ServiceInvariance, PathInvariance, PTL

\* One HTTP request puts an envelope into the stores at most once, whatever
\* subject tree it is published on and whatever is lost or restarted: the
\* server takes each envelope once, and the service writes each message it was
\* sent at most once.
THEOREM NoneStoredTwice == Spec => []StoredOnce
<1>1. /\ Proved!TypeOK /\ Proved!Accounted /\ Proved!OnlyOverdueOvertaken
      /\ PathInv
      => StoredOnce
  <2> SUFFICES ASSUME Proved!TypeOK, Proved!Accounted, Proved!OnlyOverdueOvertaken, PathInv,
                      NEW s \in Service!Subject, NEW t \in Service!Subject,
                      NEW i \in DOMAIN stored[s], NEW j \in DOMAIN stored[t],
                      EnvelopeAt(s, i) = EnvelopeAt(t, j)
               PROVE  s = t /\ i = j
    BY DEF StoredOnce
  <2>1. Service!Subject = Proved!Subject
    BY DEF Service!Subject, Proved!Subject
  <2>2. \A u \in Service!Subject : stored[u] \in Seq(Nat) /\ log[u] \in Seq(Delivery)
    BY <2>1 DEF Proved!TypeOK, PathInv, PathType
  <2>3. stored[s][i] \in DOMAIN log[s] /\ stored[t][j] \in DOMAIN log[t]
    <3>1. \A u \in Service!Subject : \A k \in DOMAIN stored[u] :
            stored[u][k] \in 1 .. Len(log[u])
      BY <2>1 DEF Proved!Accounted, Proved!Settled, Proved!Image
    <3>2. \A u \in Service!Subject : DOMAIN log[u] = 1 .. Len(log[u])
      BY <2>2
    <3> QED BY <3>1, <3>2
  <2>4. s = t /\ stored[s][i] = stored[t][j]
    BY <2>3 DEF PathInv, NoneTwice, EnvelopeAt
  <2>5. stored[s] \in Seq(Nat) /\ Proved!Ordered(stored[s], overdue[s])
    BY <2>1, <2>2 DEF Proved!OnlyOverdueOvertaken
  <2>6. /\ i \in Nat /\ j \in Nat
        /\ i < j => stored[s][i] # stored[s][j]
        /\ j < i => stored[s][j] # stored[s][i]
    <3>1. \A k \in DOMAIN stored[s] : k \in Nat /\ stored[s][k] \in Nat
      BY <2>5
    <3> QED BY <2>4, <2>5, <3>1 DEF Proved!Ordered
  <2> QED BY <2>4, <2>6
<1> QED BY <1>1, ServiceInvariance, PathInvariance, PTL
=============================================================================
