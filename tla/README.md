# Trishul in TLA+

Trishul is an FCAPS platform: one FastAPI process (`core-api`, a single uvicorn worker) that
accepts network events over HTTP, publishes them to NATS, stores them in InfluxDB and VictoriaLogs
and shows them live in browsers. The modules here model its event path, the middleware in front of
it, its start, its transform endpoints and the live feed of its shell; TLC checks them on small
instances and TLAPS proves what it can for every value of the constants. Paths below are relative to
the repository.

## 1. Inventory

| Component | State | Operations | Talks to |
|---|---|---|---|
| Lifespan (`core/app.py`) | `app.state`, phase of the process | start NATS, streams, Redis, stores, plugins, service; serve; stop in reverse | everything |
| Plugin handlers (`plugins/*/router.py`) | none of their own | receive, simulate, status, send | Redis (dedup key), pipelines, NATS |
| Transformer (`transformer/`) | registry of stages, job keys in Redis | run, submit, job status | NATS, stores |
| Schema registry (`transformer/schema_registry.py`) | a table in SQLite | create, get, list, delete | SQLite |
| Publishing (`core/bus/publisher.py`, `writers/nats.py`) | - | `js.publish` and its acknowledgement | JetStream |
| NATS client, streams (`core/bus/`) | connection, four streams | connect, provision, drain | NATS |
| NotificationService (`core/notifications/service.py`) | three subscriptions | start, stop, `_handle` | NATS, stores, broadcaster |
| WebSocket broadcaster (`core/ws/router.py`) | set of connections | connect, disconnect, broadcast, ping | browsers |
| Rate limiter (`core/middleware/rate_limit.py`) | a counter per client in Redis | dispatch | Redis |
| Authentication (`core/auth/`) | users in SQLite, blocklist and API keys in Redis | login, refresh, logout, keys | Redis, SQLite |
| Plugin registry (`core/plugin_registry.py`) | map of loaded plugins | load_all, shutdown_all | plugins, FastAPI |
| Stores (`core/storage/`) | HTTP clients | write_pm, write_fm, write_log, queries, health | InfluxDB, VictoriaLogs |
| Health, queries (`core/health`, `core/query_router.py`) | - | aggregate, search | stores, NATS, Redis |
| Shell (`ui/shell`) | socket, reconnect timer, ring of 200 events, plugins, session | start, stop, push | broadcaster, API |
| Consoles (`ui/mfe`) | socket of the hook, live and historical events | connect, fetchHistory, simulate | broadcaster, API |

How they interact. A request passes the rate limiter and reaches a handler, which looks at a dedup
key (webhook only), decodes and normalises the payload to an envelope and waits for JetStream's
acknowledgement of it. The NATS server keeps the message in a stream and also sends it to the core
subscriptions of NotificationService in the same process; `_handle` writes it to a store and should
broadcast it. Redis holds counters, dedup keys and tokens and may lose any of them (`allkeys-lru`,
no persistence). One event loop runs everything in the process, so state changes between awaits
are atomic and everything else interleaves at the awaits.

What is hard here: three handlers, many requests and the shutdown interleave at awaits; an
acknowledgement may come after its publisher gave up, and a write may land after its client did; batches fail in the middle; subscriptions are
plain, so nothing is delivered twice and what is missed is gone; pending queues are bounded; two
Redis commands are not one; browsers reconnect by timers that outlive what started them.
`PROJECT.json` lists these hazards line by line.

What makes each part correct:

- event path: what is answered with success is durable; a batch leaves a prefix; an envelope is
  stored at most once; every request is answered; without disruption every accepted envelope is stored that
  a store can write and that was published where the service listens;
- NotificationService: every message ends in one place; the stores see each subject tree in order, but for
  writes that were given up on; a stop or a crash leaves no work behind;
- rate limiter: a window admits at most its limit and the requests it began under, and ends;
- broadcaster: a browser that stays connected gets every announced envelope once, in order; a dead
  connection leaves the set and does not disturb the others;
- shell: at most one live socket, also when the onclose of a stopped one reconnects after the stop (the
  next login then takes over its socket), and a reconnect as long as attempts are left;
- start: a plugin, a stream or a dependency that fails stays the only one that fails, and what is
  listed works;
- transform jobs: a job known to its status endpoint is in the queue, and the reverse unless the submit
  failed or the key has gone;
- pure mappings: severity, domain and value of an event survive decoding, normalising, storage and search, or
  the event is one of the named kinds that are lost.

## 2. Modules

| Module | Models | Built from |
|---|---|---|
| `LossyFifo` | what a subject tree promises to who reads the stores | - |
| `NotificationService` | `service.py`, the process around it, the NATS subscriptions | refines `LossyFifo` |
| `IngestPath` | HTTP handlers, dedup key, publishing, JetStream, service | instantiates `NotificationService` |
| `RateLimit` | `rate_limit.py` | - |
| `ContiguousFeed` | what the broadcaster promises to a browser | - |
| `WsBroadcaster` | `core/ws/router.py` | refines `ContiguousFeed` |
| `Startup` | start of `app.py`, `streams.py`, both registries, `/health` | - |
| `EventContent` | decoders, normalizer, encoders, simulators, stored documents, event search | - |
| `TransformJobs` | submit and job status of `transformer/router.py` | - |
| `MCIngestPath` | nothing further: the symmetry of the requests, for TLC | extends `IngestPath` |
| `Transformer` | run, submit and status of `transformer/router.py` in one process | composes `EventContent`, `TransformJobs` |
| `ShellWs` | `ws/client.ts`, `store/events.ts`, login and logout of the shell | - |
| `...Proofs` (eight) | the theorems about `NotificationService`, `IngestPath`, `RateLimit`, `WsBroadcaster`, `Startup`, `EventContent`, `Transformer` and `ShellWs` | extend those |

**NotificationService.** `phase` is where the lifespan stands, `subs` the subscriptions NATS knows.
Per subject tree: `log` is what the server took, `queue` the pending queue of nats.py, `cur` the
message whose handler waits for its write, `stored`, `lost` and `announced` what became of each, and
`overdue` the messages whose write nobody waits for any more. Messages are named by their offset in
`log`. `Subscribe` and `Unsubscribe` are one round each of the loops of `start()` and `stop()`, which
await; `Take`, `Reject`, `WriteDone`, `WriteFails` and `WriteTimesOut` are `_handle` cut at the await of
the write. nats.py awaits the callback before it takes the next message, hence one `cur` per subscription.
`WriteFails` is a write that was not carried out: the line has no number (`Unwritable`), the store refuses it
or is not there. `WriteTimesOut` is a client that gives up on the answer (both have a timeout, of ten
seconds); the store has the request and may carry it out at any later time (`LateWrite`), after writes of
later messages and after the process has gone. `Abandon` is what `unsubscribe()` or the end of the process
does: what is pending is lost, and a write in flight becomes overdue.
`WriteDone` does not announce: line 74 of `service.py` raises before the broadcast, see findings.
JetStream's copy of a message is not delivered to anyone, so nothing is stored again after a restart.

**LossyFifo.** `log`, `stored` and `overdue`. The channel goes through the log once: it stores a message after
all it was busy with before, skips it, or stops waiting for it (`Delay`); an overdue message may arrive
later, once (`Overtaken`). The mapping is `log <- log[s]`, `stored <- stored[s]`,
`overdue <- overdue[s]`, for each `s`.

**IngestPath.** `req[r]` is one HTTP request: which endpoint (a row of `Endpoint`: the trees of subjects it may
publish on, dedup or not, batch or not), the tree, how many envelopes, how many are acknowledged, where its
handler waits. All endpoints but one publish on a subject of their configuration; `transform/run` takes it
from `sink_config`, so it may be any: one of the three trees the service listens to, `fcaps.process.>`,
which has a stream and no subscription, or one that has neither (`elsewhere`; js.publish then fails).
Its encoder may also make bytes that are no envelope (`foreign`), and any endpoint may be given an envelope
that no store can write (`unwritable`).
`wire` is the NATS connection from the client to the server, `kept` what JetStream stored, `acked`
what it acknowledged, `keys` the dedup keys. `Publish` is decode, normalise, encode and the send, none
of which suspends the handler; `Acknowledged` and `PublishFails` are the two ends of the wait.
`Route` is the server: it stores and acknowledges (unless the stream refuses) and delivers. A request
may repeat the event of one that failed, as a client does that retries. `Stop` waits for the requests in
progress, as uvicorn does.
Requests that fail validation before the handler, and `raw_payload`, tags and texts, are left out.

**RateLimit.** One client (keys of different clients do not interact). `count` saturates one above
the limit, since the code tells no larger values apart; so there is no bound on the number of
requests. `admitted` is history: the requests handed to the application in the present window, whichever
window they counted in. `Held` are those that have seen a value within the limit and not been handed on yet;
`overtaken` is how many there were when the window began, and a window hands on at most `Limit + overtaken`.
`fresh` (who counted in the present window) and `cut` are history for who owes the key its TTL, and for the one
way to lose it.

**ContiguousFeed.** One subject tree: who joins is sent, from then on, each message announced, once and in
order; a delivery may stop anywhere but skips nothing.

**WsBroadcaster.** `conns` is `ConnectionManager._connections`, `loop[c]` where the `ws_events`
coroutine of a connection stands, `peer[c]` the browser's end of it, `cast[t]` the broadcast that the
handler of tree `t` is in: the copy it has not come to (`todo`), whom it found dead, whose send it
waits for. Each send is an await, so browsers come, go and stall within a broadcast and the broadcasts
of several trees interleave; the copy of a set has no order, so any member may be next. The caller never
gets as far as this in the present code (finding `Broadcast`); the module models `broadcast_envelope`
for whoever calls it. The mapping to `ContiguousFeed` counts as joined who was accepted, also after it
has left.

**Startup.** `pc` is where `lifespan` stands and `todo` what remains of the loop it is in, one stream
or one plugin a step. `stages` is `pipeline_registry`, whose `register_*` overwrite a name;
`plugins` and `routes` are the two things `load_all` adds for a plugin. The start waits for a NATS server that is
absent; one that stops answering in the middle, or that answers `add_stream` with an error that is no
`BadRequestError` (JetStream off, out of storage or without a leader: the dependency `jetstream`, which
`/health` does not ask for), or an absent Redis, ends the process, and Docker starts it again. The stores connect to nothing then and count for `/health` only. A stream that is refused with a
`BadRequestError` and a plugin that raises are logged.
The streams survive; an earlier version may have left one with other subjects.

**EventContent.** One event from the request to the stored document. A Python dict is a function on the keys
that matter (domain, severity, value, name of the network element, trap, the VES header and fault); a payload has
a form and what it says. Each decoder, the normalizer, the encoders, `write_pm` and `_write` are pure operators;
the actions are the stages of a handler, each of which may refuse. The endpoints are the `receive` and
`simulate` of the six plugins and `transform/run` with every choice of decoder, encoder and writer.
`asked` is what a request asks for and no more: in `snmp/simulate` the type of trap, from which the simulator
takes a severity, the decoder might take another, and `WantedSeverity` says which one is meant. The names
that matter are three: one that line protocol takes as it stands, one with a space or a comma, and the empty
one; `IsTag` and `IsNumber` say what InfluxDB refuses of the line `write_pm` builds without escapes.

**TransformJobs, Transformer.** `process` is the stream `FCAPS_PROCESS`, `records` the job keys in
Redis, `job[j]` where the handler of a submit stands between its two awaits. A crash may leave a publish or a
SETEX in flight done or not done. `Transformer` interleaves it with `EventContent`. The two share no variable,
so `Transformer` is a product: it says that they are endpoints of one process, not that they interact.

**ShellWs.** A WebSocket is an object whose callbacks outlive its being stopped, so `ws` is only the name
the client has for one of them. `"aborting"` is a socket closed before it was open: the browser fails
its connection, with an error. `reconnectTimer` is the timer the variable names; a second `Retry`
overwrites the name, and the first timer goes on as one of `loose`, which no stop can clear. A timer may
fire at any time after it was set, also between a `close()` and the events it causes. `startWebSocket` has one guard that is
a bound of the model: a user does not come back more often than there are sockets for the traces of
earlier visits. Timers and sockets turn into each other one for one, so that bound also makes sure that
`NewSocket` always finds a socket and never restricts a step.

## 3. Runs

| Run | Instance | Shows |
|---|---|---|
| `NotificationService` | 3 subject trees, pending limit 2, 3 messages (good, garbled, unwritable), crash, stop, lost link, failed and late write | `Accounted`, `OnlyOverdueOvertaken`, `NoWorkWithoutSubscription`, `ImplementsLossyFifo`, `EveryMessageSettles` |
| `IngestPath` | 2 interchangeable requests, batches of 0 to 2, 13 endpoints, 5 subject trees, every disruption | `AcceptedIsDurable`, `BatchIsPrefix`, `StoredOnce` |
| `IngestPathCalm` | the same without a disruption; publishers may give up, redis keys go, pending limit 4 | `AcceptedIsStored`, `EveryRequestIsAnswered` |
| `RateLimit` | 3 concurrent requests, limit 2, Redis errors, evictions, crashes | `WindowRespectsLimit`, `TtlIsOwed`, `CounterEndsUnlessCut` |
| `WsBroadcaster` | 2 subject trees, 2 browsers of which one stalls, 2 broadcasts | `PresentIsRegistered`, `NobodyIsSkipped`, `ImplementsContiguousFeed`, `GoneLeavesTheSet`, `BroadcastEnds` |
| `Startup` | 4 streams of which 1 is old, 6 plugins of which 2 may raise, 4 flaky dependencies, JetStream among them | `ListedIsComplete`, `FailureIsLocal`, `HealthyInTheEnd` |
| `Transformer` | 1 event through every endpoint and choice of stages, 1 job | `FoundBySeverity`, `SimulatedAsAsked`, `LostOnlyIfUnwritable`, `StatusAgreesWithQueue` |
| `ShellWs` | 3 sockets, 2 attempts, a list of 2, 3 envelopes | `OneLiveSocket`, `NeverSilentlyDown`, `ShownNewestFirst`, `ComesBack` |
| `VesSearch` | every event of `EventContent` | refutes `VesFoundByDomain` |
| `Broadcast` | no disruption | refutes `StoredIsAnnounced` |
| `RetriedEvent` | no disruption but a late acknowledgement | refutes `RetriedEventStoredOnce` |
| `StuckCounter` | Redis errors | refutes `CounterIsShortLived` |

Every passing run also checks the `TypeOK` of its module, but for `IngestPathCalm`, whose states are
among those of `IngestPath`.

Bounds. `MaxLog` (messages in the history) and the number of requests are bounds of the model;
`QueueLimit` is the limit of nats.py made small. With a limit of two, three messages overflow a queue before the
first is taken; a message whose write is overdue, one in the handler behind it and one pending are every
relation the order properties speak of; with a fourth message the states multiply and no new relation comes.
Two requests of two envelopes give two batches that interleave, a failed one and a retry. Three requests against a limit of two race for the last place
and pass the limit. In `IngestPath` the requests are a symmetry set: no definition tells them apart, and the run
checks invariants only. `IngestPathCalm`, which checks liveness, has no symmetry; its pending limit of four is
room for all four messages, which is what its property is about, and its disruptions are none.

In `WsBroadcaster`, `MaxAnnounced` bounds the broadcasts of all trees together: two of them run at once
or one after the other, with a browser that comes, leaves or stalls within each; `Slow` says which browser
may stall. In `Startup`, `MaxFaulty` is the number of plugins that raise in one start (two: one before
and one after a plugin that does not), `Flaky` the dependencies that go down, `OldStreams` the streams
that need an update; VictoriaLogs counts as InfluxDB does, for `/health`, and is left up. In `Transformer`, jobs do not
interact, with each other or with an event, so one is what there is to see; `JobsAgree` is the same for any number. In `ShellWs`, three sockets are the one `ws` names, the one before
that still has to call back, and one of the visit before; `MAX_RECONNECT` and `MAX_EVENTS` are 10 and 200 made small
enough to be reached; three envelopes (`MaxAnnounced`) overflow a list of two.

Deadlock is checked, but for `IngestPathCalm` and `RetriedEvent` (their finite set of requests is
used up), `Transformer` (its one event is stored or refused and its job is done), `WsBroadcaster` (all
browsers have gone and all broadcasts are done) and `VesSearch` (its one event is stored or refused).

Fairness. `WF` of each handler: the event loop runs every task that is ready, and both storage
clients time out a write. `WF` of each HTTP handler's steps: `js.publish` has a timeout. `WF` of
`Route`: nats.py reconnects for ever (`max_reconnect_attempts=-1`) and flushes what it holds. `WF` of
`KeyExpires`: time passes. `WsBroadcaster` has `WF` of `KeepaliveCloses` (uvicorn pings every browser
every 20 seconds and closes one that is silent; `--ws-ping` is left at its default; when the write buffer of the connection is already full, the
ping itself waits for it, and what closes the connection then is TCP giving up on the peer, so `WF` is the
optimistic reading) and `SF` of the coroutines: a
browser that reads a little and stalls again enables the pending send again and again, and each time its
task is woken, and stays so. `Startup` has `WF` of `Lifespan`, which contains the restart
(`restart: unless-stopped` in `docker-compose.yml`), and of `Health` (the shell's Topbar polls it).
`ShellWs` has `WF` of the callbacks of each socket and of the timers: the browser runs both. No fairness
is assumed of clients, users, servers that come back, disruptions or shutdowns; where a property needs
that a disruption ends, it says so on the left of `=>` (`HealthyInTheEnd`, `ComesBack`).

## 4. Findings

- `Broadcast`: nothing stored is ever announced. `use_enum_values` makes `envelope.domain` a `str`
  and `envelope.domain.value` (`service.py:74`) raises after the write and before the broadcast.
- `RetriedEvent`: the dedup key is made from an id drawn inside the request, so it cannot recognise a
  retry, which `docs/architecture.md` (design rule 10) says it does.
- `StuckCounter`: a failed EXPIRE leaves a counter without a TTL; its client gets a 429 for ever.
- `VesSearch`: `VESDecoder` keeps the header's `domain` ("fault") in the normalised data, which
  overwrites the envelope's domain in the stored document (`victorialogs.py:29`), so the query
  `domain:FM AND severity:CRITICAL` of `docs/architecture.md:440` does not find the fault.

Met on the way, and contradicted by no text a run could quote:

- `write_pm` builds a line of line protocol without escapes (`influxdb.py:25-28`). A metric whose network element
  is empty or has a space or a comma in its name is answered with 202 and refused by InfluxDB, and so is one whose
  value is nan or inf; one whose value is no number raises before. The service logs it and the sender does not
  learn of it. `LostOnlyIfUnwritable` names exactly what can be lost in this way.
- `transform/run` takes its subject from the request (`writers/nats.py:14`): what is accepted may be on a
  subject that nobody reads.
- `add_stream` is given only the name and the subjects of `STREAM_CONFIGS`, not its storage, retention or
  max_age.
- `provision_streams` survives a `BadRequestError` only: with JetStream out of storage or off, the process never
  comes to serve.
- A rate-limit window may hand on more than the limit: requests that took a place of the window before and were
  still waiting for Redis come on top (`overtaken`).
- The SNMP console offers "authenticationFailure" (`SnmpModule.tsx:6`), which the simulator's table does not
  have (`plugins/snmp/simulator.py:9` says "authFail"): it is simulated with the severity of a linkDown.
- A PM event without a `value` at the top level, such as a VES measurement, is stored as 0.0.
- "notification" is FM for `VESDecoder` and LOG for the VES router.
- `query_pm` filters by a tag `metric_name` that `write_pm` does not write.
- `AvroDecoder` and `AvroEncoder` are registered without a schema.
- Nothing consumes `fcaps.process.transform`.
- The shell does not notice a connection whose server has vanished without closing it.

## 5. Proofs

`NotificationServiceProofs`, for any set of messages, any pending limit, any bound and any set of
disruptions: `TypeCorrect`, `Accounting`, `Ordering`, `NothingLeftBehind`, and
`LossyFifoImplemented`. None of the invariants is inductive: `OnlyOverdueOvertaken` needs that what is in the
handler comes after what is stored or overdue and before what is pending; `Accounted` needs that offsets never exceed
the log. `ChannelInv` says all of it of one subject tree in four parts (type, ascending order,
coverage, soundness), where stored and overdue messages count alike: the handler has tried them (`Tried`). So a
late write, which moves a message from the second to the first, changes nothing of it, and its place in `stored` is
what `OnlyOverdueOvertaken` excepts. Every other action changes a subject tree in one of six ways, and one
lemma for each (`ChannelDelivered`, `ChannelMissed`, `ChannelTaken`, `ChannelDropped`, `ChannelTried`,
`ChannelForgotten`) shows that `ChannelInv` survives; a stop or a crash is the composition of two of
them on each subject tree. The refinement follows: a handler's message is in the log and after
everything stored or overdue (`InFlightIsNext`). The assumptions used are those named in the module.

`IngestPathProofs`, for any set of requests, any batch bound and any set of disruptions:
`TypeCorrect`, `Durability`, `DurablePrefix`, `NoneStoredTwice` and `PathIsLossyFifo`. The invariant is `PathInv`, in four parts besides its type: how far a handler
is (`Progress`), what was acknowledged to it is in the stream (`SentIsKept`), nothing on the wire or
at the server is ahead of the frontier of its request (`NothingAhead`), and no envelope is there twice
(`NoneTwice`). The frontier is one envelope beyond the acknowledged ones while the handler waits or has
failed, and none otherwise; so what `Publish` sends is new, which is what keeps `NoneTwice`.
The lemma `PathIsService` carries the theorems of the service over to the path, where the messages are
the deliveries: `StoredOnce` is what the server took once (`NoneTwice`) and the service wrote at most
once (`Accounting`, `Ordering`). The assumptions used are those named in the two modules.

`PathIsLossyFifo` carries the service's refinement of `LossyFifo` over in the same way, from the HTTP
handler to the stores.

`RateLimitProofs`, for any limit and any finite set of requests: `TypeCorrect`, `LimitRespected` and
`TtlNotForgotten`.
`WindowRespectsLimit` is not inductive: a request is admitted on a value it may have seen long ago. The
requests that saw a value within the limit and are not decided hold a place each (`Held`); `Places` says that
the places given and held together exceed neither the counter nor the limit by more than `overtaken`. INCR adds at
most one held place and one to the counter, a decision turns a held place into a given one, and the end of a window
makes the held places the overtaken ones. It needs `RequestsAssumption` (finitely many requests at a time) for cardinalities.
`TtlIsOwed` is the safety core of `CounterEndsUnlessCut`, and inductive with the types: INCR of an absent key
makes the debt, the steps of other requests leave it, EXPIRE pays it and a failure in between sets `cut`.

`WsBroadcasterProofs`, for any number of trees, browsers and broadcasts: `TypeCorrect`, `PresentRegistered`,
`NoneSkipped`, `WrittenConsecutively` and `ContiguousFeedImplemented`. What holds between broadcasts is not
inductive; what holds within one is (`Fed`): a browser that is there was sent all that was announced since it
came, but for the broadcast that still has it in its copy. `Members` adds that only who has gone is found dead
or disconnected, and that a copy contains only who was accepted. So a message written to a browser is the number
it is owed (`Owed`), which is the step of the refinement (`SendIsDelivery`), of `Begun` (nothing is written that
has not begun) and of `Consecutive` (what was written are the numbers after `since`, in order).

`StartupProofs`, for any streams of an earlier version, any flaky dependencies and any number of plugins that
raise: `TypeCorrect`, `ListedComplete` and `FailuresAreLocal`. None of the invariants is inductive: in the
middle of a loop they are true only of the elements it has passed. `Rest(todo, list)` says that what is left is a
suffix of the list and `Passed` are the elements before it; `RestOfTail` says that a round of the loop passes
one element more, and one it has not passed before, since the lists have no element twice (`Distinct`). With
these, `Provisioned` says of the streams passed, and `Loaded` of the plugins passed, that they are in place
or logged; `Staged` says which stages the position of `lifespan` implies. They become the properties when
everything is passed. `RestIsSuffix` connects `Rest` to the `IsSuffix` of the type invariant.

`EventContentProofs` first says what one stage does with any dict: `DocumentIsFound` gives the condition under
which a stored document is found by its severity, and shows that it is found by its domain if and only if its data
names no other one (finding `VesSearch` is where it names one). The invariant `Way` says that each stage was given
what the one before made, so that what is stored is `Document` or `Sample` of what `Normalize` made of the
decoded payload. `FoundForAnyPayload` concludes `FoundBySeverity` from `Way` for any payload, provided
that a request that tells the normalizer a severity says it in its payload too (`SaysItsSeverity`; the webhook
endpoints do). `Fits` says what each endpoint's requests and payloads have to do with each other, and is proved
of `Requests` table by table; with it `TypeCorrect`, `SeverityFinds`, `SimulationsAsAsked` and
`WritableIsStored` hold of every request: an element that a request names by a tag is the one that is written
(`NamedElement`), so only the named kinds can be refused behind NATS. For a simulated VES fault the two translations of severities
cancel out (`FaultSeverity`).

`TransformerProofs`, for any set of jobs: `JobsAgree` and `EventsUndisturbed`, which carries the theorems of `EventContentProofs` over to the process with jobs.
`JobInv` adds to `StatusAgreesWithQueue` where a job stands that is in the stream: past its publish, and
in it before it may be recorded.

`ShellWsProofs`, for any number of sockets, attempts, envelopes and any size of the list: `TypeCorrect`,
`OneConnection`, `NotForgotten` and `NewestFirst`. `ClientInv` is `OneLiveSocket` and `NeverSilentlyDown`
with the types of the client's variables, and inductive: a timer reconnects only when `ws` is not live, and each
way for `ws` to end sets a timer or counts the last attempt. `StoreInv` says that the list shows only
what was announced, newest first, and that a badge above its length means it has overflowed; one
announcement adds one entry because at most one socket is open, which is `OneConnection`.

Only model-checked: the liveness properties (`EveryMessageSettles`, `AcceptedIsStored`,
`EveryRequestIsAnswered`, `CounterEndsUnlessCut`, `GoneLeavesTheSet`, `BroadcastEnds`,
`HealthyInTheEnd`, `ComesBack`), since liveness under fairness is beyond the prover. Every other property of a
passing run is also a theorem.

## 6. Not modelled

- The schema registry (`transformer/schema_registry.py`): a table each of whose endpoints is one synchronous
  transaction, whose primary key SQLite keeps, and which nothing else reads, since the registered decoders and
  encoders are made without it (`core/app.py:53-58`).
- Authentication (`core/auth/`). `create_app` (`core/app.py:140-148`) installs no `AuthMiddleware`, so
  no request carries a user: login and refresh keep no state, and logout, me and the API keys read an attribute
  that nothing sets. There is no behaviour over several steps to check.
- The consoles (`ui/mfe`) and `RemotePage`. They show what the backend answers; their hook opens another
  connection for each visit, and two searches or loads in flight may answer in either order. The code
  has nothing that would exclude either and no document says it is excluded, so there is no property to state; the
  hazards list them.
- `run_with_reader`, the readers and the file, SFTP and HTTP adapters: nothing in the repository calls
  them.
- Settings, error handler and logging: no state; a handler that raises is an outcome of the path.
- `query_pm`, health details and the other queries: pure I/O whose answers are the stores'.
- Simulated values beyond domain, severity and value (random), binary codecs (libraries), rendering,
  nginx, Traefik, and Docker beyond the restart policy.

Modelled in part, for the same reasons: the handlers' status, send and upload endpoints, which do not touch
the event path; the shell's stores of the user and the plugins, which only hold an answer.
