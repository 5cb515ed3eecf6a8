------------------------------- MODULE Startup -------------------------------
(***************************************************************************)
(* The start of core-api: lifespan of core/app.py connects NATS, provisions*)
(* the streams, pings Redis, builds the stores, loads the plugins and only *)
(* then serves; an exception on the way ends the process, which Docker     *)
(* starts again.  A stream the server refuses as a bad request and a plugin*)
(* that raises are only logged.  The streams live in the NATS server and outlast the       *)
(* process; everything else is rebuilt.                                    *)
(***************************************************************************)
EXTENDS Naturals, FiniteSets, SequencesExt

CONSTANTS
  MaxFaulty,   \* bound of the model: the plugins that raise in one start
  Flaky,       \* the dependencies that may go down
  OldStreams   \* the streams an earlier version left, with other subjects

VARIABLES
  pc,        \* where lifespan stands
  todo,      \* what the loop lifespan is in has not come to
  up,        \* the dependencies that answer in time and do what they are asked
  streams,   \* per stream, what the NATS server has
  refused,   \* the streams of which this start logged a failure
  stages,    \* pipeline_registry: the stages registered
  plugins,   \* PluginRegistry.plugins, the entries
  routes,    \* the plugins whose router the application has
  faulty,    \* the plugins of which this start logged a failure
  health     \* the answer of the last GET /health

vars == <<pc, todo, up, streams, refused, stages, plugins, routes, faulty, health>>
logged == <<refused, faulty>>
registered == <<stages, plugins, routes>>

\* What GET /health probes.  It does not ask NATS for its JetStream, which may be
\* off, out of storage or without a leader in a server that answers.
Probed == {"nats", "redis", "influxdb", "victorialogs"}
Dependency == Probed \cup {"jetstream"}
ASSUME FlakyAssumption == Flaky \in SUBSET Dependency
ASSUME MaxFaultyAssumption == MaxFaulty \in Nat

StreamConfigs == <<"FCAPS_INGEST", "FCAPS_PROCESS", "FCAPS_DONE", "FCAPS_SIM">>
Stream == ToSet(StreamConfigs)
ASSUME OldStreamsAssumption == OldStreams \in SUBSET Stream
-----------------------------------------------------------------------------
(* The stages of the pipelines, and who registers them.                   *)

Stages(kind, names) == {kind} \X names

StaticStages ==
  UNION { Stages("decoder", {"json", "csv", "xml", "ves", "snmp", "protobuf", "avro"}),
          Stages("encoder", {"json", "csv", "protobuf", "avro"}),
          Stages("reader", {"file", "webhook", "http_poll"}) }
NatsStages  == Stages("reader", {"nats"}) \cup Stages("writer", {"nats"})
StoreStages == Stages("writer", {"influxdb", "victorialogs"})

\* What on_startup of each plugin registers, in its order.
Avro     == <<<<"decoder", "avro">>>>
Protobuf == <<<<"decoder", "protobuf">>>>
Sftp     == <<<<"reader", "sftp">>, <<"writer", "sftp">>>>
Snmp     == <<<<"decoder", "snmp">>, <<"writer", "webhook">>>>
Ves      == <<<<"decoder", "ves">>>>
Webhook  == <<<<"decoder", "json">>>>

\* The plugins as pkgutil finds them; `shared` is skipped.
Discovered == <<"avro", "protobuf", "sftp", "snmp", "ves", "webhook">>
Plugin == ToSet(Discovered)
OnStartup(p) ==
  CASE p = "avro" -> Avro [] p = "protobuf" -> Protobuf [] p = "sftp" -> Sftp
    [] p = "snmp" -> Snmp [] p = "ves" -> Ves [] p = "webhook" -> Webhook

\* GET /api/v1/plugins/registry lists the plugins entered and the pages of the
\* UI that have no plugin.
UiOnly == {"fm-console", "pm-dashboard", "log-viewer"}
Listed == plugins \cup UiOnly
-----------------------------------------------------------------------------
Init ==
  /\ pc = "down"
  /\ todo = <<>>
  /\ up = Dependency
  /\ streams = [s \in Stream |-> IF s \in OldStreams THEN "old" ELSE "absent"]
  /\ refused = {} /\ faulty = {}
  /\ stages = {} /\ plugins = {} /\ routes = {}
  /\ health = "unasked"

\* State that outlives the process it describes.
EndsRemembering ==
  /\ pc' = "down"
  /\ todo' = <<>>
  /\ refused' = {} /\ faulty' = {}
  /\ plugins' = {} /\ routes' = {}
  /\ UNCHANGED <<up, stages, health>>

\* An exception leaves lifespan, or the process ends: nothing of it is left.
Ends ==
  /\ pc' = "down"
  /\ todo' = <<>>
  /\ refused' = {} /\ faulty' = {}
  /\ stages' = {} /\ plugins' = {} /\ routes' = {}
  /\ health' = "unasked"
  /\ UNCHANGED up

\* The process starts: the stages that need no connection.
Boot ==
  /\ pc = "down"
  /\ pc' = "nats"
  /\ stages' = StaticStages
  /\ UNCHANGED <<todo, up, streams, logged, plugins, routes, health>>

\* nats.connect: with max_reconnect_attempts=-1 it tries until a server answers.
ConnectNats ==
  /\ pc = "nats"
  /\ "nats" \in up
  /\ pc' = "streams"
  /\ todo' = StreamConfigs
  /\ UNCHANGED <<up, streams, logged, registered, health>>

\* A loop that the first failure leaves.
ProvisionFailsStopping ==
  /\ pc = "streams" /\ todo # <<>>
  /\ LET s == Head(todo) IN
       /\ streams[s] # "current"
       /\ \/ UNCHANGED streams
          \/ streams' = [streams EXCEPT ![s] = "current"]
       /\ refused' = refused \cup {s}
  /\ todo' = <<>>
  /\ UNCHANGED <<pc, up, faulty, registered, health>>

\* A provisioner without the inner try: the refusal leaves lifespan.
ProvisionFailsRaising ==
  /\ pc = "streams" /\ todo # <<>>
  /\ streams[Head(todo)] # "current"
  /\ Ends
  /\ UNCHANGED streams

\* One round of provision_streams: add_stream finds the stream as it should
\* be or creates it, or update_stream changes it.
Provision ==
  /\ pc = "streams" /\ todo # <<>>
  /\ {"nats", "jetstream"} \subseteq up
  /\ streams' = [streams EXCEPT ![Head(todo)] = "current"]
  /\ todo' = Tail(todo)
  /\ UNCHANGED <<pc, up, logged, registered, health>>

\* BadRequestError (the name is taken with other subjects, or they overlap those
\* of another stream), and update_stream fails too, which is only logged; it may
\* have been done all the same.
ProvisionFails ==
  /\ pc = "streams" /\ todo # <<>>
  /\ LET s == Head(todo) IN
       /\ streams[s] # "current"
       /\ \/ UNCHANGED streams
          \/ streams' = [streams EXCEPT ![s] = "current"]
       /\ refused' = refused \cup {s}
  /\ todo' = Tail(todo)
  /\ UNCHANGED <<pc, up, faulty, registered, health>>

\* Any other exception of add_stream leaves lifespan: no answer in time, or an
\* error of the server that is no BadRequestError (`except BadRequestError`).
ProvisionRaises ==
  /\ pc = "streams" /\ todo # <<>>
  /\ ~({"nats", "jetstream"} \subseteq up)
  /\ Ends
  /\ \/ UNCHANGED streams
     \/ streams' = [streams EXCEPT ![Head(todo)] = "current"]

\* redis.ping, then the stages that wrap the NATS client and the stores, which
\* are HTTP clients and connect to nothing yet.
PingRedis ==
  /\ pc = "streams" /\ todo = <<>>
  /\ "redis" \in up
  /\ pc' = "plugins"
  /\ todo' = Discovered
  /\ stages' = stages \cup NatsStages \cup StoreStages
  /\ UNCHANGED <<up, streams, logged, plugins, routes, health>>

PingRaises ==
  /\ pc = "streams" /\ todo = <<>>
  /\ "redis" \notin up
  /\ Ends
  /\ UNCHANGED streams
-----------------------------------------------------------------------------
(* One round of load_all: import, on_startup, include_router, entry.  None *)
(* of the six suspends in on_startup, so a round is one step.              *)

LoadPlugin ==
  /\ pc = "plugins" /\ todo # <<>>
  /\ LET p == Head(todo) IN
       /\ stages' = stages \cup ToSet(OnStartup(p))
       /\ routes' = routes \cup {p}
       /\ plugins' = plugins \cup {p}
  /\ todo' = Tail(todo)
  /\ UNCHANGED <<pc, up, streams, logged, health>>

\* A registry that enters the plugin before it has started.
PluginRaisesEntered ==
  /\ pc = "plugins" /\ todo # <<>>
  /\ Cardinality(faulty) < MaxFaulty
  /\ LET p == Head(todo) IN
       /\ \E n \in 0 .. Len(OnStartup(p)) :
            stages' = stages \cup ToSet(SubSeq(OnStartup(p), 1, n))
       /\ plugins' = plugins \cup {p}
       /\ faulty' = faulty \cup {p}
  /\ todo' = Tail(todo)
  /\ UNCHANGED <<pc, up, streams, refused, routes, health>>

\* The round raises: in the import, or in on_startup, which may have registered
\* some of its stages.  The exception is logged and the loop goes on.
PluginRaises ==
  /\ pc = "plugins" /\ todo # <<>>
  /\ Cardinality(faulty) < MaxFaulty
  /\ LET p == Head(todo) IN
       /\ \E n \in 0 .. Len(OnStartup(p)) :
            stages' = stages \cup ToSet(SubSeq(OnStartup(p), 1, n))
       /\ faulty' = faulty \cup {p}
  /\ todo' = Tail(todo)
  /\ UNCHANGED <<pc, up, streams, refused, plugins, routes, health>>

\* NotificationService.start, then lifespan yields and uvicorn serves.
Serve ==
  /\ pc = "plugins" /\ todo = <<>>
  /\ pc' = "serving"
  /\ UNCHANGED <<todo, up, streams, logged, registered, health>>
-----------------------------------------------------------------------------
(* The process at work, and its surroundings.                             *)

Overall(errors) ==
  IF errors \cap {"nats", "redis"} # {} THEN "unhealthy"
  ELSE IF errors # {} THEN "degraded" ELSE "healthy"

\* GET /health: a check that raises or takes two seconds is an error.
Health ==
  /\ pc = "serving"
  /\ health' = Overall(Probed \ up)
  /\ UNCHANGED <<pc, todo, up, streams, logged, registered>>

\* A process that serves is stopped or crashes; shutdown_all logs what raises and
\* goes on, so both end alike.  (A start that is killed is a start that raises.)
Shutdown == pc = "serving" /\ Ends /\ UNCHANGED streams

Fails(d) ==
  /\ d \in Flaky \cap up
  /\ up' = up \ {d}
  /\ UNCHANGED <<pc, todo, streams, logged, registered, health>>

Recovers(d) ==
  /\ d \notin up
  /\ up' = up \cup {d}
  /\ UNCHANGED <<pc, todo, streams, logged, registered, health>>

Lifespan ==
  \/ Boot \/ ConnectNats
  \/ Provision \/ ProvisionFails \/ ProvisionRaises
  \/ PingRedis \/ PingRaises
  \/ LoadPlugin \/ PluginRaises \/ Serve

Next ==
  \/ Lifespan
  \/ Health
  \/ Shutdown
  \/ \E d \in Dependency : Fails(d) \/ Recovers(d)

Spec == Init /\ [][Next]_vars

\* The coroutine goes on while it can, Docker starts an ended process
\* (restart: unless-stopped), and the shell's Topbar polls /health.
FairSpec == Spec /\ WF_vars(Lifespan) /\ WF_vars(Health)
-----------------------------------------------------------------------------
(* Properties.                                                            *)

StageType == {"decoder", "encoder", "reader", "writer"} \X
  {"json", "csv", "xml", "ves", "snmp", "protobuf", "avro", "file", "webhook",
   "http_poll", "nats", "influxdb", "victorialogs", "sftp"}

\* The type invariant: every variable keeps its shape; what is left to do is the
\* rest of the loop lifespan is in, and nothing of a process outlives it.
TypeOK ==
  /\ pc \in {"down", "nats", "streams", "plugins", "serving"}
  /\ IsSuffix(todo, CASE pc = "streams" -> StreamConfigs
                      [] pc = "plugins" -> Discovered
                      [] OTHER -> <<>>)
  /\ up \in SUBSET Dependency
  /\ streams \in [Stream -> {"absent", "old", "current"}]
  /\ refused \in SUBSET Stream
  /\ stages \in SUBSET StageType
  /\ plugins \in SUBSET Plugin /\ routes \in SUBSET Plugin /\ faulty \in SUBSET Plugin
  /\ health \in {"unasked", "healthy", "degraded", "unhealthy"}
  /\ pc = "down" => stages = {} /\ health = "unasked"

\* Who is listed works: a plugin that the registry endpoint shows to the shell as
\* "healthy" (plugins_registry_router.py:65) has its routes and every stage its
\* on_startup registers, and a plugin that is not listed has no routes.
ListedIsComplete ==
  /\ Listed \ UiOnly = routes
  /\ \A p \in Listed \cap Plugin : ToSet(OnStartup(p)) \subseteq stages

\* A failure stays where it is: when the process serves, a stream the server has
\* not as it should be, a plugin that is not loaded and a stage that is missing
\* are each in the log as that stream's, or that plugin's, own failure.
FailureIsLocal ==
  pc = "serving" =>
    /\ \A s \in Stream : streams[s] # "current" => s \in refused
    /\ Plugin \ plugins = faulty
    /\ StaticStages \cup NatsStages \cup StoreStages \subseteq stages
    /\ \A p \in Plugin \ faulty : ToSet(OnStartup(p)) \subseteq stages

\* When the dependencies, JetStream among them, are there for good and a process
\* that serves is left alone, it comes to serve and /health says so: whatever
\* streams the server takes for a bad request and whichever plugins raise
\* (streams.py:61 and plugin_registry.py:104 log and go on), and however many
\* starts an absent dependency or a failing JetStream has ended before.
HealthyInTheEnd ==
  <>[](up = Dependency) /\ <>[][pc = "serving" => pc' = "serving"]_vars
    => <>[](pc = "serving" /\ health = "healthy")
=============================================================================
