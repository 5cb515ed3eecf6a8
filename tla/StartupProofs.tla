---------------------------- MODULE StartupProofs ----------------------------
(***************************************************************************)
(* What the start of core-api guarantees whatever an earlier version left  *)
(* in the NATS server, whichever dependencies come and go and however many *)
(* plugins raise: who is listed works and a failure stays where it is.     *)
(*                                                                         *)
(* FailureIsLocal speaks only of a process that serves.  What is inductive *)
(* says the same, in the middle of a loop of lifespan, of what the loop has*)
(* come to (Passed): a stream it has passed is as it should be or refused  *)
(* (Provisioned), a plugin it has passed is either entered, with its routes*)
(* and stages, or faulty (Loaded).                                         *)
(***************************************************************************)
EXTENDS Startup, SequenceTheorems, TLAPS

(***************************************************************************)
(* Loops over a sequence: s is the rest of t, Passed is what came before.  *)
(***************************************************************************)
Rest(s, t) == \E n \in 0 .. Len(t) : s = SubSeq(t, n + 1, Len(t))
Passed(s, t) == {t[i] : i \in 1 .. Len(t) - Len(s)}
Distinct(t) == \A i, j \in 1 .. Len(t) : t[i] = t[j] => i = j

LEMMA RestLen ==
  ASSUME NEW S, NEW t \in Seq(S), NEW n \in 0 .. Len(t)
  PROVE  LET s == SubSeq(t, n + 1, Len(t)) IN
           /\ s \in Seq(S) /\ Len(s) = Len(t) - n
           /\ \A i \in 1 .. Len(s) : s[i] = t[n + i]
<1>1. Len(t) \in Nat /\ n \in Nat /\ n <= Len(t)
  OBVIOUS
<1>2. \A i \in n + 1 .. Len(t) : t[i] \in S
  BY ElementOfSeq
<1> QED BY <1>1, <1>2, SubSeqProperties

\* At first a loop has passed nothing, in the end it has passed everything.
LEMMA RestOfAll ==
  ASSUME NEW S, NEW t \in Seq(S)
  PROVE  Rest(t, t) /\ Passed(t, t) = {} /\ Passed(<<>>, t) = ToSet(t)
<1>1. Rest(t, t)
  BY SubSeqFull DEF Rest
<1>2. Passed(t, t) = {}
  BY DEF Passed
<1>3. Passed(<<>>, t) = ToSet(t)
  BY DEF Passed, ToSet
<1> QED BY <1>1, <1>2, <1>3

\* A round of the loop passes one element more, and not one it has passed before.
LEMMA RestOfTail ==
  ASSUME NEW S, NEW t \in Seq(S), NEW s, Rest(s, t), s # <<>>
  PROVE  /\ Rest(Tail(s), t)
         /\ Head(s) \in ToSet(t)
         /\ Passed(Tail(s), t) = Passed(s, t) \cup {Head(s)}
         /\ Distinct(t) => Head(s) \notin Passed(s, t)
<1>1. PICK n \in 0 .. Len(t) : s = SubSeq(t, n + 1, Len(t))
  BY DEF Rest
<1>2. /\ s \in Seq(S) /\ Len(s) = Len(t) - n /\ Len(t) \in Nat /\ n \in Nat
      /\ \A i \in 1 .. Len(s) : s[i] = t[n + i]
  BY <1>1, RestLen
<1>3. n < Len(t)
  BY <1>2
<1>4. Head(s) = t[n + 1] /\ Len(Tail(s)) = Len(t) - (n + 1)
  BY <1>2, <1>3
<1>5. Tail(s) = SubSeq(t, n + 2, Len(t))
  <2>1. /\ SubSeq(t, n + 2, Len(t)) \in Seq(S)
        /\ Len(SubSeq(t, n + 2, Len(t))) = Len(t) - (n + 1)
        /\ \A i \in 1 .. Len(t) - (n + 1) : SubSeq(t, n + 2, Len(t))[i] = t[n + 1 + i]
    BY <1>3, RestLen
  <2>2. \A i \in 1 .. Len(t) - (n + 1) : Tail(s)[i] = t[n + 1 + i]
    BY <1>2, <1>3
  <2>3. Tail(s) \in Seq(S)
    BY <1>2, <1>3
  <2> HIDE DEF Passed
  <2> QED BY <1>4, <2>1, <2>2, <2>3, SeqEqual
<1>6. Rest(Tail(s), t)
  <2>1. n + 1 \in 0 .. Len(t) /\ (n + 1) + 1 = n + 2
    BY <1>2, <1>3
  <2> QED BY <1>5, <2>1 DEF Rest
<1>7. Head(s) \in ToSet(t)
  BY <1>3, <1>4 DEF ToSet
<1>8. Passed(s, t) = {t[i] : i \in 1 .. n} /\ Passed(Tail(s), t) = {t[i] : i \in 1 .. n + 1}
  <2>1. Len(t) - Len(s) = n
    BY <1>2
  <2>2. Len(t) - Len(Tail(s)) = n + 1
    <3> DEFINE k == Len(Tail(s))
               l == Len(t)
    <3>1. k = l - (n + 1) /\ l \in Nat /\ n \in Nat
      BY <1>2, <1>4
    <3> HIDE DEF k, l
    <3>2. l - k = n + 1
      BY <3>1
    <3> QED BY <3>2 DEF k, l
  <2>3. Passed(s, t) = {t[i] : i \in 1 .. n}
    BY <2>1, Zenon DEF Passed
  <2>4. Passed(Tail(s), t) = {t[i] : i \in 1 .. n + 1}
    BY <2>2, Zenon DEF Passed
  <2> QED BY <2>3, <2>4
<1>9. Passed(Tail(s), t) = Passed(s, t) \cup {Head(s)}
  BY <1>4, <1>8
<1>10. Distinct(t) => Head(s) \notin Passed(s, t)
  BY <1>3, <1>4, <1>8 DEF Distinct
<1> QED BY <1>6, <1>7, <1>9, <1>10

LEMMA RestIsSuffix ==
  ASSUME NEW S, NEW t \in Seq(S), NEW s, Rest(s, t)
  PROVE  IsSuffix(s, t)
<1>1. PICK n \in 0 .. Len(t) : s = SubSeq(t, n + 1, Len(t))
  BY DEF Rest
<1>2. /\ s \in Seq(S) /\ Len(s) = Len(t) - n /\ Len(t) \in Nat /\ n \in Nat
      /\ \A i \in 1 .. Len(s) : s[i] = t[n + i]
  BY <1>1, RestLen
<1>3. /\ Reverse(s) \in Seq(S) /\ Len(Reverse(s)) = Len(s)
      /\ \A i \in 1 .. Len(s) : Reverse(s)[i] = s[Len(s) - i + 1]
  BY <1>2 DEF Reverse
<1>4. /\ Reverse(t) \in Seq(S) /\ Len(Reverse(t)) = Len(t)
      /\ \A i \in 1 .. Len(t) : Reverse(t)[i] = t[Len(t) - i + 1]
  BY DEF Reverse
<1>5. \A i \in 1 .. Len(s) : Reverse(s)[i] = Reverse(t)[i]
  <2> SUFFICES ASSUME NEW i \in 1 .. Len(s) PROVE Reverse(s)[i] = Reverse(t)[i]
    OBVIOUS
  <2>1. i \in 1 .. Len(t) /\ Len(s) - i + 1 \in 1 .. Len(s)
    BY <1>1, <1>2
  <2>2. n + (Len(s) - i + 1) = Len(t) - i + 1
    BY <1>1, <1>2
  <2> QED BY <1>2, <1>3, <1>4, <2>1, <2>2
<1>6. SubSeq(Reverse(s), 1, Len(s)) = SubSeq(Reverse(t), 1, Len(s))
  <2>1. Len(s) \in 0 .. Len(t) /\ Len(s) \in Nat
    BY <1>2
  <2>2. /\ SubSeq(Reverse(s), 1, Len(s)) \in Seq(S)
        /\ Len(SubSeq(Reverse(s), 1, Len(s))) = Len(s)
        /\ \A i \in 1 .. Len(s) : SubSeq(Reverse(s), 1, Len(s))[i] = Reverse(s)[i]
    BY <1>3, SubSeqFull
  <2>3. /\ SubSeq(Reverse(t), 1, Len(s)) \in Seq(S)
        /\ Len(SubSeq(Reverse(t), 1, Len(s))) = Len(s)
        /\ \A i \in 1 .. Len(s) : SubSeq(Reverse(t), 1, Len(s))[i] = Reverse(t)[i]
    BY <1>4, <2>1
  <2> QED BY <1>5, <2>2, <2>3, SeqEqual
<1> QED BY <1>2, <1>3, <1>4, <1>6 DEF IsSuffix, IsPrefix
-----------------------------------------------------------------------------
(* The tables of the code.                                                *)

LEMMA Configs == StreamConfigs \in Seq(Stream) /\ ToSet(StreamConfigs) = Stream
BY DEF Stream, StreamConfigs, ToSet

LEMMA Discoveries ==
  /\ Discovered \in Seq(Plugin) /\ ToSet(Discovered) = Plugin
  /\ Distinct(Discovered)
  /\ Plugin \cap UiOnly = {}
<1>1. Plugin = {"avro", "protobuf", "sftp", "snmp", "ves", "webhook"}
  BY DEF Plugin, Discovered, ToSet
<1>2. Discovered \in Seq(Plugin) /\ ToSet(Discovered) = Plugin
  BY DEF Plugin, Discovered, ToSet
<1>3. Distinct(Discovered)
  BY DEF Distinct, Discovered
<1>4. Plugin \cap UiOnly = {}
  BY <1>1 DEF UiOnly
<1> QED BY <1>2, <1>3, <1>4

\* What a plugin has registered at any point of its start-up are stages.
LEMMA PluginStages ==
  ASSUME NEW p \in Plugin
  PROVE  /\ ToSet(OnStartup(p)) \subseteq StageType
         /\ \A n \in 0 .. Len(OnStartup(p)) :
              ToSet(SubSeq(OnStartup(p), 1, n)) \subseteq StageType
<1>1. Plugin = {"avro", "protobuf", "sftp", "snmp", "ves", "webhook"}
  BY DEF Plugin, Discovered, ToSet
<1>2. OnStartup(p) \in Seq(StageType)
  <2>1. Avro \in Seq(StageType) /\ Protobuf \in Seq(StageType)
    BY DEF Avro, Protobuf, StageType
  <2>2. Sftp \in Seq(StageType) /\ Snmp \in Seq(StageType)
    BY DEF Sftp, Snmp, StageType
  <2>3. Ves \in Seq(StageType) /\ Webhook \in Seq(StageType)
    BY DEF Ves, Webhook, StageType
  <2> QED BY <1>1, <2>1, <2>2, <2>3 DEF OnStartup
<1>3. ASSUME NEW n \in 0 .. Len(OnStartup(p))
      PROVE  ToSet(SubSeq(OnStartup(p), 1, n)) \subseteq StageType
  <2>1. SubSeq(OnStartup(p), 1, n) \in Seq(StageType)
    BY <1>2
  <2> QED BY <2>1 DEF ToSet
<1>4. ToSet(OnStartup(p)) \subseteq StageType
  BY <1>2 DEF ToSet
<1> QED BY <1>3, <1>4

LEMMA StagesTyped ==
  /\ StaticStages \subseteq StageType
  /\ NatsStages \subseteq StageType /\ StoreStages \subseteq StageType
BY DEF StaticStages, NatsStages, StoreStages, Stages, StageType
-----------------------------------------------------------------------------
(* The inductive invariant.                                               *)

Types ==
  /\ pc \in {"down", "nats", "streams", "plugins", "serving"}
  /\ up \in SUBSET Dependency
  /\ streams \in [Stream -> {"absent", "old", "current"}]
  /\ refused \in SUBSET Stream
  /\ stages \in SUBSET StageType
  /\ plugins \in SUBSET Plugin /\ routes \in SUBSET Plugin /\ faulty \in SUBSET Plugin
  /\ health \in {"unasked", "healthy", "degraded", "unhealthy"}

\* The loop lifespan is in, and how far it is.
Position ==
  /\ pc = "streams" => Rest(todo, StreamConfigs)
  /\ pc = "plugins" => Rest(todo, Discovered)
  /\ pc \notin {"streams", "plugins"} => todo = <<>>

\* Nothing of a process outlives it.
Ended == pc = "down" => stages = {} /\ health = "unasked"

PassedStreams ==
  CASE pc = "streams" -> Passed(todo, StreamConfigs)
    [] pc \in {"plugins", "serving"} -> Stream
    [] OTHER -> {}

PassedPlugins ==
  CASE pc = "plugins" -> Passed(todo, Discovered)
    [] pc = "serving" -> Plugin
    [] OTHER -> {}

\* A stream that was come to is as it should be, or its refusal is in the log.
Provisioned == \A s \in PassedStreams : streams[s] = "current" \/ s \in refused

\* A plugin that was come to is complete or faulty, never both and never half.
Loaded ==
  /\ plugins \cup faulty = PassedPlugins
  /\ plugins \cap faulty = {}
  /\ routes = plugins
  /\ \A p \in plugins : ToSet(OnStartup(p)) \subseteq stages

\* The stages that need no plugin.
Staged ==
  /\ pc # "down" => StaticStages \subseteq stages
  /\ pc \in {"plugins", "serving"} => NatsStages \cup StoreStages \subseteq stages

IInv == Types /\ Position /\ Ended /\ Provisioned /\ Loaded /\ Staged

LEMMA InvStarts == Init => IInv
<1> SUFFICES ASSUME Init PROVE IInv
  OBVIOUS
<1>1. Types
  BY DEF Init, Types
<1>2. Position /\ Ended /\ Staged
  BY DEF Init, Position, Ended, Staged
<1>3. Provisioned /\ Loaded
  BY DEF Init, Provisioned, Loaded, PassedStreams, PassedPlugins
<1> QED BY <1>1, <1>2, <1>3 DEF IInv

\* However a process ends, it leaves the streams behind and nothing else.
LEMMA EndsPreserves ==
  ASSUME IInv, Ends, streams' \in [Stream -> {"absent", "old", "current"}]
  PROVE  IInv'
<1>1. Types'
  BY DEF IInv, Types, Ends
<1>2. Position' /\ Ended' /\ Staged'
  BY DEF Ends, Position, Ended, Staged
<1>3. Provisioned' /\ Loaded'
  BY DEF Ends, Provisioned, Loaded, PassedStreams, PassedPlugins
<1> QED BY <1>1, <1>2, <1>3 DEF IInv

\* The steps between the loops.
LEMMA BootPreserves == ASSUME IInv, Boot PROVE IInv'
<1>1. Types'
  BY StagesTyped DEF IInv, Types, Boot, logged
<1>2. Position' /\ Ended' /\ Staged'
  BY DEF Boot, IInv, Position, Ended, Staged
<1>3. Provisioned' /\ Loaded'
  BY DEF Boot, logged, IInv, Provisioned, Loaded, PassedStreams, PassedPlugins
<1> QED BY <1>1, <1>2, <1>3 DEF IInv

LEMMA ConnectPreserves == ASSUME IInv, ConnectNats PROVE IInv'
<1>1. Types'
  BY DEF IInv, Types, ConnectNats, logged, registered
<1>2. Position' /\ Passed(todo', StreamConfigs) = {}
  BY Configs, RestOfAll DEF ConnectNats, Position
<1>3. Ended' /\ Staged'
  BY DEF ConnectNats, registered, IInv, Ended, Staged
<1>4. Provisioned' /\ Loaded'
  BY <1>2 DEF ConnectNats, logged, registered, IInv, Provisioned, Loaded,
              PassedStreams, PassedPlugins
<1> QED BY <1>1, <1>2, <1>3, <1>4 DEF IInv

\* The loop over the streams is over: it has passed all of them.
LEMMA PingPreserves == ASSUME IInv, PingRedis PROVE IInv'
<1>1. Types'
  BY StagesTyped DEF IInv, Types, PingRedis, logged
<1>2. Position' /\ Passed(todo', Discovered) = {}
  BY Discoveries, RestOfAll DEF PingRedis, Position
<1>3. Ended' /\ Staged'
  BY DEF PingRedis, IInv, Ended, Staged
<1>4. Provisioned'
  <2>1. PassedStreams = Stream
    BY Configs, RestOfAll DEF PingRedis, PassedStreams
  <2>2. PassedStreams' = Stream
    BY DEF PingRedis, PassedStreams
  <2> QED BY <2>1, <2>2 DEF PingRedis, logged, IInv, Provisioned
<1>5. Loaded'
  BY <1>2 DEF PingRedis, logged, IInv, Loaded, PassedPlugins
<1> QED BY <1>1, <1>2, <1>3, <1>4, <1>5 DEF IInv

\* The loop over the plugins is over.
LEMMA ServePreserves == ASSUME IInv, Serve PROVE IInv'
<1>1. Types'
  BY DEF IInv, Types, Serve, logged, registered
<1>2. Position' /\ Ended' /\ Staged'
  BY DEF Serve, registered, IInv, Position, Ended, Staged
<1>3. Provisioned'
  BY DEF Serve, logged, IInv, Provisioned, PassedStreams
<1>4. Loaded'
  <2>1. PassedPlugins = Plugin
    BY Discoveries, RestOfAll DEF Serve, PassedPlugins
  <2>2. PassedPlugins' = Plugin
    BY DEF Serve, PassedPlugins
  <2> QED BY <2>1, <2>2 DEF Serve, logged, registered, IInv, Loaded
<1> QED BY <1>1, <1>2, <1>3, <1>4 DEF IInv

\* One round of provision_streams: its stream becomes current or is refused.
LEMMA ProvisionPreserves ==
  ASSUME IInv, Provision \/ ProvisionFails
  PROVE  IInv'
<1> DEFINE h == Head(todo)
<1>1. /\ pc = "streams" /\ pc' = "streams" /\ todo' = Tail(todo)
      /\ UNCHANGED <<up, faulty, stages, plugins, routes, health>>
      /\ streams' \in {streams, [streams EXCEPT ![h] = "current"]}
      /\ refused' \in {refused, refused \cup {h}}
      /\ streams' = [streams EXCEPT ![h] = "current"] \/ refused' = refused \cup {h}
  BY DEF Provision, ProvisionFails, logged, registered
<1>2. /\ Rest(todo', StreamConfigs) /\ h \in Stream
      /\ Passed(todo', StreamConfigs) = Passed(todo, StreamConfigs) \cup {h}
  <2>1. todo # <<>> /\ Rest(todo, StreamConfigs)
    BY <1>1 DEF Provision, ProvisionFails, IInv, Position
  <2> QED BY <1>1, <2>1, Configs, RestOfTail
<1> HIDE DEF h
<1>3. Types'
  BY <1>1, <1>2 DEF IInv, Types
<1>4. Position' /\ Ended' /\ Staged' /\ Loaded'
  BY <1>1, <1>2 DEF IInv, Position, Ended, Staged, Loaded, PassedPlugins
<1>5. Provisioned'
  <2>1. PassedStreams' = PassedStreams \cup {h}
    BY <1>1, <1>2 DEF PassedStreams
  <2>2. streams'[h] = "current" \/ h \in refused'
    BY <1>1, <1>2 DEF IInv, Types
  <2>3. \A s \in Stream : streams[s] = "current" => streams'[s] = "current"
    BY <1>1, <1>2 DEF IInv, Types
  <2>4. PassedStreams \subseteq Stream
    BY <1>1, <1>2, Configs DEF PassedStreams, Passed
  <2> QED BY <1>1, <2>1, <2>2, <2>3, <2>4 DEF IInv, Provisioned
<1> QED BY <1>3, <1>4, <1>5 DEF IInv

\* One round of load_all: its plugin is entered complete or is faulty.
LEMMA PluginPreserves ==
  ASSUME IInv, LoadPlugin \/ PluginRaises
  PROVE  IInv'
<1> DEFINE h == Head(todo)
<1>1. /\ pc = "plugins" /\ pc' = "plugins" /\ todo' = Tail(todo)
      /\ UNCHANGED <<up, streams, refused, health>>
  BY DEF LoadPlugin, PluginRaises, logged
<1>2. /\ Rest(todo', Discovered) /\ h \in Plugin
      /\ Passed(todo', Discovered) = Passed(todo, Discovered) \cup {h}
      /\ h \notin Passed(todo, Discovered)
  <2>1. todo # <<>> /\ Rest(todo, Discovered)
    BY <1>1 DEF LoadPlugin, PluginRaises, IInv, Position
  <2> QED BY <1>1, <2>1, Discoveries, RestOfTail
<1>3. /\ h \notin plugins /\ h \notin faulty
      /\ PassedPlugins' = PassedPlugins \cup {h}
  BY <1>1, <1>2 DEF IInv, Loaded, PassedPlugins
<1>4. CASE LoadPlugin
  <2>1. /\ stages' = stages \cup ToSet(OnStartup(h))
        /\ routes' = routes \cup {h} /\ plugins' = plugins \cup {h} /\ faulty' = faulty
    BY <1>4 DEF LoadPlugin, logged
  <2> HIDE DEF h
  <2>2. Types'
    BY <1>1, <1>2, <2>1, PluginStages DEF IInv, Types
  <2>3. Position' /\ Ended' /\ Provisioned'
    BY <1>1, <1>2 DEF IInv, Position, Ended, Provisioned, PassedStreams
  <2>4. Staged'
    BY <1>1, <2>1 DEF IInv, Staged
  <2>5. Loaded'
    BY <1>3, <2>1 DEF IInv, Loaded
  <2> QED BY <2>2, <2>3, <2>4, <2>5 DEF IInv
<1>5. CASE PluginRaises
  <2>1. /\ \E n \in 0 .. Len(OnStartup(h)) :
             stages' = stages \cup ToSet(SubSeq(OnStartup(h), 1, n))
        /\ faulty' = faulty \cup {h} /\ UNCHANGED <<plugins, routes>>
    BY <1>5 DEF PluginRaises
  <2> HIDE DEF h
  <2>2. Types'
    BY <1>1, <1>2, <2>1, PluginStages DEF IInv, Types
  <2>3. Position' /\ Ended' /\ Provisioned'
    BY <1>1, <1>2 DEF IInv, Position, Ended, Provisioned, PassedStreams
  <2>4. Staged'
    BY <1>1, <2>1 DEF IInv, Staged
  <2>5. Loaded'
    BY <1>3, <2>1 DEF IInv, Loaded
  <2> QED BY <2>2, <2>3, <2>4, <2>5 DEF IInv
<1> QED BY <1>4, <1>5

\* What the process answers and what its surroundings do touches nothing above.
LEMMA OutsidePreserves ==
  ASSUME IInv, up' \in SUBSET Dependency,
         health' \in {"healthy", "degraded", "unhealthy"} \/ health' = health,
         pc = "down" => health' = health,
         UNCHANGED <<pc, todo, streams, logged, registered>>
  PROVE  IInv'
<1>1. Types'
  BY DEF IInv, Types, logged, registered
<1>2. Position' /\ Ended' /\ Staged'
  BY DEF registered, IInv, Position, Ended, Staged
<1>3. Provisioned' /\ Loaded'
  BY DEF logged, registered, IInv, Provisioned, Loaded, PassedStreams, PassedPlugins
<1> QED BY <1>1, <1>2, <1>3 DEF IInv

LEMMA InvPreserved == IInv /\ [Next]_vars => IInv'
<1> SUFFICES ASSUME IInv, [Next]_vars PROVE IInv'
  OBVIOUS
<1>1. ASSUME Shutdown \/ PingRaises \/ ProvisionRaises PROVE IInv'
  <2>1. Ends /\ streams' \in [Stream -> {"absent", "old", "current"}]
    BY <1>1 DEF Shutdown, PingRaises, ProvisionRaises, IInv, Types
  <2> QED BY <2>1, EndsPreserves
<1>2. CASE Health
  BY <1>2, OutsidePreserves DEF Health, Overall, IInv, Types
<1>3. ASSUME NEW d \in Dependency, Fails(d) \/ Recovers(d) PROVE IInv'
  <2>1. up' \in SUBSET Dependency /\ UNCHANGED <<pc, todo, streams, logged, registered, health>>
    BY <1>3 DEF Fails, Recovers, IInv, Types
  <2> QED BY <2>1, OutsidePreserves
<1>4. CASE UNCHANGED vars
  BY <1>4, OutsidePreserves DEF vars, logged, registered, IInv, Types
<1> QED
  BY <1>1, <1>2, <1>3, <1>4, BootPreserves, ConnectPreserves, ProvisionPreserves,
     PingPreserves, PluginPreserves, ServePreserves DEF Next, Lifespan

LEMMA Invariance == Spec => []IInv
BY InvStarts, InvPreserved, PTL DEF Spec
-----------------------------------------------------------------------------
\* Every variable keeps its shape, what is left to do is the rest of the loop
\* lifespan is in, and nothing of a process outlives it.
THEOREM TypeCorrect == Spec => []TypeOK
<1>1. IInv => TypeOK
  <2> SUFFICES ASSUME IInv PROVE TypeOK
    OBVIOUS
  <2> DEFINE Loop == CASE pc = "streams" -> StreamConfigs
                       [] pc = "plugins" -> Discovered
                       [] OTHER -> <<>>
  <2>1. IsSuffix(todo, Loop)
    <3>1. CASE pc = "streams"
      BY <3>1, Configs, RestIsSuffix DEF IInv, Position
    <3>2. CASE pc = "plugins"
      BY <3>2, Discoveries, RestIsSuffix DEF IInv, Position
    <3>3. CASE pc \notin {"streams", "plugins"}
      <4> <<>> \in Seq(Stream)
        OBVIOUS
      <4>1. Rest(<<>>, <<>>)
        BY RestOfAll
      <4>2. IsSuffix(<<>>, <<>>)
        BY <4>1, RestIsSuffix
      <4> QED BY <3>3, <4>2 DEF IInv, Position
    <3> QED BY <3>1, <3>2, <3>3
  <2> QED BY <2>1 DEF IInv, Types, Ended, TypeOK
<1> QED BY <1>1, Invariance, PTL

\* A plugin that is listed has its routes and every stage of its start-up, and one
\* that is not has no routes (load_all and GET /api/v1/plugins/registry).
THEOREM ListedComplete == Spec => []ListedIsComplete
<1>1. IInv => ListedIsComplete
  BY Discoveries DEF IInv, Types, Loaded, ListedIsComplete, Listed
<1> QED BY <1>1, Invariance, PTL

\* A process that serves misses only what its log says failed: no refused stream
\* and no plugin that raised takes another one with it.
THEOREM FailuresAreLocal == Spec => []FailureIsLocal
<1>1. IInv => FailureIsLocal
  <2> SUFFICES ASSUME IInv, pc = "serving"
               PROVE  /\ \A s \in Stream : streams[s] # "current" => s \in refused
                      /\ Plugin \ plugins = faulty
                      /\ StaticStages \cup NatsStages \cup StoreStages \subseteq stages
                      /\ \A p \in Plugin \ faulty : ToSet(OnStartup(p)) \subseteq stages
    BY DEF FailureIsLocal
  <2>1. PassedStreams = Stream /\ PassedPlugins = Plugin
    BY DEF PassedStreams, PassedPlugins
  <2>2. \A s \in Stream : streams[s] # "current" => s \in refused
    BY <2>1 DEF IInv, Provisioned
  <2>3. Plugin \ plugins = faulty /\ Plugin \ faulty = plugins
    BY <2>1 DEF IInv, Loaded
  <2> QED BY <2>2, <2>3 DEF IInv, Staged, Loaded
<1> QED BY <1>1, Invariance, PTL
=============================================================================
