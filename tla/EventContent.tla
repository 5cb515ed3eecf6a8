---------------------------- MODULE EventContent ----------------------------
(***************************************************************************)
(* What becomes of the content of one event - its domain, severity and     *)
(* measured value - between the HTTP request and the document a query      *)
(* finds: a plugin's handler or transform/run decodes it, normalises it to *)
(* a MessageEnvelope, encodes that and writes it; what goes over NATS is   *)
(* read again by NotificationService, which stores it.  Failures of the    *)
(* links are those of IngestPath; here they hold.                          *)
(*                                                                         *)
(* A Python dict is a function on the keys it has, cut to the keys that    *)
(* matter; a text payload has one line.  `None` is Python's, and also the  *)
(* text str(None) makes of it.  Names of network elements and protocols    *)
(* are free text: "word" stands for one that line protocol takes as it is, *)
(* "two words" for one with a space or a comma.                            *)
(***************************************************************************)
VARIABLES
  asked,       \* the request: endpoint, what it asks for, stages of transform/run
  raw,         \* the payload: its form and, once readable, the dict it says
  at,          \* how far the event is
  decoded,     \* what the decoder made of it
  envelope,    \* what the normalizer made of that
  encoded,     \* what the encoder made of the envelope: its form
  stored       \* the store and the document or sample that is in it

vars == <<asked, raw, at, decoded, envelope, encoded, stored>>

None == "None"
Empty == [k \in {} |-> None]
Item(k, v) == [x \in {k} |-> v]
Get(d, k, default) == IF k \in DOMAIN d THEN d[k] ELSE default

\* e.update(d): what d says goes over what e says.
Over(d, e) == [k \in DOMAIN d \cup DOMAIN e |-> IF k \in DOMAIN d THEN d[k] ELSE e[k]]

FCAPSDomain == {"FM", "PM", "LOG"}
Severity == {"CRITICAL", "MAJOR", "MINOR", "WARNING", "CLEARED"}

\* str.lower and str.upper on the texts of the model.
Lower(s) == Get([FAULT |-> "fault"], s, s)
Upper(s) == Get([major |-> "MAJOR", cleared |-> "CLEARED"], s, s)

Refused == [refused |-> TRUE]
-----------------------------------------------------------------------------
(* The decoders: from a payload [form, dict] to a dict, or Refused.  Rows  *)
(* of a CSV and the root of an XML stay nested: no key of them is a key of *)
(* the dict.  The registered AvroDecoder and ProtobufDecoder have no schema*)
(* registry; text is no Avro container.                                    *)

Dict(p) == p.form \in {"dict", "json"}

JSONDecoder(p) == IF Dict(p) THEN p.dict ELSE Refused
CSVDecoder(p)  == IF p.form = "csv" THEN Empty ELSE Refused
XMLDecoder(p)  == IF p.form = "xml" THEN Empty ELSE Refused
AvroDecoder(p) == IF p.form = "dict" THEN p.dict ELSE Refused
ProtobufDecoder(p) == IF Dict(p) THEN p.dict ELSE Refused

\* The severity a trap's name suggests: a fragment of it, in lower case.
TrapSeverity(name) ==
  CASE name \in {"linkDown", "criticalTemp"} -> "CRITICAL"
    [] name = "linkUp" -> "CLEARED"
    [] name = "warningFan" -> "WARNING"
    [] OTHER -> "MAJOR"

\* A decoder that keeps every key of the trap.
SNMPDecoderWhole(p) ==
  IF ~Dict(p) THEN Refused
  ELSE Over([severity |-> TrapSeverity(Get(p.dict, "trap_oid", "unknown"))], p.dict)

\* An explicit severity, else that of the trap bound to snmpTrapOID, else that
\* of trap_oid.  Only the keys below are kept, agent_address as source_ne.
SNMPDecoder(p) ==
  IF ~Dict(p) THEN Refused
  ELSE LET trap == Get(p.dict, "bound", Get(p.dict, "trap_oid", "unknown"))
           said == Get(p.dict, "severity", None)
       IN  [severity  |-> IF said = None THEN TrapSeverity(trap) ELSE said,
            source_ne |-> Get(p.dict, "agent_address",
                              Get(p.dict, "source_ne", "unknown"))]

\* A VES event is refused without its header.  Of the header the domain and the
\* name are kept; the other keys of the event go over them, then what follows from
\* the header's domain and, in a fault, from its body.
VesToFcaps ==
  [fault |-> "FM", measurement |-> "PM", syslog |-> "LOG", log |-> "LOG",
   heartbeat |-> "LOG", notification |-> "FM", other |-> "LOG"]
VesSeverity ==
  [CRITICAL |-> "CRITICAL", MAJOR |-> "MAJOR", MINOR |-> "MINOR",
   WARNING |-> "WARNING", NORMAL |-> "CLEARED"]

VESDecoder(p) ==
  IF ~Dict(p) \/ "header" \notin DOMAIN p.dict THEN Refused
  ELSE LET header == p.dict["header"]
           others == [k \in DOMAIN p.dict \ {"header"} |-> p.dict[k]]
           flat   == Over(others, [domain |-> header.domain, source_ne |-> header.sourceName])
           mapped == [fcaps_domain |-> Get(VesToFcaps, Lower(header.domain), "LOG")]
           fault  == IF "faultFields" \notin DOMAIN p.dict THEN Empty
                     ELSE [severity |->
                             Get(VesSeverity, Upper(p.dict["faultFields"]), "WARNING")]
       IN  Over(fault, Over(mapped, flat))

Decode(name, p) ==
  CASE name = "json" -> JSONDecoder(p) [] name = "csv" -> CSVDecoder(p)
    [] name = "xml" -> XMLDecoder(p)   [] name = "avro" -> AvroDecoder(p)
    [] name = "protobuf" -> ProtobufDecoder(p)
    [] name = "snmp" -> SNMPDecoder(p) [] name = "ves" -> VESDecoder(p)
-----------------------------------------------------------------------------
(* Normalizer, encoders and the stores.                                    *)

\* The data's severity comes before the request's, the request's network element
\* before the data's.
Said(d, meta)    == IF Get(d, "severity", None) = None THEN meta.severity
                    ELSE Get(d, "severity", None)
Element(d, meta) == IF meta.source_ne = "" THEN Get(d, "source_ne", "unknown")
                    ELSE meta.source_ne

Envelope(d, meta, severity) ==
  [domain |-> meta.domain, severity |-> severity, source_ne |-> Element(d, meta),
   protocol |-> meta.protocol, normalized |-> d]

\* A normalizer that takes the severity in any case.
NormalizeUpper(d, meta) ==
  IF meta.domain \in FCAPSDomain /\ Upper(Said(d, meta)) \in Severity \cup {None}
  THEN Envelope(d, meta, Upper(Said(d, meta)))
  ELSE Refused

\* The domain and severity must be members of their enumerations as they are
\* written, and the network element a text.
Normalize(d, meta) ==
  IF /\ meta.domain \in FCAPSDomain
     /\ Said(d, meta) \in Severity \cup {None}
     /\ Element(d, meta) # None
  THEN Envelope(d, meta, Said(d, meta))
  ELSE Refused

\* JSON keeps the envelope, CSV only the normalised data; the registered
\* AvroEncoder has no schema.
JSONEncoder     == [form |-> "envelope"]
ProtobufEncoder == [form |-> "envelope"]
CSVEncoder      == [form |-> "data"]
AvroEncoder     == Refused

\* A registry with CSVEncoder under the name of every text format.
EncodeData(name) == IF name = "avro" THEN AvroEncoder ELSE CSVEncoder

Encode(name) ==
  CASE name = "json" -> JSONEncoder [] name = "csv" -> CSVEncoder
    [] name = "protobuf" -> ProtobufEncoder [] name = "avro" -> AvroEncoder

\* VictoriaLogsEvents._write: the normalised data overwrites the envelope's own
\* fields, as text; a field of the envelope that is None is left out.
Document(e) ==
  LET own == IF e.severity = None THEN [domain |-> e.domain]
             ELSE [domain |-> e.domain, severity |-> e.severity]
  IN  Over(e.normalized, own)

\* InfluxDBMetrics.write_pm: one sample, 0.0 for want of a value.
Sample(e) == Get(e.normalized, "value", "0.0")

\* A line of line protocol has neither quotes nor escapes: a tag that is empty or
\* has a space or a comma in it, and a value InfluxDB has no number for (nan, inf),
\* make a line it refuses; what is no number at all raises before.
IsTag(t)    == t \notin {"", "two words"}
IsNumber(v) == v \notin {"text", "nan"}

WritePm(e) ==
  IF IsTag(e.protocol) /\ IsTag(e.source_ne) /\ IsNumber(Sample(e))
  THEN [store |-> "metrics", sample |-> Sample(e)]
  ELSE Refused

\* write_fm and write_log do the same.
WriteEvent(e) == [store |-> "events", doc |-> Document(e)]

\* GET /api/v1/events: the filters of a query, and the documents they find.
QueryEvents(domain, severity) ==
  Over(IF domain = "ALL" THEN Empty ELSE Item("domain", domain),
       IF severity = None THEN Empty ELSE Item("severity", Upper(severity)))

Search(filters, doc) == \A k \in DOMAIN filters : Get(doc, k, None) = filters[k]
-----------------------------------------------------------------------------
(* The requests: what a client may ask of each endpoint, and the payload   *)
(* the handler then has.  `wanted` is the severity that a simulation asks  *)
(* for, or the type of trap.                                               *)

Ask(ep, domain, wanted, source_ne, decoder) ==
  [ep |-> ep, domain |-> domain, wanted |-> wanted, source_ne |-> source_ne,
   protocol |-> "word", decoder |-> decoder, encoder |-> "json", writer |-> "nats"]

Domains    == FCAPSDomain \cup {"fm"}
Choices    == Severity \cup {"major"}
Severities == Choices \cup {None}
Elements   == {"word", "two words", ""}
VesDomains == DOMAIN VesToFcaps \cup {"FAULT"}
Traps      == {"linkDown", "linkUp", "criticalTemp", "warningFan", "coldStart"}

\* A dict with the key, or without it.
Maybe(key, values) == {Empty} \cup {Item(key, v) : v \in values}

\* A dict of one set over one of the other.
Both(S, T) == {Over(d, e) : d \in S, e \in T}

\* Records as the Avro, Protobuf and SFTP clients send them.
RecordDicts ==
  Both(Both(Maybe("domain", {"PM", "cell"}), Maybe("severity", {"MAJOR", "major"})),
       Both(Maybe("value", {"7.5", "text", "nan"}), Maybe("source_ne", {"", None})))
TrapDicts ==
  {Over([trap_oid |-> t, severity |-> s, agent_address |-> n], b) :
     t \in {"1.3.6.1.6.3.1.1.5.3"} \cup Traps, b \in Maybe("bound", Traps),
     s \in {None, "MAJOR", "major"}, n \in Elements}

\* VES events, with the other keys that a client may put beside the header.
VesDicts ==
  Both(Both(Maybe("header", [domain : VesDomains, sourceName : Elements]),
            Maybe("faultFields", {"CRITICAL", "NORMAL", "major", "Info"})),
       Both(Maybe("domain", {"FM"}),
            Both(Maybe("severity", {"MINOR", "minor"}), Maybe("value", {"text"}))))

AsDict(S) == [form : {"dict"}, dict : S]

\* The simulators: what they generate for what is asked.
GenerateEvents(domain, severity, source_ne) ==
  {[domain |-> domain, severity |-> s, source_ne |-> source_ne] :
     s \in IF severity = "RANDOM" THEN Severity ELSE {severity}}

TrapTypes ==
  [linkDown |-> "CRITICAL", linkUp |-> "CLEARED", coldStart |-> "WARNING",
   warmStart |-> "MINOR", authFail |-> "MAJOR"]

\* The severity of a type of trap; one the table does not know is a linkDown.
TypeSeverity(trap) == Get(TrapTypes, trap, TrapTypes["linkDown"])

SnmpSimulator(trap, source_ne) ==
  [trap_oid |-> "1.3.6.1.6.3.1.1.5.3", bound |-> trap, severity |-> TypeSeverity(trap),
   agent_address |-> source_ne]

\* A simulator that sends CLEARED as it is.
SevVesPlain(severity) ==
  IF Upper(severity) \in Severity THEN Upper(severity) ELSE "CRITICAL"

SevVes(severity) ==
  Get([CRITICAL |-> "CRITICAL", MAJOR |-> "MAJOR", MINOR |-> "MINOR",
       WARNING |-> "WARNING", CLEARED |-> "NORMAL"], Upper(severity), "CRITICAL")

VesSimulator(domain, severity, source_ne) ==
  LET header == [domain |-> domain, sourceName |-> source_ne]
  IN  IF domain = "fault" THEN [header |-> header, faultFields |-> SevVes(severity)]
      ELSE [header |-> header]

AvroSimulator(domain, source_ne) ==
  [domain |-> domain, value |-> "7.5", source_ne |-> source_ne]
ProtobufSimulator(domain, source_ne) ==
  [domain |-> domain, value |-> "7.5", source_ne |-> source_ne]
SftpSimulator(domain, source_ne) ==
  [domain |-> domain, value |-> "7.5", source_ne |-> source_ne]

\* Per endpoint, the requests with their payloads.  What webhook/receive,
\* snmp/receive and ves/receive are sent is all payload.
Sent(ep, decoder) == Ask(ep, None, None, None, decoder)

WebhookReceive ==
  {Sent("webhook/receive", "json")}
    \X AsDict([domain : Domains, severity : Severities, source_ne : Elements])
WebhookSimulate ==
  UNION {{Ask("webhook/simulate", d, s, n, "json")} \X AsDict(GenerateEvents(d, s, n)) :
           d \in Domains, s \in Choices \cup {"RANDOM"}, n \in Elements}

SnmpReceive == {Sent("snmp/receive", "snmp")} \X AsDict(TrapDicts)
SnmpSimulate ==
  UNION {{Ask("snmp/simulate", d, t, n, "snmp")} \X AsDict({SnmpSimulator(t, n)}) :
           d \in Domains, t \in DOMAIN TrapTypes \cup {"authenticationFailure"},
           n \in Elements}

VesReceive == {Sent("ves/receive", "ves")} \X AsDict(VesDicts)
VesSimulate ==
  UNION {{Ask("ves/simulate", d, s, n, "ves")} \X AsDict({VesSimulator(d, s, n)}) :
           d \in VesDomains, s \in Choices \cup {"cleared"}, n \in Elements}

\* Records: received, or generated.
Records(receive, simulate, decoder, simulator(_, _)) ==
  UNION {{Ask(receive, d, None, n, decoder)} \X AsDict(RecordDicts)
         \cup {Ask(simulate, d, None, n, decoder)} \X AsDict({simulator(d, n)}) :
           d \in Domains, n \in Elements}
Avro     == Records("avro/receive", "avro/simulate", "json", AvroSimulator)
Protobuf ==
  Records("protobuf/receive", "protobuf/simulate", "protobuf", ProtobufSimulator)
Sftp     == Records("sftp/receive", "sftp/simulate", "json", SftpSimulator)

\* transform/run: any decoder, encoder and writer, any payload and protocol.
TransformRun ==
  [ep : {"transform/run"}, domain : {"FM", "PM"}, wanted : {None}, source_ne : Elements,
   protocol : {"word", "two words"},
   decoder : {"json", "csv", "xml", "avro", "protobuf", "snmp", "ves"},
   encoder : {"json", "csv", "protobuf", "avro"},
   writer : {"nats", "influxdb", "victorialogs"}]
  \X ([form : {"dict", "json"},
       dict : {[severity |-> "MAJOR"], [value |-> "7.5"], [value |-> "text"],
               [header |-> [domain |-> "fault", sourceName |-> "word"],
                faultFields |-> "NORMAL"]}]
      \cup [form : {"csv", "xml"}, dict : {Empty}])

Requests ==
  UNION {WebhookReceive, WebhookSimulate, SnmpReceive, SnmpSimulate, VesReceive,
         VesSimulate, Avro, Protobuf, Sftp, TransformRun}

\* What the handler tells the normalizer.
VesReceiveMap ==
  [fault |-> "FM", measurement |-> "PM", syslog |-> "LOG", log |-> "LOG",
   heartbeat |-> "LOG"]
VesSimulateMap == [fault |-> "FM", measurement |-> "PM", syslog |-> "LOG"]

Header(d) == Get(d, "header", [domain |-> "fault", sourceName |-> "unknown"])

Meta(a, p) ==
  [domain |->
     CASE a.ep \in {"webhook/receive", "webhook/simulate"} -> p.dict["domain"]
       [] a.ep = "snmp/receive" -> "FM"
       [] a.ep = "ves/receive"  -> Get(VesReceiveMap, Lower(Header(p.dict).domain), "LOG")
       [] a.ep = "ves/simulate" -> Get(VesSimulateMap, Lower(a.domain), "LOG")
       [] OTHER -> a.domain,
   severity |-> IF a.ep \in {"webhook/receive", "webhook/simulate"}
                THEN p.dict["severity"] ELSE None,
   source_ne |->
     CASE a.ep \in {"webhook/receive", "webhook/simulate"} -> p.dict["source_ne"]
       [] a.ep = "snmp/receive" -> p.dict["agent_address"]
       [] a.ep = "ves/receive"  -> Header(p.dict).sourceName
       [] OTHER -> a.source_ne,
   protocol |-> a.protocol]
-----------------------------------------------------------------------------
(* The way of an event.  A stage that raises ends it: the caller gets an   *)
(* error, or, behind NATS, the service logs one.                           *)

Init ==
  /\ \E r \in Requests : asked = r[1] /\ raw = r[2]
  /\ at = "received"
  /\ decoded = Empty /\ envelope = Empty /\ encoded = Empty /\ stored = Empty

Then(result, next, failed) == at' = IF result = Refused THEN failed ELSE next

Decoding ==
  /\ at = "received"
  /\ decoded' = Decode(asked.decoder, raw)
  /\ Then(decoded', "decoded", "refused")
  /\ UNCHANGED <<asked, raw, envelope, encoded, stored>>

Normalizing ==
  /\ at = "decoded"
  /\ envelope' = Normalize(decoded, Meta(asked, raw))
  /\ Then(envelope', "normalized", "refused")
  /\ UNCHANGED <<asked, raw, decoded, encoded, stored>>

Encoding ==
  /\ at = "normalized"
  /\ encoded' = Encode(asked.encoder)
  /\ Then(encoded', "encoded", "refused")
  /\ UNCHANGED <<asked, raw, decoded, envelope, stored>>

\* NATSWriter takes any bytes.
WriteNats ==
  /\ at = "encoded" /\ asked.writer = "nats"
  /\ at' = "published"
  /\ UNCHANGED <<asked, raw, decoded, envelope, encoded, stored>>

Writes(result) ==
  stored' = IF encoded.form = "envelope" THEN result ELSE Refused

\* InfluxDBWriter and VictoriaLogsWriter read the envelope back and write to their
\* store whatever its domain.
WriteInflux ==
  /\ at = "encoded" /\ asked.writer = "influxdb"
  /\ Writes(WritePm(envelope))
  /\ Then(stored', "stored", "refused")
  /\ UNCHANGED <<asked, raw, decoded, envelope, encoded>>

WriteVictoria ==
  /\ at = "encoded" /\ asked.writer = "victorialogs"
  /\ Writes(WriteEvent(envelope))
  /\ Then(stored', "stored", "refused")
  /\ UNCHANGED <<asked, raw, decoded, envelope, encoded>>

\* NotificationService._handle: the store by the domain of the envelope.
Handle ==
  /\ at = "published"
  /\ Writes(IF envelope.domain = "PM" THEN WritePm(envelope) ELSE WriteEvent(envelope))
  /\ Then(stored', "stored", "lost")
  /\ UNCHANGED <<asked, raw, decoded, envelope, encoded>>

Next ==
  \/ Decoding \/ Normalizing \/ Encoding
  \/ WriteNats \/ WriteInflux \/ WriteVictoria
  \/ Handle

Spec == Init /\ [][Next]_vars
-----------------------------------------------------------------------------
(* Properties.                                                            *)

Simulates == {"webhook/simulate", "snmp/simulate", "ves/simulate", "avro/simulate",
              "protobuf/simulate", "sftp/simulate"}
InEvents  == at = "stored" /\ stored.store = "events"
InMetrics == at = "stored" /\ stored.store = "metrics"

\* The type invariant: each stage has been passed when the next is reached, and
\* an envelope has a domain and a severity of the enumerations.
TypeOK ==
  /\ at \in {"received", "decoded", "normalized", "encoded", "published", "stored",
             "refused", "lost"}
  /\ asked.ep # "transform/run" => asked.encoder = "json" /\ asked.writer = "nats"
  /\ at \in {"normalized", "encoded", "published", "stored", "lost"} =>
       /\ envelope.domain \in FCAPSDomain
       /\ envelope.severity \in Severity \cup {None}
       /\ envelope.normalized = decoded
  /\ at \in {"encoded", "published", "stored", "lost"} =>
       encoded.form \in {"envelope", "data"}
  /\ InEvents => DOMAIN stored.doc \subseteq
       {"domain", "severity", "value", "source_ne", "fcaps_domain", "header",
        "faultFields"}

\* An event of some severity is found by that severity: the document keeps it
\* although the normalised data overwrites the envelope's field
\* (victorialogs.py:29), since the normalizer accepts no other spelling.
FoundBySeverity ==
  InEvents /\ envelope.severity # None => 
    Search(QueryEvents("ALL", envelope.severity), stored.doc)

\* The severities that a simulate request may end in: the one it asks for, any for
\* RANDOM, that of the type of trap, and in VES one for a fault alone.
WantedSeverity ==
  CASE asked.ep = "webhook/simulate" ->
         IF asked.wanted = "RANDOM" THEN Severity ELSE {asked.wanted}
    [] asked.ep = "snmp/simulate" -> {TypeSeverity(asked.wanted)}
    [] asked.ep = "ves/simulate" /\ asked.domain = "fault" ->
         IF Upper(asked.wanted) \in Severity THEN {Upper(asked.wanted)} ELSE Severity
    [] OTHER -> {None}

\* What a console simulates is what it gets: a simulate request that is answered
\* ends in the store of its domain, with a severity it asked for and the value that
\* was generated.  Two translations of VES severities by two tables, and the
\* decoder's guess at a trap's severity, are on the way.  Only metrics are lost, and
\* only those of a network element whose name is no tag (influxdb.py:25-30).
SimulatedAsAsked ==
  LET domain == Meta(asked, raw).domain
  IN  asked.ep \in Simulates =>
        /\ at = "lost" => domain = "PM" /\ ~IsTag(asked.source_ne)
        /\ at = "stored" =>
             /\ InMetrics <=> domain = "PM"
             /\ InMetrics /\ asked.ep \in {"avro/simulate", "protobuf/simulate", "sftp/simulate"}
                  => stored.sample = "7.5"
             /\ envelope.severity \in WantedSeverity

\* Of what a handler has answered with success NotificationService loses only what
\* transform/run sent as CSV, and metrics: those whose value is no number, and those
\* whose request does not name its protocol and its network element by a text that
\* is a tag as it stands.  Every other envelope can be read back and stored.
LostOnlyIfUnwritable ==
  at = "lost" =>
    \/ asked.encoder = "csv"
    \/ /\ envelope.domain = "PM"
       /\ \/ ~IsNumber(Get(decoded, "value", "0.0"))
          \/ ~IsTag(Meta(asked, raw).source_ne) \/ ~IsTag(asked.protocol)

\* docs/architecture.md:422-440 gives the stored document the domain of the
\* envelope, and `domain:FM AND severity:CRITICAL` as a query that finds it.  It
\* does not find a VES event: the header's domain overwrites that of the envelope.
VesFoundByDomain ==
  InEvents /\ asked.ep \in {"ves/receive", "ves/simulate"} =>
    Search(QueryEvents(envelope.domain, envelope.severity), stored.doc)
=============================================================================
