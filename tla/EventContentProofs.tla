------------------------- MODULE EventContentProofs -------------------------
(***************************************************************************)
(* What becomes of the content of an event, whatever payload the client    *)
(* sends.  First what one stage does with any dict, then the way of an     *)
(* event: each stage has been given what the one before made (Way), so     *)
(* what is stored is what the normalizer made of the decoded payload.      *)
(***************************************************************************)
EXTENDS EventContent, TLAPS
-----------------------------------------------------------------------------
(* Dicts.                                                                  *)

LEMMA KeysOver == ASSUME NEW d, NEW e PROVE DOMAIN Over(d, e) = DOMAIN d \cup DOMAIN e
BY DEF Over

\* A member of the enumeration is in upper case.
LEMMA UpperSeverity == ASSUME NEW s \in Severity PROVE Upper(s) = s
BY DEF Severity, Upper, Get

LEMMA Distinguished ==
  /\ None \notin Severity
  /\ \A d, meta, s : Envelope(d, meta, s) # Refused
  /\ \A s, x : [store |-> s, sample |-> x] # Refused /\ [store |-> s, doc |-> x] # Refused
<1>1. None \notin Severity
  BY DEF None, Severity
<1>2. \A d, meta, s : Envelope(d, meta, s) # Refused
  BY DEF Refused, Envelope
<1>3. \A s, x : [store |-> s, sample |-> x] # Refused /\ [store |-> s, doc |-> x] # Refused
  BY DEF Refused
<1> QED BY <1>1, <1>2, <1>3
-----------------------------------------------------------------------------
(* The stages, for any dict and any request.                               *)

\* The severity that a dict says, and that of the request for want of one.
LEMMA Normalized ==
  ASSUME NEW d, NEW meta, Normalize(d, meta) # Refused
  PROVE  LET e == Normalize(d, meta)
         IN  /\ e.domain = meta.domain /\ e.domain \in FCAPSDomain
             /\ e.severity = Said(d, meta) /\ e.severity \in Severity \cup {None}
             /\ e.source_ne = Element(d, meta) /\ e.protocol = meta.protocol
             /\ e.normalized = d
BY DEF Normalize, Envelope

\* An event is found by its severity when its data, if it names a severity at all,
\* does not name None where the request names one; and by its domain as well if and
\* only if its data names no other (normalize, VictoriaLogsEvents._write, search).
THEOREM DocumentIsFound ==
  ASSUME NEW d, NEW meta, Normalize(d, meta) # Refused,
         meta.severity # None => Get(d, "severity", meta.severity) # None
  PROVE  LET e == Normalize(d, meta)
         IN  /\ e.severity # None =>
                  Search(QueryEvents("ALL", e.severity), Document(e))
             /\ Search(QueryEvents(e.domain, e.severity), Document(e)) <=>
                  Get(d, "domain", e.domain) = e.domain
<1> DEFINE e    == Normalize(d, meta)
           own  == IF e.severity = None THEN [domain |-> e.domain]
                   ELSE [domain |-> e.domain, severity |-> e.severity]
           doc  == Document(e)
<1>1. /\ e.domain \in FCAPSDomain /\ e.severity \in Severity \cup {None}
      /\ e.severity = Said(d, meta)
      /\ e.normalized = d
  BY Normalized
<1>2. doc = Over(d, own)
  BY <1>1 DEF Document
<1> HIDE DEF e, doc
<1>3. ASSUME e.severity # None
      PROVE  Get(doc, "severity", None) = Upper(e.severity)
  <2>1. Upper(e.severity) = e.severity
    BY <1>1, <1>3, UpperSeverity
  <2>2. Get(own, "severity", None) = e.severity
    BY <1>3 DEF Get
  <2>3. "severity" \in DOMAIN d => d["severity"] = e.severity
    BY <1>1, <1>3 DEF Get, Said
  <2> HIDE DEF own
  <2>4. Get(doc, "severity", None) =
          IF "severity" \in DOMAIN d THEN d["severity"] ELSE Get(own, "severity", None)
    BY <1>2 DEF Get, Over
  <2> QED BY <2>1, <2>2, <2>3, <2>4
<1>4. Get(doc, "domain", None) = Get(d, "domain", e.domain)
  <2>1. Get(own, "domain", None) = e.domain
    BY DEF Get
  <2> HIDE DEF own
  <2>2. Get(doc, "domain", None) =
          IF "domain" \in DOMAIN d THEN d["domain"] ELSE Get(own, "domain", None)
    BY <1>2 DEF Get, Over
  <2> QED BY <2>1, <2>2 DEF Get
<1>5. ASSUME e.severity # None
      PROVE  Search(QueryEvents("ALL", e.severity), doc)
  <2> DEFINE q == QueryEvents("ALL", e.severity)
  <2>1. DOMAIN q = {"severity"} /\ q["severity"] = Upper(e.severity)
    BY <1>5 DEF QueryEvents, Over, Item, Empty
  <2> HIDE DEF q
  <2>2. Search(q, doc)
    BY <1>3, <1>5, <2>1 DEF Search
  <2> QED BY <2>2 DEF q
<1>6. Search(QueryEvents(e.domain, e.severity), doc) <=>
        Get(d, "domain", e.domain) = e.domain
  <2> DEFINE q == QueryEvents(e.domain, e.severity)
  <2>0. e.domain # "ALL"
    BY <1>1 DEF FCAPSDomain
  <2>1. /\ DOMAIN q = IF e.severity = None THEN {"domain"} ELSE {"domain", "severity"}
        /\ q["domain"] = e.domain
        /\ e.severity # None => q["severity"] = Upper(e.severity)
    BY <2>0 DEF QueryEvents, Over, Item, Empty
  <2> HIDE DEF q
  <2>2. Search(q, doc) <=> Get(doc, "domain", None) = e.domain
    BY <1>3, <2>1 DEF Search
  <2> QED BY <1>4, <2>2 DEF q
<1> QED BY <1>5, <1>6 DEF e, doc

\* The severity of a simulated VES fault survives both translations.
LEMMA FaultSeverity ==
  ASSUME NEW s, Upper(s) \in Severity
  PROVE  Get(VesSeverity, Upper(SevVes(s)), "WARNING") = Upper(s)
<1>1. PICK u \in Severity : u = Upper(s)
  OBVIOUS
<1>2. SevVes(s) = IF u = "CLEARED" THEN "NORMAL" ELSE u
  BY <1>1 DEF SevVes, Severity, Get
<1>3. Upper(SevVes(s)) = SevVes(s)
  BY <1>2 DEF Severity, Upper, Get
<1> QED BY <1>1, <1>2, <1>3 DEF Severity, VesSeverity, Get
-----------------------------------------------------------------------------
(* The way of an event, whatever its payload.                              *)

Webhooks == {"webhook/receive", "webhook/simulate"}

\* Only the webhook endpoints tell the normalizer a severity: that of the payload,
\* which is what they have it normalise.
SaysItsSeverity == asked.ep \in Webhooks => asked.decoder = "json"

Normal    == {"normalized", "encoded", "published", "stored", "lost"}
Encodings == {"encoded", "published", "stored", "lost"}

\* The store of an envelope behind NATS.
ToStore(e) == IF e.domain = "PM" THEN WritePm(e) ELSE WriteEvent(e)

\* How far an event may be, and what each stage has made of it.
Way ==
  /\ at \in {"received", "decoded", "normalized", "encoded", "published", "stored",
             "refused", "lost"}
  /\ at \in {"decoded"} \cup Normal =>
       decoded = Decode(asked.decoder, raw) /\ decoded # Refused
  /\ at \in Normal =>
       envelope = Normalize(decoded, Meta(asked, raw)) /\ envelope # Refused
  /\ at \in Encodings => encoded = Encode(asked.encoder) /\ encoded # Refused
  /\ at \in {"published", "lost"} => asked.writer = "nats"
  /\ at = "stored" =>
       /\ stored \in {WritePm(envelope), WriteEvent(envelope)} /\ stored # Refused
       /\ asked.writer = "nats" => stored = ToStore(envelope)
  /\ at = "lost" => encoded.form # "envelope" \/ ToStore(envelope) = Refused

LEMMA WayStarts == at = "received" => Way
BY DEF Way, Normal, Encodings

\* A stage that writes.
LEMMA WritesStored ==
  ASSUME Way, at \in {"encoded", "published"}, NEW result, Writes(result),
         NEW failed \in {"refused", "lost"}, Then(stored', "stored", failed),
         UNCHANGED <<asked, raw, decoded, envelope, encoded>>,
         result \in {WritePm(envelope), WriteEvent(envelope)},
         asked.writer = "nats" => result = ToStore(envelope),
         failed = "lost" => asked.writer = "nats"
  PROVE  Way'
<1>1. stored' = Refused \/ stored' = result
  BY DEF Writes
<1>2. stored' = Refused => encoded.form # "envelope" \/ result = Refused
  BY DEF Writes
<1>3. at' = IF stored' = Refused THEN failed ELSE "stored"
  BY DEF Then
<1>4. /\ decoded = Decode(asked.decoder, raw) /\ decoded # Refused
      /\ envelope = Normalize(decoded, Meta(asked, raw)) /\ envelope # Refused
      /\ encoded = Encode(asked.encoder) /\ encoded # Refused
  BY DEF Way, Normal, Encodings
<1>5. /\ ToStore(envelope)' = ToStore(envelope)
      /\ WritePm(envelope)' = WritePm(envelope)
      /\ WriteEvent(envelope)' = WriteEvent(envelope)
  BY DEF ToStore, WritePm, Sample, WriteEvent, Document
<1>6. CASE stored' = Refused
  BY <1>2, <1>3, <1>4, <1>6 DEF Way, Normal, Encodings
<1>7. CASE stored' # Refused
  BY <1>1, <1>3, <1>4, <1>7 DEF Way, Normal, Encodings
<1> QED BY <1>6, <1>7

LEMMA WayPreserved == Way /\ [Next]_vars => Way'
<1> SUFFICES ASSUME Way, [Next]_vars PROVE Way'
  OBVIOUS
<1>1. CASE Decoding
  BY <1>1 DEF Decoding, Then, Way, Normal, Encodings
<1>2. CASE Normalizing
  BY <1>2 DEF Normalizing, Then, Way, Normal, Encodings
<1>3. CASE Encoding
  BY <1>3 DEF Encoding, Then, Way, Normal, Encodings
<1>4. CASE WriteNats
  BY <1>4 DEF WriteNats, Way, Normal, Encodings
<1>5. CASE WriteInflux
  BY <1>5, WritesStored DEF WriteInflux
<1>6. CASE WriteVictoria
  BY <1>6, WritesStored DEF WriteVictoria
<1>7. CASE Handle
  <2>1. asked.writer = "nats"
    BY <1>7 DEF Handle, Way
  <2>2. Writes(ToStore(envelope))
    BY <1>7 DEF Handle, ToStore
  <2>3. ToStore(envelope) \in {WritePm(envelope), WriteEvent(envelope)}
    BY DEF ToStore
  <2> QED BY <1>7, <2>1, <2>2, <2>3, WritesStored DEF Handle
<1>8. CASE UNCHANGED vars
  BY <1>8 DEF vars, Way, Normal, Encodings
<1> QED BY <1>1, <1>2, <1>3, <1>4, <1>5, <1>6, <1>7, <1>8 DEF Next

\* No step changes the request or its payload.
LEMMA RequestKept == [Next]_vars => UNCHANGED <<asked, raw>>
BY DEF Next, Decoding, Normalizing, Encoding, WriteNats, WriteInflux, WriteVictoria,
       Handle, vars

LEMMA DecodedSeverity ==
  ASSUME Way, SaysItsSeverity, at \in Normal, Meta(asked, raw).severity # None
  PROVE  Get(decoded, "severity", Meta(asked, raw).severity) # None
<1>1. asked.ep \in Webhooks /\ raw.dict["severity"] = Meta(asked, raw).severity
  BY DEF Meta, Webhooks
<1>2. decoded = raw.dict
  BY <1>1 DEF Way, SaysItsSeverity, Decode, JSONDecoder
<1> QED BY <1>1, <1>2 DEF Get

LEMMA WayFinds == Way /\ SaysItsSeverity => FoundBySeverity
<1> SUFFICES ASSUME Way, SaysItsSeverity, InEvents, envelope.severity # None
             PROVE  Search(QueryEvents("ALL", envelope.severity), stored.doc)
  BY DEF FoundBySeverity
<1>1. at \in Normal /\ envelope = Normalize(decoded, Meta(asked, raw)) /\ envelope # Refused
  BY DEF InEvents, Way, Normal
<1>2. stored.doc = Document(envelope)
  BY DEF InEvents, Way, WritePm, WriteEvent
<1> QED BY <1>1, <1>2, DecodedSeverity, DocumentIsFound

\* The element that a request names by a tag is the envelope's.
LEMMA NamedElement ==
  ASSUME NEW d, NEW meta, IsTag(meta.source_ne)
  PROVE  Element(d, meta) = meta.source_ne
BY DEF Element, IsTag

LEMMA WayLoses == Way /\ asked.encoder \in {"json", "csv", "protobuf", "avro"}
                    => LostOnlyIfUnwritable
<1> SUFFICES ASSUME Way, asked.encoder \in {"json", "csv", "protobuf", "avro"},
                    at = "lost", asked.encoder # "csv"
             PROVE  /\ envelope.domain = "PM"
                    /\ \/ ~IsNumber(Get(decoded, "value", "0.0"))
                       \/ ~IsTag(Meta(asked, raw).source_ne) \/ ~IsTag(asked.protocol)
  BY DEF LostOnlyIfUnwritable
<1>1. encoded = Encode(asked.encoder) /\ encoded # Refused
  BY DEF Way, Encodings
<1>2. encoded.form = "envelope"
  BY <1>1 DEF Encode, JSONEncoder, ProtobufEncoder, AvroEncoder
<1>3. ToStore(envelope) = Refused
  BY <1>2 DEF Way
<1>4. /\ envelope.domain = "PM"
      /\ \/ ~IsNumber(Sample(envelope))
         \/ ~IsTag(envelope.source_ne) \/ ~IsTag(envelope.protocol)
  BY <1>3, Distinguished DEF ToStore, WritePm, WriteEvent
<1>5. /\ envelope.normalized = decoded
      /\ envelope.source_ne = Element(decoded, Meta(asked, raw))
      /\ envelope.protocol = Meta(asked, raw).protocol
  BY Normalized DEF Way, Normal
<1>6. Meta(asked, raw).protocol = asked.protocol
  BY DEF Meta
<1> QED BY <1>4, <1>5, <1>6, NamedElement DEF Sample

\* Whatever the payload - and whatever a decoder leaves of it - a stored event is
\* found by its severity, when the requests that tell the normalizer a severity have
\* their payload normalised as it is.
THEOREM FoundForAnyPayload ==
  at = "received" /\ SaysItsSeverity /\ [][Next]_vars => []FoundBySeverity
<1>1. SaysItsSeverity /\ [Next]_vars => SaysItsSeverity'
  BY RequestKept DEF SaysItsSeverity
<1> QED BY <1>1, WayStarts, WayPreserved, WayFinds, PTL
-----------------------------------------------------------------------------
(* The requests that the clients send.                                     *)

Keys == {"domain", "severity", "value", "source_ne", "fcaps_domain", "header",
         "faultFields"}

Metering == {"avro/simulate", "protobuf/simulate", "sftp/simulate"}

\* What a simulate request says of the payload that is generated for it.
Generated(a, p) ==
  /\ a.ep = "webhook/simulate" =>
       a.decoder = "json" /\ p.dict \in GenerateEvents(a.domain, a.wanted, a.source_ne)
  /\ a.ep = "snmp/simulate" =>
       a.decoder = "snmp" /\ p.dict = SnmpSimulator(a.wanted, a.source_ne)
  /\ a.ep = "ves/simulate" =>
       a.decoder = "ves" /\ p.dict = VesSimulator(a.domain, a.wanted, a.source_ne)
  /\ a.ep \in Metering =>
       /\ a.decoder \in {"json", "protobuf"}
       /\ p.dict = [domain |-> a.domain, value |-> "7.5", source_ne |-> a.source_ne]

\* A request and its payload fit together.
Fits(a, p) ==
  /\ a.encoder \in {"json", "csv", "protobuf", "avro"}
  /\ a.decoder \in {"json", "csv", "xml", "avro", "protobuf", "snmp", "ves"}
  /\ a.ep # "transform/run" =>
       a.encoder = "json" /\ a.writer = "nats" /\ a.protocol = "word"
  /\ a.decoder # "snmp" => DOMAIN p.dict \subseteq Keys
  /\ a.ep \in Webhooks => a.decoder = "json"
  /\ Generated(a, p)

LEMMA MaybeKeys ==
  ASSUME NEW key, NEW values, NEW d \in Maybe(key, values)
  PROVE  DOMAIN d \subseteq {key}
BY DEF Maybe, Item, Empty

LEMMA BothKeys ==
  ASSUME NEW S, NEW T, \A d \in S : DOMAIN d \subseteq Keys,
         \A e \in T : DOMAIN e \subseteq Keys
  PROVE  \A b \in Both(S, T) : DOMAIN b \subseteq Keys
<1> SUFFICES ASSUME NEW d \in S, NEW e \in T PROVE DOMAIN Over(d, e) \subseteq Keys
  BY DEF Both
<1> QED BY KeysOver

\* The dicts of one key that is one of Keys.
LEMMA MaybeInKeys ==
  ASSUME NEW key \in Keys, NEW values
  PROVE  \A d \in Maybe(key, values) : DOMAIN d \subseteq Keys
BY MaybeKeys

LEMMA RequestsFit == ASSUME NEW r \in Requests PROVE Fits(r[1], r[2])
<1>1. CASE r \in WebhookReceive
  BY <1>1 DEF WebhookReceive, Sent, Ask, AsDict, Fits, Generated, Webhooks, Metering, Keys
<1>2. CASE r \in WebhookSimulate
  BY <1>2 DEF WebhookSimulate, GenerateEvents, Ask, AsDict, Fits, Generated, Webhooks,
           Metering, Keys
<1>3. CASE r \in SnmpReceive
  BY <1>3 DEF SnmpReceive, Sent, Ask, AsDict, Fits, Generated, Webhooks, Metering
<1>4. CASE r \in SnmpSimulate
  BY <1>4 DEF SnmpSimulate, Ask, AsDict, Fits, Generated, Webhooks, Metering
<1>5. CASE r \in VesReceive
  <2>1. \A d \in VesDicts : DOMAIN d \subseteq Keys
    <3> DEFINE H == Maybe("header", [domain : VesDomains, sourceName : Elements])
               F == Maybe("faultFields", {"CRITICAL", "NORMAL", "major", "Info"})
               D == Maybe("domain", {"FM"})
               S == Maybe("severity", {"MINOR", "minor"})
               V == Maybe("value", {"text"})
    <3>1. /\ \A d \in H : DOMAIN d \subseteq Keys
          /\ \A d \in F : DOMAIN d \subseteq Keys
          /\ \A d \in D : DOMAIN d \subseteq Keys
          /\ \A d \in S : DOMAIN d \subseteq Keys
          /\ \A d \in V : DOMAIN d \subseteq Keys
      BY MaybeInKeys DEF Keys
    <3>2. VesDicts = Both(Both(H, F), Both(D, Both(S, V)))
      BY DEF VesDicts
    <3> HIDE DEF H, F, D, S, V
    <3>3. \A d \in Both(H, F) : DOMAIN d \subseteq Keys
      BY <3>1, BothKeys
    <3>4. \A d \in Both(S, V) : DOMAIN d \subseteq Keys
      BY <3>1, BothKeys
    <3>5. \A d \in Both(D, Both(S, V)) : DOMAIN d \subseteq Keys
      BY <3>1, <3>4, BothKeys
    <3> QED BY <3>2, <3>3, <3>5, BothKeys
  <2> QED BY <1>5, <2>1 DEF VesReceive, Sent, Ask, AsDict, Fits, Generated, Webhooks, Metering
<1>6. CASE r \in VesSimulate
  <2>1. \A d, s, n : DOMAIN VesSimulator(d, s, n) \subseteq Keys
    BY DEF VesSimulator, Keys
  <2> QED BY <1>6, <2>1 DEF VesSimulate, Ask, AsDict, Fits, Generated, Webhooks, Metering
<1>7. \A d \in RecordDicts : DOMAIN d \subseteq Keys
  <2> DEFINE D == Maybe("domain", {"PM", "cell"})
             S == Maybe("severity", {"MAJOR", "major"})
             V == Maybe("value", {"7.5", "text", "nan"})
             N == Maybe("source_ne", {"", None})
  <2>1. /\ \A d \in D : DOMAIN d \subseteq Keys
        /\ \A d \in S : DOMAIN d \subseteq Keys
        /\ \A d \in V : DOMAIN d \subseteq Keys
        /\ \A d \in N : DOMAIN d \subseteq Keys
    BY MaybeInKeys DEF Keys
  <2>2. RecordDicts = Both(Both(D, S), Both(V, N))
    BY DEF RecordDicts
  <2> HIDE DEF D, S, V, N
  <2>3. \A d \in Both(D, S) : DOMAIN d \subseteq Keys
    BY <2>1, BothKeys
  <2>4. \A d \in Both(V, N) : DOMAIN d \subseteq Keys
    BY <2>1, BothKeys
  <2> QED BY <2>2, <2>3, <2>4, BothKeys
<1>8. CASE r \in Avro
  BY <1>7, <1>8 DEF Avro, Records, AvroSimulator, Ask, AsDict, Fits, Generated,
           Webhooks, Metering, Keys
<1>9. CASE r \in Protobuf
  BY <1>7, <1>9 DEF Protobuf, Records, ProtobufSimulator, Ask, AsDict, Fits, Generated,
           Webhooks, Metering, Keys
<1>10. CASE r \in Sftp
  BY <1>7, <1>10 DEF Sftp, Records, SftpSimulator, Ask, AsDict, Fits, Generated,
           Webhooks, Metering, Keys
<1>11. CASE r \in TransformRun
  <2>1. /\ r[1].encoder \in {"json", "csv", "protobuf", "avro"}
        /\ r[1].decoder \in {"json", "csv", "xml", "avro", "protobuf", "snmp", "ves"}
        /\ r[1].ep = "transform/run"
    BY <1>11 DEF TransformRun
  <2>2. DOMAIN r[2].dict \subseteq Keys
    <3> DEFINE D == {[severity |-> "MAJOR"], [value |-> "7.5"], [value |-> "text"],
                     [header |-> [domain |-> "fault", sourceName |-> "word"],
                      faultFields |-> "NORMAL"]}
    <3>1. \/ r[2] \in [form : {"dict", "json"}, dict : D]
          \/ r[2] \in [form : {"csv", "xml"}, dict : {Empty}]
      BY <1>11 DEF TransformRun
    <3>2. \A d \in D : DOMAIN d \subseteq Keys
      BY DEF Keys
    <3>3. DOMAIN Empty \subseteq Keys
      BY DEF Empty
    <3> HIDE DEF D
    <3> QED BY <3>1, <3>2, <3>3
  <2> QED BY <2>1, <2>2 DEF Fits, Generated, Webhooks, Metering
<1> QED
  BY <1>1, <1>2, <1>3, <1>4, <1>5, <1>6, <1>8, <1>9, <1>10, <1>11 DEF Requests
-----------------------------------------------------------------------------
(* What is simulated.                                                      *)

\* A VES event keeps the keys beside its header; what the decoder makes of the
\* header and of a fault's body goes over them.
LEMMA VesDecoded ==
  ASSUME NEW p, VESDecoder(p) # Refused
  PROVE  LET kept == (DOMAIN p.dict \ {"header"}) \cup {"domain", "source_ne", "fcaps_domain"}
         IN  /\ "faultFields" \notin DOMAIN p.dict => DOMAIN VESDecoder(p) = kept
             /\ "faultFields" \in DOMAIN p.dict =>
                  /\ DOMAIN VESDecoder(p) = kept \cup {"severity"}
                  /\ VESDecoder(p)["severity"] =
                       Get(VesSeverity, Upper(p.dict["faultFields"]), "WARNING")
<1> DEFINE header == p.dict["header"]
           others == [k \in DOMAIN p.dict \ {"header"} |-> p.dict[k]]
           own    == [domain |-> header.domain, source_ne |-> header.sourceName]
           flat   == Over(others, own)
           mapped == [fcaps_domain |-> Get(VesToFcaps, Lower(header.domain), "LOG")]
           said   == Get(VesSeverity, Upper(p.dict["faultFields"]), "WARNING")
           fault  == IF "faultFields" \notin DOMAIN p.dict THEN Empty
                     ELSE [severity |-> said]
<1>1. VESDecoder(p) = Over(fault, Over(mapped, flat))
  BY DEF VESDecoder
<1>2. /\ DOMAIN others = DOMAIN p.dict \ {"header"}
      /\ DOMAIN own = {"domain", "source_ne"}
      /\ DOMAIN mapped = {"fcaps_domain"}
  OBVIOUS
<1>3. /\ "faultFields" \notin DOMAIN p.dict => DOMAIN fault = {}
      /\ "faultFields" \in DOMAIN p.dict =>
           DOMAIN fault = {"severity"} /\ fault["severity"] = said
  BY DEF Empty
<1> HIDE DEF fault, mapped, own, others, said
<1>4. DOMAIN VESDecoder(p) =
        DOMAIN fault \cup (DOMAIN mapped \cup (DOMAIN others \cup DOMAIN own))
  <2>1. DOMAIN flat = DOMAIN others \cup DOMAIN own
    BY KeysOver
  <2> HIDE DEF flat
  <2>2. DOMAIN Over(mapped, flat) = DOMAIN mapped \cup DOMAIN flat
    BY KeysOver
  <2>3. DOMAIN VESDecoder(p) = DOMAIN fault \cup DOMAIN Over(mapped, flat)
    BY <1>1, KeysOver
  <2> QED BY <2>1, <2>2, <2>3
<1>5. "faultFields" \in DOMAIN p.dict => VESDecoder(p)["severity"] = said
  BY <1>1, <1>3 DEF Over
<1> QED BY <1>2, <1>3, <1>4, <1>5 DEF said

\* What the decoder makes of a generated payload: its value is a number, and its
\* severity, with the request's for want of one, is one that was asked for.
LEMMA SimulatedDecoded ==
  ASSUME Fits(asked, raw), asked.ep \in Simulates,
         decoded = Decode(asked.decoder, raw), decoded # Refused
  PROVE  /\ IsNumber(Get(decoded, "value", "0.0"))
         /\ asked.ep \in Metering => Get(decoded, "value", "0.0") = "7.5"
         /\ Said(decoded, Meta(asked, raw)) \in WantedSeverity
<1> DEFINE said == Get(decoded, "severity", None)
           meta == Meta(asked, raw)
<1>1. CASE asked.ep = "webhook/simulate"
  <2>1. PICK s \in (IF asked.wanted = "RANDOM" THEN Severity ELSE {asked.wanted}) :
          raw.dict = [domain |-> asked.domain, severity |-> s, source_ne |-> asked.source_ne]
    BY <1>1 DEF Fits, Generated, GenerateEvents
  <2>2. decoded = raw.dict
    BY <1>1 DEF Fits, Generated, Decode, JSONDecoder
  <2>3. said = s /\ Get(decoded, "value", "0.0") = "0.0"
    BY <2>1, <2>2 DEF Get
  <2>4. meta.severity = s
    BY <1>1, <2>1 DEF Meta
  <2>5. Said(decoded, meta) = s
    BY <2>3, <2>4 DEF Said
  <2> QED BY <1>1, <2>3, <2>5 DEF IsNumber, Metering, WantedSeverity
<1>2. CASE asked.ep = "snmp/simulate"
  <2> DEFINE s == TypeSeverity(asked.wanted)
  <2>1. s \in Severity /\ s # None
    BY Distinguished DEF TypeSeverity, TrapTypes, Get, Severity
  <2>2. Get(raw.dict, "severity", None) = s
    BY <1>2 DEF Fits, Generated, SnmpSimulator, Get
  <2>3. decoded = SNMPDecoder(raw)
    BY <1>2 DEF Fits, Generated, Decode
  <2>4. PICK n : decoded = [severity |-> s, source_ne |-> n]
    BY <2>1, <2>2, <2>3 DEF SNMPDecoder
  <2>5. said = s /\ Get(decoded, "value", "0.0") = "0.0"
    BY <2>4 DEF Get
  <2>6. Said(decoded, meta) = s
    BY <2>1, <2>5 DEF Said
  <2> QED BY <1>2, <2>5, <2>6 DEF IsNumber, Metering, WantedSeverity
<1>3. CASE asked.ep = "ves/simulate"
  <2>1. raw.dict = VesSimulator(asked.domain, asked.wanted, asked.source_ne)
    BY <1>3 DEF Fits, Generated
  <2>2. decoded = VESDecoder(raw)
    BY <1>3 DEF Fits, Generated, Decode
  <2>3. "value" \notin DOMAIN raw.dict
    BY <2>1 DEF VesSimulator
  <2>4. "value" \notin DOMAIN decoded
    <3>1. "value" \notin DOMAIN VESDecoder(raw)
      BY <2>2, <2>3, VesDecoded
    <3> QED BY <2>2, <3>1
  <2>5. Get(decoded, "value", "0.0") = "0.0"
    BY <2>4 DEF Get
  <2>6. CASE asked.domain = "fault"
    <3> DEFINE s == Get(VesSeverity, Upper(SevVes(asked.wanted)), "WARNING")
    <3>1. /\ "faultFields" \in DOMAIN raw.dict
          /\ raw.dict["faultFields"] = SevVes(asked.wanted)
      BY <2>1, <2>6 DEF VesSimulator
    <3>2. "severity" \in DOMAIN decoded /\ decoded["severity"] = s
      BY <2>2, <3>1, VesDecoded
    <3>3. s \in Severity
      BY DEF VesSeverity, Get, Severity
    <3> HIDE DEF s
    <3>4. Said(decoded, meta) = s
      BY <3>2, <3>3, Distinguished DEF Said, Get
    <3>5. Upper(asked.wanted) \in Severity => s = Upper(asked.wanted)
      BY FaultSeverity DEF s
    <3> QED BY <1>3, <2>5, <2>6, <3>3, <3>4, <3>5 DEF IsNumber, Metering, WantedSeverity
  <2>7. CASE asked.domain # "fault"
    <3>1. DOMAIN raw.dict = {"header"}
      BY <2>1, <2>7 DEF VesSimulator
    <3>2. "severity" \notin DOMAIN decoded
      <4>1. "severity" \notin DOMAIN VESDecoder(raw)
        BY <2>2, <3>1, VesDecoded
      <4> QED BY <2>2, <4>1
    <3>3. meta.severity = None
      BY <1>3 DEF Meta
    <3>4. Said(decoded, meta) = None
      BY <3>2, <3>3 DEF Said, Get
    <3> QED BY <1>3, <2>5, <2>7, <3>4 DEF IsNumber, Metering, WantedSeverity
  <2> QED BY <2>6, <2>7
<1>4. CASE asked.ep \in Metering
  <2>1. decoded = [domain |-> asked.domain, value |-> "7.5", source_ne |-> asked.source_ne]
    BY <1>4 DEF Fits, Generated, Decode, JSONDecoder, ProtobufDecoder
  <2>2. said = None /\ Get(decoded, "value", "0.0") = "7.5"
    BY <2>1 DEF Get
  <2>3. meta.severity = None
    BY <1>4 DEF Meta, Metering
  <2>4. Said(decoded, meta) = None
    BY <2>2, <2>3 DEF Said
  <2> QED BY <1>4, <2>2, <2>4 DEF IsNumber, Metering, WantedSeverity
<1> QED BY <1>1, <1>2, <1>3, <1>4 DEF Simulates, Metering

\* Every simulated event is of the network element that was asked for.
LEMMA SimulatedElement ==
  ASSUME Fits(asked, raw), asked.ep \in Simulates
  PROVE  Meta(asked, raw).source_ne = asked.source_ne
<1>1. CASE asked.ep = "webhook/simulate"
  BY <1>1 DEF Fits, Generated, GenerateEvents, Meta
<1>2. CASE asked.ep # "webhook/simulate"
  BY <1>2 DEF Simulates, Meta
<1> QED BY <1>1, <1>2

LEMMA WaySimulates == Way /\ Fits(asked, raw) => SimulatedAsAsked
<1> DEFINE meta == Meta(asked, raw)
<1> SUFFICES ASSUME Way, Fits(asked, raw), asked.ep \in Simulates
             PROVE  /\ at = "lost" => meta.domain = "PM" /\ ~IsTag(asked.source_ne)
                    /\ at = "stored" =>
                         /\ InMetrics <=> meta.domain = "PM"
                         /\ InMetrics /\ asked.ep \in Metering => stored.sample = "7.5"
                         /\ envelope.severity \in WantedSeverity
  BY DEF SimulatedAsAsked, Metering
<1>1. CASE at \notin {"lost", "stored"}
  BY <1>1
<1>2. CASE at \in {"lost", "stored"}
  <2>1. /\ decoded = Decode(asked.decoder, raw) /\ decoded # Refused
        /\ envelope = Normalize(decoded, meta) /\ envelope # Refused
        /\ encoded = Encode(asked.encoder)
    BY <1>2 DEF Way, Normal, Encodings
  <2>2. asked.encoder = "json" /\ asked.writer = "nats" /\ asked.protocol = "word"
    BY DEF Fits, Simulates
  <2>3. encoded.form = "envelope"
    BY <2>1, <2>2 DEF Encode, JSONEncoder
  <2>4. /\ envelope.domain = meta.domain /\ envelope.severity = Said(decoded, meta)
        /\ envelope.source_ne = Element(decoded, meta)
        /\ envelope.protocol = meta.protocol /\ envelope.normalized = decoded
    BY <2>1, Normalized
  <2>5. /\ IsNumber(Sample(envelope))
        /\ asked.ep \in Metering => Sample(envelope) = "7.5"
        /\ Said(decoded, meta) \in WantedSeverity
    BY <2>1, <2>4, SimulatedDecoded DEF Sample
  <2>6. IsTag(envelope.protocol)
    BY <2>2, <2>4 DEF Meta, IsTag
  <2>7. IsTag(asked.source_ne) => IsTag(envelope.source_ne)
    BY <2>4, SimulatedElement, NamedElement
  <2>8. ToStore(envelope) = Refused => meta.domain = "PM" /\ ~IsTag(asked.source_ne)
    BY <2>4, <2>5, <2>6, <2>7, Distinguished DEF ToStore, WritePm, WriteEvent
  <2>9. CASE at = "lost"
    BY <2>3, <2>8, <2>9 DEF Way
  <2>10. CASE at = "stored"
    <3>1. stored = ToStore(envelope) /\ stored # Refused
      BY <2>2, <2>10 DEF Way
    <3>2. CASE meta.domain = "PM"
      <4>1. stored = [store |-> "metrics", sample |-> Sample(envelope)]
        BY <2>4, <3>1, <3>2 DEF ToStore, WritePm
      <4> QED BY <2>4, <2>5, <2>10, <3>2, <4>1 DEF InMetrics
    <3>3. CASE meta.domain # "PM"
      <4>1. stored.store = "events"
        BY <2>4, <3>1, <3>3 DEF ToStore, WriteEvent
      <4> QED BY <2>4, <2>5, <2>10, <3>3, <4>1 DEF InMetrics
    <3> QED BY <3>2, <3>3
  <2> QED BY <1>2, <2>9, <2>10
<1> QED BY <1>1, <1>2

\* A document has no key but these.
LEMMA WayTyped == Way /\ Fits(asked, raw) => TypeOK
<1> SUFFICES ASSUME Way, Fits(asked, raw) PROVE TypeOK
  OBVIOUS
<1>1. at \in Normal =>
        /\ envelope.domain \in FCAPSDomain
        /\ envelope.severity \in Severity \cup {None}
        /\ envelope.normalized = decoded
  BY Normalized DEF Way
<1>2. at \in Encodings => encoded.form \in {"envelope", "data"}
  <2> SUFFICES ASSUME at \in Encodings PROVE encoded.form \in {"envelope", "data"}
    OBVIOUS
  <2>1. encoded = Encode(asked.encoder) /\ encoded # Refused
    BY DEF Way
  <2> QED BY <2>1 DEF Fits, Encode, JSONEncoder, CSVEncoder, ProtobufEncoder, AvroEncoder
<1>3. ASSUME InEvents PROVE DOMAIN stored.doc \subseteq Keys
  <2>1. at \in Normal /\ decoded = Decode(asked.decoder, raw) /\ decoded # Refused
    BY <1>3 DEF InEvents, Way, Normal
  <2>2. stored.doc = Document(envelope)
    BY <1>3 DEF InEvents, Way, WritePm, WriteEvent
  <2>3. DOMAIN decoded \subseteq Keys
    <3>1. CASE asked.decoder = "snmp"
      BY <2>1, <3>1 DEF Decode, SNMPDecoder, Keys
    <3>2. CASE asked.decoder = "ves"
      <4>1. decoded = VESDecoder(raw) /\ DOMAIN raw.dict \subseteq Keys
        BY <2>1, <3>2 DEF Decode, Fits
      <4> QED BY <2>1, <4>1, VesDecoded DEF Keys
    <3>3. CASE asked.decoder \in {"json", "csv", "xml", "avro", "protobuf"}
      BY <2>1, <3>3 DEF Decode, JSONDecoder, CSVDecoder, XMLDecoder, AvroDecoder,
                        ProtobufDecoder, Empty, Fits
    <3> QED BY <3>1, <3>2, <3>3 DEF Fits
  <2>4. DOMAIN Document(envelope) \subseteq DOMAIN decoded \cup {"domain", "severity"}
    <3>1. PICK own : /\ Document(envelope) = Over(decoded, own)
                     /\ DOMAIN own \subseteq {"domain", "severity"}
      BY <1>1, <2>1 DEF Document
    <3> QED BY <3>1, KeysOver
  <2> QED BY <2>2, <2>3, <2>4 DEF Keys
<1> QED
  BY <1>1, <1>2, <1>3 DEF TypeOK, Way, Normal, Encodings, Fits, Keys
-----------------------------------------------------------------------------
LEMMA WayInvariance == Spec => [](Way /\ Fits(asked, raw))
<1>1. Init => Fits(asked, raw)
  BY RequestsFit DEF Init
<1>2. Fits(asked, raw) /\ [Next]_vars => Fits(asked, raw)'
  BY RequestKept
<1>3. Init => Way
  BY WayStarts DEF Init
<1> QED BY <1>1, <1>2, <1>3, WayPreserved, PTL DEF Spec

\* Each stage has been passed when the next is reached, an envelope has a domain
\* and a severity of the enumerations, and a document no key but those of the
\* decoders and of the envelope.
THEOREM TypeCorrect == Spec => []TypeOK
BY WayTyped, WayInvariance, PTL

\* An event of some severity is found by that severity, although the normalised
\* data overwrites the envelope's field (VictoriaLogsEvents._write).
THEOREM SeverityFinds == Spec => []FoundBySeverity
<1>1. Fits(asked, raw) => SaysItsSeverity
  BY DEF Fits, SaysItsSeverity
<1> QED BY <1>1, WayFinds, WayInvariance, PTL

\* What a console simulates is stored in the store of its domain with a severity it
\* asked for and the value that was generated; only the metrics of an element whose
\* name InfluxDB takes for no tag are lost.
THEOREM SimulationsAsAsked == Spec => []SimulatedAsAsked
BY WaySimulates, WayInvariance, PTL

\* NotificationService loses only the events that transform/run encoded as CSV, and
\* metrics with no number for a value or no tag for a protocol or an element.
THEOREM WritableIsStored == Spec => []LostOnlyIfUnwritable
<1>1. Fits(asked, raw) => asked.encoder \in {"json", "csv", "protobuf", "avro"}
  BY DEF Fits
<1> QED BY <1>1, WayLoses, WayInvariance, PTL
=============================================================================
