-------------------------------- MODULE Wire --------------------------------
(***************************************************************************)
(* The canonical record format (src/src/ingest/Decode.cpp, on the values   *)
(* parse_json of src/src/core/Json.cpp returns): how a line becomes a      *)
(* sample or a metadata table, how a document becomes a DecodeOutcome, and *)
(* how samples and tables are written.  Pure functions, so operators.      *)
(*                                                                         *)
(* A JSON value is a record with its type: text in "string", n in "uint"   *)
(* and "int" (an int is negative), items in "array", members (key ->       *)
(* value) in "object"; "other" is a literal or a fraction.  A line has the *)
(* form "skipped" (blank or a comment), "long", "broken" (no JSON value:   *)
(* bad syntax, a repeated key, a number past 64 bits) or "json".  A text   *)
(* is a name; what matters of it is whether it is too long for a field and *)
(* whether it can be an identity.  Reasons and byte counts are left out.   *)
(***************************************************************************)
EXTENDS Integers, Sequences, SequencesExt, FiniteSetsExt, TLC

CONSTANTS
    Fields,         \* the measurement names, keys_table and kFieldNames alike
    Overlong,       \* texts of more than max_field_bytes
    Unusable,       \* texts no identity may have
    U16, U32, I63,  \* the greatest values of 16 and 32 bits and of Nanos
    Version,        \* wire::kVersion
    MaxPayload,     \* max_payload_bytes, in lines
    MaxBatchSamples, MaxBatchMetadata, MaxJsonDepth, MaxJsonNodes, MaxMembers,
    MaxDiagnostics, \* kMaxDiagnostics
    Absent          \* an optional field that is not there

ASSUME WireAssumption ==
    /\ {U16, U32, I63, Version, MaxDiagnostics} \subseteq Nat /\ U16 < U32 /\ U32 < I63
    /\ {MaxPayload, MaxBatchSamples, MaxBatchMetadata, MaxJsonDepth, MaxJsonNodes, MaxMembers}
         \subseteq Nat \ {0}

String(t) == [type |-> "string", text |-> t]
Number(n) == IF n < 0 THEN [type |-> "int", n |-> n] ELSE [type |-> "uint", n |-> n]
Array(s) == [type |-> "array", items |-> s]
Object(m) == [type |-> "object", members |-> m]

Authorities == [unknown |-> 0, secondary |-> 1, primary |-> 2, authoritative |-> 3]

-----------------------------------------------------------------------------
(* parse_json *)

\* The values directly inside a value.
Children(v) ==
    IF v.type = "array" THEN v.items
    ELSE IF v.type = "object"
    THEN FoldSet(LAMBDA k, seq : Append(seq, v.members[k]), <<>>, DOMAIN v.members)
    ELSE <<>>

Inside(seq) == FlattenSeq([i \in DOMAIN seq |-> Children(seq[i])])

WithinLimits(v) ==
    /\ v.type = "string" => v.text \notin Overlong
    /\ v.type = "array" => Len(v.items) <= MaxBatchMetadata
    /\ v.type = "object" => Cardinality(DOMAIN v.members) <= MaxMembers
                            /\ DOMAIN v.members \cap Overlong = {}

\* The parser follows a value level by level, one level past the allowed depth.
ParsesJson(v) ==
    LET level[d \in 0..(MaxJsonDepth + 1)] == IF d = 0 THEN <<v>> ELSE Inside(level[d - 1])
        all == FlattenSeq([d \in 1..(MaxJsonDepth + 1) |-> level[d - 1]])
    IN /\ level[MaxJsonDepth + 1] = <<>>
       /\ Len(all) <= MaxJsonNodes
       /\ \A x \in Range(all) : WithinLimits(x)

-----------------------------------------------------------------------------
(* Reading the fields of an object *)

Has(o, k) == k \in DOMAIN o.members
HasText(o, k) == Has(o, k) /\ o.members[k].type = "string" /\ o.members[k].text \notin Overlong
HasNumber(o, k) == Has(o, k) /\ o.members[k].type = "uint"
HasIdentity(o, k) == HasText(o, k) /\ o.members[k].text \notin Unusable

\* An optional field is absent or as it should be.
MayNumber(o, k, greatest) == Has(o, k) => HasNumber(o, k) /\ o.members[k].n <= greatest
MayText(o, k) == Has(o, k) => HasText(o, k)
MayIdentity(o, k) == Has(o, k) => HasIdentity(o, k)
MayArray(o, k) == Has(o, k) => o.members[k].type = "array" /\ Len(o.members[k].items) <= MaxBatchMetadata

Text(o, k) == IF Has(o, k) THEN o.members[k].text ELSE Absent
Num(o, k) == IF Has(o, k) THEN o.members[k].n ELSE Absent
Items(o, k) == IF Has(o, k) THEN o.members[k].items ELSE <<>>

\* An authority that is not a text, or one this runtime does not know.
AuthorityIsText(o) == Has(o, "authority") => o.members["authority"].type = "string"
AuthorityIsKnown(o) == Has(o, "authority") => o.members["authority"].text \in DOMAIN Authorities

AuthorityOf(o) == IF Has(o, "authority") THEN Authorities[Text(o, "authority")] ELSE 0

Refused(status) == [status |-> status, read |-> Absent, unknown |-> 0]
Read(x, unknown) == [status |-> "ok", read |-> x, unknown |-> unknown]

-----------------------------------------------------------------------------
(* parse_sample_record *)

PathKeys == {"device", "port"}
Path(o) == <<Text(o, "device"), Text(o, "port"), Num(o, "queue")>>

\* What comes before the authority: all required fields, their identities and
\* their ranges.
SampleRequired(o) ==
    /\ \A k \in PathKeys \cup {"source", "incarnation", "clock_domain"} : HasIdentity(o, k)
    /\ \A k \in {"queue", "generation", "sequence", "observed_ns"} : HasNumber(o, k)
    /\ Num(o, "queue") <= U32 /\ Num(o, "observed_ns") <= I63

\* What comes after it.
SampleOptional(o) ==
    /\ Has(o, "revision") => HasNumber(o, "revision")
    /\ MayNumber(o, "traffic_class", U16) /\ MayIdentity(o, "scheduling_class")
    /\ \A f \in Fields : Has(o, f) => HasNumber(o, f)
    /\ \E f \in Fields : Has(o, f)
    /\ Has(o, "declared") =>
         /\ o.members["declared"].type = "array"
         /\ \A x \in Range(Items(o, "declared")) : x.type = "string"

SampleKeys ==
    Fields \cup PathKeys
    \cup {"kind", "v", "queue", "source", "incarnation", "generation", "sequence", "observed_ns",
          "clock_domain", "declared", "authority", "revision", "traffic_class", "scheduling_class"}

\* Mutant: the declaration is ignored.
DeclaredAsReported(o) == Fields \cap DOMAIN o.members

\* Without a declaration a sample declares what it reports.
DeclaredBy(o) ==
    IF Has(o, "declared") THEN {f \in Fields : \E x \in Range(Items(o, "declared")) : x.text = f}
    ELSE Fields \cap DOMAIN o.members

SampleOf(o) ==
    [queue |-> Path(o), source |-> Text(o, "source"), incarnation |-> Text(o, "incarnation"),
     generation |-> Num(o, "generation"), sequence |-> Num(o, "sequence"),
     observed |-> Num(o, "observed_ns"), domain |-> Text(o, "clock_domain"),
     authority |-> AuthorityOf(o),
     revision |-> IF Has(o, "revision") THEN Num(o, "revision") ELSE 0,
     traffic |-> Num(o, "traffic_class"), scheduling |-> Text(o, "scheduling_class"),
     values |-> [f \in Fields \cap DOMAIN o.members |-> Num(o, f)],
     declared |-> DeclaredBy(o)]

\* Declared names that are not known count like unknown keys.
ParseSample(o) ==
    IF ~SampleRequired(o) \/ ~AuthorityIsText(o) THEN Refused("malformed")
    ELSE IF ~AuthorityIsKnown(o) THEN Refused("unsupported")
    ELSE IF ~SampleOptional(o) THEN Refused("malformed")
    ELSE Read(SampleOf(o),
              Cardinality(DOMAIN o.members \ SampleKeys)
              + Len(SelectSeq(Items(o, "declared"), LAMBDA x : x.text \notin Fields)))

-----------------------------------------------------------------------------
(* parse_metadata_record *)

TrafficEntry(e) ==
    /\ e.type = "object"
    /\ HasNumber(e, "id") /\ Num(e, "id") <= U16
    /\ MayText(e, "name") /\ MayNumber(e, "dscp", U16) /\ MayNumber(e, "pcp", U16)
    /\ MayIdentity(e, "scheduling_class")

SchedulingEntry(e) ==
    /\ e.type = "object"
    /\ HasIdentity(e, "id") /\ MayText(e, "mode")
    /\ Has(e, "weight") => HasNumber(e, "weight")

BindingEntry(e) ==
    /\ e.type = "object"
    /\ \A k \in PathKeys : HasIdentity(e, k)
    /\ HasNumber(e, "queue") /\ Num(e, "queue") <= U32
    /\ MayNumber(e, "traffic_class", U16) /\ MayIdentity(e, "scheduling_class")

TableSections(o) ==
    /\ \A k \in {"traffic_classes", "scheduling_classes", "bindings"} : MayArray(o, k)
    /\ \A e \in Range(Items(o, "traffic_classes")) : TrafficEntry(e)
    /\ \A e \in Range(Items(o, "scheduling_classes")) : SchedulingEntry(e)
    /\ \A e \in Range(Items(o, "bindings")) : BindingEntry(e)

\* A name or mode that is not given is the empty text.
TextOrEmpty(e, k) == IF Has(e, k) THEN Text(e, k) ELSE ""

Each(seq, F(_)) == [i \in DOMAIN seq |-> F(seq[i])]

TableOf(o) ==
    [revision |-> Num(o, "revision"), generation |-> Num(o, "generation"),
     source |-> Text(o, "source"), authority |-> AuthorityOf(o),
     traffic |-> Each(Items(o, "traffic_classes"), LAMBDA e :
        [id |-> Num(e, "id"), name |-> TextOrEmpty(e, "name"), dscp |-> Num(e, "dscp"),
         pcp |-> Num(e, "pcp"), scheduling |-> Text(e, "scheduling_class")]),
     scheduling |-> Each(Items(o, "scheduling_classes"), LAMBDA e :
        [id |-> Text(e, "id"), mode |-> TextOrEmpty(e, "mode"), weight |-> Num(e, "weight")]),
     bindings |-> Each(Items(o, "bindings"), LAMBDA e :
        [queue |-> Path(e), traffic |-> Num(e, "traffic_class"),
         scheduling |-> Text(e, "scheduling_class")])]

ParseTable(o) ==
    IF ~(HasNumber(o, "revision") /\ HasNumber(o, "generation") /\ HasIdentity(o, "source"))
       \/ ~AuthorityIsText(o)
    THEN Refused("malformed")
    ELSE IF ~AuthorityIsKnown(o) THEN Refused("unsupported")
    ELSE IF ~TableSections(o) \/ 0 \in {Num(o, "revision"), Num(o, "generation")}
    THEN Refused("malformed")
    ELSE Read(TableOf(o), 0)

-----------------------------------------------------------------------------
(* decode_document *)

NoOutcome ==
    [line |-> 0, lines |-> 0, skipped |-> 0, malformed |-> 0, unsupported |-> 0, mismatched |-> 0,
     samples |-> <<>>, tables |-> <<>>, unknown |-> 0, diagnostics |-> <<>>, truncated |-> FALSE]

\* push_diagnostic
Diagnosed(out, status) ==
    IF Len(out.diagnostics) >= MaxDiagnostics THEN [out EXCEPT !.truncated = TRUE]
    ELSE [out EXCEPT !.diagnostics = Append(@, [line |-> out.line, status |-> status])]

Refuses(out, status) ==
    Diagnosed(CASE status = "malformed" -> [out EXCEPT !.malformed = @ + 1]
                [] status = "unsupported" -> [out EXCEPT !.unsupported = @ + 1]
                [] status = "mismatch" -> [out EXCEPT !.mismatched = @ + 1], status)

AddSample(out, o) ==
    IF Len(out.samples) >= MaxBatchSamples THEN Refuses(out, "malformed")
    ELSE LET p == ParseSample(o)
         IN IF p.status # "ok" THEN Refuses(out, p.status)
            ELSE [out EXCEPT !.samples = Append(@, p.read), !.unknown = @ + p.unknown]

AddTable(out, o) ==
    IF Len(out.tables) >= MaxBatchMetadata THEN Refuses(out, "malformed")
    ELSE LET p == ParseTable(o)
         IN IF p.status # "ok" THEN Refuses(out, p.status)
            ELSE [out EXCEPT !.tables = Append(@, p.read)]

\* A JSON object that names a kind, in a version that is read.
AddRecord(out, o) ==
    IF ~Has(o, "kind") \/ (Has(o, "kind") /\ o.members["kind"].type # "string")
       \/ (Has(o, "v") /\ ~HasNumber(o, "v"))
    THEN Refuses(out, "malformed")
    ELSE IF Has(o, "v") /\ Num(o, "v") # Version THEN Refuses(out, "mismatch")
    ELSE IF Text(o, "kind") = "queue_sample" THEN AddSample(out, o)
    ELSE IF Text(o, "kind") = "class_metadata" THEN AddTable(out, o)
    ELSE Refuses(out, "unsupported")

\* Mutant: a line that is no JSON ends the document.
AddLineAborts(prev, line) ==
    LET out == [prev EXCEPT !.line = @ + 1, !.lines = @ + 1]
    IN IF line.form = "skipped" THEN [prev EXCEPT !.line = @ + 1, !.skipped = @ + 1]
       ELSE IF prev.malformed > 0 \/ line.form # "json" THEN Refuses(out, "malformed")
       ELSE IF ~ParsesJson(line.value) \/ line.value.type # "object"
       THEN Refuses(out, "malformed")
       ELSE AddRecord(out, line.value)

AddLine(prev, line) ==
    LET out == [prev EXCEPT !.line = @ + 1, !.lines = @ + 1]
    IN IF line.form = "skipped" THEN [prev EXCEPT !.line = @ + 1, !.skipped = @ + 1]
       ELSE IF line.form # "json" THEN Refuses(out, "malformed")
       ELSE IF ~ParsesJson(line.value) \/ line.value.type # "object"
       THEN Refuses(out, "malformed")
       ELSE AddRecord(out, line.value)

DecodeDocument(lines) == FoldLeft(AddLine, NoOutcome, lines)

-----------------------------------------------------------------------------
(* Encoding *)

\* Of some optional members, those that are present.
Present(optional) ==
    [k \in {k \in DOMAIN optional : optional[k] # Absent} |-> optional[k]]

OptText(t) == IF t = Absent THEN Absent ELSE String(t)
OptNum(n) == IF n = Absent THEN Absent ELSE Number(n)

AuthorityName(a) == CHOOSE name \in DOMAIN Authorities : Authorities[name] = a

\* validate_encodable_sample: the observation time is not looked at.
EncodableSample(s) ==
    /\ {s.queue[1], s.queue[2], s.source, s.incarnation, s.domain} \cap Unusable = {}
    /\ s.generation # 0 /\ s.sequence # 0
    /\ DOMAIN s.values # {}

\* encode_sample, for a sample that is encodable.
EncodeSample(s) ==
    Object([kind |-> String("queue_sample"), v |-> Number(Version),
            device |-> String(s.queue[1]), port |-> String(s.queue[2]), queue |-> Number(s.queue[3]),
            source |-> String(s.source), incarnation |-> String(s.incarnation),
            generation |-> Number(s.generation), sequence |-> Number(s.sequence),
            authority |-> String(AuthorityName(s.authority)), observed_ns |-> Number(s.observed),
            clock_domain |-> String(s.domain),
            declared |-> Array(FoldSet(LAMBDA f, seq : Append(seq, String(f)), <<>>, s.declared))]
           @@ Present([revision |-> IF s.revision = 0 THEN Absent ELSE Number(s.revision),
                       traffic_class |-> OptNum(s.traffic),
                       scheduling_class |-> OptText(s.scheduling)])
           @@ [f \in DOMAIN s.values |-> Number(s.values[f])])

\* encode_metadata, of any table
EncodeTable(t) ==
    Object([kind |-> String("class_metadata"), v |-> Number(Version),
            revision |-> Number(t.revision), generation |-> Number(t.generation),
            source |-> String(t.source), authority |-> String(AuthorityName(t.authority)),
            traffic_classes |-> Array(Each(t.traffic, LAMBDA e :
               Object([id |-> Number(e.id), name |-> String(e.name)]
                      @@ Present([dscp |-> OptNum(e.dscp), pcp |-> OptNum(e.pcp),
                                  scheduling_class |-> OptText(e.scheduling)])))),
            scheduling_classes |-> Array(Each(t.scheduling, LAMBDA e :
               Object([id |-> String(e.id), mode |-> String(e.mode)]
                      @@ Present([weight |-> OptNum(e.weight)])))),
            bindings |-> Array(Each(t.bindings, LAMBDA e :
               Object([device |-> String(e.queue[1]), port |-> String(e.queue[2]),
                       queue |-> Number(e.queue[3])]
                      @@ Present([traffic_class |-> OptNum(e.traffic),
                                  scheduling_class |-> OptText(e.scheduling)]))))])
=============================================================================
