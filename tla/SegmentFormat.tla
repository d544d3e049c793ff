---------------------------- MODULE SegmentFormat ---------------------------
(***************************************************************************)
(* The durable segment (src/src/persist/Format.cpp): how encode_snapshot   *)
(* lays a snapshot out as a header and checksummed records, what happens   *)
(* to the file afterwards, and what decode_snapshot makes of it.           *)
(*                                                                         *)
(* A segment is a sequence of cells, one for each field or group of fields *)
(* the code writes together; sizes, offsets and limits count cells.  A     *)
(* cell is a sequence of numbers: one number for a field, and for a        *)
(* checksum the numbers it covers.  CRC32C is thus taken for collision     *)
(* free, which is the assumption the format itself rests on.  Counts and   *)
(* presence flags, which decide how far a reader goes, are cells of their  *)
(* own; the fields of fixed size around them share one.                    *)
(***************************************************************************)
EXTENDS Integers, Sequences, SequencesExt

CONSTANTS
    Snapshots,      \* the DurableSnapshots that may be written
    LimitSets,      \* the PersistenceLimits a writer or a reader may have
    Flips,          \* the numbers a damaged cell may read as
    MaxFaults       \* bound on the faults between writing and reading

VARIABLES
    written,    \* the snapshot given to encode_snapshot
    limits,     \* the writer's PersistenceLimits
    phase,      \* of the segment: "building", "refused", "stored" or "read"
    file,       \* the cells of the segment
    faults,     \* what happened to the file since
    result      \* what decode_snapshot returned

vars == <<written, limits, phase, file, faults, result>>

Magic == <<77>>
Version == 1
HeaderSize == 9         \* kSegmentHeaderSize
RecordHeaderSize == 3   \* kRecordHeaderSize: checksum, type, length
MaxRuntimeId == 2       \* kMaxRuntimeIdBytes
EventKinds == 4         \* kEventKindCount

\* The DurableSnapshots of Format.hpp.  An optional is a sequence of at most one.
Optionals(S) == {o \in Seq(S) : Len(o) <= 1}
SampleSet == [head : Nat, values : Seq(Nat)]
QueueSet == [id : Nat, class : Optionals(Nat), samples : Seq(SampleSet)]
SourceSet == [id : Nat, recent : Seq(Nat)]
EntrySet == [id : Nat, class : Optionals(Nat)]
TableSet == [head : Nat, traffic : Seq(EntrySet), scheduling : Seq(EntrySet), bindings : Seq(EntrySet)]
DurableSnapshot ==
    [runtime : Seq(Nat), policy : Nat, queues : Seq(QueueSet), sources : Seq(SourceSet),
     events : Seq(0..(EventKinds - 1)), metadata : Optionals(TableSet)]

ASSUME SegmentAssumption ==
    /\ MaxFaults \in Nat /\ Flips \subseteq Nat
    /\ Snapshots \subseteq DurableSnapshot
    \* validate_limits(PersistenceLimits)
    /\ \A l \in LimitSets : /\ {l.segment, l.records, l.record, l.metadata} \subseteq Nat \ {0}
                            /\ l.record <= l.segment /\ l.metadata <= l.segment

U(n) == <<n>>
Checksum(cells) == <<-1>> \o FlattenSeq(cells)

-----------------------------------------------------------------------------
(* Encoding *)

\* A std::optional: a presence flag, then the value if there is one.
Optional(o) == IF o = <<>> THEN <<U(0)>> ELSE <<U(1), U(o[1])>>

\* A vector: its count, then the cells of its elements.
Counted(parts) == <<U(Len(parts))>> \o FlattenSeq(parts)

Numbers(seq) == [i \in DOMAIN seq |-> <<U(seq[i])>>]

\* One sample: its fixed fields, the reported fields and their values.
SampleCells(s) == <<U(s.head)>> \o Counted(Numbers(s.values))

QueueCells(q) ==
    <<U(q.id)>> \o Optional(q.class)
    \o Counted([i \in DOMAIN q.samples |-> SampleCells(q.samples[i])])

\* One source: its fixed fields and the incarnations it went through.
SourceCells(x) == <<U(x.id)>> \o Counted(Numbers(x.recent))

\* A traffic class, a scheduling class or a binding of the metadata table.
EntryCells(e) == <<U(e.id)>> \o Optional(e.class)

Entries(seq) == [i \in DOMAIN seq |-> EntryCells(seq[i])]

TableCells(t) ==
    <<U(t.head)>> \o Counted(Entries(t.traffic)) \o Counted(Entries(t.scheduling))
                  \o Counted(Entries(t.bindings))

\* The runtime identifier is here too: the copy after the header, outside the
\* payload, is covered by no checksum.
SessionCells(s) == Counted(Numbers(s.runtime)) \o <<U(s.policy), U(Len(s.queues))>>

SessionHeader == 1
QueueSnapshot == 2
EventBatch == 3
SourceRegistry == 4
MetadataTable == 5

\* The records of a snapshot in the order encode_snapshot appends them.
Values(s) ==
    <<[type |-> SessionHeader, value |-> SessionCells(s)]>>
    \o [i \in DOMAIN s.queues |-> [type |-> QueueSnapshot, value |-> QueueCells(s.queues[i])]]
    \o (IF s.sources = <<>> THEN <<>>
        ELSE <<[type |-> SourceRegistry,
                value |-> Counted([i \in DOMAIN s.sources |-> SourceCells(s.sources[i])])]>>)
    \o (IF s.events = <<>> THEN <<>>
        ELSE <<[type |-> EventBatch, value |-> Counted(Numbers(s.events))]>>)
    \o (IF s.metadata = <<>> THEN <<>>
        ELSE <<[type |-> MetadataTable, value |-> TableCells(s.metadata[1])]>>)

\* append_record: the checksum covers the type and the length too.
Record(r) ==
    LET prefix == <<U(r.type), U(Len(r.value))>>
    IN <<Checksum(prefix \o r.value)>> \o prefix \o r.value

Payload(s) == FlattenSeq([i \in DOMAIN Values(s) |-> Record(Values(s)[i])])

\* write_header: its checksum is computed with its own place zeroed.
Header(s) ==
    LET fields(crc) == <<Magic, U(Version), U(HeaderSize), crc, U(s.policy), U(Len(s.runtime)),
                         U(Len(Values(s))), U(Len(Payload(s))), Checksum(Payload(s))>>
    IN fields(Checksum(fields(U(0))))

Encode(s) == Header(s) \o [i \in DOMAIN s.runtime |-> U(s.runtime[i])] \o Payload(s)

\* Mutant: the size of a record is not looked at.
EncodableAnyRecord(s, l) ==
    /\ Len(s.runtime) <= MaxRuntimeId
    /\ \A i \in DOMAIN Values(s) :
         Values(s)[i].type = MetadataTable => Len(Values(s)[i].value) <= l.metadata
    /\ Len(Values(s)) <= l.records
    /\ Len(Payload(s)) <= l.segment /\ Len(Encode(s)) <= l.segment

\* encode_snapshot succeeds, and so does the size test of write_snapshot.
Encodable(s, l) ==
    /\ Len(s.runtime) <= MaxRuntimeId
    /\ \A i \in DOMAIN Values(s) :
         /\ Len(Values(s)[i].value) <= l.record
         /\ Values(s)[i].type = MetadataTable => Len(Values(s)[i].value) <= l.metadata
    /\ Len(Values(s)) <= l.records
    /\ Len(Payload(s)) <= l.segment /\ Len(Encode(s)) <= l.segment

-----------------------------------------------------------------------------
(* Reading cells: what is read starts at cell "at" of "c" *)

\* A cell taken for a number.
Number(cell) == IF Len(cell) = 1 THEN cell[1] ELSE 0

Scalar(c, at) ==
    IF at \in DOMAIN c THEN [ok |-> TRUE, at |-> at + 1, item |-> Number(c[at])]
    ELSE [ok |-> FALSE, at |-> at, item |-> 0]

Places(c) == 1..(Len(c) + 1)

Scalars(c) == [at \in Places(c) |-> Scalar(c, at)]

\* One more element, read as x.
Longer(list, x) ==
    IF x.ok THEN [ok |-> TRUE, at |-> x.at, items |-> Append(list.items, x.item)]
    ELSE [list EXCEPT !.ok = FALSE]

\* A vector, given what an element reads as at every place: read_count refuses
\* a count the rest of the value cannot hold; the elements before one that
\* cannot be read stay.
List(c, at, element) ==
    LET count == Scalar(c, at)
        read[i \in 0..count.item] ==
            IF i = 0 THEN [ok |-> TRUE, at |-> count.at, items |-> <<>>]
            ELSE IF ~read[i - 1].ok THEN read[i - 1]
            ELSE Longer(read[i - 1], element[read[i - 1].at])
    IN IF count.ok /\ count.item <= Len(c) - (count.at - 1) THEN read[count.item]
       ELSE [ok |-> FALSE, at |-> at, items |-> <<>>]

\* An optional: any flag but zero announces a value.
ReadOptional(c, at) ==
    LET flag == Scalar(c, at)
        value == Scalar(c, flag.at)
    IN IF flag.ok /\ flag.item = 0 THEN [ok |-> TRUE, at |-> flag.at, item |-> <<>>]
       ELSE [ok |-> flag.ok /\ value.ok, at |-> value.at, item |-> <<value.item>>]

ReadSample(c, at) ==
    LET head == Scalar(c, at)
        values == List(c, head.at, Scalars(c))
    IN [ok |-> head.ok /\ values.ok, at |-> values.at,
        item |-> [head |-> head.item, values |-> values.items]]

\* decode_queue_record: more samples than a segment may have records are refused.
ReadQueue(c, l) ==
    LET id == Scalar(c, 1)
        class == ReadOptional(c, id.at)
        samples == List(c, class.at, [p \in Places(c) |-> ReadSample(c, p)])
    IN [ok |-> id.ok /\ class.ok /\ samples.ok /\ Len(samples.items) <= l.records,
        item |-> [id |-> id.item, class |-> class.item, samples |-> samples.items]]

ReadSource(c, at) ==
    LET id == Scalar(c, at)
        recent == List(c, id.at, Scalars(c))
    IN [ok |-> id.ok /\ recent.ok, at |-> recent.at,
        item |-> [id |-> id.item, recent |-> recent.items]]

ReadEvent(c, at) ==
    LET kind == Scalar(c, at) IN [kind EXCEPT !.ok = @ /\ kind.item < EventKinds]

ReadEntry(c, at) ==
    LET id == Scalar(c, at)
        class == ReadOptional(c, id.at)
    IN [ok |-> id.ok /\ class.ok, at |-> class.at, item |-> [id |-> id.item, class |-> class.item]]

ReadEntries(c, at) == List(c, at, [p \in Places(c) |-> ReadEntry(c, p)])

\* decode_metadata_table
ReadTable(c) ==
    LET head == Scalar(c, 1)
        traffic == ReadEntries(c, head.at)
        scheduling == ReadEntries(c, traffic.at)
        bindings == ReadEntries(c, scheduling.at)
    IN [ok |-> head.ok /\ traffic.ok /\ scheduling.ok /\ bindings.ok,
        item |-> [head |-> head.item, traffic |-> traffic.items, scheduling |-> scheduling.items,
                  bindings |-> bindings.items]]

ReadSession(c) ==
    LET runtime == List(c, 1, Scalars(c))
        policy == Scalar(c, runtime.at)
        queues == Scalar(c, policy.at)
    IN [ok |-> runtime.ok /\ Len(runtime.items) <= MaxRuntimeId /\ policy.ok /\ queues.ok,
        runtime |-> runtime.items, policy |-> policy.item]

\* What a record of the given type adds to the snapshot.  A registry or an
\* event batch that breaks off leaves what it had read; a queue or a table
\* that does leaves nothing.
Parse(type, c, l, out) ==
    CASE type = SessionHeader ->
           LET x == ReadSession(c)
           IN [ok |-> x.ok,
               out |-> IF ~x.ok THEN out
                       ELSE [out EXCEPT !.policy = x.policy,
                                        !.runtime = IF x.runtime = <<>> THEN @ ELSE x.runtime]]
      [] type = QueueSnapshot ->
           LET q == ReadQueue(c, l)
           IN [ok |-> q.ok, out |-> IF q.ok THEN [out EXCEPT !.queues = Append(@, q.item)] ELSE out]
      [] type = EventBatch ->
           LET e == List(c, 1, [p \in Places(c) |-> ReadEvent(c, p)])
           IN [ok |-> e.ok, out |-> [out EXCEPT !.events = @ \o e.items]]
      [] type = SourceRegistry ->
           LET x == List(c, 1, [p \in Places(c) |-> ReadSource(c, p)])
           IN [ok |-> x.ok, out |-> [out EXCEPT !.sources = @ \o x.items]]
      [] type = MetadataTable ->
           LET t == ReadTable(c)
           IN [ok |-> t.ok, out |-> IF t.ok THEN [out EXCEPT !.metadata = <<t.item>>] ELSE out]
      [] OTHER -> [ok |-> FALSE, out |-> out]

-----------------------------------------------------------------------------
(* decode_snapshot *)

NoSnapshot == [runtime |-> <<>>, policy |-> 0, queues |-> <<>>, sources |-> <<>>,
               events |-> <<>>, metadata |-> <<>>]

\* Mutant: the checksum of a record is not compared.
RecordIntactAlways(c, value) == TRUE

\* The record that starts with c[1..3] and has this value is as it was written.
RecordIntact(c, value) == c[1] = Checksum(<<c[2], c[3]>> \o value)

\* A record that parsed is consumed; one that did not ends the loop.
Taken(d, length, parsed) ==
    IF parsed.ok THEN [d EXCEPT !.parsed = @ + 1, !.offset = @ + RecordHeaderSize + length,
                                !.out = parsed.out]
    ELSE [d EXCEPT !.failed = TRUE, !.rejected = @ + 1, !.done = TRUE, !.out = parsed.out]

\* One turn of the record loop; c is the rest of the payload.
Turn(c, l, d) ==
    LET length == Number(c[3])
        value == SubSeq(c, RecordHeaderSize + 1, RecordHeaderSize + length)
    IN IF d.done \/ Len(c) < RecordHeaderSize THEN [d EXCEPT !.done = TRUE]
       ELSE IF length > l.record THEN [d EXCEPT !.failed = TRUE, !.done = TRUE]
       ELSE IF RecordHeaderSize + length > Len(c)
            THEN [d EXCEPT !.truncated = TRUE, !.failed = TRUE, !.done = TRUE]
       ELSE IF ~RecordIntact(c, value)
            THEN [d EXCEPT !.failed = TRUE, !.rejected = @ + 1, !.done = TRUE]
       ELSE Taken(d, length, Parse(Number(c[2]), value, l, d.out))

Step(p, l, d) == Turn(SubSeq(p, d.offset + 1, Len(p)), l, d)

\* The header passes every test that refuses the whole segment.
HeaderValid(c) ==
    /\ Len(c) >= HeaderSize
    /\ c[1] = Magic
    /\ Number(c[3]) = HeaderSize
    /\ c[4] = Checksum(SubSeq(c, 1, 3) \o <<U(0)>> \o SubSeq(c, 5, HeaderSize))
    /\ Number(c[2]) = Version
    /\ Number(c[6]) <= MaxRuntimeId

Refused == [ok |-> FALSE, clean |-> FALSE, truncated |-> FALSE, parsed |-> 0, rejected |-> 0,
            consumed |-> 0, snapshot |-> NoSnapshot]

\* The report, from the end of the loop over a payload of this size.
Report(end, size, declared) ==
    [ok |-> TRUE,
     clean |-> ~(end.truncated \/ end.failed \/ end.offset # size \/ end.parsed < declared),
     truncated |-> end.truncated, parsed |-> end.parsed, rejected |-> end.rejected,
     consumed |-> end.offset, snapshot |-> end.out]

Decode(c, l) ==
    LET runtime == Number(c[6])
        body == SubSeq(c, HeaderSize + runtime + 1, Len(c))
        short == Number(c[8]) > Len(body)
        p == IF short THEN body ELSE SubSeq(body, 1, Number(c[8]))
        intact == c[9] = Checksum(p)
        start == [offset |-> 0, parsed |-> 0, rejected |-> 0, truncated |-> short,
                  failed |-> short \/ ~intact, done |-> FALSE,
                  out |-> [NoSnapshot EXCEPT !.policy = Number(c[5]), !.runtime =
                             [i \in 1..runtime |-> Number(c[HeaderSize + i])]]]
        loop[i \in 0..Len(p)] == IF i = 0 THEN start ELSE Step(p, l, loop[i - 1])
    IN IF ~HeaderValid(c) THEN Refused
       ELSE IF HeaderSize + runtime > Len(c) THEN [Refused EXCEPT !.ok = TRUE, !.truncated = TRUE]
       ELSE Report(loop[Len(p)], Len(p), Number(c[7]))

-----------------------------------------------------------------------------
(* The life of a segment *)

Init ==
    /\ written \in Snapshots /\ limits \in LimitSets
    /\ phase = "building" /\ file = <<>> /\ faults = 0 /\ result = Refused

Write ==
    /\ phase = "building" /\ Encodable(written, limits)
    /\ file' = Encode(written)
    /\ phase' = "stored"
    /\ UNCHANGED <<written, limits, faults, result>>

WriteRefused ==
    /\ phase = "building" /\ ~Encodable(written, limits)
    /\ phase' = "refused"
    /\ UNCHANGED <<written, limits, file, faults, result>>

\* The medium: a cell reads back as something else, the end of the file is
\* lost, or something is appended to it.
Fault(damaged) ==
    /\ phase = "stored" /\ faults < MaxFaults
    /\ file' = damaged
    /\ faults' = faults + 1
    /\ UNCHANGED <<written, limits, phase, result>>

Flip == \E i \in DOMAIN file, d \in Flips : Fault([file EXCEPT ![i] = U(d)])
Truncate == \E n \in 0..(Len(file) - 1) : Fault(SubSeq(file, 1, n))
Grow == \E d \in Flips : Fault(Append(file, U(d)))

\* Recovery, by a process whose limits may be others.
Read(l) ==
    /\ phase = "stored"
    /\ result' = Decode(file, l)
    /\ phase' = "read"
    /\ UNCHANGED <<written, limits, file, faults>>

Next == Write \/ WriteRefused \/ Flip \/ Truncate \/ Grow \/ \E l \in LimitSets : Read(l)

Spec == Init /\ [][Next]_vars

-----------------------------------------------------------------------------
(* Properties *)

\* What the first n > 0 records of a snapshot hold.  The registry, the events and
\* the table have no record when they are empty.
FirstRecords(s, n) ==
    LET one(items) == IF items = <<>> THEN 0 ELSE 1
        queues == 1 + Len(s.queues)
        sources == queues + one(s.sources)
        events == sources + one(s.events)
    IN [runtime |-> s.runtime,
        policy |-> s.policy,
        queues |-> IF n >= queues THEN s.queues ELSE SubSeq(s.queues, 1, n - 1),
        sources |-> IF n >= sources THEN s.sources ELSE <<>>,
        events |-> IF n >= events THEN s.events ELSE <<>>,
        metadata |-> IF n >= events + one(s.metadata) THEN s.metadata ELSE <<>>]

\* decode_snapshot stops at the first damaged record: whatever happened to the
\* file, and whatever the limits of the reader, it returns exactly the records
\* before it; without a single one, nothing but the policy version of the
\* header and a runtime identifier that may be damaged.
DecodesAPrefix ==
    phase = "read" /\ result.ok =>
      \/ result.parsed > 0 /\ result.snapshot = FirstRecords(written, result.parsed)
      \/ result.parsed = 0 /\ result.snapshot.policy \in {0, written.policy}
         /\ [result.snapshot EXCEPT !.runtime = <<>>, !.policy = 0] = NoSnapshot

\* A report is clean only when every record that was written came back, and an
\* untouched segment reads back clean under the limits it was written with, as
\* long as no queue has more samples than a segment may have records.
CleanMeansWhole ==
    /\ phase = "read" /\ result.clean =>
         result.snapshot = written /\ result.parsed = Len(Values(written))
    /\ phase = "stored" /\ faults = 0
       /\ (\A i \in DOMAIN written.queues : Len(written.queues[i].samples) <= limits.records)
         => Decode(file, limits).clean
=============================================================================
