------------------------------- MODULE Ingest -------------------------------
(***************************************************************************)
(* ingest_document (src/src/ingest/Ingest.cpp): a document is decoded, its *)
(* metadata tables are applied one by one, and its samples are admitted as *)
(* one batch.  The first table the store finds invalid ends the call: the  *)
(* tables before it stay, and no sample is admitted.                       *)
(*                                                                         *)
(* Composes the wire format (module Wire) with the store (module Store).   *)
(* Several threads call it (the transport server's pool, the embedding     *)
(* program).  apply_metadata takes the store's mutex for one table,        *)
(* ingest_batch for the whole batch, so documents interleave between       *)
(* tables and before a batch.                                              *)
(***************************************************************************)
EXTENDS Wire, Store

CONSTANTS Callers,
          Documents     \* caller -> the documents it may present: lines, and
                        \* the samples and tables they were encoded from

ASSUME IngestAssumption ==
    /\ IsFiniteSet(Callers)
    /\ \A c \in Callers : \A d \in Documents[c] : d.lines \in Seq(Range(d.lines))

VARIABLE calls          \* caller -> its call of ingest_document

ingestVars == <<vars, calls>>

NoAdmission == [presented |-> 0, accepted |-> 0, rejected |-> 0, fenced |-> 0, duplicates |-> 0]
NoCall == [phase |-> "none", document |-> [lines |-> <<>>, samples |-> <<>>, tables |-> <<>>],
           decoded |-> NoOutcome, tables |-> <<>>, samples |-> <<>>, admission |-> NoAdmission]

IngestInit == Init /\ calls = [c \in Callers |-> NoCall]

Decode(c, d) ==
    /\ calls[c].phase = "none" /\ Len(d.lines) <= MaxPayload
    /\ LET out == DecodeDocument(d.lines)
       IN calls' = [calls EXCEPT ![c] =
                      [@ EXCEPT !.phase = "tables", !.document = d, !.decoded = out,
                                !.tables = out.tables, !.samples = out.samples]]
    /\ UNCHANGED vars

DecodeFails(c, d) ==
    /\ calls[c].phase = "none" /\ Len(d.lines) > MaxPayload
    /\ calls' = [calls EXCEPT ![c] = [@ EXCEPT !.phase = "failed", !.document = d]]
    /\ UNCHANGED vars

-----------------------------------------------------------------------------
(* Metadata *)

\* No batch holds the store's mutex.
NoBatch == \A c \in Callers : calls[c].phase # "batch"

Distinct(seq, F(_)) == \A i, j \in DOMAIN seq : i # j => F(seq[i]) # F(seq[j])

\* validate_metadata: what the decoder does not look at.
ValidTable(t) ==
    /\ {t.revision, t.generation} \subseteq Nat \ {0} /\ t.source \notin Unusable
    /\ \A seq \in {t.traffic, t.scheduling, t.bindings} : Len(seq) <= MaxQueues
    /\ \A e \in Range(t.traffic) : e.id # 0
    /\ Distinct(t.traffic, LAMBDA e : e.id)
    /\ Distinct(t.scheduling, LAMBDA e : e.id)
    /\ Distinct(t.bindings, LAMBDA e : e.queue)

ClassOf(x) == IF x = Absent THEN NoClass ELSE x

\* A valid table, as the store keeps it.
Stored(t) ==
    LET entry(seq, k, K(_)) == CHOOSE e \in Range(seq) : K(e) = k
        queue(e) == e.queue
        id(e) == e.id
    IN [generation |-> t.generation, revision |-> t.revision,
        bindings |-> [q \in {e.queue : e \in Range(t.bindings)} |->
                        [traffic |-> ClassOf(entry(t.bindings, q, queue).traffic),
                         scheduling |-> ClassOf(entry(t.bindings, q, queue).scheduling)]],
        traffic |-> [x \in {e.id : e \in Range(t.traffic)} |->
                       ClassOf(entry(t.traffic, x, id).scheduling)],
        scheduling |-> {e.id : e \in Range(t.scheduling)}]

\* An older table than the stored one is fenced, which is not a failure.
ApplyTable(c) ==
    /\ calls[c].phase = "tables" /\ calls[c].tables # <<>> /\ NoBatch
    /\ LET t == Head(calls[c].tables)
       IN ValidTable(t) /\ (ApplyMetadata(Stored(t)) \/ FenceMetadata(Stored(t)))
    /\ calls' = [calls EXCEPT ![c].tables = Tail(@)]

RefuseTable(c) ==
    /\ calls[c].phase = "tables" /\ calls[c].tables # <<>> /\ NoBatch
    /\ ~ValidTable(Head(calls[c].tables))
    /\ calls' = [calls EXCEPT ![c].phase = "failed"]
    /\ UNCHANGED vars

-----------------------------------------------------------------------------
(* ingest_batch *)

\* Mutant: the samples do not wait for the tables.
BeginBatchEarly(c) ==
    /\ calls[c].phase = "tables" /\ NoBatch
    /\ calls' = [calls EXCEPT ![c].phase = "batch"]
    /\ UNCHANGED vars

BeginBatch(c) ==
    /\ calls[c].phase = "tables" /\ calls[c].tables = <<>> /\ NoBatch
    /\ calls' = [calls EXCEPT ![c].phase = "batch"]
    /\ UNCHANGED vars

\* A decoded sample, as admission sees it; the store stamps it.
Admissible(s) ==
    [queue |-> s.queue, source |-> s.source, incarnation |-> s.incarnation,
     generation |-> s.generation, sequence |-> s.sequence, authority |-> s.authority,
     observed |-> [domain |-> s.domain, ns |-> s.observed], values |-> s.values, age |-> 0,
     valid |-> /\ s.generation # 0 /\ s.sequence # 0
               /\ s.declared # {} => DOMAIN s.values \subseteq s.declared,
     classes |-> [traffic |-> ClassOf(s.traffic), scheduling |-> ClassOf(s.scheduling)]]

\* The next sample of the batch, and what the report counts it as.
Batch(c, admission) ==
    /\ calls[c].phase = "batch" /\ calls[c].samples # <<>>
    /\ calls' = [calls EXCEPT ![c].samples = Tail(@), ![c].admission = admission]

Counted(a, kinds) == [k \in DOMAIN a |-> a[k] + One(k \in kinds \cup {"presented"})]

Offered(c) == Admissible(Head(calls[c].samples))

BatchAccepts(c) ==
    /\ Batch(c, Counted(calls[c].admission, {"accepted"}))
    /\ AcceptLive(Offered(c))

\* Mutant: a duplicate is not counted as fenced.
BatchRefusesDuplicate(c) ==
    \/ /\ Batch(c, Counted(calls[c].admission, {"rejected"}))
       /\ RejectInvalid(Offered(c)) \/ RejectSourceLimit(Offered(c)) \/ RejectQueueLimit(Offered(c))
    \/ /\ Batch(c, Counted(calls[c].admission, {"fenced"}))
       /\ \/ FenceIncarnation(Offered(c)) \/ FenceGeneration(Offered(c)) \/ FenceAuthority(Offered(c))
    \/ /\ Batch(c, Counted(calls[c].admission, {"duplicates"}))
       /\ FenceSequence(Offered(c))

BatchRefuses(c) ==
    \/ /\ Batch(c, Counted(calls[c].admission, {"rejected"}))
       /\ RejectInvalid(Offered(c)) \/ RejectSourceLimit(Offered(c)) \/ RejectQueueLimit(Offered(c))
    \/ /\ Batch(c, Counted(calls[c].admission, {"fenced"}))
       /\ \/ FenceIncarnation(Offered(c)) \/ FenceGeneration(Offered(c)) \/ FenceAuthority(Offered(c))
    \/ /\ Batch(c, Counted(calls[c].admission, {"fenced", "duplicates"}))
       /\ FenceSequence(Offered(c))

Returns(c) ==
    /\ calls[c].phase = "batch" /\ calls[c].samples = <<>>
    /\ calls' = [calls EXCEPT ![c].phase = "accepted"]
    /\ UNCHANGED vars

IngestNext ==
    \E c \in Callers :
      \/ \E d \in Documents[c] : Decode(c, d) \/ DecodeFails(c, d)
      \/ ApplyTable(c) \/ RefuseTable(c)
      \/ BeginBatch(c) \/ BatchAccepts(c) \/ BatchRefuses(c) \/ Returns(c)

IngestSpec == IngestInit /\ [][IngestNext]_ingestVars

-----------------------------------------------------------------------------
(* Properties *)

Decoded == {c \in Callers : calls[c].phase \notin {"none", "failed"} \/ calls[c].decoded.lines > 0}

UpTo(seq, n) == SubSeq(seq, 1, Min({n, Len(seq)}))

\* A document's outcome, from what each of its lines yields on its own.
LineByLine(lines, out) ==
    LET alone == [i \in DOMAIN lines |-> AddLine(NoOutcome, lines[i])]
        samples == FlattenSeq([i \in DOMAIN lines |-> alone[i].samples])
        tables == FlattenSeq([i \in DOMAIN lines |-> alone[i].tables])
        refused == out.malformed + out.unsupported + out.mismatched
    IN /\ out.samples = UpTo(samples, MaxBatchSamples)
       /\ out.tables = UpTo(tables, MaxBatchMetadata)
       /\ out.lines = Len(out.samples) + Len(out.tables) + refused
       /\ Len(lines) = out.lines + out.skipped
       /\ IF out.truncated THEN Len(out.diagnostics) = MaxDiagnostics /\ refused > MaxDiagnostics
          ELSE Len(out.diagnostics) = refused
       /\ \A d \in Range(out.diagnostics) :
            \/ alone[d.line].samples = <<>> /\ alone[d.line].tables = <<>>
            \/ MaxBatchSamples < Len(samples) \/ MaxBatchMetadata < Len(tables)

\* One bad record cannot hide the rest ("A malformed line never aborts the
\* document"): the samples and tables of a document are those its lines yield
\* alone, in their order, up to the limits; every line is one of them, skipped
\* or refused, and every refusal has its diagnostic or is admitted to be
\* missing one.
LinesAreIndependent ==
    \A c \in Decoded : LineByLine(calls[c].document.lines, calls[c].decoded)

\* The samples a reader with these limits takes back.
ReadableSample(s) ==
    /\ s.observed \in 0..I63
    /\ {s.queue[1], s.queue[2], s.source, s.incarnation, s.domain, s.scheduling}
         \cap (Overlong \cup Unusable) = {}
    /\ Cardinality(s.declared) <= MaxBatchMetadata

ReadableTable(t) ==
    /\ t.revision # 0 /\ t.generation # 0
    /\ \A seq \in {t.traffic, t.scheduling, t.bindings} : Len(seq) <= MaxBatchMetadata

\* Records are "round-trippable": what encode_sample and encode_metadata wrote
\* comes back as it was, field for field.  The exceptions are exact: a time
\* before zero, a text longer than the reader's limit, more declared fields
\* than max_batch_metadata (which bounds every array), and a table whose
\* revision or generation is zero.
RoundTrip ==
    \A c \in Decoded :
      /\ Len(calls[c].document.samples) \in 1..MaxBatchSamples =>
           calls[c].decoded.samples = SelectSeq(calls[c].document.samples, ReadableSample)
      /\ Len(calls[c].document.tables) \in 1..MaxBatchMetadata =>
           calls[c].decoded.tables = SelectSeq(calls[c].document.tables, ReadableTable)

\* The reports of all calls add up to what the store counted, a call that
\* failed admitted no sample, and one that succeeded presented all it decoded.
ReportsAddUp ==
    /\ \A k \in DOMAIN NoAdmission :
         counts[k] = SumFunction([c \in Callers |-> calls[c].admission[k]])
    /\ \A c \in Callers :
         /\ calls[c].phase = "failed" => calls[c].admission = NoAdmission
         /\ calls[c].phase = "accepted" =>
              calls[c].admission.presented = Len(calls[c].decoded.samples)

\* Samples are classified under the metadata they came with: once a batch has
\* begun, the stored table is at least as new as every table of its document,
\* whatever other documents were applied in between.
TablesBeforeSamples ==
    \A c \in Callers : calls[c].phase \in {"batch", "accepted"} =>
      \A t \in Range(calls[c].decoded.tables) : HasMetadata /\ ~NewerTable(Stored(t), metadata)
=============================================================================
