-------------------------------- MODULE Store -------------------------------
(***************************************************************************)
(* The queue store (src/src/store/Store.cpp): admission of samples with    *)
(* its fences and limits, the source registry, per-queue history, counter  *)
(* continuity, conflict detection between sources, classification, the     *)
(* event log and the metadata table.                                       *)
(*                                                                         *)
(* Every step is one call of ingest_locked or apply_metadata: both run     *)
(* with the store's mutex held exclusively, so nothing interleaves with    *)
(* them.  ingest_batch is a run of such steps; the runtime's worker pool,  *)
(* which cancels a batch between two samples, is module Observatory.       *)
(* Reading a persisted segment back (admit_recovered, import_events) is    *)
(* driven by module SnapshotCycle.                                         *)
(*                                                                         *)
(* A sample is abstracted to what admission tells apart: its identity, its *)
(* authority, the values of the fields it reports, the classes it names,   *)
(* its observation time, whether it is well formed, and the time since the *)
(* caller stamped it (0 when the store stamps it).  Left out: texts, wall  *)
(* clock times, and the StoreCounters that repeat a queue's own counts.    *)
(***************************************************************************)
EXTENDS Classification, Metadata, Sequences, SequencesExt, FiniteSetsExt

CONSTANTS
    Samples,            \* the samples that may be presented
    Tables,             \* the metadata tables that may be presented
    MaxSources, MaxQueues, MaxSamplesPerQueue, MaxConflicts, MaxEvents,
    HistoryBudget,      \* how many queue histories max_history_bytes allows
    KeptIncarnations,   \* kMaxRecentIncarnations
    StartTime, MaxTime, \* the clock when the process starts; bound on the clock
    MaxPresented,       \* bound on the samples presented
    MaxTables           \* bound on the metadata tables presented

ASSUME StoreAssumption ==
    /\ {MaxSources, MaxQueues, MaxSamplesPerQueue, MaxConflicts, MaxEvents, HistoryBudget,
        KeptIncarnations, StartTime} \subseteq Nat \ {0}
    /\ {MaxTime, MaxPresented, MaxTables} \subseteq Nat
    /\ Policy.conflict_window \in Nat \ {0} /\ Policy.absolute_tolerance \in Nat
    /\ Policy.relative_permille \in 0..1000 /\ Policy.evaluation_window \in Nat
    /\ \A s \in Samples : /\ {s.sequence, s.generation} \subseteq Nat \ {0}
                          /\ s.authority \in 0..3 /\ s.age \in Nat /\ s.valid \in BOOLEAN
                          /\ \A f \in DOMAIN s.values : s.values[f] \in Nat
                          /\ s.valid => DOMAIN s.values # {}
    /\ \A t \in Tables : {t.generation, t.revision} \subseteq Nat \ {0}

VARIABLES
    now,          \* the store's clock
    sources,      \* sources_: registered source -> SourceRecord
    nextOrdinal,  \* next_incarnation_ordinal_
    queues,       \* queues_: tracked queue -> QueueState
    conflicts,    \* conflicts_, oldest first
    events,       \* the event log, oldest first
    metadata,     \* metadata_, or NoTable
    counts        \* StoreCounters

vars == <<now, sources, nextOrdinal, queues, conflicts, events, metadata, counts>>

Primary == 2      \* SourceAuthority: unknown, secondary, primary, authoritative

\* Generations start at 1, so a stored table always has one above 0.
NoTable == [generation |-> 0, revision |-> 0, bindings |-> <<>>, traffic |-> <<>>,
            scheduling |-> {}]

Init ==
    /\ now = StartTime
    /\ sources = <<>> /\ nextOrdinal = 1
    /\ queues = <<>> /\ conflicts = <<>> /\ events = <<>>
    /\ metadata = NoTable
    /\ counts = [presented |-> 0, accepted |-> 0, rejected |-> 0, fenced |-> 0, duplicates |-> 0,
                 detected |-> 0, cleared |-> 0, transitions |-> 0, recorded |-> 0, lost |-> 0,
                 pushed |-> 0, evicted |-> 0, updates |-> 0, refused |-> 0]

-----------------------------------------------------------------------------
(* Shared helpers *)

\* f with one more, or one changed, argument
With(f, x, v) == [y \in DOMAIN f \cup {x} |-> IF y = x THEN v ELSE f[y]]

\* The newest n elements of a sequence.
Newest(seq, n) == IF Len(seq) <= n THEN seq ELSE SubSeq(seq, Len(seq) - n + 1, Len(seq))

\* record_event_global for each kind in turn: a full log gives up its oldest
\* record.
RecordAll(c, kinds) ==
    [c EXCEPT !.recorded = @ + Len(kinds),
              !.lost = @ + Max({0, Len(events) + Len(kinds) - MaxEvents})]

LogAll(kinds) == Newest(events \o kinds, MaxEvents)

When(b, kind) == IF b THEN <<kind>> ELSE <<>>

-----------------------------------------------------------------------------
(* The source registry and its fences *)

NewSource(s) ==
    [authority |-> s.authority, incarnation |-> s.incarnation, ordinal |-> nextOrdinal,
     last_sequence |-> 0, generation |-> s.generation, clock_domain |-> s.observed.domain,
     accepted |-> 0, fenced |-> 0, duplicates |-> 0,
     recent |-> <<[token |-> s.incarnation, ordinal |-> nextOrdinal]>>]

Known(s) == s.source \in DOMAIN sources

\* The token is not the current one and is still remembered as superseded.
Superseded(r, s) ==
    /\ r.incarnation # s.incarnation
    /\ \E i \in DOMAIN r.recent :
         r.recent[i].token = s.incarnation /\ r.recent[i].ordinal <= r.ordinal

\* Mutant: a new token restarts the sequence space under the old ordinal.
AfterIncarnationSameOrdinal(r, s) ==
    IF r.incarnation = s.incarnation THEN r
    ELSE [r EXCEPT !.incarnation = s.incarnation, !.last_sequence = 0,
                   !.recent = SubSeq(<<[token |-> s.incarnation, ordinal |-> r.ordinal]>> \o @,
                                     1, Min({KeptIncarnations, Len(@) + 1}))]

\* An incarnation token this runtime does not remember starts a new sequence
\* space; at most KeptIncarnations tokens are remembered.
AfterIncarnation(r, s) ==
    IF r.incarnation = s.incarnation THEN r
    ELSE [r EXCEPT !.incarnation = s.incarnation, !.ordinal = nextOrdinal, !.last_sequence = 0,
                   !.recent = SubSeq(<<[token |-> s.incarnation, ordinal |-> nextOrdinal]>> \o @,
                                     1, Min({KeptIncarnations, Len(@) + 1}))]

AfterGeneration(r, s) == [r EXCEPT !.generation = Max({@, s.generation})]
AfterAuthority(r, s) == [r EXCEPT !.authority = Max({@, s.authority})]

\* The record after each stage of the fencing, for a source already known.
Stage1(s) == AfterIncarnation(sources[s.source], s)
Stage2(s) == AfterGeneration(Stage1(s), s)
Stage3(s) == AfterAuthority(Stage2(s), s)

OrdinalAfter(s) ==
    IF Known(s) /\ sources[s.source].incarnation = s.incarnation
    THEN nextOrdinal ELSE nextOrdinal + 1

\* The notices the stages leave in the log.
Stage1Events(s) == When(sources[s.source].incarnation # s.incarnation, "SourceIncarnationChanged")
Stage2Events(s) == Stage1Events(s) \o When(s.generation > Stage1(s).generation, "SampleAccepted")
Stage3Events(s) == Stage2Events(s) \o When(s.authority > Stage2(s).authority, "SourceAuthorityChanged")

\* Mutant: the sequence fence lets the last sequence number through again.
FencesPassReplay(s) ==
    /\ ~Superseded(sources[s.source], s)
    /\ s.generation >= Stage1(s).generation
    /\ s.authority >= Stage2(s).authority
    /\ s.sequence >= Stage3(s).last_sequence

FencesPass(s) ==
    /\ ~Superseded(sources[s.source], s)
    /\ s.generation >= Stage1(s).generation
    /\ s.authority >= Stage2(s).authority
    /\ s.sequence > Stage3(s).last_sequence

\* The registry admits the sample: a new source for which there is room, or a
\* known one that passes every fence.
Registers(s) ==
    IF Known(s) THEN FencesPass(s) ELSE Cardinality(DOMAIN sources) < MaxSources

\* The source's record once the registry admitted the sample.  The sequence
\* number is taken before the queue limits are looked at.
Registered(s) ==
    LET r == IF Known(s) THEN Stage3(s) ELSE NewSource(s)
    IN [r EXCEPT !.last_sequence = s.sequence,
                 !.clock_domain = IF s.observed.domain # NoDomain THEN s.observed.domain
                                  ELSE @]

RegistryEvents(s) == IF Known(s) THEN Stage3Events(s) ELSE <<"SourceRegistered">>

-----------------------------------------------------------------------------
(* Refusals *)

Presentable == counts.presented < MaxPresented

Refuse(counted, kinds) ==
    /\ counts' = RecordAll(counted, kinds)
    /\ events' = LogAll(kinds)
    /\ UNCHANGED <<now, queues, conflicts, metadata>>

\* Mutant: a rejected sample is not counted.
RejectedUncounted == [counts EXCEPT !.presented = @ + 1]

Rejected == [counts EXCEPT !.presented = @ + 1, !.rejected = @ + 1]
Fenced == [counts EXCEPT !.presented = @ + 1, !.fenced = @ + 1]

\* identity incomplete, no field reported, or a field that was not declared
RejectInvalid(s) ==
    /\ Presentable /\ ~s.valid
    /\ Refuse(Rejected, <<"SampleRejected">>)
    /\ UNCHANGED <<sources, nextOrdinal>>

RejectSourceLimit(s) ==
    /\ Presentable /\ s.valid /\ ~Known(s) /\ ~Registers(s)
    /\ Refuse(Rejected, <<"SampleRejected">>)
    /\ UNCHANGED <<sources, nextOrdinal>>

\* A fence leaves the record as the stages before it made it.
Fence(s, r, kinds, kind) ==
    /\ sources' = [sources EXCEPT ![s.source] = [r EXCEPT !.fenced = @ + 1]]
    /\ Refuse(Fenced, Append(kinds, kind))

FenceIncarnation(s) ==
    /\ Presentable /\ s.valid /\ Known(s)
    /\ Superseded(sources[s.source], s)
    /\ Fence(s, sources[s.source], <<>>, "SampleFenced")
    /\ UNCHANGED nextOrdinal

FenceGeneration(s) ==
    /\ Presentable /\ s.valid /\ Known(s)
    /\ ~Superseded(sources[s.source], s)
    /\ s.generation < Stage1(s).generation
    /\ Fence(s, Stage1(s), Stage1Events(s), "SampleFenced")
    /\ nextOrdinal' = OrdinalAfter(s)

FenceAuthority(s) ==
    /\ Presentable /\ s.valid /\ Known(s)
    /\ ~Superseded(sources[s.source], s)
    /\ s.generation >= Stage1(s).generation
    /\ s.authority < Stage2(s).authority
    /\ Fence(s, Stage2(s), Stage2Events(s), "SampleFenced")
    /\ nextOrdinal' = OrdinalAfter(s)

FenceSequence(s) ==
    /\ Presentable /\ s.valid /\ Known(s)
    /\ ~Superseded(sources[s.source], s)
    /\ s.generation >= Stage1(s).generation
    /\ s.authority >= Stage2(s).authority
    /\ s.sequence <= Stage3(s).last_sequence
    /\ sources' = [sources EXCEPT ![s.source] =
                     [Stage3(s) EXCEPT !.fenced = @ + 1, !.duplicates = @ + 1]]
    /\ Refuse([Fenced EXCEPT !.duplicates = @ + 1], Append(Stage3Events(s), "DuplicateReplay"))
    /\ nextOrdinal' = OrdinalAfter(s)

Tracked(q) == q \in DOMAIN queues

\* Room for one more queue and for its history.
QueueRoom ==
    /\ Cardinality(DOMAIN queues) < MaxQueues
    /\ Cardinality(DOMAIN queues) < HistoryBudget

RejectQueueLimit(s) ==
    /\ Presentable /\ s.valid /\ Registers(s)
    /\ ~Tracked(s.queue) /\ ~QueueRoom
    /\ sources' = With(sources, s.source, Registered(s))
    /\ nextOrdinal' = OrdinalAfter(s)
    /\ Refuse(Rejected, Append(RegistryEvents(s), "SampleRejected"))

-----------------------------------------------------------------------------
(* Admission: the parts of ingest_locked after the registry *)

NewQueue == [counters |-> <<>>, history |-> <<>>, evicted |-> 0, peers |-> <<>>,
             classes |-> NoClasses, unsupported |-> FALSE, conflict |-> FALSE,
             accepted |-> 0, state |-> "unknown"]

Queue(q) == IF Tracked(q) THEN queues[q] ELSE NewQueue

\* A sample read back from persistence carries the steady time 0; any other
\* was stamped age ago, by the store itself when age is 0.
Received(s, recovered) == IF recovered THEN 0 ELSE now - s.age

Resolution(s) == Resolve(metadata, s.queue, s.classes)
HasMetadata == metadata.generation # 0

\* Mutant: recovered evidence keeps the freshness its age gives it.
Uncapped(freshness, recovered) == freshness

\* Recovered evidence is never fresh.
Capped(freshness, recovered) == IF recovered /\ freshness = "fresh" THEN "stale" ELSE freshness

\* assess.  The clock domain is compared after the registry took it over.
Assess(s, recovered) ==
       [freshness |-> Capped(FreshnessOf(now - Received(s, recovered)), recovered),
        quality |-> IF recovered \/ ~(Policy.required_fields \subseteq DOMAIN s.values)
                    THEN "incomplete" ELSE "complete",
        authority |-> Registered(s).authority,
        recovered |-> recovered,
        derived |-> HasMetadata /\ Resolution(s).used,
        mismatch |-> /\ NoDomain \notin {s.observed.domain, Registered(s).clock_domain}
                     /\ s.observed.domain # Registered(s).clock_domain]

\* establishes_current_pressure
EstablishesCurrent(a) ==
    /\ a.freshness = "fresh" /\ a.quality = "complete" /\ ~a.recovered
    /\ a.authority >= Primary

CounterOf(q, f) == IF f \in DOMAIN q.counters THEN q.counters[f] ELSE NewCounter

Reported(s) == DOMAIN s.values \cap CounterFields

\* What each counter the sample reports advanced by.
Deltas(q, s, received) ==
    [f \in Reported(s) |->
        LET cont == ContinuityOf(CounterOf(q, f), s.values[f], s.observed, received)
        IN [known |-> YieldsKnownDelta(cont), continuity |-> cont,
            delta |-> DeltaOf(CounterOf(q, f), s.values[f], cont)]]

Counters(q, s, received) ==
    [f \in DOMAIN q.counters \cup Reported(s) |->
        IF f \in Reported(s)
        THEN UpdateCounter(CounterOf(q, f), s.values[f], s.observed, received)
        ELSE q.counters[f]]

CounterEvents(deltas) ==
    LET kind == [wrapped |-> "CounterWrap", reset |-> "CounterReset",
                 ambiguous_wrap |-> "CounterAmbiguous", discontinuous |-> "CounterDiscontinuous"]
        noisy == SetToSeq({f \in DOMAIN deltas : deltas[f].continuity \in DOMAIN kind})
    IN [i \in DOMAIN noisy |-> kind[deltas[noisy[i]].continuity]]

-----------------------------------------------------------------------------
(* Conflicts between sources *)

Tolerance(a, b) ==
    Max({Policy.absolute_tolerance} \cup PermilleOf(Max({a, b}), Policy.relative_permille))

\* Two observations of a queue by different sources that cannot both be right.
Disagree(x, y) ==
    /\ x.source # y.source /\ x.field = y.field /\ x.field # "none"
    /\ x.authority = y.authority
    /\ Max({x.value - y.value, y.value - x.value}) > Tolerance(x.value, y.value)

\* The sample as the peers of the queue will see it.
Peer(s, received) ==
    LET field == IF "occupancy_cells" \in DOMAIN s.values THEN "occupancy_cells"
                 ELSE IF "occupancy_bytes" \in DOMAIN s.values THEN "occupancy_bytes" ELSE "none"
    IN [source |-> s.source, authority |-> Registered(s).authority, received |-> received,
        field |-> field, value |-> IF field = "none" THEN 0 ELSE s.values[field]]

\* The peers that contradict the sample and are recent enough to count.
Contradicting(q, p) ==
    {i \in DOMAIN q.peers :
        /\ Policy.conflict_enabled /\ Disagree(p, q.peers[i])
        /\ q.peers[i].received \in (p.received - Policy.conflict_window)..p.received}

\* Mutant: the record of a conflict that ended stays active.
ClosedNothing(q) == conflicts

\* The conflict the queue was in has ended: its newest active record, unless
\* the table has dropped it, is closed.
Closed(q) ==
    LET open == {i \in DOMAIN conflicts : conflicts[i].queue = q /\ conflicts[i].active}
    IN IF open = {} THEN conflicts ELSE [conflicts EXCEPT ![Max(open)].active = FALSE]

ConflictsAfter(q, p, against) ==
    LET was == Queue(q).conflict IN
    IF against # {} /\ ~was
    THEN Newest(Append(conflicts, [queue |-> q, a |-> p.source,
                                   b |-> Queue(q).peers[Min(against)].source, active |-> TRUE]),
                MaxConflicts)
    ELSE IF against = {} /\ was /\ Policy.conflict_enabled THEN Closed(q)
    ELSE conflicts

\* Mutant: the first observation of a source is kept.
PeersAfterKeepsFirst(q, p) ==
    IF \E i \in DOMAIN q.peers : q.peers[i].source = p.source THEN q.peers
    ELSE Append(q.peers, p)

\* The peer table keeps one observation per source.
PeersAfter(q, p) ==
    LET own == {i \in DOMAIN q.peers : q.peers[i].source = p.source}
    IN IF own # {} THEN [q.peers EXCEPT ![Min(own)] = p]
       ELSE Append(IF Len(q.peers) >= MaxSources THEN Tail(q.peers) ELSE q.peers, p)

-----------------------------------------------------------------------------
(* Classification over the evaluation window *)

\* Mutant: a record exactly as old as the window is left out.
InWindowStrict(history, cutoff) ==
    {i \in DOMAIN history : \A j \in i..Len(history) : history[j].received > cutoff}

\* window_sums looks from the newest record back to the first too old one.
InWindow(history, cutoff) ==
    {i \in DOMAIN history : \A j \in i..Len(history) : history[j].received >= cutoff}

\* The advance of every counter known inside the window, the sample included.
Sums(q, s, received) ==
    LET cutoff == received - Policy.evaluation_window
        known(f) == {i \in InWindow(q.history, cutoff) :
                       f \in DOMAIN q.history[i].deltas /\ q.history[i].deltas[f].known}
        mine(f) == f \in Reported(s) /\ Deltas(q, s, received)[f].known
        own(f) == IF mine(f) THEN Deltas(q, s, received)[f].delta ELSE 0
        total(f) == own(f) + SumFunction([i \in known(f) |-> q.history[i].deltas[f].delta])
    IN [f \in CounterFields |->
          [known |-> mine(f) \/ known(f) # {}, delta |-> Min({total(f), Word - 1})]]

\* The record of an admitted sample.
RecordOf(s, received, assessment, deltas, state) ==
    [received |-> received, source |-> s.source, ordinal |-> Registered(s).ordinal,
     generation |-> s.generation, sequence |-> s.sequence,
     observed |-> s.observed, values |-> s.values,
     assessment |-> assessment, deltas |-> deltas, state |-> state]

NamesUnknownClass(s) == HasMetadata /\ Resolution(s).unknown

\* Queue q once the sample is admitted with the given record.
QueueAfter(q, s, p, conflict, record) ==
    [counters |-> Counters(q, s, record.received),
     history |-> Newest(Append(q.history, record), MaxSamplesPerQueue),
     evicted |-> q.evicted + One(Len(q.history) >= MaxSamplesPerQueue),
     peers |-> PeersAfter(q, p),
     classes |-> IF HasMetadata /\ Resolution(s).used THEN Resolution(s).classes
                 ELSE IF s.classes # NoClasses THEN s.classes ELSE q.classes,
     unsupported |-> q.unsupported \/ NamesUnknownClass(s),
     conflict |-> conflict,
     accepted |-> q.accepted + 1,
     state |-> record.state]

\* Admission of a sample that passed every fence and limit.
Accept(s, recovered) ==
    LET received == Received(s, recovered)
        q == Queue(s.queue)
        assessment == Assess(s, recovered)
        p == Peer(s, received)
        against == Contradicting(q, p)
        conflict == IF Policy.conflict_enabled THEN against # {} ELSE q.conflict
        deltas == Deltas(q, s, received)
        state == Classify([values |-> s.values, quality |-> assessment.quality,
                           freshness |-> assessment.freshness, conflict |-> conflict,
                           sums |-> Sums(q, s, received)])
        changed == q.history # <<>> /\ q.state # state
        full == Len(q.history) >= MaxSamplesPerQueue
        kinds == RegistryEvents(s)
                 \o When(~Tracked(s.queue), "QueueLimitReached")
                 \o When(NamesUnknownClass(s) /\ ~q.unsupported, "SampleAccepted")
                 \o CounterEvents(deltas)
                 \o When(conflict /\ ~q.conflict, "ConflictDetected")
                 \o When(~conflict /\ q.conflict, "ConflictCleared")
                 \o When(changed, "StateTransition")
                 \o When(full, "HistoryEvicted")
    IN /\ Presentable /\ s.valid /\ Registers(s)
       /\ Tracked(s.queue) \/ QueueRoom
       /\ sources' = With(sources, s.source, [Registered(s) EXCEPT !.accepted = @ + 1])
       /\ nextOrdinal' = OrdinalAfter(s)
       /\ queues' = With(queues, s.queue,
            QueueAfter(q, s, p, conflict, RecordOf(s, received, assessment, deltas, state)))
       /\ conflicts' = ConflictsAfter(s.queue, p, against)
       /\ counts' = RecordAll([counts EXCEPT !.presented = @ + 1, !.accepted = @ + 1,
                                             !.detected = @ + One(conflict /\ ~q.conflict),
                                             !.cleared = @ + One(~conflict /\ q.conflict),
                                             !.transitions = @ + One(changed),
                                             !.pushed = @ + 1, !.evicted = @ + One(full)], kinds)
       /\ events' = LogAll(kinds)
       /\ UNCHANGED <<now, metadata>>

AcceptLive(s) == Accept(s, FALSE)

\* admit_recovered: samples of a persisted segment go through the same
\* admission with recovered_mode_ set.  Its refusals are the actions above.
AdmitRecovered(s) == Accept(s, TRUE)

\* import_events copies persisted events only while the log has room.
ImportEvents(kinds) ==
    LET taken == SubSeq(kinds, 1, Min({Len(kinds), MaxEvents - Len(events)}))
    IN /\ events' = LogAll(taken)
       /\ counts' = RecordAll(counts, taken)
       /\ UNCHANGED <<now, sources, nextOrdinal, queues, conflicts, metadata>>

-----------------------------------------------------------------------------
(* Metadata and time *)

TablePresentable == counts.updates + counts.refused < MaxTables

\* apply_metadata of a valid table; an invalid one changes nothing.
ApplyMetadata(t) ==
    /\ TablePresentable
    /\ HasMetadata => NewerTable(t, metadata)
    /\ metadata' = t
    /\ counts' = RecordAll([counts EXCEPT !.updates = @ + 1], <<"MetadataUpdated">>)
    /\ events' = LogAll(<<"MetadataUpdated">>)
    /\ UNCHANGED <<now, sources, nextOrdinal, queues, conflicts>>

FenceMetadata(t) ==
    /\ TablePresentable
    /\ HasMetadata /\ ~NewerTable(t, metadata)
    /\ counts' = RecordAll([counts EXCEPT !.refused = @ + 1], <<"MetadataRevisionFenced">>)
    /\ events' = LogAll(<<"MetadataRevisionFenced">>)
    /\ UNCHANGED <<now, sources, nextOrdinal, queues, conflicts, metadata>>

Tick ==
    /\ now < MaxTime
    /\ now' = now + 1
    /\ UNCHANGED <<sources, nextOrdinal, queues, conflicts, events, metadata, counts>>

Next ==
    \/ \E s \in Samples : \/ RejectInvalid(s) \/ RejectSourceLimit(s) \/ FenceIncarnation(s)
                          \/ FenceGeneration(s) \/ FenceAuthority(s) \/ FenceSequence(s)
                          \/ RejectQueueLimit(s) \/ AcceptLive(s)
    \/ \E t \in Tables : ApplyMetadata(t) \/ FenceMetadata(t)
    \/ Tick

Spec == Init /\ [][Next]_vars

-----------------------------------------------------------------------------
(* Properties *)

Latest(q) == Last(queues[q].history)

\* The limits of HistoryLimits: the registry, the queue table, the histories,
\* the conflict table and the event log never outgrow them.
WithinHistoryLimits ==
    /\ Cardinality(DOMAIN sources) <= MaxSources
    /\ \A x \in DOMAIN sources : Len(sources[x].recent) \in 1..KeptIncarnations
    /\ Cardinality(DOMAIN queues) <= Min({MaxQueues, HistoryBudget})
    /\ \A q \in DOMAIN queues : /\ Len(queues[q].history) \in 1..MaxSamplesPerQueue
                                /\ Len(queues[q].peers) \in 1..MaxSources
    /\ Len(conflicts) <= MaxConflicts /\ Len(events) <= MaxEvents

\* Every sample presented to ingest_locked is accepted, rejected or fenced, an
\* accepted one is pushed, and every event recorded is kept or was lost.
Tallies ==
    /\ counts.presented = counts.accepted + counts.rejected + counts.fenced
    /\ counts.accepted = counts.pushed
    /\ counts.recorded = counts.lost + Len(events)

\* The store's totals are those of its sources, its queues and its histories.
Totals ==
    /\ counts.accepted = SumFunction([x \in DOMAIN sources |-> sources[x].accepted])
    /\ counts.fenced = SumFunction([x \in DOMAIN sources |-> sources[x].fenced])
    /\ counts.accepted = SumFunction([q \in DOMAIN queues |-> queues[q].accepted])
    /\ counts.pushed =
         SumFunction([q \in DOMAIN queues |-> Len(queues[q].history) + queues[q].evicted])

\* Every sample presented to ingest_locked is accounted for exactly once, and
\* the totals of the store, of the sources, of the queues, of the histories
\* and of the event log tell the same story whatever was refused or dropped
\* to stay within the limits.
Accounting == Tallies /\ Totals /\ WithinHistoryLimits

\* The fences of ingest_locked, seen from the evidence they let through: in a
\* queue's history a source moves forward only, first by incarnation, then by
\* sequence number, and never loses generation or authority.
HistoryFenced ==
    \A q \in DOMAIN queues : LET h == queues[q].history IN
      \A i, j \in DOMAIN h : i < j /\ h[i].source = h[j].source =>
        /\ \/ h[i].ordinal < h[j].ordinal
           \/ h[i].ordinal = h[j].ordinal /\ h[i].sequence < h[j].sequence
        /\ h[i].generation <= h[j].generation
        /\ h[i].assessment.authority <= h[j].assessment.authority

\* No replay reaches two queues: the sequence space belongs to the source, so
\* a (source, incarnation ordinal, sequence) is recorded at most once in the
\* whole store.
SequenceUsedOnce ==
    \A q, r \in DOMAIN queues :
      \A i \in DOMAIN queues[q].history, j \in DOMAIN queues[r].history :
        LET x == queues[q].history[i]
            y == queues[r].history[j]
        IN <<q, i>> # <<r, j>> /\ x.source = y.source /\ x.ordinal = y.ordinal
             => x.sequence # y.sequence

\* A queue that is in conflict really has two peers that disagree, and it is
\* what the queue reports; the conflict table and the counters of
\* detect_conflict agree with the queues, except for records the bounded
\* table had to drop.
ConflictBookkeeping ==
    LET inConflict == {q \in DOMAIN queues : queues[q].conflict}
        open(q) == {i \in DOMAIN conflicts : conflicts[i].queue = q /\ conflicts[i].active}
    IN /\ counts.detected - counts.cleared = Cardinality(inConflict)
       /\ \A q \in inConflict : /\ queues[q].state = "conflicting"
                                /\ \E x, y \in Range(queues[q].peers) : Disagree(x, y)
       /\ \A i \in DOMAIN conflicts : conflicts[i].active =>
            conflicts[i].queue \in inConflict /\ open(conflicts[i].queue) = {i}
       /\ Len(conflicts) < MaxConflicts => Cardinality(inConflict) =
            Cardinality({i \in DOMAIN conflicts : conflicts[i].active})

\* The peer table holds, for every source in the history, that source's newest
\* observation: what detect_conflict compares with is never an older one, and
\* no source is dropped while its evidence is still kept.
PeersAreNewest ==
    \A q \in DOMAIN queues : LET h == queues[q].history IN
      \A i \in DOMAIN h :
        (\A j \in (i + 1)..Len(h) : h[j].source # h[i].source) =>
           \E p \in Range(queues[q].peers) :
              /\ p.source = h[i].source /\ p.received = h[i].received
              /\ p.authority = h[i].assessment.authority

\* Evidence read back from persistence never defines a live state
\* (recovered_mode_ in assess): whatever it reports, its queue is stale or in
\* conflict after it.
RecoveredNeverCurrent ==
    \A q \in DOMAIN queues : \A i \in DOMAIN queues[q].history :
      LET x == queues[q].history[i] IN
      x.assessment.recovered =>
        /\ x.state \in {"stale", "conflicting"}
        /\ ~EstablishesCurrent(x.assessment)

Ascending(h) == \A i, j \in DOMAIN h : i < j => h[i].received <= h[j].received

\* A drop that was counted inside the evaluation window of the newest record
\* decides the queue's state, unless a rule before the drop rule does: sources
\* disagree, the evidence is not fresh, or there is nothing to measure.  The
\* histories meant are those in ascending receive order, which History.cpp
\* takes for granted: evidence recovered or stamped late breaks it.
DropsAreReported ==
    \A q \in DOMAIN queues :
      LET h == queues[q].history
          recent == {i \in DOMAIN h :
                       h[i].received >= Latest(q).received - Policy.evaluation_window}
          dropped == {i \in recent : "drops" \in DOMAIN h[i].deltas /\ h[i].deltas["drops"].known
                                     /\ h[i].deltas["drops"].delta >= Policy.dropping_at}
      IN Ascending(h) /\ dropped # {} => queues[q].state \in {"dropping", "conflicting", "stale", "unknown"}

\* The registry only moves forward: no step lowers a source's generation or
\* authority, and a sequence number falls back only under a newer incarnation.
RegistryMonotone ==
    [][\A x \in DOMAIN sources :
         /\ x \in DOMAIN sources'
         /\ sources'[x].generation >= sources[x].generation
         /\ sources'[x].authority >= sources[x].authority
         /\ \/ sources'[x].ordinal > sources[x].ordinal
            \/ /\ sources'[x].ordinal = sources[x].ordinal
               /\ sources'[x].incarnation = sources[x].incarnation
               /\ sources'[x].last_sequence >= sources[x].last_sequence]_vars
=============================================================================
