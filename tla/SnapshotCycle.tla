---------------------------- MODULE SnapshotCycle ---------------------------
(***************************************************************************)
(* How a store outlives its process: build_snapshot (Format.cpp) reads it  *)
(* piece by piece while samples keep arriving, persist_now publishes the   *)
(* result as a segment, the process ends, and recover with                 *)
(* apply_recovered_snapshot (Engine.cpp) presents the evidence to a store  *)
(* that starts empty; the process admits live samples meanwhile.           *)
(*                                                                         *)
(* Every call on the store takes its lock anew: build_snapshot makes five, *)
(* each a step here, and samples may be admitted in between.               *)
(* admit_recovered keeps the lock for the whole batch.  What a damaged     *)
(* segment still yields is a prefix of its records (DecodesAPrefix of      *)
(* module SegmentFormat); which segment is found is module Persistence.    *)
(***************************************************************************)
EXTENDS Store

CONSTANTS
    QueueOrder,     \* the order of the queues_ map
    DefaultRows,    \* QueryLimits::default_rows
    MaxRows,        \* QueryLimits::max_rows
    NoToken,        \* the empty incarnation
    MaxLive,        \* bound on the live samples, over all processes
    MaxRestarts

ASSUME SnapshotAssumption ==
    /\ QueueOrder \in Seq(Range(QueueOrder))
    /\ {DefaultRows, MaxRows} \subseteq Nat \ {0} /\ DefaultRows <= MaxRows
    /\ {MaxLive, MaxRestarts} \subseteq Nat

VARIABLES
    building,   \* build_snapshot: its next step and what it has read
    segment,    \* the newest segment, as a snapshot
    recovery,   \* apply_recovered_snapshot: its step and what is left to apply
    presented,  \* what recovery has presented to this store: the sample, and the
                \* ordinal that was next to be given out once it was presented
    origin,     \* the live samples ever admitted
    sent,       \* how many live samples were presented
    restarts

cycle == <<building, segment, recovery, presented, origin, sent, restarts>>
cycleVars == <<vars, cycle>>

NotBuilding == [step |-> "idle", rows |-> <<>>, tokens |-> {}, queues |-> <<>>, events |-> <<>>]
NoSegment == [present |-> FALSE, queues |-> <<>>, events |-> <<>>, metadata |-> NoTable]
NotRecovering == [step |-> "idle", from |-> NoSegment, samples |-> <<>>]

CycleInit ==
    /\ Init
    /\ building = NotBuilding /\ segment = NoSegment /\ recovery = NotRecovering
    /\ presented = {} /\ origin = {} /\ sent = 0 /\ restarts = 0

\* admit_recovered holds the store's mutex exclusively.
StoreFree == recovery.step # "samples"

-----------------------------------------------------------------------------
(* Live samples *)

\* What identifies a sample, and what it says.
Evidence(s) == [queue |-> s.queue, source |-> s.source, incarnation |-> s.incarnation,
                sequence |-> s.sequence, values |-> s.values]

LiveRefused(s) ==
    /\ StoreFree /\ sent < MaxLive
    /\ \/ RejectInvalid(s) \/ RejectSourceLimit(s) \/ FenceIncarnation(s) \/ FenceGeneration(s)
       \/ FenceAuthority(s) \/ FenceSequence(s) \/ RejectQueueLimit(s)
    /\ sent' = sent + 1
    /\ UNCHANGED <<building, segment, recovery, presented, origin, restarts>>

LiveAccepted(s) ==
    /\ StoreFree /\ sent < MaxLive
    /\ AcceptLive(s)
    /\ sent' = sent + 1 /\ origin' = origin \cup {Evidence(s)}
    /\ UNCHANGED <<building, segment, recovery, presented, restarts>>

\* Bound: a process presents its tables before its samples.
LiveTable(t) ==
    /\ StoreFree /\ counts.presented = 0
    /\ ApplyMetadata(t) \/ FenceMetadata(t)
    /\ UNCHANGED cycle

\* Bound: the clock stands once a snapshot is being taken.
Passes == building.step = "idle" /\ ~segment.present /\ Tick /\ UNCHANGED cycle

-----------------------------------------------------------------------------
(* build_snapshot, one step for each call on the store *)

Reads(step, next, read) ==
    /\ StoreFree /\ building.step = step
    /\ building' = [read EXCEPT !.step = next]
    /\ UNCHANGED <<vars, segment, recovery, presented, origin, sent, restarts>>

\* The queues in the order a walk of queues_ meets them.
Listed == FlattenSeq([i \in DOMAIN QueueOrder |-> When(Tracked(QueueOrder[i]), QueueOrder[i])])

\* inspect with no limit given returns the first default_rows queues.
\* Bound: one snapshot is taken.
ReadRows ==
    LET shown == Range(SubSeq(Listed, 1, Min({Len(Listed), DefaultRows})))
    IN /\ ~segment.present
       /\ Reads("idle", "sources",
                [NotBuilding EXCEPT !.rows = [q \in shown |-> queues[q].classes]])

\* The incarnations the registry still knows.
Remembered ==
    UNION {{[source |-> x, ordinal |-> e.ordinal, token |-> e.token] :
              e \in Range(sources[x].recent)} : x \in DOMAIN sources}

\* sources: the token of every incarnation the registry still remembers.
ReadSources == Reads("sources", "queues", [building EXCEPT !.tokens = Remembered])

\* Mutant: the token the source has now.
TokenOfSource(r) ==
    LET found == {t \in building.tokens : t.source = r.source}
    IN IF found = {} THEN NoToken
       ELSE (CHOOSE t \in found : \A u \in found : t.ordinal >= u.ordinal).token

\* The token a record was produced under, if it was found in the registry.
TokenOf(r) ==
    LET found == {t \in building.tokens : t.source = r.source /\ t.ordinal = r.ordinal}
    IN IF found = {} THEN NoToken ELSE (CHOOSE t \in found : TRUE).token

Durable(r) ==
    [source |-> r.source, incarnation |-> TokenOf(r), generation |-> r.generation,
     sequence |-> r.sequence, authority |-> r.assessment.authority, observed |-> r.observed,
     values |-> r.values]

\* for_each_queue, then the classes of the rows read first.
ReadQueues ==
    Reads("queues", "events",
          [building EXCEPT !.queues =
             [i \in DOMAIN Listed |->
                [queue |-> Listed[i],
                 classes |-> IF Listed[i] \in DOMAIN building.rows THEN building.rows[Listed[i]]
                             ELSE NoClasses,
                 samples |-> [j \in DOMAIN queues[Listed[i]].history |->
                                Durable(queues[Listed[i]].history[j])]]]])

\* events, oldest first, as many as a query may return.
ReadEvents ==
    Reads("events", "metadata",
          [building EXCEPT !.events = SubSeq(events, 1, Min({Len(events), MaxRows}))])

\* metadata_snapshot, and write_snapshot with the result.
Publish ==
    /\ StoreFree /\ building.step = "metadata"
    /\ segment' = [present |-> TRUE, queues |-> building.queues, events |-> building.events,
                   metadata |-> metadata]
    /\ building' = NotBuilding
    /\ UNCHANGED <<vars, recovery, presented, origin, sent, restarts>>

-----------------------------------------------------------------------------
(* The end of a process, and recovery *)

\* Another process starts with an empty store and a clock of its own.
Restart ==
    /\ restarts < MaxRestarts /\ segment.present
    /\ restarts' = restarts + 1
    /\ now' = StartTime /\ sources' = <<>> /\ nextOrdinal' = 1
    /\ queues' = <<>> /\ conflicts' = <<>> /\ events' = <<>> /\ metadata' = NoTable
    /\ counts' = [c \in DOMAIN counts |-> 0]
    /\ building' = NotBuilding /\ recovery' = NotRecovering /\ presented' = {}
    /\ UNCHANGED <<segment, origin, sent>>

\* What decode_snapshot may return: all records, or those before a damaged one.
Readable ==
    {segment, [segment EXCEPT !.metadata = NoTable],
     [segment EXCEPT !.metadata = NoTable, !.events = <<>>]}
    \cup {[segment EXCEPT !.metadata = NoTable, !.events = <<>>,
                          !.queues = SubSeq(@, 1, n)] : n \in 0..Len(segment.queues)}

\* The sample apply_recovered_snapshot makes of a persisted one.
Presented(q, d) ==
    [queue |-> q.queue, source |-> d.source, incarnation |-> d.incarnation,
     generation |-> d.generation, sequence |-> d.sequence, authority |-> d.authority,
     observed |-> d.observed, values |-> d.values, age |-> 0,
     valid |-> d.incarnation # NoToken, classes |-> q.classes]

\* All samples, queue by queue.
PresentedIn(s) ==
    FlattenSeq([i \in DOMAIN s.queues |->
                  [j \in DOMAIN s.queues[i].samples |->
                     Presented(s.queues[i], s.queues[i].samples[j])]])

\* Bound: one recovery in a process, of a segment an earlier one wrote.
Recover(s) ==
    /\ segment.present /\ restarts > 0 /\ recovery.step = "idle" /\ presented = {}
    /\ recovery' = [step |-> "table", from |-> s, samples |-> PresentedIn(s)]
    /\ UNCHANGED <<vars, building, segment, presented, origin, sent, restarts>>

RecoverTable ==
    /\ recovery.step = "table"
    /\ IF recovery.from.metadata = NoTable THEN UNCHANGED vars
       ELSE ApplyMetadata(recovery.from.metadata) \/ FenceMetadata(recovery.from.metadata)
    /\ recovery' = [recovery EXCEPT !.step = "samples"]
    /\ UNCHANGED <<building, segment, presented, origin, sent, restarts>>

\* The next sample of the batch.
Takes(s) ==
    /\ recovery.step = "samples" /\ recovery.samples # <<>>
    /\ s = Head(recovery.samples)
    /\ recovery' = [recovery EXCEPT !.samples = Tail(@)]
    /\ presented' = presented \cup {[sample |-> s, next |-> nextOrdinal']}
    /\ UNCHANGED <<building, segment, origin, sent, restarts>>

RecoverAccepted ==
    /\ recovery.samples # <<>>
    /\ LET s == Head(recovery.samples) IN AdmitRecovered(s) /\ Takes(s)

RecoverRefused ==
    /\ recovery.samples # <<>>
    /\ LET s == Head(recovery.samples)
       IN /\ \/ RejectInvalid(s) \/ RejectSourceLimit(s) \/ FenceIncarnation(s)
             \/ FenceGeneration(s) \/ FenceAuthority(s) \/ FenceSequence(s) \/ RejectQueueLimit(s)
          /\ Takes(s)

\* The batch is over and the lock is released; import_events takes it again.
RecoverUnlock ==
    /\ recovery.step = "samples" /\ recovery.samples = <<>>
    /\ recovery' = [recovery EXCEPT !.step = "events"]
    /\ UNCHANGED <<vars, building, segment, presented, origin, sent, restarts>>

RecoverEvents ==
    /\ recovery.step = "events"
    /\ ImportEvents(recovery.from.events)
    /\ recovery' = NotRecovering
    /\ UNCHANGED <<building, segment, presented, origin, sent, restarts>>

CycleNext ==
    \/ \E s \in Samples : LiveRefused(s) \/ LiveAccepted(s)
    \/ \E t \in Tables : LiveTable(t)
    \/ Passes
    \/ ReadRows \/ ReadSources \/ ReadQueues \/ ReadEvents \/ Publish
    \/ Restart
    \/ \E s \in Readable : Recover(s)
    \/ RecoverTable \/ RecoverAccepted \/ RecoverRefused \/ RecoverUnlock \/ RecoverEvents

CycleSpec == CycleInit /\ [][CycleNext]_cycleVars

-----------------------------------------------------------------------------
(* Properties *)

\* Evidence is attributed, or refused, and never guessed at: whatever was
\* admitted while the snapshot was taken and whatever the registry had
\* forgotten, a recovered record stands for a sample that was admitted live on
\* that queue, under that incarnation.
AttributedOrRefused ==
    \A q \in DOMAIN queues : \A r \in Range(queues[q].history) :
      r.assessment.recovered =>
        \A e \in Range(sources[r.source].recent) : e.ordinal = r.ordinal =>
          [queue |-> q, source |-> r.source, incarnation |-> e.token, sequence |-> r.sequence,
           values |-> r.values] \in origin

\* Recovery restores the fences: once a persisted sample was presented, its
\* replay is refused as long as the incarnation it was presented under is
\* remembered, although samples are presented queue by queue and not in the
\* order of their sequence numbers.  (A token that was forgotten and came back
\* has a new ordinal, and a sequence space of its own.)
ReplayStaysFenced ==
    \A x \in presented : LET s == x.sample IN
      /\ s.valid /\ Known(s)
      /\ \E e \in Range(sources[s.source].recent) :
           e.token = s.incarnation /\ e.ordinal < x.next
      => ~FencesPass(s)
=============================================================================
