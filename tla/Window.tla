------------------------------- MODULE Window -------------------------------
(***************************************************************************)
(* BucketAccumulator (src/src/store/Window.cpp): a bounded window of time  *)
(* buckets into which observations are folded in the order they come.      *)
(* The accumulator has no life of its own in the program: every query      *)
(* builds one from a queue's history, so it is a set of operators here,    *)
(* applied to the store by module Queries.                                 *)
(*                                                                         *)
(* The ring of buckets is a sequence, head first.  A spec has a duration,  *)
(* a bucket length and the buckets that must be covered (min_covered).     *)
(***************************************************************************)
EXTENDS Classification, Sequences, SequencesExt, FiniteSetsExt

\* validate_window_spec
ValidSpec(spec) ==
    /\ spec.bucket \in 1..spec.duration
    /\ spec.min_covered \in 1..((spec.duration + spec.bucket - 1) \div spec.bucket)

Capacity(spec) == (spec.duration + spec.bucket - 1) \div spec.bucket

\* align_bucket: the start of the bucket a time falls into, also before zero.
Align(time, bucket) == (time \div bucket) * bucket

\* configure
NewAccumulator == [buckets |-> <<>>, evicted |-> 0, late |-> 0]

NewBucket(start) ==
    [start |-> start, samples |-> 0, occupancy |-> <<>>, sums |-> [f \in CounterFields |-> 0],
     saturated |-> 0, unknown |-> 0, non_current |-> 0, last_received |-> 0]

\* Mutant: a bucket that starts with the window is dropped too.
ExpireInclusive(acc, spec, time) ==
    LET alive == {i \in DOMAIN acc.buckets : acc.buckets[i].start > time - spec.duration}
        first == IF alive = {} THEN Len(acc.buckets) + 1 ELSE Min(alive)
    IN [acc EXCEPT !.buckets = SubSeq(@, first, Len(@)), !.evicted = @ + first - 1]

\* Buckets leave from the head, up to the first that is still inside.
Expire(acc, spec, time) ==
    LET alive == {i \in DOMAIN acc.buckets : acc.buckets[i].start >= time - spec.duration}
        first == IF alive = {} THEN Len(acc.buckets) + 1 ELSE Min(alive)
    IN [acc EXCEPT !.buckets = SubSeq(@, first, Len(@)), !.evicted = @ + first - 1]

\* find_or_create_bucket: the bucket is found, refused because it would come
\* before the head, appended, or takes the place of the head.
WithBucket(acc, spec, start) ==
    IF \E b \in Range(acc.buckets) : b.start = start THEN acc
    ELSE IF acc.buckets # <<>> /\ start < Head(acc.buckets).start THEN [acc EXCEPT !.late = @ + 1]
    ELSE IF Len(acc.buckets) < Capacity(spec)
    THEN [acc EXCEPT !.buckets = Append(@, NewBucket(start))]
    ELSE [acc EXCEPT !.buckets = Append(Tail(@), NewBucket(start)), !.evicted = @ + 1]

\* The occupancies seen in a bucket: highest, lowest, last.
SeenOccupancy(seen, occupancy) ==
    IF occupancy = <<>> THEN seen
    ELSE IF seen = <<>> THEN <<occupancy[1], occupancy[1], occupancy[1]>>
    ELSE <<Max({seen[1], occupancy[1]}), Min({seen[2], occupancy[1]}), occupancy[1]>>

Folded(b, o) ==
    LET sum(f) == b.sums[f] + (IF o.deltas[f].known THEN o.deltas[f].delta ELSE 0)
    IN [b EXCEPT !.samples = @ + 1,
                 !.occupancy = SeenOccupancy(@, o.occupancy),
                 !.sums = [f \in CounterFields |-> Min({sum(f), Word - 1})],
                 !.saturated = @ + Cardinality({f \in CounterFields : sum(f) >= Word}),
                 !.unknown = @ + One(\E f \in CounterFields : ~o.deltas[f].known),
                 !.non_current = @ + One(~o.establishes),
                 !.last_received = Max({@, o.time})]

Observe(acc, spec, o) ==
    LET start == Align(o.time, spec.bucket)
        placed == WithBucket(Expire(acc, spec, o.time), spec, start)
    IN [placed EXCEPT !.buckets =
          [i \in DOMAIN @ |-> IF @[i].start = start THEN Folded(@[i], o) ELSE @[i]]]

\* The buckets that hold an occupancy.
Measured(acc) == SelectSeq(acc.buckets, LAMBDA b : b.occupancy # <<>>)

\* aggregate.  The counters of the buckets are added without saturation, and a
\* receive time of zero counts as none.
Aggregate(acc, spec, time) ==
    LET bs == Range(acc.buckets)
        count(F(_)) == FoldSeq(LAMBDA b, n : n + F(b), 0, acc.buckets)
        received == {b.last_received : b \in bs} \ {0}
        age == IF received = {} THEN 0 ELSE time - Max(received)
        unknown == count(LAMBDA b : b.unknown)
        non_current == count(LAMBDA b : b.non_current)
        measured == Measured(acc)
    IN [covered |-> Len(acc.buckets),
        samples |-> count(LAMBDA b : b.samples),
        sums |-> [f \in CounterFields |-> count(LAMBDA b : b.sums[f]) % Word],
        occupancy |-> IF measured = <<>> THEN <<>>
                      ELSE <<Max({b.occupancy[1] : b \in Range(measured)}),
                             Min({b.occupancy[2] : b \in Range(measured)}),
                             Last(measured).occupancy[3]>>,
        freshness |-> IF bs = {} THEN "unknown" ELSE FreshnessOf(age),
        quality |-> IF bs = {} THEN "unknown"
                    ELSE IF Len(acc.buckets) < spec.min_covered \/ unknown > 0 \/ non_current > 0
                    THEN "incomplete" ELSE "complete"]

\* burst_evidence: the excursion between the highest and the lowest occupancy
\* of the buckets that have one.
BurstEvidence(acc, excursion, covered) ==
    LET seen == Range(Measured(acc))
        peak == Max({b.occupancy[1] : b \in seen})
        trough == Min({b.occupancy[2] : b \in seen})
        enough == Cardinality(seen) >= covered
    IN [coverage_sufficient |-> enough,
        excursion |-> IF seen = {} THEN 0 ELSE peak - trough,
        detected |-> enough /\ (IF seen = {} THEN 0 ELSE peak - trough) >= excursion]
=============================================================================
