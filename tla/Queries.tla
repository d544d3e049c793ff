------------------------------- MODULE Queries ------------------------------
(***************************************************************************)
(* The queries of the store that evaluate a window: history (also inside   *)
(* export_data) and microburst.  Each replays a queue's history, oldest    *)
(* record first, through a BucketAccumulator (module Window) and looks at  *)
(* it at the time of the query.  They hold the store's mutex shared and    *)
(* change nothing, so a query is a function of the state.                  *)
(***************************************************************************)
EXTENDS Store, Window

CONSTANTS WindowSpecs,      \* the windows that may be asked for
          MinExcursion, MinBurstBuckets     \* MicroburstPolicy

ASSUME QueriesAssumption ==
    /\ \A w \in WindowSpecs : ValidSpec(w)
    /\ MinExcursion \in Nat /\ MinBurstBuckets \in Nat \ {0}

\* The occupancy a record reports, in cells or else in bytes.
OccupancyOf(r) ==
    IF "occupancy_cells" \in DOMAIN r.values THEN <<r.values["occupancy_cells"]>>
    ELSE IF "occupancy_bytes" \in DOMAIN r.values THEN <<r.values["occupancy_bytes"]>> ELSE <<>>

KnownDelta(r, f) == f \in DOMAIN r.deltas /\ r.deltas[f].known

\* to_observation: a counter the record does not report has no known delta.
Observation(r) ==
    [time |-> r.received, occupancy |-> OccupancyOf(r),
     deltas |-> [f \in CounterFields |-> IF KnownDelta(r, f) THEN r.deltas[f]
                                         ELSE [known |-> FALSE, delta |-> 0]],
     establishes |-> EstablishesCurrent(r.assessment)]

\* The accumulator a query builds.
Accumulated(q, spec) ==
    Expire(FoldLeft(LAMBDA acc, r : Observe(acc, spec, Observation(r)), NewAccumulator,
                    queues[q].history), spec, now)

HistoryQuery(q, spec) == Aggregate(Accumulated(q, spec), spec, now)
Microburst(q, spec) == BurstEvidence(Accumulated(q, spec), MinExcursion, MinBurstBuckets)

-----------------------------------------------------------------------------
(* Properties *)

\* The buckets a window shows, by definition: those a record fell into that do
\* not start before the window, and of these the newest it has room for.
ShownBuckets(h, spec) ==
    LET inside == {Align(r.received, spec.bucket) : r \in Range(h)} \ 
                    {n \in (-spec.bucket)..now : n < now - spec.duration}
    IN {n \in inside : Cardinality({m \in inside : m > n}) < Capacity(spec)}

ShownRows(h, spec) ==
    {i \in DOMAIN h : Align(h[i].received, spec.bucket) \in ShownBuckets(h, spec)}

\* What a history query and a microburst query answer is what the records of
\* the window say, whatever was folded, expired and overwritten on the way:
\* samples, counter advances (unless they exceed 64 bits, where a bucket
\* saturates), highest, lowest and last occupancy; a complete answer rests on
\* evidence that could define the present and on known advances only; a burst
\* is reported exactly when two records of the window are that far apart.  For
\* histories in ascending receive order.
WindowMatchesHistory ==
    \A q \in DOMAIN queues, spec \in WindowSpecs : Ascending(queues[q].history) =>
      LET h == queues[q].history
          answer == HistoryQuery(q, spec)
          burst == Microburst(q, spec)
          rows == ShownRows(h, spec)
          measured == {i \in rows : OccupancyOf(h[i]) # <<>>}
          level(i) == OccupancyOf(h[i])[1]
          advance(f) == MapThenSumSet(LAMBDA i : h[i].deltas[f].delta, {i \in rows : KnownDelta(h[i], f)})
      IN /\ answer.samples = Cardinality(rows)
         /\ answer.covered = Cardinality(ShownBuckets(h, spec))
         /\ \A f \in CounterFields : advance(f) < Word => answer.sums[f] = advance(f)
         /\ answer.occupancy =
              IF measured = {} THEN <<>>
              ELSE <<Max({level(i) : i \in measured}), Min({level(i) : i \in measured}),
                     level(Max(measured))>>
         /\ answer.quality = "complete" =>
              \A i \in rows : /\ EstablishesCurrent(h[i].assessment)
                              /\ \A f \in CounterFields : KnownDelta(h[i], f)
         /\ burst.detected = /\ Cardinality({Align(h[i].received, spec.bucket) : i \in measured})
                                  >= MinBurstBuckets
                             /\ \E i, j \in measured : level(i) - level(j) >= MinExcursion
=============================================================================
