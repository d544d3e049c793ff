-------------------------- MODULE CounterTracking ---------------------------
(***************************************************************************)
(* One device counter followed by the runtime: the device counts events in *)
(* a register that wraps and may be reset, sources read it, and their      *)
(* readings reach update_counter late and, when several sources report on  *)
(* the queue, out of order.  The model knows the true number of events, so *)
(* it can say whether a claimed delta is true.                             *)
(*                                                                         *)
(* A queue has one CounterState per field whichever source reports it      *)
(* (QueueState::counters), and sequence numbers are fenced per source, so  *)
(* readings of one source arrive in order and those of two need not.       *)
(***************************************************************************)
EXTENDS Counter

CONSTANTS Sources,        \* the sources that read this counter
          DomainOf,       \* the clock domain each of them reports
          EventsPerTick,  \* the most events the device counts in one tick
          MaxTime,        \* bound on the clock
          MaxReadings,    \* bound on the readings after the first
          WideReadings,   \* readings beyond the counter's width, if any
          WideFirst,      \* whether the very first reading may be one of them
          MaxResets       \* bound on the reloads of the device

ASSUME TrackingAssumption ==
    /\ DomainOf \in [Sources -> {NoDomain} \cup STRING]
    /\ EventsPerTick \in Nat /\ MaxTime \in Nat /\ MaxReadings \in Nat
    /\ WideReadings \subseteq Nat \ (0..(Modulus - 1))
    /\ ~WrapsInRange => WideReadings = {}
    /\ WideFirst \in BOOLEAN /\ MaxResets \in Nat

\* What KnownDeltaExact presumes of the deployment.  The sources stamp their
\* readings with one clock, or the gap is measured by the receive clock and
\* says nothing of the time between the readings; and the configured rate
\* bounds the device's, in 64-bit products, or the ambiguity checks are blind.
OneClock == \A s, t \in Sources : DomainOf[s] = DomainOf[t] /\ DomainOf[s] # NoDomain
RateHolds ==
    /\ MaxRate # NoRate
    /\ EventsPerTick * NanosPerSecond <= MaxRate
    /\ MaxRate * MaxTime < Word

VARIABLES now,       \* the clock, in ticks
          register,  \* what the device shows
          produced,  \* history: events the device has counted in all
          resets,    \* history: how often the device reloaded
          slot,      \* the reading each source has taken and not yet sent
          counter,   \* CounterState
          base,      \* history: the reading last_raw comes from
          overtaken, \* history: a reading arrived after a newer one
          last       \* the outcome of the latest update_counter

vars == <<now, register, produced, resets, slot, counter, base, overtaken, last>>

Empty == [raw |-> -1]
Reading(raw, wide, s) ==
    [raw |-> raw, wide |-> wide, produced |-> produced, resets |-> resets,
     observed |-> [domain |-> DomainOf[s], ns |-> now]]

Init ==
    /\ now = 0 /\ register = 0 /\ produced = 0 /\ resets = 0
    /\ slot = [s \in Sources |-> Empty]
    /\ counter = NewCounter
    /\ base = Empty /\ overtaken = FALSE
    /\ last = [continuity |-> "undetermined", delta |-> 0, truth |-> 0, exact |-> FALSE]

\* Time passes and the device counts n events.
Tick(n) ==
    /\ now < MaxTime
    /\ now' = now + 1
    /\ produced' = produced + n
    /\ register' = IF WrapsInRange THEN (register + n) % Modulus ELSE register + n
    /\ UNCHANGED <<resets, slot, counter, base, overtaken, last>>

\* The device reloads.
Reset ==
    /\ resets < MaxResets /\ register # 0
    /\ register' = 0 /\ resets' = resets + 1
    /\ UNCHANGED <<now, produced, slot, counter, base, overtaken, last>>

ReadingsLeft == counter.known_deltas + counter.unknown_deltas < MaxReadings

\* Source s reads the register.
Observe(s) ==
    /\ slot[s] = Empty /\ ReadingsLeft
    /\ slot' = [slot EXCEPT ![s] = Reading(register, FALSE, s)]
    /\ UNCHANGED <<now, register, produced, resets, counter, base, overtaken, last>>

\* Source s reports a value the counter cannot show.
ObserveWide(s) ==
    /\ slot[s] = Empty /\ ReadingsLeft
    /\ counter.initialized \/ WideFirst
    /\ \E raw \in WideReadings : slot' = [slot EXCEPT ![s] = Reading(raw, TRUE, s)]
    /\ UNCHANGED <<now, register, produced, resets, counter, base, overtaken, last>>

\* The reading of s reaches the store, which folds it into the counter.
Deliver(s) ==
    LET r == slot[s]
        cont == ContinuityOf(counter, r.raw, r.observed, now)
    IN
    /\ r # Empty
    /\ slot' = [slot EXCEPT ![s] = Empty]
    /\ counter' = UpdateCounter(counter, r.raw, r.observed, now)
    /\ base' = IF counter.initialized /\ TooWide(r.raw) THEN base ELSE r
    /\ last' = [continuity |-> cont,
                delta |-> DeltaOf(counter, r.raw, cont),
                truth |-> IF base = Empty THEN 0 ELSE r.produced - base.produced,
                exact |-> /\ base # Empty /\ ~base.wide /\ ~r.wide
                          /\ base.resets = r.resets
                          /\ counter.last_observed = base.observed]
    /\ overtaken' = (overtaken \/ (base # Empty /\ r.observed.ns < base.observed.ns))
    /\ UNCHANGED <<now, register, produced, resets>>

Next ==
    \/ \E n \in 0..EventsPerTick : Tick(n)
    \/ Reset
    \/ \E s \in Sources : Observe(s) \/ ObserveWide(s) \/ Deliver(s)

Spec == Init /\ [][Next]_vars

-----------------------------------------------------------------------------
(* Properties *)

\* With a rate bound, a delta claimed as continuous or as a single wrap is
\* the true number of events between the two readings, unless the device
\* reloaded or a reading was refused in between (a refused reading moves the
\* time the gap is measured from, not the baseline): update_counter refuses
\* the claim whenever another turn of the counter would fit (Counter.cpp, the
\* two ambiguity checks).
KnownDeltaExact ==
    last.exact /\ last.continuity \in {"continuous", "wrapped"} => last.delta = last.truth

\* A claimed delta is smaller than one turn of the counter: no underflow
\* ever reaches known_total (Counter.cpp, the refusal of readings that are
\* too wide).
DeltaFitsWidth ==
    WrapsInRange /\ YieldsKnownDelta(last.continuity) => last.delta < Modulus

\* known_total never exceeds what the device really counted
\* (CounterState::known_total, "the total never invents progress"), through
\* wraps, gaps and refused readings, as long as the device did not reload and
\* no source's reading was overtaken by a newer one of another source.
TotalNeverInventsProgress ==
    resets = 0 /\ ~overtaken => counter.known_total <= produced
=============================================================================
