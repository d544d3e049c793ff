------------------------------- MODULE Counter ------------------------------
(***************************************************************************)
(* Counter continuity (src/src/model/Counter.cpp): what one raw reading of *)
(* a finite-width device counter lets the runtime claim about the advance  *)
(* since the previous reading.                                             *)
(*                                                                         *)
(* The widths are parameters: Modulus stands for 2^32 (0 for a 64-bit      *)
(* counter, which does not wrap in range) and Word for 2^64.               *)
(***************************************************************************)
EXTENDS Integers

CONSTANTS Modulus,         \* counter_modulus(policy.width)
          Word,            \* 2^64, the range of std::uint64_t
          MaxSampleGap,    \* max_sample_gap_ns; 0 switches the check off
          MaxRate,         \* max_rate_per_second, or NoRate
          NoRate,
          NanosPerSecond,
          ResetDetection,  \* reset_detection_enabled
          NoDomain         \* an observation time without a clock domain

ASSUME CounterAssumption ==
    /\ Modulus \in Nat /\ Word \in Nat /\ 2 * Modulus < Word
    /\ MaxSampleGap \in Nat
    /\ MaxRate \in Nat \cup {NoRate} /\ NoRate \notin Nat
    /\ NanosPerSecond \in Nat \ {0}
    /\ ResetDetection \in BOOLEAN

Continuity == {"first_observation", "continuous", "unchanged", "wrapped", "reset",
               "discontinuous", "ambiguous_wrap", "undetermined"}

\* A counter nobody has read yet.
NewCounter ==
    [initialized |-> FALSE, last_raw |-> 0,
     last_observed |-> [domain |-> NoDomain, ns |-> 0], last_received |-> 0,
     known_total |-> 0, wraps |-> 0, resets |-> 0, ambiguous |-> 0, discontinuities |-> 0,
     known_deltas |-> 0, unknown_deltas |-> 0]

WrapsInRange == Modulus # 0

\* Observation times compare only inside one known clock domain.
Comparable(a, b) == a.domain # NoDomain /\ a.domain = b.domain

\* The time between two readings: by the device clock where the two compare,
\* by the receive clock otherwise.
Gap(c, observed, received) ==
    IF Comparable(c.last_observed, observed)
    THEN observed.ns - c.last_observed.ns
    ELSE received - c.last_received

\* max_advance_in_gap has a value: there is a rate bound and the product fits
\* in 64 bits.
AdvanceBounded(gap) == MaxRate # NoRate /\ MaxRate * gap < Word

MaxAdvance(gap) == (MaxRate * gap) \div NanosPerSecond

\* Mutant: the ambiguity of a second turn is ignored.
ExtraWrapIgnored(gap, delta) == FALSE

\* A whole extra turn of the counter fits into the gap on top of delta.
ExtraWrapFits(gap, delta) == AdvanceBounded(gap) /\ MaxAdvance(gap) >= delta + Modulus

\* Mutant: readings beyond the width are taken.
NeverTooWide(raw) == FALSE

\* A reading that a counter of this width cannot show.
TooWide(raw) == WrapsInRange /\ raw >= Modulus

ForwardDelta(c, raw) == raw - c.last_raw
\* Mutant: the turn is one event too long.
WrapDeltaLong(c, raw) == (Modulus - c.last_raw + raw + 1) % Word
WrapDelta(c, raw) == (Modulus - c.last_raw + raw) % Word
LooksLikeWrap(c, raw) == WrapsInRange /\ c.last_raw - raw > Modulus \div 2

\* The branch of update_counter that a reading takes.
ContinuityOf(c, raw, observed, received) ==
    LET gap == Gap(c, observed, received) IN
    IF ~c.initialized THEN "first_observation"
    ELSE IF TooWide(raw) THEN "undetermined"
    ELSE IF gap < 0 THEN "undetermined"
    ELSE IF MaxSampleGap > 0 /\ gap > MaxSampleGap THEN "discontinuous"
    ELSE IF raw = c.last_raw THEN "unchanged"
    ELSE IF raw > c.last_raw
         THEN IF WrapsInRange /\ ExtraWrapFits(gap, ForwardDelta(c, raw))
              THEN "ambiguous_wrap" ELSE "continuous"
    ELSE IF LooksLikeWrap(c, raw)
         THEN IF ExtraWrapFits(gap, WrapDelta(c, raw)) THEN "ambiguous_wrap" ELSE "wrapped"
    ELSE IF ResetDetection THEN "reset" ELSE "undetermined"

\* continuity_yields_known_delta
YieldsKnownDelta(cont) == cont \in {"continuous", "unchanged", "wrapped"}

DeltaOf(c, raw, cont) ==
    CASE cont = "continuous" -> ForwardDelta(c, raw)
      [] cont = "wrapped" -> WrapDelta(c, raw)
      [] OTHER -> 0

One(b) == IF b THEN 1 ELSE 0

\* update_counter: the counter after a reading.  A reading that is too wide
\* moves the times but leaves the baseline, unless it is the first one.
UpdateCounter(c, raw, observed, received) ==
    LET cont == ContinuityOf(c, raw, observed, received)
        refused == c.initialized /\ TooWide(raw)
    IN [initialized |-> TRUE,
        last_raw |-> IF refused THEN c.last_raw ELSE raw,
        last_observed |-> observed,
        last_received |-> received,
        known_total |-> (c.known_total + DeltaOf(c, raw, cont)) % Word,
        wraps |-> c.wraps + One(cont = "wrapped"),
        resets |-> c.resets + One(cont = "reset"),
        ambiguous |-> c.ambiguous + One(cont = "ambiguous_wrap"),
        discontinuities |-> c.discontinuities + One(cont = "discontinuous"),
        known_deltas |-> c.known_deltas + One(YieldsKnownDelta(cont)),
        unknown_deltas |-> c.unknown_deltas
            + One(~YieldsKnownDelta(cont) /\ cont # "first_observation")]
=============================================================================
