--------------------------- MODULE Classification ---------------------------
(***************************************************************************)
(* The classifier (src/src/policy/Classification.cpp): thirteen rules in a *)
(* fixed order, the first that matches gives a queue its pressure state.   *)
(*                                                                         *)
(* An input is a record with the reported values (field -> value), the     *)
(* freshness and the quality of the evidence, whether peer sources         *)
(* disagree, and for each counter the advance known inside the evaluation  *)
(* window.  An optional number of the code is a set with at most one       *)
(* element.  The texts of the trace are left out.                          *)
(***************************************************************************)
EXTENDS Counter, FiniteSets

CONSTANTS Policy,           \* PressurePolicy
          CounterFields     \* the counters of a sample that are in use

ASSUME PolicyAssumption ==
    /\ Policy.elevated_permille \in 0..1000 /\ Policy.saturated_permille \in 0..1000
    /\ Policy.pressured_permille \in Policy.elevated_permille..Policy.saturated_permille
    /\ \A x \in {Policy.elevated_at, Policy.pressured_at, Policy.saturated_at} :
         x \subseteq Nat /\ \A a, b \in x : a = b
    /\ \A e \in Policy.elevated_at, p \in Policy.pressured_at : e <= p
    /\ \A p \in Policy.pressured_at, s \in Policy.saturated_at : p <= s
    /\ \A e \in Policy.elevated_at, s \in Policy.saturated_at : e <= s
    /\ Policy.dropping_at \in 0..(Word - 1) /\ Policy.paused_at_frames \in Nat
    /\ Policy.paused_at_nanos \in Nat /\ Policy.marks_at \in Nat
    /\ Policy.fresh_within \in Nat \ {0}
    /\ Policy.aging_within >= Policy.fresh_within
    /\ Policy.stale_within >= Policy.aging_within
    /\ IsFiniteSet(CounterFields)

States == {"unknown", "idle", "normal", "elevated", "pressured", "saturated", "dropping",
           "paused", "stale", "conflicting"}

\* assess_freshness
FreshnessOf(age) ==
    IF age < Policy.fresh_within THEN "fresh"
    ELSE IF age < Policy.aging_within THEN "aging"
    ELSE IF age < Policy.stale_within THEN "stale"
    ELSE "expired"

\* permille_of: rounded up, and absent when the product leaves 64 bits.
PermilleOf(limit, permille) ==
    IF permille <= 1000 /\ limit * permille < Word
    THEN {(limit * permille + 999) \div 1000} ELSE {}

-----------------------------------------------------------------------------
(* resolve_pressure_basis *)

CellsBasis(v) ==
    "occupancy_cells" \in DOMAIN v /\ DOMAIN v \cap {"dynamic_threshold", "static_threshold"} # {}

PacketsBasis(v) == {"queue_depth", "max_depth"} \subseteq DOMAIN v

CellsLimit(v) ==
    IF "dynamic_threshold" \in DOMAIN v THEN v["dynamic_threshold"] ELSE v["static_threshold"]

\* The measurement that is compared with a fixed value of the policy.
AbsoluteField(v) ==
    IF ~Policy.allow_absolute
       \/ Policy.elevated_at \cup Policy.pressured_at \cup Policy.saturated_at = {} THEN {}
    ELSE IF "occupancy_cells" \in DOMAIN v THEN {"occupancy_cells"}
    ELSE IF Policy.allow_byte_basis THEN {"occupancy_bytes"} \cap DOMAIN v
    ELSE {}

\* What is compared with what, or nothing.
Basis(v) ==
    LET cells == [kind |-> "cells", value |-> v["occupancy_cells"], limit |-> CellsLimit(v)]
        packets == [kind |-> "packets", value |-> v["queue_depth"], limit |-> v["max_depth"]]
    IN IF CellsBasis(v) /\ (Policy.prefer_cells \/ ~PacketsBasis(v)) THEN {cells}
       ELSE IF PacketsBasis(v) THEN {packets}
       ELSE {[kind |-> "absolute", value |-> v[f], limit |-> 0] : f \in AbsoluteField(v)}

-----------------------------------------------------------------------------
(* classify *)

\* A threshold of the level rules: the policy's own value on an absolute
\* basis, a share of the reported limit otherwise.
Threshold(basis, absolute, permille) ==
    IF basis.kind = "absolute" THEN absolute ELSE PermilleOf(basis.limit, permille)

Reaches(basis, absolute, permille) ==
    \E t \in Threshold(basis, absolute, permille) : basis.value >= t

\* The window's advance of a counter is known and at least n.
Advanced(input, field, n) ==
    field \in CounterFields /\ input.sums[field].known /\ input.sums[field].delta >= n

FieldsMissing(reported) ==
    \/ ~ (Policy.required_fields \subseteq reported)
    \/ Policy.required_any # {} /\ Policy.required_any \cap reported = {}

\* Rules 6 to 12, once there is a basis.
Level(input, basis) ==
    IF Advanced(input, "drops", Policy.dropping_at) THEN "dropping"
    ELSE IF \/ Advanced(input, "pause_frames", Policy.paused_at_frames)
            \/ Advanced(input, "pause_nanos", Policy.paused_at_nanos) THEN "paused"
    ELSE IF Reaches(basis, Policy.saturated_at, Policy.saturated_permille) THEN "saturated"
    ELSE IF \/ Reaches(basis, Policy.pressured_at, Policy.pressured_permille)
            \/ Advanced(input, "marks", Policy.marks_at) THEN "pressured"
    ELSE IF Reaches(basis, Policy.elevated_at, Policy.elevated_permille) THEN "elevated"
    ELSE IF /\ basis.value = 0 /\ Advanced(input, "enqueues", 0)
            /\ input.sums["enqueues"].delta = 0 THEN "idle"
    ELSE "normal"

Classify(input) ==
    IF input.quality = "unknown" \/ DOMAIN input.values = {} THEN "unknown"
    ELSE IF input.conflict \/ input.quality = "conflicting" THEN "conflicting"
    ELSE IF input.quality = "unsupported" THEN "unknown"
    ELSE IF input.freshness # "fresh" THEN "stale"
    ELSE IF FieldsMissing(DOMAIN input.values) \/ Basis(input.values) = {} THEN "unknown"
    ELSE Level(input, CHOOSE b \in Basis(input.values) : TRUE)
=============================================================================
