----------------------------- MODULE MCCounter ------------------------------
(* Clock domains and the symmetry of the sources for the runs of            *)
(* CounterTracking.                                                         *)
EXTENDS CounterTracking, TLC

SameDomain == [s \in Sources |-> "device"]
SourceSymmetry == Permutations(Sources)
=============================================================================
