--------------------------- MODULE MCObservatory ----------------------------
(* Model values and symmetry for the runs of Observatory. *)
EXTENDS Observatory, TLC

\* Workers differ only by name.
WorkerSymmetry == Permutations(Workers)
=============================================================================
