-------------------------- MODULE BoundedHistory ----------------------------
(***************************************************************************)
(* What a bounded history promises: it keeps the newest records in the     *)
(* order they were pushed, never more than its capacity, and counts every  *)
(* record it had to give up.                                               *)
(***************************************************************************)
EXTENDS Naturals, Sequences

CONSTANTS Records,     \* what may be pushed
          MaxCapacity  \* bound on the capacity

VARIABLES capacity,  \* the most records kept
          retained,  \* the records kept, oldest first
          evicted    \* how many were given up

vars == <<capacity, retained, evicted>>

Init == capacity = 0 /\ retained = <<>> /\ evicted = 0

PushRoom(r) ==
    /\ Len(retained) < capacity
    /\ retained' = Append(retained, r)
    /\ evicted' = evicted /\ capacity' = capacity

PushFull(r) ==
    /\ Len(retained) = capacity
    /\ retained' = IF capacity = 0 THEN <<>> ELSE Append(Tail(retained), r)
    /\ evicted' = evicted + 1 /\ capacity' = capacity

Clear == capacity' = capacity /\ retained' = <<>> /\ evicted' = 0

\* A new capacity: the history starts over.
Reserve(n) == capacity' = n /\ retained' = <<>> /\ evicted' = 0

Next ==
    \/ \E n \in 0..MaxCapacity : Reserve(n)
    \/ \E r \in Records : PushRoom(r) \/ PushFull(r)
    \/ Clear

Spec == Init /\ [][Next]_vars
=============================================================================
