---------------------------- MODULE HistoryRing -----------------------------
(***************************************************************************)
(* The fixed-capacity ring a queue keeps its history in                    *)
(* (src/src/store/History.cpp): an array, the index of the oldest record,  *)
(* the number of records and the number evicted.  The event log of the     *)
(* store (record_event_global) is the same ring.                           *)
(*                                                                         *)
(* A record is its receive time.                                           *)
(***************************************************************************)
EXTENDS Integers, Sequences

CONSTANTS MaxCapacity, \* bound on the argument of reserve
          Times,       \* the receive times of the records pushed
          NoRecord,    \* a slot that holds a default-constructed record
          MaxEvicted   \* bound on the records evicted

ASSUME RingAssumption ==
    /\ MaxCapacity \in Nat
    /\ Times \subseteq Nat
    /\ MaxEvicted \in Nat
    /\ NoRecord \notin Times

VARIABLES capacity, storage, head, size, evicted

vars == <<capacity, storage, head, size, evicted>>

\* storage_ has the indices of the code: 0 .. capacity - 1.
Slots == 0..(capacity - 1)

\* A ring is constructed without slots,
Init ==
    /\ capacity = 0 /\ storage = [i \in Slots |-> NoRecord]
    /\ head = 0 /\ size = 0 /\ evicted = 0

\* reserve gives it n of them, and forgets what it kept.
Reserve(n) ==
    /\ capacity' = n /\ storage' = [i \in 0..(n - 1) |-> NoRecord]
    /\ head' = 0 /\ size' = 0 /\ evicted' = 0

Clear ==
    /\ head' = 0 /\ size' = 0 /\ evicted' = 0
    /\ UNCHANGED <<capacity, storage>>

\* push into a ring of capacity zero only counts
PushNowhere(r) ==
    /\ capacity = 0
    /\ evicted < MaxEvicted
    /\ evicted' = evicted + 1
    /\ UNCHANGED <<capacity, storage, head, size>>

PushRoom(r) ==
    /\ capacity # 0 /\ size < capacity
    /\ storage' = [storage EXCEPT ![(head + size) % capacity] = r]
    /\ size' = size + 1
    /\ UNCHANGED <<capacity, head, evicted>>

\* Mutant: the head does not move on when the oldest record is overwritten.
PushFullHeadStays(r) ==
    /\ capacity # 0 /\ size >= capacity /\ evicted < MaxEvicted
    /\ storage' = [storage EXCEPT ![head] = r]
    /\ evicted' = evicted + 1
    /\ UNCHANGED <<capacity, head, size>>

PushFull(r) ==
    /\ capacity # 0 /\ size >= capacity
    /\ evicted < MaxEvicted
    /\ storage' = [storage EXCEPT ![head] = r]
    /\ head' = (head + 1) % capacity
    /\ evicted' = evicted + 1
    /\ UNCHANGED <<capacity, size>>

Push(r) == PushNowhere(r) \/ PushRoom(r) \/ PushFull(r)

Next ==
    \/ \E n \in 0..MaxCapacity : Reserve(n)
    \/ \E r \in Times : Push(r)
    \/ Clear

Spec == Init /\ [][Next]_vars

\* at(index), index 0 being the oldest record
At(index) ==
    IF index >= size \/ capacity = 0 THEN NoRecord ELSE storage[(head + index) % capacity]

\* snapshot
Snapshot == [i \in 1..size |-> At(i - 1)]

\* Mutant: a record exactly at the cutoff ends the scan.
SinceStrict(cutoff) ==
    LET older == {i \in 1..size : At(i - 1) <= cutoff}
        stop == IF older = {} THEN 0 ELSE CHOOSE i \in older : \A j \in older : j <= i
    IN SubSeq(Snapshot, stop + 1, size)

\* since: scans from the newest record and stops at the first one that is
\* older than the cutoff.
Since(cutoff) ==
    LET older == {i \in 1..size : At(i - 1) < cutoff}
        stop == IF older = {} THEN 0 ELSE CHOOSE i \in older : \A j \in older : j <= i
    IN SubSeq(Snapshot, stop + 1, size)

-----------------------------------------------------------------------------
(* Properties *)

TypeOK ==
    /\ capacity \in 0..MaxCapacity
    /\ storage \in [Slots -> Times \cup {NoRecord}]
    /\ head \in Nat /\ size \in 0..capacity /\ evicted \in Nat
    /\ capacity # 0 => head \in Slots

\* A default-constructed record is never handed out: every slot the queries
\* reach has been written (History.cpp, at).
OnlyPushedRecordsVisible == \A i \in 1..size : Snapshot[i] \in Times

Ascending == \A i, j \in 1..size : i <= j => Snapshot[i] <= Snapshot[j]

\* As long as records are kept in ascending receive order, the scan of since
\* returns every retained record at or after the cutoff and no other, oldest
\* first.
SinceReturnsAllRecent ==
    Ascending => \A cutoff \in Times : \E n \in 0..size :
      /\ {i \in 1..size : Snapshot[i] >= cutoff} = (n + 1)..size
      /\ Since(cutoff) = [k \in 1..(size - n) |-> Snapshot[n + k]]

\* The ring keeps exactly the newest records in order and counts every one it
\* overwrites.
Bounded == INSTANCE BoundedHistory WITH Records <- Times, retained <- Snapshot

ImplementsBoundedHistory == Bounded!Spec
=============================================================================
