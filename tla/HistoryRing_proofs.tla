------------------------- MODULE HistoryRing_proofs -------------------------
(***************************************************************************)
(* Proofs about the history ring, for every capacity and every set of      *)
(* receive times: its types, that no slot is shown before it was written,  *)
(* that since is exact, and that it implements the bounded history.        *)
(***************************************************************************)
EXTENDS HistoryRing, SequenceTheorems, WellFoundedInduction, TLAPS

-----------------------------------------------------------------------------
(* Positions in a ring *)

\* Where an index at most one turn ahead comes out.
LEMMA ModuloTurn ==
    ASSUME NEW n \in Nat \ {0}, NEW a \in 0..(n - 1), NEW b \in 0..n
    PROVE  (a + b) % n = IF a + b < n THEN a + b ELSE a + b - n
OBVIOUS

\* The slot that at(index) reads.
Position(index) == IF head + index < capacity THEN head + index ELSE head + index - capacity

-----------------------------------------------------------------------------
(* The inductive invariant: types, and every slot in use has been written *)

Written == \A i \in 0..(size - 1) : storage[Position(i)] \in Times

IInv == TypeOK /\ Written

\* The slot the i-th record occupies, without the modulo of the code.
LEMMA PositionOfIndex ==
    ASSUME TypeOK, capacity # 0, NEW i \in 0..capacity
    PROVE  /\ (head + i) % capacity = Position(i)
           /\ Position(i) \in Slots
<1>1. capacity \in Nat \ {0} /\ head \in 0..(capacity - 1)
  BY RingAssumption DEF TypeOK, Slots
<1>2. (head + i) % capacity = IF head + i < capacity THEN head + i ELSE head + i - capacity
  BY <1>1, ModuloTurn, Zenon
<1> QED
  BY <1>1, <1>2 DEF Position, Slots

\* A ring without slots satisfies the inductive invariant.
LEMMA InitIInv == Init => IInv
<1> SUFFICES ASSUME Init PROVE IInv
  OBVIOUS
<1>1. TypeOK
  BY RingAssumption DEF Init, TypeOK, Slots
<1>2. Written
  BY DEF Init, Written
<1> QED
  BY <1>1, <1>2 DEF IInv

\* A push into a ring with room writes the slot behind the newest record.
LEMMA PushRoomIInv ==
    ASSUME IInv, NEW r \in Times, PushRoom(r)
    PROVE  IInv'
<1> USE RingAssumption
<1>0. /\ TypeOK /\ capacity \in Nat \ {0} /\ size \in 0..(capacity - 1)
      /\ head \in 0..(capacity - 1)
  BY DEF IInv, TypeOK, PushRoom, Slots
<1>1. /\ Position(size) \in Slots
      /\ storage' = [storage EXCEPT ![Position(size)] = r]
  <2>1. (head + size) % capacity = Position(size) /\ Position(size) \in Slots
    BY <1>0, PositionOfIndex
  <2> QED
    BY <2>1 DEF PushRoom
<1>2. TypeOK'
  BY <1>0, <1>1 DEF TypeOK, PushRoom, Slots
<1>3. Written'
  <2> SUFFICES ASSUME NEW i \in 0..size
               PROVE  storage'[Position(i)] \in Times
    BY <1>0 DEF Written, PushRoom, Position
  <2>1. CASE i = size
    BY <1>0, <1>1, <2>1 DEF TypeOK, Slots
  <2>2. CASE i < size
    <3>1. storage[Position(i)] \in Times
      BY <1>0, <2>2 DEF IInv, Written
    <3>2. Position(i) # Position(size) /\ Position(i) \in Slots
      BY <1>0, <2>2 DEF Position, Slots
    <3> QED
      BY <1>0, <1>1, <3>1, <3>2 DEF TypeOK
  <2> QED
    BY <1>0, <2>1, <2>2
<1> QED
  BY <1>2, <1>3 DEF IInv

\* A push into a full ring overwrites the oldest record, which becomes the newest.
LEMMA PushFullIInv ==
    ASSUME IInv, NEW r \in Times, PushFull(r)
    PROVE  IInv'
<1> USE RingAssumption
<1>0. /\ TypeOK /\ capacity \in Nat \ {0} /\ size = capacity /\ head \in 0..(capacity - 1)
  BY DEF IInv, TypeOK, PushFull, Slots
<1>1. capacity' = capacity /\ head' = IF head + 1 < capacity THEN head + 1 ELSE 0
  <2>1. (head + 1) % capacity = Position(1)
    BY <1>0, PositionOfIndex
  <2> QED
    BY <1>0, <2>1 DEF PushFull, Position
<1>2. TypeOK'
  BY <1>0, <1>1 DEF TypeOK, PushFull, Slots
<1>3. Written'
  <2> SUFFICES ASSUME NEW i \in 0..(size - 1)
               PROVE  storage'[Position(i)'] \in Times
    BY <1>0 DEF Written, PushFull
  <2>1. Position(i)' \in Slots
    BY <1>0, <1>1 DEF Position, Slots
  <2>2. CASE Position(i)' = head
    BY <1>0, <2>2 DEF PushFull, TypeOK, Slots
  <2>3. CASE Position(i)' # head
    <3>1. i + 1 \in 0..(size - 1) /\ Position(i)' = Position(i + 1)
      BY <1>0, <1>1, <2>3 DEF Position
    <3>2. storage[Position(i + 1)] \in Times
      BY <3>1 DEF IInv, Written
    <3> QED
      BY <1>0, <2>1, <2>3, <3>1, <3>2 DEF PushFull, TypeOK
  <2> QED
    BY <2>2, <2>3
<1> QED
  BY <1>2, <1>3 DEF IInv

\* Every operation of the ring preserves the inductive invariant.
LEMMA NextIInv == IInv /\ [Next]_vars => IInv'
<1> SUFFICES ASSUME IInv, [Next]_vars PROVE IInv'
  OBVIOUS
<1> USE RingAssumption
<1>0. ASSUME NEW n \in 0..MaxCapacity, Reserve(n) PROVE IInv'
  BY <1>0 DEF IInv, TypeOK, Written, Reserve, Slots
<1>1. ASSUME NEW r \in Times, PushNowhere(r) PROVE IInv'
  BY <1>1 DEF IInv, TypeOK, Written, Position, PushNowhere, Slots
<1>2. ASSUME NEW r \in Times, PushRoom(r) PROVE IInv'
  BY <1>2, PushRoomIInv
<1>3. ASSUME NEW r \in Times, PushFull(r) PROVE IInv'
  BY <1>3, PushFullIInv
<1>4. CASE Clear
  BY <1>4 DEF IInv, TypeOK, Written, Clear, Slots
<1>5. CASE UNCHANGED vars
  BY <1>5 DEF IInv, TypeOK, Written, Position, vars, Slots
<1> QED
  BY <1>0, <1>1, <1>2, <1>3, <1>4, <1>5 DEF Next, Push

\* The ring's indices stay inside its array and its size inside its capacity.
THEOREM RingTypes == Spec => []TypeOK
<1>1. IInv => TypeOK
  BY DEF IInv
<1> QED
  BY <1>1, InitIInv, NextIInv, PTL DEF Spec

\* What the ring shows are records that were pushed.
LEMMA ShownArePushed ==
    ASSUME IInv
    PROVE  OnlyPushedRecordsVisible
<1> SUFFICES ASSUME NEW i \in 1..size PROVE Snapshot[i] \in Times
  BY DEF OnlyPushedRecordsVisible
<1>1. TypeOK /\ capacity # 0 /\ i - 1 \in 0..capacity /\ i - 1 \in 0..(size - 1)
  BY RingAssumption DEF IInv, TypeOK
<1>2. Snapshot[i] = storage[Position(i - 1)]
  BY <1>1, PositionOfIndex DEF Snapshot, At, TypeOK
<1> QED
  BY <1>1, <1>2 DEF IInv, Written

\* at and snapshot hand out only records that were pushed, whatever the
\* sequence of pushes and clears before.
THEOREM RingShowsOnlyPushed == Spec => []OnlyPushedRecordsVisible
<1>1. IInv => OnlyPushedRecordsVisible
  BY ShownArePushed
<1> QED
  BY <1>1, InitIInv, NextIInv, PTL DEF Spec

-----------------------------------------------------------------------------
(* The ring implements the bounded history *)

\* A sequence that extends another by one element.
LEMMA AppendByIndex ==
    ASSUME NEW S, NEW s \in Seq(S), NEW t \in Seq(S), NEW e \in S,
           Len(t) = Len(s) + 1, \A i \in 1..Len(s) : t[i] = s[i], t[Len(s) + 1] = e
    PROVE  t = Append(s, e)
<1>1. /\ Append(s, e) \in Seq(S) /\ Len(Append(s, e)) = Len(t)
  OBVIOUS
<1>2. \A i \in 1..Len(t) : t[i] = Append(s, e)[i]
  OBVIOUS
<1> QED
  BY <1>1, <1>2, SeqEqual

\* What a reader of the ring sees, by position.
SnapshotShape ==
    /\ Snapshot = [i \in 1..size |-> storage[Position(i - 1)]]
    /\ Snapshot \in Seq(Times)
    /\ Len(Snapshot) = size
    /\ size \in 0..capacity

\* What snapshot returns, index by index.
LEMMA SnapshotByPosition == IInv => SnapshotShape
<1> SUFFICES ASSUME IInv PROVE SnapshotShape
  OBVIOUS
<1>1. size \in 0..capacity /\ capacity \in Nat
  BY RingAssumption DEF IInv, TypeOK
<1>2. ASSUME NEW i \in 1..size
      PROVE  /\ At(i - 1) = storage[Position(i - 1)]
             /\ storage[Position(i - 1)] \in Times
  <2>1. TypeOK /\ capacity # 0 /\ i - 1 \in 0..capacity /\ i - 1 \in 0..(size - 1)
    BY <1>1 DEF IInv
  <2>2. (head + (i - 1)) % capacity = Position(i - 1)
    BY <2>1, PositionOfIndex
  <2>3. At(i - 1) = storage[Position(i - 1)]
    BY <1>1, <2>1, <2>2 DEF At
  <2> QED
    BY <2>1, <2>3 DEF IInv, Written
<1>3. Snapshot = [i \in 1..size |-> storage[Position(i - 1)]]
  BY <1>2 DEF Snapshot
<1> QED
  BY <1>1, <1>2, <1>3 DEF SnapshotShape

\* A push into a ring with room appends a record to the abstract history.
LEMMA PushRoomRefines ==
    ASSUME IInv, NEW r \in Times, PushRoom(r)
    PROVE  Bounded!PushRoom(r)
<1>1. IInv'
  BY PushRoomIInv
<1>2. /\ capacity \in Nat \ {0} /\ size \in 0..(capacity - 1) /\ head \in 0..(capacity - 1)
      /\ storage \in [Slots -> Times \cup {NoRecord}]
  BY RingAssumption DEF IInv, TypeOK, PushRoom, Slots
<1>3. storage' = [storage EXCEPT ![Position(size)] = r]
  <2>1. (head + size) % capacity = Position(size)
    BY <1>2, PositionOfIndex DEF IInv
  <2> QED
    BY <2>1 DEF PushRoom
<1>4. Snapshot' = Append(Snapshot, r)
  <2>1. /\ Snapshot' = [i \in 1..(size + 1) |-> storage'[Position(i - 1)]]
        /\ Snapshot' \in Seq(Times) /\ Len(Snapshot') = size + 1
    <3>1. SnapshotShape'
      BY <1>1, SnapshotByPosition, PTL
    <3> QED
      BY <1>2, <3>1 DEF SnapshotShape, PushRoom, Position
  <2>2. /\ Snapshot = [i \in 1..size |-> storage[Position(i - 1)]]
        /\ Snapshot \in Seq(Times) /\ Len(Snapshot) = size
    BY SnapshotByPosition DEF SnapshotShape
  <2>3. ASSUME NEW i \in 1..size PROVE Snapshot'[i] = Snapshot[i]
    <3>1. Position(i - 1) # Position(size) /\ Position(i - 1) \in Slots
      BY <1>2 DEF Position, Slots
    <3> QED
      BY <1>2, <1>3, <2>1, <2>2, <3>1
  <2>4. Snapshot'[size + 1] = r
    BY <1>2, <1>3, <2>1 DEF Position, Slots
  <2> DEFINE old == Snapshot
             new == Snapshot'
  <2>5. /\ old \in Seq(Times) /\ new \in Seq(Times)
        /\ Len(new) = Len(old) + 1 /\ new[Len(old) + 1] = r
        /\ \A i \in 1..Len(old) : new[i] = old[i]
    BY <2>1, <2>2, <2>3, <2>4
  <2> HIDE DEF old, new
  <2>6. new = Append(old, r)
    BY <2>5, AppendByIndex
  <2> QED
    BY <2>6 DEF old, new
<1> QED
  BY <1>2, <1>4, SnapshotByPosition DEF SnapshotShape, Bounded!PushRoom, PushRoom

\* A push into a full ring drops the oldest record of the abstract history.
LEMMA PushFullRefines ==
    ASSUME IInv, NEW r \in Times, PushFull(r)
    PROVE  Bounded!PushFull(r)
<1>1. IInv'
  BY PushFullIInv
<1>2. /\ capacity \in Nat \ {0} /\ size = capacity /\ head \in 0..(capacity - 1)
      /\ storage \in [Slots -> Times \cup {NoRecord}]
  BY RingAssumption DEF IInv, TypeOK, PushFull, Slots
<1>3. capacity' = capacity /\ head' = IF head + 1 < capacity THEN head + 1 ELSE 0
  <2>1. (head + 1) % capacity = Position(1)
    BY <1>2, PositionOfIndex DEF IInv
  <2> QED
    BY <1>2, <2>1 DEF PushFull, Position
<1>4. Snapshot' = Append(Tail(Snapshot), r)
  <2>1. /\ Snapshot' = [i \in 1..size |-> storage'[Position(i - 1)']]
        /\ Snapshot' \in Seq(Times) /\ Len(Snapshot') = size
    <3>1. SnapshotShape'
      BY <1>1, SnapshotByPosition, PTL
    <3> QED
      BY <3>1 DEF SnapshotShape, PushFull
  <2>2. /\ Snapshot = [i \in 1..size |-> storage[Position(i - 1)]]
        /\ Snapshot \in Seq(Times) /\ Len(Snapshot) = size
    BY SnapshotByPosition DEF SnapshotShape
  <2>3. ASSUME NEW i \in 1..(size - 1) PROVE Snapshot'[i] = Snapshot[i + 1]
    <3>1. Position(i - 1)' = Position(i) /\ Position(i) # head /\ Position(i) \in Slots
      BY <1>2, <1>3 DEF Position, Slots
    <3>2. storage'[Position(i)] = storage[Position(i)]
      BY <1>2, <3>1 DEF PushFull
    <3> QED
      BY <1>2, <2>1, <2>2, <3>1, <3>2
  <2>4. Snapshot'[size] = r
    <3>1. Position(size - 1)' = head
      BY <1>2, <1>3 DEF Position, PushFull
    <3> QED
      BY <1>2, <2>1, <3>1 DEF PushFull, Slots
  <2>5. /\ Tail(Snapshot) \in Seq(Times) /\ Len(Tail(Snapshot)) = size - 1
        /\ \A i \in 1..(size - 1) : Tail(Snapshot)[i] = Snapshot[i + 1]
    BY <1>2, <2>2
  <2> DEFINE old == Tail(Snapshot)
             new == Snapshot'
  <2>6. /\ Len(new) = Len(old) + 1 /\ new[Len(old) + 1] = r
    BY <1>2, <2>1, <2>4, <2>5
  <2>7. \A i \in 1..Len(old) : new[i] = old[i]
    BY <2>3, <2>5
  <2>8. old \in Seq(Times) /\ new \in Seq(Times)
    BY <2>1, <2>5
  <2> HIDE DEF old, new
  <2>9. new = Append(old, r)
    BY <2>6, <2>7, <2>8, AppendByIndex
  <2> QED
    BY <2>9 DEF old, new
<1> QED
  BY <1>2, <1>4, SnapshotByPosition DEF SnapshotShape, Bounded!PushFull, PushFull

\* The array with its moving head implements the abstract history: it keeps
\* exactly the newest records, in order, and counts each one it overwrites.
THEOREM RingImplementsHistory == Spec => ImplementsBoundedHistory
<1>1. Init => Bounded!Init
  BY DEF Init, Bounded!Init, Snapshot
<1>2. IInv /\ [Next]_vars => [Bounded!Next]_(Bounded!vars)
  <2> SUFFICES ASSUME IInv, [Next]_vars PROVE [Bounded!Next]_(Bounded!vars)
    OBVIOUS
  <2>0. ASSUME NEW n \in 0..MaxCapacity, Reserve(n) PROVE Bounded!Reserve(n)
    BY <2>0 DEF Reserve, Snapshot, Bounded!Reserve
  <2>1. ASSUME NEW r \in Times, PushNowhere(r) PROVE Bounded!PushFull(r)
    <3>1. size = 0 /\ Snapshot = <<>> /\ Snapshot' = <<>>
      BY <2>1, RingAssumption DEF IInv, TypeOK, PushNowhere, Snapshot
    <3> QED
      BY <2>1, <3>1 DEF PushNowhere, Bounded!PushFull
  <2>2. ASSUME NEW r \in Times, PushRoom(r) PROVE Bounded!PushRoom(r)
    BY <2>2, PushRoomRefines
  <2>3. ASSUME NEW r \in Times, PushFull(r) PROVE Bounded!PushFull(r)
    BY <2>3, PushFullRefines
  <2>4. CASE Clear
    BY <2>4 DEF Clear, Snapshot, Bounded!Next, Bounded!Clear
  <2>5. CASE UNCHANGED vars
    BY <2>5 DEF vars, Bounded!vars, Snapshot, At
  <2> QED
    BY <2>0, <2>1, <2>2, <2>3, <2>4, <2>5 DEF Next, Push, Bounded!Next
<1> QED
  BY <1>1, <1>2, InitIInv, NextIInv, PTL
     DEF Spec, ImplementsBoundedHistory, Bounded!Spec

-----------------------------------------------------------------------------
(* The scan of since *)

\* A set of indices has a last one: the least of its upper bounds.
LEMMA LastIndex ==
    ASSUME NEW n \in Nat, NEW S, S \subseteq 1..n, S # {}
    PROVE  \E i \in S : \A j \in S : j <= i
<1> DEFINE R == OpToRel(<, Nat)
           U == {m \in Nat : \A j \in S : j <= m}
<1>1. IsWellFoundedOn(R, Nat)
  BY NatLessThanWellFounded
<1>2. R = {ss \in Nat \X Nat : ss[1] < ss[2]}
  BY DEF OpToRel
<1>3. U \subseteq Nat /\ n \in U
  OBVIOUS
<1> HIDE DEF R
<1>4. PICK m \in U : \A y \in U : ~(<<y, m>> \in R)
  <2> HIDE DEF U
  <2> QED
    BY <1>1, <1>3, WFMin
<1>5. m \in Nat \ {0} /\ \A j \in S : j <= m
  <2>1. PICK j \in S : j \in 1..n
    OBVIOUS
  <2> QED
    BY <1>4, <2>1
<1>6. m \in S
  <2> SUFFICES ASSUME m \notin S PROVE FALSE
    OBVIOUS
  <2>1. \A j \in S : j <= m - 1
    BY <1>5
  <2>2. m - 1 \in U /\ <<m - 1, m>> \in R
    BY <1>2, <1>5, <2>1
  <2> QED
    BY <1>4, <2>2
<1> QED
  BY <1>5, <1>6

\* since misses no recent record and returns no old one: scanning from the
\* newest end up to the first record before the cutoff is exact while the ring
\* is in ascending receive order, for every capacity and every cutoff.
THEOREM RingSinceExact == Spec => []SinceReturnsAllRecent
<1>1. ASSUME IInv PROVE SinceReturnsAllRecent
  <2> SUFFICES ASSUME Ascending, NEW cutoff \in Times
               PROVE  \E n \in 0..size :
                        /\ {i \in 1..size : Snapshot[i] >= cutoff} = (n + 1)..size
                        /\ Since(cutoff) = [k \in 1..(size - n) |-> Snapshot[n + k]]
    BY DEF SinceReturnsAllRecent
  <2> DEFINE older == {i \in 1..size : At(i - 1) < cutoff}
             stop == IF older = {} THEN 0 ELSE CHOOSE i \in older : \A j \in older : j <= i
  <2>1. size \in Nat /\ cutoff \in Nat
    BY <1>1, RingAssumption DEF IInv, TypeOK
  <2>2. \A i \in 1..size : Snapshot[i] \in Nat /\ Snapshot[i] = At(i - 1)
    <3>1. OnlyPushedRecordsVisible
      BY <1>1, ShownArePushed
    <3> QED
      BY <3>1, RingAssumption DEF OnlyPushedRecordsVisible, Snapshot
  <2>3. older = {i \in 1..size : Snapshot[i] < cutoff}
    BY <2>2
  <2>4. \A i, j \in 1..size : i <= j => Snapshot[i] <= Snapshot[j]
    BY DEF Ascending
  <2>5. Since(cutoff) = SubSeq(Snapshot, stop + 1, size)
    BY DEF Since
  <2>6. stop \in 0..size /\ \A i \in 1..size : Snapshot[i] < cutoff <=> i <= stop
    <3>1. CASE older = {}
      BY <2>1, <2>3, <3>1
    <3>2. CASE older # {}
      <4>1. \E i \in older : \A j \in older : j <= i
        <5>1. older \subseteq 1..size
          OBVIOUS
        <5> HIDE DEF older
        <5> QED
          BY <2>1, <3>2, <5>1, LastIndex
      <4>2. stop \in older /\ \A j \in older : j <= stop
        BY <3>2, <4>1
      <4> HIDE DEF stop
      <4>3. stop \in 1..size /\ Snapshot[stop] < cutoff
        BY <2>3, <4>2
      <4>4. ASSUME NEW i \in 1..size PROVE Snapshot[i] < cutoff <=> i <= stop
        <5>1. CASE i <= stop
          BY <2>1, <2>2, <2>4, <4>3, <5>1
        <5>2. CASE ~(i <= stop)
          <6>1. i \notin older
            BY <4>2, <5>2
          <6> QED
            BY <2>3, <5>2, <6>1
        <5> QED
          BY <5>1, <5>2
      <4> QED
        BY <2>1, <4>3, <4>4
    <3> QED
      BY <3>1, <3>2
  <2> HIDE DEF stop, older
  <2>7. {i \in 1..size : Snapshot[i] >= cutoff} = (stop + 1)..size
    BY <2>1, <2>2, <2>6
  <2>8. SubSeq(Snapshot, stop + 1, size) = [k \in 1..(size - stop) |-> Snapshot[stop + k]]
    <3> DEFINE t == SubSeq(Snapshot, stop + 1, size)
    <3>1. /\ stop + 1 \in Int /\ size \in Int /\ stop \in 0..size
          /\ \A i \in (stop + 1)..size : Snapshot[i] \in Nat
      BY <2>1, <2>2, <2>6
    <3>2. /\ t \in Seq(Nat)
          /\ Len(t) = IF stop + 1 <= size THEN size - (stop + 1) + 1 ELSE 0
          /\ \A i \in 1..(size - (stop + 1) + 1) : t[i] = Snapshot[(stop + 1) + i - 1]
      BY <3>1, SubSeqProperties
    <3> HIDE DEF t
    <3>3. /\ Len(t) = size - stop /\ size - (stop + 1) + 1 = size - stop
          /\ \A i \in 1..(size - stop) : (stop + 1) + i - 1 = stop + i
      BY <3>1, <3>2
    <3>4. t = [i \in 1..(size - stop) |-> t[i]]
      BY <3>2, <3>3
    <3>5. \A i \in 1..(size - stop) : t[i] = Snapshot[stop + i]
      BY <3>2, <3>3
    <3> QED
      BY <3>4, <3>5 DEF t
  <2> QED
    BY <2>5, <2>6, <2>7, <2>8
<1> QED
  BY <1>1, InitIInv, NextIInv, PTL DEF Spec
=============================================================================
