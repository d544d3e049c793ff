------------------------- MODULE Persistence_proofs -------------------------
(***************************************************************************)
(* Proofs that every directory a power loss may leave behind holds only    *)
(* whole segments, numbered in the order of their snapshots; that writing  *)
(* never loses the last readable segment; and that the directory           *)
(* implements a store of the last snapshot published.                      *)
(***************************************************************************)
EXTENDS Persistence, FiniteSetTheorems, WellFoundedInduction, TLAPS

\* What holds of every directory that may survive, given the last snapshot
\* written and the synced ones.  A sequence number never exceeds the number of
\* the snapshot it is given to: this is what bounds next_sequence_ after open.
Good(d, top, done) ==
    /\ IsDirectory(d, top)
    /\ \A n \in DOMAIN d.segs : d.segs[n] \in done /\ n <= d.segs[n]
    /\ OpensFirst => \A m, n \in DOMAIN d.segs : m < n => d.segs[m] < d.segs[n]

\* The scalar variables have their types.
Scalars ==
    /\ last \in 0..MaxSnapshots /\ next \in 0..(last + 1) /\ crashes \in 0..MaxCrashes
    /\ opened \in BOOLEAN /\ pc \in Steps
    /\ synced \subseteq 1..last /\ damaged \subseteq 1..last

\* After open, the next sequence number is above every one in use.
Fresh == opened => \A m \in DOMAIN dir.segs : m < next

InWrite == {"written", "synced", "retry"}

\* A write under way owns the temporary file of its number, and its snapshot is
\* newer than any segment that may survive and undamaged.
Writing ==
    pc \in InWrite =>
        /\ OpensFirst => opened
        /\ next <= last /\ 1 <= last
        /\ next \in DOMAIN dir.temps /\ dir.temps[next] = last
        /\ \A d \in stable : \A n \in DOMAIN d.segs : d.segs[n] < last
        /\ last \notin damaged
        /\ pc # "written" => last \in synced

\* The inductive invariant
IInv ==
    /\ Scalars
    /\ dir \in stable
    /\ \A d \in stable : Good(d, last, synced)
    /\ Fresh
    /\ Writing

-----------------------------------------------------------------------------
(* Directory operations *)

\* More snapshots written and synced leave a good directory good.
LEMMA GoodGrows ==
    ASSUME NEW d, NEW t \in Nat, NEW u \in Nat, t <= u, NEW S, NEW T, S \subseteq T,
           Good(d, t, S)
    PROVE  Good(d, u, T)
  BY DEF Good, IsDirectory, IsFiles

\* Removing a segment keeps a directory good (rotation, clear, failed rename).
LEMMA GoodWithoutSegment ==
    ASSUME NEW d, NEW t \in Nat, NEW S, NEW n, Good(d, t, S)
    PROVE  Good([segs |-> Without(d.segs, n), temps |-> d.temps], t, S)
  <1> DEFINE e == [segs |-> Without(d.segs, n), temps |-> d.temps]
  <1>1. /\ DOMAIN e.segs = DOMAIN d.segs \ {n}
        /\ \A m \in DOMAIN e.segs : e.segs[m] = d.segs[m]
        /\ e.segs = [m \in DOMAIN e.segs |-> e.segs[m]]
    BY DEF Without
  <1>2. e.temps = d.temps /\ e = [segs |-> e.segs, temps |-> e.temps]
    OBVIOUS
  <1> QED BY <1>1, <1>2 DEF Good, IsDirectory, IsFiles

\* Removing a temporary file keeps a directory good.
LEMMA GoodWithoutTemp ==
    ASSUME NEW d, NEW t \in Nat, NEW S, NEW n, Good(d, t, S)
    PROVE  Good([segs |-> d.segs, temps |-> Without(d.temps, n)], t, S)
  <1> DEFINE e == [segs |-> d.segs, temps |-> Without(d.temps, n)]
  <1>1. /\ DOMAIN e.temps = DOMAIN d.temps \ {n}
        /\ \A m \in DOMAIN e.temps : e.temps[m] = d.temps[m]
        /\ e.temps = [m \in DOMAIN e.temps |-> e.temps[m]]
    BY DEF Without
  <1>2. e.segs = d.segs /\ e = [segs |-> e.segs, temps |-> e.temps]
    OBVIOUS
  <1> QED BY <1>1, <1>2 DEF Good, IsDirectory, IsFiles

\* Creating a temporary file keeps a directory good.
LEMMA GoodWithTemp ==
    ASSUME NEW d, NEW t \in Nat, NEW S, NEW n \in Nat, NEW s \in 1..t, Good(d, t, S)
    PROVE  Good([segs |-> d.segs, temps |-> With(d.temps, n, s)], t, S)
  <1> DEFINE e == [segs |-> d.segs, temps |-> With(d.temps, n, s)]
  <1>1. /\ DOMAIN e.temps = DOMAIN d.temps \cup {n}
        /\ \A m \in DOMAIN e.temps : e.temps[m] = IF m = n THEN s ELSE d.temps[m]
        /\ e.temps = [m \in DOMAIN e.temps |-> e.temps[m]]
    BY DEF With
  <1>2. e.segs = d.segs /\ e = [segs |-> e.segs, temps |-> e.temps]
    OBVIOUS
  <1> QED BY <1>1, <1>2 DEF Good, IsDirectory, IsFiles

\* Renaming a synced temporary file to a number above all others, for a
\* snapshot newer than all others, keeps a directory good.
LEMMA GoodPublished ==
    ASSUME NEW d, NEW t \in Nat, NEW S, NEW n \in Nat,
           Good(d, t, S), t \in S, 1 <= t, n <= t,
           OpensFirst => \A m \in DOMAIN d.segs : m < n,
           \A m \in DOMAIN d.segs : d.segs[m] < t
    PROVE  Good([segs |-> With(d.segs, n, t), temps |-> Without(d.temps, n)], t, S)
  <1> DEFINE e == [segs |-> With(d.segs, n, t), temps |-> Without(d.temps, n)]
  <1>1. /\ DOMAIN e.segs = DOMAIN d.segs \cup {n}
        /\ \A m \in DOMAIN e.segs : e.segs[m] = IF m = n THEN t ELSE d.segs[m]
        /\ e.segs = [m \in DOMAIN e.segs |-> e.segs[m]]
    BY DEF With
  <1>2. /\ DOMAIN e.temps = DOMAIN d.temps \ {n}
        /\ \A m \in DOMAIN e.temps : e.temps[m] = d.temps[m]
        /\ e.temps = [m \in DOMAIN e.temps |-> e.temps[m]]
    BY DEF Without
  <1>3. e = [segs |-> e.segs, temps |-> e.temps]
    OBVIOUS
  <1>4. DOMAIN d.segs \subseteq Nat /\ \A m \in DOMAIN d.segs : d.segs[m] \in 1..t
    BY DEF Good, IsDirectory, IsFiles
  <1>5. IsDirectory(e, t)
    BY <1>1, <1>2, <1>3 DEF Good, IsDirectory, IsFiles
  <1>6. \A m \in DOMAIN e.segs : e.segs[m] \in S /\ m <= e.segs[m]
    BY <1>1 DEF Good
  <1>7. OpensFirst => \A l, m \in DOMAIN e.segs : l < m => e.segs[l] < e.segs[m]
    BY <1>1, <1>4 DEF Good
  <1> HIDE DEF e
  <1>8. QED BY <1>5, <1>6, <1>7 DEF Good, e

-----------------------------------------------------------------------------
(* The invariant holds initially and is preserved by every action *)

LEMMA InitIInv == Init => IInv
  <1> SUFFICES ASSUME Init PROVE IInv
    OBVIOUS
  <1>1. Scalars
    <2>1. opened \in BOOLEAN /\ pc \in Steps
      BY DEF Init, Steps
    <2>2. /\ last \in 0..MaxSnapshots /\ next \in 0..(last + 1) /\ crashes \in 0..MaxCrashes
          /\ synced \subseteq 1..last /\ damaged \subseteq 1..last
      BY PersistenceAssumption DEF Init
    <2> QED BY <2>1, <2>2 DEF Scalars
  <1>2. DOMAIN Empty = {} /\ Empty = [n \in DOMAIN Empty |-> Empty[n]]
    BY DEF Empty
  <1>3. dir = [segs |-> Empty, temps |-> Empty] /\ stable = {dir}
    BY DEF Init
  <1>4. Good(dir, last, synced)
    BY <1>2, <1>3 DEF Good, IsDirectory, IsFiles
  <1>5. Fresh /\ Writing
    BY DEF Init, Fresh, Writing, InWrite
  <1> QED BY <1>1, <1>3, <1>4, <1>5 DEF IInv

\* The facts about numbers that every action below uses
LEMMA Bounds ==
    ASSUME IInv
    PROVE  /\ last \in Nat /\ next \in Nat
           /\ Good(dir, last, synced)
           /\ DOMAIN dir.segs \subseteq Nat
           /\ \A n \in DOMAIN dir.segs : dir.segs[n] \in 1..last /\ n <= dir.segs[n]
  <1>1. last \in Nat /\ next \in Nat
    BY PersistenceAssumption DEF IInv, Scalars
  <1>2. Good(dir, last, synced)
    BY DEF IInv
  <1>3. IsFiles(dir.segs, last) /\ \A n \in DOMAIN dir.segs : n <= dir.segs[n]
    BY <1>2 DEF Good, IsDirectory
  <1> QED BY <1>1, <1>2, <1>3 DEF IsFiles

\* open: the number it finds is at most one above the snapshots written.
LEMMA OpenIInv == ASSUME IInv, Open PROVE IInv'
  <1> USE Bounds
  <1>1. PICK n \in 1..(MaxSnapshots + 1) :
            /\ \A m \in DOMAIN dir.segs : m < n
            /\ n = 1 \/ n - 1 \in DOMAIN dir.segs
            /\ next' = n
    BY DEF Open
  <1>2. next' \in 0..(last + 1)
    BY <1>1
  <1>3. Scalars' /\ Fresh'
    BY <1>1, <1>2 DEF Open, IInv, Scalars, Fresh
  <1>4. Writing'
    BY DEF Open, Writing, InWrite
  <1> QED BY <1>3, <1>4 DEF IInv, Open

LEMMA WriteTempIInv == ASSUME IInv, WriteTemp PROVE IInv'
  <1> USE Bounds, PersistenceAssumption
  <1> DEFINE e == [segs |-> dir.segs, temps |-> With(dir.temps, next, last + 1)]
  <1>1. dir' = e /\ stable' = stable \cup {e} /\ last' = last + 1 /\ last' \in Nat
    BY DEF WriteTemp, Change
  <1>2. \A d \in stable : Good(d, last + 1, synced)
    BY GoodGrows DEF IInv
  <1>3. Good(e, last + 1, synced)
    <2>1. Good(dir, last + 1, synced)
      BY <1>2 DEF IInv
    <2> QED BY <2>1, GoodWithTemp
  <1>4. \A d \in stable' : Good(d, last', synced')
    BY <1>1, <1>2, <1>3 DEF WriteTemp
  <1>5. Scalars'
    BY DEF WriteTemp, IInv, Scalars, Steps
  <1>6. Fresh'
    BY <1>1 DEF WriteTemp, IInv, Fresh
  <1>7. Writing'
    <2>1. next \in DOMAIN e.temps /\ e.temps[next] = last + 1 /\ e.segs = dir.segs
      BY DEF With
    <2>2. \A d \in stable : \A n \in DOMAIN d.segs : d.segs[n] < last + 1
      <3> SUFFICES ASSUME NEW d \in stable, NEW n \in DOMAIN d.segs PROVE d.segs[n] < last + 1
        OBVIOUS
      <3>1. IsFiles(d.segs, last)
        BY DEF IInv, Good, IsDirectory
      <3>2. d.segs[n] \in 1..last
        BY <3>1 DEF IsFiles
      <3> QED BY <3>2
    <2>3. last + 1 \notin damaged
      BY DEF IInv, Scalars
    <2> HIDE DEF e
    <2>4. \A d \in stable' : \A n \in DOMAIN d.segs : d.segs[n] < last'
      BY <1>1, <2>1, <2>2 DEF IInv
    <2>5. next <= last + 1 /\ 1 <= last + 1
      BY DEF IInv, Scalars
    <2> QED BY <1>1, <2>1, <2>3, <2>4, <2>5 DEF WriteTemp, Writing, InWrite
  <1> QED BY <1>1, <1>4, <1>5, <1>6, <1>7 DEF IInv

\* Removing a segment or a temporary file, outside of a write
LEMMA RemovalIInv ==
    ASSUME IInv, NEW n,
           \/ Change(Without(dir.segs, n), dir.temps)
           \/ Change(dir.segs, Without(dir.temps, n)),
           pc' \in Steps, pc' \notin InWrite,
           UNCHANGED <<synced, damaged, next, opened, last, crashes>>
    PROVE  IInv'
  <1> USE Bounds
  <1>1. /\ Good(dir', last, synced)
        /\ stable' = stable \cup {dir'}
        /\ \A m \in DOMAIN dir'.segs : m \in DOMAIN dir.segs
    <2>1. CASE Change(Without(dir.segs, n), dir.temps)
      BY <2>1, GoodWithoutSegment DEF Change, Without
    <2>2. CASE Change(dir.segs, Without(dir.temps, n))
      BY <2>2, GoodWithoutTemp DEF Change
    <2> QED BY <2>1, <2>2
  <1>2. Scalars' /\ Writing'
    BY DEF IInv, Scalars, Writing
  <1>3. Fresh'
    BY <1>1 DEF IInv, Fresh
  <1> QED BY <1>1, <1>2, <1>3 DEF IInv

\* Steps that change only pc, and leave or stay out of a write
LEMMA PcIInv ==
    ASSUME IInv, pc' \in Steps, pc' \notin InWrite,
           UNCHANGED <<dir, stable, synced, damaged, next, opened, last, crashes>>
    PROVE  IInv'
  BY DEF IInv, Scalars, Fresh, Writing

LEMMA WriteFailsIInv == ASSUME IInv, WriteFails PROVE IInv'
  <1>1. pc' \in Steps /\ pc' \notin InWrite
    BY DEF WriteFails, Steps, InWrite
  <1>2. CASE Change(dir.segs, Without(dir.temps, next))
    BY <1>1, <1>2, RemovalIInv DEF WriteFails
  <1>3. CASE UNCHANGED <<dir, stable>>
    BY <1>1, <1>3, PcIInv DEF WriteFails
  <1> QED BY <1>2, <1>3 DEF WriteFails

LEMMA SyncIInv == ASSUME IInv, Sync PROVE IInv'
  <1> USE Bounds
  <1>1. last \in 1..last
    BY DEF Sync, IInv, Writing, InWrite
  <1>2. Scalars'
    BY <1>1 DEF Sync, IInv, Scalars, Steps
  <1>3. \A d \in stable' : Good(d, last', synced')
    BY GoodGrows DEF Sync, IInv
  <1>4. Fresh' /\ Writing'
    BY DEF Sync, IInv, Fresh, Writing, InWrite
  <1> QED BY <1>2, <1>3, <1>4 DEF IInv, Sync

LEMMA PublishIInv == ASSUME IInv, Publish PROVE IInv'
  <1> USE Bounds
  <1> DEFINE e == [segs |-> With(dir.segs, next, last), temps |-> Without(dir.temps, next)]
  <1>1. /\ OpensFirst => opened
        /\ next <= last /\ 1 <= last /\ dir.temps[next] = last
        /\ \A n \in DOMAIN dir.segs : dir.segs[n] < last
        /\ last \in synced
    BY DEF Publish, IInv, Writing, InWrite
  <1>2. dir' = e /\ stable' = stable \cup {e}
    BY <1>1 DEF Publish, Change
  <1>3. OpensFirst => \A m \in DOMAIN dir.segs : m < next
    BY <1>1 DEF IInv, Fresh
  <1>4. Good(e, last, synced)
    BY <1>1, <1>3, GoodPublished
  <1>5. \A d \in stable' : Good(d, last', synced')
    BY <1>2, <1>4 DEF IInv, Publish
  <1>6. Scalars' /\ Writing'
    BY <1>1 DEF Publish, IInv, Scalars, Steps, Writing, InWrite
  <1>7. Fresh'
    <2>1. DOMAIN e.segs = DOMAIN dir.segs \cup {next}
      BY DEF With
    <2> HIDE DEF e
    <2> QED BY <1>2, <2>1 DEF Publish, IInv, Fresh
  <1> QED BY <1>2, <1>5, <1>6, <1>7 DEF IInv

LEMMA RenameFailsIInv == ASSUME IInv, RenameFails PROVE IInv'
  <1> USE Bounds
  <1>1. /\ Good(dir', last, synced)
        /\ stable' = stable \cup {dir'}
        /\ dir'.temps = dir.temps
        /\ \A m \in DOMAIN dir'.segs : m \in DOMAIN dir.segs /\ dir'.segs[m] = dir.segs[m]
    <2>1. CASE Change(Without(dir.segs, next), dir.temps)
      BY <2>1, GoodWithoutSegment DEF Change, Without
    <2>2. CASE UNCHANGED <<dir, stable>>
      BY <2>2 DEF IInv
    <2> QED BY <2>1, <2>2 DEF RenameFails
  <1>2. Scalars' /\ Fresh'
    BY <1>1 DEF RenameFails, IInv, Scalars, Steps, Fresh
  <1>3. Writing'
    <2>1. \A d \in stable' : \A n \in DOMAIN d.segs : d.segs[n] < last
      BY <1>1 DEF RenameFails, IInv, Writing, InWrite
    <2> QED BY <1>1, <2>1 DEF RenameFails, IInv, Writing, InWrite
  <1> QED BY <1>1, <1>2, <1>3 DEF IInv, RenameFails

\* A new process takes over a directory that may survive.
LEMMA RestartIInv ==
    ASSUME IInv, Restarted, dir' \in stable', stable' \subseteq stable,
           UNCHANGED <<synced, damaged, last>>
    PROVE  IInv'
  <1> USE Bounds, PersistenceAssumption
  <1>1. Scalars'
    <2>1. opened' \in BOOLEAN /\ pc' \in Steps
      BY DEF Restarted, Steps
    <2>2. next' \in 0..(last' + 1) /\ crashes' \in 0..MaxCrashes
      BY DEF Restarted, IInv, Scalars
    <2> QED BY <2>1, <2>2 DEF IInv, Scalars
  <1>2. Fresh' /\ Writing'
    BY DEF Restarted, Fresh, Writing, InWrite
  <1> QED BY <1>1, <1>2 DEF IInv

LEMMA WriteBackIInv == ASSUME IInv, WriteBack PROVE IInv'
  BY DEF WriteBack, IInv, Scalars, Fresh, Writing

LEMMA DamageIInv == ASSUME IInv, Damage PROVE IInv'
  <1>1. damaged' \subseteq 1..last
    BY Bounds DEF Damage, IInv, Scalars
  <1>2. Scalars' /\ Fresh' /\ Writing'
    BY <1>1 DEF Damage, IInv, Scalars, Fresh, Writing
  <1> QED BY <1>2 DEF Damage, IInv

LEMMA NextIInv == ASSUME IInv, [Next]_vars PROVE IInv'
  <1> USE DEF Steps, InWrite
  <1>1. CASE Open
    BY <1>1, OpenIInv
  <1>2. CASE WriteTemp
    BY <1>2, WriteTempIInv
  <1>3. CASE WriteFails
    BY <1>3, WriteFailsIInv
  <1>4. CASE Sync
    BY <1>4, SyncIInv
  <1>5. CASE Publish
    BY <1>5, PublishIInv
  <1>6. CASE RenameFails
    BY <1>6, RenameFailsIInv
  <1>7. CASE PublishFails \/ RotateEnd \/ ClearBegin \/ ClearEnd
    BY <1>7, PcIInv DEF PublishFails, RotateEnd, ClearBegin, ClearEnd
  <1>8. CASE Rotate
    <2>1. PICK n : Change(Without(dir.segs, n), dir.temps)
      BY <1>8 DEF Rotate
    <2> QED BY <1>8, <2>1, RemovalIInv DEF Rotate
  <1>9. CASE ClearRemove
    <2>1. PICK n : \/ Change(Without(dir.segs, n), dir.temps)
                   \/ Change(dir.segs, Without(dir.temps, n))
      BY <1>9 DEF ClearRemove
    <2> QED BY <1>9, <2>1, RemovalIInv DEF ClearRemove
  <1>10. CASE ProcessDies
    BY <1>10, RestartIInv DEF ProcessDies, IInv
  <1>11. CASE PowerLoss
    BY <1>11, RestartIInv DEF PowerLoss, IInv
  <1>12. CASE WriteBack
    BY <1>12, WriteBackIInv
  <1>13. CASE Damage
    BY <1>13, DamageIInv
  <1>14. CASE UNCHANGED vars
    BY <1>14 DEF vars, IInv, Scalars, Fresh, Writing
  <1> QED
    BY <1>1, <1>2, <1>3, <1>4, <1>5, <1>6, <1>7, <1>8, <1>9, <1>10, <1>11, <1>12,
       <1>13, <1>14
    DEF Next

LEMMA AlwaysIInv == Spec => []IInv
  <1>1. Init => IInv
    BY InitIInv
  <1>2. IInv /\ [Next]_vars => IInv'
    BY NextIInv
  <1> QED BY <1>1, <1>2, PTL DEF Spec

-----------------------------------------------------------------------------
(* Theorems *)

\* Every variable keeps its type, and next_sequence_ stays within one of the
\* number of snapshots written.
THEOREM PersistenceTypes == Spec => []TypeOK
  <1>1. IInv => TypeOK
    BY DEF IInv, Scalars, Good, TypeOK
  <1> QED BY <1>1, AlwaysIInv, PTL

\* A file with a segment's name holds a synced, whole snapshot in every
\* directory that power loss may leave behind, whatever the order of failures.
THEOREM PersistencePublishesWhole == Spec => []PublishedIsWhole
  <1>1. IInv => PublishedIsWhole
    BY DEF IInv, Good, PublishedIsWhole
  <1> QED BY <1>1, AlwaysIInv, PTL

\* If nobody writes before open, sequence numbers order segments by age in
\* every directory that may survive, so recover tries the newest first.
THEOREM PersistenceOrdersSegments == Spec => [](OpensFirst => HigherSequenceIsNewer)
  <1>1. IInv => (OpensFirst => HigherSequenceIsNewer)
    BY DEF IInv, Good, HigherSequenceIsNewer
  <1> QED BY <1>1, AlwaysIInv, PTL

-----------------------------------------------------------------------------
(* What recover finds *)

\* A bounded set of numbers that is not empty has a greatest member.
LEMMA HasGreatest ==
    ASSUME NEW top \in Nat, NEW S, S # {}, \A n \in S : n \in Nat /\ n <= top
    PROVE  \E n \in S : \A m \in S : m <= n
  <1> DEFINE T == {top - n : n \in S}
             R == OpToRel(<, Nat)
  <1>1. T \subseteq Nat /\ T # {}
    OBVIOUS
  <1>2. \E x \in T : \A y \in T : ~(<<y, x>> \in R)
    BY <1>1, NatLessThanWellFounded, WFMin, Zenon
  <1>3. PICK x \in T : \A y \in T : ~(<<y, x>> \in R)
    BY <1>2
  <1>4. \A y \in T : ~(y < x)
    BY <1>1, <1>3 DEF OpToRel
  <1>5. PICK n \in S : x = top - n
    BY <1>3
  <1>6. \A m \in S : ~(top - m < top - n)
    BY <1>4, <1>5
  <1> QED BY <1>5, <1>6

\* The segments of a directory that can be decoded
Readable(d, unreadable) == {n \in DOMAIN d.segs : d.segs[n] \notin unreadable}

\* recover finds the readable segment with the highest number, if there is one.
LEMMA RecoveredIsHighest ==
    ASSUME NEW d, NEW t \in Nat, NEW S, Good(d, t, S), NEW bad
    PROVE  /\ Readable(d, bad) = {} => Recovered(d, bad) = 0
           /\ Readable(d, bad) # {} =>
                \E n \in Readable(d, bad) :
                    (\A m \in Readable(d, bad) : m <= n) /\ Recovered(d, bad) = d.segs[n]
  <1> DEFINE good == Readable(d, bad)
             top == CHOOSE n \in good : \A m \in good : m <= n
  <1>1. Recovered(d, bad) = IF good = {} THEN 0 ELSE d.segs[top]
    BY DEF Recovered, Readable
  <1>2. \A n \in good : n \in Nat /\ n <= t
    <2> SUFFICES ASSUME NEW n \in good PROVE n \in Nat /\ n <= t
      OBVIOUS
    <2>1. n \in DOMAIN d.segs
      BY DEF Readable
    <2>2. n \in Nat /\ d.segs[n] \in 1..t /\ n <= d.segs[n]
      BY <2>1 DEF Good, IsDirectory, IsFiles
    <2> QED BY <2>2
  <1> HIDE DEF good
  <1>3. good # {} => top \in good /\ \A m \in good : m <= top
    <2> SUFFICES ASSUME good # {} PROVE top \in good /\ \A m \in good : m <= top
      OBVIOUS
    <2>1. \E n \in good : \A m \in good : m <= n
      BY <1>2, HasGreatest
    <2> QED BY <2>1
  <1> HIDE DEF top
  <1>4. /\ good = {} => Recovered(d, bad) = 0
        /\ good # {} =>
             \E n \in good : (\A m \in good : m <= n) /\ Recovered(d, bad) = d.segs[n]
    BY <1>1, <1>3
  <1> QED BY <1>4 DEF good

\* Zero stands for finding nothing.
LEMMA FoundIfReadable ==
    ASSUME NEW d, NEW t \in Nat, NEW S, Good(d, t, S), NEW bad
    PROVE  Recovered(d, bad) # 0 <=> Readable(d, bad) # {}
  <1>1. \A n \in Readable(d, bad) : d.segs[n] # 0
    BY DEF Readable, Good, IsDirectory, IsFiles
  <1> QED BY <1>1, RecoveredIsHighest

\* Where numbers follow age, recover finds the newest snapshot in a segment.
LEMMA RecoveredIsNewest ==
    ASSUME OpensFirst, NEW d, NEW t \in Nat, NEW S, Good(d, t, S)
    PROVE  /\ Recovered(d, {}) \in 0..t
           /\ DOMAIN d.segs = {} => Recovered(d, {}) = 0
           /\ DOMAIN d.segs # {} =>
                \E n \in DOMAIN d.segs :
                    (\A m \in DOMAIN d.segs : m <= n) /\ Recovered(d, {}) = d.segs[n]
           /\ \A n \in DOMAIN d.segs : d.segs[n] <= Recovered(d, {})
  <1>1. Readable(d, {}) = DOMAIN d.segs
    BY DEF Readable
  <1>2. /\ DOMAIN d.segs = {} => Recovered(d, {}) = 0
        /\ DOMAIN d.segs # {} =>
             \E n \in DOMAIN d.segs :
                 (\A m \in DOMAIN d.segs : m <= n) /\ Recovered(d, {}) = d.segs[n]
    BY <1>1, RecoveredIsHighest
  <1>3. /\ DOMAIN d.segs \subseteq Nat /\ \A n \in DOMAIN d.segs : d.segs[n] \in 1..t
        /\ \A m, n \in DOMAIN d.segs : m < n => d.segs[m] < d.segs[n]
    BY DEF Good, IsDirectory, IsFiles
  <1>4. CASE DOMAIN d.segs = {}
    BY <1>2, <1>4
  <1>5. CASE DOMAIN d.segs # {}
    <2>1. PICK n \in DOMAIN d.segs :
              (\A m \in DOMAIN d.segs : m <= n) /\ Recovered(d, {}) = d.segs[n]
      BY <1>2, <1>5
    <2>2. \A m \in DOMAIN d.segs : d.segs[m] <= d.segs[n]
      <3> SUFFICES ASSUME NEW m \in DOMAIN d.segs PROVE d.segs[m] <= d.segs[n]
        OBVIOUS
      <3>1. m <= n /\ m \in Nat /\ n \in Nat /\ d.segs[m] \in 1..t /\ d.segs[n] \in 1..t
        BY <1>3, <2>1
      <3>2. m < n => d.segs[m] < d.segs[n]
        BY <1>3
      <3>3. m = n => d.segs[m] = d.segs[n]
        OBVIOUS
      <3> QED BY <3>1, <3>2, <3>3
    <2>3. d.segs[n] \in 0..t
      BY <1>3
    <2> QED BY <1>2, <2>1, <2>2, <2>3
  <1> QED BY <1>4, <1>5

-----------------------------------------------------------------------------
(* Writing keeps a fallback *)

\* The segments of the directory that are damaged
Unreadable == {n \in DOMAIN dir.segs : dir.segs[n] \in damaged}

\* The sequence numbers in use are finitely many.
LEMMA SegmentsFinite ==
    ASSUME IInv
    PROVE  /\ IsFiniteSet(DOMAIN dir.segs) /\ IsFiniteSet(Unreadable)
           /\ Cardinality(DOMAIN dir.segs) \in Nat /\ Cardinality(Unreadable) \in Nat
  <1>1. last \in Int /\ 0 \in Int
    BY Bounds
  <1>2. IsFiniteSet(0..last)
    BY <1>1, FS_Interval, Zenon
  <1>3. DOMAIN dir.segs \subseteq 0..last
    BY Bounds
  <1>4. IsFiniteSet(DOMAIN dir.segs)
    BY <1>2, <1>3, FS_Subset
  <1>5. IsFiniteSet(Unreadable)
    BY <1>4, FS_Subset DEF Unreadable
  <1> QED BY <1>4, <1>5, FS_CardinalityType

\* Some segment of every directory that may survive is readable.
LEMMA FallbackIsReadable ==
    ASSUME IInv
    PROVE  Fallback <=> \A d \in stable : Readable(d, damaged) # {}
  <1>1. \A d \in stable : Recovered(d, damaged) # 0 <=> Readable(d, damaged) # {}
    BY Bounds, FoundIfReadable DEF IInv
  <1> QED BY <1>1 DEF Fallback

\* Rotation leaves max_segments segments, and fewer are damaged.
LEMMA RotateKeepsReadable ==
    ASSUME IInv, Rotate, Cardinality(Unreadable) < MaxSegments
    PROVE  Readable(dir', damaged) # {}
  <1> USE PersistenceAssumption
  <1>1. PICK n \in DOMAIN dir.segs : Change(Without(dir.segs, n), dir.temps)
    BY DEF Rotate
  <1>2. /\ DOMAIN dir'.segs = DOMAIN dir.segs \ {n}
        /\ \A m \in DOMAIN dir'.segs : dir'.segs[m] = dir.segs[m]
    BY <1>1 DEF Change, Without
  <1>3. SUFFICES ASSUME Readable(dir', damaged) = {} PROVE FALSE
    OBVIOUS
  <1>4. DOMAIN dir.segs \ {n} \subseteq Unreadable
    <2> SUFFICES ASSUME NEW m \in DOMAIN dir.segs \ {n} PROVE m \in Unreadable
      OBVIOUS
    <2>1. dir'.segs[m] \in damaged
      BY <1>2, <1>3 DEF Readable
    <2> QED BY <1>2, <2>1 DEF Unreadable
  <1>5. Cardinality(DOMAIN dir.segs \ {n}) = Cardinality(DOMAIN dir.segs) - 1
    BY SegmentsFinite, FS_RemoveElement
  <1>6. Cardinality(DOMAIN dir.segs \ {n}) <= Cardinality(Unreadable)
    BY <1>4, SegmentsFinite, FS_Subset
  <1>7. Cardinality(DOMAIN dir.segs) > MaxSegments
    BY DEF Rotate
  <1> QED BY <1>5, <1>6, <1>7, SegmentsFinite

\* If nobody writes before open, no step but those of clear and fresh damage
\* takes away the certainty that some readable segment survives power loss: a
\* failed rename removes nothing that recovery may need, and rotation removes
\* old segments only while enough readable ones are left.
THEOREM PersistenceKeepsAFallback ==
    ASSUME OpensFirst
    PROVE  Spec => WritingKeepsAFallback
  <1> DEFINE Keeps == /\ Fallback /\ pc # "clearing" /\ damaged' = damaged
                      /\ Cardinality({n \in DOMAIN dir.segs : dir.segs[n] \in damaged})
                           < MaxSegments
                      => Fallback'
  <1>1. IInv /\ [Next]_vars => [Keeps]_vars
    <2> SUFFICES ASSUME IInv, Next, Fallback, pc # "clearing", damaged' = damaged,
                        Cardinality(Unreadable) < MaxSegments
                 PROVE  Fallback'
      BY DEF Unreadable
    <2>1. IInv'
      BY NextIInv
    <2>2. Fallback' <=> \A d \in stable' : Readable(d, damaged') # {}
      <3>1. \A d \in stable' : Good(d, last', synced') /\ last' \in Nat
        BY <2>1, PersistenceAssumption DEF IInv, Scalars
      <3>2. \A d \in stable' : Recovered(d, damaged') # 0 <=> Readable(d, damaged') # {}
        BY <3>1, FoundIfReadable
      <3> QED BY <3>2 DEF Fallback
    <2>3. dir \in stable /\ \A d \in stable : Readable(d, damaged) # {}
      BY FallbackIsReadable DEF IInv
    <2>4. SUFFICES stable' \subseteq stable \cup {dir'} /\ Readable(dir', damaged) # {}
      BY <2>2, <2>3
    <2>5. CASE UNCHANGED <<dir, stable>>
      BY <2>3, <2>5
    <2>6. CASE Open \/ Sync \/ PublishFails \/ RotateEnd \/ ClearBegin \/ ClearEnd
               \/ ProcessDies \/ Damage
      BY <2>5, <2>6 DEF Open, Sync, PublishFails, RotateEnd, ClearBegin, ClearEnd, ProcessDies,
         Damage
    <2>7. CASE PowerLoss \/ WriteBack
      BY <2>3, <2>7 DEF PowerLoss, WriteBack
    <2>8. CASE WriteTemp \/ WriteFails
      <3>1. stable' \subseteq stable \cup {dir'} /\ dir'.segs = dir.segs
        BY <2>8 DEF WriteTemp, WriteFails, Change
      <3> QED BY <2>3, <3>1 DEF Readable
    <2>9. CASE RenameFails
      <3>1. next \notin DOMAIN dir.segs
        BY <2>9, Bounds DEF RenameFails, IInv, Writing, Fresh, InWrite
      <3>2. /\ stable' \subseteq stable \cup {dir'} /\ DOMAIN dir'.segs = DOMAIN dir.segs
            /\ \A m \in DOMAIN dir.segs : dir'.segs[m] = dir.segs[m]
        BY <2>9, <3>1 DEF RenameFails, Change, Without
      <3> QED BY <2>3, <3>2 DEF Readable
    <2>10. CASE Publish
      <3>1. dir.temps[next] = last /\ last \notin damaged
        BY <2>10 DEF Publish, IInv, Writing, InWrite
      <3>2. /\ stable' = stable \cup {dir'}
            /\ next \in DOMAIN dir'.segs /\ dir'.segs[next] = last
        BY <2>10, <3>1 DEF Publish, Change, With
      <3> QED BY <3>1, <3>2 DEF Readable
    <2>11. CASE Rotate
      BY <2>11, RotateKeepsReadable DEF Rotate, Change
    <2>12. CASE ClearRemove
      BY <2>12 DEF ClearRemove
    <2> QED
      BY <2>6, <2>7, <2>8, <2>9, <2>10, <2>11, <2>12 DEF Next
  <1> QED BY <1>1, AlwaysIInv, PTL DEF Spec, WritingKeepsAFallback

-----------------------------------------------------------------------------
(* The directory implements a store of the last snapshot *)

Newest == Recovered(dir, {})
Survivors == {Recovered(d, {}) : d \in stable}

\* A change that leaves the segments as they are is not seen by recover.
LEMMA SameSegments ==
    ASSUME IInv, stable' = stable \cup {dir'}, dir'.segs = dir.segs
    PROVE  Newest' = Newest /\ Survivors' = Survivors
  <1>1. Newest' = Newest
    BY DEF Newest, Recovered
  <1>2. Newest \in Survivors
    BY DEF IInv, Newest, Survivors
  <1>3. Survivors' = Survivors \cup {Newest'}
    BY DEF Newest, Survivors
  <1> QED BY <1>1, <1>2, <1>3

\* A published snapshot is what recover finds, and newer than anything that
\* power loss could bring back.
LEMMA PublishRefines ==
    ASSUME OpensFirst, IInv, Publish
    PROVE  /\ last \in 1..MaxSnapshots
           /\ \A t \in Survivors : last > t
           /\ Newest' = last /\ Survivors' = Survivors \cup {last}
  <1> USE PersistenceAssumption
  <1>1. /\ dir.temps[next] = last /\ last \in Nat /\ 1 <= last
        /\ \A d \in stable : \A n \in DOMAIN d.segs : d.segs[n] < last
    BY Bounds DEF Publish, IInv, Writing, InWrite
  <1>2. last \in 1..MaxSnapshots
    BY <1>1 DEF IInv, Scalars
  <1>3. \A t \in Survivors : last > t
    <2> SUFFICES ASSUME NEW d \in stable PROVE last > Recovered(d, {})
      BY DEF Survivors
    <2>1. Good(d, last, synced)
      BY DEF IInv
    <2>2. CASE DOMAIN d.segs = {}
      BY <1>1, <2>1, <2>2, RecoveredIsNewest
    <2>3. CASE DOMAIN d.segs # {}
      <3>1. PICK n \in DOMAIN d.segs : Recovered(d, {}) = d.segs[n]
        BY <1>1, <2>1, <2>3, RecoveredIsNewest
      <3>2. d.segs[n] \in 1..last
        BY <2>1 DEF Good, IsDirectory, IsFiles
      <3> QED BY <1>1, <3>1, <3>2
    <2> QED BY <2>2, <2>3
  <1>4. /\ next \in DOMAIN dir'.segs /\ dir'.segs[next] = last
        /\ stable' = stable \cup {dir'} /\ last' = last
    BY <1>1 DEF Publish, Change, With
  <1>5. IInv'
    BY PublishIInv
  <1>6. Good(dir', last, synced')
    BY <1>4, <1>5 DEF IInv
  <1>7. Newest' \in 0..last /\ last <= Newest'
    BY <1>1, <1>4, <1>6, RecoveredIsNewest DEF Newest
  <1>8. Newest' = last
    BY <1>1, <1>7
  <1>9. Survivors' = Survivors \cup {Newest'}
    BY <1>4 DEF Newest, Survivors
  <1> QED BY <1>2, <1>3, <1>8, <1>9

\* Rotation never removes the segment recover finds.
LEMMA RotateRefines ==
    ASSUME OpensFirst, IInv, Rotate
    PROVE  Newest' = Newest /\ Survivors' = Survivors
  <1> USE PersistenceAssumption
  <1>1. PICK n \in DOMAIN dir.segs :
            /\ \A m \in DOMAIN dir.segs : n <= m
            /\ Change(Without(dir.segs, n), dir.temps)
    BY DEF Rotate
  <1>2. /\ DOMAIN dir'.segs = DOMAIN dir.segs \ {n}
        /\ \A m \in DOMAIN dir'.segs : dir'.segs[m] = dir.segs[m]
        /\ stable' = stable \cup {dir'} /\ last' = last /\ synced' = synced
    BY <1>1 DEF Rotate, Change, Without
  <1>3. Good(dir, last, synced) /\ Good(dir', last, synced) /\ last \in Nat
    <2>1. dir' = [segs |-> Without(dir.segs, n), temps |-> dir.temps]
      BY <1>1 DEF Change
    <2> QED BY <2>1, Bounds, GoodWithoutSegment
  <1>4. PICK top \in DOMAIN dir.segs :
            (\A m \in DOMAIN dir.segs : m <= top) /\ Newest = dir.segs[top]
    BY <1>3, RecoveredIsNewest DEF Newest
  <1>5. \E k \in DOMAIN dir.segs : k # n
    <2> SUFFICES ASSUME DOMAIN dir.segs = {n} PROVE FALSE
      OBVIOUS
    <2>1. Cardinality(DOMAIN dir.segs) = 1
      BY FS_Singleton
    <2> QED BY <2>1 DEF Rotate
  <1>6. top # n
    BY <1>1, <1>3, <1>4, <1>5 DEF Good, IsDirectory, IsFiles
  <1>7. top \in DOMAIN dir'.segs /\ dir'.segs[top] = Newest
    BY <1>2, <1>4, <1>6
  <1>8. PICK k \in DOMAIN dir'.segs :
            (\A m \in DOMAIN dir'.segs : m <= k) /\ Newest' = dir'.segs[k]
    BY <1>3, <1>7, RecoveredIsNewest DEF Newest
  <1>9. k = top
    <2>1. k \in Nat /\ top \in Nat /\ k <= top /\ top <= k
      BY <1>2, <1>3, <1>4, <1>7, <1>8 DEF Good, IsDirectory, IsFiles
    <2> QED BY <2>1
  <1>10. Newest' = Newest
    BY <1>7, <1>8, <1>9
  <1>11. Newest \in Survivors /\ Survivors' = Survivors \cup {Newest'}
    BY <1>2 DEF IInv, Newest, Survivors
  <1> QED BY <1>10, <1>11

\* clear makes an older snapshot the answer, or none.
LEMMA ClearRefines ==
    ASSUME OpensFirst, IInv, ClearRemove
    PROVE  Newest' \in 0..Newest /\ Survivors' = Survivors \cup {Newest'}
  <1>1. PICK n : \/ Change(Without(dir.segs, n), dir.temps)
                 \/ Change(dir.segs, Without(dir.temps, n))
    BY DEF ClearRemove
  <1>2. /\ DOMAIN dir'.segs \subseteq DOMAIN dir.segs
        /\ \A m \in DOMAIN dir'.segs : dir'.segs[m] = dir.segs[m]
        /\ stable' = stable \cup {dir'}
    BY <1>1 DEF Change, Without
  <1>3. Good(dir, last, synced) /\ Good(dir', last, synced) /\ last \in Nat
    <2>1. \/ dir' = [segs |-> Without(dir.segs, n), temps |-> dir.temps]
          \/ dir' = [segs |-> dir.segs, temps |-> Without(dir.temps, n)]
      BY <1>1 DEF Change
    <2> QED BY <2>1, Bounds, GoodWithoutSegment, GoodWithoutTemp
  <1>4. /\ Newest \in 0..last /\ Newest' \in 0..last
        /\ \A m \in DOMAIN dir.segs : dir.segs[m] <= Newest
        /\ DOMAIN dir'.segs = {} => Newest' = 0
        /\ DOMAIN dir'.segs # {} => \E m \in DOMAIN dir'.segs : Newest' = dir'.segs[m]
    BY <1>3, RecoveredIsNewest DEF Newest
  <1>5. Newest' <= Newest
    <2>1. CASE DOMAIN dir'.segs = {}
      BY <1>3, <1>4, <2>1
    <2>2. CASE DOMAIN dir'.segs # {}
      <3>1. PICK m \in DOMAIN dir'.segs : Newest' = dir'.segs[m]
        BY <1>4, <2>2
      <3> QED BY <1>2, <1>4, <3>1
    <2> QED BY <2>1, <2>2
  <1>6. Survivors' = Survivors \cup {Newest'}
    BY <1>2 DEF Newest, Survivors
  <1> QED BY <1>3, <1>4, <1>5, <1>6

\* If nobody writes before open, recovery finds the last snapshot published, or
\* after power loss one published since the disk caught up, whatever fails on
\* the way; only clear makes it find less.
THEOREM PersistenceImplementsLastSnapshot ==
    ASSUME OpensFirst
    PROVE  Spec => ImplementsLastSnapshot
  <1>1. Init => Last!Init
    <2> SUFFICES ASSUME Init PROVE Last!Init
      OBVIOUS
    <2>1. dir.segs = Empty /\ DOMAIN Empty = {} /\ stable = {dir} /\ pc = "idle"
      BY DEF Init, Empty
    <2>2. Recovered(dir, {}) = 0
      BY <2>1 DEF Recovered
    <2>3. {Recovered(d, {}) : d \in stable} = {0}
      BY <2>1, <2>2
    <2> QED BY <2>1, <2>2, <2>3 DEF Last!Init
  <1>2. IInv /\ [Next]_vars => [Last!Next]_(Last!vars)
    <2> SUFFICES ASSUME IInv, [Next]_vars PROVE [Last!Next]_(Last!vars)
      OBVIOUS
    <2> DEFINE Idle == /\ Newest' = Newest /\ Survivors' = Survivors
                       /\ (pc' = "clearing") = (pc = "clearing")
    <2>0. SUFFICES \/ Idle
                   \/ /\ pc # "clearing" /\ pc' # "clearing"
                      /\ \E s \in 1..MaxSnapshots :
                           /\ \A t \in Survivors : s > t
                           /\ Newest' = s /\ Survivors' = Survivors \cup {s}
                   \/ /\ Newest' = Newest /\ Survivors' = {Newest}
                      /\ (pc' = "clearing") = (pc = "clearing")
                   \/ /\ Newest' \in Survivors /\ Survivors' = {Newest'}
                      /\ pc' # "clearing"
                   \/ /\ pc # "clearing" /\ pc' = "clearing"
                      /\ Newest' = Newest /\ Survivors' = Survivors
                   \/ /\ pc = "clearing" /\ pc' = "clearing"
                      /\ Newest' \in 0..Newest /\ Survivors' = Survivors \cup {Newest'}
                   \/ /\ pc = "clearing" /\ pc' # "clearing"
                      /\ Newest' = Newest /\ Survivors' = Survivors
      BY DEF Last!Next, Last!Publish, Last!Settle, Last!PowerLoss, Last!ClearBegin, Last!Forget,
         Last!ClearEnd, Last!vars, Newest, Survivors
    <2>1. ASSUME UNCHANGED <<dir, stable>>
          PROVE  Newest' = Newest /\ Survivors' = Survivors
      BY <2>1 DEF Newest, Survivors
    <2>2. CASE Open \/ Sync \/ PublishFails \/ RotateEnd \/ Damage \/ UNCHANGED vars
      BY <2>1, <2>2 DEF Open, Sync, PublishFails, RotateEnd, Damage, vars
    <2>3. CASE WriteTemp \/ WriteFails
      <3>1. pc # "clearing" /\ pc' # "clearing"
        BY <2>3 DEF WriteTemp, WriteFails
      <3>2. stable' = stable \cup {dir'} /\ dir'.segs = dir.segs
        BY <2>3 DEF IInv, WriteTemp, WriteFails, Change
      <3> QED BY <3>1, <3>2, SameSegments
    <2>4. CASE Publish
      BY <2>4, PublishRefines DEF Publish
    <2>5. CASE RenameFails
      <3>1. next \notin DOMAIN dir.segs
        BY <2>5, Bounds DEF RenameFails, IInv, Writing, Fresh, InWrite
      <3>2. dir.segs = [m \in DOMAIN dir.segs |-> dir.segs[m]]
        BY Bounds DEF Good, IsDirectory, IsFiles
      <3>3. Without(dir.segs, next) = dir.segs
        BY <3>1, <3>2 DEF Without
      <3>4. stable' = stable \cup {dir'} /\ dir'.segs = dir.segs
        BY <2>5, <3>3 DEF IInv, RenameFails, Change
      <3> QED BY <2>5, <3>4, SameSegments DEF RenameFails
    <2>6. CASE Rotate
      BY <2>6, RotateRefines DEF Rotate
    <2>7. CASE ClearBegin \/ ClearEnd \/ ProcessDies
      BY <2>1, <2>7 DEF ClearBegin, ClearEnd, ProcessDies, Restarted
    <2>8. CASE ClearRemove
      BY <2>8, ClearRefines DEF ClearRemove
    <2>9. CASE PowerLoss
      BY <2>9 DEF PowerLoss, Restarted, Newest, Survivors
    <2>10. CASE WriteBack
      BY <2>10 DEF WriteBack, Newest, Survivors
    <2> QED
      BY <2>2, <2>3, <2>4, <2>5, <2>6, <2>7, <2>8, <2>9, <2>10 DEF Next
  <1> QED BY <1>1, <1>2, AlwaysIInv, PTL DEF Spec, ImplementsLastSnapshot, Last!Spec
=============================================================================
