---------------------------- MODULE Persistence -----------------------------
(***************************************************************************)
(* The segment directory and the calls that change it                      *)
(* (src/src/persist/Persistence.cpp), over a file system on which the      *)
(* process may die and power may fail between any two operations.          *)
(*                                                                         *)
(* A file is the number of the snapshot written to it; snapshots are       *)
(* numbered in the order of the calls of write_snapshot.  Segments and     *)
(* temporary files are partial functions from sequence numbers.  Every     *)
(* call holds mutex_ from beginning to end, so one call is under way at a  *)
(* time and pc says how far it has come.                                   *)
(*                                                                         *)
(* The directory is never synced.  `stable' is the set of directories that *)
(* power loss may leave behind: every one since the file system last wrote *)
(* its metadata back.  Directory operations reach the disk in order, as on *)
(* a file system with a metadata journal.                                  *)
(***************************************************************************)
EXTENDS Naturals, FiniteSets

CONSTANTS MaxSegments,   \* limits_.max_segments
          MaxSnapshots,  \* bound on the calls of write_snapshot
          MaxCrashes,    \* bound on process deaths and power losses
          MaxDamaged,    \* bound on the segments damaged on the disk
          OpensFirst     \* nobody writes before open, as start ensures

\* validate_limits refuses a maximum of zero.
ASSUME PersistenceAssumption ==
    /\ MaxSegments \in Nat \ {0}
    /\ MaxSnapshots \in Nat /\ MaxCrashes \in Nat /\ MaxDamaged \in Nat
    /\ OpensFirst \in BOOLEAN

VARIABLES dir,      \* the directory as the process sees it
          stable,   \* the directories that may survive power loss
          synced,   \* the snapshots whose bytes fsync has forced to the disk
          damaged,  \* the snapshots whose segment can no longer be decoded
          next,     \* next_sequence_
          opened,   \* open has succeeded in this process
          pc,       \* the step the call under way has reached
          last,     \* the number of the last snapshot written
          crashes

vars == <<dir, stable, synced, damaged, next, opened, pc, last, crashes>>

Steps == {"idle", "written", "synced", "retry", "rotating", "clearing"}

With(f, n, s) == [m \in DOMAIN f \cup {n} |-> IF m = n THEN s ELSE f[m]]

Without(f, n) == [m \in DOMAIN f \ {n} |-> f[m]]

Empty == [n \in {} |-> 0]

Init ==
    /\ dir = [segs |-> Empty, temps |-> Empty] /\ stable = {dir}
    /\ synced = {} /\ damaged = {}
    /\ next = 0 /\ opened = FALSE /\ pc = "idle" /\ last = 0 /\ crashes = 0

\* A directory operation is seen at once and may or may not survive.
Change(segs, temps) ==
    /\ dir' = [segs |-> segs, temps |-> temps]
    /\ stable' = stable \cup {dir'}

-----------------------------------------------------------------------------
(* open, write_snapshot, clear *)

\* Mutant: the numbering starts over in every process.
OpenAtOne ==
    /\ pc = "idle" /\ next' = 1 /\ opened' = TRUE
    /\ UNCHANGED <<dir, stable, synced, damaged, pc, last, crashes>>

\* open continues after the highest sequence number present, from 1 on.
\* Temporary files are not looked at.
Open ==
    /\ pc = "idle"
    /\ \E n \in 1..(MaxSnapshots + 1) :
          /\ \A m \in DOMAIN dir.segs : m < n
          /\ n = 1 \/ n - 1 \in DOMAIN dir.segs
          /\ next' = n
    /\ opened' = TRUE
    /\ UNCHANGED <<dir, stable, synced, damaged, pc, last, crashes>>

\* The temporary file is created, or truncated if one was left behind, and
\* filled.  A refusal before that changes nothing.
WriteTemp ==
    /\ pc = "idle" /\ (OpensFirst => opened) /\ last < MaxSnapshots
    /\ last' = last + 1
    /\ Change(dir.segs, With(dir.temps, next, last + 1))
    /\ pc' = "written"
    /\ UNCHANGED <<synced, damaged, next, opened, crashes>>

\* A short write or a failed sync: the temporary file is removed, if it can be.
WriteFails ==
    /\ pc = "written" /\ pc' = "idle"
    /\ \/ Change(dir.segs, Without(dir.temps, next))
       \/ UNCHANGED <<dir, stable>>
    /\ UNCHANGED <<synced, damaged, next, opened, last, crashes>>

\* Mutant: the stream is flushed and not synced.
SyncOmitted ==
    /\ pc = "written" /\ pc' = "synced"
    /\ UNCHANGED <<dir, stable, synced, damaged, next, opened, last, crashes>>

Sync ==
    /\ pc = "written" /\ pc' = "synced"
    /\ synced' = synced \cup {last}
    /\ UNCHANGED <<dir, stable, damaged, next, opened, last, crashes>>

\* The rename that publishes the segment, at the first or the second attempt
Publish ==
    /\ pc \in {"synced", "retry"} /\ pc' = "rotating"
    /\ Change(With(dir.segs, next, dir.temps[next]), Without(dir.temps, next))
    /\ next' = next + 1
    /\ UNCHANGED <<synced, damaged, opened, last, crashes>>

\* After a failed rename whatever has the segment's name is removed.
RenameFails ==
    /\ pc = "synced" /\ pc' = "retry"
    /\ \/ Change(Without(dir.segs, next), dir.temps)
       \/ UNCHANGED <<dir, stable>>
    /\ UNCHANGED <<synced, damaged, next, opened, last, crashes>>

\* The second rename fails too.  The temporary file stays.
PublishFails ==
    /\ pc = "retry" /\ pc' = "idle"
    /\ UNCHANGED <<dir, stable, synced, damaged, next, opened, last, crashes>>

\* Mutant: rotation makes room for one segment more.
RotateOneMore ==
    /\ pc = "rotating" /\ Cardinality(DOMAIN dir.segs) >= MaxSegments
    /\ \E n \in DOMAIN dir.segs :
          /\ \A m \in DOMAIN dir.segs : n <= m
          /\ Change(Without(dir.segs, n), dir.temps)
    /\ UNCHANGED <<synced, damaged, next, opened, pc, last, crashes>>

\* Mutant: rotation takes segments from the wrong end of the list.
RotateNewest ==
    /\ pc = "rotating" /\ Cardinality(DOMAIN dir.segs) > MaxSegments
    /\ \E n \in DOMAIN dir.segs :
          /\ \A m \in DOMAIN dir.segs : n >= m
          /\ Change(Without(dir.segs, n), dir.temps)
    /\ UNCHANGED <<synced, damaged, next, opened, pc, last, crashes>>

\* Rotation removes the segment with the lowest sequence number while there are
\* too many.
Rotate ==
    /\ pc = "rotating" /\ Cardinality(DOMAIN dir.segs) > MaxSegments
    /\ \E n \in DOMAIN dir.segs :
          /\ \A m \in DOMAIN dir.segs : n <= m
          /\ Change(Without(dir.segs, n), dir.temps)
    /\ UNCHANGED <<synced, damaged, next, opened, pc, last, crashes>>

\* It ends when there are few enough, or when the directory cannot be listed or
\* a segment cannot be removed.
RotateEnd ==
    /\ pc = "rotating" /\ pc' = "idle"
    /\ UNCHANGED <<dir, stable, synced, damaged, next, opened, last, crashes>>

ClearBegin ==
    /\ pc = "idle" /\ pc' = "clearing"
    /\ UNCHANGED <<dir, stable, synced, damaged, next, opened, last, crashes>>

\* clear removes segments and temporary files in the order the directory lists
\* them, which is any order.
ClearRemove ==
    /\ pc = "clearing"
    /\ \/ \E n \in DOMAIN dir.segs : Change(Without(dir.segs, n), dir.temps)
       \/ \E n \in DOMAIN dir.temps : Change(dir.segs, Without(dir.temps, n))
    /\ UNCHANGED <<synced, damaged, next, opened, pc, last, crashes>>

\* Everything is gone, or one file could not be removed.  next_sequence_ stays.
ClearEnd ==
    /\ pc = "clearing" /\ pc' = "idle"
    /\ UNCHANGED <<dir, stable, synced, damaged, next, opened, last, crashes>>

-----------------------------------------------------------------------------
(* The file system and the machine *)

\* A new process has a new PersistenceStore.
Restarted ==
    /\ crashes < MaxCrashes /\ crashes' = crashes + 1
    /\ pc' = "idle" /\ opened' = FALSE /\ next' = 0

ProcessDies == Restarted /\ UNCHANGED <<dir, stable, synced, damaged, last>>

PowerLoss ==
    /\ Restarted
    /\ dir' \in stable /\ stable' = {dir'}
    /\ UNCHANGED <<synced, damaged, last>>

WriteBack ==
    /\ stable # {dir} /\ stable' = {dir}
    /\ UNCHANGED <<dir, synced, damaged, next, opened, pc, last, crashes>>

\* A segment on the disk becomes unreadable.
Damage ==
    /\ Cardinality(damaged) < MaxDamaged
    /\ \E n \in DOMAIN dir.segs :
          dir.segs[n] \notin damaged /\ damaged' = damaged \cup {dir.segs[n]}
    /\ UNCHANGED <<dir, stable, synced, next, opened, pc, last, crashes>>

-----------------------------------------------------------------------------
Next ==
    \/ Open
    \/ WriteTemp \/ WriteFails \/ Sync \/ Publish \/ RenameFails \/ PublishFails
    \/ Rotate \/ RotateEnd
    \/ ClearBegin \/ ClearRemove \/ ClearEnd
    \/ ProcessDies \/ PowerLoss \/ WriteBack \/ Damage

Spec == Init /\ [][Next]_vars

-----------------------------------------------------------------------------
(* recover *)

\* recover tries the segments of directory d from the highest sequence number
\* down and returns the first that is not among the unreadable ones.
Recovered(d, unreadable) ==
    LET good == {n \in DOMAIN d.segs : d.segs[n] \notin unreadable}
    IN IF good = {} THEN 0 ELSE d.segs[CHOOSE n \in good : \A m \in good : m <= n]

-----------------------------------------------------------------------------
(* Properties *)

IsFiles(f, top) ==
    /\ f = [n \in DOMAIN f |-> f[n]]
    /\ DOMAIN f \subseteq Nat /\ \A n \in DOMAIN f : f[n] \in 1..top

\* A directory that holds snapshots up to top
IsDirectory(d, top) ==
    /\ d = [segs |-> d.segs, temps |-> d.temps]
    /\ IsFiles(d.segs, top) /\ IsFiles(d.temps, top)

TypeOK ==
    /\ last \in 0..MaxSnapshots /\ next \in 0..(last + 1) /\ crashes \in 0..MaxCrashes
    /\ opened \in BOOLEAN /\ pc \in Steps
    /\ synced \subseteq 1..last /\ damaged \subseteq 1..last
    /\ dir \in stable /\ \A d \in stable : IsDirectory(d, last)

\* Whatever power loss leaves behind, a file with a segment's name holds a
\* whole snapshot: its bytes were on the disk before it got that name
\* (write_snapshot; Persistence.hpp promises "never a half-written file").
PublishedIsWhole ==
    \A d \in stable : \A n \in DOMAIN d.segs : d.segs[n] \in synced

\* In every directory that may survive, sequence numbers grow with the age of
\* the snapshots, so that the segment recover tries first is the newest
\* (open and write_snapshot number the segments, recover sorts by number).
HigherSequenceIsNewer ==
    \A d \in stable : \A m, n \in DOMAIN d.segs : m < n => d.segs[m] < d.segs[n]

Fallback == \A d \in stable : Recovered(d, damaged) # 0

\* Once some readable segment is certain to survive power loss, this remains so
\* through writes, failed renames, rotation, restarts and power loss, unless
\* clear removes it or as many segments of the directory are damaged as are
\* kept (write_snapshot removes old segments only after publishing, and never
\* below max_segments).
WritingKeepsAFallback ==
    [][ /\ Fallback /\ pc # "clearing" /\ damaged' = damaged
        /\ Cardinality({n \in DOMAIN dir.segs : dir.segs[n] \in damaged}) < MaxSegments
        => Fallback' ]_vars

\* Leaving damage aside, the directory implements a store of the last snapshot.
Last == INSTANCE LastSnapshot WITH
            Snapshots <- 1..MaxSnapshots,
            newest <- Recovered(dir, {}),
            survivors <- {Recovered(d, {}) : d \in stable},
            clearing <- pc = "clearing"

ImplementsLastSnapshot == Last!Spec
=============================================================================
