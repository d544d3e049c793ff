---------------------------- MODULE LastSnapshot ----------------------------
(***************************************************************************)
(* What persistence promises: recovery finds the last snapshot that was    *)
(* published.  Power may fail before a publication has reached the disk;   *)
(* recovery then finds one of the snapshots published since the disk last  *)
(* caught up.  Only clear makes an older snapshot, or none, the answer.    *)
(***************************************************************************)
EXTENDS Naturals

CONSTANT Snapshots  \* the snapshots, numbered in the order they are taken

VARIABLES newest,    \* what recovery finds now, 0 for nothing
          survivors, \* what it may find after power was lost
          clearing   \* clear is under way

vars == <<newest, survivors, clearing>>

Init == newest = 0 /\ survivors = {0} /\ clearing = FALSE

Publish(s) ==
    /\ ~clearing
    /\ \A t \in survivors : s > t
    /\ newest' = s /\ survivors' = survivors \cup {s}
    /\ UNCHANGED clearing

\* The disk has caught up with the directory.
Settle == survivors' = {newest} /\ UNCHANGED <<newest, clearing>>

PowerLoss ==
    /\ newest' \in survivors /\ survivors' = {newest'}
    /\ clearing' = FALSE

ClearBegin == ~clearing /\ clearing' = TRUE /\ UNCHANGED <<newest, survivors>>

\* A cleared store may answer with whatever older snapshot is left.
Forget ==
    /\ clearing
    /\ newest' \in 0..newest /\ survivors' = survivors \cup {newest'}
    /\ UNCHANGED clearing

\* clear returns, fails, or the process dies in it
ClearEnd == clearing /\ clearing' = FALSE /\ UNCHANGED <<newest, survivors>>

Next ==
    \/ \E s \in Snapshots : Publish(s)
    \/ Settle \/ PowerLoss \/ ClearBegin \/ Forget \/ ClearEnd

Spec == Init /\ [][Next]_vars
=============================================================================
