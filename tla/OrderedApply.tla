---------------------------- MODULE OrderedApply ----------------------------
(***************************************************************************)
(* What the runtime promises its callers about submitted documents: a     *)
(* queue of bounded length whose documents are applied one at a time, in  *)
(* the order they were submitted, or discarded all together.  Nothing is  *)
(* said of threads, decoding or locks.                                    *)
(***************************************************************************)
EXTENDS Naturals, Sequences

CONSTANTS Docs,        \* the documents callers may hand over
          MaxPending   \* bound on the documents that wait

VARIABLES queue,      \* documents that wait, oldest first
          done        \* documents that were applied, in order of application

vars == <<queue, done>>

Init == queue = <<>> /\ done = <<>>

\* A caller hands over document d.
Submit(d) ==
    /\ Len(queue) < MaxPending
    /\ queue' = Append(queue, d)
    /\ done' = done

\* The oldest waiting document is applied.
Apply ==
    /\ queue # <<>>
    /\ done' = Append(done, Head(queue))
    /\ queue' = Tail(queue)

\* A document is handed over and applied before the call returns.
SubmitAndApply(d) ==
    /\ queue = <<>>
    /\ done' = Append(done, d)
    /\ queue' = queue

\* Everything that waits is given up.
Discard ==
    /\ queue' = <<>>
    /\ done' = done

Next ==
    \/ \E d \in Docs : Submit(d) \/ SubmitAndApply(d)
    \/ Apply
    \/ Discard

Spec == Init /\ [][Next]_vars
=============================================================================
