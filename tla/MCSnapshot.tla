------------------------------ MODULE MCSnapshot ----------------------------
(* The samples, windows and bounds of the Snapshot runs. *)
EXTENDS SnapshotCycle, Queries, MCStore

QueueNames == <<"q1", "q2">>

\* A source that restarts twice and reports on two queues, its drop counter
\* advancing or going missing, and a second source that disagrees with it.
CycleSamples ==
    {Sample(x[1], "s1", x[2], 1, x[3], CellsAnd(3, "drops", x[4])) :
        x \in {<<"q2", "A", 1, 0>>, <<"q1", "A", 2, 0>>, <<"q1", "B", 1, 2>>, <<"q1", "C", 1, 0>>}}
    \cup {Sample("q1", "s2", "A", 1, 1, Cells(9))}

CycleTables == {t \in MetadataTables : t.revision = 1}

MCWindows == {[duration |-> 2, bucket |-> 1, min_covered |-> 1],
              [duration |-> 3, bucket |-> 2, min_covered |-> 2]}
=============================================================================
