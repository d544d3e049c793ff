------------------------------- MODULE MCStore ------------------------------
(* The samples, tables and policies of the Store runs. *)
EXTENDS Store

MCPolicy ==
    [elevated_permille |-> 500, pressured_permille |-> 750, saturated_permille |-> 950,
     elevated_at |-> {2}, pressured_at |-> {4}, saturated_at |-> {8},
     dropping_at |-> 1, paused_at_frames |-> 1, paused_at_nanos |-> 1, marks_at |-> 1,
     fresh_within |-> 2, aging_within |-> 3, stale_within |-> 4,
     required_fields |-> {}, required_any |-> {"occupancy_cells", "occupancy_bytes", "queue_depth"},
     prefer_cells |-> TRUE, allow_absolute |-> TRUE, allow_byte_basis |-> FALSE,
     conflict_enabled |-> TRUE, conflict_window |-> 1, absolute_tolerance |-> 1,
     relative_permille |-> 100, evaluation_window |-> 2]

NoTime == [domain |-> NoDomain, ns |-> 0]
Cells(v) == [f \in {"occupancy_cells"} |-> v]
Bytes(v) == [f \in {"occupancy_bytes"} |-> v]
CellsAnd(v, field, raw) == [f \in {"occupancy_cells", field} |-> IF f = field THEN raw ELSE v]

Sample(queue, source, token, generation, sequence, values) ==
    [queue |-> queue, source |-> source, incarnation |-> token, generation |-> generation,
     sequence |-> sequence, authority |-> Primary, observed |-> NoTime, values |-> values,
     age |-> 0, valid |-> TRUE, classes |-> NoClasses]

\* Two sources, two device generations, three incarnations, replays on two
\* queues, a third source and a third queue that do not fit, a lower and a
\* higher authority (which names a class), and a malformed sample.
FencingSamples ==
    {Sample("q1", "s1", x[1], x[2], x[3], Cells(0)) :
        x \in {<<"A", 1, 1>>, <<"A", 1, 2>>, <<"A", 2, 2>>, <<"B", 1, 1>>, <<"B", 2, 1>>}}
    \cup {Sample("q2", "s1", "B", 1, 1, Cells(0)), Sample("q2", "s1", "A", 1, 2, Cells(0)),
          Sample("q2", "s1", "C", 1, 1, Cells(0))}
    \cup {Sample("q3", "s1", "A", 1, 3, Cells(0)), Sample("q1", "s2", "A", 1, 1, Cells(0)),
          Sample("q1", "s3", "A", 1, 1, Cells(0)),
          [Sample("q1", "s1", "A", 1, 3, Cells(0)) EXCEPT
             !.authority = 3, !.classes = [traffic |-> "t2", scheduling |-> NoClass]],
          [Sample("q2", "s1", "B", 2, 3, Cells(0)) EXCEPT !.authority = 1],
          [Sample("q1", "s1", "A", 1, 3, Cells(0)) EXCEPT !.valid = FALSE]}

\* Three sources that see two queues nearly empty or full, one of them in
\* bytes too, one of them with less authority, one reporting late, and one
\* without an occupancy.
ConflictSamples ==
    {Sample("q1", x, "A", 1, n, Cells(v)) : x \in {"s1", "s2"}, n \in 1..2, v \in {0, 9}}
    \cup {Sample("q2", "s1", "A", 1, 3, Cells(0)), Sample("q2", "s2", "A", 1, 3, Cells(9)),
          Sample("q1", "s2", "A", 1, 4, Bytes(9)),
          [Sample("q1", "s3", "A", 1, 1, Cells(9)) EXCEPT !.authority = 1],
          [Sample("q1", "s1", "A", 1, 4, Cells(9)) EXCEPT !.age = 1]}

\* A table that binds a class it describes, then one that it does not.
MetadataTables ==
    {[generation |-> 1, revision |-> r,
      bindings |-> [q \in {"q1"} |-> [traffic |-> IF r = 1 THEN "t1" ELSE "t2",
                                      scheduling |-> NoClass]],
      traffic |-> [t \in {"t1"} |-> "gold"], scheduling |-> {"gold"}] : r \in 1..2}
=============================================================================
