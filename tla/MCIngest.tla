------------------------------ MODULE MCIngest ------------------------------
(* The documents of the Ingest run. *)
EXTENDS Ingest, MCStore

MCFields == {"occupancy_cells", "occupancy_bytes", "drops"}

Base(n) ==
    [queue |-> <<"d", "p", 0>>, source |-> "s", incarnation |-> "A", generation |-> 1,
     sequence |-> n, observed |-> n, domain |-> "clock", authority |-> 2, revision |-> 0,
     traffic |-> Absent, scheduling |-> Absent, values |-> Cells(1),
     declared |-> {"occupancy_cells"}]

\* Samples as a producer may hold them.
Produced ==
    {Base(2), [Base(2) EXCEPT !.observed = -1], [Base(2) EXCEPT !.observed = I63],
     [Base(2) EXCEPT !.queue = <<"d", "p", U32>>, !.authority = 3, !.revision = 2],
     [Base(2) EXCEPT !.source = "long"], [Base(2) EXCEPT !.domain = "long"],
     [Base(2) EXCEPT !.declared = {}], [Base(2) EXCEPT !.declared = {"drops"}],
     [Base(2) EXCEPT !.declared = {"occupancy_cells", "drops"}, !.incarnation = "B"],
     [Base(2) EXCEPT !.declared = MCFields],
     [Base(2) EXCEPT !.traffic = U16, !.scheduling = "gold", !.authority = 1],
     [Base(2) EXCEPT !.values = [f \in {"drops", "occupancy_bytes"} |-> 3], !.declared = {}]}

BaseTable(r) ==
    [revision |-> r, generation |-> 1, source |-> "s", authority |-> 2,
     traffic |-> <<[id |-> 1, name |-> "", dscp |-> Absent, pcp |-> 1, scheduling |-> "gold"]>>,
     scheduling |-> <<[id |-> "gold", mode |-> "wrr", weight |-> Absent]>>,
     bindings |-> <<[queue |-> <<"d", "p", 0>>, traffic |-> 1, scheduling |-> Absent]>>]

Twice(seq) == seq \o seq

ProducedTables ==
    {BaseTable(1), BaseTable(2), BaseTable(0), [BaseTable(1) EXCEPT !.generation = 2, !.authority = 0],
     [BaseTable(2) EXCEPT !.bindings = <<>>, !.traffic = <<[@[1] EXCEPT !.id = 0, !.dscp = U16]>>],
     [BaseTable(2) EXCEPT !.bindings = Twice(@)],
     [BaseTable(2) EXCEPT !.scheduling = Twice(@)],
     [BaseTable(2) EXCEPT !.traffic = Twice(Twice(@))],
     [BaseTable(2) EXCEPT !.scheduling = <<[@[1] EXCEPT !.weight = 3]>>,
                          !.bindings = <<[@[1] EXCEPT !.scheduling = "gold", !.traffic = Absent]>>]}

Json(v) == [form |-> "json", value |-> v]
Line(s) == Json(EncodeSample(s))
TableLine(t) == Json(EncodeTable(t))

\* A value as it is not meant to be.
Odd == {String("#!"), String("long"), String("x"), Number(I63 + 1), Number(-1), Number(0),
        [type |-> "other"], Array(<<>>), Array(<<[type |-> "other"]>>)}

Without(o, k) == Object([x \in DOMAIN o.members \ {k} |-> o.members[x]])
Replaced(o, k, v) == Object([x \in DOMAIN o.members \cup {k} |-> IF x = k THEN v ELSE o.members[x]])

\* A record with one member missing or odd.
Damaged(o, keys, odd) ==
    {Without(o, k) : k \in keys} \cup {Replaced(o, k, v) : k \in keys, v \in odd}

Full == EncodeSample([Base(2) EXCEPT !.revision = 1, !.traffic = 1, !.scheduling = "gold"])
FullTable == EncodeTable([BaseTable(2) EXCEPT
                            !.traffic = <<[@[1] EXCEPT !.dscp = 1]>>,
                            !.scheduling = <<[@[1] EXCEPT !.weight = 1]>>,
                            !.bindings = <<[@[1] EXCEPT !.scheduling = "gold"]>>])

Sections == {"traffic_classes", "scheduling_classes", "bindings"}

DamagedEntries ==
    UNION {{Replaced(FullTable, k, Array(<<e>>)) :
              e \in Damaged(FullTable.members[k].items[1],
                            DOMAIN FullTable.members[k].items[1].members,
                            {String("#!"), Number(U32), Number(U32 + 1)})
                    \cup {Number(1)}} : k \in Sections}

OddLines ==
    {Json(o) : o \in Damaged(Full, DOMAIN Full.members \cup {"extra", "long"}, Odd)
                     \cup Damaged(FullTable, DOMAIN FullTable.members, Odd) \cup DamagedEntries
                     \cup {Number(1), Object(<<>>), Replaced(Full, "kind", String("other")),
                           Replaced(Full, "v", Number(Version + 1)),
                           Replaced(Full, "declared", Array(<<String("drops"), String("x")>>)),
                           Replaced(Full, "extra", Array(<<Array(<<Array(<<Number(1)>>)>>)>>)),
                           Replaced(Full, "extra", Array([i \in 1..MaxBatchMetadata |-> Number(1)])),
                           Replaced(Replaced(Full, "extra", Number(1)), "more", Number(1)),
                           Replaced(FullTable, "extra", Array(<<Number(1), Number(1)>>)),
                           Replaced(FullTable, "bindings", Array(<<[type |-> "other"]>>))}}
    \cup {[form |-> f] : f \in {"skipped", "long", "broken"}}

Raw(lines) == [lines |-> lines, samples |-> <<>>, tables |-> <<>>]

\* One caller presents odd lines between good ones, and what producers write;
\* the others documents that meet its tables and samples.
MCDocuments ==
    [c1 |-> {Raw(<<Line(Base(1)), x, Line(Base(3))>>) : x \in OddLines}
            \cup {[lines |-> <<Line(s)>>, samples |-> <<s>>, tables |-> <<>>] :
                    s \in {x \in Produced : EncodableSample(x)}}
            \cup {[lines |-> <<TableLine(BaseTable(1)), TableLine(t), Line(Base(2))>>,
                   samples |-> <<Base(2)>>, tables |-> <<BaseTable(1), t>>] : t \in ProducedTables}
            \cup {Raw([i \in 1..4 |-> Line(Base(i))]), Raw([i \in 1..3 |-> TableLine(BaseTable(i))]),
                  Raw([i \in 1..5 |-> [form |-> "skipped"]]),
                  Raw([i \in 1..4 |-> [form |-> "broken"]])},
     c2 |-> {Raw(<<TableLine(BaseTable(2)), Line(Base(2))>>),
             Raw(<<Line([Base(1) EXCEPT !.queue = <<"d", "p", 1>>, !.incarnation = "B"]),
                   TableLine(BaseTable(1))>>),
             Raw(<<Line([Base(1) EXCEPT !.source = "t"]), Line([Base(4) EXCEPT !.generation = 2])>>)}]
=============================================================================
