------------------------------ MODULE MCSegment -----------------------------
(* The snapshots and limits of the Segment run. *)
EXTENDS SegmentFormat

Sampled(head, values) == [head |-> head, values |-> values]
Entry(id, class) == [id |-> id, class |-> class]

Nothing == [NoSnapshot EXCEPT !.runtime = <<7>>, !.policy = 3]

\* Two queues, one without samples or class; a source, an event and a table.
Everything ==
    [runtime |-> <<7>>, policy |-> 3,
     queues |-> <<[id |-> 1, class |-> <<2>>, samples |-> <<Sampled(1, <<4>>), Sampled(2, <<>>)>>],
                  [id |-> 2, class |-> <<>>, samples |-> <<>>]>>,
     sources |-> <<[id |-> 1, recent |-> <<1, 2>>]>>,
     events |-> <<3>>,
     metadata |-> <<[head |-> 1, traffic |-> <<Entry(1, <<1>>)>>, scheduling |-> <<Entry(1, <<>>)>>,
                     bindings |-> <<>>]>>]

EventsOnly == [Nothing EXCEPT !.events = <<0, 1>>, !.runtime = <<>>]
LongName == [Nothing EXCEPT !.runtime = <<7, 7, 7>>]

MCSnapshots == {Nothing, Everything, EventsOnly, LongName}

Limit(segment, records, record, metadata) ==
    [segment |-> segment, records |-> records, record |-> record, metadata |-> metadata]

\* Limits that everything fits, and each of them too small for something.
MCLimits == {Limit(80, 6, 12, 12), Limit(80, 6, 8, 12), Limit(80, 6, 12, 7), Limit(80, 1, 12, 12),
             Limit(57, 6, 12, 12)}
=============================================================================
