------------------------------ MODULE Metadata ------------------------------
(***************************************************************************)
(* The class metadata table (src/src/model/Metadata.cpp): which traffic    *)
(* class and scheduling class a queue has when its samples do not say.     *)
(* A table is a record: its generation and revision, the bindings          *)
(* (queue -> classes), the traffic classes it describes (class -> the      *)
(* scheduling class it names, or NoClass) and the scheduling classes.      *)
(***************************************************************************)
EXTENDS Naturals

CONSTANT NoClass

NoClasses == [traffic |-> NoClass, scheduling |-> NoClass]

Or(a, b) == IF a # NoClass THEN a ELSE b

\* resolve_class_attributes: what the sample observed comes first, then the
\* queue's binding, then the scheduling class its traffic class names.
Resolve(table, queue, observed) ==
    LET bound == IF queue \in DOMAIN table.bindings THEN table.bindings[queue] ELSE NoClasses
        traffic == Or(observed.traffic, bound.traffic)
        named == IF traffic \in DOMAIN table.traffic THEN table.traffic[traffic] ELSE NoClass
        scheduling == Or(Or(observed.scheduling, bound.scheduling), named)
        classes == [traffic |-> traffic, scheduling |-> scheduling]
    IN [classes |-> classes,
        used |-> classes # observed,
        unknown |-> \/ traffic # NoClass /\ traffic \notin DOMAIN table.traffic
                    \/ scheduling # NoClass /\ scheduling \notin table.scheduling]

\* A stored table gives way to a newer generation, or to a newer revision of
\* the same one.
NewerTable(table, stored) ==
    \/ table.generation > stored.generation
    \/ table.generation = stored.generation /\ table.revision > stored.revision
=============================================================================
