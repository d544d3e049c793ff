------------------------- MODULE StoreCallers_proofs ------------------------
(***************************************************************************)
(* Proofs about what calls the store, each a composition of its own with   *)
(* module Store.                                                           *)
(*                                                                         *)
(* SnapshotCycle, the store across a restart, for any samples, limits and  *)
(* number of processes: what recovery brings back is attributed to the     *)
(* incarnation it was admitted under, is never taken for current, and      *)
(* leaves the fences as they were.                                         *)
(*                                                                         *)
(* Ingest, the calls of ingest_document, for any documents, callers and    *)
(* limits: a document is decoded line by line, none of its lines hiding    *)
(* another, its tables are in force before its samples, and the reports of *)
(* all calls add up to what the store counted.                             *)
(***************************************************************************)
EXTENDS SnapshotCycle, Ingest, Store_proofs

-----------------------------------------------------------------------------
(* Flattening *)

\* f[i] is the concatenation of the first i of n sequences.
Concatenates(f, s, n) ==
    f = [i \in 1..n |-> IF i = 1 THEN s[i] ELSE f[i - 1] \o s[i]]

\* There is such a function: the least n without one is not 0, and not the
\* successor of an n that has one.
LEMMA Concatenations ==
    ASSUME NEW S, NEW n \in Nat, NEW s \in [1..n -> Seq(S)]
    PROVE  \E f \in [1..n -> Seq(S)] : Concatenates(f, s, n)
<1> DEFINE Up(m, f) == Concatenates(f, s, m)
           Some(m) == \E f \in [1..m -> Seq(S)] : Up(m, f)
           T == {m \in 0..n : ~Some(m)}
<1>0. T \subseteq Nat
  <2> HIDE DEF Some
  <2> QED
    OBVIOUS
<1>1. CASE T = {}
  <2> HIDE DEF Some
  <2>1. n \notin T /\ n \in 0..n
    BY <1>1
  <2>2. Some(n)
    BY <2>1
  <2> QED
    BY <2>2 DEF Some
<1>2. CASE T # {}
  <2>1. PICK m \in T : \A k \in T : m <= k
    <3> HIDE DEF T
    <3> QED
      BY <1>0, <1>2, LeastNat
  <2>2. m \in 0..n /\ ~\E f \in [1..m -> Seq(S)] : Up(m, f)
    BY <2>1
  <2>3. m # 0
    <3>1. ASSUME m = 0 PROVE FALSE
      <4> DEFINE f == [i \in 1..0 |-> <<>>]
      <4>1. f \in [1..m -> Seq(S)] /\ Up(m, f)
        BY <3>1 DEF Concatenates
      <4> QED
        BY <2>2, <4>1
    <3> QED
      BY <3>1
  <2>4. m - 1 \in 0..n /\ m - 1 \notin T
    <3> HIDE DEF T
    <3> QED
      BY <2>1, <2>2, <2>3
  <2>5. PICK f \in [1..(m - 1) -> Seq(S)] : Up(m - 1, f)
    BY <2>4
  <2> HIDE DEF T
  <2> DEFINE g == [i \in 1..m |-> IF i = 1 THEN s[1] ELSE IF i = m THEN f[m - 1] \o s[m] ELSE f[i]]
  <2>6. m \in 1..n
    BY <2>2, <2>3
  <2>7. ASSUME NEW i \in 1..m PROVE g[i] \in Seq(S) /\ g[i] = (IF i = 1 THEN s[i] ELSE g[i - 1] \o s[i])
    <3>1. s[i] \in Seq(S) /\ i \in Nat
      BY <2>6
    <3>2. CASE i = 1
      BY <3>1, <3>2
    <3>3. CASE i # 1
      <4>1. i - 1 \in 1..(m - 1) /\ f[i - 1] \in Seq(S)
        BY <2>6, <3>3
      <4>2. g[i - 1] = f[i - 1]
        <5>1. CASE i - 1 = 1
          <6>1. f[1] = s[1]
            BY <2>5, <4>1, <5>1 DEF Concatenates
          <6> QED
            BY <2>6, <4>1, <5>1, <6>1
        <5>2. CASE i - 1 # 1
          BY <2>6, <4>1, <5>2
        <5> QED
          BY <5>1, <5>2
      <4>3. g[i] = f[i - 1] \o s[i]
        <5>1. CASE i = m
          BY <3>3, <5>1
        <5>2. CASE i # m
          <6>1. i \in 1..(m - 1)
            BY <2>6, <5>2
          <6>2. f[i] = f[i - 1] \o s[i]
            BY <2>5, <3>3, <6>1 DEF Concatenates
          <6> QED
            BY <3>3, <5>2, <6>2
        <5> QED
          BY <5>1, <5>2
      <4>4. f[i - 1] \o s[i] \in Seq(S)
        BY <3>1, <4>1
      <4> HIDE DEF g
      <4>5. g[i] \in Seq(S) /\ g[i] = g[i - 1] \o s[i]
        BY <4>2, <4>3, <4>4
      <4> QED
        BY <3>3, <4>5
    <3> QED
      BY <3>2, <3>3
  <2>8. g = [i \in 1..m |-> g[i]]
    OBVIOUS
  <2> HIDE DEF g
  <2>9. g \in [1..m -> Seq(S)] /\ Up(m, g)
    BY <2>7, <2>8 DEF Concatenates
  <2> QED
    BY <2>2, <2>9
<1> QED
  BY <1>1, <1>2

\* Flattening a sequence of sequences brings in no new entries.
LEMMA Flattened ==
    ASSUME NEW S, NEW ss \in Seq(Seq(S))
    PROVE  FlattenSeq(ss) \in Seq(S)
<1> DEFINE n == Len(ss)
           c == CHOOSE f : Concatenates(f, ss, n)
<1>1. CASE n = 0
  <2>1. ss = <<>>
    BY <1>1
  <2> QED
    BY <1>1, <2>1 DEF FlattenSeq
<1>2. CASE n # 0
  <2>1. n \in Nat /\ ss \in [1..n -> Seq(S)] /\ n \in 1..n
    BY <1>2
  <2>2. FlattenSeq(ss) = c[n]
    BY <1>2, Zenon DEF FlattenSeq, Concatenates
  <2> HIDE DEF n
  <2>3. PICK f \in [1..n -> Seq(S)] : Concatenates(f, ss, n)
    BY <2>1, Concatenations
  <2>4. Concatenates(c, ss, n)
    BY <2>3, Zenon
  <2> HIDE DEF c
  <2> DEFINE T == {i \in 1..n : f[i] # c[i]}
  <2>5. CASE T = {}
    <3>1. f[n] = c[n] /\ f[n] \in Seq(S)
      BY <2>1, <2>5
    <3> QED
      BY <2>2, <3>1
  <2>6. CASE T # {}
    <3>1. T \subseteq Nat
      BY <2>1
    <3>2. PICK i \in T : \A j \in T : i <= j
      BY <2>6, <3>1, LeastNat
    <3>3. i \in 1..n /\ f[i] # c[i]
      BY <3>2
    <3>4. i = 1 \/ (i - 1 \in 1..n /\ i - 1 \notin T)
      <4> HIDE DEF T
      <4> QED
        BY <2>1, <3>2, <3>3
    <3>5. i # 1 => f[i - 1] = c[i - 1]
      BY <3>4
    <3>6. f[i] = (IF i = 1 THEN ss[i] ELSE f[i - 1] \o ss[i])
      BY <2>3, <3>3 DEF Concatenates
    <3>7. c[i] = (IF i = 1 THEN ss[i] ELSE c[i - 1] \o ss[i])
      BY <2>4, <3>3 DEF Concatenates
    <3> QED
      BY <3>3, <3>5, <3>6, <3>7
  <2> QED
    BY <2>5, <2>6
<1> QED
  BY <1>1, <1>2
-----------------------------------------------------------------------------
(* The invariant *)

\* The sample behind record r of queue q, had it come under the given token.
EvidenceOf(q, r, token) ==
    [queue |-> q, source |-> r.source, incarnation |-> token, sequence |-> r.sequence,
     values |-> r.values]

\* x = [source, ordinal, token] says under which token the source's ordinal was
\* given out: its records, those there are and those to come, are samples
\* that were admitted live under that token.
Attributes(x) ==
    /\ x.source \in DOMAIN sources /\ x.ordinal \in Nat /\ x.ordinal < nextOrdinal
    /\ sources[x.source].ordinal = x.ordinal => sources[x.source].incarnation = x.token
    /\ \A q \in DOMAIN queues : \A i \in DOMAIN queues[q].history :
         LET r == queues[q].history[i] IN
         r.source = x.source /\ r.ordinal = x.ordinal => EvidenceOf(q, r, x.token) \in origin

\* A persisted record: a sample that was admitted live, or one whose
\* incarnation was not found.
IsDurable(q, d) ==
    /\ d.sequence \in Nat /\ d.generation \in Nat /\ d.authority \in Nat
    /\ d.incarnation # NoToken => EvidenceOf(q, d, d.incarnation) \in origin

DurableQueues(qs) ==
    /\ IsSequence(qs)
    /\ \A i \in DOMAIN qs : /\ IsSequence(qs[i].samples)
                            /\ \A j \in DOMAIN qs[i].samples :
                                 IsDurable(qs[i].queue, qs[i].samples[j])

\* The samples that recovery has yet to present.
Recoverable(batch) ==
    /\ IsSequence(batch)
    /\ \A s \in Range(batch) : IsSample(s) /\ (s.valid => Evidence(s) \in origin)

BuildingRight ==
    /\ building = [step |-> building.step, rows |-> building.rows, tokens |-> building.tokens,
                   queues |-> building.queues, events |-> building.events]
    /\ \A x \in building.tokens : Attributes(x)
    /\ DurableQueues(building.queues)

SegmentRight ==
    /\ segment = [present |-> segment.present, queues |-> segment.queues,
                  events |-> segment.events, metadata |-> segment.metadata]
    /\ DurableQueues(segment.queues)

RecoveryRight ==
    /\ recovery = [step |-> recovery.step, from |-> recovery.from, samples |-> recovery.samples]
    /\ Recoverable(recovery.samples)

\* A sample that was presented is behind its source's record, or its source
\* found no room and will find none.
Behindhand(x) ==
    LET s == x.sample
        r == sources[s.source]
    IN /\ IsSample(s) /\ x.next \in Nat /\ x.next <= nextOrdinal
       /\ s.valid /\ ~Known(s) => ~(Cardinality(DOMAIN sources) < MaxSources)
       /\ s.valid /\ Known(s) /\ r.incarnation = s.incarnation /\ r.ordinal < x.next =>
            \/ s.sequence <= r.last_sequence
            \/ s.generation < r.generation \/ s.authority < r.authority

\* The three properties, with what ties the store to the snapshot being built,
\* to the segment and to the recovery in progress.
CycleInv ==
    /\ SInv
    /\ \A x \in Remembered : Attributes(x)
    /\ \A o \in origin : DOMAIN o.values # {}
    /\ BuildingRight /\ SegmentRight /\ RecoveryRight
    /\ \A x \in presented : Behindhand(x)
    /\ RecoveredNeverCurrent
-----------------------------------------------------------------------------
(* One call on the store *)

\* A source that is remembered under an ordinal keeps its token.
LEMMA TokenKept ==
    ASSUME Registry, NEW s, NEW t, RegistryBecomes(s, t), NEW x, Attributes(x)
    PROVE  /\ x.source \in DOMAIN sources' /\ x.ordinal < nextOrdinal'
           /\ sources'[x.source].ordinal = x.ordinal => sources'[x.source].incarnation = x.token
<1>1. /\ x.source \in DOMAIN sources /\ x.ordinal \in Nat /\ x.ordinal < nextOrdinal
      /\ nextOrdinal \in Nat /\ nextOrdinal' \in Nat /\ nextOrdinal' >= nextOrdinal
      /\ DOMAIN sources' = DOMAIN sources \cup {s.source}
  BY DEF Attributes, Registry, RegistryBecomes
<1>2. sources[x.source].ordinal = x.ordinal => sources[x.source].incarnation = x.token
  BY DEF Attributes
<1>3. CASE x.source # s.source
  BY <1>1, <1>2, <1>3 DEF RegistryBecomes
<1>4. CASE x.source = s.source
  <2>1. sources'[x.source] = t /\ Forward(sources[x.source], t) /\ t.ordinal \in Nat
    BY <1>1, <1>4 DEF RegistryBecomes, Known, IsSource
  <2> QED
    BY <1>1, <1>2, <2>1 DEF Forward
<1> QED
  BY <1>3, <1>4

\* What is attributed stays attributed when a sample is presented: either the
\* histories do not change, or the sample is one that was admitted live.
LEMMA AttributionKept ==
    ASSUME SInv, NEW s, IsSample(s), Presents(s), origin \subseteq origin',
           queues' = queues \/ Evidence(s) \in origin',
           NEW x, Attributes(x)
    PROVE  Attributes(x)'
<1>0. Registry /\ KeptEvidence
  BY DEF SInv
<1>1. \A q \in DOMAIN queues : \A i \in DOMAIN queues[q].history :
         LET r == queues[q].history[i] IN
         r.source = x.source /\ r.ordinal = x.ordinal => EvidenceOf(q, r, x.token) \in origin'
  BY DEF Attributes
<1>2. CASE UNCHANGED <<sources, nextOrdinal, queues>>
  BY <1>1, <1>2 DEF Attributes
<1>3. ASSUME NEW t, RegistryBecomes(s, t), queues' = queues
      PROVE  Attributes(x)'
  BY <1>0, <1>1, <1>3, TokenKept DEF Attributes
<1>4. ASSUME NEW t, NEW e, RegistryBecomes(s, t), IsEntryOf(e, s, t), QueueBecomes(s, e),
             Evidence(s) \in origin'
      PROVE  Attributes(x)'
  <2>1. /\ x.source \in DOMAIN sources' /\ x.ordinal < nextOrdinal' /\ x.ordinal \in Nat
        /\ sources'[x.source].ordinal = x.ordinal => sources'[x.source].incarnation = x.token
    BY <1>0, <1>4, TokenKept DEF Attributes
  <2>2. PICK k \in [DOMAIN queues' -> Nat] : \A q \in DOMAIN queues' :
          LET h2 == queues'[q].history
          IN /\ IsSequence(h2)
             /\ \A i \in DOMAIN h2 :
                  \/ q = s.queue /\ i = Len(h2) /\ h2[i] = e
                  \/ /\ q \in DOMAIN queues
                     /\ i + k[q] \in DOMAIN queues[q].history
                     /\ h2[i] = queues[q].history[i + k[q]]
    BY <1>0, <1>4, EntriesAfter
  <2>3. ASSUME NEW q \in DOMAIN queues', NEW i \in DOMAIN queues'[q].history,
               queues'[q].history[i].source = x.source, queues'[q].history[i].ordinal = x.ordinal
        PROVE  EvidenceOf(q, queues'[q].history[i], x.token) \in origin'
    <3> DEFINE r == queues'[q].history[i]
    <3>1. CASE q = s.queue /\ r = e
      <4>1. /\ e.source = s.source /\ e.ordinal = t.ordinal /\ e.sequence = s.sequence
            /\ e.values = s.values /\ t.incarnation = s.incarnation /\ sources'[s.source] = t
        BY <1>4 DEF IsEntryOf, RegistryBecomes
      <4>2. x.token = s.incarnation
        BY <2>1, <2>3, <3>1, <4>1
      <4>3. EvidenceOf(q, r, x.token) = Evidence(s)
        BY <3>1, <4>1, <4>2 DEF EvidenceOf, Evidence
      <4> QED
        BY <1>4, <4>3
    <3>2. CASE q \in DOMAIN queues /\ i + k[q] \in DOMAIN queues[q].history
               /\ r = queues[q].history[i + k[q]]
      BY <1>1, <2>3, <3>2
    <3> QED
      BY <2>2, <3>1, <3>2
  <2> QED
    BY <2>1, <2>3 DEF Attributes
<1> QED
  BY <1>0, <1>2, <1>3, <1>4, PresentedSample
\* The incarnations the registry remembers after the step: those it already
\* remembered, and the sample's own.
LEMMA NewlyRemembered ==
    ASSUME SInv, \A x \in Remembered : Attributes(x),
           NEW s, IsSample(s), Presents(s), origin \subseteq origin',
           queues' = queues \/ Evidence(s) \in origin'
    PROVE  \A x \in Remembered' : Attributes(x)'
<1>0. Registry /\ KeptEvidence
  BY DEF SInv
<1>1. \A x \in Remembered : Attributes(x)'
  BY AttributionKept
<1>2. CASE UNCHANGED <<sources, nextOrdinal, queues>>
  <2>1. Remembered' = Remembered
    BY <1>2 DEF Remembered
  <2> QED
    BY <1>1, <2>1
<1>3. ASSUME NEW t, RegistryBecomes(s, t),
             NEW y \in Remembered',
             \A q \in DOMAIN queues' : \A i \in DOMAIN queues'[q].history :
               LET r == queues'[q].history[i]
               IN \/ q \in DOMAIN queues /\ r \in Range(queues[q].history)
                  \/ /\ r.source = s.source /\ r.ordinal = t.ordinal
                     /\ EvidenceOf(q, r, t.incarnation) \in origin'
      PROVE  Attributes(y)'
  <2>1. PICK x \in DOMAIN sources' : \E e \in Range(sources'[x].recent) :
              y = [source |-> x, ordinal |-> e.ordinal, token |-> e.token]
    BY <1>3 DEF Remembered
  <2>2. PICK e \in Range(sources'[x].recent) :
              y = [source |-> x, ordinal |-> e.ordinal, token |-> e.token]
    BY <2>1
  <2>3. y.source = x /\ y.ordinal = e.ordinal /\ y.token = e.token
    BY <2>2
  <2>4. CASE x \in DOMAIN sources /\ e \in Range(sources[x].recent)
    <3>1. y \in Remembered
      BY <2>2, <2>4 DEF Remembered
    <3> QED
      BY <1>1, <3>1
  <2>5. CASE ~(x \in DOMAIN sources /\ e \in Range(sources[x].recent))
    <3>1. x = s.source
      BY <1>3, <2>1, <2>2, <2>5 DEF RegistryBecomes
    <3>2. /\ sources'[x] = t /\ IsSource(t) /\ t.ordinal < nextOrdinal' /\ nextOrdinal' \in Nat
          /\ e \in Range(t.recent)
      BY <1>3, <2>2, <3>1 DEF RegistryBecomes
    <3>3. /\ e.ordinal \in Nat /\ e.ordinal <= t.ordinal /\ t.ordinal \in Nat
          /\ e.ordinal = t.ordinal => e.token = t.incarnation
      <4>1. Remembers(t.ordinal, t.incarnation, t.recent) /\ t.ordinal \in Nat
        BY <3>2 DEF IsSource
      <4>2. PICK j \in DOMAIN t.recent : e = t.recent[j]
        BY <3>2 DEF Range
      <4>3. /\ 1 \in DOMAIN t.recent
            /\ t.recent[1] = [token |-> t.incarnation, ordinal |-> t.ordinal]
        <5>1. IsSequence(t.recent) /\ Len(t.recent) \in 1..KeptIncarnations
          BY <4>1 DEF Remembers
        <5>2. Len(t.recent) \in Nat /\ DOMAIN t.recent = 1..Len(t.recent)
          BY <5>1, SequenceShape
        <5> QED
          BY <4>1, <5>1, <5>2 DEF Remembers
      <4>4. t.recent[1].ordinal = t.ordinal /\ t.recent[1].token = t.incarnation
        BY <4>3
      <4>5. e.ordinal \in Nat /\ e.ordinal <= t.ordinal
        BY <4>1, <4>2 DEF Remembers
      <4>6. ASSUME e.ordinal = t.ordinal PROVE j = 1
        BY <4>1, <4>2, <4>3, <4>4, <4>6 DEF Remembers
      <4> QED
        BY <4>1, <4>2, <4>4, <4>5, <4>6
    <3>4. x \in DOMAIN sources => e.ordinal >= nextOrdinal
      <4>1. ASSUME x \in DOMAIN sources PROVE Forward(sources[x], t)
        BY <1>3, <3>1, <4>1 DEF RegistryBecomes, Known
      <4> QED
        BY <2>5, <3>2, <4>1 DEF Forward
    <3>5. ASSUME NEW q \in DOMAIN queues, NEW r \in Range(queues[q].history), r.source = x
          PROVE  r.ordinal # e.ordinal
      <4>1. PICK i \in DOMAIN queues[q].history : r = queues[q].history[i]
        BY DEF Range
      <4>2. r.source \in DOMAIN sources /\ Behind(r, sources[r.source])
        BY <1>0, <4>1 DEF KeptEvidence
      <4>3. /\ sources[x].ordinal \in Nat /\ sources[x].ordinal < nextOrdinal
            /\ nextOrdinal \in Nat
        BY <1>0, <3>5, <4>2 DEF Registry, IsSource
      <4>4. r.ordinal \in Nat /\ r.ordinal <= sources[x].ordinal
        BY <3>5, <4>2, <4>3 DEF Behind
      <4> QED
        BY <3>3, <3>4, <3>5, <4>2, <4>3, <4>4
    <3>6. ASSUME NEW q \in DOMAIN queues', NEW i \in DOMAIN queues'[q].history,
                 queues'[q].history[i].source = x, queues'[q].history[i].ordinal = e.ordinal
          PROVE  EvidenceOf(q, queues'[q].history[i], e.token) \in origin'
      <4> DEFINE r == queues'[q].history[i]
      <4>1. ~(q \in DOMAIN queues /\ r \in Range(queues[q].history))
        BY <3>5, <3>6
      <4>2. r.ordinal = t.ordinal /\ EvidenceOf(q, r, t.incarnation) \in origin'
        BY <1>3, <4>1
      <4> QED
        BY <3>3, <3>6, <4>2
    <3> QED
      BY <2>1, <2>3, <3>2, <3>3, <3>6 DEF Attributes
  <2> QED
    BY <2>4, <2>5
<1>4. ASSUME NEW t, RegistryBecomes(s, t), queues' = queues
      PROVE  \A x \in Remembered' : Attributes(x)'
  <2>1. \A q \in DOMAIN queues' : \A i \in DOMAIN queues'[q].history :
           q \in DOMAIN queues /\ queues'[q].history[i] \in Range(queues[q].history)
    BY <1>4 DEF Range
  <2> QED
    BY <1>3, <1>4, <2>1
<1>5. ASSUME NEW t, NEW e, RegistryBecomes(s, t), IsEntryOf(e, s, t), QueueBecomes(s, e),
             Evidence(s) \in origin'
      PROVE  \A x \in Remembered' : Attributes(x)'
  <2>1. PICK k \in [DOMAIN queues' -> Nat] : \A q \in DOMAIN queues' :
          LET h2 == queues'[q].history
          IN /\ IsSequence(h2)
             /\ \A i \in DOMAIN h2 :
                  \/ q = s.queue /\ i = Len(h2) /\ h2[i] = e
                  \/ /\ q \in DOMAIN queues
                     /\ i + k[q] \in DOMAIN queues[q].history
                     /\ h2[i] = queues[q].history[i + k[q]]
    BY <1>0, <1>5, EntriesAfter
  <2>2. /\ e.source = s.source /\ e.ordinal = t.ordinal
        /\ EvidenceOf(s.queue, e, t.incarnation) = Evidence(s)
    BY <1>5 DEF IsEntryOf, EvidenceOf, Evidence
  <2>3. \A q \in DOMAIN queues' : \A i \in DOMAIN queues'[q].history :
           LET r == queues'[q].history[i]
           IN \/ q \in DOMAIN queues /\ r \in Range(queues[q].history)
              \/ /\ r.source = s.source /\ r.ordinal = t.ordinal
                 /\ EvidenceOf(q, r, t.incarnation) \in origin'
    BY <1>5, <2>1, <2>2 DEF Range
  <2> QED
    BY <1>3, <1>5, <2>3
<1> QED
  BY <1>0, <1>2, <1>4, <1>5, PresentedSample
\* A sample that was presented stays behind its source's record.
LEMMA BehindhandKept ==
    ASSUME Registry, NEW s, IsSample(s), Presents(s), NEW x, Behindhand(x)
    PROVE  Behindhand(x)'
<1> DEFINE p == x.sample
           r == sources[p.source]
<1>0. /\ IsSample(p) /\ x.next \in Nat /\ x.next <= nextOrdinal /\ nextOrdinal \in Nat
      /\ p.valid /\ ~Known(p) => ~(Cardinality(DOMAIN sources) < MaxSources)
      /\ p.valid /\ Known(p) /\ r.incarnation = p.incarnation /\ r.ordinal < x.next =>
            \/ p.sequence <= r.last_sequence
            \/ p.generation < r.generation \/ p.authority < r.authority
  BY DEF Behindhand, Registry
<1>1. CASE UNCHANGED <<sources, nextOrdinal>>
  BY <1>0, <1>1 DEF Behindhand, Known
<1>2. ASSUME NEW t, RegistryBecomes(s, t) PROVE Behindhand(x)'
  <2>1. nextOrdinal' \in Nat /\ x.next <= nextOrdinal'
    BY <1>0, <1>2 DEF RegistryBecomes
  <2>2. ASSUME p.valid, p.source \notin DOMAIN sources'
        PROVE  ~(Cardinality(DOMAIN sources') < MaxSources)
    <3>1. p.source \notin DOMAIN sources /\ ~(Cardinality(DOMAIN sources) < MaxSources)
      BY <1>0, <1>2, <2>2 DEF RegistryBecomes, Known
    <3>2. DOMAIN sources' = DOMAIN sources
      BY <1>2, <3>1 DEF RegistryBecomes, Known
    <3> QED
      BY <3>1, <3>2
  <2>3. ASSUME p.valid, p.source \in DOMAIN sources',
               sources'[p.source].incarnation = p.incarnation, sources'[p.source].ordinal < x.next
        PROVE  \/ p.sequence <= sources'[p.source].last_sequence
               \/ p.generation < sources'[p.source].generation
               \/ p.authority < sources'[p.source].authority
    <3>1. p.source \in DOMAIN sources
      BY <1>0, <1>2, <2>3 DEF RegistryBecomes, Known
    <3>2. /\ r.ordinal \in Nat /\ r.last_sequence \in Nat /\ r.generation \in Nat
          /\ r.authority \in Nat
      BY <3>1 DEF Registry, IsSource
    <3>3. CASE p.source # s.source
      <4>1. sources'[p.source] = r
        BY <1>2, <3>1, <3>3 DEF RegistryBecomes
      <4> QED
        BY <1>0, <2>3, <3>1, <4>1 DEF Known
    <3>4. CASE p.source = s.source
      <4>1. sources'[p.source] = t /\ Forward(r, t) /\ IsSource(t)
        BY <1>2, <3>1, <3>4 DEF RegistryBecomes, Known
      <4>2. /\ t.ordinal \in Nat /\ t.last_sequence \in Nat /\ t.generation \in Nat
            /\ t.authority \in Nat
        BY <4>1 DEF IsSource
      <4> HIDE DEF r, p
      <4>3. /\ t.generation >= r.generation /\ t.authority >= r.authority
            /\ t.ordinal = r.ordinal /\ t.incarnation = r.incarnation
            /\ t.last_sequence >= r.last_sequence
        BY <1>0, <2>3, <4>1, <4>2 DEF Forward
      <4>4. \/ p.sequence <= r.last_sequence
            \/ p.generation < r.generation \/ p.authority < r.authority
        BY <1>0, <2>3, <3>1, <4>1, <4>3 DEF Known
      <4>5. p.sequence \in Nat /\ p.generation \in Nat /\ p.authority \in Nat
        BY <1>0 DEF IsSample
      <4>6. \/ p.sequence <= t.last_sequence
            \/ p.generation < t.generation \/ p.authority < t.authority
        BY <3>2, <4>2, <4>3, <4>4, <4>5
      <4> QED
        BY <4>1, <4>6
    <3> QED
      BY <3>3, <3>4
  <2> QED
    BY <1>0, <2>1, <2>2, <2>3 DEF Behindhand, Known
<1> QED
  BY <1>1, <1>2, PresentedSample

\* A sample that was just presented is behind: a fence refused it, or it took
\* its sequence number, or there was no room for its source.
LEMMA JustPresented ==
    ASSUME Registry, NEW s, IsSample(s), Presents(s),
           NEW x, x.sample = s, x.next = nextOrdinal'
    PROVE  Behindhand(x)'
<1> DEFINE r == sources'[s.source]
<1>1. nextOrdinal' \in Nat
  BY PresentedSample DEF RegistryBecomes, Registry
<1>2. ASSUME s.valid, s.source \notin DOMAIN sources'
      PROVE  ~(Cardinality(DOMAIN sources') < MaxSources)
  <2>1. CASE RejectSourceLimit(s)
    BY <2>1 DEF RejectSourceLimit, Refuse, Registers
  <2>2. CASE ~RejectSourceLimit(s)
    <3>1. Known(s) \/ Registers(s)
      BY <1>2, <2>2 DEF Presents, RejectInvalid, FenceIncarnation, FenceGeneration, FenceAuthority,
                        FenceSequence, RejectQueueLimit, Accept
    <3>2. s.source \in DOMAIN sources'
      <4>1. CASE RejectQueueLimit(s) \/ \E recovered \in BOOLEAN : Accept(s, recovered)
        BY <4>1 DEF RejectQueueLimit, Accept, With
      <4>2. CASE FenceIncarnation(s) \/ FenceGeneration(s) \/ FenceAuthority(s) \/ FenceSequence(s)
        BY <4>2, FencedRegistry DEF RegistryBecomes
      <4> QED
        BY <1>2, <2>2, <4>1, <4>2 DEF Presents, RejectInvalid
    <3> QED
      BY <1>2, <3>2
  <2> QED
    BY <2>1, <2>2
<1>3. ASSUME s.valid, s.source \in DOMAIN sources', r.incarnation = s.incarnation
      PROVE  s.sequence <= r.last_sequence \/ s.generation < r.generation \/ s.authority < r.authority
  <2>0. s.sequence \in Nat /\ s.generation \in Nat /\ s.authority \in Nat
    BY DEF IsSample
  <2>1. CASE RejectSourceLimit(s)
    BY <1>3, <2>1 DEF RejectSourceLimit, Known
  <2>2. CASE FenceIncarnation(s)
    <3>1. Known(s) /\ sources[s.source].incarnation # s.incarnation
      BY <2>2 DEF FenceIncarnation, Superseded
    <3>2. IsSource(sources[s.source])
      BY <3>1 DEF Registry, Known
    <3>3. r = [sources[s.source] EXCEPT !.fenced = @ + 1]
      BY <2>2, <3>1 DEF FenceIncarnation, Fence, Known
    <3>4. r.incarnation = sources[s.source].incarnation
      BY <3>2, <3>3 DEF IsSource
    <3> QED
      BY <1>3, <3>1, <3>4
  <2>3. CASE FenceGeneration(s)
    <3>1. Known(s) /\ IsSource(Stage1(s)) /\ s.generation < Stage1(s).generation
      BY <2>3, Stages DEF FenceGeneration
    <3>2. r = [Stage1(s) EXCEPT !.fenced = @ + 1]
      BY <2>3, <3>1 DEF FenceGeneration, Fence, Known
    <3>3. r.generation = Stage1(s).generation
      BY <3>1, <3>2 DEF IsSource
    <3> QED
      BY <3>1, <3>3
  <2>4. CASE FenceAuthority(s)
    <3>1. Known(s) /\ IsSource(Stage2(s)) /\ s.authority < Stage2(s).authority
      BY <2>4, Stages DEF FenceAuthority
    <3>2. r = [Stage2(s) EXCEPT !.fenced = @ + 1]
      BY <2>4, <3>1 DEF FenceAuthority, Fence, Known
    <3>3. r.authority = Stage2(s).authority
      BY <3>1, <3>2 DEF IsSource
    <3> QED
      BY <3>1, <3>3
  <2>5. CASE FenceSequence(s)
    <3>1. Known(s) /\ IsSource(Stage3(s)) /\ s.sequence <= Stage3(s).last_sequence
      BY <2>5, Stages DEF FenceSequence
    <3>2. r = [Stage3(s) EXCEPT !.fenced = @ + 1, !.duplicates = @ + 1]
      BY <2>5, <3>1 DEF FenceSequence, Known
    <3>3. r.last_sequence = Stage3(s).last_sequence
      BY <3>1, <3>2 DEF IsSource
    <3> QED
      BY <3>1, <3>3
  <2>6. CASE RejectQueueLimit(s) \/ \E recovered \in BOOLEAN : Accept(s, recovered)
    <3>1. Registers(s)
      BY <2>6 DEF RejectQueueLimit, Accept
    <3>2. IsSource(Registered(s)) /\ Registered(s).last_sequence = s.sequence
      BY <3>1, RegisteredRecord
    <3>3. r = Registered(s) \/ r = [Registered(s) EXCEPT !.accepted = @ + 1]
      BY <2>6 DEF RejectQueueLimit, Accept, With
    <3>4. r.last_sequence = s.sequence
      BY <3>2, <3>3 DEF IsSource
    <3> QED
      BY <2>0, <3>4
  <2> QED
    BY <1>3, <2>1, <2>2, <2>3, <2>4, <2>5, <2>6 DEF Presents, RejectInvalid
<1>4. x.next \in Nat /\ x.next <= nextOrdinal'
  BY <1>1
<1>5. (s.valid /\ ~Known(s) => ~(Cardinality(DOMAIN sources) < MaxSources))'
  BY <1>2 DEF Known
<1>6. (s.valid /\ Known(s) /\ sources[s.source].incarnation = s.incarnation =>
         \/ s.sequence <= sources[s.source].last_sequence
         \/ s.generation < sources[s.source].generation
         \/ s.authority < sources[s.source].authority)'
  BY <1>3 DEF Known
<1> QED
  BY <1>4, <1>5, <1>6 DEF Behindhand

\* What is behind does not pass the fences again.
LEMMA BehindIsFenced ==
    ASSUME Registry, \A x \in presented : Behindhand(x)
    PROVE  ReplayStaysFenced
<1> SUFFICES ASSUME NEW x \in presented, x.sample.valid, Known(x.sample),
                    NEW e \in Range(sources[x.sample.source].recent),
                    e.token = x.sample.incarnation, e.ordinal < x.next, FencesPass(x.sample)
             PROVE  FALSE
  BY DEF ReplayStaysFenced
<1> DEFINE s == x.sample
           r == sources[s.source]
<1>1. /\ IsSource(r) /\ IsSample(s) /\ ~Superseded(r, s)
      /\ Remembers(r.ordinal, r.incarnation, r.recent)
  BY DEF Registry, Known, Behindhand, FencesPass, IsSource
<1>2. PICK i \in DOMAIN r.recent : e = r.recent[i]
  BY DEF Range
<1>3. r.incarnation = s.incarnation
  <2>1. e.ordinal <= r.ordinal
    BY <1>1, <1>2 DEF Remembers
  <2> QED
    BY <1>1, <1>2, <2>1 DEF Superseded
<1>4. e.ordinal = r.ordinal
  <2>1. IsSequence(r.recent) /\ Len(r.recent) \in 1..KeptIncarnations
    BY <1>1 DEF Remembers
  <2>2. Len(r.recent) \in Nat /\ DOMAIN r.recent = 1..Len(r.recent)
    BY <2>1, SequenceShape
  <2>3. 1 \in DOMAIN r.recent /\ r.recent[1] = [token |-> r.incarnation, ordinal |-> r.ordinal]
    <3>1. 1 \in DOMAIN r.recent
      <4> HIDE DEF r
      <4> QED BY <2>1, <2>2
    <3>2. r.recent[1] = [token |-> r.incarnation, ordinal |-> r.ordinal]
      <4> HIDE DEF r
      <4> QED BY <1>1 DEF Remembers
    <3> QED BY <3>1, <3>2
  <2>4. i = 1
    <3>1. r.recent[1].token = r.recent[i].token
      BY <1>2, <1>3, <2>3
    <3> QED
      BY <1>1, <2>3, <3>1 DEF Remembers
  <2>5. r.recent[1].ordinal = r.ordinal
    BY <2>3
  <2> QED
    BY <1>2, <2>4, <2>5
<1>5. s.sequence <= r.last_sequence \/ s.generation < r.generation \/ s.authority < r.authority
  BY <1>3, <1>4 DEF Behindhand
<1>6. /\ Stage1(s) = r /\ s.generation >= r.generation
      /\ s.authority >= Stage2(s).authority /\ s.sequence > Stage3(s).last_sequence
  BY <1>3 DEF FencesPass, Stage1, AfterIncarnation
<1>7. IsSource(Stage2(s))
  BY <1>1, Stages
<1>8. Stage2(s).authority = r.authority /\ Stage2(s).last_sequence = r.last_sequence
  BY <1>1, <1>6 DEF Stage2, AfterGeneration, IsSource
<1>9. Stage3(s).last_sequence = r.last_sequence
  BY <1>7, <1>8 DEF Stage3, AfterAuthority, IsSource
<1>10. /\ s.sequence \in Nat /\ s.generation \in Nat /\ s.authority \in Nat
       /\ r.last_sequence \in Nat /\ r.generation \in Nat /\ r.authority \in Nat
  BY <1>1 DEF IsSample, IsSource
<1> HIDE DEF r, s
<1> QED
  BY <1>5, <1>6, <1>8, <1>9, <1>10
\* What RecoveredNeverCurrent says of one record.
NotCurrent(e) ==
    e.assessment.recovered => e.state \in {"stale", "conflicting"} /\ ~EstablishesCurrent(e.assessment)

\* The record of a sample that reports something is not current when the
\* sample was read back.
LEMMA AdmittedState ==
    ASSUME NEW s, NEW recovered, Accept(s, recovered), DOMAIN s.values # {}
    PROVE  \E e : /\ queues'[s.queue].history =
                       Newest(Append(Queue(s.queue).history, e), MaxSamplesPerQueue)
                  /\ NotCurrent(e)
<1> DEFINE a == Assess(s, recovered)
           received == Received(s, recovered)
           q == Queue(s.queue)
           p == Peer(s, received)
           Input(conflict, sums) == [values |-> s.values, quality |-> a.quality,
                                     freshness |-> a.freshness, conflict |-> conflict,
                                     sums |-> sums]
<1>1. PICK conflict, deltas, sums :
         queues' = With(queues, s.queue, QueueAfter(q, s, p, conflict,
                     RecordOf(s, received, a, deltas, Classify(Input(conflict, sums)))))
  BY Zenon DEF Accept
<1>2. /\ a.recovered = recovered /\ a.quality \in {"incomplete", "complete"}
      /\ a.freshness = Capped(FreshnessOf(now - received), recovered)
  BY DEF Assess
<1>3. ASSUME recovered PROVE a.freshness # "fresh"
  BY <1>2, <1>3 DEF Capped
<1> HIDE DEF a
<1> DEFINE state == Classify(Input(conflict, sums))
           e == RecordOf(s, received, a, deltas, state)
           q2 == QueueAfter(q, s, p, conflict, e)
<1>4. ASSUME recovered PROVE state \in {"stale", "conflicting"}
  BY <1>2, <1>3, <1>4 DEF Classify
<1> HIDE DEF state
<1>5. e.assessment = a /\ e.state = state
  BY DEF RecordOf
<1> HIDE DEF e
<1>6. NotCurrent(e)
  BY <1>2, <1>3, <1>4, <1>5 DEF NotCurrent, EstablishesCurrent
<1>7. q2.history = Newest(Append(Queue(s.queue).history, e), MaxSamplesPerQueue)
  BY DEF QueueAfter
<1> HIDE DEF q2
<1>8. queues'[s.queue] = q2
  BY <1>1 DEF With, q2, e, state
<1> QED
  BY <1>6, <1>7, <1>8

\* RecoveredNeverCurrent record by record.
LEMMA NoneCurrent ==
    RecoveredNeverCurrent <=>
      \A q \in DOMAIN queues : \A i \in DOMAIN queues[q].history : NotCurrent(queues[q].history[i])
BY DEF RecoveredNeverCurrent, NotCurrent

\* Presenting a sample keeps it, if whatever is admitted reports something.
LEMMA CurrencyKept ==
    ASSUME SInv, RecoveredNeverCurrent, NEW s, IsSample(s), Presents(s),
           queues' = queues \/ DOMAIN s.values # {}
    PROVE  RecoveredNeverCurrent'
<1>0. Registry /\ KeptEvidence
  BY DEF SInv
<1>1. CASE queues' = queues
  BY <1>1 DEF RecoveredNeverCurrent
<1>2. CASE queues' # queues
  <2>1. PICK recovered \in BOOLEAN : Accept(s, recovered)
    BY <1>2 DEF Presents, RejectInvalid, RejectSourceLimit, FenceIncarnation, FenceGeneration,
                FenceAuthority, FenceSequence, RejectQueueLimit, Fence, Refuse
  <2>2. PICK t, d : RegistryBecomes(s, t) /\ IsEntryOf(d, s, t) /\ QueueBecomes(s, d)
    BY <1>0, <2>1, AcceptedSample
  <2>3. PICK e : /\ queues'[s.queue].history =
                      Newest(Append(Queue(s.queue).history, e), MaxSamplesPerQueue)
                 /\ NotCurrent(e)
    BY <1>2, <2>1, AdmittedState
  <2>4. QueueBecomes(s, d)
    BY <2>2
  <2>5. PICK k \in [DOMAIN queues' -> Nat] : \A q \in DOMAIN queues' :
          LET h2 == queues'[q].history
          IN /\ IsSequence(h2)
             /\ \A i \in DOMAIN h2 :
                  \/ q = s.queue /\ i = Len(h2) /\ h2[i] = d
                  \/ /\ q \in DOMAIN queues
                     /\ i + k[q] \in DOMAIN queues[q].history
                     /\ h2[i] = queues[q].history[i + k[q]]
    BY <1>0, <2>4, EntriesAfter
  <2>6. IsSequence(Queue(s.queue).history)
    <3>1. CASE Tracked(s.queue)
      BY <1>0, <3>1 DEF KeptEvidence, Queue, Tracked
    <3>2. CASE ~Tracked(s.queue)
      <4>1. Queue(s.queue).history = <<>>
        BY <3>2 DEF Queue, NewQueue
      <4> QED
        BY <4>1 DEF IsSequence
    <3> QED
      BY <3>1, <3>2
  <2>7. queues'[s.queue].history[Len(queues'[s.queue].history)] = e
    BY <2>3, <2>6, HistoryAfter DEF TookEntry
  <2>8. ASSUME NEW q \in DOMAIN queues', NEW i \in DOMAIN queues'[q].history
        PROVE  NotCurrent(queues'[q].history[i])
    <3>1. CASE q = s.queue /\ i = Len(queues'[q].history)
      BY <2>3, <2>7, <3>1
    <3>2. CASE /\ q \in DOMAIN queues /\ i + k[q] \in DOMAIN queues[q].history
               /\ queues'[q].history[i] = queues[q].history[i + k[q]]
      BY <3>2, NoneCurrent
    <3> QED
      BY <2>5, <3>1, <3>2
  <2> QED
    BY <2>8 DEF RecoveredNeverCurrent, NotCurrent
<1> QED
  BY <1>1, <1>2
-----------------------------------------------------------------------------
(* The steps of build_snapshot and of recovery *)

\* A walk of queues_ meets tracked queues only.
LEMMA ListedQueues ==
    Listed \in Seq(DOMAIN queues)
<1> DEFINE ss == [i \in DOMAIN QueueOrder |-> When(Tracked(QueueOrder[i]), QueueOrder[i])]
<1>1. DOMAIN QueueOrder = 1..Len(QueueOrder) /\ Len(QueueOrder) \in Nat
  BY SnapshotAssumption
<1>2. ASSUME NEW i \in DOMAIN QueueOrder PROVE ss[i] \in Seq(DOMAIN queues)
  <2>1. CASE Tracked(QueueOrder[i])
    <3>1. ss[i] = <<QueueOrder[i]>> /\ QueueOrder[i] \in DOMAIN queues
      BY <2>1 DEF When, Tracked
    <3>2. \A S : \A x \in S : <<x>> \in Seq(S)
      OBVIOUS
    <3> QED
      BY <3>1, <3>2
  <2>2. CASE ~Tracked(QueueOrder[i])
    <3>1. ss[i] = <<>>
      BY <2>2 DEF When
    <3> QED
      BY <3>1
  <2> QED
    BY <2>1, <2>2
<1>3. ss \in Seq(Seq(DOMAIN queues))
  BY <1>1, <1>2
<1> QED
  BY <1>3, Flattened DEF Listed

\* What the queues are turned into can be persisted.
LEMMA QueuesRead ==
    ASSUME SInv, \A x \in building.tokens : Attributes(x)
    PROVE  DurableQueues([i \in DOMAIN Listed |->
                [queue |-> Listed[i],
                 classes |-> IF Listed[i] \in DOMAIN building.rows THEN building.rows[Listed[i]]
                             ELSE NoClasses,
                 samples |-> [j \in DOMAIN queues[Listed[i]].history |->
                                Durable(queues[Listed[i]].history[j])]]])
<1> DEFINE row(i) == [queue |-> Listed[i],
                      classes |-> IF Listed[i] \in DOMAIN building.rows
                                  THEN building.rows[Listed[i]] ELSE NoClasses,
                      samples |-> [j \in DOMAIN queues[Listed[i]].history |->
                                     Durable(queues[Listed[i]].history[j])]]
           qs == [i \in DOMAIN Listed |-> row(i)]
<1>1. /\ DOMAIN Listed = 1..Len(Listed) /\ Len(Listed) \in Nat
      /\ \A i \in DOMAIN Listed : Listed[i] \in DOMAIN queues
  BY ListedQueues
<1>2. ASSUME NEW i \in DOMAIN Listed
      PROVE  /\ row(i).queue = Listed[i]
             /\ IsSequence(row(i).samples)
             /\ \A j \in DOMAIN row(i).samples : IsDurable(Listed[i], row(i).samples[j])
  <2> DEFINE q == Listed[i]
             h == queues[q].history
             ds == [j \in DOMAIN h |-> Durable(h[j])]
  <2>1. row(i).queue = q /\ row(i).samples = ds
    OBVIOUS
  <2>2. q \in DOMAIN queues /\ IsSequence(h)
    BY <1>1 DEF SInv, KeptEvidence
  <2>3. DOMAIN h = 1..Len(h) /\ Len(h) \in Nat
    BY <2>2, SequenceShape
  <2>4. IsSequence(ds)
    <3> HIDE DEF h
    <3> DEFINE D == {Durable(h[j]) : j \in DOMAIN h}
    <3>1. ds \in Seq(D)
      BY <2>3
    <3> QED
      BY <3>1, SequenceOf
  <2>5. ASSUME NEW j \in DOMAIN h PROVE IsDurable(q, Durable(h[j]))
    <3> DEFINE r == h[j]
               found == {x \in building.tokens : x.source = r.source /\ x.ordinal = r.ordinal}
    <3>1. Behind(r, sources[r.source])
      BY <2>2 DEF SInv, KeptEvidence
    <3>2. /\ Durable(r).sequence = r.sequence /\ Durable(r).generation = r.generation
          /\ Durable(r).authority = r.assessment.authority
          /\ Durable(r).incarnation = TokenOf(r) /\ Durable(r).source = r.source
          /\ Durable(r).values = r.values
      BY DEF Durable
    <3>3. ASSUME TokenOf(r) # NoToken
          PROVE  EvidenceOf(q, r, TokenOf(r)) \in origin
      <4>1. found # {} /\ TokenOf(r) = (CHOOSE x \in found : TRUE).token
        BY <3>3 DEF TokenOf
      <4>2. PICK x \in found : TokenOf(r) = x.token
        BY <4>1
      <4>3. x \in building.tokens /\ x.source = r.source /\ x.ordinal = r.ordinal /\ Attributes(x)
        BY <4>2
      <4>4. EvidenceOf(q, r, x.token) \in origin
        BY <2>2, <4>3 DEF Attributes
      <4> QED
        BY <4>2, <4>4
    <3>4. EvidenceOf(q, Durable(r), TokenOf(r)) = EvidenceOf(q, r, TokenOf(r))
      BY <3>2 DEF EvidenceOf
    <3> HIDE DEF r
    <3>5. IsDurable(q, Durable(r))
      BY <3>1, <3>2, <3>3, <3>4 DEF IsDurable, Behind
    <3> QED
      BY <3>5 DEF r
  <2> HIDE DEF h
  <2> QED
    BY <2>1, <2>4, <2>5
<1>3. IsSequence(qs)
  <2> HIDE DEF row
  <2> DEFINE R == {row(i) : i \in DOMAIN Listed}
  <2>1. qs \in Seq(R)
    BY <1>1
  <2> QED
    BY <2>1, SequenceOf
<1> HIDE DEF row
<1>4. DurableQueues(qs)
  BY <1>2, <1>3 DEF DurableQueues
<1> QED
  BY <1>4 DEF row

\* What recovery makes of the records of a segment.
LEMMA BatchOf ==
    ASSUME NEW g, DurableQueues(g.queues)
    PROVE  Recoverable(PresentedIn(g))
<1> DEFINE qs == g.queues
           batch(i) == [j \in DOMAIN qs[i].samples |-> Presented(qs[i], qs[i].samples[j])]
           ss == [i \in DOMAIN qs |-> batch(i)]
           S == UNION {Range(batch(i)) : i \in DOMAIN qs}
<1>0. DOMAIN qs = 1..Len(qs) /\ Len(qs) \in Nat
  BY SequenceShape DEF DurableQueues
<1>1. ASSUME NEW i \in DOMAIN qs PROVE batch(i) \in Seq(S)
  <2>1. IsSequence(qs[i].samples)
    BY DEF DurableQueues
  <2>2. DOMAIN qs[i].samples = 1..Len(qs[i].samples) /\ Len(qs[i].samples) \in Nat
    BY <2>1, SequenceShape
  <2>3. batch(i) = [j \in 1..Len(qs[i].samples) |-> batch(i)[j]] /\ DOMAIN batch(i) = DOMAIN qs[i].samples
    BY <2>2
  <2> HIDE DEF batch
  <2>4. \A j \in DOMAIN batch(i) : batch(i)[j] \in S
    BY DEF Range
  <2> QED
    BY <2>2, <2>3, <2>4
<1>2. \A s \in S : IsSample(s) /\ (s.valid => Evidence(s) \in origin)
  <2> SUFFICES ASSUME NEW s \in S PROVE IsSample(s) /\ (s.valid => Evidence(s) \in origin)
    OBVIOUS
  <2>1. PICK i \in DOMAIN qs : s \in Range(batch(i))
    OBVIOUS
  <2>2. PICK j \in DOMAIN qs[i].samples : s = Presented(qs[i], qs[i].samples[j])
    BY <2>1 DEF Range
  <2> DEFINE d == qs[i].samples[j]
  <2>3. IsDurable(qs[i].queue, d)
    BY DEF DurableQueues
  <2>4. /\ s.sequence = d.sequence /\ s.generation = d.generation /\ s.authority = d.authority
        /\ s.valid = (d.incarnation # NoToken)
        /\ Evidence(s) = EvidenceOf(qs[i].queue, d, d.incarnation)
    BY <2>2 DEF Presented, Evidence, EvidenceOf
  <2> QED
    BY <2>3, <2>4 DEF IsDurable, IsSample
<1> HIDE DEF S, batch
<1>3. ss \in Seq(Seq(S))
  BY <1>0, <1>1
<1>4. PresentedIn(g) = FlattenSeq(ss)
  BY DEF PresentedIn, batch
<1> HIDE DEF ss
<1>5. PresentedIn(g) \in Seq(S)
  BY <1>3, <1>4, Flattened
<1>6. IsSequence(PresentedIn(g)) /\ Range(PresentedIn(g)) \subseteq S
  <2>1. \A b \in Seq(S) : Range(b) \subseteq S
    BY DEF Range
  <2> QED
    BY <1>5, <2>1, SequenceOf
<1> QED
  BY <1>2, <1>6 DEF Recoverable
\* What more samples admitted live add to the persisted ones.
LEMMA OriginGrows ==
    ASSUME origin \subseteq origin'
    PROVE  /\ \A qs : DurableQueues(qs) => DurableQueues(qs)'
           /\ \A batch : Recoverable(batch) => Recoverable(batch)'
<1>1. \A q, d : IsDurable(q, d) => IsDurable(q, d)'
  BY DEF IsDurable, EvidenceOf
<1>2. \A qs : DurableQueues(qs) => DurableQueues(qs)'
  BY <1>1 DEF DurableQueues, IsSequence
<1>3. \A batch : Recoverable(batch) => Recoverable(batch)'
  BY DEF Recoverable, IsSequence, IsSample, Evidence
<1> QED
  BY <1>2, <1>3

\* The part of the invariant that is about the store, once a sample was
\* presented.
LEMMA PresentedCycle ==
    ASSUME CycleInv, NEW s, IsSample(s), Presents(s), origin \subseteq origin',
           queues' = queues \/ (Evidence(s) \in origin' /\ DOMAIN s.values # {})
    PROVE  /\ SInv' /\ (\A x \in Remembered' : Attributes(x)') /\ RecoveredNeverCurrent'
           /\ \A x \in building.tokens : Attributes(x)'
           /\ \A x \in presented : Behindhand(x)'
<1>1. /\ SInv /\ Registry /\ RecoveredNeverCurrent /\ (\A x \in Remembered : Attributes(x))
      /\ (\A x \in building.tokens : Attributes(x)) /\ (\A x \in presented : Behindhand(x))
  BY DEF CycleInv, SInv, BuildingRight
<1>2. SInv'
  BY <1>1, PresentedKeeps
<1>3. \A x \in Remembered' : Attributes(x)'
  BY <1>1, NewlyRemembered
<1>4. RecoveredNeverCurrent'
  BY <1>1, CurrencyKept
<1>5. \A x \in building.tokens : Attributes(x)'
  BY <1>1, AttributionKept
<1>6. \A x \in presented : Behindhand(x)'
  BY <1>1, BehindhandKept
<1> QED
  BY <1>2, <1>3, <1>4, <1>5, <1>6

\* The same when the registry and the histories do not move.
LEMMA UnmovedCycle ==
    ASSUME CycleInv, UNCHANGED <<sources, nextOrdinal, queues, origin>>
    PROVE  /\ SInv' /\ Remembered' = Remembered /\ RecoveredNeverCurrent'
           /\ \A x \in Remembered' : Attributes(x)'
           /\ \A x : Attributes(x) => Attributes(x)'
           /\ \A x : Behindhand(x) => Behindhand(x)'
           /\ \A qs : DurableQueues(qs) => DurableQueues(qs)'
           /\ \A batch : Recoverable(batch) => Recoverable(batch)'
           /\ \A o \in origin' : DOMAIN o.values # {}
<1>1. SInv'
  BY DEF CycleInv, SInv, Registry, KeptEvidence, HistoryFenced, SequenceUsedOnce, IsSource,
         IsSequence, Behind
<1>2. Remembered' = Remembered
  BY DEF Remembered
<1>3. \A x : Attributes(x) => Attributes(x)'
  BY DEF Attributes, EvidenceOf
<1>4. \A x : Behindhand(x) => Behindhand(x)'
  BY DEF Behindhand, IsSample, Known
<1>5. RecoveredNeverCurrent'
  BY DEF CycleInv, RecoveredNeverCurrent
<1> QED
  BY <1>1, <1>2, <1>3, <1>4, <1>5, OriginGrows DEF CycleInv

\* A live sample.
LEMMA LiveCycle ==
    ASSUME CycleInv, NEW s \in Samples, LiveRefused(s) \/ LiveAccepted(s)
    PROVE  CycleInv'
<1>1. IsSample(s) /\ (s.valid => DOMAIN s.values # {})
  BY StoreAssumption DEF IsSample
<1>2. Presents(s) /\ UNCHANGED <<building, segment, recovery, presented>>
  BY DEF LiveRefused, LiveAccepted, Presents, AcceptLive
<1>3. /\ origin \subseteq origin' /\ \A o \in origin' : DOMAIN o.values # {}
      /\ queues' = queues \/ (Evidence(s) \in origin' /\ DOMAIN s.values # {})
  <2>1. CASE LiveRefused(s)
    <3>1. origin' = origin /\ queues' = queues
      BY <2>1 DEF LiveRefused, RejectInvalid, RejectSourceLimit, FenceIncarnation,
                  FenceGeneration, FenceAuthority, FenceSequence, RejectQueueLimit, Fence, Refuse
    <3> QED
      BY <3>1 DEF CycleInv
  <2>2. CASE LiveAccepted(s)
    <3>1. origin' = origin \cup {Evidence(s)} /\ s.valid
      BY <2>2 DEF LiveAccepted, AcceptLive, Accept
    <3>2. Evidence(s).values = s.values
      BY DEF Evidence
    <3> QED
      BY <1>1, <3>1, <3>2 DEF CycleInv
  <2> QED
    BY <2>1, <2>2
<1>4. /\ SInv' /\ (\A x \in Remembered' : Attributes(x)') /\ RecoveredNeverCurrent'
      /\ \A x \in building.tokens : Attributes(x)'
      /\ \A x \in presented : Behindhand(x)'
  BY <1>1, <1>2, <1>3, PresentedCycle
<1>5. BuildingRight'
  <2>1. building' = building /\ DurableQueues(building.queues)'
    BY <1>2, <1>3, OriginGrows DEF CycleInv, BuildingRight
  <2> QED
    BY <1>4, <2>1 DEF CycleInv, BuildingRight
<1>6. SegmentRight' /\ RecoveryRight'
  BY <1>2, <1>3, OriginGrows DEF CycleInv, SegmentRight, RecoveryRight
<1> QED
  BY <1>2, <1>3, <1>4, <1>5, <1>6 DEF CycleInv
\* The steps of build_snapshot.
LEMMA BuildCycle ==
    ASSUME CycleInv, ReadRows \/ ReadSources \/ ReadQueues \/ ReadEvents \/ Publish
    PROVE  CycleInv'
<1>1. /\ UNCHANGED <<sources, nextOrdinal, queues, origin>>
      /\ recovery' = recovery /\ presented' = presented
  BY DEF ReadRows, ReadSources, ReadQueues, ReadEvents, Publish, Reads, vars
<1>2. /\ SInv' /\ RecoveredNeverCurrent' /\ (\A x \in Remembered' : Attributes(x)')
      /\ (\A x : Attributes(x) => Attributes(x)') /\ (\A x : Behindhand(x) => Behindhand(x)')
      /\ (\A qs : DurableQueues(qs) => DurableQueues(qs)')
      /\ (\A batch : Recoverable(batch) => Recoverable(batch)')
      /\ (\A o \in origin' : DOMAIN o.values # {})
  BY <1>1, UnmovedCycle
<1>3. RecoveryRight' /\ \A x \in presented' : Behindhand(x)'
  BY <1>1, <1>2 DEF CycleInv, RecoveryRight
<1>4. BuildingRight /\ SegmentRight /\ SInv
  BY DEF CycleInv
<1>5. BuildingRight' /\ SegmentRight'
  <2>1. CASE ReadRows
    <3>1. segment' = segment /\ \E rows :
            building' = [[NotBuilding EXCEPT !.rows = rows] EXCEPT !.step = "sources"]
      BY <2>1 DEF ReadRows, Reads
    <3>2. building'.tokens = {} /\ building'.queues = <<>>
          /\ building' = [step |-> building'.step, rows |-> building'.rows, tokens |-> building'.tokens,
                          queues |-> building'.queues, events |-> building'.events]
      BY <3>1 DEF NotBuilding
    <3>3. DurableQueues(<<>>)'
      BY DEF DurableQueues, IsSequence
    <3> QED
      BY <1>2, <1>4, <3>1, <3>2, <3>3 DEF BuildingRight, SegmentRight
  <2>2. CASE ReadSources
    <3>1. /\ segment' = segment
          /\ building' = [[building EXCEPT !.tokens = Remembered] EXCEPT !.step = "queues"]
      BY <2>2 DEF ReadSources, Reads
    <3>2. /\ building'.tokens = Remembered /\ building'.queues = building.queues
          /\ building' = [step |-> building'.step, rows |-> building'.rows, tokens |-> building'.tokens,
                          queues |-> building'.queues, events |-> building'.events]
      BY <1>4, <3>1 DEF BuildingRight
    <3>3. \A x \in Remembered : Attributes(x)
      BY DEF CycleInv
    <3> QED
      BY <1>2, <1>4, <3>1, <3>2, <3>3 DEF BuildingRight, SegmentRight
  <2>3. CASE ReadQueues
    <3> DEFINE qs == [i \in DOMAIN Listed |->
                       [queue |-> Listed[i],
                        classes |-> IF Listed[i] \in DOMAIN building.rows
                                    THEN building.rows[Listed[i]] ELSE NoClasses,
                        samples |-> [j \in DOMAIN queues[Listed[i]].history |->
                                       Durable(queues[Listed[i]].history[j])]]]
    <3>1. DurableQueues(qs)
      BY <1>4, QueuesRead DEF BuildingRight
    <3>2. /\ segment' = segment
          /\ building' = [[building EXCEPT !.queues = qs] EXCEPT !.step = "events"]
      BY <2>3 DEF ReadQueues, Reads
    <3> HIDE DEF qs
    <3>3. /\ building'.tokens = building.tokens /\ building'.queues = qs
          /\ building' = [step |-> building'.step, rows |-> building'.rows, tokens |-> building'.tokens,
                          queues |-> building'.queues, events |-> building'.events]
      BY <1>4, <3>2 DEF BuildingRight
    <3>4. DurableQueues(building.queues)'
      <4>1. PICK c : c = qs
        OBVIOUS
      <4>2. DurableQueues(c)' /\ c = building'.queues
        BY <1>2, <3>1, <3>3, <4>1
      <4> QED
        BY <4>2
    <3> QED
      BY <1>2, <1>4, <3>2, <3>3, <3>4 DEF BuildingRight, SegmentRight
  <2>4. CASE ReadEvents
    <3>1. segment' = segment /\ \E es :
            building' = [[building EXCEPT !.events = es] EXCEPT !.step = "metadata"]
      BY <2>4 DEF ReadEvents, Reads
    <3>2. /\ building'.tokens = building.tokens /\ building'.queues = building.queues
          /\ building' = [step |-> building'.step, rows |-> building'.rows, tokens |-> building'.tokens,
                          queues |-> building'.queues, events |-> building'.events]
      BY <1>4, <3>1 DEF BuildingRight
    <3> QED
      BY <1>2, <1>4, <3>1, <3>2 DEF BuildingRight, SegmentRight
  <2>5. CASE Publish
    <3>1. /\ building' = NotBuilding
          /\ segment' = [present |-> TRUE, queues |-> building.queues, events |-> building.events,
                         metadata |-> metadata]
      BY <2>5 DEF Publish
    <3>2. /\ segment'.queues = building.queues
          /\ segment' = [present |-> segment'.present, queues |-> segment'.queues,
                         events |-> segment'.events, metadata |-> segment'.metadata]
      BY <3>1
    <3>3. DurableQueues(<<>>)'
      BY DEF DurableQueues, IsSequence
    <3>4. BuildingRight'
      BY <3>1, <3>3 DEF BuildingRight, NotBuilding
    <3> QED
      BY <1>2, <1>4, <3>2, <3>4 DEF BuildingRight, SegmentRight
  <2> QED
    BY <2>1, <2>2, <2>3, <2>4, <2>5
<1> QED
  BY <1>2, <1>3, <1>5 DEF CycleInv

\* Another process: the store is empty, the segment is as it was.
LEMMA RestartCycle ==
    ASSUME CycleInv, Restart
    PROVE  CycleInv'
<1>1. /\ sources' = <<>> /\ nextOrdinal' = 1 /\ queues' = <<>> /\ building' = NotBuilding
      /\ recovery' = NotRecovering /\ presented' = {} /\ segment' = segment /\ origin' = origin
  BY DEF Restart
<1>2. SInv' /\ RecoveredNeverCurrent'
  BY <1>1 DEF SInv, Registry, KeptEvidence, HistoryFenced, SequenceUsedOnce, RecoveredNeverCurrent
<1>3. Remembered' = {}
  BY <1>1 DEF Remembered
<1>4. SegmentRight'
  BY <1>1, OriginGrows DEF CycleInv, SegmentRight
<1>5. DurableQueues(<<>>)' /\ Recoverable(<<>>)'
  BY DEF DurableQueues, Recoverable, IsSequence, Range
<1>6. BuildingRight' /\ RecoveryRight'
  BY <1>1, <1>5 DEF BuildingRight, RecoveryRight, NotBuilding, NotRecovering
<1> QED
  BY <1>1, <1>2, <1>3, <1>4, <1>6 DEF CycleInv
\* The steps of recovery.
LEMMA RecoveryCycle ==
    ASSUME CycleInv,
           \/ \E g \in Readable : Recover(g)
           \/ RecoverTable \/ RecoverUnlock \/ RecoverEvents
    PROVE  CycleInv'
<1>1. /\ UNCHANGED <<sources, nextOrdinal, queues, origin>>
      /\ UNCHANGED <<building, segment, presented>>
  BY DEF Recover, RecoverTable, RecoverUnlock, RecoverEvents, vars, ApplyMetadata, FenceMetadata,
         ImportEvents
<1>2. /\ SInv' /\ RecoveredNeverCurrent' /\ (\A x \in Remembered' : Attributes(x)')
      /\ (\A x : Attributes(x) => Attributes(x)') /\ (\A x : Behindhand(x) => Behindhand(x)')
      /\ (\A qs : DurableQueues(qs) => DurableQueues(qs)')
      /\ (\A batch : Recoverable(batch) => Recoverable(batch)')
      /\ (\A o \in origin' : DOMAIN o.values # {})
  BY <1>1, UnmovedCycle
<1>3. BuildingRight' /\ SegmentRight' /\ \A x \in presented' : Behindhand(x)'
  BY <1>1, <1>2 DEF CycleInv, BuildingRight, SegmentRight
<1>4. SegmentRight /\ RecoveryRight
  BY DEF CycleInv
<1>5. RecoveryRight'
  <2>1. ASSUME NEW g \in Readable, Recover(g) PROVE RecoveryRight'
    <3>1. DurableQueues(g.queues)
      <4>1. DurableQueues(segment.queues)
        BY <1>4 DEF SegmentRight
      <4>2. g.queues = segment.queues
            \/ \E n \in 0..Len(segment.queues) : g.queues = SubSeq(segment.queues, 1, n)
        BY <1>4, <2>1 DEF Readable, SegmentRight
      <4>3. ASSUME NEW n \in 0..Len(segment.queues)
            PROVE  DurableQueues(SubSeq(segment.queues, 1, n))
        <5> DEFINE qs == segment.queues
                   ps == SubSeq(qs, 1, n)
        <5>1. IsSequence(qs) /\ Len(qs) \in Nat /\ DOMAIN qs = 1..Len(qs)
          BY <4>1, SequenceShape DEF DurableQueues
        <5> HIDE DEF qs
        <5>2. /\ ps \in Seq(Range(qs)) /\ DOMAIN ps = 1..n
              /\ \A i \in 1..n : i \in DOMAIN qs /\ ps[i] = qs[i]
          BY <4>3, <5>1 DEF IsSequence, qs
        <5> HIDE DEF ps
        <5>3. IsSequence(ps)
          BY <5>2, SequenceOf
        <5>4. DurableQueues(ps)
          BY <4>1, <5>2, <5>3 DEF DurableQueues, qs
        <5> QED
          BY <5>4 DEF ps, qs
      <4> QED
        BY <4>1, <4>2, <4>3
    <3>2. Recoverable(PresentedIn(g))
      BY <3>1, BatchOf
    <3>3. recovery' = [step |-> "table", from |-> g, samples |-> PresentedIn(g)]
      BY <2>1 DEF Recover
    <3>4. PICK c : c = PresentedIn(g)
      OBVIOUS
    <3>5. Recoverable(c)' /\ c = recovery'.samples
      BY <1>2, <3>2, <3>3, <3>4
    <3>6. recovery' = [step |-> recovery'.step, from |-> recovery'.from, samples |-> recovery'.samples]
      BY <3>3
    <3> QED
      BY <3>5, <3>6 DEF RecoveryRight
  <2>2. CASE RecoverTable \/ RecoverUnlock
    <3>1. \E step : recovery' = [recovery EXCEPT !.step = step]
      BY <2>2 DEF RecoverTable, RecoverUnlock
    <3>2. /\ recovery'.samples = recovery.samples
          /\ recovery' = [step |-> recovery'.step, from |-> recovery'.from, samples |-> recovery'.samples]
      BY <1>4, <3>1 DEF RecoveryRight
    <3> QED
      BY <1>2, <1>4, <3>2 DEF RecoveryRight
  <2>3. CASE RecoverEvents
    <3>1. recovery' = NotRecovering
      BY <2>3 DEF RecoverEvents
    <3>2. Recoverable(<<>>)'
      BY DEF Recoverable, IsSequence, Range
    <3> QED
      BY <3>1, <3>2 DEF RecoveryRight, NotRecovering
  <2> QED
    BY <2>1, <2>2, <2>3
<1> QED
  BY <1>2, <1>3, <1>5 DEF CycleInv

\* A sample of the segment is presented to the store.
LEMMA RecoveredCycle ==
    ASSUME CycleInv, RecoverAccepted \/ RecoverRefused
    PROVE  CycleInv'
<1> DEFINE s == Head(recovery.samples)
<1>1. /\ Takes(s) /\ recovery.samples # <<>>
      /\ \/ AdmitRecovered(s)
         \/ RejectInvalid(s) \/ RejectSourceLimit(s) \/ FenceIncarnation(s)
         \/ FenceGeneration(s) \/ FenceAuthority(s) \/ FenceSequence(s) \/ RejectQueueLimit(s)
  BY DEF RecoverAccepted, RecoverRefused
<1>2. /\ recovery' = [recovery EXCEPT !.samples = Tail(@)]
      /\ presented' = presented \cup {[sample |-> s, next |-> nextOrdinal']}
      /\ UNCHANGED <<building, segment, origin>>
  BY <1>1 DEF Takes
<1>3. RecoveryRight /\ IsSequence(recovery.samples)
  BY DEF CycleInv, RecoveryRight, Recoverable
<1>4. /\ s \in Range(recovery.samples) /\ IsSequence(Tail(recovery.samples))
      /\ Range(Tail(recovery.samples)) \subseteq Range(recovery.samples)
  <2> DEFINE b == recovery.samples
             S == Range(b)
  <2>1. b \in Seq(S) /\ b # <<>>
    BY <1>1, <1>3 DEF IsSequence
  <2> HIDE DEF b, S
  <2>2. Head(b) \in S /\ Tail(b) \in Seq(S)
    BY <2>1
  <2>3. Range(Tail(b)) \subseteq S
    BY <2>2 DEF Range
  <2>4. IsSequence(Tail(b))
    BY <2>2, SequenceOf
  <2> QED
    BY <2>2, <2>3, <2>4 DEF b, S
<1>5. IsSample(s) /\ (s.valid => Evidence(s) \in origin)
  BY <1>3, <1>4 DEF RecoveryRight, Recoverable
<1>6. Presents(s)
  BY <1>1 DEF Presents, AdmitRecovered
<1>7. queues' = queues \/ (Evidence(s) \in origin' /\ DOMAIN s.values # {})
  <2>1. CASE AdmitRecovered(s)
    <3>1. s.valid
      BY <2>1 DEF AdmitRecovered, Accept
    <3>2. Evidence(s) \in origin /\ DOMAIN Evidence(s).values # {} /\ Evidence(s).values = s.values
      BY <1>5, <3>1 DEF CycleInv, Evidence
    <3> QED
      BY <1>2, <3>2
  <2>2. CASE ~AdmitRecovered(s)
    BY <1>1, <2>2 DEF RejectInvalid, RejectSourceLimit, FenceIncarnation, FenceGeneration,
                      FenceAuthority, FenceSequence, RejectQueueLimit, Fence, Refuse
  <2> QED
    BY <2>1, <2>2
<1> HIDE DEF s
<1>8. /\ SInv' /\ (\A x \in Remembered' : Attributes(x)') /\ RecoveredNeverCurrent'
      /\ (\A x \in building.tokens : Attributes(x)')
      /\ (\A x \in presented : Behindhand(x)')
  <2>1. PICK c : c = s
    OBVIOUS
  <2>2. /\ IsSample(c) /\ Presents(c) /\ origin \subseteq origin'
        /\ queues' = queues \/ (Evidence(c) \in origin' /\ DOMAIN c.values # {})
    BY <1>2, <1>5, <1>6, <1>7, <2>1
  <2> QED
    BY <2>2, PresentedCycle
<1>9. \A x \in presented' : Behindhand(x)'
  <2>1. PICK c : c = s
    OBVIOUS
  <2>2. PICK x : x = [sample |-> c, next |-> nextOrdinal']
    OBVIOUS
  <2>3. x.sample = c /\ x.next = nextOrdinal' /\ IsSample(c) /\ Presents(c) /\ Registry
    BY <1>5, <1>6, <2>1, <2>2 DEF CycleInv, SInv
  <2>4. Behindhand(x)'
    BY <2>3, JustPresented
  <2>5. presented' = presented \cup {x}
    BY <1>2, <2>1, <2>2
  <2> QED
    BY <1>8, <2>4, <2>5
<1>10. BuildingRight' /\ SegmentRight'
  BY <1>2, <1>8, OriginGrows DEF CycleInv, BuildingRight, SegmentRight
<1>11. RecoveryRight'
  <2>1. /\ recovery'.samples = Tail(recovery.samples)
        /\ recovery' = [step |-> recovery'.step, from |-> recovery'.from, samples |-> recovery'.samples]
    BY <1>2, <1>3 DEF RecoveryRight
  <2>2. Recoverable(Tail(recovery.samples))
    BY <1>3, <1>4 DEF RecoveryRight, Recoverable
  <2>3. PICK c : c = Tail(recovery.samples)
    OBVIOUS
  <2>4. Recoverable(c)' /\ c = recovery'.samples
    BY <1>2, <2>1, <2>2, <2>3, OriginGrows
  <2> QED
    BY <2>1, <2>4 DEF RecoveryRight
<1> QED
  BY <1>2, <1>8, <1>9, <1>10, <1>11 DEF CycleInv
-----------------------------------------------------------------------------
(* The specification *)

LEMMA CycleInvHolds == CycleSpec => []CycleInv
<1>1. CycleInit => CycleInv
  <2> SUFFICES ASSUME CycleInit PROVE CycleInv
    OBVIOUS
  <2>1. SInv /\ RecoveredNeverCurrent
    BY DEF CycleInit, Init, SInv, Registry, KeptEvidence, HistoryFenced, SequenceUsedOnce,
           RecoveredNeverCurrent
  <2>2. Remembered = {}
    BY DEF CycleInit, Init, Remembered
  <2>3. DurableQueues(<<>>) /\ Recoverable(<<>>)
    BY DEF DurableQueues, Recoverable, IsSequence, Range
  <2>4. BuildingRight /\ SegmentRight /\ RecoveryRight
    BY <2>3 DEF CycleInit, BuildingRight, SegmentRight, RecoveryRight, NotBuilding, NoSegment,
                NotRecovering
  <2> QED
    BY <2>1, <2>2, <2>4 DEF CycleInv, CycleInit
<1>2. CycleInv /\ [CycleNext]_cycleVars => CycleInv'
  <2> SUFFICES ASSUME CycleInv, [CycleNext]_cycleVars PROVE CycleInv'
    OBVIOUS
  <2>1. CASE \/ \E t \in Tables : LiveTable(t)
             \/ Passes \/ UNCHANGED cycleVars
    <3>1. /\ UNCHANGED <<sources, nextOrdinal, queues, origin>>
          /\ UNCHANGED <<building, segment, recovery, presented>>
      BY <2>1 DEF LiveTable, ApplyMetadata, FenceMetadata, Passes, Tick, cycleVars, cycle, vars
    <3>2. /\ SInv' /\ RecoveredNeverCurrent' /\ (\A x \in Remembered' : Attributes(x)')
          /\ (\A x : Attributes(x) => Attributes(x)') /\ (\A x : Behindhand(x) => Behindhand(x)')
          /\ (\A qs : DurableQueues(qs) => DurableQueues(qs)')
          /\ (\A batch : Recoverable(batch) => Recoverable(batch)')
          /\ (\A o \in origin' : DOMAIN o.values # {})
      BY <3>1, UnmovedCycle
    <3>3. BuildingRight' /\ SegmentRight' /\ RecoveryRight' /\ \A x \in presented' : Behindhand(x)'
      BY <3>1, <3>2 DEF CycleInv, BuildingRight, SegmentRight, RecoveryRight
    <3> QED
      BY <3>2, <3>3 DEF CycleInv
  <2> QED
    BY <2>1, LiveCycle, BuildCycle, RestartCycle, RecoveryCycle, RecoveredCycle DEF CycleNext
<1> QED
  BY <1>1, <1>2, PTL DEF CycleSpec

\* RecoveredNeverCurrent: evidence that admit_recovered lets in never defines a
\* live state, whatever it reports and whatever was admitted around it.
THEOREM CycleRecoveredNeverCurrent == CycleSpec => []RecoveredNeverCurrent
<1>1. CycleInv => RecoveredNeverCurrent
  BY DEF CycleInv
<1> QED
  BY <1>1, CycleInvHolds, PTL

\* AttributedOrRefused: a record that build_snapshot persisted and recovery
\* brought back was admitted live, under the incarnation it is attributed to,
\* although the registry is read before the histories and samples are admitted
\* in between.
THEOREM CycleAttributedOrRefused == CycleSpec => []AttributedOrRefused
<1>1. CycleInv => AttributedOrRefused
  <2> SUFFICES ASSUME CycleInv,
                      NEW q \in DOMAIN queues, NEW r \in Range(queues[q].history),
                      NEW e \in Range(sources[r.source].recent), e.ordinal = r.ordinal
               PROVE  [queue |-> q, source |-> r.source, incarnation |-> e.token,
                       sequence |-> r.sequence, values |-> r.values] \in origin
    BY DEF AttributedOrRefused
  <2>1. PICK i \in DOMAIN queues[q].history : r = queues[q].history[i]
    BY DEF Range
  <2>2. r.source \in DOMAIN sources
    BY <2>1 DEF CycleInv, SInv, KeptEvidence
  <2> DEFINE x == [source |-> r.source, ordinal |-> e.ordinal, token |-> e.token]
  <2>3. x \in Remembered
    BY <2>2 DEF Remembered
  <2>4. Attributes(x) /\ x.source = r.source /\ x.ordinal = r.ordinal /\ x.token = e.token
    BY <2>3 DEF CycleInv
  <2> HIDE DEF x
  <2>5. EvidenceOf(q, r, x.token) \in origin
    BY <2>1, <2>4 DEF Attributes
  <2> QED
    BY <2>4, <2>5 DEF EvidenceOf
<1> QED
  BY <1>1, CycleInvHolds, PTL

\* ReplayStaysFenced: once recovery has presented a persisted sample, its
\* replay is fenced for as long as its incarnation is remembered.
THEOREM CycleReplayStaysFenced == CycleSpec => []ReplayStaysFenced
<1>1. CycleInv => ReplayStaysFenced
  BY BehindIsFenced DEF CycleInv, SInv
<1> QED
  BY <1>1, CycleInvHolds, PTL

\* The fences of the store hold for the evidence that was read back, too:
\* recovered records are ordered like live ones and use no sequence number
\* twice.
THEOREM CycleHistoryFenced == CycleSpec => [](HistoryFenced /\ SequenceUsedOnce)
<1>1. CycleInv => HistoryFenced /\ SequenceUsedOnce
  BY DEF CycleInv, SInv
<1> QED
  BY <1>1, CycleInvHolds, PTL
-----------------------------------------------------------------------------
(* Drops, with evidence read back *)

\* What was ever admitted live reports numbers, and so does what recovery makes
\* of it.
DropsCycleInv == DropsInv /\ \A o \in origin : ReportsNumbers(o)

LEMMA DropsCycleStep ==
    ASSUME CycleInv, DropsCycleInv, [CycleNext]_cycleVars
    PROVE  DropsCycleInv'
<1>1. CASE queues' = queues /\ now' \in Nat /\ origin' = origin
  BY <1>1 DEF DropsCycleInv, DropsInv
<1>2. ASSUME NEW s \in Samples, LiveRefused(s) PROVE DropsCycleInv'
  <2>1. DropsInv' /\ origin' = origin
    BY <1>2, DropsRefused DEF LiveRefused, DropsCycleInv
  <2> QED
    BY <2>1 DEF DropsCycleInv
<1>3. ASSUME NEW s \in Samples, LiveAccepted(s) PROVE DropsCycleInv'
  <2>1. Received(s, FALSE) \in Int /\ ReportsNumbers(s)
    BY StoreAssumption DEF ReportsNumbers, Received, DropsCycleInv, DropsInv
  <2>2. DropsInv'
    BY <1>3, <2>1, DropsAccepted DEF LiveAccepted, AcceptLive, DropsCycleInv
  <2>3. origin' = origin \cup {Evidence(s)} /\ Evidence(s).values = s.values
    BY <1>3 DEF LiveAccepted, Evidence
  <2> QED
    BY <2>1, <2>2, <2>3 DEF DropsCycleInv, ReportsNumbers
<1>4. CASE RecoverRefused
  <2>1. DropsInv' /\ origin' = origin
    BY <1>4, DropsRefused DEF RecoverRefused, Takes, DropsCycleInv
  <2> QED
    BY <2>1 DEF DropsCycleInv
<1>5. CASE RecoverAccepted
  <2> DEFINE b == recovery.samples
  <2>1. IsSequence(b) /\ b # <<>> /\ Recoverable(b)
    BY <1>5 DEF RecoverAccepted, CycleInv, RecoveryRight, Recoverable
  <2>2. Head(b) \in Range(b)
    <3>1. b \in Seq(Range(b)) /\ b # <<>>
      BY <2>1 DEF IsSequence
    <3> HIDE DEF b
    <3> QED
      BY <3>1
  <2>3. PICK s \in Range(b) : s = Head(b)
    BY <2>2
  <2>4. Accept(s, TRUE) /\ origin' = origin /\ s.valid
    BY <1>5, <2>3 DEF RecoverAccepted, AdmitRecovered, Accept, Takes
  <2>5. Evidence(s) \in origin /\ Evidence(s).values = s.values
    BY <2>1, <2>4 DEF Recoverable, Evidence
  <2>6. ReportsNumbers(s) /\ Received(s, TRUE) \in Int
    BY <2>5 DEF DropsCycleInv, ReportsNumbers, Received
  <2> QED
    BY <2>4, <2>6, DropsAccepted DEF DropsCycleInv
<1>6. CASE Restart
  BY <1>6, StoreAssumption DEF Restart, DropsCycleInv, DropsInv
<1>7. CASE \/ \E t \in Tables : LiveTable(t)
           \/ Passes \/ UNCHANGED cycleVars
  BY <1>1, <1>7 DEF LiveTable, ApplyMetadata, FenceMetadata, Passes, Tick, cycleVars, cycle, vars,
                    DropsCycleInv, DropsInv
<1>8. CASE \/ ReadRows \/ ReadSources \/ ReadQueues \/ ReadEvents \/ Publish
           \/ \E g \in Readable : Recover(g)
           \/ RecoverTable \/ RecoverUnlock \/ RecoverEvents
  <2>1. queues' = queues /\ now' = now /\ origin' = origin
    BY <1>8 DEF ReadRows, ReadSources, ReadQueues, ReadEvents, Publish, Reads, Recover,
                RecoverTable, RecoverUnlock, RecoverEvents, vars, ApplyMetadata, FenceMetadata,
                ImportEvents
  <2> QED
    BY <1>1, <2>1 DEF DropsCycleInv, DropsInv
<1> QED
  BY <1>2, <1>3, <1>4, <1>5, <1>6, <1>7, <1>8 DEF CycleNext

\* DropsAreReported across restarts: recovered records lie in the evaluation
\* window like any other, and a drop they or the records around them show
\* decides the state all the same.
THEOREM CycleDropsAreReported == CycleSpec => []DropsAreReported
<1>1. CycleInit => DropsCycleInv
  BY StoreAssumption DEF CycleInit, Init, DropsCycleInv, DropsInv
<1>2. CycleInv /\ DropsCycleInv /\ [CycleNext]_cycleVars => DropsCycleInv'
  BY DropsCycleStep
<1>3. DropsCycleInv => DropsAreReported
  BY EveryQueueReports DEF DropsCycleInv, DropsInv
<1> QED
  BY <1>1, <1>2, <1>3, CycleInvHolds, PTL DEF CycleSpec

-----------------------------------------------------------------------------
(* The folds the decoder and its reference are made of *)

\* The greatest member of an interval that starts at 1.
LEMMA MaxOfInterval ==
    ASSUME NEW n \in Nat \ {0}
    PROVE  Max(1..n) = n /\ (1..n) \ {Max(1..n)} = 1..(n - 1)
<1>1. \A y \in 1..n : n >= y
  OBVIOUS
<1>2. \A x \in 1..n : (\A y \in 1..n : x >= y) => x = n
  OBVIOUS
<1>3. Max(1..n) = n
  BY <1>1, <1>2 DEF Max
<1> QED
  BY <1>3

\* How FoldLeft walks through the lines: the outcome after a set of them.
Steps(lines, g) ==
    [s \in SUBSET DOMAIN lines |->
        IF s = {} THEN NoOutcome ELSE AddLine(g[s \ {Max(s)}], lines[Max(s)])]

\* A walk that is right for sets of at most n lines.
Follows(lines, g, n) ==
    \A s \in SUBSET DOMAIN lines : Cardinality(s) <= n => g[s] = Steps(lines, g)[s]

\* A set of numbers without its greatest is smaller.
LEMMA WithoutMax ==
    ASSUME NEW n \in Nat, NEW s \in SUBSET (1..n), s # {}
    PROVE  /\ Max(s) \in s /\ s \ {Max(s)} \in SUBSET (1..n)
           /\ Cardinality(s) \in Nat \ {0}
           /\ Cardinality(s \ {Max(s)}) = Cardinality(s) - 1
<1>1. IsFiniteSet(s)
  <2>1. IsFiniteSet(1..n)
    BY FS_Interval
  <2> QED
    BY <2>1, FS_Subset
<1>2. \E x \in s : \A y \in s : x >= y
  <2> DEFINE T == {n - x : x \in s}
  <2>1. T \subseteq Nat /\ T # {}
    <3>1. \A x \in s : x \in 1..n
      OBVIOUS
    <3>2. \A x \in 1..n : n - x \in Nat
      OBVIOUS
    <3> QED
      BY <3>1, <3>2
  <2> HIDE DEF T
  <2>2. PICK t \in T : \A u \in T : t <= u
    BY <2>1, LeastNat
  <2>3. PICK x \in s : t = n - x
    BY <2>2 DEF T
  <2>4. ASSUME NEW y \in s PROVE x >= y
    <3>1. n - y \in T
      BY DEF T
    <3>2. n - x <= n - y /\ x \in Nat /\ y \in Nat
      BY <2>2, <2>3, <3>1
    <3> QED
      BY <3>2
  <2> QED
    BY <2>4
<1>3. Max(s) \in s
  BY <1>2 DEF Max
<1> QED
  BY <1>1, <1>3, FS_RemoveElement, FS_CardinalityType, FS_EmptySet

\* The walk exists, whatever the lines.
LEMMA WalkExists ==
    ASSUME NEW lines, IsSequence(lines)
    PROVE  \E g : g = Steps(lines, g)
<1> DEFINE D == DOMAIN lines
           Missed == {n \in Nat : ~\E g : Follows(lines, g, n)}
<1>0. Len(lines) \in Nat /\ D = 1..Len(lines) /\ IsFiniteSet(D)
  BY SequenceShape, FS_Interval
<1>1. \A s \in SUBSET D : Cardinality(s) \in Nat /\ Cardinality(s) <= Cardinality(D)
  BY <1>0, FS_Subset, FS_CardinalityType
<1>2. 0 \notin Missed
  <2> DEFINE g == [s \in SUBSET D |-> NoOutcome]
  <2>1. ASSUME NEW s \in SUBSET D, Cardinality(s) <= 0 PROVE g[s] = Steps(lines, g)[s]
    <3>1. s # {} => Cardinality(s) \in Nat \ {0}
      BY <1>0, WithoutMax
    <3>2. s = {}
      BY <2>1, <3>1
    <3> QED
      BY <3>2 DEF Steps
  <2> HIDE DEF g
  <2> QED
    BY <2>1 DEF Follows
<1>3. ASSUME NEW n \in Nat, n \notin Missed PROVE n + 1 \notin Missed
  <2>1. PICK g : Follows(lines, g, n)
    BY <1>3
  <2> DEFINE h == Steps(lines, g)
  <2>2. ASSUME NEW s \in SUBSET D, Cardinality(s) <= n + 1 PROVE h[s] = Steps(lines, h)[s]
    <3>1. CASE s = {}
      BY <3>1 DEF Steps
    <3>2. CASE s # {}
      <4> DEFINE t == s \ {Max(s)}
      <4>1. t \in SUBSET D /\ Cardinality(t) <= n
        BY <1>0, <1>1, <2>2, <3>2, WithoutMax
      <4>2. g[t] = h[t]
        BY <2>1, <4>1 DEF Follows
      <4>3. h[s] = AddLine(g[t], lines[Max(s)])
        BY <3>2 DEF Steps
      <4> HIDE DEF h
      <4>4. Steps(lines, h)[s] = AddLine(h[t], lines[Max(s)])
        BY <3>2 DEF Steps
      <4> QED
        BY <4>2, <4>3, <4>4
    <3> QED
      BY <3>1, <3>2
  <2> HIDE DEF h
  <2> QED
    BY <2>2 DEF Follows
<1>4. Missed = {}
  <2> SUFFICES ASSUME Missed # {} PROVE FALSE
    OBVIOUS
  <2>0. Missed \subseteq Nat
    OBVIOUS
  <2> HIDE DEF Missed
  <2>1. PICK n \in Missed : \A m \in Missed : n <= m
    BY <2>0, LeastNat
  <2>2. n \in Nat /\ n # 0 /\ n - 1 \in Nat /\ n - 1 \notin Missed
    BY <1>2, <2>0, <2>1
  <2> QED
    BY <1>3, <2>1, <2>2
<1>5. PICK g : Follows(lines, g, Cardinality(D))
  <2>1. Cardinality(D) \in Nat
    BY <1>1
  <2> QED
    BY <1>4, <2>1
<1> DEFINE h == Steps(lines, g)
<1>6. \A s \in SUBSET D : g[s] = h[s]
  BY <1>1, <1>5 DEF Follows
<1>7. ASSUME NEW s \in SUBSET D PROVE h[s] = Steps(lines, h)[s]
  <2>1. CASE s = {}
    BY <2>1 DEF Steps
  <2>2. CASE s # {}
    <3> DEFINE t == s \ {Max(s)}
    <3>1. g[t] = h[t]
      BY <1>6
    <3>2. h[s] = AddLine(g[t], lines[Max(s)])
      BY <2>2 DEF Steps
    <3> HIDE DEF h
    <3>3. Steps(lines, h)[s] = AddLine(h[t], lines[Max(s)])
      BY <2>2 DEF Steps
    <3> QED
      BY <3>1, <3>2, <3>3
  <2> QED
    BY <2>1, <2>2
<1>8. h = Steps(lines, h)
  <2>1. h = [s \in SUBSET D |-> h[s]]
    BY DEF Steps
  <2>2. Steps(lines, h) = [s \in SUBSET D |-> Steps(lines, h)[s]]
    BY DEF Steps
  <2> QED
    BY <1>7, <2>1, <2>2, Zenon
<1> QED
  BY <1>8

\* decode_document takes the lines in their order, each after those before it.
LEMMA DecodeByLine ==
    ASSUME NEW lines, IsSequence(lines)
    PROVE  \E out : /\ out[0] = NoOutcome /\ DecodeDocument(lines) = out[Len(lines)]
                    /\ \A n \in 1..Len(lines) : out[n] = AddLine(out[n - 1], lines[n])
<1> DEFINE g == CHOOSE g : g = Steps(lines, g)
           out == [n \in 0..Len(lines) |-> g[1..n]]
<1>0. Len(lines) \in Nat /\ DOMAIN lines = 1..Len(lines)
  BY SequenceShape
<1>1. g = Steps(lines, g)
  BY WalkExists
<1>2. DecodeDocument(lines) = g[DOMAIN lines]
  BY DEF DecodeDocument, FoldLeft, MapThenFoldSet, Steps
<1> HIDE DEF g
<1>3. out[0] = NoOutcome
  <2>1. g[{}] = NoOutcome
    BY <1>1 DEF Steps
  <2>2. 1..0 = {} /\ 0 \in 0..Len(lines)
    BY <1>0
  <2> QED
    BY <2>1, <2>2
<1>4. ASSUME NEW n \in 1..Len(lines) PROVE out[n] = AddLine(out[n - 1], lines[n])
  <2>1. 1..n \in SUBSET DOMAIN lines /\ 1..n # {} /\ n \in 0..Len(lines) /\ n - 1 \in 0..Len(lines)
    BY <1>0
  <2>2. Max(1..n) = n /\ (1..n) \ {Max(1..n)} = 1..(n - 1)
    BY <1>0, MaxOfInterval
  <2>3. g[1..n] = AddLine(g[(1..n) \ {Max(1..n)}], lines[Max(1..n)])
    BY <1>1, <2>1 DEF Steps
  <2> QED
    BY <2>1, <2>2, <2>3
<1>5. out[Len(lines)] = g[DOMAIN lines]
  BY <1>0
<1> HIDE DEF out
<1> QED
  BY <1>2, <1>3, <1>4, <1>5

\* How FlattenSeq walks through its sequences.
Joined(seqs, g) == [i \in 1..Len(seqs) |-> IF i = 1 THEN seqs[i] ELSE g[i - 1] \o seqs[i]]

\* That walk exists too.
LEMMA JoinExists ==
    ASSUME NEW seqs, IsSequence(seqs)
    PROVE  \E g : g = Joined(seqs, g)
<1> DEFINE D == 1..Len(seqs)
           Upto(g, n) == \A i \in D : i <= n => g[i] = Joined(seqs, g)[i]
           Missed == {n \in Nat : ~\E g : Upto(g, n)}
<1>0. Len(seqs) \in Nat
  BY SequenceShape
<1>2. 0 \notin Missed
  <2>1. Upto(<<>>, 0)
    OBVIOUS
  <2> QED
    BY <2>1
<1>3. ASSUME NEW n \in Nat, n \notin Missed PROVE n + 1 \notin Missed
  <2>1. PICK g : Upto(g, n)
    BY <1>3
  <2> DEFINE h == Joined(seqs, g)
  <2>2. ASSUME NEW i \in D, i <= n + 1 PROVE h[i] = Joined(seqs, h)[i]
    <3>1. CASE i = 1
      BY <3>1 DEF Joined
    <3>2. CASE i # 1
      <4>1. i - 1 \in D /\ i - 1 <= n
        BY <1>0, <2>2, <3>2
      <4>2. g[i - 1] = h[i - 1]
        BY <2>1, <4>1
      <4>3. h[i] = g[i - 1] \o seqs[i]
        BY <3>2 DEF Joined
      <4> HIDE DEF h
      <4>4. Joined(seqs, h)[i] = h[i - 1] \o seqs[i]
        BY <3>2 DEF Joined
      <4> QED
        BY <4>2, <4>3, <4>4
    <3> QED
      BY <3>1, <3>2
  <2> HIDE DEF h
  <2> QED
    BY <2>2
<1>4. Missed = {}
  <2> SUFFICES ASSUME Missed # {} PROVE FALSE
    OBVIOUS
  <2>0. Missed \subseteq Nat
    OBVIOUS
  <2> HIDE DEF Missed
  <2>1. PICK n \in Missed : \A m \in Missed : n <= m
    BY <2>0, LeastNat
  <2>2. n \in Nat /\ n # 0 /\ n - 1 \in Nat /\ n - 1 \notin Missed
    BY <1>2, <2>0, <2>1
  <2> QED
    BY <1>3, <2>1, <2>2
<1>5. PICK g : Upto(g, Len(seqs))
  BY <1>0, <1>4
<1> DEFINE h == Joined(seqs, g)
<1>6. \A i \in D : g[i] = h[i]
  BY <1>0, <1>5
<1>7. ASSUME NEW i \in D PROVE h[i] = Joined(seqs, h)[i]
  <2>1. CASE i = 1
    BY <2>1 DEF Joined
  <2>2. CASE i # 1
    <3>1. g[i - 1] = h[i - 1]
      BY <1>0, <1>6, <2>2
    <3>2. h[i] = g[i - 1] \o seqs[i]
      BY <2>2 DEF Joined
    <3> HIDE DEF h
    <3>3. Joined(seqs, h)[i] = h[i - 1] \o seqs[i]
      BY <2>2 DEF Joined
    <3> QED
      BY <3>1, <3>2, <3>3
  <2> QED
    BY <2>1, <2>2
<1>8. h = Joined(seqs, h)
  <2>1. h = [i \in D |-> h[i]]
    BY DEF Joined
  <2>2. Joined(seqs, h) = [i \in D |-> Joined(seqs, h)[i]]
    BY DEF Joined
  <2> QED
    BY <1>7, <2>1, <2>2, Zenon
<1> QED
  BY <1>8

\* FlattenSeq joins its sequences from the first to the last.
LEMMA FlattenByParts ==
    ASSUME NEW seqs, IsSequence(seqs), \A i \in 1..Len(seqs) : IsSequence(seqs[i])
    PROVE  \E f : /\ f[0] = <<>> /\ FlattenSeq(seqs) = f[Len(seqs)]
                  /\ \A n \in 1..Len(seqs) : f[n] = f[n - 1] \o seqs[n]
<1> DEFINE g == CHOOSE g : g = Joined(seqs, g)
           f == [n \in 0..Len(seqs) |-> IF n = 0 THEN <<>> ELSE g[n]]
<1>0. Len(seqs) \in Nat
  BY SequenceShape
<1>1. g = Joined(seqs, g)
  BY JoinExists
<1>2. Len(seqs) # 0 => FlattenSeq(seqs) = g[Len(seqs)]
  BY DEF FlattenSeq, Joined
<1> HIDE DEF g
<1>3. Len(seqs) = 0 => FlattenSeq(seqs) = <<>>
  <2>1. Len(seqs) = 0 => seqs = <<>>
    BY DEF IsSequence
  <2> QED
    BY <2>1 DEF FlattenSeq
<1>4. ASSUME NEW n \in 1..Len(seqs) PROVE f[n] = f[n - 1] \o seqs[n]
  <2>0. n \in Nat \ {0} /\ n \in 0..Len(seqs) /\ n - 1 \in 0..Len(seqs)
    BY <1>0
  <2>3. f[n] = g[n] /\ f[n - 1] = IF n = 1 THEN <<>> ELSE g[n - 1]
    BY <2>0
  <2> HIDE DEF f
  <2>1. CASE n = 1
    <3>1. g[1] = seqs[1]
      BY <1>0, <1>1, <2>1 DEF Joined
    <3>2. <<>> \o seqs[1] = seqs[1]
      <4>1. seqs[1] \in Seq(Range(seqs[1]))
        BY <2>1 DEF IsSequence
      <4> QED
        BY <4>1
    <3> QED
      BY <2>3, <2>1, <3>1, <3>2, Zenon
  <2>2. CASE n # 1
    <3>1. g[n] = g[n - 1] \o seqs[n]
      BY <1>1, <2>2 DEF Joined
    <3> QED
      BY <2>3, <2>2, <3>1, Zenon
  <2> QED
    BY <2>1, <2>2
<1>5. f[0] = <<>> /\ f[Len(seqs)] = FlattenSeq(seqs)
  BY <1>0, <1>2, <1>3
<1> HIDE DEF f
<1> QED
  BY <1>4, <1>5

-----------------------------------------------------------------------------
(* What a line does to an outcome *)

\* A DecodeOutcome under way.
IsOutcome(out) ==
    /\ DOMAIN out = DOMAIN NoOutcome
    /\ {out.line, out.lines, out.skipped, out.malformed, out.unsupported, out.mismatched}
         \subseteq Nat
    /\ IsSequence(out.samples) /\ IsSequence(out.tables) /\ IsSequence(out.diagnostics)
    /\ out.truncated \in BOOLEAN

Statuses == {"malformed", "unsupported", "mismatch"}

RefusedOf(out) == out.malformed + out.unsupported + out.mismatched

\* r is out with one more refusal, reported while there is room for a report.
OneMoreRefused(out, r) ==
    /\ IsOutcome(r) /\ r.line = out.line /\ r.lines = out.lines /\ r.skipped = out.skipped
    /\ r.samples = out.samples /\ r.tables = out.tables
    /\ RefusedOf(r) = RefusedOf(out) + 1
    /\ \/ /\ Len(out.diagnostics) >= MaxDiagnostics
          /\ r.diagnostics = out.diagnostics /\ r.truncated
       \/ /\ Len(out.diagnostics) < MaxDiagnostics /\ r.truncated = out.truncated
          /\ \E status : r.diagnostics = Append(out.diagnostics, [line |-> out.line, status |-> status])

\* The fields of an outcome.
LEMMA OutcomeFields ==
    DOMAIN NoOutcome = {"line", "lines", "skipped", "malformed", "unsupported", "mismatched",
                        "samples", "tables", "unknown", "diagnostics", "truncated"}
BY DEF NoOutcome

LEMMA NoOutcomeIsOne == IsOutcome(NoOutcome)
<1>1. IsSequence(<<>>)
  <2>1. <<>> \in Seq(Nat)
    OBVIOUS
  <2> QED
    BY <2>1, SequenceOf
<1>2. /\ NoOutcome.samples = <<>> /\ NoOutcome.tables = <<>> /\ NoOutcome.diagnostics = <<>>
      /\ NoOutcome.line = 0 /\ NoOutcome.lines = 0 /\ NoOutcome.skipped = 0
      /\ NoOutcome.malformed = 0 /\ NoOutcome.unsupported = 0 /\ NoOutcome.mismatched = 0
  BY DEF NoOutcome
<1>3. NoOutcome.truncated \in BOOLEAN
  BY DEF NoOutcome
<1> QED
  BY <1>1, <1>2, <1>3 DEF IsOutcome

LEMMA RefusesOne ==
    ASSUME NEW out, IsOutcome(out), NEW status \in Statuses
    PROVE  OneMoreRefused(out, Refuses(out, status))
<1> DEFINE m == CASE status = "malformed" -> [out EXCEPT !.malformed = @ + 1]
                  [] status = "unsupported" -> [out EXCEPT !.unsupported = @ + 1]
                  [] status = "mismatch" -> [out EXCEPT !.mismatched = @ + 1]
<1>1. /\ IsOutcome(m) /\ m.line = out.line /\ m.lines = out.lines /\ m.skipped = out.skipped
      /\ m.samples = out.samples /\ m.tables = out.tables
      /\ m.diagnostics = out.diagnostics /\ m.truncated = out.truncated
      /\ RefusedOf(m) = RefusedOf(out) + 1
  <2>1. CASE status = "malformed"
    <3>1. m = [out EXCEPT !.malformed = out.malformed + 1]
      BY <2>1
    <3> HIDE DEF m
    <3> QED
      BY <3>1, OutcomeFields DEF IsOutcome, RefusedOf
  <2>2. CASE status = "unsupported"
    <3>1. m = [out EXCEPT !.unsupported = out.unsupported + 1]
      BY <2>2
    <3> HIDE DEF m
    <3> QED
      BY <3>1, OutcomeFields DEF IsOutcome, RefusedOf
  <2>3. CASE status = "mismatch"
    <3>1. m = [out EXCEPT !.mismatched = out.mismatched + 1]
      BY <2>3
    <3> HIDE DEF m
    <3> QED
      BY <3>1, OutcomeFields DEF IsOutcome, RefusedOf
  <2> QED
    BY <2>1, <2>2, <2>3 DEF Statuses
<1>2. Refuses(out, status) = Diagnosed(m, status)
  BY DEF Refuses
<1> HIDE DEF m
<1> DEFINE r == Diagnosed(m, status)
<1>3. Len(m.diagnostics) \in Nat /\ MaxDiagnostics \in Nat
  BY <1>1, SequenceShape, WireAssumption DEF IsOutcome
<1>4. CASE Len(m.diagnostics) >= MaxDiagnostics
  <2>1. r = [m EXCEPT !.truncated = TRUE]
    BY <1>4 DEF Diagnosed
  <2> HIDE DEF r
  <2>2. /\ DOMAIN r = DOMAIN m /\ r.line = m.line /\ r.lines = m.lines /\ r.skipped = m.skipped
        /\ r.samples = m.samples /\ r.tables = m.tables /\ r.diagnostics = m.diagnostics
        /\ r.malformed = m.malformed /\ r.unsupported = m.unsupported
        /\ r.mismatched = m.mismatched /\ r.truncated
    BY <1>1, <2>1, OutcomeFields DEF IsOutcome
  <2>3. IsOutcome(r) /\ RefusedOf(r) = RefusedOf(m)
    BY <1>1, <2>2 DEF IsOutcome, RefusedOf
  <2> QED
    BY <1>1, <1>2, <1>4, <2>2, <2>3 DEF OneMoreRefused, r
<1>5. CASE ~(Len(m.diagnostics) >= MaxDiagnostics)
  <2> DEFINE d == Append(m.diagnostics, [line |-> m.line, status |-> status])
  <2>1. r = [m EXCEPT !.diagnostics = d]
    BY <1>5 DEF Diagnosed
  <2>2. IsSequence(d)
    BY <1>1, AppendShape DEF IsOutcome
  <2> HIDE DEF r
  <2>3. /\ DOMAIN r = DOMAIN m /\ r.line = m.line /\ r.lines = m.lines /\ r.skipped = m.skipped
        /\ r.samples = m.samples /\ r.tables = m.tables /\ r.diagnostics = d
        /\ r.malformed = m.malformed /\ r.unsupported = m.unsupported
        /\ r.mismatched = m.mismatched /\ r.truncated = m.truncated
    <3> HIDE DEF d
    <3> QED
      BY <1>1, <2>1, OutcomeFields DEF IsOutcome
  <2>4. IsOutcome(r) /\ RefusedOf(r) = RefusedOf(m)
    BY <1>1, <2>2, <2>3 DEF IsOutcome, RefusedOf
  <2>5. Len(out.diagnostics) < MaxDiagnostics
    BY <1>1, <1>3, <1>5
  <2> QED
    BY <1>1, <1>2, <2>3, <2>4, <2>5 DEF OneMoreRefused, r
<1> QED
  BY <1>4, <1>5

\* r is out with one more sample, with one more table.
OneMoreSample(out, r, x) ==
    /\ IsOutcome(r) /\ r.line = out.line /\ r.lines = out.lines /\ r.skipped = out.skipped
    /\ r.samples = Append(out.samples, x) /\ r.tables = out.tables
    /\ RefusedOf(r) = RefusedOf(out)
    /\ r.diagnostics = out.diagnostics /\ r.truncated = out.truncated
OneMoreTable(out, r, x) ==
    /\ IsOutcome(r) /\ r.line = out.line /\ r.lines = out.lines /\ r.skipped = out.skipped
    /\ r.samples = out.samples /\ r.tables = Append(out.tables, x)
    /\ RefusedOf(r) = RefusedOf(out)
    /\ r.diagnostics = out.diagnostics /\ r.truncated = out.truncated

\* A sample record, read or refused; what is read of it does not depend on the
\* lines before it.
LEMMA SampleRecord ==
    ASSUME NEW o
    PROVE  \/ \A out : \E status \in Statuses : AddSample(out, o) = Refuses(out, status)
           \/ \E x : \A out : IsOutcome(out) =>
                IF Len(out.samples) >= MaxBatchSamples
                THEN AddSample(out, o) = Refuses(out, "malformed")
                ELSE OneMoreSample(out, AddSample(out, o), x)
<1> DEFINE p == ParseSample(o)
<1>1. p.status = "ok" \/ p.status \in {"malformed", "unsupported"}
  BY DEF ParseSample, Refused, Read
<1> HIDE DEF p
<1>2. CASE p.status = "ok"
  <2>1. ASSUME NEW out, IsOutcome(out), ~(Len(out.samples) >= MaxBatchSamples)
        PROVE  OneMoreSample(out, AddSample(out, o), p.read)
    <3> DEFINE d == Append(out.samples, p.read)
               u == out.unknown + p.unknown
               r == [out EXCEPT !.samples = d, !.unknown = u]
    <3>1. AddSample(out, o) = r
      BY <1>2, <2>1, OutcomeFields DEF AddSample, p, IsOutcome
    <3>2. IsSequence(d)
      BY <2>1, AppendShape DEF IsOutcome
    <3> HIDE DEF d, u
    <3>3. /\ DOMAIN r = DOMAIN out /\ r.line = out.line /\ r.lines = out.lines
          /\ r.skipped = out.skipped
          /\ r.samples = d /\ r.tables = out.tables /\ r.diagnostics = out.diagnostics
          /\ r.malformed = out.malformed /\ r.unsupported = out.unsupported
          /\ r.mismatched = out.mismatched /\ r.truncated = out.truncated
      BY <2>1, OutcomeFields DEF IsOutcome
    <3> HIDE DEF r
    <3>4. IsOutcome(r) /\ RefusedOf(r) = RefusedOf(out)
      BY <2>1, <3>2, <3>3 DEF IsOutcome, RefusedOf
    <3> QED
      BY <3>1, <3>3, <3>4 DEF OneMoreSample, d
  <2>2. ASSUME NEW out, Len(out.samples) >= MaxBatchSamples
        PROVE  AddSample(out, o) = Refuses(out, "malformed")
    BY <2>2 DEF AddSample
  <2> QED
    BY <2>1, <2>2
<1>3. CASE p.status # "ok"
  <2>1. \A out : AddSample(out, o) \in {Refuses(out, "malformed"), Refuses(out, p.status)}
    BY <1>3 DEF AddSample, p
  <2> QED
    BY <1>1, <1>3, <2>1 DEF Statuses
<1> QED
  BY <1>2, <1>3

\* A metadata record, likewise.
LEMMA TableRecord ==
    ASSUME NEW o
    PROVE  \/ \A out : \E status \in Statuses : AddTable(out, o) = Refuses(out, status)
           \/ \E x : \A out : IsOutcome(out) =>
                IF Len(out.tables) >= MaxBatchMetadata
                THEN AddTable(out, o) = Refuses(out, "malformed")
                ELSE OneMoreTable(out, AddTable(out, o), x)
<1> DEFINE p == ParseTable(o)
<1>1. p.status = "ok" \/ p.status \in {"malformed", "unsupported"}
  BY DEF ParseTable, Refused, Read
<1> HIDE DEF p
<1>2. CASE p.status = "ok"
  <2>1. ASSUME NEW out, IsOutcome(out), ~(Len(out.tables) >= MaxBatchMetadata)
        PROVE  OneMoreTable(out, AddTable(out, o), p.read)
    <3> DEFINE d == Append(out.tables, p.read)
               r == [out EXCEPT !.tables = d]
    <3>1. AddTable(out, o) = r
      BY <1>2, <2>1, OutcomeFields DEF AddTable, p, IsOutcome
    <3>2. IsSequence(d)
      BY <2>1, AppendShape DEF IsOutcome
    <3> HIDE DEF d
    <3>3. /\ DOMAIN r = DOMAIN out /\ r.line = out.line /\ r.lines = out.lines
          /\ r.skipped = out.skipped
          /\ r.samples = out.samples /\ r.tables = d /\ r.diagnostics = out.diagnostics
          /\ r.malformed = out.malformed /\ r.unsupported = out.unsupported
          /\ r.mismatched = out.mismatched /\ r.truncated = out.truncated
      BY <2>1, OutcomeFields DEF IsOutcome
    <3> HIDE DEF r
    <3>4. IsOutcome(r) /\ RefusedOf(r) = RefusedOf(out)
      BY <2>1, <3>2, <3>3 DEF IsOutcome, RefusedOf
    <3> QED
      BY <3>1, <3>3, <3>4 DEF OneMoreTable, d
  <2>2. ASSUME NEW out, Len(out.tables) >= MaxBatchMetadata
        PROVE  AddTable(out, o) = Refuses(out, "malformed")
    BY <2>2 DEF AddTable
  <2> QED
    BY <2>1, <2>2
<1>3. CASE p.status # "ok"
  <2>1. \A out : AddTable(out, o) \in {Refuses(out, "malformed"), Refuses(out, p.status)}
    BY <1>3 DEF AddTable, p
  <2> QED
    BY <1>1, <1>3, <2>1 DEF Statuses
<1> QED
  BY <1>2, <1>3

\* prev with the next line begun.
Begun(prev) == [prev EXCEPT !.line = @ + 1, !.lines = @ + 1]

LEMMA BegunOutcome ==
    ASSUME NEW prev, IsOutcome(prev)
    PROVE  LET out == Begun(prev)
           IN /\ IsOutcome(out) /\ out.line = prev.line + 1 /\ out.lines = prev.lines + 1
              /\ out.skipped = prev.skipped /\ out.samples = prev.samples
              /\ out.tables = prev.tables /\ RefusedOf(out) = RefusedOf(prev)
              /\ out.diagnostics = prev.diagnostics /\ out.truncated = prev.truncated
<1> DEFINE a == prev.line + 1
           b == prev.lines + 1
           out == [prev EXCEPT !.line = a, !.lines = b]
<1>1. Begun(prev) = out
  BY OutcomeFields DEF Begun, IsOutcome
<1>2. a \in Nat /\ b \in Nat
  BY DEF IsOutcome
<1> HIDE DEF a, b
<1>3. /\ DOMAIN out = DOMAIN prev /\ out.line = a /\ out.lines = b
      /\ out.skipped = prev.skipped /\ out.samples = prev.samples
      /\ out.tables = prev.tables /\ out.malformed = prev.malformed
      /\ out.unsupported = prev.unsupported /\ out.mismatched = prev.mismatched
      /\ out.diagnostics = prev.diagnostics /\ out.truncated = prev.truncated
  BY OutcomeFields DEF IsOutcome
<1> HIDE DEF out
<1>4. IsOutcome(out) /\ RefusedOf(out) = RefusedOf(prev)
  BY <1>2, <1>3 DEF IsOutcome, RefusedOf
<1> QED
  BY <1>1, <1>3, <1>4 DEF a, b

\* r is prev after a line that is skipped.
OneMoreSkipped(prev, r) ==
    /\ IsOutcome(r) /\ r.line = prev.line + 1 /\ r.lines = prev.lines
    /\ r.skipped = prev.skipped + 1 /\ r.samples = prev.samples /\ r.tables = prev.tables
    /\ RefusedOf(r) = RefusedOf(prev)
    /\ r.diagnostics = prev.diagnostics /\ r.truncated = prev.truncated

LEMMA SkippedLine ==
    ASSUME NEW line, line.form = "skipped", NEW prev, IsOutcome(prev)
    PROVE  OneMoreSkipped(prev, AddLine(prev, line))
<1> DEFINE a == prev.line + 1
           b == prev.skipped + 1
           out == [prev EXCEPT !.line = a, !.skipped = b]
<1>1. AddLine(prev, line) = out
  BY OutcomeFields DEF AddLine, IsOutcome
<1>2. a \in Nat /\ b \in Nat
  BY DEF IsOutcome
<1> HIDE DEF a, b
<1>3. /\ DOMAIN out = DOMAIN prev /\ out.line = a /\ out.skipped = b
      /\ out.lines = prev.lines /\ out.samples = prev.samples
      /\ out.tables = prev.tables /\ out.malformed = prev.malformed
      /\ out.unsupported = prev.unsupported /\ out.mismatched = prev.mismatched
      /\ out.diagnostics = prev.diagnostics /\ out.truncated = prev.truncated
  BY OutcomeFields DEF IsOutcome
<1> HIDE DEF out
<1>4. IsOutcome(out) /\ RefusedOf(out) = RefusedOf(prev)
  BY <1>2, <1>3 DEF IsOutcome, RefusedOf
<1> QED
  BY <1>1, <1>3, <1>4 DEF OneMoreSkipped, a, b

\* The four fates of a line, which the lines before it decide only by having
\* filled the batch.
Skipped(line) == \A prev : IsOutcome(prev) => OneMoreSkipped(prev, AddLine(prev, line))
Bad(line) ==
    \A prev : IsOutcome(prev) => OneMoreRefused(Begun(prev), AddLine(prev, line))
Yields(line, x) ==
    \A prev : IsOutcome(prev) =>
      IF Len(prev.samples) >= MaxBatchSamples
      THEN OneMoreRefused(Begun(prev), AddLine(prev, line))
      ELSE OneMoreSample(Begun(prev), AddLine(prev, line), x)
YieldsTable(line, x) ==
    \A prev : IsOutcome(prev) =>
      IF Len(prev.tables) >= MaxBatchMetadata
      THEN OneMoreRefused(Begun(prev), AddLine(prev, line))
      ELSE OneMoreTable(Begun(prev), AddLine(prev, line), x)

LEMMA LineFates ==
    ASSUME NEW line
    PROVE  \/ Skipped(line) \/ Bad(line)
           \/ \E x : Yields(line, x)
           \/ \E x : YieldsTable(line, x)
<1> DEFINE o == line.value
<1>1. CASE line.form = "skipped"
  BY <1>1, SkippedLine DEF Skipped
<1>2. CASE line.form # "skipped"
  <2>1. ASSUME \A out : \E status \in Statuses : AddRecord(out, o) = Refuses(out, status)
        PROVE  Bad(line)
    <3> SUFFICES ASSUME NEW prev, IsOutcome(prev)
                 PROVE  OneMoreRefused(Begun(prev), AddLine(prev, line))
      BY DEF Bad
    <3>1. AddLine(prev, line) \in {Refuses(Begun(prev), "malformed"), AddRecord(Begun(prev), o)}
      BY <1>2 DEF AddLine, Begun
    <3>2. \E status \in Statuses : AddLine(prev, line) = Refuses(Begun(prev), status)
      BY <2>1, <3>1 DEF Statuses
    <3> QED
      BY <3>2, RefusesOne, BegunOutcome
  <2>2. CASE line.form # "json" \/ ~ParsesJson(o) \/ o.type # "object"
    <3>1. ASSUME NEW prev, IsOutcome(prev) PROVE OneMoreRefused(Begun(prev), AddLine(prev, line))
      <4>1. AddLine(prev, line) = Refuses(Begun(prev), "malformed")
        BY <1>2, <2>2 DEF AddLine, Begun
      <4> QED
        BY <3>1, <4>1, RefusesOne, BegunOutcome DEF Statuses
    <3> QED
      BY <3>1 DEF Bad
  <2>3. CASE ~(line.form # "json" \/ ~ParsesJson(o) \/ o.type # "object")
    <3>1. \A prev : AddLine(prev, line) = AddRecord(Begun(prev), o)
      BY <1>2, <2>3 DEF AddLine, Begun
    <3>2. \/ \A out : \E status \in Statuses : AddRecord(out, o) = Refuses(out, status)
          \/ \A out : AddRecord(out, o) = AddSample(out, o)
          \/ \A out : AddRecord(out, o) = AddTable(out, o)
      BY DEF AddRecord, Statuses
    <3>3. CASE \A out : AddRecord(out, o) = AddSample(out, o)
      <4>1. CASE \A out : \E status \in Statuses : AddSample(out, o) = Refuses(out, status)
        BY <2>1, <3>3, <4>1
      <4>2. ASSUME NEW x,
                   \A out : IsOutcome(out) =>
                      IF Len(out.samples) >= MaxBatchSamples
                      THEN AddSample(out, o) = Refuses(out, "malformed")
                      ELSE OneMoreSample(out, AddSample(out, o), x)
            PROVE  Yields(line, x)
        <5> SUFFICES ASSUME NEW prev, IsOutcome(prev)
                     PROVE  IF Len(prev.samples) >= MaxBatchSamples
                            THEN OneMoreRefused(Begun(prev), AddLine(prev, line))
                            ELSE OneMoreSample(Begun(prev), AddLine(prev, line), x)
          BY DEF Yields
        <5>1. IsOutcome(Begun(prev)) /\ Begun(prev).samples = prev.samples
          BY BegunOutcome
        <5>2. AddLine(prev, line) = AddSample(Begun(prev), o)
          BY <3>1, <3>3
        <5> QED
          BY <4>2, <5>1, <5>2, RefusesOne DEF Statuses
      <4> QED
        BY <4>1, <4>2, SampleRecord
    <3>4. CASE \A out : AddRecord(out, o) = AddTable(out, o)
      <4>1. CASE \A out : \E status \in Statuses : AddTable(out, o) = Refuses(out, status)
        BY <2>1, <3>4, <4>1
      <4>2. ASSUME NEW x,
                   \A out : IsOutcome(out) =>
                      IF Len(out.tables) >= MaxBatchMetadata
                      THEN AddTable(out, o) = Refuses(out, "malformed")
                      ELSE OneMoreTable(out, AddTable(out, o), x)
            PROVE  YieldsTable(line, x)
        <5> SUFFICES ASSUME NEW prev, IsOutcome(prev)
                     PROVE  IF Len(prev.tables) >= MaxBatchMetadata
                            THEN OneMoreRefused(Begun(prev), AddLine(prev, line))
                            ELSE OneMoreTable(Begun(prev), AddLine(prev, line), x)
          BY DEF YieldsTable
        <5>1. IsOutcome(Begun(prev)) /\ Begun(prev).tables = prev.tables
          BY BegunOutcome
        <5>2. AddLine(prev, line) = AddTable(Begun(prev), o)
          BY <3>1, <3>4
        <5> QED
          BY <4>2, <5>1, <5>2, RefusesOne DEF Statuses
      <4> QED
        BY <4>1, <4>2, TableRecord
    <3> QED
      BY <2>1, <3>2, <3>3, <3>4
  <2> QED
    BY <2>2, <2>3
<1> QED
  BY <1>1, <1>2

-----------------------------------------------------------------------------
(* Line by line *)

\* The first n of a sequence, and what they become when the sequence grows.
LEMMA FirstOnes ==
    ASSUME NEW s, IsSequence(s), NEW n \in Nat
    PROVE  /\ IsSequence(UpTo(s, n)) /\ Len(UpTo(s, n)) \in Nat /\ Len(s) \in Nat
           /\ Len(UpTo(s, n)) = IF Len(s) >= n THEN n ELSE Len(s)
           /\ Len(s) <= n => UpTo(s, n) = s
<1> DEFINE m == Min({n, Len(s)})
<1>1. Len(s) \in Nat /\ s \in Seq(Range(s))
  BY SequenceShape DEF IsSequence
<1>2. m \in Nat /\ m = IF Len(s) >= n THEN n ELSE Len(s)
  BY <1>1, MinOfTwo
<1> HIDE DEF m
<1>3. SubSeq(s, 1, m) \in Seq(Range(s)) /\ Len(SubSeq(s, 1, m)) = m
  BY <1>1, <1>2
<1>4. IsSequence(SubSeq(s, 1, m))
  BY <1>3, SequenceOf
<1>5. m = Len(s) => SubSeq(s, 1, m) = s
  BY <1>1
<1>6. UpTo(s, n) = SubSeq(s, 1, m)
  BY DEF UpTo, m
<1> QED
  BY <1>1, <1>2, <1>3, <1>4, <1>5, <1>6

LEMMA FirstOnesOfMore ==
    ASSUME NEW s, IsSequence(s), NEW n \in Nat, NEW x
    PROVE  UpTo(Append(s, x), n) = IF Len(s) >= n THEN UpTo(s, n) ELSE Append(UpTo(s, n), x)
<1> DEFINE a == Append(s, x)
<1>1. /\ Len(s) \in Nat /\ s \in Seq(Range(s)) /\ IsSequence(a) /\ Len(a) = Len(s) + 1
      /\ \A i \in 1..Len(s) : a[i] = s[i]
  BY SequenceShape, AppendShape DEF IsSequence
<1>2. a \in Seq(Range(a))
  BY <1>1 DEF IsSequence
<1> HIDE DEF a
<1>3. CASE Len(s) >= n
  <2>1. Min({n, Len(s)}) = n /\ Min({n, Len(a)}) = n
    BY <1>1, <1>3, MinOfTwo
  <2>2. UpTo(s, n) = SubSeq(s, 1, n) /\ UpTo(a, n) = SubSeq(a, 1, n)
    BY <2>1 DEF UpTo
  <2>3. SubSeq(s, 1, n) = [i \in 1..n |-> s[i]] /\ SubSeq(a, 1, n) = [i \in 1..n |-> a[i]]
    <3>1. ASSUME NEW S, NEW t \in Seq(S), n <= Len(t)
          PROVE  SubSeq(t, 1, n) = [i \in 1..n |-> t[i]]
      <4>1. /\ SubSeq(t, 1, n) \in Seq(S) /\ Len(SubSeq(t, 1, n)) = n
            /\ \A i \in 1..n : SubSeq(t, 1, n)[i] = t[i]
        BY <3>1
      <4> QED
        BY <4>1
    <3> QED
      BY <1>1, <1>2, <1>3, <3>1
  <2>4. \A i \in 1..n : a[i] = s[i]
    BY <1>1, <1>3
  <2> QED
    BY <1>3, <2>2, <2>3, <2>4 DEF a
<1>4. CASE ~(Len(s) >= n)
  <2>1. UpTo(s, n) = s /\ UpTo(a, n) = a
    BY <1>1, <1>4, FirstOnes
  <2> QED
    BY <1>4, <2>1 DEF a
<1> QED
  BY <1>3, <1>4

\* Line i yields nothing on its own.
Empty(lines, i) ==
    AddLine(NoOutcome, lines[i]).samples = <<>> /\ AddLine(NoOutcome, lines[i]).tables = <<>>

\* The outcome after n lines that yield the given samples and tables alone.
After(lines, n, out, samples, tables) ==
    /\ IsOutcome(out) /\ out.line = n /\ IsSequence(samples) /\ IsSequence(tables)
    /\ out.samples = UpTo(samples, MaxBatchSamples)
    /\ out.tables = UpTo(tables, MaxBatchMetadata)
    /\ out.lines = Len(out.samples) + Len(out.tables) + RefusedOf(out)
    /\ n = out.lines + out.skipped
    /\ Len(out.diagnostics) <= MaxDiagnostics
    /\ IF out.truncated
       THEN Len(out.diagnostics) = MaxDiagnostics /\ RefusedOf(out) > MaxDiagnostics
       ELSE Len(out.diagnostics) = RefusedOf(out)
    /\ \A i \in 1..Len(out.diagnostics) :
         /\ out.diagnostics[i].line \in 1..n
         /\ \/ Empty(lines, out.diagnostics[i].line)
            \/ MaxBatchSamples < Len(samples) \/ MaxBatchMetadata < Len(tables)

LEMMA RefusedCount ==
    ASSUME NEW out, IsOutcome(out)
    PROVE  /\ RefusedOf(out) \in Nat /\ Len(out.diagnostics) \in Nat /\ Len(out.samples) \in Nat
           /\ Len(out.tables) \in Nat /\ out.line \in Nat /\ out.lines \in Nat
           /\ out.skipped \in Nat /\ MaxDiagnostics \in Nat
           /\ MaxBatchSamples \in Nat \ {0} /\ MaxBatchMetadata \in Nat \ {0}
<1>1. {out.malformed, out.unsupported, out.mismatched, out.line, out.lines, out.skipped} \subseteq Nat
  BY DEF IsOutcome
<1>2. RefusedOf(out) \in Nat
  BY <1>1 DEF RefusedOf
<1> QED
  BY <1>1, <1>2, SequenceShape, WireAssumption DEF IsOutcome

\* One more line, and one more of what the lines are counted as.
LEMMA OneMoreLine ==
    ASSUME NEW n \in Nat, NEW lines \in Nat, NEW skipped \in Nat, n - 1 = lines + skipped,
           NEW a \in Nat, NEW b \in Nat, NEW c \in Nat, lines = a + b + c
    PROVE  /\ n = lines + 1 + skipped /\ n = lines + (skipped + 1)
           /\ lines + 1 = (a + 1) + b + c /\ lines + 1 = a + (b + 1) + c
           /\ lines + 1 = a + b + (c + 1)
OBVIOUS

LEMMA OneMoreTally ==
    ASSUME NEW n \in Nat, NEW out, IsOutcome(out), n - 1 = out.lines + out.skipped,
           out.lines = Len(out.samples) + Len(out.tables) + RefusedOf(out)
    PROVE  /\ n = out.lines + 1 + out.skipped /\ n = out.lines + (out.skipped + 1)
           /\ out.lines + 1 = (Len(out.samples) + 1) + Len(out.tables) + RefusedOf(out)
           /\ out.lines + 1 = Len(out.samples) + (Len(out.tables) + 1) + RefusedOf(out)
           /\ out.lines + 1 = Len(out.samples) + Len(out.tables) + (RefusedOf(out) + 1)
<1> DEFINE l == out.lines
           s == out.skipped
           a == Len(out.samples)
           b == Len(out.tables)
           c == RefusedOf(out)
<1>1. l \in Nat /\ s \in Nat /\ a \in Nat /\ b \in Nat /\ c \in Nat
  BY RefusedCount
<1>2. n - 1 = l + s /\ l = a + b + c
  OBVIOUS
<1> HIDE DEF l, s, a, b, c
<1>3. /\ n = l + 1 + s /\ n = l + (s + 1)
      /\ l + 1 = (a + 1) + b + c /\ l + 1 = a + (b + 1) + c /\ l + 1 = a + b + (c + 1)
  BY <1>1, <1>2, OneMoreLine
<1> QED
  BY <1>3 DEF l, s, a, b, c

\* A refused line: it yields nothing, or its batch is full.
LEMMA AfterRefused ==
    ASSUME NEW lines, NEW n \in Nat \ {0}, NEW out, NEW fs, NEW ft, After(lines, n - 1, out, fs, ft),
           NEW r, OneMoreRefused(Begun(out), r),
           NEW gs, IsSequence(gs), Len(gs) >= Len(fs),
           UpTo(gs, MaxBatchSamples) = UpTo(fs, MaxBatchSamples),
           NEW gt, IsSequence(gt), Len(gt) >= Len(ft),
           UpTo(gt, MaxBatchMetadata) = UpTo(ft, MaxBatchMetadata),
           Empty(lines, n) \/ MaxBatchSamples < Len(gs) \/ MaxBatchMetadata < Len(gt)
    PROVE  After(lines, n, r, gs, gt)
<1> DEFINE b == Begun(out)
           excused(i) == /\ r.diagnostics[i].line \in 1..n
                         /\ \/ Empty(lines, r.diagnostics[i].line)
                            \/ MaxBatchSamples < Len(gs) \/ MaxBatchMetadata < Len(gt)
<1>1. /\ IsOutcome(b) /\ b.line = n /\ b.lines = out.lines + 1
      /\ b.skipped = out.skipped /\ b.samples = out.samples
      /\ b.tables = out.tables /\ RefusedOf(b) = RefusedOf(out)
      /\ b.diagnostics = out.diagnostics /\ b.truncated = out.truncated
  <2>1. IsOutcome(out) /\ out.line = n - 1
    BY DEF After
  <2> QED
    BY <2>1, BegunOutcome
<1>2. /\ IsOutcome(out) /\ IsOutcome(r) /\ r.line = n /\ r.lines = out.lines + 1
      /\ r.skipped = out.skipped /\ r.samples = out.samples /\ r.tables = out.tables
      /\ RefusedOf(r) = RefusedOf(out) + 1
  BY <1>1 DEF OneMoreRefused, After
<1>3. /\ RefusedOf(out) \in Nat /\ Len(out.diagnostics) \in Nat /\ Len(out.samples) \in Nat
      /\ Len(out.tables) \in Nat /\ out.skipped \in Nat /\ MaxDiagnostics \in Nat
      /\ Len(fs) \in Nat /\ Len(ft) \in Nat /\ Len(gs) \in Nat /\ Len(gt) \in Nat
      /\ MaxBatchSamples \in Nat /\ MaxBatchMetadata \in Nat
  BY <1>2, RefusedCount, SequenceShape DEF After
<1>4. /\ r.lines = Len(r.samples) + Len(r.tables) + RefusedOf(r)
      /\ n = r.lines + r.skipped
  <2>1. /\ out.lines = Len(out.samples) + Len(out.tables) + RefusedOf(out)
        /\ n - 1 = out.lines + out.skipped
    BY DEF After
  <2>2. /\ n = out.lines + 1 + out.skipped
        /\ out.lines + 1 = Len(out.samples) + Len(out.tables) + (RefusedOf(out) + 1)
    BY <1>2, <2>1, OneMoreTally
  <2> QED
    BY <1>2, <2>2
<1>5. /\ r.samples = UpTo(gs, MaxBatchSamples) /\ r.tables = UpTo(gt, MaxBatchMetadata)
  BY <1>2 DEF After
<1>6. ASSUME NEW i \in 1..Len(out.diagnostics)
      PROVE  /\ out.diagnostics[i].line \in 1..n
             /\ \/ Empty(lines, out.diagnostics[i].line)
                \/ MaxBatchSamples < Len(gs) \/ MaxBatchMetadata < Len(gt)
  <2>1. /\ out.diagnostics[i].line \in 1..(n - 1)
        /\ \/ Empty(lines, out.diagnostics[i].line)
           \/ MaxBatchSamples < Len(fs) \/ MaxBatchMetadata < Len(ft)
    BY DEF After
  <2>2. 1..(n - 1) \subseteq 1..n
    OBVIOUS
  <2> QED
    BY <1>3, <2>1, <2>2
<1>7. CASE Len(out.diagnostics) >= MaxDiagnostics
  <2>1. r.diagnostics = out.diagnostics /\ r.truncated
    BY <1>1, <1>3, <1>7 DEF OneMoreRefused
  <2>2. Len(r.diagnostics) = MaxDiagnostics /\ RefusedOf(r) > MaxDiagnostics
    <3>1. /\ Len(out.diagnostics) <= MaxDiagnostics
          /\ \/ Len(out.diagnostics) = MaxDiagnostics /\ RefusedOf(out) > MaxDiagnostics
             \/ Len(out.diagnostics) = RefusedOf(out)
      BY DEF After
    <3>2. Len(out.diagnostics) = MaxDiagnostics /\ RefusedOf(out) + 1 > MaxDiagnostics
      BY <1>3, <1>7, <3>1
    <3> QED
      BY <1>2, <2>1, <3>2
  <2>3. \A i \in 1..Len(r.diagnostics) : excused(i)
    BY <1>6, <2>1
  <2> QED
    BY <1>2, <1>3, <1>4, <1>5, <2>1, <2>2, <2>3 DEF After
<1>8. CASE ~(Len(out.diagnostics) >= MaxDiagnostics)
  <2>1. PICK status : /\ r.diagnostics = Append(out.diagnostics, [line |-> n, status |-> status])
                      /\ r.truncated = out.truncated
    BY <1>1, <1>3, <1>8 DEF OneMoreRefused
  <2>2. /\ Len(r.diagnostics) = Len(out.diagnostics) + 1
        /\ \A i \in 1..Len(out.diagnostics) : r.diagnostics[i] = out.diagnostics[i]
        /\ r.diagnostics[Len(out.diagnostics) + 1] = [line |-> n, status |-> status]
    BY <1>2, <2>1, AppendShape DEF IsOutcome
  <2>3. ~out.truncated /\ Len(out.diagnostics) = RefusedOf(out)
    BY <1>3, <1>8 DEF After
  <2>4. ~r.truncated /\ Len(r.diagnostics) = RefusedOf(r) /\ Len(r.diagnostics) <= MaxDiagnostics
    BY <1>2, <1>3, <1>8, <2>1, <2>2, <2>3
  <2>5. \A i \in 1..Len(r.diagnostics) : excused(i)
    <3> SUFFICES ASSUME NEW i \in 1..Len(r.diagnostics) PROVE excused(i)
      OBVIOUS
    <3>1. CASE i \in 1..Len(out.diagnostics)
      BY <1>6, <2>2, <3>1
    <3>2. CASE i = Len(out.diagnostics) + 1
      BY <2>2, <3>2
    <3> QED
      BY <1>3, <2>2, <3>1, <3>2
  <2> QED
    BY <1>2, <1>4, <1>5, <2>4, <2>5 DEF After
<1> QED
  BY <1>7, <1>8

\* A line that yields a sample there is room for, or a table, or nothing.
LEMMA AfterYielded ==
    ASSUME NEW lines, NEW n \in Nat \ {0}, NEW out, NEW fs, NEW ft, After(lines, n - 1, out, fs, ft),
           NEW r, NEW x,
           NEW gs, IsSequence(gs), Len(gs) >= Len(fs),
           NEW gt, IsSequence(gt), Len(gt) >= Len(ft),
           \/ /\ OneMoreSample(Begun(out), r, x) /\ gt = ft
              /\ UpTo(gs, MaxBatchSamples) = Append(UpTo(fs, MaxBatchSamples), x)
           \/ /\ OneMoreTable(Begun(out), r, x) /\ gs = fs
              /\ UpTo(gt, MaxBatchMetadata) = Append(UpTo(ft, MaxBatchMetadata), x)
           \/ OneMoreSkipped(out, r) /\ gs = fs /\ gt = ft
    PROVE  After(lines, n, r, gs, gt)
<1> DEFINE b == Begun(out)
<1>1. /\ IsOutcome(b) /\ b.line = n /\ b.lines = out.lines + 1
      /\ b.skipped = out.skipped /\ b.samples = out.samples
      /\ b.tables = out.tables /\ RefusedOf(b) = RefusedOf(out)
      /\ b.diagnostics = out.diagnostics /\ b.truncated = out.truncated
  <2>1. IsOutcome(out) /\ out.line = n - 1
    BY DEF After
  <2> QED
    BY <2>1, BegunOutcome
<1>2. /\ IsOutcome(out) /\ out.line = n - 1
      /\ RefusedOf(out) \in Nat /\ Len(out.diagnostics) \in Nat /\ Len(out.samples) \in Nat
      /\ Len(out.tables) \in Nat /\ out.lines \in Nat /\ out.skipped \in Nat
      /\ Len(fs) \in Nat /\ Len(ft) \in Nat /\ Len(gs) \in Nat /\ Len(gt) \in Nat
      /\ MaxBatchSamples \in Nat /\ MaxBatchMetadata \in Nat
      /\ Len(Append(out.samples, x)) = Len(out.samples) + 1
      /\ Len(Append(out.tables, x)) = Len(out.tables) + 1
  <2>1. IsOutcome(out) /\ IsSequence(fs) /\ IsSequence(ft) /\ out.line = n - 1
    BY DEF After
  <2>2. IsSequence(out.samples) /\ IsSequence(out.tables)
    BY <2>1 DEF IsOutcome
  <2> QED
    BY <2>1, <2>2, RefusedCount, SequenceShape, AppendShape
<1>3. /\ out.lines = Len(out.samples) + Len(out.tables) + RefusedOf(out)
      /\ n - 1 = out.lines + out.skipped
      /\ out.samples = UpTo(fs, MaxBatchSamples) /\ out.tables = UpTo(ft, MaxBatchMetadata)
  BY DEF After
<1>4. /\ IsOutcome(r) /\ r.line = n /\ RefusedOf(r) = RefusedOf(out)
      /\ r.diagnostics = out.diagnostics /\ r.truncated = out.truncated
  BY <1>1, <1>2 DEF OneMoreSample, OneMoreTable, OneMoreSkipped
<1>5. /\ r.samples = UpTo(gs, MaxBatchSamples) /\ r.tables = UpTo(gt, MaxBatchMetadata)
  BY <1>1, <1>3 DEF OneMoreSample, OneMoreTable, OneMoreSkipped
<1>6. /\ r.lines = Len(r.samples) + Len(r.tables) + RefusedOf(r)
      /\ n = r.lines + r.skipped
  <2>0. /\ n = out.lines + 1 + out.skipped /\ n = out.lines + (out.skipped + 1)
        /\ out.lines + 1 = (Len(out.samples) + 1) + Len(out.tables) + RefusedOf(out)
        /\ out.lines + 1 = Len(out.samples) + (Len(out.tables) + 1) + RefusedOf(out)
    BY <1>2, <1>3, OneMoreTally
  <2>1. CASE OneMoreSample(b, r, x)
    <3>1. /\ r.lines = out.lines + 1 /\ r.skipped = out.skipped
          /\ r.samples = Append(out.samples, x) /\ r.tables = out.tables
      BY <1>1, <2>1 DEF OneMoreSample
    <3>2. Len(r.samples) = Len(out.samples) + 1
      BY <1>2, <3>1
    <3> QED
      BY <1>4, <2>0, <3>1, <3>2
  <2>2. CASE OneMoreTable(b, r, x)
    <3>1. /\ r.lines = out.lines + 1 /\ r.skipped = out.skipped
          /\ r.samples = out.samples /\ r.tables = Append(out.tables, x)
      BY <1>1, <2>2 DEF OneMoreTable
    <3>2. Len(r.tables) = Len(out.tables) + 1
      BY <1>2, <3>1
    <3> QED
      BY <1>4, <2>0, <3>1, <3>2
  <2>3. CASE OneMoreSkipped(out, r)
    <3>1. /\ r.lines = out.lines /\ r.skipped = out.skipped + 1
          /\ r.samples = out.samples /\ r.tables = out.tables
      BY <2>3 DEF OneMoreSkipped
    <3> QED
      BY <1>3, <1>4, <2>0, <3>1
  <2> QED
    BY <2>1, <2>2, <2>3
<1>7. \A i \in 1..Len(r.diagnostics) :
         /\ r.diagnostics[i].line \in 1..n
         /\ \/ Empty(lines, r.diagnostics[i].line)
            \/ MaxBatchSamples < Len(gs) \/ MaxBatchMetadata < Len(gt)
  <2>1. \A i \in 1..Len(out.diagnostics) :
           /\ out.diagnostics[i].line \in 1..(n - 1)
           /\ \/ Empty(lines, out.diagnostics[i].line)
              \/ MaxBatchSamples < Len(fs) \/ MaxBatchMetadata < Len(ft)
    BY DEF After
  <2>3. 1..(n - 1) \subseteq 1..n
    OBVIOUS
  <2>2. /\ MaxBatchSamples < Len(fs) => MaxBatchSamples < Len(gs)
        /\ MaxBatchMetadata < Len(ft) => MaxBatchMetadata < Len(gt)
    BY <1>2
  <2> QED
    BY <1>4, <2>1, <2>2, <2>3
<1>8. /\ Len(r.diagnostics) <= MaxDiagnostics
      /\ IF r.truncated
         THEN Len(r.diagnostics) = MaxDiagnostics /\ RefusedOf(r) > MaxDiagnostics
         ELSE Len(r.diagnostics) = RefusedOf(r)
  BY <1>4 DEF After
<1> QED
  BY <1>4, <1>5, <1>6, <1>7, <1>8 DEF After

\* Nothing, or a single entry, at the end of a sequence.
LEMMA JoinSmall ==
    ASSUME NEW s, IsSequence(s), NEW x
    PROVE  s \o <<>> = s /\ s \o <<x>> = Append(s, x) /\ Append(<<>>, x) = <<x>> /\ Len(<<x>>) = 1
<1>1. s \in Seq(Range(s) \cup {x})
  BY DEF IsSequence
<1> QED
  BY <1>1

\* One line further.
LEMMA AfterNext ==
    ASSUME NEW lines, NEW n \in Nat \ {0}, NEW out, NEW fs, NEW ft, After(lines, n - 1, out, fs, ft)
    PROVE  LET alone == AddLine(NoOutcome, lines[n])
           IN /\ After(lines, n, AddLine(out, lines[n]), fs \o alone.samples, ft \o alone.tables)
              /\ IsSequence(alone.samples) /\ IsSequence(alone.tables)
<1> DEFINE line == lines[n]
           alone == AddLine(NoOutcome, line)
           r == AddLine(out, line)
           none == Begun(NoOutcome)
<1>1. /\ IsOutcome(NoOutcome) /\ NoOutcome.samples = <<>> /\ NoOutcome.tables = <<>>
      /\ none.samples = <<>> /\ none.tables = <<>>
  <2>1. IsOutcome(NoOutcome)
    BY NoOutcomeIsOne
  <2>2. NoOutcome.samples = <<>> /\ NoOutcome.tables = <<>>
    BY DEF NoOutcome
  <2> QED
    BY <2>1, <2>2, BegunOutcome
<1>2. /\ IsOutcome(out) /\ IsSequence(fs) /\ IsSequence(ft)
      /\ out.samples = UpTo(fs, MaxBatchSamples) /\ out.tables = UpTo(ft, MaxBatchMetadata)
      /\ MaxBatchSamples \in Nat \ {0} /\ MaxBatchMetadata \in Nat \ {0}
      /\ Len(fs) \in Nat /\ Len(ft) \in Nat
  <2>1. /\ IsOutcome(out) /\ IsSequence(fs) /\ IsSequence(ft)
        /\ out.samples = UpTo(fs, MaxBatchSamples) /\ out.tables = UpTo(ft, MaxBatchMetadata)
    BY DEF After
  <2> QED
    BY <2>1, WireAssumption, SequenceShape
<1>3. fs \o <<>> = fs /\ ft \o <<>> = ft /\ Len(<<>>) = 0 /\ IsSequence(<<>>)
  <2>1. <<>> \in Seq(Nat) /\ Len(<<>>) = 0
    OBVIOUS
  <2> QED
    BY <1>2, <2>1, JoinSmall, SequenceOf
<1> HIDE DEF line, alone, r, none
<1>4. CASE Skipped(line)
  <2>1. OneMoreSkipped(out, r) /\ alone.samples = <<>> /\ alone.tables = <<>>
    BY <1>1, <1>2, <1>4 DEF Skipped, OneMoreSkipped, r, alone
  <2>2. After(lines, n, r, fs, ft)
    <3>1. Len(fs) >= Len(fs) /\ Len(ft) >= Len(ft)
      BY <1>2
    <3> QED
      BY <1>2, <2>1, <3>1, AfterYielded
  <2> QED
    BY <1>3, <2>1, <2>2 DEF line, r, alone
<1>5. CASE Bad(line)
  <2>1. OneMoreRefused(Begun(out), r) /\ alone.samples = <<>> /\ alone.tables = <<>>
    BY <1>1, <1>2, <1>5 DEF Bad, OneMoreRefused, r, alone, none
  <2>2. Empty(lines, n)
    BY <2>1 DEF Empty, alone, line
  <2>3. After(lines, n, r, fs, ft)
    BY <1>2, <2>1, <2>2, AfterRefused
  <2> QED
    BY <1>3, <2>1, <2>3 DEF line, r, alone
<1>6. ASSUME NEW x, Yields(line, x)
      PROVE  /\ After(lines, n, r, fs \o alone.samples, ft \o alone.tables)
             /\ IsSequence(alone.samples) /\ IsSequence(alone.tables)
  <2> DEFINE gs == Append(fs, x)
  <2>1. alone.samples = <<x>> /\ alone.tables = <<>>
    <3>1. ~(Len(NoOutcome.samples) >= MaxBatchSamples)
      BY <1>1, <1>2, <1>3
    <3>2. OneMoreSample(none, alone, x)
      BY <1>1, <1>6, <3>1 DEF Yields, alone, none
    <3> QED
      BY <1>1, <1>2, <3>2, JoinSmall DEF OneMoreSample
  <2>2. fs \o <<x>> = gs /\ IsSequence(gs) /\ Len(gs) = Len(fs) + 1 /\ IsSequence(<<x>>)
    BY <1>2, JoinSmall, AppendShape, SingletonShape
  <2>3. UpTo(gs, MaxBatchSamples) = IF Len(fs) >= MaxBatchSamples THEN UpTo(fs, MaxBatchSamples)
                                    ELSE Append(UpTo(fs, MaxBatchSamples), x)
    BY <1>2, FirstOnesOfMore
  <2>4. Len(out.samples) >= MaxBatchSamples <=> Len(fs) >= MaxBatchSamples
    BY <1>2, FirstOnes
  <2> HIDE DEF gs
  <2>5. CASE Len(fs) >= MaxBatchSamples
    <3>1. OneMoreRefused(Begun(out), r)
      BY <1>2, <1>6, <2>4, <2>5 DEF Yields, r
    <3>2. MaxBatchSamples < Len(gs) /\ Len(gs) >= Len(fs) /\ Len(ft) >= Len(ft)
      BY <1>2, <2>2, <2>5
    <3>3. After(lines, n, r, gs, ft)
      BY <1>2, <2>2, <2>3, <2>5, <3>1, <3>2, AfterRefused
    <3> QED
      BY <1>3, <2>1, <2>2, <3>3
  <2>6. CASE ~(Len(fs) >= MaxBatchSamples)
    <3>1. OneMoreSample(Begun(out), r, x)
      BY <1>2, <1>6, <2>4, <2>6 DEF Yields, r
    <3>2. Len(gs) >= Len(fs) /\ Len(ft) >= Len(ft)
      BY <1>2, <2>2
    <3>3. After(lines, n, r, gs, ft)
      BY <1>2, <2>2, <2>3, <2>6, <3>1, <3>2, AfterYielded
    <3> QED
      BY <1>3, <2>1, <2>2, <3>3
  <2> QED
    BY <2>5, <2>6
<1>7. ASSUME NEW x, YieldsTable(line, x)
      PROVE  /\ After(lines, n, r, fs \o alone.samples, ft \o alone.tables)
             /\ IsSequence(alone.samples) /\ IsSequence(alone.tables)
  <2> DEFINE gt == Append(ft, x)
  <2>1. alone.samples = <<>> /\ alone.tables = <<x>>
    <3>1. ~(Len(NoOutcome.tables) >= MaxBatchMetadata)
      BY <1>1, <1>2, <1>3
    <3>2. OneMoreTable(none, alone, x)
      BY <1>1, <1>7, <3>1 DEF YieldsTable, alone, none
    <3> QED
      BY <1>1, <1>2, <3>2, JoinSmall DEF OneMoreTable
  <2>2. ft \o <<x>> = gt /\ IsSequence(gt) /\ Len(gt) = Len(ft) + 1 /\ IsSequence(<<x>>)
    BY <1>2, JoinSmall, AppendShape, SingletonShape
  <2>3. UpTo(gt, MaxBatchMetadata) = IF Len(ft) >= MaxBatchMetadata THEN UpTo(ft, MaxBatchMetadata)
                                     ELSE Append(UpTo(ft, MaxBatchMetadata), x)
    BY <1>2, FirstOnesOfMore
  <2>4. Len(out.tables) >= MaxBatchMetadata <=> Len(ft) >= MaxBatchMetadata
    BY <1>2, FirstOnes
  <2> HIDE DEF gt
  <2>5. CASE Len(ft) >= MaxBatchMetadata
    <3>1. OneMoreRefused(Begun(out), r)
      BY <1>2, <1>7, <2>4, <2>5 DEF YieldsTable, r
    <3>2. MaxBatchMetadata < Len(gt) /\ Len(gt) >= Len(ft) /\ Len(fs) >= Len(fs)
      BY <1>2, <2>2, <2>5
    <3>3. After(lines, n, r, fs, gt)
      BY <1>2, <2>2, <2>3, <2>5, <3>1, <3>2, AfterRefused
    <3> QED
      BY <1>3, <2>1, <2>2, <3>3
  <2>6. CASE ~(Len(ft) >= MaxBatchMetadata)
    <3>1. OneMoreTable(Begun(out), r, x)
      BY <1>2, <1>7, <2>4, <2>6 DEF YieldsTable, r
    <3>2. Len(gt) >= Len(ft) /\ Len(fs) >= Len(fs)
      BY <1>2, <2>2
    <3>3. After(lines, n, r, fs, gt)
      BY <1>2, <2>2, <2>3, <2>6, <3>1, <3>2, AfterYielded
    <3> QED
      BY <1>3, <2>1, <2>2, <3>3
  <2> QED
    BY <2>5, <2>6
<1>8. Skipped(line) \/ Bad(line) \/ (\E x : Yields(line, x)) \/ (\E x : YieldsTable(line, x))
  BY LineFates
<1> QED
  BY <1>4, <1>5, <1>6, <1>7, <1>8 DEF line, r, alone

\* decode_document, for every document: its outcome is what its lines yield
\* one by one.
LEMMA DocumentLineByLine ==
    ASSUME NEW lines, IsSequence(lines)
    PROVE  LET out == DecodeDocument(lines)
           IN /\ LineByLine(lines, out)
              /\ IsSequence(out.samples) /\ IsSequence(out.tables) /\ out.lines \in Nat
<1> DEFINE N == Len(lines)
           alone == [i \in DOMAIN lines |-> AddLine(NoOutcome, lines[i])]
           ss == [i \in DOMAIN lines |-> alone[i].samples]
           ts == [i \in DOMAIN lines |-> alone[i].tables]
<1>1. N \in Nat /\ DOMAIN lines = 1..N
  BY SequenceShape
<1>2. PICK out : /\ out[0] = NoOutcome /\ DecodeDocument(lines) = out[N]
                 /\ \A n \in 1..N : out[n] = AddLine(out[n - 1], lines[n])
  BY DecodeByLine
<1>3. After(lines, 0, NoOutcome, <<>>, <<>>)
  <2>1. /\ NoOutcome.samples = <<>> /\ NoOutcome.tables = <<>> /\ NoOutcome.diagnostics = <<>>
        /\ NoOutcome.line = 0 /\ NoOutcome.lines = 0 /\ NoOutcome.skipped = 0
        /\ NoOutcome.truncated = FALSE /\ RefusedOf(NoOutcome) = 0
    BY DEF NoOutcome, RefusedOf
  <2>2. IsSequence(<<>>) /\ Len(<<>>) = 0
    <3>1. <<>> \in Seq(Nat) /\ Len(<<>>) = 0
      OBVIOUS
    <3> QED
      BY <3>1, SequenceOf
  <2>3. /\ MaxBatchSamples \in Nat /\ MaxBatchMetadata \in Nat /\ MaxDiagnostics \in Nat
    BY WireAssumption
  <2>4. UpTo(<<>>, MaxBatchSamples) = <<>> /\ UpTo(<<>>, MaxBatchMetadata) = <<>>
    BY <2>2, <2>3, FirstOnes
  <2> QED
    BY <2>1, <2>2, <2>3, <2>4, NoOutcomeIsOne DEF After
<1>4. ASSUME NEW i \in 1..N PROVE IsSequence(ss[i]) /\ IsSequence(ts[i])
  <2>1. /\ IsSequence(AddLine(NoOutcome, lines[i]).samples)
        /\ IsSequence(AddLine(NoOutcome, lines[i]).tables)
    <3>1. CASE Skipped(lines[i])
      <4>1. IsOutcome(AddLine(NoOutcome, lines[i]))
        BY <3>1, NoOutcomeIsOne DEF Skipped, OneMoreSkipped
      <4> QED
        BY <4>1 DEF IsOutcome
    <3>2. CASE ~Skipped(lines[i])
      <4>1. IsOutcome(AddLine(NoOutcome, lines[i]))
        BY <3>2, NoOutcomeIsOne, LineFates
           DEF Bad, Yields, YieldsTable, OneMoreRefused, OneMoreSample, OneMoreTable
      <4> QED
        BY <4>1 DEF IsOutcome
    <3> QED
      BY <3>1, <3>2
  <2> QED
    BY <1>1, <2>1
<1>5. IsSequence(ss) /\ Len(ss) = N /\ IsSequence(ts) /\ Len(ts) = N
  <2>1. ASSUME NEW f, f = [i \in 1..N |-> f[i]] PROVE IsSequence(f) /\ Len(f) = N
    <3>1. f \in Seq(Range(f)) /\ Len(f) = N
      BY <1>1, <2>1 DEF Range
    <3> QED
      BY <3>1 DEF IsSequence
  <2>2. ss = [i \in 1..N |-> ss[i]] /\ ts = [i \in 1..N |-> ts[i]]
    BY <1>1
  <2> HIDE DEF ss, ts
  <2> QED
    BY <2>1, <2>2
<1>6. \A i \in 1..N : /\ ss[i] = AddLine(NoOutcome, lines[i]).samples
                      /\ ts[i] = AddLine(NoOutcome, lines[i]).tables
  BY <1>1
<1> HIDE DEF ss, ts
<1>7. PICK fs : /\ fs[0] = <<>> /\ FlattenSeq(ss) = fs[N]
                /\ \A n \in 1..N : fs[n] = fs[n - 1] \o ss[n]
  <2>1. \A i \in 1..Len(ss) : IsSequence(ss[i])
    BY <1>4, <1>5
  <2>2. \E f : /\ f[0] = <<>> /\ FlattenSeq(ss) = f[Len(ss)]
               /\ \A n \in 1..Len(ss) : f[n] = f[n - 1] \o ss[n]
    BY <1>5, <2>1, FlattenByParts, Zenon
  <2> QED
    BY <1>5, <2>2, Zenon
<1>8. PICK ft : /\ ft[0] = <<>> /\ FlattenSeq(ts) = ft[N]
                /\ \A n \in 1..N : ft[n] = ft[n - 1] \o ts[n]
  <2>1. \A i \in 1..Len(ts) : IsSequence(ts[i])
    BY <1>4, <1>5
  <2>2. \E f : /\ f[0] = <<>> /\ FlattenSeq(ts) = f[Len(ts)]
               /\ \A n \in 1..Len(ts) : f[n] = f[n - 1] \o ts[n]
    BY <1>5, <2>1, FlattenByParts, Zenon
  <2> QED
    BY <1>5, <2>2, Zenon
<1> DEFINE Right(n) == After(lines, n, out[n], fs[n], ft[n])
           Wrong == {n \in 0..N : ~Right(n)}
<1>9. Wrong = {}
  <2> SUFFICES ASSUME Wrong # {} PROVE FALSE
    OBVIOUS
  <2>1. PICK n \in Wrong : \A m \in Wrong : n <= m
    <3>1. Wrong \subseteq Nat
      BY <1>1
    <3> HIDE DEF Wrong
    <3> QED
      BY <3>1, LeastNat
  <2>2. Right(0)
    BY <1>2, <1>3, <1>7, <1>8
  <2>3. n \in 1..N /\ n \in Nat \ {0}
    BY <1>1, <2>1, <2>2
  <2>4. n - 1 \in 0..N /\ ~(n <= n - 1)
    BY <1>1, <2>3
  <2>5. Right(n - 1)
    BY <2>1, <2>4
  <2>6. After(lines, n, AddLine(out[n - 1], lines[n]),
              fs[n - 1] \o AddLine(NoOutcome, lines[n]).samples,
              ft[n - 1] \o AddLine(NoOutcome, lines[n]).tables)
    BY <2>3, <2>5, AfterNext
  <2>7. Right(n)
    BY <1>2, <1>6, <1>7, <1>8, <2>3, <2>6
  <2> QED
    BY <2>1, <2>7
<1>10. After(lines, N, DecodeDocument(lines), FlattenSeq(ss), FlattenSeq(ts))
  <2>1. N \in 0..N
    BY <1>1
  <2>2. Right(N)
    BY <1>9, <2>1
  <2> QED
    BY <1>2, <1>7, <1>8, <2>2
<1> DEFINE d == DecodeDocument(lines)
           samples == FlattenSeq(ss)
           tables == FlattenSeq(ts)
<1> HIDE DEF d, samples, tables
<1>11. After(lines, N, d, samples, tables)
  BY <1>10 DEF d, samples, tables
<1>12. ASSUME NEW e \in Range(d.diagnostics)
       PROVE  /\ e.line \in DOMAIN lines
              /\ \/ Empty(lines, e.line)
                 \/ MaxBatchSamples < Len(samples) \/ MaxBatchMetadata < Len(tables)
  <2>1. IsSequence(d.diagnostics)
    BY <1>11 DEF After, IsOutcome
  <2>2. PICK i \in 1..Len(d.diagnostics) : e = d.diagnostics[i]
    BY <2>1, SequenceShape DEF Range
  <2> QED
    BY <1>1, <1>11, <2>2 DEF After
<1>13. /\ d.samples = UpTo(samples, MaxBatchSamples) /\ d.tables = UpTo(tables, MaxBatchMetadata)
       /\ d.lines = Len(d.samples) + Len(d.tables) + (d.malformed + d.unsupported + d.mismatched)
       /\ Len(lines) = d.lines + d.skipped
       /\ IF d.truncated
          THEN /\ Len(d.diagnostics) = MaxDiagnostics
               /\ d.malformed + d.unsupported + d.mismatched > MaxDiagnostics
          ELSE Len(d.diagnostics) = d.malformed + d.unsupported + d.mismatched
  BY <1>11 DEF After, RefusedOf
<1>14. \A e \in Range(d.diagnostics) :
         \/ alone[e.line].samples = <<>> /\ alone[e.line].tables = <<>>
         \/ MaxBatchSamples < Len(samples) \/ MaxBatchMetadata < Len(tables)
  BY <1>12 DEF Empty
<1>15. IsSequence(d.samples) /\ IsSequence(d.tables) /\ d.lines \in Nat
  BY <1>11, RefusedCount DEF After, IsOutcome
<1>16. LineByLine(lines, d)
  BY Zenon, <1>13, <1>14 DEF LineByLine, samples, tables, ss, ts
<1> QED
  BY <1>15, <1>16 DEF d

-----------------------------------------------------------------------------
(* What a step of the store counts *)

\* What a report counts.
ReportKinds == {"presented", "accepted", "rejected", "fenced", "duplicates"}

\* The store's counters stay counters, and those of a report grow by one for
\* each of the given kinds.
StoreCounts(kinds) ==
    /\ IsCounts(counts') /\ LogShape'
    /\ \A k \in ReportKinds : counts[k] \in Nat /\ counts'[k] = counts[k] + One(k \in kinds)

\* The notices in the log do not touch them.
LEMMA NoticesApart ==
    ASSUME NEW c, ReportKinds \subseteq DOMAIN c, NEW kinds
    PROVE  \A k \in ReportKinds : RecordAll(c, kinds)[k] = c[k]
BY DEF RecordAll, ReportKinds

LEMMA RecordedShape ==
    ASSUME LogShape, NEW c, IsCounts(c), NEW kinds, Records(c, kinds)
    PROVE  IsCounts(counts') /\ LogShape'
<1>1. LET l == LogAll(kinds) IN IsCounts(RecordAll(c, kinds)) /\ IsSequence(l) /\ Len(l) <= MaxEvents
  BY Recorded DEF Records
<1> QED
  BY <1>1 DEF Records, LogShape

LEMMA AcceptedIsCounted ==
    ASSUME IsCounts(counts), LogShape, NEW s, NEW recovered, Accept(s, recovered)
    PROVE  StoreCounts({"presented", "accepted"}) /\ metadata' = metadata
<1>1. PICK c, kinds :
        /\ Settled(c) /\ Records(c, kinds)
        /\ c.presented = counts.presented + 1 /\ c.accepted = counts.accepted + 1
        /\ c.rejected = counts.rejected /\ c.fenced = counts.fenced
        /\ c.duplicates = counts.duplicates
  BY AcceptedCounts
<1>2. IsCounts(c) /\ IsCounts(counts') /\ LogShape'
  BY <1>1, RecordedShape DEF Settled
<1>3. metadata' = metadata
  BY Zenon DEF Accept
<1>4. ReportKinds \subseteq DOMAIN c
  BY <1>2 DEF IsCounts, ReportKinds
<1>5. \A k \in ReportKinds : counts'[k] = c[k]
  BY <1>1, <1>4, NoticesApart DEF Records
<1>6. \A k \in ReportKinds : counts[k] \in Nat /\ c[k] = counts[k] + One(k \in {"presented", "accepted"})
  BY <1>1 DEF IsCounts, ReportKinds, One
<1> QED
  BY <1>2, <1>3, <1>5, <1>6 DEF StoreCounts

\* What a refusal is counted as.
LEMMA RefusalIsCounted ==
    ASSUME IsCounts(counts), LogShape, NEW kinds, IsSequence(kinds)
    PROVE  /\ Refuse(Rejected, kinds) => StoreCounts({"presented", "rejected"})
           /\ Refuse(Fenced, kinds) => StoreCounts({"presented", "fenced"})
           /\ Refuse([Fenced EXCEPT !.duplicates = @ + 1], kinds)
                => StoreCounts({"presented", "fenced", "duplicates"})
<1> DEFINE duplicate == [Fenced EXCEPT !.duplicates = @ + 1]
<1>1. ASSUME NEW c \in {Rejected, Fenced, duplicate}, Refuse(c, kinds),
             NEW K, \A k \in ReportKinds : c[k] = counts[k] + One(k \in K)
      PROVE  StoreCounts(K)
  <2>1. Settled(c) /\ Records(c, kinds)
    BY <1>1, RefusalCounts DEF Refuse, Records
  <2>2. IsCounts(c) /\ IsCounts(counts') /\ LogShape'
    BY <2>1, RecordedShape DEF Settled
  <2>3. ReportKinds \subseteq DOMAIN c /\ \A k \in ReportKinds : counts[k] \in Nat
    BY <2>2 DEF IsCounts, ReportKinds
  <2>4. \A k \in ReportKinds : counts'[k] = c[k]
    BY <2>1, <2>3, NoticesApart DEF Records
  <2> QED
    BY <1>1, <2>2, <2>3, <2>4 DEF StoreCounts
<1>2. \A k \in ReportKinds : Rejected[k] = counts[k] + One(k \in {"presented", "rejected"})
  <2>1. /\ Rejected.presented = counts.presented + 1 /\ Rejected.rejected = counts.rejected + 1
        /\ Rejected.accepted = counts.accepted /\ Rejected.fenced = counts.fenced
        /\ Rejected.duplicates = counts.duplicates
    BY DEF Rejected, IsCounts
  <2> QED
    BY <2>1 DEF IsCounts, ReportKinds, One
<1>3. \A k \in ReportKinds : Fenced[k] = counts[k] + One(k \in {"presented", "fenced"})
  <2>1. /\ Fenced.presented = counts.presented + 1 /\ Fenced.fenced = counts.fenced + 1
        /\ Fenced.accepted = counts.accepted /\ Fenced.rejected = counts.rejected
        /\ Fenced.duplicates = counts.duplicates
    BY DEF Fenced, IsCounts
  <2> QED
    BY <2>1 DEF IsCounts, ReportKinds, One
<1>4. \A k \in ReportKinds : duplicate[k] = counts[k] + One(k \in {"presented", "fenced", "duplicates"})
  <2>1. Fenced.duplicates = counts.duplicates /\ ReportKinds \subseteq DOMAIN Fenced
        /\ \A k \in ReportKinds : counts[k] \in Nat
    BY DEF Fenced, IsCounts, ReportKinds
  <2>2. /\ duplicate["duplicates"] = counts["duplicates"] + 1
        /\ \A k \in ReportKinds \ {"duplicates"} : duplicate[k] = Fenced[k]
    BY <2>1 DEF ReportKinds
  <2>3. /\ One("duplicates" \in {"presented", "fenced", "duplicates"}) = 1
        /\ \A k \in ReportKinds \ {"duplicates"} :
             One(k \in {"presented", "fenced", "duplicates"}) = One(k \in {"presented", "fenced"})
    BY DEF One
  <2> HIDE DEF duplicate
  <2> QED
    BY <1>3, <2>2, <2>3
<1> QED
  BY <1>1, <1>2, <1>3, <1>4

LEMMA RejectedIsCounted ==
    ASSUME IsCounts(counts), LogShape, NEW s,
           RejectInvalid(s) \/ RejectSourceLimit(s) \/ RejectQueueLimit(s)
    PROVE  StoreCounts({"presented", "rejected"}) /\ metadata' = metadata
<1>1. IsSequence(<<"SampleRejected">>) /\ IsSequence(Append(RegistryEvents(s), "SampleRejected"))
  BY SingletonShape, RegistryEventsShape, AppendShape
<1>2. \E kinds : IsSequence(kinds) /\ Refuse(Rejected, kinds)
  BY <1>1 DEF RejectInvalid, RejectSourceLimit, RejectQueueLimit
<1> QED
  BY <1>2, RefusalIsCounted DEF Refuse

LEMMA FencedIsCounted ==
    ASSUME IsCounts(counts), LogShape, NEW s,
           FenceIncarnation(s) \/ FenceGeneration(s) \/ FenceAuthority(s)
    PROVE  StoreCounts({"presented", "fenced"}) /\ metadata' = metadata
<1>1. \A k \in {<<>>, Stage1Events(s), Stage2Events(s)} : \A x : IsSequence(Append(k, x))
  BY RegistryEventsShape, AppendShape, SingletonShape
<1>2. \E kinds : IsSequence(kinds) /\ Refuse(Fenced, kinds)
  BY <1>1 DEF FenceIncarnation, FenceGeneration, FenceAuthority, Fence
<1> QED
  BY <1>2, RefusalIsCounted DEF Refuse

LEMMA DuplicateIsCounted ==
    ASSUME IsCounts(counts), LogShape, NEW s, FenceSequence(s)
    PROVE  StoreCounts({"presented", "fenced", "duplicates"}) /\ metadata' = metadata
<1>1. IsSequence(Append(Stage3Events(s), "DuplicateReplay"))
  BY RegistryEventsShape, AppendShape
<1>2. \E kinds : IsSequence(kinds) /\ Refuse([Fenced EXCEPT !.duplicates = @ + 1], kinds)
  BY <1>1 DEF FenceSequence
<1> QED
  BY <1>2, RefusalIsCounted DEF Refuse

\* A table counts for no report.
LEMMA TableIsCounted ==
    ASSUME IsCounts(counts), LogShape, NEW t, ApplyMetadata(t) \/ FenceMetadata(t)
    PROVE  StoreCounts({})
<1>1. PICK c \in {[counts EXCEPT !.updates = @ + 1], [counts EXCEPT !.refused = @ + 1]},
           kind \in {"MetadataUpdated", "MetadataRevisionFenced"} :
         counts' = RecordAll(c, <<kind>>) /\ events' = LogAll(<<kind>>)
  BY DEF ApplyMetadata, FenceMetadata
<1>2. IsCounts(c)
  BY TableCounts DEF Settled
<1>3. Records(c, <<kind>>)
  BY <1>1, SingletonShape DEF Records
<1>4. IsCounts(counts') /\ LogShape'
  BY <1>2, <1>3, RecordedShape
<1>5. /\ ReportKinds \subseteq DOMAIN c
      /\ \A k \in ReportKinds : c[k] = counts[k] /\ counts[k] \in Nat
  BY DEF IsCounts, ReportKinds
<1>6. \A k \in ReportKinds : counts'[k] = c[k]
  BY <1>1, <1>5, NoticesApart
<1> QED
  BY <1>4, <1>5, <1>6 DEF StoreCounts, One

-----------------------------------------------------------------------------
(* The inductive invariant: where each call stands *)

\* Table t has been presented, and what is stored under m is not older.
InForce(t, m) ==
    /\ t.generation \in Nat /\ t.revision \in Nat
    /\ m.generation # 0 /\ ~NewerTable(Stored(t), m)

\* A call has decoded its document, or nothing was decoded.
DecodedOf(k) ==
    \/ k.phase \in {"none", "failed"} /\ k.decoded = NoOutcome
    \/ /\ k.phase # "none" /\ IsSequence(k.document.lines)
       /\ k.decoded = DecodeDocument(k.document.lines)

\* Some first tables of the document are in force, the others are left.
TablesOf(k, m) ==
    /\ k.phase \in {"tables", "batch", "accepted"} =>
         \E n \in Nat : /\ Len(k.decoded.tables) = n + Len(k.tables)
                        /\ \A i \in 1..Len(k.tables) : k.tables[i] = k.decoded.tables[n + i]
                        /\ \A i \in 1..n : InForce(k.decoded.tables[i], m)
    /\ k.phase \in {"batch", "accepted"} => Len(k.tables) = 0

\* The report covers the samples that are no longer left.
ReportOf(k) ==
    /\ k.phase \in {"none", "tables", "failed"} => k.admission = NoAdmission
    /\ k.phase = "tables" => k.samples = k.decoded.samples
    /\ k.phase \in {"batch", "accepted"} =>
         k.admission.presented + Len(k.samples) = Len(k.decoded.samples)
    /\ k.phase = "accepted" => Len(k.samples) = 0

CallOk(k, m) ==
    /\ DOMAIN k = DOMAIN NoCall /\ k.phase \in {"none", "tables", "batch", "accepted", "failed"}
    /\ IsSequence(k.tables) /\ IsSequence(k.samples) /\ k.admission \in [ReportKinds -> Nat]
    /\ DecodedOf(k) /\ TablesOf(k, m) /\ ReportOf(k)

\* What the reports of all calls say of one kind.
Admitted(x) == [c \in Callers |-> calls[c].admission[x]]

IngestInv ==
    /\ IsCounts(counts) /\ LogShape
    /\ metadata.generation \in Nat /\ metadata.revision \in Nat
    /\ DOMAIN calls = Callers /\ \A c \in Callers : CallOk(calls[c], metadata)
    /\ \A x \in ReportKinds : counts[x] = SumFunction(Admitted(x))

\* What the store does under a call.
StoreSide(K) ==
    /\ StoreCounts(K) /\ metadata'.generation \in Nat /\ metadata'.revision \in Nat
    /\ \A t : InForce(t, metadata) => InForce(t, metadata')

\* What a call does: only it moves, and its report grows as the counters do.
CallSide(c, K) ==
    /\ DOMAIN calls' = Callers /\ \A d \in Callers \ {c} : calls'[d] = calls[d]
    /\ CallOk(calls'[c], metadata')
    /\ \A x \in ReportKinds : calls'[c].admission[x] = calls[c].admission[x] + One(x \in K)

LEMMA CallFields ==
    /\ DOMAIN NoCall = {"phase", "document", "decoded", "tables", "samples", "admission"}
    /\ DOMAIN NoAdmission = ReportKinds
BY DEF NoCall, NoAdmission, ReportKinds

\* A step of one call keeps the invariant.
LEMMA CallMoves ==
    ASSUME IngestInv, NEW c \in Callers, NEW K, StoreSide(K), CallSide(c, K)
    PROVE  IngestInv'
<1>1. /\ IsCounts(counts') /\ LogShape' /\ metadata'.generation \in Nat
      /\ metadata'.revision \in Nat /\ DOMAIN calls' = Callers
  BY DEF StoreSide, StoreCounts, CallSide
<1>2. ASSUME NEW d \in Callers PROVE CallOk(calls'[d], metadata')
  <2>1. CASE d = c
    BY <2>1 DEF CallSide
  <2>2. CASE d # c
    <3>1. calls'[d] = calls[d] /\ CallOk(calls[d], metadata)
      BY <2>2 DEF CallSide, IngestInv
    <3>2. TablesOf(calls[d], metadata')
      <4>1. TablesOf(calls[d], metadata)
        BY <3>1 DEF CallOk
      <4>2. \A t : InForce(t, metadata) => InForce(t, metadata')
        BY DEF StoreSide
      <4> QED
        BY <4>1, <4>2 DEF TablesOf
    <3> QED
      BY <3>1, <3>2 DEF CallOk
  <2> QED
    BY <2>1, <2>2
<1>3. ASSUME NEW x \in ReportKinds PROVE counts'[x] = SumFunction(Admitted(x)')
  <2> DEFINE f == Admitted(x)
             g == Admitted(x)'
             one == One(x \in K)
  <2>1. f \in [Callers -> Nat]
    BY DEF Admitted, IngestInv, CallOk
  <2>2. g \in [Callers -> Nat]
    BY <1>2 DEF Admitted, CallOk
  <2>3. \A d \in Callers : d # c => g[d] = f[d]
    BY DEF Admitted, CallSide
  <2>4. g[c] = f[c] + one
    BY DEF Admitted, CallSide
  <2>5. one \in Nat /\ Callers \cup {c} = Callers /\ IsFiniteSet(Callers)
    BY IngestAssumption DEF One
  <2>6. counts[x] = SumFunction(f) /\ counts'[x] = counts[x] + one
    BY DEF IngestInv, StoreSide, StoreCounts
  <2> HIDE DEF f, g, one
  <2>7. GrowsBy(f, g, Callers, c, one)
    BY <2>1, <2>2, <2>3, <2>4, <2>5 DEF GrowsBy
  <2>8. SumFunction(g) = SumFunction(f) + one
    BY <2>5, <2>7, TotalGrows
  <2> QED
    BY <2>6, <2>8 DEF g
<1> QED
  BY <1>1, <1>2, <1>3 DEF IngestInv

\* A step that leaves the store alone.
LEMMA StoreAlone ==
    ASSUME IngestInv, UNCHANGED vars
    PROVE  StoreSide({}) /\ metadata' = metadata
<1>1. counts' = counts /\ events' = events /\ metadata' = metadata
  BY DEF vars
<1>2. \A x \in ReportKinds : counts[x] \in Nat /\ One(x \in {}) = 0
  BY DEF IngestInv, IsCounts, ReportKinds, One
<1>3. StoreCounts({})
  BY <1>1, <1>2 DEF StoreCounts, IngestInv, LogShape
<1> QED
  BY <1>1, <1>3 DEF StoreSide, IngestInv

\* A step that does not touch the reports.
LEMMA NothingReported ==
    ASSUME IngestInv, NEW c \in Callers, NEW a, a = calls[c].admission
    PROVE  \A x \in ReportKinds : a[x] = calls[c].admission[x] + One(x \in {})
<1>1. \A x \in ReportKinds : calls[c].admission[x] \in Nat /\ One(x \in {}) = 0
  BY DEF IngestInv, CallOk, One
<1> QED
  BY <1>1

-----------------------------------------------------------------------------
(* The steps *)

\* Zeros add up to zero.
LEMMA TotalOfZeros ==
    ASSUME NEW D, IsFiniteSet(D), NEW f \in [D -> Nat], \A x \in D : f[x] = 0
    PROVE  SumFunction(f) = 0
<1>1. PICK g : IsSums(g, f, D) /\ SumFunction(f) = g[D]
  BY TotalIsSum
<1> DEFINE Wrong == {n \in Nat : \E s \in SUBSET D : Cardinality(s) = n /\ g[s] # 0}
<1>2. \A s \in SUBSET D : IsFiniteSet(s) /\ Cardinality(s) \in Nat
  BY FS_Subset, FS_CardinalityType
<1>3. ASSUME Wrong # {} PROVE FALSE
  <2>1. Wrong \subseteq Nat
    OBVIOUS
  <2>2. PICK n \in Wrong : \A m \in Wrong : n <= m
    BY <1>3, <2>1, LeastNat
  <2>3. PICK s \in SUBSET D : Cardinality(s) = n /\ g[s] # 0
    BY <2>2
  <2>4. s # {}
    BY <1>1, <2>3 DEF IsSums, PartialSums
  <2> DEFINE p == Picked(s)
             t == s \ {p}
  <2>5. /\ p \in s /\ t \in SUBSET D /\ Cardinality(t) = Cardinality(s) - 1
        /\ Cardinality(s) \in Nat \ {0}
    BY <2>4, PickOne
  <2>6. g[s] = f[p] + g[t]
    BY <1>1, <2>4 DEF IsSums, PartialSums
  <2> HIDE DEF p, t
  <2>7. Cardinality(t) \notin Wrong /\ Cardinality(t) \in Nat
    <3>1. Cardinality(t) \in Nat /\ ~(n <= Cardinality(t))
      BY <1>2, <2>3, <2>5
    <3> HIDE DEF Wrong
    <3> QED
      BY <2>2, <3>1
  <2>8. g[t] = 0
    BY <2>5, <2>7
  <2> QED
    BY <2>3, <2>5, <2>6, <2>8
<1>4. g[D] = 0
  BY <1>2, <1>3
<1> QED
  BY <1>1, <1>4

LEMMA IngestInitInv == IngestInit => IngestInv
<1> SUFFICES ASSUME IngestInit PROVE IngestInv
  OBVIOUS
<1>1. IsSequence(<<>>) /\ Len(<<>>) = 0
  <2>1. <<>> \in Seq(Nat) /\ Len(<<>>) = 0
    OBVIOUS
  <2> QED
    BY <2>1, SequenceOf
<1>2. IsCounts(counts) /\ \A x \in ReportKinds : counts[x] = 0
  BY DEF IngestInit, Init, IsCounts, ReportKinds
<1>3. LogShape /\ metadata.generation \in Nat /\ metadata.revision \in Nat
  BY <1>1, StoreAssumption DEF IngestInit, Init, LogShape, NoTable
<1>4. /\ DOMAIN calls = Callers
      /\ \A c \in Callers : calls[c] = NoCall
  BY DEF IngestInit
<1>5. NoAdmission \in [ReportKinds -> Nat] /\ \A x \in ReportKinds : NoAdmission[x] = 0
  BY DEF NoAdmission, ReportKinds
<1>6. CallOk(NoCall, metadata)
  <2>1. /\ NoCall.phase = "none" /\ NoCall.decoded = NoOutcome /\ NoCall.tables = <<>>
        /\ NoCall.samples = <<>> /\ NoCall.admission = NoAdmission
    BY DEF NoCall
  <2>2. DecodedOf(NoCall) /\ TablesOf(NoCall, metadata) /\ ReportOf(NoCall)
    BY <2>1 DEF DecodedOf, TablesOf, ReportOf
  <2> QED
    BY <1>1, <1>5, <2>1, <2>2 DEF CallOk
<1>7. ASSUME NEW x \in ReportKinds PROVE SumFunction(Admitted(x)) = 0
  <2> DEFINE f == Admitted(x)
  <2>1. f \in [Callers -> Nat] /\ \A c \in Callers : f[c] = 0
    BY <1>4, <1>5 DEF Admitted, NoCall
  <2> HIDE DEF f
  <2>2. SumFunction(f) = 0
    BY <2>1, IngestAssumption, TotalOfZeros
  <2> QED
    BY <2>2 DEF f
<1> QED
  BY <1>2, <1>3, <1>4, <1>6, <1>7 DEF IngestInv

\* What EXCEPT leaves of the calls.
OnlyThisCall(c, k) == calls' = [calls EXCEPT ![c] = k]

LEMMA OtherCalls ==
    ASSUME IngestInv, NEW c \in Callers, NEW k, OnlyThisCall(c, k)
    PROVE  /\ DOMAIN calls' = Callers /\ calls'[c] = k
           /\ \A d \in Callers \ {c} : calls'[d] = calls[d]
BY DEF OnlyThisCall, IngestInv

LEMMA DecodeKeeps ==
    ASSUME IngestInv, NEW c \in Callers, NEW d \in Documents[c], Decode(c, d) \/ DecodeFails(c, d)
    PROVE  IngestInv'
<1> DEFINE old == calls[c]
<1>1. /\ CallOk(old, metadata) /\ old.phase = "none" /\ UNCHANGED vars
  BY DEF IngestInv, Decode, DecodeFails
<1>2. StoreSide({}) /\ metadata' = metadata
  BY <1>1, StoreAlone
<1>3. CASE Decode(c, d)
  <2> DEFINE out == DecodeDocument(d.lines)
             new == [old EXCEPT !.phase = "tables", !.document = d, !.decoded = out,
                                !.tables = out.tables, !.samples = out.samples]
  <2>1. OnlyThisCall(c, new)
    BY <1>3, Zenon DEF Decode, OnlyThisCall
  <2>2. IsSequence(d.lines)
    BY IngestAssumption DEF IsSequence
  <2>3. IsSequence(out.samples) /\ IsSequence(out.tables)
    BY <2>2, DocumentLineByLine
  <2> HIDE DEF out, old
  <2>4. /\ DOMAIN new = DOMAIN NoCall /\ new.phase = "tables" /\ new.document = d
        /\ new.decoded = out /\ new.tables = out.tables /\ new.samples = out.samples
        /\ new.admission = old.admission
    BY <1>1, CallFields DEF CallOk
  <2> HIDE DEF new
  <2>5. new.admission = NoAdmission /\ new.admission \in [ReportKinds -> Nat]
    BY <1>1, <2>4 DEF CallOk, ReportOf
  <2>6. DecodedOf(new)
    BY <2>2, <2>4 DEF DecodedOf, out
  <2>7. TablesOf(new, metadata')
    <3>1. /\ 0 \in Nat /\ Len(new.decoded.tables) = 0 + Len(new.tables)
          /\ \A i \in 1..Len(new.tables) : new.tables[i] = new.decoded.tables[0 + i]
      BY <2>3, <2>4, SequenceShape
    <3>2. \A i \in 1..0 : InForce(new.decoded.tables[i], metadata')
      OBVIOUS
    <3> QED
      BY <2>4, <3>1, <3>2 DEF TablesOf
  <2>8. ReportOf(new)
    BY <2>4, <2>5 DEF ReportOf
  <2>9. CallOk(new, metadata')
    BY <2>3, <2>4, <2>5, <2>6, <2>7, <2>8 DEF CallOk
  <2>10. \A x \in ReportKinds : new.admission[x] = calls[c].admission[x] + One(x \in {})
    BY <2>4, NothingReported DEF old
  <2>11. CallSide(c, {})
    BY <2>1, <2>9, <2>10, OtherCalls DEF CallSide
  <2> QED
    BY <1>2, <2>11, CallMoves
<1>4. CASE DecodeFails(c, d)
  <2> DEFINE new == [old EXCEPT !.phase = "failed", !.document = d]
  <2>1. OnlyThisCall(c, new)
    BY <1>4, Zenon DEF DecodeFails, OnlyThisCall
  <2> HIDE DEF old
  <2>2. /\ DOMAIN new = DOMAIN NoCall /\ new.phase = "failed"
        /\ new.decoded = old.decoded /\ new.tables = old.tables /\ new.samples = old.samples
        /\ new.admission = old.admission
    BY <1>1, CallFields DEF CallOk
  <2> HIDE DEF new
  <2>3. CallOk(new, metadata')
    BY <1>1, <2>2 DEF CallOk, DecodedOf, TablesOf, ReportOf
  <2>4. \A x \in ReportKinds : new.admission[x] = calls[c].admission[x] + One(x \in {})
    BY <2>2, NothingReported DEF old
  <2>5. CallSide(c, {})
    BY <2>1, <2>3, <2>4, OtherCalls DEF CallSide
  <2> QED
    BY <1>2, <2>5, CallMoves
<1> QED
  BY <1>3, <1>4

\* A stored table never gives way to an older one.
LEMMA TableForward ==
    ASSUME IngestInv, NEW t, ValidTable(t), ApplyMetadata(Stored(t)) \/ FenceMetadata(Stored(t))
    PROVE  StoreSide({}) /\ InForce(t, metadata')
<1> DEFINE new == Stored(t)
<1>1. t.generation \in Nat \ {0} /\ t.revision \in Nat
  BY DEF ValidTable
<1>2. new.generation = t.generation /\ new.revision = t.revision
  BY DEF Stored
<1>3. \A x : Stored(x).generation = x.generation /\ Stored(x).revision = x.revision
  BY DEF Stored
<1> HIDE DEF new
<1>4. StoreCounts({})
  BY TableIsCounted DEF IngestInv, new
<1>5. metadata.generation \in Nat /\ metadata.revision \in Nat
  BY DEF IngestInv
<1>6. CASE ApplyMetadata(new)
  <2>1. metadata' = new /\ (metadata.generation # 0 => NewerTable(new, metadata))
    BY <1>6 DEF ApplyMetadata, HasMetadata
  <2>2. InForce(t, metadata')
    BY <1>1, <1>2, <1>3, <2>1 DEF InForce, NewerTable
  <2>3. ASSUME NEW x, InForce(x, metadata) PROVE InForce(x, metadata')
    BY <1>1, <1>2, <1>3, <1>5, <2>1, <2>3 DEF InForce, NewerTable
  <2> QED
    BY <1>1, <1>2, <1>4, <2>1, <2>2, <2>3 DEF StoreSide
<1>7. CASE FenceMetadata(new)
  <2>1. metadata' = metadata /\ metadata.generation # 0 /\ ~NewerTable(new, metadata)
    BY <1>7 DEF FenceMetadata, HasMetadata
  <2> QED
    BY <1>1, <1>4, <1>5, <2>1 DEF StoreSide, InForce, new
<1> QED
  BY <1>6, <1>7 DEF new

\* The rest of a sequence.
LEMMA TailShape ==
    ASSUME NEW s, IsSequence(s), s # <<>>
    PROVE  /\ Len(s) \in Nat \ {0} /\ IsSequence(Tail(s)) /\ Len(Tail(s)) = Len(s) - 1
           /\ Head(s) = s[1] /\ \A i \in 1..(Len(s) - 1) : Tail(s)[i] = s[i + 1]
<1>1. s \in Seq(Range(s)) /\ s # <<>>
  BY DEF IsSequence
<1>2. /\ Len(s) \in Nat \ {0} /\ Tail(s) \in Seq(Range(s)) /\ Len(Tail(s)) = Len(s) - 1
      /\ Head(s) = s[1] /\ \A i \in 1..(Len(s) - 1) : Tail(s)[i] = s[i + 1]
  BY <1>1
<1> QED
  BY <1>2, SequenceOf

\* A table of the document comes into force, and the older ones stay so.
LEMMA ApplyTableKeeps ==
    ASSUME IngestInv, NEW c \in Callers, ApplyTable(c)
    PROVE  IngestInv'
<1> DEFINE old == calls[c]
           t == Head(old.tables)
           new == [old EXCEPT !.tables = Tail(old.tables)]
<1>1. /\ CallOk(old, metadata) /\ old.phase = "tables" /\ old.tables # <<>>
      /\ ValidTable(t) /\ (ApplyMetadata(Stored(t)) \/ FenceMetadata(Stored(t)))
  BY DEF IngestInv, ApplyTable
<1>2. StoreSide({}) /\ InForce(t, metadata')
  BY <1>1, TableForward
<1>3. OnlyThisCall(c, new)
  BY DEF ApplyTable, OnlyThisCall
<1> HIDE DEF old
<1>4. /\ Len(old.tables) \in Nat \ {0} /\ IsSequence(Tail(old.tables))
      /\ Len(Tail(old.tables)) = Len(old.tables) - 1 /\ t = old.tables[1]
      /\ \A i \in 1..(Len(old.tables) - 1) : Tail(old.tables)[i] = old.tables[i + 1]
  BY <1>1, TailShape DEF CallOk
<1>5. /\ DOMAIN new = DOMAIN NoCall /\ new.phase = "tables" /\ new.document = old.document
      /\ new.decoded = old.decoded /\ new.tables = Tail(old.tables)
      /\ new.samples = old.samples /\ new.admission = old.admission
  BY <1>1, CallFields DEF CallOk
<1> HIDE DEF new, t
<1>6. TablesOf(new, metadata')
  <2>1. PICK n \in Nat : /\ Len(old.decoded.tables) = n + Len(old.tables)
                         /\ \A i \in 1..Len(old.tables) : old.tables[i] = old.decoded.tables[n + i]
                         /\ \A i \in 1..n : InForce(old.decoded.tables[i], metadata)
    BY <1>1 DEF CallOk, TablesOf
  <2> DEFINE m == n + 1
  <2>2. m \in Nat /\ Len(new.decoded.tables) = m + Len(new.tables)
    <3>0. Len(old.tables) \in Nat /\ n \in Nat
      BY <1>4, <2>1
    <3>1. m \in Nat /\ n + Len(old.tables) = m + (Len(old.tables) - 1)
      <4>1. \A x, y \in Nat : x + 1 \in Nat /\ x + y = (x + 1) + (y - 1)
        OBVIOUS
      <4> QED
        BY <3>0, <4>1
    <3>2. Len(new.decoded.tables) = n + Len(old.tables) /\ Len(new.tables) = Len(old.tables) - 1
      BY <1>4, <1>5, <2>1
    <3> QED
      BY <3>1, <3>2
  <2>3. ASSUME NEW i \in 1..Len(new.tables) PROVE new.tables[i] = new.decoded.tables[m + i]
    <3>1. i \in 1..(Len(old.tables) - 1) /\ i + 1 \in 1..Len(old.tables) /\ n + (i + 1) = m + i
      BY <1>4, <1>5
    <3>2. new.tables[i] = old.tables[i + 1]
      BY <1>4, <1>5, <3>1
    <3>3. old.tables[i + 1] = old.decoded.tables[n + (i + 1)]
      BY <2>1, <3>1
    <3> QED
      BY <1>5, <3>1, <3>2, <3>3
  <2>4. ASSUME NEW i \in 1..m PROVE InForce(new.decoded.tables[i], metadata')
    <3>1. CASE i = m
      <4>1. 1 \in 1..Len(old.tables)
        BY <1>4
      <4>2. old.decoded.tables[m] = t
        BY <1>4, <2>1, <4>1
      <4> QED
        BY <1>2, <1>5, <3>1, <4>2
    <3>2. CASE i # m
      <4>1. i \in 1..n
        BY <3>2
      <4>2. InForce(old.decoded.tables[i], metadata)
        BY <2>1, <4>1
      <4> QED
        BY <1>2, <1>5, <4>2 DEF StoreSide
    <3> QED
      BY <3>1, <3>2
  <2> HIDE DEF m
  <2> QED
    BY <1>5, <2>2, <2>3, <2>4 DEF TablesOf
<1>7. DecodedOf(new) /\ ReportOf(new)
  BY <1>1, <1>5 DEF CallOk, DecodedOf, ReportOf
<1>8. CallOk(new, metadata')
  BY <1>1, <1>4, <1>5, <1>6, <1>7 DEF CallOk
<1>9. \A x \in ReportKinds : new.admission[x] = calls[c].admission[x] + One(x \in {})
  BY <1>5, NothingReported DEF old
<1>10. CallSide(c, {})
  BY <1>3, <1>8, <1>9, OtherCalls DEF CallSide
<1> QED
  BY <1>2, <1>10, CallMoves

\* A call that goes on to its next phase and leaves the store alone.
LEMMA PhaseKeeps ==
    ASSUME IngestInv, NEW c \in Callers, RefuseTable(c) \/ BeginBatch(c) \/ Returns(c)
    PROVE  IngestInv'
<1> DEFINE old == calls[c]
           phase == IF RefuseTable(c) THEN "failed" ELSE IF BeginBatch(c) THEN "batch" ELSE "accepted"
           new == [old EXCEPT !.phase = phase]
<1>1. CallOk(old, metadata) /\ UNCHANGED vars
  BY DEF IngestInv, RefuseTable, BeginBatch, Returns
<1>2. StoreSide({}) /\ metadata' = metadata
  BY <1>1, StoreAlone
<1>3. /\ OnlyThisCall(c, new)
      /\ \/ phase = "failed" /\ old.phase = "tables"
         \/ phase = "batch" /\ old.phase = "tables" /\ old.tables = <<>>
         \/ phase = "accepted" /\ old.phase = "batch" /\ old.samples = <<>>
  <2>1. CASE RefuseTable(c)
    BY <2>1 DEF RefuseTable, OnlyThisCall
  <2>2. CASE ~RefuseTable(c) /\ BeginBatch(c)
    BY <2>2 DEF BeginBatch, OnlyThisCall
  <2>3. CASE ~RefuseTable(c) /\ ~BeginBatch(c)
    <3>1. Returns(c) /\ phase = "accepted"
      BY <2>3
    <3> HIDE DEF phase
    <3> QED
      BY <3>1 DEF Returns, OnlyThisCall
  <2> QED
    BY <2>1, <2>2, <2>3
<1> HIDE DEF old, phase
<1>4. /\ DOMAIN new = DOMAIN NoCall /\ new.phase = phase /\ new.document = old.document
      /\ new.decoded = old.decoded /\ new.tables = old.tables
      /\ new.samples = old.samples /\ new.admission = old.admission
  BY <1>1, CallFields DEF CallOk
<1> HIDE DEF new
<1>5. /\ IsSequence(new.tables) /\ IsSequence(new.samples) /\ new.admission \in [ReportKinds -> Nat]
      /\ DecodedOf(old) /\ TablesOf(old, metadata) /\ ReportOf(old) /\ Len(<<>>) = 0
  BY <1>1, <1>4 DEF CallOk
<1>6. DecodedOf(new)
  BY <1>3, <1>4, <1>5 DEF DecodedOf
<1>7. TablesOf(new, metadata')
  BY <1>2, <1>3, <1>4, <1>5 DEF TablesOf
<1>8. ReportOf(new)
  <2>1. CASE phase = "failed"
    BY <1>3, <1>4, <1>5, <2>1 DEF ReportOf
  <2>2. CASE phase = "batch"
    <3>1. old.phase = "tables" /\ old.admission = NoAdmission /\ old.samples = old.decoded.samples
      BY <1>3, <1>5, <2>2 DEF ReportOf
    <3>2. NoAdmission.presented = 0 /\ Len(new.samples) \in Nat
      BY <1>5, SequenceShape DEF NoAdmission
    <3>3. new.admission.presented + Len(new.samples) = Len(new.decoded.samples)
      BY <1>4, <3>1, <3>2
    <3> QED
      BY <1>4, <2>2, <3>3 DEF ReportOf
  <2>3. CASE phase = "accepted"
    BY <1>3, <1>4, <1>5, <2>3 DEF ReportOf
  <2> QED
    BY <1>3, <2>1, <2>2, <2>3
<1>9. CallOk(new, metadata')
  BY <1>3, <1>4, <1>5, <1>6, <1>7, <1>8 DEF CallOk
<1>10. \A x \in ReportKinds : new.admission[x] = calls[c].admission[x] + One(x \in {})
  BY <1>4, NothingReported DEF old
<1>11. CallSide(c, {})
  BY <1>3, <1>9, <1>10, OtherCalls DEF CallSide
<1> QED
  BY <1>2, <1>11, CallMoves

\* A sample of a batch: the report counts it as the store does.
LEMMA BatchKeeps ==
    ASSUME IngestInv, NEW c \in Callers, NEW kinds, kinds \subseteq ReportKinds,
           Batch(c, Counted(calls[c].admission, kinds)),
           StoreCounts(kinds \cup {"presented"}), metadata' = metadata
    PROVE  IngestInv'
<1> DEFINE old == calls[c]
           K == kinds \cup {"presented"}
           a == Counted(old.admission, kinds)
           new == [old EXCEPT !.samples = Tail(old.samples), !.admission = a]
<1>1. CallOk(old, metadata) /\ old.phase = "batch" /\ old.samples # <<>>
  BY DEF IngestInv, Batch
<1>2. StoreSide(K)
  BY DEF StoreSide, IngestInv
<1>3. OnlyThisCall(c, new)
  BY DEF Batch, OnlyThisCall, IngestInv
<1>4. old.admission \in [ReportKinds -> Nat]
  BY <1>1 DEF CallOk
<1> HIDE DEF old
<1>5. /\ a \in [ReportKinds -> Nat]
      /\ \A x \in ReportKinds : a[x] = old.admission[x] + One(x \in K)
  <2>1. \A x \in ReportKinds : One(x \in K) \in Nat
    BY DEF One
  <2>2. a = [x \in ReportKinds |-> old.admission[x] + One(x \in K)]
    BY <1>4 DEF Counted
  <2> HIDE DEF a, K
  <2> QED
    BY <1>4, <2>1, <2>2
<1>6. a.presented = old.admission.presented + 1 /\ old.admission.presented \in Nat
  <2>1. "presented" \in ReportKinds /\ One("presented" \in K) = 1
    BY DEF ReportKinds, One
  <2> HIDE DEF a, K
  <2> QED
    BY <1>4, <1>5, <2>1
<1>7. /\ Len(old.samples) \in Nat \ {0} /\ IsSequence(Tail(old.samples))
      /\ Len(Tail(old.samples)) = Len(old.samples) - 1
  BY <1>1, TailShape DEF CallOk
<1> HIDE DEF a
<1>8. /\ DOMAIN new = DOMAIN NoCall /\ new.phase = "batch" /\ new.document = old.document
      /\ new.decoded = old.decoded /\ new.tables = old.tables
      /\ new.samples = Tail(old.samples) /\ new.admission = a
  BY <1>1, CallFields DEF CallOk
<1> HIDE DEF new
<1>9. ReportOf(new)
  <2>1. old.admission.presented + Len(old.samples) = Len(old.decoded.samples)
    BY <1>1 DEF CallOk, ReportOf
  <2>2. (old.admission.presented + 1) + (Len(old.samples) - 1) = Len(old.decoded.samples)
    BY <1>6, <1>7, <2>1
  <2>3. new.admission.presented + Len(new.samples) = Len(new.decoded.samples)
    BY <1>6, <1>7, <1>8, <2>2
  <2> QED
    BY <1>8, <2>3 DEF ReportOf
<1>10. DecodedOf(new) /\ TablesOf(new, metadata') /\ IsSequence(new.tables)
  BY <1>1, <1>8 DEF CallOk, DecodedOf, TablesOf
<1>11. CallOk(new, metadata')
  BY <1>5, <1>7, <1>8, <1>9, <1>10 DEF CallOk
<1>12. CallSide(c, K)
  <2>1. /\ DOMAIN calls' = Callers /\ calls'[c] = new
        /\ \A d \in Callers \ {c} : calls'[d] = calls[d]
    BY <1>3, OtherCalls
  <2>2. \A x \in ReportKinds : calls'[c].admission[x] = calls[c].admission[x] + One(x \in K)
    BY <1>5, <1>8, <2>1 DEF old
  <2> QED
    BY <1>11, <2>1, <2>2 DEF CallSide
<1> HIDE DEF K
<1> QED
  BY <1>2, <1>12, CallMoves

\* Each outcome of a sample counts as the report says.
LEMMA BatchStepsKeep ==
    ASSUME IngestInv, NEW c \in Callers, BatchAccepts(c) \/ BatchRefuses(c)
    PROVE  IngestInv'
<1> DEFINE CountsAs(kinds) ==
             /\ Batch(c, Counted(calls[c].admission, kinds))
             /\ StoreCounts(kinds \cup {"presented"}) /\ metadata' = metadata
<1>1. IsCounts(counts) /\ LogShape
  BY DEF IngestInv
<1>2. /\ {"accepted"} \cup {"presented"} = {"presented", "accepted"}
      /\ {"rejected"} \cup {"presented"} = {"presented", "rejected"}
      /\ {"fenced"} \cup {"presented"} = {"presented", "fenced"}
      /\ {"fenced", "duplicates"} \cup {"presented"} = {"presented", "fenced", "duplicates"}
  OBVIOUS
<1>3. CASE BatchAccepts(c)
  <2>1. Batch(c, Counted(calls[c].admission, {"accepted"})) /\ AcceptLive(Offered(c))
    BY <1>3 DEF BatchAccepts
  <2>2. \E recovered : Accept(Offered(c), recovered)
    BY <2>1, Zenon DEF AcceptLive
  <2>3. StoreCounts({"presented", "accepted"}) /\ metadata' = metadata
    BY <1>1, <2>2, AcceptedIsCounted
  <2>4. CountsAs({"accepted"})
    BY <1>2, <2>1, <2>3
  <2>5. {"accepted"} \subseteq ReportKinds
    BY DEF ReportKinds
  <2> QED
    BY <2>4, <2>5, BatchKeeps
<1>4. CASE BatchRefuses(c)
  <2> DEFINE s == Offered(c)
  <2>1. ASSUME Batch(c, Counted(calls[c].admission, {"rejected"})),
               RejectInvalid(s) \/ RejectSourceLimit(s) \/ RejectQueueLimit(s)
        PROVE  CountsAs({"rejected"})
    BY <1>1, <1>2, <2>1, RejectedIsCounted
  <2>2. ASSUME Batch(c, Counted(calls[c].admission, {"fenced"})),
               FenceIncarnation(s) \/ FenceGeneration(s) \/ FenceAuthority(s)
        PROVE  CountsAs({"fenced"})
    BY <1>1, <1>2, <2>2, FencedIsCounted
  <2>3. ASSUME Batch(c, Counted(calls[c].admission, {"fenced", "duplicates"})), FenceSequence(s)
        PROVE  CountsAs({"fenced", "duplicates"})
    BY <1>1, <1>2, <2>3, DuplicateIsCounted
  <2>4. \E kinds \in {{"rejected"}, {"fenced"}, {"fenced", "duplicates"}} : CountsAs(kinds)
    <3> HIDE DEF CountsAs
    <3> QED
      BY <1>4, <2>1, <2>2, <2>3, Zenon DEF BatchRefuses
  <2>5. \A kinds \in {{"rejected"}, {"fenced"}, {"fenced", "duplicates"}} : kinds \subseteq ReportKinds
    BY DEF ReportKinds
  <2> QED
    BY <2>4, <2>5, BatchKeeps
<1> QED
  BY <1>3, <1>4

LEMMA IngestNextInv == IngestInv /\ [IngestNext]_ingestVars => IngestInv'
<1> SUFFICES ASSUME IngestInv, [IngestNext]_ingestVars PROVE IngestInv'
  OBVIOUS
<1>1. CASE IngestNext
  <2>1. PICK c \in Callers :
          \/ \E d \in Documents[c] : Decode(c, d) \/ DecodeFails(c, d)
          \/ ApplyTable(c)
          \/ RefuseTable(c) \/ BeginBatch(c) \/ Returns(c)
          \/ BatchAccepts(c) \/ BatchRefuses(c)
    BY <1>1, Zenon DEF IngestNext
  <2>2. CASE \E d \in Documents[c] : Decode(c, d) \/ DecodeFails(c, d)
    BY <2>2, DecodeKeeps
  <2>3. CASE ApplyTable(c)
    BY <2>3, ApplyTableKeeps
  <2>4. CASE RefuseTable(c) \/ BeginBatch(c) \/ Returns(c)
    BY <2>4, PhaseKeeps
  <2>5. CASE BatchAccepts(c) \/ BatchRefuses(c)
    BY <2>5, BatchStepsKeep
  <2> QED
    BY <2>1, <2>2, <2>3, <2>4, <2>5
<1>2. CASE UNCHANGED ingestVars
  <2>1. UNCHANGED <<counts, events, metadata, calls>>
    BY <1>2 DEF ingestVars, vars
  <2> QED
    BY <2>1 DEF IngestInv, LogShape, Admitted
<1> QED
  BY <1>1, <1>2

\* The invariant holds of every run of ingest_document's callers.
THEOREM IngestInvariant == IngestSpec => []IngestInv
<1>1. IngestInit => IngestInv
  BY IngestInitInv
<1>2. IngestInv /\ [IngestNext]_ingestVars => IngestInv'
  BY IngestNextInv
<1> QED
  BY <1>1, <1>2, PTL DEF IngestSpec

-----------------------------------------------------------------------------
(* Theorems *)

\* Samples are classified under the metadata their document came with: when
\* ingest_document admits a batch, the stored table is at least as new as
\* every table of that document, for any number of concurrent callers.
THEOREM IngestTablesBeforeSamples == IngestSpec => []TablesBeforeSamples
<1>1. IngestInv => TablesBeforeSamples
  <2> SUFFICES ASSUME IngestInv, NEW c \in Callers, calls[c].phase \in {"batch", "accepted"},
                      NEW t \in Range(calls[c].decoded.tables)
               PROVE  HasMetadata /\ ~NewerTable(Stored(t), metadata)
    BY DEF TablesBeforeSamples
  <2> DEFINE k == calls[c]
  <2>1. CallOk(k, metadata)
    BY DEF IngestInv
  <2>2. k.phase \in {"tables", "batch", "accepted"} /\ k.phase # "none" /\ k.phase # "failed"
    OBVIOUS
  <2>3. IsSequence(k.decoded.tables)
    BY <2>1, <2>2, DocumentLineByLine DEF CallOk, DecodedOf
  <2>4. PICK n \in Nat : /\ Len(k.decoded.tables) = n + 0
                         /\ \A i \in 1..n : InForce(k.decoded.tables[i], metadata)
    BY <2>1, <2>2 DEF CallOk, TablesOf
  <2>5. PICK i \in 1..Len(k.decoded.tables) : t = k.decoded.tables[i]
    BY <2>3, SequenceShape DEF Range
  <2>6. InForce(t, metadata)
    BY <2>4, <2>5
  <2> QED
    BY <2>6 DEF InForce, HasMetadata
<1> QED
  BY <1>1, IngestInvariant, PTL

\* What the callers of ingest_document are told is what the store counted:
\* the reports of all calls add up to the store's counters, a call that
\* failed admitted nothing, one that succeeded presented all it decoded.
THEOREM IngestReportsAddUp == IngestSpec => []ReportsAddUp
<1>1. IngestInv => ReportsAddUp
  <2> SUFFICES ASSUME IngestInv PROVE ReportsAddUp
    OBVIOUS
  <2>1. \A k \in DOMAIN NoAdmission :
          counts[k] = SumFunction([c \in Callers |-> calls[c].admission[k]])
    BY CallFields, Zenon DEF IngestInv, Admitted
  <2>2. ASSUME NEW c \in Callers, calls[c].phase = "failed" PROVE calls[c].admission = NoAdmission
    BY <2>2 DEF IngestInv, CallOk, ReportOf
  <2>3. ASSUME NEW c \in Callers, calls[c].phase = "accepted"
        PROVE  calls[c].admission.presented = Len(calls[c].decoded.samples)
    <3> DEFINE a == calls[c].admission
    <3>1. a \in [ReportKinds -> Nat] /\ a.presented + 0 = Len(calls[c].decoded.samples)
      BY <2>3 DEF IngestInv, CallOk, ReportOf
    <3>2. a.presented \in Nat
      BY <3>1 DEF ReportKinds
    <3> QED
      BY <3>1, <3>2
  <2> QED
    BY <2>1, <2>2, <2>3, Zenon DEF ReportsAddUp
<1> QED
  BY <1>1, IngestInvariant, PTL

\* One bad record cannot hide the rest: whatever document a caller presents,
\* of whatever length, its decoded samples and tables are those its lines
\* yield on their own, and every refused line is counted.
THEOREM IngestLinesAreIndependent == IngestSpec => []LinesAreIndependent
<1>1. IngestInv => LinesAreIndependent
  <2> SUFFICES ASSUME IngestInv, NEW c \in Callers,
                      calls[c].phase \notin {"none", "failed"} \/ calls[c].decoded.lines > 0
               PROVE  LineByLine(calls[c].document.lines, calls[c].decoded)
    BY DEF LinesAreIndependent, Decoded
  <2> DEFINE k == calls[c]
  <2>1. DecodedOf(k)
    BY DEF IngestInv, CallOk
  <2>2. ~(NoOutcome.lines > 0)
    BY DEF NoOutcome
  <2>3. IsSequence(k.document.lines) /\ k.decoded = DecodeDocument(k.document.lines)
    BY <2>1, <2>2 DEF DecodedOf
  <2> QED
    BY <2>3, DocumentLineByLine
<1> QED
  BY <1>1, IngestInvariant, PTL
=============================================================================
