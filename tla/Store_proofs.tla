----------------------------- MODULE Store_proofs -----------------------------
(***************************************************************************)
(* Proofs about the queue store, for any samples, limits and policy: the   *)
(* registry only moves forward, what reaches a history has passed its      *)
(* fences, no sequence number is used twice, the peers and the conflict    *)
(* table describe the queues, the limits hold, every sample is counted     *)
(* once, and a drop inside the window decides the state.                   *)
(***************************************************************************)
EXTENDS Store, FiniteSetTheorems, SequenceTheorems, WellFoundedInduction, TLAPS

-----------------------------------------------------------------------------
(* Operators of the model *)

\* Some of the numbers in a set is the least: what takes the place of an
\* induction principle in the proofs.
LEMMA LeastNat ==
    ASSUME NEW T, T \subseteq Nat, T # {}
    PROVE  \E x \in T : \A y \in T : x <= y
<1> DEFINE R == OpToRel(<, Nat)
<1>1. IsWellFoundedOn(R, Nat)
  BY NatLessThanWellFounded
<1>2. R = {ss \in Nat \X Nat : ss[1] < ss[2]}
  BY DEF OpToRel
<1> HIDE DEF R
<1>3. PICK x \in T : \A y \in T : ~(<<y,x>> \in R)
  BY <1>1, WFMin
<1>4. ASSUME NEW y \in T PROVE x <= y
  <2>1. x \in Nat /\ y \in Nat /\ <<y, x>> \notin R
    BY <1>3
  <2>2. ~(y < x)
    BY <1>2, <2>1
  <2> QED
    BY <2>1, <2>2
<1> QED
  BY <1>4

\* The greater of two numbers is one of them and not below either.
LEMMA MaxOfTwo ==
    ASSUME NEW a \in Nat, NEW b \in Nat
    PROVE  /\ Max({a, b}) \in Nat /\ Max({a, b}) \in {a, b}
           /\ Max({a, b}) >= a /\ Max({a, b}) >= b
<1>1. \E x \in {a, b} : \A y \in {a, b} : x >= y
  OBVIOUS
<1> QED
  BY <1>1 DEF Max

\* The smaller of two numbers is one of them and not above either.
LEMMA MinOfTwo ==
    ASSUME NEW a \in Nat, NEW b \in Nat
    PROVE  /\ Min({a, b}) \in Nat /\ Min({a, b}) \in {a, b}
           /\ Min({a, b}) <= a /\ Min({a, b}) <= b
<1>1. \E x \in {a, b} : \A y \in {a, b} : x <= y
  OBVIOUS
<1> QED
  BY <1>1 DEF Min

\* What a history, a table or a log holds is a sequence, whatever its entries.
IsSequence(s) == s \in Seq(Range(s))

\* The entries of a sequence may be taken from any larger set.
LEMMA SequenceOf ==
    ASSUME NEW S, NEW s \in Seq(S)
    PROVE  IsSequence(s)
<1>1. /\ Len(s) \in Nat /\ DOMAIN s = 1..Len(s)
      /\ s = [i \in 1..Len(s) |-> s[i]]
  OBVIOUS
<1>2. \A i \in 1..Len(s) : s[i] \in Range(s)
  BY <1>1 DEF Range
<1>3. [i \in 1..Len(s) |-> s[i]] \in Seq(Range(s))
  BY <1>1, <1>2
<1> QED
  BY <1>1, <1>3 DEF IsSequence

\* A sequence by its length and its entries.
LEMMA SequenceShape ==
    ASSUME NEW s, IsSequence(s)
    PROVE  Len(s) \in Nat /\ DOMAIN s = 1..Len(s)
BY DEF IsSequence

\* The newest n entries of a sequence: its end, shifted to the front.
LEMMA NewestEntries ==
    ASSUME NEW s, IsSequence(s), NEW n \in Nat
    PROVE  LET t == Newest(s, n)
               k == IF Len(s) <= n THEN 0 ELSE Len(s) - n
           IN /\ IsSequence(t) /\ k \in Nat /\ k <= Len(s)
              /\ Len(t) = Len(s) - k /\ Len(t) <= n
              /\ \A i \in 1..Len(t) : i + k \in 1..Len(s) /\ t[i] = s[i + k]
<1>1. Len(s) \in Nat /\ s \in Seq(Range(s))
  BY SequenceShape DEF IsSequence
<1>2. CASE Len(s) <= n
  <2>1. Newest(s, n) = s
    BY <1>2 DEF Newest
  <2> QED
    BY <1>1, <1>2, <2>1
<1>3. CASE ~(Len(s) <= n)
  <2> DEFINE k == Len(s) - n
             t == SubSeq(s, k + 1, Len(s))
  <2>1. k \in Nat /\ k <= Len(s) /\ k + 1 \in 1..(Len(s) + 1)
    BY <1>1, <1>3
  <2>2. Newest(s, n) = t
    BY <1>3 DEF Newest
  <2>3. /\ t \in Seq(Range(s)) /\ Len(t) = Len(s) - k
        /\ \A i \in 1..Len(t) : t[i] = s[i + k]
    BY <1>1, <2>1
  <2>4. IsSequence(t)
    BY <2>3, SequenceOf
  <2> QED
    BY <1>1, <1>3, <2>1, <2>2, <2>3, <2>4
<1> QED
  BY <1>2, <1>3

\* Appending keeps a sequence a sequence.
LEMMA AppendShape ==
    ASSUME NEW s, IsSequence(s), NEW e
    PROVE  LET t == Append(s, e)
           IN /\ IsSequence(t) /\ Len(t) = Len(s) + 1
              /\ \A i \in 1..Len(s) : t[i] = s[i]
              /\ t[Len(s) + 1] = e
<1> DEFINE S == Range(s) \cup {e}
           t == Append(s, e)
<1>1. s \in Seq(S) /\ e \in S
  BY DEF IsSequence, Range
<1>2. /\ t \in Seq(S) /\ Len(t) = Len(s) + 1
      /\ \A i \in 1..Len(s) : t[i] = s[i]
      /\ t[Len(s) + 1] = e
  BY <1>1
<1> QED
  BY <1>2, SequenceOf

-----------------------------------------------------------------------------
(* The source registry *)

\* What admission relies on of a sample, live or read back.
IsSample(s) ==
    s.sequence \in Nat /\ s.generation \in Nat /\ s.authority \in Nat

\* The incarnations a record remembers: the current one first, older ones
\* after it, none of them twice.
Remembers(ordinal, incarnation, recent) ==
    /\ IsSequence(recent) /\ Len(recent) \in 1..KeptIncarnations
    /\ recent[1] = [token |-> incarnation, ordinal |-> ordinal]
    /\ \A i \in DOMAIN recent : recent[i].ordinal \in Nat /\ recent[i].ordinal <= ordinal
    /\ \A i, j \in DOMAIN recent :
         i # j => recent[i].token # recent[j].token /\ recent[i].ordinal # recent[j].ordinal

\* A token that is not remembered comes to the front, and the oldest one may
\* have to go.
LEMMA RemembersNext ==
    ASSUME NEW ordinal \in Nat, NEW incarnation, NEW recent,
           Remembers(ordinal, incarnation, recent),
           NEW new \in Nat, ordinal < new, NEW token,
           \A i \in DOMAIN recent : recent[i].token # token
    PROVE  LET t == SubSeq(<<[token |-> token, ordinal |-> new]>> \o recent,
                           1, Min({KeptIncarnations, Len(recent) + 1}))
           IN /\ Remembers(new, token, t)
              /\ \A e \in Range(t) : e \in Range(recent) \/ e.ordinal >= new
<1> DEFINE x == [token |-> token, ordinal |-> new]
           l == <<x>> \o recent
           n == Min({KeptIncarnations, Len(recent) + 1})
           t == SubSeq(l, 1, n)
           S == Range(recent) \cup {x}
<1>1. IsSequence(recent) /\ Len(recent) \in Nat /\ DOMAIN recent = 1..Len(recent)
  BY SequenceShape DEF Remembers
<1>2. /\ KeptIncarnations \in Nat /\ n \in Nat /\ n >= 1 /\ n <= KeptIncarnations
      /\ n <= Len(recent) + 1
  <2>1. KeptIncarnations \in Nat /\ KeptIncarnations >= 1 /\ Len(recent) + 1 \in Nat
    BY <1>1, StoreAssumption
  <2> QED
    BY <1>1, <2>1, MinOfTwo
<1>3. recent \in Seq(S) /\ <<x>> \in Seq(S) /\ Len(<<x>>) = 1 /\ <<x>>[1] = x
  BY <1>1 DEF IsSequence, Range
<1>4. x.token = token /\ x.ordinal = new
  OBVIOUS
<1> HIDE DEF x, n
<1>5. /\ l \in Seq(S) /\ Len(l) = Len(recent) + 1 /\ l[1] = x
      /\ \A i \in 1..Len(recent) : l[i + 1] = recent[i]
  BY <1>1, <1>3
<1> HIDE DEF l, S
<1>6. /\ t \in Seq(S) /\ Len(t) = n /\ \A i \in 1..n : t[i] = l[i]
  BY <1>1, <1>2, <1>5
<1>7. IsSequence(t) /\ DOMAIN t = 1..n /\ t[1] = x
  <2> HIDE DEF t
  <2>1. IsSequence(t)
    BY <1>6, SequenceOf
  <2> QED
    BY <1>2, <1>5, <1>6, <2>1
<1> HIDE DEF t
<1>8. \A i \in 2..n : i - 1 \in DOMAIN recent /\ t[i] = recent[i - 1]
  BY <1>1, <1>2, <1>5, <1>6
<1>9. \A i \in DOMAIN t :
         \/ i = 1 /\ t[i] = x
         \/ i - 1 \in DOMAIN recent /\ t[i] = recent[i - 1] /\ i # 1
  BY <1>2, <1>7, <1>8
<1>10. \A i \in DOMAIN recent : recent[i].ordinal \in Nat /\ recent[i].ordinal <= ordinal
  BY DEF Remembers
<1>11. \A i \in DOMAIN t : t[i].ordinal \in Nat /\ t[i].ordinal <= new
  BY <1>4, <1>9, <1>10
<1>12. ASSUME NEW i \in DOMAIN t, NEW j \in DOMAIN t, i # j
       PROVE  t[i].token # t[j].token /\ t[i].ordinal # t[j].ordinal
  <2>1. CASE i = 1
    <3>1. t[i] = x /\ j - 1 \in DOMAIN recent /\ t[j] = recent[j - 1]
      BY <1>9, <1>12, <2>1
    <3> QED
      BY <1>4, <1>10, <3>1
  <2>2. CASE j = 1
    <3>1. t[j] = x /\ i - 1 \in DOMAIN recent /\ t[i] = recent[i - 1]
      BY <1>9, <1>12, <2>2
    <3> QED
      BY <1>4, <1>10, <3>1
  <2>3. CASE i # 1 /\ j # 1
    <3>1. /\ i - 1 \in DOMAIN recent /\ t[i] = recent[i - 1]
          /\ j - 1 \in DOMAIN recent /\ t[j] = recent[j - 1]
      BY <1>9, <2>3
    <3>2. i - 1 # j - 1
      BY <1>7, <1>12
    <3> QED
      BY <3>1, <3>2 DEF Remembers
  <2> QED
    BY <2>1, <2>2, <2>3
<1>13. Remembers(new, token, t)
  BY <1>2, <1>6, <1>7, <1>11, <1>12 DEF Remembers, x
<1>14. ASSUME NEW e \in Range(t) PROVE e \in Range(recent) \/ e.ordinal >= new
  <2>1. PICK i \in DOMAIN t : e = t[i]
    BY DEF Range
  <2> QED
    BY <1>4, <1>9, <2>1 DEF Range
<1> QED
  BY <1>13, <1>14 DEF t, l, n, x

\* A source record, as far as the fences look at it.
IsSource(r) ==
    /\ r = [authority |-> r.authority, incarnation |-> r.incarnation, ordinal |-> r.ordinal,
            last_sequence |-> r.last_sequence, generation |-> r.generation,
            clock_domain |-> r.clock_domain, accepted |-> r.accepted, fenced |-> r.fenced,
            duplicates |-> r.duplicates, recent |-> r.recent]
    /\ r.authority \in Nat /\ r.ordinal \in Nat /\ r.last_sequence \in Nat
    /\ r.generation \in Nat
    /\ Remembers(r.ordinal, r.incarnation, r.recent)

\* Every source is known under an ordinal that was given out.
Registry ==
    /\ nextOrdinal \in Nat
    /\ \A x \in DOMAIN sources : IsSource(sources[x]) /\ sources[x].ordinal < nextOrdinal

\* t is what the fences may make of record r: no generation or authority is
\* lost, a lower sequence number comes with a new incarnation only, and an
\* incarnation once forgotten comes back under a new ordinal only.
Forward(r, t) ==
    /\ t.generation >= r.generation /\ t.authority >= r.authority
    /\ \/ t.ordinal >= nextOrdinal
       \/ /\ t.ordinal = r.ordinal /\ t.incarnation = r.incarnation
          /\ t.last_sequence >= r.last_sequence
    /\ \A e \in Range(t.recent) : e \in Range(r.recent) \/ e.ordinal >= nextOrdinal

\* The record after a change of incarnation, generation and authority.
LEMMA Stages ==
    ASSUME Registry, NEW s, IsSample(s), Known(s), ~Superseded(sources[s.source], s)
    PROVE  \A t \in {sources[s.source], Stage1(s), Stage2(s), Stage3(s)} :
             /\ IsSource(t) /\ Forward(sources[s.source], t)
             /\ t.ordinal < OrdinalAfter(s)
<1> DEFINE r == sources[s.source]
<1>0. /\ IsSource(r) /\ r.ordinal < nextOrdinal /\ nextOrdinal \in Nat
      /\ OrdinalAfter(s) \in Nat /\ OrdinalAfter(s) >= nextOrdinal
  BY DEF Registry, Known, OrdinalAfter
<1>1. /\ IsSource(Stage1(s)) /\ Stage1(s).ordinal < OrdinalAfter(s)
      /\ Stage1(s).generation = r.generation /\ Stage1(s).authority = r.authority
      /\ \/ Stage1(s).ordinal = nextOrdinal
         \/ /\ Stage1(s).ordinal = r.ordinal /\ Stage1(s).incarnation = r.incarnation
            /\ Stage1(s).last_sequence = r.last_sequence
      /\ \A e \in Range(Stage1(s).recent) : e \in Range(r.recent) \/ e.ordinal >= nextOrdinal
  <2>1. CASE r.incarnation = s.incarnation
    <3>1. Stage1(s) = r
      BY <2>1 DEF Stage1, AfterIncarnation
    <3> QED
      BY <1>0, <3>1 DEF IsSource
  <2>2. CASE r.incarnation # s.incarnation
    <3> DEFINE tokens == SubSeq(<<[token |-> s.incarnation, ordinal |-> nextOrdinal]>> \o r.recent,
                                1, Min({KeptIncarnations, Len(r.recent) + 1}))
    <3>1. Stage1(s) = [r EXCEPT !.incarnation = s.incarnation, !.ordinal = nextOrdinal,
                                !.last_sequence = 0, !.recent = tokens]
      BY <2>2 DEF Stage1, AfterIncarnation
    <3>2. OrdinalAfter(s) = nextOrdinal + 1
      BY <2>2 DEF OrdinalAfter
    <3>a. \A i \in DOMAIN r.recent : r.recent[i].token # s.incarnation
      BY <1>0, <2>2 DEF Superseded, IsSource, Remembers
    <3>b. Remembers(r.ordinal, r.incarnation, r.recent) /\ r.ordinal \in Nat
      BY <1>0 DEF IsSource
    <3> HIDE DEF r
    <3>c. /\ Remembers(nextOrdinal, s.incarnation, tokens)
          /\ \A e \in Range(tokens) : e \in Range(r.recent) \/ e.ordinal >= nextOrdinal
      BY <1>0, <3>a, <3>b, RemembersNext
    <3> HIDE DEF tokens
    <3>3. Stage1(s) = [authority |-> r.authority, incarnation |-> s.incarnation,
                       ordinal |-> nextOrdinal, last_sequence |-> 0,
                       generation |-> r.generation, clock_domain |-> r.clock_domain,
                       accepted |-> r.accepted, fenced |-> r.fenced,
                       duplicates |-> r.duplicates, recent |-> tokens]
      BY <1>0, <3>1 DEF IsSource
    <3>4. IsSource(Stage1(s))
      BY <1>0, <3>3, <3>c DEF IsSource
    <3> QED
      BY <1>0, <3>2, <3>3, <3>4, <3>c
  <2> QED
    BY <2>1, <2>2
<1> HIDE DEF r
<1>2. /\ IsSource(Stage2(s)) /\ Stage2(s).ordinal = Stage1(s).ordinal
      /\ Stage2(s).generation >= Stage1(s).generation
      /\ Stage2(s).authority = Stage1(s).authority
      /\ Stage2(s).incarnation = Stage1(s).incarnation
      /\ Stage2(s).last_sequence = Stage1(s).last_sequence
      /\ Stage2(s).recent = Stage1(s).recent
  <2> DEFINE t == Stage1(s)
             m == Max({t.generation, s.generation})
  <2>1. m \in Nat /\ m >= t.generation
    BY <1>1, MaxOfTwo DEF IsSource, IsSample
  <2>2. Stage2(s) = [t EXCEPT !.generation = m]
    BY DEF Stage2, AfterGeneration
  <2> HIDE DEF t, m
  <2>3. IsSource(t)
    BY <1>1 DEF t
  <2>4. /\ IsSource(Stage2(s)) /\ Stage2(s).ordinal = t.ordinal
        /\ Stage2(s).generation = m /\ Stage2(s).authority = t.authority
        /\ Stage2(s).incarnation = t.incarnation /\ Stage2(s).last_sequence = t.last_sequence
        /\ Stage2(s).recent = t.recent
    BY <2>1, <2>2, <2>3 DEF IsSource
  <2> QED
    BY <2>1, <2>4 DEF t
<1>3. /\ IsSource(Stage3(s)) /\ Stage3(s).ordinal = Stage2(s).ordinal
      /\ Stage3(s).generation = Stage2(s).generation
      /\ Stage3(s).authority >= Stage2(s).authority
      /\ Stage3(s).incarnation = Stage2(s).incarnation
      /\ Stage3(s).last_sequence = Stage2(s).last_sequence
      /\ Stage3(s).recent = Stage2(s).recent
  <2> DEFINE t == Stage2(s)
             m == Max({t.authority, s.authority})
  <2>1. m \in Nat /\ m >= t.authority
    BY <1>2, MaxOfTwo DEF IsSource, IsSample
  <2>2. Stage3(s) = [t EXCEPT !.authority = m]
    BY DEF Stage3, AfterAuthority
  <2> HIDE DEF t, m
  <2>3. IsSource(t)
    BY <1>2 DEF t
  <2>4. /\ IsSource(Stage3(s)) /\ Stage3(s).ordinal = t.ordinal
        /\ Stage3(s).generation = t.generation /\ Stage3(s).authority = m
        /\ Stage3(s).incarnation = t.incarnation /\ Stage3(s).last_sequence = t.last_sequence
        /\ Stage3(s).recent = t.recent
    BY <2>1, <2>2, <2>3 DEF IsSource
  <2> QED
    BY <2>1, <2>4 DEF t
<1>4. \A t : IsSource(t) => t.generation \in Nat /\ t.authority \in Nat /\ t.last_sequence \in Nat
                            /\ t.ordinal \in Nat
  BY DEF IsSource
<1>5. Forward(r, r) /\ r.ordinal < OrdinalAfter(s)
  BY <1>0, <1>4 DEF Forward
<1>6. Forward(r, Stage1(s)) /\ Forward(r, Stage2(s)) /\ Forward(r, Stage3(s))
  BY <1>0, <1>1, <1>2, <1>3, <1>4 DEF Forward
<1>7. /\ IsSource(r) /\ IsSource(Stage1(s)) /\ IsSource(Stage2(s)) /\ IsSource(Stage3(s))
      /\ Stage2(s).ordinal < OrdinalAfter(s) /\ Stage3(s).ordinal < OrdinalAfter(s)
  BY <1>0, <1>1, <1>2, <1>3
<1> QED
  BY <1>1, <1>5, <1>6, <1>7 DEF r

\* A sample that passed the fences is of the source's generation.
LEMMA PassedGeneration ==
    ASSUME Registry, NEW s, IsSample(s), Known(s), FencesPass(s)
    PROVE  Stage3(s).generation = s.generation
<1>1. /\ IsSource(Stage1(s)) /\ IsSource(Stage2(s)) /\ s.generation \in Nat
      /\ s.generation >= Stage1(s).generation
  BY Stages DEF FencesPass, IsSample
<1>2. /\ DOMAIN Stage1(s) = DOMAIN Stage2(s) /\ "generation" \in DOMAIN Stage1(s)
      /\ "authority" \in DOMAIN Stage2(s) /\ "generation" \in DOMAIN Stage2(s)
      /\ Stage1(s).generation \in Nat
  BY <1>1 DEF IsSource
<1>3. Stage2(s).generation = Max({Stage1(s).generation, s.generation})
  BY <1>2 DEF Stage2, AfterGeneration
<1>4. Stage3(s).generation = Stage2(s).generation
  BY <1>2 DEF Stage3, AfterAuthority
<1> QED
  BY <1>1, <1>2, <1>3, <1>4, MaxOfTwo

\* The stages leave the sample's incarnation as the current one.
LEMMA StageIncarnation ==
    ASSUME Registry, NEW s, IsSample(s), Known(s), ~Superseded(sources[s.source], s)
    PROVE  /\ Stage1(s).incarnation = s.incarnation
           /\ Stage2(s).incarnation = s.incarnation
           /\ Stage3(s).incarnation = s.incarnation
<1>1. IsSource(sources[s.source]) /\ IsSource(Stage1(s)) /\ IsSource(Stage2(s))
  BY Stages
<1>2. \A r : IsSource(r) => "incarnation" \in DOMAIN r /\ "generation" \in DOMAIN r
                           /\ "authority" \in DOMAIN r
  BY DEF IsSource
<1>3. Stage1(s).incarnation = s.incarnation
  <2>1. CASE sources[s.source].incarnation = s.incarnation
    BY <2>1 DEF Stage1, AfterIncarnation
  <2>2. CASE sources[s.source].incarnation # s.incarnation
    <3> DEFINE r == sources[s.source]
               recent == SubSeq(<<[token |-> s.incarnation, ordinal |-> nextOrdinal]>> \o r.recent,
                                1, Min({KeptIncarnations, Len(r.recent) + 1}))
    <3>1. Stage1(s) = [r EXCEPT !.incarnation = s.incarnation, !.ordinal = nextOrdinal,
                                !.last_sequence = 0, !.recent = recent]
      BY <2>2 DEF Stage1, AfterIncarnation
    <3>2. "incarnation" \in DOMAIN r
      BY <1>1, <1>2
    <3> HIDE DEF r, recent
    <3> QED
      BY <3>1, <3>2
  <2> QED
    BY <2>1, <2>2
<1>4. Stage2(s).incarnation = Stage1(s).incarnation
  BY <1>1, <1>2 DEF Stage2, AfterGeneration
<1>5. Stage3(s).incarnation = Stage2(s).incarnation
  BY <1>1, <1>2 DEF Stage3, AfterAuthority
<1> QED
  BY <1>3, <1>4, <1>5

\* t is r moved forward past everything recorded under r.
Ahead(r, t) ==
    Forward(r, t) /\ (t.ordinal >= nextOrdinal \/ t.last_sequence > r.last_sequence)

\* The record of a source whose sample the registry admitted.
LEMMA RegisteredRecord ==
    ASSUME Registry, NEW s, IsSample(s), Registers(s)
    PROVE  /\ IsSource(Registered(s))
           /\ Registered(s).last_sequence = s.sequence
           /\ Registered(s).generation = s.generation
           /\ Registered(s).incarnation = s.incarnation
           /\ Registered(s).ordinal < OrdinalAfter(s)
           /\ OrdinalAfter(s) \in Nat /\ OrdinalAfter(s) >= nextOrdinal
           /\ Known(s) => Ahead(sources[s.source], Registered(s))
<1> DEFINE r == IF Known(s) THEN Stage3(s) ELSE NewSource(s)
           d == IF s.observed.domain # NoDomain THEN s.observed.domain ELSE r.clock_domain
<1>0. nextOrdinal \in Nat /\ OrdinalAfter(s) \in Nat /\ OrdinalAfter(s) >= nextOrdinal
  BY DEF Registry, OrdinalAfter
<1>1. Registered(s) = [r EXCEPT !.last_sequence = s.sequence, !.clock_domain = d]
  BY DEF Registered
<1>2. /\ IsSource(r) /\ r.ordinal < OrdinalAfter(s) /\ r.generation = s.generation
      /\ r.incarnation = s.incarnation
  <2>1. CASE Known(s)
    BY <2>1, Stages, PassedGeneration, StageIncarnation DEF Registers, FencesPass
  <2>2. CASE ~Known(s)
    <3>1. r = NewSource(s) /\ OrdinalAfter(s) = nextOrdinal + 1
      BY <2>2 DEF OrdinalAfter
    <3> DEFINE first == [token |-> s.incarnation, ordinal |-> nextOrdinal]
    <3>a. /\ <<first>> \in Seq({first}) /\ Len(<<first>>) = 1 /\ DOMAIN <<first>> = 1..1
          /\ <<first>>[1] = first /\ first.ordinal = nextOrdinal
      OBVIOUS
    <3>b. IsSequence(<<first>>)
      BY <3>a, SequenceOf
    <3>c. Remembers(nextOrdinal, s.incarnation, <<first>>)
      BY <1>0, <3>a, <3>b, StoreAssumption DEF Remembers
    <3> HIDE DEF first
    <3>d. NewSource(s).recent = <<first>>
      BY DEF NewSource, first
    <3>2. /\ IsSource(NewSource(s)) /\ NewSource(s).ordinal = nextOrdinal
          /\ NewSource(s).generation = s.generation
          /\ NewSource(s).incarnation = s.incarnation
      BY <1>0, <3>c, <3>d DEF NewSource, IsSource, IsSample
    <3> QED
      BY <1>0, <3>1, <3>2
  <2> QED
    BY <2>1, <2>2
<1>3. Known(s) => Forward(sources[s.source], r) /\ s.sequence > r.last_sequence
  BY Stages DEF Registers, FencesPass
<1>4. s.sequence \in Nat
  BY DEF IsSample
<1> HIDE DEF r, d
<1>5. /\ IsSource(Registered(s)) /\ Registered(s).last_sequence = s.sequence
      /\ Registered(s).ordinal = r.ordinal /\ Registered(s).generation = r.generation
      /\ Registered(s).authority = r.authority /\ Registered(s).incarnation = r.incarnation
      /\ Registered(s).recent = r.recent
  BY <1>1, <1>2, <1>4 DEF IsSource
<1>6. Known(s) => Ahead(sources[s.source], Registered(s))
  <2> SUFFICES ASSUME Known(s) PROVE Ahead(sources[s.source], Registered(s))
    OBVIOUS
  <2>1. sources[s.source].last_sequence \in Nat /\ r.last_sequence \in Nat
    BY <1>2 DEF Registry, IsSource, Known
  <2> QED
    BY <1>3, <1>4, <1>5, <2>1 DEF Ahead, Forward
<1> QED
  BY <1>0, <1>2, <1>5, <1>6

\* The registry once a sample was fenced or admitted: its source has record t,
\* the others keep theirs.
RegistryBecomes(s, t) ==
    /\ DOMAIN sources' = DOMAIN sources \cup {s.source}
    /\ \A x \in DOMAIN sources : x # s.source => sources'[x] = sources[x]
    /\ sources'[s.source] = t
    /\ IsSource(t) /\ t.ordinal < nextOrdinal'
    /\ nextOrdinal' \in Nat /\ nextOrdinal' >= nextOrdinal
    /\ Known(s) => Forward(sources[s.source], t)
    /\ Known(s) \/ Cardinality(DOMAIN sources) < MaxSources

\* Refusals by a fence, and a refusal once the registry had admitted the
\* sample, move the registry forward and nothing else.
LEMMA FencedRegistry ==
    ASSUME Registry, NEW s, IsSample(s),
           FenceIncarnation(s) \/ FenceGeneration(s) \/ FenceAuthority(s) \/ FenceSequence(s)
    PROVE  (\E t : RegistryBecomes(s, t)) /\ queues' = queues
<1>1. Known(s) /\ queues' = queues
  BY DEF FenceIncarnation, FenceGeneration, FenceAuthority, FenceSequence, Fence, Refuse
<1>2. nextOrdinal \in Nat /\ OrdinalAfter(s) \in Nat /\ OrdinalAfter(s) >= nextOrdinal
  BY DEF Registry, OrdinalAfter
<1> DEFINE Stage == {sources[s.source], Stage1(s), Stage2(s), Stage3(s)}
<1>3. \E r \in Stage :
         /\ \/ sources' = [sources EXCEPT ![s.source] = [r EXCEPT !.fenced = @ + 1]]
            \/ sources' = [sources EXCEPT ![s.source] =
                             [r EXCEPT !.fenced = @ + 1, !.duplicates = @ + 1]]
         /\ r.ordinal < nextOrdinal' /\ IsSource(r) /\ Forward(sources[s.source], r)
         /\ nextOrdinal' \in {nextOrdinal, OrdinalAfter(s)}
  <2>1. CASE FenceIncarnation(s)
    <3>1. /\ sources[s.source].ordinal < nextOrdinal /\ IsSource(sources[s.source])
          /\ Forward(sources[s.source], sources[s.source])
      BY <1>1 DEF Registry, Known, IsSource, Forward
    <3> QED
      BY <2>1, <3>1 DEF FenceIncarnation, Fence
  <2>2. CASE FenceGeneration(s)
    <3>1. /\ Stage1(s).ordinal < OrdinalAfter(s) /\ IsSource(Stage1(s))
          /\ Forward(sources[s.source], Stage1(s))
      BY <1>1, <2>2, Stages DEF FenceGeneration
    <3> QED
      BY <2>2, <3>1 DEF FenceGeneration, Fence
  <2>3. CASE FenceAuthority(s)
    <3>1. /\ Stage2(s).ordinal < OrdinalAfter(s) /\ IsSource(Stage2(s))
          /\ Forward(sources[s.source], Stage2(s))
      BY <1>1, <2>3, Stages DEF FenceAuthority
    <3> QED
      BY <2>3, <3>1 DEF FenceAuthority, Fence
  <2>4. CASE FenceSequence(s)
    <3>1. /\ Stage3(s).ordinal < OrdinalAfter(s) /\ IsSource(Stage3(s))
          /\ Forward(sources[s.source], Stage3(s))
      BY <1>1, <2>4, Stages DEF FenceSequence
    <3> QED
      BY <2>4, <3>1 DEF FenceSequence
  <2> QED
    BY <2>1, <2>2, <2>3, <2>4
<1>4. PICK r \in Stage :
         /\ \/ sources' = [sources EXCEPT ![s.source] = [r EXCEPT !.fenced = @ + 1]]
            \/ sources' = [sources EXCEPT ![s.source] =
                             [r EXCEPT !.fenced = @ + 1, !.duplicates = @ + 1]]
         /\ r.ordinal < nextOrdinal' /\ IsSource(r) /\ Forward(sources[s.source], r)
         /\ nextOrdinal' \in {nextOrdinal, OrdinalAfter(s)}
  BY <1>3
<1>5. IsSource(r) /\ Forward(sources[s.source], r)
  BY <1>4
<1> HIDE DEF Stage
<1>6. PICK t : /\ sources' = [sources EXCEPT ![s.source] = t]
               /\ \/ t = [r EXCEPT !.fenced = @ + 1]
                  \/ t = [r EXCEPT !.fenced = @ + 1, !.duplicates = @ + 1]
  BY <1>4
<1>7. /\ IsSource(t) /\ t.ordinal = r.ordinal /\ t.generation = r.generation
      /\ t.authority = r.authority /\ t.incarnation = r.incarnation
      /\ t.last_sequence = r.last_sequence /\ t.recent = r.recent
  BY <1>5, <1>6 DEF IsSource
<1>8. Forward(sources[s.source], t)
  BY <1>5, <1>7 DEF Forward
<1>9. /\ DOMAIN sources' = DOMAIN sources \cup {s.source} /\ sources'[s.source] = t
      /\ \A x \in DOMAIN sources : x # s.source => sources'[x] = sources[x]
  BY <1>1, <1>6 DEF Known
<1>10. RegistryBecomes(s, t)
  BY <1>1, <1>2, <1>4, <1>7, <1>8, <1>9 DEF RegistryBecomes
<1> QED
  BY <1>1, <1>10

\* A sample that finds no room for its queue has taken its sequence number.
LEMMA QueueLimitRegistry ==
    ASSUME Registry, NEW s, IsSample(s), RejectQueueLimit(s)
    PROVE  (\E t : RegistryBecomes(s, t)) /\ queues' = queues
<1> DEFINE t == Registered(s)
<1>1. /\ Registers(s) /\ queues' = queues /\ nextOrdinal' = OrdinalAfter(s)
      /\ sources' = With(sources, s.source, t)
  BY DEF RejectQueueLimit, Refuse
<1>2. /\ IsSource(t) /\ t.ordinal < OrdinalAfter(s) /\ OrdinalAfter(s) \in Nat
      /\ OrdinalAfter(s) >= nextOrdinal
      /\ Known(s) => Forward(sources[s.source], t)
  BY <1>1, RegisteredRecord DEF Ahead
<1> HIDE DEF t
<1>3. /\ DOMAIN sources' = DOMAIN sources \cup {s.source} /\ sources'[s.source] = t
      /\ \A x \in DOMAIN sources : x # s.source => sources'[x] = sources[x]
  BY <1>1 DEF With
<1>4. RegistryBecomes(s, t)
  BY <1>1, <1>2, <1>3 DEF RegistryBecomes, Registers
<1> QED
  BY <1>1, <1>4

\* What the history of the sample's queue gets: the sample under the fences of
\* its source's record t.
IsEntryOf(e, s, t) ==
    /\ e.source = s.source /\ e.ordinal = t.ordinal /\ e.sequence = t.last_sequence
    /\ e.generation = t.generation /\ e.assessment.authority = t.authority
    /\ e.sequence = s.sequence /\ e.values = s.values /\ t.incarnation = s.incarnation

\* What the peer table of the queue gets with history entry e.
IsPeerOf(p, e) ==
    p.source = e.source /\ p.received = e.received /\ p.authority = e.assessment.authority

\* The queue table once a sample was admitted.
QueueBecomes(s, e) ==
    /\ DOMAIN queues' = DOMAIN queues \cup {s.queue}
    /\ \A q \in DOMAIN queues : q # s.queue => queues'[q] = queues[q]
    /\ queues'[s.queue].history = Newest(Append(Queue(s.queue).history, e), MaxSamplesPerQueue)
    /\ \E p : IsPeerOf(p, e) /\ queues'[s.queue].peers = PeersAfter(Queue(s.queue), p)
    /\ Tracked(s.queue) \/ QueueRoom

\* Admission moves the registry past everything recorded of the source and
\* adds the sample to the history of its queue.
LEMMA AcceptedSample ==
    ASSUME Registry, NEW s, IsSample(s), NEW recovered, Accept(s, recovered)
    PROVE  \E t, e : /\ RegistryBecomes(s, t) /\ IsEntryOf(e, s, t) /\ QueueBecomes(s, e)
                     /\ Known(s) => Ahead(sources[s.source], t)
<1> DEFINE g == Registered(s)
           t == [g EXCEPT !.accepted = @ + 1]
           received == Received(s, recovered)
           q == Queue(s.queue)
           p == Peer(s, received)
<1>1. /\ Registers(s) /\ nextOrdinal' = OrdinalAfter(s)
      /\ sources' = With(sources, s.source, t) /\ (Tracked(s.queue) \/ QueueRoom)
  BY DEF Accept
<1>2. /\ IsSource(g) /\ g.ordinal < OrdinalAfter(s) /\ OrdinalAfter(s) \in Nat
      /\ OrdinalAfter(s) >= nextOrdinal /\ g.last_sequence = s.sequence
      /\ g.generation = s.generation /\ g.incarnation = s.incarnation
      /\ Known(s) => Ahead(sources[s.source], g)
  BY <1>1, RegisteredRecord
<1>3. PICK conflict, deltas, state :
         queues' = With(queues, s.queue, QueueAfter(q, s, p, conflict,
                     RecordOf(s, received, Assess(s, recovered), deltas, state)))
  BY Zenon DEF Accept
<1> DEFINE e == RecordOf(s, received, Assess(s, recovered), deltas, state)
           q2 == QueueAfter(q, s, p, conflict, e)
<1>4. /\ e.source = s.source /\ e.ordinal = g.ordinal /\ e.sequence = s.sequence
      /\ e.generation = s.generation /\ e.assessment = Assess(s, recovered)
      /\ e.received = received /\ e.values = s.values
  BY DEF RecordOf
<1>5. queues' = With(queues, s.queue, q2)
  BY <1>3
<1>6. /\ q2.history = Newest(Append(Queue(s.queue).history, e), MaxSamplesPerQueue)
      /\ q2.peers = PeersAfter(Queue(s.queue), p)
  BY DEF QueueAfter
<1>7. e.assessment.authority = g.authority
  BY <1>4 DEF Assess
<1>8. IsPeerOf(p, e)
  BY <1>4, <1>7 DEF Peer, IsPeerOf
<1> HIDE DEF g, e, q2, p
<1>9. /\ IsSource(t) /\ t.ordinal = g.ordinal /\ t.generation = g.generation
      /\ t.authority = g.authority /\ t.incarnation = g.incarnation
      /\ t.last_sequence = g.last_sequence /\ t.recent = g.recent
  BY <1>2 DEF IsSource
<1> HIDE DEF t
<1>10. Known(s) => Ahead(sources[s.source], t)
  BY <1>2, <1>9 DEF Ahead, Forward
<1>11. /\ DOMAIN sources' = DOMAIN sources \cup {s.source} /\ sources'[s.source] = t
       /\ \A x \in DOMAIN sources : x # s.source => sources'[x] = sources[x]
  BY <1>1 DEF With, t
<1>12. RegistryBecomes(s, t)
  BY <1>1, <1>2, <1>9, <1>10, <1>11 DEF RegistryBecomes, Ahead, Registers
<1>13. QueueBecomes(s, e)
  BY <1>1, <1>5, <1>6, <1>8 DEF QueueBecomes, With
<1>14. IsEntryOf(e, s, t)
  BY <1>2, <1>4, <1>7, <1>9 DEF IsEntryOf
<1> QED
  BY <1>10, <1>12, <1>13, <1>14

\* A call that presents a sample to the store.
Presents(s) ==
    \/ RejectInvalid(s) \/ RejectSourceLimit(s) \/ FenceIncarnation(s) \/ FenceGeneration(s)
    \/ FenceAuthority(s) \/ FenceSequence(s) \/ RejectQueueLimit(s)
    \/ \E recovered \in BOOLEAN : Accept(s, recovered)

\* What presenting a sample does to the registry and to the histories.
LEMMA PresentedSample ==
    ASSUME Registry, NEW s, IsSample(s), Presents(s)
    PROVE  \/ UNCHANGED <<sources, nextOrdinal, queues>>
           \/ (\E t : RegistryBecomes(s, t)) /\ queues' = queues
           \/ \E t, e : /\ RegistryBecomes(s, t) /\ IsEntryOf(e, s, t) /\ QueueBecomes(s, e)
                        /\ Known(s) => Ahead(sources[s.source], t)
<1>1. CASE RejectInvalid(s) \/ RejectSourceLimit(s)
  BY <1>1 DEF RejectInvalid, RejectSourceLimit, Refuse
<1>2. CASE \E recovered \in BOOLEAN : Accept(s, recovered)
  BY <1>2, AcceptedSample
<1> QED
  BY <1>1, <1>2, FencedRegistry, QueueLimitRegistry DEF Presents

-----------------------------------------------------------------------------
(* The histories *)

\* Table h2 is table h, which keeps n entries, once it took entry e: e comes
\* last, before it a tail of h, all of it while there is room.
TookEntry(h2, h, e, n) ==
    /\ IsSequence(h2) /\ Len(h2) \in 1..n /\ h2[Len(h2)] = e
    /\ \E k \in Nat :
         /\ Len(h2) + k = Len(h) + 1 /\ (Len(h2) < n => k = 0)
         /\ \A i \in DOMAIN h2 : i # Len(h2) => i + k \in DOMAIN h /\ h2[i] = h[i + k]

LEMMA NewestAppended ==
    ASSUME NEW h, IsSequence(h), NEW e, NEW n \in Nat \ {0}
    PROVE  TookEntry(Newest(Append(h, e), n), h, e, n)
<1> DEFINE a == Append(h, e)
           h2 == Newest(a, n)
           k == IF Len(a) <= n THEN 0 ELSE Len(a) - n
<1>1. n \in Nat /\ n >= 1
  OBVIOUS
<1>2. /\ IsSequence(a) /\ Len(a) = Len(h) + 1 /\ a[Len(h) + 1] = e
      /\ \A i \in 1..Len(h) : a[i] = h[i]
  BY AppendShape
<1>3. Len(h) \in Nat /\ DOMAIN h = 1..Len(h)
  BY SequenceShape
<1> HIDE DEF a
<1>4. /\ IsSequence(h2) /\ k \in Nat /\ k <= Len(a) /\ Len(h2) = Len(a) - k
      /\ Len(h2) <= n
      /\ \A i \in 1..Len(h2) : i + k \in 1..Len(a) /\ h2[i] = a[i + k]
  BY <1>1, <1>2, NewestEntries
<1>5. DOMAIN h2 = 1..Len(h2)
  BY <1>4, SequenceShape
<1>6. Len(h2) \in 1..n /\ Len(h2) + k = Len(h) + 1 /\ (Len(h2) < n => k = 0)
  BY <1>1, <1>2, <1>3, <1>4
<1> HIDE DEF h2, k
<1>7. h2[Len(h2)] = e
  BY <1>2, <1>4, <1>6
<1>8. \A i \in DOMAIN h2 : i # Len(h2) => i + k \in DOMAIN h /\ h2[i] = h[i + k]
  BY <1>2, <1>3, <1>4, <1>5, <1>6
<1>9. TookEntry(h2, h, e, n)
  BY <1>4, <1>6, <1>7, <1>8 DEF TookEntry
<1> QED
  BY <1>9 DEF h2, a

\* The history of a queue that takes entry e.
LEMMA HistoryAfter ==
    ASSUME NEW h, IsSequence(h), NEW e
    PROVE  TookEntry(Newest(Append(h, e), MaxSamplesPerQueue), h, e, MaxSamplesPerQueue)
<1>1. MaxSamplesPerQueue \in Nat \ {0}
  BY StoreAssumption
<1> QED
  BY <1>1, NewestAppended

\* Entry e was admitted under an earlier or the current state of record r.
Behind(e, r) ==
    /\ e.ordinal \in Nat /\ e.sequence \in Nat /\ e.generation \in Nat
    /\ e.assessment.authority \in Nat
    /\ e.ordinal < r.ordinal \/ (e.ordinal = r.ordinal /\ e.sequence <= r.last_sequence)
    /\ e.generation <= r.generation /\ e.assessment.authority <= r.authority

\* Entry d of a source precedes its entry e: what HistoryFenced says of two
\* entries.
Precedes(d, e) ==
    /\ d.ordinal < e.ordinal \/ (d.ordinal = e.ordinal /\ d.sequence < e.sequence)
    /\ d.generation <= e.generation /\ d.assessment.authority <= e.assessment.authority

\* No entry of any history is ahead of what the registry knows of its source.
\* This ties the histories, which HistoryFenced and SequenceUsedOnce are
\* about, to the records the fences compare with.
KeptEvidence ==
    \A q \in DOMAIN queues :
       LET h == queues[q].history
       IN /\ IsSequence(h)
          /\ \A i \in DOMAIN h : h[i].source \in DOMAIN sources
                                 /\ Behind(h[i], sources[h[i].source])

\* The registry keeps its shape, and its records stay ahead of the evidence.
LEMMA RegistryMoves ==
    ASSUME Registry, NEW s, NEW t, RegistryBecomes(s, t)
    PROVE  /\ Registry'
           /\ \A x \in DOMAIN sources : \A e : Behind(e, sources[x]) => Behind(e, sources'[x])
<1>1. Registry'
  <2>1. nextOrdinal' \in Nat /\ nextOrdinal' >= nextOrdinal /\ nextOrdinal \in Nat
    BY DEF RegistryBecomes, Registry
  <2>2. ASSUME NEW x \in DOMAIN sources'
        PROVE  IsSource(sources'[x]) /\ sources'[x].ordinal < nextOrdinal'
    <3>1. CASE x = s.source
      BY <3>1 DEF RegistryBecomes
    <3>2. CASE x # s.source
      <4>1. x \in DOMAIN sources /\ sources'[x] = sources[x]
        BY <3>2 DEF RegistryBecomes
      <4>2. IsSource(sources[x]) /\ sources[x].ordinal < nextOrdinal /\ sources[x].ordinal \in Nat
        BY <4>1 DEF Registry, IsSource
      <4> QED
        BY <2>1, <4>1, <4>2
    <3> QED
      BY <3>1, <3>2
  <2> QED
    BY <2>1, <2>2 DEF Registry
<1>2. ASSUME NEW x \in DOMAIN sources, NEW e, Behind(e, sources[x])
      PROVE  Behind(e, sources'[x])
  <2>1. CASE x = s.source
    <3>1. sources'[x] = t /\ Forward(sources[x], t) /\ IsSource(t)
      BY <2>1 DEF RegistryBecomes, Known
    <3>2. /\ sources[x].ordinal \in Nat /\ sources[x].ordinal < nextOrdinal
          /\ sources[x].last_sequence \in Nat /\ sources[x].generation \in Nat
          /\ sources[x].authority \in Nat /\ nextOrdinal \in Nat
      BY DEF Registry, IsSource
    <3>3. t.ordinal \in Nat /\ t.last_sequence \in Nat /\ t.generation \in Nat /\ t.authority \in Nat
      BY <3>1 DEF IsSource
    <3> DEFINE r == sources[x]
    <3>4. /\ e.ordinal \in Nat /\ e.sequence \in Nat /\ e.generation \in Nat
          /\ e.assessment.authority \in Nat
      BY <1>2 DEF Behind
    <3>5. e.generation <= r.generation /\ t.generation >= r.generation
      BY <1>2, <3>1 DEF Forward, Behind
    <3>6. e.assessment.authority <= r.authority /\ t.authority >= r.authority
      BY <1>2, <3>1 DEF Forward, Behind
    <3>7. \/ t.ordinal >= nextOrdinal
          \/ t.ordinal = r.ordinal /\ t.last_sequence >= r.last_sequence
      BY <3>1 DEF Forward
    <3>8. e.ordinal < r.ordinal \/ (e.ordinal = r.ordinal /\ e.sequence <= r.last_sequence)
      BY <1>2 DEF Behind
    <3> HIDE DEF r
    <3>9. e.generation <= t.generation /\ e.assessment.authority <= t.authority
      BY <3>2, <3>3, <3>4, <3>5, <3>6 DEF r
    <3>10. e.ordinal < t.ordinal \/ (e.ordinal = t.ordinal /\ e.sequence <= t.last_sequence)
      BY <3>2, <3>3, <3>4, <3>7, <3>8 DEF r
    <3> QED
      BY <3>1, <3>4, <3>9, <3>10 DEF Behind
  <2>2. CASE x # s.source
    BY <1>2, <2>2 DEF RegistryBecomes
  <2> QED
    BY <2>1, <2>2
<1> QED
  BY <1>1, <1>2

\* What is recorded of a source precedes what it has admitted next.
LEMMA NewEntry ==
    ASSUME Registry, NEW s, NEW t, NEW e, RegistryBecomes(s, t), IsEntryOf(e, s, t),
           Known(s) => Ahead(sources[s.source], t)
    PROVE  /\ Behind(e, sources'[e.source])
           /\ \A d : d.source = e.source /\ d.source \in DOMAIN sources
                     /\ Behind(d, sources[d.source]) => Precedes(d, e)
<1>1. IsSource(t) /\ sources'[s.source] = t /\ e.source = s.source
  BY DEF RegistryBecomes, IsEntryOf
<1>2. t.ordinal \in Nat /\ t.last_sequence \in Nat /\ t.generation \in Nat /\ t.authority \in Nat
  BY <1>1 DEF IsSource
<1>3. Behind(e, t)
  BY <1>2 DEF Behind, IsEntryOf
<1>4. ASSUME NEW d, d.source = e.source, d.source \in DOMAIN sources, Behind(d, sources[d.source])
      PROVE  Precedes(d, e)
  <2> DEFINE r == sources[s.source]
  <2>1. Known(s) /\ Ahead(r, t) /\ Behind(d, r)
    BY <1>1, <1>4 DEF Known
  <2>2. /\ r.ordinal \in Nat /\ r.ordinal < nextOrdinal /\ r.last_sequence \in Nat
        /\ r.generation \in Nat /\ r.authority \in Nat /\ nextOrdinal \in Nat
    BY <2>1 DEF Registry, IsSource, Known
  <2> HIDE DEF r
  <2>3. /\ d.ordinal \in Nat /\ d.sequence \in Nat /\ d.generation \in Nat
        /\ d.assessment.authority \in Nat
        /\ d.generation <= r.generation /\ d.assessment.authority <= r.authority
        /\ d.ordinal < r.ordinal \/ (d.ordinal = r.ordinal /\ d.sequence <= r.last_sequence)
    BY <2>1 DEF Behind
  <2>4. /\ t.generation >= r.generation /\ t.authority >= r.authority
        /\ \/ t.ordinal >= nextOrdinal
           \/ t.ordinal = r.ordinal /\ t.last_sequence > r.last_sequence
    BY <1>2, <2>1, <2>2 DEF Ahead, Forward
  <2>5. /\ e.ordinal = t.ordinal /\ e.sequence = t.last_sequence
        /\ e.generation = t.generation /\ e.assessment.authority = t.authority
    BY DEF IsEntryOf
  <2>6. d.generation <= t.generation /\ d.assessment.authority <= t.authority
    BY <1>2, <2>2, <2>3, <2>4
  <2>7. d.ordinal < t.ordinal \/ (d.ordinal = t.ordinal /\ d.sequence < t.last_sequence)
    BY <1>2, <2>2, <2>3, <2>4
  <2> QED
    BY <2>5, <2>6, <2>7 DEF Precedes
<1> QED
  BY <1>1, <1>3, <1>4

\* The histories as one: every entry of the tables after an admission is the
\* new one, in the last place, or an entry there was, in the same order.
LEMMA EntriesAfter ==
    ASSUME KeptEvidence, NEW s, NEW e, QueueBecomes(s, e)
    PROVE  \E k \in [DOMAIN queues' -> Nat] : \A q \in DOMAIN queues' :
             LET h2 == queues'[q].history
             IN /\ IsSequence(h2)
                /\ \A i \in DOMAIN h2 :
                     \/ q = s.queue /\ i = Len(h2) /\ h2[i] = e
                     \/ /\ q \in DOMAIN queues
                        /\ i + k[q] \in DOMAIN queues[q].history
                        /\ h2[i] = queues[q].history[i + k[q]]
<1> DEFINE h == Queue(s.queue).history
<1>1. IsSequence(h) /\ (s.queue \notin DOMAIN queues => DOMAIN h = {})
  <2>1. CASE Tracked(s.queue)
    BY <2>1 DEF Queue, Tracked, KeptEvidence
  <2>2. CASE ~Tracked(s.queue)
    <3>1. h = <<>>
      BY <2>2 DEF Queue, NewQueue
    <3> QED
      BY <3>1 DEF IsSequence
  <2> QED
    BY <2>1, <2>2 DEF Tracked
<1>2. s.queue \in DOMAIN queues => h = queues[s.queue].history
  BY DEF Queue, Tracked
<1> HIDE DEF h
<1>3. queues'[s.queue].history = Newest(Append(h, e), MaxSamplesPerQueue)
  BY DEF QueueBecomes, h
<1>4. PICK n \in Nat :
         LET h2 == queues'[s.queue].history
         IN /\ IsSequence(h2) /\ h2[Len(h2)] = e
            /\ \A i \in DOMAIN h2 : i # Len(h2) => i + n \in DOMAIN h /\ h2[i] = h[i + n]
  <2>1. TookEntry(queues'[s.queue].history, h, e, MaxSamplesPerQueue)
    BY <1>1, <1>3, HistoryAfter
  <2> QED
    BY <2>1 DEF TookEntry
<1> DEFINE k == [q \in DOMAIN queues' |-> IF q = s.queue THEN n ELSE 0]
<1>5. k \in [DOMAIN queues' -> Nat]
  OBVIOUS
<1>6. ASSUME NEW q \in DOMAIN queues'
      PROVE  LET h2 == queues'[q].history
             IN /\ IsSequence(h2)
                /\ \A i \in DOMAIN h2 :
                     \/ q = s.queue /\ i = Len(h2) /\ h2[i] = e
                     \/ /\ q \in DOMAIN queues
                        /\ i + k[q] \in DOMAIN queues[q].history
                        /\ h2[i] = queues[q].history[i + k[q]]
  <2>1. CASE q = s.queue
    <3>1. k[q] = n
      BY <2>1
    <3> HIDE DEF k
    <3> QED
      BY <1>1, <1>2, <1>4, <2>1, <3>1
  <2>2. CASE q # s.queue
    <3>1. k[q] = 0 /\ q \in DOMAIN queues /\ queues'[q] = queues[q]
      BY <2>2 DEF QueueBecomes
    <3> HIDE DEF k
    <3>2. IsSequence(queues[q].history) /\ \A i \in DOMAIN queues[q].history : i + 0 = i
      BY <3>1, SequenceShape DEF KeptEvidence
    <3> QED
      BY <3>1, <3>2
  <2> QED
    BY <2>1, <2>2
<1> QED
  BY <1>5, <1>6

\* What admission relies on, with the two properties of the histories.
SInv == Registry /\ KeptEvidence /\ HistoryFenced /\ SequenceUsedOnce

\* A step that leaves the histories alone and moves the registry forward.
LEMMA RegistryStep ==
    ASSUME SInv, NEW s, NEW t, RegistryBecomes(s, t), queues' = queues
    PROVE  SInv'
<1>1. Registry' /\ \A x \in DOMAIN sources : \A e : Behind(e, sources[x]) => Behind(e, sources'[x])
  BY RegistryMoves DEF SInv
<1>2. DOMAIN sources \subseteq DOMAIN sources'
  BY DEF RegistryBecomes
<1>3. KeptEvidence'
  BY <1>1, <1>2 DEF SInv, KeptEvidence, IsSequence
<1>4. HistoryFenced' /\ SequenceUsedOnce'
  BY DEF SInv, HistoryFenced, SequenceUsedOnce
<1> QED
  BY <1>1, <1>3, <1>4 DEF SInv

\* Admission adds an entry that is behind its source's record and ahead of
\* all there is of the source, in every history.
LEMMA AdmissionStep ==
    ASSUME SInv, NEW s, NEW t, NEW e, RegistryBecomes(s, t), IsEntryOf(e, s, t),
           QueueBecomes(s, e), Known(s) => Ahead(sources[s.source], t)
    PROVE  SInv'
<1>0. Registry /\ KeptEvidence /\ HistoryFenced /\ SequenceUsedOnce
  BY DEF SInv
<1>1. Registry' /\ \A x \in DOMAIN sources : \A d : Behind(d, sources[x]) => Behind(d, sources'[x])
  BY <1>0, RegistryMoves
<1>2. /\ Behind(e, sources'[e.source])
      /\ \A d : d.source = e.source /\ d.source \in DOMAIN sources
                /\ Behind(d, sources[d.source]) => Precedes(d, e)
  BY <1>0, NewEntry
<1>3. PICK k \in [DOMAIN queues' -> Nat] : \A q \in DOMAIN queues' :
         LET h2 == queues'[q].history
         IN /\ IsSequence(h2)
            /\ \A i \in DOMAIN h2 :
                 \/ q = s.queue /\ i = Len(h2) /\ h2[i] = e
                 \/ /\ q \in DOMAIN queues
                    /\ i + k[q] \in DOMAIN queues[q].history
                    /\ h2[i] = queues[q].history[i + k[q]]
  BY <1>0, EntriesAfter
<1>4. e.source \in DOMAIN sources' /\ DOMAIN sources \subseteq DOMAIN sources'
  BY DEF RegistryBecomes, IsEntryOf
<1> DEFINE New(q, i) == q = s.queue /\ i = Len(queues'[q].history) /\ queues'[q].history[i] = e
           Was(q, i) == /\ q \in DOMAIN queues
                        /\ i + k[q] \in DOMAIN queues[q].history
                        /\ queues'[q].history[i] = queues[q].history[i + k[q]]
<1>5. \A q \in DOMAIN queues' : /\ k[q] \in Nat /\ IsSequence(queues'[q].history)
                                /\ DOMAIN queues'[q].history = 1..Len(queues'[q].history)
                                /\ Len(queues'[q].history) \in Nat
  BY <1>3, SequenceShape
<1>6. \A q \in DOMAIN queues' : \A i \in DOMAIN queues'[q].history : New(q, i) \/ Was(q, i)
  BY <1>3
<1>7. ASSUME NEW q \in DOMAIN queues', NEW i \in DOMAIN queues'[q].history, Was(q, i)
      PROVE  LET d == queues'[q].history[i]
             IN d.source \in DOMAIN sources /\ Behind(d, sources[d.source])
  BY <1>0, <1>7 DEF KeptEvidence
<1>8. KeptEvidence'
  <2>1. ASSUME NEW q \in DOMAIN queues', NEW i \in DOMAIN queues'[q].history
        PROVE  LET d == queues'[q].history[i]
               IN d.source \in DOMAIN sources' /\ Behind(d, sources'[d.source])
    <3>1. CASE New(q, i)
      BY <1>2, <1>4, <3>1
    <3>2. CASE Was(q, i)
      BY <1>1, <1>4, <1>7, <3>2
    <3> QED
      BY <1>6, <3>1, <3>2
  <2> HIDE DEF New, Was
  <2> QED
    BY <1>5, <2>1 DEF KeptEvidence, IsSequence
<1>9. HistoryFenced'
  <2> SUFFICES ASSUME NEW q \in DOMAIN queues',
                      NEW i \in DOMAIN queues'[q].history, NEW j \in DOMAIN queues'[q].history,
                      i < j, queues'[q].history[i].source = queues'[q].history[j].source
               PROVE  Precedes(queues'[q].history[i], queues'[q].history[j])
    BY DEF HistoryFenced, Precedes
  <2>1. ~New(q, i) /\ Was(q, i)
    BY <1>5, <1>6
  <2>2. CASE New(q, j)
    BY <1>2, <1>7, <2>1, <2>2
  <2>3. CASE Was(q, j)
    <3>1. i + k[q] < j + k[q]
      BY <1>5
    <3> QED
      BY <1>0, <2>1, <2>3, <3>1 DEF HistoryFenced, Precedes
  <2> QED
    BY <1>6, <2>2, <2>3
<1>10. SequenceUsedOnce'
  <2> SUFFICES ASSUME NEW q \in DOMAIN queues', NEW r \in DOMAIN queues',
                      NEW i \in DOMAIN queues'[q].history, NEW j \in DOMAIN queues'[r].history,
                      <<q, i>> # <<r, j>>,
                      queues'[q].history[i].source = queues'[r].history[j].source,
                      queues'[q].history[i].ordinal = queues'[r].history[j].ordinal
               PROVE  queues'[q].history[i].sequence # queues'[r].history[j].sequence
    BY DEF SequenceUsedOnce
  <2> DEFINE x == queues'[q].history[i]
             y == queues'[r].history[j]
  <2>1. \A d : Precedes(d, e) /\ Behind(d, sources[d.source]) /\ d.ordinal = e.ordinal
               => d.sequence # e.sequence
    <3>1. Behind(e, sources'[e.source])
      BY <1>2
    <3>2. e.ordinal \in Nat /\ e.sequence \in Nat
      BY <3>1 DEF Behind
    <3> QED
      BY <3>2 DEF Precedes, Behind
  <2>2. CASE New(q, i) /\ New(r, j)
    BY <2>2
  <2>3. CASE New(q, i) /\ Was(r, j)
    <3>1. x = e /\ y.source \in DOMAIN sources /\ Behind(y, sources[y.source])
      BY <1>7, <2>3
    <3>2. Precedes(y, e)
      BY <1>2, <3>1
    <3> QED
      BY <2>1, <3>1, <3>2
  <2>4. CASE Was(q, i) /\ New(r, j)
    <3>1. y = e /\ x.source \in DOMAIN sources /\ Behind(x, sources[x.source])
      BY <1>7, <2>4
    <3>2. Precedes(x, e)
      BY <1>2, <3>1
    <3> QED
      BY <2>1, <3>1, <3>2
  <2>5. CASE Was(q, i) /\ Was(r, j)
    <3>1. <<q, i + k[q]>> # <<r, j + k[r]>>
      BY <1>5
    <3>2. /\ q \in DOMAIN queues /\ i + k[q] \in DOMAIN queues[q].history
          /\ r \in DOMAIN queues /\ j + k[r] \in DOMAIN queues[r].history
          /\ x = queues[q].history[i + k[q]] /\ y = queues[r].history[j + k[r]]
      BY <2>5
    <3> HIDE DEF New, Was, x, y
    <3>3. x.source = y.source /\ x.ordinal = y.ordinal
      BY DEF x, y
    <3>4. x.sequence # y.sequence
      BY <1>0, <3>1, <3>2, <3>3 DEF SequenceUsedOnce
    <3> QED
      BY <3>4 DEF x, y
  <2> QED
    BY <1>6, <2>2, <2>3, <2>4, <2>5
<1> QED
  BY <1>1, <1>8, <1>9, <1>10 DEF SInv

\* The invariant is kept by every call that presents a sample, live or read
\* back from a segment.
LEMMA PresentedKeeps ==
    ASSUME SInv, NEW s, IsSample(s), Presents(s)
    PROVE  SInv'
<1>1. Registry
  BY DEF SInv
<1>2. CASE UNCHANGED <<sources, nextOrdinal, queues>>
  BY <1>2 DEF SInv, Registry, KeptEvidence, HistoryFenced, SequenceUsedOnce, IsSource, IsSequence, Behind
<1> QED
  BY <1>1, <1>2, PresentedSample, RegistryStep, AdmissionStep

-----------------------------------------------------------------------------
(* The specification *)

\* A step presents a sample or leaves the registry and the histories alone.
LEMMA StoreStep ==
    ASSUME [Next]_vars
    PROVE  \/ \E s : IsSample(s) /\ Presents(s)
           \/ UNCHANGED <<sources, nextOrdinal, queues>>
<1>1. ASSUME NEW s \in Samples PROVE IsSample(s)
  BY StoreAssumption DEF IsSample
<1>2. ASSUME NEW s \in Samples,
             \/ RejectInvalid(s) \/ RejectSourceLimit(s) \/ FenceIncarnation(s)
             \/ FenceGeneration(s) \/ FenceAuthority(s) \/ FenceSequence(s)
             \/ RejectQueueLimit(s) \/ AcceptLive(s)
      PROVE  Presents(s)
  BY <1>2 DEF Presents, AcceptLive
<1>3. CASE \E t \in Tables : ApplyMetadata(t) \/ FenceMetadata(t)
  BY <1>3 DEF ApplyMetadata, FenceMetadata
<1>4. CASE Tick \/ UNCHANGED vars
  BY <1>4 DEF Tick, vars
<1> QED
  BY <1>1, <1>2, <1>3, <1>4 DEF Next

LEMMA SInvHolds == Spec => []SInv
<1>1. Init => SInv
  BY DEF Init, SInv, Registry, KeptEvidence, HistoryFenced, SequenceUsedOnce
<1>2. SInv /\ [Next]_vars => SInv'
  <2> SUFFICES ASSUME SInv, [Next]_vars PROVE SInv'
    OBVIOUS
  <2>1. CASE UNCHANGED <<sources, nextOrdinal, queues>>
    BY <2>1 DEF SInv, Registry, KeptEvidence, HistoryFenced, SequenceUsedOnce, IsSource, IsSequence, Behind
  <2> QED
    BY <2>1, StoreStep, PresentedKeeps
<1> QED
  BY <1>1, <1>2, PTL DEF Spec

\* HistoryFenced: whatever is presented to ingest_locked, in whatever order, a
\* source moves forward in every history.
THEOREM StoreHistoryFenced == Spec => []HistoryFenced
<1>1. SInv => HistoryFenced
  BY DEF SInv
<1> QED
  BY <1>1, SInvHolds, PTL

\* SequenceUsedOnce: no sequence number of an incarnation is recorded twice,
\* in one queue or in two.
THEOREM StoreSequenceUsedOnce == Spec => []SequenceUsedOnce
<1>1. SInv => SequenceUsedOnce
  BY DEF SInv
<1> QED
  BY <1>1, SInvHolds, PTL

\* RegistryMonotone: no step of ingest_locked, refusals included, takes a
\* source back.
THEOREM StoreRegistryMonotone == Spec => RegistryMonotone
<1> DEFINE Monotone ==
             \A x \in DOMAIN sources :
               /\ x \in DOMAIN sources'
               /\ sources'[x].generation >= sources[x].generation
               /\ sources'[x].authority >= sources[x].authority
               /\ \/ sources'[x].ordinal > sources[x].ordinal
                  \/ /\ sources'[x].ordinal = sources[x].ordinal
                     /\ sources'[x].incarnation = sources[x].incarnation
                     /\ sources'[x].last_sequence >= sources[x].last_sequence
<1>1. SInv /\ [Next]_vars => [Monotone]_vars
  <2> SUFFICES ASSUME SInv, [Next]_vars, NEW x \in DOMAIN sources
               PROVE  /\ x \in DOMAIN sources'
                      /\ sources'[x].generation >= sources[x].generation
                      /\ sources'[x].authority >= sources[x].authority
                      /\ \/ sources'[x].ordinal > sources[x].ordinal
                         \/ /\ sources'[x].ordinal = sources[x].ordinal
                            /\ sources'[x].incarnation = sources[x].incarnation
                            /\ sources'[x].last_sequence >= sources[x].last_sequence
    OBVIOUS
  <2>0. Registry
    BY DEF SInv
  <2>1. /\ sources[x].generation \in Nat /\ sources[x].authority \in Nat
        /\ sources[x].last_sequence \in Nat /\ sources[x].ordinal \in Nat
        /\ sources[x].ordinal < nextOrdinal /\ nextOrdinal \in Nat
    BY <2>0 DEF Registry, IsSource
  <2>2. CASE sources' = sources
    BY <2>1, <2>2
  <2>3. ASSUME NEW s, NEW t, RegistryBecomes(s, t)
        PROVE  /\ x \in DOMAIN sources'
               /\ sources'[x].generation >= sources[x].generation
               /\ sources'[x].authority >= sources[x].authority
               /\ \/ sources'[x].ordinal > sources[x].ordinal
                  \/ /\ sources'[x].ordinal = sources[x].ordinal
                     /\ sources'[x].incarnation = sources[x].incarnation
                     /\ sources'[x].last_sequence >= sources[x].last_sequence
    <3>1. CASE x = s.source
      <4>1. x \in DOMAIN sources' /\ sources'[x] = t /\ Forward(sources[x], t) /\ t.ordinal \in Nat
        BY <2>3, <3>1 DEF RegistryBecomes, Known, IsSource
      <4> QED
        BY <2>1, <4>1 DEF Forward
    <3>2. CASE x # s.source
      <4>1. x \in DOMAIN sources' /\ sources'[x] = sources[x]
        BY <2>3, <3>2 DEF RegistryBecomes
      <4> QED
        BY <2>1, <4>1
    <3> QED
      BY <3>1, <3>2
  <2>4. sources' = sources \/ \E s, t : RegistryBecomes(s, t)
    BY <2>0, StoreStep, PresentedSample
  <2> QED
    BY <2>2, <2>3, <2>4
<1> QED
  BY <1>1, SInvHolds, PTL DEF Spec, RegistryMonotone

-----------------------------------------------------------------------------
(* The peer tables *)

\* A peer table has at most one observation of a source, and D are the sources
\* it may name.
IsPeerTable(peers, D) ==
    /\ IsSequence(peers)
    /\ \A i \in DOMAIN peers : peers[i].source \in D
    /\ \A i, j \in DOMAIN peers : i # j => peers[i].source # peers[j].source

\* There are never more peers than registered sources.
LEMMA PeersFit ==
    ASSUME NEW D, IsFiniteSet(D), NEW peers, IsPeerTable(peers, D)
    PROVE  Len(peers) \in Nat /\ Len(peers) <= Cardinality(D)
<1>1. Len(peers) \in Nat /\ DOMAIN peers = 1..Len(peers)
  BY SequenceShape DEF IsPeerTable
<1> DEFINE f == [i \in 1..Len(peers) |-> peers[i].source]
<1>2. f \in Injection(1..Len(peers), D)
  <2>1. f \in [1..Len(peers) -> D]
    BY <1>1 DEF IsPeerTable
  <2>2. \A a, b \in DOMAIN f : f[a] = f[b] => a = b
    BY <1>1 DEF IsPeerTable
  <2> HIDE DEF f
  <2> QED
    BY <2>1, <2>2 DEF Injection, IsInjective
<1>3. Cardinality(1..Len(peers)) = Len(peers)
  <2>1. Cardinality(1..Len(peers)) = IF 1 > Len(peers) THEN 0 ELSE Len(peers) - 1 + 1
    BY <1>1, FS_Interval
  <2> QED
    BY <1>1, <2>1
<1> HIDE DEF f
<1>4. Cardinality(1..Len(peers)) <= Cardinality(D)
  BY <1>2, FS_Injection
<1> QED
  BY <1>1, <1>3, <1>4

\* What PeersAfter does to a table of registered sources: the observation of
\* the sample's source is new, all others stay.  The table has room for every
\* source, so the branch that drops the oldest peer is never taken.
LEMMA PeersAfterTable ==
    ASSUME NEW D, IsFiniteSet(D), Cardinality(D) <= MaxSources, NEW q, NEW p,
           IsPeerTable(q.peers, D), p.source \in D
    PROVE  LET r == PeersAfter(q, p)
           IN /\ IsPeerTable(r, D) /\ Len(r) \in 1..MaxSources
              /\ p \in Range(r)
              /\ \A x \in Range(r) : x = p \/ (x \in Range(q.peers) /\ x.source # p.source)
              /\ \A x \in Range(q.peers) : x.source # p.source => x \in Range(r)
<1> DEFINE old == q.peers
           own == {i \in DOMAIN old : old[i].source = p.source}
           r == PeersAfter(q, p)
<1>1. /\ IsSequence(old) /\ Len(old) \in Nat /\ DOMAIN old = 1..Len(old)
      /\ \A i \in DOMAIN old : old[i].source \in D
      /\ \A i, j \in DOMAIN old : i # j => old[i].source # old[j].source
  BY SequenceShape DEF IsPeerTable
<1>2. MaxSources \in Nat /\ Cardinality(D) \in Nat
  BY StoreAssumption, FS_CardinalityType
<1>3. CASE own # {}
  <2>1. PICK k \in DOMAIN old : own = {k}
    BY <1>1, <1>3
  <2>2. Min(own) = k
    <3>1. k \in Nat
      BY <1>1
    <3> QED
      BY <2>1, <3>1 DEF Min
  <2>3. r = [old EXCEPT ![k] = p]
    BY <1>3, <2>2 DEF PeersAfter
  <2>4. old[k].source = p.source /\ \A i \in DOMAIN old : i # k => old[i].source # p.source
    BY <2>1
  <2> HIDE DEF old, r, own
  <2>5. old \in Seq(Range(old) \cup {p})
    BY <1>1 DEF IsSequence
  <2>6. /\ r \in Seq(Range(old) \cup {p}) /\ DOMAIN r = DOMAIN old /\ Len(r) = Len(old)
        /\ r[k] = p /\ \A i \in DOMAIN old : i # k => r[i] = old[i]
    BY <1>1, <2>3, <2>5
  <2>7. IsPeerTable(r, D)
    <3>1. IsSequence(r)
      BY <2>6, SequenceOf
    <3> QED
      BY <1>1, <2>4, <2>6, <3>1 DEF IsPeerTable
  <2>8. Len(r) \in 1..MaxSources
    BY <1>1, <1>2, <2>6, <2>7, PeersFit
  <2>9. p \in Range(r)
    BY <2>6 DEF Range
  <2>10. \A x \in Range(r) : x = p \/ (x \in Range(old) /\ x.source # p.source)
    BY <2>4, <2>6 DEF Range
  <2>11. \A x \in Range(old) : x.source # p.source => x \in Range(r)
    BY <2>4, <2>6 DEF Range
  <2> QED
    BY <2>7, <2>8, <2>9, <2>10, <2>11 DEF r, old
<1>4. CASE own = {}
  <2> DEFINE a == Append(old, p)
  <2>1. /\ IsSequence(a) /\ Len(a) = Len(old) + 1 /\ DOMAIN a = 1..Len(a)
        /\ \A i \in 1..Len(old) : a[i] = old[i]
        /\ a[Len(old) + 1] = p
    <3>1. IsSequence(a)
      BY <1>1, AppendShape
    <3>2. DOMAIN a = 1..Len(a)
      BY <3>1, SequenceShape
    <3> QED
      BY <1>1, <3>1, <3>2, AppendShape
  <2>2. \A i \in DOMAIN old : old[i].source # p.source
    BY <1>4
  <2> HIDE DEF old, a, r
  <2>3. \A i \in DOMAIN a :
           \/ i \in DOMAIN old /\ a[i] = old[i] /\ i # Len(old) + 1
           \/ i = Len(old) + 1 /\ a[i] = p
    BY <1>1, <2>1
  <2>4. IsPeerTable(a, D)
    BY <1>1, <2>1, <2>2, <2>3 DEF IsPeerTable
  <2>5. Len(a) <= MaxSources
    BY <1>1, <1>2, <2>1, <2>4, PeersFit
  <2>6. r = a
    BY <1>1, <1>2, <1>4, <2>1, <2>5 DEF PeersAfter, r, a, old
  <2>7. p \in Range(a) /\ \A x \in Range(old) : x \in Range(a)
    BY <1>1, <2>1 DEF Range
  <2>8. \A x \in Range(a) : x = p \/ (x \in Range(old) /\ x.source # p.source)
    BY <2>2, <2>3 DEF Range
  <2>9. Len(a) \in 1..MaxSources
    BY <1>1, <1>2, <2>1, <2>5
  <2> QED
    BY <2>4, <2>6, <2>7, <2>8, <2>9 DEF r, old
<1> QED
  BY <1>3, <1>4

\* The registry and the queue table within their limits, and so the peer table
\* and the history of every queue.
TableShapes ==
    /\ IsFiniteSet(DOMAIN sources) /\ Cardinality(DOMAIN sources) <= MaxSources
    /\ IsFiniteSet(DOMAIN queues)
    /\ Cardinality(DOMAIN queues) <= MaxQueues /\ Cardinality(DOMAIN queues) <= HistoryBudget
    /\ \A q \in DOMAIN queues : /\ IsPeerTable(queues[q].peers, DOMAIN sources)
                                /\ Len(queues[q].peers) \in 1..MaxSources
                                /\ Len(queues[q].history) \in 1..MaxSamplesPerQueue

\* A new source is registered while there is room for it.
LEMMA RegistryFits ==
    ASSUME TableShapes, NEW s, NEW t, RegistryBecomes(s, t)
    PROVE  IsFiniteSet(DOMAIN sources') /\ Cardinality(DOMAIN sources') <= MaxSources
<1>1. DOMAIN sources' = DOMAIN sources \cup {s.source}
  BY DEF RegistryBecomes
<1>2. /\ IsFiniteSet(DOMAIN sources)
      /\ Cardinality(DOMAIN sources) \in Nat /\ MaxSources \in Nat
      /\ Cardinality(DOMAIN sources) <= MaxSources
  BY StoreAssumption, FS_CardinalityType DEF TableShapes
<1>3. s.source \in DOMAIN sources \/ Cardinality(DOMAIN sources) < MaxSources
  BY DEF RegistryBecomes, Known
<1>4. /\ IsFiniteSet(DOMAIN sources \cup {s.source})
      /\ Cardinality(DOMAIN sources \cup {s.source}) =
           IF s.source \in DOMAIN sources THEN Cardinality(DOMAIN sources)
           ELSE Cardinality(DOMAIN sources) + 1
  BY <1>2, FS_AddElement
<1> QED
  BY <1>1, <1>2, <1>3, <1>4

\* A step that leaves the queues alone keeps the tables.
LEMMA TablesUnmoved ==
    ASSUME TableShapes, NEW s, NEW t, RegistryBecomes(s, t), queues' = queues
    PROVE  TableShapes'
<1>1. IsFiniteSet(DOMAIN sources') /\ Cardinality(DOMAIN sources') <= MaxSources
  BY RegistryFits
<1>2. DOMAIN sources \subseteq DOMAIN sources'
  BY DEF RegistryBecomes
<1> QED
  BY <1>1, <1>2 DEF TableShapes, IsPeerTable, IsSequence

\* The queue of an admitted sample, before it.
LEMMA QueueBefore ==
    ASSUME TableShapes, KeptEvidence, NEW n
    PROVE  /\ IsPeerTable(Queue(n).peers, DOMAIN sources)
           /\ IsSequence(Queue(n).history)
<1>1. CASE Tracked(n)
  BY <1>1 DEF Queue, Tracked, TableShapes, KeptEvidence
<1>2. CASE ~Tracked(n)
  <2>1. Queue(n).peers = <<>> /\ Queue(n).history = <<>>
    BY <1>2 DEF Queue, NewQueue
  <2> QED
    BY <2>1 DEF IsPeerTable, IsSequence
<1> QED
  BY <1>1, <1>2

\* Admission keeps the tables, and the peers of the queue but the sample's own.
LEMMA TablesAfter ==
    ASSUME TableShapes, KeptEvidence, NEW s, NEW t, NEW e,
           RegistryBecomes(s, t), IsEntryOf(e, s, t), QueueBecomes(s, e)
    PROVE  /\ TableShapes'
           /\ \E p : /\ IsPeerOf(p, e) /\ p \in Range(queues'[s.queue].peers)
                     /\ \A x \in Range(Queue(s.queue).peers) :
                          x.source # e.source => x \in Range(queues'[s.queue].peers)
<1> DEFINE q == Queue(s.queue)
<1>1. IsFiniteSet(DOMAIN sources') /\ Cardinality(DOMAIN sources') <= MaxSources
  BY RegistryFits
<1>2. DOMAIN sources' = DOMAIN sources \cup {s.source}
  BY DEF RegistryBecomes
<1>3. PICK p : IsPeerOf(p, e) /\ queues'[s.queue].peers = PeersAfter(q, p)
  BY DEF QueueBecomes
<1>4. p.source = s.source /\ e.source = s.source
  BY <1>3 DEF IsPeerOf, IsEntryOf
<1>5. IsPeerTable(q.peers, DOMAIN sources') /\ IsSequence(q.history)
  BY <1>2, QueueBefore DEF IsPeerTable
<1> HIDE DEF q
<1>6. LET r == queues'[s.queue].peers
      IN /\ IsPeerTable(r, DOMAIN sources') /\ Len(r) \in 1..MaxSources /\ p \in Range(r)
         /\ \A x \in Range(q.peers) : x.source # p.source => x \in Range(r)
  BY <1>1, <1>2, <1>3, <1>4, <1>5, PeersAfterTable
<1>7. Len(queues'[s.queue].history) \in 1..MaxSamplesPerQueue
  <2>1. queues'[s.queue].history = Newest(Append(q.history, e), MaxSamplesPerQueue)
    BY DEF QueueBecomes, q
  <2> QED
    BY <1>5, <2>1, HistoryAfter DEF TookEntry
<1>8. /\ IsFiniteSet(DOMAIN queues') /\ Cardinality(DOMAIN queues') <= MaxQueues
      /\ Cardinality(DOMAIN queues') <= HistoryBudget
  <2>1. DOMAIN queues' = DOMAIN queues \cup {s.queue}
    BY DEF QueueBecomes
  <2>2. /\ IsFiniteSet(DOMAIN queues) /\ Cardinality(DOMAIN queues) \in Nat
        /\ MaxQueues \in Nat /\ HistoryBudget \in Nat
        /\ Cardinality(DOMAIN queues) <= MaxQueues
        /\ Cardinality(DOMAIN queues) <= HistoryBudget
    BY StoreAssumption, FS_CardinalityType DEF TableShapes
  <2>3. \/ s.queue \in DOMAIN queues
        \/ /\ Cardinality(DOMAIN queues) < MaxQueues
           /\ Cardinality(DOMAIN queues) < HistoryBudget
    BY DEF QueueBecomes, Tracked, QueueRoom
  <2>4. /\ IsFiniteSet(DOMAIN queues \cup {s.queue})
        /\ Cardinality(DOMAIN queues \cup {s.queue}) =
             IF s.queue \in DOMAIN queues THEN Cardinality(DOMAIN queues)
             ELSE Cardinality(DOMAIN queues) + 1
    BY <2>2, FS_AddElement
  <2> QED
    BY <2>1, <2>2, <2>3, <2>4
<1>9. ASSUME NEW n \in DOMAIN queues'
      PROVE  /\ IsPeerTable(queues'[n].peers, DOMAIN sources')
             /\ Len(queues'[n].peers) \in 1..MaxSources
             /\ Len(queues'[n].history) \in 1..MaxSamplesPerQueue
  <2>1. CASE n = s.queue
    BY <1>6, <1>7, <2>1
  <2>2. CASE n # s.queue
    <3>1. n \in DOMAIN queues /\ queues'[n] = queues[n]
      BY <2>2 DEF QueueBecomes
    <3> QED
      BY <1>2, <3>1 DEF TableShapes, IsPeerTable
  <2> QED
    BY <2>1, <2>2
<1>10. TableShapes'
  BY <1>1, <1>8, <1>9 DEF TableShapes, IsPeerTable, IsSequence
<1> QED
  BY <1>3, <1>4, <1>6, <1>10 DEF q

\* What PeersAreNewest says of a queue with history h and peer table peers.
NewestKept(h, peers) ==
    \A i \in DOMAIN h :
       (\A j \in (i + 1)..Len(h) : h[j].source # h[i].source) =>
          \E p \in Range(peers) : IsPeerOf(p, h[i])

\* The newest observation of every source stays in the peer table.
LEMMA PeersStayNewest ==
    ASSUME NEW h, IsSequence(h), NEW e, NEW peers, NEW r, NEW p,
           NewestKept(h, peers), IsPeerOf(p, e), p \in Range(r),
           \A x \in Range(peers) : x.source # e.source => x \in Range(r)
    PROVE  NewestKept(Newest(Append(h, e), MaxSamplesPerQueue), r)
<1> DEFINE h2 == Newest(Append(h, e), MaxSamplesPerQueue)
<1>1. PICK k \in Nat : /\ Len(h2) + k = Len(h) + 1
                       /\ \A i \in DOMAIN h2 :
                            i # Len(h2) => i + k \in DOMAIN h /\ h2[i] = h[i + k]
  BY HistoryAfter DEF TookEntry
<1>2. IsSequence(h2) /\ h2[Len(h2)] = e
  BY HistoryAfter DEF TookEntry
<1> HIDE DEF h2
<1>3. /\ Len(h) \in Nat /\ DOMAIN h = 1..Len(h) /\ Len(h2) \in Nat /\ DOMAIN h2 = 1..Len(h2)
  BY <1>2, SequenceShape
<1>4. ASSUME NEW i \in DOMAIN h2, \A j \in (i + 1)..Len(h2) : h2[j].source # h2[i].source
      PROVE  \E x \in Range(r) : IsPeerOf(x, h2[i])
  <2>1. CASE i = Len(h2)
    BY <1>2, <2>1
  <2>2. CASE i # Len(h2)
    <3>1. /\ i + k \in DOMAIN h /\ h2[i] = h[i + k]
          /\ Len(h2) \in (i + 1)..Len(h2) /\ e.source # h[i + k].source
      BY <1>1, <1>2, <1>3, <1>4, <2>2
    <3>2. ASSUME NEW j \in (i + k + 1)..Len(h) PROVE h[j].source # h[i + k].source
      <4>1. /\ j - k \in (i + 1)..Len(h2) /\ j - k \in DOMAIN h2 /\ j - k # Len(h2)
            /\ (j - k) + k = j
        BY <1>1, <1>3, <3>2
      <4>2. h2[j - k] = h[j]
        BY <1>1, <4>1
      <4> QED
        BY <1>4, <3>1, <4>1, <4>2
    <3>3. PICK x \in Range(peers) : IsPeerOf(x, h[i + k])
      BY <3>1, <3>2 DEF NewestKept
    <3>4. x.source # e.source
      BY <3>1, <3>3 DEF IsPeerOf
    <3> QED
      BY <3>1, <3>3, <3>4
  <2> QED
    BY <2>1, <2>2
<1> QED
  BY <1>4 DEF NewestKept, h2

\* The peer tables are newest because they never drop a peer.
PInv == SInv /\ TableShapes /\ PeersAreNewest

LEMMA NewestPeers ==
    PeersAreNewest <=> \A q \in DOMAIN queues : NewestKept(queues[q].history, queues[q].peers)
BY DEF PeersAreNewest, NewestKept, IsPeerOf

LEMMA PeersPresented ==
    ASSUME PInv, NEW s, IsSample(s), Presents(s)
    PROVE  PInv'
<1>0. SInv /\ Registry /\ KeptEvidence /\ TableShapes /\ PeersAreNewest
  BY DEF PInv, SInv
<1>1. SInv'
  BY <1>0, PresentedKeeps
<1>2. CASE UNCHANGED <<sources, nextOrdinal, queues>>
  BY <1>0, <1>1, <1>2 DEF PInv, TableShapes, PeersAreNewest, IsPeerTable, IsSequence
<1>3. ASSUME NEW t, RegistryBecomes(s, t), queues' = queues
      PROVE  PInv'
  BY <1>0, <1>1, <1>3, TablesUnmoved DEF PInv, PeersAreNewest
<1>4. ASSUME NEW t, NEW e, RegistryBecomes(s, t), IsEntryOf(e, s, t), QueueBecomes(s, e)
      PROVE  PInv'
  <2>1. PICK p : /\ IsPeerOf(p, e) /\ p \in Range(queues'[s.queue].peers)
                 /\ \A x \in Range(Queue(s.queue).peers) :
                      x.source # e.source => x \in Range(queues'[s.queue].peers)
    BY <1>0, <1>4, TablesAfter
  <2>2. TableShapes'
    BY <1>0, <1>4, TablesAfter
  <2> DEFINE q == Queue(s.queue)
  <2>3. NewestKept(q.history, q.peers) /\ IsSequence(q.history)
    <3>1. CASE Tracked(s.queue)
      BY <1>0, <3>1, NewestPeers, QueueBefore DEF Queue, Tracked
    <3>2. CASE ~Tracked(s.queue)
      <4>1. q.history = <<>>
        BY <3>2 DEF Queue, NewQueue
      <4> QED
        BY <4>1 DEF NewestKept, IsSequence
    <3> QED
      BY <3>1, <3>2
  <2>4. NewestKept(queues'[s.queue].history, queues'[s.queue].peers)
    <3>1. queues'[s.queue].history = Newest(Append(q.history, e), MaxSamplesPerQueue)
      BY <1>4 DEF QueueBecomes
    <3> HIDE DEF q
    <3>2. \A x \in Range(q.peers) : x.source # e.source => x \in Range(queues'[s.queue].peers)
      BY <2>1 DEF q
    <3> QED
      BY <2>1, <2>3, <3>1, <3>2, PeersStayNewest
  <2>5. ASSUME NEW n \in DOMAIN queues' PROVE NewestKept(queues'[n].history, queues'[n].peers)
    <3>1. CASE n = s.queue
      BY <2>4, <3>1
    <3>2. CASE n # s.queue
      BY <1>0, <1>4, <3>2, NewestPeers DEF QueueBecomes
    <3> QED
      BY <3>1, <3>2
  <2>6. PeersAreNewest'
    BY <2>5 DEF PeersAreNewest, NewestKept, IsPeerOf
  <2> QED
    BY <1>1, <2>2, <2>6 DEF PInv
<1> QED
  BY <1>0, <1>2, <1>3, <1>4, PresentedSample

LEMMA PInvHolds == Spec => []PInv
<1>1. Init => PInv
  <2> SUFFICES ASSUME Init PROVE PInv
    OBVIOUS
  <2>1. SInv
    BY DEF Init, SInv, Registry, KeptEvidence, HistoryFenced, SequenceUsedOnce
  <2>2. DOMAIN sources = {} /\ DOMAIN queues = {}
    BY DEF Init
  <2>3. TableShapes /\ PeersAreNewest
    BY <2>2, FS_EmptySet, StoreAssumption DEF TableShapes, PeersAreNewest
  <2> QED
    BY <2>1, <2>3 DEF PInv
<1>2. PInv /\ [Next]_vars => PInv'
  <2> SUFFICES ASSUME PInv, [Next]_vars PROVE PInv'
    OBVIOUS
  <2>1. CASE UNCHANGED <<sources, nextOrdinal, queues>>
    <3>1. SInv'
      BY <2>1 DEF PInv, SInv, Registry, KeptEvidence, HistoryFenced, SequenceUsedOnce, IsSource,
                  IsSequence, Behind
    <3> QED
      BY <2>1, <3>1 DEF PInv, TableShapes, PeersAreNewest, IsPeerTable, IsSequence
  <2> QED
    BY <2>1, StoreStep, PeersPresented
<1> QED
  BY <1>1, <1>2, PTL DEF Spec

\* PeersAreNewest: detect_conflict compares with the newest observation of
\* every source whose evidence is still kept, however many sources there are.
THEOREM StorePeersAreNewest == Spec => []PeersAreNewest
<1>1. PInv => PeersAreNewest
  BY DEF PInv
<1> QED
  BY <1>1, PInvHolds, PTL

-----------------------------------------------------------------------------
(* The counters and the event log *)

\* StoreCounters: fourteen natural numbers.
IsCounts(c) ==
    c \in [presented : Nat, accepted : Nat, rejected : Nat, fenced : Nat, duplicates : Nat,
           detected : Nat, cleared : Nat, transitions : Nat, recorded : Nat, lost : Nat,
           pushed : Nat, evicted : Nat, updates : Nat, refused : Nat]

\* The sum of two sequences is a sequence.
LEMMA ConcatShape ==
    ASSUME NEW a, IsSequence(a), NEW b, IsSequence(b)
    PROVE  IsSequence(a \o b) /\ Len(a \o b) = Len(a) + Len(b)
<1> DEFINE S == Range(a) \cup Range(b)
<1>1. a \in Seq(S) /\ b \in Seq(S)
  BY DEF IsSequence
<1>2. a \o b \in Seq(S) /\ Len(a \o b) = Len(a) + Len(b)
  BY <1>1
<1> QED
  BY <1>2, SequenceOf

LEMMA SingletonShape ==
    ASSUME NEW x
    PROVE  IsSequence(<<x>>) /\ Len(<<x>>) = 1 /\ IsSequence(<<>>) /\ Len(<<>>) = 0
<1>1. <<x>> \in Seq({x}) /\ Len(<<x>>) = 1 /\ <<>> \in Seq({x}) /\ Len(<<>>) = 0
  OBVIOUS
<1> QED
  BY <1>1, SequenceOf

LEMMA WhenShape ==
    ASSUME NEW b, NEW x
    PROVE  IsSequence(When(b, x))
BY SingletonShape DEF When

\* A finite set of fields listed once each.
LEMMA ListShape ==
    ASSUME NEW S, IsFiniteSet(S)
    PROVE  IsSequence(SetToSeq(S))
<1> DEFINE n == Cardinality(S)
           f == SetToSeq(S)
<1>1. n \in Nat /\ ExistsBijection(1..n, S)
  BY FS_CardinalityType
<1>2. PICK g : g \in [1..n -> S] /\ IsInjective(g)
  BY <1>1 DEF ExistsBijection, Bijection, Injection
<1>3. f \in [1..n -> S]
  BY <1>2 DEF SetToSeq
<1> HIDE DEF f
<1>4. f \in Seq(S)
  BY <1>1, <1>3
<1> QED
  BY <1>4, SequenceOf DEF f

\* The notices of a sample's counters.
LEMMA CounterEventsShape ==
    ASSUME NEW q, NEW s, NEW received
    PROVE  IsSequence(CounterEvents(Deltas(q, s, received)))
<1> DEFINE d == Deltas(q, s, received)
           kind == [wrapped |-> "CounterWrap", reset |-> "CounterReset",
                    ambiguous_wrap |-> "CounterAmbiguous",
                    discontinuous |-> "CounterDiscontinuous"]
           fields == {f \in DOMAIN d : d[f].continuity \in DOMAIN kind}
           noisy == SetToSeq(fields)
<1>1. DOMAIN d \subseteq CounterFields
  BY DEF Deltas, Reported
<1> HIDE DEF d
<1>2. IsFiniteSet(fields)
  BY <1>1, PolicyAssumption, FS_Subset
<1>3. CounterEvents(d) = [i \in DOMAIN noisy |-> kind[d[noisy[i]].continuity]]
  BY DEF CounterEvents
<1> HIDE DEF fields, kind
<1>4. Len(noisy) \in Nat /\ DOMAIN noisy = 1..Len(noisy)
  BY <1>2, ListShape, SequenceShape
<1> HIDE DEF noisy
<1> DEFINE E == CounterEvents(d)
           T == {kind[d[noisy[i]].continuity] : i \in DOMAIN noisy}
<1>5. E \in [1..Len(noisy) -> T]
  BY <1>3, <1>4
<1> HIDE DEF E, T
<1>6. E \in Seq(T)
  BY <1>4, <1>5
<1> QED
  BY <1>6, SequenceOf DEF E, d

\* The event log is a sequence within its limit.
LogShape == IsSequence(events) /\ Len(events) <= MaxEvents

\* Recording: what the log cannot keep is counted as lost.
LEMMA Recorded ==
    ASSUME LogShape, NEW c, IsCounts(c), NEW kinds, IsSequence(kinds)
    PROVE  LET d == RecordAll(c, kinds)
               l == LogAll(kinds)
           IN /\ IsCounts(d) /\ IsSequence(l) /\ Len(l) <= MaxEvents
              /\ d.recorded - (d.lost + Len(l)) = c.recorded - (c.lost + Len(events))
              /\ d.presented = c.presented /\ d.accepted = c.accepted /\ d.rejected = c.rejected
              /\ d.fenced = c.fenced /\ d.pushed = c.pushed
              /\ d.detected = c.detected /\ d.cleared = c.cleared
<1> DEFINE a == events \o kinds
           l == Newest(a, MaxEvents)
           x == Len(events) + Len(kinds) - MaxEvents
           k == IF Len(a) <= MaxEvents THEN 0 ELSE Len(a) - MaxEvents
           m == Max({0, x})
<1>1. /\ MaxEvents \in Nat /\ Len(events) \in Nat /\ Len(kinds) \in Nat
      /\ IsSequence(a) /\ Len(a) = Len(events) + Len(kinds)
  BY StoreAssumption, ConcatShape, SequenceShape DEF LogShape
<1> HIDE DEF a
<1>2. IsSequence(l) /\ k \in Nat /\ Len(l) = Len(a) - k /\ Len(l) <= MaxEvents
  BY <1>1, NewestEntries
<1>3. m = k
  <2>1. x \in Int /\ (x > 0 => k = x) /\ (x <= 0 => k = 0)
    BY <1>1
  <2> HIDE DEF x, k
  <2> QED
    BY <2>1 DEF Max
<1> HIDE DEF l, k, x, m
<1> DEFINE d == RecordAll(c, kinds)
<1>4. d = [c EXCEPT !.recorded = @ + Len(kinds), !.lost = @ + m]
  BY DEF RecordAll, m, x
<1> HIDE DEF d
<1>5. IsCounts(d) /\ d.recorded = c.recorded + Len(kinds) /\ d.lost = c.lost + m
  <2> DEFINE u == c.recorded + Len(kinds)
             v == c.lost + m
  <2>1. c.recorded \in Nat /\ c.lost \in Nat
    BY DEF IsCounts
  <2>2. u \in Nat /\ v \in Nat
    BY <1>1, <1>2, <1>3, <2>1
  <2>3. d = [c EXCEPT !.recorded = u, !.lost = v]
    BY <1>4
  <2> HIDE DEF u, v
  <2> QED
    BY <2>2, <2>3 DEF IsCounts, u, v
<1>6. /\ d.presented = c.presented /\ d.accepted = c.accepted /\ d.rejected = c.rejected
      /\ d.fenced = c.fenced /\ d.pushed = c.pushed
      /\ d.detected = c.detected /\ d.cleared = c.cleared
  BY <1>4 DEF IsCounts
<1>7. c.recorded \in Nat /\ c.lost \in Nat
  BY DEF IsCounts
<1>8. d.recorded - (d.lost + Len(l)) = c.recorded - (c.lost + Len(events))
  BY <1>1, <1>2, <1>3, <1>5, <1>7
<1> QED
  BY <1>2, <1>5, <1>6, <1>8 DEF LogAll, l, a, d

\* c counts one more call than counts, or as many, and tells the same story.
Settled(c) ==
    /\ IsCounts(c) /\ c.recorded = counts.recorded /\ c.lost = counts.lost
    /\ c.presented - (c.accepted + c.rejected + c.fenced)
         = counts.presented - (counts.accepted + counts.rejected + counts.fenced)
    /\ c.accepted - c.pushed = counts.accepted - counts.pushed

\* The step counts as c does and leaves the given notices in the log.
Records(c, kinds) ==
    /\ IsSequence(kinds) /\ counts' = RecordAll(c, kinds) /\ events' = LogAll(kinds)

\* The conflict table and the conflict counters are left alone.
ConflictsUnmoved(c) ==
    /\ c.detected = counts.detected /\ c.cleared = counts.cleared /\ conflicts' = conflicts

\* The notices of the registry.
LEMMA RegistryEventsShape ==
    ASSUME NEW s
    PROVE  /\ IsSequence(Stage1Events(s)) /\ IsSequence(Stage2Events(s))
           /\ IsSequence(Stage3Events(s)) /\ IsSequence(RegistryEvents(s))
<1>1. IsSequence(Stage1Events(s))
  BY WhenShape DEF Stage1Events
<1>2. IsSequence(Stage2Events(s))
  BY <1>1, WhenShape, ConcatShape DEF Stage2Events
<1>3. IsSequence(Stage3Events(s))
  BY <1>2, WhenShape, ConcatShape DEF Stage3Events
<1> QED
  BY <1>1, <1>2, <1>3, SingletonShape DEF RegistryEvents

\* The counters of a refusal.
LEMMA RefusalCounts ==
    ASSUME IsCounts(counts)
    PROVE  \A c \in {Rejected, Fenced, [Fenced EXCEPT !.duplicates = @ + 1]} :
             Settled(c) /\ c.detected = counts.detected /\ c.cleared = counts.cleared
<1> DEFINE u == counts.presented + 1
           v == counts.rejected + 1
           w == counts.fenced + 1
           x == counts.duplicates + 1
<1>1. /\ u \in Nat /\ v \in Nat /\ w \in Nat /\ x \in Nat
      /\ counts.presented \in Nat /\ counts.accepted \in Nat /\ counts.rejected \in Nat
      /\ counts.fenced \in Nat /\ counts.pushed \in Nat
  BY DEF IsCounts
<1>2. /\ Rejected = [counts EXCEPT !.presented = u, !.rejected = v]
      /\ Fenced = [counts EXCEPT !.presented = u, !.fenced = w]
  BY DEF Rejected, Fenced
<1> HIDE DEF u, v, w, x
<1>3. /\ IsCounts(Rejected) /\ Rejected.presented = u /\ Rejected.rejected = v
      /\ Rejected.accepted = counts.accepted /\ Rejected.fenced = counts.fenced
      /\ Rejected.pushed = counts.pushed /\ Rejected.recorded = counts.recorded
      /\ Rejected.lost = counts.lost /\ Rejected.detected = counts.detected
      /\ Rejected.cleared = counts.cleared
  BY <1>1, <1>2 DEF IsCounts
<1>4. /\ IsCounts(Fenced) /\ Fenced.presented = u /\ Fenced.fenced = w
      /\ Fenced.accepted = counts.accepted /\ Fenced.rejected = counts.rejected
      /\ Fenced.pushed = counts.pushed /\ Fenced.recorded = counts.recorded
      /\ Fenced.lost = counts.lost /\ Fenced.detected = counts.detected
      /\ Fenced.cleared = counts.cleared
  BY <1>1, <1>2 DEF IsCounts
<1> DEFINE d == [Fenced EXCEPT !.duplicates = @ + 1]
<1>5. /\ IsCounts(d) /\ d.presented = u /\ d.fenced = w
      /\ d.accepted = counts.accepted /\ d.rejected = counts.rejected
      /\ d.pushed = counts.pushed /\ d.recorded = counts.recorded
      /\ d.lost = counts.lost /\ d.detected = counts.detected
      /\ d.cleared = counts.cleared
  BY <1>4 DEF IsCounts
<1> HIDE DEF d
<1>6. Settled(Rejected) /\ Settled(Fenced) /\ Settled(d)
  BY <1>1, <1>3, <1>4, <1>5 DEF Settled, u, v, w
<1> QED
  BY <1>3, <1>4, <1>5, <1>6 DEF d

\* A refused sample is counted once, whatever refused it.
LEMMA RefusedSample ==
    ASSUME IsCounts(counts), NEW s,
           \/ RejectInvalid(s) \/ RejectSourceLimit(s) \/ FenceIncarnation(s)
           \/ FenceGeneration(s) \/ FenceAuthority(s) \/ FenceSequence(s) \/ RejectQueueLimit(s)
    PROVE  /\ queues' = queues
           /\ \E c, kinds : Settled(c) /\ Records(c, kinds) /\ ConflictsUnmoved(c)
<1>1. ASSUME NEW c \in {Rejected, Fenced, [Fenced EXCEPT !.duplicates = @ + 1]},
             NEW kinds, IsSequence(kinds), Refuse(c, kinds)
      PROVE  queues' = queues /\ Settled(c) /\ Records(c, kinds) /\ ConflictsUnmoved(c)
  BY <1>1, RefusalCounts DEF Refuse, Records, ConflictsUnmoved
<1>2. IsSequence(<<"SampleRejected">>)
  BY SingletonShape
<1>3. \A k \in {<<>>, Stage1Events(s), Stage2Events(s), Stage3Events(s), RegistryEvents(s)} :
         \A x : IsSequence(Append(k, x))
  BY RegistryEventsShape, AppendShape, SingletonShape
<1>4. CASE RejectInvalid(s) \/ RejectSourceLimit(s)
  BY <1>1, <1>2, <1>4 DEF RejectInvalid, RejectSourceLimit
<1>5. CASE FenceIncarnation(s) \/ FenceGeneration(s) \/ FenceAuthority(s)
  <2>1. \E kinds : IsSequence(kinds) /\ Refuse(Fenced, kinds)
    BY <1>3, <1>5 DEF FenceIncarnation, FenceGeneration, FenceAuthority, Fence
  <2> QED
    BY <1>1, <2>1
<1>6. CASE FenceSequence(s)
  <2>1. \E kinds : IsSequence(kinds) /\ Refuse([Fenced EXCEPT !.duplicates = @ + 1], kinds)
    BY <1>3, <1>6 DEF FenceSequence
  <2> QED
    BY <1>1, <2>1
<1>7. CASE RejectQueueLimit(s)
  <2>1. \E kinds : IsSequence(kinds) /\ Refuse(Rejected, kinds)
    BY <1>3, <1>7 DEF RejectQueueLimit
  <2> QED
    BY <1>1, <2>1
<1> QED
  BY <1>4, <1>5, <1>6, <1>7

\* What admission does to the conflict of the sample's queue.
ConflictStep(s, p) ==
    LET q == Queue(s.queue)
        against == Contradicting(q, p)
        after == queues'[s.queue]
    IN /\ p.source = s.source /\ after.peers = PeersAfter(q, p)
       /\ after.conflict = IF Policy.conflict_enabled THEN against # {} ELSE q.conflict
       /\ conflicts' = ConflictsAfter(s.queue, p, against)
       /\ after.conflict /\ against # {} => after.state = "conflicting"

\* An admitted sample is counted once, and the conflict it starts or ends too.
LEMMA AcceptedCounts ==
    ASSUME IsCounts(counts), NEW s, NEW recovered, Accept(s, recovered)
    PROVE  /\ \E p : ConflictStep(s, p)
           /\ \E c, kinds :
                /\ Settled(c) /\ Records(c, kinds)
                /\ c.accepted = counts.accepted + 1 /\ c.pushed = counts.pushed + 1
                /\ c.fenced = counts.fenced /\ c.presented = counts.presented + 1
                /\ c.rejected = counts.rejected /\ c.duplicates = counts.duplicates
                /\ c.detected = counts.detected
                     + One(queues'[s.queue].conflict /\ ~Queue(s.queue).conflict)
                /\ c.cleared = counts.cleared
                     + One(~queues'[s.queue].conflict /\ Queue(s.queue).conflict)
<1> DEFINE received == Received(s, recovered)
           q == Queue(s.queue)
           assessment == Assess(s, recovered)
           p == Peer(s, received)
           against == Contradicting(q, p)
           conflict == IF Policy.conflict_enabled THEN against # {} ELSE q.conflict
           deltas == Deltas(q, s, received)
           input == [values |-> s.values, quality |-> assessment.quality,
                     freshness |-> assessment.freshness, conflict |-> conflict,
                     sums |-> Sums(q, s, received)]
           state == Classify(input)
           changed == q.history # <<>> /\ q.state # state
           full == Len(q.history) >= MaxSamplesPerQueue
           kinds == RegistryEvents(s)
                    \o When(~Tracked(s.queue), "QueueLimitReached")
                    \o When(NamesUnknownClass(s) /\ ~q.unsupported, "SampleAccepted")
                    \o CounterEvents(deltas)
                    \o When(conflict /\ ~q.conflict, "ConflictDetected")
                    \o When(~conflict /\ q.conflict, "ConflictCleared")
                    \o When(changed, "StateTransition")
                    \o When(full, "HistoryEvicted")
           c == [counts EXCEPT !.presented = @ + 1, !.accepted = @ + 1,
                               !.detected = @ + One(conflict /\ ~q.conflict),
                               !.cleared = @ + One(~conflict /\ q.conflict),
                               !.transitions = @ + One(changed),
                               !.pushed = @ + 1, !.evicted = @ + One(full)]
           record == RecordOf(s, received, assessment, deltas, state)
<1>1. /\ queues' = With(queues, s.queue, QueueAfter(q, s, p, conflict, record))
      /\ conflicts' = ConflictsAfter(s.queue, p, against)
      /\ counts' = RecordAll(c, kinds) /\ events' = LogAll(kinds)
  BY Zenon DEF Accept
<1>2. IsSequence(kinds)
  <2> HIDE DEF p, q, conflict, state, changed, full
  <2>1. IsSequence(RegistryEvents(s)) /\ IsSequence(CounterEvents(deltas))
    BY RegistryEventsShape, CounterEventsShape
  <2> HIDE DEF deltas
  <2> QED
    BY <2>1, WhenShape, ConcatShape
<1>3. input.quality = assessment.quality /\ input.values = s.values /\ input.conflict = conflict
  OBVIOUS
<1>4. assessment.quality \in {"complete", "incomplete"}
  BY DEF Assess
<1>5. p.source = s.source /\ (p.field # "none" => DOMAIN s.values # {})
  BY DEF Peer
<1> HIDE DEF assessment, p, input
<1>6. against # {} => p.field # "none"
  BY DEF Contradicting, Disagree
<1>7. conflict /\ against # {} => state = "conflicting"
  BY <1>3, <1>4, <1>5, <1>6 DEF Classify
<1> HIDE DEF state, kinds, against, deltas
<1>8. QueueAfter(q, s, p, conflict, record).state = state
  BY DEF QueueAfter, RecordOf
<1> HIDE DEF record
<1>9. /\ queues'[s.queue] = QueueAfter(q, s, p, conflict, record)
      /\ queues'[s.queue].conflict = conflict /\ queues'[s.queue].peers = PeersAfter(q, p)
  BY <1>1 DEF With, QueueAfter
<1>10. ConflictStep(s, p)
  BY <1>1, <1>5, <1>7, <1>8, <1>9 DEF ConflictStep, against
<1> DEFINE newlyIn == One(conflict /\ ~q.conflict)
           newlyOut == One(~conflict /\ q.conflict)
           changes == One(changed)
           evictions == One(full)
<1>11. newlyIn \in Nat /\ newlyOut \in Nat /\ changes \in Nat /\ evictions \in Nat
  BY DEF One
<1>12. c = [counts EXCEPT !.presented = @ + 1, !.accepted = @ + 1, !.detected = @ + newlyIn,
                          !.cleared = @ + newlyOut, !.transitions = @ + changes,
                          !.pushed = @ + 1, !.evicted = @ + evictions]
  OBVIOUS
<1>13. newlyIn = One(queues'[s.queue].conflict /\ ~q.conflict)
  BY <1>9
<1>14. newlyOut = One(~queues'[s.queue].conflict /\ q.conflict)
  BY <1>9
<1> HIDE DEF c, newlyIn, newlyOut, changes, evictions
<1>15. /\ counts.presented \in Nat /\ counts.accepted \in Nat /\ counts.rejected \in Nat
       /\ counts.fenced \in Nat /\ counts.pushed \in Nat /\ counts.detected \in Nat
       /\ counts.cleared \in Nat /\ counts.transitions \in Nat /\ counts.evicted \in Nat
  BY DEF IsCounts
<1>16. IsCounts(c)
  <2> DEFINE v1 == counts.presented + 1
             v2 == counts.accepted + 1
             v3 == counts.detected + newlyIn
             v4 == counts.cleared + newlyOut
             v5 == counts.transitions + changes
             v6 == counts.pushed + 1
             v7 == counts.evicted + evictions
  <2>1. {v1, v2, v3, v4, v5, v6, v7} \subseteq Nat
    BY <1>11, <1>15
  <2>2. c = [counts EXCEPT !.presented = v1, !.accepted = v2, !.detected = v3, !.cleared = v4,
                           !.transitions = v5, !.pushed = v6, !.evicted = v7]
    BY <1>12
  <2> HIDE DEF v1, v2, v3, v4, v5, v6, v7
  <2> QED
    BY <2>1, <2>2 DEF IsCounts
<1>17. /\ c.presented = counts.presented + 1 /\ c.accepted = counts.accepted + 1
       /\ c.rejected = counts.rejected /\ c.fenced = counts.fenced
       /\ c.duplicates = counts.duplicates
       /\ c.pushed = counts.pushed + 1 /\ c.recorded = counts.recorded
       /\ c.lost = counts.lost /\ c.detected = counts.detected + newlyIn
       /\ c.cleared = counts.cleared + newlyOut
  BY <1>12 DEF IsCounts
<1>18. Settled(c)
  BY <1>15, <1>16, <1>17 DEF Settled
<1>19. Records(c, kinds)
  BY <1>1, <1>2 DEF Records, kinds, c
<1> QED
  BY <1>10, <1>13, <1>14, <1>17, <1>18, <1>19

-----------------------------------------------------------------------------
(* Conflicts *)

InConflict == {q \in DOMAIN queues : queues[q].conflict}
Open(table, q) == {i \in DOMAIN table : table[i].queue = q /\ table[i].active}

\* Every active record is the only one of a queue that is in conflict, and as
\* long as none was dropped every such queue has one.
ConflictTable ==
    /\ IsSequence(conflicts) /\ Len(conflicts) <= MaxConflicts
    /\ \A i \in DOMAIN conflicts :
         /\ conflicts[i] = [queue |-> conflicts[i].queue, a |-> conflicts[i].a,
                            b |-> conflicts[i].b, active |-> conflicts[i].active]
         /\ conflicts[i].active \in BOOLEAN
    /\ \A i \in DOMAIN conflicts : conflicts[i].active =>
         conflicts[i].queue \in InConflict /\ Open(conflicts, conflicts[i].queue) = {i}
    /\ Len(conflicts) < MaxConflicts => \A q \in InConflict : Open(conflicts, q) # {}

\* A queue in conflict has cause to be.
ConflictCauses ==
    \A q \in DOMAIN queues :
       /\ queues[q].conflict \in BOOLEAN
       /\ queues[q].conflict => /\ Policy.conflict_enabled
                                /\ queues[q].state = "conflicting"
                                /\ \E x, y \in Range(queues[q].peers) : Disagree(x, y)

\* A queue enters a conflict: its record is added, the oldest may have to go.
LEMMA ConflictOpens ==
    ASSUME ConflictTable, NEW n, n \notin InConflict, InConflict' = InConflict \cup {n},
           NEW x, x = [queue |-> n, a |-> x.a, b |-> x.b, active |-> TRUE],
           conflicts' = Newest(Append(conflicts, x), MaxConflicts)
    PROVE  ConflictTable'
<1> DEFINE t == conflicts'
           last == Len(t)
<1>0. MaxConflicts \in Nat \ {0} /\ IsSequence(conflicts)
  BY StoreAssumption DEF ConflictTable
<1>1. IsSequence(t) /\ last \in 1..MaxConflicts /\ t[last] = x
  BY <1>0, NewestAppended DEF TookEntry
<1>2. PICK k \in Nat :
         /\ last + k = Len(conflicts) + 1 /\ (last < MaxConflicts => k = 0)
         /\ \A i \in DOMAIN t : i # last => i + k \in DOMAIN conflicts /\ t[i] = conflicts[i + k]
  BY <1>0, NewestAppended DEF TookEntry
<1>3. /\ DOMAIN t = 1..last /\ last \in Nat
      /\ Len(conflicts) \in Nat /\ DOMAIN conflicts = 1..Len(conflicts)
  BY <1>0, <1>1, SequenceShape
<1>4. x.queue = n /\ x.active = TRUE
  OBVIOUS
<1> HIDE DEF t, last
<1>6. ASSUME NEW i \in DOMAIN t
      PROVE  /\ t[i] = [queue |-> t[i].queue, a |-> t[i].a, b |-> t[i].b, active |-> t[i].active]
             /\ t[i].active \in BOOLEAN
  <2>1. CASE i = last
    <3>1. t[i] = x
      BY <1>1, <2>1
    <3> QED
      BY <1>4, <3>1
  <2>2. CASE i # last
    <3>1. i + k \in DOMAIN conflicts /\ t[i] = conflicts[i + k]
      BY <1>2, <2>2
    <3> QED
      BY <3>1 DEF ConflictTable
  <2> QED
    BY <2>1, <2>2
<1>7. ASSUME NEW i \in DOMAIN t, t[i].active, i # last
      PROVE  /\ i + k \in DOMAIN conflicts /\ t[i] = conflicts[i + k]
             /\ t[i].queue \in InConflict /\ Open(conflicts, t[i].queue) = {i + k}
  BY <1>2, <1>7 DEF ConflictTable
<1>8. ASSUME NEW i \in DOMAIN t, t[i].active
      PROVE  t[i].queue \in InConflict \cup {n} /\ Open(t, t[i].queue) = {i}
  <2>1. CASE i = last
    <3>1. t[i].queue = n
      BY <1>1, <1>4, <2>1
    <3>2. ASSUME NEW j \in DOMAIN t, t[j].active, t[j].queue = n PROVE j = last
      BY <1>7, <3>2
    <3> QED
      BY <1>8, <2>1, <3>1, <3>2 DEF Open
  <2>2. CASE i # last
    <3>1. /\ i + k \in DOMAIN conflicts /\ t[i].queue \in InConflict
          /\ Open(conflicts, t[i].queue) = {i + k} /\ t[i].queue # n
      BY <1>7, <1>8, <2>2
    <3>2. ASSUME NEW j \in DOMAIN t, t[j].active, t[j].queue = t[i].queue PROVE j = i
      <4>1. j # last
        BY <1>1, <1>4, <3>1, <3>2
      <4>2. Open(conflicts, t[i].queue) = {j + k}
        BY <1>7, <3>2, <4>1
      <4>3. j + k = i + k
        BY <3>1, <4>2
      <4> QED
        BY <1>3, <4>3
    <3> QED
      BY <1>8, <3>1, <3>2 DEF Open
  <2> QED
    BY <2>1, <2>2
<1>9. ASSUME last < MaxConflicts, NEW q \in InConflict \cup {n} PROVE Open(t, q) # {}
  <2>1. CASE q = n
    <3>1. last \in DOMAIN t /\ t[last].queue = n /\ t[last].active
      BY <1>1, <1>3, <1>4
    <3> QED
      BY <2>1, <3>1 DEF Open
  <2>2. CASE q \in InConflict
    <3>1. k = 0 /\ last = Len(conflicts) + 1 /\ Len(conflicts) < MaxConflicts
      BY <1>0, <1>2, <1>3, <1>9
    <3>2. PICK i \in DOMAIN conflicts : conflicts[i].queue = q /\ conflicts[i].active
      BY <2>2, <3>1 DEF ConflictTable, Open
    <3>3. i \in DOMAIN t /\ i # last /\ i + k = i
      BY <1>3, <3>1
    <3>4. t[i] = conflicts[i]
      BY <1>2, <3>3
    <3> QED
      BY <3>2, <3>3, <3>4 DEF Open
  <2> QED
    BY <2>1, <2>2
<1>10. last <= MaxConflicts
  BY <1>0, <1>1, <1>3
<1>11. \A i \in DOMAIN t : t[i].active => t[i].queue \in InConflict' /\ Open(t, t[i].queue) = {i}
  BY <1>8
<1>12. last < MaxConflicts => \A q \in InConflict' : Open(t, q) # {}
  BY <1>9
<1> QED
  BY <1>1, <1>6, <1>10, <1>11, <1>12 DEF ConflictTable, IsSequence, t, last

\* A queue leaves its conflict: its record, unless it was dropped, is closed.
LEMMA ConflictCloses ==
    ASSUME ConflictTable, NEW n, n \in InConflict, InConflict' = InConflict \ {n},
           conflicts' = Closed(n)
    PROVE  ConflictTable'
<1> DEFINE t == conflicts'
<1>0. /\ IsSequence(conflicts) /\ Len(conflicts) \in Nat /\ DOMAIN conflicts = 1..Len(conflicts)
      /\ Len(conflicts) <= MaxConflicts
  BY SequenceShape DEF ConflictTable
<1>1. Closed(n) = IF Open(conflicts, n) = {} THEN conflicts
                  ELSE [conflicts EXCEPT ![Max(Open(conflicts, n))].active = FALSE]
  BY DEF Closed, Open
<1>3. CASE Open(conflicts, n) = {}
  <2>1. t = conflicts
    BY <1>1, <1>3
  <2>2. \A i \in DOMAIN conflicts : conflicts[i].active => conflicts[i].queue # n
    BY <1>3 DEF Open
  <2> QED
    BY <1>0, <2>1, <2>2 DEF ConflictTable, IsSequence
<1>4. CASE Open(conflicts, n) # {}
  <2>1. PICK k \in DOMAIN conflicts : conflicts[k].queue = n /\ conflicts[k].active
    BY <1>4 DEF Open
  <2>2. Open(conflicts, n) = {k}
    BY <2>1 DEF ConflictTable
  <2>3. Max(Open(conflicts, n)) = k
    <3>1. k \in Nat
      BY <1>0
    <3> QED
      BY <2>2, <3>1 DEF Max
  <2>4. t = [conflicts EXCEPT ![k].active = FALSE]
    BY <1>1, <1>4, <2>3
  <2>5. conflicts[k] = [queue |-> conflicts[k].queue, a |-> conflicts[k].a,
                        b |-> conflicts[k].b, active |-> conflicts[k].active]
    BY DEF ConflictTable
  <2> DEFINE y == [queue |-> n, a |-> conflicts[k].a, b |-> conflicts[k].b, active |-> FALSE]
  <2>6. t = [conflicts EXCEPT ![k] = y]
    BY <2>1, <2>4, <2>5
  <2>7. y.queue = n /\ y.active = FALSE /\ y = [queue |-> y.queue, a |-> y.a, b |-> y.b,
                                                active |-> y.active]
    OBVIOUS
  <2> HIDE DEF t, y
  <2>8. conflicts \in Seq(Range(conflicts) \cup {y})
    BY <1>0 DEF IsSequence
  <2>9. /\ t \in Seq(Range(conflicts) \cup {y}) /\ Len(t) = Len(conflicts)
        /\ DOMAIN t = DOMAIN conflicts
        /\ t[k] = y /\ \A i \in DOMAIN conflicts : i # k => t[i] = conflicts[i]
    BY <1>0, <2>6, <2>8
  <2>10. IsSequence(t)
    BY <2>9, SequenceOf
  <2>11. ASSUME NEW i \in DOMAIN t
         PROVE  /\ t[i] = [queue |-> t[i].queue, a |-> t[i].a, b |-> t[i].b,
                           active |-> t[i].active]
                /\ t[i].active \in BOOLEAN
    <3>1. CASE i = k
      BY <2>7, <2>9, <3>1
    <3>2. CASE i # k
      BY <2>9, <3>2 DEF ConflictTable
    <3> QED
      BY <3>1, <3>2
  <2>12. ASSUME NEW i \in DOMAIN t, t[i].active
         PROVE  i # k /\ t[i] = conflicts[i] /\ t[i].queue \in InConflict /\ t[i].queue # n
                /\ Open(conflicts, t[i].queue) = {i}
    <3>1. i # k /\ t[i] = conflicts[i] /\ i \in DOMAIN conflicts
      BY <2>7, <2>9, <2>12
    <3>2. t[i].queue \in InConflict /\ Open(conflicts, t[i].queue) = {i}
      BY <2>12, <3>1 DEF ConflictTable
    <3> QED
      BY <2>2, <3>1, <3>2
  <2>13. \A q : q # n => Open(t, q) = Open(conflicts, q)
    BY <2>1, <2>7, <2>9 DEF Open
  <2>14. \A i \in DOMAIN t : t[i].active => t[i].queue \in InConflict' /\ Open(t, t[i].queue) = {i}
    BY <2>12, <2>13
  <2>15. Len(t) < MaxConflicts => \A q \in InConflict' : Open(t, q) # {}
    BY <2>9, <2>13 DEF ConflictTable
  <2> QED
    BY <1>0, <2>9, <2>10, <2>11, <2>14, <2>15 DEF ConflictTable, IsSequence, t
<1> QED
  BY <1>3, <1>4

\* The conflict counters of the store say how many queues are in conflict.
ConflictBalance == counts.detected - counts.cleared = Cardinality(InConflict)

\* All that is known of the store.
CInv ==
    /\ PInv /\ IsCounts(counts) /\ LogShape /\ Tallies
    /\ ConflictTable /\ ConflictCauses /\ ConflictBalance

\* What ConflictBookkeeping says follows: the active records and the queues in
\* conflict correspond to each other.
LEMMA ConflictsCorrespond ==
    ASSUME TableShapes, ConflictTable, ConflictCauses, ConflictBalance
    PROVE  ConflictBookkeeping
<1> DEFINE active == {i \in DOMAIN conflicts : conflicts[i].active}
           f == [i \in active |-> conflicts[i].queue]
<1>1. ASSUME Len(conflicts) < MaxConflicts
      PROVE  Cardinality(InConflict) = Cardinality(active)
  <2>1. DOMAIN conflicts = 1..Len(conflicts) /\ Len(conflicts) \in Nat
    BY SequenceShape DEF ConflictTable
  <2>2. IsFiniteSet(active)
    <3>1. IsFiniteSet(1..Len(conflicts)) /\ active \in SUBSET (1..Len(conflicts))
      BY <2>1, FS_Interval
    <3> QED
      BY <3>1, FS_Subset
  <2>3. f \in [active -> InConflict]
    BY DEF ConflictTable
  <2>4. \A a, b \in DOMAIN f : f[a] = f[b] => a = b
    BY DEF ConflictTable
  <2>5. \A q \in InConflict : \E i \in active : f[i] = q
    BY <1>1 DEF ConflictTable, Open
  <2> HIDE DEF f, active
  <2>6. f \in Bijection(active, InConflict)
    BY <2>3, <2>4, <2>5 DEF Bijection, Injection, Surjection, IsInjective
  <2> QED
    BY <2>2, <2>6, FS_Bijection DEF ExistsBijection
<1>2. \A q \in InConflict : /\ queues[q].state = "conflicting"
                            /\ \E x, y \in Range(queues[q].peers) : Disagree(x, y)
  BY DEF ConflictCauses, InConflict
<1>3. \A i \in DOMAIN conflicts : conflicts[i].active =>
        conflicts[i].queue \in InConflict /\ Open(conflicts, conflicts[i].queue) = {i}
  BY DEF ConflictTable
<1> QED
  BY <1>1, <1>2, <1>3 DEF ConflictBookkeeping, ConflictBalance, InConflict, Open

\* Admission keeps the conflict table and its counters in step with the queue.
LEMMA AcceptedConflict ==
    ASSUME CInv, NEW s, IsSample(s), NEW recovered, Accept(s, recovered)
    PROVE  ConflictTable' /\ ConflictCauses' /\ ConflictBalance'
<1> DEFINE n == s.queue
           q == Queue(n)
           was == q.conflict
           is == queues'[n].conflict
<1>0. /\ Registry /\ KeptEvidence /\ TableShapes /\ IsCounts(counts) /\ LogShape
      /\ ConflictTable /\ ConflictCauses /\ ConflictBalance
  BY DEF CInv, PInv, SInv
<1>1. PICK t, e : RegistryBecomes(s, t) /\ IsEntryOf(e, s, t) /\ QueueBecomes(s, e)
  BY <1>0, AcceptedSample
<1>2. PICK p : ConflictStep(s, p)
  BY <1>0, AcceptedCounts
<1>3. PICK c, kinds : /\ Settled(c) /\ Records(c, kinds)
                      /\ c.detected = counts.detected + One(is /\ ~was)
                      /\ c.cleared = counts.cleared + One(~is /\ was)
  BY <1>0, AcceptedCounts
<1> DEFINE against == Contradicting(q, p)
<1>4. /\ is = IF Policy.conflict_enabled THEN against # {} ELSE was
      /\ conflicts' = ConflictsAfter(n, p, against)
      /\ is /\ against # {} => queues'[n].state = "conflicting"
      /\ queues'[n].peers = PeersAfter(q, p) /\ p.source = s.source
  BY <1>2 DEF ConflictStep
<1>5. /\ DOMAIN queues' = DOMAIN queues \cup {n}
      /\ \A m \in DOMAIN queues : m # n => queues'[m] = queues[m]
  BY <1>1 DEF QueueBecomes
<1>6. /\ was \in BOOLEAN /\ (was => Policy.conflict_enabled) /\ (was <=> n \in InConflict)
  <2>1. CASE Tracked(n)
    BY <1>0, <2>1 DEF Queue, Tracked, ConflictCauses, InConflict
  <2>2. CASE ~Tracked(n)
    BY <2>2 DEF Queue, NewQueue, Tracked, InConflict
  <2> QED
    BY <2>1, <2>2
<1>7. against # {} => Policy.conflict_enabled
  BY DEF Contradicting
<1> HIDE DEF against
<1>8. is \in BOOLEAN /\ (is <=> against # {})
  BY <1>4, <1>6, <1>7
<1>9. InConflict' = IF is THEN InConflict \cup {n} ELSE InConflict \ {n}
  BY <1>5, <1>8 DEF InConflict
<1>10. IsFiniteSet(InConflict) /\ Cardinality(InConflict) \in Nat
  <2>1. InConflict \in SUBSET DOMAIN queues /\ IsFiniteSet(DOMAIN queues)
    BY <1>0 DEF InConflict, TableShapes
  <2> QED
    BY <2>1, FS_Subset, FS_CardinalityType
<1> HIDE DEF n, q, was, is
<1>11. ConflictTable'
  <2>1. CASE is /\ ~was
    <3> DEFINE x == [queue |-> n, a |-> p.source, b |-> Queue(n).peers[Min(against)].source,
                     active |-> TRUE]
    <3>1. conflicts' = Newest(Append(conflicts, x), MaxConflicts)
      BY <1>4, <1>8, <2>1 DEF ConflictsAfter, was, q
    <3>2. x = [queue |-> n, a |-> x.a, b |-> x.b, active |-> TRUE]
      OBVIOUS
    <3> HIDE DEF x
    <3> QED
      BY <1>0, <1>6, <1>9, <2>1, <3>1, <3>2, ConflictOpens
  <2>2. CASE ~is /\ was
    <3>1. conflicts' = Closed(n)
      BY <1>4, <1>6, <1>8, <2>2 DEF ConflictsAfter, was, q
    <3> QED
      BY <1>0, <1>6, <1>9, <2>2, <3>1, ConflictCloses
  <2>3. CASE is = was
    <3>1. conflicts' = conflicts
      BY <1>4, <1>8, <2>3 DEF ConflictsAfter, was, q
    <3>2. InConflict' = InConflict
      BY <1>6, <1>9, <2>3
    <3> QED
      BY <1>0, <3>1, <3>2 DEF ConflictTable, IsSequence
  <2> QED
    BY <1>6, <1>8, <2>1, <2>2, <2>3
<1>12. ConflictCauses'
  <2>1. ASSUME is
        PROVE  \E x, y \in Range(queues'[n].peers) : Disagree(x, y)
    <3>1. PICK i \in DOMAIN q.peers : Disagree(p, q.peers[i])
      BY <1>8, <2>1 DEF against, Contradicting
    <3>2. q.peers[i].source # p.source /\ q.peers[i] \in Range(q.peers)
      BY <3>1 DEF Disagree, Range
    <3>3. IsFiniteSet(DOMAIN sources') /\ Cardinality(DOMAIN sources') <= MaxSources
      BY <1>0, <1>1, RegistryFits
    <3>4. IsPeerTable(q.peers, DOMAIN sources') /\ p.source \in DOMAIN sources'
      BY <1>0, <1>1, <1>4, QueueBefore DEF RegistryBecomes, IsPeerTable, q, n
    <3>5. p \in Range(queues'[n].peers) /\ q.peers[i] \in Range(queues'[n].peers)
      BY <1>4, <3>2, <3>3, <3>4, PeersAfterTable
    <3> QED
      BY <3>1, <3>5
  <2>2. is => queues'[n].state = "conflicting" /\ Policy.conflict_enabled
    BY <1>4, <1>7, <1>8
  <2>3. ASSUME NEW m \in DOMAIN queues'
        PROVE  /\ queues'[m].conflict \in BOOLEAN
               /\ queues'[m].conflict =>
                    /\ Policy.conflict_enabled /\ queues'[m].state = "conflicting"
                    /\ \E x, y \in Range(queues'[m].peers) : Disagree(x, y)
    <3>1. CASE m = n
      BY <1>8, <2>1, <2>2, <3>1 DEF is
    <3>2. CASE m # n
      BY <1>0, <1>5, <3>2 DEF ConflictCauses
    <3> QED
      BY <3>1, <3>2
  <2> QED
    BY <2>3 DEF ConflictCauses
<1>13. ConflictBalance'
  <2>1. counts'.detected = c.detected /\ counts'.cleared = c.cleared
    BY <1>0, <1>3, Recorded DEF Settled, Records
  <2>2. counts.detected \in Nat /\ counts.cleared \in Nat
    BY <1>0 DEF IsCounts
  <2>3. Cardinality(InConflict)' = Cardinality(InConflict) + One(is /\ ~was) - One(~is /\ was)
    <3>1. /\ Cardinality(InConflict \cup {n}) =
               IF n \in InConflict THEN Cardinality(InConflict) ELSE Cardinality(InConflict) + 1
          /\ Cardinality(InConflict \ {n}) =
               IF n \in InConflict THEN Cardinality(InConflict) - 1 ELSE Cardinality(InConflict)
      BY <1>10, FS_AddElement, FS_RemoveElement
    <3> QED
      BY <1>6, <1>8, <1>9, <1>10, <3>1 DEF One
  <2>4. One(is /\ ~was) \in Nat /\ One(~is /\ was) \in Nat
    BY DEF One
  <2> QED
    BY <1>0, <1>3, <1>10, <2>1, <2>2, <2>3, <2>4 DEF ConflictBalance
<1> QED
  BY <1>11, <1>12, <1>13

\* A recorded step keeps the counters and the log.
LEMMA RecordedKeeps ==
    ASSUME IsCounts(counts), LogShape, Tallies, NEW c, NEW kinds, Settled(c), Records(c, kinds)
    PROVE  /\ IsCounts(counts') /\ LogShape' /\ Tallies'
           /\ counts'.detected = c.detected /\ counts'.cleared = c.cleared
<1>1. IsCounts(c) /\ IsSequence(kinds)
  BY DEF Settled, Records
<1>2. LET d == counts'
          l == events'
      IN /\ IsCounts(d) /\ IsSequence(l) /\ Len(l) <= MaxEvents
         /\ d.recorded - (d.lost + Len(l)) = c.recorded - (c.lost + Len(events))
         /\ d.presented = c.presented /\ d.accepted = c.accepted /\ d.rejected = c.rejected
         /\ d.fenced = c.fenced /\ d.pushed = c.pushed
         /\ d.detected = c.detected /\ d.cleared = c.cleared
  BY <1>1, Recorded DEF Records
<1>3. LogShape'
  BY <1>2 DEF LogShape, IsSequence
<1>4. \A d : IsCounts(d) => /\ d.presented \in Nat /\ d.accepted \in Nat /\ d.rejected \in Nat
                           /\ d.fenced \in Nat /\ d.pushed \in Nat /\ d.recorded \in Nat
                           /\ d.lost \in Nat
  BY DEF IsCounts
<1>5. Len(events) \in Nat /\ Len(events') \in Nat
  BY <1>2, SequenceShape DEF LogShape
<1>6. Tallies'
  <2>1. /\ c.presented \in Nat /\ c.accepted \in Nat /\ c.rejected \in Nat
        /\ c.fenced \in Nat /\ c.pushed \in Nat /\ c.recorded \in Nat /\ c.lost \in Nat
    BY <1>1, <1>4
  <2>2. /\ counts.presented \in Nat /\ counts.accepted \in Nat /\ counts.rejected \in Nat
        /\ counts.fenced \in Nat /\ counts.pushed \in Nat
    BY <1>4
  <2>3. counts'.recorded \in Nat /\ counts'.lost \in Nat
    BY <1>2, <1>4
  <2>4. c.presented = c.accepted + c.rejected + c.fenced /\ c.accepted = c.pushed
    <3>1. counts.presented - (counts.accepted + counts.rejected + counts.fenced) = 0
      BY <2>2 DEF Tallies
    <3>2. counts.accepted - counts.pushed = 0
      BY <2>2 DEF Tallies
    <3>3. /\ c.presented - (c.accepted + c.rejected + c.fenced) = 0
          /\ c.accepted - c.pushed = 0
      BY <3>1, <3>2 DEF Settled
    <3> QED
      BY <2>1, <3>3
  <2>5. c.recorded = c.lost + Len(events)
    BY <2>1 DEF Tallies, Settled
  <2>6. counts'.recorded = counts'.lost + Len(events')
    <3>1. c.recorded - (c.lost + Len(events)) = 0
      BY <1>5, <2>1, <2>5
    <3>2. counts'.recorded - (counts'.lost + Len(events')) = 0
      BY <1>2, <3>1
    <3> QED
      BY <1>5, <2>3, <3>2
  <2> QED
    BY <1>2, <2>4, <2>6 DEF Tallies
<1> QED
  BY <1>2, <1>3, <1>6

\* Every call that presents a sample keeps the invariant.
LEMMA ConflictsPresented ==
    ASSUME CInv, NEW s, IsSample(s), Presents(s)
    PROVE  CInv'
<1>0. /\ PInv /\ IsCounts(counts) /\ LogShape /\ Tallies
      /\ ConflictTable /\ ConflictCauses /\ ConflictBalance
  BY DEF CInv
<1>1. PInv'
  BY <1>0, PeersPresented
<1>2. CASE \/ RejectInvalid(s) \/ RejectSourceLimit(s) \/ FenceIncarnation(s)
           \/ FenceGeneration(s) \/ FenceAuthority(s) \/ FenceSequence(s) \/ RejectQueueLimit(s)
  <2>1. PICK c, kinds : Settled(c) /\ Records(c, kinds) /\ ConflictsUnmoved(c)
    BY <1>0, <1>2, RefusedSample
  <2>2. queues' = queues
    BY <1>0, <1>2, RefusedSample
  <2>3. /\ IsCounts(counts') /\ LogShape' /\ Tallies'
        /\ counts'.detected = counts.detected /\ counts'.cleared = counts.cleared
        /\ conflicts' = conflicts
    BY <1>0, <2>1, RecordedKeeps DEF ConflictsUnmoved
  <2>4. ConflictTable' /\ ConflictCauses' /\ ConflictBalance'
    BY <1>0, <2>2, <2>3 DEF ConflictTable, ConflictCauses, ConflictBalance, InConflict, Open,
                            IsSequence
  <2> QED
    BY <1>1, <2>3, <2>4 DEF CInv, IsCounts
<1>3. ASSUME NEW recovered, Accept(s, recovered)
      PROVE  CInv'
  <2>1. PICK c, kinds : Settled(c) /\ Records(c, kinds)
    BY <1>0, <1>3, AcceptedCounts
  <2>2. IsCounts(counts') /\ LogShape' /\ Tallies'
    BY <1>0, <2>1, RecordedKeeps
  <2>3. ConflictTable' /\ ConflictCauses' /\ ConflictBalance'
    BY <1>3, AcceptedConflict
  <2> QED
    BY <1>1, <2>2, <2>3 DEF CInv, IsCounts
<1> QED
  BY <1>2, <1>3 DEF Presents

\* A metadata table, stored or refused, is counted and reported.
LEMMA TableCounts ==
    ASSUME IsCounts(counts)
    PROVE  \A c \in {[counts EXCEPT !.updates = @ + 1], [counts EXCEPT !.refused = @ + 1]} :
             Settled(c) /\ c.detected = counts.detected /\ c.cleared = counts.cleared
<1> DEFINE u == counts.updates + 1
           v == counts.refused + 1
           c == [counts EXCEPT !.updates = u]
           d == [counts EXCEPT !.refused = v]
<1>1. u \in Nat /\ v \in Nat
  BY DEF IsCounts
<1> HIDE DEF u, v
<1>2. IsCounts(c) /\ IsCounts(d)
  BY <1>1 DEF IsCounts
<1>3. \A x \in {c, d} :
        /\ x.presented = counts.presented /\ x.accepted = counts.accepted
        /\ x.rejected = counts.rejected /\ x.fenced = counts.fenced
        /\ x.pushed = counts.pushed /\ x.recorded = counts.recorded /\ x.lost = counts.lost
        /\ x.detected = counts.detected /\ x.cleared = counts.cleared
  BY DEF IsCounts
<1> HIDE DEF c, d
<1> QED
  BY <1>2, <1>3 DEF Settled, c, d, u, v

LEMMA CInvHolds == Spec => []CInv
<1>1. Init => CInv
  <2> SUFFICES ASSUME Init PROVE CInv
    OBVIOUS
  <2>1. SInv
    BY DEF Init, SInv, Registry, KeptEvidence, HistoryFenced, SequenceUsedOnce
  <2>2. /\ DOMAIN sources = {} /\ DOMAIN queues = {} /\ conflicts = <<>> /\ events = <<>>
        /\ InConflict = {}
    BY DEF Init, InConflict
  <2>3. TableShapes /\ PeersAreNewest
    BY <2>2, FS_EmptySet, StoreAssumption DEF TableShapes, PeersAreNewest
  <2>4. IsCounts(counts) /\ counts.detected - counts.cleared = 0
    BY DEF Init, IsCounts
  <2>5. LogShape /\ Tallies
    BY <2>2, StoreAssumption DEF Init, LogShape, Tallies, IsSequence
  <2>6. ConflictTable /\ ConflictCauses
    BY <2>2, StoreAssumption DEF ConflictTable, ConflictCauses, IsSequence
  <2>7. ConflictBalance
    BY <2>2, <2>4, FS_EmptySet DEF ConflictBalance
  <2> QED
    BY <2>1, <2>3, <2>4, <2>5, <2>6, <2>7 DEF CInv, PInv
<1>2. CInv /\ [Next]_vars => CInv'
  <2> SUFFICES ASSUME CInv, [Next]_vars PROVE CInv'
    OBVIOUS
  <2>0. /\ PInv /\ IsCounts(counts) /\ LogShape /\ Tallies
        /\ ConflictTable /\ ConflictCauses /\ ConflictBalance
    BY DEF CInv
  <2>1. CASE \E s \in Samples : \/ RejectInvalid(s) \/ RejectSourceLimit(s) \/ FenceIncarnation(s)
                                \/ FenceGeneration(s) \/ FenceAuthority(s) \/ FenceSequence(s)
                                \/ RejectQueueLimit(s) \/ AcceptLive(s)
    <3>1. PICK s \in Samples : \/ RejectInvalid(s) \/ RejectSourceLimit(s) \/ FenceIncarnation(s)
                               \/ FenceGeneration(s) \/ FenceAuthority(s) \/ FenceSequence(s)
                               \/ RejectQueueLimit(s) \/ AcceptLive(s)
      BY <2>1
    <3>2. IsSample(s)
      BY StoreAssumption DEF IsSample
    <3>3. Presents(s)
      BY <3>1 DEF Presents, AcceptLive
    <3> QED
      BY <3>2, <3>3, ConflictsPresented
  <2>2. ASSUME UNCHANGED <<sources, nextOrdinal, queues>> PROVE PInv'
    <3>1. SInv'
      BY <2>0, <2>2 DEF PInv, SInv, Registry, KeptEvidence, HistoryFenced, SequenceUsedOnce,
                        IsSource, IsSequence, Behind
    <3> QED
      BY <2>0, <2>2, <3>1 DEF PInv, TableShapes, PeersAreNewest, IsPeerTable, IsSequence
  <2>3. CASE \E t \in Tables : ApplyMetadata(t) \/ FenceMetadata(t)
    <3>1. PICK c \in {[counts EXCEPT !.updates = @ + 1], [counts EXCEPT !.refused = @ + 1]} :
             \E kinds : Records(c, kinds)
      BY <2>3, SingletonShape DEF ApplyMetadata, FenceMetadata, Records
    <3>2. UNCHANGED <<sources, nextOrdinal, queues, conflicts>>
      BY <2>3 DEF ApplyMetadata, FenceMetadata
    <3>3. Settled(c) /\ c.detected = counts.detected /\ c.cleared = counts.cleared
      BY <2>0, TableCounts
    <3>4. /\ IsCounts(counts') /\ LogShape' /\ Tallies'
          /\ counts'.detected = counts.detected /\ counts'.cleared = counts.cleared
      BY <2>0, <3>1, <3>3, RecordedKeeps
    <3>5. ConflictTable' /\ ConflictCauses' /\ ConflictBalance'
      BY <2>0, <3>2, <3>4 DEF ConflictTable, ConflictCauses, ConflictBalance, InConflict, Open,
                              IsSequence
    <3> QED
      BY <2>2, <3>2, <3>4, <3>5 DEF CInv, IsCounts
  <2>4. CASE Tick \/ UNCHANGED vars
    <3>1. UNCHANGED <<sources, nextOrdinal, queues, conflicts, events, counts>>
      BY <2>4 DEF Tick, vars
    <3>2. IsCounts(counts)' /\ LogShape' /\ Tallies'
      BY <2>0, <3>1 DEF IsCounts, LogShape, Tallies, IsSequence
    <3>3. ConflictTable' /\ ConflictCauses' /\ ConflictBalance'
      BY <2>0, <3>1 DEF ConflictTable, ConflictCauses, ConflictBalance, InConflict, Open,
                        IsSequence
    <3> QED
      BY <2>2, <3>1, <3>2, <3>3 DEF CInv
  <2> QED
    BY <2>1, <2>3, <2>4 DEF Next
<1> QED
  BY <1>1, <1>2, PTL DEF Spec

\* ConflictBookkeeping: detect_conflict never loses track of a conflict, and a
\* queue that reports one has two sources that disagree.
THEOREM StoreConflictBookkeeping == Spec => []ConflictBookkeeping
<1>1. CInv => ConflictBookkeeping
  BY ConflictsCorrespond DEF CInv, PInv
<1> QED
  BY <1>1, CInvHolds, PTL

\* WithinHistoryLimits: HistoryLimits bounds the registry, the queue table, the
\* histories, the peers, the conflict table and the event log.
THEOREM StoreWithinHistoryLimits == Spec => []WithinHistoryLimits
<1>1. CInv => WithinHistoryLimits
  <2> SUFFICES ASSUME CInv PROVE WithinHistoryLimits
    OBVIOUS
  <2>1. TableShapes /\ Registry /\ LogShape /\ ConflictTable
    BY DEF CInv, PInv, SInv
  <2>2. Cardinality(DOMAIN queues) <= Min({MaxQueues, HistoryBudget})
    BY <2>1, StoreAssumption, MinOfTwo DEF TableShapes
  <2>3. \A x \in DOMAIN sources : Len(sources[x].recent) \in 1..KeptIncarnations
    BY <2>1 DEF Registry, IsSource, Remembers
  <2> QED
    BY <2>1, <2>2, <2>3 DEF WithinHistoryLimits, TableShapes, LogShape, ConflictTable
<1> QED
  BY <1>1, CInvHolds, PTL

\* Tallies: every sample presented is accepted, rejected or fenced, once.
THEOREM StoreTallies == Spec => []Tallies
<1>1. CInv => Tallies
  BY DEF CInv
<1> QED
  BY <1>1, CInvHolds, PTL

-----------------------------------------------------------------------------
(* Totals *)

\* How FoldFunction walks through a set, and its partial sums.
Picked(s) == CHOOSE x \in s : TRUE
PartialSums(f, g) ==
    [s \in SUBSET DOMAIN f |-> IF s = {} THEN 0 ELSE f[Picked(s)] + g[s \ {Picked(s)}]]

LEMMA PickOne ==
    ASSUME NEW D, IsFiniteSet(D), NEW s \in SUBSET D, s # {}
    PROVE  /\ Picked(s) \in s /\ s \ {Picked(s)} \in SUBSET D
           /\ Cardinality(s) \in Nat \ {0}
           /\ Cardinality(s \ {Picked(s)}) = Cardinality(s) - 1
<1>1. Picked(s) \in s
  BY DEF Picked
<1>2. IsFiniteSet(s)
  BY FS_Subset
<1> QED
  BY <1>1, <1>2, FS_RemoveElement, FS_CardinalityType, FS_EmptySet

\* The partial sums exist, whatever the function.
LEMMA SumsExist ==
    ASSUME NEW D, IsFiniteSet(D), NEW f \in [D -> Nat]
    PROVE  \E g \in [SUBSET D -> Nat] : g = PartialSums(f, g)
<1> DEFINE Upto(g, n) == \A s \in SUBSET D : Cardinality(s) <= n => g[s] = PartialSums(f, g)[s]
           Missed == {n \in Nat : ~\E g \in [SUBSET D -> Nat] : Upto(g, n)}
<1>0. \A s \in SUBSET D : Cardinality(s) \in Nat /\ Cardinality(s) <= Cardinality(D)
  BY FS_Subset, FS_CardinalityType
<1>1. ASSUME NEW g \in [SUBSET D -> Nat] PROVE PartialSums(f, g) \in [SUBSET D -> Nat]
  <2>1. ASSUME NEW s \in SUBSET D, s # {} PROVE f[Picked(s)] + g[s \ {Picked(s)}] \in Nat
    <3>1. Picked(s) \in D /\ s \ {Picked(s)} \in SUBSET D
      BY <2>1, PickOne
    <3>2. f[Picked(s)] \in Nat /\ g[s \ {Picked(s)}] \in Nat
      BY <3>1
    <3> QED
      BY <3>2
  <2>2. \A s \in SUBSET D : (IF s = {} THEN 0 ELSE f[Picked(s)] + g[s \ {Picked(s)}]) \in Nat
    BY <2>1
  <2>3. PartialSums(f, g) = [s \in SUBSET D |-> IF s = {} THEN 0 ELSE f[Picked(s)] + g[s \ {Picked(s)}]]
    BY DEF PartialSums
  <2> QED
    BY <2>2, <2>3
<1>2. 0 \notin Missed
  <2> DEFINE g == [s \in SUBSET D |-> 0]
  <2>1. ASSUME NEW s \in SUBSET D, Cardinality(s) <= 0 PROVE g[s] = PartialSums(f, g)[s]
    <3>1. s = {}
      <4> SUFFICES ASSUME s # {} PROVE FALSE
        OBVIOUS
      <4>1. Cardinality(s) \in Nat \ {0}
        BY PickOne
      <4> QED
        BY <2>1, <4>1
    <3> QED
      BY <3>1 DEF PartialSums
  <2>2. g \in [SUBSET D -> Nat]
    OBVIOUS
  <2> HIDE DEF g
  <2> QED
    BY <2>1, <2>2
<1>3. ASSUME NEW n \in Nat, n \notin Missed PROVE n + 1 \notin Missed
  <2>1. PICK g \in [SUBSET D -> Nat] : Upto(g, n)
    BY <1>3
  <2> DEFINE h == PartialSums(f, g)
  <2>2. h \in [SUBSET D -> Nat]
    BY <1>1
  <2>3. ASSUME NEW s \in SUBSET D, Cardinality(s) <= n + 1 PROVE h[s] = PartialSums(f, h)[s]
    <3>1. CASE s = {}
      BY <3>1 DEF PartialSums
    <3>2. CASE s # {}
      <4>1. s \ {Picked(s)} \in SUBSET D /\ Cardinality(s \ {Picked(s)}) <= n
        BY <1>0, <2>3, <3>2, PickOne
      <4>2. g[s \ {Picked(s)}] = h[s \ {Picked(s)}]
        BY <2>1, <4>1
      <4>3. h[s] = f[Picked(s)] + g[s \ {Picked(s)}]
        BY <3>2 DEF PartialSums
      <4> HIDE DEF h
      <4>4. PartialSums(f, h)[s] = f[Picked(s)] + h[s \ {Picked(s)}]
        BY <3>2 DEF PartialSums
      <4> QED
        BY <4>2, <4>3, <4>4
    <3> QED
      BY <3>1, <3>2
  <2> HIDE DEF h
  <2> QED
    BY <2>2, <2>3
<1>4. Missed = {}
  <2> SUFFICES ASSUME Missed # {} PROVE FALSE
    OBVIOUS
  <2>0. Missed \subseteq Nat
    OBVIOUS
  <2> HIDE DEF Missed
  <2>1. PICK n \in Missed : \A m \in Missed : n <= m
    BY <2>0, LeastNat
  <2>2. n \in Nat /\ n # 0 /\ n - 1 \in Nat /\ n - 1 \notin Missed
    BY <1>2, <2>0, <2>1
  <2> QED
    BY <1>3, <2>1, <2>2
<1>5. PICK g \in [SUBSET D -> Nat] : Upto(g, Cardinality(D))
  BY <1>0, <1>4
<1>6. \A s \in SUBSET D : g[s] = PartialSums(f, g)[s]
  BY <1>0, <1>5
<1>7. g = PartialSums(f, g)
  <2>1. PartialSums(f, g) \in [SUBSET D -> Nat]
    BY <1>1
  <2> QED
    BY <1>6, <2>1
<1> QED
  BY <1>7

\* g gives the partial sums of f.
IsSums(g, f, D) == f \in [D -> Nat] /\ g \in [SUBSET D -> Nat] /\ g = PartialSums(f, g)

AnyOrder(g, f, D) == \A s \in SUBSET D : \A x \in s : g[s] = f[x] + g[s \ {x}]

\* Sums do not depend on the order.
LEMMA SumsAny ==
    ASSUME NEW D, IsFiniteSet(D), NEW f, NEW g, IsSums(g, f, D)
    PROVE  AnyOrder(g, f, D)
<1> USE DEF IsSums
<1> DEFINE Holds(s) == \A x \in s : g[s] = f[x] + g[s \ {x}]
           Missed == {n \in Nat : \E s \in SUBSET D : Cardinality(s) = n /\ ~Holds(s)}
<1>0. \A s \in SUBSET D : IsFiniteSet(s) /\ Cardinality(s) \in Nat
  BY FS_Subset, FS_CardinalityType
<1>1. ASSUME NEW s \in SUBSET D, s # {} PROVE g[s] = f[Picked(s)] + g[s \ {Picked(s)}]
  BY <1>1 DEF PartialSums
<1>2. ASSUME Missed # {} PROVE FALSE
  <2>0. Missed \subseteq Nat
    OBVIOUS
  <2>1. PICK n \in Missed : \A m \in Missed : n <= m
    BY <1>2, <2>0, LeastNat
  <2>2. PICK s \in SUBSET D : Cardinality(s) = n /\ ~Holds(s)
    BY <2>1
  <2>3. ASSUME NEW u \in SUBSET D, Cardinality(u) < n PROVE Holds(u)
    <3>1. Cardinality(u) \in Nat /\ n \in Nat /\ Cardinality(u) \notin Missed
      BY <1>0, <2>0, <2>1, <2>3
    <3> QED
      BY <3>1
  <2>4. PICK x \in s : g[s] # f[x] + g[s \ {x}]
    BY <2>2
  <2> DEFINE y == Picked(s)
  <2> HIDE DEF Missed
  <2>5. y \in s /\ g[s] = f[y] + g[s \ {y}] /\ x # y
    BY <1>1, <2>4, PickOne
  <2>6. ASSUME NEW z \in s PROVE s \ {z} \in SUBSET D /\ Holds(s \ {z})
    <3>1. Cardinality(s \ {z}) = Cardinality(s) - 1
      BY <1>0, FS_RemoveElement
    <3>2. Cardinality(s \ {z}) < n /\ s \ {z} \in SUBSET D
      BY <1>0, <2>2, <3>1
    <3> QED
      BY <2>3, <3>2
  <2> HIDE DEF y
  <2>7. g[s \ {y}] = f[x] + g[(s \ {y}) \ {x}]
    BY <2>5, <2>6
  <2>8. g[s \ {x}] = f[y] + g[(s \ {x}) \ {y}]
    BY <2>5, <2>6
  <2>9. (s \ {y}) \ {x} = (s \ {x}) \ {y}
    OBVIOUS
  <2> DEFINE r == g[(s \ {x}) \ {y}]
             a == f[x]
             b == f[y]
  <2>10. r \in Nat /\ a \in Nat /\ b \in Nat
    BY <2>5
  <2>11. g[s] = b + (a + r) /\ g[s \ {x}] = b + r
    BY <2>5, <2>7, <2>8, <2>9
  <2> HIDE DEF r, a, b
  <2>12. g[s] = a + g[s \ {x}]
    BY <2>10, <2>11
  <2> QED
    BY <2>4, <2>12 DEF a
<1>3. \A s \in SUBSET D : Holds(s)
  BY <1>0, <1>2
<1> QED
  BY <1>3 DEF AnyOrder

\* Sums over the same entries agree.
LEMMA SumsAgree ==
    ASSUME NEW D, IsFiniteSet(D), NEW f, NEW g, IsSums(g, f, D),
           NEW E, E \subseteq D, NEW e, NEW h, IsSums(h, e, E), \A x \in E : e[x] = f[x]
    PROVE  h[E] = g[E]
<1> USE DEF IsSums
<1> DEFINE Missed == {n \in Nat : \E s \in SUBSET E : Cardinality(s) = n /\ h[s] # g[s]}
<1>0. \A s \in SUBSET E : IsFiniteSet(s) /\ Cardinality(s) \in Nat
  BY FS_Subset, FS_CardinalityType
<1>1. ASSUME Missed # {} PROVE FALSE
  <2>0. Missed \subseteq Nat
    OBVIOUS
  <2>1. PICK n \in Missed : \A m \in Missed : n <= m
    BY <1>1, <2>0, LeastNat
  <2>2. PICK s \in SUBSET E : Cardinality(s) = n /\ h[s] # g[s]
    BY <2>1
  <2>3. s \in SUBSET D /\ s # {}
    BY <2>2 DEF PartialSums
  <2>4. /\ Picked(s) \in s /\ s \ {Picked(s)} \in SUBSET E
        /\ Cardinality(s \ {Picked(s)}) \in Nat /\ Cardinality(s \ {Picked(s)}) < n
    BY <1>0, <2>2, <2>3, PickOne
  <2>5. h[s \ {Picked(s)}] = g[s \ {Picked(s)}]
    BY <2>0, <2>1, <2>4
  <2>6. /\ h[s] = e[Picked(s)] + h[s \ {Picked(s)}]
        /\ g[s] = f[Picked(s)] + g[s \ {Picked(s)}]
    BY <2>3 DEF PartialSums
  <2> QED
    BY <2>2, <2>4, <2>5, <2>6
<1> QED
  BY <1>0, <1>1

LEMMA SumsAreNumbers ==
    ASSUME NEW D, IsFiniteSet(D), NEW f \in [D -> Nat], NEW g, g = PartialSums(f, g)
    PROVE  g \in [SUBSET D -> Nat]
<1> DEFINE Missed == {n \in Nat : \E s \in SUBSET D : Cardinality(s) = n /\ g[s] \notin Nat}
<1>0. \A s \in SUBSET D : Cardinality(s) \in Nat
  BY FS_Subset, FS_CardinalityType
<1>1. ASSUME NEW s \in SUBSET D
      PROVE  g[s] = IF s = {} THEN 0 ELSE f[Picked(s)] + g[s \ {Picked(s)}]
  <2>1. PartialSums(f, g)[s] = IF s = {} THEN 0 ELSE f[Picked(s)] + g[s \ {Picked(s)}]
    BY DEF PartialSums
  <2> QED
    BY <2>1
<1>2. ASSUME Missed # {} PROVE FALSE
  <2>0. Missed \subseteq Nat
    OBVIOUS
  <2>1. PICK n \in Missed : \A m \in Missed : n <= m
    BY <1>2, <2>0, LeastNat
  <2>2. PICK s \in SUBSET D : Cardinality(s) = n /\ g[s] \notin Nat
    BY <2>1
  <2>3. s # {}
    <3>1. s = {} => g[s] = 0
      BY <1>1
    <3> QED
      BY <2>2, <3>1
  <2>4. /\ Picked(s) \in s /\ s \ {Picked(s)} \in SUBSET D
        /\ Cardinality(s \ {Picked(s)}) \in Nat /\ Cardinality(s \ {Picked(s)}) < n
    BY <1>0, <2>2, <2>3, PickOne
  <2>5. g[s \ {Picked(s)}] \in Nat
    BY <2>0, <2>1, <2>4
  <2>6. f[Picked(s)] \in Nat
    BY <2>4
  <2> QED
    BY <1>1, <2>2, <2>3, <2>5, <2>6
<1>3. \A s \in SUBSET D : g[s] \in Nat
  BY <1>0, <1>2
<1>4. g = [s \in SUBSET D |-> g[s]]
  <2> DEFINE h == [s \in SUBSET D |-> IF s = {} THEN 0 ELSE f[Picked(s)] + g[s \ {Picked(s)}]]
  <2>1. g = h
    BY DEF PartialSums
  <2> QED
    BY <2>1
<1> QED
  BY <1>3, <1>4

LEMMA TotalIsSum ==
    ASSUME NEW D, IsFiniteSet(D), NEW f \in [D -> Nat]
    PROVE  \E g : IsSums(g, f, D) /\ SumFunction(f) = g[D]
<1> DEFINE g == CHOOSE g : g = PartialSums(f, g)
<1>1. PICK h \in [SUBSET D -> Nat] : h = PartialSums(f, h)
  BY SumsExist
<1>2. g = PartialSums(f, g)
  BY <1>1
<1>3. SumFunction(f) = g[D]
  BY DEF SumFunction, SumFunctionOnSet, FoldFunctionOnSet, MapThenFoldSet, PartialSums, Picked
<1> HIDE DEF g
<1>4. g \in [SUBSET D -> Nat]
  BY <1>2, SumsAreNumbers
<1> QED
  BY <1>2, <1>3, <1>4 DEF IsSums

\* A total is an entry and the total of the others.
LEMMA TotalSplits ==
    ASSUME NEW D, IsFiniteSet(D), NEW f \in [D -> Nat], NEW x \in D
    PROVE  LET others == [y \in D \ {x} |-> f[y]]
           IN SumFunction(others) \in Nat /\ SumFunction(f) = f[x] + SumFunction(others)
<1> DEFINE E == D \ {x}
           e == [y \in E |-> f[y]]
<1>1. E \subseteq D /\ IsFiniteSet(E) /\ e \in [E -> Nat]
  BY FS_Subset
<1>2. \A y \in E : e[y] = f[y]
  OBVIOUS
<1> HIDE DEF e, E
<1>3. PICK g : IsSums(g, f, D) /\ SumFunction(f) = g[D]
  BY TotalIsSum
<1>4. PICK h : IsSums(h, e, E) /\ SumFunction(e) = h[E]
  BY <1>1, TotalIsSum
<1>5. h[E] = g[E]
  BY <1>1, <1>2, <1>3, <1>4, SumsAgree
<1>6. g[D] = f[x] + g[E]
  <2>1. AnyOrder(g, f, D)
    BY <1>3, SumsAny
  <2>2. D \in SUBSET D
    OBVIOUS
  <2>3. g[D] = f[x] + g[D \ {x}]
    BY Zenon, <2>1, <2>2 DEF AnyOrder
  <2> QED
    BY Zenon, <2>3 DEF E
<1>7. SumFunction(e) \in Nat
  BY <1>4 DEF IsSums
<1> QED
  BY <1>3, <1>4, <1>5, <1>6, <1>7 DEF e, E

\* A total after one entry was changed or added.
LEMMA TotalMoves ==
    ASSUME NEW D, IsFiniteSet(D), NEW f \in [D -> Nat], NEW x, NEW g \in [D \cup {x} -> Nat],
           \A y \in D : y # x => g[y] = f[y]
    PROVE  /\ SumFunction(f) \in Nat
           /\ SumFunction(g) = g[x] + SumFunction(f) - (IF x \in D THEN f[x] ELSE 0)
<1> DEFINE e == [y \in D \ {x} |-> f[y]]
           h == [y \in (D \cup {x}) \ {x} |-> g[y]]
<1>1. e = h
  <2>1. D \ {x} = (D \cup {x}) \ {x}
    OBVIOUS
  <2>2. \A y \in D \ {x} : f[y] = g[y]
    OBVIOUS
  <2> QED
    BY <2>1, <2>2
<1>2. IsFiniteSet(D \cup {x})
  BY FS_AddElement
<1>3. SumFunction(h) \in Nat /\ SumFunction(g) = g[x] + SumFunction(h)
  <2> DEFINE C == D \cup {x}
  <2>1. x \in C /\ IsFiniteSet(C) /\ g \in [C -> Nat]
    BY <1>2
  <2> HIDE DEF C
  <2>2. LET others == [y \in C \ {x} |-> g[y]]
        IN SumFunction(others) \in Nat /\ SumFunction(g) = g[x] + SumFunction(others)
    BY <2>1, TotalSplits
  <2> QED
    BY <2>2 DEF C
<1>4. CASE x \in D
  <2>1. SumFunction(f) = f[x] + SumFunction(e)
    BY <1>4, TotalSplits
  <2>2. f[x] \in Nat /\ g[x] \in Nat
    BY <1>4
  <2> HIDE DEF e, h
  <2> QED
    BY <1>1, <1>3, <1>4, <2>1, <2>2
<1>5. CASE x \notin D
  <2>1. e = f
    <3>1. D \ {x} = D
      BY <1>5
    <3> QED
      BY <3>1
  <2>2. g[x] \in Nat
    OBVIOUS
  <2> HIDE DEF e, h
  <2> QED
    BY <1>1, <1>3, <1>5, <2>1, <2>2
<1> QED
  BY <1>4, <1>5

\* Nothing adds up to nothing.
LEMMA TotalOfNone ==
    ASSUME NEW f \in [{} -> Nat]
    PROVE  SumFunction(f) = 0
<1>1. PICK g : IsSums(g, f, {}) /\ SumFunction(f) = g[{}]
  BY FS_EmptySet, TotalIsSum
<1> QED
  BY <1>1 DEF IsSums, PartialSums

\* g is f with the entry at x added, or grown, by d.
GrowsBy(f, g, D, x, d) ==
    /\ f \in [D -> Nat] /\ g \in [D \cup {x} -> Nat]
    /\ \A y \in D : y # x => g[y] = f[y]
    /\ g[x] = (IF x \in D THEN f[x] ELSE 0) + d

LEMMA TotalGrows ==
    ASSUME NEW D, IsFiniteSet(D), NEW f, NEW g, NEW x, NEW d \in Nat, GrowsBy(f, g, D, x, d)
    PROVE  SumFunction(g) = SumFunction(f) + d
<1>1. /\ SumFunction(f) \in Nat
      /\ SumFunction(g) = g[x] + SumFunction(f) - (IF x \in D THEN f[x] ELSE 0)
  BY TotalMoves DEF GrowsBy
<1>2. (IF x \in D THEN f[x] ELSE 0) \in Nat /\ g[x] = (IF x \in D THEN f[x] ELSE 0) + d
  BY DEF GrowsBy
<1> QED
  BY <1>1, <1>2

\* What a source and a queue were counted for.
AcceptedFrom == [x \in DOMAIN sources |-> sources[x].accepted]
FencedFrom == [x \in DOMAIN sources |-> sources[x].fenced]
AcceptedAt == [q \in DOMAIN queues |-> queues[q].accepted]
PushedAt == [q \in DOMAIN queues |-> Len(queues[q].history) + queues[q].evicted]

\* They are numbers.
Tallied ==
    /\ \A x \in DOMAIN sources : sources[x].accepted \in Nat /\ sources[x].fenced \in Nat
    /\ \A q \in DOMAIN queues : queues[q].accepted \in Nat /\ queues[q].evicted \in Nat

\* The stages of the fencing and the registry leave them alone.
LEMMA StagesKeepTallies ==
    ASSUME Registry, NEW s, IsSample(s), Known(s), ~Superseded(sources[s.source], s)
    PROVE  \A t \in {Stage1(s), Stage2(s), Stage3(s)} :
             t.accepted = sources[s.source].accepted /\ t.fenced = sources[s.source].fenced
<1>1. IsSource(sources[s.source]) /\ IsSource(Stage1(s)) /\ IsSource(Stage2(s))
  BY Stages
<1>2. Stage1(s).accepted = sources[s.source].accepted /\ Stage1(s).fenced = sources[s.source].fenced
  BY <1>1 DEF Stage1, AfterIncarnation, IsSource
<1>3. Stage2(s).accepted = Stage1(s).accepted /\ Stage2(s).fenced = Stage1(s).fenced
  BY <1>1 DEF Stage2, AfterGeneration, IsSource
<1>4. Stage3(s).accepted = Stage2(s).accepted /\ Stage3(s).fenced = Stage2(s).fenced
  BY <1>1 DEF Stage3, AfterAuthority, IsSource
<1> QED
  BY <1>2, <1>3, <1>4

\* The count of a source before the step, none if it is new.
Before(table, x) == IF x \in DOMAIN table THEN table[x] ELSE 0

LEMMA RegisteredTallies ==
    ASSUME Registry, NEW s, IsSample(s), Registers(s)
    PROVE  /\ Registered(s).accepted = Before(AcceptedFrom, s.source)
           /\ Registered(s).fenced = Before(FencedFrom, s.source)
<1> DEFINE r == IF Known(s) THEN Stage3(s) ELSE NewSource(s)
<1>1. CASE Known(s)
  <2>1. ~Superseded(sources[s.source], s)
    BY <1>1 DEF Registers, FencesPass
  <2>2. /\ Stage3(s).accepted = sources[s.source].accepted
        /\ Stage3(s).fenced = sources[s.source].fenced /\ IsSource(Stage3(s))
    BY <1>1, <2>1, Stages, StagesKeepTallies
  <2>3. Registered(s).accepted = Stage3(s).accepted /\ Registered(s).fenced = Stage3(s).fenced
    BY <1>1, <2>2 DEF Registered, IsSource
  <2> QED
    BY <1>1, <2>2, <2>3 DEF Before, AcceptedFrom, FencedFrom, Known
<1>2. CASE ~Known(s)
  BY <1>2 DEF Before, AcceptedFrom, FencedFrom, Known, Registered, NewSource
<1> QED
  BY <1>1, <1>2

\* The step adds to the tallies of a source and to those of a queue.
SourceGrows(x, accepted, fenced) ==
    /\ DOMAIN sources' = DOMAIN sources \cup {x}
    /\ \A y \in DOMAIN sources : y # x => sources'[y] = sources[y]
    /\ sources'[x].accepted = Before(AcceptedFrom, x) + accepted
    /\ sources'[x].fenced = Before(FencedFrom, x) + fenced

QueueGrows(n) ==
    /\ DOMAIN queues' = DOMAIN queues \cup {n}
    /\ \A q \in DOMAIN queues : q # n => queues'[q] = queues[q]
    /\ queues'[n].accepted = Before(AcceptedAt, n) + 1
    /\ Len(queues'[n].history) + queues'[n].evicted = Before(PushedAt, n) + 1
    /\ queues'[n].evicted \in Nat /\ Len(queues'[n].history) \in Nat

\* The counters of the store move by as much.
CountsGrow(accepted, fenced) ==
    /\ counts'.accepted = counts.accepted + accepted /\ counts'.pushed = counts.pushed + accepted
    /\ counts'.fenced = counts.fenced + fenced

LEMMA SourceTotals ==
    ASSUME Tallied, IsFiniteSet(DOMAIN sources), NEW x, NEW a \in Nat, NEW f \in Nat,
           SourceGrows(x, a, f)
    PROVE  /\ \A y \in DOMAIN sources' : sources'[y].accepted \in Nat /\ sources'[y].fenced \in Nat
           /\ SumFunction(AcceptedFrom') = SumFunction(AcceptedFrom) + a
           /\ SumFunction(FencedFrom') = SumFunction(FencedFrom) + f
<1> DEFINE D == DOMAIN sources
           af == AcceptedFrom
           ff == FencedFrom
           ag == AcceptedFrom'
           fg == FencedFrom'
<1>1. /\ af \in [D -> Nat] /\ ff \in [D -> Nat] /\ DOMAIN af = D /\ DOMAIN ff = D
      /\ \A y \in D : af[y] = sources[y].accepted /\ ff[y] = sources[y].fenced
  BY DEF AcceptedFrom, FencedFrom, Tallied
<1>2. Before(af, x) \in Nat /\ Before(ff, x) \in Nat
  BY <1>1 DEF Before
<1>3. \A y \in DOMAIN sources' : sources'[y].accepted \in Nat /\ sources'[y].fenced \in Nat
  BY <1>2 DEF SourceGrows, Tallied
<1>4. /\ ag \in [D \cup {x} -> Nat] /\ fg \in [D \cup {x} -> Nat]
      /\ \A y \in D \cup {x} : ag[y] = sources'[y].accepted /\ fg[y] = sources'[y].fenced
  BY <1>3 DEF AcceptedFrom, FencedFrom, SourceGrows
<1>5. /\ \A y \in D : y # x => ag[y] = af[y] /\ fg[y] = ff[y]
      /\ ag[x] = (IF x \in D THEN af[x] ELSE 0) + a
      /\ fg[x] = (IF x \in D THEN ff[x] ELSE 0) + f
  BY <1>1, <1>4 DEF SourceGrows, Before
<1> HIDE DEF af, ff, ag, fg, D
<1>6. IsFiniteSet(D) /\ GrowsBy(af, ag, D, x, a) /\ GrowsBy(ff, fg, D, x, f)
  BY <1>1, <1>4, <1>5 DEF D, GrowsBy
<1>7. SumFunction(ag) = SumFunction(af) + a
  BY <1>6, TotalGrows
<1>8. SumFunction(fg) = SumFunction(ff) + f
  BY <1>6, TotalGrows
<1> QED
  BY <1>3, <1>7, <1>8 DEF af, ff, ag, fg

LEMMA QueueTotals ==
    ASSUME Tallied, KeptEvidence, IsFiniteSet(DOMAIN queues), NEW n, QueueGrows(n)
    PROVE  /\ \A q \in DOMAIN queues' : queues'[q].accepted \in Nat /\ queues'[q].evicted \in Nat
           /\ SumFunction(AcceptedAt') = SumFunction(AcceptedAt) + 1
           /\ SumFunction(PushedAt') = SumFunction(PushedAt) + 1
<1> DEFINE D == DOMAIN queues
           af == AcceptedAt
           ff == PushedAt
           ag == AcceptedAt'
           fg == PushedAt'
<1>0. \A q \in D : Len(queues[q].history) \in Nat
  BY SequenceShape DEF KeptEvidence
<1>1. /\ af \in [D -> Nat] /\ ff \in [D -> Nat] /\ DOMAIN af = D /\ DOMAIN ff = D
      /\ \A q \in D : /\ af[q] = queues[q].accepted
                      /\ ff[q] = Len(queues[q].history) + queues[q].evicted
  <2>1. \A q \in D : Len(queues[q].history) + queues[q].evicted \in Nat
    BY <1>0 DEF Tallied
  <2> QED
    BY <2>1 DEF AcceptedAt, PushedAt, Tallied
<1>2. Before(af, n) \in Nat /\ Before(ff, n) \in Nat
  BY <1>1 DEF Before
<1>3. \A q \in DOMAIN queues' : /\ queues'[q].accepted \in Nat /\ queues'[q].evicted \in Nat
                                /\ Len(queues'[q].history) \in Nat
  BY <1>0, <1>2 DEF QueueGrows, Tallied
<1>4. /\ ag \in [D \cup {n} -> Nat] /\ fg \in [D \cup {n} -> Nat]
      /\ \A q \in D \cup {n} : /\ ag[q] = queues'[q].accepted
                               /\ fg[q] = Len(queues'[q].history) + queues'[q].evicted
  <2>1. \A q \in DOMAIN queues' : Len(queues'[q].history) + queues'[q].evicted \in Nat
    BY <1>3
  <2>2. DOMAIN queues' = D \cup {n}
    BY DEF QueueGrows
  <2>3. \A q \in D \cup {n} : /\ queues'[q].accepted \in Nat
                              /\ Len(queues'[q].history) + queues'[q].evicted \in Nat
    BY <1>3, <2>1, <2>2
  <2> QED
    BY <2>2, <2>3 DEF AcceptedAt, PushedAt
<1>5. /\ \A q \in D : q # n => ag[q] = af[q] /\ fg[q] = ff[q]
      /\ ag[n] = (IF n \in D THEN af[n] ELSE 0) + 1
      /\ fg[n] = (IF n \in D THEN ff[n] ELSE 0) + 1
  BY <1>1, <1>4 DEF QueueGrows, Before
<1> HIDE DEF af, ff, ag, fg, D
<1>6. IsFiniteSet(D) /\ GrowsBy(af, ag, D, n, 1) /\ GrowsBy(ff, fg, D, n, 1)
  BY <1>1, <1>4, <1>5 DEF D, GrowsBy
<1>7. SumFunction(ag) = SumFunction(af) + 1
  BY <1>6, TotalGrows
<1>8. SumFunction(fg) = SumFunction(ff) + 1
  BY <1>6, TotalGrows
<1> QED
  BY <1>3, <1>7, <1>8 DEF af, ff, ag, fg

\* How many were refused: a fence counts, a rejection does not.
LEMMA RefusalTallies ==
    ASSUME IsCounts(counts)
    PROVE  /\ \A c \in {Rejected, Fenced, [Fenced EXCEPT !.duplicates = @ + 1]} :
                IsCounts(c) /\ c.accepted = counts.accepted /\ c.pushed = counts.pushed
           /\ Rejected.fenced = counts.fenced
           /\ \A c \in {Fenced, [Fenced EXCEPT !.duplicates = @ + 1]} :
                c.fenced = counts.fenced + 1
<1> DEFINE d == [Fenced EXCEPT !.duplicates = @ + 1]
<1>1. IsCounts(Rejected) /\ IsCounts(Fenced) /\ IsCounts(d)
  BY RefusalCounts DEF Settled
<1>2. /\ Rejected.accepted = counts.accepted /\ Rejected.pushed = counts.pushed
      /\ Rejected.fenced = counts.fenced
  BY DEF Rejected, IsCounts
<1>3. /\ Fenced.accepted = counts.accepted /\ Fenced.pushed = counts.pushed
      /\ Fenced.fenced = counts.fenced + 1
  BY DEF Fenced, IsCounts
<1>4. d.accepted = Fenced.accepted /\ d.pushed = Fenced.pushed /\ d.fenced = Fenced.fenced
  BY <1>1 DEF IsCounts
<1> QED
  BY <1>1, <1>2, <1>3, <1>4

\* Reporting a step does not change what it counted.
LEMMA RefusedGrows ==
    ASSUME IsCounts(counts), LogShape, NEW c, IsCounts(c), NEW kinds, IsSequence(kinds),
           Refuse(c, kinds), c.accepted = counts.accepted, c.pushed = counts.pushed
    PROVE  /\ c.fenced = counts.fenced => CountsGrow(0, 0)
           /\ c.fenced = counts.fenced + 1 => CountsGrow(0, 1)
<1>1. counts' = RecordAll(c, kinds)
  BY DEF Refuse
<1>2. /\ counts'.accepted = c.accepted /\ counts'.fenced = c.fenced /\ counts'.pushed = c.pushed
  BY <1>1, Recorded
<1>3. counts.accepted \in Nat /\ counts.fenced \in Nat /\ counts.pushed \in Nat
  BY DEF IsCounts
<1> QED
  BY <1>2, <1>3 DEF CountsGrow

\* A fenced sample is counted against its source.
LEMMA FencedGrows ==
    ASSUME Registry, IsCounts(counts), LogShape, Tallied, NEW s, IsSample(s),
           FenceIncarnation(s) \/ FenceGeneration(s) \/ FenceAuthority(s) \/ FenceSequence(s)
    PROVE  SourceGrows(s.source, 0, 1) /\ CountsGrow(0, 1)
<1>1. Known(s) /\ s.source \in DOMAIN sources /\ IsSource(sources[s.source])
  BY DEF FenceIncarnation, FenceGeneration, FenceAuthority, FenceSequence, Known, Registry
<1>2. \A k \in {<<>>, Stage1Events(s), Stage2Events(s), Stage3Events(s)} :
         \A x : IsSequence(Append(k, x))
  BY RegistryEventsShape, AppendShape, SingletonShape
<1>3. CountsGrow(0, 1)
  <2>1. \E c \in {Fenced, [Fenced EXCEPT !.duplicates = @ + 1]} :
          \E kinds : IsSequence(kinds) /\ Refuse(c, kinds)
    BY <1>2 DEF FenceIncarnation, FenceGeneration, FenceAuthority, FenceSequence, Fence
  <2>2. PICK c \in {Fenced, [Fenced EXCEPT !.duplicates = @ + 1]} :
          \E kinds : IsSequence(kinds) /\ Refuse(c, kinds)
    BY <2>1
  <2>3. /\ IsCounts(c) /\ c.accepted = counts.accepted /\ c.pushed = counts.pushed
        /\ c.fenced = counts.fenced + 1
    BY RefusalTallies
  <2> QED
    BY <2>2, <2>3, RefusedGrows
<1>4. \E r : /\ \/ sources' = [sources EXCEPT ![s.source] = [r EXCEPT !.fenced = @ + 1]]
                \/ sources' = [sources EXCEPT ![s.source] =
                                 [r EXCEPT !.fenced = @ + 1, !.duplicates = @ + 1]]
             /\ IsSource(r) /\ r.accepted = sources[s.source].accepted
             /\ r.fenced = sources[s.source].fenced
  <2>1. CASE FenceIncarnation(s)
    BY <1>1, <2>1 DEF FenceIncarnation, Fence
  <2>2. CASE FenceGeneration(s)
    BY <1>1, <2>2, Stages, StagesKeepTallies DEF FenceGeneration, Fence
  <2>3. CASE FenceAuthority(s)
    BY <1>1, <2>3, Stages, StagesKeepTallies DEF FenceAuthority, Fence
  <2>4. CASE FenceSequence(s)
    BY <1>1, <2>4, Stages, StagesKeepTallies DEF FenceSequence
  <2> QED
    BY <2>1, <2>2, <2>3, <2>4
<1>5. PICK r : /\ \/ sources' = [sources EXCEPT ![s.source] = [r EXCEPT !.fenced = @ + 1]]
                  \/ sources' = [sources EXCEPT ![s.source] =
                                   [r EXCEPT !.fenced = @ + 1, !.duplicates = @ + 1]]
               /\ IsSource(r) /\ r.accepted = sources[s.source].accepted
               /\ r.fenced = sources[s.source].fenced
  BY <1>4
<1>6. PICK t : /\ sources' = [sources EXCEPT ![s.source] = t]
               /\ \/ t = [r EXCEPT !.fenced = @ + 1]
                  \/ t = [r EXCEPT !.fenced = @ + 1, !.duplicates = @ + 1]
  BY <1>5
<1>7. t.accepted = r.accepted /\ t.fenced = r.fenced + 1
  BY <1>5, <1>6 DEF IsSource
<1>8. /\ Before(AcceptedFrom, s.source) = sources[s.source].accepted
      /\ Before(FencedFrom, s.source) = sources[s.source].fenced
      /\ sources[s.source].accepted \in Nat
  BY <1>1 DEF Before, AcceptedFrom, FencedFrom, Tallied
<1>9. /\ DOMAIN sources' = DOMAIN sources \cup {s.source} /\ sources'[s.source] = t
      /\ \A y \in DOMAIN sources : y # s.source => sources'[y] = sources[y]
  BY <1>1, <1>6
<1>10. SourceGrows(s.source, 0, 1)
  BY <1>5, <1>7, <1>8, <1>9 DEF SourceGrows
<1> QED
  BY <1>3, <1>10

\* A rejected one is counted against nobody.
LEMMA RejectedGrows ==
    ASSUME Registry, IsCounts(counts), LogShape, Tallied, NEW s, IsSample(s),
           RejectInvalid(s) \/ RejectSourceLimit(s) \/ RejectQueueLimit(s)
    PROVE  /\ sources' = sources \/ SourceGrows(s.source, 0, 0)
           /\ CountsGrow(0, 0)
<1>1. CountsGrow(0, 0)
  <2>1. \E kinds : IsSequence(kinds) /\ Refuse(Rejected, kinds)
    BY RegistryEventsShape, AppendShape, SingletonShape
       DEF RejectInvalid, RejectSourceLimit, RejectQueueLimit
  <2>2. /\ IsCounts(Rejected) /\ Rejected.accepted = counts.accepted
        /\ Rejected.pushed = counts.pushed /\ Rejected.fenced = counts.fenced
    BY RefusalTallies
  <2> QED
    BY <2>1, <2>2, RefusedGrows
<1>2. ASSUME RejectQueueLimit(s) PROVE SourceGrows(s.source, 0, 0)
  <2>1. Registers(s) /\ sources' = With(sources, s.source, Registered(s))
    BY <1>2 DEF RejectQueueLimit
  <2>2. /\ Registered(s).accepted = Before(AcceptedFrom, s.source)
        /\ Registered(s).fenced = Before(FencedFrom, s.source)
    BY <2>1, RegisteredTallies
  <2>3. /\ DOMAIN sources' = DOMAIN sources \cup {s.source}
        /\ sources'[s.source] = Registered(s)
        /\ \A y \in DOMAIN sources : y # s.source => sources'[y] = sources[y]
    BY <2>1 DEF With
  <2>4. Before(AcceptedFrom, s.source) \in Nat /\ Before(FencedFrom, s.source) \in Nat
    BY DEF Before, AcceptedFrom, FencedFrom, Tallied
  <2> QED
    BY <2>2, <2>3, <2>4 DEF SourceGrows
<1>3. ASSUME RejectInvalid(s) \/ RejectSourceLimit(s) PROVE sources' = sources
  BY <1>3 DEF RejectInvalid, RejectSourceLimit
<1> QED
  BY <1>1, <1>2, <1>3

\* An admitted one is counted once, in its source, its queue and its history.
LEMMA AcceptedGrows ==
    ASSUME PInv, IsCounts(counts), LogShape, Tallied, NEW s, IsSample(s),
           NEW recovered, Accept(s, recovered)
    PROVE  SourceGrows(s.source, 1, 0) /\ QueueGrows(s.queue) /\ CountsGrow(1, 0)
<1>0. Registry /\ KeptEvidence /\ TableShapes
  BY DEF PInv, SInv
<1>1. CountsGrow(1, 0)
  <2>1. PICK c, kinds : /\ IsCounts(c) /\ Records(c, kinds)
                        /\ c.accepted = counts.accepted + 1 /\ c.pushed = counts.pushed + 1
                        /\ c.fenced = counts.fenced
    BY AcceptedCounts DEF Settled
  <2>2. counts'.accepted = c.accepted /\ counts'.fenced = c.fenced /\ counts'.pushed = c.pushed
    BY <2>1, Recorded DEF Records
  <2>3. counts.fenced \in Nat
    BY DEF IsCounts
  <2> QED
    BY <2>1, <2>2, <2>3 DEF CountsGrow
<1>2. SourceGrows(s.source, 1, 0)
  <2> DEFINE g == Registered(s)
             t == [g EXCEPT !.accepted = @ + 1]
  <2>1. Registers(s) /\ sources' = With(sources, s.source, t)
    BY DEF Accept
  <2>2. /\ g.accepted = Before(AcceptedFrom, s.source)
        /\ g.fenced = Before(FencedFrom, s.source) /\ IsSource(g)
    BY <1>0, <2>1, RegisteredTallies, RegisteredRecord
  <2> HIDE DEF g
  <2>3. t.accepted = g.accepted + 1 /\ t.fenced = g.fenced
    BY <2>2 DEF IsSource
  <2> HIDE DEF t
  <2>4. /\ DOMAIN sources' = DOMAIN sources \cup {s.source} /\ sources'[s.source] = t
        /\ \A y \in DOMAIN sources : y # s.source => sources'[y] = sources[y]
    BY <2>1 DEF With
  <2>5. Before(FencedFrom, s.source) \in Nat
    BY DEF Before, FencedFrom, Tallied
  <2> QED
    BY <2>2, <2>3, <2>4, <2>5 DEF SourceGrows
<1>3. QueueGrows(s.queue)
  <2> DEFINE q == Queue(s.queue)
             h == q.history
  <2>1. PICK p, conflict, e : queues' = With(queues, s.queue, QueueAfter(q, s, p, conflict, e))
    BY Zenon DEF Accept
  <2> DEFINE r == QueueAfter(q, s, p, conflict, e)
             a == Append(h, e)
             k == IF Len(a) <= MaxSamplesPerQueue THEN 0 ELSE Len(a) - MaxSamplesPerQueue
  <2>2. /\ r.accepted = q.accepted + 1
        /\ r.evicted = q.evicted + One(Len(h) >= MaxSamplesPerQueue)
        /\ r.history = Newest(a, MaxSamplesPerQueue)
    BY DEF QueueAfter
  <2> HIDE DEF r
  <2>3. /\ DOMAIN queues' = DOMAIN queues \cup {s.queue} /\ queues'[s.queue] = r
        /\ \A n \in DOMAIN queues : n # s.queue => queues'[n] = queues[n]
    BY <2>1 DEF With, r
  <2>4. /\ IsSequence(h) /\ Len(h) \in Nat /\ Len(h) <= MaxSamplesPerQueue
        /\ q.evicted \in Nat /\ q.accepted \in Nat
        /\ q.accepted = Before(AcceptedAt, s.queue)
        /\ Len(h) + q.evicted = Before(PushedAt, s.queue)
    <3>1. CASE Tracked(s.queue)
      <4>1. q = queues[s.queue] /\ s.queue \in DOMAIN queues
        BY <3>1 DEF Queue, Tracked
      <4>2. IsSequence(h) /\ Len(h) \in Nat /\ Len(h) <= MaxSamplesPerQueue
        BY <1>0, <4>1, StoreAssumption, SequenceShape DEF KeptEvidence, TableShapes
      <4> QED
        BY <4>1, <4>2 DEF Before, AcceptedAt, PushedAt, Tallied
    <3>2. CASE ~Tracked(s.queue)
      <4>1. q.history = <<>> /\ q.evicted = 0 /\ q.accepted = 0
        BY <3>2 DEF Queue, NewQueue
      <4>2. Before(AcceptedAt, s.queue) = 0 /\ Before(PushedAt, s.queue) = 0
        BY <3>2 DEF Before, AcceptedAt, PushedAt, Tracked
      <4>3. IsSequence(h) /\ Len(h) = 0
        BY <1>0, <4>1, QueueBefore
      <4>4. MaxSamplesPerQueue \in Nat
        BY StoreAssumption
      <4> QED
        BY <4>1, <4>2, <4>3, <4>4
    <3> QED
      BY <3>1, <3>2
  <2> HIDE DEF q
  <2>5. IsSequence(a) /\ Len(a) = Len(h) + 1
    BY <2>4, AppendShape
  <2> HIDE DEF a
  <2>6. MaxSamplesPerQueue \in Nat \ {0}
    BY StoreAssumption
  <2>7. k \in Nat /\ Len(r.history) = Len(a) - k /\ Len(r.history) \in Nat
    BY <2>2, <2>5, <2>6, NewestEntries, SequenceShape
  <2>8. One(Len(h) >= MaxSamplesPerQueue) = k
    BY <2>4, <2>5, <2>6 DEF One
  <2> HIDE DEF k, h
  <2>9. r.evicted = q.evicted + k /\ r.evicted \in Nat
    BY <2>2, <2>4, <2>7, <2>8
  <2>10. Len(r.history) + r.evicted = Len(h) + q.evicted + 1
    BY <2>4, <2>5, <2>7, <2>9
  <2> QED
    BY <2>2, <2>3, <2>4, <2>7, <2>9, <2>10 DEF QueueGrows
<1> QED
  BY <1>1, <1>2, <1>3

\* The totals, and the numbers they are made of.
TInv == CInv /\ Tallied /\ Totals

\* Totals by the names used above.
LEMMA TotalsByTable ==
    Totals <=> /\ counts.accepted = SumFunction(AcceptedFrom)
               /\ counts.fenced = SumFunction(FencedFrom)
               /\ counts.accepted = SumFunction(AcceptedAt)
               /\ counts.pushed = SumFunction(PushedAt)
BY DEF Totals, AcceptedFrom, FencedFrom, AcceptedAt, PushedAt

\* A step that leaves every table alone.
LEMMA TotalsUnmoved ==
    ASSUME Tallied, Totals, UNCHANGED <<sources, queues>>,
           counts'.accepted = counts.accepted, counts'.pushed = counts.pushed,
           counts'.fenced = counts.fenced
    PROVE  Tallied' /\ Totals'
BY DEF Tallied, Totals

LEMMA TotalsPresented ==
    ASSUME TInv, NEW s, IsSample(s), Presents(s)
    PROVE  TInv'
<1>0. /\ CInv /\ Tallied /\ Totals /\ PInv /\ Registry /\ KeptEvidence /\ TableShapes
      /\ IsCounts(counts) /\ LogShape
      /\ IsFiniteSet(DOMAIN sources) /\ IsFiniteSet(DOMAIN queues)
  BY DEF TInv, CInv, PInv, SInv, TableShapes
<1>1. CInv'
  BY <1>0, ConflictsPresented
<1>2. /\ counts.accepted \in Nat /\ counts.fenced \in Nat /\ counts.pushed \in Nat
      /\ counts.accepted = SumFunction(AcceptedFrom) /\ counts.fenced = SumFunction(FencedFrom)
      /\ counts.accepted = SumFunction(AcceptedAt) /\ counts.pushed = SumFunction(PushedAt)
  BY <1>0, TotalsByTable DEF IsCounts
<1>3. ASSUME NEW a \in Nat, NEW f \in Nat, CountsGrow(a, f),
             SourceGrows(s.source, a, f) \/ (sources' = sources /\ a = 0 /\ f = 0),
             (QueueGrows(s.queue) /\ a = 1) \/ (queues' = queues /\ a = 0)
      PROVE  Tallied' /\ Totals'
  <2>1. /\ \A y \in DOMAIN sources' : sources'[y].accepted \in Nat /\ sources'[y].fenced \in Nat
        /\ SumFunction(AcceptedFrom)' = SumFunction(AcceptedFrom) + a
        /\ SumFunction(FencedFrom)' = SumFunction(FencedFrom) + f
    <3>1. CASE SourceGrows(s.source, a, f)
      BY <1>0, <3>1, SourceTotals
    <3>2. CASE sources' = sources /\ a = 0 /\ f = 0
      <4>1. AcceptedFrom' = AcceptedFrom /\ FencedFrom' = FencedFrom
        BY <3>2 DEF AcceptedFrom, FencedFrom
      <4>2. /\ SumFunction(AcceptedFrom)' = SumFunction(AcceptedFrom)
            /\ SumFunction(FencedFrom)' = SumFunction(FencedFrom)
        BY Zenon, <4>1
      <4>3. \A y \in DOMAIN sources' : sources'[y].accepted \in Nat /\ sources'[y].fenced \in Nat
        BY <1>0, <3>2 DEF Tallied
      <4>4. SumFunction(AcceptedFrom) \in Nat /\ SumFunction(FencedFrom) \in Nat
        BY <1>2
      <4>5. SumFunction(AcceptedFrom)' = SumFunction(AcceptedFrom) + a
        BY <3>2, <4>2, <4>4
      <4>6. SumFunction(FencedFrom)' = SumFunction(FencedFrom) + f
        BY <3>2, <4>2, <4>4
      <4> QED
        BY <4>3, <4>5, <4>6
    <3> QED
      BY <1>3, <3>1, <3>2
  <2>2. /\ \A q \in DOMAIN queues' : queues'[q].accepted \in Nat /\ queues'[q].evicted \in Nat
        /\ SumFunction(AcceptedAt)' = SumFunction(AcceptedAt) + a
        /\ SumFunction(PushedAt)' = SumFunction(PushedAt) + a
    <3>1. CASE QueueGrows(s.queue) /\ a = 1
      BY <1>0, <3>1, QueueTotals
    <3>2. CASE queues' = queues /\ a = 0
      <4>1. AcceptedAt' = AcceptedAt /\ PushedAt' = PushedAt
        BY <3>2 DEF AcceptedAt, PushedAt
      <4>2. /\ SumFunction(AcceptedAt)' = SumFunction(AcceptedAt)
            /\ SumFunction(PushedAt)' = SumFunction(PushedAt)
        BY Zenon, <4>1
      <4>3. \A q \in DOMAIN queues' : queues'[q].accepted \in Nat /\ queues'[q].evicted \in Nat
        BY <1>0, <3>2 DEF Tallied
      <4> QED
        BY <1>2, <3>2, <4>2, <4>3
    <3> QED
      BY <1>3, <3>1, <3>2
  <2>3. /\ counts'.accepted = SumFunction(AcceptedFrom)'
        /\ counts'.fenced = SumFunction(FencedFrom)'
        /\ counts'.accepted = SumFunction(AcceptedAt)'
        /\ counts'.pushed = SumFunction(PushedAt)'
    BY <1>2, <1>3, <2>1, <2>2 DEF CountsGrow
  <2>4. Totals'
    BY <2>3 DEF Totals, AcceptedFrom, FencedFrom, AcceptedAt, PushedAt
  <2> QED
    BY <2>1, <2>2, <2>4 DEF Tallied
<1>4. CASE FenceIncarnation(s) \/ FenceGeneration(s) \/ FenceAuthority(s) \/ FenceSequence(s)
  <2>1. SourceGrows(s.source, 0, 1) /\ CountsGrow(0, 1) /\ queues' = queues
    BY <1>0, <1>4, FencedGrows, FencedRegistry
  <2> QED
    BY <1>1, <1>3, <2>1 DEF TInv
<1>5. CASE RejectInvalid(s) \/ RejectSourceLimit(s) \/ RejectQueueLimit(s)
  <2>1. sources' = sources \/ SourceGrows(s.source, 0, 0)
    BY <1>0, <1>5, RejectedGrows
  <2>2. CountsGrow(0, 0)
    BY <1>0, <1>5, RejectedGrows
  <2>3. queues' = queues
    BY <1>5 DEF RejectInvalid, RejectSourceLimit, RejectQueueLimit, Refuse
  <2> QED
    BY <1>1, <1>3, <2>1, <2>2, <2>3 DEF TInv
<1>6. ASSUME NEW recovered, Accept(s, recovered) PROVE TInv'
  <2>1. SourceGrows(s.source, 1, 0) /\ QueueGrows(s.queue) /\ CountsGrow(1, 0)
    BY <1>0, <1>6, AcceptedGrows
  <2> QED
    BY <1>1, <1>3, <2>1 DEF TInv
<1> QED
  BY <1>4, <1>5, <1>6 DEF Presents

LEMMA TInvHolds == Spec => []TInv
<1>1. Init => Tallied /\ Totals
  <2> SUFFICES ASSUME Init PROVE Tallied /\ Totals
    OBVIOUS
  <2>1. /\ DOMAIN sources = {} /\ DOMAIN queues = {}
        /\ counts.accepted = 0 /\ counts.fenced = 0 /\ counts.pushed = 0
    BY DEF Init
  <2>2. /\ AcceptedFrom \in [{} -> Nat] /\ FencedFrom \in [{} -> Nat]
        /\ AcceptedAt \in [{} -> Nat] /\ PushedAt \in [{} -> Nat]
    BY <2>1 DEF AcceptedFrom, FencedFrom, AcceptedAt, PushedAt
  <2>3. Totals
    BY <2>1, <2>2, TotalOfNone, TotalsByTable
  <2> QED
    BY <2>1, <2>3 DEF Tallied
<1>2. CInv /\ CInv' /\ Tallied /\ Totals /\ [Next]_vars => Tallied' /\ Totals'
  <2> SUFFICES ASSUME CInv, CInv', Tallied, Totals, [Next]_vars PROVE Tallied' /\ Totals'
    OBVIOUS
  <2>0. TInv /\ IsCounts(counts) /\ LogShape
    BY DEF TInv, CInv
  <2>1. CASE \E s \in Samples : \/ RejectInvalid(s) \/ RejectSourceLimit(s) \/ FenceIncarnation(s)
                                \/ FenceGeneration(s) \/ FenceAuthority(s) \/ FenceSequence(s)
                                \/ RejectQueueLimit(s) \/ AcceptLive(s)
    <3>1. PICK s \in Samples : \/ RejectInvalid(s) \/ RejectSourceLimit(s) \/ FenceIncarnation(s)
                               \/ FenceGeneration(s) \/ FenceAuthority(s) \/ FenceSequence(s)
                               \/ RejectQueueLimit(s) \/ AcceptLive(s)
      BY <2>1
    <3>2. IsSample(s)
      BY StoreAssumption DEF IsSample
    <3>3. Presents(s)
      BY <3>1 DEF Presents, AcceptLive
    <3> QED
      BY <2>0, <3>2, <3>3, TotalsPresented DEF TInv
  <2>2. CASE \E t \in Tables : ApplyMetadata(t) \/ FenceMetadata(t)
    <3>1. PICK c \in {[counts EXCEPT !.updates = @ + 1], [counts EXCEPT !.refused = @ + 1]} :
             \E kinds : Records(c, kinds)
      BY <2>2, SingletonShape DEF ApplyMetadata, FenceMetadata, Records
    <3>2. IsCounts(c)
      BY <2>0, TableCounts DEF Settled
    <3>3. c.accepted = counts.accepted /\ c.pushed = counts.pushed /\ c.fenced = counts.fenced
      BY <2>0 DEF IsCounts
    <3>4. /\ counts'.accepted = c.accepted /\ counts'.pushed = c.pushed
          /\ counts'.fenced = c.fenced
      BY <2>0, <3>1, <3>2, Recorded DEF Records
    <3>5. UNCHANGED <<sources, queues>>
      BY <2>2 DEF ApplyMetadata, FenceMetadata
    <3> QED
      BY <3>3, <3>4, <3>5, TotalsUnmoved
  <2>3. CASE Tick \/ UNCHANGED vars
    <3>1. UNCHANGED <<sources, queues, counts>>
      BY <2>3 DEF Tick, vars
    <3> QED
      BY <3>1, TotalsUnmoved
  <2> QED
    BY <2>1, <2>2, <2>3 DEF Next
<1>3. CInv /\ Tallied /\ Totals => TInv
  BY DEF TInv
<1> QED
  BY <1>1, <1>2, <1>3, CInvHolds, PTL DEF Spec

\* Accounting: every sample is accounted for once, and the totals of the
\* store, its sources, its queues and its histories add up, within the limits.
THEOREM StoreAccounting == Spec => []Accounting
<1>1. TInv => Tallies /\ Totals
  BY DEF TInv, CInv
<1>2. Tallies /\ Totals /\ WithinHistoryLimits => Accounting
  BY DEF Accounting
<1> QED
  BY <1>1, <1>2, TInvHolds, StoreWithinHistoryLimits, PTL
-----------------------------------------------------------------------------
(* Drops inside the evaluation window *)

\* A total covers each of its entries.
LEMMA TotalCovers ==
    ASSUME NEW D, IsFiniteSet(D), NEW f \in [D -> Nat]
    PROVE  SumFunction(f) \in Nat /\ \A x \in D : SumFunction(f) >= f[x]
<1>1. SumFunction(f) \in Nat
  <2>1. PICK g : IsSums(g, f, D) /\ SumFunction(f) = g[D]
    BY TotalIsSum
  <2> QED
    BY <2>1 DEF IsSums
<1>2. ASSUME NEW x \in D PROVE SumFunction(f) >= f[x]
  <2> DEFINE others == [y \in D \ {x} |-> f[y]]
  <2>1. SumFunction(others) \in Nat /\ SumFunction(f) = f[x] + SumFunction(others)
    BY TotalSplits
  <2>2. f[x] \in Nat
    OBVIOUS
  <2> HIDE DEF others
  <2> QED
    BY <2>1, <2>2
<1> QED
  BY <1>1, <1>2

\* A sample reports numbers.
ReportsNumbers(s) == \A f \in DOMAIN s.values : s.values[f] \in Nat

\* The advances a record knows are numbers, of counters in use.
IsMeasured(r) ==
    /\ r.received \in Int /\ DOMAIN r.deltas \subseteq CounterFields
    /\ \A f \in DOMAIN r.deltas : r.deltas[f].known => r.deltas[f].delta \in Nat

\* What the advances of the next sample are computed from.
HasBaselines(q) == \A f \in DOMAIN q.counters : q.counters[f].last_raw \in Nat

\* The advances claimed of a sample's counters, and the next baselines.
LEMMA Advances ==
    ASSUME NEW q, HasBaselines(q), NEW s, ReportsNumbers(s), NEW received
    PROVE  /\ DOMAIN Deltas(q, s, received) = Reported(s)
           /\ \A f \in Reported(s) : Deltas(q, s, received)[f].known
                                       => Deltas(q, s, received)[f].delta \in Nat
           /\ \A f \in DOMAIN Counters(q, s, received) :
                Counters(q, s, received)[f].last_raw \in Nat
<1>1. Modulus \in Nat /\ Word \in Nat /\ Word > 0
  BY CounterAssumption
<1>2. ASSUME NEW f \in Reported(s)
      PROVE  CounterOf(q, f).last_raw \in Nat /\ s.values[f] \in Nat
  BY DEF HasBaselines, ReportsNumbers, CounterOf, NewCounter, Reported
<1>3. ASSUME NEW f \in Reported(s), Deltas(q, s, received)[f].known
      PROVE  Deltas(q, s, received)[f].delta \in Nat
  <2> DEFINE c == CounterOf(q, f)
             raw == s.values[f]
             cont == ContinuityOf(c, raw, s.observed, received)
  <2>1. /\ Deltas(q, s, received)[f].delta = DeltaOf(c, raw, cont)
        /\ YieldsKnownDelta(cont)
    BY <1>3 DEF Deltas
  <2>2. c.last_raw \in Nat /\ raw \in Nat
    BY <1>2
  <2>3. CASE cont = "continuous"
    <3>1. raw > c.last_raw
      BY <2>3 DEF ContinuityOf
    <3>2. DeltaOf(c, raw, cont) = raw - c.last_raw
      BY <2>3 DEF DeltaOf, ForwardDelta
    <3> HIDE DEF c, raw, cont
    <3> QED
      BY <2>1, <2>2, <3>1, <3>2
  <2>4. CASE cont = "wrapped"
    <3>1. DeltaOf(c, raw, cont) = (Modulus - c.last_raw + raw) % Word
      BY <2>4 DEF DeltaOf, WrapDelta
    <3> HIDE DEF c, raw, cont
    <3>2. Modulus - c.last_raw + raw \in Int
      BY <1>1, <2>2
    <3> QED
      BY <1>1, <2>1, <3>1, <3>2
  <2>5. CASE cont = "unchanged"
    <3>1. DeltaOf(c, raw, cont) = 0
      BY <2>5 DEF DeltaOf
    <3> QED
      BY <2>1, <3>1
  <2> QED
    BY <2>1, <2>3, <2>4, <2>5 DEF YieldsKnownDelta
<1>4. ASSUME NEW f \in DOMAIN Counters(q, s, received)
      PROVE  Counters(q, s, received)[f].last_raw \in Nat
  <2>1. CASE f \in Reported(s)
    <3> DEFINE c == CounterOf(q, f)
               u == UpdateCounter(c, s.values[f], s.observed, received)
    <3>1. Counters(q, s, received)[f] = u
      BY <1>4, <2>1 DEF Counters
    <3>2. u.last_raw \in {c.last_raw, s.values[f]}
      BY DEF UpdateCounter
    <3> HIDE DEF u, c
    <3> QED
      BY <1>2, <2>1, <3>1, <3>2 DEF c
  <2>2. CASE f \notin Reported(s)
    <3>1. f \in DOMAIN q.counters /\ Counters(q, s, received)[f] = q.counters[f]
      BY <1>4, <2>2 DEF Counters
    <3> QED
      BY <3>1 DEF HasBaselines
  <2> QED
    BY <2>1, <2>2
<1>5. DOMAIN Deltas(q, s, received) = Reported(s)
  BY DEF Deltas
<1> QED
  BY <1>3, <1>4, <1>5
\* The window's sum of a counter covers every advance known in it, that of the
\* sample itself included, up to the range of 64 bits.
LEMMA WindowCovers ==
    ASSUME NEW q, HasBaselines(q), IsSequence(q.history),
           \A i \in DOMAIN q.history : IsMeasured(q.history[i]),
           NEW s, ReportsNumbers(s), NEW received, NEW f \in CounterFields,
           NEW x \in Nat, x < Word,
           \/ /\ f \in Reported(s) /\ Deltas(q, s, received)[f].known
              /\ Deltas(q, s, received)[f].delta >= x
           \/ \E i \in InWindow(q.history, received - Policy.evaluation_window) :
                /\ f \in DOMAIN q.history[i].deltas /\ q.history[i].deltas[f].known
                /\ q.history[i].deltas[f].delta >= x
    PROVE  Sums(q, s, received)[f].known /\ Sums(q, s, received)[f].delta >= x
<1> DEFINE window == InWindow(q.history, received - Policy.evaluation_window)
           known == {i \in window :
                       f \in DOMAIN q.history[i].deltas /\ q.history[i].deltas[f].known}
           mine == f \in Reported(s) /\ Deltas(q, s, received)[f].known
           own == IF mine THEN Deltas(q, s, received)[f].delta ELSE 0
           past == [i \in known |-> q.history[i].deltas[f].delta]
           total == own + SumFunction(past)
<1>1. Sums(q, s, received)[f] = [known |-> mine \/ known # {}, delta |-> Min({total, Word - 1})]
  BY Zenon DEF Sums
<1>2. own \in Nat
  BY Advances
<1>3. known \subseteq DOMAIN q.history /\ IsFiniteSet(known)
  <2>1. DOMAIN q.history = 1..Len(q.history) /\ Len(q.history) \in Nat
    BY SequenceShape
  <2>2. known \subseteq DOMAIN q.history
    BY DEF InWindow
  <2>3. IsFiniteSet(1..Len(q.history))
    BY <2>1, FS_Interval
  <2> QED
    BY <2>1, <2>2, <2>3, FS_Subset
<1>4. past \in [known -> Nat]
  BY <1>3 DEF IsMeasured
<1>5. SumFunction(past) \in Nat /\ \A i \in known : SumFunction(past) >= past[i]
  BY <1>3, <1>4, TotalCovers
<1>6. (mine \/ known # {}) /\ total \in Nat /\ total >= x
  <2>1. CASE mine /\ Deltas(q, s, received)[f].delta >= x
    <3>1. own >= x
      BY <2>1
    <3> HIDE DEF own, past
    <3> QED
      BY <1>2, <1>5, <2>1, <3>1
  <2>2. CASE \E i \in known : q.history[i].deltas[f].delta >= x
    <3>1. PICK i \in known : q.history[i].deltas[f].delta >= x
      BY <2>2
    <3>2. past[i] >= x /\ past[i] \in Nat
      BY <1>4, <3>1
    <3> HIDE DEF own, past
    <3> QED
      BY <1>2, <1>5, <3>1, <3>2
  <2> QED
    BY <2>1, <2>2
<1>7. Word - 1 \in Nat /\ Word - 1 >= x
  BY CounterAssumption
<1> DEFINE sum == Sums(q, s, received)[f]
<1>8. sum.known = (mine \/ known # {}) /\ sum.delta = Min({total, Word - 1})
  BY <1>1
<1> HIDE DEF mine, known, total, sum
<1>9. Min({total, Word - 1}) \in {total, Word - 1}
  BY <1>6, <1>7, MinOfTwo
<1>10. sum.known /\ sum.delta >= x
  BY <1>6, <1>7, <1>8, <1>9
<1> QED
  BY <1>10 DEF sum

\* What DropsAreReported says of one queue.
ReportsDrops(q) ==
    LET h == q.history
        recent == {i \in DOMAIN h : h[i].received >= h[Len(h)].received - Policy.evaluation_window}
    IN Ascending(h) /\ (\E i \in recent : /\ "drops" \in DOMAIN h[i].deltas
                                          /\ h[i].deltas["drops"].known
                                          /\ h[i].deltas["drops"].delta >= Policy.dropping_at)
       => q.state \in {"dropping", "conflicting", "stale", "unknown"}

LEMMA EveryQueueReports ==
    DropsAreReported <=> \A q \in DOMAIN queues : ReportsDrops(queues[q])
BY DEF DropsAreReported, ReportsDrops, Latest, Last

\* Only a rule before the drop rule outvotes a known drop.
LEMMA DropDecides ==
    ASSUME NEW input, Advanced(input, "drops", Policy.dropping_at)
    PROVE  Classify(input) \in {"dropping", "conflicting", "stale", "unknown"}
BY DEF Classify, Level

\* What the window's sums are computed from.
Measured(q) ==
    /\ HasBaselines(q) /\ IsSequence(q.history)
    /\ \A i \in DOMAIN q.history : IsMeasured(q.history[i])
\* Queue q takes a sample, to which it gives the window's verdict.
LEMMA DropsAdmitted ==
    ASSUME NEW q, Measured(q), NEW s, ReportsNumbers(s), NEW received \in Int,
           NEW e, e.received = received, e.deltas = Deltas(q, s, received),
           NEW input, input.sums = Sums(q, s, received), e.state = Classify(input),
           NEW q2, q2.history = Newest(Append(q.history, e), MaxSamplesPerQueue),
           q2.state = e.state, q2.counters = Counters(q, s, received)
    PROVE  Measured(q2) /\ ReportsDrops(q2)
<1> DEFINE h == q.history
           h2 == q2.history
<1>1. TookEntry(h2, h, e, MaxSamplesPerQueue)
  BY HistoryAfter DEF Measured
<1>2. PICK k \in Nat :
        /\ Len(h2) + k = Len(h) + 1
        /\ \A i \in DOMAIN h2 : i # Len(h2) => i + k \in DOMAIN h /\ h2[i] = h[i + k]
  BY <1>1 DEF TookEntry
<1>3. /\ IsSequence(h2) /\ DOMAIN h2 = 1..Len(h2) /\ Len(h2) \in Nat /\ Len(h2) >= 1
      /\ h2[Len(h2)] = e /\ DOMAIN h = 1..Len(h) /\ Len(h) \in Nat
  <2>1. Len(h2) \in 1..MaxSamplesPerQueue /\ IsSequence(h2) /\ h2[Len(h2)] = e
    BY <1>1 DEF TookEntry
  <2> QED
    BY <2>1, SequenceShape DEF Measured
<1>4. IsMeasured(e)
  <2>1. DOMAIN e.deltas = Reported(s)
        /\ \A f \in Reported(s) : e.deltas[f].known => e.deltas[f].delta \in Nat
    BY Advances DEF Measured
  <2> QED
    BY <2>1 DEF IsMeasured, Reported
<1>5. \A i \in DOMAIN h2 : IsMeasured(h2[i])
  <2> HIDE DEF h2
  <2> QED
    BY <1>2, <1>3, <1>4 DEF Measured
<1>6. HasBaselines(q2)
  BY Advances DEF Measured, HasBaselines
<1>7. Measured(q2)
  BY <1>3, <1>5, <1>6 DEF Measured
<1>8. ASSUME Ascending(h2), NEW i \in DOMAIN h2,
             h2[i].received >= h2[Len(h2)].received - Policy.evaluation_window,
             "drops" \in DOMAIN h2[i].deltas, h2[i].deltas["drops"].known,
             h2[i].deltas["drops"].delta >= Policy.dropping_at
      PROVE  e.state \in {"dropping", "conflicting", "stale", "unknown"}
  <2> DEFINE cutoff == received - Policy.evaluation_window
             found == \/ /\ "drops" \in Reported(s) /\ Deltas(q, s, received)["drops"].known
                         /\ Deltas(q, s, received)["drops"].delta >= Policy.dropping_at
                      \/ \E j \in InWindow(h, cutoff) :
                           /\ "drops" \in DOMAIN h[j].deltas /\ h[j].deltas["drops"].known
                           /\ h[j].deltas["drops"].delta >= Policy.dropping_at
  <2>1. "drops" \in CounterFields
    BY <1>5, <1>8 DEF IsMeasured
  <2>2. ASSUME i = Len(h2) PROVE found
    <3>1. h2[i] = e /\ DOMAIN e.deltas = Reported(s)
      BY <1>3, <2>2, Advances DEF Measured
    <3> QED
      BY <1>8, <3>1
  <2>3. ASSUME i # Len(h2) PROVE found
    <3>1. i + k \in DOMAIN h /\ h2[i] = h[i + k]
      BY <1>2, <1>8, <2>3
    <3>2. ASSUME NEW j \in (i + k)..Len(h) PROVE h[j].received >= cutoff
      <4>1. i \in Nat /\ i < Len(h2)
        BY <1>3, <1>8, <2>3
      <4>2. j - k \in DOMAIN h2 /\ i <= j - k /\ j - k < Len(h2) /\ j = (j - k) + k
        BY <1>2, <1>3, <3>2, <4>1
      <4>3. h2[j - k] = h[j]
        BY <1>2, <1>3, <4>2
      <4>4. h2[i].received <= h2[j - k].received
        <5>1. CASE i = j - k
          BY <1>5, <1>8, <5>1 DEF IsMeasured
        <5>2. CASE i # j - k
          BY <1>8, <4>1, <4>2, <5>2 DEF Ascending
        <5> QED
          BY <5>1, <5>2
      <4>5. h2[i].received >= cutoff
        BY <1>3, <1>8
      <4>6. h2[i].received \in Int /\ h2[j - k].received \in Int
        BY <1>5, <1>8, <4>2 DEF IsMeasured
      <4>7. cutoff \in Int
        <5>1. Policy.evaluation_window \in Nat
          BY StoreAssumption
        <5> QED
          BY <5>1
      <4> HIDE DEF cutoff
      <4> QED
        BY <4>3, <4>4, <4>5, <4>6, <4>7
    <3>3. i + k \in InWindow(h, cutoff)
      BY <3>1, <3>2 DEF InWindow
    <3> QED
      BY <1>8, <3>1, <3>3
  <2>4. found
    BY <2>2, <2>3
  <2>5. Policy.dropping_at \in Nat /\ Policy.dropping_at < Word
    BY PolicyAssumption, CounterAssumption
  <2>6. Sums(q, s, received)["drops"].known
        /\ Sums(q, s, received)["drops"].delta >= Policy.dropping_at
    BY <2>1, <2>4, <2>5, WindowCovers DEF Measured
  <2>7. Advanced(input, "drops", Policy.dropping_at)
    BY <2>1, <2>6 DEF Advanced
  <2> QED
    BY <2>7, DropDecides
<1> QED
  BY <1>7, <1>8 DEF ReportsDrops

\* The invariant: the clock and the queues have numbers, and every queue
\* reports its drops.
DropsInv ==
    now \in Nat /\ \A q \in DOMAIN queues : Measured(queues[q]) /\ ReportsDrops(queues[q])

\* It is kept by every admission, live or read back,
LEMMA DropsAccepted ==
    ASSUME DropsInv, NEW s, NEW recovered, Accept(s, recovered),
           ReportsNumbers(s), Received(s, recovered) \in Int
    PROVE  DropsInv'
<1> DEFINE received == Received(s, recovered)
           a == Assess(s, recovered)
           q == Queue(s.queue)
           p == Peer(s, received)
           deltas == Deltas(q, s, received)
           Input(conflict) == [values |-> s.values, quality |-> a.quality,
                               freshness |-> a.freshness, conflict |-> conflict,
                               sums |-> Sums(q, s, received)]
<1>2. PICK conflict :
        queues' = With(queues, s.queue, QueueAfter(q, s, p, conflict,
                    RecordOf(s, received, a, deltas, Classify(Input(conflict)))))
  BY Zenon DEF Accept
<1>3. now' = now
  BY DEF Accept
<1>4. received \in Int
  OBVIOUS
<1>5. Measured(q)
  <2>1. CASE Tracked(s.queue)
    BY <2>1 DEF DropsInv, Queue, Tracked
  <2>2. CASE ~Tracked(s.queue)
    <3>1. q.history = <<>> /\ DOMAIN q.counters = {}
      BY <2>2 DEF Queue, NewQueue
    <3> QED
      BY <3>1 DEF Measured, HasBaselines, IsSequence
  <2> QED
    BY <2>1, <2>2
<1> DEFINE input == Input(conflict)
           e == RecordOf(s, received, a, deltas, Classify(input))
           q2 == QueueAfter(q, s, p, conflict, e)
<1>6. e.received = received /\ e.deltas = deltas /\ e.state = Classify(input)
  BY DEF RecordOf
<1>7. input.sums = Sums(q, s, received)
  OBVIOUS
<1> HIDE DEF e, input
<1>8. /\ q2.history = Newest(Append(q.history, e), MaxSamplesPerQueue)
      /\ q2.state = e.state /\ q2.counters = Counters(q, s, received)
  BY <1>6 DEF QueueAfter
<1>9. queues' = With(queues, s.queue, q2)
  BY <1>2 DEF e, input
<1> HIDE DEF q2, q, received, deltas
<1>10. Measured(q2) /\ ReportsDrops(q2)
  BY <1>4, <1>5, <1>6, <1>7, <1>8, DropsAdmitted DEF deltas
<1> QED
  BY <1>3, <1>9, <1>10 DEF DropsInv, With

\* and by every refusal.
LEMMA DropsRefused ==
    ASSUME DropsInv, NEW s,
           \/ RejectInvalid(s) \/ RejectSourceLimit(s) \/ FenceIncarnation(s)
           \/ FenceGeneration(s) \/ FenceAuthority(s) \/ FenceSequence(s)
           \/ RejectQueueLimit(s)
    PROVE  DropsInv'
<1>1. queues' = queues /\ now' = now
  BY DEF RejectInvalid, RejectSourceLimit, FenceIncarnation, FenceGeneration, FenceAuthority,
         FenceSequence, RejectQueueLimit, Fence, Refuse
<1> QED
  BY <1>1 DEF DropsInv

\* DropsAreReported, for the store of one process: a drop that the counters show
\* inside the evaluation window decides the state, whatever else was admitted,
\* refused or evicted, unless a rule before the drop rule of classify does.
THEOREM StoreDropsAreReported == Spec => []DropsAreReported
<1>1. Init => DropsInv
  BY StoreAssumption DEF Init, DropsInv
<1>2. DropsInv /\ [Next]_vars => DropsInv'
  <2> SUFFICES ASSUME DropsInv, [Next]_vars PROVE DropsInv'
    OBVIOUS
  <2>1. ASSUME NEW s \in Samples, AcceptLive(s) PROVE DropsInv'
    <3>1. Received(s, FALSE) \in Int /\ ReportsNumbers(s)
      BY StoreAssumption DEF ReportsNumbers, Received, DropsInv
    <3> QED
      BY <2>1, <3>1, DropsAccepted DEF AcceptLive
  <2>2. CASE queues' = queues /\ now' \in Nat
    BY <2>2 DEF DropsInv
  <2>3. CASE \E t \in Tables : ApplyMetadata(t) \/ FenceMetadata(t)
    BY <2>2, <2>3 DEF ApplyMetadata, FenceMetadata, DropsInv
  <2>4. CASE Tick \/ UNCHANGED vars
    BY <2>2, <2>4 DEF Tick, vars, DropsInv
  <2> QED
    BY <2>1, <2>3, <2>4, DropsRefused DEF Next
<1>3. DropsInv => DropsAreReported
  BY EveryQueueReports DEF DropsInv
<1> QED
  BY <1>1, <1>2, <1>3, PTL DEF Spec
=============================================================================
