-------------------------- MODULE Transport_proofs --------------------------
(***************************************************************************)
(* Proofs about the ingest server and its clients, for any number of       *)
(* peers, workers and requests, every script of a raw peer and every way   *)
(* recv may cut the stream: frames are handled in order, batches reported  *)
(* applied were ingested once, and answers fit requests.                   *)
(***************************************************************************)
EXTENDS Transport, SequenceTheorems, FiniteSetTheorems, TLAPS

-----------------------------------------------------------------------------
(* The stream of units a peer sends *)

Frame == [type : FrameTypes, n : Nat]
Unit == Frame \X {"header", "payload"}

HasPayload(type) == type \notin {"Bye", "StatusRequest"}

\* The frame a peer that sent frames of types s sent as its i-th.
FrameAt(s, i) == [type |-> s[i], n |-> i]

UnitsOf(s) == {<<FrameAt(s, i), part>> : i \in 1..Len(s), part \in {"header", "payload"}}

\* Unit y comes right after unit x.
Follows(s, x, y) ==
    IF x[2] = "header" /\ HasPayload(x[1].type) THEN y = <<x[1], "payload">>
    ELSE x[1].n < Len(s) /\ y = <<FrameAt(s, x[1].n + 1), "header">>

\* u is what a peer that sent s sent from its i-th frame on, or a first part of
\* it.
Stream(s, u, i) ==
    /\ u \in Seq(Unit) /\ i \in 1..(Len(s) + 1)
    /\ u # <<>> => i <= Len(s) /\ u[1] = <<FrameAt(s, i), "header">>
    /\ \A k \in 1..Len(u) : u[k] \in UnitsOf(s)
    /\ \A k \in 1..(Len(u) - 1) : Follows(s, u[k], u[k + 1])

\* ... and the whole of it.
Whole(s, u, i) ==
    IF u = <<>> THEN i = Len(s) + 1
    ELSE LET x == u[Len(u)] IN x[1].n = Len(s) /\ (x[2] = "header" => ~HasPayload(x[1].type))

LEMMA StreamEmpty ==
    ASSUME NEW s \in Seq(FrameTypes)
    PROVE  Stream(s, <<>>, Len(s) + 1) /\ Whole(s, <<>>, Len(s) + 1)
  BY DEF Stream, Whole

\* A first part of a stream is one.
LEMMA StreamCut ==
    ASSUME NEW s \in Seq(FrameTypes), NEW u \in Seq(Unit), NEW v \in Seq(Unit), NEW i,
           Stream(s, u \o v, i)
    PROVE  Stream(s, u, i)
  <1> DEFINE w == u \o v
  <1>1. w \in Seq(Unit) /\ Len(u) <= Len(w) /\ (\A k \in 1..Len(u) : w[k] = u[k])
        /\ Len(u) \in Nat /\ Len(w) \in Nat
    OBVIOUS
  <1> HIDE DEF w
  <1>2. Stream(s, w, i)
    BY DEF w
  <1>3. u # <<>> => w # <<>> /\ u[1] = w[1]
    BY <1>1
  <1>4. \A k \in 1..(Len(u) - 1) : k \in 1..(Len(w) - 1) /\ u[k] = w[k] /\ u[k + 1] = w[k + 1]
    BY <1>1
  <1> QED BY <1>1, <1>2, <1>3, <1>4 DEF Stream

\* c holds what a holds, then what b holds.
Concat(a, b, c) ==
    /\ Len(c) = Len(a) + Len(b)
    /\ \A i \in 1..Len(a) : c[i] = a[i]
    /\ \A i \in 1..Len(b) : c[Len(a) + i] = b[i]

LEMMA Concatenated ==
    ASSUME NEW S, NEW a \in Seq(S), NEW b \in Seq(S)
    PROVE  a \o b \in Seq(S) /\ Concat(a, b, a \o b)
  BY DEF Concat

\* Concatenation is associative.
LEMMA Joined ==
    ASSUME NEW S, NEW a \in Seq(S), NEW b \in Seq(S), NEW c \in Seq(S),
           NEW ab \in Seq(S), Concat(a, b, ab), NEW bc \in Seq(S), Concat(b, c, bc),
           NEW l \in Seq(S), Concat(ab, c, l), NEW r \in Seq(S), Concat(a, bc, r)
    PROVE  l = r
  <1>1. Len(a) \in Nat /\ Len(b) \in Nat /\ Len(c) \in Nat
    OBVIOUS
  <1>2. Len(ab) = Len(a) + Len(b) /\ Len(bc) = Len(b) + Len(c) /\ Len(l) = Len(ab) + Len(c)
        /\ Len(r) = Len(a) + Len(bc)
    BY DEF Concat
  <1>3. Len(l) = Len(r)
    BY <1>1, <1>2
  <1>4. ASSUME NEW i \in 1..Len(l) PROVE l[i] = r[i]
    <2>1. CASE i <= Len(a)
      <3>1. i \in 1..Len(a) /\ i \in 1..Len(ab)
        BY <1>1, <1>2, <2>1
      <3> QED BY <3>1 DEF Concat
    <2>2. CASE i > Len(a) /\ i <= Len(a) + Len(b)
      <3>1. PICK j \in 1..Len(b) : i = Len(a) + j /\ i \in 1..Len(ab) /\ j \in 1..Len(bc)
        <4>1. i - Len(a) \in 1..Len(b) /\ i = Len(a) + (i - Len(a)) /\ i \in 1..Len(ab)
              /\ i - Len(a) \in 1..Len(bc)
          BY <1>1, <1>2, <2>2
        <4> QED BY <4>1
      <3>2. l[i] = ab[i] /\ ab[Len(a) + j] = b[j]
        BY <3>1 DEF Concat
      <3>3. r[Len(a) + j] = bc[j] /\ bc[j] = b[j]
        BY <3>1 DEF Concat
      <3> QED BY <3>1, <3>2, <3>3
    <2>3. CASE i > Len(a) + Len(b)
      <3>1. PICK j \in 1..Len(c) : i = Len(ab) + j /\ i = Len(a) + (Len(b) + j)
                                   /\ Len(b) + j \in 1..Len(bc)
        <4> DEFINE j == i - (Len(a) + Len(b))
        <4>1. j \in 1..Len(c) /\ i = Len(ab) + j /\ i = Len(a) + (Len(b) + j)
              /\ Len(b) + j \in 1..Len(bc)
          BY <1>1, <1>2, <2>3
        <4> QED BY <4>1
      <3>2. l[Len(ab) + j] = c[j] /\ bc[Len(b) + j] = c[j]
        BY <3>1 DEF Concat
      <3>3. r[Len(a) + (Len(b) + j)] = bc[Len(b) + j]
        BY <3>1 DEF Concat
      <3> QED BY <3>1, <3>2, <3>3
    <2> QED BY <1>1, <2>1, <2>2, <2>3
  <1> QED BY <1>3, <1>4, SeqEqual

LEMMA Regrouped ==
    ASSUME NEW a \in Seq(Unit), NEW b \in Seq(Unit), NEW c \in Seq(Unit)
    PROVE  (a \o b) \o c = a \o (b \o c)
  <1>1. PICK ab \in Seq(Unit) : ab = a \o b /\ Concat(a, b, ab)
    BY Concatenated
  <1>2. PICK bc \in Seq(Unit) : bc = b \o c /\ Concat(b, c, bc)
    BY Concatenated
  <1>3. PICK l \in Seq(Unit) : l = ab \o c /\ Concat(ab, c, l)
    BY Concatenated
  <1>4. PICK r \in Seq(Unit) : r = a \o bc /\ Concat(a, bc, r)
    BY Concatenated
  <1>5. l = r
    <2>1. Concat(a, b, ab) /\ Concat(b, c, bc) /\ Concat(ab, c, l) /\ Concat(a, bc, r)
      BY <1>1, <1>2, <1>3, <1>4
    <2> QED BY <2>1, Joined
  <1> QED BY <1>1, <1>2, <1>3, <1>4, <1>5

\* What recv has taken and what it has left make up what there was.
LEMMA ReceiveSplits ==
    ASSUME NEW u \in Seq(Unit), NEW v \in Seq(Unit), NEW k \in 1..Len(v)
    PROVE  /\ u \o SubSeq(v, 1, k) \in Seq(Unit) /\ SubSeq(v, k + 1, Len(v)) \in Seq(Unit)
           /\ Len(u \o SubSeq(v, 1, k)) = Len(u) + k
           /\ (u \o SubSeq(v, 1, k)) \o SubSeq(v, k + 1, Len(v)) = u \o v
  <1> DEFINE a == SubSeq(v, 1, k)
             b == SubSeq(v, k + 1, Len(v))
  <1>1. a \in Seq(Unit) /\ Len(a) = k /\ b \in Seq(Unit)
    BY SubSeqProperties
  <1>2. a \o b = v
    BY ConcatAdjacentSubSeq, SubSeqFull
  <1> HIDE DEF a, b
  <1>3. (u \o a) \o b = u \o (a \o b)
    BY <1>1, Regrouped
  <1>4. u \o a \in Seq(Unit) /\ Len(u \o a) = Len(u) + Len(a)
    BY <1>1, Concatenated DEF Concat
  <1> QED BY <1>1, <1>2, <1>3, <1>4 DEF a, b

\* Taking the first frame off a stream leaves the stream from the next one on.
LEMMA StreamConsume ==
    ASSUME NEW s \in Seq(FrameTypes), NEW u, NEW i, Stream(s, u, i), u # <<>>,
           NEW m, m = Len(Units(u[1][1])), m <= Len(u)
    PROVE  LET v == SubSeq(u, m + 1, Len(u)) IN
           /\ u[1][1] = FrameAt(s, i) /\ i \in 1..Len(s)
           /\ m \in 1..2 /\ v \in Seq(Unit)
           /\ Stream(s, v, i + 1)
           /\ Whole(s, u, i) => Whole(s, v, i + 1)
  <1> DEFINE v == SubSeq(u, m + 1, Len(u))
             f == FrameAt(s, i)
  <1>1. u \in Seq(Unit) /\ i \in 1..Len(s) /\ u[1] = <<f, "header">> /\ Len(u) \in Nat /\ Len(u) >= 1
    BY DEF Stream
  <1>2. u[1][1] = f /\ f.type = s[i] /\ f.n = i
    BY <1>1 DEF FrameAt
  <1>3. m = IF HasPayload(f.type) THEN 2 ELSE 1
    BY <1>2 DEF Units, HasPayload
  <1>4. v \in Seq(Unit) /\ Len(v) = Len(u) - m /\ \A k \in 1..Len(v) : v[k] = u[m + k]
    BY <1>1, <1>3
  <1> HIDE DEF v, f
  <1>5. u[m][1] = f /\ ~(u[m][2] = "header" /\ HasPayload(f.type))
    <2>1. CASE HasPayload(f.type)
      <3>0. m = 2
        BY <1>3, <2>1
      <3>1. m = 2 /\ 1 \in 1..(Len(u) - 1)
        <4>1. PICK l \in Nat : l = Len(u)
          BY <1>1
        <4>2. l >= 2
          BY <3>0, <4>1
        <4>3. 1 \in 1..(l - 1)
          BY <4>2
        <4> QED BY <3>0, <4>1, <4>3
      <3>2. Follows(s, u[1], u[1 + 1]) /\ 1 + 1 = 2
        BY <3>1 DEF Stream
      <3>3. u[1][2] = "header" /\ u[1][1] = f
        BY <1>1
      <3>4. u[2] = <<f, "payload">>
        BY <2>1, <3>2, <3>3 DEF Follows
      <3> QED BY <3>1, <3>4
    <2>2. CASE ~HasPayload(f.type)
      <3>1. m = 1 /\ u[1][1] = f
        BY <1>1, <1>3, <2>2
      <3> QED BY <2>2, <3>1
    <2> QED BY <2>1, <2>2
  <1>6. Len(u) > m => u[m + 1] = <<FrameAt(s, i + 1), "header">> /\ i + 1 <= Len(s)
    <2> SUFFICES ASSUME Len(u) > m
                 PROVE  u[m + 1] = <<FrameAt(s, i + 1), "header">> /\ i + 1 <= Len(s)
      OBVIOUS
    <2>1. Follows(s, u[m], u[m + 1])
      BY <1>1, <1>3 DEF Stream
    <2> QED BY <1>1, <1>2, <1>5, <2>1 DEF Follows
  <1>7. v # <<>> => Len(u) > m /\ v[1] = u[m + 1]
    BY <1>1, <1>3, <1>4
  <1>8. i + 1 \in 1..(Len(s) + 1)
    BY <1>1
  <1>9. \A k \in 1..Len(v) : m + k \in 1..Len(u) /\ v[k] = u[m + k]
    BY <1>1, <1>3, <1>4
  <1>10. \A k \in 1..(Len(v) - 1) :
            m + k \in 1..(Len(u) - 1) /\ v[k] = u[m + k] /\ v[k + 1] = u[(m + k) + 1]
    BY <1>1, <1>3, <1>4
  <1>11. Stream(s, v, i + 1)
    <2>1. \A k \in 1..Len(v) : v[k] \in UnitsOf(s)
      BY <1>9 DEF Stream
    <2>2. \A k \in 1..(Len(v) - 1) : Follows(s, v[k], v[k + 1])
      BY <1>10 DEF Stream
    <2> QED BY <1>4, <1>6, <1>7, <1>8, <2>1, <2>2 DEF Stream
  <1>12. Whole(s, u, i) => Whole(s, v, i + 1)
    <2>1. CASE v = <<>>
      <3>1. Len(u) = m
        BY <1>1, <1>3, <1>4, <2>1
      <3> QED BY <1>1, <1>2, <1>5, <2>1, <3>1 DEF Whole
    <2>2. CASE v # <<>>
      <3>1. v[Len(v)] = u[Len(u)]
        BY <1>1, <1>3, <1>4, <2>2
      <3> QED BY <2>2, <3>1 DEF Whole
    <2> QED BY <2>1, <2>2
  <1> QED BY <1>1, <1>2, <1>3, <1>4, <1>11, <1>12 DEF v, f

\* Consuming from what has been read is consuming from all that is there.
LEMMA ConsumeSplits ==
    ASSUME NEW u \in Seq(Unit), NEW v \in Seq(Unit), NEW m \in 1..2, m <= Len(u)
    PROVE  /\ SubSeq(u, m + 1, Len(u)) \in Seq(Unit)
           /\ Len(SubSeq(u, m + 1, Len(u))) <= Len(u)
           /\ SubSeq(u, m + 1, Len(u)) \o v = SubSeq(u \o v, m + 1, Len(u \o v))
  <1> DEFINE a == SubSeq(u, m + 1, Len(u))
  <1>1. a \in Seq(Unit) /\ Len(a) = Len(u) - m /\ \A j \in 1..Len(a) : a[j] = u[m + j]
    OBVIOUS
  <1> HIDE DEF a
  <1>2. PICK l \in Seq(Unit) : l = a \o v /\ Concat(a, v, l)
    BY <1>1, Concatenated
  <1>3. PICK w \in Seq(Unit) : w = u \o v /\ Concat(u, v, w)
    BY Concatenated
  <1>4. Len(w) = Len(u) + Len(v) /\ Len(l) = Len(a) + Len(v) /\ Len(u) \in Nat /\ Len(v) \in Nat
    BY <1>2, <1>3 DEF Concat
  <1>5. PICK r \in Seq(Unit) : /\ r = SubSeq(w, m + 1, Len(w)) /\ Len(r) = Len(w) - m
                               /\ \A j \in 1..(Len(w) - m) : r[j] = w[m + j]
    <2>1. m + 1 \in 1..(Len(w) + 1) /\ Len(w) \in Nat
      BY <1>4
    <2>2. /\ SubSeq(w, m + 1, Len(w)) \in Seq(Unit) /\ Len(SubSeq(w, m + 1, Len(w))) = Len(w) - m
          /\ \A j \in 1..(Len(w) - m) : SubSeq(w, m + 1, Len(w))[j] = w[m + j]
      BY <1>4, <2>1
    <2> QED BY <2>2
  <1>6. Len(l) = Len(r)
    BY <1>1, <1>4, <1>5
  <1>7. ASSUME NEW j \in 1..Len(l) PROVE l[j] = r[j]
    <2>1. r[j] = w[m + j]
      BY <1>1, <1>4, <1>5
    <2>2. CASE j <= Len(a)
      <3>1. j \in 1..Len(a) /\ m + j \in 1..Len(u)
        BY <1>1, <1>4, <2>2
      <3>2. l[j] = a[j] /\ w[m + j] = u[m + j]
        BY <1>2, <1>3, <3>1 DEF Concat
      <3> QED BY <1>1, <2>1, <3>1, <3>2
    <2>3. CASE j > Len(a)
      <3>1. PICK k \in 1..Len(v) : j = Len(a) + k /\ m + j = Len(u) + k
        <4>1. j - Len(a) \in 1..Len(v) /\ j = Len(a) + (j - Len(a)) /\ m + j = Len(u) + (j - Len(a))
          BY <1>1, <1>4, <2>3
        <4> QED BY <4>1
      <3>2. l[Len(a) + k] = v[k] /\ w[Len(u) + k] = v[k]
        BY <1>2, <1>3 DEF Concat
      <3> QED BY <2>1, <3>1, <3>2
    <2> QED BY <1>1, <1>4, <2>2, <2>3
  <1>8. l = r
    BY <1>6, <1>7, SeqEqual
  <1>9. a \o v = SubSeq(u \o v, m + 1, Len(u \o v))
    BY <1>2, <1>3, <1>5, <1>8
  <1>10. Len(a) <= Len(u)
    BY <1>1, <1>4
  <1> QED BY <1>1, <1>9, <1>10 DEF a

\* Sending one more frame prolongs a whole stream.
LEMMA StreamExtend ==
    ASSUME NEW s \in Seq(FrameTypes), NEW u, NEW i, Stream(s, u, i), Whole(s, u, i),
           NEW type \in FrameTypes, NEW w \in Seq(Unit),
           Concat(u, Units([type |-> type, n |-> Len(s) + 1]), w)
    PROVE  /\ Stream(Append(s, type), w, i) /\ Whole(Append(s, type), w, i)
           /\ Append(s, type) \in Seq(FrameTypes)
  <1> DEFINE t == Append(s, type)
             f == [type |-> type, n |-> Len(s) + 1]
             a == Units(f)
  <1>1. t \in Seq(FrameTypes) /\ Len(t) = Len(s) + 1 /\ Len(s) \in Nat
        /\ t[Len(t)] = type /\ \A j \in 1..Len(s) : t[j] = s[j]
    OBVIOUS
  <1>2. f = FrameAt(t, Len(t)) /\ f \in Frame /\ f.type = type /\ f.n = Len(t)
    BY <1>1 DEF FrameAt, Frame
  <1>3. /\ a \in Seq(Unit) /\ Len(a) = (IF HasPayload(type) THEN 2 ELSE 1)
        /\ a[1] = <<f, "header">> /\ (HasPayload(type) => a[2] = <<f, "payload">>)
    <2>1. CASE HasPayload(type)
      <3>1. a = <<<<f, "header">>, <<f, "payload">>>>
        BY <1>2, <2>1 DEF Units, HasPayload
      <3>2. <<f, "header">> \in Unit /\ <<f, "payload">> \in Unit
        BY <1>2 DEF Unit
      <3> HIDE DEF a, f
      <3> QED BY <2>1, <3>1, <3>2
    <2>2. CASE ~HasPayload(type)
      <3>1. a = <<<<f, "header">>>>
        BY <1>2, <2>2 DEF Units, HasPayload
      <3>2. <<f, "header">> \in Unit
        BY <1>2 DEF Unit
      <3> HIDE DEF a, f
      <3> QED BY <2>2, <3>1, <3>2
    <2> QED BY <2>1, <2>2
  <1>4. u \in Seq(Unit) /\ i \in 1..(Len(s) + 1)
    BY DEF Stream
  <1> HIDE DEF t, f, a
  <1>5. w \in Seq(Unit) /\ Concat(u, a, w)
    BY DEF a, f
  <1>6. /\ Len(w) = Len(u) + Len(a) /\ Len(u) \in Nat /\ Len(a) \in 1..2
        /\ \A k \in 1..Len(u) : w[k] = u[k]
        /\ \A k \in 1..Len(a) : w[Len(u) + k] = a[k]
    BY <1>3, <1>4, <1>5 DEF Concat
  <1>61. w[Len(u) + 1] = a[1] /\ (HasPayload(type) => w[Len(u) + 2] = a[2])
    <2>1. \A k \in 1..Len(a) : w[Len(u) + k] = a[k]
      BY <1>5 DEF Concat
    <2>2. 1 \in 1..Len(a) /\ (HasPayload(type) => 2 \in 1..Len(a))
      BY <1>3
    <2> QED BY <2>1, <2>2
  <1>7. \A j \in 1..Len(s) : FrameAt(t, j) = FrameAt(s, j)
    BY <1>1 DEF FrameAt
  <1>8. \A x \in UnitsOf(s) : x \in UnitsOf(t) /\ x[1].n \in 1..Len(s)
    <2> SUFFICES ASSUME NEW j \in 1..Len(s), NEW part \in {"header", "payload"}
                 PROVE  /\ <<FrameAt(s, j), part>> \in UnitsOf(t)
                        /\ <<FrameAt(s, j), part>>[1].n \in 1..Len(s)
      BY DEF UnitsOf
    <2>1. <<FrameAt(s, j), part>> = <<FrameAt(t, j), part>> /\ j \in 1..Len(t)
      BY <1>1, <1>7
    <2>2. <<FrameAt(t, j), part>> \in UnitsOf(t)
      BY <2>1 DEF UnitsOf
    <2> QED BY <2>1, <2>2 DEF FrameAt
  <1>9. <<f, "header">> \in UnitsOf(t) /\ <<f, "payload">> \in UnitsOf(t)
    BY <1>1, <1>2 DEF UnitsOf
  <1>10. w # <<>> /\ i \in 1..Len(t) /\ w[1] = <<FrameAt(t, i), "header">>
    <2>1. CASE u = <<>>
      <3>1. i = Len(t) /\ Len(u) = 0 /\ w[0 + 1] = a[1]
        BY <1>1, <1>6, <2>1 DEF Whole
      <3> QED BY <1>1, <1>2, <1>3, <1>6, <3>1
    <2>2. CASE u # <<>>
      <3>1. w[1] = u[1] /\ i \in 1..Len(s) /\ u[1] = <<FrameAt(s, i), "header">>
        BY <1>4, <1>6, <2>2 DEF Stream
      <3> QED BY <1>1, <1>6, <1>7, <2>2, <3>1
    <2> QED BY <2>1, <2>2
  <1>11. ASSUME NEW k \in 1..Len(w) PROVE w[k] \in UnitsOf(t)
    <2>1. CASE k <= Len(u)
      <3>1. k \in 1..Len(u)
        BY <1>6, <2>1
      <3>2. w[k] = u[k] /\ u[k] \in UnitsOf(s)
        BY <1>6, <3>1 DEF Stream
      <3> QED BY <1>8, <3>2
    <2>2. CASE k = Len(u) + 1
      BY <1>3, <1>9, <1>61, <2>2
    <2>3. CASE k = Len(u) + 2 /\ HasPayload(type)
      BY <1>3, <1>6, <1>9, <2>3
    <2> QED BY <1>3, <1>6, <2>1, <2>2, <2>3
  <1>12. ASSUME NEW k \in 1..(Len(w) - 1) PROVE Follows(t, w[k], w[k + 1])
    <2>1. CASE k < Len(u)
      <3>1. k \in 1..(Len(u) - 1) /\ k \in 1..Len(u) /\ w[k] = u[k] /\ w[k + 1] = u[k + 1]
        BY <1>6, <2>1
      <3>2. Follows(s, u[k], u[k + 1]) /\ u[k] \in UnitsOf(s)
        BY <3>1 DEF Stream
      <3>3. u[k][1].n \in 1..Len(s)
        BY <1>8, <3>2
      <3>4. CASE u[k][2] = "header" /\ HasPayload(u[k][1].type)
        BY <3>1, <3>2, <3>4 DEF Follows
      <3>5. CASE ~(u[k][2] = "header" /\ HasPayload(u[k][1].type))
        <4>1. u[k][1].n < Len(s) /\ u[k + 1] = <<FrameAt(s, u[k][1].n + 1), "header">>
          BY <3>2, <3>5 DEF Follows
        <4>2. u[k][1].n < Len(t) /\ FrameAt(s, u[k][1].n + 1) = FrameAt(t, u[k][1].n + 1)
          BY <1>1, <1>7, <3>3, <4>1
        <4> QED BY <3>1, <3>5, <4>1, <4>2 DEF Follows
      <3> QED BY <3>4, <3>5
    <2>2. CASE k = Len(u)
      <3>1. u # <<>> /\ w[k] = u[Len(u)] /\ w[k + 1] = a[1]
        BY <1>4, <1>6, <2>2
      <3>2. w[k][1].n = Len(s) /\ ~(w[k][2] = "header" /\ HasPayload(w[k][1].type))
        BY <3>1 DEF Whole
      <3>3. w[k][1].n < Len(t) /\ w[k + 1] = <<FrameAt(t, w[k][1].n + 1), "header">>
        <4>1. w[k][1].n < Len(t) /\ w[k][1].n + 1 = Len(t)
          BY <1>1, <3>2
        <4>2. w[k + 1] = <<FrameAt(t, Len(t)), "header">>
          BY <1>2, <1>3, <3>1
        <4> QED BY <4>1, <4>2
      <3> QED BY <3>2, <3>3 DEF Follows
    <2>3. CASE k = Len(u) + 1 /\ HasPayload(type)
      <3>1. w[k] = <<f, "header">> /\ w[k + 1] = <<f, "payload">>
        BY <1>3, <1>6, <2>3
      <3>2. w[k][1] = f /\ w[k][2] = "header" /\ HasPayload(f.type)
        BY <1>2, <2>3, <3>1
      <3> QED BY <3>1, <3>2 DEF Follows
    <2> QED BY <1>3, <1>6, <2>1, <2>2, <2>3
  <1>13. Stream(t, w, i)
    <2>1. i \in 1..(Len(t) + 1) /\ i <= Len(t)
      BY <1>1, <1>10
    <2> QED BY <1>5, <1>10, <1>11, <1>12, <2>1 DEF Stream
  <1>14. Whole(t, w, i)
    <2>1. CASE HasPayload(type)
      <3>1. w[Len(w)] = <<f, "payload">>
        BY <1>3, <1>6, <2>1
      <3> QED BY <1>2, <1>10, <3>1 DEF Whole
    <2>2. CASE ~HasPayload(type)
      <3>1. w[Len(w)] = <<f, "header">>
        BY <1>3, <1>6, <2>2
      <3> QED BY <1>2, <1>10, <2>2, <3>1 DEF Whole
    <2> QED BY <2>1, <2>2
  <1> QED BY <1>1, <1>13, <1>14 DEF t

-----------------------------------------------------------------------------
(* Types *)

Places == {"idle", "exited", "taken", "reading", "ingest", "count", "reply", "error"}
AnswerFrame == [type : Answers, n : Nat, ok : BOOLEAN]
WorkerState ==
    [at : Places, peer : Peers \cup {NoOne}, frame : Frame \cup {NoFrame},
     keep : BOOLEAN, ok : BOOLEAN]
Stats == [accepted : Nat, rejected : Nat, received : Nat, damaged : Nat,
          applied : Nat, failed : Nat]

Ends == {"none", "open", "closed"}
PeerStates == {"new", "welcome", "batch", "status", "ready", "failed", "open", "closed"}

TypeOK ==
    /\ pool \in PoolSizes
    /\ backlog \in Seq(Peers) /\ queue \in Seq(Peers)
    /\ worker \in [Workers -> WorkerState]
    /\ reader \in [Workers -> Seq(Unit)]
    /\ stats \in Stats
    /\ end \in [Peers -> Ends] /\ peer \in [Peers -> PeerStates]
    /\ up \in [Peers -> Seq(Unit)] /\ down \in [Peers -> Seq(AnswerFrame)]
    /\ sent \in [Peers -> Seq(FrameTypes)] /\ handled \in [Peers -> Seq(Frame)]
    /\ ingested \in Seq(Peers \X Nat)
    /\ told \in [Clients -> SUBSET Nat]

\* A worker is at a connection exactly while it is not idle or gone.
Busy(w) == worker[w].peer # NoOne

WorkersBusy == \A w \in Workers : worker[w].at \in {"idle", "exited"} <=> ~Busy(w)

LEMMA Assigned ==
    ASSUME NEW S, NEW T, NEW f \in [S -> T], NEW x, NEW v \in T
    PROVE  [f EXCEPT ![x] = v] \in [S -> T]
  OBVIOUS

LEMMA StatsGrow ==
    ASSUME TypeOK
    PROVE  /\ stats \in Stats /\ stats.applied \in Nat
           /\ [stats EXCEPT !.accepted = @ + 1] \in Stats
           /\ [stats EXCEPT !.rejected = @ + 1] \in Stats
           /\ [stats EXCEPT !.received = @ + 1] \in Stats
           /\ [stats EXCEPT !.damaged = @ + 1] \in Stats
           /\ [stats EXCEPT !.applied = @ + 1] \in Stats
           /\ [stats EXCEPT !.failed = @ + 1] \in Stats
  <1>1. stats \in Stats
    BY DEF TypeOK
  <1> QED BY <1>1 DEF Stats

LEMMA UnitsType ==
    ASSUME NEW type \in FrameTypes, NEW n \in Nat
    PROVE  Units([type |-> type, n |-> n]) \in Seq(Unit)
  <1> DEFINE f == [type |-> type, n |-> n]
  <1>1. <<f, "header">> \in Unit /\ <<f, "payload">> \in Unit
    BY DEF Unit, Frame
  <1> HIDE DEF f
  <1>2. <<<<f, "header">>>> \in Seq(Unit) /\ <<<<f, "header">>, <<f, "payload">>>> \in Seq(Unit)
    BY <1>1
  <1>3. Units(f) \in Seq(Unit)
    BY <1>2 DEF Units
  <1> QED BY <1>3 DEF f

LEMMA SendFrameType ==
    ASSUME TypeOK, NEW p \in Peers, NEW type \in FrameTypes, SendFrame(p, type)
    PROVE  sent' \in [Peers -> Seq(FrameTypes)] /\ up' \in [Peers -> Seq(Unit)]
  <1>1. sent[p] \in Seq(FrameTypes) /\ up[p] \in Seq(Unit)
    BY DEF TypeOK
  <1>2. Append(sent[p], type) \in Seq(FrameTypes) /\ Len(sent[p]) + 1 \in Nat
    BY <1>1
  <1>3. up[p] \o Units([type |-> type, n |-> Len(sent[p]) + 1]) \in Seq(Unit)
    BY <1>1, <1>2, UnitsType, Concatenated
  <1> QED BY <1>2, <1>3 DEF TypeOK, SendFrame

LEMMA PoolWorkers ==
    ASSUME TypeOK
    PROVE  1..pool \subseteq Workers /\ pool \in Nat /\ Workers \subseteq Nat \ {0}
  BY TransportAssumption DEF TypeOK, Workers

\* A worker at work has a peer.
LEMMA AtPeer ==
    ASSUME TypeOK, WorkersBusy, NEW w \in Workers, worker[w].at \notin {"idle", "exited"}
    PROVE  worker[w].peer \in Peers /\ Busy(w)
  BY DEF TypeOK, WorkersBusy, Busy, WorkerState

LEMMA ClosedType ==
    ASSUME TypeOK, NEW p, Closed(p)
    PROVE  end' \in [Peers -> Ends] /\ up' \in [Peers -> Seq(Unit)]
  <1>1. end \in [Peers -> Ends] /\ up \in [Peers -> Seq(Unit)]
    BY DEF TypeOK
  <1>2. end' \in [Peers -> Ends]
    BY <1>1 DEF Closed, Ends
  <1>3. <<>> \in Seq(Unit)
    OBVIOUS
  <1>4. up' \in [Peers -> Seq(Unit)]
    BY <1>1, <1>3, Assigned, Zenon DEF Closed
  <1> QED BY <1>2, <1>4

LEMMA HangUpType ==
    ASSUME TypeOK, WorkersBusy, NEW w \in Workers, HangUp(w)
    PROVE  /\ worker' \in [Workers -> WorkerState] /\ reader' \in [Workers -> Seq(Unit)]
           /\ end' \in [Peers -> Ends] /\ up' \in [Peers -> Seq(Unit)]
           /\ WorkersBusy'
  <1>1. Idle \in WorkerState
    BY DEF Idle, WorkerState, Places
  <1>2. <<>> \in Seq(Unit)
    OBVIOUS
  <1>3. worker' = [worker EXCEPT ![w] = Idle] /\ Idle.peer = NoOne /\ Idle.at = "idle"
    BY DEF HangUp, Idle
  <1>4. WorkersBusy'
    BY <1>3 DEF WorkersBusy, Busy, TypeOK
  <1>5. worker' \in [Workers -> WorkerState] /\ reader' \in [Workers -> Seq(Unit)]
    BY <1>1, <1>2 DEF HangUp, TypeOK
  <1>6. end' \in [Peers -> Ends] /\ up' \in [Peers -> Seq(Unit)]
    BY ClosedType DEF HangUp
  <1> QED BY <1>4, <1>5, <1>6

LEMMA MovedType ==
    ASSUME TypeOK, WorkersBusy, NEW w \in Workers, NEW place \in Places, Moved(w, place),
           place \in {"idle", "exited"} <=> worker[w].at \in {"idle", "exited"}
    PROVE  worker' \in [Workers -> WorkerState] /\ WorkersBusy'
  BY DEF Moved, TypeOK, WorkerState, WorkersBusy, Busy

LEMMA AcceptTypes ==
    ASSUME TypeOK, WorkersBusy, AcceptLoop \/ RequestStop
    PROVE  TypeOK' /\ WorkersBusy'
  <1> USE DEF handling, counting, wire, history, WorkersBusy, Busy
  <1>1. CASE LoopStops \/ SelectIdle \/ SelectFails \/ RequestStop
    BY <1>1 DEF LoopStops, SelectIdle, SelectFails, RequestStop, TypeOK
  <1>2. backlog # <<>> => Head(backlog) \in Peers /\ Tail(backlog) \in Seq(Peers)
    BY DEF TypeOK
  <1>3. CASE AcceptFails
    <2>1. end' \in [Peers -> Ends] /\ up' \in [Peers -> Seq(Unit)]
      BY <1>3, ClosedType DEF AcceptFails
    <2> QED BY <1>2, <1>3, <2>1 DEF AcceptFails, TypeOK
  <1>4. CASE AcceptQueues
    <2>1. queue' \in Seq(Peers)
      BY <1>2, <1>4 DEF AcceptQueues, TypeOK
    <2> QED BY <1>2, <1>4, <2>1 DEF AcceptQueues, TypeOK
  <1>5. CASE AcceptRejects
    <2>1. end' \in [Peers -> Ends] /\ up' \in [Peers -> Seq(Unit)]
      BY <1>5, ClosedType DEF AcceptRejects
    <2>2. Refusal \in AnswerFrame
      BY DEF Refusal, AnswerFrame, Answers
    <2>3. <<>> \in Seq(AnswerFrame) /\ <<Refusal>> \in Seq(AnswerFrame)
      BY <2>2
    <2>4. down' \in [Peers -> Seq(AnswerFrame)]
      BY <1>5, <2>3 DEF AcceptRejects, TypeOK
    <2>5. stats' \in Stats
      BY <1>5, StatsGrow DEF AcceptRejects
    <2> QED BY <1>2, <1>5, <2>1, <2>4, <2>5 DEF AcceptRejects, TypeOK
  <1>6. CASE ServeReturns
    <2>1. end' \in [Peers -> Ends] /\ backlog' \in Seq(Peers)
      BY <1>6 DEF ServeReturns, TypeOK, Ends
    <2> QED BY <1>6, <2>1 DEF ServeReturns, TypeOK
  <1> QED BY <1>1, <1>3, <1>4, <1>5, <1>6 DEF AcceptLoop

LEMMA LosingType ==
    ASSUME TypeOK, NEW w \in Workers, MayLose(w)
    PROVE  down' \in [Peers -> Seq(AnswerFrame)]
  <1>1. <<>> \in Seq(AnswerFrame)
    OBVIOUS
  <1> QED BY <1>1 DEF MayLose, TypeOK

\* The first unit of what has been read names the frame.
LEMMA FirstFrame ==
    ASSUME NEW u \in Seq(Unit), DecodeFrame(u) # "incomplete"
    PROVE  u # <<>> /\ u[1][1] \in Frame /\ Len(Units(u[1][1])) \in 1..2
           /\ (DecodeFrame(u) = "complete" => Len(Units(u[1][1])) <= Len(u)
                                              /\ u[1][1].type \notin Damaged)
  <1>1. u # <<>>
    BY DEF DecodeFrame
  <1>2. u[1] \in Unit
    BY <1>1
  <1>3. u[1][1] \in Frame
    BY <1>2 DEF Unit
  <1>4. Len(Units(u[1][1])) \in 1..2
    BY DEF Units
  <1>5. ASSUME DecodeFrame(u) = "complete"
        PROVE  Len(Units(u[1][1])) <= Len(u) /\ u[1][1].type \notin Damaged
    BY <1>1, <1>4, <1>5 DEF DecodeFrame, Damaged
  <1> QED BY <1>1, <1>3, <1>4, <1>5

LEMMA WorkTypes ==
    ASSUME TypeOK, WorkersBusy, NEW w \in Workers, Work(w)
    PROVE  TypeOK' /\ WorkersBusy'
  <1> DEFINE p == worker[w].peer
  <1>0. worker[w] \in WorkerState /\ reader[w] \in Seq(Unit)
    BY DEF TypeOK
  <1>1. CASE WorkerExits(w)
    <2>1. worker' \in [Workers -> WorkerState] /\ WorkersBusy'
      BY <1>1, MovedType DEF WorkerExits, At, Places
    <2> QED BY <1>1, <2>1 DEF WorkerExits, TypeOK, accepting, counting, wire, history
  <1>2. CASE TakeConnection(w)
    <2>1. Head(queue) \in Peers /\ Tail(queue) \in Seq(Peers) /\ NoOne \notin Peers
      BY <1>2, TransportAssumption DEF TakeConnection, TypeOK, Peers
    <2> DEFINE z == [Idle EXCEPT !.at = "taken", !.peer = Head(queue)]
    <2>2. z \in WorkerState /\ z.at = "taken" /\ z.peer # NoOne
      BY <2>1 DEF Idle, WorkerState, Places
    <2>3. worker' = [worker EXCEPT ![w] = z]
      BY <1>2 DEF TakeConnection
    <2> HIDE DEF z
    <2>4. worker' \in [Workers -> WorkerState] /\ WorkersBusy'
      BY <2>2, <2>3 DEF WorkersBusy, Busy, TypeOK
    <2>5. reader' \in [Workers -> Seq(Unit)]
      BY <1>2 DEF TakeConnection, TypeOK
    <2> QED BY <1>2, <2>1, <2>4, <2>5 DEF TakeConnection, TypeOK, counting, wire, history
  <1>3. CASE CountConnection(w)
    <2>1. worker' \in [Workers -> WorkerState] /\ WorkersBusy'
      BY <1>3, MovedType DEF CountConnection, At, Places
    <2>2. stats' \in Stats
      BY <1>3, StatsGrow DEF CountConnection
    <2> QED BY <1>3, <2>1, <2>2 DEF CountConnection, TypeOK, accepting, wire, history
  <1>4. CASE Receive(w)
    <2>1. At(w, "reading")
      BY <1>4 DEF Receive, ReadsOn
    <2>2. p \in Peers /\ up[p] \in Seq(Unit)
      BY <2>1, AtPeer DEF At, TypeOK
    <2>3. PICK k \in 1..Len(up[p]) :
            \/ /\ reader' = [reader EXCEPT ![w] = @ \o SubSeq(up[p], 1, k)]
               /\ up' = [up EXCEPT ![p] = SubSeq(@, k + 1, Len(@))]
               /\ UNCHANGED <<worker, end, down>>
            \/ HangUp(w) /\ MayLose(w)
      BY <1>4 DEF Receive
    <2>4. /\ reader' \in [Workers -> Seq(Unit)] /\ up' \in [Peers -> Seq(Unit)]
          /\ worker' \in [Workers -> WorkerState] /\ end' \in [Peers -> Ends]
          /\ down' \in [Peers -> Seq(AnswerFrame)] /\ WorkersBusy'
      <3>1. CASE HangUp(w) /\ MayLose(w)
        BY <3>1, HangUpType, LosingType
      <3>2. CASE ~(HangUp(w) /\ MayLose(w))
        <4>1. reader[w] \o SubSeq(up[p], 1, k) \in Seq(Unit)
              /\ SubSeq(up[p], k + 1, Len(up[p])) \in Seq(Unit)
          BY <1>0, <2>2, ReceiveSplits
        <4>2. /\ reader' = [reader EXCEPT ![w] = reader[w] \o SubSeq(up[p], 1, k)]
              /\ up' = [up EXCEPT ![p] = SubSeq(up[p], k + 1, Len(up[p]))]
              /\ UNCHANGED <<worker, end, down>>
          BY <2>3, <3>2
        <4>3. reader \in [Workers -> Seq(Unit)] /\ up \in [Peers -> Seq(Unit)]
          BY DEF TypeOK
        <4>4. reader' \in [Workers -> Seq(Unit)] /\ up' \in [Peers -> Seq(Unit)]
          BY <4>1, <4>2, <4>3, Assigned
        <4> QED BY <4>2, <4>4 DEF TypeOK, WorkersBusy, Busy
      <3> QED BY <2>3, <3>1, <3>2
    <2> QED BY <1>4, <2>4 DEF Receive, TypeOK, accepting, counting, history
  <1>5. CASE ReceiveEnds(w)
    BY <1>5, HangUpType DEF ReceiveEnds, TypeOK, accepting, counting, history
  <1>6. CASE ByeEnds(w)
    BY <1>6, HangUpType, LosingType DEF ByeEnds, TypeOK, accepting, counting, history
  <1>7. CASE NextIsFrame(w)
    <2> DEFINE f == reader[w][1][1]
               z == [worker[w] EXCEPT !.at = Handler(f.type),
                                      !.frame = IF f.type = "Bye" THEN NoFrame ELSE f,
                                      !.keep = @ /\ f.type # "Bye"]
    <2>1. At(w, "reading") /\ DecodeFrame(reader[w]) = "complete"
      BY <1>7 DEF NextIsFrame
    <2>2. p \in Peers /\ Busy(w)
      BY <2>1, AtPeer DEF At
    <2>3. f \in Frame /\ Len(Units(f)) \in 1..2 /\ Len(Units(f)) <= Len(reader[w])
      BY <1>0, <2>1, FirstFrame
    <2>4. Handler(f.type) \in Places /\ Handler(f.type) \notin {"idle", "exited"}
      BY DEF Handler, Places
    <2>5. z \in WorkerState /\ z.at = Handler(f.type) /\ z.peer = p
      BY <1>0, <2>3, <2>4 DEF WorkerState
    <2>6. worker' = [worker EXCEPT ![w] = z]
      BY <1>7 DEF NextIsFrame, TypeOK
    <2> HIDE DEF z
    <2>7. worker' \in [Workers -> WorkerState] /\ WorkersBusy'
      BY <2>2, <2>4, <2>5, <2>6 DEF WorkersBusy, Busy, TypeOK
    <2>8. handled' \in [Peers -> Seq(Frame)]
      <3>1. Append(handled[p], f) \in Seq(Frame)
        BY <2>2, <2>3 DEF TypeOK
      <3> QED BY <1>7, <3>1 DEF NextIsFrame, TypeOK
    <2>9. reader' \in [Workers -> Seq(Unit)]
      <3>1. Consumed(reader[w]) \in Seq(Unit)
        BY <1>0, <2>3, ConsumeSplits DEF Consumed
      <3> QED BY <1>7, <3>1 DEF NextIsFrame, TypeOK
    <2>10. stats' \in Stats
      BY <1>7, StatsGrow DEF NextIsFrame
    <2> QED BY <1>7, <2>7, <2>8, <2>9, <2>10 DEF NextIsFrame, TypeOK, accepting, wire
  <1>8. CASE NextIsRefused(w)
    <2>1. worker' \in [Workers -> WorkerState] /\ WorkersBusy'
      BY <1>8, MovedType DEF NextIsRefused, At, Places
    <2>2. stats' \in Stats
      BY <1>8, StatsGrow DEF NextIsRefused
    <2> QED BY <1>8, <2>1, <2>2 DEF NextIsRefused, TypeOK, accepting, wire, history
  <1>9. CASE SendError(w)
    <2>1. p \in Peers
      BY <1>9, AtPeer DEF SendError, At
    <2>2. Refusal \in AnswerFrame
      BY DEF Refusal, AnswerFrame, Answers
    <2>3. <<>> \in Seq(AnswerFrame) /\ Append(down[p], Refusal) \in Seq(AnswerFrame)
      BY <2>1, <2>2 DEF TypeOK
    <2>4. down' \in [Peers -> Seq(AnswerFrame)]
      BY <1>9, <2>3 DEF SendError, TypeOK
    <2> QED BY <1>9, <2>4, HangUpType DEF SendError, TypeOK, accepting, history
  <1>10. CASE Ingest(w)
    <2>1. PICK ok \in BOOLEAN :
            /\ worker' = [worker EXCEPT ![w].at = "count", ![w].ok = ok]
            /\ ingested' = ingested \o (IF ok THEN <<<<p, worker[w].frame.n>>>> ELSE <<>>)
      BY <1>10 DEF Ingest
    <2>2. p \in Peers /\ Busy(w)
      BY <1>10, AtPeer DEF Ingest, At
    <2>3. worker' \in [Workers -> WorkerState] /\ WorkersBusy'
      <3> DEFINE z == [worker[w] EXCEPT !.at = "count", !.ok = ok]
      <3>1. z \in WorkerState /\ z.at = "count" /\ z.peer = p
        BY <1>0 DEF WorkerState, Places
      <3>2. worker' = [worker EXCEPT ![w] = z]
        BY <2>1 DEF TypeOK
      <3> HIDE DEF z
      <3> QED BY <2>2, <3>1, <3>2 DEF WorkersBusy, Busy, TypeOK
    <2>4. ingested' \in Seq(Peers \X Nat)
      <3>1. worker[w].frame.n \in Nat
        BY <1>0 DEF WorkerState, Frame, NoFrame
      <3>2. <<<<p, worker[w].frame.n>>>> \in Seq(Peers \X Nat) /\ <<>> \in Seq(Peers \X Nat)
        BY <2>2, <3>1
      <3> QED BY <2>1, <3>2, Concatenated DEF TypeOK
    <2> QED BY <1>10, <2>3, <2>4 DEF Ingest, TypeOK, accepting, counting, wire
  <1>11. CASE CountBatch(w)
    <2>1. worker' \in [Workers -> WorkerState] /\ WorkersBusy'
      BY <1>11, MovedType DEF CountBatch, At, Places
    <2>2. stats' \in Stats
      BY <1>11, StatsGrow DEF CountBatch
    <2> QED BY <1>11, <2>1, <2>2 DEF CountBatch, TypeOK, accepting, wire, history
  <1>12. CASE Reply(w)
    <2>1. p \in Peers /\ Busy(w)
      BY <1>12, AtPeer DEF Reply, At
    <2>2. CASE HangUp(w) /\ UNCHANGED down
      BY <1>12, <2>2, HangUpType DEF Reply, TypeOK, accepting, counting, history
    <2>3. CASE ~(HangUp(w) /\ UNCHANGED down)
      <3> DEFINE z == [worker[w] EXCEPT !.at = "reading", !.frame = NoFrame, !.ok = TRUE]
      <3>1. /\ down' = IF peer[p] = "closed" THEN down ELSE [down EXCEPT ![p] = Append(@, Answer(w))]
            /\ worker' = [worker EXCEPT ![w] = z]
            /\ UNCHANGED <<reader, end, up>>
        BY <1>12, <2>3 DEF Reply, TypeOK
      <3>2. z \in WorkerState /\ z.at = "reading" /\ z.peer = p
        BY <1>0 DEF WorkerState, Places
      <3> HIDE DEF z
      <3>3. worker' \in [Workers -> WorkerState] /\ WorkersBusy'
        BY <2>1, <3>1, <3>2 DEF WorkersBusy, Busy, TypeOK
      <3>4. Answer(w) \in AnswerFrame
        BY <1>0 DEF Answer, AnswerTo, AnswerFrame, Answers, WorkerState, Frame, NoFrame
      <3>5. Append(down[p], Answer(w)) \in Seq(AnswerFrame)
        BY <2>1, <3>4 DEF TypeOK
      <3>6. down' \in [Peers -> Seq(AnswerFrame)]
        BY <3>1, <3>5 DEF TypeOK
      <3> QED BY <1>12, <3>1, <3>3, <3>6 DEF Reply, TypeOK, accepting, counting, history
    <2> QED BY <2>2, <2>3
  <1> QED BY <1>1, <1>2, <1>3, <1>4, <1>5, <1>6, <1>7, <1>8, <1>9, <1>10, <1>11, <1>12 DEF Work

LEMMA PeerTypes ==
    ASSUME TypeOK, WorkersBusy,
           (\E c \in Clients : ClientStep(c)) \/ (\E r \in RawPeers : RawStep(r))
    PROVE  TypeOK' /\ WorkersBusy'
  <1> USE DEF accepting, handling, counting, wire, history, WorkersBusy, Busy
  <1>0. /\ end \in [Peers -> Ends] /\ peer \in [Peers -> PeerStates]
        /\ down \in [Peers -> Seq(AnswerFrame)] /\ up \in [Peers -> Seq(Unit)]
        /\ backlog \in Seq(Peers) /\ told \in [Clients -> SUBSET Nat]
    BY DEF TypeOK
  <1>1. \A p \in Peers, t \in PeerStates : [peer EXCEPT ![p] = t] \in [Peers -> PeerStates]
    BY <1>0
  <1>2. \A p \in Peers : [end EXCEPT ![p] = "open"] \in [Peers -> Ends]
                         /\ Append(backlog, p) \in Seq(Peers)
    BY <1>0 DEF Ends
  <1>3. \A p \in Peers : <<>> \in Seq(AnswerFrame) /\ <<>> \in Seq(Unit)
                         /\ (down[p] # <<>> => Tail(down[p]) \in Seq(AnswerFrame))
    BY <1>0
  <1>4. \A p \in Peers : /\ [down EXCEPT ![p] = <<>>] \in [Peers -> Seq(AnswerFrame)]
                         /\ [up EXCEPT ![p] = <<>>] \in [Peers -> Seq(Unit)]
    BY <1>0, <1>3, Assigned
  <1>5. \A p \in Peers : down[p] # <<>> =>
            [down EXCEPT ![p] = Tail(@)] \in [Peers -> Seq(AnswerFrame)]
    BY <1>0, <1>3, Assigned
  <1>6. ASSUME NEW c \in Clients, ClientStep(c) PROVE TypeOK' /\ WorkersBusy'
    <2>0. c \in Peers /\ {"Hello", "Batch", "StatusRequest", "Bye"} \subseteq FrameTypes
          /\ {"welcome", "batch", "status", "ready", "failed", "closed"} \subseteq PeerStates
      BY DEF Peers, FrameTypes, PeerStates
    <2>1. CASE ClientConnect(c)
      <3>1. CASE Connect(c, "welcome") /\ SendFrame(c, "Hello")
        BY <1>1, <1>2, <2>0, <2>1, <3>1, SendFrameType DEF ClientConnect, Connect, TypeOK
      <3>2. CASE NoConnection(c)
        BY <1>1, <2>0, <2>1, <3>2 DEF ClientConnect, NoConnection, TypeOK
      <3> QED BY <2>1, <3>1, <3>2 DEF ClientConnect
    <2>2. CASE ClientRequest(c)
      <3>1. sent' \in [Peers -> Seq(FrameTypes)] /\ up' \in [Peers -> Seq(Unit)]
        BY <2>0, <2>2, SendFrameType DEF ClientRequest
      <3>2. peer' \in [Peers -> PeerStates]
        BY <1>1, <2>0, <2>2 DEF ClientRequest
      <3> QED BY <2>2, <3>1, <3>2 DEF ClientRequest, TypeOK
    <2>3. CASE ClientAnswered(c)
      <3>1. peer' \in [Peers -> PeerStates]
        BY <1>1, <2>0, <2>3 DEF ClientAnswered
      <3>2. down' \in [Peers -> Seq(AnswerFrame)]
        BY <1>5, <2>0, <2>3 DEF ClientAnswered
      <3>3. Head(down[c]).n \in Nat
        <4>1. Head(down[c]) \in AnswerFrame
          BY <1>0, <2>0, <2>3 DEF ClientAnswered
        <4> QED BY <4>1 DEF AnswerFrame
      <3>4. told' \in [Clients -> SUBSET Nat]
        BY <1>0, <2>3, <3>3 DEF ClientAnswered
      <3> QED BY <2>3, <3>1, <3>2, <3>4 DEF ClientAnswered, TypeOK
    <2>4. CASE ClientCutOff(c)
      BY <1>1, <2>0, <2>4 DEF ClientCutOff, TypeOK
    <2>5. CASE ClientClose(c)
      <3>1. sent' \in [Peers -> Seq(FrameTypes)] /\ up' \in [Peers -> Seq(Unit)]
        BY <2>0, <2>5, SendFrameType DEF ClientClose
      <3> QED BY <1>1, <1>4, <2>0, <2>5, <3>1 DEF ClientClose, TypeOK
    <2> QED BY <1>6, <2>1, <2>2, <2>3, <2>4, <2>5 DEF ClientStep
  <1>7. ASSUME NEW r \in RawPeers, RawStep(r) PROVE TypeOK' /\ WorkersBusy'
    <2>0. r \in Peers /\ "open" \in PeerStates /\ "closed" \in PeerStates
      BY DEF Peers, PeerStates
    <2>1. CASE RawConnect(r)
      <3>1. CASE Connect(r, "open") /\ UNCHANGED <<sent, up>>
        BY <1>1, <1>2, <2>0, <2>1, <3>1 DEF RawConnect, Connect, TypeOK
      <3>2. CASE NoConnection(r)
        BY <1>1, <2>0, <2>1, <3>2 DEF RawConnect, NoConnection, TypeOK
      <3> QED BY <2>1, <3>1, <3>2 DEF RawConnect
    <2>2. CASE RawSend(r)
      <3>1. PICK script \in RawScripts : /\ Len(sent[r]) < Len(script)
                                         /\ SendFrame(r, script[Len(sent[r]) + 1])
        BY <2>2 DEF RawSend
      <3>2. script[Len(sent[r]) + 1] \in FrameTypes
        <4>1. script \in Seq(FrameTypes) /\ sent[r] \in Seq(FrameTypes)
          BY <2>0, TransportAssumption DEF TypeOK
        <4> QED BY <3>1, <4>1
      <3>3. sent' \in [Peers -> Seq(FrameTypes)] /\ up' \in [Peers -> Seq(Unit)]
        BY <2>0, <3>1, <3>2, SendFrameType
      <3> QED BY <2>2, <3>3 DEF RawSend, TypeOK
    <2>3. CASE RawRead(r)
      BY <1>5, <2>0, <2>3 DEF RawRead, TypeOK
    <2>4. CASE RawClose(r)
      BY <1>1, <1>4, <2>0, <2>4 DEF RawClose, TypeOK
    <2> QED BY <1>7, <2>1, <2>2, <2>3, <2>4 DEF RawStep
  <1> QED BY <1>6, <1>7

\* The variables keep their types, whatever the peers send.
THEOREM TransportTypes == Spec => [](TypeOK /\ WorkersBusy)
  <1>1. Init => TypeOK /\ WorkersBusy
    <2> SUFFICES ASSUME Init PROVE TypeOK /\ WorkersBusy
      OBVIOUS
    <2>1. Idle \in WorkerState /\ Idle.peer = NoOne /\ Idle.at = "idle"
      BY DEF Idle, WorkerState, Places
    <2>2. <<>> \in Seq(Unit) /\ <<>> \in Seq(Peers) /\ <<>> \in Seq(AnswerFrame)
          /\ <<>> \in Seq(FrameTypes) /\ <<>> \in Seq(Frame) /\ <<>> \in Seq(Peers \X Nat)
      OBVIOUS
    <2>3. worker = [w \in Workers |-> Idle] /\ reader = [w \in Workers |-> <<>>]
      BY DEF Init
    <2>4. worker \in [Workers -> WorkerState] /\ reader \in [Workers -> Seq(Unit)]
      BY <2>1, <2>2, <2>3
    <2>5. stats \in Stats
      BY DEF Init, Stats
    <2>6. end \in [Peers -> Ends] /\ peer \in [Peers -> PeerStates]
      BY DEF Init, Ends, PeerStates
    <2>7. /\ up \in [Peers -> Seq(Unit)] /\ down \in [Peers -> Seq(AnswerFrame)]
          /\ sent \in [Peers -> Seq(FrameTypes)] /\ handled \in [Peers -> Seq(Frame)]
      BY <2>2 DEF Init
    <2>8. WorkersBusy
      BY <2>1, <2>3 DEF WorkersBusy, Busy
    <2> QED BY <2>2, <2>4, <2>5, <2>6, <2>7, <2>8 DEF Init, TypeOK
  <1>2. TypeOK /\ WorkersBusy /\ [Next]_vars => (TypeOK /\ WorkersBusy)'
    <2>1. CASE UNCHANGED vars
      BY <2>1 DEF vars, accepting, handling, counting, wire, history, TypeOK, WorkersBusy, Busy
    <2> QED BY <2>1, AcceptTypes, WorkTypes, PeerTypes DEF Next, Terminated
  <1> QED BY <1>1, <1>2, PTL DEF Spec

-----------------------------------------------------------------------------
(* Who has a connection *)

\* Connections no worker has taken yet.
Waiting == Range(backlog) \cup Range(queue)

\* A connection is in one place: in the backlog, in the queue or with a single
\* worker; as long as it is, the server has not closed it.
Ownership ==
    /\ IsInjective(backlog) /\ IsInjective(queue) /\ Range(backlog) \cap Range(queue) = {}
    /\ \A p \in Waiting : end[p] = "open"
    /\ \A w \in Workers : Busy(w) => worker[w].peer \notin Waiting /\ end[worker[w].peer] = "open"
    /\ \A w, v \in Workers : Busy(w) /\ worker[w].peer = worker[v].peer => w = v
    /\ \A p \in Peers : peer[p] = "new" => end[p] = "none"

\* The variables have their types and every connection its place.
Placed == TypeOK /\ WorkersBusy /\ Ownership

LEMMA TakeFirst ==
    ASSUME NEW S, NEW s \in Seq(S), s # <<>>, IsInjective(s)
    PROVE  /\ Head(s) \in Range(s) /\ Range(Tail(s)) = Range(s) \ {Head(s)}
           /\ IsInjective(Tail(s))
  <1> DEFINE t == Tail(s)
  <1>1. t \in Seq(S) /\ Len(t) = Len(s) - 1 /\ (\A i \in 1..Len(t) : t[i] = s[i + 1])
        /\ Len(s) \in Nat /\ Len(s) >= 1 /\ Head(s) = s[1]
    OBVIOUS
  <1>2. DOMAIN s = 1..Len(s) /\ DOMAIN t = 1..Len(t)
    BY <1>1
  <1>3. \A i, j \in 1..Len(s) : s[i] = s[j] => i = j
    BY <1>2 DEF IsInjective
  <1> HIDE DEF t
  <1>4. IsInjective(t)
    <2> SUFFICES ASSUME NEW i \in 1..Len(t), NEW j \in 1..Len(t), t[i] = t[j] PROVE i = j
      BY <1>2 DEF IsInjective
    <2>1. i + 1 \in 1..Len(s) /\ j + 1 \in 1..Len(s) /\ s[i + 1] = s[j + 1]
      BY <1>1
    <2>2. i + 1 = j + 1
      BY <1>3, <2>1
    <2> QED BY <2>2
  <1>5. Head(s) \in Range(s)
    BY <1>1, <1>2 DEF Range
  <1>6. ASSUME NEW x \in Range(t) PROVE x \in Range(s) /\ x # Head(s)
    <2>1. PICK i \in 1..Len(t) : x = t[i]
      BY <1>2 DEF Range
    <2>2. i + 1 \in 1..Len(s) /\ x = s[i + 1] /\ i + 1 # 1 /\ 1 \in 1..Len(s)
      BY <1>1, <2>1
    <2>3. s[i + 1] # s[1]
      BY <1>3, <2>2
    <2> QED BY <1>1, <1>2, <2>2, <2>3 DEF Range
  <1>7. ASSUME NEW x \in Range(s), x # Head(s) PROVE x \in Range(t)
    <2>1. PICK i \in 1..Len(s) : x = s[i]
      BY <1>2 DEF Range
    <2>2. i # 1
      BY <1>1, <1>7, <2>1
    <2>3. i - 1 \in 1..Len(t) /\ (i - 1) + 1 = i
      BY <1>1, <2>2
    <2>4. t[i - 1] = x
      BY <1>1, <2>1, <2>3
    <2> QED BY <1>2, <2>3, <2>4 DEF Range
  <1>8. Range(t) = Range(s) \ {Head(s)}
    BY <1>6, <1>7
  <1> QED BY <1>4, <1>5, <1>8 DEF t

LEMMA PutLast ==
    ASSUME NEW S, NEW s \in Seq(S), IsInjective(s), NEW x \in S
    PROVE  /\ Range(Append(s, x)) = Range(s) \cup {x}
           /\ x \notin Range(s) => IsInjective(Append(s, x))
  <1> DEFINE t == Append(s, x)
  <1>1. t \in Seq(S) /\ Len(t) = Len(s) + 1 /\ (\A i \in 1..Len(s) : t[i] = s[i])
        /\ Len(s) \in Nat /\ t[Len(t)] = x
    OBVIOUS
  <1>2. DOMAIN s = 1..Len(s) /\ DOMAIN t = 1..Len(t)
    BY <1>1
  <1> HIDE DEF t
  <1>3. Range(t) = Range(s) \cup {x}
    <2>1. ASSUME NEW y \in Range(t) PROVE y \in Range(s) \cup {x}
      <3>1. PICK i \in 1..Len(t) : y = t[i]
        BY <1>2 DEF Range
      <3>2. CASE i = Len(t)
        BY <1>1, <3>1, <3>2
      <3>3. CASE i # Len(t)
        <4>1. i \in 1..Len(s)
          BY <1>1, <3>3
        <4> QED BY <1>1, <1>2, <3>1, <4>1 DEF Range
      <3> QED BY <3>2, <3>3
    <2>2. ASSUME NEW y \in Range(s) PROVE y \in Range(t)
      <3>1. PICK i \in 1..Len(s) : y = s[i]
        BY <1>2 DEF Range
      <3>2. i \in 1..Len(t) /\ t[i] = y
        BY <1>1, <3>1
      <3> QED BY <1>2, <3>2 DEF Range
    <2>3. x \in Range(t)
      BY <1>1, <1>2 DEF Range
    <2> QED BY <2>1, <2>2, <2>3
  <1>4. ASSUME x \notin Range(s) PROVE IsInjective(t)
    <2>1. \A i, j \in 1..Len(s) : s[i] = s[j] => i = j
      BY <1>2 DEF IsInjective
    <2>2. \A i \in 1..Len(s) : s[i] # x
      BY <1>2, <1>4 DEF Range
    <2> SUFFICES ASSUME NEW i \in 1..Len(t), NEW j \in 1..Len(t), t[i] = t[j] PROVE i = j
      BY <1>2 DEF IsInjective
    <2>3. \A k \in 1..Len(t) : k = Len(t) \/ (k \in 1..Len(s) /\ t[k] = s[k])
      BY <1>1
    <2> QED BY <1>1, <2>1, <2>2, <2>3
  <1> QED BY <1>3, <1>4 DEF t

LEMMA WaitingPeers ==
    ASSUME TypeOK
    PROVE  Waiting \subseteq Peers
  <1>1. backlog \in Seq(Peers) /\ queue \in Seq(Peers)
    BY DEF TypeOK
  <1>2. Range(backlog) \subseteq Peers /\ Range(queue) \subseteq Peers
    BY <1>1, RangeEquality
  <1> QED BY <1>2 DEF Waiting

LEMMA OwnershipKept ==
    ASSUME Placed, UNCHANGED <<backlog, queue, end>>,
           \A w \in Workers : worker'[w].peer = worker[w].peer,
           \A p \in Peers : peer'[p] = "new" => peer[p] = "new"
    PROVE  Ownership'
  BY DEF Placed, Ownership, Waiting, Busy

\* handle_connection returns.
LEMMA HangUpOwnership ==
    ASSUME Placed, NEW w \in Workers, Busy(w), HangUp(w), UNCHANGED <<backlog, queue, peer>>
    PROVE  Ownership'
  <1> DEFINE p == worker[w].peer
  <1>1. p \in Peers
    BY DEF Placed, TypeOK, WorkerState, Busy
  <1>2. \A v \in Workers : worker'[v].peer = IF v = w THEN NoOne ELSE worker[v].peer
    BY DEF HangUp, Idle, Placed, TypeOK
  <1>3. \A q \in Peers : end'[q] = IF q = p THEN "closed" ELSE end[q]
    BY DEF HangUp, Closed, Placed, TypeOK
  <1>4. p \notin Waiting /\ end[p] = "open" /\ Waiting \subseteq Peers /\ Waiting' = Waiting
    <2>1. p \notin Waiting /\ end[p] = "open"
      BY DEF Placed, Ownership
    <2> QED BY <2>1, WaitingPeers DEF Placed, Waiting
  <1>5. \A v \in Workers : v # w /\ Busy(v) => worker[v].peer # p /\ worker[v].peer \in Peers
    BY DEF Placed, Ownership, Busy, TypeOK, WorkerState
  <1>6. \A q \in Waiting : end'[q] = "open"
    BY <1>3, <1>4 DEF Placed, Ownership
  <1>7. \A v \in Workers : Busy(v)' => v # w /\ Busy(v)
    BY <1>2 DEF Busy
  <1>8. \A v \in Workers : Busy(v)' => worker'[v].peer \notin Waiting /\ end'[worker'[v].peer] = "open"
    BY <1>2, <1>3, <1>5, <1>7 DEF Placed, Ownership
  <1>9. \A v, x \in Workers : Busy(v)' /\ worker'[v].peer = worker'[x].peer => v = x
    BY <1>2, <1>7 DEF Placed, Ownership, Busy
  <1>10. \A q \in Peers : peer'[q] = "new" => end'[q] = "none"
    BY <1>1, <1>3, <1>4 DEF Placed, Ownership
  <1>11. IsInjective(backlog)' /\ IsInjective(queue)' /\ (Range(backlog) \cap Range(queue) = {})'
    BY DEF Placed, Ownership
  <1> QED BY <1>4, <1>6, <1>8, <1>9, <1>10, <1>11 DEF Ownership

LEMMA WorkOwnership ==
    ASSUME Placed, NEW w \in Workers, Work(w)
    PROVE  Ownership'
  <1> DEFINE p == worker[w].peer
  <1>0. worker \in [Workers -> WorkerState] /\ TypeOK /\ WorkersBusy
    BY DEF Placed, TypeOK
  <1>1. CASE HangUp(w) /\ worker[w].at \notin {"idle", "exited"} /\ UNCHANGED <<backlog, queue, peer>>
    BY <1>0, <1>1, AtPeer, HangUpOwnership
  <1>2. ASSUME NEW place, Moved(w, place), UNCHANGED <<backlog, queue, end, peer>> PROVE Ownership'
    <2>1. \A v \in Workers : worker'[v].peer = worker[v].peer
      BY <1>0, <1>2 DEF Moved, WorkerState
    <2> QED BY <1>2, <2>1, OwnershipKept
  <1>3. CASE WorkerExits(w) \/ CountConnection(w) \/ NextIsRefused(w) \/ CountBatch(w)
    BY <1>2, <1>3 DEF WorkerExits, CountConnection, NextIsRefused, CountBatch,
                      accepting, wire, history
  <1>4. CASE ReceiveEnds(w) \/ ByeEnds(w) \/ SendError(w)
    BY <1>1, <1>4 DEF ReceiveEnds, ReadsOn, ByeEnds, SendError, At, accepting, history
  <1>5. CASE Receive(w)
    <2>1. worker[w].at \notin {"idle", "exited"} /\ UNCHANGED <<backlog, queue, peer>>
      BY <1>5 DEF Receive, ReadsOn, At, accepting
    <2>2. HangUp(w) \/ UNCHANGED <<worker, end>>
      BY <1>5 DEF Receive
    <2> QED BY <1>1, <2>1, <2>2, OwnershipKept
  <1>6. CASE NextIsFrame(w)
    <2>1. \A v \in Workers : worker'[v].peer = worker[v].peer
      BY <1>0, <1>6 DEF NextIsFrame, WorkerState
    <2>2. UNCHANGED <<backlog, queue, end, peer>>
      BY <1>6 DEF NextIsFrame, accepting, wire
    <2> QED BY <2>1, <2>2, OwnershipKept
  <1>7. CASE Ingest(w)
    <2>1. \A v \in Workers : worker'[v].peer = worker[v].peer
      BY <1>0, <1>7 DEF Ingest, WorkerState
    <2>2. UNCHANGED <<backlog, queue, end, peer>>
      BY <1>7 DEF Ingest, accepting, wire
    <2> QED BY <2>1, <2>2, OwnershipKept
  <1>8. CASE Reply(w)
    <2>1. worker[w].at \notin {"idle", "exited"} /\ UNCHANGED <<backlog, queue, peer>>
      BY <1>8 DEF Reply, At, accepting
    <2>2. HangUp(w)
          \/ (/\ worker' = [worker EXCEPT ![w] = [@ EXCEPT !.at = "reading", !.frame = NoFrame, !.ok = TRUE]]
              /\ UNCHANGED end)
      BY <1>8 DEF Reply
    <2>3. HangUp(w) \/ ((\A v \in Workers : worker'[v].peer = worker[v].peer) /\ UNCHANGED end)
      <3> DEFINE z == [worker[w] EXCEPT !.at = "reading", !.frame = NoFrame, !.ok = TRUE]
      <3>1. z.peer = worker[w].peer
        BY <1>0 DEF WorkerState
      <3>2. HangUp(w) \/ (worker' = [worker EXCEPT ![w] = z] /\ UNCHANGED end)
        BY <1>0, <2>2
      <3> HIDE DEF z
      <3> QED BY <1>0, <3>1, <3>2
    <2> QED BY <1>1, <2>1, <2>3, OwnershipKept
  <1>9. CASE TakeConnection(w)
    <2> DEFINE h == Head(queue)
    <2>1. queue # <<>> /\ queue \in Seq(Peers) /\ IsInjective(queue)
          /\ queue' = Tail(queue) /\ UNCHANGED <<backlog, end, peer>>
      BY <1>9 DEF TakeConnection, Placed, TypeOK, Ownership, wire
    <2>2. h \in Range(queue) /\ Range(queue') = Range(queue) \ {h} /\ IsInjective(queue')
      BY <2>1, TakeFirst
    <2> HIDE DEF h
    <2>3. h \in Waiting /\ Waiting' = Waiting \ {h} /\ h \in Peers /\ NoOne \notin Peers
      <3>1. h \notin Range(backlog)
        BY <2>2 DEF Placed, Ownership
      <3>2. h \in Peers
        BY <2>1 DEF h
      <3> QED BY <2>1, <2>2, <3>1, <3>2, TransportAssumption DEF Waiting, Peers
    <2>4. \A v \in Workers : worker'[v].peer = IF v = w THEN h ELSE worker[v].peer
      BY <1>0, <1>9 DEF TakeConnection, h, Idle
    <2>5. ~Busy(w)
      BY <1>0, <1>9 DEF TakeConnection, At, WorkersBusy
    <2>6. \A v \in Workers : v # w /\ Busy(v)' => Busy(v)
      BY <2>4 DEF Busy
    <2>7. \A q \in Waiting' : end'[q] = "open"
      BY <2>1, <2>3 DEF Placed, Ownership
    <2>8. \A v \in Workers : Busy(v)' => worker'[v].peer \notin Waiting' /\ end'[worker'[v].peer] = "open"
      BY <2>1, <2>3, <2>4, <2>6 DEF Placed, Ownership
    <2>9. \A v, x \in Workers : Busy(v)' /\ worker'[v].peer = worker'[x].peer => v = x
      BY <2>3, <2>4 DEF Placed, Ownership, Busy
    <2>10. \A q \in Peers : peer'[q] = "new" => end'[q] = "none"
      BY <2>1 DEF Placed, Ownership
    <2>11. IsInjective(backlog)' /\ IsInjective(queue)' /\ (Range(backlog) \cap Range(queue) = {})'
      BY <2>1, <2>2 DEF Placed, Ownership
    <2> QED BY <2>7, <2>8, <2>9, <2>10, <2>11 DEF Ownership
  <1> QED BY <1>3, <1>4, <1>5, <1>6, <1>7, <1>8, <1>9 DEF Work

LEMMA AcceptOwnership ==
    ASSUME Placed, AcceptLoop \/ RequestStop
    PROVE  Ownership'
  <1> DEFINE h == Head(backlog)
  <1>1. CASE LoopStops \/ SelectIdle \/ SelectFails \/ RequestStop
    BY <1>1, OwnershipKept DEF LoopStops, SelectIdle, SelectFails, RequestStop, handling, wire
  <1>2. ASSUME backlog # <<>>, backlog' = Tail(backlog), UNCHANGED <<worker, peer>>
        PROVE  /\ h \in Range(backlog) /\ Range(backlog') = Range(backlog) \ {h}
               /\ IsInjective(backlog') /\ h \in Peers /\ h \in Waiting
               /\ (\A v \in Workers : Busy(v)' = Busy(v))
               /\ \A v \in Workers : Busy(v) => worker[v].peer # h
    <2>1. backlog \in Seq(Peers) /\ IsInjective(backlog)
      BY DEF Placed, TypeOK, Ownership
    <2>2. /\ h \in Range(backlog) /\ Range(backlog') = Range(backlog) \ {h}
          /\ IsInjective(backlog')
      BY <1>2, <2>1, TakeFirst
    <2>3. h \in Peers
      BY <1>2, <2>1
    <2> QED BY <1>2, <2>2, <2>3 DEF Placed, Ownership, Waiting, Busy
  <1> HIDE DEF h
  <1>3. CASE AcceptFails \/ AcceptRejects
    <2>1. backlog # <<>> /\ backlog' = Tail(backlog) /\ UNCHANGED <<worker, peer, queue>> /\ Closed(h)
      BY <1>3 DEF AcceptFails, AcceptRejects, handling, h
    <2>2. /\ h \in Range(backlog) /\ Range(backlog') = Range(backlog) \ {h}
          /\ IsInjective(backlog') /\ h \in Peers /\ h \in Waiting
          /\ (\A v \in Workers : Busy(v)' = Busy(v))
          /\ \A v \in Workers : Busy(v) => worker[v].peer # h
      BY <1>2, <2>1
    <2>3. \A q \in Peers : end'[q] = IF q = h THEN "closed" ELSE end[q]
      BY <2>1 DEF Closed, Placed, TypeOK
    <2>4. Waiting' = Waiting \ {h} /\ Waiting \subseteq Peers
      BY <2>1, <2>2, WaitingPeers DEF Waiting, Placed, Ownership
    <2>5. \A q \in Waiting' : end'[q] = "open"
      BY <2>3, <2>4 DEF Placed, Ownership
    <2>6. \A v \in Workers : Busy(v)' => worker'[v].peer \notin Waiting' /\ end'[worker'[v].peer] = "open"
      <3> SUFFICES ASSUME NEW v \in Workers, Busy(v)
                   PROVE  worker[v].peer \notin Waiting' /\ end'[worker[v].peer] = "open"
        BY <2>1, <2>2
      <3>1. worker[v].peer \in Peers /\ worker[v].peer # h /\ worker[v].peer \notin Waiting
            /\ end[worker[v].peer] = "open"
        BY <2>2 DEF Placed, Ownership, TypeOK, WorkerState, Busy
      <3> QED BY <2>3, <2>4, <3>1
    <2>7. \A v, x \in Workers : Busy(v)' /\ worker'[v].peer = worker'[x].peer => v = x
      BY <2>1, <2>2 DEF Placed, Ownership
    <2>8. \A q \in Peers : peer'[q] = "new" => end'[q] = "none"
      BY <2>1, <2>2, <2>3 DEF Placed, Ownership
    <2>9. IsInjective(backlog)' /\ IsInjective(queue)' /\ (Range(backlog) \cap Range(queue) = {})'
      BY <2>1, <2>2 DEF Placed, Ownership
    <2> QED BY <2>5, <2>6, <2>7, <2>8, <2>9 DEF Ownership
  <1>4. CASE AcceptQueues
    <2>1. backlog # <<>> /\ backlog' = Tail(backlog) /\ UNCHANGED <<worker, peer, end>>
          /\ queue' = Append(queue, h)
      BY <1>4 DEF AcceptQueues, handling, wire, h
    <2>2. /\ h \in Range(backlog) /\ Range(backlog') = Range(backlog) \ {h}
          /\ IsInjective(backlog') /\ h \in Peers /\ h \in Waiting
          /\ (\A v \in Workers : Busy(v)' = Busy(v))
          /\ \A v \in Workers : Busy(v) => worker[v].peer # h
      BY <1>2, <2>1
    <2>3. queue \in Seq(Peers) /\ IsInjective(queue) /\ h \notin Range(queue)
      BY <2>2 DEF Placed, TypeOK, Ownership
    <2>4. Range(queue') = Range(queue) \cup {h} /\ IsInjective(queue')
      BY <2>1, <2>2, <2>3, PutLast
    <2>5. Waiting' = Waiting
      BY <2>2, <2>4 DEF Waiting
    <2>6. (Range(backlog) \cap Range(queue) = {})'
      BY <2>2, <2>4 DEF Placed, Ownership
    <2> QED BY <2>1, <2>2, <2>4, <2>5, <2>6 DEF Placed, Ownership
  <1>5. CASE ServeReturns
    <2>1. backlog' = <<>> /\ UNCHANGED <<worker, peer, queue>>
          /\ end' = [p \in Peers |-> IF p \in Range(backlog) THEN "closed" ELSE end[p]]
      BY <1>5 DEF ServeReturns, handling
    <2>2. Range(backlog') = {} /\ IsInjective(backlog')
      BY <2>1 DEF Range, IsInjective
    <2>3. Waiting' = Range(queue) /\ Waiting \subseteq Peers
      BY <2>1, <2>2, WaitingPeers DEF Waiting, Placed
    <2>4. \A q \in Waiting' : end'[q] = "open"
      BY <2>1, <2>3 DEF Placed, Ownership, Waiting
    <2>5. \A v \in Workers : Busy(v)' => worker'[v].peer \notin Waiting' /\ end'[worker'[v].peer] = "open"
      <3> SUFFICES ASSUME NEW v \in Workers, Busy(v)
                   PROVE  worker[v].peer \notin Waiting' /\ end'[worker[v].peer] = "open"
        BY <2>1 DEF Busy
      <3>1. worker[v].peer \in Peers /\ worker[v].peer \notin Waiting /\ end[worker[v].peer] = "open"
        BY DEF Placed, Ownership, TypeOK, WorkerState, Busy
      <3> QED BY <2>1, <2>3, <3>1 DEF Waiting
    <2>6. \A q \in Peers : peer'[q] = "new" => end'[q] = "none"
      <3>1. \A q \in Range(backlog) : end[q] = "open"
        BY DEF Placed, Ownership, Waiting
      <3> QED BY <2>1, <3>1 DEF Placed, Ownership
    <2>7. \A v, x \in Workers : Busy(v)' /\ worker'[v].peer = worker'[x].peer => v = x
      BY <2>1 DEF Placed, Ownership, Busy
    <2> QED BY <2>1, <2>2, <2>4, <2>5, <2>6, <2>7 DEF Placed, Ownership
  <1> QED BY <1>1, <1>3, <1>4, <1>5 DEF AcceptLoop

LEMMA PeerOwnership ==
    ASSUME Placed, (\E c \in Clients : ClientStep(c)) \/ (\E r \in RawPeers : RawStep(r))
    PROVE  Ownership'
  <1> USE DEF accepting, handling, counting, wire, history
  <1>0. Clients \subseteq Peers /\ RawPeers \subseteq Peers
    BY DEF Peers
  <1>1. ASSUME NEW p \in Peers, NEW next \in PeerStates \ {"new"}, peer[p] = "new", Connect(p, next),
               UNCHANGED <<queue, worker>>
        PROVE  Ownership'
    <2>1. end[p] = "none" /\ p \notin Waiting /\ backlog \in Seq(Peers) /\ IsInjective(backlog)
          /\ Waiting \subseteq Peers
      <3>1. end[p] = "none" /\ IsInjective(backlog) /\ \A q \in Waiting : end[q] = "open"
        BY <1>1 DEF Placed, Ownership
      <3>2. p \notin Waiting
        BY <3>1
      <3> QED BY <3>1, <3>2, WaitingPeers DEF Placed, TypeOK
    <2>2. Range(backlog') = Range(backlog) \cup {p} /\ IsInjective(backlog')
      BY <1>1, <2>1, PutLast DEF Connect, Waiting
    <2>3. Waiting' = Waiting \cup {p}
      BY <1>1, <2>2 DEF Waiting
    <2>4. /\ \A q \in Peers : end'[q] = IF q = p THEN "open" ELSE end[q]
          /\ \A q \in Peers : peer'[q] = IF q = p THEN next ELSE peer[q]
      BY <1>1 DEF Connect, Placed, TypeOK
    <2>5. \A q \in Waiting' : end'[q] = "open"
      BY <2>1, <2>3, <2>4 DEF Placed, Ownership
    <2>6. \A v \in Workers : Busy(v)' => worker'[v].peer \notin Waiting' /\ end'[worker'[v].peer] = "open"
      <3> SUFFICES ASSUME NEW v \in Workers, Busy(v)
                   PROVE  worker[v].peer \notin Waiting' /\ end'[worker[v].peer] = "open"
        BY <1>1 DEF Busy
      <3>1. worker[v].peer \in Peers /\ worker[v].peer \notin Waiting /\ end[worker[v].peer] = "open"
        BY DEF Placed, Ownership, TypeOK, WorkerState, Busy
      <3> QED BY <2>1, <2>3, <2>4, <3>1
    <2>7. \A q \in Peers : peer'[q] = "new" => end'[q] = "none"
      BY <2>4 DEF Placed, Ownership
    <2>8. (Range(backlog) \cap Range(queue) = {})' /\ IsInjective(queue)'
      BY <1>1, <2>1, <2>2 DEF Placed, Ownership, Waiting
    <2>9. \A v, x \in Workers : Busy(v)' /\ worker'[v].peer = worker'[x].peer => v = x
      BY <1>1 DEF Placed, Ownership, Busy
    <2> QED BY <2>2, <2>5, <2>6, <2>7, <2>8, <2>9 DEF Ownership
  <1>2. ASSUME NEW p \in Peers, NEW next, next # "new", peer' = [peer EXCEPT ![p] = next],
               UNCHANGED <<backlog, queue, end, worker>>
        PROVE  Ownership'
    <2>1. \A q \in Peers : peer'[q] = "new" => peer[q] = "new"
      BY <1>2 DEF Placed, TypeOK
    <2> QED BY <1>2, <2>1, OwnershipKept
  <1>3. ASSUME NEW c \in Clients, ClientStep(c) PROVE Ownership'
    <2>0. c \in Peers
      BY <1>0
    <2>1. CASE ClientConnect(c)
      BY <1>1, <1>2, <2>0, <2>1 DEF ClientConnect, NoConnection, PeerStates
    <2>2. CASE ClientRequest(c)
      BY <1>2, <2>0, <2>2 DEF ClientRequest
    <2>3. CASE ClientAnswered(c)
      <3>1. PICK next \in {"ready", "failed"} : peer' = [peer EXCEPT ![c] = next]
        BY <2>3 DEF ClientAnswered
      <3> QED BY <1>2, <2>0, <2>3, <3>1 DEF ClientAnswered
    <2>4. CASE ClientCutOff(c)
      BY <1>2, <2>0, <2>4 DEF ClientCutOff
    <2>5. CASE ClientClose(c)
      BY <1>2, <2>0, <2>5 DEF ClientClose
    <2> QED BY <1>3, <2>1, <2>2, <2>3, <2>4, <2>5 DEF ClientStep
  <1>4. ASSUME NEW r \in RawPeers, RawStep(r) PROVE Ownership'
    <2>0. r \in Peers
      BY <1>0
    <2>1. CASE RawConnect(r)
      BY <1>1, <1>2, <2>0, <2>1 DEF RawConnect, NoConnection, PeerStates
    <2>2. CASE RawSend(r) \/ RawRead(r)
      BY <2>2, OwnershipKept DEF RawSend, RawRead
    <2>3. CASE RawClose(r)
      BY <1>2, <2>0, <2>3 DEF RawClose
    <2> QED BY <1>4, <2>1, <2>2, <2>3 DEF RawStep
  <1> QED BY <1>3, <1>4

\* Every connection is in one place at a time, and with one worker at most.
THEOREM TransportPlaced == Spec => []Placed
  <1>1. Init => Ownership
    <2> SUFFICES ASSUME Init PROVE Ownership
      OBVIOUS
    <2>1. Range(backlog) = {} /\ Range(queue) = {} /\ IsInjective(backlog) /\ IsInjective(queue)
      BY DEF Init, Range, IsInjective
    <2>2. \A w \in Workers : ~Busy(w)
      BY DEF Init, Busy, Idle
    <2>3. \A p \in Peers : end[p] = "none"
      BY DEF Init
    <2> QED BY <2>1, <2>2, <2>3 DEF Ownership, Waiting
  <1>2. TypeOK /\ WorkersBusy /\ Ownership /\ [Next]_vars => Ownership'
    <2>1. CASE UNCHANGED vars
      BY <2>1, OwnershipKept DEF vars, accepting, handling, wire, Placed
    <2> QED BY <2>1, AcceptOwnership, WorkOwnership, PeerOwnership DEF Next, Terminated, Placed
  <1> QED BY <1>1, <1>2, TransportTypes, PTL DEF Spec, Placed

-----------------------------------------------------------------------------
(* What has been handled and what is under way *)

\* Of the frames s, of which those in h have been handled, u is what is under
\* way: the rest, unless the peer has gone and some of it was lost.
Flow(s, h, gone, u) ==
    Stream(s, u, Len(h) + 1) /\ (~gone => Whole(s, u, Len(h) + 1))

InOrder(s, h) ==
    Len(h) <= Len(s) /\ \A i \in 1..Len(h) : h[i] = FrameAt(s, i) /\ s[i] \notin Damaged

Gone(p) == peer[p] = "closed"

Streams ==
    /\ \A w \in Workers : Len(reader[w]) <= MaxBuffer
    /\ \A p \in Peers : InOrder(sent[p], handled[p])
    /\ \A p \in Peers : peer[p] = "new" =>
         sent[p] = <<>> /\ handled[p] = <<>> /\ up[p] = <<>> /\ down[p] = <<>>
    /\ \A p \in Waiting :
         handled[p] = <<>> /\ down[p] = <<>> /\ Flow(sent[p], handled[p], Gone(p), up[p])
    /\ \A w \in Workers, p \in Peers :
         worker[w].peer = p => Flow(sent[p], handled[p], Gone(p), reader[w] \o up[p])

LEMMA BusyPeer ==
    ASSUME TypeOK, NEW w \in Workers, Busy(w)
    PROVE  worker[w].peer \in Peers
  BY DEF TypeOK, Busy, WorkerState

\* A step that handles no frame and sends none keeps the streams if it moves
\* units only from the socket to the reader, or ends a connection.
LEMMA StreamsKept ==
    ASSUME Placed, Streams, UNCHANGED <<sent, handled>>, Waiting' \subseteq Waiting,
           \A w \in Workers : Len(reader'[w]) <= MaxBuffer,
           \A w \in Workers, p \in Peers : worker'[w].peer = p =>
              worker[w].peer = p /\ reader'[w] \o up'[p] = reader[w] \o up[p],
           \A p \in Waiting' : up'[p] = up[p] /\ down'[p] = down[p],
           \A p \in Peers : peer'[p] = "new" => peer[p] = "new" /\ up'[p] = up[p] /\ down'[p] = down[p],
           \A p \in Peers : Gone(p) => Gone(p)'
    PROVE  Streams'
  <1>1. \A p \in Waiting' : handled'[p] = <<>> /\ down'[p] = <<>>
                            /\ Flow(sent'[p], handled'[p], Gone(p)', up'[p])
    <2> SUFFICES ASSUME NEW p \in Waiting'
                 PROVE  handled'[p] = <<>> /\ down'[p] = <<>>
                        /\ Flow(sent'[p], handled'[p], Gone(p)', up'[p])
      OBVIOUS
    <2>1. p \in Waiting /\ p \in Peers
      BY WaitingPeers DEF Placed
    <2> QED BY <2>1 DEF Streams, Flow
  <1>2. ASSUME NEW w \in Workers, NEW p \in Peers, worker'[w].peer = p
        PROVE  Flow(sent'[p], handled'[p], Gone(p)', reader'[w] \o up'[p])
    <2>1. worker[w].peer = p /\ reader'[w] \o up'[p] = reader[w] \o up[p]
      BY <1>2
    <2>2. Flow(sent[p], handled[p], Gone(p), reader[w] \o up[p])
      BY <2>1 DEF Streams
    <2>3. Gone(p) => Gone(p)'
      OBVIOUS
    <2> QED BY <2>1, <2>2, <2>3 DEF Flow
  <1> QED BY <1>1, <1>2 DEF Streams, Gone

LEMMA AcceptStreams ==
    ASSUME Placed, Streams, AcceptLoop \/ RequestStop
    PROVE  Streams'
  <1> DEFINE h == Head(backlog)
  <1>0. backlog \in Seq(Peers) /\ IsInjective(backlog)
    BY DEF Placed, TypeOK, Ownership
  <1>1. UNCHANGED <<worker, reader, sent, handled, peer>>
    BY DEF AcceptLoop, LoopStops, SelectIdle, SelectFails, RequestStop, AcceptFails, AcceptQueues,
           AcceptRejects, ServeReturns, handling, history
  <1>2. \A w \in Workers : Len(reader'[w]) <= MaxBuffer
    BY <1>1 DEF Streams
  <1>3. ASSUME Waiting' \subseteq Waiting, UNCHANGED <<up, down>> PROVE Streams'
    BY <1>1, <1>2, <1>3, StreamsKept DEF Busy, Gone
  <1>4. CASE LoopStops \/ SelectIdle \/ SelectFails \/ RequestStop
    <2>1. UNCHANGED <<backlog, queue, up, down>>
      BY <1>4 DEF LoopStops, SelectIdle, SelectFails, RequestStop, wire
    <2> QED BY <1>3, <2>1 DEF Waiting
  <1>5. CASE ServeReturns
    <2>1. UNCHANGED <<queue, up, down>> /\ Range(backlog') = {}
      BY <1>5 DEF ServeReturns, Range
    <2> QED BY <1>3, <2>1 DEF Waiting
  <1>6. CASE AcceptQueues
    <2>1. backlog # <<>> /\ backlog' = Tail(backlog) /\ queue' = Append(queue, h)
          /\ UNCHANGED <<up, down>>
      BY <1>6 DEF AcceptQueues, wire
    <2>2. h \in Range(backlog) /\ Range(backlog') \subseteq Range(backlog)
      BY <1>0, <2>1, TakeFirst
    <2>3. h \in Peers /\ queue \in Seq(Peers) /\ IsInjective(queue)
      BY <1>0, <2>1 DEF Placed, TypeOK, Ownership
    <2>4. Range(queue') = Range(queue) \cup {h}
      BY <2>1, <2>3, PutLast
    <2> QED BY <1>3, <2>1, <2>2, <2>4 DEF Waiting
  <1>7. CASE AcceptFails \/ AcceptRejects
    <2>1. backlog # <<>> /\ backlog' = Tail(backlog) /\ UNCHANGED queue /\ Closed(h)
      BY <1>7 DEF AcceptFails, AcceptRejects
    <2>2. h \in Range(backlog) /\ Range(backlog') = Range(backlog) \ {h}
      BY <1>0, <2>1, TakeFirst
    <2>3. h \in Waiting /\ Waiting' = Waiting \ {h} /\ h \in Peers
      BY <2>1, <2>2, WaitingPeers DEF Waiting, Placed, Ownership
    <2>4. \A q \in Peers : q # h => up'[q] = up[q] /\ down'[q] = down[q]
      BY <1>7, <2>1 DEF AcceptFails, AcceptRejects, Closed, Placed, TypeOK, h
    <2>5. \A w \in Workers : Busy(w) => worker[w].peer # h /\ worker[w].peer \in Peers
      BY <2>3, BusyPeer DEF Placed, Ownership
    <2>6. peer[h] # "new"
      <3>1. end[h] = "open"
        BY <2>3 DEF Placed, Ownership
      <3> QED BY <2>3, <3>1 DEF Placed, Ownership
    <2>7. \A q \in Waiting' : q \in Peers /\ q # h
      BY <2>3, WaitingPeers DEF Placed
    <2>8. \A w \in Workers, q \in Peers : worker'[w].peer = q =>
              worker[w].peer = q /\ reader'[w] \o up'[q] = reader[w] \o up[q]
      <3>1. NoOne \notin Peers
        BY TransportAssumption DEF Peers
      <3> QED BY <1>1, <2>4, <2>5, <3>1 DEF Busy
    <2> QED BY <1>1, <1>2, <2>3, <2>4, <2>6, <2>7, <2>8, StreamsKept DEF Gone
  <1> QED BY <1>4, <1>5, <1>6, <1>7 DEF AcceptLoop

\* handle_connection returns: its stream is forgotten and no other touched.
LEMMA HangUpStreams ==
    ASSUME Placed, Streams, NEW w \in Workers, Busy(w), HangUp(w),
           \A q \in Peers \ {worker[w].peer} : down'[q] = down[q],
           UNCHANGED <<backlog, queue, sent, handled, peer>>
    PROVE  Streams'
  <1> DEFINE p == worker[w].peer
  <1>1. p \in Peers /\ p \notin Waiting /\ end[p] = "open" /\ peer[p] # "new" /\ Waiting' = Waiting
    BY BusyPeer DEF Placed, Ownership, Waiting
  <1>2. \A v \in Workers : /\ v # w => worker'[v] = worker[v] /\ reader'[v] = reader[v]
                           /\ v = w => ~Busy(v)' /\ reader'[v] = <<>>
    BY DEF HangUp, Busy, Idle, Placed, TypeOK
  <1>3. \A q \in Peers : q # p => up'[q] = up[q]
    BY DEF HangUp, Closed, Placed, TypeOK
  <1>4. \A v \in Workers : v # w /\ Busy(v) => worker[v].peer # p /\ worker[v].peer \in Peers
    BY BusyPeer DEF Placed, Ownership
  <1>5. NoOne \notin Peers
    BY TransportAssumption DEF Peers
  <1>6. \A v \in Workers, q \in Peers : worker'[v].peer = q =>
              worker[v].peer = q /\ reader'[v] \o up'[q] = reader[v] \o up[q]
    BY <1>2, <1>3, <1>4, <1>5 DEF Busy
  <1>7. \A v \in Workers : Len(reader'[v]) <= MaxBuffer
    <2>1. Len(<<>>) <= MaxBuffer
      BY TransportAssumption
    <2> QED BY <1>2, <2>1 DEF Streams
  <1>8. \A q \in Waiting' : up'[q] = up[q] /\ down'[q] = down[q]
    BY <1>1, <1>3, WaitingPeers DEF Placed
  <1>9. \A q \in Peers : peer'[q] = "new" => peer[q] = "new" /\ up'[q] = up[q] /\ down'[q] = down[q]
    BY <1>1, <1>3
  <1> QED BY <1>1, <1>6, <1>7, <1>8, <1>9, StreamsKept DEF Gone

\* A worker that stays with its connection, and neither reads nor handles
\* anything, leaves the streams alone.
LEMMA WorkerStays ==
    ASSUME Placed, Streams, NEW w \in Workers,
           \A v \in Workers : worker'[v].peer = worker[v].peer,
           \A q \in Peers \ {worker[w].peer} : down'[q] = down[q],
           UNCHANGED <<reader, up, sent, handled, peer, backlog, queue>>
    PROVE  Streams'
  <1>1. Waiting' = Waiting
    BY DEF Waiting
  <1>2. \A q \in Waiting : q \in Peers /\ q # worker[w].peer
    <2>1. CASE Busy(w)
      BY <2>1, WaitingPeers DEF Placed, Ownership
    <2>2. CASE ~Busy(w)
      BY <2>2, WaitingPeers, TransportAssumption DEF Placed, Busy, Peers
    <2> QED BY <2>1, <2>2
  <1>3. \A q \in Peers : peer[q] = "new" => q # worker[w].peer
    <2>1. CASE Busy(w)
      BY <2>1 DEF Placed, Ownership
    <2>2. CASE ~Busy(w)
      BY <2>2, TransportAssumption DEF Busy, Peers
    <2> QED BY <2>1, <2>2
  <1>4. \A v \in Workers : Len(reader'[v]) <= MaxBuffer
    BY DEF Streams
  <1> QED BY <1>1, <1>2, <1>3, <1>4, StreamsKept DEF Gone

LEMMA TakeStreams ==
    ASSUME Placed, Streams, NEW w \in Workers, TakeConnection(w)
    PROVE  Streams'
  <1> DEFINE h == Head(queue)
  <1>1. /\ queue # <<>> /\ queue' = Tail(queue) /\ reader' = [reader EXCEPT ![w] = <<>>]
        /\ UNCHANGED <<sent, handled, peer, up, down, backlog>>
    BY DEF TakeConnection, wire, history
  <1>2. queue \in Seq(Peers) /\ IsInjective(queue)
    BY DEF Placed, TypeOK, Ownership
  <1>3. h \in Range(queue) /\ Range(queue') = Range(queue) \ {h}
    BY <1>1, <1>2, TakeFirst
  <1>4. h \in Waiting /\ Waiting' \subseteq Waiting /\ h \in Peers
    BY <1>1, <1>3, WaitingPeers DEF Waiting, Placed
  <1>5. /\ \A v \in Workers : v # w => worker'[v] = worker[v] /\ reader'[v] = reader[v]
        /\ worker'[w].peer = h /\ reader'[w] = <<>>
    BY DEF TakeConnection, Idle, Placed, TypeOK
  <1>6. \A v \in Workers : Len(reader'[v]) <= MaxBuffer
    <2>1. Len(<<>>) <= MaxBuffer
      BY TransportAssumption
    <2> QED BY <1>5, <2>1 DEF Streams
  <1>7. Flow(sent[h], handled[h], Gone(h), up[h]) /\ <<>> \o up[h] = up[h]
    <2>1. up[h] \in Seq(Unit)
      BY <1>4 DEF Placed, TypeOK
    <2> QED BY <1>4, <2>1 DEF Streams
  <1>8. ASSUME NEW v \in Workers, NEW p \in Peers, worker'[v].peer = p
        PROVE  Flow(sent'[p], handled'[p], Gone(p)', reader'[v] \o up'[p])
    <2>1. CASE v = w
      BY <1>1, <1>5, <1>7, <1>8, <2>1 DEF Gone
    <2>2. CASE v # w
      BY <1>1, <1>5, <1>8, <2>2 DEF Streams, Gone
    <2> QED BY <2>1, <2>2
  <1>9. \A p \in Waiting' : handled'[p] = <<>> /\ down'[p] = <<>>
                            /\ Flow(sent'[p], handled'[p], Gone(p)', up'[p])
    BY <1>1, <1>4 DEF Streams, Gone
  <1> QED BY <1>1, <1>6, <1>8, <1>9 DEF Streams

LEMMA ReceiveStreams ==
    ASSUME Placed, Streams, NEW w \in Workers, Receive(w)
    PROVE  Streams'
  <1> DEFINE p == worker[w].peer
  <1>1. At(w, "reading") /\ UNCHANGED <<backlog, queue, sent, handled, peer>>
    BY DEF Receive, ReadsOn, accepting, history
  <1>2. p \in Peers /\ Busy(w) /\ up[p] \in Seq(Unit) /\ reader[w] \in Seq(Unit)
    BY <1>1, AtPeer DEF At, Placed, TypeOK
  <1>3. PICK k \in 1..Len(up[p]) :
            \/ /\ Len(reader[w]) + k <= MaxBuffer
               /\ reader' = [reader EXCEPT ![w] = @ \o SubSeq(up[p], 1, k)]
               /\ up' = [up EXCEPT ![p] = SubSeq(@, k + 1, Len(@))]
               /\ UNCHANGED <<worker, end, down>>
            \/ HangUp(w) /\ MayLose(w)
    BY DEF Receive
  <1>4. CASE HangUp(w) /\ MayLose(w)
    <2>1. \A q \in Peers \ {p} : down'[q] = down[q]
      BY <1>4 DEF MayLose, Placed, TypeOK
    <2> QED BY <1>1, <1>2, <1>4, <2>1, HangUpStreams
  <1>5. CASE ~(HangUp(w) /\ MayLose(w))
    <2> DEFINE a == reader[w] \o SubSeq(up[p], 1, k)
               b == SubSeq(up[p], k + 1, Len(up[p]))
    <2>1. Len(reader[w]) + k <= MaxBuffer /\ reader' = [reader EXCEPT ![w] = a]
          /\ up' = [up EXCEPT ![p] = b] /\ UNCHANGED <<worker, down>>
      BY <1>3, <1>5
    <2>2. Len(a) = Len(reader[w]) + k /\ a \o b = reader[w] \o up[p]
      BY <1>2, ReceiveSplits
    <2> HIDE DEF a, b
    <2>3. /\ reader'[w] = a /\ up'[p] = b
          /\ \A v \in Workers : v # w => reader'[v] = reader[v]
          /\ \A q \in Peers : q # p => up'[q] = up[q]
      BY <1>2, <2>1 DEF Placed, TypeOK
    <2>4. \A v \in Workers : v # w => worker[v].peer # p
      BY <1>2 DEF Placed, Ownership
    <2>5. \A v \in Workers, q \in Peers : worker'[v].peer = q =>
              worker[v].peer = q /\ reader'[v] \o up'[q] = reader[v] \o up[q]
      BY <2>1, <2>2, <2>3, <2>4
    <2>6. \A v \in Workers : Len(reader'[v]) <= MaxBuffer
      BY <2>1, <2>2, <2>3 DEF Streams
    <2>7. Waiting' = Waiting /\ p \notin Waiting /\ peer[p] # "new"
      BY <1>1, <1>2 DEF Waiting, Placed, Ownership
    <2>8. \A q \in Waiting : q \in Peers /\ q # p
      BY <2>7, WaitingPeers DEF Placed
    <2> QED BY <1>1, <2>1, <2>3, <2>5, <2>6, <2>7, <2>8, StreamsKept DEF Gone
  <1> QED BY <1>3, <1>4, <1>5

\* The frame in front of a reader is the next one the peer sent.
LEMMA FrameIsNext ==
    ASSUME Placed, Streams, NEW w \in Workers, NEW p \in Peers, p = worker[w].peer,
           DecodeFrame(reader[w]) # "incomplete"
    PROVE  /\ reader[w][1][1] = FrameAt(sent[p], Len(handled[p]) + 1)
           /\ Len(handled[p]) + 1 \in 1..Len(sent[p])
           /\ reader[w][1][1].n = Len(handled[p]) + 1
  <1> DEFINE u == reader[w] \o up[p]
             i == Len(handled[p]) + 1
  <1>1. reader[w] \in Seq(Unit) /\ up[p] \in Seq(Unit)
    BY DEF Placed, TypeOK
  <1>2. reader[w] # <<>>
    BY <1>1, FirstFrame
  <1>3. Stream(sent[p], u, i)
    BY DEF Streams, Flow
  <1> HIDE DEF i, u
  <1>4. u \in Seq(Unit) /\ Concat(reader[w], up[p], u)
    BY <1>1, Concatenated DEF u
  <1>5. 1 \in 1..Len(reader[w]) /\ u[1] = reader[w][1]
    <2>1. 1 \in 1..Len(reader[w])
      BY <1>1, <1>2
    <2> QED BY <1>4, <2>1 DEF Concat
  <1>6. u # <<>>
    <2>1. Len(u) = Len(reader[w]) + Len(up[p])
      BY <1>4 DEF Concat
    <2>2. \A x, y, z \in Nat : 1 \in 1..x /\ z = x + y => z # 0
      OBVIOUS
    <2>3. Len(reader[w]) \in Nat /\ Len(up[p]) \in Nat /\ Len(u) \in Nat
      BY <1>1, <1>4
    <2>4. Len(u) # 0
      BY <1>5, <2>1, <2>2, <2>3, Zenon
    <2> QED BY <1>4, <2>4
  <1>7. u[1] = <<FrameAt(sent[p], i), "header">> /\ i \in 1..(Len(sent[p]) + 1) /\ i <= Len(sent[p])
    BY <1>3, <1>6 DEF Stream
  <1>8. reader[w][1][1] = FrameAt(sent[p], i)
    BY <1>5, <1>7
  <1>9. Len(sent[p]) \in Nat
    BY DEF Placed, TypeOK
  <1> QED BY <1>7, <1>8, <1>9 DEF FrameAt, i

\* handle_frame is called with the next frame the peer sent.
LEMMA FrameStreams ==
    ASSUME Placed, Streams, NEW w \in Workers, NextIsFrame(w)
    PROVE  Streams'
  <1>2. PICK p \in Peers : p = worker[w].peer /\ Busy(w)
    BY AtPeer DEF NextIsFrame, At, Placed
  <1> DEFINE f == reader[w][1][1]
             m == Len(Units(f))
             i == Len(handled[p]) + 1
  <1>1. At(w, "reading") /\ DecodeFrame(reader[w]) = "complete"
        /\ UNCHANGED <<backlog, queue, sent, peer, up, down>>
        /\ handled' = [handled EXCEPT ![p] = Append(@, f)]
        /\ reader' = [reader EXCEPT ![w] = Consumed(reader[w])]
    BY <1>2 DEF NextIsFrame, accepting, wire, Placed, TypeOK
  <1>3. up[p] \in Seq(Unit) /\ reader[w] \in Seq(Unit) /\ sent[p] \in Seq(FrameTypes)
        /\ handled[p] \in Seq(Frame)
    BY <1>2 DEF Placed, TypeOK
  <1>4. reader[w] # <<>> /\ f \in Frame /\ m \in 1..2 /\ m <= Len(reader[w]) /\ f.type \notin Damaged
    BY <1>1, <1>3, FirstFrame
  <1>5. Flow(sent[p], handled[p], Gone(p), reader[w] \o up[p])
    BY <1>2 DEF Streams
  <1> DEFINE u == reader[w] \o up[p]
             v == SubSeq(u, m + 1, Len(u))
  <1>6. u # <<>> /\ u[1][1] = f /\ m <= Len(u)
    <2> HIDE DEF u
    <2>1. u \in Seq(Unit) /\ Concat(reader[w], up[p], u)
      BY <1>3, Concatenated DEF u
    <2>2. 1 \in 1..Len(reader[w]) /\ Len(u) = Len(reader[w]) + Len(up[p])
      BY <1>3, <1>4, <2>1 DEF Concat
    <2>3. u[1] = reader[w][1]
      BY <2>1, <2>2 DEF Concat
    <2>4. u # <<>> /\ Len(reader[w]) <= Len(u)
      <3>1. Len(up[p]) \in Nat /\ Len(reader[w]) \in Nat /\ Len(u) \in Nat
        BY <1>3, <2>1
      <3>2. \A x, y, z \in Nat : 1 \in 1..x /\ z = x + y => x <= z /\ z # 0
        OBVIOUS
      <3>3. Len(reader[w]) <= Len(u) /\ Len(u) # 0
        BY <2>2, <3>1, <3>2, Zenon
      <3> QED BY <2>1, <3>3
    <2>5. u[1][1] = f
      BY <2>3
    <2> HIDE DEF m
    <2>6. m <= Len(u)
      BY <1>3, <1>4, <2>1, <2>4
    <2> QED BY <2>4, <2>5, <2>6
  <1>7. Consumed(reader[w]) \o up[p] = v /\ Len(Consumed(reader[w])) <= Len(reader[w])
    BY <1>3, <1>4, ConsumeSplits DEF Consumed
  <1>8. /\ f = FrameAt(sent[p], i) /\ i \in 1..Len(sent[p]) /\ Stream(sent[p], v, i + 1)
        /\ Whole(sent[p], u, i) => Whole(sent[p], v, i + 1)
    <2> HIDE DEF u
    <2> DEFINE n == Len(Units(u[1][1]))
    <2>1. Stream(sent[p], u, i)
      BY <1>5 DEF Flow, u
    <2>2. n = m /\ n <= Len(u)
      BY <1>6
    <2> HIDE DEF m, i, n
    <2>3. n = Len(Units(u[1][1]))
      BY DEF n
    <2> QED BY <1>3, <1>6, <2>1, <2>2, <2>3, StreamConsume
  <1>9. handled'[p] = Append(handled[p], f) /\ \A q \in Peers : q # p => handled'[q] = handled[q]
    BY <1>1, <1>2 DEF Placed, TypeOK
  <1>10. Len(handled'[p]) = i /\ handled'[p][i] = f
         /\ \A j \in 1..Len(handled[p]) : handled'[p][j] = handled[p][j]
    BY <1>3, <1>4, <1>9
  <1>11. Flow(sent'[p], handled'[p], Gone(p)', Consumed(reader[w]) \o up[p])
    <2> HIDE DEF u, v, m, f
    <2>1. Gone(p)' = Gone(p) /\ sent'[p] = sent[p]
      BY <1>1 DEF Gone
    <2>2. ~Gone(p) => Whole(sent[p], u, i)
      BY <1>5 DEF Flow, u
    <2> HIDE DEF i
    <2> QED BY <1>7, <1>8, <1>10, <2>1, <2>2 DEF Flow
  <1>12. InOrder(sent[p], handled'[p])
    <2>1. f.type = sent[p][i] /\ sent[p][i] \notin Damaged
      BY <1>4, <1>8 DEF FrameAt
    <2>2. InOrder(sent[p], handled[p])
      BY <1>2 DEF Streams
    <2>3. \A j \in 1..i : j = i \/ j \in 1..Len(handled[p])
      BY <1>3
    <2> HIDE DEF f, u, v, m
    <2> QED BY <1>8, <1>10, <2>1, <2>2, <2>3 DEF InOrder
  <1>13. \A x \in Workers : /\ worker'[x].peer = worker[x].peer
                            /\ x # w => reader'[x] = reader[x] /\ worker[x].peer # p
                            /\ x = w => reader'[x] = Consumed(reader[w])
    BY <1>1, <1>2 DEF NextIsFrame, Placed, TypeOK, Ownership, WorkerState
  <1>14. ASSUME NEW x \in Workers, NEW q \in Peers, worker'[x].peer = q
         PROVE  Flow(sent'[q], handled'[q], Gone(q)', reader'[x] \o up'[q])
    <2>1. CASE x = w
      <3>1. q = p /\ reader'[x] = Consumed(reader[w]) /\ up'[p] = up[p]
        BY <1>1, <1>2, <1>13, <1>14, <2>1
      <3> QED BY <1>11, <3>1
    <2>2. CASE x # w
      BY <1>1, <1>9, <1>13, <1>14, <2>2 DEF Streams, Gone
    <2> QED BY <2>1, <2>2
  <1>15. \A x \in Workers : Len(reader'[x]) <= MaxBuffer
    <2>1. Consumed(reader[w]) \in Seq(Unit) /\ Len(reader[w]) <= MaxBuffer
      BY <1>3, <1>4, ConsumeSplits DEF Consumed, Streams
    <2>2. Len(Consumed(reader[w])) <= MaxBuffer
      BY <1>3, <1>7, <2>1, TransportAssumption
    <2> QED BY <1>13, <2>2 DEF Streams
  <1>16. p \notin Waiting /\ peer[p] # "new" /\ Waiting' = Waiting
    BY <1>1, <1>2 DEF Placed, Ownership, Waiting
  <1>17. \A q \in Waiting : q \in Peers /\ q # p
    BY <1>16, WaitingPeers DEF Placed
  <1> HIDE DEF f, m, i, u, v
  <1>18. \A q \in Peers : InOrder(sent'[q], handled'[q])
    BY <1>1, <1>9, <1>12 DEF Streams
  <1>19. \A q \in Peers : peer'[q] = "new" =>
            sent'[q] = <<>> /\ handled'[q] = <<>> /\ up'[q] = <<>> /\ down'[q] = <<>>
    BY <1>1, <1>9, <1>16 DEF Streams
  <1>20. \A q \in Waiting' : handled'[q] = <<>> /\ down'[q] = <<>>
                             /\ Flow(sent'[q], handled'[q], Gone(q)', up'[q])
    BY <1>1, <1>9, <1>16, <1>17 DEF Streams, Gone
  <1> QED BY <1>14, <1>15, <1>18, <1>19, <1>20 DEF Streams

LEMMA WorkStreams ==
    ASSUME Placed, Streams, NEW w \in Workers, Work(w)
    PROVE  Streams'
  <1> DEFINE p == worker[w].peer
  <1>1. ASSUME Busy(w), HangUp(w), UNCHANGED <<backlog, queue, sent, handled, peer>>,
               \/ UNCHANGED down
               \/ MayLose(w)
               \/ \E d : down' = [down EXCEPT ![p] = d]
        PROVE  Streams'
    <2>1. \A q \in Peers \ {p} : down'[q] = down[q]
      BY <1>1 DEF MayLose, Placed, TypeOK
    <2> QED BY <1>1, <2>1, HangUpStreams
  <1>2. worker[w] \in WorkerState /\ \A v \in Workers : worker[v] \in WorkerState
    BY DEF Placed, TypeOK
  <1>3. CASE WorkerExits(w) \/ CountConnection(w) \/ NextIsRefused(w) \/ CountBatch(w)
    <2>1. UNCHANGED <<reader, up, down, sent, handled, peer, backlog, queue>> /\ \E x : Moved(w, x)
      BY <1>3 DEF WorkerExits, CountConnection, NextIsRefused, CountBatch, accepting, wire, history
    <2>2. \A v \in Workers : worker'[v].peer = worker[v].peer
      BY <1>2, <2>1 DEF Moved, Placed, TypeOK, WorkerState
    <2> QED BY <2>1, <2>2, WorkerStays
  <1>4. CASE TakeConnection(w)
    BY <1>4, TakeStreams
  <1>5. CASE Receive(w)
    BY <1>5, ReceiveStreams
  <1>6. CASE ReceiveEnds(w) \/ ByeEnds(w)
    <2>1. At(w, "reading") /\ HangUp(w) /\ (UNCHANGED down \/ MayLose(w))
          /\ UNCHANGED <<backlog, queue, sent, handled, peer>>
      BY <1>6 DEF ReceiveEnds, ByeEnds, ReadsOn, accepting, history
    <2>2. Busy(w)
      BY <2>1, AtPeer DEF At, Placed
    <2> QED BY <1>1, <2>1, <2>2
  <1>7. CASE NextIsFrame(w)
    BY <1>7, FrameStreams
  <1>8. CASE SendError(w)
    <2>1. At(w, "error") /\ HangUp(w) /\ (\E d : down' = [down EXCEPT ![p] = d])
          /\ UNCHANGED <<backlog, queue, sent, handled, peer>>
      BY <1>8 DEF SendError, accepting, history
    <2>2. Busy(w)
      BY <2>1, AtPeer DEF At, Placed
    <2> QED BY <1>1, <2>1, <2>2
  <1>9. CASE Ingest(w)
    <2>1. UNCHANGED <<reader, up, down, sent, handled, peer, backlog, queue>>
          /\ \E ok \in BOOLEAN : worker' = [worker EXCEPT ![w].at = "count", ![w].ok = ok]
      BY <1>9 DEF Ingest, accepting, wire
    <2>2. \A v \in Workers : worker'[v].peer = worker[v].peer
      BY <1>2, <2>1 DEF Placed, TypeOK, WorkerState
    <2> QED BY <2>1, <2>2, WorkerStays
  <1>10. CASE Reply(w)
    <2>1. At(w, "reply") /\ UNCHANGED <<backlog, queue, sent, handled, peer>>
      BY <1>10 DEF Reply, accepting, history
    <2>2. Busy(w) /\ p \in Peers
      BY <2>1, AtPeer DEF At, Placed
    <2>3. CASE HangUp(w) /\ UNCHANGED down
      BY <1>1, <2>1, <2>2, <2>3
    <2>4. CASE ~(HangUp(w) /\ UNCHANGED down)
      <3> DEFINE z == [worker[w] EXCEPT !.at = "reading", !.frame = NoFrame, !.ok = TRUE]
      <3>1. /\ down' = IF peer[p] = "closed" THEN down ELSE [down EXCEPT ![p] = Append(@, Answer(w))]
            /\ worker' = [worker EXCEPT ![w] = z]
            /\ UNCHANGED <<reader, up>>
        BY <1>10, <2>4 DEF Reply, Placed, TypeOK
      <3>2. z.peer = p
        BY <1>2 DEF WorkerState
      <3> HIDE DEF z
      <3>3. \A v \in Workers : worker'[v].peer = worker[v].peer
        BY <3>1, <3>2 DEF Placed, TypeOK
      <3>4. \A q \in Peers \ {p} : down'[q] = down[q]
        BY <3>1 DEF Placed, TypeOK
      <3> QED BY <2>1, <3>1, <3>3, <3>4, WorkerStays
    <2> QED BY <2>3, <2>4
  <1> QED BY <1>3, <1>4, <1>5, <1>6, <1>7, <1>8, <1>9, <1>10 DEF Work

\* SendFrame prolongs the stream of the one peer that sends.
LEMMA SendStreams ==
    ASSUME Placed, Streams, NEW p \in Peers, NEW type \in FrameTypes, SendFrame(p, type),
           peer[p] # "closed", UNCHANGED <<worker, reader, handled>>
    PROVE  /\ \A q \in Peers : q # p => sent'[q] = sent[q] /\ up'[q] = up[q]
           /\ InOrder(sent'[p], handled'[p])
           /\ Flow(sent[p], handled[p], FALSE, up[p]) /\ end[p] # "closed"
                => Flow(sent'[p], handled'[p], FALSE, up'[p])
           /\ \A w \in Workers : worker[w].peer = p
                => Flow(sent'[p], handled'[p], FALSE, reader'[w] \o up'[p])
  <1> DEFINE f == [type |-> type, n |-> Len(sent[p]) + 1]
             a == Units(f)
             t == Append(sent[p], type)
  <1>1. up[p] \in Seq(Unit) /\ sent[p] \in Seq(FrameTypes) /\ handled[p] \in Seq(Frame)
    BY DEF Placed, TypeOK
  <1>2. sent'[p] = t /\ \A q \in Peers : q # p => sent'[q] = sent[q] /\ up'[q] = up[q]
    BY DEF SendFrame, Placed, TypeOK
  <1>3. end[p] # "closed" => up'[p] = up[p] \o a
    BY DEF SendFrame, Placed, TypeOK
  <1>4. f \in Frame /\ a \in Seq(Unit)
    BY <1>1, UnitsType DEF Frame
  <1>5. Len(t) = Len(sent[p]) + 1 /\ \A j \in 1..Len(sent[p]) : t[j] = sent[p][j]
    BY <1>1
  <1> HIDE DEF t
  <1>6. InOrder(t, handled[p])
    <2>1. InOrder(sent[p], handled[p])
      BY DEF Streams
    <2>2. Len(handled[p]) \in Nat /\ Len(sent[p]) \in Nat
      BY <1>1
    <2>3. Len(handled[p]) <= Len(sent[p])
      BY <2>1 DEF InOrder
    <2>4. \A j \in 1..Len(handled[p]) : j \in 1..Len(sent[p])
      BY <2>2, <2>3
    <2> QED BY <1>5, <2>1, <2>2, <2>3, <2>4 DEF InOrder, FrameAt
  <1>7. ASSUME NEW u, Flow(sent[p], handled[p], FALSE, u)
        PROVE  Flow(t, handled[p], FALSE, u \o a)
    <2> DEFINE i == Len(handled[p]) + 1
    <2>1. Stream(sent[p], u, i) /\ Whole(sent[p], u, i)
      BY <1>7 DEF Flow
    <2>2. u \in Seq(Unit)
      BY <2>1 DEF Stream
    <2> HIDE DEF i, f, a
    <2>3. PICK x \in Seq(Unit) : x = u \o a /\ Concat(u, a, x)
      BY <1>4, <2>2, Concatenated
    <2>4. Concat(u, Units([type |-> type, n |-> Len(sent[p]) + 1]), x)
      BY <2>3 DEF a, f
    <2>5. Stream(Append(sent[p], type), x, i) /\ Whole(Append(sent[p], type), x, i)
      <3>1. sent[p] \in Seq(FrameTypes)
        BY <1>1
      <3> QED BY <2>1, <2>4, <3>1, StreamExtend
    <2>6. Stream(t, x, i) /\ Whole(t, x, i)
      BY <2>5 DEF t
    <2> QED BY <2>3, <2>6 DEF Flow, i
  <1>8. ASSUME NEW w \in Workers, worker[w].peer = p
        PROVE  Flow(sent'[p], handled'[p], FALSE, reader'[w] \o up'[p])
    <2>1. NoOne # p /\ Busy(w)
      BY <1>8, TransportAssumption DEF Peers, Busy
    <2>2. up'[p] = up[p] \o a
      BY <1>3, <1>8, <2>1 DEF Placed, Ownership
    <2>3. Flow(sent[p], handled[p], FALSE, reader[w] \o up[p])
      BY <1>8 DEF Streams, Flow, Gone
    <2>4. Flow(t, handled[p], FALSE, (reader[w] \o up[p]) \o a)
      BY <1>7, <2>3
    <2>5. reader[w] \in Seq(Unit)
      BY DEF Placed, TypeOK
    <2>6. (reader[w] \o up[p]) \o a = reader[w] \o (up[p] \o a)
      <3>1. reader[w] \in Seq(Unit) /\ up[p] \in Seq(Unit) /\ a \in Seq(Unit)
        BY <1>1, <1>4, <2>5
      <3> HIDE DEF a
      <3> QED BY <3>1, Regrouped
    <2> QED BY <1>2, <2>2, <2>4, <2>6
  <1> QED BY <1>2, <1>3, <1>6, <1>7, <1>8

LEMMA ConnectWaiting ==
    ASSUME Placed, NEW p \in Peers, NEW next, Connect(p, next), UNCHANGED queue
    PROVE  Waiting' = Waiting \cup {p}
  <1>1. backlog \in Seq(Peers) /\ IsInjective(backlog)
    BY DEF Placed, TypeOK, Ownership
  <1>2. Range(backlog') = Range(backlog) \cup {p}
    BY <1>1, PutLast DEF Connect
  <1> QED BY <1>2 DEF Waiting

\* What one peer does leaves the streams of the others alone.
LEMMA PeerAlone ==
    ASSUME Placed, Streams, NEW p \in Peers, UNCHANGED <<worker, reader, handled>>,
           \A q \in Peers : q # p => /\ sent'[q] = sent[q] /\ up'[q] = up[q]
                                     /\ down'[q] = down[q] /\ peer'[q] = peer[q],
           Waiting' \subseteq Waiting \cup {p}, peer'[p] # "new",
           InOrder(sent'[p], handled'[p]),
           p \in Waiting' => /\ handled'[p] = <<>> /\ down'[p] = <<>>
                             /\ Flow(sent'[p], handled'[p], Gone(p)', up'[p]),
           \A w \in Workers : worker[w].peer = p =>
                Flow(sent'[p], handled'[p], Gone(p)', reader'[w] \o up'[p])
    PROVE  Streams'
  <1>1. \A w \in Workers : Len(reader'[w]) <= MaxBuffer
    BY DEF Streams
  <1>2. \A q \in Peers : InOrder(sent'[q], handled'[q])
    BY DEF Streams
  <1>3. \A q \in Peers : peer'[q] = "new" =>
            sent'[q] = <<>> /\ handled'[q] = <<>> /\ up'[q] = <<>> /\ down'[q] = <<>>
    BY DEF Streams
  <1>4. \A q \in Waiting' : handled'[q] = <<>> /\ down'[q] = <<>>
                            /\ Flow(sent'[q], handled'[q], Gone(q)', up'[q])
    BY WaitingPeers DEF Streams, Gone, Placed
  <1>5. \A w \in Workers, q \in Peers : worker'[w].peer = q =>
            Flow(sent'[q], handled'[q], Gone(q)', reader'[w] \o up'[q])
    BY DEF Streams, Gone
  <1> QED BY <1>1, <1>2, <1>3, <1>4, <1>5 DEF Streams

LEMMA PeerStreams ==
    ASSUME Placed, Streams, (\E c \in Clients : ClientStep(c)) \/ (\E r \in RawPeers : RawStep(r))
    PROVE  Streams'
  <1> USE DEF accepting, handling, counting, wire, history
  <1>0. /\ Clients \subseteq Peers /\ RawPeers \subseteq Peers
        /\ {"Hello", "Batch", "StatusRequest", "Bye"} \subseteq FrameTypes
    BY DEF Peers, FrameTypes
  <1>1. \A s, h, u, g : Flow(s, h, FALSE, u) => Flow(s, h, g, u)
    BY DEF Flow
  <1>2. \A p \in Waiting : p \in Peers /\ end[p] = "open"
    BY WaitingPeers DEF Placed, Ownership
  <1>3. \A w \in Workers, p \in Peers : worker[w].peer = p => end[p] = "open"
    <2>1. NoOne \notin Peers
      BY TransportAssumption DEF Peers
    <2> QED BY <2>1 DEF Placed, Ownership, Busy
  <1>4. /\ peer \in [Peers -> PeerStates] /\ down \in [Peers -> Seq(AnswerFrame)]
        /\ up \in [Peers -> Seq(Unit)] /\ sent \in [Peers -> Seq(FrameTypes)]
    BY DEF Placed, TypeOK
  <1>5. ASSUME NEW p \in Peers, peer[p] = "new"
        PROVE  /\ p \notin Waiting /\ \A w \in Workers : worker[w].peer # p
               /\ sent[p] = <<>> /\ handled[p] = <<>> /\ up[p] = <<>> /\ down[p] = <<>>
               /\ Flow(sent[p], handled[p], FALSE, up[p]) /\ end[p] = "none"
    <2>1. end[p] = "none" /\ sent[p] = <<>> /\ handled[p] = <<>> /\ up[p] = <<>> /\ down[p] = <<>>
      BY <1>5 DEF Placed, Ownership, Streams
    <2>2. sent[p] \in Seq(FrameTypes) /\ Len(sent[p]) = Len(handled[p])
      BY <2>1
    <2>3. Flow(sent[p], handled[p], FALSE, up[p])
      BY <2>1, <2>2, StreamEmpty DEF Flow
    <2> QED BY <1>2, <1>3, <2>1, <2>3
  <1>6. ASSUME NEW p \in Peers, peer[p] = "new", NoConnection(p),
               UNCHANGED <<worker, reader, handled, queue, down>>
        PROVE  Streams'
    <2>1. Waiting' = Waiting /\ UNCHANGED <<sent, up>> /\ peer' = [peer EXCEPT ![p] = "closed"]
      BY <1>6 DEF NoConnection, Waiting
    <2>2. peer'[p] = "closed" /\ \A q \in Peers : q # p => peer'[q] = peer[q]
      BY <1>4, <2>1
    <2>3. InOrder(sent'[p], handled'[p])
      BY <1>6, <2>1 DEF Streams
    <2> QED BY <1>5, <1>6, <2>1, <2>2, <2>3, PeerAlone
  <1>7. ASSUME NEW p \in Peers, NEW type \in FrameTypes, SendFrame(p, type),
               peer[p] # "closed", peer'[p] # "new",
               UNCHANGED <<worker, reader, handled>>, Waiting' \subseteq Waiting \cup {p},
               p \in Waiting' => p \in Waiting \/ peer[p] = "new",
               \A q \in Peers : q # p => down'[q] = down[q] /\ peer'[q] = peer[q],
               down'[p] = down[p] \/ down'[p] = <<>>
        PROVE  Streams'
    <2>1. /\ \A q \in Peers : q # p => sent'[q] = sent[q] /\ up'[q] = up[q]
          /\ InOrder(sent'[p], handled'[p])
          /\ Flow(sent[p], handled[p], FALSE, up[p]) /\ end[p] # "closed"
               => Flow(sent'[p], handled'[p], FALSE, up'[p])
          /\ \A w \in Workers : worker[w].peer = p
               => Flow(sent'[p], handled'[p], FALSE, reader'[w] \o up'[p])
      BY <1>7, SendStreams
    <2>2. p \in Waiting => /\ Flow(sent[p], handled[p], FALSE, up[p]) /\ end[p] # "closed"
                           /\ handled[p] = <<>> /\ down[p] = <<>>
      BY <1>2, <1>7 DEF Streams, Flow, Gone
    <2>3. p \in Waiting' => /\ handled'[p] = <<>> /\ down'[p] = <<>>
                            /\ Flow(sent'[p], handled'[p], Gone(p)', up'[p])
      BY <1>1, <1>5, <1>7, <2>1, <2>2
    <2>4. \A w \in Workers : worker[w].peer = p =>
                Flow(sent'[p], handled'[p], Gone(p)', reader'[w] \o up'[p])
      BY <1>1, <2>1
    <2>5. \A q \in Peers : q # p => /\ sent'[q] = sent[q] /\ up'[q] = up[q]
                                    /\ down'[q] = down[q] /\ peer'[q] = peer[q]
      BY <1>7, <2>1
    <2>6. InOrder(sent'[p], handled'[p])
      BY <2>1
    <2> QED BY <1>7, <2>3, <2>4, <2>5, <2>6, PeerAlone
  <1>8. ASSUME NEW p \in Peers, UNCHANGED <<worker, reader, handled, sent, backlog, queue>>,
               peer[p] # "new", peer'[p] # "new", peer[p] # "closed",
               \A q \in Peers : q # p => down'[q] = down[q] /\ peer'[q] = peer[q] /\ up'[q] = up[q],
               p \in Waiting => down'[p] = <<>>,
               up'[p] = up[p] \/ (peer'[p] = "closed" /\ up'[p] = <<>>)
        PROVE  Streams'
    <2>1. Waiting' = Waiting
      BY <1>8 DEF Waiting
    <2>2. InOrder(sent'[p], handled'[p])
      BY <1>8 DEF Streams
    <2>3. ASSUME NEW x \in Seq(Unit), Flow(sent[p], handled[p], FALSE, x \o up[p])
          PROVE  Flow(sent'[p], handled'[p], Gone(p)', x \o up'[p])
      <3>1. CASE up'[p] = up[p]
        BY <1>1, <1>8, <2>3, <3>1
      <3>2. CASE up'[p] # up[p]
        <4>1. Stream(sent[p], x \o up[p], Len(handled[p]) + 1)
          BY <2>3 DEF Flow
        <4>2. sent[p] \in Seq(FrameTypes) /\ up[p] \in Seq(Unit)
          BY <1>4
        <4>3. Stream(sent[p], x, Len(handled[p]) + 1)
          BY <4>1, <4>2, StreamCut
        <4>4. x \o <<>> = x
          OBVIOUS
        <4> QED BY <1>8, <3>2, <4>3, <4>4 DEF Flow, Gone
      <3> QED BY <3>1, <3>2
    <2>4. \A w \in Workers : worker[w].peer = p =>
                Flow(sent'[p], handled'[p], Gone(p)', reader'[w] \o up'[p])
      <3>1. \A w \in Workers : reader[w] \in Seq(Unit)
        BY DEF Placed, TypeOK
      <3>2. \A w \in Workers : worker[w].peer = p => Flow(sent[p], handled[p], FALSE, reader[w] \o up[p])
        BY <1>8 DEF Streams, Flow, Gone
      <3> QED BY <1>8, <2>3, <3>1, <3>2
    <2>5. p \in Waiting' => /\ handled'[p] = <<>> /\ down'[p] = <<>>
                            /\ Flow(sent'[p], handled'[p], Gone(p)', up'[p])
      <3> SUFFICES ASSUME p \in Waiting
                   PROVE  handled'[p] = <<>> /\ Flow(sent'[p], handled'[p], Gone(p)', up'[p])
        BY <1>8, <2>1
      <3>1. handled[p] = <<>> /\ Flow(sent[p], handled[p], FALSE, up[p])
        BY <1>8 DEF Streams, Flow, Gone
      <3>2. up[p] \in Seq(Unit) /\ up'[p] \in Seq(Unit) /\ <<>> \in Seq(Unit)
        <4>1. <<>> \in Seq(Unit)
          OBVIOUS
        <4>2. up[p] \in Seq(Unit)
          BY <1>4
        <4> QED BY <1>8, <4>1, <4>2
      <3>3. <<>> \o up[p] = up[p] /\ <<>> \o up'[p] = up'[p]
        BY <3>2
      <3>4. Flow(sent'[p], handled'[p], Gone(p)', <<>> \o up'[p])
        BY <2>3, <3>1, <3>2, <3>3
      <3> QED BY <1>8, <3>1, <3>3, <3>4
    <2> QED BY <1>8, <2>1, <2>2, <2>4, <2>5, PeerAlone
  <1>9. ASSUME NEW c \in Clients, ClientStep(c) PROVE Streams'
    <2>0. c \in Peers
      BY <1>0
    <2>1. CASE ClientConnect(c)
      <3>1. CASE Connect(c, "welcome") /\ SendFrame(c, "Hello")
        <4>1. peer[c] = "new" /\ peer'[c] = "welcome"
              /\ \A q \in Peers : q # c => down'[q] = down[q] /\ peer'[q] = peer[q]
          BY <1>4, <2>0, <2>1, <3>1 DEF ClientConnect, Connect
        <4>2. Waiting' \subseteq Waiting \cup {c}
          BY <1>4, <2>0, <2>1, <3>1, <1>5, ConnectWaiting DEF ClientConnect
        <4> QED BY <1>0, <1>7, <2>0, <2>1, <3>1, <4>1, <4>2 DEF ClientConnect
      <3>2. CASE NoConnection(c)
        BY <1>6, <2>0, <2>1, <3>2 DEF ClientConnect
      <3> QED BY <2>1, <3>1, <3>2 DEF ClientConnect
    <2>2. CASE ClientRequest(c)
      <3>1. PICK type \in {"Batch", "StatusRequest"}, next \in {"batch", "status"} :
                SendFrame(c, type) /\ peer' = [peer EXCEPT ![c] = next]
        BY <2>2 DEF ClientRequest
      <3>2. peer[c] = "ready" /\ peer'[c] = next /\ \A q \in Peers : q # c => peer'[q] = peer[q]
        BY <1>4, <2>0, <2>2, <3>1 DEF ClientRequest
      <3>3. UNCHANGED <<worker, reader, handled, down>> /\ Waiting' = Waiting
        BY <2>2 DEF ClientRequest, Waiting
      <3> QED BY <1>0, <1>7, <2>0, <3>1, <3>2, <3>3
    <2>3. CASE ClientAnswered(c)
      <3>1. PICK next \in {"ready", "failed"} : peer' = [peer EXCEPT ![c] = next]
        BY <2>3 DEF ClientAnswered
      <3>2. peer[c] \notin {"new", "closed"} /\ peer'[c] = next
            /\ \A q \in Peers : q # c => peer'[q] = peer[q] /\ down'[q] = down[q]
        BY <1>4, <2>0, <2>3, <3>1 DEF ClientAnswered, Awaits
      <3>3. c \notin Waiting
        BY <2>3 DEF ClientAnswered, Streams
      <3> QED BY <1>8, <2>0, <2>3, <3>1, <3>2, <3>3 DEF ClientAnswered
    <2>4. CASE ClientCutOff(c)
      <3>1. peer[c] \notin {"new", "closed"} /\ peer'[c] = "failed"
            /\ \A q \in Peers : q # c => peer'[q] = peer[q]
        BY <1>4, <2>0, <2>4 DEF ClientCutOff, Awaits
      <3> QED BY <1>8, <2>0, <2>4, <3>1 DEF ClientCutOff
    <2>5. CASE ClientClose(c)
      <3>1. peer[c] # "closed" /\ peer'[c] = "closed" /\ down'[c] = <<>>
            /\ \A q \in Peers : q # c => peer'[q] = peer[q] /\ down'[q] = down[q]
        BY <1>4, <2>0, <2>5 DEF ClientClose
      <3>2. Waiting' = Waiting
        BY <2>5 DEF ClientClose, Waiting
      <3> QED BY <1>0, <1>7, <2>0, <2>5, <3>1, <3>2 DEF ClientClose
    <2> QED BY <1>9, <2>1, <2>2, <2>3, <2>4, <2>5 DEF ClientStep
  <1>10. ASSUME NEW r \in RawPeers, RawStep(r) PROVE Streams'
    <2>0. r \in Peers
      BY <1>0
    <2>1. CASE RawConnect(r)
      <3>1. CASE Connect(r, "open") /\ UNCHANGED <<sent, up>>
        <4>1. peer[r] = "new" /\ peer'[r] = "open" /\ UNCHANGED <<worker, reader, handled, down>>
              /\ \A q \in Peers : q # r => peer'[q] = peer[q]
          BY <1>4, <2>0, <2>1, <3>1 DEF RawConnect, Connect
        <4>2. Waiting' \subseteq Waiting \cup {r}
          BY <1>4, <2>0, <2>1, <3>1, <1>5, ConnectWaiting DEF RawConnect
        <4>3. InOrder(sent'[r], handled'[r])
          BY <2>0, <3>1, <4>1 DEF Streams
        <4>4. /\ \A w \in Workers : worker[w].peer # r
              /\ handled'[r] = <<>> /\ down'[r] = <<>>
              /\ Flow(sent'[r], handled'[r], Gone(r)', up'[r])
          BY <1>1, <1>5, <2>0, <3>1, <4>1
        <4> QED BY <2>0, <3>1, <4>1, <4>2, <4>3, <4>4, PeerAlone
      <3>2. CASE NoConnection(r)
        BY <1>6, <2>0, <2>1, <3>2 DEF RawConnect
      <3> QED BY <2>1, <3>1, <3>2 DEF RawConnect
    <2>2. CASE RawSend(r)
      <3>1. PICK type \in FrameTypes : SendFrame(r, type)
        <4>1. PICK script \in RawScripts : /\ Len(sent[r]) < Len(script)
                                           /\ SendFrame(r, script[Len(sent[r]) + 1])
          BY <2>2 DEF RawSend
        <4>2. script[Len(sent[r]) + 1] \in FrameTypes
          <5>1. script \in Seq(FrameTypes) /\ sent[r] \in Seq(FrameTypes)
            BY <1>4, <2>0, TransportAssumption
          <5> QED BY <4>1, <5>1
        <4> QED BY <4>1, <4>2
      <3>2. Waiting' = Waiting
        BY <2>2 DEF RawSend, Waiting
      <3> QED BY <1>7, <2>0, <2>2, <3>1, <3>2 DEF RawSend
    <2>3. CASE RawRead(r)
      <3>1. r \notin Waiting
        BY <2>3 DEF RawRead, Streams
      <3>2. \A q \in Peers : q # r => down'[q] = down[q]
        BY <1>4, <2>3 DEF RawRead
      <3> QED BY <1>8, <2>0, <2>3, <3>1, <3>2 DEF RawRead
    <2>4. CASE RawClose(r)
      <3>1. peer[r] = "open" /\ peer'[r] = "closed" /\ down'[r] = <<>>
            /\ (up'[r] = up[r] \/ up'[r] = <<>>)
            /\ \A q \in Peers : q # r => peer'[q] = peer[q] /\ down'[q] = down[q] /\ up'[q] = up[q]
        BY <1>4, <2>0, <2>4 DEF RawClose
      <3> QED BY <1>8, <2>0, <2>4, <3>1 DEF RawClose
    <2> QED BY <1>10, <2>1, <2>2, <2>3, <2>4 DEF RawStep
  <1> QED BY <1>9, <1>10

\* What is left of a stream in the reader, and does not make up a frame, is
\* nothing.
LEMMA NothingLeft ==
    ASSUME NEW s \in Seq(FrameTypes), NEW u \in Seq(Unit), NEW i,
           Stream(s, u, i), Whole(s, u, i), DecodeFrame(u) = "incomplete"
    PROVE  i = Len(s) + 1
  <1> SUFFICES ASSUME u # <<>> PROVE FALSE
    BY DEF Whole
  <1> DEFINE f == FrameAt(s, i)
  <1>1. u[1] = <<f, "header">>
    BY DEF Stream
  <1>2. u[1][1] = f /\ u[1][2] = "header"
    BY <1>1
  <1> HIDE DEF f
  <1>3. Len(u) < Len(Units(f))
    <2>1. Len(Units(f)) \in Nat /\ Len(u) \in Nat
      BY DEF Units
    <2> QED BY <1>2, <2>1 DEF DecodeFrame
  <1>4. Len(u) = 1 /\ HasPayload(f.type)
    <2>1. CASE HasPayload(f.type)
      <3>1. Len(Units(f)) = 2
        BY <2>1 DEF Units, HasPayload
      <3>2. Len(u) \in Nat /\ Len(u) # 0
        OBVIOUS
      <3>3. \A x \in Nat : x < 2 /\ x # 0 => x = 1
        OBVIOUS
      <3>4. Len(u) < 2
        BY <1>3, <3>1
      <3> QED BY <2>1, <3>2, <3>3, <3>4
    <2>2. CASE ~HasPayload(f.type)
      <3>1. Len(Units(f)) = 1
        BY <2>2 DEF Units, HasPayload
      <3>2. Len(u) \in Nat /\ Len(u) # 0
        OBVIOUS
      <3> QED BY <1>3, <3>1, <3>2
    <2> QED BY <2>1, <2>2
  <1> QED BY <1>2, <1>4 DEF Whole

LEMMA TransportStreams == Spec => []Streams
  <1>1. Init => Streams
    <2> SUFFICES ASSUME Init PROVE Streams
      OBVIOUS
    <2>1. /\ \A w \in Workers : reader[w] = <<>> /\ worker[w].peer = NoOne
          /\ \A p \in Peers : sent[p] = <<>> /\ handled[p] = <<>> /\ up[p] = <<>> /\ down[p] = <<>>
          /\ backlog = <<>> /\ queue = <<>>
      BY DEF Init, Idle
    <2>2. Waiting = {}
      BY <2>1 DEF Waiting, Range
    <2>3. Len(<<>>) <= MaxBuffer /\ NoOne \notin Peers
      BY TransportAssumption DEF Peers
    <2>4. InOrder(<<>>, <<>>)
      BY DEF InOrder
    <2> QED BY <2>1, <2>2, <2>3, <2>4 DEF Streams
  <1>2. Placed /\ Streams /\ [Next]_vars => Streams'
    <2>1. CASE UNCHANGED vars
      <3> SUFFICES ASSUME Placed, Streams PROVE Streams'
        OBVIOUS
      <3>1. UNCHANGED <<sent, handled, reader, worker, up, down, peer, backlog, queue>>
        BY <2>1 DEF vars, accepting, handling, wire, history
      <3>2. Waiting' = Waiting /\ \A w \in Workers : Len(reader'[w]) <= MaxBuffer
        BY <3>1 DEF Waiting, Streams
      <3> QED BY <3>1, <3>2, StreamsKept DEF Gone
    <2> QED BY <2>1, AcceptStreams, WorkStreams, PeerStreams DEF Next, Terminated
  <1> QED BY <1>1, <1>2, TransportPlaced, PTL DEF Spec

\* However recv cuts what peers send, however connections are queued, refused
\* and dropped: the frames given to handle_frame are those the peer sent, in
\* their order and none of them damaged, a reader never holds more than its
\* bound, and a worker that has to wait for more has handled all there was.
THEOREM TransportHandledInOrder == Spec => []HandledInOrder
  <1>1. Placed /\ Streams => HandledInOrder
    <2> SUFFICES ASSUME Placed, Streams PROVE HandledInOrder
      OBVIOUS
    <2>1. \A p \in Peers :
            /\ Len(handled[p]) <= Len(sent[p])
            /\ \A i \in 1..Len(handled[p]) :
                  handled[p][i] = [type |-> sent[p][i], n |-> i] /\ sent[p][i] \notin Damaged
      BY DEF Streams, InOrder, FrameAt
    <2>2. ASSUME NEW w \in 1..pool, NEW p, p = worker[w].peer,
                 ReadsOn(w), peer[p] # "closed", up[p] = <<>>
          PROVE  Len(handled[p]) = Len(sent[p])
      <3>1. w \in Workers
        BY PoolWorkers DEF Placed
      <3>2. p \in Peers
        BY <2>2, <3>1, AtPeer DEF ReadsOn, At, Placed
      <3>3. reader[w] \in Seq(Unit) /\ sent[p] \in Seq(FrameTypes) /\ handled[p] \in Seq(Frame)
        BY <3>1, <3>2 DEF Placed, TypeOK
      <3>4. reader[w] \o up[p] = reader[w]
        BY <2>2, <3>3
      <3>5. Flow(sent[p], handled[p], Gone(p), reader[w] \o up[p])
        BY <2>2, <3>1, <3>2 DEF Streams
      <3>6. Stream(sent[p], reader[w], Len(handled[p]) + 1)
            /\ Whole(sent[p], reader[w], Len(handled[p]) + 1)
        BY <2>2, <3>4, <3>5 DEF Flow, Gone
      <3>7. Len(handled[p]) + 1 = Len(sent[p]) + 1
        BY <2>2, <3>3, <3>6, NothingLeft DEF ReadsOn
      <3> QED BY <3>3, <3>7
    <2> QED BY <2>1, <2>2 DEF HandledInOrder, Streams
  <1> QED BY <1>1, TransportPlaced, TransportStreams, PTL

-----------------------------------------------------------------------------
(* What has been ingested *)

InService == {"ingest", "count", "reply"}

Counting == {w \in 1..pool : worker[w].at = "count" /\ worker[w].ok}

\* A worker with a frame of p has the last one handled for p; a batch is
\* ingested between "ingest" and "count", or fails there.
Serves(w, p) ==
    /\ worker[w].at \in InService =>
         /\ handled[p] # <<>> /\ worker[w].frame = handled[p][Len(handled[p])]
         /\ worker[w].frame.n = Len(handled[p])
    /\ worker[w].at \in {"ingest", "count"} => worker[w].frame.type = "Batch"
    /\ worker[w].at = "ingest" => <<p, worker[w].frame.n>> \notin Range(ingested)
    /\ worker[w].at \in {"count", "reply"} /\ worker[w].frame.type = "Batch" /\ worker[w].ok =>
         <<p, worker[w].frame.n>> \in Range(ingested)

Serving == \A w \in Workers, p \in Peers : worker[w].peer = p => Serves(w, p)

\* What has been ingested had been handled, and clients are told of nothing else.
Reported ==
    /\ IsInjective(ingested)
    /\ \A p \in Peers, n \in Nat : <<p, n>> \in Range(ingested) => n <= Len(handled[p])
    /\ \A c \in Clients : \A x \in Range(down[c]) :
         x.type = "BatchResult" /\ x.ok => <<c, x.n>> \in Range(ingested)
    /\ \A c \in Clients : \A n \in told[c] : <<c, n>> \in Range(ingested)

Counted == stats.applied + Cardinality(Counting) = Len(ingested)

Ledger == Serving /\ Reported /\ Counted

LEMMA RangeAppended ==
    ASSUME NEW S, NEW s \in Seq(S), NEW x \in S
    PROVE  Range(Append(s, x)) = Range(s) \cup {x}
  <1> DEFINE t == Append(s, x)
  <1>1. t \in Seq(S) /\ Len(t) = Len(s) + 1 /\ (\A i \in 1..Len(s) : t[i] = s[i])
        /\ Len(s) \in Nat /\ t[Len(t)] = x /\ Len(t) \in 1..Len(t)
    OBVIOUS
  <1>2. DOMAIN s = 1..Len(s) /\ DOMAIN t = 1..Len(t)
    BY <1>1
  <1> HIDE DEF t
  <1>3. \A i \in 1..Len(t) : i = Len(t) \/ i \in 1..Len(s)
    BY <1>1
  <1>4. \A i \in 1..Len(s) : i \in 1..Len(t)
    BY <1>1
  <1> QED BY <1>1, <1>2, <1>3, <1>4 DEF Range, t

LEMMA RangeTaken ==
    ASSUME NEW S, NEW s \in Seq(S), s # <<>>
    PROVE  Head(s) \in Range(s) /\ Range(Tail(s)) \subseteq Range(s)
  <1> DEFINE t == Tail(s)
  <1>1. t \in Seq(S) /\ Len(t) = Len(s) - 1 /\ (\A i \in 1..Len(t) : t[i] = s[i + 1])
        /\ Len(s) \in Nat /\ 1 \in 1..Len(s) /\ Head(s) = s[1]
    OBVIOUS
  <1>2. DOMAIN s = 1..Len(s) /\ DOMAIN t = 1..Len(t)
    BY <1>1
  <1> HIDE DEF t
  <1>3. \A i \in 1..Len(t) : i + 1 \in 1..Len(s)
    BY <1>1
  <1> QED BY <1>1, <1>2, <1>3 DEF Range, t

LEMMA RangeEmpty == Range(<<>>) = {}
  BY DEF Range

LEMMA CountingFinite ==
    ASSUME TypeOK
    PROVE  IsFiniteSet(Counting)
  <1>1. pool \in Int /\ 1 \in Int
    BY PoolWorkers
  <1>2. IsFiniteSet(1..pool)
    BY <1>1, FS_Interval
  <1>3. Counting \subseteq 1..pool
    BY DEF Counting
  <1> QED BY <1>2, <1>3, FS_Subset

\* A step that neither starts nor finishes a batch keeps the ledger.
LEMMA LedgerKept ==
    ASSUME Placed, Ledger, UNCHANGED <<pool, ingested, handled>>, stats'.applied = stats.applied,
           \A w \in Workers : worker'[w].at \in InService => worker'[w] = worker[w],
           \A w \in Workers : worker[w].at = "count" => worker'[w] = worker[w],
           \A c \in Clients : \A x \in Range(down'[c]) : x \in Range(down[c]) \/ x = Refusal,
           \A c \in Clients : \A n \in told'[c] :
              n \in told[c] \/ \E x \in Range(down[c]) : x.type = "BatchResult" /\ x.ok /\ x.n = n
    PROVE  Ledger'
  <1>1. ASSUME NEW w \in Workers, NEW p \in Peers, worker'[w].peer = p PROVE Serves(w, p)'
    <2>1. CASE worker'[w].at \in InService
      BY <1>1, <2>1 DEF Ledger, Serving, Serves
    <2>2. CASE worker'[w].at \notin InService
      BY <2>2 DEF Serves, InService
    <2> QED BY <2>1, <2>2
  <1>2. Counting' = Counting
    <2>1. \A w \in 1..pool : w \in Workers
      BY PoolWorkers DEF Placed
    <2>2. \A w \in Workers : worker'[w].at = "count" <=> worker[w].at = "count"
      BY DEF InService
    <2> QED BY <2>1, <2>2 DEF Counting
  <1>3. Reported'
    BY DEF Ledger, Reported, Refusal
  <1> QED BY <1>1, <1>2, <1>3 DEF Ledger, Serving, Counted

LEMMA FrameLedger ==
    ASSUME Placed, Streams, Ledger, NEW w \in Workers, NextIsFrame(w)
    PROVE  Ledger'
  <1>1. PICK p \in Peers : p = worker[w].peer /\ Busy(w)
    BY AtPeer DEF NextIsFrame, At, Placed
  <1> DEFINE f == reader[w][1][1]
             z == [worker[w] EXCEPT !.at = Handler(f.type),
                                    !.frame = IF f.type = "Bye" THEN NoFrame ELSE f,
                                    !.keep = @ /\ f.type # "Bye"]
  <1>2. At(w, "reading") /\ DecodeFrame(reader[w]) = "complete"
        /\ UNCHANGED <<pool, ingested, down, told>> /\ stats' = [stats EXCEPT !.received = @ + 1]
        /\ handled' = [handled EXCEPT ![p] = Append(@, f)]
        /\ worker' = [worker EXCEPT ![w] = z]
    BY <1>1 DEF NextIsFrame, accepting, wire, Placed, TypeOK
  <1>3. worker[w] \in WorkerState /\ worker[w].at = "reading" /\ reader[w] \in Seq(Unit)
        /\ handled[p] \in Seq(Frame)
    BY <1>2 DEF Placed, TypeOK, At
  <1>4. f \in Frame
    BY <1>2, <1>3, FirstFrame
  <1>5. f.n = Len(handled[p]) + 1
    BY <1>1, <1>2, FrameIsNext
  <1> HIDE DEF f
  <1>6. /\ z.peer = p /\ z.at = Handler(f.type)
        /\ z.at # "reading" => z.frame = f
    BY <1>1, <1>3 DEF WorkerState, Handler
  <1> HIDE DEF z
  <1>7. worker'[w] = z /\ \A v \in Workers : v # w => worker'[v] = worker[v] /\ worker[v].peer # p
    BY <1>1, <1>2 DEF Placed, TypeOK, Ownership
  <1>8. handled'[p] = Append(handled[p], f) /\ \A q \in Peers : q # p => handled'[q] = handled[q]
    BY <1>2 DEF Placed, TypeOK
  <1>9. /\ handled'[p] # <<>> /\ Len(handled'[p]) = Len(handled[p]) + 1
        /\ handled'[p][Len(handled'[p])] = f
    BY <1>3, <1>4, <1>8
  <1>10. Serves(w, p)'
    <2>1. z.at \in {"reading", "ingest", "reply"} /\ (z.at = "ingest" <=> f.type = "Batch")
      BY <1>6 DEF Handler
    <2>2. <<p, f.n>> \notin Range(ingested)
      <3>1. f.n \in Nat /\ ~(f.n <= Len(handled[p]))
        BY <1>3, <1>4, <1>5 DEF Frame
      <3> QED BY <3>1 DEF Ledger, Reported
    <2>3. CASE z.at = "reading"
      BY <1>7, <2>3 DEF Serves, InService
    <2>4. CASE z.at # "reading"
      BY <1>2, <1>5, <1>6, <1>7, <1>9, <2>1, <2>2, <2>4 DEF Serves
    <2> QED BY <2>3, <2>4
  <1>11. ASSUME NEW v \in Workers, NEW q \in Peers, worker'[v].peer = q PROVE Serves(v, q)'
    <2>1. CASE v = w
      BY <1>6, <1>7, <1>10, <1>11, <2>1
    <2>2. CASE v # w
      BY <1>2, <1>7, <1>8, <1>11, <2>2 DEF Ledger, Serving, Serves
    <2> QED BY <2>1, <2>2
  <1>12. Reported'
    <2>1. \A q \in Peers, n \in Nat : <<q, n>> \in Range(ingested') => n <= Len(handled'[q])
      <3>1. \A n \in Nat : n <= Len(handled[p]) => n <= Len(handled'[p])
        BY <1>3, <1>9
      <3> QED BY <1>2, <1>8, <3>1 DEF Ledger, Reported
    <2> QED BY <1>2, <2>1 DEF Ledger, Reported
  <1>13. Counted'
    <2>1. \A v \in 1..pool : v \in Workers
      BY PoolWorkers DEF Placed
    <2>2. \A v \in Workers : worker'[v].at = "count" <=> worker[v].at = "count"
      BY <1>3, <1>6, <1>7 DEF Handler
    <2>3. \A v \in Workers : worker[v].at = "count" => worker'[v] = worker[v]
      BY <1>3, <1>7
    <2>4. Counting' = Counting
      BY <1>2, <2>1, <2>2, <2>3 DEF Counting
    <2>5. stats'.applied = stats.applied
      BY <1>2 DEF Placed, TypeOK, Stats
    <2> QED BY <1>2, <2>4, <2>5 DEF Ledger, Counted
  <1> QED BY <1>11, <1>12, <1>13 DEF Ledger, Serving

LEMMA IngestLedger ==
    ASSUME Placed, Ledger, NEW w \in Workers, Ingest(w)
    PROVE  Ledger'
  <1>1. PICK p \in Peers : p = worker[w].peer /\ Busy(w)
    BY AtPeer DEF Ingest, At, Placed
  <1> DEFINE n == worker[w].frame.n
             x == <<p, n>>
  <1>2. PICK ok \in BOOLEAN :
            /\ worker' = [worker EXCEPT ![w].at = "count", ![w].ok = ok]
            /\ ingested' = ingested \o (IF ok THEN <<x>> ELSE <<>>)
    BY <1>1 DEF Ingest
  <1> DEFINE z == [worker[w] EXCEPT !.at = "count", !.ok = ok]
  <1>3. At(w, "ingest") /\ UNCHANGED <<pool, stats, handled, down, told>> /\ worker[w] \in WorkerState
    BY DEF Ingest, accepting, counting, wire, Placed, TypeOK
  <1>4. worker' = [worker EXCEPT ![w] = z] /\ z.at = "count" /\ z.ok = ok /\ z.frame = worker[w].frame
        /\ z.peer = p
    BY <1>1, <1>2, <1>3 DEF Placed, TypeOK, WorkerState
  <1> HIDE DEF z
  <1>5. worker'[w] = z /\ \A v \in Workers : v # w => worker'[v] = worker[v] /\ worker[v].peer # p
    BY <1>1, <1>4 DEF Placed, TypeOK, Ownership
  <1>6. /\ handled[p] # <<>> /\ worker[w].frame = handled[p][Len(handled[p])] /\ n = Len(handled[p])
        /\ worker[w].frame.type = "Batch" /\ x \notin Range(ingested)
    BY <1>1, <1>3 DEF Ledger, Serving, Serves, At, InService
  <1>7. n \in Nat /\ x \in Peers \X Nat /\ ingested \in Seq(Peers \X Nat)
    BY <1>3 DEF WorkerState, Frame, NoFrame, Placed, TypeOK
  <1>8. ingested' = IF ok THEN Append(ingested, x) ELSE ingested
    BY <1>2, <1>7
  <1> HIDE DEF x
  <1>9. Range(ingested') = (IF ok THEN Range(ingested) \cup {x} ELSE Range(ingested))
        /\ IsInjective(ingested') /\ Len(ingested') = Len(ingested) + (IF ok THEN 1 ELSE 0)
    <2>1. IsInjective(ingested) /\ Len(ingested) \in Nat
      BY <1>7 DEF Ledger, Reported
    <2>2. CASE ok
      <3>1. ingested' = Append(ingested, x)
        BY <1>8, <2>2
      <3>2. Range(ingested') = Range(ingested) \cup {x} /\ IsInjective(ingested')
        BY <1>6, <1>7, <2>1, <3>1, PutLast
      <3>3. Len(ingested') = Len(ingested) + 1
        BY <1>7, <3>1
      <3> QED BY <2>2, <3>2, <3>3
    <2>3. CASE ~ok
      BY <1>8, <2>1, <2>3
    <2> QED BY <2>2, <2>3
  <1>10. ASSUME NEW v \in Workers, NEW q \in Peers, worker'[v].peer = q PROVE Serves(v, q)'
    <2>1. CASE v = w
      <3>1. q = p /\ worker'[v] = z
        BY <1>4, <1>5, <1>10, <2>1
      <3>2. z.ok => <<p, z.frame.n>> \in Range(ingested')
        BY <1>4, <1>9 DEF x
      <3> QED BY <1>3, <1>4, <1>6, <3>1, <3>2 DEF Serves
    <2>2. CASE v # w
      <3>1. worker'[v] = worker[v] /\ q # p /\ Serves(v, q)
        BY <1>5, <1>10, <2>2 DEF Ledger, Serving
      <3>2. \A k : <<q, k>> \in Range(ingested') <=> <<q, k>> \in Range(ingested)
        BY <1>9, <3>1 DEF x
      <3> QED BY <1>3, <3>1, <3>2 DEF Serves
    <2> QED BY <2>1, <2>2
  <1>11. Reported'
    <2>1. \A q \in Peers, k \in Nat : <<q, k>> \in Range(ingested') => k <= Len(handled'[q])
      <3>1. \A q \in Peers, k \in Nat : <<q, k>> = x => q = p /\ k = n
        BY DEF x
      <3>2. Len(handled[p]) <= Len(handled[p]) /\ n = Len(handled[p])
        BY <1>6 DEF Placed, TypeOK
      <3> HIDE DEF n
      <3>3. \A q \in Peers, k \in Nat : <<q, k>> \in Range(ingested) => k <= Len(handled[q])
        BY DEF Ledger, Reported
      <3> QED BY <1>3, <1>9, <3>1, <3>2, <3>3
    <2> QED BY <1>3, <1>9, <2>1 DEF Ledger, Reported
  <1>12. Counted'
    <2>1. w \in 1..pool /\ (\A v \in 1..pool : v \in Workers)
      <3>1. w \in Nat \ {0} /\ pool \in Nat /\ w <= pool
        BY <1>3, PoolWorkers DEF Placed, At
      <3>2. w \in 1..pool
        BY <3>1
      <3> QED BY <3>2, PoolWorkers DEF Placed
    <2>2. Counting' = (IF ok THEN Counting \cup {w} ELSE Counting) /\ w \notin Counting
      BY <1>3, <1>4, <1>5, <2>1 DEF Counting, At
    <2>3. IsFiniteSet(Counting)
      BY CountingFinite DEF Placed
    <2>4. Cardinality(Counting') = Cardinality(Counting) + (IF ok THEN 1 ELSE 0)
          /\ Cardinality(Counting) \in Nat
      <3>1. CASE ok
        BY <2>2, <2>3, <3>1, FS_AddElement, FS_CardinalityType
      <3>2. CASE ~ok
        BY <2>2, <2>3, <3>2, FS_CardinalityType
      <3> QED BY <3>1, <3>2
    <2>5. stats.applied \in Nat /\ Len(ingested) \in Nat
      BY <1>7 DEF Placed, TypeOK, Stats
    <2> QED BY <1>3, <1>9, <2>4, <2>5 DEF Ledger, Counted
  <1> QED BY <1>10, <1>11, <1>12 DEF Ledger, Serving

LEMMA CountLedger ==
    ASSUME Placed, Ledger, NEW w \in Workers, CountBatch(w)
    PROVE  Ledger'
  <1>1. PICK p \in Peers : p = worker[w].peer /\ Busy(w)
    BY AtPeer DEF CountBatch, At, Placed
  <1> DEFINE z == [worker[w] EXCEPT !.at = "reply"]
             ok == worker[w].ok
  <1>2. At(w, "count") /\ UNCHANGED <<pool, handled, ingested, down, told>> /\ worker[w] \in WorkerState
        /\ worker' = [worker EXCEPT ![w].at = "reply"]
    BY DEF CountBatch, Moved, accepting, wire, history, Placed, TypeOK
  <1>3. worker' = [worker EXCEPT ![w] = z] /\ z.at = "reply" /\ z.ok = ok /\ z.frame = worker[w].frame
        /\ z.peer = p
    BY <1>1, <1>2 DEF Placed, TypeOK, WorkerState
  <1> HIDE DEF z
  <1>4. worker'[w] = z /\ \A v \in Workers : v # w => worker'[v] = worker[v]
    BY <1>3 DEF Placed, TypeOK
  <1>5. ASSUME NEW v \in Workers, NEW q \in Peers, worker'[v].peer = q PROVE Serves(v, q)'
    <2>1. CASE v = w
      <3>1. q = p /\ worker'[v] = z /\ Serves(w, p) /\ worker[w].at = "count"
        BY <1>1, <1>2, <1>3, <1>4, <1>5, <2>1 DEF Ledger, Serving, At
      <3> QED BY <1>2, <1>3, <2>1, <3>1 DEF Serves, InService
    <2>2. CASE v # w
      <3>1. worker'[v] = worker[v] /\ Serves(v, q)
        BY <1>4, <1>5, <2>2 DEF Ledger, Serving
      <3> QED BY <1>2, <3>1 DEF Serves
    <2> QED BY <2>1, <2>2
  <1>6. Reported'
    BY <1>2 DEF Ledger, Reported
  <1>7. Counted'
    <2>1. w \in 1..pool /\ (\A v \in 1..pool : v \in Workers)
      <3>1. w \in Nat \ {0} /\ pool \in Nat /\ w <= pool
        BY <1>2, PoolWorkers DEF Placed, At
      <3>2. w \in 1..pool
        BY <3>1
      <3> QED BY <3>2, PoolWorkers DEF Placed
    <2>2. Counting' = Counting \ {w} /\ (w \in Counting <=> ok)
      BY <1>2, <1>3, <1>4, <2>1 DEF Counting, At
    <2>3. IsFiniteSet(Counting)
      BY CountingFinite DEF Placed
    <2>4. /\ Cardinality(Counting) \in Nat /\ Cardinality(Counting') \in Nat
          /\ Cardinality(Counting) = Cardinality(Counting') + (IF ok THEN 1 ELSE 0)
      <3>1. CASE ok
        <4>1. /\ IsFiniteSet(Counting \ {w})
              /\ Cardinality(Counting \ {w}) = Cardinality(Counting) - 1
          BY <2>2, <2>3, <3>1, FS_RemoveElement
        <4>2. Cardinality(Counting) \in Nat /\ Cardinality(Counting \ {w}) \in Nat
          BY <2>3, <4>1, FS_CardinalityType
        <4> QED BY <2>2, <3>1, <4>1, <4>2
      <3>2. CASE ~ok
        <4>1. Counting' = Counting
          BY <2>2, <3>2
        <4> QED BY <2>3, <3>2, <4>1, FS_CardinalityType
      <3> QED BY <3>1, <3>2
    <2>5. stats \in Stats /\ stats.applied \in Nat /\ Len(ingested) \in Nat
      BY DEF Placed, TypeOK, Stats
    <2>6. stats'.applied = stats.applied + (IF ok THEN 1 ELSE 0)
      BY <2>5 DEF CountBatch, Stats
    <2> HIDE DEF ok
    <2> QED BY <1>2, <2>4, <2>5, <2>6 DEF Ledger, Counted
  <1> QED BY <1>5, <1>6, <1>7 DEF Ledger, Serving

\* The answer to a batch that was applied says so, and it was.
LEMMA ReplyLedger ==
    ASSUME Placed, Ledger, NEW w \in Workers, Reply(w), ~(HangUp(w) /\ UNCHANGED down)
    PROVE  Ledger'
  <1>1. PICK p \in Peers : p = worker[w].peer /\ Busy(w)
    BY AtPeer DEF Reply, At, Placed
  <1> DEFINE z == [worker[w] EXCEPT !.at = "reading", !.frame = NoFrame, !.ok = TRUE]
  <1>2. At(w, "reply") /\ UNCHANGED <<pool, handled, ingested, told, stats>> /\ worker[w] \in WorkerState
        /\ worker' = [worker EXCEPT ![w] = z]
        /\ down' = IF peer[p] = "closed" THEN down ELSE [down EXCEPT ![p] = Append(@, Answer(w))]
    BY <1>1 DEF Reply, accepting, counting, history, Placed, TypeOK
  <1>3. z.at = "reading"
    BY <1>2 DEF WorkerState
  <1> HIDE DEF z
  <1>4. worker'[w] = z /\ \A v \in Workers : v # w => worker'[v] = worker[v]
    BY <1>2 DEF Placed, TypeOK
  <1>5. ASSUME NEW v \in Workers, NEW q \in Peers, worker'[v].peer = q PROVE Serves(v, q)'
    <2>1. CASE v = w
      BY <1>3, <1>4, <2>1 DEF Serves, InService
    <2>2. CASE v # w
      <3>1. worker'[v] = worker[v] /\ Serves(v, q)
        BY <1>4, <1>5, <2>2 DEF Ledger, Serving
      <3> QED BY <1>2, <3>1 DEF Serves
    <2> QED BY <2>1, <2>2
  <1>6. Reported'
    <2> DEFINE a == Answer(w)
    <2>1. a.type = "BatchResult" /\ a.ok => <<p, a.n>> \in Range(ingested)
      <3>1. a.type = "BatchResult" => worker[w].frame.type = "Batch"
        BY DEF Answer, AnswerTo
      <3>2. a.ok = worker[w].ok /\ a.n = worker[w].frame.n
        BY DEF Answer
      <3>3. worker[w].frame.type = "Batch" /\ worker[w].ok => <<p, worker[w].frame.n>> \in Range(ingested)
        BY <1>1, <1>2 DEF Ledger, Serving, Serves, At
      <3> HIDE DEF a
      <3> QED BY <3>1, <3>2, <3>3
    <2>2. a \in AnswerFrame /\ down[p] \in Seq(AnswerFrame)
      BY <1>2 DEF Answer, AnswerTo, AnswerFrame, Answers, WorkerState, Frame, NoFrame, Placed, TypeOK
    <2> HIDE DEF a
    <2>3. Range(Append(down[p], a)) = Range(down[p]) \cup {a}
      BY <2>2, RangeAppended
    <2>4. \A q \in Peers : \A x \in Range(down'[q]) : x \in Range(down[q]) \/ (q = p /\ x = a)
      <3>1. CASE peer[p] = "closed"
        BY <1>2, <3>1
      <3>2. CASE peer[p] # "closed"
        <4>1. down'[p] = Append(down[p], a) /\ \A q \in Peers : q # p => down'[q] = down[q]
          BY <1>2, <3>2 DEF Placed, TypeOK, a
        <4> QED BY <2>3, <4>1
      <3> QED BY <3>1, <3>2
    <2>5. Clients \subseteq Peers
      BY DEF Peers
    <2> QED BY <1>2, <2>1, <2>4, <2>5 DEF Ledger, Reported
  <1>7. Counted'
    <2>1. \A v \in 1..pool : v \in Workers
      BY PoolWorkers DEF Placed
    <2>2. Counting' = Counting
      BY <1>2, <1>3, <1>4, <2>1 DEF Counting, At
    <2> QED BY <1>2, <2>2 DEF Ledger, Counted
  <1> QED BY <1>5, <1>6, <1>7 DEF Ledger, Serving

LEMMA WorkLedger ==
    ASSUME Placed, Streams, Ledger, NEW w \in Workers, Work(w)
    PROVE  Ledger'
  <1> DEFINE p == worker[w].peer
  <1>0. worker[w] \in WorkerState /\ worker \in [Workers -> WorkerState] /\ stats \in Stats
        /\ down \in [Peers -> Seq(AnswerFrame)] /\ Clients \subseteq Peers
    BY DEF Placed, TypeOK, Peers
  \* It goes to a place where it has no frame, and was not between ingesting a
  \* batch and counting it.
  <1>1. ASSUME UNCHANGED <<pool, ingested, handled, told>>, stats'.applied = stats.applied,
               \A v \in Workers : v # w => worker'[v] = worker[v],
               worker'[w].at \notin InService, worker[w].at # "count",
               \/ UNCHANGED down
               \/ down' = [down EXCEPT ![p] = <<>>]
               \/ p \in Peers /\ down' = [down EXCEPT ![p] = Append(@, Refusal)]
        PROVE  Ledger'
    <2>1. \A c \in Clients : \A x \in Range(down'[c]) : x \in Range(down[c]) \/ x = Refusal
      <3>1. Refusal \in AnswerFrame
        BY DEF Refusal, AnswerFrame, Answers
      <3>2. CASE UNCHANGED down
        BY <3>2
      <3>3. CASE down' = [down EXCEPT ![p] = <<>>]
        <4>1. \A c \in Clients : down'[c] = down[c] \/ down'[c] = <<>>
          BY <1>0, <3>3
        <4> QED BY <4>1, RangeEmpty
      <3>4. CASE p \in Peers /\ down' = [down EXCEPT ![p] = Append(@, Refusal)]
        <4>1. Range(Append(down[p], Refusal)) = Range(down[p]) \cup {Refusal}
          BY <1>0, <3>1, <3>4, RangeAppended
        <4>2. \A c \in Clients : IF c = p THEN down'[c] = Append(down[p], Refusal) ELSE down'[c] = down[c]
          BY <1>0, <3>4
        <4> QED BY <4>1, <4>2
      <3> QED BY <1>1, <3>2, <3>3, <3>4
    <2> QED BY <1>1, <2>1, LedgerKept
  <1>2. ASSUME UNCHANGED <<pool, ingested, handled, told, stats>>, HangUp(w), worker[w].at # "count",
               \/ UNCHANGED down
               \/ down' = [down EXCEPT ![p] = <<>>]
               \/ p \in Peers /\ down' = [down EXCEPT ![p] = Append(@, Refusal)]
        PROVE  Ledger'
    <2>1. worker'[w].at = "idle" /\ \A v \in Workers : v # w => worker'[v] = worker[v]
      BY <1>0, <1>2 DEF HangUp, Idle
    <2> QED BY <1>1, <1>2, <2>1 DEF InService
  <1>3. \A x : Moved(w, x) => worker'[w].at = x /\ \A v \in Workers : v # w => worker'[v] = worker[v]
    BY <1>0 DEF Moved, WorkerState
  <1>4. CASE WorkerExits(w)
    BY <1>1, <1>3, <1>4 DEF WorkerExits, At, accepting, counting, wire, history, InService
  <1>5. CASE TakeConnection(w)
    <2>1. worker'[w].at = "taken" /\ \A v \in Workers : v # w => worker'[v] = worker[v]
      BY <1>0, <1>5 DEF TakeConnection, Idle
    <2> QED BY <1>1, <1>5, <2>1 DEF TakeConnection, At, counting, wire, history, InService
  <1>6. CASE CountConnection(w)
    <2>1. stats'.applied = stats.applied
      BY <1>0, <1>6 DEF CountConnection, Stats
    <2> QED BY <1>1, <1>3, <1>6, <2>1 DEF CountConnection, At, accepting, wire, history, InService
  <1>7. CASE Receive(w)
    <2>1. worker[w].at = "reading" /\ UNCHANGED <<pool, ingested, handled, told, stats>>
      BY <1>7 DEF Receive, ReadsOn, At, accepting, counting, history
    <2>2. CASE HangUp(w) /\ MayLose(w)
      BY <1>2, <2>1, <2>2 DEF MayLose
    <2>3. CASE ~(HangUp(w) /\ MayLose(w))
      <3>1. UNCHANGED <<worker, down>>
        BY <1>7, <2>3 DEF Receive
      <3> QED BY <1>1, <2>1, <3>1 DEF InService
    <2> QED BY <2>2, <2>3
  <1>8. CASE ReceiveEnds(w) \/ ByeEnds(w)
    <2>1. /\ HangUp(w) /\ worker[w].at = "reading" /\ UNCHANGED <<pool, ingested, handled, told, stats>>
          /\ UNCHANGED down \/ MayLose(w)
      BY <1>8 DEF ReceiveEnds, ByeEnds, ReadsOn, At, accepting, counting, history
    <2> QED BY <1>2, <2>1 DEF MayLose
  <1>9. CASE NextIsFrame(w)
    BY <1>9, FrameLedger
  <1>10. CASE NextIsRefused(w)
    <2>1. stats'.applied = stats.applied
      BY <1>0, <1>10 DEF NextIsRefused, Stats
    <2> QED BY <1>1, <1>3, <1>10, <2>1 DEF NextIsRefused, At, accepting, wire, history, InService
  <1>11. CASE SendError(w)
    <2>1. p \in Peers /\ worker[w].at = "error"
      BY <1>11, AtPeer DEF SendError, At, Placed
    <2> QED BY <1>2, <1>11, <2>1 DEF SendError, accepting, history
  <1>12. CASE Ingest(w)
    BY <1>12, IngestLedger
  <1>13. CASE CountBatch(w)
    BY <1>13, CountLedger
  <1>14. CASE Reply(w)
    <2>1. CASE HangUp(w) /\ UNCHANGED down
      BY <1>2, <1>14, <2>1 DEF Reply, At, accepting, counting, history
    <2>2. CASE ~(HangUp(w) /\ UNCHANGED down)
      BY <1>14, <2>2, ReplyLedger
    <2> QED BY <2>1, <2>2
  <1> QED BY <1>4, <1>5, <1>6, <1>7, <1>8, <1>9, <1>10, <1>11, <1>12, <1>13, <1>14 DEF Work

LEMMA AcceptLedger ==
    ASSUME Placed, Ledger, AcceptLoop \/ RequestStop
    PROVE  Ledger'
  <1>0. backlog \in Seq(Peers) /\ down \in [Peers -> Seq(AnswerFrame)] /\ Clients \subseteq Peers
        /\ stats \in Stats
    BY DEF Placed, TypeOK, Peers
  <1>1. UNCHANGED <<pool, worker, handled, ingested, told>> /\ stats'.applied = stats.applied
    BY <1>0 DEF AcceptLoop, LoopStops, SelectIdle, SelectFails, RequestStop, AcceptFails, AcceptQueues,
           AcceptRejects, ServeReturns, handling, history, counting, Stats
  <1>2. \A c \in Clients : \A x \in Range(down'[c]) : x \in Range(down[c]) \/ x = Refusal
    <2>1. CASE AcceptRejects
      <3>1. \A c \in Clients : down'[c] \in {down[c], <<>>, <<Refusal>>}
        BY <1>0, <2>1 DEF AcceptRejects
      <3>2. Range(<<Refusal>>) = {Refusal}
        BY DEF Range
      <3> QED BY <3>1, <3>2, RangeEmpty
    <2>2. CASE ~AcceptRejects
      <3>1. UNCHANGED down
        BY <2>2 DEF AcceptLoop, LoopStops, SelectIdle, SelectFails, RequestStop, AcceptFails, AcceptQueues,
                    ServeReturns, wire
      <3> QED BY <3>1
    <2> QED BY <2>1, <2>2
  <1> QED BY <1>1, <1>2, LedgerKept

LEMMA PeerLedger ==
    ASSUME Placed, Ledger, (\E c \in Clients : ClientStep(c)) \/ (\E r \in RawPeers : RawStep(r))
    PROVE  Ledger'
  <1>0. /\ down \in [Peers -> Seq(AnswerFrame)] /\ told \in [Clients -> SUBSET Nat]
        /\ Clients \subseteq Peers /\ RawPeers \subseteq Peers
    BY DEF Placed, TypeOK, Peers
  <1>1. UNCHANGED <<pool, worker, handled, ingested, stats>>
    BY DEF ClientStep, ClientConnect, ClientRequest, ClientAnswered, ClientCutOff, ClientClose,
           RawStep, RawConnect, RawSend, RawRead, RawClose, accepting, handling, counting, history
  <1>2. ASSUME NEW p \in Peers, down' \in {down, [down EXCEPT ![p] = <<>>]}
               \/ (down[p] # <<>> /\ down' = [down EXCEPT ![p] = Tail(@)])
        PROVE  \A c \in Clients : \A x \in Range(down'[c]) : x \in Range(down[c])
    <2>1. down[p] # <<>> => Range(Tail(down[p])) \subseteq Range(down[p])
      BY <1>0, RangeTaken
    <2>2. \A c \in Clients : down'[c] \in {down[c], <<>>}
                             \/ (c = p /\ down[p] # <<>> /\ down'[c] = Tail(down[p]))
      BY <1>0, <1>2
    <2> QED BY <2>1, <2>2, RangeEmpty
  <1>3. ASSUME UNCHANGED told, NEW p \in Peers, down' \in {down, [down EXCEPT ![p] = <<>>]}
               \/ (down[p] # <<>> /\ down' = [down EXCEPT ![p] = Tail(@)])
        PROVE  Ledger'
    BY <1>1, <1>2, <1>3, LedgerKept
  <1>4. ASSUME NEW c \in Clients, ClientStep(c) PROVE Ledger'
    <2>0. c \in Peers
      BY <1>0
    <2>1. CASE ClientAnswered(c)
      <3> DEFINE a == Head(down[c])
      <3>1. down[c] # <<>> /\ down' = [down EXCEPT ![c] = Tail(@)]
            /\ told' = IF a.type = "BatchResult" /\ peer[c] = "batch" /\ a.ok
                        THEN [told EXCEPT ![c] = @ \cup {a.n}] ELSE told
        BY <2>1 DEF ClientAnswered
      <3>2. a \in Range(down[c])
        BY <1>0, <2>0, <3>1, RangeTaken
      <3> HIDE DEF a
      <3>3. \A d \in Clients : \A n \in told'[d] :
              n \in told[d] \/ \E x \in Range(down[d]) : x.type = "BatchResult" /\ x.ok /\ x.n = n
        BY <1>0, <3>1, <3>2
      <3>4. \A d \in Clients : \A x \in Range(down'[d]) : x \in Range(down[d])
        BY <1>2, <2>0, <3>1
      <3> QED BY <1>1, <3>3, <3>4, LedgerKept
    <2>2. CASE ClientConnect(c) \/ ClientRequest(c) \/ ClientCutOff(c)
      <3>1. UNCHANGED <<told, down>>
        BY <2>2 DEF ClientConnect, ClientRequest, ClientCutOff, wire, history
      <3> QED BY <1>3, <2>0, <3>1
    <2>3. CASE ClientClose(c)
      BY <1>3, <2>0, <2>3 DEF ClientClose
    <2> QED BY <1>4, <2>1, <2>2, <2>3 DEF ClientStep
  <1>5. ASSUME NEW r \in RawPeers, RawStep(r) PROVE Ledger'
    <2>0. r \in Peers
      BY <1>0
    <2>1. UNCHANGED told /\ (down' \in {down, [down EXCEPT ![r] = <<>>]}
               \/ (down[r] # <<>> /\ down' = [down EXCEPT ![r] = Tail(@)]))
      BY <1>5 DEF RawStep, RawConnect, RawSend, RawRead, RawClose, history
    <2> QED BY <1>3, <2>0, <2>1
  <1> QED BY <1>4, <1>5

LEMMA TransportLedger == Spec => []Ledger
  <1>1. Init => Ledger
    <2> SUFFICES ASSUME Init PROVE Ledger
      OBVIOUS
    <2>1. /\ \A w \in Workers : worker[w].at = "idle"
          /\ \A p \in Peers : down[p] = <<>>
          /\ \A c \in Clients : told[c] = {}
          /\ ingested = <<>> /\ stats.applied = 0 /\ Clients \subseteq Peers
      BY DEF Init, Idle, Peers
    <2>2. Serving
      BY <2>1 DEF Serving, Serves, InService
    <2>3. Reported
      BY <2>1, RangeEmpty DEF Reported, IsInjective
    <2>4. Counted
      <3>1. 1..pool \subseteq Workers
        BY DEF Init, Workers
      <3>2. Counting = {}
        BY <2>1, <3>1 DEF Counting
      <3> QED BY <2>1, <3>2, FS_EmptySet DEF Counted
    <2> QED BY <2>2, <2>3, <2>4 DEF Ledger
  <1>2. Placed /\ Streams /\ Ledger /\ [Next]_vars => Ledger'
    <2>1. CASE UNCHANGED vars
      <3>1. UNCHANGED <<pool, worker, handled, ingested, stats, down, told>>
        BY <2>1 DEF vars, accepting, handling, counting, wire, history
      <3> QED BY <3>1, LedgerKept
    <2> QED BY <2>1, AcceptLedger, WorkLedger, PeerLedger DEF Next, Terminated
  <1> QED BY <1>1, <1>2, TransportPlaced, TransportStreams, PTL DEF Spec

\* Whatever workers and peers do in between: no batch is ingested twice, a
\* client told that its batch was applied finds it ingested, and
\* batches_applied is the number of those ingested, but for the workers that
\* have returned from ingest_document and not yet taken the statistics' mutex.
THEOREM TransportAppliedMeansIngested == Spec => []AppliedMeansIngested
  <1>1. Ledger => AppliedMeansIngested
    BY DEF Ledger, Reported, Counted, Counting, AppliedMeansIngested
  <1> QED BY <1>1, TransportLedger, PTL

-----------------------------------------------------------------------------
(* What a client and the server make of each other *)

ClientFrames == {"Hello", "Batch", "StatusRequest", "Bye"}

\* What a client that waits has asked.
Asked == [welcome |-> "Hello", batch |-> "Batch", status |-> "StatusRequest"]

InHand(p) == \E w \in Workers : worker[w].peer = p /\ worker[w].at \in InService

\* Everything c sent has been handled, and answered.
Settled(c) ==
    end[c] = "open" /\ sent[c] # <<>> /\ Len(handled[c]) = Len(sent[c]) /\ ~InHand(c)

\* The last request of c was dropped with its connection, is on its way, is
\* being handled, or has been answered.
Dropped(c) == end[c] = "closed" /\ down[c] \in {<<>>, <<Refusal>>}
Underway(c) ==
    end[c] = "open" /\ down[c] = <<>> /\ Len(handled[c]) + 1 = Len(sent[c]) /\ ~InHand(c)
BeingHandled(c) ==
    end[c] = "open" /\ down[c] = <<>> /\ Len(handled[c]) = Len(sent[c]) /\ InHand(c)
Answered(c) ==
    /\ Settled(c)
    /\ \E x \in AnswerFrame :
         down[c] = <<x>> /\ x.n = Len(sent[c]) /\ x.type = Awaits[peer[c]]

Sends(c) ==
    \A i \in 1..Len(sent[c]) : sent[c][i] \in ClientFrames /\ (sent[c][i] = "Bye" => Gone(c))

Served(c) ==
    \A w \in Workers : worker[w].peer = c => worker[w].at # "error" /\ (worker[w].keep \/ Gone(c))

Dialogue(c) ==
    /\ Sends(c) /\ Served(c) /\ peer[c] # "open"
    /\ peer[c] \in DOMAIN Awaits =>
         /\ sent[c] # <<>> /\ sent[c][Len(sent[c])] = Asked[peer[c]]
         /\ Dropped(c) \/ Underway(c) \/ BeingHandled(c) \/ Answered(c)
    /\ peer[c] = "ready" => Settled(c) /\ down[c] = <<>>
    /\ peer[c] = "failed" => end[c] = "closed" /\ down[c] = <<>>
    /\ peer[c] = "closed" => down[c] = <<>> \/ (end[c] = "closed" /\ down[c] = <<Refusal>>)

Dialogues == \A c \in Clients : Dialogue(c)

LEMMA DialogueKept ==
    ASSUME NEW c \in Clients, Dialogue(c), sent'[c] = sent[c], handled'[c] = handled[c],
           end'[c] = end[c], peer'[c] = peer[c], down'[c] = down[c],
           InHand(c)' <=> InHand(c), Served(c)'
    PROVE  Dialogue(c)'
  <1>1. Sends(c)'
    BY DEF Dialogue, Sends, Gone
  <1>2. /\ Settled(c) => Settled(c)'
        /\ Dropped(c) => Dropped(c)'
        /\ Underway(c) => Underway(c)'
        /\ BeingHandled(c) => BeingHandled(c)'
        /\ Answered(c) => Answered(c)'
    BY DEF Settled, Dropped, Underway, BeingHandled, Answered
  <1> QED BY <1>1, <1>2 DEF Dialogue

\* The worker that has the connection of c is the only one.
LEMMA InHandOf ==
    ASSUME Ownership, NEW c \in Peers, NEW w \in Workers, worker[w].peer = c
    PROVE  InHand(c) <=> worker[w].at \in InService
  <1>1. Busy(w)
    BY TransportAssumption DEF Busy, Peers
  <1>2. \A v \in Workers : worker[v].peer = c => v = w
    BY <1>1 DEF Ownership
  <1> QED BY <1>2 DEF InHand

\* With everything handled there is nothing to read.
LEMMA NothingToRead ==
    ASSUME Placed, Streams, NEW w \in Workers, NEW p \in Peers, worker[w].peer = p,
           Len(handled[p]) = Len(sent[p])
    PROVE  up[p] = <<>>
  <1> SUFFICES ASSUME up[p] # <<>> PROVE FALSE
    OBVIOUS
  <1> DEFINE u == reader[w] \o up[p]
             i == Len(handled[p]) + 1
  <1>1. reader[w] \in Seq(Unit) /\ up[p] \in Seq(Unit) /\ Len(sent[p]) \in Nat
    BY DEF Placed, TypeOK
  <1>2. Stream(sent[p], u, i)
    BY DEF Streams, Flow
  <1>3. ~(i <= Len(sent[p]))
    BY <1>1
  <1> HIDE DEF i, u
  <1>4. u \in Seq(Unit) /\ Concat(reader[w], up[p], u)
    BY <1>1, Concatenated DEF u
  <1>5. u # <<>>
    <2>1. Len(u) = Len(reader[w]) + Len(up[p])
      BY <1>4 DEF Concat
    <2>2. \A x, y, z \in Nat : z = x + y /\ y # 0 => z # 0
      OBVIOUS
    <2>3. Len(reader[w]) \in Nat /\ Len(up[p]) \in Nat /\ Len(u) \in Nat /\ Len(up[p]) # 0
      BY <1>1, <1>4
    <2>4. Len(u) # 0
      BY <2>1, <2>2, <2>3, Zenon
    <2> QED BY <1>4, <2>4
  <1> QED BY <1>2, <1>3, <1>5 DEF Stream

\* A connection that ends with its request unanswered drops it.
LEMMA HangUpDialogue ==
    ASSUME Placed, Placed', NEW c \in Clients, Dialogue(c), NEW w \in Workers, worker[w].peer = c,
           HangUp(w), down'[c] \in {down[c], <<>>}, UNCHANGED <<sent, handled, peer>>,
           Gone(c) \/ Underway(c)
    PROVE  Dialogue(c)'
  <1>1. c \in Peers /\ Busy(w) /\ end[c] = "open"
    BY TransportAssumption DEF Peers, Busy, Placed, Ownership
  <1>2. end'[c] = "closed" /\ worker'[w].peer = NoOne
        /\ \A v \in Workers : v # w => worker'[v] = worker[v] /\ worker[v].peer # c
    BY <1>1 DEF HangUp, Closed, Idle, Placed, TypeOK, Ownership
  <1>3. \A v \in Workers : worker'[v].peer # c
    BY <1>2, TransportAssumption
  <1>4. Served(c)' /\ Sends(c)'
    BY <1>3 DEF Served, Sends, Dialogue, Gone
  <1>5. CASE Gone(c)
    <2>1. down'[c] = <<>> \/ down'[c] = <<Refusal>>
      BY <1>5 DEF Dialogue, Gone
    <2> QED BY <1>2, <1>4, <1>5, <2>1 DEF Dialogue, Gone, Awaits
  <1>6. CASE ~Gone(c) /\ Underway(c)
    <2>1. Dropped(c)'
      BY <1>2, <1>6 DEF Underway, Dropped
    <2>2. peer[c] \notin {"ready", "failed", "closed"}
      <3>1. Len(handled[c]) + 1 # Len(handled[c])
        BY <1>1 DEF Placed, TypeOK
      <3> QED BY <1>1, <1>6, <3>1 DEF Dialogue, Settled, Underway, Gone
    <2> QED BY <1>4, <2>1, <2>2 DEF Dialogue
  <1> QED BY <1>5, <1>6

\* A worker touches the connection it has, and no other.
LEMMA WorkIsLocal ==
    ASSUME Placed, NEW w \in Workers, Work(w), ~TakeConnection(w)
    PROVE  LET p == worker[w].peer IN
           /\ UNCHANGED <<sent, peer>>
           /\ \A v \in Workers : v # w => worker'[v] = worker[v]
           /\ worker'[w].peer \in {p, NoOne}
           /\ \A q \in Peers \ {p} :
                end'[q] = end[q] /\ down'[q] = down[q] /\ handled'[q] = handled[q]
  <1> DEFINE p == worker[w].peer
  <1>0. /\ worker \in [Workers -> WorkerState] /\ worker[w] \in WorkerState
        /\ down \in [Peers -> Seq(AnswerFrame)] /\ end \in [Peers -> Ends]
        /\ handled \in [Peers -> Seq(Frame)]
    BY DEF Placed, TypeOK
  <1>1. ASSUME HangUp(w)
        PROVE  /\ \A v \in Workers : v # w => worker'[v] = worker[v]
               /\ worker'[w].peer = NoOne /\ \A q \in Peers \ {p} : end'[q] = end[q]
    BY <1>0, <1>1 DEF HangUp, Closed, Idle
  <1>2. ASSUME NEW x, Moved(w, x)
        PROVE  /\ \A v \in Workers : v # w => worker'[v] = worker[v]
               /\ worker'[w].peer = p
    BY <1>0, <1>2 DEF Moved, WorkerState
  <1>3. MayLose(w) => \A q \in Peers \ {p} : down'[q] = down[q]
    BY <1>0 DEF MayLose
  <1>4. CASE WorkerExits(w) \/ CountConnection(w) \/ NextIsRefused(w) \/ CountBatch(w)
    <2>1. UNCHANGED <<sent, peer, end, down, handled>> /\ \E x : Moved(w, x)
      BY <1>4 DEF WorkerExits, CountConnection, NextIsRefused, CountBatch, wire, history
    <2> QED BY <1>2, <2>1
  <1>5. CASE Receive(w)
    <2>1. UNCHANGED <<sent, peer, handled>> /\ ((HangUp(w) /\ MayLose(w)) \/ UNCHANGED <<worker, end, down>>)
      BY <1>5 DEF Receive, history
    <2> QED BY <1>1, <1>3, <2>1
  <1>6. CASE ReceiveEnds(w) \/ ByeEnds(w)
    <2>1. UNCHANGED <<sent, peer, handled>> /\ HangUp(w) /\ (MayLose(w) \/ UNCHANGED down)
      BY <1>6 DEF ReceiveEnds, ByeEnds, history
    <2> QED BY <1>1, <1>3, <2>1
  <1>7. CASE NextIsFrame(w)
    <2>1. UNCHANGED <<sent, peer, end, down>>
      BY <1>7 DEF NextIsFrame, wire
    <2>2. \A q \in Peers \ {p} : handled'[q] = handled[q]
      BY <1>0, <1>7 DEF NextIsFrame
    <2>3. (\A v \in Workers : v # w => worker'[v] = worker[v]) /\ worker'[w].peer = p
      BY <1>0, <1>7 DEF NextIsFrame, WorkerState
    <2> QED BY <2>1, <2>2, <2>3
  <1>8. CASE SendError(w)
    <2>1. UNCHANGED <<sent, peer, handled>> /\ HangUp(w)
      BY <1>8 DEF SendError, history
    <2>2. \A q \in Peers \ {p} : down'[q] = down[q]
      BY <1>0, <1>8 DEF SendError
    <2> QED BY <1>1, <2>1, <2>2
  <1>9. CASE Ingest(w)
    <2>1. UNCHANGED <<sent, peer, end, down, handled>>
      BY <1>9 DEF Ingest, wire
    <2>2. (\A v \in Workers : v # w => worker'[v] = worker[v]) /\ worker'[w].peer = p
      BY <1>0, <1>9 DEF Ingest, WorkerState
    <2> QED BY <2>1, <2>2
  <1>10. CASE Reply(w)
    <2>1. UNCHANGED <<sent, peer, handled>>
      BY <1>10 DEF Reply, history
    <2>2. CASE HangUp(w) /\ UNCHANGED down
      BY <1>1, <2>1, <2>2
    <2>3. CASE ~(HangUp(w) /\ UNCHANGED down)
      <3> DEFINE z == [worker[w] EXCEPT !.at = "reading", !.frame = NoFrame, !.ok = TRUE]
      <3>1. /\ down' = IF peer[p] = "closed" THEN down ELSE [down EXCEPT ![p] = Append(@, Answer(w))]
            /\ worker' = [worker EXCEPT ![w] = z] /\ UNCHANGED end
        BY <1>0, <1>10, <2>3 DEF Reply
      <3>2. z.peer = p
        BY <1>0 DEF WorkerState
      <3> HIDE DEF z
      <3>3. (\A v \in Workers : v # w => worker'[v] = worker[v]) /\ worker'[w].peer = p
        BY <1>0, <3>1, <3>2
      <3>4. \A q \in Peers \ {p} : down'[q] = down[q]
        BY <1>0, <3>1
      <3> QED BY <2>1, <3>1, <3>3, <3>4
    <2> QED BY <2>2, <2>3
  <1> QED BY <1>4, <1>5, <1>6, <1>7, <1>8, <1>9, <1>10 DEF Work

\* A worker is given the connection of c: nothing has been read from it.
LEMMA TakeDialogue ==
    ASSUME Placed, NEW c \in Clients, Dialogue(c), NEW w \in Workers, TakeConnection(w)
    PROVE  Dialogue(c)'
  <1>1. UNCHANGED <<sent, handled, end, peer, down>> /\ worker[w].at = "idle"
    BY DEF TakeConnection, At, wire, history
  <1>2. /\ \A v \in Workers : v # w => worker'[v] = worker[v]
        /\ worker'[w].at = "taken" /\ worker'[w].keep = TRUE
    BY DEF TakeConnection, Idle, Placed, TypeOK
  <1>3. InHand(c)' <=> InHand(c)
    BY <1>1, <1>2 DEF InHand, InService
  <1>4. Served(c)'
    BY <1>1, <1>2 DEF Served, Dialogue, Gone
  <1> QED BY <1>1, <1>3, <1>4, DialogueKept

\* The next frame of a client is its request, or its Bye.
LEMMA FrameDialogue ==
    ASSUME Placed, Placed', Streams, NEW c \in Clients, Dialogue(c),
           NEW w \in Workers, worker[w].peer = c, NextIsFrame(w)
    PROVE  Dialogue(c)'
  <1> DEFINE f == reader[w][1][1]
             i == Len(handled[c]) + 1
  <1>0. c \in Peers /\ c # NoOne /\ worker[w] \in WorkerState /\ handled[c] \in Seq(Frame)
        /\ handled \in [Peers -> Seq(Frame)] /\ Len(sent[c]) \in Nat
    BY TransportAssumption DEF Peers, Placed, TypeOK
  <1>1. f = FrameAt(sent[c], i) /\ i \in 1..Len(sent[c])
    BY <1>0, FrameIsNext DEF NextIsFrame
  <1>2. f.type = sent[c][i]
    BY <1>1 DEF FrameAt
  <1>3. f \in Frame
    <2>1. reader[w] \in Seq(Unit)
      BY DEF Placed, TypeOK
    <2> QED BY <2>1, FirstFrame DEF NextIsFrame
  <1> HIDE DEF f
  <1>4. UNCHANGED <<sent, peer, end, down>> /\ handled'[c] = Append(handled[c], f)
        /\ worker[w].at = "reading"
    BY <1>0 DEF NextIsFrame, wire, f, At
  <1>5. Len(handled'[c]) = i
    BY <1>0, <1>3, <1>4
  <1>6. /\ \A v \in Workers : v # w => worker'[v] = worker[v]
        /\ worker'[w].peer = c /\ worker'[w].at = Handler(f.type)
        /\ worker'[w].keep = (worker[w].keep /\ f.type # "Bye")
    BY <1>0 DEF NextIsFrame, f, Placed, TypeOK, WorkerState
  <1>7. Sends(c)' /\ Served(c)'
    <2>1. Sends(c)'
      BY <1>4 DEF Dialogue, Sends, Gone
    <2>2. f.type = "Bye" => Gone(c)
      BY <1>1, <1>2 DEF Dialogue, Sends
    <2>3. \A v \in Workers : worker'[v].peer = c =>
              worker'[v].at # "error" /\ (worker'[v].keep \/ Gone(c))
      BY <1>6, <2>2 DEF Dialogue, Served, Handler
    <2> QED BY <1>4, <2>1, <2>3 DEF Served, Gone
  <1>8. end[c] = "open" /\ ~InHand(c)
    <2>1. InHand(c) <=> worker[w].at \in InService
      BY <1>0, InHandOf DEF Placed
    <2> QED BY <1>0, <1>4, <2>1 DEF Placed, Ownership, Busy, InService
  <1>9. Len(handled[c]) # Len(sent[c])
    BY <1>0, <1>1
  <1>10. peer[c] \notin {"ready", "failed"}
    BY <1>8, <1>9 DEF Dialogue, Settled
  <1>11. ASSUME peer[c] \in DOMAIN Awaits PROVE BeingHandled(c)'
    <2>1. Underway(c) /\ sent[c][Len(sent[c])] = Asked[peer[c]]
      BY <1>8, <1>9, <1>11 DEF Dialogue, Dropped, BeingHandled, Answered, Settled
    <2>2. i = Len(sent[c]) /\ down[c] = <<>>
      BY <2>1 DEF Underway
    <2>3. f.type \in {"Hello", "Batch", "StatusRequest"}
      BY <1>2, <1>11, <2>1, <2>2 DEF Asked, Awaits
    <2>4. worker'[w].at \in InService
      BY <1>6, <2>3 DEF Handler, InService
    <2>5. InHand(c)'
      BY <1>6, <2>4 DEF InHand
    <2> QED BY <1>4, <1>5, <1>8, <2>2, <2>5 DEF BeingHandled
  <1> QED BY <1>4, <1>7, <1>10, <1>11 DEF Dialogue

\* The answer to the request of a client that waits is the one it waits for.
LEMMA ReplyDialogue ==
    ASSUME Placed, Placed', Streams, Ledger, NEW c \in Clients, Dialogue(c),
           NEW w \in Workers, worker[w].peer = c, Reply(w), ~(HangUp(w) /\ UNCHANGED down)
    PROVE  Dialogue(c)'
  <1> DEFINE z == [worker[w] EXCEPT !.at = "reading", !.frame = NoFrame, !.ok = TRUE]
             a == Answer(w)
  <1>0. c \in Peers /\ c # NoOne /\ worker[w] \in WorkerState /\ worker[w].at = "reply"
        /\ sent[c] \in Seq(FrameTypes) /\ down[c] \in Seq(AnswerFrame)
    BY TransportAssumption DEF Reply, At, Peers, Placed, TypeOK
  <1>1. /\ UNCHANGED <<sent, handled, peer, end>> /\ worker' = [worker EXCEPT ![w] = z]
        /\ down'[c] = IF Gone(c) THEN down[c] ELSE Append(down[c], a)
    BY <1>0 DEF Reply, history, Placed, TypeOK, Gone
  <1>2. z.at = "reading" /\ z.peer = c /\ z.keep = worker[w].keep
    BY <1>0 DEF WorkerState
  <1> HIDE DEF z
  <1>3. worker'[w] = z /\ \A v \in Workers : v # w => worker'[v] = worker[v]
    BY <1>1 DEF Placed, TypeOK
  <1>4. Sends(c)' /\ Served(c)'
    BY <1>1, <1>2, <1>3 DEF Dialogue, Sends, Served, Gone
  <1>5. InHand(c) /\ ~InHand(c)' /\ end[c] = "open"
    <2>1. worker'[w].peer = c
      BY <1>2, <1>3
    <2>2. Ownership' /\ Ownership
      BY DEF Placed
    <2>3. InHand(c)
      BY <1>0 DEF InHand, InService
    <2>4. \A v \in Workers : v # w => worker[v].peer # c
      BY <1>0, <2>2 DEF Ownership, Busy
    <2>5. ~InHand(c)'
      BY <1>2, <1>3, <2>4 DEF InHand, InService
    <2> QED BY <1>0, <2>2, <2>3, <2>5 DEF Ownership, Busy
  <1>6. peer[c] \notin {"ready", "failed"}
    BY <1>5 DEF Dialogue, Settled
  <1>7. CASE Gone(c)
    BY <1>1, <1>4, <1>7 DEF Dialogue, Gone, Awaits
  <1>8. CASE ~Gone(c)
    <2>1. ASSUME peer[c] \in DOMAIN Awaits PROVE Answered(c)'
      <3>1. BeingHandled(c) /\ sent[c] # <<>> /\ sent[c][Len(sent[c])] = Asked[peer[c]]
        BY <1>5, <2>1 DEF Dialogue, Dropped, Underway, Answered, Settled
      <3>2. Len(handled[c]) = Len(sent[c]) /\ down[c] = <<>>
        BY <3>1 DEF BeingHandled
      <3>3. worker[w].frame = handled[c][Len(sent[c])] /\ worker[w].frame.n = Len(sent[c])
        BY <1>0, <3>2 DEF Ledger, Serving, Serves, InService
      <3>4. worker[w].frame.type = sent[c][Len(sent[c])]
        <4>1. Len(sent[c]) \in 1..Len(handled[c])
          BY <1>0, <3>1, <3>2
        <4>2. handled[c][Len(sent[c])] = FrameAt(sent[c], Len(sent[c]))
          BY <1>0, <4>1 DEF Streams, InOrder
        <4> QED BY <3>3, <4>2 DEF FrameAt
      <3>5. a.n = Len(sent[c]) /\ a.type = Awaits[peer[c]] /\ a \in AnswerFrame
        <4>1. a.n = Len(sent[c]) /\ a.type = AnswerTo(Asked[peer[c]])
          BY <3>1, <3>3, <3>4 DEF Answer
        <4>2. AnswerTo(Asked[peer[c]]) = Awaits[peer[c]]
          BY <2>1 DEF AnswerTo, Asked, Awaits
        <4>3. a \in AnswerFrame
          BY <1>0 DEF Answer, AnswerTo, AnswerFrame, Answers, WorkerState, Frame, NoFrame
        <4> QED BY <4>1, <4>2, <4>3
      <3> HIDE DEF a
      <3>6. down'[c] = <<a>>
        BY <1>1, <1>8, <3>2, <3>5
      <3>7. Settled(c)'
        BY <1>1, <1>5, <3>1, <3>2 DEF Settled
      <3> QED BY <1>1, <3>5, <3>6, <3>7 DEF Answered
    <2>2. peer[c] # "closed"
      BY <1>8 DEF Gone
    <2> QED BY <1>1, <1>4, <1>6, <2>1, <2>2 DEF Dialogue
  <1> QED BY <1>7, <1>8

LEMMA WorkDialogue ==
    ASSUME Placed, Placed', Streams, Ledger, NEW c \in Clients, Dialogue(c), NEW w \in Workers, Work(w)
    PROVE  Dialogue(c)'
  <1>0. c \in Peers /\ c # NoOne
    BY TransportAssumption DEF Peers
  <1>1. CASE TakeConnection(w)
    BY <1>1, TakeDialogue
  <1> SUFFICES ASSUME ~TakeConnection(w) PROVE Dialogue(c)'
    BY <1>1
  <1>2. PICK p : p = worker[w].peer
    OBVIOUS
  <1>3. /\ UNCHANGED <<sent, peer>>
        /\ \A v \in Workers : v # w => worker'[v] = worker[v]
        /\ worker'[w].peer \in {p, NoOne}
        /\ \A q \in Peers \ {p} :
             end'[q] = end[q] /\ down'[q] = down[q] /\ handled'[q] = handled[q]
    BY <1>2, WorkIsLocal
  <1>4. CASE p # c
    <2>1. InHand(c)' <=> InHand(c)
      BY <1>0, <1>2, <1>3, <1>4 DEF InHand
    <2>2. Served(c)'
      BY <1>0, <1>2, <1>3, <1>4 DEF Served, Dialogue, Gone
    <2> QED BY <1>0, <1>3, <1>4, <2>1, <2>2, DialogueKept
  <1>5. ASSUME p = c, UNCHANGED <<handled, end, down>>, worker'[w].peer = c,
               worker'[w].at # "error", worker'[w].keep = worker[w].keep,
               worker'[w].at \in InService <=> worker[w].at \in InService
        PROVE  Dialogue(c)'
    <2>1. InHand(c)' <=> InHand(c)
      BY <1>2, <1>3, <1>5 DEF InHand
    <2>2. Served(c)'
      BY <1>2, <1>3, <1>5 DEF Served, Dialogue, Gone
    <2> QED BY <1>3, <1>5, <2>1, <2>2, DialogueKept
  <1>6. ASSUME NEW x, Moved(w, x)
        PROVE  worker'[w].at = x /\ worker'[w].peer = p /\ worker'[w].keep = worker[w].keep
    BY <1>2, <1>6 DEF Moved, Placed, TypeOK, WorkerState
  <1>7. CASE p = c
    <2>0. end[c] = "open" /\ worker[w].peer = c /\ Busy(w)
      <3>1. worker[w].peer = c /\ Busy(w)
        BY <1>0, <1>2, <1>7 DEF Busy
      <3> QED BY <3>1 DEF Placed, Ownership
    <2>1. CASE WorkerExits(w)
      BY <2>0, <2>1 DEF WorkerExits, At, Placed, WorkersBusy
    <2>2. CASE CountConnection(w)
      <3>1. UNCHANGED <<handled, end, down>> /\ worker[w].at = "taken" /\ Moved(w, "reading")
        BY <2>2 DEF CountConnection, At, wire, history
      <3>2. worker'[w].at = "reading" /\ worker'[w].peer = c /\ worker'[w].keep = worker[w].keep
        BY <1>6, <1>7, <3>1
      <3> QED BY <1>5, <1>7, <3>1, <3>2 DEF InService
    <2>3. CASE Receive(w)
      <3>1. worker[w].at = "reading" /\ up[c] # <<>> /\ UNCHANGED handled
        <4>1. worker[w].at = "reading" /\ (\E k \in 1..Len(up[c]) : TRUE) /\ UNCHANGED handled
          BY <2>0, <2>3 DEF Receive, ReadsOn, At, history
        <4>2. up[c] \in Seq(Unit)
          BY <1>0 DEF Placed, TypeOK
        <4> QED BY <4>1, <4>2
      <3>2. CASE UNCHANGED <<worker, end, down>>
        BY <1>5, <1>7, <2>0, <3>1, <3>2
      <3>3. CASE HangUp(w) /\ MayLose(w)
        <4>1. down'[c] \in {down[c], <<>>}
          BY <1>0, <2>0, <3>3 DEF MayLose, Placed, TypeOK
        <4>2. Len(handled[c]) # Len(sent[c])
          BY <1>0, <2>0, <3>1, NothingToRead
        <4>3. ~InHand(c)
          BY <1>0, <2>0, <3>1, InHandOf DEF Placed, InService
        <4>4. peer[c] \in PeerStates /\ peer[c] # "new"
          BY <1>0, <2>0 DEF Placed, TypeOK, Ownership
        <4>5. Gone(c) \/ Underway(c)
          BY <2>0, <4>2, <4>3, <4>4 DEF Dialogue, Dropped, BeingHandled, Answered, Settled, PeerStates,
                                        Awaits, Gone
        <4> QED BY <1>3, <2>0, <3>1, <3>3, <4>1, <4>5, HangUpDialogue
      <3> QED BY <2>3, <3>2, <3>3 DEF Receive
    <2>4. CASE ReceiveEnds(w)
      BY <2>0, <2>4, HangUpDialogue DEF ReceiveEnds, history, Gone
    <2>5. CASE ByeEnds(w)
      <3>1. Gone(c) /\ HangUp(w) /\ MayLose(w) /\ UNCHANGED <<sent, handled, peer>>
        BY <2>0, <2>5 DEF ByeEnds, history, Dialogue, Served
      <3>2. down'[c] \in {down[c], <<>>}
        BY <1>0, <2>0, <3>1 DEF MayLose, Placed, TypeOK
      <3> QED BY <2>0, <3>1, <3>2, HangUpDialogue
    <2>6. CASE NextIsFrame(w)
      BY <2>0, <2>6, FrameDialogue
    <2>7. CASE NextIsRefused(w)
      <3> DEFINE f == reader[w][1][1]
      <3>1. DecodeFrame(reader[w]) = "refused" /\ reader[w] \in Seq(Unit)
        BY <2>7 DEF NextIsRefused, Placed, TypeOK
      <3>2. f = FrameAt(sent[c], Len(handled[c]) + 1) /\ Len(handled[c]) + 1 \in 1..Len(sent[c])
        BY <1>0, <2>0, <3>1, FrameIsNext
      <3>3. f.type \in ClientFrames
        BY <3>2 DEF Dialogue, Sends, FrameAt
      <3>4. f.type \in Damaged
        <4> HIDE DEF f
        <4>1. reader[w] # <<>> /\ Len(Units(f)) \in Nat /\ Len(reader[w]) \in Nat
          BY <3>1, FirstFrame DEF f
        <4> QED BY <3>1, <4>1 DEF DecodeFrame, Damaged, f
      <3> QED BY <3>3, <3>4 DEF ClientFrames, Damaged
    <2>8. CASE SendError(w)
      BY <2>0, <2>8 DEF SendError, At, Dialogue, Served
    <2>9. CASE Ingest(w)
      <3>1. UNCHANGED <<handled, end, down>> /\ worker[w].at = "ingest"
        BY <2>9 DEF Ingest, wire, At
      <3>2. worker'[w].at = "count" /\ worker'[w].peer = c /\ worker'[w].keep = worker[w].keep
        BY <2>0, <2>9 DEF Ingest, Placed, TypeOK, WorkerState
      <3> QED BY <1>5, <1>7, <3>1, <3>2 DEF InService
    <2>10. CASE CountBatch(w)
      <3>1. UNCHANGED <<handled, end, down>> /\ worker[w].at = "count" /\ Moved(w, "reply")
        BY <2>10 DEF CountBatch, At, wire, history
      <3>2. worker'[w].at = "reply" /\ worker'[w].peer = c /\ worker'[w].keep = worker[w].keep
        BY <1>6, <1>7, <3>1
      <3> QED BY <1>5, <1>7, <3>1, <3>2 DEF InService
    <2>11. CASE Reply(w)
      <3>1. CASE HangUp(w) /\ UNCHANGED down
        <4>1. CASE Gone(c)
          BY <2>0, <2>11, <3>1, <4>1, HangUpDialogue DEF Reply, history
        <4>2. CASE ~Gone(c)
          <5>1. worker' = [worker EXCEPT ![w] = [@ EXCEPT !.at = "reading", !.frame = NoFrame, !.ok = TRUE]]
            BY <2>0, <2>11, <4>2 DEF Reply, Gone
          <5>2. worker[w] \in WorkerState /\ worker \in [Workers -> WorkerState]
            BY DEF Placed, TypeOK
          <5>3. worker'[w].at = "reading"
            BY <5>1, <5>2 DEF WorkerState
          <5>4. worker'[w] = Idle
            BY <3>1, <5>2 DEF HangUp
          <5> QED BY <5>3, <5>4 DEF Idle
        <4> QED BY <4>1, <4>2
      <3>2. CASE ~(HangUp(w) /\ UNCHANGED down)
        BY <2>0, <2>11, <3>2, ReplyDialogue
      <3> QED BY <3>1, <3>2
    <2> QED BY <2>1, <2>2, <2>3, <2>4, <2>5, <2>6, <2>7, <2>8, <2>9, <2>10, <2>11 DEF Work
  <1> QED BY <1>4, <1>7

\* The accept loop closes only connections no worker has taken: nothing of
\* theirs has been handled, and no answer has been sent.
LEMMA AcceptDialogue ==
    ASSUME Placed, Streams, NEW c \in Clients, Dialogue(c), AcceptLoop \/ RequestStop
    PROVE  Dialogue(c)'
  <1>0. /\ c \in Peers /\ backlog \in Seq(Peers) /\ down \in [Peers -> Seq(AnswerFrame)]
        /\ end \in [Peers -> Ends] /\ peer[c] \in PeerStates
    BY DEF Placed, TypeOK, Peers
  <1>1. UNCHANGED <<worker, sent, handled, peer>>
    BY DEF AcceptLoop, LoopStops, SelectIdle, SelectFails, RequestStop, AcceptFails, AcceptQueues,
           AcceptRejects, ServeReturns, handling, history
  <1>2. (InHand(c)' <=> InHand(c)) /\ Served(c)' /\ Sends(c)'
    BY <1>1 DEF InHand, Served, Sends, Dialogue, Gone
  <1>3. ASSUME end'[c] = end[c], down'[c] = down[c] PROVE Dialogue(c)'
    BY <1>1, <1>2, <1>3, DialogueKept
  <1>4. ASSUME c \in Range(backlog), end'[c] = "closed", down'[c] \in {down[c], <<>>, <<Refusal>>}
        PROVE  Dialogue(c)'
    <2>1. c \in Waiting
      BY <1>4 DEF Waiting
    <2>2. end[c] = "open" /\ handled[c] = <<>> /\ down[c] = <<>>
      BY <2>1 DEF Placed, Ownership, Streams
    <2>3. Dropped(c)'
      BY <1>4, <2>2 DEF Dropped
    <2>4. peer[c] \notin {"ready", "failed"}
      <3>1. ~Settled(c)
        <4>1. sent[c] \in Seq(FrameTypes) /\ Len(<<>>) = 0
          BY <1>0 DEF Placed, TypeOK
        <4> QED BY <2>2, <4>1 DEF Settled
      <3> QED BY <2>2, <3>1 DEF Dialogue
    <2> QED BY <1>1, <1>2, <1>4, <2>2, <2>3, <2>4 DEF Dialogue
  <1>5. CASE AcceptFails \/ AcceptRejects
    <2> DEFINE h == Head(backlog)
    <2>1. backlog # <<>> /\ Closed(h)
      BY <1>5 DEF AcceptFails, AcceptRejects
    <2>2. h \in Range(backlog)
      BY <1>0, <2>1, RangeTaken
    <2>3. CASE c = h
      <3>1. end'[c] = "closed"
        BY <1>0, <2>1, <2>3 DEF Closed
      <3>2. down'[c] \in {down[c], <<>>, <<Refusal>>}
        BY <1>0, <1>5, <2>3 DEF AcceptFails, AcceptRejects
      <3> QED BY <1>4, <2>2, <2>3, <3>1, <3>2
    <2>4. CASE c # h
      <3>1. end'[c] = end[c]
        BY <1>0, <2>1, <2>4 DEF Closed
      <3>2. down'[c] = down[c]
        BY <1>0, <1>5, <2>4 DEF AcceptFails, AcceptRejects
      <3> QED BY <1>3, <3>1, <3>2
    <2> QED BY <2>3, <2>4
  <1>6. CASE ServeReturns
    <2>1. down' = down /\ end'[c] = IF c \in Range(backlog) THEN "closed" ELSE end[c]
      BY <1>0, <1>6 DEF ServeReturns
    <2> QED BY <1>3, <1>4, <2>1
  <1>7. CASE LoopStops \/ SelectIdle \/ SelectFails \/ AcceptQueues \/ RequestStop
    <2>1. UNCHANGED <<end, down>>
      BY <1>7 DEF LoopStops, SelectIdle, SelectFails, AcceptQueues, RequestStop, wire
    <2> QED BY <1>3, <2>1
  <1> QED BY <1>5, <1>6, <1>7 DEF AcceptLoop

\* A peer touches its own end of its connection.
LEMMA PeerIsLocal ==
    ASSUME Placed, NEW p \in Peers,
           (p \in Clients /\ ClientStep(p)) \/ (p \in RawPeers /\ RawStep(p))
    PROVE  /\ UNCHANGED <<worker, handled>>
           /\ \A q \in Peers \ {p} : /\ sent'[q] = sent[q] /\ end'[q] = end[q]
                                     /\ peer'[q] = peer[q] /\ down'[q] = down[q]
  <1>0. /\ sent \in [Peers -> Seq(FrameTypes)] /\ end \in [Peers -> Ends]
        /\ peer \in [Peers -> PeerStates] /\ down \in [Peers -> Seq(AnswerFrame)]
    BY DEF Placed, TypeOK
  <1>1. \A type : SendFrame(p, type) => \A q \in Peers \ {p} : sent'[q] = sent[q]
    BY <1>0 DEF SendFrame
  <1>2. CASE ClientStep(p)
    <2>1. CASE ClientConnect(p)
      BY <1>0, <1>1, <2>1 DEF ClientConnect, Connect, NoConnection, handling
    <2>2. CASE ClientRequest(p)
      BY <1>0, <1>1, <2>2 DEF ClientRequest, handling
    <2>3. CASE ClientAnswered(p)
      BY <1>0, <2>3 DEF ClientAnswered, handling
    <2>4. CASE ClientCutOff(p)
      BY <1>0, <2>4 DEF ClientCutOff, handling, wire, history
    <2>5. CASE ClientClose(p)
      BY <1>0, <1>1, <2>5 DEF ClientClose, handling
    <2> QED BY <1>2, <2>1, <2>2, <2>3, <2>4, <2>5 DEF ClientStep
  <1>3. CASE RawStep(p)
    <2>1. CASE RawConnect(p)
      BY <1>0, <2>1 DEF RawConnect, Connect, NoConnection, handling
    <2>2. CASE RawSend(p)
      BY <1>0, <1>1, <2>2 DEF RawSend, handling
    <2>3. CASE RawRead(p)
      BY <1>0, <2>3 DEF RawRead, handling, history
    <2>4. CASE RawClose(p)
      BY <1>0, <2>4 DEF RawClose, handling, history
    <2> QED BY <1>3, <2>1, <2>2, <2>3, <2>4 DEF RawStep
  <1> QED BY <1>2, <1>3

LEMMA ClientDialogue ==
    ASSUME Placed, Streams, NEW c \in Clients, Dialogue(c), ClientStep(c)
    PROVE  Dialogue(c)'
  <1>0. /\ c \in Peers /\ sent \in [Peers -> Seq(FrameTypes)] /\ end \in [Peers -> Ends]
        /\ peer \in [Peers -> PeerStates] /\ down \in [Peers -> Seq(AnswerFrame)]
        /\ sent[c] \in Seq(FrameTypes) /\ Len(sent[c]) \in Nat /\ c # NoOne
    BY TransportAssumption DEF Placed, TypeOK, Peers
  <1>1. UNCHANGED <<worker, handled>>
    BY <1>0, PeerIsLocal
  <1>2. InHand(c)' <=> InHand(c)
    BY <1>1 DEF InHand
  <1>3. ASSUME NEW type \in ClientFrames, SendFrame(c, type), Gone(c) => Gone(c)',
               type = "Bye" => Gone(c)'
        PROVE  /\ sent'[c] = Append(sent[c], type) /\ Len(sent'[c]) = Len(sent[c]) + 1
               /\ sent'[c] # <<>> /\ sent'[c][Len(sent'[c])] = type /\ Sends(c)'
    <2>1. sent'[c] = Append(sent[c], type)
      BY <1>0, <1>3 DEF SendFrame
    <2>2. type \in FrameTypes
      BY DEF ClientFrames, FrameTypes
    <2>3. /\ Len(sent'[c]) = Len(sent[c]) + 1 /\ sent'[c] # <<>> /\ sent'[c][Len(sent'[c])] = type
          /\ \A i \in 1..Len(sent[c]) : sent'[c][i] = sent[c][i]
      <3> DEFINE s == sent[c]
                 t == Append(s, type)
      <3>1. s \in Seq(FrameTypes)
        BY <1>0
      <3> HIDE DEF s
      <3>2. Len(t) = Len(s) + 1 /\ t # <<>> /\ t[Len(t)] = type /\ \A i \in 1..Len(s) : t[i] = s[i]
        BY <2>2, <3>1
      <3> HIDE DEF t
      <3>3. sent'[c] = t
        BY <2>1 DEF s, t
      <3> QED BY <3>2, <3>3 DEF s
    <2>4. \A i \in 1..Len(sent'[c]) : i = Len(sent'[c]) \/ i \in 1..Len(sent[c])
      BY <1>0, <2>3
    <2>5. Sends(c)'
      BY <1>3, <2>3, <2>4 DEF Dialogue, Sends
    <2> QED BY <2>1, <2>3, <2>5
  <1>4. ASSUME Gone(c) => Gone(c)' PROVE Served(c)'
    BY <1>1, <1>4 DEF Dialogue, Served
  <1>5. ASSUME UNCHANGED sent, Gone(c) => Gone(c)' PROVE Sends(c)'
    BY <1>5 DEF Dialogue, Sends
  <1>6. CASE ClientConnect(c)
    <2>1. peer[c] = "new" /\ UNCHANGED down /\ sent[c] = <<>> /\ handled[c] = <<>> /\ down[c] = <<>>
          /\ end[c] = "none"
      BY <1>0, <1>6 DEF ClientConnect, Streams, Placed, Ownership
    <2>2. ~InHand(c)
      BY <1>0, <2>1 DEF InHand, Placed, Ownership, Busy
    <2>3. ~Gone(c)
      BY <2>1 DEF Gone
    <2>4. CASE Connect(c, "welcome") /\ SendFrame(c, "Hello")
      <3>1. peer'[c] = "welcome" /\ end'[c] = "open"
        BY <1>0, <2>4 DEF Connect
      <3>2. Len(sent'[c]) = Len(sent[c]) + 1 /\ sent'[c] # <<>> /\ sent'[c][Len(sent'[c])] = "Hello"
            /\ Sends(c)'
        BY <1>3, <2>3, <2>4 DEF ClientFrames
      <3>3. Underway(c)'
        <4>1. Len(handled[c]) = Len(sent[c])
          BY <2>1
        <4> QED BY <1>1, <1>2, <2>1, <2>2, <3>1, <3>2, <4>1 DEF Underway
      <3>4. Asked["welcome"] = "Hello" /\ "welcome" \in DOMAIN Awaits
        BY DEF Asked, Awaits
      <3> QED BY <1>4, <2>3, <3>1, <3>2, <3>3, <3>4 DEF Dialogue
    <2>5. CASE NoConnection(c)
      <3>1. peer'[c] = "closed" /\ UNCHANGED sent
        BY <1>0, <2>5 DEF NoConnection
      <3> QED BY <1>4, <1>5, <2>1, <2>3, <3>1 DEF Dialogue, Awaits
    <2> QED BY <1>6, <2>4, <2>5 DEF ClientConnect
  <1>7. CASE ClientRequest(c)
    <2>1. PICK type \in {"Batch", "StatusRequest"}, next \in {"batch", "status"} :
             /\ SendFrame(c, type) /\ peer' = [peer EXCEPT ![c] = next] /\ type = Asked[next]
      BY <1>7 DEF ClientRequest, Asked
    <2>2. UNCHANGED <<end, down>> /\ peer[c] = "ready" /\ peer'[c] = next
      BY <1>0, <1>7, <2>1 DEF ClientRequest
    <2>3. ~Gone(c) /\ ~Gone(c)' /\ Settled(c) /\ down[c] = <<>>
      BY <2>2 DEF Gone, Dialogue
    <2>4. Len(sent'[c]) = Len(sent[c]) + 1 /\ sent'[c] # <<>> /\ sent'[c][Len(sent'[c])] = type
          /\ Sends(c)'
      BY <1>3, <2>1, <2>3 DEF ClientFrames
    <2>5. Underway(c)'
      BY <1>1, <1>2, <2>2, <2>3, <2>4 DEF Underway, Settled
    <2> QED BY <1>4, <2>1, <2>2, <2>3, <2>4, <2>5 DEF Dialogue
  <1>8. CASE ClientAnswered(c)
    <2> DEFINE a == Head(down[c])
    <2>1. /\ UNCHANGED <<sent, end>> /\ peer[c] \in DOMAIN Awaits /\ down[c] # <<>>
          /\ down'[c] = Tail(down[c])
          /\ peer'[c] = IF a.type = Awaits[peer[c]] THEN "ready" ELSE "failed"
      BY <1>0, <1>8 DEF ClientAnswered
    <2>2. ~Gone(c)
      BY <2>1 DEF Gone, Awaits
    <2>3. Served(c)' /\ Sends(c)'
      BY <1>4, <1>5, <2>1, <2>2
    <2>4. Dropped(c) \/ Answered(c)
      BY <2>1 DEF Dialogue, Underway, BeingHandled
    <2>5. CASE Answered(c)
      <3>1. PICK x \in AnswerFrame : down[c] = <<x>> /\ x.type = Awaits[peer[c]]
        BY <2>5 DEF Answered
      <3>2. a = x /\ down'[c] = <<>>
        BY <2>1, <3>1
      <3>3. Settled(c)'
        BY <1>1, <1>2, <2>1, <2>5 DEF Answered, Settled
      <3>4. peer'[c] = "ready"
        BY <2>1, <3>1, <3>2
      <3> QED BY <2>3, <3>2, <3>3, <3>4 DEF Dialogue, Awaits
    <2>6. CASE Dropped(c)
      <3>1. down[c] = <<Refusal>> /\ end[c] = "closed"
        BY <2>1, <2>6 DEF Dropped
      <3>2. a = Refusal /\ down'[c] = <<>>
        BY <2>1, <3>1
      <3>3. a.type # Awaits[peer[c]]
        BY <2>1, <3>2 DEF Refusal, Awaits
      <3>4. peer'[c] = "failed" /\ end'[c] = "closed"
        BY <2>1, <3>1, <3>3
      <3> QED BY <2>3, <3>2, <3>4 DEF Dialogue, Awaits
    <2> QED BY <2>4, <2>5, <2>6
  <1>9. CASE ClientCutOff(c)
    <2>1. UNCHANGED <<sent, end, down>> /\ down[c] = <<>> /\ end[c] = "closed" /\ peer'[c] = "failed"
          /\ peer[c] \in DOMAIN Awaits
      BY <1>0, <1>9 DEF ClientCutOff, wire, history
    <2>2. ~Gone(c)
      BY <2>1 DEF Gone, Awaits
    <2> QED BY <1>4, <1>5, <2>1, <2>2 DEF Dialogue, Awaits
  <1>10. CASE ClientClose(c)
    <2>1. SendFrame(c, "Bye") /\ peer'[c] = "closed" /\ down'[c] = <<>>
      BY <1>0, <1>10 DEF ClientClose
    <2>2. Gone(c)'
      BY <2>1 DEF Gone
    <2>3. Sends(c)' /\ Served(c)'
      BY <1>3, <1>4, <2>1, <2>2 DEF ClientFrames
    <2> QED BY <2>1, <2>3 DEF Dialogue, Awaits
  <1> QED BY <1>6, <1>7, <1>8, <1>9, <1>10 DEF ClientStep

LEMMA PeerDialogue ==
    ASSUME Placed, Streams, NEW c \in Clients, Dialogue(c),
           (\E d \in Clients : ClientStep(d)) \/ (\E r \in RawPeers : RawStep(r))
    PROVE  Dialogue(c)'
  <1>0. c \in Peers /\ c \notin RawPeers
    BY TransportAssumption DEF Peers
  <1>1. CASE ClientStep(c)
    BY <1>1, ClientDialogue
  <1>2. CASE ~ClientStep(c)
    <2>1. PICK p \in Peers : p # c /\ ((p \in Clients /\ ClientStep(p)) \/ (p \in RawPeers /\ RawStep(p)))
      BY <1>0, <1>2 DEF Peers
    <2>2. /\ UNCHANGED <<worker, handled>>
          /\ sent'[c] = sent[c] /\ end'[c] = end[c] /\ peer'[c] = peer[c] /\ down'[c] = down[c]
      BY <1>0, <2>1, PeerIsLocal
    <2>3. (InHand(c)' <=> InHand(c)) /\ Served(c)'
      BY <2>2 DEF InHand, Served, Dialogue, Gone
    <2> QED BY <2>2, <2>3, DialogueKept
  <1> QED BY <1>1, <1>2

\* A client never takes one request's answer for another's, though answers are
\* matched by type alone: at most one frame is ever under way to it, while it
\* waits that one answers its last request or refuses the connection, and
\* between requests there is none.
THEOREM TransportAnswerFitsRequest == Spec => []AnswerFitsRequest
  <1>1. Init => Dialogues
    <2> SUFFICES ASSUME Init, NEW c \in Clients PROVE Dialogue(c)
      BY DEF Dialogues
    <2>1. c \in Peers /\ c # NoOne
      BY TransportAssumption DEF Peers
    <2>2. sent[c] = <<>> /\ peer[c] = "new" /\ \A w \in Workers : worker[w].peer # c
      BY <2>1 DEF Init, Idle
    <2> QED BY <2>2 DEF Dialogue, Sends, Served, Awaits
  <1>2. Placed /\ Placed' /\ Streams /\ Ledger /\ Dialogues /\ [Next]_vars => Dialogues'
    <2> SUFFICES ASSUME Placed, Placed', Streams, Ledger, Dialogues, [Next]_vars, NEW c \in Clients
                 PROVE  Dialogue(c)'
      BY DEF Dialogues
    <2>0. Dialogue(c)
      BY DEF Dialogues
    <2>1. CASE UNCHANGED vars
      <3>1. UNCHANGED <<worker, sent, handled, end, peer, down>>
        BY <2>1 DEF vars, handling, wire, history
      <3>2. (InHand(c)' <=> InHand(c)) /\ Served(c)'
        BY <2>0, <3>1 DEF InHand, Served, Dialogue, Gone
      <3> QED BY <2>0, <3>1, <3>2, DialogueKept
    <2> QED BY <2>0, <2>1, AcceptDialogue, WorkDialogue, PeerDialogue DEF Next, Terminated
  <1>3. Placed /\ Streams /\ Dialogues => AnswerFitsRequest
    <2> SUFFICES ASSUME Placed, Streams, Dialogues, NEW c \in Clients
                 PROVE  /\ Len(down[c]) <= 1
                        /\ peer[c] \in DOMAIN Awaits /\ down[c] # <<>> =>
                             \/ down[c][1].n = Len(sent[c]) /\ down[c][1].type = Awaits[peer[c]]
                             \/ down[c][1] = Refusal
                        /\ peer[c] = "ready" => down[c] = <<>>
      BY DEF AnswerFitsRequest
    <2>0. c \in Peers /\ peer[c] \in PeerStates /\ Dialogue(c)
      BY DEF Peers, Placed, TypeOK, Dialogues
    <2>1. Len(<<>>) <= 1 /\ \A x : Len(<<x>>) <= 1 /\ <<x>>[1] = x
      OBVIOUS
    <2>2. CASE peer[c] \in DOMAIN Awaits
      <3>1. CASE Answered(c)
        <4>1. PICK x \in AnswerFrame :
                down[c] = <<x>> /\ x.n = Len(sent[c]) /\ x.type = Awaits[peer[c]]
          BY <3>1 DEF Answered
        <4>2. down[c][1] = x /\ Len(down[c]) <= 1
          BY <2>1, <4>1
        <4> QED BY <2>2, <4>1, <4>2 DEF Awaits
      <3>2. CASE ~Answered(c)
        <4>1. down[c] \in {<<>>, <<Refusal>>}
          BY <2>0, <2>2, <3>2 DEF Dialogue, Dropped, Underway, BeingHandled
        <4>2. Len(down[c]) <= 1 /\ (down[c] # <<>> => down[c][1] = Refusal)
          BY <2>1, <4>1
        <4> QED BY <2>2, <4>2 DEF Awaits
      <3> QED BY <3>1, <3>2
    <2>3. CASE peer[c] \notin DOMAIN Awaits
      <3>1. peer[c] \in {"new", "ready", "failed", "closed"}
        BY <2>0, <2>3 DEF PeerStates, Awaits, Dialogue
      <3>2. down[c] \in {<<>>, <<Refusal>>} /\ (peer[c] = "ready" => down[c] = <<>>)
        BY <2>0, <3>1 DEF Dialogue, Streams
      <3>3. Len(down[c]) <= 1
        BY <2>1, <3>2
      <3> QED BY <2>3, <3>2, <3>3
    <2> QED BY <2>2, <2>3
  <1> QED BY <1>1, <1>2, <1>3, TransportPlaced, TransportStreams, TransportLedger, PTL DEF Spec
=============================================================================
