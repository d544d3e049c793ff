------------------------ MODULE SegmentFormat_proofs ------------------------
(***************************************************************************)
(* Proofs about the durable segment, for any snapshots, limits and faults: *)
(* a reader that finds a header intact takes back a prefix of the records  *)
(* written, whatever happened to the file; a clean report means all of     *)
(* them; and an untouched segment reads back clean.                        *)
(***************************************************************************)
EXTENDS SegmentFormat, SequenceTheorems, WellFoundedInduction, TLAPS

-----------------------------------------------------------------------------
(* Induction, as a fact about sets of numbers *)

LEMMA EveryNumber ==
    ASSUME NEW T, T \subseteq Nat, 0 \in T, \A n \in T : n + 1 \in T
    PROVE  T = Nat
<1> DEFINE R == OpToRel(<, Nat)
           Missed == Nat \ T
<1>1. IsWellFoundedOn(R, Nat)
  BY NatLessThanWellFounded
<1>2. R = {ss \in Nat \X Nat : ss[1] < ss[2]}
  BY DEF OpToRel
<1> HIDE DEF R
<1>3. ASSUME Missed # {} PROVE FALSE
  <2>1. Missed \subseteq Nat
    OBVIOUS
  <2>2. PICK n \in Missed : \A m \in Missed : ~(<<m, n>> \in R)
    <3> HIDE DEF Missed
    <3> QED
      BY <1>1, <1>3, <2>1, WFMin
  <2>3. n \in Nat /\ n # 0
    BY <2>2
  <2>4. n - 1 \in Nat /\ <<n - 1, n>> \in R
    BY <1>2, <2>3
  <2>5. n - 1 \in T
    BY <2>2, <2>4
  <2>6. (n - 1) + 1 = n
    BY <2>3
  <2> QED
    BY <2>2, <2>5, <2>6
<1> QED
  BY <1>3

\* What holds at 0 and is passed on holds up to n.
LEMMA UpToBound ==
    ASSUME NEW n \in Nat, NEW T, 0 \in T, \A i \in 1..n : i - 1 \in T => i \in T
    PROVE  0..n \subseteq T
<1> DEFINE Q == {i \in Nat : i <= n => i \in T}
<1>1. 0 \in Q
  OBVIOUS
<1>2. ASSUME NEW i \in Q PROVE i + 1 \in Q
  <2>1. i \in Nat /\ (i + 1) - 1 = i
    OBVIOUS
  <2>2. ASSUME i + 1 <= n PROVE i + 1 \in T
    <3>1. i + 1 \in 1..n /\ i \in T
      BY <2>1, <2>2
    <3> QED
      BY <2>1, <3>1
  <2> QED
    BY <2>1, <2>2
<1>3. Q = Nat
  <2>1. Q \subseteq Nat
    OBVIOUS
  <2> HIDE DEF Q
  <2> QED
    BY <1>1, <1>2, <2>1, EveryNumber
<1> QED
  BY <1>3

-----------------------------------------------------------------------------
(* Sequences joined to one *)

\* How FlattenSeq goes through its sequences.
Joined(seqs, g) ==
    [i \in 1..Len(seqs) |-> IF i = 1 THEN seqs[i] ELSE g[i - 1] \o seqs[i]]

LEMMA JoinExists ==
    ASSUME NEW S, NEW seqs \in Seq(S)
    PROVE  \E g : g = Joined(seqs, g)
<1> DEFINE D == 1..Len(seqs)
           Right(g, n) == \A i \in D : i <= n => g[i] = Joined(seqs, g)[i]
           T == {n \in Nat : \E g : Right(g, n)}
<1>0. Len(seqs) \in Nat
  OBVIOUS
<1>1. 0 \in T
  <2>1. Right(<<>>, 0)
    OBVIOUS
  <2> QED
    BY <2>1
<1>2. ASSUME NEW n \in T PROVE n + 1 \in T
  <2>1. PICK g : Right(g, n)
    OBVIOUS
  <2> DEFINE h == Joined(seqs, g)
  <2>2. ASSUME NEW i \in D, i <= n + 1 PROVE h[i] = Joined(seqs, h)[i]
    <3>1. CASE i = 1
      BY <3>1 DEF Joined
    <3>2. CASE i # 1
      <4>1. i - 1 \in D /\ i - 1 <= n
        BY <1>0, <2>2, <3>2
      <4>2. g[i - 1] = h[i - 1]
        BY <2>1, <4>1
      <4>3. h[i] = g[i - 1] \o seqs[i]
        BY <3>2 DEF Joined
      <4> HIDE DEF h
      <4>4. Joined(seqs, h)[i] = h[i - 1] \o seqs[i]
        BY <3>2 DEF Joined
      <4> QED
        BY <4>2, <4>3, <4>4
    <3> QED
      BY <3>1, <3>2
  <2> HIDE DEF h
  <2>3. Right(h, n + 1)
    BY <2>2
  <2>4. n + 1 \in Nat
    OBVIOUS
  <2> HIDE DEF Right
  <2> QED
    BY <2>3, <2>4
<1>3. T = Nat
  <2>1. T \subseteq Nat
    OBVIOUS
  <2> HIDE DEF T
  <2> QED
    BY <1>1, <1>2, <2>1, EveryNumber
<1>4. PICK g : Right(g, Len(seqs) + 1)
  <2>1. Len(seqs) + 1 \in T
    BY <1>0, <1>3
  <2> QED
    BY <2>1
<1> DEFINE h == Joined(seqs, g)
<1>5. \A i \in D : g[i] = h[i]
  BY <1>0, <1>4
<1>6. h = Joined(seqs, h)
  <2>1. \A i \in D : i # 1 => i - 1 \in D
    BY <1>0
  <2>2. \A i \in D : i # 1 => g[i - 1] = h[i - 1]
    BY <1>5, <2>1
  <2>3. h = [i \in D |-> IF i = 1 THEN seqs[i] ELSE g[i - 1] \o seqs[i]]
    BY DEF Joined
  <2> HIDE DEF h
  <2> QED
    BY <2>2, <2>3 DEF Joined
<1> QED
  BY <1>6

\* Where each of some sequences begins, and what is there, when they are joined
\* to flat: off[n] is how much comes before the sequence after the n-th.
Layout(seqs, off, flat) ==
    /\ DOMAIN off = 0..Len(seqs) /\ off[0] = 0 /\ off[Len(seqs)] = Len(flat)
    /\ \A n \in 0..Len(seqs) : off[n] \in Nat
    /\ \A n \in 1..Len(seqs) :
         /\ off[n] = off[n - 1] + Len(seqs[n])
         /\ off[n] <= Len(flat)
         /\ \A j \in 1..Len(seqs[n]) : flat[off[n - 1] + j] = seqs[n][j]

LEMMA FlattenLayout ==
    ASSUME NEW S, NEW seqs \in Seq(Seq(S))
    PROVE  FlattenSeq(seqs) \in Seq(S) /\ \E off : Layout(seqs, off, FlattenSeq(seqs))
<1> DEFINE N == Len(seqs)
           g == CHOOSE g : g = Joined(seqs, g)
           f == [n \in 0..N |-> IF n = 0 THEN <<>> ELSE g[n]]
           off == [n \in 0..N |-> Len(f[n])]
<1>0. N \in Nat /\ \A n \in 1..N : seqs[n] \in Seq(S) /\ Len(seqs[n]) \in Nat
  OBVIOUS
<1>1. g = Joined(seqs, g)
  BY JoinExists
<1>2. N # 0 => FlattenSeq(seqs) = g[N]
  BY DEF FlattenSeq, Joined
<1> HIDE DEF g
<1>3. FlattenSeq(seqs) = f[N]
  <2>1. CASE N = 0
    <3>1. seqs = <<>>
      BY <2>1
    <3>2. FlattenSeq(seqs) = <<>>
      BY <3>1 DEF FlattenSeq
    <3> QED
      BY <1>0, <2>1, <3>2
  <2>2. CASE N # 0
    BY <1>0, <1>2, <2>2
  <2> QED
    BY <2>1, <2>2
<1>4. f[0] = <<>> /\ \A n \in 1..N : f[n] = IF n = 1 THEN seqs[1] ELSE f[n - 1] \o seqs[n]
  <2>1. \A n \in 1..N : g[n] = IF n = 1 THEN seqs[1] ELSE g[n - 1] \o seqs[n]
    BY <1>1 DEF Joined
  <2> QED
    BY <1>0, <2>1
<1> HIDE DEF f
\* One sequence more: what was there stays.
<1>5. ASSUME NEW n \in 1..N, f[n - 1] \in Seq(S), n = 1 => f[0] = <<>>
      PROVE  /\ f[n] \in Seq(S) /\ Len(f[n]) = Len(f[n - 1]) + Len(seqs[n])
             /\ \A i \in 1..Len(f[n - 1]) : f[n][i] = f[n - 1][i]
             /\ \A j \in 1..Len(seqs[n]) : f[n][Len(f[n - 1]) + j] = seqs[n][j]
  <2>1. f[n] = f[n - 1] \o seqs[n]
    <3>1. CASE n = 1
      <4>1. f[n - 1] = <<>> /\ f[n] = seqs[n] /\ seqs[n] \in Seq(S)
        BY <1>0, <1>4, <3>1
      <4> QED
        BY <4>1
    <3>2. CASE n # 1
      BY <1>4, <3>2
    <3> QED
      BY <3>1, <3>2
  <2>2. seqs[n] \in Seq(S)
    BY <1>0
  <2> DEFINE a == f[n - 1]
             b == seqs[n]
  <2>3. a \in Seq(S) /\ b \in Seq(S)
    BY <1>5, <2>2
  <2> HIDE DEF a, b
  <2>4. /\ a \o b \in Seq(S) /\ Len(a \o b) = Len(a) + Len(b)
        /\ \A i \in 1..Len(a) : (a \o b)[i] = a[i]
        /\ \A j \in 1..Len(b) : (a \o b)[Len(a) + j] = b[j]
    BY <2>3
  <2> QED
    BY <2>1, <2>4 DEF a, b
<1> DEFINE Good(n) ==
             /\ f[n] \in Seq(S)
             /\ \A m \in 1..n :
                  /\ f[m - 1] \in Seq(S) /\ Len(f[m]) = Len(f[m - 1]) + Len(seqs[m])
                  /\ Len(f[m]) <= Len(f[n])
                  /\ \A j \in 1..Len(seqs[m]) : f[n][Len(f[m - 1]) + j] = seqs[m][j]
           T == {n \in 0..N : Good(n)}
<1>6. 0 \in T
  <2>1. f[0] \in Seq(S) /\ 0 \in 0..N
    BY <1>0, <1>4
  <2>2. \A m \in 1..0 : FALSE
    OBVIOUS
  <2> QED
    BY <2>1, <2>2
<1>7. ASSUME NEW n \in 1..N, n - 1 \in T PROVE n \in T
  <2>1. Good(n - 1)
    BY <1>7
  <2>2. f[n - 1] \in Seq(S) /\ Len(f[n - 1]) \in Nat
    BY <2>1
  <2>3. /\ f[n] \in Seq(S) /\ Len(f[n]) = Len(f[n - 1]) + Len(seqs[n])
        /\ \A i \in 1..Len(f[n - 1]) : f[n][i] = f[n - 1][i]
        /\ \A j \in 1..Len(seqs[n]) : f[n][Len(f[n - 1]) + j] = seqs[n][j]
    BY <1>4, <1>5, <2>2
  <2>4. ASSUME NEW m \in 1..n
        PROVE  /\ f[m - 1] \in Seq(S) /\ Len(f[m]) = Len(f[m - 1]) + Len(seqs[m])
               /\ Len(f[m]) <= Len(f[n])
               /\ \A j \in 1..Len(seqs[m]) : f[n][Len(f[m - 1]) + j] = seqs[m][j]
    <3>1. CASE m = n
      <4>1. Len(f[n]) \in Nat
        <5>1. f[n] \in Seq(S)
          BY <2>3
        <5> QED
          BY <5>1
      <4>2. Len(f[n]) <= Len(f[n])
        BY <4>1
      <4> HIDE DEF f
      <4> QED
        BY ONLY <2>2, <2>3, <3>1, <4>2
    <3>2. CASE m # n
      <4>1. m \in 1..(n - 1) /\ m \in 1..N
        BY <1>0, <3>2
      <4>2. /\ f[m - 1] \in Seq(S) /\ Len(f[m]) = Len(f[m - 1]) + Len(seqs[m])
            /\ Len(f[m]) <= Len(f[n - 1])
            /\ \A j \in 1..Len(seqs[m]) : f[n - 1][Len(f[m - 1]) + j] = seqs[m][j]
        BY <2>1, <4>1
      <4>3. Len(seqs[n]) \in Nat /\ Len(seqs[m]) \in Nat /\ Len(f[m - 1]) \in Nat
        BY <1>0, <4>1, <4>2
      <4>4. Len(f[m]) <= Len(f[n])
        <5>1. \A x, y, z, u \in Nat : z <= x /\ u = x + y => z <= u
          OBVIOUS
        <5>2. Len(f[m]) \in Nat /\ Len(f[n]) \in Nat
          <6>1. f[n] \in Seq(S)
            BY <2>3
          <6>2. Len(f[m]) = Len(f[m - 1]) + Len(seqs[m])
            BY ONLY <4>2
          <6>3. Len(f[m]) \in Nat
            <7>1. \A x, y \in Nat : x + y \in Nat
              OBVIOUS
            <7> QED
              BY ONLY <4>3, <6>2, <7>1
          <6> QED
            BY <6>1, <6>3
        <5> QED
          BY ONLY <2>2, <2>3, <4>2, <4>3, <5>1, <5>2
      <4>5. ASSUME NEW j \in 1..Len(seqs[m]) PROVE f[n][Len(f[m - 1]) + j] = seqs[m][j]
        <5>1. \A x, y, z \in Nat : x + y <= z => \A i \in 1..y : x + i \in 1..z
          OBVIOUS
        <5>2. Len(f[m - 1]) + Len(seqs[m]) <= Len(f[n - 1])
          BY ONLY <4>2
        <5>3. Len(f[m - 1]) + j \in 1..Len(f[n - 1])
          BY ONLY <2>2, <4>3, <4>5, <5>1, <5>2
        <5> QED
          BY ONLY <2>3, <4>2, <4>5, <5>3
      <4> QED
        BY <4>2, <4>4, <4>5
    <3> QED
      BY <3>1, <3>2
  <2>5. n \in 0..N
    BY <1>0
  <2> QED
    BY <2>3, <2>4, <2>5
<1>8. N \in T
  <2> HIDE DEF T
  <2>1. 0..N \subseteq T
    BY <1>0, <1>6, <1>7, UpToBound
  <2> QED
    BY <1>0, <2>1
<1>9. f[N] \in Seq(S) /\ Len(f[N]) \in Nat /\ Good(N)
  <2>1. Good(N)
    BY <1>8
  <2>2. f[N] \in Seq(S)
    BY <2>1
  <2>3. Len(f[N]) \in Nat
    BY <2>2
  <2> QED
    BY <2>1, <2>2, <2>3
<1>10. /\ \A n \in 0..N : off[n] = Len(f[n]) /\ off[n] \in Nat
       /\ DOMAIN off = 0..N /\ off[0] = 0
  <2>1. ASSUME NEW n \in 0..N PROVE f[n] \in Seq(S)
    <3>1. CASE n = N
      BY <1>9, <3>1
    <3>2. CASE n # N
      <4>1. n + 1 \in 1..N /\ (n + 1) - 1 = n
        BY <1>0, <3>2
      <4> QED
        BY <1>9, <4>1
    <3> QED
      BY <3>1, <3>2
  <2>2. Len(f[0]) = 0 /\ 0 \in 0..N
    BY <1>0, <1>4
  <2> QED
    BY <2>1, <2>2
<1>11. Layout(seqs, off, f[N])
  <2>1. off[N] = Len(f[N])
    BY <1>0, <1>10
  <2>2. ASSUME NEW n \in 1..N
        PROVE  /\ off[n] = off[n - 1] + Len(seqs[n]) /\ off[n] <= Len(f[N])
               /\ \A j \in 1..Len(seqs[n]) : f[N][off[n - 1] + j] = seqs[n][j]
    <3>1. n \in 0..N /\ n - 1 \in 0..N
      BY <1>0
    <3>2. off[n] = Len(f[n]) /\ off[n - 1] = Len(f[n - 1])
      BY <1>10, <3>1
    <3> HIDE DEF off
    <3> QED
      BY <1>9, <3>2
  <2> HIDE DEF off
  <2> QED
    BY <1>10, <2>1, <2>2 DEF Layout
<1> HIDE DEF off
<1> QED
  BY <1>3, <1>9, <1>11

-----------------------------------------------------------------------------
(* Cells and where they are *)

Cell == Seq(Int)

\* Every cell of a record but its checksum holds one number.
Single == {U(n) : n \in Nat}

LEMMA SingleCell ==
    /\ Single \subseteq Cell
    /\ \A n \in Nat : U(n) \in Single
    /\ \A x \in Single : /\ Len(x) = 1 /\ x[1] \in Nat /\ x = U(x[1]) /\ Number(x) = x[1]
    /\ \A n : U(n)[1] = n /\ Len(U(n)) = 1 /\ Number(U(n)) = n
<1>1. \A n \in Nat : U(n) \in Cell
  BY DEF U, Cell
<1>2. \A n : U(n)[1] = n /\ Len(U(n)) = 1 /\ Number(U(n)) = n
  BY DEF U, Number
<1> QED
  BY <1>1, <1>2 DEF Single

\* The cells d are in c, the first of them at place at.
Holds(c, at, d) ==
    /\ at \in Nat \ {0} /\ at + Len(d) <= Len(c) + 1
    /\ \A j \in 1..Len(d) : c[(at - 1) + j] = d[j]

LEMMA HoldsItself ==
    ASSUME NEW S, NEW c \in Seq(S)
    PROVE  Holds(c, 1, c)
<1>1. Len(c) \in Nat
  OBVIOUS
<1> QED
  BY <1>1 DEF Holds

LEMMA HoldsJoin ==
    ASSUME NEW S, NEW a \in Seq(S), NEW b \in Seq(S), NEW c \in Seq(S), NEW at,
           Holds(c, at, a \o b)
    PROVE  Holds(c, at, a) /\ Holds(c, at + Len(a), b)
<1> DEFINE m == Len(a)
           n == Len(b)
           N == Len(c)
<1>1. m \in Nat /\ n \in Nat /\ N \in Nat /\ Len(a \o b) = m + n
  BY ConcatProperties
<1>2. at \in Nat \ {0} /\ at + (m + n) <= N + 1 /\ \A j \in 1..(m + n) : c[(at - 1) + j] = (a \o b)[j]
  BY <1>1 DEF Holds
<1>3. \A j \in 1..m : (a \o b)[j] = a[j]
  OBVIOUS
<1>4. \A j \in 1..n : (a \o b)[m + j] = b[j]
  OBVIOUS
<1> HIDE DEF m, n, N
<1>5. at \in Nat \ {0} /\ at + m \in Nat \ {0} /\ at + m <= N + 1 /\ (at + m) + n <= N + 1
  BY <1>1, <1>2
<1>6. ASSUME NEW j \in 1..m PROVE c[(at - 1) + j] = a[j]
  <2>1. j \in 1..(m + n)
    BY <1>1
  <2> QED
    BY <1>2, <1>3, <2>1
<1>7. ASSUME NEW j \in 1..n PROVE c[((at + m) - 1) + j] = b[j]
  <2>1. m + j \in 1..(m + n) /\ (at - 1) + (m + j) = ((at + m) - 1) + j
    BY <1>1, <1>2
  <2>2. c[(at - 1) + (m + j)] = (a \o b)[m + j]
    BY <1>2, <2>1
  <2> QED
    BY <1>4, <2>1, <2>2
<1> QED
  BY <1>5, <1>6, <1>7 DEF Holds, m, n, N

LEMMA HoldsPart ==
    ASSUME NEW S, NEW seqs \in Seq(Seq(S)), NEW c \in Seq(S), NEW at, NEW off,
           Layout(seqs, off, FlattenSeq(seqs)), Holds(c, at, FlattenSeq(seqs)),
           NEW n \in 1..Len(seqs)
    PROVE  /\ Holds(c, at + off[n - 1], seqs[n])
           /\ (at + off[n - 1]) + Len(seqs[n]) = at + off[n]
           /\ at + off[n - 1] \in Places(c)
<1> DEFINE flat == FlattenSeq(seqs)
           o == off[n - 1]
           k == Len(seqs[n])
           L == Len(flat)
           N == Len(c)
<1>1. k \in Nat /\ N \in Nat /\ L \in Nat /\ n - 1 \in 0..Len(seqs)
  <2>1. flat \in Seq(S) /\ seqs[n] \in Seq(S)
    BY FlattenLayout
  <2> HIDE DEF flat
  <2> QED
    BY <2>1
<1>2. o \in Nat /\ off[n] = o + k /\ off[n] <= L /\ \A j \in 1..k : flat[o + j] = seqs[n][j]
  BY <1>1 DEF Layout
<1>3. at \in Nat \ {0} /\ at + L <= N + 1 /\ \A j \in 1..L : c[(at - 1) + j] = flat[j]
  BY DEF Holds
<1> HIDE DEF flat, o, k, L, N
<1>4. o + k <= L
  BY <1>2
<1>5. /\ at + o \in Nat \ {0} /\ (at + o) + k <= N + 1 /\ (at + o) + k = at + (o + k)
      /\ at + o \in 1..(N + 1)
  BY <1>1, <1>2, <1>3, <1>4
<1>6. ASSUME NEW j \in 1..k PROVE c[((at + o) - 1) + j] = seqs[n][j]
  <2>1. o + j \in 1..L /\ (at - 1) + (o + j) = ((at + o) - 1) + j
    BY <1>1, <1>2, <1>3, <1>4
  <2>2. c[(at - 1) + (o + j)] = flat[o + j]
    BY <1>3, <2>1
  <2> QED
    BY <1>2, <2>1, <2>2
<1> QED
  BY <1>2, <1>5, <1>6 DEF Holds, Places, o, k, N

\* A number where it was written.
LEMMA ScalarReads ==
    ASSUME NEW S, NEW c \in Seq(S), NEW at, NEW n \in Nat, Holds(c, at, <<U(n)>>)
    PROVE  Scalar(c, at) = [ok |-> TRUE, at |-> at + 1, item |-> n]
<1>1. at \in Nat \ {0} /\ at + 1 <= Len(c) + 1 /\ c[(at - 1) + 1] = U(n)
  BY DEF Holds
<1>2. Len(c) \in Nat /\ DOMAIN c = 1..Len(c)
  OBVIOUS
<1>3. at \in DOMAIN c /\ c[at] = U(n)
  BY <1>1, <1>2
<1> QED
  BY <1>3, SingleCell DEF Scalar

-----------------------------------------------------------------------------
(* Vectors *)

LEMMA LongerPrefix ==
    ASSUME NEW I, NEW items \in Seq(I), NEW i \in 1..Len(items)
    PROVE  Append(SubSeq(items, 1, i - 1), items[i]) = SubSeq(items, 1, i)
<1>0. Len(items) \in Nat /\ i \in Nat /\ i >= 1
  OBVIOUS
<1> DEFINE x == SubSeq(items, 1, i - 1)
           y == SubSeq(items, 1, i)
<1>1. \A j \in 1..i : items[j] \in I
  BY <1>0, ElementOfSeq
<1>2. \A j \in 1..(i - 1) : items[j] \in I
  BY <1>0, <1>1
<1>3. i - 1 \in Int /\ i \in Int /\ 1 \in Int
  BY <1>0
<1>4. x \in Seq(I) /\ Len(x) = i - 1 /\ \A j \in 1..(i - 1) : x[j] = items[j]
  <2>1. /\ x \in Seq(I) /\ Len(x) = (IF 1 <= i - 1 THEN ((i - 1) - 1) + 1 ELSE 0)
        /\ \A j \in 1..(((i - 1) - 1) + 1) : x[j] = items[(1 + j) - 1]
    BY <1>2, <1>3, SubSeqProperties
  <2> HIDE DEF x
  <2>2. ((i - 1) - 1) + 1 = i - 1 /\ (~(1 <= i - 1) => i - 1 = 0)
    BY <1>0
  <2>3. \A j \in 1..(i - 1) : (1 + j) - 1 = j
    BY <1>0
  <2> QED
    BY <2>1, <2>2, <2>3
<1>5. y \in Seq(I) /\ Len(y) = i /\ \A j \in 1..i : y[j] = items[j]
  <2>1. /\ y \in Seq(I) /\ Len(y) = (IF 1 <= i THEN (i - 1) + 1 ELSE 0)
        /\ \A j \in 1..((i - 1) + 1) : y[j] = items[(1 + j) - 1]
    BY <1>1, <1>3, SubSeqProperties
  <2> HIDE DEF y
  <2>2. (i - 1) + 1 = i /\ 1 <= i
    BY <1>0
  <2>3. \A j \in 1..i : (1 + j) - 1 = j
    BY <1>0
  <2> QED
    BY <2>1, <2>2, <2>3
<1> HIDE DEF x, y
<1>6. items[i] \in I
  BY <1>1, <1>3
<1>7. /\ Append(x, items[i]) \in Seq(I) /\ Len(Append(x, items[i])) = i
      /\ \A j \in 1..i : Append(x, items[i])[j] = items[j]
  <2>1. Append(x, items[i]) \in Seq(I) /\ Len(Append(x, items[i])) = Len(x) + 1
    BY <1>4, <1>6, AppendProperties
  <2>2. (i - 1) + 1 = i
    BY <1>3
  <2>3. \A j \in 1..i : j # i => j \in 1..(i - 1)
    BY <1>3
  <2>4. /\ \A j \in 1..(i - 1) : Append(x, items[i])[j] = x[j]
        /\ Append(x, items[i])[(i - 1) + 1] = items[i]
    BY <1>4, <1>6, AppendProperties
  <2> QED
    BY <1>4, <2>1, <2>2, <2>3, <2>4
<1> QED
  BY <1>5, <1>7, SeqEqual DEF x, y

\* How List goes through the elements of a vector.
Elements(c, at, element, g) ==
    [i \in 0..Scalar(c, at).item |->
       IF i = 0 THEN [ok |-> TRUE, at |-> Scalar(c, at).at, items |-> <<>>]
       ELSE IF ~g[i - 1].ok THEN g[i - 1]
       ELSE Longer(g[i - 1], element[g[i - 1].at])]

\* What a vector reads as, when each of its elements reads as it was written
\* wherever it is.
ReadsAs(c, parts, items, element) ==
    \A i \in 1..Len(parts) : \A a \in Places(c) :
      Holds(c, a, parts[i]) =>
        element[a] = [ok |-> TRUE, at |-> a + Len(parts[i]), item |-> items[i]]

LEMMA ListReads ==
    ASSUME NEW S, Single \subseteq S, NEW c \in Seq(S), NEW parts \in Seq(Seq(S)),
           NEW I, NEW items \in Seq(I), NEW at, NEW element,
           Len(items) = Len(parts), \A i \in 1..Len(parts) : Len(parts[i]) >= 1,
           ReadsAs(c, parts, items, element), Holds(c, at, Counted(parts))
    PROVE  List(c, at, element) = [ok |-> TRUE, at |-> at + Len(Counted(parts)), items |-> items]
<1> DEFINE n == Len(parts)
           flat == FlattenSeq(parts)
           head == <<U(n)>>
<1>1. n \in Nat /\ head \in Seq(S) /\ Len(head) = 1
  BY SingleCell
<1>2. flat \in Seq(S) /\ \E off : Layout(parts, off, flat)
  BY FlattenLayout
<1>3. PICK off : Layout(parts, off, flat)
  BY <1>2
<1>4. Counted(parts) = head \o flat
  BY DEF Counted
<1>5. Holds(c, at, head) /\ Holds(c, at + 1, flat) /\ Len(Counted(parts)) = 1 + Len(flat)
  <2> HIDE DEF head, flat
  <2>1. Holds(c, at, head) /\ Holds(c, at + Len(head), flat)
    BY <1>1, <1>2, <1>4, HoldsJoin
  <2>2. Len(head \o flat) = Len(head) + Len(flat)
    <3>1. head \in Seq(S) /\ flat \in Seq(S)
      BY <1>1, <1>2
    <3> QED
      BY ONLY <3>1
  <2> QED
    BY ONLY <1>1, <1>4, <2>1, <2>2
<1>6. Scalar(c, at) = [ok |-> TRUE, at |-> at + 1, item |-> n]
  BY <1>1, <1>5, ScalarReads
<1> HIDE DEF head
<1>7. at \in Nat \ {0} /\ Len(c) \in Nat /\ (at + 1) + Len(flat) <= Len(c) + 1 /\ Len(flat) \in Nat
  BY <1>2, <1>5 DEF Holds
<1>8. off[n] = Len(flat) /\ off[0] = 0 /\ \A i \in 0..n : off[i] \in Nat
  BY <1>1, <1>3 DEF Layout
\* Every element has a cell, so read_count takes the count.
<1>9. n <= Len(flat)
  <2> DEFINE T == {i \in 0..n : i <= off[i]}
  <2>1. 0 \in T
    BY <1>1, <1>8
  <2>2. ASSUME NEW i \in 1..n, i - 1 \in T PROVE i \in T
    <3>1. off[i] = off[i - 1] + Len(parts[i]) /\ Len(parts[i]) >= 1 /\ i - 1 <= off[i - 1]
      BY <1>3, <2>2 DEF Layout
    <3>2. parts[i] \in Seq(S) /\ i \in 0..n /\ i - 1 \in 0..n
      BY <1>1
    <3>3. Len(parts[i]) \in Nat
      BY <3>2
    <3>4. off[i] \in Nat /\ off[i - 1] \in Nat
      BY <1>8, <3>2
    <3>5. \A x, y, z \in Nat : x = y + z /\ z >= 1 /\ i - 1 <= y => i <= x
      BY <1>1
    <3>6. i <= off[i]
      BY ONLY <3>1, <3>3, <3>4, <3>5
    <3> QED
      BY <3>2, <3>6
  <2> HIDE DEF T
  <2>3. 0..n \subseteq T
    <3> HIDE DEF n
    <3> QED
      BY <1>1, <2>1, <2>2, UpToBound
  <2>4. n \in T
    BY <1>1, <2>3
  <2>5. n <= off[n]
    BY <2>4 DEF T
  <2> QED
    BY <1>8, <2>5
<1>10. n <= Len(c) - ((at + 1) - 1)
  <2> HIDE DEF n, flat
  <2> QED
    BY <1>1, <1>7, <1>9
<1> DEFINE h == [i \in 0..n |-> [ok |-> TRUE, at |-> (at + 1) + off[i], items |-> SubSeq(items, 1, i)]]
<1>11. ASSUME NEW i \in 1..n
       PROVE  Longer(h[i - 1], element[h[i - 1].at]) = h[i]
  <2>1. i - 1 \in 0..n /\ i \in 0..n
    BY <1>1
  <2>2. h[i - 1] = [ok |-> TRUE, at |-> (at + 1) + off[i - 1], items |-> SubSeq(items, 1, i - 1)]
    BY <2>1
  <2>3. h[i] = [ok |-> TRUE, at |-> (at + 1) + off[i], items |-> SubSeq(items, 1, i)]
    BY <2>1
  <2>4. /\ Holds(c, (at + 1) + off[i - 1], parts[i])
        /\ ((at + 1) + off[i - 1]) + Len(parts[i]) = (at + 1) + off[i]
        /\ (at + 1) + off[i - 1] \in Places(c)
    BY <1>3, <1>5, HoldsPart
  <2>5. element[(at + 1) + off[i - 1]] = [ok |-> TRUE, at |-> (at + 1) + off[i], item |-> items[i]]
    BY <2>4 DEF ReadsAs
  <2>6. Append(SubSeq(items, 1, i - 1), items[i]) = SubSeq(items, 1, i)
    BY <1>1, LongerPrefix
  <2>7. \A list, x : x.ok => Longer(list, x) = [ok |-> TRUE, at |-> x.at, items |-> Append(list.items, x.item)]
    BY DEF Longer
  <2>8. h[i - 1].at = (at + 1) + off[i - 1]
    BY <2>2
  <2> HIDE DEF h
  <2> DEFINE A == (at + 1) + off[i - 1]
             B == (at + 1) + off[i]
             X == SubSeq(items, 1, i - 1)
             Y == items[i]
  <2>9. /\ h[i - 1] = [ok |-> TRUE, at |-> A, items |-> X] /\ h[i - 1].at = A
        /\ element[A] = [ok |-> TRUE, at |-> B, item |-> Y]
        /\ h[i] = [ok |-> TRUE, at |-> B, items |-> Append(X, Y)]
    BY ONLY <2>2, <2>3, <2>5, <2>6, <2>8
  <2> HIDE DEF A, B, X, Y
  <2>10. /\ h[i - 1].items = X /\ element[A].ok /\ element[A].at = B /\ element[A].item = Y
    BY ONLY <2>9
  <2>11. Longer(h[i - 1], element[A]) = [ok |-> TRUE, at |-> B, items |-> Append(X, Y)]
    BY ONLY <2>7, <2>10
  <2> QED
    BY ONLY <2>9, <2>11
<1>12. h[0] = [ok |-> TRUE, at |-> at + 1, items |-> <<>>] /\ \A i \in 0..n : h[i].ok
  <2>1. 0 \in 0..n /\ (at + 1) + off[0] = at + 1
    BY <1>1, <1>7, <1>8
  <2>2. SubSeq(items, 1, 0) = <<>>
    BY SubSeqEmpty
  <2> QED
    BY <2>1, <2>2
<1>13. h[n] = [ok |-> TRUE, at |-> at + Len(Counted(parts)), items |-> items]
  <2>1. SubSeq(items, 1, n) = items
    BY SubSeqFull
  <2>2. (at + 1) + off[n] = at + Len(Counted(parts))
    <3> HIDE DEF flat, n
    <3> QED
      BY <1>5, <1>7, <1>8
  <2>3. n \in 0..n
    BY <1>1
  <2>4. h[n] = [ok |-> TRUE, at |-> (at + 1) + off[n], items |-> SubSeq(items, 1, n)]
    <3> HIDE DEF n
    <3> QED
      BY ONLY <2>3
  <2> HIDE DEF h
  <2> QED
    BY ONLY <2>1, <2>2, <2>4
<1> HIDE DEF h
<1>14. h = Elements(c, at, element, h)
  <2>1. ASSUME NEW i \in 0..n
        PROVE  h[i] = IF i = 0 THEN [ok |-> TRUE, at |-> at + 1, items |-> <<>>]
                      ELSE IF ~h[i - 1].ok THEN h[i - 1]
                      ELSE Longer(h[i - 1], element[h[i - 1].at])
    <3>1. i # 0 => i \in 1..n /\ i - 1 \in 0..n
      BY <1>1
    <3> QED
      BY <1>11, <1>12, <3>1
  <2>2. h = [i \in 0..n |-> h[i]]
    BY DEF h
  <2>3. /\ Scalar(c, at).item = n /\ Scalar(c, at).at = at + 1
    BY <1>6
  <2> HIDE DEF n
  <2> QED
    BY <2>1, <2>2, <2>3 DEF Elements
<1> DEFINE r == CHOOSE g : g = Elements(c, at, element, g)
<1>15. r = Elements(c, at, element, r)
  BY <1>14
<1>16. List(c, at, element) =
         IF Scalar(c, at).ok /\ Scalar(c, at).item <= Len(c) - (Scalar(c, at).at - 1)
         THEN r[Scalar(c, at).item] ELSE [ok |-> FALSE, at |-> at, items |-> <<>>]
  BY DEF List, Elements
<1> HIDE DEF r
<1>17. List(c, at, element) = r[n]
  BY <1>6, <1>10, <1>16
<1>18. \A i \in 0..n : r[i] = IF i = 0 THEN [ok |-> TRUE, at |-> at + 1, items |-> <<>>]
                              ELSE IF ~r[i - 1].ok THEN r[i - 1]
                              ELSE Longer(r[i - 1], element[r[i - 1].at])
  <2>1. /\ Scalar(c, at).item = n /\ Scalar(c, at).at = at + 1
    BY <1>6
  <2> HIDE DEF n
  <2> QED
    BY <1>15, <2>1 DEF Elements
<1>19. r[n] = h[n]
  <2> DEFINE T == {i \in 0..n : r[i] = h[i]}
  <2>1. 0 \in T
    <3>1. 0 \in 0..n
      BY <1>1
    <3>2. r[0] = [ok |-> TRUE, at |-> at + 1, items |-> <<>>]
      BY ONLY <1>18, <3>1
    <3> QED
      BY ONLY <1>12, <3>1, <3>2
  <2>2. ASSUME NEW i \in 1..n, i - 1 \in T PROVE i \in T
    <3>1. r[i - 1] = h[i - 1] /\ i \in 0..n /\ i # 0 /\ i - 1 \in 0..n
      BY <1>1, <2>2
    <3>2. r[i] = Longer(h[i - 1], element[h[i - 1].at])
      BY <1>12, <1>18, <3>1
    <3> QED
      BY <1>11, <3>1, <3>2
  <2> HIDE DEF T
  <2>3. 0..n \subseteq T
    <3> HIDE DEF n
    <3> QED
      BY <1>1, <2>1, <2>2, UpToBound
  <2>4. n \in T
    BY <1>1, <2>3
  <2> QED
    BY <2>4 DEF T
<1> QED
  BY <1>13, <1>17, <1>19

-----------------------------------------------------------------------------
(* What was written reads as what was written *)

LEMMA FunctionIsSequence ==
    ASSUME NEW S, NEW n \in Nat, NEW f \in [1..n -> S]
    PROVE  f \in Seq(S) /\ Len(f) = n
OBVIOUS

LEMMA NumberCells ==
    ASSUME NEW seq \in Seq(Nat)
    PROVE  /\ Numbers(seq) \in Seq(Seq(Single)) /\ Len(Numbers(seq)) = Len(seq)
           /\ \A i \in 1..Len(seq) : Numbers(seq)[i] = <<U(seq[i])>> /\ Len(Numbers(seq)[i]) = 1
<1>1. Len(seq) \in Nat /\ DOMAIN seq = 1..Len(seq) /\ \A i \in 1..Len(seq) : seq[i] \in Nat
  OBVIOUS
<1>2. \A x \in Single : <<x>> \in Seq(Single) /\ Len(<<x>>) = 1
  OBVIOUS
<1>3. \A i \in 1..Len(seq) : U(seq[i]) \in Single
  BY <1>1, SingleCell
<1>4. \A i \in 1..Len(seq) : Numbers(seq)[i] = <<U(seq[i])>>
  BY <1>1 DEF Numbers
<1>5. Numbers(seq) \in [1..Len(seq) -> Seq(Single)]
  BY <1>1, <1>2, <1>3 DEF Numbers
<1> QED
  <2>1. Numbers(seq) \in Seq(Seq(Single)) /\ Len(Numbers(seq)) = Len(seq)
    BY ONLY <1>1, <1>5, FunctionIsSequence
  <2>2. \A i \in 1..Len(seq) : Len(Numbers(seq)[i]) = 1
    BY ONLY <1>2, <1>3, <1>4
  <2> QED
    BY ONLY <1>4, <2>1, <2>2

LEMMA CountedCells ==
    ASSUME NEW parts \in Seq(Seq(Single))
    PROVE  Counted(parts) \in Seq(Single) /\ Len(Counted(parts)) >= 1
<1> DEFINE head == <<U(Len(parts))>>
           flat == FlattenSeq(parts)
<1>1. U(Len(parts)) \in Single
  BY SingleCell
<1>2. head \in Seq(Single) /\ Len(head) = 1
  BY <1>1
<1>3. flat \in Seq(Single)
  BY FlattenLayout
<1>4. Counted(parts) = head \o flat
  BY DEF Counted
<1> HIDE DEF head, flat
<1>5. head \o flat \in Seq(Single) /\ Len(head \o flat) = Len(head) + Len(flat) /\ Len(flat) \in Nat
  <2>1. head \in Seq(Single)
    BY <1>2
  <2> QED
    BY ONLY <1>3, <2>1
<1>6. \A n \in Nat : 1 + n >= 1
  OBVIOUS
<1> QED
  BY ONLY <1>2, <1>4, <1>5, <1>6

LEMMA HeadCells ==
    ASSUME NEW n \in Nat, NEW d \in Seq(Single)
    PROVE  <<U(n)>> \o d \in Seq(Single) /\ Len(<<U(n)>> \o d) = 1 + Len(d)
<1>1. U(n) \in Single
  BY SingleCell
<1> QED
  BY <1>1

\* A number and what follows it.
LEMMA HeadReads ==
    ASSUME NEW c \in Seq(Single), NEW at, NEW n \in Nat, NEW d \in Seq(Single),
           Holds(c, at, <<U(n)>> \o d)
    PROVE  /\ Scalar(c, at) = [ok |-> TRUE, at |-> at + 1, item |-> n]
           /\ Holds(c, at + 1, d)
           /\ (at + 1) + Len(d) = at + Len(<<U(n)>> \o d)
<1>1. <<U(n)>> \in Seq(Single) /\ Len(<<U(n)>>) = 1
  BY SingleCell
<1>2. Holds(c, at, <<U(n)>>) /\ Holds(c, at + 1, d)
  BY <1>1, HoldsJoin
<1>3. Len(d) \in Nat /\ at \in Nat
  BY <1>2 DEF Holds
<1>4. Len(<<U(n)>> \o d) = 1 + Len(d)
  BY HeadCells
<1> QED
  BY <1>2, <1>3, <1>4, ScalarReads

LEMMA NumbersRead ==
    ASSUME NEW seq \in Seq(Nat), NEW c \in Seq(Single), NEW at, Holds(c, at, Counted(Numbers(seq)))
    PROVE  List(c, at, Scalars(c))
             = [ok |-> TRUE, at |-> at + Len(Counted(Numbers(seq))), items |-> seq]
<1> DEFINE parts == Numbers(seq)
           element == Scalars(c)
<1>1. /\ parts \in Seq(Seq(Single)) /\ Len(seq) = Len(parts)
      /\ \A i \in 1..Len(seq) : parts[i] = <<U(seq[i])>> /\ Len(parts[i]) = 1
  BY NumberCells
<1>2. ReadsAs(c, parts, seq, element)
  <2> SUFFICES ASSUME NEW i \in 1..Len(parts), NEW a \in Places(c), Holds(c, a, parts[i])
               PROVE  element[a] = [ok |-> TRUE, at |-> a + Len(parts[i]), item |-> seq[i]]
    BY DEF ReadsAs
  <2>1. parts[i] = <<U(seq[i])>> /\ Len(parts[i]) = 1 /\ seq[i] \in Nat
    BY <1>1
  <2>2. element[a] = Scalar(c, a)
    BY DEF Scalars
  <2> QED
    BY <2>1, <2>2, ScalarReads
<1>3. Holds(c, at, Counted(parts)) /\ Single \subseteq Single
  OBVIOUS
<1>4. \A i \in 1..Len(parts) : Len(parts[i]) >= 1
  <2>1. 1 >= 1
    OBVIOUS
  <2> HIDE DEF parts
  <2> QED
    BY ONLY <1>1, <2>1
<1> HIDE DEF parts, element
<1>5. List(c, at, element) = [ok |-> TRUE, at |-> at + Len(Counted(parts)), items |-> seq]
  BY <1>1, <1>2, <1>3, <1>4, ListReads
<1> QED
  BY <1>5 DEF parts, element

LEMMA OptionalReads ==
    ASSUME NEW o \in Optionals(Nat)
    PROVE  /\ Optional(o) \in Seq(Single)
           /\ \A c \in Seq(Single) : \A at : Holds(c, at, Optional(o)) =>
                ReadOptional(c, at) = [ok |-> TRUE, at |-> at + Len(Optional(o)), item |-> o]
<1>1. CASE o = <<>>
  <2>1. Optional(o) = <<U(0)>>
    BY <1>1 DEF Optional
  <2>2. U(0) \in Single
    BY SingleCell
  <2>3. ASSUME NEW c \in Seq(Single), NEW at, Holds(c, at, Optional(o))
        PROVE  ReadOptional(c, at) = [ok |-> TRUE, at |-> at + Len(Optional(o)), item |-> o]
    <3>1. Scalar(c, at) = [ok |-> TRUE, at |-> at + 1, item |-> 0]
      BY <2>1, <2>3, ScalarReads
    <3>2. ReadOptional(c, at) = [ok |-> TRUE, at |-> at + 1, item |-> <<>>]
      BY <3>1 DEF ReadOptional
    <3>3. Len(Optional(o)) = 1
      BY <2>1
    <3> QED
      BY <1>1, <3>2, <3>3
  <2> QED
    BY <2>1, <2>2, <2>3
<1>2. CASE o # <<>>
  <2>1. o \in Seq(Nat) /\ Len(o) <= 1
    BY DEF Optionals
  <2>2. Len(o) = 1 /\ o[1] \in Nat /\ o = <<o[1]>>
    <3>1. Len(o) \in Nat \ {0}
      BY <1>2, <2>1, EmptySeq
    <3>2. Len(o) = 1
      <4>1. \A n \in Nat \ {0} : n <= 1 => n = 1
        OBVIOUS
      <4> QED
        BY ONLY <2>1, <3>1, <4>1
    <3>3. o[1] \in Nat
      BY <2>1, <3>2
    <3>4. <<o[1]>> \in Seq(Nat) /\ Len(<<o[1]>>) = 1 /\ <<o[1]>>[1] = o[1]
      BY ONLY <3>3
    <3>5. \A i \in 1..Len(o) : o[i] = <<o[1]>>[i]
      BY <3>2, <3>4
    <3> QED
      BY <2>1, <3>2, <3>3, <3>4, <3>5, SeqEqual
  <2>3. Optional(o) = <<U(1), U(o[1])>>
    BY <1>2 DEF Optional
  <2>4. U(1) \in Single /\ U(o[1]) \in Single
    BY <2>2, SingleCell
  <2>5. Optional(o) = <<U(1)>> \o <<U(o[1])>> /\ <<U(o[1])>> \in Seq(Single) /\ Len(<<U(o[1])>>) = 1
    BY <2>3, <2>4
  <2>6. Len(Optional(o)) = 2
    BY <2>3
  <2>7. ASSUME NEW c \in Seq(Single), NEW at, Holds(c, at, Optional(o))
        PROVE  ReadOptional(c, at) = [ok |-> TRUE, at |-> at + Len(Optional(o)), item |-> o]
    <3>1. /\ Scalar(c, at) = [ok |-> TRUE, at |-> at + 1, item |-> 1]
          /\ Holds(c, at + 1, <<U(o[1])>>)
      BY <2>5, <2>7, HeadReads
    <3>2. Scalar(c, at + 1) = [ok |-> TRUE, at |-> (at + 1) + 1, item |-> o[1]]
      BY <2>2, <3>1, ScalarReads
    <3>3. ReadOptional(c, at) = [ok |-> TRUE, at |-> (at + 1) + 1, item |-> <<o[1]>>]
      <4>1. Scalar(c, at).ok /\ Scalar(c, at).at = at + 1 /\ Scalar(c, at).item # 0
        BY <3>1
      <4>2. LET v == Scalar(c, at + 1) IN v.ok = TRUE /\ v.at = (at + 1) + 1 /\ v.item = o[1]
        BY <3>2
      <4> QED
        BY ONLY <4>1, <4>2 DEF ReadOptional
    <3>4. (at + 1) + 1 = at + 2
      BY <2>7 DEF Holds
    <3> QED
      BY <2>2, <2>6, <3>3, <3>4
  <2> QED
    BY <2>3, <2>4, <2>7
<1> QED
  BY <1>1, <1>2

\* The vectors of larger elements: cells says what is written for each.
Parts(cells, seq) == [i \in DOMAIN seq |-> cells[seq[i]]]

ElementReads(X, cells, c, element) ==
    \A x \in X : \A a \in Places(c) :
      Holds(c, a, cells[x]) => element[a] = [ok |-> TRUE, at |-> a + Len(cells[x]), item |-> x]

LEMMA VectorReads ==
    ASSUME NEW X, NEW cells \in [X -> Seq(Single)], \A x \in X : Len(cells[x]) >= 1, NEW seq \in Seq(X)
    PROVE  /\ Parts(cells, seq) \in Seq(Seq(Single)) /\ Len(Parts(cells, seq)) = Len(seq)
           /\ Counted(Parts(cells, seq)) \in Seq(Single) /\ Len(Counted(Parts(cells, seq))) >= 1
           /\ \A c \in Seq(Single) : \A at, element :
                ElementReads(X, cells, c, element) /\ Holds(c, at, Counted(Parts(cells, seq))) =>
                  List(c, at, element)
                    = [ok |-> TRUE, at |-> at + Len(Counted(Parts(cells, seq))), items |-> seq]
<1> DEFINE parts == Parts(cells, seq)
<1>1. Len(seq) \in Nat /\ DOMAIN seq = 1..Len(seq) /\ \A i \in 1..Len(seq) : seq[i] \in X
  OBVIOUS
<1>2. \A i \in 1..Len(seq) : parts[i] = cells[seq[i]]
  BY <1>1 DEF Parts
<1>3. parts \in [1..Len(seq) -> Seq(Single)]
  BY <1>1 DEF Parts
<1> HIDE DEF parts
<1>4. parts \in Seq(Seq(Single)) /\ Len(parts) = Len(seq)
  BY ONLY <1>1, <1>3, FunctionIsSequence
<1>5. Counted(parts) \in Seq(Single) /\ Len(Counted(parts)) >= 1
  BY ONLY <1>4, CountedCells
<1>6. ASSUME NEW c \in Seq(Single), NEW at, NEW element,
             ElementReads(X, cells, c, element), Holds(c, at, Counted(parts))
      PROVE  List(c, at, element) = [ok |-> TRUE, at |-> at + Len(Counted(parts)), items |-> seq]
  <2>1. ReadsAs(c, parts, seq, element)
    <3> SUFFICES ASSUME NEW i \in 1..Len(parts), NEW a \in Places(c), Holds(c, a, parts[i])
                 PROVE  element[a] = [ok |-> TRUE, at |-> a + Len(parts[i]), item |-> seq[i]]
      BY DEF ReadsAs
    <3>1. seq[i] \in X /\ parts[i] = cells[seq[i]]
      BY <1>1, <1>2, <1>4
    <3> QED
      BY <1>6, <3>1 DEF ElementReads
  <2>2. \A i \in 1..Len(parts) : Len(parts[i]) >= 1
    <3>1. \A x \in X : Len(cells[x]) >= 1
      OBVIOUS
    <3> QED
      BY ONLY <1>1, <1>2, <1>4, <3>1
  <2>3. Len(seq) = Len(parts) /\ Single \subseteq Single
    BY <1>4
  <2> QED
    BY <1>4, <1>6, <2>1, <2>2, <2>3, ListReads
<1> QED
  BY <1>4, <1>5, <1>6 DEF parts

LEMMA SampleReads ==
    ASSUME NEW s \in SampleSet
    PROVE  /\ SampleCells(s) \in Seq(Single) /\ Len(SampleCells(s)) >= 1
           /\ \A c \in Seq(Single) : \A at : Holds(c, at, SampleCells(s)) =>
                ReadSample(c, at) = [ok |-> TRUE, at |-> at + Len(SampleCells(s)), item |-> s]
<1> DEFINE d == Counted(Numbers(s.values))
<1>1. s.head \in Nat /\ s.values \in Seq(Nat) /\ s = [head |-> s.head, values |-> s.values]
  BY DEF SampleSet
<1>2. Numbers(s.values) \in Seq(Seq(Single))
  BY <1>1, NumberCells
<1>3. d \in Seq(Single)
  BY <1>2, CountedCells
<1>4. SampleCells(s) = <<U(s.head)>> \o d
  BY DEF SampleCells
<1>5. ASSUME NEW c \in Seq(Single), NEW at, Holds(c, at, SampleCells(s))
      PROVE  ReadSample(c, at) = [ok |-> TRUE, at |-> at + Len(SampleCells(s)), item |-> s]
  <2> HIDE DEF d
  <2>1. /\ Scalar(c, at) = [ok |-> TRUE, at |-> at + 1, item |-> s.head]
        /\ Holds(c, at + 1, d) /\ (at + 1) + Len(d) = at + Len(SampleCells(s))
    BY <1>1, <1>3, <1>4, <1>5, HeadReads
  <2>2. List(c, at + 1, Scalars(c)) = [ok |-> TRUE, at |-> at + Len(SampleCells(s)), items |-> s.values]
    <3>1. List(c, at + 1, Scalars(c)) = [ok |-> TRUE, at |-> (at + 1) + Len(d), items |-> s.values]
      BY <1>1, <2>1, NumbersRead DEF d
    <3> QED
      BY ONLY <2>1, <3>1
  <2>3. Scalar(c, at).ok = TRUE /\ Scalar(c, at).at = at + 1 /\ Scalar(c, at).item = s.head
    BY ONLY <2>1
  <2>4. LET v == List(c, at + 1, Scalars(c))
        IN v.ok = TRUE /\ v.at = at + Len(SampleCells(s)) /\ v.items = s.values
    BY ONLY <2>2
  <2> QED
    BY ONLY <1>1, <2>3, <2>4 DEF ReadSample
<1>6. SampleCells(s) \in Seq(Single) /\ Len(SampleCells(s)) >= 1
  <2> HIDE DEF d
  <2>1. SampleCells(s) \in Seq(Single) /\ Len(SampleCells(s)) = 1 + Len(d) /\ Len(d) \in Nat
    BY <1>1, <1>3, <1>4, HeadCells
  <2>2. \A n \in Nat : 1 + n >= 1
    OBVIOUS
  <2> QED
    BY ONLY <2>1, <2>2
<1> QED
  BY <1>5, <1>6

LEMMA SourceReads ==
    ASSUME NEW x \in SourceSet
    PROVE  /\ SourceCells(x) \in Seq(Single) /\ Len(SourceCells(x)) >= 1
           /\ \A c \in Seq(Single) : \A at : Holds(c, at, SourceCells(x)) =>
                ReadSource(c, at) = [ok |-> TRUE, at |-> at + Len(SourceCells(x)), item |-> x]
<1> DEFINE d == Counted(Numbers(x.recent))
<1>1. x.id \in Nat /\ x.recent \in Seq(Nat) /\ x = [id |-> x.id, recent |-> x.recent]
  BY DEF SourceSet
<1>2. Numbers(x.recent) \in Seq(Seq(Single))
  BY <1>1, NumberCells
<1>3. d \in Seq(Single)
  BY <1>2, CountedCells
<1>4. SourceCells(x) = <<U(x.id)>> \o d
  BY DEF SourceCells
<1>5. ASSUME NEW c \in Seq(Single), NEW at, Holds(c, at, SourceCells(x))
      PROVE  ReadSource(c, at) = [ok |-> TRUE, at |-> at + Len(SourceCells(x)), item |-> x]
  <2> HIDE DEF d
  <2>1. /\ Scalar(c, at) = [ok |-> TRUE, at |-> at + 1, item |-> x.id]
        /\ Holds(c, at + 1, d) /\ (at + 1) + Len(d) = at + Len(SourceCells(x))
    BY <1>1, <1>3, <1>4, <1>5, HeadReads
  <2>2. List(c, at + 1, Scalars(c)) = [ok |-> TRUE, at |-> at + Len(SourceCells(x)), items |-> x.recent]
    <3>1. List(c, at + 1, Scalars(c)) = [ok |-> TRUE, at |-> (at + 1) + Len(d), items |-> x.recent]
      BY <1>1, <2>1, NumbersRead DEF d
    <3> QED
      BY ONLY <2>1, <3>1
  <2>3. Scalar(c, at).ok = TRUE /\ Scalar(c, at).at = at + 1 /\ Scalar(c, at).item = x.id
    BY ONLY <2>1
  <2>4. LET v == List(c, at + 1, Scalars(c))
        IN v.ok = TRUE /\ v.at = at + Len(SourceCells(x)) /\ v.items = x.recent
    BY ONLY <2>2
  <2> QED
    BY ONLY <1>1, <2>3, <2>4 DEF ReadSource
<1>6. SourceCells(x) \in Seq(Single) /\ Len(SourceCells(x)) >= 1
  <2> HIDE DEF d
  <2>1. SourceCells(x) \in Seq(Single) /\ Len(SourceCells(x)) = 1 + Len(d) /\ Len(d) \in Nat
    BY <1>1, <1>3, <1>4, HeadCells
  <2>2. \A n \in Nat : 1 + n >= 1
    OBVIOUS
  <2> QED
    BY ONLY <2>1, <2>2
<1> QED
  BY <1>5, <1>6

LEMMA EntryReads ==
    ASSUME NEW e \in EntrySet
    PROVE  /\ EntryCells(e) \in Seq(Single) /\ Len(EntryCells(e)) >= 1
           /\ \A c \in Seq(Single) : \A at : Holds(c, at, EntryCells(e)) =>
                ReadEntry(c, at) = [ok |-> TRUE, at |-> at + Len(EntryCells(e)), item |-> e]
<1> DEFINE d == Optional(e.class)
<1>1. e.id \in Nat /\ e.class \in Optionals(Nat) /\ e = [id |-> e.id, class |-> e.class]
  BY DEF EntrySet
<1>2. d \in Seq(Single)
  BY <1>1, OptionalReads
<1>3. EntryCells(e) = <<U(e.id)>> \o d
  BY DEF EntryCells
<1>4. ASSUME NEW c \in Seq(Single), NEW at, Holds(c, at, EntryCells(e))
      PROVE  ReadEntry(c, at) = [ok |-> TRUE, at |-> at + Len(EntryCells(e)), item |-> e]
  <2> HIDE DEF d
  <2>1. /\ Scalar(c, at) = [ok |-> TRUE, at |-> at + 1, item |-> e.id]
        /\ Holds(c, at + 1, d) /\ (at + 1) + Len(d) = at + Len(EntryCells(e))
    BY <1>1, <1>2, <1>3, <1>4, HeadReads
  <2>2. ReadOptional(c, at + 1) = [ok |-> TRUE, at |-> at + Len(EntryCells(e)), item |-> e.class]
    <3>1. ReadOptional(c, at + 1) = [ok |-> TRUE, at |-> (at + 1) + Len(d), item |-> e.class]
      BY <1>1, <2>1, OptionalReads DEF d
    <3> QED
      BY ONLY <2>1, <3>1
  <2>3. Scalar(c, at).ok = TRUE /\ Scalar(c, at).at = at + 1 /\ Scalar(c, at).item = e.id
    BY ONLY <2>1
  <2>4. LET v == ReadOptional(c, at + 1)
        IN v.ok = TRUE /\ v.at = at + Len(EntryCells(e)) /\ v.item = e.class
    BY ONLY <2>2
  <2> QED
    BY ONLY <1>1, <2>3, <2>4 DEF ReadEntry
<1>5. EntryCells(e) \in Seq(Single) /\ Len(EntryCells(e)) >= 1
  <2> HIDE DEF d
  <2>1. EntryCells(e) \in Seq(Single) /\ Len(EntryCells(e)) = 1 + Len(d) /\ Len(d) \in Nat
    BY <1>1, <1>2, <1>3, HeadCells
  <2>2. \A n \in Nat : 1 + n >= 1
    OBVIOUS
  <2> QED
    BY ONLY <2>1, <2>2
<1> QED
  BY <1>4, <1>5

LEMMA EventsRead ==
    ASSUME NEW events \in Seq(0..(EventKinds - 1))
    PROVE  /\ Counted(Numbers(events)) \in Seq(Single)
           /\ \A c \in Seq(Single) : \A at : Holds(c, at, Counted(Numbers(events))) =>
                LET v == List(c, at, [p \in Places(c) |-> ReadEvent(c, p)])
                IN v.ok = TRUE /\ v.items = events
<1>1. EventKinds = 4 /\ 0..(EventKinds - 1) \subseteq Nat
  BY DEF EventKinds
<1> DEFINE K == 0..(EventKinds - 1)
           cells == [k \in K |-> <<U(k)>>]
<1>2. ASSUME NEW k \in K PROVE cells[k] = <<U(k)>> /\ cells[k] \in Seq(Single) /\ Len(cells[k]) >= 1
  <2>1. U(k) \in Single
    BY <1>1, SingleCell
  <2>2. <<U(k)>> \in Seq(Single) /\ Len(<<U(k)>>) = 1
    BY <2>1
  <2>3. cells[k] = <<U(k)>>
    OBVIOUS
  <2> QED
    BY <2>2, <2>3
<1>3. cells \in [K -> Seq(Single)]
  BY <1>2
<1>4. Numbers(events) = Parts(cells, events)
  <2> HIDE DEF cells, K
  <2>1. events \in Seq(K)
    BY DEF K
  <2>2. \A i \in DOMAIN events : events[i] \in K
    BY ONLY <2>1
  <2> QED
    BY ONLY <1>2, <2>2 DEF Numbers, Parts
<1> HIDE DEF cells
<1>5. ASSUME NEW c \in Seq(Single)
      PROVE  ElementReads(K, cells, c, [p \in Places(c) |-> ReadEvent(c, p)])
  <2> SUFFICES ASSUME NEW k \in K, NEW a \in Places(c), Holds(c, a, cells[k])
               PROVE  ReadEvent(c, a) = [ok |-> TRUE, at |-> a + Len(cells[k]), item |-> k]
    BY DEF ElementReads
  <2>1. cells[k] = <<U(k)>> /\ k \in Nat /\ k < EventKinds
    BY <1>1, <1>2
  <2>2. Len(cells[k]) = 1
    BY ONLY <2>1
  <2>3. Scalar(c, a) = [ok |-> TRUE, at |-> a + 1, item |-> k]
    BY <2>1, ScalarReads
  <2>4. Scalar(c, a).ok = TRUE /\ Scalar(c, a).item = k
    BY ONLY <2>3
  <2>5. [Scalar(c, a) EXCEPT !.ok = TRUE] = Scalar(c, a)
    <3>1. \A r \in [ok : BOOLEAN, at : Nat, item : Nat] : r.ok = TRUE => [r EXCEPT !.ok = TRUE] = r
      OBVIOUS
    <3>2. a + 1 \in Nat
      BY DEF Places
    <3>3. Scalar(c, a) \in [ok : BOOLEAN, at : Nat, item : Nat]
      BY ONLY <2>1, <2>3, <3>2
    <3> QED
      BY ONLY <2>4, <3>1, <3>3
  <2>6. ReadEvent(c, a) = [Scalar(c, a) EXCEPT !.ok = Scalar(c, a).ok /\ Scalar(c, a).item < EventKinds]
    BY DEF ReadEvent
  <2>7. (Scalar(c, a).ok /\ Scalar(c, a).item < EventKinds) = TRUE
    BY ONLY <2>1, <2>4
  <2> QED
    BY ONLY <2>2, <2>3, <2>5, <2>6, <2>7
<1> HIDE DEF K
<1>6. events \in Seq(K)
  BY DEF K
<1>7. /\ Counted(Parts(cells, events)) \in Seq(Single)
      /\ \A c \in Seq(Single) : \A at, element :
           ElementReads(K, cells, c, element) /\ Holds(c, at, Counted(Parts(cells, events))) =>
             List(c, at, element)
               = [ok |-> TRUE, at |-> at + Len(Counted(Parts(cells, events))), items |-> events]
  BY <1>2, <1>3, <1>6, VectorReads
<1>8. ASSUME NEW c \in Seq(Single), NEW at, Holds(c, at, Counted(Numbers(events)))
      PROVE  LET v == List(c, at, [p \in Places(c) |-> ReadEvent(c, p)])
             IN v.ok = TRUE /\ v.items = events
  <2> DEFINE element == [p \in Places(c) |-> ReadEvent(c, p)]
  <2>1. ElementReads(K, cells, c, element)
    BY <1>5
  <2> HIDE DEF element
  <2>2. List(c, at, element)
          = [ok |-> TRUE, at |-> at + Len(Counted(Parts(cells, events))), items |-> events]
    BY <1>4, <1>7, <1>8, <2>1
  <2> QED
    BY <2>2 DEF element
<1> QED
  BY <1>4, <1>7, <1>8

LEMMA SourcesRead ==
    ASSUME NEW sources \in Seq(SourceSet)
    PROVE  LET d == Counted([i \in DOMAIN sources |-> SourceCells(sources[i])]) IN
           /\ d \in Seq(Single)
           /\ \A c \in Seq(Single) : \A at : Holds(c, at, d) =>
                LET v == List(c, at, [p \in Places(c) |-> ReadSource(c, p)])
                IN v.ok = TRUE /\ v.items = sources
<1> DEFINE cells == [x \in SourceSet |-> SourceCells(x)]
           d == Counted([i \in DOMAIN sources |-> SourceCells(sources[i])])
<1>1. ASSUME NEW x \in SourceSet
      PROVE  cells[x] = SourceCells(x) /\ cells[x] \in Seq(Single) /\ Len(cells[x]) >= 1
  <2>1. SourceCells(x) \in Seq(Single) /\ Len(SourceCells(x)) >= 1
    BY SourceReads
  <2>2. cells[x] = SourceCells(x)
    OBVIOUS
  <2> QED
    BY ONLY <2>1, <2>2
<1>2. cells \in [SourceSet -> Seq(Single)]
  BY <1>1
<1>3. [i \in DOMAIN sources |-> SourceCells(sources[i])] = Parts(cells, sources)
  <2>1. \A i \in DOMAIN sources : sources[i] \in SourceSet
    OBVIOUS
  <2> HIDE DEF cells
  <2> QED
    BY <1>1, <2>1 DEF Parts
<1> HIDE DEF cells
<1>4. ASSUME NEW c \in Seq(Single)
      PROVE  ElementReads(SourceSet, cells, c, [p \in Places(c) |-> ReadSource(c, p)])
  BY <1>1, SourceReads DEF ElementReads
<1>5. /\ Counted(Parts(cells, sources)) \in Seq(Single)
      /\ \A c \in Seq(Single) : \A at, element :
           ElementReads(SourceSet, cells, c, element) /\ Holds(c, at, Counted(Parts(cells, sources))) =>
             List(c, at, element)
               = [ok |-> TRUE, at |-> at + Len(Counted(Parts(cells, sources))), items |-> sources]
  BY <1>1, <1>2, VectorReads
<1>6. d = Counted(Parts(cells, sources))
  BY <1>3
<1> HIDE DEF d
<1>7. ASSUME NEW c \in Seq(Single), NEW at, Holds(c, at, d)
      PROVE  LET v == List(c, at, [p \in Places(c) |-> ReadSource(c, p)])
             IN v.ok = TRUE /\ v.items = sources
  <2> DEFINE element == [p \in Places(c) |-> ReadSource(c, p)]
  <2>1. ElementReads(SourceSet, cells, c, element)
    BY <1>4
  <2> HIDE DEF element
  <2>2. List(c, at, element)
          = [ok |-> TRUE, at |-> at + Len(Counted(Parts(cells, sources))), items |-> sources]
    BY <1>5, <1>6, <1>7, <2>1
  <2> QED
    BY <2>2 DEF element
<1> QED
  BY <1>5, <1>6, <1>7 DEF d

LEMMA EntriesRead ==
    ASSUME NEW seq \in Seq(EntrySet)
    PROVE  /\ Counted(Entries(seq)) \in Seq(Single)
           /\ \A c \in Seq(Single) : \A at : Holds(c, at, Counted(Entries(seq))) =>
                ReadEntries(c, at) = [ok |-> TRUE, at |-> at + Len(Counted(Entries(seq))), items |-> seq]
<1> DEFINE cells == [x \in EntrySet |-> EntryCells(x)]
<1>1. ASSUME NEW x \in EntrySet
      PROVE  cells[x] = EntryCells(x) /\ cells[x] \in Seq(Single) /\ Len(cells[x]) >= 1
  <2>1. EntryCells(x) \in Seq(Single) /\ Len(EntryCells(x)) >= 1
    BY EntryReads
  <2>2. cells[x] = EntryCells(x)
    OBVIOUS
  <2> QED
    BY ONLY <2>1, <2>2
<1>2. cells \in [EntrySet -> Seq(Single)]
  BY <1>1
<1>3. Entries(seq) = Parts(cells, seq)
  <2>1. \A i \in DOMAIN seq : seq[i] \in EntrySet
    OBVIOUS
  <2> HIDE DEF cells
  <2> QED
    BY <1>1, <2>1 DEF Entries, Parts
<1> HIDE DEF cells
<1>4. ASSUME NEW c \in Seq(Single)
      PROVE  ElementReads(EntrySet, cells, c, [p \in Places(c) |-> ReadEntry(c, p)])
  BY <1>1, EntryReads DEF ElementReads
<1>5. /\ Counted(Parts(cells, seq)) \in Seq(Single)
      /\ \A c \in Seq(Single) : \A at, element :
           ElementReads(EntrySet, cells, c, element) /\ Holds(c, at, Counted(Parts(cells, seq))) =>
             List(c, at, element)
               = [ok |-> TRUE, at |-> at + Len(Counted(Parts(cells, seq))), items |-> seq]
  BY <1>1, <1>2, VectorReads
<1> QED
  BY <1>3, <1>4, <1>5 DEF ReadEntries

\* decode_queue_record takes back a queue unless the reader allows fewer samples.
LEMMA QueueReads ==
    ASSUME NEW q \in QueueSet, NEW l
    PROVE  /\ QueueCells(q) \in Seq(Single)
           /\ ReadQueue(QueueCells(q), l).ok = (Len(q.samples) <= l.records)
           /\ ReadQueue(QueueCells(q), l).item = q
<1> DEFINE cells == [x \in SampleSet |-> SampleCells(x)]
           c == QueueCells(q)
           o == Optional(q.class)
           v == Counted([i \in DOMAIN q.samples |-> SampleCells(q.samples[i])])
           ho == <<U(q.id)>> \o o
           element == [p \in Places(c) |-> ReadSample(c, p)]
<1>0. /\ q.id \in Nat /\ q.class \in Optionals(Nat) /\ q.samples \in Seq(SampleSet)
      /\ q = [id |-> q.id, class |-> q.class, samples |-> q.samples]
  BY DEF QueueSet
<1>1. ASSUME NEW x \in SampleSet
      PROVE  cells[x] = SampleCells(x) /\ cells[x] \in Seq(Single) /\ Len(cells[x]) >= 1
  <2>1. SampleCells(x) \in Seq(Single) /\ Len(SampleCells(x)) >= 1
    BY SampleReads
  <2>2. cells[x] = SampleCells(x)
    OBVIOUS
  <2> QED
    BY ONLY <2>1, <2>2
<1>2. cells \in [SampleSet -> Seq(Single)]
  BY <1>1
<1>3. v = Counted(Parts(cells, q.samples))
  <2>1. \A i \in DOMAIN q.samples : q.samples[i] \in SampleSet
    BY <1>0
  <2>2. [i \in DOMAIN q.samples |-> SampleCells(q.samples[i])] = Parts(cells, q.samples)
    <3> HIDE DEF cells
    <3> QED
      BY ONLY <1>1, <2>1 DEF Parts
  <2> QED
    BY ONLY <2>2
<1>4. c = ho \o v
  BY DEF QueueCells
<1>5. o \in Seq(Single)
  BY <1>0, OptionalReads
<1> HIDE DEF cells, o, v
<1>6. ho \in Seq(Single)
  BY <1>0, <1>5, HeadCells
<1>7. /\ v \in Seq(Single)
      /\ \A at : ElementReads(SampleSet, cells, c, element) /\ c \in Seq(Single) /\ Holds(c, at, v) =>
           List(c, at, element) = [ok |-> TRUE, at |-> at + Len(v), items |-> q.samples]
  <2> HIDE DEF c, element
  <2> QED
    BY <1>0, <1>1, <1>2, <1>3, VectorReads
<1> HIDE DEF ho, c
<1>8. c \in Seq(Single)
  BY ONLY <1>4, <1>6, <1>7, ConcatProperties
<1>9. ElementReads(SampleSet, cells, c, element)
  BY <1>1, <1>8, SampleReads DEF ElementReads
<1> HIDE DEF element
<1>10. Holds(c, 1, ho) /\ Holds(c, 1 + Len(ho), v)
  <2>1. Holds(c, 1, ho \o v)
    BY <1>4, <1>8, HoldsItself
  <2> QED
    BY <1>6, <1>7, <1>8, <2>1, HoldsJoin
<1>11. /\ Scalar(c, 1) = [ok |-> TRUE, at |-> 1 + 1, item |-> q.id]
       /\ Holds(c, 1 + 1, o) /\ (1 + 1) + Len(o) = 1 + Len(ho)
  BY <1>0, <1>5, <1>8, <1>10, HeadReads DEF ho
<1>12. ReadOptional(c, 1 + 1) = [ok |-> TRUE, at |-> (1 + 1) + Len(o), item |-> q.class]
  BY <1>0, <1>8, <1>11, OptionalReads DEF o
<1>13. List(c, 1 + Len(ho), element) = [ok |-> TRUE, at |-> (1 + Len(ho)) + Len(v), items |-> q.samples]
  BY <1>7, <1>8, <1>9, <1>10
<1>14. Scalar(c, 1).ok = TRUE /\ Scalar(c, 1).at = 1 + 1 /\ Scalar(c, 1).item = q.id
  BY ONLY <1>11
<1>15. LET x == ReadOptional(c, 1 + 1)
       IN x.ok = TRUE /\ x.at = 1 + Len(ho) /\ x.item = q.class
  BY ONLY <1>11, <1>12
<1>16. LET x == List(c, 1 + Len(ho), element) IN x.ok = TRUE /\ x.items = q.samples
  BY ONLY <1>13
<1>17. LET x == ReadQueue(c, l)
       IN x.ok = (Len(q.samples) <= l.records)
          /\ x.item = [id |-> q.id, class |-> q.class, samples |-> q.samples]
  BY ONLY <1>14, <1>15, <1>16 DEF ReadQueue, element
<1> QED
  BY <1>0, <1>8, <1>17 DEF c

LEMMA TableReads ==
    ASSUME NEW t \in TableSet
    PROVE  /\ TableCells(t) \in Seq(Single)
           /\ ReadTable(TableCells(t)) = [ok |-> TRUE, item |-> t]
<1> DEFINE c == TableCells(t)
           a == Counted(Entries(t.traffic))
           b == Counted(Entries(t.scheduling))
           d == Counted(Entries(t.bindings))
           ha == <<U(t.head)>> \o a
           hab == ha \o b
<1>1. /\ t.head \in Nat
      /\ t.traffic \in Seq(EntrySet) /\ t.scheduling \in Seq(EntrySet) /\ t.bindings \in Seq(EntrySet)
      /\ t = [head |-> t.head, traffic |-> t.traffic, scheduling |-> t.scheduling,
              bindings |-> t.bindings]
  BY DEF TableSet
<1>2. a \in Seq(Single) /\ b \in Seq(Single) /\ d \in Seq(Single)
  BY <1>1, EntriesRead
<1>3. c = hab \o d
  BY DEF TableCells
<1> HIDE DEF a, b, d, c
<1>4. ha \in Seq(Single)
  BY <1>1, <1>2, HeadCells
<1>5. hab \in Seq(Single) /\ Len(hab) = Len(ha) + Len(b) /\ Len(ha) \in Nat /\ Len(b) \in Nat
  <2> HIDE DEF ha
  <2> QED
    BY <1>2, <1>4
<1>6. c \in Seq(Single)
  BY <1>2, <1>3, <1>5, ConcatProperties
<1>7. Holds(c, 1, hab) /\ Holds(c, 1 + Len(hab), d)
  <2>1. Holds(c, 1, hab \o d)
    BY <1>3, <1>6, HoldsItself
  <2> HIDE DEF hab
  <2> QED
    BY <1>2, <1>5, <1>6, <2>1, HoldsJoin
<1>8. Holds(c, 1, ha) /\ Holds(c, 1 + Len(ha), b)
  <2> HIDE DEF ha
  <2> QED
    BY <1>2, <1>4, <1>6, <1>7, HoldsJoin
<1>9. /\ Scalar(c, 1) = [ok |-> TRUE, at |-> 1 + 1, item |-> t.head]
      /\ Holds(c, 1 + 1, a) /\ (1 + 1) + Len(a) = 1 + Len(ha)
  BY <1>1, <1>2, <1>6, <1>8, HeadReads
<1>10. (1 + Len(ha)) + Len(b) = 1 + Len(hab)
  <2> HIDE DEF ha, hab
  <2> QED
    BY <1>5
<1> HIDE DEF ha, hab
<1>11. ReadEntries(c, 1 + 1) = [ok |-> TRUE, at |-> (1 + 1) + Len(a), items |-> t.traffic]
  BY <1>1, <1>6, <1>9, EntriesRead DEF a
<1>12. ReadEntries(c, 1 + Len(ha)) = [ok |-> TRUE, at |-> (1 + Len(ha)) + Len(b), items |-> t.scheduling]
  BY <1>1, <1>6, <1>8, EntriesRead DEF b
<1>13. ReadEntries(c, 1 + Len(hab)) = [ok |-> TRUE, at |-> (1 + Len(hab)) + Len(d), items |-> t.bindings]
  BY <1>1, <1>6, <1>7, EntriesRead DEF d
<1>14. /\ Scalar(c, 1).ok = TRUE /\ Scalar(c, 1).at = 1 + 1 /\ Scalar(c, 1).item = t.head
  BY ONLY <1>9
<1>15. LET x == ReadEntries(c, 1 + 1) IN x.ok = TRUE /\ x.at = 1 + Len(ha) /\ x.items = t.traffic
  BY ONLY <1>9, <1>11
<1>16. LET x == ReadEntries(c, 1 + Len(ha))
       IN x.ok = TRUE /\ x.at = 1 + Len(hab) /\ x.items = t.scheduling
  BY ONLY <1>10, <1>12
<1>17. LET x == ReadEntries(c, 1 + Len(hab)) IN x.ok = TRUE /\ x.items = t.bindings
  BY ONLY <1>13
<1>18. ReadTable(c) = [ok |-> TRUE, item |-> [head |-> t.head, traffic |-> t.traffic,
                                             scheduling |-> t.scheduling, bindings |-> t.bindings]]
  BY ONLY <1>14, <1>15, <1>16, <1>17 DEF ReadTable
<1> QED
  BY <1>1, <1>6, <1>18 DEF c

LEMMA SessionReads ==
    ASSUME NEW s \in DurableSnapshot
    PROVE  /\ SessionCells(s) \in Seq(Single)
           /\ ReadSession(SessionCells(s)) = [ok |-> Len(s.runtime) <= MaxRuntimeId,
                                              runtime |-> s.runtime, policy |-> s.policy]
<1> DEFINE c == SessionCells(s)
           a == Counted(Numbers(s.runtime))
           x == U(s.policy)
           y == U(Len(s.queues))
           z == <<x>> \o <<y>>
<1>1. s.runtime \in Seq(Nat) /\ s.policy \in Nat /\ s.queues \in Seq(QueueSet)
  BY DEF DurableSnapshot
<1>2. Len(s.queues) \in Nat
  BY <1>1
<1>3. x \in Single /\ y \in Single
  BY <1>1, <1>2, SingleCell
<1>4. Numbers(s.runtime) \in Seq(Seq(Single))
  BY <1>1, NumberCells
<1>5. a \in Seq(Single)
  BY <1>4, CountedCells
<1>6. c = a \o z
  <2>1. <<x, y>> = <<x>> \o <<y>>
    <3> HIDE DEF x, y
    <3>1. <<x>> \in Seq(Single) /\ <<y>> \in Seq(Single) /\ <<x, y>> \in Seq(Single)
      BY ONLY <1>3
    <3>2. <<x>> \o <<y>> \in Seq(Single) /\ Len(<<x>> \o <<y>>) = 2 /\ Len(<<x, y>>) = 2
      BY ONLY <3>1
    <3>3. (<<x>> \o <<y>>)[1] = x /\ (<<x>> \o <<y>>)[2] = y /\ <<x, y>>[1] = x /\ <<x, y>>[2] = y
      BY ONLY <3>1
    <3>4. \A i \in 1..2 : i = 1 \/ i = 2
      OBVIOUS
    <3> QED
      BY ONLY <3>1, <3>2, <3>3, <3>4, SeqEqual
  <2> QED
    BY <2>1 DEF SessionCells
<1> HIDE DEF a, c
<1>7. <<y>> \in Seq(Single)
  BY <1>3
<1>8. z \in Seq(Single)
  BY <1>1, <1>7, HeadCells
<1>9. c \in Seq(Single)
  BY <1>5, <1>6, <1>8, ConcatProperties
<1>10. Holds(c, 1, a) /\ Holds(c, 1 + Len(a), z)
  <2>1. Holds(c, 1, a \o z)
    BY <1>6, <1>9, HoldsItself
  <2> HIDE DEF z
  <2> QED
    BY <1>5, <1>8, <1>9, <2>1, HoldsJoin
<1> DEFINE n == 1 + Len(a)
<1>11. List(c, 1, Scalars(c)) = [ok |-> TRUE, at |-> n, items |-> s.runtime]
  BY <1>1, <1>9, <1>10, NumbersRead DEF a
<1>12. Scalar(c, n) = [ok |-> TRUE, at |-> n + 1, item |-> s.policy] /\ Holds(c, n + 1, <<y>>)
  <2> HIDE DEF y
  <2> QED
    BY <1>1, <1>7, <1>9, <1>10, HeadReads
<1>13. Scalar(c, n + 1) = [ok |-> TRUE, at |-> (n + 1) + 1, item |-> Len(s.queues)]
  BY <1>2, <1>9, <1>12, ScalarReads
<1> HIDE DEF n
<1>14. LET v == List(c, 1, Scalars(c)) IN v.ok = TRUE /\ v.at = n /\ v.items = s.runtime
  BY ONLY <1>11
<1>15. Scalar(c, n).ok = TRUE /\ Scalar(c, n).at = n + 1 /\ Scalar(c, n).item = s.policy
  BY ONLY <1>12
<1>16. Scalar(c, n + 1).ok = TRUE
  BY ONLY <1>13
<1>17. ReadSession(c) = [ok |-> Len(s.runtime) <= MaxRuntimeId, runtime |-> s.runtime,
                         policy |-> s.policy]
  BY ONLY <1>14, <1>15, <1>16 DEF ReadSession
<1> QED
  BY <1>9, <1>17 DEF c

-----------------------------------------------------------------------------
(* The records of a snapshot *)

LEMMA JoinAt ==
    ASSUME NEW S, NEW a \in Seq(S), NEW b \in Seq(S)
    PROVE  /\ a \o b \in Seq(S) /\ Len(a \o b) = Len(a) + Len(b)
           /\ \A i \in 1..Len(a) : (a \o b)[i] = a[i]
           /\ \A j \in 1..Len(b) : (a \o b)[Len(a) + j] = b[j]
OBVIOUS

RecordSet == [type : Nat, value : Seq(Single)]

\* The records of a part of the snapshot that has none when it is empty.
One(items) == IF items = <<>> THEN 0 ELSE 1

\* The number of the last record of each kind.
LastQueue(s) == 1 + Len(s.queues)
LastSource(s) == LastQueue(s) + One(s.sources)
LastEvent(s) == LastSource(s) + One(s.events)
LastTable(s) == LastEvent(s) + One(s.metadata)

SourcesRecord(s) ==
    [type |-> SourceRegistry,
     value |-> Counted([i \in DOMAIN s.sources |-> SourceCells(s.sources[i])])]

LEMMA LastRecords ==
    ASSUME NEW s \in DurableSnapshot
    PROVE  /\ Len(s.queues) \in Nat /\ LastQueue(s) \in Nat /\ LastSource(s) \in Nat
           /\ LastEvent(s) \in Nat /\ LastTable(s) \in Nat
           /\ LastQueue(s) = 1 + Len(s.queues) /\ LastQueue(s) >= 1
           /\ s.sources = <<>> => LastSource(s) = LastQueue(s)
           /\ s.sources # <<>> => LastSource(s) = LastQueue(s) + 1
           /\ s.events = <<>> => LastEvent(s) = LastSource(s)
           /\ s.events # <<>> => LastEvent(s) = LastSource(s) + 1
           /\ s.metadata = <<>> => LastTable(s) = LastEvent(s)
           /\ s.metadata # <<>> => LastTable(s) = LastEvent(s) + 1
<1>1. s.queues \in Seq(QueueSet)
  BY DEF DurableSnapshot
<1>2. Len(s.queues) \in Nat
  BY <1>1
<1> DEFINE n == Len(s.queues)
<1>3. LastQueue(s) = 1 + n
  BY DEF LastQueue
<1>4. LastSource(s) = LastQueue(s) + One(s.sources)
  BY DEF LastSource
<1>5. LastEvent(s) = LastSource(s) + One(s.events)
  BY DEF LastEvent
<1>6. LastTable(s) = LastEvent(s) + One(s.metadata)
  BY DEF LastTable
<1>7. \A items : /\ One(items) \in Nat
                 /\ items = <<>> => One(items) = 0
                 /\ items # <<>> => One(items) = 1
  BY DEF One
<1> HIDE DEF n
<1>8. n \in Nat
  BY <1>2 DEF n
<1> DEFINE a == One(s.sources)
           b == One(s.events)
           e == One(s.metadata)
<1>9. a \in Nat /\ b \in Nat /\ e \in Nat
  BY <1>7
<1> HIDE DEF a, b, e
<1>10. /\ LastQueue(s) \in Nat /\ LastQueue(s) >= 1
       /\ LastSource(s) = LastQueue(s) + a /\ LastSource(s) \in Nat
  BY <1>3, <1>4, <1>8, <1>9 DEF a
<1>11. LastEvent(s) = LastSource(s) + b /\ LastEvent(s) \in Nat
  BY <1>5, <1>9, <1>10 DEF b
<1>12. LastTable(s) = LastEvent(s) + e /\ LastTable(s) \in Nat
  BY <1>6, <1>9, <1>11 DEF e
<1>13. \A x \in Nat : x + 0 = x
  OBVIOUS
<1> QED
  BY ONLY <1>2, <1>3, <1>7, <1>10, <1>11, <1>12, <1>13 DEF n, a, b, e

LEMMA SnapshotRecords ==
    ASSUME NEW s \in DurableSnapshot
    PROVE  /\ Values(s) \in Seq(RecordSet) /\ Len(Values(s)) = LastTable(s)
           /\ Values(s)[1] = [type |-> SessionHeader, value |-> SessionCells(s)]
           /\ \A i \in 1..Len(s.queues) :
                Values(s)[1 + i] = [type |-> QueueSnapshot, value |-> QueueCells(s.queues[i])]
           /\ s.sources # <<>> => Values(s)[LastSource(s)] = SourcesRecord(s)
           /\ s.events # <<>> =>
                Values(s)[LastEvent(s)] = [type |-> EventBatch, value |-> Counted(Numbers(s.events))]
           /\ s.metadata # <<>> =>
                Values(s)[LastTable(s)] = [type |-> MetadataTable, value |-> TableCells(s.metadata[1])]
<1> DEFINE A == <<[type |-> SessionHeader, value |-> SessionCells(s)]>>
           Q == [i \in DOMAIN s.queues |->
                   [type |-> QueueSnapshot, value |-> QueueCells(s.queues[i])]]
           S == IF s.sources = <<>> THEN <<>> ELSE <<SourcesRecord(s)>>
           E == IF s.events = <<>> THEN <<>>
                ELSE <<[type |-> EventBatch, value |-> Counted(Numbers(s.events))]>>
           M == IF s.metadata = <<>> THEN <<>>
                ELSE <<[type |-> MetadataTable, value |-> TableCells(s.metadata[1])]>>
           n == Len(s.queues)
<1>1. /\ s.queues \in Seq(QueueSet) /\ s.sources \in Seq(SourceSet)
      /\ s.events \in Seq(0..(EventKinds - 1)) /\ s.metadata \in Optionals(TableSet)
  BY DEF DurableSnapshot
<1>2. n \in Nat /\ DOMAIN s.queues = 1..n /\ \A i \in 1..n : s.queues[i] \in QueueSet
  BY <1>1
<1>3. \A r \in RecordSet : <<r>> \in Seq(RecordSet) /\ Len(<<r>>) = 1 /\ <<r>>[1] = r
  OBVIOUS
<1>4. \A t \in {1, 2, 3, 4, 5} : \A d \in Seq(Single) : [type |-> t, value |-> d] \in RecordSet
  BY DEF RecordSet
<1>5. /\ SessionHeader \in {1, 2, 3, 4, 5} /\ QueueSnapshot \in {1, 2, 3, 4, 5}
      /\ EventBatch \in {1, 2, 3, 4, 5} /\ SourceRegistry \in {1, 2, 3, 4, 5}
      /\ MetadataTable \in {1, 2, 3, 4, 5}
  BY DEF SessionHeader, QueueSnapshot, EventBatch, SourceRegistry, MetadataTable
<1>6. A \in Seq(RecordSet) /\ Len(A) = 1 /\ A[1] = [type |-> SessionHeader, value |-> SessionCells(s)]
  BY <1>3, <1>4, <1>5, SessionReads
<1>7. /\ Q \in Seq(RecordSet) /\ Len(Q) = n
      /\ \A i \in 1..n : Q[i] = [type |-> QueueSnapshot, value |-> QueueCells(s.queues[i])]
  <2>1. \A i \in 1..n : QueueCells(s.queues[i]) \in Seq(Single)
    BY <1>2, QueueReads
  <2>2. \A i \in 1..n : [type |-> QueueSnapshot, value |-> QueueCells(s.queues[i])] \in RecordSet
    BY <1>4, <1>5, <2>1
  <2>3. Q \in [1..n -> RecordSet]
    BY <1>2, <2>2
  <2>4. \A i \in 1..n : Q[i] = [type |-> QueueSnapshot, value |-> QueueCells(s.queues[i])]
    BY <1>2
  <2> HIDE DEF Q, n
  <2> QED
    BY <1>2, <2>3, <2>4, FunctionIsSequence
<1>8. S \in Seq(RecordSet) /\ Len(S) = One(s.sources) /\ (s.sources # <<>> => S[1] = SourcesRecord(s))
  <2>1. SourcesRecord(s) \in RecordSet
    BY <1>1, <1>4, <1>5, SourcesRead DEF SourcesRecord
  <2> QED
    BY <1>3, <2>1, EmptySeq DEF One
<1>9. /\ E \in Seq(RecordSet) /\ Len(E) = One(s.events)
      /\ s.events # <<>> => E[1] = [type |-> EventBatch, value |-> Counted(Numbers(s.events))]
  <2>1. [type |-> EventBatch, value |-> Counted(Numbers(s.events))] \in RecordSet
    BY <1>1, <1>4, <1>5, EventsRead
  <2> QED
    BY <1>3, <2>1, EmptySeq DEF One
<1>10. /\ M \in Seq(RecordSet) /\ Len(M) = One(s.metadata)
       /\ s.metadata # <<>> => M[1] = [type |-> MetadataTable, value |-> TableCells(s.metadata[1])]
  <2>1. CASE s.metadata # <<>>
    <3>1. s.metadata \in Seq(TableSet)
      BY <1>1 DEF Optionals
    <3>2. Len(s.metadata) \in Nat \ {0}
      BY <2>1, <3>1, EmptySeq
    <3>3. s.metadata[1] \in TableSet
      BY <3>1, <3>2, ElementOfSeq
    <3>4. [type |-> MetadataTable, value |-> TableCells(s.metadata[1])] \in RecordSet
      BY <1>4, <1>5, <3>3, TableReads
    <3> QED
      BY <1>3, <2>1, <3>4 DEF One
  <2>2. CASE s.metadata = <<>>
    BY <2>2, EmptySeq DEF One
  <2> QED
    BY <2>1, <2>2
<1>11. Values(s) = (((A \o Q) \o S) \o E) \o M
  BY DEF Values, SourcesRecord
<1> HIDE DEF A, Q, S, E, M
<1> DEFINE AQ == A \o Q
           AQS == AQ \o S
           AQSE == AQS \o E
<1>12. /\ AQ \in Seq(RecordSet) /\ Len(AQ) = LastQueue(s) /\ AQ[1] = A[1]
       /\ \A i \in 1..n : AQ[1 + i] = Q[i]
  <2> HIDE DEF n
  <2>1. A \in Seq(RecordSet) /\ Q \in Seq(RecordSet)
    BY <1>6, <1>7
  <2>2. /\ AQ \in Seq(RecordSet) /\ Len(AQ) = Len(A) + Len(Q)
        /\ \A i \in 1..Len(A) : AQ[i] = A[i]
        /\ \A j \in 1..Len(Q) : AQ[Len(A) + j] = Q[j]
    BY ONLY <2>1, JoinAt
  <2>3. LastQueue(s) = 1 + n /\ 1 \in 1..1
    BY DEF LastQueue, n
  <2> HIDE DEF AQ
  <2> QED
    BY ONLY <1>6, <1>7, <2>2, <2>3
<1> HIDE DEF AQ
<1>13. /\ AQS \in Seq(RecordSet) /\ Len(AQS) = LastSource(s)
       /\ \A i \in 1..LastQueue(s) : AQS[i] = AQ[i]
       /\ s.sources # <<>> => AQS[LastSource(s)] = S[1]
  <2>1. AQ \in Seq(RecordSet) /\ S \in Seq(RecordSet)
    BY <1>8, <1>12
  <2>2. /\ AQS \in Seq(RecordSet) /\ Len(AQS) = Len(AQ) + Len(S)
        /\ \A i \in 1..Len(AQ) : AQS[i] = AQ[i]
        /\ \A j \in 1..Len(S) : AQS[Len(AQ) + j] = S[j]
    BY ONLY <2>1, JoinAt
  <2>3. LastSource(s) = LastQueue(s) + One(s.sources) /\ (s.sources # <<>> => One(s.sources) = 1) /\ 1 \in 1..1
    BY DEF LastSource, One
  <2> HIDE DEF AQS
  <2> QED
    BY ONLY <1>8, <1>12, <2>2, <2>3
<1> HIDE DEF AQS
<1>14. /\ AQSE \in Seq(RecordSet) /\ Len(AQSE) = LastEvent(s)
       /\ \A i \in 1..LastSource(s) : AQSE[i] = AQS[i]
       /\ s.events # <<>> => AQSE[LastEvent(s)] = E[1]
  <2>1. AQS \in Seq(RecordSet) /\ E \in Seq(RecordSet)
    BY <1>9, <1>13
  <2>2. /\ AQSE \in Seq(RecordSet) /\ Len(AQSE) = Len(AQS) + Len(E)
        /\ \A i \in 1..Len(AQS) : AQSE[i] = AQS[i]
        /\ \A j \in 1..Len(E) : AQSE[Len(AQS) + j] = E[j]
    BY ONLY <2>1, JoinAt
  <2>3. LastEvent(s) = LastSource(s) + One(s.events) /\ (s.events # <<>> => One(s.events) = 1) /\ 1 \in 1..1
    BY DEF LastEvent, One
  <2> HIDE DEF AQSE
  <2> QED
    BY ONLY <1>9, <1>13, <2>2, <2>3
<1> HIDE DEF AQSE
<1>15. /\ Values(s) \in Seq(RecordSet) /\ Len(Values(s)) = LastTable(s)
       /\ \A i \in 1..LastEvent(s) : Values(s)[i] = AQSE[i]
       /\ s.metadata # <<>> => Values(s)[LastTable(s)] = M[1]
  <2>1. AQSE \in Seq(RecordSet) /\ M \in Seq(RecordSet)
    BY <1>10, <1>14
  <2>0. Values(s) = AQSE \o M
    BY <1>11 DEF AQ, AQS, AQSE
  <2>2. /\ Values(s) \in Seq(RecordSet) /\ Len(Values(s)) = Len(AQSE) + Len(M)
        /\ \A i \in 1..Len(AQSE) : Values(s)[i] = AQSE[i]
        /\ \A j \in 1..Len(M) : Values(s)[Len(AQSE) + j] = M[j]
    BY ONLY <2>0, <2>1, JoinAt
  <2>3. LastTable(s) = LastEvent(s) + One(s.metadata) /\ (s.metadata # <<>> => One(s.metadata) = 1) /\ 1 \in 1..1
    BY DEF LastTable, One
  <2> QED
    BY ONLY <1>10, <1>14, <2>2, <2>3
\* A place of a part is a place of what the part is joined to.
<1>16. /\ \A i \in 1..LastQueue(s) : i \in 1..LastSource(s) /\ i \in 1..LastEvent(s)
       /\ \A i \in 1..LastSource(s) : i \in 1..LastEvent(s)
       /\ 1 \in 1..LastQueue(s) /\ \A i \in 1..n : 1 + i \in 1..LastQueue(s)
       /\ LastSource(s) \in 1..LastSource(s) /\ LastEvent(s) \in 1..LastEvent(s)
  <2> DEFINE a == LastQueue(s)
             b == LastSource(s)
             e == LastEvent(s)
  <2>1. a \in Nat /\ b \in Nat /\ e \in Nat /\ a = 1 + n /\ a <= b /\ b <= e
    <3>1. /\ a \in Nat /\ b \in Nat /\ e \in Nat /\ a = 1 + n
          /\ b = a \/ b = a + 1
          /\ e = b \/ e = b + 1
      BY LastRecords
    <3> HIDE DEF a, b, e, n
    <3> QED
      BY <1>2, <3>1
  <2> HIDE DEF a, b, e, n
  <2>2. /\ \A i \in 1..a : i \in 1..b /\ i \in 1..e
        /\ \A i \in 1..b : i \in 1..e
        /\ 1 \in 1..a /\ \A i \in 1..n : 1 + i \in 1..a
        /\ b \in 1..b /\ e \in 1..e
    BY <1>2, <2>1
  <2> QED
    BY <2>2 DEF a, b, e
<1>17. \A i \in 1..LastQueue(s) : Values(s)[i] = AQ[i]
  BY <1>13, <1>14, <1>15, <1>16
<1>18. Values(s)[1] = A[1] /\ \A i \in 1..n : Values(s)[1 + i] = Q[i]
  BY <1>12, <1>16, <1>17
<1>19. s.sources # <<>> => Values(s)[LastSource(s)] = S[1]
  BY <1>13, <1>14, <1>15, <1>16
<1>20. s.events # <<>> => Values(s)[LastEvent(s)] = E[1]
  BY <1>14, <1>15, <1>16
<1> QED
  BY <1>6, <1>7, <1>8, <1>9, <1>10, <1>15, <1>18, <1>19, <1>20

\* What the loop has put together after n records, when it began with o.
Before(s, o, n) == IF n = 0 THEN o ELSE FirstRecords(s, n)

\* The snapshot decode_snapshot begins with: the policy version of the header
\* and the identifier that follows it.
Blank(s, o) ==
    /\ o = [runtime |-> o.runtime, policy |-> o.policy, queues |-> <<>>, sources |-> <<>>,
            events |-> <<>>, metadata |-> <<>>]
    /\ s.runtime = <<>> => o.runtime = <<>>

Taking(s, queues, sources, events, metadata) ==
    [runtime |-> s.runtime, policy |-> s.policy, queues |-> queues, sources |-> sources,
     events |-> events, metadata |-> metadata]

LEMMA FirstRecordsAre ==
    ASSUME NEW s \in DurableSnapshot
    PROVE  /\ \A n \in 1..LastQueue(s) :
                FirstRecords(s, n) = Taking(s, SubSeq(s.queues, 1, n - 1), <<>>, <<>>, <<>>)
           /\ FirstRecords(s, LastQueue(s)) = Taking(s, s.queues, <<>>, <<>>, <<>>)
           /\ FirstRecords(s, LastSource(s)) = Taking(s, s.queues, s.sources, <<>>, <<>>)
           /\ FirstRecords(s, LastEvent(s)) = Taking(s, s.queues, s.sources, s.events, <<>>)
           /\ FirstRecords(s, LastTable(s)) = s
<1> DEFINE a == LastQueue(s)
           b == LastSource(s)
           e == LastEvent(s)
           t == LastTable(s)
           Q == Len(s.queues)
<1>1. /\ a \in Nat /\ b \in Nat /\ e \in Nat /\ t \in Nat /\ Q \in Nat /\ a = 1 + Q /\ a >= 1
      /\ a <= b /\ b <= e /\ e <= t
      /\ (s.sources # <<>> => a < b) /\ (s.events # <<>> => b < e) /\ (s.metadata # <<>> => e < t)
  <2>1. /\ a \in Nat /\ b \in Nat /\ e \in Nat /\ t \in Nat /\ Q \in Nat /\ a = 1 + Q /\ a >= 1
        /\ s.sources = <<>> => b = a
        /\ s.sources # <<>> => b = a + 1
        /\ s.events = <<>> => e = b
        /\ s.events # <<>> => e = b + 1
        /\ s.metadata = <<>> => t = e
        /\ s.metadata # <<>> => t = e + 1
    BY LastRecords
  <2> HIDE DEF a, b, e, t, Q
  <2>2. a <= b /\ (s.sources # <<>> => a < b)
    BY <2>1
  <2>3. b <= e /\ (s.events # <<>> => b < e)
    BY <2>1
  <2>4. e <= t /\ (s.metadata # <<>> => e < t)
    BY <2>1
  <2> QED
    BY ONLY <2>1, <2>2, <2>3, <2>4
<1>2. \A n : FirstRecords(s, n) =
        Taking(s, IF n >= a THEN s.queues ELSE SubSeq(s.queues, 1, n - 1),
               IF n >= b THEN s.sources ELSE <<>>, IF n >= e THEN s.events ELSE <<>>,
               IF n >= t THEN s.metadata ELSE <<>>)
  BY DEF FirstRecords, Taking, LastQueue, LastSource, LastEvent, LastTable, One
<1>3. s.queues \in Seq(QueueSet)
  BY DEF DurableSnapshot
<1>4. SubSeq(s.queues, 1, Q) = s.queues
  BY <1>3, SubSeqFull
<1>5. s = Taking(s, s.queues, s.sources, s.events, s.metadata)
  BY DEF DurableSnapshot, Taking
<1> HIDE DEF a, b, e, t, Q
<1>6. ASSUME NEW n \in 1..a
      PROVE  FirstRecords(s, n) = Taking(s, SubSeq(s.queues, 1, n - 1), <<>>, <<>>, <<>>)
  <2>1. (IF n >= a THEN s.queues ELSE SubSeq(s.queues, 1, n - 1)) = SubSeq(s.queues, 1, n - 1)
    <3>1. n >= a => n = a /\ n - 1 = Q
      BY <1>1
    <3> QED
      BY <1>4, <3>1
  <2>2. n >= b => s.sources = <<>>
    BY <1>1
  <2>3. n >= e => s.events = <<>>
    BY <1>1
  <2>4. n >= t => s.metadata = <<>>
    BY <1>1
  <2>5. /\ (IF n >= b THEN s.sources ELSE <<>>) = <<>> /\ (IF n >= e THEN s.events ELSE <<>>) = <<>>
        /\ (IF n >= t THEN s.metadata ELSE <<>>) = <<>>
    BY <2>2, <2>3, <2>4
  <2> QED
    BY ONLY <1>2, <2>1, <2>5
<1>7. FirstRecords(s, a) = Taking(s, s.queues, <<>>, <<>>, <<>>)
  <2>1. a \in 1..a /\ a - 1 = Q
    BY <1>1
  <2> QED
    BY <1>4, <1>6, <2>1
<1>8. FirstRecords(s, b) = Taking(s, s.queues, s.sources, <<>>, <<>>)
  <2>1. b >= a /\ b >= b /\ (b >= e => s.events = <<>>) /\ (b >= t => s.metadata = <<>>)
    BY <1>1
  <2>2. /\ (IF b >= a THEN s.queues ELSE SubSeq(s.queues, 1, b - 1)) = s.queues
        /\ (IF b >= b THEN s.sources ELSE <<>>) = s.sources /\ (IF b >= e THEN s.events ELSE <<>>) = <<>>
        /\ (IF b >= t THEN s.metadata ELSE <<>>) = <<>>
    BY <2>1
  <2> QED
    BY ONLY <1>2, <2>2
<1>9. FirstRecords(s, e) = Taking(s, s.queues, s.sources, s.events, <<>>)
  <2>1. e >= a /\ e >= b /\ e >= e /\ (e >= t => s.metadata = <<>>)
    BY <1>1
  <2>2. /\ (IF e >= a THEN s.queues ELSE SubSeq(s.queues, 1, e - 1)) = s.queues
        /\ (IF e >= b THEN s.sources ELSE <<>>) = s.sources
        /\ (IF e >= e THEN s.events ELSE <<>>) = s.events
        /\ (IF e >= t THEN s.metadata ELSE <<>>) = <<>>
    BY <2>1
  <2> QED
    BY ONLY <1>2, <2>2
<1>10. FirstRecords(s, t) = s
  <2>1. t >= a /\ t >= b /\ t >= e /\ t >= t
    BY <1>1
  <2>2. /\ (IF t >= a THEN s.queues ELSE SubSeq(s.queues, 1, t - 1)) = s.queues
        /\ (IF t >= b THEN s.sources ELSE <<>>) = s.sources
        /\ (IF t >= e THEN s.events ELSE <<>>) = s.events
        /\ (IF t >= t THEN s.metadata ELSE <<>>) = s.metadata
    BY <2>1
  <2> QED
    BY ONLY <1>2, <1>5, <2>2
<1> QED
  BY <1>6, <1>7, <1>8, <1>9, <1>10 DEF a, b, e, t

\* The reader takes every record: no queue has more samples than it allows.
Enough(s, l) ==
    /\ Len(s.runtime) <= MaxRuntimeId
    /\ \A i \in DOMAIN s.queues : Len(s.queues[i].samples) <= l.records

\* A record that is as it was written adds what was written, or is refused and
\* adds nothing.
Adds(x, s, l, before, after) ==
    /\ x.ok \in BOOLEAN
    /\ x.out = IF x.ok THEN after ELSE before
    /\ Enough(s, l) => x.ok

LEMMA RecordTypes ==
    /\ SessionHeader = 1 /\ QueueSnapshot = 2 /\ EventBatch = 3 /\ SourceRegistry = 4 /\ MetadataTable = 5
BY DEF SessionHeader, QueueSnapshot, EventBatch, SourceRegistry, MetadataTable

LEMMA ParseSession ==
    ASSUME NEW s \in DurableSnapshot, NEW l, NEW o, Blank(s, o)
    PROVE  Adds(Parse(SessionHeader, SessionCells(s), l, o), s, l, o, FirstRecords(s, 1))
<1> DEFINE c == SessionCells(s)
           x == ReadSession(c)
           y == Parse(SessionHeader, c, l, o)
           fits == Len(s.runtime) <= MaxRuntimeId
<1>1. x.ok = fits /\ x.runtime = s.runtime /\ x.policy = s.policy
  BY SessionReads
<1>2. s.runtime \in Seq(Nat)
  BY DEF DurableSnapshot
<1>3. fits \in BOOLEAN
  OBVIOUS
<1>4. y = [ok |-> x.ok,
           out |-> IF ~x.ok THEN o
                   ELSE [o EXCEPT !.policy = x.policy,
                                  !.runtime = IF x.runtime = <<>> THEN o.runtime ELSE x.runtime]]
  BY RecordTypes DEF Parse
<1> HIDE DEF x, y, c, fits
<1>5. FirstRecords(s, 1) = Taking(s, <<>>, <<>>, <<>>, <<>>)
  <2>1. 1 \in 1..LastQueue(s) /\ 1 - 1 = 0
    BY LastRecords
  <2>2. SubSeq(s.queues, 1, 0) = <<>>
    BY SubSeqEmpty
  <2> QED
    BY <2>1, <2>2, FirstRecordsAre
<1>6. (IF x.runtime = <<>> THEN o.runtime ELSE x.runtime) = s.runtime
  BY <1>1 DEF Blank
<1>7. [o EXCEPT !.policy = s.policy, !.runtime = s.runtime] = Taking(s, <<>>, <<>>, <<>>, <<>>)
  <2>1. o = [runtime |-> o.runtime, policy |-> o.policy, queues |-> <<>>, sources |-> <<>>,
             events |-> <<>>, metadata |-> <<>>]
    BY DEF Blank
  <2> DEFINE r == s.runtime
             v == s.policy
             ro == o.runtime
             po == o.policy
             z == <<>>
             w(rt, pv) == [runtime |-> rt, policy |-> pv, queues |-> z, sources |-> z, events |-> z,
                           metadata |-> z]
  <2>2. o = w(ro, po)
    BY ONLY <2>1
  <2> HIDE DEF r, v, ro, po, z
  <2>3. [w(ro, po) EXCEPT !.policy = v] = w(ro, v) /\ [w(ro, v) EXCEPT !.runtime = r] = w(r, v)
    OBVIOUS
  <2> HIDE DEF w
  <2>4. [o EXCEPT !.policy = v, !.runtime = r] = [[o EXCEPT !.policy = v] EXCEPT !.runtime = r]
    OBVIOUS
  <2>5. [o EXCEPT !.policy = v, !.runtime = r] = w(r, v)
    BY ONLY <2>2, <2>3, <2>4
  <2> QED
    BY ONLY <2>5 DEF Taking, r, v, w, z
<1>8. y.ok = x.ok /\ y.out = IF x.ok THEN FirstRecords(s, 1) ELSE o
  BY ONLY <1>1, <1>4, <1>5, <1>6, <1>7
<1> QED
  BY <1>1, <1>3, <1>8 DEF Adds, Enough, y, c, fits

LEMMA ParseQueue ==
    ASSUME NEW s \in DurableSnapshot, NEW l, NEW i \in 1..Len(s.queues)
    PROVE  Adds(Parse(QueueSnapshot, QueueCells(s.queues[i]), l, FirstRecords(s, i)), s, l,
                FirstRecords(s, i), FirstRecords(s, i + 1))
<1> DEFINE q == s.queues[i]
           c == QueueCells(q)
           x == ReadQueue(c, l)
           o == FirstRecords(s, i)
           y == Parse(QueueSnapshot, c, l, o)
           fits == Len(q.samples) <= l.records
<1>1. s.queues \in Seq(QueueSet)
  BY DEF DurableSnapshot
<1>2. q \in QueueSet /\ i \in DOMAIN s.queues
  BY <1>1
<1>3. x.ok = fits /\ x.item = q
  BY <1>2, QueueReads
<1>4. y = [ok |-> x.ok, out |-> IF x.ok THEN [o EXCEPT !.queues = Append(o.queues, x.item)] ELSE o]
  BY RecordTypes DEF Parse
<1>5. fits \in BOOLEAN /\ (Enough(s, l) => fits)
  BY <1>2 DEF Enough
<1> HIDE DEF x, y, c, fits
<1> DEFINE m == SubSeq(s.queues, 1, i - 1)
<1>6. /\ o = Taking(s, m, <<>>, <<>>, <<>>)
      /\ FirstRecords(s, i + 1) = Taking(s, SubSeq(s.queues, 1, i), <<>>, <<>>, <<>>)
  <2>1. i \in 1..LastQueue(s) /\ i + 1 \in 1..LastQueue(s) /\ (i + 1) - 1 = i
    BY LastRecords
  <2> QED
    BY <2>1, FirstRecordsAre
<1>7. Append(m, q) = SubSeq(s.queues, 1, i)
  BY <1>1, LongerPrefix
<1> HIDE DEF o, q, m
<1>8. o.queues = m
  BY <1>6 DEF Taking
<1>9. [o EXCEPT !.queues = Append(m, q)] = Taking(s, Append(m, q), <<>>, <<>>, <<>>)
  <2> DEFINE w == Append(m, q)
  <2> HIDE DEF w
  <2>1. [o EXCEPT !.queues = w] = Taking(s, w, <<>>, <<>>, <<>>)
    BY ONLY <1>6 DEF Taking
  <2> QED
    BY ONLY <2>1 DEF w
<1>10. y.ok = x.ok /\ y.out = IF x.ok THEN FirstRecords(s, i + 1) ELSE o
  BY ONLY <1>3, <1>4, <1>6, <1>7, <1>8, <1>9
<1> QED
  BY <1>3, <1>5, <1>10 DEF Adds, y, c, o, q

LEMMA ParseSources ==
    ASSUME NEW s \in DurableSnapshot, NEW l
    PROVE  Adds(Parse(SourceRegistry, SourcesRecord(s).value, l, FirstRecords(s, LastQueue(s))), s, l,
                FirstRecords(s, LastQueue(s)), FirstRecords(s, LastSource(s)))
<1> DEFINE c == SourcesRecord(s).value
           x == List(c, 1, [p \in Places(c) |-> ReadSource(c, p)])
           o == FirstRecords(s, LastQueue(s))
           y == Parse(SourceRegistry, c, l, o)
<1>1. s.sources \in Seq(SourceSet)
  BY DEF DurableSnapshot
<1>2. x.ok = TRUE /\ x.items = s.sources
  <2> DEFINE d == Counted([i \in DOMAIN s.sources |-> SourceCells(s.sources[i])])
  <2>1. c = d
    BY DEF SourcesRecord
  <2>2. d \in Seq(Single) /\ Holds(d, 1, d)
    BY <1>1, SourcesRead, HoldsItself
  <2>3. LET v == List(d, 1, [p \in Places(d) |-> ReadSource(d, p)]) IN v.ok = TRUE /\ v.items = s.sources
    BY <1>1, <2>2, SourcesRead
  <2> QED
    BY <2>1, <2>3
<1>3. y = [ok |-> x.ok, out |-> [o EXCEPT !.sources = o.sources \o x.items]]
  BY RecordTypes DEF Parse
<1> HIDE DEF x, y, c
<1>4. /\ o = Taking(s, s.queues, <<>>, <<>>, <<>>)
      /\ FirstRecords(s, LastSource(s)) = Taking(s, s.queues, s.sources, <<>>, <<>>)
  BY FirstRecordsAre
<1>5. <<>> \o s.sources = s.sources
  BY <1>1, ConcatEmptySeq
<1> HIDE DEF o
<1>6. o.sources = <<>>
  BY <1>4 DEF Taking
<1>7. [o EXCEPT !.sources = s.sources] = Taking(s, s.queues, s.sources, <<>>, <<>>)
  BY ONLY <1>4 DEF Taking
<1>8. y.ok = TRUE /\ y.out = FirstRecords(s, LastSource(s))
  BY ONLY <1>2, <1>3, <1>4, <1>5, <1>6, <1>7
<1> QED
  BY <1>8 DEF Adds, y, c, o

LEMMA ParseEvents ==
    ASSUME NEW s \in DurableSnapshot, NEW l
    PROVE  Adds(Parse(EventBatch, Counted(Numbers(s.events)), l, FirstRecords(s, LastSource(s))), s, l,
                FirstRecords(s, LastSource(s)), FirstRecords(s, LastEvent(s)))
<1> DEFINE c == Counted(Numbers(s.events))
           x == List(c, 1, [p \in Places(c) |-> ReadEvent(c, p)])
           o == FirstRecords(s, LastSource(s))
           y == Parse(EventBatch, c, l, o)
<1>1. s.events \in Seq(0..(EventKinds - 1))
  BY DEF DurableSnapshot
<1>2. x.ok = TRUE /\ x.items = s.events
  <2>1. c \in Seq(Single) /\ Holds(c, 1, c)
    BY <1>1, EventsRead, HoldsItself
  <2> QED
    BY <1>1, <2>1, EventsRead
<1>3. y = [ok |-> x.ok, out |-> [o EXCEPT !.events = o.events \o x.items]]
  BY RecordTypes DEF Parse
<1> HIDE DEF x, y, c
<1>4. /\ o = Taking(s, s.queues, s.sources, <<>>, <<>>)
      /\ FirstRecords(s, LastEvent(s)) = Taking(s, s.queues, s.sources, s.events, <<>>)
  BY FirstRecordsAre
<1>5. <<>> \o s.events = s.events
  BY <1>1, ConcatEmptySeq
<1> HIDE DEF o
<1>6. o.events = <<>>
  BY <1>4 DEF Taking
<1>7. [o EXCEPT !.events = s.events] = Taking(s, s.queues, s.sources, s.events, <<>>)
  BY ONLY <1>4 DEF Taking
<1>8. y.ok = TRUE /\ y.out = FirstRecords(s, LastEvent(s))
  BY ONLY <1>2, <1>3, <1>4, <1>5, <1>6, <1>7
<1> QED
  BY <1>8 DEF Adds, y, c, o

LEMMA ParseTable ==
    ASSUME NEW s \in DurableSnapshot, NEW l, s.metadata # <<>>
    PROVE  Adds(Parse(MetadataTable, TableCells(s.metadata[1]), l, FirstRecords(s, LastEvent(s))), s, l,
                FirstRecords(s, LastEvent(s)), FirstRecords(s, LastTable(s)))
<1> DEFINE t == s.metadata[1]
           c == TableCells(t)
           x == ReadTable(c)
           o == FirstRecords(s, LastEvent(s))
           y == Parse(MetadataTable, c, l, o)
<1>1. s.metadata \in Seq(TableSet) /\ Len(s.metadata) <= 1
  BY DEF DurableSnapshot, Optionals
<1>2. Len(s.metadata) = 1
  <2>1. Len(s.metadata) \in Nat \ {0}
    BY <1>1, EmptySeq
  <2>2. \A n \in Nat \ {0} : n <= 1 => n = 1
    OBVIOUS
  <2> QED
    BY ONLY <1>1, <2>1, <2>2
<1>3. t \in TableSet
  BY <1>1, <1>2, ElementOfSeq
<1>4. s.metadata = <<t>>
  <2> HIDE DEF t
  <2>1. <<t>> \in Seq(TableSet) /\ Len(<<t>>) = 1 /\ <<t>>[1] = t
    BY <1>3
  <2>2. \A i \in 1..1 : s.metadata[i] = <<t>>[i]
    BY <2>1 DEF t
  <2> QED
    BY <1>1, <1>2, <2>1, <2>2, SeqEqual
<1>5. x.ok = TRUE /\ x.item = t
  BY <1>3, TableReads
<1>6. y = [ok |-> x.ok, out |-> IF x.ok THEN [o EXCEPT !.metadata = <<x.item>>] ELSE o]
  BY RecordTypes DEF Parse
<1> HIDE DEF x, y, c, t
<1>7. o = Taking(s, s.queues, s.sources, s.events, <<>>) /\ FirstRecords(s, LastTable(s)) = s
  BY FirstRecordsAre
<1>8. s = Taking(s, s.queues, s.sources, s.events, s.metadata)
  BY DEF DurableSnapshot, Taking
<1> HIDE DEF o
<1>9. [o EXCEPT !.metadata = s.metadata] = Taking(s, s.queues, s.sources, s.events, s.metadata)
  BY ONLY <1>7 DEF Taking
<1>10. y.ok = TRUE /\ y.out = FirstRecords(s, LastTable(s))
  BY ONLY <1>4, <1>5, <1>6, <1>7, <1>8, <1>9
<1> QED
  BY <1>10 DEF Adds, y, c, o, t

LEMMA ParseNext ==
    ASSUME NEW s \in DurableSnapshot, NEW l, NEW o, Blank(s, o), NEW k \in 1..Len(Values(s))
    PROVE  Adds(Parse(Values(s)[k].type, Values(s)[k].value, l, Before(s, o, k - 1)), s, l,
                Before(s, o, k - 1), Before(s, o, k))
<1> DEFINE a == LastQueue(s)
           b == LastSource(s)
           e == LastEvent(s)
           t == LastTable(s)
           Q == Len(s.queues)
<1>1. /\ a \in Nat /\ b \in Nat /\ e \in Nat /\ t \in Nat /\ Q \in Nat /\ a = 1 + Q /\ a >= 1
      /\ s.sources = <<>> => b = a
      /\ s.sources # <<>> => b = a + 1
      /\ s.events = <<>> => e = b
      /\ s.events # <<>> => e = b + 1
      /\ s.metadata = <<>> => t = e
      /\ s.metadata # <<>> => t = e + 1
  BY LastRecords
<1>2. k \in 1..t
  BY SnapshotRecords
<1>3. Before(s, o, 0) = o /\ \A n : n # 0 => Before(s, o, n) = FirstRecords(s, n)
  BY DEF Before
<1> HIDE DEF a, b, e, t, Q
<1>4. CASE k = 1
  <2>1. Values(s)[1].type = SessionHeader /\ Values(s)[1].value = SessionCells(s)
    <3>1. Values(s)[1] = [type |-> SessionHeader, value |-> SessionCells(s)]
      BY SnapshotRecords
    <3> QED
      BY ONLY <3>1
  <2>2. Before(s, o, k - 1) = o /\ Before(s, o, k) = FirstRecords(s, 1)
    BY <1>3, <1>4
  <2> QED
    <3>1. Adds(Parse(SessionHeader, SessionCells(s), l, o), s, l, o, FirstRecords(s, 1))
      BY ParseSession
    <3>2. Values(s)[k].type = SessionHeader /\ Values(s)[k].value = SessionCells(s)
      BY ONLY <1>4, <2>1
    <3> QED
      BY ONLY <2>2, <3>1, <3>2
<1>5. CASE k # 1 /\ k <= a
  <2> DEFINE i == k - 1
  <2>1. i \in 1..Q /\ k = 1 + i /\ i + 1 = k /\ i # 0 /\ k # 0
    BY <1>1, <1>2, <1>5
  <2> HIDE DEF i
  <2>2. i \in 1..Len(s.queues)
    BY <2>1 DEF Q
  <2>3. Values(s)[1 + i].type = QueueSnapshot /\ Values(s)[1 + i].value = QueueCells(s.queues[i])
    <3>1. Values(s)[1 + i] = [type |-> QueueSnapshot, value |-> QueueCells(s.queues[i])]
      BY <2>2, SnapshotRecords
    <3> QED
      BY ONLY <3>1
  <2>4. Before(s, o, i) = FirstRecords(s, i) /\ Before(s, o, k) = FirstRecords(s, i + 1)
    BY ONLY <1>3, <2>1
  <2>5. Adds(Parse(QueueSnapshot, QueueCells(s.queues[i]), l, FirstRecords(s, i)), s, l,
             FirstRecords(s, i), FirstRecords(s, i + 1))
    BY <2>2, ParseQueue
  <2>6. Values(s)[k].type = QueueSnapshot /\ Values(s)[k].value = QueueCells(s.queues[i])
    BY ONLY <2>1, <2>3
  <2> QED
    BY <2>4, <2>5, <2>6 DEF i
<1>6. CASE s.sources # <<>> /\ k = b
  <2>1. k - 1 = a /\ a # 0 /\ k # 0
    BY <1>1, <1>6
  <2>2. Values(s)[k] = SourcesRecord(s)
    BY <1>6, SnapshotRecords DEF b
  <2>3. Before(s, o, k - 1) = FirstRecords(s, a) /\ Before(s, o, k) = FirstRecords(s, b)
    BY <1>3, <1>6, <2>1
  <2>4. Values(s)[k].type = SourceRegistry /\ Values(s)[k].value = SourcesRecord(s).value
    BY <2>2 DEF SourcesRecord
  <2> QED
    BY <2>3, <2>4, ParseSources DEF a, b
<1>7. CASE s.events # <<>> /\ k = e
  <2>1. k - 1 = b /\ b # 0 /\ k # 0
    BY <1>1, <1>7
  <2>2. Values(s)[k] = [type |-> EventBatch, value |-> Counted(Numbers(s.events))]
    BY <1>7, SnapshotRecords DEF e
  <2>3. Before(s, o, k - 1) = FirstRecords(s, b) /\ Before(s, o, k) = FirstRecords(s, e)
    BY <1>3, <1>7, <2>1
  <2>4. Values(s)[k].type = EventBatch /\ Values(s)[k].value = Counted(Numbers(s.events))
    BY <2>2
  <2> QED
    BY <2>3, <2>4, ParseEvents DEF b, e
<1>8. CASE s.metadata # <<>> /\ k = t
  <2>1. k - 1 = e /\ e # 0 /\ k # 0
    BY <1>1, <1>8
  <2>2. Values(s)[k] = [type |-> MetadataTable, value |-> TableCells(s.metadata[1])]
    BY <1>8, SnapshotRecords DEF t
  <2>3. Before(s, o, k - 1) = FirstRecords(s, e) /\ Before(s, o, k) = FirstRecords(s, t)
    BY <1>3, <1>8, <2>1
  <2>4. Values(s)[k].type = MetadataTable /\ Values(s)[k].value = TableCells(s.metadata[1])
    BY <2>2
  <2> QED
    BY <1>8, <2>3, <2>4, ParseTable DEF e, t
<1>9. \/ k = 1 \/ (k # 1 /\ k <= a) \/ (s.sources # <<>> /\ k = b)
      \/ (s.events # <<>> /\ k = e) \/ (s.metadata # <<>> /\ k = t)
  <2>1. k <= t /\ k \in Nat
    BY <1>1, <1>2
  <2>2. k <= e \/ (s.metadata # <<>> /\ k = t)
    BY <1>1, <2>1
  <2>3. k <= e => k <= b \/ (s.events # <<>> /\ k = e)
    BY <1>1, <2>1
  <2>4. k <= b => k <= a \/ (s.sources # <<>> /\ k = b)
    BY <1>1, <2>1
  <2> QED
    BY ONLY <2>2, <2>3, <2>4
<1> QED
  BY <1>4, <1>5, <1>6, <1>7, <1>8, <1>9

-----------------------------------------------------------------------------
(* Checksums *)

LEMMA ChecksumIs ==
    ASSUME NEW x \in Seq(Cell)
    PROVE  /\ Checksum(x) \in Cell /\ Checksum(x) \notin Single
           /\ \A y \in Seq(Cell) : Checksum(x) = Checksum(y) => FlattenSeq(x) = FlattenSeq(y)
<1>1. \A y \in Seq(Cell) : FlattenSeq(y) \in Seq(Int)
  BY FlattenLayout DEF Cell
<1>2. <<-1>> \in Seq(Int) /\ Len(<<-1>>) = 1 /\ <<-1>>[1] = -1
  OBVIOUS
<1>3. \A y \in Seq(Cell) : /\ Checksum(y) \in Seq(Int)
                           /\ Len(Checksum(y)) = 1 + Len(FlattenSeq(y)) /\ Checksum(y)[1] = -1
  <2> SUFFICES ASSUME NEW y \in Seq(Cell)
               PROVE  /\ Checksum(y) \in Seq(Int)
                      /\ Len(Checksum(y)) = 1 + Len(FlattenSeq(y)) /\ Checksum(y)[1] = -1
    OBVIOUS
  <2> DEFINE f == FlattenSeq(y)
             h == <<-1>>
  <2>1. f \in Seq(Int)
    BY <1>1
  <2>2. Checksum(y) = h \o f
    BY DEF Checksum
  <2>3. h \in Seq(Int) /\ Len(h) = 1 /\ h[1] = -1 /\ 1 \in 1..1
    BY <1>2
  <2> HIDE DEF f, h
  <2>4. h \o f \in Seq(Int) /\ Len(h \o f) = Len(h) + Len(f) /\ \A i \in 1..Len(h) : (h \o f)[i] = h[i]
    BY <2>1, <2>3, JoinAt
  <2> QED
    BY ONLY <2>2, <2>3, <2>4 DEF f
<1>4. Checksum(x) \notin Single
  <2>1. -1 \notin Nat
    OBVIOUS
  <2> QED
    BY <1>3, <2>1, SingleCell
<1>5. ASSUME NEW y \in Seq(Cell), Checksum(x) = Checksum(y) PROVE FlattenSeq(x) = FlattenSeq(y)
  BY <1>1, <1>2, <1>5, ConcatSimplifications DEF Checksum
<1> QED
  BY <1>3, <1>4, <1>5 DEF Cell

\* As long as each cell holds one number, the n-th number is in the n-th cell.
LEMMA SinglesFlat ==
    ASSUME NEW x \in Seq(Cell), NEW m \in 0..Len(x), \A i \in 1..m : x[i] \in Single
    PROVE  \A i \in 1..m : FlattenSeq(x)[i] = x[i][1]
<1>0. Len(x) \in Nat /\ m \in Nat /\ m <= Len(x)
  OBVIOUS
<1>1. PICK off : Layout(x, off, FlattenSeq(x))
  BY FlattenLayout DEF Cell
<1>2. /\ off[0] = 0
      /\ \A n \in 1..Len(x) : /\ off[n] = off[n - 1] + Len(x[n])
                              /\ \A j \in 1..Len(x[n]) : FlattenSeq(x)[off[n - 1] + j] = x[n][j]
  BY <1>1 DEF Layout
<1>3. \A i \in 1..m : i \in 1..Len(x) /\ Len(x[i]) = 1
  BY <1>0, SingleCell
<1> DEFINE T == {i \in 0..m : off[i] = i}
<1>4. 0 \in T
  BY <1>0, <1>2
<1>5. ASSUME NEW i \in 1..m, i - 1 \in T PROVE i \in T
  <2>1. off[i] = off[i - 1] + 1 /\ off[i - 1] = i - 1
    BY <1>2, <1>3, <1>5
  <2>2. (i - 1) + 1 = i /\ i \in 0..m
    BY <1>0
  <2> QED
    BY <2>1, <2>2
<1>6. 0..m \subseteq T
  <2> HIDE DEF T
  <2> QED
    BY <1>0, <1>4, <1>5, UpToBound
<1>7. ASSUME NEW i \in 1..m PROVE FlattenSeq(x)[i] = x[i][1]
  <2>1. i - 1 \in 0..m /\ (i - 1) + 1 = i /\ 1 \in 1..1
    BY <1>0
  <2>2. off[i - 1] = i - 1
    BY <1>6, <2>1
  <2>3. FlattenSeq(x)[off[i - 1] + 1] = x[i][1]
    BY <1>2, <1>3, <2>1
  <2> QED
    BY ONLY <2>1, <2>2, <2>3
<1> QED
  BY <1>7

\* Equal checksums: the cells before the first of several numbers are the same.
LEMMA SameCells ==
    ASSUME NEW x \in Seq(Cell), NEW y \in Seq(Cell), Checksum(x) = Checksum(y),
           NEW m \in 0..Len(x), m \in 0..Len(y),
           \A i \in 1..m : x[i] \in Single, \A i \in 1..m : y[i] \in Single
    PROVE  \A i \in 1..m : x[i] = y[i]
<1>1. FlattenSeq(x) = FlattenSeq(y)
  BY ChecksumIs
<1>2. \A i \in 1..m : FlattenSeq(x)[i] = x[i][1]
  BY SinglesFlat
<1>3. \A i \in 1..m : FlattenSeq(y)[i] = y[i][1]
  BY SinglesFlat
<1>4. \A z \in Single : z = U(z[1])
  BY SingleCell
<1> QED
  BY <1>1, <1>2, <1>3, <1>4

-----------------------------------------------------------------------------
(* The payload *)

\* What the checksum of a record covers.
Covered(r) == <<U(r.type), U(Len(r.value))>> \o r.value

LEMMA CoveredCells ==
    ASSUME NEW r \in RecordSet
    PROVE  /\ Covered(r) \in Seq(Single) /\ Len(r.value) \in Nat /\ Len(Covered(r)) = 2 + Len(r.value)
           /\ Covered(r)[1] = U(r.type) /\ Covered(r)[2] = U(Len(r.value))
           /\ \A j \in 1..Len(r.value) : Covered(r)[2 + j] = r.value[j]
<1> DEFINE x == U(r.type)
           y == U(Len(r.value))
           v == r.value
           h == <<x, y>>
<1>1. r.type \in Nat /\ v \in Seq(Single)
  BY DEF RecordSet
<1>2. Len(v) \in Nat
  BY <1>1
<1>3. x \in Single /\ y \in Single
  BY <1>1, <1>2, SingleCell
<1>4. Covered(r) = h \o v
  BY DEF Covered
<1> HIDE DEF x, y, v
<1>5. h \in Seq(Single) /\ Len(h) = 2 /\ h[1] = x /\ h[2] = y
  BY <1>3
<1> HIDE DEF h
<1>6. /\ h \o v \in Seq(Single) /\ Len(h \o v) = Len(h) + Len(v)
      /\ \A i \in 1..Len(h) : (h \o v)[i] = h[i]
      /\ \A j \in 1..Len(v) : (h \o v)[Len(h) + j] = v[j]
  BY <1>1, <1>5, JoinAt
<1>7. 1 \in 1..2 /\ 2 \in 1..2
  OBVIOUS
<1> QED
  BY ONLY <1>2, <1>4, <1>5, <1>6, <1>7 DEF x, y, v

LEMMA SinglesAreCells == Seq(Single) \subseteq Seq(Cell)
<1>1. \A x \in Seq(Single) : x \in [1..Len(x) -> Cell] /\ Len(x) \in Nat
  BY SingleCell
<1> QED
  BY <1>1, FunctionIsSequence

LEMMA RecordCells ==
    ASSUME NEW r \in RecordSet
    PROVE  /\ Record(r) \in Seq(Cell) /\ Len(r.value) \in Nat /\ Len(Record(r)) = 3 + Len(r.value)
           /\ Record(r)[1] = Checksum(Covered(r))
           /\ Record(r)[2] = U(r.type) /\ Record(r)[3] = U(Len(r.value))
           /\ \A j \in 1..Len(r.value) : Record(r)[3 + j] = r.value[j]
<1> DEFINE n == Len(r.value)
           q == Covered(r)
           k == Checksum(q)
           h == <<k>>
<1>1. /\ q \in Seq(Single) /\ n \in Nat /\ Len(q) = 2 + n /\ q[1] = U(r.type) /\ q[2] = U(n)
      /\ \A j \in 1..n : q[2 + j] = r.value[j]
  BY CoveredCells
<1>2. q \in Seq(Cell)
  BY <1>1, SinglesAreCells
<1>3. k \in Cell
  BY <1>2, ChecksumIs
<1>4. Record(r) = h \o q
  <2> DEFINE x == <<U(r.type), U(Len(r.value))>>
  <2>1. Record(r) = (h \o x) \o r.value /\ q = x \o r.value
    BY DEF Record, Covered
  <2>2. r.value \in Seq(Single)
    BY DEF RecordSet
  <2>3. r.value \in Seq(Cell)
    BY <2>2, SinglesAreCells
  <2>4. U(r.type) \in Cell /\ U(n) \in Cell
    BY <1>1, SingleCell DEF RecordSet
  <2>5. x \in Seq(Cell)
    <3> DEFINE y == U(r.type)
               z == U(Len(r.value))
    <3>1. y \in Cell /\ z \in Cell
      BY <2>4
    <3> HIDE DEF y, z
    <3>2. <<y, z>> \in Seq(Cell)
      BY ONLY <3>1
    <3> QED
      BY <3>2 DEF y, z
  <2>6. h \in Seq(Cell)
    <3> HIDE DEF k
    <3> QED
      BY ONLY <1>3
  <2> HIDE DEF x, h, q
  <2> QED
    <3> DEFINE v == r.value
    <3>1. v \in Seq(Cell)
      BY <2>3
    <3> HIDE DEF v
    <3>2. (h \o x) \o v = h \o (x \o v)
      <4>1. \A e, f, g \in Seq(Cell) : (e \o f) \o g = e \o (f \o g)
        BY ONLY ConcatAssociative
      <4> QED
        BY ONLY <2>5, <2>6, <3>1, <4>1
    <3> QED
      BY ONLY <2>1, <3>2 DEF v
<1> HIDE DEF k, q, n
<1>5. h \in Seq(Cell) /\ Len(h) = 1 /\ h[1] = k
  BY ONLY <1>3
<1> HIDE DEF h
<1>6. /\ h \o q \in Seq(Cell) /\ Len(h \o q) = Len(h) + Len(q)
      /\ \A i \in 1..Len(h) : (h \o q)[i] = h[i]
      /\ \A j \in 1..Len(q) : (h \o q)[Len(h) + j] = q[j]
  BY ONLY <1>2, <1>5, JoinAt
<1>7. /\ 1 \in 1..1 /\ 1 \in 1..(2 + n) /\ 2 \in 1..(2 + n) /\ 1 + 1 = 2 /\ 1 + 2 = 3 /\ 1 + (2 + n) = 3 + n
      /\ \A j \in 1..n : 2 + j \in 1..(2 + n) /\ 1 + (2 + j) = 3 + j
  BY <1>1
<1>8. Record(r)[1] = k /\ Record(r)[2] = q[1] /\ Record(r)[3] = q[2]
  <2>1. 1 \in 1..Len(h) /\ 1 \in 1..Len(q) /\ 2 \in 1..Len(q)
    BY ONLY <1>1, <1>5, <1>7
  <2>2. (h \o q)[1] = h[1] /\ (h \o q)[Len(h) + 1] = q[1] /\ (h \o q)[Len(h) + 2] = q[2]
    BY ONLY <1>6, <2>1
  <2> QED
    BY ONLY <1>4, <1>5, <1>7, <2>2
<1>9. ASSUME NEW j \in 1..n PROVE Record(r)[3 + j] = r.value[j]
  <2>1. 2 + j \in 1..Len(q) /\ Len(h) + (2 + j) = 3 + j
    BY ONLY <1>1, <1>5, <1>7, <1>9
  <2>2. (h \o q)[Len(h) + (2 + j)] = q[2 + j]
    BY ONLY <1>6, <2>1
  <2> QED
    BY ONLY <1>1, <1>4, <1>9, <2>1, <2>2
<1>10. Record(r) \in Seq(Cell) /\ Len(Record(r)) = 3 + n
  BY ONLY <1>1, <1>4, <1>5, <1>6, <1>7
<1> QED
  BY <1>1, <1>8, <1>9, <1>10 DEF k, q, n

Records(s) == [i \in DOMAIN Values(s) |-> Record(Values(s)[i])]

LEMMA PayloadLayout ==
    ASSUME NEW s \in DurableSnapshot
    PROVE  /\ Len(Values(s)) \in Nat /\ Len(Records(s)) = Len(Values(s))
           /\ \A k \in 1..Len(Values(s)) : Values(s)[k] \in RecordSet /\ Records(s)[k] = Record(Values(s)[k])
           /\ Payload(s) \in Seq(Cell) /\ \E off : Layout(Records(s), off, Payload(s))
<1> DEFINE n == Len(Values(s))
<1>1. Values(s) \in Seq(RecordSet)
  BY SnapshotRecords
<1>2. n \in Nat /\ DOMAIN Values(s) = 1..n /\ \A k \in 1..n : Values(s)[k] \in RecordSet
  BY <1>1
<1>3. \A k \in 1..n : Record(Values(s)[k]) \in Seq(Cell)
  BY <1>2, RecordCells
<1>4. Records(s) \in [1..n -> Seq(Cell)] /\ \A k \in 1..n : Records(s)[k] = Record(Values(s)[k])
  BY <1>2, <1>3 DEF Records
<1>5. Records(s) \in Seq(Seq(Cell)) /\ Len(Records(s)) = n
  BY ONLY <1>2, <1>4, FunctionIsSequence
<1>6. Payload(s) = FlattenSeq(Records(s))
  BY DEF Payload, Records
<1>7. Payload(s) \in Seq(Cell) /\ \E off : Layout(Records(s), off, Payload(s))
  BY <1>5, <1>6, FlattenLayout
<1> QED
  BY <1>2, <1>4, <1>5, <1>7

\* Record k in the payload.
RecordFound(s, off, k, r) ==
    /\ r \in RecordSet /\ Len(r.value) \in Nat /\ off[k - 1] \in Nat
    /\ off[k] = off[k - 1] + 3 + Len(r.value) /\ off[k] <= Len(Payload(s))
    /\ Payload(s)[off[k - 1] + 1] = Checksum(Covered(r))
    /\ Payload(s)[off[k - 1] + 2] = U(r.type)
    /\ Payload(s)[off[k - 1] + 3] = U(Len(r.value))
    /\ \A j \in 1..Len(r.value) : Payload(s)[off[k - 1] + 3 + j] = r.value[j]

LEMMA RecordInPayload ==
    ASSUME NEW s \in DurableSnapshot, NEW off, Layout(Records(s), off, Payload(s)),
           NEW k \in 1..Len(Values(s)), NEW r, r = Values(s)[k]
    PROVE  RecordFound(s, off, k, r)
<1> DEFINE P == Payload(s)
           o == off[k - 1]
           R == Record(r)
           n == Len(r.value)
<1>1. r \in RecordSet /\ Records(s)[k] = R /\ Len(Records(s)) = Len(Values(s)) /\ Len(Values(s)) \in Nat
  BY PayloadLayout
<1>2. /\ n \in Nat /\ Len(R) = 3 + n
      /\ R[1] = Checksum(Covered(r)) /\ R[2] = U(r.type) /\ R[3] = U(n)
      /\ \A j \in 1..n : R[3 + j] = r.value[j]
  BY <1>1, RecordCells
<1>3. k \in 1..Len(Records(s)) /\ k - 1 \in 0..Len(Records(s))
  BY <1>1
<1>4. /\ o \in Nat /\ off[k] = o + Len(R) /\ off[k] <= Len(P)
      /\ \A j \in 1..Len(R) : P[o + j] = R[j]
  BY <1>1, <1>3 DEF Layout
<1> HIDE DEF P, o, R, n
<1>5. /\ 1 \in 1..(3 + n) /\ 2 \in 1..(3 + n) /\ 3 \in 1..(3 + n) /\ o + (3 + n) = o + 3 + n
      /\ \A j \in 1..n : 3 + j \in 1..(3 + n) /\ o + (3 + j) = o + 3 + j
  BY <1>2, <1>4
<1>6. P[o + 1] = R[1] /\ P[o + 2] = R[2] /\ P[o + 3] = R[3] /\ \A j \in 1..n : P[o + 3 + j] = R[3 + j]
  BY ONLY <1>2, <1>4, <1>5
<1> QED
  BY <1>1, <1>2, <1>4, <1>5, <1>6 DEF P, o, n, RecordFound

-----------------------------------------------------------------------------
(* The record loop *)

\* c is what is left of e: a cell is as it was written or reads as a number.
Damaged(c, e) ==
    /\ c \in Seq(Cell)
    /\ \A i \in 1..Len(c) : (i <= Len(e) /\ c[i] = e[i]) \/ c[i] \in Single

LoopState(s, o) ==
    [offset : Nat, parsed : Nat, rejected : Nat, truncated : BOOLEAN, failed : BOOLEAN,
     done : BOOLEAN, out : {Before(s, o, k) : k \in 0..Len(Values(s))}]

\* The loop stands at the end of a record and has all that came before it.
AtRecord(s, o, off, d) ==
    /\ d \in LoopState(s, o)
    /\ d.parsed \in 0..Len(Values(s)) /\ d.offset = off[d.parsed] /\ d.out = Before(s, o, d.parsed)

\* What ends the loop changes nothing of that.
Stays(s, o, d, e) ==
    e \in LoopState(s, o) /\ e.parsed = d.parsed /\ e.offset = d.offset /\ e.out = d.out

LEMMA LoopFields ==
    ASSUME NEW s, NEW o, NEW d \in LoopState(s, o)
    PROVE  /\ d.rejected \in Nat /\ [d EXCEPT !.out = d.out] = d
           /\ Stays(s, o, d, [d EXCEPT !.done = TRUE]) /\ Stays(s, o, d, [d EXCEPT !.failed = TRUE])
           /\ Stays(s, o, d, [d EXCEPT !.truncated = TRUE])
           /\ \A n \in Nat : Stays(s, o, d, [d EXCEPT !.rejected = n])
<1> DEFINE O == {Before(s, o, k) : k \in 0..Len(Values(s))}
<1> DEFINE L == [offset : Nat, parsed : Nat, rejected : Nat, truncated : BOOLEAN,
                 failed : BOOLEAN, done : BOOLEAN, out : O]
<1>1. LoopState(s, o) = L /\ d \in L
  BY DEF LoopState
<1> HIDE DEF O
<1>2. d.rejected \in Nat /\ [d EXCEPT !.out = d.out] = d
  BY <1>1
<1>3. Stays(s, o, d, [d EXCEPT !.done = TRUE])
  <2> DEFINE e == [d EXCEPT !.done = TRUE]
  <2>1. e \in L
    BY ONLY <1>1
  <2>2. e.parsed = d.parsed /\ e.offset = d.offset /\ e.out = d.out
    BY ONLY <1>1
  <2> QED
    BY ONLY <1>1, <2>1, <2>2 DEF Stays
<1>4. Stays(s, o, d, [d EXCEPT !.failed = TRUE])
  <2> DEFINE e == [d EXCEPT !.failed = TRUE]
  <2>1. e \in L
    BY ONLY <1>1
  <2>2. e.parsed = d.parsed /\ e.offset = d.offset /\ e.out = d.out
    BY ONLY <1>1
  <2> QED
    BY ONLY <1>1, <2>1, <2>2 DEF Stays
<1>5. Stays(s, o, d, [d EXCEPT !.truncated = TRUE])
  <2> DEFINE e == [d EXCEPT !.truncated = TRUE]
  <2>1. e \in L
    BY ONLY <1>1
  <2>2. e.parsed = d.parsed /\ e.offset = d.offset /\ e.out = d.out
    BY ONLY <1>1
  <2> QED
    BY ONLY <1>1, <2>1, <2>2 DEF Stays
<1>6. ASSUME NEW n \in Nat PROVE Stays(s, o, d, [d EXCEPT !.rejected = n])
  BY <1>1 DEF Stays
<1> QED
  BY <1>2, <1>3, <1>4, <1>5, <1>6

LEMMA EndedAtRecord ==
    ASSUME NEW s, NEW o, NEW off, NEW d, AtRecord(s, o, off, d)
    PROVE  /\ AtRecord(s, o, off, [d EXCEPT !.done = TRUE])
           /\ AtRecord(s, o, off, [d EXCEPT !.failed = TRUE, !.done = TRUE])
           /\ AtRecord(s, o, off, [d EXCEPT !.truncated = TRUE, !.failed = TRUE, !.done = TRUE])
           /\ AtRecord(s, o, off, [d EXCEPT !.failed = TRUE, !.rejected = d.rejected + 1, !.done = TRUE])
<1>1. d \in LoopState(s, o)
  BY DEF AtRecord
<1>2. ASSUME NEW e, Stays(s, o, d, e) PROVE AtRecord(s, o, off, e)
  BY <1>2 DEF AtRecord, Stays
<1>3. \A e, f : Stays(s, o, d, e) /\ Stays(s, o, e, f) => Stays(s, o, d, f)
  BY DEF Stays
<1>4. \A e : Stays(s, o, d, e) => e \in LoopState(s, o)
  BY DEF Stays
<1> DEFINE D(e) == [e EXCEPT !.done = TRUE]
           F(e) == [e EXCEPT !.failed = TRUE]
           T(e) == [e EXCEPT !.truncated = TRUE]
           R(e) == [e EXCEPT !.rejected = d.rejected + 1]
<1>5. d.rejected + 1 \in Nat
  <2>1. d.rejected \in Nat
    BY <1>1, LoopFields
  <2> QED
    BY ONLY <2>1
<1>6. \A e \in LoopState(s, o) : /\ Stays(s, o, e, D(e)) /\ Stays(s, o, e, F(e))
                                 /\ Stays(s, o, e, T(e)) /\ Stays(s, o, e, R(e))
  BY <1>5, LoopFields
<1>7. /\ [d EXCEPT !.failed = TRUE, !.done = TRUE] = D(F(d))
      /\ [d EXCEPT !.truncated = TRUE, !.failed = TRUE, !.done = TRUE] = D(F(T(d)))
      /\ [d EXCEPT !.failed = TRUE, !.rejected = d.rejected + 1, !.done = TRUE] = D(R(F(d)))
  OBVIOUS
<1>8. [d EXCEPT !.done = TRUE] = D(d)
  OBVIOUS
<1> HIDE DEF D, F, T, R
<1>9. Stays(s, o, d, D(d)) /\ Stays(s, o, d, F(d)) /\ Stays(s, o, d, T(d))
  BY ONLY <1>1, <1>6
<1>10. Stays(s, o, d, D(F(d))) /\ Stays(s, o, d, R(F(d))) /\ Stays(s, o, d, F(T(d)))
  BY ONLY <1>3, <1>4, <1>6, <1>9
<1>11. Stays(s, o, d, D(R(F(d)))) /\ Stays(s, o, d, D(F(T(d))))
  BY ONLY <1>3, <1>4, <1>6, <1>10
<1> QED
  BY ONLY <1>2, <1>7, <1>8, <1>9, <1>10, <1>11

\* One more record, and no failure.
Consumed(d, e) ==
    e.parsed = d.parsed + 1 /\ e.done = d.done /\ e.failed = d.failed /\ e.truncated = d.truncated

Idle(d, e) == e.parsed = d.parsed /\ e.failed = d.failed /\ e.truncated = d.truncated

\* Taking a record that is as it was written.
LEMMA TakenAtRecord ==
    ASSUME NEW s, NEW o, NEW off, NEW d, AtRecord(s, o, off, d), Len(Values(s)) \in Nat,
           d.parsed # Len(Values(s)), NEW n \in Nat, NEW l, NEW x,
           off[d.parsed] \in Nat, off[d.parsed + 1] = off[d.parsed] + 3 + n,
           Adds(x, s, l, Before(s, o, d.parsed), Before(s, o, d.parsed + 1))
    PROVE  /\ AtRecord(s, o, off, Taken(d, n, x))
           /\ x.ok => Consumed(d, Taken(d, n, x))
<1> DEFINE O == {Before(s, o, k) : k \in 0..Len(Values(s))}
           N == Len(Values(s))
           p == d.parsed
           b == Before(s, o, p + 1)
           g == off[p + 1]
           L == [offset : Nat, parsed : Nat, rejected : Nat, truncated : BOOLEAN, failed : BOOLEAN,
                 done : BOOLEAN, out : O]
<1>1. d \in L /\ p \in 0..N /\ d.offset = off[p] /\ d.out = Before(s, o, p)
  BY DEF AtRecord, LoopState
<1>2. \A e : AtRecord(s, o, off, e) <=>
               e \in L /\ e.parsed \in 0..N /\ e.offset = off[e.parsed] /\ e.out = Before(s, o, e.parsed)
  BY DEF AtRecord, LoopState
<1>3. p + 1 \in 0..N /\ p + 1 \in Nat
  BY <1>1
<1>4. b \in O
  BY <1>3
<1>5. g \in Nat /\ (d.offset + RecordHeaderSize) + n = g
  BY <1>1 DEF RecordHeaderSize
<1>6. CASE x.ok
  <2>1. x.out = b
    BY <1>6 DEF Adds
  <2>2. Taken(d, n, x) = [d EXCEPT !.parsed = p + 1, !.offset = g, !.out = b]
    BY <1>5, <1>6, <2>1 DEF Taken
  <2> DEFINE e == [d EXCEPT !.parsed = p + 1, !.offset = g, !.out = b]
  <2> HIDE DEF O, b, g, p, N
  <2>3. e \in L /\ e.parsed = p + 1 /\ e.offset = g /\ e.out = b
    BY ONLY <1>1, <1>3, <1>4, <1>5
  <2>6. e.done = d.done /\ e.failed = d.failed /\ e.truncated = d.truncated
    BY ONLY <1>1
  <2>7. Taken(d, n, x) = e
    BY ONLY <2>2
  <2> HIDE DEF e, L
  <2>4. e.offset = off[e.parsed] /\ e.out = Before(s, o, e.parsed) /\ e.parsed \in 0..N
    BY ONLY <1>3, <2>3 DEF g, b
  <2>5. AtRecord(s, o, off, e)
    BY ONLY <1>2, <2>3, <2>4
  <2> QED
    BY ONLY <1>6, <2>3, <2>5, <2>6, <2>7 DEF p, Consumed
<1>7. CASE ~x.ok
  <2>1. x.out = d.out
    BY <1>1, <1>7 DEF Adds
  <2>2. Taken(d, n, x) = [d EXCEPT !.failed = TRUE, !.rejected = d.rejected + 1, !.done = TRUE,
                                   !.out = d.out]
    BY <1>7, <2>1 DEF Taken
  <2> DEFINE e == [d EXCEPT !.failed = TRUE, !.rejected = d.rejected + 1, !.done = TRUE]
  <2>3. AtRecord(s, o, off, e)
    BY EndedAtRecord
  <2>4. Taken(d, n, x) = [e EXCEPT !.out = d.out]
    BY ONLY <2>2
  <2>5. e.out = d.out
    <3> HIDE DEF O
    <3> QED
      BY ONLY <1>1
  <2> HIDE DEF e
  <2>6. [e EXCEPT !.out = e.out] = e
    BY <2>3, LoopFields DEF AtRecord
  <2> QED
    BY ONLY <1>7, <2>3, <2>4, <2>5, <2>6
<1> QED
  BY <1>6, <1>7 DEF Adds

LEMMA PrefixAndValue ==
    ASSUME NEW x \in Cell, NEW y \in Cell, NEW v \in Seq(Cell)
    PROVE  /\ <<x, y>> \o v \in Seq(Cell) /\ Len(<<x, y>> \o v) = 2 + Len(v) /\ Len(v) \in Nat
           /\ (<<x, y>> \o v)[1] = x /\ (<<x, y>> \o v)[2] = y
           /\ \A j \in 1..Len(v) : (<<x, y>> \o v)[2 + j] = v[j]
<1> DEFINE h == <<x, y>>
<1>1. h \in Seq(Cell) /\ Len(h) = 2 /\ h[1] = x /\ h[2] = y
  OBVIOUS
<1> HIDE DEF h
<1>2. /\ h \o v \in Seq(Cell) /\ Len(h \o v) = Len(h) + Len(v)
      /\ \A i \in 1..Len(h) : (h \o v)[i] = h[i]
      /\ \A j \in 1..Len(v) : (h \o v)[Len(h) + j] = v[j]
  <2>1. h \in Seq(Cell)
    BY <1>1
  <2> QED
    BY ONLY <2>1, JoinAt
<1>3. Len(v) \in Nat /\ 1 \in 1..2 /\ 2 \in 1..2
  OBVIOUS
<1> QED
  BY ONLY <1>1, <1>2, <1>3 DEF h

\* The rest of a damaged payload, from the end of record k on.
LEMMA RestOfPayload ==
    ASSUME NEW p \in Seq(Cell), NEW k \in Nat, NEW c, c = SubSeq(p, k + 1, Len(p))
    PROVE  /\ c \in Seq(Cell) /\ Len(c) \in Nat /\ Len(c) = (IF k <= Len(p) THEN Len(p) - k ELSE 0)
           /\ \A i \in 1..Len(c) : k + i \in 1..Len(p) /\ c[i] = p[k + i]
<1> DEFINE n == Len(p)
<1>1. n \in Nat /\ k + 1 \in Int
  OBVIOUS
<1>2. \A i \in (k + 1)..n : p[i] \in Cell
  BY <1>1, ElementOfSeq
<1>3. /\ c \in Seq(Cell) /\ Len(c) = (IF k + 1 <= n THEN (n - (k + 1)) + 1 ELSE 0)
      /\ \A i \in 1..((n - (k + 1)) + 1) : c[i] = p[((k + 1) + i) - 1]
  BY <1>1, <1>2, SubSeqProperties
<1> HIDE DEF n
<1>4. /\ (IF k + 1 <= n THEN (n - (k + 1)) + 1 ELSE 0) = (IF k <= n THEN n - k ELSE 0)
      /\ (IF k <= n THEN n - k ELSE 0) \in Nat
      /\ \A i \in 1..(IF k <= n THEN n - k ELSE 0) :
           i \in 1..((n - (k + 1)) + 1) /\ ((k + 1) + i) - 1 = k + i /\ k + i \in 1..n
  BY <1>1
<1> QED
  BY ONLY <1>3, <1>4 DEF n

\* A turn of the loop at the end of a record leaves it at the end of one.
LEMMA StepAtRecord ==
    ASSUME NEW s \in DurableSnapshot, NEW o, Blank(s, o),
           NEW off, Layout(Records(s), off, Payload(s)),
           NEW p, Damaged(p, Payload(s)), Len(p) <= Len(Payload(s)),
           NEW l, NEW d, AtRecord(s, o, off, d)
    PROVE  AtRecord(s, o, off, Step(p, l, d))
<1> DEFINE P == Payload(s)
           V == Len(Values(s))
           k == d.parsed
           c == SubSeq(p, d.offset + 1, Len(p))
           length == Number(c[3])
           value == SubSeq(c, RecordHeaderSize + 1, RecordHeaderSize + length)
           x == Parse(Number(c[2]), value, l, d.out)
<1>1. /\ V \in Nat /\ P \in Seq(Cell) /\ Len(P) \in Nat /\ Len(Records(s)) = V
  BY PayloadLayout
<1>2. k \in 0..V /\ d.offset = off[k] /\ d.out = Before(s, o, k)
  BY DEF AtRecord
<1>3. off[k] \in Nat /\ off[V] = Len(P)
  BY <1>1, <1>2 DEF Layout
<1>4. p \in Seq(Cell) /\ Len(p) \in Nat
  BY DEF Damaged
<1>5. /\ c \in Seq(Cell) /\ Len(c) \in Nat /\ Len(c) = (IF off[k] <= Len(p) THEN Len(p) - off[k] ELSE 0)
      /\ \A i \in 1..Len(c) : off[k] + i \in 1..Len(p) /\ c[i] = p[off[k] + i]
  <2>1. c = SubSeq(p, off[k] + 1, Len(p))
    BY <1>2
  <2> HIDE DEF c
  <2> QED
    BY ONLY <1>3, <1>4, <2>1, RestOfPayload
<1>6. Step(p, l, d) =
        IF d.done \/ Len(c) < RecordHeaderSize THEN [d EXCEPT !.done = TRUE]
        ELSE IF length > l.record THEN [d EXCEPT !.failed = TRUE, !.done = TRUE]
        ELSE IF RecordHeaderSize + length > Len(c)
             THEN [d EXCEPT !.truncated = TRUE, !.failed = TRUE, !.done = TRUE]
        ELSE IF ~RecordIntact(c, value)
             THEN [d EXCEPT !.failed = TRUE, !.rejected = d.rejected + 1, !.done = TRUE]
        ELSE Taken(d, length, x)
  BY DEF Step, Turn
<1> HIDE DEF P, V, c, length, value, x
<1>7. ASSUME ~(Len(c) < RecordHeaderSize), ~(RecordHeaderSize + length > Len(c)), RecordIntact(c, value)
      PROVE  AtRecord(s, o, off, Taken(d, length, x))
  <2> DEFINE r == Values(s)[k + 1]
             n == Len(r.value)
             z == off[k]
  <2>1. Len(c) >= 3 /\ RecordHeaderSize = 3 /\ z + 3 <= Len(p)
    BY <1>3, <1>4, <1>5, <1>7 DEF RecordHeaderSize
  <2>2. k # V
    <3>1. Len(p) <= Len(P)
      BY DEF P
    <3> QED
      BY <1>1, <1>3, <1>4, <2>1, <3>1
  <2>3. k + 1 \in 1..V /\ (k + 1) - 1 = k
    BY <1>1, <1>2, <2>2
  <2>4. /\ r \in RecordSet /\ n \in Nat /\ off[k + 1] = z + 3 + n /\ off[k + 1] <= Len(P)
        /\ P[z + 1] = Checksum(Covered(r)) /\ P[z + 2] = U(r.type) /\ P[z + 3] = U(n)
        /\ \A j \in 1..n : P[z + 3 + j] = r.value[j]
    <3>1. k + 1 \in 1..Len(Values(s))
      BY <2>3 DEF V
    <3> DEFINE m == k + 1
    <3>2. m \in 1..Len(Values(s)) /\ m - 1 = k /\ r = Values(s)[m]
      BY <2>3, <3>1
    <3> HIDE DEF r, m
    <3>3. RecordFound(s, off, m, r)
      BY <3>2, RecordInPayload
    <3> QED
      BY ONLY <3>2, <3>3 DEF P, m, RecordFound
  <2>5. \A i \in 1..Len(c) : c[i] = P[z + i] \/ c[i] \in Single
    BY <1>5 DEF Damaged, P
  <2> HIDE DEF r, n, z
  <2>6. 1 \in 1..Len(c) /\ 2 \in 1..Len(c) /\ 3 \in 1..Len(c)
    BY <1>5, <2>1
  <2>7. /\ U(r.type) \in Single /\ U(n) \in Single /\ r.value \in Seq(Single)
    BY <2>4, SingleCell DEF RecordSet
  <2>8. c[1] \in Cell /\ c[2] \in Single /\ c[3] \in Single
    BY <1>5, <2>4, <2>5, <2>6, <2>7
  <2>9. length \in Nat /\ c[2] \in Cell /\ c[3] \in Cell
    BY <2>8, SingleCell DEF length
  <2>10. /\ value \in Seq(Cell) /\ Len(value) = length
         /\ \A j \in 1..length : 3 + j \in 1..Len(c) /\ value[j] = c[3 + j]
    <3>1. 3 + length <= Len(c)
      BY <1>5, <1>7, <2>1, <2>9
    <3>2. \A i \in (3 + 1)..(3 + length) : c[i] \in Cell
      BY <1>5, <2>9, <3>1, ElementOfSeq
    <3>3. 3 + 1 \in Int /\ 3 + length \in Int
      BY <2>9
    <3>4. value = SubSeq(c, 3 + 1, 3 + length)
      BY <2>1 DEF value
    <3> HIDE DEF length
    <3>5. /\ value \in Seq(Cell)
          /\ Len(value) = (IF 3 + 1 <= 3 + length THEN ((3 + length) - (3 + 1)) + 1 ELSE 0)
          /\ \A i \in 1..(((3 + length) - (3 + 1)) + 1) : value[i] = c[((3 + 1) + i) - 1]
      BY ONLY <3>2, <3>3, <3>4, SubSeqProperties
    <3>6. /\ (IF 3 + 1 <= 3 + length THEN ((3 + length) - (3 + 1)) + 1 ELSE 0) = length
          /\ \A j \in 1..length : /\ j \in 1..(((3 + length) - (3 + 1)) + 1)
                                  /\ ((3 + 1) + j) - 1 = 3 + j /\ 3 + j \in 1..Len(c)
      BY <1>5, <2>9, <3>1
    <3> QED
      BY ONLY <3>5, <3>6
  <2> DEFINE y == <<c[2], c[3]>> \o value
             q == Covered(r)
  <2>11. /\ y \in Seq(Cell) /\ Len(y) = 2 + length /\ y[1] = c[2] /\ y[2] = c[3]
         /\ \A j \in 1..length : y[2 + j] = value[j]
    <3>1. /\ y \in Seq(Cell) /\ Len(y) = 2 + Len(value) /\ y[1] = c[2] /\ y[2] = c[3]
          /\ \A j \in 1..Len(value) : y[2 + j] = value[j]
      BY <2>9, <2>10, PrefixAndValue
    <3> HIDE DEF y
    <3> QED
      BY ONLY <2>10, <3>1
  <2>12. /\ q \in Seq(Single) /\ Len(q) = 2 + n /\ q[1] = U(r.type) /\ q[2] = U(n)
         /\ \A j \in 1..n : q[2 + j] = r.value[j]
    BY <2>4, CoveredCells DEF n
  <2>13. q \in Seq(Cell)
    BY <2>12, SinglesAreCells
  <2>14. c[1] = Checksum(y)
    BY <1>7 DEF RecordIntact
  <2> HIDE DEF y, q
  \* The checksum of a record is not a number, so it is the one written.
  <2>15. Checksum(y) = Checksum(q)
    <3>1. Checksum(y) \notin Single
      BY <2>11, ChecksumIs
    <3>2. c[1] = P[z + 1]
      BY <2>5, <2>6, <2>14, <3>1
    <3> QED
      BY ONLY <2>4, <2>14, <3>2 DEF q
  <2>16. c[2] = U(r.type) /\ c[3] = U(n)
    <3>1. 2 \in 0..Len(y) /\ 2 \in 0..Len(q)
      BY <2>4, <2>9, <2>11, <2>12
    <3>2. \A i \in 1..2 : y[i] \in Single /\ q[i] \in Single
      <4>1. \A i \in 1..2 : i = 1 \/ i = 2
        OBVIOUS
      <4>2. q[1] \in Single /\ q[2] \in Single
        BY ONLY <2>7, <2>12
      <4>3. y[1] \in Single /\ y[2] \in Single
        BY ONLY <2>8, <2>11
      <4> QED
        BY ONLY <4>1, <4>2, <4>3
    <3>3. \A i \in 1..2 : y[i] = q[i]
      BY <2>11, <2>13, <2>15, <3>1, <3>2, SameCells
    <3>4. 1 \in 1..2 /\ 2 \in 1..2
      OBVIOUS
    <3> QED
      BY ONLY <2>11, <2>12, <3>3, <3>4
  <2>17. length = n /\ Number(c[2]) = r.type
    BY <2>16, SingleCell DEF length
  <2>18. \A j \in 1..n : value[j] \in Single
    <3> SUFFICES ASSUME NEW j \in 1..n PROVE value[j] \in Single
      OBVIOUS
    <3>1. 3 + j \in 1..Len(c) /\ value[j] = c[3 + j]
      BY <2>10, <2>17
    <3>2. z \in Nat /\ z + (3 + j) = z + 3 + j
      BY <1>3 DEF z
    <3>3. P[z + (3 + j)] = r.value[j]
      BY ONLY <2>4, <3>2
    <3>4. r.value[j] \in Single
      BY <2>7 DEF n
    <3> QED
      BY ONLY <2>5, <3>1, <3>3, <3>4
  <2>19. value = r.value
    <3>1. 2 + n \in 0..Len(y) /\ 2 + n \in 0..Len(q)
      BY <2>4, <2>11, <2>12, <2>17
    <3>2. \A i \in 1..(2 + n) : i = 1 \/ i = 2 \/ (i - 2 \in 1..n /\ 2 + (i - 2) = i)
      BY <2>4
    <3>3. \A i \in 1..(2 + n) : q[i] \in Single
      BY <2>12, ElementOfSeq
    <3>4. \A i \in 1..(2 + n) : y[i] \in Single
      <4>1. \A j \in 1..n : y[2 + j] \in Single
        BY ONLY <2>11, <2>17, <2>18
      <4>2. y[1] \in Single /\ y[2] \in Single
        BY ONLY <2>8, <2>11
      <4> SUFFICES ASSUME NEW i \in 1..(2 + n) PROVE y[i] \in Single
        OBVIOUS
      <4>3. CASE i - 2 \in 1..n /\ 2 + (i - 2) = i
        <5>1. y[2 + (i - 2)] \in Single
          BY ONLY <4>1, <4>3
        <5> QED
          BY ONLY <4>3, <5>1
      <4> QED
        BY <3>2, <4>2, <4>3
    <3>5. \A i \in 1..(2 + n) : y[i] = q[i]
      BY <2>11, <2>13, <2>15, <3>1, <3>3, <3>4, SameCells
    <3>6. \A j \in 1..n : value[j] = r.value[j]
      <4>1. \A j \in 1..n : 2 + j \in 1..(2 + n)
        BY <2>4
      <4> QED
        BY ONLY <2>11, <2>12, <2>17, <3>5, <4>1
    <3>7. r.value \in Seq(Cell) /\ Len(r.value) = n
      BY <2>7, SinglesAreCells DEF n
    <3>8. Len(value) = n
      BY ONLY <2>10, <2>17
    <3> QED
      BY ONLY <2>10, <3>6, <3>7, <3>8, SeqEqual
  <2>20. Adds(x, s, l, Before(s, o, k), Before(s, o, k + 1))
    <3>1. k + 1 \in 1..Len(Values(s))
      BY <2>3 DEF V
    <3>2. Adds(Parse(r.type, r.value, l, Before(s, o, (k + 1) - 1)), s, l,
               Before(s, o, (k + 1) - 1), Before(s, o, k + 1))
      BY <3>1, ParseNext DEF r
    <3>3. x = Parse(r.type, r.value, l, Before(s, o, k))
      BY <1>2, <2>17, <2>19 DEF x
    <3> QED
      BY ONLY <2>3, <3>2, <3>3
  <2> QED
    <3>1. Len(Values(s)) \in Nat /\ d.parsed # Len(Values(s))
      BY <1>1, <2>2 DEF V
    <3>2. off[d.parsed] \in Nat /\ off[d.parsed + 1] = off[d.parsed] + 3 + length
      BY <1>3, <2>4, <2>17 DEF z
    <3> QED
      BY <2>9, <2>20, <3>1, <3>2, TakenAtRecord
<1> DEFINE e1 == [d EXCEPT !.done = TRUE]
           e2 == [d EXCEPT !.failed = TRUE, !.done = TRUE]
           e3 == [d EXCEPT !.truncated = TRUE, !.failed = TRUE, !.done = TRUE]
           e4 == [d EXCEPT !.failed = TRUE, !.rejected = d.rejected + 1, !.done = TRUE]
<1>8. /\ AtRecord(s, o, off, e1) /\ AtRecord(s, o, off, e2) /\ AtRecord(s, o, off, e3)
      /\ AtRecord(s, o, off, e4)
  BY EndedAtRecord
<1>9. Step(p, l, d) = IF d.done \/ Len(c) < RecordHeaderSize THEN e1
                      ELSE IF length > l.record THEN e2
                      ELSE IF RecordHeaderSize + length > Len(c) THEN e3
                      ELSE IF ~RecordIntact(c, value) THEN e4 ELSE Taken(d, length, x)
  BY <1>6
<1> HIDE DEF e1, e2, e3, e4
<1> QED
  BY ONLY <1>7, <1>8, <1>9

\* A turn of the loop over an untouched payload, by a reader that takes every
\* record: the next record is taken, until there is none.
LEMMA StepWhole ==
    ASSUME NEW s \in DurableSnapshot, NEW o, Blank(s, o),
           NEW off, Layout(Records(s), off, Payload(s)),
           NEW l, l.record \in Nat, Enough(s, l),
           \A i \in DOMAIN Values(s) : Len(Values(s)[i].value) <= l.record,
           NEW d, AtRecord(s, o, off, d)
    PROVE  /\ d.parsed # Len(Values(s)) /\ ~d.done =>
                Consumed(d, Step(Payload(s), l, d))
           /\ d.parsed = Len(Values(s)) => Idle(d, Step(Payload(s), l, d))
<1> DEFINE P == Payload(s)
           V == Len(Values(s))
           k == d.parsed
           c == SubSeq(P, d.offset + 1, Len(P))
           length == Number(c[3])
           value == SubSeq(c, RecordHeaderSize + 1, RecordHeaderSize + length)
           x == Parse(Number(c[2]), value, l, d.out)
<1>1. /\ V \in Nat /\ P \in Seq(Cell) /\ Len(P) \in Nat /\ Len(Records(s)) = V
  BY PayloadLayout
<1>2. k \in 0..V /\ d.offset = off[k] /\ d.out = Before(s, o, k)
  BY DEF AtRecord
<1>3. off[k] \in Nat /\ off[V] = Len(P)
  BY <1>1, <1>2 DEF Layout
<1>4. /\ c \in Seq(Cell) /\ Len(c) \in Nat /\ Len(c) = (IF off[k] <= Len(P) THEN Len(P) - off[k] ELSE 0)
      /\ \A i \in 1..Len(c) : off[k] + i \in 1..Len(P) /\ c[i] = P[off[k] + i]
  <2>1. c = SubSeq(P, off[k] + 1, Len(P))
    BY <1>2
  <2> DEFINE z == off[k]
  <2>2. P \in Seq(Cell)
    BY <1>1
  <2>3. z \in Nat
    BY <1>3
  <2>4. c = SubSeq(P, z + 1, Len(P))
    BY <2>1
  <2> HIDE DEF c, P, z
  <2>5. /\ c \in Seq(Cell) /\ Len(c) \in Nat /\ Len(c) = (IF z <= Len(P) THEN Len(P) - z ELSE 0)
        /\ \A i \in 1..Len(c) : z + i \in 1..Len(P) /\ c[i] = P[z + i]
    BY ONLY <2>2, <2>3, <2>4, RestOfPayload
  <2> QED
    BY ONLY <2>5 DEF z
<1>5. Step(P, l, d) =
        IF d.done \/ Len(c) < RecordHeaderSize THEN [d EXCEPT !.done = TRUE]
        ELSE IF length > l.record THEN [d EXCEPT !.failed = TRUE, !.done = TRUE]
        ELSE IF RecordHeaderSize + length > Len(c)
             THEN [d EXCEPT !.truncated = TRUE, !.failed = TRUE, !.done = TRUE]
        ELSE IF ~RecordIntact(c, value)
             THEN [d EXCEPT !.failed = TRUE, !.rejected = d.rejected + 1, !.done = TRUE]
        ELSE Taken(d, length, x)
  BY DEF Step, Turn
<1> HIDE DEF P, V, c, length, value, x
<1>6. ASSUME k = V PROVE Idle(d, Step(P, l, d))
  <2>1. Len(c) < RecordHeaderSize
    BY <1>1, <1>3, <1>4, <1>6 DEF RecordHeaderSize
  <2> DEFINE O == {Before(s, o, j) : j \in 0..Len(Values(s))}
             e == [d EXCEPT !.done = TRUE]
  <2>2. Step(P, l, d) = e
    BY <1>5, <2>1
  <2>3. d \in [offset : Nat, parsed : Nat, rejected : Nat, truncated : BOOLEAN,
               failed : BOOLEAN, done : BOOLEAN, out : O]
    BY DEF AtRecord, LoopState
  <2> HIDE DEF O
  <2>4. e.parsed = d.parsed /\ e.failed = d.failed /\ e.truncated = d.truncated
    BY ONLY <2>3
  <2> HIDE DEF e
  <2> QED
    BY ONLY <2>2, <2>4 DEF Idle
<1>7. ASSUME k # V, ~d.done
      PROVE  Consumed(d, Step(P, l, d))
  <2> DEFINE r == Values(s)[k + 1]
             n == Len(r.value)
             z == off[k]
             m == k + 1
  <2>1. m \in 1..Len(Values(s)) /\ m - 1 = k /\ r = Values(s)[m]
    BY <1>1, <1>2, <1>7 DEF V
  <2>2. n <= l.record
    <3>1. DOMAIN Values(s) = 1..Len(Values(s))
      BY SnapshotRecords
    <3> QED
      BY <2>1, <3>1
  <2> HIDE DEF r, m
  <2>3. RecordFound(s, off, m, r)
    BY <2>1, RecordInPayload
  <2>4. /\ r \in RecordSet /\ n \in Nat /\ z \in Nat /\ off[m] = z + 3 + n /\ off[m] <= Len(P)
        /\ P[z + 1] = Checksum(Covered(r)) /\ P[z + 2] = U(r.type) /\ P[z + 3] = U(n)
        /\ \A j \in 1..n : P[z + 3 + j] = r.value[j]
    BY ONLY <2>1, <2>3 DEF P, RecordFound
  <2> HIDE DEF n, z
  <2>5. Len(c) >= 3 + n
    <3>1. Len(c) = (IF z <= Len(P) THEN Len(P) - z ELSE 0)
      BY <1>4 DEF z
    <3> QED
      BY <1>1, <2>4, <3>1
  <2>6. \A i \in 1..Len(c) : c[i] = P[z + i]
    BY <1>4 DEF z
  <2>7. 1 \in 1..Len(c) /\ 2 \in 1..Len(c) /\ 3 \in 1..Len(c)
    BY <1>4, <2>4, <2>5
  <2>8. c[1] = Checksum(Covered(r)) /\ c[2] = U(r.type) /\ c[3] = U(n)
    BY ONLY <2>4, <2>6, <2>7
  <2>9. length = n /\ Number(c[2]) = r.type /\ RecordHeaderSize = 3
    BY <2>8, SingleCell DEF length, RecordHeaderSize
  <2>10. value = r.value
    <3> DEFINE w == SubSeq(c, 3 + 1, 3 + n)
    <3>1. value = w
      BY <2>9 DEF value
    <3>2. \A i \in (3 + 1)..(3 + n) : c[i] \in Cell
      BY <1>4, <2>4, <2>5, ElementOfSeq
    <3>3. 3 + 1 \in Int /\ 3 + n \in Int
      BY <2>4
    <3>4. /\ w \in Seq(Cell) /\ Len(w) = (IF 3 + 1 <= 3 + n THEN ((3 + n) - (3 + 1)) + 1 ELSE 0)
          /\ \A i \in 1..(((3 + n) - (3 + 1)) + 1) : w[i] = c[((3 + 1) + i) - 1]
      BY ONLY <3>2, <3>3, SubSeqProperties
    <3>5. /\ (IF 3 + 1 <= 3 + n THEN ((3 + n) - (3 + 1)) + 1 ELSE 0) = n
          /\ \A j \in 1..n : /\ j \in 1..(((3 + n) - (3 + 1)) + 1)
                             /\ ((3 + 1) + j) - 1 = 3 + j /\ 3 + j \in 1..Len(c)
                             /\ z + (3 + j) = z + 3 + j
      BY <1>4, <2>4, <2>5
    <3> HIDE DEF w
    <3>6. Len(w) = n
      BY ONLY <3>4, <3>5
    <3>7. \A j \in 1..n : w[j] = r.value[j]
      <4> SUFFICES ASSUME NEW j \in 1..n PROVE w[j] = r.value[j]
        OBVIOUS
      <4>1. w[j] = c[3 + j]
        BY ONLY <3>4, <3>5
      <4>2. c[3 + j] = P[z + (3 + j)]
        BY ONLY <2>6, <3>5
      <4>3. P[z + (3 + j)] = r.value[j]
        BY ONLY <2>4, <3>5
      <4> QED
        BY ONLY <4>1, <4>2, <4>3
    <3>8. r.value \in Seq(Cell) /\ Len(r.value) = n
      BY <2>4, SinglesAreCells DEF n, RecordSet
    <3> QED
      BY ONLY <3>1, <3>4, <3>6, <3>7, <3>8, SeqEqual
  <2>11. RecordIntact(c, value)
    BY ONLY <2>8, <2>10 DEF RecordIntact, Covered, n
  <2>12. x = Parse(r.type, r.value, l, Before(s, o, k))
    BY ONLY <1>2, <2>9, <2>10 DEF x
  <2>13. Adds(x, s, l, Before(s, o, k), Before(s, o, k + 1))
    <3>1. Adds(Parse(Values(s)[m].type, Values(s)[m].value, l, Before(s, o, m - 1)), s, l,
               Before(s, o, m - 1), Before(s, o, m))
      BY <2>1, ParseNext
    <3> QED
      BY ONLY <2>1, <2>12, <3>1 DEF m
  <2>14. x.ok
    BY <2>13 DEF Adds
  <2>15. Step(P, l, d) = Taken(d, length, x)
    <3>1. ~(Len(c) < RecordHeaderSize) /\ ~(length > l.record) /\ ~(RecordHeaderSize + length > Len(c))
      BY <1>4, <2>2, <2>4, <2>5, <2>9
    <3> QED
      BY <1>5, <1>7, <2>11, <3>1
  <2>16. Len(Values(s)) \in Nat /\ d.parsed # Len(Values(s))
    BY <1>1, <1>7 DEF V
  <2>17. off[d.parsed] \in Nat /\ off[d.parsed + 1] = off[d.parsed] + 3 + n
    BY ONLY <1>3, <2>4 DEF z, m
  <2>18. Consumed(d, Taken(d, n, x))
    <3>1. n \in Nat
      BY <2>4
    <3>2. AtRecord(s, o, off, d)
      OBVIOUS
    <3> QED
      BY ONLY <2>13, <2>14, <2>16, <2>17, <3>1, <3>2, TakenAtRecord
  <2> QED
    BY ONLY <2>9, <2>15, <2>18
<1> QED
  BY <1>6, <1>7 DEF P, V

\* How decode_snapshot goes through the records.
Turns(p, l, start, g) == [i \in 0..Len(p) |-> IF i = 0 THEN start ELSE Step(p, l, g[i - 1])]

LEMMA LoopExists ==
    ASSUME NEW S, NEW p \in Seq(S), NEW l, NEW start
    PROVE  \E g : g = Turns(p, l, start, g)
<1> DEFINE D == 0..Len(p)
           Right(g, n) == \A i \in D : i <= n => g[i] = Turns(p, l, start, g)[i]
           T == {n \in Nat : \E g : Right(g, n)}
<1>0. Len(p) \in Nat
  OBVIOUS
<1>1. 0 \in T
  <2> DEFINE g == [i \in D |-> start]
  <2>1. ASSUME NEW i \in D, i <= 0 PROVE g[i] = Turns(p, l, start, g)[i]
    <3>1. i = 0
      BY <1>0, <2>1
    <3>2. Turns(p, l, start, g)[0] = start /\ g[0] = start
      BY <1>0 DEF Turns
    <3> HIDE DEF g
    <3> QED
      BY <3>1, <3>2
  <2> HIDE DEF g
  <2> QED
    BY <2>1
<1>2. ASSUME NEW n \in T PROVE n + 1 \in T
  <2>1. PICK g : Right(g, n)
    OBVIOUS
  <2> DEFINE h == Turns(p, l, start, g)
  <2>2. ASSUME NEW i \in D, i <= n + 1 PROVE h[i] = Turns(p, l, start, h)[i]
    <3>1. CASE i = 0
      BY <3>1 DEF Turns
    <3>2. CASE i # 0
      <4>1. i - 1 \in D /\ i - 1 <= n
        BY <1>0, <2>2, <3>2
      <4>2. g[i - 1] = h[i - 1]
        BY <2>1, <4>1
      <4>3. h[i] = Step(p, l, g[i - 1])
        BY <3>2 DEF Turns
      <4> HIDE DEF h
      <4>4. Turns(p, l, start, h)[i] = Step(p, l, h[i - 1])
        BY <3>2 DEF Turns
      <4> QED
        BY <4>2, <4>3, <4>4
    <3> QED
      BY <3>1, <3>2
  <2> HIDE DEF h
  <2>3. Right(h, n + 1)
    BY <2>2
  <2>4. n + 1 \in Nat
    OBVIOUS
  <2> HIDE DEF Right
  <2> QED
    BY <2>3, <2>4
<1>3. T = Nat
  <2>1. T \subseteq Nat
    OBVIOUS
  <2> HIDE DEF T
  <2> QED
    BY <1>1, <1>2, <2>1, EveryNumber
<1>4. PICK g : Right(g, Len(p))
  <2>1. Len(p) \in T
    BY <1>0, <1>3
  <2> QED
    BY <2>1
<1> DEFINE h == Turns(p, l, start, g)
<1>5. \A i \in D : g[i] = h[i]
  BY <1>0, <1>4
<1>6. h = Turns(p, l, start, h)
  <2>1. \A i \in D : i # 0 => i - 1 \in D
    BY <1>0
  <2>2. \A i \in D : i # 0 => g[i - 1] = h[i - 1]
    BY <1>5, <2>1
  <2>3. h = [i \in D |-> IF i = 0 THEN start ELSE Step(p, l, g[i - 1])]
    BY DEF Turns
  <2> HIDE DEF h
  <2> QED
    BY <2>2, <2>3 DEF Turns
<1> QED
  BY <1>6

-----------------------------------------------------------------------------
(* The segment *)

\* The header, with this in the place of its checksum.
HeaderWith(s, crc) ==
    <<Magic, U(Version), U(HeaderSize), crc, U(s.policy), U(Len(s.runtime)), U(Len(Values(s))),
      U(Len(Payload(s))), Checksum(Payload(s))>>

LEMMA HeaderCells ==
    ASSUME NEW s \in DurableSnapshot, NEW crc \in Cell
    PROVE  /\ HeaderWith(s, crc) \in Seq(Cell) /\ Len(HeaderWith(s, crc)) = 9
           /\ HeaderWith(s, crc)[4] = crc
           /\ HeaderWith(s, crc)[5] = U(s.policy) /\ HeaderWith(s, crc)[6] = U(Len(s.runtime))
           /\ HeaderWith(s, crc)[7] = U(Len(Values(s)))
           /\ HeaderWith(s, crc)[8] = U(Len(Payload(s)))
           /\ HeaderWith(s, crc)[9] = Checksum(Payload(s))
           /\ HeaderWith(s, crc)[1] = Magic /\ HeaderWith(s, crc)[2] = U(Version)
           /\ HeaderWith(s, crc)[3] = U(HeaderSize)
           /\ \A i \in 1..8 : i # 4 => HeaderWith(s, crc)[i] \in Single
<1> DEFINE a == U(Version)
           b == U(HeaderSize)
           p == U(s.policy)
           r == U(Len(s.runtime))
           v == U(Len(Values(s)))
           q == U(Len(Payload(s)))
           k == Checksum(Payload(s))
           h == <<Magic, a, b, crc, p, r, v, q, k>>
<1>1. s.policy \in Nat /\ Len(s.runtime) \in Nat
  BY DEF DurableSnapshot
<1>2. Len(Values(s)) \in Nat /\ Payload(s) \in Seq(Cell)
  BY PayloadLayout
<1>3. Len(Payload(s)) \in Nat
  BY <1>2
<1>4. a \in Single /\ b \in Single /\ p \in Single /\ r \in Single /\ v \in Single /\ q \in Single
  BY <1>1, <1>2, <1>3, SingleCell DEF Version, HeaderSize
<1>5. Magic \in Single
  <2>1. Magic = U(77)
    BY DEF Magic, U
  <2> QED
    BY <2>1, SingleCell
<1>6. k \in Cell
  BY <1>2, ChecksumIs
<1>7. HeaderWith(s, crc) = h
  BY DEF HeaderWith
<1> HIDE DEF a, b, p, r, v, q, k
<1>8. Magic \in Cell /\ a \in Cell /\ b \in Cell /\ p \in Cell /\ r \in Cell /\ v \in Cell /\ q \in Cell
  BY <1>4, <1>5, SingleCell
<1>9. h \in Seq(Cell)
  BY ONLY <1>6, <1>8, crc \in Cell
<1>10. Len(h) = 9 /\ h[1] = Magic /\ h[2] = a /\ h[3] = b /\ h[4] = crc /\ h[5] = p /\ h[6] = r
       /\ h[7] = v /\ h[8] = q /\ h[9] = k
  OBVIOUS
<1> HIDE DEF h
<1>11. \A i \in 1..8 : i # 4 => h[i] \in Single
  <2>1. \A i \in 1..8 : i = 1 \/ i = 2 \/ i = 3 \/ i = 4 \/ i = 5 \/ i = 6 \/ i = 7 \/ i = 8
    OBVIOUS
  <2> QED
    BY ONLY <1>4, <1>5, <1>10, <2>1
<1> QED
  BY ONLY <1>7, <1>9, <1>10, <1>11 DEF a, b, p, r, v, q, k

\* What encode_snapshot writes, cell by cell.
Written(s, e) ==
    /\ e \in Seq(Cell) /\ Len(e) = 9 + Len(s.runtime) + Len(Payload(s))
    /\ e[4] = Checksum(HeaderWith(s, U(0)))
    /\ \A i \in 1..9 : i # 4 => e[i] = HeaderWith(s, U(0))[i]
    /\ \A i \in 1..Len(s.runtime) : e[9 + i] = U(s.runtime[i])
    /\ \A i \in 1..Len(Payload(s)) : e[9 + Len(s.runtime) + i] = Payload(s)[i]

LEMMA EncodeWrites ==
    ASSUME NEW s \in DurableSnapshot
    PROVE  Written(s, Encode(s))
<1> DEFINE z == HeaderWith(s, U(0))
           k == Checksum(z)
           h == HeaderWith(s, k)
           R == Len(s.runtime)
           r == [i \in DOMAIN s.runtime |-> U(s.runtime[i])]
           P == Payload(s)
           a == h \o r
           e == a \o P
<1>1. U(0) \in Cell
  BY SingleCell
<1>2. z \in Seq(Cell) /\ k \in Cell
  BY <1>1, HeaderCells, ChecksumIs
<1>3. h \in Seq(Cell) /\ Len(h) = 9 /\ h[4] = k
  BY <1>2, HeaderCells
<1>4. \A i \in 1..9 : i # 4 => h[i] = z[i]
  <2>1. \A i \in 1..9 : i = 1 \/ i = 2 \/ i = 3 \/ i = 4 \/ i = 5 \/ i = 6 \/ i = 7 \/ i = 8 \/ i = 9
    OBVIOUS
  <2>2. k \in Cell
    BY <1>2
  <2> HIDE DEF k
  <2>3. /\ h[1] = z[1] /\ h[2] = z[2] /\ h[3] = z[3] /\ h[5] = z[5] /\ h[6] = z[6] /\ h[7] = z[7]
        /\ h[8] = z[8] /\ h[9] = z[9]
    BY <1>1, <2>2, HeaderCells
  <2> HIDE DEF h, z
  <2> QED
    BY ONLY <2>1, <2>3
<1>5. r \in Seq(Cell) /\ Len(r) = R /\ R \in Nat /\ \A i \in 1..R : r[i] = U(s.runtime[i])
  <2>1. s.runtime \in Seq(Nat)
    BY DEF DurableSnapshot
  <2>2. R \in Nat /\ DOMAIN s.runtime = 1..R /\ \A i \in 1..R : s.runtime[i] \in Nat
    BY <2>1
  <2>3. r \in [1..R -> Cell] /\ \A i \in 1..R : r[i] = U(s.runtime[i])
    <3>1. \A i \in 1..R : U(s.runtime[i]) \in Cell
      BY <2>2, SingleCell
    <3> QED
      BY <2>2, <3>1
  <2> HIDE DEF r, R
  <2> QED
    BY <2>2, <2>3, FunctionIsSequence
<1>6. P \in Seq(Cell) /\ Len(P) \in Nat
  BY PayloadLayout
<1>7. Encode(s) = e
  BY DEF Encode, Header, HeaderWith
<1> HIDE DEF h, r, P, z, k, R
<1>8. /\ a \in Seq(Cell) /\ Len(a) = Len(h) + Len(r)
      /\ \A i \in 1..Len(h) : a[i] = h[i]
      /\ \A j \in 1..Len(r) : a[Len(h) + j] = r[j]
  <2>1. h \in Seq(Cell) /\ r \in Seq(Cell)
    BY <1>3, <1>5
  <2> QED
    BY ONLY <2>1, JoinAt
<1> HIDE DEF a
<1>9. /\ e \in Seq(Cell) /\ Len(e) = Len(a) + Len(P)
      /\ \A i \in 1..Len(a) : e[i] = a[i]
      /\ \A j \in 1..Len(P) : e[Len(a) + j] = P[j]
  <2>1. a \in Seq(Cell) /\ P \in Seq(Cell)
    BY <1>6, <1>8
  <2> QED
    BY ONLY <2>1, JoinAt
<1> HIDE DEF e
<1>10. Len(a) = 9 + R /\ Len(e) = 9 + R + Len(P)
  BY ONLY <1>3, <1>5, <1>6, <1>8, <1>9
<1>11. \A i \in 1..9 : i \in 1..Len(a) /\ i \in 1..Len(h)
  BY ONLY <1>3, <1>5, <1>10
<1>12. \A i \in 1..9 : e[i] = h[i]
  BY ONLY <1>8, <1>9, <1>11
<1>13. e[4] = k /\ \A i \in 1..9 : i # 4 => e[i] = z[i]
  BY ONLY <1>3, <1>4, <1>12
<1>14. \A i \in 1..R : e[9 + i] = r[i]
  <2>1. \A i \in 1..R : i \in 1..Len(r) /\ 9 + i \in 1..Len(a) /\ Len(h) + i = 9 + i
    BY ONLY <1>3, <1>5, <1>10
  <2> QED
    BY ONLY <1>8, <1>9, <2>1
<1>15. \A i \in 1..Len(P) : e[9 + R + i] = P[i]
  BY ONLY <1>9, <1>10
<1> QED
  BY ONLY <1>5, <1>7, <1>9, <1>10, <1>13, <1>14, <1>15 DEF Written, P, R, k, z

\* The header as its checksum covers it.
Zeroed(c) == SubSeq(c, 1, 3) \o <<U(0)>> \o SubSeq(c, 5, 9)

LEMMA ZeroedCells ==
    ASSUME NEW c \in Seq(Cell), Len(c) >= 9
    PROVE  /\ Zeroed(c) \in Seq(Cell) /\ Len(Zeroed(c)) = 9 /\ Zeroed(c)[4] = U(0)
           /\ \A i \in 1..9 : i # 4 => Zeroed(c)[i] = c[i]
<1> DEFINE a == SubSeq(c, 1, 3)
           m == <<U(0)>>
           b == SubSeq(c, 5, 9)
           am == a \o m
           y == am \o b
<1>0. Len(c) \in Nat /\ c \in Seq(Cell) /\ Len(c) >= 9
  OBVIOUS
<1>11. U(0) \in Cell
  BY SingleCell
<1>12. Zeroed(c) = y
  BY DEF Zeroed
<1>1. \A i \in 1..9 : i \in 1..Len(c) /\ c[i] \in Cell
  BY <1>0, <1>0
<1>2. /\ a \in Seq(Cell) /\ Len(a) = 3 /\ \A i \in 1..3 : a[i] = c[i]
  <2>1. \A i \in 1..3 : c[i] \in Cell
    BY <1>1
  <2>2. /\ a \in Seq(Cell) /\ Len(a) = (IF 1 <= 3 THEN (3 - 1) + 1 ELSE 0)
        /\ \A i \in 1..((3 - 1) + 1) : a[i] = c[(1 + i) - 1]
    BY ONLY <2>1, SubSeqProperties
  <2> HIDE DEF a
  <2> QED
    BY ONLY <2>2
<1>3. /\ b \in Seq(Cell) /\ Len(b) = 5 /\ \A i \in 1..5 : b[i] = c[4 + i]
  <2>1. \A i \in 5..9 : c[i] \in Cell
    BY <1>1
  <2>2. /\ b \in Seq(Cell) /\ Len(b) = (IF 5 <= 9 THEN (9 - 5) + 1 ELSE 0)
        /\ \A i \in 1..((9 - 5) + 1) : b[i] = c[(5 + i) - 1]
    BY ONLY <2>1, SubSeqProperties
  <2> HIDE DEF b
  <2> QED
    BY ONLY <2>2
<1>4. m \in Seq(Cell) /\ Len(m) = 1 /\ m[1] = U(0)
  BY <1>11
<1> HIDE DEF a, m, b
<1>5. /\ am \in Seq(Cell) /\ Len(am) = Len(a) + Len(m)
       /\ \A i \in 1..Len(a) : am[i] = a[i]
       /\ \A j \in 1..Len(m) : am[Len(a) + j] = m[j]
  <2>1. a \in Seq(Cell) /\ m \in Seq(Cell)
    BY <1>2, <1>4
  <2> QED
    BY ONLY <2>1, JoinAt
<1>6. Len(am) = 4 /\ am[4] = U(0) /\ \A i \in 1..3 : am[i] = c[i]
  <2> HIDE DEF am
  <2>1. 1 \in 1..Len(m) /\ Len(a) + 1 = 4
    BY ONLY <1>2, <1>4
  <2>2. Len(am) = 4
    BY ONLY <1>2, <1>4, <1>5
  <2>3. am[4] = U(0)
    BY ONLY <1>4, <1>5, <2>1
  <2>4. \A i \in 1..3 : am[i] = c[i]
    BY ONLY <1>2, <1>5
  <2> QED
    BY ONLY <2>2, <2>3, <2>4
<1> HIDE DEF am
<1>7. /\ y \in Seq(Cell) /\ Len(y) = Len(am) + Len(b)
       /\ \A i \in 1..Len(am) : y[i] = am[i]
       /\ \A j \in 1..Len(b) : y[Len(am) + j] = b[j]
  <2>1. am \in Seq(Cell) /\ b \in Seq(Cell)
    BY <1>3, <1>5
  <2> QED
    BY ONLY <2>1, JoinAt
<1> HIDE DEF y
<1>8. Len(y) = 9
  BY ONLY <1>3, <1>6, <1>7
<1>9. y[1] = c[1] /\ y[2] = c[2] /\ y[3] = c[3] /\ y[4] = U(0)
  <2>1. 1 \in 1..3 /\ 2 \in 1..3 /\ 3 \in 1..3
    OBVIOUS
  <2>2. 1 \in 1..Len(am) /\ 2 \in 1..Len(am) /\ 3 \in 1..Len(am) /\ 4 \in 1..Len(am)
    BY ONLY <1>6
  <2> QED
    BY ONLY <1>6, <1>7, <2>1, <2>2
<1>10. y[5] = c[5] /\ y[6] = c[6] /\ y[7] = c[7] /\ y[8] = c[8]
  <2>1. \A j \in 1..5 : y[4 + j] = c[4 + j]
    BY ONLY <1>3, <1>6, <1>7
  <2>2. 1 \in 1..5 /\ 2 \in 1..5 /\ 3 \in 1..5 /\ 4 \in 1..5
        /\ 4 + 1 = 5 /\ 4 + 2 = 6 /\ 4 + 3 = 7 /\ 4 + 4 = 8
    OBVIOUS
  <2> QED
    BY ONLY <2>1, <2>2
<1>13. y[9] = c[9]
  <2>1. \A j \in 1..5 : y[4 + j] = c[4 + j]
    BY ONLY <1>3, <1>6, <1>7
  <2>2. 5 \in 1..5 /\ 4 + 5 = 9
    OBVIOUS
  <2> QED
    BY ONLY <2>1, <2>2
<1>14. \A i \in 1..9 : i = 1 \/ i = 2 \/ i = 3 \/ i = 4 \/ i = 5 \/ i = 6 \/ i = 7 \/ i = 8 \/ i = 9
  OBVIOUS
<1>15. \A i \in 1..9 : i # 4 => y[i] = c[i]
  BY ONLY <1>9, <1>10, <1>13, <1>14
<1> QED
  BY ONLY <1>7, <1>8, <1>9, <1>12, <1>15

\* A header that passes its checksum has the policy, the lengths and the count
\* that were written.
HeaderKept(s, c) ==
    /\ c \in Seq(Cell) /\ Len(c) \in Nat /\ Len(c) >= 9
    /\ Number(c[5]) = s.policy /\ Number(c[6]) = Len(s.runtime)
    /\ Number(c[7]) = Len(Values(s)) /\ Number(c[8]) = Len(Payload(s))

LEMMA HeaderSurvives ==
    ASSUME NEW s \in DurableSnapshot, NEW c, Damaged(c, Encode(s)), HeaderValid(c)
    PROVE  HeaderKept(s, c)
<1> DEFINE e == Encode(s)
           z == HeaderWith(s, U(0))
           y == Zeroed(c)
<1>1. c \in Seq(Cell) /\ \A i \in 1..Len(c) : (i <= Len(e) /\ c[i] = e[i]) \/ c[i] \in Single
  BY DEF Damaged
<1>2. Len(c) \in Nat /\ Len(c) >= 9 /\ c[4] = Checksum(y)
  BY <1>1 DEF HeaderValid, HeaderSize, Zeroed
<1>3. Written(s, e)
  BY EncodeWrites
<1>4. U(0) \in Cell
  BY SingleCell
<1>5. z \in Seq(Cell) /\ Len(z) = 9 /\ \A i \in 1..8 : i # 4 => z[i] \in Single
  BY <1>4, HeaderCells
<1>6. z[4] = U(0) /\ z[5] = U(s.policy) /\ z[6] = U(Len(s.runtime)) /\ z[7] = U(Len(Values(s)))
      /\ z[8] = U(Len(Payload(s)))
  BY <1>4, HeaderCells
<1> HIDE DEF e, z, y
<1>7. e[4] = Checksum(z) /\ \A i \in 1..9 : i # 4 => e[i] = z[i]
  BY <1>3 DEF Written, z
<1>8. ASSUME NEW i \in 1..8, i # 4 PROVE c[i] \in Single
  <2>1. i \in 1..Len(c) /\ i \in 1..9
    BY <1>2
  <2>2. e[i] \in Single
    BY <1>5, <1>7, <1>8, <2>1
  <2> QED
    BY <1>1, <2>1, <2>2
<1>9. y \in Seq(Cell) /\ Len(y) = 9 /\ y[4] = U(0) /\ \A i \in 1..9 : i # 4 => y[i] = c[i]
  BY <1>1, <1>2, ZeroedCells DEF y
<1>10. \A i \in 1..8 : y[i] \in Single /\ z[i] \in Single
  <2>1. \A i \in 1..8 : i = 1 \/ i = 2 \/ i = 3 \/ i = 4 \/ i = 5 \/ i = 6 \/ i = 7 \/ i = 8
    OBVIOUS
  <2>2. U(0) \in Single
    BY SingleCell
  <2>3. \A i \in 1..8 : i \in 1..9
    OBVIOUS
  <2> QED
    BY ONLY <1>5, <1>6, <1>8, <1>9, <2>1, <2>2, <2>3
\* The medium leaves single numbers, so the checksum is the one that was written.
<1>11. Checksum(y) = Checksum(z)
  <2>1. Checksum(y) \notin Single
    BY <1>9, ChecksumIs
  <2>2. 4 \in 1..Len(c)
    BY <1>2
  <2> QED
    BY <1>1, <1>2, <1>7, <2>1, <2>2
<1>12. \A i \in 1..8 : y[i] = z[i]
  <2>1. 8 \in 0..Len(y) /\ 8 \in 0..Len(z)
    BY <1>5, <1>9
  <2>2. y \in Seq(Cell) /\ z \in Seq(Cell)
    BY <1>5, <1>9
  <2>3. \A i \in 1..8 : y[i] \in Single
    BY <1>10
  <2>4. \A i \in 1..8 : z[i] \in Single
    BY <1>10
  <2> QED
    BY ONLY <1>11, <2>1, <2>2, <2>3, <2>4, SameCells
<1>13. c[5] = U(s.policy) /\ c[6] = U(Len(s.runtime)) /\ c[7] = U(Len(Values(s)))
       /\ c[8] = U(Len(Payload(s)))
  <2>1. /\ 5 \in 1..8 /\ 6 \in 1..8 /\ 7 \in 1..8 /\ 8 \in 1..8
        /\ 5 \in 1..9 /\ 6 \in 1..9 /\ 7 \in 1..9 /\ 8 \in 1..9
    OBVIOUS
  <2> QED
    BY ONLY <1>6, <1>9, <1>12, <2>1
<1> QED
  BY <1>1, <1>2, <1>13, SingleCell DEF HeaderKept

\* The local definitions of Decode.
Body(c) == SubSeq(c, HeaderSize + Number(c[6]) + 1, Len(c))
Short(c) == Number(c[8]) > Len(Body(c))
ReadPayload(c) == IF Short(c) THEN Body(c) ELSE SubSeq(Body(c), 1, Number(c[8]))
StartOut(c) ==
    [NoSnapshot EXCEPT !.policy = Number(c[5]), !.runtime =
       [i \in 1..Number(c[6]) |-> Number(c[HeaderSize + i])]]
Start(c) ==
    [offset |-> 0, parsed |-> 0, rejected |-> 0, truncated |-> Short(c),
     failed |-> Short(c) \/ ~(c[9] = Checksum(ReadPayload(c))), done |-> FALSE, out |-> StartOut(c)]
Loop(c, l) == CHOOSE g : g = Turns(ReadPayload(c), l, Start(c), g)

LEMMA DecodeIs ==
    ASSUME NEW c, NEW l
    PROVE  Decode(c, l) =
             IF ~HeaderValid(c) THEN Refused
             ELSE IF HeaderSize + Number(c[6]) > Len(c)
                  THEN [Refused EXCEPT !.ok = TRUE, !.truncated = TRUE]
             ELSE Report(Loop(c, l)[Len(ReadPayload(c))], Len(ReadPayload(c)), Number(c[7]))
BY DEF Decode, Loop, Turns, Start, StartOut, ReadPayload, Short, Body

\* The payload decode_snapshot goes through: what is left of the one that was
\* written.
LEMMA PayloadSurvives ==
    ASSUME NEW s \in DurableSnapshot, NEW c, Damaged(c, Encode(s)), HeaderKept(s, c),
           ~(HeaderSize + Number(c[6]) > Len(c))
    PROVE  /\ Damaged(ReadPayload(c), Payload(s)) /\ Len(ReadPayload(c)) <= Len(Payload(s))
           /\ ReadPayload(c) \in Seq(Cell) /\ Len(ReadPayload(c)) \in Nat
           /\ Len(c) = Len(Encode(s)) => ~Short(c) /\ Len(ReadPayload(c)) = Len(Payload(s))
           /\ \A i \in 1..Len(ReadPayload(c)) : ReadPayload(c)[i] = c[9 + Len(s.runtime) + i]
<1> DEFINE e == Encode(s)
           P == Payload(s)
           R == Len(s.runtime)
           k == 9 + R
           b == Body(c)
           p == ReadPayload(c)
<1>1. c \in Seq(Cell) /\ \A i \in 1..Len(c) : (i <= Len(e) /\ c[i] = e[i]) \/ c[i] \in Single
  BY DEF Damaged
<1>2. P \in Seq(Cell) /\ Len(P) \in Nat
  BY PayloadLayout
<1>3. R \in Nat
  BY DEF DurableSnapshot
<1>4. Len(e) = k + Len(P) /\ \A i \in 1..Len(P) : e[k + i] = P[i]
  BY EncodeWrites DEF Written
<1>5. Len(c) \in Nat /\ Number(c[6]) = R /\ Number(c[8]) = Len(P) /\ HeaderSize = 9
  BY DEF HeaderKept, HeaderSize
<1>6. k <= Len(c) /\ k \in Nat
  BY <1>3, <1>5
<1>7. b = SubSeq(c, k + 1, Len(c))
  BY <1>5 DEF Body
<1>8. p = IF Len(P) > Len(b) THEN b ELSE SubSeq(b, 1, Len(P))
  BY <1>5 DEF ReadPayload, Short
<1>14. Short(c) <=> Len(P) > Len(b)
  BY <1>5 DEF Short
<1> HIDE DEF b, p, k, P, R, e
<1>9. /\ b \in Seq(Cell) /\ Len(b) \in Nat /\ Len(b) = (IF k <= Len(c) THEN Len(c) - k ELSE 0)
      /\ \A i \in 1..Len(b) : k + i \in 1..Len(c) /\ b[i] = c[k + i]
  <2>1. c \in Seq(Cell) /\ k \in Nat
    BY <1>1, <1>6
  <2> QED
    BY ONLY <1>7, <2>1, RestOfPayload
<1>10. /\ p \in Seq(Cell) /\ Len(p) <= Len(P) /\ Len(p) <= Len(b)
       /\ \A i \in 1..Len(p) : p[i] = b[i]
  <2>1. CASE Len(P) > Len(b)
    BY <1>2, <1>8, <1>9, <2>1
  <2>2. CASE ~(Len(P) > Len(b))
    <3> DEFINE w == SubSeq(b, 1, Len(P))
    <3>1. \A i \in 1..Len(P) : b[i] \in Cell
      BY <1>2, <1>9, <2>2, ElementOfSeq
    <3>2. /\ w \in Seq(Cell) /\ Len(w) = (IF 1 <= Len(P) THEN (Len(P) - 1) + 1 ELSE 0)
          /\ \A i \in 1..((Len(P) - 1) + 1) : w[i] = b[(1 + i) - 1]
      <4>1. 1 \in Int /\ Len(P) \in Int
        BY <1>2
      <4> QED
        BY ONLY <3>1, <4>1, SubSeqProperties
    <3>3. p = w
      BY <1>8, <2>2
    <3> HIDE DEF w
    <3>4. Len(w) = Len(P)
      BY <1>2, <3>2
    <3>5. \A i \in 1..Len(P) : i \in 1..((Len(P) - 1) + 1) /\ (1 + i) - 1 = i
      BY <1>2
    <3> QED
      BY <1>2, <1>9, <2>2, <3>2, <3>3, <3>4, <3>5
  <2> QED
    BY <2>1, <2>2
<1>11. Len(p) \in Nat
  BY <1>10
<1>12. ASSUME NEW i \in 1..Len(p) PROVE (i <= Len(P) /\ p[i] = P[i]) \/ p[i] \in Single
  <2>1. i \in Nat /\ i <= Len(P) /\ i \in 1..Len(b) /\ i \in 1..Len(P)
    BY <1>2, <1>9, <1>10, <1>11
  <2>2. p[i] = c[k + i] /\ k + i \in 1..Len(c)
    BY <1>9, <1>10, <2>1
  <2>3. e[k + i] = P[i]
    BY <1>4, <2>1
  <2>4. (k + i <= Len(e) /\ c[k + i] = e[k + i]) \/ c[k + i] \in Single
    BY <1>1, <2>2
  <2> QED
    BY ONLY <2>1, <2>2, <2>3, <2>4
<1>13. Damaged(p, P)
  BY ONLY <1>10, <1>12 DEF Damaged
<1>15. ASSUME Len(c) = Len(e) PROVE ~Short(c) /\ Len(p) = Len(P)
  <2>1. Len(b) = Len(P)
    BY <1>2, <1>4, <1>6, <1>9, <1>15
  <2>2. p = SubSeq(b, 1, Len(P))
    BY <1>2, <1>8, <2>1
  <2>3. SubSeq(b, 1, Len(b)) = b
    BY <1>9, SubSeqFull
  <2> QED
    BY <1>2, <1>14, <2>1, <2>2, <2>3
<1>16. \A i \in 1..Len(p) : p[i] = c[k + i]
  BY <1>9, <1>10, <1>11
<1> QED
  BY ONLY <1>10, <1>11, <1>13, <1>15, <1>16 DEF p, P, e, k, R

\* What decode_snapshot begins with.
LEMMA StartBlank ==
    ASSUME NEW s \in DurableSnapshot, NEW c, HeaderKept(s, c)
    PROVE  Blank(s, StartOut(c)) /\ StartOut(c).policy = s.policy
<1> DEFINE z == <<>>
           t == [i \in 1..Number(c[6]) |-> Number(c[HeaderSize + i])]
           y == Number(c[5])
           o == [runtime |-> t, policy |-> y, queues |-> z, sources |-> z, events |-> z, metadata |-> z]
<1>1. s.runtime = <<>> => t = <<>>
  BY DEF HeaderKept
<1>2. y = s.policy
  BY DEF HeaderKept
<1>3. StartOut(c) = [[[runtime |-> z, policy |-> 0, queues |-> z, sources |-> z, events |-> z,
                       metadata |-> z] EXCEPT !.policy = y] EXCEPT !.runtime = t]
  BY DEF StartOut, NoSnapshot
<1> HIDE DEF z, t, y
<1>4. StartOut(c) = o
  BY ONLY <1>3
<1>5. o.runtime = t /\ o.policy = y
  OBVIOUS
<1>6. o = [runtime |-> o.runtime, policy |-> o.policy, queues |-> z, sources |-> z, events |-> z,
           metadata |-> z]
  BY ONLY <1>5
<1> HIDE DEF o
<1> QED
  BY ONLY <1>1, <1>2, <1>4, <1>5, <1>6 DEF Blank, z

LEMMA StartAtRecord ==
    ASSUME NEW s \in DurableSnapshot, NEW c, HeaderKept(s, c),
           NEW off, Layout(Records(s), off, Payload(s))
    PROVE  AtRecord(s, StartOut(c), off, Start(c))
<1> DEFINE o == StartOut(c)
           O == {Before(s, o, k) : k \in 0..Len(Values(s))}
           a == Short(c)
           f == Short(c) \/ ~(c[9] = Checksum(ReadPayload(c)))
           d == [offset |-> 0, parsed |-> 0, rejected |-> 0, truncated |-> a, failed |-> f,
                 done |-> FALSE, out |-> o]
<1>1. Start(c) = d
  BY DEF Start
<1>2. Len(Values(s)) \in Nat /\ 0 \in 0..Len(Values(s))
  BY PayloadLayout
<1>3. o = Before(s, o, 0) /\ o \in O
  BY <1>2 DEF Before
<1>4. off[0] = 0
  BY DEF Layout
<1>5. a \in BOOLEAN /\ f \in BOOLEAN
  BY DEF Short
<1> HIDE DEF o, O, a, f
<1>6. d \in [offset : Nat, parsed : Nat, rejected : Nat, truncated : BOOLEAN, failed : BOOLEAN,
             done : BOOLEAN, out : O]
  BY ONLY <1>3, <1>5
<1>7. d.parsed = 0 /\ d.offset = 0 /\ d.out = o
  OBVIOUS
<1> HIDE DEF d
<1>8. d \in LoopState(s, o)
  BY ONLY <1>6 DEF LoopState, O
<1> QED
  BY ONLY <1>1, <1>2, <1>3, <1>4, <1>7, <1>8 DEF AtRecord, o

LEMMA LoopTurns ==
    ASSUME NEW c, NEW l, ReadPayload(c) \in Seq(Cell)
    PROVE  /\ Loop(c, l)[0] = Start(c)
           /\ \A i \in 1..Len(ReadPayload(c)) :
                Loop(c, l)[i] = Step(ReadPayload(c), l, Loop(c, l)[i - 1])
<1> DEFINE p == ReadPayload(c)
           r == Loop(c, l)
<1>1. \E g : g = Turns(p, l, Start(c), g)
  BY LoopExists
<1>2. r = Turns(p, l, Start(c), r)
  BY <1>1 DEF Loop
<1>3. Len(p) \in Nat
  OBVIOUS
<1> HIDE DEF p, r
<1>4. r = [i \in 0..Len(p) |-> IF i = 0 THEN Start(c) ELSE Step(p, l, r[i - 1])]
  BY <1>2 DEF Turns
<1>5. 0 \in 0..Len(p) /\ \A i \in 1..Len(p) : i \in 0..Len(p) /\ i # 0
  BY <1>3
<1>6. \A i \in 0..Len(p) : r[i] = IF i = 0 THEN Start(c) ELSE Step(p, l, r[i - 1])
  BY ONLY <1>4
<1> QED
  BY ONLY <1>5, <1>6 DEF p, r

\* Every turn of the loop stands at the end of a record.
LEMMA LoopAtRecord ==
    ASSUME NEW s \in DurableSnapshot, NEW c, Damaged(c, Encode(s)), HeaderKept(s, c),
           ~(HeaderSize + Number(c[6]) > Len(c)), NEW l,
           NEW off, Layout(Records(s), off, Payload(s))
    PROVE  \A i \in 0..Len(ReadPayload(c)) : AtRecord(s, StartOut(c), off, Loop(c, l)[i])
<1> DEFINE p == ReadPayload(c)
           o == StartOut(c)
           r == Loop(c, l)
           n == Len(p)
           T == {i \in 0..n : AtRecord(s, o, off, r[i])}
<1>1. Damaged(p, Payload(s)) /\ n <= Len(Payload(s)) /\ p \in Seq(Cell) /\ n \in Nat
  BY PayloadSurvives
<1>2. Blank(s, o)
  BY StartBlank
<1>3. AtRecord(s, o, off, Start(c))
  BY StartAtRecord
<1>4. r[0] = Start(c) /\ \A i \in 1..n : r[i] = Step(p, l, r[i - 1])
  BY <1>1, LoopTurns
<1> HIDE DEF p, o, r
<1>5. 0 \in T
  BY <1>1, <1>3, <1>4
<1>6. ASSUME NEW i \in 1..n, i - 1 \in T PROVE i \in T
  <2>1. AtRecord(s, o, off, r[i - 1])
    BY <1>6
  <2>2. AtRecord(s, o, off, Step(p, l, r[i - 1]))
    BY <1>1, <1>2, <2>1, StepAtRecord
  <2>3. i \in 0..n
    BY <1>1
  <2> QED
    BY <1>4, <2>2, <2>3
<1> HIDE DEF T
<1>7. 0..n \subseteq T
  <2> HIDE DEF n
  <2> QED
    BY <1>1, <1>5, <1>6, UpToBound
<1> QED
  BY <1>7 DEF T, p, o, r

\* What decode_snapshot makes of a segment that was written as s, whatever
\* happened to it since.
DecodedRight(s, r) ==
    /\ r.ok =>
         \/ r.parsed > 0 /\ r.snapshot = FirstRecords(s, r.parsed)
         \/ r.parsed = 0 /\ r.snapshot.policy \in {0, s.policy}
            /\ [r.snapshot EXCEPT !.runtime = <<>>, !.policy = 0] = NoSnapshot
    /\ r.clean => r.snapshot = s /\ r.parsed = Len(Values(s))

Empties(b, z) == [b EXCEPT !.runtime = z, !.policy = 0]

NoRecords(t, y, z) ==
    [runtime |-> t, policy |-> y, queues |-> z, sources |-> z, events |-> z, metadata |-> z]

LEMMA Emptied ==
    ASSUME NEW t, NEW y, NEW z, NEW b, b = NoRecords(t, y, z)
    PROVE  Empties(b, z) = NoRecords(z, 0, z)
<1> DEFINE a == [b EXCEPT !.runtime = z]
           e == [a EXCEPT !.policy = 0]
<1>1. a = [runtime |-> z, policy |-> y, queues |-> z, sources |-> z, events |-> z, metadata |-> z]
  BY DEF NoRecords
<1> HIDE DEF a
<1>2. e = [runtime |-> z, policy |-> 0, queues |-> z, sources |-> z, events |-> z, metadata |-> z]
  BY ONLY <1>1
<1>3. Empties(b, z) = e
  BY DEF a, Empties
<1> QED
  BY ONLY <1>2, <1>3 DEF NoRecords

LEMMA RefusedRight ==
    ASSUME NEW s
    PROVE  /\ DecodedRight(s, Refused)
           /\ DecodedRight(s, [Refused EXCEPT !.ok = TRUE, !.truncated = TRUE])
<1> DEFINE z == <<>>
           n == [runtime |-> z, policy |-> 0, queues |-> z, sources |-> z, events |-> z, metadata |-> z]
<1>1. NoSnapshot = n
  BY DEF NoSnapshot
<1> HIDE DEF z
<1>2. n.policy = 0 /\ [n EXCEPT !.runtime = z, !.policy = 0] = n
  <2>1. n.policy = 0
    OBVIOUS
  <2>2. n = NoRecords(z, 0, z)
    BY DEF NoRecords
  <2> HIDE DEF n
  <2>3. [n EXCEPT !.runtime = z, !.policy = 0] = NoRecords(z, 0, z)
    <3>1. Empties(n, z) = NoRecords(z, 0, z)
      BY ONLY <2>2, Emptied
    <3> QED
      BY ONLY <3>1 DEF Empties
  <2> QED
    BY ONLY <2>1, <2>2, <2>3
<1>3. NoSnapshot.policy = 0 /\ [NoSnapshot EXCEPT !.runtime = <<>>, !.policy = 0] = NoSnapshot
  BY ONLY <1>1, <1>2 DEF z
<1> HIDE DEF n
<1>4. /\ Refused.ok = FALSE /\ Refused.clean = FALSE
  BY DEF Refused
<1> DEFINE w == [[Refused EXCEPT !.ok = TRUE] EXCEPT !.truncated = TRUE]
<1>5. w.parsed = 0 /\ w.clean = FALSE /\ w.snapshot = NoSnapshot
  BY DEF Refused
<1> HIDE DEF w
<1>6. DecodedRight(s, w)
  BY ONLY <1>3, <1>5 DEF DecodedRight
<1>7. DecodedRight(s, Refused)
  BY ONLY <1>4 DEF DecodedRight
<1> QED
  BY ONLY <1>6, <1>7 DEF w

LEMMA DecodeRight ==
    ASSUME NEW s \in DurableSnapshot, NEW c, Damaged(c, Encode(s)), NEW l
    PROVE  DecodedRight(s, Decode(c, l))
<1>1. CASE ~HeaderValid(c)
  <2>1. Decode(c, l) = Refused
    BY <1>1, DecodeIs
  <2> QED
    BY <2>1, RefusedRight
<1>2. CASE HeaderValid(c) /\ HeaderSize + Number(c[6]) > Len(c)
  <2>1. Decode(c, l) = [Refused EXCEPT !.ok = TRUE, !.truncated = TRUE]
    BY <1>2, DecodeIs
  <2> QED
    BY <2>1, RefusedRight
<1>3. CASE HeaderValid(c) /\ ~(HeaderSize + Number(c[6]) > Len(c))
  <2> DEFINE n == Len(ReadPayload(c))
             o == StartOut(c)
             d == Loop(c, l)[n]
             V == Len(Values(s))
             r == Report(d, n, Number(c[7]))
  <2>1. HeaderKept(s, c)
    BY <1>3, HeaderSurvives
  <2>2. PICK off : Layout(Records(s), off, Payload(s))
    BY PayloadLayout
  <2>3. n \in Nat
    BY <1>3, <2>1, PayloadSurvives
  <2>4. AtRecord(s, o, off, d)
    <3>1. n \in 0..n
      BY <2>3
    <3> QED
      BY <1>3, <2>1, <2>2, <3>1, LoopAtRecord
  <2>5. Decode(c, l) = r
    BY <1>3, DecodeIs
  <2>6. Blank(s, o) /\ o.policy = s.policy
    BY <2>1, StartBlank
  <2>7. Number(c[7]) = V /\ V \in Nat
    BY <2>1, PayloadLayout DEF HeaderKept
  <2> HIDE DEF n, o, d, V
  <2>8. d.parsed \in 0..V /\ d.out = Before(s, o, d.parsed)
    BY <2>4 DEF AtRecord, V
  <2>9. /\ r.parsed = d.parsed /\ r.snapshot = d.out
        /\ r.clean = ~(d.truncated \/ d.failed \/ d.offset # n \/ d.parsed < V)
    BY <2>7 DEF Report
  <2> HIDE DEF r
  <2>10. CASE d.parsed = 0
    <3> DEFINE z == <<>>
               t == o.runtime
               y == o.policy
    <3>1. o = NoRecords(t, y, z)
      BY <2>6 DEF Blank, NoRecords
    <3>2. NoSnapshot = NoRecords(z, 0, z)
      BY DEF NoSnapshot, NoRecords
    <3> HIDE DEF z, t, y
    <3>3. Empties(o, z) = NoRecords(z, 0, z)
      BY ONLY <3>1, Emptied
    <3>4. [o EXCEPT !.runtime = <<>>, !.policy = 0] = NoSnapshot
      BY ONLY <3>2, <3>3 DEF z, Empties
    <3>5. d.out = o
      BY <2>8, <2>10 DEF Before
    <3>6. r.parsed = 0 /\ r.snapshot = o
      BY <2>9, <2>10, <3>5
    <3>7. ~(0 < V) => V = 0
      BY <2>7
    \* There is always the session record.
    <3>8. V # 0
      <4>1. V = LastTable(s)
        BY SnapshotRecords DEF V
      <4> QED
        BY <4>1, LastRecords
    <3>9. ~r.clean
      BY <2>9, <2>10, <3>7, <3>8
    <3> QED
      BY ONLY <2>5, <2>6, <3>4, <3>6, <3>9 DEF DecodedRight
  <2>11. CASE d.parsed # 0
    <3>1. d.parsed > 0 /\ (~(d.parsed < V) => d.parsed = V)
      BY <2>7, <2>8, <2>11
    <3>2. r.snapshot = FirstRecords(s, r.parsed) /\ r.parsed > 0
      BY <2>8, <2>9, <2>11, <3>1 DEF Before
    <3>3. r.clean => r.parsed = V
      BY <2>9, <3>1
    <3>4. FirstRecords(s, V) = s
      BY FirstRecordsAre, SnapshotRecords DEF V
    <3> QED
      BY ONLY <2>5, <3>2, <3>3, <3>4 DEF DecodedRight, V
  <2> QED
    BY <2>10, <2>11
<1> QED
  BY <1>1, <1>2, <1>3

-----------------------------------------------------------------------------
(* An untouched segment *)

\* The header write_header writes passes every test of decode_header.
LEMMA HeaderReads ==
    ASSUME NEW s \in DurableSnapshot, Len(s.runtime) <= MaxRuntimeId
    PROVE  HeaderValid(Encode(s))
<1> DEFINE e == Encode(s)
           z == HeaderWith(s, U(0))
           y == Zeroed(e)
           R == Len(s.runtime)
<1>1. U(0) \in Cell
  BY SingleCell
<1>2. /\ z \in Seq(Cell) /\ Len(z) = 9 /\ z[4] = U(0)
      /\ z[1] = Magic /\ z[2] = U(Version) /\ z[3] = U(HeaderSize) /\ z[6] = U(R)
  BY <1>1, HeaderCells
<1>3. R \in Nat
  BY DEF DurableSnapshot
<1>4. /\ e \in Seq(Cell) /\ Len(e) = 9 + R + Len(Payload(s))
      /\ e[4] = Checksum(z) /\ \A i \in 1..9 : i # 4 => e[i] = z[i]
  BY EncodeWrites DEF Written
<1>5. Len(Payload(s)) \in Nat
  BY PayloadLayout
<1> HIDE DEF e, z, R
<1>6. Len(e) >= 9
  BY <1>3, <1>4, <1>5
<1>7. y \in Seq(Cell) /\ Len(y) = 9 /\ y[4] = U(0) /\ \A i \in 1..9 : i # 4 => y[i] = e[i]
  BY <1>4, <1>6, ZeroedCells
<1> HIDE DEF y
<1>8. y = z
  <2>1. \A i \in 1..9 : y[i] = z[i]
    BY ONLY <1>2, <1>4, <1>7
  <2>2. y \in Seq(Cell) /\ z \in Seq(Cell) /\ Len(y) = Len(z) /\ Len(y) = 9
    BY ONLY <1>2, <1>7
  <2> QED
    BY ONLY <2>1, <2>2, SeqEqual
<1>9. e[1] = Magic /\ e[2] = U(Version) /\ e[3] = U(HeaderSize) /\ e[6] = U(R)
  <2>1. 1 \in 1..9 /\ 2 \in 1..9 /\ 3 \in 1..9 /\ 6 \in 1..9
    OBVIOUS
  <2> QED
    BY ONLY <1>2, <1>4, <2>1
<1>10. Number(e[2]) = Version /\ Number(e[3]) = HeaderSize /\ Number(e[6]) = R
  BY <1>9, SingleCell
<1>11. e[4] = Checksum(SubSeq(e, 1, 3) \o <<U(0)>> \o SubSeq(e, 5, HeaderSize))
  BY <1>4, <1>8 DEF y, Zeroed, HeaderSize
<1>12. R <= MaxRuntimeId
  BY DEF R
<1> QED
  BY ONLY <1>6, <1>9, <1>10, <1>11, <1>12 DEF HeaderValid, HeaderSize, e

\* Every record has cells, so the loop has a turn for each of them.
LEMMA RecordsFit ==
    ASSUME NEW s \in DurableSnapshot, NEW off, Layout(Records(s), off, Payload(s))
    PROVE  Len(Values(s)) <= Len(Payload(s)) /\ off[Len(Values(s))] = Len(Payload(s))
<1> DEFINE n == Len(Values(s))
           T == {i \in 0..n : off[i] \in Nat /\ i <= off[i]}
<1>1. /\ n \in Nat /\ Len(Records(s)) = n
      /\ \A k \in 1..n : Values(s)[k] \in RecordSet /\ Records(s)[k] = Record(Values(s)[k])
  BY PayloadLayout
<1>2. off[0] = 0 /\ off[n] = Len(Payload(s))
  BY <1>1 DEF Layout
<1>3. 0 \in T
  BY <1>1, <1>2
<1>4. ASSUME NEW i \in 1..n, i - 1 \in T PROVE i \in T
  <2> DEFINE w == Len(Records(s)[i])
  <2>1. off[i] = off[i - 1] + w
    BY <1>1 DEF Layout
  <2>2. w = 3 + Len(Values(s)[i].value) /\ Len(Values(s)[i].value) \in Nat
    BY <1>1, RecordCells
  <2> HIDE DEF w
  <2>3. w \in Nat /\ w >= 1
    BY <2>2
  <2>4. off[i - 1] \in Nat /\ i - 1 <= off[i - 1] /\ i \in 0..n
    BY <1>1, <1>4
  <2> HIDE DEF T
  <2>5. \A x, u \in Nat : u >= 1 /\ i - 1 <= x => i <= x + u /\ x + u \in Nat
    BY <1>1
  <2>6. off[i] \in Nat /\ i <= off[i]
    BY ONLY <2>1, <2>3, <2>4, <2>5
  <2> QED
    BY <2>4, <2>6 DEF T
<1> HIDE DEF T
<1>5. 0..n \subseteq T
  <2> HIDE DEF n
  <2> QED
    BY <1>1, <1>3, <1>4, UpToBound
<1>6. n \in T
  BY <1>1, <1>5
<1> QED
  BY <1>2, <1>6 DEF T

\* The payload of an untouched segment is the one that was written, and it
\* passes its checksum.
LEMMA PayloadReads ==
    ASSUME NEW s \in DurableSnapshot, Len(s.runtime) <= MaxRuntimeId
    PROVE  /\ Damaged(Encode(s), Encode(s)) /\ HeaderKept(s, Encode(s))
           /\ ~(HeaderSize + Number(Encode(s)[6]) > Len(Encode(s)))
           /\ ReadPayload(Encode(s)) = Payload(s)
           /\ ~Start(Encode(s)).failed /\ ~Start(Encode(s)).truncated
           /\ Start(Encode(s)).parsed = 0 /\ Start(Encode(s)).done = FALSE
<1> DEFINE e == Encode(s)
           P == Payload(s)
           R == Len(s.runtime)
           p == ReadPayload(e)
<1>1. Written(s, e)
  BY EncodeWrites
<1>2. e \in Seq(Cell) /\ Len(e) = 9 + R + Len(P) /\ \A i \in 1..Len(P) : e[9 + R + i] = P[i]
  BY <1>1 DEF Written
<1>3. R \in Nat /\ P \in Seq(Cell) /\ Len(P) \in Nat
  BY PayloadLayout DEF DurableSnapshot
<1>4. Damaged(e, e)
  BY <1>2, <1>3 DEF Damaged
<1>5. HeaderKept(s, e)
  BY <1>4, HeaderReads, HeaderSurvives
<1>6. ~(HeaderSize + Number(e[6]) > Len(e))
  <2>1. Number(e[6]) = R
    BY <1>5 DEF HeaderKept
  <2> HIDE DEF e, R, P
  <2> QED
    BY <1>2, <1>3, <2>1 DEF HeaderSize
<1>7. /\ p \in Seq(Cell) /\ ~Short(e) /\ Len(p) = Len(P) /\ \A i \in 1..Len(p) : p[i] = e[9 + R + i]
  BY <1>4, <1>5, <1>6, PayloadSurvives
<1>8. e[9] = Checksum(P)
  <2>1. U(0) \in Cell /\ 9 \in 1..9
    BY SingleCell
  <2>2. HeaderWith(s, U(0))[9] = Checksum(P)
    BY <2>1, HeaderCells
  <2>3. e[9] = HeaderWith(s, U(0))[9]
    BY <1>1, <2>1 DEF Written
  <2> QED
    BY <2>2, <2>3
<1> HIDE DEF p, P
<1>9. p = P
  <2> HIDE DEF e, R
  <2>1. \A i \in 1..Len(p) : p[i] = P[i]
    BY ONLY <1>2, <1>7
  <2> QED
    BY ONLY <1>3, <1>7, <2>1, SeqEqual
<1>10. ReadPayload(e) = P
  BY <1>9 DEF p
<1>11. /\ Start(e).truncated = Short(e) /\ Start(e).parsed = 0 /\ Start(e).done = FALSE
       /\ Start(e).failed = (Short(e) \/ ~(e[9] = Checksum(ReadPayload(e))))
  BY DEF Start
<1> QED
  BY ONLY <1>4, <1>5, <1>6, <1>7, <1>8, <1>10, <1>11 DEF P, e

LEMMA ReadsBackClean ==
    ASSUME NEW s \in DurableSnapshot, NEW l, l.record \in Nat, Enough(s, l),
           \A i \in DOMAIN Values(s) : Len(Values(s)[i].value) <= l.record
    PROVE  Decode(Encode(s), l).clean
<1> DEFINE e == Encode(s)
           P == Payload(s)
           n == Len(P)
           V == Len(Values(s))
           o == StartOut(e)
           r == Loop(e, l)
<1>1. Len(s.runtime) <= MaxRuntimeId
  BY DEF Enough
<1>2. /\ Damaged(e, e) /\ HeaderKept(s, e) /\ ~(HeaderSize + Number(e[6]) > Len(e))
      /\ ReadPayload(e) = P
  BY <1>1, PayloadReads
<1>3. ~Start(e).failed /\ ~Start(e).truncated /\ Start(e).parsed = 0 /\ Start(e).done = FALSE
  BY <1>1, PayloadReads
<1>4. P \in Seq(Cell) /\ n \in Nat /\ V \in Nat
  BY PayloadLayout
<1>5. PICK off : Layout(Records(s), off, P)
  BY PayloadLayout
<1>6. V <= n /\ off[V] = n
  BY <1>5, RecordsFit
<1>7. \A i \in 0..n : AtRecord(s, o, off, r[i])
  BY <1>2, <1>5, LoopAtRecord
<1>8. r[0] = Start(e) /\ \A i \in 1..n : r[i] = Step(P, l, r[i - 1])
  BY <1>2, <1>4, LoopTurns
<1>9. Blank(s, o)
  BY <1>2, StartBlank
<1>10. Number(e[7]) = V
  BY <1>2 DEF HeaderKept
<1>11. Decode(e, l) = Report(r[n], n, V)
  BY <1>1, <1>2, <1>10, DecodeIs, HeaderReads
<1> DEFINE Whole(i) == /\ ~r[i].failed /\ ~r[i].truncated
                       /\ r[i].parsed = (IF i <= V THEN i ELSE V) /\ (i <= V => ~r[i].done)
           T == {i \in 0..n : Whole(i)}
<1> HIDE DEF e, o, r
<1>12. 0 \in T
  BY <1>3, <1>4, <1>8
<1>13. ASSUME NEW i \in 1..n, i - 1 \in T PROVE i \in T
  <2> DEFINE d == r[i - 1]
             f == Step(P, l, d)
  <2>1. i - 1 \in 0..n /\ i \in 0..n
    BY <1>4
  <2>2. AtRecord(s, o, off, d) /\ r[i] = f
    BY <1>7, <1>8, <2>1
  <2>3. ~d.failed /\ ~d.truncated /\ d.parsed = (IF i - 1 <= V THEN i - 1 ELSE V)
        /\ (i - 1 <= V => ~d.done)
    BY <1>13
  <2> HIDE DEF d
  <2>4. /\ d.parsed # V /\ ~d.done => Consumed(d, f)
        /\ d.parsed = V => Idle(d, f)
    BY <1>5, <1>9, <2>2, StepWhole
  <2> HIDE DEF f, V, n, T
  <2>5. CASE i <= V
    <3>1. i - 1 <= V /\ i - 1 # V /\ (i - 1) + 1 = i
      BY <1>4, <2>5
    <3>2. Consumed(d, f)
      BY ONLY <2>3, <2>4, <3>1
    <3>3. Whole(i)
      BY ONLY <2>2, <2>3, <2>5, <3>1, <3>2 DEF Consumed
    <3> QED
      BY ONLY <2>1, <3>3 DEF T
  <2>6. CASE ~(i <= V)
    <3>1. d.parsed = V
      BY <1>4, <2>3, <2>6
    <3>2. Idle(d, f)
      BY ONLY <2>4, <3>1
    <3>3. Whole(i)
      BY ONLY <2>2, <2>3, <2>6, <3>1, <3>2 DEF Idle
    <3> QED
      BY ONLY <2>1, <3>3 DEF T
  <2> QED
    BY ONLY <2>5, <2>6
<1> HIDE DEF T
<1>14. 0..n \subseteq T
  <2> HIDE DEF n
  <2> QED
    BY <1>4, <1>12, <1>13, UpToBound
<1>15. n \in 0..n
  BY <1>4
<1>16. Whole(n)
  BY <1>14, <1>15 DEF T
<1> DEFINE d == r[n]
<1>17. d.parsed = V /\ ~d.failed /\ ~d.truncated
  <2> HIDE DEF n, V
  <2> QED
    BY <1>4, <1>6, <1>16
<1>18. d.offset = n
  <2>1. d.offset = off[d.parsed]
    BY <1>7, <1>15 DEF AtRecord
  <2> HIDE DEF d, n, V
  <2> QED
    BY ONLY <1>6, <1>17, <2>1
<1> HIDE DEF d
<1>19. Report(d, n, V).clean = ~(d.truncated \/ d.failed \/ d.offset # n \/ d.parsed < V)
  BY DEF Report
<1>20. ~(V < V)
  BY <1>4
<1> HIDE DEF n, V
<1> QED
  BY ONLY <1>11, <1>17, <1>18, <1>19, <1>20 DEF d, e

-----------------------------------------------------------------------------
(* The life of a segment *)

\* What the medium leaves of a segment: every cell is the one written in its
\* place or a single number.
LEMMA FaultsDamage ==
    ASSUME NEW e, NEW c, Damaged(c, e)
    PROVE  /\ \A i \in DOMAIN c : \A d \in Nat : Damaged([c EXCEPT ![i] = U(d)], e)
           /\ \A n \in 0..(Len(c) - 1) : Damaged(SubSeq(c, 1, n), e)
           /\ \A d \in Nat : Damaged(Append(c, U(d)), e)
<1>1. c \in Seq(Cell) /\ \A i \in 1..Len(c) : (i <= Len(e) /\ c[i] = e[i]) \/ c[i] \in Single
  BY DEF Damaged
<1>2. Len(c) \in Nat /\ DOMAIN c = 1..Len(c)
  BY <1>1
<1>3. \A d \in Nat : U(d) \in Single /\ U(d) \in Cell
  BY SingleCell
<1>4. ASSUME NEW i \in DOMAIN c, NEW d \in Nat PROVE Damaged([c EXCEPT ![i] = U(d)], e)
  <2> DEFINE u == U(d)
             w == [c EXCEPT ![i] = u]
  <2>1. u \in Single /\ u \in Cell
    BY <1>3
  <2> HIDE DEF u
  <2>2. w \in Seq(Cell) /\ Len(w) = Len(c) /\ \A j \in 1..Len(c) : w[j] = IF j = i THEN u ELSE c[j]
    BY <1>1, <1>2, <2>1
  <2> HIDE DEF w
  <2>3. Damaged(w, e)
    BY <1>1, <2>1, <2>2 DEF Damaged
  <2> QED
    BY <2>3 DEF w, u
<1>5. ASSUME NEW n \in 0..(Len(c) - 1) PROVE Damaged(SubSeq(c, 1, n), e)
  <2> DEFINE w == SubSeq(c, 1, n)
  <2>1. n \in Nat /\ n <= Len(c) /\ 1 \in Int /\ n \in Int
    BY <1>2
  <2>2. \A i \in 1..n : i \in 1..Len(c) /\ c[i] \in Cell
    BY <1>1, <1>2, <2>1
  <2>3. /\ w \in Seq(Cell) /\ Len(w) = (IF 1 <= n THEN (n - 1) + 1 ELSE 0)
        /\ \A i \in 1..((n - 1) + 1) : w[i] = c[(1 + i) - 1]
    <3>1. \A i \in 1..n : c[i] \in Cell
      BY <2>2
    <3> QED
      BY ONLY <2>1, <3>1, SubSeqProperties
  <2> HIDE DEF w
  <2>4. (IF 1 <= n THEN (n - 1) + 1 ELSE 0) = n /\ \A i \in 1..n : i \in 1..((n - 1) + 1) /\ (1 + i) - 1 = i
    BY <2>1
  <2>5. Len(w) = n /\ \A i \in 1..n : w[i] = c[i]
    BY ONLY <2>3, <2>4
  <2>6. Damaged(w, e)
    BY ONLY <1>1, <2>2, <2>3, <2>5 DEF Damaged
  <2> QED
    BY <2>6 DEF w
<1>6. ASSUME NEW d \in Nat PROVE Damaged(Append(c, U(d)), e)
  <2> DEFINE u == U(d)
             w == Append(c, u)
  <2>1. u \in Single /\ u \in Cell
    BY <1>3
  <2> HIDE DEF u
  <2>2. w \in Seq(Cell) /\ Len(w) = Len(c) + 1 /\ w[Len(c) + 1] = u
        /\ \A j \in 1..Len(c) : w[j] = c[j]
    BY <1>1, <2>1
  <2> HIDE DEF w
  <2>3. \A j \in 1..(Len(c) + 1) : j \in 1..Len(c) \/ j = Len(c) + 1
    BY <1>2
  <2>4. Damaged(w, e)
    BY ONLY <1>1, <2>1, <2>2, <2>3 DEF Damaged
  <2> QED
    BY <2>4 DEF w, u
<1> QED
  BY <1>4, <1>5, <1>6

\* Until it is read, a segment is what was written but for the faults; what was
\* read is what is left of the snapshot.
SegmentInv ==
    /\ written \in Snapshots /\ limits \in LimitSets /\ faults \in Nat
    /\ phase = "stored" => /\ Encodable(written, limits) /\ Damaged(file, Encode(written))
                           /\ faults = 0 => file = Encode(written)
    /\ phase = "read" => DecodedRight(written, result)

LEMMA SegmentInitial == Init => SegmentInv
BY DEF Init, SegmentInv

LEMMA DamagedItself ==
    ASSUME NEW s \in DurableSnapshot
    PROVE  Damaged(Encode(s), Encode(s))
<1>1. Encode(s) \in Seq(Cell)
  BY EncodeWrites DEF Written
<1> QED
  BY <1>1 DEF Damaged

LEMMA FaultStep ==
    ASSUME SegmentInv, NEW c, Fault(c), Damaged(file, Encode(written)) => Damaged(c, Encode(written))
    PROVE  SegmentInv'
<1>1. faults + 1 \in Nat /\ faults + 1 # 0
  BY DEF SegmentInv
<1> QED
  BY <1>1 DEF SegmentInv, Fault

LEMMA SegmentStep ==
    ASSUME SegmentInv, [Next]_vars
    PROVE  SegmentInv'
<1>1. written \in DurableSnapshot /\ Flips \subseteq Nat
  BY SegmentAssumption DEF SegmentInv
<1>2. ASSUME Write PROVE SegmentInv'
  <2>1. Damaged(Encode(written), Encode(written))
    BY <1>1, DamagedItself
  <2> QED
    BY <1>2, <2>1 DEF Write, SegmentInv
<1>3. ASSUME WriteRefused PROVE SegmentInv'
  BY <1>3 DEF WriteRefused, SegmentInv
<1>4. ASSUME Flip PROVE SegmentInv'
  <2>1. PICK i \in DOMAIN file, d \in Flips : Fault([file EXCEPT ![i] = U(d)])
    BY <1>4 DEF Flip
  <2>2. Damaged(file, Encode(written)) => Damaged([file EXCEPT ![i] = U(d)], Encode(written))
    BY <1>1, FaultsDamage
  <2> QED
    BY <2>1, <2>2, FaultStep
<1>5. ASSUME Truncate PROVE SegmentInv'
  <2>1. PICK n \in 0..(Len(file) - 1) : Fault(SubSeq(file, 1, n))
    BY <1>5 DEF Truncate
  <2>2. Damaged(file, Encode(written)) => Damaged(SubSeq(file, 1, n), Encode(written))
    BY FaultsDamage
  <2> QED
    BY <2>1, <2>2, FaultStep
<1>6. ASSUME Grow PROVE SegmentInv'
  <2>1. PICK d \in Flips : Fault(Append(file, U(d)))
    BY <1>6 DEF Grow
  <2>2. Damaged(file, Encode(written)) => Damaged(Append(file, U(d)), Encode(written))
    BY <1>1, FaultsDamage
  <2> QED
    BY <2>1, <2>2, FaultStep
<1>7. ASSUME NEW l \in LimitSets, Read(l) PROVE SegmentInv'
  <2>1. Damaged(file, Encode(written))
    BY <1>7 DEF SegmentInv, Read
  <2>2. DecodedRight(written, Decode(file, l))
    BY <1>1, <2>1, DecodeRight
  <2> QED
    BY <1>7, <2>2 DEF SegmentInv, Read
<1>8. ASSUME UNCHANGED vars PROVE SegmentInv'
  BY <1>8 DEF SegmentInv, vars
<1> QED
  BY <1>2, <1>3, <1>4, <1>5, <1>6, <1>7, <1>8 DEF Next

LEMMA SegmentInvariant == Spec => []SegmentInv
BY SegmentInitial, SegmentStep, PTL DEF Spec

\* decode_snapshot: for every snapshot, every limits of the writer and of the
\* reader and any number of flipped, lost and appended cells, what is returned
\* is exactly the records before the first that is damaged.
THEOREM SegmentDecodesAPrefix == Spec => []DecodesAPrefix
<1>1. SegmentInv => DecodesAPrefix
  BY DEF SegmentInv, DecodesAPrefix, DecodedRight
<1> QED
  BY <1>1, SegmentInvariant, PTL

LEMMA WholeSegment ==
    ASSUME SegmentInv
    PROVE  CleanMeansWhole
<1>1. ASSUME phase = "read", result.clean
      PROVE  result.snapshot = written /\ result.parsed = Len(Values(written))
  BY <1>1 DEF SegmentInv, DecodedRight
<1>2. ASSUME phase = "stored", faults = 0,
             \A i \in DOMAIN written.queues : Len(written.queues[i].samples) <= limits.records
      PROVE  Decode(file, limits).clean
  <2>1. file = Encode(written) /\ Encodable(written, limits)
    BY <1>2 DEF SegmentInv
  <2>2. written \in DurableSnapshot /\ limits.record \in Nat
    BY SegmentAssumption DEF SegmentInv
  <2>3. Enough(written, limits)
    BY <1>2, <2>1 DEF Enough, Encodable
  <2>4. \A i \in DOMAIN Values(written) : Len(Values(written)[i].value) <= limits.record
    BY <2>1 DEF Encodable
  <2>5. Decode(Encode(written), limits).clean
    BY <2>2, <2>3, <2>4, ReadsBackClean
  <2> QED
    BY ONLY <2>1, <2>5
<1> QED
  BY <1>1, <1>2 DEF CleanMeansWhole

\* Persistence's report: a segment that decode_snapshot calls clean holds the
\* whole snapshot, and one nothing happened to reads back clean under the
\* limits encode_snapshot had.
THEOREM SegmentCleanMeansWhole == Spec => []CleanMeansWhole
BY SegmentInvariant, WholeSegment, PTL
=============================================================================
