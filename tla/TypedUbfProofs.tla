-------------------------- MODULE TypedUbfProofs --------------------------
(***************************************************************************)
(* Proofs about TypedUbf, its streams and the queues, for any number of    *)
(* buffers, of any size, and any fields: first what the operators of       *)
(* UbfLibrary do to the contents of a buffer, then what the methods keep.  *)
(***************************************************************************)
EXTENDS Queues, SequenceTheorems, FiniteSetTheorems, WellFoundedInduction, TLAPS

\* A field with a value of its type.
Entries == {e \in Fields \X Nat : e[2] \in ValuesOf(Bfldtype(e[1]))}

Ordered(c) == \A i, j \in 1..Len(c) : i <= j => c[i][1] <= c[j][1]

\* The contents of a UBF buffer.
Contents(c) == c \in Seq(Entries) /\ Ordered(c)

-----------------------------------------------------------------------------
(* Positions. *)

\* The least-number principle.
LEMMA LeastNatural ==
    ASSUME NEW T, T \subseteq Nat, T # {}
    PROVE  \E n \in T : \A m \in T : n <= m
<1>1. PICK n \in T : \A m \in T : ~(<<m, n>> \in OpToRel(<, Nat))
  BY NatLessThanWellFounded, WFMin, Zenon
<1>2. \A m \in T : <<m, n>> \in Nat \X Nat
  OBVIOUS
<1>3. \A m \in T : ~(m < n)
  BY <1>1, <1>2, Zenon DEF OpToRel
<1> QED BY <1>3

\* What an entry of a buffer is.
LEMMA EntryType ==
    ASSUME NEW e \in Entries
    PROVE  /\ e[1] \in Fields /\ e[1] \in Nat \ {0} /\ e[2] \in Nat
           /\ e[2] \in ValuesOf(Bfldtype(e[1]))
           /\ e = <<e[1], e[2]>>
  BY FieldAssumption DEF Entries, Fields

\* A field with a value of its type is an entry.
LEMMA EntryMade ==
    ASSUME NEW f \in Fields, NEW v \in ValuesOf(Bfldtype(f))
    PROVE  <<f, v>> \in Entries
<1>1. v \in Nat
  BY FieldAssumption DEF ValuesOf
<1> QED BY <1>1 DEF Entries

\* A set of positions without a hole is 1..n, and n is its size.
LEMMA Initial ==
    ASSUME NEW L \in Nat, NEW P, P \subseteq 1..L,
           \A i, j \in 1..L : i <= j /\ j \in P => i \in P
    PROVE  P = 1..Cardinality(P) /\ Cardinality(P) \in 0..L
<1> DEFINE T == {k \in Nat : k + 1 \notin P}
<1>1. L \in T
  OBVIOUS
<1>2. PICK m \in T : \A k \in T : m <= k
  BY <1>1, LeastNatural, Zenon
<1>3. m \in 0..L /\ m + 1 \notin P
  BY <1>1, <1>2
<1>4. ASSUME NEW k \in 1..m PROVE k \in P
  <2>1. k - 1 \in Nat /\ ~(m <= k - 1)
    BY <1>3
  <2>2. k - 1 \notin T
    BY <1>2, <2>1
  <2> QED BY <2>1, <2>2
<1>5. ASSUME NEW k \in P PROVE k \in 1..m
  <2>1. k \in 1..L
    OBVIOUS
  <2>2. CASE k > m
    <3>1. m + 1 \in 1..L /\ m + 1 <= k
      BY <1>3, <2>1, <2>2
    <3>2. m + 1 \in P
      BY <1>5, <2>1, <3>1
    <3> QED BY <1>3, <3>2
  <2> QED BY <1>3, <2>1, <2>2
<1>6. P = 1..m
  BY <1>4, <1>5, Zenon
<1>7. Cardinality(1..m) = m
  BY <1>3, FS_Interval
<1> QED BY <1>3, <1>6, <1>7

\* The entries of fields up to x are the first ones.
LEMMA UptoIs ==
    ASSUME NEW c, Contents(c), NEW x \in Int
    PROVE  /\ Upto(c, x) \in 0..Len(c)
           /\ \A i \in 1..Len(c) : c[i][1] <= x <=> i <= Upto(c, x)
<1> DEFINE P == {i \in DOMAIN c : c[i][1] <= x}
<1>1. Len(c) \in Nat /\ DOMAIN c = 1..Len(c) /\ \A i \in 1..Len(c) : c[i] \in Entries
  BY DEF Contents
<1>2. \A i \in 1..Len(c) : c[i][1] \in Nat
  BY <1>1, EntryType
<1>3. ASSUME NEW i \in 1..Len(c), NEW j \in 1..Len(c), i <= j, j \in P PROVE i \in P
  <2>1. c[i][1] <= c[j][1] /\ c[j][1] <= x
    BY <1>3 DEF Contents, Ordered
  <2> QED BY <1>1, <1>2, <2>1
<1>4. P = 1..Cardinality(P) /\ Cardinality(P) \in 0..Len(c)
  <2>1. P \subseteq 1..Len(c)
    BY <1>1
  <2> HIDE DEF P
  <2> QED BY <1>1, <1>3, <2>1, Initial, Zenon
<1>5. Upto(c, x) = Cardinality(P)
  BY DEF Upto
<1>6. \A i \in 1..Len(c) : i \in P <=> i <= Cardinality(P)
  <2> HIDE DEF P
  <2> QED BY <1>4
<1> QED BY <1>1, <1>4, <1>5, <1>6

\* The occurrences of a field follow one another.
LEMMA OccurrencesAre ==
    ASSUME NEW c, Contents(c), NEW f \in Int
    PROVE  /\ Upto(c, f - 1) \in Nat /\ Upto(c, f) \in Nat /\ Upto(c, f) <= Len(c)
           /\ Upto(c, f - 1) <= Upto(c, f)
           /\ Occurrences(c, f) = Upto(c, f) - Upto(c, f - 1)
           /\ \A i \in 1..Len(c) : c[i][1] = f <=> Upto(c, f - 1) < i /\ i <= Upto(c, f)
<1> DEFINE lo == Upto(c, f - 1)
           hi == Upto(c, f)
<1>1. Len(c) \in Nat /\ DOMAIN c = 1..Len(c) /\ \A i \in 1..Len(c) : c[i] \in Entries
  BY DEF Contents
<1>2. \A i \in 1..Len(c) : c[i][1] \in Nat
  BY <1>1, EntryType
<1>3. lo \in 0..Len(c) /\ \A i \in 1..Len(c) : c[i][1] <= f - 1 <=> i <= lo
  <2>1. f - 1 \in Int
    OBVIOUS
  <2> QED BY <2>1, UptoIs, Zenon
<1>4. hi \in 0..Len(c) /\ \A i \in 1..Len(c) : c[i][1] <= f <=> i <= hi
  BY UptoIs, Zenon
<1> HIDE DEF lo, hi
<1>5. \A i \in 1..Len(c) : c[i][1] = f <=> lo < i /\ i <= hi
  BY <1>2, <1>3, <1>4
<1>6. lo <= hi
  <2>1. CASE lo = 0
    BY <1>4, <2>1
  <2>2. CASE lo # 0
    <3>1. lo \in 1..Len(c)
      BY <1>3, <2>2
    <3>2. c[lo][1] <= f
      BY <1>2, <1>3, <3>1
    <3> QED BY <1>4, <3>1, <3>2
  <2> QED BY <2>1, <2>2
<1>7. {i \in DOMAIN c : c[i][1] = f} = (lo + 1)..hi
  <2>1. \A i : i \in (lo + 1)..hi => i \in 1..Len(c)
    BY <1>1, <1>3, <1>4
  <2>2. \A i \in 1..Len(c) : i \in (lo + 1)..hi <=> c[i][1] = f
    BY <1>3, <1>4, <1>5
  <2> QED BY <1>1, <2>1, <2>2, Zenon
<1>8. Cardinality((lo + 1)..hi) = hi - lo
  <2>1. lo + 1 \in Int /\ hi \in Int
    BY <1>3, <1>4
  <2>2. Cardinality((lo + 1)..hi) = IF lo + 1 > hi THEN 0 ELSE hi - (lo + 1) + 1
    BY <2>1, FS_Interval
  <2> QED BY <1>3, <1>4, <1>6, <2>2
<1>9. Occurrences(c, f) = hi - lo
  BY <1>7, <1>8, Zenon DEF Occurrences
<1> QED BY <1>3, <1>4, <1>5, <1>6, <1>9 DEF lo, hi

\* Where an occurrence is.
LEMMA PosIs ==
    ASSUME NEW c, Contents(c), NEW f \in Int, NEW o \in Nat, Has(c, f, o)
    PROVE  Pos(c, f, o) \in 1..Len(c) /\ c[Pos(c, f, o)][1] = f
<1>1. Len(c) \in Nat
  BY DEF Contents
<1>2. o < Upto(c, f) - Upto(c, f - 1)
  BY OccurrencesAre DEF Has
<1>3. /\ Pos(c, f, o) \in 1..Len(c)
      /\ Upto(c, f - 1) < Pos(c, f, o) /\ Pos(c, f, o) <= Upto(c, f)
  <2>1. Upto(c, f - 1) \in Nat /\ Upto(c, f) \in Nat /\ Upto(c, f) <= Len(c)
    BY OccurrencesAre
  <2> QED BY <1>1, <1>2, <2>1 DEF Pos
<1> QED BY <1>3, OccurrencesAre, Zenon

\* The number of an occurrence.
LEMMA OccAtNat ==
    ASSUME NEW c, NEW i \in Nat
    PROVE  OccAt(c, i) \in Nat
<1>1. IsFiniteSet(1..(i - 1))
  BY FS_Interval
<1>2. {j \in 1..(i - 1) : c[j][1] = c[i][1]} \in SUBSET (1..(i - 1))
  OBVIOUS
<1>3. IsFiniteSet({j \in 1..(i - 1) : c[j][1] = c[i][1]})
  BY <1>1, <1>2, FS_Subset
<1> QED BY <1>3, FS_CardinalityType DEF OccAt

-----------------------------------------------------------------------------
(* Inserting, changing and removing entries. *)

\* InsertAt, entry by entry.
LEMMA InsertIs ==
    ASSUME NEW S, NEW c \in Seq(S), NEW p \in 1..(Len(c) + 1), NEW e \in S
    PROVE  /\ InsertAt(c, p, e) \in Seq(S)
           /\ Len(InsertAt(c, p, e)) = Len(c) + 1
           /\ \A i \in 1..(Len(c) + 1) :
                 InsertAt(c, p, e)[i] = IF i < p THEN c[i] ELSE IF i = p THEN e ELSE c[i - 1]
<1> DEFINE A == SubSeq(c, 1, p - 1)
           B == SubSeq(c, p, Len(c))
<1>1. Len(c) \in Nat /\ p \in Int /\ \A i \in 1..Len(c) : c[i] \in S
  OBVIOUS
<1>2. A \in Seq(S) /\ Len(A) = p - 1 /\ \A i \in 1..(p - 1) : A[i] = c[i]
  BY <1>1
<1>3. B \in Seq(S) /\ Len(B) = Len(c) - p + 1 /\ \A i \in 1..(Len(c) - p + 1) : B[i] = c[p + i - 1]
  BY <1>1
<1> DEFINE C == A \o <<e>>
<1>4. <<e>> \in Seq(S) /\ Len(<<e>>) = 1 /\ <<e>>[1] = e
  OBVIOUS
<1> HIDE DEF A, B
<1>5. /\ C \in Seq(S) /\ Len(C) = p
      /\ \A i \in 1..p : C[i] = IF i < p THEN c[i] ELSE e
  BY <1>1, <1>2, <1>4, ConcatProperties
<1> HIDE DEF C
<1>6. /\ C \o B \in Seq(S) /\ Len(C \o B) = Len(c) + 1
      /\ \A i \in 1..(Len(c) + 1) : (C \o B)[i] = IF i < p THEN c[i] ELSE IF i = p THEN e ELSE c[i - 1]
  <2>1. /\ C \o B \in Seq(S) /\ Len(C \o B) = Len(C) + Len(B)
        /\ \A i \in 1..(Len(C) + Len(B)) : (C \o B)[i] = IF i <= Len(C) THEN C[i] ELSE B[i - Len(C)]
    BY <1>3, <1>5, ConcatProperties, Zenon
  <2>2. Len(C) + Len(B) = Len(c) + 1
    BY <1>1, <1>3, <1>5
  <2>3. ASSUME NEW i \in 1..(Len(c) + 1)
        PROVE  (C \o B)[i] = IF i < p THEN c[i] ELSE IF i = p THEN e ELSE c[i - 1]
    <3>1. (C \o B)[i] = IF i <= p THEN C[i] ELSE B[i - p]
      BY <1>5, <2>1, <2>2
    <3>2. CASE i <= p
      BY <1>1, <1>5, <3>1, <3>2
    <3>3. CASE i > p
      <4>1. i - p \in 1..(Len(c) - p + 1) /\ p + (i - p) - 1 = i - 1
        BY <1>1, <3>3
      <4>2. B[i - p] = c[i - 1]
        BY <1>3, <4>1
      <4> QED BY <1>1, <3>1, <3>3, <4>2
    <3>4. i <= p \/ i > p
      BY <1>1
    <3> QED BY <3>2, <3>3, <3>4, Zenon
  <2> QED BY <2>1, <2>2, <2>3
<1>7. InsertAt(c, p, e) = C \o B
  BY DEF InsertAt, A, B, C
<1> QED BY <1>6, <1>7

\* Badd keeps the order of the fields.
LEMMA AddedIs ==
    ASSUME NEW c, Contents(c), NEW f \in Fields, NEW v \in ValuesOf(Bfldtype(f))
    PROVE  /\ Contents(Added(c, f, v)) /\ Len(Added(c, f, v)) = Len(c) + 1
           /\ Upto(Added(c, f, v), f) = Upto(c, f) + 1
<1> DEFINE d == Added(c, f, v)
           p == Upto(c, f) + 1
<1>1. f \in Nat
  BY FieldAssumption DEF Fields
<1>2. Upto(c, f) \in 0..Len(c) /\ \A i \in 1..Len(c) : c[i][1] <= f <=> i <= Upto(c, f)
  BY <1>1, UptoIs
<1>3. c \in Seq(Entries) /\ Len(c) \in Nat /\ p \in 1..(Len(c) + 1)
  BY <1>2 DEF Contents
<1>4. /\ d \in Seq(Entries) /\ Len(d) = Len(c) + 1
      /\ \A i \in 1..Len(d) : d[i] = IF i < p THEN c[i] ELSE IF i = p THEN <<f, v>> ELSE c[i - 1]
  <2>1. <<f, v>> \in Entries
    BY EntryMade
  <2>2. d = InsertAt(c, p, <<f, v>>)
    BY DEF Added
  <2> HIDE DEF d, p
  <2> DEFINE e == <<f, v>>
  <2> HIDE DEF e
  <2>3. c \in Seq(Entries) /\ p \in 1..(Len(c) + 1) /\ e \in Entries
    BY <1>3, <2>1 DEF e
  <2>4. /\ InsertAt(c, p, e) \in Seq(Entries)
        /\ Len(InsertAt(c, p, e)) = Len(c) + 1
        /\ \A i \in 1..(Len(c) + 1) :
              InsertAt(c, p, e)[i] = IF i < p THEN c[i] ELSE IF i = p THEN e ELSE c[i - 1]
    BY <2>3, InsertIs
  <2>5. d = InsertAt(c, p, e)
    BY <2>2 DEF e
  <2>6. d \in Seq(Entries) /\ Len(d) = Len(c) + 1
    BY <2>4, <2>5
  <2>7. \A i \in 1..Len(d) : d[i] = IF i < p THEN c[i] ELSE IF i = p THEN e ELSE c[i - 1]
    BY <2>4, <2>5, <2>6, Zenon
  <2> QED BY <2>6, <2>7 DEF e
<1>5. \A i \in 1..Len(c) : c[i][1] \in Nat
  BY <1>3, EntryType
<1> HIDE DEF d, p
<1>6. \A i \in 1..Len(d) : d[i][1] = IF i < p THEN c[i][1] ELSE IF i = p THEN f ELSE c[i - 1][1]
  BY <1>4
<1>7. \A i \in 1..Len(c) : c[i][1] <= f <=> i < p
  BY <1>2 DEF p
<1>8. \A i, j \in 1..Len(c) : i <= j => c[i][1] <= c[j][1]
  BY DEF Contents, Ordered
<1>9. ASSUME NEW i \in 1..Len(d), NEW j \in 1..Len(d), i <= j
      PROVE  d[i][1] <= d[j][1]
  <2>1. CASE j < p
    <3>1. i \in 1..Len(c) /\ j \in 1..Len(c) /\ i < p
      BY <1>3, <1>4, <1>9, <2>1
    <3> QED BY <1>6, <1>8, <1>9, <2>1, <3>1
  <2>2. CASE j = p
    <3>1. CASE i = p
      BY <1>1, <1>6, <2>2, <3>1
    <3>2. CASE i < p
      <4>1. i \in 1..Len(c)
        BY <1>3, <1>4, <3>2
      <4> QED BY <1>6, <1>7, <2>2, <3>2, <4>1
    <3> QED BY <1>3, <1>9, <2>2, <3>1, <3>2
  <2>3. CASE j > p
    <3>1. j - 1 \in 1..Len(c) /\ d[j][1] = c[j - 1][1] /\ ~(c[j - 1][1] <= f)
      BY <1>3, <1>4, <1>6, <1>7, <2>3
    <3>2. CASE i < p
      <4>1. i \in 1..Len(c) /\ i <= j - 1
        BY <1>3, <1>4, <2>3, <3>2
      <4> QED BY <1>6, <1>8, <3>1, <3>2, <4>1
    <3>3. CASE i = p
      BY <1>1, <1>5, <1>6, <3>1, <3>3
    <3>4. CASE i > p
      <4>1. i - 1 \in 1..Len(c) /\ i - 1 <= j - 1
        BY <1>3, <1>4, <1>9, <3>4
      <4>2. d[i][1] = c[i - 1][1]
        BY <1>3, <1>6, <3>4
      <4> QED BY <1>8, <3>1, <4>1, <4>2
    <3> QED BY <1>3, <3>2, <3>3, <3>4
  <2> QED BY <1>3, <2>1, <2>2, <2>3
<1>10. Contents(d)
  BY <1>4, <1>9 DEF Contents, Ordered
<1>11. Upto(d, f) = p
  <2>1. Upto(d, f) \in 0..Len(d) /\ \A i \in 1..Len(d) : d[i][1] <= f <=> i <= Upto(d, f)
    BY <1>1, <1>10, UptoIs
  <2>2. p \in 1..Len(d) /\ d[p][1] <= f
    BY <1>1, <1>3, <1>4, <1>6
  <2>3. p <= Upto(d, f)
    BY <2>1, <2>2
  <2>4. CASE Upto(d, f) > p
    <3>1. p + 1 \in 1..Len(d) /\ p + 1 <= Upto(d, f)
      BY <1>3, <2>1, <2>4
    <3>2. d[p + 1][1] <= f /\ d[p + 1][1] = c[p][1] /\ p \in 1..Len(c)
      BY <1>3, <1>4, <1>6, <2>1, <3>1
    <3> QED BY <1>3, <1>7, <3>2
  <2> QED BY <1>3, <2>1, <2>3, <2>4
<1> QED BY <1>4, <1>10, <1>11 DEF d, p

\* Entries of field f behind the other entries of f keep the order.
LEMMA SpreadOrdered ==
    ASSUME NEW c, Contents(c), NEW f \in Fields, NEW k \in Nat, NEW d \in Seq(Entries),
           Len(d) = Len(c) + k,
           \A i \in 1..Len(d) :
              d[i][1] = IF i <= Upto(c, f) THEN c[i][1]
                        ELSE IF i <= Upto(c, f) + k THEN f ELSE c[i - k][1]
    PROVE  Contents(d)
<1> DEFINE U == Upto(c, f)
<1>1. f \in Nat
  BY FieldAssumption DEF Fields
<1>2. U \in 0..Len(c) /\ \A i \in 1..Len(c) : c[i][1] <= f <=> i <= U
  BY <1>1, UptoIs
<1>3. Len(c) \in Nat /\ \A i \in 1..Len(c) : c[i] \in Entries
  BY DEF Contents
<1>4. \A i \in 1..Len(c) : c[i][1] \in Nat
  BY <1>3, EntryType, SMTT(30), Zenon
<1>5. \A i, j \in 1..Len(c) : i <= j => c[i][1] <= c[j][1]
  BY DEF Contents, Ordered
<1>6. \A i \in 1..Len(d) : d[i][1] = IF i <= U THEN c[i][1] ELSE IF i <= U + k THEN f ELSE c[i - k][1]
  OBVIOUS
<1> HIDE DEF U
<1>7. ASSUME NEW i \in 1..Len(d), NEW j \in 1..Len(d), i <= j
      PROVE  d[i][1] <= d[j][1]
  <2>1. i \in Int /\ j \in Int /\ U \in Nat
    BY <1>2, <1>3
  <2>2. CASE j <= U
    <3>1. i \in 1..Len(c) /\ j \in 1..Len(c) /\ i <= U
      BY <1>2, <1>3, <1>7, <2>2
    <3> QED BY <1>5, <1>6, <1>7, <2>2, <3>1
  <2>3. CASE U < j /\ j <= U + k
    <3>1. d[j][1] = f
      BY <1>6, <2>1, <2>3
    <3>2. CASE i <= U
      <4>1. i \in 1..Len(c)
        BY <1>2, <1>3, <3>2
      <4> QED BY <1>2, <1>6, <3>1, <3>2, <4>1
    <3>3. CASE U < i
      <4>1. i <= U + k /\ ~(i <= U)
        BY <1>7, <2>1, <2>3, <3>3
      <4>2. d[i][1] = f
        BY <1>6, <4>1
      <4> QED BY <1>1, <3>1, <4>2
    <3> QED BY <2>1, <3>2, <3>3
  <2>4. CASE j > U + k
    <3>1. j - k \in 1..Len(c) /\ ~(j - k <= U) /\ ~(j <= U) /\ ~(j <= U + k)
      BY <1>2, <1>3, <2>1, <2>4
    <3>2. d[j][1] = c[j - k][1] /\ ~(c[j - k][1] <= f) /\ c[j - k][1] \in Nat
      BY <1>2, <1>4, <1>6, <3>1
    <3>3. CASE i <= U
      <4>1. i \in 1..Len(c) /\ i <= j - k
        BY <1>2, <1>3, <2>1, <2>4, <3>3
      <4> QED BY <1>5, <1>6, <3>1, <3>2, <3>3, <4>1
    <3>4. CASE U < i /\ i <= U + k
      <4>1. d[i][1] = f
        BY <1>6, <2>1, <3>4
      <4> QED BY <1>1, <3>2, <4>1
    <3>5. CASE i > U + k
      <4>1. i - k \in 1..Len(c) /\ i - k <= j - k /\ ~(i <= U) /\ ~(i <= U + k)
        BY <1>2, <1>3, <1>7, <2>1, <3>5
      <4>2. d[i][1] = c[i - k][1]
        BY <1>6, <4>1
      <4> QED BY <1>5, <3>1, <3>2, <4>1, <4>2
    <3> QED BY <2>1, <3>3, <3>4, <3>5
  <2> QED BY <2>1, <2>2, <2>3, <2>4
<1> QED BY <1>7 DEF Contents, Ordered

\* The blank value of a field is of its type.
LEMMA BlankType == \A f \in Fields : <<f, Blank(f)>> \in Entries
<1> SUFFICES ASSUME NEW f \in Fields PROVE <<f, Blank(f)>> \in Entries
  OBVIOUS
<1>1. Blank(f) \in ValuesOf(Bfldtype(f))
  BY DEF Blank, ValuesOf, Bfldtype
<1> QED BY <1>1, EntryMade

\* Bchg of an occurrence that is there.
LEMMA ReplacedIs ==
    ASSUME NEW c, Contents(c), NEW f \in Fields, NEW v \in ValuesOf(Bfldtype(f)),
           NEW p \in 1..Len(c), c[p][1] = f
    PROVE  Contents([c EXCEPT ![p] = <<f, v>>]) /\ Len([c EXCEPT ![p] = <<f, v>>]) = Len(c)
<1> DEFINE e == <<f, v>>
           d == [c EXCEPT ![p] = e]
<1>1. e \in Entries /\ e[1] = f
  BY EntryMade
<1>2. c \in Seq(Entries)
  BY DEF Contents
<1> HIDE DEF e
<1>3. /\ d \in Seq(Entries) /\ Len(d) = Len(c)
      /\ \A j \in 1..Len(c) : d[j] = IF j = p THEN e ELSE c[j]
  BY <1>1, <1>2, ExceptSeq
<1> HIDE DEF d
<1>4. \A j \in 1..Len(c) : d[j][1] = c[j][1]
  BY <1>1, <1>3
<1>5. Contents(d)
  BY <1>3, <1>4 DEF Contents, Ordered
<1> QED BY <1>3, <1>5 DEF d, e

\* Bchg of an occurrence that is not there: the gap before it is filled up.
LEMMA FilledUpIs ==
    ASSUME NEW c, Contents(c), NEW f \in Fields, NEW v \in ValuesOf(Bfldtype(f)), NEW g \in Nat
    PROVE  Contents(SubSeq(c, 1, Upto(c, f)) \o [k \in 1..g |-> <<f, Blank(f)>>] \o <<<<f, v>>>>
                       \o SubSeq(c, Upto(c, f) + 1, Len(c)))
<1> DEFINE U == Upto(c, f)
           A == SubSeq(c, 1, U)
           G == [k \in 1..g |-> <<f, Blank(f)>>]
           E == <<<<f, v>>>>
           B == SubSeq(c, U + 1, Len(c))
<1>1. f \in Int
  BY FieldAssumption DEF Fields
<1>2. U \in 0..Len(c) /\ Len(c) \in Nat /\ c \in Seq(Entries)
  BY <1>1, UptoIs DEF Contents
<1> HIDE DEF U
<1>3. A \in Seq(Entries) /\ Len(A) = U /\ \A i \in 1..U : A[i] = c[i]
  BY <1>2
<1>4. B \in Seq(Entries) /\ Len(B) = Len(c) - U /\ \A i \in 1..(Len(c) - U) : B[i] = c[U + i]
  BY <1>2
<1>5. G \in Seq(Entries) /\ Len(G) = g /\ \A i \in 1..g : G[i][1] = f
  <2>1. <<f, Blank(f)>> \in Entries
    BY BlankType
  <2>2. G \in [1..g -> Entries]
    BY <2>1
  <2> QED BY <2>2
<1>6. E \in Seq(Entries) /\ Len(E) = 1 /\ E[1][1] = f
  <2>1. <<f, v>> \in Entries
    BY EntryMade
  <2> QED BY <2>1
<1> HIDE DEF A, B, G, E
<1>7. /\ A \o G \in Seq(Entries) /\ Len(A \o G) = U + g
      /\ \A i \in 1..(U + g) : (A \o G)[i] = IF i <= U THEN A[i] ELSE G[i - U]
  BY <1>3, <1>5, ConcatProperties, Zenon
<1> DEFINE AG == A \o G
<1> HIDE DEF AG
<1>8. \A i \in 1..(U + g) : AG[i][1] = IF i <= U THEN c[i][1] ELSE f
  <2> SUFFICES ASSUME NEW i \in 1..(U + g) PROVE AG[i][1] = IF i <= U THEN c[i][1] ELSE f
    OBVIOUS
  <2>1. CASE i <= U
    BY <1>2, <1>3, <1>7, <2>1 DEF AG
  <2>2. CASE ~(i <= U)
    <3>1. i - U \in 1..g
      BY <1>2, <2>2
    <3> QED BY <1>5, <1>7, <2>2, <3>1 DEF AG
  <2> QED BY <2>1, <2>2
<1>9. AG \in Seq(Entries) /\ Len(AG) = U + g
  BY <1>7 DEF AG
<1>10. /\ AG \o E \in Seq(Entries) /\ Len(AG \o E) = Len(AG) + Len(E)
       /\ \A i \in 1..(Len(AG) + Len(E)) : (AG \o E)[i] = IF i <= Len(AG) THEN AG[i] ELSE E[i - Len(AG)]
  BY <1>6, <1>9, ConcatProperties, Zenon
<1> DEFINE AE == AG \o E
<1> HIDE DEF AE
<1>11. AE \in Seq(Entries) /\ Len(AE) = U + g + 1
  BY <1>2, <1>6, <1>9, <1>10 DEF AE
<1>12. \A i \in 1..(U + g + 1) : AE[i][1] = IF i <= U THEN c[i][1] ELSE f
  <2> SUFFICES ASSUME NEW i \in 1..(U + g + 1) PROVE AE[i][1] = IF i <= U THEN c[i][1] ELSE f
    OBVIOUS
  <2>0. AE[i] = IF i <= U + g THEN AG[i] ELSE E[i - (U + g)]
    BY <1>6, <1>9, <1>10 DEF AE
  <2>1. CASE i <= U + g
    <3>1. i \in 1..(U + g)
      BY <1>2, <2>1
    <3> QED BY <1>8, <2>0, <2>1, <3>1
  <2>2. CASE ~(i <= U + g)
    <3>1. i - (U + g) = 1 /\ ~(i <= U)
      BY <1>2, <2>2
    <3>2. AE[i] = E[1]
      BY <2>0, <2>2, <3>1
    <3> QED BY <1>6, <3>1, <3>2
  <2> QED BY <2>1, <2>2
<1>13. /\ AE \o B \in Seq(Entries) /\ Len(AE \o B) = Len(AE) + Len(B)
       /\ \A i \in 1..(Len(AE) + Len(B)) : (AE \o B)[i] = IF i <= Len(AE) THEN AE[i] ELSE B[i - Len(AE)]
  BY <1>4, <1>11, ConcatProperties, Zenon
<1> DEFINE d == AE \o B
<1> HIDE DEF d
<1>14. d \in Seq(Entries) /\ Len(d) = Len(c) + (g + 1)
  BY <1>2, <1>4, <1>11, <1>13 DEF d
<1>15. \A i \in 1..Len(d) :
          d[i][1] = IF i <= U THEN c[i][1] ELSE IF i <= U + (g + 1) THEN f ELSE c[i - (g + 1)][1]
  <2> SUFFICES ASSUME NEW i \in 1..Len(d)
               PROVE  d[i][1] = IF i <= U THEN c[i][1] ELSE IF i <= U + (g + 1) THEN f ELSE c[i - (g + 1)][1]
    OBVIOUS
  <2>0. d[i] = IF i <= U + g + 1 THEN AE[i] ELSE B[i - (U + g + 1)]
    BY <1>4, <1>11, <1>13, <1>14 DEF d
  <2>1. CASE i <= U + g + 1
    <3>1. i \in 1..(U + g + 1) /\ i <= U + (g + 1)
      BY <1>2, <2>1
    <3> QED BY <1>12, <2>0, <2>1, <3>1
  <2>2. CASE ~(i <= U + g + 1)
    <3>1. i - (U + g + 1) \in 1..(Len(c) - U) /\ ~(i <= U) /\ ~(i <= U + (g + 1))
      BY <1>2, <1>14, <2>2
    <3>2. U + (i - (U + g + 1)) = i - (g + 1)
      BY <1>2
    <3>3. d[i] = c[i - (g + 1)]
      BY <1>4, <2>0, <2>2, <3>1, <3>2
    <3> QED BY <3>1, <3>3
  <2> QED BY <2>1, <2>2
<1>16. Contents(d)
  <2> DEFINE k == g + 1
  <2>1. k \in Nat /\ Len(d) = Len(c) + k
    BY <1>14
  <2>2. \A i \in 1..Len(d) :
           d[i][1] = IF i <= Upto(c, f) THEN c[i][1]
                     ELSE IF i <= Upto(c, f) + k THEN f ELSE c[i - k][1]
    BY <1>15 DEF U
  <2> HIDE DEF k
  <2> QED BY <1>14, <2>1, <2>2, SpreadOrdered
<1> QED BY <1>16 DEF d, AE, AG, A, B, G, E, U

\* Bchg keeps the order of the fields.
LEMMA ChangedIs ==
    ASSUME NEW c, Contents(c), NEW f \in Fields, NEW o \in Nat, NEW v \in ValuesOf(Bfldtype(f))
    PROVE  Contents(Changed(c, f, o, v))
<1>1. f \in Int
  BY FieldAssumption DEF Fields
<1>2. CASE Has(c, f, o)
  <2>1. Pos(c, f, o) \in 1..Len(c) /\ c[Pos(c, f, o)][1] = f
    BY <1>1, <1>2, PosIs
  <2>2. Contents([c EXCEPT ![Pos(c, f, o)] = <<f, v>>])
    BY <2>1, ReplacedIs
  <2> QED BY <1>2, <2>2 DEF Changed
<1>3. CASE ~Has(c, f, o)
  <2> DEFINE g == o - Occurrences(c, f)
  <2>1. Occurrences(c, f) \in Nat
    <3>1. /\ Upto(c, f - 1) \in Nat /\ Upto(c, f) \in Nat /\ Upto(c, f - 1) <= Upto(c, f)
          /\ Occurrences(c, f) = Upto(c, f) - Upto(c, f - 1)
      BY <1>1, OccurrencesAre
    <3> QED BY <3>1
  <2>2. g \in Nat
    BY <1>3, <2>1 DEF Has
  <2> HIDE DEF g
  <2>3. Contents(SubSeq(c, 1, Upto(c, f)) \o [k \in 1..g |-> <<f, Blank(f)>>] \o <<<<f, v>>>>
                       \o SubSeq(c, Upto(c, f) + 1, Len(c)))
    BY <2>2, FilledUpIs
  <2> QED BY <1>3, <2>3 DEF Changed, g
<1> QED BY <1>2, <1>3

\* RemoveAt, entry by entry.
LEMMA RemoveIs ==
    ASSUME NEW S, NEW c \in Seq(S), NEW p \in 1..Len(c)
    PROVE  /\ RemoveAt(c, p) \in Seq(S) /\ Len(RemoveAt(c, p)) = Len(c) - 1
           /\ \A i \in 1..(Len(c) - 1) : RemoveAt(c, p)[i] = IF i < p THEN c[i] ELSE c[i + 1]
<1> DEFINE A == SubSeq(c, 1, p - 1)
           B == SubSeq(c, p + 1, Len(c))
<1>1. Len(c) \in Nat /\ p \in Int /\ \A i \in 1..Len(c) : c[i] \in S
  OBVIOUS
<1>2. A \in Seq(S) /\ Len(A) = p - 1 /\ \A i \in 1..(p - 1) : A[i] = c[i]
  BY <1>1
<1>3. B \in Seq(S) /\ Len(B) = Len(c) - p /\ \A i \in 1..(Len(c) - p) : B[i] = c[p + i]
  BY <1>1
<1> HIDE DEF A, B
<1>4. /\ A \o B \in Seq(S) /\ Len(A \o B) = Len(A) + Len(B)
      /\ \A i \in 1..(Len(A) + Len(B)) : (A \o B)[i] = IF i <= Len(A) THEN A[i] ELSE B[i - Len(A)]
  BY <1>2, <1>3, ConcatProperties, Zenon
<1>5. Len(A) + Len(B) = Len(c) - 1
  BY <1>1, <1>2, <1>3
<1>6. ASSUME NEW i \in 1..(Len(c) - 1)
      PROVE  (A \o B)[i] = IF i < p THEN c[i] ELSE c[i + 1]
  <2>1. (A \o B)[i] = IF i <= p - 1 THEN A[i] ELSE B[i - (p - 1)]
    BY <1>2, <1>4, <1>5
  <2>2. CASE i < p
    BY <1>1, <1>2, <2>1, <2>2
  <2>3. CASE ~(i < p)
    <3>1. i - (p - 1) \in 1..(Len(c) - p) /\ p + (i - (p - 1)) = i + 1 /\ ~(i <= p - 1)
      BY <1>1, <2>3
    <3>2. B[i - (p - 1)] = c[i + 1]
      BY <1>3, <3>1
    <3> QED BY <2>1, <2>3, <3>1, <3>2
  <2> QED BY <2>2, <2>3, Zenon
<1>7. RemoveAt(c, p) = A \o B
  BY DEF RemoveAt, A, B
<1> QED BY <1>4, <1>5, <1>6, <1>7

\* Bdel keeps the order of the fields.
LEMMA DeletedIs ==
    ASSUME NEW c, Contents(c), NEW f \in Int, NEW o \in Nat, Has(c, f, o)
    PROVE  Contents(Deleted(c, f, o)) /\ Len(Deleted(c, f, o)) <= Len(c)
<1> DEFINE d == Deleted(c, f, o)
           p == Pos(c, f, o)
<1>1. p \in 1..Len(c)
  BY PosIs
<1>2. c \in Seq(Entries) /\ Len(c) \in Nat
  BY DEF Contents
<1>3. d = RemoveAt(c, p)
  BY DEF Deleted
<1> HIDE DEF d, p
<1>4. /\ d \in Seq(Entries) /\ Len(d) = Len(c) - 1
      /\ \A i \in 1..(Len(c) - 1) : d[i] = IF i < p THEN c[i] ELSE c[i + 1]
  BY <1>1, <1>2, <1>3, RemoveIs, Zenon
<1>5. \A i, j \in 1..Len(c) : i <= j => c[i][1] <= c[j][1]
  BY DEF Contents, Ordered
<1>6. ASSUME NEW i \in 1..Len(d), NEW j \in 1..Len(d), i <= j
      PROVE  d[i][1] <= d[j][1]
  <2>1. i \in 1..Len(c) /\ i + 1 \in 1..Len(c) /\ j \in 1..Len(c) /\ j + 1 \in 1..Len(c)
    BY <1>2, <1>4
  <2>2. CASE j < p
    <3>1. i < p
      BY <1>1, <1>6, <2>2
    <3> QED BY <1>4, <1>5, <1>6, <2>1, <2>2, <3>1
  <2>3. CASE ~(j < p) /\ i < p
    <3>1. i <= j + 1
      BY <1>6
    <3>2. d[i] = c[i] /\ d[j] = c[j + 1]
      BY <1>4, <2>3
    <3> QED BY <1>5, <2>1, <3>1, <3>2
  <2>4. CASE ~(j < p) /\ ~(i < p)
    <3>1. i + 1 <= j + 1
      BY <1>6
    <3>2. d[i] = c[i + 1] /\ d[j] = c[j + 1]
      BY <1>4, <2>4
    <3> QED BY <1>5, <2>1, <3>1, <3>2
  <2> QED BY <2>2, <2>3, <2>4
<1>7. Contents(d)
  BY <1>4, <1>6 DEF Contents, Ordered
<1> QED BY <1>2, <1>4, <1>7 DEF d

-----------------------------------------------------------------------------
(* Operations that go over the entries of a buffer. *)

\* Induction up to N.
LEMMA UpTo ==
    ASSUME NEW N \in Nat, NEW G, 0 \in G, \A n \in 1..N : n - 1 \in G => n \in G
    PROVE  \A n \in 0..N : n \in G
<1> DEFINE T == {n \in 0..N : n \notin G}
<1> SUFFICES ASSUME T # {} PROVE FALSE
  OBVIOUS
<1>1. T \subseteq Nat
  OBVIOUS
<1>2. PICK n \in T : \A m \in T : n <= m
  <2> HIDE DEF T
  <2> QED BY <1>1, LeastNatural, Zenon
<1>3. n \in 1..N /\ n \notin G
  BY <1>2
<1>4. n - 1 \in 0..N /\ ~(n <= n - 1)
  BY <1>3
<1>5. n - 1 \notin T
  BY <1>2, <1>4
<1> QED BY <1>3, <1>4, <1>5

\* A definition by recursion from 0 to N: it starts with a and goes on with H.
Steps(N, S, H) == H \in [1..N -> [S -> S]]

Solution(N, S, a, H, f) ==
    f \in [0..N -> S] /\ f[0] = a /\ \A n \in 1..N : f[n] = H[n][f[n - 1]]

LEMMA Recursion ==
    ASSUME NEW N \in Nat, NEW S, NEW a \in S, NEW H, Steps(N, S, H)
    PROVE  \E f : Solution(N, S, a, H, f)
<1>0. H \in [1..N -> [S -> S]]
  BY DEF Steps
<1> DEFINE Sol(m, f) == f[0] = a /\ \A n \in 1..m : f[n] = H[n][f[n - 1]]
           G == {m \in 0..N : \E f \in [0..m -> S] : Sol(m, f)}
<1>1. 0 \in G
  <2>1. [n \in 0..0 |-> a] \in [0..0 -> S] /\ Sol(0, [n \in 0..0 |-> a])
    OBVIOUS
  <2> HIDE DEF Sol
  <2> QED BY <2>1
<1>2. ASSUME NEW m \in 1..N, m - 1 \in G PROVE m \in G
  <2>1. PICK f \in [0..(m - 1) -> S] : Sol(m - 1, f)
    BY <1>2
  <2> DEFINE x == H[m][f[m - 1]]
             g == [n \in 0..m |-> IF n = m THEN x ELSE f[n]]
  <2>2. m - 1 \in 0..(m - 1) /\ m \in Nat
    OBVIOUS
  <2>3. x \in S
    BY <1>0, <2>2
  <2>4. \A n \in 0..m : n # m => n \in 0..(m - 1)
    OBVIOUS
  <2>5. g \in [0..m -> S]
    <3> HIDE DEF x
    <3> QED BY <2>3, <2>4
  <2>6. g[m] = x /\ \A n \in 0..(m - 1) : g[n] = f[n]
    BY <2>2
  <2> HIDE DEF g
  <2>7. g[0] = a
    BY <2>1, <2>2, <2>6
  <2>8. ASSUME NEW n \in 1..m PROVE g[n] = H[n][g[n - 1]]
    <3>1. n - 1 \in 0..(m - 1)
      OBVIOUS
    <3>2. CASE n = m
      BY <2>6, <3>1, <3>2
    <3>3. CASE n # m
      <4>1. n \in 1..(m - 1) /\ n \in 0..(m - 1)
        BY <3>3
      <4> QED BY <2>1, <2>6, <3>1, <4>1
    <3> QED BY <3>2, <3>3
  <2>9. Sol(m, g)
    BY <2>7, <2>8
  <2> HIDE DEF Sol
  <2> QED BY <2>5, <2>9
<1>3. N \in G
  <2>1. N \in 0..N
    OBVIOUS
  <2> HIDE DEF G
  <2> QED BY <1>1, <1>2, <2>1, UpTo
<1> QED BY <1>3 DEF Solution

\* The function that Picked is defined with.
PickedUpto(c, P) ==
    CHOOSE upto : upto = [n \in 0..Len(c) |->
        IF n = 0 THEN <<>>
        ELSE IF n \in P THEN Append(upto[n - 1], c[n]) ELSE upto[n - 1]]

LEMMA PickedUnfolds ==
    ASSUME NEW S, NEW c \in Seq(S), NEW P
    PROVE  /\ PickedUpto(c, P)[0] = <<>>
           /\ \A n \in 1..Len(c) :
                 PickedUpto(c, P)[n] = IF n \in P THEN Append(PickedUpto(c, P)[n - 1], c[n])
                                       ELSE PickedUpto(c, P)[n - 1]
<1> DEFINE N == Len(c)
           H == [n \in 1..N |-> [s \in Seq(S) |-> IF n \in P THEN Append(s, c[n]) ELSE s]]
           Body(u) == [n \in 0..N |-> IF n = 0 THEN <<>>
                                      ELSE IF n \in P THEN Append(u[n - 1], c[n]) ELSE u[n - 1]]
<1>1. N \in Nat /\ <<>> \in Seq(S)
  OBVIOUS
<1>2. H \in [1..N -> [Seq(S) -> Seq(S)]]
  OBVIOUS
<1>3. \A n \in 1..N : \A s \in Seq(S) : H[n][s] = IF n \in P THEN Append(s, c[n]) ELSE s
  OBVIOUS
<1> HIDE DEF H, N
<1>4. PICK f \in [0..N -> Seq(S)] : f[0] = <<>> /\ \A n \in 1..N : f[n] = H[n][f[n - 1]]
  <2>1. Steps(N, Seq(S), H)
    BY <1>2 DEF Steps
  <2>2. \E f : Solution(N, Seq(S), <<>>, H, f)
    BY <1>1, <2>1, Recursion, Zenon
  <2> QED BY <2>2, Zenon DEF Solution
<1>5. f = Body(f)
  <2>1. ASSUME NEW n \in 0..N PROVE f[n] = Body(f)[n]
    <3>1. CASE n = 0
      BY <1>4, <3>1
    <3>2. CASE n # 0
      <4>1. n \in 1..N /\ n - 1 \in 0..N
        BY <1>1, <3>2
      <4>2. f[n - 1] \in Seq(S)
        BY <4>1
      <4>3. f[n] = IF n \in P THEN Append(f[n - 1], c[n]) ELSE f[n - 1]
        BY <1>3, <1>4, <4>1, <4>2, Zenon
      <4> QED BY <3>2, <4>3
    <3> QED BY <3>1, <3>2
  <2> QED BY <2>1
<1> DEFINE u == PickedUpto(c, P)
<1>6. u = Body(u)
  <2>1. u = CHOOSE g : g = Body(g)
    BY DEF PickedUpto, N
  <2> HIDE DEF Body, u
  <2> QED BY <1>5, <2>1
<1> HIDE DEF u
<1>7. \A n \in 0..N : u[n] = IF n = 0 THEN <<>> ELSE IF n \in P THEN Append(u[n - 1], c[n]) ELSE u[n - 1]
  BY <1>6, Zenon
<1>8. \A n \in 1..N : n \in 0..N /\ n # 0
  BY <1>1
<1> QED BY <1>1, <1>7, <1>8 DEF u, N

\* Some of the entries, in their order.
LEMMA PickedIs ==
    ASSUME NEW c, Contents(c), NEW P
    PROVE  Contents(Picked(c, P)) /\ Len(Picked(c, P)) <= Len(c)
<1> DEFINE N == Len(c)
           u == PickedUpto(c, P)
           Good(n) == /\ Contents(u[n]) /\ Len(u[n]) <= n
                      /\ \A m \in 1..N : m > n =>
                            \A i \in 1..Len(u[n]) : u[n][i][1] <= c[m][1]
           G == {n \in 0..N : Good(n)}
<1>1. c \in Seq(Entries) /\ N \in Nat /\ \A i \in 1..N : c[i] \in Entries
  BY DEF Contents
<1>2. /\ u[0] = <<>>
      /\ \A n \in 1..N : u[n] = IF n \in P THEN Append(u[n - 1], c[n]) ELSE u[n - 1]
  BY <1>1, PickedUnfolds
<1>3. \A i, j \in 1..N : i <= j => c[i][1] <= c[j][1]
  BY DEF Contents, Ordered
<1>4. Picked(c, P) = u[N]
  BY DEF Picked, PickedUpto
<1> HIDE DEF u, N
<1>5. 0 \in G
  <2>1. Contents(<<>>)
    BY DEF Contents, Ordered
  <2> QED BY <1>1, <1>2, <2>1
<1>6. ASSUME NEW n \in 1..N, n - 1 \in G PROVE n \in G
  <2> DEFINE s == u[n - 1]
  <2>1. /\ Contents(s) /\ Len(s) <= n - 1
        /\ \A m \in 1..N : m > n - 1 => \A i \in 1..Len(s) : s[i][1] <= c[m][1]
    BY <1>6
  <2>2. u[n] = IF n \in P THEN Append(s, c[n]) ELSE s
    BY <1>2
  <2>3. s \in Seq(Entries) /\ Len(s) \in Nat
    BY <2>1 DEF Contents
  <2> HIDE DEF s
  <2>4. CASE n \notin P
    <3>1. u[n] = s /\ Len(s) <= n
      BY <2>1, <2>2, <2>3, <2>4
    <3>2. \A m \in 1..N : m > n => m > n - 1
      OBVIOUS
    <3>3. Good(n)
      BY <2>1, <3>1, <3>2
    <3> HIDE DEF Good
    <3> QED BY <1>1, <3>3
  <2>5. CASE n \in P
    <3> DEFINE d == Append(s, c[n])
    <3>1. /\ d \in Seq(Entries) /\ Len(d) = Len(s) + 1 /\ d[Len(s) + 1] = c[n]
          /\ \A i \in 1..Len(s) : d[i] = s[i]
      BY <1>1, <2>3
    <3> HIDE DEF d
    <3>2. u[n] = d
      BY <2>2, <2>5 DEF d
    <3>3. ASSUME NEW i \in 1..Len(d) PROVE d[i][1] <= c[n][1]
      <4>1. CASE i = Len(s) + 1
        BY <1>1, <1>3, <3>1, <4>1
      <4>2. CASE i # Len(s) + 1
        <5>1. i \in 1..Len(s) /\ n > n - 1
          BY <2>3, <3>1, <4>2
        <5> QED BY <2>1, <3>1, <5>1
      <4> QED BY <4>1, <4>2
    <3>4. ASSUME NEW i \in 1..Len(d), NEW j \in 1..Len(d), i <= j PROVE d[i][1] <= d[j][1]
      <4>1. CASE j = Len(s) + 1
        BY <3>1, <3>3, <4>1
      <4>2. CASE j # Len(s) + 1
        <5>1. i \in 1..Len(s) /\ j \in 1..Len(s)
          BY <2>3, <3>1, <3>4, <4>2
        <5>2. s[i][1] <= s[j][1]
          BY <2>1, <3>4, <5>1 DEF Contents, Ordered
        <5> QED BY <3>1, <5>1, <5>2
      <4> QED BY <4>1, <4>2
    <3>5. Contents(d) /\ Len(d) <= n
      BY <2>1, <2>3, <3>1, <3>4 DEF Contents, Ordered
    <3>6. ASSUME NEW m \in 1..N, m > n, NEW i \in 1..Len(d) PROVE d[i][1] <= c[m][1]
      <4>1. c[n][1] <= c[m][1] /\ c[n][1] \in Nat /\ c[m][1] \in Nat
        <5>1. c[n] \in Entries /\ c[m] \in Entries /\ n <= m
          BY <1>1, <3>6
        <5>2. c[n][1] \in Nat /\ c[m][1] \in Nat
          BY <5>1, EntryType
        <5>3. c[n][1] <= c[m][1]
          BY <1>3, <5>1
        <5> QED BY <5>2, <5>3, Zenon
      <4>2. d[i][1] \in Nat
        BY <3>1, EntryType
      <4> QED BY <3>3, <4>1, <4>2
    <3>7. Good(n)
      BY <3>2, <3>5, <3>6
    <3> HIDE DEF Good
    <3> QED BY <1>1, <3>7
  <2> QED BY <2>4, <2>5
<1>7. N \in G
  <2>1. N \in 0..N
    BY <1>1
  <2> HIDE DEF G
  <2> QED BY <1>1, <1>5, <1>6, <2>1, UpTo, Zenon
<1> QED BY <1>4, <1>7 DEF N

\* The values that an outer join takes over are of the type of their field.
LEMMA OuterJoinedIs ==
    ASSUME NEW c, Contents(c), NEW s, Contents(s)
    PROVE  Contents(OuterJoined(c, s)) /\ Len(OuterJoined(c, s)) = Len(c)
<1> DEFINE d == OuterJoined(c, s)
<1>1. Len(c) \in Nat /\ DOMAIN c = 1..Len(c) /\ \A i \in 1..Len(c) : c[i] \in Entries
  BY DEF Contents
<1>2. \A i \in 1..Len(c) : d[i] = IF i \in Common(c, s)
                                 THEN <<c[i][1], Value(s, c[i][1], OccAt(c, i))>> ELSE c[i]
  BY <1>1 DEF OuterJoined
<1>3. ASSUME NEW i \in 1..Len(c) PROVE d[i] \in Entries /\ d[i][1] = c[i][1]
  <2>1. CASE i \notin Common(c, s)
    BY <1>1, <1>2, <2>1, Zenon
  <2>2. CASE i \in Common(c, s)
    <3> DEFINE f == c[i][1]
               o == OccAt(c, i)
               p == Pos(s, f, o)
    <3>1. f \in Fields /\ f \in Int
      BY <1>1, EntryType
    <3>2. i \in Nat /\ Has(s, f, o)
      BY <2>2 DEF Common
    <3>3. o \in Nat
      BY <3>2, OccAtNat
    <3> HIDE DEF f, o
    <3>4. p \in 1..Len(s) /\ s[p][1] = f
      BY <3>1, <3>2, <3>3, PosIs
    <3> HIDE DEF p
    <3>5. s[p] \in Entries
      BY <3>4 DEF Contents
    <3>6. s[p][2] \in ValuesOf(Bfldtype(f))
      BY <3>4, <3>5, EntryType
    <3>7. <<f, s[p][2]>> \in Entries
      BY <3>1, <3>6, EntryMade
    <3>8. Value(s, f, o) = s[p][2]
      BY DEF Value, p
    <3>9. d[i] = <<f, s[p][2]>>
      BY <1>2, <2>2, <3>8, Zenon DEF f, o
    <3> QED BY <3>7, <3>9 DEF f
  <2> QED BY <2>1, <2>2
<1>4. d \in [1..Len(c) -> Entries]
  <2>1. DOMAIN d = 1..Len(c) /\ d = [i \in 1..Len(c) |-> d[i]]
    BY <1>1 DEF OuterJoined
  <2> HIDE DEF d
  <2> QED BY <1>3, <2>1
<1> HIDE DEF d
<1>5. d \in Seq(Entries) /\ Len(d) = Len(c)
  BY <1>1, <1>4
<1>6. \A i, j \in 1..Len(d) : i <= j => d[i][1] <= d[j][1]
  BY <1>3, <1>5 DEF Contents, Ordered
<1>7. Contents(d)
  BY <1>5, <1>6 DEF Contents, Ordered
<1> QED BY <1>5, <1>7 DEF d

\* A join is no longer than the buffer it is put into.
LEMMA JoinedIs ==
    ASSUME NEW c, Contents(c), NEW s, Contents(s)
    PROVE  Contents(Joined(c, s)) /\ Len(Joined(c, s)) <= Len(c)
<1>1. Contents(OuterJoined(c, s)) /\ Len(OuterJoined(c, s)) = Len(c)
  BY OuterJoinedIs
<1>2. /\ Contents(Picked(OuterJoined(c, s), Common(c, s)))
      /\ Len(Picked(OuterJoined(c, s), Common(c, s))) <= Len(OuterJoined(c, s))
  BY <1>1, PickedIs, Zenon
<1> QED BY <1>1, <1>2 DEF Joined

LEMMA OnlyIs ==
    ASSUME NEW c, Contents(c), NEW F
    PROVE  Contents(Only(c, F)) /\ Len(Only(c, F)) <= Len(c)
  BY PickedIs, Zenon DEF Only

LEMMA PutIs ==
    ASSUME NEW c, Contents(c), NEW s, Contents(s), NEW i \in 1..Len(s), NEW how
    PROVE  Contents(Put(how, c, s, i))
<1>1. s[i] \in Entries /\ i \in Nat
  BY DEF Contents
<1>2. s[i][1] \in Fields /\ s[i][2] \in ValuesOf(Bfldtype(s[i][1])) /\ OccAt(s, i) \in Nat
  BY <1>1, EntryType, OccAtNat
<1>3. Contents(Added(c, s[i][1], s[i][2]))
  BY <1>2, AddedIs, Zenon
<1>4. Contents(Changed(c, s[i][1], OccAt(s, i), s[i][2]))
  BY <1>2, ChangedIs, Zenon
<1> QED BY <1>3, <1>4, Zenon DEF Put

\* A set of naturals up to N has a greatest one.
LEMMA Greatest ==
    ASSUME NEW N \in Nat, NEW T, T \subseteq 0..N, T # {}
    PROVE  \E m \in T : \A k \in T : k <= m
<1> DEFINE U == {m \in Nat : \A k \in T : k <= m}
<1>1. U \subseteq Nat /\ N \in U
  OBVIOUS
<1>2. PICK m \in U : \A k \in U : m <= k
  <2> HIDE DEF U
  <2> QED BY <1>1, LeastNatural, Zenon
<1>3. m \in Nat /\ \A k \in T : k <= m
  BY <1>2
<1>4. ASSUME m \notin T PROVE FALSE
  <2>1. PICK k \in T : TRUE
    BY Zenon
  <2>2. m - 1 \in Nat
    BY <1>3, <1>4, <2>1
  <2>3. \A j \in T : j <= m - 1
    BY <1>3, <1>4
  <2>4. m - 1 \in U
    BY <2>2, <2>3
  <2> QED BY <1>2, <1>3, <2>4
<1> QED BY <1>3, <1>4

\* The contents after each entry that Filled puts.
FilledAt(c, entries, how) ==
    CHOOSE at : at = [n \in 0..Len(entries) |->
        IF n = 0 THEN c ELSE Put(how, at[n - 1], entries, n)]

LEMMA FilledUnfolds ==
    ASSUME NEW c, Contents(c), NEW s, Contents(s), NEW how
    PROVE  /\ FilledAt(c, s, how)[0] = c
           /\ \A n \in 1..Len(s) :
                 /\ FilledAt(c, s, how)[n] = Put(how, FilledAt(c, s, how)[n - 1], s, n)
                 /\ Contents(FilledAt(c, s, how)[n])
<1> DEFINE N == Len(s)
           Q == {d \in Seq(Entries) : Ordered(d)}
           H == [n \in 1..N |-> [d \in Q |-> Put(how, d, s, n)]]
           Body(u) == [n \in 0..N |-> IF n = 0 THEN c ELSE Put(how, u[n - 1], s, n)]
<1>1. N \in Nat /\ c \in Q
  BY DEF Contents
<1>2. \A n \in 1..N : \A d \in Q : Put(how, d, s, n) \in Q
  <2> TAKE n \in 1..N
  <2> TAKE d \in Q
  <2>1. Contents(d)
    BY DEF Contents
  <2>2. Contents(Put(how, d, s, n))
    BY <2>1, PutIs
  <2> QED BY <2>2 DEF Contents
<1>3. \A d : d \in Q <=> Contents(d)
  BY DEF Contents
<1> HIDE DEF N, Q
<1>4. H \in [1..N -> [Q -> Q]]
  BY <1>2
<1>5. \A n \in 1..N : \A d \in Q : H[n][d] = Put(how, d, s, n)
  OBVIOUS
<1> HIDE DEF H
<1>6. PICK f \in [0..N -> Q] : f[0] = c /\ \A n \in 1..N : f[n] = H[n][f[n - 1]]
  <2>1. Steps(N, Q, H)
    BY <1>4 DEF Steps
  <2>2. \E f : Solution(N, Q, c, H, f)
    BY <1>1, <2>1, Recursion, Zenon
  <2> QED BY <2>2, Zenon DEF Solution
<1>7. f = Body(f)
  <2>1. ASSUME NEW n \in 0..N PROVE f[n] = Body(f)[n]
    <3>1. CASE n = 0
      BY <1>6, <3>1
    <3>2. CASE n # 0
      <4>1. n \in 1..N /\ n - 1 \in 0..N
        BY <1>1, <3>2
      <4>2. f[n - 1] \in Q
        BY <4>1
      <4>3. f[n] = Put(how, f[n - 1], s, n)
        BY <1>5, <1>6, <4>1, <4>2
      <4> QED BY <3>2, <4>3
    <3> QED BY <3>1, <3>2
  <2> QED BY <2>1
<1> DEFINE u == FilledAt(c, s, how)
<1>8. u = Body(u)
  <2>1. u = CHOOSE g : g = Body(g)
    BY DEF FilledAt, N
  <2> HIDE DEF Body, u
  <2> QED BY <1>7, <2>1
<1> HIDE DEF u
<1>9. \A n \in 0..N : u[n] = IF n = 0 THEN c ELSE Put(how, u[n - 1], s, n)
  BY <1>8, Zenon
<1>10. u[0] = c /\ \A n \in 1..N : u[n] = Put(how, u[n - 1], s, n)
  <2>1. \A n \in 1..N : n \in 0..N /\ n # 0
    BY <1>1
  <2> QED BY <1>1, <1>9, <2>1
<1> DEFINE G == {n \in 0..N : u[n] \in Q}
<1>11. 0 \in G
  BY <1>1, <1>10
<1>12. \A n \in 1..N : n - 1 \in G => n \in G
  BY <1>1, <1>2, <1>10
<1>13. \A n \in 0..N : n \in G
  <2> HIDE DEF G
  <2> QED BY <1>1, <1>11, <1>12, UpTo, Zenon
<1>14. \A n \in 1..N : Contents(u[n])
  BY <1>1, <1>3, <1>13
<1> QED BY <1>10, <1>14 DEF u, N

\* Filled stops after entry m, before the first one that does not fit.
StopsAfter(m, c, s, how, room) ==
    /\ Filled(c, s, how, room) = [all |-> m = Len(s), c |-> FilledAt(c, s, how)[m]]
    /\ \A k \in 1..m : Len(FilledAt(c, s, how)[k]) <= room
    /\ (\A k \in 1..Len(s) : Len(FilledAt(c, s, how)[k]) <= room) => m = Len(s)

LEMMA FilledIs ==
    ASSUME NEW c, Contents(c), NEW s, Contents(s), NEW how, NEW room \in Nat, Len(c) <= room
    PROVE  \E m \in 0..Len(s) : StopsAfter(m, c, s, how, room)
<1> DEFINE at == FilledAt(c, s, how)
           N == Len(s)
           fits == {n \in 0..N : \A k \in 1..n : Len(at[k]) <= room}
           last == CHOOSE m \in fits : \A k \in fits : k <= m
<1>1. N \in Nat
  BY DEF Contents
<1>2. Filled(c, s, how, room) = [all |-> last = N, c |-> at[last]]
  BY DEF Filled, FilledAt
<1> HIDE DEF at, N
<1>3. 0 \in fits /\ fits \subseteq 0..N
  BY <1>1
<1>4. \A n \in fits : n \in 0..N /\ \A k \in 1..n : Len(at[k]) <= room
  OBVIOUS
<1>5. (\A k \in 1..N : Len(at[k]) <= room) => N \in fits
  BY <1>1
<1> HIDE DEF fits
<1>6. \E m \in fits : \A k \in fits : k <= m
  BY <1>1, <1>3, Greatest, Zenon
<1>7. last \in fits /\ \A k \in fits : k <= last
  BY <1>6, Zenon
<1> HIDE DEF last
<1>8. last \in 0..N /\ \A k \in 1..last : Len(at[k]) <= room
  BY <1>4, <1>7
<1>9. (\A k \in 1..N : Len(at[k]) <= room) => last = N
  BY <1>1, <1>5, <1>7, <1>8
<1> QED BY <1>2, <1>8, <1>9, Zenon DEF at, N, StopsAfter

\* Filled leaves a buffer within its size.
LEMMA FilledKeeps ==
    ASSUME NEW c, Contents(c), NEW s, Contents(s), NEW how, NEW room \in Nat, Len(c) <= room
    PROVE  /\ Contents(Filled(c, s, how, room).c)
           /\ Len(Filled(c, s, how, room).c) <= room
<1> DEFINE at == FilledAt(c, s, how)
<1>1. PICK m \in 0..Len(s) :
         /\ Filled(c, s, how, room) = [all |-> m = Len(s), c |-> at[m]]
         /\ \A k \in 1..m : Len(at[k]) <= room
  BY FilledIs, Zenon DEF StopsAfter
<1>2. at[0] = c /\ \A n \in 1..Len(s) : Contents(at[n])
  BY FilledUnfolds, Zenon
<1> HIDE DEF at
<1>3. Len(s) \in Nat
  BY DEF Contents
<1>4. Filled(c, s, how, room).c = at[m]
  BY <1>1
<1>5. CASE m = 0
  BY <1>2, <1>4, <1>5
<1>6. CASE m # 0
  <2>1. m \in 1..m /\ m \in 1..Len(s)
    BY <1>3, <1>6
  <2> QED BY <1>1, <1>2, <1>4, <2>1
<1> QED BY <1>5, <1>6

-----------------------------------------------------------------------------
(* What the callbacks of Bwrite and Bread move. *)

Pairs == Nat \X Nat

\* A header and the entries.
LEMMA StoredIs ==
    ASSUME NEW c, Contents(c)
    PROVE  /\ Stored(c) \in Seq(Pairs) /\ Len(Stored(c)) = Len(c) + 1
           /\ Stored(c)[1] = <<BBADFLDID, Len(c)>>
           /\ SubSeq(Stored(c), 2, Len(c) + 1) = c
<1> DEFINE h == <<BBADFLDID, Len(c)>>
           H == <<h>>
           d == Stored(c)
           t == SubSeq(d, 2, Len(c) + 1)
<1>1. c \in Seq(Entries) /\ Len(c) \in Nat
  BY DEF Contents
<1>2. c \in Seq(Pairs)
  <2>1. \A e \in Entries : e \in Pairs
    BY FieldAssumption DEF Entries, Fields, Pairs
  <2> QED BY <1>1, <2>1
<1>3. h \in Pairs
  BY <1>1 DEF BBADFLDID, Pairs
<1> HIDE DEF h
<1>4. H \in Seq(Pairs) /\ Len(H) = 1 /\ H[1] = h
  BY <1>3
<1>5. d = H \o c
  BY DEF Stored, h
<1> HIDE DEF H, d
<1>6. /\ d \in Seq(Pairs) /\ Len(d) = Len(H) + Len(c)
      /\ \A i \in 1..(Len(H) + Len(c)) : d[i] = IF i <= Len(H) THEN H[i] ELSE c[i - Len(H)]
  BY <1>2, <1>4, <1>5, ConcatProperties, Zenon
<1>7. Len(d) = Len(c) + 1 /\ d[1] = h
  BY <1>1, <1>4, <1>6
<1>8. /\ t \in Seq(Pairs) /\ Len(t) = Len(c)
      /\ \A i \in 1..Len(c) : t[i] = d[i + 1]
  BY <1>1, <1>6, <1>7
<1> HIDE DEF t
<1>9. \A i \in 1..Len(c) : t[i] = c[i]
  <2> TAKE i \in 1..Len(c)
  <2>1. i + 1 \in 1..(Len(H) + Len(c)) /\ ~(i + 1 <= Len(H)) /\ i + 1 - Len(H) = i
    BY <1>1, <1>4
  <2> QED BY <1>6, <1>8, <2>1
<1>10. t = c
  BY <1>2, <1>8, <1>9
<1> QED BY <1>6, <1>7, <1>10 DEF d, t, h

\* Bread gives back what was stored, if there is room.
LEMMA BreadIs ==
    ASSUME NEW c, Contents(c), NEW room \in Nat
    PROVE  Breadcb(Stored(c), room) = IF Len(c) > room THEN Throw("BNOSPACE") ELSE Ok(c)
<1> DEFINE arr == Stored(c)
           head == Bread_readf(NoMemory, arr, 1)
           body == Bread_readf([NoMemory EXCEPT !.offset = head.offset], arr, head.got[1][2])
<1>1. Len(c) \in Nat
  BY DEF Contents
<1>2. /\ arr \in Seq(Pairs) /\ Len(arr) = Len(c) + 1 /\ arr[1] = <<BBADFLDID, Len(c)>>
      /\ SubSeq(arr, 2, Len(c) + 1) = c
  BY StoredIs
<1>3. Breadcb(Stored(c), room) =
        IF ~head.ok THEN Throw("BEINVAL")
        ELSE IF head.got[1][1] # BBADFLDID \/ Len(body.got) # head.got[1][2]
        THEN Throw("BEINVAL")
        ELSE IF Len(body.got) > room THEN Throw("BNOSPACE") ELSE Ok(body.got)
  BY DEF Breadcb
<1> HIDE DEF arr
<1>4. head = [got |-> SubSeq(arr, 1, 1), offset |-> 1, ok |-> TRUE]
  <2>1. ~(Len(arr) < 1)
    BY <1>1, <1>2
  <2> QED BY <2>1 DEF Bread_readf, NoMemory
<1>5. SubSeq(arr, 1, 1)[1] = <<BBADFLDID, Len(c)>>
  BY <1>1, <1>2
<1>6. head.ok = TRUE /\ head.offset = 1 /\ head.got[1] = <<BBADFLDID, Len(c)>>
  BY <1>4, <1>5
<1>7. head.got[1][1] = BBADFLDID /\ head.got[1][2] = Len(c)
  BY <1>6
<1> HIDE DEF head
<1>8. body.got = SubSeq(arr, 2, Len(arr))
  BY <1>6 DEF Bread_readf, NoMemory
<1>9. body.got = c
  BY <1>2, <1>8, Zenon
<1> HIDE DEF body
<1> QED BY <1>3, <1>6, <1>7, <1>9

\* An empty array has no header.
LEMMA BreadNothing ==
    ASSUME NEW room PROVE Breadcb(<<>>, room) = Throw("BEINVAL")
<1>1. Bread_readf(NoMemory, <<>>, 1) = [got |-> <<>>, offset |-> 0, ok |-> FALSE]
  BY DEF Bread_readf, NoMemory
<1> QED BY <1>1 DEF Breadcb

\* The pieces of Bwrite make up the whole, wherever it is cut.
LEMMA PiecesIs ==
    ASSUME NEW all \in Seq(Pairs), NEW cut \in 0..Len(all)
    PROVE  LET fst == IF cut = 0 THEN NoMemory
                      ELSE Bwrite_writef(NoMemory, SubSeq(all, 1, cut))
               ctl == Bwrite_writef(fst, SubSeq(all, cut + 1, Len(all)))
           IN  SubSeq(ctl.buf, 1, ctl.offset) = all
<1> DEFINE A == SubSeq(all, 1, cut)
           B == SubSeq(all, cut + 1, Len(all))
           fst == IF cut = 0 THEN NoMemory ELSE Bwrite_writef(NoMemory, A)
           ctl == Bwrite_writef(fst, B)
<1>1. Len(all) \in Nat /\ cut \in Nat
  OBVIOUS
<1>2. A \in Seq(Pairs) /\ Len(A) = cut /\ \A i \in 1..cut : A[i] = all[i]
  BY <1>1
<1>3. B \in Seq(Pairs) /\ Len(B) = Len(all) - cut /\ \A i \in 1..(Len(all) - cut) : B[i] = all[cut + i]
  BY <1>1
<1> HIDE DEF A, B
<1>4. fst.buf = A /\ fst.offset = cut
  <2>1. CASE cut = 0
    <3>1. A = <<>>
      BY <1>2, <2>1
    <3> QED BY <2>1, <3>1 DEF NoMemory
  <2>2. CASE cut # 0
    <3>1. SubSeq(<<>>, 1, 0) \o A = A
      BY <1>2
    <3> QED BY <1>1, <1>2, <2>2, <3>1 DEF Bwrite_writef, NoMemory
  <2> QED BY <2>1, <2>2
<1>5. SubSeq(A, 1, cut) = A
  BY <1>1, <1>2
<1> HIDE DEF fst
<1>6. ctl.buf = A \o B /\ ctl.offset = Len(all)
  <2>1. ctl.buf = SubSeq(fst.buf, 1, fst.offset) \o B /\ ctl.offset = fst.offset + Len(B)
    BY Zenon DEF Bwrite_writef
  <2>2. cut + Len(B) = Len(all)
    BY <1>1, <1>3
  <2> HIDE DEF ctl
  <2> QED BY <1>4, <1>5, <2>1, <2>2, Zenon
<1> HIDE DEF ctl
<1>7. A \o B = all
  <2>1. /\ A \o B \in Seq(Pairs) /\ Len(A \o B) = Len(A) + Len(B)
        /\ \A i \in 1..(Len(A) + Len(B)) : (A \o B)[i] = IF i <= Len(A) THEN A[i] ELSE B[i - Len(A)]
    BY <1>2, <1>3, ConcatProperties
  <2>2. Len(A) + Len(B) = Len(all)
    BY <1>1, <1>2, <1>3
  <2>3. ASSUME NEW i \in 1..Len(all) PROVE (A \o B)[i] = all[i]
    <3>1. CASE i <= cut
      BY <1>1, <1>2, <2>1, <2>2, <3>1, SMTT(30), Zenon
    <3>2. CASE ~(i <= cut)
      <4>1. i - cut \in 1..(Len(all) - cut) /\ cut + (i - cut) = i
        BY <1>1, <3>2
      <4> QED BY <1>2, <1>3, <2>1, <2>2, <3>2, <4>1
    <3> QED BY <3>1, <3>2, Zenon
  <2> DEFINE C == A \o B
  <2>4. C \in Seq(Pairs) /\ Len(C) = Len(all) /\ \A i \in 1..Len(C) : C[i] = all[i]
    BY <2>1, <2>2, <2>3, SMTT(30), Zenon
  <2> HIDE DEF C
  <2>5. C = all
    BY <2>4, SeqEqual
  <2> QED BY <2>5 DEF C
<1>8. SubSeq(ctl.buf, 1, ctl.offset) = all
  BY <1>1, <1>6, <1>7
<1> QED BY <1>8 DEF ctl, fst, A, B

-----------------------------------------------------------------------------
(* The inductive invariant. *)

BufferOK(b) == Contents(ub[b]) /\ Len(ub[b]) <= Cap(b)

Buffers == ub \in [Bufs -> Seq(Entries)] /\ \A b \in Bufs : BufferOK(b)

\* In a batch the location is behind the last entry of its field.
Located ==
    /\ loc.last \in Fields \cup {BBADFLDID} /\ loc.at \in 0..Space
    /\ batch \in Bufs \cup {None}
    /\ batch \in Bufs => loc.last \in Fields /\ loc.at = Upto(ub[batch], loc.last)

\* An iteration over contents c has returned the first entries.
Passed(it, c) ==
    /\ it.seen \in Seq(Pairs) /\ Len(it.seen) <= Len(c)
    /\ \A k \in 1..Len(it.seen) : it.seen[k] = BNextResult_new(c, k)
    /\ it.end \in BOOLEAN
    /\ it.end => Len(it.seen) = Len(c)

Iterated ==
    /\ iter.b \in Bufs \cup {None} /\ iter.end \in BOOLEAN
    /\ iter \in [b : Bufs \cup {None}, seen : Seq(Pairs), end : BOOLEAN]
    /\ iter.b # None => Passed(iter, ub[iter.b])

\* The fields of a control block.
QctlFields == {"num", "diag", "diagmsg", "ids", "late", "clt"}

\* The copy is made of the contents that were saved with it.
Kept ==
    /\ Contents(saved) /\ Len(saved) <= Space
    /\ copy.kind \in {"none", "bytes", "json", "queue"}
    /\ copy.kind = "bytes" => copy.data = Stored(saved)
    /\ copy.kind \in {"json", "queue"} => copy.data = saved
    /\ copy.kind = "queue" => copy.ctl \in [QctlFields -> Int]

UbfInv == Buffers /\ Located /\ Iterated /\ Kept

LEMMA CapNat == \A b : Cap(b) \in Nat /\ Cap(b) <= Space
  BY UbfAssumption DEF Cap

LEMMA EmptyContents == Contents(<<>>) /\ Len(<<>>) = 0
  BY DEF Contents, Ordered

LEMMA InvInit == QueueInit => UbfInv
<1> SUFFICES ASSUME QueueInit PROVE UbfInv
  OBVIOUS
<1> USE DEF QueueInit, UbfInit
<1>1. Buffers
  <2>1. ub \in [Bufs -> Seq(Entries)]
    OBVIOUS
  <2>2. \A b \in Bufs : ub[b] = <<>>
    OBVIOUS
  <2> QED BY <2>1, <2>2, CapNat, EmptyContents DEF Buffers, BufferOK
<1>2. Located
  BY UbfAssumption DEF Located, NoLoc
<1>3. Iterated
  BY UbfAssumption DEF Iterated, NoIter
<1>4. Kept
  BY EmptyContents, UbfAssumption DEF Kept, NoCopy
<1> QED BY <1>1, <1>2, <1>3, <1>4 DEF UbfInv

-----------------------------------------------------------------------------
(* The ways in which a method changes the state, and what each keeps. *)

\* A method stores contents that fit.
Modify(b, c) == Contents(c) /\ Len(c) <= Cap(b) /\ Set(b, c)

\* Baddfast has added a field.
AddFast(b, f, v) ==
    /\ v \in ValuesOf(Bfldtype(f))
    /\ Len(Added(ub[b], f, v)) <= Cap(b)
    /\ ub' = [ub EXCEPT ![b] = Added(ub[b], f, v)]
    /\ loc' = [last |-> f, at |-> Upto(ub[b], f) + 1]
    /\ batch' = b
    /\ iter' = IF iter.b = b THEN NoIter ELSE iter
    /\ UNCHANGED <<copy, saved>>

Reset == loc' = NoLoc /\ batch' = None /\ UNCHANGED <<ub, iter, copy, saved>>

\* Bnext goes on.
Iterate(b) ==
    /\ Passed(iter', ub[b])
    /\ iter' \in [b : {b}, seen : Seq(Pairs), end : BOOLEAN]
    /\ UNCHANGED <<ub, loc, batch, copy, saved>>

\* A copy of b is made.
Save(b) ==
    /\ \/ copy' = [kind |-> "bytes", data |-> Stored(ub[b])]
       \/ copy' = [kind |-> "json", data |-> ub[b]]
    /\ saved' = ub[b]
    /\ UNCHANGED <<ub, loc, batch, iter>>

LEMMA ModifyKeeps ==
    ASSUME UbfInv, NEW b \in Bufs, NEW c, Modify(b, c)
    PROVE  UbfInv'
<1> USE DEF UbfInv, Modify, Set
<1>0. c \in Seq(Entries) /\ ub \in [Bufs -> Seq(Entries)]
  BY DEF Contents, Buffers
<1>1. /\ ub' \in [Bufs -> Seq(Entries)] /\ ub'[b] = c
      /\ \A a \in Bufs : a # b => ub'[a] = ub[a]
  BY <1>0
<1>2. Buffers'
  <2>1. ASSUME NEW a \in Bufs PROVE BufferOK(a)'
    <3>1. CASE a = b
      BY <1>1, <3>1 DEF BufferOK, Contents, Ordered, Cap
    <3>2. CASE a # b
      BY <1>1, <3>2 DEF BufferOK, Buffers, Contents, Ordered, Cap
    <3> QED BY <3>1, <3>2
  <2> QED BY <1>1, <2>1 DEF Buffers
<1>3. Located'
  <2>1. CASE batch = b
    BY <2>1, UbfAssumption DEF Located
  <2>2. CASE batch # b
    BY <1>1, <2>2 DEF Located, Upto
  <2> QED BY <2>1, <2>2
<1>4. Iterated'
  <2>1. CASE iter.b = b
    BY <2>1, UbfAssumption DEF Iterated, NoIter
  <2>2. CASE iter.b # b
    <3>1. iter' = iter
      BY <2>2
    <3>2. CASE iter.b = None
      BY <3>1, <3>2 DEF Iterated
    <3>3. CASE iter.b # None
      <4>1. ub'[iter.b] = ub[iter.b]
        BY <1>1, <2>2, <3>3, SMTT(30), Zenon DEF Iterated
      <4> QED BY <3>1, <4>1 DEF Iterated
    <3> QED BY <3>2, <3>3
  <2> QED BY <2>1, <2>2
<1>5. Kept'
  BY DEF Kept
<1> QED BY <1>2, <1>3, <1>4, <1>5

LEMMA AddFastKeeps ==
    ASSUME UbfInv, NEW b \in Bufs, NEW f \in Fields, NEW v, AddFast(b, f, v)
    PROVE  UbfInv'
<1> USE DEF UbfInv, AddFast
<1> DEFINE c == Added(ub[b], f, v)
<1>1. Contents(ub[b])
  BY DEF Buffers, BufferOK
<1>2. Contents(c) /\ Len(c) = Len(ub[b]) + 1 /\ Upto(c, f) = Upto(ub[b], f) + 1
  BY <1>1, AddedIs
<1> HIDE DEF c
<1>3. c \in Seq(Entries) /\ ub \in [Bufs -> Seq(Entries)] /\ Len(c) <= Cap(b) /\ f \in Int
  BY <1>2, FieldAssumption DEF Contents, Buffers, Fields, c
<1>4. /\ ub' \in [Bufs -> Seq(Entries)] /\ ub'[b] = c
      /\ \A a \in Bufs : a # b => ub'[a] = ub[a]
  BY <1>3 DEF c
<1>5. Buffers'
  <2>1. ASSUME NEW a \in Bufs PROVE BufferOK(a)'
    <3>1. CASE a = b
      BY <1>2, <1>3, <1>4, <3>1, SMTT(30), Zenon DEF BufferOK, Contents, Ordered, Cap
    <3>2. CASE a # b
      BY <1>4, <3>2, SMTT(30), Zenon DEF BufferOK, Buffers, Contents, Ordered, Cap
    <3> QED BY <3>1, <3>2, SMTT(30), Zenon
  <2> QED BY <1>4, <2>1 DEF Buffers
<1>6. Located'
  <2>1. Upto(c, f) \in 0..Len(c) /\ Len(c) \in Nat
    <3>1. Upto(c, f) \in 0..Len(c)
      BY <1>2, <1>3, UptoIs, Zenon
    <3>2. Len(c) \in Nat
      BY <1>3
    <3> QED BY <3>1, <3>2, Zenon
  <2>2. Cap(b) \in Nat /\ Cap(b) <= Space /\ Space \in Nat
    BY CapNat, UbfAssumption
  <2>3. loc'.last = f /\ loc'.at = Upto(c, f) /\ batch' = b
    BY <1>2
  <2>4. loc'.at \in 0..Space
    BY <1>3, <2>1, <2>2, <2>3
  <2>5. Upto(ub'[batch'], loc'.last) = Upto(c, f)
    BY <1>4, <2>3
  <2> QED BY <2>3, <2>4, <2>5 DEF Located, Upto
<1>7. Iterated'
  <2>1. CASE iter.b = b
    <3>1. iter' = NoIter
      BY <2>1, Zenon
    <3>2. /\ NoIter.b = None /\ NoIter.end \in BOOLEAN
          /\ NoIter \in [b : Bufs \cup {None}, seen : Seq(Pairs), end : BOOLEAN]
      BY SMTT(30) DEF NoIter
    <3> QED BY <3>1, <3>2, Zenon DEF Iterated
  <2>2. CASE iter.b # b
    <3>1. iter' = iter
      BY <2>2, SMTT(30), Zenon
    <3>2. CASE iter.b = None
      BY <3>1, <3>2, SMTT(30), Zenon DEF Iterated
    <3>3. CASE iter.b # None
      <4>1. ub'[iter.b] = ub[iter.b]
        BY <1>4, <2>2, <3>3, SMTT(30), Zenon DEF Iterated
      <4> QED BY <3>1, <4>1, SMTT(30), Zenon DEF Iterated
    <3> QED BY <3>2, <3>3
  <2> QED BY <2>1, <2>2, SMTT(30), Zenon
<1>8. Kept'
  BY DEF Kept
<1> QED BY <1>5, <1>6, <1>7, <1>8

LEMMA OthersKeep ==
    ASSUME UbfInv,
           \/ UNCHANGED <<ub, loc, batch, iter, copy, saved>>
           \/ Reset
           \/ \E b \in Bufs : Iterate(b) \/ Save(b)
    PROVE  UbfInv'
<1> USE DEF UbfInv
<1>1. CASE UNCHANGED <<ub, loc, batch, iter, copy, saved>>
  BY <1>1 DEF Buffers, BufferOK, Located, Iterated, Kept, Contents, Ordered, Upto
<1>2. CASE Reset
  <2>1. Buffers' /\ Iterated' /\ Kept'
    BY <1>2, Zenon DEF Reset, Buffers, BufferOK, Iterated, Kept, Contents, Ordered
  <2>2. Located'
    BY <1>2, UbfAssumption DEF Reset, Located, NoLoc
  <2> QED BY <2>1, <2>2, SMTT(30), Zenon
<1>3. ASSUME NEW b \in Bufs, Iterate(b) PROVE UbfInv'
  <2>1. Buffers' /\ Located' /\ Kept'
    BY <1>3, SMTT(30), Zenon DEF Iterate, Buffers, BufferOK, Located, Kept, Contents, Ordered, Upto
  <2>2. Iterated'
    <3>1. iter'.b = b /\ iter'.end \in BOOLEAN /\ ub' = ub
      BY <1>3 DEF Iterate
    <3>2. iter' \in [b : Bufs \cup {None}, seen : Seq(Pairs), end : BOOLEAN]
      BY <1>3 DEF Iterate
    <3>3. Passed(iter', ub'[iter'.b])
      BY <1>3, <3>1 DEF Iterate
    <3> QED BY <3>1, <3>2, <3>3, Zenon DEF Iterated, Passed, BNextResult_new, OccAt
  <2> QED BY <2>1, <2>2, SMTT(30), Zenon
<1>4. ASSUME NEW b \in Bufs, Save(b) PROVE UbfInv'
  <2>1. Buffers' /\ Located' /\ Iterated'
    BY <1>4, Zenon DEF Save, Buffers, BufferOK, Located, Iterated, Contents, Ordered, Upto
  <2>2. Contents(ub[b]) /\ Len(ub[b]) <= Cap(b) /\ Len(ub[b]) \in Nat
    BY DEF Buffers, BufferOK, Contents
  <2>3. Contents(ub[b]) /\ Len(ub[b]) <= Space
    BY <2>2, CapNat, UbfAssumption, SMTT(30), Zenon
  <2>4. saved' = ub[b]
    BY <1>4 DEF Save
  <2>5. Contents(saved') /\ Len(saved') <= Space
    BY <2>3, <2>4
  <2>6. /\ copy'.kind \in {"bytes", "json"}
        /\ copy'.kind = "bytes" => copy'.data = Stored(saved')
        /\ copy'.kind = "json" => copy'.data = saved'
    BY <1>4, <2>4 DEF Save
  <2>7. Kept'
    BY <2>5, <2>6 DEF Kept
  <2> QED BY <2>1, <2>7, SMTT(30), Zenon
<1> QED BY <1>1, <1>2, <1>3, <1>4, SMTT(30), Zenon

-----------------------------------------------------------------------------
(* Every method of TypedUbf is of one of these kinds. *)

Shape ==
    \/ Keep
    \/ \E b \in Bufs : \E c : Modify(b, c)
    \/ \E b \in Bufs, f \in Fields : \E v : AddFast(b, f, v)
    \/ Reset
    \/ \E b \in Bufs : Iterate(b) \/ Save(b)

\* It does not throw what only a queue call throws.
Plain(r) == r.ex # "TPEDIAGNOSTIC"

Method == Plain(ret') /\ Shape

LEMMA ThrowPlain == \A e : e # "TPEDIAGNOSTIC" => Plain(Throw(e))
  BY DEF Plain, Throw

LEMMA OkPlain == \A v : Plain(Ok(v))
  BY DEF Plain, Ok

LEMMA ReturnIs ==
    ASSUME NEW r, Plain(r), Return(r)
    PROVE  Method
  BY DEF Return, Method, Shape

LEMMA SetIs ==
    ASSUME NEW b \in Bufs, NEW c, Contents(c), Len(c) <= Cap(b), Set(b, c), Plain(ret')
    PROVE  Method
<1>1. Modify(b, c)
  BY DEF Modify
<1> QED BY <1>1, Zenon DEF Method, Shape

LEMMA StoreIs ==
    ASSUME NEW b \in Bufs, NEW c, Contents(c), NEW e, e # "TPEDIAGNOSTIC", Store(b, c, e)
    PROVE  Method
<1>1. CASE Len(c) <= Cap(b)
  <2>1. Set(b, c) /\ ret' = Ok(0)
    BY <1>1, Zenon DEF Store
  <2>2. Plain(ret')
    BY <2>1, OkPlain
  <2> QED BY <1>1, <2>1, <2>2, SetIs, Zenon
<1>2. CASE ~(Len(c) <= Cap(b))
  <2>1. Return(Throw(e))
    BY <1>2, Zenon DEF Store
  <2>2. Plain(Throw(e))
    BY ThrowPlain, Zenon
  <2> QED BY <2>1, <2>2, ReturnIs, Zenon
<1> QED BY <1>1, <1>2

LEMMA BufferIs ==
    ASSUME UbfInv, NEW b \in Bufs
    PROVE  Contents(ub[b]) /\ Len(ub[b]) <= Cap(b) /\ Cap(b) \in Nat /\ Len(ub[b]) \in Nat
  BY CapNat DEF UbfInv, Buffers, BufferOK, Contents

LEMMA StoreEachIs ==
    ASSUME UbfInv, NEW b \in Bufs, NEW s, Contents(s), NEW how, StoreEach(b, s, how)
    PROVE  Method
<1> DEFINE r == Filled(ub[b], s, how, Cap(b))
<1>1. Set(b, r.c) /\ ret' = IF r.all THEN Ok(0) ELSE Throw("BNOSPACE")
  BY Zenon DEF StoreEach
<1>2. Contents(r.c) /\ Len(r.c) <= Cap(b)
  BY BufferIs, FilledKeeps
<1> HIDE DEF r
<1>3. Plain(Ok(0)) /\ Plain(Throw("BNOSPACE"))
  BY OkPlain, ThrowPlain
<1>4. Plain(ret')
  BY <1>1, <1>3, Zenon
<1> QED BY <1>1, <1>2, <1>4, SetIs, Zenon

\* A value converted to the type of the field is of that type.
LEMMA CvtType ==
    ASSUME NEW t \in {"short", "string"}, NEW v \in ValuesOf(t), NEW f \in Fields
    PROVE  Cvt(v, Bfldtype(f)) \in ValuesOf(Bfldtype(f))
  BY DEF Cvt, ValuesOf, Bfldtype

LEMMA BaddIs ==
    ASSUME UbfInv, NEW b \in Bufs, NEW f \in Fields, NEW t \in {"short", "string"},
           NEW v \in ValuesOf(t) \cup {Null}, Badd(b, f, v, t)
    PROVE  Method
<1>1. CASE v = Null
  <2>1. Return(Throw("BEINVAL"))
    BY <1>1, Zenon DEF Badd
  <2>2. Plain(Throw("BEINVAL"))
    BY ThrowPlain
  <2> QED BY <2>1, <2>2, ReturnIs, Zenon
<1>2. CASE v # Null
  <2> DEFINE w == Cvt(v, Bfldtype(f))
             c == Added(ub[b], f, w)
  <2>1. w \in ValuesOf(Bfldtype(f))
    BY <1>2, CvtType
  <2> HIDE DEF w
  <2>2. Contents(c)
    BY <2>1, BufferIs, AddedIs
  <2>3. CBadd(b, f, v, t)
    BY <1>2, Zenon DEF Badd
  <2>4. PICK e \in {"BNOSPACE"} \cup IF f \in Unnamed THEN {"BBADFLD"} ELSE {} : Store(b, c, e)
    BY <2>3, Zenon DEF CBadd, w
  <2>5. e # "TPEDIAGNOSTIC"
    BY <2>4
  <2> HIDE DEF c
  <2> QED BY <2>2, <2>4, <2>5, StoreIs, Zenon
<1> QED BY <1>1, <1>2

LEMMA BchgIs ==
    ASSUME UbfInv, NEW b \in Bufs, NEW f \in Fields, NEW o \in Nat, NEW t \in {"short", "string"},
           NEW v \in ValuesOf(t) \cup {Null}, Bchg(b, f, o, v, t)
    PROVE  Method
<1>1. CASE v = Null
  <2>1. Return(Throw("BEINVAL"))
    BY <1>1, Zenon DEF Bchg
  <2>2. Plain(Throw("BEINVAL"))
    BY ThrowPlain
  <2> QED BY <2>1, <2>2, ReturnIs, Zenon
<1>2. CASE v # Null
  <2> DEFINE w == Cvt(v, Bfldtype(f))
             c == Changed(ub[b], f, o, w)
  <2>1. w \in ValuesOf(Bfldtype(f))
    BY <1>2, CvtType
  <2> HIDE DEF w
  <2>2. Contents(c)
    BY <2>1, BufferIs, ChangedIs
  <2>3. Store(b, c, "BNOSPACE")
    BY <1>2, Zenon DEF Bchg, CBchg, w
  <2> HIDE DEF c
  <2>4. "BNOSPACE" # "TPEDIAGNOSTIC"
    BY SMTT(30), Zenon
  <2> QED BY <2>2, <2>3, <2>4, StoreIs, Zenon
<1> QED BY <1>1, <1>2

\* The location is empty or behind the last entry of its field: Baddfast adds
\* where Badd adds.
LEMMA FastIs ==
    ASSUME UbfInv, NEW b \in Bufs, NEW f \in Fields, NEW v,
           loc.last = BBADFLDID \/ batch = b
    PROVE  Fast(ub[b], f, v, loc) =
              [c |-> Added(ub[b], f, v), l |-> [last |-> f, at |-> Upto(ub[b], f) + 1]]
<1>1. CASE loc.last = f
  <2>1. f # BBADFLDID
    BY FieldAssumption DEF Fields, BBADFLDID
  <2>2. loc.at = Upto(ub[b], f)
    BY <1>1, <2>1 DEF UbfInv, Located
  <2> QED BY <1>1, <2>2, Zenon DEF Fast, Added
<1>2. CASE loc.last # f
  BY <1>2, Zenon DEF Fast, Added
<1> QED BY <1>1, <1>2

LEMMA BaddfastIs ==
    ASSUME UbfInv, NEW b \in Bufs, NEW f \in Fields, NEW t \in {"short", "string"},
           NEW v \in ValuesOf(t), Baddfast(b, f, v, t)
    PROVE  Method
<1> DEFINE r == Fast(ub[b], f, v, loc)
<1>1. loc.last = BBADFLDID \/ batch = b
  BY Zenon DEF Baddfast
<1>2. r = [c |-> Added(ub[b], f, v), l |-> [last |-> f, at |-> Upto(ub[b], f) + 1]]
  BY <1>1, FastIs, SMTT(30), Zenon
<1>3. r.c = Added(ub[b], f, v) /\ r.l = [last |-> f, at |-> Upto(ub[b], f) + 1]
  BY <1>2
<1>4. CBaddfast(b, f, v, t)
  BY Zenon DEF Baddfast
<1> HIDE DEF r
<1>5. CASE Bfldtype(f) # t
  <2>1. Return(Throw("BEINVAL"))
    BY <1>4, <1>5, Zenon DEF CBaddfast
  <2>2. Plain(Throw("BEINVAL"))
    BY ThrowPlain
  <2> QED BY <2>1, <2>2, ReturnIs, Zenon
<1>6. CASE Bfldtype(f) = t /\ Len(r.c) > Cap(b)
  <2>1. Return(Throw("BNOSPACE"))
    BY <1>4, <1>6, Zenon DEF CBaddfast, BFldLocInfo_ptr_get, r
  <2>2. Plain(Throw("BNOSPACE"))
    BY ThrowPlain
  <2> QED BY <2>1, <2>2, ReturnIs, Zenon
<1>7. CASE Bfldtype(f) = t /\ ~(Len(r.c) > Cap(b))
  <2>1. /\ ub' = [ub EXCEPT ![b] = r.c] /\ loc' = r.l /\ batch' = b
        /\ iter' = IF iter.b = b THEN NoIter ELSE iter
        /\ ret' = Ok(0) /\ UNCHANGED <<copy, saved>>
    BY <1>4, <1>7, Zenon DEF CBaddfast, BFldLocInfo_ptr_get, BFldLocInfo_ptr_set, r
  <2>2. v \in ValuesOf(Bfldtype(f))
    BY <1>7
  <2>3. Contents(Added(ub[b], f, v)) /\ Len(Added(ub[b], f, v)) = Len(ub[b]) + 1
    BY <2>2, BufferIs, AddedIs
  <2>4. Len(Added(ub[b], f, v)) <= Cap(b)
    <3>1. ~(Len(Added(ub[b], f, v)) > Cap(b))
      BY <1>3, <1>7
    <3> QED BY <2>3, <3>1, BufferIs, SMTT(30), Zenon
  <2>5. AddFast(b, f, v)
    BY <1>3, <2>1, <2>2, <2>4, Zenon DEF AddFast
  <2>6. Plain(ret')
    BY <2>1, OkPlain
  <2> QED BY <2>5, <2>6, Zenon DEF Method, Shape
<1> QED BY <1>5, <1>6, <1>7

LEMMA ReadersAre ==
    ASSUME NEW b, NEW s, NEW f, NEW o,
           \/ BgetShort(b, f, o) \/ BgetString(b, f, o) \/ Bpres(b, f, o) \/ Blen(b, f, o)
           \/ Boccur(b, f) \/ Bcmp(b, s) \/ Bsubset(b, s)
           \/ Bisubf(b) \/ Bsizeof(b) \/ Bunused(b) \/ Bused(b) \/ Bnum(b)
           \/ tplogprintubf(b) \/ Bprint(b)
    PROVE  Method
<1>1. \A t : Plain(CBfind(b, f, o, t))
  BY OkPlain, ThrowPlain DEF CBfind
<1>2. Plain(IF Has(ub[b], f, o) THEN Ok(1) ELSE Throw("BNOTPRES"))
  BY OkPlain, ThrowPlain
<1>3. \E r : Plain(r) /\ Return(r)
  <2>1. CASE BgetShort(b, f, o) \/ BgetString(b, f, o)
    BY <1>1, <2>1, Zenon DEF BgetShort, BgetString
  <2>2. CASE Blen(b, f, o)
    BY <1>2, <2>2, Zenon DEF Blen
  <2>3. CASE Bpres(b, f, o) \/ Boccur(b, f) \/ Bsubset(b, s) \/ Bisubf(b) \/ Bsizeof(b)
    BY <2>3, OkPlain, Zenon DEF Bpres, Boccur, Bsubset, Bisubf, Bsizeof
  <2>4. CASE Bunused(b) \/ Bused(b) \/ Bnum(b) \/ tplogprintubf(b) \/ Bprint(b)
    BY <2>4, OkPlain, Zenon DEF Bunused, Bused, Bnum, tplogprintubf, Bprint
  <2>5. CASE Bcmp(b, s)
    BY <2>5, OkPlain, Zenon DEF Bcmp
  <2> QED BY <2>1, <2>2, <2>3, <2>4, <2>5, Zenon
<1> QED BY <1>3, ReturnIs, Zenon

LEMMA DeletingIs ==
    ASSUME UbfInv, NEW b \in Bufs, NEW f \in Fields, NEW o \in Nat,
           Bdel(b, f, o) \/ Bdelall(b, f)
    PROVE  Method
<1>1. \/ \E c : Contents(c) /\ Len(c) <= Len(ub[b]) /\ Set(b, c) /\ ret' = Ok(0)
      \/ Return(Throw("BNOTPRES"))
  <2>1. \A F : Contents(Only(ub[b], F)) /\ Len(Only(ub[b], F)) <= Len(ub[b])
    BY BufferIs, OnlyIs, Zenon
  <2>2. CASE Bdel(b, f, o)
    <3>1. CASE Has(ub[b], f, o)
      <4>1. f \in Int
        BY FieldAssumption DEF Fields
      <4>2. Contents(Deleted(ub[b], f, o)) /\ Len(Deleted(ub[b], f, o)) <= Len(ub[b])
        BY <3>1, <4>1, BufferIs, DeletedIs, Zenon
      <4> QED BY <2>2, <3>1, <4>2, Zenon DEF Bdel
    <3>2. CASE ~Has(ub[b], f, o)
      BY <2>2, <3>2, Zenon DEF Bdel
    <3> QED BY <3>1, <3>2
  <2>3. CASE Bdelall(b, f)
    BY <2>1, <2>3, Zenon DEF Bdelall
  <2> QED BY <2>2, <2>3, Zenon
<1>2. ASSUME NEW c, Contents(c), Len(c) <= Len(ub[b]), Set(b, c), ret' = Ok(0) PROVE Method
  <2>1. Len(c) <= Cap(b)
    <3>1. Len(c) \in Nat
      BY <1>2 DEF Contents
    <3> QED BY <1>2, <3>1, BufferIs
  <2>2. Plain(ret')
    BY <1>2, OkPlain
  <2> QED BY <1>2, <2>1, <2>2, SetIs, Zenon
<1>3. Plain(Throw("BNOTPRES"))
  BY ThrowPlain
<1> QED BY <1>1, <1>2, <1>3, ReturnIs, Zenon

LEMMA ListedIs ==
    ASSUME UbfInv, NEW b \in Bufs, NEW jarr, Bdelete(b, jarr) \/ Bproj(b, jarr)
    PROVE  Method
<1>1. Contents(ub[b]) /\ Len(ub[b]) <= Cap(b) /\ Cap(b) \in Nat /\ Len(ub[b]) \in Nat
  BY BufferIs, Zenon
<1>2. \A F : Contents(Only(ub[b], F)) /\ Len(Only(ub[b], F)) <= Cap(b)
  <2> TAKE F
  <2>1. Contents(Only(ub[b], F)) /\ Len(Only(ub[b], F)) <= Len(ub[b])
    BY <1>1, OnlyIs, Zenon
  <2>2. Len(Only(ub[b], F)) \in Nat
    BY <2>1 DEF Contents
  <2> QED BY <1>1, <2>1, <2>2
<1>3. Plain(Throw("BNOTPRES")) /\ Plain(Throw("BEUNIX")) /\ Plain(Ok(0))
  BY ThrowPlain, OkPlain
<1>4. CASE Bdelete(b, jarr)
  BY <1>2, <1>3, <1>4, SetIs, ReturnIs, Zenon DEF Bdelete
<1>5. CASE Bproj(b, jarr)
  BY <1>2, <1>3, <1>5, SetIs, ReturnIs, Zenon DEF Bproj
<1> QED BY <1>4, <1>5

LEMMA CombiningIs ==
    ASSUME UbfInv, NEW b \in Bufs, NEW s \in Bufs, NEW jarr,
           \/ Bconcat(b, s) \/ Bupdate(b, s) \/ Bcpy(b, s) \/ Bprojcpy(b, s, jarr)
           \/ Bjoin(b, s) \/ Bojoin(b, s)
    PROVE  Method
<1>1. Contents(ub[b]) /\ Len(ub[b]) <= Cap(b) /\ Cap(b) \in Nat /\ Len(ub[b]) \in Nat
  BY BufferIs, Zenon
<1>2. Contents(ub[s])
  BY BufferIs, Zenon
<1>3. CASE Bconcat(b, s)
  BY <1>2, <1>3, StoreEachIs, Zenon DEF Bconcat
<1>4. CASE Bupdate(b, s)
  BY <1>2, <1>4, StoreEachIs, Zenon DEF Bupdate
<1>5. "BNOSPACE" # "TPEDIAGNOSTIC"
  OBVIOUS
<1>6. CASE Bcpy(b, s)
  BY <1>2, <1>5, <1>6, StoreIs, Zenon DEF Bcpy
<1>7. CASE Bprojcpy(b, s, jarr)
  <2>1. CASE Return(Throw("BEUNIX"))
    <3>1. Plain(Throw("BEUNIX"))
      BY ThrowPlain
    <3> QED BY <2>1, <3>1, ReturnIs, Zenon
  <2>2. CASE Store(b, Only(ub[s], Listed(ToC(jarr))), "BNOSPACE")
    <3>1. Contents(Only(ub[s], Listed(ToC(jarr))))
      BY <1>2, OnlyIs, Zenon
    <3> QED BY <1>5, <2>2, <3>1, StoreIs, Zenon
  <2> QED BY <1>7, <2>1, <2>2, Zenon DEF Bprojcpy
<1>8. ret' = Ok(0) => Plain(ret')
  BY OkPlain
<1>9. CASE Bjoin(b, s)
  <2> DEFINE c == Joined(ub[b], ub[s])
  <2>1. Contents(c) /\ Len(c) <= Len(ub[b])
    BY <1>1, <1>2, JoinedIs, Zenon
  <2>2. Set(b, c) /\ ret' = Ok(0)
    BY <1>9, Zenon DEF Bjoin
  <2> HIDE DEF c
  <2>3. Len(c) \in Nat
    BY <2>1 DEF Contents
  <2>4. Len(c) <= Cap(b)
    BY <1>1, <2>1, <2>3
  <2> QED BY <1>8, <2>1, <2>2, <2>4, SetIs, Zenon
<1>10. CASE Bojoin(b, s)
  <2> DEFINE c == OuterJoined(ub[b], ub[s])
  <2>1. Contents(c) /\ Len(c) = Len(ub[b])
    BY <1>1, <1>2, OuterJoinedIs, Zenon
  <2>2. Set(b, c) /\ ret' = Ok(0)
    BY <1>10, Zenon DEF Bojoin
  <2> HIDE DEF c
  <2>3. Len(c) <= Cap(b)
    BY <1>1, <2>1
  <2> QED BY <1>8, <2>1, <2>2, <2>3, SetIs, Zenon
<1> QED BY <1>3, <1>4, <1>6, <1>7, <1>9, <1>10, Zenon

LEMMA BinitIs ==
    ASSUME NEW b \in Bufs, Binit(b)
    PROVE  Method
<1>1. Contents(<<>>) /\ Len(<<>>) <= Cap(b)
  BY EmptyContents, CapNat
<1>2. Plain(ret') /\ Set(b, <<>>)
  BY OkPlain DEF Binit
<1> QED BY <1>1, <1>2, SetIs, Zenon

\* What Bnext reports.
LEMMA ResultType ==
    ASSUME NEW c, Contents(c), NEW i \in 1..Len(c)
    PROVE  BNextResult_new(c, i) \in Pairs
<1>1. i \in Nat /\ c[i] \in Entries
  BY DEF Contents
<1>2. c[i][1] \in Nat /\ OccAt(c, i) \in Nat
  BY <1>1, EntryType, OccAtNat
<1> QED BY <1>2 DEF BNextResult_new, Pairs

LEMMA BnextIs ==
    ASSUME UbfInv, NEW b \in Bufs, NEW first \in BOOLEAN, Bnext(b, first)
    PROVE  Method
<1> DEFINE it == IF first THEN [NoIter EXCEPT !.b = b] ELSE iter
           c == ub[b]
           n == Len(it.seen) + 1
<1>1. Contents(c) /\ Len(c) \in Nat
  BY BufferIs
<1>2. /\ it \in [b : Bufs \cup {None}, seen : Seq(Pairs), end : BOOLEAN]
      /\ it.b = b => Passed(it, c)
  <2>1. CASE first
    <3>1. it = [b |-> b, seen |-> <<>>, end |-> FALSE]
      BY <2>1, Zenon DEF NoIter
    <3>2. it \in [b : Bufs \cup {None}, seen : Seq(Pairs), end : BOOLEAN]
      <4>1. <<>> \in Seq(Pairs) /\ FALSE \in BOOLEAN
        OBVIOUS
      <4>2. [b |-> b, seen |-> <<>>, end |-> FALSE]
               \in [b : Bufs \cup {None}, seen : Seq(Pairs), end : BOOLEAN]
        BY <4>1, Zenon
      <4> QED BY <3>1, <4>2, Zenon
    <3>3. it.seen = <<>> /\ it.end = FALSE
      BY <3>1
    <3> HIDE DEF it
    <3>4. it.seen \in Seq(Pairs) /\ Len(it.seen) <= Len(c) /\ \A k : k \notin 1..Len(it.seen)
      BY <1>1, <3>3
    <3>5. Passed(it, c)
      BY <3>3, <3>4, Zenon DEF Passed
    <3> QED BY <3>2, <3>5
  <2>2. CASE ~first
    <3>1. it = iter
      BY <2>2
    <3> QED BY <3>1, UbfAssumption DEF UbfInv, Iterated
  <2> QED BY <2>1, <2>2
<1>3. CASE it.b # b
  <2>1. \E r \in {Throw("BEINVAL"), Ok(Null), Ok(1)} : Return(r)
    BY <1>3, Zenon DEF Bnext
  <2>2. Plain(Throw("BEINVAL")) /\ Plain(Ok(Null)) /\ Plain(Ok(1))
    BY OkPlain, ThrowPlain
  <2> QED BY <2>1, <2>2, ReturnIs, Zenon
<1>4. CASE it.b = b
  <2>1. /\ IF n > Len(c)
           THEN iter' = [it EXCEPT !.end = TRUE] /\ ret' = Ok(Null)
           ELSE /\ iter' = [it EXCEPT !.seen = Append(@, BNextResult_new(c, n))]
                /\ ret' = Ok(n)
        /\ UNCHANGED <<ub, loc, batch, copy, saved>>
    BY <1>4, Zenon DEF Bnext
  <2> HIDE DEF it, c
  <2>2. /\ it.seen \in Seq(Pairs) /\ Len(it.seen) \in Nat /\ Len(it.seen) <= Len(c)
        /\ \A k \in 1..Len(it.seen) : it.seen[k] = BNextResult_new(c, k)
        /\ it.end \in BOOLEAN /\ (it.end => Len(it.seen) = Len(c))
    BY <1>2, <1>4 DEF Passed
  <2>3. CASE n > Len(c)
    <3>1. iter' = [b |-> b, seen |-> it.seen, end |-> TRUE] /\ ret' = Ok(Null)
      BY <1>2, <1>4, <2>1, <2>3, SMTT(30), Zenon
    <3>2. Len(it.seen) = Len(c)
      BY <1>1, <2>2, <2>3, SMTT(30), Zenon
    <3>3. Passed(iter', c)
      BY <2>2, <3>1, <3>2, SMTT(30), Zenon DEF Passed
    <3>4. iter' \in [b : {b}, seen : Seq(Pairs), end : BOOLEAN]
      BY <2>2, <3>1
    <3>5. Iterate(b)
      BY <2>1, <3>3, <3>4 DEF Iterate, c
    <3>6. Plain(ret')
      BY <3>1, OkPlain, SMTT(30), Zenon
    <3> QED BY <3>5, <3>6, Zenon DEF Method, Shape
  <2>4. CASE ~(n > Len(c))
    <3> DEFINE x == BNextResult_new(c, n)
               seen == Append(it.seen, x)
    <3>1. n \in 1..Len(c)
      BY <1>1, <2>2, <2>4
    <3>2. x \in Pairs
      BY <1>1, <3>1, ResultType
    <3>3. iter' = [b |-> b, seen |-> seen, end |-> it.end] /\ ret' = Ok(n)
      BY <1>2, <1>4, <2>1, <2>4, SMTT(30), Zenon
    <3>4. it.end = FALSE
      BY <1>1, <2>2, <2>4, SMTT(30), Zenon
    <3> HIDE DEF x
    <3>5. /\ seen \in Seq(Pairs) /\ Len(seen) = n
          /\ \A k \in 1..Len(it.seen) : seen[k] = it.seen[k]
          /\ seen[n] = x
      BY <2>2, <3>2
    <3> HIDE DEF seen
    <3>6. \A k \in 1..Len(seen) : seen[k] = BNextResult_new(c, k)
      <4> TAKE k \in 1..Len(seen)
      <4>1. CASE k = n
        BY <3>5, <4>1 DEF x
      <4>2. CASE k # n
        <5>1. k \in 1..Len(it.seen)
          BY <2>2, <3>5, <4>2
        <5> QED BY <2>2, <3>5, <5>1, SMTT(30), Zenon
      <4> QED BY <4>1, <4>2
    <3>7. Passed(iter', c)
      <4>1. iter'.seen = seen /\ iter'.end = FALSE
        BY <3>3, <3>4
      <4>2. Len(seen) <= Len(c)
        BY <3>1, <3>5
      <4> QED BY <3>5, <3>6, <4>1, <4>2, Zenon DEF Passed
    <3>8. iter' \in [b : {b}, seen : Seq(Pairs), end : BOOLEAN]
      BY <3>3, <3>4, <3>5, ZenonT(30)
    <3>9. Iterate(b)
      BY <2>1, <3>7, <3>8 DEF Iterate, c
    <3>10. Plain(ret')
      BY <3>3, OkPlain
    <3> QED BY <3>9, <3>10, Zenon DEF Method, Shape
  <2> QED BY <2>3, <2>4
<1> QED BY <1>3, <1>4

LEMMA BwriteIs ==
    ASSUME UbfInv, NEW b \in Bufs, Bwrite(b)
    PROVE  Method
<1> DEFINE all == Stored(ub[b])
<1>1. all \in Seq(Pairs)
  BY BufferIs, StoredIs
<1>2. CASE Return(Throw("BEUNIX"))
  <2>1. Plain(Throw("BEUNIX"))
    BY ThrowPlain
  <2> QED BY <1>2, <2>1, ReturnIs, Zenon
<1>3. ASSUME NEW cut \in 0..Len(all),
             LET fst == IF cut = 0 THEN NoMemory
                        ELSE Bwrite_writef(NoMemory, SubSeq(all, 1, cut))
                 ctl == Bwrite_writef(fst, SubSeq(all, cut + 1, Len(all)))
             IN  /\ copy' = [kind |-> "bytes", data |-> SubSeq(ctl.buf, 1, ctl.offset)]
                 /\ saved' = ub[b]
                 /\ ret' = Ok(0)
                 /\ UNCHANGED <<ub, loc, batch, iter>>
      PROVE  Method
  <2> HIDE DEF all
  <2>1. /\ copy' = [kind |-> "bytes", data |-> all] /\ saved' = ub[b] /\ ret' = Ok(0)
        /\ UNCHANGED <<ub, loc, batch, iter>>
    BY <1>1, <1>3, PiecesIs, Zenon
  <2>2. Save(b)
    BY <2>1, Zenon DEF Save, all
  <2>3. Plain(ret')
    BY <2>1, OkPlain
  <2> QED BY <2>2, <2>3, Zenon DEF Method, Shape
<1> QED BY <1>2, <1>3, Zenon DEF Bwrite

LEMMA BreadMethod ==
    ASSUME UbfInv, NEW b \in Bufs,
           NEW arr \in {<<>>} \cup IF copy.kind = "bytes" THEN {copy.data} ELSE {}, Bread(b, arr)
    PROVE  Method
<1> DEFINE r == Breadcb(arr, Cap(b))
<1>1. Contents(saved)
  BY DEF UbfInv, Kept
<1>2. Cap(b) \in Nat
  BY CapNat
<1>3. arr = <<>> \/ arr = Stored(saved)
  BY DEF UbfInv, Kept
<1>4. IF r.ex = "none" THEN Set(b, r.val) /\ ret' = Ok(0) ELSE Return(r)
  BY Zenon DEF Bread
<1>5. CASE arr = <<>>
  <2>1. r = Throw("BEINVAL")
    BY <1>5, BreadNothing
  <2> HIDE DEF r
  <2>2. r.ex # "none" /\ Plain(r)
    BY <2>1, ThrowPlain DEF Throw
  <2> QED BY <1>4, <2>2, ReturnIs, Zenon
<1>6. CASE arr = Stored(saved)
  <2>1. r = IF Len(saved) > Cap(b) THEN Throw("BNOSPACE") ELSE Ok(saved)
    BY <1>1, <1>2, <1>6, BreadIs, SMTT(30), Zenon
  <2> HIDE DEF r
  <2>2. CASE Len(saved) > Cap(b)
    <3>1. r.ex # "none" /\ Plain(r)
      BY <2>1, <2>2, ThrowPlain DEF Throw
    <3> QED BY <1>4, <3>1, ReturnIs, Zenon
  <2>3. CASE ~(Len(saved) > Cap(b))
    <3>1. r.ex = "none" /\ r.val = saved
      BY <2>1, <2>3 DEF Ok
    <3>2. Set(b, saved) /\ ret' = Ok(0)
      BY <1>4, <3>1
    <3>3. Len(saved) <= Cap(b)
      <4>1. Len(saved) \in Nat
        BY <1>1 DEF Contents
      <4> QED BY <1>2, <2>3, <4>1
    <3>4. Plain(ret')
      BY <3>2, OkPlain
    <3> QED BY <1>1, <3>2, <3>3, <3>4, SetIs, ZenonT(30)
  <2> QED BY <2>2, <2>3
<1> QED BY <1>3, <1>5, <1>6

LEMMA BextreadIs ==
    ASSUME UbfInv, NEW b \in Bufs, NEW rd \in Readers, Bextread(b, rd)
    PROVE  Method
<1> DEFINE s == Bextread_readf(rd, 1)
           r == Filled(ub[b], s, "add", Cap(b))
<1>1. Contents(s)
  <2>1. \A f \in Fields : <<f, 0>> \in Entries
    <3> TAKE f \in Fields
    <3>1. 0 \in ValuesOf(Bfldtype(f))
      BY DEF ValuesOf
    <3> QED BY <3>1, EntryMade
  <2>2. rd.lines = <<>> \/ \E f \in Fields : rd.lines = <<<<f, 0>>>>
    BY DEF Readers
  <2>3. CASE rd.lines = <<>>
    BY <2>3, EmptyContents DEF Bextread_readf
  <2>4. ASSUME NEW f \in Fields, rd.lines = <<<<f, 0>>>> PROVE Contents(s)
    <3> DEFINE e == <<f, 0>>
    <3>1. e \in Entries /\ rd.lines = <<e>>
      BY <2>1, <2>4
    <3> HIDE DEF e
    <3>2. s = <<e>>
      BY <3>1 DEF Bextread_readf
    <3> HIDE DEF s
    <3>3. e[1] \in Nat
      BY <3>1, EntryType
    <3> QED BY <3>1, <3>2, <3>3 DEF Contents, Ordered
  <2> QED BY <2>2, <2>3, <2>4
<1>2. /\ Set(b, r.c)
      /\ ret' \in IF ~r.all THEN {Throw("BNOSPACE")}
                  ELSE IF rd.throws THEN {Throw("IOException"), Throw("BEINVAL")}
                  ELSE {Ok(0)}
  BY Zenon DEF Bextread
<1>3. Contents(r.c) /\ Len(r.c) <= Cap(b)
  <2> HIDE DEF s
  <2> QED BY <1>1, BufferIs, FilledKeeps
<1> HIDE DEF r
<1>4. ret' \in {Throw("BNOSPACE"), Throw("IOException"), Throw("BEINVAL"), Ok(0)}
  BY <1>2, Zenon
<1>5. Plain(ret')
  BY <1>4, OkPlain, ThrowPlain
<1> QED BY <1>2, <1>3, <1>5, SetIs, Zenon

LEMMA JsonIs ==
    ASSUME UbfInv, NEW b \in Bufs, tpubftojson(b) \/ tpjsontoubf(b)
    PROVE  Method
<1>1. CASE tpubftojson(b)
  <2>1. Save(b)
    BY <1>1, Zenon DEF tpubftojson, Save
  <2>2. Plain(ret')
    BY <1>1, OkPlain DEF tpubftojson
  <2> QED BY <2>1, <2>2, Zenon DEF Method, Shape
<1>2. CASE tpjsontoubf(b)
  <2>1. Contents(copy.data) /\ StoreEach(b, copy.data, "change")
    BY <1>2 DEF tpjsontoubf, UbfInv, Kept
  <2> QED BY <2>1, StoreEachIs, Zenon
<1> QED BY <1>1, <1>2

LEMMA ResetIs == reset => Method
  BY OkPlain DEF reset, Reset, Method, Shape

LEMMA UbfNextIs == UbfInv /\ UbfNext => Method
<1> SUFFICES ASSUME UbfInv, UbfNext PROVE Method
  OBVIOUS
<1>0. 0..1 \subseteq Nat
  OBVIOUS
<1>1. ASSUME NEW b \in Bufs, NEW f \in Fields, NEW t \in {"short", "string"},
             \/ \E v \in ValuesOf(t) : Baddfast(b, f, v, t)
             \/ \E v \in ValuesOf(t) \cup IF t = "string" THEN {Null} ELSE {} :
                   \/ Badd(b, f, v, t)
                   \/ \E o \in 0..1 : Bchg(b, f, o, v, t)
      PROVE  Method
  <2>1. CASE \E v \in ValuesOf(t) : Baddfast(b, f, v, t)
    BY <2>1, BaddfastIs, Zenon
  <2>2. ASSUME NEW v \in ValuesOf(t) \cup IF t = "string" THEN {Null} ELSE {},
               Badd(b, f, v, t) \/ \E o \in 0..1 : Bchg(b, f, o, v, t)
        PROVE  Method
    <3>1. v \in ValuesOf(t) \cup {Null}
      BY Zenon
    <3> QED BY <1>0, <2>2, <3>1, BaddIs, BchgIs, Zenon
  <2> QED BY <1>1, <2>1, <2>2, Zenon
<1>2. ASSUME NEW b \in Bufs, NEW f \in Fields, NEW o \in 0..1,
             \/ BgetShort(b, f, o) \/ BgetString(b, f, o)
             \/ Bdel(b, f, o) \/ Bpres(b, f, o) \/ Blen(b, f, o)
      PROVE  Method
  <2>1. o \in Nat
    OBVIOUS
  <2> QED BY <1>2, <2>1, ReadersAre, DeletingIs, Zenon
<1>3. ASSUME NEW b \in Bufs, NEW f \in Fields, Bdelall(b, f) \/ Boccur(b, f) PROVE Method
  <2>1. 0 \in Nat
    OBVIOUS
  <2> QED BY <1>3, <2>1, ReadersAre, DeletingIs, Zenon
<1>4. ASSUME NEW b \in Bufs, NEW jarr, Bdelete(b, jarr) \/ Bproj(b, jarr) PROVE Method
  BY <1>4, ListedIs, Zenon
<1>5. ASSUME NEW b \in Bufs, NEW s \in Bufs, NEW jarr, Bprojcpy(b, s, jarr) PROVE Method
  BY <1>5, CombiningIs, Zenon
<1>6. ASSUME NEW b \in Bufs, NEW s \in Bufs,
             \/ Bconcat(b, s) \/ Bcpy(b, s) \/ Bupdate(b, s)
             \/ Bjoin(b, s) \/ Bojoin(b, s) \/ Bcmp(b, s) \/ Bsubset(b, s)
      PROVE  Method
  BY <1>6, CombiningIs, ReadersAre, Zenon
<1>7. ASSUME NEW b \in Bufs,
             \/ Bisubf(b) \/ Bsizeof(b) \/ Bunused(b) \/ Bused(b) \/ Bnum(b)
             \/ tplogprintubf(b) \/ Bprint(b) \/ Binit(b)
             \/ Bwrite(b) \/ tpubftojson(b) \/ tpjsontoubf(b)
      PROVE  Method
  BY <1>7, ReadersAre, BinitIs, BwriteIs, JsonIs, Zenon
<1>8. ASSUME NEW b \in Bufs, NEW first \in BOOLEAN, Bnext(b, first) PROVE Method
  BY <1>8, BnextIs, Zenon
<1>9. ASSUME NEW b \in Bufs, NEW rd \in Readers, Bextread(b, rd) PROVE Method
  BY <1>9, BextreadIs, Zenon
<1>10. ASSUME NEW b \in Bufs,
              NEW arr \in {<<>>} \cup IF copy.kind = "bytes" THEN {copy.data} ELSE {}, Bread(b, arr)
       PROVE  Method
  BY <1>10, BreadMethod, Zenon
<1> QED BY <1>1, <1>2, <1>3, <1>4, <1>5, <1>6, <1>7, <1>8, <1>9, <1>10, ResetIs, ZenonT(30) DEF UbfNext

LEMMA MethodKeeps == UbfInv /\ Method => UbfInv'
<1> SUFFICES ASSUME UbfInv, Method PROVE UbfInv'
  OBVIOUS
<1>1. CASE \E b \in Bufs : \E c : Modify(b, c)
  BY <1>1, ModifyKeeps, Zenon
<1>2. CASE \E b \in Bufs, f \in Fields : \E v : AddFast(b, f, v)
  BY <1>2, AddFastKeeps, Zenon
<1>3. CASE Keep
  BY <1>3, OthersKeep, Zenon DEF Keep
<1>4. CASE Reset \/ \E b \in Bufs : Iterate(b) \/ Save(b)
  BY <1>4, OthersKeep, Zenon
<1> QED BY <1>1, <1>2, <1>3, <1>4, Zenon DEF Method, Shape

-----------------------------------------------------------------------------
(* The queue calls. *)

Blocked == [QctlFields -> Int]

LEMMA BlocksTyped == Blocks \subseteq Blocked
  BY DEF Blocks, Blocked, Fresh, Used, QctlFields, Null, WrongLength

LEMMA ToCTyped ==
    ASSUME NEW ctl \in Blocked PROVE TPQCTL_translate2c(ctl) \in Blocked
  BY DEF Blocked, QctlFields, TPQCTL_translate2c, cvt_to_c, Empty

\* A call that returns has copied the block field by field.
LEMMA CopiedExactly ==
    ASSUME NEW ctl \in Blocked, NEW q \in Blocked, NEW pending, ~pending,
           NEW j \in TPQCTL_translate2java(ctl, q, pending)
    PROVE  j = q
<1>1. PICK i \in cvt_to_java(ctl, q, pending) : j = [i EXCEPT !.clt = q.clt]
  BY DEF TPQCTL_translate2java
<1>2. i = Whole(ctl, q, q.diagmsg, q.late)
  BY <1>1 DEF cvt_to_java
<1> QED BY <1>1, <1>2, Zenon DEF Blocked, QctlFields, Whole

\* The diagnostic is always copied, whatever else is lost.
LEMMA DiagnosticCopied ==
    ASSUME NEW ctl \in Blocked, NEW q \in Blocked, NEW pending,
           NEW j \in TPQCTL_translate2java(ctl, q, pending)
    PROVE  j.diag = q.diag
<1>1. PICK i \in cvt_to_java(ctl, q, pending),
           x \in {q.clt} \cup IF pending THEN {ctl.clt} ELSE {} : j = [i EXCEPT !.clt = x]
  BY DEF TPQCTL_translate2java
<1>2. \A m, l : /\ [Whole(ctl, q, m, l) EXCEPT !.clt = x].diag = q.diag
               /\ [CutOff(ctl, q, m) EXCEPT !.clt = x].diag = q.diag
  BY DEF Blocked, QctlFields, Whole, CutOff
<1>3. (\E m, l : i = Whole(ctl, q, m, l)) \/ \E m : i = CutOff(ctl, q, m)
  BY <1>1 DEF cvt_to_java
<1> QED BY <1>1, <1>2, <1>3

LEMMA FailuresTyped ==
    ASSUME NEW q \in Blocked, NEW e \in Failures(q)
    PROVE  /\ e.q \in Blocked /\ e.ex \in {"TPEDIAGNOSTIC", "TPETIME"}
           /\ e.ex = "TPEDIAGNOSTIC" => e.q.diag = Refusal
<1>1. CASE e = [ex |-> "TPEDIAGNOSTIC", q |-> [q EXCEPT !.diag = Refusal, !.diagmsg = Refusal]]
  <2>1. e.q = [q EXCEPT !.diag = Refusal, !.diagmsg = Refusal] /\ e.ex = "TPEDIAGNOSTIC"
    BY <1>1
  <2> DEFINE r == [q EXCEPT !.diag = Refusal]
  <2>2. r \in Blocked /\ r.diag = Refusal
    BY DEF Blocked, QctlFields, Refusal
  <2>3. e.q = [r EXCEPT !.diagmsg = Refusal]
    BY <2>1
  <2> HIDE DEF r
  <2>4. e.q \in Blocked /\ e.q.diag = Refusal
    BY <2>2, <2>3 DEF Blocked, QctlFields, Refusal
  <2> QED BY <2>1, <2>4
<1>2. CASE e = [ex |-> "TPETIME", q |-> q]
  BY <1>2
<1> QED BY <1>1, <1>2 DEF Failures

\* A message is put into the queue, taken out of it, or lost.
Enqueue(b, q) == q \in Blocked /\ Queued(b, q)
Lose == copy' = NoCopy /\ UNCHANGED <<ub, loc, batch, iter, saved>>

LEMMA QueuedKeeps ==
    ASSUME UbfInv, NEW b \in Bufs, NEW q, Enqueue(b, q)
    PROVE  UbfInv'
<1> USE DEF UbfInv, Enqueue, Queued
<1>1. Buffers' /\ Located' /\ Iterated'
  BY DEF Buffers, BufferOK, Located, Iterated, Contents, Ordered, Upto
<1>2. Contents(ub[b]) /\ Len(ub[b]) <= Cap(b) /\ Len(ub[b]) \in Nat
  BY BufferIs
<1>3. Contents(ub[b]) /\ Len(ub[b]) <= Space
  BY <1>2, CapNat, UbfAssumption, SMTT(30), Zenon
<1>4. Contents(saved') /\ Len(saved') <= Space
  BY <1>3
<1>5. copy'.kind = "queue" /\ copy'.data = saved' /\ copy'.ctl = q
  BY SMTT(30), Zenon
<1>6. Kept'
  BY <1>4, <1>5, SMTT(30), Zenon DEF Kept, Blocked
<1> QED BY <1>1, <1>6, SMTT(30), Zenon

LEMMA TakenKeeps ==
    ASSUME UbfInv, NEW b \in Bufs, Taken(b)
    PROVE  UbfInv' /\ ub'[b] = saved
<1> USE DEF UbfInv, Taken
<1>1. copy.data = saved /\ Contents(saved) /\ Len(saved) <= Cap(b) /\ Len(saved) <= Space
  BY DEF Kept
<1>2. saved \in Seq(Entries) /\ ub \in [Bufs -> Seq(Entries)]
  BY <1>1 DEF Contents, Buffers
<1>3. /\ ub' \in [Bufs -> Seq(Entries)] /\ ub'[b] = saved
      /\ \A a \in Bufs : a # b => ub'[a] = ub[a]
  BY <1>1, <1>2
<1>4. Buffers'
  <2>1. ASSUME NEW a \in Bufs PROVE BufferOK(a)'
    <3>1. CASE a = b
      BY <1>1, <1>3, <3>1, SMTT(30), Zenon DEF BufferOK, Contents, Ordered, Cap
    <3>2. CASE a # b
      BY <1>3, <3>2 DEF BufferOK, Buffers, Contents, Ordered, Cap
    <3> QED BY <3>1, <3>2, SMTT(30), Zenon
  <2> QED BY <1>3, <2>1 DEF Buffers
<1>5. Located'
  <2>1. CASE batch = b
    BY <2>1, UbfAssumption, SMTT(30), Zenon DEF Located
  <2>2. CASE batch # b
    BY <1>3, <2>2 DEF Located, Upto
  <2> QED BY <2>1, <2>2, SMTT(30), Zenon
<1>6. Iterated'
  <2>1. CASE iter.b = b
    <3>1. iter' = NoIter
      BY <2>1, Zenon
    <3>2. /\ NoIter.b = None /\ NoIter.end \in BOOLEAN
          /\ NoIter \in [b : Bufs \cup {None}, seen : Seq(Pairs), end : BOOLEAN]
      BY SMTT(30) DEF NoIter
    <3> QED BY <3>1, <3>2, Zenon DEF Iterated
  <2>2. CASE iter.b # b
    <3>1. iter' = iter
      BY <2>2, SMTT(30), Zenon
    <3>2. CASE iter.b = None
      BY <3>1, <3>2, SMTT(30), Zenon DEF Iterated
    <3>3. CASE iter.b # None
      <4>1. ub'[iter.b] = ub[iter.b]
        BY <1>3, <2>2, <3>3, SMTT(30), Zenon DEF Iterated
      <4> QED BY <3>1, <4>1, SMTT(30), Zenon DEF Iterated
    <3> QED BY <3>2, <3>3
  <2> QED BY <2>1, <2>2, SMTT(30), Zenon
<1>7. Kept'
  <2>1. copy'.kind = "none" /\ saved' = saved
    BY DEF NoCopy
  <2> QED BY <1>1, <2>1 DEF Kept
<1> QED BY <1>3, <1>4, <1>5, <1>6, <1>7, SMTT(30), Zenon

LEMMA LoseKeeps == UbfInv /\ Lose => UbfInv'
<1> SUFFICES ASSUME UbfInv, Lose PROVE UbfInv'
  OBVIOUS
<1> USE DEF UbfInv, Lose
<1>1. Buffers' /\ Located' /\ Iterated'
  BY DEF Buffers, BufferOK, Located, Iterated, Contents, Ordered, Upto
<1>2. copy'.kind = "none" /\ saved' = saved
  BY DEF NoCopy
<1>3. Kept'
  BY <1>2 DEF Kept
<1> QED BY <1>1, <1>3, SMTT(30), Zenon

\* What a queue call may do.
QueueStep ==
    /\ \/ Keep /\ ret'.ex # "none"
       \/ \E b \in Bufs : \E q : Enqueue(b, q)
       \/ Lose /\ ret'.ex # "none"
       \/ \E b \in Bufs : Taken(b) /\ (ret'.ex = "none" => qctl' = copy.ctl)
    /\ ret'.ex = "TPEDIAGNOSTIC" => qctl'.diag = Refusal

LEMMA CopiedIs ==
    ASSUME NEW ctl \in Blocked, NEW q \in Blocked, Copied(ctl, q)
    PROVE  ret'.ex # "TPEDIAGNOSTIC" /\ (ret'.ex = "none" => qctl' = q)
<1>1. CASE ret' = Ok(0) /\ qctl' \in TPQCTL_translate2java(ctl, q, FALSE)
  <2>1. qctl' = q
    <3>1. ~FALSE
      OBVIOUS
    <3> QED BY <1>1, <3>1, CopiedExactly, Zenon
  <2>2. ret'.ex = "none"
    BY <1>1 DEF Ok
  <2> QED BY <2>1, <2>2
<1>2. CASE ret' = Throw("OutOfMemoryError")
  BY <1>2 DEF Throw
<1> QED BY <1>1, <1>2, Zenon DEF Copied

LEMMA EnqueueIs ==
    ASSUME UbfInv, NEW b \in Bufs, NEW ctl \in Blocks, tpenqueue(b, ctl)
    PROVE  QueueStep
<1> DEFINE q == TPQCTL_translate2c(ctl)
<1>1. ctl \in Blocked /\ q \in Blocked
  BY BlocksTyped, ToCTyped
<1>2. IF q.ids = WrongLength THEN Return(Throw("TPEINVAL")) /\ qctl' = ctl
      ELSE \/ Queued(b, q) /\ Copied(ctl, q)
           \/ \E e \in Failures(q) :
                 /\ \/ Return(Throw(e.ex))
                    \/ e.ex = "TPETIME" /\ Queued(b, q) /\ ret' = Throw(e.ex)
                 /\ qctl' \in TPQCTL_translate2java(ctl, e.q, TRUE)
  BY Zenon DEF tpenqueue, tpenqueue_int
<1> HIDE DEF q
<1>3. CASE Return(Throw("TPEINVAL"))
  BY <1>3 DEF QueueStep, Return, Throw
<1>4. CASE Queued(b, q) /\ Copied(ctl, q)
  <2>1. ret'.ex # "TPEDIAGNOSTIC"
    BY <1>1, <1>4, CopiedIs
  <2>2. Enqueue(b, q)
    BY <1>1, <1>4 DEF Enqueue
  <2> QED BY <2>1, <2>2, Zenon DEF QueueStep
<1>5. ASSUME NEW e \in Failures(q),
             \/ Return(Throw(e.ex))
             \/ e.ex = "TPETIME" /\ Queued(b, q) /\ ret' = Throw(e.ex),
             qctl' \in TPQCTL_translate2java(ctl, e.q, TRUE)
      PROVE  QueueStep
  <2>1. /\ e.q \in Blocked /\ e.ex \in {"TPEDIAGNOSTIC", "TPETIME"}
        /\ e.ex = "TPEDIAGNOSTIC" => e.q.diag = Refusal
    BY <1>1, FailuresTyped, SMTT(30), Zenon
  <2>2. qctl'.diag = e.q.diag
    <3> DEFINE pending == TRUE
    <3>1. qctl' \in TPQCTL_translate2java(ctl, e.q, pending)
      BY <1>5, Zenon
    <3> HIDE DEF pending
    <3> QED BY <1>1, <2>1, <3>1, DiagnosticCopied, SMTT(30)
  <2>3. ret' = Throw(e.ex)
    BY <1>5 DEF Return
  <2>4. ret'.ex = e.ex /\ ret'.ex # "none"
    BY <2>1, <2>3 DEF Throw
  <2>5. ret'.ex = "TPEDIAGNOSTIC" => qctl'.diag = Refusal
    BY <2>1, <2>2, <2>4
  <2>6. Keep \/ Enqueue(b, q)
    BY <1>1, <1>5 DEF Return, Enqueue
  <2> QED BY <2>4, <2>5, <2>6, Zenon DEF QueueStep
<1> QED BY <1>2, <1>3, <1>4, <1>5, Zenon

LEMMA DequeueIs ==
    ASSUME UbfInv, NEW b \in Bufs, NEW ctl \in Blocks, tpdequeue(b, ctl)
    PROVE  QueueStep
<1> DEFINE q == TPQCTL_translate2c(ctl)
<1>1. ctl \in Blocked /\ q \in Blocked
  BY BlocksTyped, ToCTyped
<1>2. IF q.ids = WrongLength THEN Return(Throw("TPEINVAL")) /\ qctl' = ctl
      ELSE \/ Taken(b) /\ Copied(ctl, copy.ctl)
           \/ \E e \in Failures(q) :
                 /\ \/ Return(Throw(e.ex))
                    \/ /\ e.ex = "TPETIME" /\ copy.kind = "queue" /\ copy' = NoCopy
                       /\ ret' = Throw(e.ex)
                       /\ UNCHANGED <<ub, loc, batch, iter, saved>>
                 /\ qctl' \in TPQCTL_translate2java(ctl, e.q, FALSE)
  BY Zenon DEF tpdequeue, tpdequeue_int
<1> HIDE DEF q
<1>3. CASE Return(Throw("TPEINVAL"))
  BY <1>3 DEF QueueStep, Return, Throw
<1>4. CASE Taken(b) /\ Copied(ctl, copy.ctl)
  <2>1. copy.ctl \in Blocked
    BY <1>4 DEF Taken, UbfInv, Kept, Blocked
  <2>2. ret'.ex # "TPEDIAGNOSTIC" /\ (ret'.ex = "none" => qctl' = copy.ctl)
    BY <1>1, <1>4, <2>1, CopiedIs, SMTT(30), Zenon
  <2> QED BY <1>4, <2>2, Zenon DEF QueueStep
<1>5. ASSUME NEW e \in Failures(q),
             \/ Return(Throw(e.ex))
             \/ /\ e.ex = "TPETIME" /\ copy.kind = "queue" /\ copy' = NoCopy
                /\ ret' = Throw(e.ex)
                /\ UNCHANGED <<ub, loc, batch, iter, saved>>,
             qctl' \in TPQCTL_translate2java(ctl, e.q, FALSE)
      PROVE  QueueStep
  <2>1. /\ e.q \in Blocked /\ e.ex \in {"TPEDIAGNOSTIC", "TPETIME"}
        /\ e.ex = "TPEDIAGNOSTIC" => e.q.diag = Refusal
    BY <1>1, FailuresTyped, Zenon
  <2>2. qctl'.diag = e.q.diag
    BY <1>1, <1>5, <2>1, DiagnosticCopied, ZenonT(30)
  <2>3. ret' = Throw(e.ex)
    BY <1>5 DEF Return
  <2>4. ret'.ex = e.ex /\ ret'.ex # "none"
    BY <2>1, <2>3 DEF Throw
  <2>5. ret'.ex = "TPEDIAGNOSTIC" => qctl'.diag = Refusal
    BY <2>1, <2>2, <2>4
  <2>6. Keep \/ Lose
    BY <1>5 DEF Return, Lose
  <2> QED BY <2>4, <2>5, <2>6, Zenon DEF QueueStep
<1> QED BY <1>2, <1>3, <1>4, <1>5, Zenon

LEMMA QueueNextIs == UbfInv /\ QueueNext => (Method /\ UNCHANGED qctl) \/ QueueStep
  BY UbfNextIs, EnqueueIs, DequeueIs, Zenon DEF QueueNext

LEMMA QueueStepKeeps == UbfInv /\ QueueStep => UbfInv'
<1> SUFFICES ASSUME UbfInv, QueueStep PROVE UbfInv'
  OBVIOUS
<1>1. CASE Keep
  BY <1>1, OthersKeep, Zenon DEF Keep
<1>2. CASE \E b \in Bufs : \E q : Enqueue(b, q)
  BY <1>2, QueuedKeeps, Zenon
<1>3. CASE Lose
  BY <1>3, LoseKeeps
<1>4. CASE \E b \in Bufs : Taken(b)
  BY <1>4, TakenKeeps, Zenon
<1> QED BY <1>1, <1>2, <1>3, <1>4, ZenonT(30) DEF QueueStep

LEMMA InvNext == UbfInv /\ [QueueNext]_<<vars, qctl>> => UbfInv'
<1> SUFFICES ASSUME UbfInv, [QueueNext]_<<vars, qctl>> PROVE UbfInv'
  OBVIOUS
<1>1. CASE QueueNext
  BY <1>1, QueueNextIs, MethodKeeps, QueueStepKeeps, Zenon
<1>2. CASE UNCHANGED <<vars, qctl>>
  <2>1. UNCHANGED <<ub, loc, batch, iter, copy, saved>>
    BY <1>2 DEF vars
  <2> QED BY <2>1, OthersKeep, Zenon
<1> QED BY <1>1, <1>2, Zenon

LEMMA InvAlways == QueueSpec => []UbfInv
  BY InvInit, InvNext, PTL DEF QueueSpec

-----------------------------------------------------------------------------
(* Theorems. *)

LEMMA ContentsProper ==
    ASSUME NEW c, NEW room, Contents(c), Len(c) <= room
    PROVE  Proper(c, room)
<1>1. DOMAIN c = 1..Len(c) /\ Len(c) \in Nat /\ \A i \in 1..Len(c) : c[i] \in Entries
  BY DEF Contents
<1>2. \A i \in 1..Len(c) : c[i][1] \in Fields /\ c[i][2] \in ValuesOf(Bfldtype(c[i][1]))
  BY <1>1, EntryType, SMTT(30), Zenon
<1>3. \A i, j \in 1..Len(c) : i < j => c[i][1] <= c[j][1]
  BY <1>1 DEF Contents, Ordered
<1> QED BY <1>1, <1>2, <1>3 DEF Proper

\* Whichever methods fill, change, join, cut or restore the buffers, and in
\* whatever order, every buffer stays a proper UBF buffer: typed fields, in
\* order, within its size.
THEOREM UbfTypeCorrect == QueueSpec => []UbfTypeOK
<1>1. UbfInv => UbfTypeOK
  <2> SUFFICES ASSUME UbfInv PROVE UbfTypeOK
    OBVIOUS
  <2>1. DOMAIN ub = Bufs /\ \A b \in Bufs : Proper(ub[b], Cap(b))
    BY ContentsProper DEF UbfInv, Buffers, BufferOK
  <2>2. Proper(saved, Space)
    BY ContentsProper DEF UbfInv, Kept
  <2>3. /\ loc.last \in Fields \cup {BBADFLDID} /\ loc.at \in 0..Space
        /\ batch \in Bufs \cup {None}
    BY DEF UbfInv, Located
  <2>4. iter.b \in Bufs \cup {None} /\ iter.end \in BOOLEAN
    BY DEF UbfInv, Iterated
  <2>5. copy.kind \in {"none", "bytes", "json", "queue"}
    BY DEF UbfInv, Kept
  <2> QED BY <2>1, <2>2, <2>3, <2>4, <2>5, Zenon DEF UbfTypeOK
<1> QED BY <1>1, InvAlways, PTL

\* Bnext returns every occurrence once, in order, and the end after the last.
THEOREM UbfIterationExact == QueueSpec => []IterationExact
<1>1. UbfInv => IterationExact
  <2> SUFFICES ASSUME UbfInv, iter.b # None
               PROVE  LET all == [i \in DOMAIN ub[iter.b] |-> BNextResult_new(ub[iter.b], i)]
                      IN  /\ Len(iter.seen) <= Len(all) /\ iter.seen = SubSeq(all, 1, Len(iter.seen))
                          /\ iter.end => iter.seen = all
    BY DEF IterationExact
  <2> DEFINE c == ub[iter.b]
             all == [i \in DOMAIN c |-> BNextResult_new(c, i)]
             seen == iter.seen
  <2>1. Passed(iter, c) /\ iter.b \in Bufs
    BY DEF UbfInv, Iterated
  <2>2. Contents(c) /\ Len(c) \in Nat /\ DOMAIN c = 1..Len(c)
    BY <2>1, BufferIs DEF Contents
  <2> HIDE DEF c
  <2>3. \A i \in 1..Len(c) : BNextResult_new(c, i) \in Pairs
    BY <2>2, ResultType
  <2>4. /\ all \in Seq(Pairs) /\ Len(all) = Len(c)
        /\ \A i \in 1..Len(c) : all[i] = BNextResult_new(c, i)
    BY <2>2, <2>3
  <2>5. /\ seen \in Seq(Pairs) /\ Len(seen) \in Nat /\ Len(seen) <= Len(c)
        /\ \A k \in 1..Len(seen) : seen[k] = BNextResult_new(c, k)
    BY <2>1 DEF Passed
  <2>6. iter.end => Len(seen) = Len(c)
    BY <2>1, Zenon DEF Passed
  <2> HIDE DEF all, seen
  <2>7. \A k \in 1..Len(seen) : seen[k] = all[k]
    <3> TAKE k \in 1..Len(seen)
    <3>1. k \in 1..Len(c)
      BY <2>2, <2>5
    <3> QED BY <2>4, <2>5, <3>1
  <2>8. Len(seen) <= Len(all) /\ seen = SubSeq(all, 1, Len(seen))
    <3> DEFINE t == SubSeq(all, 1, Len(seen))
    <3>1. t \in Seq(Pairs) /\ Len(t) = Len(seen) /\ \A k \in 1..Len(seen) : t[k] = all[k]
      BY <2>2, <2>4, <2>5
    <3> HIDE DEF t
    <3>2. \A k \in 1..Len(seen) : seen[k] = t[k]
      BY <2>7, <3>1, SMTT(30), Zenon
    <3>3. seen = t
      BY <2>5, <3>1, <3>2, SeqEqual, SMTT(30), Zenon
    <3>4. Len(seen) <= Len(all)
      BY <2>4, <2>5
    <3> QED BY <3>3, <3>4 DEF t
  <2>9. ASSUME iter.end PROVE seen = all
    <3>1. Len(seen) = Len(all)
      BY <2>4, <2>6, <2>9
    <3> QED BY <2>4, <2>5, <2>7, <3>1, SeqEqual, SMTT(30), Zenon
  <2>10. /\ Len(seen) <= Len(all) /\ seen = SubSeq(all, 1, Len(seen))
         /\ iter.end => seen = all
    BY <2>8, <2>9, ZenonT(30)
  <2> QED BY <2>10, Zenon DEF all, seen, c
<1> QED BY <1>1, InvAlways, PTL

\* An occurrence that is put behind those before it is appended.
LEMMA ChangedAppends ==
    ASSUME NEW s, Contents(s), NEW n \in 1..Len(s)
    PROVE  Changed(SubSeq(s, 1, n - 1), s[n][1], OccAt(s, n), s[n][2]) = SubSeq(s, 1, n)
<1> DEFINE c == SubSeq(s, 1, n - 1)
           f == s[n][1]
<1>1. Len(s) \in Nat /\ s \in Seq(Entries) /\ n \in Nat /\ n - 1 \in Nat
  BY DEF Contents
<1>2. /\ c \in Seq(Entries) /\ Len(c) = n - 1 /\ DOMAIN c = 1..(n - 1)
      /\ \A i \in 1..(n - 1) : c[i] = s[i]
  BY <1>1
<1> HIDE DEF c
<1>3. Occurrences(c, f) = OccAt(s, n)
  <2>1. {i \in DOMAIN c : c[i][1] = f} = {j \in 1..(n - 1) : s[j][1] = s[n][1]}
    BY <1>2
  <2> QED BY <2>1, Zenon DEF Occurrences, OccAt
<1>4. Upto(c, f) = n - 1
  <2>1. \A i \in 1..(n - 1) : s[i][1] <= f
    BY <1>1, SMTT(30), Zenon DEF Contents, Ordered
  <2>2. {i \in DOMAIN c : c[i][1] <= f} = 1..(n - 1)
    BY <1>2, <2>1, SMTT(30), Zenon
  <2>3. Cardinality(1..(n - 1)) = n - 1
    BY <1>1, FS_Interval, SMTT(30), Zenon
  <2> QED BY <2>2, <2>3, Zenon DEF Upto
<1>5. OccAt(s, n) \in Nat
  BY <1>1, OccAtNat, SMTT(30), Zenon
<1>6. ~Has(c, f, OccAt(s, n))
  BY <1>3, <1>5, SMTT(30), Zenon DEF Has
<1> DEFINE e == <<f, s[n][2]>>
           gap == [k \in 1..(OccAt(s, n) - Occurrences(c, f)) |-> <<f, Blank(f)>>]
           A == SubSeq(c, 1, n - 1)
           B == SubSeq(c, n - 1 + 1, Len(c))
<1>7. Changed(c, f, OccAt(s, n), s[n][2]) = A \o gap \o <<e>> \o B
  BY <1>4, <1>6, Zenon DEF Changed
<1>8. s[n] \in Entries
  BY <1>1
<1>9. e = s[n]
  BY <1>8, EntryType
<1> HIDE DEF e, f
<1>10. gap = <<>>
  <2>1. OccAt(s, n) - Occurrences(c, f) = 0
    BY <1>3, <1>5, SMTT(30), Zenon
  <2> QED BY <2>1
<1>11. A = c
  BY <1>1, <1>2
<1>12. B = <<>>
  BY <1>1, <1>2, SMTT(30), Zenon
<1> HIDE DEF gap, A, B
<1>13. c \o <<>> = c
  BY <1>2
<1>14. c \o <<s[n]>> = SubSeq(s, 1, n)
  <2> DEFINE x == s[n]
             d == c \o <<x>>
             t == SubSeq(s, 1, n)
  <2>1. x \in Entries
    BY <1>8
  <2> HIDE DEF x
  <2>2. <<x>> \in Seq(Entries) /\ Len(<<x>>) = 1 /\ <<x>>[1] = x
    BY <2>1, SMTT(30), Zenon
  <2>3. /\ d \in Seq(Entries) /\ Len(d) = Len(c) + Len(<<x>>)
        /\ \A i \in 1..(Len(c) + Len(<<x>>)) : d[i] = IF i <= Len(c) THEN c[i] ELSE <<x>>[i - Len(c)]
    BY <1>2, <2>2, ConcatProperties, SMTT(30), Zenon
  <2> HIDE DEF d
  <2>4. Len(d) = n /\ \A i \in 1..n : d[i] = s[i]
    <3>1. Len(d) = n
      BY <1>1, <1>2, <2>2, <2>3, SMTT(30), Zenon
    <3>2. ASSUME NEW i \in 1..n PROVE d[i] = s[i]
      <4>1. CASE i = n
        <5>1. ~(i <= Len(c)) /\ i - Len(c) = 1 /\ i \in 1..(Len(c) + Len(<<x>>))
          BY <1>1, <1>2, <2>2, <4>1, SMTT(30), Zenon
        <5> QED BY <2>2, <2>3, <4>1, <5>1, SMTT(30), Zenon DEF x
      <4>2. CASE i # n
        <5>1. i \in 1..(n - 1) /\ i <= Len(c) /\ i \in 1..(Len(c) + Len(<<x>>))
          BY <1>1, <1>2, <2>2, <4>2, SMTT(30), Zenon
        <5> QED BY <1>2, <2>3, <5>1, SMTT(30), Zenon
      <4> QED BY <4>1, <4>2, SMTT(30), Zenon
    <3> QED BY <3>1, <3>2, SMTT(30), Zenon
  <2>5. t \in Seq(Entries) /\ Len(t) = n /\ \A i \in 1..n : t[i] = s[i]
    BY <1>1
  <2> HIDE DEF t
  <2>6. \A i \in 1..Len(d) : d[i] = t[i]
    BY <2>4, <2>5, SMTT(30), Zenon
  <2>7. d = t
    BY <2>3, <2>4, <2>5, <2>6, SeqEqual, SMTT(30), Zenon
  <2> QED BY <2>7 DEF d, t, x
<1>15. SubSeq(s, 1, n) \o <<>> = SubSeq(s, 1, n)
  BY <1>1
<1> QED BY <1>7, <1>9, <1>10, <1>11, <1>12, <1>13, <1>14, <1>15, SMTT(30), Zenon DEF c, f

\* Text read into an empty buffer gives every entry again.
LEMMA JsonRestores ==
    ASSUME NEW s, Contents(s), NEW room \in Nat, Len(s) <= room
    PROVE  Filled(<<>>, s, "change", room).c = s
<1> DEFINE z == <<>>
           how == "change"
           at == FilledAt(z, s, how)
           N == Len(s)
           G == {n \in 0..N : at[n] = SubSeq(s, 1, n)}
<1>1. N \in Nat /\ s \in Seq(Entries)
  BY DEF Contents
<1>2. Contents(z) /\ Len(z) <= room
  BY EmptyContents
<1> HIDE DEF z, how
<1>3. at[0] = z /\ \A n \in 1..N : at[n] = Put(how, at[n - 1], s, n)
  <2>1. /\ FilledAt(z, s, how)[0] = z
        /\ \A n \in 1..Len(s) :
              /\ FilledAt(z, s, how)[n] = Put(how, FilledAt(z, s, how)[n - 1], s, n)
              /\ Contents(FilledAt(z, s, how)[n])
    BY <1>2, FilledUnfolds
  <2> QED BY <2>1, Zenon
<1>4. PICK m \in 0..N :
         /\ Filled(z, s, how, room) = [all |-> m = N, c |-> at[m]]
         /\ (\A k \in 1..N : Len(at[k]) <= room) => m = N
  <2>1. \E m \in 0..Len(s) : StopsAfter(m, z, s, how, room)
    BY <1>2, FilledIs
  <2> QED BY <2>1, Zenon DEF StopsAfter
<1> HIDE DEF at, N
<1>5. 0 \in G
  <2>1. SubSeq(s, 1, 0) = <<>>
    BY <1>1
  <2>2. at[0] = SubSeq(s, 1, 0)
    BY <1>3, <2>1 DEF z
  <2> QED BY <1>1, <2>2
<1>6. ASSUME NEW n \in 1..N, n - 1 \in G PROVE n \in G
  <2>1. at[n - 1] = SubSeq(s, 1, n - 1)
    BY <1>6, SMTT(30), Zenon
  <2>2. at[n] = Changed(SubSeq(s, 1, n - 1), s[n][1], OccAt(s, n), s[n][2])
    BY <1>3, <2>1, Zenon DEF Put, how
  <2>3. n \in 1..Len(s)
    BY SMTT(30), Zenon DEF N
  <2>4. at[n] = SubSeq(s, 1, n)
    BY <2>2, <2>3, ChangedAppends
  <2> QED BY <1>1, <2>4
<1>7. \A n \in 0..N : n \in G
  <2> HIDE DEF G
  <2> QED BY <1>1, <1>5, <1>6, UpTo, Zenon
<1>8. \A n \in 0..N : at[n] = SubSeq(s, 1, n)
  BY <1>7
<1>9. \A k \in 1..N : Len(at[k]) <= room
  <2> TAKE k \in 1..N
  <2>1. at[k] = SubSeq(s, 1, k) /\ k \in 1..Len(s)
    BY <1>1, <1>8 DEF N
  <2>2. Len(SubSeq(s, 1, k)) = k
    BY <1>1, <2>1
  <2> QED BY <1>1, <2>1, <2>2 DEF N
<1>10. m = N
  BY <1>4, <1>9
<1>11. at[N] = SubSeq(s, 1, Len(s)) /\ SubSeq(s, 1, Len(s)) = s
  BY <1>1, <1>8, SMTT(30), Zenon DEF N
<1>12. Filled(z, s, how, room).c = s
  BY <1>4, <1>10, <1>11, SMTT(30), Zenon
<1> QED BY <1>12 DEF z, how

\* What Bwrite or tpubftojson returned gives the contents back, in any buffer
\* with room for them.
THEOREM UbfRoundTrip == QueueSpec => []RoundTrip
<1>1. UbfInv => RoundTrip
  <2> SUFFICES ASSUME UbfInv, NEW b \in Bufs, Len(saved) <= Cap(b)
               PROVE  /\ copy.kind = "bytes" => Breadcb(copy.data, Cap(b)) = Ok(saved)
                      /\ copy.kind = "json" => Filled(<<>>, copy.data, "change", Cap(b)).c = saved
    BY DEF RoundTrip
  <2>1. Contents(saved) /\ Cap(b) \in Nat
    BY CapNat DEF UbfInv, Kept
  <2>2. ASSUME copy.kind = "bytes" PROVE Breadcb(copy.data, Cap(b)) = Ok(saved)
    <3>1. copy.data = Stored(saved)
      BY <2>2 DEF UbfInv, Kept
    <3>2. ~(Len(saved) > Cap(b))
      <4>1. Len(saved) \in Nat
        BY <2>1 DEF Contents
      <4> QED BY <2>1, <4>1
    <3>3. Breadcb(Stored(saved), Cap(b)) = IF Len(saved) > Cap(b) THEN Throw("BNOSPACE") ELSE Ok(saved)
      BY <2>1, BreadIs
    <3> QED BY <3>1, <3>2, <3>3
  <2>3. ASSUME copy.kind = "json" PROVE Filled(<<>>, copy.data, "change", Cap(b)).c = saved
    <3>1. copy.data = saved
      BY <2>3 DEF UbfInv, Kept
    <3>2. Filled(<<>>, saved, "change", Cap(b)).c = saved
      BY <2>1, JsonRestores
    <3> QED BY <3>1, <3>2
  <2> QED BY <2>2, <2>3
<1> QED BY <1>1, InvAlways, PTL

\* Baddfast leaves a buffer as Badd would.
THEOREM UbfFastIsAdd == QueueSpec => FastIsAdd
<1> DEFINE A == \A b \in Bufs : batch' = b /\ ub'[b] # ub[b] =>
                   \E v \in ValuesOf(Bfldtype(loc'.last)) : ub'[b] = Added(ub[b], loc'.last, v)
<1>1. UbfInv /\ [QueueNext]_<<vars, qctl>> => [A]_vars
  <2> SUFFICES ASSUME UbfInv, [QueueNext]_<<vars, qctl>>, NEW b \in Bufs, batch' = b, ub'[b] # ub[b]
               PROVE  \E v \in ValuesOf(Bfldtype(loc'.last)) : ub'[b] = Added(ub[b], loc'.last, v)
    OBVIOUS
  <2>1. ub' # ub
    OBVIOUS
  <2>2. QueueNext
    BY <2>1, SMTT(30), Zenon DEF vars
  <2>3. ASSUME NEW a \in Bufs, NEW f \in Fields, NEW v, AddFast(a, f, v)
        PROVE  \E w \in ValuesOf(Bfldtype(loc'.last)) : ub'[b] = Added(ub[b], loc'.last, w)
    <3>1. a = b /\ loc'.last = f /\ v \in ValuesOf(Bfldtype(f))
      BY <2>3 DEF AddFast
    <3>2. ub'[b] = Added(ub[b], f, v)
      BY <2>3, <3>1 DEF AddFast, UbfInv, Buffers
    <3> QED BY <3>1, <3>2, SMTT(30), Zenon
  <2>4. ASSUME NEW a \in Bufs, NEW c, Modify(a, c) PROVE FALSE
    <3>1. a # b
      BY <2>4, UbfAssumption DEF Modify, Set
    <3> QED BY <2>4, <3>1, SMTT(30), Zenon DEF Modify, Set, UbfInv, Buffers
  <2>5. ASSUME NEW a \in Bufs, Taken(a) PROVE FALSE
    <3>1. a # b
      BY <2>5, UbfAssumption DEF Taken
    <3> QED BY <2>5, <3>1 DEF Taken, UbfInv, Buffers
  <2>6. ~Keep /\ ~Reset /\ ~Lose
    BY <2>1, SMTT(30), Zenon DEF Keep, Reset, Lose
  <2>7. \A a, q : ~Iterate(a) /\ ~Save(a) /\ ~Enqueue(a, q)
    BY <2>1 DEF Iterate, Save, Enqueue, Queued
  <2>8. CASE Method
    BY <2>3, <2>4, <2>6, <2>7, <2>8, Zenon DEF Method, Shape
  <2>9. CASE QueueStep
    BY <2>5, <2>6, <2>7, <2>9, Zenon DEF QueueStep
  <2> QED BY <2>2, <2>8, <2>9, QueueNextIs, ZenonT(30)
<1> QED BY <1>1, InvAlways, PTL DEF QueueSpec, FastIsAdd

\* A saved copy is not an empty one.
LEMMA SaveKind == ASSUME NEW b, Save(b) PROVE copy'.kind # "none"
<1>1. CASE copy' = [kind |-> "bytes", data |-> Stored(ub[b])]
  BY <1>1, SMTT(30)
<1>2. CASE copy' = [kind |-> "json", data |-> ub[b]]
  BY <1>2, SMTT(30)
<1> QED BY <1>1, <1>2, Zenon DEF Save

\* A receiver finds in its buffer and in its TPQCTL what the sender had put in.
THEOREM QueueMessageKept == QueueSpec => MessageKept
<1> DEFINE A == copy.kind = "queue" /\ copy' = NoCopy /\ ret'.ex = "none" =>
                   (\E b \in Bufs : ub'[b] = saved) /\ qctl' = copy.ctl
<1>1. UbfInv /\ [QueueNext]_<<vars, qctl>> => [A]_<<vars, qctl>>
  <2> SUFFICES ASSUME UbfInv, [QueueNext]_<<vars, qctl>>,
                      copy.kind = "queue", copy' = NoCopy, ret'.ex = "none"
               PROVE  (\E b \in Bufs : ub'[b] = saved) /\ qctl' = copy.ctl
    OBVIOUS
  <2>1. copy' # copy /\ copy'.kind = "none"
    BY DEF NoCopy
  <2>2. QueueNext
    BY <2>1 DEF vars
  <2>3. ~Keep /\ ~Reset
    BY <2>1, SMTT(30), Zenon DEF Keep, Reset
  <2>4. \A b, c, f, v : ~Modify(b, c) /\ ~AddFast(b, f, v) /\ ~Iterate(b)
    BY <2>1, SMTT(30), Zenon DEF Modify, Set, AddFast, Iterate
  <2>5. \A b : ~Save(b)
    BY <2>1, SaveKind, Zenon
  <2>6. \A b, q : ~Enqueue(b, q)
    BY DEF Enqueue, Queued
  <2>7. ~Method
    BY <2>3, <2>4, <2>5, Zenon DEF Method, Shape
  <2>8. QueueStep
    BY <2>2, <2>7, QueueNextIs, Zenon
  <2>9. PICK b \in Bufs : Taken(b) /\ qctl' = copy.ctl
    BY <2>3, <2>6, <2>8, Zenon DEF QueueStep
  <2> QED BY <2>9, TakenKeeps, Zenon
<1> QED BY <1>1, InvAlways, PTL DEF QueueSpec, MessageKept

\* The diagnostic that the exception gives is the one of the call that failed.
THEOREM QueueDiagnosed == QueueSpec => Diagnosed
<1> DEFINE A == ret'.ex = "TPEDIAGNOSTIC" => qctl'.diag = Refusal
<1>1. UbfInv /\ [QueueNext]_<<vars, qctl>> => [A]_<<vars, qctl>>
  <2> SUFFICES ASSUME UbfInv, QueueNext PROVE A
    OBVIOUS
  <2>1. CASE Method
    BY <2>1, Zenon DEF Method, Plain
  <2>2. CASE QueueStep
    BY <2>2, Zenon DEF QueueStep
  <2> QED BY <2>1, <2>2, QueueNextIs, Zenon
<1> QED BY <1>1, InvAlways, PTL DEF QueueSpec, Diagnosed
=============================================================================
