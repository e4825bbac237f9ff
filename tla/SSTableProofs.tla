--------------------------- MODULE SSTableProofs ----------------------------
(***************************************************************************)
(* Theorems about SSTable, for every set of keys and values, every block   *)
(* size, compaction threshold and number of writes: what the loops over a  *)
(* slice and over a table compute, and the invariants that rest on them.   *)
(***************************************************************************)
EXTENDS SSTable, TLAPS, SequenceTheorems, WellFoundedInduction

-----------------------------------------------------------------------------
(* Induction, on sets of numbers.                                            *)

\* A set of numbers has a least element.
LEMMA LeastExists ==
    ASSUME NEW T, T \subseteq Nat, T # {}
    PROVE  \E x \in T : \A y \in T : x <= y
<1>1. IsWellFoundedOn(OpToRel(<, Nat), Nat)
  BY NatLessThanWellFounded, Zenon
<1>2. PICK x \in T : \A y \in T : ~ (<<y, x>> \in OpToRel(<, Nat))
  BY <1>1, WFMin, Zenon
<1>3. ASSUME NEW y \in T PROVE x <= y
  <2>1. ~ (<<y, x>> \in {ss \in Nat \X Nat : ss[1] < ss[2]})
    BY <1>2, Zenon DEF OpToRel
  <2>2. <<y, x>> \in Nat \X Nat
    OBVIOUS
  <2>. QED BY <2>1, <2>2
<1>. QED BY <1>3

\* A set that has 0 and every successor of its elements up to n has 0..n: the
\* form in which the loops over a slice are reasoned about.
LEMMA UpTo ==
    ASSUME NEW n \in Nat, NEW T,
           0 \in T, \A i \in 1..n : i - 1 \in T => i \in T
    PROVE  \A i \in 0..n : i \in T
<1>. DEFINE U == {i \in 0..n : i \notin T}
<1>. SUFFICES ASSUME U # {} PROVE FALSE
  OBVIOUS
<1>1. U \subseteq Nat
  OBVIOUS
<1>2. PICK x \in U : \A y \in U : x <= y
  <2>. HIDE DEF U
  <2>. QED BY <1>1, LeastExists
<1>3. x \in 1..n /\ x - 1 \in 0..n /\ ~ (x <= x - 1)
  BY <1>2
<1>. QED BY <1>2, <1>3

\* The least and the greatest element of a set of positions.
LEMMA MinMax ==
    ASSUME NEW n \in Nat, NEW T \in SUBSET (0..n), T # {}
    PROVE  /\ Min(T) \in T /\ \A y \in T : Min(T) <= y
           /\ Max(T) \in T /\ \A y \in T : y <= Max(T)
<1>1. T \subseteq Nat
  OBVIOUS
<1>2. PICK x \in T : \A y \in T : x <= y
  BY <1>1, LeastExists
<1>3. Min(T) \in T /\ \A y \in T : Min(T) <= y
  BY <1>2 DEF Min
<1>. DEFINE U == {n - y : y \in T}
<1>4. U \subseteq Nat /\ U # {}
  OBVIOUS
<1>5. PICK u \in U : \A w \in U : u <= w
  <2>. HIDE DEF U
  <2>. QED BY <1>4, LeastExists
<1>6. PICK z \in T : u = n - z
  BY <1>5
<1>7. ASSUME NEW y \in T PROVE z >= y
  <2>1. n - y \in U
    OBVIOUS
  <2>2. n - z <= n - y
    BY <1>5, <1>6, <2>1
  <2>. QED BY <1>1, <2>2
<1>8. Max(T) \in T /\ \A y \in T : Max(T) >= y
  BY <1>6, <1>7 DEF Max
<1>. QED BY <1>1, <1>3, <1>8

\* f is a run of a loop over 1..n: G[i] is what round i makes of the value before it.
Run(n, V, a, G, f) ==
    f \in [0..n -> V] /\ f[0] = a /\ \A i \in 1..n : f[i] = G[i][f[i - 1]]

\* Every loop has a run: what the recursive functions of SSTable compute exists.
LEMMA Iterates ==
    ASSUME NEW n \in Nat, NEW V, NEW a \in V, NEW G \in [1..n -> [V -> V]]
    PROVE  \E f : Run(n, V, a, G, f)
<1>. DEFINE T == {m \in 0..n : \E g : Run(m, V, a, G, g)}
<1>1. 0 \in T
  <2>1. Run(0, V, a, G, [i \in 0..0 |-> a])
    BY DEF Run
  <2>. QED BY <2>1
<1>2. ASSUME NEW m \in 1..n, m - 1 \in T PROVE m \in T
  <2>1. PICK g : Run(m - 1, V, a, G, g)
    BY <1>2
  <2>. DEFINE e == [i \in 0..m |-> IF i = m THEN G[m][g[m - 1]] ELSE g[i]]
  <2>2. e \in [0..m -> V]
    BY <2>1 DEF Run
  <2>3. e[0] = a
    BY <2>1 DEF Run
  <2>4. ASSUME NEW i \in 1..m PROVE e[i] = G[i][e[i - 1]]
    BY <2>1 DEF Run
  <2>5. Run(m, V, a, G, e)
    <3>. HIDE DEF e
    <3>. QED BY <2>2, <2>3, <2>4 DEF Run
  <2>. QED BY <2>5
<1>3. n \in T
  <2>. HIDE DEF T
  <2>1. \A i \in 0..n : i \in T
    BY <1>1, <1>2, UpTo
  <2>. QED BY <2>1
<1>. QED BY <1>3

-----------------------------------------------------------------------------
(* The sums of record sizes.                                                 *)

\* A record takes at least the nine bytes of its two length fields and its key.
LEMMA RecordSizes ==
    ASSUME NEW p \in Record
    PROVE  /\ Length(p.val) \in Nat /\ RecordSize(p) = 9 + Length(p.val)
           /\ RecordSize(p) \in Nat /\ RecordSize(p) >= 9
<1>1. PICK v : v = p.val
  OBVIOUS
<1>2. v = Nil \/ v \in Nat
  BY <1>1, FormatAssumption DEF Record
<1>3. Length(v) \in Nat
  BY <1>2 DEF Length
<1>4. RecordSize(p) = 9 + Length(v)
  BY <1>1, <1>3 DEF RecordSize, KeyLength
<1>. QED BY <1>1, <1>3, <1>4

\* The equation Bytes was defined by.
LEMMA BytesDef ==
    ASSUME NEW s \in Seq(Record)
    PROVE  /\ Bytes(s, 0) = 0
           /\ \A i \in 1..Len(s) : Bytes(s, i) = Bytes(s, i - 1) + RecordSize(s[i])
           /\ \A i \in 0..Len(s) : Bytes(s, i) \in Nat
<1>1. Len(s) \in Nat /\ \A i \in 1..Len(s) : s[i] \in Record
  OBVIOUS
<1>2. \A i \in 1..Len(s) : RecordSize(s[i]) \in Nat
  BY <1>1, RecordSizes
<1>. DEFINE G == [i \in 1..Len(s) |-> [v \in Nat |-> v + RecordSize(s[i])]]
            Eqn(f) == f = [i \in 0..Len(s) |-> IF i = 0 THEN 0 ELSE f[i - 1] + RecordSize(s[i])]
            F == CHOOSE f : Eqn(f)
<1>3. G \in [1..Len(s) -> [Nat -> Nat]]
  BY <1>2
<1>4. PICK g : Run(Len(s), Nat, 0, G, g)
  <2>. HIDE DEF G
  <2>. QED BY <1>1, <1>3, Iterates
<1>5. Eqn(g)
  <2>1. ASSUME NEW i \in 1..Len(s) PROVE g[i] = g[i - 1] + RecordSize(s[i])
    <3>1. g[i] = G[i][g[i - 1]] /\ g[i - 1] \in Nat
      <4>. HIDE DEF G
      <4>. QED BY <1>1, <1>4 DEF Run
    <3>. QED BY <3>1
  <2>2. g \in [0..Len(s) -> Nat] /\ g[0] = 0
    BY <1>4 DEF Run
  <2>. QED BY <1>1, <2>1, <2>2
<1>6. Eqn(F)
  BY <1>5
<1>7. \A n \in 0..Len(s) : Bytes(s, n) = F[n]
  BY DEF Bytes
<1>. HIDE DEF F, G
<1>8. F[0] = 0 /\ \A i \in 1..Len(s) : F[i] = F[i - 1] + RecordSize(s[i])
  BY <1>1, <1>6
<1>. DEFINE T == {n \in 0..Len(s) : F[n] \in Nat}
<1>9. 0 \in T /\ \A i \in 1..Len(s) : i - 1 \in T => i \in T
  BY <1>1, <1>2, <1>8
<1>10. \A i \in 0..Len(s) : i \in T
  <2>. HIDE DEF T
  <2>. QED BY <1>1, <1>9, UpTo
<1>11. Bytes(s, 0) = 0
  BY <1>1, <1>7, <1>8
<1>12. ASSUME NEW i \in 1..Len(s) PROVE Bytes(s, i) = Bytes(s, i - 1) + RecordSize(s[i])
  <2>1. i \in 0..Len(s) /\ i - 1 \in 0..Len(s)
    BY <1>1
  <2>2. Bytes(s, i) = F[i] /\ Bytes(s, i - 1) = F[i - 1]
    BY <1>7, <2>1
  <2>. QED BY <1>8, <2>2
<1>13. ASSUME NEW i \in 0..Len(s) PROVE Bytes(s, i) \in Nat
  BY <1>7, <1>10
<1>. QED BY <1>11, <1>12, <1>13

-----------------------------------------------------------------------------
(* Binary search.                                                            *)

\* p is the first position of A in 1..n, or the one behind n.
FirstIn(n, A, p) ==
    /\ p \in 1..(n + 1)
    /\ p = n + 1 \/ p \in A
    /\ \A q \in 1..(p - 1) : q \notin A

\* The loop invariant of sort.Search: what is looked for is in the interval, of
\* which every round takes something away.
Narrowed(n, A, x, r) ==
    /\ x.i <= x.j
    /\ x.j = n \/ x.j + 1 \in A
    /\ \A q \in 1..x.i : q \notin A
    /\ x.i = x.j \/ x.j - x.i <= n - r

\* A round keeps it, when A has every position behind one it has.
LEMMA HalvedNarrows ==
    ASSUME NEW n \in Nat, NEW A \in SUBSET (1..n), \A x \in A : \A y \in x..n : y \in A,
           NEW x \in [i : 0..n, j : 0..n], NEW r \in 1..n, Narrowed(n, A, x, r - 1)
    PROVE  Narrowed(n, A, Halved(x, A), r)
<1>1. PICK i \in 0..n, j \in 0..n : x = [i |-> i, j |-> j]
  OBVIOUS
<1>2. /\ i <= j /\ (j = n \/ j + 1 \in A) /\ \A q \in 1..i : q \notin A
      /\ i = j \/ j - i <= n - (r - 1)
  BY <1>1 DEF Narrowed
<1>3. CASE i = j
  BY <1>1, <1>2, <1>3 DEF Narrowed, Halved
<1>4. CASE i < j
  <2>1. PICK h \in 0..n : h = (i + j) \div 2 /\ i <= h /\ h < j
    BY <1>4
  <2>2. CASE h + 1 \in A
    <3>1. Halved(x, A) = [i |-> i, j |-> h]
      BY <1>1, <1>4, <2>1, <2>2 DEF Halved
    <3>. QED BY <1>2, <1>4, <2>1, <2>2, <3>1 DEF Narrowed
  <2>3. CASE h + 1 \notin A
    <3>1. Halved(x, A) = [i |-> h + 1, j |-> j]
      BY <1>1, <1>4, <2>1, <2>3 DEF Halved
    <3>2. \A q \in 1..(h + 1) : q \notin A
      BY <1>4, <2>1, <2>3
    <3>. QED BY <1>2, <1>4, <2>1, <3>1, <3>2 DEF Narrowed
  <2>. QED BY <2>2, <2>3
<1>. QED BY <1>2, <1>3, <1>4

\* A round leaves an interval within 0..n.
LEMMA HalvedType ==
    ASSUME NEW n \in Nat, NEW A, NEW x \in [i : 0..n, j : 0..n]
    PROVE  Halved(x, A) \in [i : 0..n, j : 0..n]
<1>1. PICK i \in 0..n, j \in 0..n : x = [i |-> i, j |-> j]
  OBVIOUS
<1>2. CASE i >= j
  BY <1>1, <1>2 DEF Halved
<1>3. CASE i < j
  <2>1. PICK h \in 0..n : h = (i + j) \div 2 /\ h + 1 \in 0..n
    BY <1>3
  <2>2. Halved(x, A) = [i |-> i, j |-> h] \/ Halved(x, A) = [i |-> h + 1, j |-> j]
    BY <1>1, <1>3, <2>1 DEF Halved
  <2>. QED BY <2>1, <2>2
<1>. QED BY <1>2, <1>3

\* sort.Search, n rounds of its loop on the interval 0..n, returns the least position
\* from which on the condition holds, n + 1 when it never does: what MemTable.Put,
\* MemTable.Get and readValFromSSTable take as given.
THEOREM SearchFindsFirst ==
    ASSUME NEW n \in Nat, NEW A \in SUBSET (1..n), \A x \in A : \A y \in x..n : y \in A
    PROVE  FirstIn(n, A, Search(n, A))
<1>. DEFINE V == [i : 0..n, j : 0..n]
            a == [i |-> 0, j |-> n]
            G == [r \in 1..n |-> [x \in V |-> Halved(x, A)]]
            Eqn(f) == f = [r \in 0..n |-> IF r = 0 THEN [i |-> 0, j |-> n] ELSE Halved(f[r - 1], A)]
            F == CHOOSE f : Eqn(f)
<1>1. a \in V /\ Narrowed(n, A, a, 0)
  BY DEF Narrowed
<1>2. \A x \in V : Halved(x, A) \in V
  BY HalvedType
<1>3. G \in [1..n -> [V -> V]]
  <2>. HIDE DEF V
  <2>. QED BY <1>2
<1>4. PICK g : Run(n, V, a, G, g)
  <2>. HIDE DEF V, G, a
  <2>. QED BY <1>1, <1>3, Iterates
<1>5. ASSUME NEW r \in 1..n PROVE g[r] = Halved(g[r - 1], A)
  <2>1. g[r] = G[r][g[r - 1]] /\ g[r - 1] \in V
    <3>. HIDE DEF G, V
    <3>. QED BY <1>4 DEF Run
  <2>. HIDE DEF V
  <2>. QED BY <2>1
<1>6. Eqn(g)
  <2>. HIDE DEF V, G
  <2>. QED BY <1>4, <1>5 DEF Run
<1>7. Eqn(F)
  <2>. HIDE DEF V, G, Eqn
  <2>. QED BY <1>6
<1>8. Search(n, A) = F[n].i + 1
  BY DEF Search
<1>. HIDE DEF F, G
<1>9. F[0] = a /\ \A r \in 1..n : F[r] = Halved(F[r - 1], A)
  <2>1. F[0] = a
    BY <1>7
  <2>2. ASSUME NEW r \in 1..n PROVE F[r] = Halved(F[r - 1], A)
    <3>. DEFINE E(k) == IF k = 0 THEN a ELSE Halved(F[k - 1], A)
    <3>1. F = [k \in 0..n |-> E(k)]
      BY <1>7
    <3>2. F[r] = E(r)
      <4>. HIDE DEF E
      <4>. QED BY <3>1
    <3>. QED BY <3>2
  <2>. HIDE DEF a
  <2>. QED BY <2>1, <2>2
<1>. DEFINE T == {r \in 0..n : F[r] \in V /\ Narrowed(n, A, F[r], r)}
<1>10. 0 \in T
  <2>. HIDE DEF V, a
  <2>. QED BY <1>1, <1>9
<1>11. ASSUME NEW r \in 1..n, r - 1 \in T PROVE r \in T
  <2>1. F[r - 1] \in V /\ Narrowed(n, A, F[r - 1], r - 1) /\ F[r] = Halved(F[r - 1], A)
    BY <1>9, <1>11
  <2>2. Narrowed(n, A, F[r], r)
    BY <2>1, HalvedNarrows
  <2>3. F[r] \in V
    BY <2>1, HalvedType
  <2>. HIDE DEF V
  <2>. QED BY <2>2, <2>3
<1>12. n \in T
  <2>. HIDE DEF T
  <2>1. \A d \in 0..n : d \in T
    BY <1>10, <1>11, UpTo
  <2>. QED BY <2>1
<1>13. PICK i \in 0..n, j \in 0..n : F[n] = [i |-> i, j |-> j]
  BY <1>12
<1>14. i = j /\ (j = n \/ j + 1 \in A) /\ \A q \in 1..i : q \notin A
  <2>1. Narrowed(n, A, [i |-> i, j |-> j], n)
    BY <1>12, <1>13
  <2>. QED BY <2>1 DEF Narrowed
<1>15. Search(n, A) = i + 1
  BY <1>8, <1>13
<1>. QED BY <1>14, <1>15 DEF FirstIn

-----------------------------------------------------------------------------
(* Sums over slices that differ in one place.                                *)

\* Offsets grow by at least nine bytes from a record to the next.
LEMMA BytesGrow ==
    ASSUME NEW s \in Seq(Record), NEW i \in 0..Len(s), NEW j \in 0..Len(s)
    PROVE  /\ i < j => Bytes(s, i) + 9 <= Bytes(s, j)
           /\ Bytes(s, j) >= 9 * j
<1>. DEFINE T == {n \in 0..Len(s) : /\ i < n => Bytes(s, i) + 9 <= Bytes(s, n)
                                    /\ Bytes(s, n) >= 9 * n}
<1>1. Len(s) \in Nat
  OBVIOUS
<1>2. 0 \in T
  BY <1>1, BytesDef
<1>3. ASSUME NEW n \in 1..Len(s), n - 1 \in T PROVE n \in T
  <2>1. s[n] \in Record
    OBVIOUS
  <2>2. PICK a, b, c, d : /\ a = Bytes(s, n - 1) /\ b = Bytes(s, n)
                          /\ c = RecordSize(s[n]) /\ d = Bytes(s, i)
    OBVIOUS
  <2>3. a \in Nat /\ b \in Nat /\ c \in Nat /\ d \in Nat /\ c >= 9 /\ b = a + c
    <3>1. c \in Nat /\ c >= 9
      BY <2>1, <2>2, RecordSizes
    <3>2. n - 1 \in 0..Len(s) /\ n \in 0..Len(s)
      BY <1>1
    <3>3. a \in Nat /\ b \in Nat /\ d \in Nat
      BY <2>2, <3>2, BytesDef
    <3>4. b = a + c
      BY <2>2, BytesDef
    <3>. QED BY <3>1, <3>3, <3>4
  <2>4. (i < n - 1 => d + 9 <= a) /\ a >= 9 * (n - 1)
    BY <1>3, <2>2
  <2>5. i = n - 1 => d = a
    BY <2>2
  <2>6. (i < n => d + 9 <= b) /\ b >= 9 * n
    BY <2>3, <2>4, <2>5
  <2>. QED BY <1>1, <2>2, <2>6
<1>4. j \in T
  <2>. HIDE DEF T
  <2>1. \A n \in 0..Len(s) : n \in T
    BY <1>1, <1>2, <1>3, UpTo
  <2>. QED BY <2>1
<1>. QED BY <1>4

\* Slices that agree up to m have the same offsets up to m.
LEMMA BytesPrefix ==
    ASSUME NEW s \in Seq(Record), NEW t \in Seq(Record),
           NEW m \in 0..Len(s), m <= Len(t), \A i \in 1..m : t[i] = s[i]
    PROVE  Bytes(t, m) = Bytes(s, m)
<1>. DEFINE T == {n \in 0..m : Bytes(t, n) = Bytes(s, n)}
<1>1. Len(s) \in Nat /\ Len(t) \in Nat /\ m \in Nat
  OBVIOUS
<1>2. 0 \in T
  BY <1>1, BytesDef
<1>3. ASSUME NEW n \in 1..m, n - 1 \in T PROVE n \in T
  <2>1. Bytes(t, n - 1) = Bytes(s, n - 1)
    BY <1>3
  <2>2. n \in 1..Len(s) /\ n \in 1..Len(t) /\ t[n] = s[n]
    BY <1>1
  <2>3. Bytes(s, n) = Bytes(s, n - 1) + RecordSize(s[n])
    BY <2>2, BytesDef
  <2>4. Bytes(t, n) = Bytes(t, n - 1) + RecordSize(t[n])
    BY <2>2, BytesDef
  <2>. QED BY <1>1, <2>1, <2>2, <2>3, <2>4
<1>. HIDE DEF T
<1>4. \A n \in 0..m : n \in T
  BY <1>1, <1>2, <1>3, UpTo
<1>5. m \in T
  BY <1>1, <1>4
<1>. QED BY <1>5 DEF T

\* Slices that agree behind m, up to a shift by d, have the same distances there.
LEMMA BytesShift ==
    ASSUME NEW s \in Seq(Record), NEW t \in Seq(Record), NEW m \in 0..Len(s),
           NEW d \in Nat, Len(t) = Len(s) + d,
           \A i \in (m + 1)..Len(s) : t[i + d] = s[i]
    PROVE  Bytes(t, Len(t)) - Bytes(s, Len(s)) = Bytes(t, m + d) - Bytes(s, m)
<1>. DEFINE T == {n \in 0..(Len(s) - m) :
                    Bytes(t, n + m + d) - Bytes(s, n + m) = Bytes(t, m + d) - Bytes(s, m)}
<1>1. Len(s) \in Nat /\ Len(t) \in Nat /\ m \in Nat /\ Len(s) - m \in Nat
  OBVIOUS
<1>2. 0 \in T
  BY <1>1
<1>3. ASSUME NEW n \in 1..(Len(s) - m), n - 1 \in T PROVE n \in T
  <2>1. PICK x \in 1..Len(s), y \in 1..Len(t) : x = n + m /\ y = n + m + d
    BY <1>1
  <2>2. Bytes(t, y - 1) - Bytes(s, x - 1) = Bytes(t, m + d) - Bytes(s, m)
    <3>1. (n - 1) + m + d = y - 1 /\ (n - 1) + m = x - 1
      BY <1>1, <2>1
    <3>. QED BY <1>3, <3>1
  <2>3. Bytes(s, x) = Bytes(s, x - 1) + RecordSize(s[x])
    BY <2>1, BytesDef
  <2>4. Bytes(t, y) = Bytes(t, y - 1) + RecordSize(t[y])
    BY <2>1, BytesDef
  <2>5. t[y] = s[x]
    BY <1>1, <2>1
  <2>6. Bytes(s, x - 1) \in Nat /\ Bytes(t, y - 1) \in Nat
    BY <1>1, <2>1, BytesDef
  <2>7. RecordSize(s[x]) \in Nat
    BY <2>1, RecordSizes
  <2>8. Bytes(t, y) - Bytes(s, x) = Bytes(t, y - 1) - Bytes(s, x - 1)
    BY <2>3, <2>4, <2>5, <2>6, <2>7
  <2>. QED BY <1>1, <2>1, <2>2, <2>8
<1>4. Len(s) - m \in T
  <2>. HIDE DEF T
  <2>1. \A n \in 0..(Len(s) - m) : n \in T
    BY <1>1, <1>2, <1>3, UpTo
  <2>. QED BY <1>1, <2>1
<1>5. (Len(s) - m) + m + d = Len(t) /\ (Len(s) - m) + m = Len(s)
  BY <1>1
<1>. QED BY <1>4, <1>5

-----------------------------------------------------------------------------
(* The sorted slice of the memtable.                                         *)

\* The search of Put and Get finds the first record whose key is not smaller.
LEMMA PositionFinds ==
    ASSUME NEW s \in Seq(Record), Ascending(s), NEW k \in Key
    PROVE  /\ Position(s, k) \in 1..(Len(s) + 1)
           /\ \A q \in DOMAIN s : q < Position(s, k) => s[q].key < k
           /\ \A q \in DOMAIN s : q >= Position(s, k) => s[q].key >= k
           /\ HasAt(s, Position(s, k), k) <=> \E q \in DOMAIN s : s[q].key = k
<1>1. Len(s) \in Nat /\ DOMAIN s = 1..Len(s)
  OBVIOUS
<1>2. \A q \in DOMAIN s : s[q].key \in Nat /\ k \in Nat
  <2>1. \A q \in DOMAIN s : s[q] \in Record
    OBVIOUS
  <2>. QED BY <2>1, FormatAssumption DEF Record
<1>. DEFINE A == {i \in DOMAIN s : s[i].key >= k}
<1>3. A \in SUBSET (1..Len(s)) /\ \A x \in A : \A y \in x..Len(s) : y \in A
  BY <1>1, <1>2 DEF Ascending
<1>4. PICK p : p = Position(s, k)
  OBVIOUS
<1>5. FirstIn(Len(s), A, p)
  <2>1. p = Search(Len(s), A)
    BY <1>4 DEF Position
  <2>. HIDE DEF A
  <2>. QED BY <1>1, <1>3, <2>1, SearchFindsFirst
<1>6. p \in 1..(Len(s) + 1)
  BY <1>5 DEF FirstIn
<1>7. ASSUME NEW q \in DOMAIN s, q < p PROVE s[q].key < k
  <2>1. q \in 1..(p - 1)
    BY <1>1, <1>6, <1>7
  <2>2. q \notin A
    <3>. HIDE DEF A
    <3>. QED BY <1>5, <2>1 DEF FirstIn
  <2>. QED BY <1>2, <2>2
<1>8. ASSUME NEW q \in DOMAIN s, q >= p PROVE s[q].key >= k
  <2>1. p \in A
    <3>. HIDE DEF A
    <3>. QED BY <1>1, <1>5, <1>6, <1>8 DEF FirstIn
  <2>2. q \in p..Len(s)
    BY <1>1, <1>6, <1>8
  <2>3. q \in A
    <3>. HIDE DEF A
    <3>. QED BY <1>3, <2>1, <2>2
  <2>. QED BY <2>3
<1>9. ASSUME NEW q \in DOMAIN s, s[q].key = k PROVE HasAt(s, p, k)
  <2>1. q >= p
    BY <1>1, <1>2, <1>6, <1>7, <1>9
  <2>2. p \in DOMAIN s
    BY <1>1, <1>6, <2>1
  <2>3. s[p].key >= k
    BY <1>6, <1>8, <2>2
  <2>4. q = p
    BY <1>1, <1>2, <1>9, <2>1, <2>2, <2>3 DEF Ascending
  <2>. QED BY <1>1, <1>9, <2>2, <2>4 DEF HasAt
<1>10. HasAt(s, p, k) => \E q \in DOMAIN s : s[q].key = k
  BY <1>1, <1>6 DEF HasAt
<1>. QED BY <1>4, <1>6, <1>7, <1>8, <1>9, <1>10

\* The keys of a slice.
KeysOf(s) == {s[i].key : i \in DOMAIN s}

\* One record replaced.
LEMMA BytesOverwrite ==
    ASSUME NEW s \in Seq(Record), NEW t \in Seq(Record), Len(t) = Len(s),
           NEW p \in 1..Len(s), \A q \in 1..Len(s) : q # p => t[q] = s[q]
    PROVE  Bytes(t, Len(t)) - Bytes(s, Len(s)) = Length(t[p].val) - Length(s[p].val)
<1>1. Len(s) \in Nat /\ s[p] \in Record /\ t[p] \in Record
  OBVIOUS
<1>2. Bytes(t, p - 1) = Bytes(s, p - 1)
  <2>1. p - 1 \in 0..Len(s) /\ p - 1 <= Len(t) /\ \A i \in 1..(p - 1) : t[i] = s[i]
    BY <1>1
  <2>. QED BY <2>1, BytesPrefix
<1>3. Bytes(t, Len(t)) - Bytes(s, Len(s)) = Bytes(t, p) - Bytes(s, p)
  <2>1. PICK d \in Nat, m \in 0..Len(s) : d = 0 /\ m = p
    BY <1>1
  <2>2. Len(t) = Len(s) + d /\ m + d = p
    BY <1>1, <2>1
  <2>3. \A i \in (m + 1)..Len(s) : t[i + d] = s[i]
    BY <1>1, <2>1
  <2>4. Bytes(t, Len(t)) - Bytes(s, Len(s)) = Bytes(t, m + d) - Bytes(s, m)
    BY <2>2, <2>3, BytesShift
  <2>. QED BY <2>1, <2>2, <2>4
<1>4. Bytes(s, p) = Bytes(s, p - 1) + RecordSize(s[p])
  BY BytesDef
<1>5. Bytes(t, p) = Bytes(t, p - 1) + RecordSize(t[p])
  BY BytesDef
<1>6. Bytes(s, p - 1) \in Nat
  <2>1. p - 1 \in 0..Len(s)
    BY <1>1
  <2>. QED BY <2>1, BytesDef
<1>7. PICK x, y : x = Length(s[p].val) /\ y = Length(t[p].val)
  OBVIOUS
<1>8. x \in Nat /\ RecordSize(s[p]) = 9 + x
  BY <1>1, <1>7, RecordSizes
<1>9. y \in Nat /\ RecordSize(t[p]) = 9 + y
  BY <1>1, <1>7, RecordSizes
<1>10. Bytes(t, p) - Bytes(s, p) = y - x
  BY <1>2, <1>4, <1>5, <1>6, <1>8, <1>9
<1>. QED BY <1>3, <1>7, <1>10

\* One record more.
LEMMA BytesInsert ==
    ASSUME NEW s \in Seq(Record), NEW t \in Seq(Record), Len(t) = Len(s) + 1,
           NEW p \in 1..Len(t), \A q \in 1..(p - 1) : t[q] = s[q],
           \A q \in p..Len(s) : t[q + 1] = s[q]
    PROVE  Bytes(t, Len(t)) - Bytes(s, Len(s)) = RecordSize(t[p])
<1>1. Len(s) \in Nat /\ t[p] \in Record
  OBVIOUS
<1>2. Bytes(t, p - 1) = Bytes(s, p - 1)
  <2>1. p - 1 \in 0..Len(s) /\ p - 1 <= Len(t)
    BY <1>1
  <2>. QED BY <2>1, BytesPrefix
<1>3. Bytes(t, Len(t)) - Bytes(s, Len(s)) = Bytes(t, p) - Bytes(s, p - 1)
  <2>1. PICK d \in Nat, m \in 0..Len(s) : d = 1 /\ m = p - 1
    BY <1>1
  <2>2. Len(t) = Len(s) + d /\ m + d = p
    BY <1>1, <2>1
  <2>3. \A i \in (m + 1)..Len(s) : t[i + d] = s[i]
    BY <1>1, <2>1
  <2>4. Bytes(t, Len(t)) - Bytes(s, Len(s)) = Bytes(t, m + d) - Bytes(s, m)
    BY <2>2, <2>3, BytesShift
  <2>. QED BY <2>1, <2>2, <2>4
<1>4. Bytes(t, p) = Bytes(t, p - 1) + RecordSize(t[p])
  BY BytesDef
<1>5. Bytes(s, p - 1) \in Nat /\ RecordSize(t[p]) \in Nat
  <2>1. p - 1 \in 0..Len(s)
    BY <1>1
  <2>. QED BY <1>1, <2>1, BytesDef, RecordSizes
<1>. QED BY <1>2, <1>3, <1>4, <1>5

\* What MemTable.Put makes of the slice when the key is there.
LEMMA Overwritten ==
    ASSUME NEW s \in Seq(Record), Ascending(s), NEW p \in 1..Len(s), NEW v \in Value \cup {Nil}
    PROVE  \E t \in Seq(Record) :
              /\ t = [s EXCEPT ![p].val = v] /\ Len(t) = Len(s) /\ Ascending(t)
              /\ t[p] = [key |-> s[p].key, val |-> v]
              /\ \A q \in 1..Len(s) : q # p => t[q] = s[q]
              /\ Bytes(t, Len(t)) - Bytes(s, Len(s)) = Growth(s[p].val, v)
<1>1. Len(s) \in Nat /\ DOMAIN s = 1..Len(s) /\ s[p] \in Record
  OBVIOUS
<1>2. PICK e : e = [s[p] EXCEPT !.val = v]
  OBVIOUS
<1>3. e \in Record /\ e = [key |-> s[p].key, val |-> v]
  BY <1>1, <1>2 DEF Record
<1>4. PICK t : t = [s EXCEPT ![p] = e]
  OBVIOUS
<1>5. t = [s EXCEPT ![p].val = v]
  BY <1>2, <1>4
<1>6. t \in Seq(Record) /\ Len(t) = Len(s)
  BY <1>3, <1>4, ExceptSeq
<1>7. t[p] = e /\ \A q \in 1..Len(s) : q # p => t[q] = s[q]
  BY <1>1, <1>4
<1>8. Ascending(t)
  <2>1. \A q \in 1..Len(s) : t[q].key = s[q].key
    BY <1>3, <1>7
  <2>2. DOMAIN t = 1..Len(s)
    BY <1>6
  <2>. QED BY <1>1, <2>1, <2>2 DEF Ascending
<1>9. Bytes(t, Len(t)) - Bytes(s, Len(s)) = Growth(s[p].val, v)
  <2>1. Bytes(t, Len(t)) - Bytes(s, Len(s)) = Length(t[p].val) - Length(s[p].val)
    BY <1>6, <1>7, BytesOverwrite
  <2>2. t[p].val = v
    BY <1>3, <1>7
  <2>. QED BY <2>1, <2>2 DEF Growth
<1>. QED BY <1>3, <1>5, <1>6, <1>7, <1>8, <1>9

\* What it makes of the slice when the key is new.
LEMMA Inserted ==
    ASSUME NEW s \in Seq(Record), Ascending(s), NEW p \in 1..(Len(s) + 1), NEW e \in Record,
           \A q \in 1..Len(s) : q < p => s[q].key < e.key,
           \A q \in 1..Len(s) : q >= p => s[q].key > e.key
    PROVE  \E t \in Seq(Record) :
              /\ t = InsertAt(s, p, e) /\ Len(t) = Len(s) + 1 /\ Ascending(t)
              /\ t[p] = e
              /\ \A q \in 1..(p - 1) : t[q] = s[q]
              /\ \A q \in p..Len(s) : t[q + 1] = s[q]
              /\ Bytes(t, Len(t)) - Bytes(s, Len(s)) = RecordSize(e)
<1>1. Len(s) \in Nat /\ DOMAIN s = 1..Len(s) /\ \A q \in 1..Len(s) : s[q] \in Record
  OBVIOUS
<1>2. PICK a, b : a = SubSeq(s, 1, p - 1) /\ b = SubSeq(s, p, Len(s))
  OBVIOUS
<1>3. a \in Seq(Record) /\ Len(a) = p - 1 /\ \A i \in 1..(p - 1) : a[i] = s[i]
  BY <1>1, <1>2
<1>4. b \in Seq(Record) /\ Len(b) = Len(s) - p + 1 /\ \A i \in 1..(Len(s) - p + 1) : b[i] = s[p + i - 1]
  BY <1>1, <1>2
<1>5. PICK c : c = a \o <<e>>
  OBVIOUS
<1>6. c \in Seq(Record) /\ Len(c) = p /\ c[p] = e /\ \A i \in 1..(p - 1) : c[i] = s[i]
  BY <1>3, <1>5
<1>7. PICK t : t = c \o b
  OBVIOUS
<1>8. t = InsertAt(s, p, e)
  BY <1>2, <1>5, <1>7 DEF InsertAt
<1>9. t \in Seq(Record) /\ Len(t) = Len(s) + 1
  <2>1. t \in Seq(Record) /\ Len(t) = Len(c) + Len(b)
    BY <1>4, <1>6, <1>7, ConcatProperties
  <2>. QED BY <1>1, <1>4, <1>6, <2>1
<1>. DEFINE At(i) == IF i <= p THEN c[i] ELSE b[i - p]
<1>10. \A i \in 1..(Len(s) + 1) : t[i] = At(i)
  <2>1. Len(c) + Len(b) = Len(s) + 1
    BY <1>1, <1>4, <1>6
  <2>2. \A i \in 1..(Len(c) + Len(b)) : t[i] = IF i <= Len(c) THEN c[i] ELSE b[i - Len(c)]
    BY <1>4, <1>6, <1>7, ConcatProperties
  <2>. QED BY <1>6, <2>1, <2>2
<1>. HIDE DEF At
<1>11. t[p] = e /\ \A q \in 1..(p - 1) : t[q] = s[q]
  <2>1. At(p) = e
    BY <1>6 DEF At
  <2>2. ASSUME NEW q \in 1..(p - 1) PROVE t[q] = s[q]
    <3>1. q \in 1..(Len(s) + 1) /\ q <= p
      BY <1>1, <2>2
    <3>. QED BY <1>6, <1>10, <3>1 DEF At
  <2>. QED BY <1>10, <2>1, <2>2
<1>12. ASSUME NEW q \in p..Len(s) PROVE t[q + 1] = s[q]
  <2>1. q + 1 - p \in 1..(Len(s) - p + 1) /\ ~ (q + 1 <= p) /\ q + 1 \in 1..(Len(s) + 1)
    BY <1>1
  <2>2. t[q + 1] = b[q + 1 - p]
    BY <1>10, <2>1 DEF At
  <2>3. b[q + 1 - p] = s[p + (q + 1 - p) - 1]
    BY <1>4, <2>1
  <2>4. p + (q + 1 - p) - 1 = q
    BY <1>1
  <2>. QED BY <2>2, <2>3, <2>4
<1>13. Ascending(t)
  <2>. SUFFICES ASSUME NEW i \in 1..Len(t), NEW j \in 1..Len(t), i < j
                PROVE  t[i].key < t[j].key
    BY <1>9 DEF Ascending
  <2>1. \A x, y \in 1..Len(s) : x < y => s[x].key < s[y].key
    BY <1>1 DEF Ascending
  <2>2. e.key \in Nat /\ \A x \in 1..Len(s) : s[x].key \in Nat
    BY <1>1, FormatAssumption DEF Record
  <2>3. CASE j < p
    <3>1. i \in 1..Len(s) /\ j \in 1..Len(s) /\ t[i] = s[i] /\ t[j] = s[j]
      BY <1>1, <1>9, <1>11, <2>3
    <3>. QED BY <2>1, <3>1
  <2>4. CASE j = p
    <3>1. i \in 1..Len(s) /\ t[i] = s[i] /\ t[j] = e
      BY <1>1, <1>9, <1>11, <2>4
    <3>. QED BY <2>4, <3>1
  <2>5. CASE j > p
    <3>1. j - 1 \in 1..Len(s) /\ j - 1 >= p /\ (j - 1) + 1 = j
      BY <1>1, <1>9, <2>5
    <3>2. t[j] = s[j - 1]
      BY <1>1, <1>12, <3>1
    <3>3. CASE i < p
      <4>1. i \in 1..Len(s) /\ t[i] = s[i] /\ i < j - 1
        BY <1>1, <1>9, <1>11, <2>5, <3>3
      <4>. QED BY <2>1, <3>1, <3>2, <4>1
    <3>4. CASE i = p
      <4>1. t[i] = e /\ s[j - 1].key > e.key
        BY <1>11, <3>1, <3>4
      <4>. QED BY <2>2, <3>1, <3>2, <4>1
    <3>5. CASE i > p
      <4>1. i - 1 \in 1..Len(s) /\ i - 1 >= p /\ (i - 1) + 1 = i /\ i - 1 < j - 1
        BY <1>1, <1>9, <3>5
      <4>2. t[i] = s[i - 1]
        BY <1>1, <1>12, <4>1
      <4>. QED BY <2>1, <3>1, <3>2, <4>1, <4>2
    <3>. QED BY <3>3, <3>4, <3>5
  <2>. QED BY <1>9, <2>3, <2>4, <2>5
<1>14. Bytes(t, Len(t)) - Bytes(s, Len(s)) = RecordSize(e)
  <2>1. p \in 1..Len(t)
    BY <1>1, <1>9
  <2>2. Bytes(t, Len(t)) - Bytes(s, Len(s)) = RecordSize(t[p])
    BY <1>9, <1>11, <1>12, <2>1, BytesInsert
  <2>. QED BY <1>11, <2>2
<1>. QED BY <1>8, <1>9, <1>11, <1>12, <1>13, <1>14

-----------------------------------------------------------------------------
(* The loop of writeSSTable.                                                 *)

\* The equation Buffered was defined by.
LEMMA BufferedDef ==
    ASSUME NEW s \in Seq(Record)
    PROVE  /\ Buffered(s)[0] = 0
           /\ \A i \in 1..Len(s) :
                 Buffered(s)[i] = (IF Buffered(s)[i - 1] >= BlockSize THEN 0 ELSE Buffered(s)[i - 1])
                                  + RecordSize(s[i])
           /\ \A i \in 0..Len(s) : Buffered(s)[i] \in Nat
<1>1. Len(s) \in Nat /\ \A i \in 1..Len(s) : s[i] \in Record
  OBVIOUS
<1>2. \A i \in 1..Len(s) : RecordSize(s[i]) \in Nat
  BY <1>1, RecordSizes
<1>. DEFINE Filled(v, i) == (IF v >= BlockSize THEN 0 ELSE v) + RecordSize(s[i])
            G == [i \in 1..Len(s) |-> [v \in Nat |-> Filled(v, i)]]
            Eqn(f) == f = [i \in 0..Len(s) |-> IF i = 0 THEN 0 ELSE Filled(f[i - 1], i)]
            F == CHOOSE f : Eqn(f)
<1>3. \A i \in 1..Len(s), v \in Nat : Filled(v, i) \in Nat
  BY <1>2
<1>4. Buffered(s) = F
  BY DEF Buffered
<1>. HIDE DEF Filled
<1>5. G \in [1..Len(s) -> [Nat -> Nat]]
  BY <1>3
<1>6. PICK g : Run(Len(s), Nat, 0, G, g)
  <2>. HIDE DEF G
  <2>. QED BY <1>1, <1>5, Iterates
<1>7. Eqn(g)
  <2>1. ASSUME NEW i \in 1..Len(s) PROVE g[i] = Filled(g[i - 1], i)
    <3>1. g[i] = G[i][g[i - 1]] /\ g[i - 1] \in Nat
      <4>. HIDE DEF G
      <4>. QED BY <1>1, <1>6 DEF Run
    <3>. QED BY <3>1
  <2>2. g \in [0..Len(s) -> Nat] /\ g[0] = 0
    BY <1>6 DEF Run
  <2>. QED BY <1>1, <2>1, <2>2
<1>8. Eqn(F)
  BY <1>7
<1>. HIDE DEF F, G
<1>9. F[0] = 0 /\ \A i \in 1..Len(s) : F[i] = Filled(F[i - 1], i)
  BY <1>1, <1>8
<1>. DEFINE T == {n \in 0..Len(s) : F[n] \in Nat}
<1>10. 0 \in T /\ \A i \in 1..Len(s) : i - 1 \in T => i \in T
  <2>1. 0 \in T
    BY <1>1, <1>9
  <2>2. ASSUME NEW i \in 1..Len(s), i - 1 \in T PROVE i \in T
    <3>1. F[i - 1] \in Nat
      BY <2>2
    <3>2. F[i] = Filled(F[i - 1], i)
      BY <1>9
    <3>3. F[i] \in Nat
      BY <1>3, <3>1, <3>2
    <3>. QED BY <1>1, <3>3
  <2>. QED BY <2>1, <2>2
<1>11. \A i \in 0..Len(s) : i \in T
  <2>. HIDE DEF T
  <2>. QED BY <1>1, <1>10, UpTo
<1>12. F[0] = 0 /\ \A i \in 0..Len(s) : F[i] \in Nat
  BY <1>9, <1>11
<1>13. ASSUME NEW i \in 1..Len(s)
       PROVE  F[i] = (IF F[i - 1] >= BlockSize THEN 0 ELSE F[i - 1]) + RecordSize(s[i])
  BY <1>9 DEF Filled
<1>. QED BY <1>4, <1>12, <1>13

\* The record a block of the ends E begins behind.
StartOf(E, b) == IF b = 1 THEN 0 ELSE E[b - 1]

\* The loop invariant of writeSSTable after i records, E the ends so far: the
\* blocks lie one behind the other, each is full unless it is the last, and what
\* is not written yet is in the buffer.
LaidOut(s, i, E) ==
    /\ E \in Seq(1..Len(s))
    /\ \A b \in 1..Len(E) :
          /\ E[b] <= i /\ StartOf(E, b) < E[b] /\ StartOf(E, b) \in 0..Len(s)
          /\ Bytes(s, E[b]) - Buffered(s)[E[b]] = Bytes(s, StartOf(E, b))
          /\ Buffered(s)[E[b]] >= BlockSize \/ E[b] = Len(s)
          /\ \A c \in 1..Len(E) : b < c => E[b] < E[c]
    /\ StartOf(E, Len(E) + 1) \in 0..i
    /\ i < Len(s) => Bytes(s, i) - (IF Buffered(s)[i] >= BlockSize THEN 0 ELSE Buffered(s)[i])
                     = Bytes(s, StartOf(E, Len(E) + 1))
    /\ i = Len(s) => StartOf(E, Len(E) + 1) = Len(s)

\* A round of the loop: the offset of the block being filled stays where it is.
LEMMA BlockBegins ==
    ASSUME NEW s \in Seq(Record), NEW i \in 1..Len(s), NEW E, LaidOut(s, i - 1, E)
    PROVE  Bytes(s, i) - Buffered(s)[i] = Bytes(s, StartOf(E, Len(E) + 1))
<1>1. Len(s) \in Nat /\ i - 1 \in 0..Len(s) /\ i - 1 < Len(s) /\ s[i] \in Record
  OBVIOUS
<1>2. PICK a, r, c, x : /\ a = Bytes(s, i - 1) /\ c = RecordSize(s[i])
                        /\ r = Buffered(s)[i - 1] /\ x = Bytes(s, StartOf(E, Len(E) + 1))
  OBVIOUS
<1>3. a \in Nat /\ Bytes(s, i) = a + c
  BY <1>1, <1>2, BytesDef
<1>4. c \in Nat
  BY <1>1, <1>2, RecordSizes
<1>5. r \in Nat /\ Buffered(s)[i] = (IF r >= BlockSize THEN 0 ELSE r) + c
  BY <1>1, <1>2, BufferedDef
<1>6. a - (IF r >= BlockSize THEN 0 ELSE r) = x
  BY <1>1, <1>2 DEF LaidOut
<1>7. Bytes(s, i) - Buffered(s)[i] = x
  BY <1>3, <1>4, <1>5, <1>6
<1>. QED BY <1>2, <1>7

\* A record that does not end a block.
LEMMA LaidOutStays ==
    ASSUME NEW s \in Seq(Record), NEW i \in 1..Len(s), NEW E, LaidOut(s, i - 1, E),
           ~ (Buffered(s)[i] >= BlockSize), i # Len(s)
    PROVE  LaidOut(s, i, E)
<1>1. Len(s) \in Nat /\ i < Len(s)
  OBVIOUS
<1>2. Bytes(s, i) - Buffered(s)[i] = Bytes(s, StartOf(E, Len(E) + 1))
  BY BlockBegins
<1>3. \A b \in 1..Len(E) : E[b] <= i
  <2>1. ASSUME NEW b \in 1..Len(E) PROVE E[b] <= i
    <3>1. E[b] \in 1..Len(s) /\ E[b] <= i - 1
      BY DEF LaidOut
    <3>. QED BY <1>1, <3>1
  <2>. QED BY <2>1
<1>4. StartOf(E, Len(E) + 1) \in 0..i
  <2>1. StartOf(E, Len(E) + 1) \in 0..(i - 1)
    BY DEF LaidOut
  <2>. QED BY <1>1, <2>1
<1>. QED BY <1>1, <1>2, <1>3, <1>4 DEF LaidOut

\* A record that ends one.
LEMMA LaidOutAppends ==
    ASSUME NEW s \in Seq(Record), NEW i \in 1..Len(s), NEW E, LaidOut(s, i - 1, E),
           Buffered(s)[i] >= BlockSize \/ i = Len(s)
    PROVE  LaidOut(s, i, Append(E, i))
<1>1. Len(s) \in Nat /\ i \in Nat
  OBVIOUS
<1>2. PICK n, D : n = Len(E) /\ D = Append(E, i)
  OBVIOUS
<1>3. E \in Seq(1..Len(s)) /\ n \in Nat
  BY <1>2 DEF LaidOut
<1>4. D \in Seq(1..Len(s)) /\ Len(D) = n + 1 /\ D[n + 1] = i /\ \A b \in 1..n : D[b] = E[b]
  BY <1>2, <1>3
<1>5. StartOf(D, n + 1) = StartOf(E, n + 1)
  BY <1>3, <1>4 DEF StartOf
<1>6. ASSUME NEW b \in 1..n PROVE StartOf(D, b) = StartOf(E, b)
  BY <1>3, <1>4 DEF StartOf
<1>7. StartOf(E, n + 1) \in 0..(i - 1)
  BY <1>2 DEF LaidOut
<1>8. StartOf(D, n + 2) = i
  BY <1>3, <1>4 DEF StartOf
<1>9. Bytes(s, i) - Buffered(s)[i] = Bytes(s, StartOf(D, n + 1))
  BY <1>2, <1>5, BlockBegins
<1>10. ASSUME NEW b \in 1..n
       PROVE  /\ E[b] \in 1..Len(s) /\ E[b] <= i - 1
              /\ StartOf(E, b) < E[b] /\ StartOf(E, b) \in 0..Len(s)
              /\ Bytes(s, E[b]) - Buffered(s)[E[b]] = Bytes(s, StartOf(E, b))
              /\ Buffered(s)[E[b]] >= BlockSize \/ E[b] = Len(s)
              /\ \A c \in 1..n : b < c => E[b] < E[c]
  BY <1>2, <1>3 DEF LaidOut
<1>11. ASSUME NEW b \in 1..(n + 1)
       PROVE  /\ D[b] <= i /\ StartOf(D, b) < D[b] /\ StartOf(D, b) \in 0..Len(s)
              /\ Bytes(s, D[b]) - Buffered(s)[D[b]] = Bytes(s, StartOf(D, b))
              /\ Buffered(s)[D[b]] >= BlockSize \/ D[b] = Len(s)
              /\ \A c \in 1..(n + 1) : b < c => D[b] < D[c]
  <2>1. CASE b = n + 1
    <3>1. D[b] = i /\ \A c \in 1..(n + 1) : ~ (b < c)
      BY <1>3, <1>4, <2>1
    <3>2. StartOf(D, b) \in 0..(i - 1)
      BY <1>5, <1>7, <2>1
    <3>. QED BY <1>1, <1>9, <2>1, <3>1, <3>2
  <2>2. CASE b \in 1..n
    <3>1. D[b] = E[b] /\ StartOf(D, b) = StartOf(E, b)
      BY <1>4, <1>6, <2>2
    <3>2. /\ E[b] \in 1..Len(s) /\ E[b] <= i - 1
          /\ StartOf(E, b) < E[b] /\ StartOf(E, b) \in 0..Len(s)
          /\ Bytes(s, E[b]) - Buffered(s)[E[b]] = Bytes(s, StartOf(E, b))
          /\ Buffered(s)[E[b]] >= BlockSize \/ E[b] = Len(s)
      BY <1>10, <2>2
    <3>3. ASSUME NEW c \in 1..(n + 1), b < c PROVE D[b] < D[c]
      <4>1. CASE c = n + 1
        BY <1>1, <1>4, <3>1, <3>2, <4>1
      <4>2. CASE c \in 1..n
        BY <1>4, <1>10, <2>2, <3>1, <3>3, <4>2
      <4>. QED BY <1>3, <4>1, <4>2
    <3>4. D[b] <= i
      BY <1>1, <3>1, <3>2
    <3>. QED BY <3>1, <3>2, <3>3, <3>4
  <2>. QED BY <1>3, <2>1, <2>2
<1>12. i < Len(s) => Bytes(s, i) - (IF Buffered(s)[i] >= BlockSize THEN 0 ELSE Buffered(s)[i])
                     = Bytes(s, i)
  <2>1. Bytes(s, i) \in Nat
    BY <1>1, BytesDef
  <2>. QED BY <1>1, <2>1
<1>13. StartOf(D, Len(D) + 1) = i
  <2>1. Len(D) + 1 = n + 2
    BY <1>3, <1>4
  <2>. QED BY <1>8, <2>1
<1>14. LaidOut(s, i, D)
  BY <1>1, <1>4, <1>11, <1>12, <1>13 DEF LaidOut
<1>. QED BY <1>2, <1>14

\* Before the first record.
LEMMA LaidOutEmpty ==
    ASSUME NEW s \in Seq(Record)
    PROVE  LaidOut(s, 0, <<>>)
<1>1. Bytes(s, 0) = 0 /\ Buffered(s)[0] = 0
  BY BytesDef, BufferedDef
<1>2. StartOf(<<>>, Len(<<>>) + 1) = 0
  BY DEF StartOf
<1>3. <<>> \in Seq(1..Len(s)) /\ Len(<<>>) = 0 /\ Len(s) \in Nat /\ BlockSize \in Nat \ {0}
  BY FormatAssumption
<1>. QED BY <1>1, <1>2, <1>3 DEF LaidOut

\* What writeSSTable leaves when it is through.
LEMMA BlockEndsLaidOut ==
    ASSUME NEW s \in Seq(Record)
    PROVE  LaidOut(s, Len(s), BlockEnds(s))
<1>1. Len(s) \in Nat
  OBVIOUS
<1>. DEFINE V == Seq(1..Len(s))
            EndsAt(i) == Buffered(s)[i] >= BlockSize \/ i = Len(s)
            More(E, i) == IF EndsAt(i) THEN Append(E, i) ELSE E
            G == [i \in 1..Len(s) |-> [E \in V |-> More(E, i)]]
            Eqn(f) == f = [i \in 0..Len(s) |->
                             IF i = 0 THEN <<>>
                             ELSE IF Buffered(s)[i] >= BlockSize \/ i = Len(s) THEN Append(f[i - 1], i)
                             ELSE f[i - 1]]
            F == CHOOSE f : Eqn(f)
<1>2. BlockEnds(s) = F[Len(s)]
  BY DEF BlockEnds
<1>3. \A i \in 1..Len(s), E \in V : More(E, i) \in V
  <2>. SUFFICES ASSUME NEW i \in 1..Len(s), NEW E \in V PROVE More(E, i) \in V
    BY Zenon
  <2>1. Append(E, i) \in V
    BY AppendProperties
  <2>. HIDE DEF EndsAt, V
  <2>. QED BY <2>1
<1>4. G \in [1..Len(s) -> [V -> V]]
  <2>. HIDE DEF V, More
  <2>. QED BY <1>3
<1>5. PICK g : Run(Len(s), V, <<>>, G, g)
  <2>1. <<>> \in V
    OBVIOUS
  <2>. HIDE DEF V, G
  <2>. QED BY <1>1, <1>4, <2>1, Iterates
<1>6. Eqn(g)
  <2>1. ASSUME NEW i \in 1..Len(s) PROVE g[i] = More(g[i - 1], i)
    <3>1. g[i] = G[i][g[i - 1]] /\ g[i - 1] \in V
      <4>. HIDE DEF G, V
      <4>. QED BY <1>1, <1>5 DEF Run
    <3>. HIDE DEF V, More
    <3>. QED BY <3>1
  <2>2. g[0] = <<>> /\ g = [i \in 0..Len(s) |-> g[i]]
    <3>. HIDE DEF V, G
    <3>. QED BY <1>5 DEF Run
  <2>. QED BY <1>1, <2>1, <2>2
<1>7. Eqn(F)
  <2>. HIDE DEF Eqn
  <2>. QED BY <1>6
<1>. HIDE DEF F
<1>8. F[0] = <<>>
  BY <1>1, <1>7
<1>9. ASSUME NEW i \in 1..Len(s) PROVE F[i] = More(F[i - 1], i)
  <2>. DEFINE R(k) == IF k = 0 THEN <<>>
                      ELSE IF Buffered(s)[k] >= BlockSize \/ k = Len(s) THEN Append(F[k - 1], k)
                      ELSE F[k - 1]
  <2>1. F = [k \in 0..Len(s) |-> R(k)]
    BY <1>7
  <2>2. F[i] = R(i)
    <3>. HIDE DEF R
    <3>. QED BY <1>1, <2>1
  <2>. QED BY <2>2
<1>. DEFINE T == {i \in 0..Len(s) : LaidOut(s, i, F[i])}
<1>10. 0 \in T
  BY <1>1, <1>8, LaidOutEmpty
<1>11. ASSUME NEW i \in 1..Len(s), i - 1 \in T PROVE i \in T
  <2>1. LaidOut(s, i - 1, F[i - 1])
    BY <1>11
  <2>2. CASE EndsAt(i)
    <3>1. F[i] = Append(F[i - 1], i)
      BY <1>9, <2>2
    <3>2. LaidOut(s, i, F[i])
      BY <2>1, <2>2, <3>1, LaidOutAppends
    <3>. QED BY <1>1, <3>2
  <2>3. CASE ~ EndsAt(i)
    <3>1. F[i] = F[i - 1]
      BY <1>9, <2>3
    <3>2. LaidOut(s, i, F[i])
      BY <2>1, <2>3, <3>1, LaidOutStays
    <3>. QED BY <1>1, <3>2
  <2>. QED BY <2>2, <2>3
<1>12. Len(s) \in T
  <2>. HIDE DEF T
  <2>1. \A i \in 0..Len(s) : i \in T
    BY <1>1, <1>10, <1>11, UpTo
  <2>. QED BY <1>1, <2>1
<1>. QED BY <1>2, <1>12

-----------------------------------------------------------------------------
(* A table: its index, its blocks, and what is read from it.                 *)

\* Where block b of a table written from s begins.
Start(s, b) == StartOf(BlockEnds(s), b)

\* The ends of the blocks, and the index entries made of them.
IndexShape(s) ==
    /\ Len(BlockEnds(s)) \in Nat \ {0}
    /\ BlockEnds(s)[Len(BlockEnds(s))] = Len(s)
    /\ DOMAIN IndexOf(s) = 1..Len(BlockEnds(s))
    /\ Len(IndexOf(s)) = Len(BlockEnds(s))
    /\ \A b \in 1..Len(BlockEnds(s)) :
          /\ BlockEnds(s)[b] \in 1..Len(s)
          /\ Start(s, b) \in 0..Len(s) /\ Start(s, b) < BlockEnds(s)[b]
          /\ \A c \in 1..Len(BlockEnds(s)) : b < c => BlockEnds(s)[b] < BlockEnds(s)[c]
          /\ IndexOf(s)[b].maxKey = s[BlockEnds(s)[b]].key
          /\ IndexOf(s)[b].offset = Bytes(s, Start(s, b))
          /\ IndexOf(s)[b].size = Bytes(s, BlockEnds(s)[b]) - Bytes(s, Start(s, b))
          /\ IndexOf(s)[b].size >= BlockSize \/ b = Len(BlockEnds(s))

\* Every entry of the index describes its block.
LEMMA IndexShapes ==
    ASSUME NEW s \in Seq(Record), s # <<>>
    PROVE  IndexShape(s)
<1>1. Len(s) \in Nat \ {0}
  BY EmptySeq
<1>2. PICK E : E = BlockEnds(s)
  OBVIOUS
<1>3. LaidOut(s, Len(s), E)
  BY <1>2, BlockEndsLaidOut
<1>4. E \in Seq(1..Len(s)) /\ Len(E) \in Nat
  BY <1>3 DEF LaidOut
<1>5. StartOf(E, Len(E) + 1) = Len(s)
  BY <1>1, <1>3 DEF LaidOut
<1>6. Len(E) # 0 /\ E[Len(E)] = Len(s)
  BY <1>1, <1>4, <1>5 DEF StartOf
<1>7. PICK I : I = IndexOf(s)
  OBVIOUS
<1>8. I = [b \in 1..Len(E) |-> [maxKey |-> s[E[b]].key,
                                offset |-> Bytes(s, E[b]) - Buffered(s)[E[b]],
                                size   |-> Buffered(s)[E[b]]]]
  BY <1>2, <1>4, <1>7 DEF IndexOf
<1>9. /\ DOMAIN I = 1..Len(E)
      /\ \A b \in 1..Len(E) : /\ I[b].maxKey = s[E[b]].key
                              /\ I[b].offset = Bytes(s, E[b]) - Buffered(s)[E[b]]
                              /\ I[b].size = Buffered(s)[E[b]]
  BY <1>8
<1>10. I = [b \in 1..Len(E) |-> I[b]]
  BY <1>8
<1>11. Len(I) = Len(E)
  BY <1>4, <1>9, <1>10
<1>12. ASSUME NEW b \in 1..Len(E)
       PROVE  /\ E[b] \in 1..Len(s) /\ StartOf(E, b) \in 0..Len(s) /\ StartOf(E, b) < E[b]
              /\ \A c \in 1..Len(E) : b < c => E[b] < E[c]
              /\ Bytes(s, E[b]) - Buffered(s)[E[b]] = Bytes(s, StartOf(E, b))
              /\ Buffered(s)[E[b]] >= BlockSize \/ E[b] = Len(s)
  BY <1>3, <1>4 DEF LaidOut
<1>13. ASSUME NEW b \in 1..Len(E) PROVE I[b].size = Bytes(s, E[b]) - Bytes(s, StartOf(E, b))
  <2>1. PICK x, y, z : x = Bytes(s, E[b]) /\ y = Buffered(s)[E[b]] /\ z = Bytes(s, StartOf(E, b))
    OBVIOUS
  <2>2. x - y = z
    BY <1>12, <2>1
  <2>3. E[b] \in 0..Len(s)
    BY <1>12
  <2>4. x \in Nat /\ y \in Nat
    BY <2>1, <2>3, BytesDef, BufferedDef
  <2>5. y = x - z
    BY <2>2, <2>4
  <2>. QED BY <1>9, <2>1, <2>5
<1>14. ASSUME NEW b \in 1..Len(E) PROVE I[b].size >= BlockSize \/ b = Len(E)
  <2>1. CASE E[b] = Len(s) /\ b # Len(E)
    <3>1. E[b] < E[Len(E)]
      BY <1>4, <1>6, <1>12, <2>1
    <3>. QED BY <1>1, <1>6, <2>1, <3>1
  <2>. QED BY <1>9, <1>12, <2>1
<1>. QED BY <1>2, <1>4, <1>6, <1>7, <1>9, <1>11, <1>12, <1>13, <1>14 DEF Start, IndexShape

\* The same, entry by entry.
LEMMA IndexEntries ==
    ASSUME NEW s \in Seq(Record), s # <<>>
    PROVE  /\ Len(BlockEnds(s)) \in 1..Len(BlockEnds(s))
           /\ BlockEnds(s)[Len(BlockEnds(s))] = Len(s)
           /\ Len(IndexOf(s)) = Len(BlockEnds(s)) /\ DOMAIN IndexOf(s) = 1..Len(BlockEnds(s))
  BY IndexShapes DEF IndexShape

\* What the index says of one block.
LEMMA IndexEntry ==
    ASSUME NEW s \in Seq(Record), s # <<>>, NEW b \in 1..Len(BlockEnds(s))
    PROVE  /\ BlockEnds(s)[b] \in 1..Len(s) /\ BlockEnds(s)[b] \in 0..Len(s)
           /\ Start(s, b) \in 0..Len(s) /\ Start(s, b) < BlockEnds(s)[b]
           /\ IndexOf(s)[b].maxKey = s[BlockEnds(s)[b]].key
           /\ IndexOf(s)[b].offset = Bytes(s, Start(s, b))
           /\ IndexOf(s)[b].size = Bytes(s, BlockEnds(s)[b]) - Bytes(s, Start(s, b))
  BY IndexShapes DEF IndexShape

\* Reading from the offset of one record to that of another gives the records
\* between them.
LEMMA ReadAtIs ==
    ASSUME NEW s \in Seq(Record), NEW t, t.data = s,
           NEW a \in 0..Len(s), NEW e \in 0..Len(s), a < e
    PROVE  ReadAt(t, Bytes(s, a), Bytes(s, e) - Bytes(s, a)) = SubSeq(s, a + 1, e)
<1>1. Len(s) \in Nat /\ DOMAIN s = 1..Len(s)
  OBVIOUS
<1>2. PICK o, n : o = Bytes(s, a) /\ n = Bytes(s, e) - Bytes(s, a)
  OBVIOUS
<1>3. o \in Nat /\ Bytes(s, e) \in Nat /\ o + n = Bytes(s, e)
  BY <1>2, BytesDef
<1>. DEFINE inside == {i \in DOMAIN s : Bytes(s, i - 1) >= o /\ Bytes(s, i) <= o + n}
<1>4. ASSUME NEW i \in 1..Len(s) PROVE i \in inside <=> i \in (a + 1)..e
  <2>1. i - 1 \in 0..Len(s) /\ i \in 0..Len(s)
    BY <1>1
  <2>2. Bytes(s, i) \in Nat /\ Bytes(s, i - 1) \in Nat
    BY <2>1, BytesDef
  <2>3. (i - 1 < a => Bytes(s, i - 1) + 9 <= o) /\ (a < i - 1 => o + 9 <= Bytes(s, i - 1))
    BY <1>2, <2>1, BytesGrow
  <2>4. (i < e => Bytes(s, i) + 9 <= Bytes(s, e)) /\ (e < i => Bytes(s, e) + 9 <= Bytes(s, i))
    BY <2>1, BytesGrow
  <2>5. (a = i - 1 => o = Bytes(s, i - 1)) /\ (e = i => Bytes(s, e) = Bytes(s, i))
    BY <1>2
  <2>6. Bytes(s, i - 1) >= o <=> i - 1 >= a
    BY <1>3, <2>1, <2>2, <2>3, <2>5
  <2>7. Bytes(s, i) <= o + n <=> i <= e
    BY <1>3, <2>1, <2>2, <2>4, <2>5
  <2>. QED BY <1>1, <2>6, <2>7
<1>5. inside = (a + 1)..e
  <2>1. inside \subseteq 1..Len(s) /\ (a + 1)..e \subseteq 1..Len(s)
    BY <1>1
  <2>. HIDE DEF inside
  <2>. QED BY <1>4, <2>1
<1>6. ReadAt(t, o, n) = IF inside = {} THEN <<>> ELSE SubSeq(s, Min(inside), Max(inside))
  BY DEF ReadAt
<1>. HIDE DEF inside
<1>7. a + 1 \in inside /\ e \in inside /\ inside \in SUBSET (0..Len(s)) /\ \A i \in inside : a + 1 <= i /\ i <= e
  BY <1>1, <1>5
<1>8. /\ Min(inside) \in inside /\ \A y \in inside : Min(inside) <= y
      /\ Max(inside) \in inside /\ \A y \in inside : y <= Max(inside)
  BY <1>1, <1>7, MinMax
<1>9. Min(inside) = a + 1 /\ Max(inside) = e
  BY <1>5, <1>7, <1>8
<1>. QED BY <1>2, <1>6, <1>7, <1>9

\* The fields of a table.
LEMMA WrittenFields ==
    ASSUME NEW s \in Seq(Record), s # <<>>, NEW t, t = Written(s)
    PROVE  /\ t.data = s /\ t.index = IndexOf(s)
           /\ t.minKey = s[1].key /\ t.maxKey = s[Len(s)].key
           /\ t.minKey \in Key /\ t.maxKey \in Key
<1>1. t.data = s /\ t.index = IndexOf(s) /\ t.minKey = s[1].key /\ t.maxKey = s[Len(s)].key
  BY DEF Written, Last
<1>2. 1 \in 1..Len(s) /\ Len(s) \in 1..Len(s)
  BY EmptySeq
<1>3. s[1] \in Record /\ s[Len(s)] \in Record
  BY <1>2
<1>4. s[1].key \in Key /\ s[Len(s)].key \in Key
  BY <1>3 DEF Record
<1>. QED BY <1>1, <1>4

\* A block of the table.
LEMMA BlockIs ==
    ASSUME NEW s \in Seq(Record), s # <<>>, NEW t, t.data = s, t.index = IndexOf(s),
           NEW b \in 1..Len(BlockEnds(s))
    PROVE  ReadAt(t, t.index[b].offset, t.index[b].size) = SubSeq(s, Start(s, b) + 1, BlockEnds(s)[b])
<1>1. PICK a, e : a = Start(s, b) /\ e = BlockEnds(s)[b]
  OBVIOUS
<1>2. a \in 0..Len(s) /\ e \in 0..Len(s) /\ a < e
  BY <1>1, IndexEntry
<1>3. t.index[b].offset = Bytes(s, a) /\ t.index[b].size = Bytes(s, e) - Bytes(s, a)
  BY <1>1, IndexEntry
<1>4. ReadAt(t, Bytes(s, a), Bytes(s, e) - Bytes(s, a)) = SubSeq(s, a + 1, e)
  BY <1>2, ReadAtIs
<1>. QED BY <1>1, <1>3, <1>4

\* An iterator goes through the whole data region.
LEMMA ScanIs ==
    ASSUME NEW s \in Seq(Record), s # <<>>, NEW t, t.data = s, t.index = IndexOf(s)
    PROVE  Scan(t) = s
<1>1. Len(s) \in Nat \ {0}
  BY EmptySeq
<1>2. PICK n, a : n = Len(BlockEnds(s)) /\ a = Start(s, n)
  OBVIOUS
<1>3. n \in 1..Len(BlockEnds(s)) /\ BlockEnds(s)[n] = Len(s) /\ Len(t.index) = n
  BY <1>2, IndexEntries
<1>4. a \in 0..Len(s)
  BY <1>2, <1>3, IndexEntry
<1>5. Last(t.index).offset = Bytes(s, a) /\ Last(t.index).size = Bytes(s, Len(s)) - Bytes(s, a)
  BY <1>2, <1>3, IndexEntry DEF Last
<1>6. Bytes(s, 0) = 0 /\ Bytes(s, a) \in Nat /\ Bytes(s, Len(s)) \in Nat
  BY <1>1, <1>4, BytesDef
<1>7. Last(t.index).offset + Last(t.index).size = Bytes(s, Len(s)) - Bytes(s, 0)
  BY <1>5, <1>6
<1>8. ReadAt(t, Bytes(s, 0), Bytes(s, Len(s)) - Bytes(s, 0)) = SubSeq(s, 0 + 1, Len(s))
  <2>1. PICK z \in 0..Len(s) : z = 0
    BY <1>1
  <2>2. z < Len(s) /\ Len(s) \in 0..Len(s)
    BY <1>1, <2>1
  <2>3. ReadAt(t, Bytes(s, z), Bytes(s, Len(s)) - Bytes(s, z)) = SubSeq(s, z + 1, Len(s))
    BY <2>2, ReadAtIs
  <2>. QED BY <2>1, <2>3
<1>9. Scan(t) = SubSeq(s, 1, Len(s))
  BY <1>6, <1>7, <1>8 DEF Scan
<1>. QED BY <1>9, SubSeqFull

\* loadSSTables rebuilds the metadata the table was written with.
LEMMA LoadedIsWritten ==
    ASSUME NEW s \in Seq(Record), s # <<>>, NEW t, t = Written(s)
    PROVE  Loaded(t) = t
<1>1. t.data = s /\ t.index = IndexOf(s) /\ t.minKey = s[1].key /\ t.maxKey = s[Len(s)].key
  BY WrittenFields
<1>2. Len(IndexOf(s)) \in 1..Len(BlockEnds(s)) /\ BlockEnds(s)[Len(IndexOf(s))] = Len(s)
  BY IndexEntries
<1>3. Last(IndexOf(s)).maxKey = s[Len(s)].key
  BY <1>2, IndexEntry DEF Last
<1>4. PICK I, k, l : I = IndexOf(s) /\ k = s[1].key /\ l = s[Len(s)].key
  OBVIOUS
<1>5. t = [data |-> s, index |-> I, minKey |-> k, maxKey |-> l]
  BY <1>4 DEF Written, Last
<1>6. Loaded(t) = [t EXCEPT !.minKey = k, !.maxKey = l]
  BY <1>1, <1>3, <1>4 DEF Loaded
<1>7. PICK u : u = [data |-> s, index |-> I, minKey |-> k, maxKey |-> l]
  OBVIOUS
<1>8. [u EXCEPT !.minKey = k, !.maxKey = l] = u
  <2>1. [u EXCEPT !.minKey = k] = u
    BY <1>7
  <2>2. [u EXCEPT !.maxKey = l] = u
    BY <1>7
  <2>. QED BY <2>1, <2>2
<1>. QED BY <1>5, <1>6, <1>7, <1>8

\* Adjacent pieces of a slice join.
LEMMA SubSeqJoin ==
    ASSUME NEW s \in Seq(Record), NEW a \in 0..Len(s), NEW e \in 0..Len(s), a <= e
    PROVE  SubSeq(s, 1, a) \o SubSeq(s, a + 1, e) = SubSeq(s, 1, e)
<1>1. Len(s) \in Nat /\ \A i \in 1..Len(s) : s[i] \in Record
  OBVIOUS
<1>2. PICK x, y, z : x = SubSeq(s, 1, a) /\ y = SubSeq(s, a + 1, e) /\ z = SubSeq(s, 1, e)
  OBVIOUS
<1>3. x \in Seq(Record) /\ Len(x) = a /\ \A i \in 1..a : x[i] = s[i]
  BY <1>1, <1>2
<1>4. y \in Seq(Record) /\ Len(y) = e - a /\ \A i \in 1..(e - a) : y[i] = s[a + i]
  BY <1>1, <1>2
<1>5. z \in Seq(Record) /\ Len(z) = e /\ \A i \in 1..e : z[i] = s[i]
  BY <1>1, <1>2
<1>6. PICK w : w = x \o y
  OBVIOUS
<1>7. w \in Seq(Record) /\ Len(w) = Len(x) + Len(y)
  BY <1>3, <1>4, <1>6, ConcatProperties
<1>8. ASSUME NEW i \in 1..e PROVE w[i] = z[i]
  <2>1. i \in 1..(Len(x) + Len(y))
    BY <1>3, <1>4
  <2>2. w[i] = IF i <= Len(x) THEN x[i] ELSE y[i - Len(x)]
    BY <1>3, <1>4, <1>6, <2>1, ConcatProperties
  <2>3. CASE i <= a
    BY <1>3, <1>5, <2>2, <2>3
  <2>4. CASE i > a
    <3>1. i - a \in 1..(e - a) /\ a + (i - a) = i
      BY <2>4
    <3>2. w[i] = y[i - a]
      BY <1>3, <2>2, <2>4
    <3>3. y[i - a] = s[a + (i - a)]
      BY <1>4, <3>1
    <3>. QED BY <1>5, <3>1, <3>2, <3>3
  <2>. QED BY <2>3, <2>4
<1>9. Len(w) = Len(z) /\ \A i \in 1..Len(w) : w[i] = z[i]
  BY <1>3, <1>4, <1>5, <1>7, <1>8
<1>10. w = z
  BY <1>5, <1>7, <1>9, SeqEqual
<1>. QED BY <1>2, <1>6, <1>10

\* The equation FlattenSeq is defined by, and so what the blocks amount to.
LEMMA FlattenBlocks ==
    ASSUME NEW s \in Seq(Record), NEW n \in Nat \ {0}, NEW E \in [1..n -> 1..Len(s)],
           NEW B, Len(B) = n,
           \A b \in 1..n : /\ StartOf(E, b) < E[b] /\ StartOf(E, b) \in 0..Len(s)
                           /\ B[b] = SubSeq(s, StartOf(E, b) + 1, E[b])
    PROVE  FlattenSeq(B) = SubSeq(s, 1, E[n])
<1>. DEFINE Eqn(f) == f = [i \in 1..Len(B) |-> IF i = 1 THEN B[i] ELSE f[i - 1] \o B[i]]
            F == CHOOSE f : Eqn(f)
            C == [i \in 1..n |-> SubSeq(s, 1, E[i])]
<1>1. FlattenSeq(B) = F[n]
  BY DEF FlattenSeq
<1>2. ASSUME NEW i \in 1..n PROVE C[i] = IF i = 1 THEN B[i] ELSE C[i - 1] \o B[i]
  <2>1. CASE i = 1
    BY <2>1 DEF StartOf
  <2>2. CASE i # 1
    <3>1. i - 1 \in 1..n /\ StartOf(E, i) = E[i - 1]
      BY <2>2 DEF StartOf
    <3>2. PICK a, e : a = E[i - 1] /\ e = E[i]
      OBVIOUS
    <3>3. a \in 0..Len(s) /\ e \in 0..Len(s) /\ a <= e /\ B[i] = SubSeq(s, a + 1, e)
      <4>1. a \in 1..Len(s) /\ e \in 1..Len(s)
        BY <3>1, <3>2
      <4>2. a < e /\ B[i] = SubSeq(s, a + 1, e)
        BY <3>1, <3>2
      <4>. QED BY <4>1, <4>2
    <3>4. SubSeq(s, 1, a) \o SubSeq(s, a + 1, e) = SubSeq(s, 1, e)
      BY <3>3, SubSeqJoin
    <3>5. C[i - 1] = SubSeq(s, 1, a) /\ C[i] = SubSeq(s, 1, e)
      BY <3>1, <3>2
    <3>. QED BY <2>2, <3>3, <3>4, <3>5
  <2>. QED BY <2>1, <2>2
<1>3. Eqn(C)
  <2>1. C = [i \in 1..Len(B) |-> C[i]]
    OBVIOUS
  <2>. HIDE DEF C
  <2>. QED BY <1>2, <2>1
<1>4. Eqn(F)
  <2>. HIDE DEF Eqn, C
  <2>. QED BY <1>3
<1>. HIDE DEF F
<1>5. ASSUME NEW i \in 1..n PROVE F[i] = IF i = 1 THEN B[i] ELSE F[i - 1] \o B[i]
  BY <1>4
<1>. HIDE DEF C
<1>. DEFINE T == {i \in 0..n : i = 0 \/ F[i] = C[i]}
<1>6. 0 \in T
  OBVIOUS
<1>7. ASSUME NEW i \in 1..n, i - 1 \in T PROVE i \in T
  <2>1. i = 1 \/ F[i - 1] = C[i - 1]
    BY <1>7
  <2>2. F[i] = C[i]
    <3>1. CASE i = 1
      BY <1>2, <1>5, <3>1
    <3>2. CASE i # 1
      <4>1. F[i - 1] = C[i - 1]
        BY <2>1, <3>2
      <4>2. F[i] = C[i - 1] \o B[i]
        BY <1>5, <3>2, <4>1
      <4>. QED BY <1>2, <3>2, <4>2
    <3>. QED BY <3>1, <3>2
  <2>. QED BY <2>2
<1>8. n \in T
  <2>. HIDE DEF T
  <2>1. \A i \in 0..n : i \in T
    BY <1>6, <1>7, UpTo
  <2>. QED BY <2>1
<1>9. F[n] = C[n]
  BY <1>8
<1>. QED BY <1>1, <1>9 DEF C

\* The blocks the index points to are the data region, and all but the last are full.
LEMMA TableTiles ==
    ASSUME NEW s \in Seq(Record), s # <<>>, NEW t, t.data = s, t.index = IndexOf(s)
    PROVE  /\ FlattenSeq([b \in DOMAIN t.index |->
                            ReadAt(t, t.index[b].offset, t.index[b].size)]) = s
           /\ \A b \in DOMAIN t.index : t.index[b].size >= BlockSize \/ b = Len(t.index)
<1>1. PICK E, n : E = BlockEnds(s) /\ n = Len(E)
  OBVIOUS
<1>2. n \in Nat \ {0} /\ E[n] = Len(s) /\ DOMAIN t.index = 1..n /\ Len(t.index) = n
  BY <1>1, IndexShapes DEF IndexShape
<1>3. E \in Seq(1..Len(s))
  BY <1>1, BlockEndsLaidOut DEF LaidOut
<1>4. E \in [1..n -> 1..Len(s)]
  BY <1>1, <1>3, LenProperties
<1>5. PICK B : B = [b \in 1..n |-> ReadAt(t, t.index[b].offset, t.index[b].size)]
  OBVIOUS
<1>6. ASSUME NEW b \in 1..n
      PROVE  /\ StartOf(E, b) < E[b] /\ StartOf(E, b) \in 0..Len(s)
             /\ B[b] = SubSeq(s, StartOf(E, b) + 1, E[b])
  <2>1. b \in 1..Len(BlockEnds(s)) /\ Start(s, b) = StartOf(E, b)
    BY <1>1 DEF Start
  <2>2. B[b] = ReadAt(t, t.index[b].offset, t.index[b].size)
    BY <1>5
  <2>3. B[b] = SubSeq(s, Start(s, b) + 1, BlockEnds(s)[b])
    BY <2>1, <2>2, BlockIs
  <2>4. Start(s, b) \in 0..Len(s) /\ Start(s, b) < BlockEnds(s)[b]
    BY <2>1, IndexEntry
  <2>. QED BY <1>1, <2>1, <2>3, <2>4
<1>7. Len(B) = n
  BY <1>2, <1>5
<1>8. FlattenSeq(B) = SubSeq(s, 1, E[n])
  BY <1>2, <1>4, <1>6, <1>7, FlattenBlocks
<1>9. FlattenSeq(B) = s
  BY <1>2, <1>8, SubSeqFull
<1>10. \A b \in 1..n : t.index[b].size >= BlockSize \/ b = n
  BY <1>1, IndexShapes DEF IndexShape
<1>. QED BY <1>2, <1>5, <1>9, <1>10

-----------------------------------------------------------------------------
(* Lookups.                                                                  *)

\* The values a slice has for a key: at most one.
ValOf(s, k) == {s[i].val : i \in {q \in DOMAIN s : s[q].key = k}}

\* It is the value of the record that has the key.
LEMMA ValOfIs ==
    ASSUME NEW s \in Seq(Record), Ascending(s), NEW k
    PROVE  /\ \A i \in 1..Len(s) : s[i].key = k => ValOf(s, k) = {s[i].val}
           /\ (\A i \in 1..Len(s) : s[i].key # k) => ValOf(s, k) = {}
<1>1. Len(s) \in Nat /\ DOMAIN s = 1..Len(s)
  OBVIOUS
<1>2. ASSUME NEW i \in 1..Len(s), s[i].key = k PROVE ValOf(s, k) = {s[i].val}
  <2>1. ASSUME NEW j \in 1..Len(s), s[j].key = k PROVE j = i
    <3>1. s[i] \in Record
      OBVIOUS
    <3>2. k \in Nat
      BY <1>2, <3>1, FormatAssumption DEF Record
    <3>3. ~ (i < j) /\ ~ (j < i)
      BY <1>1, <1>2, <2>1, <3>2 DEF Ascending
    <3>. QED BY <1>1, <3>3
  <2>2. {q \in DOMAIN s : s[q].key = k} = {i}
    BY <1>1, <1>2, <2>1
  <2>. QED BY <2>2 DEF ValOf
<1>3. ASSUME \A i \in 1..Len(s) : s[i].key # k PROVE ValOf(s, k) = {}
  BY <1>1, <1>3 DEF ValOf
<1>. QED BY <1>2, <1>3

\* The first block whose last key is not smaller is the only one that can have k.
LEMMA IndexLeads ==
    ASSUME NEW s \in Seq(Record), s # <<>>, Ascending(s), NEW k \in Key, s[Len(s)].key >= k,
           NEW b, b = Search(Len(IndexOf(s)), {i \in DOMAIN IndexOf(s) : IndexOf(s)[i].maxKey >= k})
    PROVE  /\ b \in 1..Len(BlockEnds(s))
           /\ \A q \in 1..Len(s) :
                 s[q].key = k => q \in (Start(s, b) + 1)..BlockEnds(s)[b]
<1>1. Len(s) \in Nat \ {0} /\ DOMAIN s = 1..Len(s)
  BY EmptySeq
<1>2. PICK E, n, I : E = BlockEnds(s) /\ n = Len(E) /\ I = IndexOf(s)
  OBVIOUS
<1>3. n \in Nat \ {0} /\ E[n] = Len(s) /\ DOMAIN I = 1..n /\ Len(I) = n
  BY <1>2, IndexShapes DEF IndexShape
<1>4. \A c \in 1..n : E[c] \in 1..Len(s) /\ I[c].maxKey = s[E[c]].key
  BY <1>2, IndexShapes DEF IndexShape
<1>5. \A c, d \in 1..n : c < d => E[c] < E[d]
  BY <1>2, IndexShapes DEF IndexShape
<1>6. k \in Nat /\ \A q \in 1..Len(s) : s[q].key \in Nat
  <2>1. \A q \in 1..Len(s) : s[q] \in Record
    OBVIOUS
  <2>. QED BY <2>1, FormatAssumption DEF Record
<1>7. \A x, y \in 1..Len(s) : x < y => s[x].key < s[y].key
  BY <1>1 DEF Ascending
<1>8. PICK A : A = {i \in DOMAIN I : I[i].maxKey >= k}
  OBVIOUS
<1>9. A \in SUBSET (1..n) /\ \A x \in 1..n : x \in A <=> s[E[x]].key >= k
  BY <1>3, <1>4, <1>8
<1>10. ASSUME NEW x \in A, NEW y \in x..n PROVE y \in A
  <2>1. x \in 1..n /\ y \in 1..n /\ s[E[x]].key >= k
    BY <1>3, <1>9
  <2>2. x = y \/ E[x] < E[y]
    BY <1>5, <2>1
  <2>3. x = y \/ s[E[x]].key < s[E[y]].key
    BY <1>4, <1>7, <2>1, <2>2
  <2>4. s[E[y]].key >= k
    BY <1>4, <1>6, <2>1, <2>3
  <2>. QED BY <1>9, <2>1, <2>4
<1>11. FirstIn(n, A, b)
  <2>1. b = Search(n, A)
    BY <1>2, <1>3, <1>8
  <2>. QED BY <1>3, <1>9, <1>10, <2>1, SearchFindsFirst
<1>12. n \in A
  BY <1>3, <1>9
<1>13. b \in 1..n /\ b \in A
  BY <1>3, <1>11, <1>12 DEF FirstIn
<1>14. ASSUME NEW q \in 1..Len(s), s[q].key = k PROVE q <= E[b]
  <2>1. E[b] \in 1..Len(s) /\ s[E[b]].key >= k
    BY <1>4, <1>9, <1>13
  <2>2. ~ (E[b] < q)
    BY <1>6, <1>7, <1>14, <2>1
  <2>. QED BY <1>1, <2>1, <2>2
<1>15. ASSUME NEW q \in 1..Len(s), s[q].key = k PROVE StartOf(E, b) < q /\ StartOf(E, b) \in Nat
  <2>1. CASE b = 1
    BY <2>1 DEF StartOf
  <2>2. CASE b # 1
    <3>1. b - 1 \in 1..n /\ b - 1 \notin A /\ StartOf(E, b) = E[b - 1]
      BY <1>3, <1>11, <1>13, <2>2 DEF FirstIn, StartOf
    <3>2. E[b - 1] \in 1..Len(s) /\ ~ (s[E[b - 1]].key >= k)
      BY <1>4, <1>9, <3>1
    <3>3. ~ (q <= E[b - 1])
      <4>1. q < E[b - 1] => s[q].key < s[E[b - 1]].key
        BY <1>7, <3>2
      <4>. QED BY <1>1, <1>6, <1>15, <3>2, <4>1
    <3>. QED BY <1>1, <3>1, <3>2, <3>3
  <2>. QED BY <2>1, <2>2
<1>16. ASSUME NEW q \in 1..Len(s), s[q].key = k PROVE q \in (StartOf(E, b) + 1)..E[b]
  <2>1. E[b] \in 1..Len(s)
    BY <1>4, <1>13
  <2>. QED BY <1>14, <1>15, <1>16, <2>1
<1>. QED BY <1>2, <1>13, <1>16 DEF Start

\* Get's range filter and readValFromSSTable find exactly what the table has: the search
\* of the index leads to the one block that may hold the key.
THEOREM FoundIs ==
    ASSUME NEW s \in Seq(Record), s # <<>>, Ascending(s), NEW k \in Key,
           NEW t, t.data = s, t.index = IndexOf(s), t.minKey = s[1].key, t.maxKey = s[Len(s)].key
    PROVE  Found(t, k) = ValOf(s, k)
<1>1. Len(s) \in Nat \ {0} /\ DOMAIN s = 1..Len(s) /\ 1 \in 1..Len(s) /\ Len(s) \in 1..Len(s)
  BY EmptySeq
<1>2. k \in Nat /\ \A q \in 1..Len(s) : s[q].key \in Nat
  <2>1. \A q \in 1..Len(s) : s[q] \in Record
    OBVIOUS
  <2>. QED BY <2>1, FormatAssumption DEF Record
<1>3. \A q \in 1..Len(s) : s[1].key <= s[q].key /\ s[q].key <= s[Len(s)].key
  BY <1>1, <1>2 DEF Ascending
<1>4. CASE k < s[1].key \/ k > s[Len(s)].key
  <2>1. \A q \in 1..Len(s) : s[q].key # k
    BY <1>1, <1>2, <1>3, <1>4
  <2>2. ValOf(s, k) = {}
    BY <2>1, ValOfIs
  <2>. QED BY <1>4, <2>2 DEF Found
<1>5. CASE ~ (k < s[1].key \/ k > s[Len(s)].key)
  <2>1. Found(t, k) = readValFromSSTable(t, k)
    BY <1>5 DEF Found
  <2>2. PICK b : b = Search(Len(IndexOf(s)), {i \in DOMAIN IndexOf(s) : IndexOf(s)[i].maxKey >= k})
    OBVIOUS
  <2>3. s[Len(s)].key >= k
    BY <1>1, <1>2, <1>5
  <2>4. b \in 1..Len(BlockEnds(s)) /\ Len(t.index) = Len(BlockEnds(s))
    BY <2>2, <2>3, IndexLeads, IndexEntries
  <2>5. PICK a, e : a = Start(s, b) /\ e = BlockEnds(s)[b]
    OBVIOUS
  <2>6. \A q \in 1..Len(s) : s[q].key = k => q \in (a + 1)..e
    BY <2>2, <2>3, <2>5, IndexLeads
  <2>7. a \in 0..Len(s) /\ e \in 1..Len(s) /\ a < e
    BY <2>4, <2>5, IndexEntry
  <2>8. PICK B : B = ReadAt(t, t.index[b].offset, t.index[b].size)
    OBVIOUS
  <2>9. B = SubSeq(s, a + 1, e)
    BY <2>4, <2>5, <2>8, BlockIs
  <2>10. Len(B) = e - a /\ \A i \in 1..(e - a) : B[i] = s[a + i]
    BY <1>1, <2>7, <2>9
  <2>11. PICK J : J = {i \in 1..Len(B) : B[i].key = k}
    OBVIOUS
  <2>12. ~ (b > Len(t.index))
    BY <2>4
  <2>13. readValFromSSTable(t, k)
           = LET i == IF J # {} THEN Min(J) ELSE 0
             IN  IF b > Len(t.index) \/ i = 0 THEN {} ELSE {B[i].val}
    <3>1. SelectInSeq(B, LAMBDA p : p.key = k) = IF J # {} THEN Min(J) ELSE 0
      BY <2>11 DEF SelectInSeq
    <3>. QED BY <2>2, <2>8, <3>1 DEF readValFromSSTable
  <2>14. CASE J = {}
    <3>1. readValFromSSTable(t, k) = {}
      BY <2>13, <2>14
    <3>2. ASSUME NEW q \in 1..Len(s) PROVE s[q].key # k
      <4>1. SUFFICES ASSUME s[q].key = k PROVE FALSE
        OBVIOUS
      <4>2. q - a \in 1..(e - a) /\ a + (q - a) = q
        BY <2>6, <2>7, <4>1
      <4>3. q - a \in J
        BY <2>10, <2>11, <4>1, <4>2
      <4>. QED BY <2>14, <4>3
    <3>3. ValOf(s, k) = {}
      BY <3>2, ValOfIs
    <3>. QED BY <2>1, <3>1, <3>3
  <2>15. CASE J # {}
    <3>1. J \in SUBSET (0..(e - a)) /\ e - a \in Nat
      BY <2>7, <2>10, <2>11
    <3>2. PICK i \in J : i = Min(J)
      BY <2>15, <3>1, MinMax
    <3>3. i \in 1..(e - a) /\ B[i] = s[a + i] /\ B[i].key = k /\ a + i \in 1..Len(s)
      BY <2>7, <2>10, <2>11
    <3>4. readValFromSSTable(t, k) = {B[i].val}
      BY <2>12, <2>13, <2>15, <3>2, <3>3
    <3>5. ValOf(s, k) = {s[a + i].val}
      BY <3>3, ValOfIs
    <3>. QED BY <2>1, <3>3, <3>4, <3>5
  <2>. QED BY <2>14, <2>15
<1>. QED BY <1>4, <1>5

-----------------------------------------------------------------------------
(* The tables and what they record.                                          *)

\* What a table is written from, and the tables.
Slice == {s \in Seq(Record) : s # <<>> /\ Ascending(s)}

Table == {Written(s) : s \in Slice}

Data(ts) == [i \in 1..Len(ts) |-> ts[i].data]

\* A table is determined by its data.
LEMMA TableIs ==
    ASSUME NEW t \in Table
    PROVE  /\ t.data \in Slice /\ t.data \in Seq(Record) /\ t.data # <<>> /\ Ascending(t.data)
           /\ t = Written(t.data) /\ t.index = IndexOf(t.data)
           /\ t.minKey = t.data[1].key /\ t.maxKey = t.data[Len(t.data)].key
           /\ t.minKey \in Key /\ t.maxKey \in Key
<1>1. PICK s \in Slice : t = Written(s)
  BY DEF Table
<1>2. s \in Seq(Record) /\ s # <<>> /\ Ascending(s)
  BY DEF Slice
<1>3. /\ t.data = s /\ t.index = IndexOf(s)
      /\ t.minKey = s[1].key /\ t.maxKey = s[Len(s)].key
      /\ t.minKey \in Key /\ t.maxKey \in Key
  BY <1>1, <1>2, WrittenFields
<1>. QED BY <1>1, <1>2, <1>3

\* The data of a list of tables.
LEMMA DataIs ==
    ASSUME NEW ts \in Seq(Table)
    PROVE  /\ Len(ts) \in Nat /\ DOMAIN ts = 1..Len(ts)
           /\ Data(ts) \in [1..Len(ts) -> Slice]
           /\ \A i \in 1..Len(ts) : ts[i] \in Table /\ ts[i].data = Data(ts)[i]
<1>1. Len(ts) \in Nat /\ DOMAIN ts = 1..Len(ts) /\ \A i \in 1..Len(ts) : ts[i] \in Table
  OBVIOUS
<1>2. \A i \in 1..Len(ts) : ts[i].data \in Slice
  BY <1>1, TableIs
<1>. QED BY <1>1, <1>2 DEF Data

\* The slice p, before it the n slices of d, oldest first, record the contents c:
\* the newest record of a key is the last value written to it.
Recorded(p, n, d, c) ==
    /\ \A q \in 1..Len(p) : p[q].val = c[p[q].key]
    /\ \A i \in 1..n : \A q \in 1..Len(d[i]) :
          /\ d[i][q].key \notin KeysOf(p)
          /\ \A j \in 1..n : i < j => d[i][q].key \notin KeysOf(d[j])
          => d[i][q].val = c[d[i][q].key]
    /\ \A k \in Key :
          k \notin KeysOf(p) /\ (\A i \in 1..n : k \notin KeysOf(d[i])) => c[k] = Nil

\* The keys of a slice, by position.
LEMMA KeysOfIs ==
    ASSUME NEW s \in Seq(Record), NEW k
    PROVE  k \in KeysOf(s) <=> \E q \in 1..Len(s) : s[q].key = k
<1>1. DOMAIN s = 1..Len(s)
  OBVIOUS
<1>. QED BY <1>1 DEF KeysOf

\* A write to the memtable.
LEMMA RecordedPut ==
    ASSUME NEW p \in Seq(Record), NEW t \in Seq(Record), NEW n \in Nat,
           NEW d \in [1..n -> Slice], NEW V, NEW c \in [Key -> V], NEW k \in Key, NEW v \in V,
           Recorded(p, n, d, c), KeysOf(t) = KeysOf(p) \cup {k},
           \A q \in 1..Len(t) : \/ t[q].key = k /\ t[q].val = v
                                \/ t[q].key # k /\ \E r \in 1..Len(p) : t[q] = p[r]
    PROVE  Recorded(t, n, d, [c EXCEPT ![k] = v])
<1>1. PICK e : e = [c EXCEPT ![k] = v]
  OBVIOUS
<1>2. e[k] = v /\ \A x \in Key : x # k => e[x] = c[x]
  BY <1>1
<1>3. \A q \in 1..Len(t) : t[q].key \in Key
  <2>1. \A q \in 1..Len(t) : t[q] \in Record
    OBVIOUS
  <2>. QED BY <2>1 DEF Record
<1>4. ASSUME NEW q \in 1..Len(t) PROVE t[q].val = e[t[q].key]
  <2>1. CASE t[q].key = k
    BY <1>2, <2>1
  <2>2. CASE t[q].key # k
    <3>1. PICK r \in 1..Len(p) : t[q] = p[r]
      BY <2>2
    <3>2. p[r].val = c[p[r].key]
      BY DEF Recorded
    <3>. QED BY <1>2, <1>3, <2>2, <3>1, <3>2
  <2>. QED BY <2>1, <2>2
<1>5. ASSUME NEW i \in 1..n, NEW q \in 1..Len(d[i]),
             d[i][q].key \notin KeysOf(t),
             \A j \in 1..n : i < j => d[i][q].key \notin KeysOf(d[j])
      PROVE  d[i][q].val = e[d[i][q].key]
  <2>1. d[i][q].key \notin KeysOf(p) /\ d[i][q].key # k
    BY <1>5
  <2>2. d[i][q].val = c[d[i][q].key]
    BY <1>5, <2>1 DEF Recorded
  <2>3. d[i] \in Seq(Record)
    BY DEF Slice
  <2>4. d[i][q] \in Record
    BY <2>3
  <2>5. d[i][q].key \in Key
    BY <2>4 DEF Record
  <2>. QED BY <1>2, <2>1, <2>2, <2>5
<1>6. ASSUME NEW x \in Key, x \notin KeysOf(t), \A i \in 1..n : x \notin KeysOf(d[i])
      PROVE  e[x] = Nil
  <2>1. x \notin KeysOf(p) /\ x # k
    BY <1>6
  <2>2. c[x] = Nil
    BY <1>6, <2>1 DEF Recorded
  <2>. QED BY <1>2, <2>1, <2>2
<1>7. Recorded(t, n, d, e)
  BY <1>4, <1>5, <1>6 DEF Recorded
<1>. QED BY <1>1, <1>7

\* A flush: the slice becomes the newest table.
LEMMA RecordedFlush ==
    ASSUME NEW p \in Seq(Record), NEW n \in Nat, NEW d \in [1..n -> Slice], NEW c,
           NEW e \in [1..(n + 1) -> Slice], \A i \in 1..n : e[i] = d[i], e[n + 1] = p,
           Recorded(p, n, d, c)
    PROVE  Recorded(<<>>, n + 1, e, c)
<1>1. ASSUME NEW k PROVE k \notin KeysOf(<<>>)
  BY DEF KeysOf
<1>2. ASSUME NEW i \in 1..(n + 1), NEW q \in 1..Len(e[i]),
             \A j \in 1..(n + 1) : i < j => e[i][q].key \notin KeysOf(e[j])
      PROVE  e[i][q].val = c[e[i][q].key]
  <2>1. CASE i = n + 1
    BY <2>1 DEF Recorded
  <2>2. CASE i \in 1..n
    <3>1. e[i] = d[i] /\ d[i][q].key \notin KeysOf(p)
      <4>1. n + 1 \in 1..(n + 1) /\ i < n + 1
        BY <2>2
      <4>. QED BY <1>2, <2>2, <4>1
    <3>2. ASSUME NEW j \in 1..n, i < j PROVE d[i][q].key \notin KeysOf(d[j])
      <4>1. j \in 1..(n + 1) /\ e[j] = d[j]
        BY <3>2
      <4>. QED BY <1>2, <3>1, <3>2, <4>1
    <3>. QED BY <2>2, <3>1, <3>2 DEF Recorded
  <2>. QED BY <2>1, <2>2
<1>3. ASSUME NEW k \in Key, \A i \in 1..(n + 1) : k \notin KeysOf(e[i]) PROVE c[k] = Nil
  <2>1. k \notin KeysOf(p)
    <3>1. n + 1 \in 1..(n + 1)
      OBVIOUS
    <3>. QED BY <1>3, <3>1
  <2>2. ASSUME NEW i \in 1..n PROVE k \notin KeysOf(d[i])
    <3>1. i \in 1..(n + 1) /\ e[i] = d[i]
      OBVIOUS
    <3>. QED BY <1>3, <3>1
  <2>. QED BY <2>1, <2>2 DEF Recorded
<1>4. \A q \in 1..Len(<<>>) : FALSE
  OBVIOUS
<1>. QED BY <1>1, <1>2, <1>3, <1>4 DEF Recorded

-----------------------------------------------------------------------------
(* The merge.                                                                *)

\* The loop invariant of doMerge over the n slices of d: I, P, l and b are the
\* iterators in the heap, their positions, lastKey and the builder.
Merging(n, d, I, P, l, b) ==
    /\ I \in SUBSET (1..n) /\ P \in [1..n -> Nat]
    /\ \A i \in 1..n : /\ P[i] >= 1
                       /\ i \in I => P[i] <= Len(d[i])
                       /\ i \notin I => P[i] = Len(d[i]) + 1
    /\ b \in Seq(Record) /\ Ascending(b)
    /\ (b = <<>> /\ l = Nil) \/ (b # <<>> /\ l = b[Len(b)].key)
    /\ \A i \in 1..n : \A q \in P[i]..Len(d[i]), r \in 1..Len(b) : b[r].key <= d[i][q].key
    /\ \A i \in 1..n : \A q \in 1..(P[i] - 1) : d[i][q].key \in KeysOf(b)
    /\ \A r \in 1..Len(b) : \E i \in 1..n : \E q \in 1..(P[i] - 1) :
          /\ b[r] = d[i][q]
          /\ \A j \in 1..n : i < j => b[r].key \notin KeysOf(d[j])

\* Iterator i is at a record no iterator has a smaller one of, nor a newer one of
\* the same key: what the heap gives.
Topmost(n, d, I, P, i) ==
    \A j \in I \ {i} : \/ d[i][P[i]].key < d[j][P[j]].key
                       \/ d[i][P[i]].key = d[j][P[j]].key /\ i > j

\* Nothing that is left to be read is smaller, and a newer table that has not
\* passed the key has a greater one.
LEMMA TopmostLeast ==
    ASSUME NEW n \in Nat, NEW d \in [1..n -> Slice], NEW I, NEW P, NEW l, NEW b,
           Merging(n, d, I, P, l, b), NEW i \in I, Topmost(n, d, I, P, i)
    PROVE  /\ \A j \in 1..n : d[j] \in Seq(Record) /\ \A q \in 1..Len(d[j]) : d[j][q].key \in Nat
           /\ P[i] \in 1..Len(d[i])
           /\ \A j \in 1..n : \A q \in P[j]..Len(d[j]) : q \in 1..Len(d[j])
           /\ \A j \in 1..n : \A q \in P[j]..Len(d[j]) : d[i][P[i]].key <= d[j][q].key
           /\ \A j \in 1..n : \A q \in P[j]..Len(d[j]) : i < j => d[i][P[i]].key < d[j][q].key
<1>1. \A j \in 1..n : d[j] \in Seq(Record) /\ Ascending(d[j])
  BY DEF Slice
<1>2. ASSUME NEW j \in 1..n, NEW q \in 1..Len(d[j]) PROVE d[j][q].key \in Nat
  <2>1. d[j] \in Seq(Record)
    BY <1>1
  <2>2. d[j][q] \in Record
    BY <2>1
  <2>. QED BY <2>2, FormatAssumption DEF Record
<1>3. /\ I \in SUBSET (1..n) /\ P \in [1..n -> Nat]
      /\ \A j \in 1..n : /\ P[j] >= 1
                         /\ j \in I => P[j] <= Len(d[j])
                         /\ j \notin I => P[j] = Len(d[j]) + 1
  BY DEF Merging
<1>4. i \in 1..n /\ P[i] \in 1..Len(d[i])
  <2>1. i \in 1..n /\ d[i] \in Seq(Record)
    BY <1>1, <1>3
  <2>2. P[i] \in Nat /\ P[i] >= 1 /\ P[i] <= Len(d[i]) /\ Len(d[i]) \in Nat
    BY <1>3, <2>1
  <2>. QED BY <2>1, <2>2
<1>5. ASSUME NEW j \in 1..n, NEW q \in P[j]..Len(d[j])
      PROVE  /\ q \in 1..Len(d[j]) /\ d[i][P[i]].key <= d[j][q].key
             /\ i < j => d[i][P[i]].key < d[j][q].key
  <2>1. Len(d[j]) \in Nat /\ P[j] \in Nat /\ P[j] >= 1
    BY <1>1, <1>3
  <2>2. j \in I /\ P[j] \in 1..Len(d[j]) /\ q \in 1..Len(d[j])
    BY <1>3, <2>1
  <2>3. PICK x, y, z : x = d[i][P[i]].key /\ y = d[j][P[j]].key /\ z = d[j][q].key
    OBVIOUS
  <2>4. x \in Nat /\ y \in Nat /\ z \in Nat
    BY <1>2, <1>4, <2>2, <2>3
  <2>5. y <= z
    <3>1. CASE q = P[j]
      BY <2>3, <2>4, <3>1
    <3>2. CASE q # P[j]
      <4>1. P[j] < q /\ DOMAIN d[j] = 1..Len(d[j])
        BY <1>1, <2>1, <2>2, <3>2
      <4>2. y < z
        BY <1>1, <2>2, <2>3, <4>1 DEF Ascending
      <4>. QED BY <2>4, <4>2
    <3>. QED BY <3>1, <3>2
  <2>6. CASE j = i
    BY <2>2, <2>3, <2>4, <2>5, <2>6, <1>4
  <2>7. CASE j # i
    <3>1. x < y \/ (x = y /\ i > j)
      BY <2>2, <2>3, <2>7 DEF Topmost
    <3>2. x <= z /\ (i < j => x < z)
      BY <1>4, <2>4, <2>5, <3>1
    <3>. QED BY <2>2, <2>3, <3>2
  <2>. QED BY <2>6, <2>7
<1>. QED BY <1>1, <1>2, <1>4, <1>5

\* The heap and the positions after a round: only i's position has moved, by one.
Moved(n, d, i, P, J, R) ==
    /\ J \in SUBSET (1..n) /\ R \in [1..n -> Nat] /\ i \in 1..n
    /\ R[i] = P[i] + 1 /\ \A j \in 1..n : j # i => R[j] = P[j]
    /\ \A j \in 1..n : /\ R[j] >= 1
                       /\ j \in J => R[j] <= Len(d[j])
                       /\ j \notin J => R[j] = Len(d[j]) + 1

\* That is what Next and the push do.
LEMMA Advanced ==
    ASSUME NEW n \in Nat, NEW d \in [1..n -> Slice], NEW I, NEW P, NEW l, NEW b,
           Merging(n, d, I, P, l, b), NEW i \in I,
           NEW J, J = (IF P[i] < Len(d[i]) THEN I ELSE I \ {i}),
           NEW R, R = [P EXCEPT ![i] = @ + 1]
    PROVE  Moved(n, d, i, P, J, R)
<1>1. /\ I \in SUBSET (1..n) /\ P \in [1..n -> Nat] /\ i \in 1..n
      /\ \A j \in 1..n : /\ P[j] >= 1
                         /\ j \in I => P[j] <= Len(d[j])
                         /\ j \notin I => P[j] = Len(d[j]) + 1
  BY DEF Merging
<1>2. R \in [1..n -> Nat] /\ R[i] = P[i] + 1 /\ \A j \in 1..n : j # i => R[j] = P[j]
  BY <1>1
<1>3. J \in SUBSET (1..n)
  BY <1>1
<1>4. ASSUME NEW j \in 1..n
      PROVE  R[j] >= 1 /\ (j \in J => R[j] <= Len(d[j])) /\ (j \notin J => R[j] = Len(d[j]) + 1)
  <2>1. CASE j # i
    <3>1. j \in J <=> j \in I
      BY <2>1
    <3>. QED BY <1>1, <1>2, <2>1, <3>1
  <2>2. CASE j = i
    <3>1. d[i] \in Seq(Record)
      BY <1>1 DEF Slice
    <3>2. Len(d[i]) \in Nat /\ P[i] \in Nat /\ P[i] >= 1 /\ P[i] <= Len(d[i])
      BY <1>1, <3>1
    <3>3. i \in J <=> P[i] < Len(d[i])
      OBVIOUS
    <3>. QED BY <1>2, <2>2, <3>2, <3>3
  <2>. QED BY <2>1, <2>2
<1>. QED BY <1>1, <1>2, <1>3, <1>4 DEF Moved

\* What was passed before a round is passed after it.
LEMMA PassedMore ==
    ASSUME NEW n \in Nat, NEW d, NEW i, NEW P \in [1..n -> Nat], P[i] >= 1, NEW J, NEW R,
           Moved(n, d, i, P, J, R), NEW j \in 1..n, NEW q \in 1..(P[j] - 1)
    PROVE  q \in 1..(R[j] - 1)
<1>1. /\ i \in 1..n /\ P[i] \in Nat /\ P[j] \in Nat
      /\ R[i] = P[i] + 1 /\ (j # i => R[j] = P[j])
  BY DEF Moved
<1>2. CASE j = i
  BY <1>1, <1>2
<1>3. CASE j # i
  BY <1>1, <1>3
<1>. QED BY <1>2, <1>3

\* What is left to be read was left before.
LEMMA PassedLess ==
    ASSUME NEW n \in Nat, NEW d, NEW i, NEW P \in [1..n -> Nat], NEW J, NEW R,
           Moved(n, d, i, P, J, R), NEW j \in 1..n, NEW m, NEW q \in R[j]..m
    PROVE  q \in P[j]..m
<1>1. /\ i \in 1..n /\ P[i] \in Nat /\ P[j] \in Nat
      /\ R[i] = P[i] + 1 /\ (j # i => R[j] = P[j])
  BY DEF Moved
<1>2. CASE j = i
  BY <1>1, <1>2
<1>3. CASE j # i
  BY <1>1, <1>3
<1>. QED BY <1>2, <1>3

\* A round that meets the key it has just appended.
LEMMA RoundSkips ==
    ASSUME NEW n \in Nat, NEW d \in [1..n -> Slice], NEW I, NEW P, NEW l, NEW b,
           Merging(n, d, I, P, l, b), NEW i \in I, Topmost(n, d, I, P, i),
           NEW J, NEW R, Moved(n, d, i, P, J, R), NEW p, p = d[i][P[i]], l = p.key
    PROVE  b # <<>> /\ Merging(n, d, J, R, p.key, b)
<1>1. /\ J \in SUBSET (1..n) /\ R \in [1..n -> Nat] /\ i \in 1..n
      /\ R[i] = P[i] + 1 /\ \A j \in 1..n : j # i => R[j] = P[j]
      /\ \A j \in 1..n : /\ R[j] >= 1
                         /\ j \in J => R[j] <= Len(d[j])
                         /\ j \notin J => R[j] = Len(d[j]) + 1
  BY DEF Moved
<1>2. P \in [1..n -> Nat] /\ P[i] >= 1 /\ b \in Seq(Record) /\ Ascending(b)
  BY <1>1 DEF Merging
<1>3. p.key \in Nat
  BY <1>1, TopmostLeast
<1>4. b # <<>> /\ l = b[Len(b)].key
  BY <1>3, FormatAssumption DEF Merging
<1>5. p.key \in KeysOf(b)
  <2>1. Len(b) \in 1..Len(b)
    BY <1>2, <1>4, EmptySeq
  <2>. QED BY <1>2, <1>4, <2>1, KeysOfIs
<1>6. ASSUME NEW j \in 1..n, NEW q \in R[j]..Len(d[j]), NEW r \in 1..Len(b)
      PROVE  b[r].key <= d[j][q].key
  <2>1. q \in P[j]..Len(d[j])
    <3>1. PICK k : k = Len(d[j])
      OBVIOUS
    <3>2. q \in R[j]..k
      BY <3>1
    <3>3. q \in P[j]..k
      BY <1>2, <3>2, PassedLess
    <3>. QED BY <3>1, <3>3
  <2>. QED BY <2>1 DEF Merging
<1>7. ASSUME NEW j \in 1..n, NEW q \in 1..(R[j] - 1) PROVE d[j][q].key \in KeysOf(b)
  <2>1. q \in 1..(P[j] - 1) \/ (j = i /\ q = P[i])
    <3>1. P[j] \in Nat /\ R[j] = IF j = i THEN P[j] + 1 ELSE P[j]
      BY <1>1, <1>2
    <3>. QED BY <3>1
  <2>2. CASE q \in 1..(P[j] - 1)
    BY <2>2 DEF Merging
  <2>3. CASE j = i /\ q = P[i]
    BY <1>5, <2>3
  <2>. QED BY <2>1, <2>2, <2>3
<1>8. ASSUME NEW r \in 1..Len(b)
      PROVE  \E j \in 1..n : \E q \in 1..(R[j] - 1) :
                /\ b[r] = d[j][q]
                /\ \A x \in 1..n : j < x => b[r].key \notin KeysOf(d[x])
  <2>1. PICK j \in 1..n : \E q \in 1..(P[j] - 1) :
           b[r] = d[j][q] /\ \A x \in 1..n : j < x => b[r].key \notin KeysOf(d[x])
    BY DEF Merging
  <2>2. PICK q \in 1..(P[j] - 1) :
           b[r] = d[j][q] /\ \A x \in 1..n : j < x => b[r].key \notin KeysOf(d[x])
    BY <2>1
  <2>3. q \in 1..(R[j] - 1)
    BY <1>2, PassedMore
  <2>. QED BY <2>2, <2>3
<1>9. Merging(n, d, J, R, l, b)
  BY <1>1, <1>2, <1>4, <1>6, <1>7, <1>8 DEF Merging
<1>. QED BY <1>4, <1>9

\* A round that appends.
LEMMA RoundAppends ==
    ASSUME NEW n \in Nat, NEW d \in [1..n -> Slice], NEW I, NEW P, NEW l, NEW b,
           Merging(n, d, I, P, l, b), NEW i \in I, Topmost(n, d, I, P, i),
           NEW J, NEW R, Moved(n, d, i, P, J, R), NEW p, p = d[i][P[i]], l # p.key
    PROVE  /\ Appended(b, p) = Append(b, p)
           /\ Append(b, p) # <<>> /\ Merging(n, d, J, R, p.key, Append(b, p))
<1>1. /\ J \in SUBSET (1..n) /\ R \in [1..n -> Nat] /\ i \in 1..n
      /\ R[i] = P[i] + 1 /\ \A j \in 1..n : j # i => R[j] = P[j]
      /\ \A j \in 1..n : /\ R[j] >= 1
                         /\ j \in J => R[j] <= Len(d[j])
                         /\ j \notin J => R[j] = Len(d[j]) + 1
  BY DEF Moved
<1>2. P \in [1..n -> Nat] /\ P[i] >= 1 /\ b \in Seq(Record) /\ Ascending(b)
  BY <1>1 DEF Merging
<1>3. /\ d[i] \in Seq(Record) /\ P[i] \in 1..Len(d[i]) /\ P[i] \in P[i]..Len(d[i]) /\ p.key \in Nat
  <2>1. d[i] \in Seq(Record) /\ P[i] \in 1..Len(d[i]) /\ p.key \in Nat
    BY <1>1, TopmostLeast
  <2>. QED BY <2>1
<1>4. p \in Record
  BY <1>3
<1>5. Len(b) \in Nat /\ DOMAIN b = 1..Len(b) /\ \A r \in 1..Len(b) : b[r].key \in Nat
  <2>1. \A r \in 1..Len(b) : b[r] \in Record
    BY <1>2
  <2>2. \A r \in 1..Len(b) : b[r].key \in Nat
    BY <2>1, FormatAssumption DEF Record
  <2>. QED BY <1>2, <2>2
<1>6. ASSUME NEW r \in 1..Len(b) PROVE b[r].key < p.key
  <2>1. Len(b) \in 1..Len(b) /\ b # <<>>
    BY <1>2, <1>5
  <2>2. l = b[Len(b)].key
    BY <2>1 DEF Merging
  <2>3. b[r].key <= p.key /\ b[Len(b)].key <= p.key
    BY <1>1, <1>3, <2>1 DEF Merging
  <2>4. r < Len(b) => b[r].key < b[Len(b)].key
    BY <1>2, <1>5, <2>1 DEF Ascending
  <2>. QED BY <1>3, <1>5, <2>1, <2>2, <2>3, <2>4
<1>7. PICK a, m : a = Append(b, p) /\ m = Len(b) + 1
  OBVIOUS
<1>8. /\ a \in Seq(Record) /\ Len(a) = m /\ a[m] = p /\ a # <<>> /\ DOMAIN a = 1..m
      /\ \A r \in 1..Len(b) : a[r] = b[r]
  BY <1>2, <1>4, <1>5, <1>7
<1>9. ASSUME NEW r \in 1..m PROVE r \in 1..Len(b) \/ r = m
  BY <1>5, <1>7
<1>10. Ascending(a)
  <2>. SUFFICES ASSUME NEW x \in 1..m, NEW y \in 1..m, x < y PROVE a[x].key < a[y].key
    BY <1>8 DEF Ascending
  <2>1. x \in 1..Len(b)
    BY <1>5, <1>7
  <2>2. CASE y = m
    BY <1>6, <1>8, <2>1, <2>2
  <2>3. CASE y \in 1..Len(b)
    BY <1>2, <1>5, <1>8, <2>1, <2>3 DEF Ascending
  <2>. QED BY <1>9, <2>2, <2>3
<1>11. KeysOf(a) = KeysOf(b) \cup {p.key}
  <2>1. ASSUME NEW k \in KeysOf(a) PROVE k \in KeysOf(b) \cup {p.key}
    <3>1. PICK r \in 1..m : a[r].key = k
      BY <1>8, <2>1, KeysOfIs
    <3>. QED BY <1>2, <1>8, <1>9, <3>1, KeysOfIs
  <2>2. ASSUME NEW k \in KeysOf(b) PROVE k \in KeysOf(a)
    <3>1. PICK r \in 1..Len(b) : b[r].key = k
      BY <1>2, <2>2, KeysOfIs
    <3>2. r \in 1..m /\ a[r].key = k
      BY <1>5, <1>7, <1>8, <3>1
    <3>. QED BY <1>8, <3>2, KeysOfIs
  <2>3. p.key \in KeysOf(a)
    <3>1. m \in 1..m
      BY <1>5, <1>7
    <3>. QED BY <1>8, <3>1, KeysOfIs
  <2>. QED BY <2>1, <2>2, <2>3
<1>12. ASSUME NEW j \in 1..n, NEW q \in R[j]..Len(d[j]), NEW r \in 1..m
       PROVE  a[r].key <= d[j][q].key
  <2>1. q \in P[j]..Len(d[j])
    <3>1. PICK x, y, z : x = R[j] /\ y = P[j] /\ z = Len(d[j])
      OBVIOUS
    <3>2. x = y \/ x = y + 1
      BY <1>1, <3>1
    <3>3. x \in Nat /\ y \in Nat
      BY <1>1, <1>2, <3>1
    <3>4. q \in x..z
      BY <3>1
    <3>5. q \in y..z
      BY <3>2, <3>3, <3>4
    <3>. QED BY <3>1, <3>5
  <2>2. CASE r = m
    <3>1. p.key <= d[j][q].key
      BY <2>1, TopmostLeast
    <3>. QED BY <1>8, <2>2, <3>1
  <2>3. CASE r \in 1..Len(b)
    <3>1. b[r].key <= d[j][q].key
      BY <2>1, <2>3 DEF Merging
    <3>. QED BY <1>8, <2>3, <3>1
  <2>. QED BY <1>9, <2>2, <2>3
<1>13. ASSUME NEW j \in 1..n, NEW q \in 1..(R[j] - 1) PROVE d[j][q].key \in KeysOf(a)
  <2>1. q \in 1..(P[j] - 1) \/ (j = i /\ q = P[i])
    <3>1. P[j] \in Nat /\ R[j] = IF j = i THEN P[j] + 1 ELSE P[j]
      BY <1>1, <1>2
    <3>. QED BY <3>1
  <2>2. CASE q \in 1..(P[j] - 1)
    <3>1. d[j][q].key \in KeysOf(b)
      BY <2>2 DEF Merging
    <3>. QED BY <1>11, <3>1
  <2>3. CASE j = i /\ q = P[i]
    BY <1>11, <2>3
  <2>. QED BY <2>1, <2>2, <2>3
<1>14. ASSUME NEW x \in 1..n, i < x PROVE p.key \notin KeysOf(d[x])
  <2>. SUFFICES ASSUME p.key \in KeysOf(d[x]) PROVE FALSE
    OBVIOUS
  <2>1. d[x] \in Seq(Record)
    BY TopmostLeast
  <2>2. PICK q \in 1..Len(d[x]) : d[x][q].key = p.key
    BY <2>1, KeysOfIs
  <2>3. CASE q \in 1..(P[x] - 1)
    <3>1. p.key \in KeysOf(b)
      BY <2>2, <2>3 DEF Merging
    <3>2. PICK r \in 1..Len(b) : b[r].key = p.key
      BY <1>2, <3>1, KeysOfIs
    <3>. QED BY <1>3, <1>6, <3>2
  <2>4. CASE q \notin 1..(P[x] - 1)
    <3>1. q \in P[x]..Len(d[x])
      BY <1>2, <2>1, <2>4
    <3>2. p.key < d[x][q].key
      BY <1>14, <3>1, TopmostLeast
    <3>. QED BY <1>3, <2>2, <3>2
  <2>. QED BY <2>3, <2>4
<1>15. ASSUME NEW r \in 1..m
       PROVE  \E j \in 1..n : \E q \in 1..(R[j] - 1) :
                 /\ a[r] = d[j][q]
                 /\ \A x \in 1..n : j < x => a[r].key \notin KeysOf(d[x])
  <2>1. CASE r = m
    <3>1. P[i] \in 1..(R[i] - 1) /\ a[r] = d[i][P[i]]
      BY <1>1, <1>2, <1>8, <2>1
    <3>2. \A x \in 1..n : i < x => a[r].key \notin KeysOf(d[x])
      BY <1>8, <1>14, <2>1
    <3>. QED BY <1>1, <3>1, <3>2
  <2>2. CASE r \in 1..Len(b)
    <3>1. PICK j \in 1..n : \E q \in 1..(P[j] - 1) :
             b[r] = d[j][q] /\ \A x \in 1..n : j < x => b[r].key \notin KeysOf(d[x])
      BY <2>2 DEF Merging
    <3>2. PICK q \in 1..(P[j] - 1) :
             b[r] = d[j][q] /\ \A x \in 1..n : j < x => b[r].key \notin KeysOf(d[x])
      BY <3>1
    <3>3. q \in 1..(R[j] - 1)
      BY <1>2, PassedMore
    <3>. QED BY <1>8, <2>2, <3>2, <3>3
  <2>. QED BY <1>9, <2>1, <2>2
<1>16. a[Len(a)].key = p.key
  BY <1>8
<1>17. Merging(n, d, J, R, p.key, a)
  BY <1>1, <1>8, <1>10, <1>12, <1>13, <1>15, <1>16 DEF Merging
<1>18. Appended(b, p) = Append(b, p)
  <2>1. b = <<>> \/ b[Len(b)].key # p.key
    BY DEF Merging
  <2>. QED BY <2>1 DEF Appended, Last
<1>. QED BY <1>7, <1>8, <1>17, <1>18

\* The iterators doCompaction opens.
LEMMA MergeBegins ==
    ASSUME NEW n \in Nat, NEW d \in [1..n -> Slice]
    PROVE  Merging(n, d, 1..n, [i \in 1..n |-> 1], Nil, <<>>)
<1>1. ASSUME NEW i \in 1..n PROVE 1 <= Len(d[i])
  <2>1. d[i] \in Seq(Record) /\ d[i] # <<>>
    BY DEF Slice
  <2>. QED BY <2>1, EmptySeq
<1>2. <<>> \in Seq(Record) /\ Ascending(<<>>) /\ Len(<<>>) = 0
  BY DEF Ascending
<1>3. PICK P : P = [i \in 1..n |-> 1]
  OBVIOUS
<1>4. P \in [1..n -> Nat] /\ \A i \in 1..n : P[i] = 1
  BY <1>3
<1>5. Merging(n, d, 1..n, P, Nil, <<>>)
  BY <1>1, <1>2, <1>4 DEF Merging
<1>. QED BY <1>3, <1>5

\* The merged table has what the tables had.
LEMMA RecordedMerged ==
    ASSUME NEW p \in Seq(Record), NEW n \in Nat, NEW d \in [1..n -> Slice], NEW c,
           NEW P, NEW l, NEW b, Merging(n, d, {}, P, l, b), b # <<>>,
           NEW e \in [1..1 -> Slice], e[1] = b, Recorded(p, n, d, c)
    PROVE  Recorded(p, 1, e, c)
<1>1. b \in Seq(Record) /\ P \in [1..n -> Nat]
  BY DEF Merging
<1>2. ASSUME NEW i \in 1..n PROVE d[i] \in Seq(Record) /\ Len(d[i]) \in Nat /\ P[i] = Len(d[i]) + 1
  <2>1. d[i] \in Seq(Record)
    BY DEF Slice
  <2>. QED BY <2>1 DEF Merging
<1>3. ASSUME NEW i \in 1..1, NEW r \in 1..Len(e[i]), e[i][r].key \notin KeysOf(p)
      PROVE  e[i][r].val = c[e[i][r].key]
  <2>1. e[i] = b /\ r \in 1..Len(b)
    OBVIOUS
  <2>2. PICK j \in 1..n : \E q \in 1..(P[j] - 1) :
           b[r] = d[j][q] /\ \A x \in 1..n : j < x => b[r].key \notin KeysOf(d[x])
    BY <2>1 DEF Merging
  <2>3. PICK q \in 1..(P[j] - 1) :
           b[r] = d[j][q] /\ \A x \in 1..n : j < x => b[r].key \notin KeysOf(d[x])
    BY <2>2
  <2>4. q \in 1..Len(d[j])
    BY <1>2
  <2>5. d[j][q].val = c[d[j][q].key]
    <3>1. b[r].key \notin KeysOf(p)
      BY <1>3, <2>1
    <3>2. d[j][q].key \notin KeysOf(p) /\ \A x \in 1..n : j < x => d[j][q].key \notin KeysOf(d[x])
      BY <2>3, <3>1
    <3>. QED BY <2>4, <3>2 DEF Recorded
  <2>. QED BY <2>1, <2>3, <2>5
<1>4. ASSUME NEW k \in Key, k \notin KeysOf(p), \A i \in 1..1 : k \notin KeysOf(e[i])
      PROVE  c[k] = Nil
  <2>1. k \notin KeysOf(b)
    <3>1. 1 \in 1..1
      OBVIOUS
    <3>. QED BY <1>4, <3>1
  <2>2. ASSUME NEW i \in 1..n PROVE k \notin KeysOf(d[i])
    <3>. SUFFICES ASSUME k \in KeysOf(d[i]) PROVE FALSE
      OBVIOUS
    <3>1. PICK q \in 1..Len(d[i]) : d[i][q].key = k
      BY <1>2, KeysOfIs
    <3>2. q \in 1..(P[i] - 1)
      BY <1>2
    <3>3. d[i][q].key \in KeysOf(b)
      BY <3>2 DEF Merging
    <3>. QED BY <2>1, <3>1, <3>3
  <2>. QED BY <1>4, <2>1, <2>2 DEF Recorded
<1>5. \A q \in 1..Len(p) : p[q].val = c[p[q].key]
  BY DEF Recorded
<1>. QED BY <1>3, <1>4, <1>5 DEF Recorded

\* The keys of a prefix.
LEMMA KeysOfPrefix ==
    ASSUME NEW s \in Seq(Record), NEW m \in 0..Len(s), NEW k
    PROVE  k \in {p.key : p \in ToSet(SubSeq(s, 1, m))} <=> \E q \in 1..m : s[q].key = k
<1>1. Len(s) \in Nat /\ \A q \in 1..Len(s) : s[q] \in Record
  OBVIOUS
<1>2. PICK t : t = SubSeq(s, 1, m)
  OBVIOUS
<1>3. t \in Seq(Record) /\ Len(t) = m /\ \A q \in 1..m : t[q] = s[q]
  BY <1>1, <1>2
<1>4. DOMAIN t = 1..m
  BY <1>3
<1>5. k \in {p.key : p \in ToSet(t)} <=> \E q \in 1..m : s[q].key = k
  BY <1>3, <1>4 DEF ToSet
<1>. QED BY <1>2, <1>5

\* The keys of a slice, by its set of records.
LEMMA KeysToSet ==
    ASSUME NEW s
    PROVE  {p.key : p \in ToSet(s)} = KeysOf(s)
  BY DEF ToSet, KeysOf

\* The builder has exactly the keys that were passed.
LEMMA MergingKeys ==
    ASSUME NEW n \in Nat, NEW d \in [1..n -> Slice], NEW I, NEW P, NEW l, NEW b,
           Merging(n, d, I, P, l, b)
    PROVE  /\ b \in Seq(Record) /\ Ascending(b)
           /\ \A i \in 1..n : d[i] \in Seq(Record) /\ P[i] - 1 \in 0..Len(d[i])
           /\ \A k : k \in KeysOf(b) <=> \E i \in 1..n : \E q \in 1..(P[i] - 1) : d[i][q].key = k
<1>1. b \in Seq(Record) /\ Ascending(b) /\ P \in [1..n -> Nat]
  BY DEF Merging
<1>2. ASSUME NEW i \in 1..n PROVE d[i] \in Seq(Record) /\ P[i] - 1 \in 0..Len(d[i])
  <2>1. d[i] \in Seq(Record)
    BY DEF Slice
  <2>2. P[i] >= 1 /\ (P[i] <= Len(d[i]) \/ P[i] = Len(d[i]) + 1)
    BY DEF Merging
  <2>3. P[i] \in Nat /\ Len(d[i]) \in Nat
    BY <1>1, <2>1
  <2>. QED BY <2>1, <2>2, <2>3
<1>3. ASSUME NEW k \in KeysOf(b)
      PROVE  \E i \in 1..n : \E q \in 1..(P[i] - 1) : d[i][q].key = k
  <2>1. PICK r \in 1..Len(b) : b[r].key = k
    BY <1>1, <1>3, KeysOfIs
  <2>2. \E i \in 1..n : \E q \in 1..(P[i] - 1) : b[r] = d[i][q]
    BY DEF Merging
  <2>. QED BY <2>1, <2>2
<1>4. ASSUME NEW i \in 1..n, NEW q \in 1..(P[i] - 1) PROVE d[i][q].key \in KeysOf(b)
  BY DEF Merging
<1>. QED BY <1>1, <1>2, <1>3, <1>4

\* What MergeExact says of the tables ts, the positions P and the builder b.
MergedSoFar(ts, P, b) ==
    LET holds(i)  == {p.key : p \in ToSet(ts[i].data)}
        passed(i) == {p.key : p \in ToSet(SubSeq(ts[i].data, 1, P[i] - 1))}
        newest(k) == Max({i \in DOMAIN ts : k \in holds(i)})
    IN  /\ Ascending(b)
        /\ {p.key : p \in ToSet(b)} = UNION {passed(i) : i \in DOMAIN ts}
        /\ \A p \in ToSet(b) : p \in ToSet(ts[newest(p.key)].data)

\* It follows from the loop invariant.
LEMMA MergingExact ==
    ASSUME NEW ts \in Seq(Table), NEW I, NEW P, NEW l, NEW b,
           Merging(Len(ts), Data(ts), I, P, l, b)
    PROVE  MergedSoFar(ts, P, b)
<1>. DEFINE holds(i)  == {p.key : p \in ToSet(ts[i].data)}
            passed(i) == {p.key : p \in ToSet(SubSeq(ts[i].data, 1, P[i] - 1))}
            newest(k) == Max({i \in DOMAIN ts : k \in holds(i)})
<1>1. PICK n, d : n = Len(ts) /\ d = Data(ts)
  OBVIOUS
<1>2. /\ n \in Nat /\ DOMAIN ts = 1..n /\ d \in [1..n -> Slice]
      /\ \A i \in 1..n : ts[i].data = d[i]
  BY <1>1, DataIs
<1>3. Merging(n, d, I, P, l, b)
  BY <1>1
<1>4. /\ b \in Seq(Record) /\ Ascending(b)
      /\ \A k : k \in KeysOf(b) <=> \E i \in 1..n : \E q \in 1..(P[i] - 1) : d[i][q].key = k
  BY <1>2, <1>3, MergingKeys
<1>5. ASSUME NEW i \in 1..n
      PROVE  d[i] \in Seq(Record) /\ P[i] - 1 \in 0..Len(d[i]) /\ holds(i) = KeysOf(d[i])
  <2>1. d[i] \in Seq(Record) /\ P[i] - 1 \in 0..Len(d[i])
    BY <1>2, <1>3, MergingKeys
  <2>2. holds(i) = KeysOf(d[i])
    BY <1>2, KeysToSet
  <2>. QED BY <2>1, <2>2
<1>6. ASSUME NEW i \in 1..n, NEW k PROVE k \in passed(i) <=> \E q \in 1..(P[i] - 1) : d[i][q].key = k
  <2>1. passed(i) = {p.key : p \in ToSet(SubSeq(d[i], 1, P[i] - 1))}
    BY <1>2
  <2>2. PICK m, s : m = P[i] - 1 /\ s = d[i]
    OBVIOUS
  <2>3. s \in Seq(Record) /\ m \in 0..Len(s)
    BY <1>5, <2>2
  <2>4. k \in {p.key : p \in ToSet(SubSeq(s, 1, m))} <=> \E q \in 1..m : s[q].key = k
    BY <2>3, KeysOfPrefix
  <2>. QED BY <2>1, <2>2, <2>4
<1>7. {p.key : p \in ToSet(b)} = KeysOf(b)
  BY KeysToSet
<1>. HIDE DEF passed
<1>8. KeysOf(b) = UNION {passed(i) : i \in DOMAIN ts}
  <2>1. ASSUME NEW k PROVE k \in KeysOf(b) <=> \E i \in 1..n : k \in passed(i)
    BY <1>4, <1>6
  <2>. QED BY <1>2, <2>1
<1>9. ASSUME NEW p \in ToSet(b) PROVE p \in ToSet(ts[newest(p.key)].data)
  <2>1. PICK r \in 1..Len(b) : p = b[r]
    BY <1>4 DEF ToSet
  <2>2. PICK i \in 1..n : \E q \in 1..(P[i] - 1) :
           b[r] = d[i][q] /\ \A j \in 1..n : i < j => b[r].key \notin KeysOf(d[j])
    BY <1>3 DEF Merging
  <2>3. PICK q \in 1..(P[i] - 1) :
           b[r] = d[i][q] /\ \A j \in 1..n : i < j => b[r].key \notin KeysOf(d[j])
    BY <2>2
  <2>4. q \in 1..Len(d[i])
    BY <1>5
  <2>5. p.key \in KeysOf(d[i])
    BY <1>5, <2>1, <2>3, <2>4, KeysOfIs
  <2>6. PICK T : T = {j \in DOMAIN ts : p.key \in holds(j)}
    OBVIOUS
  <2>. HIDE DEF holds
  <2>7. T \in SUBSET (0..n) /\ \A j \in 1..n : j \in T <=> p.key \in KeysOf(d[j])
    BY <1>2, <1>5, <2>6
  <2>8. i \in T
    BY <2>5, <2>7
  <2>9. Max(T) \in T /\ \A y \in T : y <= Max(T)
    BY <1>2, <2>7, <2>8, MinMax
  <2>10. Max(T) \in 1..n
    BY <1>2, <2>6, <2>9
  <2>11. ~ (i < Max(T))
    BY <2>1, <2>3, <2>7, <2>9, <2>10
  <2>12. Max(T) = i
    BY <1>2, <2>8, <2>9, <2>10, <2>11
  <2>13. newest(p.key) = i
    BY <2>6, <2>12
  <2>14. p \in ToSet(d[i])
    <3>1. DOMAIN d[i] = 1..Len(d[i])
      BY <1>5
    <3>. QED BY <2>1, <2>3, <2>4, <3>1 DEF ToSet
  <2>. QED BY <1>2, <2>13, <2>14
<1>10. UNION {passed(i) : i \in DOMAIN ts}
        = UNION {{p.key : p \in ToSet(SubSeq(ts[i].data, 1, P[i] - 1))} : i \in DOMAIN ts}
  BY DEF passed
<1>. QED BY <1>4, <1>7, <1>8, <1>9, <1>10 DEF MergedSoFar

-----------------------------------------------------------------------------
(* The steps.                                                                *)

\* t is s after a write of v to k.
PutInto(s, k, v, t) ==
    /\ t \in Seq(Record) /\ Ascending(t) /\ KeysOf(t) = KeysOf(s) \cup {k}
    /\ \A q \in 1..Len(t) : \/ t[q].key = k /\ t[q].val = v
                            \/ t[q].key # k /\ \E r \in 1..Len(s) : t[q] = s[r]

\* Put of a key that is there.
LEMMA PutOverwrites ==
    ASSUME NEW s \in Seq(Record), Ascending(s), NEW k \in Key, NEW v \in Value \cup {Nil},
           NEW p, p = Position(s, k), HasAt(s, p, k)
    PROVE  \E t : /\ t = [s EXCEPT ![p].val = v] /\ PutInto(s, k, v, t) /\ Len(t) = Len(s)
                  /\ Bytes(t, Len(t)) - Bytes(s, Len(s)) = Growth(s[p].val, v)
<1>1. p \in 1..(Len(s) + 1) /\ Len(s) \in Nat
  BY PositionFinds
<1>2. p \in 1..Len(s) /\ s[p].key = k
  BY <1>1 DEF HasAt
<1>3. PICK t \in Seq(Record) :
         /\ t = [s EXCEPT ![p].val = v] /\ Len(t) = Len(s) /\ Ascending(t)
         /\ t[p] = [key |-> s[p].key, val |-> v]
         /\ \A q \in 1..Len(s) : q # p => t[q] = s[q]
         /\ Bytes(t, Len(t)) - Bytes(s, Len(s)) = Growth(s[p].val, v)
  BY <1>2, Overwritten
<1>4. t[p].key = k /\ t[p].val = v
  BY <1>2, <1>3
<1>5. ASSUME NEW q \in 1..Len(s), q # p PROVE t[q].key # k /\ t[q] = s[q]
  <2>1. t[q] = s[q]
    BY <1>3, <1>5
  <2>2. s[q].key \in Nat /\ k \in Nat /\ DOMAIN s = 1..Len(s)
    <3>1. s[q] \in Record
      OBVIOUS
    <3>2. s[q].key \in Nat /\ k \in Nat
      BY <3>1, FormatAssumption DEF Record
    <3>. QED BY <3>2
  <2>3. s[q].key # k
    BY <1>1, <1>2, <1>5, <2>2 DEF Ascending
  <2>. QED BY <2>1, <2>3
<1>6. \A q \in 1..Len(t) : \/ t[q].key = k /\ t[q].val = v
                           \/ t[q].key # k /\ \E r \in 1..Len(s) : t[q] = s[r]
  BY <1>3, <1>4, <1>5
<1>7. ASSUME NEW x PROVE x \in KeysOf(t) <=> x \in KeysOf(s) \cup {k}
  <2>1. x \in KeysOf(t) <=> \E q \in 1..Len(t) : t[q].key = x
    BY KeysOfIs
  <2>2. x \in KeysOf(s) <=> \E q \in 1..Len(s) : s[q].key = x
    BY KeysOfIs
  <2>3. \A q \in 1..Len(s) : t[q].key = s[q].key
    BY <1>2, <1>4, <1>5
  <2>. QED BY <1>2, <1>3, <2>1, <2>2, <2>3
<1>8. PutInto(s, k, v, t)
  BY <1>3, <1>6, <1>7 DEF PutInto
<1>. QED BY <1>3, <1>8

\* Put of a new key.
LEMMA PutInserts ==
    ASSUME NEW s \in Seq(Record), Ascending(s), NEW k \in Key, NEW v \in Value \cup {Nil},
           NEW p, p = Position(s, k), ~ HasAt(s, p, k)
    PROVE  \E t : /\ t = InsertAt(s, p, [key |-> k, val |-> v])
                  /\ PutInto(s, k, v, t) /\ Len(t) = Len(s) + 1
                  /\ Length(v) \in Nat /\ Bytes(t, Len(t)) - Bytes(s, Len(s)) = 9 + Length(v)
<1>1. /\ p \in 1..(Len(s) + 1) /\ Len(s) \in Nat /\ DOMAIN s = 1..Len(s)
      /\ \A q \in 1..Len(s) : q < p => s[q].key < k
      /\ \A q \in 1..Len(s) : q >= p => s[q].key >= k
      /\ \A q \in 1..Len(s) : s[q].key # k
  <2>1. Len(s) \in Nat /\ DOMAIN s = 1..Len(s)
    OBVIOUS
  <2>. QED BY <2>1, PositionFinds
<1>2. k \in Nat /\ \A q \in 1..Len(s) : s[q].key \in Nat
  <2>1. \A q \in 1..Len(s) : s[q] \in Record
    OBVIOUS
  <2>. QED BY <2>1, FormatAssumption DEF Record
<1>3. PICK e : e = [key |-> k, val |-> v]
  OBVIOUS
<1>4. e \in Record /\ e.key = k /\ e.val = v
  BY <1>3 DEF Record
<1>5. \A q \in 1..Len(s) : q >= p => s[q].key > k
  BY <1>1, <1>2
<1>6. PICK t \in Seq(Record) :
         /\ t = InsertAt(s, p, e) /\ Len(t) = Len(s) + 1 /\ Ascending(t)
         /\ t[p] = e
         /\ \A q \in 1..(p - 1) : t[q] = s[q]
         /\ \A q \in p..Len(s) : t[q + 1] = s[q]
         /\ Bytes(t, Len(t)) - Bytes(s, Len(s)) = RecordSize(e)
  BY <1>1, <1>4, <1>5, Inserted
<1>7. ASSUME NEW q \in 1..Len(t) PROVE q = p \/ \E r \in 1..Len(s) : t[q] = s[r]
  <2>1. CASE q < p
    <3>1. q \in 1..(p - 1) /\ q \in 1..Len(s)
      BY <1>1, <2>1
    <3>. QED BY <1>6, <3>1
  <2>2. CASE q > p
    <3>1. q - 1 \in p..Len(s) /\ q - 1 \in 1..Len(s) /\ (q - 1) + 1 = q
      BY <1>1, <1>6, <2>2
    <3>2. t[q] = s[q - 1]
      BY <1>6, <3>1
    <3>. QED BY <3>1, <3>2
  <2>. QED BY <1>1, <1>6, <2>1, <2>2
<1>8. ASSUME NEW q \in 1..Len(t) PROVE \/ t[q].key = k /\ t[q].val = v
                                       \/ t[q].key # k /\ \E r \in 1..Len(s) : t[q] = s[r]
  <2>1. CASE q = p
    BY <1>4, <1>6, <2>1
  <2>2. CASE q # p
    <3>1. PICK r \in 1..Len(s) : t[q] = s[r]
      BY <1>7, <2>2
    <3>. QED BY <1>1, <3>1
  <2>. QED BY <2>1, <2>2
<1>9. ASSUME NEW r \in 1..Len(s) PROVE \E q \in 1..Len(t) : t[q] = s[r]
  <2>1. CASE r < p
    <3>1. r \in 1..(p - 1) /\ r \in 1..Len(t)
      BY <1>1, <1>6, <2>1
    <3>. QED BY <1>6, <3>1
  <2>2. CASE r >= p
    <3>1. r \in p..Len(s) /\ r + 1 \in 1..Len(t)
      BY <1>1, <1>6, <2>2
    <3>. QED BY <1>6, <3>1
  <2>. QED BY <1>1, <2>1, <2>2
<1>10. p \in 1..Len(t) /\ t[p].key = k
  BY <1>1, <1>4, <1>6
<1>11. ASSUME NEW x PROVE x \in KeysOf(t) <=> x \in KeysOf(s) \cup {k}
  <2>1. x \in KeysOf(t) <=> \E q \in 1..Len(t) : t[q].key = x
    BY KeysOfIs
  <2>2. x \in KeysOf(s) <=> \E q \in 1..Len(s) : s[q].key = x
    BY KeysOfIs
  <2>3. ASSUME NEW q \in 1..Len(t), t[q].key = x PROVE x = k \/ \E r \in 1..Len(s) : s[r].key = x
    BY <1>8, <2>3
  <2>4. ASSUME NEW r \in 1..Len(s), s[r].key = x PROVE \E q \in 1..Len(t) : t[q].key = x
    BY <1>9, <2>4
  <2>. QED BY <1>10, <2>1, <2>2, <2>3, <2>4
<1>12. PutInto(s, k, v, t)
  BY <1>6, <1>8, <1>11 DEF PutInto
<1>13. Length(v) \in Nat /\ RecordSize(e) = 9 + Length(v)
  BY <1>4, RecordSizes
<1>. QED BY <1>3, <1>6, <1>12, <1>13

-----------------------------------------------------------------------------
(* The inductive invariant.                                                  *)

\* The slice of the memtable and its size.
MemOK == pairs \in Seq(Record) /\ MemTableExact

\* Every table was written from a sorted slice.
TablesOK == tables \in Seq(Table)

\* Memtable and tables record the contents.
ContentsOK ==
    /\ contents \in [Key -> Value \cup {Nil}]
    /\ Recorded(pairs, Len(tables), Data(tables), contents)

\* A merge is in a round of its loop, or there is none.
MergeOK ==
    \/ merge = NoMerge
    \/ \E I, P, l, b : /\ I # {} /\ merge = [iters |-> I, pos |-> P, lastKey |-> l, built |-> b]
                       /\ Merging(Len(tables), Data(tables), I, P, l, b)

IInv == writes \in 0..MaxWrites /\ MemOK /\ TablesOK /\ ContentsOK /\ MergeOK

\* No merge is under way when the heap is empty.
LEMMA NotMerging ==
    ASSUME MergeOK, merge.iters = {}
    PROVE  merge = NoMerge
  BY DEF MergeOK

\* A new store.
LEMMA InitOK == Init => IInv
<1>. SUFFICES ASSUME Init PROVE IInv
  OBVIOUS
<1>1. pairs = <<>> /\ size = 0 /\ tables = <<>> /\ merge = NoMerge /\ writes = 0
  BY DEF Init
<1>2. contents = [k \in Key |-> Nil]
  BY DEF Init
<1>3. writes \in 0..MaxWrites
  BY <1>1, FormatAssumption
<1>4. MemOK
  <2>1. <<>> \in Seq(Record) /\ Len(<<>>) = 0 /\ Ascending(<<>>)
    BY DEF Ascending
  <2>2. Bytes(<<>>, 0) = 0
    BY <2>1, BytesDef
  <2>. QED BY <1>1, <2>1, <2>2 DEF MemOK, MemTableExact
<1>5. TablesOK
  BY <1>1 DEF TablesOK
<1>6. ContentsOK
  <2>1. contents \in [Key -> Value \cup {Nil}] /\ \A k \in Key : contents[k] = Nil
    BY <1>2
  <2>2. Len(<<>>) = 0
    OBVIOUS
  <2>. QED BY <1>1, <2>1, <2>2 DEF ContentsOK, Recorded
<1>7. MergeOK
  BY <1>1 DEF MergeOK
<1>. QED BY <1>3, <1>4, <1>5, <1>6, <1>7 DEF IInv

\* MemTable.Put: whichever branch it takes.
LEMMA PutOK ==
    ASSUME IInv, NEW k \in Key, NEW v \in Value \cup {Nil}, Put(k, v)
    PROVE  IInv'
<1>1. pairs \in Seq(Record) /\ Ascending(pairs) /\ size = Bytes(pairs, Len(pairs)) - 8 * Len(pairs)
  BY DEF IInv, MemOK, MemTableExact
<1>2. merge' = merge /\ tables' = tables /\ writes' = writes + 1 /\ writes < MaxWrites
      /\ contents' = [contents EXCEPT ![k] = v]
  BY DEF Put
<1>3. PICK p : p = Position(pairs, k)
  OBVIOUS
<1>4. Len(pairs) \in Nat /\ Bytes(pairs, Len(pairs)) \in Nat
  <2>1. Len(pairs) \in Nat
    BY <1>1
  <2>. QED BY <1>1, <2>1, BytesDef
<1>5. PICK t : /\ t = pairs' /\ PutInto(pairs, k, v, t)
               /\ size' = Bytes(t, Len(t)) - 8 * Len(t)
  <2>1. CASE HasAt(pairs, p, k)
    <3>1. PICK t : /\ t = [pairs EXCEPT ![p].val = v] /\ PutInto(pairs, k, v, t) /\ Len(t) = Len(pairs)
                   /\ Bytes(t, Len(t)) - Bytes(pairs, Len(pairs)) = Growth(pairs[p].val, v)
      BY <1>1, <1>3, <2>1, PutOverwrites
    <3>2. pairs' = t /\ size' = size + Growth(pairs[p].val, v)
      BY <1>3, <2>1, <3>1 DEF Put
    <3>3. Bytes(t, Len(t)) \in Nat
      <4>1. t \in Seq(Record)
        BY <3>1 DEF PutInto
      <4>2. Len(t) \in 0..Len(t)
        BY <4>1
      <4>. QED BY <4>1, <4>2, BytesDef
    <3>4. size' = Bytes(t, Len(t)) - 8 * Len(t)
      <4>1. PICK x, y, z, w : /\ x = Bytes(pairs, Len(pairs)) /\ y = Bytes(t, Len(t))
                              /\ z = Len(pairs) /\ w = Len(t)
        OBVIOUS
      <4>2. x \in Nat /\ y \in Nat /\ z \in Nat
        BY <1>4, <3>3, <4>1
      <4>3. size = x - 8 * z
        BY <1>1, <4>1
      <4>4. w = z /\ y - x = Growth(pairs[p].val, v)
        BY <3>1, <4>1
      <4>5. size' = size + Growth(pairs[p].val, v)
        BY <3>2
      <4>6. size' = y - 8 * w
        BY <4>2, <4>3, <4>4, <4>5
      <4>. QED BY <4>1, <4>6
    <3>. QED BY <3>1, <3>2, <3>4
  <2>2. CASE ~ HasAt(pairs, p, k)
    <3>1. PICK t : /\ t = InsertAt(pairs, p, [key |-> k, val |-> v])
                   /\ PutInto(pairs, k, v, t) /\ Len(t) = Len(pairs) + 1 /\ Length(v) \in Nat
                   /\ Bytes(t, Len(t)) - Bytes(pairs, Len(pairs)) = 9 + Length(v)
      BY <1>1, <1>3, <2>2, PutInserts
    <3>2. pairs' = t /\ size' = size + 1 + Length(v)
      BY <1>3, <2>2, <3>1 DEF Put, KeyLength
    <3>3. Bytes(t, Len(t)) \in Nat
      <4>1. t \in Seq(Record)
        BY <3>1 DEF PutInto
      <4>2. Len(t) \in 0..Len(t)
        BY <4>1
      <4>. QED BY <4>1, <4>2, BytesDef
    <3>4. size' = Bytes(t, Len(t)) - 8 * Len(t)
      <4>1. PICK x, y, z, w : /\ x = Bytes(pairs, Len(pairs)) /\ y = Bytes(t, Len(t))
                              /\ z = Len(pairs) /\ w = Len(t)
        OBVIOUS
      <4>2. x \in Nat /\ y \in Nat /\ z \in Nat
        BY <1>4, <3>3, <4>1
      <4>3. size = x - 8 * z
        BY <1>1, <4>1
      <4>4. w = z + 1 /\ y - x = 9 + Length(v) /\ Length(v) \in Nat
        BY <3>1, <4>1
      <4>5. size' = size + 1 + Length(v)
        BY <3>2
      <4>6. size' = y - 8 * w
        BY <4>2, <4>3, <4>4, <4>5
      <4>. QED BY <4>1, <4>6
    <3>. QED BY <3>1, <3>2, <3>4
  <2>. QED BY <2>1, <2>2
<1>6. MemOK'
  BY <1>5 DEF MemOK, MemTableExact, PutInto
<1>7. ContentsOK'
  <2>1. PICK c, e, ts, V : c = contents /\ e = [c EXCEPT ![k] = v] /\ ts = tables /\ V = Value \cup {Nil}
    OBVIOUS
  <2>2. c \in [Key -> V] /\ ts \in Seq(Table) /\ Recorded(pairs, Len(ts), Data(ts), c) /\ v \in V
    BY <2>1 DEF IInv, ContentsOK, TablesOK
  <2>3. Len(ts) \in Nat /\ Data(ts) \in [1..Len(ts) -> Slice]
    BY <2>2, DataIs
  <2>4. Recorded(t, Len(ts), Data(ts), e)
    <3>1. PICK s, n, d : s = pairs /\ n = Len(ts) /\ d = Data(ts)
      OBVIOUS
    <3>2. Recorded(t, n, d, [c EXCEPT ![k] = v])
      BY <1>1, <1>5, <2>2, <2>3, <3>1, RecordedPut DEF PutInto
    <3>. QED BY <2>1, <3>1, <3>2
  <2>5. e \in [Key -> Value \cup {Nil}]
    BY <2>1, <2>2
  <2>6. contents' = e /\ tables' = ts /\ pairs' = t
    BY <1>2, <1>5, <2>1
  <2>. QED BY <2>4, <2>5, <2>6 DEF ContentsOK
<1>8. MergeOK' /\ TablesOK'
  BY <1>2 DEF IInv, MergeOK, TablesOK, NoMerge
<1>9. writes' \in 0..MaxWrites
  BY <1>2, FormatAssumption DEF IInv
<1>. QED BY <1>6, <1>7, <1>8, <1>9 DEF IInv

\* flush: the slice becomes a table and a new memtable takes its place.
LEMMA FlushOK ==
    ASSUME IInv, Flush
    PROVE  IInv'
<1>1. /\ pairs # <<>> /\ tables' = Append(tables, Written(pairs)) /\ pairs' = <<>> /\ size' = 0
      /\ merge' = merge /\ writes' = writes /\ contents' = contents /\ merge.iters = {}
  BY DEF Flush
<1>2. PICK p, ts, c : p = pairs /\ ts = tables /\ c = contents
  OBVIOUS
<1>3. /\ p \in Seq(Record) /\ p # <<>> /\ Ascending(p) /\ ts \in Seq(Table)
      /\ Recorded(p, Len(ts), Data(ts), c)
  BY <1>1, <1>2 DEF IInv, MemOK, MemTableExact, TablesOK, ContentsOK
<1>4. p \in Slice /\ Written(p) \in Table
  BY <1>3 DEF Slice, Table
<1>5. PICK us, w : w = Written(p) /\ us = Append(ts, w)
  OBVIOUS
<1>6. PICK n, d, e : n = Len(ts) /\ d = Data(ts) /\ e = Data(us)
  OBVIOUS
<1>7. n \in Nat /\ d \in [1..n -> Slice] /\ \A i \in 1..n : ts[i].data = d[i]
  BY <1>3, <1>6, DataIs
<1>8. /\ us \in Seq(Table) /\ Len(us) = n + 1 /\ us[n + 1] = w /\ \A i \in 1..n : us[i] = ts[i]
  BY <1>3, <1>4, <1>5, <1>6
<1>9. e \in [1..(n + 1) -> Slice] /\ \A i \in 1..(n + 1) : e[i] = us[i].data
  BY <1>6, <1>8, DataIs
<1>10. \A i \in 1..n : e[i] = d[i]
  BY <1>7, <1>8, <1>9
<1>11. e[n + 1] = p
  <2>1. w.data = p
    BY <1>3, <1>5, WrittenFields
  <2>2. n + 1 \in 1..(n + 1)
    BY <1>7
  <2>. QED BY <1>8, <1>9, <2>1, <2>2
<1>12. Recorded(<<>>, n + 1, e, c)
  <2>1. Recorded(p, n, d, c)
    BY <1>3, <1>6
  <2>. QED BY <1>3, <1>7, <1>9, <1>10, <1>11, <2>1, RecordedFlush
<1>13. tables' = us /\ contents' = c /\ pairs' = <<>>
  BY <1>1, <1>2, <1>5
<1>14. ContentsOK'
  <2>1. Recorded(<<>>, Len(us), Data(us), c)
    BY <1>6, <1>8, <1>12
  <2>2. c \in [Key -> Value \cup {Nil}]
    BY <1>2 DEF IInv, ContentsOK
  <2>. QED BY <1>13, <2>1, <2>2 DEF ContentsOK
<1>15. TablesOK'
  BY <1>8, <1>13 DEF TablesOK
<1>16. MemOK'
  <2>1. <<>> \in Seq(Record) /\ Len(<<>>) = 0 /\ Ascending(<<>>)
    BY DEF Ascending
  <2>2. Bytes(<<>>, 0) = 0
    BY <2>1, BytesDef
  <2>. QED BY <1>1, <2>1, <2>2 DEF MemOK, MemTableExact
<1>17. MergeOK'
  <2>1. merge = NoMerge
    BY <1>1, NotMerging DEF IInv
  <2>. QED BY <1>1, <2>1 DEF MergeOK, NoMerge
<1>. QED BY <1>1, <1>14, <1>15, <1>16, <1>17 DEF IInv

\* doCompaction opens its iterators.
LEMMA MergeBeginOK ==
    ASSUME IInv, MergeBegin
    PROVE  IInv'
<1>1. /\ merge.iters = {} /\ Len(tables) >= CompactionThreshold
      /\ merge' = [NoMerge EXCEPT !.iters = DOMAIN tables, !.pos = [i \in DOMAIN tables |-> 1]]
      /\ UNCHANGED <<pairs, size, tables, writes, contents>>
  BY DEF MergeBegin
<1>2. PICK n, d : n = Len(tables) /\ d = Data(tables)
  OBVIOUS
<1>3. n \in Nat /\ DOMAIN tables = 1..n /\ d \in [1..n -> Slice]
  BY <1>2, DataIs DEF IInv, TablesOK
<1>4. PICK I, P : I = 1..n /\ P = [i \in 1..n |-> 1]
  OBVIOUS
<1>5. merge' = [iters |-> I, pos |-> P, lastKey |-> Nil, built |-> <<>>]
  BY <1>1, <1>3, <1>4 DEF NoMerge
<1>6. Merging(n, d, I, P, Nil, <<>>)
  BY <1>3, <1>4, MergeBegins
<1>7. I # {}
  <2>1. n >= 1
    BY <1>1, <1>2, <1>3, FormatAssumption
  <2>. QED BY <1>3, <1>4, <2>1
<1>8. Len(tables') = n /\ Data(tables') = d
  BY <1>1, <1>2
<1>9. MergeOK'
  <2>1. Merging(Len(tables'), Data(tables'), I, P, Nil, <<>>)
    BY <1>6, <1>8
  <2>. QED BY <1>5, <1>7, <2>1 DEF MergeOK
<1>10. (writes \in 0..MaxWrites /\ MemOK /\ TablesOK /\ ContentsOK)'
  BY <1>1 DEF IInv, MemOK, MemTableExact, TablesOK, ContentsOK
<1>. QED BY <1>9, <1>10 DEF IInv

\* NewDB finds the tables as they were written.
LEMMA ReopenOK ==
    ASSUME IInv, Reopen
    PROVE  IInv'
<1>1. /\ tables' = [i \in DOMAIN tables |-> Loaded(tables[i])]
      /\ UNCHANGED <<pairs, size, merge, writes, contents>>
  BY DEF Reopen
<1>2. PICK ts : ts = tables
  OBVIOUS
<1>3. ts \in Seq(Table)
  BY <1>2 DEF IInv, TablesOK
<1>4. ASSUME NEW i \in DOMAIN ts PROVE Loaded(ts[i]) = ts[i]
  <2>1. ts[i] \in Table
    BY <1>3
  <2>2. PICK s, t : t = ts[i] /\ s = t.data
    OBVIOUS
  <2>3. s \in Seq(Record) /\ s # <<>> /\ t = Written(s)
    BY <2>1, <2>2, TableIs
  <2>4. Loaded(t) = t
    BY <2>3, LoadedIsWritten
  <2>. QED BY <2>2, <2>4
<1>5. [i \in DOMAIN ts |-> Loaded(ts[i])] = ts
  BY <1>3, <1>4
<1>6. tables' = tables
  BY <1>1, <1>2, <1>5
<1>. QED BY <1>1, <1>6 DEF IInv, MemOK, MemTableExact, TablesOK, ContentsOK, MergeOK, NoMerge

\* A round of doMerge that pops iterator i: the popped record p, the heap J and the
\* positions R after it, and the builder a.
Round(I, P, l, b, s, i, J, R, p, a) ==
    /\ p = s[P[i]]
    /\ J = (IF P[i] < Len(s) THEN I ELSE I \ {i})
    /\ R = [P EXCEPT ![i] = @ + 1]
    /\ a = (IF l = p.key THEN b ELSE Appended(b, p))

\* A round keeps the loop invariant, whether or not it appends.
LEMMA MergeRound ==
    ASSUME NEW n \in Nat, NEW d \in [1..n -> Slice], NEW I, NEW P, NEW l, NEW b,
           Merging(n, d, I, P, l, b), NEW i \in I, Topmost(n, d, I, P, i)
    PROVE  \E J, R, p, a : /\ Round(I, P, l, b, d[i], i, J, R, p, a)
                           /\ a # <<>> /\ Merging(n, d, J, R, p.key, a)
<1>1. PICK J : J = (IF P[i] < Len(d[i]) THEN I ELSE I \ {i})
  OBVIOUS
<1>2. PICK R : R = [P EXCEPT ![i] = @ + 1]
  OBVIOUS
<1>3. PICK p : p = d[i][P[i]]
  OBVIOUS
<1>4. Moved(n, d, i, P, J, R)
  BY <1>1, <1>2, Advanced
<1>5. CASE l = p.key
  <2>1. b # <<>> /\ Merging(n, d, J, R, p.key, b)
    BY <1>3, <1>4, <1>5, RoundSkips
  <2>2. Round(I, P, l, b, d[i], i, J, R, p, b)
    BY <1>1, <1>2, <1>3, <1>5 DEF Round
  <2>. QED BY <2>1, <2>2
<1>6. CASE l # p.key
  <2>1. PICK a : a = Append(b, p)
    OBVIOUS
  <2>2. Appended(b, p) = a /\ a # <<>> /\ Merging(n, d, J, R, p.key, a)
    BY <1>3, <1>4, <1>6, <2>1, RoundAppends
  <2>3. Round(I, P, l, b, d[i], i, J, R, p, a)
    BY <1>1, <1>2, <1>3, <1>6, <2>2 DEF Round
  <2>. QED BY <2>2, <2>3
<1>. QED BY <1>5, <1>6

\* The state x of doMerge after a round, as MergeStep makes it.
AfterRound(x, i, J, k, a) == [x EXCEPT !.pos[i] = @ + 1, !.iters = J, !.built = a, !.lastKey = k]

\* It is the record of its four parts.
LEMMA RoundRecord ==
    ASSUME NEW I, NEW P, NEW l, NEW b, NEW i, NEW J, NEW k, NEW a, NEW R,
           NEW x, x = [iters |-> I, pos |-> P, lastKey |-> l, built |-> b],
           R = [P EXCEPT ![i] = @ + 1]
    PROVE  AfterRound(x, i, J, k, a) = [iters |-> J, pos |-> R, lastKey |-> k, built |-> a]
<1>2. PICK y : y = [x EXCEPT !.pos = R]
  OBVIOUS
<1>3. PICK z : z = [y EXCEPT !.iters = J]
  OBVIOUS
<1>4. PICK w : w = [z EXCEPT !.built = a]
  OBVIOUS
<1>5. PICK v : v = [w EXCEPT !.lastKey = k]
  OBVIOUS
<1>6. v = [x EXCEPT !.pos = R, !.iters = J, !.built = a, !.lastKey = k]
  BY <1>2, <1>3, <1>4, <1>5
<1>7. y = [iters |-> I, pos |-> R, lastKey |-> l, built |-> b]
  BY <1>2
<1>8. z = [iters |-> J, pos |-> R, lastKey |-> l, built |-> b]
  BY <1>3, <1>7
<1>9. w = [iters |-> J, pos |-> R, lastKey |-> l, built |-> a]
  BY <1>4, <1>8
<1>10. v = [iters |-> J, pos |-> R, lastKey |-> k, built |-> a]
  BY <1>5, <1>9
<1>11. x.pos = P
  OBVIOUS
<1>12. [x EXCEPT !.pos[i] = @ + 1, !.iters = J, !.built = a, !.lastKey = k]
        = [x EXCEPT !.pos = [x.pos EXCEPT ![i] = @ + 1], !.iters = J, !.built = a, !.lastKey = k]
  OBVIOUS
<1>13. [x EXCEPT !.pos[i] = @ + 1, !.iters = J, !.built = a, !.lastKey = k] = v
  BY <1>6, <1>11, <1>12
<1>. QED BY <1>10, <1>13 DEF AfterRound

\* doMerge: a round, and the installation after the last.
LEMMA MergeStepOK ==
    ASSUME IInv, MergeStep
    PROVE  IInv'
<1>1. PICK i \in merge.iters :
        /\ \A j \in merge.iters \ {i} : Less(i, j)
        /\ LET p    == Current(i)
               more == merge.pos[i] < Len(Scan(tables[i]))
               m    == [merge EXCEPT
                          !.pos[i]  = @ + 1,
                          !.iters   = IF more THEN @ ELSE @ \ {i},
                          !.built   = IF merge.lastKey = p.key THEN @ ELSE Appended(@, p),
                          !.lastKey = p.key]
           IN  /\ tables' = Installed(m).tables
               /\ merge' = Installed(m).merge
        /\ UNCHANGED <<pairs, size, writes, contents>>
  BY DEF MergeStep
<1>2. merge # NoMerge
  BY <1>1 DEF NoMerge
<1>3. PICK I, P, l, b : /\ I # {} /\ merge = [iters |-> I, pos |-> P, lastKey |-> l, built |-> b]
                        /\ Merging(Len(tables), Data(tables), I, P, l, b)
  BY <1>2 DEF IInv, MergeOK
<1>4. PICK ts, n, d : ts = tables /\ n = Len(ts) /\ d = Data(ts)
  OBVIOUS
<1>5. ts \in Seq(Table) /\ Merging(n, d, I, P, l, b)
  BY <1>3, <1>4 DEF IInv, TablesOK
<1>6. /\ n \in Nat /\ d \in [1..n -> Slice] /\ I \in SUBSET (1..n) /\ P \in [1..n -> Nat]
      /\ \A j \in 1..n : ts[j] \in Table /\ ts[j].data = d[j]
  <2>1. /\ n \in Nat /\ d \in [1..n -> Slice]
        /\ \A j \in 1..n : ts[j] \in Table /\ ts[j].data = d[j]
    BY <1>4, <1>5, DataIs
  <2>2. I \in SUBSET (1..n) /\ P \in [1..n -> Nat]
    BY <1>5 DEF Merging
  <2>. QED BY <2>1, <2>2
<1>7. ASSUME NEW j \in 1..n PROVE Scan(ts[j]) = d[j]
  <2>1. PICK t, s : t = ts[j] /\ s = d[j]
    OBVIOUS
  <2>2. s \in Seq(Record) /\ s # <<>> /\ t.data = s /\ t.index = IndexOf(s)
    BY <1>6, <2>1, TableIs
  <2>3. Scan(t) = s
    BY <2>2, ScanIs
  <2>. QED BY <2>1, <2>3
<1>8. merge.iters = I /\ merge.pos = P /\ merge.lastKey = l /\ merge.built = b
  BY <1>3
<1>9. i \in I /\ i \in 1..n
  BY <1>1, <1>6, <1>8
<1>10. ASSUME NEW j \in I PROVE Current(j) = d[j][P[j]]
  <2>1. j \in 1..n
    BY <1>6
  <2>. QED BY <1>4, <1>7, <1>8, <2>1 DEF Current
<1>11. Topmost(n, d, I, P, i)
  <2>1. ASSUME NEW j \in I \ {i}
        PROVE  \/ d[i][P[i]].key < d[j][P[j]].key
               \/ d[i][P[i]].key = d[j][P[j]].key /\ i > j
    <3>1. Less(i, j)
      BY <1>1, <1>8, <2>1
    <3>2. Current(i) = d[i][P[i]] /\ Current(j) = d[j][P[j]]
      BY <1>9, <1>10, <2>1
    <3>. QED BY <3>1, <3>2 DEF Less
  <2>. QED BY <2>1 DEF Topmost
<1>12. PICK J, R, p, a : /\ Round(I, P, l, b, d[i], i, J, R, p, a)
                         /\ a # <<>> /\ Merging(n, d, J, R, p.key, a)
  BY <1>5, <1>6, <1>9, <1>11, MergeRound
<1>13. /\ p = d[i][P[i]] /\ J = (IF P[i] < Len(d[i]) THEN I ELSE I \ {i})
       /\ R = [P EXCEPT ![i] = @ + 1] /\ a = (IF l = p.key THEN b ELSE Appended(b, p))
  BY <1>12 DEF Round
<1>14. a # <<>> /\ Merging(n, d, J, R, p.key, a)
  BY <1>12
<1>15. PICK m : m = [iters |-> J, pos |-> R, lastKey |-> p.key, built |-> a]
  OBVIOUS
<1>16. tables' = Installed(m).tables /\ merge' = Installed(m).merge
  <2>1. Current(i) = p
    BY <1>9, <1>10, <1>13
  <2>2. Len(Scan(tables[i])) = Len(d[i])
    BY <1>4, <1>7, <1>9
  <2>3. m = [merge EXCEPT
               !.pos[i]  = @ + 1,
               !.iters   = IF merge.pos[i] < Len(Scan(tables[i])) THEN @ ELSE @ \ {i},
               !.built   = IF merge.lastKey = Current(i).key THEN @ ELSE Appended(@, Current(i)),
               !.lastKey = Current(i).key]
    <3>1. /\ (IF merge.pos[i] < Len(Scan(tables[i])) THEN merge.iters ELSE merge.iters \ {i}) = J
          /\ (IF merge.lastKey = Current(i).key THEN merge.built ELSE Appended(merge.built, Current(i))) = a
      BY <1>8, <1>13, <2>1, <2>2
    <3>2. PICK k : k = Current(i).key
      OBVIOUS
    <3>3. m = [merge EXCEPT !.pos[i] = @ + 1, !.iters = J, !.built = a, !.lastKey = k]
      <4>1. PICK x : x = merge
        OBVIOUS
      <4>2. x = [iters |-> I, pos |-> P, lastKey |-> l, built |-> b]
        BY <1>3, <4>1
      <4>3. m = AfterRound(x, i, J, k, a)
        <5>1. R = [P EXCEPT ![i] = @ + 1] /\ k = p.key
          BY <1>13, <2>1, <3>2
        <5>2. AfterRound(x, i, J, k, a) = [iters |-> J, pos |-> R, lastKey |-> k, built |-> a]
          BY <4>2, <5>1, RoundRecord
        <5>. QED BY <1>15, <5>1, <5>2
      <4>. QED BY <4>1, <4>3 DEF AfterRound
    <3>. QED BY <3>1, <3>2, <3>3
  <2>. QED BY <1>1, <2>3
<1>17. pairs' = pairs /\ size' = size /\ writes' = writes /\ contents' = contents
  BY <1>1
<1>18. CASE J # {}
  <2>1. tables' = tables /\ merge' = m
    BY <1>15, <1>16, <1>18 DEF Installed
  <2>2. Len(tables') = n /\ Data(tables') = d
    BY <1>4, <2>1
  <2>3. MergeOK'
    <3>1. Merging(Len(tables'), Data(tables'), J, R, p.key, a)
      BY <1>14, <2>2
    <3>. QED BY <1>15, <1>18, <2>1, <3>1 DEF MergeOK
  <2>4. (writes \in 0..MaxWrites /\ MemOK /\ TablesOK /\ ContentsOK)'
    BY <1>17, <2>1 DEF IInv, MemOK, MemTableExact, TablesOK, ContentsOK
  <2>. QED BY <2>3, <2>4 DEF IInv
<1>19. CASE J = {}
  <2>1. PICK w, us : w = Written(a) /\ us = <<w>>
    OBVIOUS
  <2>2. tables' = us /\ merge' = NoMerge
    BY <1>15, <1>16, <1>19, <2>1 DEF Installed
  <2>3. a \in Slice
    BY <1>14 DEF Merging, Slice
  <2>4. w \in Table /\ w.data = a
    <3>1. a \in Seq(Record) /\ a # <<>>
      BY <2>3 DEF Slice
    <3>. QED BY <2>1, <2>3, <3>1, WrittenFields DEF Table
  <2>5. us \in Seq(Table) /\ Len(us) = 1 /\ us[1] = w
    BY <2>1, <2>4
  <2>6. PICK e : e = Data(us)
    OBVIOUS
  <2>7. e \in [1..1 -> Slice] /\ e[1] = a
    <3>1. e \in [1..Len(us) -> Slice] /\ \A j \in 1..Len(us) : us[j].data = e[j]
      BY <2>5, <2>6, DataIs
    <3>. QED BY <2>4, <2>5, <3>1
  <2>8. PICK s, c : s = pairs /\ c = contents
    OBVIOUS
  <2>9. s \in Seq(Record) /\ Recorded(s, n, d, c) /\ c \in [Key -> Value \cup {Nil}]
    BY <1>4, <2>8 DEF IInv, MemOK, ContentsOK
  <2>10. Recorded(s, 1, e, c)
    <3>1. Merging(n, d, {}, R, p.key, a)
      BY <1>14, <1>19
    <3>. QED BY <1>6, <1>14, <2>7, <2>9, <3>1, RecordedMerged
  <2>11. ContentsOK'
    <3>1. Recorded(s, Len(us), Data(us), c)
      BY <2>5, <2>6, <2>10
    <3>2. contents' = c /\ pairs' = s
      BY <1>17, <2>8
    <3>. QED BY <2>2, <2>9, <3>1, <3>2 DEF ContentsOK
  <2>12. TablesOK'
    BY <2>2, <2>5 DEF TablesOK
  <2>13. MergeOK'
    BY <2>2 DEF MergeOK, NoMerge
  <2>14. (writes \in 0..MaxWrites /\ MemOK)'
    BY <1>17 DEF IInv, MemOK, MemTableExact
  <2>. QED BY <2>11, <2>12, <2>13, <2>14 DEF IInv
<1>. QED BY <1>18, <1>19

\* Every step keeps the inductive invariant.
LEMMA NextOK == IInv /\ [Next]_vars => IInv'
<1>. SUFFICES ASSUME IInv, [Next]_vars PROVE IInv'
  OBVIOUS
<1>1. ASSUME NEW k \in Key, NEW v \in Value \cup {Nil}, Put(k, v) PROVE IInv'
  BY <1>1, PutOK
<1>2. CASE Flush
  BY <1>2, FlushOK
<1>3. CASE MergeBegin
  BY <1>3, MergeBeginOK
<1>4. CASE MergeStep
  BY <1>4, MergeStepOK
<1>5. CASE Reopen
  BY <1>5, ReopenOK
<1>6. CASE UNCHANGED vars
  <2>1. UNCHANGED <<pairs, size, tables, merge, writes, contents>>
    BY <1>6 DEF vars
  <2>. QED BY <2>1 DEF IInv, MemOK, MemTableExact, TablesOK, ContentsOK, MergeOK, NoMerge
<1>. QED BY <1>1, <1>2, <1>3, <1>4, <1>5, <1>6 DEF Next

-----------------------------------------------------------------------------
(* What the inductive invariant says of the store.                           *)

\* MemTable.Get returns the value of the record that has the key, if one has.
LEMMA MemGetIs ==
    ASSUME pairs \in Seq(Record), Ascending(pairs), NEW k \in Key
    PROVE  MemGet(k) = ValOf(pairs, k)
<1>1. PICK s, i : s = pairs /\ i = Position(s, k)
  OBVIOUS
<1>2. s \in Seq(Record) /\ Ascending(s)
  BY <1>1
<1>3. Len(s) \in Nat /\ DOMAIN s = 1..Len(s)
  BY <1>2
<1>4. i \in 1..(Len(s) + 1) /\ (HasAt(s, i, k) <=> \E q \in 1..Len(s) : s[q].key = k)
  BY <1>1, <1>2, <1>3, PositionFinds
<1>5. MemGet(k) = IF HasAt(s, i, k) THEN {s[i].val} ELSE {}
  BY <1>1 DEF MemGet
<1>6. CASE HasAt(s, i, k)
  <2>1. i \in 1..Len(s) /\ s[i].key = k
    BY <1>3, <1>4, <1>6 DEF HasAt
  <2>2. ValOf(s, k) = {s[i].val}
    BY <1>2, <2>1, ValOfIs
  <2>. QED BY <1>1, <1>5, <1>6, <2>2
<1>7. CASE ~ HasAt(s, i, k)
  <2>1. ValOf(s, k) = {}
    BY <1>2, <1>4, <1>7, ValOfIs
  <2>. QED BY <1>1, <1>5, <1>7, <2>1
<1>. QED BY <1>6, <1>7

\* A slice has one value for a key it has, the record's, and none for another.
LEMMA ValOfRecorded ==
    ASSUME NEW s \in Seq(Record), Ascending(s), NEW k
    PROVE  /\ k \in KeysOf(s) => \E q \in 1..Len(s) : s[q].key = k /\ ValOf(s, k) = {s[q].val}
           /\ k \notin KeysOf(s) => ValOf(s, k) = {}
<1>1. CASE k \in KeysOf(s)
  <2>1. PICK q \in 1..Len(s) : s[q].key = k
    BY <1>1, KeysOfIs
  <2>2. ValOf(s, k) = {s[q].val}
    BY <2>1, ValOfIs
  <2>. QED BY <1>1, <2>1, <2>2
<1>2. CASE k \notin KeysOf(s)
  <2>1. \A q \in 1..Len(s) : s[q].key # k
    BY <1>2, KeysOfIs
  <2>. QED BY <1>2, <2>1, ValOfIs
<1>. QED BY <1>1, <1>2

\* A lookup in the store.
LEMMA GetOK ==
    ASSUME IInv, NEW k \in Key
    PROVE  Get(k) = {contents[k]}
<1>1. PICK p, ts, c : p = pairs /\ ts = tables /\ c = contents
  OBVIOUS
<1>2. PICK n, d : n = Len(ts) /\ d = Data(ts)
  OBVIOUS
<1>3. /\ p \in Seq(Record) /\ Ascending(p) /\ ts \in Seq(Table)
      /\ Recorded(p, n, d, c)
  BY <1>1, <1>2 DEF IInv, MemOK, MemTableExact, TablesOK, ContentsOK
<1>4. /\ n \in Nat /\ DOMAIN ts = 1..n /\ d \in [1..n -> Slice]
      /\ \A i \in 1..n : ts[i] \in Table /\ ts[i].data = d[i]
  BY <1>2, <1>3, DataIs
<1>5. MemGet(k) = ValOf(p, k)
  BY <1>1, <1>3, MemGetIs
<1>6. ASSUME NEW i \in 1..n
      PROVE  /\ d[i] \in Seq(Record) /\ Ascending(d[i]) /\ Found(ts[i], k) = ValOf(d[i], k)
  <2>1. PICK t, s : t = ts[i] /\ s = d[i]
    OBVIOUS
  <2>2. /\ s \in Seq(Record) /\ s # <<>> /\ Ascending(s) /\ t.data = s /\ t.index = IndexOf(s)
        /\ t.minKey = s[1].key /\ t.maxKey = s[Len(s)].key
    BY <1>4, <2>1, TableIs
  <2>3. Found(t, k) = ValOf(s, k)
    BY <2>2, FoundIs
  <2>. QED BY <2>1, <2>2, <2>3
<1>7. PICK H : H = {i \in DOMAIN ts : Found(ts[i], k) # {}}
  OBVIOUS
<1>8. Get(k) = IF MemGet(k) # {} THEN MemGet(k)
               ELSE IF H # {} THEN Found(ts[Max(H)], k) ELSE {Nil}
  BY <1>1, <1>7 DEF Get
<1>9. CASE k \in KeysOf(p)
  <2>1. PICK q \in 1..Len(p) : p[q].key = k /\ ValOf(p, k) = {p[q].val}
    BY <1>3, <1>9, ValOfRecorded
  <2>2. p[q].val = c[k]
    BY <1>3, <2>1 DEF Recorded
  <2>. QED BY <1>1, <1>5, <1>8, <2>1, <2>2
<1>10. CASE k \notin KeysOf(p)
  <2>1. MemGet(k) = {}
    BY <1>3, <1>5, <1>10, ValOfRecorded
  <2>2. H \in SUBSET (0..n) /\ \A i \in 1..n : i \in H <=> k \in KeysOf(d[i])
    <3>1. ASSUME NEW i \in 1..n PROVE i \in H <=> k \in KeysOf(d[i])
      <4>1. i \in H <=> ValOf(d[i], k) # {}
        BY <1>4, <1>6, <1>7
      <4>2. /\ k \in KeysOf(d[i]) => ValOf(d[i], k) # {}
            /\ k \notin KeysOf(d[i]) => ValOf(d[i], k) = {}
        <5>1. PICK s : s = d[i]
          OBVIOUS
        <5>2. s \in Seq(Record) /\ Ascending(s)
          BY <1>6, <5>1
        <5>3. k \in KeysOf(s) => \E q \in 1..Len(s) : s[q].key = k /\ ValOf(s, k) = {s[q].val}
          BY <5>2, ValOfRecorded
        <5>4. k \notin KeysOf(s) => ValOf(s, k) = {}
          BY <5>2, ValOfRecorded
        <5>5. k \in KeysOf(s) => ValOf(s, k) # {}
          BY <5>3
        <5>. QED BY <5>1, <5>4, <5>5
      <4>. QED BY <4>1, <4>2
    <3>. QED BY <1>4, <1>7, <3>1
  <2>3. CASE H = {}
    <3>1. \A i \in 1..n : k \notin KeysOf(d[i])
      BY <2>2, <2>3
    <3>2. c[k] = Nil
      BY <1>3, <1>10, <3>1 DEF Recorded
    <3>. QED BY <1>1, <1>8, <2>1, <2>3, <3>2
  <2>4. CASE H # {}
    <3>1. PICK i : i = Max(H)
      OBVIOUS
    <3>2. i \in H /\ \A y \in H : y <= i
      BY <1>4, <2>2, <2>4, <3>1, MinMax
    <3>3. i \in 1..n
      BY <1>4, <1>7, <3>2
    <3>4. ASSUME NEW j \in 1..n, i < j PROVE k \notin KeysOf(d[j])
      <4>1. ~ (j <= i)
        BY <3>3, <3>4
      <4>. QED BY <2>2, <3>2, <4>1
    <3>5. k \in KeysOf(d[i]) /\ d[i] \in Seq(Record) /\ Ascending(d[i])
      BY <1>6, <2>2, <3>2, <3>3
    <3>6. PICK q \in 1..Len(d[i]) : d[i][q].key = k /\ ValOf(d[i], k) = {d[i][q].val}
      BY <3>5, ValOfRecorded
    <3>7. d[i][q].val = c[k]
      BY <1>3, <1>10, <3>3, <3>4, <3>6 DEF Recorded
    <3>8. Found(ts[i], k) = {c[k]}
      BY <1>6, <3>3, <3>6, <3>7
    <3>. QED BY <1>1, <1>8, <2>1, <2>4, <3>1, <3>8
  <2>. QED BY <2>3, <2>4
<1>. QED BY <1>9, <1>10

\* The types of the state.
LEMMA TypeIs == IInv => TypeOK
<1>. SUFFICES ASSUME IInv PROVE TypeOK
  OBVIOUS
<1>1. PICK p, ts : p = pairs /\ ts = tables
  OBVIOUS
<1>2. /\ p \in Seq(Record) /\ size = Bytes(p, Len(p)) - 8 * Len(p) /\ ts \in Seq(Table)
      /\ writes \in 0..MaxWrites /\ contents \in [Key -> Value \cup {Nil}] /\ MergeOK
  BY <1>1 DEF IInv, MemOK, MemTableExact, TablesOK, ContentsOK
<1>3. size \in Nat
  <2>1. Len(p) \in Nat /\ Len(p) \in 0..Len(p)
    BY <1>2
  <2>2. Bytes(p, Len(p)) \in Nat /\ Bytes(p, Len(p)) >= 9 * Len(p)
    BY <1>2, <2>1, BytesDef, BytesGrow
  <2>. QED BY <1>2, <2>1, <2>2
<1>4. ASSUME NEW t \in ToSet(ts) PROVE t.data \in Seq(Record) /\ {t.minKey, t.maxKey} \subseteq Key
  <2>1. t \in Table
    BY <1>2, <1>4 DEF ToSet
  <2>. QED BY <2>1, TableIs
<1>5. merge.iters \subseteq DOMAIN ts /\ merge.built \in Seq(Record)
  <2>1. CASE merge = NoMerge
    BY <2>1 DEF NoMerge
  <2>2. CASE merge # NoMerge
    <3>1. PICK I, P, l, b : /\ merge = [iters |-> I, pos |-> P, lastKey |-> l, built |-> b]
                            /\ Merging(Len(ts), Data(ts), I, P, l, b)
      BY <1>1, <1>2, <2>2 DEF MergeOK
    <3>2. I \in SUBSET (1..Len(ts)) /\ b \in Seq(Record)
      BY <3>1 DEF Merging
    <3>3. DOMAIN ts = 1..Len(ts)
      BY <1>2
    <3>. QED BY <3>1, <3>2, <3>3
  <2>. QED BY <2>1, <2>2
<1>. QED BY <1>1, <1>2, <1>3, <1>4, <1>5 DEF TypeOK

\* The blocks of every table.
LEMMA TilesIs == IInv => BlocksTile
<1>. SUFFICES ASSUME IInv, NEW t \in ToSet(tables)
     PROVE  /\ FlattenSeq([b \in DOMAIN t.index |->
                             ReadAt(t, t.index[b].offset, t.index[b].size)]) = t.data
            /\ \A b \in DOMAIN t.index : t.index[b].size >= BlockSize \/ b = Len(t.index)
  BY DEF BlocksTile
<1>1. tables \in Seq(Table)
  BY DEF IInv, TablesOK
<1>2. t \in Table
  BY <1>1 DEF ToSet
<1>3. PICK s : s = t.data
  OBVIOUS
<1>4. s \in Seq(Record) /\ s # <<>> /\ t.data = s /\ t.index = IndexOf(s)
  BY <1>2, <1>3, TableIs
<1>. QED BY <1>3, <1>4, TableTiles

\* The loop invariant of a merge that is under way.
LEMMA MergeIs == IInv => MergeExact
<1>. SUFFICES ASSUME IInv, merge.iters # {} PROVE MergeExact
  BY DEF MergeExact
<1>1. merge # NoMerge
  BY DEF NoMerge
<1>2. PICK I, P, l, b : /\ merge = [iters |-> I, pos |-> P, lastKey |-> l, built |-> b]
                        /\ Merging(Len(tables), Data(tables), I, P, l, b)
  BY <1>1 DEF IInv, MergeOK
<1>3. PICK ts : ts = tables
  OBVIOUS
<1>4. ts \in Seq(Table) /\ Merging(Len(ts), Data(ts), I, P, l, b)
  BY <1>2, <1>3 DEF IInv, TablesOK
<1>5. MergedSoFar(ts, P, b)
  BY <1>4, MergingExact
<1>6. merge.pos = P /\ merge.built = b
  <2>1. merge = [iters |-> I, pos |-> P, lastKey |-> l, built |-> b]
    BY <1>2
  <2>. QED BY <2>1
<1>7. MergedSoFar(tables, merge.pos, merge.built)
  BY <1>3, <1>5, <1>6
<1>. QED BY <1>7 DEF MergeExact, MergedSoFar

-----------------------------------------------------------------------------
(* The theorems.                                                             *)

\* Through Put, flush, doCompaction and NewDB every table is what writeSSTable makes of
\* a sorted slice, the newest record of a key is the last value written to it, and
\* doMerge keeps its loop invariant.
THEOREM TableInvariant == Spec => []IInv
<1>1. Init => IInv
  BY InitOK
<1>2. IInv /\ [Next]_vars => IInv'
  BY NextOK
<1>. QED BY <1>1, <1>2, PTL DEF Spec

\* Records, sizes and positions keep their types through Put, flush, doCompaction and
\* NewDB, and the size that triggers a flush never drops below zero.
THEOREM TypeCorrect == Spec => []TypeOK
<1>1. IInv => TypeOK
  BY TypeIs
<1>. QED BY <1>1, TableInvariant, PTL

\* MemTable.Put finds its place by binary search: the slice stays sorted without
\* duplicates, and size is the sum of what it holds, overwritten values taken off.
THEOREM MemTableStaysExact == Spec => []MemTableExact
<1>1. IInv => MemTableExact
  BY DEF IInv, MemOK
<1>. QED BY <1>1, TableInvariant, PTL

\* writeSSTable cuts a slice into blocks that are the slice, in order and without gaps,
\* at the offsets and sizes its index gives, and only the last may be short.
THEOREM BlocksAlwaysTile == Spec => []BlocksTile
<1>1. IInv => BlocksTile
  BY TilesIs
<1>. QED BY <1>1, TableInvariant, PTL

\* Get returns the last value written, whatever was flushed, merged or loaded again:
\* through the search of the memtable, the range filter, the index and the block.
THEOREM GetAlwaysExact == Spec => []GetExact
<1>1. ASSUME IInv PROVE GetExact
  BY <1>1, GetOK DEF GetExact
<1>2. IInv => GetExact
  BY <1>1
<1>. QED BY <1>2, TableInvariant, PTL

\* In every round of doMerge the builder is sorted, has the keys some iterator has
\* passed and no other, and has for each the record of the newest table with that key.
THEOREM MergeAlwaysExact == Spec => []MergeExact
<1>1. IInv => MergeExact
  BY MergeIs
<1>. QED BY <1>1, TableInvariant, PTL

=============================================================================
