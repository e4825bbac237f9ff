-------------------------- MODULE LSMSafetyProofs ---------------------------
(***************************************************************************)
(* The engine returns the last value written, and would still do so after  *)
(* a crash: LookupLatest and CrashSafe, for every instance of LSM.         *)
(***************************************************************************)
EXTENDS LSMProofs

-----------------------------------------------------------------------------
(* The order of a list.                                                      *)

\* x comes before y.
Before(list, x, y) == \E i, j \in DOMAIN list : i < j /\ list[i] = x /\ list[j] = y

\* No entry is repeated.
Once(list) == \A x : ~Before(list, x, x)

LEMMA SeqParts ==
    ASSUME NEW list \in Seq(Nat)
    PROVE  /\ Len(list) \in Nat /\ DOMAIN list = 1..Len(list)
           /\ \A i \in DOMAIN list : i \in Nat /\ list[i] \in Nat /\ list[i] \in Range(list)
           /\ \A x \in Range(list) : x \in Nat /\ \E i \in DOMAIN list : list[i] = x
<1>1. Len(list) \in Nat /\ DOMAIN list = 1..Len(list)
  OBVIOUS
<1>2. \A i \in DOMAIN list : i \in Nat /\ list[i] \in Nat
  BY <1>1
<1>. QED BY <1>1, <1>2 DEF Range

LEMMA BeforeListed ==
    ASSUME NEW list, NEW x, NEW y, Before(list, x, y)
    PROVE  x \in Range(list) /\ y \in Range(list)
BY DEF Before, Range

LEMMA OncePlace ==
    ASSUME NEW list \in Seq(Nat), Once(list), NEW i \in DOMAIN list, NEW j \in DOMAIN list,
           list[i] = list[j]
    PROVE  i = j
<1>1. i \in Nat /\ j \in Nat
  BY SeqParts
<1>2. ~(i < j) /\ ~(j < i)
  BY DEF Once, Before
<1>. QED BY <1>1, <1>2

LEMMA BeforeTotal ==
    ASSUME NEW list \in Seq(Nat), NEW x \in Range(list), NEW y \in Range(list), x # y
    PROVE  Before(list, x, y) \/ Before(list, y, x)
<1>1. PICK i \in DOMAIN list : list[i] = x
  BY SeqParts
<1>2. PICK j \in DOMAIN list : list[j] = y
  BY SeqParts
<1>3. i \in Nat /\ j \in Nat /\ i # j
  BY <1>1, <1>2, SeqParts
<1>4. i < j \/ j < i
  BY <1>3
<1>. QED BY <1>1, <1>2, <1>4 DEF Before

LEMMA BeforeOneWay ==
    ASSUME NEW list \in Seq(Nat), Once(list), NEW x, NEW y, Before(list, x, y)
    PROVE  ~Before(list, y, x) /\ x # y
<1>1. PICK i, j \in DOMAIN list : i < j /\ list[i] = x /\ list[j] = y
  BY DEF Before
<1>2. ASSUME Before(list, y, x) PROVE FALSE
  <2>1. PICK a, b \in DOMAIN list : a < b /\ list[a] = y /\ list[b] = x
    BY <1>2 DEF Before
  <2>2. a = j /\ b = i
    BY <1>1, <2>1, OncePlace
  <2>3. i \in Nat /\ j \in Nat
    BY SeqParts
  <2>. QED BY <1>1, <2>1, <2>2, <2>3
<1>. QED BY <1>2 DEF Once

LEMMA BeforeTransitive ==
    ASSUME NEW list \in Seq(Nat), Once(list), NEW x, NEW y, NEW z,
           Before(list, x, y), Before(list, y, z)
    PROVE  Before(list, x, z)
<1>1. PICK i, j \in DOMAIN list : i < j /\ list[i] = x /\ list[j] = y
  BY DEF Before
<1>2. PICK a, b \in DOMAIN list : a < b /\ list[a] = y /\ list[b] = z
  BY DEF Before
<1>3. a = j
  BY <1>1, <1>2, OncePlace
<1>4. i \in Nat /\ j \in Nat /\ b \in Nat
  BY SeqParts
<1>5. i < b
  BY <1>1, <1>2, <1>3, <1>4
<1>. QED BY <1>1, <1>2, <1>5 DEF Before

LEMMA BeforeEmpty == (\A x, y : ~Before(<<>>, x, y)) /\ Range(<<>>) = {} /\ Once(<<>>)
<1>1. DOMAIN << >> = {}
  OBVIOUS
<1>. QED BY <1>1 DEF Before, Range, Once

\* A new table at the end of the list.
LEMMA BeforeAppend ==
    ASSUME NEW list \in Seq(Nat), NEW f \in Nat
    PROVE  \A x, y : Before(Append(list, f), x, y)
                        <=> Before(list, x, y) \/ (x \in Range(list) /\ y = f)
<1>. DEFINE s == Append(list, f)
            n == Len(list)
<1>1. n \in Nat /\ DOMAIN list = 1..n /\ DOMAIN s = 1..(n + 1)
  OBVIOUS
<1>2. s[n + 1] = f /\ \A i \in 1..n : s[i] = list[i]
  OBVIOUS
<1>. HIDE DEF s, n
<1>. TAKE x, y
<1>3. ASSUME Before(list, x, y) PROVE Before(s, x, y)
  <2>1. PICK i, j \in DOMAIN list : i < j /\ list[i] = x /\ list[j] = y
    BY <1>3 DEF Before
  <2>2. i \in DOMAIN s /\ j \in DOMAIN s /\ s[i] = x /\ s[j] = y
    BY <1>1, <1>2, <2>1
  <2>. QED BY <2>1, <2>2 DEF Before
<1>4. ASSUME x \in Range(list), y = f PROVE Before(s, x, y)
  <2>1. PICK i \in DOMAIN list : list[i] = x
    BY <1>4 DEF Range
  <2>2. i \in DOMAIN s /\ n + 1 \in DOMAIN s /\ i < n + 1 /\ s[i] = x /\ s[n + 1] = y
    BY <1>1, <1>2, <1>4, <2>1
  <2>. QED BY <2>2 DEF Before
<1>5. ASSUME Before(s, x, y) PROVE Before(list, x, y) \/ (x \in Range(list) /\ y = f)
  <2>1. PICK i, j \in DOMAIN s : i < j /\ s[i] = x /\ s[j] = y
    BY <1>5 DEF Before
  <2>2. i \in 1..n /\ (j \in 1..n \/ j = n + 1)
    BY <1>1, <2>1
  <2>3. list[i] = x /\ i \in DOMAIN list
    BY <1>1, <1>2, <2>1, <2>2
  <2>4. CASE j \in 1..n
    <3>1. list[j] = y /\ j \in DOMAIN list
      BY <1>1, <1>2, <2>1, <2>4
    <3>. QED BY <2>1, <2>3, <3>1 DEF Before
  <2>5. CASE j = n + 1
    BY <1>2, <2>1, <2>3, <2>5 DEF Range
  <2>. QED BY <2>2, <2>4, <2>5
<1>. QED BY <1>3, <1>4, <1>5 DEF s

\* The listed files and, after them, the others.
LEMMA BeforeConcat ==
    ASSUME NEW s \in Seq(Nat), NEW t \in Seq(Nat)
    PROVE  \A x, y : Before(s \o t, x, y) <=>
                        \/ Before(s, x, y) \/ Before(t, x, y)
                        \/ x \in Range(s) /\ y \in Range(t)
<1>. DEFINE u == s \o t
            m == Len(s)
            n == Len(t)
<1>1. m \in Nat /\ n \in Nat /\ DOMAIN s = 1..m /\ DOMAIN t = 1..n /\ DOMAIN u = 1..(m + n)
  OBVIOUS
<1>2. \A i \in 1..m : u[i] = s[i]
  OBVIOUS
<1>3. ASSUME NEW i \in 1..n PROVE u[m + i] = t[i] /\ m + i \in DOMAIN u
  OBVIOUS
<1>4. ASSUME NEW i \in DOMAIN u PROVE i \in 1..m \/ (i - m \in 1..n /\ i = m + (i - m))
  BY <1>1
<1>. HIDE DEF u, m, n
<1>. TAKE x, y
<1>5. ASSUME Before(s, x, y) PROVE Before(u, x, y)
  <2>1. PICK i, j \in DOMAIN s : i < j /\ s[i] = x /\ s[j] = y
    BY <1>5 DEF Before
  <2>2. i \in DOMAIN u /\ j \in DOMAIN u /\ u[i] = x /\ u[j] = y
    BY <1>1, <1>2, <2>1
  <2>. QED BY <2>1, <2>2 DEF Before
<1>6. ASSUME Before(t, x, y) PROVE Before(u, x, y)
  <2>1. PICK i, j \in DOMAIN t : i < j /\ t[i] = x /\ t[j] = y
    BY <1>6 DEF Before
  <2>2. m + i \in DOMAIN u /\ m + j \in DOMAIN u /\ u[m + i] = x /\ u[m + j] = y
    BY <1>1, <1>3, <2>1
  <2>3. m + i < m + j
    BY <1>1, <2>1
  <2>. QED BY <2>2, <2>3 DEF Before
<1>7. ASSUME x \in Range(s), y \in Range(t) PROVE Before(u, x, y)
  <2>1. PICK i \in DOMAIN s : s[i] = x
    BY <1>7 DEF Range
  <2>2. PICK j \in DOMAIN t : t[j] = y
    BY <1>7 DEF Range
  <2>3. i \in DOMAIN u /\ u[i] = x
    BY <1>1, <1>2, <2>1
  <2>4. m + j \in DOMAIN u /\ u[m + j] = y /\ i < m + j
    BY <1>1, <1>3, <2>1, <2>2
  <2>. QED BY <2>3, <2>4 DEF Before
<1>8. ASSUME Before(u, x, y)
      PROVE  Before(s, x, y) \/ Before(t, x, y) \/ (x \in Range(s) /\ y \in Range(t))
  <2>1. PICK i, j \in DOMAIN u : i < j /\ u[i] = x /\ u[j] = y
    BY <1>8 DEF Before
  <2>2. CASE i \in 1..m
    <3>1. i \in DOMAIN s /\ s[i] = x
      BY <1>1, <1>2, <2>1, <2>2
    <3>2. CASE j \in 1..m
      <4>1. j \in DOMAIN s /\ s[j] = y
        BY <1>1, <1>2, <2>1, <3>2
      <4>. QED BY <2>1, <3>1, <4>1 DEF Before
    <3>3. CASE j - m \in 1..n /\ j = m + (j - m)
      <4>1. j - m \in DOMAIN t /\ t[j - m] = y
        BY <1>1, <1>3, <2>1, <3>3
      <4>. QED BY <3>1, <4>1 DEF Range
    <3>. QED BY <1>4, <3>2, <3>3
  <2>3. CASE i - m \in 1..n /\ i = m + (i - m)
    <3>1. i - m \in DOMAIN t /\ t[i - m] = x
      BY <1>1, <1>3, <2>1, <2>3
    <3>2. i \in Nat /\ j \in Nat /\ j \notin 1..m
      BY <1>1, <2>1, <2>3
    <3>3. j - m \in 1..n /\ j = m + (j - m)
      BY <1>4, <3>2
    <3>4. j - m \in DOMAIN t /\ t[j - m] = y
      BY <1>1, <1>3, <2>1, <3>3
    <3>5. i - m < j - m
      BY <1>1, <2>1, <3>2
    <3>. QED BY <3>1, <3>4, <3>5 DEF Before
  <2>. QED BY <1>4, <2>2, <2>3
<1>. QED BY <1>5, <1>6, <1>7, <1>8 DEF u

LEMMA BeforeAscending ==
    ASSUME NEW T, Bounded(T)
    PROVE  \A x, y : Before(Ascending(T), x, y) <=> x \in T /\ y \in T /\ x < y
<1>. DEFINE s == Ascending(T)
<1>1. /\ s \in Seq(T) /\ Range(s) = T
      /\ \A a, b \in DOMAIN s : a < b => s[a] < s[b]
  BY AscendingList
<1>2. T \subseteq Nat
  BY DEF Bounded
<1>. HIDE DEF s
<1>3. s \in Seq(Nat)
  BY <1>1, <1>2, WiderSeq
<1>. TAKE x, y
<1>4. ASSUME Before(s, x, y) PROVE x \in T /\ y \in T /\ x < y
  BY <1>1, <1>4 DEF Before, Range
<1>5. ASSUME x \in T, y \in T, x < y PROVE Before(s, x, y)
  <2>1. x \in Nat /\ y \in Nat /\ x # y /\ ~(y < x)
    BY <1>2, <1>5
  <2>2. ~Before(s, y, x)
    BY <1>1, <2>1 DEF Before
  <2>. QED BY <1>1, <1>3, <1>5, <2>1, <2>2, BeforeTotal
<1>. QED BY <1>4, <1>5 DEF s

LEMMA BeforeAmong ==
    ASSUME NEW list \in Seq(Nat), NEW S
    PROVE  \A x, y : Before(Among(list, S), x, y)
                        <=> x \in S /\ y \in S /\ Before(list, x, y)
<1>. DEFINE P == {i \in DOMAIN list : list[i] \in S}
            at == Ascending(P)
            s == Among(list, S)
<1>1. Bounded(P)
  BY BoundedDomain, BoundedSubset
<1>2. at \in Seq(P) /\ Range(at) = P /\ \A a, b \in DOMAIN at : a < b => at[a] < at[b]
  BY <1>1, AscendingList
<1>3. \A i, j : Before(at, i, j) <=> i \in P /\ j \in P /\ i < j
  BY <1>1, BeforeAscending
<1>4. s = [n \in DOMAIN at |-> list[at[n]]]
  BY DEF Among
<1>5. DOMAIN s = DOMAIN at /\ \A n \in DOMAIN at : s[n] = list[at[n]]
  BY <1>4
<1>6. \A n \in DOMAIN at : at[n] \in P
  BY <1>2
<1>. HIDE DEF at, s
<1>. TAKE x, y
<1>7. ASSUME Before(s, x, y) PROVE x \in S /\ y \in S /\ Before(list, x, y)
  <2>1. PICK a, b \in DOMAIN at : a < b /\ list[at[a]] = x /\ list[at[b]] = y
    BY <1>5, <1>7 DEF Before
  <2>2. at[a] \in P /\ at[b] \in P /\ at[a] < at[b]
    BY <1>2, <1>6, <2>1
  <2>. QED BY <2>1, <2>2 DEF Before
<1>8. ASSUME x \in S, y \in S, Before(list, x, y) PROVE Before(s, x, y)
  <2>1. PICK i, j \in DOMAIN list : i < j /\ list[i] = x /\ list[j] = y
    BY <1>8 DEF Before
  <2>2. Before(at, i, j)
    BY <1>3, <1>8, <2>1
  <2>3. PICK a, b \in DOMAIN at : a < b /\ at[a] = i /\ at[b] = j
    BY <2>2 DEF Before
  <2>. QED BY <1>5, <2>1, <2>3 DEF Before
<1>. QED BY <1>7, <1>8 DEF s

\* The order NewDB gives to two files does not depend on the others.
ManifestOrder(line, x, y) ==
    \/ Before(line, x, y)
    \/ x \in Range(line) /\ y \notin Range(line)
    \/ x \notin Range(line) /\ y \notin Range(line) /\ x < y

LEMMA BeforeManifest ==
    ASSUME NEW line \in Seq(Nat), NEW ids, Bounded(ids)
    PROVE  /\ applyManifestOrder(line, ids) \in Seq(Nat)
           /\ Range(applyManifestOrder(line, ids)) = ids
           /\ \A x, y : Before(applyManifestOrder(line, ids), x, y)
                           <=> x \in ids /\ y \in ids /\ ManifestOrder(line, x, y)
<1>. DEFINE a == Among(line, ids)
            b == Ascending(ids \ Range(line))
<1>1. applyManifestOrder(line, ids) = a \o b
  BY DEF applyManifestOrder
<1>2. Bounded(ids \ Range(line)) /\ ids \subseteq Nat
  BY BoundedSubset DEF Bounded
<1>3. a \in Seq(Nat) /\ Range(a) = Range(line) \cap ids
  BY AmongList
<1>4. b \in Seq(ids \ Range(line)) /\ Range(b) = ids \ Range(line)
  BY <1>2, AscendingList
<1>5. \A x, y : Before(a, x, y) <=> x \in ids /\ y \in ids /\ Before(line, x, y)
  BY BeforeAmong
<1>6. \A x, y : Before(b, x, y)
                  <=> x \in ids \ Range(line) /\ y \in ids \ Range(line) /\ x < y
  BY <1>2, BeforeAscending
<1>. HIDE DEF a, b
<1>7. b \in Seq(Nat)
  BY <1>2, <1>4, WiderSeq
<1>8. Range(a \o b) = ids /\ a \o b \in Seq(Nat)
  <2>1. Range(a \o b) = Range(a) \cup Range(b)
    BY <1>3, <1>7, RangeConcatenation
  <2>. QED BY <1>3, <1>4, <1>7, <2>1
<1>9. \A x, y : Before(a \o b, x, y) <=>
                   \/ Before(a, x, y) \/ Before(b, x, y)
                   \/ x \in Range(a) /\ y \in Range(b)
  BY <1>3, <1>7, BeforeConcat
<1>10. \A x, y : Before(line, x, y) => x \in Range(line) /\ y \in Range(line)
  BY BeforeListed
<1>11. \A x, y : Before(a \o b, x, y) <=> x \in ids /\ y \in ids /\ ManifestOrder(line, x, y)
  BY <1>3, <1>4, <1>5, <1>6, <1>9, <1>10, Zenon DEF ManifestOrder
<1>. QED BY <1>1, <1>8, <1>11

LEMMA OnceManifest ==
    ASSUME NEW line \in Seq(Nat), Once(line), NEW ids, Bounded(ids)
    PROVE  Once(applyManifestOrder(line, ids))
<1>1. ids \subseteq Nat
  BY DEF Bounded
<1>2. ASSUME NEW x \in ids, ManifestOrder(line, x, x) PROVE FALSE
  <2>1. x \in Nat /\ ~(x < x)
    BY <1>1
  <2>. QED BY <1>2, <2>1 DEF ManifestOrder, Once
<1>. QED BY <1>2, BeforeManifest DEF Once

\* The oldest tables of a list.
LEMMA BeforePrefix ==
    ASSUME NEW list \in Seq(Nat), NEW n \in Nat, n <= Len(list)
    PROVE  /\ SubSeq(list, 1, n) \in Seq(Nat)
           /\ Range(SubSeq(list, 1, n)) \subseteq Range(list)
           /\ \A x, y : Before(SubSeq(list, 1, n), x, y) => Before(list, x, y)
<1>. DEFINE p == SubSeq(list, 1, n)
<1>1. p \in Seq(Nat) /\ DOMAIN p = 1..n /\ DOMAIN list = 1..Len(list) /\ Len(list) \in Nat
  OBVIOUS
<1>2. \A i \in 1..n : p[i] = list[i] /\ i \in DOMAIN list
  OBVIOUS
<1>. HIDE DEF p
<1>3. \A x, y : Before(p, x, y) => Before(list, x, y)
  BY <1>1, <1>2 DEF Before
<1>4. Range(p) \subseteq Range(list)
  BY <1>1, <1>2 DEF Range
<1>. QED BY <1>1, <1>3, <1>4 DEF p

LEMMA BeforeTail ==
    ASSUME NEW s \in Seq(Nat), s # <<>>
    PROVE  /\ Tail(s) \in Seq(Nat) /\ Range(Tail(s)) \subseteq Range(s)
           /\ \A x \in Range(s) : x = Head(s) \/ x \in Range(Tail(s))
           /\ \A x, y : Before(Tail(s), x, y) => Before(s, x, y)
           /\ \A x, y : Before(s, x, y) => x = Head(s) \/ Before(Tail(s), x, y)
           /\ \A x \in Range(Tail(s)) : Before(s, Head(s), x)
<1>. DEFINE t == Tail(s)
            n == Len(s)
<1>1. /\ n \in Nat /\ n # 0 /\ DOMAIN s = 1..n /\ Head(s) = s[1]
      /\ t \in Seq(Nat) /\ DOMAIN t = 1..(n - 1)
  OBVIOUS
<1>2. ASSUME NEW i \in 1..(n - 1) PROVE t[i] = s[i + 1]
  OBVIOUS
<1>. HIDE DEF t, n
<1>3. ASSUME NEW i \in DOMAIN t PROVE i + 1 \in DOMAIN s /\ t[i] = s[i + 1] /\ 1 < i + 1
  BY <1>1, <1>2
<1>4. ASSUME NEW i \in DOMAIN s, i # 1 PROVE i - 1 \in DOMAIN t /\ t[i - 1] = s[i]
  <2>1. i - 1 \in 1..(n - 1) /\ (i - 1) + 1 = i
    BY <1>1, <1>4
  <2>. QED BY <1>1, <1>2, <2>1
<1>5. ASSUME NEW x, NEW y, Before(t, x, y) PROVE Before(s, x, y)
  <2>1. PICK i, j \in DOMAIN t : i < j /\ t[i] = x /\ t[j] = y
    BY <1>5 DEF Before
  <2>2. i + 1 < j + 1
    BY <1>1, <2>1
  <2>. QED BY <1>3, <2>1, <2>2 DEF Before
<1>6. ASSUME NEW x, NEW y, Before(s, x, y) PROVE x = Head(s) \/ Before(t, x, y)
  <2>1. PICK i, j \in DOMAIN s : i < j /\ s[i] = x /\ s[j] = y
    BY <1>6 DEF Before
  <2>2. CASE i = 1
    BY <1>1, <2>1, <2>2
  <2>3. CASE i # 1
    <3>1. j # 1 /\ i - 1 < j - 1
      BY <1>1, <2>1, <2>3
    <3>. QED BY <1>4, <2>1, <2>3, <3>1 DEF Before
  <2>. QED BY <2>2, <2>3
<1>7. \A x \in Range(t) : Before(s, Head(s), x)
  <2>1. 1 \in DOMAIN s
    BY <1>1
  <2>. QED BY <1>1, <1>3, <2>1 DEF Before, Range
<1>8. Range(t) \subseteq Range(s)
  BY <1>3 DEF Range
<1>9. \A x \in Range(s) : x = Head(s) \/ x \in Range(t)
  BY <1>1, <1>4 DEF Range
<1>. QED BY <1>1, <1>5, <1>6, <1>7, <1>8, <1>9 DEF t

LEMMA BeforeReplaced ==
    ASSUME NEW list \in Seq(Nat), NEW old, NEW new \in Nat
    PROVE  \A x, y : Before(Replaced(list, old, new), x, y) =>
              \/ Before(list, x, y)
              \/ x \in Range(list) \ Range(old) /\ y = new
<1>. DEFINE a == Among(list, Range(list) \ Range(old))
<1>1. a \in Seq(Nat) /\ Range(a) = Range(list) \ Range(old)
  <2>1. Range(list) \cap (Range(list) \ Range(old)) = Range(list) \ Range(old)
    OBVIOUS
  <2>. QED BY <2>1, AmongList
<1>2. Replaced(list, old, new) = IF new = 0 THEN a ELSE Append(a, new)
  BY DEF Replaced
<1>3. \A x, y : Before(a, x, y) => Before(list, x, y)
  BY BeforeAmong
<1>. HIDE DEF a
<1>4. \A x, y : Before(Append(a, new), x, y) <=> Before(a, x, y) \/ (x \in Range(a) /\ y = new)
  BY <1>1, BeforeAppend
<1>. QED BY <1>1, <1>2, <1>3, <1>4

-----------------------------------------------------------------------------
(* What a lookup in a list of tables finds.                                  *)

\* The file of table x holds k.
Holds(fs, x, k) == x \in Complete(fs) /\ k \in DOMAIN fs[x]

Found(list, fs, k) ==
    IF Holding(list, fs, k) = {} THEN Nil
    ELSE fs[list[Greatest(Holding(list, fs, k))]][k]

\* x is the last table of the list that holds k.
Newest(list, fs, k, x) ==
    /\ x \in Range(list) /\ Holds(fs, x, k)
    /\ \A y \in Range(list) : Holds(fs, y, k) => y = x \/ Before(list, y, x)

LEMMA LookupParts ==
    ASSUME NEW mem, NEW imm, NEW list, NEW fs, NEW k
    PROVE  Lookup(mem, imm, list, fs, k) =
              IF k \in DOMAIN mem THEN mem[k]
              ELSE IF imm # Nil /\ k \in DOMAIN imm THEN imm[k]
              ELSE Found(list, fs, k)
BY DEF Lookup, Found

LEMMA HoldingParts ==
    ASSUME NEW list, NEW fs, NEW k
    PROVE  Holding(list, fs, k) = {} <=> \A x \in Range(list) : ~Holds(fs, x, k)
BY DEF Holding, Holds, Range

LEMMA NewestExists ==
    ASSUME NEW list \in Seq(Nat), NEW fs, NEW k, Holding(list, fs, k) # {}
    PROVE  \E x : Newest(list, fs, k, x) /\ Found(list, fs, k) = fs[x][k]
<1>. DEFINE i == Greatest(Holding(list, fs, k))
<1>1. i \in Holding(list, fs, k) /\ \A j \in Holding(list, fs, k) : j <= i
  BY HoldingGreatest
<1>2. Found(list, fs, k) = fs[list[i]][k]
  BY DEF Found
<1>. HIDE DEF i
<1>3. i \in DOMAIN list /\ Holds(fs, list[i], k) /\ list[i] \in Range(list)
  BY <1>1 DEF Holding, Holds, Range
<1>4. ASSUME NEW y \in Range(list), Holds(fs, y, k), y # list[i] PROVE Before(list, y, list[i])
  <2>1. PICK j \in DOMAIN list : list[j] = y
    BY DEF Range
  <2>2. j \in Holding(list, fs, k)
    BY <1>4, <2>1 DEF Holding, Holds
  <2>3. j \in Nat /\ i \in Nat /\ j <= i /\ j # i
    BY <1>1, <1>3, <1>4, <2>1, <2>2, SeqParts
  <2>4. j < i
    BY <2>3
  <2>. QED BY <1>3, <2>1, <2>4 DEF Before
<1>5. Newest(list, fs, k, list[i])
  BY <1>3, <1>4 DEF Newest
<1>. QED BY <1>2, <1>5

LEMMA NewestValue ==
    ASSUME NEW list \in Seq(Nat), Once(list), NEW fs, NEW k, NEW x, Newest(list, fs, k, x)
    PROVE  Holding(list, fs, k) # {} /\ Found(list, fs, k) = fs[x][k]
<1>1. Holding(list, fs, k) # {}
  BY HoldingParts DEF Newest
<1>2. PICK y : Newest(list, fs, k, y) /\ Found(list, fs, k) = fs[y][k]
  BY <1>1, NewestExists
<1>3. y = x \/ (Before(list, y, x) /\ Before(list, x, y))
  BY <1>2 DEF Newest
<1>4. y = x
  BY <1>3, BeforeOneWay
<1>. QED BY <1>1, <1>2, <1>4

\* Two lists in which the same tables hold k, with the same value and in the same
\* order, answer alike.
LEMMA SameFound ==
    ASSUME NEW A \in Seq(Nat), Once(A), NEW B \in Seq(Nat), Once(B), NEW fs, NEW gs, NEW k,
           \A x : x \in Range(A) /\ Holds(fs, x, k) => x \in Range(B) /\ Holds(gs, x, k),
           \A x : x \in Range(B) /\ Holds(gs, x, k) => x \in Range(A) /\ Holds(fs, x, k),
           \A x \in Range(A) : Holds(fs, x, k) => fs[x][k] = gs[x][k],
           \A x, y : Holds(fs, x, k) /\ Holds(fs, y, k) /\ Before(A, x, y) => Before(B, x, y)
    PROVE  Found(A, fs, k) = Found(B, gs, k)
<1>1. CASE Holding(A, fs, k) = {}
  <2>1. Holding(B, gs, k) = {}
    BY <1>1, HoldingParts
  <2>. QED BY <1>1, <2>1 DEF Found
<1>2. CASE Holding(A, fs, k) # {}
  <2>1. PICK x : Newest(A, fs, k, x) /\ Found(A, fs, k) = fs[x][k]
    BY <1>2, NewestExists
  <2>2. Newest(B, gs, k, x)
    BY <2>1 DEF Newest
  <2>3. Found(B, gs, k) = gs[x][k]
    BY <2>2, NewestValue
  <2>. QED BY <2>1, <2>3 DEF Newest
<1>. QED BY <1>1, <1>2

\* Writes and removals of files that are not in the list are not seen.
LEMMA FoundFrame ==
    ASSUME NEW list \in Seq(Nat), Once(list), NEW fs, NEW gs, NEW k,
           Range(list) \subseteq Complete(fs), Range(list) \subseteq Complete(gs),
           \A x \in Range(list) : gs[x] = fs[x]
    PROVE  Found(list, fs, k) = Found(list, gs, k)
<1>1. \A x \in Range(list) : Holds(fs, x, k) <=> Holds(gs, x, k)
  BY DEF Holds
<1>. QED BY <1>1, SameFound

\* The merge answers for the list it was made from.
LEMMA MergeFound ==
    ASSUME NEW list \in Seq(Nat), NEW fs, NEW k \in Key
    PROVE  /\ k \in DOMAIN doMerge(list, fs) <=> Holding(list, fs, k) # {}
           /\ k \in DOMAIN doMerge(list, fs) => doMerge(list, fs)[k] = Found(list, fs, k)
BY DEF doMerge, Found

-----------------------------------------------------------------------------
(* The lists of tables there are, in memory, on the way to the manifest and  *)
(* in it, agree on the order of the tables they share.                       *)

\* What L has of list is a first part of it, in the same order.
Agree(L, list) == \A x, y : Before(list, x, y) /\ y \in Range(L) => Before(L, x, y)

\* A snapshot of the list, seen from the present list, the tables of a compaction,
\* the files being written and the complete files.
LineOK(L, list, old, written, complete) ==
    /\ Once(L)
    /\ \A x \in Range(L) : x \notin written /\ \E y \in complete : x <= y
    /\ Agree(L, list) /\ Agree(L, old)

Lines == {manifest, compactor.line, sstables} \cup {g.line : g \in flushers}

WrittenFiles ==
    {g.file : g \in {x \in flushers : Writing(x)}}
        \cup {g.file : g \in {x \in {compactor} : Writing(x)}}

OrderInv ==
    ~damaged =>
        /\ Once(compactor.picked)
        /\ \A L \in Lines :
              LineOK(L, sstables, compactor.picked, WrittenFiles, Complete(files))

\* Ids start at 1, the tables of a compaction have lower ids than its result, and
\* they are there until they are removed.
MergeOrder ==
    /\ 0 \notin DOMAIN files /\ nextFileID # 0
    /\ compactor.stage \in {"idle", "reserve"} => compactor.file = 0
    /\ compactor.stage \notin {"idle", "reserve"} =>
          \A x \in Range(compactor.picked) : x < compactor.file
    /\ compactor.stage \in {"manifest", "remove"} => compactor.file \in Range(sstables)
    /\ Range(compactor.picked) \subseteq Complete(files)

MergeOrderInv == ~damaged => MergeOrder

LEMMA LineKept ==
    ASSUME NEW L \in Seq(Nat), NEW list, NEW old, NEW W, NEW C, LineOK(L, list, old, W, C),
           NEW list2, NEW old2, NEW W2, NEW C2, C \subseteq Nat, C2 \subseteq Nat,
           \A x \in W2 : x \in W \/ x \notin Range(L),
           \A y \in C : \E z \in C2 : y <= z,
           Agree(L, list2), Agree(L, old2)
    PROVE  LineOK(L, list2, old2, W2, C2)
<1>1. ASSUME NEW x \in Range(L) PROVE x \notin W2 /\ \E z \in C2 : x <= z
  <2>1. x \notin W2
    BY <1>1 DEF LineOK
  <2>2. PICK y \in C : x <= y
    BY <1>1 DEF LineOK
  <2>3. PICK z \in C2 : y <= z
    BY <2>2
  <2>4. x \in Nat /\ y \in Nat /\ z \in Nat
    BY <1>1, SeqParts
  <2>5. x <= z
    BY <2>2, <2>3, <2>4
  <2>. QED BY <2>1, <2>5
<1>. QED BY <1>1 DEF LineOK

LEMMA EmptyLine ==
    ASSUME NEW list, NEW old, NEW W, NEW C
    PROVE  LineOK(<<>>, list, old, W, C)
BY BeforeEmpty DEF LineOK, Agree

LEMMA LinesTyped == TypeOK => \A L \in Lines : L \in Seq(Nat)
<1>. SUFFICES ASSUME TypeOK, NEW L \in Lines PROVE L \in Seq(Nat)
  OBVIOUS
<1>1. \A g \in flushers : g.line \in Seq(Nat)
  BY DEF TypeOK, FlushRecord
<1>2. compactor.line \in Seq(Nat)
  BY DEF TypeOK, CompactRecord
<1>. QED BY <1>1, <1>2 DEF TypeOK, Lines

LEMMA CompleteNat == TypeOK => Complete(files) \subseteq Nat
BY DEF TypeOK, Complete

\* Steps that add no line and no table to the list: lines go on to be in order when
\* new writers have fresh files and no complete file goes without a later one.
LEMMA OrderKept ==
    ASSUME EngineInv, EngineInv', OrderInv, ~damaged,
           sstables' = sstables, Once(compactor.picked)',
           \A x, y : Before(compactor'.picked, x, y) =>
                        Before(compactor.picked, x, y) \/ Before(sstables, x, y),
           \A L \in Lines' : L \in Lines \/ L = <<>>,
           \A x \in WrittenFiles' : x \in WrittenFiles \/ \A y \in Complete(files) : y < x,
           \A x \in WrittenFiles' : x \in Nat,
           \A y \in Complete(files) : \E z \in Complete(files') : y <= z
    PROVE  OrderInv'
<1>1. \A L \in Lines : /\ L \in Seq(Nat)
                       /\ LineOK(L, sstables, compactor.picked, WrittenFiles, Complete(files))
  BY LinesTyped DEF OrderInv, EngineInv
<1>2. Complete(files) \subseteq Nat /\ Complete(files') \subseteq Nat
  BY CompleteNat DEF EngineInv, TypeOK, Complete
<1>3. PICK old2, W2, C2 : old2 = compactor'.picked /\ W2 = WrittenFiles' /\ C2 = Complete(files')
  OBVIOUS
<1>4. ASSUME NEW L \in Lines PROVE LineOK(L, sstables, old2, W2, C2)
  <2>1. L \in Seq(Nat) /\ LineOK(L, sstables, compactor.picked, WrittenFiles, Complete(files))
    BY <1>1
  <2>2. ASSUME NEW x \in W2, x \notin WrittenFiles PROVE x \notin Range(L)
    <3>1. x \in Nat /\ \A y \in Complete(files) : y \in Nat /\ y < x
      BY <1>2, <1>3, <2>2
    <3>2. SUFFICES ASSUME x \in Range(L) PROVE FALSE
      OBVIOUS
    <3>3. PICK y \in Complete(files) : x <= y
      BY <2>1, <3>2 DEF LineOK
    <3>. QED BY <3>1, <3>3
  <2>3. Agree(L, sstables) /\ Agree(L, compactor.picked)
    BY <2>1 DEF LineOK
  <2>4. Agree(L, old2)
    BY <1>3, <2>3 DEF Agree
  <2>5. C2 \subseteq Nat /\ \A y \in Complete(files) : \E z \in C2 : y <= z
    BY <1>2, <1>3
  <2>. QED BY <1>2, <2>1, <2>2, <2>3, <2>4, <2>5, LineKept
<1>5. LineOK(<<>>, sstables, old2, W2, C2)
  BY EmptyLine
<1>6. \A L \in Lines' : LineOK(L, sstables', old2, W2, C2)
  BY <1>4, <1>5
<1>. QED BY <1>3, <1>6 DEF OrderInv

\* The hypotheses of the lemmas about one step.
Good == EngineInv /\ FileInv /\ OrderInv /\ MergeOrderInv /\ ~damaged

Next1 == EngineInv' /\ FileInv' /\ ~damaged'

LEMMA WrittenNat ==
    ASSUME TypeOK
    PROVE  WrittenFiles \subseteq Nat
BY DEF TypeOK, FlushRecord, CompactRecord, WrittenFiles

LEMMA PickedSeq == TypeOK => compactor.picked \in Seq(Nat) /\ compactor.line \in Seq(Nat)
BY DEF TypeOK, CompactRecord

\* Steps that touch no table, no list and no writer.
LEMMA OrderQuiet ==
    ASSUME Good, Next1,
           UNCHANGED <<manifest, compactor, files, sstables>>, NextIDKept,
           \A g \in flushers' : \/ g \in flushers
                                \/ ~Writing(g) /\ (g.line \in Lines \/ g.line = <<>>)
    PROVE  OrderInv' /\ MergeOrderInv'
<1>. USE DEF Good, Next1
<1>0. nextFileID' # 0
  BY DEF MergeOrderInv, MergeOrder, NextIDKept, EngineInv, TypeOK
<1>1. MergeOrderInv'
  BY <1>0 DEF MergeOrderInv, MergeOrder
<1>2. \A L \in Lines' : L \in Lines \/ L = <<>>
  BY DEF Lines
<1>3. \A x \in WrittenFiles' : x \in WrittenFiles
  BY DEF WrittenFiles
<1>4. \A x \in WrittenFiles' : x \in Nat
  BY <1>3, WrittenNat DEF EngineInv
<1>5. \A y \in Complete(files) : \E z \in Complete(files') : y <= z
  BY CompleteNat DEF EngineInv
<1>6. Once(compactor.picked)'
  BY DEF OrderInv
<1>7. OrderInv'
  BY <1>2, <1>3, <1>4, <1>5, <1>6, OrderKept
<1>. QED BY <1>1, <1>7

LEMMA FlushReserveOrder ==
    ASSUME Good, Next1, NEW g \in flushers, FlushReserve(g)
    PROVE  OrderInv' /\ MergeOrderInv'
<1>. USE DEF Good, Next1
<1>0. PICK f, h : f = nextFileID /\ h = [g EXCEPT !.stage = "blocks", !.file = nextFileID]
  OBVIOUS
<1>1. FreshIDs /\ MergeOrder /\ phase # "down" /\ TypeOK
  BY FlusherUp DEF FileInv, EngineInv, MergeOrderInv
<1>2. /\ files' = With(files, f, Short) /\ nextFileID' = f + 1
      /\ flushers' = (flushers \ {g}) \cup {h}
      /\ UNCHANGED <<sstables, compactor, manifest>>
  BY <1>0 DEF FlushReserve, AdvancedID, Advance, memVars
<1>3. f \in Nat /\ f # 0 /\ g \in FlushRecord /\ h.stage = "blocks" /\ h.file = f /\ h.line = g.line
  BY <1>0, <1>1 DEF TypeOK, FlushRecord, MergeOrder
<1>4. \A y \in Complete(files) : y < f
  BY <1>0, <1>1 DEF FreshIDs
<1>5. f \notin Complete(files)
  BY <1>3, <1>4
<1>6. DOMAIN files' = DOMAIN files \cup {f} /\ Complete(files') = Complete(files)
  BY <1>2, <1>5, CreatedFile
<1>7. MergeOrderInv'
  <2>1. f + 1 # 0
    BY <1>3
  <2>. QED BY <1>1, <1>2, <1>3, <1>6, <2>1 DEF MergeOrderInv, MergeOrder
<1>8. \A L \in Lines' : L \in Lines
  BY <1>2, <1>3 DEF Lines
<1>9. \A x \in WrittenFiles' : x \in WrittenFiles \/ x = f
  BY <1>2, <1>3 DEF WrittenFiles
<1>10. \A x \in WrittenFiles' : x \in Nat
  BY <1>1, <1>3, <1>9, WrittenNat
<1>11. \A y \in Complete(files) : \E z \in Complete(files') : y <= z
  BY <1>1, <1>6, CompleteNat
<1>12. Once(compactor.picked)'
  BY <1>2 DEF OrderInv
<1>13. OrderInv'
  BY <1>2, <1>4, <1>8, <1>9, <1>10, <1>11, <1>12, OrderKept
<1>. QED BY <1>7, <1>13

\* The writes to the file.
LEMMA FlushBlocksOrder ==
    ASSUME Good, Next1, NEW g \in flushers, FlushBlocks(g) \/ FlushFooter(g)
    PROVE  OrderInv' /\ MergeOrderInv'
<1>. USE DEF Good, Next1
<1>1. MergeOrder /\ Writers /\ TypeOK /\ g \in FlushRecord
  BY DEF FileInv, EngineInv, MergeOrderInv, TypeOK
<1>2. PICK h, t : /\ h = [g EXCEPT !.stage = IF g.stage = "blocks" THEN "footer" ELSE "install"]
                  /\ flushers' = (flushers \ {g}) \cup {h}
                  /\ files' = [files EXCEPT ![g.file] = t]
  BY DEF FlushBlocks, FlushFooter, Advance
<1>3. UNCHANGED <<sstables, compactor, manifest, nextFileID>>
  BY DEF FlushBlocks, FlushFooter, memVars
<1>4. g.stage \in {"blocks", "footer"} /\ h.file = g.file /\ h.line = g.line
  BY <1>1, <1>2 DEF FlushBlocks, FlushFooter, FlushRecord
<1>5. Writing(g) /\ g.file \notin Complete(files)
  BY <1>1, <1>4 DEF Writers, Writing, Owned
<1>6. DOMAIN files' = DOMAIN files /\ Complete(files) \subseteq Complete(files')
  BY <1>2, <1>5 DEF Complete
<1>7. MergeOrderInv'
  BY <1>1, <1>3, <1>6 DEF MergeOrderInv, MergeOrder
<1>8. \A L \in Lines' : L \in Lines
  BY <1>2, <1>3, <1>4 DEF Lines
<1>9. \A x \in WrittenFiles' : x \in WrittenFiles
  BY <1>2, <1>3, <1>4, <1>5 DEF WrittenFiles
<1>10. \A x \in WrittenFiles' : x \in Nat
  BY <1>1, <1>9, WrittenNat
<1>11. \A y \in Complete(files) : \E z \in Complete(files') : y <= z
  BY <1>1, <1>6, CompleteNat
<1>12. Once(compactor.picked)'
  BY <1>3 DEF OrderInv
<1>13. OrderInv'
  BY <1>3, <1>8, <1>9, <1>10, <1>11, <1>12, OrderKept
<1>. QED BY <1>7, <1>13

LEMMA ManifestOrderKept ==
    ASSUME Good, Next1, NEW line \in Lines, persistManifest(line),
           UNCHANGED <<compactor, files, sstables, nextFileID>>,
           \A g \in flushers' : g \in flushers \/ (~Writing(g) /\ g.line \in Lines)
    PROVE  OrderInv' /\ MergeOrderInv'
<1>. USE DEF Good, Next1
<1>1. MergeOrderInv'
  BY DEF MergeOrderInv, MergeOrder
<1>2. manifest' \in Lines
  BY DEF persistManifest, Lines
<1>3. \A L \in Lines' : L \in Lines
  BY <1>2 DEF Lines
<1>4. \A x \in WrittenFiles' : x \in WrittenFiles
  BY DEF WrittenFiles
<1>5. \A x \in WrittenFiles' : x \in Nat
  BY <1>4, WrittenNat DEF EngineInv
<1>6. \A y \in Complete(files) : \E z \in Complete(files') : y <= z
  BY CompleteNat DEF EngineInv
<1>7. Once(compactor.picked)'
  BY DEF OrderInv
<1>8. OrderInv'
  BY <1>3, <1>4, <1>5, <1>6, <1>7, OrderKept
<1>. QED BY <1>1, <1>8

LEMMA FlushInstallOrder ==
    ASSUME Good, Next1, NEW g \in flushers, FlushInstall(g)
    PROVE  OrderInv' /\ MergeOrderInv'
<1>. USE DEF Good, Next1
<1>0. PICK f, h, list2, W2 :
         /\ f = g.file /\ list2 = sstables' /\ W2 = WrittenFiles'
         /\ h = [g EXCEPT !.stage = "manifest", !.line = sstables']
  OBVIOUS
<1>1. MergeOrder /\ Writers /\ TypeOK /\ TypeOK' /\ AllListed' /\ Writers'
  BY DEF FileInv, EngineInv, MergeOrderInv
<1>2. g.stage = "install" /\ g \in FlushRecord /\ f \in Nat /\ sstables \in Seq(Nat)
  BY <1>0, <1>1 DEF FlushInstall, TypeOK, FlushRecord
<1>3. /\ flushers' = (flushers \ {g}) \cup {h} /\ list2 = Append(sstables, f)
      /\ UNCHANGED <<files, compactor, manifest, nextFileID>>
  BY <1>0 DEF FlushInstall, Advance, Appended, diskVars
<1>4. h.stage = "manifest" /\ h.line = list2
  BY <1>0, <1>2 DEF FlushRecord
<1>5. Writing(g) /\ Owned(g) /\ f \in WrittenFiles
  BY <1>0, <1>1, <1>2 DEF Writers, Writing, WrittenFiles
<1>6. Range(list2) = Range(sstables) \cup {f}
  BY <1>2, <1>3, AppendRange
<1>7. \A x, y : Before(list2, x, y) <=> Before(sstables, x, y) \/ (x \in Range(sstables) /\ y = f)
  BY <1>2, <1>3, BeforeAppend
<1>8. MergeOrderInv'
  BY <1>0, <1>1, <1>3, <1>6 DEF MergeOrderInv, MergeOrder
<1>9. ~Writing(h)
  BY <1>4 DEF Writing
<1>10. W2 \subseteq WrittenFiles
  BY <1>0, <1>3, <1>9 DEF WrittenFiles
<1>11. ASSUME NEW x \in W2 PROVE x \notin Range(list2)
  BY <1>0, <1>1, <1>11 DEF WrittenFiles, Writers, Owned
<1>12. \A L \in Lines :
          L \in Seq(Nat) /\ LineOK(L, sstables, compactor.picked, WrittenFiles, Complete(files))
  BY <1>1, LinesTyped DEF OrderInv
<1>13. sstables \in Lines
  BY DEF Lines
<1>14. ASSUME NEW L \in Lines
       PROVE  LineOK(L, list2, compactor.picked, W2, Complete(files))
  <2>1. f \notin Range(L) /\ Agree(L, sstables)
    BY <1>5, <1>12 DEF LineOK
  <2>2. Agree(L, list2)
    BY <1>7, <2>1 DEF Agree
  <2>. QED BY <1>10, <1>12, <2>2 DEF LineOK
<1>15. LineOK(list2, list2, compactor.picked, W2, Complete(files))
  <2>1. f \notin Range(sstables) /\ f \notin Range(compactor.picked)
    BY <1>0, <1>5 DEF Owned
  <2>2. Once(sstables) /\ Agree(sstables, compactor.picked)
    BY <1>12, <1>13 DEF LineOK
  <2>3. Once(list2)
    BY <1>7, <2>1, <2>2 DEF Once
  <2>4. Agree(list2, compactor.picked)
    <3>1. \A x, y : Before(compactor.picked, x, y) => y \in Range(compactor.picked)
      BY BeforeListed
    <3>. QED BY <1>6, <1>7, <2>1, <2>2, <3>1 DEF Agree
  <2>5. \A x \in Range(list2) : x \in Complete(files) /\ x <= x
    <3>1. \A x \in Range(list2) : x \in Complete(files)
      BY <1>0, <1>1, <1>3 DEF AllListed
    <3>2. Complete(files) \subseteq Nat
      BY <1>1, CompleteNat
    <3>. QED BY <3>1, <3>2
  <2>. QED BY <1>11, <2>3, <2>4, <2>5 DEF LineOK, Agree
<1>16. \A L \in Lines' : L \in Lines \/ L = list2
  BY <1>0, <1>3, <1>4 DEF Lines
<1>17. \A L \in Lines' : LineOK(L, list2, compactor.picked, W2, Complete(files))
  BY <1>14, <1>15, <1>16
<1>18. OrderInv'
  <2>1. Once(compactor.picked)
    BY DEF OrderInv
  <2>. QED BY <1>0, <1>3, <1>17, <2>1 DEF OrderInv
<1>. QED BY <1>8, <1>18

LEMMA CompactMergeOrder ==
    ASSUME Good, Next1, Merged
    PROVE  OrderInv' /\ MergeOrderInv'
<1>. USE DEF Good, Next1
<1>0. PICK p : p = pickCompactionFiles
  OBVIOUS
<1>1. MergeOrder /\ TypeOK /\ AllListed
  BY DEF FileInv, EngineInv, MergeOrderInv
<1>2. /\ Len(sstables) >= CompactionThreshold /\ sstables \in Seq(Nat)
      /\ UNCHANGED <<files, sstables, nextFileID, flushers, manifest>>
  BY <1>1 DEF Merged, MayCompact, TypeOK, memVars, diskVars
<1>3. /\ compactor'.stage = "reserve" /\ compactor'.picked = p /\ compactor'.file = 0
      /\ compactor'.line = <<>>
  BY <1>0 DEF Merged, Idle
<1>4. /\ Range(p) \subseteq Range(sstables)
      /\ \A x, y : Before(p, x, y) => Before(sstables, x, y)
  BY <1>0, <1>2, SizeAssumption, BeforePrefix DEF pickCompactionFiles
<1>5. MergeOrderInv'
  BY <1>1, <1>2, <1>3, <1>4 DEF MergeOrderInv, MergeOrder, AllListed
<1>6. \A L \in Lines' : L \in Lines \/ L = <<>>
  BY <1>2, <1>3 DEF Lines
<1>7. \A x \in WrittenFiles' : x \in WrittenFiles
  BY <1>2, <1>3 DEF WrittenFiles, Writing
<1>8. \A x \in WrittenFiles' : x \in Nat
  BY <1>1, <1>7, WrittenNat
<1>9. \A y \in Complete(files) : \E z \in Complete(files') : y <= z
  BY <1>1, <1>2, CompleteNat
<1>10. Once(compactor.picked)'
  <2>1. Once(sstables)
    BY DEF OrderInv, Lines, LineOK
  <2>. QED BY <1>3, <1>4, <2>1 DEF Once
<1>11. OrderInv'
  BY <1>2, <1>3, <1>4, <1>6, <1>7, <1>8, <1>9, <1>10, OrderKept
<1>. QED BY <1>5, <1>11

LEMMA CompactReserveOrder ==
    ASSUME Good, Next1, CompactReserve
    PROVE  OrderInv' /\ MergeOrderInv'
<1>. USE DEF Good, Next1
<1>0. PICK f, h : /\ f = nextFileID
                  /\ h = [compactor EXCEPT !.stage = "blocks", !.file = nextFileID]
  OBVIOUS
<1>1. FreshIDs /\ MergeOrder /\ Picked /\ phase # "down" /\ TypeOK
  BY CompactorRuns DEF FileInv, EngineInv, MergeOrderInv, CompactReserve
<1>2. /\ files' = With(files, f, Short) /\ nextFileID' = f + 1 /\ compactor' = h
      /\ UNCHANGED <<sstables, flushers, manifest>>
  BY <1>0 DEF CompactReserve, AdvancedID, memVars
<1>3. /\ f \in Nat /\ f # 0 /\ h.stage = "blocks" /\ h.file = f /\ h.line = compactor.line
      /\ h.picked = compactor.picked
  BY <1>0, <1>1 DEF TypeOK, CompactRecord, MergeOrder
<1>4. \A y \in Complete(files) : y < f
  BY <1>0, <1>1 DEF FreshIDs
<1>5. f \notin Complete(files)
  BY <1>3, <1>4
<1>6. DOMAIN files' = DOMAIN files \cup {f} /\ Complete(files') = Complete(files)
  BY <1>2, <1>5, CreatedFile
<1>7. MergeOrderInv'
  <2>1. f + 1 # 0
    BY <1>3
  <2>2. \A x \in Range(h.picked) : x < h.file
    BY <1>0, <1>1, <1>3 DEF Picked
  <2>. QED BY <1>1, <1>2, <1>3, <1>6, <2>1, <2>2 DEF MergeOrderInv, MergeOrder
<1>8. \A L \in Lines' : L \in Lines
  BY <1>2, <1>3 DEF Lines
<1>9. \A x \in WrittenFiles' : x \in WrittenFiles \/ x = f
  BY <1>2, <1>3 DEF WrittenFiles
<1>10. \A x \in WrittenFiles' : x \in Nat
  BY <1>1, <1>3, <1>9, WrittenNat
<1>11. \A y \in Complete(files) : \E z \in Complete(files') : y <= z
  BY <1>1, <1>6, CompleteNat
<1>12. Once(compactor.picked)'
  BY <1>2, <1>3 DEF OrderInv
<1>13. OrderInv'
  BY <1>2, <1>3, <1>4, <1>8, <1>9, <1>10, <1>11, <1>12, OrderKept
<1>. QED BY <1>7, <1>13

\* The writes to the file, and the manifest line.
LEMMA CompactWriteOrder ==
    ASSUME Good, Next1, CompactWrite \/ CompactManifest
    PROVE  OrderInv' /\ MergeOrderInv'
<1>. USE DEF Good, Next1
<1>0. PICK c, h : c = compactor /\ h = compactor'
  OBVIOUS
<1>1. MergeOrder /\ Writers /\ TypeOK /\ c \in CompactRecord
  BY <1>0 DEF FileInv, EngineInv, MergeOrderInv, TypeOK
<1>2. PICK s : /\ h = [c EXCEPT !.stage = s]
               /\ \/ c.stage \in {"blocks", "footer"} /\ s \in {"footer", "install"}
                  \/ c.stage = "manifest" /\ s = "remove"
  BY <1>0 DEF CompactWrite, CompactManifest
<1>3. h.stage = s /\ h.file = c.file /\ h.line = c.line /\ h.picked = c.picked
  BY <1>1, <1>2 DEF CompactRecord
<1>4. UNCHANGED <<sstables, flushers, nextFileID>> /\ manifest' \in {manifest, c.line}
  BY <1>0 DEF CompactWrite, CompactManifest, persistManifest, memVars
<1>5. DOMAIN files' = DOMAIN files /\ Complete(files) \subseteq Complete(files')
  <2>1. CASE CompactManifest
    BY <2>1 DEF CompactManifest
  <2>2. CASE CompactWrite
    <3>1. Writing(c) /\ c.file \notin Complete(files)
      BY <1>0, <1>1, <2>2 DEF Writers, Writing, Owned, CompactWrite
    <3>2. PICK t : files' = [files EXCEPT ![c.file] = t]
      BY <1>0, <2>2 DEF CompactWrite
    <3>. QED BY <3>1, <3>2 DEF Complete
  <2>. QED BY <2>1, <2>2
<1>6. MergeOrderInv'
  BY <1>0, <1>1, <1>2, <1>3, <1>4, <1>5 DEF MergeOrderInv, MergeOrder
<1>7. \A L \in Lines' : L \in Lines
  BY <1>0, <1>3, <1>4 DEF Lines
<1>8. \A x \in WrittenFiles' : x \in WrittenFiles
  <2>1. Writing(h) => Writing(c)
    BY <1>2, <1>3 DEF Writing
  <2>2. \A x \in WrittenFiles' :
            (\E g \in flushers : Writing(g) /\ x = g.file) \/ (Writing(h) /\ x = h.file)
    BY <1>0, <1>4 DEF WrittenFiles
  <2>3. \A x : (\E g \in flushers : Writing(g) /\ x = g.file) \/ (Writing(c) /\ x = c.file)
            => x \in WrittenFiles
    BY <1>0 DEF WrittenFiles
  <2>. QED BY <1>3, <2>1, <2>2, <2>3
<1>9. \A x \in WrittenFiles' : x \in Nat
  BY <1>1, <1>8, WrittenNat
<1>10. \A y \in Complete(files) : \E z \in Complete(files') : y <= z
  BY <1>1, <1>5, CompleteNat
<1>11. Once(compactor.picked)'
  BY <1>0, <1>3 DEF OrderInv
<1>12. OrderInv'
  BY <1>0, <1>3, <1>4, <1>7, <1>8, <1>9, <1>10, <1>11, OrderKept
<1>. QED BY <1>6, <1>12

LEMMA CompactFailsOrder ==
    ASSUME Good, Next1, CompactFails
    PROVE  OrderInv' /\ MergeOrderInv'
<1>. USE DEF Good, Next1
<1>1. MergeOrder /\ TypeOK
  BY DEF FileInv, EngineInv, MergeOrderInv
<1>2. UNCHANGED <<sstables, flushers, manifest, files>> /\ nextFileID' # 0
  BY <1>1 DEF CompactFails, AdvancedID, MergeOrder, TypeOK, memVars, diskVars
<1>3. /\ compactor'.stage = "idle" /\ compactor'.picked = <<>> /\ compactor'.file = 0
      /\ compactor'.line = <<>>
  BY DEF CompactFails, Idle
<1>4. MergeOrderInv'
  BY <1>1, <1>2, <1>3, BeforeEmpty DEF MergeOrderInv, MergeOrder
<1>5. \A L \in Lines' : L \in Lines \/ L = <<>>
  BY <1>2, <1>3 DEF Lines
<1>6. \A x \in WrittenFiles' : x \in WrittenFiles
  BY <1>2, <1>3 DEF WrittenFiles, Writing
<1>7. \A x \in WrittenFiles' : x \in Nat
  BY <1>1, <1>6, WrittenNat
<1>8. \A y \in Complete(files) : \E z \in Complete(files') : y <= z
  BY <1>1, <1>2, CompleteNat
<1>9. Once(compactor.picked)'
  BY <1>3, BeforeEmpty
<1>10. OrderInv'
  BY <1>2, <1>3, <1>5, <1>6, <1>7, <1>8, <1>9, BeforeEmpty, OrderKept
<1>. QED BY <1>4, <1>10

LEMMA CompactInstallOrder ==
    ASSUME Good, Next1, CompactInstall
    PROVE  OrderInv' /\ MergeOrderInv'
<1>. USE DEF Good, Next1
<1>0. PICK c, f, h, list2, W2 :
         /\ c = compactor /\ f = compactor.file /\ list2 = sstables' /\ W2 = WrittenFiles'
         /\ h = [compactor EXCEPT !.stage = "manifest", !.line = sstables']
  OBVIOUS
<1>1. MergeOrder /\ Writers /\ TypeOK /\ AllListed' /\ Writers' /\ Picked'
  BY DEF FileInv, EngineInv, MergeOrderInv
<1>2. c.stage = "install" /\ c \in CompactRecord /\ f \in Nat /\ sstables \in Seq(Nat)
  BY <1>0, <1>1 DEF CompactInstall, TypeOK, CompactRecord
<1>3. /\ compactor' = h /\ list2 = Replaced(sstables, c.picked, f)
      /\ UNCHANGED <<files, flushers, manifest, nextFileID>>
  BY <1>0 DEF CompactInstall, diskVars
<1>4. h.stage = "manifest" /\ h.line = list2 /\ h.picked = c.picked /\ h.file = f
  BY <1>0, <1>2 DEF CompactRecord
<1>5. Writing(c) /\ Owned(c) /\ f \in WrittenFiles
  BY <1>0, <1>1, <1>2 DEF Writers, Writing, WrittenFiles
<1>6. Range(list2) = (Range(sstables) \ Range(c.picked)) \cup {f}
  BY <1>0, <1>2, <1>3, <1>5, ReplacedParts DEF Owned
<1>7. \A x, y : Before(list2, x, y) =>
                   Before(sstables, x, y) \/ (x \in Range(sstables) /\ y = f)
  BY <1>2, <1>3, BeforeReplaced
<1>8. MergeOrderInv'
  BY <1>0, <1>1, <1>2, <1>3, <1>4, <1>6 DEF MergeOrderInv, MergeOrder
<1>9. ~Writing(h)
  BY <1>4 DEF Writing
<1>10. W2 \subseteq WrittenFiles
  BY <1>0, <1>3, <1>9 DEF WrittenFiles
<1>11. ASSUME NEW x \in W2 PROVE x \notin Range(list2)
  BY <1>0, <1>1, <1>11 DEF WrittenFiles, Writers, Owned
<1>12. \A L \in Lines :
          L \in Seq(Nat) /\ LineOK(L, sstables, c.picked, WrittenFiles, Complete(files))
  BY <1>0, <1>1, LinesTyped DEF OrderInv
<1>13. sstables \in Lines
  BY DEF Lines
<1>14. ASSUME NEW L \in Lines
       PROVE  LineOK(L, list2, c.picked, W2, Complete(files))
  <2>1. f \notin Range(L) /\ Agree(L, sstables)
    BY <1>5, <1>12 DEF LineOK
  <2>2. Agree(L, list2)
    BY <1>7, <2>1 DEF Agree
  <2>. QED BY <1>10, <1>12, <2>2 DEF LineOK
<1>15. LineOK(list2, list2, c.picked, W2, Complete(files))
  <2>1. f \notin Range(sstables) /\ f \notin Range(c.picked)
    BY <1>0, <1>5 DEF Owned
  <2>2. Once(sstables)
    BY <1>12, <1>13 DEF LineOK
  <2>3. Once(list2)
    BY <1>7, <2>1, <2>2 DEF Once
  <2>4. Agree(list2, c.picked)
    <3>1. \A x, y : Before(c.picked, x, y) => y \in Range(c.picked)
      BY BeforeListed
    <3>. QED BY <1>6, <2>1, <3>1 DEF Agree
  <2>5. \A x \in Range(list2) : x \in Complete(files) /\ x <= x
    <3>1. \A x \in Range(list2) : x \in Complete(files)
      BY <1>0, <1>1, <1>3 DEF AllListed
    <3>2. Complete(files) \subseteq Nat
      BY <1>1, CompleteNat
    <3>. QED BY <3>1, <3>2
  <2>. QED BY <1>11, <2>3, <2>4, <2>5 DEF LineOK, Agree
<1>16. \A L \in Lines' : L \in Lines \/ L = list2
  BY <1>0, <1>3, <1>4 DEF Lines
<1>17. \A L \in Lines' : LineOK(L, list2, c.picked, W2, Complete(files))
  BY <1>14, <1>15, <1>16
<1>18. OrderInv'
  <2>1. Once(c.picked)
    BY <1>0 DEF OrderInv
  <2>. QED BY <1>0, <1>3, <1>4, <1>17, <2>1 DEF OrderInv
<1>. QED BY <1>8, <1>18

LEMMA CompactRemoveOrder ==
    ASSUME Good, Next1, CompactRemove
    PROVE  OrderInv' /\ MergeOrderInv'
<1>. USE DEF Good, Next1
<1>0. PICK c, h, x : c = compactor /\ h = compactor' /\ x = Head(compactor.picked)
  OBVIOUS
<1>1. MergeOrder /\ TypeOK /\ Shape /\ AllListed /\ c.stage = "remove" /\ Once(c.picked)
  BY <1>0 DEF FileInv, EngineInv, MergeOrderInv, CompactRemove, OrderInv
<1>2. c \in CompactRecord /\ c.picked \in Seq(Nat) /\ c.picked # <<>> /\ c.file \in Nat
  BY <1>0, <1>1 DEF TypeOK, CompactRecord, Shape
<1>3. UNCHANGED <<sstables, flushers, nextFileID, manifest>>
  BY DEF CompactRemove, memVars
<1>4. /\ x \in Range(c.picked) /\ Range(Tail(c.picked)) \subseteq Range(c.picked)
      /\ \A y \in Range(Tail(c.picked)) : Before(c.picked, x, y)
      /\ \A a, b : Before(Tail(c.picked), a, b) => Before(c.picked, a, b)
  BY <1>0, <1>2, BeforeTail, PickedParts
<1>5. x \notin Range(Tail(c.picked))
  BY <1>1, <1>4 DEF Once
<1>6. \/ h.picked = Tail(c.picked) /\ h.stage = "remove" /\ h.file = c.file /\ h.line = c.line
      \/ h.picked = <<>> /\ h.stage = "idle" /\ h.file = 0 /\ h.line = <<>>
  <2>1. CASE Len(c.picked) = 1
    BY <1>0, <2>1 DEF CompactRemove, Idle
  <2>2. CASE Len(c.picked) # 1
    <3>1. h = [c EXCEPT !.picked = Tail(c.picked)]
      BY <1>0, <2>2 DEF CompactRemove
    <3>. QED BY <1>1, <1>2, <3>1 DEF CompactRecord
  <2>. QED BY <2>1, <2>2
<1>7. /\ DOMAIN files' \subseteq DOMAIN files
      /\ Complete(files) \ {x} \subseteq Complete(files')
  <2>1. CASE files' = files
    BY <2>1
  <2>2. CASE files' = Restrict(files, DOMAIN files \ {x})
    <3>1. PICK fs, gs : fs = files /\ gs = files' /\ gs = Restrict(fs, DOMAIN fs \ {x})
      BY <2>2
    <3>2. DOMAIN gs = DOMAIN fs \ {x} /\ Complete(gs) = Complete(fs) \ {x}
      BY <3>1, RemovedFile
    <3>. QED BY <3>1, <3>2
  <2>. QED BY <1>0, <2>1, <2>2 DEF CompactRemove
<1>8. Range(h.picked) \subseteq Range(c.picked) \ {x}
  BY <1>4, <1>5, <1>6, BeforeEmpty
<1>9. MergeOrderInv'
  BY <1>0, <1>1, <1>3, <1>6, <1>7, <1>8 DEF MergeOrderInv, MergeOrder
<1>10. \A y \in Complete(files) : \E z \in Complete(files') : y <= z
  <2>1. x < c.file /\ c.file \in Complete(files) /\ x \in Nat
    BY <1>0, <1>1, <1>2, <1>4, SeqParts DEF MergeOrder, AllListed
  <2>2. c.file \in Complete(files') /\ x <= c.file
    BY <1>2, <1>7, <2>1
  <2>3. \A y \in Complete(files) : y = x \/ (y \in Complete(files') /\ y <= y)
    BY <1>1, <1>7, CompleteNat
  <2>. QED BY <2>2, <2>3
<1>11. \A L \in Lines' : L \in Lines \/ L = <<>>
  BY <1>0, <1>3, <1>6 DEF Lines
<1>12. \A y \in WrittenFiles' : y \in WrittenFiles
  BY <1>0, <1>3, <1>6 DEF WrittenFiles, Writing
<1>13. \A y \in WrittenFiles' : y \in Nat
  BY <1>1, <1>12, WrittenNat
<1>14. \A a, b : Before(h.picked, a, b) => Before(c.picked, a, b)
  BY <1>4, <1>6, BeforeEmpty
<1>15. Once(compactor.picked)'
  BY <1>0, <1>1, <1>14 DEF Once
<1>16. OrderInv'
  BY <1>0, <1>3, <1>10, <1>11, <1>12, <1>13, <1>14, <1>15, OrderKept
<1>. QED BY <1>9, <1>16

LEMMA NoAgreement ==
    ASSUME NEW L
    PROVE  Agree(L, <<>>)
BY BeforeEmpty DEF Agree

LEMMA CrashOrder ==
    ASSUME Good, Next1, Crash
    PROVE  OrderInv' /\ MergeOrderInv'
<1>. USE DEF Good, Next1
<1>1. /\ files' = files /\ manifest' = manifest /\ sstables' = <<>> /\ flushers' = {}
      /\ compactor' = Idle /\ nextFileID' = 1
  BY DEF Crash, diskVars
<1>2. /\ compactor'.stage = "idle" /\ compactor'.picked = <<>> /\ compactor'.file = 0
      /\ compactor'.line = <<>>
  BY <1>1 DEF Idle
<1>3. MergeOrderInv'
  BY <1>1, <1>2, BeforeEmpty DEF MergeOrderInv, MergeOrder
<1>4. WrittenFiles' = {}
  BY <1>1, <1>2 DEF WrittenFiles, Writing
<1>5. LineOK(manifest, sstables, compactor.picked, WrittenFiles, Complete(files))
  BY DEF OrderInv, Lines
<1>6. LineOK(manifest, <<>>, <<>>, {}, Complete(files))
  BY <1>5, NoAgreement DEF LineOK
<1>7. \A L \in Lines' : L = manifest \/ L = <<>>
  BY <1>1, <1>2 DEF Lines
<1>8. \A L \in Lines' : LineOK(L, <<>>, <<>>, {}, Complete(files))
  BY <1>6, <1>7, EmptyLine
<1>9. OrderInv'
  BY <1>1, <1>2, <1>4, <1>8, BeforeEmpty DEF OrderInv
<1>. QED BY <1>3, <1>9

LEMMA OpenOrder ==
    ASSUME Good, Next1, Opened
    PROVE  OrderInv' /\ MergeOrderInv'
<1>. USE DEF Good, Next1
<1>0. PICK C, list2 : C = Complete(files) /\ list2 = sstables'
  OBVIOUS
<1>1. FreshIDs /\ TypeOK /\ Shape /\ Goroutines /\ MergeOrder /\ phase = "down"
  BY DEF FileInv, EngineInv, Opened, OpenWith, MergeOrderInv
<1>2. TornFiles(files) = {} /\ compactor = Idle /\ flushers = {}
  BY <1>1 DEF FreshIDs, Goroutines
<1>3. Bounded(C) /\ C \subseteq Nat /\ manifest \in Seq(Nat)
  <2>1. C \subseteq DOMAIN files
    BY <1>0 DEF Complete
  <2>. QED BY <1>0, <1>1, <2>1, BoundedSubset DEF Shape, TypeOK, Bounded
<1>4. list2 = applyManifestOrder(manifest, C)
  BY <1>0, <1>2 DEF Opened, OpenWith, loadSSTables
<1>5. UNCHANGED <<files, manifest, compactor>> /\ nextFileID' = NextIDAfterLoad(files)
  BY DEF Opened, OpenWith, diskVars
<1>6. \A g \in flushers' : g.stage = "reserve" /\ g.line = <<>>
  BY <1>2 DEF Opened, OpenWith
<1>7. /\ compactor'.stage = "idle" /\ compactor'.picked = <<>> /\ compactor'.file = 0
      /\ compactor'.line = <<>>
  BY <1>2, <1>5 DEF Idle
<1>8. WrittenFiles' = {}
  BY <1>6, <1>7 DEF WrittenFiles, Writing
<1>9. nextFileID' # 0
  BY <1>1, <1>5, NextIDAbove, DiskOK DEF Shape
<1>10. MergeOrderInv'
  BY <1>1, <1>5, <1>7, <1>9, BeforeEmpty DEF MergeOrderInv, MergeOrder
<1>11. /\ list2 \in Seq(Nat) /\ Range(list2) = C
       /\ \A x, y : Before(list2, x, y) <=> x \in C /\ y \in C /\ ManifestOrder(manifest, x, y)
  BY <1>3, <1>4, BeforeManifest
<1>12. LineOK(manifest, sstables, compactor.picked, WrittenFiles, C)
  BY <1>0 DEF OrderInv, Lines
<1>13. LineOK(manifest, list2, <<>>, {}, C)
  <2>1. Agree(manifest, list2)
    BY <1>11 DEF Agree, ManifestOrder
  <2>. QED BY <1>12, <2>1, NoAgreement DEF LineOK
<1>14. LineOK(list2, list2, <<>>, {}, C)
  <2>1. Once(list2)
    BY <1>3, <1>4, <1>12, OnceManifest DEF LineOK
  <2>2. \A x \in C : x <= x
    BY <1>3
  <2>. QED BY <1>11, <2>1, <2>2, NoAgreement DEF LineOK, Agree
<1>15. \A L \in Lines' : L = manifest \/ L = <<>> \/ L = list2
  BY <1>0, <1>5, <1>6, <1>7 DEF Lines
<1>16. \A L \in Lines' : LineOK(L, list2, <<>>, {}, C)
  BY <1>13, <1>14, <1>15, EmptyLine
<1>17. OrderInv'
  BY <1>0, <1>5, <1>7, <1>8, <1>16, BeforeEmpty DEF OrderInv
<1>. QED BY <1>10, <1>17

LEMMA OrderInit == Init => OrderInv /\ MergeOrderInv
<1>. SUFFICES ASSUME Init PROVE OrderInv /\ MergeOrderInv
  OBVIOUS
<1>1. /\ DOMAIN files = {} /\ sstables = <<>> /\ flushers = {} /\ compactor = Idle
      /\ manifest = <<>> /\ nextFileID = 1
  BY DEF Init
<1>2. /\ compactor.stage = "idle" /\ compactor.picked = <<>> /\ compactor.file = 0
      /\ compactor.line = <<>>
  BY <1>1 DEF Idle
<1>3. \A L \in Lines : L = <<>>
  BY <1>1, <1>2 DEF Lines
<1>. QED BY <1>1, <1>2, <1>3, BeforeEmpty, EmptyLine DEF OrderInv, MergeOrderInv, MergeOrder

LEMMA OrderStep ==
    EngineInv /\ FileInv /\ OrderInv /\ MergeOrderInv /\ [Next]_vars
        => OrderInv' /\ MergeOrderInv'
<1>. SUFFICES ASSUME EngineInv, FileInv, OrderInv, MergeOrderInv, [Next]_vars, ~damaged'
              PROVE  OrderInv' /\ MergeOrderInv'
  BY DEF OrderInv, MergeOrderInv
<1>1. Good /\ Next1
  BY DamageStays, EngineStep, FileStep DEF EngineInv, Good, Next1
<1>2. CASE UNCHANGED vars
  BY <1>1, <1>2, OrderQuiet DEF vars, memVars, diskVars, NextIDKept
<1>3. ASSUME NEW k \in Key, NEW v \in Entries, AppendWAL(k, v) \/ AppendFails(k, v)
      PROVE  OrderInv' /\ MergeOrderInv'
  BY <1>1, <1>3, OrderQuiet DEF AppendWAL, AppendFails, memVars, NextIDKept
<1>4. CASE WriteMemTable
  <2>1. UNCHANGED <<files, manifest, sstables, nextFileID, compactor>>
    BY <1>4 DEF WriteMemTable, diskVars
  <2>2. \A g \in flushers' : g \in flushers \/ (g.stage = "reserve" /\ g.line = <<>>)
    BY <1>4 DEF WriteMemTable
  <2>. QED BY <1>1, <2>1, <2>2, OrderQuiet DEF Writing, NextIDKept
<1>5. CASE PreAllocate \/ InstallNextWAL
  BY <1>1, <1>5, OrderQuiet DEF PreAllocate, InstallNextWAL, memVars, diskVars, NextIDKept
<1>6. ASSUME NEW g \in flushers, FlushManifest(g) PROVE OrderInv' /\ MergeOrderInv'
  <2>1. g.line \in Lines /\ persistManifest(g.line)
    BY <1>6 DEF Lines, FlushManifest
  <2>2. UNCHANGED <<compactor, files, sstables, nextFileID>>
    BY <1>6 DEF FlushManifest, memVars
  <2>3. PICK h : h = [g EXCEPT !.stage = "delete"]
    OBVIOUS
  <2>4. g \in FlushRecord
    BY DEF EngineInv, TypeOK
  <2>5. h.stage = "delete" /\ h.line = g.line
    BY <2>3, <2>4 DEF FlushRecord
  <2>6. \A x \in flushers' : x \in flushers \/ x = h
    BY <1>6, <2>3 DEF FlushManifest, Advance
  <2>. QED BY <1>1, <2>1, <2>2, <2>5, <2>6, ManifestOrderKept DEF Writing
<1>7. ASSUME NEW g \in flushers, FlushDeleteWAL(g) \/ FlushFails(g)
      PROVE  OrderInv' /\ MergeOrderInv'
  BY <1>1, <1>7, OrderQuiet
     DEF FlushDeleteWAL, FlushFails, AdvancedID, NextIDKept, memVars, diskVars
<1>8. ASSUME NEW g \in flushers, FlushStep(g) \/ FlushFails(g) PROVE OrderInv' /\ MergeOrderInv'
  BY <1>1, <1>6, <1>7, <1>8, FlushReserveOrder, FlushBlocksOrder, FlushInstallOrder
     DEF FlushStep
<1>9. ASSUME NEW r \in Reader, NEW k \in Key, GetSnapshot(r, k) PROVE OrderInv' /\ MergeOrderInv'
  BY <1>1, <1>9, OrderQuiet DEF GetSnapshot, memVars, diskVars, NextIDKept
<1>10. ASSUME NEW r \in Reader, GetFromTable(r) PROVE OrderInv' /\ MergeOrderInv'
  BY <1>1, <1>10, OrderQuiet DEF GetFromTable, memVars, diskVars, NextIDKept
<1>11. CASE CompactMerge \/ MergeFails
  <2>1. CASE Merged
    BY <1>1, <2>1, CompactMergeOrder
  <2>2. CASE Untouched
    BY <1>1, <2>2, OrderQuiet DEF Untouched, memVars, diskVars, NextIDKept
  <2>. QED BY <1>11, <2>1, <2>2, MergeOutcome
<1>13. CASE CompactStep \/ CompactFails
  BY <1>1, <1>11, <1>13, CompactReserveOrder, CompactWriteOrder,
     CompactInstallOrder, CompactRemoveOrder, CompactFailsOrder DEF CompactStep
<1>12. CASE RemoveOldWAL \/ Serve
  BY <1>1, <1>12, OrderQuiet DEF RemoveOldWAL, Serve, memVars, NextIDKept
<1>14. CASE Open \/ OpenFails
  BY <1>1, <1>14, OpenOutcome, OpenOrder
<1>. QED BY <1>1, <1>2, <1>3, <1>4, <1>5, <1>8, <1>9, <1>10, <1>11, <1>12, <1>13, <1>14, CrashOrder
         DEF Next, NewDB

-----------------------------------------------------------------------------
(* What the tables of a compaction hold.                                     *)

\* What a step keeps of the complete files.
Kept == \A x \in Complete(files) : x \in Complete(files') /\ files'[x] = files[x]

LEMMA OtherFiles ==
    ASSUME Good, Next1, [Next]_vars, ~CompactRemove
    PROVE  Kept
<1>. USE DEF Good, Next1
<1>1. DOMAIN files \subseteq DOMAIN files'
  <2>1. ASSUME NEW g, FlushReserve(g) PROVE DOMAIN files \subseteq DOMAIN files'
    BY <2>1 DEF FlushReserve, With, Over
  <2>2. ASSUME NEW g, FlushBlocks(g) \/ FlushFooter(g) PROVE DOMAIN files \subseteq DOMAIN files'
    BY <2>2 DEF FlushBlocks, FlushFooter
  <2>3. CASE CompactReserve
    BY <2>3 DEF CompactReserve, With, Over
  <2>4. CASE CompactWrite
    BY <2>4 DEF CompactWrite
  <2>5. CASE UNCHANGED files
    BY <2>5
  <2>6. ASSUME NEW g, FlushInstall(g) \/ FlushManifest(g) \/ FlushDeleteWAL(g) \/ FlushFails(g)
        PROVE  UNCHANGED files
    BY <2>6 DEF FlushInstall, FlushManifest, FlushDeleteWAL, FlushFails, diskVars
  <2>7. ASSUME NEW k \in Key, NEW v \in Entries, AppendWAL(k, v) \/ AppendFails(k, v)
        PROVE  UNCHANGED files
    BY <2>7 DEF AppendWAL, AppendFails
  <2>8. ASSUME NEW r \in Reader, NEW k \in Key, GetSnapshot(r, k) PROVE UNCHANGED files
    BY <2>8 DEF GetSnapshot, diskVars
  <2>9. ASSUME NEW r \in Reader, GetFromTable(r) PROVE UNCHANGED files
    BY <2>9 DEF GetFromTable, diskVars
  <2>10. CASE \/ WriteMemTable \/ PreAllocate \/ InstallNextWAL \/ CompactFails \/ NewDB \/ Crash
              \/ CompactMerge \/ CompactInstall \/ CompactManifest \/ MergeFails \/ OpenFails
    BY <2>10 DEF WriteMemTable, PreAllocate, InstallNextWAL, CompactFails, NewDB, Open,
                 RemoveOldWAL, Serve, Crash, CompactMerge, CompactInstall, CompactManifest,
                 MergeFails, OpenFails, OpenWith, diskVars
  <2>11. CASE UNCHANGED vars
    BY <2>11 DEF vars, diskVars
  <2>. QED BY <2>1, <2>2, <2>3, <2>4, <2>5, <2>6, <2>7, <2>8, <2>9, <2>10, <2>11
           DEF Next, FlushStep, CompactStep
<1>2. ASSUME NEW x \in Complete(files) PROVE x \in Complete(files') /\ files'[x] = files[x]
  <2>1. x \in DOMAIN files' /\ x \in DOMAIN files /\ files[x] \notin {Short, Torn}
    BY <1>1 DEF Complete
  <2>2. files'[x] = files[x]
    BY <2>1, ImmutableStep
  <2>. QED BY <2>1, <2>2 DEF Complete
<1>. QED BY <1>2 DEF Kept

\* A file becomes complete in the hands of its writer.
LEMMA NewFiles ==
    ASSUME Good, Next1, [Next]_vars
    PROVE  \A x \in Complete(files') : x \in Complete(files) \/ x \in WrittenFiles
<1>. USE DEF Good, Next1
<1>. DEFINE G == \A x \in Complete(files') : x \in Complete(files) \/ x \in WrittenFiles
<1>1. ASSUME NEW f, files' = With(files, f, Short) PROVE G
  <2>1. ASSUME NEW x \in Complete(files') PROVE x \in Complete(files)
    <3>1. x # f
      BY <1>1 DEF Complete, With, Over, Single
    <3>. QED BY <1>1, <3>1 DEF Complete, With, Over, Single
  <2>. QED BY <2>1
<1>2. ASSUME NEW f \in WrittenFiles, NEW t, files' = [files EXCEPT ![f] = t] PROVE G
  BY <1>2 DEF Complete
<1>3. ASSUME NEW g \in flushers, FlushStep(g) \/ FlushFails(g) PROVE G
  <2>1. CASE FlushReserve(g)
    BY <1>1, <2>1 DEF FlushReserve
  <2>2. CASE FlushBlocks(g) \/ FlushFooter(g)
    <3>1. g.file \in WrittenFiles
      BY <2>2 DEF FlushBlocks, FlushFooter, WrittenFiles, Writing
    <3>. QED BY <1>2, <2>2, <3>1 DEF FlushBlocks, FlushFooter
  <2>3. CASE FlushInstall(g) \/ FlushManifest(g) \/ FlushDeleteWAL(g) \/ FlushFails(g)
    BY <2>3 DEF FlushInstall, FlushManifest, FlushDeleteWAL, FlushFails, diskVars
  <2>. QED BY <1>3, <2>1, <2>2, <2>3 DEF FlushStep
<1>4. CASE CompactStep
  <2>1. CASE CompactReserve
    BY <1>1, <2>1 DEF CompactReserve
  <2>2. CASE CompactWrite
    <3>1. compactor.file \in WrittenFiles
      BY <2>2 DEF CompactWrite, WrittenFiles, Writing
    <3>. QED BY <1>2, <2>2, <3>1 DEF CompactWrite
  <2>3. CASE CompactRemove
    <3>1. CASE files' = files
      BY <3>1
    <3>2. CASE files' = Restrict(files, DOMAIN files \ {Head(compactor.picked)})
      BY <3>2 DEF Restrict, Complete
    <3>. QED BY <2>3, <3>1, <3>2 DEF CompactRemove
  <2>4. CASE CompactMerge \/ CompactInstall \/ CompactManifest
    BY <2>4 DEF CompactMerge, CompactInstall, CompactManifest, diskVars
  <2>. QED BY <1>4, <2>1, <2>2, <2>3, <2>4 DEF CompactStep
<1>5. CASE UNCHANGED files
  BY <1>5
<1>6. ASSUME NEW k \in Key, NEW v \in Entries, AppendWAL(k, v) \/ AppendFails(k, v)
      PROVE  UNCHANGED files
  BY <1>6 DEF AppendWAL, AppendFails
<1>7. ASSUME NEW r \in Reader, NEW k \in Key, GetSnapshot(r, k) PROVE UNCHANGED files
  BY <1>7 DEF GetSnapshot, diskVars
<1>8. ASSUME NEW r \in Reader, GetFromTable(r) PROVE UNCHANGED files
  BY <1>8 DEF GetFromTable, diskVars
<1>9. CASE \/ WriteMemTable \/ PreAllocate \/ InstallNextWAL \/ CompactFails \/ NewDB \/ Crash
           \/ MergeFails \/ OpenFails
  BY <1>9 DEF WriteMemTable, PreAllocate, InstallNextWAL, CompactFails, NewDB, Open,
              RemoveOldWAL, Serve, Crash, MergeFails, OpenFails, OpenWith, diskVars
<1>10. CASE UNCHANGED vars
  BY <1>10 DEF vars, diskVars
<1>. QED BY <1>3, <1>4, <1>5, <1>6, <1>7, <1>8, <1>9, <1>10 DEF Next

\* Lists of complete files are read alike after the other files have changed.
LEMMA ReadAlike ==
    ASSUME NEW list \in Seq(Nat), NEW fs, NEW gs, Range(list) \subseteq Complete(fs),
           \A x \in Range(list) : x \in Complete(gs) /\ gs[x] = fs[x]
    PROVE  /\ \A k : Holding(list, gs, k) = Holding(list, fs, k)
           /\ \A k : Found(list, gs, k) = Found(list, fs, k)
           /\ doMerge(list, gs) = doMerge(list, fs)
<1>1. \A i \in DOMAIN list : list[i] \in Range(list)
  BY DEF Range
<1>2. ASSUME NEW k PROVE Holding(list, gs, k) = Holding(list, fs, k)
  BY <1>1 DEF Holding
<1>3. ASSUME NEW k, Holding(list, fs, k) # {}
      PROVE  gs[list[Greatest(Holding(list, fs, k))]] = fs[list[Greatest(Holding(list, fs, k))]]
  BY <1>1, <1>3, HoldingGreatest DEF Holding
<1>4. ASSUME NEW k PROVE Found(list, gs, k) = Found(list, fs, k)
  BY <1>2, <1>3 DEF Found
<1>5. doMerge(list, gs) = doMerge(list, fs)
  <2>. DEFINE D(h) == {x \in Key : Holding(list, h, x) # {}}
  <2>1. D(gs) = D(fs)
    BY <1>2
  <2>2. \A k \in D(fs) : gs[list[Greatest(Holding(list, gs, k))]][k] =
                            fs[list[Greatest(Holding(list, fs, k))]][k]
    BY <1>2, <1>3
  <2>. QED BY <2>1, <2>2 DEF doMerge
<1>. QED BY <1>2, <1>4, <1>5

\* The result of compaction c holds what its tables hold, and it goes on to answer
\* for those of them that are left.
MergeOK(c, fs) ==
    /\ c.stage = "idle" => c.picked = <<>>
    /\ c.stage \in {"reserve", "blocks", "footer", "install"} =>
           c.table = doMerge(c.picked, fs)
    /\ c.stage = "install" => fs[c.file] = c.table
    /\ c.stage \in {"manifest", "remove"} =>
           \A k \in Key : Holding(c.picked, fs, k) # {} =>
               k \in DOMAIN fs[c.file] /\ Found(c.picked, fs, k) = fs[c.file][k]

MergeInv == ~damaged => MergeOK(compactor, files)

LEMMA MergeKept ==
    ASSUME NEW c, c.picked \in Seq(Nat), NEW fs, NEW gs, MergeOK(c, fs),
           Range(c.picked) \subseteq Complete(fs),
           c.stage \in {"install", "manifest", "remove"} => c.file \in Complete(fs),
           \A x \in Complete(fs) : x \in Complete(gs) /\ gs[x] = fs[x]
    PROVE  MergeOK(c, gs)
<1>1. \A x \in Range(c.picked) : x \in Complete(gs) /\ gs[x] = fs[x]
  OBVIOUS
<1>2. /\ \A k : Holding(c.picked, gs, k) = Holding(c.picked, fs, k)
      /\ \A k : Found(c.picked, gs, k) = Found(c.picked, fs, k)
      /\ doMerge(c.picked, gs) = doMerge(c.picked, fs)
  BY <1>1, ReadAlike
<1>3. c.stage \in {"install", "manifest", "remove"} => gs[c.file] = fs[c.file]
  OBVIOUS
<1>. QED BY <1>2, <1>3 DEF MergeOK

LEMMA CompactorFile ==
    ASSUME Good
    PROVE  /\ compactor.picked \in Seq(Nat) /\ Range(compactor.picked) \subseteq Complete(files)
           /\ compactor.stage \in {"install", "manifest", "remove"} =>
                 compactor.file \in Complete(files)
<1>1. MergeOrder /\ Writers /\ AllListed /\ TypeOK
  BY DEF Good, MergeOrderInv, FileInv, EngineInv
<1>2. compactor.stage = "install" => compactor.file \in Complete(files)
  BY <1>1 DEF Writers, Writing, Owned
<1>. QED BY <1>1, <1>2, PickedSeq DEF MergeOrder, AllListed

LEMMA MergeQuiet ==
    ASSUME Good, Next1, [Next]_vars, MergeInv, ~CompactRemove, compactor' = compactor
    PROVE  MergeInv'
<1>. USE DEF Good, Next1
<1>1. PICK c, fs, gs : c = compactor /\ fs = files /\ gs = files'
  OBVIOUS
<1>2. MergeOK(c, fs)
  BY <1>1 DEF MergeInv
<1>3. \A x \in Complete(fs) : x \in Complete(gs) /\ gs[x] = fs[x]
  BY <1>1, OtherFiles DEF Kept
<1>4. MergeOK(c, gs)
  BY <1>1, <1>2, <1>3, CompactorFile, MergeKept
<1>. QED BY <1>1, <1>4 DEF MergeInv

LEMMA CompactMergeMerge ==
    ASSUME Merged
    PROVE  MergeInv'
<1>1. PICK p : p = pickCompactionFiles
  OBVIOUS
<1>2. compactor'.stage = "reserve" /\ compactor'.picked = p /\ compactor'.table = doMerge(p, files)
  BY <1>1 DEF Merged, Idle
<1>3. files' = files
  BY DEF Merged, diskVars
<1>. QED BY <1>2, <1>3 DEF MergeInv, MergeOK

\* Creating the file, writing it, installing it and the manifest line.
LEMMA CompactWriteMerge ==
    ASSUME Good, Next1, [Next]_vars, MergeInv,
           CompactReserve \/ CompactWrite \/ CompactInstall \/ CompactManifest
    PROVE  MergeInv'
<1>. USE DEF Good, Next1
<1>1. PICK c, h, fs, gs : c = compactor /\ h = compactor' /\ fs = files /\ gs = files'
  OBVIOUS
<1>2. MergeOK(c, fs) /\ c \in CompactRecord
  BY <1>1 DEF MergeInv, EngineInv, TypeOK
<1>3. ~CompactRemove
  BY DEF CompactReserve, CompactWrite, CompactInstall, CompactManifest, CompactRemove
<1>4. \A x \in Complete(fs) : x \in Complete(gs) /\ gs[x] = fs[x]
  BY <1>1, <1>3, OtherFiles DEF Kept
<1>5. MergeOK(c, gs)
  BY <1>1, <1>2, <1>4, CompactorFile, MergeKept
<1>6. CASE CompactReserve
  <2>1. c.stage = "reserve" /\ h.stage = "blocks" /\ h.picked = c.picked /\ h.table = c.table
    BY <1>1, <1>2, <1>6 DEF CompactReserve, CompactRecord
  <2>2. MergeOK(h, gs)
    BY <1>5, <2>1 DEF MergeOK
  <2>. QED BY <1>1, <2>2 DEF MergeInv
<1>7. CASE CompactWrite
  <2>1. /\ c.stage \in {"blocks", "footer"} /\ h.picked = c.picked /\ h.table = c.table
        /\ h.file = c.file
        /\ h.stage = IF c.stage = "blocks" THEN "footer" ELSE "install"
    BY <1>1, <1>2, <1>7 DEF CompactWrite, CompactRecord
  <2>2. c.file \in DOMAIN fs
    BY <1>1, <2>1 DEF FileInv, Writers, Writing, Owned
  <2>3. c.stage = "footer" => gs[c.file] = c.table
    BY <1>1, <1>7, <2>2 DEF CompactWrite
  <2>4. MergeOK(h, gs)
    BY <1>5, <2>1, <2>3 DEF MergeOK
  <2>. QED BY <1>1, <2>4 DEF MergeInv
<1>8. CASE CompactInstall
  <2>1. c.stage = "install" /\ h.stage = "manifest" /\ h.picked = c.picked /\ h.file = c.file
    BY <1>1, <1>2, <1>8 DEF CompactInstall, CompactRecord
  <2>2. gs[c.file] = doMerge(c.picked, gs)
    BY <1>5, <2>1 DEF MergeOK
  <2>3. c.picked \in Seq(Nat)
    BY <1>2 DEF CompactRecord
  <2>4. \A k \in Key : Holding(c.picked, gs, k) # {} =>
             k \in DOMAIN gs[c.file] /\ Found(c.picked, gs, k) = gs[c.file][k]
    BY <2>2, <2>3, MergeFound
  <2>5. MergeOK(h, gs)
    BY <2>1, <2>4 DEF MergeOK
  <2>. QED BY <1>1, <2>5 DEF MergeInv
<1>9. CASE CompactManifest
  <2>1. c.stage = "manifest" /\ h.stage = "remove" /\ h.picked = c.picked /\ h.file = c.file
    BY <1>1, <1>2, <1>9 DEF CompactManifest, CompactRecord
  <2>2. MergeOK(h, gs)
    BY <1>5, <2>1 DEF MergeOK
  <2>. QED BY <1>1, <2>2 DEF MergeInv
<1>. QED BY <1>6, <1>7, <1>8, <1>9

LEMMA CompactIdleMerge ==
    ASSUME compactor' = Idle
    PROVE  MergeInv'
BY DEF MergeInv, MergeOK, Idle

LEMMA CompactRemoveMerge ==
    ASSUME Good, Next1, MergeInv, CompactRemove
    PROVE  MergeInv'
<1>. USE DEF Good, Next1
<1>0. PICK c, h, fs, gs, x : /\ c = compactor /\ h = compactor' /\ fs = files /\ gs = files'
                             /\ x = Head(compactor.picked)
  OBVIOUS
<1>1. MergeOK(c, fs) /\ c \in CompactRecord /\ c.stage = "remove" /\ Shape /\ MergeOrder
  BY <1>0 DEF MergeInv, EngineInv, TypeOK, CompactRemove, MergeOrderInv
<1>2. c.picked \in Seq(Nat) /\ c.picked # <<>> /\ Once(c.picked) /\ c.file \in Nat
  BY <1>0, <1>1 DEF Shape, CompactRecord, OrderInv
<1>3. CASE Len(c.picked) = 1
  BY <1>0, <1>3, CompactIdleMerge DEF CompactRemove
<1>4. CASE Len(c.picked) # 1
  <2>0. PICK t : t = Tail(c.picked)
    OBVIOUS
  <2>1. h = [c EXCEPT !.picked = t]
    BY <1>0, <1>4, <2>0 DEF CompactRemove
  <2>2. h.stage = "remove" /\ h.picked = t /\ h.file = c.file
    BY <1>1, <2>1 DEF CompactRecord
  <2>3. /\ t \in Seq(Nat) /\ Range(t) \subseteq Range(c.picked) /\ x \in Range(c.picked)
        /\ \A y \in Range(c.picked) : y = x \/ y \in Range(t)
        /\ \A y, z : Before(t, y, z) => Before(c.picked, y, z)
        /\ \A y \in Range(t) : Before(c.picked, x, y)
    BY <1>0, <1>2, <2>0, BeforeTail, PickedParts
  <2>4. x \notin Range(t)
    BY <1>2, <2>3 DEF Once
  <2>5. x < c.file /\ c.file \in Complete(fs) /\ x \in Nat /\ Range(c.picked) \subseteq Complete(fs)
    BY <1>0, <1>1, <1>2, <2>3, SeqParts, CompactorFile DEF MergeOrder
  <2>6. \A y \in Complete(fs) \ {x} : y \in Complete(gs) /\ gs[y] = fs[y]
    <3>1. CASE gs = fs
      BY <3>1
    <3>2. CASE gs = Restrict(fs, DOMAIN fs \ {x})
      <4>1. \A y \in DOMAIN fs \ {x} : y \in DOMAIN gs /\ gs[y] = fs[y]
        BY <3>2 DEF Restrict
      <4>. QED BY <4>1 DEF Complete
    <3>. QED BY <1>0, <3>1, <3>2 DEF CompactRemove
  <2>7. x # c.file
    BY <1>2, <2>5
  <2>8. ASSUME NEW k \in Key, Holding(t, gs, k) # {}
        PROVE  k \in DOMAIN gs[c.file] /\ Found(t, gs, k) = gs[c.file][k]
    <3>1. PICK z : Newest(t, gs, k, z) /\ Found(t, gs, k) = gs[z][k]
      BY <2>3, <2>8, NewestExists
    <3>2. z \in Range(t) /\ z \in Range(c.picked) /\ z # x /\ k \in DOMAIN gs[z]
      BY <2>3, <2>4, <3>1 DEF Newest, Holds
    <3>3. z \in Complete(fs) /\ gs[z] = fs[z]
      BY <2>5, <2>6, <3>2
    <3>4. Newest(c.picked, fs, k, z)
      <4>1. Holds(fs, z, k)
        BY <3>2, <3>3 DEF Holds
      <4>2. ASSUME NEW y \in Range(c.picked), Holds(fs, y, k) PROVE y = z \/ Before(c.picked, y, z)
        <5>1. CASE y = x
          BY <2>3, <3>2, <5>1
        <5>2. CASE y # x
          <6>1. y \in Range(t) /\ Holds(gs, y, k)
            BY <2>3, <2>6, <4>2, <5>2 DEF Holds
          <6>. QED BY <2>3, <3>1, <6>1 DEF Newest
        <5>. QED BY <5>1, <5>2
      <4>. QED BY <3>2, <4>1, <4>2 DEF Newest
    <3>5. Holding(c.picked, fs, k) # {} /\ Found(c.picked, fs, k) = fs[z][k]
      BY <1>2, <3>4, NewestValue
    <3>6. k \in DOMAIN fs[c.file] /\ Found(c.picked, fs, k) = fs[c.file][k]
      BY <1>1, <3>5 DEF MergeOK
    <3>7. gs[c.file] = fs[c.file]
      BY <2>5, <2>6, <2>7
    <3>. QED BY <3>1, <3>3, <3>5, <3>6, <3>7
  <2>9. MergeOK(h, gs)
    BY <2>2, <2>8 DEF MergeOK
  <2>. QED BY <1>0, <2>9 DEF MergeInv
<1>. QED BY <1>3, <1>4

LEMMA MergeStep ==
    ASSUME Good, Next1, [Next]_vars, MergeInv
    PROVE  MergeInv'
<1>1. CASE compactor' = compactor /\ ~CompactRemove
  BY <1>1, MergeQuiet
<1>2. ASSUME NEW k \in Key, NEW v \in Entries, AppendWAL(k, v) \/ AppendFails(k, v)
      PROVE  compactor' = compactor
  BY <1>2 DEF AppendWAL, AppendFails
<1>3. ASSUME NEW g, FlushStep(g) \/ FlushFails(g)
      PROVE  compactor' = compactor
  BY <1>3 DEF FlushStep, FlushReserve, FlushBlocks, FlushFooter, FlushInstall, FlushManifest,
              FlushDeleteWAL, FlushFails
<1>4. ASSUME NEW r \in Reader, NEW k \in Key, GetSnapshot(r, k) PROVE compactor' = compactor
  BY <1>4 DEF GetSnapshot
<1>5. ASSUME NEW r \in Reader, GetFromTable(r) PROVE compactor' = compactor
  BY <1>5 DEF GetFromTable
<1>6. CASE \/ WriteMemTable \/ PreAllocate \/ InstallNextWAL \/ NewDB \/ OpenFails
           \/ UNCHANGED vars
  BY <1>1, <1>6, CompactRemoveMerge
     DEF WriteMemTable, PreAllocate, InstallNextWAL, NewDB, Open, OpenFails, OpenWith,
         RemoveOldWAL, Serve, vars
<1>7. CASE CompactFails \/ Crash
  BY <1>7, CompactIdleMerge DEF CompactFails, Crash
<1>8. CASE CompactMerge \/ MergeFails
  <2>1. CASE Merged
    BY <2>1, CompactMergeMerge
  <2>2. CASE Untouched
    BY <1>1, <2>2, CompactRemoveMerge DEF Untouched
  <2>. QED BY <1>8, <2>1, <2>2, MergeOutcome DEF Good, Next1
<1>9. CASE CompactStep
  BY <1>8, <1>9, CompactWriteMerge, CompactRemoveMerge DEF CompactStep
<1>. QED BY <1>1, <1>2, <1>3, <1>4, <1>5, <1>6, <1>7, <1>8, <1>9, CompactRemoveMerge DEF Next

-----------------------------------------------------------------------------
(* What the flushes under way have written.                                  *)

Installed(g) == g.stage \in {"manifest", "delete"}

FlusherOK(g, imm, fs) ==
    /\ g.stage = "reserve" => g.file = 0
    /\ g.stage = "delete" => g.oldWal # Nil
    /\ ~Installed(g) => g.table = imm
    /\ g.stage = "install" => fs[g.file] = g.table
    /\ Installed(g) => /\ g.file \in Range(g.line)
                       /\ g.file \in Complete(fs) => fs[g.file] = g.table

\* The flushes that have not installed their table: the one of immTable, if any.
OneFlush == \A g, h \in flushers : ~Installed(g) /\ ~Installed(h) => g = h

\* While NewDB runs, a complete file is in the list or about to be.
Loaded ==
    phase \in {"flush", "clean"} =>
        \A x \in Complete(files) :
            x \in Range(sstables) \/ \E g \in flushers : g.stage = "install" /\ g.file = x

FlushInv ==
    ~damaged => (\A g \in flushers : FlusherOK(g, immTable, files)) /\ OneFlush /\ Loaded

LEMMA SurvivingFiles ==
    ASSUME Good, Next1, [Next]_vars, NEW x \in Complete(files), x \notin Range(compactor.picked)
    PROVE  x \in Complete(files') /\ files'[x] = files[x]
<1>. USE DEF Good, Next1
<1>1. CASE ~CompactRemove
  BY <1>1, OtherFiles DEF Kept
<1>2. CASE CompactRemove
  <2>1. compactor.picked \in Seq(Nat) /\ compactor.picked # <<>>
    BY <1>2, PickedSeq DEF EngineInv, Shape, CompactRemove
  <2>2. x # Head(compactor.picked)
    BY <2>1, PickedParts
  <2>3. CASE files' = files
    BY <2>3
  <2>4. CASE files' = Restrict(files, DOMAIN files \ {Head(compactor.picked)})
    BY <2>2, <2>4 DEF Restrict, Complete
  <2>. QED BY <1>2, <2>3, <2>4 DEF CompactRemove
<1>. QED BY <1>1, <1>2

\* What a flush has written stays as it is.
LEMMA FlusherKept ==
    ASSUME Good, Next1, [Next]_vars, NEW g \in flushers, FlusherOK(g, immTable, files),
           Installed(g) \/ immTable' = immTable
    PROVE  FlusherOK(g, immTable', files')
<1>. USE DEF Good, Next1
<1>1. ASSUME g.stage = "install" PROVE files'[g.file] = g.table
  <2>1. Owned(g)
    BY <1>1 DEF FileInv, Writers, Writing
  <2>2. g.file \in Complete(files) /\ g.file \notin Range(compactor.picked)
    BY <1>1, <2>1 DEF Owned
  <2>. QED BY <1>1, <2>2, SurvivingFiles DEF FlusherOK
<1>2. ASSUME Installed(g), g.file \in Complete(files') PROVE files'[g.file] = g.table
  <2>1. g.line \in Lines /\ g.file \in Range(g.line)
    BY <1>2 DEF Lines, FlusherOK
  <2>2. LineOK(g.line, sstables, compactor.picked, WrittenFiles, Complete(files))
    BY <2>1 DEF OrderInv
  <2>3. g.file \notin WrittenFiles
    BY <2>1, <2>2 DEF LineOK
  <2>4. g.file \in Complete(files)
    BY <1>2, <2>3, NewFiles
  <2>5. g.file \in DOMAIN files'
    BY <1>2 DEF Complete
  <2>6. files'[g.file] = files[g.file]
    BY <2>4, <2>5, ImmutableStep
  <2>. QED BY <1>2, <2>4, <2>6 DEF FlusherOK
<1>. QED BY <1>1, <1>2 DEF FlusherOK, Installed

\* Steps that leave the flushes alone, or end one.
LEMMA FlushQuiet ==
    ASSUME Good, Next1, [Next]_vars, FlushInv, flushers' \subseteq flushers,
           \A g \in flushers' : Installed(g) \/ immTable' = immTable, Loaded'
    PROVE  FlushInv'
<1>. USE DEF Good
<1>1. \A g \in flushers' : FlusherOK(g, immTable', files')
  BY FlusherKept DEF FlushInv
<1>2. OneFlush'
  BY DEF FlushInv, OneFlush
<1>. QED BY <1>1, <1>2 DEF FlushInv

\* A step of one flush that has not installed its table yet.
LEMMA FlushOne ==
    ASSUME Good, Next1, [Next]_vars, FlushInv, NEW g \in flushers, NEW h,
           flushers' = (flushers \ {g}) \cup {h}, ~Installed(g),
           FlusherOK(h, immTable', files'),
           immTable' = immTable \/ Installed(h), Loaded'
    PROVE  FlushInv'
<1>. USE DEF Good
<1>1. OneFlush /\ \A x \in flushers : FlusherOK(x, immTable, files)
  BY DEF FlushInv
<1>2. \A x \in flushers \ {g} : Installed(x)
  BY <1>1 DEF OneFlush
<1>3. \A x \in flushers \ {g} : FlusherOK(x, immTable', files')
  BY <1>1, <1>2, FlusherKept
<1>4. \A x \in flushers' : FlusherOK(x, immTable', files')
  BY <1>3
<1>5. OneFlush'
  BY <1>2 DEF OneFlush
<1>. QED BY <1>4, <1>5 DEF FlushInv

LEMMA LoadedQuiet ==
    ASSUME Loaded, sstables' = sstables, Complete(files') \subseteq Complete(files),
           \A g \in flushers : g.stage = "install" => g \in flushers',
           phase' \in {"flush", "clean"} => phase \in {"flush", "clean"}
    PROVE  Loaded'
BY DEF Loaded

LEMMA FlushReserveFlush ==
    ASSUME Good, Next1, [Next]_vars, FlushInv, NEW g \in flushers, FlushReserve(g)
    PROVE  FlushInv'
<1>. USE DEF Good, Next1
<1>0. PICK f, h : f = nextFileID /\ h = [g EXCEPT !.stage = "blocks", !.file = nextFileID]
  OBVIOUS
<1>1. /\ files' = With(files, f, Short) /\ flushers' = (flushers \ {g}) \cup {h}
      /\ UNCHANGED <<sstables, immTable, phase>>
  BY <1>0 DEF FlushReserve, Advance, memVars
<1>2. /\ g \in FlushRecord /\ g.stage = "reserve" /\ FlusherOK(g, immTable, files) /\ f \in Nat
      /\ FreshIDs /\ phase # "down" /\ Loaded
  BY <1>0, FlusherUp DEF EngineInv, TypeOK, FlushReserve, FlushInv, FileInv
<1>3. h.stage = "blocks" /\ h.table = g.table
  BY <1>0, <1>2 DEF FlushRecord
<1>4. FlusherOK(h, immTable', files')
  BY <1>1, <1>2, <1>3 DEF FlusherOK, Installed
<1>5. f \notin Complete(files)
  BY <1>0, <1>2 DEF FreshIDs
<1>6. Complete(files') = Complete(files)
  BY <1>1, <1>5, CreatedFile
<1>7. Loaded'
  BY <1>1, <1>2, <1>6, LoadedQuiet
<1>. QED BY <1>1, <1>2, <1>4, <1>7, FlushOne DEF Installed

LEMMA FlushBlocksFlush ==
    ASSUME Good, Next1, [Next]_vars, FlushInv, NEW g \in flushers, FlushBlocks(g) \/ FlushFooter(g)
    PROVE  FlushInv'
<1>. USE DEF Good, Next1
<1>0. PICK h : h = [g EXCEPT !.stage = IF g.stage = "blocks" THEN "footer" ELSE "install"]
  OBVIOUS
<1>1. flushers' = (flushers \ {g}) \cup {h} /\ UNCHANGED <<sstables, immTable, phase>>
  BY <1>0 DEF FlushBlocks, FlushFooter, Advance, memVars
<1>2. /\ g \in FlushRecord /\ g.stage \in {"blocks", "footer"} /\ FlusherOK(g, immTable, files)
      /\ OneFlush /\ Loaded /\ Writers
  BY DEF EngineInv, TypeOK, FlushBlocks, FlushFooter, FlushInv, FileInv
<1>3. /\ h.stage = (IF g.stage = "blocks" THEN "footer" ELSE "install")
      /\ h.table = g.table /\ h.file = g.file
  BY <1>0, <1>2 DEF FlushRecord
<1>4. Writing(g) /\ Owned(g)
  BY <1>2 DEF Writers, Writing
<1>5. g.stage = "footer" => files' = [files EXCEPT ![g.file] = g.table]
  BY DEF FlushFooter, FlushBlocks
<1>6. g.stage = "footer" => files'[g.file] = g.table
  BY <1>4, <1>5 DEF Owned
<1>7. FlusherOK(h, immTable', files')
  BY <1>1, <1>2, <1>3, <1>6 DEF FlusherOK, Installed
<1>8. Loaded'
  <2>1. CASE g.stage = "blocks"
    <3>1. files' = [files EXCEPT ![g.file] = Torn]
      BY <2>1 DEF FlushFooter, FlushBlocks
    <3>2. Complete(files') \subseteq Complete(files)
      BY <3>1 DEF Complete
    <3>. QED BY <1>1, <1>2, <2>1, <3>2, LoadedQuiet
  <2>2. CASE g.stage = "footer"
    <3>1. \A x \in Complete(files') : x \in Complete(files) \/ x = g.file
      BY <1>5, <2>2 DEF Complete
    <3>2. h \in flushers' /\ h.stage = "install" /\ h.file = g.file
      BY <1>1, <1>3, <2>2
    <3>3. \A x \in flushers : x.stage = "install" => x \in flushers'
      BY <1>1, <2>2
    <3>. QED BY <1>1, <1>2, <3>1, <3>2, <3>3 DEF Loaded
  <2>. QED BY <1>2, <2>1, <2>2
<1>. QED BY <1>1, <1>2, <1>7, <1>8, FlushOne DEF Installed

LEMMA FlushInstallFlush ==
    ASSUME Good, Next1, [Next]_vars, FlushInv, NEW g \in flushers, FlushInstall(g)
    PROVE  FlushInv'
<1>. USE DEF Good, Next1
<1>0. PICK h, list2 : h = [g EXCEPT !.stage = "manifest", !.line = list2] /\ list2 = sstables'
  OBVIOUS
<1>1. /\ flushers' = (flushers \ {g}) \cup {h} /\ list2 = Append(sstables, g.file)
      /\ UNCHANGED <<files, phase>>
  BY <1>0 DEF FlushInstall, Advance, Appended, diskVars
<1>2. /\ g \in FlushRecord /\ g.stage = "install" /\ FlusherOK(g, immTable, files)
      /\ Loaded /\ sstables \in Seq(Nat) /\ g.file \in Nat
  BY DEF EngineInv, TypeOK, FlushInstall, FlushInv, FlushRecord
<1>3. h.stage = "manifest" /\ h.table = g.table /\ h.file = g.file /\ h.line = list2
  BY <1>0, <1>2 DEF FlushRecord
<1>4. Range(list2) = Range(sstables) \cup {g.file}
  BY <1>1, <1>2, AppendRange
<1>5. FlusherOK(h, immTable', files')
  BY <1>1, <1>2, <1>3, <1>4 DEF FlusherOK, Installed
<1>6. Loaded'
  BY <1>0, <1>1, <1>2, <1>4 DEF Loaded
<1>. QED BY <1>1, <1>2, <1>3, <1>5, <1>6, FlushOne DEF Installed

LEMMA FlushManifestFlush ==
    ASSUME Good, Next1, [Next]_vars, FlushInv, NEW g \in flushers, FlushManifest(g)
    PROVE  FlushInv'
<1>. USE DEF Good, Next1
<1>0. PICK h : h = [g EXCEPT !.stage = "delete"]
  OBVIOUS
<1>1. UNCHANGED <<files, sstables, immTable>>
  BY DEF FlushManifest, memVars
<1>2. /\ g \in FlushRecord /\ g.stage = "manifest" /\ OneFlush /\ Loaded
      /\ \A x \in flushers : FlusherOK(x, immTable, files)
      /\ phase \in {"flush", "running"}
  BY FlusherUp DEF EngineInv, TypeOK, FlushManifest, FlushInv
<1>3. Loaded'
  <2>1. phase' \in {"flush", "clean"} => phase \in {"flush", "clean"}
    BY <1>2, NilAssumption DEF FlushManifest, EngineInv, Goroutines
  <2>2. \A x \in flushers : x.stage = "install" => x \in flushers'
    BY <1>2 DEF FlushManifest, Advance
  <2>. QED BY <1>1, <1>2, <2>1, <2>2, LoadedQuiet
<1>4. h.stage = "delete" /\ h.table = g.table /\ h.file = g.file /\ h.line = g.line
  BY <1>0, <1>2 DEF FlushRecord
<1>5. g.oldWal # Nil => FlusherOK(h, immTable, files)
  BY <1>0, <1>2, <1>4 DEF FlusherOK, Installed, FlushRecord
<1>6. \A x \in flushers' : x \in flushers \/ (x = h /\ g.oldWal # Nil)
  BY <1>0 DEF FlushManifest, Advance
<1>7. \A x \in flushers' : FlusherOK(x, immTable', files')
  BY <1>1, <1>2, <1>5, <1>6
<1>8. OneFlush'
  BY <1>2, <1>4, <1>6 DEF OneFlush, Installed
<1>. QED BY <1>3, <1>7, <1>8 DEF FlushInv

LEMMA WriteMemTableFlush ==
    ASSUME Good, Next1, [Next]_vars, FlushInv, WriteMemTable
    PROVE  FlushInv'
<1>. USE DEF Good, Next1
<1>0. PICK m : m = With(memTable, pending.key, pending.val)
  OBVIOUS
<1>1. UNCHANGED <<files, sstables, phase>> /\ phase = "running"
  BY DEF WriteMemTable, EngineInv, Goroutines, diskVars
<1>2. OneFlush /\ Loaded /\ \A x \in flushers : FlusherOK(x, immTable, files)
  BY DEF FlushInv
<1>3. Loaded'
  BY <1>1 DEF Loaded
<1>4. CASE ~MustSwitch(m)
  BY <1>0, <1>3, <1>4, FlushQuiet DEF WriteMemTable
<1>5. CASE MustSwitch(m)
  <2>0. PICK h : h = [stage |-> "reserve", table |-> m, oldWal |-> wal, file |-> 0, line |-> <<>>]
    OBVIOUS
  <2>1. immTable = Nil /\ immTable' = m /\ flushers' = flushers \cup {h}
    BY <1>0, <1>5, <2>0 DEF WriteMemTable, MustSwitch
  <2>2. \A x \in flushers : x.table # Nil
    BY FileAssumption DEF EngineInv, TypeOK, FlushRecord
  <2>3. \A x \in flushers : Installed(x)
    BY <1>2, <2>1, <2>2 DEF FlusherOK
  <2>4. \A x \in flushers : FlusherOK(x, immTable', files')
    BY <1>2, <2>3, FlusherKept
  <2>5. FlusherOK(h, immTable', files')
    BY <2>0, <2>1 DEF FlusherOK, Installed
  <2>6. OneFlush'
    BY <2>1, <2>3 DEF OneFlush
  <2>. QED BY <1>3, <2>1, <2>4, <2>5, <2>6 DEF FlushInv
<1>. QED BY <1>4, <1>5

LEMMA OpenFlush ==
    ASSUME Good, Next1, Opened
    PROVE  FlushInv'
<1>. USE DEF Good, Next1
<1>0. PICK m, h : /\ m = RecoverFromWAL(wals)
                  /\ h = [stage |-> "reserve", table |-> m, oldWal |-> Nil, file |-> 0,
                          line |-> <<>>]
  OBVIOUS
<1>1. FreshIDs /\ TypeOK /\ Shape /\ Goroutines /\ phase = "down"
  BY DEF FileInv, EngineInv, Opened, OpenWith
<1>2. TornFiles(files) = {} /\ flushers = {}
  BY <1>1 DEF FreshIDs, Goroutines
<1>3. Range(sstables') = Complete(files) /\ files' = files
  BY <1>1, <1>2, LoadList, DiskOK DEF TypeOK, Shape, Opened, OpenWith, diskVars
<1>4. flushers' = {} \/ (flushers' = {h} /\ immTable' = m)
  BY <1>0, <1>2 DEF Opened, OpenWith
<1>5. \A x \in flushers' : FlusherOK(x, immTable', files')
  BY <1>0, <1>4 DEF FlusherOK, Installed
<1>6. OneFlush'
  BY <1>4 DEF OneFlush
<1>7. Loaded'
  BY <1>3 DEF Loaded
<1>. QED BY <1>5, <1>6, <1>7 DEF FlushInv

LEMMA FlushInvStep ==
    ASSUME Good, Next1, [Next]_vars, FlushInv
    PROVE  FlushInv'
<1>. USE DEF Good, Next1
<1>1. OneFlush /\ Loaded /\ \A x \in flushers : FlusherOK(x, immTable, files)
  BY DEF FlushInv
<1>2. CASE UNCHANGED vars
  <2>1. UNCHANGED <<files, sstables, immTable, flushers, phase>>
    BY <1>2 DEF vars, memVars, diskVars
  <2>. QED BY <1>1, <2>1, FlushQuiet, LoadedQuiet
<1>3. ASSUME NEW k \in Key, NEW v \in Entries, AppendWAL(k, v) \/ AppendFails(k, v)
      PROVE  FlushInv'
  <2>1. UNCHANGED <<files, sstables, immTable, flushers, phase>>
    BY <1>3 DEF AppendWAL, AppendFails, memVars
  <2>. QED BY <1>1, <2>1, FlushQuiet, LoadedQuiet
<1>4. CASE PreAllocate \/ InstallNextWAL \/ RemoveOldWAL
  <2>1. UNCHANGED <<files, sstables, immTable, flushers, phase>>
    BY <1>4 DEF PreAllocate, InstallNextWAL, RemoveOldWAL, memVars, diskVars
  <2>. QED BY <1>1, <2>1, FlushQuiet, LoadedQuiet
<1>5. CASE Serve
  <2>1. UNCHANGED <<files, sstables, immTable, flushers>> /\ phase' = "running"
    BY <1>5 DEF Serve, memVars
  <2>. QED BY <1>1, <2>1, FlushQuiet, LoadedQuiet
<1>6. ASSUME NEW g \in flushers, FlushDeleteWAL(g) PROVE FlushInv'
  <2>1. UNCHANGED <<files, sstables, immTable, phase>> /\ flushers' = flushers \ {g}
        /\ g.stage = "delete"
    BY <1>6 DEF FlushDeleteWAL, memVars
  <2>. QED BY <1>1, <2>1, FlushQuiet, LoadedQuiet
<1>7. ASSUME NEW g \in flushers, FlushFails(g) PROVE FlushInv'
  <2>1. immTable' = immTable /\ flushers' = flushers \ {g} /\ phase # "flush" /\ phase' = phase
    BY <1>7 DEF FlushFails, memVars
  <2>2. phase' = "running"
    BY <2>1 DEF EngineInv, Goroutines
  <2>3. Loaded'
    BY <2>2 DEF Loaded
  <2>. QED BY <2>1, <2>3, FlushQuiet
<1>8. ASSUME NEW g \in flushers, FlushStep(g) \/ FlushFails(g) PROVE FlushInv'
  BY <1>6, <1>7, <1>8, FlushReserveFlush, FlushBlocksFlush, FlushInstallFlush,
     FlushManifestFlush DEF FlushStep
<1>9. ASSUME NEW r \in Reader, NEW k \in Key, GetSnapshot(r, k) PROVE FlushInv'
  <2>1. UNCHANGED <<files, sstables, immTable, flushers, phase>>
    BY <1>9 DEF GetSnapshot, memVars, diskVars
  <2>. QED BY <1>1, <2>1, FlushQuiet, LoadedQuiet
<1>10. ASSUME NEW r \in Reader, GetFromTable(r) PROVE FlushInv'
  <2>1. UNCHANGED <<files, sstables, immTable, flushers, phase>>
    BY <1>10 DEF GetFromTable, memVars, diskVars
  <2>. QED BY <1>1, <2>1, FlushQuiet, LoadedQuiet
<1>11. CASE CompactStep \/ CompactFails \/ MergeFails
  <2>1. UNCHANGED <<immTable, flushers, phase>>
    BY <1>11 DEF CompactStep, CompactMerge, CompactReserve, CompactWrite, CompactInstall,
                 CompactManifest, CompactRemove, CompactFails, MergeFails, memVars
  <2>2. compactor.stage # "idle" \/ phase = "running"
    BY <1>11 DEF CompactStep, CompactMerge, CompactReserve, CompactWrite, CompactInstall,
                 CompactManifest, CompactRemove, CompactFails, MergeFails, MayCompact, CanFail
  <2>3. phase = "running"
    BY <2>2, CompactorRuns DEF EngineInv
  <2>4. Loaded'
    BY <2>1, <2>3 DEF Loaded
  <2>. QED BY <2>1, <2>4, FlushQuiet
<1>12. CASE Crash
  <2>1. flushers' = {} /\ phase' = "down"
    BY <1>12 DEF Crash
  <2>2. Loaded'
    BY <2>1 DEF Loaded
  <2>. QED BY <2>1, <2>2, FlushQuiet
<1>13. CASE Open \/ OpenFails
  BY <1>13, OpenOutcome, OpenFlush
<1>. QED BY <1>2, <1>3, <1>4, <1>5, <1>8, <1>9, <1>10, <1>11, <1>12, <1>13, WriteMemTableFlush
         DEF Next, NewDB

-----------------------------------------------------------------------------
(* What the WAL files hold.                                                  *)

\* Log w has the last record of k.
LastIn(ws, w, k) ==
    k \in DOMAIN ws[w] /\ \A b \in DOMAIN ws : b > w => k \notin DOMAIN ws[b]

\* The last value written, the write that has only reached the WAL included.
Expected(k) == IF pending # Nil /\ pending.key = k THEN pending.val ELSE contents[k]

\* No log between w and the active one was deleted.
Unbroken(w) == \A b \in w..wal : b \in DOMAIN wals

\* The records of the logs that a flush has not made obsolete are the last values
\* written, the logs after the active one are empty, and what memTable, immTable
\* and the flushes hold is still in a log each.
RunningLog ==
    /\ \A w \in DOMAIN wals : Unbroken(w) =>
           \A k : LastIn(wals, w, k) => wals[w][k] = Expected(k)
    /\ \A w \in DOMAIN wals : w > wal => DOMAIN wals[w] = {}
    /\ pending # Nil => pending.key \in DOMAIN wals[wal]
    /\ DOMAIN memTable \subseteq DOMAIN wals[wal]
    /\ immTable # Nil =>
           \E w \in DOMAIN wals :
               /\ w < wal /\ DOMAIN immTable \subseteq DOMAIN wals[w]
               /\ \A g \in flushers : Installed(g) => g.oldWal # w
    /\ \A g \in flushers : /\ g.oldWal \in DOMAIN wals
                           /\ DOMAIN g.table \subseteq DOMAIN wals[g.oldWal]
    /\ \A g, h \in flushers : g.oldWal = h.oldWal => g = h
    /\ \A w \in DOMAIN wals : w <= walFileID
    /\ ~allocating => walFileID \notin DOMAIN wals

\* Down, or in NewDB: the logs hold nothing but last values, and immTable is what
\* their replay gives.
StoppedLog ==
    /\ memTable = EmptyTable
    /\ \A w \in DOMAIN wals : \A k : LastIn(wals, w, k) => wals[w][k] = contents[k]
    /\ phase = "flush" => \A g \in flushers : g.table = RecoverFromWAL(wals)
    /\ immTable # Nil => phase = "flush" /\ \E g \in flushers : ~Installed(g)

FiniteLogs == \A w \in DOMAIN wals : IsFiniteSet(DOMAIN wals[w])

LogInv ==
    ~damaged => /\ FiniteLogs
                /\ phase = "running" => RunningLog
                /\ phase # "running" => StoppedLog

LEMMA LastInExists ==
    ASSUME NEW ws, Bounded(DOMAIN ws), NEW w \in DOMAIN ws, NEW k \in DOMAIN ws[w]
    PROVE  \E b \in DOMAIN ws : LastIn(ws, b, k)
<1>. DEFINE T == {b \in DOMAIN ws : k \in DOMAIN ws[b]}
<1>1. Bounded(T) /\ T # {} /\ \A b \in DOMAIN ws : b \in Nat
  BY BoundedSubset DEF Bounded
<1>2. PICK m : m = Greatest(T)
  OBVIOUS
<1>3. m \in T /\ m \in Nat /\ \A y \in T : y <= m
  BY <1>1, <1>2, GreatestExists
<1>4. \A b \in DOMAIN ws : b > m => b \notin T
  BY <1>1, <1>3
<1>. QED BY <1>3, <1>4 DEF LastIn

\* What a replay gives for a key.
LEMMA Replayed ==
    ASSUME NEW ws, Bounded(DOMAIN ws), NEW k \in Key
    PROVE  /\ k \in DOMAIN RecoverFromWAL(ws) <=> \E w \in DOMAIN ws : k \in DOMAIN ws[w]
           /\ k \in DOMAIN RecoverFromWAL(ws) =>
                 \E w \in DOMAIN ws : LastIn(ws, w, k) /\ RecoverFromWAL(ws)[k] = ws[w][k]
<1>. DEFINE T == {w \in DOMAIN ws : k \in DOMAIN ws[w]}
<1>1. Bounded(T) /\ \A b \in DOMAIN ws : b \in Nat
  BY BoundedSubset DEF Bounded
<1>2. k \in DOMAIN RecoverFromWAL(ws) <=> T # {}
  BY DEF RecoverFromWAL
<1>3. ASSUME T # {}
      PROVE  \E w \in DOMAIN ws : LastIn(ws, w, k) /\ RecoverFromWAL(ws)[k] = ws[w][k]
  <2>1. PICK m : m = Greatest(T)
    OBVIOUS
  <2>2. m \in T /\ m \in Nat /\ \A y \in T : y <= m
    BY <1>1, <1>3, <2>1, GreatestExists
  <2>3. RecoverFromWAL(ws)[k] = ws[m][k]
    BY <1>3, <2>1 DEF RecoverFromWAL
  <2>4. \A b \in DOMAIN ws : b > m => b \notin T
    BY <1>1, <2>2
  <2>. QED BY <2>2, <2>3, <2>4 DEF LastIn
<1>. QED BY <1>2, <1>3

\* Steps that touch no log and end a flush at most.
LEMMA LogQuiet ==
    ASSUME ~damaged, LogInv,
           UNCHANGED <<wals, wal, walFileID, allocating, pending, contents, memTable,
                       immTable, phase>>,
           flushers' \subseteq flushers, phase = "flush" => flushers' = flushers
    PROVE  LogInv'
<1>1. FiniteLogs'
  BY DEF LogInv, FiniteLogs
<1>2. CASE phase = "running"
  <2>1. RunningLog
    BY <1>2 DEF LogInv
  <2>2. \A k : Expected(k)' = Expected(k)
    BY DEF Expected
  <2>3. \A w : Unbroken(w)' <=> Unbroken(w)
    BY DEF Unbroken
  <2>4. RunningLog'
    BY <2>1, <2>2, <2>3 DEF RunningLog, LastIn
  <2>. QED BY <1>1, <1>2, <2>4 DEF LogInv
<1>3. CASE phase # "running"
  <2>1. StoppedLog
    BY <1>3 DEF LogInv
  <2>2. StoppedLog'
    BY <2>1 DEF StoppedLog, LastIn
  <2>. QED BY <1>1, <1>3, <2>2 DEF LogInv
<1>. QED BY <1>2, <1>3

\* A step of one flush that leaves the logs alone.
LEMMA LogFlusher ==
    ASSUME ~damaged, LogInv, NEW g \in flushers, NEW h,
           UNCHANGED <<wals, wal, walFileID, allocating, pending, contents, memTable, phase>>,
           flushers' = (flushers \ {g}) \cup {h}, h.oldWal = g.oldWal, h.table = g.table,
           immTable' = Nil \/ (immTable' = immTable /\ (Installed(h) <=> Installed(g)))
    PROVE  LogInv'
<1>1. FiniteLogs'
  BY DEF LogInv, FiniteLogs
<1>2. CASE phase = "running"
  <2>1. RunningLog
    BY <1>2 DEF LogInv
  <2>2. \A k : Expected(k)' = Expected(k)
    BY DEF Expected
  <2>3. \A w : Unbroken(w)' <=> Unbroken(w)
    BY DEF Unbroken
  <2>4. /\ \A x \in flushers' : /\ x.oldWal \in DOMAIN wals
                                /\ DOMAIN x.table \subseteq DOMAIN wals[x.oldWal]
        /\ \A x, y \in flushers' : x.oldWal = y.oldWal => x = y
    BY <2>1 DEF RunningLog
  <2>5. ASSUME immTable' # Nil
        PROVE  \E w \in DOMAIN wals :
                  /\ w < wal /\ DOMAIN immTable' \subseteq DOMAIN wals[w]
                  /\ \A x \in flushers' : Installed(x) => x.oldWal # w
    <3>1. PICK w \in DOMAIN wals : /\ w < wal /\ DOMAIN immTable \subseteq DOMAIN wals[w]
                                   /\ \A x \in flushers : Installed(x) => x.oldWal # w
      BY <2>1, <2>5 DEF RunningLog
    <3>2. \A x \in flushers' : Installed(x) => x.oldWal # w
      BY <2>5, <3>1
    <3>. QED BY <2>5, <3>1, <3>2
  <2>6. RunningLog'
    BY <2>1, <2>2, <2>3, <2>4, <2>5 DEF RunningLog, LastIn
  <2>. QED BY <1>1, <1>2, <2>6 DEF LogInv
<1>3. CASE phase # "running"
  <2>1. StoppedLog
    BY <1>3 DEF LogInv
  <2>2. immTable' # Nil => phase = "flush" /\ \E x \in flushers' : ~Installed(x)
    BY <2>1 DEF StoppedLog
  <2>3. phase = "flush" => \A x \in flushers' : x.table = RecoverFromWAL(wals)
    BY <2>1 DEF StoppedLog
  <2>4. StoppedLog'
    BY <2>1, <2>2, <2>3 DEF StoppedLog, LastIn
  <2>. QED BY <1>1, <1>3, <2>4 DEF LogInv
<1>. QED BY <1>2, <1>3

LEMMA AppendLog ==
    ASSUME EngineInv, ~damaged, LogInv, NEW k \in Key, NEW v \in Entries, AppendWAL(k, v)
    PROVE  LogInv'
<1>0. PICK a, t : a = wal /\ t = With(wals[wal], k, v)
  OBVIOUS
<1>1. /\ phase = "running" /\ pending = Nil /\ wals' = [wals EXCEPT ![a] = t]
      /\ pending' = [key |-> k, val |-> v]
      /\ UNCHANGED <<memTable, immTable, wal, walFileID, allocating, flushers, phase, contents>>
  BY <1>0 DEF AppendWAL, memVars, walVars, ghostVars
<1>2. RunningLog /\ FiniteLogs /\ TypeOK
  BY <1>1 DEF LogInv, EngineInv
<1>3. a \in DOMAIN wals /\ a \in Nat /\ \A w \in DOMAIN wals : w \in Nat
  BY <1>0, <1>1, <1>2 DEF TypeOK
<1>4. /\ DOMAIN wals' = DOMAIN wals /\ wals'[a] = t
      /\ \A w \in DOMAIN wals \ {a} : wals'[w] = wals[w]
  BY <1>1, <1>3
<1>5. /\ DOMAIN t = DOMAIN wals[a] \cup {k} /\ t[k] = v
      /\ \A x \in DOMAIN wals[a] \ {k} : t[x] = wals[a][x]
  BY <1>0 DEF With, Over, Single
<1>6. pending' # Nil /\ pending'.key = k /\ pending'.val = v
  BY <1>1, FileAssumption
<1>7. Expected(k)' = v /\ \A x : x # k => Expected(x)' = Expected(x)
  BY <1>1, <1>6 DEF Expected
<1>8. FiniteLogs'
  <2>1. IsFiniteSet(DOMAIN t)
    BY <1>2, <1>3, <1>5, FS_AddElement DEF FiniteLogs
  <2>. QED BY <1>2, <1>4, <2>1 DEF FiniteLogs
<1>9. ASSUME NEW w \in DOMAIN wals, Unbroken(w), NEW x, LastIn(wals', w, x)
      PROVE  wals'[w][x] = Expected(x)'
  <2>1. x \in DOMAIN wals'[w] /\ \A b \in DOMAIN wals : b > w => x \notin DOMAIN wals'[b]
    BY <1>4, <1>9 DEF LastIn
  <2>2. ~(w > a)
    <3>1. w > a => DOMAIN wals[w] = {} /\ w # a
      BY <1>0, <1>2, <1>3 DEF RunningLog
    <3>. QED BY <1>4, <2>1, <3>1
  <2>3. CASE w = a
    <3>1. CASE x = k
      BY <1>4, <1>5, <1>7, <2>3, <3>1
    <3>2. CASE x # k
      <4>1. x \in DOMAIN wals[a]
        BY <1>4, <1>5, <2>1, <2>3, <3>2
      <4>2. LastIn(wals, w, x)
        <5>1. \A b \in DOMAIN wals : b > w => wals'[b] = wals[b]
          BY <1>3, <1>4, <2>3
        <5>. QED BY <2>1, <2>3, <4>1, <5>1 DEF LastIn
      <4>3. wals[a][x] = Expected(x)
        BY <1>2, <1>9, <2>3, <4>2 DEF RunningLog
      <4>. QED BY <1>4, <1>5, <1>7, <2>3, <3>2, <4>1, <4>3
    <3>. QED BY <3>1, <3>2
  <2>4. CASE w # a
    <3>1. a > w
      BY <1>3, <2>2, <2>4
    <3>2. x # k /\ x \notin DOMAIN wals[a]
      BY <1>3, <1>4, <1>5, <2>1, <3>1
    <3>3. LastIn(wals, w, x)
      BY <1>4, <2>1, <2>4, <3>2 DEF LastIn
    <3>4. wals[w][x] = Expected(x)
      BY <1>2, <1>9, <3>3 DEF RunningLog
    <3>. QED BY <1>4, <1>7, <2>4, <3>2, <3>4
  <2>. QED BY <2>3, <2>4
<1>10. \A w : Unbroken(w)' <=> Unbroken(w)
  BY <1>1, <1>4 DEF Unbroken
<1>11. \A w \in DOMAIN wals : w > wal => DOMAIN wals'[w] = {}
  BY <1>0, <1>2, <1>3, <1>4 DEF RunningLog
<1>12. \A w \in DOMAIN wals : DOMAIN wals[w] \subseteq DOMAIN wals'[w]
  BY <1>4, <1>5
<1>13. /\ pending'.key \in DOMAIN wals'[wal]
       /\ DOMAIN memTable \subseteq DOMAIN wals'[wal]
  BY <1>0, <1>2, <1>4, <1>5, <1>6 DEF RunningLog
<1>14. immTable # Nil => \E w \in DOMAIN wals :
                            /\ w < wal /\ DOMAIN immTable \subseteq DOMAIN wals'[w]
                            /\ \A g \in flushers : Installed(g) => g.oldWal # w
  BY <1>2, <1>12 DEF RunningLog
<1>15. \A g \in flushers : /\ g.oldWal \in DOMAIN wals
                           /\ DOMAIN g.table \subseteq DOMAIN wals'[g.oldWal]
  BY <1>2, <1>12 DEF RunningLog
<1>16. /\ \A g, h \in flushers : g.oldWal = h.oldWal => g = h
       /\ \A w \in DOMAIN wals : w <= walFileID
       /\ ~allocating => walFileID \notin DOMAIN wals
  BY <1>2 DEF RunningLog
<1>17. RunningLog'
  BY <1>1, <1>4, <1>9, <1>10, <1>11, <1>13, <1>14, <1>15, <1>16 DEF RunningLog
<1>. QED BY <1>1, <1>8, <1>17 DEF LogInv

LEMMA WriteMemTableLog ==
    ASSUME EngineInv, ~damaged, LogInv, WriteMemTable
    PROVE  LogInv'
<1>0. PICK m, h : /\ m = With(memTable, pending.key, pending.val)
                  /\ h = [stage |-> "reserve", table |-> m, oldWal |-> wal, file |-> 0,
                          line |-> <<>>]
  OBVIOUS
<1>1. /\ pending # Nil /\ contents' = [contents EXCEPT ![pending.key] = pending.val]
      /\ pending' = Nil /\ UNCHANGED <<wals, walFileID, allocating, phase>>
  BY DEF WriteMemTable, diskVars
<1>2. phase = "running"
  BY <1>1 DEF EngineInv, Goroutines
<1>3. RunningLog /\ FiniteLogs /\ TypeOK /\ Goroutines /\ WalOrder
  BY <1>2 DEF LogInv, EngineInv
<1>4. wal \in DOMAIN wals /\ wal \in Nat /\ \A w \in DOMAIN wals : w \in Nat
  BY <1>2, <1>3 DEF TypeOK
<1>5. FiniteLogs'
  BY <1>1, <1>3 DEF FiniteLogs
<1>6. \A k \in Key : Expected(k)' = Expected(k)
  <2>1. contents \in [Key -> Entries] /\ pending.key \in Key
    BY <1>1, <1>3 DEF TypeOK
  <2>. QED BY <1>1, <2>1 DEF Expected
<1>7. DOMAIN m \subseteq DOMAIN wals[wal]
  <2>1. DOMAIN m = DOMAIN memTable \cup {pending.key}
    BY <1>0 DEF With, Over, Single
  <2>. QED BY <1>1, <1>3, <2>1 DEF RunningLog
<1>8. \A w \in DOMAIN wals : \A k : LastIn(wals, w, k) => k \in Key
  BY <1>3, TableParts DEF LastIn, TypeOK
<1>9. CASE ~MustSwitch(m)
  <2>1. memTable' = m /\ UNCHANGED <<immTable, wal, flushers>>
    BY <1>0, <1>9 DEF WriteMemTable
  <2>2. \A w : Unbroken(w)' <=> Unbroken(w)
    BY <1>1, <2>1 DEF Unbroken
  <2>3. RunningLog'
    BY <1>1, <1>3, <1>6, <1>7, <1>8, <2>1, <2>2 DEF RunningLog
  <2>. QED BY <1>1, <1>2, <1>5, <2>3 DEF LogInv
<1>10. CASE MustSwitch(m)
  <2>0. PICK a, b : a = wal /\ b = nextwal
    OBVIOUS
  <2>1. /\ memTable' = EmptyTable /\ immTable' = m /\ wal' = b
        /\ flushers' = flushers \cup {h} /\ nextwal # Nil
    BY <1>0, <1>10, <2>0 DEF WriteMemTable, MustSwitch
  <2>2. a < b /\ b \in DOMAIN wals /\ b \in Nat /\ a \in Nat /\ a \in DOMAIN wals
    BY <1>3, <1>4, <2>0, <2>1 DEF WalOrder
  <2>3. ASSUME NEW w \in DOMAIN wals, Unbroken(w)', NEW k, LastIn(wals, w, k)
        PROVE  wals[w][k] = Expected(k)'
    <3>1. ~(w > a)
      BY <1>3, <2>0, <2>3 DEF RunningLog, LastIn
    <3>2. Unbroken(w)
      <4>1. \A x \in w..a : x \in w..b
        BY <1>4, <2>2
      <4>. QED BY <1>1, <2>0, <2>1, <2>3, <4>1 DEF Unbroken
    <3>3. wals[w][k] = Expected(k)
      BY <1>3, <2>3, <3>2 DEF RunningLog
    <3>. QED BY <1>6, <1>8, <2>3, <3>3
  <2>4. \A w \in DOMAIN wals : w > b => DOMAIN wals[w] = {}
    <3>1. \A w \in DOMAIN wals : w > b => w > a
      BY <1>4, <2>2
    <3>. QED BY <1>3, <2>0, <3>1 DEF RunningLog
  <2>5. h.oldWal = a /\ h.table = m /\ ~Installed(h)
    BY <1>0, <2>0 DEF Installed
  <2>6. \A x \in flushers : x.oldWal # a
    <3>1. \A x \in flushers : x.oldWal \in Nat /\ x.oldWal < a
      BY <1>2, <1>3, <2>0 DEF Goroutines
    <3>. QED BY <2>2, <3>1
  <2>7. \A x \in flushers' : Installed(x) => x.oldWal # a
    BY <2>1, <2>5, <2>6
  <2>8. \A x \in flushers' : x.oldWal \in DOMAIN wals /\ DOMAIN x.table \subseteq DOMAIN wals[x.oldWal]
    BY <1>3, <1>7, <2>0, <2>1, <2>2, <2>5 DEF RunningLog
  <2>9. \A x, y \in flushers' : x.oldWal = y.oldWal => x = y
    BY <1>3, <2>1, <2>5, <2>6 DEF RunningLog
  <2>10. /\ \A w \in DOMAIN wals : w <= walFileID
         /\ ~allocating => walFileID \notin DOMAIN wals
    BY <1>3 DEF RunningLog
  <2>11. \E w \in DOMAIN wals : /\ w < b /\ DOMAIN m \subseteq DOMAIN wals[w]
                                /\ \A x \in flushers' : Installed(x) => x.oldWal # w
    BY <1>7, <2>0, <2>2, <2>7
  <2>12. RunningLog'
    BY <1>1, <2>1, <2>3, <2>4, <2>8, <2>9, <2>10, <2>11, EmptyIsTable DEF RunningLog
  <2>. QED BY <1>1, <1>2, <1>5, <2>12 DEF LogInv
<1>. QED BY <1>9, <1>10

LEMMA PreAllocateLog ==
    ASSUME EngineInv, ~damaged, LogInv, PreAllocate
    PROVE  LogInv'
<1>1. CASE wals' = wals
  <2>1. UNCHANGED <<wal, walFileID, pending, contents, memTable, immTable, phase, flushers>>
    BY DEF PreAllocate, memVars, ghostVars
  <2>2. CASE UNCHANGED allocating
    BY <1>1, <2>1, <2>2, LogQuiet
  <2>3. CASE wals' = Over(wals, Single(walFileID, EmptyTable)) /\ ~allocating /\ phase = "running"
    <3>1. walFileID \in DOMAIN wals
      BY <1>1, <2>3 DEF Over, Single
    <3>. QED BY <2>3, <3>1 DEF LogInv, RunningLog
  <2>. QED BY <2>2, <2>3 DEF PreAllocate
<1>2. CASE wals' # wals
  <2>0. PICK f : f = walFileID
    OBVIOUS
  <2>1. /\ phase = "running" /\ ~allocating /\ wals' = Over(wals, Single(f, EmptyTable))
        /\ allocating' = TRUE
        /\ UNCHANGED <<wal, walFileID, pending, contents, memTable, immTable, phase, flushers>>
    BY <1>2, <2>0 DEF PreAllocate, memVars, ghostVars
  <2>2. RunningLog /\ FiniteLogs /\ TypeOK /\ WalOrder
    BY <2>1 DEF LogInv, EngineInv
  <2>3. /\ f \notin DOMAIN wals /\ f \in Nat /\ wal < f /\ wal \in Nat
        /\ \A w \in DOMAIN wals : w \in Nat
    BY <2>0, <2>1, <2>2 DEF RunningLog, TypeOK, WalOrder
  <2>4. /\ DOMAIN wals' = DOMAIN wals \cup {f} /\ DOMAIN wals'[f] = {}
        /\ \A w \in DOMAIN wals : wals'[w] = wals[w]
    <3>1. DOMAIN wals' = DOMAIN wals \cup {f} /\ wals'[f] = EmptyTable
      BY <2>1, <2>3 DEF Over, Single
    <3>2. \A w \in DOMAIN wals : wals'[w] = wals[w]
      BY <2>1, <2>3 DEF Over, Single
    <3>. QED BY <3>1, <3>2, EmptyIsTable
  <2>5. FiniteLogs'
    BY <2>2, <2>4, FS_EmptySet DEF FiniteLogs
  <2>6. \A k : Expected(k)' = Expected(k)
    BY <2>1 DEF Expected
  <2>7. \A w \in DOMAIN wals : Unbroken(w)' => Unbroken(w)
    <3>1. \A w \in DOMAIN wals : \A b \in w..wal : b # f
      BY <2>3
    <3>. QED BY <2>1, <2>4, <3>1 DEF Unbroken
  <2>8. ASSUME NEW w \in DOMAIN wals', Unbroken(w)', NEW k, LastIn(wals', w, k)
        PROVE  wals'[w][k] = Expected(k)'
    <3>1. w \in DOMAIN wals
      BY <2>4, <2>8 DEF LastIn
    <3>2. LastIn(wals, w, k)
      BY <2>4, <2>8, <3>1 DEF LastIn
    <3>. QED BY <2>2, <2>4, <2>6, <2>7, <2>8, <3>1, <3>2 DEF RunningLog
  <2>9. \A w \in DOMAIN wals' : w > wal => DOMAIN wals'[w] = {}
    BY <2>2, <2>4 DEF RunningLog
  <2>10. wal \in DOMAIN wals /\ wals'[wal] = wals[wal]
    BY <2>1, <2>2, <2>4 DEF TypeOK
  <2>11. immTable # Nil => \E w \in DOMAIN wals' :
                             /\ w < wal /\ DOMAIN immTable \subseteq DOMAIN wals'[w]
                             /\ \A g \in flushers : Installed(g) => g.oldWal # w
    BY <2>2, <2>4 DEF RunningLog
  <2>12. \A g \in flushers : /\ g.oldWal \in DOMAIN wals'
                             /\ DOMAIN g.table \subseteq DOMAIN wals'[g.oldWal]
    BY <2>2, <2>4 DEF RunningLog
  <2>13. \A w \in DOMAIN wals' : w <= walFileID
    BY <2>0, <2>2, <2>3, <2>4 DEF RunningLog
  <2>14. RunningLog'
    BY <2>1, <2>2, <2>8, <2>9, <2>10, <2>11, <2>12, <2>13 DEF RunningLog
  <2>. QED BY <2>1, <2>5, <2>14 DEF LogInv
<1>. QED BY <1>1, <1>2

LEMMA InstallNextWALLog ==
    ASSUME EngineInv, ~damaged, LogInv, InstallNextWAL
    PROVE  LogInv'
<1>1. /\ allocating /\ allocating' = FALSE /\ walFileID' = walFileID + 1
      /\ UNCHANGED <<wals, wal, pending, contents, memTable, immTable, phase, flushers>>
  BY DEF InstallNextWAL, memVars, ghostVars, diskVars
<1>2. phase = "running"
  BY <1>1 DEF EngineInv, Goroutines
<1>3. RunningLog /\ FiniteLogs /\ TypeOK
  BY <1>2 DEF LogInv, EngineInv
<1>4. \A w \in DOMAIN wals : w \in Nat /\ w <= walFileID
  BY <1>3 DEF TypeOK, RunningLog
<1>5. walFileID \in Nat
  BY <1>3 DEF TypeOK
<1>6. \A w \in DOMAIN wals : w <= walFileID + 1 /\ w # walFileID + 1
  BY <1>4, <1>5
<1>7. \A k : Expected(k)' = Expected(k)
  BY <1>1 DEF Expected
<1>8. \A w : Unbroken(w)' <=> Unbroken(w)
  BY <1>1 DEF Unbroken
<1>9. RunningLog'
  BY <1>1, <1>3, <1>6, <1>7, <1>8 DEF RunningLog
<1>10. FiniteLogs'
  BY <1>1, <1>3 DEF FiniteLogs
<1>. QED BY <1>1, <1>2, <1>9, <1>10 DEF LogInv

LEMMA FlushDeleteWALLog ==
    ASSUME EngineInv, ~damaged, FlushInv, LogInv, NEW g \in flushers, FlushDeleteWAL(g)
    PROVE  LogInv'
<1>0. PICK a : a = g.oldWal
  OBVIOUS
<1>1. /\ g.stage = "delete" /\ flushers' = flushers \ {g}
      /\ UNCHANGED <<memTable, immTable, wal, walFileID, allocating, pending, contents, phase>>
  BY DEF FlushDeleteWAL, memVars, walVars, ghostVars
<1>2. phase = "running" /\ a \in Nat /\ a < wal
  <2>1. g.oldWal # Nil
    BY <1>1 DEF FlushInv, FlusherOK
  <2>. QED BY <1>0, <2>1 DEF EngineInv, Goroutines
<1>3. RunningLog /\ FiniteLogs /\ TypeOK
  BY <1>2 DEF LogInv, EngineInv
<1>4. CASE wals' = wals
  BY <1>1, <1>2, <1>4, LogQuiet
<1>5. CASE wals' = Restrict(wals, DOMAIN wals \ {a})
  <2>1. DOMAIN wals' = DOMAIN wals \ {a} /\ \A w \in DOMAIN wals \ {a} : wals'[w] = wals[w]
    BY <1>5 DEF Restrict
  <2>2. wal \in DOMAIN wals /\ wal \in Nat /\ wal # a /\ \A w \in DOMAIN wals : w \in Nat
    BY <1>2, <1>3 DEF TypeOK
  <2>3. FiniteLogs'
    BY <1>3, <2>1 DEF FiniteLogs
  <2>4. \A k : Expected(k)' = Expected(k)
    BY <1>1 DEF Expected
  <2>5. ASSUME NEW w \in DOMAIN wals', Unbroken(w)', NEW k, LastIn(wals', w, k)
        PROVE  wals'[w][k] = Expected(k)'
    <3>1. w \in DOMAIN wals /\ w \in Nat /\ w # a
      BY <2>1, <2>2, <2>5
    <3>2. \A b \in w..wal : b \in DOMAIN wals /\ b # a
      BY <1>1, <2>1, <2>5 DEF Unbroken
    <3>3. ~(w < a)
      BY <1>2, <2>2, <3>1, <3>2
    <3>4. \A b \in DOMAIN wals : b > w => b # a
      BY <1>2, <2>2, <3>1, <3>3
    <3>5. LastIn(wals, w, k)
      BY <2>1, <2>5, <3>1, <3>4 DEF LastIn
    <3>6. wals[w][k] = Expected(k)
      BY <1>3, <3>1, <3>2, <3>5 DEF RunningLog, Unbroken
    <3>. QED BY <2>1, <2>4, <3>1, <3>6
  <2>6. \A w \in DOMAIN wals' : w > wal => DOMAIN wals'[w] = {}
    BY <1>3, <2>1 DEF RunningLog
  <2>7. wals'[wal] = wals[wal]
    BY <2>1, <2>2
  <2>8. immTable # Nil => \E w \in DOMAIN wals' :
                            /\ w < wal /\ DOMAIN immTable \subseteq DOMAIN wals'[w]
                            /\ \A x \in flushers' : Installed(x) => x.oldWal # w
    <3>. SUFFICES ASSUME immTable # Nil
                  PROVE  \E w \in DOMAIN wals' :
                            /\ w < wal /\ DOMAIN immTable \subseteq DOMAIN wals'[w]
                            /\ \A x \in flushers' : Installed(x) => x.oldWal # w
      OBVIOUS
    <3>1. PICK w \in DOMAIN wals : /\ w < wal /\ DOMAIN immTable \subseteq DOMAIN wals[w]
                                   /\ \A x \in flushers : Installed(x) => x.oldWal # w
      BY <1>3 DEF RunningLog
    <3>2. w # a
      BY <1>0, <1>1, <3>1 DEF Installed
    <3>. QED BY <1>1, <2>1, <3>1, <3>2
  <2>9. \A x \in flushers' : x.oldWal # a
    BY <1>0, <1>1, <1>3 DEF RunningLog
  <2>10. \A x \in flushers' : /\ x.oldWal \in DOMAIN wals'
                              /\ DOMAIN x.table \subseteq DOMAIN wals'[x.oldWal]
    BY <1>1, <1>3, <2>1, <2>9 DEF RunningLog
  <2>11. /\ \A x, y \in flushers' : x.oldWal = y.oldWal => x = y
         /\ \A w \in DOMAIN wals' : w <= walFileID
         /\ ~allocating => walFileID \notin DOMAIN wals'
    BY <1>1, <1>3, <2>1 DEF RunningLog
  <2>12. /\ pending # Nil => pending.key \in DOMAIN wals'[wal]
         /\ DOMAIN memTable \subseteq DOMAIN wals'[wal]
    BY <1>3, <2>7 DEF RunningLog
  <2>13. RunningLog'
    BY <1>1, <2>5, <2>6, <2>8, <2>10, <2>11, <2>12 DEF RunningLog
  <2>. QED BY <1>1, <1>2, <2>3, <2>13 DEF LogInv
<1>. QED BY <1>0, <1>4, <1>5 DEF FlushDeleteWAL

LEMMA FlushManifestLog ==
    ASSUME EngineInv, ~damaged, LogInv, NEW g \in flushers, FlushManifest(g)
    PROVE  LogInv'
<1>0. PICK h : h = [g EXCEPT !.stage = "delete"]
  OBVIOUS
<1>1. /\ g.stage = "manifest" /\ g \in FlushRecord
      /\ UNCHANGED <<wals, memTable, immTable, wal, walFileID, allocating, pending, contents>>
  BY DEF FlushManifest, memVars, walVars, ghostVars, EngineInv, TypeOK
<1>2. h.oldWal = g.oldWal /\ h.table = g.table /\ h.stage = "delete"
  BY <1>0, <1>1 DEF FlushRecord
<1>3. CASE g.oldWal # Nil
  <2>1. flushers' = (flushers \ {g}) \cup {h} /\ phase' = phase
    BY <1>0, <1>3 DEF FlushManifest, Advance
  <2>2. Installed(g) /\ Installed(h)
    BY <1>1, <1>2 DEF Installed
  <2>. QED BY <1>1, <1>2, <2>1, <2>2, LogFlusher
<1>4. CASE g.oldWal = Nil
  <2>1. phase = "flush" /\ phase' = "clean" /\ flushers' = flushers \ {g}
        /\ \A x \in flushers : x = g
    BY <1>4, NilAssumption DEF FlushManifest, EngineInv, Goroutines
  <2>2. StoppedLog /\ FiniteLogs
    BY <2>1 DEF LogInv
  <2>3. immTable = Nil
    BY <1>1, <2>1, <2>2 DEF StoppedLog, Installed
  <2>4. StoppedLog'
    BY <1>1, <2>1, <2>2, <2>3 DEF StoppedLog, LastIn
  <2>5. FiniteLogs'
    BY <1>1, <2>2 DEF FiniteLogs
  <2>. QED BY <2>1, <2>4, <2>5 DEF LogInv
<1>. QED BY <1>3, <1>4

LEMMA OpenLog ==
    ASSUME EngineInv, ~damaged, LogInv, Opened
    PROVE  LogInv'
<1>0. PICK m, h : /\ m = RecoverFromWAL(wals)
                  /\ h = [stage |-> "reserve", table |-> m, oldWal |-> Nil, file |-> 0,
                          line |-> <<>>]
  OBVIOUS
<1>1. /\ phase = "down" /\ phase' \in {"flush", "clean"}
      /\ UNCHANGED <<memTable, wals, contents>>
  BY DEF Opened, OpenWith, diskVars
<1>2. StoppedLog /\ FiniteLogs /\ flushers = {}
  BY <1>1 DEF LogInv, EngineInv, Goroutines
<1>3. immTable = Nil
  BY <1>1, <1>2 DEF StoppedLog
<1>4. \/ phase' = "flush" /\ flushers' = {h}
      \/ immTable' = Nil /\ flushers' = {}
  BY <1>0, <1>2, <1>3 DEF Opened, OpenWith
<1>5. h.table = m /\ ~Installed(h)
  BY <1>0 DEF Installed
<1>6. /\ \A g \in flushers' : g.table = RecoverFromWAL(wals)
      /\ immTable' # Nil => phase' = "flush" /\ \E g \in flushers' : ~Installed(g)
  BY <1>0, <1>4, <1>5
<1>7. StoppedLog'
  BY <1>1, <1>2, <1>6 DEF StoppedLog, LastIn
<1>8. FiniteLogs'
  BY <1>1, <1>2 DEF FiniteLogs
<1>. QED BY <1>1, <1>7, <1>8 DEF LogInv

LEMMA CleanLog ==
    ASSUME EngineInv, ~damaged, LogInv, RemoveOldWAL \/ Serve
    PROVE  LogInv'
<1>1. phase = "clean" /\ UNCHANGED <<memTable, immTable, contents, flushers, pending>>
  BY DEF RemoveOldWAL, Serve, memVars, ghostVars
<1>2. StoppedLog /\ FiniteLogs /\ TypeOK /\ Shape /\ flushers = {} /\ pending = Nil /\ ~allocating
  BY <1>1 DEF LogInv, EngineInv, Goroutines
<1>3. immTable = Nil /\ memTable = EmptyTable
  BY <1>1, <1>2 DEF StoppedLog
<1>4. CASE RemoveOldWAL
  <2>1. PICK a : /\ a = CHOOSE w \in DOMAIN wals : \A x \in DOMAIN wals : w <= x
                 /\ wals' = Restrict(wals, DOMAIN wals \ {a})
    BY <1>4 DEF RemoveOldWAL
  <2>2. a \in DOMAIN wals /\ \A x \in DOMAIN wals : a <= x
    <3>1. DOMAIN wals \subseteq Nat /\ DOMAIN wals # {}
      BY <1>2, <1>4 DEF Shape, Bounded, RemoveOldWAL
    <3>2. \E w \in DOMAIN wals : \A x \in DOMAIN wals : w <= x
      BY <3>1, LeastExists
    <3>. QED BY <2>1, <3>2
  <2>3. DOMAIN wals' = DOMAIN wals \ {a} /\ \A w \in DOMAIN wals \ {a} : wals'[w] = wals[w]
    BY <2>1 DEF Restrict
  <2>4. ASSUME NEW w \in DOMAIN wals', NEW k, LastIn(wals', w, k) PROVE wals'[w][k] = contents[k]
    <3>1. w \in DOMAIN wals /\ w # a /\ wals'[w] = wals[w] /\ w \in Nat /\ a \in Nat
      BY <1>2, <2>2, <2>3 DEF TypeOK
    <3>2. ~(a > w)
      BY <2>2, <3>1
    <3>3. LastIn(wals, w, k)
      BY <2>3, <2>4, <3>1, <3>2 DEF LastIn
    <3>. QED BY <1>2, <3>1, <3>3 DEF StoppedLog
  <2>5. phase' = "clean"
    BY <1>1, <1>4 DEF RemoveOldWAL
  <2>6. StoppedLog'
    BY <1>1, <1>3, <2>4, <2>5 DEF StoppedLog
  <2>7. FiniteLogs'
    BY <1>2, <2>3 DEF FiniteLogs
  <2>. QED BY <2>5, <2>6, <2>7 DEF LogInv
<1>5. CASE Serve
  <2>0. PICK f : f = walFileID
    OBVIOUS
  <2>1. /\ wals' = Single(f, EmptyTable) /\ wal' = f /\ walFileID' = f + 1
        /\ allocating' = allocating /\ phase' = "running"
    BY <1>5, <2>0 DEF Serve
  <2>2. DOMAIN wals' = {f} /\ wals'[f] = EmptyTable /\ f \in Nat
    BY <1>2, <2>0, <2>1 DEF Single, TypeOK
  <2>3. DOMAIN wals'[f] = {}
    BY <2>2, EmptyIsTable
  <2>4. FiniteLogs'
    BY <2>2, <2>3, FS_EmptySet DEF FiniteLogs
  <2>5. f <= f + 1 /\ f # f + 1
    BY <2>2
  <2>6. RunningLog'
    BY <1>1, <1>2, <1>3, <2>1, <2>2, <2>3, <2>5, EmptyIsTable DEF RunningLog, LastIn
  <2>. QED BY <2>1, <2>4, <2>6 DEF LogInv
<1>. QED BY <1>4, <1>5

-----------------------------------------------------------------------------
(* What NewDB would load.                                                    *)

\* The list after a restart, when no file is half-written.
LEMMA Reloaded ==
    ASSUME Good, TornFiles(files) = {}
    PROVE  /\ loadSSTables(files, manifest) \in Seq(Nat) /\ Once(loadSSTables(files, manifest))
           /\ Range(loadSSTables(files, manifest)) = Complete(files)
           /\ \A x, y : Before(loadSSTables(files, manifest), x, y) <=>
                 x \in Complete(files) /\ y \in Complete(files) /\ ManifestOrder(manifest, x, y)
<1>. USE DEF Good
<1>1. Bounded(Complete(files)) /\ manifest \in Seq(Nat)
  <2>1. Complete(files) \subseteq DOMAIN files
    BY DEF Complete
  <2>. QED BY <2>1, BoundedSubset DEF EngineInv, Shape, TypeOK
<1>2. loadSSTables(files, manifest) = applyManifestOrder(manifest, Complete(files))
  BY DEF loadSSTables
<1>3. Once(manifest)
  BY DEF OrderInv, Lines, LineOK
<1>. QED BY <1>1, <1>2, <1>3, BeforeManifest, OnceManifest

LEMMA SstablesOnce == Good => sstables \in Seq(Nat) /\ Once(sstables) /\ Range(sstables) \subseteq Complete(files)
BY DEF Good, EngineInv, TypeOK, OrderInv, Lines, LineOK, FileInv, AllListed

\* Unless the manifest is stale it gives the list the order it has.
LEMMA FreshManifest ==
    ASSUME Good, ~StaleManifest, NEW x, NEW y, Before(sstables, x, y)
    PROVE  ManifestOrder(manifest, x, y)
<1>1. sstables = applyManifestOrder(manifest, Range(sstables))
  BY DEF StaleManifest
<1>2. Bounded(Range(sstables)) /\ manifest \in Seq(Nat)
  <2>1. Range(sstables) \subseteq DOMAIN files
    BY SstablesOnce DEF Complete
  <2>. QED BY <2>1, BoundedSubset DEF Good, EngineInv, Shape, TypeOK
<1>3. PICK S, list : S = Range(sstables) /\ list = sstables
  OBVIOUS
<1>4. list = applyManifestOrder(manifest, S) /\ Before(list, x, y) /\ Bounded(S)
  BY <1>1, <1>2, <1>3
<1>5. Before(applyManifestOrder(manifest, S), x, y)
  BY <1>4
<1>. QED BY <1>2, <1>4, <1>5, BeforeManifest

\* Every file that holds k is in the list.
LEMMA ReloadListed ==
    ASSUME Good, ~StaleManifest, TornFiles(files) = {}, NEW k,
           \A x : Holds(files, x, k) => x \in Range(sstables)
    PROVE  Found(loadSSTables(files, manifest), files, k) = Found(sstables, files, k)
<1>1. PICK A, B, fs : A = sstables /\ B = loadSSTables(files, manifest) /\ fs = files
  OBVIOUS
<1>2. A \in Seq(Nat) /\ Once(A) /\ Range(A) \subseteq Complete(fs)
  BY <1>1, SstablesOnce
<1>3. B \in Seq(Nat) /\ Once(B) /\ Range(B) = Complete(fs)
  BY <1>1, Reloaded
<1>4. \A x, y : Before(A, x, y) => x \in Complete(fs) /\ y \in Complete(fs)
  BY <1>2, BeforeListed
<1>5. \A x, y : Before(A, x, y) => Before(B, x, y)
  BY <1>1, <1>4, FreshManifest, Reloaded
<1>6. \A x : x \in Range(A) /\ Holds(fs, x, k) => x \in Range(B) /\ Holds(fs, x, k)
  BY <1>2, <1>3
<1>7. \A x : x \in Range(B) /\ Holds(fs, x, k) => x \in Range(A) /\ Holds(fs, x, k)
  BY <1>1
<1>8. Found(A, fs, k) = Found(B, fs, k)
  BY <1>2, <1>3, <1>5, <1>6, <1>7, SameFound
<1>. QED BY <1>1, <1>8

\* The result of a compaction is complete and not yet in the list: it answers for
\* all tables of the list, and NewDB takes it for the newest.
LEMMA ReloadMerged ==
    ASSUME Good, MergeInv, ~Compacting, TornFiles(files) = {}, NEW k \in Key,
           compactor.stage = "install"
    PROVE  Found(loadSSTables(files, manifest), files, k) = Found(sstables, files, k)
<1>. USE DEF Good
<1>1. PICK A, B, P, f, fs : /\ A = sstables /\ B = loadSSTables(files, manifest)
                            /\ P = compactor.picked /\ f = compactor.file /\ fs = files
  OBVIOUS
<1>2. A \in Seq(Nat) /\ Once(A) /\ Range(A) \subseteq Complete(fs)
  BY <1>1, SstablesOnce
<1>3. B \in Seq(Nat) /\ Once(B) /\ Range(B) = Complete(fs)
  BY <1>1, Reloaded
<1>4. /\ P \in Seq(Nat) /\ Once(P) /\ f \in Complete(fs) /\ f \in Nat
      /\ f \notin Range(A) /\ Range(P) \subseteq Range(A)
  BY <1>1, CompactorFile DEF OrderInv, FileInv, Writers, Writing, Owned, Picked, EngineInv,
     TypeOK, CompactRecord
<1>5. Complete(fs) \subseteq Range(P) \cup {f}
  BY <1>1 DEF Compacting
<1>6. Range(A) = Range(P)
  BY <1>2, <1>4, <1>5
<1>7. Found(P, fs, k) = Found(A, fs, k)
  <2>1. Agree(A, P)
    BY <1>1 DEF OrderInv, Lines, LineOK
  <2>2. \A x, y : Before(P, x, y) => Before(A, x, y)
    BY <1>6, <2>1, BeforeListed DEF Agree
  <2>. QED BY <1>2, <1>4, <1>6, <2>2, SameFound
<1>8. fs[f] = doMerge(P, fs)
  BY <1>1 DEF MergeInv, MergeOK
<1>9. \A x \in Range(P) : Before(B, x, f)
  <2>1. manifest \in Lines /\ f \in WrittenFiles
    BY <1>1 DEF Lines, WrittenFiles, Writing
  <2>2. f \notin Range(manifest)
    BY <2>1 DEF OrderInv, LineOK
  <2>3. \A x \in Range(P) : x < f /\ x \in Complete(fs)
    BY <1>1, <1>2, <1>6 DEF MergeOrderInv, MergeOrder
  <2>4. \A x \in Range(P) : ManifestOrder(manifest, x, f)
    BY <2>2, <2>3 DEF ManifestOrder
  <2>. QED BY <1>1, <1>4, <2>3, <2>4, Reloaded
<1>10. CASE Holding(P, fs, k) = {}
  <2>1. k \notin DOMAIN fs[f]
    BY <1>4, <1>8, <1>10, MergeFound
  <2>2. \A x \in Range(B) : ~Holds(fs, x, k)
    BY <1>3, <1>5, <1>10, <2>1, HoldingParts DEF Holds
  <2>3. Holding(B, fs, k) = {}
    BY <2>2, HoldingParts
  <2>. QED BY <1>1, <1>7, <1>10, <2>3 DEF Found
<1>11. CASE Holding(P, fs, k) # {}
  <2>1. k \in DOMAIN fs[f] /\ fs[f][k] = Found(P, fs, k)
    BY <1>4, <1>8, <1>11, MergeFound
  <2>2. Newest(B, fs, k, f)
    BY <1>3, <1>4, <1>5, <1>9, <2>1 DEF Newest, Holds
  <2>3. Found(B, fs, k) = fs[f][k]
    BY <1>3, <2>2, NewestValue
  <2>. QED BY <1>1, <1>7, <2>1, <2>3
<1>. QED BY <1>10, <1>11

\* The result of a compaction is the list, and some of its tables are still there:
\* wherever NewDB puts them, the last of them agrees with the result.
LEMMA ReloadReplaced ==
    ASSUME Good, MergeInv, ~Compacting, TornFiles(files) = {}, NEW k \in Key,
           compactor.stage \in {"manifest", "remove"}
    PROVE  Found(loadSSTables(files, manifest), files, k) = Found(sstables, files, k)
<1>. USE DEF Good
<1>1. PICK A, B, P, f, fs : /\ A = sstables /\ B = loadSSTables(files, manifest)
                            /\ P = compactor.picked /\ f = compactor.file /\ fs = files
  OBVIOUS
<1>2. A \in Seq(Nat) /\ Once(A) /\ Range(A) \subseteq Complete(fs)
  BY <1>1, SstablesOnce
<1>3. B \in Seq(Nat) /\ Once(B) /\ Range(B) = Complete(fs)
  BY <1>1, Reloaded
<1>4. /\ P \in Seq(Nat) /\ Once(P) /\ f \in Range(A) /\ Range(P) \cap Range(A) = {}
      /\ Range(P) \subseteq Complete(fs)
  BY <1>1, CompactorFile DEF OrderInv, FileInv, Picked, MergeOrderInv, MergeOrder
<1>5. Complete(fs) \subseteq Range(P) \cup {f} /\ P = Ascending(Range(P))
  BY <1>1 DEF Compacting
<1>6. Range(A) = {f}
  BY <1>2, <1>4, <1>5
<1>7. \A x, y : Before(P, x, y) => Before(B, x, y)
  <2>1. Bounded(Range(P))
    <3>1. Range(P) \subseteq DOMAIN fs /\ Bounded(DOMAIN fs)
      BY <1>1, <1>4 DEF Complete, EngineInv, Shape
    <3>. QED BY <3>1, BoundedSubset
  <2>2. PICK S : S = Range(P)
    OBVIOUS
  <2>3. Bounded(S) /\ P = Ascending(S)
    BY <1>5, <2>1, <2>2
  <2>4. \A x, y : Before(P, x, y) => x \in S /\ y \in S /\ x < y
    BY <2>3, BeforeAscending
  <2>5. Agree(manifest, P)
    BY <1>1 DEF OrderInv, Lines, LineOK
  <2>6. \A x, y : Before(P, x, y) => ManifestOrder(manifest, x, y)
    BY <2>4, <2>5 DEF Agree, ManifestOrder
  <2>. QED BY <1>1, <1>4, <2>2, <2>4, <2>6, Reloaded
<1>8. CASE Holding(B, fs, k) = {}
  <2>1. Holding(A, fs, k) = {}
    BY <1>2, <1>3, <1>8, HoldingParts
  <2>. QED BY <1>1, <1>8, <2>1 DEF Found
<1>9. CASE Holding(B, fs, k) # {}
  <2>1. PICK z : Newest(B, fs, k, z) /\ Found(B, fs, k) = fs[z][k]
    BY <1>3, <1>9, NewestExists
  <2>2. ASSUME k \in DOMAIN fs[f] PROVE Found(A, fs, k) = fs[f][k]
    <3>1. Newest(A, fs, k, f)
      BY <1>2, <1>4, <1>6, <2>2 DEF Newest, Holds
    <3>. QED BY <1>2, <3>1, NewestValue
  <2>3. CASE z = f
    <3>1. k \in DOMAIN fs[f]
      BY <2>1, <2>3 DEF Newest, Holds
    <3>. QED BY <1>1, <2>1, <2>2, <2>3, <3>1
  <2>4. CASE z \in Range(P)
    <3>1. ASSUME NEW y \in Range(P), Holds(fs, y, k) PROVE y = z \/ Before(P, y, z)
      <4>. SUFFICES ASSUME y # z, ~Before(P, y, z) PROVE FALSE
        OBVIOUS
      <4>1. Before(P, z, y)
        BY <1>4, <2>4, <3>1, BeforeTotal
      <4>2. Before(B, z, y)
        BY <1>7, <4>1
      <4>3. Before(B, y, z)
        BY <1>3, <1>4, <2>1, <3>1 DEF Newest
      <4>. QED BY <1>3, <4>2, <4>3, BeforeOneWay
    <3>2. Newest(P, fs, k, z)
      BY <2>1, <2>4, <3>1 DEF Newest
    <3>3. Holding(P, fs, k) # {} /\ Found(P, fs, k) = fs[z][k]
      BY <1>4, <3>2, NewestValue
    <3>4. k \in DOMAIN fs[f] /\ Found(P, fs, k) = fs[f][k]
      BY <1>1, <3>3 DEF MergeInv, MergeOK
    <3>. QED BY <1>1, <2>1, <2>2, <3>3, <3>4
  <2>5. z \in Complete(fs)
    BY <2>1 DEF Newest, Holds
  <2>. QED BY <1>5, <2>3, <2>4, <2>5
<1>. QED BY <1>8, <1>9

LEMMA ReloadFound ==
    ASSUME Good, MergeInv, ~Compacting, ~StaleManifest, TornFiles(files) = {}, NEW k \in Key,
           \A x : Holds(files, x, k) =>
              x \in Range(sstables) \/ x = compactor.file \/ x \in Range(compactor.picked)
    PROVE  Found(loadSSTables(files, manifest), files, k) = Found(sstables, files, k)
<1>. USE DEF Good
<1>1. CASE compactor.stage = "install"
  BY <1>1, ReloadMerged
<1>2. CASE compactor.stage \in {"manifest", "remove"}
  BY <1>2, ReloadReplaced
<1>3. CASE compactor.stage \in {"idle", "reserve", "blocks", "footer"}
  <2>1. Range(compactor.picked) \subseteq Range(sstables)
    <3>1. CASE compactor.stage = "idle"
      BY <3>1, BeforeEmpty DEF MergeInv, MergeOK
    <3>2. CASE compactor.stage # "idle"
      BY <1>3, <3>2 DEF FileInv, Picked
    <3>. QED BY <3>1, <3>2
  <2>2. compactor.file \notin Complete(files)
    <3>1. CASE compactor.stage \in {"idle", "reserve"}
      BY <3>1 DEF MergeOrderInv, MergeOrder, Complete
    <3>2. CASE compactor.stage \in {"blocks", "footer"}
      BY <3>2 DEF FileInv, Writers, Writing, Owned
    <3>. QED BY <1>3, <3>1, <3>2
  <2>3. \A x : Holds(files, x, k) => x \in Range(sstables)
    BY <2>1, <2>2 DEF Holds
  <2>. QED BY <2>3, ReloadListed
<1>4. compactor.stage \in {"idle", "reserve", "blocks", "footer", "install", "manifest", "remove"}
  BY DEF EngineInv, TypeOK, CompactRecord
<1>. QED BY <1>1, <1>2, <1>3, <1>4

-----------------------------------------------------------------------------
(* The map that clients see, and the one they would see after a crash.       *)

Look ==
    IF phase = "down" THEN \A k \in Key : Recovered[k] = contents[k]
    ELSE \A k \in Key : Lookup(memTable, immTable, sstables, files, k) = contents[k]

LookInv == ~damaged => Look

LEMMA RecoveredValue ==
    ASSUME NEW k \in Key
    PROVE  Recovered[k] = IF k \in DOMAIN RecoverFromWAL(wals) THEN RecoverFromWAL(wals)[k]
                          ELSE Found(loadSSTables(files, manifest), files, k)
BY LookupParts DEF Recovered

\* A key in the logs: the last record of it is the last value written.
LEMMA DurableInLog ==
    ASSUME EngineInv, ~damaged, LogInv, ~Overtaken, NEW k \in Key,
           k \in DOMAIN RecoverFromWAL(wals)
    PROVE  RecoverFromWAL(wals)[k] = Expected(k)
<1>1. Bounded(DOMAIN wals)
  BY DEF EngineInv, Shape
<1>2. PICK w \in DOMAIN wals : LastIn(wals, w, k) /\ RecoverFromWAL(wals)[k] = wals[w][k]
  BY <1>1, Replayed
<1>3. CASE phase = "running"
  <2>1. Unbroken(w)
    <3>1. wal \in DOMAIN wals
      BY <1>3 DEF EngineInv, TypeOK
    <3>. QED BY <1>2, <3>1 DEF Overtaken, Unbroken
  <2>. QED BY <1>2, <1>3, <2>1 DEF LogInv, RunningLog
<1>4. CASE phase # "running"
  BY <1>2, <1>4 DEF LogInv, StoppedLog, Expected, EngineInv, Goroutines
<1>. QED BY <1>3, <1>4

\* A key in no log: it is in no memtable and in the table of no flush under way.
LEMMA NotInLog ==
    ASSUME EngineInv, ~damaged, LogInv, FlushInv, phase # "down", NEW k \in Key,
           k \notin DOMAIN RecoverFromWAL(wals)
    PROVE  /\ Expected(k) = contents[k]
           /\ k \notin DOMAIN memTable /\ (immTable # Nil => k \notin DOMAIN immTable)
           /\ \A g \in flushers : k \notin DOMAIN g.table
<1>1. Bounded(DOMAIN wals)
  BY DEF EngineInv, Shape
<1>2. \A w \in DOMAIN wals : k \notin DOMAIN wals[w]
  BY <1>1, Replayed
<1>3. CASE phase = "running"
  <2>1. RunningLog /\ wal \in DOMAIN wals
    BY <1>3 DEF LogInv, EngineInv, TypeOK
  <2>2. pending # Nil => pending.key # k
    BY <1>2, <2>1 DEF RunningLog
  <2>3. k \notin DOMAIN memTable
    BY <1>2, <2>1 DEF RunningLog
  <2>4. immTable # Nil => k \notin DOMAIN immTable
    BY <1>2, <2>1 DEF RunningLog
  <2>5. \A g \in flushers : k \notin DOMAIN g.table
    BY <1>2, <2>1 DEF RunningLog
  <2>. QED BY <2>2, <2>3, <2>4, <2>5 DEF Expected
<1>4. CASE phase # "running"
  <2>1. StoppedLog /\ pending = Nil
    BY <1>4 DEF LogInv, EngineInv, Goroutines
  <2>2. k \notin DOMAIN memTable
    BY <2>1, EmptyIsTable DEF StoppedLog
  <2>3. \A g \in flushers : k \notin DOMAIN g.table
    <3>1. \A g \in flushers : phase = "flush"
      BY <1>4 DEF EngineInv, Goroutines
    <3>. QED BY <2>1, <3>1 DEF StoppedLog
  <2>4. immTable # Nil => k \notin DOMAIN immTable
    BY <2>1, <2>3 DEF StoppedLog, FlushInv, FlusherOK
  <2>. QED BY <2>1, <2>2, <2>3, <2>4 DEF Expected
<1>. QED BY <1>3, <1>4

\* Which complete files can hold a key that is in no log.
LEMMA HoldersKnown ==
    ASSUME Good, FlushInv, ~Abandoned, phase # "down", NEW k,
           \A g \in flushers : k \notin DOMAIN g.table
    PROVE  \A x : Holds(files, x, k) =>
              x \in Range(sstables) \/ x = compactor.file \/ x \in Range(compactor.picked)
<1>. USE DEF Good
<1>1. ASSUME NEW g \in flushers PROVE ~Holds(files, g.file, k)
  <2>. SUFFICES ASSUME g.file \in Complete(files), k \in DOMAIN files[g.file] PROVE FALSE
    BY DEF Holds
  <2>1. FlusherOK(g, immTable, files) /\ g \in FlushRecord
    BY DEF FlushInv, EngineInv, TypeOK
  <2>2. g.stage # "reserve"
    BY <2>1 DEF FlusherOK, MergeOrderInv, MergeOrder, Complete
  <2>3. g.stage \notin {"blocks", "footer"}
    BY DEF FileInv, Writers, Writing, Owned
  <2>4. g.stage = "install" \/ Installed(g)
    BY <2>1, <2>2, <2>3 DEF FlushRecord, Installed
  <2>5. files[g.file] = g.table
    BY <2>1, <2>4 DEF FlusherOK
  <2>. QED BY <2>5
<1>2. ASSUME NEW x, Holds(files, x, k)
      PROVE  x \in Range(sstables) \/ x = compactor.file \/ x \in Range(compactor.picked)
  <2>1. x \in Complete(files) /\ \A g \in flushers : x # g.file
    BY <1>1, <1>2 DEF Holds
  <2>2. CASE phase = "running"
    BY <2>1, <2>2 DEF Abandoned
  <2>3. CASE phase # "running"
    <3>1. phase \in {"flush", "clean"}
      BY <2>3 DEF EngineInv, TypeOK
    <3>. QED BY <2>1, <3>1 DEF FlushInv, Loaded
  <2>. QED BY <2>2, <2>3
<1>. QED BY <1>2

LEMMA DurableNow ==
    ASSUME Good, MergeInv, FlushInv, LogInv, LookInv, ~Exposed
    PROVE  Durable
<1>. USE DEF Good
<1>1. SUFFICES ASSUME NEW k \in Key PROVE Recovered[k] = Expected(k)
  BY DEF Durable, Expected
<1>2. CASE phase = "down"
  <2>1. pending = Nil
    BY <1>2 DEF EngineInv, Goroutines
  <2>. QED BY <1>2, <2>1 DEF LookInv, Look, Expected
<1>3. CASE phase # "down" /\ k \in DOMAIN RecoverFromWAL(wals)
  <2>1. RecoverFromWAL(wals)[k] = Expected(k)
    BY <1>3, DurableInLog DEF Exposed
  <2>. QED BY <1>3, <2>1, RecoveredValue
<1>4. CASE phase # "down" /\ k \notin DOMAIN RecoverFromWAL(wals)
  <2>1. /\ Expected(k) = contents[k]
        /\ k \notin DOMAIN memTable /\ (immTable # Nil => k \notin DOMAIN immTable)
        /\ \A g \in flushers : k \notin DOMAIN g.table
    BY <1>4, NotInLog
  <2>2. Found(sstables, files, k) = contents[k]
    <3>1. Lookup(memTable, immTable, sstables, files, k) = contents[k]
      BY <1>4 DEF LookInv, Look
    <3>. QED BY <2>1, <3>1, LookupParts
  <2>3. \A x : Holds(files, x, k) =>
           x \in Range(sstables) \/ x = compactor.file \/ x \in Range(compactor.picked)
    BY <1>4, <2>1, HoldersKnown DEF Exposed
  <2>4. Found(loadSSTables(files, manifest), files, k) = Found(sstables, files, k)
    BY <2>3, ReloadFound DEF Exposed
  <2>. QED BY <1>4, <2>1, <2>2, <2>4, RecoveredValue
<1>. QED BY <1>2, <1>3, <1>4

LEMMA ListedKept ==
    ASSUME Good, Next1, [Next]_vars
    PROVE  \A x \in Range(sstables) : x \in Complete(files') /\ files'[x] = files[x]
<1>. USE DEF Good, Next1
<1>1. CASE ~CompactRemove
  BY <1>1, OtherFiles, SstablesOnce DEF Kept
<1>2. CASE CompactRemove
  <2>1. Range(compactor.picked) \cap Range(sstables) = {}
    BY <1>2 DEF FileInv, Picked, CompactRemove
  <2>. QED BY <2>1, SurvivingFiles, SstablesOnce
<1>. QED BY <1>1, <1>2

\* The steps that change neither the map nor the way it is looked up.
LEMMA LookQuiet ==
    ASSUME Good, Next1, [Next]_vars, LookInv, phase # "down", phase' # "down",
           UNCHANGED <<memTable, immTable, sstables, contents>>
    PROVE  LookInv'
<1>1. PICK list, fs, gs : list = sstables /\ fs = files /\ gs = files'
  OBVIOUS
<1>2. /\ list \in Seq(Nat) /\ Range(list) \subseteq Complete(fs)
      /\ \A x \in Range(list) : x \in Complete(gs) /\ gs[x] = fs[x]
  BY <1>1, ListedKept, SstablesOnce
<1>3. \A k : Found(list, gs, k) = Found(list, fs, k)
  BY <1>2, ReadAlike
<1>4. ASSUME NEW k \in Key
      PROVE  Lookup(memTable', immTable', sstables', files', k) = contents'[k]
  <2>1. Lookup(memTable, immTable, sstables, files, k) = contents[k]
    BY <1>4 DEF Good, LookInv, Look
  <2>2. Lookup(memTable, immTable, list, gs, k) = Lookup(memTable, immTable, list, fs, k)
    BY <1>3, LookupParts
  <2>. QED BY <1>1, <2>1, <2>2
<1>. QED BY <1>4 DEF LookInv, Look

LEMMA LookStutter ==
    ASSUME LookInv, ~damaged,
           UNCHANGED <<memTable, immTable, sstables, files, manifest, wals, contents, phase>>
    PROVE  LookInv'
<1>1. Recovered' = Recovered
  BY DEF Recovered
<1>. QED BY <1>1 DEF LookInv, Look

LEMMA WriteMemTableLook ==
    ASSUME Good, Next1, LookInv, WriteMemTable
    PROVE  LookInv'
<1>. USE DEF Good, Next1
<1>0. PICK m, a, v : /\ m = With(memTable, a, v) /\ a = pending.key /\ v = pending.val
  OBVIOUS
<1>1. /\ contents' = [contents EXCEPT ![a] = v] /\ phase = "running" /\ a \in Key
      /\ UNCHANGED <<sstables, files, phase>> /\ contents \in [Key -> Entries]
  BY <1>0 DEF WriteMemTable, diskVars, EngineInv, Goroutines, TypeOK
<1>2. DOMAIN m = DOMAIN memTable \cup {a} /\ m[a] = v /\ \A x \in DOMAIN memTable \ {a} : m[x] = memTable[x]
  BY <1>0 DEF With, Over, Single
<1>3. ASSUME NEW k \in Key
      PROVE  Lookup(memTable', immTable', sstables', files', k) = contents'[k]
  <2>1. Lookup(memTable, immTable, sstables, files, k) = contents[k]
    BY <1>1 DEF LookInv, Look
  <2>2. contents'[k] = IF k = a THEN v ELSE contents[k]
    BY <1>1
  <2>3. Lookup(m, immTable, sstables, files, k) = contents'[k]
    BY <1>2, <2>1, <2>2, LookupParts
  <2>4. CASE ~MustSwitch(m)
    <3>1. memTable' = m /\ immTable' = immTable
      BY <1>0, <2>4 DEF WriteMemTable
    <3>. QED BY <1>1, <2>3, <3>1
  <2>5. CASE MustSwitch(m)
    <3>1. memTable' = EmptyTable /\ immTable' = m /\ immTable = Nil
      BY <1>0, <2>5 DEF WriteMemTable, MustSwitch
    <3>2. immTable' # Nil
      <4>1. immTable' \in Table \/ immTable' = Nil
        BY DEF EngineInv, TypeOK
      <4>2. m \in Table
        BY <1>0, <1>1, WithTable DEF EngineInv, TypeOK, WriteMemTable
      <4>. QED BY <3>1, <4>2, FileAssumption
    <3>3. Lookup(EmptyTable, m, sstables, files, k) = Lookup(m, Nil, sstables, files, k)
      BY <3>1, <3>2, LookupParts, EmptyIsTable
    <3>. QED BY <1>1, <2>3, <3>1, <3>3
  <2>. QED BY <2>4, <2>5
<1>. QED BY <1>1, <1>3 DEF LookInv, Look

LEMMA FlushInstallLook ==
    ASSUME Good, Next1, FlushInv, LookInv, NEW g \in flushers, FlushInstall(g)
    PROVE  LookInv'
<1>. USE DEF Good, Next1
<1>0. PICK A, B, f, fs : A = sstables /\ B = sstables' /\ f = g.file /\ fs = files
  OBVIOUS
<1>1. /\ g.stage = "install" /\ B = Append(A, f) /\ immTable' = Nil
      /\ UNCHANGED <<memTable, files, phase, contents>>
  BY <1>0 DEF FlushInstall, Appended, diskVars, ghostVars
<1>2. phase # "down" /\ g \in FlushRecord /\ f \in Nat
  BY <1>0, FlusherUp DEF EngineInv, TypeOK, FlushRecord
<1>3. A \in Seq(Nat) /\ Once(A) /\ Range(A) \subseteq Complete(fs)
  BY <1>0, SstablesOnce
<1>4. f \notin Range(A) /\ f \in Complete(fs)
  BY <1>0, <1>1 DEF FileInv, Writers, Writing, Owned
<1>5. fs[f] = immTable /\ immTable # Nil
  <2>1. fs[f] = g.table /\ g.table = immTable
    BY <1>0, <1>1 DEF FlushInv, FlusherOK, Installed
  <2>2. g.table # Nil
    BY <1>2, FileAssumption DEF FlushRecord
  <2>. QED BY <2>1, <2>2
<1>6. /\ Range(B) = Range(A) \cup {f} /\ B \in Seq(Nat)
      /\ \A x, y : Before(B, x, y) <=> Before(A, x, y) \/ (x \in Range(A) /\ y = f)
  BY <1>1, <1>2, <1>3, AppendRange, BeforeAppend
<1>7. Once(B)
  BY <1>3, <1>4, <1>6 DEF Once
<1>8. ASSUME NEW k \in Key
      PROVE  Lookup(memTable', immTable', sstables', files', k) = contents'[k]
  <2>1. Lookup(memTable, immTable, A, fs, k) = contents[k]
    BY <1>0, <1>2 DEF LookInv, Look
  <2>2. ASSUME k \in DOMAIN immTable PROVE Found(B, fs, k) = immTable[k]
    <3>1. Newest(B, fs, k, f)
      BY <1>4, <1>5, <1>6, <2>2 DEF Newest, Holds
    <3>. QED BY <1>5, <1>6, <1>7, <3>1, NewestValue
  <2>3. ASSUME k \notin DOMAIN immTable PROVE Found(B, fs, k) = Found(A, fs, k)
    <3>1. ~Holds(fs, f, k)
      BY <1>5, <2>3 DEF Holds
    <3>2. \A x : x \in Range(B) /\ Holds(fs, x, k) => x \in Range(A) /\ Holds(fs, x, k)
      BY <1>6, <3>1
    <3>3. \A x : x \in Range(A) /\ Holds(fs, x, k) => x \in Range(B) /\ Holds(fs, x, k)
      BY <1>6
    <3>4. \A x, y : Before(A, x, y) => Before(B, x, y)
      BY <1>6
    <3>5. Found(A, fs, k) = Found(B, fs, k)
      BY <1>3, <1>6, <1>7, <3>2, <3>3, <3>4, SameFound
    <3>. QED BY <3>5
  <2>4. Lookup(memTable, Nil, B, fs, k) = Lookup(memTable, immTable, A, fs, k)
    BY <1>5, <2>2, <2>3, LookupParts
  <2>. QED BY <1>0, <1>1, <2>1, <2>4
<1>. QED BY <1>1, <1>2, <1>8 DEF LookInv, Look

LEMMA CompactInstallLook ==
    ASSUME Good, Next1, MergeInv, LookInv, CompactInstall
    PROVE  LookInv'
<1>. USE DEF Good, Next1
<1>0. PICK A, B, P, f, fs : /\ A = sstables /\ B = sstables' /\ P = compactor.picked
                            /\ f = compactor.file /\ fs = files
  OBVIOUS
<1>1. /\ compactor.stage = "install" /\ B = Replaced(A, P, f) /\ Range(A) \subseteq Range(P)
      /\ UNCHANGED <<memTable, immTable, files, phase, contents>>
  BY <1>0 DEF CompactInstall, Misplaced, diskVars
<1>2. phase # "down" /\ f \in Nat /\ P \in Seq(Nat) /\ f \in Complete(fs) /\ Once(P)
  BY <1>0, <1>1, CompactorRuns, CompactorFile DEF EngineInv, TypeOK, CompactRecord, OrderInv
<1>11. f # 0
  BY <1>0, <1>2 DEF MergeOrderInv, MergeOrder, Complete
<1>3. A \in Seq(Nat) /\ Once(A) /\ Range(A) \subseteq Complete(fs)
  BY <1>0, SstablesOnce
<1>4. Range(A) = Range(P)
  BY <1>0, <1>1 DEF FileInv, Picked
<1>5. B \in Seq(Nat) /\ Range(B) = {f} /\ \A x, y : Before(B, x, y) => Before(A, x, y)
  <2>1. B \in Seq(Nat) /\ Range(B) = (Range(A) \ Range(P)) \cup {f}
    BY <1>1, <1>2, <1>3, <1>11, ReplacedParts
  <2>2. \A x, y : Before(B, x, y) => Before(A, x, y) \/ x \in Range(A) \ Range(P)
    BY <1>1, <1>2, <1>3, BeforeReplaced
  <2>. QED BY <1>4, <2>1, <2>2
<1>6. Once(B)
  BY <1>3, <1>5 DEF Once
<1>7. ASSUME NEW k \in Key PROVE Found(P, fs, k) = Found(A, fs, k)
  <2>1. Agree(A, P)
    BY <1>0 DEF OrderInv, Lines, LineOK
  <2>2. \A x, y : Before(P, x, y) => Before(A, x, y)
    BY <1>4, <2>1, BeforeListed DEF Agree
  <2>. QED BY <1>2, <1>3, <1>4, <2>2, SameFound
<1>8. fs[f] = doMerge(P, fs)
  BY <1>0, <1>1 DEF MergeInv, MergeOK
<1>9. ASSUME NEW k \in Key PROVE Found(B, fs, k) = Found(A, fs, k)
  <2>1. CASE Holding(P, fs, k) = {}
    <3>1. k \notin DOMAIN fs[f]
      BY <1>2, <1>8, <2>1, MergeFound
    <3>2. Holding(B, fs, k) = {}
      BY <1>5, <3>1, HoldingParts DEF Holds
    <3>. QED BY <1>7, <2>1, <3>2 DEF Found
  <2>2. CASE Holding(P, fs, k) # {}
    <3>1. k \in DOMAIN fs[f] /\ fs[f][k] = Found(P, fs, k)
      BY <1>2, <1>8, <2>2, MergeFound
    <3>2. Newest(B, fs, k, f)
      BY <1>2, <1>5, <3>1 DEF Newest, Holds
    <3>3. Found(B, fs, k) = fs[f][k]
      BY <1>5, <1>6, <3>2, NewestValue
    <3>. QED BY <1>7, <3>1, <3>3
  <2>. QED BY <2>1, <2>2
<1>10. ASSUME NEW k \in Key
       PROVE  Lookup(memTable', immTable', sstables', files', k) = contents'[k]
  <2>1. Lookup(memTable, immTable, A, fs, k) = contents[k]
    BY <1>0, <1>2 DEF LookInv, Look
  <2>2. Lookup(memTable, immTable, B, fs, k) = Lookup(memTable, immTable, A, fs, k)
    BY <1>9, LookupParts
  <2>. QED BY <1>0, <1>1, <2>1, <2>2
<1>. QED BY <1>1, <1>2, <1>10 DEF LookInv, Look

\* NewDB: the logs' replay is immTable, or it is empty.
LEMMA OpenLook ==
    ASSUME Good, Next1, LogInv, LookInv, Opened
    PROVE  LookInv'
<1>. USE DEF Good, Next1
<1>0. PICK m : m = RecoverFromWAL(wals)
  OBVIOUS
<1>1. /\ phase = "down" /\ phase' # "down" /\ sstables' = loadSSTables(files, manifest)
      /\ UNCHANGED <<memTable, files, contents>>
  BY DEF Opened, OpenWith, diskVars
<1>2. StoppedLog /\ FiniteLogs /\ Shape /\ TypeOK
  BY <1>1 DEF LogInv, EngineInv
<1>3. memTable = EmptyTable /\ immTable = Nil
  BY <1>1, <1>2 DEF StoppedLog
<1>4. m \in Table
  BY <1>0, <1>2, ReplayTable, DiskOK DEF Shape
<1>5. \/ immTable' = m /\ m # Nil
      \/ immTable' = Nil /\ DOMAIN m = {}
  <2>1. CASE Size(m) > 0
    BY <1>0, <1>1, <1>4, <2>1, FileAssumption DEF Opened, OpenWith
  <2>2. CASE Size(m) = 0
    <3>. DEFINE S == DOMAIN wals
                T == {DOMAIN wals[w] : w \in S}
    <3>1. IsFiniteSet(S)
      BY <1>2, BoundedSubset DEF Shape
    <3>2. IsFiniteSet(T)
      <4>1. [w \in S |-> DOMAIN wals[w]] \in Surjection(S, T)
        BY DEF Surjection
      <4>. QED BY <3>1, <4>1, FS_Surjection DEF ExistsSurjection
    <3>3. IsFiniteSet(UNION T)
      <4>1. \A t \in T : IsFiniteSet(t)
        BY <1>2 DEF FiniteLogs
      <4>. QED BY <3>2, <4>1, FS_UNION
    <3>4. \A k \in DOMAIN m : k \in UNION T
      <4>1. DOMAIN m \subseteq Key
        BY <1>4, TableParts
      <4>2. Bounded(DOMAIN wals)
        BY <1>2 DEF Shape
      <4>3. \A k \in DOMAIN m : \E w \in S : k \in DOMAIN wals[w]
        BY <1>0, <4>1, <4>2, Replayed
      <4>. QED BY <4>3
    <3>5. IsFiniteSet(DOMAIN m)
      <4>1. DOMAIN m \in SUBSET UNION T
        BY <3>4
      <4>. QED BY <3>3, <4>1, FS_Subset
    <3>6. Cardinality(DOMAIN m) \in Nat /\ Cardinality({k \in DOMAIN m : m[k] # Nil}) \in Nat
      <4>1. {k \in DOMAIN m : m[k] # Nil} \in SUBSET DOMAIN m
        OBVIOUS
      <4>2. IsFiniteSet({k \in DOMAIN m : m[k] # Nil})
        BY <3>5, <4>1, FS_Subset
      <4>. QED BY <3>5, <4>2, FS_CardinalityType
    <3>7. Cardinality(DOMAIN m) = 0
      BY <2>2, <3>6 DEF Size
    <3>8. DOMAIN m = {}
      BY <3>5, <3>7, FS_EmptySet
    <3>9. immTable' = Nil
      BY <1>0, <1>3, <2>2 DEF Opened, OpenWith
    <3>. QED BY <3>8, <3>9
  <2>. QED BY <1>0, <2>1, <2>2 DEF Opened, OpenWith
<1>6. ASSUME NEW k \in Key
      PROVE  Lookup(memTable', immTable', sstables', files', k) = contents'[k]
  <2>1. Recovered[k] = contents[k]
    BY <1>1 DEF LookInv, Look
  <2>2. Recovered[k] = IF k \in DOMAIN m THEN m[k]
                       ELSE Found(loadSSTables(files, manifest), files, k)
    BY <1>0, RecoveredValue
  <2>3. Lookup(EmptyTable, immTable', loadSSTables(files, manifest), files, k) =
           IF k \in DOMAIN m THEN m[k] ELSE Found(loadSSTables(files, manifest), files, k)
    BY <1>5, LookupParts, EmptyIsTable
  <2>. QED BY <1>1, <1>3, <2>1, <2>2, <2>3
<1>. QED BY <1>1, <1>6 DEF LookInv, Look

LEMMA CrashValues ==
    ASSUME Good, Next1, MergeInv, FlushInv, LogInv, LookInv, Crash
    PROVE  LogInv' /\ LookInv'
<1>. USE DEF Good, Next1
<1>1. ~Exposed
  BY DEF Crash
<1>2. /\ phase' = "down" /\ memTable' = EmptyTable /\ immTable' = Nil /\ flushers' = {}
      /\ UNCHANGED <<files, manifest, wals>>
      /\ contents' = IF pending = Nil THEN contents
                     ELSE [contents EXCEPT ![pending.key] = pending.val]
  BY DEF Crash, diskVars
<1>3. \A k \in Key : contents'[k] = Expected(k)
  <2>1. contents \in [Key -> Entries] /\ (pending # Nil => pending.key \in Key)
    BY DEF EngineInv, TypeOK
  <2>2. CASE pending = Nil
    BY <1>2, <2>2 DEF Expected
  <2>3. CASE pending # Nil
    BY <1>2, <2>1, <2>3 DEF Expected
  <2>. QED BY <2>2, <2>3
<1>4. LookInv'
  <2>1. \A k \in Key : Recovered[k] = Expected(k)
    BY <1>1, DurableNow DEF Durable, Expected
  <2>2. Recovered' = Recovered
    BY <1>2 DEF Recovered
  <2>. QED BY <1>2, <1>3, <2>1, <2>2 DEF LookInv, Look
<1>5. ASSUME NEW w \in DOMAIN wals, NEW k, LastIn(wals, w, k) PROVE wals[w][k] = contents'[k]
  <2>1. k \in Key
    BY <1>5, TableParts DEF EngineInv, TypeOK, LastIn
  <2>2. CASE phase = "running"
    <3>1. Unbroken(w)
      <4>1. wal \in DOMAIN wals
        BY <2>2 DEF EngineInv, TypeOK
      <4>. QED BY <1>1, <1>5, <4>1 DEF Exposed, Overtaken, Unbroken
    <3>2. wals[w][k] = Expected(k)
      BY <1>5, <2>2, <3>1 DEF LogInv, RunningLog
    <3>. QED BY <1>3, <2>1, <3>2
  <2>3. CASE phase # "running"
    <3>1. pending = Nil /\ StoppedLog
      BY <2>3 DEF EngineInv, Goroutines, LogInv
    <3>. QED BY <1>2, <1>5, <3>1 DEF StoppedLog
  <2>. QED BY <2>2, <2>3
<1>6. StoppedLog'
  BY <1>2, <1>5 DEF StoppedLog
<1>7. FiniteLogs'
  BY <1>2 DEF LogInv, FiniteLogs
<1>. QED BY <1>2, <1>4, <1>6, <1>7 DEF LogInv

-----------------------------------------------------------------------------
(* The inductive invariant of the values.                                    *)

LEMMA ValuesInit == Init => MergeInv /\ FlushInv /\ LogInv /\ LookInv
<1>. SUFFICES ASSUME Init PROVE MergeInv /\ FlushInv /\ LogInv /\ LookInv
  OBVIOUS
<1>1. /\ DOMAIN files = {} /\ DOMAIN wals = {} /\ flushers = {} /\ compactor = Idle
      /\ manifest = <<>> /\ memTable = EmptyTable /\ immTable = Nil /\ phase = "down"
      /\ contents = [k \in Key |-> Nil]
  BY DEF Init
<1>2. MergeInv
  BY <1>1, CompactIdleMerge DEF MergeInv, MergeOK, Idle
<1>3. FlushInv
  BY <1>1 DEF FlushInv, OneFlush, Loaded
<1>4. LogInv
  BY <1>1 DEF LogInv, FiniteLogs, StoppedLog
<1>5. ASSUME NEW k \in Key PROVE Recovered[k] = contents[k]
  <2>1. PICK list, fs, ws : list = loadSSTables(files, manifest) /\ fs = files /\ ws = wals
    OBVIOUS
  <2>2. k \notin DOMAIN RecoverFromWAL(ws)
    BY <1>1, <2>1 DEF RecoverFromWAL
  <2>3. Holding(list, fs, k) = {}
    BY <1>1, <2>1 DEF Holding, Complete
  <2>4. Found(list, fs, k) = Nil
    BY <2>3 DEF Found
  <2>. QED BY <1>1, <1>5, <2>1, <2>2, <2>4, RecoveredValue
<1>. QED BY <1>1, <1>2, <1>3, <1>4, <1>5 DEF LookInv, Look

LEMMA LogStep ==
    ASSUME Good, Next1, [Next]_vars, MergeInv, FlushInv, LogInv, LookInv
    PROVE  LogInv'
<1>. USE DEF Good, Next1
<1>1. CASE UNCHANGED vars
  <2>1. UNCHANGED <<wals, wal, walFileID, allocating, pending, contents, memTable, immTable,
                    phase, flushers>>
    BY <1>1 DEF vars, memVars, walVars, diskVars, ghostVars
  <2>. QED BY <2>1, LogQuiet
<1>2. ASSUME NEW k \in Key, NEW v \in Entries, AppendFails(k, v) PROVE LogInv'
  <2>1. UNCHANGED <<wals, wal, walFileID, allocating, pending, contents, memTable, immTable,
                    phase, flushers>>
    BY <1>2 DEF AppendFails, memVars, walVars
  <2>. QED BY <2>1, LogQuiet
<1>3. ASSUME NEW g \in flushers, FlushReserve(g) \/ FlushBlocks(g) \/ FlushFooter(g)
      PROVE  LogInv'
  <2>1. UNCHANGED <<wals, wal, walFileID, allocating, pending, contents, memTable, immTable,
                    phase>>
    BY <1>3 DEF FlushReserve, FlushBlocks, FlushFooter, memVars, walVars, ghostVars
  <2>2. PICK h : /\ \/ h = [g EXCEPT !.stage = "blocks", !.file = nextFileID]
                    \/ h = [g EXCEPT !.stage = "footer"]
                    \/ h = [g EXCEPT !.stage = "install"]
                 /\ flushers' = (flushers \ {g}) \cup {h}
    BY <1>3 DEF FlushReserve, FlushBlocks, FlushFooter, Advance
  <2>3. g \in FlushRecord
    BY DEF EngineInv, TypeOK
  <2>4. h.oldWal = g.oldWal /\ h.table = g.table /\ h.stage \in {"blocks", "footer", "install"}
    BY <2>2, <2>3 DEF FlushRecord
  <2>5. ~Installed(g) /\ ~Installed(h)
    BY <1>3, <2>4 DEF Installed, FlushReserve, FlushBlocks, FlushFooter
  <2>. QED BY <2>1, <2>2, <2>4, <2>5, LogFlusher
<1>4. ASSUME NEW g \in flushers, FlushInstall(g) PROVE LogInv'
  <2>1. /\ UNCHANGED <<wals, wal, walFileID, allocating, pending, contents, memTable, phase>>
        /\ immTable' = Nil
    BY <1>4 DEF FlushInstall, walVars, diskVars, ghostVars
  <2>2. PICK h : /\ h = [g EXCEPT !.stage = "manifest", !.line = sstables']
                 /\ flushers' = (flushers \ {g}) \cup {h}
    BY <1>4 DEF FlushInstall, Advance
  <2>3. g \in FlushRecord
    BY DEF EngineInv, TypeOK
  <2>4. h.oldWal = g.oldWal /\ h.table = g.table
    BY <2>2, <2>3 DEF FlushRecord
  <2>. QED BY <2>1, <2>2, <2>4, LogFlusher
<1>5. ASSUME NEW g \in flushers, FlushFails(g) PROVE LogInv'
  <2>1. /\ UNCHANGED <<wals, wal, walFileID, allocating, pending, contents, memTable, immTable,
                       phase>>
        /\ flushers' = flushers \ {g} /\ phase # "flush"
    BY <1>5 DEF FlushFails, memVars, walVars, diskVars
  <2>. QED BY <2>1, LogQuiet
<1>6. ASSUME NEW g \in flushers, FlushStep(g) \/ FlushFails(g) PROVE LogInv'
  BY <1>3, <1>4, <1>5, <1>6, FlushManifestLog, FlushDeleteWALLog DEF FlushStep
<1>7. ASSUME NEW r \in Reader, NEW k \in Key, GetSnapshot(r, k) PROVE LogInv'
  <2>1. UNCHANGED <<wals, wal, walFileID, allocating, pending, contents, memTable, immTable,
                    phase, flushers>>
    BY <1>7 DEF GetSnapshot, memVars, walVars, diskVars, ghostVars
  <2>. QED BY <2>1, LogQuiet
<1>8. ASSUME NEW r \in Reader, GetFromTable(r) PROVE LogInv'
  <2>1. UNCHANGED <<wals, wal, walFileID, allocating, pending, contents, memTable, immTable,
                    phase, flushers>>
    BY <1>8 DEF GetFromTable, memVars, walVars, diskVars, ghostVars
  <2>. QED BY <2>1, LogQuiet
<1>9. CASE CompactStep \/ CompactFails \/ MergeFails
  <2>1. UNCHANGED <<wals, wal, walFileID, allocating, pending, contents, memTable, immTable,
                    phase, flushers>>
    BY <1>9 DEF CompactStep, CompactMerge, CompactReserve, CompactWrite, CompactInstall,
                CompactManifest, CompactRemove, CompactFails, MergeFails, memVars, walVars, diskVars,
                ghostVars
  <2>. QED BY <2>1, LogQuiet
<1>10. CASE WriteMemTable \/ PreAllocate \/ InstallNextWAL \/ NewDB \/ OpenFails \/ Crash
  BY <1>10, WriteMemTableLog, PreAllocateLog, InstallNextWALLog, OpenOutcome, OpenLog,
     CleanLog, CrashValues
     DEF NewDB
<1>. QED BY <1>1, <1>2, <1>6, <1>7, <1>8, <1>9, <1>10, AppendLog DEF Next

LEMMA LookStep ==
    ASSUME Good, Next1, [Next]_vars, MergeInv, FlushInv, LogInv, LookInv
    PROVE  LookInv'
<1>. USE DEF Good, Next1
<1>1. CASE UNCHANGED vars
  BY <1>1, LookStutter DEF vars, memVars, diskVars, ghostVars
<1>2. ASSUME NEW k \in Key, NEW v \in Entries, AppendWAL(k, v) \/ AppendFails(k, v)
      PROVE  LookInv'
  BY <1>2, LookQuiet DEF AppendWAL, AppendFails, memVars, ghostVars
<1>3. CASE PreAllocate \/ InstallNextWAL
  <2>1. phase = "running"
    BY <1>3 DEF PreAllocate, InstallNextWAL, EngineInv, Goroutines
  <2>. QED BY <1>3, <2>1, LookQuiet DEF PreAllocate, InstallNextWAL, memVars, ghostVars
<1>4. ASSUME NEW g \in flushers, FlushStep(g) \/ FlushFails(g), ~FlushInstall(g)
      PROVE  LookInv'
  <2>1. phase # "down"
    BY <1>4, FlusherUp DEF EngineInv
  <2>2. phase' # "down" /\ UNCHANGED <<memTable, immTable, sstables, contents>>
    BY <1>4, <2>1 DEF FlushStep, FlushReserve, FlushBlocks, FlushFooter, FlushManifest,
                      FlushDeleteWAL, FlushFails, memVars, ghostVars
  <2>. QED BY <2>1, <2>2, LookQuiet
<1>5. ASSUME NEW g \in flushers, FlushStep(g) \/ FlushFails(g) PROVE LookInv'
  BY <1>4, <1>5, FlushInstallLook
<1>6. ASSUME NEW r \in Reader, NEW k \in Key, GetSnapshot(r, k) PROVE LookInv'
  BY <1>6, LookStutter DEF GetSnapshot, memVars, diskVars, ghostVars
<1>7. ASSUME NEW r \in Reader, GetFromTable(r) PROVE LookInv'
  BY <1>7, LookStutter DEF GetFromTable, memVars, diskVars, ghostVars
<1>8. CASE (CompactStep \/ CompactFails \/ MergeFails) /\ ~CompactInstall
  <2>1. compactor.stage # "idle" \/ phase = "running"
    BY <1>8 DEF CompactStep, CompactMerge, CompactReserve, CompactWrite, CompactManifest,
                CompactRemove, CompactFails, MergeFails, MayCompact, CanFail
  <2>2. phase = "running"
    BY <2>1, CompactorRuns DEF EngineInv
  <2>3. UNCHANGED <<memTable, immTable, sstables, contents, phase>>
    BY <1>8 DEF CompactStep, CompactMerge, CompactReserve, CompactWrite, CompactManifest,
                CompactRemove, CompactFails, MergeFails, memVars, ghostVars
  <2>. QED BY <2>2, <2>3, LookQuiet
<1>9. CASE RemoveOldWAL \/ Serve
  BY <1>9, LookQuiet DEF RemoveOldWAL, Serve, memVars, ghostVars
<1>10. CASE Open \/ OpenFails
  BY <1>10, OpenOutcome, OpenLook
<1>. QED BY <1>1, <1>2, <1>3, <1>5, <1>6, <1>7, <1>8, <1>9, <1>10, WriteMemTableLook,
            CompactInstallLook, CrashValues DEF Next, NewDB

\* Which table, log and memtable holds the last value of a key.
ValueInv == MergeInv /\ FlushInv /\ LogInv /\ LookInv

DataInv == EngineInv /\ FileInv /\ OrderInv /\ MergeOrderInv /\ ValueInv

LEMMA DataStep == DataInv /\ [Next]_vars => DataInv'
<1>. SUFFICES ASSUME DataInv, [Next]_vars PROVE DataInv'
  OBVIOUS
<1>1. EngineInv' /\ FileInv' /\ OrderInv' /\ MergeOrderInv'
  BY EngineStep, FileStep, OrderStep DEF DataInv
<1>2. CASE damaged'
  BY <1>1, <1>2 DEF ValueInv, MergeInv, FlushInv, LogInv, LookInv, DataInv
<1>3. CASE ~damaged'
  <2>1. Good /\ Next1
    BY <1>1, <1>3, DamageStays DEF EngineInv, Good, Next1, DataInv
  <2>. QED BY <1>1, <2>1, MergeStep, FlushInvStep, LogStep, LookStep DEF DataInv, ValueInv
<1>. QED BY <1>2, <1>3

\* The inductive invariant of the engine: shape of the state (EngineInv), who writes
\* which file (FileInv), agreement of the lists of tables with the manifest and with
\* the order in which the tables were written (OrderInv, MergeOrderInv), and where the
\* last values are (ValueInv), through every step of writer, flushes, compaction, crash
\* and NewDB, failing ones included.  Everything but EngineInv speaks of states in
\* which damaged is false: a merge or a NewDB that could not read all it needed, and
\* lost something by it, has made it true.
THEOREM DataInvariant == Spec => []DataInv
<1>1. Init => DataInv
  BY EngineInit, FileInit, OrderInit, ValuesInit DEF DataInv, ValueInv
<1>. QED BY <1>1, DataStep, PTL DEF Spec

\* What a Get would find in memTable, immTable and the list of tables is the last
\* value written, in every state of a running engine: the switch of checkAndFlush,
\* the background flush, the compaction and a recovery by NewDB never hide a write
\* or bring an older one back, unless a crash fell into a window of Exposed, a merged
\* table was Misplaced, or NewDB or a merge went on without what it could not read.
THEOREM LatestFound == Spec => []LookupLatest
<1>1. DataInv => LookupLatest
  BY DEF DataInv, ValueInv, LookInv, Look, LookupLatest
<1>. QED BY <1>1, DataInvariant, PTL

\* Every write that WAL.Append has returned for survives a crash in any state, in
\* the middle of a switch, a flush, a compaction or a recovery, outside the windows
\* of Exposed and unless a failing read has lost it before: RecoverFromWAL over the
\* tables of loadSSTables gives its value.
THEOREM NothingLost == Spec => []CrashSafe
<1>1. DataInv => CrashSafe
  <2>. SUFFICES ASSUME DataInv, ~damaged, ~Exposed PROVE Durable
    BY DEF CrashSafe
  <2>. QED BY DurableNow DEF DataInv, ValueInv, Good
<1>. QED BY <1>1, DataInvariant, PTL

=============================================================================
