----------------------------- MODULE LSMProofs ------------------------------
(***************************************************************************)
(* Theorems about LSM, with and without compaction, for every set of keys, *)
(* values and readers and every value of the bounds.                       *)
(***************************************************************************)
EXTENDS LSM, TLAPS, FiniteSetTheorems, SequenceTheorems, WellFoundedInduction

-----------------------------------------------------------------------------
(* The operators on ids, lists and tables.                                   *)

\* A set of ids has a least element.
LEMMA LeastExists ==
    ASSUME NEW T, T \subseteq Nat, T # {}
    PROVE  \E x \in T : \A y \in T : x <= y
<1>1. IsWellFoundedOn(OpToRel(<, Nat), Nat)
  BY NatLessThanWellFounded, Zenon
<1>2. PICK x \in T : \A y \in T : ~ (<<y, x>> \in OpToRel(<, Nat))
  BY <1>1, WFMin, Zenon
<1>3. ASSUME NEW y \in T PROVE x <= y
  <2>1. ~ (<<y, x>> \in {ss \in Nat \X Nat : ss[1] < ss[2]})
    BY <1>2, Zenon DEF OpToRel
  <2>2. <<y, x>> \in Nat \X Nat
    OBVIOUS
  <2>. QED BY <2>1, <2>2
<1>. QED BY <1>3

\* A set of ids that has an upper bound.
Bounded(T) == T \subseteq Nat /\ \E n \in Nat : \A y \in T : y <= n

\* It has a greatest element: the last table that holds a key, the highest id on disk.
LEMMA GreatestExists ==
    ASSUME NEW T, Bounded(T), T # {}
    PROVE  /\ Greatest(T) \in T /\ Greatest(T) \in Nat
           /\ \A y \in T : y <= Greatest(T)
<1>1. T \subseteq Nat
  BY DEF Bounded
<1>2. PICK n \in Nat : \A y \in T : y <= n
  BY DEF Bounded
<1>. DEFINE U == {n - y : y \in T}
<1>3. U \subseteq Nat /\ U # {}
  <2>1. ASSUME NEW y \in T PROVE n - y \in Nat
    <3>1. y \in Nat /\ y <= n
      BY <1>1, <1>2
    <3>. QED BY <3>1
  <2>. QED BY <2>1, Zenon
<1>4. PICK u \in U : \A w \in U : u <= w
  BY <1>3, LeastExists
<1>5. PICK x \in T : u = n - x
  BY <1>4
<1>6. ASSUME NEW y \in T PROVE y <= x
  <2>1. n - y \in U
    OBVIOUS
  <2>2. n - x <= n - y
    BY <2>1, <1>4, <1>5
  <2>3. x \in Nat /\ y \in Nat
    BY <1>1
  <2>. QED BY <2>2, <2>3
<1>. QED BY <1>1, <1>6 DEF Greatest

\* What is in a bounded set is bounded, and it is finite.
LEMMA BoundedSubset ==
    ASSUME NEW T, Bounded(T), NEW U, U \subseteq T
    PROVE  Bounded(U) /\ IsFiniteSet(U) /\ Cardinality(U) \in Nat
<1>1. Bounded(U)
  BY DEF Bounded
<1>2. PICK n \in Nat : \A y \in U : y <= n
  BY <1>1 DEF Bounded
<1>3. U \in SUBSET Nat
  BY <1>1 DEF Bounded
<1>4. IsFiniteSet(U)
  BY <1>2, <1>3, FS_BoundedSetOfNaturals
<1>. QED BY <1>1, <1>4, FS_CardinalityType

LEMMA BoundedAdd ==
    ASSUME NEW T, Bounded(T), NEW x \in Nat
    PROVE  Bounded(T \cup {x})
<1>1. PICK n \in Nat : \A y \in T : y <= n
  BY DEF Bounded
<1>2. T \subseteq Nat
  BY DEF Bounded
<1>3. ASSUME NEW y \in T \cup {x} PROVE y \in Nat /\ y <= n + x
  BY <1>1, <1>2
<1>4. n + x \in Nat
  BY <1>1
<1>. QED BY <1>3, <1>4 DEF Bounded

LEMMA BoundedDomain ==
    ASSUME NEW S, NEW s \in Seq(S)
    PROVE  Bounded(DOMAIN s)
<1>1. DOMAIN s = 1..Len(s) /\ Len(s) \in Nat
  OBVIOUS
<1>. QED BY <1>1 DEF Bounded

LEMMA WiderSeq ==
    ASSUME NEW S, NEW T, S \subseteq T, NEW s \in Seq(S)
    PROVE  s \in Seq(T)
<1>1. Len(s) \in Nat /\ s \in [1..Len(s) -> S]
  OBVIOUS
<1>2. s \in [1..Len(s) -> T]
  BY <1>1
<1>. QED BY <1>1, <1>2, SeqDef

\* sort.Slice over ids: the ids in ascending order, each of them once.
LEMMA AscendingList ==
    ASSUME NEW T, Bounded(T)
    PROVE  LET s == Ascending(T)
           IN  /\ s \in Seq(T) /\ Range(s) = T
               /\ \A a, b \in DOMAIN s : a < b => s[a] < s[b]
<1>. DEFINE upTo(x) == {y \in T : y <= x}
            rank(x) == Cardinality(upTo(x))
            n == Cardinality(T)
            s == Ascending(T)
<1>1. T \subseteq Nat /\ IsFiniteSet(T) /\ n \in Nat
  BY BoundedSubset DEF Bounded
<1>2. ASSUME NEW x \in T PROVE IsFiniteSet(upTo(x)) /\ rank(x) \in 1..n
  <2>1. IsFiniteSet(upTo(x)) /\ rank(x) \in Nat
    BY BoundedSubset
  <2>2. rank(x) <= n
    <3>1. upTo(x) \in SUBSET T
      OBVIOUS
    <3>. QED BY <1>1, <3>1, FS_Subset
  <2>3. x \in upTo(x)
    BY <1>1
  <2>4. rank(x) # 0
    BY <2>1, <2>3, FS_EmptySet
  <2>. QED BY <1>1, <2>1, <2>2, <2>4
<1>3. ASSUME NEW x \in T, NEW z \in T, x < z PROVE rank(x) < rank(z)
  <2>1. upTo(x) \in SUBSET (upTo(z) \ {z})
    <3>1. ASSUME NEW y \in upTo(x) PROVE y \in upTo(z) \ {z}
      <4>1. y \in T /\ y <= x
        OBVIOUS
      <4>2. y \in Nat /\ x \in Nat /\ z \in Nat
        BY <1>1, <4>1
      <4>3. y <= z /\ y # z
        BY <1>3, <4>1, <4>2
      <4>. QED BY <4>1, <4>3
    <3>. QED BY <3>1
  <2>2. z \in upTo(z) /\ IsFiniteSet(upTo(z)) /\ rank(z) \in Nat
    BY <1>1, <1>2
  <2>3. IsFiniteSet(upTo(z) \ {z}) /\ Cardinality(upTo(z) \ {z}) = rank(z) - 1
    BY <2>2, FS_RemoveElement
  <2>4. rank(x) <= rank(z) - 1
    BY <2>1, <2>3, FS_Subset
  <2>5. rank(x) \in Nat
    BY <1>2
  <2>. QED BY <2>2, <2>4, <2>5
<1>. HIDE DEF rank, n
<1>4. ASSUME NEW x \in T, NEW z \in T, rank(x) = rank(z) PROVE x = z
  <2>1. x \in Nat /\ z \in Nat /\ rank(x) \in Nat
    <3>1. rank(x) \in 1..n
      BY <1>2
    <3>. QED BY <1>1, <3>1
  <2>2. ~(x < z) /\ ~(z < x)
    BY <1>3, <1>4, <2>1
  <2>. QED BY <2>1, <2>2
<1>5. ASSUME NEW i \in 1..n PROVE \E x \in T : rank(x) = i
  <2>. DEFINE f == [x \in T |-> rank(x)]
  <2>1. f \in Injection(T, 1..n)
    BY <1>2, <1>4 DEF Injection, IsInjective
  <2>2. IsFiniteSet(1..n) /\ Cardinality(1..n) = n
    BY <1>1, FS_Interval
  <2>3. f \in Surjection(T, 1..n)
    BY <2>1, <2>2, FS_Injection DEF n
  <2>4. PICK x \in T : f[x] = i
    BY <2>3 DEF Surjection
  <2>. QED BY <2>4
<1>6. s = [i \in 1..n |-> CHOOSE x \in T : rank(x) = i]
  BY DEF Ascending, n, rank
<1>7. ASSUME NEW i \in 1..n PROVE s[i] \in T /\ rank(s[i]) = i
  BY <1>5, <1>6
<1>8. s \in [1..n -> T]
  <2>1. DOMAIN s = 1..n /\ s = [i \in 1..n |-> s[i]]
    BY <1>6
  <2>. QED BY <1>7, <2>1
<1>. HIDE DEF s
<1>9. s \in Seq(T) /\ DOMAIN s = 1..n
  BY <1>1, <1>8, SeqDef
<1>10. ASSUME NEW x \in T PROVE x \in Range(s)
  <2>1. rank(x) \in 1..n /\ s[rank(x)] \in T /\ rank(s[rank(x)]) = rank(x)
    BY <1>2, <1>7
  <2>2. s[rank(x)] = x
    BY <1>4, <2>1
  <2>. QED BY <1>9, <2>1, <2>2 DEF Range
<1>11. Range(s) = T
  BY <1>7, <1>9, <1>10 DEF Range
<1>12. ASSUME NEW a \in 1..n, NEW b \in 1..n, a < b PROVE s[a] < s[b]
  <2>1. s[a] \in T /\ s[b] \in T /\ rank(s[a]) = a /\ rank(s[b]) = b
    BY <1>7
  <2>2. ~(s[b] < s[a]) /\ s[a] # s[b]
    <3>1. ~(b < a) /\ a # b
      BY <1>1, <1>12
    <3>. QED BY <1>3, <2>1, <3>1
  <2>3. s[a] \in Nat /\ s[b] \in Nat
    BY <1>1, <2>1
  <2>. QED BY <2>2, <2>3
<1>. QED BY <1>9, <1>11, <1>12 DEF s

\* A selection of a list, in the order of the list.
LEMMA AmongList ==
    ASSUME NEW list \in Seq(Nat), NEW S
    PROVE  /\ Among(list, S) \in Seq(Nat)
           /\ Range(Among(list, S)) = Range(list) \cap S
<1>. DEFINE P == {i \in DOMAIN list : list[i] \in S}
            at == Ascending(P)
            s == Among(list, S)
<1>1. Bounded(P)
  BY BoundedDomain, BoundedSubset
<1>2. at \in Seq(P) /\ Range(at) = P
  BY <1>1, AscendingList
<1>3. s = [n \in DOMAIN at |-> list[at[n]]]
  BY DEF Among
<1>. HIDE DEF at, s
<1>4. DOMAIN at = 1..Len(at) /\ Len(at) \in Nat /\ \A n \in DOMAIN at : at[n] \in P
  BY <1>2
<1>5. \A n \in DOMAIN at : list[at[n]] \in Nat
  BY <1>4
<1>6. s \in Seq(Nat)
  <2>1. s \in [1..Len(at) -> Nat]
    BY <1>3, <1>4, <1>5
  <2>. QED BY <1>4, <2>1, SeqDef
<1>7. DOMAIN s = DOMAIN at /\ \A n \in DOMAIN at : s[n] = list[at[n]]
  BY <1>3
<1>8. ASSUME NEW x \in Range(s) PROVE x \in Range(list) \cap S
  BY <1>4, <1>7, <1>8 DEF Range
<1>9. ASSUME NEW x \in Range(list) \cap S PROVE x \in Range(s)
  <2>1. PICK i \in P : x = list[i]
    BY <1>9 DEF Range
  <2>2. PICK n \in DOMAIN at : at[n] = i
    BY <1>2, <2>1 DEF Range
  <2>. QED BY <1>7, <2>1, <2>2 DEF Range
<1>. QED BY <1>6, <1>8, <1>9 DEF s

-----------------------------------------------------------------------------
(* Tables, and what NewDB and the merge make of them.                        *)

\* sst/ and wal/ as TypeOK has them.
FilesOK(fs) == \A f \in DOMAIN fs : f \in Nat /\ fs[f] \in Table \cup {Short, Torn}

WalsOK(ws) == \A w \in DOMAIN ws : w \in Nat /\ ws[w] \in Table

LEMMA TableParts ==
    ASSUME NEW t \in Table
    PROVE  DOMAIN t \subseteq Key /\ t \in [DOMAIN t -> Entries]
BY DEF Table

LEMMA IsTable ==
    ASSUME NEW S \in SUBSET Key, NEW t \in [S -> Entries]
    PROVE  t \in Table
BY DEF Table

LEMMA EmptyIsTable == EmptyTable \in Table /\ DOMAIN EmptyTable = {}
<1>1. EmptyTable \in [{} -> Entries]
  BY DEF EmptyTable
<1>. QED BY <1>1, IsTable

\* The keys and values of a table laid over another one.
LEMMA OverParts ==
    ASSUME NEW t, NEW u
    PROVE  /\ DOMAIN Over(t, u) = DOMAIN t \cup DOMAIN u
           /\ \A x \in DOMAIN t : Over(t, u)[x] = t[x]
           /\ \A x \in DOMAIN u \ DOMAIN t : Over(t, u)[x] = u[x]
BY DEF Over

LEMMA WithParts ==
    ASSUME NEW t, NEW k, NEW v
    PROVE  /\ DOMAIN With(t, k, v) = DOMAIN t \cup {k}
           /\ With(t, k, v)[k] = v
           /\ \A x \in DOMAIN t \ {k} : With(t, k, v)[x] = t[x]
BY DEF With, Over, Single

LEMMA OverTable ==
    ASSUME NEW t \in Table, NEW u \in Table
    PROVE  Over(t, u) \in Table
<1>1. DOMAIN t \cup DOMAIN u \in SUBSET Key
  BY TableParts
<1>2. \A x \in DOMAIN t : t[x] \in Entries
  BY TableParts
<1>3. \A x \in DOMAIN u : u[x] \in Entries
  BY TableParts
<1>4. Over(t, u) \in [DOMAIN t \cup DOMAIN u -> Entries]
  BY <1>2, <1>3 DEF Over
<1>. QED BY <1>1, <1>4, IsTable

LEMMA WithTable ==
    ASSUME NEW t \in Table, NEW k \in Key, NEW v \in Entries
    PROVE  With(t, k, v) \in Table
<1>1. Single(k, v) \in [{k} -> Entries]
  BY DEF Single
<1>2. Single(k, v) \in Table
  BY <1>1, IsTable
<1>. QED BY <1>2, OverTable DEF With

LEMMA CompleteFile ==
    ASSUME NEW fs, FilesOK(fs), NEW f \in Complete(fs)
    PROVE  f \in DOMAIN fs /\ f \in Nat /\ fs[f] \in Table
BY DEF Complete, FilesOK

LEMMA CompleteParts ==
    ASSUME NEW fs, FilesOK(fs)
    PROVE  \A f : f \in Complete(fs) <=> f \in DOMAIN fs /\ fs[f] \in Table
BY FileAssumption DEF Complete, FilesOK

\* The last position of a list that holds k.
LEMMA HoldingGreatest ==
    ASSUME NEW list \in Seq(Nat), NEW fs, NEW k, Holding(list, fs, k) # {}
    PROVE  /\ Greatest(Holding(list, fs, k)) \in Holding(list, fs, k)
           /\ \A j \in Holding(list, fs, k) : j <= Greatest(Holding(list, fs, k))
<1>1. Bounded(DOMAIN list)
  BY BoundedDomain
<1>2. Holding(list, fs, k) \subseteq DOMAIN list
  BY DEF Holding
<1>3. Bounded(Holding(list, fs, k))
  BY <1>1, <1>2, BoundedSubset
<1>. QED BY <1>3, GreatestExists

\* A merge gives a table.
LEMMA MergeTable ==
    ASSUME NEW list \in Seq(Nat), NEW fs, FilesOK(fs)
    PROVE  doMerge(list, fs) \in Table
<1>. DEFINE S == {x \in Key : Holding(list, fs, x) # {}}
            at(k) == Greatest(Holding(list, fs, k))
<1>1. ASSUME NEW k \in S PROVE fs[list[at(k)]][k] \in Entries
  <2>1. at(k) \in Holding(list, fs, k)
    BY HoldingGreatest
  <2>2. list[at(k)] \in Complete(fs) /\ k \in DOMAIN fs[list[at(k)]]
    BY <2>1 DEF Holding
  <2>3. fs[list[at(k)]] \in Table
    BY <2>2, CompleteFile
  <2>. QED BY <2>2, <2>3, TableParts
<1>2. doMerge(list, fs) = [k \in S |-> fs[list[at(k)]][k]]
  BY DEF doMerge
<1>. HIDE DEF at, S
<1>3. doMerge(list, fs) \in [S -> Entries]
  BY <1>1, <1>2
<1>4. S \in SUBSET Key
  BY DEF S
<1>. QED BY <1>3, <1>4, IsTable

\* And so does a replay.
LEMMA ReplayTable ==
    ASSUME NEW ws, WalsOK(ws), Bounded(DOMAIN ws)
    PROVE  RecoverFromWAL(ws) \in Table
<1>. DEFINE with(k) == {w \in DOMAIN ws : k \in DOMAIN ws[w]}
            S == {x \in Key : with(x) # {}}
<1>1. ASSUME NEW k \in S PROVE ws[Greatest(with(k))][k] \in Entries
  <2>1. with(k) \subseteq DOMAIN ws /\ with(k) # {}
    OBVIOUS
  <2>2. Bounded(with(k))
    BY <2>1, BoundedSubset
  <2>3. Greatest(with(k)) \in with(k)
    BY <2>1, <2>2, GreatestExists
  <2>4. Greatest(with(k)) \in DOMAIN ws /\ k \in DOMAIN ws[Greatest(with(k))]
    BY <2>3
  <2>5. ws[Greatest(with(k))] \in Table
    BY <2>4 DEF WalsOK
  <2>. QED BY <2>4, <2>5, TableParts
<1>2. RecoverFromWAL(ws) = [k \in S |-> ws[Greatest(with(k))][k]]
  BY DEF RecoverFromWAL
<1>3. S \in SUBSET Key
  OBVIOUS
<1>. HIDE DEF with, S
<1>4. RecoverFromWAL(ws) \in [S -> Entries]
  BY <1>1, <1>2
<1>. QED BY <1>3, <1>4, IsTable

\* loadSSTables lists complete files, and all of them when no file is torn.
LEMMA LoadList ==
    ASSUME NEW fs, FilesOK(fs), Bounded(DOMAIN fs), NEW line \in Seq(Nat)
    PROVE  /\ loadSSTables(fs, line) \in Seq(Nat)
           /\ Range(loadSSTables(fs, line)) =
                 IF TornFiles(fs) = {} THEN Complete(fs) ELSE {}
<1>1. CASE TornFiles(fs) # {}
  BY <1>1 DEF loadSSTables, Range
<1>2. CASE TornFiles(fs) = {}
  <2>. DEFINE ids == Complete(fs)
              a == Among(line, ids)
              b == Ascending(ids \ Range(line))
  <2>1. ids \subseteq DOMAIN fs
    BY DEF Complete
  <2>2. Bounded(ids \ Range(line)) /\ ids \subseteq Nat
    BY <2>1, BoundedSubset DEF Bounded
  <2>3. a \in Seq(Nat) /\ Range(a) = Range(line) \cap ids
    BY AmongList
  <2>4. b \in Seq(ids \ Range(line)) /\ Range(b) = ids \ Range(line)
    BY <2>2, AscendingList
  <2>5. loadSSTables(fs, line) = a \o b
    BY <1>2 DEF loadSSTables, applyManifestOrder
  <2>. HIDE DEF a, b, ids
  <2>6. b \in Seq(Nat)
    BY <2>2, <2>4, WiderSeq
  <2>7. a \o b \in Seq(Nat) /\ Range(a \o b) = Range(a) \cup Range(b)
    BY <2>3, <2>6, RangeConcatenation
  <2>8. Range(a \o b) = ids
    BY <2>3, <2>4, <2>7
  <2>. QED BY <1>2, <2>5, <2>7, <2>8 DEF ids
<1>. QED BY <1>1, <1>2

\* The next id is above every complete file, when no file is torn.
LEMMA NextIDAbove ==
    ASSUME NEW fs, Bounded(DOMAIN fs)
    PROVE  /\ NextIDAfterLoad(fs) \in Nat /\ NextIDAfterLoad(fs) # 0
           /\ TornFiles(fs) = {} => \A f \in Complete(fs) : f < NextIDAfterLoad(fs)
<1>. DEFINE reached == Reached(fs)
<1>1. reached \subseteq DOMAIN fs
  BY DEF Complete, Reached
<1>2. Bounded(reached)
  BY <1>1, BoundedSubset
<1>3. TornFiles(fs) = {} => reached = Complete(fs)
  BY DEF Reached
<1>4. NextIDAfterLoad(fs) = IF reached = {} THEN 1 ELSE Greatest(reached) + 1
  BY DEF NextIDAfterLoad
<1>5. reached \subseteq Nat
  BY <1>2 DEF Bounded
<1>. HIDE DEF reached
<1>6. CASE reached = {}
  BY <1>3, <1>4, <1>6
<1>7. CASE reached # {}
  <2>1. Greatest(reached) \in Nat /\ \A y \in reached : y <= Greatest(reached)
    BY <1>2, <1>7, GreatestExists
  <2>2. \A y \in reached : y < Greatest(reached) + 1
    BY <1>5, <2>1
  <2>. QED BY <1>3, <1>4, <1>7, <2>1, <2>2
<1>. QED BY <1>6, <1>7

LEMMA NextWALAbove ==
    ASSUME NEW ws, Bounded(DOMAIN ws)
    PROVE  /\ NextWALAfterReplay(ws) \in Nat
           /\ \A w \in DOMAIN ws : w < NextWALAfterReplay(ws)
<1>1. CASE DOMAIN ws = {}
  BY <1>1 DEF NextWALAfterReplay
<1>2. CASE DOMAIN ws # {}
  <2>1. Greatest(DOMAIN ws) \in Nat /\ \A y \in DOMAIN ws : y <= Greatest(DOMAIN ws)
    BY <1>2, GreatestExists
  <2>2. \A y \in DOMAIN ws : y \in Nat
    BY DEF Bounded
  <2>. QED BY <1>2, <2>1, <2>2 DEF NextWALAfterReplay
<1>. QED BY <1>1, <1>2

-----------------------------------------------------------------------------
(* The shape of the state, and the supply of WAL files.                      *)

\* Directories are finite, a compaction under way has tables left to replace, and
\* a Get that has not ended has a file left to read.
Shape ==
    /\ Bounded(DOMAIN files) /\ Bounded(DOMAIN wals) /\ errors \in Nat
    /\ compactor.stage # "idle" => compactor.picked # <<>>
    /\ \A r \in Reader : ~readers[r].done => readers[r].rest # <<>> /\ readers[r].key \in Key

\* Which goroutines there are in which phase of the process.  A flush that NewDB
\* called is alone, and every other one is rid of a WAL older than the active one.
Goroutines ==
    /\ phase # "running" => pending = Nil /\ nextwal = Nil /\ ~walNotifyCh /\ ~allocating
                            /\ compactor = Idle
    /\ phase = "flush" => \A g, h \in flushers : g = h
    /\ \A g \in flushers : \/ g.oldWal = Nil /\ phase = "flush"
                           \/ g.oldWal \in Nat /\ phase = "running" /\ g.oldWal < wal

\* The ids of the WAL files follow the order of their use, and the next file is
\* ready, ordered or being created, in one of these ways only.
WalOrder ==
    /\ phase = "running" => wal < walFileID
    /\ nextwal # Nil => nextwal \in DOMAIN wals /\ wal < nextwal /\ nextwal < walFileID
    /\ allocating => walFileID \in DOMAIN wals /\ nextwal = Nil /\ ~walNotifyCh
    /\ walNotifyCh => nextwal = Nil
    /\ phase = "running" /\ errors = 0 => nextwal # Nil \/ walNotifyCh \/ allocating

EngineInv == TypeOK /\ Shape /\ Goroutines /\ WalOrder

LEMMA DiskOK == TypeOK => FilesOK(files) /\ WalsOK(wals)
BY DEF TypeOK, FilesOK, WalsOK

LEMMA EngineInit == Init => EngineInv
<1>. SUFFICES ASSUME Init PROVE EngineInv
  OBVIOUS
<1>1. EmptyTable \in Table /\ Nil \in Entries
  BY EmptyIsTable DEF Entries
<1>2. <<>> \in Seq(Nat) /\ DOMAIN << >> = {}
  OBVIOUS
<1>3. Idle \in CompactRecord
  BY <1>1, <1>2 DEF Idle, CompactRecord
<1>4. NotReading \in ReadRecord
  BY <1>1, <1>2 DEF NotReading, ReadRecord
<1>5. TypeOK
  BY <1>1, <1>2, <1>3, <1>4 DEF Init, TypeOK
<1>6. Shape
  BY <1>2 DEF Init, Shape, Bounded, Idle, NotReading
<1>7. Goroutines /\ WalOrder
  BY DEF Init, Goroutines, WalOrder
<1>. QED BY <1>5, <1>6, <1>7 DEF EngineInv

\* A write to the active WAL.
LEMMA LogWrite ==
    ASSUME TypeOK, Shape, phase = "running", NEW k \in Key, NEW v \in Entries,
           wals' = [wals EXCEPT ![wal] = With(@, k, v)]
    PROVE  DOMAIN wals' = DOMAIN wals /\ WalsOK(wals)' /\ Bounded(DOMAIN wals')
<1>1. wal \in DOMAIN wals /\ WalsOK(wals)
  BY DiskOK DEF TypeOK
<1>2. With(wals[wal], k, v) \in Table
  BY <1>1, WithTable DEF WalsOK
<1>3. DOMAIN wals' = DOMAIN wals
  OBVIOUS
<1>4. ASSUME NEW w \in DOMAIN wals PROVE w \in Nat /\ wals'[w] \in Table
  BY <1>1, <1>2 DEF WalsOK
<1>. QED BY <1>3, <1>4 DEF WalsOK, Shape

LEMMA AppendStep ==
    ASSUME EngineInv, NEW k \in Key, NEW v \in Entries,
           AppendWAL(k, v) \/ AppendFails(k, v)
    PROVE  EngineInv'
<1>. USE DEF EngineInv
<1>1. phase = "running"
  BY DEF AppendWAL, AppendFails
<1>2. wals' = wals \/ wals' = [wals EXCEPT ![wal] = With(@, k, v)]
  BY DEF AppendWAL, AppendFails
<1>3. DOMAIN wals' = DOMAIN wals /\ WalsOK(wals)' /\ Bounded(DOMAIN wals')
  <2>1. CASE wals' = wals
    BY <2>1, DiskOK DEF Shape, WalsOK
  <2>. QED BY <1>1, <1>2, <2>1, LogWrite
<1>4. /\ pending' \in [key : Key, val : Entries] \cup {Nil}
      /\ damaged' \in BOOLEAN
      /\ errors' \in Nat /\ (errors' = 0 => errors = 0)
  <2>1. errors \in Nat /\ damaged \in BOOLEAN
    BY DEF TypeOK, Shape
  <2>2. CASE AppendWAL(k, v)
    <3>1. pending' = [key |-> k, val |-> v] /\ errors' = errors /\ damaged' = damaged
      BY <2>2 DEF AppendWAL, ghostVars
    <3>. QED BY <2>1, <3>1
  <2>3. CASE AppendFails(k, v)
    <3>1. pending' = pending /\ errors' = errors + 1
      BY <2>3 DEF AppendFails
    <3>2. damaged' = damaged \/ damaged' = TRUE
      BY <2>3 DEF AppendFails
    <3>3. damaged' \in BOOLEAN
      BY <2>1, <3>2
    <3>4. pending' \in [key : Key, val : Entries] \cup {Nil}
      BY <3>1 DEF TypeOK
    <3>. QED BY <2>1, <3>1, <3>3, <3>4
  <2>. QED BY <2>2, <2>3
<1>5. UNCHANGED <<memVars, nextFileID, walVars, flushers, compactor, readers,
                  phase, files, manifest, contents>>
  BY DEF AppendWAL, AppendFails, ghostVars
<1>6. TypeOK'
  BY <1>3, <1>4, <1>5 DEF TypeOK, WalsOK, memVars, walVars
<1>7. Shape'
  BY <1>3, <1>4, <1>5 DEF Shape
<1>8. Goroutines' /\ WalOrder'
  BY <1>1, <1>3, <1>4, <1>5 DEF Goroutines, WalOrder, walVars
<1>. QED BY <1>6, <1>7, <1>8

LEMMA WriteMemTableStep == EngineInv /\ WriteMemTable => EngineInv'
<1>. SUFFICES ASSUME EngineInv, WriteMemTable PROVE EngineInv'
  OBVIOUS
<1>. USE DEF EngineInv
<1>. DEFINE m == With(memTable, pending.key, pending.val)
            g == [stage |-> "reserve", table |-> m, oldWal |-> wal, file |-> 0, line |-> <<>>]
<1>1. /\ pending.key \in Key /\ pending.val \in Entries
      /\ phase = "running" /\ wal \in DOMAIN wals /\ wal \in Nat
  BY NilAssumption DEF WriteMemTable, TypeOK, Goroutines
<1>2. m \in Table
  BY <1>1, WithTable DEF TypeOK
<1>3. contents' \in [Key -> Entries] /\ pending' = Nil
  BY <1>1 DEF WriteMemTable, TypeOK
<1>4. UNCHANGED <<sstables, nextFileID, walFileID, allocating, compactor, readers,
                  phase, files, manifest, wals, errors, damaged>>
  BY DEF WriteMemTable, diskVars, boundVars
<1>5. g \in FlushRecord
  BY <1>1, <1>2 DEF FlushRecord
<1>6. CASE MustSwitch(m)
  <2>1. /\ immTable' = m /\ memTable' = EmptyTable /\ wal' = nextwal /\ nextwal' = Nil
        /\ walNotifyCh' = TRUE /\ flushers' = flushers \cup {g}
    BY <1>6 DEF WriteMemTable, Notified
  <2>2. nextwal \in DOMAIN wals /\ nextwal \in Nat /\ wal < nextwal /\ nextwal < walFileID
        /\ ~walNotifyCh /\ ~allocating
    BY <1>6 DEF MustSwitch, WalOrder, TypeOK
  <2>3. TypeOK'
    BY <1>1, <1>2, <1>3, <1>4, <1>5, <2>1, <2>2, EmptyIsTable DEF TypeOK
  <2>4. Shape'
    BY <1>4 DEF Shape
  <2>5. WalOrder'
    BY <1>1, <1>4, <2>1, <2>2 DEF WalOrder
  <2>6. ASSUME NEW h \in flushers' PROVE h.oldWal \in Nat /\ h.oldWal < wal'
    <3>1. CASE h = g
      BY <1>1, <2>1, <2>2, <3>1
    <3>2. CASE h \in flushers
      <4>1. h.oldWal \in Nat /\ h.oldWal < wal
        BY <1>1, <3>2 DEF Goroutines
      <4>. QED BY <1>1, <2>1, <2>2, <4>1
    <3>. QED BY <2>1, <2>6, <3>1, <3>2
  <2>7. Goroutines'
    BY <1>1, <1>4, <2>6 DEF Goroutines
  <2>. QED BY <2>3, <2>4, <2>5, <2>7
<1>7. CASE ~MustSwitch(m)
  <2>1. memTable' = m /\ UNCHANGED <<immTable, wal, nextwal, walNotifyCh, flushers>>
    BY <1>7 DEF WriteMemTable
  <2>2. TypeOK'
    BY <1>2, <1>3, <1>4, <2>1 DEF TypeOK
  <2>3. Shape' /\ Goroutines' /\ WalOrder'
    BY <1>3, <1>4, <2>1 DEF Shape, Goroutines, WalOrder
  <2>. QED BY <2>2, <2>3
<1>. QED BY <1>6, <1>7

LEMMA PreAllocateStep == EngineInv /\ PreAllocate => EngineInv'
<1>. SUFFICES ASSUME EngineInv, PreAllocate PROVE EngineInv'
  OBVIOUS
<1>. USE DEF EngineInv
<1>1. phase = "running" /\ walNotifyCh /\ ~allocating /\ walNotifyCh' = FALSE
  BY DEF PreAllocate
<1>2. UNCHANGED <<memTable, immTable, sstables, nextFileID, wal, nextwal, walFileID, pending,
                  flushers, compactor, readers, phase, files, manifest, contents, damaged>>
  BY DEF PreAllocate, memVars, ghostVars
<1>3. nextwal = Nil /\ wal \in DOMAIN wals /\ wal < walFileID /\ walFileID \in Nat
  BY <1>1 DEF WalOrder, TypeOK
<1>4. CASE /\ wals' = Over(wals, Single(walFileID, EmptyTable))
           /\ allocating' = TRUE /\ errors' = errors
  <2>1. DOMAIN Single(walFileID, EmptyTable) = {walFileID}
        /\ Single(walFileID, EmptyTable)[walFileID] = EmptyTable
    BY DEF Single
  <2>2. DOMAIN wals' = DOMAIN wals \cup {walFileID}
    BY <1>4, <2>1, OverParts
  <2>3. Bounded(DOMAIN wals')
    BY <1>3, <2>2, BoundedAdd DEF Shape
  <2>4. ASSUME NEW w \in DOMAIN wals' PROVE w \in Nat /\ wals'[w] \in Table
    <3>1. CASE w \in DOMAIN wals
      <4>1. wals'[w] = wals[w]
        BY <1>4, <3>1 DEF Over
      <4>. QED BY <3>1, <4>1 DEF TypeOK
    <3>2. CASE w \notin DOMAIN wals
      <4>1. w = walFileID
        BY <2>2, <2>4, <3>2
      <4>2. wals'[w] = EmptyTable
        <5>1. Over(wals, Single(walFileID, EmptyTable))[w] = Single(walFileID, EmptyTable)[w]
          BY <2>1, <3>2, <4>1 DEF Over
        <5>. QED BY <1>4, <2>1, <4>1, <5>1
      <4>. QED BY <1>3, <4>1, <4>2, EmptyIsTable
    <3>. QED BY <3>1, <3>2
  <2>5. TypeOK'
    BY <1>1, <1>2, <1>3, <1>4, <2>2, <2>4 DEF TypeOK
  <2>6. Shape'
    BY <1>2, <1>4, <2>3 DEF Shape
  <2>7. Goroutines' /\ WalOrder'
    BY <1>1, <1>2, <1>3, <1>4, <2>2 DEF Goroutines, WalOrder
  <2>. QED BY <2>5, <2>6, <2>7
<1>5. CASE errors' = errors + 1 /\ UNCHANGED <<wals, allocating>>
  <2>1. errors \in Nat /\ errors' \in Nat /\ errors' # 0
    BY <1>5 DEF Shape
  <2>2. TypeOK'
    BY <1>1, <1>2, <1>5 DEF TypeOK
  <2>3. Shape' /\ Goroutines' /\ WalOrder'
    BY <1>1, <1>2, <1>3, <1>5, <2>1 DEF Shape, Goroutines, WalOrder
  <2>. QED BY <2>2, <2>3
<1>. QED BY <1>4, <1>5 DEF PreAllocate

LEMMA InstallNextWALStep == EngineInv /\ InstallNextWAL => EngineInv'
<1>. SUFFICES ASSUME EngineInv, InstallNextWAL PROVE EngineInv'
  OBVIOUS
<1>. USE DEF EngineInv
<1>1. /\ allocating /\ allocating' = FALSE /\ nextwal' = walFileID
      /\ walFileID' = walFileID + 1
  BY DEF InstallNextWAL
<1>2. UNCHANGED <<memTable, immTable, sstables, nextFileID, wal, walNotifyCh, pending, flushers,
                  compactor, readers, phase, files, manifest, wals, errors, contents, damaged>>
  BY DEF InstallNextWAL, memVars, diskVars, boundVars, ghostVars
<1>3. /\ phase = "running" /\ walFileID \in DOMAIN wals /\ ~walNotifyCh
      /\ wal \in Nat /\ walFileID \in Nat /\ wal < walFileID
  BY <1>1 DEF Goroutines, WalOrder, TypeOK
<1>4. walFileID' \in Nat /\ walFileID < walFileID' /\ wal < walFileID' /\ walFileID # Nil
  BY <1>1, <1>3, NilAssumption
<1>5. TypeOK'
  BY <1>1, <1>2, <1>3, <1>4 DEF TypeOK
<1>6. Shape' /\ Goroutines' /\ WalOrder'
  BY <1>1, <1>2, <1>3, <1>4 DEF Shape, Goroutines, WalOrder
<1>. QED BY <1>5, <1>6

\* The files after the creation of an .sst file, or the next write to it.
LEMMA FileWrite ==
    ASSUME FilesOK(files), Bounded(DOMAIN files), NEW f \in Nat,
           NEW t \in Table \cup {Short, Torn},
           files' = With(files, f, t) \/ files' = [files EXCEPT ![f] = t]
    PROVE  FilesOK(files)' /\ Bounded(DOMAIN files')
<1>1. CASE files' = With(files, f, t)
  <2>1. DOMAIN files' = DOMAIN files \cup {f}
    BY <1>1, WithParts
  <2>2. Bounded(DOMAIN files')
    BY <2>1, BoundedAdd
  <2>3. ASSUME NEW x \in DOMAIN files'
        PROVE  x \in Nat /\ files'[x] \in Table \cup {Short, Torn}
    <3>1. CASE x = f
      <4>1. With(files, f, t)[f] = t
        BY DEF With, Over, Single
      <4>. QED BY <1>1, <3>1, <4>1
    <3>2. CASE x # f
      <4>1. x \in DOMAIN files \ {f}
        BY <2>1, <2>3, <3>2
      <4>2. With(files, f, t)[x] = files[x]
        BY <4>1 DEF With, Over, Single
      <4>. QED BY <1>1, <4>1, <4>2 DEF FilesOK
    <3>. QED BY <3>1, <3>2
  <2>. QED BY <2>2, <2>3 DEF FilesOK
<1>2. CASE files' = [files EXCEPT ![f] = t]
  BY <1>2 DEF FilesOK
<1>. QED BY <1>1, <1>2

\* A flusher goes on to its next stage, or ends, in a phase that does not change.
LEMMA FlusherGoesOn ==
    ASSUME Goroutines, NEW g \in flushers, NEW h, h.oldWal = g.oldWal,
           flushers' = flushers \ {g} \/ flushers' = (flushers \ {g}) \cup {h},
           UNCHANGED <<pending, nextwal, wal, walNotifyCh, allocating, compactor, phase>>
    PROVE  Goroutines'
<1>1. ASSUME NEW x \in flushers'
      PROVE  \/ x.oldWal = Nil /\ phase' = "flush"
             \/ x.oldWal \in Nat /\ phase' = "running" /\ x.oldWal < wal'
  BY <1>1 DEF Goroutines
<1>2. phase' = "flush" => \A x, y \in flushers' : x = y
  BY DEF Goroutines
<1>. QED BY <1>1, <1>2 DEF Goroutines

LEMMA FlushWriteStep ==
    ASSUME EngineInv, NEW g \in flushers,
           FlushReserve(g) \/ FlushBlocks(g) \/ FlushFooter(g)
    PROVE  EngineInv'
<1>. USE DEF EngineInv
<1>1. g \in FlushRecord
  BY DEF TypeOK
<1>2. UNCHANGED <<memTable, immTable, sstables, wal, nextwal, walFileID, walNotifyCh,
                  allocating, pending, compactor, readers, phase, manifest, wals, errors,
                  contents, damaged>>
  BY DEF FlushReserve, FlushBlocks, FlushFooter, memVars, walVars, boundVars, ghostVars
<1>3. PICK f \in Nat, t \in Table \cup {Short, Torn} :
         files' = With(files, f, t) \/ files' = [files EXCEPT ![f] = t]
  BY <1>1 DEF FlushReserve, FlushBlocks, FlushFooter, FlushRecord, TypeOK
<1>4. FilesOK(files)' /\ Bounded(DOMAIN files')
  BY <1>3, DiskOK, FileWrite DEF Shape
<1>5. nextFileID' \in Nat
  BY DEF FlushReserve, FlushBlocks, FlushFooter, AdvancedID, TypeOK
<1>6. PICK h \in FlushRecord : h.oldWal = g.oldWal /\ flushers' = (flushers \ {g}) \cup {h}
  <2>1. CASE FlushReserve(g)
    <3>1. [g EXCEPT !.stage = "blocks", !.file = nextFileID] \in FlushRecord
      BY <1>1 DEF FlushRecord, TypeOK
    <3>. QED BY <1>1, <2>1, <3>1 DEF FlushReserve, Advance, FlushRecord
  <2>2. CASE FlushBlocks(g)
    <3>1. [g EXCEPT !.stage = "footer"] \in FlushRecord
      BY <1>1 DEF FlushRecord
    <3>. QED BY <1>1, <2>2, <3>1 DEF FlushBlocks, Advance, FlushRecord
  <2>3. CASE FlushFooter(g)
    <3>1. [g EXCEPT !.stage = "install"] \in FlushRecord
      BY <1>1 DEF FlushRecord
    <3>. QED BY <1>1, <2>3, <3>1 DEF FlushFooter, Advance, FlushRecord
  <2>. QED BY <2>1, <2>2, <2>3
<1>7. TypeOK'
  BY <1>2, <1>4, <1>5, <1>6 DEF TypeOK, FilesOK
<1>8. Shape' /\ WalOrder'
  BY <1>2, <1>4 DEF Shape, WalOrder
<1>9. Goroutines'
  BY <1>2, <1>6, FlusherGoesOn
<1>. QED BY <1>7, <1>8, <1>9

LEMMA FlushFailsStep ==
    ASSUME EngineInv, NEW g \in flushers, FlushFails(g)
    PROVE  EngineInv'
<1>. USE DEF EngineInv
<1>1. UNCHANGED <<memTable, immTable, sstables, wal, nextwal, walFileID,
                  walNotifyCh, allocating, pending, compactor, readers, files, manifest, wals,
                  contents>> /\ nextFileID' \in Nat
  BY DEF FlushFails, memVars, walVars, diskVars, AdvancedID, TypeOK
<1>2. flushers' = flushers \ {g} /\ errors' = errors + 1
  BY DEF FlushFails
<1>3. errors \in Nat /\ errors' \in Nat /\ errors' # 0
  BY <1>2 DEF Shape
<1>4. damaged' \in BOOLEAN
  BY DEF FlushFails
<1>5. CASE phase = "flush"
  <2>1. phase' = "clean"
    BY <1>5 DEF FlushFails
  <2>2. flushers' = {}
    BY <1>2, <1>5 DEF Goroutines
  <2>3. TypeOK'
    BY <1>1, <1>4, <1>5, <2>1, <2>2 DEF TypeOK
  <2>4. Shape' /\ Goroutines' /\ WalOrder'
    BY <1>1, <1>3, <1>5, <2>1, <2>2 DEF Shape, Goroutines, WalOrder
  <2>. QED BY <2>3, <2>4
<1>6. CASE phase # "flush"
  <2>1. phase' = phase
    BY <1>6 DEF FlushFails
  <2>2. TypeOK'
    BY <1>1, <1>2, <1>4, <2>1 DEF TypeOK
  <2>3. Shape' /\ WalOrder'
    BY <1>1, <1>3, <2>1 DEF Shape, WalOrder
  <2>4. Goroutines'
    BY <1>1, <1>2, <2>1, FlusherGoesOn
  <2>. QED BY <2>2, <2>3, <2>4
<1>. QED BY <1>5, <1>6

LEMMA FlushInstallStep ==
    ASSUME EngineInv, NEW g \in flushers, FlushInstall(g)
    PROVE  EngineInv'
<1>. USE DEF EngineInv
<1>1. g \in FlushRecord /\ g.file \in Nat
  BY DEF TypeOK, FlushRecord
<1>2. UNCHANGED <<memTable, nextFileID, wal, nextwal, walFileID,
                  walNotifyCh, allocating, pending, compactor, readers, phase, files, manifest,
                  wals, errors, contents, damaged>>
  BY DEF FlushInstall, walVars, diskVars, boundVars, ghostVars
<1>3. sstables' \in Seq(Nat) /\ immTable' = Nil
  BY <1>1 DEF FlushInstall, Appended, TypeOK
<1>. DEFINE h == [g EXCEPT !.stage = "manifest", !.line = sstables']
<1>4. h \in FlushRecord /\ h.oldWal = g.oldWal
  BY <1>1, <1>3 DEF FlushRecord
<1>5. flushers' = (flushers \ {g}) \cup {h}
  BY DEF FlushInstall, Advance
<1>. HIDE DEF h
<1>6. TypeOK'
  BY <1>2, <1>3, <1>4, <1>5 DEF TypeOK
<1>7. Shape' /\ WalOrder'
  BY <1>2 DEF Shape, WalOrder
<1>8. Goroutines'
  BY <1>2, <1>4, <1>5, FlusherGoesOn
<1>. QED BY <1>6, <1>7, <1>8

\* persistManifest appends the line, or reports an error.
LEMMA ManifestWrite ==
    ASSUME TypeOK, Shape, NEW line \in Seq(Nat), persistManifest(line)
    PROVE  /\ manifest' \in Seq(Nat)
           /\ errors' \in Nat /\ (errors' = 0 => errors = 0)
BY DEF persistManifest, TypeOK, Shape

LEMMA FlushManifestStep ==
    ASSUME EngineInv, NEW g \in flushers, FlushManifest(g)
    PROVE  EngineInv'
<1>. USE DEF EngineInv
<1>1. g \in FlushRecord /\ g.line \in Seq(Nat)
  BY DEF TypeOK, FlushRecord
<1>2. UNCHANGED <<memTable, immTable, sstables, nextFileID, wal, nextwal, walFileID,
                  walNotifyCh, allocating, pending, compactor, readers, files,
                  wals, contents, damaged>>
  BY DEF FlushManifest, memVars, walVars, ghostVars
<1>3. manifest' \in Seq(Nat) /\ errors' \in Nat /\ (errors' = 0 => errors = 0)
  BY <1>1, ManifestWrite DEF FlushManifest
<1>4. CASE g.oldWal = Nil
  <2>1. flushers' = flushers \ {g} /\ phase' = "clean"
    BY <1>4 DEF FlushManifest
  <2>2. phase = "flush"
    BY <1>4, NilAssumption DEF Goroutines
  <2>3. flushers' = {}
    BY <2>1, <2>2 DEF Goroutines
  <2>4. TypeOK'
    BY <1>2, <1>3, <2>1, <2>2, <2>3 DEF TypeOK
  <2>5. Shape' /\ Goroutines' /\ WalOrder'
    BY <1>2, <1>3, <2>1, <2>2, <2>3 DEF Shape, Goroutines, WalOrder
  <2>. QED BY <2>4, <2>5
<1>5. CASE g.oldWal # Nil
  <2>. DEFINE h == [g EXCEPT !.stage = "delete"]
  <2>1. flushers' = (flushers \ {g}) \cup {h} /\ phase' = phase
    BY <1>5 DEF FlushManifest, Advance
  <2>2. h \in FlushRecord /\ h.oldWal = g.oldWal
    BY <1>1 DEF FlushRecord
  <2>. HIDE DEF h
  <2>3. TypeOK'
    BY <1>2, <1>3, <2>1, <2>2 DEF TypeOK
  <2>4. Shape' /\ WalOrder'
    BY <1>2, <1>3, <2>1 DEF Shape, WalOrder
  <2>5. Goroutines'
    BY <1>2, <2>1, <2>2, FlusherGoesOn
  <2>. QED BY <2>3, <2>4, <2>5
<1>. QED BY <1>4, <1>5

\* Removing a file from a directory.
LEMMA RestrictParts ==
    ASSUME NEW f, NEW x
    PROVE  LET g == Restrict(f, DOMAIN f \ {x})
           IN  /\ DOMAIN g = DOMAIN f \ {x}
               /\ \A y \in DOMAIN f \ {x} : g[y] = f[y]
BY DEF Restrict

LEMMA FlushDeleteWALStep ==
    ASSUME EngineInv, NEW g \in flushers, FlushDeleteWAL(g)
    PROVE  EngineInv'
<1>. USE DEF EngineInv
<1>1. UNCHANGED <<memTable, immTable, sstables, nextFileID, wal, nextwal, walFileID,
                  walNotifyCh, allocating, pending, compactor, readers, phase, files,
                  manifest, contents, damaged>>
  BY DEF FlushDeleteWAL, memVars, walVars, ghostVars
<1>2. flushers' = flushers \ {g}
  BY DEF FlushDeleteWAL
<1>3. /\ errors \in Nat /\ errors' \in Nat /\ (errors' = 0 => errors = 0)
  BY DEF FlushDeleteWAL, Shape
<1>4. /\ wals' = wals \/ wals' = Restrict(wals, DOMAIN wals \ {g.oldWal})
  BY DEF FlushDeleteWAL
<1>5. DOMAIN wals \ {g.oldWal} \subseteq DOMAIN wals' /\ DOMAIN wals' \subseteq DOMAIN wals
      /\ \A w \in DOMAIN wals' : wals'[w] = wals[w]
  <2>1. CASE wals' = wals
    BY <2>1
  <2>2. CASE wals' = Restrict(wals, DOMAIN wals \ {g.oldWal})
    BY <2>2, RestrictParts
  <2>. QED BY <1>4, <2>1, <2>2
<1>6. Bounded(DOMAIN wals')
  BY <1>5, BoundedSubset DEF Shape
<1>7. \A w \in DOMAIN wals' : w \in Nat /\ wals'[w] \in Table
  BY <1>5 DEF TypeOK
<1>8. phase = "running" => wal \in DOMAIN wals' /\ wal \in Nat
  <2>1. SUFFICES ASSUME phase = "running" PROVE wal \in DOMAIN wals' /\ wal \in Nat
    OBVIOUS
  <2>2. wal \in DOMAIN wals /\ wal \in Nat
    BY <2>1 DEF TypeOK
  <2>3. g.oldWal \in Nat /\ g.oldWal < wal
    BY <2>1 DEF Goroutines
  <2>. QED BY <1>5, <2>2, <2>3
<1>9. TypeOK'
  BY <1>1, <1>2, <1>7, <1>8 DEF TypeOK
<1>10. ASSUME NEW w \in DOMAIN wals, phase = "running", wal < w PROVE w \in DOMAIN wals'
  <2>1. wal \in Nat /\ w \in Nat
    BY <1>10 DEF TypeOK
  <2>2. g.oldWal \in Nat /\ g.oldWal < wal
    BY <1>10 DEF Goroutines
  <2>3. g.oldWal # w
    BY <1>10, <2>1, <2>2
  <2>. QED BY <1>5, <2>3
<1>11. nextwal # Nil => nextwal \in DOMAIN wals'
  BY <1>10 DEF WalOrder, Goroutines
<1>12. allocating => walFileID \in DOMAIN wals'
  BY <1>10 DEF WalOrder, Goroutines
<1>13. Shape' /\ WalOrder'
  BY <1>1, <1>3, <1>6, <1>11, <1>12 DEF Shape, WalOrder
<1>14. Goroutines'
  BY <1>1, <1>2, FlusherGoesOn
<1>. QED BY <1>9, <1>13, <1>14

\* Steps that change nothing but a reader, the compactor or both, and count errors.
LEMMA QuietStep ==
    ASSUME EngineInv,
           UNCHANGED <<memTable, immTable, sstables, nextFileID, wal, nextwal, walFileID,
                       walNotifyCh, allocating, pending, flushers, phase, files, manifest,
                       wals, contents, damaged>>,
           errors' \in Nat, errors' = 0 => errors = 0,
           compactor' \in CompactRecord, phase = "running" \/ compactor' = compactor,
           compactor'.stage # "idle" => compactor'.picked # <<>>,
           readers' \in [Reader -> ReadRecord],
           \A r \in Reader : ~readers'[r].done =>
               readers'[r].rest # <<>> /\ readers'[r].key \in Key
    PROVE  EngineInv'
<1>. USE DEF EngineInv
<1>1. TypeOK'
  BY DEF TypeOK
<1>2. Shape'
  BY DEF Shape
<1>3. Goroutines' /\ WalOrder'
  BY DEF Goroutines, WalOrder
<1>. QED BY <1>1, <1>2, <1>3

LEMMA GetSnapshotStep ==
    ASSUME EngineInv, NEW r \in Reader, NEW k \in Key, GetSnapshot(r, k)
    PROVE  EngineInv'
<1>. USE DEF EngineInv
<1>. DEFINE cached == Over(memTable, IF immTable = Nil THEN EmptyTable ELSE immTable)
            hit == k \in DOMAIN cached \/ sstables = <<>>
            rec == [key |-> k, rest |-> IF hit THEN <<>> ELSE sstables, done |-> hit,
                    result |-> ValueOf(cached, k), start |-> contents[k], missed |-> FALSE]
<1>1. readers' = [readers EXCEPT ![r] = rec]
  BY DEF GetSnapshot
<1>2. cached \in Table
  <2>1. (IF immTable = Nil THEN EmptyTable ELSE immTable) \in Table
    BY EmptyIsTable DEF TypeOK
  <2>. QED BY <2>1, OverTable DEF TypeOK
<1>3. ValueOf(cached, k) \in Entries
  BY <1>2, TableParts DEF ValueOf, Entries
<1>. HIDE DEF cached
<1>4. contents[k] \in Entries /\ sstables \in Seq(Nat) /\ <<>> \in Seq(Nat)
  BY DEF TypeOK
<1>5. rec \in ReadRecord
  BY <1>3, <1>4 DEF ReadRecord
<1>6. ~rec.done => rec.rest # <<>> /\ rec.key \in Key
  OBVIOUS
<1>. HIDE DEF rec
<1>7. readers' \in [Reader -> ReadRecord]
  BY <1>1, <1>5 DEF TypeOK
<1>8. \A x \in Reader : ~readers'[x].done => readers'[x].rest # <<>> /\ readers'[x].key \in Key
  BY <1>1, <1>6 DEF TypeOK, Shape
<1>9. UNCHANGED <<memTable, immTable, sstables, nextFileID, wal, nextwal, walFileID,
                  walNotifyCh, allocating, pending, flushers, compactor, phase, files, manifest,
                  wals, errors, contents, damaged>>
  BY DEF GetSnapshot, memVars, walVars, diskVars, boundVars, ghostVars
<1>10. compactor' \in CompactRecord /\ errors' \in Nat
  BY <1>9 DEF TypeOK, Shape
<1>11. compactor'.stage # "idle" => compactor'.picked # <<>>
  BY <1>9 DEF Shape
<1>. QED BY <1>7, <1>8, <1>9, <1>10, <1>11, QuietStep

LEMMA GetFromTableStep ==
    ASSUME EngineInv, NEW r \in Reader, GetFromTable(r)
    PROVE  EngineInv'
<1>. USE DEF EngineInv
<1>. DEFINE g == readers[r]
            n == Len(g.rest)
            f == g.rest[n]
            rec == readers'[r]
<1>1. /\ g \in ReadRecord /\ ~g.done /\ g.rest \in Seq(Nat) /\ g.rest # <<>> /\ g.key \in Key
      /\ g.done \in BOOLEAN /\ g.missed \in BOOLEAN
  <2>1. g \in ReadRecord /\ ~g.done
    BY DEF GetFromTable, TypeOK
  <2>2. g.rest # <<>> /\ g.key \in Key
    BY <2>1 DEF Shape
  <2>. QED BY <2>1, <2>2 DEF ReadRecord
<1>2. n \in Nat /\ n # 0
  BY <1>1
<1>3. SubSeq(g.rest, 1, n - 1) \in Seq(Nat) /\ Len(SubSeq(g.rest, 1, n - 1)) = n - 1
  BY <1>1, <1>2
<1>4. ASSUME NEW v \in Entries, Finish(r, v)
      PROVE  /\ readers' \in [Reader -> ReadRecord]
             /\ \A x \in Reader \ {r} : readers'[x] = readers[x]
             /\ ~rec.done => rec.rest # <<>> /\ rec.key \in Key
  <2>1. readers' = [readers EXCEPT ![r] = [g EXCEPT !.done = TRUE, !.result = v]]
    BY <1>4 DEF Finish
  <2>2. [g EXCEPT !.done = TRUE, !.result = v] \in ReadRecord
    BY <1>1 DEF ReadRecord
  <2>3. [g EXCEPT !.done = TRUE, !.result = v].done = TRUE
    BY <1>1 DEF ReadRecord
  <2>. QED BY <2>1, <2>2, <2>3 DEF TypeOK
<1>5. ASSUME NEW lost \in BOOLEAN,
             readers' = [readers EXCEPT ![r].rest = SubSeq(g.rest, 1, n - 1),
                                        ![r].done = (n = 1),
                                        ![r].missed = @ \/ lost]
      PROVE  /\ readers' \in [Reader -> ReadRecord]
             /\ \A x \in Reader \ {r} : readers'[x] = readers[x]
             /\ ~rec.done => rec.rest # <<>> /\ rec.key \in Key
  <2>. DEFINE h == [g EXCEPT !.rest = SubSeq(g.rest, 1, n - 1), !.done = (n = 1),
                             !.missed = @ \/ lost]
  <2>1. readers' = [readers EXCEPT ![r] = h]
    BY <1>5
  <2>2. (n = 1) \in BOOLEAN /\ (g.missed \/ lost) \in BOOLEAN
    OBVIOUS
  <2>3. h \in ReadRecord
    BY <1>1, <1>3, <2>2 DEF ReadRecord
  <2>4. h.done = (n = 1) /\ h.rest = SubSeq(g.rest, 1, n - 1) /\ h.key = g.key
    BY <1>1 DEF ReadRecord
  <2>5. n # 1 => SubSeq(g.rest, 1, n - 1) # <<>>
    <3>1. n # 1 => n - 1 # 0
      BY <1>2
    <3>2. Len(<< >>) = 0
      OBVIOUS
    <3>. QED BY <1>3, <3>1, <3>2, Zenon
  <2>. HIDE DEF h
  <2>6. ~h.done => h.rest # <<>> /\ h.key \in Key
    BY <1>1, <2>4, <2>5
  <2>. QED BY <2>1, <2>3, <2>6 DEF TypeOK
<1>6. /\ readers' \in [Reader -> ReadRecord]
      /\ \A x \in Reader \ {r} : readers'[x] = readers[x]
      /\ ~rec.done => rec.rest # <<>> /\ rec.key \in Key
  <2>. DEFINE hit == f \in Complete(files) /\ g.key \in DOMAIN files[f]
  <2>1. CASE hit /\ Finish(r, files[f][g.key])
    <3>1. files[f] \in Table
      BY <2>1, CompleteFile, DiskOK
    <3>2. files[f][g.key] \in Entries
      BY <2>1, <3>1, TableParts
    <3>. QED BY <1>4, <2>1, <3>2
  <2>2. CASE readers' = [readers EXCEPT ![r].rest = SubSeq(g.rest, 1, n - 1),
                                        ![r].done = (n = 1),
                                        ![r].missed = @ \/ (f \notin DOMAIN files)]
    <3>1. (f \notin DOMAIN files) \in BOOLEAN
      OBVIOUS
    <3>. QED BY <1>5, <2>2, <3>1
  <2>3. CASE readers' = [readers EXCEPT ![r].rest = SubSeq(g.rest, 1, n - 1),
                                        ![r].done = (n = 1),
                                        ![r].missed = @ \/ TRUE]
    BY <1>5, <2>3
  <2>. QED BY <2>1, <2>2, <2>3 DEF GetFromTable
<1>7. \A x \in Reader : ~readers'[x].done => readers'[x].rest # <<>> /\ readers'[x].key \in Key
  BY <1>6 DEF Shape
<1>8. UNCHANGED <<memTable, immTable, sstables, nextFileID, wal, nextwal, walFileID,
                  walNotifyCh, allocating, pending, flushers, compactor, phase, files, manifest,
                  wals, contents, damaged>>
  BY DEF GetFromTable, memVars, walVars, diskVars, ghostVars
<1>9. compactor' \in CompactRecord /\ compactor' = compactor
  BY <1>8 DEF TypeOK
<1>10. compactor'.stage # "idle" => compactor'.picked # <<>>
  BY <1>8 DEF Shape
<1>11. errors' \in Nat /\ (errors' = 0 => errors = 0)
  BY DEF GetFromTable, Shape
<1>. QED BY <1>6, <1>7, <1>8, <1>9, <1>10, <1>11, QuietStep

\* The first table of a compaction is one of its tables, and the others are left.
LEMMA PickedParts ==
    ASSUME NEW s \in Seq(Nat), s # <<>>
    PROVE  /\ Head(s) \in Range(s) /\ Tail(s) \in Seq(Nat)
           /\ Range(Tail(s)) \subseteq Range(s)
           /\ Len(s) # 1 => Tail(s) # <<>>
<1>1. Len(s) \in Nat /\ Len(s) # 0 /\ 1 \in DOMAIN s /\ Head(s) = s[1]
  OBVIOUS
<1>2. Tail(s) \in Seq(Nat) /\ Len(Tail(s)) = Len(s) - 1
  OBVIOUS
<1>3. ASSUME NEW i \in DOMAIN Tail(s) PROVE Tail(s)[i] \in Range(s)
  <2>1. i + 1 \in DOMAIN s /\ Tail(s)[i] = s[i + 1]
    BY <1>1, <1>2
  <2>. QED BY <2>1 DEF Range
<1>4. Len(s) # 1 => Tail(s) # <<>>
  <2>1. Len(s) # 1 => Len(s) - 1 # 0
    BY <1>1
  <2>2. Len(<< >>) = 0
    OBVIOUS
  <2>. QED BY <1>2, <2>1, <2>2, Zenon
<1>. QED BY <1>1, <1>2, <1>3, <1>4 DEF Range

\* The tables of a compaction are the oldest of the list.
LEMMA PrefixParts ==
    ASSUME NEW s \in Seq(Nat), NEW n \in Nat \ {0}, Len(s) >= n
    PROVE  /\ SubSeq(s, 1, n) \in Seq(Nat) /\ SubSeq(s, 1, n) # <<>>
           /\ Range(SubSeq(s, 1, n)) \subseteq Range(s)
<1>. DEFINE p == SubSeq(s, 1, n)
<1>1. p \in Seq(Nat) /\ Len(p) = n /\ DOMAIN p = 1..n
  OBVIOUS
<1>2. ASSUME NEW i \in 1..n PROVE p[i] \in Range(s)
  <2>1. i \in DOMAIN s /\ p[i] = s[i]
    OBVIOUS
  <2>. QED BY <2>1 DEF Range
<1>3. Len(<< >>) = 0
  OBVIOUS
<1>. HIDE DEF p
<1>4. p # <<>>
  BY <1>1, <1>3, Zenon
<1>5. Range(p) \subseteq Range(s)
  BY <1>1, <1>2 DEF Range
<1>. QED BY <1>1, <1>4, <1>5 DEF p

LEMMA IdleOK == Idle \in CompactRecord /\ Idle.stage = "idle"
<1>1. EmptyTable \in Table /\ <<>> \in Seq(Nat)
  BY EmptyIsTable
<1>. QED BY <1>1 DEF Idle, CompactRecord

\* A tick that merges the oldest tables into t, whatever the reads gave, or that
\* gives up before the merge.
LEMMA CompactMergeStep ==
    ASSUME EngineInv, CompactMerge \/ MergeFails
    PROVE  EngineInv'
<1>. USE DEF EngineInv
<1>0. PICK p : p = pickCompactionFiles
  OBVIOUS
<1>1. phase = "running" /\ Len(sstables) >= CompactionThreshold /\ sstables \in Seq(Nat)
  BY DEF CompactMerge, MergeFails, MayCompact, TypeOK
<1>2. p \in Seq(Nat) /\ p # <<>>
  BY <1>0, <1>1, SizeAssumption, PrefixParts DEF pickCompactionFiles
<1>3. doMerge(p, files) \in Table
  BY <1>2, MergeTable, DiskOK
<1>4. ASSUME NEW left \in [Range(p) -> SUBSET Key], Range(p) \subseteq Complete(files)
      PROVE  doMerge(p, ReadUpTo(files, left)) \in Table
  <2>1. PICK fs : fs = ReadUpTo(files, left)
    OBVIOUS
  <2>2. FilesOK(fs)
    <3>1. DOMAIN fs = Range(p)
      BY <2>1 DEF ReadUpTo
    <3>2. ASSUME NEW f \in Range(p) PROVE f \in Nat /\ fs[f] \in Table
      <4>1. f \in Nat /\ files[f] \in Table
        BY <1>4, CompleteFile, DiskOK DEF FilesOK, Complete
      <4>2. PICK S : S = left[f] \cap DOMAIN files[f]
        OBVIOUS
      <4>3. fs[f] = Restrict(files[f], S)
        BY <2>1, <4>2 DEF ReadUpTo
      <4>4. files[f] \in [DOMAIN files[f] -> Entries] /\ DOMAIN files[f] \subseteq Key
        BY <4>1, TableParts
      <4>5. S \subseteq Key /\ fs[f] \in [S -> Entries]
        BY <4>2, <4>3, <4>4 DEF Restrict
      <4>. QED BY <4>1, <4>5, IsTable
    <3>. QED BY <3>1, <3>2 DEF FilesOK
  <2>. QED BY <1>2, <2>1, <2>2, MergeTable
<1>5. \/ UNCHANGED compactor
      \/ \E t \in Table, st \in {"reserve", "install"} :
            compactor' = [Idle EXCEPT !.stage = st, !.picked = p, !.table = t]
  <2>1. CASE CompactMerge
    BY <1>0, <1>3, <2>1 DEF CompactMerge
  <2>2. CASE MergeFails
    BY <1>0, <1>4, <2>2 DEF MergeFails
  <2>. QED BY <2>1, <2>2
<1>6. /\ compactor' \in CompactRecord
      /\ compactor'.stage # "idle" => compactor'.picked # <<>>
  <2>1. CASE UNCHANGED compactor
    BY <2>1 DEF TypeOK, Shape
  <2>2. ASSUME NEW t \in Table, NEW st \in {"reserve", "install"},
               compactor' = [Idle EXCEPT !.stage = st, !.picked = p, !.table = t]
        PROVE  compactor' \in CompactRecord /\ compactor'.picked = p
    BY <1>2, <2>2, IdleOK DEF CompactRecord
  <2>. QED BY <1>2, <1>5, <2>1, <2>2
<1>7. UNCHANGED <<memTable, immTable, sstables, nextFileID, wal, nextwal, walFileID,
                  walNotifyCh, allocating, pending, flushers, phase, files, manifest,
                  wals, readers, contents>>
  BY DEF CompactMerge, MergeFails, memVars, walVars, diskVars, ghostVars
<1>8. errors' \in Nat /\ (errors' = 0 => errors = 0) /\ damaged' \in BOOLEAN
  <2>1. errors' \in Nat /\ (errors' = 0 => errors = 0)
    <3>1. errors' = errors \/ errors' = errors + 1
      BY Zenon DEF CompactMerge, MergeFails, boundVars
    <3>. QED BY <3>1 DEF Shape
  <2>2. damaged' = damaged \/ damaged' \in BOOLEAN
    BY Zenon DEF CompactMerge, MergeFails, ghostVars
  <2>. QED BY <2>1, <2>2 DEF TypeOK
<1>9. TypeOK'
  BY <1>6, <1>7, <1>8 DEF TypeOK
<1>10. Shape' /\ Goroutines' /\ WalOrder'
  BY <1>1, <1>6, <1>7, <1>8 DEF Shape, Goroutines, WalOrder
<1>. QED BY <1>9, <1>10

\* A step of the compactor is one of a running process.
LEMMA CompactorRuns ==
    ASSUME Goroutines, compactor.stage # "idle"
    PROVE  phase = "running"
BY DEF Goroutines, Idle

LEMMA CompactWriteStep ==
    ASSUME EngineInv, CompactReserve \/ CompactWrite
    PROVE  EngineInv'
<1>. USE DEF EngineInv
<1>1. compactor \in CompactRecord /\ nextFileID \in Nat
  BY DEF TypeOK
<1>2. UNCHANGED <<memTable, immTable, sstables, wal, nextwal, walFileID, walNotifyCh,
                  allocating, pending, flushers, readers, phase, manifest, wals, errors,
                  contents, damaged>>
  BY DEF CompactReserve, CompactWrite, memVars, walVars, boundVars, ghostVars
<1>3. PICK f \in Nat, t \in Table \cup {Short, Torn} :
         files' = With(files, f, t) \/ files' = [files EXCEPT ![f] = t]
  BY <1>1 DEF CompactReserve, CompactWrite, CompactRecord
<1>4. FilesOK(files)' /\ Bounded(DOMAIN files')
  BY <1>3, DiskOK, FileWrite DEF Shape
<1>5. nextFileID' \in Nat
  BY <1>1 DEF CompactReserve, CompactWrite, AdvancedID
<1>6. compactor.stage # "idle" /\ phase = "running"
  <2>1. compactor.stage # "idle"
    BY DEF CompactReserve, CompactWrite
  <2>. QED BY <2>1, CompactorRuns
<1>7. compactor' \in CompactRecord /\ compactor'.picked = compactor.picked
  <2>1. CASE CompactReserve
    <3>1. compactor' = [compactor EXCEPT !.stage = "blocks", !.file = nextFileID]
      BY <2>1 DEF CompactReserve
    <3>. QED BY <1>1, <3>1 DEF CompactRecord
  <2>2. CASE CompactWrite
    <3>1. \/ compactor' = [compactor EXCEPT !.stage = "footer"]
          \/ compactor' = [compactor EXCEPT !.stage = "install"]
      BY <2>2 DEF CompactWrite
    <3>. QED BY <1>1, <3>1 DEF CompactRecord
  <2>. QED BY <2>1, <2>2
<1>8. compactor'.picked # <<>>
  BY <1>6, <1>7 DEF Shape
<1>9. TypeOK'
  BY <1>2, <1>4, <1>5, <1>7 DEF TypeOK, FilesOK
<1>10. Shape'
  BY <1>2, <1>4, <1>8 DEF Shape
<1>11. Goroutines' /\ WalOrder'
  BY <1>2, <1>6 DEF Goroutines, WalOrder
<1>. QED BY <1>9, <1>10, <1>11

LEMMA AppendRange ==
    ASSUME NEW s \in Seq(Nat), NEW x \in Nat
    PROVE  Range(Append(s, x)) = Range(s) \cup {x}
<1>1. DOMAIN Append(s, x) = 1..(Len(s) + 1) /\ DOMAIN s = 1..Len(s) /\ Len(s) \in Nat
  OBVIOUS
<1>2. \A i \in 1..Len(s) : Append(s, x)[i] = s[i]
  OBVIOUS
<1>3. Append(s, x)[Len(s) + 1] = x
  OBVIOUS
<1>4. 1..(Len(s) + 1) = 1..Len(s) \cup {Len(s) + 1}
  BY <1>1
<1>. QED BY <1>1, <1>2, <1>3, <1>4 DEF Range

\* The list that installCompactedTable leaves.
LEMMA ReplacedParts ==
    ASSUME NEW list \in Seq(Nat), NEW old, NEW new \in Nat
    PROVE  /\ Replaced(list, old, new) \in Seq(Nat)
           /\ new # 0 => Range(Replaced(list, old, new)) = (Range(list) \ Range(old)) \cup {new}
<1>. DEFINE a == Among(list, Range(list) \ Range(old))
<1>1. a \in Seq(Nat) /\ Range(a) = Range(list) \ Range(old)
  <2>1. Range(list) \cap (Range(list) \ Range(old)) = Range(list) \ Range(old)
    OBVIOUS
  <2>. QED BY <2>1, AmongList
<1>2. Replaced(list, old, new) = IF new = 0 THEN a ELSE Append(a, new)
  BY DEF Replaced
<1>. HIDE DEF a
<1>3. Append(a, new) \in Seq(Nat)
  BY <1>1
<1>4. Range(Append(a, new)) = Range(a) \cup {new}
  BY <1>1, AppendRange
<1>. QED BY <1>1, <1>2, <1>3, <1>4

LEMMA CompactInstallStep ==
    ASSUME EngineInv, CompactInstall
    PROVE  EngineInv'
<1>. USE DEF EngineInv
<1>1. compactor \in CompactRecord /\ compactor.file \in Nat
  BY DEF TypeOK, CompactRecord
<1>2. UNCHANGED <<memTable, immTable, nextFileID, wal, nextwal, walFileID, walNotifyCh,
                  allocating, pending, flushers, readers, phase, files, manifest, wals, errors,
                  contents>>
  BY DEF CompactInstall, walVars, diskVars, boundVars
<1>3. sstables' \in Seq(Nat)
  BY <1>1, ReplacedParts DEF CompactInstall, TypeOK
<1>4. compactor.stage # "idle" /\ phase = "running"
  <2>1. compactor.stage # "idle"
    BY DEF CompactInstall
  <2>. QED BY <2>1, CompactorRuns
<1>5. compactor' \in CompactRecord /\ compactor'.picked = compactor.picked
  <2>1. compactor' = [compactor EXCEPT !.stage = "manifest", !.line = sstables']
    BY DEF CompactInstall
  <2>. QED BY <1>1, <1>3, <2>1 DEF CompactRecord
<1>6. damaged' \in BOOLEAN
  BY DEF CompactInstall
<1>7. TypeOK'
  BY <1>2, <1>3, <1>5, <1>6 DEF TypeOK
<1>8. Shape' /\ Goroutines' /\ WalOrder'
  BY <1>2, <1>4, <1>5 DEF Shape, Goroutines, WalOrder
<1>. QED BY <1>7, <1>8

LEMMA CompactEndStep ==
    ASSUME EngineInv, CompactManifest \/ CompactFails
    PROVE  EngineInv'
<1>. USE DEF EngineInv
<1>1. compactor \in CompactRecord /\ compactor.line \in Seq(Nat)
  BY DEF TypeOK, CompactRecord
<1>2. UNCHANGED <<memTable, immTable, sstables, wal, nextwal, walFileID,
                  walNotifyCh, allocating, pending, flushers, readers, phase, files, wals,
                  contents, damaged>> /\ nextFileID' \in Nat
  BY DEF CompactManifest, CompactFails, memVars, walVars, diskVars, ghostVars, AdvancedID, TypeOK
<1>3. manifest' \in Seq(Nat) /\ errors' \in Nat /\ (errors' = 0 => errors = 0)
  <2>1. CASE CompactManifest
    BY <1>1, <2>1, ManifestWrite DEF CompactManifest
  <2>2. CASE CompactFails
    BY <2>2 DEF CompactFails, diskVars, TypeOK, Shape
  <2>. QED BY <2>1, <2>2
<1>4. compactor.stage # "idle" /\ phase = "running"
  <2>1. compactor.stage # "idle"
    BY DEF CompactManifest, CompactFails, CanFail
  <2>. QED BY <2>1, CompactorRuns
<1>5. compactor' \in CompactRecord
      /\ (compactor' = Idle \/ compactor'.picked = compactor.picked)
  <2>1. compactor' = Idle \/ compactor' = [compactor EXCEPT !.stage = "remove"]
    BY DEF CompactManifest, CompactFails
  <2>2. [compactor EXCEPT !.stage = "remove"] \in CompactRecord
        /\ [compactor EXCEPT !.stage = "remove"].picked = compactor.picked
    BY <1>1 DEF CompactRecord
  <2>. QED BY <2>1, <2>2, IdleOK
<1>6. TypeOK'
  BY <1>2, <1>3, <1>5 DEF TypeOK
<1>7. Shape'
  BY <1>2, <1>3, <1>4, <1>5, IdleOK DEF Shape
<1>8. Goroutines' /\ WalOrder'
  BY <1>2, <1>3, <1>4 DEF Goroutines, WalOrder
<1>. QED BY <1>6, <1>7, <1>8

LEMMA CompactRemoveStep ==
    ASSUME EngineInv, CompactRemove
    PROVE  EngineInv'
<1>. USE DEF EngineInv
<1>1. /\ compactor \in CompactRecord /\ compactor.picked \in Seq(Nat)
      /\ compactor.stage # "idle" /\ compactor.picked # <<>>
  BY DEF CompactRemove, TypeOK, CompactRecord, Shape
<1>2. UNCHANGED <<memTable, immTable, sstables, nextFileID, wal, nextwal, walFileID,
                  walNotifyCh, allocating, pending, flushers, readers, phase, manifest, wals,
                  contents, damaged>>
  BY DEF CompactRemove, memVars, walVars, ghostVars
<1>3. phase = "running"
  BY <1>1, CompactorRuns
<1>4. errors' \in Nat /\ (errors' = 0 => errors = 0)
  BY DEF CompactRemove, Shape
<1>5. /\ DOMAIN files' \subseteq DOMAIN files /\ \A f \in DOMAIN files' : files'[f] = files[f]
  <2>1. \/ files' = files
        \/ files' = Restrict(files, DOMAIN files \ {Head(compactor.picked)})
    BY DEF CompactRemove
  <2>2. CASE files' = files
    BY <2>2
  <2>3. CASE files' = Restrict(files, DOMAIN files \ {Head(compactor.picked)})
    BY <2>3, RestrictParts
  <2>. QED BY <2>1, <2>2, <2>3
<1>6. Bounded(DOMAIN files')
  BY <1>5, BoundedSubset DEF Shape
<1>7. compactor' \in CompactRecord /\ (compactor'.stage # "idle" => compactor'.picked # <<>>)
  <2>1. CASE Len(compactor.picked) = 1
    BY <2>1, IdleOK DEF CompactRemove
  <2>2. CASE Len(compactor.picked) # 1
    <3>1. compactor' = [compactor EXCEPT !.picked = Tail(compactor.picked)]
      BY <2>2 DEF CompactRemove
    <3>2. Tail(compactor.picked) \in Seq(Nat) /\ Tail(compactor.picked) # <<>>
      BY <1>1, <2>2, PickedParts
    <3>. QED BY <1>1, <3>1, <3>2 DEF CompactRecord
  <2>. QED BY <2>1, <2>2
<1>8. TypeOK'
  BY <1>2, <1>5, <1>7 DEF TypeOK
<1>9. Shape'
  BY <1>2, <1>4, <1>6, <1>7 DEF Shape
<1>10. Goroutines' /\ WalOrder'
  BY <1>2, <1>3, <1>4 DEF Goroutines, WalOrder
<1>. QED BY <1>8, <1>9, <1>10

LEMMA CrashStep ==
    ASSUME EngineInv, Crash
    PROVE  EngineInv'
<1>. USE DEF EngineInv
<1>1. /\ phase' = "down" /\ memTable' = EmptyTable /\ immTable' = Nil /\ sstables' = <<>>
      /\ nextFileID' = 1 /\ walFileID' = 1 /\ wal' = Nil /\ nextwal' = Nil
      /\ walNotifyCh' = FALSE /\ allocating' = FALSE
      /\ pending' = Nil /\ flushers' = {} /\ compactor' = Idle
      /\ readers' = [r \in Reader |-> NotReading]
  BY DEF Crash
<1>2. UNCHANGED <<files, manifest, wals, errors>>
  BY DEF Crash, diskVars
<1>3. damaged' \in BOOLEAN
  BY DEF Crash
<1>4. contents' \in [Key -> Entries]
  <2>1. CASE pending = Nil
    BY <2>1 DEF Crash, TypeOK
  <2>2. CASE pending # Nil
    <3>1. pending.key \in Key /\ pending.val \in Entries
      BY <2>2 DEF TypeOK
    <3>2. contents' = [contents EXCEPT ![pending.key] = pending.val]
      BY <2>2 DEF Crash
    <3>. QED BY <3>1, <3>2 DEF TypeOK
  <2>. QED BY <2>1, <2>2
<1>5. EmptyTable \in Table /\ Nil \in Entries /\ <<>> \in Seq(Nat)
  BY EmptyIsTable DEF Entries
<1>6. NotReading \in ReadRecord /\ NotReading.done = TRUE
  BY <1>5 DEF NotReading, ReadRecord
<1>7. TypeOK'
  BY <1>1, <1>2, <1>3, <1>4, <1>5, <1>6, IdleOK DEF TypeOK
<1>8. Shape'
  BY <1>1, <1>2, <1>6, IdleOK DEF Shape
<1>9. Goroutines' /\ WalOrder'
  BY <1>1 DEF Goroutines, WalOrder
<1>. QED BY <1>7, <1>8, <1>9

\* NewDB, whatever list, ids and memtable the reads gave.
LEMMA OpenWithStep ==
    ASSUME EngineInv, NEW list \in Seq(Nat), NEW id \in Nat, NEW m \in Table,
           NEW walID \in Nat, OpenWith(list, id, m, walID),
           errors' \in Nat, damaged' \in BOOLEAN
    PROVE  EngineInv'
<1>. USE DEF EngineInv
<1>. DEFINE g == [stage |-> "reserve", table |-> m, oldWal |-> Nil, file |-> 0, line |-> <<>>]
<1>1. phase = "down"
  BY DEF OpenWith
<1>2. UNCHANGED <<memTable, wal, nextwal, walNotifyCh, allocating, pending, compactor,
                  readers, files, manifest, wals, contents>>
  BY DEF OpenWith, diskVars
<1>3. sstables' \in Seq(Nat) /\ nextFileID' \in Nat /\ walFileID' \in Nat
  BY DEF OpenWith
<1>7. wal = Nil /\ flushers = {} /\ nextwal = Nil /\ ~allocating /\ ~walNotifyCh
  BY <1>1 DEF TypeOK, Goroutines
<1>8. CASE immTable' = m /\ flushers' = {g} /\ phase' = "flush"
  <2>1. g \in FlushRecord /\ g.oldWal = Nil
    BY DEF FlushRecord
  <2>. HIDE DEF g
  <2>2. TypeOK'
    BY <1>1, <1>2, <1>3, <1>8, <2>1 DEF TypeOK
  <2>3. Shape'
    BY <1>2 DEF Shape
  <2>4. Goroutines' /\ WalOrder'
    BY <1>1, <1>2, <1>7, <1>8, <2>1 DEF Goroutines, WalOrder
  <2>. QED BY <2>2, <2>3, <2>4
<1>9. CASE phase' = "clean" /\ UNCHANGED <<immTable, flushers>>
  <2>1. TypeOK'
    BY <1>1, <1>2, <1>3, <1>9 DEF TypeOK
  <2>2. Shape' /\ Goroutines' /\ WalOrder'
    BY <1>1, <1>2, <1>7, <1>9 DEF Shape, Goroutines, WalOrder
  <2>. QED BY <2>1, <2>2
<1>. QED BY <1>8, <1>9 DEF OpenWith

\* What a failing read leaves of the tables and the WALs has its type too.
LEMMA OpenStep ==
    ASSUME EngineInv, Open \/ OpenFails
    PROVE  EngineInv'
<1>1. TypeOK /\ Shape
  BY DEF EngineInv
<1>2. NextWALAfterReplay(wals) \in Nat
  BY <1>1, NextWALAbove DEF Shape
<1>3. loadSSTables(files, manifest) \in Seq(Nat) /\ NextIDAfterLoad(files) \in Nat
  BY <1>1, LoadList, NextIDAbove, DiskOK DEF TypeOK, Shape
<1>4. CASE Open
  <2>1. RecoverFromWAL(wals) \in Table
    BY <1>1, ReplayTable, DiskOK DEF Shape
  <2>. QED BY <1>1, <1>2, <1>3, <1>4, <2>1, OpenWithStep DEF Open, TypeOK, Shape
<1>5. CASE OpenFails
  <2>1. errors' \in Nat /\ damaged' \in BOOLEAN
    BY <1>1, <1>5 DEF OpenFails, Shape, TypeOK
  <2>2. ASSUME NEW load \in LoadFailures(files) PROVE load.list \in Seq(Nat) /\ load.id \in Nat
    <3>1. Reached(files) \subseteq Nat
      BY <1>1 DEF Reached, Complete, TypeOK
    <3>2. PICK n \in {1} \cup {f + 1 : f \in Reached(files)} : load = [list |-> <<>>, id |-> n]
      BY DEF LoadFailures
    <3>3. n \in Nat
      BY <3>1, <3>2
    <3>. QED BY <3>2, <3>3
  <2>3. PICK load \in {[list |-> loadSSTables(files, manifest), id |-> NextIDAfterLoad(files)]}
                     \cup LoadFailures(files),
             m \in ReplayFailures(wals) :
           \/ OpenWith(load.list, load.id, m, NextWALAfterReplay(wals))
           \/ OpenWith(load.list, load.id, m, 1)
    BY <1>5, Zenon DEF OpenFails
  <2>4. load.list \in Seq(Nat) /\ load.id \in Nat
    <3>1. CASE load \in LoadFailures(files)
      BY <2>2, <3>1
    <3>2. CASE load = [list |-> loadSSTables(files, manifest), id |-> NextIDAfterLoad(files)]
      BY <1>3, <3>2
    <3>. QED BY <3>1, <3>2
  <2>5. m \in Table
    BY DEF ReplayFailures
  <2>. QED BY <1>2, <2>1, <2>3, <2>4, <2>5, OpenWithStep
<1>. QED BY <1>4, <1>5

LEMMA CleanStep ==
    ASSUME EngineInv, RemoveOldWAL \/ Serve
    PROVE  EngineInv'
<1>. USE DEF EngineInv
<1>1. phase = "clean" /\ flushers = {} /\ wal = Nil /\ nextwal = Nil /\ ~walNotifyCh /\ ~allocating
  <2>1. phase = "clean"
    BY DEF RemoveOldWAL, Serve
  <2>. QED BY <2>1 DEF TypeOK, Goroutines
<1>2. UNCHANGED <<memTable, immTable, sstables, nextFileID, nextwal, allocating, pending,
                  flushers, compactor, readers, files, manifest, errors, contents, damaged>>
  BY DEF RemoveOldWAL, Serve, memVars, walVars, boundVars, ghostVars
<1>3. CASE RemoveOldWAL
  <2>1. phase' = phase /\ UNCHANGED <<wal, walFileID, walNotifyCh>>
    BY <1>3 DEF RemoveOldWAL, walVars
  <2>2. PICK w : wals' = Restrict(wals, DOMAIN wals \ {w})
    BY <1>3 DEF RemoveOldWAL
  <2>3. DOMAIN wals' \subseteq DOMAIN wals /\ \A x \in DOMAIN wals' : wals'[x] = wals[x]
    BY <2>2, RestrictParts
  <2>4. Bounded(DOMAIN wals')
    BY <2>3, BoundedSubset DEF Shape
  <2>5. TypeOK'
    BY <1>1, <1>2, <2>1, <2>3 DEF TypeOK
  <2>6. Shape' /\ Goroutines' /\ WalOrder'
    BY <1>1, <1>2, <2>1, <2>4 DEF Shape, Goroutines, WalOrder
  <2>. QED BY <2>5, <2>6
<1>4. CASE Serve
  <2>1. /\ wals' = Single(walFileID, EmptyTable) /\ wal' = walFileID
        /\ walFileID' = walFileID + 1 /\ walNotifyCh' = TRUE /\ phase' = "running"
    BY <1>4 DEF Serve
  <2>2. walFileID \in Nat
    BY DEF TypeOK
  <2>3. DOMAIN wals' = {walFileID} /\ wals'[walFileID] = EmptyTable
    BY <2>1 DEF Single
  <2>4. Bounded(DOMAIN wals')
    BY <2>2, <2>3 DEF Bounded
  <2>5. walFileID' \in Nat /\ wal' < walFileID'
    BY <2>1, <2>2
  <2>6. TypeOK'
    BY <1>2, <2>1, <2>2, <2>3, <2>5, EmptyIsTable DEF TypeOK
  <2>7. Shape' /\ Goroutines' /\ WalOrder'
    BY <1>1, <1>2, <2>1, <2>3, <2>4, <2>5 DEF Shape, Goroutines, WalOrder
  <2>. QED BY <2>6, <2>7
<1>. QED BY <1>3, <1>4

LEMMA EngineStep == EngineInv /\ [Next]_vars => EngineInv'
<1>. SUFFICES ASSUME EngineInv, [Next]_vars PROVE EngineInv'
  OBVIOUS
<1>1. CASE UNCHANGED vars
  BY <1>1 DEF vars, memVars, walVars, diskVars, boundVars, ghostVars, EngineInv, TypeOK,
              Shape, Goroutines, WalOrder
<1>2. ASSUME NEW k \in Key, NEW v \in Entries, AppendWAL(k, v) \/ AppendFails(k, v)
      PROVE  EngineInv'
  BY <1>2, AppendStep
<1>3. ASSUME NEW g \in flushers, FlushStep(g) \/ FlushFails(g) PROVE EngineInv'
  BY <1>3, FlushWriteStep, FlushInstallStep, FlushManifestStep, FlushDeleteWALStep,
     FlushFailsStep DEF FlushStep
<1>4. CASE CompactStep
  BY <1>4, CompactMergeStep, CompactWriteStep, CompactInstallStep, CompactEndStep,
     CompactRemoveStep DEF CompactStep
<1>5. CASE NewDB
  BY <1>5, OpenStep, CleanStep DEF NewDB
<1>. QED BY <1>1, <1>2, <1>3, <1>4, <1>5, WriteMemTableStep, PreAllocateStep,
            InstallNextWALStep, GetSnapshotStep, GetFromTableStep, CompactMergeStep,
            CompactEndStep, OpenStep, CrashStep
         DEF Next

LEMMA EngineInvariant == Spec => []EngineInv
BY EngineInit, EngineStep, PTL DEF Spec

\* The fields of DB, the local state of the goroutines and the files keep their
\* shape through every interleaving, error, crash and restart, and a running
\* engine always has an active WAL on disk.
THEOREM TypeCorrect == Spec => []TypeOK
<1>1. EngineInv => TypeOK
  BY DEF EngineInv
<1>. QED BY <1>1, EngineInvariant, PTL

\* The supply of WAL files cannot dry up without a failing file operation: of the
\* pre-allocated file, the token and the file under way there is exactly one.
THEOREM WalSupplyKept == Spec => []WalSupply
<1>1. EngineInv => WalSupply
  <2>. SUFFICES ASSUME EngineInv, phase = "running", errors = 0
                PROVE  Cardinality({i \in 1..3 :
                                      <<nextwal # Nil, walNotifyCh, allocating>>[i]}) = 1
    BY DEF WalSupply
  <2>. DEFINE three == <<nextwal # Nil, walNotifyCh, allocating>>
              S == {i \in 1..3 : three[i]}
  <2>1. (walNotifyCh => nextwal = Nil) /\ (allocating => nextwal = Nil /\ ~walNotifyCh)
        /\ (nextwal # Nil \/ walNotifyCh \/ allocating)
    BY DEF EngineInv, WalOrder
  <2>2. \A i \in 1..3 : i = 1 \/ i = 2 \/ i = 3
    OBVIOUS
  <2>3. three[1] = (nextwal # Nil) /\ three[2] = walNotifyCh /\ three[3] = allocating
    OBVIOUS
  <2>4. 1 \in 1..3 /\ 2 \in 1..3 /\ 3 \in 1..3
    OBVIOUS
  <2>. HIDE DEF three
  <2>5. S = {1} \/ S = {2} \/ S = {3}
    BY <2>1, <2>2, <2>3, <2>4, Zenon
  <2>6. \A x : Cardinality({x}) = 1
    BY FS_Singleton
  <2>. QED BY <2>5, <2>6 DEF three
<1>. QED BY <1>1, EngineInvariant, PTL

-----------------------------------------------------------------------------
(* Which files are complete, and who may write or remove which.              *)

\* From os.Create to the installation of the table.
Writing(g) == g.stage \in {"blocks", "footer", "install"}

\* The file is the writer's own: nobody lists it, and it is complete when the
\* writer has come to the installation.
Owned(g) ==
    /\ g.file < nextFileID /\ g.file \in DOMAIN files /\ g.file # 0
    /\ g.file \notin Range(sstables) /\ g.file \notin Range(compactor.picked)
    /\ g.file \in Complete(files) <=> g.stage = "install"

\* An id that is handed out names no complete file.
FreshIDs ==
    /\ phase # "down" => nextFileID # 0 /\ \A f \in Complete(files) : f < nextFileID
    /\ phase = "down" => TornFiles(files) = {}

Writers ==
    /\ \A g \in flushers : Writing(g) => Owned(g)
    /\ Writing(compactor) => Owned(compactor)
    /\ \A g, h \in flushers : Writing(g) /\ Writing(h) /\ g.file = h.file => g = h
    /\ \A g \in flushers : Writing(g) /\ Writing(compactor) => g.file # compactor.file

\* The tables of a compaction are in the list until its result replaces them.
Picked ==
    /\ \A x \in Range(compactor.picked) : x < nextFileID
    /\ compactor.stage \in {"reserve", "blocks", "footer", "install"} =>
           Range(compactor.picked) \subseteq Range(sstables)
    /\ compactor.stage \in {"manifest", "remove"} =>
           Range(compactor.picked) \cap Range(sstables) = {}

AllListed == Range(sstables) \subseteq Complete(files)

FileInv == ~damaged => FreshIDs /\ Writers /\ Picked /\ AllListed

\* What a write or a removal does to the complete files.
LEMMA CreatedFile ==
    ASSUME NEW fs, NEW f, f \notin Complete(fs), NEW gs, gs = With(fs, f, Short)
    PROVE  /\ DOMAIN gs = DOMAIN fs \cup {f} /\ Complete(gs) = Complete(fs)
           /\ \A x \in Complete(fs) : gs[x] = fs[x]
<1>1. DOMAIN gs = DOMAIN fs \cup {f} /\ gs[f] = Short
  BY DEF With, Over, Single
<1>2. \A x \in DOMAIN fs \ {f} : gs[x] = fs[x]
  BY DEF With, Over, Single
<1>3. \A x \in Complete(fs) : gs[x] = fs[x]
  BY <1>2 DEF Complete
<1>4. ASSUME NEW x PROVE x \in Complete(gs) <=> x \in Complete(fs)
  <2>1. CASE x = f
    BY <1>1, <2>1 DEF Complete
  <2>2. CASE x # f
    BY <1>1, <1>2, <2>2 DEF Complete
  <2>. QED BY <2>1, <2>2
<1>. QED BY <1>1, <1>3, <1>4

LEMMA BegunFile ==
    ASSUME NEW fs, NEW f, f \notin Complete(fs), NEW gs, gs = [fs EXCEPT ![f] = Torn]
    PROVE  /\ DOMAIN gs = DOMAIN fs /\ Complete(gs) = Complete(fs)
           /\ \A x \in Complete(fs) : gs[x] = fs[x]
<1>1. DOMAIN gs = DOMAIN fs /\ \A x \in DOMAIN fs : gs[x] = IF x = f THEN Torn ELSE fs[x]
  OBVIOUS
<1>. QED BY <1>1 DEF Complete

LEMMA CompletedFile ==
    ASSUME NEW fs, NEW f \in DOMAIN fs, f \notin Complete(fs), NEW t \in Table,
           NEW gs, gs = [fs EXCEPT ![f] = t]
    PROVE  /\ DOMAIN gs = DOMAIN fs /\ Complete(gs) = Complete(fs) \cup {f}
           /\ gs[f] = t /\ \A x \in Complete(fs) : gs[x] = fs[x]
<1>1. DOMAIN gs = DOMAIN fs /\ \A x \in DOMAIN fs : gs[x] = IF x = f THEN t ELSE fs[x]
  OBVIOUS
<1>. QED BY <1>1, FileAssumption DEF Complete

LEMMA RemovedFile ==
    ASSUME NEW fs, NEW f, NEW gs, gs = Restrict(fs, DOMAIN fs \ {f})
    PROVE  /\ DOMAIN gs = DOMAIN fs \ {f} /\ Complete(gs) = Complete(fs) \ {f}
           /\ \A x \in Complete(fs) \ {f} : gs[x] = fs[x]
<1>1. DOMAIN gs = DOMAIN fs \ {f} /\ \A x \in DOMAIN fs \ {f} : gs[x] = fs[x]
  BY RestrictParts
<1>. QED BY <1>1 DEF Complete

LEMMA FileInit == Init => FileInv
<1>. SUFFICES ASSUME Init PROVE FileInv
  OBVIOUS
<1>1. DOMAIN files = {} /\ sstables = <<>> /\ flushers = {} /\ compactor = Idle
      /\ phase = "down" /\ DOMAIN << >> = {}
  BY DEF Init
<1>2. Range(sstables) = {} /\ Complete(files) = {} /\ TornFiles(files) = {}
  BY <1>1 DEF Range, Complete, TornFiles
<1>3. Range(compactor.picked) = {}
  BY <1>1 DEF Range, Idle
<1>. QED BY <1>1, <1>2, <1>3, IdleOK DEF FileInv, FreshIDs, Writers, Picked, AllListed, Writing

\* What a merge and NewDB do when nothing is lost: a read may have failed, but what
\* it left is what the reads would have given.
Merged ==
    /\ MayCompact /\ Range(pickCompactionFiles) \subseteq Complete(files)
    /\ compactor' = [Idle EXCEPT !.stage = "reserve", !.picked = pickCompactionFiles,
                                 !.table = doMerge(pickCompactionFiles, files)]
    /\ UNCHANGED <<memVars, nextFileID, walVars, pending, flushers, readers, phase,
                   diskVars, writes, crashes, ghostVars>>

Opened ==
    \E walID \in Nat :
        /\ OpenWith(loadSSTables(files, manifest), NextIDAfterLoad(files),
                    RecoverFromWAL(wals), walID)
        /\ UNCHANGED damaged

\* A merge that could not open a table changes nothing but the count of errors.
Untouched ==
    UNCHANGED <<memVars, nextFileID, walVars, pending, flushers, compactor, readers, phase,
                diskVars, writes, crashes, ghostVars>>

LEMMA MergeOutcome ==
    ASSUME EngineInv, CompactMerge \/ MergeFails, ~damaged'
    PROVE  Merged \/ Untouched
<1>1. CASE CompactMerge
  BY <1>1 DEF CompactMerge, Merged, boundVars
<1>2. CASE MergeFails
  <2>1. CASE UNCHANGED <<compactor, damaged>>
    BY <1>2, <2>1 DEF MergeFails, Untouched, ghostVars
  <2>2. CASE ~UNCHANGED <<compactor, damaged>>
    <3>1. PICK m :
            /\ compactor' = [Idle EXCEPT !.stage = IF m = EmptyTable THEN "install" ELSE "reserve",
                                         !.picked = pickCompactionFiles, !.table = m]
            /\ damaged' = (\/ damaged \/ m = EmptyTable
                           \/ m # doMerge(pickCompactionFiles, files))
      BY <1>2, <2>2, Zenon DEF MergeFails
    <3>2. m # EmptyTable /\ m = doMerge(pickCompactionFiles, files) /\ ~damaged
      BY <3>1, Zenon
    <3>3. compactor' = [Idle EXCEPT !.stage = "reserve", !.picked = pickCompactionFiles,
                                    !.table = doMerge(pickCompactionFiles, files)]
      BY <3>1, <3>2
    <3>4. damaged' \in BOOLEAN /\ damaged \in BOOLEAN
      BY <3>1, Zenon DEF EngineInv, TypeOK
    <3>5. UNCHANGED damaged
      BY <3>2, <3>4
    <3>. QED BY <1>2, <3>3, <3>5, Zenon DEF MergeFails, Merged, ghostVars
  <2>. QED BY <2>1, <2>2
<1>. QED BY <1>1, <1>2

LEMMA OpenOutcome ==
    ASSUME EngineInv, Open \/ OpenFails, ~damaged'
    PROVE  Opened
<1>1. NextWALAfterReplay(wals) \in Nat
  BY NextWALAbove DEF EngineInv, Shape
<1>2. CASE Open
  BY <1>1, <1>2, Zenon DEF Open, Opened
<1>3. CASE OpenFails
  <2>1. PICK loaded : loaded = [list |-> loadSSTables(files, manifest),
                                id |-> NextIDAfterLoad(files)]
    OBVIOUS
  <2>2. PICK load, m :
          /\ \/ OpenWith(load.list, load.id, m, NextWALAfterReplay(wals))
             \/ OpenWith(load.list, load.id, m, 1)
          /\ damaged' = (damaged \/ <<load, m>> # <<loaded, RecoverFromWAL(wals)>>)
    BY <1>3, <2>1, Zenon DEF OpenFails
  <2>3. ~damaged /\ <<load, m>> = <<loaded, RecoverFromWAL(wals)>>
    BY <2>2, Zenon
  <2>4. load = loaded /\ m = RecoverFromWAL(wals)
    BY <2>3
  <2>5. load.list = loadSSTables(files, manifest) /\ load.id = NextIDAfterLoad(files)
    BY <2>1, <2>4
  <2>6. damaged' \in BOOLEAN /\ damaged \in BOOLEAN
    BY <2>2, Zenon DEF EngineInv, TypeOK
  <2>7. UNCHANGED damaged
    BY <2>3, <2>6
  <2>. QED BY <1>1, <2>2, <2>4, <2>5, <2>7 DEF Opened
<1>. QED BY <1>2, <1>3

\* The history variable never goes back.
LEMMA DamageStays == TypeOK /\ [Next]_vars /\ ~damaged' => ~damaged
<1>. SUFFICES ASSUME [Next]_vars, ~damaged' PROVE ~damaged
  OBVIOUS
<1>1. CASE MergeFails \/ OpenFails
  BY <1>1, Zenon DEF MergeFails, OpenFails
<1>2. CASE ~MergeFails /\ ~OpenFails
  BY <1>2 DEF Next, AppendWAL, AppendFails, WriteMemTable, PreAllocate, InstallNextWAL,
       FlushStep, FlushReserve, FlushBlocks, FlushFooter, FlushInstall, FlushManifest,
       FlushDeleteWAL, FlushFails, GetSnapshot, GetFromTable, CompactStep, CompactMerge,
       CompactReserve, CompactWrite, CompactInstall, CompactManifest, CompactRemove,
       CompactFails, NewDB, Open, RemoveOldWAL, Serve, Crash, vars, ghostVars
<1>. QED BY <1>1, <1>2

\* Ids are used up, also by a writer that could not create its file.
NextIDKept == nextFileID' = nextFileID \/ nextFileID' = nextFileID + 1

LEMMA StillBelow ==
    ASSUME TypeOK, NextIDKept, NEW f \in Nat, f < nextFileID
    PROVE  f < nextFileID'
BY DEF NextIDKept, TypeOK

\* Steps that touch no .sst file and no list, and leave the writers alone or start one.
LEMMA FilesAlone ==
    ASSUME FileInv, ~damaged,
           UNCHANGED <<files, sstables, nextFileID, compactor>>,
           \A g \in flushers' : Writing(g) => g \in flushers,
           phase' = phase \/ (phase # "down" /\ phase' # "down")
    PROVE  FileInv'
<1>1. FreshIDs /\ Writers /\ Picked /\ AllListed
  BY DEF FileInv
<1>2. FreshIDs' /\ Picked' /\ AllListed'
  BY <1>1 DEF FreshIDs, Picked, AllListed
<1>3. Writers'
  BY <1>1 DEF Writers, Owned, Writing
<1>. QED BY <1>2, <1>3 DEF FileInv

\* A writer that failed is gone, and at most its id is used up.
LEMMA FilesLeft ==
    ASSUME EngineInv, FileInv, ~damaged, phase # "down", phase' # "down", NextIDKept,
           UNCHANGED <<files, sstables>>,
           \A g \in flushers' : Writing(g) => g \in flushers,
           compactor' = compactor \/ compactor' = Idle
    PROVE  FileInv'
<1>1. FreshIDs /\ Writers /\ Picked /\ AllListed /\ TypeOK
  BY DEF FileInv, EngineInv
<1>2. compactor \in CompactRecord /\ compactor.picked \in Seq(Nat) /\ nextFileID \in Nat
  BY <1>1 DEF TypeOK, CompactRecord
<1>3. Range(Idle.picked) = {} /\ Idle.stage = "idle"
  BY DEF Range, Idle
<1>4. Complete(files) \subseteq Nat /\ Range(compactor.picked) \subseteq Nat
  BY <1>1, <1>2 DEF Complete, TypeOK, Range
<1>5. \A f \in Nat : f < nextFileID => f < nextFileID'
  BY <1>1, StillBelow
<1>6. nextFileID # 0 => nextFileID' # 0
  BY <1>2 DEF NextIDKept
<1>7. FreshIDs' /\ AllListed'
  BY <1>1, <1>4, <1>5, <1>6 DEF FreshIDs, AllListed
<1>8. Picked'
  <2>1. CASE compactor' = Idle
    BY <1>3, <2>1 DEF Picked
  <2>2. CASE compactor' = compactor
    BY <1>1, <1>4, <1>5, <2>2 DEF Picked
  <2>. QED BY <2>1, <2>2
<1>9. ASSUME NEW x, Owned(x) PROVE Owned(x)'
  <2>1. x.file \in Nat
    BY <1>1, <1>9 DEF Owned, TypeOK
  <2>2. x.file < nextFileID'
    BY <1>5, <1>9, <2>1 DEF Owned
  <2>3. x.file \notin Range(compactor'.picked)
    BY <1>3, <1>9 DEF Owned
  <2>. QED BY <1>9, <2>2, <2>3 DEF Owned
<1>10. ~Writing(Idle)
  BY <1>3 DEF Writing
<1>11. Writers'
  <2>1. \A g \in flushers' : Writing(g) => Owned(g)'
    BY <1>1, <1>9 DEF Writers
  <2>2. Writing(compactor') => Owned(compactor)' /\ compactor' = compactor
    BY <1>1, <1>9, <1>10 DEF Writers
  <2>3. Writing(compactor)' => Owned(compactor)'
    BY <2>2 DEF Writing
  <2>4. \A g, h \in flushers' : Writing(g) /\ Writing(h) /\ g.file = h.file => g = h
    BY <1>1 DEF Writers
  <2>5. \A g \in flushers' : Writing(g) /\ Writing(compactor') => g.file # compactor'.file
    BY <1>1, <2>2 DEF Writers
  <2>. QED BY <2>1, <2>3, <2>4, <2>5 DEF Writers, Writing
<1>. QED BY <1>7, <1>8, <1>11 DEF FileInv

LEMMA FlusherUp ==
    ASSUME Goroutines, NEW g \in flushers
    PROVE  phase # "down" /\ phase # "clean"
BY DEF Goroutines

LEMMA FlushReserveFiles ==
    ASSUME EngineInv, FileInv, ~damaged, NEW g \in flushers, FlushReserve(g)
    PROVE  FileInv'
<1>0. PICK f, h, c : /\ f = nextFileID /\ c = compactor
                     /\ h = [g EXCEPT !.stage = "blocks", !.file = nextFileID]
  OBVIOUS
<1>1. FreshIDs /\ Writers /\ Picked /\ AllListed /\ phase # "down" /\ TypeOK
  BY FlusherUp DEF FileInv, EngineInv
<1>2. /\ files' = With(files, f, Short) /\ nextFileID' = f + 1
      /\ flushers' = (flushers \ {g}) \cup {h}
      /\ UNCHANGED <<sstables, compactor, phase, damaged>>
  BY <1>0 DEF FlushReserve, AdvancedID, Advance, memVars, ghostVars
<1>3. f \in Nat /\ g \in FlushRecord /\ h.stage = "blocks" /\ h.file = f
  BY <1>0, <1>1 DEF TypeOK, FlushRecord
<1>4. f \notin Complete(files)
  BY <1>0, <1>1, <1>3 DEF FreshIDs
<1>5. DOMAIN files' = DOMAIN files \cup {f} /\ Complete(files') = Complete(files)
  BY <1>2, <1>4, CreatedFile
<1>6. \A x \in DOMAIN files : x \in Nat
  BY <1>1 DEF TypeOK
<1>7. FreshIDs' /\ AllListed'
  <2>1. \A x \in Complete(files) : x \in Nat /\ x < f
    BY <1>0, <1>1, <1>6 DEF FreshIDs, Complete
  <2>2. f + 1 # 0 /\ \A x \in Complete(files) : x < f + 1
    BY <1>3, <2>1
  <2>. QED BY <1>1, <1>2, <1>5, <2>2 DEF FreshIDs, AllListed
<1>8. Picked'
  <2>1. \A x \in Range(compactor.picked) : x \in Nat /\ x < f
    BY <1>0, <1>1, SMTT(30) DEF Picked, TypeOK, CompactRecord, Range
  <2>2. \A x \in Range(compactor.picked) : x < f + 1
    BY <1>3, <2>1
  <2>. QED BY <1>1, <1>2, <2>2 DEF Picked
<1>9. ASSUME NEW x, Owned(x), x.file \in Nat PROVE Owned(x)' /\ x.file # f
  <2>1. x.file < f /\ x.file \in DOMAIN files
    BY <1>0, <1>9 DEF Owned
  <2>2. x.file < f + 1 /\ x.file # f
    BY <1>3, <1>9, <2>1
  <2>. QED BY <1>2, <1>5, <1>9, <2>1, <2>2 DEF Owned
<1>10. Owned(h)'
  <2>1. f < f + 1 /\ f \in DOMAIN files' /\ f # 0
    BY <1>0, <1>1, <1>3, <1>5 DEF FreshIDs
  <2>2. f \notin Range(sstables)
    BY <1>1, <1>4 DEF AllListed
  <2>3. f \notin Range(compactor.picked)
    BY <1>0, <1>1, <1>3 DEF Picked
  <2>. QED BY <1>2, <1>3, <1>4, <1>5, <2>1, <2>2, <2>3 DEF Owned
<1>11. \A x \in flushers : x.file \in Nat
  BY <1>1 DEF TypeOK, FlushRecord
<1>12. c.file \in Nat
  BY <1>0, <1>1 DEF TypeOK, CompactRecord
<1>13. Writers'
  <2>1. \A x \in flushers : Writing(x) => Owned(x)' /\ x.file # f
    BY <1>1, <1>9, <1>11 DEF Writers
  <2>2. Writing(c) => Owned(c)' /\ c.file # f
    BY <1>0, <1>1, <1>9, <1>12 DEF Writers
  <2>3. Writing(h)
    BY <1>3 DEF Writing
  <2>4. \A x \in flushers' : Writing(x) => Owned(x)'
    BY <1>2, <1>10, <2>1
  <2>5. compactor' = c
    BY <1>0, <1>2
  <2>6. \A x, y \in flushers' : Writing(x) /\ Writing(y) /\ x.file = y.file => x = y
    BY <1>1, <1>2, <1>3, <2>1 DEF Writers
  <2>7. \A x \in flushers' : Writing(x) /\ Writing(c) => x.file # c.file
    BY <1>0, <1>1, <1>2, <1>3, <2>2 DEF Writers
  <2>. QED BY <2>2, <2>4, <2>5, <2>6, <2>7 DEF Writers, Owned, Writing
<1>. QED BY <1>7, <1>8, <1>13 DEF FileInv

\* A writer that goes on from stage to stage keeps its file.
LEMMA FlushBlocksFiles ==
    ASSUME EngineInv, FileInv, ~damaged, NEW g \in flushers, FlushBlocks(g) \/ FlushFooter(g)
    PROVE  FileInv'
<1>. DEFINE f == g.file
            next == IF g.stage = "blocks" THEN "footer" ELSE "install"
            h == [g EXCEPT !.stage = next]
<1>1. FreshIDs /\ Writers /\ Picked /\ AllListed /\ phase # "down" /\ TypeOK
  BY FlusherUp DEF FileInv, EngineInv
<1>2. g.stage \in {"blocks", "footer"} /\ g \in FlushRecord /\ g.table \in Table
  BY <1>1 DEF FlushBlocks, FlushFooter, TypeOK, FlushRecord
<1>3. /\ flushers' = (flushers \ {g}) \cup {h}
      /\ files' = [files EXCEPT ![f] = IF g.stage = "blocks" THEN Torn ELSE g.table]
      /\ UNCHANGED <<sstables, compactor, phase, nextFileID, damaged>>
  BY DEF FlushBlocks, FlushFooter, Advance, memVars, ghostVars
<1>4. h.file = f /\ h.stage = next
  BY <1>2 DEF FlushRecord
<1>5. Owned(g) /\ f \notin Complete(files) /\ f \in DOMAIN files /\ Writing(g)
  BY <1>1, <1>2 DEF Writers, Writing, Owned
<1>6. /\ DOMAIN files' = DOMAIN files
      /\ Complete(files') = Complete(files) \cup IF g.stage = "blocks" THEN {} ELSE {f}
  <2>1. CASE g.stage = "blocks"
    <3>1. files' = [files EXCEPT ![f] = Torn]
      BY <1>3, <2>1
    <3>2. DOMAIN files' = DOMAIN files /\ Complete(files') = Complete(files)
      BY <1>5, <3>1, BegunFile
    <3>. QED BY <2>1, <3>2
  <2>2. CASE g.stage # "blocks"
    <3>1. files' = [files EXCEPT ![f] = g.table]
      BY <1>3, <2>2
    <3>2. DOMAIN files' = DOMAIN files /\ Complete(files') = Complete(files) \cup {f}
      <4>1. g.table \in Table /\ f \in DOMAIN files /\ f \notin Complete(files)
        BY <1>2, <1>5
      <4>2. PICK fs, gs, x, t : fs = files /\ gs = files' /\ x = f /\ t = g.table
        OBVIOUS
      <4>3. x \in DOMAIN fs /\ x \notin Complete(fs) /\ t \in Table /\ gs = [fs EXCEPT ![x] = t]
        BY <3>1, <4>1, <4>2
      <4>4. DOMAIN gs = DOMAIN fs /\ Complete(gs) = Complete(fs) \cup {x}
        BY <4>3, CompletedFile
      <4>. QED BY <4>2, <4>4
    <3>. QED BY <2>2, <3>2
  <2>. QED BY <2>1, <2>2
<1>. HIDE DEF h
<1>7. FreshIDs' /\ AllListed' /\ Picked'
  BY <1>1, <1>3, <1>5, <1>6 DEF FreshIDs, AllListed, Picked, Owned
<1>8. ASSUME NEW x, Owned(x), x.file # f PROVE Owned(x)'
  BY <1>3, <1>6, <1>8 DEF Owned
<1>9. Owned(h)'
  BY <1>2, <1>3, <1>4, <1>5, <1>6 DEF Owned
<1>10. ASSUME NEW x \in flushers, x # g, Writing(x) PROVE Owned(x)' /\ x.file # f
  BY <1>1, <1>5, <1>8, <1>10 DEF Writers
<1>11. PICK c : c = compactor
  OBVIOUS
<1>13. Writing(c) => Owned(c)' /\ c.file # f
  BY <1>1, <1>5, <1>8, <1>11 DEF Writers
<1>12. Writers'
  <2>1. \A x \in flushers' : Writing(x) => Owned(x)'
    BY <1>3, <1>9, <1>10
  <2>2. Writing(compactor)' => Owned(compactor)'
    BY <1>3, <1>11, <1>13 DEF Owned, Writing
  <2>3. \A x, y \in flushers' : Writing(x) /\ Writing(y) /\ x.file = y.file => x = y
    BY <1>1, <1>3, <1>4, <1>10 DEF Writers
  <2>4. \A x \in flushers' : Writing(x) /\ Writing(compactor)' => x.file # compactor.file'
    BY <1>1, <1>3, <1>4, <1>11, <1>13 DEF Writers, Writing
  <2>. QED BY <2>1, <2>2, <2>3, <2>4 DEF Writers, Owned, Writing
<1>. QED BY <1>7, <1>12 DEF FileInv

LEMMA FlushInstallFiles ==
    ASSUME EngineInv, FileInv, ~damaged, NEW g \in flushers, FlushInstall(g)
    PROVE  FileInv'
<1>. DEFINE f == g.file
            h == [g EXCEPT !.stage = "manifest", !.line = sstables']
<1>1. FreshIDs /\ Writers /\ Picked /\ AllListed /\ phase # "down" /\ TypeOK
  BY FlusherUp DEF FileInv, EngineInv
<1>2. g.stage = "install" /\ g \in FlushRecord /\ f \in Nat /\ sstables \in Seq(Nat)
  BY <1>1 DEF FlushInstall, TypeOK, FlushRecord
<1>3. /\ flushers' = (flushers \ {g}) \cup {h} /\ sstables' = Append(sstables, f)
      /\ UNCHANGED <<files, compactor, phase, nextFileID, damaged>>
  BY DEF FlushInstall, Advance, Appended, diskVars, ghostVars
<1>4. h.stage = "manifest"
  BY <1>2 DEF FlushRecord
<1>5. ~Writing(h)
  BY <1>4 DEF Writing
<1>. HIDE DEF h
<1>6. Writing(g) /\ Owned(g) /\ f \in Complete(files)
  BY <1>1, <1>2 DEF Writers, Writing, Owned
<1>7. Range(sstables') = Range(sstables) \cup {f}
  BY <1>2, <1>3, AppendRange
<1>8. f \notin Range(compactor.picked)
  BY <1>6 DEF Owned
<1>9. FreshIDs' /\ AllListed'
  BY <1>1, <1>3, <1>6, <1>7 DEF FreshIDs, AllListed
<1>10. Picked'
  <2>1. compactor' = compactor /\ nextFileID' = nextFileID
    BY <1>3
  <2>. QED BY <1>1, <1>7, <1>8, <2>1 DEF Picked
<1>11. ASSUME NEW x, Owned(x), x.file # f PROVE Owned(x)'
  BY <1>3, <1>7, <1>11 DEF Owned
<1>12. ASSUME NEW x \in flushers, x # g, Writing(x) PROVE Owned(x)'
  BY <1>1, <1>6, <1>11, <1>12 DEF Writers
<1>15. PICK c : c = compactor
  OBVIOUS
<1>13. Writing(c) => Owned(c)'
  BY <1>1, <1>6, <1>11, <1>15 DEF Writers
<1>14. Writers'
  <2>1. \A x \in flushers' : Writing(x) => Owned(x)'
    BY <1>3, <1>5, <1>12
  <2>2. Writing(compactor)' => Owned(compactor)'
    BY <1>3, <1>13, <1>15 DEF Owned, Writing
  <2>3. \A x, y \in flushers' : Writing(x) /\ Writing(y) /\ x.file = y.file => x = y
    BY <1>1, <1>3, <1>5 DEF Writers
  <2>4. \A x \in flushers' : Writing(x) /\ Writing(compactor)' => x.file # compactor.file'
    BY <1>1, <1>3, <1>5 DEF Writers, Writing
  <2>. QED BY <2>1, <2>2, <2>3, <2>4 DEF Writers, Owned, Writing
<1>. QED BY <1>9, <1>10, <1>14 DEF FileInv

LEMMA FlushEndFiles ==
    ASSUME EngineInv, FileInv, ~damaged, NEW g \in flushers,
           FlushManifest(g) \/ FlushDeleteWAL(g) \/ FlushFails(g)
    PROVE  FileInv'
<1>1. UNCHANGED <<files, sstables, compactor>> /\ NextIDKept
  BY DEF FlushManifest, FlushDeleteWAL, FlushFails, memVars, diskVars, NextIDKept, AdvancedID
<1>2. g \in FlushRecord /\ phase # "down"
  BY FlusherUp DEF EngineInv, TypeOK
<1>3. phase' # "down"
  BY <1>2 DEF FlushManifest, FlushDeleteWAL, FlushFails
<1>4. \/ flushers' = flushers \ {g}
      \/ flushers' = (flushers \ {g}) \cup {[g EXCEPT !.stage = "delete"]}
  BY DEF FlushManifest, FlushDeleteWAL, FlushFails, Advance
<1>5. ~Writing([g EXCEPT !.stage = "delete"])
  BY <1>2 DEF FlushRecord, Writing
<1>6. \A x \in flushers' : Writing(x) => x \in flushers
  BY <1>4, <1>5
<1>. QED BY <1>1, <1>2, <1>3, <1>6, FilesLeft

LEMMA CompactMergeFiles ==
    ASSUME EngineInv, FileInv, ~damaged, Merged
    PROVE  FileInv'
<1>1. FreshIDs /\ Writers /\ Picked /\ AllListed /\ TypeOK
  BY DEF FileInv, EngineInv
<1>2. PICK p : p = pickCompactionFiles
  OBVIOUS
<1>3. /\ phase = "running" /\ Len(sstables) >= CompactionThreshold /\ sstables \in Seq(Nat)
      /\ UNCHANGED <<files, sstables, nextFileID, flushers, phase, damaged>>
  BY <1>1 DEF Merged, MayCompact, TypeOK, memVars, diskVars, ghostVars
<1>4. Range(p) \subseteq Range(sstables)
  BY <1>2, <1>3, SizeAssumption, PrefixParts DEF pickCompactionFiles
<1>5. compactor'.stage = "reserve" /\ compactor'.picked = p
  BY <1>2, IdleOK DEF Merged, CompactRecord
<1>6. FreshIDs' /\ AllListed'
  BY <1>1, <1>3 DEF FreshIDs, AllListed
<1>7. \A x \in Range(p) : x < nextFileID
  BY <1>1, <1>3, <1>4 DEF FreshIDs, AllListed
<1>8. Picked'
  BY <1>3, <1>4, <1>5, <1>7 DEF Picked
<1>9. ~Writing(compactor')
  BY <1>5 DEF Writing
<1>10. ASSUME NEW x, Owned(x) PROVE Owned(x)'
  BY <1>3, <1>4, <1>5, <1>10 DEF Owned
<1>11. \A x \in flushers' : Writing(x) => Owned(x)'
  BY <1>1, <1>3, <1>10 DEF Writers
<1>12. Writers'
  BY <1>1, <1>3, <1>9, <1>11 DEF Writers, Writing, Owned
<1>. QED BY <1>6, <1>8, <1>12 DEF FileInv

LEMMA CompactReserveFiles ==
    ASSUME EngineInv, FileInv, ~damaged, CompactReserve
    PROVE  FileInv'
<1>0. PICK f, h : /\ f = nextFileID
                  /\ h = [compactor EXCEPT !.stage = "blocks", !.file = nextFileID]
  OBVIOUS
<1>1. FreshIDs /\ Writers /\ Picked /\ AllListed /\ phase # "down" /\ TypeOK
  BY CompactorRuns DEF FileInv, EngineInv, CompactReserve
<1>2. /\ files' = With(files, f, Short) /\ nextFileID' = f + 1 /\ compactor' = h
      /\ UNCHANGED <<sstables, flushers, phase, damaged>>
  BY <1>0 DEF CompactReserve, AdvancedID, memVars, ghostVars
<1>3. /\ f \in Nat /\ h.stage = "blocks" /\ h.file = f /\ h.picked = compactor.picked
      /\ compactor.stage = "reserve"
  BY <1>0, <1>1 DEF TypeOK, CompactRecord, CompactReserve
<1>4. f \notin Complete(files)
  BY <1>0, <1>1, <1>3 DEF FreshIDs
<1>5. DOMAIN files' = DOMAIN files \cup {f} /\ Complete(files') = Complete(files)
  BY <1>2, <1>4, CreatedFile
<1>6. \A x \in DOMAIN files : x \in Nat
  BY <1>1 DEF TypeOK
<1>7. FreshIDs' /\ AllListed'
  <2>1. \A x \in Complete(files) : x \in Nat /\ x < f
    BY <1>0, <1>1, <1>6 DEF FreshIDs, Complete
  <2>2. f + 1 # 0 /\ \A x \in Complete(files) : x < f + 1
    BY <1>3, <2>1
  <2>. QED BY <1>1, <1>2, <1>5, <2>2 DEF FreshIDs, AllListed
<1>8. \A x \in Range(compactor.picked) : x \in Nat /\ x < f
  BY <1>0, <1>1 DEF Picked, TypeOK, CompactRecord, Range
<1>9. Picked'
  <2>1. \A x \in Range(compactor.picked) : x < f + 1
    BY <1>3, <1>8
  <2>. QED BY <1>1, <1>2, <1>3, <2>1 DEF Picked
<1>10. ASSUME NEW x, Owned(x), x.file \in Nat PROVE Owned(x)' /\ x.file # f
  <2>1. x.file < f /\ x.file \in DOMAIN files
    BY <1>0, <1>10 DEF Owned
  <2>2. x.file < f + 1 /\ x.file # f
    BY <1>3, <1>10, <2>1
  <2>. QED BY <1>2, <1>3, <1>5, <1>10, <2>1, <2>2 DEF Owned
<1>11. Owned(h)'
  <2>1. f < f + 1 /\ f \in DOMAIN files' /\ f # 0
    BY <1>0, <1>1, <1>3, <1>5 DEF FreshIDs
  <2>2. f \notin Range(sstables)
    BY <1>1, <1>4 DEF AllListed
  <2>3. f \notin Range(compactor.picked)
    BY <1>3, <1>8
  <2>. QED BY <1>2, <1>3, <1>4, <1>5, <2>1, <2>2, <2>3 DEF Owned
<1>12. \A x \in flushers : x.file \in Nat
  BY <1>1 DEF TypeOK, FlushRecord
<1>13. \A x \in flushers : Writing(x) => Owned(x)' /\ x.file # f
  BY <1>1, <1>10, <1>12 DEF Writers
<1>14. Writers'
  <2>1. \A x, y \in flushers' : Writing(x) /\ Writing(y) /\ x.file = y.file => x = y
    BY <1>1, <1>2 DEF Writers
  <2>. QED BY <1>2, <1>3, <1>11, <1>13, <2>1 DEF Writers, Owned, Writing
<1>. QED BY <1>7, <1>9, <1>14 DEF FileInv

LEMMA CompactWriteFiles ==
    ASSUME EngineInv, FileInv, ~damaged, CompactWrite
    PROVE  FileInv'
<1>0. PICK c, f, t, h :
         /\ c = compactor /\ f = compactor.file
         /\ t = IF compactor.stage = "blocks" THEN Torn ELSE compactor.table
         /\ h = [compactor EXCEPT !.stage = IF compactor.stage = "blocks" THEN "footer"
                                            ELSE "install"]
  OBVIOUS
<1>1. FreshIDs /\ Writers /\ Picked /\ AllListed /\ phase # "down" /\ TypeOK
  BY CompactorRuns DEF FileInv, EngineInv, CompactWrite
<1>2. c.stage \in {"blocks", "footer"} /\ c \in CompactRecord /\ c.table \in Table
  BY <1>0, <1>1 DEF CompactWrite, TypeOK, CompactRecord
<1>3. /\ compactor' = h /\ files' = [files EXCEPT ![f] = t]
      /\ UNCHANGED <<sstables, flushers, phase, nextFileID, damaged>>
  BY <1>0 DEF CompactWrite, memVars, ghostVars
<1>4. /\ h.file = f /\ h.picked = c.picked
      /\ h.stage = IF c.stage = "blocks" THEN "footer" ELSE "install"
  BY <1>0, <1>2 DEF CompactRecord
<1>5. Owned(c) /\ f \notin Complete(files) /\ f \in DOMAIN files /\ Writing(c)
  BY <1>0, <1>1, <1>2 DEF Writers, Writing, Owned
<1>6. PICK fs, gs : fs = files /\ gs = files'
  OBVIOUS
<1>7. /\ DOMAIN gs = DOMAIN fs
      /\ Complete(gs) = Complete(fs) \cup IF c.stage = "blocks" THEN {} ELSE {f}
  <2>1. f \in DOMAIN fs /\ f \notin Complete(fs) /\ gs = [fs EXCEPT ![f] = t]
    BY <1>3, <1>5, <1>6
  <2>2. CASE c.stage = "blocks"
    <3>1. gs = [fs EXCEPT ![f] = Torn]
      BY <1>0, <2>1, <2>2
    <3>2. DOMAIN gs = DOMAIN fs /\ Complete(gs) = Complete(fs)
      BY <2>1, <3>1, BegunFile
    <3>. QED BY <2>2, <3>2
  <2>3. CASE c.stage # "blocks"
    <3>1. t \in Table
      BY <1>0, <1>2, <2>3
    <3>2. DOMAIN gs = DOMAIN fs /\ Complete(gs) = Complete(fs) \cup {f}
      BY <2>1, <3>1, CompletedFile
    <3>. QED BY <2>3, <3>2
  <2>. QED BY <2>2, <2>3
<1>8. /\ DOMAIN files' = DOMAIN files
      /\ Complete(files') = Complete(files) \cup IF c.stage = "blocks" THEN {} ELSE {f}
  BY <1>6, <1>7
<1>9. FreshIDs' /\ AllListed'
  BY <1>0, <1>1, <1>3, <1>5, <1>8 DEF FreshIDs, AllListed, Owned
<1>10. Picked'
  BY <1>0, <1>1, <1>2, <1>3, <1>4 DEF Picked
<1>11. ASSUME NEW x, Owned(x), x.file # f PROVE Owned(x)'
  BY <1>0, <1>3, <1>4, <1>8, <1>11 DEF Owned
<1>12. Owned(h)'
  <2>1. /\ h.file < nextFileID' /\ h.file \in DOMAIN files' /\ h.file # 0
        /\ h.file \notin Range(sstables)'
    BY <1>0, <1>3, <1>4, <1>5, <1>8 DEF Owned
  <2>2. h.file \notin Range(compactor.picked)'
    BY <1>0, <1>3, <1>4, <1>5 DEF Owned
  <2>3. h.file \in Complete(files') <=> h.stage = "install"
    BY <1>2, <1>4, <1>5, <1>8
  <2>. QED BY <2>1, <2>2, <2>3 DEF Owned
<1>13. \A x \in flushers : Writing(x) => Owned(x)' /\ x.file # f
  BY <1>0, <1>1, <1>5, <1>11 DEF Writers
<1>14. Writers'
  <2>1. \A x, y \in flushers' : Writing(x) /\ Writing(y) /\ x.file = y.file => x = y
    BY <1>1, <1>3 DEF Writers
  <2>. QED BY <1>3, <1>4, <1>12, <1>13, <2>1 DEF Writers, Owned, Writing
<1>. QED BY <1>9, <1>10, <1>14 DEF FileInv

LEMMA CompactInstallFiles ==
    ASSUME EngineInv, FileInv, ~damaged, CompactInstall
    PROVE  FileInv'
<1>0. PICK c, h : c = compactor /\ h = [compactor EXCEPT !.stage = "manifest", !.line = sstables']
  OBVIOUS
<1>1. FreshIDs /\ Writers /\ Picked /\ AllListed /\ phase # "down" /\ TypeOK
  BY CompactorRuns DEF FileInv, EngineInv, CompactInstall
<1>2. c.stage = "install" /\ c \in CompactRecord /\ c.file \in Nat /\ sstables \in Seq(Nat)
  BY <1>0, <1>1 DEF CompactInstall, TypeOK, CompactRecord
<1>3. /\ compactor' = h /\ sstables' = Replaced(sstables, c.picked, c.file)
      /\ UNCHANGED <<files, flushers, phase, nextFileID>>
  BY <1>0 DEF CompactInstall, diskVars
<1>4. h.stage = "manifest" /\ h.picked = c.picked
  BY <1>0, <1>2 DEF CompactRecord
<1>5. Owned(c) /\ c.file \in Complete(files) /\ Writing(c)
  BY <1>0, <1>1, <1>2 DEF Writers, Writing, Owned
<1>6. Range(sstables') = (Range(sstables) \ Range(c.picked)) \cup {c.file}
  <2>1. c.file # 0
    BY <1>5 DEF Owned
  <2>. QED BY <1>2, <1>3, <2>1, ReplacedParts
<1>7. FreshIDs' /\ AllListed'
  BY <1>1, <1>3, <1>5, <1>6 DEF FreshIDs, AllListed
<1>8. Picked'
  BY <1>0, <1>1, <1>3, <1>4, <1>5, <1>6 DEF Picked, Owned
<1>9. ASSUME NEW x, Owned(x), x.file # c.file PROVE Owned(x)'
  BY <1>0, <1>3, <1>4, <1>6, <1>9 DEF Owned
<1>10. \A x \in flushers : Writing(x) => Owned(x)'
  BY <1>0, <1>1, <1>5, <1>9 DEF Writers
<1>11. Writers'
  <2>1. ~Writing(h)
    BY <1>4 DEF Writing
  <2>. QED BY <1>1, <1>3, <1>10, <2>1 DEF Writers, Owned, Writing
<1>. QED BY <1>7, <1>8, <1>11 DEF FileInv

LEMMA CompactEndFiles ==
    ASSUME EngineInv, FileInv, ~damaged, CompactManifest
    PROVE  FileInv'
<1>1. FreshIDs /\ Writers /\ Picked /\ AllListed /\ TypeOK
  BY DEF FileInv, EngineInv
<1>2. UNCHANGED <<files, sstables, flushers, phase, nextFileID, damaged>>
  BY DEF CompactManifest, memVars, diskVars, ghostVars
<1>3. PICK c, h : c = compactor /\ h = compactor'
  OBVIOUS
<1>4. ~Writing(h) /\ h.picked = c.picked /\ h.stage = "remove" /\ c.stage = "manifest"
  <2>1. h = [c EXCEPT !.stage = "remove"] /\ c \in CompactRecord /\ c.stage = "manifest"
    BY <1>1, <1>3 DEF CompactManifest, TypeOK
  <2>2. h.stage = "remove" /\ h.picked = c.picked
    BY <2>1 DEF CompactRecord
  <2>. QED BY <2>1, <2>2 DEF Writing
<1>5. FreshIDs' /\ AllListed'
  BY <1>1, <1>2 DEF FreshIDs, AllListed
<1>6. Picked'
  BY <1>1, <1>2, <1>3, <1>4 DEF Picked
<1>7. ASSUME NEW x, Owned(x) PROVE Owned(x)'
  BY <1>2, <1>3, <1>4, <1>7 DEF Owned
<1>8. \A x \in flushers : Writing(x) => Owned(x)'
  BY <1>1, <1>7 DEF Writers
<1>9. Writers'
  BY <1>1, <1>2, <1>3, <1>4, <1>8 DEF Writers, Owned, Writing
<1>. QED BY <1>5, <1>6, <1>9 DEF FileInv

LEMMA CompactFailsFiles ==
    ASSUME EngineInv, FileInv, ~damaged, CompactFails
    PROVE  FileInv'
<1>1. compactor.stage # "idle"
  BY DEF CompactFails, CanFail
<1>2. phase = "running" /\ phase' = phase
  BY <1>1, CompactorRuns DEF EngineInv, CompactFails
<1>3. UNCHANGED <<files, sstables, flushers>> /\ compactor' = Idle /\ NextIDKept
  BY DEF CompactFails, memVars, diskVars, NextIDKept, AdvancedID
<1>. QED BY <1>2, <1>3, FilesLeft

LEMMA CompactRemoveFiles ==
    ASSUME EngineInv, FileInv, ~damaged, CompactRemove
    PROVE  FileInv'
<1>1. FreshIDs /\ Writers /\ Picked /\ AllListed /\ TypeOK /\ Shape /\ phase # "down"
  BY CompactorRuns DEF FileInv, EngineInv, CompactRemove
<1>2. UNCHANGED <<sstables, flushers, phase, nextFileID, damaged>>
  BY DEF CompactRemove, memVars, ghostVars
<1>3. PICK c, h, x : c = compactor /\ h = compactor' /\ x = Head(compactor.picked)
  OBVIOUS
<1>4. c.stage = "remove" /\ c \in CompactRecord /\ c.picked \in Seq(Nat) /\ c.picked # <<>>
  BY <1>1, <1>3 DEF CompactRemove, TypeOK, CompactRecord, Shape
<1>5. x \in Range(c.picked)
  BY <1>3, <1>4, PickedParts
<1>6. ~Writing(h) /\ Range(h.picked) \subseteq Range(c.picked)
      /\ h.stage \in {"remove", "idle"}
  <2>1. CASE Len(c.picked) = 1
    <3>1. h = Idle
      BY <1>3, <2>1 DEF CompactRemove
    <3>2. h.stage = "idle" /\ Range(h.picked) = {}
      BY <3>1 DEF Idle, Range
    <3>. QED BY <3>2 DEF Writing
  <2>2. CASE Len(c.picked) # 1
    <3>1. h = [c EXCEPT !.picked = Tail(c.picked)]
      BY <1>3, <2>2 DEF CompactRemove
    <3>2. h.stage = "remove" /\ h.picked = Tail(c.picked)
      BY <1>4, <3>1 DEF CompactRecord
    <3>3. Range(Tail(c.picked)) \subseteq Range(c.picked)
      BY <1>4, PickedParts
    <3>. QED BY <3>2, <3>3 DEF Writing
  <2>. QED BY <2>1, <2>2
<1>7. /\ DOMAIN files \ {x} \subseteq DOMAIN files'
      /\ Complete(files) \ {x} \subseteq Complete(files')
      /\ Complete(files') \subseteq Complete(files)
  <2>1. CASE files' = files
    BY <2>1
  <2>2. CASE files' = Restrict(files, DOMAIN files \ {x})
    <3>1. PICK fs, gs : fs = files /\ gs = files' /\ gs = Restrict(fs, DOMAIN fs \ {x})
      BY <2>2
    <3>2. DOMAIN gs = DOMAIN fs \ {x} /\ Complete(gs) = Complete(fs) \ {x}
      BY <3>1, RemovedFile
    <3>. QED BY <3>1, <3>2
  <2>. QED BY <1>3, <2>1, <2>2 DEF CompactRemove
<1>8. x \notin Range(sstables)
  BY <1>1, <1>3, <1>4, <1>5 DEF Picked
<1>9. FreshIDs' /\ AllListed'
  BY <1>1, <1>2, <1>7, <1>8 DEF FreshIDs, AllListed
<1>10. Picked'
  BY <1>1, <1>2, <1>3, <1>4, <1>6 DEF Picked
<1>11. ASSUME NEW y, Owned(y) PROVE Owned(y)'
  <2>1. y.file # x
    BY <1>3, <1>5, <1>11 DEF Owned
  <2>. QED BY <1>2, <1>3, <1>6, <1>7, <1>11, <2>1 DEF Owned
<1>12. \A y \in flushers : Writing(y) => Owned(y)'
  BY <1>1, <1>11 DEF Writers
<1>13. Writers'
  BY <1>1, <1>2, <1>3, <1>6, <1>12 DEF Writers, Owned, Writing
<1>. QED BY <1>9, <1>10, <1>13 DEF FileInv

LEMMA CrashFiles ==
    ASSUME EngineInv, FileInv, ~damaged', Crash
    PROVE  FileInv'
<1>1. TornFiles(files) = {}
  BY DEF Crash, Exposed
<1>2. /\ files' = files /\ sstables' = <<>> /\ phase' = "down" /\ flushers' = {}
      /\ compactor' = Idle
  BY DEF Crash, diskVars
<1>3. Range(sstables') = {} /\ Range(compactor'.picked) = {} /\ compactor'.stage = "idle"
  BY <1>2 DEF Range, Idle
<1>4. FreshIDs' /\ AllListed' /\ Picked'
  BY <1>1, <1>2, <1>3 DEF FreshIDs, AllListed, Picked
<1>5. Writers'
  BY <1>2, <1>3 DEF Writers, Writing
<1>. QED BY <1>4, <1>5 DEF FileInv

LEMMA OpenFiles ==
    ASSUME EngineInv, FileInv, ~damaged, Opened
    PROVE  FileInv'
<1>1. FreshIDs /\ TypeOK /\ Shape /\ Goroutines /\ phase = "down"
  BY DEF FileInv, EngineInv, Opened, OpenWith
<1>2. TornFiles(files) = {} /\ compactor = Idle
  BY <1>1 DEF FreshIDs, Goroutines
<1>3. /\ sstables' = loadSSTables(files, manifest) /\ nextFileID' = NextIDAfterLoad(files)
      /\ UNCHANGED <<files, compactor>>
      /\ phase' # "down"
  BY DEF Opened, OpenWith, diskVars
<1>4. Range(sstables') = Complete(files)
  BY <1>1, <1>2, <1>3, LoadList, DiskOK DEF TypeOK, Shape
<1>5. nextFileID' # 0 /\ \A f \in Complete(files) : f < nextFileID'
  BY <1>1, <1>2, <1>3, NextIDAbove DEF Shape
<1>6. \A g \in flushers' : g.stage = "reserve"
  BY <1>1 DEF Opened, OpenWith, Goroutines
<1>7. Range(compactor'.picked) = {} /\ compactor'.stage = "idle"
  BY <1>2, <1>3 DEF Range, Idle
<1>8. FreshIDs' /\ AllListed' /\ Picked'
  BY <1>3, <1>4, <1>5, <1>7 DEF FreshIDs, AllListed, Picked
<1>9. Writers'
  BY <1>6, <1>7 DEF Writers, Writing
<1>. QED BY <1>8, <1>9 DEF FileInv

LEMMA FileStep == EngineInv /\ FileInv /\ [Next]_vars => FileInv'
<1>. SUFFICES ASSUME EngineInv, FileInv, [Next]_vars, ~damaged' PROVE FileInv'
  BY DEF FileInv
<1>1. ~damaged
  BY DamageStays DEF EngineInv
<1>2. CASE UNCHANGED vars
  BY <1>1, <1>2, FilesAlone DEF vars, memVars, diskVars
<1>3. ASSUME NEW k \in Key, NEW v \in Entries, AppendWAL(k, v) \/ AppendFails(k, v)
      PROVE  FileInv'
  BY <1>1, <1>3, FilesAlone DEF AppendWAL, AppendFails, memVars
<1>4. CASE WriteMemTable
  <2>1. UNCHANGED <<files, sstables, nextFileID, compactor, phase>>
    BY <1>4 DEF WriteMemTable, diskVars
  <2>2. \A g \in flushers' : g \in flushers \/ g.stage = "reserve"
    BY <1>4 DEF WriteMemTable
  <2>. QED BY <1>1, <2>1, <2>2, FilesAlone DEF Writing
<1>5. CASE PreAllocate \/ InstallNextWAL
  BY <1>1, <1>5, FilesAlone DEF PreAllocate, InstallNextWAL, memVars, diskVars
<1>6. ASSUME NEW g \in flushers, FlushStep(g) \/ FlushFails(g) PROVE FileInv'
  BY <1>1, <1>6, FlushReserveFiles, FlushBlocksFiles, FlushInstallFiles, FlushEndFiles
     DEF FlushStep
<1>7. ASSUME NEW r \in Reader, NEW k \in Key, GetSnapshot(r, k) PROVE FileInv'
  BY <1>1, <1>7, FilesAlone DEF GetSnapshot, memVars, diskVars
<1>8. ASSUME NEW r \in Reader, GetFromTable(r) PROVE FileInv'
  BY <1>1, <1>8, FilesAlone DEF GetFromTable, memVars, diskVars
<1>9. CASE CompactStep \/ CompactFails \/ MergeFails
  <2>1. CASE CompactMerge \/ MergeFails
    <3>1. Merged \/ Untouched
      BY <2>1, MergeOutcome
    <3>2. CASE Untouched
      BY <1>1, <3>2, FilesAlone DEF Untouched, memVars, diskVars
    <3>. QED BY <1>1, <3>1, <3>2, CompactMergeFiles
  <2>. QED BY <1>1, <1>9, <2>1, CompactReserveFiles, CompactWriteFiles, CompactInstallFiles,
              CompactEndFiles, CompactRemoveFiles, CompactFailsFiles DEF CompactStep
<1>10. CASE RemoveOldWAL \/ Serve
  BY <1>1, <1>10, FilesAlone DEF RemoveOldWAL, Serve, memVars
<1>11. CASE Open \/ OpenFails
  BY <1>1, <1>11, OpenOutcome, OpenFiles
<1>. QED BY <1>1, <1>2, <1>3, <1>4, <1>5, <1>6, <1>7, <1>8, <1>9, <1>10, <1>11, CrashFiles
         DEF Next, NewDB

LEMMA FileInvariant == Spec => [](EngineInv /\ FileInv)
<1>1. Init => EngineInv /\ FileInv
  BY EngineInit, FileInit
<1>2. (EngineInv /\ FileInv) /\ [Next]_vars => (EngineInv /\ FileInv)'
  BY EngineStep, FileStep
<1>. QED BY <1>1, <1>2, PTL DEF Spec

\* Every table in the list is a complete file, whatever was flushed, compacted,
\* half-written, removed or reloaded before: Get and the merge never meet another.
THEOREM ListedTablesComplete == Spec => []ListedComplete
<1>1. FileInv => ListedComplete
  BY DEF FileInv, AllListed, ListedComplete
<1>. QED BY <1>1, FileInvariant, PTL

\* A complete file that is still there after a step was not written by it.
LEMMA ImmutableStep ==
    ASSUME EngineInv, FileInv, [Next]_vars, ~damaged',
           NEW x \in Complete(files) \cap DOMAIN files'
    PROVE  files'[x] = files[x]
<1>. SUFFICES ASSUME Next PROVE files'[x] = files[x]
  BY DEF vars, diskVars
<1>1. ~damaged
  BY DamageStays DEF EngineInv
<1>2. FreshIDs /\ Writers /\ TypeOK /\ x \in DOMAIN files
  BY <1>1 DEF FileInv, EngineInv, Complete
<1>3. ASSUME NEW g, g \in flushers, FlushStep(g) PROVE files'[x] = files[x]
  <2>1. CASE FlushReserve(g)
    <3>1. nextFileID \in Nat /\ x \in Nat /\ x < nextFileID
      BY <1>2, <1>3, FlusherUp DEF TypeOK, FreshIDs, EngineInv
    <3>2. x # nextFileID
      BY <3>1
    <3>3. files' = With(files, nextFileID, Short)
      BY <2>1 DEF FlushReserve
    <3>. QED BY <1>2, <3>2, <3>3 DEF With, Over, Single
  <2>2. CASE FlushBlocks(g) \/ FlushFooter(g)
    <3>1. g.file # x
      BY <1>2, <1>3, <2>2 DEF Writers, Writing, Owned, FlushBlocks, FlushFooter
    <3>2. PICK t : files' = [files EXCEPT ![g.file] = t]
      BY <2>2 DEF FlushBlocks, FlushFooter
    <3>. QED BY <1>2, <3>1, <3>2
  <2>3. CASE FlushInstall(g) \/ FlushManifest(g) \/ FlushDeleteWAL(g)
    BY <2>3 DEF FlushInstall, FlushManifest, FlushDeleteWAL, diskVars
  <2>. QED BY <1>3, <2>1, <2>2, <2>3 DEF FlushStep
<1>4. CASE CompactStep
  <2>1. CASE CompactReserve
    <3>1. phase # "down"
      BY <2>1, CompactorRuns DEF CompactReserve, EngineInv
    <3>2. nextFileID \in Nat /\ x \in Nat /\ x < nextFileID
      BY <1>2, <3>1 DEF TypeOK, FreshIDs
    <3>3. x # nextFileID
      BY <3>2
    <3>4. files' = With(files, nextFileID, Short)
      BY <2>1 DEF CompactReserve
    <3>. QED BY <1>2, <3>3, <3>4 DEF With, Over, Single
  <2>2. CASE CompactWrite
    <3>1. compactor.file # x
      BY <1>2, <2>2 DEF Writers, Writing, Owned, CompactWrite
    <3>2. PICK t : files' = [files EXCEPT ![compactor.file] = t]
      BY <2>2 DEF CompactWrite
    <3>. QED BY <1>2, <3>1, <3>2
  <2>3. CASE CompactRemove
    <3>1. CASE files' = files
      BY <3>1
    <3>2. CASE files' = Restrict(files, DOMAIN files \ {Head(compactor.picked)})
      BY <3>2 DEF Restrict
    <3>. QED BY <2>3, <3>1, <3>2 DEF CompactRemove
  <2>4. CASE CompactMerge \/ CompactInstall \/ CompactManifest
    BY <2>4 DEF CompactMerge, CompactInstall, CompactManifest, diskVars
  <2>. QED BY <1>4, <2>1, <2>2, <2>3, <2>4 DEF CompactStep
<1>5. ASSUME files' = files PROVE files'[x] = files[x]
  BY <1>5
<1>6. ASSUME NEW k \in Key, NEW v \in Entries, AppendWAL(k, v) \/ AppendFails(k, v)
      PROVE  files' = files
  BY <1>6 DEF AppendWAL, AppendFails
<1>7. ASSUME NEW g \in flushers, FlushFails(g) PROVE files' = files
  BY <1>7 DEF FlushFails, diskVars
<1>8. ASSUME NEW r \in Reader, NEW k \in Key, GetSnapshot(r, k) PROVE files' = files
  BY <1>8 DEF GetSnapshot, diskVars
<1>9. ASSUME NEW r \in Reader, GetFromTable(r) PROVE files' = files
  BY <1>9 DEF GetFromTable, diskVars
<1>10. CASE \/ WriteMemTable \/ PreAllocate \/ InstallNextWAL \/ CompactFails \/ MergeFails
             \/ NewDB \/ OpenFails \/ Crash
  BY <1>10 DEF WriteMemTable, PreAllocate, InstallNextWAL, CompactFails, MergeFails, NewDB,
               Open, OpenFails, OpenWith, RemoveOldWAL, Serve, Crash, diskVars
<1>. QED BY <1>3, <1>4, <1>5, <1>6, <1>7, <1>8, <1>9, <1>10 DEF Next

\* A complete .sst file is never written again, only removed: the ids that a flush,
\* a compaction or an engine restarted after a crash hands out are fresh, as long as
\* loadSSTables has read every table and no torn one has hidden the others.
THEOREM CompleteTablesImmutable == Spec => TablesImmutable
<1>. DEFINE A == ~damaged' => \A f \in Complete(files) \cap DOMAIN files' : files'[f] = files[f]
<1>1. EngineInv /\ FileInv /\ [Next]_vars => [A]_vars
  BY ImmutableStep
<1>. QED BY <1>1, FileInvariant, PTL DEF TablesImmutable, Spec

=============================================================================
