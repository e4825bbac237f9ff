--------------------------- MODULE LSMReadProofs ----------------------------
(***************************************************************************)
(* What a Get returns that reads the files of its snapshot without the     *)
(* lock, and the engine as an implementation of the map of KVMap.          *)
(***************************************************************************)
EXTENDS LSMSafetyProofs

\* The tables after position i of the snapshot of g are there and do not hold its key.
Clear(g, fs, i) ==
    \A j \in DOMAIN g.rest :
        i < j => g.rest[j] \in Complete(fs) /\ g.key \notin DOMAIN fs[g.rest[j]]

\* The files that are left to read, as long as they are there, are complete, and the
\* newest that holds the key, unless a newer one was removed, answers with the value
\* at the start.  Their ids are not handed out again.
ReadOK(g, fs, next) ==
    /\ g.done /\ ~g.missed => g.result = g.start
    /\ ~g.done =>
         /\ g.result = Nil
         /\ \A x \in Range(g.rest) : x < next /\ (x \in DOMAIN fs => x \in Complete(fs))
         /\ ~g.missed =>
              /\ \A i \in DOMAIN g.rest :
                    Holds(fs, g.rest[i], g.key) /\ Clear(g, fs, i) =>
                        fs[g.rest[i]][g.key] = g.start
              /\ Clear(g, fs, 0) => g.start = Nil

ReadInv ==
    ~damaged => /\ \A r \in Reader : ReadOK(readers[r], files, nextFileID)
                /\ phase # "running" => \A r \in Reader : readers[r] = NotReading

LEMMA ReadKept ==
    ASSUME NEW g \in ReadRecord, NEW fs, NEW gs, NEW m \in Nat, NEW n \in Nat, m <= n,
           ReadOK(g, fs, m),
           \A x \in Nat : x < m /\ x \in DOMAIN gs => x \in DOMAIN fs,
           \A x \in Complete(fs) \cap DOMAIN gs : gs[x] = fs[x]
    PROVE  ReadOK(g, gs, n)
<1>1. CASE g.done
  BY <1>1 DEF ReadOK
<1>2. CASE ~g.done
  <2>1. g.rest \in Seq(Nat) /\ Range(g.rest) \subseteq Nat
    BY SeqParts DEF ReadRecord
  <2>2. \A x \in Range(g.rest) : x < m /\ (x \in DOMAIN fs => x \in Complete(fs))
    BY <1>2 DEF ReadOK
  <2>3. ASSUME NEW x \in Range(g.rest), x \in DOMAIN gs
        PROVE  x \in Complete(fs) /\ x \in Complete(gs) /\ gs[x] = fs[x]
    BY <2>1, <2>2, <2>3 DEF Complete
  <2>4. \A x \in Range(g.rest) : x < n
    BY <2>1, <2>2
  <2>5. \A x \in Range(g.rest) : x \in Complete(gs) => x \in Complete(fs) /\ gs[x] = fs[x]
    BY <2>3 DEF Complete
  <2>6. \A i \in DOMAIN g.rest : g.rest[i] \in Range(g.rest)
    BY DEF Range
  <2>7. \A i : Clear(g, gs, i) => Clear(g, fs, i)
    BY <2>5, <2>6 DEF Clear
  <2>8. \A i \in DOMAIN g.rest : Holds(gs, g.rest[i], g.key) =>
            Holds(fs, g.rest[i], g.key) /\ gs[g.rest[i]] = fs[g.rest[i]]
    BY <2>5, <2>6 DEF Holds
  <2>. QED BY <1>2, <2>3, <2>4, <2>7, <2>8 DEF ReadOK
<1>. QED BY <1>1, <1>2

\* The files a step creates have the id that was next.
LEMMA CreatedIDs ==
    ASSUME EngineInv, Next
    PROVE  \A x \in DOMAIN files' : x \in DOMAIN files \/ x = nextFileID
<1>. DEFINE G == \A x \in DOMAIN files' : x \in DOMAIN files \/ x = nextFileID
<1>1. CASE files' = With(files, nextFileID, Short)
  BY <1>1 DEF With, Over, Single
<1>2. CASE \E f, t : files' = [files EXCEPT ![f] = t]
  BY <1>2
<1>3. CASE UNCHANGED files
  BY <1>3
<1>4. CASE \E f : files' = Restrict(files, DOMAIN files \ {f})
  BY <1>4 DEF Restrict
<1>5. ASSUME NEW g, FlushStep(g) \/ FlushFails(g) PROVE G
  BY <1>1, <1>2, <1>3, <1>5 DEF FlushStep, FlushReserve, FlushBlocks, FlushFooter, FlushInstall,
     FlushManifest, FlushDeleteWAL, FlushFails, diskVars
<1>6. CASE CompactStep
  BY <1>1, <1>2, <1>3, <1>4, <1>6 DEF CompactStep, CompactMerge, CompactReserve, CompactWrite,
     CompactInstall, CompactManifest, CompactRemove, diskVars
<1>7. ASSUME NEW k \in Key, NEW v \in Entries, AppendWAL(k, v) \/ AppendFails(k, v)
      PROVE  UNCHANGED files
  BY <1>7 DEF AppendWAL, AppendFails
<1>8. ASSUME NEW r \in Reader, NEW k \in Key, GetSnapshot(r, k) PROVE UNCHANGED files
  BY <1>8 DEF GetSnapshot, diskVars
<1>9. ASSUME NEW r \in Reader, GetFromTable(r) PROVE UNCHANGED files
  BY <1>9 DEF GetFromTable, diskVars
<1>10. CASE \/ WriteMemTable \/ PreAllocate \/ InstallNextWAL \/ CompactFails \/ NewDB \/ Crash
            \/ MergeFails \/ OpenFails
  BY <1>3, <1>10 DEF WriteMemTable, PreAllocate, InstallNextWAL, CompactFails, NewDB, Open,
               RemoveOldWAL, Serve, Crash, MergeFails, OpenFails, OpenWith, diskVars
<1>. QED BY <1>3, <1>5, <1>6, <1>7, <1>8, <1>9, <1>10 DEF Next

\* The next id only goes up while the process runs.
LEMMA NextIDGrows ==
    ASSUME EngineInv, Next, phase # "down", ~Crash
    PROVE  NextIDKept
<1>. USE DEF NextIDKept
<1>1. ASSUME NEW g, FlushStep(g) \/ FlushFails(g)
      PROVE  NextIDKept
  BY <1>1 DEF FlushStep, FlushReserve, FlushBlocks, FlushFooter, FlushInstall, FlushManifest,
              FlushDeleteWAL, FlushFails, AdvancedID
<1>2. CASE CompactStep \/ CompactFails \/ MergeFails
  BY <1>2 DEF CompactStep, CompactMerge, CompactReserve, CompactWrite, CompactInstall,
              CompactManifest, CompactRemove, CompactFails, MergeFails, AdvancedID
<1>3. ASSUME NEW k \in Key, NEW v \in Entries, AppendWAL(k, v) \/ AppendFails(k, v)
      PROVE  nextFileID' = nextFileID
  BY <1>3 DEF AppendWAL, AppendFails
<1>4. ASSUME NEW r \in Reader, NEW k \in Key, GetSnapshot(r, k) PROVE nextFileID' = nextFileID
  BY <1>4 DEF GetSnapshot
<1>5. ASSUME NEW r \in Reader, GetFromTable(r) PROVE nextFileID' = nextFileID
  BY <1>5 DEF GetFromTable
<1>6. CASE WriteMemTable \/ PreAllocate \/ InstallNextWAL \/ RemoveOldWAL \/ Serve
  BY <1>6 DEF WriteMemTable, PreAllocate, InstallNextWAL, RemoveOldWAL, Serve
<1>7. ~Open /\ ~OpenFails
  BY DEF Open, OpenFails, OpenWith
<1>. QED BY <1>1, <1>2, <1>3, <1>4, <1>5, <1>6, <1>7 DEF Next, NewDB

\* A Get that another goroutine's step leaves where it is.
LEMMA ReaderKept ==
    ASSUME Good, Next1, [Next]_vars, ReadInv, phase # "down", phase' # "down",
           NEW r \in Reader, readers'[r] = readers[r]
    PROVE  ReadOK(readers'[r], files', nextFileID')
<1>. USE DEF Good, Next1
<1>1. ReadOK(readers[r], files, nextFileID)
  BY DEF ReadInv
<1>2. CASE UNCHANGED vars
  BY <1>1, <1>2 DEF vars, diskVars
<1>3. CASE Next
  <2>1. PICK g, fs, gs, m, n : /\ g = readers[r] /\ fs = files /\ gs = files'
                               /\ m = nextFileID /\ n = nextFileID'
    OBVIOUS
  <2>2. g \in ReadRecord /\ m \in Nat /\ n \in Nat
    BY <2>1 DEF EngineInv, TypeOK
  <2>3. ~Crash
    BY DEF Crash
  <2>4. m <= n
    BY <1>3, <2>1, <2>2, <2>3, NextIDGrows DEF NextIDKept
  <2>5. \A x \in Nat : x < m /\ x \in DOMAIN gs => x \in DOMAIN fs
    <3>1. \A x \in DOMAIN gs : x \in DOMAIN fs \/ x = m
      BY <1>3, <2>1, CreatedIDs
    <3>. QED BY <2>2, <3>1
  <2>6. \A x \in Complete(fs) \cap DOMAIN gs : gs[x] = fs[x]
    BY <2>1, ImmutableStep
  <2>7. ReadOK(g, gs, n)
    BY <1>1, <2>1, <2>2, <2>4, <2>5, <2>6, ReadKept
  <2>. QED BY <2>1, <2>7
<1>. QED BY <1>2, <1>3

LEMMA GetSnapshotRead ==
    ASSUME Good, Next1, LookInv, ReadInv, NEW r \in Reader, NEW k \in Key, GetSnapshot(r, k)
    PROVE  ReadOK(readers'[r], files', nextFileID') /\ readers'[r].start = contents[k]
<1>. USE DEF Good, Next1
<1>. DEFINE imm    == IF immTable = Nil THEN EmptyTable ELSE immTable
            cached == Over(memTable, imm)
            hit    == k \in DOMAIN cached \/ sstables = <<>>
<1>0. PICK g, list, fs : g = readers'[r] /\ list = sstables /\ fs = files
  OBVIOUS
<1>1. /\ phase = "running" /\ UNCHANGED <<files, nextFileID>>
      /\ g = [key |-> k, rest |-> IF hit THEN <<>> ELSE list, done |-> hit,
              result |-> ValueOf(cached, k), start |-> contents[k], missed |-> FALSE]
  BY <1>0 DEF GetSnapshot, diskVars, EngineInv, TypeOK
<1>g. /\ g.key = k /\ g.start = contents[k] /\ ~g.missed /\ g.result = ValueOf(cached, k)
      /\ g.done <=> hit
      /\ g.rest = IF hit THEN <<>> ELSE list
  <2>. HIDE DEF hit, cached
  <2>. QED BY <1>1
<1>2. /\ Lookup(memTable, immTable, list, fs, k) = contents[k]
      /\ list \in Seq(Nat) /\ Once(list) /\ Range(list) \subseteq Complete(fs)
  BY <1>0, <1>1, SstablesOnce DEF LookInv, Look
<1>3. DOMAIN cached = DOMAIN memTable \cup DOMAIN imm
  BY DEF Over
<1>4. CASE k \in DOMAIN cached
  <2>1. ValueOf(cached, k) = IF k \in DOMAIN memTable THEN memTable[k] ELSE imm[k]
    BY <1>4 DEF ValueOf, Over
  <2>2. ValueOf(cached, k) = Lookup(memTable, immTable, list, fs, k)
    BY <1>3, <1>4, <2>1, LookupParts, EmptyIsTable
  <2>. QED BY <1>0, <1>1, <1>g, <1>2, <1>4, <2>2 DEF ReadOK
<1>5. CASE k \notin DOMAIN cached
  <2>1. ValueOf(cached, k) = Nil
    BY <1>5 DEF ValueOf
  <2>2. Found(list, fs, k) = contents[k]
    BY <1>2, <1>3, <1>5, LookupParts
  <2>3. CASE list = <<>>
    <3>1. Holding(list, fs, k) = {}
      BY <2>3 DEF Holding
    <3>2. contents[k] = Nil
      BY <2>2, <3>1 DEF Found
    <3>. QED BY <1>0, <1>1, <1>g, <2>1, <2>3, <3>2 DEF ReadOK
  <2>4. CASE list # <<>>
    <3>1. /\ g.rest = list /\ g.key = k /\ ~g.done /\ g.result = Nil /\ ~g.missed
          /\ g.start = contents[k]
      BY <1>0, <1>g, <1>5, <2>1, <2>4
    <3>2. \A x \in Range(list) : x \in Complete(fs) /\ x < nextFileID
      BY <1>0, <1>1, <1>2 DEF FileInv, FreshIDs
    <3>3. ASSUME NEW i \in DOMAIN list, Holds(fs, list[i], k), Clear(g, fs, i)
          PROVE  fs[list[i]][k] = contents[k]
      <4>1. i \in Holding(list, fs, k)
        BY <3>3 DEF Holding, Holds
      <4>2. PICK j : j = Greatest(Holding(list, fs, k))
        OBVIOUS
      <4>3. j \in Holding(list, fs, k) /\ i <= j
        BY <1>2, <4>1, <4>2, HoldingGreatest
      <4>4. i \in Nat /\ j \in Nat /\ j \in DOMAIN list /\ k \in DOMAIN fs[list[j]]
        BY <1>2, <4>3, SeqParts DEF Holding
      <4>5. ~(i < j)
        BY <3>1, <3>3, <4>4 DEF Clear
      <4>6. i = j
        BY <4>3, <4>4, <4>5
      <4>. QED BY <2>2, <4>1, <4>2, <4>6 DEF Found
    <3>4. ASSUME Clear(g, fs, 0) PROVE contents[k] = Nil
      <4>1. \A j \in DOMAIN list : 0 < j
        BY <1>2
      <4>2. Holding(list, fs, k) = {}
        BY <3>1, <3>4, <4>1 DEF Clear, Holding
      <4>. QED BY <2>2, <4>2 DEF Found
    <3>5. ReadOK(g, fs, nextFileID)
      BY <3>1, <3>2, <3>3, <3>4 DEF ReadOK
    <3>. QED BY <1>0, <1>1, <3>1, <3>5
  <2>. QED BY <1>0, <2>3, <2>4
<1>. QED BY <1>4, <1>5

LEMMA GetFromTableRead ==
    ASSUME Good, Next1, ReadInv, NEW r \in Reader, GetFromTable(r)
    PROVE  ReadOK(readers'[r], files', nextFileID') /\ readers'[r].start = readers[r].start
<1>. USE DEF Good, Next1
<1>0. PICK g, n, f, fs, h : /\ g = readers[r] /\ n = Len(g.rest) /\ f = g.rest[n] /\ fs = files
                            /\ h = readers'[r]
  OBVIOUS
<1>1. /\ g \in ReadRecord /\ ~g.done /\ g.rest \in Seq(Nat) /\ g.rest # <<>> /\ g.key \in Key
      /\ g.missed \in BOOLEAN
  BY <1>0 DEF GetFromTable, EngineInv, TypeOK, Shape, ReadRecord
<1>2. n \in Nat /\ n # 0 /\ n \in DOMAIN g.rest /\ DOMAIN g.rest = 1..n
  BY <1>0, <1>1
<1>3. ReadOK(g, fs, nextFileID) /\ UNCHANGED <<files, nextFileID>>
  BY <1>0 DEF ReadInv, GetFromTable, diskVars
<1>4. /\ g.result = Nil
      /\ \A x \in Range(g.rest) : x < nextFileID /\ (x \in DOMAIN fs => x \in Complete(fs))
      /\ ~g.missed =>
           /\ \A i \in DOMAIN g.rest :
                 Holds(fs, g.rest[i], g.key) /\ Clear(g, fs, i) => fs[g.rest[i]][g.key] = g.start
           /\ Clear(g, fs, 0) => g.start = Nil
  BY <1>1, <1>3 DEF ReadOK
<1>. DEFINE hit == f \in Complete(fs) /\ g.key \in DOMAIN fs[f]
            Skipped == /\ h.rest = SubSeq(g.rest, 1, n - 1) /\ (h.done <=> n = 1)
                       /\ h.result = g.result /\ h.start = g.start /\ h.key = g.key
<1>5. CASE hit /\ h = [g EXCEPT !.done = TRUE, !.result = fs[f][g.key]]
  <2>1. h.done /\ h.result = fs[f][g.key] /\ h.start = g.start /\ h.missed = g.missed
    BY <1>1, <1>5 DEF ReadRecord
  <2>2. Clear(g, fs, n)
    BY <1>2 DEF Clear
  <2>3. Holds(fs, g.rest[n], g.key)
    BY <1>0, <1>5 DEF Holds
  <2>4. ~g.missed => fs[f][g.key] = g.start
    BY <1>0, <1>2, <1>4, <2>2, <2>3
  <2>. QED BY <1>0, <1>3, <2>1, <2>4 DEF ReadOK
<1>6. ASSUME Skipped, h.missed \/ (~g.missed /\ f \in DOMAIN fs /\ ~hit)
      PROVE  ReadOK(h, fs, nextFileID) /\ h.start = g.start
  <2>1. /\ h.rest = SubSeq(g.rest, 1, n - 1) /\ (h.done <=> n = 1)
        /\ h.result = Nil /\ h.start = g.start /\ h.key = g.key
    BY <1>4, <1>6
  <2>2. /\ DOMAIN h.rest = 1..(n - 1)
        /\ \A i \in 1..(n - 1) : h.rest[i] = g.rest[i] /\ i \in DOMAIN g.rest /\ i # n
    BY <1>1, <1>2, <2>1
  <2>3. Range(h.rest) \subseteq Range(g.rest)
    BY <2>2 DEF Range
  <2>4. CASE h.missed
    BY <1>4, <2>1, <2>3, <2>4 DEF ReadOK
  <2>5. CASE ~h.missed
    <3>0. ~g.missed
      BY <1>6, <2>5
    <3>1. f \in Complete(fs) /\ g.key \notin DOMAIN fs[f]
      BY <1>0, <1>2, <1>4, <1>6, <2>5 DEF Range
    <3>2. ASSUME NEW i, Clear(h, fs, i) PROVE Clear(g, fs, i)
      <4>. SUFFICES ASSUME NEW j \in DOMAIN g.rest, i < j
                    PROVE  g.rest[j] \in Complete(fs) /\ g.key \notin DOMAIN fs[g.rest[j]]
        BY DEF Clear
      <4>1. CASE j = n
        BY <1>0, <3>1, <4>1
      <4>2. CASE j # n
        <5>1. j \in 1..(n - 1)
          BY <1>2, <4>2
        <5>. QED BY <2>1, <2>2, <3>2, <5>1 DEF Clear
      <4>. QED BY <4>1, <4>2
    <3>3. ASSUME NEW i \in DOMAIN h.rest, Holds(fs, h.rest[i], h.key), Clear(h, fs, i)
          PROVE  fs[h.rest[i]][h.key] = h.start
      <4>1. i \in DOMAIN g.rest /\ h.rest[i] = g.rest[i]
        BY <2>2, <3>3
      <4>. QED BY <1>4, <2>1, <3>0, <3>2, <3>3, <4>1
    <3>4. Clear(h, fs, 0) => h.start = Nil
      BY <1>4, <2>1, <3>0, <3>2
    <3>5. n = 1 => Clear(h, fs, 0)
      BY <2>2 DEF Clear
    <3>. QED BY <1>4, <2>1, <2>3, <2>5, <3>3, <3>4, <3>5 DEF ReadOK
  <2>. QED BY <2>1, <2>4, <2>5
<1>7. ASSUME NEW lost \in BOOLEAN, lost \/ (f \in DOMAIN fs /\ ~hit),
             readers' = [readers EXCEPT ![r].rest = SubSeq(g.rest, 1, n - 1),
                                        ![r].done = (n = 1),
                                        ![r].missed = @ \/ lost]
      PROVE  Skipped /\ (h.missed \/ (~g.missed /\ f \in DOMAIN fs /\ ~hit))
  <2>. HIDE DEF hit
  <2>1. readers \in [Reader -> ReadRecord]
    BY DEF EngineInv, TypeOK
  <2>2. h = [g EXCEPT !.rest = SubSeq(g.rest, 1, n - 1), !.done = (n = 1),
                      !.missed = g.missed \/ lost]
    BY <1>0, <1>7, <2>1
  <2>3. PICK one, gone \in BOOLEAN : one = (n = 1) /\ gone = (g.missed \/ lost)
    OBVIOUS
  <2>4. /\ h.rest = SubSeq(g.rest, 1, n - 1) /\ h.done = one /\ h.missed = gone
        /\ h.result = g.result /\ h.start = g.start /\ h.key = g.key
    BY <1>1, <2>2, <2>3 DEF ReadRecord
  <2>. QED BY <1>7, <2>3, <2>4
<1>8. \/ hit /\ h = [g EXCEPT !.done = TRUE, !.result = fs[f][g.key]]
      \/ Skipped /\ (h.missed \/ (~g.missed /\ f \in DOMAIN fs /\ ~hit))
  <2>1. CASE hit /\ Finish(r, fs[f][g.key])
    BY <1>0, <2>1 DEF Finish, EngineInv, TypeOK
  <2>2. CASE ~hit /\ readers' = [readers EXCEPT ![r].rest = SubSeq(g.rest, 1, n - 1),
                                                ![r].done = (n = 1),
                                                ![r].missed = @ \/ (f \notin DOMAIN fs)]
    <3>1. PICK lost \in BOOLEAN : lost = (f \notin DOMAIN fs)
      OBVIOUS
    <3>. QED BY <1>7, <2>2, <3>1
  <2>3. CASE readers' = [readers EXCEPT ![r].rest = SubSeq(g.rest, 1, n - 1),
                                        ![r].done = (n = 1),
                                        ![r].missed = @ \/ TRUE]
    BY <1>7, <2>3
  <2>4. \/ hit /\ Finish(r, fs[f][g.key])
        \/ ~hit /\ readers' = [readers EXCEPT ![r].rest = SubSeq(g.rest, 1, n - 1),
                                               ![r].done = (n = 1),
                                               ![r].missed = @ \/ (f \notin DOMAIN fs)]
        \/ readers' = [readers EXCEPT ![r].rest = SubSeq(g.rest, 1, n - 1),
                                      ![r].done = (n = 1),
                                      ![r].missed = @ \/ TRUE]
    BY <1>0, Zenon DEF GetFromTable
  <2>. QED BY <2>1, <2>2, <2>3, <2>4
<1>. QED BY <1>0, <1>3, <1>5, <1>6, <1>8

\* The steps that are not a Get's.
LEMMA OthersStep ==
    ASSUME EngineInv, Next, ~Crash,
           \A r \in Reader : ~GetFromTable(r) /\ \A k \in Key : ~GetSnapshot(r, k)
    PROVE  readers' = readers /\ (phase = "running" => phase' = "running")
<1>1. ASSUME NEW k \in Key, NEW v \in Entries, AppendWAL(k, v) \/ AppendFails(k, v)
      PROVE  readers' = readers /\ phase' = phase
  BY <1>1 DEF AppendWAL, AppendFails
<1>2. ASSUME NEW g \in flushers, FlushManifest(g)
      PROVE  readers' = readers /\ (phase = "running" => phase' = "running")
  BY <1>2, NilAssumption DEF FlushManifest, EngineInv, Goroutines
<1>3. ASSUME NEW g \in flushers, FlushStep(g) \/ FlushFails(g)
      PROVE  readers' = readers /\ (phase = "running" => phase' = "running")
  BY <1>2, <1>3 DEF FlushStep, FlushReserve, FlushBlocks, FlushFooter, FlushInstall,
                    FlushDeleteWAL, FlushFails
<1>4. CASE CompactStep \/ CompactFails \/ MergeFails
  BY <1>4 DEF CompactStep, CompactMerge, CompactReserve, CompactWrite, CompactInstall,
              CompactManifest, CompactRemove, CompactFails, MergeFails
<1>5. CASE WriteMemTable \/ PreAllocate \/ InstallNextWAL \/ NewDB \/ OpenFails
  BY <1>5 DEF WriteMemTable, PreAllocate, InstallNextWAL, NewDB, Open, OpenFails,
              OpenWith, RemoveOldWAL, Serve
<1>. QED BY <1>1, <1>3, <1>4, <1>5 DEF Next

LEMMA NotReadingOK == \A fs, m : ReadOK(NotReading, fs, m)
BY DEF NotReading, ReadOK

LEMMA ReadStep ==
    ASSUME Good, Next1, [Next]_vars, LookInv, ReadInv
    PROVE  ReadInv'
<1>. USE DEF Good, Next1
<1>1. CASE Crash
  <2>1. phase' = "down" /\ \A r \in Reader : readers'[r] = NotReading
    BY <1>1 DEF Crash
  <2>. QED BY <2>1, NotReadingOK DEF ReadInv
<1>2. CASE readers' = readers /\ phase # "running"
  BY <1>2, NotReadingOK DEF ReadInv
<1>3. CASE readers' = readers /\ phase = "running" /\ phase' = "running"
  <2>1. \A r \in Reader : ReadOK(readers'[r], files', nextFileID')
    BY <1>3, ReaderKept
  <2>. QED BY <1>3, <2>1 DEF ReadInv
<1>4. ASSUME NEW r \in Reader, NEW k \in Key, GetSnapshot(r, k) PROVE ReadInv'
  <2>1. phase = "running" /\ phase' = "running" /\ \A x \in Reader \ {r} : readers'[x] = readers[x]
    BY <1>4 DEF GetSnapshot, EngineInv, TypeOK
  <2>2. \A x \in Reader : ReadOK(readers'[x], files', nextFileID')
    BY <1>4, <2>1, GetSnapshotRead, ReaderKept
  <2>. QED BY <2>1, <2>2 DEF ReadInv
<1>5. ASSUME NEW r \in Reader, GetFromTable(r) PROVE ReadInv'
  <2>1. phase' = phase /\ ~readers[r].done
    BY <1>5 DEF GetFromTable
  <2>2. phase = "running"
    <3>1. readers[r] # NotReading
      BY <2>1 DEF NotReading
    <3>. QED BY <3>1 DEF ReadInv
  <2>3. \A x \in Reader \ {r} : readers'[x] = readers[x]
    BY <1>5 DEF GetFromTable, Finish, EngineInv, TypeOK
  <2>4. \A x \in Reader : ReadOK(readers'[x], files', nextFileID')
    BY <1>5, <2>1, <2>2, <2>3, GetFromTableRead, ReaderKept
  <2>. QED BY <2>1, <2>2, <2>4 DEF ReadInv
<1>6. CASE UNCHANGED vars
  <2>1. readers' = readers /\ phase' = phase
    BY <1>6 DEF vars
  <2>. QED BY <1>2, <1>3, <2>1
<1>. QED BY <1>1, <1>2, <1>3, <1>4, <1>5, <1>6, OthersStep

AllInv == DataInv /\ ReadInv

LEMMA AllStep == AllInv /\ [Next]_vars => AllInv'
<1>. SUFFICES ASSUME AllInv, [Next]_vars PROVE AllInv'
  OBVIOUS
<1>1. DataInv'
  BY DataStep DEF AllInv
<1>2. CASE damaged'
  BY <1>1, <1>2 DEF AllInv, ReadInv
<1>3. CASE ~damaged'
  <2>1. Good /\ Next1
    BY <1>1, <1>3, DamageStays DEF EngineInv, Good, Next1, DataInv, AllInv
  <2>. QED BY <1>1, <2>1, ReadStep DEF AllInv, DataInv, ValueInv
<1>. QED BY <1>2, <1>3

LEMMA AllInvariant == Spec => []AllInv
<1>1. Init => ReadInv
  BY NotReadingOK DEF Init, ReadInv
<1>2. Init => DataInv
  BY EngineInit, FileInit, OrderInit, ValuesInit DEF DataInv, ValueInv
<1>. QED BY <1>1, <1>2, AllStep, PTL DEF Spec, AllInv

\* A Get returns the value that was the last one written when it took its snapshot
\* under the read lock, whatever was written, switched, flushed, compacted or reloaded
\* while readValFromSSTable read the files without the lock, unless a file of the
\* snapshot was gone or unreadable when the Get came to it, or had been replaced by a
\* merge that could not read all of it.
THEOREM SnapshotRead == Spec => []ReadsSnapshot
<1>1. AllInv => ReadsSnapshot
  BY DEF AllInv, ReadInv, ReadOK, ReadsSnapshot
<1>. QED BY <1>1, AllInvariant, PTL

-----------------------------------------------------------------------------
(* Without compaction no file is removed while the process runs, and the     *)
(* engine implements the map.                                                *)

NoCompaction ==
    ~EnableCompaction => /\ compactor = Idle
                         /\ ~damaged => \A r \in Reader : ~readers[r].done =>
                               Range(readers[r].rest) \subseteq Complete(files)

LEMMA IdleStays ==
    ASSUME ~EnableCompaction, compactor = Idle, [Next]_vars
    PROVE  compactor' = Idle /\ ~CompactRemove
<1>1. compactor.stage = "idle"
  BY DEF Idle
<1>2. ~CompactStep /\ ~CompactFails /\ ~MergeFails
  BY <1>1 DEF CompactStep, CompactMerge, CompactReserve, CompactWrite, CompactInstall,
              CompactManifest, CompactRemove, CompactFails, MergeFails, MayCompact, CanFail
<1>3. ASSUME NEW g, FlushStep(g) \/ FlushFails(g) PROVE compactor' = compactor
  BY <1>3 DEF FlushStep, FlushReserve, FlushBlocks, FlushFooter, FlushInstall, FlushManifest,
              FlushDeleteWAL, FlushFails
<1>4. ASSUME NEW k \in Key, NEW v \in Entries, AppendWAL(k, v) \/ AppendFails(k, v)
      PROVE  compactor' = compactor
  BY <1>4 DEF AppendWAL, AppendFails
<1>5. ASSUME NEW r \in Reader, NEW k \in Key, GetSnapshot(r, k) PROVE compactor' = compactor
  BY <1>5 DEF GetSnapshot
<1>6. ASSUME NEW r \in Reader, GetFromTable(r) PROVE compactor' = compactor
  BY <1>6 DEF GetFromTable
<1>7. CASE \/ WriteMemTable \/ PreAllocate \/ InstallNextWAL \/ NewDB \/ OpenFails \/ Crash
           \/ UNCHANGED vars
  BY <1>2, <1>7 DEF WriteMemTable, PreAllocate, InstallNextWAL, NewDB, Open, OpenFails,
                    OpenWith, RemoveOldWAL, Serve, Crash, CompactStep, vars
<1>. QED BY <1>2, <1>3, <1>4, <1>5, <1>6, <1>7 DEF Next, CompactStep

LEMMA NoCompactionStep == AllInv /\ NoCompaction /\ [Next]_vars => NoCompaction'
<1>. SUFFICES ASSUME AllInv, NoCompaction, [Next]_vars, ~EnableCompaction
              PROVE  NoCompaction'
  BY DEF NoCompaction
<1>1. compactor' = Idle /\ ~CompactRemove
  BY IdleStays DEF NoCompaction
<1>2. SUFFICES ASSUME ~damaged', NEW r \in Reader, ~readers'[r].done
               PROVE  Range(readers'[r].rest) \subseteq Complete(files')
  BY <1>1 DEF NoCompaction
<1>3. AllInv'
  BY AllStep
<1>4. Good /\ Next1
  BY <1>2, <1>3, DamageStays DEF EngineInv, Good, Next1, DataInv, AllInv
<1>5. Kept
  BY <1>1, <1>4, OtherFiles
<1>6. ~Crash
  <2>1. Crash => readers'[r].done
    BY DEF Crash, NotReading
  <2>. QED BY <1>2, <2>1
<1>7. CASE readers'[r] = readers[r]
  BY <1>2, <1>4, <1>5, <1>7 DEF NoCompaction, Good, Kept
<1>8. ASSUME NEW k \in Key, GetSnapshot(r, k)
      PROVE  Range(readers'[r].rest) \subseteq Complete(files')
  <2>1. readers'[r].rest = sstables \/ readers'[r].rest = <<>>
    BY <1>4, <1>8 DEF GetSnapshot, Good, EngineInv, TypeOK
  <2>2. Range(sstables) \subseteq Complete(files)
    BY <1>4, SstablesOnce
  <2>. QED BY <1>5, <2>1, <2>2, BeforeEmpty DEF Kept
<1>9. ASSUME GetFromTable(r) PROVE Range(readers'[r].rest) \subseteq Complete(files')
  <2>1. PICK s, n : s = readers[r].rest /\ n = Len(s)
    OBVIOUS
  <2>2. /\ readers \in [Reader -> ReadRecord] /\ s \in Seq(Nat) /\ s # <<>>
        /\ ~readers[r].done
    BY <1>4, <1>9, <2>1 DEF Good, EngineInv, TypeOK, Shape, ReadRecord, GetFromTable
  <2>3. n \in Nat /\ n # 0 /\ DOMAIN s = 1..n
    BY <2>1, <2>2
  <2>4. readers'[r].rest = s \/ readers'[r].rest = SubSeq(s, 1, n - 1)
    BY <1>9, <2>1, <2>2 DEF GetFromTable, Finish, ReadRecord
  <2>5. Range(SubSeq(s, 1, n - 1)) \subseteq Range(s)
    <3>1. \A i \in DOMAIN SubSeq(s, 1, n - 1) : SubSeq(s, 1, n - 1)[i] = s[i] /\ i \in DOMAIN s
      BY <2>2, <2>3
    <3>. QED BY <3>1 DEF Range
  <2>6. Range(s) \subseteq Complete(files)
    BY <1>4, <2>1, <2>2 DEF NoCompaction, Good
  <2>. QED BY <1>5, <2>4, <2>5, <2>6 DEF Kept
<1>10. ASSUME NEW x \in Reader, x # r, GetFromTable(x) \/ \E k \in Key : GetSnapshot(x, k)
       PROVE  readers'[r] = readers[r]
  BY <1>4, <1>10 DEF GetFromTable, Finish, GetSnapshot, Good, EngineInv, TypeOK
<1>11. CASE UNCHANGED vars
  BY <1>7, <1>11 DEF vars
<1>12. CASE Next /\ \A x \in Reader : ~GetFromTable(x) /\ \A k \in Key : ~GetSnapshot(x, k)
  BY <1>4, <1>6, <1>7, <1>12, OthersStep DEF Good
<1>. QED BY <1>7, <1>8, <1>9, <1>10, <1>11, <1>12

LEMMA NoCompactionInvariant == Spec => [](AllInv /\ NoCompaction)
<1>1. Init => NoCompaction
  BY DEF Init, NoCompaction, NotReading
<1>. QED BY <1>1, NoCompactionStep, AllInvariant, PTL DEF Spec

\* A Get that has all its files left will answer with the value at its start.
LEMMA AnswerFixed ==
    ASSUME NEW g \in ReadRecord, NEW fs, NEW m, ReadOK(g, fs, m), ~g.done, ~g.missed,
           Range(g.rest) \subseteq Complete(fs)
    PROVE  Found(g.rest, fs, g.key) = g.start
<1>1. PICK list, k : list = g.rest /\ k = g.key
  OBVIOUS
<1>2. list \in Seq(Nat) /\ \A i \in DOMAIN list : i \in Nat /\ 0 < i /\ list[i] \in Complete(fs)
  BY <1>1 DEF ReadRecord, Range
<1>3. CASE Holding(list, fs, k) = {}
  <2>1. Clear(g, fs, 0)
    BY <1>1, <1>2, <1>3 DEF Clear, Holding
  <2>. QED BY <1>1, <1>3, <2>1 DEF ReadOK, Found
<1>4. CASE Holding(list, fs, k) # {}
  <2>1. PICK i : i = Greatest(Holding(list, fs, k))
    OBVIOUS
  <2>2. i \in Holding(list, fs, k) /\ \A j \in Holding(list, fs, k) : j <= i
    BY <1>2, <1>4, <2>1, HoldingGreatest
  <2>3. i \in DOMAIN list /\ Holds(fs, list[i], k)
    BY <2>2 DEF Holding, Holds
  <2>4. \A j \in DOMAIN list : i < j => j \notin Holding(list, fs, k)
    BY <1>2, <2>2, <2>3
  <2>5. Clear(g, fs, i)
    BY <1>1, <1>2, <2>4 DEF Clear, Holding
  <2>. QED BY <1>1, <1>4, <2>1, <2>3, <2>5 DEF ReadOK, Found
<1>. QED BY <1>1, <1>3, <1>4

\* What the refinement mapping of KV says the map and the answers are.
MapBar == IF phase = "down" THEN Recovered
          ELSE [k \in Key |-> Lookup(memTable, immTable, sstables, files, k)]

AnswerBar == [r \in Reader |->
                 IF readers[r].done THEN readers[r].result
                 ELSE Lookup(EmptyTable, Nil, readers[r].rest, files, readers[r].key)]

Starts == [r \in Reader |-> readers[r].start]

NoneMissed == \A r \in Reader : ~readers[r].missed

LEMMA MappedState ==
    AllInv /\ NoCompaction /\ ~EnableCompaction /\ ~damaged /\ NoneMissed =>
        MapBar = contents /\ AnswerBar = Starts
<1>. SUFFICES ASSUME AllInv, NoCompaction, ~EnableCompaction, ~damaged,
                     \A r \in Reader : ~readers[r].missed
              PROVE  MapBar = contents /\ AnswerBar = [r \in Reader |-> readers[r].start]
  BY DEF NoneMissed, Starts
<1>1. TypeOK /\ Look /\ \A r \in Reader : ReadOK(readers[r], files, nextFileID)
  BY DEF AllInv, DataInv, EngineInv, ValueInv, LookInv, ReadInv
<1>2. MapBar = contents
  <2>1. contents = [k \in Key |-> contents[k]]
    BY <1>1 DEF TypeOK
  <2>2. CASE phase = "down"
    <3>1. Recovered = [k \in Key |-> Recovered[k]]
      BY DEF Recovered
    <3>. QED BY <1>1, <2>1, <2>2, <3>1 DEF MapBar, Look
  <2>3. CASE phase # "down"
    BY <1>1, <2>1, <2>3 DEF MapBar, Look
  <2>. QED BY <2>2, <2>3
<1>3. ASSUME NEW r \in Reader
      PROVE  (IF readers[r].done THEN readers[r].result
              ELSE Lookup(EmptyTable, Nil, readers[r].rest, files, readers[r].key))
             = readers[r].start
  <2>1. CASE readers[r].done
    BY <1>1, <2>1 DEF ReadOK
  <2>2. CASE ~readers[r].done
    <3>1. PICK g, fs : g = readers[r] /\ fs = files
      OBVIOUS
    <3>2. g \in ReadRecord /\ Range(g.rest) \subseteq Complete(fs) /\ ~g.done /\ ~g.missed
          /\ ReadOK(g, fs, nextFileID)
      BY <1>1, <2>2, <3>1 DEF NoCompaction, TypeOK
    <3>3. Found(g.rest, fs, g.key) = g.start
      BY <3>2, AnswerFixed
    <3>4. Lookup(EmptyTable, Nil, g.rest, fs, g.key) = Found(g.rest, fs, g.key)
      BY LookupParts, EmptyIsTable
    <3>. QED BY <2>2, <3>1, <3>3, <3>4
  <2>. QED BY <2>1, <2>2
<1>4. AnswerBar = [r \in Reader |-> readers[r].start]
  BY <1>3 DEF AnswerBar
<1>. QED BY <1>2, <1>4

LEMMA ContentsStep ==
    ASSUME Next, ~WriteMemTable, ~Crash
    PROVE  contents' = contents
<1>1. ASSUME NEW g, FlushStep(g) \/ FlushFails(g) PROVE contents' = contents
  BY <1>1 DEF FlushStep, FlushReserve, FlushBlocks, FlushFooter, FlushInstall, FlushManifest,
              FlushDeleteWAL, FlushFails, ghostVars
<1>2. ASSUME NEW k \in Key, NEW v \in Entries, AppendWAL(k, v) \/ AppendFails(k, v)
      PROVE  contents' = contents
  BY <1>2 DEF AppendWAL, AppendFails, ghostVars
<1>3. ASSUME NEW r \in Reader, NEW k \in Key, GetSnapshot(r, k) PROVE contents' = contents
  BY <1>3 DEF GetSnapshot, ghostVars
<1>4. ASSUME NEW r \in Reader, GetFromTable(r) PROVE contents' = contents
  BY <1>4 DEF GetFromTable, ghostVars
<1>5. CASE CompactStep \/ CompactFails \/ MergeFails
  BY <1>5 DEF CompactStep, CompactMerge, CompactReserve, CompactWrite, CompactInstall,
              CompactManifest, CompactRemove, CompactFails, MergeFails, ghostVars
<1>6. CASE PreAllocate \/ InstallNextWAL \/ NewDB \/ OpenFails
  BY <1>6 DEF PreAllocate, InstallNextWAL, NewDB, Open, OpenFails, OpenWith, RemoveOldWAL,
              Serve, ghostVars
<1>. QED BY <1>1, <1>2, <1>3, <1>4, <1>5, <1>6 DEF Next

\* What a step does to the last values written and to the values at the start of the
\* Gets is a step of the map.
LEMMA GhostStep ==
    ASSUME AllInv, AllInv', Next, ~damaged'
    PROVE  \/ contents' = contents /\ Starts' = Starts
           \/ \E k \in Key, v \in Value \cup {Nil} :
                 contents' = [contents EXCEPT ![k] = v] /\ Starts' = Starts
           \/ \E r \in Reader, k \in Key :
                 contents' = contents /\ Starts' = [Starts EXCEPT ![r] = contents[k]]
           \/ /\ Starts' = [r \in Reader |-> Nil]
              /\ \/ contents' = contents
                 \/ \E k \in Key, v \in Value \cup {Nil} : contents' = [contents EXCEPT ![k] = v]
<1>1. Good /\ Next1 /\ TypeOK /\ LookInv /\ ReadInv
  BY DamageStays DEF EngineInv, Good, Next1, DataInv, AllInv, ValueInv
<1>2. pending # Nil => pending.key \in Key /\ pending.val \in Value \cup {Nil}
  BY <1>1 DEF TypeOK, Entries
<1>3. CASE WriteMemTable
  <2>1. /\ pending # Nil /\ contents' = [contents EXCEPT ![pending.key] = pending.val]
        /\ readers' = readers
    BY <1>3 DEF WriteMemTable
  <2>. QED BY <1>2, <2>1 DEF Starts
<1>4. CASE Crash
  <2>1. readers' = [r \in Reader |-> NotReading] /\ NotReading.start = Nil
    BY <1>4 DEF Crash, NotReading
  <2>2. Starts' = [r \in Reader |-> Nil]
    BY <2>1 DEF Starts
  <2>3. \/ contents' = contents
        \/ pending # Nil /\ contents' = [contents EXCEPT ![pending.key] = pending.val]
    BY <1>4 DEF Crash
  <2>. QED BY <1>2, <2>2, <2>3
<1>5. ASSUME NEW r \in Reader, NEW k \in Key, GetSnapshot(r, k)
      PROVE  contents' = contents /\ Starts' = [Starts EXCEPT ![r] = contents[k]]
  <2>1. readers'[r].start = contents[k]
    BY <1>1, <1>5, GetSnapshotRead
  <2>2. contents' = contents /\ \A x \in Reader \ {r} : readers'[x] = readers[x]
    BY <1>1, <1>5 DEF GetSnapshot, ghostVars, TypeOK
  <2>. QED BY <2>1, <2>2 DEF Starts
<1>6. ASSUME NEW r \in Reader, GetFromTable(r) PROVE contents' = contents /\ Starts' = Starts
  <2>1. readers'[r].start = readers[r].start
    BY <1>1, <1>6, GetFromTableRead
  <2>2. contents' = contents /\ \A x \in Reader \ {r} : readers'[x] = readers[x]
    BY <1>1, <1>6 DEF GetFromTable, Finish, ghostVars, TypeOK
  <2>3. \A x \in Reader : readers'[x].start = readers[x].start
    BY <2>1, <2>2
  <2>. QED BY <2>2, <2>3 DEF Starts
<1>7. CASE /\ ~WriteMemTable /\ ~Crash
           /\ \A r \in Reader : ~GetFromTable(r) /\ \A k \in Key : ~GetSnapshot(r, k)
  <2>1. contents' = contents /\ readers' = readers
    BY <1>1, <1>7, ContentsStep, OthersStep DEF Good
  <2>. QED BY <2>1 DEF Starts
<1>. QED BY <1>3, <1>4, <1>5, <1>6, <1>7

LEMMA MapStep ==
    ASSUME ~EnableCompaction, AllInv, AllInv', NoCompaction, NoCompaction', Next, ~damaged',
           \A r \in Reader : ~readers[r].missed /\ ~readers'[r].missed
    PROVE  UNCHANGED KV!mapVars \/ KV!Next
<1>1. MapBar = contents /\ AnswerBar = Starts
  <2>1. ~damaged
    BY DamageStays DEF AllInv, DataInv, EngineInv
  <2>. QED BY <2>1, MappedState DEF NoneMissed
<1>2. MapBar' = contents' /\ AnswerBar' = Starts'
  <2>1. (AllInv /\ NoCompaction /\ ~EnableCompaction /\ ~damaged /\ NoneMissed =>
             MapBar = contents /\ AnswerBar = Starts)'
    BY MappedState, PTL
  <2>. QED BY <2>1 DEF NoneMissed
<1>3. \/ MapBar' = MapBar /\ AnswerBar' = AnswerBar
      \/ \E k \in Key, v \in Value \cup {Nil} :
            MapBar' = [MapBar EXCEPT ![k] = v] /\ AnswerBar' = AnswerBar
      \/ \E r \in Reader, k \in Key :
            MapBar' = MapBar /\ AnswerBar' = [AnswerBar EXCEPT ![r] = MapBar[k]]
      \/ /\ AnswerBar' = [r \in Reader |-> Nil]
         /\ \/ MapBar' = MapBar
            \/ \E k \in Key, v \in Value \cup {Nil} : MapBar' = [MapBar EXCEPT ![k] = v]
  BY <1>1, <1>2, GhostStep
<1>. QED BY <1>3, Zenon DEF KV!mapVars, KV!Next, KV!Write, KV!Get, KV!Crash, MapBar, AnswerBar

\* Without compaction the engine implements a map with atomic writes and reads that
\* survives crashes: in every instance, each step of the write path, a flush, a Get or
\* a recovery is a write, a read, the end of the process or nothing in that map, unless
\* a crash fell into a window of Exposed, or a Get or NewDB could not read a file.
THEOREM MapImplemented == ~EnableCompaction /\ Spec => ImplementsMap
<1>. DEFINE A == ~damaged' /\ ~(\E r \in Reader : readers[r].missed \/ readers'[r].missed)
                    => UNCHANGED KV!mapVars \/ KV!Next
<1>1. ASSUME ~EnableCompaction, AllInv, NoCompaction, (AllInv /\ NoCompaction)', [Next]_vars
      PROVE  [A]_vars
  BY <1>1, MapStep
<1>2. ASSUME Init PROVE KV!Init
  <2>1. /\ phase = "down" /\ contents = [k \in Key |-> Nil]
        /\ readers = [r \in Reader |-> NotReading] /\ damaged = FALSE
    BY <1>2 DEF Init
  <2>2. Recovered = [k \in Key |-> Nil]
    <3>1. \A k \in Key : Recovered[k] = Nil
      BY <1>2, <2>1, ValuesInit DEF LookInv, Look
    <3>2. Recovered = [k \in Key |-> Recovered[k]]
      BY DEF Recovered
    <3>. QED BY <3>1, <3>2
  <2>3. MapBar = [k \in Key |-> Nil]
    BY <2>1, <2>2 DEF MapBar
  <2>4. AnswerBar = [r \in Reader |-> Nil]
    BY <2>1 DEF AnswerBar, NotReading
  <2>. QED BY <2>3, <2>4, Zenon DEF KV!Init, MapBar, AnswerBar
<1>3. ~EnableCompaction /\ (AllInv /\ NoCompaction) /\ (AllInv /\ NoCompaction)' /\ [Next]_vars
      => [A]_vars
  BY <1>1
<1>4. ~EnableCompaction => (~EnableCompaction)'
  OBVIOUS
<1>. QED BY <1>2, <1>3, <1>4, NoCompactionInvariant, PTL DEF Spec, ImplementsMap

=============================================================================
