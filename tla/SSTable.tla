------------------------------ MODULE SSTable -------------------------------
(***************************************************************************)
(* What LSM takes as given about a single table: the sorted slice of the   *)
(* memtable, the data blocks and the index writeSSTable lays out, the      *)
(* range filter, the binary search and the block scan of a lookup, the     *)
(* iterators and the heap of the K-way merge, and the metadata NewDB       *)
(* rebuilds from a file.                                                   *)
(*                                                                         *)
(* Keys are numbers of one byte in the order of bytes.Compare, a value is  *)
(* its length (different values have different lengths), and a data region *)
(* is the sequence of its records with their sizes in bytes.  Here nothing *)
(* runs concurrently and a table is installed where it belongs:            *)
(* interleavings, crashes and the order of the list are LSM's subject.     *)
(***************************************************************************)
EXTENDS Integers, Sequences, SequencesExt

CONSTANTS
    Key,                  \* numbers, in the order of bytes.Compare
    Value,                \* lengths of the (non-empty) values of Put
    Nil,                  \* nil: the Value of a tombstone
    BlockSize,            \* the 4096 of writeSSTable, in bytes
    CompactionThreshold,  \* db.compactionThreshold
    MaxWrites             \* bound: Put and Delete calls

ASSUME FormatAssumption ==
    /\ Key \subseteq Nat /\ Value \subseteq Nat \ {0} /\ Nil \notin Nat
    /\ BlockSize \in Nat \ {0} /\ CompactionThreshold \in Nat \ {0, 1}
    /\ MaxWrites \in Nat

VARIABLES
    pairs, size,    \* fields of MemTable
    tables,         \* db.sstables, oldest first: the file and its SSTableMeta
    merge,          \* doMerge's local state, or NoMerge
    writes,         \* counted against the bound
    contents        \* history: the last value written to each key

vars == <<pairs, size, tables, merge, writes, contents>>

KeyLength == 1

Length(v) == IF v = Nil THEN 0 ELSE v

\* Two length fields of four bytes, the key and the value
RecordSize(p) == 4 + KeyLength + 4 + Length(p.val)

\* Size of the first n records: where the next one begins
Bytes(s, n) ==
    LET sum[i \in 0..Len(s)] == IF i = 0 THEN 0 ELSE sum[i - 1] + RecordSize(s[i])
    IN  sum[n]

\* A round of the loop of sort.Search on the interval x
Halved(x, atLeast) ==
    LET h == (x.i + x.j) \div 2
    IN  IF x.i >= x.j THEN x
        ELSE IF h + 1 \in atLeast THEN [x EXCEPT !.j = h]
        ELSE [x EXCEPT !.i = h + 1]

\* sort.Search: the least position in 1..n that is in the set, or n + 1.  After n
\* rounds nothing is left of the interval.
Search(n, atLeast) ==
    LET narrow[r \in 0..n] ==
            IF r = 0 THEN [i |-> 0, j |-> n] ELSE Halved(narrow[r - 1], atLeast)
    IN  narrow[n].i + 1

-----------------------------------------------------------------------------
(* MemTable.                                                                 *)

\* Mutant: the search stops behind an equal key.
BehindEqual(s, k) == Search(Len(s), {i \in DOMAIN s : s[i].key > k})

\* The position of k in pairs, or the one it is to be inserted at
Position(s, k) == Search(Len(s), {i \in DOMAIN s : s[i].key >= k})

HasAt(s, i, k) == i <= Len(s) /\ s[i].key = k

\* Mutant: an overwritten value takes its key's share with it.
KeyTwice(old, v) == Length(v) - Length(old) - KeyLength

Growth(old, v) == Length(v) - Length(old)

\* Put, and Delete when v is Nil
Put(k, v) ==
    /\ merge.iters = {} /\ writes < MaxWrites
    /\ LET i == Position(pairs, k)
       IN  \/ /\ HasAt(pairs, i, k)
              /\ size' = size + Growth(pairs[i].val, v)
              /\ pairs' = [pairs EXCEPT ![i].val = v]
           \/ /\ ~HasAt(pairs, i, k)
              /\ size' = size + KeyLength + Length(v)
              /\ pairs' = InsertAt(pairs, i, [key |-> k, val |-> v])
    /\ writes' = writes + 1
    /\ contents' = [contents EXCEPT ![k] = v]
    /\ UNCHANGED <<tables, merge>>

\* MemTable.Get: the value, if there is an entry
MemGet(k) ==
    LET i == Position(pairs, k) IN IF HasAt(pairs, i, k) THEN {pairs[i].val} ELSE {}

-----------------------------------------------------------------------------
(* writeSSTable: records are buffered and written as a block when the buffer *)
(* has reached BlockSize, and after the last record.                         *)

\* Mutant: the buffer is not reset after a block was written.
NeverReset(s) == [i \in 0..Len(s) |-> Bytes(s, i)]

\* Bytes in the buffer after each record was added to it
Buffered(s) ==
    LET filled[i \in 0..Len(s)] ==
            IF i = 0 THEN 0
            ELSE (IF filled[i - 1] >= BlockSize THEN 0 ELSE filled[i - 1]) + RecordSize(s[i])
    IN  filled

\* The positions of the records that end a block
BlockEnds(s) ==
    LET ends[i \in 0..Len(s)] ==
            IF i = 0 THEN <<>>
            ELSE IF Buffered(s)[i] >= BlockSize \/ i = Len(s) THEN Append(ends[i - 1], i)
            ELSE ends[i - 1]
    IN  ends[Len(s)]

\* Mutant: the index holds the first key of a block.
FirstKeys(s) ==
    LET ends == BlockEnds(s)
    IN  [b \in DOMAIN ends |->
            [maxKey |-> s[IF b = 1 THEN 1 ELSE ends[b - 1] + 1].key,
             offset |-> Bytes(s, ends[b]) - Buffered(s)[ends[b]],
             size   |-> Buffered(s)[ends[b]]]]

IndexOf(s) ==
    LET ends == BlockEnds(s)
    IN  [b \in DOMAIN ends |->
            [maxKey |-> s[ends[b]].key,
             offset |-> Bytes(s, ends[b]) - Buffered(s)[ends[b]],
             size   |-> Buffered(s)[ends[b]]]]

\* writeSSTable, and the metadata flush and doCompaction make
Written(s) == [data |-> s, index |-> IndexOf(s), minKey |-> s[1].key, maxKey |-> Last(s).key]

\* What loadSSTables reads back: the index, the first key of the file, and the
\* last key of the index
Loaded(t) == [t EXCEPT !.minKey = t.data[1].key, !.maxKey = Last(t.index).maxKey]

-----------------------------------------------------------------------------
(* Lookups and scans.                                                        *)

\* The records between two offsets of the file
ReadAt(t, offset, n) ==
    LET inside == {i \in DOMAIN t.data : /\ Bytes(t.data, i - 1) >= offset
                                         /\ Bytes(t.data, i) <= offset + n}
    IN  IF inside = {} THEN <<>> ELSE SubSeq(t.data, Min(inside), Max(inside))

\* The value, if the block the index leads to has the key
readValFromSSTable(t, k) ==
    LET b == Search(Len(t.index), {i \in DOMAIN t.index : t.index[i].maxKey >= k})
        block == ReadAt(t, t.index[b].offset, t.index[b].size)
        i == SelectInSeq(block, LAMBDA p : p.key = k)
    IN  IF b > Len(t.index) \/ i = 0 THEN {} ELSE {block[i].val}

\* The range filter of Get, and the lookup behind it
Found(t, k) == IF k < t.minKey \/ k > t.maxKey THEN {} ELSE readValFromSSTable(t, k)

\* Get, whose immTable is a memtable like any other
Get(k) ==
    LET hits == {i \in DOMAIN tables : Found(tables[i], k) # {}}
    IN  IF MemGet(k) # {} THEN MemGet(k)
        ELSE IF hits # {} THEN Found(tables[Max(hits)], k)
        ELSE {Nil}

\* What a SSTableIterator goes through: the file up to the end of the last block
Scan(t) == ReadAt(t, 0, Last(t.index).offset + Last(t.index).size)

-----------------------------------------------------------------------------
(* doMerge: iters are the iterators in the heap, pos the record each is at.  *)

NoMerge == [iters |-> {}, pos |-> <<>>, lastKey |-> Nil, built |-> <<>>]

Current(i) == Scan(tables[i])[merge.pos[i]]

\* Mutant: of two equal keys the older table's comes first.
OlderFirst(i, j) ==
    \/ Current(i).key < Current(j).key
    \/ Current(i).key = Current(j).key /\ i < j

Less(i, j) ==
    \/ Current(i).key < Current(j).key
    \/ Current(i).key = Current(j).key /\ i > j

\* SSTableBuilder.Append
Appended(built, p) ==
    IF built # <<>> /\ Last(built).key = p.key
    THEN [built EXCEPT ![Len(built)].val = p.val]
    ELSE Append(built, p)

\* doCompaction opens an iterator per table, each at its first record.
MergeBegin ==
    /\ merge.iters = {} /\ Len(tables) >= CompactionThreshold
    /\ merge' = [NoMerge EXCEPT !.iters = DOMAIN tables, !.pos = [i \in DOMAIN tables |-> 1]]
    /\ UNCHANGED <<pairs, size, tables, writes, contents>>

\* The rest of doCompaction once the heap is empty: write, replace.
Installed(m) ==
    IF m.iters # {} THEN [tables |-> tables, merge |-> m]
    ELSE [tables |-> <<Written(m.built)>>, merge |-> NoMerge]

\* Pop, append unless the key was the last one, advance, push.
MergeStep ==
    \E i \in merge.iters :
        /\ \A j \in merge.iters \ {i} : Less(i, j)
        /\ LET p    == Current(i)
               more == merge.pos[i] < Len(Scan(tables[i]))
               m    == [merge EXCEPT
                          !.pos[i]  = @ + 1,
                          !.iters   = IF more THEN @ ELSE @ \ {i},
                          !.built   = IF merge.lastKey = p.key THEN @ ELSE Appended(@, p),
                          !.lastKey = p.key]
           IN  /\ tables' = Installed(m).tables
               /\ merge' = Installed(m).merge
        /\ UNCHANGED <<pairs, size, writes, contents>>

-----------------------------------------------------------------------------
\* flush, where the list has room: LSM has the flushes that race a merge
Flush ==
    /\ merge.iters = {} /\ pairs # <<>> /\ Len(tables) < CompactionThreshold
    /\ tables' = Append(tables, Written(pairs))
    /\ pairs' = <<>> /\ size' = 0
    /\ UNCHANGED <<merge, writes, contents>>

\* NewDB with nothing in the log
Reopen ==
    /\ merge.iters = {} /\ pairs = <<>>
    /\ tables' = [i \in DOMAIN tables |-> Loaded(tables[i])]
    /\ UNCHANGED <<pairs, size, merge, writes, contents>>

Init ==
    /\ pairs = <<>> /\ size = 0
    /\ tables = <<>> /\ merge = NoMerge
    /\ writes = 0 /\ contents = [k \in Key |-> Nil]

Next ==
    \/ \E k \in Key, v \in Value \cup {Nil} : Put(k, v)
    \/ Flush
    \/ MergeBegin
    \/ MergeStep
    \/ Reopen

Spec == Init /\ [][Next]_vars

-----------------------------------------------------------------------------
(* Properties.                                                               *)

Record == [key : Key, val : Value \cup {Nil}]

\* Records, sizes and positions keep their types; the size that triggers a flush
\* never drops below zero.
TypeOK ==
    /\ pairs \in Seq(Record) /\ size \in Nat /\ writes \in 0..MaxWrites
    /\ \A t \in ToSet(tables) : t.data \in Seq(Record) /\ {t.minKey, t.maxKey} \subseteq Key
    /\ merge.iters \subseteq DOMAIN tables /\ merge.built \in Seq(Record)
    /\ contents \in [Key -> Value \cup {Nil}]

Ascending(s) == \A i, j \in DOMAIN s : i < j => s[i].key < s[j].key

\* The slice of the memtable stays sorted without duplicates, on which its own
\* search, the cutting of blocks and the merge rely, and size is what it holds.
MemTableExact ==
    /\ Ascending(pairs)
    /\ size = Bytes(pairs, Len(pairs)) - 8 * Len(pairs)

\* The blocks the index points to are the data region, in order and without gaps,
\* and only the last one is smaller than BlockSize.
BlocksTile ==
    \A t \in ToSet(tables) :
        LET block(b) == ReadAt(t, t.index[b].offset, t.index[b].size)
        IN  /\ FlattenSeq([b \in DOMAIN t.index |-> block(b)]) = t.data
            /\ \A b \in DOMAIN t.index :
                   t.index[b].size >= BlockSize \/ b = Len(t.index)

\* A lookup, through search, filter, index and block, returns the last value
\* written, tombstones and overwritten values included, whatever was flushed,
\* merged or loaded again.
GetExact == \A k \in Key : Get(k) = {contents[k]}

\* The loop invariant of the merge: the builder is sorted, has exactly the keys
\* that some iterator has passed, and for each the entry of the newest table
\* that has the key.
MergeExact ==
    LET holds(i)  == {p.key : p \in ToSet(tables[i].data)}
        passed(i) == {p.key : p \in ToSet(SubSeq(tables[i].data, 1, merge.pos[i] - 1))}
        newest(k) == Max({i \in DOMAIN tables : k \in holds(i)})
    IN  merge.iters # {} =>
            /\ Ascending(merge.built)
            /\ {p.key : p \in ToSet(merge.built)} = UNION {passed(i) : i \in DOMAIN tables}
            /\ \A p \in ToSet(merge.built) : p \in ToSet(tables[newest(p.key)].data)
=============================================================================
