-------------------------------- MODULE LSM ---------------------------------
(***************************************************************************)
(* The storage engine of one node, internal/lsm and internal/wal: the      *)
(* write path (log, memtable, switch, background flush), the lock-free     *)
(* part of Get, the background compaction, and NewDB on whatever files a   *)
(* crash left behind.                                                      *)
(*                                                                         *)
(* A table is a function from keys to values, with Nil for a tombstone     *)
(* (the nil Value of KVPair); a missing key is not in its domain.  A WAL   *)
(* file is the table its Replay builds.  The three directories of the disk *)
(* (sst/, wal/, manifest.log) survive a crash, everything else is memory.  *)
(* A critical section of db.mu is one action, and so is each step of a     *)
(* goroutine that another one, or a crash, can come between.               *)
(***************************************************************************)
EXTENDS Integers, Sequences, FiniteSets, Functions

CONSTANTS
    Key, Value,           \* keys and (non-empty) values of Put
    Reader,               \* HTTP handlers in GetLocalIfLeader, and the apply loop's GETs
    Nil,                  \* nil
    Short, Torn,          \* an .sst file with less than FooterSize bytes / without a footer
    EnableCompaction,     \* Options.EnableCompaction
    FlushSize,            \* the 4096 of checkAndFlush, in keys and values
    CompactionThreshold,  \* db.compactionThreshold
    MaxWrites,            \* bound: Put and Delete calls
    MaxCrashes,           \* bound: crashes
    MaxErrors             \* bound: file operations that return an error

ASSUME NilAssumption ==
    /\ Nil \notin Value \cup Nat
    /\ EnableCompaction \in BOOLEAN

ASSUME SizeAssumption ==
    /\ FlushSize \in Nat \ {0}
    /\ CompactionThreshold \in Nat \ {0}
    /\ MaxWrites \in Nat
    /\ MaxCrashes \in Nat
    /\ MaxErrors \in Nat

VARIABLES
    memTable, immTable,     \* fields of DB
    sstables, nextFileID,
    wal, nextwal, walFileID,
    walNotifyCh,    \* whether the channel holds its one token
    allocating,     \* walPreAllocator has created a file and not yet installed it
    pending,        \* the write that is in the WAL and not yet in memTable, or Nil
    flushers,       \* flush goroutines under way
    compactor,      \* where the goroutine of StartCompactionLoop is
    readers,        \* per reader: the Get it is in, or its last one
    phase,          \* of the process: "down", "flush" and "clean" (in NewDB), "running"
    files,          \* sst/: id -> table, Short or Torn
    manifest,       \* last line of manifest.log
    wals,           \* wal/: id -> table
    writes, crashes, errors,  \* counted against the bounds
    contents,       \* history: what the writes so far put into the map
    damaged         \* history: a crash hit a window of Exposed, a merged table was
                    \* Misplaced, or a failing file operation changed what is stored

memVars   == <<memTable, immTable, sstables>>
walVars   == <<wal, nextwal, walFileID, walNotifyCh, allocating>>
diskVars  == <<files, manifest, wals>>
boundVars == <<writes, crashes, errors>>
ghostVars == <<contents, damaged>>
vars == <<memVars, nextFileID, walVars, pending, flushers, compactor, readers,
          phase, diskVars, boundVars, ghostVars>>

-----------------------------------------------------------------------------
(* Tables and lists of tables.                                               *)

Entries == Value \cup {Nil}
Table   == UNION {[S -> Entries] : S \in SUBSET Key}

EmptyTable == [k \in {} |-> Nil]

\* A missing table or write and a broken file are not taken for anything else.
ASSUME FileAssumption ==
    /\ Nil \notin Table /\ Nil \notin [key : Key, val : Entries]
    /\ Short \notin Table /\ Torn \notin Table /\ Short # Torn

\* Function t where it is defined, u elsewhere.
Over(t, u) == [x \in DOMAIN t \cup DOMAIN u |-> IF x \in DOMAIN t THEN t[x] ELSE u[x]]

Single(k, v) == [x \in {k} |-> v]

\* Table t after k was set to v.
With(t, k, v) == Over(Single(k, v), t)

ValueOf(t, k) == IF k \in DOMAIN t THEN t[k] ELSE Nil

\* memTable.size with keys and values of length 1
Size(t) == Cardinality(DOMAIN t) + Cardinality({k \in DOMAIN t : t[k] # Nil})

Complete(fs) == {f \in DOMAIN fs : fs[f] \notin {Short, Torn}}

\* The positions of list whose file holds k.
Holding(list, fs, k) ==
    {i \in DOMAIN list : list[i] \in Complete(fs) /\ k \in DOMAIN fs[list[i]]}

Greatest(S) == CHOOSE x \in S : \A y \in S : y <= x

\* Mutant: of two equal keys the one of the older table is kept.
OldestFirst(list, fs) ==
    [k \in {x \in Key : Holding(list, fs, x) # {}} |->
        fs[list[CHOOSE i \in Holding(list, fs, k) :
                  \A j \in Holding(list, fs, k) : i <= j]][k]]

\* The K-way merge: for every key the entry of the last table that has it,
\* tombstones included.
doMerge(list, fs) ==
    [k \in {x \in Key : Holding(list, fs, x) # {}} |->
        fs[list[Greatest(Holding(list, fs, k))]][k]]

\* What a Get of k finds that looks at memTable, immTable and then the tables of
\* list, newest first.
Lookup(mem, imm, list, fs, k) ==
    IF k \in DOMAIN mem THEN mem[k]
    ELSE IF imm # Nil /\ k \in DOMAIN imm THEN imm[k]
    ELSE LET held == Holding(list, fs, k)
         IN  IF held = {} THEN Nil ELSE fs[list[Greatest(held)]][k]

Ascending(S) ==
    [i \in 1..Cardinality(S) |->
        CHOOSE x \in S : Cardinality({y \in S : y <= x}) = i]

\* The elements of list that are in S, in the order of list.
Among(list, S) ==
    LET at == Ascending({i \in DOMAIN list : list[i] \in S})
    IN  [n \in DOMAIN at |-> list[at[n]]]

-----------------------------------------------------------------------------
(* What NewDB makes of the files on disk.                                    *)

\* Mutant: files the manifest does not list are taken for the oldest.
UnlistedFirst(line, ids) ==
    Ascending(ids \ Range(line)) \o Among(line, ids)

\* The order of the last manifest line, then the files it does not list.
applyManifestOrder(line, ids) ==
    Among(line, ids) \o Ascending(ids \ Range(line))

TornFiles(fs) == {f \in DOMAIN fs : fs[f] = Torn}

\* A file without the magic number ends the loop with an error and leaves
\* db.sstables empty; a file shorter than the footer is skipped.
loadSSTables(fs, line) ==
    IF TornFiles(fs) # {} THEN <<>> ELSE applyManifestOrder(line, Complete(fs))

\* Mutant: ids start over after a restart.
FirstIDAgain(fs) == 1

\* The files the loop reads to their end, when all reads succeed.
Reached(fs) == {f \in Complete(fs) : \A t \in TornFiles(fs) : f < t}

\* bumpNextFileID over the files the loop reaches.
NextIDAfterLoad(fs) ==
    IF Reached(fs) = {} THEN 1 ELSE Greatest(Reached(fs)) + 1

\* A failing read of the directory, a table or the manifest ends loadSSTables too:
\* the list stays empty, and ids are bumped past the files read before.
LoadFailures(fs) ==
    {[list |-> <<>>, id |-> n] : n \in {1} \cup {f + 1 : f \in Reached(fs)}}

\* Mutant: the WAL files are not sorted before they are replayed.
OldestWALLast(ws) ==
    LET with(k) == {w \in DOMAIN ws : k \in DOMAIN ws[w]}
    IN  [k \in {x \in Key : with(x) # {}} |->
            ws[CHOOSE w \in with(k) : \A y \in with(k) : w <= y][k]]

\* Replay every WAL file in ascending order into one memtable.
RecoverFromWAL(ws) ==
    LET with(k) == {w \in DOMAIN ws : k \in DOMAIN ws[w]}
    IN  [k \in {x \in Key : with(x) # {}} |-> ws[Greatest(with(k))][k]]

NextWALAfterReplay(ws) == IF DOMAIN ws = {} THEN 1 ELSE Greatest(DOMAIN ws) + 1

\* What is replayed when reads fail: a file that cannot be opened is skipped, and
\* of one that is read in part, keys are missing or have an older value (any one
\* here, since a WAL is kept as the table of its last values).
ReplayFailures(ws) == {m \in Table : DOMAIN m \subseteq DOMAIN RecoverFromWAL(ws)}

\* The map a client would see after a crash in the present state.
Recovered ==
    LET m    == RecoverFromWAL(wals)
        list == loadSSTables(files, manifest)
    IN  [k \in Key |-> Lookup(m, Nil, list, files, k)]

-----------------------------------------------------------------------------
Idle == [stage |-> "idle", picked |-> <<>>, table |-> EmptyTable,
         file |-> 0, line |-> <<>>]

NotReading == [key |-> Nil, rest |-> <<>>, done |-> TRUE, result |-> Nil,
               start |-> Nil, missed |-> FALSE]

\* An empty directory, and no process yet.
Init ==
    /\ memTable = EmptyTable /\ immTable = Nil
    /\ sstables = <<>> /\ nextFileID = 1
    /\ wal = Nil /\ nextwal = Nil /\ walFileID = 1
    /\ walNotifyCh = FALSE /\ allocating = FALSE
    /\ pending = Nil /\ flushers = {} /\ compactor = Idle
    /\ readers = [r \in Reader |-> NotReading]
    /\ phase = "down"
    /\ files = <<>> /\ manifest = <<>> /\ wals = <<>>
    /\ writes = 0 /\ crashes = 0 /\ errors = 0
    /\ contents = [k \in Key |-> Nil] /\ damaged = FALSE

-----------------------------------------------------------------------------
(* The write path.  Its only caller is the apply loop of the store, so one   *)
(* write is under way at a time.                                             *)

\* Put and Delete, first half: append to the active WAL and sync it.
AppendWAL(k, v) ==
    /\ phase = "running" /\ pending = Nil /\ writes < MaxWrites
    /\ wals' = [wals EXCEPT ![wal] = With(@, k, v)]
    /\ pending' = [key |-> k, val |-> v]
    /\ writes' = writes + 1
    /\ UNCHANGED <<memVars, nextFileID, walVars, flushers, compactor, readers,
                   phase, files, manifest, crashes, errors, ghostVars>>

\* The append returns an error, and so does Put: nothing was written, or the
\* record is there and only the sync failed.
AppendFails(k, v) ==
    /\ phase = "running" /\ pending = Nil /\ writes < MaxWrites /\ errors < MaxErrors
    /\ \/ UNCHANGED <<wals, damaged>>
       \/ wals' = [wals EXCEPT ![wal] = With(@, k, v)] /\ damaged' = TRUE
    /\ writes' = writes + 1
    /\ errors' = errors + 1
    /\ UNCHANGED <<memVars, nextFileID, walVars, pending, flushers, compactor, readers,
                   phase, files, manifest, crashes, contents>>

\* Mutant: the switch does not wait for the next WAL.
IgnoreNextWAL(m) == Size(m) >= FlushSize /\ immTable = Nil

\* Mutant: the switch does not look at immTable.
IgnoreImm(m) == Size(m) >= FlushSize /\ nextwal # Nil

\* checkAndFlush goes on to switch tables.
MustSwitch(m) == Size(m) >= FlushSize /\ immTable = Nil /\ nextwal # Nil

\* Mutant: the pre-allocator is not told that its file is used up.
KeepQuiet == walNotifyCh

\* The non-blocking send of checkAndFlush on a channel of capacity one.
Notified == TRUE

\* Put and Delete, second half, under db.mu: memTable.Put and checkAndFlush.
WriteMemTable ==
    /\ pending # Nil
    /\ LET m == With(memTable, pending.key, pending.val)
       IN  \/ /\ MustSwitch(m)
              /\ immTable' = m
              /\ memTable' = EmptyTable
              /\ wal' = nextwal
              /\ nextwal' = Nil
              /\ walNotifyCh' = Notified
              /\ flushers' = flushers \cup {[stage |-> "reserve", table |-> m,
                                             oldWal |-> wal, file |-> 0, line |-> <<>>]}
           \/ /\ ~MustSwitch(m)
              /\ memTable' = m
              /\ UNCHANGED <<immTable, wal, nextwal, walNotifyCh, flushers>>
    /\ contents' = [contents EXCEPT ![pending.key] = pending.val]
    /\ pending' = Nil
    /\ UNCHANGED <<sstables, nextFileID, walFileID, allocating, compactor, readers,
                   phase, diskVars, boundVars, damaged>>

\* walPreAllocator takes the token and opens the next file ...
PreAllocate ==
    /\ phase = "running" /\ walNotifyCh /\ ~allocating
    /\ walNotifyCh' = FALSE
    /\ \/ /\ wals' = Over(wals, Single(walFileID, EmptyTable))
          /\ allocating' = TRUE
          /\ UNCHANGED errors
       \/ /\ errors < MaxErrors        \* OpenWAL fails: the token is gone
          /\ errors' = errors + 1
          /\ UNCHANGED <<wals, allocating>>
    /\ UNCHANGED <<memVars, nextFileID, wal, nextwal, walFileID, pending, flushers,
                   compactor, readers, phase, files, manifest, writes, crashes, ghostVars>>

\* ... and installs it under db.mu.
InstallNextWAL ==
    /\ allocating
    /\ allocating' = FALSE
    /\ nextwal' = walFileID
    /\ walFileID' = walFileID + 1
    /\ UNCHANGED <<memVars, nextFileID, wal, walNotifyCh, pending, flushers, compactor,
                   readers, phase, diskVars, boundVars, ghostVars>>

-----------------------------------------------------------------------------
(* flush: reserve an id and create the file, write data blocks, write index  *)
(* and footer, install, persist the manifest, delete the old WAL.  The one   *)
(* NewDB calls has no old WAL, and NewDB goes on when it returns.            *)

Advance(g, h) == flushers' = (flushers \ {g}) \cup {h}

\* Mutant: the id is read outside the lock and not advanced.
SameID == nextFileID

\* reserveNextFileID
AdvancedID == nextFileID + 1

\* flush, up to os.Create in writeSSTable
FlushReserve(g) ==
    /\ g.stage = "reserve"
    /\ files' = With(files, nextFileID, Short)
    /\ nextFileID' = AdvancedID
    /\ Advance(g, [g EXCEPT !.stage = "blocks", !.file = nextFileID])
    /\ UNCHANGED <<memVars, walVars, pending, compactor, readers, phase, manifest, wals,
                   boundVars, ghostVars>>

\* writeSSTable: data blocks, no footer yet
FlushBlocks(g) ==
    /\ g.stage = "blocks"
    /\ files' = [files EXCEPT ![g.file] = Torn]
    /\ Advance(g, [g EXCEPT !.stage = "footer"])
    /\ UNCHANGED <<memVars, nextFileID, walVars, pending, compactor, readers, phase, manifest,
                   wals, boundVars, ghostVars>>

\* writeSSTable: index, footer, sync
FlushFooter(g) ==
    /\ g.stage = "footer"
    /\ files' = [files EXCEPT ![g.file] = g.table]
    /\ Advance(g, [g EXCEPT !.stage = "install"])
    /\ UNCHANGED <<memVars, nextFileID, walVars, pending, compactor, readers, phase, manifest,
                   wals, boundVars, ghostVars>>

\* flush returns on an error of os.Create, a write, or the final sync, when the
\* file is complete: immTable stays, and so does the old WAL, unless NewDB called
\* flush, which goes on to delete every WAL.
FlushFails(g) ==
    /\ g.stage \in {"reserve", "blocks", "footer", "install"} /\ errors < MaxErrors
    /\ errors' = errors + 1
    /\ nextFileID' = IF g.stage = "reserve" THEN AdvancedID ELSE nextFileID
    /\ flushers' = flushers \ {g}
    /\ phase' = IF phase = "flush" THEN "clean" ELSE phase
    /\ damaged' = (damaged \/ phase = "flush")
    /\ UNCHANGED <<memVars, walVars, pending, compactor, readers, diskVars, writes,
                   crashes, contents>>

\* Mutant: the new table goes to the old end of the list.
Prepended(list, f) == <<f>> \o list

Appended(list, f) == Append(list, f)

\* Mutant: immTable is not reset.
InstallKeepsImm(g) ==
    /\ g.stage = "install"
    /\ sstables' = Append(sstables, g.file)
    /\ Advance(g, [g EXCEPT !.stage = "manifest", !.line = sstables'])
    /\ UNCHANGED <<memTable, immTable, nextFileID, walVars, pending, compactor, readers,
                   phase, diskVars, boundVars, ghostVars>>

\* installFlushedTable, under db.mu
FlushInstall(g) ==
    /\ g.stage = "install"
    /\ sstables' = Appended(sstables, g.file)
    /\ immTable' = Nil
    /\ Advance(g, [g EXCEPT !.stage = "manifest", !.line = sstables'])
    /\ UNCHANGED <<memTable, nextFileID, walVars, pending, compactor, readers, phase,
                   diskVars, boundVars, ghostVars>>

\* persistManifest: the line is appended; an error, before the line is written or of
\* the sync after it, is only printed.
persistManifest(line) ==
    \/ manifest' = line /\ UNCHANGED errors
    \/ errors < MaxErrors /\ errors' = errors + 1 /\ manifest' \in {manifest, line}

\* persistManifest, called by installFlushedTable
FlushManifest(g) ==
    /\ g.stage = "manifest"
    /\ persistManifest(g.line)
    /\ \/ /\ g.oldWal = Nil
          /\ flushers' = flushers \ {g}
          /\ phase' = "clean"
       \/ /\ g.oldWal # Nil
          /\ Advance(g, [g EXCEPT !.stage = "delete"])
          /\ UNCHANGED phase
    /\ UNCHANGED <<memVars, nextFileID, walVars, pending, compactor, readers, files, wals,
                   writes, crashes, ghostVars>>

\* WAL.Delete, called by installFlushedTable; an error is only printed
FlushDeleteWAL(g) ==
    /\ g.stage = "delete"
    /\ \/ wals' = Restrict(wals, DOMAIN wals \ {g.oldWal}) /\ UNCHANGED errors
       \/ errors < MaxErrors /\ errors' = errors + 1 /\ UNCHANGED wals
    /\ flushers' = flushers \ {g}
    /\ UNCHANGED <<memVars, nextFileID, walVars, pending, compactor, readers, phase, files,
                   manifest, writes, crashes, ghostVars>>

-----------------------------------------------------------------------------
(* Get.  Everything before the file reads is under the read lock.            *)

Finish(r, v) == readers' = [readers EXCEPT ![r].done = TRUE, ![r].result = v]

\* memTable, immTable, and a snapshot of the list
GetSnapshot(r, k) ==
    /\ phase = "running" /\ readers[r].done
    /\ LET cached == Over(memTable, IF immTable = Nil THEN EmptyTable ELSE immTable)
           hit    == k \in DOMAIN cached \/ sstables = <<>>
       IN  readers' = [readers EXCEPT ![r] =
             [key |-> k, rest |-> IF hit THEN <<>> ELSE sstables, done |-> hit,
              result |-> ValueOf(cached, k), start |-> contents[k], missed |-> FALSE]]
    /\ UNCHANGED <<memVars, nextFileID, walVars, pending, flushers, compactor, phase,
                   diskVars, boundVars, ghostVars>>

\* readValFromSSTable on the newest file of the snapshot that is left; a file
\* that cannot be opened or read counts as one without the key.
GetFromTable(r) ==
    LET g == readers[r]
        n == Len(g.rest)
        f == g.rest[n]
        hit == f \in Complete(files) /\ g.key \in DOMAIN files[f]
        skip(lost) == readers' = [readers EXCEPT ![r].rest = SubSeq(g.rest, 1, n - 1),
                                                 ![r].done = (n = 1),
                                                 ![r].missed = @ \/ lost]
    IN  /\ ~g.done
        /\ \/ hit /\ Finish(r, files[f][g.key]) /\ UNCHANGED errors
           \/ ~hit /\ skip(f \notin DOMAIN files) /\ UNCHANGED errors
           \/ hit /\ skip(TRUE) /\ errors < MaxErrors /\ errors' = errors + 1
        /\ UNCHANGED <<memVars, nextFileID, walVars, pending, flushers, compactor, phase,
                       diskVars, writes, crashes, ghostVars>>

-----------------------------------------------------------------------------
(* Compaction.  One goroutine; the tables it reads are immutable and only it *)
(* removes them, so picking and merging them is one step.                    *)

\* A tick of StartCompactionLoop: needCompaction and pickCompactionFiles.
MayCompact ==
    /\ phase = "running" /\ EnableCompaction /\ compactor.stage = "idle"
    /\ Len(sstables) >= CompactionThreshold

pickCompactionFiles == SubSeq(sstables, 1, CompactionThreshold)

\* doCompaction up to doMerge, which never comes out empty, as no table is.
CompactMerge ==
    /\ MayCompact
    /\ Range(pickCompactionFiles) \subseteq Complete(files)
    /\ compactor' = [Idle EXCEPT !.stage = "reserve", !.picked = pickCompactionFiles,
                                 !.table = doMerge(pickCompactionFiles, files)]
    /\ UNCHANGED <<memVars, nextFileID, walVars, pending, flushers, readers, phase,
                   diskVars, boundVars, ghostVars>>

\* What the iterators give of the tables in the domain of left: each takes a read
\* error for the end of its table.
ReadUpTo(fs, left) == [f \in DOMAIN left |-> Restrict(fs[f], left[f] \cap DOMAIN fs[f])]

\* A read of doCompaction fails: a table cannot be opened and the next tick starts
\* over, or the merge goes on without the rest of a table.  When nothing is left
\* of any, the inputs are dropped and no table is written.
MergeFails ==
    /\ MayCompact /\ errors < MaxErrors
    /\ Range(pickCompactionFiles) \subseteq Complete(files)
    /\ errors' = errors + 1
    /\ \/ UNCHANGED <<compactor, damaged>>
       \/ \E left \in [Range(pickCompactionFiles) -> SUBSET Key] :
             LET m == doMerge(pickCompactionFiles, ReadUpTo(files, left))
             IN  /\ compactor' = [Idle EXCEPT
                                    !.stage = IF m = EmptyTable THEN "install" ELSE "reserve",
                                    !.picked = pickCompactionFiles, !.table = m]
                 /\ damaged' = (\/ damaged \/ m = EmptyTable
                                \/ m # doMerge(pickCompactionFiles, files))
    /\ UNCHANGED <<memVars, nextFileID, walVars, pending, flushers, readers, phase,
                   diskVars, writes, crashes, contents>>

\* reserveNextFileID and os.Create
CompactReserve ==
    /\ compactor.stage = "reserve"
    /\ files' = With(files, nextFileID, Short)
    /\ nextFileID' = AdvancedID
    /\ compactor' = [compactor EXCEPT !.stage = "blocks", !.file = nextFileID]
    /\ UNCHANGED <<memVars, walVars, pending, flushers, readers, phase, manifest, wals,
                   boundVars, ghostVars>>

\* writeSSTable, in the same two halves as for a flush
CompactWrite ==
    /\ \/ /\ compactor.stage = "blocks"
          /\ files' = [files EXCEPT ![compactor.file] = Torn]
          /\ compactor' = [compactor EXCEPT !.stage = "footer"]
       \/ /\ compactor.stage = "footer"
          /\ files' = [files EXCEPT ![compactor.file] = compactor.table]
          /\ compactor' = [compactor EXCEPT !.stage = "install"]
    /\ UNCHANGED <<memVars, nextFileID, walVars, pending, flushers, readers, phase, manifest,
                   wals, boundVars, ghostVars>>

\* The compaction is in writeSSTable, of which every call may fail.
CanFail ==
    \/ compactor.stage \in {"reserve", "blocks", "footer"}
    \/ compactor.stage = "install" /\ compactor.file # 0

\* Mutant: a failed merge is not started over.
GiveUp ==
    /\ CanFail /\ errors < MaxErrors
    /\ errors' = errors + 1
    /\ nextFileID' = IF compactor.stage = "reserve" THEN AdvancedID ELSE nextFileID
    /\ compactor' = [compactor EXCEPT !.stage = "failed"]
    /\ UNCHANGED <<memVars, walVars, pending, flushers, readers, phase, diskVars, writes,
                   crashes, ghostVars>>

\* doCompaction returns an error of os.Create, a write or the final sync, and the
\* next tick starts over; the file keeps what it has.
CompactFails ==
    /\ CanFail /\ errors < MaxErrors
    /\ errors' = errors + 1
    /\ nextFileID' = IF compactor.stage = "reserve" THEN AdvancedID ELSE nextFileID
    /\ compactor' = Idle
    /\ UNCHANGED <<memVars, walVars, pending, flushers, readers, phase, diskVars, writes,
                   crashes, ghostVars>>

\* The list without the picked tables, and the merged one, if there is one, at its
\* end.
Replaced(list, old, new) ==
    LET kept == Among(list, Range(list) \ Range(old))
    IN  IF new = 0 THEN kept ELSE Append(kept, new)

\* The merged table ends up behind a table that is newer than its inputs.
Misplaced(list, old) == Range(list) \ Range(old) # {}

\* installCompactedTable, under db.mu
CompactInstall ==
    /\ compactor.stage = "install"
    /\ sstables' = Replaced(sstables, compactor.picked, compactor.file)
    /\ compactor' = [compactor EXCEPT !.stage = "manifest", !.line = sstables']
    /\ damaged' = (damaged \/ Misplaced(sstables, compactor.picked))
    /\ UNCHANGED <<memTable, immTable, nextFileID, walVars, pending, flushers, readers, phase,
                   diskVars, boundVars, contents>>

\* persistManifest, called by installCompactedTable
CompactManifest ==
    /\ compactor.stage = "manifest"
    /\ persistManifest(compactor.line)
    /\ compactor' = [compactor EXCEPT !.stage = "remove"]
    /\ UNCHANGED <<memVars, nextFileID, walVars, pending, flushers, readers, phase, files,
                   wals, writes, crashes, ghostVars>>

\* removeObsoleteFiles, one file; an error is only printed
CompactRemove ==
    /\ compactor.stage = "remove"
    /\ \/ files' = Restrict(files, DOMAIN files \ {Head(compactor.picked)}) /\ UNCHANGED errors
       \/ errors < MaxErrors /\ errors' = errors + 1 /\ UNCHANGED files
    /\ compactor' = IF Len(compactor.picked) = 1
                    THEN Idle
                    ELSE [compactor EXCEPT !.picked = Tail(@)]
    /\ UNCHANGED <<memVars, nextFileID, walVars, pending, flushers, readers, phase, manifest,
                   wals, writes, crashes, ghostVars>>

-----------------------------------------------------------------------------
(* Crash and NewDB.                                                          *)

\* A WAL was deleted while an older one is still there: the flush of the older
\* one has installed its table and not reached WAL.Delete.
Overtaken == \E a, c \in DOMAIN wals : \E b \in a..c : b \notin DOMAIN wals

\* The last line written to manifest.log would give the tables of the list
\* another order: two goroutines persisted their snapshots in the opposite
\* order in which they took them.
StaleManifest == applyManifestOrder(manifest, Range(sstables)) # sstables

\* A compaction has written its output and not yet removed its inputs.  NewDB
\* may put either behind a table the compaction does not replace, and it orders
\* inputs that the manifest no longer lists by id.
Compacting ==
    LET old == compactor.picked
    IN  /\ compactor.stage \notin {"idle", "reserve"}
        /\ \/ Complete(files) \ (Range(old) \cup {compactor.file}) # {}
           \/ old # Ascending(Range(old))

\* An input that could not be removed, or the file of a flush or merge whose last
\* sync failed: NewDB takes it for the newest table.
Abandoned ==
    /\ phase = "running"
    /\ \E f \in Complete(files) :
          f \notin Range(sstables) \cup {g.file : g \in flushers} \cup {compactor.file}
                   \cup Range(compactor.picked)

\* A crash here can make NewDB come up with an older map.
Exposed ==
    TornFiles(files) # {} \/ Overtaken \/ Compacting \/ StaleManifest \/ Abandoned

\* The process dies; the write that was in the WAL already has happened.
Crash ==
    /\ phase # "down" /\ crashes < MaxCrashes
    /\ crashes' = crashes + 1
    /\ phase' = "down"
    /\ damaged' = (damaged \/ Exposed)
    /\ contents' = IF pending = Nil THEN contents
                   ELSE [contents EXCEPT ![pending.key] = pending.val]
    /\ memTable' = EmptyTable /\ immTable' = Nil /\ sstables' = <<>>
    /\ nextFileID' = 1 /\ walFileID' = 1
    /\ wal' = Nil /\ nextwal' = Nil
    /\ walNotifyCh' = FALSE /\ allocating' = FALSE
    /\ pending' = Nil /\ flushers' = {} /\ compactor' = Idle
    /\ readers' = [r \in Reader |-> NotReading]
    /\ UNCHANGED <<diskVars, writes, errors>>

\* NewDB with what loadSSTables and RecoverFromWAL came up with: the list, the
\* ids, and the memtable m, which is flushed.
OpenWith(list, id, m, walID) ==
    /\ phase = "down"
    /\ sstables' = list
    /\ nextFileID' = id
    /\ walFileID' = walID
    /\ \/ /\ Size(m) > 0
          /\ immTable' = m
          /\ flushers' = {[stage |-> "reserve", table |-> m, oldWal |-> Nil,
                           file |-> 0, line |-> <<>>]}
          /\ phase' = "flush"
       \/ /\ Size(m) = 0
          /\ phase' = "clean"
          /\ UNCHANGED <<immTable, flushers>>
    /\ UNCHANGED <<memTable, wal, nextwal, walNotifyCh, allocating, pending, compactor,
                   readers, diskVars, writes, crashes, contents>>

\* NewDB: load the tables, replay the WALs, and flush what they held.
Open ==
    /\ OpenWith(loadSSTables(files, manifest), NextIDAfterLoad(files),
                RecoverFromWAL(wals), NextWALAfterReplay(wals))
    /\ UNCHANGED <<errors, damaged>>

\* Reads of NewDB fail, which it only prints: what was not read is left out, and
\* the WALs are deleted all the same.
OpenFails ==
    /\ errors < MaxErrors
    /\ errors' = errors + 1
    /\ LET loaded == [list |-> loadSSTables(files, manifest), id |-> NextIDAfterLoad(files)]
       IN  \E load \in {loaded} \cup LoadFailures(files),
             m \in ReplayFailures(wals) :
             /\ \/ OpenWith(load.list, load.id, m, NextWALAfterReplay(wals))
                \/ m = EmptyTable /\ OpenWith(load.list, load.id, m, 1)  \* os.ReadDir
             /\ damaged' = (damaged \/ <<load, m>> # <<loaded, RecoverFromWAL(wals)>>)

\* removeAllOldWalFiles, one file, in the order of the directory
RemoveOldWAL ==
    /\ phase = "clean" /\ DOMAIN wals # {}
    /\ LET oldest == CHOOSE w \in DOMAIN wals : \A x \in DOMAIN wals : w <= x
       IN  wals' = Restrict(wals, DOMAIN wals \ {oldest})
    /\ UNCHANGED <<memVars, nextFileID, walVars, pending, flushers, compactor, readers,
                   phase, files, manifest, boundVars, ghostVars>>

\* NewDB opens the active WAL, starts the background goroutines and returns.
Serve ==
    /\ phase = "clean" /\ DOMAIN wals = {}
    /\ wals' = Single(walFileID, EmptyTable)
    /\ wal' = walFileID
    /\ walFileID' = walFileID + 1
    /\ walNotifyCh' = TRUE
    /\ phase' = "running"
    /\ UNCHANGED <<memVars, nextFileID, nextwal, allocating, pending, flushers, compactor,
                   readers, files, manifest, boundVars, ghostVars>>

-----------------------------------------------------------------------------
FlushStep(g) == \/ FlushReserve(g) \/ FlushBlocks(g) \/ FlushFooter(g)
                \/ FlushInstall(g) \/ FlushManifest(g) \/ FlushDeleteWAL(g)

CompactStep == \/ CompactMerge \/ CompactReserve \/ CompactWrite
               \/ CompactInstall \/ CompactManifest \/ CompactRemove

NewDB == Open \/ RemoveOldWAL \/ Serve

Next ==
    \/ \E k \in Key, v \in Entries : AppendWAL(k, v) \/ AppendFails(k, v)
    \/ WriteMemTable
    \/ PreAllocate
    \/ InstallNextWAL
    \/ \E g \in flushers : FlushStep(g) \/ FlushFails(g)
    \/ \E r \in Reader, k \in Key : GetSnapshot(r, k)
    \/ \E r \in Reader : GetFromTable(r)
    \/ CompactStep
    \/ CompactFails
    \/ MergeFails
    \/ NewDB
    \/ OpenFails
    \/ Crash

Spec == Init /\ [][Next]_vars

\* The goroutines keep running and file operations return; nothing obliges a
\* client to write or read, the disk to fail or the process to crash.
Fairness ==
    /\ WF_vars(WriteMemTable) /\ WF_vars(PreAllocate) /\ WF_vars(InstallNextWAL)
    /\ WF_vars(\E g \in flushers : FlushStep(g))
    /\ WF_vars(CompactStep)
    /\ WF_vars(NewDB)

FairSpec == Spec /\ Fairness

-----------------------------------------------------------------------------
(* Properties.                                                               *)

FlushRecord == [stage : {"reserve", "blocks", "footer", "install", "manifest", "delete"},
                table : Table, oldWal : Nat \cup {Nil}, file : Nat, line : Seq(Nat)]

CompactRecord == [stage : {"idle", "reserve", "blocks", "footer", "install", "manifest",
                           "remove"},
                  picked : Seq(Nat), table : Table, file : Nat, line : Seq(Nat)]

ReadRecord == [key : Key \cup {Nil}, rest : Seq(Nat), done : BOOLEAN,
               result : Entries, start : Entries, missed : BOOLEAN]

\* The fields of DB, the goroutines' local state and the files on disk keep
\* their shape, and the active WAL of a running engine is a file that exists.
TypeOK ==
    /\ memTable \in Table /\ immTable \in Table \cup {Nil}
    /\ sstables \in Seq(Nat) /\ nextFileID \in Nat
    /\ wal \in IF phase = "running" THEN DOMAIN wals ELSE {Nil}
    /\ nextwal \in Nat \cup {Nil} /\ walFileID \in Nat
    /\ walNotifyCh \in BOOLEAN /\ allocating \in BOOLEAN
    /\ pending \in [key : Key, val : Entries] \cup {Nil}
    /\ \A g \in flushers : g \in FlushRecord
    /\ compactor \in CompactRecord
    /\ readers \in [Reader -> ReadRecord]
    /\ phase \in {"down", "flush", "clean", "running"}
    /\ \A f \in DOMAIN files : f \in Nat /\ files[f] \in Table \cup {Short, Torn}
    /\ \A w \in DOMAIN wals : w \in Nat /\ wals[w] \in Table
    /\ manifest \in Seq(Nat)
    /\ contents \in [Key -> Entries] /\ damaged \in BOOLEAN

\* What a client would read now (memTable, immTable, then the tables from the
\* end of the list) is the last value written, across switches, flushes and
\* restarts, unless a merged table was put behind a newer one, a crash hit one of
\* the windows of Exposed, or NewDB or a merge went on without what it could not
\* read.
LookupLatest ==
    phase = "running" /\ ~damaged =>
        \A k \in Key : Lookup(memTable, immTable, sstables, files, k) = contents[k]

\* A crash now would lose nothing: replaying the WALs over the tables that load
\* gives the last value written, the write that has only reached the WAL
\* included.
Durable ==
    \A k \in Key : Recovered[k] =
        IF pending # Nil /\ pending.key = k THEN pending.val ELSE contents[k]

\* Every written value survives a crash at this very point, in the middle of a
\* write, a switch, a flush or a recovery, outside the windows of Exposed and while
\* no failing read has dropped a table, a WAL or the rest of a merged table.
CrashSafe == ~damaged /\ ~Exposed => Durable

\* A Get that ended returned what was the last value written when it took its
\* snapshot, whatever was flushed or written while it read files without the
\* lock, unless a file of the snapshot had been removed under it or could not be
\* read, by the Get or by the merge that replaced it.
ReadsSnapshot ==
    \A r \in Reader : readers[r].done /\ ~readers[r].missed /\ ~damaged =>
        readers[r].result = readers[r].start

\* Every table in the list is a complete file, so neither Get nor the merge
\* meets a half-written or removed one, also after restarts and failed writes.
ListedComplete == ~damaged => Range(sstables) \subseteq Complete(files)

\* The supply of WAL files cannot dry up: as long as no file operation failed,
\* exactly one of the pre-allocated file, the token in the channel and the
\* allocator's file under way exists.
WalSupply ==
    phase = "running" /\ errors = 0 =>
        Cardinality({i \in 1..3 : <<nextwal # Nil, walNotifyCh, allocating>>[i]}) = 1

\* A switched memtable is flushed in the end, so that the next switch is not
\* held back by immTable for good, unless a file operation failed.
FlushCompletes == immTable # Nil ~> (immTable = Nil \/ errors > 0)

\* When the writers pause the compaction catches up: the list does not stay at the
\* threshold, also when a merge failed half-way, which the next tick repeats.
CompactionCatchesUp ==
    Len(sstables) >= CompactionThreshold ~> Len(sstables) < CompactionThreshold

\* The abstract map: its value is what a lookup finds, or would find after NewDB,
\* and a Get takes effect when it takes its snapshot, so its answer is fixed by
\* the files it has left.
KV == INSTANCE KVMap WITH
        kv <- IF phase = "down" THEN Recovered
              ELSE [k \in Key |-> Lookup(memTable, immTable, sstables, files, k)],
        answer <- [r \in Reader |->
                     IF readers[r].done THEN readers[r].result
                     ELSE Lookup(EmptyTable, Nil, readers[r].rest, files, readers[r].key)]

\* Without compaction the engine is a map with atomic writes and atomic reads that
\* survives crashes: switching, flushing, the lock-free part of Get and each step
\* of a recovery are invisible, and a crash completes at most the write that is in
\* the WAL, unless it falls into one of the windows of Exposed or a Get or NewDB
\* could not read a file.
ImplementsMap ==
    /\ KV!Init
    /\ [][~damaged' /\ ~(\E r \in Reader : readers[r].missed \/ readers'[r].missed)
            => UNCHANGED KV!mapVars \/ KV!Next]_vars

\* A file that was complete is never written again, only removed: an id handed
\* out after a restart or a failed write never names a live table, unless a
\* failing read ended loadSSTables before it had seen them all.
TablesImmutable ==
    [][~damaged' => \A f \in Complete(files) \cap DOMAIN files' : files'[f] = files[f]]_vars

=============================================================================
