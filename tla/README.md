# A TLA+ model of raft-lsm-kv

raft-lsm-kv is a replicated key-value store: an HTTP gateway, three nodes in one process, a Raft
group that orders the operations, and on every node an LSM storage engine with a write-ahead log.
This directory models it from the gateway down to the blocks of a table: the store over an abstract
replicated log, the Raft implementation that is shown to implement that log, the storage engine, shown
to implement a map, and the format of its tables. TLC checks all of it on small instances; TLAPS proves every safety
property of the Raft group, of the store, of the engine and of its tables, and the refinements between them, for every instance.

## 1. The system

| Part | Source | State it keeps | Operations |
|---|---|---|---|
| Raft peer | `internal/raft/raft.go` | term, vote, role, log, commitIndex, lastApplied, nextIndex, matchIndex | election timeout, forced election, RequestVote, AppendEntries, replies to both, Start, apply loop, restart |
| Persister | `internal/raft/persister.go` | `raft_state.bin` | Save, ReadRaftState |
| Network | `internal/raft/labrpc` | calls under way | Call, processReq (delay, reorder, lose) |
| Engine | `internal/lsm` | memTable, immTable, list of tables, id counters, files, `manifest.log` | Put, Delete, Get, switch and flush, compaction, recovery |
| WAL | `internal/wal` | one file per memtable, one pre-allocated | append, replay, delete |
| Store | `internal/store/store.go` | wait channels by log index | Put, Delete, Get through Raft, local Get, apply loop |
| Gateway | `internal/api/server.go` | none | try each node until one is the leader |
| Node | `cmd/kvnode/main.go` | none | wires three peers, persisters and stores in one process |

A request goes gateway -> store -> `Raft.Start`; committed entries come back over `applyCh` to the
store's apply loop, which is the only caller of the engine's `Put` and `Delete` and wakes the
request through its wait channel. HTTP handlers may call the engine's `Get` directly
(`GetLocalIfLeader`).

What is hard here:

* **Raft**: every RPC runs in its own goroutine that drops the lock during the call, so replies meet
  a peer in another term or role; several AppendEntries to one peer overlap; a peer may lead, lose
  office and lead again; a crash may fall between any two critical sections, and inside `Save`.
* **Engine**: writer, readers, one flush goroutine per switched memtable, the compaction goroutine
  and the WAL pre-allocator interleave between the critical sections of `db.mu`. Files are written,
  the manifest is appended, WALs and inputs are deleted *outside* the lock, and a crash may come
  between any two of these steps, also while `NewDB` recovers from an earlier crash.
* **Store**: notifications by log index race with registration, timeouts and changes of leader.

`PROJECT.json` lists every component and, under `hazards`, each of these dangers at its line with the
properties that would catch it.

What makes each part correct: one leader per term, matching logs, committed entries on a majority and
never replaced, indices that stay inside the log, convergence (Raft); lookups that find the last
value written, before and after a crash, reads of one moment, tables that are never overwritten,
background work that finishes (engine); a lookup that finds a record through slice, index, blocks and
merge (table); every answer true of the log, engines that become what the log says, every request
answered (store).

## 2. Modules

| Module | Role |
|---|---|
| `ReplicatedLog` | what the store may expect of a Raft group: entries proposed at an index, one of them chosen, delivered in order |
| `Store` | gateway, store and apply loop, over `ReplicatedLog` |
| `Raft` | the Raft group, persister and network |
| `RaftLog` | `Raft` with the history of `Start`; the refinement of `ReplicatedLog` |
| `RaftTornSave` | `Raft` plus the crash inside `Save` |
| `RaftProofs` | theorems about `Raft`: types, files, elections |
| `RaftSafetyProofs` | theorems about `Raft`: log matching, commitment, agreement |
| `RaftLogProofs` | the theorem that `Raft` implements `ReplicatedLog` |
| `StoreProofs` | theorems about `Store` |
| `KVMap` | what the engine promises: a map with atomic reads and writes that survives crashes |
| `LSM` | engine and WAL of one node; the refinement of `KVMap` |
| `LSMProofs` | theorems about `LSM`: types, supply of WALs, who writes which file |
| `LSMSafetyProofs` | theorems about `LSM`: lookups find the last value, a crash loses nothing |
| `LSMReadProofs` | theorems about `LSM`: reads without the lock, the refinement of `KVMap` |
| `SSTable` | what `LSM` takes as given about one table: memtable slice, blocks, index, lookup, iterators, merge |
| `SSTableProofs` | theorems about `SSTable`: search, blocks, lookup, merge |
| `MCStore`, `MCRaft`, `MCRaftDiverged`, `MCRaftStaleMatch`, `MCRaftTornSave`, `MCLSM`, `MCSSTable` | instances for TLC |

The modules fit together by their abstract specifications. `Store` instantiates `ReplicatedLog`, and
`raft_core` checks, and `RaftLogProofs` proves, that `Raft` implements it. `Store` gives every node a map; `lsm_recovery` checks, and
`LSMReadProofs` proves, that the engine implements one. `LSM` treats a table as a function, its merge and its lookup as one step
each; `sstable` checks, and `SSTableProofs` proves, that the code behind them computes those functions.

### Store

A client follows a program of PUT, DELETE, GET and LOCAL (the local read mode) requests; the n-th
request of client c is `<<c, n>>`, stands for the Op with its `OpId`, and is itself the value a PUT
writes. `OpId` is `time.Now().UnixNano()` in the code and is taken to be unique. The handler's way through the
code is `stage`: the gateway's loop (`CallFollower` to the next node, or 503 after the last),
`Start` (`CallLeader`), then, as separate steps because `Start` has returned and nothing is locked,
the registration of the channel (`Register`), the select (`Wake` or `Timeout`, the latter at any
moment, also with a result in the channel), and the deferred delete (`Leave`). The channel of capacity one is
`mailbox`. The apply loop is two steps: take a message and call the engine (`Apply`), then look
for the waiter under `kv.mu` and send (`Notify`); `Stuck` is the lock held by a send to a full channel. `Put`, `Delete` and `Get` of the
store have the same shape and share these actions. A local read is a check (`LocalCheck`) and a read
(`LocalRead`), with anything in between.

Nothing is assumed about leadership: any peer may accept (`CallLeader`) or refuse (`CallFollower`)
at any time, so deposed leaders that do not know it, two leaders at once, and no leader at all are
all included. In `ReplicatedLog` the entry of an index is chosen when the first peer delivers it, not when it is
committed, and in `Store` peers deliver one message at a time, since `applyCh` is unbuffered; both
only add behaviours. A `Crash` takes the whole process: delivery starts again at index 1, and each engine holds what it held,
or for some keys an older value of the log (what the windows of `Exposed` below can leave behind). An
engine may also refuse a write (`Apply`, second disjunct); the store goes on, and `skipped` remembers the key.

History: `floor` and `acked` (the highest index answered with success, now and when a request was
handed to `Start`) order answers in time; `denied` collects requests that were told that they did not happen; `missed` marks a
request whose channel was registered too late or replaced or deleted by another one; `high` is the highest index a
store has ever applied.

### Raft

One action per handler or goroutine step: each critical section of `rf.mu` is atomic, with the
`persist()` it ends with. Between two critical sections of a goroutine its call is a record in
`voteCalls`, `voteReplies`, `appendCalls` or `appendReplies`; these are sets, so delivery is in any
order and after any delay. `broadcastHeartbeats` is split where the code drops the lock: build and
send (`SendAppendEntries`), the handler on the other side (`AppendEntries`), the look at the reply
(`AppendEntriesReply`). The sentinel entry `rf.log[0]` is left out, so Go indices are TLA+ indices.
Timers are abstracted: a timeout may fire whenever its guard holds. `applyLoop` collects under the
lock everything up to commitIndex and then sends; the collection is the action.

A restart (`Restart`) re-reads the file: `RestartGroups` says which peers share a process, all of them
in `cmd/kvnode` (`OneProcess`), or each its own (`Separate`). Calls of a crashed peer are gone.

`RaftLog` adds the history `proposed` and maps `applied` to `chosen` and `lastApplied` to `delivered`. What
is refined is the next-state relation: `ImplementsLog` says that every step is a step of `ReplicatedLog` or
changes nothing the store can see, as long as `reusedMatch` is false.

History variables: `ballots`, `leaders` and `applied` record every vote, election and application
ever; `reusedMatch` records that an election was won with a non-zero `matchIndex` (see findings).

### LSM

A table is a partial function from keys to values with `Nil` for a tombstone, as in the code; a WAL is
the table its `Replay` builds, since replaying is last-write-wins. A `.sst` file is a table, `Short`
(fewer bytes than the footer; `loadSSTables` skips it) or `Torn` (data without footer;
`loadSSTables` returns an error and leaves the list empty). `Put` and `Delete` are two actions, as in
the code: append to the WAL without the lock, then memtable and `checkAndFlush` under it. `flush` is
six steps: reserve the id and create the file, data blocks, footer, install (under the lock), manifest, delete the
WAL. Compaction is merge, reserve, two writing steps, install, manifest, and one removal per input.
`Get` is a snapshot under the read lock and then one step per file. `NewDB` is load and replay, the
same flush without an old WAL, the removal of WALs one by one in directory order, and the opening of
the new one; a crash may hit any of them.

File operations fail. `FlushFails` and `CompactFails` are the error returns of `writeSSTable`: `os.Create`, each write, and the
final sync, which leaves a complete file that no list names. Where the code prints or ignores an error and goes on, the failure
is an alternative of the action (`AppendFails`, `PreAllocate`, `persistManifest`, `FlushDeleteWAL`, `CompactRemove`, `GetFromTable`)
or an action beside it:

* `OpenFails`, failing reads of `NewDB`. `loadSSTables` returns on any of them, from `ReadDir` to the manifest, with an empty list and
  ids bumped past the files it had read by then (`LoadFailures`), so the next flush may truncate a table that is there.
  `RecoverFromWAL` goes on without a WAL it cannot open or read to its end (`ReplayFailures`), or ends before the first one.
  Either way the WALs are deleted next. Of a WAL that is read in part the
  model takes any keys with any values, since it keeps only the last record of each key: more than the code can do, and `damaged`.
  However many reads fail in one call of `NewDB`, or in one merge, they count once against `MaxErrors`.
* `MergeFails`, failing reads of a compaction. A table that cannot be opened ends it until the next tick; but `SSTableIterator` takes a
  failing read for the end of its table, so the merge goes on without the rest (`ReadUpTo`), is installed, and its inputs are removed.
  Records come in order of key, which the model does not use: the part that was read may be any.

Sizes: a key and a value have length 1; `FlushSize` stands for the 4096 bytes of `checkAndFlush`.
Values are not empty because the gateway refuses empty ones. One write is under way at a time because
the store's apply loop is the only writer.

History: `contents` is the map the writes so far should have produced. `damaged` is set by a step that the
code performs and after which lookups may legitimately differ from `contents`: a compacted table
placed behind a newer one (`Misplaced`), a failed flush inside `NewDB`, an append that failed after its
record was in the WAL, a failing read inside `NewDB` that changes the list, the ids or the memtable it comes up with, a merge
that lacks something because of a failing read (when it is merged, somewhat before it is installed), and a crash inside one of the five windows of `Exposed`:

1. *Torn table*: the crash falls between data blocks and footer.
2. *Overtaken*: a WAL is still there although a later one was deleted. `installFlushedTable` sets
   `immTable = nil` before it deletes its WAL, so the next flush can finish first; a restart then
   replays the older WAL on top of the newer table.
3. *Compacting*: the merged file exists, its inputs are not removed, and there is another table (or
   the ids of the inputs are not in list order): unlisted files are taken for the newest.
4. *StaleManifest*: the snapshot of the list is written to `manifest.log` after the unlock, so an
   older snapshot may become the last line; with compaction on, ordering by id is then wrong.
5. *Abandoned*: an input of a compaction could not be removed, or the last sync of a file failed; it is not listed and `NewDB`
   takes it for the newest table.

Each of the five is needed: with any one of them left out of `Exposed`, TLC finds a counterexample
to `CrashSafe`. Outside of them `CrashSafe` says that a crash at *this* state loses nothing, so it
speaks of a crash at every reachable state, not only of those the `Crash` action takes.

The refinement of `KVMap` (`ImplementsMap`): the map is what a lookup would find, or, while the process is
down, what `NewDB` would make of the files, so crash and recovery have to be invisible step by step;
the answer of a `Get` that is under way is fixed by the files it has left to read, which makes it take effect at its snapshot.

### SSTable

Keys are numbers of one byte, a value is its length, and the data region of a file is the sequence of
its records, each with its size in bytes (two length fields of four bytes, key, value). `Put` is the
binary search, overwrite or insertion of `MemTable.Put` with its bookkeeping of `size`; `Buffered`,
`BlockEnds` and `IndexOf` are the loop of `writeSSTable`, one value per record of the slice, offsets included; `readValFromSSTable` searches
the index, reads the block at the handle and scans it; `Found` is the range filter before it; `Scan` is what
an iterator passes before its limit; `MergeBegin` and `MergeStep` are `doMerge`, one pop of the heap per step, ending in the
builder's table; `Reopen` rebuilds the metadata from the file. `sort.Search` and `container/heap`
are the library's: the first is written out as rounds of its loop (`Halved`), so that it returns what the code would get
from a slice that is not sorted, the second is "the least item by `Less`". Nothing runs concurrently and no read fails here; interleaving and failing reads are in `LSM`.

## 3. Runs

Every instance runs in two to three minutes or less with two workers.

| Run | Instance | Shows |
|---|---|---|
| `raft_core` | 3 peers in one process, 2 terms, 2 elections, logs of 2 entries, a crash of the process after a command was taken, 2 calls or replies in flight before and after it | `CommittedUnlessReused`, `AppliedUnlessReused`, `ImplementsLog` (refinement of `ReplicatedLog`) |
| `raft_diverged` | 3 processes restarted over four histories of diverged logs, calls get lost, elections in the last term, 1 further restart of any peer, 2 calls in flight | `ElectionSafety`, `PersistedIsCurrent`, `LeaderUnchallenged`, `LogMatching`, `CommittedUnlessReused` |
| `raft_converge` | a leader elected over the same histories, 2 overlapping calls, fair delivery | `TypeOK`, `NextIndexInRange`, `CommitMonotone`, `LogsConverge`, `CommandsApplied` |
| `store` | 2 nodes, 2 clients, 4 workloads, log of 3, one crash or one refused write, fair handlers | `TypeOK`, `Linearizable`, `DeniedMeansNever`, `AtMostOnce`, `ReplayHeals`, `WokenUnlessMissed`, `WaitChansOwned`, `LocalReadsCommitted`, `RequestsAnswered` |
| `lsm_recovery` | compaction off, 2 keys, 2 values, 4 writes, 1 reader, 2 failures: crashes, or one of them a file operation that fails (reads of `NewDB` included) | `TypeOK`, `LookupLatest`, `CrashSafe`, `ListedComplete`, `WalSupply`, `TablesImmutable`, `ImplementsMap` (refinement of `KVMap`) |
| `lsm_compaction` | compaction of 2 tables, 3 writes that each fill a memtable (2 with a crash), 1 reader until its Get ends, a crash and 1 file operation that fails (reads of a merge and of `NewDB` included) | `LookupLatest`, `ReadsSnapshot`, `CrashSafe`, `ListedComplete` |
| `lsm_background` | compaction of 2 tables, 3 deletes that each fill a memtable, 1 I/O error, fair | `FlushCompletes`, `CompactionCatchesUp` |
| `sstable` | 3 keys, values of 2 lengths and tombstones, blocks of one or two records, 5 writes, merges of 2 tables | `TypeOK`, `MemTableExact`, `BlocksTile`, `GetExact`, `MergeExact` |
| `raft_stale_match`, `raft_torn_save`, `lsm_torn_table`, `lsm_merge_order` | | refute a comment of the code, see findings |

Why the bounds are enough for the cases of interest. Raft: three peers give majorities that overlap
in one; two terms give a deposed leader with calls in flight and a vote repeated after a restart; in `raft_core`
two calls are enough for an election after the crash, which is won in term 2 and re-delivers both entries to every peer from index 1 on
(the crash comes after a command was taken, since before it there is nothing to deliver again); the
four histories of `MCRaftDiverged` (states that real elections and crashes leave) take every branch
of the back-off, missing entries, a conflicting term the leader has, and one it does not have. Engine: three or four
writes with a small `FlushSize` give two flushes under way at once, a flush during a compaction, and a
restart over several WALs; two crashes let the second one hit the recovery from the first, and the failing operation may be in that recovery or before the crash (`TwoFailures`). Gets run before the first crash
(`ReadsBeforeCrash`), in `lsm_compaction` also before the first error (`ReadsBeforeFailure`; a Get may itself be what meets
it), and `lsm_compaction` follows nothing beyond the end of a Get (`UpToGetEnd`): a Get does not change the
engine, so this cuts no other behaviour. Neither run follows a behaviour beyond the step that sets `damaged` (`UpToDamage`): what
they state about data is conditional on it. The step itself is checked. That `TypeOK` and `WalSupply` hold beyond it is left to
their theorems. `lsm_background` has no constraint, so that its liveness properties cover what follows a merge cut short. `lsm_background` writes tombstones only, since what
a table holds does not matter to whether it gets written. Store: two nodes are enough for a node that believes it leads
after another has taken over, two clients for two requests at one index; the workloads are a write that meets a read, another
write or a local read, and one client that goes on after each answer; a log of three entries lets one index be
proposed twice and the rest follow. One failure is a crash at any moment, or one refused write, which is what distinguishes one
engine from the others. Table: with blocks of 18 bytes a block takes two short records or one long one, so cuts fall on,
before and at the end of the data; five writes give two overlapping tables with overwritten and deleted keys, merged, written and read again.
Symmetry is declared for peers, keys and values in runs without liveness properties only.
`CHECK_DEADLOCK FALSE` is set where the bounds (terms, writes) make behaviours end, never in `raft_converge`.

Fairness. `raft_converge`: `heartbeatTicker` sends as long as a peer leads, the reliable network
delivers, `applyLoop` never stops; there is no fairness for elections, and the term of the leader is the
last one, which states "a leader that stays in office". `lsm_background`: goroutines that can take a step
take it (the writer's second half, the pre-allocator, the flush, the compaction, whose ticker never stops, `NewDB`); nobody is obliged to write, read, fail or crash.
`CompactionCatchesUp` holds because writes are bounded, that is, once the writers pause. `store`: HTTP handlers and apply loops
keep running and the five-second timer fires; nothing obliges the Raft group to have a leader or to deliver. The mutex `kv.mu` is held
for one action only, except by a send to a full channel (`Stuck`), which the liveness property shows never to last.

### Findings

* `raft_stale_match`: `matchIndex` is not reset on election (`raft.go:475`). A peer that leads twice counts
  entries a follower has lost since and commits what only it holds. The passing Raft runs therefore state
  commitment and agreement `UnlessReused`.
* `raft_torn_save`: `os.WriteFile` truncates `raft_state.bin` first (`persister.go:78`); a crash there
  makes the peer forget its vote, and a term gets two leaders.
* `lsm_torn_table`: one half-written table makes `loadSSTables` return early (`kvstore_compaction.go:213`) and hides all tables.
* `lsm_merge_order`: `installCompactedTable` puts the merged table at the newest end of the list
  (`kvstore_compaction.go:469`), in front of tables that are newer than its inputs.

Met while modelling, visible in the model, and excepted in the properties as described: windows 2 to 5 of `Exposed`; a `Get` whose
snapshot names a file that compaction removed treats it as a missing key (`missed` in `ReadsSnapshot`);
a failed `OpenWAL` consumes the pre-allocator's only token and no memtable is switched again
(`errors = 0` in `WalSupply`); `NewDB` deletes all WALs even if the flush of their contents failed; a read error in `loadSSTables` hides
all tables and may hand out their ids again, one in `RecoverFromWAL` skips a WAL that is deleted next, and one in a merge removes the
unread records with the inputs (all three set `damaged`).
A failing read of a table's smallest key alone (`kvstore_compaction.go:267`) only widens the range filter.
Whatever of this makes an engine come up with an older map, `ReplayHeals` shows that the apply loop repairs it:
Raft delivers the whole log again, and the node is right as soon as it has reached the index it had
applied before. Until then, and on a deposed leader at any time, a local read may return an old value, which is all
that `LocalReadsCommitted` allows; the comment of `GetLocalIfLeader` calls it experimental and
used for benchmark comparison only. A write the engine refuses is lost on that node alone, silently, until the key is
written again or the node restarts. What a *running* engine loses (a `Misplaced` table, a merge cut short, a `Get` that misses a removed
file) is outside `Store`, whose engines lose values at a crash or by a refused write only: the gap between `Store` and `LSM` is exactly
`damaged` set while running, or `missed`, and until a restart replays the log a GET on that node may then return an older value. The merge turns an empty value into a tombstone (`append([]byte(nil), v...)` is nil for it);
the gateway refuses empty values. `docs/PROJECT_ARCHITECTURE.md:28` and `:196` still describe GET as an eventually consistent
read of a random node; the code sends it through the log, and `Linearizable` is what it delivers.

## 4. Proofs

What is proved holds for every number of peers, nodes and clients, every set of commands and programs and every value
of the bounds. The assumptions are those of the modules: `Server` is finite, `Nil` stands for nothing else, the restart groups are
sets of servers, the bounds are natural numbers, there is a node and a program consists of the four operations.

### Raft: types and elections (`RaftProofs`)

* `TypeInvariant`: `TypeInv` is inductive. `TypeOK` alone is not: that the next message's slice bounds
  are natural numbers needs `NextIndexInRange`; that the back-off keeps `nextIndex` in range needs to know
  that every rejection under way was computed for a message within the leader's log of that term
  (`RejectionsFit`, `CallsFit`), and a restart brings back types from the file only because
  `PersistedIsCurrent`. Corollaries: `TypeCorrect`, `PersistedCorrect`, `NextIndexCorrect`.
* `VoteInvariant`: every vote a peer holds is in `ballots`, a voter has one ballot per term, granted replies and counted
  votes are ballots, every leader ever had a majority of ballots, and a peer in office is in `leaders`.
  The step from one ballot per voter to one leader per term is that two majorities of a finite set
  intersect. Corollaries: `ElectionCorrect` (`ElectionSafety`) and `LeaderNeverChallenged`.

### Raft: replication and commitment (`RaftSafetyProofs`)

The invariants speak of two histories that are not part of the state: `H[t]`, what the leader of term t held last, and
`A[t][v]`, how far peer v has confirmed to it. They are quantified (`SafetyInv` says that such histories exist) and each lemma
about a step says how to extend them, so `Raft` needs no further variables. Before they were proved, both were
checked with TLC as variables.

* `LogHistory(H)`: every log, and every leader's log, is up to each of its entries a copy of `H` of that entry's term; terms do not
  fall along a log; a call under way is a piece of `H` of its term. `LogMatching` follows (`LogMatchingCorrect`).
* `CommitHistory(H, A)`: what a peer confirmed it still holds; an entry of its own term that a majority has confirmed, or could still
  confirm (`Choosable`), is in the log of every later leader. The step that needs care is a won election: the majority that voted meets the majority
  that confirmed, and `UpToDate` makes the winner's log include what the common voter has.
* `MatchHistory(H, A)`, as long as `reusedMatch` is false: `matchIndex` counts confirmations of this term, every `commitIndex` and
  `leaderCommit` is covered by a committed entry, and so is everything applied. Without the condition this is false, see finding `raft_stale_match`.

Corollaries: `CommittedCorrect` (`CommittedUnlessReused`), `AppliedCorrect` (`AppliedUnlessReused`), and `CommitMonotoneCorrect`. The
attempt to prove the last one showed that it needs the same condition: after a reuse a leader can send a
`leaderCommit` beyond its own entries, and a follower that then takes the smaller value may go back.

### Raft implements the replicated log (`RaftLogProofs`)

`LogInvariant` adds to `SafetyInv` that every entry of a log or call was proposed where it stands, in a term within the bound,
that `lastApplied` is at most `commitIndex`, and that what was applied are the indices from 1 up to the most any peer has reached.
`ImplementsLogCorrect`: under the mapping of `RaftLog`, `StartAt` is `Start`, `ApplyLoop` is `Deliver` (it chooses exactly what no peer
had reached), a restart is `Restart`, and every other step is invisible. The invariant was checked with TLC on the instance of `raft_core`.

### Store (`StoreProofs`)

* `BaseInvariant`: types, which stage of a handler goes with which index, node, channel and answer, and one proposal per
  request. Corollaries: `TypeCorrect`, `WaitChansCorrect`, `AtMostOnceCorrect`.
* `EngineInvariant`: what an engine holds at a key is what some beginning of the log leaves there, the right one once the node has
  reached the index it had before. Corollary: `ReplayHealsCorrect`.
* `AnswerInvariant`: what is in a channel, in a reply and in an answer is what the log says at the index of the request, so that
  success, refusal and value are all true of the log. Corollaries: `LinearizableCorrect`, `DeniedCorrect`, `LocalReadsCorrect`, `WokenCorrect`.

Together with `ImplementsLogCorrect` these are statements about the store on top of the Raft group that the code
implements, not on top of an assumed log, as long as `reusedMatch` is false.

### Engine: types and files (`LSMProofs`)

The assumptions are that `Nil`, `Short` and `Torn` are no tables (`NilAssumption`, `FileAssumption`) and that the sizes and bounds are numbers, the
threshold of a compaction and the flush size at least 1. `LSM` writes its partial functions with its own `Over`, `With`
and `Among`, not with `@@`, `:>` and `SelectSeq`, which the provers know nothing about.

* `EngineInv`: types (`TypeOK`), finite directories, which goroutines there are in which phase of the process, and the ids of WALs
  in the order of their use. `TypeOK` alone is not inductive: that the next WAL exists when a memtable is switched needs `WalOrder`. Corollaries:
  `TypeCorrect`, and `WalSupplyKept`, in which the token, the allocation and the finished file are one object in three states.
* `FileInv`, as long as `damaged` is false: the next id is above every complete file, a file being written belongs to one goroutine and is in no
  list, the inputs of a compaction are in the list until it installs its result and never afterwards, the tables of the list are complete. Corollaries:
  `ListedTablesComplete` and `CompleteTablesImmutable`. The condition is needed: after a torn table was left behind, or when a read of `loadSSTables` failed, ids
  are counted from below live tables.

A step of `MergeFails` or `OpenFails` after which `damaged` is still false did what the step without the failure would have done, or nothing (`MergeOutcome`,
`OpenOutcome`), and a failed `os.Create` only skips an id. So the proofs below treat `MergeFails` as a merge or a tick without one, and `OpenFails` as `Open`.

### Engine: the last value written (`LSMSafetyProofs`)

`DataInvariant` is one inductive invariant in six parts beyond the two above, all as long as `damaged` is false:

* `OrderInv`, `MergeOrderInv`: every snapshot of the list there is, in a flush, in the compaction or in `manifest.log`, agrees with the list about the order of
  the tables both have and misses only tables that came later; a list has no table twice; the inputs of a compaction are a first part of the list.
* `MergeInv`: the merged table answers for its inputs, and goes on to do so while they are removed one by one.
* `FlushInv`: a flush that has not installed is the one of `immTable`, and its file holds that table once it is complete.
* `LogInv`: in the logs from any that is followed by an unbroken row up to the active one, the last record of a key is its last value; what `memTable`, `immTable` and each
  flush hold is in a log of its own that is still there; while `NewDB` runs, all logs hold last values only.
* `LookInv`: what a lookup finds, or, with the process down, what `NewDB` will find, is `contents`. With the process running this is `LookupLatest` (`LatestFound`).

`NothingLost` (`CrashSafe`) is a consequence, not a part: if the key is in a log, outside `Overtaken` the replay gives its last record, which is its last value (`LogInv`). If not, no memtable has it,
so the lookup goes to the list, and the list that `loadSSTables` makes has the tables with that key in the same order: outside `StaleManifest` and `Abandoned` by `OrderInv`; during a compaction, outside
`Compacting`, because inputs and result are all there is and the result answers for the inputs (`MergeInv`). The crash step of `LookInv` is the same lemma, `DurableNow`, which is how safety carries over to the second crash.

### Engine: reads and the map (`LSMReadProofs`)

* `ReadInv`: of the files a `Get` has left, those that still exist are complete, with ids that are not handed out again; and the newest one with the key, unless a newer one was removed, answers with the value at the
  start. This survives removals, because they only make the premise false. Corollary: `SnapshotRead` (`ReadsSnapshot`), with compaction on or off.
* `MapImplemented` (`ImplementsMap`), for `EnableCompaction = FALSE`, which is what the property states: no file is removed then, so under the refinement mapping the map is `contents` and the answer of a `Get` is its `start`, and only
  `WriteMemTable`, `GetSnapshot` and `Crash` change those.

### Tables (`SSTableProofs`)

The only assumption is `FormatAssumption`: keys and lengths are natural numbers, a stored value is not empty, `Nil` is no length, `BlockSize` is at least 1, and a
compaction merges at least two tables.

The operators of this module are loops over a slice. The library's induction rules take a predicate as a parameter, which the installed provers cannot
instantiate, so induction is done on sets of numbers: a set of numbers has a least element (`LeastExists`, from the well-foundedness of `<`), hence a set
that has 0 and the successor of each of its elements up to n has all of 0..n (`UpTo`). A loop is a function from the number of rounds to the
value after them; that it exists is shown once (`Iterates`), and what it computes is one application of `UpTo` to the rounds after which the loop invariant holds.

* `SearchFindsFirst`: on a condition that stays true once it is true, n rounds of bisection leave an interval of one point, the least position at which it holds.
  The invariant is that the condition is false before the interval and true behind it, and the measure that the interval loses an element in every round. `PositionFinds` is this for the slice of
  the memtable, and so `Put` keeps the slice sorted and `size` exact (`PutOverwrites`, `PutInserts`).
* `BlockEndsLaidOut`: after each record the ends found so far cut the slice into full blocks and what is in the buffer. Hence each entry of the index holds the
  greatest key of its block, the offset and the size of exactly its records (`IndexShapes`), the blocks put together are the slice (`TableTiles`), the iterator of a table goes through all of it (`ScanIs`), and what
  `loadSSTables` rebuilds is what was written (`LoadedIsWritten`).
* `FoundIs`: a lookup in a table finds what its slice has for the key, no more and no less: the block the index leads to is the only one that may have it.
* `MergeRound`: what `doMerge` does with the item on top of its heap keeps the loop invariant `Merging`: the builder is sorted, none of its keys is greater than what is left to be read, it has a record for
  everything that was passed, and that record is from the newest table with the key. The heap's order of equal keys is what the last part needs, `lastKey` the sortedness.
* `TableInvariant`: `IInv` is inductive. It says that every table is `Written` from a sorted slice, that of the records of a key the newest (memtable before tables, later tables before earlier)
  has its last value (`Recorded`), that the memtable is exact and that a merge is in a round of its loop. `GetExact` alone is not inductive: it says nothing about older records, which a merge must drop.
  Corollaries: `TypeCorrect`, `MemTableStaysExact`, `BlocksAlwaysTile`, `GetAlwaysExact`, `MergeAlwaysExact`. The invariant was checked with TLC on the instance of `sstable`.

### Only model-checked

Liveness: `LogsConverge`, `CommandsApplied`, `RequestsAnswered`, `FlushCompletes`, `CompactionCatchesUp`. Liveness under fairness is outside what
the installed provers do. Every other property of a passing run is a theorem. The four findings are counterexamples, which need no proof.

## 5. Not modelled

* Encodings: gob and its wrapper `labgob`, JSON, the bytes of WAL records and of length fields. A torn last
  WAL record is the same as a crash before the append, because `Replay` stops at it; a record torn by a
  failed write in the middle of a WAL, and a torn last line of the manifest, are listed as hazards without a property.
* Inside `NewDB`: a failing `os.Remove` or `ReadDir` of `removeAllOldWalFiles`, a failing `MkdirAll`, a failing `OpenWAL` for the active WAL (the engine would have
  no log at all) and a failing `Stat` of a table. Every other file operation of the engine may fail in `LSM`.
* Metrics of Raft, engine and gateway, the debug endpoints (the forced election itself is in `Raft`), and
  `labrpc` beyond delivery, delay, loss and reordering: its servers and services are registered once and never change in `cmd/kvnode`.
* Durations: a timeout may fire at any moment, a ticker ticks in the end.
* `Snapshot` is empty in the code, `WAL.Clear` has no caller. Benchmarks and scripts are not part of the system.

## 6. State of the work

Modelled, checked and proved: `Raft`, `RaftLog`, `ReplicatedLog`, `Store`, `LSM`, `KVMap`, `SSTable`. What would come next, in this order:

1. The two hazards without a property: a WAL whose middle record is torn by a failed write, and a torn line of `manifest.log`.
   Both need the WAL and the manifest as sequences of records in `LSM` instead of the tables and lists they replay to.
2. A refinement of the table functions of `LSM` by `SSTable`, state by state, instead of by what its operators compute.
3. Rank functions for the liveness properties, should provers for liveness be available.
