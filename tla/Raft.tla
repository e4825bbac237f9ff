-------------------------------- MODULE Raft --------------------------------
(***************************************************************************)
(* One Raft group as internal/raft/raft.go implements it: elections, log   *)
(* replication with the XTerm/XIndex/XLen back-off, the commit rule, the   *)
(* apply loop, and restart from the file of internal/raft/persister.go.    *)
(* Every goroutine of a peer works under rf.mu, so one critical section is *)
(* one action; what happens between two critical sections of a goroutine   *)
(* (an RPC under way) is a record in one of the four call variables.       *)
(*                                                                         *)
(* The Go slice rf.log starts with a sentinel entry of term 0 at index 0;  *)
(* log[i] here leaves it out, so that Go index k is TLA+ index k,          *)
(* len(rf.log) is Len(log[i]) + 1, and TermAt(l, 0) = 0 is the sentinel.   *)
(***************************************************************************)
EXTENDS Integers, Sequences, FiniteSets

CONSTANTS
    Server,         \* the peers, the index set of rf.peers
    Value,          \* commands the service passes to Start
    Nil,            \* votedFor = -1
    RestartGroups,  \* sets of peers that live in one process: {Server} in cmd/kvnode
    Lossy,          \* whether the network may lose a call (labrpc's Reliable(false))
    MaxTerm,        \* bound: no election beyond this term
    MaxLog,         \* bound: length of a log that Start still extends
    MaxCalls,       \* bound: AppendEntries calls one peer has open to another
    MaxRestarts     \* bound: crashes in one behaviour

Follower  == "StateFollower"
Candidate == "StateCandidate"
Leader    == "StateLeader"

ASSUME ServerAssumption ==
    /\ IsFiniteSet(Server)
    /\ Nil \notin Server
    /\ RestartGroups \subseteq SUBSET Server

ASSUME BoundAssumption ==
    /\ Lossy \in BOOLEAN
    /\ MaxTerm \in Nat
    /\ MaxLog \in Nat
    /\ MaxCalls \in Nat
    /\ MaxRestarts \in Nat

VARIABLES
    currentTerm, votedFor, state,   \* fields of the Raft struct
    log, commitIndex, lastApplied,
    nextIndex, matchIndex,
    votes,          \* per peer: who has counted in votecount of its latest election
    persisted,      \* per peer: content of raft_state.bin
    voteCalls,      \* RequestVote calls whose handler has not run
    voteReplies,    \* RequestVote replies the calling goroutine has not looked at
    appendCalls,    \* AppendEntries calls whose handler has not run
    appendReplies,  \* AppendEntries replies the calling goroutine has not looked at
    restarts,       \* crashes so far (bounded by MaxRestarts)
    ballots,        \* history: <<term, voter, candidate>> of every vote ever given
    leaders,        \* history: <<term, leader>> of every election ever won
    applied,        \* history: <<index, entry>> of everything ever sent to an applyCh
    reusedMatch     \* history: some election was won with a matchIndex left over
                    \* from an earlier leadership

durableVars == <<currentTerm, votedFor, log>>
leaderVars  == <<nextIndex, matchIndex>>
callVars    == <<voteCalls, voteReplies, appendCalls, appendReplies>>
historyVars == <<ballots, leaders, applied, reusedMatch>>
vars == <<durableVars, state, commitIndex, lastApplied, leaderVars, votes,
          persisted, callVars, restarts, historyVars>>

-----------------------------------------------------------------------------
(* Messages.  A reply carries the arguments of its call, which the goroutine *)
(* that waits for it still holds.                                            *)

Entry == [term : Nat, command : Value]

PersistentState == [term : Nat, votedFor : Server \cup {Nil}, log : Seq(Entry)]

RequestVoteArgs == [from : Server, to : Server, term : Nat,
                    lastLogIndex : Nat, lastLogTerm : Nat]

RequestVoteReplies == [args : RequestVoteArgs, term : Nat, voteGranted : BOOLEAN]

\* slot names the goroutine that makes the call, so that two identical
\* heartbeats may be under way together
AppendEntriesArgs == [from : Server, to : Server, slot : 1..MaxCalls, term : Nat,
                      prevLogIndex : Nat, prevLogTerm : Nat,
                      entries : Seq(Entry), leaderCommit : Nat]

AppendEntriesReplies == [args : AppendEntriesArgs, term : Nat, success : BOOLEAN,
                         xterm : Int, xindex : Int, xlen : Nat]

-----------------------------------------------------------------------------
(* Operators on logs.                                                        *)

Least(S) == CHOOSE x \in S : \A y \in S : x <= y

Greatest(S) == CHOOSE x \in S : \A y \in S : y <= x

TermAt(l, k) == IF k = 0 THEN 0 ELSE l[k].term

LastTerm(l) == TermAt(l, Len(l))

\* A candidate's log is at least as new as the voter's log l.
UpToDate(lastLogTerm, lastLogIndex, l) ==
    \/ lastLogTerm > LastTerm(l)
    \/ lastLogTerm = LastTerm(l) /\ lastLogIndex >= Len(l)

\* Mutant: a vote already given to another candidate does not count.
VoteAgain(voted, candidate) == TRUE

\* A peer whose vote in this term is `voted' may vote for candidate.
CanVote(voted, candidate) == voted \in {Nil, candidate}

\* Mutant: only the length is compared.
LongEnough(l, prev, prevTerm) == prev <= Len(l)

\* The consistency check of AppendEntries.
HasPrev(l, prev, prevTerm) == prev <= Len(l) /\ TermAt(l, prev) = prevTerm

\* The positions in es at which a log l disagrees with, or ends before, the
\* entries es that follow index prev.
Mismatches(l, prev, es) ==
    {k \in 1..Len(es) : \/ prev + k > Len(l)
                        \/ l[prev + k].term # es[k].term}

\* Truncate l at the first mismatch and append the rest of es; l itself when
\* it already holds all of es.
MergeEntries(l, prev, es) ==
    IF Mismatches(l, prev, es) = {}
    THEN l
    ELSE LET k == Least(Mismatches(l, prev, es))
         IN  SubSeq(l, 1, prev + k - 1) \o SubSeq(es, k, Len(es))

\* First index of the run of entries of one term that ends at index k.
FirstOfTerm(l, k) ==
    Least({x \in 0..k : \A y \in x..k : TermAt(l, y) = TermAt(l, k)})

\* Mutant: the length of a short log is looked for in the wrong field.
ResumeAtIndex(l, xterm, xindex, xlen) ==
    LET matched == {k \in 1..Len(l) : l[k].term = xterm}
    IN  IF matched = {} THEN xindex ELSE Greatest(matched) + 1

\* Mutant: after a log that is too short the leader resumes one entry too far.
PastTheEnd(l, xterm, xindex, xlen) ==
    LET matched == {k \in 1..Len(l) : l[k].term = xterm}
    IN  IF xterm = -1 THEN xlen + 1
        ELSE IF matched = {} THEN IF xindex < 1 THEN 1 ELSE xindex
        ELSE Greatest(matched) + 1

\* Where the leader resumes after a rejected AppendEntries.
BackedOff(l, xterm, xindex, xlen) ==
    LET matched == {k \in 1..Len(l) : l[k].term = xterm}
        next    == IF xterm = -1 THEN xlen
                   ELSE IF matched = {} THEN xindex
                   ELSE Greatest(matched) + 1
    IN  IF next < 1 THEN 1 ELSE next

\* Mutant: a follower copies what the leader sent without looking at its own.
CopyLeaderCommit(own, leaderCommit, lastNew) ==
    IF leaderCommit < lastNew THEN leaderCommit ELSE lastNew

\* A follower's commitIndex after an accepted AppendEntries.
FollowerCommit(own, leaderCommit, lastNew) ==
    IF leaderCommit <= own THEN own
    ELSE IF leaderCommit < lastNew THEN leaderCommit ELSE lastNew

\* More than half of the peers.
Majority(n) == n > Cardinality(Server) \div 2

\* Mutant: the entry is counted for a peer that may only lack it, nextIndex in
\* place of matchIndex.
CountNext(i, match) ==
    LET count(n) == 1 + Cardinality({j \in Server \ {i} :
                            match[j] + 1 >= n /\ log[i][n].term = currentTerm[i]})
        ready == {n \in (commitIndex[i] + 1)..Len(log[i]) : Majority(count(n))}
    IN  IF ready = {} THEN commitIndex[i] ELSE Greatest(ready)

\* The commitIndex of leader i when match is what it knows of its peers' logs.
CommitFrom(i, match) ==
    LET count(n) == 1 + Cardinality({j \in Server \ {i} :
                            match[j] >= n /\ log[i][n].term = currentTerm[i]})
        ready == {n \in (commitIndex[i] + 1)..Len(log[i]) : Majority(count(n))}
    IN  IF ready = {} THEN commitIndex[i]
        ELSE Greatest(ready)

-----------------------------------------------------------------------------
(* Persistence.                                                              *)

\* Mutant: the state is not saved.
SkipPersist(i) == UNCHANGED persisted

\* persist(): the durable fields, as the handler leaves them, replace the file.
Persist(i) ==
    persisted' = [persisted EXCEPT ![i] = [term     |-> currentTerm'[i],
                                           votedFor |-> votedFor'[i],
                                           log      |-> log'[i]]]

\* What Make() starts from when there is no file or it does not decode.
Bootstrap == [term |-> 0, votedFor |-> Nil, log |-> << >>]

Init ==
    /\ currentTerm = [i \in Server |-> 0]
    /\ votedFor    = [i \in Server |-> Nil]
    /\ state       = [i \in Server |-> Follower]
    /\ log         = [i \in Server |-> << >>]
    /\ commitIndex = [i \in Server |-> 0]
    /\ lastApplied = [i \in Server |-> 0]
    /\ nextIndex   = [i \in Server |-> [j \in Server |-> 0]]
    /\ matchIndex  = [i \in Server |-> [j \in Server |-> 0]]
    /\ votes       = [i \in Server |-> {}]
    /\ persisted   = [i \in Server |-> Bootstrap]
    /\ voteCalls = {} /\ voteReplies = {} /\ appendCalls = {} /\ appendReplies = {}
    /\ restarts = 0
    /\ ballots = {} /\ leaders = {} /\ applied = {} /\ reusedMatch = FALSE

-----------------------------------------------------------------------------
(* Elections.                                                                *)

\* startElection(), which its two callers run under the lock.
StartElection(i) ==
    /\ currentTerm[i] < MaxTerm
    /\ currentTerm' = [currentTerm EXCEPT ![i] = @ + 1]
    /\ state' = [state EXCEPT ![i] = Candidate]
    /\ votedFor' = [votedFor EXCEPT ![i] = i]
    /\ votes' = [votes EXCEPT ![i] = {i}]
    /\ ballots' = ballots \cup {<<currentTerm[i] + 1, i, i>>}
    /\ voteCalls' = voteCalls \cup
           {[from |-> i, to |-> j, term |-> currentTerm[i] + 1,
             lastLogIndex |-> Len(log[i]), lastLogTerm |-> LastTerm(log[i])]
            : j \in Server \ {i}}
    /\ UNCHANGED <<log, commitIndex, lastApplied, leaderVars, voteReplies,
                   appendCalls, appendReplies, restarts, leaders, applied,
                   reusedMatch>>
    /\ Persist(i)

\* ticker(): the election timeout of a peer that is not the leader runs out.
Ticker(i) == state[i] # Leader /\ StartElection(i)

\* DebugForceElection(): the HTTP endpoint makes any peer, a leader too,
\* start an election.
DebugForceElection(i) == StartElection(i)

\* The handler RequestVote() of peer m.to.
RequestVote(m) ==
    LET i       == m.to
        bumped  == m.term > currentTerm[i]
        voted   == IF bumped THEN Nil ELSE votedFor[i]
        granted == /\ m.term >= currentTerm[i]
                   /\ UpToDate(m.lastLogTerm, m.lastLogIndex, log[i])
                   /\ CanVote(voted, m.from)
    IN  /\ m \in voteCalls
        /\ currentTerm' = [currentTerm EXCEPT ![i] = IF bumped THEN m.term ELSE @]
        /\ state' = [state EXCEPT ![i] = IF bumped THEN Follower ELSE @]
        /\ votedFor' = [votedFor EXCEPT ![i] = IF granted THEN m.from ELSE voted]
        /\ ballots' = IF granted THEN ballots \cup {<<m.term, i, m.from>>} ELSE ballots
        /\ voteCalls' = voteCalls \ {m}
        /\ voteReplies' = voteReplies \cup
               {[args |-> m, term |-> currentTerm'[i], voteGranted |-> granted]}
        /\ UNCHANGED <<log, commitIndex, lastApplied, leaderVars, votes,
                       appendCalls, appendReplies, restarts, leaders, applied,
                       reusedMatch>>
        /\ IF bumped \/ granted THEN Persist(i) ELSE UNCHANGED persisted

\* A reply of a higher term: setTermLocked() and back to follower.
StepDown(i, t) ==
    /\ currentTerm' = [currentTerm EXCEPT ![i] = t]
    /\ state' = [state EXCEPT ![i] = Follower]
    /\ votedFor' = [votedFor EXCEPT ![i] = Nil]
    /\ UNCHANGED log
    /\ Persist(i)

\* The last vote of a majority: the candidate becomes leader.  nextIndex is
\* set for every peer; matchIndex keeps what an earlier leadership left in it.
BecomeLeader(i) ==
    /\ state' = [state EXCEPT ![i] = Leader]
    /\ nextIndex' = [nextIndex EXCEPT ![i] = [j \in Server |-> Len(log[i]) + 1]]
    /\ leaders' = leaders \cup {<<currentTerm[i], i>>}
    /\ reusedMatch' = (reusedMatch \/ \E j \in Server : matchIndex[i][j] # 0)
    /\ UNCHANGED matchIndex

\* The goroutine of startElection() that called r.args.to looks at the reply.
RequestVoteReply(r) ==
    LET i     == r.args.from
        stale == state[i] # Candidate \/ currentTerm[i] # r.args.term
    IN  /\ r \in voteReplies
        /\ voteReplies' = voteReplies \ {r}
        /\ \/ /\ stale \/ (r.term <= currentTerm[i] /\ ~r.voteGranted)
              /\ UNCHANGED <<durableVars, state, leaderVars, votes, persisted,
                             leaders, reusedMatch>>
           \/ /\ ~stale /\ r.term > currentTerm[i]
              /\ StepDown(i, r.term)
              /\ UNCHANGED <<leaderVars, votes, leaders, reusedMatch>>
           \/ /\ ~stale /\ r.term <= currentTerm[i] /\ r.voteGranted
              /\ votes' = [votes EXCEPT ![i] = @ \cup {r.args.to}]
              /\ IF Majority(Cardinality(votes'[i]))
                 THEN BecomeLeader(i)
                 ELSE UNCHANGED <<state, leaderVars, leaders, reusedMatch>>
              /\ UNCHANGED <<durableVars, persisted>>
        /\ UNCHANGED <<commitIndex, lastApplied, voteCalls, appendCalls,
                       appendReplies, restarts, ballots, applied>>

-----------------------------------------------------------------------------
(* Replication.                                                              *)

\* Start(): the service hands the leader a command.
Start(i, v) ==
    /\ state[i] = Leader
    /\ Len(log[i]) < MaxLog
    /\ log' = [log EXCEPT ![i] = Append(@, [term |-> currentTerm[i], command |-> v])]
    /\ UNCHANGED <<currentTerm, votedFor, state, commitIndex, lastApplied,
                   leaderVars, votes, callVars, restarts, historyVars>>
    /\ Persist(i)

\* The slots of i's calls to j that are under way.
OpenSlots(i, j) ==
    {m.slot : m \in {c \in appendCalls : c.from = i /\ c.to = j}}
    \cup {r.args.slot : r \in {c \in appendReplies : c.args.from = i /\ c.args.to = j}}

\* A goroutine of broadcastHeartbeats() builds the message for peer j and
\* calls it.  heartbeatTicker(), a won election, Start() and the retry after
\* a rejection all come here.
SendAppendEntries(i, j) ==
    LET next == nextIndex[i][j]
    IN  /\ state[i] = Leader
        /\ \E s \in 1..MaxCalls :
              /\ s \notin OpenSlots(i, j)
              /\ \A t \in 1..MaxCalls : t < s => t \in OpenSlots(i, j)
              /\ appendCalls' = appendCalls \cup
                     {[from |-> i, to |-> j, slot |-> s, term |-> currentTerm[i],
                       prevLogIndex |-> next - 1,
                       prevLogTerm  |-> TermAt(log[i], next - 1),
                       entries      |-> SubSeq(log[i], next, Len(log[i])),
                       leaderCommit |-> commitIndex[i]]}
        /\ UNCHANGED <<durableVars, state, commitIndex, lastApplied, leaderVars,
                       votes, persisted, voteCalls, voteReplies, appendReplies,
                       restarts, historyVars>>

\* The reply of peer i to m: what the leader needs to back off when the
\* consistency check failed, zeroes when the term was stale or all went well.
AppendReply(m, i, term, success) ==
    LET missing  == ~success /\ m.term = term /\ m.prevLogIndex > Len(log[i])
        conflict == ~success /\ m.term = term /\ m.prevLogIndex <= Len(log[i])
    IN  [args |-> m, term |-> term, success |-> success,
         xterm  |-> IF missing THEN -1
                    ELSE IF conflict THEN TermAt(log[i], m.prevLogIndex) ELSE 0,
         xindex |-> IF missing THEN -1
                    ELSE IF conflict THEN FirstOfTerm(log[i], m.prevLogIndex) ELSE 0,
         xlen   |-> IF missing THEN Len(log[i]) + 1 ELSE 0]

\* The handler AppendEntries() of peer m.to.
AppendEntries(m) ==
    LET i       == m.to
        stale   == m.term < currentTerm[i]
        bumped  == m.term > currentTerm[i]
        success == ~stale /\ HasPrev(log[i], m.prevLogIndex, m.prevLogTerm)
    IN  /\ m \in appendCalls
        /\ currentTerm' = [currentTerm EXCEPT ![i] = IF bumped THEN m.term ELSE @]
        /\ votedFor' = [votedFor EXCEPT ![i] = IF bumped THEN Nil ELSE @]
        /\ state' = [state EXCEPT ![i] = IF stale THEN @ ELSE Follower]
        /\ log' = [log EXCEPT ![i] =
                      IF success THEN MergeEntries(@, m.prevLogIndex, m.entries) ELSE @]
        /\ commitIndex' = [commitIndex EXCEPT ![i] =
                      IF success
                      THEN FollowerCommit(@, m.leaderCommit, m.prevLogIndex + Len(m.entries))
                      ELSE @]
        /\ appendCalls' = appendCalls \ {m}
        /\ appendReplies' = appendReplies \cup {AppendReply(m, i, currentTerm'[i], success)}
        /\ UNCHANGED <<lastApplied, leaderVars, votes, voteCalls, voteReplies,
                       restarts, historyVars>>
        /\ IF bumped \/ log'[i] # log[i] THEN Persist(i) ELSE UNCHANGED persisted

\* The goroutine of broadcastHeartbeats() looks at the reply.  After a
\* rejection it builds the next message at once: SendAppendEntries again.
AppendEntriesReply(r) ==
    LET i     == r.args.from
        j     == r.args.to
        match == r.args.prevLogIndex + Len(r.args.entries)
        stale == state[i] # Leader \/ currentTerm[i] # r.args.term
    IN  /\ r \in appendReplies
        /\ appendReplies' = appendReplies \ {r}
        /\ \/ /\ stale
              /\ UNCHANGED <<durableVars, state, commitIndex, leaderVars, persisted>>
           \/ /\ ~stale /\ r.term > currentTerm[i]
              /\ StepDown(i, r.term)
              /\ UNCHANGED <<commitIndex, leaderVars>>
           \/ /\ ~stale /\ r.term <= currentTerm[i] /\ r.success
              /\ nextIndex' = [nextIndex EXCEPT ![i][j] = IF match + 1 > @ THEN match + 1 ELSE @]
              /\ matchIndex' = [matchIndex EXCEPT ![i][j] = IF match > @ THEN match ELSE @]
              /\ commitIndex' = [commitIndex EXCEPT ![i] = CommitFrom(i, matchIndex'[i])]
              /\ UNCHANGED <<durableVars, state, persisted>>
           \/ /\ ~stale /\ r.term <= currentTerm[i] /\ ~r.success
              /\ nextIndex' = [nextIndex EXCEPT ![i][j] =
                                  BackedOff(log[i], r.xterm, r.xindex, r.xlen)]
              /\ UNCHANGED <<durableVars, state, commitIndex, matchIndex, persisted>>
        /\ UNCHANGED <<lastApplied, votes, voteCalls, voteReplies, appendCalls,
                       restarts, historyVars>>

\* applyLoop(): everything up to commitIndex is handed to the service.
ApplyLoop(i) ==
    /\ commitIndex[i] > lastApplied[i]
    /\ lastApplied' = [lastApplied EXCEPT ![i] = commitIndex[i]]
    /\ applied' = applied \cup
           {<<k, log[i][k]>> : k \in (lastApplied[i] + 1)..commitIndex[i]}
    /\ UNCHANGED <<durableVars, state, commitIndex, leaderVars, votes, persisted,
                   callVars, restarts, ballots, leaders, reusedMatch>>

-----------------------------------------------------------------------------
(* Failures.                                                                 *)

\* labrpc loses a request or a reply: Call() returns false and the goroutine ends.
LoseCall ==
    /\ Lossy
    /\ \/ /\ \E m \in voteCalls : voteCalls' = voteCalls \ {m}
          /\ UNCHANGED <<voteReplies, appendCalls, appendReplies>>
       \/ /\ \E r \in voteReplies : voteReplies' = voteReplies \ {r}
          /\ UNCHANGED <<voteCalls, appendCalls, appendReplies>>
       \/ /\ \E m \in appendCalls : appendCalls' = appendCalls \ {m}
          /\ UNCHANGED <<voteCalls, voteReplies, appendReplies>>
       \/ /\ \E r \in appendReplies : appendReplies' = appendReplies \ {r}
          /\ UNCHANGED <<voteCalls, voteReplies, appendCalls>>
    /\ UNCHANGED <<durableVars, state, commitIndex, lastApplied, leaderVars, votes,
                   persisted, restarts, historyVars>>

\* Make() after a crash of the peers in S, with file[i] what readPersist()
\* gets.  Calls made by or to a crashed peer are gone.
Reload(S, file) ==
    /\ currentTerm' = [i \in Server |-> IF i \in S THEN file[i].term ELSE currentTerm[i]]
    /\ votedFor'    = [i \in Server |-> IF i \in S THEN file[i].votedFor ELSE votedFor[i]]
    /\ log'         = [i \in Server |-> IF i \in S THEN file[i].log ELSE log[i]]
    /\ state'       = [i \in Server |-> IF i \in S THEN Follower ELSE state[i]]
    /\ commitIndex' = [i \in Server |-> IF i \in S THEN 0 ELSE commitIndex[i]]
    /\ lastApplied' = [i \in Server |-> IF i \in S THEN 0 ELSE lastApplied[i]]
    /\ votes'       = [i \in Server |-> IF i \in S THEN {} ELSE votes[i]]
    /\ nextIndex'   = [i \in Server |-> [j \in Server |->
                          IF i \in S THEN 0 ELSE nextIndex[i][j]]]
    /\ matchIndex'  = [i \in Server |-> [j \in Server |->
                          IF i \in S THEN 0 ELSE matchIndex[i][j]]]
    /\ voteCalls'     = {m \in voteCalls : m.from \notin S /\ m.to \notin S}
    /\ voteReplies'   = {r \in voteReplies : r.args.from \notin S}
    /\ appendCalls'   = {m \in appendCalls : m.from \notin S /\ m.to \notin S}
    /\ appendReplies' = {r \in appendReplies : r.args.from \notin S}
    /\ UNCHANGED historyVars

\* A process crashes between two critical sections and its peers restart.
Restart(S) ==
    /\ restarts < MaxRestarts
    /\ restarts' = restarts + 1
    /\ persisted' = persisted
    /\ Reload(S, persisted)

Next ==
    \/ \E i \in Server : Ticker(i)
    \/ \E i \in Server : DebugForceElection(i)
    \/ \E m \in voteCalls : RequestVote(m)
    \/ \E r \in voteReplies : RequestVoteReply(r)
    \/ \E i \in Server, v \in Value : Start(i, v)
    \/ \E i, j \in Server : i # j /\ SendAppendEntries(i, j)
    \/ \E m \in appendCalls : AppendEntries(m)
    \/ \E r \in appendReplies : AppendEntriesReply(r)
    \/ \E i \in Server : ApplyLoop(i)
    \/ LoseCall
    \/ \E S \in RestartGroups : Restart(S)

Spec == Init /\ [][Next]_vars

-----------------------------------------------------------------------------
(* Properties.                                                               *)

\* The fields of the peers, their files and the messages keep their shape; in
\* particular no back-off makes an index negative.
TypeOK ==
    /\ currentTerm \in [Server -> Nat]
    /\ votedFor \in [Server -> Server \cup {Nil}]
    /\ state \in [Server -> {Follower, Candidate, Leader}]
    /\ log \in [Server -> Seq(Entry)]
    /\ commitIndex \in [Server -> Nat]
    /\ lastApplied \in [Server -> Nat]
    /\ nextIndex \in [Server -> [Server -> Nat]]
    /\ matchIndex \in [Server -> [Server -> Nat]]
    /\ votes \in [Server -> SUBSET Server]
    /\ persisted \in [Server -> PersistentState]
    /\ voteCalls \subseteq RequestVoteArgs
    /\ voteReplies \subseteq RequestVoteReplies
    /\ appendCalls \subseteq AppendEntriesArgs
    /\ appendReplies \subseteq AppendEntriesReplies
    /\ restarts \in Nat
    /\ ballots \subseteq Nat \X Server \X Server
    /\ leaders \subseteq Nat \X Server
    /\ reusedMatch \in BOOLEAN

\* At most one peer ever wins an election in a term, whatever is lost, delayed
\* or restarted (RequestVote, startElection, persist).
ElectionSafety ==
    \A a, b \in leaders : a[1] = b[1] => a[2] = b[2]

\* Two logs that hold an entry of one term at one index are equal up to that
\* index (the consistency check and the merge of AppendEntries).
LogMatching ==
    \A i, j \in Server : \A k \in 1..Len(log[i]) :
        k <= Len(log[j]) /\ log[i][k].term = log[j][k].term
            => \A x \in 1..k : log[i][x] = log[j][x]

\* Outside a critical section the file holds the durable fields: a crash takes
\* nothing back that another peer may have seen (needPersist, persist).
PersistedIsCurrent ==
    \A i \in Server : persisted[i] = [term |-> currentTerm[i], votedFor |-> votedFor[i],
                                      log |-> log[i]]

\* The slice expressions rf.log[rf.nextIndex[peer]:] and
\* rf.log[rf.nextIndex[peer]-1] of a leader stay inside the log, whatever old
\* replies the back-off takes into account.
NextIndexInRange ==
    \A i, j \in Server :
        state[i] = Leader => nextIndex[i][j] \in 1..(Len(log[i]) + 1)

\* What a peer counts as committed is in the file of a majority, the meaning
\* raft.go gives commitIndex.
CommittedIsReplicated ==
    \A i \in Server : \A k \in 1..commitIndex[i] :
        /\ k <= Len(log[i])
        /\ Majority(Cardinality({j \in Server :
            /\ k <= Len(persisted[j].log)
            /\ persisted[j].log[k] = log[i][k]}))

\* As long as no leader has started with a matchIndex of an earlier term,
\* commitIndex means what its comment says.
CommittedUnlessReused == ~reusedMatch => CommittedIsReplicated

\* As long as no leader has started with a matchIndex of an earlier term, no two
\* peers and no two incarnations of one ever apply different entries at an index.
AppliedUnlessReused ==
    ~reusedMatch => \A a, b \in applied : a[1] = b[1] => a = b

\* commitIndex never goes back in one incarnation, although AppendEntries
\* assigns it the smaller of two values and messages arrive in any order.  (A
\* leader with a matchIndex of an earlier term may count as committed what is
\* later cut from its log, and then sends a leaderCommit beyond its entries.)
CommitMonotone ==
    [][\A i \in Server :
          restarts' = restarts /\ ~reusedMatch => commitIndex'[i] >= commitIndex[i]]_vars

\* No AppendEntries of a leader's own term is ever on its way to it: the
\* handler's unconditional step to StateFollower never demotes the leader of the
\* term, and never truncates its log.
LeaderUnchallenged ==
    \A m \in appendCalls : state[m.to] = Leader => m.term # currentTerm[m.to]
=============================================================================
