----------------------------- MODULE RaftProofs -----------------------------
(***************************************************************************)
(* Theorems about Raft, for every group of peers, every set of commands and *)
(* every value of the bounds.                                              *)
(***************************************************************************)
EXTENDS Raft, TLAPS, FiniteSetTheorems, SequenceTheorems, WellFoundedInduction

-----------------------------------------------------------------------------
(* The operators on logs.                                                    *)

\* A set of indices has a least element: what the scans of AppendEntries stop at.
LEMMA LeastExists ==
    ASSUME NEW T, T \subseteq Nat, T # {}
    PROVE  /\ Least(T) \in T
           /\ \A y \in T : Least(T) <= y
<1>1. IsWellFoundedOn(OpToRel(<, Nat), Nat)
  BY NatLessThanWellFounded, Zenon
<1>2. PICK x \in T : \A y \in T : ~ (<<y, x>> \in OpToRel(<, Nat))
  BY <1>1, WFMin, Zenon
<1>3. ASSUME NEW y \in T PROVE x <= y
  <2>1. ~ (<<y, x>> \in {ss \in Nat \X Nat : ss[1] < ss[2]})
    BY <1>2, Zenon DEF OpToRel
  <2>2. <<y, x>> \in Nat \X Nat
    OBVIOUS
  <2>. QED BY <2>1, <2>2
<1>. QED
  BY <1>3 DEF Least

\* A bounded set of indices has a greatest element: what the downward scans of
\* broadcastHeartbeats stop at.
LEMMA GreatestExists ==
    ASSUME NEW T, T \subseteq Nat, T # {}, NEW n \in Nat, \A y \in T : y <= n
    PROVE  /\ Greatest(T) \in T
           /\ \A y \in T : y <= Greatest(T)
<1>. DEFINE U == {n - y : y \in T}
<1>1. U \subseteq Nat /\ U # {}
  <2>1. ASSUME NEW y \in T PROVE n - y \in Nat
    <3>1. y \in Nat /\ y <= n
      OBVIOUS
    <3>. QED BY <3>1
  <2>. QED BY <2>1, Zenon
<1>2. Least(U) \in U /\ \A u \in U : Least(U) <= u
  BY <1>1, LeastExists
<1>3. PICK x \in T : Least(U) = n - x
  BY <1>2
<1>4. ASSUME NEW y \in T PROVE y <= x
  <2>1. n - y \in U
    OBVIOUS
  <2>2. n - x <= n - y
    BY <2>1, <1>2, <1>3
  <2>. QED BY <2>2
<1>. QED
  BY <1>4 DEF Greatest

\* A term read from a log, or from its sentinel, is a term.
LEMMA TermAtType ==
    ASSUME NEW l \in Seq(Entry), NEW k \in 0..Len(l)
    PROVE  TermAt(l, k) \in Nat
<1>1. k # 0 => l[k] \in Entry
  OBVIOUS
<1>. QED BY <1>1 DEF TermAt, Entry

\* The merge of AppendEntries makes a log of a log.
LEMMA MergeType ==
    ASSUME NEW l \in Seq(Entry), NEW es \in Seq(Entry), NEW prev \in 0..Len(l)
    PROVE  MergeEntries(l, prev, es) \in Seq(Entry)
<1>. DEFINE M == Mismatches(l, prev, es)
            k == Least(M)
<1>1. CASE M = {}
  BY <1>1 DEF MergeEntries
<1>2. CASE M # {}
  <2>1. M \subseteq Nat
    BY DEF Mismatches
  <2>2. k \in M /\ \A y \in M : k <= y
    BY <1>2, <2>1, LeastExists
  <2>3. k \in 1..Len(es) /\ (k > 1 => k - 1 \notin M)
    BY <2>2, SMTT(30) DEF Mismatches
  <2>4. prev + k - 1 \in 0..Len(l)
    BY <2>3 DEF Mismatches
  <2>5. /\ SubSeq(l, 1, prev + k - 1) \in Seq(Entry)
        /\ SubSeq(es, k, Len(es)) \in Seq(Entry)
    BY <2>3, <2>4, SubSeqProperties
  <2>6. MergeEntries(l, prev, es) = SubSeq(l, 1, prev + k - 1) \o SubSeq(es, k, Len(es))
    BY <1>2 DEF MergeEntries
  <2>. QED BY <2>5, <2>6
<1>. QED BY <1>1, <1>2

\* The scan for the first entry of the conflicting term stays at or below the
\* index it starts from.
LEMMA FirstOfTermRange ==
    ASSUME NEW l, NEW k \in Nat
    PROVE  FirstOfTerm(l, k) \in 0..k
<1>. DEFINE T == {x \in 0..k : \A y \in x..k : TermAt(l, y) = TermAt(l, k)}
<1>1. T \subseteq Nat /\ k \in T
  OBVIOUS
<1>2. Least(T) \in T
  BY <1>1, LeastExists
<1>. QED BY <1>2 DEF FirstOfTerm

\* The back-off leaves nextIndex inside the leader's log, or just after it, when
\* the hints of the rejection do.
LEMMA BackedOffRange ==
    ASSUME NEW l \in Seq(Entry), NEW xterm \in Int, NEW xindex \in Int, NEW xlen \in Int,
           xterm = -1 => xlen <= Len(l) + 1,
           xterm # -1 => xindex <= Len(l) + 1
    PROVE  BackedOff(l, xterm, xindex, xlen) \in 1..(Len(l) + 1)
<1>. DEFINE T == {k \in 1..Len(l) : l[k].term = xterm}
<1>1. T # {} => Greatest(T) \in 1..Len(l)
  <2>. SUFFICES ASSUME T # {} PROVE Greatest(T) \in T
    OBVIOUS
  <2>1. T \subseteq Nat /\ Len(l) \in Nat /\ \A y \in T : y <= Len(l)
    OBVIOUS
  <2>. HIDE DEF T
  <2>. QED BY <2>1, GreatestExists
<1>. QED BY <1>1 DEF BackedOff

\* The commit rule yields an index.
LEMMA CommitFromType ==
    ASSUME TypeOK, NEW i \in Server, NEW match
    PROVE  CommitFrom(i, match) \in Nat
<1>. DEFINE count(n) == 1 + Cardinality({j \in Server \ {i} :
                            match[j] >= n /\ log[i][n].term = currentTerm[i]})
            ready == {n \in (commitIndex[i] + 1)..Len(log[i]) : Majority(count(n))}
<1>1. commitIndex[i] \in Nat /\ Len(log[i]) \in Nat
  BY DEF TypeOK
<1>2. ready \subseteq Nat /\ \A n \in ready : n <= Len(log[i])
  BY <1>1
<1>3. ready # {} => Greatest(ready) \in Nat
  <2>. HIDE DEF ready
  <2>. QED BY <1>1, <1>2, GreatestExists
<1>4. CommitFrom(i, match) = IF ready = {} THEN commitIndex[i] ELSE Greatest(ready)
  BY DEF CommitFrom
<1>. QED BY <1>1, <1>3, <1>4

-----------------------------------------------------------------------------
(* Types, files and the range of nextIndex.                                  *)

\* The AppendEntries calls that have been made and not yet answered for good.
Sent == appendCalls \cup {r.args : r \in appendReplies}

\* A call was sent by a leader; if that leader is still in office, its log holds
\* all that the call spoke of.
CallsFit ==
    \A m \in Sent :
        /\ m.term <= currentTerm[m.from]
        /\ m.term = currentTerm[m.from] => state[m.from] # Candidate
        /\ m.term = currentTerm[m.from] /\ state[m.from] = Leader
               => m.prevLogIndex + Len(m.entries) <= Len(log[m.from])

\* The hints of a rejection lie at or below the index that was rejected.
RejectionsFit ==
    \A r \in appendReplies :
        ~r.success /\ r.term <= r.args.term =>
            /\ r.xterm = -1 => r.xlen <= r.args.prevLogIndex
            /\ r.xterm # -1 => r.xindex <= r.args.prevLogIndex

TypeInv ==
    /\ TypeOK
    /\ PersistedIsCurrent
    /\ NextIndexInRange
    /\ CallsFit
    /\ RejectionsFit

\* The empty cluster that Make() starts from satisfies the type invariant.
LEMMA TypeInvInit == Init => TypeInv
<1>. SUFFICES ASSUME Init PROVE TypeInv
  OBVIOUS
<1>1. Bootstrap \in PersistentState
  BY DEF Bootstrap, PersistentState, Entry
<1>2. TypeOK
  <2>1. << >> \in Seq(Entry)
    OBVIOUS
  <2>2. persisted \in [Server -> PersistentState]
    BY <1>1 DEF Init
  <2>3. votedFor \in [Server -> Server \cup {Nil}]
    BY DEF Init
  <2>4. nextIndex \in [Server -> [Server -> Nat]] /\ matchIndex \in [Server -> [Server -> Nat]]
    BY DEF Init
  <2>5. log \in [Server -> Seq(Entry)]
    BY <2>1 DEF Init
  <2>6. votes \in [Server -> SUBSET Server]
    BY DEF Init
  <2>. QED BY <2>2, <2>3, <2>4, <2>5, <2>6 DEF Init, TypeOK
<1>3. PersistedIsCurrent
  BY DEF Init, PersistedIsCurrent, Bootstrap
<1>4. NextIndexInRange /\ CallsFit /\ RejectionsFit
  BY DEF Init, NextIndexInRange, CallsFit, RejectionsFit, Sent, Follower, Leader
<1>. QED BY <1>2, <1>3, <1>4 DEF TypeInv

\* persist() at the end of a handler of peer i leaves every file current.
LEMMA PersistKeeps ==
    ASSUME NEW i \in Server, Persist(i), PersistedIsCurrent,
           persisted \in [Server -> PersistentState],
           currentTerm' \in [Server -> Nat], votedFor' \in [Server -> Server \cup {Nil}],
           log' \in [Server -> Seq(Entry)],
           \A j \in Server \ {i} : /\ currentTerm'[j] = currentTerm[j]
                                    /\ votedFor'[j] = votedFor[j]
                                    /\ log'[j] = log[j]
    PROVE  persisted' \in [Server -> PersistentState] /\ PersistedIsCurrent'
<1>1. /\ persisted'[i] = [term |-> currentTerm'[i], votedFor |-> votedFor'[i], log |-> log'[i]]
      /\ \A j \in Server \ {i} : persisted'[j] = persisted[j]
  BY DEF Persist
<1>2. PersistedIsCurrent'
  BY <1>1 DEF PersistedIsCurrent
<1>3. persisted' \in [Server -> PersistentState]
  BY DEF Persist, PersistentState
<1>. QED BY <1>2, <1>3

\* Every AppendEntries message under way, before its handler or held with its
\* reply, is well formed.
LEMMA SentType ==
    ASSUME TypeOK
    PROVE  /\ \A r \in appendReplies : r.args \in AppendEntriesArgs
           /\ \A m \in Sent : /\ m \in AppendEntriesArgs
                              /\ m.from \in Server /\ m.to \in Server
                              /\ m.term \in Nat /\ m.prevLogIndex \in Nat
                              /\ m.entries \in Seq(Entry)
<1>1. ASSUME NEW r \in appendReplies PROVE r.args \in AppendEntriesArgs
  BY DEF TypeOK, AppendEntriesReplies
<1>2. ASSUME NEW m \in Sent PROVE m \in AppendEntriesArgs
  BY <1>1 DEF TypeOK, Sent
<1>3. ASSUME NEW m \in AppendEntriesArgs
      PROVE  /\ m.from \in Server /\ m.to \in Server
             /\ m.term \in Nat /\ m.prevLogIndex \in Nat
             /\ m.entries \in Seq(Entry)
  BY DEF AppendEntriesArgs
<1>. QED BY <1>1, <1>2, <1>3

\* What a handler of peer i may do without breaking CallsFit: move to a later
\* term, become a follower, win its election, or stay what it is with a log that
\* does not shrink.
LEMMA CallsFitKept ==
    ASSUME TypeOK, CallsFit, Sent' \subseteq Sent, NEW i \in Server,
           currentTerm' \in [Server -> Nat], log' \in [Server -> Seq(Entry)],
           \A j \in Server \ {i} : /\ currentTerm'[j] = currentTerm[j]
                                    /\ state'[j] = state[j]
                                    /\ log'[j] = log[j],
           \/ currentTerm'[i] > currentTerm[i]
           \/ currentTerm'[i] = currentTerm[i] /\ state'[i] = Follower
           \/ /\ currentTerm'[i] = currentTerm[i]
              /\ state[i] = Candidate /\ state'[i] = Leader
           \/ /\ currentTerm'[i] = currentTerm[i]
              /\ state'[i] = state[i]
              /\ Len(log'[i]) >= Len(log[i])
    PROVE  CallsFit'
<1>. SUFFICES ASSUME NEW m \in Sent'
     PROVE  /\ m.term <= currentTerm'[m.from]
            /\ m.term = currentTerm'[m.from] => state'[m.from] # Candidate
            /\ m.term = currentTerm'[m.from] /\ state'[m.from] = Leader
                   => m.prevLogIndex + Len(m.entries) <= Len(log'[m.from])
  BY DEF CallsFit
<1>1. /\ m.from \in Server /\ m.term \in Nat /\ m.prevLogIndex \in Nat
      /\ Len(m.entries) \in Nat
  BY SentType
<1>2. /\ m.term <= currentTerm[m.from]
      /\ m.term = currentTerm[m.from] => state[m.from] # Candidate
      /\ m.term = currentTerm[m.from] /\ state[m.from] = Leader
             => m.prevLogIndex + Len(m.entries) <= Len(log[m.from])
  BY DEF CallsFit
<1>3. CASE m.from # i
  BY <1>1, <1>2, <1>3
<1>4. CASE m.from = i
  <2>1. currentTerm[i] \in Nat /\ currentTerm'[i] \in Nat
        /\ Len(log[i]) \in Nat /\ Len(log'[i]) \in Nat
    BY DEF TypeOK
  <2>. QED BY <1>1, <1>2, <1>4, <2>1 DEF Follower, Candidate, Leader
<1>. QED BY <1>3, <1>4

\* startElection() keeps the invariant.
LEMMA StartElectionType ==
    ASSUME TypeInv, NEW i \in Server, StartElection(i)
    PROVE  TypeInv'
<1>1. /\ TypeOK /\ PersistedIsCurrent /\ NextIndexInRange /\ CallsFit /\ RejectionsFit
  BY DEF TypeInv
<1>2. /\ currentTerm' = [currentTerm EXCEPT ![i] = @ + 1]
      /\ state' = [state EXCEPT ![i] = Candidate]
      /\ votedFor' = [votedFor EXCEPT ![i] = i]
      /\ votes' = [votes EXCEPT ![i] = {i}]
      /\ ballots' = ballots \cup {<<currentTerm[i] + 1, i, i>>}
      /\ UNCHANGED <<log, commitIndex, lastApplied, nextIndex, matchIndex, voteReplies,
                     appendCalls, appendReplies, restarts, leaders, reusedMatch>>
      /\ Persist(i)
  BY DEF StartElection, leaderVars
<1>3. /\ currentTerm' \in [Server -> Nat]
      /\ votedFor' \in [Server -> Server \cup {Nil}]
      /\ state' \in [Server -> {Follower, Candidate, Leader}]
      /\ log' \in [Server -> Seq(Entry)]
      /\ votes' \in [Server -> SUBSET Server]
      /\ ballots' \subseteq Nat \X Server \X Server
  BY <1>1, <1>2 DEF TypeOK
<1>4. \A j \in Server \ {i} : /\ currentTerm'[j] = currentTerm[j]
                               /\ votedFor'[j] = votedFor[j]
                               /\ log'[j] = log[j]
                               /\ state'[j] = state[j]
  BY <1>1, <1>2 DEF TypeOK
<1>5. persisted' \in [Server -> PersistentState] /\ PersistedIsCurrent'
  <2>. persisted \in [Server -> PersistentState]
    BY <1>1 DEF TypeOK
  <2>. QED BY <1>1, <1>2, <1>3, <1>4, PersistKeeps
<1>6. TypeOK'
  <2>1. LastTerm(log[i]) \in Nat /\ Len(log[i]) \in Nat /\ currentTerm[i] \in Nat
    BY <1>1, TermAtType DEF TypeOK, LastTerm
  <2>2. voteCalls' \subseteq RequestVoteArgs
    BY <1>1, <2>1, SMTT(30) DEF TypeOK, StartElection, RequestVoteArgs
  <2>. QED BY <1>1, <1>2, <1>3, <1>5, <2>2 DEF TypeOK
<1>7. NextIndexInRange'
  BY <1>1, <1>2, <1>4 DEF TypeOK, NextIndexInRange, Leader, Candidate
<1>8. CallsFit'
  <2>1. Sent' = Sent
    BY <1>2 DEF Sent
  <2>2. currentTerm'[i] > currentTerm[i]
    BY <1>1, <1>2 DEF TypeOK
  <2>. QED BY <1>1, <1>3, <1>4, <2>1, <2>2, CallsFitKept
<1>9. RejectionsFit'
  BY <1>1, <1>2 DEF RejectionsFit
<1>. QED BY <1>5, <1>6, <1>7, <1>8, <1>9 DEF TypeInv

\* The handler RequestVote() keeps the invariant.
LEMMA RequestVoteType ==
    ASSUME TypeInv, NEW m \in voteCalls, RequestVote(m)
    PROVE  TypeInv'
<1>. DEFINE i       == m.to
            bumped  == m.term > currentTerm[i]
            voted   == IF bumped THEN Nil ELSE votedFor[i]
            granted == /\ m.term >= currentTerm[i]
                       /\ UpToDate(m.lastLogTerm, m.lastLogIndex, log[i])
                       /\ CanVote(voted, m.from)
<1>1. /\ TypeOK /\ PersistedIsCurrent /\ NextIndexInRange /\ CallsFit /\ RejectionsFit
  BY DEF TypeInv
<1>2. /\ currentTerm' = [currentTerm EXCEPT ![i] = IF bumped THEN m.term ELSE @]
      /\ state' = [state EXCEPT ![i] = IF bumped THEN Follower ELSE @]
      /\ votedFor' = [votedFor EXCEPT ![i] = IF granted THEN m.from ELSE voted]
      /\ ballots' = IF granted THEN ballots \cup {<<m.term, i, m.from>>} ELSE ballots
      /\ voteCalls' = voteCalls \ {m}
      /\ voteReplies' = voteReplies \cup
             {[args |-> m, term |-> currentTerm'[i], voteGranted |-> granted]}
      /\ UNCHANGED <<log, commitIndex, lastApplied, nextIndex, matchIndex, votes,
                     appendCalls, appendReplies, restarts, leaders, reusedMatch>>
      /\ IF bumped \/ granted THEN Persist(i) ELSE UNCHANGED persisted
  BY DEF RequestVote, leaderVars
<1>3. m \in RequestVoteArgs /\ i \in Server /\ m.from \in Server /\ m.term \in Nat
  BY <1>1 DEF TypeOK, RequestVoteArgs
<1>. granted \in BOOLEAN
  BY DEF UpToDate, CanVote
<1>. HIDE DEF granted, i
<1>4. /\ currentTerm' \in [Server -> Nat]
      /\ votedFor' \in [Server -> Server \cup {Nil}]
      /\ state' \in [Server -> {Follower, Candidate, Leader}]
      /\ log' \in [Server -> Seq(Entry)]
      /\ ballots' \subseteq Nat \X Server \X Server
  <2>1. voted \in Server \cup {Nil}
    BY <1>1, <1>3 DEF TypeOK
  <2>2. votedFor' \in [Server -> Server \cup {Nil}]
    BY <1>1, <1>2, <1>3, <2>1 DEF TypeOK
  <2>3. ballots' \subseteq Nat \X Server \X Server
    <3>1. <<m.term, i, m.from>> \in Nat \X Server \X Server
      BY <1>3
    <3>2. ballots \subseteq Nat \X Server \X Server
      BY <1>1 DEF TypeOK
    <3>. QED BY <1>2, <3>1, <3>2, Zenon
  <2>. QED BY <1>1, <1>2, <1>3, <2>2, <2>3 DEF TypeOK
<1>5. \A j \in Server \ {i} : /\ currentTerm'[j] = currentTerm[j]
                               /\ votedFor'[j] = votedFor[j]
                               /\ log'[j] = log[j]
                               /\ state'[j] = state[j]
  BY <1>1, <1>2 DEF TypeOK
<1>6. persisted' \in [Server -> PersistentState] /\ PersistedIsCurrent'
  <2>1. persisted \in [Server -> PersistentState]
    BY <1>1 DEF TypeOK
  <2>2. CASE bumped \/ granted
    BY <1>1, <1>2, <1>3, <1>4, <1>5, <2>1, <2>2, PersistKeeps
  <2>3. CASE ~(bumped \/ granted)
    <3>1. UNCHANGED <<persisted, currentTerm, votedFor, log>>
      BY <1>1, <1>2, <1>3, <2>3 DEF TypeOK
    <3>. QED BY <1>1, <2>1, <3>1 DEF PersistedIsCurrent
  <2>. QED BY <2>2, <2>3
<1>7. TypeOK'
  <2>1. voteReplies' \subseteq RequestVoteReplies
    <3>1. currentTerm'[i] \in Nat
      BY <1>3, <1>4
    <3>. QED BY <1>1, <1>2, <1>3, <3>1, SMTT(30) DEF TypeOK, RequestVoteReplies
  <2>2. voteCalls' \subseteq RequestVoteArgs
    BY <1>1, <1>2 DEF TypeOK
  <2>. QED BY <1>1, <1>2, <1>4, <1>6, <2>1, <2>2 DEF TypeOK
<1>8. NextIndexInRange'
  <2>1. ASSUME NEW j \in Server, state'[j] = Leader
        PROVE  state[j] = Leader
    BY <1>1, <1>2, <1>3, <1>5, <2>1 DEF TypeOK, Leader, Follower
  <2>. QED BY <1>1, <1>2, <2>1 DEF NextIndexInRange
<1>9. CallsFit'
  <2>1. Sent' = Sent
    BY <1>2 DEF Sent
  <2>2. CASE bumped
    <3>1. currentTerm'[i] > currentTerm[i]
      BY <1>1, <1>2, <1>3, <2>2 DEF TypeOK
    <3>. QED BY <1>1, <1>3, <1>4, <1>5, <2>1, <3>1, CallsFitKept
  <2>3. CASE ~bumped
    <3>1. currentTerm'[i] = currentTerm[i] /\ state'[i] = state[i] /\ Len(log'[i]) >= Len(log[i])
      BY <1>1, <1>2, <1>3, <2>3 DEF TypeOK
    <3>. QED BY <1>1, <1>3, <1>4, <1>5, <2>1, <3>1, CallsFitKept
  <2>. QED BY <2>2, <2>3
<1>10. RejectionsFit'
  BY <1>1, <1>2 DEF RejectionsFit
<1>. QED BY <1>6, <1>7, <1>8, <1>9, <1>10 DEF TypeInv

\* setTermLocked() and the return to follower, after a reply of a later term.
LEMMA StepDownType ==
    ASSUME TypeInv, NEW i \in Server, NEW t \in Nat, t > currentTerm[i], StepDown(i, t),
           Sent' \subseteq Sent, appendReplies' \subseteq appendReplies,
           voteReplies' \subseteq voteReplies,
           UNCHANGED <<commitIndex, lastApplied, nextIndex, matchIndex, votes, voteCalls,
                       appendCalls, restarts, ballots, leaders, reusedMatch>>
    PROVE  TypeInv'
<1>1. /\ TypeOK /\ PersistedIsCurrent /\ NextIndexInRange /\ CallsFit /\ RejectionsFit
  BY DEF TypeInv
<1>2. /\ currentTerm' = [currentTerm EXCEPT ![i] = t]
      /\ state' = [state EXCEPT ![i] = Follower]
      /\ votedFor' = [votedFor EXCEPT ![i] = Nil]
      /\ log' = log
      /\ Persist(i)
  BY DEF StepDown
<1>3. /\ currentTerm' \in [Server -> Nat]
      /\ votedFor' \in [Server -> Server \cup {Nil}]
      /\ state' \in [Server -> {Follower, Candidate, Leader}]
      /\ log' \in [Server -> Seq(Entry)]
  BY <1>1, <1>2 DEF TypeOK
<1>4. \A j \in Server \ {i} : /\ currentTerm'[j] = currentTerm[j]
                               /\ votedFor'[j] = votedFor[j]
                               /\ log'[j] = log[j]
                               /\ state'[j] = state[j]
  BY <1>1, <1>2 DEF TypeOK
<1>5. persisted' \in [Server -> PersistentState] /\ PersistedIsCurrent'
  <2>. persisted \in [Server -> PersistentState]
    BY <1>1 DEF TypeOK
  <2>. QED BY <1>1, <1>2, <1>3, <1>4, PersistKeeps
<1>6. TypeOK'
  <2>1. /\ appendReplies' \subseteq AppendEntriesReplies
        /\ voteReplies' \subseteq RequestVoteReplies
    BY <1>1 DEF TypeOK
  <2>. QED BY <1>1, <1>3, <1>5, <2>1 DEF TypeOK
<1>7. NextIndexInRange'
  BY <1>1, <1>2, <1>4 DEF TypeOK, NextIndexInRange, Leader, Follower
<1>8. CallsFit'
  <2>1. currentTerm'[i] > currentTerm[i]
    BY <1>1, <1>2 DEF TypeOK
  <2>. QED BY <1>1, <1>3, <1>4, <2>1, CallsFitKept
<1>9. RejectionsFit'
  BY <1>1 DEF RejectionsFit
<1>. QED BY <1>5, <1>6, <1>7, <1>8, <1>9 DEF TypeInv

\* The goroutines of startElection() keep the invariant.
LEMMA RequestVoteReplyType ==
    ASSUME TypeInv, NEW r \in voteReplies, RequestVoteReply(r)
    PROVE  TypeInv'
<1>. DEFINE i     == r.args.from
            stale == state[i] # Candidate \/ currentTerm[i] # r.args.term
<1>1. /\ TypeOK /\ PersistedIsCurrent /\ NextIndexInRange /\ CallsFit /\ RejectionsFit
  BY DEF TypeInv
<1>2. r \in RequestVoteReplies /\ i \in Server /\ r.args.to \in Server /\ r.term \in Nat
  <2>1. r \in RequestVoteReplies
    BY <1>1 DEF TypeOK
  <2>2. r.args \in RequestVoteArgs /\ r.term \in Nat
    BY <2>1 DEF RequestVoteReplies
  <2>. QED BY <2>1, <2>2 DEF RequestVoteArgs
<1>3. /\ voteReplies' = voteReplies \ {r}
      /\ UNCHANGED <<commitIndex, lastApplied, voteCalls, appendCalls, appendReplies,
                     restarts, ballots>>
  BY DEF RequestVoteReply
<1>4. Sent' = Sent
  BY <1>3 DEF Sent
<1>5. CASE UNCHANGED <<durableVars, state, leaderVars, votes, persisted, leaders, reusedMatch>>
  <2>1. UNCHANGED <<currentTerm, votedFor, log, state, nextIndex, matchIndex, votes,
                    persisted, leaders, reusedMatch>>
    BY <1>5 DEF durableVars, leaderVars
  <2>2. TypeOK'
    BY <1>1, <1>3, <2>1 DEF TypeOK
  <2>. QED BY <1>1, <1>3, <1>4, <2>1, <2>2
       DEF TypeInv, PersistedIsCurrent, NextIndexInRange, CallsFit, RejectionsFit
<1>6. CASE /\ ~stale /\ r.term > currentTerm[i]
           /\ StepDown(i, r.term)
           /\ UNCHANGED <<leaderVars, votes, leaders, reusedMatch>>
  <2>1. UNCHANGED <<nextIndex, matchIndex, votes, leaders, reusedMatch>>
    BY <1>6 DEF leaderVars
  <2>. QED BY <1>2, <1>3, <1>4, <1>6, <2>1, StepDownType
<1>7. CASE /\ ~stale /\ r.term <= currentTerm[i] /\ r.voteGranted
           /\ votes' = [votes EXCEPT ![i] = @ \cup {r.args.to}]
           /\ IF Majority(Cardinality(votes'[i]))
              THEN BecomeLeader(i)
              ELSE UNCHANGED <<state, leaderVars, leaders, reusedMatch>>
           /\ UNCHANGED <<durableVars, persisted>>
  <2>1. UNCHANGED <<currentTerm, votedFor, log, persisted>> /\ state[i] = Candidate
    BY <1>7 DEF durableVars
  <2>2. votes' \in [Server -> SUBSET Server]
    BY <1>1, <1>2, <1>7 DEF TypeOK
  <2>3. CASE UNCHANGED <<state, leaderVars, leaders, reusedMatch>>
    <3>1. UNCHANGED <<state, nextIndex, matchIndex, leaders, reusedMatch>>
      BY <2>3 DEF leaderVars
    <3>2. TypeOK'
      BY <1>1, <1>3, <2>1, <2>2, <3>1 DEF TypeOK
    <3>. QED BY <1>1, <1>3, <1>4, <2>1, <3>1, <3>2
         DEF TypeInv, PersistedIsCurrent, NextIndexInRange, CallsFit, RejectionsFit
  <2>4. CASE BecomeLeader(i)
    <3>1. /\ state' = [state EXCEPT ![i] = Leader]
          /\ nextIndex' = [nextIndex EXCEPT ![i] = [j \in Server |-> Len(log[i]) + 1]]
          /\ leaders' = leaders \cup {<<currentTerm[i], i>>}
          /\ reusedMatch' \in BOOLEAN
          /\ matchIndex' = matchIndex
      BY <1>1, <2>4 DEF BecomeLeader, TypeOK
    <3>2. Len(log[i]) \in Nat /\ currentTerm[i] \in Nat
      BY <1>1, <1>2 DEF TypeOK
    <3>3. /\ state' \in [Server -> {Follower, Candidate, Leader}]
          /\ nextIndex' \in [Server -> [Server -> Nat]]
          /\ leaders' \subseteq Nat \X Server
      <4>1. [j \in Server |-> Len(log[i]) + 1] \in [Server -> Nat]
        BY <3>2
      <4>2. nextIndex' \in [Server -> [Server -> Nat]]
        BY <1>1, <1>2, <3>1, <4>1 DEF TypeOK
      <4>3. state' \in [Server -> {Follower, Candidate, Leader}]
        BY <1>1, <1>2, <3>1 DEF TypeOK
      <4>4. <<currentTerm[i], i>> \in Nat \X Server
        BY <1>2, <3>2
      <4>5. leaders' \subseteq Nat \X Server
        BY <1>1, <3>1, <4>4 DEF TypeOK
      <4>. QED BY <4>2, <4>3, <4>5
    <3>4. TypeOK'
      BY <1>1, <1>3, <2>1, <2>2, <3>1, <3>3 DEF TypeOK
    <3>5. NextIndexInRange'
      <4>. SUFFICES ASSUME NEW a \in Server, NEW b \in Server, state'[a] = Leader
           PROVE  nextIndex'[a][b] \in 1..(Len(log[a]) + 1)
        BY <2>1 DEF NextIndexInRange
      <4>1. CASE a = i
        BY <1>1, <1>2, <3>1, <3>2, <4>1, SMTT(30) DEF TypeOK
      <4>2. CASE a # i
        BY <1>1, <3>1, <4>2 DEF TypeOK, NextIndexInRange
      <4>. QED BY <4>1, <4>2
    <3>6. CallsFit'
      <4>1. /\ currentTerm' \in [Server -> Nat] /\ log' \in [Server -> Seq(Entry)]
            /\ \A j \in Server \ {i} : /\ currentTerm'[j] = currentTerm[j]
                                       /\ state'[j] = state[j]
                                       /\ log'[j] = log[j]
            /\ currentTerm'[i] = currentTerm[i] /\ state[i] = Candidate /\ state'[i] = Leader
        BY <1>1, <1>2, <2>1, <3>1 DEF TypeOK
      <4>. QED BY <1>1, <1>2, <1>4, <4>1, CallsFitKept
    <3>. QED BY <1>1, <1>3, <2>1, <3>4, <3>5, <3>6
         DEF TypeInv, PersistedIsCurrent, RejectionsFit
  <2>. QED BY <1>7, <2>3, <2>4
<1>. QED BY <1>5, <1>6, <1>7 DEF RequestVoteReply

\* Start() keeps the invariant.
LEMMA StartType ==
    ASSUME TypeInv, NEW i \in Server, NEW v \in Value, Start(i, v)
    PROVE  TypeInv'
<1>. DEFINE e == [term |-> currentTerm[i], command |-> v]
<1>1. /\ TypeOK /\ PersistedIsCurrent /\ NextIndexInRange /\ CallsFit /\ RejectionsFit
  BY DEF TypeInv
<1>2. /\ log' = [log EXCEPT ![i] = Append(@, e)]
      /\ UNCHANGED <<currentTerm, votedFor, state, commitIndex, lastApplied, nextIndex,
                     matchIndex, votes, voteCalls, voteReplies, appendCalls,
                     appendReplies, restarts, ballots, leaders, reusedMatch>>
      /\ Persist(i)
  BY DEF Start, leaderVars, callVars, historyVars
<1>3. e \in Entry /\ log[i] \in Seq(Entry)
  BY <1>1 DEF TypeOK, Entry
<1>. HIDE DEF e
<1>4. Append(log[i], e) \in Seq(Entry) /\ Len(Append(log[i], e)) = Len(log[i]) + 1
  BY <1>3
<1>5. /\ log' \in [Server -> Seq(Entry)]
      /\ Len(log'[i]) = Len(log[i]) + 1
      /\ \A j \in Server \ {i} : log'[j] = log[j]
  BY <1>1, <1>2, <1>4 DEF TypeOK
<1>6. /\ currentTerm' \in [Server -> Nat]
      /\ votedFor' \in [Server -> Server \cup {Nil}]
      /\ persisted \in [Server -> PersistentState]
  BY <1>1, <1>2 DEF TypeOK
<1>7. persisted' \in [Server -> PersistentState] /\ PersistedIsCurrent'
  BY <1>1, <1>2, <1>5, <1>6, PersistKeeps
<1>8. TypeOK'
  BY <1>1, <1>2, <1>5, <1>7 DEF TypeOK
<1>9. \A j \in Server : Len(log[j]) \in Nat /\ Len(log'[j]) \in Nat /\ Len(log'[j]) >= Len(log[j])
  <2>. TAKE j \in Server
  <2>1. Len(log[j]) \in Nat /\ Len(log'[j]) \in Nat
    BY <1>1, <1>5, SMTT(30) DEF TypeOK
  <2>. QED BY <1>5, <2>1
<1>10. NextIndexInRange'
  <2>. SUFFICES ASSUME NEW a \in Server, NEW b \in Server, state[a] = Leader
       PROVE  nextIndex[a][b] \in 1..(Len(log'[a]) + 1)
    BY <1>2 DEF NextIndexInRange
  <2>1. nextIndex[a][b] \in 1..(Len(log[a]) + 1)
    BY <1>1 DEF NextIndexInRange
  <2>. QED BY <1>9, <2>1
<1>11. CallsFit'
  <2>1. Sent' = Sent
    BY <1>2 DEF Sent
  <2>2. /\ currentTerm'[i] = currentTerm[i] /\ state'[i] = state[i]
        /\ Len(log'[i]) >= Len(log[i])
    BY <1>2, <1>9
  <2>. QED BY <1>1, <1>2, <1>5, <1>6, <2>1, <2>2, CallsFitKept
<1>12. RejectionsFit'
  BY <1>1, <1>2 DEF RejectionsFit
<1>. QED BY <1>7, <1>8, <1>10, <1>11, <1>12 DEF TypeInv

\* The goroutine that builds and sends an AppendEntries keeps the invariant: what
\* it slices out of the log is there.
LEMMA SendAppendEntriesType ==
    ASSUME TypeInv, NEW i \in Server, NEW j \in Server, SendAppendEntries(i, j)
    PROVE  TypeInv'
<1>. DEFINE next == nextIndex[i][j]
            call(s) == [from |-> i, to |-> j, slot |-> s, term |-> currentTerm[i],
                        prevLogIndex |-> next - 1,
                        prevLogTerm  |-> TermAt(log[i], next - 1),
                        entries      |-> SubSeq(log[i], next, Len(log[i])),
                        leaderCommit |-> commitIndex[i]]
<1>1. /\ TypeOK /\ PersistedIsCurrent /\ NextIndexInRange /\ CallsFit /\ RejectionsFit
  BY DEF TypeInv
<1>2. PICK s \in 1..MaxCalls : appendCalls' = appendCalls \cup {call(s)}
  BY DEF SendAppendEntries
<1>3. /\ state[i] = Leader
      /\ UNCHANGED <<currentTerm, votedFor, log, state, commitIndex, lastApplied,
                     nextIndex, matchIndex, votes, persisted, voteCalls, voteReplies,
                     appendReplies, restarts, ballots, leaders, reusedMatch>>
  BY DEF SendAppendEntries, durableVars, leaderVars, historyVars
<1>4. /\ log[i] \in Seq(Entry) /\ Len(log[i]) \in Nat /\ commitIndex[i] \in Nat
      /\ currentTerm[i] \in Nat /\ next \in 1..(Len(log[i]) + 1)
  BY <1>1, <1>3 DEF TypeOK, NextIndexInRange
<1>. HIDE DEF next
<1>5. TermAt(log[i], next - 1) \in Nat
  <2>1. next - 1 \in 0..Len(log[i])
    BY <1>4
  <2>. QED BY <1>4, <2>1, TermAtType
<1>6. /\ SubSeq(log[i], next, Len(log[i])) \in Seq(Entry)
      /\ Len(SubSeq(log[i], next, Len(log[i]))) = Len(log[i]) - next + 1
  <2>1. \A k \in next..Len(log[i]) : log[i][k] \in Entry
    BY <1>4
  <2>. QED BY <1>4, <2>1, SubSeqProperties
<1>7. call(s) \in AppendEntriesArgs
  <2>1. next - 1 \in Nat
    BY <1>4
  <2>. QED BY <1>4, <1>5, <1>6, <2>1 DEF AppendEntriesArgs
<1>8. /\ call(s).from = i /\ call(s).term = currentTerm[i]
      /\ call(s).prevLogIndex + Len(call(s).entries) = Len(log[i])
  BY <1>4, <1>6
<1>. HIDE DEF call
<1>9. TypeOK'
  <2>1. appendCalls' \subseteq AppendEntriesArgs
    BY <1>1, <1>2, <1>7 DEF TypeOK
  <2>. QED BY <1>1, <1>3, <2>1 DEF TypeOK
<1>10. CallsFit'
  <2>1. Sent' = Sent \cup {call(s)}
    BY <1>2, <1>3 DEF Sent
  <2>. QED BY <1>1, <1>3, <1>4, <1>8, <2>1 DEF CallsFit, Leader, Candidate
<1>. QED BY <1>1, <1>3, <1>9, <1>10 DEF TypeInv, PersistedIsCurrent, NextIndexInRange, RejectionsFit

\* The handler AppendEntries() keeps the invariant.
LEMMA AppendEntriesType ==
    ASSUME TypeInv, NEW m \in appendCalls, AppendEntries(m)
    PROVE  TypeInv'
<1>. DEFINE i       == m.to
            stale   == m.term < currentTerm[i]
            bumped  == m.term > currentTerm[i]
            success == ~stale /\ HasPrev(log[i], m.prevLogIndex, m.prevLogTerm)
            reply   == AppendReply(m, i, currentTerm'[i], success)
<1>1. /\ TypeOK /\ PersistedIsCurrent /\ NextIndexInRange /\ CallsFit /\ RejectionsFit
  BY DEF TypeInv
<1>2. /\ m \in Sent /\ m \in AppendEntriesArgs /\ m.term \in Nat /\ i \in Server
      /\ m.prevLogIndex \in Nat /\ m.entries \in Seq(Entry) /\ m.leaderCommit \in Nat
  BY <1>1, SentType DEF Sent, TypeOK, AppendEntriesArgs
<1>3. /\ currentTerm' = [currentTerm EXCEPT ![i] = IF bumped THEN m.term ELSE @]
      /\ votedFor' = [votedFor EXCEPT ![i] = IF bumped THEN Nil ELSE @]
      /\ state' = [state EXCEPT ![i] = IF stale THEN @ ELSE Follower]
      /\ log' = [log EXCEPT ![i] =
                    IF success THEN MergeEntries(@, m.prevLogIndex, m.entries) ELSE @]
      /\ commitIndex' = [commitIndex EXCEPT ![i] =
             IF success
             THEN FollowerCommit(@, m.leaderCommit, m.prevLogIndex + Len(m.entries))
             ELSE @]
      /\ appendCalls' = appendCalls \ {m}
      /\ appendReplies' = appendReplies \cup {reply}
      /\ UNCHANGED <<lastApplied, nextIndex, matchIndex, votes, voteCalls, voteReplies,
                     restarts, ballots, leaders, reusedMatch>>
      /\ IF bumped \/ log'[i] # log[i] THEN Persist(i) ELSE UNCHANGED persisted
  BY DEF AppendEntries, leaderVars, historyVars
<1>4. success \in BOOLEAN /\ (success => m.prevLogIndex \in 0..Len(log[i]))
  BY <1>1, <1>2 DEF HasPrev, TypeOK
<1>5. currentTerm[i] \in Nat /\ log[i] \in Seq(Entry) /\ commitIndex[i] \in Nat
  BY <1>1, <1>2 DEF TypeOK
<1>6. success => MergeEntries(log[i], m.prevLogIndex, m.entries) \in Seq(Entry)
  BY <1>2, <1>4, <1>5, MergeType
<1>7. FollowerCommit(commitIndex[i], m.leaderCommit, m.prevLogIndex + Len(m.entries)) \in Nat
  BY <1>2, <1>5 DEF FollowerCommit
<1>8. /\ reply.args = m /\ reply.term = currentTerm'[i] /\ reply.success = success
      /\ reply \in AppendEntriesReplies
      /\ ~success /\ currentTerm'[i] <= m.term =>
            /\ reply.xterm = -1 => reply.xlen <= m.prevLogIndex
            /\ reply.xterm # -1 => reply.xindex <= m.prevLogIndex
  <2>. DEFINE missing  == /\ ~success /\ m.term = currentTerm'[i]
                          /\ m.prevLogIndex > Len(log[i])
              conflict == /\ ~success /\ m.term = currentTerm'[i]
                          /\ m.prevLogIndex <= Len(log[i])
              xterm  == IF missing THEN -1
                        ELSE IF conflict THEN TermAt(log[i], m.prevLogIndex) ELSE 0
              xindex == IF missing THEN -1
                        ELSE IF conflict THEN FirstOfTerm(log[i], m.prevLogIndex) ELSE 0
              xlen   == IF missing THEN Len(log[i]) + 1 ELSE 0
  <2>1. reply = [args |-> m, term |-> currentTerm'[i], success |-> success,
                 xterm |-> xterm, xindex |-> xindex, xlen |-> xlen]
    BY DEF AppendReply
  <2>2. currentTerm'[i] \in Nat /\ currentTerm'[i] >= m.term
    BY <1>1, <1>2, <1>3, <1>5 DEF TypeOK
  <2>3. conflict => TermAt(log[i], m.prevLogIndex) \in Nat
    BY <1>2, <1>5, TermAtType
  <2>4. FirstOfTerm(log[i], m.prevLogIndex) \in 0..m.prevLogIndex
    BY <1>2, FirstOfTermRange
  <2>5. xterm \in Int /\ xindex \in Int /\ xlen \in Nat
    BY <1>5, <2>3, <2>4
  <2>6. missing => xlen <= m.prevLogIndex
    BY <1>2, <1>5
  <2>7. ~missing => xindex <= m.prevLogIndex /\ xterm # -1
    BY <1>2, <1>5, <2>3, <2>4
  <2>8. missing => xterm = -1
    OBVIOUS
  <2>. HIDE DEF xterm, xindex, xlen, reply, success
  <2>9. reply \in AppendEntriesReplies
    BY <1>2, <1>4, <2>1, <2>2, <2>5 DEF AppendEntriesReplies
  <2>. QED BY <2>1, <2>6, <2>7, <2>8, <2>9
<1>. HIDE DEF reply, success
<1>9. /\ currentTerm' \in [Server -> Nat]
      /\ votedFor' \in [Server -> Server \cup {Nil}]
      /\ state' \in [Server -> {Follower, Candidate, Leader}]
      /\ log' \in [Server -> Seq(Entry)]
      /\ commitIndex' \in [Server -> Nat]
  BY <1>1, <1>2, <1>3, <1>6, <1>7 DEF TypeOK
<1>10. \A j \in Server \ {i} : /\ currentTerm'[j] = currentTerm[j]
                                /\ votedFor'[j] = votedFor[j]
                                /\ log'[j] = log[j]
                                /\ state'[j] = state[j]
  BY <1>1, <1>3 DEF TypeOK
<1>11. persisted' \in [Server -> PersistentState] /\ PersistedIsCurrent'
  <2>1. persisted \in [Server -> PersistentState]
    BY <1>1 DEF TypeOK
  <2>2. CASE bumped \/ log'[i] # log[i]
    BY <1>1, <1>2, <1>3, <1>9, <1>10, <2>1, <2>2, PersistKeeps
  <2>3. CASE ~(bumped \/ log'[i] # log[i])
    <3>1. /\ persisted' = persisted
          /\ currentTerm'[i] = currentTerm[i] /\ votedFor'[i] = votedFor[i] /\ log'[i] = log[i]
      BY <1>1, <1>2, <1>3, <2>3 DEF TypeOK
    <3>. QED BY <1>1, <1>10, <2>1, <3>1 DEF PersistedIsCurrent
  <2>. QED BY <2>2, <2>3
<1>12. TypeOK'
  <2>1. appendCalls' \subseteq AppendEntriesArgs /\ appendReplies' \subseteq AppendEntriesReplies
    BY <1>1, <1>3, <1>8 DEF TypeOK
  <2>. QED BY <1>1, <1>3, <1>9, <1>11, <2>1 DEF TypeOK
<1>13. stale => log'[i] = log[i] /\ currentTerm'[i] = currentTerm[i] /\ state'[i] = state[i]
  BY <1>1, <1>2, <1>3 DEF TypeOK, success
<1>14. ~stale => state'[i] = Follower
  BY <1>1, <1>2, <1>3 DEF TypeOK
<1>15. NextIndexInRange'
  <2>. SUFFICES ASSUME NEW a \in Server, NEW b \in Server, state'[a] = Leader
       PROVE  nextIndex[a][b] \in 1..(Len(log'[a]) + 1)
    BY <1>3 DEF NextIndexInRange
  <2>1. state[a] = Leader /\ log'[a] = log[a]
    BY <1>10, <1>13, <1>14 DEF Follower, Leader
  <2>. QED BY <1>1, <2>1 DEF NextIndexInRange
<1>16. CallsFit'
  <2>1. Sent' \subseteq Sent
    BY <1>2, <1>3, <1>8 DEF Sent
  <2>2. \/ currentTerm'[i] > currentTerm[i]
        \/ currentTerm'[i] = currentTerm[i] /\ state'[i] = Follower
        \/ /\ currentTerm'[i] = currentTerm[i]
           /\ state'[i] = state[i]
           /\ Len(log'[i]) >= Len(log[i])
    BY <1>1, <1>2, <1>3, <1>5, <1>13, <1>14 DEF TypeOK
  <2>. QED BY <1>1, <1>2, <1>9, <1>10, <2>1, <2>2, CallsFitKept
<1>17. RejectionsFit'
  BY <1>1, <1>3, <1>8 DEF RejectionsFit
<1>. QED BY <1>11, <1>12, <1>15, <1>16, <1>17 DEF TypeInv

\* The goroutine of broadcastHeartbeats() that takes a reply keeps the invariant:
\* whatever it learns, nextIndex stays inside the leader's log.
LEMMA AppendEntriesReplyType ==
    ASSUME TypeInv, NEW r \in appendReplies, AppendEntriesReply(r)
    PROVE  TypeInv'
<1>. DEFINE i     == r.args.from
            j     == r.args.to
            match == r.args.prevLogIndex + Len(r.args.entries)
            stale == state[i] # Leader \/ currentTerm[i] # r.args.term
<1>1. /\ TypeOK /\ PersistedIsCurrent /\ NextIndexInRange /\ CallsFit /\ RejectionsFit
  BY DEF TypeInv
<1>2. /\ r.args \in Sent /\ i \in Server /\ j \in Server /\ r.args.prevLogIndex \in Nat
      /\ Len(r.args.entries) \in Nat /\ r.args.term \in Nat
  <2>1. r.args \in Sent
    BY DEF Sent
  <2>2. r.args.entries \in Seq(Entry)
    BY <1>1, <2>1, SentType
  <2>. QED BY <1>1, <2>1, <2>2, SentType
<1>3. r.term \in Nat /\ r.success \in BOOLEAN /\ r.xterm \in Int /\ r.xindex \in Int /\ r.xlen \in Nat
  <2>1. r \in AppendEntriesReplies
    BY <1>1 DEF TypeOK
  <2>. QED BY <2>1 DEF AppendEntriesReplies
<1>4. /\ appendReplies' = appendReplies \ {r}
      /\ UNCHANGED <<lastApplied, votes, voteCalls, voteReplies, appendCalls, restarts,
                     ballots, leaders, reusedMatch>>
  BY DEF AppendEntriesReply, historyVars
<1>5. Sent' \subseteq Sent
  BY <1>4 DEF Sent
<1>6. currentTerm[i] \in Nat /\ log[i] \in Seq(Entry) /\ Len(log[i]) \in Nat /\ match \in Nat
  <2>1. match \in Nat
    BY <1>2
  <2>2. currentTerm[i] \in Nat /\ log[i] \in Seq(Entry)
    BY <1>1, <1>2 DEF TypeOK
  <2>. QED BY <2>1, <2>2
<1>7. ~stale => match <= Len(log[i])
  BY <1>1, <1>2 DEF CallsFit
<1>8. CASE stale /\ UNCHANGED <<durableVars, state, commitIndex, leaderVars, persisted>>
  <2>1. UNCHANGED <<currentTerm, votedFor, log, state, commitIndex, nextIndex, matchIndex,
                    persisted>>
    BY <1>8 DEF durableVars, leaderVars
  <2>2. TypeOK'
    BY <1>1, <1>4, <2>1 DEF TypeOK
  <2>. QED BY <1>1, <1>4, <1>5, <2>1, <2>2
       DEF TypeInv, PersistedIsCurrent, NextIndexInRange, CallsFit, RejectionsFit
<1>9. CASE /\ ~stale /\ r.term > currentTerm[i]
           /\ StepDown(i, r.term)
           /\ UNCHANGED <<commitIndex, leaderVars>>
  <2>1. UNCHANGED <<commitIndex, nextIndex, matchIndex>>
    BY <1>9 DEF leaderVars
  <2>. QED BY <1>2, <1>3, <1>4, <1>5, <1>9, <2>1, StepDownType
<1>10. ASSUME UNCHANGED <<durableVars, state, persisted>>,
              NEW n \in 1..(Len(log[i]) + 1), nextIndex' = [nextIndex EXCEPT ![i][j] = n],
              matchIndex' \in [Server -> [Server -> Nat]], commitIndex' \in [Server -> Nat]
       PROVE  TypeInv'
  <2>1. UNCHANGED <<currentTerm, votedFor, log, state, persisted>>
    BY <1>10 DEF durableVars
  <2>2. n \in Nat
    BY <1>6
  <2>3. nextIndex' \in [Server -> [Server -> Nat]]
    BY <1>1, <1>2, <1>10, <2>2 DEF TypeOK
  <2>4. TypeOK'
    BY <1>1, <1>4, <1>10, <2>1, <2>3 DEF TypeOK
  <2>5. NextIndexInRange'
    <3>. SUFFICES ASSUME NEW a \in Server, NEW b \in Server, state[a] = Leader
         PROVE  nextIndex'[a][b] \in 1..(Len(log[a]) + 1)
      BY <2>1 DEF NextIndexInRange
    <3>1. CASE a = i /\ b = j
      BY <1>1, <1>2, <1>10, <3>1 DEF TypeOK
    <3>2. CASE ~(a = i /\ b = j)
      <4>1. nextIndex'[a][b] = nextIndex[a][b]
        BY <1>1, <1>2, <1>10, <3>2 DEF TypeOK
      <4>. QED BY <1>1, <4>1 DEF NextIndexInRange
    <3>. QED BY <3>1, <3>2
  <2>. QED BY <1>1, <1>4, <1>5, <2>1, <2>4, <2>5
       DEF TypeInv, PersistedIsCurrent, CallsFit, RejectionsFit
<1>11. CASE /\ ~stale /\ r.term <= currentTerm[i] /\ r.success
            /\ nextIndex' = [nextIndex EXCEPT ![i][j] = IF match + 1 > @ THEN match + 1 ELSE @]
            /\ matchIndex' = [matchIndex EXCEPT ![i][j] = IF match > @ THEN match ELSE @]
            /\ commitIndex' = [commitIndex EXCEPT ![i] = CommitFrom(i, matchIndex'[i])]
            /\ UNCHANGED <<durableVars, state, persisted>>
  <2>. DEFINE n == IF match + 1 > nextIndex[i][j] THEN match + 1 ELSE nextIndex[i][j]
  <2>1. n \in 1..(Len(log[i]) + 1)
    BY <1>1, <1>2, <1>6, <1>7, <1>11, SMTT(30) DEF NextIndexInRange
  <2>2. nextIndex' = [nextIndex EXCEPT ![i][j] = n]
    BY <1>11
  <2>3. matchIndex' \in [Server -> [Server -> Nat]]
    BY <1>1, <1>2, <1>6, <1>11, SMTT(30) DEF TypeOK
  <2>4. CommitFrom(i, matchIndex'[i]) \in Nat
    BY <1>1, <1>2, CommitFromType
  <2>5. commitIndex' \in [Server -> Nat]
    BY <1>1, <1>11, <2>4 DEF TypeOK
  <2>. HIDE DEF n
  <2>. QED BY <1>10, <1>11, <2>1, <2>2, <2>3, <2>5
<1>12. CASE /\ ~stale /\ r.term <= currentTerm[i] /\ ~r.success
            /\ nextIndex' = [nextIndex EXCEPT ![i][j] =
                                BackedOff(log[i], r.xterm, r.xindex, r.xlen)]
            /\ UNCHANGED <<durableVars, state, commitIndex, matchIndex, persisted>>
  <2>1. /\ r.xterm = -1 => r.xlen <= r.args.prevLogIndex
        /\ r.xterm # -1 => r.xindex <= r.args.prevLogIndex
    BY <1>1, <1>12 DEF RejectionsFit
  <2>2. r.args.prevLogIndex <= Len(log[i])
    BY <1>2, <1>6, <1>7, <1>12
  <2>3. BackedOff(log[i], r.xterm, r.xindex, r.xlen) \in 1..(Len(log[i]) + 1)
    <3>. HIDE DEF i
    <3>1. /\ r.xterm = -1 => r.xlen <= Len(log[i]) + 1
          /\ r.xterm # -1 => r.xindex <= Len(log[i]) + 1
      BY <1>2, <1>3, <1>6, <2>1, <2>2
    <3>2. log[i] \in Seq(Entry) /\ r.xterm \in Int /\ r.xindex \in Int /\ r.xlen \in Int
      BY <1>3, <1>6
    <3>. DEFINE l == log[i]
    <3>. DEFINE xterm == r.xterm
    <3>. DEFINE xindex == r.xindex
    <3>. DEFINE xlen == r.xlen
    <3>3. /\ l \in Seq(Entry) /\ xterm \in Int /\ xindex \in Int /\ xlen \in Int
          /\ xterm = -1 => xlen <= Len(l) + 1
          /\ xterm # -1 => xindex <= Len(l) + 1
      BY <3>1, <3>2
    <3>. HIDE DEF l, xterm, xindex, xlen
    <3>4. BackedOff(l, xterm, xindex, xlen) \in 1..(Len(l) + 1)
      BY ONLY <3>3, BackedOffRange
    <3>. QED BY <3>4 DEF l, xterm, xindex, xlen
  <2>4. matchIndex' \in [Server -> [Server -> Nat]] /\ commitIndex' \in [Server -> Nat]
    BY <1>1, <1>12 DEF TypeOK
  <2>. QED BY <1>10, <1>12, <2>3, <2>4
<1>. QED BY <1>8, <1>9, <1>11, <1>12 DEF AppendEntriesReply

\* The apply loop and the loss of a call keep the invariant.
LEMMA ApplyAndLossType ==
    ASSUME TypeInv, (\E i \in Server : ApplyLoop(i)) \/ LoseCall
    PROVE  TypeInv'
<1>1. /\ TypeOK /\ PersistedIsCurrent /\ NextIndexInRange /\ CallsFit /\ RejectionsFit
  BY DEF TypeInv
<1>2. /\ UNCHANGED <<currentTerm, votedFor, log, state, commitIndex, nextIndex, matchIndex,
                     votes, persisted, restarts, ballots, leaders, reusedMatch>>
      /\ lastApplied' \in [Server -> Nat]
      /\ voteCalls' \subseteq voteCalls /\ voteReplies' \subseteq voteReplies
      /\ appendCalls' \subseteq appendCalls /\ appendReplies' \subseteq appendReplies
  <2>1. CASE \E i \in Server : ApplyLoop(i)
    BY <1>1, <2>1 DEF ApplyLoop, TypeOK, durableVars, leaderVars, callVars
  <2>2. CASE LoseCall
    BY <1>1, <2>2 DEF LoseCall, TypeOK, durableVars, leaderVars, historyVars
  <2>. QED BY <2>1, <2>2
<1>3. TypeOK'
  BY <1>1, <1>2 DEF TypeOK
<1>4. Sent' \subseteq Sent
  BY <1>2 DEF Sent
<1>. QED BY <1>1, <1>2, <1>3, <1>4
     DEF TypeInv, PersistedIsCurrent, NextIndexInRange, CallsFit, RejectionsFit

\* A restart from the files keeps the invariant.
LEMMA RestartType ==
    ASSUME TypeInv, NEW S \in RestartGroups, Restart(S)
    PROVE  TypeInv'
<1>1. /\ TypeOK /\ PersistedIsCurrent /\ NextIndexInRange /\ CallsFit /\ RejectionsFit
  BY DEF TypeInv
<1>2. /\ persisted' = persisted /\ restarts' \in Nat
      /\ UNCHANGED <<ballots, leaders, reusedMatch>>
  BY <1>1 DEF Restart, Reload, TypeOK, historyVars
<1>3. UNCHANGED <<currentTerm, votedFor, log>>
  <2>1. \A i \in Server : /\ persisted[i].term = currentTerm[i]
                          /\ persisted[i].votedFor = votedFor[i]
                          /\ persisted[i].log = log[i]
    <3>. TAKE i \in Server
    <3>1. persisted[i] = [term |-> currentTerm[i], votedFor |-> votedFor[i], log |-> log[i]]
      BY <1>1 DEF PersistedIsCurrent
    <3>. QED BY <3>1
  <2>. QED BY <1>1, <2>1 DEF Restart, Reload, TypeOK
<1>4. /\ state' = [i \in Server |-> IF i \in S THEN Follower ELSE state[i]]
      /\ nextIndex' = [i \in Server |-> [j \in Server |-> IF i \in S THEN 0 ELSE nextIndex[i][j]]]
      /\ matchIndex' = [i \in Server |-> [j \in Server |-> IF i \in S THEN 0 ELSE matchIndex[i][j]]]
      /\ commitIndex' \in [Server -> Nat] /\ lastApplied' \in [Server -> Nat]
      /\ votes' \in [Server -> SUBSET Server]
      /\ state' \in [Server -> {Follower, Candidate, Leader}]
  BY <1>1 DEF Restart, Reload, TypeOK
<1>5. /\ nextIndex' \in [Server -> [Server -> Nat]]
      /\ matchIndex' \in [Server -> [Server -> Nat]]
  BY <1>1, <1>4 DEF TypeOK
<1>6. /\ voteCalls' \subseteq voteCalls /\ voteReplies' \subseteq voteReplies
      /\ appendCalls' \subseteq appendCalls /\ appendReplies' \subseteq appendReplies
      /\ \A m \in appendCalls' : m.from \notin S
      /\ \A r \in appendReplies' : r.args.from \notin S
  BY DEF Restart, Reload
<1>7. TypeOK'
  BY <1>1, <1>2, <1>3, <1>4, <1>5, <1>6 DEF TypeOK
<1>8. NextIndexInRange'
  <2>. SUFFICES ASSUME NEW a \in Server, NEW b \in Server, state'[a] = Leader
       PROVE  nextIndex'[a][b] \in 1..(Len(log[a]) + 1)
    BY <1>3 DEF NextIndexInRange
  <2>1. a \notin S /\ state[a] = Leader /\ nextIndex'[a][b] = nextIndex[a][b]
    BY <1>4 DEF Follower, Leader
  <2>. QED BY <1>1, <2>1 DEF NextIndexInRange
<1>9. CallsFit'
  <2>. SUFFICES ASSUME NEW m \in Sent'
       PROVE  m \in Sent /\ m.from \in Server /\ state'[m.from] = state[m.from]
    BY <1>1, <1>3 DEF CallsFit
  <2>1. m \in Sent /\ m.from \notin S
    BY <1>6 DEF Sent
  <2>2. m.from \in Server
    BY <1>1, <2>1, SentType
  <2>. QED BY <1>4, <2>1, <2>2
<1>10. RejectionsFit'
  BY <1>1, <1>6 DEF RejectionsFit
<1>. QED BY <1>1, <1>2, <1>3, <1>7, <1>8, <1>9, <1>10 DEF TypeInv, PersistedIsCurrent

\* Every step of a peer, of the network and of a crash keeps the invariant.
LEMMA TypeInvNext == TypeInv /\ [Next]_vars => TypeInv'
<1>. SUFFICES ASSUME TypeInv, [Next]_vars PROVE TypeInv'
  OBVIOUS
<1>1. ASSUME NEW i \in Server, Ticker(i) \/ DebugForceElection(i) PROVE TypeInv'
  BY <1>1, StartElectionType DEF Ticker, DebugForceElection
<1>2. ASSUME NEW m \in voteCalls, RequestVote(m) PROVE TypeInv'
  BY <1>2, RequestVoteType
<1>3. ASSUME NEW r \in voteReplies, RequestVoteReply(r) PROVE TypeInv'
  BY <1>3, RequestVoteReplyType
<1>4. ASSUME NEW i \in Server, NEW v \in Value, Start(i, v) PROVE TypeInv'
  BY <1>4, StartType
<1>5. ASSUME NEW i \in Server, NEW j \in Server, SendAppendEntries(i, j) PROVE TypeInv'
  BY <1>5, SendAppendEntriesType
<1>6. ASSUME NEW m \in appendCalls, AppendEntries(m) PROVE TypeInv'
  BY <1>6, AppendEntriesType
<1>7. ASSUME NEW r \in appendReplies, AppendEntriesReply(r) PROVE TypeInv'
  BY <1>7, AppendEntriesReplyType
<1>8. CASE (\E i \in Server : ApplyLoop(i)) \/ LoseCall
  BY <1>8, ApplyAndLossType
<1>9. ASSUME NEW S \in RestartGroups, Restart(S) PROVE TypeInv'
  BY <1>9, RestartType
<1>10. CASE UNCHANGED vars
  <2>1. UNCHANGED <<currentTerm, votedFor, log, state, commitIndex, lastApplied, nextIndex,
                    matchIndex, votes, persisted, voteCalls, voteReplies, appendCalls,
                    appendReplies, restarts, ballots, leaders, reusedMatch>>
    BY <1>10 DEF vars, durableVars, leaderVars, callVars, historyVars
  <2>2. Sent' = Sent
    BY <2>1 DEF Sent
  <2>. QED BY <2>1, <2>2 DEF TypeInv, TypeOK, PersistedIsCurrent, NextIndexInRange,
                             CallsFit, RejectionsFit
<1>. QED BY <1>1, <1>2, <1>3, <1>4, <1>5, <1>6, <1>7, <1>8, <1>9, <1>10 DEF Next

\* TypeInv holds in every reachable state.
THEOREM TypeInvariant == Spec => []TypeInv
<1>. QED BY TypeInvInit, TypeInvNext, PTL DEF Spec

\* The fields of every peer, every file and every call under way have their types.
THEOREM TypeCorrect == Spec => []TypeOK
<1>1. TypeInv => TypeOK
  BY DEF TypeInv
<1>. QED BY <1>1, TypeInvariant, PTL

\* Between critical sections raft_state.bin is what the peer holds.
THEOREM PersistedCorrect == Spec => []PersistedIsCurrent
<1>1. TypeInv => PersistedIsCurrent
  BY DEF TypeInv
<1>. QED BY <1>1, TypeInvariant, PTL

\* The slice expressions of broadcastHeartbeats() never leave the log.
THEOREM NextIndexCorrect == Spec => []NextIndexInRange
<1>1. TypeInv => NextIndexInRange
  BY DEF TypeInv
<1>. QED BY <1>1, TypeInvariant, PTL

-----------------------------------------------------------------------------
(* One leader per term.                                                      *)

\* A vote that was given is remembered: by the voter's vote of that term, or by a
\* later term.
BallotsRecorded ==
    \A b \in ballots : /\ b[1] <= currentTerm[b[2]]
                       /\ b[1] = currentTerm[b[2]] => votedFor[b[2]] = b[3]

\* Nobody votes for two candidates in one term.
BallotsUnique ==
    \A a, b \in ballots : a[1] = b[1] /\ a[2] = b[2] => a[3] = b[3]

\* A reply that grants a vote, and a vote that is counted, stand for a vote given.
RepliesAreBallots ==
    \A r \in voteReplies :
        r.voteGranted => <<r.args.term, r.args.to, r.args.from>> \in ballots

CountedVotes ==
    \A i \in Server : state[i] # Follower =>
        \A j \in votes[i] : <<currentTerm[i], j, i>> \in ballots

Voters(t, c) == {j \in Server : <<t, j, c>> \in ballots}

\* An election that was won was won by a majority.
LeadersElected ==
    \A l \in leaders : Majority(Cardinality(Voters(l[1], l[2])))

\* Who leads, and who sends AppendEntries, has won the election of its term.
InOffice ==
    /\ \A i \in Server : state[i] = Leader => <<currentTerm[i], i>> \in leaders
    /\ \A m \in Sent : <<m.term, m.from>> \in leaders /\ m.from # m.to

VoteInv ==
    /\ BallotsRecorded
    /\ BallotsUnique
    /\ RepliesAreBallots
    /\ CountedVotes
    /\ LeadersElected
    /\ InOffice

\* More votes than a majority are a majority (len(rf.peers)/2 rounds down).
LEMMA MajorityGrows ==
    ASSUME NEW A, NEW B, A \subseteq B, B \subseteq Server, Majority(Cardinality(A))
    PROVE  Majority(Cardinality(B))
<1>1. IsFiniteSet(B)
  BY ServerAssumption, FS_Subset
<1>2. IsFiniteSet(A) /\ Cardinality(A) <= Cardinality(B)
  BY <1>1, FS_Subset
<1>3. Cardinality(A) \in Nat /\ Cardinality(B) \in Nat /\ Cardinality(Server) \in Nat
  BY <1>1, <1>2, ServerAssumption, FS_CardinalityType
<1>. QED BY <1>2, <1>3 DEF Majority

\* Two majorities have a peer in common.
LEMMA MajoritiesMeet ==
    ASSUME NEW A, NEW B, A \subseteq Server, B \subseteq Server,
           Majority(Cardinality(A)), Majority(Cardinality(B))
    PROVE  A \cap B # {}
<1>1. IsFiniteSet(A) /\ IsFiniteSet(B)
  BY ServerAssumption, FS_Subset
<1>2. Cardinality(A) \in Nat /\ Cardinality(B) \in Nat /\ Cardinality(Server) \in Nat
  BY <1>1, ServerAssumption, FS_CardinalityType
<1>3. Cardinality(A) + Cardinality(B) > Cardinality(Server)
  BY <1>2 DEF Majority
<1>. QED BY <1>3, ServerAssumption, FS_MajoritiesIntersect

\* Before the first election nobody has voted and nobody leads.
LEMMA VoteInvInit == Init => VoteInv
<1>. SUFFICES ASSUME Init PROVE VoteInv
  OBVIOUS
<1>1. ballots = {} /\ voteReplies = {} /\ leaders = {} /\ Sent = {}
  BY DEF Init, Sent
<1>2. \A i \in Server : state[i] = Follower
  BY DEF Init
<1>. QED BY <1>1, <1>2 DEF VoteInv, BallotsRecorded, BallotsUnique, RepliesAreBallots,
            CountedVotes, LeadersElected, InOffice, Follower, Leader

\* A step in which no vote is given or counted keeps the invariant if terms do not
\* go back, a vote of the current term is kept, and a peer either stays what it is
\* in its term or becomes a follower.
LEMMA VoteInvKept ==
    ASSUME TypeInv, TypeInv', VoteInv, ballots' = ballots, leaders' = leaders,
           voteReplies' \subseteq voteReplies,
           \A m \in Sent' \ Sent : <<m.term, m.from>> \in leaders /\ m.from # m.to,
           \A j \in Server :
               /\ \/ currentTerm'[j] > currentTerm[j]
                  \/ currentTerm'[j] = currentTerm[j] /\ votedFor'[j] = votedFor[j]
               /\ \/ state'[j] = Follower
                  \/ /\ currentTerm'[j] = currentTerm[j]
                     /\ state'[j] = state[j]
                     /\ votes'[j] = votes[j]
    PROVE  VoteInv'
<1>1. TypeOK /\ TypeOK' /\ BallotsRecorded /\ BallotsUnique /\ RepliesAreBallots
      /\ CountedVotes /\ LeadersElected /\ InOffice
  BY DEF TypeInv, VoteInv
<1>2. BallotsRecorded'
  <2>. SUFFICES ASSUME NEW b \in ballots
       PROVE  /\ b[1] <= currentTerm'[b[2]]
              /\ b[1] = currentTerm'[b[2]] => votedFor'[b[2]] = b[3]
    BY DEF BallotsRecorded
  <2>1. b[1] \in Nat /\ b[2] \in Server /\ currentTerm[b[2]] \in Nat /\ currentTerm'[b[2]] \in Nat
    BY <1>1 DEF TypeOK
  <2>2. /\ b[1] <= currentTerm[b[2]]
        /\ b[1] = currentTerm[b[2]] => votedFor[b[2]] = b[3]
    BY <1>1 DEF BallotsRecorded
  <2>. QED BY <2>1, <2>2
<1>3. BallotsUnique' /\ RepliesAreBallots'
  BY <1>1 DEF BallotsUnique, RepliesAreBallots
<1>4. CountedVotes'
  BY <1>1 DEF CountedVotes
<1>5. LeadersElected'
  <2>1. \A t, c : Voters(t, c)' = Voters(t, c)
    BY DEF Voters
  <2>. QED BY <1>1, <2>1 DEF LeadersElected
<1>6. InOffice'
  BY <1>1 DEF InOffice, Follower, Leader
<1>. QED BY <1>2, <1>3, <1>4, <1>5, <1>6 DEF VoteInv

\* A step in which peer v votes for c in term t.
LEMMA BallotAdded ==
    ASSUME TypeInv, TypeInv', VoteInv, NEW v \in Server, NEW c \in Server, NEW t \in Nat,
           ballots' = ballots \cup {<<t, v, c>>}, leaders' = leaders,
           currentTerm'[v] = t, votedFor'[v] = c,
           \/ t > currentTerm[v]
           \/ t = currentTerm[v] /\ votedFor[v] \in {Nil, c},
           \A j \in Server \ {v} : currentTerm'[j] = currentTerm[j] /\ votedFor'[j] = votedFor[j]
    PROVE  BallotsRecorded' /\ BallotsUnique' /\ LeadersElected'
<1>1. TypeOK /\ TypeOK' /\ BallotsRecorded /\ BallotsUnique /\ LeadersElected
  BY DEF TypeInv, VoteInv
<1>2. ASSUME NEW b \in ballots
      PROVE  /\ b[1] \in Nat /\ b[2] \in Server /\ b[3] \in Server
             /\ b[1] <= currentTerm[b[2]]
             /\ b[1] = currentTerm[b[2]] => votedFor[b[2]] = b[3]
  BY <1>1 DEF TypeOK, BallotsRecorded
<1>3. ASSUME NEW b \in ballots, b[1] = t, b[2] = v PROVE b[3] = c
  <2>1. currentTerm[v] \in Nat
    BY <1>1 DEF TypeOK
  <2>2. t = currentTerm[v] /\ votedFor[v] = b[3] /\ b[3] # Nil
    BY <1>2, <1>3, <2>1, ServerAssumption
  <2>. QED BY <2>1, <2>2
<1>4. BallotsUnique'
  BY <1>1, <1>3 DEF BallotsUnique
<1>5. BallotsRecorded'
  <2>. SUFFICES ASSUME NEW b \in ballots'
       PROVE  /\ b[1] <= currentTerm'[b[2]]
              /\ b[1] = currentTerm'[b[2]] => votedFor'[b[2]] = b[3]
    BY DEF BallotsRecorded
  <2>1. CASE b = <<t, v, c>>
    BY <2>1
  <2>2. CASE b \in ballots /\ b[2] # v
    BY <1>2, <2>2
  <2>3. CASE b \in ballots /\ b[2] = v
    <3>1. currentTerm[v] \in Nat /\ b[1] \in Nat /\ b[1] <= currentTerm[v]
      BY <1>1, <1>2, <2>3 DEF TypeOK
    <3>. QED BY <1>3, <2>3, <3>1
  <2>. QED BY <2>1, <2>2, <2>3
<1>6. LeadersElected'
  <2>. SUFFICES ASSUME NEW l \in leaders
       PROVE  Majority(Cardinality(Voters(l[1], l[2])'))
    BY DEF LeadersElected
  <2>1. Voters(l[1], l[2]) \subseteq Voters(l[1], l[2])'
    BY DEF Voters
  <2>2. Voters(l[1], l[2])' \subseteq Server
    BY DEF Voters
  <2>. QED BY <1>1, <2>1, <2>2, MajorityGrows DEF LeadersElected
<1>. QED BY <1>4, <1>5, <1>6

\* A candidate votes for itself in a term nobody has given it a vote in.
LEMMA StartElectionVotes ==
    ASSUME TypeInv, TypeInv', VoteInv, NEW i \in Server, StartElection(i)
    PROVE  VoteInv'
<1>1. TypeOK /\ TypeOK' /\ RepliesAreBallots /\ CountedVotes /\ InOffice
  BY DEF TypeInv, VoteInv
<1>2. /\ currentTerm' = [currentTerm EXCEPT ![i] = @ + 1]
      /\ state' = [state EXCEPT ![i] = Candidate]
      /\ votedFor' = [votedFor EXCEPT ![i] = i]
      /\ votes' = [votes EXCEPT ![i] = {i}]
      /\ ballots' = ballots \cup {<<currentTerm[i] + 1, i, i>>}
      /\ UNCHANGED <<voteReplies, appendCalls, appendReplies, leaders>>
  BY DEF StartElection
<1>3. /\ currentTerm[i] \in Nat /\ currentTerm'[i] = currentTerm[i] + 1
      /\ votedFor'[i] = i /\ state'[i] = Candidate /\ votes'[i] = {i}
  BY <1>1, <1>2 DEF TypeOK
<1>4. \A j \in Server \ {i} : /\ currentTerm'[j] = currentTerm[j]
                               /\ votedFor'[j] = votedFor[j]
                               /\ state'[j] = state[j]
                               /\ votes'[j] = votes[j]
  BY <1>1, <1>2 DEF TypeOK
<1>5. BallotsRecorded' /\ BallotsUnique' /\ LeadersElected'
  BY <1>2, <1>3, <1>4, BallotAdded
<1>6. RepliesAreBallots'
  BY <1>1, <1>2 DEF RepliesAreBallots
<1>7. CountedVotes'
  BY <1>1, <1>2, <1>3, <1>4 DEF CountedVotes
<1>8. InOffice'
  <2>1. Sent' = Sent
    BY <1>2 DEF Sent
  <2>. QED BY <1>1, <1>2, <1>3, <1>4, <2>1 DEF InOffice, Leader, Candidate
<1>. QED BY <1>5, <1>6, <1>7, <1>8 DEF VoteInv

\* RequestVote() gives at most one vote per term, and its reply is true.
LEMMA RequestVoteVotes ==
    ASSUME TypeInv, TypeInv', VoteInv, NEW m \in voteCalls, RequestVote(m)
    PROVE  VoteInv'
<1>. DEFINE i       == m.to
            bumped  == m.term > currentTerm[i]
            voted   == IF bumped THEN Nil ELSE votedFor[i]
            granted == /\ m.term >= currentTerm[i]
                       /\ UpToDate(m.lastLogTerm, m.lastLogIndex, log[i])
                       /\ CanVote(voted, m.from)
            reply   == [args |-> m, term |-> currentTerm'[i], voteGranted |-> granted]
<1>1. TypeOK /\ TypeOK' /\ RepliesAreBallots /\ CountedVotes /\ InOffice
  BY DEF TypeInv, VoteInv
<1>2. /\ currentTerm' = [currentTerm EXCEPT ![i] = IF bumped THEN m.term ELSE @]
      /\ state' = [state EXCEPT ![i] = IF bumped THEN Follower ELSE @]
      /\ votedFor' = [votedFor EXCEPT ![i] = IF granted THEN m.from ELSE voted]
      /\ ballots' = IF granted THEN ballots \cup {<<m.term, i, m.from>>} ELSE ballots
      /\ voteReplies' = voteReplies \cup {reply}
      /\ UNCHANGED <<votes, appendCalls, appendReplies, leaders>>
  BY DEF RequestVote
<1>3. i \in Server /\ m.from \in Server /\ m.term \in Nat /\ currentTerm[i] \in Nat
  BY <1>1 DEF TypeOK, RequestVoteArgs
<1>4. granted => m.term >= currentTerm[i] /\ voted \in {Nil, m.from}
  BY DEF CanVote
<1>5. reply.args = m /\ reply.voteGranted = granted
  OBVIOUS
<1>. HIDE DEF granted, i, reply
<1>6. Sent' = Sent
  BY <1>2 DEF Sent
<1>7. /\ currentTerm'[i] = (IF bumped THEN m.term ELSE currentTerm[i])
      /\ state'[i] = (IF bumped THEN Follower ELSE state[i])
      /\ votedFor'[i] = (IF granted THEN m.from ELSE voted)
      /\ \A j \in Server \ {i} : /\ currentTerm'[j] = currentTerm[j]
                                 /\ votedFor'[j] = votedFor[j]
                                 /\ state'[j] = state[j]
  BY <1>1, <1>2, <1>3 DEF TypeOK
<1>8. InOffice'
  <2>1. \A j \in Server : state'[j] = Leader =>
            state[j] = Leader /\ currentTerm'[j] = currentTerm[j]
    BY <1>7 DEF Leader, Follower
  <2>. QED BY <1>1, <1>2, <1>6, <2>1 DEF InOffice
<1>9. CountedVotes'
  <2>1. \A j \in Server : state'[j] # Follower =>
            state[j] # Follower /\ currentTerm'[j] = currentTerm[j]
    BY <1>7
  <2>2. ballots \subseteq ballots'
    BY <1>2
  <2>. QED BY <1>1, <1>2, <2>1, <2>2 DEF CountedVotes
<1>10. CASE granted
  <2>1. /\ ballots' = ballots \cup {<<m.term, i, m.from>>}
        /\ currentTerm'[i] = m.term /\ votedFor'[i] = m.from
        /\ \/ m.term > currentTerm[i]
           \/ m.term = currentTerm[i] /\ votedFor[i] \in {Nil, m.from}
    BY <1>2, <1>3, <1>4, <1>7, <1>10
  <2>2. BallotsRecorded' /\ BallotsUnique' /\ LeadersElected'
    BY <1>2, <1>3, <1>7, <2>1, BallotAdded
  <2>3. RepliesAreBallots'
    BY <1>1, <1>2, <1>5, <2>1 DEF RepliesAreBallots, i
  <2>. QED BY <1>8, <1>9, <2>2, <2>3 DEF VoteInv
<1>11. CASE ~granted
  <2>1. ballots' = ballots
    BY <1>2, <1>11
  <2>2. BallotsRecorded' /\ BallotsUnique' /\ LeadersElected'
    <3>1. \A j \in Server : \/ currentTerm'[j] > currentTerm[j]
                            \/ currentTerm'[j] = currentTerm[j] /\ votedFor'[j] = votedFor[j]
      BY <1>3, <1>7, <1>11
    <3>2. \A t, c : Voters(t, c)' = Voters(t, c)
      BY <2>1 DEF Voters
    <3>3. LeadersElected' /\ BallotsUnique'
      BY <1>2, <2>1, <3>2 DEF VoteInv, LeadersElected, BallotsUnique
    <3>4. ASSUME NEW b \in ballots
          PROVE  /\ b[1] <= currentTerm'[b[2]]
                 /\ b[1] = currentTerm'[b[2]] => votedFor'[b[2]] = b[3]
      <4>1. b[1] \in Nat /\ b[2] \in Server /\ currentTerm[b[2]] \in Nat /\ currentTerm'[b[2]] \in Nat
        BY <1>1 DEF TypeOK
      <4>2. /\ b[1] <= currentTerm[b[2]]
            /\ b[1] = currentTerm[b[2]] => votedFor[b[2]] = b[3]
        BY DEF VoteInv, BallotsRecorded
      <4>. QED BY <3>1, <4>1, <4>2
    <3>. QED BY <2>1, <3>3, <3>4 DEF BallotsRecorded
  <2>3. RepliesAreBallots'
    BY <1>1, <1>2, <1>5, <1>11, <2>1 DEF RepliesAreBallots
  <2>. QED BY <1>8, <1>9, <2>2, <2>3 DEF VoteInv
<1>. QED BY <1>10, <1>11

\* Counting the votes: whoever becomes leader has the votes of a majority.
LEMMA RequestVoteReplyVotes ==
    ASSUME TypeInv, TypeInv', VoteInv, NEW r \in voteReplies, RequestVoteReply(r)
    PROVE  VoteInv'
<1>. DEFINE i     == r.args.from
            stale == state[i] # Candidate \/ currentTerm[i] # r.args.term
<1>1. TypeOK /\ TypeOK' /\ RepliesAreBallots /\ CountedVotes /\ InOffice /\ LeadersElected
  BY DEF TypeInv, VoteInv
<1>2. i \in Server /\ r.args.to \in Server /\ r.term \in Nat /\ currentTerm[i] \in Nat
  <2>1. r \in RequestVoteReplies
    BY <1>1 DEF TypeOK
  <2>2. r.args \in RequestVoteArgs /\ r.term \in Nat
    BY <2>1 DEF RequestVoteReplies
  <2>. QED BY <1>1, <2>2 DEF RequestVoteArgs, TypeOK
<1>3. /\ voteReplies' = voteReplies \ {r}
      /\ UNCHANGED <<appendCalls, appendReplies, ballots>>
  BY DEF RequestVoteReply
<1>4. Sent' = Sent
  BY <1>3 DEF Sent
<1>5. CASE UNCHANGED <<durableVars, state, leaderVars, votes, persisted, leaders, reusedMatch>>
  <2>1. UNCHANGED <<currentTerm, votedFor, state, votes, leaders>>
    BY <1>5 DEF durableVars
  <2>. QED BY <1>3, <1>4, <2>1, VoteInvKept
<1>6. CASE /\ ~stale /\ r.term > currentTerm[i]
           /\ StepDown(i, r.term)
           /\ UNCHANGED <<leaderVars, votes, leaders, reusedMatch>>
  <2>1. \A j \in Server :
               /\ \/ currentTerm'[j] > currentTerm[j]
                  \/ currentTerm'[j] = currentTerm[j] /\ votedFor'[j] = votedFor[j]
               /\ \/ state'[j] = Follower
                  \/ /\ currentTerm'[j] = currentTerm[j]
                     /\ state'[j] = state[j]
                     /\ votes'[j] = votes[j]
    BY <1>1, <1>2, <1>6 DEF StepDown, TypeOK
  <2>. QED BY <1>3, <1>4, <1>6, <2>1, VoteInvKept
<1>7. CASE /\ ~stale /\ r.term <= currentTerm[i] /\ r.voteGranted
           /\ votes' = [votes EXCEPT ![i] = @ \cup {r.args.to}]
           /\ IF Majority(Cardinality(votes'[i]))
              THEN BecomeLeader(i)
              ELSE UNCHANGED <<state, leaderVars, leaders, reusedMatch>>
           /\ UNCHANGED <<durableVars, persisted>>
  <2>1. UNCHANGED <<currentTerm, votedFor, ballots>> /\ state[i] = Candidate
    BY <1>3, <1>7 DEF durableVars
  <2>2. <<currentTerm[i], r.args.to, i>> \in ballots
    BY <1>1, <1>7 DEF RepliesAreBallots
  <2>3. /\ votes'[i] = votes[i] \cup {r.args.to}
        /\ \A j \in Server \ {i} : votes'[j] = votes[j]
    <3>1. votes \in [Server -> SUBSET Server]
      BY <1>1 DEF TypeOK
    <3>2. votes' = [votes EXCEPT ![i] = @ \cup {r.args.to}]
      BY <1>7
    <3>. QED BY <1>2, <3>1, <3>2
  <2>4. votes'[i] \subseteq Voters(currentTerm[i], i)
    <3>1. \A j \in votes[i] : <<currentTerm[i], j, i>> \in ballots /\ j \in Server
      BY <1>1, <1>2, <2>1 DEF CountedVotes, TypeOK, Candidate, Follower
    <3>. QED BY <1>2, <2>2, <2>3, <3>1 DEF Voters
  <2>5. BallotsRecorded' /\ BallotsUnique' /\ RepliesAreBallots'
    BY <1>3, <2>1 DEF VoteInv, BallotsRecorded, BallotsUnique, RepliesAreBallots
  <2>6. \A t, c : Voters(t, c)' = Voters(t, c)
    BY <2>1 DEF Voters
  <2>7. ASSUME \A j \in Server \ {i} : state'[j] = state[j] PROVE CountedVotes'
    <3>. SUFFICES ASSUME NEW a \in Server, state'[a] # Follower, NEW b \in votes'[a]
         PROVE  <<currentTerm[a], b, a>> \in ballots
      BY <2>1 DEF CountedVotes
    <3>1. CASE a = i
      BY <2>4, <3>1 DEF Voters
    <3>2. CASE a # i
      BY <1>1, <2>3, <2>7, <3>2 DEF CountedVotes
    <3>. QED BY <3>1, <3>2
  <2>8. CASE UNCHANGED <<state, leaderVars, leaders, reusedMatch>>
    <3>1. LeadersElected' /\ InOffice'
      BY <1>1, <1>4, <2>1, <2>6, <2>8 DEF LeadersElected, InOffice
    <3>. QED BY <2>5, <2>7, <2>8, <3>1 DEF VoteInv
  <2>9. CASE Majority(Cardinality(votes'[i])) /\ BecomeLeader(i)
    <3>1. /\ leaders' = leaders \cup {<<currentTerm[i], i>>}
          /\ \A j \in Server \ {i} : state'[j] = state[j]
      BY <1>1, <2>9 DEF BecomeLeader, TypeOK
    <3>2. Majority(Cardinality(Voters(currentTerm[i], i)))
      <4>1. Voters(currentTerm[i], i) \subseteq Server
        BY DEF Voters
      <4>. QED BY <2>4, <2>9, <4>1, MajorityGrows
    <3>3. LeadersElected'
      <4>. SUFFICES ASSUME NEW l \in leaders' PROVE Majority(Cardinality(Voters(l[1], l[2])))
        BY <2>6 DEF LeadersElected
      <4>. QED BY <1>1, <3>1, <3>2 DEF LeadersElected
    <3>4. InOffice'
      BY <1>1, <1>4, <2>1, <3>1 DEF InOffice
    <3>. QED BY <2>5, <2>7, <3>1, <3>3, <3>4 DEF VoteInv
  <2>. QED BY <1>7, <2>8, <2>9
<1>. QED BY <1>5, <1>6, <1>7 DEF RequestVoteReply

\* Every step keeps the votes in order.
LEMMA VoteInvNext == TypeInv /\ TypeInv' /\ VoteInv /\ [Next]_vars => VoteInv'
<1>. SUFFICES ASSUME TypeInv, TypeInv', VoteInv, [Next]_vars PROVE VoteInv'
  OBVIOUS
<1>0. TypeOK /\ PersistedIsCurrent /\ InOffice
  BY DEF TypeInv, VoteInv
<1>1. ASSUME NEW i \in Server, Ticker(i) \/ DebugForceElection(i) PROVE VoteInv'
  BY <1>1, StartElectionVotes DEF Ticker, DebugForceElection
<1>2. ASSUME NEW m \in voteCalls, RequestVote(m) PROVE VoteInv'
  BY <1>2, RequestVoteVotes
<1>3. ASSUME NEW r \in voteReplies, RequestVoteReply(r) PROVE VoteInv'
  BY <1>3, RequestVoteReplyVotes
<1>4. ASSUME NEW i \in Server, NEW v \in Value, Start(i, v) PROVE VoteInv'
  <2>1. UNCHANGED <<currentTerm, votedFor, state, votes, voteReplies, appendCalls,
                    appendReplies, ballots, leaders>>
    BY <1>4 DEF Start, callVars, historyVars
  <2>2. Sent' = Sent
    BY <2>1 DEF Sent
  <2>. QED BY <2>1, <2>2, VoteInvKept
<1>5. ASSUME NEW i \in Server, NEW j \in Server, i # j, SendAppendEntries(i, j) PROVE VoteInv'
  <2>1. /\ UNCHANGED <<currentTerm, votedFor, state, votes, voteReplies, appendReplies,
                       ballots, leaders>>
        /\ state[i] = Leader
    BY <1>5 DEF SendAppendEntries, durableVars, historyVars
  <2>2. \A m \in appendCalls' \ appendCalls : m.from = i /\ m.to = j /\ m.term = currentTerm[i]
    BY <1>5 DEF SendAppendEntries
  <2>3. \A m \in Sent' \ Sent : <<m.term, m.from>> \in leaders /\ m.from # m.to
    BY <1>0, <1>5, <2>1, <2>2 DEF Sent, InOffice
  <2>. QED BY <2>1, <2>3, VoteInvKept
<1>6. ASSUME NEW m \in appendCalls, AppendEntries(m) PROVE VoteInv'
  <2>1. /\ currentTerm' = [currentTerm EXCEPT ![m.to] = IF m.term > currentTerm[m.to]
                                                        THEN m.term ELSE @]
        /\ votedFor' = [votedFor EXCEPT ![m.to] = IF m.term > currentTerm[m.to] THEN Nil ELSE @]
        /\ state' = [state EXCEPT ![m.to] = IF m.term < currentTerm[m.to] THEN @ ELSE Follower]
        /\ UNCHANGED <<votes, voteReplies, ballots, leaders>>
    BY <1>6 DEF AppendEntries, historyVars
  <2>2. m \in Sent /\ m.to \in Server /\ m.term \in Nat /\ currentTerm[m.to] \in Nat
    BY <1>0, SentType DEF Sent, TypeOK
  <2>3. Sent' \subseteq Sent
    BY <1>6 DEF Sent, AppendEntries, AppendReply
  <2>4. \A j \in Server :
            /\ \/ currentTerm'[j] > currentTerm[j]
               \/ currentTerm'[j] = currentTerm[j] /\ votedFor'[j] = votedFor[j]
            /\ \/ state'[j] = Follower
               \/ /\ currentTerm'[j] = currentTerm[j]
                  /\ state'[j] = state[j]
                  /\ votes'[j] = votes[j]
    <3>1. ASSUME NEW j \in Server, j # m.to
          PROVE  currentTerm'[j] = currentTerm[j] /\ votedFor'[j] = votedFor[j] /\ state'[j] = state[j]
      BY <1>0, <2>1, <3>1 DEF TypeOK
    <3>2. /\ currentTerm'[m.to] = IF m.term > currentTerm[m.to] THEN m.term ELSE currentTerm[m.to]
          /\ votedFor'[m.to] = IF m.term > currentTerm[m.to] THEN Nil ELSE votedFor[m.to]
          /\ state'[m.to] = IF m.term < currentTerm[m.to] THEN state[m.to] ELSE Follower
      BY <1>0, <2>1, <2>2 DEF TypeOK
    <3>. QED BY <2>1, <2>2, <3>1, <3>2
  <2>. QED BY <2>1, <2>3, <2>4, VoteInvKept
<1>7. ASSUME NEW r \in appendReplies, AppendEntriesReply(r) PROVE VoteInv'
  <2>1. /\ UNCHANGED <<votes, voteReplies, appendCalls, ballots, leaders>>
        /\ appendReplies' = appendReplies \ {r}
    BY <1>7 DEF AppendEntriesReply, historyVars
  <2>2. Sent' \subseteq Sent
    BY <2>1 DEF Sent
  <2>3. \/ UNCHANGED <<currentTerm, votedFor, state>>
        \/ r.term > currentTerm[r.args.from] /\ StepDown(r.args.from, r.term)
    BY <1>7 DEF AppendEntriesReply, durableVars
  <2>4. \A j \in Server :
            /\ \/ currentTerm'[j] > currentTerm[j]
               \/ currentTerm'[j] = currentTerm[j] /\ votedFor'[j] = votedFor[j]
            /\ \/ state'[j] = Follower
               \/ /\ currentTerm'[j] = currentTerm[j]
                  /\ state'[j] = state[j]
                  /\ votes'[j] = votes[j]
    BY <1>0, <2>1, <2>3 DEF StepDown, TypeOK
  <2>. QED BY <2>1, <2>2, <2>4, VoteInvKept
<1>8. CASE (\E i \in Server : ApplyLoop(i)) \/ LoseCall
  <2>1. /\ UNCHANGED <<currentTerm, votedFor, state, votes, ballots, leaders>>
        /\ voteReplies' \subseteq voteReplies
        /\ appendCalls' \subseteq appendCalls /\ appendReplies' \subseteq appendReplies
    BY <1>8 DEF ApplyLoop, LoseCall, durableVars, callVars, historyVars
  <2>2. Sent' \subseteq Sent
    BY <2>1 DEF Sent
  <2>. QED BY <2>1, <2>2, VoteInvKept
<1>9. ASSUME NEW S \in RestartGroups, Restart(S) PROVE VoteInv'
  <2>1. UNCHANGED <<currentTerm, votedFor>>
    <3>1. ASSUME NEW i \in Server
          PROVE  persisted[i].term = currentTerm[i] /\ persisted[i].votedFor = votedFor[i]
      <4>1. persisted[i] = [term |-> currentTerm[i], votedFor |-> votedFor[i], log |-> log[i]]
        BY <1>0 DEF PersistedIsCurrent
      <4>. QED BY <4>1
    <3>. QED BY <1>0, <1>9, <3>1 DEF Restart, Reload, TypeOK
  <2>2. /\ UNCHANGED <<ballots, leaders>>
        /\ voteReplies' \subseteq voteReplies
        /\ appendCalls' \subseteq appendCalls /\ appendReplies' \subseteq appendReplies
        /\ \A j \in Server : state'[j] = Follower \/ (state'[j] = state[j] /\ votes'[j] = votes[j])
    BY <1>9 DEF Restart, Reload, historyVars
  <2>3. Sent' \subseteq Sent
    BY <2>2 DEF Sent
  <2>. QED BY <2>1, <2>2, <2>3, VoteInvKept
<1>10. CASE UNCHANGED vars
  <2>1. UNCHANGED <<currentTerm, votedFor, state, votes, voteReplies, appendCalls,
                    appendReplies, ballots, leaders>>
    BY <1>10 DEF vars, durableVars, callVars, historyVars
  <2>2. Sent' = Sent
    BY <2>1 DEF Sent
  <2>. QED BY <2>1, <2>2, VoteInvKept
<1>. QED BY <1>1, <1>2, <1>3, <1>4, <1>5, <1>6, <1>7, <1>8, <1>9, <1>10 DEF Next

\* The votes are in order in every reachable state.
THEOREM VoteInvariant == Spec => []VoteInv
<1>. QED BY VoteInvInit, VoteInvNext, TypeInvariant, PTL DEF Spec

\* Two leaders of one term share a voter, who voted once.
LEMMA OneLeader == TypeInv /\ VoteInv => ElectionSafety
<1>. SUFFICES ASSUME TypeInv, VoteInv, NEW a \in leaders, NEW b \in leaders, a[1] = b[1]
     PROVE  a[2] = b[2]
  BY DEF ElectionSafety
<1>1. Voters(a[1], a[2]) \cap Voters(b[1], b[2]) # {}
  <2>1. Voters(a[1], a[2]) \subseteq Server /\ Voters(b[1], b[2]) \subseteq Server
    BY DEF Voters
  <2>. QED BY <2>1, MajoritiesMeet DEF VoteInv, LeadersElected
<1>2. PICK v \in Server : <<a[1], v, a[2]>> \in ballots /\ <<b[1], v, b[2]>> \in ballots
  BY <1>1 DEF Voters
<1>. QED BY <1>2 DEF VoteInv, BallotsUnique

\* At most one peer ever wins the election of a term, for any number of peers,
\* losses, reorderings and restarts.
THEOREM ElectionCorrect == Spec => []ElectionSafety
<1>. QED BY OneLeader, TypeInvariant, VoteInvariant, PTL

\* No AppendEntries of its own term ever reaches a leader.
THEOREM LeaderNeverChallenged == Spec => []LeaderUnchallenged
<1>1. TypeInv /\ VoteInv => LeaderUnchallenged
  <2>. SUFFICES ASSUME TypeInv, VoteInv, NEW m \in appendCalls, state[m.to] = Leader,
                       m.term = currentTerm[m.to]
       PROVE  FALSE
    BY DEF LeaderUnchallenged
  <2>1. m \in Sent /\ m.to \in Server
    BY SentType DEF Sent, TypeInv
  <2>2. /\ <<m.term, m.from>> \in leaders /\ m.from # m.to
        /\ <<m.term, m.to>> \in leaders
    BY <2>1 DEF VoteInv, InOffice
  <2>3. ElectionSafety
    BY OneLeader
  <2>. QED BY <2>2, <2>3 DEF ElectionSafety
<1>. QED BY <1>1, TypeInvariant, VoteInvariant, PTL
=============================================================================
