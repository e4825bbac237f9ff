--------------------------- MODULE RaftLogProofs ----------------------------
(***************************************************************************)
(* The Raft group implements ReplicatedLog, on which the store rests, for  *)
(* every group of peers, every set of commands and every value of the      *)
(* bounds.                                                                 *)
(***************************************************************************)
EXTENDS RaftLog, RaftSafetyProofs

-----------------------------------------------------------------------------
(* What the mapping needs to know of a state.                                *)

\* Votes are given in the terms of elections.
TermsFit ==
    /\ \A b \in ballots : b[1] \in 1..MaxTerm
    /\ \A m \in voteCalls : m.term \in 1..MaxTerm

\* Start() returned an index within the bound and took an entry of an elected leader.
ProposedFit == proposed \subseteq (1..MaxLog) \X [term : 1..MaxTerm, command : Value]

\* Whatever stands in a log was handed to Start() there.
LogsProposed ==
    \A i \in Server : \A k \in 1..Len(log[i]) : <<k, log[i][k]>> \in proposed

\* And so was whatever is on its way to one.
CallsProposed ==
    \A m \in Sent : \A k \in 1..Len(m.entries) :
        <<m.prevLogIndex + k, m.entries[k]>> \in proposed

\* No peer has applied more than it knows to be committed.
AppliedBehind == ~reusedMatch => \A i \in Server : lastApplied[i] <= commitIndex[i]

\* What was applied so far are the indices from 1 to the most any peer has reached.
AppliedWhole ==
    ~reusedMatch =>
        \E n \in 0..MaxLog : /\ {a[1] : a \in applied} = 1..n
                             /\ \A i \in Server : lastApplied[i] <= n

LogInv ==
    /\ TermsFit
    /\ ProposedFit
    /\ LogsProposed
    /\ CallsProposed
    /\ AppliedBehind
    /\ AppliedWhole

\* Nothing was proposed, sent or applied before the first step.
LEMMA LogInvInit == LogInit => LogInv
<1>. SUFFICES ASSUME LogInit PROVE LogInv
  OBVIOUS
<1>1. /\ ballots = {} /\ voteCalls = {} /\ appendCalls = {} /\ appendReplies = {} /\ applied = {}
      /\ proposed = {} /\ \A i \in Server : /\ log[i] = << >> /\ lastApplied[i] = 0
                                            /\ commitIndex[i] = 0
  BY DEF LogInit, Init
<1>2. TermsFit /\ ProposedFit /\ LogsProposed
  BY <1>1 DEF TermsFit, ProposedFit, LogsProposed
<1>3. CallsProposed
  BY <1>1 DEF CallsProposed, Sent
<1>4. AppliedBehind
  BY <1>1 DEF AppliedBehind
<1>5. AppliedWhole
  <2>1. 0 \in 0..MaxLog /\ {a[1] : a \in applied} = 1..0
    BY <1>1, BoundAssumption
  <2>. QED BY <1>1, <2>1 DEF AppliedWhole
<1>. QED BY <1>2, <1>3, <1>4, <1>5 DEF LogInv

\* An election is in a term up to the bound, and so are the votes it is given.
LEMMA TermsFitNext == TypeOK /\ TermsFit /\ [Next]_vars => TermsFit'
<1>. SUFFICES ASSUME TypeOK, TermsFit, [Next]_vars PROVE TermsFit'
  OBVIOUS
<1>1. ASSUME ballots' = ballots, voteCalls' \subseteq voteCalls PROVE TermsFit'
  BY <1>1 DEF TermsFit
<1>2. ASSUME NEW i \in Server, StartElection(i) PROVE TermsFit'
  <2>1. currentTerm[i] + 1 \in 1..MaxTerm
    BY <1>2, BoundAssumption DEF StartElection, TypeOK
  <2>2. ASSUME NEW b \in ballots' PROVE b[1] \in 1..MaxTerm
    BY <1>2, <2>1 DEF StartElection, TermsFit
  <2>3. ASSUME NEW m \in voteCalls' PROVE m.term \in 1..MaxTerm
    BY <1>2, <2>1 DEF StartElection, TermsFit
  <2>. QED BY <2>2, <2>3 DEF TermsFit
<1>3. ASSUME NEW m \in voteCalls, RequestVote(m) PROVE TermsFit'
  <2>1. voteCalls' \subseteq voteCalls /\ ballots' \subseteq ballots \cup {<<m.term, m.to, m.from>>}
    BY <1>3 DEF RequestVote
  <2>2. m.term \in 1..MaxTerm
    BY DEF TermsFit
  <2>. QED BY <2>1, <2>2 DEF TermsFit
<1>4. CASE \E r \in voteReplies : RequestVoteReply(r)
  BY <1>1, <1>4 DEF RequestVoteReply
<1>5. CASE \/ \E i \in Server, v \in Value : Start(i, v)
           \/ \E i, j \in Server : i # j /\ SendAppendEntries(i, j)
           \/ \E i \in Server : ApplyLoop(i)
  BY <1>1, <1>5 DEF Start, SendAppendEntries, ApplyLoop, callVars, historyVars
<1>6. CASE \E m \in appendCalls : AppendEntries(m)
  BY <1>1, <1>6, Zenon DEF AppendEntries, historyVars
<1>7. CASE \E r \in appendReplies : AppendEntriesReply(r)
  BY <1>1, <1>7 DEF AppendEntriesReply, historyVars
<1>8. CASE LoseCall
  BY <1>1, <1>8 DEF LoseCall, historyVars
<1>9. CASE (\E S \in RestartGroups : Restart(S)) \/ UNCHANGED vars
  BY <1>1, <1>9 DEF Restart, Reload, vars, callVars, historyVars
<1>. QED BY <1>2, <1>3, <1>4, <1>5, <1>6, <1>7, <1>8, <1>9 DEF Next, Ticker, DebugForceElection

\* Who was elected was elected in a term within the bound.
LEMMA LeaderTerm ==
    ASSUME TypeInv, VoteInv, TermsFit, NEW i \in Server, state[i] = Leader
    PROVE  currentTerm[i] \in 1..MaxTerm
<1>1. <<currentTerm[i], i>> \in leaders
  BY DEF VoteInv, InOffice
<1>2. Majority(Cardinality(Voters(currentTerm[i], i)))
  <2>1. PICK l \in leaders : l = <<currentTerm[i], i>>
    BY <1>1
  <2>2. Majority(Cardinality(Voters(l[1], l[2])))
    BY DEF VoteInv, LeadersElected
  <2>3. l[1] = currentTerm[i] /\ l[2] = i
    BY <2>1
  <2>. QED BY <2>2, <2>3
<1>3. Voters(currentTerm[i], i) # {}
  <2>1. Cardinality(Server) \in Nat
    BY ServerAssumption, FS_CardinalityType
  <2>2. Cardinality({}) = 0
    BY FS_EmptySet
  <2>3. ~Majority(0)
    BY <2>1 DEF Majority
  <2>. QED BY <1>2, <2>2, <2>3
<1>4. PICK j \in Server : <<currentTerm[i], j, i>> \in ballots
  BY <1>3 DEF Voters
<1>5. PICK b \in ballots : b = <<currentTerm[i], j, i>>
  BY <1>4
<1>6. b[1] \in 1..MaxTerm /\ b[1] = currentTerm[i]
  BY <1>5 DEF TermsFit
<1>. QED BY <1>6

-----------------------------------------------------------------------------
(* Every entry of a log and of a call was proposed where it stands.          *)

\* Every entry of n stands in l, or in es when es follows index prev.
MadeOf(n, l, prev, es) ==
    \A y \in 1..Len(n) : \/ y \in 1..Len(l) /\ n[y] = l[y]
                        \/ \E x \in 1..Len(es) : y = prev + x /\ n[y] = es[x]

\* What AppendEntries leaves in a log was there before or came with the call.
LEMMA MergeSource ==
    ASSUME NEW l \in Seq(Entry), NEW prev \in Nat, prev <= Len(l), NEW es \in Seq(Entry)
    PROVE  MadeOf(MergeEntries(l, prev, es), l, prev, es)
<1>0. PICK n : n = MergeEntries(l, prev, es)
  OBVIOUS
<1>. SUFFICES \A y \in 1..Len(n) : \/ y \in 1..Len(l) /\ n[y] = l[y]
                                  \/ \E x \in 1..Len(es) : y = prev + x /\ n[y] = es[x]
  BY <1>0 DEF MadeOf
<1>. DEFINE M == Mismatches(l, prev, es)
<1>1. Len(l) \in Nat /\ Len(es) \in Nat /\ prev \in Nat /\ prev <= Len(l)
  OBVIOUS
<1>2. CASE M = {}
  BY <1>0, <1>2 DEF MergeEntries
<1>3. CASE M # {}
  <2>1. Least(M) \in M /\ \A y \in M : Least(M) <= y
    <3>1. M \subseteq Nat
      BY DEF Mismatches
    <3>. QED BY <1>3, <3>1, LeastExists
  <2>2. PICK k \in 1..Len(es) : k = Least(M)
    BY <2>1 DEF Mismatches
  <2>3. prev + k - 1 \in 0..Len(l)
    <3>1. CASE k = 1
      BY <1>1, <3>1
    <3>2. CASE k # 1
      <4>1. k - 1 \in 1..Len(es) /\ ~(k <= k - 1)
        BY <1>1, <3>2
      <4>2. k - 1 \notin M
        <5>. HIDE DEF M
        <5>. QED BY <2>1, <2>2, <4>1
      <4>3. ~(prev + (k - 1) > Len(l))
        BY <4>1, <4>2 DEF Mismatches
      <4>. QED BY <1>1, <4>1, <4>3
    <3>. QED BY <3>1, <3>2
  <2>. DEFINE a == SubSeq(l, 1, prev + k - 1)
              b == SubSeq(es, k, Len(es))
  <2>4. n = a \o b
    BY <1>0, <1>3, <2>2 DEF MergeEntries
  <2>. HIDE DEF M
  <2>5. /\ a \in Seq(Entry) /\ Len(a) = prev + k - 1
        /\ \A y \in 1..(prev + k - 1) : a[y] = l[y]
    BY <2>3
  <2>6. /\ b \in Seq(Entry) /\ Len(b) = Len(es) - k + 1
        /\ \A y \in 1..(Len(es) - k + 1) : b[y] = es[k + y - 1]
    BY <1>1
  <2>. HIDE DEF a, b
  <2>7. /\ Len(n) = Len(a) + Len(b)
        /\ \A y \in 1..Len(a) : n[y] = a[y]
        /\ \A y \in 1..Len(b) : n[Len(a) + y] = b[y]
    <3>1. /\ Len(a \o b) = Len(a) + Len(b)
          /\ \A y \in 1..Len(a) : (a \o b)[y] = a[y]
          /\ \A y \in 1..Len(b) : (a \o b)[Len(a) + y] = b[y]
      BY <2>5, <2>6, ConcatParts
    <3>. QED BY <2>4, <3>1
  <2>8. ASSUME NEW y \in 1..Len(n)
        PROVE  \/ y \in 1..Len(l) /\ n[y] = l[y]
               \/ \E x \in 1..Len(es) : y = prev + x /\ n[y] = es[x]
    <3>1. CASE y <= prev + k - 1
      <4>1. y \in 1..(prev + k - 1) /\ y \in 1..Len(l)
        BY <1>1, <2>3, <2>5, <2>6, <2>7, <3>1
      <4>. QED BY <2>5, <2>7, <4>1
    <3>2. CASE y > prev + k - 1
      <4>1. PICK z \in 1..(Len(es) - k + 1) : y = Len(a) + z
        <5>1. y - (prev + k - 1) \in 1..(Len(es) - k + 1) /\ y = Len(a) + (y - (prev + k - 1))
          BY <1>1, <2>5, <2>6, <2>7, <3>2
        <5>. QED BY <5>1
      <4>2. n[y] = es[k + z - 1]
        BY <2>6, <2>7, <4>1
      <4>3. k + z - 1 \in 1..Len(es) /\ y = prev + (k + z - 1)
        BY <1>1, <2>5, <4>1
      <4>. QED BY <4>2, <4>3
    <3>. QED BY <1>1, <2>5, <2>6, <2>7, <3>1, <3>2
  <2>. QED BY <2>8
<1>. QED BY <1>2, <1>3

\* A step that changes no log and proposes nothing.
LEMMA LogsProposedKept ==
    ASSUME LogsProposed, log' = log, proposed \subseteq proposed'
    PROVE  LogsProposed'
BY DEF LogsProposed

\* A step that makes no call.
LEMMA CallsProposedKept ==
    ASSUME CallsProposed, Sent' \subseteq Sent, proposed \subseteq proposed'
    PROVE  CallsProposed'
<1>. SUFFICES ASSUME NEW m \in Sent', NEW k \in 1..Len(m.entries)
     PROVE  <<m.prevLogIndex + k, m.entries[k]>> \in proposed'
  BY DEF CallsProposed
<1>. QED BY DEF CallsProposed

\* Start() puts on the log what it proposes.
LEMMA StartProposes ==
    ASSUME RaftInv, RaftInv', LogInv, NEW i \in Server, NEW v \in Value, StartAt(i, v)
    PROVE  /\ ProposedFit' /\ LogsProposed' /\ CallsProposed'
           /\ Len(log[i]) + 1 \in 1..MaxLog
           /\ [term |-> currentTerm[i], command |-> v] \in [term : 1..MaxTerm, command : Value]
<1>. DEFINE e == [term |-> currentTerm[i], command |-> v]
            n == Len(log[i]) + 1
<1>1. TypeInv /\ VoteInv /\ TypeOK /\ Start(i, v) /\ proposed' = proposed \cup {<<n, e>>}
      /\ TermsFit /\ ProposedFit /\ LogsProposed /\ CallsProposed
  BY DEF RaftInv, TypeInv, StartAt, LogInv
<1>2. state[i] = Leader /\ Len(log[i]) < MaxLog /\ log' = [log EXCEPT ![i] = Append(@, e)]
  BY <1>1 DEF Start
<1>3. e \in [term : 1..MaxTerm, command : Value]
  BY <1>1, <1>2, LeaderTerm
<1>4. /\ log[i] \in Seq(Entry) /\ log'[i] \in Seq(Entry) /\ Len(log'[i]) = n
      /\ \A y \in 1..Len(log[i]) : log'[i][y] = log[i][y]
      /\ \A j \in Server \ {i} : log'[j] = log[j]
  BY <1>1, StartFacts
<1>5. log'[i][n] = e
  <2>1. log'[i] = Append(log[i], e)
    BY <1>1, <1>2 DEF TypeOK
  <2>. QED BY <1>4, <2>1
<1>. HIDE DEF e
<1>6. Len(log[i]) \in Nat /\ n \in 1..MaxLog
  BY <1>2, <1>4, BoundAssumption
<1>7. ProposedFit'
  BY <1>1, <1>3, <1>6 DEF ProposedFit
<1>8. ASSUME NEW j \in Server, NEW k \in 1..Len(log'[j]) PROVE <<k, log'[j][k]>> \in proposed'
  <2>1. CASE j # i
    BY <1>1, <1>4, <2>1 DEF LogsProposed
  <2>2. CASE j = i /\ k = n
    BY <1>1, <1>5, <2>2
  <2>3. CASE j = i /\ k # n
    <3>1. k \in 1..Len(log[i])
      BY <1>4, <1>6, <2>3
    <3>. QED BY <1>1, <1>4, <2>3, <3>1 DEF LogsProposed
  <2>. QED BY <2>1, <2>2, <2>3
<1>9. LogsProposed'
  BY <1>8 DEF LogsProposed
<1>10. CallsProposed'
  <2>1. Sent' \subseteq Sent
    BY <1>1, NothingSent
  <2>. QED BY <1>1, <2>1, CallsProposedKept
<1>. QED BY <1>3, <1>6, <1>7, <1>9, <1>10 DEF e

\* A call carries a piece of the leader's log.
LEMMA SendProposed ==
    ASSUME RaftInv, RaftInv', LogsProposed, CallsProposed, proposed' = proposed,
           NEW i \in Server, NEW j \in Server, SendAppendEntries(i, j)
    PROVE  CallsProposed'
<1>. SUFFICES ASSUME NEW m \in Sent', NEW k \in 1..Len(m.entries)
     PROVE  <<m.prevLogIndex + k, m.entries[k]>> \in proposed
  BY DEF CallsProposed
<1>1. CASE m \in Sent
  BY <1>1 DEF CallsProposed
<1>2. CASE m \notin Sent
  <2>1. PieceOf(m, log[i]) /\ m.prevLogIndex + Len(m.entries) = Len(log[i])
    BY <1>2, SendPiece DEF RaftInv
  <2>2. PICK p \in Nat, n \in Nat : p = m.prevLogIndex /\ n = Len(m.entries)
    <3>1. TypeOK'
      BY DEF RaftInv, TypeInv
    <3>2. m.prevLogIndex \in Nat /\ m.entries \in Seq(Entry)
      BY <3>1 DEF Sent, TypeOK, AppendEntriesArgs, AppendEntriesReplies
    <3>. QED BY <3>2
  <2>3. m.entries[k] = log[i][p + k] /\ p + k \in 1..Len(log[i])
    BY <2>1, <2>2 DEF PieceOf
  <2>. QED BY <2>2, <2>3 DEF LogsProposed
<1>. QED BY <1>1, <1>2

\* AppendEntries only brings in what was proposed.
LEMMA AppendProposed ==
    ASSUME RaftInv, RaftInv', LogsProposed, CallsProposed, proposed' = proposed,
           NEW m \in appendCalls, AppendEntries(m)
    PROVE  LogsProposed'
<1>1. CASE ~Accepts(m)
  BY <1>1, AppendFacts, LogsProposedKept
<1>2. CASE Accepts(m)
  <2>1. /\ m \in Sent /\ m.to \in Server /\ m.prevLogIndex \in Nat /\ m.entries \in Seq(Entry)
        /\ \A j \in Server \ {m.to} : log'[j] = log[j]
    BY AppendFacts
  <2>2. TypeOK /\ log[m.to] \in Seq(Entry)
    BY <2>1 DEF RaftInv, TypeInv, TypeOK
  <2>3. m.prevLogIndex \in 0..Len(log[m.to])
    BY <1>2, <2>1, <2>2 DEF Accepts, HasPrev
  <2>4. log'[m.to] = MergeEntries(log[m.to], m.prevLogIndex, m.entries)
    <3>1. log' = [log EXCEPT ![m.to] =
                     IF Accepts(m) THEN MergeEntries(@, m.prevLogIndex, m.entries) ELSE @]
      BY Zenon DEF AppendEntries, Accepts
    <3>. QED BY <1>2, <2>1, <2>2, <3>1 DEF TypeOK
  <2>5. ASSUME NEW j \in Server, NEW y \in 1..Len(log'[j]) PROVE <<y, log'[j][y]>> \in proposed'
    <3>1. CASE j # m.to
      BY <2>1, <3>1 DEF LogsProposed
    <3>2. CASE j = m.to
      <4>1. \/ y \in 1..Len(log[j]) /\ log'[j][y] = log[j][y]
            \/ \E x \in 1..Len(m.entries) : y = m.prevLogIndex + x /\ log'[j][y] = m.entries[x]
        <5>1. PICK l, es, prev, n :
                  /\ l = log[j] /\ es = m.entries /\ prev = m.prevLogIndex /\ n = log'[j]
          OBVIOUS
        <5>2. l \in Seq(Entry) /\ es \in Seq(Entry) /\ prev \in Nat /\ prev <= Len(l)
          BY <2>1, <2>2, <2>3, <3>2, <5>1
        <5>3. MadeOf(MergeEntries(l, prev, es), l, prev, es)
          BY <5>2, MergeSource
        <5>4. n = MergeEntries(l, prev, es)
          BY <2>4, <3>2, <5>1
        <5>5. MadeOf(n, l, prev, es)
          BY <5>3, <5>4
        <5>. QED BY <5>1, <5>5 DEF MadeOf
      <4>. QED BY <2>1, <4>1 DEF LogsProposed, CallsProposed
    <3>. QED BY <3>1, <3>2
  <2>. QED BY <2>5 DEF LogsProposed
<1>. QED BY <1>1, <1>2

-----------------------------------------------------------------------------
(* What is applied, and how far.                                             *)

\* Only the apply loop and a crash can be seen by the service.
LEMMA InvisibleSteps ==
    ASSUME [Next]_vars
    PROVE  \/ \E i \in Server : ApplyLoop(i)
           \/ \E S \in RestartGroups : Restart(S)
           \/ UNCHANGED <<applied, lastApplied, restarts>>
<1>1. CASE \/ \E i \in Server : StartElection(i)
           \/ \E m \in voteCalls : RequestVote(m)
           \/ \E r \in voteReplies : RequestVoteReply(r)
  BY <1>1 DEF StartElection, RequestVote, RequestVoteReply
<1>2. CASE \/ \E i \in Server, v \in Value : Start(i, v)
           \/ \E i, j \in Server : i # j /\ SendAppendEntries(i, j)
           \/ LoseCall
           \/ UNCHANGED vars
  BY <1>2 DEF Start, SendAppendEntries, LoseCall, historyVars, vars
<1>3. CASE \/ \E m \in appendCalls : AppendEntries(m)
           \/ \E r \in appendReplies : AppendEntriesReply(r)
  BY <1>3, Zenon DEF AppendEntries, AppendEntriesReply, historyVars
<1>. QED BY <1>1, <1>2, <1>3 DEF Next, Ticker, DebugForceElection

\* A matchIndex that was used again stays used again.
LEMMA ReusedForever ==
    ASSUME [Next]_vars, ~reusedMatch'
    PROVE  ~reusedMatch
<1>1. CASE \/ \E i \in Server : StartElection(i)
           \/ \E m \in voteCalls : RequestVote(m)
  BY <1>1 DEF StartElection, RequestVote
<1>2. CASE \E r \in voteReplies : RequestVoteReply(r)
  BY <1>2 DEF RequestVoteReply, BecomeLeader
<1>3. CASE \/ \E i \in Server, v \in Value : Start(i, v)
           \/ \E i, j \in Server : i # j /\ SendAppendEntries(i, j)
           \/ \E i \in Server : ApplyLoop(i)
           \/ LoseCall
           \/ \E S \in RestartGroups : Restart(S)
           \/ UNCHANGED vars
  BY <1>3 DEF Start, SendAppendEntries, ApplyLoop, LoseCall, Restart, Reload, historyVars, vars
<1>4. CASE \/ \E m \in appendCalls : AppendEntries(m)
           \/ \E r \in appendReplies : AppendEntriesReply(r)
  BY <1>4, Zenon DEF AppendEntries, AppendEntriesReply, historyVars
<1>. QED BY <1>1, <1>2, <1>3, <1>4 DEF Next, Ticker, DebugForceElection

\* commitIndex lies inside the log, and the log within its bound.
LEMMA CommitWithin ==
    ASSUME SafetyInv, ProposedFit, LogsProposed, NEW i \in Server
    PROVE  /\ Len(log[i]) <= MaxLog
           /\ ~reusedMatch => commitIndex[i] <= Len(log[i])
<1>1. TypeOK /\ CommittedUnlessReused
  BY SettledReplicated DEF SafetyInv, RaftInv, TypeInv
<1>2. log[i] \in Seq(Entry) /\ Len(log[i]) \in Nat /\ commitIndex[i] \in Nat
  BY <1>1 DEF TypeOK
<1>3. Len(log[i]) <= MaxLog
  <2>1. CASE Len(log[i]) = 0
    BY <2>1, BoundAssumption
  <2>2. CASE Len(log[i]) # 0
    <3>1. Len(log[i]) \in 1..Len(log[i])
      BY <1>2, <2>2
    <3>2. <<Len(log[i]), log[i][Len(log[i])]>> \in proposed
      BY <3>1 DEF LogsProposed
    <3>3. Len(log[i]) \in 1..MaxLog
      BY <3>2 DEF ProposedFit
    <3>. QED BY <3>3, BoundAssumption
  <2>. QED BY <2>1, <2>2
<1>4. ASSUME ~reusedMatch PROVE commitIndex[i] <= Len(log[i])
  <2>1. CASE commitIndex[i] = 0
    BY <1>2, <2>1
  <2>2. CASE commitIndex[i] # 0
    <3>1. commitIndex[i] \in 1..commitIndex[i]
      BY <1>2, <2>2
    <3>. QED BY <1>1, <1>4, <3>1 DEF CommittedUnlessReused, CommittedIsReplicated
  <2>. QED BY <2>1, <2>2
<1>. QED BY <1>3, <1>4

\* Nobody applies what is not committed, or forgets that it is.
LEMMA AppliedBehindNext ==
    ASSUME SafetyInv, SafetyInv', AppliedBehind, [Next]_vars
    PROVE  AppliedBehind'
<1>. SUFFICES ASSUME ~reusedMatch', NEW i \in Server
     PROVE  lastApplied'[i] <= commitIndex'[i]
  BY DEF AppliedBehind
<1>1. TypeOK /\ TypeOK' /\ RaftInv'
  BY DEF SafetyInv, RaftInv, TypeInv
<1>2. ~reusedMatch
  BY ReusedForever
<1>3. /\ lastApplied[i] \in Nat /\ commitIndex[i] \in Nat
      /\ lastApplied'[i] \in Nat /\ commitIndex'[i] \in Nat /\ lastApplied[i] <= commitIndex[i]
  BY <1>1, <1>2 DEF TypeOK, AppliedBehind
<1>4. ASSUME NEW j \in Server, ApplyLoop(j) PROVE lastApplied'[i] <= commitIndex'[i]
  <2>1. lastApplied' = [lastApplied EXCEPT ![j] = commitIndex[j]] /\ commitIndex' = commitIndex
    BY <1>4 DEF ApplyLoop
  <2>2. lastApplied'[i] = lastApplied[i] \/ lastApplied'[i] = commitIndex[i]
    BY <1>1, <2>1 DEF TypeOK
  <2>. QED BY <1>3, <2>1, <2>2
<1>5. ASSUME NEW S \in RestartGroups, Restart(S) PROVE lastApplied'[i] <= commitIndex'[i]
  BY <1>3, <1>5 DEF Restart, Reload
<1>6. CASE UNCHANGED <<applied, lastApplied, restarts>>
  <2>1. commitIndex'[i] >= commitIndex[i]
    BY <1>1, <1>2, <1>6, CommitForward
  <2>2. lastApplied'[i] = lastApplied[i]
    BY <1>6
  <2>. QED BY <1>3, <2>1, <2>2
<1>. QED BY <1>4, <1>5, <1>6, InvisibleSteps

\* The indices that the apply loop of peer i reaches.
LEMMA ApplyReaches ==
    ASSUME SafetyInv, LogInv, ~reusedMatch, NEW i \in Server, ApplyLoop(i),
           NEW n \in 0..MaxLog, {a[1] : a \in applied} = 1..n,
           \A j \in Server : lastApplied[j] <= n
    PROVE  LET c == commitIndex[i]
               p == IF c > n THEN c ELSE n
           IN  /\ c \in 1..MaxLog /\ c <= Len(log[i]) /\ p \in 0..MaxLog
               /\ {a[1] : a \in applied'} = 1..p
               /\ \A j \in Server : lastApplied'[j] <= p
<1>. DEFINE c == commitIndex[i]
            p == IF c > n THEN c ELSE n
<1>1. TypeOK /\ c \in Nat /\ lastApplied[i] \in Nat /\ lastApplied[i] <= n /\ log[i] \in Seq(Entry)
  BY DEF SafetyInv, RaftInv, TypeInv, TypeOK
<1>2. /\ c > lastApplied[i]
      /\ lastApplied' = [lastApplied EXCEPT ![i] = c]
      /\ applied' = applied \cup {<<k, log[i][k]>> : k \in (lastApplied[i] + 1)..c}
  BY DEF ApplyLoop
<1>3. c \in 1..MaxLog /\ c <= Len(log[i]) /\ p \in 0..MaxLog
  <2>1. c <= Len(log[i]) /\ Len(log[i]) <= MaxLog
    BY CommitWithin DEF LogInv
  <2>. QED BY <1>1, <1>2, <2>1, BoundAssumption
<1>. HIDE DEF c
<1>4. ASSUME NEW a \in applied' PROVE a[1] \in 1..p
  <2>1. CASE a \in applied
    <3>1. a[1] \in 1..n
      BY <2>1
    <3>. QED BY <1>1, <3>1
  <2>2. CASE a \notin applied
    BY <1>1, <1>2, <2>2
  <2>. QED BY <2>1, <2>2
<1>5. ASSUME NEW k \in 1..p PROVE \E a \in applied' : a[1] = k
  <2>1. CASE k <= n
    <3>1. k \in {a[1] : a \in applied}
      <4>1. k \in 1..n
        BY <2>1
      <4>. QED BY <4>1
    <3>. QED BY <1>2, <3>1
  <2>2. CASE k > n
    <3>1. k \in (lastApplied[i] + 1)..c
      BY <1>1, <2>2
    <3>2. <<k, log[i][k]>> \in applied'
      BY <1>2, <3>1
    <3>. QED BY <3>2
  <2>. QED BY <1>1, <2>1, <2>2
<1>6. {a[1] : a \in applied'} = 1..p
  BY <1>4, <1>5
<1>7. ASSUME NEW j \in Server PROVE lastApplied'[j] <= p
  <2>1. lastApplied[j] \in Nat /\ lastApplied[j] <= n
    BY <1>1 DEF TypeOK
  <2>2. lastApplied'[j] = lastApplied[j] \/ lastApplied'[j] = c
    BY <1>1, <1>2 DEF TypeOK
  <2>. QED BY <1>1, <2>1, <2>2
<1>. QED BY <1>3, <1>6, <1>7 DEF c

\* What is applied has no gaps.
LEMMA AppliedWholeNext ==
    ASSUME SafetyInv, LogInv, [Next]_vars
    PROVE  AppliedWhole'
<1>. SUFFICES ASSUME ~reusedMatch'
     PROVE  \E p \in 0..MaxLog : /\ {a[1] : a \in applied'} = 1..p
                                 /\ \A j \in Server : lastApplied'[j] <= p
  BY DEF AppliedWhole
<1>1. ~reusedMatch
  BY ReusedForever
<1>2. PICK n \in 0..MaxLog : /\ {a[1] : a \in applied} = 1..n
                             /\ \A j \in Server : lastApplied[j] <= n
  BY <1>1 DEF LogInv, AppliedWhole
<1>3. ASSUME NEW i \in Server, ApplyLoop(i)
      PROVE  \E p \in 0..MaxLog : /\ {a[1] : a \in applied'} = 1..p
                                  /\ \A j \in Server : lastApplied'[j] <= p
  <2>. DEFINE p == IF commitIndex[i] > n THEN commitIndex[i] ELSE n
  <2>1. /\ p \in 0..MaxLog /\ {a[1] : a \in applied'} = 1..p
        /\ \A j \in Server : lastApplied'[j] <= p
    BY <1>1, <1>2, <1>3, ApplyReaches
  <2>. HIDE DEF p
  <2>. QED BY <2>1
<1>4. ASSUME NEW S \in RestartGroups, Restart(S)
      PROVE  applied' = applied /\ \A j \in Server : lastApplied'[j] <= n
  <2>1. applied' = applied
    BY <1>4 DEF Restart, Reload, historyVars
  <2>2. \A j \in Server : lastApplied'[j] = 0 \/ lastApplied'[j] = lastApplied[j]
    BY <1>4 DEF Restart, Reload
  <2>3. 0 <= n
    BY BoundAssumption
  <2>. QED BY <1>2, <2>1, <2>2, <2>3
<1>5. CASE UNCHANGED <<applied, lastApplied, restarts>>
  BY <1>2, <1>5
<1>. QED BY <1>2, <1>3, <1>4, <1>5, InvisibleSteps

\* LogNext takes the steps of the group, and remembers what Start() took.
LEMMA LogNextIsNext ==
    ASSUME [LogNext]_raftLogVars
    PROVE  /\ [Next]_vars
           /\ (\E i \in Server, v \in Value : StartAt(i, v)) \/ proposed' = proposed
BY DEF LogNext, StartAt, Internal, Next, raftLogVars

LEMMA LogInvNext ==
    ASSUME SafetyInv, SafetyInv', LogInv, [LogNext]_raftLogVars
    PROVE  LogInv'
<1>1. [Next]_vars /\ RaftInv /\ RaftInv' /\ TypeInv /\ TypeInv' /\ TypeOK
  BY LogNextIsNext DEF SafetyInv, RaftInv, TypeInv
<1>2. TermsFit' /\ AppliedBehind' /\ AppliedWhole'
  BY <1>1, TermsFitNext, AppliedBehindNext, AppliedWholeNext DEF LogInv
<1>3. ProposedFit /\ LogsProposed /\ CallsProposed
  BY DEF LogInv
<1>4. ProposedFit' /\ LogsProposed' /\ CallsProposed'
  <2>1. ASSUME NEW i \in Server, NEW v \in Value, StartAt(i, v)
        PROVE  ProposedFit' /\ LogsProposed' /\ CallsProposed'
    BY <1>1, <2>1, StartProposes
  <2>2. ASSUME UNCHANGED proposed, log' = log, Sent' \subseteq Sent
        PROVE  ProposedFit' /\ LogsProposed' /\ CallsProposed'
    <3>1. ProposedFit'
      BY <1>3, <2>2 DEF ProposedFit
    <3>2. LogsProposed' /\ CallsProposed'
      BY <1>3, <2>2, LogsProposedKept, CallsProposedKept
    <3>. QED BY <3>1, <3>2
  <2>3. ASSUME UNCHANGED proposed,
               \/ \E i \in Server : StartElection(i)
               \/ \E m \in voteCalls : RequestVote(m)
               \/ \E r \in voteReplies : RequestVoteReply(r)
        PROVE  ProposedFit' /\ LogsProposed' /\ CallsProposed'
    <3>1. Sent' \subseteq Sent
      BY <2>3, NothingSent
    <3>2. log' = log
      BY <2>3 DEF StartElection, RequestVote, RequestVoteReply, StepDown, durableVars
    <3>. QED BY <2>2, <2>3, <3>1, <3>2
  <2>4. ASSUME UNCHANGED proposed, NEW i \in Server, NEW j \in Server, i # j, SendAppendEntries(i, j)
        PROVE  ProposedFit' /\ LogsProposed' /\ CallsProposed'
    <3>1. CallsProposed'
      BY <1>1, <1>3, <2>4, SendProposed
    <3>2. log' = log
      BY <2>4 DEF SendAppendEntries, durableVars
    <3>3. ProposedFit' /\ LogsProposed'
      BY <1>3, <2>4, <3>2, LogsProposedKept DEF ProposedFit
    <3>. QED BY <3>1, <3>3
  <2>5. ASSUME UNCHANGED proposed, NEW m \in appendCalls, AppendEntries(m)
        PROVE  ProposedFit' /\ LogsProposed' /\ CallsProposed'
    <3>1. LogsProposed'
      BY <1>1, <1>3, <2>5, AppendProposed
    <3>2. Sent' \subseteq Sent
      BY <2>5, NothingSent
    <3>3. ProposedFit' /\ CallsProposed'
      BY <1>3, <2>5, <3>2, CallsProposedKept DEF ProposedFit
    <3>. QED BY <3>1, <3>3
  <2>6. ASSUME UNCHANGED proposed,
               \/ \E r \in appendReplies : AppendEntriesReply(r)
               \/ \E i \in Server : ApplyLoop(i)
               \/ LoseCall
               \/ \E S \in RestartGroups : Restart(S)
               \/ UNCHANGED vars
        PROVE  ProposedFit' /\ LogsProposed' /\ CallsProposed'
    <3>1. Sent' \subseteq Sent
      BY <2>6, NothingSent
    <3>2. log' = log
      BY <1>1, <2>6, OthersSteady
    <3>. QED BY <2>2, <2>6, <3>1, <3>2
  <2>7. ASSUME Internal, UNCHANGED proposed
        PROVE  ProposedFit' /\ LogsProposed' /\ CallsProposed'
    BY <2>3, <2>4, <2>5, <2>6, <2>7 DEF Internal, Ticker, DebugForceElection
  <2>. QED BY <2>1, <2>6, <2>7 DEF LogNext, raftLogVars
<1>. QED BY <1>2, <1>4 DEF LogInv

\* The invariant of the group holds with the history of Start() beside it.
THEOREM LogInvariant == LogSpec => [](SafetyInv /\ LogInv)
<1>1. LogInit => Init
  BY DEF LogInit
<1>2. [LogNext]_raftLogVars => [Next]_vars
  BY LogNextIsNext
<1>3. LogSpec => Spec
  BY <1>1, <1>2, PTL DEF LogSpec, Spec
<1>4. LogSpec => []SafetyInv
  BY <1>3, SafetyInvariant, PTL
<1>5. SafetyInv /\ SafetyInv' /\ LogInv /\ [LogNext]_raftLogVars => LogInv'
  BY LogInvNext
<1>. QED BY <1>4, <1>5, LogInvInit, PTL DEF LogSpec

-----------------------------------------------------------------------------
(* The mapping.                                                              *)

\* The log the service sees.
Chosen == [k \in {a[1] : a \in applied} |-> AppliedAt(k)]

\* As long as what is applied is unique, it is what the mapping finds.
LEMMA AppliedAtIs ==
    ASSUME \A a, b \in applied : a[1] = b[1] => a = b,
           NEW k, NEW e, <<k, e>> \in applied
    PROVE  AppliedAt(k) = e
<1>1. e \in {a[2] : a \in applied}
  <2>1. <<k, e>>[2] = e
    OBVIOUS
  <2>. QED BY <2>1
<1>2. ASSUME NEW d, <<k, d>> \in applied PROVE d = e
  <2>1. <<k, d>> = <<k, e>>
    BY <1>2
  <2>. QED BY <2>1
<1>. QED BY <1>1, <1>2 DEF AppliedAt

\* What is applied are pairs of an index and an entry.
LEMMA AppliedPairs == SafetyInv /\ ~reusedMatch => \A a \in applied : a = <<a[1], a[2]>>
<1>. SUFFICES ASSUME NEW H, NEW A, SafeHistory(H, A), ~reusedMatch, NEW a \in applied
     PROVE  a = <<a[1], a[2]>>
  BY DEF SafetyInv
<1>1. AppliedIn(H, A, a)
  BY DEF SafeHistory, MatchHistory, AppliedSettled
<1>2. PICK k, e : a = <<k, e>>
  BY <1>1 DEF AppliedIn
<1>. QED BY <1>2

\* The log the service sees has an entry at every index that was reached, the one
\* that was applied there.
ChosenFits ==
    ~reusedMatch =>
        \A n \in Nat : {a[1] : a \in applied} = 1..n =>
            /\ Chosen \in Seq({a[2] : a \in applied})
            /\ Len(Chosen) = n
            /\ \A k \in 1..n : <<k, Chosen[k]>> \in applied
            /\ \A a \in applied : a[1] \in 1..n /\ Chosen[a[1]] = a[2]

\* Such a log exists in every reachable state.
LEMMA ChosenLog == SafetyInv => ChosenFits
<1>. SUFFICES ASSUME SafetyInv, ~reusedMatch, NEW n \in Nat, {a[1] : a \in applied} = 1..n
     PROVE  /\ Chosen \in Seq({a[2] : a \in applied})
            /\ Len(Chosen) = n
            /\ \A k \in 1..n : <<k, Chosen[k]>> \in applied
            /\ \A a \in applied : a[1] \in 1..n /\ Chosen[a[1]] = a[2]
  BY DEF ChosenFits
<1>. DEFINE U == {a[2] : a \in applied}
<1>1. (\A a, b \in applied : a[1] = b[1] => a = b) /\ \A a \in applied : a = <<a[1], a[2]>>
  BY AppliedAgree, AppliedPairs DEF AppliedUnlessReused
<1>2. Chosen = [k \in 1..n |-> AppliedAt(k)]
  BY DEF Chosen
<1>3. ASSUME NEW a \in applied PROVE a[1] \in 1..n /\ AppliedAt(a[1]) = a[2]
  <2>1. a[1] \in 1..n
    OBVIOUS
  <2>2. <<a[1], a[2]>> \in applied
    BY <1>1
  <2>. QED BY <1>1, <2>1, <2>2, AppliedAtIs
<1>4. ASSUME NEW k \in 1..n PROVE AppliedAt(k) \in U /\ <<k, AppliedAt(k)>> \in applied
  <2>1. PICK a \in applied : a[1] = k
    <3>1. k \in {a[1] : a \in applied}
      OBVIOUS
    <3>. QED BY <3>1
  <2>2. AppliedAt(k) = a[2] /\ a = <<k, a[2]>>
    BY <1>1, <1>3, <2>1
  <2>. QED BY <2>2
<1>. HIDE DEF U
<1>5. Chosen \in [1..n -> U]
  BY <1>2, <1>4
<1>6. Chosen \in Seq(U) /\ Len(Chosen) = n
  <2>1. Chosen \in Seq(U)
    BY <1>5, SeqDef
  <2>2. DOMAIN Chosen = 1..n /\ DOMAIN Chosen = 1..Len(Chosen) /\ Len(Chosen) \in Nat
    BY <1>5, <2>1
  <2>. QED BY <2>1, <2>2
<1>7. \A k \in 1..n : Chosen[k] = AppliedAt(k)
  BY <1>2
<1>. QED BY <1>3, <1>4, <1>6, <1>7 DEF U

\* A longer log is the shorter one and the rest.
LEMMA LogExtended ==
    ASSUME NEW U, NEW c \in Seq(U), NEW d \in Seq(U), NEW s \in Seq(U), Len(d) = Len(c) + Len(s),
           \A k \in 1..Len(c) : d[k] = c[k], \A k \in 1..Len(s) : d[Len(c) + k] = s[k]
    PROVE  d = c \o s
<1>1. /\ c \o s \in Seq(U) /\ Len(c \o s) = Len(c) + Len(s)
      /\ \A k \in 1..(Len(c) + Len(s)) : (c \o s)[k] = IF k <= Len(c) THEN c[k] ELSE s[k - Len(c)]
  BY ConcatProperties
<1>2. Len(c) \in Nat /\ Len(s) \in Nat
  OBVIOUS
<1>3. ASSUME NEW k \in 1..Len(d) PROVE d[k] = (c \o s)[k]
  <2>1. CASE k <= Len(c)
    <3>1. k \in 1..Len(c) /\ k \in 1..(Len(c) + Len(s))
      BY <1>2, <2>1
    <3>. QED BY <1>1, <2>1, <3>1
  <2>2. CASE ~(k <= Len(c))
    <3>1. PICK z \in 1..Len(s) : k = Len(c) + z
      <4>1. k - Len(c) \in 1..Len(s) /\ k = Len(c) + (k - Len(c))
        BY <1>2, <2>2
      <4>. QED BY <4>1
    <3>2. k - Len(c) = z
      BY <1>2, <3>1
    <3>. QED BY <1>1, <2>2, <3>1, <3>2
  <2>. QED BY <2>1, <2>2
<1>. QED BY <1>1, <1>3, SeqEqual

\* Start() is Start of the replicated log.
LEMMA StartMaps ==
    ASSUME SafetyInv, SafetyInv', LogInv, ~reusedMatch',
           NEW i \in Server, NEW v \in Value, StartAt(i, v)
    PROVE  Promise!LogNext
<1>. DEFINE e == [term |-> currentTerm[i], command |-> v]
            n == Len(log[i]) + 1
<1>1. /\ RaftInv /\ RaftInv' /\ TypeOK /\ Start(i, v)
      /\ proposed' = proposed \cup {<<n, e>>}
  BY DEF SafetyInv, RaftInv, TypeInv, StartAt
<1>2. UNCHANGED <<applied, lastApplied, reusedMatch>> /\ log[i] \in Seq(Entry)
  BY <1>1, StartFacts
<1>3. n \in 1..MaxLog /\ e \in [term : 1..MaxTerm, command : Value]
  BY <1>1, StartProposes
<1>. HIDE DEF e
<1>4. lastApplied[i] \in Nat /\ lastApplied[i] <= Len(log[i])
  <2>1. lastApplied[i] <= commitIndex[i] /\ commitIndex[i] <= Len(log[i])
    BY <1>2, CommitWithin DEF LogInv, AppliedBehind
  <2>2. lastApplied[i] \in Nat /\ commitIndex[i] \in Nat /\ Len(log[i]) \in Nat
    BY <1>1, <1>2 DEF TypeOK
  <2>. QED BY <2>1, <2>2
<1>5. n \in (lastApplied[i] + 1)..MaxLog
  BY <1>2, <1>3, <1>4, BoundAssumption
<1>6. n = 1 \/ \E p \in proposed : p[1] = n - 1
  <2>1. CASE Len(log[i]) = 0
    BY <2>1
  <2>2. CASE Len(log[i]) # 0
    <3>1. Len(log[i]) \in 1..Len(log[i]) /\ n - 1 = Len(log[i])
      BY <1>2, <2>2
    <3>2. <<Len(log[i]), log[i][Len(log[i])]>> \in proposed
      BY <3>1 DEF LogInv, LogsProposed
    <3>. QED BY <3>1, <3>2
  <2>. QED BY <2>1, <2>2
<1>. HIDE DEF n
<1>7. Chosen' = Chosen
  BY <1>2 DEF Chosen, AppliedAt
<1>8. Promise!Start(i, e, n)
  BY <1>1, <1>2, <1>5, <1>6, <1>7, Zenon DEF Promise!Start, Chosen
<1>. QED BY <1>3, <1>8, Zenon DEF Promise!LogNext

\* A restart of some peers is a restart of the replicated log.
LEMMA RestartMaps ==
    ASSUME proposed' = proposed, NEW S \in RestartGroups, Restart(S)
    PROVE  Promise!LogNext
<1>1. /\ applied' = applied
      /\ lastApplied' = [i \in Server |-> IF i \in S THEN 0 ELSE lastApplied[i]]
  BY DEF Restart, Reload, historyVars
<1>2. Chosen' = Chosen
  BY <1>1 DEF Chosen, AppliedAt
<1>3. Promise!Restart(S)
  BY <1>1, <1>2, Zenon DEF Promise!Restart, Chosen
<1>4. S \in SUBSET Server
  BY ServerAssumption
<1>. QED BY <1>3, <1>4, Zenon DEF Promise!LogNext

\* The apply loop delivers up to commitIndex, and chooses what no peer had reached.
LEMMA ApplyMaps ==
    ASSUME SafetyInv, SafetyInv', LogInv, ~reusedMatch', proposed' = proposed,
           NEW i \in Server, ApplyLoop(i)
    PROVE  Promise!LogNext
<1>. DEFINE E == [term : 1..MaxTerm, command : Value]
<1>1. /\ reusedMatch' = reusedMatch /\ ~reusedMatch
      /\ commitIndex[i] > lastApplied[i]
      /\ lastApplied' = [lastApplied EXCEPT ![i] = commitIndex[i]]
      /\ applied' = applied \cup {<<k, log[i][k]>> : k \in (lastApplied[i] + 1)..commitIndex[i]}
  BY DEF ApplyLoop
<1>2. PICK n \in 0..MaxLog : /\ {a[1] : a \in applied} = 1..n
                             /\ \A j \in Server : lastApplied[j] <= n
  BY <1>1 DEF LogInv, AppliedWhole
<1>3. PICK c : c = commitIndex[i]
  OBVIOUS
<1>4. PICK p : p = IF c > n THEN c ELSE n
  OBVIOUS
<1>5. /\ c \in 1..MaxLog /\ c <= Len(log[i]) /\ p \in 0..MaxLog
      /\ {a[1] : a \in applied'} = 1..p
  BY <1>1, <1>2, <1>3, <1>4, ApplyReaches
<1>6. TypeOK /\ lastApplied[i] \in Nat /\ lastApplied[i] <= n /\ log[i] \in Seq(Entry)
      /\ n \in Nat /\ c \in Nat /\ p \in Nat
  <2>1. TypeOK
    BY DEF SafetyInv, RaftInv, TypeInv
  <2>2. lastApplied[i] \in Nat /\ log[i] \in Seq(Entry)
    BY <2>1 DEF TypeOK
  <2>3. lastApplied[i] <= n
    BY <1>2
  <2>4. n \in Nat /\ c \in Nat /\ p \in Nat
    BY <1>2, <1>5, BoundAssumption
  <2>. QED BY <2>1, <2>2, <2>3, <2>4
<1>7. /\ Chosen \in Seq({a[2] : a \in applied}) /\ Len(Chosen) = n
      /\ \A k \in 1..n : <<k, Chosen[k]>> \in applied
  BY <1>1, <1>2, <1>6, ChosenLog DEF ChosenFits
<1>8. /\ Chosen' \in Seq({a[2] : a \in applied'}) /\ Len(Chosen') = p
      /\ \A a \in applied' : Chosen'[a[1]] = a[2]
  <2>1. SafetyInv' => ChosenFits'
    BY ChosenLog, PTL
  <2>. QED BY <1>5, <1>6, <2>1 DEF ChosenFits
<1>. DEFINE U == {a[2] : a \in applied'} \cup E
            d == IF c > n THEN c - n ELSE 0
            s == [k \in 1..d |-> log[i][n + k]]
<1>9. d \in Nat /\ p = n + d /\ \A k \in 1..d : n + k \in 1..c /\ n + k >= lastApplied[i] + 1
  BY <1>4, <1>6
<1>10. ASSUME NEW k \in 1..d
       PROVE  /\ <<n + k, log[i][n + k]>> \in proposed /\ log[i][n + k] \in E
              /\ <<n + k, log[i][n + k]>> \in applied'
  <2>1. n + k \in 1..Len(log[i]) /\ n + k \in (lastApplied[i] + 1)..c
    BY <1>5, <1>6, <1>9
  <2>2. <<n + k, log[i][n + k]>> \in proposed
    BY <2>1 DEF LogInv, LogsProposed
  <2>3. log[i][n + k] \in E
    BY <2>2 DEF LogInv, ProposedFit
  <2>. QED BY <1>1, <1>3, <2>1, <2>2, <2>3
<1>. HIDE DEF d, E
<1>11. /\ s \in [1..d -> E] /\ DOMAIN s = 1..d
       /\ \A k \in 1..d : s[k] = log[i][n + k]
  BY <1>10
<1>. HIDE DEF s
<1>12. s \in Seq(U) /\ Len(s) = d
  <2>1. s \in Seq(E)
    BY <1>9, <1>11, SeqDef
  <2>2. DOMAIN s = 1..Len(s) /\ Len(s) \in Nat
    BY <2>1
  <2>. QED BY <1>9, <1>11, <2>1, <2>2
<1>13. Chosen \in Seq(U) /\ Chosen' \in Seq(U)
  <2>1. {a[2] : a \in applied} \subseteq U /\ {a[2] : a \in applied'} \subseteq U
    BY <1>1
  <2>. HIDE DEF U
  <2>. QED BY <1>7, <1>8, <2>1
<1>14. ASSUME NEW k \in 1..n PROVE Chosen'[k] = Chosen[k]
  <2>1. <<k, Chosen[k]>> \in applied'
    BY <1>1, <1>7
  <2>2. PICK a \in applied' : a = <<k, Chosen[k]>>
    BY <2>1
  <2>3. a[1] = k /\ a[2] = Chosen[k]
    BY <2>2
  <2>. QED BY <1>8, <2>3
<1>15. ASSUME NEW k \in 1..d PROVE Chosen'[n + k] = s[k]
  <2>1. PICK a \in applied' : a = <<n + k, log[i][n + k]>>
    BY <1>10
  <2>2. a[1] = n + k /\ a[2] = log[i][n + k]
    BY <2>1
  <2>. QED BY <1>8, <1>11, <2>2
<1>. HIDE DEF U
<1>16. Chosen' = Chosen \o s
  <2>1. PICK x \in Seq(U), y \in Seq(U) : x = Chosen /\ y = Chosen'
    BY <1>13
  <2>2. /\ Len(y) = Len(x) + Len(s) /\ \A k \in 1..Len(x) : y[k] = x[k]
        /\ \A k \in 1..Len(s) : y[Len(x) + k] = s[k]
    BY <1>7, <1>8, <1>9, <1>12, <1>14, <1>15, <2>1
  <2>3. y = x \o s
    BY <1>12, <2>2, LogExtended
  <2>. QED BY <2>1, <2>3
<1>17. d = IF c > Len(Chosen) THEN c - Len(Chosen) ELSE 0
  BY <1>7 DEF d
<1>18. \A k \in DOMAIN s : <<Len(Chosen) + k, s[k]>> \in proposed
  BY <1>7, <1>10, <1>11
<1>19. s \in {z \in [1..(IF c > Len(Chosen) THEN c - Len(Chosen) ELSE 0) -> E] :
                  \A k \in DOMAIN z : <<Len(Chosen) + k, z[k]>> \in proposed}
  BY <1>11, <1>17, <1>18
<1>20. s \in Promise!Choices(c)
  BY <1>19, Zenon DEF Promise!Choices, Chosen, E
<1>21. Promise!Deliver(i, c)
  BY <1>1, <1>3, <1>16, <1>20, Zenon DEF Promise!Deliver, Chosen
<1>. QED BY <1>5, <1>21, Zenon DEF Promise!LogNext

\* The group implements the replicated log that the store is built on: every step of
\* a peer, the network or a crash is Start(), a delivery of chosen entries in order, a
\* restart, or nothing the service can see, until a leader starts with a matchIndex
\* that it did not reset.
THEOREM ImplementsLogCorrect == LogSpec => ImplementsLog
<1>1. ASSUME SafetyInv, SafetyInv', LogInv, [LogNext]_raftLogVars
      PROVE  [~reusedMatch' => Promise!LogNext]_<<proposed, applied, lastApplied>>
  <2>. SUFFICES ASSUME ~reusedMatch', ~UNCHANGED <<proposed, applied, lastApplied>>
       PROVE  Promise!LogNext
    OBVIOUS
  <2>1. CASE \E i \in Server, v \in Value : StartAt(i, v)
    BY <1>1, <2>1, StartMaps
  <2>2. CASE proposed' = proposed
    <3>1. \/ \E i \in Server : ApplyLoop(i)
          \/ \E S \in RestartGroups : Restart(S)
      BY <1>1, <2>2, LogNextIsNext, InvisibleSteps
    <3>. QED BY <1>1, <2>2, <3>1, ApplyMaps, RestartMaps
  <2>. QED BY <1>1, <2>1, <2>2, LogNextIsNext
<1>2. SafetyInv /\ LogInv /\ (SafetyInv /\ LogInv)' /\ [LogNext]_raftLogVars
      => [~reusedMatch' => Promise!LogNext]_<<proposed, applied, lastApplied>>
  BY <1>1
<1>. QED BY <1>2, LogInvariant, PTL DEF LogSpec, ImplementsLog

=============================================================================
