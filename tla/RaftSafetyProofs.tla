-------------------------- MODULE RaftSafetyProofs --------------------------
(***************************************************************************)
(* Log matching, and the safety of what is committed and applied, for every *)
(* group of peers, every set of commands and every value of the bounds.    *)
(*                                                                         *)
(* The inductive invariant speaks of the past: of the log that the leader  *)
(* of each term had, also when that leader has been deposed and its log    *)
(* overwritten, and of how much of it each peer has confirmed in that      *)
(* term.  No variable holds this, so the invariant says that such a        *)
(* history exists, and the proof gives the history after every step.       *)
(***************************************************************************)
EXTENDS RaftProofs

-----------------------------------------------------------------------------
(* Logs that agree, and logs copied from leaders.                            *)

\* l and h both have n entries, and the same ones.
Agree(l, h, n) == n <= Len(l) /\ n <= Len(h) /\ \A y \in 1..n : l[y] = h[y]

\* H is a history, the log of the leader of each term.
Histories == [Nat -> Seq(Entry)]

\* l is copied from leaders: up to each of its entries it is the log of the
\* leader of the term of that entry.
Copied(l, H) == \A x \in 1..Len(l) : Agree(l, H[l[x].term], x)

\* No entry of l is newer than term t.
NoneAfter(l, t) == \A x \in 1..Len(l) : l[x].term <= t

\* Leaders only append.
Grows(H, G) == \A t \in Nat : Agree(G[t], H[t], Len(H[t]))

\* The call m is a piece of the log of the leader of its term.
PieceOf(m, h) ==
    /\ m.prevLogIndex + Len(m.entries) <= Len(h)
    /\ TermAt(h, m.prevLogIndex) = m.prevLogTerm
    /\ \A k \in 1..Len(m.entries) : m.entries[k] = h[m.prevLogIndex + k]

\* The entries of a piece lie inside the log it is a piece of.
LEMMA PieceInside ==
    ASSUME NEW p \in Nat, NEW e \in Nat, NEW n \in Nat, p + e <= n, NEW k \in 1..e
    PROVE  p + k \in 1..n
OBVIOUS

\* An entry of a log is an entry, with a term.
LEMMA EntryTerm ==
    ASSUME NEW l \in Seq(Entry), NEW x \in 1..Len(l)
    PROVE  l[x] \in Entry /\ l[x].term \in Nat
<1>1. l[x] \in Entry
  OBVIOUS
<1>. QED BY <1>1 DEF Entry

\* What agrees with a log agrees with everything that extends it.
LEMMA CopiedGrows ==
    ASSUME NEW H \in Histories, NEW G \in Histories, Grows(H, G),
           NEW l \in Seq(Entry), Copied(l, H)
    PROVE  Copied(l, G)
<1>. SUFFICES ASSUME NEW x \in 1..Len(l) PROVE Agree(l, G[l[x].term], x)
  BY DEF Copied
<1>1. l[x].term \in Nat
  BY EntryTerm
<1>2. Agree(l, H[l[x].term], x)
  BY DEF Copied
<1>3. Agree(G[l[x].term], H[l[x].term], Len(H[l[x].term]))
  BY <1>1 DEF Grows
<1>4. H[l[x].term] \in Seq(Entry) /\ G[l[x].term] \in Seq(Entry)
  BY <1>1 DEF Histories
<1>. QED BY <1>2, <1>3, <1>4 DEF Agree

\* Two copied logs that hold an entry of one term at one index agree up to it.
LEMMA CopiedAgree ==
    ASSUME NEW H \in Histories, NEW l \in Seq(Entry), NEW h \in Seq(Entry),
           Copied(l, H), Copied(h, H),
           NEW x \in 1..Len(l), x <= Len(h), l[x].term = h[x].term
    PROVE  Agree(l, h, x)
<1>1. Agree(l, H[l[x].term], x) /\ Agree(h, H[l[x].term], x)
  BY DEF Copied
<1>2. Len(h) \in Nat /\ Len(l) \in Nat /\ x \in Nat
  OBVIOUS
<1>. QED BY <1>1, <1>2 DEF Agree

\* The terms of a copied log never decrease.
LEMMA CopiedSorted ==
    ASSUME NEW H \in Histories, NEW l \in Seq(Entry), Copied(l, H),
           \A t \in Nat : NoneAfter(H[t], t),
           NEW x \in 1..Len(l), NEW y \in 1..x
    PROVE  l[y].term <= l[x].term
<1>1. l[x].term \in Nat
  BY EntryTerm
<1>2. Agree(l, H[l[x].term], x) /\ NoneAfter(H[l[x].term], l[x].term)
  BY <1>1 DEF Copied
<1>3. H[l[x].term] \in Seq(Entry)
  BY <1>1 DEF Histories
<1>4. y \in 1..Len(H[l[x].term]) /\ l[y] = H[l[x].term][y]
  BY <1>2, <1>3 DEF Agree
<1>. QED BY <1>2, <1>4 DEF NoneAfter

\* A log that is the beginning of a copied one is copied.
LEMMA CopiedPrefix ==
    ASSUME NEW H \in Histories, NEW l \in Seq(Entry), NEW h \in Seq(Entry),
           Copied(h, H), Agree(l, h, Len(l))
    PROVE  Copied(l, H)
<1>. SUFFICES ASSUME NEW x \in 1..Len(l) PROVE Agree(l, H[l[x].term], x)
  BY DEF Copied
<1>1. x \in 1..Len(h) /\ l[x] = h[x]
  BY DEF Agree
<1>2. Agree(h, H[l[x].term], x)
  BY <1>1 DEF Copied
<1>. QED BY <1>2 DEF Agree

\* The entries of two logs put one after the other.
LEMMA ConcatParts ==
    ASSUME NEW a \in Seq(Entry), NEW b \in Seq(Entry)
    PROVE  /\ Len(a \o b) = Len(a) + Len(b)
           /\ \A y \in 1..Len(a) : (a \o b)[y] = a[y]
           /\ \A y \in 1..Len(b) : (a \o b)[Len(a) + y] = b[y]
<1>1. /\ Len(a \o b) = Len(a) + Len(b)
      /\ \A i \in 1..(Len(a) + Len(b)) :
            (a \o b)[i] = IF i <= Len(a) THEN a[i] ELSE b[i - Len(a)]
  BY ConcatProperties
<1>2. Len(a) \in Nat /\ Len(b) \in Nat
  OBVIOUS
<1>. QED BY <1>1, <1>2

\* What AppendEntries makes of a copied log l when a piece of the leader's log h
\* fits onto it: it then agrees with h up to the end of the piece, it was cut off
\* there or not touched, and nothing in which l agreed with h is lost.
LEMMA MergeOutcome ==
    ASSUME NEW H \in Histories, NEW l \in Seq(Entry), NEW h \in Seq(Entry),
           Copied(l, H), Copied(h, H),
           NEW prev \in Nat, NEW prevTerm, NEW es \in Seq(Entry),
           prev + Len(es) <= Len(h), TermAt(h, prev) = prevTerm,
           \A k \in 1..Len(es) : es[k] = h[prev + k],
           HasPrev(l, prev, prevTerm)
    PROVE  LET n == MergeEntries(l, prev, es)
           IN  /\ n \in Seq(Entry)
               /\ Agree(n, h, prev + Len(es))
               /\ n = l \/ Len(n) = prev + Len(es)
               /\ \A c \in Nat : Agree(l, h, c) => Agree(n, h, c)
<1>. DEFINE n == MergeEntries(l, prev, es)
            M == Mismatches(l, prev, es)
<1>1. prev \in 0..Len(l) /\ TermAt(l, prev) = TermAt(h, prev) /\ Len(es) \in Nat
  BY DEF HasPrev
<1>2. n \in Seq(Entry)
  BY <1>1, MergeType
<1>3. Agree(l, h, prev)
  <2>1. CASE prev = 0
    BY <2>1 DEF Agree
  <2>2. CASE prev # 0
    <3>1. prev \in 1..Len(l) /\ prev <= Len(h) /\ l[prev].term = h[prev].term
      BY <1>1, <2>2 DEF TermAt
    <3>. QED BY <3>1, CopiedAgree
  <2>. QED BY <2>1, <2>2
<1>4. CASE M = {}
  <2>1. n = l
    BY <1>4 DEF MergeEntries
  <2>2. Agree(l, h, prev + Len(es))
    <3>1. CASE Len(es) = 0
      BY <1>1, <1>3, <3>1
    <3>2. CASE Len(es) # 0
      <4>1. Len(es) \in 1..Len(es) /\ Len(es) \notin M
        BY <1>1, <1>4, <3>2
      <4>2. prev + Len(es) <= Len(l) /\ l[prev + Len(es)].term = es[Len(es)].term
        BY <1>1, <4>1 DEF Mismatches
      <4>3. es[Len(es)] = h[prev + Len(es)]
        BY <4>1
      <4>4. prev + Len(es) \in 1..Len(l)
        BY <1>1, <4>1, <4>2
      <4>. QED BY <4>2, <4>3, <4>4, CopiedAgree
    <3>. QED BY <3>1, <3>2
  <2>. QED BY <1>2, <2>1, <2>2
<1>5. CASE M # {}
  <2>1. M \subseteq Nat
    BY DEF Mismatches
  <2>2. Least(M) \in M /\ \A y \in M : Least(M) <= y
    BY <1>5, <2>1, LeastExists
  <2>3. PICK k \in 1..Len(es) : k = Least(M)
    BY <2>2 DEF Mismatches
  <2>4. \A y \in 1..(k - 1) : prev + y <= Len(l) /\ l[prev + y].term = es[y].term
    <3>. SUFFICES ASSUME NEW y \in 1..(k - 1)
         PROVE  prev + y <= Len(l) /\ l[prev + y].term = es[y].term
      OBVIOUS
    <3>. HIDE DEF M
    <3>1. y \in 1..Len(es) /\ ~(k <= y)
      BY <2>3
    <3>2. y \notin M
      BY <2>2, <2>3, <3>1
    <3>. QED BY <1>1, <3>1, <3>2 DEF Mismatches, M
  <2>. DEFINE a == SubSeq(l, 1, prev + k - 1)
              b == SubSeq(es, k, Len(es))
  <2>5. n = a \o b
    BY <1>5, <2>3 DEF MergeEntries
  <2>. HIDE DEF M, n
  <2>6. prev + k - 1 \in 0..Len(l)
    BY <1>1, <2>3, <2>4
  <2>7. /\ a \in Seq(Entry) /\ Len(a) = prev + k - 1
        /\ \A y \in 1..(prev + k - 1) : a[y] = l[y]
    BY <2>6
  <2>8. /\ b \in Seq(Entry) /\ Len(b) = Len(es) - k + 1
        /\ \A y \in 1..(Len(es) - k + 1) : b[y] = es[k + y - 1]
    BY <1>1, <2>3, SMTT(30)
  <2>. HIDE DEF a, b
  <2>. DEFINE e == Len(es)
  <2>e. e \in Nat /\ k \in 1..e
    BY <1>1
  <2>. HIDE DEF e
  <2>9. /\ Len(n) = prev + e
        /\ \A y \in 1..(prev + k - 1) : n[y] = a[y]
        /\ \A y \in 1..Len(b) : n[prev + k - 1 + y] = b[y]
    <3>1. /\ Len(n) = Len(a) + Len(b)
          /\ \A y \in 1..Len(a) : n[y] = a[y]
          /\ \A y \in 1..Len(b) : n[Len(a) + y] = b[y]
      BY <2>5, <2>7, <2>8, ConcatParts
    <3>. QED BY <2>e, <2>7, <2>8, <3>1 DEF e
  <2>10. Agree(l, h, prev + k - 1)
    <3>1. CASE k = 1
      BY <1>1, <1>3, <3>1
    <3>2. CASE k # 1
      <4>1. k - 1 \in 1..(k - 1) /\ k - 1 \in 1..Len(es)
        BY <2>3, <3>2
      <4>2. prev + (k - 1) <= Len(l) /\ l[prev + (k - 1)].term = h[prev + (k - 1)].term
        BY <2>4, <4>1
      <4>3. prev + (k - 1) \in 1..Len(l) /\ prev + (k - 1) <= Len(h) /\ prev + k - 1 = prev + (k - 1)
        BY <1>1, <4>1, <4>2
      <4>. QED BY <4>2, <4>3, CopiedAgree
    <3>. QED BY <3>1, <3>2
  <2>11. ASSUME NEW y \in 1..(prev + e) PROVE n[y] = h[y]
    <3>1. CASE y <= prev + k - 1
      <4>1. y \in 1..(prev + k - 1)
        BY <2>e, <3>1
      <4>2. n[y] = a[y] /\ a[y] = l[y] /\ l[y] = h[y]
        BY <2>7, <2>9, <2>10, <4>1 DEF Agree
      <4>. QED BY <4>2
    <3>2. CASE y > prev + k - 1
      <4>. DEFINE z == y - (prev + k - 1)
      <4>1. /\ z \in 1..(e - k + 1) /\ k + z - 1 \in 1..e
            /\ prev + k - 1 + z = y /\ prev + (k + z - 1) = y
        BY <2>e, <3>2
      <4>. HIDE DEF z
      <4>2. n[y] = b[z] /\ b[z] = es[k + z - 1]
        BY <2>8, <2>9, <4>1 DEF e
      <4>3. es[k + z - 1] = h[prev + (k + z - 1)]
        BY <4>1 DEF e
      <4>. QED BY <4>1, <4>2, <4>3
    <3>. QED BY <2>e, <3>1, <3>2
  <2>12. Agree(n, h, prev + e)
    BY <1>1, <2>9, <2>11 DEF Agree, e
  <2>13. ASSUME NEW c \in Nat, Agree(l, h, c) PROVE c <= prev + e
    <3>. SUFFICES ASSUME c > prev + e PROVE FALSE
      BY <2>e
    <3>1. prev + k \in 1..c
      BY <2>e
    <3>2. prev + k <= Len(l) /\ l[prev + k] = h[prev + k]
      BY <2>13, <3>1 DEF Agree
    <3>3. l[prev + k] = es[k] /\ prev + k \in Nat /\ Len(l) \in Nat
      BY <2>e, <3>2
    <3>4. k \in M
      BY <2>2, <2>3
    <3>. QED BY <3>2, <3>3, <3>4 DEF Mismatches, M
  <2>14. ASSUME NEW c \in Nat, Agree(l, h, c) PROVE Agree(n, h, c)
    <3>1. c <= prev + e
      BY <2>13, <2>14
    <3>2. Len(n) = prev + e /\ \A y \in 1..(prev + e) : n[y] = h[y]
      BY <2>9, <2>11
    <3>. QED BY <2>e, <2>14, <3>1, <3>2 DEF Agree
  <2>. QED BY <1>2, <2>9, <2>12, <2>14 DEF n, e
<1>. QED BY <1>4, <1>5

-----------------------------------------------------------------------------
(* What a step does to terms, offices and logs.                              *)

\* No peer goes back in its term, takes office or stands for election, and who is
\* in office or stands keeps its log.
Steady ==
    \A j \in Server :
        /\ currentTerm'[j] >= currentTerm[j]
        /\ state'[j] \in {Leader, Candidate} =>
               state'[j] = state[j] /\ currentTerm'[j] = currentTerm[j] /\ log'[j] = log[j]

\* Candidate i counts the vote r and becomes leader.
Wins(i, r) == /\ r \in voteReplies /\ RequestVoteReply(r) /\ i = r.args.from
              /\ state[i] = Candidate /\ BecomeLeader(i)
              /\ UNCHANGED <<currentTerm, log>>

\* Nothing but terms and offices changes for the one who hears of a later term.
LEMMA StepDownSteady ==
    ASSUME TypeOK, TypeOK', NEW i \in Server, NEW t \in Nat, t > currentTerm[i], StepDown(i, t)
    PROVE  Steady /\ log' = log
<1>1. /\ currentTerm' = [currentTerm EXCEPT ![i] = t]
      /\ state' = [state EXCEPT ![i] = Follower]
      /\ log' = log
  BY DEF StepDown
<1>2. ASSUME NEW j \in Server
      PROVE  /\ currentTerm'[j] >= currentTerm[j]
             /\ state'[j] = Follower \/ (state'[j] = state[j] /\ currentTerm'[j] = currentTerm[j])
  <2>1. currentTerm[j] \in Nat /\ currentTerm[i] \in Nat
    BY DEF TypeOK
  <2>2. CASE j = i
    BY <1>1, <2>1, <2>2 DEF TypeOK
  <2>3. CASE j # i
    BY <1>1, <2>1, <2>3 DEF TypeOK
  <2>. QED BY <2>2, <2>3
<1>. QED BY <1>1, <1>2 DEF Steady, Follower, Leader, Candidate

\* RequestVote neither elects nor touches a log.
LEMMA RequestVoteSteady ==
    ASSUME TypeOK, TypeOK', NEW m \in voteCalls, RequestVote(m)
    PROVE  Steady /\ log' = log
<1>1. m.to \in Server /\ m.term \in Nat
  BY DEF TypeOK, RequestVoteArgs
<1>2. /\ currentTerm' = [currentTerm EXCEPT ![m.to] =
                            IF m.term > currentTerm[m.to] THEN m.term ELSE @]
      /\ state' = [state EXCEPT ![m.to] = IF m.term > currentTerm[m.to] THEN Follower ELSE @]
      /\ log' = log
  BY DEF RequestVote
<1>3. ASSUME NEW j \in Server
      PROVE  /\ currentTerm'[j] >= currentTerm[j]
             /\ state'[j] = Follower \/ (state'[j] = state[j] /\ currentTerm'[j] = currentTerm[j])
  <2>1. currentTerm[j] \in Nat /\ currentTerm[m.to] \in Nat
    BY <1>1 DEF TypeOK
  <2>2. CASE j = m.to
    BY <1>1, <1>2, <2>1, <2>2, SMTT(30) DEF TypeOK
  <2>3. CASE j # m.to
    BY <1>1, <1>2, <2>1, <2>3 DEF TypeOK
  <2>. QED BY <2>2, <2>3
<1>. QED BY <1>2, <1>3 DEF Steady, Follower, Leader, Candidate

\* A reply to RequestVote elects the candidate, or it is steady.
LEMMA RequestVoteReplySteady ==
    ASSUME TypeOK, TypeOK', NEW r \in voteReplies, RequestVoteReply(r)
    PROVE  /\ log' = log
           /\ \/ Wins(r.args.from, r)
              \/ Steady /\ leaders' = leaders /\ reusedMatch' = reusedMatch
<1>. DEFINE i     == r.args.from
            stale == state[i] # Candidate \/ currentTerm[i] # r.args.term
<1>1. i \in Server /\ r.term \in Nat
  <2>1. r.args \in RequestVoteArgs /\ r.term \in Nat
    BY DEF TypeOK, RequestVoteReplies
  <2>. QED BY <2>1 DEF RequestVoteArgs
<1>2. CASE UNCHANGED <<durableVars, state, leaderVars, votes, persisted, leaders, reusedMatch>>
  <2>1. UNCHANGED <<currentTerm, log, state, leaders, reusedMatch>>
    BY <1>2 DEF durableVars
  <2>. QED BY <2>1 DEF Steady, TypeOK
<1>3. CASE /\ ~stale /\ r.term > currentTerm[i]
           /\ StepDown(i, r.term)
           /\ UNCHANGED <<leaderVars, votes, leaders, reusedMatch>>
  BY <1>1, <1>3, StepDownSteady
<1>4. CASE /\ ~stale /\ r.term <= currentTerm[i] /\ r.voteGranted
           /\ votes' = [votes EXCEPT ![i] = @ \cup {r.args.to}]
           /\ IF Majority(Cardinality(votes'[i]))
              THEN BecomeLeader(i)
              ELSE UNCHANGED <<state, leaderVars, leaders, reusedMatch>>
           /\ UNCHANGED <<durableVars, persisted>>
  <2>1. UNCHANGED <<currentTerm, log>>
    BY <1>4 DEF durableVars
  <2>2. CASE BecomeLeader(i)
    BY <1>4, <2>1, <2>2 DEF Wins
  <2>3. CASE UNCHANGED <<state, leaderVars, leaders, reusedMatch>>
    BY <2>1, <2>3 DEF Steady, TypeOK
  <2>. QED BY <1>4, <2>1, <2>2, <2>3
<1>. QED BY <1>2, <1>3, <1>4 DEF RequestVoteReply

\* AppendEntries makes a follower of whoever takes the entries.
LEMMA AppendEntriesSteady ==
    ASSUME TypeOK, TypeOK', NEW m \in appendCalls, AppendEntries(m)
    PROVE  Steady
<1>. DEFINE stale == m.term < currentTerm[m.to]
<1>1. m.to \in Server /\ m.term \in Nat
  BY SentType DEF Sent
<1>2. /\ currentTerm' = [currentTerm EXCEPT ![m.to] =
                            IF m.term > currentTerm[m.to] THEN m.term ELSE @]
      /\ state' = [state EXCEPT ![m.to] = IF stale THEN @ ELSE Follower]
      /\ log' = [log EXCEPT ![m.to] =
                    IF ~stale /\ HasPrev(log[m.to], m.prevLogIndex, m.prevLogTerm)
                    THEN MergeEntries(@, m.prevLogIndex, m.entries) ELSE @]
  BY DEF AppendEntries
<1>3. ASSUME NEW j \in Server
      PROVE  /\ currentTerm'[j] >= currentTerm[j]
             /\ \/ state'[j] = Follower
                \/ state'[j] = state[j] /\ currentTerm'[j] = currentTerm[j] /\ log'[j] = log[j]
  <2>1. CASE j # m.to
    BY <1>1, <1>2, <2>1 DEF TypeOK
  <2>2. CASE j = m.to /\ stale
    BY <1>1, <1>2, <2>2, SMTT(30) DEF TypeOK
  <2>3. CASE j = m.to /\ ~stale
    BY <1>1, <1>2, <2>3, SMTT(30) DEF TypeOK
  <2>. QED BY <2>1, <2>2, <2>3
<1>. QED BY <1>3 DEF Steady, Follower, Leader, Candidate

\* Nor does anything else elect, or touch the log of a leader.
LEMMA OthersSteady ==
    ASSUME TypeInv, TypeInv',
           \/ \E i, j \in Server : i # j /\ SendAppendEntries(i, j)
           \/ \E r \in appendReplies : AppendEntriesReply(r)
           \/ \E i \in Server : ApplyLoop(i)
           \/ LoseCall
           \/ \E S \in RestartGroups : Restart(S)
           \/ UNCHANGED vars
    PROVE  Steady /\ UNCHANGED <<log, leaders, ballots, reusedMatch>> /\ voteCalls' \subseteq voteCalls
<1>0. TypeOK /\ TypeOK' /\ PersistedIsCurrent
  BY DEF TypeInv
<1>1. ASSUME UNCHANGED <<currentTerm, state, log>> PROVE Steady
  BY <1>0, <1>1 DEF Steady, TypeOK
<1>2. CASE \E i, j \in Server : i # j /\ SendAppendEntries(i, j)
  BY <1>1, <1>2 DEF SendAppendEntries, durableVars, historyVars
<1>3. CASE \E r \in appendReplies : AppendEntriesReply(r)
  <2>. PICK r \in appendReplies : AppendEntriesReply(r)
    BY <1>3
  <2>1. UNCHANGED <<leaders, ballots, reusedMatch, voteCalls>>
    BY DEF AppendEntriesReply, historyVars
  <2>2. CASE UNCHANGED <<currentTerm, state, log>>
    BY <1>1, <2>1, <2>2
  <2>3. CASE r.term > currentTerm[r.args.from] /\ StepDown(r.args.from, r.term)
    <3>1. r.args.from \in Server /\ r.term \in Nat
      <4>1. r.args \in Sent /\ r.term \in Nat
        BY <1>0 DEF Sent, TypeOK, AppendEntriesReplies
      <4>. QED BY <1>0, <4>1, SentType
    <3>. QED BY <1>0, <2>1, <2>3, <3>1, StepDownSteady
  <2>. QED BY <2>2, <2>3 DEF AppendEntriesReply, durableVars
<1>4. CASE (\E i \in Server : ApplyLoop(i)) \/ LoseCall
  BY <1>1, <1>4 DEF ApplyLoop, LoseCall, durableVars, callVars, historyVars
<1>5. CASE \E S \in RestartGroups : Restart(S)
  <2>. PICK S \in RestartGroups : Restart(S)
    BY <1>5
  <2>1. UNCHANGED <<currentTerm, log>>
    <3>1. ASSUME NEW i \in Server
          PROVE  persisted[i].term = currentTerm[i] /\ persisted[i].log = log[i]
      <4>1. persisted[i] = [term |-> currentTerm[i], votedFor |-> votedFor[i], log |-> log[i]]
        BY <1>0 DEF PersistedIsCurrent
      <4>. QED BY <4>1
    <3>. QED BY <1>0, <3>1 DEF Restart, Reload, TypeOK
  <2>2. /\ UNCHANGED <<leaders, ballots, reusedMatch>> /\ voteCalls' \subseteq voteCalls
        /\ \A j \in Server : state'[j] = Follower \/ state'[j] = state[j]
    BY DEF Restart, Reload, historyVars
  <2>3. \A j \in Server : currentTerm'[j] >= currentTerm[j] /\ currentTerm'[j] = currentTerm[j]
    BY <1>0, <2>1 DEF TypeOK
  <2>. QED BY <2>1, <2>2, <2>3 DEF Steady, Follower, Leader, Candidate
<1>6. CASE UNCHANGED vars
  BY <1>1, <1>6 DEF vars, durableVars, callVars, historyVars
<1>. QED BY <1>2, <1>3, <1>4, <1>5, <1>6

-----------------------------------------------------------------------------
(* Elections: who wins a term never stands in it again, and a candidate's     *)
(* calls describe the log it still has.                                      *)

LeadersPast ==
    \A l \in leaders : /\ l[1] <= currentTerm[l[2]]
                       /\ l[1] = currentTerm[l[2]] => state[l[2]] # Candidate

BallotsPast == \A b \in ballots : b[1] <= currentTerm[b[3]]

VoteCallsFit ==
    \A m \in voteCalls :
        /\ m.term <= currentTerm[m.from]
        /\ m.term = currentTerm[m.from] /\ state[m.from] = Candidate =>
               m.lastLogIndex = Len(log[m.from]) /\ m.lastLogTerm = LastTerm(log[m.from])

ElectInv == LeadersPast /\ BallotsPast /\ VoteCallsFit

\* The histories are of servers and terms.
LEMMA HistoryTypes ==
    ASSUME TypeOK
    PROVE  /\ \A l \in leaders : l[1] \in Nat /\ l[2] \in Server /\ l = <<l[1], l[2]>>
           /\ \A b \in ballots : b[1] \in Nat /\ b[2] \in Server /\ b[3] \in Server
                                 /\ b = <<b[1], b[2], b[3]>>
           /\ \A m \in voteCalls : m.from \in Server /\ m.to \in Server /\ m.term \in Nat
                                   /\ m.lastLogIndex \in Nat /\ m.lastLogTerm \in Nat
<1>1. /\ leaders \subseteq Nat \X Server
      /\ ballots \subseteq Nat \X Server \X Server
      /\ voteCalls \subseteq RequestVoteArgs
  BY DEF TypeOK
<1>2. ASSUME NEW l \in leaders PROVE l[1] \in Nat /\ l[2] \in Server /\ l = <<l[1], l[2]>>
  BY <1>1
<1>3. ASSUME NEW b \in ballots
      PROVE  b[1] \in Nat /\ b[2] \in Server /\ b[3] \in Server /\ b = <<b[1], b[2], b[3]>>
  <2>1. b \in Nat \X Server \X Server
    BY <1>1
  <2>. QED BY <2>1
<1>4. ASSUME NEW m \in voteCalls
      PROVE  m.from \in Server /\ m.to \in Server /\ m.term \in Nat
             /\ m.lastLogIndex \in Nat /\ m.lastLogTerm \in Nat
  BY <1>1 DEF RequestVoteArgs
<1>. QED BY <1>2, <1>3, <1>4

\* A steady step in which nobody votes or calls for votes keeps it.
LEMMA ElectInvSteady ==
    ASSUME TypeOK, TypeOK', ElectInv, Steady, leaders' = leaders,
           \A b \in ballots' \ ballots : \E m \in voteCalls : b[1] = m.term /\ b[3] = m.from,
           voteCalls' \subseteq voteCalls
    PROVE  ElectInv'
<1>1. LeadersPast'
  <2>. SUFFICES ASSUME NEW l \in leaders
       PROVE  /\ l[1] <= currentTerm'[l[2]]
              /\ l[1] = currentTerm'[l[2]] => state'[l[2]] # Candidate
    BY DEF LeadersPast
  <2>1. l[1] \in Nat /\ l[2] \in Server
    BY HistoryTypes
  <2>2. currentTerm[l[2]] \in Nat /\ currentTerm'[l[2]] \in Nat
    BY <2>1 DEF TypeOK
  <2>. QED BY <2>1, <2>2 DEF ElectInv, LeadersPast, Steady
<1>2. ASSUME NEW m \in voteCalls PROVE m.from \in Server /\ m.term <= currentTerm'[m.from]
  <2>1. m.from \in Server /\ m.term \in Nat
    BY HistoryTypes
  <2>2. currentTerm[m.from] \in Nat /\ currentTerm'[m.from] \in Nat
    BY <2>1 DEF TypeOK
  <2>. QED BY <2>1, <2>2 DEF ElectInv, VoteCallsFit, Steady
<1>3. BallotsPast'
  <2>. SUFFICES ASSUME NEW b \in ballots' PROVE b[1] <= currentTerm'[b[3]]
    BY DEF BallotsPast
  <2>1. CASE b \in ballots
    <3>1. b[1] \in Nat /\ b[3] \in Server
      BY <2>1, HistoryTypes
    <3>2. currentTerm[b[3]] \in Nat /\ currentTerm'[b[3]] \in Nat
      BY <3>1 DEF TypeOK
    <3>. QED BY <2>1, <3>1, <3>2 DEF ElectInv, BallotsPast, Steady
  <2>2. CASE b \notin ballots
    BY <1>2, <2>2
  <2>. QED BY <2>1, <2>2
<1>4. VoteCallsFit'
  <2>. SUFFICES ASSUME NEW m \in voteCalls'
       PROVE  /\ m.term <= currentTerm'[m.from]
              /\ m.term = currentTerm'[m.from] /\ state'[m.from] = Candidate =>
                     m.lastLogIndex = Len(log'[m.from]) /\ m.lastLogTerm = LastTerm(log'[m.from])
    BY DEF VoteCallsFit
  <2>1. m \in voteCalls
    OBVIOUS
  <2>. QED BY <1>2, <2>1 DEF ElectInv, VoteCallsFit, Steady
<1>. QED BY <1>1, <1>3, <1>4 DEF ElectInv

\* Standing for election opens a term in which the peer has not led.
LEMMA ElectInvStands ==
    ASSUME TypeOK, TypeOK', ElectInv, NEW i \in Server, StartElection(i)
    PROVE  ElectInv'
<1>1. /\ currentTerm' = [currentTerm EXCEPT ![i] = @ + 1]
      /\ state' = [state EXCEPT ![i] = Candidate]
      /\ ballots' = ballots \cup {<<currentTerm[i] + 1, i, i>>}
      /\ UNCHANGED <<log, leaders>>
      /\ voteCalls' = voteCalls \cup
           {[from |-> i, to |-> j, term |-> currentTerm[i] + 1,
             lastLogIndex |-> Len(log[i]), lastLogTerm |-> LastTerm(log[i])]
            : j \in Server \ {i}}
  BY DEF StartElection
<1>2. /\ currentTerm[i] \in Nat /\ currentTerm'[i] = currentTerm[i] + 1
      /\ \A j \in Server \ {i} : currentTerm'[j] = currentTerm[j] /\ state'[j] = state[j]
      /\ \A j \in Server : currentTerm[j] \in Nat
  BY <1>1 DEF TypeOK
<1>3. LeadersPast'
  <2>. SUFFICES ASSUME NEW l \in leaders
       PROVE  /\ l[1] <= currentTerm'[l[2]]
              /\ l[1] = currentTerm'[l[2]] => state'[l[2]] # Candidate
    BY <1>1 DEF LeadersPast
  <2>1. /\ l[1] \in Nat /\ l[2] \in Server /\ l[1] <= currentTerm[l[2]]
        /\ l[1] = currentTerm[l[2]] => state[l[2]] # Candidate
    BY HistoryTypes DEF ElectInv, LeadersPast
  <2>2. CASE l[2] = i
    BY <1>2, <2>1, <2>2
  <2>3. CASE l[2] # i
    BY <1>2, <2>1, <2>3
  <2>. QED BY <2>2, <2>3
<1>4. BallotsPast'
  <2>. SUFFICES ASSUME NEW b \in ballots' PROVE b[1] <= currentTerm'[b[3]]
    BY DEF BallotsPast
  <2>1. CASE b \in ballots
    <3>1. b[1] \in Nat /\ b[3] \in Server /\ b[1] <= currentTerm[b[3]]
      BY <2>1, HistoryTypes DEF ElectInv, BallotsPast
    <3>2. CASE b[3] = i
      BY <1>2, <3>1, <3>2
    <3>3. CASE b[3] # i
      BY <1>2, <3>1, <3>3
    <3>. QED BY <3>2, <3>3
  <2>2. CASE b = <<currentTerm[i] + 1, i, i>>
    BY <1>2, <2>2
  <2>. QED BY <1>1, <2>1, <2>2
<1>5. VoteCallsFit'
  <2>. SUFFICES ASSUME NEW m \in voteCalls'
       PROVE  /\ m.term <= currentTerm'[m.from]
              /\ m.term = currentTerm'[m.from] /\ state'[m.from] = Candidate =>
                     m.lastLogIndex = Len(log[m.from]) /\ m.lastLogTerm = LastTerm(log[m.from])
    BY <1>1 DEF VoteCallsFit
  <2>1. CASE m \in voteCalls
    <3>1. m.term \in Nat /\ m.from \in Server /\ m.term <= currentTerm[m.from]
      BY <2>1, HistoryTypes DEF ElectInv, VoteCallsFit
    <3>2. CASE m.from = i
      BY <1>2, <3>1, <3>2
    <3>3. CASE m.from # i
      BY <1>2, <2>1, <3>1, <3>3 DEF ElectInv, VoteCallsFit
    <3>. QED BY <3>2, <3>3
  <2>2. CASE m \notin voteCalls
    <3>1. /\ m.from = i /\ m.term = currentTerm[i] + 1
          /\ m.lastLogIndex = Len(log[i]) /\ m.lastLogTerm = LastTerm(log[i])
      BY <1>1, <2>2
    <3>. QED BY <1>2, <3>1
  <2>. QED BY <2>1, <2>2
<1>. QED BY <1>3, <1>4, <1>5 DEF ElectInv

\* Every step keeps the record of elections.
LEMMA ElectInvNext == TypeInv /\ TypeInv' /\ ElectInv /\ [Next]_vars => ElectInv'
<1>. SUFFICES ASSUME TypeInv, TypeInv', ElectInv, [Next]_vars PROVE ElectInv'
  OBVIOUS
<1>0. TypeOK /\ TypeOK'
  BY DEF TypeInv
<1>1. ASSUME NEW i \in Server, Ticker(i) \/ DebugForceElection(i) PROVE ElectInv'
  BY <1>0, <1>1, ElectInvStands DEF Ticker, DebugForceElection
<1>2. ASSUME NEW m \in voteCalls, RequestVote(m) PROVE ElectInv'
  <2>1. /\ Steady /\ leaders' = leaders /\ voteCalls' \subseteq voteCalls
        /\ \A b \in ballots' \ ballots : b[1] = m.term /\ b[3] = m.from
    <3>1. Steady
      BY <1>0, <1>2, RequestVoteSteady
    <3>2. leaders' = leaders /\ voteCalls' = voteCalls \ {m}
      BY <1>2 DEF RequestVote
    <3>3. ballots' = ballots \/ ballots' = ballots \cup {<<m.term, m.to, m.from>>}
      BY <1>2 DEF RequestVote
    <3>4. ASSUME NEW b \in ballots' \ ballots PROVE b[1] = m.term /\ b[3] = m.from
      <4>1. b = <<m.term, m.to, m.from>>
        BY <3>3
      <4>. QED BY <4>1
    <3>. QED BY <3>1, <3>2, <3>4
  <2>. QED BY <1>0, <2>1, ElectInvSteady
<1>3. ASSUME NEW r \in voteReplies, RequestVoteReply(r) PROVE ElectInv'
  <2>1. ballots' = ballots /\ voteCalls' = voteCalls
    BY <1>3 DEF RequestVoteReply
  <2>2. CASE Steady /\ leaders' = leaders
    BY <1>0, <2>1, <2>2, ElectInvSteady
  <2>3. CASE Wins(r.args.from, r)
    <3>. DEFINE i == r.args.from
    <3>1. i \in Server
      BY <1>0 DEF TypeOK, RequestVoteReplies, RequestVoteArgs
    <3>2. /\ UNCHANGED <<currentTerm, log>>
          /\ state' = [state EXCEPT ![i] = Leader]
          /\ leaders' = leaders \cup {<<currentTerm[i], i>>}
      BY <2>3 DEF Wins, BecomeLeader
    <3>3. /\ state'[i] = Leader /\ \A j \in Server \ {i} : state'[j] = state[j]
          /\ currentTerm[i] \in Nat
      BY <1>0, <3>1, <3>2 DEF TypeOK
    <3>. HIDE DEF i
    <3>4. LeadersPast'
      BY <1>0, <3>1, <3>2, <3>3, HistoryTypes DEF ElectInv, LeadersPast, Leader, Candidate
    <3>5. BallotsPast'
      BY <2>1, <3>2 DEF ElectInv, BallotsPast
    <3>6. VoteCallsFit'
      <4>. SUFFICES ASSUME NEW m \in voteCalls, m.term = currentTerm[m.from],
                           state'[m.from] = Candidate
           PROVE  m.lastLogIndex = Len(log[m.from]) /\ m.lastLogTerm = LastTerm(log[m.from])
        BY <2>1, <3>2 DEF ElectInv, VoteCallsFit
      <4>1. m.from \in Server
        BY <1>0, HistoryTypes
      <4>2. state[m.from] = Candidate
        BY <3>3, <4>1 DEF Leader, Candidate
      <4>. QED BY <4>2 DEF ElectInv, VoteCallsFit
    <3>. QED BY <3>4, <3>5, <3>6 DEF ElectInv
  <2>. QED BY <1>0, <1>3, <2>2, <2>3, RequestVoteReplySteady
<1>4. ASSUME NEW i \in Server, NEW v \in Value, Start(i, v) PROVE ElectInv'
  <2>1. /\ UNCHANGED <<currentTerm, state, leaders, ballots, voteCalls>> /\ state[i] = Leader
        /\ \A j \in Server \ {i} : log'[j] = log[j]
    BY <1>0, <1>4 DEF Start, callVars, historyVars, TypeOK
  <2>2. VoteCallsFit'
    <3>. SUFFICES ASSUME NEW m \in voteCalls, m.term = currentTerm[m.from],
                         state[m.from] = Candidate
         PROVE  m.lastLogIndex = Len(log'[m.from]) /\ m.lastLogTerm = LastTerm(log'[m.from])
      BY <2>1 DEF ElectInv, VoteCallsFit
    <3>1. m.from \in Server /\ m.from # i
      BY <1>0, <2>1, HistoryTypes DEF Leader, Candidate
    <3>. QED BY <2>1, <3>1 DEF ElectInv, VoteCallsFit
  <2>. QED BY <2>1, <2>2 DEF ElectInv, LeadersPast, BallotsPast
<1>5. ASSUME NEW m \in appendCalls, AppendEntries(m) PROVE ElectInv'
  <2>1. UNCHANGED <<leaders, ballots, voteCalls>>
    BY <1>5 DEF AppendEntries, historyVars
  <2>. QED BY <1>0, <1>5, <2>1, AppendEntriesSteady, ElectInvSteady
<1>6. CASE \/ \E i, j \in Server : i # j /\ SendAppendEntries(i, j)
           \/ \E r \in appendReplies : AppendEntriesReply(r)
           \/ \E i \in Server : ApplyLoop(i)
           \/ LoseCall
           \/ \E S \in RestartGroups : Restart(S)
           \/ UNCHANGED vars
  BY <1>0, <1>6, OthersSteady, ElectInvSteady
<1>. QED BY <1>1, <1>2, <1>3, <1>4, <1>5, <1>6 DEF Next

\* Before the first election there is nothing to record.
LEMMA ElectInvInit == Init => ElectInv
BY DEF Init, ElectInv, LeadersPast, BallotsPast, VoteCallsFit

-----------------------------------------------------------------------------
(* The calls of AppendEntries that a step leaves under way.                  *)

\* A call that is made carries the log of its leader from prevLogIndex to the end.
LEMMA SendPiece ==
    ASSUME TypeInv, NEW i \in Server, NEW j \in Server, SendAppendEntries(i, j)
    PROVE  \A m \in Sent' \ Sent :
               /\ state[i] = Leader /\ m.term = currentTerm[i] /\ m.from = i /\ m.to = j
               /\ m.leaderCommit = commitIndex[i]
               /\ m.prevLogIndex + Len(m.entries) = Len(log[i])
               /\ PieceOf(m, log[i])
<1>. DEFINE next == nextIndex[i][j]
            call(s) == [from |-> i, to |-> j, slot |-> s, term |-> currentTerm[i],
                        prevLogIndex |-> next - 1,
                        prevLogTerm  |-> TermAt(log[i], next - 1),
                        entries      |-> SubSeq(log[i], next, Len(log[i])),
                        leaderCommit |-> commitIndex[i]]
<1>1. PICK s \in 1..MaxCalls : appendCalls' = appendCalls \cup {call(s)}
  BY DEF SendAppendEntries
<1>2. state[i] = Leader /\ appendReplies' = appendReplies
  BY DEF SendAppendEntries
<1>3. ASSUME NEW m \in Sent' \ Sent PROVE m = call(s)
  BY <1>1, <1>2 DEF Sent
<1>4. log[i] \in Seq(Entry) /\ Len(log[i]) \in Nat /\ next \in 1..(Len(log[i]) + 1)
  BY <1>2 DEF TypeInv, TypeOK, NextIndexInRange
<1>. HIDE DEF next
<1>5. PICK es \in Seq(Entry) :
          /\ es = SubSeq(log[i], next, Len(log[i]))
          /\ Len(es) = Len(log[i]) - next + 1
          /\ \A k \in 1..Len(es) : es[k] = log[i][next + k - 1]
  <2>1. \A k \in next..Len(log[i]) : log[i][k] \in Entry
    BY <1>4
  <2>2. /\ SubSeq(log[i], next, Len(log[i])) \in Seq(Entry)
        /\ Len(SubSeq(log[i], next, Len(log[i]))) = Len(log[i]) - next + 1
        /\ \A k \in 1..(Len(log[i]) - next + 1) :
               SubSeq(log[i], next, Len(log[i]))[k] = log[i][next + k - 1]
    BY <1>4, <2>1, SubSeqProperties
  <2>. QED BY <2>2
<1>6. /\ call(s).from = i /\ call(s).to = j /\ call(s).term = currentTerm[i]
      /\ call(s).prevLogIndex = next - 1 /\ call(s).prevLogTerm = TermAt(log[i], next - 1)
      /\ call(s).entries = es /\ call(s).leaderCommit = commitIndex[i]
  BY <1>5
<1>. HIDE DEF call
<1>7. ASSUME NEW k \in 1..Len(es) PROVE es[k] = log[i][(next - 1) + k]
  <2>1. next + k - 1 = (next - 1) + k
    BY <1>4
  <2>. QED BY <1>5, <2>1
<1>8. (next - 1) + Len(es) = Len(log[i])
  BY <1>4, <1>5
<1>9. PieceOf(call(s), log[i])
  BY <1>4, <1>6, <1>7, <1>8 DEF PieceOf
<1>. QED BY <1>2, <1>3, <1>6, <1>8, <1>9

\* The index of the last entry of a call is a number.
LEMMA SentLast ==
    ASSUME TypeOK, NEW m \in Sent
    PROVE  m.prevLogIndex + Len(m.entries) \in Nat
<1>1. PICK p \in Nat, es \in Seq(Entry) : p = m.prevLogIndex /\ es = m.entries
  BY SentType
<1>2. p + Len(es) \in Nat
  OBVIOUS
<1>. QED BY <1>1, <1>2

\* No other step makes a call; a reply carries the call it answers.
LEMMA NothingSent ==
    ASSUME \/ \E i \in Server : StartElection(i)
           \/ \E m \in voteCalls : RequestVote(m)
           \/ \E r \in voteReplies : RequestVoteReply(r)
           \/ \E i \in Server, v \in Value : Start(i, v)
           \/ \E m \in appendCalls : AppendEntries(m)
           \/ \E r \in appendReplies : AppendEntriesReply(r)
           \/ \E i \in Server : ApplyLoop(i)
           \/ LoseCall
           \/ \E S \in RestartGroups : Restart(S)
           \/ UNCHANGED vars
    PROVE  Sent' \subseteq Sent
<1>1. ASSUME appendCalls' \subseteq appendCalls, appendReplies' \subseteq appendReplies
      PROVE  Sent' \subseteq Sent
  BY <1>1 DEF Sent
<1>2. ASSUME NEW m \in appendCalls, AppendEntries(m) PROVE Sent' \subseteq Sent
  <2>1. PICK r : r.args = m /\ appendReplies' = appendReplies \cup {r}
    <3>1. \E t, s : appendReplies' = appendReplies \cup {AppendReply(m, m.to, t, s)}
      BY <1>2 DEF AppendEntries
    <3>2. \A t, s : AppendReply(m, m.to, t, s).args = m
      BY DEF AppendReply
    <3>. QED BY <3>1, <3>2
  <2>2. appendCalls' \subseteq appendCalls
    BY <1>2 DEF AppendEntries
  <2>. QED BY <2>1, <2>2 DEF Sent
<1>3. CASE (\E i \in Server : StartElection(i)) \/ (\E i \in Server, v \in Value : Start(i, v))
           \/ \E i \in Server : ApplyLoop(i)
  BY <1>1, <1>3 DEF StartElection, Start, ApplyLoop, callVars
<1>4. CASE (\E m \in voteCalls : RequestVote(m)) \/ (\E r \in voteReplies : RequestVoteReply(r))
  BY <1>1, <1>4 DEF RequestVote, RequestVoteReply
<1>5. CASE (\E r \in appendReplies : AppendEntriesReply(r)) \/ LoseCall
  <2>1. CASE \E r \in appendReplies : AppendEntriesReply(r)
    <3>0. PICK r \in appendReplies : AppendEntriesReply(r)
      BY <2>1
    <3>1. UNCHANGED appendCalls /\ appendReplies' = appendReplies \ {r}
      BY <3>0, Zenon DEF AppendEntriesReply
    <3>. QED BY <1>1, <3>1
  <2>2. CASE LoseCall
    BY <1>1, <2>2 DEF LoseCall
  <2>. QED BY <1>5, <2>1, <2>2
<1>6. CASE (\E S \in RestartGroups : Restart(S)) \/ UNCHANGED vars
  BY <1>1, <1>6 DEF Restart, Reload, vars, callVars
<1>. QED BY <1>2, <1>3, <1>4, <1>5, <1>6

-----------------------------------------------------------------------------
(* The history of the leaders' logs.                                         *)

\* Each leader's log was copied from the leaders before it, and extended.
PastCopied(H) == \A t \in Nat : Copied(H[t], H) /\ NoneAfter(H[t], t)

\* A term without a leader has no log.
PastLed(H) == \A t \in Nat : (\A l \in leaders : l[1] # t) => H[t] = << >>

\* What peers hold now was copied from leaders, none later than their term.
LogsCopied(H) ==
    \A i \in Server : Copied(log[i], H) /\ NoneAfter(log[i], currentTerm[i])

\* Who is in office has the log that the history gives to its term.
LeadersOwn(H) == \A i \in Server : state[i] = Leader => H[currentTerm[i]] = log[i]

\* What is under way is a piece of the log of the leader of its term.
CallsArePieces(H) == \A m \in Sent : PieceOf(m, H[m.term])

LogHistory(H) ==
    /\ H \in Histories
    /\ PastCopied(H)
    /\ PastLed(H)
    /\ LogsCopied(H)
    /\ LeadersOwn(H)
    /\ CallsArePieces(H)

\* Before the first election the history is empty.
LEMMA LogHistoryInit == Init => LogHistory([t \in Nat |-> << >>])
<1>. SUFFICES ASSUME Init PROVE LogHistory([t \in Nat |-> << >>])
  OBVIOUS
<1>. DEFINE H == [t \in Nat |-> << >>]
<1>1. H \in Histories /\ \A t \in Nat : H[t] = << >>
  <2>1. << >> \in Seq(Entry)
    OBVIOUS
  <2>. QED BY <2>1 DEF Histories
<1>2. \A i \in Server : log[i] = << >> /\ state[i] # Leader
  BY DEF Init, Follower, Leader
<1>3. Sent = {}
  BY DEF Init, Sent
<1>. HIDE DEF H
<1>4. \A t : Copied(<< >>, H) /\ NoneAfter(<< >>, t)
  BY DEF Copied, NoneAfter
<1>5. LogHistory(H)
  BY <1>1, <1>2, <1>3, <1>4 DEF LogHistory, PastCopied, PastLed, LogsCopied, LeadersOwn, CallsArePieces
<1>. QED BY <1>5 DEF H

\* A step that touches no log and puts nobody in office keeps the history.
LEMMA LogHistoryKept ==
    ASSUME TypeOK, TypeOK', NEW H, LogHistory(H), log' = log, leaders' = leaders,
           \A j \in Server : /\ currentTerm'[j] >= currentTerm[j]
                             /\ state'[j] = Leader => state[j] = Leader /\ currentTerm'[j] = currentTerm[j],
           \A m \in Sent' : PieceOf(m, H[m.term])
    PROVE  LogHistory(H)'
<1>1. PastLed(H)'
  BY DEF LogHistory, PastLed
<1>2. LogsCopied(H)'
  <2>. SUFFICES ASSUME NEW i \in Server, NEW x \in 1..Len(log[i])
       PROVE  log[i][x].term <= currentTerm'[i]
    BY DEF LogHistory, LogsCopied, NoneAfter
  <2>1. log[i] \in Seq(Entry) /\ currentTerm[i] \in Nat /\ currentTerm'[i] \in Nat
    BY DEF TypeOK
  <2>2. log[i][x].term \in Nat
    BY <2>1, EntryTerm
  <2>3. log[i][x].term <= currentTerm[i]
    BY DEF LogHistory, LogsCopied, NoneAfter
  <2>. QED BY <2>1, <2>2, <2>3
<1>3. LeadersOwn(H)'
  BY DEF LogHistory, LeadersOwn
<1>. QED BY <1>1, <1>2, <1>3 DEF LogHistory, PastCopied, CallsArePieces

\* A leader that takes office or appends gives its term the log it then has.
LEMMA LogHistoryLeads ==
    ASSUME TypeOK, TypeOK', NEW H, LogHistory(H), NEW i \in Server,
           NEW G \in Histories, Grows(H, G),
           G = [H EXCEPT ![currentTerm[i]] = log'[i]],
           currentTerm' = currentTerm, state'[i] = Leader,
           \A j \in Server \ {i} : log'[j] = log[j] /\ state'[j] = state[j],
           Copied(log'[i], G), NoneAfter(log'[i], currentTerm[i]),
           leaders' = leaders \cup {<<currentTerm[i], i>>},
           \A j \in Server : state'[j] = Leader => <<currentTerm[j], j>> \in leaders',
           ElectionSafety', Sent' \subseteq Sent
    PROVE  LogHistory(G)'
<1>. DEFINE T == currentTerm[i]
<1>1. T \in Nat /\ H \in Histories /\ log'[i] \in Seq(Entry)
  BY DEF TypeOK, LogHistory
<1>2. G[T] = log'[i] /\ \A t \in Nat \ {T} : G[t] = H[t]
  BY <1>1 DEF Histories
<1>. HIDE DEF T
<1>3. PastCopied(G)'
  <2>. SUFFICES ASSUME NEW t \in Nat PROVE Copied(G[t], G) /\ NoneAfter(G[t], t)
    BY DEF PastCopied
  <2>1. CASE t = T
    BY <1>2, <2>1 DEF T
  <2>2. CASE t # T
    <3>1. H[t] \in Seq(Entry) /\ Copied(H[t], H) /\ NoneAfter(H[t], t)
      BY <1>1 DEF Histories, LogHistory, PastCopied
    <3>2. Copied(H[t], G)
      BY <1>1, <3>1, CopiedGrows
    <3>. QED BY <1>2, <2>2, <3>1, <3>2
  <2>. QED BY <2>1, <2>2
<1>4. PastLed(G)'
  <2>. SUFFICES ASSUME NEW t \in Nat, \A l \in leaders' : l[1] # t PROVE G[t] = << >>
    BY DEF PastLed
  <2>1. t # T /\ \A l \in leaders : l[1] # t
    <3>1. <<T, i>> \in leaders' /\ <<T, i>>[1] = T
      BY DEF T
    <3>. QED BY <3>1
  <2>. QED BY <1>2, <2>1 DEF LogHistory, PastLed
<1>5. LogsCopied(G)'
  <2>. SUFFICES ASSUME NEW j \in Server
       PROVE  Copied(log'[j], G) /\ NoneAfter(log'[j], currentTerm[j])
    BY DEF LogsCopied
  <2>1. CASE j = i
    BY <2>1
  <2>2. CASE j # i
    <3>1. /\ log'[j] = log[j] /\ log[j] \in Seq(Entry)
          /\ Copied(log[j], H) /\ NoneAfter(log[j], currentTerm[j])
      BY <2>2 DEF TypeOK, LogHistory, LogsCopied
    <3>. QED BY <1>1, <3>1, CopiedGrows
  <2>. QED BY <2>1, <2>2
<1>6. LeadersOwn(G)'
  <2>. SUFFICES ASSUME NEW j \in Server, state'[j] = Leader PROVE G[currentTerm[j]] = log'[j]
    BY DEF LeadersOwn
  <2>1. CASE j = i
    BY <1>2, <2>1 DEF T
  <2>2. CASE j # i
    <3>1. state[j] = Leader /\ log'[j] = log[j] /\ currentTerm[j] \in Nat
      BY <2>2 DEF TypeOK
    <3>2. <<currentTerm[j], j>> \in leaders' /\ <<T, i>> \in leaders'
      BY DEF T
    <3>3. currentTerm[j] # T
      BY <2>2, <3>2 DEF ElectionSafety
    <3>. QED BY <1>2, <3>1, <3>3 DEF LogHistory, LeadersOwn
  <2>. QED BY <2>1, <2>2
<1>7. CallsArePieces(G)'
  <2>. SUFFICES ASSUME NEW m \in Sent PROVE PieceOf(m, G[m.term])
    BY DEF CallsArePieces
  <2>. DEFINE h == H[m.term]
              g == G[m.term]
  <2>1. m.term \in Nat /\ m.prevLogIndex \in Nat /\ m.entries \in Seq(Entry)
    BY SentType
  <2>2. PieceOf(m, h) /\ Agree(g, h, Len(h)) /\ h \in Seq(Entry) /\ g \in Seq(Entry)
    BY <1>1, <2>1 DEF LogHistory, CallsArePieces, Grows, Histories
  <2>. HIDE DEF h, g
  <2>3. Len(m.entries) \in Nat /\ Len(h) \in Nat /\ Len(g) \in Nat
    BY <2>1, <2>2
  <2>4. m.prevLogIndex + Len(m.entries) <= Len(h) /\ Len(h) <= Len(g)
    BY <2>2 DEF PieceOf, Agree
  <2>5. TermAt(g, m.prevLogIndex) = TermAt(h, m.prevLogIndex)
    <3>1. m.prevLogIndex = 0 \/ m.prevLogIndex \in 1..Len(h)
      BY <2>1, <2>3, <2>4
    <3>2. \A y \in 1..Len(h) : g[y] = h[y]
      BY <2>2 DEF Agree
    <3>. QED BY <3>1, <3>2 DEF TermAt
  <2>6. ASSUME NEW k \in 1..Len(m.entries) PROVE g[m.prevLogIndex + k] = h[m.prevLogIndex + k]
    <3>1. m.prevLogIndex + k \in 1..Len(h)
      BY <2>1, <2>3, <2>4, PieceInside
    <3>. QED BY <2>2, <3>1 DEF Agree
  <2>7. PieceOf(m, g)
    BY <2>1, <2>2, <2>3, <2>4, <2>5, <2>6 DEF PieceOf
  <2>. QED BY <2>7 DEF g
<1>. QED BY <1>3, <1>4, <1>5, <1>6, <1>7 DEF LogHistory

\* What holds of elections in every state.
RaftInv == TypeInv /\ VoteInv /\ ElectInv

\* Who wins is the first and only one to lead the term.
LEMMA WinsFacts ==
    ASSUME RaftInv, RaftInv', NEW r \in voteReplies, NEW i, Wins(i, r)
    PROVE  /\ i \in Server /\ currentTerm[i] \in Nat
           /\ UNCHANGED <<currentTerm, log, commitIndex, lastApplied, matchIndex, ballots,
                          voteCalls, appendCalls, appendReplies, applied>>
           /\ state[i] = Candidate /\ state'[i] = Leader
           /\ \A j \in Server \ {i} : state'[j] = state[j]
           /\ leaders' = leaders \cup {<<currentTerm[i], i>>}
           /\ Majority(Cardinality(Voters(currentTerm[i], i)))
           /\ \A l \in leaders : l[1] # currentTerm[i]
           /\ \A j \in Server : state'[j] = Leader => <<currentTerm[j], j>> \in leaders'
           /\ ElectionSafety'
           /\ reusedMatch' = (reusedMatch \/ \E j \in Server : matchIndex[i][j] # 0)
<1>1. TypeOK /\ TypeInv' /\ VoteInv' /\ ElectInv
  BY DEF RaftInv, TypeInv
<1>2. i \in Server /\ currentTerm[i] \in Nat
  <2>1. r.args \in RequestVoteArgs
    BY <1>1 DEF TypeOK, RequestVoteReplies
  <2>2. r.args.from \in Server
    BY <2>1 DEF RequestVoteArgs
  <2>. QED BY <1>1, <2>2 DEF Wins, TypeOK
<1>3. UNCHANGED <<currentTerm, log, commitIndex, lastApplied, matchIndex, ballots,
                  voteCalls, appendCalls, appendReplies, applied>>
  <2>1. UNCHANGED <<commitIndex, lastApplied, ballots, voteCalls, appendCalls,
                    appendReplies, applied>>
    BY DEF Wins, RequestVoteReply
  <2>. QED BY <2>1 DEF Wins, BecomeLeader
<1>4. /\ state[i] = Candidate
      /\ state' = [state EXCEPT ![i] = Leader]
      /\ leaders' = leaders \cup {<<currentTerm[i], i>>}
      /\ reusedMatch' = (reusedMatch \/ \E j \in Server : matchIndex[i][j] # 0)
  BY DEF Wins, BecomeLeader
<1>5. ElectionSafety'
  <2>1. (TypeInv /\ VoteInv => ElectionSafety)'
    BY OneLeader, PTL
  <2>. QED BY <1>1, <2>1
<1>6. <<currentTerm[i], i>> \in leaders'
  BY <1>4
<1>7. ASSUME NEW l \in leaders PROVE l[1] # currentTerm[i]
  <2>1. l[1] = currentTerm[i] => l[2] = i
    BY <1>4, <1>5, <1>6 DEF ElectionSafety
  <2>2. l[1] = currentTerm[l[2]] => state[l[2]] # Candidate
    BY <1>1 DEF ElectInv, LeadersPast
  <2>. QED BY <1>4, <2>1, <2>2
<1>8. Majority(Cardinality(Voters(currentTerm[i], i)))
  <2>1. LeadersElected'
    BY <1>1 DEF VoteInv
  <2>2. \A l \in leaders' : Majority(Cardinality(Voters(l[1], l[2])))
    BY <1>3, <2>1 DEF LeadersElected, Voters
  <2>3. <<currentTerm[i], i>>[1] = currentTerm[i] /\ <<currentTerm[i], i>>[2] = i
    OBVIOUS
  <2>. QED BY <1>6, <2>2, <2>3
<1>9. \A j \in Server : state'[j] = Leader => <<currentTerm[j], j>> \in leaders'
  BY <1>1, <1>3 DEF VoteInv, InOffice
<1>10. state'[i] = Leader /\ \A j \in Server \ {i} : state'[j] = state[j]
  BY <1>1, <1>2, <1>4 DEF TypeOK
<1>. QED BY <1>2, <1>3, <1>4, <1>5, <1>7, <1>8, <1>9, <1>10

\* A new leader gives its term the log it has.
LEMMA LogHistoryWins ==
    ASSUME RaftInv, RaftInv', NEW H, LogHistory(H), NEW r \in voteReplies, NEW i, Wins(i, r),
           NEW G, G = [H EXCEPT ![currentTerm[i]] = log[i]]
    PROVE  G \in Histories /\ Grows(H, G) /\ LogHistory(G)'
<1>1. TypeOK /\ TypeOK'
  BY DEF RaftInv, TypeInv
<1>2. /\ i \in Server /\ currentTerm[i] \in Nat /\ log' = log /\ currentTerm' = currentTerm
      /\ state'[i] = Leader /\ \A j \in Server \ {i} : state'[j] = state[j]
      /\ leaders' = leaders \cup {<<currentTerm[i], i>>}
      /\ \A l \in leaders : l[1] # currentTerm[i]
      /\ \A j \in Server : state'[j] = Leader => <<currentTerm[j], j>> \in leaders'
      /\ ElectionSafety' /\ UNCHANGED <<appendCalls, appendReplies>>
  BY WinsFacts
<1>3. H \in Histories /\ H[currentTerm[i]] = << >>
  BY <1>2 DEF LogHistory, PastLed
<1>4. log[i] \in Seq(Entry) /\ Copied(log[i], H) /\ NoneAfter(log[i], currentTerm[i])
  BY <1>1, <1>2 DEF TypeOK, LogHistory, LogsCopied
<1>5. G \in Histories
  BY <1>2, <1>3, <1>4 DEF Histories
<1>6. Grows(H, G)
  <2>. SUFFICES ASSUME NEW t \in Nat PROVE Agree(G[t], H[t], Len(H[t]))
    BY DEF Grows
  <2>1. H[t] \in Seq(Entry) /\ G[t] \in Seq(Entry)
    BY <1>3, <1>5 DEF Histories
  <2>2. H[t] = << >> \/ G[t] = H[t]
    BY <1>2, <1>3 DEF Histories
  <2>. QED BY <2>1, <2>2 DEF Agree
<1>7. Copied(log'[i], G)
  BY <1>2, <1>3, <1>4, <1>5, <1>6, CopiedGrows
<1>8. Sent' \subseteq Sent
  BY <1>2 DEF Sent
<1>. QED BY <1>1, <1>2, <1>4, <1>5, <1>6, <1>7, <1>8, LogHistoryLeads

\* What Start() does to the log of the leader.
LEMMA StartFacts ==
    ASSUME RaftInv, RaftInv', NEW i \in Server, NEW v \in Value, Start(i, v)
    PROVE  /\ log[i] \in Seq(Entry) /\ log'[i] \in Seq(Entry) /\ currentTerm[i] \in Nat
           /\ Len(log'[i]) = Len(log[i]) + 1
           /\ \A y \in 1..Len(log[i]) : log'[i][y] = log[i][y]
           /\ log'[i][Len(log[i]) + 1].term = currentTerm[i]
           /\ \A j \in Server \ {i} : log'[j] = log[j]
           /\ state[i] = Leader /\ <<currentTerm[i], i>> \in leaders
           /\ UNCHANGED <<currentTerm, state, commitIndex, lastApplied, matchIndex, voteCalls,
                          voteReplies, appendCalls, appendReplies, ballots, leaders, applied,
                          reusedMatch>>
<1>. DEFINE e == [term |-> currentTerm[i], command |-> v]
<1>1. TypeOK /\ TypeOK' /\ InOffice
  BY DEF RaftInv, TypeInv, VoteInv
<1>2. /\ UNCHANGED <<currentTerm, state, commitIndex, lastApplied, matchIndex, voteCalls,
                     voteReplies, appendCalls, appendReplies, ballots, leaders, applied,
                     reusedMatch>>
      /\ state[i] = Leader /\ log' = [log EXCEPT ![i] = Append(@, e)]
  BY DEF Start, leaderVars, callVars, historyVars
<1>3. log[i] \in Seq(Entry) /\ log'[i] \in Seq(Entry) /\ currentTerm[i] \in Nat /\ e \in Entry
  BY <1>1 DEF TypeOK, Entry
<1>4. e.term = currentTerm[i]
  OBVIOUS
<1>. HIDE DEF e
<1>5. log'[i] = Append(log[i], e) /\ \A j \in Server \ {i} : log'[j] = log[j]
  BY <1>1, <1>2 DEF TypeOK
<1>6. /\ Len(log'[i]) = Len(log[i]) + 1 /\ log'[i][Len(log[i]) + 1] = e
      /\ \A y \in 1..Len(log[i]) : log'[i][y] = log[i][y]
  BY <1>3, <1>5, AppendProperties
<1>. QED BY <1>1, <1>2, <1>3, <1>4, <1>5, <1>6 DEF InOffice

\* A leader that appends extends the log of its term.
LEMMA LogHistoryStart ==
    ASSUME RaftInv, RaftInv', NEW H, LogHistory(H), NEW i \in Server, NEW v \in Value, Start(i, v),
           NEW G, G = [H EXCEPT ![currentTerm[i]] = log'[i]]
    PROVE  G \in Histories /\ Grows(H, G) /\ LogHistory(G)'
<1>1. TypeOK /\ TypeOK' /\ ElectionSafety' /\ InOffice'
  <2>1. (TypeInv /\ VoteInv => ElectionSafety)'
    BY OneLeader, PTL
  <2>. QED BY <2>1 DEF RaftInv, TypeInv, VoteInv
<1>2. /\ log[i] \in Seq(Entry) /\ log'[i] \in Seq(Entry) /\ currentTerm[i] \in Nat
      /\ Len(log'[i]) = Len(log[i]) + 1
      /\ \A y \in 1..Len(log[i]) : log'[i][y] = log[i][y]
      /\ log'[i][Len(log[i]) + 1].term = currentTerm[i]
      /\ \A j \in Server \ {i} : log'[j] = log[j]
      /\ state[i] = Leader /\ <<currentTerm[i], i>> \in leaders
      /\ UNCHANGED <<currentTerm, state, appendCalls, appendReplies, leaders>>
  BY StartFacts
<1>3. /\ H \in Histories /\ H[currentTerm[i]] = log[i]
      /\ Copied(log[i], H) /\ NoneAfter(log[i], currentTerm[i])
  BY <1>2 DEF LogHistory, LeadersOwn, LogsCopied
<1>4. G \in Histories /\ G[currentTerm[i]] = log'[i]
      /\ \A t \in Nat \ {currentTerm[i]} : G[t] = H[t]
  BY <1>2, <1>3 DEF Histories
<1>5. Agree(log'[i], log[i], Len(log[i]))
  BY <1>2 DEF Agree
<1>6. Grows(H, G)
  <2>. SUFFICES ASSUME NEW t \in Nat PROVE Agree(G[t], H[t], Len(H[t]))
    BY DEF Grows
  <2>1. CASE t = currentTerm[i]
    BY <1>3, <1>4, <1>5, <2>1
  <2>2. CASE t # currentTerm[i]
    <3>1. G[t] = H[t] /\ H[t] \in Seq(Entry)
      BY <1>3, <1>4, <2>2 DEF Histories
    <3>. QED BY <3>1 DEF Agree
  <2>. QED BY <2>1, <2>2
<1>7. Copied(log[i], G)
  BY <1>2, <1>3, <1>4, <1>6, CopiedGrows
<1>8. ASSUME NEW x \in 1..Len(log'[i])
      PROVE  Agree(log'[i], G[log'[i][x].term], x) /\ log'[i][x].term <= currentTerm[i]
  <2>1. CASE x \in 1..Len(log[i])
    <3>1. log'[i][x] = log[i][x] /\ log[i][x].term <= currentTerm[i]
      BY <1>2, <1>3, <2>1 DEF NoneAfter
    <3>2. Agree(log[i], G[log[i][x].term], x)
      BY <1>7, <2>1 DEF Copied
    <3>3. Agree(log'[i], G[log[i][x].term], x)
      BY <1>2, <2>1, <3>2 DEF Agree
    <3>. QED BY <3>1, <3>3
  <2>2. CASE x = Len(log[i]) + 1
    <3>1. log'[i][x].term = currentTerm[i] /\ G[log'[i][x].term] = log'[i]
      BY <1>2, <1>4, <2>2
    <3>2. Agree(log'[i], log'[i], x) /\ currentTerm[i] <= currentTerm[i]
      BY <1>2 DEF Agree
    <3>. QED BY <3>1, <3>2
  <2>. QED BY <1>2, <2>1, <2>2
<1>9. Copied(log'[i], G) /\ NoneAfter(log'[i], currentTerm[i])
  BY <1>8 DEF Copied, NoneAfter
<1>10. Sent' \subseteq Sent
  BY <1>2 DEF Sent
<1>11. \A j \in Server : state'[j] = Leader => <<currentTerm[j], j>> \in leaders'
  BY <1>1, <1>2 DEF InOffice
<1>12. leaders' = leaders \cup {<<currentTerm[i], i>>}
  BY <1>2
<1>. QED BY <1>1, <1>2, <1>4, <1>6, <1>9, <1>10, <1>11, <1>12, LogHistoryLeads

\* AppendEntries takes the entries of m.
Accepts(m) == /\ ~(m.term < currentTerm[m.to])
              /\ HasPrev(log[m.to], m.prevLogIndex, m.prevLogTerm)

\* What AppendEntries leaves alone, and what it does when it refuses.
LEMMA AppendFacts ==
    ASSUME RaftInv, RaftInv', NEW m \in appendCalls, AppendEntries(m)
    PROVE  /\ m \in Sent /\ m.to \in Server /\ m.term \in Nat /\ m.prevLogIndex \in Nat
           /\ m.entries \in Seq(Entry) /\ Len(m.entries) \in Nat /\ m.leaderCommit \in Nat
           /\ \A j \in Server \ {m.to} : /\ currentTerm'[j] = currentTerm[j]
                                         /\ state'[j] = state[j]
                                         /\ log'[j] = log[j]
                                         /\ commitIndex'[j] = commitIndex[j]
           /\ UNCHANGED <<lastApplied, matchIndex, voteCalls, voteReplies, ballots, leaders,
                          applied, reusedMatch>>
           /\ Sent' \subseteq Sent /\ Steady
           /\ ~Accepts(m) => log' = log /\ commitIndex' = commitIndex
           /\ Accepts(m) => currentTerm'[m.to] = m.term /\ state'[m.to] = Follower
           /\ \A r \in appendReplies' \ appendReplies : r.args = m /\ r.success = Accepts(m)
<1>1. TypeOK /\ TypeOK'
  BY DEF RaftInv, TypeInv
<1>2. /\ m \in Sent /\ m.to \in Server /\ m.term \in Nat /\ m.prevLogIndex \in Nat
      /\ m.entries \in Seq(Entry)
  BY <1>1, SentType DEF Sent
<1>3. m.leaderCommit \in Nat
  BY <1>1 DEF TypeOK, AppendEntriesArgs
<1>4. Sent' \subseteq Sent /\ Steady
  BY <1>1, NothingSent, AppendEntriesSteady
<1>5. UNCHANGED <<lastApplied, matchIndex, voteCalls, voteReplies, ballots, leaders,
                  applied, reusedMatch>>
  BY DEF AppendEntries, leaderVars, historyVars
<1>6. /\ currentTerm' = [currentTerm EXCEPT ![m.to] = IF m.term > currentTerm[m.to] THEN m.term ELSE @]
      /\ state' = [state EXCEPT ![m.to] = IF m.term < currentTerm[m.to] THEN @ ELSE Follower]
  BY DEF AppendEntries
<1>7. currentTerm[m.to] \in Nat
  BY <1>1, <1>2 DEF TypeOK
<1>9. /\ log' = [log EXCEPT ![m.to] =
                    IF Accepts(m) THEN MergeEntries(@, m.prevLogIndex, m.entries) ELSE @]
      /\ commitIndex' = [commitIndex EXCEPT ![m.to] =
                    IF Accepts(m)
                    THEN FollowerCommit(@, m.leaderCommit, m.prevLogIndex + Len(m.entries))
                    ELSE @]
      /\ appendReplies' = appendReplies \cup {AppendReply(m, m.to, currentTerm'[m.to], Accepts(m))}
  BY Zenon DEF AppendEntries, Accepts
<1>10. ASSUME NEW j \in Server \ {m.to}
       PROVE  /\ currentTerm'[j] = currentTerm[j] /\ state'[j] = state[j]
              /\ log'[j] = log[j] /\ commitIndex'[j] = commitIndex[j]
  BY <1>1, <1>6, <1>9 DEF TypeOK
<1>11. ~Accepts(m) => log' = log /\ commitIndex' = commitIndex
  BY <1>1, <1>9 DEF TypeOK
<1>12. Accepts(m) => currentTerm'[m.to] = m.term /\ state'[m.to] = Follower
  BY <1>1, <1>2, <1>6, <1>7, SMTT(30) DEF TypeOK, Accepts
<1>13. \A r \in appendReplies' \ appendReplies : r.args = m /\ r.success = Accepts(m)
  <2>1. /\ AppendReply(m, m.to, currentTerm'[m.to], Accepts(m)).args = m
        /\ AppendReply(m, m.to, currentTerm'[m.to], Accepts(m)).success = Accepts(m)
    BY DEF AppendReply
  <2>. QED BY <1>9, <2>1, Zenon
<1>. QED BY <1>2, <1>3, <1>4, <1>5, <1>10, <1>11, <1>12, <1>13

\* Taking the entries brings the log into line with the leader's up to the last of
\* them, and takes away nothing that was in line already.
LEMMA AppendAccepted ==
    ASSUME RaftInv, RaftInv', NEW H, LogHistory(H), NEW m \in appendCalls, AppendEntries(m),
           Accepts(m)
    PROVE  LET i == m.to
               h == H[m.term]
               last == m.prevLogIndex + Len(m.entries)
           IN  /\ h \in Seq(Entry) /\ log[i] \in Seq(Entry) /\ log'[i] \in Seq(Entry)
               /\ last \in Nat /\ last <= Len(h)
               /\ Agree(log'[i], h, last)
               /\ log'[i] = log[i] \/ Len(log'[i]) = last
               /\ \A c \in Nat : Agree(log[i], h, c) => Agree(log'[i], h, c)
               /\ commitIndex'[i] = FollowerCommit(commitIndex[i], m.leaderCommit, last)
<1>1. TypeOK /\ TypeOK'
  BY DEF RaftInv, TypeInv
<1>2. /\ m \in Sent /\ m.to \in Server /\ m.term \in Nat /\ m.prevLogIndex \in Nat
      /\ m.entries \in Seq(Entry) /\ Len(m.entries) \in Nat /\ currentTerm[m.to] \in Nat
  BY <1>1, AppendFacts DEF TypeOK
<1>3. ~(m.term < currentTerm[m.to]) /\ HasPrev(log[m.to], m.prevLogIndex, m.prevLogTerm)
  BY <1>2 DEF Accepts
<1>4. /\ log' = [log EXCEPT ![m.to] = MergeEntries(@, m.prevLogIndex, m.entries)]
      /\ commitIndex' = [commitIndex EXCEPT ![m.to] =
             FollowerCommit(@, m.leaderCommit, m.prevLogIndex + Len(m.entries))]
  BY <1>3, Zenon DEF AppendEntries
<1>5. /\ log'[m.to] = MergeEntries(log[m.to], m.prevLogIndex, m.entries)
      /\ commitIndex'[m.to] = FollowerCommit(commitIndex[m.to], m.leaderCommit,
                                             m.prevLogIndex + Len(m.entries))
  BY <1>1, <1>2, <1>4 DEF TypeOK
<1>6. /\ H \in Histories /\ H[m.term] \in Seq(Entry) /\ Copied(H[m.term], H)
      /\ log[m.to] \in Seq(Entry) /\ log'[m.to] \in Seq(Entry) /\ Copied(log[m.to], H)
      /\ PieceOf(m, H[m.term])
  BY <1>1, <1>2 DEF TypeOK, LogHistory, Histories, PastCopied, LogsCopied, CallsArePieces
<1>7. /\ m.prevLogIndex + Len(m.entries) <= Len(H[m.term])
      /\ TermAt(H[m.term], m.prevLogIndex) = m.prevLogTerm
      /\ \A k \in 1..Len(m.entries) : m.entries[k] = H[m.term][m.prevLogIndex + k]
  BY <1>6 DEF PieceOf
<1>8. LET n == MergeEntries(log[m.to], m.prevLogIndex, m.entries)
      IN  /\ n \in Seq(Entry)
          /\ Agree(n, H[m.term], m.prevLogIndex + Len(m.entries))
          /\ n = log[m.to] \/ Len(n) = m.prevLogIndex + Len(m.entries)
          /\ \A c \in Nat : Agree(log[m.to], H[m.term], c) => Agree(n, H[m.term], c)
  BY <1>2, <1>3, <1>6, <1>7, MergeOutcome
<1>. QED BY <1>2, <1>5, <1>6, <1>7, <1>8

\* The entries that AppendEntries takes are copied from the leader of their term.
LEMMA LogHistoryAppend ==
    ASSUME RaftInv, RaftInv', NEW H, LogHistory(H), NEW m \in appendCalls, AppendEntries(m)
    PROVE  LogHistory(H)'
<1>1. TypeOK /\ TypeOK'
  BY DEF RaftInv, TypeInv
<1>2. /\ m \in Sent /\ m.to \in Server /\ m.term \in Nat
      /\ \A j \in Server \ {m.to} : currentTerm'[j] = currentTerm[j] /\ log'[j] = log[j]
      /\ Sent' \subseteq Sent /\ Steady /\ leaders' = leaders
      /\ ~Accepts(m) => log' = log
      /\ Accepts(m) => currentTerm'[m.to] = m.term
  BY AppendFacts
<1>3. CallsArePieces(H)'
  BY <1>2 DEF LogHistory, CallsArePieces
<1>4. CASE ~Accepts(m)
  BY <1>1, <1>2, <1>3, <1>4, LogHistoryKept DEF Steady, CallsArePieces
<1>5. CASE Accepts(m)
  <2>1. PastLed(H)'
    BY <1>2 DEF LogHistory, PastLed
  <2>2. LeadersOwn(H)'
    BY <1>2 DEF LogHistory, LeadersOwn, Steady
  <2>3. LogsCopied(H)'
    <3>. SUFFICES ASSUME NEW j \in Server
         PROVE  Copied(log'[j], H) /\ NoneAfter(log'[j], currentTerm'[j])
      BY DEF LogsCopied
    <3>1. CASE j # m.to
      BY <1>2, <3>1 DEF LogHistory, LogsCopied
    <3>2. CASE j = m.to
      <4>. DEFINE h == H[m.term]
                  last == m.prevLogIndex + Len(m.entries)
      <4>1. /\ h \in Seq(Entry) /\ log[j] \in Seq(Entry) /\ log'[j] \in Seq(Entry)
            /\ Agree(log'[j], h, last)
            /\ log'[j] = log[j] \/ Len(log'[j]) = last
        BY <1>5, <3>2, AppendAccepted
      <4>2. /\ H \in Histories /\ Copied(h, H) /\ NoneAfter(h, m.term)
            /\ Copied(log[j], H) /\ NoneAfter(log[j], currentTerm[j])
        BY <1>2 DEF LogHistory, PastCopied, LogsCopied
      <4>. HIDE DEF h, last
      <4>3. CASE log'[j] = log[j]
        <5>1. ASSUME NEW x \in 1..Len(log[j]) PROVE log[j][x].term <= m.term
          <6>1. log[j][x].term \in Nat /\ log[j][x].term <= currentTerm[j]
            BY <4>1, <4>2, EntryTerm DEF NoneAfter
          <6>2. currentTerm[j] \in Nat /\ currentTerm[j] <= m.term
            <7>1. currentTerm[j] \in Nat
              BY <1>1 DEF TypeOK
            <7>. QED BY <1>2, <1>5, <3>2, <7>1 DEF Accepts
          <6>. QED BY <1>2, <6>1, <6>2
        <5>. QED BY <1>2, <1>5, <3>2, <4>2, <4>3, <5>1 DEF NoneAfter
      <4>4. CASE Len(log'[j]) = last
        <5>1. Agree(log'[j], h, Len(log'[j]))
          BY <4>1, <4>4
        <5>2. Copied(log'[j], H)
          BY <4>1, <4>2, <5>1, CopiedPrefix
        <5>3. NoneAfter(log'[j], m.term)
          BY <4>1, <4>2, <5>1 DEF NoneAfter, Agree
        <5>. QED BY <1>2, <1>5, <3>2, <5>2, <5>3
      <4>. QED BY <4>1, <4>3, <4>4
    <3>. QED BY <3>1, <3>2
  <2>. QED BY <1>3, <2>1, <2>2, <2>3 DEF LogHistory, PastCopied
<1>. QED BY <1>4, <1>5

\* Standing for election and voting elect nobody and touch no log.
LEMMA StandsFacts ==
    ASSUME RaftInv, RaftInv', NEW i \in Server, StartElection(i)
    PROVE  /\ currentTerm[i] \in Nat /\ currentTerm'[i] = currentTerm[i] + 1
           /\ state'[i] = Candidate
           /\ \A j \in Server \ {i} : currentTerm'[j] = currentTerm[j] /\ state'[j] = state[j]
           /\ \A j \in Server : currentTerm[j] \in Nat /\ currentTerm'[j] >= currentTerm[j]
           /\ ballots' = ballots \cup {<<currentTerm[i] + 1, i, i>>}
           /\ UNCHANGED <<log, commitIndex, lastApplied, matchIndex, appendCalls, appendReplies,
                          leaders, applied, reusedMatch>>
<1>1. TypeOK /\ TypeOK'
  BY DEF RaftInv, TypeInv
<1>2. /\ currentTerm' = [currentTerm EXCEPT ![i] = @ + 1]
      /\ state' = [state EXCEPT ![i] = Candidate]
      /\ ballots' = ballots \cup {<<currentTerm[i] + 1, i, i>>}
      /\ UNCHANGED <<log, commitIndex, lastApplied, matchIndex, appendCalls, appendReplies,
                     leaders, applied, reusedMatch>>
  BY DEF StartElection, leaderVars
<1>3. /\ currentTerm[i] \in Nat /\ currentTerm'[i] = currentTerm[i] + 1 /\ state'[i] = Candidate
      /\ \A j \in Server \ {i} : currentTerm'[j] = currentTerm[j] /\ state'[j] = state[j]
      /\ \A j \in Server : currentTerm[j] \in Nat
  BY <1>1, <1>2 DEF TypeOK
<1>4. ASSUME NEW j \in Server PROVE currentTerm'[j] >= currentTerm[j]
  BY <1>3
<1>. QED BY <1>2, <1>3, <1>4

\* Every step leaves a history of the leaders' logs.
LEMMA LogHistoryNext ==
    ASSUME RaftInv, RaftInv', NEW H, LogHistory(H), [Next]_vars
    PROVE  \E G : LogHistory(G)'
<1>0. TypeInv /\ TypeInv' /\ TypeOK /\ TypeOK'
  BY DEF RaftInv, TypeInv
<1>1. ASSUME log' = log, leaders' = leaders, Steady, Sent' \subseteq Sent
      PROVE  LogHistory(H)'
  <2>1. \A m \in Sent' : PieceOf(m, H[m.term])
    BY <1>1 DEF LogHistory, CallsArePieces
  <2>. QED BY <1>0, <1>1, <2>1, LogHistoryKept DEF Steady
<1>2. ASSUME NEW i \in Server, StartElection(i) PROVE LogHistory(H)'
  <2>1. /\ UNCHANGED <<log, leaders, appendCalls, appendReplies>>
        /\ \A j \in Server : /\ currentTerm'[j] >= currentTerm[j]
                             /\ state'[j] = Leader => state[j] = Leader /\ currentTerm'[j] = currentTerm[j]
    BY <1>2, StandsFacts DEF Leader, Candidate
  <2>2. \A m \in Sent' : PieceOf(m, H[m.term])
    BY <2>1 DEF LogHistory, CallsArePieces, Sent
  <2>. QED BY <1>0, <2>1, <2>2, LogHistoryKept
<1>3. ASSUME NEW m \in voteCalls, RequestVote(m) PROVE LogHistory(H)'
  <2>1. leaders' = leaders
    BY <1>3 DEF RequestVote
  <2>. QED BY <1>0, <1>1, <1>3, <2>1, RequestVoteSteady, NothingSent
<1>4. ASSUME NEW r \in voteReplies, RequestVoteReply(r) PROVE \E G : LogHistory(G)'
  <2>1. CASE Wins(r.args.from, r)
    BY <2>1, LogHistoryWins
  <2>2. CASE ~Wins(r.args.from, r)
    BY <1>0, <1>1, <1>4, <2>2, RequestVoteReplySteady, NothingSent
  <2>. QED BY <2>1, <2>2
<1>5. ASSUME NEW i \in Server, NEW v \in Value, Start(i, v) PROVE \E G : LogHistory(G)'
  BY <1>5, LogHistoryStart
<1>6. ASSUME NEW i \in Server, NEW j \in Server, i # j, SendAppendEntries(i, j)
      PROVE  LogHistory(H)'
  <2>1. Steady /\ log' = log /\ leaders' = leaders
    BY <1>0, <1>6, OthersSteady
  <2>2. ASSUME NEW m \in Sent' PROVE PieceOf(m, H[m.term])
    <3>1. CASE m \in Sent
      BY <3>1 DEF LogHistory, CallsArePieces
    <3>2. CASE m \notin Sent
      <4>1. state[i] = Leader /\ m.term = currentTerm[i] /\ PieceOf(m, log[i])
        BY <1>0, <1>6, <3>2, SendPiece
      <4>2. H[m.term] = log[i]
        BY <4>1 DEF LogHistory, LeadersOwn
      <4>. QED BY <4>1, <4>2
    <3>. QED BY <3>1, <3>2
  <2>. QED BY <1>0, <2>1, <2>2, LogHistoryKept DEF Steady
<1>7. ASSUME NEW m \in appendCalls, AppendEntries(m) PROVE LogHistory(H)'
  BY <1>7, LogHistoryAppend
<1>8. CASE \/ \E r \in appendReplies : AppendEntriesReply(r)
           \/ \E i \in Server : ApplyLoop(i)
           \/ LoseCall
           \/ \E S \in RestartGroups : Restart(S)
           \/ UNCHANGED vars
  BY <1>0, <1>1, <1>8, OthersSteady, NothingSent
<1>. QED BY <1>2, <1>3, <1>4, <1>5, <1>6, <1>7, <1>8 DEF Next, Ticker, DebugForceElection

\* Logs that are copied from one history match.
LEMMA CopiedMatch == TypeInv /\ (\E H : LogHistory(H)) => LogMatching
<1>. SUFFICES ASSUME TypeInv, NEW H, LogHistory(H),
                     NEW i \in Server, NEW j \in Server, NEW k \in 1..Len(log[i]),
                     k <= Len(log[j]), log[i][k].term = log[j][k].term
     PROVE  \A x \in 1..k : log[i][x] = log[j][x]
  BY DEF LogMatching
<1>1. log[i] \in Seq(Entry) /\ log[j] \in Seq(Entry)
  BY DEF TypeInv, TypeOK
<1>2. H \in Histories /\ Copied(log[i], H) /\ Copied(log[j], H)
  BY DEF LogHistory, LogsCopied
<1>3. Agree(log[i], log[j], k)
  BY <1>1, <1>2, CopiedAgree
<1>. QED BY <1>3 DEF Agree

\* The record of elections is kept in every reachable state.
THEOREM ElectInvariant == Spec => []ElectInv
<1>. QED BY ElectInvInit, ElectInvNext, TypeInvariant, PTL DEF Spec

\* Two logs that hold an entry of one term at one index are equal up to it, for any
\* group, any commands, and whatever is lost, reordered or restarted.
THEOREM LogMatchingCorrect == Spec => []LogMatching
<1>. DEFINE Inv == \E H : LogHistory(H)
<1>1. Init => Inv
  BY LogHistoryInit
<1>2. RaftInv /\ RaftInv' /\ Inv /\ [Next]_vars => Inv'
  BY LogHistoryNext
<1>3. Spec => []RaftInv
  BY TypeInvariant, VoteInvariant, ElectInvariant, PTL DEF RaftInv
<1>4. TypeInv /\ Inv => LogMatching
  BY CopiedMatch
<1>5. RaftInv => TypeInv
  BY DEF RaftInv
<1>. HIDE DEF Inv
<1>. QED BY <1>1, <1>2, <1>3, <1>4, <1>5, PTL DEF Spec

-----------------------------------------------------------------------------
(* The history of what peers have confirmed.  A[t][v] is how much of the log  *)
(* of the leader of term t peer v has held in term t: what it accepted from   *)
(* that leader, or, for the leader, its log.                                 *)

Confirmations == [Nat -> [Server -> Nat]]

\* The k-th entry of the leader of term t is one that it appended itself.
Own(H, t, k) == k \in 1..Len(H[t]) /\ H[t][k].term = t

\* The peers that have confirmed the k-th entry of term t, or still may.
Open(A, t, k) == {v \in Server : A[t][v] >= k \/ currentTerm[v] <= t}

\* A majority has confirmed the k-th entry of term t, or still may.
Choosable(A, t, k) == Majority(Cardinality(Open(A, t, k)))

\* A peer confirms what the leader has, and then is in the leader's term at least.
ConfirmedFit(H, A) ==
    \A t \in Nat, v \in Server : A[t][v] <= Len(H[t]) /\ (A[t][v] > 0 => t <= currentTerm[v])

\* A leader has confirmed all of its log.
LeadersConfirm(A) ==
    \A i \in Server : state[i] = Leader => A[currentTerm[i]][i] = Len(log[i])

\* What a peer has confirmed, it keeps, unless a majority has moved on without it.
Kept(H, A) ==
    \A t \in Nat, k \in Nat, v \in Server :
        Own(H, t, k) /\ k <= A[t][v] /\ Choosable(A, t, k) => Agree(log[v], H[t], k)

\* A leader starts with all that an earlier term may have committed.
Complete(H, A) ==
    \A t \in Nat, k \in Nat : \A l \in leaders :
        t < l[1] /\ Own(H, t, k) /\ Choosable(A, t, k) => Agree(H[l[1]], H[t], k)

\* A candidate has what those who voted for it have confirmed.
Elects(H, A) ==
    \A t \in Nat, k \in Nat : \A b \in ballots :
        /\ currentTerm[b[3]] = b[1] /\ state[b[3]] = Candidate
        /\ t < b[1] /\ Own(H, t, k) /\ k <= A[t][b[2]] /\ Choosable(A, t, k)
        => Agree(log[b[3]], H[t], k)

\* A reply of success is a confirmation.
RepliesConfirm(A) ==
    \A r \in appendReplies :
        r.success => r.args.prevLogIndex + Len(r.args.entries) <= A[r.args.term][r.args.to]

CommitHistory(H, A) ==
    /\ A \in Confirmations
    /\ ConfirmedFit(H, A)
    /\ LeadersConfirm(A)
    /\ Kept(H, A)
    /\ Complete(H, A)
    /\ Elects(H, A)
    /\ RepliesConfirm(A)

\* Before the first election nothing is confirmed.
LEMMA CommitHistoryInit ==
    Init => CommitHistory([t \in Nat |-> << >>], [t \in Nat |-> [v \in Server |-> 0]])
<1>. SUFFICES ASSUME Init
     PROVE  CommitHistory([t \in Nat |-> << >>], [t \in Nat |-> [v \in Server |-> 0]])
  OBVIOUS
<1>. DEFINE H == [t \in Nat |-> << >>]
            A == [t \in Nat |-> [v \in Server |-> 0]]
<1>1. \A t \in Nat : H[t] = << >> /\ Len(H[t]) = 0 /\ \A v \in Server : A[t][v] = 0
  OBVIOUS
<1>2. A \in Confirmations
  BY DEF Confirmations
<1>. HIDE DEF H, A
<1>3. \A t \in Nat, k \in Nat : ~Own(H, t, k)
  BY <1>1 DEF Own
<1>4. leaders = {} /\ ballots = {} /\ appendReplies = {} /\ \A i \in Server : state[i] # Leader
  BY DEF Init, Follower, Leader
<1>5. CommitHistory(H, A)
  BY <1>1, <1>2, <1>3, <1>4 DEF CommitHistory, ConfirmedFit, LeadersConfirm, Kept, Complete,
     Elects, RepliesConfirm
<1>. QED BY <1>5 DEF H, A

\* From A to B peer i has confirmed n entries of term t, and nothing else changes.
Confirms(A, B, t, i, n) ==
    /\ B \in Confirmations
    /\ B[t][i] = n
    /\ \A u \in Nat, v \in Server : u # t \/ v # i => B[u][v] = A[u][v]

\* Every confirmation can be added.
LEMMA ConfirmsExists ==
    ASSUME NEW A \in Confirmations, NEW T \in Nat, NEW i \in Server, NEW n \in Nat
    PROVE  \E B : Confirms(A, B, T, i, n)
<1>1. A \in [Nat -> [Server -> Nat]]
  BY DEF Confirmations
<1>2. A[T] \in [Server -> Nat]
  BY <1>1
<1>3. PICK f \in [Server -> Nat] : f = [A[T] EXCEPT ![i] = n]
  BY <1>2
<1>4. PICK B : B = [A EXCEPT ![T] = f]
  OBVIOUS
<1>5. B \in Confirmations
  BY <1>1, <1>3, <1>4 DEF Confirmations
<1>6. B[T] = f /\ f[i] = n /\ \A v \in Server \ {i} : f[v] = A[T][v]
  BY <1>1, <1>2, <1>3, <1>4
<1>7. \A t \in Nat \ {T} : B[t] = A[t]
  BY <1>1, <1>4
<1>8. Confirms(A, B, T, i, n)
  BY <1>5, <1>6, <1>7 DEF Confirms
<1>. QED BY <1>8

\* Confirmations are numbers.
LEMMA ConfirmedType ==
    ASSUME NEW A \in Confirmations, NEW t \in Nat, NEW v \in Server
    PROVE  A[t][v] \in Nat
<1>1. A[t] \in [Server -> Nat]
  BY DEF Confirmations
<1>. QED BY <1>1

\* What may be chosen after a step might have been chosen before it.
LEMMA ChoosableBefore ==
    ASSUME TypeOK, TypeOK', NEW A \in Confirmations, NEW B \in Confirmations,
           NEW t \in Nat, NEW k \in Nat,
           \A v \in Server : currentTerm'[v] >= currentTerm[v],
           \A v \in Server : B[t][v] = A[t][v] \/ currentTerm[v] <= t,
           Choosable(B, t, k)'
    PROVE  Choosable(A, t, k)
<1>. DEFINE S == {v \in Server : B[t][v] >= k \/ currentTerm'[v] <= t}
<1>1. Majority(Cardinality(S))
  BY DEF Choosable, Open
<1>2. ASSUME NEW v \in S PROVE v \in Open(A, t, k)
  <2>1. currentTerm[v] \in Nat /\ currentTerm'[v] \in Nat /\ A[t][v] \in Nat /\ B[t][v] \in Nat
    BY DEF TypeOK, Confirmations
  <2>. QED BY <2>1 DEF Open
<1>3. S \subseteq Open(A, t, k) /\ Open(A, t, k) \subseteq Server
  BY <1>2 DEF Open
<1>. HIDE DEF S
<1>4. Majority(Cardinality(Open(A, t, k)))
  BY <1>1, <1>3, MajorityGrows
<1>. QED BY <1>4 DEF Choosable

\* What agrees with a log that agrees with a third agrees with the third.
LEMMA AgreeTrans ==
    ASSUME NEW a \in Seq(Entry), NEW b \in Seq(Entry), NEW c \in Seq(Entry), NEW k \in Nat,
           Agree(a, b, k), Agree(b, c, k)
    PROVE  Agree(a, c, k)
BY DEF Agree

\* Agreement is mutual.
LEMMA AgreeMutual ==
    ASSUME NEW a, NEW b, NEW k, Agree(a, b, k)
    PROVE  Agree(b, a, k)
BY DEF Agree

\* What agrees up to n agrees up to less.
LEMMA AgreeLess ==
    ASSUME NEW a \in Seq(Entry), NEW b \in Seq(Entry), NEW n \in Nat, NEW k \in 0..n, Agree(a, b, n)
    PROVE  Agree(a, b, k)
BY DEF Agree

\* The comparison in RequestVote: a log c that is at least as new as v has the
\* entry of term t that v has, if the leaders after t had it.
LEMMA UpToDateHas ==
    ASSUME NEW H, LogHistory(H), NEW c \in Seq(Entry), NEW v \in Seq(Entry),
           Copied(c, H), Copied(v, H), NEW t \in Nat, NEW k \in Nat, Own(H, t, k),
           \A l \in leaders : t < l[1] => Agree(H[l[1]], H[t], k),
           Agree(v, H[t], k), UpToDate(LastTerm(c), Len(c), v)
    PROVE  Agree(c, H[t], k)
<1>1. H \in Histories /\ \A u \in Nat : H[u] \in Seq(Entry) /\ Copied(H[u], H) /\ NoneAfter(H[u], u)
  BY DEF LogHistory, Histories, PastCopied
<1>2. k \in 1..Len(H[t]) /\ H[t][k].term = t /\ k \in 1..Len(v) /\ v[k] = H[t][k]
  BY <1>1 DEF Own, Agree
<1>3. LastTerm(v) = v[Len(v)].term /\ Len(v) \in 1..Len(v) /\ LastTerm(v) \in Nat
  <2>1. Len(v) \in 1..Len(v) /\ Len(v) # 0
    BY <1>2
  <2>. QED BY <2>1, EntryTerm DEF LastTerm, TermAt
<1>4. t <= LastTerm(v)
  BY <1>1, <1>2, <1>3, CopiedSorted
<1>5. Len(c) # 0 /\ t <= LastTerm(c) /\ LastTerm(c) \in Nat
  <2>1. Len(c) \in Nat
    OBVIOUS
  <2>2. LastTerm(c) \in Nat
    <3>1. Len(c) \in 0..Len(c)
      BY <2>1
    <3>. QED BY <3>1, TermAtType DEF LastTerm
  <2>3. CASE Len(c) = 0
    <3>1. LastTerm(c) = 0
      BY <2>3 DEF LastTerm, TermAt
    <3>. QED BY <1>2, <1>3, <1>4, <2>3, <3>1 DEF UpToDate
  <2>. QED BY <1>3, <1>4, <2>2, <2>3 DEF UpToDate
<1>6. PICK u \in Nat : u = LastTerm(c) /\ u = c[Len(c)].term
  BY <1>5 DEF LastTerm, TermAt
<1>7. Len(c) \in 1..Len(c) /\ Agree(c, H[u], Len(c))
  BY <1>5, <1>6 DEF Copied
<1>8. CASE u = t
  <2>1. LastTerm(v) = t
    BY <1>3, <1>4, <1>6, <1>8 DEF UpToDate
  <2>2. Len(c) >= Len(v)
    BY <1>6, <1>8, <2>1 DEF UpToDate
  <2>3. k \in 0..Len(c)
    BY <1>2, <2>2
  <2>. QED BY <1>1, <1>7, <1>8, <2>3, AgreeLess
<1>9. CASE u > t
  <2>1. PICK l \in leaders : l[1] = u
    <3>1. Len(H[u]) # 0
      BY <1>1, <1>7 DEF Agree
    <3>2. H[u] # << >>
      BY <3>1
    <3>. QED BY <3>2 DEF LogHistory, PastLed
  <2>2. Agree(H[u], H[t], k)
    BY <1>9, <2>1
  <2>3. k <= Len(c)
    <3>. SUFFICES ASSUME Len(c) < k PROVE FALSE
      BY <1>2
    <3>1. k \in 1..Len(H[u]) /\ H[u][k].term = t
      BY <1>1, <1>2, <2>2, SMTT(30) DEF Agree
    <3>2. Len(c) \in 1..k /\ H[u][Len(c)].term = u
      <4>1. c[Len(c)] = H[u][Len(c)]
        BY <1>7 DEF Agree
      <4>2. Len(c) \in 1..k
        BY <1>2, <1>7
      <4>. QED BY <1>6, <4>1, <4>2
    <3>3. H[u][Len(c)].term <= H[u][k].term
      BY <1>1, <3>1, <3>2, CopiedSorted
    <3>. QED BY <1>9, <3>1, <3>2, <3>3
  <2>4. Agree(c, H[u], k)
    BY <1>1, <1>2, <1>7, <2>3, AgreeLess
  <2>. QED BY <1>1, <2>2, <2>4, AgreeTrans
<1>. QED BY <1>5, <1>6, <1>8, <1>9

\* A step that touches no log, puts nobody in office and confirms nothing keeps the
\* history, as far as votes and replies do.
LEMMA CommitHistoryKept ==
    ASSUME RaftInv, RaftInv', NEW H, NEW A, LogHistory(H), CommitHistory(H, A),
           log' = log, leaders' = leaders,
           \A j \in Server : /\ currentTerm'[j] >= currentTerm[j]
                             /\ state'[j] = Leader => state[j] = Leader /\ currentTerm'[j] = currentTerm[j],
           Elects(H, A)', RepliesConfirm(A)'
    PROVE  CommitHistory(H, A)'
<1>1. TypeOK /\ TypeOK' /\ A \in Confirmations
  BY DEF RaftInv, TypeInv, CommitHistory
<1>2. ASSUME NEW t \in Nat, NEW k \in Nat, Choosable(A, t, k)' PROVE Choosable(A, t, k)
  BY <1>1, <1>2, ChoosableBefore
<1>3. ConfirmedFit(H, A)'
  <2>. SUFFICES ASSUME NEW t \in Nat, NEW v \in Server, A[t][v] > 0 PROVE t <= currentTerm'[v]
    BY DEF CommitHistory, ConfirmedFit
  <2>1. t <= currentTerm[v]
    BY DEF CommitHistory, ConfirmedFit
  <2>2. currentTerm[v] \in Nat /\ currentTerm'[v] \in Nat
    BY <1>1 DEF TypeOK
  <2>. QED BY <2>1, <2>2
<1>4. LeadersConfirm(A)'
  BY DEF CommitHistory, LeadersConfirm
<1>5. Kept(H, A)'
  BY <1>2 DEF CommitHistory, Kept, Own
<1>6. Complete(H, A)'
  BY <1>2 DEF CommitHistory, Complete, Own
<1>. QED BY <1>1, <1>3, <1>4, <1>5, <1>6 DEF CommitHistory

\* A steady step in which nobody votes leaves the candidates what they have.
LEMMA ElectsSteady ==
    ASSUME RaftInv, RaftInv', NEW H, NEW A, CommitHistory(H, A), Steady, log' = log,
           \A t \in Nat, k \in Nat : \A b \in ballots' \ ballots :
               /\ currentTerm'[b[3]] = b[1] /\ state'[b[3]] = Candidate
               /\ t < b[1] /\ Own(H, t, k) /\ k <= A[t][b[2]] /\ Choosable(A, t, k)
               => Agree(log[b[3]], H[t], k)
    PROVE  Elects(H, A)'
<1>1. TypeOK /\ TypeOK' /\ A \in Confirmations
  BY DEF RaftInv, TypeInv, CommitHistory
<1>2. ASSUME NEW t \in Nat, NEW k \in Nat, Choosable(A, t, k)' PROVE Choosable(A, t, k)
  BY <1>1, <1>2, ChoosableBefore DEF Steady
<1>. SUFFICES ASSUME NEW t \in Nat, NEW k \in Nat, NEW b \in ballots',
                     currentTerm'[b[3]] = b[1], state'[b[3]] = Candidate,
                     t < b[1], Own(H, t, k), k <= A[t][b[2]], Choosable(A, t, k)'
     PROVE  Agree(log[b[3]], H[t], k)
  BY DEF Elects, Own
<1>3. CASE b \in ballots
  <2>1. b[3] \in Server
    BY <1>1, <1>3, HistoryTypes
  <2>2. state[b[3]] = Candidate /\ currentTerm[b[3]] = b[1]
    BY <2>1 DEF Steady
  <2>. QED BY <1>2, <1>3, <2>2 DEF CommitHistory, Elects
<1>4. CASE b \notin ballots
  BY <1>2, <1>4
<1>. QED BY <1>3, <1>4

\* Steady steps without votes, confirmations or changes to a log.
LEMMA CommitHistorySteady ==
    ASSUME RaftInv, RaftInv', NEW H, NEW A, LogHistory(H), CommitHistory(H, A),
           Steady, log' = log, leaders' = leaders, ballots' = ballots,
           \A r \in appendReplies' \ appendReplies : ~r.success
    PROVE  CommitHistory(H, A)'
<1>1. RepliesConfirm(A)'
  BY DEF CommitHistory, RepliesConfirm
<1>2. Elects(H, A)'
  BY ElectsSteady
<1>. QED BY <1>1, <1>2, CommitHistoryKept DEF Steady

\* A peer that stands votes for a log that has what it has confirmed: its own.
LEMMA CommitHistoryStands ==
    ASSUME RaftInv, RaftInv', NEW H, NEW A, LogHistory(H), CommitHistory(H, A),
           NEW i \in Server, StartElection(i)
    PROVE  CommitHistory(H, A)'
<1>1. TypeOK /\ TypeOK' /\ A \in Confirmations /\ BallotsPast
  BY DEF RaftInv, TypeInv, CommitHistory, ElectInv
<1>2. /\ currentTerm[i] \in Nat /\ currentTerm'[i] = currentTerm[i] + 1
      /\ state'[i] = Candidate
      /\ \A j \in Server \ {i} : currentTerm'[j] = currentTerm[j] /\ state'[j] = state[j]
      /\ \A j \in Server : currentTerm[j] \in Nat /\ currentTerm'[j] >= currentTerm[j]
      /\ ballots' = ballots \cup {<<currentTerm[i] + 1, i, i>>}
      /\ UNCHANGED <<log, appendReplies, leaders>>
  BY StandsFacts
<1>3. ASSUME NEW t \in Nat, NEW k \in Nat, Choosable(A, t, k)' PROVE Choosable(A, t, k)
  BY <1>1, <1>2, <1>3, ChoosableBefore
<1>4. Elects(H, A)'
  <2>. SUFFICES ASSUME NEW t \in Nat, NEW k \in Nat, NEW b \in ballots',
                       currentTerm'[b[3]] = b[1], state'[b[3]] = Candidate,
                       t < b[1], Own(H, t, k), k <= A[t][b[2]], Choosable(A, t, k)'
       PROVE  Agree(log[b[3]], H[t], k)
    BY <1>2 DEF Elects, Own
  <2>1. Choosable(A, t, k)
    BY <1>3
  <2>2. CASE b \in ballots
    <3>1. b[3] \in Server /\ b[1] \in Nat /\ b[1] <= currentTerm[b[3]]
      BY <1>1, <2>2, HistoryTypes DEF BallotsPast
    <3>2. b[3] # i
      BY <1>2, <3>1
    <3>3. state[b[3]] = Candidate /\ currentTerm[b[3]] = b[1]
      BY <1>2, <3>1, <3>2
    <3>. QED BY <2>1, <2>2, <3>3 DEF CommitHistory, Elects
  <2>3. CASE b = <<currentTerm[i] + 1, i, i>>
    <3>1. b[2] = i /\ b[3] = i
      BY <2>3
    <3>. QED BY <2>1, <3>1 DEF CommitHistory, Kept
  <2>. QED BY <1>2, <2>2, <2>3
<1>5. RepliesConfirm(A)'
  BY <1>2 DEF CommitHistory, RepliesConfirm
<1>. QED BY <1>2, <1>4, <1>5, CommitHistoryKept DEF Leader, Candidate

\* A peer votes for a log that has what it has confirmed: one as new as its own.
LEMMA CommitHistoryVotes ==
    ASSUME RaftInv, RaftInv', NEW H, NEW A, LogHistory(H), CommitHistory(H, A),
           NEW m \in voteCalls, RequestVote(m)
    PROVE  CommitHistory(H, A)'
<1>1. TypeOK /\ TypeOK' /\ VoteCallsFit
  BY DEF RaftInv, TypeInv, ElectInv
<1>2. Steady /\ log' = log
  BY <1>1, RequestVoteSteady
<1>3. UNCHANGED <<leaders, appendReplies>>
  BY DEF RequestVote
<1>4. m.from \in Server /\ m.to \in Server /\ m.term \in Nat
  BY <1>1, HistoryTypes
<1>5. ASSUME NEW t \in Nat, NEW k \in Nat, NEW b \in ballots' \ ballots,
             currentTerm'[b[3]] = b[1], state'[b[3]] = Candidate,
             t < b[1], Own(H, t, k), k <= A[t][b[2]], Choosable(A, t, k)
      PROVE  Agree(log[b[3]], H[t], k)
  <2>1. /\ b = <<m.term, m.to, m.from>>
        /\ UpToDate(m.lastLogTerm, m.lastLogIndex, log[m.to])
    BY DEF RequestVote
  <2>2. b[1] = m.term /\ b[2] = m.to /\ b[3] = m.from
    BY <2>1
  <2>3. state[m.from] = Candidate /\ currentTerm[m.from] = m.term
    BY <1>2, <1>4, <1>5, <2>2 DEF Steady
  <2>4. m.lastLogIndex = Len(log[m.from]) /\ m.lastLogTerm = LastTerm(log[m.from])
    BY <1>1, <2>3 DEF VoteCallsFit
  <2>5. Agree(log[m.to], H[t], k)
    BY <1>4, <1>5, <2>2 DEF CommitHistory, Kept
  <2>6. \A l \in leaders : t < l[1] => Agree(H[l[1]], H[t], k)
    BY <1>5 DEF CommitHistory, Complete
  <2>7. /\ log[m.from] \in Seq(Entry) /\ log[m.to] \in Seq(Entry)
        /\ Copied(log[m.from], H) /\ Copied(log[m.to], H)
    BY <1>1, <1>4 DEF TypeOK, LogHistory, LogsCopied
  <2>8. Agree(log[m.from], H[t], k)
    BY <1>5, <2>1, <2>4, <2>5, <2>6, <2>7, UpToDateHas
  <2>. QED BY <2>2, <2>8
<1>6. Elects(H, A)'
  BY <1>2, <1>5, ElectsSteady
<1>7. RepliesConfirm(A)'
  BY <1>3 DEF CommitHistory, RepliesConfirm
<1>. QED BY <1>2, <1>3, <1>6, <1>7, CommitHistoryKept DEF Steady

\* A peer that accepts entries confirms them, and keeps what it has confirmed before:
\* the leader whose entries it takes has all of that too.
LEMMA CommitHistoryAccept ==
    ASSUME RaftInv, RaftInv', NEW H, NEW A, LogHistory(H), CommitHistory(H, A),
           NEW m \in appendCalls, AppendEntries(m), Accepts(m),
           NEW n \in {A[m.term][m.to], m.prevLogIndex + Len(m.entries)},
           n >= A[m.term][m.to], n >= m.prevLogIndex + Len(m.entries),
           NEW B, Confirms(A, B, m.term, m.to, n)
    PROVE  /\ CommitHistory(H, B)'
           /\ \A t \in Nat, v \in Server : A[t][v] <= B[t][v]
<1>. DEFINE T == m.term
            i == m.to
            last == m.prevLogIndex + Len(m.entries)
<1>1. TypeOK /\ TypeOK' /\ A \in Confirmations /\ VoteInv
  BY DEF RaftInv, TypeInv, CommitHistory
<1>2. /\ m \in Sent /\ i \in Server /\ T \in Nat
      /\ \A j \in Server \ {i} : log'[j] = log[j] /\ currentTerm'[j] = currentTerm[j]
      /\ UNCHANGED <<ballots, leaders>> /\ Steady
      /\ currentTerm'[i] = T /\ state'[i] = Follower
      /\ \A r \in appendReplies' \ appendReplies : r.args = m
  BY AppendFacts
<1>3. /\ H[T] \in Seq(Entry) /\ log[i] \in Seq(Entry) /\ log'[i] \in Seq(Entry)
      /\ last \in Nat /\ last <= Len(H[T]) /\ Agree(log'[i], H[T], last)
      /\ \A c \in Nat : Agree(log[i], H[T], c) => Agree(log'[i], H[T], c)
  BY AppendAccepted
<1>4. currentTerm[i] \in Nat /\ currentTerm[i] <= T
  <2>1. currentTerm[i] \in Nat
    BY <1>1, <1>2 DEF TypeOK
  <2>. QED BY <1>2, <2>1 DEF Accepts
<1>5. <<T, m.from>> \in leaders /\ <<T, m.from>>[1] = T
  BY <1>1, <1>2 DEF VoteInv, InOffice
<1>. HIDE DEF T, i, last
<1>a. A[T][i] \in Nat /\ n \in Nat /\ A[T][i] <= n /\ last <= n /\ (n = last \/ n = A[T][i])
  <2>1. A[T][i] \in Nat
    BY <1>1, <1>2, ConfirmedType
  <2>2. n \in {A[T][i], last} /\ n >= A[T][i] /\ n >= last
    BY DEF T, i, last
  <2>. QED BY <1>3, <2>1, <2>2
<1>6. /\ B \in Confirmations /\ B[T][i] = n
      /\ \A t \in Nat, v \in Server : /\ A[t][v] \in Nat /\ B[t][v] \in Nat
                                      /\ t # T \/ v # i => B[t][v] = A[t][v]
  <2>1. Confirms(A, B, T, i, n)
    BY DEF T, i
  <2>. QED BY <1>1, <2>1, ConfirmedType DEF Confirms
<1>7. \A t \in Nat, v \in Server : A[t][v] \in Nat /\ B[t][v] \in Nat /\ A[t][v] <= B[t][v]
  BY <1>6, <1>a
<1>8. ASSUME NEW t \in Nat, NEW k \in Nat, Choosable(B, t, k)' PROVE Choosable(A, t, k)
  <2>1. \A v \in Server : B[t][v] = A[t][v] \/ currentTerm[v] <= t
    BY <1>4, <1>6
  <2>. QED BY <1>1, <1>2, <1>6, <1>8, <2>1, ChoosableBefore DEF Steady
<1>9. ConfirmedFit(H, B)'
  <2>. SUFFICES ASSUME NEW t \in Nat, NEW v \in Server
       PROVE  B[t][v] <= Len(H[t]) /\ (B[t][v] > 0 => t <= currentTerm'[v])
    BY DEF ConfirmedFit
  <2>1. A[t][v] <= Len(H[t]) /\ (A[t][v] > 0 => t <= currentTerm[v])
    BY DEF CommitHistory, ConfirmedFit
  <2>2. currentTerm[v] \in Nat /\ currentTerm'[v] \in Nat /\ currentTerm[v] <= currentTerm'[v]
    BY <1>1, <1>2 DEF TypeOK, Steady
  <2>3. CASE t = T /\ v = i
    BY <1>2, <1>3, <1>6, <1>a, <2>1, <2>3
  <2>4. CASE t # T \/ v # i
    BY <1>6, <2>1, <2>2, <2>4
  <2>. QED BY <2>3, <2>4
<1>10. LeadersConfirm(B)'
  <2>. SUFFICES ASSUME NEW j \in Server, state'[j] = Leader
       PROVE  B[currentTerm'[j]][j] = Len(log'[j])
    BY DEF LeadersConfirm
  <2>1. /\ j # i /\ state[j] = Leader /\ currentTerm'[j] = currentTerm[j] /\ log'[j] = log[j]
        /\ currentTerm[j] \in Nat
    BY <1>1, <1>2 DEF Steady, TypeOK, Follower, Leader
  <2>. QED BY <1>6, <2>1 DEF CommitHistory, LeadersConfirm
<1>11. Kept(H, B)'
  <2>. SUFFICES ASSUME NEW t \in Nat, NEW k \in Nat, NEW v \in Server,
                       Own(H, t, k), k <= B[t][v], Choosable(B, t, k)'
       PROVE  Agree(log'[v], H[t], k)
    BY DEF Kept, Own
  <2>1. Choosable(A, t, k) /\ H[t] \in Seq(Entry)
    BY <1>8 DEF LogHistory, Histories
  <2>2. ASSUME k <= A[t][v] PROVE Agree(log[v], H[t], k)
    BY <2>1, <2>2 DEF CommitHistory, Kept
  <2>3. CASE v # i
    BY <1>2, <1>6, <2>2, <2>3
  <2>4. CASE v = i /\ t = T
    <3>1. CASE k <= A[T][i]
      BY <1>3, <2>2, <2>4, <3>1
    <3>2. CASE k > A[T][i]
      <4>1. A[T][i] \in Nat
        BY <1>2, <1>7
      <4>2. k \in 0..last
        BY <1>3, <1>6, <1>a, <2>4, <3>2, <4>1
      <4>. QED BY <1>3, <2>4, <4>2, AgreeLess
    <3>. QED BY <1>2, <1>7, <3>1, <3>2
  <2>5. CASE v = i /\ t # T
    <3>1. A[t][i] = B[t][i] /\ k <= A[t][i] /\ k >= 1
      BY <1>2, <1>6, <2>5 DEF Own
    <3>2. t <= currentTerm[i]
      <4>1. A[t][i] \in Nat /\ A[t][i] > 0
        <5>1. A[t][i] \in Nat
          BY <1>2, <1>7
        <5>. QED BY <3>1, <5>1
      <4>2. ConfirmedFit(H, A)
        BY DEF CommitHistory
      <4>. QED BY <1>2, <4>1, <4>2 DEF ConfirmedFit
    <3>3. t < T
      BY <1>2, <1>4, <2>5, <3>2
    <3>4. Agree(log[i], H[t], k)
      BY <2>2, <2>5, <3>1
    <3>5. Agree(H[T], H[t], k)
      BY <1>5, <2>1, <3>3 DEF CommitHistory, Complete
    <3>6. Agree(H[t], H[T], k)
      BY <3>5, AgreeMutual
    <3>7. Agree(log[i], H[T], k)
      BY <1>3, <2>1, <3>4, <3>6, AgreeTrans
    <3>8. Agree(log'[i], H[T], k)
      BY <1>3, <3>7
    <3>. QED BY <1>3, <2>1, <2>5, <3>5, <3>8, AgreeTrans
  <2>. QED BY <2>3, <2>4, <2>5
<1>12. Complete(H, B)'
  BY <1>2, <1>8 DEF CommitHistory, Complete, Own
<1>13. Elects(H, B)'
  <2>. SUFFICES ASSUME NEW t \in Nat, NEW k \in Nat, NEW b \in ballots,
                       currentTerm'[b[3]] = b[1], state'[b[3]] = Candidate,
                       t < b[1], Own(H, t, k), k <= B[t][b[2]], Choosable(B, t, k)'
       PROVE  Agree(log'[b[3]], H[t], k)
    BY <1>2 DEF Elects, Own
  <2>1. b[1] \in Nat /\ b[2] \in Server /\ b[3] \in Server /\ b[1] <= currentTerm[b[2]]
    BY <1>1, HistoryTypes DEF VoteInv, BallotsRecorded
  <2>2. /\ state[b[3]] = Candidate /\ currentTerm[b[3]] = b[1] /\ log'[b[3]] = log[b[3]]
    BY <1>2, <2>1 DEF Steady
  <2>3. t # T \/ b[2] # i
    BY <1>2, <1>4, <2>1
  <2>4. k <= A[t][b[2]]
    BY <1>6, <2>1, <2>3
  <2>. QED BY <1>8, <2>2, <2>4 DEF CommitHistory, Elects
<1>14. RepliesConfirm(B)'
  <2>. SUFFICES ASSUME NEW r \in appendReplies', r.success
       PROVE  r.args.prevLogIndex + Len(r.args.entries) <= B[r.args.term][r.args.to]
    BY DEF RepliesConfirm
  <2>1. CASE r.args = m
    <3>1. last <= B[T][i]
      BY <1>6, <1>a
    <3>. QED BY <2>1, <3>1 DEF T, i, last
  <2>2. CASE r.args # m
    <3>1. r \in appendReplies
      BY <1>2, <2>2
    <3>2. r.args \in Sent
      BY <3>1 DEF Sent
    <3>3. r.args.to \in Server /\ r.args.term \in Nat /\ r.args.prevLogIndex \in Nat
          /\ Len(r.args.entries) \in Nat
      BY <1>1, <3>2, SentType
    <3>4. r.args.prevLogIndex + Len(r.args.entries) <= A[r.args.term][r.args.to]
      BY <3>1 DEF CommitHistory, RepliesConfirm
    <3>5. A[r.args.term][r.args.to] \in Nat /\ B[r.args.term][r.args.to] \in Nat
          /\ A[r.args.term][r.args.to] <= B[r.args.term][r.args.to]
      BY <1>7, <3>3
    <3>6. r.args.prevLogIndex + Len(r.args.entries) \in Nat
      BY <1>1, <3>2, SentLast
    <3>. QED BY <3>4, <3>5, <3>6
  <2>. QED BY <2>1, <2>2
<1>15. CommitHistory(H, B)'
  <2>1. B \in Confirmations
    BY <1>6
  <2>. QED BY <1>9, <1>10, <1>11, <1>12, <1>13, <1>14, <2>1, Zenon DEF CommitHistory
<1>. QED BY <1>7, <1>15

\* A leader that is elected has what those who voted for it have confirmed, and so
\* all that an earlier term may have committed.
LEMMA CommitHistoryWins ==
    ASSUME RaftInv, RaftInv', NEW H, NEW A, LogHistory(H), CommitHistory(H, A),
           NEW r \in voteReplies, NEW i, Wins(i, r),
           NEW G, G = [H EXCEPT ![currentTerm[i]] = log[i]],
           NEW B, Confirms(A, B, currentTerm[i], i, Len(log[i]))
    PROVE  /\ CommitHistory(G, B)'
           /\ \A t \in Nat, v \in Server : A[t][v] <= B[t][v]
<1>. DEFINE T == currentTerm[i]
<1>1. TypeOK /\ TypeOK' /\ A \in Confirmations /\ VoteInv
  BY DEF RaftInv, TypeInv, CommitHistory
<1>2. /\ i \in Server /\ T \in Nat
      /\ UNCHANGED <<currentTerm, log, ballots, appendReplies>>
      /\ state[i] = Candidate /\ state'[i] = Leader
      /\ \A j \in Server \ {i} : state'[j] = state[j]
      /\ leaders' = leaders \cup {<<T, i>>}
      /\ Majority(Cardinality(Voters(T, i)))
      /\ \A l \in leaders : l[1] # T
  BY WinsFacts
<1>3. H \in Histories /\ H[T] = << >> /\ Copied(log[i], H) /\ log[i] \in Seq(Entry)
  BY <1>1, <1>2 DEF LogHistory, PastLed, LogsCopied, TypeOK
<1>4. /\ G[T] = log[i] /\ \A t \in Nat \ {T} : G[t] = H[t]
      /\ \A t \in Nat : H[t] \in Seq(Entry)
  BY <1>2, <1>3 DEF Histories
<1>5. /\ B \in Confirmations /\ B[T][i] = Len(log[i])
      /\ \A t \in Nat, v \in Server : t # T \/ v # i => B[t][v] = A[t][v]
  BY DEF Confirms
<1>. HIDE DEF T
<1>6. \A t \in Nat, v \in Server : A[t][v] \in Nat /\ B[t][v] \in Nat
  BY <1>1, <1>5, ConfirmedType
<1>7. \A v \in Server : A[T][v] = 0
  <2>. SUFFICES ASSUME NEW v \in Server PROVE A[T][v] = 0
    OBVIOUS
  <2>1. A[T][v] <= Len(H[T]) /\ Len(H[T]) = 0
    BY <1>2, <1>3 DEF CommitHistory, ConfirmedFit
  <2>. QED BY <1>2, <1>6, <2>1
<1>8. \A t \in Nat, v \in Server : A[t][v] <= B[t][v]
  <2>. SUFFICES ASSUME NEW t \in Nat, NEW v \in Server PROVE A[t][v] <= B[t][v]
    OBVIOUS
  <2>1. CASE t = T
    BY <1>2, <1>6, <1>7, <2>1
  <2>2. CASE t # T
    BY <1>5, <1>6, <2>2
  <2>. QED BY <2>1, <2>2
<1>9. ASSUME NEW t \in Nat, NEW k \in Nat, Own(G, t, k)
      PROVE  t # T /\ G[t] = H[t] /\ Own(H, t, k) /\ \A v \in Server : B[t][v] = A[t][v]
  <2>1. t # T
    <3>. SUFFICES ASSUME t = T PROVE FALSE
      OBVIOUS
    <3>1. k \in 1..Len(log[i]) /\ log[i][k].term = T
      BY <1>4, <1>9 DEF Own
    <3>2. Agree(log[i], H[T], k)
      BY <1>3, <3>1 DEF Copied
    <3>. QED BY <1>3, <3>1, <3>2 DEF Agree
  <2>. QED BY <1>4, <1>5, <1>9, <2>1 DEF Own
<1>10. ASSUME NEW t \in Nat, NEW k \in Nat, Own(G, t, k), Choosable(B, t, k)'
       PROVE  Choosable(A, t, k)
  <2>1. \A v \in Server : B[t][v] = A[t][v] \/ currentTerm[v] <= t
    BY <1>9, <1>10
  <2>2. \A v \in Server : currentTerm'[v] >= currentTerm[v]
    BY <1>1, <1>2 DEF TypeOK
  <2>. QED BY <1>1, <1>5, <1>10, <2>1, <2>2, ChoosableBefore
<1>11. ConfirmedFit(G, B)'
  <2>. SUFFICES ASSUME NEW t \in Nat, NEW v \in Server
       PROVE  B[t][v] <= Len(G[t]) /\ (B[t][v] > 0 => t <= currentTerm[v])
    BY <1>2 DEF ConfirmedFit
  <2>1. CASE t # T
    BY <1>4, <1>5, <2>1 DEF CommitHistory, ConfirmedFit
  <2>2. CASE t = T /\ v # i
    <3>1. B[t][v] = 0
      BY <1>5, <1>7, <2>2
    <3>. QED BY <1>3, <1>4, <2>2, <3>1
  <2>3. CASE t = T /\ v = i
    <3>1. Len(log[i]) \in Nat /\ T = currentTerm[i]
      BY <1>3 DEF T
    <3>. QED BY <1>2, <1>4, <1>5, <2>3, <3>1
  <2>. QED BY <2>1, <2>2, <2>3
<1>12. LeadersConfirm(B)'
  <2>. SUFFICES ASSUME NEW j \in Server, state'[j] = Leader
       PROVE  B[currentTerm[j]][j] = Len(log[j])
    BY <1>2 DEF LeadersConfirm
  <2>1. CASE j = i
    BY <1>5, <2>1 DEF T
  <2>2. CASE j # i
    <3>1. currentTerm[j] \in Nat /\ state[j] = Leader
      BY <1>1, <1>2, <2>2 DEF TypeOK
    <3>. QED BY <1>5, <2>2, <3>1 DEF CommitHistory, LeadersConfirm
  <2>. QED BY <2>1, <2>2
<1>13. Kept(G, B)'
  <2>. SUFFICES ASSUME NEW t \in Nat, NEW k \in Nat, NEW v \in Server,
                       Own(G, t, k), k <= B[t][v], Choosable(B, t, k)'
       PROVE  Agree(log[v], G[t], k)
    BY <1>2 DEF Kept, Own
  <2>1. G[t] = H[t] /\ Own(H, t, k) /\ k <= A[t][v] /\ Choosable(A, t, k)
    BY <1>9, <1>10
  <2>. QED BY <2>1 DEF CommitHistory, Kept
<1>14. Complete(G, B)'
  <2>. SUFFICES ASSUME NEW t \in Nat, NEW k \in Nat, NEW l \in leaders',
                       t < l[1], Own(G, t, k), Choosable(B, t, k)'
       PROVE  Agree(G[l[1]], G[t], k)
    BY DEF Complete, Own
  <2>1. G[t] = H[t] /\ Own(H, t, k) /\ Choosable(A, t, k)
    BY <1>9, <1>10
  <2>2. CASE l \in leaders
    <3>1. G[l[1]] = H[l[1]]
      BY <1>1, <1>2, <1>4, <2>2, HistoryTypes
    <3>. QED BY <2>1, <2>2, <3>1 DEF CommitHistory, Complete
  <2>3. CASE l = <<T, i>>
    <3>1. l[1] = T
      BY <2>3
    <3>2. Open(A, t, k) \cap Voters(T, i) # {}
      <4>1. Open(A, t, k) \subseteq Server /\ Voters(T, i) \subseteq Server
        BY DEF Open, Voters
      <4>. QED BY <1>2, <2>1, <4>1, MajoritiesMeet DEF Choosable
    <3>3. PICK v \in Server : v \in Open(A, t, k) /\ <<T, v, i>> \in ballots
      BY <3>2 DEF Voters
    <3>4. <<T, v, i>>[1] = T /\ <<T, v, i>>[2] = v /\ <<T, v, i>>[3] = i
      OBVIOUS
    <3>5. T <= currentTerm[v]
      BY <1>1, <3>3, <3>4 DEF VoteInv, BallotsRecorded
    <3>6. k <= A[t][v]
      <4>1. currentTerm[v] \in Nat
        BY <1>1 DEF TypeOK
      <4>2. ~(currentTerm[v] <= t)
        BY <1>2, <3>1, <3>5, <4>1
      <4>3. A[t][v] >= k
        BY <3>3, <4>2 DEF Open
      <4>. QED BY <1>6, <4>3
    <3>7. Agree(log[i], H[t], k)
      BY <1>2, <2>1, <3>1, <3>3, <3>4, <3>6 DEF CommitHistory, Elects, T
    <3>. QED BY <1>4, <2>1, <3>1, <3>7
  <2>. QED BY <1>2, <2>2, <2>3
<1>15. Elects(G, B)'
  <2>. SUFFICES ASSUME NEW t \in Nat, NEW k \in Nat, NEW b \in ballots,
                       currentTerm[b[3]] = b[1], state'[b[3]] = Candidate,
                       t < b[1], Own(G, t, k), k <= B[t][b[2]], Choosable(B, t, k)'
       PROVE  Agree(log[b[3]], G[t], k)
    BY <1>2 DEF Elects, Own
  <2>1. b[2] \in Server /\ b[3] \in Server
    BY <1>1, HistoryTypes
  <2>2. G[t] = H[t] /\ Own(H, t, k) /\ k <= A[t][b[2]] /\ Choosable(A, t, k)
    BY <1>9, <1>10, <2>1
  <2>3. state[b[3]] = Candidate
    BY <1>2, <2>1 DEF Leader, Candidate
  <2>. QED BY <2>2, <2>3 DEF CommitHistory, Elects
<1>16. RepliesConfirm(B)'
  <2>. SUFFICES ASSUME NEW s \in appendReplies, s.success
       PROVE  s.args.prevLogIndex + Len(s.args.entries) <= B[s.args.term][s.args.to]
    BY <1>2 DEF RepliesConfirm
  <2>1. s.args \in Sent
    BY DEF Sent
  <2>2. s.args.to \in Server /\ s.args.term \in Nat
    BY <1>1, <2>1, SentType
  <2>3. s.args.prevLogIndex + Len(s.args.entries) \in Nat
    BY <1>1, <2>1, SentLast
  <2>4. s.args.prevLogIndex + Len(s.args.entries) <= A[s.args.term][s.args.to]
    BY DEF CommitHistory, RepliesConfirm
  <2>. QED BY <1>6, <1>8, <2>2, <2>3, <2>4
<1>17. CommitHistory(G, B)'
  BY <1>5, <1>11, <1>12, <1>13, <1>14, <1>15, <1>16, Zenon DEF CommitHistory
<1>. QED BY <1>8, <1>17

\* A leader that appends confirms the new entry itself; the new entry cannot be
\* committed any more if a later leader has been elected.
LEMMA CommitHistoryStart ==
    ASSUME RaftInv, RaftInv', NEW H, NEW A, LogHistory(H), CommitHistory(H, A),
           NEW i \in Server, NEW w \in Value, Start(i, w),
           NEW G, G = [H EXCEPT ![currentTerm[i]] = log'[i]],
           NEW B, Confirms(A, B, currentTerm[i], i, Len(log'[i]))
    PROVE  /\ CommitHistory(G, B)'
           /\ \A t \in Nat, v \in Server : A[t][v] <= B[t][v]
<1>. DEFINE T == currentTerm[i]
<1>1. TypeOK /\ TypeOK' /\ A \in Confirmations /\ VoteInv
  BY DEF RaftInv, TypeInv, CommitHistory
<1>2. /\ log[i] \in Seq(Entry) /\ log'[i] \in Seq(Entry) /\ T \in Nat
      /\ Len(log'[i]) = Len(log[i]) + 1
      /\ \A y \in 1..Len(log[i]) : log'[i][y] = log[i][y]
      /\ \A j \in Server \ {i} : log'[j] = log[j]
      /\ state[i] = Leader
      /\ UNCHANGED <<currentTerm, state, appendReplies, ballots, leaders>>
  BY StartFacts
<1>3. H \in Histories /\ H[T] = log[i] /\ A[T][i] = Len(log[i]) /\ Len(log[i]) \in Nat
  BY <1>2 DEF LogHistory, LeadersOwn, CommitHistory, LeadersConfirm
<1>4. /\ G[T] = log'[i] /\ \A t \in Nat \ {T} : G[t] = H[t]
      /\ \A t \in Nat : H[t] \in Seq(Entry) /\ G[t] \in Seq(Entry)
      /\ \A t \in Nat : Agree(G[t], H[t], Len(H[t]))
  <2>1. G \in Histories /\ Grows(H, G)
    BY LogHistoryStart
  <2>2. G[T] = log'[i] /\ \A t \in Nat \ {T} : G[t] = H[t]
    BY <1>2, <1>3 DEF Histories
  <2>. QED BY <1>3, <2>1, <2>2 DEF Histories, Grows
<1>5. /\ B \in Confirmations /\ B[T][i] = Len(log'[i])
      /\ \A t \in Nat, v \in Server : t # T \/ v # i => B[t][v] = A[t][v]
  BY DEF Confirms
<1>. HIDE DEF T
<1>6. \A t \in Nat, v \in Server : A[t][v] \in Nat /\ B[t][v] \in Nat
  BY <1>1, <1>5, ConfirmedType
<1>7. \A t \in Nat, v \in Server : A[t][v] <= B[t][v]
  <2>. SUFFICES ASSUME NEW t \in Nat, NEW v \in Server PROVE A[t][v] <= B[t][v]
    OBVIOUS
  <2>1. CASE t = T /\ v = i
    BY <1>2, <1>3, <1>5, <2>1
  <2>2. CASE t # T \/ v # i
    BY <1>5, <1>6, <2>2
  <2>. QED BY <2>1, <2>2
<1>8. ASSUME NEW t \in Nat, NEW v \in Server
      PROVE  A[t][v] <= Len(H[t]) /\ Len(H[t]) \in Nat /\ Len(G[t]) \in Nat /\ Len(H[t]) <= Len(G[t])
  BY <1>4 DEF CommitHistory, ConfirmedFit, Agree
<1>9. ASSUME NEW t \in Nat, NEW k \in Nat, Own(G, t, k), k <= Len(H[t])
      PROVE  Own(H, t, k) /\ Agree(H[t], G[t], k)
  <2>1. k \in 1..Len(H[t]) /\ G[t][k] = H[t][k]
    BY <1>4, <1>9 DEF Own, Agree
  <2>2. Agree(G[t], H[t], k)
    <3>1. k \in 0..Len(H[t]) /\ Len(H[t]) \in Nat
      BY <1>4, <2>1
    <3>. QED BY <1>4, <3>1, AgreeLess
  <2>. QED BY <1>9, <2>1, <2>2, AgreeMutual DEF Own
<1>10. ASSUME NEW t \in Nat, NEW k \in Nat, Choosable(B, t, k)' PROVE Choosable(A, t, k)
  <2>1. \A v \in Server : currentTerm'[v] >= currentTerm[v]
    BY <1>1, <1>2 DEF TypeOK
  <2>2. \A v \in Server : B[t][v] = A[t][v] \/ currentTerm[v] <= t
    <3>1. T <= T
      BY <1>2
    <3>. QED BY <1>5, <3>1 DEF T
  <2>. QED BY <1>1, <1>5, <1>10, <2>1, <2>2, ChoosableBefore
<1>11. ConfirmedFit(G, B)'
  <2>. SUFFICES ASSUME NEW t \in Nat, NEW v \in Server
       PROVE  B[t][v] <= Len(G[t]) /\ (B[t][v] > 0 => t <= currentTerm[v])
    BY <1>2 DEF ConfirmedFit
  <2>1. CASE t # T \/ v # i
    <3>1. A[t][v] > 0 => t <= currentTerm[v]
      BY DEF CommitHistory, ConfirmedFit
    <3>. QED BY <1>5, <1>6, <1>8, <2>1, <3>1
  <2>2. CASE t = T /\ v = i
    <3>1. T <= currentTerm[i] /\ Len(log'[i]) \in Nat
      BY <1>2 DEF T
    <3>. QED BY <1>4, <1>5, <2>2, <3>1
  <2>. QED BY <2>1, <2>2
<1>12. LeadersConfirm(B)'
  <2>. SUFFICES ASSUME NEW j \in Server, state[j] = Leader
       PROVE  B[currentTerm[j]][j] = Len(log'[j])
    BY <1>2 DEF LeadersConfirm
  <2>1. CASE j = i
    BY <1>5, <2>1 DEF T
  <2>2. CASE j # i
    <3>1. currentTerm[j] \in Nat /\ log'[j] = log[j]
      BY <1>1, <1>2, <2>2 DEF TypeOK
    <3>. QED BY <1>5, <2>2, <3>1 DEF CommitHistory, LeadersConfirm
  <2>. QED BY <2>1, <2>2
<1>13. Kept(G, B)'
  <2>. SUFFICES ASSUME NEW t \in Nat, NEW k \in Nat, NEW v \in Server,
                       Own(G, t, k), k <= B[t][v], Choosable(B, t, k)'
       PROVE  Agree(log'[v], G[t], k)
    BY DEF Kept, Own
  <2>1. CASE t = T /\ v = i
    <3>1. k <= Len(log'[i])
      BY <1>5, <2>1
    <3>. QED BY <1>2, <1>4, <2>1, <3>1 DEF Agree
  <2>2. CASE t # T \/ v # i
    <3>1. k <= A[t][v] /\ k <= Len(H[t])
      BY <1>5, <1>6, <1>8, <2>2
    <3>2. Own(H, t, k) /\ Agree(H[t], G[t], k) /\ Choosable(A, t, k)
      BY <1>9, <1>10, <3>1
    <3>3. Agree(log[v], H[t], k)
      BY <3>1, <3>2 DEF CommitHistory, Kept
    <3>4. log[v] \in Seq(Entry) /\ log'[v] \in Seq(Entry)
      BY <1>1 DEF TypeOK
    <3>5. Agree(log[v], G[t], k)
      BY <1>4, <3>2, <3>3, <3>4, AgreeTrans
    <3>6. Agree(log'[v], log[v], k)
      <4>1. k <= Len(log[v])
        BY <3>3 DEF Agree
      <4>2. CASE v = i
        BY <1>2, <3>4, <4>1, <4>2 DEF Agree
      <4>3. CASE v # i
        BY <1>2, <3>4, <4>1, <4>3 DEF Agree
      <4>. QED BY <4>2, <4>3
    <3>. QED BY <1>4, <3>4, <3>5, <3>6, AgreeTrans
  <2>. QED BY <2>1, <2>2
<1>14. Complete(G, B)'
  <2>. SUFFICES ASSUME NEW t \in Nat, NEW k \in Nat, NEW l \in leaders,
                       t < l[1], Own(G, t, k), Choosable(B, t, k)'
       PROVE  Agree(G[l[1]], G[t], k)
    BY <1>2 DEF Complete, Own
  <2>0. l[1] \in Nat /\ l[2] \in Server
    BY <1>1, HistoryTypes
  <2>1. k <= Len(H[t])
    <3>. SUFFICES ASSUME k > Len(H[t]) PROVE FALSE
      BY <1>4
    <3>1. t = T /\ k = Len(log[i]) + 1
      BY <1>2, <1>3, <1>4 DEF Own
    <3>2. ASSUME NEW v \in Server, B[T][v] >= k \/ currentTerm[v] <= T PROVE currentTerm[v] <= T
      <4>1. CASE v = i
        BY <1>2, <4>1 DEF T
      <4>2. CASE v # i
        <5>1. A[T][v] <= Len(log[i])
          BY <1>2, <1>3 DEF CommitHistory, ConfirmedFit
        <5>2. B[T][v] = A[T][v] /\ A[T][v] \in Nat
          BY <1>2, <1>5, <1>6, <4>2
        <5>3. ~(B[T][v] >= k)
          BY <1>3, <3>1, <5>1, <5>2
        <5>. QED BY <3>2, <5>3
      <4>. QED BY <4>1, <4>2
    <3>. DEFINE S == {v \in Server : B[T][v] >= k \/ currentTerm[v] <= T}
    <3>3. Majority(Cardinality(S))
      BY <1>2, <3>1 DEF Choosable, Open
    <3>4. Majority(Cardinality(Voters(l[1], l[2])))
      BY <1>1 DEF VoteInv, LeadersElected
    <3>5. S \cap Voters(l[1], l[2]) # {}
      <4>1. S \subseteq Server /\ Voters(l[1], l[2]) \subseteq Server
        BY DEF Voters
      <4>. HIDE DEF S
      <4>. QED BY <3>3, <3>4, <4>1, MajoritiesMeet
    <3>6. PICK v \in Server : v \in S /\ <<l[1], v, l[2]>> \in ballots
      BY <3>5 DEF Voters
    <3>7. <<l[1], v, l[2]>>[1] = l[1] /\ <<l[1], v, l[2]>>[2] = v
      OBVIOUS
    <3>8. l[1] <= currentTerm[v]
      BY <1>1, <3>6, <3>7 DEF VoteInv, BallotsRecorded
    <3>9. currentTerm[v] <= T /\ currentTerm[v] \in Nat
      BY <1>1, <3>2, <3>6 DEF TypeOK
    <3>. QED BY <1>2, <2>0, <3>1, <3>8, <3>9
  <2>2. Own(H, t, k) /\ Agree(H[t], G[t], k) /\ Choosable(A, t, k)
    BY <1>9, <1>10, <2>1
  <2>3. Agree(H[l[1]], H[t], k)
    BY <2>2 DEF CommitHistory, Complete
  <2>4. Agree(G[l[1]], H[l[1]], k)
    <3>1. k \in 0..Len(H[l[1]]) /\ Len(H[l[1]]) \in Nat
      BY <1>4, <2>0, <2>3 DEF Agree
    <3>. QED BY <1>4, <2>0, <3>1, AgreeLess
  <2>5. Agree(G[l[1]], H[t], k)
    BY <1>4, <2>0, <2>3, <2>4, AgreeTrans
  <2>. QED BY <1>4, <2>0, <2>2, <2>5, AgreeTrans
<1>15. Elects(G, B)'
  <2>. SUFFICES ASSUME NEW t \in Nat, NEW k \in Nat, NEW b \in ballots,
                       currentTerm[b[3]] = b[1], state[b[3]] = Candidate,
                       t < b[1], Own(G, t, k), k <= B[t][b[2]], Choosable(B, t, k)'
       PROVE  Agree(log'[b[3]], G[t], k)
    BY <1>2 DEF Elects, Own
  <2>1. b[1] \in Nat /\ b[2] \in Server /\ b[3] \in Server /\ b[1] <= currentTerm[b[2]]
    BY <1>1, HistoryTypes DEF VoteInv, BallotsRecorded
  <2>2. t # T \/ b[2] # i
    BY <1>2, <2>1 DEF T
  <2>3. k <= A[t][b[2]] /\ k <= Len(H[t])
    BY <1>5, <1>6, <1>8, <2>1, <2>2
  <2>4. Own(H, t, k) /\ Agree(H[t], G[t], k) /\ Choosable(A, t, k)
    BY <1>9, <1>10, <2>3
  <2>5. Agree(log[b[3]], H[t], k)
    BY <2>3, <2>4 DEF CommitHistory, Elects
  <2>6. log'[b[3]] = log[b[3]] /\ log[b[3]] \in Seq(Entry)
    BY <1>1, <1>2, <2>1 DEF Leader, Candidate, TypeOK
  <2>. QED BY <1>4, <2>4, <2>5, <2>6, AgreeTrans
<1>16. RepliesConfirm(B)'
  <2>. SUFFICES ASSUME NEW s \in appendReplies, s.success
       PROVE  s.args.prevLogIndex + Len(s.args.entries) <= B[s.args.term][s.args.to]
    BY <1>2 DEF RepliesConfirm
  <2>1. s.args \in Sent
    BY DEF Sent
  <2>2. s.args.to \in Server /\ s.args.term \in Nat
    BY <1>1, <2>1, SentType
  <2>3. s.args.prevLogIndex + Len(s.args.entries) \in Nat
    BY <1>1, <2>1, SentLast
  <2>4. s.args.prevLogIndex + Len(s.args.entries) <= A[s.args.term][s.args.to]
    BY DEF CommitHistory, RepliesConfirm
  <2>. QED BY <1>6, <1>7, <2>2, <2>3, <2>4
<1>17. CommitHistory(G, B)'
  BY <1>5, <1>11, <1>12, <1>13, <1>14, <1>15, <1>16, Zenon DEF CommitHistory
<1>. QED BY <1>7, <1>17

-----------------------------------------------------------------------------
(* What is committed and applied, as long as no leader has taken office with *)
(* a matchIndex of an earlier leadership.                                    *)

\* The n-th entry of the leader of term t is its own, and a majority has confirmed it.
Committed(H, A, t, n) ==
    Own(H, t, n) /\ Majority(Cardinality({v \in Server : A[t][v] >= n}))

\* The first c entries of l are the beginning of what some term, not after T, has
\* committed.
Settled(H, A, T, l, c) ==
    c = 0 \/ \E t \in Nat, n \in Nat : /\ t <= T /\ c <= n
                                       /\ Committed(H, A, t, n) /\ Agree(l, H[t], c)

\* The matchIndex of a leader counts what was confirmed in its term.
MatchFits(A) ==
    \A i, j \in Server : state[i] = Leader => matchIndex[i][j] <= A[currentTerm[i]][j]

CommitSettled(H, A) ==
    \A i \in Server : Settled(H, A, currentTerm[i], log[i], commitIndex[i])

\* The leaderCommit of a call is settled, and never lies beyond its entries.
CallSettled(H, A, m) == /\ Settled(H, A, m.term, H[m.term], m.leaderCommit)
                        /\ m.leaderCommit <= m.prevLogIndex + Len(m.entries)

CallsSettled(H, A) == \A m \in Sent : CallSettled(H, A, m)

\* What was applied was committed.
AppliedIn(H, A, a) ==
    \E t \in Nat, n \in Nat : Committed(H, A, t, n) /\ \E k \in 1..n : a = <<k, H[t][k]>>

AppliedSettled(H, A) == \A a \in applied : AppliedIn(H, A, a)

MatchHistory(H, A) ==
    /\ MatchFits(A)
    /\ CommitSettled(H, A)
    /\ CallsSettled(H, A)
    /\ AppliedSettled(H, A)

SafeHistory(H, A) ==
    /\ LogHistory(H)
    /\ CommitHistory(H, A)
    /\ ~reusedMatch => MatchHistory(H, A)

\* What is committed stays committed.
LEMMA CommittedGrows ==
    ASSUME NEW H \in Histories, NEW G \in Histories, Grows(H, G),
           NEW A \in Confirmations, NEW B \in Confirmations,
           \A t \in Nat, v \in Server : A[t][v] <= B[t][v],
           NEW t \in Nat, NEW n \in Nat, Committed(H, A, t, n)
    PROVE  /\ Committed(G, B, t, n) /\ n \in 1..Len(H[t]) /\ Agree(H[t], G[t], n)
           /\ \A k \in 1..n : G[t][k] = H[t][k]
<1>1. H[t] \in Seq(Entry) /\ G[t] \in Seq(Entry) /\ Agree(G[t], H[t], Len(H[t]))
  BY DEF Histories, Grows
<1>2. n \in 1..Len(H[t]) /\ H[t][n].term = t
  BY DEF Committed, Own
<1>3. Agree(G[t], H[t], n)
  BY <1>1, <1>2 DEF Agree
<1>4. Own(G, t, n)
  BY <1>1, <1>2, <1>3 DEF Own, Agree
<1>5. Majority(Cardinality({v \in Server : B[t][v] >= n}))
  <2>1. ASSUME NEW v \in Server, A[t][v] >= n PROVE B[t][v] >= n
    <3>1. A[t][v] \in Nat /\ B[t][v] \in Nat /\ A[t][v] <= B[t][v]
      BY ConfirmedType
    <3>. QED BY <2>1, <3>1
  <2>2. {v \in Server : A[t][v] >= n} \subseteq {v \in Server : B[t][v] >= n}
    BY <2>1
  <2>3. {v \in Server : B[t][v] >= n} \subseteq Server
    OBVIOUS
  <2>4. Majority(Cardinality({v \in Server : A[t][v] >= n}))
    BY DEF Committed
  <2>. QED BY <2>2, <2>3, <2>4, MajorityGrows
<1>6. Agree(H[t], G[t], n)
  BY <1>3, AgreeMutual
<1>. QED BY <1>2, <1>3, <1>4, <1>5, <1>6 DEF Committed, Agree

\* What is committed may be chosen.
LEMMA CommittedChoosable ==
    ASSUME NEW H, NEW A \in Confirmations, NEW t \in Nat, NEW n \in Nat, Committed(H, A, t, n)
    PROVE  Own(H, t, n) /\ Choosable(A, t, n)
<1>1. {v \in Server : A[t][v] >= n} \subseteq Open(A, t, n) /\ Open(A, t, n) \subseteq Server
  BY DEF Open
<1>2. Majority(Cardinality({v \in Server : A[t][v] >= n}))
  BY DEF Committed
<1>3. Majority(Cardinality(Open(A, t, n)))
  BY <1>1, <1>2, MajorityGrows
<1>. QED BY <1>3 DEF Choosable, Committed

\* What is settled stays settled in a log that keeps it.
LEMMA SettledGrows ==
    ASSUME NEW H \in Histories, NEW G \in Histories, Grows(H, G),
           NEW A \in Confirmations, NEW B \in Confirmations,
           \A t \in Nat, v \in Server : A[t][v] <= B[t][v],
           NEW T \in Nat, NEW U \in Nat, T <= U,
           NEW l \in Seq(Entry), NEW k \in Seq(Entry), NEW c \in Nat,
           Settled(H, A, T, l, c), c <= Len(l) => Agree(k, l, c)
    PROVE  Settled(G, B, U, k, c)
<1>1. CASE c = 0
  BY <1>1 DEF Settled
<1>2. CASE c # 0
  <2>1. PICK t \in Nat, n \in Nat : /\ t <= T /\ c <= n
                                    /\ Committed(H, A, t, n) /\ Agree(l, H[t], c)
    BY <1>2 DEF Settled
  <2>2. /\ Committed(G, B, t, n) /\ n \in 1..Len(H[t]) /\ Agree(H[t], G[t], n)
    BY <2>1, CommittedGrows
  <2>3. H[t] \in Seq(Entry) /\ G[t] \in Seq(Entry)
    BY DEF Histories
  <2>4. Agree(k, l, c)
    BY <2>1 DEF Agree
  <2>5. Agree(k, H[t], c)
    BY <2>1, <2>3, <2>4, AgreeTrans
  <2>6. Agree(H[t], G[t], c)
    <3>1. c \in 0..n
      BY <2>1
    <3>. QED BY <2>2, <2>3, <3>1, AgreeLess
  <2>7. Agree(k, G[t], c)
    BY <2>3, <2>5, <2>6, AgreeTrans
  <2>. QED BY <2>1, <2>2, <2>7 DEF Settled
<1>. QED BY <1>1, <1>2

\* A step keeps what is committed, sent and applied if what it adds is settled.
LEMMA MatchHistoryKept ==
    ASSUME RaftInv, RaftInv', NEW H, NEW G, NEW A, NEW B,
           LogHistory(H), CommitHistory(H, A), MatchHistory(H, A),
           G \in Histories, Grows(H, G), B \in Confirmations,
           \A t \in Nat, v \in Server : A[t][v] <= B[t][v],
           \A j \in Server : currentTerm'[j] >= currentTerm[j],
           MatchFits(B)',
           \A j \in Server : \/ Settled(G, B, currentTerm'[j], log'[j], commitIndex'[j])
                             \/ /\ commitIndex'[j] = commitIndex[j]
                                /\ log'[j] = log[j] \/ Agree(log'[j], log[j], Len(log[j])),
           \A m \in Sent' \ Sent : CallSettled(G, B, m),
           \A a \in applied' \ applied : AppliedIn(G, B, a)
    PROVE  MatchHistory(G, B)'
<1>1. TypeOK /\ TypeOK' /\ H \in Histories /\ A \in Confirmations
  BY DEF RaftInv, TypeInv, LogHistory, CommitHistory
<1>2. CommitSettled(G, B)'
  <2>. SUFFICES ASSUME NEW j \in Server, commitIndex'[j] = commitIndex[j],
                       log'[j] = log[j] \/ Agree(log'[j], log[j], Len(log[j]))
       PROVE  Settled(G, B, currentTerm'[j], log'[j], commitIndex[j])
    BY DEF CommitSettled
  <2>1. /\ currentTerm[j] \in Nat /\ currentTerm'[j] \in Nat /\ currentTerm[j] <= currentTerm'[j]
        /\ log[j] \in Seq(Entry) /\ log'[j] \in Seq(Entry) /\ commitIndex[j] \in Nat
    BY <1>1 DEF TypeOK
  <2>2. Settled(H, A, currentTerm[j], log[j], commitIndex[j])
    BY DEF MatchHistory, CommitSettled
  <2>3. commitIndex[j] <= Len(log[j]) => Agree(log'[j], log[j], commitIndex[j])
    BY <2>1 DEF Agree
  <2>. QED BY <1>1, <2>1, <2>2, <2>3, SettledGrows
<1>3. CallsSettled(G, B)'
  <2>. SUFFICES ASSUME NEW m \in Sent PROVE CallSettled(G, B, m)
    BY DEF CallsSettled
  <2>1. m.term \in Nat /\ m.leaderCommit \in Nat
    <3>1. m \in AppendEntriesArgs
      BY <1>1, SentType
    <3>. QED BY <3>1 DEF AppendEntriesArgs
  <2>2. H[m.term] \in Seq(Entry) /\ G[m.term] \in Seq(Entry) /\ Agree(G[m.term], H[m.term], Len(H[m.term]))
    BY <1>1, <2>1 DEF Histories, Grows
  <2>3. m.leaderCommit <= Len(H[m.term]) => Agree(G[m.term], H[m.term], m.leaderCommit)
    BY <2>1, <2>2 DEF Agree
  <2>4. CallSettled(H, A, m)
    BY DEF MatchHistory, CallsSettled
  <2>5. Settled(G, B, m.term, G[m.term], m.leaderCommit)
    <3>1. Settled(H, A, m.term, H[m.term], m.leaderCommit) /\ m.term <= m.term
      BY <2>1, <2>4 DEF CallSettled
    <3>. QED BY <1>1, <2>1, <2>2, <2>3, <3>1, SettledGrows
  <2>. QED BY <2>4, <2>5 DEF CallSettled
<1>4. AppliedSettled(G, B)'
  <2>. SUFFICES ASSUME NEW a \in applied PROVE AppliedIn(G, B, a)
    BY DEF AppliedSettled
  <2>1. PICK t \in Nat, n \in Nat : Committed(H, A, t, n) /\ \E k \in 1..n : a = <<k, H[t][k]>>
    BY DEF MatchHistory, AppliedSettled, AppliedIn
  <2>2. Committed(G, B, t, n) /\ \A k \in 1..n : G[t][k] = H[t][k]
    BY <1>1, <2>1, CommittedGrows
  <2>. QED BY <2>1, <2>2 DEF AppliedIn
<1>. QED BY <1>2, <1>3, <1>4 DEF MatchHistory

\* A step that commits, sends and applies nothing, except that a restart forgets
\* commitIndex.
Quiet ==
    /\ UNCHANGED <<log, leaders, applied, reusedMatch>>
    /\ Sent' \subseteq Sent /\ appendReplies' \subseteq appendReplies
    /\ \A j \in Server : /\ commitIndex'[j] = 0 \/ commitIndex'[j] = commitIndex[j]
                         /\ currentTerm'[j] >= currentTerm[j]
                         /\ state'[j] = Leader => /\ state[j] = Leader
                                                  /\ currentTerm'[j] = currentTerm[j]
                                                  /\ matchIndex'[j] = matchIndex[j]

\* A history is a beginning of itself.
LEMMA GrowsSelf ==
    ASSUME NEW H \in Histories
    PROVE  Grows(H, H)
<1>. SUFFICES ASSUME NEW t \in Nat PROVE Agree(H[t], H[t], Len(H[t]))
  BY DEF Grows
<1>1. H[t] \in Seq(Entry)
  BY DEF Histories
<1>. QED BY <1>1 DEF Agree

\* Nothing is confirmed less than it is.
LEMMA ConfirmedSelf ==
    ASSUME NEW A \in Confirmations
    PROVE  \A t \in Nat, v \in Server : A[t][v] <= A[t][v]
BY ConfirmedType

\* Quiet steps keep what is committed.
LEMMA MatchHistoryQuiet ==
    ASSUME RaftInv, RaftInv', NEW H, NEW A,
           LogHistory(H), CommitHistory(H, A), MatchHistory(H, A), Quiet
    PROVE  MatchHistory(H, A)'
<1>1. H \in Histories /\ A \in Confirmations
  BY DEF LogHistory, CommitHistory
<1>2. Grows(H, H) /\ \A t \in Nat, v \in Server : A[t][v] <= A[t][v]
  BY <1>1, GrowsSelf, ConfirmedSelf
<1>3. MatchFits(A)'
  BY DEF MatchHistory, MatchFits, Quiet
<1>4. \A j \in Server : \/ Settled(H, A, currentTerm'[j], log'[j], commitIndex'[j])
                        \/ commitIndex'[j] = commitIndex[j] /\ log'[j] = log[j]
  BY DEF Quiet, Settled
<1>5. Sent' \ Sent = {} /\ applied' \ applied = {}
  BY DEF Quiet
<1>. QED BY <1>1, <1>2, <1>3, <1>4, <1>5, MatchHistoryKept DEF Quiet

\* The two histories through a quiet step in which nobody votes.
LEMMA SafeHistoryQuiet ==
    ASSUME RaftInv, RaftInv', NEW H, NEW A, SafeHistory(H, A), Quiet, Steady, ballots' = ballots
    PROVE  SafeHistory(H, A)'
<1>1. TypeOK /\ TypeOK' /\ LogHistory(H) /\ CommitHistory(H, A)
  BY DEF SafeHistory, RaftInv, TypeInv
<1>2. UNCHANGED <<log, leaders, reusedMatch>> /\ Sent' \subseteq Sent /\ appendReplies' \subseteq appendReplies
  BY DEF Quiet
<1>3. LogHistory(H)'
  <2>1. \A m \in Sent' : PieceOf(m, H[m.term])
    BY <1>1, <1>2 DEF LogHistory, CallsArePieces
  <2>. QED BY <1>1, <1>2, <2>1, LogHistoryKept DEF Steady
<1>4. CommitHistory(H, A)'
  BY <1>1, <1>2, CommitHistorySteady
<1>5. ~reusedMatch' => MatchHistory(H, A)'
  BY <1>1, <1>2, MatchHistoryQuiet DEF SafeHistory
<1>. QED BY <1>3, <1>4, <1>5 DEF SafeHistory

\* Standing for election.
LEMMA SafeHistoryStands ==
    ASSUME RaftInv, RaftInv', NEW H, NEW A, SafeHistory(H, A), NEW i \in Server, StartElection(i)
    PROVE  SafeHistory(H, A)'
<1>1. TypeOK /\ TypeOK' /\ LogHistory(H) /\ CommitHistory(H, A)
  BY DEF SafeHistory, RaftInv, TypeInv
<1>2. /\ state'[i] = Candidate
      /\ \A j \in Server \ {i} : currentTerm'[j] = currentTerm[j] /\ state'[j] = state[j]
      /\ \A j \in Server : currentTerm'[j] >= currentTerm[j]
      /\ UNCHANGED <<log, commitIndex, matchIndex, appendCalls, appendReplies,
                     leaders, applied, reusedMatch>>
  BY StandsFacts
<1>3. Sent' = Sent
  BY <1>2 DEF Sent
<1>4. \A j \in Server : state'[j] = Leader => state[j] = Leader /\ currentTerm'[j] = currentTerm[j]
  BY <1>2 DEF Leader, Candidate
<1>5. Quiet
  BY <1>2, <1>3, <1>4 DEF Quiet
<1>6. LogHistory(H)'
  <2>1. \A m \in Sent' : PieceOf(m, H[m.term])
    BY <1>1, <1>3 DEF LogHistory, CallsArePieces
  <2>. QED BY <1>1, <1>2, <1>4, <2>1, LogHistoryKept
<1>7. CommitHistory(H, A)'
  BY <1>1, CommitHistoryStands
<1>. QED BY <1>1, <1>2, <1>5, <1>6, <1>7, MatchHistoryQuiet DEF SafeHistory

\* Voting.
LEMMA SafeHistoryVotes ==
    ASSUME RaftInv, RaftInv', NEW H, NEW A, SafeHistory(H, A), NEW m \in voteCalls, RequestVote(m)
    PROVE  SafeHistory(H, A)'
<1>1. TypeOK /\ TypeOK' /\ LogHistory(H) /\ CommitHistory(H, A)
  BY DEF SafeHistory, RaftInv, TypeInv
<1>2. Steady /\ log' = log
  BY <1>1, RequestVoteSteady
<1>3. UNCHANGED <<commitIndex, matchIndex, appendCalls, appendReplies, leaders, applied, reusedMatch>>
  BY DEF RequestVote, leaderVars
<1>4. Sent' = Sent
  BY <1>3 DEF Sent
<1>5. Quiet
  BY <1>2, <1>3, <1>4 DEF Quiet, Steady
<1>6. LogHistory(H)'
  <2>1. \A c \in Sent' : PieceOf(c, H[c.term])
    BY <1>1, <1>4 DEF LogHistory, CallsArePieces
  <2>. QED BY <1>1, <1>2, <1>3, <2>1, LogHistoryKept DEF Steady
<1>7. CommitHistory(H, A)'
  BY <1>1, CommitHistoryVotes
<1>. QED BY <1>1, <1>3, <1>5, <1>6, <1>7, MatchHistoryQuiet DEF SafeHistory

\* Winning an election.
LEMMA SafeHistoryWins ==
    ASSUME RaftInv, RaftInv', NEW H, NEW A, SafeHistory(H, A),
           NEW r \in voteReplies, NEW i, Wins(i, r)
    PROVE  \E G, B : SafeHistory(G, B)'
<1>1. TypeOK /\ TypeOK' /\ LogHistory(H) /\ CommitHistory(H, A) /\ A \in Confirmations /\ TypeInv
  BY DEF SafeHistory, RaftInv, TypeInv, CommitHistory
<1>2. /\ i \in Server /\ currentTerm[i] \in Nat
      /\ UNCHANGED <<currentTerm, log, commitIndex, matchIndex, appendCalls, appendReplies, applied>>
      /\ state'[i] = Leader /\ \A j \in Server \ {i} : state'[j] = state[j]
      /\ reusedMatch' = (reusedMatch \/ \E j \in Server : matchIndex[i][j] # 0)
  BY WinsFacts
<1>3. PICK G : G = [H EXCEPT ![currentTerm[i]] = log[i]]
  OBVIOUS
<1>4. Len(log[i]) \in Nat
  BY <1>1, <1>2 DEF TypeOK
<1>5. PICK B : Confirms(A, B, currentTerm[i], i, Len(log[i]))
  BY <1>1, <1>2, <1>4, ConfirmsExists
<1>6. G \in Histories /\ Grows(H, G) /\ LogHistory(G)'
  BY <1>1, <1>3, LogHistoryWins
<1>7. CommitHistory(G, B)' /\ \A t \in Nat, v \in Server : A[t][v] <= B[t][v]
  BY <1>1, <1>3, <1>5, CommitHistoryWins
<1>8. B \in Confirmations
  BY <1>5 DEF Confirms
<1>9. ASSUME ~reusedMatch' PROVE MatchHistory(G, B)'
  <2>1. MatchHistory(H, A) /\ \A j \in Server : matchIndex[i][j] = 0
    BY <1>2, <1>9 DEF SafeHistory
  <2>2. MatchFits(B)'
    <3>. SUFFICES ASSUME NEW u \in Server, NEW j \in Server, state'[u] = Leader
         PROVE  matchIndex[u][j] <= B[currentTerm[u]][j]
      BY <1>2 DEF MatchFits
    <3>1. currentTerm[u] \in Nat /\ matchIndex[u][j] \in Nat
      BY <1>1 DEF TypeOK
    <3>2. /\ A[currentTerm[u]][j] \in Nat /\ B[currentTerm[u]][j] \in Nat
          /\ A[currentTerm[u]][j] <= B[currentTerm[u]][j]
      BY <1>1, <1>7, <1>8, <3>1, ConfirmedType
    <3>3. CASE u = i
      BY <2>1, <3>2, <3>3
    <3>4. CASE u # i
      <4>1. matchIndex[u][j] <= A[currentTerm[u]][j]
        BY <1>2, <2>1, <3>4 DEF MatchHistory, MatchFits
      <4>. QED BY <3>1, <3>2, <4>1
    <3>. QED BY <3>3, <3>4
  <2>3. Sent' \ Sent = {} /\ applied' \ applied = {}
    BY <1>2 DEF Sent
  <2>4. \A j \in Server : /\ currentTerm'[j] >= currentTerm[j]
                          /\ commitIndex'[j] = commitIndex[j] /\ log'[j] = log[j]
    BY <1>1, <1>2 DEF TypeOK
  <2>. QED BY <1>1, <1>6, <1>7, <1>8, <2>1, <2>2, <2>3, <2>4, MatchHistoryKept
<1>10. SafeHistory(G, B)'
  BY <1>6, <1>7, <1>9 DEF SafeHistory
<1>. QED BY <1>10

\* Appending a command.
LEMMA SafeHistoryStart ==
    ASSUME RaftInv, RaftInv', NEW H, NEW A, SafeHistory(H, A),
           NEW i \in Server, NEW w \in Value, Start(i, w)
    PROVE  \E G, B : SafeHistory(G, B)'
<1>1. TypeOK /\ TypeOK' /\ LogHistory(H) /\ CommitHistory(H, A) /\ A \in Confirmations
  BY DEF SafeHistory, RaftInv, TypeInv, CommitHistory
<1>2. /\ log[i] \in Seq(Entry) /\ log'[i] \in Seq(Entry) /\ currentTerm[i] \in Nat
      /\ Len(log'[i]) = Len(log[i]) + 1
      /\ \A y \in 1..Len(log[i]) : log'[i][y] = log[i][y]
      /\ \A j \in Server \ {i} : log'[j] = log[j]
      /\ UNCHANGED <<currentTerm, state, commitIndex, matchIndex, appendCalls, appendReplies,
                     applied, reusedMatch>>
  BY StartFacts
<1>3. PICK G : G = [H EXCEPT ![currentTerm[i]] = log'[i]]
  OBVIOUS
<1>4. Len(log'[i]) \in Nat
  BY <1>2
<1>5. PICK B : Confirms(A, B, currentTerm[i], i, Len(log'[i]))
  BY <1>1, <1>2, <1>4, ConfirmsExists
<1>6. G \in Histories /\ Grows(H, G) /\ LogHistory(G)'
  BY <1>1, <1>3, LogHistoryStart
<1>7. CommitHistory(G, B)' /\ \A t \in Nat, v \in Server : A[t][v] <= B[t][v]
  BY <1>1, <1>3, <1>5, CommitHistoryStart
<1>8. B \in Confirmations
  BY <1>5 DEF Confirms
<1>9. ASSUME ~reusedMatch' PROVE MatchHistory(G, B)'
  <2>1. MatchHistory(H, A)
    BY <1>2, <1>9 DEF SafeHistory
  <2>2. MatchFits(B)'
    <3>. SUFFICES ASSUME NEW u \in Server, NEW j \in Server, state[u] = Leader
         PROVE  matchIndex[u][j] <= B[currentTerm[u]][j]
      BY <1>2 DEF MatchFits
    <3>1. currentTerm[u] \in Nat /\ matchIndex[u][j] \in Nat
      BY <1>1 DEF TypeOK
    <3>2. /\ A[currentTerm[u]][j] \in Nat /\ B[currentTerm[u]][j] \in Nat
          /\ A[currentTerm[u]][j] <= B[currentTerm[u]][j]
      BY <1>1, <1>7, <1>8, <3>1, ConfirmedType
    <3>3. matchIndex[u][j] <= A[currentTerm[u]][j]
      BY <2>1 DEF MatchHistory, MatchFits
    <3>. QED BY <3>1, <3>2, <3>3
  <2>3. Sent' \ Sent = {} /\ applied' \ applied = {}
    BY <1>2 DEF Sent
  <2>4. \A j \in Server : /\ currentTerm'[j] >= currentTerm[j]
                          /\ commitIndex'[j] = commitIndex[j]
    BY <1>1, <1>2 DEF TypeOK
  <2>5. \A j \in Server : log'[j] = log[j] \/ Agree(log'[j], log[j], Len(log[j]))
    <3>1. Agree(log'[i], log[i], Len(log[i]))
      BY <1>2 DEF Agree
    <3>. QED BY <1>2, <3>1
  <2>. QED BY <1>1, <1>6, <1>7, <1>8, <2>1, <2>2, <2>3, <2>4, <2>5, MatchHistoryKept
<1>10. SafeHistory(G, B)'
  BY <1>6, <1>7, <1>9 DEF SafeHistory
<1>. QED BY <1>10

\* What a peer has committed is in its log.
LEMMA SettledInLog ==
    ASSUME NEW H, NEW A, NEW T, NEW l \in Seq(Entry), NEW c \in Nat, Settled(H, A, T, l, c)
    PROVE  c <= Len(l)
BY DEF Settled, Agree

\* Sending a call.
LEMMA SafeHistorySend ==
    ASSUME RaftInv, RaftInv', NEW H, NEW A, SafeHistory(H, A),
           NEW i \in Server, NEW j \in Server, i # j, SendAppendEntries(i, j)
    PROVE  SafeHistory(H, A)'
<1>1. TypeInv /\ TypeInv' /\ TypeOK /\ TypeOK' /\ LogHistory(H) /\ CommitHistory(H, A)
      /\ H \in Histories /\ A \in Confirmations
  BY DEF SafeHistory, RaftInv, TypeInv, LogHistory, CommitHistory
<1>2. Steady /\ UNCHANGED <<log, leaders, ballots, reusedMatch>>
  BY <1>1, OthersSteady
<1>3. UNCHANGED <<currentTerm, state, commitIndex, matchIndex, appendReplies, applied>>
  BY DEF SendAppendEntries, durableVars, leaderVars, historyVars
<1>4. ASSUME NEW m \in Sent' \ Sent
      PROVE  /\ state[i] = Leader /\ m.term = currentTerm[i] /\ m.leaderCommit = commitIndex[i]
             /\ m.prevLogIndex + Len(m.entries) = Len(log[i])
             /\ PieceOf(m, log[i]) /\ H[m.term] = log[i]
  BY <1>1, SendPiece DEF LogHistory, LeadersOwn
<1>5. LogHistory(H)'
  <2>1. \A m \in Sent' : PieceOf(m, H[m.term])
    BY <1>1, <1>4 DEF LogHistory, CallsArePieces
  <2>. QED BY <1>1, <1>2, <2>1, LogHistoryKept DEF Steady
<1>6. CommitHistory(H, A)'
  BY <1>1, <1>2, <1>3, CommitHistorySteady
<1>7. ASSUME ~reusedMatch' PROVE MatchHistory(H, A)'
  <2>1. MatchHistory(H, A)
    BY <1>2, <1>7 DEF SafeHistory
  <2>2. MatchFits(A)'
    BY <1>3, <2>1 DEF MatchHistory, MatchFits
  <2>3. ASSUME NEW m \in Sent' \ Sent PROVE CallSettled(H, A, m)
    <3>1. Settled(H, A, currentTerm[i], log[i], commitIndex[i])
      BY <2>1 DEF MatchHistory, CommitSettled
    <3>2. commitIndex[i] <= Len(log[i])
      <4>1. log[i] \in Seq(Entry) /\ commitIndex[i] \in Nat
        BY <1>1 DEF TypeOK
      <4>. QED BY <3>1, <4>1, SettledInLog
    <3>. QED BY <1>4, <3>1, <3>2 DEF CallSettled
  <2>4. \A u \in Server : /\ currentTerm'[u] >= currentTerm[u]
                          /\ commitIndex'[u] = commitIndex[u] /\ log'[u] = log[u]
    BY <1>1, <1>2, <1>3 DEF TypeOK
  <2>5. Grows(H, H) /\ \A t \in Nat, v \in Server : A[t][v] <= A[t][v]
    BY <1>1, GrowsSelf, ConfirmedSelf
  <2>6. applied' \ applied = {}
    BY <1>3
  <2>. QED BY <1>1, <2>1, <2>2, <2>3, <2>4, <2>5, <2>6, MatchHistoryKept
<1>. QED BY <1>5, <1>6, <1>7 DEF SafeHistory

\* Applying what is committed.
LEMMA SafeHistoryApply ==
    ASSUME RaftInv, RaftInv', NEW H, NEW A, SafeHistory(H, A), NEW i \in Server, ApplyLoop(i)
    PROVE  SafeHistory(H, A)'
<1>1. TypeInv /\ TypeInv' /\ TypeOK /\ TypeOK' /\ LogHistory(H) /\ CommitHistory(H, A)
      /\ H \in Histories /\ A \in Confirmations
  BY DEF SafeHistory, RaftInv, TypeInv, LogHistory, CommitHistory
<1>2. Steady /\ UNCHANGED <<log, leaders, ballots, reusedMatch>>
  BY <1>1, OthersSteady
<1>3. /\ UNCHANGED <<currentTerm, state, commitIndex, matchIndex, appendCalls, appendReplies>>
      /\ applied' = applied \cup {<<k, log[i][k]>> : k \in (lastApplied[i] + 1)..commitIndex[i]}
  BY DEF ApplyLoop, durableVars, leaderVars, callVars
<1>4. Sent' = Sent
  BY <1>3 DEF Sent
<1>5. LogHistory(H)'
  <2>1. \A m \in Sent' : PieceOf(m, H[m.term])
    BY <1>1, <1>4 DEF LogHistory, CallsArePieces
  <2>. QED BY <1>1, <1>2, <2>1, LogHistoryKept DEF Steady
<1>6. CommitHistory(H, A)'
  BY <1>1, <1>2, <1>3, CommitHistorySteady
<1>7. ASSUME ~reusedMatch' PROVE MatchHistory(H, A)'
  <2>1. MatchHistory(H, A)
    BY <1>2, <1>7 DEF SafeHistory
  <2>2. MatchFits(A)'
    BY <1>3, <2>1 DEF MatchHistory, MatchFits
  <2>3. ASSUME NEW a \in applied' \ applied PROVE AppliedIn(H, A, a)
    <3>0. lastApplied[i] \in Nat /\ commitIndex[i] \in Nat /\ log[i] \in Seq(Entry)
      BY <1>1 DEF TypeOK
    <3>1. PICK k \in (lastApplied[i] + 1)..commitIndex[i] : a = <<k, log[i][k]>>
      BY <1>3
    <3>2. k \in 1..commitIndex[i] /\ commitIndex[i] # 0
      BY <3>0
    <3>3. PICK t \in Nat, n \in Nat : /\ commitIndex[i] <= n /\ Committed(H, A, t, n)
                                      /\ Agree(log[i], H[t], commitIndex[i])
      BY <2>1, <3>2 DEF MatchHistory, CommitSettled, Settled
    <3>4. log[i][k] = H[t][k] /\ k \in 1..n
      BY <3>0, <3>2, <3>3 DEF Agree
    <3>. QED BY <3>1, <3>3, <3>4 DEF AppliedIn
  <2>4. \A u \in Server : /\ currentTerm'[u] >= currentTerm[u]
                          /\ commitIndex'[u] = commitIndex[u] /\ log'[u] = log[u]
    BY <1>1, <1>2, <1>3 DEF TypeOK
  <2>5. Grows(H, H) /\ \A t \in Nat, v \in Server : A[t][v] <= A[t][v]
    BY <1>1, GrowsSelf, ConfirmedSelf
  <2>6. Sent' \ Sent = {}
    BY <1>4
  <2>. QED BY <1>1, <2>1, <2>2, <2>3, <2>4, <2>5, <2>6, MatchHistoryKept
<1>. QED BY <1>5, <1>6, <1>7 DEF SafeHistory

\* AppendEntries of a settled call leaves commitIndex settled, and does not move it
\* back.
LEMMA FollowerSettled ==
    ASSUME RaftInv, RaftInv', NEW H, NEW A, LogHistory(H), CommitHistory(H, A), MatchHistory(H, A),
           NEW m \in appendCalls, AppendEntries(m), Accepts(m)
    PROVE  /\ Settled(H, A, m.term, log'[m.to], commitIndex'[m.to])
           /\ commitIndex'[m.to] >= commitIndex[m.to]
<1>. DEFINE T == m.term
            i == m.to
            last == m.prevLogIndex + Len(m.entries)
            lc == m.leaderCommit
            c == commitIndex[i]
<1>1. TypeOK /\ TypeOK' /\ A \in Confirmations /\ H \in Histories /\ VoteInv
  BY DEF RaftInv, TypeInv, CommitHistory, LogHistory
<1>2. m \in Sent /\ i \in Server /\ T \in Nat /\ lc \in Nat
  BY AppendFacts
<1>3. /\ H[T] \in Seq(Entry) /\ log[i] \in Seq(Entry) /\ log'[i] \in Seq(Entry)
      /\ last \in Nat /\ last <= Len(H[T]) /\ Agree(log'[i], H[T], last)
      /\ \A x \in Nat : Agree(log[i], H[T], x) => Agree(log'[i], H[T], x)
      /\ commitIndex'[i] = FollowerCommit(c, lc, last)
  BY AppendAccepted
<1>4. currentTerm[i] \in Nat /\ currentTerm[i] <= T /\ c \in Nat
  <2>1. currentTerm[i] \in Nat /\ c \in Nat
    BY <1>1, <1>2 DEF TypeOK
  <2>. QED BY <1>2, <2>1 DEF Accepts
<1>5. <<T, m.from>> \in leaders /\ <<T, m.from>>[1] = T
  BY <1>1, <1>2 DEF VoteInv, InOffice
<1>6. Settled(H, A, T, H[T], lc) /\ lc <= last /\ Settled(H, A, currentTerm[i], log[i], c)
  BY <1>2 DEF MatchHistory, CallsSettled, CallSettled, CommitSettled
<1>. HIDE DEF T, i, last, lc, c
<1>7. commitIndex'[i] = c \/ (commitIndex'[i] = lc /\ lc > c)
  BY <1>2, <1>3, <1>4, <1>6 DEF FollowerCommit
<1>8. Settled(H, A, T, log'[i], lc)
  <2>1. Agree(log'[i], H[T], lc)
    <3>1. lc \in 0..last
      BY <1>2, <1>3, <1>6
    <3>. QED BY <1>3, <3>1, AgreeLess
  <2>2. Grows(H, H) /\ (\A t \in Nat, v \in Server : A[t][v] <= A[t][v]) /\ T <= T
    BY <1>1, <1>2, GrowsSelf, ConfirmedSelf
  <2>. QED BY <1>1, <1>2, <1>3, <1>6, <2>1, <2>2, SettledGrows
<1>9. Settled(H, A, T, log'[i], c)
  <2>1. CASE c = 0
    BY <2>1 DEF Settled
  <2>2. CASE c # 0
    <3>1. PICK t \in Nat, n \in Nat : /\ t <= currentTerm[i] /\ c <= n
                                      /\ Committed(H, A, t, n) /\ Agree(log[i], H[t], c)
      BY <1>6, <2>2 DEF Settled
    <3>2. t <= T /\ H[t] \in Seq(Entry) /\ c \in 0..n
      <4>1. t <= T /\ c \in 0..n
        BY <1>2, <1>4, <3>1
      <4>. QED BY <1>1, <4>1 DEF Histories
    <3>3. Agree(log'[i], H[t], c)
      <4>1. CASE t = T
        BY <1>3, <1>4, <3>1, <4>1
      <4>2. CASE t < T
        <5>1. Own(H, t, n) /\ Choosable(A, t, n)
          BY <1>1, <3>1, CommittedChoosable
        <5>2. Agree(H[T], H[t], n)
          BY <1>5, <4>2, <5>1 DEF CommitHistory, Complete
        <5>3. Agree(H[T], H[t], c)
          BY <1>3, <3>2, <5>2, AgreeLess
        <5>4. Agree(H[t], H[T], c)
          BY <5>3, AgreeMutual
        <5>5. Agree(log[i], H[T], c)
          BY <1>3, <1>4, <3>1, <3>2, <5>4, AgreeTrans
        <5>6. Agree(log'[i], H[T], c)
          BY <1>3, <1>4, <5>5
        <5>. QED BY <1>3, <1>4, <3>2, <5>3, <5>6, AgreeTrans
      <4>. QED BY <1>2, <3>2, <4>1, <4>2
    <3>. QED BY <3>1, <3>2, <3>3 DEF Settled
  <2>. QED BY <2>1, <2>2
<1>10. Settled(H, A, T, log'[i], commitIndex'[i]) /\ commitIndex'[i] >= c
  BY <1>2, <1>4, <1>7, <1>8, <1>9
<1>. QED BY <1>10 DEF T, i, c

\* Taking or refusing entries.
LEMMA SafeHistoryAppend ==
    ASSUME RaftInv, RaftInv', NEW H, NEW A, SafeHistory(H, A), NEW m \in appendCalls, AppendEntries(m)
    PROVE  \E B : SafeHistory(H, B)'
<1>1. TypeInv /\ TypeInv' /\ TypeOK /\ TypeOK' /\ LogHistory(H) /\ CommitHistory(H, A)
      /\ H \in Histories /\ A \in Confirmations
  BY DEF SafeHistory, RaftInv, TypeInv, LogHistory, CommitHistory
<1>2. /\ m \in Sent /\ m.to \in Server /\ m.term \in Nat
      /\ \A j \in Server \ {m.to} : log'[j] = log[j] /\ commitIndex'[j] = commitIndex[j]
      /\ UNCHANGED <<matchIndex, ballots, leaders, applied, reusedMatch>>
      /\ Sent' \subseteq Sent /\ Steady
      /\ ~Accepts(m) => log' = log /\ commitIndex' = commitIndex
      /\ Accepts(m) => currentTerm'[m.to] = m.term /\ state'[m.to] = Follower
      /\ \A r \in appendReplies' \ appendReplies : r.args = m /\ r.success = Accepts(m)
  BY AppendFacts
<1>3. LogHistory(H)'
  BY <1>1, LogHistoryAppend
<1>4. Sent' \ Sent = {} /\ applied' \ applied = {}
  BY <1>2
<1>5. \A j \in Server : currentTerm'[j] >= currentTerm[j]
  BY <1>2 DEF Steady
<1>6. ASSUME NEW B \in Confirmations, \A t \in Nat, v \in Server : A[t][v] <= B[t][v], MatchHistory(H, A)
      PROVE  MatchFits(B)'
  <2>. SUFFICES ASSUME NEW u \in Server, NEW j \in Server, state'[u] = Leader
       PROVE  matchIndex[u][j] <= B[currentTerm'[u]][j]
    BY <1>2 DEF MatchFits
  <2>1. state[u] = Leader /\ currentTerm'[u] = currentTerm[u]
    BY <1>2 DEF Steady
  <2>2. currentTerm[u] \in Nat /\ matchIndex[u][j] \in Nat
    BY <1>1 DEF TypeOK
  <2>3. /\ A[currentTerm[u]][j] \in Nat /\ B[currentTerm[u]][j] \in Nat
        /\ A[currentTerm[u]][j] <= B[currentTerm[u]][j]
    BY <1>1, <1>6, <2>2, ConfirmedType
  <2>4. matchIndex[u][j] <= A[currentTerm[u]][j]
    BY <1>6, <2>1 DEF MatchHistory, MatchFits
  <2>. QED BY <2>1, <2>2, <2>3, <2>4
<1>7. Grows(H, H) /\ \A t \in Nat, v \in Server : A[t][v] <= A[t][v]
  BY <1>1, GrowsSelf, ConfirmedSelf
<1>8. CASE ~Accepts(m)
  <2>1. CommitHistory(H, A)'
    BY <1>1, <1>2, <1>8, CommitHistorySteady
  <2>2. ASSUME ~reusedMatch' PROVE MatchHistory(H, A)'
    <3>1. MatchHistory(H, A)
      BY <1>2, <2>2 DEF SafeHistory
    <3>2. MatchFits(A)'
      BY <1>1, <1>6, <1>7, <3>1
    <3>. QED BY <1>1, <1>2, <1>4, <1>5, <1>7, <1>8, <3>1, <3>2, MatchHistoryKept
  <2>3. SafeHistory(H, A)'
    BY <1>3, <2>1, <2>2 DEF SafeHistory
  <2>. QED BY <2>3
<1>9. CASE Accepts(m)
  <2>1. PICK n \in {A[m.term][m.to], m.prevLogIndex + Len(m.entries)} :
            n \in Nat /\ n >= A[m.term][m.to] /\ n >= m.prevLogIndex + Len(m.entries)
    <3>1. A[m.term][m.to] \in Nat /\ m.prevLogIndex + Len(m.entries) \in Nat
      BY <1>1, <1>2, ConfirmedType, SentLast
    <3>. DEFINE a == A[m.term][m.to]
                b == m.prevLogIndex + Len(m.entries)
    <3>. HIDE DEF a, b
    <3>2. \E n \in {a, b} : n \in Nat /\ n >= a /\ n >= b
      <4>1. a \in Nat /\ b \in Nat
        BY <3>1 DEF a, b
      <4>. QED BY <4>1
    <3>. QED BY <3>2 DEF a, b
  <2>2. PICK B : Confirms(A, B, m.term, m.to, n)
    BY <1>1, <1>2, <2>1, ConfirmsExists
  <2>3. CommitHistory(H, B)' /\ \A t \in Nat, v \in Server : A[t][v] <= B[t][v]
    BY <1>1, <1>9, <2>1, <2>2, CommitHistoryAccept
  <2>4. B \in Confirmations
    BY <2>2 DEF Confirms
  <2>5. ASSUME ~reusedMatch' PROVE MatchHistory(H, B)'
    <3>1. MatchHistory(H, A)
      BY <1>2, <2>5 DEF SafeHistory
    <3>2. MatchFits(B)'
      BY <1>6, <2>3, <2>4, <3>1
    <3>3. Settled(H, A, m.term, log'[m.to], commitIndex'[m.to])
      BY <1>1, <1>9, <3>1, FollowerSettled
    <3>4. Settled(H, B, m.term, log'[m.to], commitIndex'[m.to])
      <4>1. log'[m.to] \in Seq(Entry) /\ commitIndex'[m.to] \in Nat /\ m.term <= m.term
        <5>1. log'[m.to] \in Seq(Entry) /\ commitIndex'[m.to] \in Nat
          BY <1>1, <1>2 DEF TypeOK
        <5>2. m.term <= m.term
          BY <1>2
        <5>. QED BY <5>1, <5>2
      <4>2. commitIndex'[m.to] <= Len(log'[m.to]) => Agree(log'[m.to], log'[m.to], commitIndex'[m.to])
        BY DEF Agree
      <4>. QED BY <1>1, <1>2, <1>7, <2>3, <2>4, <3>3, <4>1, <4>2, SettledGrows
    <3>5. \A j \in Server : \/ Settled(H, B, currentTerm'[j], log'[j], commitIndex'[j])
                            \/ commitIndex'[j] = commitIndex[j] /\ log'[j] = log[j]
      BY <1>2, <1>9, <3>4
    <3>. QED BY <1>1, <1>4, <1>5, <1>7, <2>3, <2>4, <3>1, <3>2, <3>5, MatchHistoryKept
  <2>6. SafeHistory(H, B)'
    BY <1>3, <2>3, <2>5 DEF SafeHistory
  <2>. QED BY <2>6
<1>. QED BY <1>8, <1>9

\* What the goroutine of broadcastHeartbeats() does with a reply: it counts a
\* confirmation, or it commits nothing.
Counts(r) ==
    LET i == r.args.from
        j == r.args.to
        match == r.args.prevLogIndex + Len(r.args.entries)
    IN  /\ state[i] = Leader /\ currentTerm[i] = r.args.term /\ r.success
        /\ matchIndex' = [matchIndex EXCEPT ![i][j] = IF match > @ THEN match ELSE @]
        /\ commitIndex' = [commitIndex EXCEPT ![i] = CommitFrom(i, matchIndex'[i])]
        /\ UNCHANGED <<currentTerm, log, state>>

\* The outcomes of a reply to AppendEntries.
LEMMA ReplyOutcome ==
    ASSUME RaftInv, RaftInv', NEW r \in appendReplies, AppendEntriesReply(r)
    PROVE  Quiet \/ Counts(r)
<1>. DEFINE i == r.args.from
            stale == state[i] # Leader \/ currentTerm[i] # r.args.term
<1>1. TypeInv /\ TypeInv' /\ TypeOK
  BY DEF RaftInv, TypeInv
<1>2. Steady /\ UNCHANGED <<log, leaders, reusedMatch>>
  BY <1>1, OthersSteady
<1>3. UNCHANGED <<applied, appendCalls>> /\ appendReplies' = appendReplies \ {r}
  BY DEF AppendEntriesReply, historyVars
<1>4. Sent' \subseteq Sent
  BY NothingSent
<1>5. ASSUME UNCHANGED <<commitIndex, matchIndex>> PROVE Quiet
  BY <1>2, <1>3, <1>4, <1>5 DEF Quiet, Steady
<1>6. CASE stale /\ UNCHANGED <<durableVars, state, commitIndex, leaderVars, persisted>>
  BY <1>5, <1>6 DEF leaderVars
<1>7. CASE StepDown(i, r.term) /\ UNCHANGED <<commitIndex, leaderVars>>
  BY <1>5, <1>7 DEF leaderVars
<1>8. CASE UNCHANGED <<durableVars, state, commitIndex, matchIndex, persisted>>
  BY <1>5, <1>8
<1>9. ASSUME ~stale, r.success,
             matchIndex' = [matchIndex EXCEPT ![i][r.args.to] =
                 IF r.args.prevLogIndex + Len(r.args.entries) > @
                 THEN r.args.prevLogIndex + Len(r.args.entries) ELSE @],
             commitIndex' = [commitIndex EXCEPT ![i] = CommitFrom(i, matchIndex'[i])],
             UNCHANGED <<durableVars, state, persisted>>
      PROVE  Counts(r)
  BY <1>9 DEF Counts, durableVars
<1>. QED BY <1>6, <1>7, <1>8, <1>9 DEF AppendEntriesReply

\* The commit rule: what a leader commits when it counts confirmations is its own
\* entry, and a majority has confirmed it.
LEMMA CommitFromCommitted ==
    ASSUME TypeOK, NEW H, NEW A \in Confirmations, NEW i \in Server, NEW j \in Server \ {i},
           NEW match \in [Server -> Nat], H[currentTerm[i]] = log[i],
           A[currentTerm[i]][i] = Len(log[i]),
           \A v \in Server : match[v] <= A[currentTerm[i]][v]
    PROVE  \/ CommitFrom(i, match) = commitIndex[i]
           \/ /\ CommitFrom(i, match) \in (commitIndex[i] + 1)..Len(log[i])
              /\ Committed(H, A, currentTerm[i], CommitFrom(i, match))
<1>. DEFINE S(n) == {v \in Server \ {i} : match[v] >= n /\ log[i][n].term = currentTerm[i]}
            count(n) == 1 + Cardinality(S(n))
            ready == {n \in (commitIndex[i] + 1)..Len(log[i]) : Majority(count(n))}
            T == currentTerm[i]
<1>1. CommitFrom(i, match) = IF ready = {} THEN commitIndex[i] ELSE Greatest(ready)
  BY DEF CommitFrom
<1>2. commitIndex[i] \in Nat /\ log[i] \in Seq(Entry) /\ Len(log[i]) \in Nat /\ T \in Nat
  BY DEF TypeOK
<1>3. CASE ready # {}
  <2>1. ready \subseteq Nat /\ \A y \in ready : y <= Len(log[i])
    BY <1>2
  <2>2. Greatest(ready) \in ready
    BY <1>2, <1>3, <2>1, GreatestExists
  <2>3. PICK n \in ready : n = Greatest(ready)
    BY <2>2
  <2>4. n \in (commitIndex[i] + 1)..Len(log[i]) /\ Majority(1 + Cardinality(S(n)))
    OBVIOUS
  <2>5. n \in 1..Len(log[i]) /\ n \in Nat
    BY <1>2, <2>4
  <2>6. PICK Q : Q = S(n)
    OBVIOUS
  <2>7. Q \subseteq Server \ {i} /\ \A v \in Q : match[v] >= n /\ log[i][n].term = T
    BY <2>6
  <2>8. Majority(1 + Cardinality(Q))
    BY <2>4, <2>6
  <2>. HIDE DEF ready, S
  <2>9. IsFiniteSet(Q) /\ Cardinality(Q) \in Nat /\ i \notin Q
    BY <2>7, ServerAssumption, FS_Subset, FS_CardinalityType
  <2>10. Q # {}
    <3>. SUFFICES ASSUME Q = {} PROVE FALSE
      OBVIOUS
    <3>1. Cardinality({i, j}) = 2
      <4>1. IsFiniteSet({i}) /\ Cardinality({i}) = 1 /\ j \notin {i}
        BY FS_Singleton
      <4>2. Cardinality({i} \cup {j}) = 1 + 1
        BY <4>1, FS_AddElement
      <4>3. {i} \cup {j} = {i, j}
        OBVIOUS
      <4>. QED BY <4>2, <4>3
    <3>2. Cardinality({i, j}) <= Cardinality(Server) /\ Cardinality(Server) \in Nat
      <4>1. {i, j} \subseteq Server
        OBVIOUS
      <4>. QED BY <4>1, ServerAssumption, FS_Subset, FS_CardinalityType
    <3>3. Cardinality(Q) = 0
      BY FS_EmptySet
    <3>. QED BY <2>8, <3>1, <3>2, <3>3 DEF Majority
  <2>11. log[i][n].term = T
    BY <2>7, <2>10
  <2>12. Cardinality(Q \cup {i}) = Cardinality(Q) + 1
    BY <2>9, FS_AddElement
  <2>13. Majority(Cardinality(Q \cup {i}))
    <3>1. Cardinality(Q \cup {i}) = 1 + Cardinality(Q)
      BY <2>9, <2>12
    <3>. QED BY <2>8, <3>1
  <2>14. ASSUME NEW v \in Q \cup {i} PROVE v \in Server /\ A[T][v] >= n
    <3>0. v \in Server
      BY <2>7
    <3>1. A[T][v] \in Nat /\ match[v] \in Nat /\ match[v] <= A[T][v]
      BY <1>2, <3>0, ConfirmedType
    <3>2. CASE v = i
      <4>1. A[T][i] = Len(log[i])
        OBVIOUS
      <4>. QED BY <1>2, <2>5, <3>0, <3>2, <4>1
    <3>3. CASE v \in Q
      <4>1. match[v] >= n
        BY <2>7, <3>3
      <4>. QED BY <2>5, <3>0, <3>1, <4>1
    <3>. QED BY <3>2, <3>3
  <2>15. Majority(Cardinality({v \in Server : A[T][v] >= n}))
    <3>1. Q \cup {i} \subseteq {v \in Server : A[T][v] >= n}
      BY <2>14
    <3>2. {v \in Server : A[T][v] >= n} \subseteq Server
      OBVIOUS
    <3>. QED BY <2>13, <3>1, <3>2, MajorityGrows
  <2>16. Committed(H, A, T, n)
    <3>1. Own(H, T, n)
      BY <2>5, <2>11 DEF Own
    <3>. QED BY <2>15, <3>1 DEF Committed
  <2>. QED BY <1>1, <1>3, <2>3, <2>4, <2>16
<1>. QED BY <1>1, <1>3

\* Counting a confirmation: matchIndex counts no more than was confirmed, and what
\* the leader then commits is settled and moves commitIndex forward.
LEMMA CountsSettled ==
    ASSUME RaftInv, RaftInv', NEW H, NEW A, LogHistory(H), CommitHistory(H, A), MatchHistory(H, A),
           NEW r \in appendReplies, Counts(r)
    PROVE  /\ MatchFits(A)'
           /\ \A u \in Server :
                 \/ commitIndex'[u] = commitIndex[u]
                 \/ /\ commitIndex'[u] > commitIndex[u]
                    /\ Settled(H, A, currentTerm[u], log[u], commitIndex'[u])
<1>. DEFINE i == r.args.from
            j == r.args.to
            T == currentTerm[i]
            match == r.args.prevLogIndex + Len(r.args.entries)
<1>1. TypeOK /\ TypeOK' /\ A \in Confirmations /\ VoteInv /\ H \in Histories
  BY DEF RaftInv, TypeInv, CommitHistory, LogHistory
<1>2. r.args \in Sent
  BY DEF Sent
<1>3. i \in Server /\ j \in Server /\ i # j /\ match \in Nat
  <2>1. i \in Server /\ j \in Server
    BY <1>1, <1>2, SentType
  <2>2. i # j
    BY <1>1, <1>2 DEF VoteInv, InOffice
  <2>3. match \in Nat
    BY <1>1, <1>2, SentLast
  <2>. QED BY <2>1, <2>2, <2>3
<1>4. /\ state[i] = Leader /\ T = r.args.term /\ r.success
      /\ matchIndex' = [matchIndex EXCEPT ![i][j] = IF match > @ THEN match ELSE @]
      /\ commitIndex' = [commitIndex EXCEPT ![i] = CommitFrom(i, matchIndex'[i])]
      /\ UNCHANGED <<currentTerm, log, state>>
  BY DEF Counts
<1>5. match <= A[T][j]
  BY <1>4 DEF CommitHistory, RepliesConfirm
<1>. HIDE DEF match
<1>6. /\ matchIndex \in [Server -> [Server -> Nat]] /\ commitIndex \in [Server -> Nat]
      /\ T \in Nat /\ log[i] \in Seq(Entry)
  BY <1>1, <1>3 DEF TypeOK
<1>7. /\ \A u \in Server \ {i} : matchIndex'[u] = matchIndex[u]
      /\ \A v \in Server \ {j} : matchIndex'[i][v] = matchIndex[i][v]
      /\ matchIndex'[i][j] = matchIndex[i][j] \/ matchIndex'[i][j] = match
  BY <1>3, <1>4, <1>6
<1>8. MatchFits(A)'
  <2>. SUFFICES ASSUME NEW u \in Server, NEW v \in Server, state[u] = Leader
       PROVE  matchIndex'[u][v] <= A[currentTerm[u]][v]
    BY <1>4 DEF MatchFits
  <2>1. matchIndex[u][v] <= A[currentTerm[u]][v]
    BY DEF MatchHistory, MatchFits
  <2>2. CASE u # i
    BY <1>7, <2>1, <2>2
  <2>3. CASE u = i /\ v # j
    BY <1>7, <2>1, <2>3
  <2>4. CASE u = i /\ v = j
    BY <1>5, <1>7, <2>1, <2>4
  <2>. QED BY <2>2, <2>3, <2>4
<1>9. \/ commitIndex'[i] = commitIndex[i]
      \/ /\ commitIndex'[i] \in (commitIndex[i] + 1)..Len(log[i])
         /\ Committed(H, A, T, commitIndex'[i])
  <2>1. PICK f \in [Server -> Nat] : f = matchIndex'[i]
    BY <1>1, <1>3 DEF TypeOK
  <2>2. \A v \in Server : f[v] <= A[T][v]
    BY <1>3, <1>4, <1>8, <2>1 DEF MatchFits
  <2>3. commitIndex'[i] = CommitFrom(i, f)
    BY <1>3, <1>4, <1>6, <2>1
  <2>4. H[T] = log[i] /\ A[T][i] = Len(log[i])
    BY <1>3, <1>4 DEF LogHistory, LeadersOwn, CommitHistory, LeadersConfirm
  <2>5. j \in Server \ {i}
    BY <1>3
  <2>. QED BY <1>1, <1>3, <2>2, <2>3, <2>4, <2>5, CommitFromCommitted
<1>10. ASSUME NEW u \in Server
       PROVE  \/ commitIndex'[u] = commitIndex[u]
              \/ /\ commitIndex'[u] > commitIndex[u]
                 /\ Settled(H, A, currentTerm[u], log[u], commitIndex'[u])
  <2>1. CASE u # i
    BY <1>4, <1>6, <2>1
  <2>2. CASE u = i /\ commitIndex'[i] # commitIndex[i]
    <3>0. commitIndex[i] \in Nat /\ Len(log[i]) \in Nat
      <4>1. PICK l \in Seq(Entry) : l = log[i]
        BY <1>6
      <4>2. Len(l) \in Nat
        OBVIOUS
      <4>3. commitIndex[i] \in Nat
        BY <1>3, <1>6
      <4>. QED BY <4>1, <4>2, <4>3
    <3>1. PICK c : c = commitIndex'[i]
      OBVIOUS
    <3>2. c \in (commitIndex[i] + 1)..Len(log[i]) /\ Committed(H, A, T, c)
      BY <1>9, <2>2, <3>1
    <3>3. c \in Nat /\ c > commitIndex[i] /\ c <= Len(log[i])
      BY <3>0, <3>2
    <3>4. H[T] = log[i]
      BY <1>3, <1>4 DEF LogHistory, LeadersOwn
    <3>5. Agree(log[i], H[T], c)
      BY <3>3, <3>4 DEF Agree
    <3>6. T <= T /\ c <= c
      BY <1>6, <3>3
    <3>7. Settled(H, A, T, log[i], c)
      BY <1>6, <3>2, <3>3, <3>5, <3>6 DEF Settled
    <3>. QED BY <2>2, <3>1, <3>3, <3>7
  <2>. QED BY <2>1, <2>2
<1>. QED BY <1>8, <1>10

\* The leader looks at a reply.
LEMMA SafeHistoryReply ==
    ASSUME RaftInv, RaftInv', NEW H, NEW A, SafeHistory(H, A),
           NEW r \in appendReplies, AppendEntriesReply(r)
    PROVE  SafeHistory(H, A)'
<1>1. TypeInv /\ TypeInv' /\ TypeOK /\ TypeOK' /\ LogHistory(H) /\ CommitHistory(H, A)
      /\ H \in Histories /\ A \in Confirmations
  BY DEF SafeHistory, RaftInv, TypeInv, LogHistory, CommitHistory
<1>2. Steady /\ UNCHANGED <<log, leaders, ballots, reusedMatch>>
  BY <1>1, OthersSteady
<1>3. UNCHANGED applied /\ appendReplies' \subseteq appendReplies
  BY DEF AppendEntriesReply, historyVars
<1>4. Sent' \subseteq Sent
  BY NothingSent
<1>5. CASE Quiet
  BY <1>2, <1>5, SafeHistoryQuiet
<1>6. CASE Counts(r)
  <2>1. LogHistory(H)'
    <3>1. \A m \in Sent' : PieceOf(m, H[m.term])
      BY <1>1, <1>4 DEF LogHistory, CallsArePieces
    <3>. QED BY <1>1, <1>2, <3>1, LogHistoryKept DEF Steady
  <2>2. CommitHistory(H, A)'
    BY <1>1, <1>2, <1>3, CommitHistorySteady
  <2>3. ASSUME ~reusedMatch' PROVE MatchHistory(H, A)'
    <3>1. MatchHistory(H, A)
      BY <1>2, <2>3 DEF SafeHistory
    <3>2. /\ MatchFits(A)'
          /\ \A u \in Server : \/ commitIndex'[u] = commitIndex[u]
                               \/ Settled(H, A, currentTerm[u], log[u], commitIndex'[u])
      BY <1>1, <1>6, <3>1, CountsSettled
    <3>3. UNCHANGED <<currentTerm, log>>
      BY <1>6 DEF Counts
    <3>4. Grows(H, H) /\ \A t \in Nat, v \in Server : A[t][v] <= A[t][v]
      BY <1>1, GrowsSelf, ConfirmedSelf
    <3>5. Sent' \ Sent = {} /\ applied' \ applied = {}
      BY <1>3, <1>4
    <3>6. \A u \in Server : currentTerm'[u] >= currentTerm[u]
      BY <1>2 DEF Steady
    <3>7. \A u \in Server : \/ Settled(H, A, currentTerm'[u], log'[u], commitIndex'[u])
                            \/ commitIndex'[u] = commitIndex[u] /\ log'[u] = log[u]
      BY <3>2, <3>3
    <3>. QED BY <1>1, <3>1, <3>2, <3>4, <3>5, <3>6, <3>7, MatchHistoryKept
  <2>. QED BY <2>1, <2>2, <2>3 DEF SafeHistory
<1>. QED BY <1>5, <1>6, ReplyOutcome

\* Losing a call, a restart, and the replies that elect nobody, are quiet.
LEMMA OthersQuiet ==
    ASSUME RaftInv, RaftInv',
           \/ \E r \in voteReplies : RequestVoteReply(r) /\ ~Wins(r.args.from, r)
           \/ LoseCall
           \/ \E S \in RestartGroups : Restart(S)
           \/ UNCHANGED vars
    PROVE  Quiet /\ Steady /\ ballots' = ballots
<1>1. TypeInv /\ TypeInv' /\ TypeOK /\ TypeOK'
  BY DEF RaftInv, TypeInv
<1>2. Sent' \subseteq Sent
  BY NothingSent
<1>3. ASSUME Steady, UNCHANGED <<log, leaders, applied, reusedMatch>>, appendReplies' \subseteq appendReplies,
             \A j \in Server : /\ commitIndex'[j] = 0 \/ commitIndex'[j] = commitIndex[j]
                               /\ state'[j] = Leader => matchIndex'[j] = matchIndex[j]
      PROVE  Quiet
  BY <1>2, <1>3 DEF Quiet, Steady
<1>4. ASSUME NEW r \in voteReplies, RequestVoteReply(r), ~Wins(r.args.from, r)
      PROVE  Quiet /\ Steady /\ ballots' = ballots
  <2>1. Steady /\ UNCHANGED <<log, leaders, reusedMatch>>
    BY <1>1, <1>4, RequestVoteReplySteady
  <2>2. UNCHANGED <<commitIndex, applied, appendReplies, ballots>>
    BY <1>4 DEF RequestVoteReply
  <2>3. matchIndex' = matchIndex
    BY <1>4 DEF RequestVoteReply, leaderVars, BecomeLeader
  <2>. QED BY <1>3, <2>1, <2>2, <2>3
<1>5. CASE LoseCall
  <2>1. Steady /\ UNCHANGED <<log, leaders, reusedMatch, ballots>>
    BY <1>1, <1>5, OthersSteady
  <2>2. UNCHANGED <<commitIndex, matchIndex, applied>> /\ appendReplies' \subseteq appendReplies
    BY <1>5 DEF LoseCall, leaderVars, historyVars
  <2>. QED BY <1>3, <2>1, <2>2
<1>6. ASSUME NEW S \in RestartGroups, Restart(S)
      PROVE  Quiet /\ Steady /\ ballots' = ballots
  <2>1. Steady /\ UNCHANGED <<log, leaders, reusedMatch, ballots>>
    BY <1>1, <1>6, OthersSteady
  <2>2. applied' = applied /\ appendReplies' \subseteq appendReplies
    BY <1>6 DEF Restart, Reload, historyVars
  <2>3. ASSUME NEW j \in Server
        PROVE  /\ commitIndex'[j] = 0 \/ commitIndex'[j] = commitIndex[j]
               /\ state'[j] = Leader => matchIndex'[j] = matchIndex[j]
    <3>1. CASE j \in S
      BY <1>6, <3>1 DEF Restart, Reload, Follower, Leader
    <3>2. CASE j \notin S
      <4>1. commitIndex'[j] = commitIndex[j] /\ \A k \in Server : matchIndex'[j][k] = matchIndex[j][k]
        BY <1>6, <3>2 DEF Restart, Reload
      <4>2. matchIndex'[j] \in [Server -> Nat] /\ matchIndex[j] \in [Server -> Nat]
        BY <1>1 DEF TypeOK
      <4>. QED BY <4>1, <4>2
    <3>. QED BY <3>1, <3>2
  <2>. QED BY <1>3, <2>1, <2>2, <2>3
<1>7. CASE UNCHANGED vars
  <2>1. Steady /\ UNCHANGED <<log, leaders, reusedMatch, ballots>>
    BY <1>1, <1>7, OthersSteady
  <2>2. UNCHANGED <<commitIndex, matchIndex, applied, appendReplies>>
    BY <1>7 DEF vars, leaderVars, historyVars, callVars
  <2>. QED BY <1>3, <2>1, <2>2
<1>. QED BY <1>4, <1>5, <1>6, <1>7

\* The two histories before the first step: nothing was ever in a log.
LEMMA SafeHistoryInit == Init => \E H, A : SafeHistory(H, A)
<1>. SUFFICES ASSUME Init PROVE \E H, A : SafeHistory(H, A)
  OBVIOUS
<1>1. PICK H, A : /\ H = [t \in Nat |-> << >>] /\ A = [t \in Nat |-> [v \in Server |-> 0]]
                  /\ CommitHistory(H, A)
  BY CommitHistoryInit
<1>2. LogHistory(H)
  BY <1>1, LogHistoryInit
<1>3. MatchHistory(H, A)
  <2>1. /\ applied = {} /\ Sent = {}
        /\ \A i \in Server : state[i] # Leader /\ commitIndex[i] = 0
    BY DEF Init, Sent, Follower, Leader
  <2>. QED BY <2>1 DEF MatchHistory, MatchFits, CommitSettled, Settled, CallsSettled, AppliedSettled
<1>. QED BY <1>1, <1>2, <1>3 DEF SafeHistory

\* Every step leaves two such histories.
LEMMA SafeHistoryNext ==
    ASSUME RaftInv, RaftInv', NEW H, NEW A, SafeHistory(H, A), [Next]_vars
    PROVE  \E G, B : SafeHistory(G, B)'
<1>1. ASSUME NEW i \in Server, StartElection(i) PROVE SafeHistory(H, A)'
  BY <1>1, SafeHistoryStands
<1>2. ASSUME NEW m \in voteCalls, RequestVote(m) PROVE SafeHistory(H, A)'
  BY <1>2, SafeHistoryVotes
<1>3. ASSUME NEW r \in voteReplies, RequestVoteReply(r) PROVE \E G, B : SafeHistory(G, B)'
  <2>1. CASE Wins(r.args.from, r)
    BY <2>1, SafeHistoryWins
  <2>2. CASE ~Wins(r.args.from, r)
    <3>1. SafeHistory(H, A)'
      BY <1>3, <2>2, OthersQuiet, SafeHistoryQuiet
    <3>. QED BY <3>1
  <2>. QED BY <2>1, <2>2
<1>4. ASSUME NEW i \in Server, NEW v \in Value, Start(i, v) PROVE \E G, B : SafeHistory(G, B)'
  BY <1>4, SafeHistoryStart
<1>5. ASSUME NEW i \in Server, NEW j \in Server, i # j, SendAppendEntries(i, j)
      PROVE  SafeHistory(H, A)'
  BY <1>5, SafeHistorySend
<1>6. ASSUME NEW m \in appendCalls, AppendEntries(m) PROVE \E G, B : SafeHistory(G, B)'
  BY <1>6, SafeHistoryAppend
<1>7. ASSUME NEW r \in appendReplies, AppendEntriesReply(r) PROVE SafeHistory(H, A)'
  BY <1>7, SafeHistoryReply
<1>8. ASSUME NEW i \in Server, ApplyLoop(i) PROVE SafeHistory(H, A)'
  BY <1>8, SafeHistoryApply
<1>9. CASE \/ LoseCall
           \/ \E S \in RestartGroups : Restart(S)
           \/ UNCHANGED vars
  <2>1. SafeHistory(H, A)'
    BY <1>9, OthersQuiet, SafeHistoryQuiet
  <2>. QED BY <2>1
<1>. QED BY <1>1, <1>2, <1>3, <1>4, <1>5, <1>6, <1>7, <1>8, <1>9
         DEF Next, Ticker, DebugForceElection

\* The inductive invariant of the group: there are a history of the leaders' logs and
\* one of what the peers have confirmed that explain the state.
SafetyInv == RaftInv /\ \E H, A : SafeHistory(H, A)

\* In every reachable state there are such histories.
THEOREM SafetyInvariant == Spec => []SafetyInv
<1>. DEFINE Inv == \E H, A : SafeHistory(H, A)
<1>1. Init => Inv
  BY SafeHistoryInit
<1>2. RaftInv /\ RaftInv' /\ Inv /\ [Next]_vars => Inv'
  BY SafeHistoryNext
<1>3. Spec => []RaftInv
  BY TypeInvariant, VoteInvariant, ElectInvariant, PTL DEF RaftInv
<1>4. RaftInv /\ Inv => SafetyInv
  BY DEF SafetyInv
<1>. HIDE DEF Inv
<1>. QED BY <1>1, <1>2, <1>3, <1>4, PTL DEF Spec

\* What is settled is in the log, and in the files of a majority.
LEMMA SettledReplicated == SafetyInv => CommittedUnlessReused
<1>. SUFFICES ASSUME RaftInv, NEW H, NEW A, SafeHistory(H, A), ~reusedMatch,
                     NEW i \in Server, NEW k \in 1..commitIndex[i]
     PROVE  /\ k <= Len(log[i])
            /\ Majority(Cardinality({j \in Server : /\ k <= Len(persisted[j].log)
                                                    /\ persisted[j].log[k] = log[i][k]}))
  BY DEF SafetyInv, CommittedUnlessReused, CommittedIsReplicated
<1>1. TypeOK /\ PersistedIsCurrent /\ CommitHistory(H, A) /\ MatchHistory(H, A) /\ A \in Confirmations
      /\ H \in Histories
  BY DEF RaftInv, TypeInv, SafeHistory, CommitHistory, LogHistory
<1>2. commitIndex[i] \in Nat /\ log[i] \in Seq(Entry) /\ \A j \in Server : persisted[j].log = log[j]
  BY <1>1 DEF TypeOK, PersistedIsCurrent
<1>3. k \in Nat /\ k >= 1 /\ k <= commitIndex[i] /\ commitIndex[i] # 0
  BY <1>2
<1>4. PICK t \in Nat, n \in Nat : /\ commitIndex[i] <= n /\ Committed(H, A, t, n)
                                  /\ Agree(log[i], H[t], commitIndex[i])
  BY <1>1, <1>3 DEF MatchHistory, CommitSettled, Settled
<1>5. Own(H, t, n) /\ Choosable(A, t, n)
  BY <1>1, <1>4, CommittedChoosable
<1>6. k <= Len(log[i]) /\ log[i][k] = H[t][k] /\ k \in 1..n
  BY <1>2, <1>3, <1>4 DEF Agree
<1>7. ASSUME NEW v \in Server, A[t][v] >= n
      PROVE  k <= Len(persisted[v].log) /\ persisted[v].log[k] = log[i][k]
  <2>1. A[t][v] \in Nat
    BY <1>1, ConfirmedType
  <2>2. Agree(log[v], H[t], n)
    BY <1>1, <1>5, <1>7, <2>1 DEF CommitHistory, Kept
  <2>3. log[v] \in Seq(Entry)
    BY <1>1 DEF TypeOK
  <2>4. k <= Len(log[v]) /\ log[v][k] = H[t][k]
    BY <1>6, <2>2, <2>3 DEF Agree
  <2>. QED BY <1>2, <1>6, <2>4
<1>8. {v \in Server : A[t][v] >= n} \subseteq {j \in Server : /\ k <= Len(persisted[j].log)
                                                              /\ persisted[j].log[k] = log[i][k]}
  BY <1>7
<1>9. Majority(Cardinality({v \in Server : A[t][v] >= n}))
  BY <1>4 DEF Committed
<1>10. {j \in Server : /\ k <= Len(persisted[j].log)
                       /\ persisted[j].log[k] = log[i][k]} \subseteq Server
  OBVIOUS
<1>11. Majority(Cardinality({j \in Server : /\ k <= Len(persisted[j].log)
                                            /\ persisted[j].log[k] = log[i][k]}))
  BY <1>8, <1>9, <1>10, MajorityGrows
<1>. QED BY <1>6, <1>11

\* Two committed beginnings agree as far as both go.
LEMMA CommittedAgree ==
    ASSUME RaftInv, NEW H, NEW A, LogHistory(H), CommitHistory(H, A),
           NEW t \in Nat, NEW n \in Nat, Committed(H, A, t, n),
           NEW u \in Nat, NEW p \in Nat, Committed(H, A, u, p), t <= u,
           NEW k \in Nat, k >= 1, k <= n, k <= p
    PROVE  H[t][k] = H[u][k]
<1>1. CASE t = u
  BY <1>1
<1>2. CASE t < u
  <2>1. A \in Confirmations /\ Own(H, u, p)
    BY DEF CommitHistory, Committed
  <2>2. H[u] # << >>
    BY <2>1 DEF Own
  <2>3. PICK l \in leaders : l[1] = u
    BY <2>2 DEF LogHistory, PastLed
  <2>4. Own(H, t, n) /\ Choosable(A, t, n)
    BY <2>1, CommittedChoosable
  <2>5. Agree(H[u], H[t], n)
    BY <1>2, <2>3, <2>4 DEF CommitHistory, Complete
  <2>6. k \in 1..n
    OBVIOUS
  <2>. QED BY <2>5, <2>6 DEF Agree
<1>. QED BY <1>1, <1>2

\* What is applied at one index is one entry.
LEMMA AppliedAgree == SafetyInv => AppliedUnlessReused
<1>. SUFFICES ASSUME RaftInv, NEW H, NEW A, SafeHistory(H, A), ~reusedMatch,
                     NEW a \in applied, NEW b \in applied, a[1] = b[1]
     PROVE  a = b
  BY DEF SafetyInv, AppliedUnlessReused
<1>1. LogHistory(H) /\ CommitHistory(H, A) /\ AppliedIn(H, A, a) /\ AppliedIn(H, A, b)
  BY DEF SafeHistory, MatchHistory, AppliedSettled
<1>2. PICK t \in Nat, n \in Nat, k \in Nat : /\ k \in 1..n /\ Committed(H, A, t, n)
                                            /\ a = <<k, H[t][k]>>
  BY <1>1 DEF AppliedIn
<1>3. PICK u \in Nat, p \in Nat, x \in Nat : /\ x \in 1..p /\ Committed(H, A, u, p)
                                            /\ b = <<x, H[u][x]>>
  BY <1>1 DEF AppliedIn
<1>4. k = x /\ k \in Nat /\ k >= 1 /\ k <= n /\ k <= p
  BY <1>2, <1>3
<1>5. CASE t <= u
  <2>1. H[t][k] = H[u][k]
    BY <1>1, <1>2, <1>3, <1>4, <1>5, CommittedAgree
  <2>. QED BY <1>2, <1>3, <1>4, <2>1
<1>6. CASE u <= t
  <2>1. H[u][k] = H[t][k]
    BY <1>1, <1>2, <1>3, <1>4, <1>6, CommittedAgree
  <2>. QED BY <1>2, <1>3, <1>4, <2>1
<1>. QED BY <1>5, <1>6

\* commitIndex means what raft.go says of it, in the files of a majority, until a
\* leader starts with a matchIndex that it did not reset.
THEOREM CommittedCorrect == Spec => []CommittedUnlessReused
BY SafetyInvariant, SettledReplicated, PTL

\* No two peers, and no two incarnations of one, apply different commands at an index,
\* until a leader starts with a matchIndex that it did not reset.
THEOREM AppliedCorrect == Spec => []AppliedUnlessReused
BY SafetyInvariant, AppliedAgree, PTL

\* A step without a crash takes commitIndex back nowhere.
LEMMA CommitForward ==
    ASSUME SafetyInv, RaftInv', [Next]_vars, restarts' = restarts, ~reusedMatch, NEW i \in Server
    PROVE  commitIndex'[i] >= commitIndex[i]
<1>1. PICK H, A : RaftInv /\ LogHistory(H) /\ CommitHistory(H, A) /\ MatchHistory(H, A)
  BY DEF SafetyInv, SafeHistory
<1>2. TypeInv /\ TypeInv' /\ TypeOK /\ TypeOK' /\ commitIndex[i] \in Nat /\ commitIndex'[i] \in Nat
  BY <1>1 DEF RaftInv, TypeInv, TypeOK
<1>3. ASSUME commitIndex'[i] = commitIndex[i] PROVE commitIndex'[i] >= commitIndex[i]
  BY <1>2, <1>3
<1>4. CASE \/ \E j \in Server : StartElection(j)
           \/ \E m \in voteCalls : RequestVote(m)
           \/ \E r \in voteReplies : RequestVoteReply(r)
           \/ \E j \in Server, v \in Value : Start(j, v)
           \/ \E j, k \in Server : j # k /\ SendAppendEntries(j, k)
           \/ \E j \in Server : ApplyLoop(j)
           \/ LoseCall
           \/ UNCHANGED vars
  <2>1. commitIndex' = commitIndex
    BY <1>4 DEF StartElection, RequestVote, RequestVoteReply, Start, SendAppendEntries, ApplyLoop,
       LoseCall, vars
  <2>. QED BY <1>3, <2>1
<1>5. ASSUME NEW m \in appendCalls, AppendEntries(m) PROVE commitIndex'[i] >= commitIndex[i]
  <2>1. CASE i = m.to /\ Accepts(m)
    BY <1>1, <1>5, <2>1, FollowerSettled
  <2>2. CASE i # m.to \/ ~Accepts(m)
    <3>1. commitIndex'[i] = commitIndex[i]
      BY <1>1, <1>5, <2>2, AppendFacts
    <3>. QED BY <1>3, <3>1
  <2>. QED BY <2>1, <2>2
<1>6. ASSUME NEW r \in appendReplies, AppendEntriesReply(r) PROVE commitIndex'[i] >= commitIndex[i]
  <2>1. commitIndex' = commitIndex \/ Counts(r)
    <3>1. \/ commitIndex' = commitIndex
          \/ /\ state[r.args.from] = Leader /\ currentTerm[r.args.from] = r.args.term /\ r.success
             /\ matchIndex' = [matchIndex EXCEPT ![r.args.from][r.args.to] =
                    IF r.args.prevLogIndex + Len(r.args.entries) > @
                    THEN r.args.prevLogIndex + Len(r.args.entries) ELSE @]
             /\ commitIndex' = [commitIndex EXCEPT ![r.args.from] =
                    CommitFrom(r.args.from, matchIndex'[r.args.from])]
             /\ UNCHANGED <<durableVars, state, persisted>>
      BY <1>6 DEF AppendEntriesReply
    <3>. QED BY <3>1 DEF Counts, durableVars
  <2>2. CASE commitIndex' = commitIndex
    BY <1>3, <2>2
  <2>3. CASE Counts(r)
    <3>1. commitIndex'[i] = commitIndex[i] \/ commitIndex'[i] > commitIndex[i]
      BY <1>1, <2>3, CountsSettled
    <3>. QED BY <1>2, <3>1
  <2>. QED BY <2>1, <2>2, <2>3
<1>7. ASSUME NEW S \in RestartGroups, Restart(S) PROVE FALSE
  BY <1>2, <1>7 DEF Restart, TypeOK
<1>. QED BY <1>4, <1>5, <1>6, <1>7 DEF Next, Ticker, DebugForceElection

\* In one incarnation of a peer commitIndex only grows, whatever order the calls and
\* replies arrive in.
THEOREM CommitMonotoneCorrect == Spec => CommitMonotone
<1>1. ASSUME SafetyInv, SafetyInv', [Next]_vars
      PROVE  [\A i \in Server :
                 restarts' = restarts /\ ~reusedMatch => commitIndex'[i] >= commitIndex[i]]_vars
  <2>1. RaftInv'
    BY <1>1 DEF SafetyInv
  <2>. QED BY <1>1, <2>1, CommitForward
<1>2. SafetyInv /\ SafetyInv' /\ [Next]_vars
      => [\A i \in Server :
             restarts' = restarts /\ ~reusedMatch => commitIndex'[i] >= commitIndex[i]]_vars
  BY <1>1
<1>. QED BY <1>2, SafetyInvariant, PTL DEF Spec, CommitMonotone

=============================================================================
