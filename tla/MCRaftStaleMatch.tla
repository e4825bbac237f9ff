--------------------------- MODULE MCRaftStaleMatch ---------------------------
(* A peer that leads twice: what becomes of the matchIndex of its first term. *)
(* The search is directed: s1 and s3 take turns as candidates, and each term  *)
(* brings a fixed number of commands.                                         *)
EXTENDS Raft

CONSTANTS s1, s2, s3, MaxInFlight

Peers == {s1, s2, s3}

OneProcess == {Server}

\* For each term: its candidate, how many commands it may take, and the peers its
\* AppendEntries calls reach.
Turn   == <<s1, s3, s1, s3, s1>>
Quota  == <<2, 1, 0, 0, 1>>
Reach  == <<{}, {}, {s2}, {s1}, {s3}>>

Directed ==
    /\ \A b \in ballots : b[3] = Turn[b[1]]
    /\ \A i \in Server : \A t \in 1..MaxTerm :
           Cardinality({k \in 1..Len(log[i]) : log[i][k].term = t}) <= Quota[t]
    /\ \A m \in appendCalls : m.to \in Reach[m.term]
    /\ Cardinality(voteCalls) + Cardinality(voteReplies)
       + Cardinality(appendCalls) + Cardinality(appendReplies) <= MaxInFlight
=============================================================================
