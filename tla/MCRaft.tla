------------------------------- MODULE MCRaft -------------------------------
(* Raft on a small group.                                                    *)
EXTENDS RaftLog, TLC

CONSTANTS
    MaxElections,   \* bound: elections in one behaviour
    MaxInFlight     \* bound: calls and replies under way together

\* All peers in one process, as in cmd/kvnode.
OneProcess == {Server}

Symmetry == Permutations(Server) \cup Permutations(Value)

\* The properties promise nothing beyond a matchIndex that is used again.  The
\* crash comes once some leader has taken a command; what follows it has the
\* same bounds as what goes before.
Bounded ==
    /\ ~reusedMatch
    /\ restarts > 0 => proposed # {}
    /\ Cardinality({b \in ballots : b[2] = b[3]}) <= MaxElections
    /\ Cardinality(voteCalls) + Cardinality(voteReplies)
         + Cardinality(appendCalls) + Cardinality(appendReplies) <= MaxInFlight
=============================================================================
