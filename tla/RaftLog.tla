------------------------------ MODULE RaftLog -------------------------------
(***************************************************************************)
(* The Raft group of module Raft keeps the promises of ReplicatedLog, on   *)
(* which the store rests.  The history variable proposed, which only       *)
(* Start() extends, is all that the mapping needs beyond Raft's own state. *)
(***************************************************************************)
EXTENDS Raft

VARIABLE proposed   \* <<index, entry>> of every command Start() took

raftLogVars == <<vars, proposed>>

LogInit == Init /\ proposed = {}

\* Start(), and what it returned to the service.
StartAt(i, v) ==
    /\ Start(i, v)
    /\ proposed' = proposed \cup
           {<<Len(log[i]) + 1, [term |-> currentTerm[i], command |-> v]>>}

\* Everything else a peer, the network or a crash does.
Internal ==
    \/ \E i \in Server : Ticker(i)
    \/ \E i \in Server : DebugForceElection(i)
    \/ \E m \in voteCalls : RequestVote(m)
    \/ \E r \in voteReplies : RequestVoteReply(r)
    \/ \E i, j \in Server : i # j /\ SendAppendEntries(i, j)
    \/ \E m \in appendCalls : AppendEntries(m)
    \/ \E r \in appendReplies : AppendEntriesReply(r)
    \/ \E i \in Server : ApplyLoop(i)
    \/ LoseCall
    \/ \E S \in RestartGroups : Restart(S)

LogNext == \/ \E i \in Server, v \in Value : StartAt(i, v)
           \/ Internal /\ UNCHANGED proposed

LogSpec == LogInit /\ [][LogNext]_raftLogVars

-----------------------------------------------------------------------------
\* What was applied at index k.
AppliedAt(k) == CHOOSE e \in {a[2] : a \in applied} : <<k, e>> \in applied

Promise == INSTANCE ReplicatedLog WITH
    Entry     <- [term : 1..MaxTerm, command : Value],
    MaxIndex  <- MaxLog,
    chosen    <- [k \in {a[1] : a \in applied} |-> AppliedAt(k)],
    delivered <- lastApplied

\* Every step of the group is a step of the replicated log or invisible to the
\* service: what Start() took at an index is the only thing that is ever
\* delivered there, in order, the same on every peer and again after a restart,
\* as long as no leader has started with a matchIndex of an earlier term.
ImplementsLog ==
    [][~reusedMatch' => Promise!LogNext]_<<proposed, applied, lastApplied>>
=============================================================================
