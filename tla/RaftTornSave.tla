---------------------------- MODULE RaftTornSave ----------------------------
(***************************************************************************)
(* Raft with the crash that Persister.Save() allows.  os.WriteFile empties *)
(* raft_state.bin before it writes the new bytes, so a process that dies   *)
(* inside Save() leaves a file that is empty or ends early.  readPersist() *)
(* gets nothing from it, or gives up at the first Decode error, and the    *)
(* peer starts as Make() initialised it.                                   *)
(***************************************************************************)
EXTENDS Raft

\* A process dies while its peers in T, which hold rf.mu, are inside Save().
\* Start() or startElection() may be what they were saving for.
CrashInSave(S, T) ==
    LET left == [i \in Server |-> IF i \in T THEN Bootstrap ELSE persisted[i]]
    IN  /\ restarts < MaxRestarts
        /\ \A i \in T : currentTerm[i] < MaxTerm
        /\ restarts' = restarts + 1
        /\ persisted' = left
        /\ Reload(S, left)

TornNext ==
    \/ Next
    \/ \E S \in RestartGroups : \E T \in SUBSET S : CrashInSave(S, T)

TornSpec == Init /\ [][TornNext]_vars
=============================================================================
