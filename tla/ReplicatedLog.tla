--------------------------- MODULE ReplicatedLog ----------------------------
(***************************************************************************)
(* What a Raft group promises the service above it (raftapi.Raft and       *)
(* applyCh), and nothing else: an entry handed to Start() is proposed at   *)
(* one index; for every index one of the entries proposed there is chosen; *)
(* each peer delivers the chosen entries in order, from index 1 again      *)
(* after a restart.  Which peer takes an entry is not promised: any may     *)
(* believe that it leads, and any may refuse.                              *)
(***************************************************************************)
EXTENDS Integers, Sequences

CONSTANTS
    Server,     \* the peers
    Entry,      \* what Start() is given
    MaxIndex    \* bound: the highest index Start() returns

VARIABLES
    proposed,   \* <<index, entry>> of every Start() that returned that index
    chosen,     \* the entries delivered so far by any peer
    delivered   \* per peer: the last index it handed to its service

logVars == <<proposed, chosen, delivered>>

LogInit ==
    /\ proposed = {}
    /\ chosen = <<>>
    /\ delivered = [i \in Server |-> 0]

\* Start() is accepted by a peer that takes itself for the leader: n is the end of its log,
\* which holds at least what it has delivered, and every entry of which was
\* proposed where it stands.
Start(i, e, n) ==
    /\ n \in (delivered[i] + 1)..MaxIndex
    /\ n = 1 \/ \E p \in proposed : p[1] = n - 1
    /\ proposed' = proposed \cup {<<n, e>>}
    /\ UNCHANGED <<chosen, delivered>>

\* The proposals that may follow what is chosen, up to index n.
Choices(n) ==
    {s \in [1..(IF n > Len(chosen) THEN n - Len(chosen) ELSE 0) -> Entry] :
        \A k \in DOMAIN s : <<Len(chosen) + k, s[k]>> \in proposed}

\* applyLoop() collects everything up to its commitIndex n.
Deliver(i, n) ==
    /\ n > delivered[i]
    /\ \E s \in Choices(n) : chosen' = chosen \o s
    /\ delivered' = [delivered EXCEPT ![i] = n]
    /\ UNCHANGED proposed

\* The peers of S crash and start again: lastApplied is not persisted.
Restart(S) ==
    /\ delivered' = [i \in Server |-> IF i \in S THEN 0 ELSE delivered[i]]
    /\ UNCHANGED <<proposed, chosen>>

LogNext ==
    \/ \E i \in Server, e \in Entry, n \in 1..MaxIndex : Start(i, e, n)
    \/ \E i \in Server, n \in 1..MaxIndex : Deliver(i, n)
    \/ \E S \in SUBSET Server : Restart(S)

LogSpec == LogInit /\ [][LogNext]_logVars
=============================================================================
