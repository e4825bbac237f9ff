--------------------------- MODULE MCRaftDiverged ---------------------------
(* Raft over logs that earlier leaders left in disagreement, so that every   *)
(* branch of the back-off is taken: first with the election that follows,    *)
(* then from the moment a peer has won it.                                   *)
EXTENDS Raft, TLC

CONSTANTS
    s1, s2, s3,
    MaxInFlight     \* bound: calls and replies under way together

Peers == {s1, s2, s3}

\* Every peer in a process of its own.
Separate == {{i} : i \in Server}

\* The terms of the entries of s1, s2 and s3.  In the first two s2 led term 2
\* and s1 led terms 1 and 3; in the third s2 led term 1 and s1 term 2; in the
\* fourth s2 led term 1 and s1 term 3.
Histories ==
    {<< <<1, 1, 3>>, <<1, 2, 2>>, <<1>> >>,
     << <<1, 1, 3>>, <<1, 2, 2>>, << >> >>,
     << <<1, 2>>,    <<1, 1, 1>>, <<1>> >>,
     << <<1, 1, 3>>, <<1, 1, 1>>, <<1, 1>> >>}

LogOf(terms) == [k \in DOMAIN terms |->
                    [term |-> terms[k], command |-> CHOOSE v \in Value : TRUE]]

Logs(h) == (s1 :> LogOf(h[1])) @@ (s2 :> LogOf(h[2])) @@ (s3 :> LogOf(h[3]))

\* Nothing is under way and nothing is known to be committed.
Quiet ==
    /\ commitIndex = [i \in Server |-> 0]
    /\ lastApplied = [i \in Server |-> 0]
    /\ matchIndex  = [i \in Server |-> [j \in Server |-> 0]]
    /\ persisted   = [i \in Server |-> [term |-> currentTerm[i],
                         votedFor |-> votedFor[i], log |-> log[i]]]
    /\ voteCalls = {} /\ voteReplies = {} /\ appendCalls = {} /\ appendReplies = {}
    /\ restarts = 0 /\ applied = {} /\ reusedMatch = FALSE

\* s3 stood in the last term but one and was refused, its log being behind the
\* two others; then all peers restarted.
RestartedInit ==
    /\ \E h \in Histories : log = Logs(h)
    /\ currentTerm = [i \in Server |-> MaxTerm - 1]
    /\ votedFor    = (s1 :> Nil) @@ (s2 :> Nil) @@ (s3 :> s3)
    /\ state       = [i \in Server |-> Follower]
    /\ nextIndex   = [i \in Server |-> [j \in Server |-> 0]]
    /\ votes       = [i \in Server |-> {}]
    /\ ballots = {<<MaxTerm - 1, s3, s3>>} /\ leaders = {}
    /\ Quiet

RestartedSpec == RestartedInit /\ [][Next]_vars

Bounded ==
    Cardinality(voteCalls) + Cardinality(voteReplies)
    + Cardinality(appendCalls) + Cardinality(appendReplies) <= MaxInFlight

-----------------------------------------------------------------------------
\* s1 has won the election of the last term; one of the others is cut off.
ElectedInit ==
    /\ \E h \in Histories : log \in {Logs(h), Logs(<<h[1], h[3], h[2]>>)}
    /\ currentTerm = [i \in Server |-> MaxTerm]
    /\ votedFor    = [i \in Server |-> s1]
    /\ state       = [i \in Server |-> IF i = s1 THEN Leader ELSE Follower]
    /\ nextIndex   = [i \in Server |-> [j \in Server |->
                         IF i = s1 THEN Len(log[s1]) + 1 ELSE 0]]
    /\ votes       = [i \in Server |-> IF i = s1 THEN Server ELSE {}]
    /\ ballots = {<<MaxTerm, i, s1>> : i \in Server} /\ leaders = {<<MaxTerm, s1>>}
    /\ Quiet

Connected == {s1, s2}

ConnectedNext == Next /\ \A m \in appendCalls' : m.to \in Connected

\* heartbeatTicker() keeps sending while a peer leads, a reliable network
\* delivers every call and reply, and applyLoop() never stops.
Fairness ==
    /\ \A i, j \in Connected :
        /\ WF_vars(i # j /\ SendAppendEntries(i, j))
        /\ WF_vars(\E m \in appendCalls : m.from = i /\ m.to = j /\ AppendEntries(m))
        /\ WF_vars(\E r \in appendReplies :
                       r.args.from = i /\ r.args.to = j /\ AppendEntriesReply(r))
    /\ \A i \in Connected : WF_vars(ApplyLoop(i))

ElectedSpec == ElectedInit /\ [][ConnectedNext]_vars /\ Fairness

\* A leader that stays in office makes the log of every peer it reaches equal to
\* its own, although calls to one peer overlap: the back-off always finds the
\* common prefix and repairs what follows it.
LogsConverge == <>[](\A i, j \in Connected : log[i] = log[j])

\* A command that the leader took in its own term is applied by every peer it
\* reaches, and with it everything before it.
CommandsApplied ==
    \A i \in Connected :
        (state[i] = Leader /\ Len(log[i]) = MaxLog)
            ~> (\A j \in Connected : lastApplied[j] = MaxLog)
=============================================================================
