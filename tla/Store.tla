------------------------------- MODULE Store --------------------------------
(***************************************************************************)
(* The replicated store above the log: the HTTP gateway that looks for a   *)
(* leader (internal/api/server.go), the Put, Delete, Get and               *)
(* GetLocalIfLeader of internal/store/store.go with their wait channels    *)
(* and timeouts, and the apply loop of every node, over the promises of    *)
(* ReplicatedLog.  All nodes live in one process (cmd/kvnode), so a crash  *)
(* takes all of them and every request under way.                          *)
(*                                                                         *)
(* A client sends the requests of its program one after the other.  Its    *)
(* n-th request <<client, n>> stands for the Op: OpId makes Ops distinct,  *)
(* and the value a PUT writes is the request itself.                       *)
(***************************************************************************)
EXTENDS Integers, Sequences, FiniteSets, Functions

CONSTANTS
    N,              \* the stores, 1..N, in the order the gateway tries them
    Key, Client,
    Programs,       \* what the clients may do: per client a sequence of [operation, key]
    Nil,            \* no value, no result
    MaxIndex,       \* bound: length of the log
    MaxFailures     \* bound: crashes of the process and writes the engine refuses

Server == 1..N

Request == UNION {UNION {{c} \X DOMAIN p[c] : c \in Client} : p \in Programs}

ASSUME ClientAssumption ==
    /\ N \in Nat \ {0}
    /\ Programs \subseteq
           [Client -> Seq([operation : {"PUT", "DELETE", "GET", "LOCAL"}, key : Key])]

\* Nil is none of the things whose absence it stands for.
ASSUME NilAssumption ==
    /\ Nil \notin Request
    /\ Nil \notin [op : Request, err : BOOLEAN, value : Request \cup {Nil}]
    /\ Nil \notin {"ok", "failed"}

ASSUME BoundAssumption == MaxIndex \in Nat /\ MaxFailures \in Nat

VARIABLES
    proposed, chosen,   \* the Raft group, see ReplicatedLog
    delivered,  \* per store: CommandIndex of the last message taken from applyCh
    program,    \* the one of Programs that the clients follow
    turn,       \* per client: the number of its request
    stage,      \* per client: where the HTTP handler of that request is
    node,       \* per client: the store the handler is at
    index,      \* per client: what Start() returned, 0 before
    mailbox,    \* per client: the content of the handler's channel (capacity 1)
    result,     \* per client: the outcome the handler reports
    value,      \* per client: the value a read returned, Nil if not found
    waitChans,  \* per store: log index -> the client whose channel is registered
    db,         \* per store: the map in its engine
    reply,      \* per store: the OpResult the apply loop has not yet sent, or Nil
    crashes, errors,    \* counted against the bounds
    high,       \* history, per store: the highest index ever applied
    skipped,    \* history, per store: keys whose last write the engine refused
    acked,      \* history: the highest index answered with success
    denied,     \* history: requests answered "leadership changed" or "no leader"
    floor,      \* history, per client: acked when its request was sent to Start()
    missed      \* history, per client: its channel was registered too late, or
                \* did not stay registered

Raft == INSTANCE ReplicatedLog WITH Entry <- Request

logVars     == <<proposed, chosen, delivered>>
requestVars == <<program, turn, node, index, value>>
storeVars   == <<db, reply>>
boundVars   == <<crashes, errors>>
storeHist   == <<high, skipped>>
clientHist  == <<acked, denied, floor, missed>>
vars == <<logVars, requestVars, stage, result, mailbox, waitChans, storeVars, boundVars,
          storeHist, clientHist>>

Operation(r) == program[r[1]][r[2]].operation
KeyOf(r)     == program[r[1]][r[2]].key

\* The Op that the handler of client c is serving.
OpOf(c) == <<c, turn[c]>>

Greatest(S) == CHOOSE x \in S : \A y \in S : y <= x

\* The indices up to n at which the log writes key k.
WritesOf(k, n) ==
    {m \in 1..n : KeyOf(chosen[m]) = k /\ Operation(chosen[m]) \in {"PUT", "DELETE"}}

\* What the first n entries of the log leave at key k.
ValueAt(k, n) ==
    IF WritesOf(k, n) = {} THEN Nil
    ELSE LET r == chosen[Greatest(WritesOf(k, n))]
         IN  IF Operation(r) = "PUT" THEN r ELSE Nil

-----------------------------------------------------------------------------
Init ==
    /\ Raft!LogInit
    /\ program \in Programs
    /\ turn    = [c \in Client |-> 0]
    /\ stage   = [c \in Client |-> "done"]
    /\ node    = [c \in Client |-> 1]
    /\ index   = [c \in Client |-> 0]
    /\ mailbox = [c \in Client |-> Nil]
    /\ result  = [c \in Client |-> Nil]
    /\ value   = [c \in Client |-> Nil]
    /\ waitChans = [i \in Server |-> <<>>]
    /\ db        = [i \in Server |-> [k \in Key |-> Nil]]
    /\ reply     = [i \in Server |-> Nil]
    /\ crashes = 0 /\ errors = 0
    /\ high    = [i \in Server |-> 0]
    /\ skipped = [i \in Server |-> {}]
    /\ acked = 0 /\ denied = {}
    /\ floor   = [c \in Client |-> 0]
    /\ missed  = [c \in Client |-> FALSE]

-----------------------------------------------------------------------------
(* The gateway and the first half of Put, Delete and Get.                    *)

\* The next request of a client arrives; the loop over kvStores starts again.
Arrive(c) ==
    /\ stage[c] = "done" /\ turn[c] < Len(program[c])
    /\ turn'   = [turn EXCEPT ![c] = @ + 1]
    /\ stage'  = [stage EXCEPT ![c] = "call"]
    /\ node'   = [node EXCEPT ![c] = 1]
    /\ index'  = [index EXCEPT ![c] = 0]
    /\ result' = [result EXCEPT ![c] = Nil]
    /\ value'  = [value EXCEPT ![c] = Nil]
    /\ floor'  = [floor EXCEPT ![c] = 0]
    /\ missed' = [missed EXCEPT ![c] = FALSE]
    /\ UNCHANGED <<logVars, program, mailbox, waitChans, storeVars, boundVars, storeHist,
                   acked, denied>>

\* Mutant: the leader writes its own engine before the entry is committed.
CallWritesThrough(c) ==
    /\ stage[c] = "call" /\ Operation(OpOf(c)) # "LOCAL"
    /\ \E n \in 1..MaxIndex :
          /\ Raft!Start(node[c], OpOf(c), n)
          /\ index' = [index EXCEPT ![c] = n]
    /\ stage' = [stage EXCEPT ![c] = "register"]
    /\ db' = [db EXCEPT ![node[c]][KeyOf(OpOf(c))] =
                 IF Operation(OpOf(c)) = "PUT" THEN OpOf(c) ELSE @]
    /\ UNCHANGED <<program, turn, node, result, value, mailbox, waitChans, reply, boundVars,
                   storeHist, clientHist>>

\* Start() takes the Op.
CallLeader(c) ==
    /\ stage[c] = "call" /\ Operation(OpOf(c)) # "LOCAL"
    /\ \E n \in 1..MaxIndex :
          /\ Raft!Start(node[c], OpOf(c), n)
          /\ index' = [index EXCEPT ![c] = n]
    /\ stage' = [stage EXCEPT ![c] = "register"]
    /\ floor' = [floor EXCEPT ![c] = acked]
    /\ UNCHANGED <<program, turn, node, result, value, mailbox, waitChans, storeVars, boundVars,
                   storeHist, acked, denied, missed>>

\* Mutant: the loop goes one store too far.
TryOneMore(c) == node[c] <= N

\* There is another store to try.
HasNext(c) == node[c] < N

\* "not leader", from Start() or GetState(): the gateway goes on to the next
\* store, and gives up after the last.
CallFollower(c) ==
    /\ stage[c] = "call"
    /\ IF HasNext(c)
       THEN /\ node' = [node EXCEPT ![c] = @ + 1]
            /\ UNCHANGED <<stage, result, denied>>
       ELSE /\ result' = [result EXCEPT ![c] = "unavailable"]
            /\ stage' = [stage EXCEPT ![c] = "done"]
            /\ denied' = denied \cup {OpOf(c)}
            /\ UNCHANGED node
    /\ UNCHANGED <<logVars, program, turn, index, value, mailbox, waitChans, storeVars, boundVars,
                   storeHist, acked, floor, missed>>

-----------------------------------------------------------------------------
(* The second half: a channel registered under the index, and the select.    *)

\* The apply loop sends under kv.mu; it holds the lock for good when the channel
\* it found is full.
Stuck(i) ==
    /\ reply[i] # Nil /\ delivered[i] \in DOMAIN waitChans[i]
    /\ mailbox[waitChans[i][delivered[i]]] # Nil

\* The last index whose waiter the apply loop of store i has looked for.
Notified(i) == IF reply[i] = Nil THEN delivered[i] ELSE delivered[i] - 1

\* Mutant: the next index is registered.
SlotAfter(c) == index[c] + 1

\* The key under which the channel is registered.
SlotOf(c) == index[c]

\* Whose channel is registered where c registers its own.
Occupant(c) == {waitChans[node[c]][n] : n \in {SlotOf(c)} \cap DOMAIN waitChans[node[c]]}

\* waitChans[index] = ch, whoever was registered there.
Register(c) ==
    /\ stage[c] = "register" /\ ~Stuck(node[c])
    /\ waitChans' = [waitChans EXCEPT ![node[c]] =
                        [n \in DOMAIN @ \cup {SlotOf(c)} |-> IF n = SlotOf(c) THEN c ELSE @[n]]]
    /\ stage' = [stage EXCEPT ![c] = "wait"]
    /\ missed' = [d \in Client |-> \/ missed[d] \/ d \in Occupant(c)
                                   \/ d = c /\ Notified(node[c]) >= index[c]]
    /\ UNCHANGED <<logVars, requestVars, result, mailbox, storeVars, boundVars, storeHist,
                   acked, denied, floor>>

\* Mutant: whatever was applied at the index is taken for the own operation.
AnyOutcome(c, m) == IF m.err THEN "failed" ELSE "ok"

\* What the handler reports when m is in its channel.
Outcome(c, m) == IF m.op # OpOf(c) THEN "changed" ELSE IF m.err THEN "failed" ELSE "ok"

\* The select takes the channel.
Wake(c) ==
    LET outcome == Outcome(c, mailbox[c])
    IN  /\ stage[c] = "wait" /\ mailbox[c] # Nil
        /\ result' = [result EXCEPT ![c] = outcome]
        /\ value' = [value EXCEPT ![c] = IF outcome = "ok" THEN mailbox[c].value ELSE Nil]
        /\ denied' = IF outcome = "changed" THEN denied \cup {OpOf(c)} ELSE denied
        /\ stage' = [stage EXCEPT ![c] = "leave"]
        /\ UNCHANGED <<logVars, program, turn, node, index, mailbox, waitChans, storeVars, boundVars,
                       storeHist, acked, floor, missed>>

\* Mutant: the handler waits for as long as it takes.
WaitForever(c) == FALSE /\ UNCHANGED vars

\* Mutant: the gateway takes a timeout for a reason to try the next store.
RetryTimeout(c) ==
    /\ stage[c] = "wait" /\ node[c] < N
    /\ node' = [node EXCEPT ![c] = @ + 1]
    /\ stage' = [stage EXCEPT ![c] = "call"]
    /\ UNCHANGED <<logVars, program, turn, index, result, value, mailbox, waitChans, storeVars,
                   boundVars, storeHist, clientHist>>

\* The select takes the timer, possibly with a result in the channel.
Timeout(c) ==
    /\ stage[c] = "wait"
    /\ result' = [result EXCEPT ![c] = "timeout"]
    /\ stage' = [stage EXCEPT ![c] = "leave"]
    /\ UNCHANGED <<logVars, requestVars, mailbox, waitChans, storeVars, boundVars, storeHist,
                   clientHist>>

\* Mutant: only a request that was woken removes its channel.
KeepAfterTimeout(c) == IF result[c] = "timeout" THEN {} ELSE {SlotOf(c)}

\* The keys that the deferred delete(waitChans, index) removes.
Deleted(c) == {SlotOf(c)}

\* The deferred delete, whoever is registered there, and the HTTP answer.
Leave(c) ==
    /\ stage[c] = "leave" /\ ~Stuck(node[c])
    /\ waitChans' = [waitChans EXCEPT ![node[c]] = Restrict(@, DOMAIN @ \ Deleted(c))]
    /\ stage' = [stage EXCEPT ![c] = "done"]
    /\ mailbox' = [mailbox EXCEPT ![c] = Nil]
    /\ acked' = IF result[c] = "ok" THEN Greatest({acked, index[c]}) ELSE acked
    /\ missed' = [d \in Client |-> missed[d] \/ d \in Occupant(c) \ {c}]
    /\ UNCHANGED <<logVars, requestVars, result, storeVars, boundVars, storeHist,
                   denied, floor>>

-----------------------------------------------------------------------------
(* GetLocalIfLeader.                                                         *)

\* GetState() says that this node leads ...
LocalCheck(c) ==
    /\ stage[c] = "call" /\ Operation(OpOf(c)) = "LOCAL"
    /\ stage' = [stage EXCEPT ![c] = "read"]
    /\ UNCHANGED <<logVars, requestVars, result, mailbox, waitChans, storeVars, boundVars,
                   storeHist, clientHist>>

\* ... and the engine is read.
LocalRead(c) ==
    /\ stage[c] = "read"
    /\ value' = [value EXCEPT ![c] = db[node[c]][KeyOf(OpOf(c))]]
    /\ result' = [result EXCEPT ![c] = "ok"]
    /\ stage' = [stage EXCEPT ![c] = "done"]
    /\ UNCHANGED <<logVars, program, turn, node, index, mailbox, waitChans, storeVars, boundVars,
                   storeHist, clientHist>>

-----------------------------------------------------------------------------
(* The Raft group and the apply loop.                                        *)

\* Mutant: an entry that was applied before the restart is not applied again.
AppliedOnce(i, r) ==
    IF delivered[i] < high[i] THEN db[i]
    ELSE [db[i] EXCEPT ![KeyOf(r)] = IF Operation(r) = "PUT" THEN r
                                     ELSE IF Operation(r) = "DELETE" THEN Nil ELSE @]

\* What Put, Delete or Get of request r leaves in the engine of store i.
Applied(i, r) ==
    CASE Operation(r) = "PUT"    -> [db[i] EXCEPT ![KeyOf(r)] = r]
      [] Operation(r) = "DELETE" -> [db[i] EXCEPT ![KeyOf(r)] = Nil]
      [] OTHER                   -> db[i]

\* applyLoop takes a message and calls the engine.
Apply(i) ==
    LET n == delivered[i] + 1
        r == chosen'[n]
    IN  /\ reply[i] = Nil
        /\ Raft!Deliver(i, n)
        /\ high' = [high EXCEPT ![i] = Greatest({n, @})]
        /\ \/ /\ db' = [db EXCEPT ![i] = Applied(i, r)]
              /\ reply' = [reply EXCEPT ![i] =
                    [op |-> r, err |-> FALSE,
                     value |-> IF Operation(r) = "GET" THEN db[i][KeyOf(r)] ELSE Nil]]
              /\ skipped' = [skipped EXCEPT ![i] =
                    IF Operation(r) = "GET" THEN @ ELSE @ \ {KeyOf(r)}]
              /\ UNCHANGED errors
           \/ /\ crashes + errors < MaxFailures /\ Operation(r) # "GET"   \* Put or Delete fails
              /\ errors' = errors + 1
              /\ reply' = [reply EXCEPT ![i] = [op |-> r, err |-> TRUE, value |-> Nil]]
              /\ skipped' = [skipped EXCEPT ![i] = @ \cup {KeyOf(r)}]
              /\ UNCHANGED db
        /\ UNCHANGED <<requestVars, stage, result, mailbox, waitChans, crashes, clientHist>>

\* Mutant: the result of a GET goes to nobody.
NotifyWrites(i) ==
    /\ reply[i] # Nil /\ ~Stuck(i)
    /\ mailbox' = [c \in Client |->
          IF /\ delivered[i] \in DOMAIN waitChans[i] /\ waitChans[i][delivered[i]] = c
             /\ Operation(reply[i].op) # "GET"
          THEN reply[i] ELSE mailbox[c]]
    /\ reply' = [reply EXCEPT ![i] = Nil]
    /\ UNCHANGED <<logVars, requestVars, stage, result, waitChans, db, boundVars,
                   storeHist, clientHist>>

\* applyLoop, under kv.mu: whoever is registered at this index is told.
Notify(i) ==
    /\ reply[i] # Nil /\ ~Stuck(i)
    /\ mailbox' = [c \in Client |->
          IF delivered[i] \in DOMAIN waitChans[i] /\ waitChans[i][delivered[i]] = c
          THEN reply[i] ELSE mailbox[c]]
    /\ reply' = [reply EXCEPT ![i] = Nil]
    /\ UNCHANGED <<logVars, requestVars, stage, result, waitChans, db, boundVars,
                   storeHist, clientHist>>

\* The process dies and comes up again.  Raft delivers from index 1; an engine
\* has kept what it held, or, after one of the failures that module LSM shows,
\* holds for some keys an older value.
Crash ==
    /\ crashes + errors < MaxFailures
    /\ crashes' = crashes + 1
    /\ Raft!Restart(Server)
    /\ stage' = [c \in Client |-> "done"]
    /\ result' = [c \in Client |-> IF stage[c] = "done" THEN result[c] ELSE "lost"]
    /\ mailbox' = [c \in Client |-> Nil]
    /\ waitChans' = [i \in Server |-> <<>>]
    /\ reply' = [i \in Server |-> Nil]
    /\ \/ UNCHANGED db
       \/ \E old \in [Server -> [Key -> 0..Len(chosen)]] :
             /\ \A i \in Server, k \in Key : old[i][k] <= high[i]
             /\ db' = [i \in Server |-> [k \in Key |-> ValueAt(k, old[i][k])]]
    /\ skipped' = [i \in Server |-> {}]
    /\ UNCHANGED <<requestVars, errors, high, clientHist>>

RequestStep(c) ==
    \/ CallLeader(c) \/ CallFollower(c) \/ Register(c) \/ Wake(c) \/ Timeout(c) \/ Leave(c)
    \/ LocalCheck(c) \/ LocalRead(c)

ApplyStep(i) == Apply(i) \/ Notify(i)

Next ==
    \/ \E c \in Client : Arrive(c) \/ RequestStep(c)
    \/ \E i \in Server : ApplyStep(i)
    \/ Crash

Spec == Init /\ [][Next]_vars

\* Handlers and apply loops keep running and timers fire; nothing obliges the
\* Raft group to elect a leader or to deliver anything.
FairSpec == /\ Spec
            /\ \A c \in Client : WF_vars(RequestStep(c))
            /\ \A i \in Server : WF_vars(ApplyStep(i))

-----------------------------------------------------------------------------
(* Properties.                                                               *)

OpResult == [op : Request, err : BOOLEAN, value : Request \cup {Nil}]

\* Handlers, channels and stores keep their shape, and no store is ahead of what
\* its peer delivered.
TypeOK ==
    /\ program \in Programs /\ \A c \in Client : turn[c] \in 0..Len(program[c])
    /\ stage \in [Client -> {"call", "register", "wait", "leave", "read", "done"}]
    /\ node \in [Client -> Server]
    /\ index \in [Client -> 0..MaxIndex]
    /\ mailbox \in [Client -> OpResult \cup {Nil}]
    /\ result \in [Client -> {Nil, "ok", "failed", "changed", "timeout", "unavailable", "lost"}]
    /\ value \in [Client -> Request \cup {Nil}]
    /\ \A i \in Server : waitChans[i] \in [DOMAIN waitChans[i] -> Client]
    /\ db \in [Server -> [Key -> Request \cup {Nil}]]
    /\ reply \in [Server -> OpResult \cup {Nil}]
    /\ chosen \in Seq(Request)
    /\ \A i \in Server : delivered[i] <= Len(chosen) /\ high[i] <= Len(chosen)

InLog(r) == \E n \in DOMAIN chosen : chosen[n] = r

\* A request answered with the outcome of an operation, success or the engine's
\* error, was applied at the index Start() gave it, behind everything that had
\* been answered when Start() was called; and a GET returned what the log before
\* it leaves at its key, whichever node served it, before and after a crash.
Linearizable ==
    \A c \in Client : result[c] \in {"ok", "failed"} /\ Operation(OpOf(c)) # "LOCAL" =>
        /\ index[c] \in DOMAIN chosen /\ chosen[index[c]] = OpOf(c)
        /\ index[c] > floor[c]
        /\ Operation(OpOf(c)) = "GET" /\ errors = 0 =>
               value[c] = ValueAt(KeyOf(OpOf(c)), index[c] - 1)

\* An operation answered with "leadership changed before commit" or "no leader
\* right now" is not and will never be in the log: the client may safely send it
\* again.
DeniedMeansNever == \A r \in denied : ~InLog(r)

\* However many nodes the gateway asks, an operation enters the log at most once.
AtMostOnce == \A m, n \in DOMAIN chosen : chosen[m] = chosen[n] => m = n

\* Replaying the log from its first entry over whatever the engine kept makes it
\* the map the log describes as soon as it has reached the last index it had
\* applied before the crash; a write that the engine refused is missing on that
\* node until its key is written again.
ReplayHeals ==
    \A i \in Server : delivered[i] >= high[i] =>
        \A k \in Key \ skipped[i] : db[i][k] = ValueAt(k, delivered[i])

\* A waiting request whose index was applied has its result, unless the entry was
\* applied before the channel was registered, or another request with the same
\* index replaced or deleted the channel.
WokenUnlessMissed ==
    \A c \in Client :
        stage[c] = "wait" /\ ~missed[c] /\ Notified(node[c]) >= index[c] => mailbox[c] # Nil

\* A channel outlives neither its request nor the wait: waitChans does not grow.
WaitChansOwned ==
    \A i \in Server : \A n \in DOMAIN waitChans[i] :
        LET c == waitChans[i][n]
        IN  stage[c] \in {"wait", "leave"} /\ node[c] = i /\ index[c] = n

\* A local read, on whatever node, never returns a value that was not committed.
LocalReadsCommitted ==
    \A c \in Client : result[c] = "ok" /\ Operation(OpOf(c)) = "LOCAL" =>
        \E n \in 0..Len(chosen) : value[c] = ValueAt(KeyOf(OpOf(c)), n)

\* Every request is answered, also without a leader, when its entry is lost, and
\* when its wake-up went to somebody else: the apply loop never blocks on a full
\* channel while it holds kv.mu, and the timer is always there.
RequestsAnswered == \A c \in Client : stage[c] = "call" ~> stage[c] = "done"
=============================================================================
