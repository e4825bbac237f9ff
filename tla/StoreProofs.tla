---------------------------- MODULE StoreProofs -----------------------------
(***************************************************************************)
(* Theorems about Store, for every number of nodes, every set of clients,  *)
(* keys and programs, and every value of the bounds.                       *)
(***************************************************************************)
EXTENDS Store, TLAPS, SequenceTheorems, WellFoundedInduction

-----------------------------------------------------------------------------
(* The inductive invariant.                                                  *)

\* What TypeOK leaves open: the other variables are functions of the right shape.
Shape ==
    /\ turn \in [Client -> Nat]
    /\ delivered \in [Server -> Nat] /\ high \in [Server -> Nat]
    /\ waitChans = [i \in Server |-> waitChans[i]]
    /\ skipped \in [Server -> SUBSET Key]
    /\ floor \in [Client -> Nat] /\ missed \in [Client -> BOOLEAN]
    /\ acked \in Nat /\ crashes \in Nat /\ errors \in Nat

\* The request r was sent.
Asked(r) == \E c \in Client, t \in Nat : t >= 1 /\ t <= turn[c] /\ r = <<c, t>>

\* Start() took an operation at one index only, and took none that the gateway still
\* offers; only what it took is in the log.
ProposedOnce ==
    /\ \A p \in proposed : \E n \in 1..MaxIndex, r \in Request :
           p = <<n, r>> /\ Asked(r) /\ Operation(r) # "LOCAL"
    /\ \A p, q \in proposed : p[2] = q[2] => p[1] = q[1]
    /\ \A c \in Client : stage[c] = "call" => \A p \in proposed : p[2] # OpOf(c)
    /\ \A n \in DOMAIN chosen : <<n, chosen[n]>> \in proposed

Live == {"register", "wait", "leave"}

\* Where a handler is tells what it has done.
Handles(c) ==
    /\ stage[c] # "done" => turn[c] >= 1
    /\ stage[c] \in {"call", "register", "wait", "read"} => result[c] = Nil
    /\ stage[c] \in Live => <<index[c], OpOf(c)>> \in proposed
    /\ stage[c] = "read" => Operation(OpOf(c)) = "LOCAL"

Handlers == \A c \in Client : Handles(c)

\* A refused operation was never proposed, or at an index that another one has taken.
DeniedIsLost ==
    \A r \in denied :
        /\ Asked(r)
        /\ \A c \in Client : r = OpOf(c) => stage[c] # "call"
        /\ \A p \in proposed : p[2] = r => p[1] \in DOMAIN chosen /\ chosen[p[1]] # r

\* An engine holds for every key what some beginning of the log leaves there; if no
\* write of the key was refused, one that ends between what the store has applied
\* since it came up and what it ever applied.
EngineInLog ==
    /\ \A i \in Server : delivered[i] <= high[i] /\ high[i] <= Len(chosen)
    /\ errors = 0 => \A i \in Server : skipped[i] = {}
    /\ \A i \in Server, k \in Key : \E x \in Nat : x <= high[i] /\ db[i][k] = ValueAt(k, x)
    /\ \A i \in Server : \A k \in Key \ skipped[i] :
           \E x \in Nat : delivered[i] <= x /\ x <= high[i] /\ db[i][k] = ValueAt(k, x)

\* The operation of c's handler has become the entry at its index.
Won(c) == stage[c] \in Live /\ index[c] \in DOMAIN chosen /\ chosen[index[c]] = OpOf(c)

\* An operation that is in the log stands behind everything that was answered when it
\* was proposed, and its node applies it for the first time.
WonIsNew ==
    /\ acked <= Len(chosen)
    /\ \A c \in Client : floor[c] <= Len(chosen)
    /\ \A c \in Client : Won(c) =>
           /\ index[c] > floor[c]
           /\ delivered[node[c]] < index[c] => high[node[c]] < index[c]

\* v is what the log before index n leaves at the key of the GET r.
Reads(r, n, v) == Operation(r) = "GET" /\ errors = 0 => v = ValueAt(KeyOf(r), n - 1)

\* The apply loop has the outcome of the entry it has taken last.
RepliesMatch ==
    \A i \in Server : reply[i] # Nil =>
        /\ delivered[i] \in DOMAIN chosen
        /\ reply[i].op = chosen[delivered[i]]
        /\ reply[i].err => Operation(reply[i].op) # "GET"
        /\ (\E c \in Client : Won(c) /\ node[c] = i /\ index[c] = delivered[i])
               => Reads(reply[i].op, delivered[i], reply[i].value)

\* The channel of a handler holds the outcome of the entry at its index.
MailMatches ==
    \A c \in Client : mailbox[c] # Nil =>
        /\ stage[c] \in {"wait", "leave"}
        /\ index[c] \in DOMAIN chosen
        /\ mailbox[c].op = chosen[index[c]]
        /\ mailbox[c].err => Operation(mailbox[c].op) # "GET"
        /\ mailbox[c].op = OpOf(c) => Reads(OpOf(c), index[c], mailbox[c].value)

\* A handler that has missed nothing is registered until its index is applied.
Registered ==
    \A c \in Client : stage[c] = "wait" /\ ~missed[c] /\ Notified(node[c]) < index[c] =>
        index[c] \in DOMAIN waitChans[node[c]] /\ waitChans[node[c]][index[c]] = c

-----------------------------------------------------------------------------
(* The operators.                                                            *)

\* A bounded set of indices has a greatest element.
LEMMA GreatestExists ==
    ASSUME NEW T, T \subseteq Nat, T # {}, NEW n \in Nat, \A y \in T : y <= n
    PROVE  Greatest(T) \in T /\ \A y \in T : y <= Greatest(T)
<1>. DEFINE U == {n - y : y \in T}
<1>1. ASSUME NEW y \in T PROVE n - y \in Nat
  <2>1. y \in Nat /\ y <= n
    OBVIOUS
  <2>. QED BY <2>1
<1>2. U \subseteq Nat /\ U # {}
  BY <1>1, Zenon
<1>3. IsWellFoundedOn(OpToRel(<, Nat), Nat)
  BY NatLessThanWellFounded, Zenon
<1>4. PICK u \in U : \A w \in U : ~ (<<w, u>> \in OpToRel(<, Nat))
  BY <1>2, <1>3, WFMin, Zenon
<1>5. PICK x \in T : u = n - x
  OBVIOUS
<1>6. ASSUME NEW y \in T PROVE y <= x
  <2>1. n - y \in U
    OBVIOUS
  <2>2. ~ (<<n - y, n - x>> \in {ss \in Nat \X Nat : ss[1] < ss[2]})
    BY <1>4, <1>5, <2>1, Zenon DEF OpToRel
  <2>3. <<n - y, n - x>> \in Nat \X Nat
    BY <1>1
  <2>4. ~ (n - y < n - x)
    BY <2>2, <2>3
  <2>5. x \in Nat /\ y \in Nat
    OBVIOUS
  <2>. QED BY <2>4, <2>5
<1>. QED BY <1>6 DEF Greatest

\* The larger of two numbers.
LEMMA GreatestOfTwo ==
    ASSUME NEW a \in Nat, NEW b \in Nat
    PROVE  /\ Greatest({a, b}) \in Nat /\ Greatest({a, b}) \in {a, b}
           /\ a <= Greatest({a, b}) /\ b <= Greatest({a, b})
<1>1. \E x \in {a, b} : \A y \in {a, b} : y <= x
  <2>1. CASE a <= b
    BY <2>1
  <2>2. CASE b <= a
    BY <2>2
  <2>. QED BY <2>1, <2>2
<1>. QED BY <1>1 DEF Greatest

\* A request of a program has an operation and a key.
LEMMA RequestType ==
    ASSUME program \in Programs, NEW c \in Client, NEW t \in 1..Len(program[c])
    PROVE  /\ <<c, t>> \in Request
           /\ Operation(<<c, t>>) \in {"PUT", "DELETE", "GET", "LOCAL"}
           /\ KeyOf(<<c, t>>) \in Key
<1>1. program[c] \in Seq([operation : {"PUT", "DELETE", "GET", "LOCAL"}, key : Key])
  BY ClientAssumption
<1>2. t \in DOMAIN program[c] /\ program[c][t] \in [operation : {"PUT", "DELETE", "GET", "LOCAL"}, key : Key]
  <2>1. ASSUME NEW R, NEW s \in Seq(R), NEW x \in 1..Len(s) PROVE x \in DOMAIN s /\ s[x] \in R
    OBVIOUS
  <2>. QED BY <1>1, <2>1
<1>3. <<c, t>> \in {c} \X DOMAIN program[c]
  BY <1>2
<1>4. <<c, t>> \in Request
  <2>1. {c} \X DOMAIN program[c] \in {{d} \X DOMAIN program[d] : d \in Client}
    OBVIOUS
  <2>2. <<c, t>> \in UNION {{d} \X DOMAIN program[d] : d \in Client}
    BY <1>3, <2>1, Zenon
  <2>3. UNION {{d} \X DOMAIN program[d] : d \in Client}
        \in {UNION {{d} \X DOMAIN p[d] : d \in Client} : p \in Programs}
    BY Zenon
  <2>. QED BY <2>2, <2>3, Zenon DEF Request
<1>. QED BY <1>2, <1>4 DEF Operation, KeyOf

\* So has everything that was sent.
LEMMA AskedType ==
    ASSUME TypeOK, Shape, NEW r, Asked(r)
    PROVE  /\ r \in Request
           /\ Operation(r) \in {"PUT", "DELETE", "GET", "LOCAL"}
           /\ KeyOf(r) \in Key
<1>1. PICK c \in Client, t \in Nat : t >= 1 /\ t <= turn[c] /\ r = <<c, t>>
  BY DEF Asked
<1>2. program \in Programs /\ turn[c] \in 0..Len(program[c]) /\ turn[c] \in Nat
  BY DEF TypeOK, Shape
<1>3. program[c] \in Seq([operation : {"PUT", "DELETE", "GET", "LOCAL"}, key : Key])
  BY <1>2, ClientAssumption
<1>4. Len(program[c]) \in Nat
  BY <1>3
<1>5. t \in 1..Len(program[c])
  BY <1>1, <1>2, <1>4
<1>. QED BY <1>1, <1>2, <1>5, RequestType

\* The entries of the log.
LEMMA EntryType ==
    ASSUME TypeOK, Shape, ProposedOnce, NEW p \in proposed
    PROVE  /\ p = <<p[1], p[2]>> /\ p[1] \in 1..MaxIndex /\ p[1] \in Nat /\ Asked(p[2])
           /\ p[2] \in Request /\ Operation(p[2]) \in {"PUT", "DELETE", "GET"}
           /\ KeyOf(p[2]) \in Key
<1>1. PICK n \in 1..MaxIndex, r \in Request : p = <<n, r>> /\ Asked(r) /\ Operation(r) # "LOCAL"
  BY DEF ProposedOnce
<1>2. p[1] = n /\ p[2] = r /\ n \in Nat
  BY <1>1, BoundAssumption
<1>. QED BY <1>1, <1>2, AskedType

-----------------------------------------------------------------------------
(* What the two steps do that touch the log.                                 *)

\* Start() takes the operation at an index beyond what the node has applied.
LEMMA StartFacts ==
    ASSUME TypeOK, Shape, NEW c \in Client, CallLeader(c)
    PROVE  \E n \in 1..MaxIndex :
               /\ n \in Nat /\ n > delivered[node[c]]
               /\ proposed' = proposed \cup {<<n, OpOf(c)>>}
               /\ index' = [index EXCEPT ![c] = n]
               /\ UNCHANGED <<chosen, delivered>>
<1>1. PICK n \in 1..MaxIndex : Raft!Start(node[c], OpOf(c), n) /\ index' = [index EXCEPT ![c] = n]
  BY DEF CallLeader
<1>2. /\ n \in (delivered[node[c]] + 1)..MaxIndex
      /\ proposed' = proposed \cup {<<n, OpOf(c)>>} /\ UNCHANGED <<chosen, delivered>>
  BY <1>1 DEF Raft!Start
<1>3. delivered[node[c]] \in Nat /\ n \in Nat
  BY BoundAssumption DEF TypeOK, Shape
<1>4. n > delivered[node[c]]
  BY <1>2, <1>3, BoundAssumption
<1>. QED BY <1>1, <1>2, <1>3, <1>4

\* A log that is extended by one entry, or by none.
LEMMA ExtendedLog ==
    ASSUME NEW R, NEW l \in Seq(R), NEW d \in {0, 1}, NEW s \in [1..d -> R]
    PROVE  /\ l \o s \in Seq(R) /\ Len(l \o s) \in Nat /\ Len(l \o s) = Len(l) + d
           /\ \A m \in 1..Len(l) : (l \o s)[m] = l[m]
           /\ d = 1 => (l \o s)[Len(l) + 1] = s[1]
<1>1. d \in Nat /\ s \in Seq(R) /\ Len(s) = d
  <2>1. d \in Nat
    OBVIOUS
  <2>2. s \in Seq(R)
    BY <2>1, SeqDef
  <2>3. DOMAIN s = 1..d /\ DOMAIN s = 1..Len(s) /\ Len(s) \in Nat
    BY <2>2
  <2>. QED BY <2>1, <2>2, <2>3
<1>. QED BY <1>1

\* applyLoop takes the next entry of the log, or the next one that is chosen.
LEMMA DeliverFacts ==
    ASSUME TypeOK, Shape, ProposedOnce, NEW i \in Server, Apply(i)
    PROVE  /\ chosen \in Seq(Request) /\ chosen' \in Seq(Request)
           /\ Len(chosen) \in Nat /\ Len(chosen') \in Nat
           /\ DOMAIN chosen = 1..Len(chosen) /\ DOMAIN chosen' = 1..Len(chosen')
           /\ delivered[i] \in Nat /\ delivered[i] + 1 \in 1..Len(chosen')
           /\ Len(chosen') = Len(chosen) \/ Len(chosen') = Len(chosen) + 1
           /\ \A m \in 1..Len(chosen) : chosen'[m] = chosen[m]
           /\ Len(chosen') # Len(chosen) => delivered[i] + 1 = Len(chosen')
           /\ <<delivered[i] + 1, chosen'[delivered[i] + 1]>> \in proposed
           /\ delivered' = [delivered EXCEPT ![i] = delivered[i] + 1]
           /\ proposed' = proposed
<1>. DEFINE n == delivered[i] + 1
            d == IF n > Len(chosen) THEN n - Len(chosen) ELSE 0
<1>1. chosen \in Seq(Request) /\ Len(chosen) \in Nat /\ delivered[i] \in Nat /\ delivered[i] <= Len(chosen)
      /\ DOMAIN chosen = 1..Len(chosen)
  BY DEF TypeOK, Shape
<1>2. Raft!Deliver(i, n)
  BY DEF Apply
<1>3. PICK s \in Raft!Choices(n) : chosen' = chosen \o s
  BY <1>2 DEF Raft!Deliver
<1>4. delivered' = [delivered EXCEPT ![i] = n] /\ proposed' = proposed
  BY <1>2 DEF Raft!Deliver
<1>5. s \in [1..d -> Request] /\ \A k \in DOMAIN s : <<Len(chosen) + k, s[k]>> \in proposed
  BY <1>3 DEF Raft!Choices
<1>6. d \in {0, 1} /\ (d = 1 => n = Len(chosen) + 1) /\ (d = 0 => n <= Len(chosen)) /\ n \in Nat /\ n >= 1
  BY <1>1
<1>. HIDE DEF d, n
<1>7. /\ chosen' \in Seq(Request) /\ Len(chosen') \in Nat /\ Len(chosen') = Len(chosen) + d
      /\ \A m \in 1..Len(chosen) : chosen'[m] = chosen[m]
      /\ d = 1 => chosen'[Len(chosen) + 1] = s[1]
  <2>1. chosen \in Seq(Request) /\ d \in {0, 1} /\ s \in [1..d -> Request]
    BY <1>1, <1>5, <1>6
  <2>2. /\ chosen \o s \in Seq(Request) /\ Len(chosen \o s) \in Nat
        /\ Len(chosen \o s) = Len(chosen) + d
        /\ \A m \in 1..Len(chosen) : (chosen \o s)[m] = chosen[m]
        /\ d = 1 => (chosen \o s)[Len(chosen) + 1] = s[1]
    BY <2>1, ExtendedLog
  <2>. QED BY <1>3, <2>2
<1>8. <<n, chosen'[n]>> \in proposed
  <2>1. CASE d = 0
    <3>1. n \in DOMAIN chosen /\ chosen'[n] = chosen[n]
      BY <1>1, <1>6, <1>7, <2>1
    <3>. QED BY <3>1 DEF ProposedOnce
  <2>2. CASE d = 1
    <3>1. 1 \in DOMAIN s
      BY <1>5, <2>2
    <3>2. <<Len(chosen) + 1, s[1]>> \in proposed
      BY <1>5, <3>1
    <3>. QED BY <1>6, <1>7, <2>2, <3>2
  <2>. QED BY <1>6, <2>1, <2>2
<1>9. n \in 1..Len(chosen')
  <2>1. CASE d = 0
    BY <1>1, <1>6, <1>7, <2>1
  <2>2. CASE d = 1
    BY <1>1, <1>6, <1>7, <2>2
  <2>. QED BY <1>6, <2>1, <2>2
<1>10. DOMAIN chosen' = 1..Len(chosen')
  BY <1>7
<1>11. /\ Len(chosen') # Len(chosen) => n = Len(chosen')
       /\ Len(chosen') = Len(chosen) \/ Len(chosen') = Len(chosen) + 1
  <2>1. CASE d = 0
    BY <1>1, <1>7, <2>1
  <2>2. CASE d = 1
    BY <1>1, <1>6, <1>7, <2>2
  <2>. QED BY <1>6, <2>1, <2>2
<1>. QED BY <1>1, <1>4, <1>7, <1>8, <1>9, <1>10, <1>11 DEF n

-----------------------------------------------------------------------------
(* What a beginning of the log leaves at a key.                              *)

\* The log writes key k with r.
WritesKey(r, k) == KeyOf(r) = k /\ Operation(r) \in {"PUT", "DELETE"}

\* What r leaves at a key that it writes.
Left(r) == IF Operation(r) = "PUT" THEN r ELSE Nil

\* It does not depend on what comes later.
LEMMA ValueAtKept ==
    ASSUME program' = program, NEW n \in Nat, NEW k,
           \A m \in 1..n : chosen'[m] = chosen[m]
    PROVE  ValueAt(k, n)' = ValueAt(k, n)
<1>1. \A r : KeyOf(r)' = KeyOf(r) /\ Operation(r)' = Operation(r)
  BY DEF KeyOf, Operation
<1>2. WritesOf(k, n)' = WritesOf(k, n)
  <2>1. \A m \in 1..n : KeyOf(chosen[m])' = KeyOf(chosen[m]) /\ Operation(chosen[m])' = Operation(chosen[m])
    BY DEF KeyOf, Operation
  <2>. QED BY <2>1 DEF WritesOf
<1>3. CASE WritesOf(k, n) = {}
  BY <1>2, <1>3 DEF ValueAt
<1>4. CASE WritesOf(k, n) # {}
  <2>1. PICK g : g = Greatest(WritesOf(k, n))
    OBVIOUS
  <2>2. WritesOf(k, n) \subseteq Nat /\ \A m \in WritesOf(k, n) : m <= n
    BY DEF WritesOf
  <2>3. g \in WritesOf(k, n)
    BY <1>4, <2>1, <2>2, GreatestExists
  <2>4. chosen'[g] = chosen[g]
    BY <2>3 DEF WritesOf
  <2>5. ValueAt(k, n) = IF Operation(chosen[g]) = "PUT" THEN chosen[g] ELSE Nil
    BY <1>4, <2>1 DEF ValueAt
  <2>6. Greatest(WritesOf(k, n))' = g
    BY <1>2, <2>1 DEF Greatest
  <2>7. ValueAt(k, n)' = IF Operation(chosen[g])' = "PUT" THEN chosen'[g] ELSE Nil
    BY <1>2, <1>4, <2>6 DEF ValueAt
  <2>8. Operation(chosen[g])' = Operation(chosen[g])
    BY <2>4 DEF Operation
  <2>. QED BY <2>4, <2>5, <2>7, <2>8
<1>. QED BY <1>3, <1>4

\* The next entry overwrites its key, and leaves the others.
LEMMA ValueAtStep ==
    ASSUME NEW n \in Nat, NEW k
    PROVE  ValueAt(k, n + 1) =
               IF WritesKey(chosen[n + 1], k) THEN Left(chosen[n + 1]) ELSE ValueAt(k, n)
<1>1. \A m : m \in 1..(n + 1) <=> m \in 1..n \/ m = n + 1
  OBVIOUS
<1>2. CASE WritesKey(chosen[n + 1], k)
  <2>1. /\ n + 1 \in WritesOf(k, n + 1) /\ WritesOf(k, n + 1) \subseteq Nat
        /\ \A m \in WritesOf(k, n + 1) : m <= n + 1
    BY <1>2 DEF WritesOf, WritesKey
  <2>2. /\ Greatest(WritesOf(k, n + 1)) \in WritesOf(k, n + 1)
        /\ \A m \in WritesOf(k, n + 1) : m <= Greatest(WritesOf(k, n + 1))
    BY <2>1, GreatestExists
  <2>3. Greatest(WritesOf(k, n + 1)) = n + 1
    BY <2>1, <2>2
  <2>. QED BY <1>2, <2>1, <2>3 DEF ValueAt, Left
<1>3. CASE ~WritesKey(chosen[n + 1], k)
  <2>1. WritesOf(k, n + 1) = WritesOf(k, n)
    BY <1>1, <1>3 DEF WritesOf, WritesKey
  <2>. QED BY <1>3, <2>1 DEF ValueAt
<1>. QED BY <1>2, <1>3

\* The same, as one formula ...
LEMMA StepLaw ==
    \A n \in Nat : \A k : ValueAt(k, n + 1) =
        IF WritesKey(chosen[n + 1], k) THEN Left(chosen[n + 1]) ELSE ValueAt(k, n)
BY ValueAtStep

\* ... that holds of the next state too ...
LEMMA StepLawNext ==
    (\A n \in Nat : \A k : ValueAt(k, n + 1) =
        IF WritesKey(chosen[n + 1], k) THEN Left(chosen[n + 1]) ELSE ValueAt(k, n))'
BY StepLaw, PTL

\* ... where it tells what the entry does that a step adds.
LEMMA ValueAtNext ==
    ASSUME program' = program, NEW n \in Nat, NEW k, NEW r, r = chosen'[n + 1]
    PROVE  ValueAt(k, n + 1)' = IF WritesKey(r, k) THEN Left(r) ELSE ValueAt(k, n)'
<1>1. WritesKey(chosen[n + 1], k)' = WritesKey(r, k) /\ Left(chosen[n + 1])' = Left(r)
  BY DEF WritesKey, Left, Operation, KeyOf
<1>. QED BY <1>1, StepLawNext

\* It is the request that wrote it, or nothing.
LEMMA ValueAtType ==
    ASSUME TypeOK, NEW n \in Nat, n <= Len(chosen), NEW k
    PROVE  ValueAt(k, n) \in Request \cup {Nil}
<1>1. CASE WritesOf(k, n) = {}
  BY <1>1 DEF ValueAt
<1>2. CASE WritesOf(k, n) # {}
  <2>1. PICK g : g = Greatest(WritesOf(k, n))
    OBVIOUS
  <2>2. WritesOf(k, n) \subseteq Nat /\ \A m \in WritesOf(k, n) : m <= n
    BY DEF WritesOf
  <2>3. g \in WritesOf(k, n)
    BY <1>2, <2>1, <2>2, GreatestExists
  <2>4. chosen \in Seq(Request) /\ g \in 1..Len(chosen)
    <3>1. g \in 1..n /\ chosen \in Seq(Request)
      BY <2>3 DEF WritesOf, TypeOK
    <3>. QED BY <3>1
  <2>5. chosen[g] \in Request
    BY <2>4
  <2>. QED BY <1>2, <2>1, <2>5 DEF ValueAt
<1>. QED BY <1>1, <1>2

-----------------------------------------------------------------------------
(* Types, proposals, handlers and channels.                                  *)

BaseInv == TypeOK /\ Shape /\ ProposedOnce /\ Handlers /\ WaitChansOwned

\* The stores come up with nothing.
LEMMA BaseInvInit == Init => BaseInv
<1>. SUFFICES ASSUME Init PROVE BaseInv
  OBVIOUS
<1>1. /\ proposed = {} /\ chosen = <<>> /\ delivered = [i \in Server |-> 0]
  BY DEF Init, Raft!LogInit
<1>2. chosen \in Seq(Request) /\ Len(chosen) = 0 /\ DOMAIN chosen = {}
  BY <1>1
<1>3. \A c \in Client : program[c] \in Seq([operation : {"PUT", "DELETE", "GET", "LOCAL"}, key : Key])
  BY ClientAssumption DEF Init
<1>4. \A c \in Client : Len(program[c]) \in Nat
  BY <1>3
<1>5. 1 \in Server /\ 0 \in 0..MaxIndex
  BY ClientAssumption, BoundAssumption DEF Server
<1>6. Shape
  BY <1>1 DEF Init, Shape
<1>7. TypeOK
  <2>1. \A c \in Client : turn[c] \in 0..Len(program[c])
    BY <1>4 DEF Init
  <2>2. \A i \in Server : waitChans[i] \in [DOMAIN waitChans[i] -> Client]
    BY DEF Init
  <2>3. \A i \in Server : delivered[i] <= Len(chosen) /\ high[i] <= Len(chosen)
    BY <1>1, <1>2 DEF Init
  <2>4. /\ program \in Programs
        /\ stage \in [Client -> {"call", "register", "wait", "leave", "read", "done"}]
        /\ node \in [Client -> Server] /\ index \in [Client -> 0..MaxIndex]
        /\ mailbox \in [Client -> OpResult \cup {Nil}]
        /\ result \in [Client -> {Nil, "ok", "failed", "changed", "timeout", "unavailable", "lost"}]
        /\ value \in [Client -> Request \cup {Nil}]
        /\ db \in [Server -> [Key -> Request \cup {Nil}]]
        /\ reply \in [Server -> OpResult \cup {Nil}]
    BY <1>5 DEF Init
  <2>. QED BY <1>2, <2>1, <2>2, <2>3, <2>4 DEF TypeOK
<1>8. ProposedOnce
  BY <1>1, <1>2 DEF ProposedOnce
<1>9. Handlers
  BY DEF Init, Handlers, Handles, Live
<1>10. WaitChansOwned
  BY DEF Init, WaitChansOwned
<1>. QED BY <1>6, <1>7, <1>8, <1>9, <1>10 DEF BaseInv

\* The operation that a handler is serving.
LEMMA OpType ==
    ASSUME TypeOK, Shape, Handlers, NEW c \in Client, stage[c] # "done"
    PROVE  /\ Asked(OpOf(c)) /\ OpOf(c) \in Request /\ KeyOf(OpOf(c)) \in Key
           /\ Operation(OpOf(c)) \in {"PUT", "DELETE", "GET", "LOCAL"}
<1>1. turn[c] \in Nat /\ turn[c] >= 1 /\ turn[c] <= turn[c]
  <2>1. turn[c] \in Nat
    BY DEF Shape
  <2>2. turn[c] >= 1
    BY DEF Handlers, Handles
  <2>. QED BY <2>1, <2>2
<1>2. Asked(OpOf(c))
  BY <1>1 DEF Asked, OpOf
<1>. QED BY <1>2, AskedType

\* The steps of a handler keep the types.
LEMMA TypeNextHandlers ==
    ASSUME BaseInv, NEW c \in Client, Arrive(c) \/ RequestStep(c)
    PROVE  TypeOK' /\ Shape'
<1>0. TypeOK /\ Shape /\ ProposedOnce /\ Handlers /\ WaitChansOwned
  BY DEF BaseInv
<1>1. CASE Arrive(c)
  <2>1. /\ program' = program /\ turn' = [turn EXCEPT ![c] = @ + 1] /\ turn[c] < Len(program[c])
    BY <1>1 DEF Arrive
  <2>2. \A d \in Client : turn'[d] \in 0..Len(program[d]) /\ turn' \in [Client -> Nat]
    <3>1. \A d \in Client : turn[d] \in 0..Len(program[d]) /\ turn[d] \in Nat
      BY <1>0 DEF TypeOK, Shape
    <3>2. program[c] \in Seq([operation : {"PUT", "DELETE", "GET", "LOCAL"}, key : Key])
      BY <1>0, ClientAssumption DEF TypeOK
    <3>3. Len(program[c]) \in Nat
      BY <3>2
    <3>4. turn[c] + 1 \in 0..Len(program[c])
      BY <2>1, <3>1, <3>3
    <3>5. turn \in [Client -> Nat] /\ turn[c] + 1 \in Nat
      BY <1>0 DEF Shape
    <3>. QED BY <2>1, <3>1, <3>4, <3>5
  <2>3. 1 \in Server /\ 0 \in 0..MaxIndex
    BY ClientAssumption, BoundAssumption DEF Server
  <2>4. TypeOK'
    BY <1>0, <1>1, <2>1, <2>2, <2>3 DEF Arrive, TypeOK, logVars, storeVars, storeHist
  <2>. QED BY <1>0, <1>1, <2>2, <2>4 DEF Arrive, Shape, logVars, storeHist, boundVars
<1>2. CASE CallLeader(c)
  <2>1. PICK n \in 1..MaxIndex : /\ index' = [index EXCEPT ![c] = n]
                                 /\ UNCHANGED <<chosen, delivered>>
    BY <1>0, <1>2, StartFacts
  <2>2. n \in 0..MaxIndex
    OBVIOUS
  <2>3. TypeOK'
    BY <1>0, <1>2, <2>1, <2>2 DEF CallLeader, TypeOK, storeVars, storeHist
  <2>. QED BY <1>0, <1>2, <2>1, <2>3 DEF CallLeader, Shape, storeHist, boundVars
<1>3. CASE CallFollower(c)
  <2>1. UNCHANGED <<logVars, program, turn, index, value, mailbox, waitChans, storeVars, boundVars,
                    storeHist, acked, floor, missed>>
    BY <1>3 DEF CallFollower
  <2>2. node' \in [Client -> Server]
    <3>1. node[c] \in Server /\ node \in [Client -> Server]
      BY <1>0 DEF TypeOK
    <3>2. node[c] < N => node[c] + 1 \in Server
      BY <3>1, ClientAssumption DEF Server
    <3>. QED BY <1>3, <3>1, <3>2 DEF CallFollower, HasNext
  <2>3. /\ stage' \in [Client -> {"call", "register", "wait", "leave", "read", "done"}]
        /\ result' \in [Client -> {Nil, "ok", "failed", "changed", "timeout", "unavailable", "lost"}]
    BY <1>0, <1>3 DEF CallFollower, TypeOK
  <2>4. TypeOK'
    BY <1>0, <2>1, <2>2, <2>3 DEF TypeOK, logVars, storeVars, storeHist
  <2>. QED BY <1>0, <2>1, <2>4 DEF Shape, logVars, storeHist, boundVars
<1>4. CASE Register(c)
  <2>1. UNCHANGED <<logVars, requestVars, result, mailbox, storeVars, boundVars, storeHist,
                    acked, denied, floor>>
    BY <1>4 DEF Register
  <2>2. /\ waitChans' = [waitChans EXCEPT ![node[c]] =
               [n \in DOMAIN @ \cup {SlotOf(c)} |-> IF n = SlotOf(c) THEN c ELSE @[n]]]
        /\ stage' = [stage EXCEPT ![c] = "wait"]
    BY <1>4 DEF Register
  <2>3. node[c] \in Server
    BY <1>0 DEF TypeOK
  <2>4. ASSUME NEW i \in Server PROVE waitChans'[i] \in [DOMAIN waitChans'[i] -> Client]
    <3>1. waitChans[i] \in [DOMAIN waitChans[i] -> Client] /\ i \in DOMAIN waitChans
      BY <1>0 DEF TypeOK, Shape
    <3>2. CASE i = node[c]
      <4>1. waitChans'[i] = [n \in DOMAIN waitChans[i] \cup {SlotOf(c)} |->
                                IF n = SlotOf(c) THEN c ELSE waitChans[i][n]]
        BY <2>2, <3>1, <3>2
      <4>. QED BY <3>1, <4>1
    <3>3. CASE i # node[c]
      BY <2>2, <3>1, <3>3
    <3>. QED BY <3>2, <3>3
  <2>5. TypeOK'
    BY <1>0, <2>1, <2>2, <2>4 DEF TypeOK, logVars, requestVars, storeVars, storeHist
  <2>6. waitChans' = [i \in Server |-> waitChans'[i]]
    BY <1>0, <2>2 DEF Shape
  <2>7. missed' \in [Client -> BOOLEAN]
    BY <1>4 DEF Register
  <2>. QED BY <1>0, <2>1, <2>5, <2>6, <2>7 DEF Shape, logVars, requestVars, storeHist, boundVars
<1>5. CASE Wake(c)
  <2>1. mailbox[c] \in OpResult
    BY <1>0, <1>5 DEF Wake, TypeOK
  <2>2. mailbox[c].value \in Request \cup {Nil}
    BY <2>1 DEF OpResult
  <2>3. Outcome(c, mailbox[c]) \in {"ok", "failed", "changed"}
    BY DEF Outcome
  <2>4. UNCHANGED <<logVars, program, turn, node, index, mailbox, waitChans, storeVars, boundVars,
                    storeHist, acked, floor, missed>>
    BY <1>5 DEF Wake
  <2>5. /\ stage' \in [Client -> {"call", "register", "wait", "leave", "read", "done"}]
        /\ result' \in [Client -> {Nil, "ok", "failed", "changed", "timeout", "unavailable", "lost"}]
        /\ value' \in [Client -> Request \cup {Nil}]
    BY <1>0, <1>5, <2>2, <2>3 DEF Wake, TypeOK
  <2>6. TypeOK'
    BY <1>0, <2>4, <2>5 DEF TypeOK, logVars, storeVars, storeHist
  <2>. QED BY <1>0, <2>4, <2>6 DEF Shape, logVars, storeHist, boundVars
<1>6. CASE Timeout(c)
  <2>1. TypeOK'
    BY <1>0, <1>6 DEF Timeout, TypeOK, logVars, requestVars, storeVars, storeHist
  <2>. QED BY <1>0, <1>6, <2>1 DEF Timeout, Shape, logVars, requestVars, storeHist, boundVars, clientHist
<1>7. CASE Leave(c)
  <2>1. UNCHANGED <<logVars, requestVars, result, storeVars, boundVars, storeHist, denied, floor>>
    BY <1>7 DEF Leave
  <2>2. /\ waitChans' = [waitChans EXCEPT ![node[c]] = Restrict(@, DOMAIN @ \ Deleted(c))]
        /\ stage' = [stage EXCEPT ![c] = "done"]
        /\ mailbox' = [mailbox EXCEPT ![c] = Nil]
        /\ acked' = IF result[c] = "ok" THEN Greatest({acked, index[c]}) ELSE acked
    BY <1>7 DEF Leave
  <2>3. node[c] \in Server
    BY <1>0 DEF TypeOK
  <2>4. ASSUME NEW i \in Server PROVE waitChans'[i] \in [DOMAIN waitChans'[i] -> Client]
    <3>1. waitChans[i] \in [DOMAIN waitChans[i] -> Client] /\ i \in DOMAIN waitChans
      BY <1>0 DEF TypeOK, Shape
    <3>2. CASE i = node[c]
      <4>1. waitChans'[i] = [n \in DOMAIN waitChans[i] \ Deleted(c) |-> waitChans[i][n]]
        BY <2>2, <3>1, <3>2 DEF Restrict
      <4>. QED BY <3>1, <4>1
    <3>3. CASE i # node[c]
      BY <2>2, <3>1, <3>3
    <3>. QED BY <3>2, <3>3
  <2>5. TypeOK'
    BY <1>0, <2>1, <2>2, <2>4 DEF TypeOK, logVars, requestVars, storeVars, storeHist
  <2>6. waitChans' = [i \in Server |-> waitChans'[i]]
    BY <1>0, <2>2 DEF Shape
  <2>7. missed' \in [Client -> BOOLEAN]
    BY <1>7 DEF Leave
  <2>8. acked' \in Nat
    <3>1. acked \in Nat /\ index[c] \in Nat
      BY <1>0, BoundAssumption DEF TypeOK, Shape
    <3>. QED BY <2>2, <3>1, GreatestOfTwo
  <2>. QED BY <1>0, <2>1, <2>5, <2>6, <2>7, <2>8 DEF Shape, logVars, requestVars, storeHist, boundVars
<1>8. CASE LocalCheck(c)
  <2>1. TypeOK'
    BY <1>0, <1>8 DEF LocalCheck, TypeOK, logVars, requestVars, storeVars, storeHist
  <2>. QED BY <1>0, <1>8, <2>1 DEF LocalCheck, Shape, logVars, requestVars, storeHist, boundVars, clientHist
<1>9. CASE LocalRead(c)
  <2>1. stage[c] # "done"
    BY <1>9 DEF LocalRead
  <2>2. db[node[c]][KeyOf(OpOf(c))] \in Request \cup {Nil}
    <3>1. KeyOf(OpOf(c)) \in Key
      BY <1>0, <2>1, OpType
    <3>. QED BY <1>0, <3>1 DEF TypeOK
  <2>3. TypeOK'
    BY <1>0, <1>9, <2>2 DEF LocalRead, TypeOK, logVars, storeVars, storeHist
  <2>. QED BY <1>0, <1>9, <2>3 DEF LocalRead, Shape, logVars, storeHist, boundVars, clientHist
<1>. QED BY <1>1, <1>2, <1>3, <1>4, <1>5, <1>6, <1>7, <1>8, <1>9 DEF RequestStep

\* What taking a message does to a store, beside the log.
LEMMA ApplyFacts ==
    ASSUME BaseInv, NEW i \in Server, Apply(i), NEW r, r = chosen'[delivered[i] + 1]
    PROVE  /\ reply[i] = Nil
           /\ high' = [high EXCEPT ![i] = Greatest({delivered[i] + 1, @})]
           /\ r \in Request /\ Operation(r) \in {"PUT", "DELETE", "GET"} /\ KeyOf(r) \in Key
           /\ <<delivered[i] + 1, r>> \in proposed
           /\ \/ /\ db' = [db EXCEPT ![i] = Applied(i, r)]
                 /\ reply' = [reply EXCEPT ![i] =
                       [op |-> r, err |-> FALSE,
                        value |-> IF Operation(r) = "GET" THEN db[i][KeyOf(r)] ELSE Nil]]
                 /\ skipped' = [skipped EXCEPT ![i] =
                       IF Operation(r) = "GET" THEN @ ELSE @ \ {KeyOf(r)}]
                 /\ errors' = errors
              \/ /\ Operation(r) # "GET"
                 /\ errors' = errors + 1
                 /\ reply' = [reply EXCEPT ![i] = [op |-> r, err |-> TRUE, value |-> Nil]]
                 /\ skipped' = [skipped EXCEPT ![i] = @ \cup {KeyOf(r)}]
                 /\ db' = db
           /\ UNCHANGED <<requestVars, stage, result, mailbox, waitChans, crashes, clientHist>>
<1>0. TypeOK /\ Shape /\ ProposedOnce
  BY DEF BaseInv
<1>1. <<delivered[i] + 1, r>> \in proposed
  BY <1>0, DeliverFacts
<1>2. PICK p \in proposed : p = <<delivered[i] + 1, r>>
  BY <1>1
<1>3. r \in Request /\ Operation(r) \in {"PUT", "DELETE", "GET"} /\ KeyOf(r) \in Key
  <2>1. p[2] \in Request /\ Operation(p[2]) \in {"PUT", "DELETE", "GET"} /\ KeyOf(p[2]) \in Key
    BY <1>0, EntryType
  <2>. QED BY <1>2, <2>1
<1>. QED BY <1>1, <1>3 DEF Apply

\* The engine after an operation.
LEMMA AppliedType ==
    ASSUME TypeOK, NEW i \in Server, NEW r \in Request, KeyOf(r) \in Key
    PROVE  /\ Applied(i, r) \in [Key -> Request \cup {Nil}]
           /\ \A k \in Key : Applied(i, r)[k] = IF WritesKey(r, k) THEN Left(r) ELSE db[i][k]
<1>1. db[i] \in [Key -> Request \cup {Nil}]
  BY DEF TypeOK
<1>2. CASE Operation(r) = "PUT"
  <2>1. Applied(i, r) = [db[i] EXCEPT ![KeyOf(r)] = r]
    BY <1>2 DEF Applied
  <2>. QED BY <1>1, <1>2, <2>1 DEF WritesKey, Left
<1>3. CASE Operation(r) = "DELETE"
  <2>1. Applied(i, r) = [db[i] EXCEPT ![KeyOf(r)] = Nil]
    BY <1>3 DEF Applied
  <2>. QED BY <1>1, <1>3, <2>1 DEF WritesKey, Left
<1>4. CASE Operation(r) \notin {"PUT", "DELETE"}
  <2>1. Applied(i, r) = db[i]
    BY <1>4 DEF Applied
  <2>. QED BY <1>1, <1>4, <2>1 DEF WritesKey
<1>. QED BY <1>2, <1>3, <1>4

\* The apply loops and a crash keep the types.
LEMMA TypeNextStores ==
    ASSUME BaseInv, (\E i \in Server : ApplyStep(i)) \/ Crash \/ UNCHANGED vars
    PROVE  TypeOK' /\ Shape'
<1>0. TypeOK /\ Shape /\ ProposedOnce /\ Handlers /\ WaitChansOwned
  BY DEF BaseInv
<1>1. ASSUME NEW i \in Server, Apply(i) PROVE TypeOK' /\ Shape'
  <2>1. PICK r : r = chosen'[delivered[i] + 1]
    OBVIOUS
  <2>2. /\ r \in Request /\ KeyOf(r) \in Key
        /\ high' = [high EXCEPT ![i] = Greatest({delivered[i] + 1, @})]
        /\ UNCHANGED <<requestVars, stage, result, mailbox, waitChans, crashes, clientHist>>
    BY <1>1, <2>1, ApplyFacts
  <2>3. /\ chosen' \in Seq(Request) /\ Len(chosen) \in Nat /\ Len(chosen') \in Nat
        /\ delivered[i] \in Nat /\ delivered[i] + 1 \in 1..Len(chosen')
        /\ Len(chosen') = Len(chosen) \/ Len(chosen') = Len(chosen) + 1
        /\ delivered' = [delivered EXCEPT ![i] = delivered[i] + 1]
    BY <1>0, <1>1, DeliverFacts
  <2>4. Len(chosen) <= Len(chosen') /\ delivered[i] + 1 \in Nat /\ delivered[i] + 1 <= Len(chosen')
    BY <2>3
  <2>5. PICK g : g = Greatest({delivered[i] + 1, high[i]})
    OBVIOUS
  <2>6. high[i] \in Nat /\ high[i] <= Len(chosen)
    BY <1>0 DEF TypeOK, Shape
  <2>7. g \in Nat /\ g \in {delivered[i] + 1, high[i]}
    BY <2>4, <2>5, <2>6, GreatestOfTwo
  <2>8. g <= Len(chosen')
    BY <2>3, <2>4, <2>6, <2>7
  <2>9. high' = [high EXCEPT ![i] = g] /\ high \in [Server -> Nat] /\ delivered \in [Server -> Nat]
    BY <1>0, <2>2, <2>5 DEF Shape
  <2>10. ASSUME NEW j \in Server PROVE delivered'[j] <= Len(chosen') /\ high'[j] <= Len(chosen')
    <3>1. CASE j = i
      BY <2>3, <2>4, <2>8, <2>9, <3>1
    <3>2. CASE j # i
      <4>1. /\ delivered'[j] = delivered[j] /\ high'[j] = high[j]
            /\ delivered[j] \in Nat /\ high[j] \in Nat
            /\ delivered[j] <= Len(chosen) /\ high[j] <= Len(chosen)
        BY <1>0, <2>3, <2>9, <3>2 DEF TypeOK
      <4>. QED BY <2>3, <2>4, <4>1
    <3>. QED BY <3>1, <3>2
  <2>11. /\ db' \in [Server -> [Key -> Request \cup {Nil}]]
         /\ reply' \in [Server -> OpResult \cup {Nil}]
         /\ skipped' \in [Server -> SUBSET Key]
         /\ errors' \in Nat
    <3>1. Applied(i, r) \in [Key -> Request \cup {Nil}]
      BY <1>0, <2>2, AppliedType
    <3>2. db[i][KeyOf(r)] \in Request \cup {Nil}
      BY <1>0, <2>2 DEF TypeOK
    <3>3. ASSUME NEW e \in BOOLEAN, NEW v \in Request \cup {Nil}
          PROVE  [op |-> r, err |-> e, value |-> v] \in OpResult
      BY <2>2 DEF OpResult
    <3>4. /\ db \in [Server -> [Key -> Request \cup {Nil}]]
          /\ reply \in [Server -> OpResult \cup {Nil}]
          /\ skipped \in [Server -> SUBSET Key] /\ errors \in Nat
      BY <1>0 DEF TypeOK, Shape
    <3>5. CASE /\ db' = [db EXCEPT ![i] = Applied(i, r)]
               /\ reply' = [reply EXCEPT ![i] =
                     [op |-> r, err |-> FALSE,
                      value |-> IF Operation(r) = "GET" THEN db[i][KeyOf(r)] ELSE Nil]]
               /\ skipped' = [skipped EXCEPT ![i] =
                     IF Operation(r) = "GET" THEN @ ELSE @ \ {KeyOf(r)}]
               /\ errors' = errors
      <4>1. PICK v \in Request \cup {Nil} :
                v = IF Operation(r) = "GET" THEN db[i][KeyOf(r)] ELSE Nil
        BY <3>2
      <4>2. [op |-> r, err |-> FALSE, value |-> v] \in OpResult
        BY <3>3
      <4>3. reply' \in [Server -> OpResult \cup {Nil}]
        BY <3>4, <3>5, <4>1, <4>2
      <4>. QED BY <3>1, <3>4, <3>5, <4>3
    <3>6. CASE /\ errors' = errors + 1
               /\ reply' = [reply EXCEPT ![i] = [op |-> r, err |-> TRUE, value |-> Nil]]
               /\ skipped' = [skipped EXCEPT ![i] = @ \cup {KeyOf(r)}]
               /\ db' = db
      <4>1. [op |-> r, err |-> TRUE, value |-> Nil] \in OpResult
        BY <3>3
      <4>. QED BY <2>2, <3>4, <3>6, <4>1
    <3>. QED BY <1>1, <2>1, <3>5, <3>6, ApplyFacts
  <2>12. TypeOK'
    BY <1>0, <2>2, <2>3, <2>10, <2>11 DEF TypeOK, requestVars
  <2>13. delivered' \in [Server -> Nat] /\ high' \in [Server -> Nat]
    BY <2>3, <2>4, <2>7, <2>9
  <2>. QED BY <1>0, <2>2, <2>11, <2>12, <2>13 DEF Shape, requestVars, clientHist
<1>2. ASSUME NEW i \in Server, Notify(i) PROVE TypeOK' /\ Shape'
  <2>1. UNCHANGED <<logVars, requestVars, stage, result, waitChans, db, boundVars, storeHist, clientHist>>
    BY <1>2 DEF Notify
  <2>2. reply[i] \in OpResult
    BY <1>0, <1>2 DEF Notify, TypeOK
  <2>3. mailbox' \in [Client -> OpResult \cup {Nil}] /\ reply' \in [Server -> OpResult \cup {Nil}]
    BY <1>0, <1>2, <2>2 DEF Notify, TypeOK
  <2>4. TypeOK'
    BY <1>0, <2>1, <2>3 DEF TypeOK, logVars, requestVars, storeHist
  <2>. QED BY <1>0, <2>1, <2>4 DEF Shape, logVars, requestVars, storeHist, boundVars, clientHist
<1>3. CASE Crash
  <2>1. /\ delivered' = [i \in Server |-> 0] /\ UNCHANGED <<proposed, chosen>>
    BY <1>3 DEF Crash, Raft!Restart
  <2>2. UNCHANGED <<requestVars, errors, high, clientHist>>
    BY <1>3 DEF Crash
  <2>3. db' \in [Server -> [Key -> Request \cup {Nil}]]
    <3>1. CASE db' = db
      BY <1>0, <3>1 DEF TypeOK
    <3>2. ASSUME NEW old \in [Server -> [Key -> 0..Len(chosen)]],
                 db' = [i \in Server |-> [k \in Key |-> ValueAt(k, old[i][k])]]
          PROVE  db' \in [Server -> [Key -> Request \cup {Nil}]]
      <4>1. ASSUME NEW i \in Server, NEW k \in Key PROVE ValueAt(k, old[i][k]) \in Request \cup {Nil}
        <5>1. Len(chosen) \in Nat
          BY <1>0 DEF TypeOK
        <5>2. old[i][k] \in Nat /\ old[i][k] <= Len(chosen)
          BY <5>1
        <5>. QED BY <1>0, <5>2, ValueAtType
      <4>. QED BY <3>2, <4>1
    <3>. QED BY <1>3, <3>1, <3>2 DEF Crash
  <2>4. /\ stage' \in [Client -> {"call", "register", "wait", "leave", "read", "done"}]
        /\ result' \in [Client -> {Nil, "ok", "failed", "changed", "timeout", "unavailable", "lost"}]
        /\ mailbox' \in [Client -> OpResult \cup {Nil}]
        /\ reply' \in [Server -> OpResult \cup {Nil}]
    BY <1>0, <1>3 DEF Crash, TypeOK
  <2>5. waitChans' = [i \in Server |-> <<>>]
    BY <1>3 DEF Crash
  <2>6. \A i \in Server : waitChans'[i] \in [DOMAIN waitChans'[i] -> Client]
    BY <2>5
  <2>7. \A i \in Server : delivered'[i] <= Len(chosen)
    <3>1. Len(chosen) \in Nat
      BY <1>0 DEF TypeOK
    <3>. QED BY <2>1, <3>1
  <2>8. TypeOK'
    BY <1>0, <2>1, <2>2, <2>3, <2>4, <2>6, <2>7 DEF TypeOK, requestVars
  <2>9. crashes' \in Nat /\ skipped' \in [Server -> SUBSET Key] /\ delivered' \in [Server -> Nat]
    BY <1>0, <1>3, <2>1 DEF Crash, Shape
  <2>. QED BY <1>0, <2>1, <2>2, <2>5, <2>8, <2>9 DEF Shape, requestVars, clientHist
<1>4. CASE UNCHANGED vars
  <2>1. TypeOK'
    BY <1>0, <1>4 DEF vars, TypeOK, logVars, requestVars, storeVars, storeHist
  <2>. QED BY <1>0, <1>4, <2>1 DEF vars, Shape, logVars, requestVars, storeHist, boundVars, clientHist
<1>. QED BY <1>1, <1>2, <1>3, <1>4 DEF ApplyStep

\* A step of one handler leaves the other handlers, the stores and the log alone.
LEMMA HandlerFrame ==
    ASSUME BaseInv, NEW c \in Client, Arrive(c) \/ RequestStep(c)
    PROVE  /\ program' = program /\ proposed \subseteq proposed'
           /\ UNCHANGED <<chosen, delivered, db, reply, high, skipped, errors>>
           /\ \A d \in Client \ {c} :
                 /\ turn'[d] = turn[d] /\ stage'[d] = stage[d] /\ node'[d] = node[d]
                 /\ index'[d] = index[d] /\ result'[d] = result[d] /\ value'[d] = value[d]
                 /\ mailbox'[d] = mailbox[d] /\ floor'[d] = floor[d]
<1>0. TypeOK /\ Shape
  BY DEF BaseInv
<1>1. CASE Arrive(c)
  BY <1>0, <1>1 DEF Arrive, TypeOK, Shape, logVars, storeVars, storeHist, boundVars
<1>2. CASE CallLeader(c)
  <2>1. proposed \subseteq proposed' /\ UNCHANGED <<chosen, delivered>>
        /\ \A d \in Client \ {c} : index'[d] = index[d]
    BY <1>0, <1>2, StartFacts DEF TypeOK
  <2>. QED BY <1>0, <1>2, <2>1 DEF CallLeader, TypeOK, Shape, storeVars, storeHist, boundVars
<1>3. CASE CallFollower(c)
  BY <1>0, <1>3 DEF CallFollower, TypeOK, Shape, logVars, storeVars, storeHist, boundVars
<1>4. CASE Register(c)
  BY <1>0, <1>4 DEF Register, TypeOK, logVars, requestVars, storeVars, storeHist, boundVars
<1>5. CASE Wake(c)
  BY <1>0, <1>5 DEF Wake, TypeOK, logVars, storeVars, storeHist, boundVars
<1>6. CASE Timeout(c)
  BY <1>0, <1>6 DEF Timeout, TypeOK, logVars, requestVars, storeVars, storeHist, boundVars, clientHist
<1>7. CASE Leave(c)
  BY <1>0, <1>7 DEF Leave, TypeOK, logVars, requestVars, storeVars, storeHist, boundVars
<1>8. CASE LocalCheck(c)
  BY <1>0, <1>8 DEF LocalCheck, TypeOK, logVars, requestVars, storeVars, storeHist, boundVars, clientHist
<1>9. CASE LocalRead(c)
  BY <1>0, <1>9 DEF LocalRead, TypeOK, logVars, storeVars, storeHist, boundVars, clientHist
<1>. QED BY <1>1, <1>2, <1>3, <1>4, <1>5, <1>6, <1>7, <1>8, <1>9 DEF RequestStep

\* Operations and keys do not change.
LEMMA SameProgram ==
    ASSUME program' = program
    PROVE  \A r : Operation(r)' = Operation(r) /\ KeyOf(r)' = KeyOf(r)
BY DEF Operation, KeyOf

\* Proposals stay what they were when nobody asks for more.
LEMMA ProposedKept ==
    ASSUME ProposedOnce, UNCHANGED <<program, turn, proposed>>,
           \A c \in Client : stage'[c] = "call" => stage[c] = "call",
           \A n \in DOMAIN chosen' : <<n, chosen'[n]>> \in proposed
    PROVE  ProposedOnce'
<1>1. \A r : Asked(r)' = Asked(r)
  BY DEF Asked
<1>2. \A r : Operation(r)' = Operation(r)
  BY SameProgram
<1>3. \A p \in proposed' : \E n \in 1..MaxIndex, r \in Request :
           p = <<n, r>> /\ Asked(r)' /\ Operation(r)' # "LOCAL"
  BY <1>1, <1>2 DEF ProposedOnce
<1>4. \A c \in Client : OpOf(c)' = OpOf(c)
  BY DEF OpOf
<1>5. \A c \in Client : stage'[c] = "call" => \A p \in proposed' : p[2] # OpOf(c)'
  BY <1>4 DEF ProposedOnce
<1>6. /\ \A p, q \in proposed' : p[2] = q[2] => p[1] = q[1]
      /\ \A n \in DOMAIN chosen' : <<n, chosen'[n]>> \in proposed'
  BY DEF ProposedOnce
<1>. QED BY <1>3, <1>5, <1>6 DEF ProposedOnce

\* Every step keeps the proposals.
LEMMA ProposedNext ==
    ASSUME BaseInv, [Next]_vars
    PROVE  ProposedOnce'
<1>0. TypeOK /\ Shape /\ ProposedOnce /\ Handlers
  BY DEF BaseInv
<1>1. ASSUME NEW c \in Client, Arrive(c) PROVE ProposedOnce'
  <2>1. /\ UNCHANGED <<program, proposed, chosen>> /\ stage' = [stage EXCEPT ![c] = "call"]
        /\ turn' = [turn EXCEPT ![c] = @ + 1]
    BY <1>1 DEF Arrive, logVars
  <2>2. /\ \A d \in Client : turn[d] \in Nat /\ turn'[d] \in Nat /\ turn'[d] >= turn[d]
        /\ \A d \in Client \ {c} : turn'[d] = turn[d] /\ stage'[d] = stage[d]
        /\ turn'[c] = turn[c] + 1
    BY <1>0, <2>1, SMTT(30) DEF Shape, TypeOK
  <2>3. ASSUME NEW r, Asked(r) PROVE Asked(r)'
    <3>1. PICK d \in Client, t \in Nat : t >= 1 /\ t <= turn[d] /\ r = <<d, t>>
      BY <2>3 DEF Asked
    <3>2. t <= turn'[d]
      BY <2>2, <3>1
    <3>. QED BY <3>1, <3>2 DEF Asked
  <2>4. \A p \in proposed : \E n \in 1..MaxIndex, r \in Request :
           p = <<n, r>> /\ Asked(r)' /\ Operation(r)' # "LOCAL"
    BY <1>0, <2>1, <2>3, SameProgram DEF ProposedOnce
  <2>5. ASSUME NEW d \in Client, stage'[d] = "call", NEW p \in proposed PROVE p[2] # OpOf(d)'
    <3>1. CASE d = c
      <4>1. Asked(p[2])
        BY <1>0, EntryType
      <4>2. PICK e \in Client, t \in Nat : t <= turn[e] /\ p[2] = <<e, t>>
        BY <4>1 DEF Asked
      <4>3. <<e, t>> # <<c, turn[c] + 1>>
        BY <2>2, <4>2
      <4>. QED BY <2>2, <3>1, <4>2, <4>3 DEF OpOf
    <3>2. CASE d # c
      BY <1>0, <2>2, <2>5, <3>2 DEF ProposedOnce, OpOf
    <3>. QED BY <3>1, <3>2
  <2>. QED BY <1>0, <2>1, <2>4, <2>5 DEF ProposedOnce
<1>2. ASSUME NEW c \in Client, CallLeader(c) PROVE ProposedOnce'
  <2>1. PICK n \in 1..MaxIndex : proposed' = proposed \cup {<<n, OpOf(c)>>} /\ chosen' = chosen
    BY <1>0, <1>2, StartFacts
  <2>2. /\ UNCHANGED <<program, turn>> /\ stage' = [stage EXCEPT ![c] = "register"]
        /\ stage[c] = "call" /\ Operation(OpOf(c)) # "LOCAL"
    BY <1>2 DEF CallLeader
  <2>3. OpOf(c) \in Request /\ Asked(OpOf(c))
    BY <1>0, <2>2, OpType
  <2>4. \A r : Asked(r)' = Asked(r) /\ Operation(r)' = Operation(r)
    BY <2>2, SameProgram DEF Asked
  <2>5. ASSUME NEW p \in proposed'
        PROVE  \E m \in 1..MaxIndex, r \in Request : p = <<m, r>> /\ Asked(r)' /\ Operation(r)' # "LOCAL"
    <3>1. CASE p \in proposed
      BY <1>0, <2>4, <3>1 DEF ProposedOnce
    <3>2. CASE p = <<n, OpOf(c)>>
      BY <2>2, <2>3, <2>4, <3>2
    <3>. QED BY <2>1, <3>1, <3>2
  <2>6. \A p \in proposed : p[2] # OpOf(c)
    BY <1>0, <2>2 DEF ProposedOnce
  <2>7. \A p, q \in proposed' : p[2] = q[2] => p[1] = q[1]
    BY <1>0, <2>1, <2>6 DEF ProposedOnce
  <2>8. ASSUME NEW d \in Client, stage'[d] = "call", NEW p \in proposed' PROVE p[2] # OpOf(d)'
    <3>1. d # c /\ stage[d] = "call" /\ OpOf(d)' = OpOf(d)
      BY <1>0, <2>2, <2>8 DEF TypeOK, OpOf
    <3>2. OpOf(d) # OpOf(c)
      BY <3>1 DEF OpOf
    <3>. QED BY <1>0, <2>1, <3>1, <3>2 DEF ProposedOnce
  <2>9. \A m \in DOMAIN chosen' : <<m, chosen'[m]>> \in proposed'
    BY <1>0, <2>1 DEF ProposedOnce
  <2>. QED BY <2>5, <2>7, <2>8, <2>9 DEF ProposedOnce
<1>3. ASSUME UNCHANGED <<program, turn, proposed, chosen>>,
             \A c \in Client : stage'[c] = "call" => stage[c] = "call"
      PROVE  ProposedOnce'
  BY <1>0, <1>3, ProposedKept DEF ProposedOnce
<1>4. ASSUME NEW c \in Client,
             \/ CallFollower(c) \/ Register(c) \/ Wake(c) \/ Timeout(c) \/ Leave(c)
             \/ LocalCheck(c) \/ LocalRead(c)
      PROVE  ProposedOnce'
  <2>1. UNCHANGED <<program, turn, proposed, chosen>>
    BY <1>4 DEF CallFollower, Register, Wake, Timeout, Leave, LocalCheck, LocalRead, logVars, requestVars
  <2>2. stage' = stage \/ \E s \in {"wait", "leave", "done", "read"} : stage' = [stage EXCEPT ![c] = s]
    BY <1>4 DEF CallFollower, Register, Wake, Timeout, Leave, LocalCheck, LocalRead
  <2>3. ASSUME NEW d \in Client, stage'[d] = "call" PROVE stage[d] = "call"
    BY <1>0, <2>2, <2>3 DEF TypeOK
  <2>. QED BY <1>3, <2>1, <2>3
<1>5. ASSUME NEW i \in Server, Apply(i) PROVE ProposedOnce'
  <2>1. UNCHANGED <<program, turn, stage>>
    BY <1>5 DEF Apply, requestVars
  <2>2. /\ proposed' = proposed /\ DOMAIN chosen = 1..Len(chosen) /\ DOMAIN chosen' = 1..Len(chosen')
        /\ \A m \in 1..Len(chosen) : chosen'[m] = chosen[m]
        /\ <<delivered[i] + 1, chosen'[delivered[i] + 1]>> \in proposed
    BY <1>0, <1>5, DeliverFacts
  <2>3. ASSUME NEW m \in 1..Len(chosen') PROVE m \in 1..Len(chosen) \/ m = delivered[i] + 1
    <3>1. /\ Len(chosen) \in Nat /\ Len(chosen') \in Nat
          /\ Len(chosen') = Len(chosen) \/ Len(chosen') = Len(chosen) + 1
          /\ Len(chosen') # Len(chosen) => delivered[i] + 1 = Len(chosen')
      BY <1>0, <1>5, DeliverFacts
    <3>. QED BY <3>1
  <2>4. ASSUME NEW m \in 1..Len(chosen) PROVE <<m, chosen[m]>> \in proposed
    <3>1. m \in DOMAIN chosen
      BY <2>2
    <3>. QED BY <1>0, <3>1 DEF ProposedOnce
  <2>5. \A m \in DOMAIN chosen' : <<m, chosen'[m]>> \in proposed
    BY <2>2, <2>3, <2>4
  <2>. QED BY <1>0, <2>1, <2>2, <2>5, ProposedKept
<1>6. ASSUME NEW i \in Server, Notify(i) PROVE ProposedOnce'
  BY <1>3, <1>6 DEF Notify, logVars, requestVars
<1>7. CASE Crash
  <2>1. UNCHANGED <<program, turn, proposed, chosen>> /\ \A c \in Client : stage'[c] = "done"
    BY <1>7 DEF Crash, Raft!Restart, requestVars
  <2>. QED BY <1>3, <2>1
<1>8. CASE UNCHANGED vars
  BY <1>3, <1>8 DEF vars, logVars, requestVars
<1>. QED BY <1>1, <1>2, <1>4, <1>5, <1>6, <1>7, <1>8 DEF Next, RequestStep, ApplyStep

\* A handler that does nothing stays where it is.
LEMMA HandlesKept ==
    ASSUME NEW d \in Client, Handles(d), program' = program, proposed \subseteq proposed',
           turn'[d] = turn[d], stage'[d] = stage[d], result'[d] = result[d], index'[d] = index[d]
    PROVE  Handles(d)'
<1>1. OpOf(d)' = OpOf(d) /\ Operation(OpOf(d))' = Operation(OpOf(d))
  BY DEF OpOf, Operation
<1>. QED BY <1>1 DEF Handles

\* Every step keeps the handlers in order.
LEMMA HandlersNext ==
    ASSUME BaseInv, [Next]_vars
    PROVE  Handlers'
<1>0. TypeOK /\ Shape /\ ProposedOnce /\ Handlers
  BY DEF BaseInv
<1>1. ASSUME NEW c \in Client, Arrive(c) \/ RequestStep(c) PROVE Handlers'
  <2>1. program' = program /\ proposed \subseteq proposed'
    BY <1>1, HandlerFrame
  <2>2. ASSUME NEW d \in Client \ {c} PROVE Handles(d)'
    BY <1>0, <1>1, HandlerFrame, HandlesKept DEF Handlers
  <2>3. Handles(c)
    BY <1>0 DEF Handlers
  <2>4. turn[c] \in Nat
    BY <1>0 DEF Shape
  <2>5. Handles(c)'
    <3>1. CASE Arrive(c)
      <4>1. turn'[c] = turn[c] + 1 /\ stage'[c] = "call" /\ result'[c] = Nil
        BY <1>0, <3>1 DEF Arrive, Shape, TypeOK
      <4>. QED BY <2>4, <4>1 DEF Handles, Live
    <3>2. CASE CallLeader(c)
      <4>1. stage[c] = "call" /\ stage'[c] = "register" /\ result'[c] = result[c] /\ turn' = turn
        BY <1>0, <3>2 DEF CallLeader, TypeOK
      <4>2. <<index'[c], OpOf(c)>> \in proposed'
        BY <1>0, <3>2, StartFacts DEF TypeOK
      <4>3. OpOf(c)' = OpOf(c)
        BY <4>1 DEF OpOf
      <4>. QED BY <2>3, <4>1, <4>2, <4>3 DEF Handles, Live
    <3>3. CASE CallFollower(c)
      <4>1. stage[c] = "call" /\ turn' = turn
            /\ ((stage'[c] = "call" /\ result'[c] = result[c]) \/ stage'[c] = "done")
        BY <1>0, <3>3 DEF CallFollower, TypeOK
      <4>. QED BY <2>3, <4>1 DEF Handles, Live
    <3>4. CASE Register(c) \/ Wake(c) \/ Timeout(c)
      <4>1. /\ UNCHANGED <<turn, index>> /\ stage[c] \in {"register", "wait"}
            /\ (stage'[c] = "wait" /\ result'[c] = result[c]) \/ stage'[c] = "leave"
        BY <1>0, <3>4 DEF Register, Wake, Timeout, TypeOK, requestVars
      <4>2. OpOf(c)' = OpOf(c)
        BY <4>1 DEF OpOf
      <4>. QED BY <2>1, <2>3, <4>1, <4>2 DEF Handles, Live
    <3>5. CASE Leave(c) \/ LocalRead(c)
      <4>1. stage'[c] = "done"
        BY <1>0, <3>5 DEF Leave, LocalRead, TypeOK
      <4>. QED BY <4>1 DEF Handles, Live
    <3>6. CASE LocalCheck(c)
      <4>1. /\ UNCHANGED <<turn, result>> /\ stage[c] = "call" /\ stage'[c] = "read"
            /\ Operation(OpOf(c)) = "LOCAL"
        BY <1>0, <3>6 DEF LocalCheck, TypeOK, requestVars
      <4>2. Operation(OpOf(c))' = Operation(OpOf(c))
        BY <2>1, <4>1 DEF OpOf, Operation
      <4>. QED BY <2>3, <4>1, <4>2 DEF Handles, Live
    <3>. QED BY <1>1, <3>1, <3>2, <3>3, <3>4, <3>5, <3>6 DEF RequestStep
  <2>. QED BY <2>2, <2>5 DEF Handlers
<1>2. ASSUME UNCHANGED <<program, turn, proposed, stage, result, index>> PROVE Handlers'
  BY <1>0, <1>2, HandlesKept DEF Handlers
<1>3. ASSUME NEW i \in Server, Apply(i) PROVE Handlers'
  <2>1. proposed' = proposed
    BY <1>0, <1>3, DeliverFacts
  <2>. QED BY <1>2, <1>3, <2>1 DEF Apply, requestVars
<1>4. ASSUME NEW i \in Server, Notify(i) PROVE Handlers'
  BY <1>2, <1>4 DEF Notify, logVars, requestVars
<1>5. CASE Crash
  BY <1>5 DEF Crash, Handlers, Handles, Live
<1>6. CASE UNCHANGED vars
  BY <1>2, <1>6 DEF vars, logVars, requestVars
<1>. QED BY <1>1, <1>3, <1>4, <1>5, <1>6 DEF Next, ApplyStep

\* Every step keeps the channels with their handlers.
LEMMA WaitChansNext ==
    ASSUME BaseInv, TypeOK', [Next]_vars
    PROVE  WaitChansOwned'
<1>0. TypeOK /\ Shape /\ WaitChansOwned
  BY DEF BaseInv
<1>1. ASSUME waitChans' = waitChans,
             \A d \in Client : stage[d] \in {"wait", "leave"} =>
                 stage'[d] \in {"wait", "leave"} /\ node'[d] = node[d] /\ index'[d] = index[d]
      PROVE  WaitChansOwned'
  <2>. SUFFICES ASSUME NEW i \in Server, NEW n \in DOMAIN waitChans[i]
       PROVE  LET d == waitChans[i][n]
              IN  stage'[d] \in {"wait", "leave"} /\ node'[d] = i /\ index'[d] = n
    BY <1>1 DEF WaitChansOwned
  <2>1. PICK d : d = waitChans[i][n]
    OBVIOUS
  <2>2. d \in Client
    BY <1>0, <2>1 DEF TypeOK
  <2>3. stage[d] \in {"wait", "leave"} /\ node[d] = i /\ index[d] = n
    BY <1>0, <2>1 DEF WaitChansOwned
  <2>. QED BY <1>1, <2>1, <2>2, <2>3
<1>2. ASSUME NEW c \in Client, Arrive(c) \/ RequestStep(c), waitChans' = waitChans,
             stage[c] \in {"wait", "leave"} =>
                 stage'[c] \in {"wait", "leave"} /\ node'[c] = node[c] /\ index'[c] = index[c]
      PROVE  WaitChansOwned'
  BY <1>1, <1>2, HandlerFrame
<1>3. ASSUME NEW c \in Client, Arrive(c) \/ CallLeader(c) \/ CallFollower(c) \/ LocalCheck(c) \/ LocalRead(c)
      PROVE  WaitChansOwned'
  <2>1. waitChans' = waitChans /\ stage[c] \notin {"wait", "leave"}
    BY <1>3 DEF Arrive, CallLeader, CallFollower, LocalCheck, LocalRead
  <2>. QED BY <1>2, <1>3, <2>1 DEF RequestStep
<1>4. ASSUME NEW c \in Client, Wake(c) \/ Timeout(c) PROVE WaitChansOwned'
  <2>1. waitChans' = waitChans /\ stage'[c] = "leave" /\ UNCHANGED <<node, index>>
    BY <1>0, <1>4 DEF Wake, Timeout, TypeOK, requestVars
  <2>. QED BY <1>2, <1>4, <2>1 DEF RequestStep
<1>5. ASSUME NEW c \in Client, Register(c) PROVE WaitChansOwned'
  <2>1. /\ waitChans' = [waitChans EXCEPT ![node[c]] =
               [n \in DOMAIN @ \cup {SlotOf(c)} |-> IF n = SlotOf(c) THEN c ELSE @[n]]]
        /\ stage' = [stage EXCEPT ![c] = "wait"] /\ stage[c] = "register" /\ UNCHANGED <<node, index>>
    BY <1>5 DEF Register, requestVars
  <2>2. SlotOf(c) = index[c] /\ node[c] \in Server
    BY <1>0 DEF SlotOf, TypeOK
  <2>. SUFFICES ASSUME NEW i \in Server, NEW n \in DOMAIN waitChans'[i]
       PROVE  LET d == waitChans'[i][n]
              IN  stage'[d] \in {"wait", "leave"} /\ node[d] = i /\ index[d] = n
    BY <2>1, SMTT(30) DEF WaitChansOwned
  <2>3. i \in DOMAIN waitChans
    BY <1>0 DEF Shape
  <2>4. CASE i = node[c] /\ n = index[c]
    <3>1. waitChans'[i][n] = c /\ stage'[c] = "wait"
      BY <1>0, <2>1, <2>2, <2>3, <2>4 DEF TypeOK
    <3>. QED BY <2>4, <3>1
  <2>5. CASE i # node[c] \/ n # index[c]
    <3>1. n \in DOMAIN waitChans[i] /\ waitChans'[i][n] = waitChans[i][n]
      BY <2>1, <2>2, <2>3, <2>5
    <3>2. PICK d : d = waitChans[i][n]
      OBVIOUS
    <3>3. d \in Client
      BY <1>0, <3>1, <3>2 DEF TypeOK
    <3>4. stage[d] \in {"wait", "leave"} /\ node[d] = i /\ index[d] = n
      BY <1>0, <3>1, <3>2 DEF WaitChansOwned
    <3>5. stage'[d] = stage[d]
      BY <1>0, <2>1, <3>3, <3>4 DEF TypeOK
    <3>. QED BY <3>1, <3>2, <3>4, <3>5
  <2>. QED BY <2>4, <2>5
<1>6. ASSUME NEW c \in Client, Leave(c) PROVE WaitChansOwned'
  <2>1. /\ waitChans' = [waitChans EXCEPT ![node[c]] = Restrict(@, DOMAIN @ \ Deleted(c))]
        /\ stage' = [stage EXCEPT ![c] = "done"] /\ UNCHANGED <<node, index>>
    BY <1>6 DEF Leave, requestVars
  <2>2. Deleted(c) = {index[c]} /\ node[c] \in Server
    BY <1>0 DEF Deleted, SlotOf, TypeOK
  <2>. SUFFICES ASSUME NEW i \in Server, NEW n \in DOMAIN waitChans'[i]
       PROVE  LET d == waitChans'[i][n]
              IN  stage'[d] \in {"wait", "leave"} /\ node[d] = i /\ index[d] = n
    BY <2>1 DEF WaitChansOwned
  <2>3. i \in DOMAIN waitChans
    BY <1>0 DEF Shape
  <2>4. /\ n \in DOMAIN waitChans[i] /\ waitChans'[i][n] = waitChans[i][n]
        /\ i = node[c] => n # index[c]
    BY <2>1, <2>2, <2>3 DEF Restrict
  <2>5. PICK d : d = waitChans[i][n]
    OBVIOUS
  <2>6. d \in Client
    BY <1>0, <2>4, <2>5 DEF TypeOK
  <2>7. stage[d] \in {"wait", "leave"} /\ node[d] = i /\ index[d] = n
    BY <1>0, <2>4, <2>5 DEF WaitChansOwned
  <2>8. d # c
    BY <2>4, <2>7
  <2>9. stage'[d] = stage[d]
    BY <1>0, <2>1, <2>6, <2>8 DEF TypeOK
  <2>. QED BY <2>4, <2>5, <2>7, <2>9
<1>7. ASSUME NEW i \in Server, ApplyStep(i) PROVE WaitChansOwned'
  <2>1. UNCHANGED <<waitChans, stage, node, index>>
    BY <1>7 DEF ApplyStep, Apply, Notify, requestVars
  <2>. QED BY <1>1, <2>1
<1>8. CASE Crash
  BY <1>8 DEF Crash, WaitChansOwned
<1>9. CASE UNCHANGED vars
  BY <1>1, <1>9 DEF vars, requestVars
<1>. QED BY <1>3, <1>4, <1>5, <1>6, <1>7, <1>8, <1>9 DEF Next, RequestStep

\* One step of the whole.
LEMMA BaseInvNext == BaseInv /\ [Next]_vars => BaseInv'
<1>. SUFFICES ASSUME BaseInv, [Next]_vars PROVE BaseInv'
  OBVIOUS
<1>1. TypeOK' /\ Shape'
  BY TypeNextHandlers, TypeNextStores DEF Next
<1>. QED BY <1>1, ProposedNext, HandlersNext, WaitChansNext DEF BaseInv

\* However often nodes crash, a request is handled by one handler, its operation is
\* proposed at one index, and only what was proposed is in the log.
THEOREM BaseInvariant == Spec => []BaseInv
<1>. QED BY BaseInvInit, BaseInvNext, PTL DEF Spec

\* Handlers, channels and stores keep their shape, and no store is ahead of what its
\* peer delivered.
THEOREM TypeCorrect == Spec => []TypeOK
<1>1. BaseInv => TypeOK
  BY DEF BaseInv
<1>. QED BY <1>1, BaseInvariant, PTL

\* A channel stays registered only while its request waits or leaves.
THEOREM WaitChansCorrect == Spec => []WaitChansOwned
<1>1. BaseInv => WaitChansOwned
  BY DEF BaseInv
<1>. QED BY <1>1, BaseInvariant, PTL

\* An operation enters the log at most once, however many nodes the gateway asks and
\* whatever they answer.
THEOREM AtMostOnceCorrect == Spec => []AtMostOnce
<1>1. BaseInv => AtMostOnce
  <2>. SUFFICES ASSUME ProposedOnce, NEW m \in DOMAIN chosen, NEW n \in DOMAIN chosen,
                       chosen[m] = chosen[n]
       PROVE  m = n
    BY DEF AtMostOnce, BaseInv
  <2>1. PICK p \in proposed, q \in proposed : p = <<m, chosen[m]>> /\ q = <<n, chosen[n]>>
    BY DEF ProposedOnce
  <2>2. p[2] = q[2] /\ p[1] = m /\ q[1] = n
    BY <2>1
  <2>. QED BY <2>2 DEF ProposedOnce
<1>. QED BY <1>1, BaseInvariant, PTL

-----------------------------------------------------------------------------
(* The engines.                                                              *)

\* What an engine holds does not depend on what comes later in the log.
LEMMA EngineKept ==
    ASSUME TypeOK, Shape, EngineInLog, program' = program, Len(chosen) \in Nat, Len(chosen') \in Nat,
           Len(chosen) <= Len(chosen'), \A m \in 1..Len(chosen) : chosen'[m] = chosen[m],
           NEW j \in Server, delivered'[j] = delivered[j], high'[j] = high[j],
           db'[j] = db[j], skipped'[j] = skipped[j]
    PROVE  /\ delivered'[j] <= high'[j] /\ high'[j] <= Len(chosen')
           /\ \A k \in Key : \E x \in Nat : x <= high'[j] /\ db'[j][k] = ValueAt(k, x)'
           /\ \A k \in Key \ skipped'[j] :
                  \E x \in Nat : delivered'[j] <= x /\ x <= high'[j] /\ db'[j][k] = ValueAt(k, x)'
<1>1. delivered[j] \in Nat /\ high[j] \in Nat /\ delivered[j] <= high[j] /\ high[j] <= Len(chosen)
  BY DEF Shape, EngineInLog
<1>2. ASSUME NEW x \in Nat, x <= high[j], NEW k PROVE ValueAt(k, x)' = ValueAt(k, x)
  <2>1. \A m \in 1..x : chosen'[m] = chosen[m]
    BY <1>1, <1>2
  <2>. QED BY <2>1, ValueAtKept
<1>3. ASSUME NEW k \in Key PROVE \E x \in Nat : x <= high'[j] /\ db'[j][k] = ValueAt(k, x)'
  <2>1. PICK x \in Nat : x <= high[j] /\ db[j][k] = ValueAt(k, x)
    BY DEF EngineInLog
  <2>. QED BY <1>2, <2>1
<1>4. ASSUME NEW k \in Key \ skipped'[j]
      PROVE  \E x \in Nat : delivered'[j] <= x /\ x <= high'[j] /\ db'[j][k] = ValueAt(k, x)'
  <2>1. PICK x \in Nat : delivered[j] <= x /\ x <= high[j] /\ db[j][k] = ValueAt(k, x)
    BY DEF EngineInLog
  <2>. QED BY <1>2, <2>1
<1>. QED BY <1>1, <1>3, <1>4

\* Nothing happens to the engines and the log.
LEMMA EngineStutter ==
    ASSUME TypeOK, Shape, EngineInLog,
           UNCHANGED <<program, chosen, delivered, high, db, skipped, errors>>
    PROVE  EngineInLog'
<1>1. Len(chosen) \in Nat /\ Len(chosen) <= Len(chosen)
  BY DEF TypeOK
<1>2. \A j \in Server :
           /\ delivered'[j] <= high'[j] /\ high'[j] <= Len(chosen')
           /\ \A k \in Key : \E x \in Nat : x <= high'[j] /\ db'[j][k] = ValueAt(k, x)'
           /\ \A k \in Key \ skipped'[j] :
                  \E x \in Nat : delivered'[j] <= x /\ x <= high'[j] /\ db'[j][k] = ValueAt(k, x)'
  BY <1>1, EngineKept
<1>3. errors' = 0 => \A i \in Server : skipped'[i] = {}
  BY DEF EngineInLog
<1>. QED BY <1>2, <1>3 DEF EngineInLog

\* What a store has applied at most, after it has taken the next entry.
LEMMA HighFacts ==
    ASSUME BaseInv, EngineInLog, NEW i \in Server, Apply(i)
    PROVE  /\ high' \in [Server -> Nat]
           /\ \A j \in Server \ {i} : high'[j] = high[j]
           /\ high'[i] \in Nat /\ high'[i] >= delivered[i] + 1 /\ high'[i] >= high[i]
           /\ high'[i] = delivered[i] + 1 \/ high'[i] = high[i]
           /\ delivered[i] = high[i] => high'[i] = delivered[i] + 1
<1>1. /\ delivered[i] \in Nat /\ high \in [Server -> Nat] /\ high[i] \in Nat /\ delivered[i] <= high[i]
  BY DEF BaseInv, Shape, EngineInLog
<1>2. high' = [high EXCEPT ![i] = Greatest({delivered[i] + 1, @})]
  BY ApplyFacts
<1>3. PICK g : g = Greatest({delivered[i] + 1, high[i]})
  OBVIOUS
<1>4. g \in Nat /\ g \in {delivered[i] + 1, high[i]} /\ delivered[i] + 1 <= g /\ high[i] <= g
  BY <1>1, <1>3, GreatestOfTwo
<1>5. high' = [high EXCEPT ![i] = g]
  BY <1>1, <1>2, <1>3
<1>. QED BY <1>1, <1>4, <1>5

\* applyLoop takes an entry: the engine has now what the log has at least up to there.
LEMMA EngineApply ==
    ASSUME BaseInv, EngineInLog, NEW i \in Server, Apply(i)
    PROVE  EngineInLog'
<1>0. TypeOK /\ Shape /\ ProposedOnce
  BY DEF BaseInv
<1>1. /\ chosen \in Seq(Request) /\ Len(chosen) \in Nat /\ Len(chosen') \in Nat
      /\ delivered[i] \in Nat /\ delivered[i] + 1 \in 1..Len(chosen')
      /\ Len(chosen') = Len(chosen) \/ Len(chosen') = Len(chosen) + 1
      /\ \A m \in 1..Len(chosen) : chosen'[m] = chosen[m]
      /\ delivered' = [delivered EXCEPT ![i] = delivered[i] + 1]
  BY <1>0, DeliverFacts
<1>2. Len(chosen) <= Len(chosen') /\ delivered[i] + 1 \in Nat /\ delivered[i] + 1 <= Len(chosen')
  BY <1>1
<1>3. PICK r : r = chosen'[delivered[i] + 1]
  OBVIOUS
<1>4. /\ r \in Request /\ Operation(r) \in {"PUT", "DELETE", "GET"} /\ KeyOf(r) \in Key
      /\ program' = program
      /\ \/ /\ db' = [db EXCEPT ![i] = Applied(i, r)]
            /\ skipped' = [skipped EXCEPT ![i] =
                  IF Operation(r) = "GET" THEN @ ELSE @ \ {KeyOf(r)}]
            /\ errors' = errors
         \/ /\ Operation(r) # "GET" /\ errors' = errors + 1
            /\ skipped' = [skipped EXCEPT ![i] = @ \cup {KeyOf(r)}]
            /\ db' = db
  BY <1>3, ApplyFacts DEF requestVars
<1>5. /\ db \in [Server -> [Key -> Request \cup {Nil}]] /\ skipped \in [Server -> SUBSET Key]
      /\ delivered \in [Server -> Nat] /\ high[i] \in Nat /\ errors \in Nat
  BY <1>0 DEF TypeOK, Shape
<1>6. delivered[i] <= high[i] /\ high[i] <= Len(chosen)
  BY DEF EngineInLog
<1>7. /\ high'[i] \in Nat /\ high'[i] >= delivered[i] + 1 /\ high'[i] >= high[i]
      /\ high'[i] = delivered[i] + 1 \/ high'[i] = high[i]
  BY HighFacts
<1>8. ASSUME NEW j \in Server \ {i}
      PROVE  /\ delivered'[j] <= high'[j] /\ high'[j] <= Len(chosen')
             /\ \A k \in Key : \E x \in Nat : x <= high'[j] /\ db'[j][k] = ValueAt(k, x)'
             /\ \A k \in Key \ skipped'[j] :
                  \E x \in Nat : delivered'[j] <= x /\ x <= high'[j] /\ db'[j][k] = ValueAt(k, x)'
  <2>1. /\ delivered'[j] = delivered[j] /\ high'[j] = high[j]
        /\ db'[j] = db[j] /\ skipped'[j] = skipped[j]
    BY <1>1, <1>4, <1>5, HighFacts
  <2>. QED BY <1>0, <1>1, <1>2, <1>4, <2>1, EngineKept
<1>9. delivered'[i] = delivered[i] + 1 /\ delivered'[i] <= high'[i] /\ high'[i] <= Len(chosen')
  BY <1>1, <1>2, <1>5, <1>6, <1>7
<1>10. ASSUME NEW x \in Nat, x <= high[i], NEW k PROVE ValueAt(k, x)' = ValueAt(k, x)
  <2>1. \A m \in 1..x : chosen'[m] = chosen[m]
    BY <1>1, <1>6, <1>5, <1>10
  <2>. QED BY <1>4, <2>1, ValueAtKept
<1>11. PICK d \in Nat : d = delivered[i]
  BY <1>1
<1>12. ASSUME NEW k
       PROVE  ValueAt(k, d + 1)' = IF WritesKey(r, k) THEN Left(r) ELSE ValueAt(k, d)
  <2>1. ValueAt(k, d + 1)' = IF WritesKey(r, k) THEN Left(r) ELSE ValueAt(k, d)'
    BY <1>3, <1>4, <1>11, ValueAtNext
  <2>2. ValueAt(k, d)' = ValueAt(k, d)
    BY <1>6, <1>10, <1>11
  <2>. QED BY <2>1, <2>2
<1>13. ASSUME NEW k \in Key, WritesKey(r, k), db'[i][k] = Left(r)
       PROVE  \E x \in Nat : delivered'[i] <= x /\ x <= high'[i] /\ db'[i][k] = ValueAt(k, x)'
  <2>1. db'[i][k] = ValueAt(k, d + 1)' /\ d + 1 \in Nat
    BY <1>12, <1>13
  <2>. QED BY <1>7, <1>9, <1>11, <2>1
<1>14. ASSUME NEW k \in Key, ~WritesKey(r, k), db'[i][k] = db[i][k], k \notin skipped[i]
       PROVE  \E x \in Nat : delivered'[i] <= x /\ x <= high'[i] /\ db'[i][k] = ValueAt(k, x)'
  <2>1. PICK x \in Nat : delivered[i] <= x /\ x <= high[i] /\ db[i][k] = ValueAt(k, x)
    BY <1>14 DEF EngineInLog
  <2>2. CASE x = d
    <3>1. db'[i][k] = ValueAt(k, d + 1)' /\ d + 1 \in Nat
      BY <1>12, <1>14, <2>1, <2>2
    <3>. QED BY <1>7, <1>9, <1>11, <3>1
  <2>3. CASE x # d
    <3>1. db'[i][k] = ValueAt(k, x)'
      BY <1>10, <1>14, <2>1
    <3>2. d + 1 <= x
      BY <1>11, <2>1, <2>3
    <3>3. x <= high'[i]
      <4>1. high[i] \in Nat /\ high'[i] \in Nat /\ high'[i] >= high[i]
        BY <1>5, <1>7
      <4>. QED BY <2>1, <4>1
    <3>. QED BY <1>9, <1>11, <3>1, <3>2, <3>3
  <2>. QED BY <2>2, <2>3
<1>15. ASSUME NEW k \in Key, db'[i][k] = db[i][k]
       PROVE  \E x \in Nat : x <= high'[i] /\ db'[i][k] = ValueAt(k, x)'
  <2>1. PICK x \in Nat : x <= high[i] /\ db[i][k] = ValueAt(k, x)
    BY <1>15 DEF EngineInLog
  <2>2. db'[i][k] = ValueAt(k, x)'
    BY <1>10, <1>15, <2>1
  <2>3. x <= high'[i]
    BY <1>5, <1>7, <2>1
  <2>. QED BY <2>2, <2>3
<1>16. /\ \A k \in Key : \E x \in Nat : x <= high'[i] /\ db'[i][k] = ValueAt(k, x)'
       /\ \A k \in Key \ skipped'[i] :
             \E x \in Nat : delivered'[i] <= x /\ x <= high'[i] /\ db'[i][k] = ValueAt(k, x)'
       /\ errors' = 0 => \A j \in Server : skipped'[j] = {}
  <2>1. CASE /\ db' = [db EXCEPT ![i] = Applied(i, r)]
             /\ skipped' = [skipped EXCEPT ![i] =
                   IF Operation(r) = "GET" THEN @ ELSE @ \ {KeyOf(r)}]
             /\ errors' = errors
    <3>1. \A k \in Key : db'[i][k] = IF WritesKey(r, k) THEN Left(r) ELSE db[i][k]
      <4>1. db'[i] = Applied(i, r)
        BY <1>5, <2>1
      <4>. QED BY <1>0, <1>4, <4>1, AppliedType
    <3>2. ASSUME NEW k \in Key \ skipped'[i], ~WritesKey(r, k) PROVE k \notin skipped[i]
      BY <1>4, <1>5, <2>1, <3>2 DEF WritesKey
    <3>3. ASSUME NEW k \in Key PROVE \E x \in Nat : x <= high'[i] /\ db'[i][k] = ValueAt(k, x)'
      BY <1>13, <1>15, <3>1
    <3>4. ASSUME NEW k \in Key \ skipped'[i]
          PROVE  \E x \in Nat : delivered'[i] <= x /\ x <= high'[i] /\ db'[i][k] = ValueAt(k, x)'
      BY <1>13, <1>14, <3>1, <3>2
    <3>5. errors' = 0 => \A j \in Server : skipped'[j] = {}
      BY <1>5, <2>1 DEF EngineInLog
    <3>. QED BY <3>3, <3>4, <3>5
  <2>2. CASE /\ Operation(r) # "GET" /\ errors' = errors + 1
             /\ skipped' = [skipped EXCEPT ![i] = @ \cup {KeyOf(r)}]
             /\ db' = db
    <3>1. ASSUME NEW k \in Key \ skipped'[i] PROVE ~WritesKey(r, k) /\ k \notin skipped[i]
      BY <1>5, <2>2 DEF WritesKey
    <3>2. ASSUME NEW k \in Key \ skipped'[i]
          PROVE  \E x \in Nat : delivered'[i] <= x /\ x <= high'[i] /\ db'[i][k] = ValueAt(k, x)'
      BY <1>14, <2>2, <3>1
    <3>3. errors' # 0
      BY <1>5, <2>2
    <3>. QED BY <1>15, <2>2, <3>2, <3>3
  <2>. QED BY <1>4, <2>1, <2>2
<1>17. ASSUME NEW j \in Server
       PROVE  /\ delivered'[j] <= high'[j] /\ high'[j] <= Len(chosen')
              /\ \A k \in Key : \E x \in Nat : x <= high'[j] /\ db'[j][k] = ValueAt(k, x)'
              /\ \A k \in Key \ skipped'[j] :
                   \E x \in Nat : delivered'[j] <= x /\ x <= high'[j] /\ db'[j][k] = ValueAt(k, x)'
  BY <1>8, <1>9, <1>16
<1>. QED BY <1>16, <1>17 DEF EngineInLog

\* A crash leaves of every key what it held or what the log held earlier.
LEMMA EngineCrash ==
    ASSUME BaseInv, EngineInLog, Crash
    PROVE  EngineInLog'
<1>0. TypeOK /\ Shape
  BY DEF BaseInv
<1>1. /\ delivered' = [i \in Server |-> 0] /\ UNCHANGED <<chosen, program, errors, high>>
      /\ skipped' = [i \in Server |-> {}]
  BY DEF Crash, Raft!Restart, requestVars
<1>2. ASSUME NEW i \in Server PROVE 0 <= high[i] /\ high[i] <= Len(chosen) /\ high[i] \in Nat
  BY <1>0 DEF Shape, EngineInLog
<1>3. ASSUME NEW x \in Nat, NEW k PROVE ValueAt(k, x)' = ValueAt(k, x)
  <2>1. \A m \in 1..x : chosen'[m] = chosen[m]
    BY <1>1
  <2>. QED BY <1>1, <2>1, ValueAtKept
<1>4. ASSUME NEW i \in Server, NEW k \in Key
      PROVE  \E x \in Nat : x <= high[i] /\ db'[i][k] = ValueAt(k, x)
  <2>1. CASE db' = db
    BY <2>1 DEF EngineInLog
  <2>2. ASSUME NEW old \in [Server -> [Key -> 0..Len(chosen)]],
               \A j \in Server, l \in Key : old[j][l] <= high[j],
               db' = [j \in Server |-> [l \in Key |-> ValueAt(l, old[j][l])]]
        PROVE  \E x \in Nat : x <= high[i] /\ db'[i][k] = ValueAt(k, x)
    <3>1. Len(chosen) \in Nat
      BY <1>0 DEF TypeOK
    <3>2. old[i][k] \in Nat /\ old[i][k] <= high[i]
      BY <2>2, <3>1
    <3>3. db'[i][k] = ValueAt(k, old[i][k])
      BY <2>2
    <3>. QED BY <3>2, <3>3
  <2>. QED BY <2>1, <2>2 DEF Crash
<1>5. ASSUME NEW i \in Server, NEW k \in Key
      PROVE  \E x \in Nat : 0 <= x /\ x <= high'[i] /\ db'[i][k] = ValueAt(k, x)'
  <2>1. PICK x \in Nat : x <= high[i] /\ db'[i][k] = ValueAt(k, x)
    BY <1>4
  <2>2. db'[i][k] = ValueAt(k, x)' /\ 0 <= x /\ x <= high'[i]
    BY <1>1, <1>3, <2>1
  <2>. QED BY <2>2
<1>6. \A i \in Server : delivered'[i] = 0 /\ high'[i] = high[i] /\ skipped'[i] = {}
  BY <1>1
<1>. QED BY <1>1, <1>2, <1>5, <1>6 DEF EngineInLog

\* Every step keeps what the engines hold in step with the log.
LEMMA EngineNext ==
    ASSUME BaseInv, EngineInLog, [Next]_vars
    PROVE  EngineInLog'
<1>0. TypeOK /\ Shape
  BY DEF BaseInv
<1>1. ASSUME NEW c \in Client, Arrive(c) \/ RequestStep(c) PROVE EngineInLog'
  BY <1>0, <1>1, HandlerFrame, EngineStutter
<1>2. ASSUME NEW i \in Server, Notify(i) PROVE EngineInLog'
  BY <1>0, <1>2, EngineStutter DEF Notify, logVars, requestVars, storeHist, boundVars
<1>3. CASE UNCHANGED vars
  BY <1>0, <1>3, EngineStutter DEF vars, logVars, requestVars, storeVars, storeHist, boundVars
<1>. QED BY <1>1, <1>2, <1>3, EngineApply, EngineCrash DEF Next, ApplyStep

\* The engines are empty, and so is the log.
LEMMA EngineInit == Init => EngineInLog
<1>. SUFFICES ASSUME Init PROVE EngineInLog
  OBVIOUS
<1>1. chosen = <<>> /\ delivered = [i \in Server |-> 0] /\ Len(chosen) = 0
  BY DEF Init, Raft!LogInit
<1>2. ASSUME NEW k PROVE ValueAt(k, 0) = Nil
  <2>1. WritesOf(k, 0) = {}
    BY DEF WritesOf
  <2>. QED BY <2>1 DEF ValueAt
<1>3. /\ high = [i \in Server |-> 0] /\ skipped = [i \in Server |-> {}]
      /\ db = [i \in Server |-> [k \in Key |-> Nil]]
  BY DEF Init
<1>4. ASSUME NEW i \in Server, NEW k \in Key PROVE 0 <= high[i] /\ delivered[i] <= 0 /\ db[i][k] = ValueAt(k, 0)
  BY <1>1, <1>2, <1>3
<1>5. \A i \in Server : delivered[i] <= high[i] /\ high[i] <= Len(chosen)
  BY <1>1, <1>3
<1>. QED BY <1>3, <1>4, <1>5 DEF EngineInLog

\* What the engines hold comes from the log, through refused writes, crashes and replays.
THEOREM EngineInvariant == Spec => [](BaseInv /\ EngineInLog)
<1>1. Init => BaseInv /\ EngineInLog
  BY BaseInvInit, EngineInit
<1>2. BaseInv /\ EngineInLog /\ [Next]_vars => (BaseInv /\ EngineInLog)'
  BY BaseInvNext, EngineNext
<1>. QED BY <1>1, <1>2, PTL DEF Spec

\* A replay from the first entry makes an engine the map that the log describes once it
\* has reached what it had applied before the crash, whatever the crash left behind.
THEOREM ReplayHealsCorrect == Spec => []ReplayHeals
<1>1. BaseInv /\ EngineInLog => ReplayHeals
  <2>. SUFFICES ASSUME BaseInv, EngineInLog, NEW i \in Server, delivered[i] >= high[i],
                       NEW k \in Key \ skipped[i]
       PROVE  db[i][k] = ValueAt(k, delivered[i])
    BY DEF ReplayHeals
  <2>1. PICK x \in Nat : delivered[i] <= x /\ x <= high[i] /\ db[i][k] = ValueAt(k, x)
    BY DEF EngineInLog
  <2>2. delivered[i] \in Nat /\ high[i] \in Nat
    BY DEF BaseInv, Shape
  <2>3. x = delivered[i]
    BY <2>1, <2>2
  <2>. QED BY <2>1, <2>3
<1>. QED BY <1>1, EngineInvariant, PTL

-----------------------------------------------------------------------------
(* Answers: the operation in the log, the reply, the channel, the result.    *)

\* What a GET at an index below the end of the log has read stays what it has to read.
LEMMA ReadsKept ==
    ASSUME program' = program, errors' = 0 => errors = 0, NEW n \in Nat, n >= 1,
           \A m \in 1..n : chosen'[m] = chosen[m], NEW r, NEW v, Reads(r, n, v)
    PROVE  Reads(r, n, v)'
<1>1. n - 1 \in Nat /\ \A m \in 1..(n - 1) : chosen'[m] = chosen[m]
  OBVIOUS
<1>2. PICK x \in Nat : x = n - 1
  BY <1>1
<1>3. PICK k : k = KeyOf(r)
  OBVIOUS
<1>4. Operation(r)' = Operation(r) /\ KeyOf(r)' = k
  BY <1>3, SameProgram
<1>5. ValueAt(k, x)' = ValueAt(k, x)
  BY <1>1, <1>2, ValueAtKept
<1>6. ValueAt(KeyOf(r), n - 1)' = ValueAt(k, x)'
  BY <1>2, <1>4 DEF ValueAt, WritesOf
<1>7. ValueAt(KeyOf(r), n - 1) = ValueAt(k, x)
  BY <1>2, <1>3
<1>. QED BY <1>4, <1>5, <1>6, <1>7 DEF Reads

\* A handler's step makes no operation an entry of the log.
LEMMA WonHandler ==
    ASSUME BaseInv, NEW c \in Client, Arrive(c) \/ RequestStep(c), NEW d \in Client, Won(d)'
    PROVE  /\ Won(d) /\ index'[d] = index[d] /\ node'[d] = node[d] /\ floor'[d] = floor[d]
           /\ turn'[d] = turn[d]
<1>0. TypeOK /\ Shape /\ ProposedOnce
  BY DEF BaseInv
<1>1. chosen' = chosen
  BY HandlerFrame
<1>2. CASE d # c
  <2>1. /\ turn'[d] = turn[d] /\ stage'[d] = stage[d] /\ index'[d] = index[d]
        /\ node'[d] = node[d] /\ floor'[d] = floor[d]
    BY <1>2, HandlerFrame
  <2>. QED BY <1>1, <2>1 DEF Won, OpOf
<1>3. CASE d = c
  <2>1. stage'[c] \in Live /\ index'[c] \in DOMAIN chosen /\ chosen[index'[c]] = OpOf(c)'
    BY <1>1, <1>3 DEF Won
  <2>2. CASE CallLeader(c)
    <3>1. stage[c] = "call" /\ turn' = turn
      BY <2>2 DEF CallLeader
    <3>2. \A p \in proposed : p[2] # OpOf(c)
      BY <1>0, <3>1 DEF ProposedOnce
    <3>3. <<index'[c], OpOf(c)>> \in proposed
      BY <1>0, <2>1, <3>1 DEF ProposedOnce, OpOf
    <3>4. PICK p \in proposed : p = <<index'[c], OpOf(c)>>
      BY <3>3
    <3>. QED BY <3>2, <3>4
  <2>3. CASE Register(c) \/ Wake(c) \/ Timeout(c)
    <3>1. UNCHANGED <<index, node, floor, turn>> /\ stage[c] \in Live
      BY <2>3 DEF Register, Wake, Timeout, requestVars, clientHist, Live
    <3>. QED BY <1>3, <2>1, <3>1 DEF Won, OpOf
  <2>4. CASE Arrive(c) \/ CallFollower(c) \/ Leave(c) \/ LocalCheck(c) \/ LocalRead(c)
    <3>1. stage'[c] \in {"call", "done", "read"}
      BY <1>0, <2>4 DEF Arrive, CallFollower, Leave, LocalCheck, LocalRead, TypeOK
    <3>. QED BY <2>1, <3>1 DEF Live
  <2>. QED BY <2>2, <2>3, <2>4 DEF RequestStep
<1>. QED BY <1>2, <1>3

\* The entry that a step adds is at the end, where its node delivers it.
LEMMA WonApply ==
    ASSUME BaseInv, NEW i \in Server, Apply(i), NEW d \in Client
    PROVE  /\ UNCHANGED <<index, node, floor, turn, stage>>
           /\ Won(d)' => Won(d) \/ index[d] = Len(chosen) + 1
<1>0. TypeOK /\ Shape /\ ProposedOnce
  BY DEF BaseInv
<1>1. UNCHANGED <<index, node, floor, turn, stage>>
  BY DEF Apply, requestVars, clientHist
<1>2. DOMAIN chosen = 1..Len(chosen) /\ DOMAIN chosen' = 1..Len(chosen')
  BY <1>0, DeliverFacts
<1>3. ASSUME Won(d)' PROVE Won(d) \/ index[d] = Len(chosen) + 1
  <2>1. stage[d] \in Live /\ index[d] \in 1..Len(chosen') /\ chosen'[index[d]] = OpOf(d)
    BY <1>1, <1>2, <1>3 DEF Won, OpOf
  <2>2. index[d] \in 1..Len(chosen) \/ index[d] = Len(chosen) + 1
    <3>1. /\ Len(chosen) \in Nat /\ Len(chosen') \in Nat
          /\ Len(chosen') = Len(chosen) \/ Len(chosen') = Len(chosen) + 1
      BY <1>0, DeliverFacts
    <3>. QED BY <2>1, <3>1
  <2>3. ASSUME index[d] \in 1..Len(chosen) PROVE Won(d)
    <3>1. chosen'[index[d]] = chosen[index[d]]
      BY <1>0, <2>3, DeliverFacts
    <3>2. index[d] \in DOMAIN chosen
      BY <1>2, <2>3
    <3>. QED BY <2>1, <3>1, <3>2 DEF Won
  <2>. QED BY <2>2, <2>3
<1>. QED BY <1>1, <1>3

\* An operation that is waited for is not a local read.
LEMMA LiveIsLogged ==
    ASSUME BaseInv, NEW c \in Client, stage[c] \in Live
    PROVE  Operation(OpOf(c)) # "LOCAL"
<1>0. TypeOK /\ Shape /\ ProposedOnce
  BY DEF BaseInv
<1>1. <<index[c], OpOf(c)>> \in proposed
  BY DEF BaseInv, Handlers, Handles
<1>2. PICK p \in proposed : p = <<index[c], OpOf(c)>>
  BY <1>1
<1>3. Operation(p[2]) \in {"PUT", "DELETE", "GET"}
  BY <1>0, EntryType
<1>. QED BY <1>2, <1>3

\* Every step keeps operations behind what was answered before them.
LEMMA WonNext ==
    ASSUME BaseInv, EngineInLog, WonIsNew, Linearizable, [Next]_vars
    PROVE  WonIsNew'
<1>0. TypeOK /\ Shape /\ ProposedOnce
  BY DEF BaseInv
<1>1. acked \in Nat /\ floor \in [Client -> Nat] /\ Len(chosen) \in Nat /\ DOMAIN chosen = 1..Len(chosen)
  BY <1>0 DEF TypeOK, Shape
<1>2. ASSUME NEW c \in Client, Arrive(c) \/ RequestStep(c) PROVE WonIsNew'
  <2>1. UNCHANGED <<chosen, delivered, high>>
    BY <1>2, HandlerFrame
  <2>2. acked' <= Len(chosen)
    <3>1. CASE acked' = acked
      BY <3>1 DEF WonIsNew
    <3>2. CASE Leave(c) /\ result[c] = "ok"
      <4>1. acked' = Greatest({acked, index[c]}) /\ stage[c] \in Live
        BY <3>2 DEF Leave, Live
      <4>2. Operation(OpOf(c)) # "LOCAL"
        BY <4>1, LiveIsLogged
      <4>3. index[c] \in 1..Len(chosen)
        BY <1>1, <3>2, <4>2 DEF Linearizable
      <4>4. acked' \in {acked, index[c]}
        <5>1. index[c] \in Nat
          BY <4>3
        <5>. QED BY <1>1, <4>1, <5>1, GreatestOfTwo
      <4>. QED BY <1>1, <4>3, <4>4 DEF WonIsNew
    <3>3. acked' = acked \/ (Leave(c) /\ result[c] = "ok")
      <4>1. CASE Leave(c)
        <5>1. acked' = IF result[c] = "ok" THEN Greatest({acked, index[c]}) ELSE acked
          BY <4>1 DEF Leave
        <5>. QED BY <4>1, <5>1
      <4>2. CASE Arrive(c) \/ CallLeader(c) \/ CallFollower(c) \/ Register(c) \/ Wake(c)
        <5>1. acked' = acked
          BY <4>2 DEF Arrive, CallLeader, CallFollower, Register, Wake
        <5>. QED BY <5>1
      <4>3. CASE Timeout(c) \/ LocalCheck(c) \/ LocalRead(c)
        <5>1. acked' = acked
          BY <4>3 DEF Timeout, LocalCheck, LocalRead, clientHist
        <5>. QED BY <5>1
      <4>. QED BY <1>2, <4>1, <4>2, <4>3 DEF RequestStep
    <3>. QED BY <3>1, <3>2, <3>3
  <2>3. ASSUME NEW d \in Client PROVE floor'[d] <= Len(chosen)
    <3>1. floor'[d] \in {floor[d], acked, 0}
      BY <1>1, <1>2 DEF RequestStep, Arrive, CallLeader, CallFollower, Register, Wake, Timeout, Leave,
                  LocalCheck, LocalRead, clientHist
    <3>. QED BY <1>1, <3>1 DEF WonIsNew
  <2>4. ASSUME NEW d \in Client, Won(d)'
        PROVE  index'[d] > floor'[d] /\ (delivered'[node'[d]] < index'[d] => high'[node'[d]] < index'[d])
    BY <1>2, <2>1, <2>4, WonHandler DEF WonIsNew
  <2>. QED BY <2>1, <2>2, <2>3, <2>4 DEF WonIsNew
<1>3. ASSUME NEW i \in Server, Apply(i) PROVE WonIsNew'
  <2>1. /\ Len(chosen') \in Nat /\ delivered[i] \in Nat
        /\ Len(chosen') = Len(chosen) \/ Len(chosen') = Len(chosen) + 1
        /\ delivered' = [delivered EXCEPT ![i] = delivered[i] + 1]
    BY <1>0, <1>3, DeliverFacts
  <2>2. Len(chosen) <= Len(chosen') /\ UNCHANGED <<acked, floor>>
    BY <1>1, <1>3, <2>1 DEF Apply, clientHist
  <2>3. acked' <= Len(chosen')
    BY <1>1, <2>1, <2>2 DEF WonIsNew
  <2>4. ASSUME NEW d \in Client PROVE floor'[d] <= Len(chosen')
    BY <1>1, <2>1, <2>2 DEF WonIsNew
  <2>5. ASSUME NEW d \in Client, Won(d)'
        PROVE  index'[d] > floor'[d] /\ (delivered'[node'[d]] < index'[d] => high'[node'[d]] < index'[d])
    <3>1. UNCHANGED <<index, node, floor>> /\ (Won(d) \/ index[d] = Len(chosen) + 1)
      BY <1>3, <2>5, WonApply
    <3>2. PICK j \in Server : j = node[d]
      BY <1>0 DEF TypeOK
    <3>3. index[d] \in Nat /\ floor[d] \in Nat
      BY <1>0, BoundAssumption DEF TypeOK, Shape
    <3>4. /\ high[j] \in Nat /\ high[j] <= Len(chosen) /\ delivered[j] \in Nat
          /\ floor[d] <= Len(chosen)
      BY <1>0 DEF Shape, EngineInLog, WonIsNew
    <3>5. index[d] > floor[d] /\ (delivered[j] < index[d] => high[j] < index[d])
      <4>1. CASE Won(d)
        BY <3>2, <4>1 DEF WonIsNew
      <4>2. CASE index[d] = Len(chosen) + 1
        BY <1>1, <3>3, <3>4, <4>2
      <4>. QED BY <3>1, <4>1, <4>2
    <3>6. delivered'[j] < index[d] => high'[j] < index[d]
      <4>1. CASE j = i
        <5>1. /\ high'[i] = delivered[i] + 1 \/ high'[i] = high[i]
              /\ delivered'[i] = delivered[i] + 1
          BY <1>0, <1>3, <2>1, HighFacts DEF Shape
        <5>. QED BY <3>3, <3>4, <3>5, <4>1, <5>1
      <4>2. CASE j # i
        <5>1. high'[j] = high[j] /\ delivered'[j] = delivered[j]
          BY <1>0, <1>3, <2>1, <4>2, HighFacts DEF Shape
        <5>. QED BY <3>5, <5>1
      <4>. QED BY <4>1, <4>2
    <3>. QED BY <3>1, <3>2, <3>5, <3>6
  <2>. QED BY <2>3, <2>4, <2>5 DEF WonIsNew
<1>4. ASSUME UNCHANGED <<chosen, delivered, high, acked, floor, index, node, turn, stage>>
      PROVE  WonIsNew'
  BY <1>4 DEF WonIsNew, Won, OpOf
<1>5. ASSUME NEW i \in Server, Notify(i) PROVE WonIsNew'
  BY <1>4, <1>5 DEF Notify, logVars, requestVars, storeHist, clientHist
<1>6. CASE Crash
  <2>1. UNCHANGED <<chosen, acked, floor>> /\ \A c \in Client : stage'[c] = "done"
    BY <1>6 DEF Crash, Raft!Restart, clientHist
  <2>. QED BY <2>1 DEF WonIsNew, Won, Live
<1>7. CASE UNCHANGED vars
  BY <1>4, <1>7 DEF vars, logVars, requestVars, storeHist, clientHist
<1>. QED BY <1>2, <1>3, <1>5, <1>6, <1>7 DEF Next, ApplyStep

\* Reads of the next state, said of the values there.
LEMMA ReadsNow ==
    ASSUME NEW r, NEW n, NEW v, Reads(r, n, v)'
    PROVE  /\ \A i \in Server : reply'[i].op = r /\ delivered'[i] = n /\ reply'[i].value = v
                  => Reads(reply[i].op, delivered[i], reply[i].value)'
           /\ \A c \in Client : OpOf(c)' = r /\ index'[c] = n /\ mailbox'[c].value = v
                  => Reads(OpOf(c), index[c], mailbox[c].value)'
           /\ \A c \in Client : OpOf(c)' = r /\ index'[c] = n /\ value'[c] = v
                  => Reads(OpOf(c), index[c], value[c])'
<1>1. PICK k, x : k = KeyOf(r)' /\ x = n - 1
  OBVIOUS
<1>2. Operation(r)' = "GET" /\ errors' = 0 => v = ValueAt(k, x)'
  <2>1. ValueAt(KeyOf(r), n - 1)' = ValueAt(k, x)'
    BY <1>1 DEF ValueAt, WritesOf
  <2>. QED BY <2>1 DEF Reads
<1>3. ASSUME NEW i \in Server, reply'[i].op = r, delivered'[i] = n, reply'[i].value = v
      PROVE  Reads(reply[i].op, delivered[i], reply[i].value)'
  <2>1. KeyOf(reply[i].op)' = k /\ Operation(reply[i].op)' = Operation(r)' /\ (delivered[i] - 1)' = x
    BY <1>1, <1>3 DEF KeyOf, Operation
  <2>2. ValueAt(KeyOf(reply[i].op), delivered[i] - 1)' = ValueAt(k, x)'
    BY <2>1 DEF ValueAt, WritesOf
  <2>. QED BY <1>2, <1>3, <2>1, <2>2 DEF Reads
<1>4. ASSUME NEW c \in Client, OpOf(c)' = r, index'[c] = n, mailbox'[c].value = v
      PROVE  Reads(OpOf(c), index[c], mailbox[c].value)'
  <2>1. KeyOf(OpOf(c))' = k /\ Operation(OpOf(c))' = Operation(r)' /\ (index[c] - 1)' = x
    BY <1>1, <1>4 DEF KeyOf, Operation
  <2>2. ValueAt(KeyOf(OpOf(c)), index[c] - 1)' = ValueAt(k, x)'
    BY <2>1 DEF ValueAt, WritesOf
  <2>. QED BY <1>2, <1>4, <2>1, <2>2 DEF Reads
<1>5. ASSUME NEW c \in Client, OpOf(c)' = r, index'[c] = n, value'[c] = v
      PROVE  Reads(OpOf(c), index[c], value[c])'
  <2>1. KeyOf(OpOf(c))' = k /\ Operation(OpOf(c))' = Operation(r)' /\ (index[c] - 1)' = x
    BY <1>1, <1>5 DEF KeyOf, Operation
  <2>2. ValueAt(KeyOf(OpOf(c)), index[c] - 1)' = ValueAt(k, x)'
    BY <2>1 DEF ValueAt, WritesOf
  <2>. QED BY <1>2, <1>5, <2>1, <2>2 DEF Reads
<1>. QED BY <1>3, <1>4, <1>5

\* Every step keeps the reply of an apply loop the outcome of the entry it has taken.
LEMMA RepliesNext ==
    ASSUME BaseInv, EngineInLog, WonIsNew, RepliesMatch, [Next]_vars
    PROVE  RepliesMatch'
<1>0. TypeOK /\ Shape /\ ProposedOnce
  BY DEF BaseInv
<1>1. chosen \in Seq(Request) /\ Len(chosen) \in Nat /\ DOMAIN chosen = 1..Len(chosen)
  BY <1>0 DEF TypeOK
<1>. DEFINE Fits(i) ==
         /\ delivered[i] \in DOMAIN chosen
         /\ reply[i].op = chosen[delivered[i]]
         /\ reply[i].err => Operation(reply[i].op) # "GET"
         /\ (\E c \in Client : Won(c) /\ node[c] = i /\ index[c] = delivered[i])
               => Reads(reply[i].op, delivered[i], reply[i].value)
<1>2. ASSUME NEW i \in Server, reply'[i] = reply[i], reply[i] # Nil, delivered'[i] = delivered[i],
             program' = program, errors' = 0 => errors = 0, DOMAIN chosen \subseteq DOMAIN chosen',
             \A m \in 1..Len(chosen) : chosen'[m] = chosen[m],
             \A c \in Client : Won(c)' /\ index'[c] \in DOMAIN chosen =>
                                   Won(c) /\ node'[c] = node[c] /\ index'[c] = index[c]
      PROVE  Fits(i)'
  <2>1. Fits(i)
    BY <1>2 DEF RepliesMatch
  <2>2. PICK n \in Nat : n = delivered[i] /\ n \in DOMAIN chosen /\ n >= 1 /\ n <= Len(chosen)
    BY <1>1, <2>1
  <2>3. /\ delivered'[i] \in DOMAIN chosen' /\ reply'[i].op = chosen'[delivered'[i]]
        /\ reply'[i].err => Operation(reply[i].op)' # "GET"
    <3>1. Operation(reply[i].op)' = Operation(reply[i].op)
      BY <1>2 DEF Operation
    <3>. QED BY <1>1, <1>2, <2>1, <3>1
  <2>4. ASSUME NEW c \in Client, Won(c)', node'[c] = i, index'[c] = delivered'[i]
        PROVE  Reads(reply[i].op, delivered[i], reply[i].value)'
    <3>1. PICK r, v : r = reply[i].op /\ v = reply[i].value
      OBVIOUS
    <3>2. Won(c) /\ node[c] = i /\ index[c] = delivered[i]
      BY <1>2, <2>2, <2>4
    <3>3. Reads(r, n, v)
      BY <2>1, <2>2, <3>1, <3>2
    <3>4. \A m \in 1..n : chosen'[m] = chosen[m]
      BY <1>1, <1>2, <2>2
    <3>5. Reads(r, n, v)'
      BY <1>2, <2>2, <3>3, <3>4, ReadsKept
    <3>. QED BY <1>2, <2>2, <3>1, <3>5, ReadsNow
  <2>. QED BY <2>3, <2>4
<1>3. ASSUME NEW c \in Client, Arrive(c) \/ RequestStep(c) PROVE RepliesMatch'
  <2>1. UNCHANGED <<chosen, delivered, reply, errors, program>>
    BY <1>3, HandlerFrame
  <2>2. ASSUME NEW d \in Client, Won(d)' PROVE Won(d) /\ node'[d] = node[d] /\ index'[d] = index[d]
    BY <1>3, <2>2, WonHandler
  <2>3. ASSUME NEW i \in Server, reply'[i] # Nil PROVE Fits(i)'
    BY <1>2, <2>1, <2>2, <2>3
  <2>. QED BY <2>3 DEF RepliesMatch
<1>4. ASSUME NEW i \in Server, Apply(i) PROVE RepliesMatch'
  <2>1. /\ delivered[i] \in Nat /\ delivered[i] + 1 \in 1..Len(chosen')
        /\ \A m \in 1..Len(chosen) : chosen'[m] = chosen[m]
        /\ delivered' = [delivered EXCEPT ![i] = delivered[i] + 1]
    BY <1>0, <1>4, DeliverFacts
  <2>2. DOMAIN chosen' = 1..Len(chosen')
    BY <1>0, <1>4, DeliverFacts
  <2>3. DOMAIN chosen \subseteq DOMAIN chosen'
    <3>1. /\ Len(chosen') \in Nat
          /\ Len(chosen') = Len(chosen) \/ Len(chosen') = Len(chosen) + 1
      BY <1>0, <1>4, DeliverFacts
    <3>2. 1..Len(chosen) \subseteq 1..Len(chosen')
      BY <1>1, <3>1
    <3>. QED BY <1>1, <2>2, <3>2
  <2>4. /\ delivered \in [Server -> Nat] /\ reply \in [Server -> OpResult \cup {Nil}] /\ errors \in Nat
        /\ high[i] \in Nat
    BY <1>0 DEF Shape, TypeOK
  <2>5. PICK r : r = chosen'[delivered[i] + 1]
    OBVIOUS
  <2>6. UNCHANGED <<program, node, index, turn, stage>>
    BY <1>4 DEF Apply, requestVars
  <2>7. \/ /\ reply' = [reply EXCEPT ![i] =
                  [op |-> r, err |-> FALSE,
                   value |-> IF Operation(r) = "GET" THEN db[i][KeyOf(r)] ELSE Nil]]
           /\ errors' = errors
        \/ /\ Operation(r) # "GET" /\ errors' = errors + 1
           /\ reply' = [reply EXCEPT ![i] = [op |-> r, err |-> TRUE, value |-> Nil]]
    BY <1>4, <2>5, ApplyFacts
  <2>8. KeyOf(r) \in Key
    BY <1>4, <2>5, ApplyFacts
  <2>9. ASSUME NEW j \in Server \ {i}, reply'[j] # Nil PROVE Fits(j)'
    <3>1. reply'[j] = reply[j] /\ delivered'[j] = delivered[j]
      BY <2>1, <2>4, <2>7
    <3>2. ASSUME NEW c \in Client, Won(c)', index'[c] \in DOMAIN chosen
          PROVE  Won(c) /\ node'[c] = node[c] /\ index'[c] = index[c]
      <4>1. Won(c) \/ index[c] = Len(chosen) + 1
        BY <1>4, <3>2, WonApply
      <4>2. index[c] # Len(chosen) + 1
        BY <1>1, <2>6, <3>2
      <4>. QED BY <2>6, <4>1, <4>2
    <3>3. errors' = 0 => errors = 0
      BY <2>4, <2>7
    <3>. QED BY <1>2, <2>1, <2>3, <2>6, <2>9, <3>1, <3>2, <3>3
  <2>10. Fits(i)'
    <3>1. delivered'[i] = delivered[i] + 1 /\ reply'[i].op = r
      BY <2>1, <2>4, <2>7
    <3>2. /\ delivered'[i] \in DOMAIN chosen' /\ reply'[i].op = chosen'[delivered'[i]]
          /\ reply'[i].err => Operation(reply[i].op)' # "GET"
      <4>1. Operation(reply[i].op)' = Operation(r)
        BY <2>6, <3>1 DEF Operation
      <4>2. reply'[i].err => Operation(r) # "GET"
        BY <2>4, <2>7
      <4>. QED BY <2>1, <2>2, <2>5, <3>1, <4>1, <4>2
    <3>3. ASSUME NEW c \in Client, Won(c)', node'[c] = i, index'[c] = delivered'[i]
          PROVE  Reads(reply[i].op, delivered[i], reply[i].value)'
      <4>1. PICK n \in Nat : n = delivered[i] + 1 /\ n >= 1
        BY <2>1
      <4>2. PICK v : v = reply'[i].value
        OBVIOUS
      <4>3. ASSUME Operation(r) = "GET", errors' = 0 PROVE v = ValueAt(KeyOf(r), delivered[i])
        <5>1. /\ reply'[i].value = db[i][KeyOf(r)] /\ errors = 0
          BY <2>4, <2>7, <4>3
        <5>2. high[i] < n
          <6>1. Won(c) \/ index[c] = Len(chosen) + 1
            BY <1>4, <3>3, WonApply
          <6>2. node[c] = i /\ index[c] = n /\ delivered[i] < n
            BY <2>1, <2>6, <3>1, <3>3, <4>1
          <6>3. Won(c) => high[i] < n
            BY <6>2 DEF WonIsNew
          <6>4. high[i] <= Len(chosen)
            BY DEF EngineInLog
          <6>. QED BY <1>1, <2>4, <6>1, <6>2, <6>3, <6>4
        <5>3. skipped[i] = {}
          BY <5>1 DEF EngineInLog
        <5>4. PICK x \in Nat : delivered[i] <= x /\ x <= high[i] /\ db[i][KeyOf(r)] = ValueAt(KeyOf(r), x)
          BY <2>8, <5>3 DEF EngineInLog
        <5>5. x = delivered[i]
          BY <2>1, <2>4, <4>1, <5>2, <5>4
        <5>. QED BY <4>2, <5>1, <5>4, <5>5
      <4>4. Reads(r, n, v)'
        <5>0. PICK x \in Nat : x = delivered[i] /\ x = n - 1
          BY <2>1, <4>1
        <5>1. PICK k : k = KeyOf(r) /\ x = delivered[i] /\ x = n - 1
          BY <5>0
        <5>2. \A m \in 1..x : chosen'[m] = chosen[m]
          <6>1. delivered[i] <= Len(chosen)
            BY <1>0 DEF TypeOK
          <6>. QED BY <1>1, <2>1, <5>1, <6>1
        <5>3. ValueAt(k, x)' = ValueAt(k, x)
          BY <2>6, <5>2, ValueAtKept
        <5>4. Operation(r)' = Operation(r) /\ KeyOf(r)' = k
          BY <2>6, <5>1, SameProgram
        <5>5. ValueAt(KeyOf(r), n - 1)' = ValueAt(k, x)'
          BY <5>1, <5>4 DEF ValueAt, WritesOf
        <5>. QED BY <4>3, <5>1, <5>3, <5>4, <5>5 DEF Reads
      <4>. QED BY <3>1, <4>1, <4>2, <4>4, ReadsNow
    <3>. QED BY <3>2, <3>3
  <2>. QED BY <2>9, <2>10 DEF RepliesMatch
<1>5. ASSUME UNCHANGED <<chosen, delivered, errors, program, node, index, turn, stage>>,
             \A i \in Server : reply'[i] # Nil => reply'[i] = reply[i]
      PROVE  RepliesMatch'
  <2>1. \A d \in Client : Won(d)' = Won(d)
    BY <1>5 DEF Won, OpOf
  <2>2. ASSUME NEW i \in Server, reply'[i] # Nil PROVE Fits(i)'
    BY <1>2, <1>5, <2>1, <2>2
  <2>. QED BY <2>2 DEF RepliesMatch
<1>6. ASSUME NEW i \in Server, Notify(i) PROVE RepliesMatch'
  <2>1. UNCHANGED <<chosen, delivered, errors, program, node, index, turn, stage>>
    BY <1>6 DEF Notify, logVars, requestVars, boundVars
  <2>2. \A j \in Server : reply'[j] # Nil => reply'[j] = reply[j]
    BY <1>0, <1>6 DEF Notify, TypeOK
  <2>. QED BY <1>5, <2>1, <2>2
<1>7. CASE Crash
  BY <1>7 DEF Crash, RepliesMatch
<1>8. CASE UNCHANGED vars
  BY <1>5, <1>8 DEF vars, logVars, requestVars, storeVars, boundVars
<1>. QED BY <1>3, <1>4, <1>6, <1>7, <1>8 DEF Next, ApplyStep

\* What the log holds is still there after a step, and errors are not forgotten.
LEMMA LogGrows ==
    ASSUME BaseInv, [Next]_vars
    PROVE  /\ program' = program
           /\ errors' = 0 => errors = 0
           /\ 1..Len(chosen) \subseteq 1..Len(chosen')
           /\ DOMAIN chosen = 1..Len(chosen) /\ DOMAIN chosen' = 1..Len(chosen')
           /\ \A m \in 1..Len(chosen) : chosen'[m] = chosen[m]
<1>0. TypeOK /\ Shape /\ ProposedOnce
  BY DEF BaseInv
<1>1. DOMAIN chosen = 1..Len(chosen) /\ Len(chosen) \in Nat /\ errors \in Nat
  BY <1>0 DEF TypeOK, Shape
<1>2. CASE UNCHANGED <<program, chosen, errors>>
  BY <1>1, <1>2
<1>3. ASSUME NEW i \in Server, Apply(i)
      PROVE  /\ program' = program /\ (errors' = 0 => errors = 0)
             /\ 1..Len(chosen) \subseteq 1..Len(chosen')
             /\ DOMAIN chosen' = 1..Len(chosen')
             /\ \A m \in 1..Len(chosen) : chosen'[m] = chosen[m]
  <2>1. DOMAIN chosen' = 1..Len(chosen') /\ \A m \in 1..Len(chosen) : chosen'[m] = chosen[m]
    BY <1>0, <1>3, DeliverFacts
  <2>2. /\ Len(chosen') \in Nat
        /\ Len(chosen') = Len(chosen) \/ Len(chosen') = Len(chosen) + 1
    BY <1>0, <1>3, DeliverFacts
  <2>3. 1..Len(chosen) \subseteq 1..Len(chosen')
    BY <1>1, <2>2
  <2>4. errors' = errors \/ errors' = errors + 1
    BY <1>3 DEF Apply
  <2>5. program' = program
    BY <1>3 DEF Apply, requestVars
  <2>. QED BY <1>1, <2>1, <2>3, <2>4, <2>5
<1>4. ASSUME NEW c \in Client, Arrive(c) \/ RequestStep(c) PROVE UNCHANGED <<program, chosen, errors>>
  BY <1>4, HandlerFrame
<1>5. ASSUME NEW i \in Server, Notify(i) PROVE UNCHANGED <<program, chosen, errors>>
  BY <1>5 DEF Notify, logVars, requestVars, boundVars
<1>6. CASE Crash
  <2>1. UNCHANGED <<program, chosen, errors>>
    BY <1>6 DEF Crash, Raft!Restart, requestVars
  <2>. QED BY <1>2, <2>1
<1>7. CASE UNCHANGED vars
  BY <1>2, <1>7 DEF vars, logVars, requestVars, boundVars
<1>. QED BY <1>1, <1>2, <1>3, <1>4, <1>5, <1>6, <1>7 DEF Next, ApplyStep

\* A GET that has read stays right as the log grows.
LEMMA ReadsGrow ==
    ASSUME BaseInv, [Next]_vars, NEW n \in DOMAIN chosen, NEW r, NEW v, Reads(r, n, v)
    PROVE  Reads(r, n, v)'
<1>1. /\ program' = program /\ (errors' = 0 => errors = 0) /\ n \in 1..Len(chosen)
      /\ \A m \in 1..Len(chosen) : chosen'[m] = chosen[m]
  BY LogGrows
<1>2. Len(chosen) \in Nat
  BY DEF BaseInv, TypeOK
<1>3. n \in Nat /\ n >= 1 /\ \A m \in 1..n : chosen'[m] = chosen[m]
  BY <1>1, <1>2
<1>. QED BY <1>1, <1>3, ReadsKept

\* Every step keeps what is in a channel the outcome of the entry at its index.
LEMMA MailNext ==
    ASSUME BaseInv, RepliesMatch, MailMatches, [Next]_vars
    PROVE  MailMatches'
<1>0. TypeOK /\ Shape /\ WaitChansOwned
  BY DEF BaseInv
<1>. DEFINE Fits(c) ==
         /\ stage[c] \in {"wait", "leave"}
         /\ index[c] \in DOMAIN chosen
         /\ mailbox[c].op = chosen[index[c]]
         /\ mailbox[c].err => Operation(mailbox[c].op) # "GET"
         /\ mailbox[c].op = OpOf(c) => Reads(OpOf(c), index[c], mailbox[c].value)
<1>1. /\ program' = program
      /\ DOMAIN chosen = 1..Len(chosen) /\ DOMAIN chosen' = 1..Len(chosen')
      /\ 1..Len(chosen) \subseteq 1..Len(chosen')
      /\ \A m \in 1..Len(chosen) : chosen'[m] = chosen[m]
  BY LogGrows
<1>2. ASSUME NEW d \in Client, mailbox'[d] # Nil, mailbox'[d] = mailbox[d], index'[d] = index[d],
             turn'[d] = turn[d], stage[d] \in {"wait", "leave"} => stage'[d] \in {"wait", "leave"}
      PROVE  Fits(d)'
  <2>1. Fits(d)
    BY <1>2 DEF MailMatches
  <2>0. PICK n \in DOMAIN chosen : n = index[d]
    BY <2>1
  <2>2. PICK r, v : n = index[d] /\ r = OpOf(d) /\ v = mailbox[d].value
    BY <2>0
  <2>3. OpOf(d)' = r
    BY <1>2, <2>2 DEF OpOf
  <2>4. mailbox[d].op = r => Reads(r, n, v)'
    BY <2>1, <2>2, ReadsGrow
  <2>5. mailbox[d].op = r => Reads(OpOf(d), index[d], mailbox[d].value)'
    BY <1>2, <2>2, <2>3, <2>4, ReadsNow
  <2>6. Operation(mailbox[d].op)' = Operation(mailbox[d].op)
    BY <1>1, <1>2 DEF Operation
  <2>. QED BY <1>1, <1>2, <2>1, <2>3, <2>5, <2>6
<1>3. ASSUME NEW c \in Client, Arrive(c) \/ RequestStep(c) PROVE MailMatches'
  <2>1. ASSUME NEW d \in Client \ {c}, mailbox'[d] # Nil PROVE Fits(d)'
    BY <1>2, <1>3, <2>1, HandlerFrame
  <2>2. ASSUME mailbox'[c] # Nil PROVE Fits(c)'
    <3>1. mailbox'[c] = mailbox[c]
      <4>1. CASE Leave(c)
        BY <1>0, <2>2, <4>1 DEF Leave, TypeOK
      <4>2. CASE mailbox' = mailbox
        BY <4>2
      <4>3. mailbox' = mailbox \/ Leave(c)
        BY <1>3 DEF RequestStep, Arrive, CallLeader, CallFollower, Register, Wake, Timeout, LocalCheck, LocalRead
      <4>. QED BY <4>1, <4>2, <4>3
    <3>2. stage[c] \in {"wait", "leave"}
      BY <2>2, <3>1 DEF MailMatches
    <3>3. Wake(c) \/ Timeout(c) \/ Leave(c)
      BY <1>3, <3>2 DEF RequestStep, Arrive, CallLeader, CallFollower, Register, LocalCheck, LocalRead
    <3>4. ~Leave(c)
      BY <1>0, <2>2 DEF Leave, TypeOK
    <3>5. stage'[c] = "leave" /\ UNCHANGED <<index, turn>>
      BY <1>0, <3>3, <3>4 DEF Wake, Timeout, TypeOK, requestVars
    <3>. QED BY <1>2, <2>2, <3>1, <3>5
  <2>. QED BY <2>1, <2>2 DEF MailMatches
<1>4. ASSUME UNCHANGED <<mailbox, index, turn, stage>> PROVE MailMatches'
  <2>1. ASSUME NEW d \in Client, mailbox'[d] # Nil PROVE Fits(d)'
    BY <1>2, <1>4, <2>1
  <2>. QED BY <2>1 DEF MailMatches
<1>5. ASSUME NEW i \in Server, Apply(i) PROVE MailMatches'
  BY <1>4, <1>5 DEF Apply, requestVars
<1>6. ASSUME NEW i \in Server, Notify(i) PROVE MailMatches'
  <2>1. /\ UNCHANGED <<chosen, index, turn, stage, program, errors>> /\ reply[i] # Nil
        /\ mailbox' = [c \in Client |->
              IF delivered[i] \in DOMAIN waitChans[i] /\ waitChans[i][delivered[i]] = c
              THEN reply[i] ELSE mailbox[c]]
    BY <1>6 DEF Notify, logVars, requestVars, boundVars
  <2>2. ASSUME NEW d \in Client, mailbox'[d] # Nil PROVE Fits(d)'
    <3>1. CASE delivered[i] \in DOMAIN waitChans[i] /\ waitChans[i][delivered[i]] = d
      <4>1. stage[d] \in {"wait", "leave"} /\ node[d] = i /\ index[d] = delivered[i]
        BY <1>0, <3>1 DEF WaitChansOwned
      <4>2. mailbox'[d] = reply[i]
        BY <2>1, <3>1
      <4>3. /\ delivered[i] \in DOMAIN chosen /\ reply[i].op = chosen[delivered[i]]
            /\ reply[i].err => Operation(reply[i].op) # "GET"
            /\ (\E c \in Client : Won(c) /\ node[c] = i /\ index[c] = delivered[i])
                  => Reads(reply[i].op, delivered[i], reply[i].value)
        BY <2>1 DEF RepliesMatch
      <4>4. ASSUME reply[i].op = OpOf(d) PROVE Reads(OpOf(d), index[d], mailbox[d].value)'
        <5>1. Won(d)
          BY <4>1, <4>3, <4>4 DEF Won, Live
        <5>2. Reads(OpOf(d), index[d], reply[i].value)
          BY <4>1, <4>3, <4>4, <5>1
        <5>0. PICK n \in DOMAIN chosen : n = index[d]
          BY <4>1, <4>3
        <5>3. PICK r, v : n = index[d] /\ r = OpOf(d) /\ v = reply[i].value
          BY <5>0
        <5>4. Reads(r, n, v)'
          BY <5>2, <5>3, ReadsGrow
        <5>5. OpOf(d)' = r /\ index'[d] = n /\ mailbox'[d].value = v
          BY <2>1, <4>2, <5>3 DEF OpOf
        <5>. QED BY <5>4, <5>5, ReadsNow
      <4>5. OpOf(d)' = OpOf(d) /\ Operation(mailbox[d].op)' = Operation(reply[i].op)
        BY <2>1, <4>2 DEF OpOf, Operation
      <4>. QED BY <2>1, <4>1, <4>2, <4>3, <4>4, <4>5
    <3>2. CASE ~(delivered[i] \in DOMAIN waitChans[i] /\ waitChans[i][delivered[i]] = d)
      <4>1. mailbox'[d] = mailbox[d]
        BY <2>1, <3>2
      <4>. QED BY <1>2, <2>1, <2>2, <4>1
    <3>. QED BY <3>1, <3>2
  <2>. QED BY <2>2 DEF MailMatches
<1>7. CASE Crash
  BY <1>7 DEF Crash, MailMatches
<1>8. CASE UNCHANGED vars
  BY <1>4, <1>8 DEF vars, requestVars
<1>. QED BY <1>3, <1>5, <1>6, <1>7, <1>8 DEF Next, ApplyStep

\* Every step keeps the answers right.
LEMMA LinearizableNext ==
    ASSUME BaseInv, WonIsNew, MailMatches, Linearizable, [Next]_vars
    PROVE  Linearizable'
<1>0. TypeOK /\ Shape /\ Handlers
  BY DEF BaseInv
<1>. DEFINE Right(c) ==
         /\ index[c] \in DOMAIN chosen /\ chosen[index[c]] = OpOf(c)
         /\ index[c] > floor[c]
         /\ Reads(OpOf(c), index[c], value[c])
            Answered(c) == result[c] \in {"ok", "failed"} /\ Operation(OpOf(c)) # "LOCAL"
<1>1. /\ program' = program
      /\ DOMAIN chosen = 1..Len(chosen) /\ DOMAIN chosen' = 1..Len(chosen')
      /\ 1..Len(chosen) \subseteq 1..Len(chosen')
      /\ \A m \in 1..Len(chosen) : chosen'[m] = chosen[m]
  BY LogGrows
<1>2. ASSUME NEW d \in Client, Right(d), value'[d] = value[d], index'[d] = index[d],
             turn'[d] = turn[d], floor'[d] = floor[d]
      PROVE  Right(d)'
  <2>0. PICK n \in DOMAIN chosen : n = index[d]
    BY <1>2
  <2>2. PICK r, v : n = index[d] /\ r = OpOf(d) /\ v = value[d]
    BY <2>0
  <2>3. OpOf(d)' = r
    BY <1>2, <2>2 DEF OpOf
  <2>4. Reads(r, n, v)'
    BY <1>2, <2>2, ReadsGrow
  <2>5. Reads(OpOf(d), index[d], value[d])'
    BY <1>2, <2>2, <2>3, <2>4, ReadsNow
  <2>. QED BY <1>1, <1>2, <2>2, <2>3, <2>5
<1>3. ASSUME NEW d \in Client, value'[d] = value[d], index'[d] = index[d], Answered(d)',
             turn'[d] = turn[d], floor'[d] = floor[d], result'[d] = result[d]
      PROVE  Right(d)'
  <2>1. OpOf(d)' = OpOf(d) /\ Operation(OpOf(d))' = Operation(OpOf(d))
    BY <1>1, <1>3 DEF OpOf, Operation
  <2>2. Right(d)
    BY <1>3, <2>1 DEF Linearizable, Reads
  <2>. QED BY <1>2, <1>3, <2>2
<1>4. SUFFICES ASSUME NEW d \in Client, Answered(d)' PROVE Right(d)'
  BY DEF Linearizable, Reads
<1>5. result'[d] # Nil /\ result'[d] \in {"ok", "failed"} /\ Operation(OpOf(d))' # "LOCAL"
  BY <1>4, NilAssumption
<1>6. ASSUME NEW c \in Client, Arrive(c) \/ RequestStep(c) PROVE Right(d)'
  <2>1. CASE d # c
    BY <1>3, <1>4, <1>6, <2>1, HandlerFrame
  <2>2. CASE d = c
    <3>1. Handles(c) /\ result \in [Client -> {Nil, "ok", "failed", "changed", "timeout", "unavailable", "lost"}]
      BY <1>0 DEF Handlers, TypeOK
    <3>2. ~Arrive(c)
      BY <1>5, <2>2, <3>1 DEF Arrive
    <3>3. ~(CallLeader(c) \/ Register(c) \/ LocalCheck(c))
      <4>1. ASSUME CallLeader(c) \/ Register(c) \/ LocalCheck(c) PROVE FALSE
        <5>1. stage[c] \in {"call", "register"} /\ result' = result
          BY <4>1 DEF CallLeader, Register, LocalCheck
        <5>. QED BY <1>5, <2>2, <3>1, <5>1 DEF Handles
      <4>. QED BY <4>1
    <3>4. ~(CallFollower(c) \/ Timeout(c))
      <4>1. ASSUME CallFollower(c) \/ Timeout(c) PROVE FALSE
        <5>1. /\ stage[c] \in {"call", "wait"}
              /\ result' = result \/ result'[c] = "unavailable" \/ result'[c] = "timeout"
          BY <3>1, <4>1 DEF CallFollower, Timeout
        <5>. QED BY <1>5, <2>2, <3>1, <5>1 DEF Handles
      <4>. QED BY <4>1
    <3>5. ~LocalRead(c)
      <4>1. ASSUME LocalRead(c) PROVE FALSE
        <5>1. stage[c] = "read" /\ turn' = turn
          BY <4>1 DEF LocalRead
        <5>2. Operation(OpOf(c))' = "LOCAL"
          BY <1>1, <3>1, <5>1 DEF Handles, OpOf, Operation
        <5>. QED BY <1>5, <2>2, <5>2
      <4>. QED BY <4>1
    <3>6. CASE Leave(c)
      BY <1>3, <1>4, <2>2, <3>6 DEF Leave, requestVars
    <3>7. CASE Wake(c)
      <4>1. /\ UNCHANGED <<turn, index, floor, chosen, program, errors>>
            /\ stage[c] = "wait" /\ mailbox[c] # Nil
            /\ result' = [result EXCEPT ![c] = Outcome(c, mailbox[c])]
            /\ value' = [value EXCEPT ![c] =
                            IF Outcome(c, mailbox[c]) = "ok" THEN mailbox[c].value ELSE Nil]
        BY <3>7 DEF Wake, logVars, boundVars
      <4>2. /\ index[c] \in DOMAIN chosen /\ mailbox[c].op = chosen[index[c]]
            /\ mailbox[c].err => Operation(mailbox[c].op) # "GET"
            /\ mailbox[c].op = OpOf(c) => Reads(OpOf(c), index[c], mailbox[c].value)
        BY <4>1 DEF MailMatches
      <4>3. Outcome(c, mailbox[c]) \in {"ok", "failed"} /\ value \in [Client -> Request \cup {Nil}]
        BY <1>0, <1>5, <2>2, <3>1, <4>1 DEF TypeOK
      <4>4. mailbox[c].op = OpOf(c) /\ (Outcome(c, mailbox[c]) # "ok" => mailbox[c].err)
        BY <4>3 DEF Outcome
      <4>5. OpOf(c)' = OpOf(c)
        BY <4>1 DEF OpOf
      <4>6. Won(c)
        BY <4>1, <4>2, <4>4 DEF Won, Live
      <4>7. index[c] > floor[c]
        BY <4>6 DEF WonIsNew
      <4>8. Reads(OpOf(c), index[c], value'[c])
        <5>1. CASE Outcome(c, mailbox[c]) = "ok"
          BY <4>1, <4>2, <4>3, <4>4, <5>1
        <5>2. CASE Outcome(c, mailbox[c]) # "ok"
          BY <4>2, <4>4, <5>2 DEF Reads
        <5>. QED BY <5>1, <5>2
      <4>0. PICK n \in DOMAIN chosen : n = index[c]
        BY <4>2
      <4>9. PICK r, v : n = index[c] /\ r = OpOf(c) /\ v = value'[c]
        BY <4>0
      <4>10. Reads(r, n, v)'
        BY <4>8, <4>9, ReadsGrow
      <4>11. Reads(OpOf(c), index[c], value[c])'
        BY <4>1, <4>5, <4>9, <4>10, ReadsNow
      <4>. QED BY <2>2, <4>1, <4>2, <4>4, <4>5, <4>7, <4>11
    <3>. QED BY <1>6, <3>2, <3>3, <3>4, <3>5, <3>6, <3>7 DEF RequestStep
  <2>. QED BY <2>1, <2>2
<1>7. ASSUME NEW i \in Server, ApplyStep(i) PROVE Right(d)'
  <2>1. UNCHANGED <<value, index, turn, floor, result>>
    BY <1>7 DEF ApplyStep, Apply, Notify, requestVars, clientHist
  <2>. QED BY <1>3, <1>4, <2>1
<1>8. CASE Crash
  <2>1. UNCHANGED <<value, index, turn, floor>> /\ (result'[d] = result[d] \/ result'[d] = "lost")
    BY <1>8 DEF Crash, requestVars, clientHist
  <2>. QED BY <1>3, <1>4, <1>5, <2>1
<1>9. CASE UNCHANGED vars
  BY <1>3, <1>4, <1>9 DEF vars, requestVars, clientHist
<1>. QED BY <1>6, <1>7, <1>8, <1>9 DEF Next

AnswerInv == BaseInv /\ EngineInLog /\ WonIsNew /\ RepliesMatch /\ MailMatches /\ Linearizable

\* Nothing is answered before anything was asked.
LEMMA AnswerInit == Init => AnswerInv
<1>. SUFFICES ASSUME Init PROVE AnswerInv
  OBVIOUS
<1>1. BaseInv /\ EngineInLog
  BY BaseInvInit, EngineInit
<1>2. chosen = <<>> /\ Len(chosen) = 0
  BY DEF Init, Raft!LogInit
<1>3. WonIsNew
  BY <1>2 DEF Init, WonIsNew, Won, Live
<1>4. RepliesMatch /\ MailMatches
  BY DEF Init, RepliesMatch, MailMatches
<1>5. Linearizable
  BY NilAssumption DEF Init, Linearizable
<1>. QED BY <1>1, <1>3, <1>4, <1>5 DEF AnswerInv

\* An answer is the outcome of the operation, at its place in the log.
THEOREM AnswerInvariant == Spec => []AnswerInv
<1>1. AnswerInv /\ [Next]_vars => AnswerInv'
  BY BaseInvNext, EngineNext, WonNext, RepliesNext, MailNext, LinearizableNext DEF AnswerInv
<1>. QED BY <1>1, AnswerInit, PTL DEF Spec

\* A request answered with an outcome was applied at its own index, behind everything
\* answered before it was proposed, and a GET returned what the log before it leaves.
THEOREM LinearizableCorrect == Spec => []Linearizable
<1>1. AnswerInv => Linearizable
  BY DEF AnswerInv
<1>. QED BY <1>1, AnswerInvariant, PTL

-----------------------------------------------------------------------------
(* Refusals.                                                                 *)

\* What was asked stays asked.
LEMMA AskedKept ==
    ASSUME Shape, [Next]_vars, NEW r, Asked(r)
    PROVE  Asked(r)'
<1>1. \A d \in Client : turn[d] \in Nat /\ (turn'[d] = turn[d] \/ turn'[d] = turn[d] + 1)
  <2>1. turn \in [Client -> Nat]
    BY DEF Shape
  <2>2. CASE turn' = turn
    BY <2>1, <2>2
  <2>3. ASSUME NEW c \in Client, Arrive(c)
        PROVE  \A d \in Client : turn'[d] = turn[d] \/ turn'[d] = turn[d] + 1
    BY <2>1, <2>3 DEF Arrive
  <2>4. turn' = turn \/ \E c \in Client : Arrive(c)
    <3>1. ASSUME NEW c \in Client, RequestStep(c) PROVE turn' = turn
      BY <3>1 DEF RequestStep, CallLeader, CallFollower, Register, Wake, Timeout, Leave, LocalCheck,
                  LocalRead, requestVars
    <3>2. ASSUME NEW i \in Server, ApplyStep(i) PROVE turn' = turn
      BY <3>2 DEF ApplyStep, Apply, Notify, requestVars
    <3>3. CASE Crash \/ UNCHANGED vars
      BY <3>3 DEF Crash, vars, requestVars
    <3>. QED BY <3>1, <3>2, <3>3 DEF Next
  <2>. QED BY <2>1, <2>2, <2>3, <2>4
<1>2. PICK c \in Client, t \in Nat : t >= 1 /\ t <= turn[c] /\ r = <<c, t>>
  BY DEF Asked
<1>3. t <= turn'[c]
  BY <1>1, <1>2
<1>. QED BY <1>2, <1>3 DEF Asked

\* Every step keeps refused operations out of the log for good.
LEMMA DeniedNext ==
    ASSUME AnswerInv, DeniedIsLost, [Next]_vars
    PROVE  DeniedIsLost'
<1>0. BaseInv /\ TypeOK /\ Shape /\ ProposedOnce /\ Handlers /\ MailMatches
  BY DEF AnswerInv, BaseInv
<1>. DEFINE Lost(r) == \A p \in proposed : p[2] = r => p[1] \in DOMAIN chosen /\ chosen[p[1]] # r
            Over(r) == \A c \in Client : r = OpOf(c) => stage[c] # "call"
<1>1. /\ DOMAIN chosen = 1..Len(chosen) /\ DOMAIN chosen' = 1..Len(chosen')
      /\ 1..Len(chosen) \subseteq 1..Len(chosen')
      /\ \A m \in 1..Len(chosen) : chosen'[m] = chosen[m]
  BY <1>0, LogGrows
<1>2. ASSUME NEW r, Lost(r), proposed' = proposed PROVE Lost(r)'
  <2>1. ASSUME NEW p \in proposed, p[2] = r PROVE p[1] \in DOMAIN chosen' /\ chosen'[p[1]] # r
    <3>1. p[1] \in DOMAIN chosen /\ chosen[p[1]] # r
      BY <1>2, <2>1
    <3>. QED BY <1>1, <3>1
  <2>. QED BY <1>2, <2>1
<1>3. ASSUME NEW r \in denied PROVE Asked(r)' /\ Lost(r) /\ Over(r)
  BY <1>0, AskedKept DEF DeniedIsLost
<1>4. ASSUME denied' = denied, proposed' = proposed, turn' = turn,
             \A c \in Client : stage'[c] = "call" => stage[c] = "call"
      PROVE  DeniedIsLost'
  <2>1. ASSUME NEW r \in denied PROVE Asked(r)' /\ Lost(r)' /\ Over(r)'
    <3>1. Lost(r)' /\ Asked(r)'
      BY <1>2, <1>3, <1>4
    <3>2. Over(r)'
      BY <1>3, <1>4 DEF OpOf
    <3>. QED BY <3>1, <3>2
  <2>. QED BY <1>4, <2>1 DEF DeniedIsLost
<1>5. ASSUME NEW c \in Client, proposed' = proposed, turn' = turn, denied' = denied \cup {OpOf(c)},
             stage[c] # "done", stage'[c] # "call",
             \A d \in Client : stage'[d] = "call" => stage[d] = "call", Lost(OpOf(c))
      PROVE  DeniedIsLost'
  <2>1. ASSUME NEW r \in denied PROVE Asked(r)' /\ Lost(r)' /\ Over(r)'
    <3>1. Lost(r)' /\ Asked(r)'
      BY <1>2, <1>3, <1>5
    <3>2. Over(r)'
      BY <1>3, <1>5 DEF OpOf
    <3>. QED BY <3>1, <3>2
  <2>2. PICK r : r = OpOf(c)
    OBVIOUS
  <2>3. Asked(r)'
    BY <1>0, <1>5, <2>2, OpType, AskedKept
  <2>4. Lost(r)'
    BY <1>2, <1>5, <2>2
  <2>5. Over(r)'
    BY <1>5, <2>2 DEF OpOf
  <2>. QED BY <1>5, <2>1, <2>2, <2>3, <2>4, <2>5 DEF DeniedIsLost
<1>6. ASSUME NEW c \in Client, Arrive(c) PROVE DeniedIsLost'
  <2>1. /\ UNCHANGED <<proposed, denied>> /\ turn' = [turn EXCEPT ![c] = @ + 1]
        /\ stage' = [stage EXCEPT ![c] = "call"]
    BY <1>6 DEF Arrive, logVars
  <2>2. turn \in [Client -> Nat] /\ stage \in [Client -> {"call", "register", "wait", "leave", "read", "done"}]
    BY <1>0 DEF Shape, TypeOK
  <2>3. ASSUME NEW r \in denied PROVE Asked(r)' /\ Lost(r)' /\ Over(r)'
    <3>1. Lost(r)' /\ Asked(r)'
      BY <1>2, <1>3, <2>1
    <3>2. ASSUME NEW d \in Client, r = OpOf(d)' PROVE stage'[d] # "call"
      <4>1. CASE d = c
        <5>1. Asked(r)
          BY DEF DeniedIsLost
        <5>2. PICK e \in Client, t \in Nat : t <= turn[e] /\ r = <<e, t>>
          BY <5>1 DEF Asked
        <5>3. r = <<c, turn[c] + 1>> /\ turn[c] \in Nat
          BY <2>1, <2>2, <3>2, <4>1 DEF OpOf
        <5>4. e = c /\ t = turn[c] + 1
          BY <5>2, <5>3
        <5>. QED BY <5>2, <5>3, <5>4
      <4>2. CASE d # c
        BY <1>3, <2>1, <2>2, <3>2, <4>2 DEF OpOf
      <4>. QED BY <4>1, <4>2
    <3>. QED BY <3>1, <3>2
  <2>. QED BY <2>1, <2>3 DEF DeniedIsLost
<1>7. ASSUME NEW c \in Client, CallLeader(c) PROVE DeniedIsLost'
  <2>1. PICK n \in 1..MaxIndex : proposed' = proposed \cup {<<n, OpOf(c)>>} /\ chosen' = chosen
    BY <1>0, <1>7, StartFacts
  <2>2. UNCHANGED <<turn, denied>> /\ stage' = [stage EXCEPT ![c] = "register"] /\ stage[c] = "call"
    BY <1>7 DEF CallLeader
  <2>3. ASSUME NEW r \in denied PROVE Asked(r)' /\ Lost(r)' /\ Over(r)'
    <3>1. r # OpOf(c) /\ Asked(r)' /\ Lost(r)
      BY <1>3, <2>2
    <3>2. Lost(r)'
      BY <2>1, <3>1
    <3>3. Over(r)'
      BY <1>0, <1>3, <2>2 DEF OpOf, TypeOK
    <3>. QED BY <3>1, <3>2, <3>3
  <2>. QED BY <2>2, <2>3 DEF DeniedIsLost
<1>8. ASSUME NEW c \in Client, CallFollower(c) PROVE DeniedIsLost'
  <2>1. UNCHANGED <<proposed, turn>> /\ stage[c] = "call"
    BY <1>8 DEF CallFollower, logVars
  <2>2. \/ UNCHANGED <<stage, denied>>
        \/ stage' = [stage EXCEPT ![c] = "done"] /\ denied' = denied \cup {OpOf(c)}
    BY <1>8 DEF CallFollower
  <2>3. CASE UNCHANGED <<stage, denied>>
    BY <1>4, <2>1, <2>3
  <2>4. CASE stage' = [stage EXCEPT ![c] = "done"] /\ denied' = denied \cup {OpOf(c)}
    <3>1. Lost(OpOf(c))
      BY <1>0, <2>1 DEF ProposedOnce
    <3>2. stage'[c] # "call" /\ \A d \in Client : stage'[d] = "call" => stage[d] = "call"
      BY <1>0, <2>4 DEF TypeOK
    <3>. QED BY <1>5, <2>1, <2>4, <3>1, <3>2
  <2>. QED BY <2>2, <2>3, <2>4
<1>9. ASSUME NEW c \in Client, Wake(c) PROVE DeniedIsLost'
  <2>1. /\ UNCHANGED <<proposed, turn>> /\ stage[c] = "wait" /\ mailbox[c] # Nil
        /\ denied' = IF Outcome(c, mailbox[c]) = "changed" THEN denied \cup {OpOf(c)} ELSE denied
        /\ stage' = [stage EXCEPT ![c] = "leave"]
    BY <1>9 DEF Wake, logVars
  <2>2. stage'[c] # "call" /\ \A d \in Client : stage'[d] = "call" => stage[d] = "call"
    BY <1>0, <2>1 DEF TypeOK
  <2>3. CASE Outcome(c, mailbox[c]) # "changed"
    BY <1>4, <2>1, <2>2, <2>3
  <2>4. CASE Outcome(c, mailbox[c]) = "changed"
    <3>1. mailbox[c].op # OpOf(c)
      BY <2>4 DEF Outcome
    <3>2. index[c] \in DOMAIN chosen /\ chosen[index[c]] # OpOf(c)
      BY <1>0, <2>1, <3>1 DEF MailMatches
    <3>3. <<index[c], OpOf(c)>> \in proposed
      BY <1>0, <2>1 DEF Handlers, Handles, Live
    <3>4. PICK q \in proposed : q = <<index[c], OpOf(c)>>
      BY <3>3
    <3>5. ASSUME NEW p \in proposed, p[2] = OpOf(c) PROVE p[1] = index[c]
      <4>1. p[2] = q[2] /\ q[1] = index[c]
        BY <3>4, <3>5
      <4>. QED BY <1>0, <4>1 DEF ProposedOnce
    <3>6. Lost(OpOf(c))
      BY <3>2, <3>5
    <3>. QED BY <1>5, <2>1, <2>2, <2>4, <3>6
  <2>. QED BY <2>3, <2>4
<1>10. ASSUME NEW c \in Client,
             Register(c) \/ Timeout(c) \/ Leave(c) \/ LocalCheck(c) \/ LocalRead(c)
      PROVE  DeniedIsLost'
  <2>1. UNCHANGED <<turn, proposed, denied>>
    BY <1>10 DEF Register, Timeout, Leave, LocalCheck, LocalRead, logVars, requestVars, clientHist
  <2>2. \E s \in {"wait", "leave", "done", "read"} : stage' = [stage EXCEPT ![c] = s]
    BY <1>10 DEF Register, Timeout, Leave, LocalCheck, LocalRead
  <2>3. ASSUME NEW d \in Client, stage'[d] = "call" PROVE stage[d] = "call"
    BY <1>0, <2>2, <2>3 DEF TypeOK
  <2>. QED BY <1>4, <2>1, <2>3
<1>11. ASSUME NEW i \in Server, ApplyStep(i) PROVE DeniedIsLost'
  <2>1. UNCHANGED <<turn, denied, stage>>
    BY <1>11 DEF ApplyStep, Apply, Notify, requestVars, clientHist
  <2>2. proposed' = proposed
    BY <1>0, <1>11, DeliverFacts DEF ApplyStep, Notify, logVars
  <2>. QED BY <1>4, <2>1, <2>2
<1>12. CASE Crash
  <2>1. UNCHANGED <<turn, proposed, denied>> /\ \A c \in Client : stage'[c] = "done"
    BY <1>12 DEF Crash, Raft!Restart, requestVars, clientHist
  <2>. QED BY <1>4, <2>1
<1>13. CASE UNCHANGED vars
  BY <1>4, <1>13 DEF vars, logVars, requestVars, clientHist
<1>. QED BY <1>6, <1>7, <1>8, <1>9, <1>10, <1>11, <1>12, <1>13 DEF Next, RequestStep

\* An operation that was refused, by a change of leader or for want of one, is not and
\* will never be in the log.
THEOREM DeniedCorrect == Spec => []DeniedMeansNever
<1>1. Init => DeniedIsLost
  BY DEF Init, DeniedIsLost
<1>2. AnswerInv /\ DeniedIsLost /\ [Next]_vars => DeniedIsLost'
  BY DeniedNext
<1>3. AnswerInv /\ DeniedIsLost => DeniedMeansNever
  <2>. SUFFICES ASSUME AnswerInv, DeniedIsLost, NEW r \in denied, NEW n \in DOMAIN chosen, chosen[n] = r
       PROVE  FALSE
    BY DEF DeniedMeansNever, InLog
  <2>1. <<n, r>> \in proposed
    BY DEF AnswerInv, BaseInv, ProposedOnce
  <2>2. PICK p \in proposed : p = <<n, r>>
    BY <2>1
  <2>3. p[1] = n /\ p[2] = r
    BY <2>2
  <2>. QED BY <2>3 DEF DeniedIsLost
<1>. QED BY <1>1, <1>2, <1>3, AnswerInvariant, PTL DEF Spec

-----------------------------------------------------------------------------
(* Local reads.                                                              *)

\* Every step keeps the values that local reads returned.
LEMMA LocalReadsNext ==
    ASSUME AnswerInv, LocalReadsCommitted, [Next]_vars
    PROVE  LocalReadsCommitted'
<1>0. BaseInv /\ TypeOK /\ Shape /\ Handlers /\ EngineInLog
  BY DEF AnswerInv, BaseInv
<1>1. /\ program' = program /\ Len(chosen) \in Nat
      /\ 1..Len(chosen) \subseteq 1..Len(chosen')
      /\ \A m \in 1..Len(chosen) : chosen'[m] = chosen[m]
  BY <1>0, LogGrows DEF TypeOK
<1>2. Len(chosen) <= Len(chosen') /\ Len(chosen') \in Nat
  <2>1. TypeOK'
    BY <1>0, BaseInvNext DEF BaseInv
  <2>2. Len(chosen') \in Nat
    BY <2>1 DEF TypeOK
  <2>3. ASSUME NEW a \in Nat, NEW b \in Nat, 1..a \subseteq 1..b PROVE a <= b
    <3>1. CASE a = 0
      BY <3>1
    <3>2. CASE a # 0
      <4>1. a \in 1..a
        BY <3>2
      <4>2. a \in 1..b
        BY <2>3, <4>1
      <4>. QED BY <4>2
    <3>. QED BY <3>1, <3>2
  <2>. QED BY <1>1, <2>2, <2>3
<1>3. ASSUME NEW d \in Client, turn'[d] = turn[d], NEW n \in 0..Len(chosen),
             value'[d] = ValueAt(KeyOf(OpOf(d)), n)
      PROVE  \E m \in 0..Len(chosen') : value'[d] = ValueAt(KeyOf(OpOf(d)), m)'
  <2>1. PICK k : k = KeyOf(OpOf(d))
    OBVIOUS
  <2>2. KeyOf(OpOf(d))' = k
    BY <1>1, <1>3, <2>1 DEF KeyOf, OpOf
  <2>3. n \in Nat /\ n \in 0..Len(chosen') /\ \A m \in 1..n : chosen'[m] = chosen[m]
    BY <1>1, <1>2
  <2>4. ValueAt(k, n)' = ValueAt(k, n)
    BY <1>1, <2>3, ValueAtKept
  <2>5. ValueAt(KeyOf(OpOf(d)), n)' = ValueAt(k, n)'
    BY <2>2 DEF ValueAt, WritesOf
  <2>. QED BY <1>3, <2>1, <2>3, <2>4, <2>5
<1>4. SUFFICES ASSUME NEW d \in Client, result'[d] = "ok", Operation(OpOf(d))' = "LOCAL"
      PROVE  \E m \in 0..Len(chosen') : value'[d] = ValueAt(KeyOf(OpOf(d)), m)'
  BY DEF LocalReadsCommitted
<1>5. CASE turn'[d] = turn[d] /\ value'[d] = value[d] /\ result'[d] = result[d]
  <2>1. Operation(OpOf(d)) = "LOCAL"
    BY <1>1, <1>4, <1>5 DEF Operation, OpOf
  <2>2. PICK n \in 0..Len(chosen) : value[d] = ValueAt(KeyOf(OpOf(d)), n)
    BY <1>4, <1>5, <2>1 DEF LocalReadsCommitted
  <2>. QED BY <1>3, <1>5, <2>2
<1>6. ASSUME NEW c \in Client, Arrive(c) \/ RequestStep(c)
      PROVE  \E m \in 0..Len(chosen') : value'[d] = ValueAt(KeyOf(OpOf(d)), m)'
  <2>1. CASE d # c
    BY <1>0, <1>5, <1>6, <2>1, HandlerFrame
  <2>2. CASE d = c
    <3>1. CASE LocalRead(c)
      <4>1. PICK i \in Server : i = node[c]
        BY <1>0 DEF TypeOK
      <4>2. stage[c] = "read" /\ turn' = turn /\ value'[c] = db[i][KeyOf(OpOf(c))]
        BY <1>0, <3>1, <4>1 DEF LocalRead, TypeOK
      <4>3. KeyOf(OpOf(c)) \in Key
        BY <1>0, <4>2, OpType
      <4>4. PICK n \in Nat : n <= high[i] /\ db[i][KeyOf(OpOf(c))] = ValueAt(KeyOf(OpOf(c)), n)
        BY <1>0, <4>3 DEF EngineInLog
      <4>5. high[i] \in Nat /\ high[i] <= Len(chosen)
        BY <1>0 DEF EngineInLog, Shape
      <4>6. n \in 0..Len(chosen)
        BY <1>1, <4>4, <4>5
      <4>. QED BY <1>3, <2>2, <4>2, <4>4, <4>6
    <3>2. CASE stage[c] \in Live /\ turn' = turn
      <4>1. Operation(OpOf(c)) # "LOCAL"
        BY <1>0, <3>2, LiveIsLogged
      <4>. QED BY <1>1, <1>4, <2>2, <3>2, <4>1 DEF Operation, OpOf
    <3>3. CASE stage[c] = "call" /\ (result' = result \/ result'[c] = "unavailable")
      BY <1>0, <1>4, <2>2, <3>3, NilAssumption DEF Handlers, Handles
    <3>4. CASE Arrive(c)
      BY <1>0, <1>4, <2>2, <3>4, NilAssumption DEF Arrive, TypeOK
    <3>5. CASE CallLeader(c) \/ CallFollower(c) \/ LocalCheck(c)
      <4>1. stage[c] = "call" /\ (result' = result \/ result'[c] = "unavailable")
        BY <1>0, <3>5 DEF CallLeader, CallFollower, LocalCheck, TypeOK
      <4>. QED BY <3>3, <4>1
    <3>6. CASE Register(c) \/ Wake(c) \/ Timeout(c) \/ Leave(c)
      <4>1. stage[c] \in Live /\ turn' = turn
        BY <3>6 DEF Register, Wake, Timeout, Leave, requestVars, Live
      <4>. QED BY <3>2, <4>1
    <3>. QED BY <1>6, <3>1, <3>4, <3>5, <3>6 DEF RequestStep
  <2>. QED BY <2>1, <2>2
<1>7. ASSUME NEW i \in Server, ApplyStep(i)
      PROVE  \E m \in 0..Len(chosen') : value'[d] = ValueAt(KeyOf(OpOf(d)), m)'
  <2>1. UNCHANGED <<turn, value, result>>
    BY <1>7 DEF ApplyStep, Apply, Notify, requestVars
  <2>. QED BY <1>5, <2>1
<1>8. CASE Crash
  <2>1. UNCHANGED <<turn, value>> /\ (result'[d] = result[d] \/ result'[d] = "lost")
    BY <1>8 DEF Crash, requestVars
  <2>. QED BY <1>4, <1>5, <2>1
<1>9. CASE UNCHANGED vars
  BY <1>5, <1>9 DEF vars, requestVars
<1>. QED BY <1>6, <1>7, <1>8, <1>9 DEF Next

\* A local read, on whatever node and after whatever crash, returns a value that some
\* beginning of the log left at its key.
THEOREM LocalReadsCorrect == Spec => []LocalReadsCommitted
<1>1. Init => LocalReadsCommitted
  BY NilAssumption DEF Init, LocalReadsCommitted
<1>2. AnswerInv /\ LocalReadsCommitted /\ [Next]_vars => LocalReadsCommitted'
  BY LocalReadsNext
<1>. QED BY <1>1, <1>2, AnswerInvariant, PTL DEF Spec

-----------------------------------------------------------------------------
(* Wake-ups.                                                                 *)

\* Every step wakes whoever it should, or has marked the channel as missed.
LEMMA WokenNext ==
    ASSUME BaseInv, Registered, WokenUnlessMissed, [Next]_vars
    PROVE  Registered' /\ WokenUnlessMissed'
<1>0. TypeOK /\ Shape /\ ProposedOnce
  BY DEF BaseInv
<1>. DEFINE Waits(d) == stage[d] = "wait" /\ ~missed[d]
            Entered(d) == index[d] \in DOMAIN waitChans[node[d]] /\ waitChans[node[d]][index[d]] = d
            Served(d) == /\ Notified(node[d]) < index[d] => Entered(d)
                         /\ Notified(node[d]) >= index[d] => mailbox[d] # Nil
<1>1. SUFFICES ASSUME NEW d \in Client, Waits(d)' PROVE Served(d)'
  BY DEF Registered, WokenUnlessMissed
<1>2. ASSUME Waits(d) PROVE Served(d)
  BY <1>2 DEF Registered, WokenUnlessMissed
<1>3. PICK i \in Server : i = node[d]
  BY <1>0 DEF TypeOK
<1>4. index[d] \in Nat /\ delivered[i] \in Nat /\ Notified(i) \in Int
  <2>1. index[d] \in Nat /\ delivered[i] \in Nat
    BY <1>0, BoundAssumption DEF TypeOK, Shape
  <2>. QED BY <2>1 DEF Notified
<1>5. ASSUME Waits(d), node'[d] = i, index'[d] = index[d], mailbox'[d] = mailbox[d],
             Notified(i)' = Notified(i), Entered(d) => Entered(d)'
      PROVE  Served(d)'
  <2>1. Notified(node[d])' = Notified(i) /\ Served(d)
    <3>1. Notified(node[d])' = Notified(i)'
      BY <1>5 DEF Notified
    <3>. QED BY <1>2, <1>5, <3>1
  <2>. QED BY <1>3, <1>5, <2>1
<1>6. ASSUME NEW c \in Client, Arrive(c) \/ RequestStep(c) PROVE Served(d)'
  <2>1. UNCHANGED <<delivered, reply>>
    BY <1>6, HandlerFrame
  <2>2. Notified(i)' = Notified(i)
    BY <2>1 DEF Notified
  <2>3. ASSUME d # c, ~missed[d], Entered(d) => Entered(d)' PROVE Served(d)'
    <3>1. /\ stage'[d] = stage[d] /\ node'[d] = node[d] /\ index'[d] = index[d]
          /\ mailbox'[d] = mailbox[d]
      BY <1>6, <2>3, HandlerFrame
    <3>. QED BY <1>1, <1>3, <1>5, <2>2, <2>3, <3>1
  <2>4. CASE Register(c)
    <3>1. /\ waitChans' = [waitChans EXCEPT ![node[c]] =
                 [n \in DOMAIN @ \cup {SlotOf(c)} |-> IF n = SlotOf(c) THEN c ELSE @[n]]]
          /\ missed' = [e \in Client |-> \/ missed[e] \/ e \in Occupant(c)
                                         \/ e = c /\ Notified(node[c]) >= index[c]]
          /\ UNCHANGED <<node, index>>
      BY <2>4 DEF Register, requestVars
    <3>2. /\ ~missed[d] /\ d \notin Occupant(c)
          /\ ~(d = c /\ Notified(node[c]) >= index[c])
      BY <1>1, <3>1
    <3>3. i \in DOMAIN waitChans /\ node[c] \in Server
      BY <1>0 DEF Shape, TypeOK
    <3>4. CASE d = c
      <4>1. waitChans'[i] = [n \in DOMAIN waitChans[i] \cup {index[c]} |->
                               IF n = index[c] THEN c ELSE waitChans[i][n]]
        BY <1>3, <3>1, <3>3, <3>4 DEF SlotOf
      <4>2. Entered(d)'
        BY <1>3, <3>1, <3>4, <4>1
      <4>3. Notified(node[d])' = Notified(i)
        BY <1>3, <2>1, <3>1 DEF Notified
      <4>. QED BY <1>3, <1>4, <3>1, <3>2, <3>4, <4>2, <4>3
    <3>5. CASE d # c
      <4>1. ASSUME Entered(d) PROVE Entered(d)'
        <5>1. ~(i = node[c] /\ index[d] = index[c])
          <6>1. ASSUME i = node[c], index[d] = index[c] PROVE FALSE
            <7>1. index[d] \in {SlotOf(c)} \cap DOMAIN waitChans[node[c]] /\ d = waitChans[node[c]][index[d]]
              BY <1>3, <4>1, <6>1 DEF SlotOf
            <7>2. d \in Occupant(c)
              BY <7>1 DEF Occupant
            <7>. QED BY <3>2, <7>2
          <6>. QED BY <6>1
        <5>2. CASE i = node[c]
          <6>1. waitChans'[i] = [n \in DOMAIN waitChans[i] \cup {index[c]} |->
                                   IF n = index[c] THEN c ELSE waitChans[i][n]]
            BY <3>1, <3>3, <5>2 DEF SlotOf
          <6>. QED BY <1>3, <3>1, <4>1, <5>1, <5>2, <6>1
        <5>3. CASE i # node[c]
          <6>1. waitChans'[i] = waitChans[i]
            BY <3>1, <3>3, <5>3
          <6>. QED BY <1>3, <3>1, <4>1, <6>1
        <5>. QED BY <5>2, <5>3
      <4>. QED BY <2>3, <3>2, <3>5, <4>1
    <3>. QED BY <3>4, <3>5
  <2>5. CASE Leave(c)
    <3>1. /\ waitChans' = [waitChans EXCEPT ![node[c]] = Restrict(@, DOMAIN @ \ Deleted(c))]
          /\ missed' = [e \in Client |-> missed[e] \/ e \in Occupant(c) \ {c}]
          /\ stage' = [stage EXCEPT ![c] = "done"]
          /\ UNCHANGED <<node, index>>
      BY <2>5 DEF Leave, requestVars
    <3>2. d # c
      BY <1>0, <1>1, <3>1 DEF TypeOK
    <3>3. ~missed[d] /\ d \notin Occupant(c)
      BY <1>1, <3>1, <3>2
    <3>4. i \in DOMAIN waitChans /\ node[c] \in Server
      BY <1>0 DEF Shape, TypeOK
    <3>5. ASSUME Entered(d) PROVE Entered(d)'
      <4>1. ~(i = node[c] /\ index[d] = index[c])
        <5>1. ASSUME i = node[c], index[d] = index[c] PROVE FALSE
          <6>1. index[d] \in {SlotOf(c)} \cap DOMAIN waitChans[node[c]] /\ d = waitChans[node[c]][index[d]]
            BY <1>3, <3>5, <5>1 DEF SlotOf
          <6>2. d \in Occupant(c)
            BY <6>1 DEF Occupant
          <6>. QED BY <3>3, <6>2
        <5>. QED BY <5>1
      <4>2. CASE i = node[c]
        <5>1. waitChans'[i] = [n \in DOMAIN waitChans[i] \ {index[c]} |-> waitChans[i][n]]
          BY <3>1, <3>4, <4>2 DEF Restrict, Deleted, SlotOf
        <5>. QED BY <1>3, <3>1, <3>5, <4>1, <4>2, <5>1
      <4>3. CASE i # node[c]
        <5>1. waitChans'[i] = waitChans[i]
          BY <3>1, <3>4, <4>3
        <5>. QED BY <1>3, <3>1, <3>5, <5>1
      <4>. QED BY <4>2, <4>3
    <3>. QED BY <2>3, <3>2, <3>3, <3>5
  <2>6. CASE ~Register(c) /\ ~Leave(c)
    <3>1. waitChans' = waitChans
      BY <1>6, <2>6 DEF RequestStep, Arrive, CallLeader, CallFollower, Wake, Timeout, LocalCheck, LocalRead
    <3>2. d # c
      <4>1. ASSUME d = c PROVE FALSE
        <5>1. stage'[c] = "wait"
          BY <1>1, <4>1
        <5>2. stage'[c] \in {"call", "register", "leave", "read", "done"}
          BY <1>0, <1>6, <2>6 DEF RequestStep, Arrive, CallLeader, CallFollower, Wake, Timeout, LocalCheck,
                                  LocalRead, TypeOK
        <5>. QED BY <5>1, <5>2
      <4>. QED BY <4>1
    <3>3. missed'[d] = missed[d]
      BY <1>0, <1>6, <2>6, <3>2 DEF RequestStep, Arrive, CallLeader, CallFollower, Wake, Timeout, LocalCheck,
                                    LocalRead, clientHist, Shape
    <3>4. node'[d] = node[d] /\ index'[d] = index[d]
      BY <1>6, <3>2, HandlerFrame
    <3>. QED BY <1>1, <2>3, <3>1, <3>2, <3>3, <3>4
  <2>. QED BY <2>4, <2>5, <2>6
<1>7. ASSUME UNCHANGED <<stage, missed, node, index, mailbox, waitChans>>, Notified(i)' = Notified(i)
      PROVE  Served(d)'
  BY <1>1, <1>3, <1>5, <1>7
<1>8. ASSUME NEW j \in Server, Apply(j) PROVE Served(d)'
  <2>1. UNCHANGED <<stage, missed, node, index, mailbox, waitChans>>
    BY <1>8 DEF Apply, requestVars, clientHist
  <2>2. delivered' = [delivered EXCEPT ![j] = delivered[j] + 1] /\ delivered \in [Server -> Nat]
    BY <1>0, <1>8, DeliverFacts DEF Shape
  <2>3. reply[j] = Nil /\ \E v \in OpResult : reply' = [reply EXCEPT ![j] = v]
    <3>1. PICK r : r = chosen'[delivered[j] + 1]
      OBVIOUS
    <3>2. r \in Request /\ KeyOf(r) \in Key /\ reply[j] = Nil
      BY <1>8, <3>1, ApplyFacts
    <3>3. db[j][KeyOf(r)] \in Request \cup {Nil}
      BY <1>0, <3>2 DEF TypeOK
    <3>4. ASSUME NEW e \in BOOLEAN, NEW v \in Request \cup {Nil}
          PROVE  [op |-> r, err |-> e, value |-> v] \in OpResult
      BY <3>2 DEF OpResult
    <3>5. PICK v \in Request \cup {Nil} :
              v = IF Operation(r) = "GET" THEN db[j][KeyOf(r)] ELSE Nil
      BY <3>3
    <3>6. \/ reply' = [reply EXCEPT ![j] = [op |-> r, err |-> FALSE, value |-> v]]
          \/ reply' = [reply EXCEPT ![j] = [op |-> r, err |-> TRUE, value |-> Nil]]
      BY <1>8, <3>1, <3>5, ApplyFacts
    <3>. QED BY <3>2, <3>4, <3>6
  <2>4. PICK v \in OpResult : reply' = [reply EXCEPT ![j] = v]
    BY <2>3
  <2>5. v # Nil /\ reply \in [Server -> OpResult \cup {Nil}]
    BY <1>0, NilAssumption DEF OpResult, TypeOK
  <2>6. Notified(i)' = Notified(i)
    <3>1. CASE i = j
      <4>1. reply'[i] # Nil /\ reply[i] = Nil /\ delivered'[i] = delivered[i] + 1
        BY <2>2, <2>3, <2>4, <2>5, <3>1
      <4>. QED BY <1>4, <4>1 DEF Notified
    <3>2. CASE i # j
      <4>1. reply'[i] = reply[i] /\ delivered'[i] = delivered[i]
        BY <2>2, <2>4, <2>5, <3>2
      <4>. QED BY <4>1 DEF Notified
    <3>. QED BY <3>1, <3>2
  <2>. QED BY <1>7, <2>1, <2>6
<1>9. ASSUME NEW j \in Server, Notify(j) PROVE Served(d)'
  <2>1. /\ UNCHANGED <<stage, missed, node, index, waitChans, delivered>> /\ reply[j] # Nil
        /\ mailbox' = [c \in Client |->
              IF delivered[j] \in DOMAIN waitChans[j] /\ waitChans[j][delivered[j]] = c
              THEN reply[j] ELSE mailbox[c]]
        /\ reply' = [reply EXCEPT ![j] = Nil]
    BY <1>9 DEF Notify, logVars, requestVars, clientHist
  <2>2. reply \in [Server -> OpResult \cup {Nil}]
    BY <1>0 DEF TypeOK
  <2>3. Served(d) /\ (mailbox[d] # Nil => mailbox'[d] # Nil)
    BY <1>1, <1>2, <2>1
  <2>4. Entered(d)' = Entered(d)
    BY <2>1
  <2>5. CASE i = j
    <3>1. Notified(node[d])' = delivered[i] /\ Notified(i) = delivered[i] - 1
      BY <1>3, <2>1, <2>2, <2>5 DEF Notified
    <3>2. ASSUME delivered[i] < index[d] PROVE Entered(d)
      BY <1>3, <1>4, <2>3, <3>1, <3>2
    <3>3. ASSUME delivered[i] >= index[d] PROVE mailbox'[d] # Nil
      <4>1. CASE delivered[i] - 1 >= index[d]
        BY <1>3, <2>3, <3>1, <4>1
      <4>2. CASE index[d] = delivered[i]
        <5>1. Notified(i) < index[d]
          BY <1>4, <3>1, <4>2
        <5>2. Entered(d)
          BY <1>3, <2>3, <5>1
        <5>. QED BY <1>3, <2>1, <2>5, <4>2, <5>2
      <4>. QED BY <1>4, <3>3, <4>1, <4>2
    <3>. QED BY <1>4, <2>1, <2>4, <3>1, <3>2, <3>3
  <2>6. CASE i # j
    <3>1. Notified(node[d])' = Notified(i)
      BY <1>3, <2>1, <2>2, <2>6 DEF Notified
    <3>. QED BY <1>3, <2>1, <2>3, <2>4, <3>1
  <2>. QED BY <2>5, <2>6
<1>10. CASE Crash
  BY <1>1, <1>10 DEF Crash
<1>11. CASE UNCHANGED vars
  <2>1. UNCHANGED <<stage, missed, node, index, mailbox, waitChans, delivered, reply>>
    BY <1>11 DEF vars, logVars, requestVars, storeVars, clientHist
  <2>. QED BY <1>7, <2>1 DEF Notified
<1>. QED BY <1>6, <1>8, <1>9, <1>10, <1>11 DEF Next, ApplyStep

\* A waiting request whose index was applied has its result, unless its channel was
\* registered too late or another request with the same index took it away.
THEOREM WokenCorrect == Spec => []WokenUnlessMissed
<1>1. Init => Registered /\ WokenUnlessMissed
  BY DEF Init, Registered, WokenUnlessMissed
<1>2. BaseInv /\ Registered /\ WokenUnlessMissed /\ [Next]_vars => (Registered /\ WokenUnlessMissed)'
  BY WokenNext
<1>. QED BY <1>1, <1>2, BaseInvariant, PTL DEF Spec

=============================================================================
