------------------------------- MODULE KVMap --------------------------------
(***************************************************************************)
(* What the storage engine promises its callers: a map from keys to values *)
(* (Nil for a key that is not there) with atomic writes, and reads that    *)
(* return the value of one moment.                                         *)
(***************************************************************************)
CONSTANTS Key, Value, Reader, Nil

VARIABLES
    kv,         \* the map
    answer      \* per reader: what its last Get returned, or will return

mapVars == <<kv, answer>>

Init == kv = [k \in Key |-> Nil] /\ answer = [r \in Reader |-> Nil]

\* Put, or Delete when v is Nil
Write(k, v) == kv' = [kv EXCEPT ![k] = v] /\ UNCHANGED answer

Get(r, k) == answer' = [answer EXCEPT ![r] = kv[k]] /\ UNCHANGED kv

\* The process dies: nobody waits for an answer any more, and a write that was
\* under way may have happened.
Crash ==
    /\ answer' = [r \in Reader |-> Nil]
    /\ \/ UNCHANGED kv
       \/ \E k \in Key, v \in Value \cup {Nil} : kv' = [kv EXCEPT ![k] = v]

Next == \/ \E k \in Key, v \in Value \cup {Nil} : Write(k, v)
        \/ \E r \in Reader, k \in Key : Get(r, k)
        \/ Crash

Spec == Init /\ [][Next]_mapVars
=============================================================================
