------------------------------ MODULE MCStore -------------------------------
(* Small instances of Store for model checking.                              *)
EXTENDS Store, TLC

CONSTANTS k1, c1, c2

Op(o) == [operation |-> o, key |-> k1]

Workload(p, q) == (c1 :> p) @@ (c2 :> q)

\* Two requests that meet, and one client that goes on after each answer.
MixedPrograms == {Workload(<<Op("PUT")>>, <<Op("GET")>>),
                  Workload(<<Op("PUT")>>, <<Op("DELETE")>>),
                  Workload(<<Op("PUT")>>, <<Op("LOCAL")>>),
                  Workload(<<Op("PUT"), Op("DELETE"), Op("GET")>>, <<>>)}
=============================================================================
