--------------------------- MODULE MCRaftTornSave ---------------------------
(* A cluster in one process that dies once inside Save().                    *)
EXTENDS RaftTornSave, TLC

OneProcess == {Server}

Symmetry == Permutations(Server)
=============================================================================
