------------------------------ MODULE MCSSTable -----------------------------
(* A small instance of SSTable: a block takes two records with a short value *)
(* or a tombstone, or one record with the long value.                        *)
EXTENDS SSTable
=============================================================================
