------------------------------- MODULE MCLSM --------------------------------
(* Small instances of LSM for model checking, and two statements of the      *)
(* code's comments that they refute.                                         *)
EXTENDS LSM, TLC

Symmetry == Permutations(Key) \cup Permutations(Value)

\* bound: Gets run before the first crash; after one the state still changes in
\* every way, but nobody reads without the lock
ReadsBeforeCrash == crashes > 0 => \A r \in Reader : readers[r] = NotReading

\* bound: and before the first failing file operation
ReadsBeforeFailure == crashes + errors > 0 => \A r \in Reader : readers[r] = NotReading

\* bound: two crashes, or one and a failing file operation before or after it
TwoFailures == crashes + errors <= 2

\* bound: nothing is followed beyond the step that loses data and sets damaged;
\* the properties promise nothing about the data after it
UpToDamage == ~damaged

\* bound: three writes, or two and a crash before, between or after them
ThreeWritesOrCrash == writes + crashes <= 3

\* bound: nothing is followed beyond the end of a Get; a Get changes no state of
\* the engine, so the same steps are taken in the behaviours without it
UpToGetEnd == \A r \in Reader : readers[r].done => readers[r] = NotReading

\* "The data is now safely in the SSTable, not even a power failure loses it"
\* (kvstore_compaction.go:105): a crash while the next table is being written
\* leaves everything that was installed before readable.
DurableWhileWriting == ~damaged /\ ~Overtaken => Durable

\* "... so that Get goes through them in the right order, new to old"
\* (kvstore_compaction.go:333): a lookup finds the last value written,
\* compaction or not.
NewToOld ==
    phase = "running" =>
        \A k \in Key : Lookup(memTable, immTable, sstables, files, k) = contents[k]
=============================================================================
