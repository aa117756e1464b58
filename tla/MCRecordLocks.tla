---------------------------- MODULE MCRecordLocks ----------------------------
(* Small instances of RecordLocks. *)
EXTENDS RecordLocks, TLC

TwoRecords == 1..2
SomeSelections == {{}, {1}, {1, 2}}
PairSelections == {{1, 2}, {2}}

RequestSymmetry == Permutations(Requests)
=============================================================================
