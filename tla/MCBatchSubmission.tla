-------------------------- MODULE MCBatchSubmission --------------------------
(* Small instances of BatchSubmission. *)
EXTENDS BatchSubmission

\* An empty block, and one that fills two thirds of a batch.
Small == [empty |-> TRUE, size |-> 1]
Large == [empty |-> FALSE, size |-> 2]
MCBlocks == {Small, Large}

NoBatches == <<>>

\* A chain of two blocks settled by an earlier sequencer.
EarlierBatches == <<[StartHeight |-> 1, EndHeight |-> 2, Blocks |-> <<Small, Large>>]>>
=============================================================================
