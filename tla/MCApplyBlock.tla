----------------------------- MODULE MCApplyBlock -----------------------------
(* Instances of ApplyBlock for TLC. *)
EXTENDS ApplyBlock, TLC

CONSTANTS i1, i2

MCIds == {i1, i2}
MCSymmetry == Permutations(MCIds)

\* Batches of one, of two, and of the remaining blocks.
MCBatchEnd == <<1, 3, 4>>

=============================================================================
