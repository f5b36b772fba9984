------------------------------ MODULE MCBadBlocks ------------------------------
(* A small zone for BadBlocks. *)
EXTENDS BadBlocks, TLC

\* Nothing tells the blocks of the zone apart, nor the logical blocks.
Symmetry == Permutations(Blk) \cup Permutations(LogicBlk)
=============================================================================
