----------------------------- MODULE MCKoreFile -----------------------------
(* All the trees with the number of blocks that the configuration gives.   *)
EXTENDS KoreFile

EvenBlocks == {b \in Blocks : b % 2 = 0}
=============================================================================
