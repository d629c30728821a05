------------------------------ MODULE MCCache --------------------------------
(* Cache with model values for the blocks, and one or two words per block. *)
EXTENDS Cache

CONSTANTS x, y, z

TwoBlocks == {x, y}
ThreeBlocks == {x, y, z}
OneWord == {0}
TwoWords == {0, 1}

\* Blocks are only compared: they may be renamed.
Symmetry == Permutations(Blocks)
==============================================================================
