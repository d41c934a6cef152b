---------------------------- MODULE MCTestPrograms ----------------------------
EXTENDS TestPrograms

(* Every value of a byte at every place of a block. *)
SomeBlocks == {<<b, (0..7) \ b, b>> : b \in Byte}

(* Characters at the borders of the ranges of the alphabet, inside and outside. *)
BorderCharacters == {43, 46, 47, 57, 58, 61, 65, 122, 255}
=============================================================================
