--------------------------- MODULE MCRibsBlockstore ---------------------------
(* Small instances of RibsBlockstore for TLC. *)
EXTENDS RibsBlockstore, TLC

Symmetry == Permutations(Block) \cup Permutations(Putter) \cup Permutations(Flusher)
===============================================================================
