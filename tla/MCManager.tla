------------------------------ MODULE MCManager -------------------------------
(* Small instances of Manager for TLC. *)
EXTENDS Manager, TLC

Symmetry == Permutations(GroupKey) \cup Permutations(Writer) \cup Permutations(Worker)
===============================================================================
