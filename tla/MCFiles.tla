------------------------------- MODULE MCFiles -------------------------------
(* Instances of RepositoryFiles for TLC. *)
EXTENDS RepositoryFiles, TLC

Symmetry == Permutations(Proc) \cup Permutations(Snapshot)
===============================================================================
