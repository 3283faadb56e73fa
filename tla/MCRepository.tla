---------------------------- MODULE MCRepository ----------------------------
(* Instances of Repository for TLC: two file chunks, one fingerprint blob. *)
EXTENDS RepositoryInvariant, TLC

CONSTANTS a, b, f

(* Two sources, one a subset of the other, and a fingerprint of its own.   *)
DisjointFiles == {{a}, {a, b}}
DisjointFingerprints == {{f}}

(* One source of two chunks, for the run with three writers.               *)
FullFiles == {{a, b}}

(* A file of the source is also a blob of the fingerprint: System.map,     *)
(* initrd and vmlinuz below /boot are persisted whole.                     *)
SharedFingerprints == {{a, f}}

CommandSymmetry == Permutations(Writer) \cup Permutations(Pruner)
=============================================================================
