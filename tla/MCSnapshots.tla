----------------------------- MODULE MCSnapshots -----------------------------
(* Small instances of Snapshots for TLC.                                     *)
EXTENDS Snapshots, TLC

Symmetry == Permutations(Docs) \cup Permutations(Rebuilds)
=============================================================================
