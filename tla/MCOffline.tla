------------------------------- MODULE MCOffline -------------------------------
(* Instances of Offline for TLC. *)
EXTENDS Offline

Symmetry == Permutations(Entities)
================================================================================
