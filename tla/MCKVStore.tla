------------------------------ MODULE MCKVStore ------------------------------
(***************************************************************************)
(* KVStore for TLC.  Values are interchangeable (cells are not: Alloc).    *)
(***************************************************************************)
EXTENDS KVStore, TLC

Symmetry == Permutations(Values)
=============================================================================
