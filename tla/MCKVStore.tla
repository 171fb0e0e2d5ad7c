----------------------------- MODULE MCKVStore -----------------------------
(***************************************************************************)
(* KVStore for TLC: a cache of two keys out of three, one pool thread that *)
(* saves evictions beside the dispatcher, at most MaxPending of them.      *)
(***************************************************************************)
EXTENDS KVStore, TLC

Symmetry == Permutations(Key) \cup Permutations(Value)
=============================================================================
