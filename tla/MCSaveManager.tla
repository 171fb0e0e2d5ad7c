--------------------------- MODULE MCSaveManager ---------------------------
(***************************************************************************)
(* Instances of SaveManager for TLC.                                       *)
(***************************************************************************)
EXTENDS SaveManager, TLC

\* Players, changes and callers are interchangeable in the safety runs.
Symmetry == Permutations(Guid) \cup Permutations(Change) \cup Permutations(Waiter)
=============================================================================
