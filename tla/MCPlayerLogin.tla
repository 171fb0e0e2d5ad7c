--------------------------- MODULE MCPlayerLogin ---------------------------
(***************************************************************************)
(* Instances of PlayerLogin for TLC.                                       *)
(***************************************************************************)
EXTENDS PlayerLogin, TLC

\* Accounts with one character each.
OwnAccounts == [g \in Guid |-> g]

\* The connections are interchangeable in the safety run.
Symmetry == Permutations(Waiter)
=============================================================================
