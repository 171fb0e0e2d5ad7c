---------------------------- MODULE MCContainers ----------------------------
(***************************************************************************)
(* Containers for TLC: a backpack and a bag of two places, a pouch of one, *)
(* and a chest that ignores its capacity.                                  *)
(***************************************************************************)
EXTENDS Containers, TLC

CONSTANTS backpack, bag, pouch, chest

Capacities == [c \in Container |-> IF c = chest THEN 8 ELSE IF c = pouch THEN 1 ELSE 2]
ShortChest == [c \in Container |-> IF c = chest THEN 1 ELSE 2]

Symmetry == Permutations(Kind)
=============================================================================
