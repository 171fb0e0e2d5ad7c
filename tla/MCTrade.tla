------------------------------ MODULE MCTrade ------------------------------
(***************************************************************************)
(* Trade for TLC: three traders, so that somebody else is always near a    *)
(* trade; a bag, a pouch and a coin, so that offers can nest; the squares  *)
(* 0, 1 and 3: within reach, near enough to trade, too far.                *)
(***************************************************************************)
EXTENDS Trade, TLC

Symmetry == Permutations(Player) \cup Permutations(Container)
=============================================================================
