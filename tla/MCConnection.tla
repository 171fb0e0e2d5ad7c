---------------------------- MODULE MCConnection ----------------------------
(***************************************************************************)
(* Connection for TLC: two connections, two addresses of one each.         *)
(***************************************************************************)
EXTENDS Connection
=============================================================================
