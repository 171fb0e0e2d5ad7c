--------------------------- MODULE MCTaskReactor ---------------------------
(***************************************************************************)
(* TaskReactor for TLC: two threads and a reactor of one task per cycle.   *)
(***************************************************************************)
EXTENDS TaskReactor
=============================================================================
