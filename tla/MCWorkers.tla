----------------------------- MODULE MCWorkers -----------------------------
(***************************************************************************)
(* Workers for TLC: two pool threads with two jobs, two queries of the     *)
(* dispatcher and a network thread.                                        *)
(***************************************************************************)
EXTENDS Workers
=============================================================================
