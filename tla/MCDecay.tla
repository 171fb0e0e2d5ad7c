------------------------------ MODULE MCDecay ------------------------------
(***************************************************************************)
(* Decay for TLC: a lit torch burns down to a stump, an unlit one keeps    *)
(* its time, a splash vanishes.                                            *)
(***************************************************************************)
EXTENDS Decay

CONSTANTS lit, unlit, stump, splash

DecayTime == [t \in Type |-> IF t = lit THEN 2 ELSE IF t = splash THEN 1 ELSE 0]
DecayTo == [t \in Type |-> IF t = lit THEN stump ELSE IF t = splash THEN Vanish ELSE Never]
=============================================================================
