------------------------- MODULE MCServiceLifespan -------------------------
(* The instance of ServiceLifespan that TLC runs. *)
EXTENDS ServiceLifespan, TLC
=============================================================================
