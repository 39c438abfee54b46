------------------------ MODULE MCDeliverySchedule ------------------------
(* Symmetry for the TLC run of DeliverySchedule. *)
EXTENDS DeliverySchedule, TLC

Symmetry == Permutations(Operations)
=============================================================================
