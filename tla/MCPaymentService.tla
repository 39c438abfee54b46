------------------------- MODULE MCPaymentService -------------------------
(* Model values and symmetry for the TLC runs of PaymentService. *)
EXTENDS PaymentService, TLC

Symmetry == Permutations(Operations) \cup Permutations(PaymentIds)
=============================================================================
