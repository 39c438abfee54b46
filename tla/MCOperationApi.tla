--------------------------- MODULE MCOperationApi ---------------------------
(* Symmetry for the TLC run of OperationApi. *)
EXTENDS OperationApi, TLC

Symmetry == Permutations(Tx) \cup Permutations(PaymentIds)
=============================================================================
