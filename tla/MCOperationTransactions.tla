---------------------- MODULE MCOperationTransactions ----------------------
(* Symmetry for the TLC runs of OperationTransactions. *)
EXTENDS OperationTransactions, TLC

Symmetry == Permutations(Tx) \cup Permutations(PaymentIds)
=============================================================================
