------------------------ MODULE MCBankReconciliation ------------------------
(* An instance of BankReconciliation for TLC: two server processes with one call each. *)
EXTENDS BankReconciliation

CONSTANTS c1, c2
=============================================================================
