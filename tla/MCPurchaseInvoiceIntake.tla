---------------------- MODULE MCPurchaseInvoiceIntake ----------------------
(* Instances of PurchaseInvoiceIntake for TLC. *)
EXTENDS PurchaseInvoiceIntake

CONSTANTS c1, c2

(* Every pair of ways of which one can recognize the other's invoice, in one order: the
   first call that comes may be either. *)
Rank == [reading |-> 1, document |-> 2, pdf |-> 3, receipt |-> 4, bank |-> 5]
EveryPair == {f \in [Call -> Path] : \A c, d \in Call : c = c1 /\ d = c2 =>
                 /\ Rank[f[c]] <= Rank[f[d]]
                 /\ f[d] = "bank" => f[c] \in {"reading", "bank"}}

OnlyBank == [Call -> {"bank"}]
OnlyReceipt == [Call -> {"receipt"}]
=============================================================================
