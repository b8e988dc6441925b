----------------------- MODULE MCTransactionConfirm -----------------------
(* Instances of TransactionConfirm for TLC. *)
EXTENDS TransactionConfirm, TLC

CONSTANTS c1, c2, p1, i1, i2, ann, bob

(* Two confirms of one process: c1 may reassign the client and links two invoices,
   c2 was reviewed. *)
PairProcOf == (c1 :> p1) @@ (c2 :> p1)
PairLinks == (c1 :> {i1, i2}) @@ (c2 :> {i1})
=============================================================================
