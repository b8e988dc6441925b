------------------------ MODULE MCSaleInvoiceCreate ------------------------
(* Instances of SaleInvoiceCreate for TLC. *)
EXTENDS SaleInvoiceCreate

CONSTANTS c1, c2, c3, anna, bert

(* One date and amount, two customers: a client and one that is described inline. *)
OneEvent == [c \in Sale |-> "sale"]
TwoCustomers == [c \in Sale |-> IF c = c1 THEN anna ELSE bert]
AnnaKnown == <<anna>>
=============================================================================
