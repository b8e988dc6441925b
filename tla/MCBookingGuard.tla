--------------------------- MODULE MCBookingGuard ---------------------------
(* Instances of BookingGuard for TLC. *)
EXTENDS BookingGuard, TLC

CONSTANTS c1, c2, c3, p1, p2, k1

(* Two calls of p1 and one of p2, all with the same credentials. *)
MixedProcOf == (c1 :> p1) @@ (c2 :> p1) @@ (c3 :> p2)
OneConnection == [c \in Call |-> k1]
=============================================================================
