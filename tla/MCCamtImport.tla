---------------------------- MODULE MCCamtImport ----------------------------
(* Instances of CamtImport for TLC. *)
EXTENDS CamtImport, TLC

CONSTANTS c1, c2, p1, p2, k1

(* One call per process. *)
SpreadProcOf == (c1 :> p1) @@ (c2 :> p2)

(* Two identical legs of one statement entry. *)
TwinLegs == (1 :> k1) @@ (2 :> k1)
=============================================================================
