-------------------------- MODULE MCServerRuntime --------------------------
(* An instance of ServerRuntime for TLC: two connections, two dry runs, one of them
   by a read-only tool, two executes and two switches, there and back. *)
EXTENDS ServerRuntime, TLC

CONSTANTS d1, d2, e1, e2, s1, s2

Targets == (s1 :> 1) @@ (s2 :> 0)
Domains == (d1 :> "camt") @@ (d2 :> "wise") @@ (e1 :> "camt") @@ (e2 :> "wise")
Wanted == [c \in Call |-> IF c = e2 THEN 0 ELSE None]
=============================================================================
