---------------------------- MODULE MCWiseImport ----------------------------
(* An instance of WiseImport for TLC. *)
EXTENDS WiseImport

CONSTANTS c1, c2, p1

(* Both calls are served by one process, whose gate serializes their executes. *)
OneProcess == [c \in {c1, c2} |-> p1]
=============================================================================
