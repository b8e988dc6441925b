-------------------------- MODULE MCOwnedFileLock --------------------------
(* Instances of OwnedFileLock for TLC. *)
EXTENDS OwnedFileLock, TLC

CONSTANTS c1, c2, c3, c4, p1, p2, p3, p4

(* Three calls queue in p1, a fourth comes from p2; p3 makes no call but may be
   given the pid of p1. *)
QueueProcOf == (c1 :> p1) @@ (c2 :> p1) @@ (c3 :> p1) @@ (c4 :> p2)
ReusedPid == (p1 :> 1) @@ (p2 :> 2) @@ (p3 :> 1)

(* One call per process. *)
WideProcOf == (c1 :> p1) @@ (c2 :> p2) @@ (c3 :> p3) @@ (c4 :> p4)
WidePids == (p1 :> 1) @@ (p2 :> 2) @@ (p3 :> 3) @@ (p4 :> 4)
=============================================================================
