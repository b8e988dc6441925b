---------------------------- MODULE AbstractLock ----------------------------
(***************************************************************************)
(* What withOwnedFileLock promises its callers, independent of how the     *)
(* lock file is published, probed and reclaimed: a call waits, holds the   *)
(* lock at most once and alone, and finishes.  Finishing is the same for a *)
(* call that ran its callback, one that timed out and one whose process    *)
(* died; a dead process takes all its calls with it in one step.           *)
(***************************************************************************)
CONSTANT Call      \* the calls of withOwnedFileLock on one lock path

VARIABLE phase     \* phase[c]: what call c is doing, seen from outside

Phases == {"waiting", "holding", "finished"}

Init == phase = [c \in Call |-> "waiting"]

Enter(c) ==
    /\ phase[c] = "waiting"
    /\ \A d \in Call : phase[d] # "holding"
    /\ phase' = [phase EXCEPT ![c] = "holding"]

Finish(S) ==
    phase' = [c \in Call |-> IF c \in S THEN "finished" ELSE phase[c]]

Next == (\E c \in Call : Enter(c)) \/ (\E S \in SUBSET Call : Finish(S))

Spec == Init /\ [][Next]_phase

=============================================================================
