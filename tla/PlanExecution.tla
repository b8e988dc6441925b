--------------------------- MODULE PlanExecution ---------------------------
(***************************************************************************)
(* runPlanCommands (src/src/plan-execution.ts): the loop every reviewed    *)
(* plan runs through, whatever its commands book.  It is the abstract      *)
(* specification of an execute: the commands run in their order, each is   *)
(* prepared and then mutates at most once, the first drift, failure or     *)
(* unknown outcome stops the run, and the report says where.               *)
(*                                                                         *)
(* touched is what the report talks about: the commands whose write the    *)
(* outside world has seen.  A write may land after the loop stopped, but   *)
(* only one whose outcome the loop called unknown.                         *)
(***************************************************************************)
EXTENDS Naturals, Sequences

VARIABLES
    commands,   \* the commands of the run, in order
    doing,      \* what the loop is at
    outcome,    \* the partition of each command the loop went past, in order
    mayHave,    \* mutation_may_have_occurred
    stop,       \* stop_reason.category
    touched     \* positions whose write took place

planVars == <<commands, doing, outcome, mayHave, stop, touched>>

Partition == {"completed", "skipped", "failed", "indeterminate"}
Stop == {"none", "plan_drift", "mutation_failed", "mutation_indeterminate"}

(* The position the loop is at. *)
At == Len(outcome) + 1

PlanInit ==
    /\ commands = << >>
    /\ doing = "idle"
    /\ outcome = << >>
    /\ mayHave = FALSE
    /\ stop = "none"
    /\ touched = {}

-----------------------------------------------------------------------------
(* Record the partition of the command and go on with the next one, or return. *)
Proceed(part) ==
    /\ outcome' = Append(outcome, part)
    /\ doing' = IF Len(outcome') = Len(commands) THEN "over" ELSE "prepare"
    /\ UNCHANGED <<commands, stop>>

Halt(part, reason) ==
    /\ outcome' = Append(outcome, part)
    /\ doing' = "over"
    /\ stop' = reason
    /\ UNCHANGED commands

Begin ==
    /\ doing = "idle"
    /\ commands' \in Seq(Nat)
    /\ doing' = IF commands' = << >> THEN "over" ELSE "prepare"
    /\ UNCHANGED <<outcome, mayHave, stop, touched>>

Ready ==
    /\ doing = "prepare"
    /\ doing' = "mutate"
    /\ UNCHANGED <<commands, outcome, mayHave, stop, touched>>

Skip ==
    /\ doing = "prepare"
    /\ Proceed("skipped")
    /\ UNCHANGED <<mayHave, touched>>

Drift ==
    /\ doing = "prepare"
    /\ Halt("failed", "plan_drift")
    /\ UNCHANGED <<mayHave, touched>>

(* prepare throws or returns something else. *)
PrepareFails ==
    /\ doing = "prepare"
    /\ Halt("failed", "mutation_failed")
    /\ UNCHANGED <<mayHave, touched>>

(* The write of the command at hand, or of the one whose outcome is unknown. *)
Write ==
    /\ \/ doing \in {"mutate", "lost"} /\ touched' = touched \cup {At}
       \/ /\ stop = "mutation_indeterminate"
          /\ touched' = touched \cup {Len(outcome)}
    /\ UNCHANGED <<commands, doing, outcome, mayHave, stop>>

Complete ==
    /\ doing = "mutate"
    /\ At \in touched
    /\ mayHave' = TRUE
    /\ Proceed("completed")
    /\ UNCHANGED touched

(* mutate reports a failure; it says whether something was written first. *)
Fail(occurred) ==
    /\ doing = "mutate"
    /\ At \in touched => occurred
    /\ mayHave' = (mayHave \/ occurred)
    /\ Halt("failed", "mutation_failed")
    /\ UNCHANGED touched

(* mutate throws, reports an unknown outcome or returns something invalid. *)
Unknown ==
    /\ doing = "mutate"
    /\ mayHave' = TRUE
    /\ Halt("indeterminate", "mutation_indeterminate")
    /\ UNCHANGED touched

(* The process dies: no report is returned, a write under way may still land. *)
Abandon ==
    /\ doing \in {"idle", "prepare", "mutate"}
    /\ doing' = IF doing = "mutate" THEN "lost" ELSE "dead"
    /\ UNCHANGED <<commands, outcome, mayHave, stop, touched>>

PlanNext ==
    \/ Begin \/ Ready \/ Skip \/ Drift \/ PrepareFails
    \/ Write \/ Complete \/ (\E occurred \in BOOLEAN : Fail(occurred)) \/ Unknown
    \/ Abandon

PlanSpec == PlanInit /\ [][PlanNext]_planVars

-----------------------------------------------------------------------------
(* buildReport. *)
Status ==
    IF stop = "none" THEN "completed"
    ELSE IF stop = "mutation_indeterminate" \/ mayHave THEN "partial_execution"
    ELSE stop

Reported(part) == {i \in 1..Len(outcome) : outcome[i] = part}

NotAttempted == {i \in 1..Len(commands) : i > Len(outcome)}

PlanTypeOK ==
    /\ commands \in Seq(Nat)
    /\ doing \in {"idle", "prepare", "mutate", "over", "lost", "dead"}
    /\ outcome \in Seq(Partition)
    /\ mayHave \in BOOLEAN
    /\ stop \in Stop
    /\ touched \subseteq 1..Len(commands)

(* What the report says of the books is true: a command reported skipped or not
   attempted wrote nothing, one reported completed wrote, and the whole run wrote
   nothing unless mutation_may_have_occurred (src/src/plan-execution.ts:224). *)
ReportTellsTruth ==
    doing = "over" =>
        /\ Reported("completed") \subseteq touched
        /\ touched \cap (Reported("skipped") \cup NotAttempted) = {}
        /\ (touched # {} => mayHave)
        /\ (Status \in {"plan_drift", "mutation_failed"} => touched = {})

(* Everything before the command the run stopped at was completed or skipped, and
   that command is the last one the report puts in a partition. *)
StopsAtTheFirst ==
    /\ \A i \in 1..Len(outcome) :
          outcome[i] \in {"failed", "indeterminate"} => i = Len(outcome) /\ doing = "over"
    /\ (doing = "over" /\ stop = "none" => Len(outcome) = Len(commands))

=============================================================================
