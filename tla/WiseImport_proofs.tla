------------------------ MODULE WiseImport_proofs ------------------------
(***************************************************************************)
(* What TLAPS proves of the two loops that carry out the commands of a     *)
(* reviewed plan: of runPlanCommands (PlanExecution), for plans of any     *)
(* length, whatever their commands do, and of the import of a Wise         *)
(* statement (WiseImport), which has a loop of its own, for any number of  *)
(* calls, processes and statement rows.  The two modules share no name.    *)
(***************************************************************************)
EXTENDS PlanExecution, WiseImport, FiniteSetTheorems, TLAPS

-----------------------------------------------------------------------------
(* PlanExecution. *)

(* Where the loop may have got to: before it begins there is nothing, while it runs
   there is a command left and no stop. *)
LoopShape ==
    /\ doing = "idle" => commands = << >> /\ outcome = << >> /\ touched = {}
    /\ doing \in {"prepare", "mutate", "lost"} => Len(outcome) < Len(commands)
    /\ doing # "over" => stop = "none"
    /\ Len(outcome) <= Len(commands)
    /\ StopsAtTheFirst

(* What was written: by the commands the loop went past, and by the one it was at
   when it was allowed to write. *)
WritesShape ==
    /\ \A i \in touched : i <= Len(outcome) \/ (i = At /\ doing \in {"mutate", "lost"})
    /\ \A i \in touched : i <= Len(outcome) => mayHave
    /\ \A i \in 1..Len(outcome) :
          /\ outcome[i] = "completed" => i \in touched
          /\ outcome[i] = "skipped" => i \notin touched
    /\ stop = "mutation_indeterminate" =>
          Len(outcome) > 0 /\ outcome[Len(outcome)] = "indeterminate" /\ mayHave

PlanInv == PlanTypeOK /\ LoopShape /\ WritesShape

-----------------------------------------------------------------------------
LEMMA PlanStarts == PlanInit => PlanInv
<1> SUFFICES ASSUME PlanInit PROVE PlanInv
  OBVIOUS
<1>1. Len(outcome) = 0 /\ Len(commands) = 0 /\ 1..0 = {}
  BY DEF PlanInit
<1>2. PlanTypeOK
  <2>1. << >> \in Seq(Nat) /\ << >> \in Seq(Partition)
    OBVIOUS
  <2>2. QED
    BY <2>1 DEF PlanInit, PlanTypeOK, Stop
<1>3. LoopShape /\ WritesShape
  BY <1>1 DEF PlanInit, LoopShape, WritesShape, StopsAtTheFirst
<1>4. QED
  BY <1>2, <1>3 DEF PlanInv

(* The loop records a partition for the command it is at, and goes on. *)
LEMMA ProceedKeeps ==
  ASSUME PlanInv, doing \in {"prepare", "mutate"},
         NEW kind \in {"completed", "skipped"}, Proceed(kind),
         UNCHANGED touched, mayHave' \in BOOLEAN, mayHave => mayHave',
         kind = "completed" => mayHave' /\ At \in touched,
         kind = "skipped" => At \notin touched
  PROVE  PlanInv'
<1> USE DEF PlanInv
<1>1. /\ outcome \in Seq(Partition) /\ commands \in Seq(Nat)
      /\ Len(outcome) \in Nat /\ Len(commands) \in Nat /\ Len(outcome) < Len(commands)
      /\ stop = "none"
  BY DEF PlanTypeOK, LoopShape
<1>2. /\ outcome' \in Seq(Partition) /\ Len(outcome') = Len(outcome) + 1
      /\ outcome'[Len(outcome) + 1] = kind
      /\ \A i \in 1..Len(outcome) : outcome'[i] = outcome[i]
      /\ commands' = commands /\ stop' = stop
      /\ doing' = IF Len(outcome') = Len(commands) THEN "over" ELSE "prepare"
  BY <1>1 DEF Proceed, Partition
<1>3. PlanTypeOK'
  BY <1>2 DEF PlanTypeOK
<1>4. LoopShape'
  <2>1. \A i \in 1..Len(outcome) : outcome[i] \notin {"failed", "indeterminate"}
    BY DEF LoopShape, StopsAtTheFirst
  <2>2. \A i \in 1..Len(outcome') : outcome'[i] \notin {"failed", "indeterminate"}
    <3> SUFFICES ASSUME NEW i \in 1..Len(outcome')
                 PROVE  outcome'[i] \notin {"failed", "indeterminate"}
      OBVIOUS
    <3>1. i = Len(outcome) + 1 \/ i \in 1..Len(outcome)
      BY <1>1, <1>2
    <3>2. QED
      BY <1>2, <2>1, <3>1
  <2>3. StopsAtTheFirst'
    BY <1>1, <1>2, <2>2 DEF StopsAtTheFirst
  <2>4. QED
    BY <1>1, <1>2, <2>3 DEF LoopShape
<1>5. WritesShape'
  <2>1. \A i \in touched' : i \in Nat /\ i <= Len(outcome')
    BY <1>1, <1>2 DEF WritesShape, PlanTypeOK, At
  <2>2. \A i \in touched' : mayHave'
    BY <1>1, <2>1, <1>2 DEF WritesShape, At
  <2>3. \A i \in 1..Len(outcome') : /\ outcome'[i] = "completed" => i \in touched'
                                    /\ outcome'[i] = "skipped" => i \notin touched'
    BY <1>1, <1>2 DEF WritesShape, At
  <2>4. QED
    BY <1>1, <1>2, <2>1, <2>2, <2>3 DEF WritesShape
<1>6. QED
  BY <1>3, <1>4, <1>5

(* The loop records a partition and stops. *)
LEMMA HaltKeeps ==
  ASSUME PlanInv, doing \in {"prepare", "mutate"},
         NEW kind \in {"failed", "indeterminate"}, NEW reason \in Stop \ {"none"},
         Halt(kind, reason),
         UNCHANGED touched, mayHave' \in BOOLEAN, mayHave => mayHave',
         At \in touched => mayHave',
         reason = "mutation_indeterminate" => kind = "indeterminate" /\ mayHave'
  PROVE  PlanInv'
<1> USE DEF PlanInv
<1>1. /\ outcome \in Seq(Partition) /\ commands \in Seq(Nat)
      /\ Len(outcome) \in Nat /\ Len(commands) \in Nat /\ Len(outcome) < Len(commands)
  BY DEF PlanTypeOK, LoopShape
<1>2. /\ outcome' \in Seq(Partition) /\ Len(outcome') = Len(outcome) + 1
      /\ outcome'[Len(outcome) + 1] = kind
      /\ \A i \in 1..Len(outcome) : outcome'[i] = outcome[i]
      /\ commands' = commands /\ stop' = reason /\ doing' = "over"
  BY <1>1 DEF Halt, Partition
<1>3. PlanTypeOK'
  BY <1>2 DEF PlanTypeOK
<1>4. LoopShape'
  <2>1. \A i \in 1..Len(outcome) : outcome[i] \notin {"failed", "indeterminate"}
    BY DEF LoopShape, StopsAtTheFirst
  <2>2. StopsAtTheFirst'
    BY <1>1, <1>2, <2>1 DEF StopsAtTheFirst
  <2>3. QED
    BY <1>1, <1>2, <2>2 DEF LoopShape
<1>5. WritesShape'
  <2>1. \A i \in touched' : i \in Nat /\ i <= Len(outcome')
    BY <1>1, <1>2 DEF WritesShape, PlanTypeOK, At
  <2>2. \A i \in touched' : mayHave'
    BY <1>1, <2>1, <1>2 DEF WritesShape, At
  <2>3. \A i \in 1..Len(outcome') : /\ outcome'[i] = "completed" => i \in touched'
                                    /\ outcome'[i] = "skipped" => i \notin touched'
    <3>1. \A i \in 1..Len(outcome) : /\ outcome[i] = "completed" => i \in touched
                                     /\ outcome[i] = "skipped" => i \notin touched
      BY DEF WritesShape
    <3>2. kind # "completed" /\ kind # "skipped"
      OBVIOUS
    <3>3. \A i \in 1..Len(outcome') : i \in 1..Len(outcome) \/ i = Len(outcome) + 1
      BY <1>1, <1>2
    <3>4. QED
      BY <1>2, <3>1, <3>2, <3>3
  <2>4. QED
    BY <1>1, <1>2, <2>1, <2>2, <2>3 DEF WritesShape
<1>6. QED
  BY <1>3, <1>4, <1>5

(* While the loop prepares a command, that command has not written. *)
LEMMA NothingAhead ==
  ASSUME PlanInv, doing = "prepare"
  PROVE  At \notin touched
  BY DEF PlanInv, WritesShape, PlanTypeOK, At

LEMMA WriteKeeps ==
  ASSUME PlanInv, Write
  PROVE  PlanInv'
<1> USE DEF PlanInv
<1>1. UNCHANGED <<commands, doing, outcome, mayHave, stop>>
  BY DEF Write
<1>2. /\ outcome \in Seq(Partition) /\ commands \in Seq(Nat)
      /\ Len(outcome) \in Nat /\ Len(commands) \in Nat /\ Len(outcome) <= Len(commands)
  BY DEF PlanTypeOK, LoopShape
<1>3. CASE doing \in {"mutate", "lost"} /\ touched' = touched \cup {At}
  <2>1. Len(outcome) < Len(commands) /\ stop = "none"
    BY <1>3 DEF LoopShape
  <2>2. PlanTypeOK'
    <3>1. At \in 1..Len(commands)
      BY <1>2, <2>1 DEF At
    <3>2. QED
      BY <1>1, <1>3, <3>1 DEF PlanTypeOK
  <2>3. LoopShape'
    BY <1>1, <1>3 DEF LoopShape, StopsAtTheFirst
  <2>4. WritesShape'
    BY <1>1, <1>2, <1>3, <2>1 DEF WritesShape, At
  <2>5. QED
    BY <2>2, <2>3, <2>4
<1>4. CASE stop = "mutation_indeterminate" /\ touched' = touched \cup {Len(outcome)}
  <2>1. Len(outcome) > 0 /\ outcome[Len(outcome)] = "indeterminate" /\ mayHave /\ doing = "over"
    BY <1>4 DEF WritesShape, LoopShape
  <2>2. PlanTypeOK'
    <3>1. Len(outcome) \in 1..Len(commands)
      BY <1>2, <2>1
    <3>2. QED
      BY <1>1, <1>4, <3>1 DEF PlanTypeOK
  <2>3. LoopShape'
    BY <1>1, <1>4, <2>1 DEF LoopShape, StopsAtTheFirst
  <2>4. WritesShape'
    BY <1>1, <1>2, <1>4, <2>1 DEF WritesShape, At
  <2>5. QED
    BY <2>2, <2>3, <2>4
<1>5. QED
  BY <1>3, <1>4 DEF Write

(* Begin, Ready and Abandon write nothing and record nothing. *)
LEMMA PlanMoves ==
  ASSUME PlanInv, Begin \/ Ready \/ Abandon
  PROVE  PlanInv'
<1> USE DEF PlanInv
<1>1. CASE Begin
  <2>1. /\ commands' \in Seq(Nat) /\ Len(commands') \in Nat
        /\ outcome = << >> /\ touched = {} /\ Len(outcome) = 0 /\ stop = "none"
        /\ doing' = IF commands' = << >> THEN "over" ELSE "prepare"
        /\ UNCHANGED <<outcome, mayHave, stop, touched>>
    BY <1>1 DEF Begin, LoopShape
  <2>2. PlanTypeOK'
    BY <2>1 DEF PlanTypeOK
  <2>3. LoopShape'
    BY <2>1 DEF LoopShape, StopsAtTheFirst
  <2>4. WritesShape'
    BY <2>1 DEF WritesShape
  <2>5. QED
    BY <2>2, <2>3, <2>4
<1>2. CASE Ready
  BY <1>2 DEF Ready, PlanTypeOK, LoopShape, WritesShape, StopsAtTheFirst, At
<1>3. CASE Abandon
  BY <1>3 DEF Abandon, PlanTypeOK, LoopShape, WritesShape, StopsAtTheFirst, At
<1>4. QED
  BY <1>1, <1>2, <1>3

LEMMA PlanStep == PlanInv /\ [PlanNext]_planVars => PlanInv'
<1> SUFFICES ASSUME PlanInv, [PlanNext]_planVars
             PROVE  PlanInv'
  OBVIOUS
<1>0. mayHave \in BOOLEAN
  BY DEF PlanInv, PlanTypeOK
<1>1. CASE Begin \/ Ready \/ Abandon
  BY <1>1, PlanMoves
<1>2. CASE Skip
  <2>1. At \notin touched /\ Proceed("skipped") /\ UNCHANGED <<mayHave, touched>>
    BY <1>2, NothingAhead DEF Skip
  <2>2. QED
    BY <1>0, <1>2, <2>1, ProceedKeeps DEF Skip
<1>3. CASE Drift
  <2>1. At \notin touched /\ Halt("failed", "plan_drift") /\ UNCHANGED <<mayHave, touched>>
    BY <1>3, NothingAhead DEF Drift
  <2>2. QED
    BY <1>0, <1>3, <2>1, HaltKeeps DEF Drift, Stop
<1>4. CASE PrepareFails
  <2>1. At \notin touched /\ Halt("failed", "mutation_failed") /\ UNCHANGED <<mayHave, touched>>
    BY <1>4, NothingAhead DEF PrepareFails
  <2>2. QED
    BY <1>0, <1>4, <2>1, HaltKeeps DEF PrepareFails, Stop
<1>5. CASE Write
  BY <1>5, WriteKeeps
<1>6. CASE Complete
  BY <1>0, <1>6, ProceedKeeps DEF Complete
<1>7. CASE \E occurred \in BOOLEAN : Fail(occurred)
  <2>1. PICK occurred \in BOOLEAN : Fail(occurred)
    BY <1>7
  <2>2. QED
    BY <1>0, <2>1, HaltKeeps DEF Fail, Stop
<1>8. CASE Unknown
  BY <1>0, <1>8, HaltKeeps DEF Unknown, Stop
<1>9. CASE UNCHANGED planVars
  BY <1>9 DEF planVars, PlanInv, PlanTypeOK, LoopShape, WritesShape, StopsAtTheFirst, At
<1>10. QED
  BY <1>1, <1>2, <1>3, <1>4, <1>5, <1>6, <1>7, <1>8, <1>9 DEF PlanNext

(* The state of a run has its type and shape. *)
THEOREM PlanInvariant == PlanSpec => []PlanInv
<1>1. QED
  BY PlanStarts, PlanStep, PTL DEF PlanSpec

(* What is written is written by a command the report knows of, and an unwritten
   report is of a run that wrote nothing. *)
LEMMA InvariantTellsTruth == PlanInv => ReportTellsTruth
<1> SUFFICES ASSUME PlanInv, doing = "over"
             PROVE  /\ Reported("completed") \subseteq touched
                    /\ touched \cap (Reported("skipped") \cup NotAttempted) = {}
                    /\ (touched # {} => mayHave)
                    /\ (Status \in {"plan_drift", "mutation_failed"} => touched = {})
  BY DEF ReportTellsTruth
<1>1. \A i \in touched : i <= Len(outcome) /\ mayHave
  BY DEF PlanInv, WritesShape
<1>2. Len(outcome) \in Nat /\ Len(commands) \in Nat /\ touched \subseteq 1..Len(commands)
  BY DEF PlanInv, PlanTypeOK
<1>3. Reported("completed") \subseteq touched
  BY DEF PlanInv, WritesShape, Reported
<1>4. touched \cap Reported("skipped") = {}
  BY DEF PlanInv, WritesShape, Reported
<1>5. touched \cap NotAttempted = {}
  BY <1>1, <1>2 DEF NotAttempted
<1>6. Status \in {"plan_drift", "mutation_failed"} => ~mayHave
  BY DEF Status
<1>7. QED
  BY <1>1, <1>3, <1>4, <1>5, <1>6

(* The report of a run tells the truth, for every plan. *)
THEOREM ReportsAreTrue == PlanSpec => []ReportTellsTruth
<1>1. QED
  BY PlanInvariant, InvariantTellsTruth, PTL

(* Nothing runs after the first stop. *)
THEOREM RunsStop == PlanSpec => []StopsAtTheFirst
<1>1. PlanInv => StopsAtTheFirst
  BY DEF PlanInv, LoopShape
<1>2. QED
  BY <1>1, PlanInvariant, PTL

-----------------------------------------------------------------------------
(* WiseImport. *)

(* Types. *)
Leg == {"main", "fee"}
Command == [act : {"main", "fee", "inter"}, row : StatementRow]
Row == {t \in [by : Call, leg : Leg, row : StatementRow, late : BOOLEAN,
                confirmedBy : SUBSET (Call \cup {"User", "Late"})] :
          t.confirmedBy \in {{}, {"User"}, {"Late"}, {t.by}}}
Request == [op : {"create", "confirm"}, call : Call, leg : Leg, row : StatementRow]

WiseTypeOK ==
    /\ txs \in Seq(Row)
    /\ mail \subseteq Request
    /\ gate \in [Process -> Seq(Call)]
    /\ step \in [Call -> Step]
    /\ plan \in [Call -> Seq(Command)]
    /\ part \in [Call -> Seq(Part)]
    /\ blocked \in [Call -> SUBSET StatementRow]
    /\ answer \in [Call -> {"none", "ok", "noId", "rejected"}]

(* The gate of a process holds each of its executes that waits or loops once, and only
   the one in front loops. *)
GateInv ==
    /\ \A p \in Process : \A i \in DOMAIN gate[p] :
          /\ ProcOf[gate[p][i]] = p
          /\ step[gate[p][i]] \in Looping \cup {"queued"}
          /\ \A j \in DOMAIN gate[p] : gate[p][i] = gate[p][j] => i = j
    /\ \A c \in Call : step[c] \in Looping \cup {"queued"} =>
          \E i \in DOMAIN gate[ProcOf[c]] : gate[ProcOf[c]][i] = c /\ (step[c] \in Looping => i = 1)

-----------------------------------------------------------------------------
(* What c did about a command: rows it created and confirmed, requests on their way. *)
Stored(c, cmd) == \E i \in Ids : txs[i].by = c /\ txs[i].leg = cmd.act /\ txs[i].row = cmd.row
CreateSent(c, cmd) == \E r \in mail : r.call = c /\ r.op = "create" /\ r.leg = cmd.act /\ r.row = cmd.row
Registered(c, cmd) == \E i \in Ids : txs[i].confirmedBy = {c} /\ txs[i].row = cmd.row /\ txs[i].leg = LegOf(cmd)
Untouched(c, cmd) == ~Wrote(c, cmd) /\ (cmd.act = "main" \/ ~Confirmed(c, cmd))

(* The plan of a call: no command twice, and the main create of a row ahead of what
   depends on it. *)
PlanShape(c) ==
    /\ step[c] \in {"preview", "reviewed", "projecting"} =>
          /\ plan[c] = << >> /\ part[c] = << >>
          /\ \A i \in Ids : txs[i].by # c /\ txs[i].confirmedBy # {c}
    /\ step[c] = "queued" => plan[c] # << >> /\ part[c] = << >>
    /\ step[c] \in Looping => Len(part[c]) < Len(plan[c])
    /\ step[c] = "over" => Len(part[c]) = Len(plan[c])
    /\ \A i, j \in 1..Len(plan[c]) :
          /\ plan[c][i] = plan[c][j] => i = j
          /\ plan[c][i].act # "main" /\ plan[c][j] = [act |-> "main", row |-> plan[c][i].row] => j < i

(* What the report says of the commands it went past. *)
Told(c, cmd, what) ==
    /\ what = "done" => /\ cmd.act # "inter" => Stored(c, cmd)
                        /\ cmd.act # "main" => Settled(c, cmd)
    /\ what \in {"dependency", "blocked", "stale", "rejected", "notAttempted"} => Untouched(c, cmd)
    /\ what = "orphan" => /\ cmd.act # "main"
                          /\ ~Confirmed(c, cmd)
                          /\ cmd.act = "fee" => Stored(c, cmd)

PartTold(c) == \A i \in 1..Len(part[c]) : Told(c, plan[c][i], part[c][i])

PartShape(c) ==
    /\ step[c] \in Looping => \A i \in 1..Len(part[c]) : part[c][i] \notin {"unknown", "notAttempted"}
    /\ step[c] = "over" => \A i, j \in 1..Len(part[c]) :
          part[c][i] = "unknown" => ((j > i) = (part[c][j] = "notAttempted"))
    /\ \A i \in 1..Len(part[c]) : part[c][i] = "dependency" =>
          \E j \in 1..(i - 1) : /\ plan[c][j] = [act |-> "main", row |-> plan[c][i].row]
                                /\ part[c][j] \in {"blocked", "stale", "rejected", "noId"}

(* Nothing is written ahead of the command at hand. *)
Ahead(c) == \A i \in 1..Len(plan[c]) : i > Len(part[c]) + 1 => Untouched(c, plan[c][i])

(* The command at hand. *)
AtHand(c, cmd) ==
    /\ step[c] \in {"queued", "command", "guard"} => Untouched(c, cmd)
    /\ step[c] \in {"guard", "creating"} => cmd.act # "inter"
    /\ step[c] = "creating" => /\ cmd.act = "fee" => ~Confirmed(c, cmd)
                               /\ answer[c] = "ok" => Stored(c, cmd)
                               /\ answer[c] \in {"none", "rejected"} => ~Stored(c, cmd)
    /\ step[c] = "check" => cmd.act = "fee" /\ ~Confirmed(c, cmd)
    /\ step[c] \in {"check", "confirming", "recover"} => cmd.act # "main" /\ (cmd.act = "fee" => Stored(c, cmd))
    /\ step[c] = "confirming" => /\ answer[c] = "ok" => Registered(c, cmd)
                                 /\ answer[c] \in {"none", "rejected"} => ~Registered(c, cmd)
                                 /\ answer[c] # "noId"

(* The request on its way is the one the call waits for, until it is answered, or the
   one it has given up on and reads the row about. *)
MailInv(c) ==
    \A r \in mail : r.call = c =>
        /\ step[c] \in {"creating", "confirming", "recover", "over", "dead"}
        /\ step[c] = "creating" => /\ r.op = "create" /\ answer[c] = "none"
                                   /\ r.leg = Current(c).act /\ r.row = Current(c).row
        /\ step[c] = "confirming" => /\ r.op = "confirm" /\ answer[c] = "none"
                                     /\ r.leg = LegOf(Current(c)) /\ r.row = Current(c).row
        /\ step[c] = "recover" => /\ r.op = "confirm"
                                  /\ r.leg = LegOf(Current(c)) /\ r.row = Current(c).row

Working(c) == step[c] \in Looping \cup {"queued"}

CallInv(c) ==
    /\ PlanShape(c)
    /\ MailInv(c)
    /\ Working(c) \/ step[c] = "over" => PartTold(c) /\ PartShape(c)
    /\ Working(c) => Ahead(c) /\ AtHand(c, Current(c))

(* While c creates or is about to, no row of the leg was made in time in its process. *)
Free(c) == \A j \in Ids : txs[j].leg = Current(c).act /\ txs[j].row = Current(c).row
               => txs[j].late \/ ProcOf[txs[j].by] # ProcOf[c]

FreeInv == \A c \in Call :
    step[c] = "guard" \/ (step[c] = "creating" /\ answer[c] = "none") => Free(c)

WiseInv ==
    /\ WiseTypeOK
    /\ GateInv
    /\ \A c \in Call : CallInv(c)
    /\ FreeInv
    /\ LegOncePerProcess

-----------------------------------------------------------------------------
(* Helpers: what the small operators of the model do to typed state. *)

LEMMA GotoEffect ==
  ASSUME WiseTypeOK, NEW c \in Call, NEW s \in Step, Goto(c, s)
  PROVE  /\ step' \in [Call -> Step] /\ step'[c] = s
         /\ \A d \in Call : d # c => step'[d] = step[d]
  BY DEF WiseTypeOK, Goto

LEMMA HeadLoops ==
  ASSUME WiseTypeOK, GateInv, NEW c \in Call, step[c] \in Looping
  PROVE  /\ ProcOf[c] \in Process
         /\ gate[ProcOf[c]] \in Seq(Call) /\ Len(gate[ProcOf[c]]) > 0
         /\ gate[ProcOf[c]][1] = c
<1>1. ProcOf[c] \in Process
  BY WiseAssumption
<1>2. PICK i \in DOMAIN gate[ProcOf[c]] : gate[ProcOf[c]][i] = c /\ i = 1
  BY DEF GateInv
<1>3. QED
  BY <1>1, <1>2 DEF WiseTypeOK

(* Two calls of one process do not loop at the same time. *)
LEMMA OneLoops ==
  ASSUME WiseTypeOK, GateInv, NEW c \in Call, NEW d \in Call,
         step[c] \in Looping, step[d] \in Looping, ProcOf[c] = ProcOf[d]
  PROVE  c = d
  BY HeadLoops

(* The gate stays in order while c loops on, and when the call in front enters. *)
LEMMA GateMove ==
  ASSUME WiseTypeOK, GateInv, NEW c \in Call, NEW s \in Step, Goto(c, s), gate' = gate,
         \/ s \in Looping /\ step[c] \in Looping
         \/ s \in Looping /\ step[c] = "queued" /\ gate[ProcOf[c]][1] = c
         \/ s \notin Looping \cup {"queued"} /\ step[c] \notin Looping \cup {"queued"}
  PROVE  GateInv'
<1>1. /\ step'[c] = s
      /\ \A d \in Call : d # c => step'[d] = step[d]
  BY GotoEffect
<1>2. ASSUME NEW p \in Process, NEW i \in DOMAIN gate[p]
      PROVE  gate[p][i] \in Call /\ step'[gate[p][i]] \in Looping \cup {"queued"}
  <2>1. gate[p][i] \in Call /\ step[gate[p][i]] \in Looping \cup {"queued"}
    BY <1>2 DEF WiseTypeOK, GateInv
  <2>2. QED
    BY <1>1, <2>1
<1>3. ASSUME NEW d \in Call, step'[d] \in Looping \cup {"queued"}
      PROVE  \E i \in DOMAIN gate[ProcOf[d]] : gate[ProcOf[d]][i] = d /\ (step'[d] \in Looping => i = 1)
  <2>1. CASE d # c
    BY <1>1, <1>3, <2>1 DEF GateInv
  <2>2. CASE d = c /\ step[c] \in Looping
    BY <1>1, <1>3, <2>2 DEF GateInv
  <2>3. CASE d = c /\ step[c] = "queued"
    <3>1. PICK i \in DOMAIN gate[ProcOf[c]] : gate[ProcOf[c]][i] = c
      BY <2>3 DEF GateInv
    <3>2. ProcOf[c] \in Process /\ gate[ProcOf[c]] \in Seq(Call)
      BY WiseAssumption DEF WiseTypeOK
    <3>3. 1 \in DOMAIN gate[ProcOf[c]]
      BY <3>1, <3>2
    <3>4. gate[ProcOf[c]][1] = c
      BY <2>3 DEF Looping
    <3>5. QED
      BY <2>3, <3>3, <3>4
  <2>4. QED
    BY <1>1, <1>3, <2>1, <2>2, <2>3
<1>4. QED
  BY <1>2, <1>3 DEF GateInv

(* The gate is passed on when the call in front ends. *)
LEMMA GateLeave ==
  ASSUME WiseTypeOK, GateInv, NEW c \in Call, step[c] \in Looping, Goto(c, "over"), Leave(c)
  PROVE  GateInv' /\ gate' \in [Process -> Seq(Call)]
<1> DEFINE p == ProcOf[c]
<1>1. p \in Process /\ gate[p] \in Seq(Call) /\ Len(gate[p]) \in Nat /\ Len(gate[p]) > 0 /\ gate[p][1] = c
  BY HeadLoops
<1>2. /\ step'[c] = "over"
      /\ \A d \in Call : d # c => step'[d] = step[d]
  BY GotoEffect DEF Step, Ended
<1>3. /\ gate' \in [Process -> Seq(Call)]
      /\ gate'[p] = Tail(gate[p])
      /\ \A q \in Process : q # p => gate'[q] = gate[q]
  BY <1>1 DEF Leave, WiseTypeOK
<1>4. /\ DOMAIN gate'[p] = 1..(Len(gate[p]) - 1)
      /\ \A i \in 1..(Len(gate[p]) - 1) : gate'[p][i] = gate[p][i + 1]
  BY <1>1, <1>3
<1>5. DOMAIN gate[p] = 1..Len(gate[p])
  BY <1>1
<1>6. ASSUME NEW q \in Process, NEW i \in DOMAIN gate'[q]
      PROVE  /\ ProcOf[gate'[q][i]] = q
             /\ step'[gate'[q][i]] \in Looping \cup {"queued"}
             /\ \A j \in DOMAIN gate'[q] : gate'[q][i] = gate'[q][j] => i = j
  <2>1. CASE q = p
    <3>1. i \in 1..(Len(gate[p]) - 1)
      BY <1>4, <2>1
    <3>2. i + 1 \in DOMAIN gate[p] /\ i + 1 # 1 /\ 1 \in DOMAIN gate[p]
      BY <1>1, <1>5, <3>1
    <3>3. gate[p][i + 1] \in Call /\ gate[p][i + 1] # c
      BY <1>1, <3>2 DEF GateInv
    <3>4. ProcOf[gate[p][i + 1]] = p /\ step[gate[p][i + 1]] \in Looping \cup {"queued"}
      BY <1>1, <3>2 DEF GateInv
    <3>5. ASSUME NEW j \in 1..(Len(gate[p]) - 1), gate[p][i + 1] = gate[p][j + 1] PROVE i = j
      <4>1. j + 1 \in DOMAIN gate[p]
        BY <1>1, <1>5
      <4>2. i + 1 = j + 1
        BY <1>1, <3>2, <3>5, <4>1 DEF GateInv
      <4>3. QED
        BY <3>1, <4>2
    <3>6. gate'[q][i] = gate[p][i + 1] /\ step'[gate[p][i + 1]] = step[gate[p][i + 1]]
      BY <1>2, <1>4, <2>1, <3>1, <3>3
    <3>7. \A j \in DOMAIN gate'[q] : gate'[q][i] = gate'[q][j] => i = j
      BY <1>4, <2>1, <3>5, <3>6
    <3>8. QED
      BY <2>1, <3>3, <3>4, <3>6, <3>7
  <2>2. CASE q # p
    <3>1. gate'[q] = gate[q] /\ gate[q][i] \in Call /\ ProcOf[gate[q][i]] = q
      BY <1>3, <1>6, <2>2 DEF GateInv, WiseTypeOK
    <3>2. gate[q][i] # c
      BY <2>2, <3>1
    <3>3. QED
      BY <1>2, <1>6, <3>1, <3>2 DEF GateInv
  <2>3. QED
    BY <2>1, <2>2
<1>7. ASSUME NEW d \in Call, step'[d] \in Looping \cup {"queued"}
      PROVE  \E i \in DOMAIN gate'[ProcOf[d]] :
                gate'[ProcOf[d]][i] = d /\ (step'[d] \in Looping => i = 1)
  <2>1. d # c /\ step'[d] = step[d]
    BY <1>2, <1>7 DEF Looping
  <2>2. PICK i \in DOMAIN gate[ProcOf[d]] : gate[ProcOf[d]][i] = d /\ (step[d] \in Looping => i = 1)
    BY <1>7, <2>1 DEF GateInv
  <2>3. ProcOf[d] \in Process
    BY WiseAssumption
  <2>4. CASE ProcOf[d] = p
    <3>1. i # 1 /\ i \in 1..Len(gate[p])
      BY <1>1, <1>5, <2>1, <2>2, <2>4
    <3>2. i - 1 \in 1..(Len(gate[p]) - 1) /\ (i - 1) + 1 = i
      <4> HIDE DEF p
      <4>1. Len(gate[p]) \in Nat
        BY <1>1
      <4>2. QED
        BY <3>1, <4>1
    <3>3. gate'[p][i - 1] = d
      BY <1>4, <2>2, <2>4, <3>2
    <3>4. QED
      BY <1>4, <2>1, <2>2, <2>4, <3>1, <3>2, <3>3
  <2>5. CASE ProcOf[d] # p
    BY <1>3, <2>1, <2>2, <2>3, <2>5
  <2>6. QED
    BY <2>4, <2>5
<1>8. QED
  BY <1>3, <1>6, <1>7 DEF GateInv

(* The command at hand is one. *)
LEMMA CurrentTyped ==
  ASSUME WiseTypeOK, NEW c \in Call, PlanShape(c), Working(c)
  PROVE  /\ Current(c) \in Command
         /\ plan[c] \in Seq(Command) /\ part[c] \in Seq(Part)
         /\ Len(plan[c]) \in Nat /\ Len(part[c]) \in Nat
         /\ Len(part[c]) + 1 \in 1..Len(plan[c])
<1>1. plan[c] \in Seq(Command) /\ part[c] \in Seq(Part)
  BY DEF WiseTypeOK
<1>2. Len(plan[c]) \in Nat /\ Len(part[c]) \in Nat
  BY <1>1
<1>3. Len(part[c]) < Len(plan[c])
  <2>1. CASE step[c] = "queued"
    <3>1. Len(part[c]) = 0 /\ plan[c] # << >>
      BY <2>1 DEF PlanShape
    <3>2. QED
      BY <1>1, <3>1
  <2>2. CASE step[c] \in Looping
    BY <2>2 DEF PlanShape
  <2>3. QED
    BY <2>1, <2>2 DEF Working
<1>4. Len(part[c]) + 1 \in 1..Len(plan[c])
  BY <1>2, <1>3
<1>5. Current(c) \in Command
  BY <1>1, <1>4 DEF Current
<1>6. QED
  BY <1>1, <1>2, <1>4, <1>5

-----------------------------------------------------------------------------
(* The step says nothing new about what c wrote. *)
Alike(c) ==
    /\ \A cmd \in Command :
          /\ Stored(c, cmd)' <=> Stored(c, cmd)
          /\ Registered(c, cmd)' <=> Registered(c, cmd)
          /\ Settled(c, cmd) => Settled(c, cmd)'
          /\ Wrote(c, cmd)' <=> Wrote(c, cmd)
          /\ Confirmed(c, cmd)' <=> Confirmed(c, cmd)
    /\ \A r \in mail' : r.call = c => r \in mail
    /\ (\A i \in Ids : txs[i].by # c /\ txs[i].confirmedBy # {c})
          => (\A i \in Ids : txs[i].by # c /\ txs[i].confirmedBy # {c})'

LEMMA SameBooks ==
  ASSUME NEW c \in Call, UNCHANGED <<txs, mail>>
  PROVE  Alike(c)
  BY DEF Alike, Stored, Registered, Settled, Wrote, Confirmed, Ids, LegOf

LEMMA OthersMail ==
  ASSUME NEW c \in Call, UNCHANGED txs, NEW r, r.call # c, mail' = mail \cup {r}
  PROVE  Alike(c)
  BY DEF Alike, Stored, Registered, Settled, Wrote, Confirmed, Ids, LegOf

(* What is known of a call stays true while it does nothing. *)
LEMMA CallFrame ==
  ASSUME WiseTypeOK, NEW c \in Call, CallInv(c), Alike(c),
         step'[c] = step[c], plan'[c] = plan[c], part'[c] = part[c], answer'[c] = answer[c]
  PROVE  CallInv(c)'
<1>0. plan[c] \in Seq(Command) /\ part[c] \in Seq(Part)
  BY DEF WiseTypeOK
<1>1. Len(plan[c]) \in Nat /\ Len(part[c]) \in Nat
      /\ \A i \in 1..Len(plan[c]) : plan[c][i] \in Command
  BY <1>0
<1>2. PlanShape(c)'
  BY DEF CallInv, PlanShape, Alike
<1>3. MailInv(c)'
  BY DEF CallInv, MailInv, Alike, Current
<1>4. ASSUME NEW cmd \in Command
      PROVE  Untouched(c, cmd)' <=> Untouched(c, cmd)
  BY DEF Alike, Untouched
<1>5. ASSUME NEW cmd \in Command, NEW what
      PROVE  Told(c, cmd, what) => Told(c, cmd, what)'
  BY <1>4 DEF Alike, Told
<1>6. ASSUME NEW cmd \in Command
      PROVE  AtHand(c, cmd)' <=> AtHand(c, cmd)
  BY <1>4 DEF Alike, AtHand
<1>7. CASE Working(c) \/ step[c] = "over"
  <2>1. PartShape(c)'
    <3>1. PartShape(c)
      BY <1>7 DEF CallInv
    <3>2. part'[c] = part[c] /\ plan'[c] = plan[c] /\ step'[c] = step[c]
      OBVIOUS
    <3>3. QED
      <4>1. step[c] \in Looping => \A i \in 1..Len(part[c]) : part[c][i] \notin {"unknown", "notAttempted"}
        BY <3>1 DEF PartShape
      <4>2. step[c] = "over" => \A i, j \in 1..Len(part[c]) :
              part[c][i] = "unknown" => ((j > i) = (part[c][j] = "notAttempted"))
        BY <3>1 DEF PartShape
      <4>3. \A i \in 1..Len(part[c]) : part[c][i] = "dependency" =>
          \E j \in 1..(i - 1) : /\ plan[c][j] = [act |-> "main", row |-> plan[c][i].row]
                                /\ part[c][j] \in {"blocked", "stale", "rejected", "noId"}
        BY <3>1 DEF PartShape
      <4>4. (step[c] \in Looping => \A i \in 1..Len(part[c]) : part[c][i] \notin {"unknown", "notAttempted"})'
        BY <3>2, <4>1
      <4>5. (step[c] = "over" => \A i, j \in 1..Len(part[c]) :
              part[c][i] = "unknown" => ((j > i) = (part[c][j] = "notAttempted")))'
        BY <3>2, <4>2
      <4>6. (\A i \in 1..Len(part[c]) : part[c][i] = "dependency" =>
          \E j \in 1..(i - 1) : /\ plan[c][j] = [act |-> "main", row |-> plan[c][i].row]
                                /\ part[c][j] \in {"blocked", "stale", "rejected", "noId"})'
        BY <3>2, <4>3
      <4>7. QED
        BY <4>4, <4>5, <4>6 DEF PartShape
  <2>2. Len(part[c]) <= Len(plan[c])
    <3>1. CASE step[c] = "over"
      BY <1>1, <3>1 DEF CallInv, PlanShape
    <3>2. CASE Working(c)
      BY <1>1, <3>2, CurrentTyped DEF CallInv
    <3>3. QED
      BY <1>7, <3>1, <3>2
  <2>3. PartTold(c)'
    <3>1. ASSUME NEW i \in 1..Len(part[c])
          PROVE  Told(c, plan[c][i], part[c][i])'
      <4>1. plan[c][i] \in Command /\ Told(c, plan[c][i], part[c][i])
        BY <1>1, <1>7, <2>2 DEF CallInv, PartTold
      <4>2. QED
        BY <4>1, <1>5
    <3>2. QED
      BY <3>1 DEF PartTold
  <2>4. Working(c)' => Working(c)
    BY DEF Working
  <2>5. ASSUME Working(c) PROVE Ahead(c)' /\ AtHand(c, Current(c))'
    <3>1. Current(c) \in Command /\ Current(c)' = Current(c)
      BY <2>5, CurrentTyped DEF CallInv, Current
    <3>2. Ahead(c)'
      BY <1>1, <1>4, <2>5 DEF CallInv, Ahead
    <3>3. AtHand(c, Current(c))'
      BY <1>6, <2>5, <3>1 DEF CallInv
    <3>4. QED
      BY <3>2, <3>3
  <2>6. QED
    BY <1>2, <1>3, <2>1, <2>3, <2>4, <2>5 DEF CallInv
<1>8. CASE ~(Working(c) \/ step[c] = "over")
  BY <1>2, <1>3, <1>8 DEF CallInv, Working
<1>9. QED
  BY <1>7, <1>8

-----------------------------------------------------------------------------
(* What c wrote for a command stays, and nothing is added to what it did not touch. *)
Mono(c, cmd) ==
    /\ Stored(c, cmd) => Stored(c, cmd)'
    /\ Registered(c, cmd) => Registered(c, cmd)'
    /\ Settled(c, cmd) => Settled(c, cmd)'
    /\ Wrote(c, cmd)' => Wrote(c, cmd)
    /\ cmd.act # "main" /\ Confirmed(c, cmd)' => Confirmed(c, cmd)

LEMMA MonoTells ==
  ASSUME NEW c \in Call, NEW cmd \in Command, Mono(c, cmd)
  PROVE  /\ Untouched(c, cmd) => Untouched(c, cmd)'
         /\ \A what : Told(c, cmd, what) => Told(c, cmd, what)'
<1>1. Untouched(c, cmd) => Untouched(c, cmd)'
  BY DEF Mono, Untouched
<1>2. ASSUME NEW what, Told(c, cmd, what) PROVE Told(c, cmd, what)'
  BY <1>1, <1>2 DEF Mono, Told
<1>3. QED
  BY <1>1, <1>2

-----------------------------------------------------------------------------
(* The report takes a command in. *)
LEMMA ReportEffect ==
  ASSUME WiseTypeOK, NEW c \in Call, PlanShape(c), step[c] \in Looping,
         NEW what \in Part, Report(c, what)
  PROVE  /\ part' \in [Call -> Seq(Part)] /\ step' \in [Call -> Step]
         /\ Len(part'[c]) = Len(part[c]) + 1
         /\ part'[c][Len(part[c]) + 1] = what
         /\ \A i \in 1..Len(part[c]) : part'[c][i] = part[c][i]
         /\ \A d \in Call : d # c => part'[d] = part[d] /\ step'[d] = step[d]
         /\ \/ /\ step'[c] = "over" /\ Len(part'[c]) = Len(plan[c])
               /\ Goto(c, "over") /\ Leave(c)
            \/ /\ step'[c] = "command" /\ Len(part'[c]) < Len(plan[c])
               /\ Goto(c, "command") /\ gate' = gate
<1>1. /\ part[c] \in Seq(Part) /\ Len(part[c]) \in Nat /\ Len(plan[c]) \in Nat
      /\ Len(part[c]) + 1 \in 1..Len(plan[c])
  BY CurrentTyped DEF Working
<1>2. part' = [part EXCEPT ![c] = Append(@, what)]
  BY DEF Report
<1>3. part'[c] = Append(part[c], what) /\ \A d \in Call : d # c => part'[d] = part[d]
  BY <1>2 DEF WiseTypeOK
<1>4. part' \in [Call -> Seq(Part)]
  BY <1>1, <1>2 DEF WiseTypeOK
<1>5. /\ Len(part'[c]) = Len(part[c]) + 1 /\ part'[c][Len(part[c]) + 1] = what
      /\ \A i \in 1..Len(part[c]) : part'[c][i] = part[c][i]
  BY <1>1, <1>3
<1>6. CASE Len(part'[c]) = Len(plan[c])
  <2>1. Goto(c, "over") /\ Leave(c)
    BY <1>6 DEF Report
  <2>2. QED
    BY <1>3, <1>4, <1>5, <1>6, <2>1, GotoEffect DEF Step, Ended
<1>7. CASE Len(part'[c]) # Len(plan[c])
  <2>1. Goto(c, "command") /\ gate' = gate
    BY <1>7 DEF Report
  <2>2. QED
    BY <1>1, <1>3, <1>4, <1>5, <1>7, <2>1, GotoEffect DEF Step, Looping
<1>8. QED
  BY <1>6, <1>7

(* Main creates are reported before the commands that need them. *)
MainFailed(c, r) ==
    \E j \in 1..Len(part[c]) : /\ plan[c][j] = [act |-> "main", row |-> r]
                               /\ part[c][j] \in {"blocked", "stale", "rejected", "noId"}

LEMMA ReportKeeps ==
  ASSUME WiseTypeOK, NEW c \in Call, CallInv(c), step[c] \in Looping,
         NEW what \in Part \ {"unknown", "notAttempted"}, Report(c, what),
         UNCHANGED <<txs, plan>>, mail' \subseteq mail, \A r \in mail' : r.call # c,
         NEW cur, cur = Current(c), Told(c, cur, what)',
         what = "dependency" => MainFailed(c, cur.row)
  PROVE  CallInv(c)'
<1>0. Working(c) /\ PlanShape(c)
  BY DEF Working, CallInv
<1>1. /\ Current(c) \in Command
      /\ plan[c] \in Seq(Command) /\ part[c] \in Seq(Part)
      /\ Len(plan[c]) \in Nat /\ Len(part[c]) \in Nat
      /\ Len(part[c]) + 1 \in 1..Len(plan[c])
      /\ plan[c][Len(part[c]) + 1] = Current(c)
  BY <1>0, CurrentTyped DEF Current
<1>2. /\ Len(part'[c]) = Len(part[c]) + 1
      /\ part'[c][Len(part[c]) + 1] = what
      /\ \A i \in 1..Len(part[c]) : part'[c][i] = part[c][i]
      /\ \/ step'[c] = "over" /\ Len(part'[c]) = Len(plan[c])
         \/ step'[c] = "command" /\ Len(part'[c]) < Len(plan[c])
      /\ plan' = plan
  BY <1>0, ReportEffect
<1>3. ASSUME NEW cmd \in Command PROVE Mono(c, cmd)
  BY DEF Mono, Stored, Registered, Settled, Wrote, Confirmed, Ids, LegOf
<1>4. ASSUME NEW cmd \in Command
      PROVE  Untouched(c, cmd) => Untouched(c, cmd)'
  BY <1>3, MonoTells
<1>5. ASSUME NEW cmd \in Command, NEW w
      PROVE  Told(c, cmd, w) => Told(c, cmd, w)'
  BY <1>3, MonoTells
<1>6. PlanShape(c)'
  <2>1. step'[c] \in {"over", "command"}
        /\ (step'[c] = "over" => Len(part'[c]) = Len(plan'[c]))
        /\ (step'[c] = "command" => Len(part'[c]) < Len(plan'[c]))
    BY <1>2
  <2>2. QED
    BY <1>0, <2>1 DEF PlanShape, Looping
<1>7. MailInv(c)'
  BY DEF MailInv
<1>8. PartTold(c)'
  <2>1. ASSUME NEW i \in 1..Len(part'[c])
        PROVE  Told(c, plan[c][i], part[c][i])'
    <3>1. i \in 1..Len(part[c]) \/ i = Len(part[c]) + 1
      BY <1>1, <1>2
    <3>2. CASE i \in 1..Len(part[c])
      <4>1. plan[c][i] \in Command /\ Told(c, plan[c][i], part[c][i])
        BY <1>0, <1>1, <3>2 DEF CallInv, PartTold
      <4>2. plan'[c][i] = plan[c][i] /\ part'[c][i] = part[c][i]
        BY <1>2, <3>2
      <4>3. QED
        BY <4>1, <4>2, <1>5
    <3>3. CASE i = Len(part[c]) + 1
      <4>1. plan'[c][i] = cur /\ part'[c][i] = what
        BY <1>1, <1>2, <3>3
      <4>2. QED
        BY <4>1
    <3>4. QED
      BY <3>1, <3>2, <3>3
  <2>2. QED
    BY <2>1 DEF PartTold
<1>9. PartShape(c)'
  <2>1. \A i \in 1..Len(part'[c]) : part'[c][i] \notin {"unknown", "notAttempted"}
    <3>1. \A i \in 1..Len(part[c]) : part[c][i] \notin {"unknown", "notAttempted"}
      BY <1>0 DEF CallInv, PartShape
    <3>2. \A i \in 1..Len(part'[c]) : i \in 1..Len(part[c]) \/ i = Len(part[c]) + 1
      BY <1>1, <1>2
    <3>3. QED
      BY <1>2, <3>1, <3>2
  <2>2. ASSUME NEW i \in 1..Len(part'[c]), part'[c][i] = "dependency"
        PROVE  \E j \in 1..(i - 1) : /\ plan[c][j] = [act |-> "main", row |-> plan[c][i].row]
                                     /\ part'[c][j] \in {"blocked", "stale", "rejected", "noId"}
    <3>1. CASE i \in 1..Len(part[c])
      <4>1. PICK j \in 1..(i - 1) : /\ plan[c][j] = [act |-> "main", row |-> plan[c][i].row]
                                    /\ part[c][j] \in {"blocked", "stale", "rejected", "noId"}
        BY <1>0, <1>2, <2>2, <3>1 DEF CallInv, PartShape
      <4>2. j \in 1..Len(part[c])
        BY <1>1, <3>1
      <4>3. QED
        BY <1>2, <4>1, <4>2
    <3>2. CASE i = Len(part[c]) + 1
      <4>1. PICK j \in 1..Len(part[c]) : /\ plan[c][j] = [act |-> "main", row |-> Current(c).row]
                                         /\ part[c][j] \in {"blocked", "stale", "rejected", "noId"}
        BY <1>2, <2>2, <3>2 DEF MainFailed
      <4>2. j \in 1..(i - 1)
        BY <1>1, <3>2
      <4>3. QED
        BY <1>1, <1>2, <3>2, <4>1, <4>2
    <3>3. i \in 1..Len(part[c]) \/ i = Len(part[c]) + 1
      BY <1>1, <1>2
    <3>4. QED
      BY <3>1, <3>2, <3>3
  <2>3. (step[c] \in Looping => \A i \in 1..Len(part[c]) : part[c][i] \notin {"unknown", "notAttempted"})'
    BY <2>1
  <2>4. (\A i, j \in 1..Len(part[c]) : part[c][i] = "unknown" => ((j > i) = (part[c][j] = "notAttempted")))'
    BY <2>1
  <2>5. (\A i \in 1..Len(part[c]) : part[c][i] = "dependency" =>
           \E j \in 1..(i - 1) : /\ plan[c][j] = [act |-> "main", row |-> plan[c][i].row]
                                 /\ part[c][j] \in {"blocked", "stale", "rejected", "noId"})'
    BY <1>2, <2>2
  <2>6. QED
    BY <2>3, <2>4, <2>5 DEF PartShape
<1>10. ASSUME step'[c] = "command"
       PROVE  Ahead(c)' /\ AtHand(c, Current(c))'
  <2>1. Len(part[c]) + 2 \in 1..Len(plan[c]) /\ Current(c)' = plan[c][Len(part[c]) + 2]
    BY <1>1, <1>2, <1>10 DEF Current
  <2>2. \A i \in 1..Len(plan[c]) : plan[c][i] \in Command
    BY <1>1
  <2>3. \A i \in 1..Len(plan[c]) : i > Len(part[c]) + 1 => Untouched(c, plan[c][i])
    BY <1>0 DEF CallInv, Ahead
  <2>4. ASSUME NEW i \in 1..Len(plan[c]), i > Len(part[c]) + 1
        PROVE  Untouched(c, plan[c][i])'
    <3>1. plan[c][i] \in Command /\ Untouched(c, plan[c][i]) /\ plan'[c][i] = plan[c][i]
      BY <1>2, <2>2, <2>3, <2>4
    <3>2. QED
      BY <1>4, <3>1
  <2>5. Ahead(c)'
    BY <1>1, <1>2, <2>4 DEF Ahead
  <2>6. Untouched(c, Current(c))'
    BY <1>1, <1>2, <2>1, <2>4
  <2>7. AtHand(c, Current(c))'
    BY <1>10, <2>6 DEF AtHand
  <2>8. QED
    BY <2>5, <2>7
<1>11. QED
  BY <1>2, <1>6, <1>7, <1>8, <1>9, <1>10 DEF CallInv, Working, Looping

-----------------------------------------------------------------------------
(* The commands behind and ahead of c, while it goes on with the one at hand. *)
LEMMA PastKeeps ==
  ASSUME WiseTypeOK, NEW c \in Call, CallInv(c), Working(c), step'[c] \in Looping \cup {"queued"},
         step'[c] = step[c] \/ step'[c] \in Looping,
         plan'[c] = plan[c], part'[c] = part[c],
         \A cmd \in Command \ {Current(c)} : Mono(c, cmd)
  PROVE  /\ PlanShape(c)' /\ PartTold(c)' /\ PartShape(c)' /\ Ahead(c)'
         /\ Current(c)' = Current(c) /\ Current(c) \in Command
<1>1. /\ Current(c) \in Command
      /\ plan[c] \in Seq(Command) /\ part[c] \in Seq(Part)
      /\ Len(plan[c]) \in Nat /\ Len(part[c]) \in Nat
      /\ Len(part[c]) + 1 \in 1..Len(plan[c])
      /\ plan[c][Len(part[c]) + 1] = Current(c)
  BY CurrentTyped DEF Current, CallInv
<1>2. \A i, j \in 1..Len(plan[c]) : plan[c][i] = plan[c][j] => i = j
  BY DEF CallInv, PlanShape
<1>3. PlanShape(c) /\ PartTold(c) /\ PartShape(c) /\ Ahead(c)
  BY DEF CallInv
<1>4. PlanShape(c)'
  <2>1. step[c] = "queued" => plan[c] # << >> /\ part[c] = << >>
    BY <1>3 DEF PlanShape
  <2>2. Len(part[c]) < Len(plan[c])
    BY <1>1
  <2>3. \A i, j \in 1..Len(plan[c]) : plan[c][i].act # "main"
          /\ plan[c][j] = [act |-> "main", row |-> plan[c][i].row] => j < i
    BY <1>3 DEF PlanShape
  <2>4. step'[c] \notin {"preview", "reviewed", "projecting", "over"}
    BY DEF Looping
  <2>5. step'[c] = "queued" => step[c] = "queued"
    BY DEF Looping
  <2>6. QED
    BY <1>2, <2>1, <2>2, <2>3, <2>4, <2>5 DEF PlanShape
<1>5. ASSUME NEW i \in 1..Len(plan[c]), i # Len(part[c]) + 1
      PROVE  plan[c][i] \in Command \ {Current(c)}
  BY <1>1, <1>2, <1>5
<1>6. PartTold(c)'
  <2>1. ASSUME NEW i \in 1..Len(part[c])
        PROVE  Told(c, plan[c][i], part[c][i])'
    <3>1. i \in 1..Len(plan[c]) /\ i # Len(part[c]) + 1 /\ Told(c, plan[c][i], part[c][i])
      BY <1>1, <1>3 DEF PartTold
    <3>2. PICK cmd \in Command : cmd = plan[c][i] /\ Mono(c, cmd)
      BY <1>5, <3>1
    <3>3. PICK what : what = part[c][i]
      OBVIOUS
    <3>4. Told(c, cmd, what)'
      BY <3>1, <3>2, <3>3, MonoTells
    <3>5. cmd = plan'[c][i] /\ what = part'[c][i]
      BY <3>2, <3>3
    <3>6. QED
      BY <3>4, <3>5
  <2>2. QED
    BY <2>1 DEF PartTold
<1>7. PartShape(c)'
  <2>1. \A i \in 1..Len(part[c]) : part[c][i] \notin {"unknown", "notAttempted"}
    <3>1. CASE step[c] \in Looping
      BY <1>3, <3>1 DEF PartShape
    <3>2. CASE step[c] = "queued"
      <4>1. Len(part[c]) = 0
        BY <1>3, <3>2 DEF PlanShape
      <4>2. QED
        BY <4>1
    <3>3. QED
      BY <3>1, <3>2 DEF Working
  <2>2. \A i \in 1..Len(part[c]) : part[c][i] = "dependency" =>
          \E j \in 1..(i - 1) : /\ plan[c][j] = [act |-> "main", row |-> plan[c][i].row]
                                /\ part[c][j] \in {"blocked", "stale", "rejected", "noId"}
    BY <1>3 DEF PartShape
  <2>3. step'[c] # "over"
    BY DEF Looping
  <2>4. QED
    BY <2>1, <2>2, <2>3 DEF PartShape
<1>8. Ahead(c)'
  <2>1. ASSUME NEW i \in 1..Len(plan[c]), i > Len(part[c]) + 1
        PROVE  Untouched(c, plan[c][i])'
    <3>1. Untouched(c, plan[c][i])
      BY <1>3, <2>1 DEF Ahead
    <3>2. i # Len(part[c]) + 1
      BY <1>1, <2>1
    <3>3. PICK cmd \in Command : cmd = plan[c][i] /\ Mono(c, cmd)
      BY <1>5, <3>2
    <3>4. Untouched(c, cmd)'
      BY <3>1, <3>3, MonoTells
    <3>5. cmd = plan'[c][i]
      BY <3>3
    <3>6. QED
      BY <3>4, <3>5
  <2>2. QED
    BY <2>1 DEF Ahead
<1>9. Current(c)' = Current(c)
  BY DEF Current
<1>10. QED
  BY <1>1, <1>4, <1>6, <1>7, <1>8, <1>9

LEMMA AlikeMono ==
  ASSUME NEW c \in Call, NEW cmd \in Command, Alike(c)
  PROVE  Mono(c, cmd)
  BY DEF Alike, Mono

(* An unknown outcome ends the report. *)
LEMMA StopEffect ==
  ASSUME WiseTypeOK, NEW c \in Call, PlanShape(c), step[c] \in Looping, StopUnknown(c)
  PROVE  /\ part' \in [Call -> Seq(Part)] /\ step' \in [Call -> Step]
         /\ Len(part'[c]) = Len(plan[c])
         /\ part'[c][Len(part[c]) + 1] = "unknown"
         /\ \A i \in 1..Len(part[c]) : part'[c][i] = part[c][i]
         /\ \A i \in 1..Len(plan[c]) : i > Len(part[c]) + 1 => part'[c][i] = "notAttempted"
         /\ \A d \in Call : d # c => part'[d] = part[d] /\ step'[d] = step[d]
         /\ step'[c] = "over" /\ Goto(c, "over") /\ Leave(c)
<1>1. /\ part[c] \in Seq(Part) /\ Len(part[c]) \in Nat /\ Len(plan[c]) \in Nat
      /\ Len(part[c]) + 1 \in 1..Len(plan[c])
  BY CurrentTyped DEF Working
<1> DEFINE new == [i \in 1..Len(plan[c]) |-> IF i <= Len(part[c]) THEN part[c][i]
                     ELSE IF i = Len(part[c]) + 1 THEN "unknown" ELSE "notAttempted"]
<1>2. part' = [part EXCEPT ![c] = new]
  BY DEF StopUnknown
<1>3. \A i \in 1..Len(plan[c]) : new[i] \in Part
  BY <1>1 DEF Part
<1>4. new \in Seq(Part) /\ Len(new) = Len(plan[c])
  <2>1. new \in [1..Len(plan[c]) -> Part]
    BY <1>3
  <2>2. QED
    BY <1>1, <2>1
<1>5. part' \in [Call -> Seq(Part)] /\ part'[c] = new /\ \A d \in Call : d # c => part'[d] = part[d]
  BY <1>2, <1>4 DEF WiseTypeOK
<1>6. Goto(c, "over") /\ Leave(c)
  BY DEF StopUnknown
<1>7. QED
  <2>1. \A i \in 1..Len(part[c]) : i \in 1..Len(plan[c]) /\ new[i] = part[c][i]
    BY <1>1
  <2>2. new[Len(part[c]) + 1] = "unknown"
    BY <1>1
  <2>3. \A i \in 1..Len(plan[c]) : i > Len(part[c]) + 1 => new[i] = "notAttempted"
    BY <1>1
  <2>4. /\ step' \in [Call -> Step] /\ step'[c] = "over"
        /\ \A d \in Call : d # c => step'[d] = step[d]
    BY <1>6, GotoEffect DEF Step, Ended
  <2>5. part' \in [Call -> Seq(Part)] /\ Len(part'[c]) = Len(plan[c])
    BY <1>4, <1>5
  <2>6. /\ part'[c][Len(part[c]) + 1] = "unknown"
        /\ \A i \in 1..Len(part[c]) : part'[c][i] = part[c][i]
        /\ \A i \in 1..Len(plan[c]) : i > Len(part[c]) + 1 => part'[c][i] = "notAttempted"
    BY <1>5, <2>1, <2>2, <2>3
  <2>7. QED
    BY <1>5, <1>6, <2>4, <2>5, <2>6

LEMMA StopKeeps ==
  ASSUME WiseTypeOK, NEW c \in Call, CallInv(c), step[c] \in Looping, StopUnknown(c),
         UNCHANGED <<txs, mail, plan>>
  PROVE  CallInv(c)'
<1>0. Working(c) /\ PlanShape(c) /\ PartTold(c) /\ PartShape(c) /\ Ahead(c)
  BY DEF Working, CallInv
<1>1. /\ plan[c] \in Seq(Command) /\ part[c] \in Seq(Part)
      /\ Len(plan[c]) \in Nat /\ Len(part[c]) \in Nat
      /\ Len(part[c]) + 1 \in 1..Len(plan[c])
  BY <1>0, CurrentTyped
<1>2. /\ Len(part'[c]) = Len(plan[c]) /\ part'[c][Len(part[c]) + 1] = "unknown"
      /\ \A i \in 1..Len(part[c]) : part'[c][i] = part[c][i]
      /\ \A i \in 1..Len(plan[c]) : i > Len(part[c]) + 1 => part'[c][i] = "notAttempted"
      /\ step'[c] = "over" /\ plan' = plan
  BY <1>0, StopEffect
<1>3. Alike(c)
  BY SameBooks
<1>4. PlanShape(c)'
  <2>1. \A i, j \in 1..Len(plan[c]) :
          /\ plan[c][i] = plan[c][j] => i = j
          /\ plan[c][i].act # "main" /\ plan[c][j] = [act |-> "main", row |-> plan[c][i].row] => j < i
    BY <1>0 DEF PlanShape
  <2>2. QED
    BY <1>2, <2>1 DEF PlanShape, Looping
<1>5. MailInv(c)'
  BY <1>2 DEF MailInv
<1>6. PartTold(c)'
  <2>1. ASSUME NEW i \in 1..Len(plan[c])
        PROVE  Told(c, plan[c][i], part[c][i])'
    <3>1. PICK cmd \in Command : cmd = plan[c][i] /\ Mono(c, cmd)
      BY <1>1, <1>3, AlikeMono
    <3>2. PICK what : what = part'[c][i]
      OBVIOUS
    <3>3. CASE i <= Len(part[c])
      <4>1. what = part[c][i] /\ Told(c, cmd, part[c][i])
        BY <1>0, <1>1, <1>2, <3>1, <3>2, <3>3 DEF PartTold
      <4>2. Told(c, cmd, what)'
        BY <4>1, <3>1, MonoTells
      <4>3. QED
        BY <1>2, <3>1, <3>2, <4>2
    <3>4. CASE i = Len(part[c]) + 1
      <4>1. what = "unknown"
        BY <1>2, <3>2, <3>4
      <4>2. Told(c, cmd, what)'
        BY <4>1 DEF Told
      <4>3. QED
        BY <1>2, <3>1, <3>2, <4>2
    <3>5. CASE i > Len(part[c]) + 1
      <4>1. what = "notAttempted" /\ Untouched(c, cmd)
        BY <1>0, <1>2, <3>1, <3>2, <3>5 DEF Ahead
      <4>2. Untouched(c, cmd)'
        BY <3>1, <4>1, MonoTells
      <4>3. Told(c, cmd, what)'
        BY <4>1, <4>2 DEF Told
      <4>4. QED
        BY <1>2, <3>1, <3>2, <4>3
    <3>6. QED
      BY <1>1, <3>3, <3>4, <3>5
  <2>2. QED
    BY <1>2, <2>1 DEF PartTold
<1>7. PartShape(c)'
  <2>1. \A i \in 1..Len(part[c]) : part[c][i] \notin {"unknown", "notAttempted"}
    BY <1>0 DEF PartShape
  <2>2. \A i \in 1..Len(plan[c]) : /\ part'[c][i] = "unknown" <=> i = Len(part[c]) + 1
                                   /\ part'[c][i] = "notAttempted" <=> i > Len(part[c]) + 1
    <3>1. \A i \in 1..Len(plan[c]) : i \in 1..Len(part[c]) \/ i = Len(part[c]) + 1 \/ i > Len(part[c]) + 1
      BY <1>1
    <3>2. QED
      BY <1>1, <1>2, <2>1, <3>1
  <2>3. \A i, j \in 1..Len(part'[c]) :
          part'[c][i] = "unknown" => ((j > i) = (part'[c][j] = "notAttempted"))
    BY <1>2, <2>2
  <2>4. ASSUME NEW i \in 1..Len(part'[c]), part'[c][i] = "dependency"
        PROVE  \E j \in 1..(i - 1) : /\ plan[c][j] = [act |-> "main", row |-> plan[c][i].row]
                                     /\ part'[c][j] \in {"blocked", "stale", "rejected", "noId"}
    <3>1. i \in 1..Len(part[c])
      BY <1>1, <1>2, <2>4
    <3>2. PICK j \in 1..(i - 1) : /\ plan[c][j] = [act |-> "main", row |-> plan[c][i].row]
                                  /\ part[c][j] \in {"blocked", "stale", "rejected", "noId"}
      BY <1>0, <1>2, <2>4, <3>1 DEF PartShape
    <3>3. j \in 1..Len(part[c])
      BY <1>1, <3>1
    <3>4. QED
      BY <1>2, <3>2, <3>3
  <2>5. QED
    BY <1>2, <2>3, <2>4 DEF PartShape, Looping
<1>8. QED
  BY <1>2, <1>4, <1>5, <1>6, <1>7 DEF CallInv, Working, Looping

-----------------------------------------------------------------------------
(* A request is sent about the command at hand. *)
LEMMA SendEffect ==
  ASSUME WiseTypeOK, NEW c \in Call, NEW op \in {"create", "confirm"}, NEW leg \in Leg,
         NEW next \in Step, Current(c) \in Command, Send(c, op, leg, next)
  PROVE  /\ mail' \subseteq Request /\ answer' \in [Call -> {"none", "ok", "noId", "rejected"}]
         /\ answer'[c] = "none" /\ \A d \in Call : d # c => answer'[d] = answer[d]
         /\ step' \in [Call -> Step] /\ step'[c] = next
         /\ \A d \in Call : d # c => step'[d] = step[d]
         /\ part' = part /\ gate' = gate
         /\ Goto(c, next)
<1>1. [op |-> op, call |-> c, leg |-> leg, row |-> Current(c).row] \in Request
  BY DEF Command, Request
<1>2. Goto(c, next) /\ part' = part /\ gate' = gate
  BY DEF Send
<1>3. mail' \subseteq Request
  BY <1>1 DEF Send, WiseTypeOK
<1>4. /\ answer' \in [Call -> {"none", "ok", "noId", "rejected"}]
      /\ answer'[c] = "none" /\ \A d \in Call : d # c => answer'[d] = answer[d]
  BY DEF Send, WiseTypeOK
<1>5. QED
  BY <1>2, <1>3, <1>4, GotoEffect

LEMMA NoMailYet ==
  ASSUME NEW c \in Call, CallInv(c), step[c] \in {"command", "guard", "check", "queued"}
  PROVE  \A r \in mail : r.call # c
  BY DEF CallInv, MailInv

LEMMA SendCreateKeeps ==
  ASSUME WiseTypeOK, NEW c \in Call, CallInv(c), step[c] \in {"command", "guard"},
         SendCreate(c), Current(c).act # "inter", UNCHANGED <<txs, plan>>
  PROVE  CallInv(c)'
<1>0. Working(c) /\ PlanShape(c) /\ AtHand(c, Current(c)) /\ Current(c) \in Command
  BY CurrentTyped DEF Working, CallInv, Looping
<1> DEFINE cur == Current(c)
           new == [op |-> "create", call |-> c, leg |-> cur.act, row |-> cur.row]
<1>1. /\ step'[c] = "creating" /\ answer'[c] = "none" /\ part' = part /\ plan' = plan
      /\ mail' = mail \cup {new}
  <2>1. Send(c, "create", cur.act, "creating") /\ cur.act \in Leg
    BY <1>0 DEF SendCreate, Command, Leg
  <2>2. "creating" \in Step
    BY DEF Step, Looping
  <2>3. step'[c] = "creating" /\ answer'[c] = "none" /\ part' = part
    BY <1>0, <2>1, <2>2, SendEffect
  <2>4. mail' = mail \cup {new}
    BY <2>1 DEF Send
  <2>5. QED
    BY <2>3, <2>4
<1>2. \A r \in mail : r.call # c
  BY NoMailYet
<1>3. Untouched(c, cur)
  BY <1>0 DEF AtHand
<1>4. ASSUME NEW cmd \in Command
      PROVE  /\ Stored(c, cmd)' <=> Stored(c, cmd)
             /\ Registered(c, cmd)' <=> Registered(c, cmd)
             /\ Settled(c, cmd) => Settled(c, cmd)'
             /\ Confirmed(c, cmd)' <=> Confirmed(c, cmd)
             /\ Wrote(c, cmd)' => Wrote(c, cmd) \/ (cmd.act = cur.act /\ cmd.row = cur.row)
  <2>1. /\ Stored(c, cmd)' <=> Stored(c, cmd)
        /\ Registered(c, cmd)' <=> Registered(c, cmd)
        /\ Settled(c, cmd) => Settled(c, cmd)'
    BY DEF Stored, Registered, Settled, Ids, LegOf
  <2>2. Confirmed(c, cmd)' <=> Confirmed(c, cmd)
    BY <1>1 DEF Confirmed, Ids
  <2>3. Wrote(c, cmd)' => Wrote(c, cmd) \/ (cmd.act = cur.act /\ cmd.row = cur.row)
    BY <1>1 DEF Wrote, Ids
  <2>4. QED
    BY <2>1, <2>2, <2>3
<1>5. ASSUME NEW cmd \in Command \ {cur} PROVE Mono(c, cmd)
  <2>1. ~(cmd.act = cur.act /\ cmd.row = cur.row)
    BY <1>0 DEF Command
  <2>2. QED
    BY <1>4, <2>1 DEF Mono
<1>6. /\ PlanShape(c)' /\ PartTold(c)' /\ PartShape(c)' /\ Ahead(c)' /\ cur' = cur
  BY <1>0, <1>1, <1>5, PastKeeps DEF Looping
<1>7. MailInv(c)'
  <2>1. ASSUME NEW r \in mail', r.call = c PROVE r = new
    BY <1>1, <1>2, <2>1
  <2>2. QED
    BY <1>1, <1>6, <2>1 DEF MailInv
<1>8. AtHand(c, Current(c))'
  <2>1. ~Stored(c, cur)
    BY <1>3 DEF Untouched, Wrote, Stored
  <2>2. cur.act = "fee" => ~Confirmed(c, cur)
    BY <1>3 DEF Untouched
  <2>3. PICK cmd \in Command : cmd = cur
    BY <1>0
  <2>4. ~Stored(c, cmd)' /\ (cmd.act = "fee" => ~Confirmed(c, cmd)')
    BY <1>4, <2>1, <2>2, <2>3
  <2>5. AtHand(c, cmd)'
    BY <1>1, <2>3, <2>4 DEF AtHand
  <2>6. QED
    BY <1>6, <2>3, <2>5
<1>9. QED
  BY <1>1, <1>6, <1>7, <1>8 DEF CallInv, Working, Looping

LEMMA SendConfirmKeeps ==
  ASSUME WiseTypeOK, NEW c \in Call, CallInv(c), step[c] \in {"command", "check"},
         Send(c, "confirm", LegOf(Current(c)), "confirming"),
         Current(c).act # "main", Current(c).act = "fee" => step[c] = "check",
         UNCHANGED <<txs, plan>>
  PROVE  CallInv(c)'
<1>0. Working(c) /\ PlanShape(c) /\ AtHand(c, Current(c)) /\ Current(c) \in Command
  BY CurrentTyped DEF Working, CallInv, Looping
<1> DEFINE cur == Current(c)
           new == [op |-> "confirm", call |-> c, leg |-> LegOf(cur), row |-> cur.row]
<1>1. /\ step'[c] = "confirming" /\ answer'[c] = "none" /\ part' = part /\ plan' = plan
      /\ mail' = mail \cup {new}
  <2>1. LegOf(cur) \in Leg
    BY DEF LegOf, Leg
  <2>2. "confirming" \in Step
    BY DEF Step, Looping
  <2>3. step'[c] = "confirming" /\ answer'[c] = "none" /\ part' = part
    BY <1>0, <2>1, <2>2, SendEffect
  <2>4. mail' = mail \cup {new}
    BY <2>1 DEF Send
  <2>5. QED
    BY <2>3, <2>4
<1>2. \A r \in mail : r.call # c
  BY NoMailYet
<1>3. ~Confirmed(c, cur) /\ (cur.act = "fee" => Stored(c, cur))
  BY <1>0 DEF AtHand, Untouched
<1>4. ASSUME NEW cmd \in Command
      PROVE  /\ Stored(c, cmd)' <=> Stored(c, cmd)
             /\ Registered(c, cmd)' <=> Registered(c, cmd)
             /\ Settled(c, cmd) => Settled(c, cmd)'
             /\ Confirmed(c, cmd)' => Confirmed(c, cmd) \/ (LegOf(cmd) = LegOf(cur) /\ cmd.row = cur.row)
             /\ Wrote(c, cmd)' <=> Wrote(c, cmd)
  <2>1. /\ Stored(c, cmd)' <=> Stored(c, cmd)
        /\ Registered(c, cmd)' <=> Registered(c, cmd)
        /\ Settled(c, cmd) => Settled(c, cmd)'
    BY DEF Stored, Registered, Settled, Ids, LegOf
  <2>2. Confirmed(c, cmd)' => Confirmed(c, cmd) \/ (LegOf(cmd) = LegOf(cur) /\ cmd.row = cur.row)
    BY <1>1 DEF Confirmed, Ids, LegOf
  <2>3. Wrote(c, cmd)' <=> Wrote(c, cmd)
    BY <1>1 DEF Wrote, Ids
  <2>4. QED
    BY <2>1, <2>2, <2>3
<1>5. ASSUME NEW cmd \in Command \ {cur} PROVE Mono(c, cmd)
  <2>1. cmd.act # "main" => ~(LegOf(cmd) = LegOf(cur) /\ cmd.row = cur.row)
    BY <1>0 DEF Command, LegOf
  <2>2. QED
    BY <1>4, <2>1 DEF Mono
<1>6. /\ PlanShape(c)' /\ PartTold(c)' /\ PartShape(c)' /\ Ahead(c)' /\ cur' = cur
  BY <1>0, <1>1, <1>5, PastKeeps DEF Looping
<1>7. MailInv(c)'
  <2>1. ASSUME NEW r \in mail', r.call = c PROVE r = new
    BY <1>1, <1>2, <2>1
  <2>2. LegOf(Current(c))' = LegOf(cur)
    BY <1>6 DEF LegOf
  <2>3. QED
    BY <1>1, <1>6, <2>1, <2>2 DEF MailInv
<1>8. AtHand(c, Current(c))'
  <2>1. ~Registered(c, cur)
    BY <1>3 DEF Confirmed, Registered, LegOf
  <2>2. PICK cmd \in Command : cmd = cur
    BY <1>0
  <2>3. ~Registered(c, cmd)' /\ (cmd.act = "fee" => Stored(c, cmd)')
    BY <1>3, <1>4, <2>1, <2>2
  <2>4. AtHand(c, cmd)'
    BY <1>1, <2>2, <2>3 DEF AtHand
  <2>5. QED
    BY <1>6, <2>2, <2>4
<1>9. QED
  BY <1>1, <1>6, <1>7, <1>8 DEF CallInv, Working, Looping

-----------------------------------------------------------------------------
(* The service carries out, refuses or never sees a request. *)
Served(r) == DeliverCreate(r) \/ DeliverConfirm(r) \/ Refuse(r) \/ Lose(r)

(* Rows are only added and only confirmed, as the request says. *)
LEMMA ServedRows ==
  ASSUME WiseTypeOK, NEW r \in mail, Served(r)
  PROVE  /\ txs' \in Seq(Row) /\ Len(txs') \in Nat /\ Len(txs) \in Nat /\ Len(txs) <= Len(txs')
         /\ \A i \in 1..Len(txs) :
               /\ txs'[i].by = txs[i].by /\ txs'[i].leg = txs[i].leg
               /\ txs'[i].row = txs[i].row /\ txs'[i].late = txs[i].late
               /\ \/ txs'[i].confirmedBy = txs[i].confirmedBy
                  \/ /\ txs[i].confirmedBy = {} /\ txs'[i].confirmedBy = {r.call}
                     /\ r.op = "confirm" /\ txs[i].leg = r.leg /\ txs[i].row = r.row
                     /\ txs[i].by = r.call
         /\ \A i \in 1..Len(txs') : i > Len(txs) =>
               /\ r.op = "create" /\ i = Len(txs) + 1 /\ txs'[i].by = r.call
               /\ txs'[i].leg = r.leg /\ txs'[i].row = r.row
               /\ txs'[i].late = ~Waiting(r) /\ txs'[i].confirmedBy = {}
<1>1. txs \in Seq(Row) /\ Len(txs) \in Nat /\ r \in Request
  BY DEF WiseTypeOK
<1>2. CASE UNCHANGED txs
  BY <1>1, <1>2
<1>3. CASE DeliverCreate(r)
  <2> DEFINE new == [by |-> r.call, leg |-> r.leg, row |-> r.row, late |-> ~Waiting(r), confirmedBy |-> {}]
  <2>1. txs' = Append(txs, new) /\ r.op = "create"
    BY <1>3 DEF DeliverCreate
  <2>2. Waiting(r) \in BOOLEAN
    BY DEF Waiting
  <2>3. new \in Row
    BY <1>1, <2>2 DEF Row, Request
  <2>4. /\ txs' \in Seq(Row) /\ Len(txs') = Len(txs) + 1 /\ txs'[Len(txs) + 1] = new
        /\ \A i \in 1..Len(txs) : txs'[i] = txs[i]
    <3> HIDE DEF new
    <3> QED BY <1>1, <2>1, <2>3
  <2>5. QED
    BY <1>1, <2>1, <2>4
<1>4. CASE DeliverConfirm(r) /\ txs' # txs
  <2>1. PICK i \in 1..Len(txs) :
           /\ txs[i].by = r.call /\ txs[i].leg = r.leg /\ txs[i].row = r.row
           /\ txs[i].confirmedBy = {}
           /\ txs' = [txs EXCEPT ![i].confirmedBy = {r.call}]
           /\ r.op = "confirm"
    BY <1>4 DEF DeliverConfirm, Ids
  <2> DEFINE new == [txs[i] EXCEPT !.confirmedBy = {r.call}]
  <2>2. txs[i] \in Row /\ r.call \in Call
    BY <1>1 DEF Request
  <2>3. new \in Row /\ new.confirmedBy = {r.call} /\ new.by = txs[i].by /\ new.leg = txs[i].leg
        /\ new.row = txs[i].row /\ new.late = txs[i].late
    BY <2>1, <2>2 DEF Row
  <2>4. txs' = [txs EXCEPT ![i] = new]
    BY <2>1
  <2>5. /\ txs' \in Seq(Row) /\ Len(txs') = Len(txs) /\ txs'[i] = new
        /\ \A j \in 1..Len(txs) : j # i => txs'[j] = txs[j]
    <3> HIDE DEF new
    <3> QED BY <1>1, <2>3, <2>4
  <2>6. QED
    BY <1>1, <2>1, <2>3, <2>5
<1>5. QED
  BY <1>2, <1>3, <1>4 DEF Served, Refuse, Lose

LEMMA ServedAnswer ==
  ASSUME WiseTypeOK, NEW r \in mail, Served(r)
  PROVE  /\ answer' \in [Call -> {"none", "ok", "noId", "rejected"}]
         /\ \A d \in Call : d # r.call => answer'[d] = answer[d]
         /\ ~Waiting(r) => answer' = answer
<1>1. r.call \in Call
  BY DEF WiseTypeOK, Request
<1>2. ASSUME NEW text \in {"ok", "noId", "rejected"}, Reply(r, text)
      PROVE  /\ answer' \in [Call -> {"none", "ok", "noId", "rejected"}]
             /\ \A d \in Call : d # r.call => answer'[d] = answer[d]
             /\ ~Waiting(r) => answer' = answer
  BY <1>1, <1>2 DEF Reply, WiseTypeOK
<1>3. CASE answer' = answer
  BY <1>3 DEF WiseTypeOK
<1>4. QED
  BY <1>2, <1>3 DEF Served, DeliverCreate, DeliverConfirm, Refuse, Lose

LEMMA ServedMono ==
  ASSUME WiseTypeOK, NEW r \in mail, Served(r), mail' = mail \ {r}, NEW c \in Call, NEW cmd \in Command
  PROVE  Mono(c, cmd)
<1>1. r.call \in Call
  BY DEF WiseTypeOK, Request
<1>2. Stored(c, cmd) => Stored(c, cmd)'
  BY ServedRows DEF Stored, Ids
<1>3. Settled(c, cmd) => Settled(c, cmd)'
  <2> SUFFICES ASSUME NEW i \in 1..Len(txs), txs[i].by = c, txs[i].leg = LegOf(cmd),
                      txs[i].row = cmd.row, txs[i].confirmedBy # {}
               PROVE  Settled(c, cmd)'
    BY DEF Settled, Ids
  <2>1. /\ i \in 1..Len(txs') /\ txs'[i].by = c /\ txs'[i].leg = LegOf(cmd)
        /\ txs'[i].row = cmd.row /\ txs'[i].confirmedBy # {}
    BY ServedRows
  <2>2. QED
    BY <2>1 DEF Settled, Ids, LegOf
<1>4. Registered(c, cmd) => Registered(c, cmd)'
  <2> SUFFICES ASSUME NEW i \in 1..Len(txs), txs[i].confirmedBy = {c}, txs[i].row = cmd.row,
                      txs[i].leg = LegOf(cmd)
               PROVE  Registered(c, cmd)'
    BY DEF Registered, Ids
  <2>1. txs[i].confirmedBy # {}
    OBVIOUS
  <2>2. Len(txs) \in Nat /\ Len(txs') \in Nat /\ Len(txs) <= Len(txs')
        /\ txs'[i].row = txs[i].row /\ txs'[i].leg = txs[i].leg
    BY ServedRows
  <2>3. txs'[i].confirmedBy = txs[i].confirmedBy
    BY <2>1, ServedRows
  <2>4. i \in 1..Len(txs')
    BY <2>2
  <2>5. QED
    BY <2>2, <2>3, <2>4 DEF Registered, Ids, LegOf
<1>5. ASSUME Wrote(c, cmd)' PROVE Wrote(c, cmd)
  <2>1. CASE \E q \in mail' : q.call = c /\ q.op = "create" /\ q.leg = cmd.act /\ q.row = cmd.row
    BY <2>1 DEF Wrote
  <2>2. CASE \E i \in 1..Len(txs') : txs'[i].by = c /\ txs'[i].leg = cmd.act /\ txs'[i].row = cmd.row
    <3>1. PICK i \in 1..Len(txs') : txs'[i].by = c /\ txs'[i].leg = cmd.act /\ txs'[i].row = cmd.row
      BY <2>2
    <3>2. CASE i > Len(txs)
      BY <3>1, <3>2, ServedRows DEF Wrote
    <3>3. CASE ~(i > Len(txs))
      <4>1. i \in 1..Len(txs)
        BY <3>3, ServedRows
      <4>2. QED
        BY <3>1, <4>1, ServedRows DEF Wrote, Ids
    <3>4. QED
      BY <3>2, <3>3
  <2>3. QED
    BY <1>5, <2>1, <2>2 DEF Wrote, Ids
<1>6. ASSUME Confirmed(c, cmd)' PROVE Confirmed(c, cmd)
  <2>1. CASE \E q \in mail' : q.call = c /\ q.op = "confirm" /\ q.row = cmd.row /\ q.leg = LegOf(cmd)
    BY <2>1 DEF Confirmed, LegOf
  <2>2. CASE \E i \in 1..Len(txs') : txs'[i].confirmedBy = {c} /\ txs'[i].row = cmd.row
                                       /\ txs'[i].leg = LegOf(cmd)
    <3>1. PICK i \in 1..Len(txs') : txs'[i].confirmedBy = {c} /\ txs'[i].row = cmd.row
                                      /\ txs'[i].leg = LegOf(cmd)
      BY <2>2
    <3>2. i \in 1..Len(txs)
      <4>1. {c} # {}
        OBVIOUS
      <4>2. ~(i > Len(txs))
        BY <3>1, <4>1, ServedRows
      <4>3. QED
        BY <4>2, ServedRows
    <3>3. CASE txs[i].confirmedBy = txs'[i].confirmedBy
      BY <3>1, <3>2, <3>3, ServedRows DEF Confirmed, Ids, LegOf
    <3>4. CASE /\ txs'[i].confirmedBy = {r.call} /\ r.op = "confirm"
               /\ txs[i].leg = r.leg /\ txs[i].row = r.row
      <4>1. r.call = c
        BY <3>1, <3>4
      <4>2. txs[i].leg = LegOf(cmd) /\ txs[i].row = cmd.row
        BY <3>1, <3>2, ServedRows
      <4>3. QED
        BY <3>4, <4>1, <4>2 DEF Confirmed, LegOf
    <3>5. QED
      BY <3>2, <3>3, <3>4, ServedRows
  <2>3. QED
    BY <1>6, <2>1, <2>2 DEF Confirmed, Ids, LegOf
<1>7. QED
  BY <1>2, <1>4, <1>5, <1>6, <1>3 DEF Mono

(* Nobody's books but the sender's change. *)
LEMMA ServedOthers ==
  ASSUME WiseTypeOK, NEW r \in mail, Served(r), mail' = mail \ {r}, NEW c \in Call, c # r.call
  PROVE  Alike(c)
<1>0. r.call \in Call /\ Len(txs) \in Nat /\ Len(txs') \in Nat /\ Len(txs) <= Len(txs')
  BY ServedRows DEF WiseTypeOK, Request
<1>1. ASSUME NEW i \in 1..Len(txs')
      PROVE  /\ txs'[i].by = c \/ txs'[i].confirmedBy = {c} => i \in 1..Len(txs)
             /\ i \in 1..Len(txs) => (txs'[i].confirmedBy = {c} <=> txs[i].confirmedBy = {c})
  <2>1. i > Len(txs) => txs'[i].by # c /\ txs'[i].confirmedBy # {c}
    BY ServedRows
  <2>2. i \in 1..Len(txs) => (txs'[i].confirmedBy = {c} <=> txs[i].confirmedBy = {c})
    <3>1. {r.call} # {c} /\ {} # {c}
      BY <1>0
    <3>2. QED
      BY <3>1, ServedRows
  <2>3. QED
    BY <1>0, <2>1, <2>2
<1>2. ASSUME NEW i \in 1..Len(txs)
      PROVE  i \in 1..Len(txs') /\ txs'[i].by = txs[i].by /\ txs'[i].leg = txs[i].leg /\ txs'[i].row = txs[i].row
  BY <1>0, ServedRows
<1>3. ASSUME NEW cmd \in Command
      PROVE  /\ Stored(c, cmd)' <=> Stored(c, cmd)
             /\ Registered(c, cmd)' <=> Registered(c, cmd)
             /\ Settled(c, cmd) => Settled(c, cmd)'
  <2>1. Stored(c, cmd)' => Stored(c, cmd)
    BY <1>1, <1>2 DEF Stored, Ids
  <2>2. Registered(c, cmd)' => Registered(c, cmd)
    BY <1>1, <1>2 DEF Registered, Ids, LegOf
  <2>3. QED
    BY <2>1, <2>2, ServedMono DEF Mono
<1>4. ASSUME NEW cmd \in Command
      PROVE  /\ Wrote(c, cmd)' <=> Wrote(c, cmd)
             /\ Confirmed(c, cmd)' <=> Confirmed(c, cmd)
  <2>1. \A q : q.call = c => (q \in mail' <=> q \in mail)
    OBVIOUS
  <2>2. Wrote(c, cmd) <=> Stored(c, cmd) \/ \E q \in mail :
            q.call = c /\ q.op = "create" /\ q.leg = cmd.act /\ q.row = cmd.row
    BY DEF Wrote, Stored
  <2>3. Wrote(c, cmd)' <=> Stored(c, cmd)' \/ \E q \in mail' :
            q.call = c /\ q.op = "create" /\ q.leg = cmd.act /\ q.row = cmd.row
    BY DEF Wrote, Stored, Ids
  <2>4. Confirmed(c, cmd) <=> Registered(c, cmd) \/ \E q \in mail :
            q.call = c /\ q.op = "confirm" /\ q.row = cmd.row /\ q.leg = LegOf(cmd)
    BY DEF Confirmed, Registered, LegOf
  <2>5. Confirmed(c, cmd)' <=> Registered(c, cmd)' \/ \E q \in mail' :
            q.call = c /\ q.op = "confirm" /\ q.row = cmd.row /\ q.leg = LegOf(cmd)
    BY DEF Confirmed, Registered, LegOf, Ids
  <2>6. QED
    BY <1>3, <2>1, <2>2, <2>3, <2>4, <2>5
<1>5. (\A i \in Ids : txs[i].by # c /\ txs[i].confirmedBy # {c})
          => (\A i \in Ids : txs[i].by # c /\ txs[i].confirmedBy # {c})'
  BY <1>1, <1>2 DEF Ids
<1>6. QED
  BY <1>3, <1>4, <1>5 DEF Alike

(* The sender learns what became of its request, or stopped waiting for it. *)
LEMMA ServedKeeps ==
  ASSUME WiseTypeOK, NEW r \in mail, Served(r), mail' = mail \ {r}, NEW c \in Call, c = r.call,
         CallInv(c), UNCHANGED <<step, plan, part>>
  PROVE  CallInv(c)'
<1>0. r \in Request /\ r.op \in {"create", "confirm"} /\ step[c] \in {"creating", "confirming", "recover", "over", "dead"}
  BY DEF WiseTypeOK, Request, CallInv, MailInv
<1>1. ASSUME NEW cmd \in Command PROVE Mono(c, cmd)
  BY ServedMono
<1>2. CASE step[c] \in {"creating", "confirming", "recover"}
  <2>1. Working(c) /\ PlanShape(c) /\ AtHand(c, Current(c)) /\ Current(c) \in Command
    BY <1>2, CurrentTyped DEF Working, CallInv, Looping
  <2>2. /\ PlanShape(c)' /\ PartTold(c)' /\ PartShape(c)' /\ Ahead(c)' /\ Current(c)' = Current(c)
    BY <1>1, <1>2, <2>1, PastKeeps DEF Looping
  <2>3. \A q \in mail' : q.call # c
    <3>1. ASSUME NEW q \in mail, q.call = c PROVE q = r
      <4>1. q \in Request
        BY DEF WiseTypeOK
      <4>2. q.op = r.op /\ q.leg = r.leg /\ q.row = r.row /\ q.call = r.call
        BY <1>2, <3>1 DEF CallInv, MailInv
      <4>3. QED
        BY <1>0, <4>1, <4>2 DEF Request
    <3>2. QED
      BY <3>1
  <2>4. MailInv(c)'
    BY <2>3 DEF MailInv
  <2>5. PICK cmd \in Command : cmd = Current(c)
    BY <2>1
  <2>6. AtHand(c, cmd) /\ Mono(c, cmd)
    BY <1>1, <2>1, <2>5
  <2>7. step'[c] = step[c]
    OBVIOUS
  <2>8. ASSUME step[c] = "creating" PROVE AtHand(c, cmd)'
    <3>1. r.op = "create" /\ r.leg = cmd.act /\ r.row = cmd.row /\ answer[c] = "none" /\ Waiting(r)
      BY <2>5, <2>8 DEF CallInv, MailInv, Waiting
    <3>2. cmd.act # "inter" /\ ~Stored(c, cmd) /\ (cmd.act = "fee" => ~Confirmed(c, cmd))
      BY <2>6, <2>8, <3>1 DEF AtHand
    <3>3. cmd.act = "fee" => ~Confirmed(c, cmd)'
      BY <2>6, <3>2 DEF Mono
    <3>4. CASE DeliverCreate(r)
      <4>1. answer'[c] \in {"ok", "noId"}
        BY <3>1, <3>4 DEF DeliverCreate, Reply, WiseTypeOK
      <4>2. txs' = Append(txs, [by |-> r.call, leg |-> r.leg, row |-> r.row,
                                late |-> ~Waiting(r), confirmedBy |-> {}])
        BY <3>4 DEF DeliverCreate
      <4>3. Len(txs') \in 1..Len(txs') /\ txs'[Len(txs')].by = r.call
            /\ txs'[Len(txs')].leg = r.leg /\ txs'[Len(txs')].row = r.row
        <5>1. Len(txs') = Len(txs) + 1 /\ Len(txs) \in Nat
          BY <4>2 DEF WiseTypeOK
        <5>2. QED
          BY <5>1, ServedRows
      <4>4. Stored(c, cmd)'
        BY <3>1, <4>3 DEF Stored, Ids
      <4>5. QED
        BY <2>7, <2>8, <3>2, <3>3, <4>1, <4>4 DEF AtHand
    <3>5. CASE ~DeliverCreate(r)
      <4>1. UNCHANGED txs /\ answer'[c] \in {"none", "rejected"}
        <5>1. CASE Refuse(r)
          BY <3>1, <5>1 DEF Refuse, Reply, WiseTypeOK
        <5>2. CASE Lose(r)
          BY <3>1, <5>2 DEF Lose
        <5>3. QED
          BY <3>1, <3>5, <5>1, <5>2 DEF Served, DeliverConfirm
      <4>2. ~Stored(c, cmd)'
        BY <3>2, <4>1 DEF Stored, Ids
      <4>3. QED
        BY <2>7, <2>8, <3>2, <3>3, <4>1, <4>2 DEF AtHand
    <3>6. QED
      BY <3>4, <3>5
  <2>9. ASSUME step[c] = "confirming" PROVE AtHand(c, cmd)'
    <3>1. r.op = "confirm" /\ r.leg = LegOf(cmd) /\ r.row = cmd.row /\ answer[c] = "none" /\ Waiting(r)
      BY <2>5, <2>9 DEF CallInv, MailInv, Waiting
    <3>2. cmd.act # "main" /\ ~Registered(c, cmd) /\ (cmd.act = "fee" => Stored(c, cmd))
      BY <2>6, <2>9, <3>1 DEF AtHand
    <3>3. cmd.act = "fee" => Stored(c, cmd)'
      BY <2>6, <3>2 DEF Mono
    <3>4. CASE /\ UNCHANGED txs /\ answer'[c] \in {"none", "rejected"}
      <4>1. ~Registered(c, cmd)'
        BY <3>2, <3>4 DEF Registered, Ids
      <4>2. QED
        BY <2>7, <2>9, <3>2, <3>3, <3>4, <4>1 DEF AtHand
    <3>5. CASE \E i \in Ids : /\ txs[i].leg = r.leg /\ txs[i].row = r.row
                              /\ txs' = [txs EXCEPT ![i].confirmedBy = {r.call}] /\ Reply(r, "ok")
      <4>1. PICK i \in 1..Len(txs) : /\ txs[i].leg = r.leg /\ txs[i].row = r.row
                              /\ txs' = [txs EXCEPT ![i].confirmedBy = {r.call}] /\ Reply(r, "ok")
        BY <3>5 DEF Ids
      <4>2. answer'[c] = "ok"
        BY <3>1, <4>1 DEF Reply, WiseTypeOK
      <4>3. txs \in Seq(Row) /\ txs[i] \in Row
        BY DEF WiseTypeOK
      <4>4. Len(txs') = Len(txs) /\ txs'[i].confirmedBy = {c} /\ txs'[i].leg = r.leg /\ txs'[i].row = r.row
        <5> DEFINE new == [txs[i] EXCEPT !.confirmedBy = {r.call}]
        <5>1. new.confirmedBy = {c} /\ new.leg = txs[i].leg /\ new.row = txs[i].row
          BY <4>3 DEF Row
        <5>2. txs' = [txs EXCEPT ![i] = new]
          BY <4>1
        <5>3. txs'[i] = new /\ Len(txs') = Len(txs)
          <6> HIDE DEF new
          <6> QED BY <4>1, <4>3, <5>2
        <5>4. QED
          BY <4>1, <5>1, <5>3
      <4>5. Registered(c, cmd)'
        BY <3>1, <4>1, <4>4 DEF Registered, Ids, LegOf
      <4>6. QED
        BY <2>7, <2>9, <3>2, <3>3, <4>2, <4>5 DEF AtHand
    <3>6. QED
      <4>1. CASE DeliverConfirm(r)
        <5>1. PICK i \in Ids :
                  /\ txs[i].by = r.call /\ txs[i].leg = r.leg /\ txs[i].row = r.row
                  /\ IF txs[i].confirmedBy = {}
                       THEN txs' = [txs EXCEPT ![i].confirmedBy = {r.call}] /\ Reply(r, "ok")
                       ELSE UNCHANGED txs /\ Reply(r, "rejected")
          BY <4>1 DEF DeliverConfirm
        <5>2. CASE txs[i].confirmedBy = {}
          BY <3>5, <5>1, <5>2
        <5>3. CASE txs[i].confirmedBy # {}
          <6>1. UNCHANGED txs /\ Reply(r, "rejected")
            BY <5>1, <5>3
          <6>2. answer'[c] = "rejected"
            BY <3>1, <6>1 DEF Reply, WiseTypeOK
          <6>3. QED
            BY <3>4, <6>1, <6>2
        <5>4. QED
          BY <5>2, <5>3
      <4>2. CASE Refuse(r)
        <5>1. UNCHANGED txs /\ answer'[c] = "rejected"
          BY <3>1, <4>2 DEF Refuse, Reply, WiseTypeOK
        <5>2. QED
          BY <3>4, <5>1
      <4>3. CASE Lose(r)
        <5>1. UNCHANGED txs /\ answer'[c] = "none"
          BY <3>1, <4>3 DEF Lose
        <5>2. QED
          BY <3>4, <5>1
      <4>4. QED
        BY <3>1, <4>1, <4>2, <4>3 DEF Served, DeliverCreate
  <2>10. ASSUME step[c] = "recover" PROVE AtHand(c, cmd)'
    <3>1. cmd.act # "main" /\ (cmd.act = "fee" => Stored(c, cmd)')
      BY <2>6, <2>10 DEF AtHand, Mono
    <3>2. QED
      BY <2>7, <2>10, <3>1 DEF AtHand
  <2>11. AtHand(c, Current(c))'
    <3>1. AtHand(c, cmd)'
      BY <1>2, <2>8, <2>9, <2>10
    <3>2. QED
      BY <2>2, <2>5, <3>1
  <2>12. QED
    BY <1>2, <2>2, <2>4, <2>11 DEF CallInv, Working, Looping
<1>3. CASE step[c] \in {"over", "dead"}
  <2>1. PlanShape(c)'
    <3>1. step[c] = "over" => Len(part[c]) = Len(plan[c])
      BY DEF CallInv, PlanShape
    <3>2. \A i, j \in 1..Len(plan[c]) :
          /\ plan[c][i] = plan[c][j] => i = j
          /\ plan[c][i].act # "main" /\ plan[c][j] = [act |-> "main", row |-> plan[c][i].row] => j < i
      BY DEF CallInv, PlanShape
    <3>3. QED
      BY <1>3, <3>1, <3>2 DEF PlanShape, Looping
  <2>2. MailInv(c)'
    BY <1>3 DEF CallInv, MailInv
  <2>3. ASSUME step[c] = "over" PROVE PartTold(c)' /\ PartShape(c)'
    <3>1. PartTold(c) /\ PartShape(c) /\ Len(part[c]) = Len(plan[c])
      BY <2>3 DEF CallInv, PlanShape
    <3>2. PartShape(c)'
      BY <3>1 DEF PartShape
    <3>3. ASSUME NEW i \in 1..Len(part[c]) PROVE Told(c, plan[c][i], part[c][i])'
      <4>1. plan[c][i] \in Command
        BY <3>1 DEF WiseTypeOK
      <4>2. PICK cmd \in Command : cmd = plan[c][i]
        BY <4>1
      <4>3. PICK what : what = part[c][i]
        OBVIOUS
      <4>4. Told(c, cmd, what)'
        BY <1>1, <3>1, <4>2, <4>3, MonoTells DEF PartTold
      <4>5. cmd = plan'[c][i] /\ what = part'[c][i]
        BY <4>2, <4>3
      <4>6. QED
        BY <4>4, <4>5
    <3>4. QED
      BY <3>2, <3>3 DEF PartTold
  <2>4. QED
    BY <1>3, <2>1, <2>2, <2>3 DEF CallInv, Working, Looping
<1>4. QED
  BY <1>0, <1>2, <1>3

-----------------------------------------------------------------------------
(* No leg is created twice in time in one process. *)
Creates(c) == step[c] = "guard" \/ (step[c] = "creating" /\ answer[c] = "none")

LEMMA ServedLegs ==
  ASSUME WiseInv, NEW r \in mail, Served(r), UNCHANGED <<step, plan, part>>
  PROVE  LegOncePerProcess' /\ FreeInv'
<1> USE DEF WiseInv
<1>0. /\ r \in Request /\ r.call \in Call
      /\ Len(txs) \in Nat /\ Len(txs') \in Nat /\ Len(txs) <= Len(txs')
  BY ServedRows DEF WiseTypeOK, Request
<1>1. ASSUME NEW i \in 1..Len(txs)
      PROVE  /\ txs'[i].by = txs[i].by /\ txs'[i].leg = txs[i].leg
             /\ txs'[i].row = txs[i].row /\ txs'[i].late = txs[i].late
  BY ServedRows
<1>2. ASSUME NEW i \in 1..Len(txs'), i \notin 1..Len(txs)
      PROVE  /\ r.op = "create" /\ i = Len(txs) + 1 /\ txs'[i].by = r.call
             /\ txs'[i].leg = r.leg /\ txs'[i].row = r.row
             /\ txs'[i].late = ~Waiting(r)
  <2>1. i > Len(txs)
    BY <1>0, <1>2
  <2>2. QED
    BY <2>1, ServedRows
<1>3. ASSUME NEW i \in 1..Len(txs'), i \notin 1..Len(txs), ~txs'[i].late
      PROVE  /\ step[r.call] = "creating" /\ answer[r.call] = "none"
             /\ r.leg = Current(r.call).act /\ r.row = Current(r.call).row
             /\ answer'[r.call] # "none"
  <2>1. r.op = "create" /\ Waiting(r)
    BY <1>2, <1>3
  <2>2. step[r.call] = "creating"
    BY <2>1 DEF Waiting
  <2>3. /\ answer[r.call] = "none" /\ r.leg = Current(r.call).act /\ r.row = Current(r.call).row
    BY <1>0, <2>2 DEF CallInv, MailInv
  <2>4. txs' # txs
    BY <1>3
  <2>5. DeliverCreate(r)
    BY <2>1, <2>4 DEF Served, Refuse, Lose, DeliverConfirm
  <2>6. answer'[r.call] # "none"
    BY <1>0, <2>1, <2>5 DEF DeliverCreate, Reply, WiseTypeOK
  <2>7. QED
    BY <2>2, <2>3, <2>6
<1>4. ASSUME NEW i \in 1..Len(txs'), i \notin 1..Len(txs), NEW j \in 1..Len(txs),
             txs'[i].leg = txs'[j].leg, txs'[i].row = txs'[j].row
      PROVE  txs'[i].late \/ txs'[j].late \/ ProcOf[txs'[i].by] # ProcOf[txs'[j].by]
  <2> SUFFICES ASSUME ~txs'[i].late
               PROVE  txs'[j].late \/ ProcOf[txs'[i].by] # ProcOf[txs'[j].by]
    OBVIOUS
  <2>1. Free(r.call)
    BY <1>0, <1>3, <1>4 DEF FreeInv
  <2>2. txs[j].leg = Current(r.call).act /\ txs[j].row = Current(r.call).row
    BY <1>1, <1>2, <1>3, <1>4
  <2>3. txs[j].late \/ ProcOf[txs[j].by] # ProcOf[r.call]
    BY <2>1, <2>2 DEF Free, Ids
  <2>4. QED
    BY <1>1, <1>2, <1>4, <2>3
<1>5. LegOncePerProcess'
  <2> SUFFICES ASSUME NEW i \in 1..Len(txs'), NEW j \in 1..Len(txs'), i # j,
                      txs'[i].leg = txs'[j].leg, txs'[i].row = txs'[j].row
               PROVE  txs'[i].late \/ txs'[j].late \/ ProcOf[txs'[i].by] # ProcOf[txs'[j].by]
    BY DEF LegOncePerProcess, Ids
  <2>1. CASE i \in 1..Len(txs) /\ j \in 1..Len(txs)
    <3>1. txs[i].late \/ txs[j].late \/ ProcOf[txs[i].by] # ProcOf[txs[j].by]
      BY <1>1, <2>1 DEF LegOncePerProcess, Ids
    <3>2. QED
      BY <1>1, <2>1, <3>1
  <2>2. CASE i \notin 1..Len(txs) /\ j \notin 1..Len(txs)
    BY <1>2, <2>2
  <2>3. CASE i \notin 1..Len(txs) /\ j \in 1..Len(txs)
    BY <1>4, <2>3
  <2>4. CASE i \in 1..Len(txs) /\ j \notin 1..Len(txs)
    BY <1>4, <2>4
  <2>5. QED
    BY <2>1, <2>2, <2>3, <2>4
<1>6. FreeInv'
  <2> SUFFICES ASSUME NEW c \in Call, step'[c] = "guard" \/ (step'[c] = "creating" /\ answer'[c] = "none"),
                      NEW j \in 1..Len(txs'),
                      txs'[j].leg = Current(c)'.act, txs'[j].row = Current(c)'.row
               PROVE  txs'[j].late \/ ProcOf[txs'[j].by] # ProcOf[c]
    BY DEF FreeInv, Free, Ids
  <2>0. Current(c)' = Current(c)
    BY DEF Current
  <2>1. CASE j \in 1..Len(txs)
    <3>1. step[c] = "guard" \/ (step[c] = "creating" /\ answer[c] = "none")
      <4>1. CASE step[c] = "guard"
        BY <4>1
      <4>2. CASE step[c] = "creating" /\ c # r.call
        BY <4>2, ServedAnswer
      <4>3. CASE step[c] = "creating" /\ c = r.call
        BY <4>3 DEF CallInv, MailInv
      <4>4. QED
        BY <4>1, <4>2, <4>3
    <3>2. Free(c)
      BY <3>1 DEF FreeInv
    <3>3. QED
      BY <1>1, <2>0, <2>1, <3>2 DEF Free, Ids
  <2>2. CASE j \notin 1..Len(txs)
    <3>1. SUFFICES ASSUME ~txs'[j].late, ProcOf[r.call] = ProcOf[c] PROVE FALSE
      BY <1>2, <2>2
    <3>2. step[r.call] = "creating" /\ answer'[r.call] # "none"
      BY <1>3, <2>2, <3>1
    <3>3. step[c] \in Looping /\ step[r.call] \in Looping
      BY <3>2 DEF Looping
    <3>4. c = r.call
      BY <1>0, <3>1, <3>3, OneLoops
    <3>5. QED
      BY <3>2, <3>4
  <2>3. QED
    BY <2>1, <2>2
<1>7. QED
  BY <1>5, <1>6

(* A step of c that creates nothing leaves the legs as they are. *)
LEMMA LegsFrame ==
  ASSUME WiseInv, UNCHANGED txs,
         \A c \in Call : Creates(c)' => \/ Free(c)'
                                        \/ Creates(c) /\ plan'[c] = plan[c] /\ part'[c] = part[c]
  PROVE  LegOncePerProcess' /\ FreeInv'
<1> USE DEF WiseInv
<1>1. LegOncePerProcess'
  BY DEF LegOncePerProcess, Ids
<1>2. ASSUME NEW c \in Call, Creates(c)' PROVE Free(c)'
  <2>1. CASE Creates(c) /\ plan'[c] = plan[c] /\ part'[c] = part[c]
    <3>1. Free(c)
      BY <2>1 DEF FreeInv, Creates
    <3>2. Current(c)' = Current(c)
      BY <2>1 DEF Current
    <3>3. QED
      BY <3>1, <3>2 DEF Free, Ids
  <2>2. QED
    BY <1>2, <2>1
<1>3. QED
  BY <1>1, <1>2 DEF FreeInv, Creates

-----------------------------------------------------------------------------
(* A step of one call that leaves the rows alone. *)
LEMMA MailMoveKeeps ==
  ASSUME WiseInv, NEW c \in Call, txs' = txs,
         mail' \subseteq Request, \A r \in (mail' \ mail) \cup (mail \ mail') : r.call = c,
         gate' \in [Process -> Seq(Call)], step' \in [Call -> Step],
         plan' \in [Call -> Seq(Command)], part' \in [Call -> Seq(Part)],
         blocked' \in [Call -> SUBSET StatementRow],
         answer' \in [Call -> {"none", "ok", "noId", "rejected"}],
         \A d \in Call : d # c => /\ step'[d] = step[d] /\ plan'[d] = plan[d]
                                  /\ part'[d] = part[d] /\ answer'[d] = answer[d],
         GateInv', CallInv(c)',
         Creates(c)' => Free(c)' \/ (Creates(c) /\ plan'[c] = plan[c] /\ part'[c] = part[c])
  PROVE  WiseInv'
<1> USE DEF WiseInv
<1>1. WiseTypeOK'
  BY DEF WiseTypeOK
<1>2. ASSUME NEW d \in Call PROVE CallInv(d)'
  <2>1. CASE d = c
    BY <2>1
  <2>2. CASE d # c
    <3>1. \A q : q.call = d => (q \in mail' <=> q \in mail)
      BY <2>2
    <3>2. Alike(d)
      <4>1. ASSUME NEW cmd \in Command
            PROVE  /\ Stored(d, cmd)' <=> Stored(d, cmd)
                   /\ Registered(d, cmd)' <=> Registered(d, cmd)
                   /\ Settled(d, cmd) => Settled(d, cmd)'
                   /\ Wrote(d, cmd)' <=> Wrote(d, cmd)
                   /\ Confirmed(d, cmd)' <=> Confirmed(d, cmd)
        <5>1. /\ Stored(d, cmd)' <=> Stored(d, cmd)
              /\ Registered(d, cmd)' <=> Registered(d, cmd)
              /\ Settled(d, cmd) => Settled(d, cmd)'
          BY DEF Stored, Registered, Settled, Ids, LegOf
        <5>2. Wrote(d, cmd)' <=> Wrote(d, cmd)
          BY <3>1 DEF Wrote, Ids
        <5>3. Confirmed(d, cmd)' <=> Confirmed(d, cmd)
          BY <3>1 DEF Confirmed, Ids
        <5>4. QED
          BY <5>1, <5>2, <5>3
      <4>2. QED
        BY <3>1, <4>1 DEF Alike, Ids
    <3>3. QED
      BY <2>2, <3>2, CallFrame
  <2>3. QED
    BY <2>1, <2>2
<1>3. LegOncePerProcess' /\ FreeInv'
  <2>1. ASSUME NEW d \in Call, Creates(d)'
        PROVE  Free(d)' \/ (Creates(d) /\ plan'[d] = plan[d] /\ part'[d] = part[d])
    BY <2>1 DEF Creates
  <2>2. QED
    BY <2>1, LegsFrame
<1>4. QED
  BY <1>1, <1>2, <1>3

LEMMA MoveKeeps ==
  ASSUME WiseInv, NEW c \in Call, txs' = txs,
         mail' \subseteq Request, mail \subseteq mail', \A r \in mail' \ mail : r.call = c,
         gate' \in [Process -> Seq(Call)], step' \in [Call -> Step],
         plan' \in [Call -> Seq(Command)], part' \in [Call -> Seq(Part)],
         blocked' \in [Call -> SUBSET StatementRow],
         answer' \in [Call -> {"none", "ok", "noId", "rejected"}],
         \A d \in Call : d # c => /\ step'[d] = step[d] /\ plan'[d] = plan[d]
                                  /\ part'[d] = part[d] /\ answer'[d] = answer[d],
         GateInv', CallInv(c)',
         Creates(c)' => Free(c)' \/ (Creates(c) /\ plan'[c] = plan[c] /\ part'[c] = part[c])
  PROVE  WiseInv'
<1>1. \A r \in (mail' \ mail) \cup (mail \ mail') : r.call = c
  OBVIOUS
<1>2. QED
  BY <1>1, MailMoveKeeps

(* A report that also lets go of the request the row was read about. *)
LEMMA ReportMoves ==
  ASSUME WiseInv, NEW c \in Call, step[c] \in Looping,
         NEW what \in Part \ {"unknown", "notAttempted"}, Report(c, what),
         UNCHANGED <<txs, plan>>,
         mail' \subseteq mail, \A r \in mail' : r.call # c, \A r \in mail \ mail' : r.call = c,
         NEW cur, cur = Current(c), Told(c, cur, what)',
         what = "dependency" => MainFailed(c, cur.row),
         blocked' \in [Call -> SUBSET StatementRow],
         answer' \in [Call -> {"none", "ok", "noId", "rejected"}],
         \A d \in Call : d # c => answer'[d] = answer[d]
  PROVE  WiseInv'
<1> USE DEF WiseInv
<1>1. CallInv(c)'
  BY ReportKeeps
<1>2. /\ part' \in [Call -> Seq(Part)] /\ step' \in [Call -> Step]
      /\ \A d \in Call : d # c => part'[d] = part[d] /\ step'[d] = step[d]
      /\ \/ step'[c] = "over" /\ Goto(c, "over") /\ Leave(c)
         \/ step'[c] = "command" /\ Goto(c, "command") /\ gate' = gate
  BY ReportEffect DEF CallInv
<1>3. GateInv' /\ gate' \in [Process -> Seq(Call)]
  <2>1. CASE Goto(c, "over") /\ Leave(c)
    BY <2>1, GateLeave
  <2>2. CASE Goto(c, "command") /\ gate' = gate
    <3>1. "command" \in Step /\ "command" \in Looping
      BY DEF Step, Looping
    <3>2. GateInv'
      BY <2>2, <3>1, GateMove
    <3>3. QED
      BY <2>2, <3>2 DEF WiseTypeOK
  <2>3. QED
    BY <1>2, <2>1, <2>2
<1>4. ~Creates(c)'
  BY <1>2 DEF Creates
<1>5. mail' \subseteq Request /\ plan' = plan /\ plan \in [Call -> Seq(Command)]
  BY DEF WiseTypeOK
<1>6. QED
  BY <1>1, <1>2, <1>3, <1>4, <1>5, MailMoveKeeps

LEMMA ReportMove ==
  ASSUME WiseInv, NEW c \in Call, step[c] \in Looping,
         NEW what \in Part \ {"unknown", "notAttempted"}, Report(c, what),
         UNCHANGED <<txs, mail, plan>>,
         Told(c, Current(c), what), what = "dependency" => MainFailed(c, Current(c).row),
         \A r \in mail : r.call # c,
         blocked' \in [Call -> SUBSET StatementRow],
         answer' \in [Call -> {"none", "ok", "noId", "rejected"}],
         \A d \in Call : d # c => answer'[d] = answer[d]
  PROVE  WiseInv'
<1>1. PICK cur \in Command : cur = Current(c)
  <2>1. CallInv(c) /\ Working(c) /\ WiseTypeOK
    BY DEF WiseInv, Working
  <2>2. QED
    BY <2>1, CurrentTyped DEF CallInv
<1>2. Told(c, cur, what)'
  BY <1>1, SameBooks, AlikeMono, MonoTells
<1>3. QED
  BY <1>1, <1>2, ReportMoves

-----------------------------------------------------------------------------
(* The first state. *)
LEMMA WiseInit ==
  Init => WiseInv
<1> SUFFICES ASSUME Init PROVE WiseInv
  OBVIOUS
<1>1. Len(txs) = 0 /\ Ids = {} /\ mail = {}
  BY DEF Init, Ids
<1>2. ASSUME NEW c \in Call
      PROVE  step[c] = "preview" /\ plan[c] = << >> /\ part[c] = << >> /\ Len(plan[c]) = 0
  BY <1>2 DEF Init
<1>3. WiseTypeOK
  BY DEF Init, WiseTypeOK, Step, Looping, Ended
<1>4. GateInv
  <2>1. \A p \in Process : gate[p] = << >>
    BY DEF Init
  <2>2. QED
    BY <1>2, <2>1 DEF GateInv, Looping
<1>5. ASSUME NEW c \in Call PROVE CallInv(c)
  BY <1>1, <1>2 DEF CallInv, PlanShape, MailInv, Working, Looping
<1>6. FreeInv /\ LegOncePerProcess
  BY <1>1, <1>2 DEF FreeInv, LegOncePerProcess
<1>7. QED
  BY <1>3, <1>4, <1>5, <1>6 DEF WiseInv

(* A step of c outside the loop. *)
LEMMA OutsideLoop ==
  ASSUME WiseInv, NEW c \in Call, UNCHANGED <<txs, mail, gate, plan, part, blocked, answer>>,
         \/ step[c] = "preview" /\ Goto(c, "reviewed")
         \/ step[c] = "reviewed" /\ Goto(c, "projecting")
         \/ step[c] = "projecting" /\ Goto(c, "refused")
  PROVE  WiseInv'
<1> USE DEF WiseInv
<1>1. PICK s \in {"reviewed", "projecting", "refused"} :
          /\ Goto(c, s) /\ step[c] \in {"preview", "reviewed", "projecting"}
  OBVIOUS
<1>2. s \in Step /\ s \notin Looping \cup {"queued"}
      /\ step[c] \notin Looping \cup {"queued", "over", "creating", "confirming"}
  BY <1>1 DEF Step, Looping, Ended
<1>3. /\ step' \in [Call -> Step] /\ step'[c] = s
      /\ \A d \in Call : d # c => step'[d] = step[d]
  BY <1>1, <1>2, GotoEffect
<1>4. GateInv'
  BY <1>1, <1>2, GateMove
<1>5. CallInv(c)'
  <2>1. PlanShape(c) /\ MailInv(c)
    BY DEF CallInv
  <2>2. /\ plan[c] = << >> /\ part[c] = << >>
        /\ \A i \in Ids : txs[i].by # c /\ txs[i].confirmedBy # {c}
    BY <1>1, <2>1 DEF PlanShape
  <2>3. \A r \in mail : r.call # c
    BY <1>1, <2>1 DEF MailInv
  <2>4. PlanShape(c)'
    BY <1>3, <2>2 DEF PlanShape, Looping, Ids
  <2>5. MailInv(c)'
    BY <2>3 DEF MailInv
  <2>6. QED
    BY <1>3, <2>4, <2>5 DEF CallInv, Working, Looping
<1>6. ~Creates(c)'
  BY <1>3 DEF Creates
<1>7. WiseTypeOK
  OBVIOUS
<1>8. QED
  BY <1>3, <1>4, <1>5, <1>6, <1>7, MoveKeeps DEF WiseTypeOK

LEMMA PreviewKeeps ==
  ASSUME WiseInv, NEW c \in Call, Preview(c)
  PROVE  WiseInv'
  BY OutsideLoop DEF Preview, Runs, ledger

LEMMA ConsumeKeeps ==
  ASSUME WiseInv, NEW c \in Call, Consume(c)
  PROVE  WiseInv'
  BY OutsideLoop DEF Consume, Runs, Outside, ledger

-----------------------------------------------------------------------------
(* The projection names each command once, and the main one of a row first. *)
LEMMA ProjectionShape ==
  /\ DOMAIN EveryCommand = 1..(3 * StatementRows)
  /\ \A i \in DOMAIN EveryCommand : EveryCommand[i] \in Command
  /\ \A i, j \in DOMAIN EveryCommand : EveryCommand[i] = EveryCommand[j] => i = j
  /\ \A i, j \in DOMAIN EveryCommand :
        EveryCommand[i].act # "main" /\ EveryCommand[j] = [act |-> "main", row |-> EveryCommand[i].row] => j < i
<1>1. StatementRows \in Nat
  BY WiseAssumption
<1>2. DOMAIN EveryCommand = 1..(3 * StatementRows)
  BY DEF EveryCommand
<1>3. PICK R \in Nat : R = StatementRows
  BY <1>1
<1>4. ASSUME NEW i \in 1..(3 * R)
      PROVE  /\ EveryCommand[i] = [act |-> EveryCommand[i].act, row |-> EveryCommand[i].row]
             /\ i > 2 * R => EveryCommand[i].act = "inter" /\ EveryCommand[i].row = i - 2 * R
             /\ i <= 2 * R => EveryCommand[i].row = (i + 1) \div 2
             /\ i <= 2 * R /\ i % 2 = 1 => EveryCommand[i].act = "main"
             /\ i <= 2 * R /\ i % 2 # 1 => EveryCommand[i].act = "fee"
  BY <1>3, <1>4 DEF EveryCommand
<1>5. ASSUME NEW i \in 1..(3 * R) PROVE EveryCommand[i] \in Command
  <2>1. i > 2 * R \/ (i <= 2 * R /\ (i % 2 = 1 \/ i % 2 # 1))
    BY <1>3
  <2>2. PICK act, row : act = EveryCommand[i].act /\ row = EveryCommand[i].row
    OBVIOUS
  <2>3. act \in {"main", "fee", "inter"}
    BY <1>4, <2>1, <2>2
  <2>4. i > 2 * R => i - 2 * R \in 1..R
    BY <1>3
  <2>5. i <= 2 * R => (i + 1) \div 2 \in 1..R
    BY <1>3
  <2>6. row \in StatementRow
    BY <1>3, <1>4, <2>1, <2>2, <2>4, <2>5 DEF StatementRow
  <2>7. EveryCommand[i] = [act |-> act, row |-> row]
    BY <1>4, <2>2
  <2>8. QED
    BY <2>3, <2>6, <2>7 DEF Command
<1>6. ASSUME NEW i \in 1..(3 * R), NEW j \in 1..(3 * R),
             EveryCommand[i].act = EveryCommand[j].act, EveryCommand[i].row = EveryCommand[j].row
      PROVE  i = j
  <2>1. i \in Int /\ j \in Int /\ (i > 2 * R \/ i <= 2 * R) /\ (j > 2 * R \/ j <= 2 * R)
        /\ (i % 2 = 1 \/ i % 2 # 1) /\ (j % 2 = 1 \/ j % 2 # 1)
    BY <1>3
  <2>2. CASE i > 2 * R
    <3>1. j > 2 * R
      BY <1>4, <1>6, <2>1, <2>2
    <3>2. i - 2 * R = j - 2 * R
      BY <1>4, <1>6, <2>2, <3>1
    <3>3. QED
      BY <1>3, <2>1, <3>2
  <2>3. CASE i <= 2 * R
    <3>1. j <= 2 * R
      BY <1>4, <1>6, <2>1, <2>3
    <3>2. i % 2 = 1 <=> j % 2 = 1
      BY <1>4, <1>6, <2>1, <2>3, <3>1
    <3>3. (i + 1) \div 2 = (j + 1) \div 2
      BY <1>4, <1>6, <2>3, <3>1
    <3>4. QED
      BY <2>1, <3>2, <3>3
  <2>4. QED
    BY <2>1, <2>2, <2>3
<1>7. ASSUME NEW i \in 1..(3 * R), NEW j \in 1..(3 * R), EveryCommand[i].act # "main",
             EveryCommand[j] = [act |-> "main", row |-> EveryCommand[i].row]
      PROVE  j < i
  <2>1. i \in Int /\ j \in Int /\ (i > 2 * R \/ i <= 2 * R) /\ (j > 2 * R \/ j <= 2 * R)
        /\ (i % 2 = 1 \/ i % 2 # 1) /\ (j % 2 = 1 \/ j % 2 # 1) /\ 2 * R \in Int
    BY <1>3
  <2>2. EveryCommand[j].act = "main" /\ EveryCommand[j].row = EveryCommand[i].row
    BY <1>7
  <2>3. j <= 2 * R /\ j % 2 = 1
    BY <1>4, <2>1, <2>2
  <2>4. CASE i > 2 * R
    BY <2>1, <2>3, <2>4
  <2>5. CASE i <= 2 * R
    <3>1. i % 2 # 1
      BY <1>4, <1>7, <2>5
    <3>2. (i + 1) \div 2 = (j + 1) \div 2
      BY <1>4, <2>2, <2>3, <2>5
    <3>3. QED
      BY <2>1, <2>3, <3>1, <3>2
  <2>6. QED
    BY <2>1, <2>4, <2>5
<1>8. ASSUME NEW i \in 1..(3 * R), NEW j \in 1..(3 * R), EveryCommand[i] = EveryCommand[j]
      PROVE  i = j
  <2>1. EveryCommand[i].act = EveryCommand[j].act /\ EveryCommand[i].row = EveryCommand[j].row
    BY <1>8
  <2>2. QED
    BY <1>6, <2>1
<1>9. DOMAIN EveryCommand = 1..(3 * R)
  BY <1>2, <1>3
<1> HIDE DEF EveryCommand
<1>10. \A i, j \in DOMAIN EveryCommand : EveryCommand[i] = EveryCommand[j] => i = j
  BY <1>8, <1>9
<1>11. \A i, j \in DOMAIN EveryCommand :
          EveryCommand[i].act # "main" /\ EveryCommand[j] = [act |-> "main", row |-> EveryCommand[i].row] => j < i
  BY <1>7, <1>9
<1>12. \A i \in DOMAIN EveryCommand : EveryCommand[i] \in Command
  BY <1>5, <1>9
<1>13. QED
  BY <1>2, <1>10, <1>11, <1>12, Zenon

(* A plan takes its commands in that order. *)
LEMMA PlanTaken ==
  ASSUME PendingAt # {}, NEW cmds \in PlannedCommands
  PROVE  /\ cmds \in Seq(Command) /\ Len(cmds) \in Nat /\ Len(cmds) > 0
         /\ \A i, j \in 1..Len(cmds) :
               /\ cmds[i] = cmds[j] => i = j
               /\ cmds[i].act # "main" /\ cmds[j] = [act |-> "main", row |-> cmds[i].row] => j < i
<1> DEFINE n == Cardinality(PendingAt)
<1>1. DOMAIN EveryCommand = 1..(3 * StatementRows) /\ 3 * StatementRows \in Int
  BY ProjectionShape, WiseAssumption
<1>2. PendingAt \subseteq DOMAIN EveryCommand
  BY DEF PendingAt
<1>3. IsFiniteSet(PendingAt)
  <2>1. IsFiniteSet(1..(3 * StatementRows))
    BY <1>1, FS_Interval
  <2>2. QED
    BY <1>1, <1>2, <2>1, FS_Subset
<1>4. n \in Nat /\ n > 0
  BY <1>3, FS_CardinalityType, FS_EmptySet
<1>5. PICK t \in [1..n -> PendingAt] :
          /\ \A i, j \in DOMAIN t : i < j => t[i] < t[j]
          /\ cmds = [i \in DOMAIN t |-> EveryCommand[t[i]]]
  BY DEF PlannedCommands
<1> HIDE DEF n
<1>6. ASSUME NEW i \in 1..n
      PROVE  t[i] \in DOMAIN EveryCommand /\ t[i] \in Int /\ cmds[i] = EveryCommand[t[i]] /\ cmds[i] \in Command
  <2>1. t[i] \in DOMAIN EveryCommand /\ cmds[i] = EveryCommand[t[i]]
    BY <1>2, <1>5
  <2>2. QED
    BY <1>1, <2>1, ProjectionShape
<1>7. cmds \in Seq(Command) /\ Len(cmds) = n
  BY <1>4, <1>5, <1>6
<1>8. ASSUME NEW i \in 1..n, NEW j \in 1..n
      PROVE  /\ cmds[i] = cmds[j] => i = j
             /\ cmds[i].act # "main" /\ cmds[j] = [act |-> "main", row |-> cmds[i].row] => j < i
  <2>1. (t[i] = t[j] => i = j) /\ (t[j] < t[i] => j < i)
    BY <1>4, <1>5, <1>6
  <2>2. QED
    BY <1>6, <2>1, ProjectionShape
<1>9. QED
  BY <1>4, <1>7, <1>8

-----------------------------------------------------------------------------
(* A call takes its place at the end of the gate. *)
LEMMA GateQueue ==
  ASSUME WiseTypeOK, GateInv, NEW c \in Call, step[c] = "projecting", Goto(c, "queued"),
         gate' = [gate EXCEPT ![ProcOf[c]] = Append(@, c)]
  PROVE  GateInv' /\ gate' \in [Process -> Seq(Call)]
<1> DEFINE p == ProcOf[c]
<1>1. p \in Process /\ gate[p] \in Seq(Call) /\ Len(gate[p]) \in Nat
  BY WiseAssumption DEF WiseTypeOK
<1>2. /\ step'[c] = "queued"
      /\ \A d \in Call : d # c => step'[d] = step[d]
  BY GotoEffect DEF Step
<1>3. /\ gate' \in [Process -> Seq(Call)]
      /\ gate'[p] = Append(gate[p], c)
      /\ \A q \in Process : q # p => gate'[q] = gate[q]
  BY <1>1 DEF WiseTypeOK
<1>4. /\ DOMAIN gate'[p] = 1..(Len(gate[p]) + 1)
      /\ \A i \in 1..Len(gate[p]) : gate'[p][i] = gate[p][i]
      /\ gate'[p][Len(gate[p]) + 1] = c
  BY <1>1, <1>3
<1>5. ASSUME NEW q \in Process, NEW i \in DOMAIN gate[q]
      PROVE  /\ gate[q][i] \in Call /\ gate[q][i] # c /\ ProcOf[gate[q][i]] = q
             /\ step'[gate[q][i]] \in Looping \cup {"queued"}
  <2>1. gate[q][i] \in Call /\ ProcOf[gate[q][i]] = q /\ step[gate[q][i]] \in Looping \cup {"queued"}
    BY <1>5 DEF WiseTypeOK, GateInv
  <2>2. gate[q][i] # c
    BY <2>1 DEF Looping
  <2>3. QED
    BY <1>2, <2>1, <2>2
<1>6. ASSUME NEW q \in Process, NEW i \in DOMAIN gate'[q]
      PROVE  /\ ProcOf[gate'[q][i]] = q
             /\ step'[gate'[q][i]] \in Looping \cup {"queued"}
             /\ \A j \in DOMAIN gate'[q] : gate'[q][i] = gate'[q][j] => i = j
  <2>1. CASE q # p
    <3>1. gate'[q] = gate[q]
      BY <1>3, <2>1
    <3>2. i \in DOMAIN gate[q]
      BY <1>6, <3>1
    <3>3. ProcOf[gate[q][i]] = q /\ step'[gate[q][i]] \in Looping \cup {"queued"}
      BY <1>5, <3>2
    <3>4. \A j \in DOMAIN gate[q] : gate[q][i] = gate[q][j] => i = j
      BY <3>2 DEF GateInv
    <3>5. QED
      BY <3>1, <3>3, <3>4
  <2>2. CASE q = p
    <3>1. DOMAIN gate[p] = 1..Len(gate[p])
      BY <1>1
    <3>2. CASE i = Len(gate[p]) + 1
      <4>1. ASSUME NEW j \in DOMAIN gate'[p], gate'[p][j] = c PROVE j = i
        <5>1. CASE j \in DOMAIN gate[p]
          BY <1>1, <1>4, <1>5, <3>1, <4>1, <5>1
        <5>2. CASE j \notin DOMAIN gate[p]
          BY <1>1, <1>4, <3>1, <3>2, <4>1, <5>2
        <5>3. QED
          BY <5>1, <5>2
      <4>2. QED
        BY <1>2, <1>4, <2>2, <3>2, <4>1
    <3>3. CASE i # Len(gate[p]) + 1
      <4>1. i \in DOMAIN gate[p]
        BY <1>1, <1>4, <1>6, <2>2, <3>1, <3>3
      <4>2. gate'[p][i] = gate[p][i] /\ gate[p][i] # c
        BY <1>1, <1>4, <1>5, <3>1, <4>1
      <4>3. ASSUME NEW j \in DOMAIN gate'[p], gate'[p][i] = gate'[p][j] PROVE i = j
        <5>1. CASE j \in DOMAIN gate[p]
          <6>1. gate'[p][j] = gate[p][j]
            BY <1>4, <3>1, <5>1
          <6>2. QED
            BY <1>1, <4>1, <4>2, <4>3, <5>1, <6>1 DEF GateInv
        <5>2. CASE j \notin DOMAIN gate[p]
          BY <1>1, <1>4, <3>1, <4>2, <4>3, <5>2
        <5>3. QED
          BY <5>1, <5>2
      <4>4. QED
        BY <1>1, <1>5, <2>2, <4>1, <4>2, <4>3
    <3>4. QED
      BY <3>2, <3>3
  <2>3. QED
    BY <2>1, <2>2
<1>7. ASSUME NEW d \in Call, step'[d] \in Looping \cup {"queued"}
      PROVE  \E i \in DOMAIN gate'[ProcOf[d]] :
                gate'[ProcOf[d]][i] = d /\ (step'[d] \in Looping => i = 1)
  <2>1. CASE d = c
    <3>1. Len(gate[p]) + 1 \in DOMAIN gate'[p]
      BY <1>1, <1>4
    <3>2. step'[d] \notin Looping
      BY <1>2, <2>1 DEF Looping
    <3>3. QED
      BY <1>4, <2>1, <3>1, <3>2
  <2>2. CASE d # c
    <3>1. PICK i \in DOMAIN gate[ProcOf[d]] :
              gate[ProcOf[d]][i] = d /\ (step'[d] \in Looping => i = 1)
      BY <1>2, <1>7, <2>2 DEF GateInv
    <3>2. ProcOf[d] \in Process
      BY WiseAssumption
    <3>3. CASE ProcOf[d] = p
      <4>1. DOMAIN gate[p] = 1..Len(gate[p])
        BY <1>1
      <4>2. i \in DOMAIN gate'[p] /\ gate'[p][i] = d
        BY <1>1, <1>4, <3>1, <3>3, <4>1
      <4>3. QED
        BY <3>1, <3>3, <4>2
    <3>4. CASE ProcOf[d] # p
      BY <1>3, <3>1, <3>2, <3>4
    <3>5. QED
      BY <3>3, <3>4
  <2>3. QED
    BY <2>1, <2>2
<1>8. QED
  BY <1>3, <1>6, <1>7 DEF GateInv

LEMMA CompareKeeps ==
  ASSUME WiseInv, NEW c \in Call, Compare(c)
  PROVE  WiseInv'
<1> USE DEF WiseInv
<1>1. step[c] = "projecting" /\ UNCHANGED <<txs, mail, part, blocked, answer>>
  BY DEF Compare, Runs, ledger
<1>2. CASE Goto(c, "refused") /\ UNCHANGED <<plan, gate>>
  BY <1>1, <1>2, OutsideLoop
<1>3. ASSUME PendingAt # {}, NEW cmds \in PlannedCommands, plan' = [plan EXCEPT ![c] = cmds],
             gate' = [gate EXCEPT ![ProcOf[c]] = Append(@, c)], Goto(c, "queued")
      PROVE  WiseInv'
  <2>1. /\ cmds \in Seq(Command) /\ Len(cmds) \in Nat /\ Len(cmds) > 0
        /\ \A i, j \in 1..Len(cmds) :
              /\ cmds[i] = cmds[j] => i = j
              /\ cmds[i].act # "main" /\ cmds[j] = [act |-> "main", row |-> cmds[i].row] => j < i
    BY <1>3, PlanTaken
  <2>2. GateInv' /\ gate' \in [Process -> Seq(Call)]
    BY <1>1, <1>3, GateQueue
  <2>3. /\ step' \in [Call -> Step] /\ step'[c] = "queued"
        /\ \A d \in Call : d # c => step'[d] = step[d]
    BY <1>3, GotoEffect DEF Step
  <2>4. /\ plan' \in [Call -> Seq(Command)] /\ plan'[c] = cmds
        /\ \A d \in Call : d # c => plan'[d] = plan[d]
    BY <1>3, <2>1 DEF WiseTypeOK
  <2>5. PlanShape(c) /\ MailInv(c)
    BY DEF CallInv
  <2>6. /\ part[c] = << >> /\ Len(part[c]) = 0
        /\ \A i \in Ids : txs[i].by # c /\ txs[i].confirmedBy # {c}
        /\ \A r \in mail : r.call # c
    BY <1>1, <2>5 DEF PlanShape, MailInv
  <2>7. ASSUME NEW cmd PROVE Untouched(c, cmd)'
    <3>1. ~Wrote(c, cmd)'
      BY <1>1, <2>6 DEF Wrote, Ids
    <3>2. ~Confirmed(c, cmd)'
      BY <1>1, <2>6 DEF Confirmed, Ids
    <3>3. QED
      BY <3>1, <3>2 DEF Untouched
  <2>8. PlanShape(c)'
    <3>1. cmds # << >>
      BY <2>1
    <3>2. QED
      BY <1>1, <2>1, <2>3, <2>4, <2>6, <3>1 DEF PlanShape, Looping
  <2>9. MailInv(c)'
    BY <1>1, <2>6 DEF MailInv
  <2>10. PartTold(c)' /\ PartShape(c)'
    BY <1>1, <2>3, <2>6 DEF PartTold, PartShape, Looping
  <2>11. Ahead(c)'
    <3>1. ASSUME NEW i \in 1..Len(plan'[c]) PROVE Untouched(c, plan[c][i])'
      <4>1. PICK cmd : cmd = plan'[c][i]
        OBVIOUS
      <4>2. Untouched(c, cmd)'
        BY <2>7
      <4>3. QED
        BY <4>1, <4>2
    <3>2. QED
      BY <3>1 DEF Ahead
  <2>12. AtHand(c, Current(c))'
    <3>1. PICK cmd : cmd = Current(c)'
      OBVIOUS
    <3>2. Untouched(c, cmd)'
      BY <2>7
    <3>3. AtHand(c, cmd)'
      BY <2>3, <3>2 DEF AtHand
    <3>4. QED
      BY <3>1, <3>3
  <2>13. CallInv(c)'
    BY <2>3, <2>8, <2>9, <2>10, <2>11, <2>12 DEF CallInv
  <2>14. ~Creates(c)'
    BY <2>3 DEF Creates
  <2>15. WiseTypeOK
    OBVIOUS
  <2>16. QED
    BY <1>1, <2>2, <2>3, <2>4, <2>13, <2>14, <2>15, MoveKeeps DEF WiseTypeOK
<1>4. QED
  BY <1>2, <1>3 DEF Compare

-----------------------------------------------------------------------------
(* A call goes on with the command at hand and sends nothing. *)
LEMMA StepOn ==
  ASSUME WiseInv, NEW c \in Call, Working(c), NEW s \in Looping, Goto(c, s),
         UNCHANGED <<txs, mail, gate, plan, part, blocked>>,
         answer' \in [Call -> {"none", "ok", "noId", "rejected"}],
         \A d \in Call : d # c => answer'[d] = answer[d],
         step[c] \in Looping \/ gate[ProcOf[c]][1] = c,
         MailInv(c)',
         AtHand(c, Current(c))',
         Creates(c)' => Free(c)'
  PROVE  WiseInv'
<1> USE DEF WiseInv
<1>1. s \in Step
  BY DEF Step
<1>2. /\ step' \in [Call -> Step] /\ step'[c] = s
      /\ \A d \in Call : d # c => step'[d] = step[d]
  BY <1>1, GotoEffect
<1>3. GateInv'
  BY <1>1, GateMove DEF Working
<1>4. ASSUME NEW cmd \in Command PROVE Mono(c, cmd)
  <2>1. Alike(c)
    BY SameBooks
  <2>2. QED
    BY <2>1, AlikeMono
<1>5. PlanShape(c)' /\ PartTold(c)' /\ PartShape(c)' /\ Ahead(c)'
  BY <1>2, <1>4, PastKeeps
<1>7. CallInv(c)'
  BY <1>5 DEF CallInv
<1>8. WiseTypeOK
  OBVIOUS
<1>9. QED
  BY <1>2, <1>3, <1>7, <1>8, MoveKeeps DEF WiseTypeOK

LEMMA EnterKeeps ==
  ASSUME WiseInv, NEW c \in Call, Enter(c)
  PROVE  WiseInv'
<1> USE DEF WiseInv
<1>1. /\ step[c] = "queued" /\ Goto(c, "command")
      /\ UNCHANGED <<txs, mail, gate, plan, part, blocked, answer>>
  BY DEF Enter, Runs, Outside, ledger
<1>2. Working(c) /\ CallInv(c) /\ \A r \in mail : r.call # c
  BY <1>1, NoMailYet DEF Working
<1>3. gate[ProcOf[c]][1] = c
  <2>1. gate[ProcOf[c]] \in Seq(Call)
    BY WiseAssumption DEF WiseTypeOK
  <2>2. PICK i \in DOMAIN gate[ProcOf[c]] : TRUE
    BY <1>1 DEF GateInv
  <2>3. Head(gate[ProcOf[c]]) = gate[ProcOf[c]][1]
    BY <2>1, <2>2
  <2>4. QED
    BY <2>3 DEF Enter
<1>4. step'[c] = "command"
  BY <1>1, GotoEffect DEF Step, Looping
<1>5. AtHand(c, Current(c))'
  <2>1. PICK cmd : cmd = Current(c)
    OBVIOUS
  <2>2. Untouched(c, cmd)
    BY <1>1, <1>2, <2>1 DEF CallInv, AtHand
  <2>3. Untouched(c, cmd)'
    BY <1>1, <2>2 DEF Untouched, Wrote, Confirmed, Ids
  <2>4. AtHand(c, cmd)'
    BY <1>4, <2>3 DEF AtHand
  <2>5. cmd = Current(c)'
    BY <1>1, <2>1 DEF Current
  <2>6. QED
    BY <2>4, <2>5
<1>6. ~Creates(c)'
  BY <1>4 DEF Creates
<1>7. answer \in [Call -> {"none", "ok", "noId", "rejected"}] /\ "command" \in Looping
  BY DEF WiseTypeOK, Looping
<1>8. MailInv(c)'
  BY <1>1, <1>2 DEF MailInv
<1>9. QED
  BY <1>1, <1>2, <1>3, <1>5, <1>6, <1>7, <1>8, StepOn

-----------------------------------------------------------------------------
(* What is known at a step of the loop. *)
LEMMA LoopFacts ==
  ASSUME WiseInv, NEW c \in Call, step[c] \in Looping
  PROVE  /\ WiseTypeOK /\ GateInv /\ CallInv(c) /\ Working(c)
         /\ PlanShape(c) /\ MailInv(c) /\ PartTold(c) /\ PartShape(c) /\ Ahead(c)
         /\ AtHand(c, Current(c)) /\ Current(c) \in Command
         /\ plan[c] \in Seq(Command) /\ part[c] \in Seq(Part)
         /\ Len(plan[c]) \in Nat /\ Len(part[c]) \in Nat
         /\ Len(part[c]) + 1 \in 1..Len(plan[c]) /\ Current(c) = plan[c][Len(part[c]) + 1]
         /\ answer \in [Call -> {"none", "ok", "noId", "rejected"}]
         /\ blocked \in [Call -> SUBSET StatementRow]
<1>1. WiseTypeOK /\ GateInv /\ CallInv(c) /\ Working(c)
  BY DEF WiseInv, Working
<1>2. PlanShape(c) /\ MailInv(c) /\ PartTold(c) /\ PartShape(c) /\ Ahead(c) /\ AtHand(c, Current(c))
  BY <1>1 DEF CallInv
<1>3. QED
  BY <1>1, <1>2, CurrentTyped DEF WiseTypeOK, Current

(* The main create a command waits for went wrong. *)
LEMMA DependentFails ==
  ASSUME WiseInv, NEW c \in Call, step[c] \in Looping, Dependent(c)
  PROVE  MainFailed(c, Current(c).row)
<1>1. /\ PlanShape(c) /\ PartTold(c) /\ PartShape(c)
      /\ plan[c] \in Seq(Command) /\ part[c] \in Seq(Part)
      /\ Len(plan[c]) \in Nat /\ Len(part[c]) \in Nat
      /\ Len(part[c]) + 1 \in 1..Len(plan[c]) /\ Current(c) = plan[c][Len(part[c]) + 1]
  BY LoopFacts
<1>2. PICK i \in 1..Len(plan[c]) : plan[c][i] = [act |-> "main", row |-> Current(c).row]
  BY DEF Dependent, NeedsMain
<1>3. plan[c][Len(part[c]) + 1].act # "main"
  BY <1>1 DEF Dependent, NeedsMain
<1>4. \A k \in 1..Len(plan[c]) :
          plan[c][k].act # "main" /\ plan[c][i] = [act |-> "main", row |-> plan[c][k].row] => i < k
  BY <1>1, <1>2 DEF PlanShape
<1>5. i < Len(part[c]) + 1
  BY <1>1, <1>2, <1>3, <1>4
<1>6. i \in 1..Len(part[c])
  BY <1>1, <1>5
<1>7. part[c][i] \in Part /\ part[c][i] \notin {"done", "unknown", "notAttempted"}
  <2>1. part[c][i] # "done"
    BY <1>2, <1>6 DEF Dependent, Succeeded
  <2>2. part[c][i] \notin {"unknown", "notAttempted"}
    BY <1>1, <1>6 DEF PartShape
  <2>3. QED
    BY <1>1, <1>6, <2>1, <2>2
<1>8. plan[c][i].act = "main"
  BY <1>2
<1>9. part[c][i] # "orphan"
  BY <1>1, <1>6, <1>8 DEF PartTold, Told
<1>10. part[c][i] # "dependency"
  <2>1. SUFFICES ASSUME part[c][i] = "dependency" PROVE FALSE
    OBVIOUS
  <2>2. PICK j \in 1..(i - 1) : plan[c][j] = [act |-> "main", row |-> plan[c][i].row]
    BY <1>1, <1>6, <2>1 DEF PartShape
  <2>3. plan[c][j] = plan[c][i] /\ j \in 1..Len(plan[c]) /\ j # i
    BY <1>1, <1>2, <2>2
  <2>4. QED
    BY <1>1, <2>3 DEF PlanShape
<1>11. part[c][i] \in {"blocked", "stale", "rejected", "noId"}
  BY <1>7, <1>9, <1>10 DEF Part
<1>12. QED
  BY <1>2, <1>6, <1>11 DEF MainFailed

(* A call that skips an untouched command. *)
LEMMA SkipKeeps ==
  ASSUME WiseInv, NEW c \in Call, step[c] \in {"command", "guard"},
         NEW what \in {"dependency", "blocked", "stale"}, Report(c, what),
         UNCHANGED <<txs, mail, plan, answer>>,
         what = "dependency" => Dependent(c),
         blocked' \in [Call -> SUBSET StatementRow]
  PROVE  WiseInv'
<1>1. step[c] \in Looping
  BY DEF Looping
<1>2. /\ CallInv(c) /\ AtHand(c, Current(c))
      /\ answer \in [Call -> {"none", "ok", "noId", "rejected"}]
  BY <1>1, LoopFacts
<1>3. Told(c, Current(c), what)
  BY <1>2 DEF AtHand, Told
<1>4. what = "dependency" => MainFailed(c, Current(c).row)
  BY <1>1, DependentFails
<1>5. \A r \in mail : r.call # c
  BY <1>2, NoMailYet
<1>6. what \in Part \ {"unknown", "notAttempted"}
  BY DEF Part
<1>7. QED
  BY <1>1, <1>2, <1>3, <1>4, <1>5, <1>6, ReportMove

LEMMA SkipCommandKeeps ==
  ASSUME WiseInv, NEW c \in Call, SkipCommand(c)
  PROVE  WiseInv'
<1>1. step[c] = "command" /\ UNCHANGED <<txs, mail, plan, answer, blocked>>
  BY DEF SkipCommand, Runs, Outside, ledger
<1>2. blocked \in [Call -> SUBSET StatementRow]
  BY DEF WiseInv, WiseTypeOK
<1>3. PICK what \in {"dependency", "blocked", "stale"} :
          Report(c, what) /\ (what = "dependency" => Dependent(c))
  BY DEF SkipCommand
<1>4. QED
  BY <1>1, <1>2, <1>3, SkipKeeps

(* A request for a row that is created in time only by this call. *)
LEMMA CreateMove ==
  ASSUME WiseInv, NEW c \in Call, step[c] \in {"command", "guard"}, SendCreate(c),
         Current(c).act # "inter", Free(c), UNCHANGED <<txs, plan, blocked>>
  PROVE  WiseInv'
<1> USE DEF WiseInv
<1>1. /\ step[c] \in Looping /\ WiseTypeOK /\ GateInv /\ CallInv(c)
      /\ Current(c) \in Command
  BY LoopFacts DEF Looping
<1>2. CallInv(c)'
  BY <1>1, SendCreateKeeps
<1>3. /\ mail' \subseteq Request /\ answer' \in [Call -> {"none", "ok", "noId", "rejected"}]
      /\ \A d \in Call : d # c => answer'[d] = answer[d]
      /\ step' \in [Call -> Step] /\ \A d \in Call : d # c => step'[d] = step[d]
      /\ part' = part /\ gate' = gate
      /\ Goto(c, "creating")
      /\ \E r : r.call = c /\ mail' = mail \cup {r}
  <2>1. Current(c).act \in Leg
    BY <1>1 DEF Command, Leg
  <2>2. Send(c, "create", Current(c).act, "creating") /\ "creating" \in Step
    BY DEF SendCreate, Step, Looping
  <2>3. \E r : r.call = c /\ mail' = mail \cup {r}
    <3> DEFINE r == [op |-> "create", call |-> c, leg |-> Current(c).act, row |-> Current(c).row]
    <3>1. r.call = c /\ mail' = mail \cup {r}
      BY <2>2 DEF Send
    <3>2. QED
      BY <3>1
  <2>4. QED
    BY <1>1, <2>1, <2>2, <2>3, SendEffect
<1>4. GateInv'
  BY <1>1, <1>3, GateMove DEF Step, Looping
<1>5. Free(c)'
  BY <1>3 DEF Free, Current, Ids
<1>6. mail \subseteq mail' /\ \A r \in mail' \ mail : r.call = c
  BY <1>3
<1>7. QED
  BY <1>1, <1>2, <1>3, <1>4, <1>5, <1>6, MoveKeeps DEF WiseTypeOK

LEMMA CheckIdentityKeeps ==
  ASSUME WiseInv, NEW c \in Call, CheckIdentity(c)
  PROVE  WiseInv'
<1>1. step[c] = "command" /\ Current(c).act # "inter" /\ UNCHANGED <<txs, plan>>
  BY DEF CheckIdentity, Attempts, Runs, Outside, ledger
<1>2. /\ CallInv(c) /\ Working(c) /\ AtHand(c, Current(c)) /\ Current(c) \in Command
      /\ answer \in [Call -> {"none", "ok", "noId", "rejected"}]
      /\ blocked \in [Call -> SUBSET StatementRow]
  BY <1>1, LoopFacts DEF Looping
<1>3. CASE Report(c, "stale") /\ UNCHANGED <<mail, answer>> /\ (Block(c) \/ UNCHANGED blocked)
  <2>1. blocked' \in [Call -> SUBSET StatementRow]
    BY <1>2, <1>3 DEF Block, Command
  <2>2. QED
    BY <1>1, <1>3, <2>1, SkipKeeps
<1>4. ASSUME ~HasTag(Current(c).act, Current(c).row) PROVE Free(c)
  BY <1>4 DEF HasTag, Free
<1>5. CASE ~HasTag(Current(c).act, Current(c).row) /\ SendCreate(c) /\ UNCHANGED blocked
  BY <1>1, <1>4, <1>5, CreateMove
<1>6. CASE ~HasTag(Current(c).act, Current(c).row) /\ Goto(c, "guard")
            /\ UNCHANGED <<part, gate, mail, answer, blocked>>
  <2>1. "guard" \in Looping /\ "guard" \in Step
    BY DEF Looping, Step
  <2>2. step'[c] = "guard"
    BY <1>6, <2>1, GotoEffect DEF WiseInv
  <2>3. AtHand(c, Current(c))'
    <3>1. PICK cmd : cmd = Current(c)
      OBVIOUS
    <3>2. Untouched(c, cmd) /\ cmd.act # "inter"
      BY <1>1, <1>2, <3>1 DEF AtHand
    <3>3. Untouched(c, cmd)'
      BY <1>1, <1>6, <3>2 DEF Untouched, Wrote, Confirmed, Ids
    <3>4. AtHand(c, cmd)'
      BY <2>2, <3>2, <3>3 DEF AtHand
    <3>5. cmd = Current(c)'
      BY <1>1, <1>6, <3>1 DEF Current
    <3>6. QED
      BY <3>4, <3>5
  <2>4. Free(c)'
    BY <1>1, <1>4, <1>6 DEF Free, Current, Ids
  <2>5. MailInv(c)'
    BY <1>1, <1>2, <1>6, NoMailYet DEF MailInv
  <2>6. QED
    BY <1>1, <1>2, <1>6, <2>1, <2>3, <2>4, <2>5, StepOn DEF Looping
<1>7. QED
  BY <1>3, <1>5, <1>6 DEF CheckIdentity

LEMMA GuardLegKeeps ==
  ASSUME WiseInv, NEW c \in Call, GuardLeg(c)
  PROVE  WiseInv'
<1>1. step[c] = "guard" /\ UNCHANGED <<txs, plan>>
  BY DEF GuardLeg, Runs, Outside, ledger
<1>2. AtHand(c, Current(c)) /\ Current(c) \in Command /\ blocked \in [Call -> SUBSET StatementRow]
  BY <1>1, LoopFacts DEF Looping
<1>3. CASE Report(c, "stale") /\ Block(c) /\ UNCHANGED <<mail, answer>>
  <2>1. blocked' \in [Call -> SUBSET StatementRow]
    BY <1>2, <1>3 DEF Block, Command
  <2>2. QED
    BY <1>1, <1>3, <2>1, SkipKeeps
<1>4. CASE SendCreate(c) /\ UNCHANGED blocked
  <2>1. Free(c)
    BY <1>1 DEF WiseInv, FreeInv
  <2>2. Current(c).act # "inter"
    BY <1>1, <1>2 DEF AtHand
  <2>3. QED
    BY <1>1, <1>4, <2>1, <2>2, CreateMove
<1>5. QED
  BY <1>3, <1>4 DEF GuardLeg

-----------------------------------------------------------------------------
(* A row that stays behind unconfirmed. *)
LEMMA ConfirmsAtHand ==
  ASSUME WiseInv, NEW c \in Call, Confirms(c)
  PROVE  /\ step[c] \in {"command", "check"} /\ step[c] \in Looping
         /\ Current(c).act # "main" /\ (Current(c).act = "fee" => step[c] = "check")
         /\ ~Confirmed(c, Current(c)) /\ (Current(c).act = "fee" => Stored(c, Current(c)))
         /\ \A r \in mail : r.call # c
<1>1. step[c] \in {"command", "check"} /\ step[c] \in Looping
  BY DEF Confirms, Attempts, Runs, Looping
<1>2. AtHand(c, Current(c)) /\ CallInv(c)
  BY <1>1, LoopFacts
<1>3. \A r \in mail : r.call # c
  BY <1>1, <1>2, NoMailYet
<1>4. CASE step[c] = "check"
  BY <1>1, <1>2, <1>3, <1>4 DEF AtHand
<1>5. CASE step[c] = "command" /\ Current(c).act = "inter"
  BY <1>1, <1>2, <1>3, <1>5 DEF AtHand, Untouched
<1>6. QED
  BY <1>4, <1>5 DEF Confirms, Attempts, Runs

LEMMA OrphanKeeps ==
  ASSUME WiseInv, NEW c \in Call, Confirms(c), Report(c, "orphan"),
         UNCHANGED <<txs, mail, plan, answer>>, blocked' \in [Call -> SUBSET StatementRow]
  PROVE  WiseInv'
<1>1. /\ step[c] \in Looping /\ \A r \in mail : r.call # c
      /\ Told(c, Current(c), "orphan")
  BY ConfirmsAtHand DEF Told
<1>2. answer \in [Call -> {"none", "ok", "noId", "rejected"}]
  BY <1>1, LoopFacts
<1>3. "orphan" \in Part \ {"unknown", "notAttempted"}
  BY DEF Part
<1>4. QED
  BY <1>1, <1>2, <1>3, ReportMove

LEMMA BlockTyped ==
  ASSUME WiseInv, NEW c \in Call, step[c] \in Looping, Block(c) \/ UNCHANGED blocked
  PROVE  blocked' \in [Call -> SUBSET StatementRow]
<1>1. Current(c) \in Command /\ blocked \in [Call -> SUBSET StatementRow]
  BY LoopFacts
<1>2. QED
  BY <1>1 DEF Block, Command

LEMMA ReadFailsKeeps ==
  ASSUME WiseInv, NEW c \in Call, ReadFails(c)
  PROVE  WiseInv'
<1>1. UNCHANGED <<txs, mail, plan, answer>>
  BY DEF ReadFails, Outside, ledger
<1>2. CASE Attempts(c) /\ Report(c, "stale") /\ UNCHANGED blocked
  <2>1. step[c] = "command" /\ step[c] \in Looping
    BY <1>2 DEF Attempts, Runs, Looping
  <2>2. QED
    BY <1>1, <1>2, <2>1, BlockTyped, SkipKeeps
<1>3. CASE Runs(c, "guard") /\ Report(c, "stale") /\ Block(c)
  <2>1. step[c] = "guard" /\ step[c] \in Looping
    BY <1>3 DEF Runs, Looping
  <2>2. QED
    BY <1>1, <1>3, <2>1, BlockTyped, SkipKeeps
<1>4. CASE Confirms(c) /\ Report(c, "orphan") /\ UNCHANGED blocked
  BY <1>1, <1>4, ConfirmsAtHand, BlockTyped, OrphanKeeps
<1>5. CASE Runs(c, "check") /\ Report(c, "orphan") /\ Block(c)
  <2>1. Confirms(c)
    BY <1>5 DEF Confirms
  <2>2. QED
    BY <1>1, <1>5, <2>1, ConfirmsAtHand, BlockTyped, OrphanKeeps
<1>6. QED
  BY <1>2, <1>3, <1>4, <1>5 DEF ReadFails

LEMMA CreateAnsweredKeeps ==
  ASSUME WiseInv, NEW c \in Call, CreateAnswered(c)
  PROVE  WiseInv'
<1>1. /\ step[c] = "creating" /\ step[c] \in Looping /\ answer[c] # "none"
      /\ UNCHANGED <<txs, mail, plan, blocked>> /\ answer' = [answer EXCEPT ![c] = "none"]
  BY DEF CreateAnswered, Runs, Outside, ledger, Looping
<1>2. /\ AtHand(c, Current(c)) /\ Current(c) \in Command /\ MailInv(c) /\ Working(c)
      /\ answer \in [Call -> {"none", "ok", "noId", "rejected"}]
      /\ blocked \in [Call -> SUBSET StatementRow]
  BY <1>1, LoopFacts
<1>3. \A r \in mail : r.call # c
  BY <1>1, <1>2 DEF MailInv
<1>4. /\ answer' \in [Call -> {"none", "ok", "noId", "rejected"}]
      /\ \A d \in Call : d # c => answer'[d] = answer[d]
  BY <1>1, <1>2
<1>5. CASE answer[c] = "ok" /\ Current(c).act = "fee" /\ Goto(c, "check") /\ UNCHANGED <<part, gate>>
  <2>1. "check" \in Looping /\ "check" \in Step
    BY DEF Looping, Step
  <2>2. step'[c] = "check"
    BY <1>5, <2>1, GotoEffect DEF WiseInv
  <2>3. AtHand(c, Current(c))'
    <3>1. PICK cmd : cmd = Current(c)
      OBVIOUS
    <3>2. Stored(c, cmd) /\ ~Confirmed(c, cmd) /\ cmd.act = "fee"
      BY <1>1, <1>2, <1>5, <3>1 DEF AtHand
    <3>3. Stored(c, cmd)' /\ ~Confirmed(c, cmd)'
      BY <1>1, <3>2 DEF Stored, Confirmed, Ids
    <3>4. AtHand(c, cmd)'
      BY <2>2, <3>2, <3>3 DEF AtHand
    <3>5. cmd = Current(c)'
      BY <1>1, <1>5, <3>1 DEF Current
    <3>6. QED
      BY <3>4, <3>5
  <2>4. ~Creates(c)'
    BY <2>2 DEF Creates
  <2>5. MailInv(c)'
    BY <1>1, <1>3 DEF MailInv
  <2>6. QED
    BY <1>1, <1>2, <1>4, <1>5, <2>1, <2>3, <2>4, <2>5, StepOn
<1>6. ASSUME NEW what \in {"done", "noId", "rejected"}, Report(c, what),
             answer[c] = IF what = "done" THEN "ok" ELSE what,
             what = "done" => Current(c).act # "fee"
      PROVE  WiseInv'
  <2>1. what = "done" => Told(c, Current(c), what)
    BY <1>1, <1>2, <1>6 DEF AtHand, Told, Command
  <2>2. what = "rejected" => Told(c, Current(c), what)
    <3>1. SUFFICES ASSUME what = "rejected" PROVE Untouched(c, Current(c))
      BY DEF Told
    <3>2. ~Stored(c, Current(c)) /\ Current(c).act # "inter" /\ (Current(c).act = "fee" => ~Confirmed(c, Current(c)))
      BY <1>1, <1>2, <1>6, <3>1 DEF AtHand
    <3>3. ~Wrote(c, Current(c))
      BY <1>3, <3>2 DEF Wrote, Stored
    <3>4. QED
      BY <1>2, <3>2, <3>3 DEF Untouched, Command
  <2>3. what = "noId" => Told(c, Current(c), what)
    BY DEF Told
  <2>4. what \in Part \ {"unknown", "notAttempted"}
    BY DEF Part
  <2>5. QED
    BY <1>1, <1>2, <1>3, <1>4, <1>6, <2>1, <2>2, <2>3, <2>4, ReportMove
<1>7. CASE answer[c] = "ok" /\ Current(c).act # "fee" /\ Report(c, "done")
  BY <1>6, <1>7
<1>8. CASE answer[c] \in {"noId", "rejected"} /\ Report(c, answer[c])
  BY <1>6, <1>8
<1>9. QED
  BY <1>5, <1>7, <1>8 DEF CreateAnswered

(* An outcome that stays unknown ends the run. *)
LEMMA StopMove ==
  ASSUME WiseInv, NEW c \in Call, step[c] \in Looping, StopUnknown(c),
         UNCHANGED <<txs, mail, plan, blocked>>,
         answer' \in [Call -> {"none", "ok", "noId", "rejected"}],
         \A d \in Call : d # c => answer'[d] = answer[d]
  PROVE  WiseInv'
<1> USE DEF WiseInv
<1>1. WiseTypeOK /\ GateInv /\ CallInv(c) /\ PlanShape(c)
  BY LoopFacts
<1>2. /\ part' \in [Call -> Seq(Part)] /\ step' \in [Call -> Step]
      /\ \A d \in Call : d # c => part'[d] = part[d] /\ step'[d] = step[d]
      /\ step'[c] = "over" /\ Goto(c, "over") /\ Leave(c)
  BY <1>1, StopEffect
<1>3. CallInv(c)'
  BY <1>1, StopKeeps
<1>4. GateInv' /\ gate' \in [Process -> Seq(Call)]
  BY <1>1, <1>2, GateLeave
<1>5. ~Creates(c)'
  BY <1>2 DEF Creates
<1>6. QED
  BY <1>1, <1>2, <1>3, <1>4, <1>5, MoveKeeps DEF WiseTypeOK

LEMMA CreateUnknownKeeps ==
  ASSUME WiseInv, NEW c \in Call, CreateUnknown(c)
  PROVE  WiseInv'
<1>1. /\ step[c] \in Looping /\ StopUnknown(c)
      /\ UNCHANGED <<txs, mail, plan, blocked>> /\ answer' = [answer EXCEPT ![c] = "none"]
  BY DEF CreateUnknown, Runs, Outside, ledger, Looping
<1>2. /\ answer' \in [Call -> {"none", "ok", "noId", "rejected"}]
      /\ \A d \in Call : d # c => answer'[d] = answer[d]
  BY <1>1, LoopFacts
<1>3. QED
  BY <1>1, <1>2, StopMove

LEMMA UpdateFailsKeeps ==
  ASSUME WiseInv, NEW c \in Call, UpdateFails(c)
  PROVE  WiseInv'
<1>1. Confirms(c) /\ step[c] \in Looping /\ UNCHANGED <<txs, mail, plan, answer, blocked>>
  BY ConfirmsAtHand DEF UpdateFails, Outside, ledger
<1>2. /\ answer \in [Call -> {"none", "ok", "noId", "rejected"}]
      /\ blocked \in [Call -> SUBSET StatementRow]
  BY <1>1, LoopFacts
<1>3. CASE Report(c, "orphan")
  BY <1>1, <1>2, <1>3, OrphanKeeps
<1>4. CASE StopUnknown(c)
  BY <1>1, <1>2, <1>4, StopMove
<1>5. QED
  BY <1>3, <1>4 DEF UpdateFails

LEMMA CheckBeforeConfirmKeeps ==
  ASSUME WiseInv, NEW c \in Call, CheckBeforeConfirm(c)
  PROVE  WiseInv'
<1> USE DEF WiseInv
<1>1. Confirms(c) /\ UNCHANGED <<txs, plan>>
  BY DEF CheckBeforeConfirm, Outside, ledger
<1>2. /\ step[c] \in {"command", "check"} /\ step[c] \in Looping
      /\ Current(c).act # "main" /\ (Current(c).act = "fee" => step[c] = "check")
  BY <1>1, ConfirmsAtHand
<1>3. WiseTypeOK /\ GateInv /\ CallInv(c) /\ Current(c) \in Command
  BY <1>2, LoopFacts
<1>4. CASE Report(c, "orphan") /\ UNCHANGED <<mail, answer>> /\ (Block(c) \/ UNCHANGED blocked)
  BY <1>1, <1>2, <1>4, BlockTyped, OrphanKeeps
<1>5. CASE Send(c, "confirm", LegOf(Current(c)), "confirming") /\ UNCHANGED blocked
  <2>1. CallInv(c)'
    BY <1>1, <1>2, <1>3, <1>5, SendConfirmKeeps
  <2>2. LegOf(Current(c)) \in Leg /\ "confirming" \in Step /\ "confirming" \in Looping
    BY DEF LegOf, Leg, Step, Looping
  <2>3. /\ mail' \subseteq Request /\ answer' \in [Call -> {"none", "ok", "noId", "rejected"}]
        /\ answer'[c] = "none" /\ \A d \in Call : d # c => answer'[d] = answer[d]
        /\ step' \in [Call -> Step] /\ step'[c] = "confirming"
        /\ \A d \in Call : d # c => step'[d] = step[d]
        /\ part' = part /\ gate' = gate
        /\ Goto(c, "confirming")
    BY <1>3, <1>5, <2>2, SendEffect
  <2>4. mail \subseteq mail' /\ \A r \in mail' \ mail : r.call = c
    BY <1>5 DEF Send
  <2>5. GateInv'
    BY <1>2, <1>3, <2>2, <2>3, GateMove
  <2>6. ~Creates(c)'
    BY <2>3 DEF Creates
  <2>7. QED
    BY <1>1, <1>3, <1>5, <2>1, <2>3, <2>4, <2>5, <2>6, MoveKeeps DEF WiseTypeOK
<1>6. QED
  BY <1>4, <1>5 DEF CheckBeforeConfirm

(* Only its creator, a hand or a late request registers a row. *)
LEMMA RegisteredIsSettled ==
  ASSUME WiseTypeOK, NEW c \in Call, NEW cmd, Registered(c, cmd)
  PROVE  Settled(c, cmd)
<1>1. PICK i \in 1..Len(txs) : txs[i].confirmedBy = {c} /\ txs[i].row = cmd.row /\ txs[i].leg = LegOf(cmd)
  BY DEF Registered, Ids
<1>2. txs[i] \in Row
  BY <1>1 DEF WiseTypeOK
<1>3. txs[i].confirmedBy \in {{}, {"User"}, {"Late"}, {txs[i].by}}
  BY <1>2 DEF Row
<1>4. c # "User" /\ c # "Late"
  BY WiseAssumption
<1>5. txs[i].by = c
  BY <1>1, <1>3, <1>4
<1>6. QED
  BY <1>1, <1>5 DEF Settled, Ids

LEMMA ConfirmAnsweredKeeps ==
  ASSUME WiseInv, NEW c \in Call, ConfirmAnswered(c)
  PROVE  WiseInv'
<1>1. /\ step[c] = "confirming" /\ step[c] \in Looping /\ answer[c] # "none"
      /\ UNCHANGED <<txs, mail, plan, blocked>> /\ answer' = [answer EXCEPT ![c] = "none"]
  BY DEF ConfirmAnswered, Runs, Outside, ledger, Looping
<1>2. /\ AtHand(c, Current(c)) /\ Current(c) \in Command /\ MailInv(c)
      /\ answer \in [Call -> {"none", "ok", "noId", "rejected"}]
      /\ blocked \in [Call -> SUBSET StatementRow]
  BY <1>1, LoopFacts
<1>3. \A r \in mail : r.call # c
  BY <1>1, <1>2 DEF MailInv
<1>4. /\ answer' \in [Call -> {"none", "ok", "noId", "rejected"}]
      /\ \A d \in Call : d # c => answer'[d] = answer[d]
  BY <1>1, <1>2
<1>5. PICK what \in {"done", "orphan"} :
          Report(c, what) /\ answer[c] = IF what = "done" THEN "ok" ELSE "rejected"
  BY DEF ConfirmAnswered
<1>6. Told(c, Current(c), what)
  <2>1. CASE what = "done"
    <3>1. Registered(c, Current(c)) /\ (Current(c).act = "fee" => Stored(c, Current(c)))
      BY <1>1, <1>2, <1>5, <2>1 DEF AtHand
    <3>2. Settled(c, Current(c)) /\ Current(c).act # "main"
      BY <1>1, <1>2, <3>1, RegisteredIsSettled DEF AtHand, WiseInv
    <3>3. QED
      BY <1>2, <2>1, <3>1, <3>2 DEF Told, Command
  <2>2. CASE what = "orphan"
    <3>1. /\ ~Registered(c, Current(c)) /\ Current(c).act # "main"
          /\ (Current(c).act = "fee" => Stored(c, Current(c)))
      BY <1>1, <1>2, <1>5, <2>2 DEF AtHand
    <3>2. ~Confirmed(c, Current(c))
      BY <1>3, <3>1 DEF Confirmed, Registered, LegOf
    <3>3. QED
      BY <2>2, <3>1, <3>2 DEF Told
  <2>3. QED
    BY <2>1, <2>2
<1>7. what \in Part \ {"unknown", "notAttempted"} /\ what # "dependency"
  BY DEF Part
<1>8. QED
  BY <1>1, <1>2, <1>3, <1>4, <1>5, <1>6, <1>7, ReportMove

(* A registration without an answer: the row is read again. *)
LEMMA ConfirmUnknownKeeps ==
  ASSUME WiseInv, NEW c \in Call, ConfirmUnknown(c)
  PROVE  WiseInv'
<1>1. /\ step[c] = "confirming" /\ step[c] \in Looping /\ Goto(c, "recover")
      /\ UNCHANGED <<txs, mail, gate, plan, part, blocked>> /\ answer' = [answer EXCEPT ![c] = "none"]
  BY DEF ConfirmUnknown, Runs, Outside, ledger, Looping
<1>2. /\ AtHand(c, Current(c)) /\ Current(c) \in Command /\ MailInv(c) /\ Working(c) /\ WiseTypeOK
      /\ answer \in [Call -> {"none", "ok", "noId", "rejected"}]
  BY <1>1, LoopFacts
<1>3. /\ answer' \in [Call -> {"none", "ok", "noId", "rejected"}]
      /\ \A d \in Call : d # c => answer'[d] = answer[d]
  BY <1>1, <1>2
<1>4. "recover" \in Looping /\ "recover" \in Step
  BY DEF Looping, Step
<1>5. step'[c] = "recover"
  BY <1>1, <1>2, <1>4, GotoEffect
<1>6. PICK cmd \in Command : cmd = Current(c) /\ cmd = Current(c)'
  BY <1>1, <1>2 DEF Current
<1>7. MailInv(c)'
  <2>1. ASSUME NEW r \in mail, r.call = c
        PROVE  r.op = "confirm" /\ r.leg = LegOf(cmd) /\ r.row = cmd.row
    BY <1>1, <1>2, <1>6, <2>1 DEF MailInv
  <2>2. mail' = mail
    BY <1>1
  <2>3. LegOf(Current(c))' = LegOf(cmd) /\ (Current(c).row)' = cmd.row
    BY <1>6 DEF LegOf
  <2>4. QED
    BY <1>5, <2>1, <2>2, <2>3 DEF MailInv
<1>8. AtHand(c, Current(c))'
  <2>1. cmd.act # "main" /\ (cmd.act = "fee" => Stored(c, cmd))
    BY <1>1, <1>2, <1>6 DEF AtHand
  <2>2. Stored(c, cmd)' <=> Stored(c, cmd)
    BY <1>1 DEF Stored, Ids
  <2>3. AtHand(c, cmd)'
    BY <1>5, <2>1, <2>2 DEF AtHand
  <2>4. QED
    BY <1>6, <2>3
<1>9. ~Creates(c)'
  BY <1>5 DEF Creates
<1>10. QED
  BY <1>1, <1>2, <1>3, <1>4, <1>7, <1>8, <1>9, StepOn

(* What the read shows is what the report says. *)
LEMMA RecoverKeeps ==
  ASSUME WiseInv, NEW c \in Call, Recover(c)
  PROVE  WiseInv'
<1>1. /\ step[c] = "recover" /\ step[c] \in Looping
      /\ UNCHANGED <<txs, plan, blocked, answer>>
  BY DEF Recover, Runs, ledger, Looping
<1>2. /\ AtHand(c, Current(c)) /\ Current(c) \in Command /\ WiseTypeOK
      /\ answer \in [Call -> {"none", "ok", "noId", "rejected"}]
      /\ blocked \in [Call -> SUBSET StatementRow]
  BY <1>1, LoopFacts
<1>3. CASE /\ Report(c, IF Settled(c, Current(c)) THEN "done" ELSE "orphan")
           /\ mail' = {r \in mail : r.call # c}
  <2>1. PICK cur \in Command : cur = Current(c)
    BY <1>2
  <2>2. PICK what \in {"done", "orphan"} :
            Report(c, what) /\ (what = "done" <=> Settled(c, cur))
    BY <1>3, <2>1
  <2>3. cur.act # "main" /\ (cur.act = "fee" => Stored(c, cur))
    BY <1>1, <1>2, <2>1 DEF AtHand
  <2>4. Stored(c, cur)' <=> Stored(c, cur)
    BY <1>1 DEF Stored, Ids
  <2>5. Settled(c, cur)' <=> Settled(c, cur)
    BY <1>1 DEF Settled, Ids, LegOf
  <2>6. what = "orphan" => ~Confirmed(c, cur)'
    <3>1. SUFFICES ASSUME what = "orphan", Confirmed(c, cur)' PROVE FALSE
      OBVIOUS
    <3>2. \E i \in Ids : txs[i].confirmedBy = {c} /\ txs[i].row = cur.row /\ txs[i].leg = LegOf(cur)
      BY <1>1, <1>3, <3>1 DEF Confirmed, Ids, LegOf
    <3>3. QED
      BY <1>2, <2>2, <3>1, <3>2, RegisteredIsSettled DEF Registered
  <2>7. Told(c, cur, what)'
    BY <2>2, <2>3, <2>4, <2>5, <2>6 DEF Told, Command
  <2>8. what \in Part \ {"unknown", "notAttempted"} /\ what # "dependency"
    BY DEF Part
  <2>9. /\ mail' \subseteq mail /\ (\A r \in mail' : r.call # c)
        /\ \A r \in mail \ mail' : r.call = c
    BY <1>3
  <2>10. QED
    BY <1>1, <1>2, <2>1, <2>2, <2>7, <2>8, <2>9, ReportMoves
<1>4. CASE StopUnknown(c) /\ UNCHANGED mail
  BY <1>1, <1>2, <1>4, StopMove
<1>5. QED
  BY <1>3, <1>4 DEF Recover

-----------------------------------------------------------------------------
(* The service, the accountant and the processes. *)
LEMMA ServiceKeeps ==
  ASSUME WiseInv, NEW c \in Call, ServiceStep(c)
  PROVE  WiseInv'
<1> USE DEF WiseInv
<1>1. PICK r \in mail :
          /\ mail' = mail \ {r} /\ Served(r)
          /\ UNCHANGED <<journals, down, gate, step, review, plan, part, blocked, foreign>>
  BY DEF ServiceStep, Served
<1>2. /\ txs' \in Seq(Row) /\ answer' \in [Call -> {"none", "ok", "noId", "rejected"}]
      /\ \A d \in Call : d # r.call => answer'[d] = answer[d]
  BY <1>1, ServedRows, ServedAnswer
<1>3. WiseTypeOK'
  BY <1>1, <1>2 DEF WiseTypeOK
<1>4. GateInv'
  BY <1>1 DEF GateInv
<1>5. ASSUME NEW d \in Call PROVE CallInv(d)'
  <2>1. CASE d = r.call
    BY <1>1, <2>1, ServedKeeps
  <2>2. CASE d # r.call
    <3>1. Alike(d)
      BY <1>1, <2>2, ServedOthers
    <3>2. QED
      BY <1>1, <1>2, <2>2, <3>1, CallFrame
  <2>3. QED
    BY <2>1, <2>2
<1>6. LegOncePerProcess' /\ FreeInv'
  BY <1>1, ServedLegs
<1>7. QED
  BY <1>3, <1>4, <1>5, <1>6

LEMMA RowReplaced ==
  ASSUME NEW rows \in Seq(Row), NEW i \in 1..Len(rows), NEW new \in Row
  PROVE  LET after == [rows EXCEPT ![i] = new] IN
         /\ after \in Seq(Row) /\ Len(after) = Len(rows) /\ after[i] = new
         /\ \A j \in 1..Len(rows) : j # i => after[j] = rows[j]
  OBVIOUS

(* A row that no caller waits for is confirmed, by hand or by a late request. *)
LEMMA HandConfirmed ==
  ASSUME WiseTypeOK, NEW i \in Ids, txs[i].confirmedBy = {}, NEW who \in {"User", "Late"},
         txs' = [txs EXCEPT ![i].confirmedBy = {who}]
  PROVE  /\ txs' \in Seq(Row) /\ Len(txs') = Len(txs)
         /\ \A j \in Ids : /\ txs'[j].by = txs[j].by /\ txs'[j].leg = txs[j].leg
                           /\ txs'[j].row = txs[j].row /\ txs'[j].late = txs[j].late
                           /\ \/ txs'[j].confirmedBy = txs[j].confirmedBy
                              \/ txs[j].confirmedBy = {} /\ txs'[j].confirmedBy = {who}
<1>1. txs \in Seq(Row) /\ i \in 1..Len(txs) /\ txs[i] \in Row
  BY DEF WiseTypeOK, Ids
<1> DEFINE new == [txs[i] EXCEPT !.confirmedBy = {who}]
<1>2. /\ new \in Row /\ new.by = txs[i].by /\ new.leg = txs[i].leg /\ new.row = txs[i].row
      /\ new.late = txs[i].late /\ new.confirmedBy = {who}
  BY <1>1 DEF Row
<1>3. txs' = [txs EXCEPT ![i] = new]
  OBVIOUS
<1>4. new \in Row
  BY <1>2
<1> HIDE DEF new
<1>5. /\ txs' \in Seq(Row) /\ Len(txs') = Len(txs) /\ txs'[i] = new
      /\ \A j \in 1..Len(txs) : j # i => txs'[j] = txs[j]
  <2> DEFINE after == [txs EXCEPT ![i] = new]
  <2>1. /\ after \in Seq(Row) /\ Len(after) = Len(txs) /\ after[i] = new
        /\ \A j \in 1..Len(txs) : j # i => after[j] = txs[j]
    BY <1>1, <1>4, RowReplaced
  <2>2. txs' = after
    BY <1>3
  <2> HIDE DEF after
  <2>3. QED
    BY <2>1, <2>2
<1>6. QED
  BY <1>1, <1>2, <1>5 DEF Ids

LEMMA HandKeeps ==
  ASSUME WiseInv, NEW i \in Ids, txs[i].confirmedBy = {}, NEW who \in {"User", "Late"},
         txs' = [txs EXCEPT ![i].confirmedBy = {who}],
         UNCHANGED <<mail, gate, step, plan, part, blocked, answer>>
  PROVE  WiseInv'
<1> USE DEF WiseInv
<1>1. /\ txs' \in Seq(Row) /\ Ids' = Ids
      /\ \A j \in Ids : /\ txs'[j].by = txs[j].by /\ txs'[j].leg = txs[j].leg
                        /\ txs'[j].row = txs[j].row /\ txs'[j].late = txs[j].late
                        /\ \/ txs'[j].confirmedBy = txs[j].confirmedBy
                           \/ txs[j].confirmedBy = {} /\ txs'[j].confirmedBy = {who}
  BY HandConfirmed DEF Ids
<1>2. ASSUME NEW c \in Call PROVE CallInv(c)'
  <2>1. \A j \in Ids : /\ txs'[j].confirmedBy = {c} <=> txs[j].confirmedBy = {c}
                       /\ txs[j].confirmedBy # {} => txs'[j].confirmedBy # {}
    <3>1. c # "User" /\ c # "Late"
      BY WiseAssumption
    <3>2. {who} # {c} /\ {} # {c}
      BY <3>1
    <3>3. QED
      BY <1>1, <3>2
  <2>2. ASSUME NEW cmd \in Command
        PROVE  /\ Stored(c, cmd)' <=> Stored(c, cmd)
               /\ Registered(c, cmd)' <=> Registered(c, cmd)
               /\ Settled(c, cmd) => Settled(c, cmd)'
               /\ Wrote(c, cmd)' <=> Wrote(c, cmd)
               /\ Confirmed(c, cmd)' <=> Confirmed(c, cmd)
    <3>1. Stored(c, cmd)' <=> Stored(c, cmd)
      BY <1>1 DEF Stored
    <3>2. Registered(c, cmd)' <=> Registered(c, cmd)
      BY <1>1, <2>1 DEF Registered, LegOf
    <3>3. Settled(c, cmd) => Settled(c, cmd)'
      BY <1>1, <2>1 DEF Settled, LegOf
    <3>4. Wrote(c, cmd)' <=> Wrote(c, cmd)
      BY <1>1 DEF Wrote
    <3>5. Confirmed(c, cmd)' <=> Confirmed(c, cmd)
      BY <3>2 DEF Confirmed, Registered, LegOf
    <3>6. QED
      BY <3>1, <3>2, <3>3, <3>4, <3>5
  <2>3. Alike(c)
    BY <1>1, <2>1, <2>2 DEF Alike
  <2>4. QED
    BY <2>3, CallFrame
<1>3. LegOncePerProcess'
  BY <1>1 DEF LegOncePerProcess
<1>4. FreeInv'
  <2>1. ASSUME NEW c \in Call, step'[c] = "guard" \/ (step'[c] = "creating" /\ answer'[c] = "none")
        PROVE  Free(c)'
    <3>1. Free(c) /\ Current(c)' = Current(c)
      BY <2>1 DEF FreeInv, Current
    <3>2. QED
      BY <1>1, <3>1 DEF Free
  <2>2. QED
    BY <2>1 DEF FreeInv
<1>5. WiseTypeOK'
  BY <1>1 DEF WiseTypeOK
<1>6. GateInv'
  BY DEF GateInv
<1>7. QED
  BY <1>2, <1>3, <1>4, <1>5, <1>6

LEMMA ForeignKeeps ==
  ASSUME WiseInv, ForeignStep
  PROVE  WiseInv'
<1> USE DEF WiseInv
<1>1. UNCHANGED <<mail, gate, step, plan, part, blocked, answer>>
  BY DEF ForeignStep
<1>2. CASE UNCHANGED txs
  <2>1. ASSUME NEW c \in Call PROVE CallInv(c)'
    BY <1>1, <1>2, SameBooks, CallFrame
  <2>2. LegOncePerProcess' /\ FreeInv'
    BY <1>1, <1>2, LegsFrame DEF Creates
  <2>3. QED
    BY <1>1, <1>2, <2>1, <2>2 DEF WiseTypeOK, GateInv
<1>3. CASE \E i \in Ids : txs[i].confirmedBy = {} /\ txs' = [txs EXCEPT ![i].confirmedBy = {"User"}]
  BY <1>1, <1>3, HandKeeps
<1>4. QED
  BY <1>2, <1>3 DEF ForeignStep

LEMMA LateConfirmKeeps ==
  ASSUME WiseInv, NEW r, LateConfirm(r)
  PROVE  WiseInv'
<1>1. UNCHANGED <<mail, gate, step, plan, part, blocked, answer>>
  BY DEF LateConfirm
<1>2. PICK i \in Ids : txs[i].confirmedBy = {} /\ txs' = [txs EXCEPT ![i].confirmedBy = {"Late"}]
  BY DEF LateConfirm
<1>3. QED
  BY <1>1, <1>2, HandKeeps

LEMMA DieKeeps ==
  ASSUME WiseInv, NEW p \in Process, Die(p)
  PROVE  WiseInv'
<1> USE DEF WiseInv
<1>1. UNCHANGED <<txs, mail, plan, part, blocked, answer>>
  BY DEF Die, ledger
<1>2. /\ gate' \in [Process -> Seq(Call)] /\ gate'[p] = << >>
      /\ \A q \in Process : q # p => gate'[q] = gate[q]
  <2>1. << >> \in Seq(Call) /\ gate' = [gate EXCEPT ![p] = << >>]
    BY DEF Die
  <2>2. QED
    BY <2>1 DEF WiseTypeOK
<1>3. ASSUME NEW c \in Call
      PROVE  step'[c] = IF ProcOf[c] = p /\ step[c] \notin Ended THEN "dead" ELSE step[c]
  BY DEF Die
<1>4. step' \in [Call -> Step]
  <2>1. "dead" \in Step
    BY DEF Step, Ended
  <2>2. QED
    BY <1>3, <2>1 DEF WiseTypeOK, Die
<1>5. WiseTypeOK'
  BY <1>1, <1>2, <1>4 DEF WiseTypeOK
<1>6. GateInv'
  <2>1. ASSUME NEW q \in Process, NEW i \in DOMAIN gate'[q]
        PROVE  /\ ProcOf[gate'[q][i]] = q
               /\ step'[gate'[q][i]] \in Looping \cup {"queued"}
               /\ \A j \in DOMAIN gate'[q] : gate'[q][i] = gate'[q][j] => i = j
    <3>1. q # p /\ gate'[q] = gate[q]
      BY <1>2, <2>1
    <3>2. gate[q][i] \in Call /\ ProcOf[gate[q][i]] = q
      BY <2>1, <3>1 DEF WiseTypeOK, GateInv
    <3>3. step'[gate[q][i]] = step[gate[q][i]]
      BY <1>3, <3>1, <3>2
    <3>4. QED
      BY <2>1, <3>1, <3>2, <3>3 DEF GateInv
  <2>2. ASSUME NEW d \in Call, step'[d] \in Looping \cup {"queued"}
        PROVE  \E i \in DOMAIN gate'[ProcOf[d]] :
                  gate'[ProcOf[d]][i] = d /\ (step'[d] \in Looping => i = 1)
    <3>1. step'[d] = step[d] /\ ProcOf[d] # p /\ ProcOf[d] \in Process
      BY <1>3, <2>2, WiseAssumption DEF Looping, Ended
    <3>2. QED
      BY <1>2, <2>2, <3>1 DEF GateInv
  <2>3. QED
    BY <2>1, <2>2 DEF GateInv
<1>7. ASSUME NEW c \in Call PROVE CallInv(c)'
  <2>1. CASE step'[c] = step[c]
    BY <1>1, <2>1, SameBooks, CallFrame
  <2>2. CASE step'[c] # step[c]
    <3>1. step'[c] = "dead"
      BY <1>3, <2>2
    <3>2. PlanShape(c)'
      <4>1. \A i, j \in 1..Len(plan[c]) :
              /\ plan[c][i] = plan[c][j] => i = j
              /\ plan[c][i].act # "main" /\ plan[c][j] = [act |-> "main", row |-> plan[c][i].row] => j < i
        BY DEF CallInv, PlanShape
      <4>2. QED
        BY <1>1, <3>1, <4>1 DEF PlanShape, Looping
    <3>3. MailInv(c)'
      BY <3>1 DEF MailInv
    <3>4. QED
      BY <3>1, <3>2, <3>3 DEF CallInv, Working, Looping
  <2>3. QED
    BY <2>1, <2>2
<1>8. LegOncePerProcess' /\ FreeInv'
  <2>1. ASSUME NEW c \in Call, Creates(c)' PROVE Creates(c)
    BY <1>1, <1>3, <2>1 DEF Creates
  <2>2. QED
    BY <1>1, <2>1, LegsFrame
<1>9. QED
  BY <1>5, <1>6, <1>7, <1>8

LEMMA WiseStep ==
  WiseInv /\ [Next]_vars => WiseInv'
<1> SUFFICES ASSUME WiseInv, [Next]_vars PROVE WiseInv'
  OBVIOUS
<1>1. ASSUME NEW c \in Call,
             \/ Preview(c) \/ Consume(c) \/ CallStep(c) \/ ReadFails(c)
             \/ UpdateFails(c) \/ ServiceStep(c)
      PROVE  WiseInv'
  BY <1>1, PreviewKeeps, ConsumeKeeps, CompareKeeps, EnterKeeps, SkipCommandKeeps, CheckIdentityKeeps,
     GuardLegKeeps, CreateAnsweredKeeps, CreateUnknownKeeps, CheckBeforeConfirmKeeps,
     ConfirmAnsweredKeeps, ConfirmUnknownKeeps, RecoverKeeps, ReadFailsKeeps, UpdateFailsKeeps,
     ServiceKeeps DEF CallStep
<1>2. CASE ForeignStep
  BY <1>2, ForeignKeeps
<1>3. ASSUME NEW p \in Process, Die(p) PROVE WiseInv'
  BY <1>3, DieKeeps
<1>4. ASSUME NEW r \in strayed, LateConfirm(r) PROVE WiseInv'
  BY <1>4, LateConfirmKeeps
<1>5. CASE UNCHANGED vars
  <2>1. UNCHANGED <<txs, mail, gate, step, plan, part, blocked, answer>>
    BY <1>5 DEF vars, ledger
  <2>2. ASSUME NEW c \in Call PROVE CallInv(c)'
    BY <2>1, SameBooks, CallFrame DEF WiseInv
  <2>3. LegOncePerProcess' /\ FreeInv'
    BY <2>1, LegsFrame DEF Creates
  <2>4. WiseTypeOK' /\ GateInv'
    BY <2>1 DEF WiseInv, WiseTypeOK, GateInv
  <2>5. QED
    BY <2>2, <2>3, <2>4 DEF WiseInv
<1>6. QED
  BY <1>1, <1>2, <1>3, <1>5, <1>4 DEF Next

(* Every state of every execution satisfies the invariant (executeWiseImport,
   src/src/wise/executor.ts): its gates hold each execute once and only the one in
   front loops, and what an execute has reported and still has ahead of it is what it
   did and did not send. *)
THEOREM WiseInvariant ==
  Spec => []WiseInv
<1>1. QED
  BY WiseInit, WiseStep, PTL DEF Spec

(* A leg of a statement row is created once in time in each process: the identity check
   behind the gate (transactionCommandExists) is made against rows no other execute of
   the process adds to. *)
THEOREM LegIsOncePerProcess ==
  Spec => []LegOncePerProcess
<1>1. WiseInv => LegOncePerProcess
  BY DEF WiseInv
<1>2. QED
  BY <1>1, WiseInvariant, PTL

LEMMA InvariantReports ==
  WiseInv => ReportIsTrue
<1> SUFFICES ASSUME WiseInv, NEW c \in Call, step[c] = "over", NEW i \in 1..Len(plan[c])
             PROVE  LET cmd == plan[c][i]  what == part[c][i] IN
        /\ Len(part[c]) = Len(plan[c])
        /\ what = "done" => /\ cmd.act # "inter" => Wrote(c, cmd)
                            /\ cmd.act # "main" => Settled(c, cmd)
        /\ what \in {"dependency", "blocked", "stale", "rejected", "notAttempted"} =>
              ~Wrote(c, cmd) /\ (cmd.act = "main" \/ ~Confirmed(c, cmd))
        /\ what = "orphan" => ~Confirmed(c, cmd) /\ (cmd.act = "fee" => Wrote(c, cmd))
        /\ what = "unknown" => \A j \in 1..Len(part[c]) : (j > i) = (part[c][j] = "notAttempted")
        /\ what = "dependency" =>
              LET main == [act |-> "main", row |-> cmd.row] IN
              \/ ~Wrote(c, main)
              \/ \E j \in 1..i : plan[c][j] = main /\ part[c][j] = "noId"
  BY DEF ReportIsTrue
<1>1. PlanShape(c) /\ PartTold(c) /\ PartShape(c) /\ Len(part[c]) = Len(plan[c])
  BY DEF WiseInv, CallInv, PlanShape
<1>2. plan[c] \in Seq(Command) /\ Len(plan[c]) \in Nat
  BY DEF WiseInv, WiseTypeOK
<1> DEFINE cmd == plan[c][i]
           what == part[c][i]
           main == [act |-> "main", row |-> cmd.row]
<1>3. Told(c, cmd, what)
  BY <1>1 DEF PartTold
<1>4. ASSUME NEW m PROVE Stored(c, m) => Wrote(c, m)
  BY DEF Stored, Wrote
<1>5. what = "done" => /\ cmd.act # "inter" => Wrote(c, cmd)
                       /\ cmd.act # "main" => Settled(c, cmd)
  BY <1>3, <1>4 DEF Told
<1>6. what \in {"dependency", "blocked", "stale", "rejected", "notAttempted"} =>
         ~Wrote(c, cmd) /\ (cmd.act = "main" \/ ~Confirmed(c, cmd))
  BY <1>3 DEF Told, Untouched
<1>7. what = "orphan" => ~Confirmed(c, cmd) /\ (cmd.act = "fee" => Wrote(c, cmd))
  BY <1>3, <1>4 DEF Told
<1>8. what = "unknown" => \A j \in 1..Len(part[c]) : (j > i) = (part[c][j] = "notAttempted")
  BY <1>1 DEF PartShape
<1>9. ASSUME what = "dependency"
      PROVE  \/ ~Wrote(c, main)
             \/ \E j \in 1..i : plan[c][j] = main /\ part[c][j] = "noId"
  <2>1. PICK j \in 1..(i - 1) : /\ plan[c][j] = main
                                /\ part[c][j] \in {"blocked", "stale", "rejected", "noId"}
    BY <1>1, <1>9 DEF PartShape
  <2>2. j \in 1..i /\ j \in 1..Len(part[c])
    BY <1>1, <1>2, <2>1
  <2>3. Told(c, main, part[c][j])
    BY <1>1, <2>1, <2>2 DEF PartTold
  <2>4. CASE part[c][j] = "noId"
    BY <2>1, <2>2, <2>4
  <2>5. CASE part[c][j] # "noId"
    BY <2>1, <2>3, <2>5 DEF Told, Untouched
  <2>6. QED
    BY <2>4, <2>5
<1>10. QED
  BY <1>1, <1>5, <1>6, <1>7, <1>8, <1>9

(* The report of an execute that ended is true of what the service stored: skipped and
   unattempted commands wrote nothing, a leg reported as confirmed is, an orphan is stored
   and not confirmed by this execute, but for a registration that was still on its way when
   its row was read in PROJECT, and all that stands behind an unknown outcome was not
   attempted. *)
THEOREM ReportsTheTruth ==
  Spec => []ReportIsTrue
<1>1. QED
  BY InvariantReports, WiseInvariant, PTL

=============================================================================
