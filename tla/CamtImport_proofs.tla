------------------------- MODULE CamtImport_proofs -------------------------
(***************************************************************************)
(* Proofs about CamtImport: for any statement, any number of executes in   *)
(* any processes, deaths, lost answers and bookings of the accountant,     *)
(* every execute is a run of PlanExecution, its report is true, and an     *)
(* entry with a bank reference is imported once.                           *)
(***************************************************************************)
EXTENDS CamtImport, FiniteSetTheorems, TLAPS

Before == {"preview", "reviewed", "projecting", "refused"}
Holding == {"listing", "journals", "create", "creating", "next"}
Running == {"row", "lost"} \cup Holding
Step == Before \cup Running \cup {"over", "dead"}
Part == {"completed", "failed", "indeterminate"}

Row == [by : Call \cup {User}, entry : Entry, mark : {"exact", "unclear"}, late : BOOLEAN]

TypeOK ==
    /\ rows \in Seq(Row)
    /\ mail \subseteq [call : Call, entry : Entry]
    /\ step \in [Call -> Step]
    /\ DOMAIN review = Call /\ \A c \in Call : review[c].create \subseteq Entry
    /\ commands \in [Call -> Seq(Entry)] /\ outcome \in [Call -> Seq(Part)]
    /\ mayHave \in [Call -> BOOLEAN]
    /\ stop \in [Call -> {"none", "plan_drift", "mutation_failed", "mutation_indeterminate"}]
    /\ answer \in [Call -> {"none", "ok", "noId"}]
    /\ mine \in [Call -> SUBSET [id : Nat, entry : Entry]]
    /\ \A c \in Call : IsFiniteSet(mine[c])

Wrote(c, e) == \E r \in Rows : rows[r].by = c /\ rows[r].entry = e

(* The entries of a run, in statement order. *)
PlanInv(c) ==
    /\ \A i, j \in DOMAIN commands[c] : i < j => commands[c][i] < commands[c][j]
    /\ step[c] \in Before => commands[c] = << >> /\ outcome[c] = << >>
    /\ \A r \in Rows : rows[r].by = c =>
          rows[r].mark = "exact" /\ \E i \in DOMAIN commands[c] : commands[c][i] = rows[r].entry

(* Where a run may have got to, and how it stopped. *)
LoopInv(c) ==
    /\ Len(outcome[c]) <= Len(commands[c])
    /\ step[c] \in Running => Len(outcome[c]) < Len(commands[c])
    /\ step[c] # "over" => stop[c] = "none"
    /\ step[c] = "over" /\ stop[c] = "none" => Len(outcome[c]) = Len(commands[c])
    /\ stop[c] # "none" => Len(outcome[c]) > 0
    /\ \A i \in DOMAIN outcome[c] :
          outcome[c][i] = IF stop[c] = "none" \/ i < Len(outcome[c]) THEN "completed"
                          ELSE IF stop[c] = "mutation_indeterminate" THEN "indeterminate"
                          ELSE "failed"
    /\ stop[c] = "mutation_indeterminate" => mayHave[c]

(* What was written is what the run says: what it completed, called unknown, or is at. *)
WriteInv(c) ==
    /\ \A i \in DOMAIN commands[c] : Wrote(c, commands[c][i]) =>
          \/ i \in DOMAIN outcome[c] /\ outcome[c][i] # "failed" /\ mayHave[c]
          \/ i = Position(c) /\ step[c] \in {"creating", "lost"}
    /\ \A i \in DOMAIN outcome[c] : outcome[c][i] = "completed" => Wrote(c, commands[c][i])
    /\ step[c] = "creating" /\ answer[c] # "none" => Wrote(c, Current(c))
    /\ \A r \in mail : r.call = c =>
          \/ step[c] = "creating" /\ answer[c] = "none" /\ r.entry = Current(c)
          \/ step[c] = "lost" /\ r.entry = Current(c)
          \/ stop[c] = "mutation_indeterminate" /\ r.entry = commands[c][Len(outcome[c])]

Twins(e) == {d \in Entry : KeyOf[d] = KeyOf[e]}

(* The lock of the row, and that under it there is room for one more until it is written. *)
LockInv(c) ==
    /\ step[c] \in Holding => holder = c
    /\ \/ step[c] \in {"journals", "create"}
       \/ step[c] = "creating" /\ answer[c] = "none"
       => (HasKey(Current(c)) =>
             Cardinality(Imported(Current(c))) < Cardinality(Twins(Current(c))))

CallInv(c) == PlanInv(c) /\ LoopInv(c) /\ WriteInv(c) /\ LockInv(c)

CamtInv == TypeOK /\ ImportedOnce /\ \A c \in Call : CallInv(c)

-----------------------------------------------------------------------------
(* What a step must do: keep the invariant, and take every call of it through the loop. *)
RunStep(c) == [PlanRun(c)!PlanNext]_(PlanRun(c)!planVars)
Sound == CamtInv' /\ \A c \in Call : RunStep(c)

LEMMA InitCamt == Init => CamtInv /\ \A c \in Call : PlanRun(c)!PlanInit
<1> SUFFICES ASSUME Init PROVE CamtInv /\ \A c \in Call : PlanRun(c)!PlanInit
  OBVIOUS
<1>1. Rows = {} /\ \A e \in Entry : Imported(e) = {}
  BY DEF Init, Rows, Imported
<1>2. TypeOK
  <2>1. << >> \in Seq(Row) /\ << >> \in Seq(Entry) /\ << >> \in Seq(Part) /\ IsFiniteSet({})
    BY FS_EmptySet
  <2>2. QED
    BY <2>1 DEF Init, TypeOK, Step, Before, NoReview
<1>3. ImportedOnce
  <2> SUFFICES ASSUME NEW e \in Entry
               PROVE  Cardinality(Imported(e)) <= Cardinality({d \in Entry : KeyOf[d] = KeyOf[e]})
    BY DEF ImportedOnce
  <2>1. IsFiniteSet(Entry)
    BY CamtAssumption, FS_Interval DEF Entry
  <2>2. Cardinality({d \in Entry : KeyOf[d] = KeyOf[e]}) \in Nat
    BY <2>1, FS_Subset, FS_CardinalityType
  <2>3. QED
    BY <1>1, <2>2, FS_EmptySet
<1>4. ASSUME NEW c \in Call PROVE CallInv(c) /\ PlanRun(c)!PlanInit
  <2>1. /\ step[c] = "preview" /\ commands[c] = << >> /\ outcome[c] = << >>
        /\ stop[c] = "none" /\ mayHave[c] = FALSE /\ mail = {}
    BY DEF Init
  <2>2. PlanInv(c) /\ LoopInv(c) /\ WriteInv(c)
    BY <1>1, <2>1 DEF PlanInv, LoopInv, WriteInv, Running, Holding
  <2>3. LockInv(c)
    BY <2>1 DEF LockInv, Holding
  <2>4. PlanRun(c)!PlanInit
    BY <2>1 DEF PlanRun!PlanInit, Doing, Touched
  <2>5. QED
    BY <2>2, <2>3, <2>4 DEF CallInv
<1>5. QED
  BY <1>2, <1>3, <1>4 DEF CamtInv

(* A call another one's step leaves alone. *)
Idle(d) ==
    /\ step'[d] = step[d] /\ commands'[d] = commands[d] /\ outcome'[d] = outcome[d]
    /\ mayHave'[d] = mayHave[d] /\ stop'[d] = stop[d] /\ answer'[d] = answer[d]

LEMMA IdleRuns ==
  ASSUME NEW d \in Call, Idle(d), \A e \in Entry : Wrote(d, e)' <=> Wrote(d, e),
         commands[d] \in Seq(Entry)
  PROVE  RunStep(d)
<1>1. Doing(d)' = Doing(d)
  BY DEF Idle, Doing
<1>2. Touched(d)' = Touched(d)
  BY DEF Idle, Touched, Wrote
<1>3. QED
  BY <1>1, <1>2 DEF RunStep, PlanRun!planVars, Idle

LEMMA IdleKeeps ==
  ASSUME CamtInv, NEW d \in Call, Idle(d), rows' = rows,
         \A r \in mail' : r.call = d => r \in mail,
         step[d] \in Holding => holder' = holder
  PROVE  CallInv(d)' /\ RunStep(d)
<1> USE DEF Idle
<1>1. CallInv(d) /\ commands[d] \in Seq(Entry)
  BY DEF CamtInv, TypeOK
<1>2. /\ Rows' = Rows /\ (\A e : Wrote(d, e)' <=> Wrote(d, e)) /\ Current(d)' = Current(d)
      /\ Position(d)' = Position(d) /\ \A e : Imported(e)' = Imported(e)
  BY DEF Rows, Wrote, Current, Position, Imported
<1>3. PlanInv(d)' /\ LoopInv(d)'
  BY <1>1, <1>2 DEF CallInv, PlanInv, LoopInv
<1>4. WriteInv(d)'
  BY <1>1, <1>2 DEF CallInv, WriteInv
<1>5. LockInv(d)'
  BY <1>1, <1>2 DEF CallInv, LockInv
<1>6. QED
  BY <1>1, <1>2, <1>3, <1>4, <1>5, IdleRuns DEF CallInv

(* A step of one call that writes no row. *)
LEMMA StepKeeps ==
  ASSUME CamtInv, NEW c \in Call, rows' = rows, \A d \in Call \ {c} : Idle(d),
         \A r \in mail' : r.call # c => r \in mail,
         holder' = holder \/ holder \in {None, c},
         TypeOK', CallInv(c)', RunStep(c)
  PROVE  Sound
<1>1. ASSUME NEW d \in Call \ {c} PROVE CallInv(d)' /\ RunStep(d)
  <2>1. step[d] \in Holding => holder' = holder
    <3>1. step[d] \in Holding => holder = d
      BY DEF CamtInv, CallInv, LockInv
    <3>2. QED
      BY <3>1, CamtAssumption
  <2>2. QED
    BY <2>1, IdleKeeps
<1>2. ImportedOnce'
  BY DEF CamtInv, ImportedOnce, Imported, Rows
<1>3. QED
  BY <1>1, <1>2 DEF Sound, CamtInv

(* A step that changes nothing the invariant is about, but for a request that gets lost. *)
LEMMA StillKeeps ==
  ASSUME CamtInv, UNCHANGED <<rows, holder, step, review, engine, mine, answer>>, mail' \subseteq mail
  PROVE  Sound
<1>1. ASSUME NEW d \in Call PROVE CallInv(d)' /\ RunStep(d)
  BY IdleKeeps DEF Idle, engine
<1>2. TypeOK'
  BY DEF CamtInv, TypeOK, engine
<1>3. ImportedOnce'
  BY DEF CamtInv, ImportedOnce, Imported, Rows
<1>4. QED
  BY <1>1, <1>2, <1>3 DEF Sound, CamtInv

(* The call of a step, and the rest. *)
LEMMA Moved ==
  ASSUME TypeOK, NEW c \in Call, NEW s, Goto(c, s)
  PROVE  /\ step'[c] = s /\ \A d \in Call \ {c} : step'[d] = step[d]
         /\ s \in Step => step' \in [Call -> Step]
  BY DEF Goto, TypeOK

-----------------------------------------------------------------------------
(* Up to the plan. *)
LEMMA BeforeKeeps ==
  ASSUME CamtInv, NEW c \in Call, step[c] \in Before, NEW s \in Before, Goto(c, s),
         UNCHANGED <<rows, mail, holder, engine, mine, answer>>,
         DOMAIN review' = Call, \A d \in Call : review'[d].create \subseteq Entry
  PROVE  Sound
<1>1. TypeOK /\ CallInv(c)
  BY DEF CamtInv
<1>2. /\ step'[c] = s /\ (\A d \in Call \ {c} : step'[d] = step[d]) /\ step' \in [Call -> Step]
  BY <1>1, Moved DEF Step
<1>3. TypeOK'
  BY <1>1, <1>2 DEF TypeOK, engine
<1>4. Rows' = Rows /\ \A e : Wrote(c, e)' <=> Wrote(c, e)
  BY DEF Rows, Wrote
<1>5. PlanInv(c)' /\ LoopInv(c)'
  BY <1>1, <1>2, <1>4 DEF CallInv, PlanInv, LoopInv, engine, Before, Running, Holding
<1>6. WriteInv(c)'
  <2>1. commands[c] = << >> /\ outcome[c] = << >> /\ stop[c] = "none"
    BY <1>1 DEF CallInv, PlanInv, LoopInv, Before
  <2>2. \A r \in mail : r.call # c
    BY <1>1, <2>1 DEF CallInv, WriteInv, Before
  <2>3. QED
    BY <1>2, <2>1, <2>2 DEF WriteInv, engine, Before
<1>7. LockInv(c)'
  BY <1>2 DEF LockInv, Before, Holding
<1>8. RunStep(c)
  <2>1. Doing(c) = "idle" /\ Doing(c)' = "idle"
    BY <1>2 DEF Doing, Before
  <2>2. Touched(c)' = Touched(c)
    BY <1>4 DEF Touched, engine, Wrote
  <2>3. QED
    BY <2>1, <2>2 DEF RunStep, PlanRun!planVars, engine
<1>9. \A d \in Call \ {c} : Idle(d)
  BY <1>2 DEF Idle, engine
<1>10. QED
  BY <1>3, <1>5, <1>6, <1>7, <1>8, <1>9, StepKeeps DEF CallInv

LEMMA OpeningKeeps ==
  ASSUME CamtInv, NEW c \in Call, Preview(c) \/ Consume(c)
  PROVE  Sound
<1>1. DOMAIN review = Call /\ \A d \in Call : review[d].create \subseteq Entry
  BY DEF CamtInv, TypeOK
<1>2. CASE Preview(c)
  <2>1. Projection(Stored, covered).create \subseteq Entry
    BY DEF Projection
  <2>2. /\ review' = [review EXCEPT ![c] = Projection(Stored, covered)]
        /\ step[c] \in Before /\ Goto(c, "reviewed") /\ "reviewed" \in Before
        /\ UNCHANGED <<rows, mail, holder, engine, mine, answer>>
    BY <1>2 DEF Preview, Runs, Before
  <2>3. DOMAIN review' = Call /\ \A d \in Call : review'[d].create \subseteq Entry
    BY <1>1, <2>1, <2>2
  <2>4. QED
    BY <2>2, <2>3, BeforeKeeps
<1>3. CASE Consume(c)
  <2>1. PICK s \in {"projecting", "refused"} : Goto(c, s)
    BY <1>3 DEF Consume
  <2>2. /\ step[c] \in Before /\ s \in Before
        /\ UNCHANGED <<rows, mail, holder, review, engine, mine, answer>>
    BY <1>3, <2>1 DEF Consume, Runs, Before
  <2>3. QED
    BY <1>1, <2>1, <2>2, BeforeKeeps
<1>4. QED
  BY <1>2, <1>3

LEMMA ReprojectKeeps ==
  ASSUME CamtInv, NEW c \in Call, Reproject(c)
  PROVE  Sound
<1>1. /\ TypeOK /\ CallInv(c) /\ step[c] = "projecting"
      /\ DOMAIN review = Call /\ \A d \in Call : review[d].create \subseteq Entry
  BY DEF Reproject, Runs, CamtInv, TypeOK
<1>2. UNCHANGED <<rows, mail, holder, review, outcome, mayHave, stop, mine, answer>>
  BY DEF Reproject
<1>3. CASE Goto(c, "refused") /\ UNCHANGED commands
  <2>1. step[c] \in Before /\ "refused" \in Before
    BY <1>1 DEF Before
  <2>2. QED
    BY <1>1, <1>2, <1>3, <2>1, BeforeKeeps DEF engine
<1>4. ASSUME NEW s \in Ordered(review[c].create), commands' = [commands EXCEPT ![c] = s],
             Goto(c, IF review[c].create = {} THEN "over" ELSE "row")
      PROVE  Sound
  <2> DEFINE S == review[c].create
  <2> DEFINE next == IF S = {} THEN "over" ELSE "row"
  <2>1. IsFiniteSet(S) /\ Cardinality(S) \in Nat /\ (Cardinality(S) = 0 <=> S = {})
    <3>1. IsFiniteSet(Entry)
      BY CamtAssumption, FS_Interval DEF Entry
    <3>2. QED
      BY <1>1, <3>1, FS_Subset, FS_CardinalityType, FS_EmptySet
  <2>2. /\ s \in [1..Cardinality(S) -> S]
        /\ \A i, j \in DOMAIN s : i < j => s[i] < s[j]
    BY <1>4 DEF Ordered
  <2>3. s \in Seq(Entry) /\ Len(s) = Cardinality(S) /\ DOMAIN s = 1..Len(s)
    BY <1>1, <2>1, <2>2
  <2>4. s = << >> <=> S = {}
    BY <2>1, <2>3
  <2>5. /\ step'[c] = next /\ (\A d \in Call \ {c} : step'[d] = step[d]) /\ step' \in [Call -> Step]
    BY <1>1, <1>4, Moved DEF Step, Running
  <2>6. commands'[c] = s /\ \A d \in Call \ {c} : commands'[d] = commands[d]
    BY <1>1, <1>4 DEF TypeOK
  <2>7. TypeOK'
    BY <1>1, <1>2, <1>4, <2>3, <2>5 DEF TypeOK
  <2>8. /\ commands[c] = << >> /\ outcome[c] = << >> /\ stop[c] = "none"
        /\ (\A r \in Rows : rows[r].by # c) /\ \A e : ~Wrote(c, e)
    BY <1>1 DEF CallInv, PlanInv, LoopInv, Before, Wrote
  <2>9. Rows' = Rows /\ \A e : ~Wrote(c, e)'
    BY <1>2, <2>8 DEF Rows, Wrote
  <2>10. PlanInv(c)'
    BY <1>2, <2>2, <2>5, <2>6, <2>8, <2>9 DEF PlanInv, Before
  <2>11. LoopInv(c)'
    BY <1>2, <2>1, <2>3, <2>4, <2>5, <2>6, <2>8 DEF LoopInv, Running, Holding
  <2>12. WriteInv(c)'
    <3>1. \A r \in mail : r.call # c
      BY <1>1, <2>8 DEF CallInv, WriteInv
    <3>2. QED
      BY <1>2, <2>5, <2>6, <2>8, <2>9, <3>1 DEF WriteInv
  <2>13. LockInv(c)'
    BY <2>5 DEF LockInv, Holding
  <2>14. RunStep(c)
    <3>1. Touched(c) = {} /\ Touched(c)' = {}
      BY <2>8, <2>9 DEF Touched, Wrote
    <3>2. Doing(c) = "idle" /\ Doing(c)' = IF s = << >> THEN "over" ELSE "prepare"
      BY <1>1, <2>4, <2>5 DEF Doing
    <3>3. s \in Seq(Nat)
      <4>1. Entry \subseteq Nat
        BY CamtAssumption DEF Entry
      <4>2. s \in [1..Len(s) -> Nat] /\ Len(s) \in Nat
        BY <1>1, <2>1, <2>2, <2>3, <4>1
      <4>3. QED
        BY <4>2
    <3>4. PlanRun(c)!Begin
      BY <1>2, <2>6, <3>1, <3>2, <3>3 DEF PlanRun!Begin
    <3>5. QED
      BY <3>4 DEF RunStep, PlanRun!PlanNext
  <2>15. \A d \in Call \ {c} : Idle(d)
    BY <1>2, <2>5, <2>6 DEF Idle
  <2>16. QED
    BY <1>2, <2>7, <2>10, <2>11, <2>12, <2>13, <2>14, <2>15, StepKeeps DEF CallInv
<1>5. QED
  BY <1>3, <1>4 DEF Reproject

-----------------------------------------------------------------------------
(* The loop, while it prepares a row. *)
(* What the invariant says of the row the loop of a call is at. *)
LEMMA AtRow ==
  ASSUME CamtInv, NEW c \in Call, step[c] \in Running
  PROVE  /\ commands[c] \in Seq(Entry) /\ outcome[c] \in Seq(Part)
         /\ Len(outcome[c]) \in Nat /\ Len(commands[c]) \in Nat
         /\ Len(outcome[c]) < Len(commands[c])
         /\ Position(c) \in DOMAIN commands[c] /\ Current(c) \in Entry
         /\ stop[c] = "none" /\ \A i \in DOMAIN outcome[c] : outcome[c][i] = "completed"
<1>1. /\ commands[c] \in Seq(Entry) /\ outcome[c] \in Seq(Part) /\ LoopInv(c)
      /\ step[c] # "over"
  BY DEF CamtInv, TypeOK, CallInv, Running, Holding
<1>2. Len(outcome[c]) \in Nat /\ Len(commands[c]) \in Nat /\ Len(outcome[c]) < Len(commands[c])
  BY <1>1 DEF LoopInv
<1>3. Position(c) \in DOMAIN commands[c] /\ Current(c) \in Entry
  BY <1>1, <1>2 DEF Position, Current
<1>4. stop[c] = "none" /\ \A i \in DOMAIN outcome[c] : outcome[c][i] = "completed"
  BY <1>1 DEF LoopInv
<1>5. QED
  BY <1>1, <1>2, <1>3, <1>4

Room(c) == HasKey(Current(c)) => Cardinality(Imported(Current(c))) < Cardinality(Twins(Current(c)))

(* From one step of the preparation to the next. *)
LEMMA PrepareKeeps ==
  ASSUME CamtInv, NEW c \in Call, step[c] \in {"row", "listing", "journals", "next"},
         NEW s \in {"row", "listing", "journals", "create"}, Goto(c, s),
         UNCHANGED <<rows, mail, review, engine, mine, answer>>,
         holder' = holder \/ holder \in {None, c},
         s # "row" => holder' = c,
         s \in {"journals", "create"} => Room(c)
  PROVE  Sound
<1>1. TypeOK /\ CallInv(c) /\ step[c] \in Running \ {"lost"}
  BY DEF CamtInv, Running, Holding
<1>2. /\ step'[c] = s /\ (\A d \in Call \ {c} : step'[d] = step[d]) /\ step' \in [Call -> Step]
      /\ s \in Running \ {"lost"}
  BY <1>1, Moved DEF Step, Running, Holding
<1>3. TypeOK'
  BY <1>1, <1>2 DEF TypeOK, engine
<1>4. /\ Rows' = Rows /\ (\A e : Wrote(c, e)' <=> Wrote(c, e)) /\ Current(c)' = Current(c)
      /\ Position(c)' = Position(c) /\ \A e : Imported(e)' = Imported(e)
  BY DEF Rows, Wrote, Current, Position, Imported, engine
<1>5. PlanInv(c)'
  BY <1>1, <1>2, <1>4 DEF CallInv, PlanInv, engine, Before, Running, Holding
<1>6. LoopInv(c)'
  BY <1>1, <1>2 DEF CallInv, LoopInv, engine, Running, Holding
<1>7. WriteInv(c)'
  <2>1. stop[c] = "none"
    BY <1>1, AtRow
  <2>2. \A r \in mail : r.call # c
    BY <1>1, <2>1 DEF CallInv, WriteInv
  <2>3. QED
    BY <1>1, <1>2, <1>4, <2>2 DEF CallInv, WriteInv, engine
<1>8. LockInv(c)'
  BY <1>2, <1>4 DEF LockInv, Holding, Room
<1>9. RunStep(c)
  <2>1. Touched(c)' = Touched(c)
    BY <1>4 DEF Touched, engine, Wrote
  <2>2. Doing(c) = "prepare" /\ Doing(c)' = IF s = "create" THEN "mutate" ELSE "prepare"
    BY <1>2 DEF Doing
  <2>3. CASE s = "create"
    BY <2>1, <2>2, <2>3 DEF RunStep, PlanRun!PlanNext, PlanRun!Ready, engine
  <2>4. CASE s # "create"
    BY <2>1, <2>2, <2>4 DEF RunStep, PlanRun!planVars, engine
  <2>5. QED
    BY <2>3, <2>4
<1>10. \A d \in Call \ {c} : Idle(d)
  BY <1>2 DEF Idle, engine
<1>11. QED
  BY <1>3, <1>5, <1>6, <1>7, <1>8, <1>9, <1>10, StepKeeps DEF CallInv

(* The preparation of a row fails. *)
LEMMA PrepareHalts ==
  ASSUME CamtInv, NEW c \in Call, step[c] \in {"row", "listing", "journals"},
         NEW reason \in {"plan_drift", "mutation_failed"}, Halt(c, "failed", reason),
         UNCHANGED <<rows, mail, review, mayHave, mine, answer>>
  PROVE  Sound
<1>1. TypeOK /\ CallInv(c) /\ step[c] \in Running
  BY DEF CamtInv, Running, Holding
<1>2. /\ step'[c] = "over" /\ (\A d \in Call \ {c} : step'[d] = step[d]) /\ step' \in [Call -> Step]
  BY <1>1, Moved DEF Halt, Step
<1>3. /\ outcome[c] \in Seq(Part) /\ Len(outcome[c]) \in Nat /\ Len(commands[c]) \in Nat
      /\ Len(outcome[c]) < Len(commands[c]) /\ DOMAIN outcome[c] = 1..Len(outcome[c])
      /\ stop[c] = "none" /\ \A i \in DOMAIN outcome[c] : outcome[c][i] = "completed"
  BY <1>1, AtRow
<1>4. /\ outcome'[c] = Append(outcome[c], "failed") /\ stop'[c] = reason
      /\ commands'[c] = commands[c]
      /\ \A d \in Call \ {c} : outcome'[d] = outcome[d] /\ stop'[d] = stop[d]
  BY <1>1 DEF Halt, TypeOK
<1>5. /\ outcome'[c] \in Seq(Part) /\ Len(outcome'[c]) = Len(outcome[c]) + 1
      /\ DOMAIN outcome'[c] = 1..(Len(outcome[c]) + 1)
      /\ outcome'[c][Len(outcome[c]) + 1] = "failed"
      /\ \A i \in DOMAIN outcome[c] : outcome'[c][i] = "completed"
  BY <1>3, <1>4 DEF Part
<1>6. TypeOK'
  <2>1. /\ outcome' \in [Call -> Seq(Part)]
        /\ stop' \in [Call -> {"none", "plan_drift", "mutation_failed", "mutation_indeterminate"}]
    BY <1>1, <1>4, <1>5 DEF Halt, TypeOK
  <2>2. QED
    BY <1>1, <1>2, <2>1 DEF TypeOK, Halt
<1>7. Rows' = Rows /\ (\A e : Wrote(c, e)' <=> Wrote(c, e))
  BY DEF Rows, Wrote
<1>8. PlanInv(c)'
  BY <1>1, <1>2, <1>4, <1>7 DEF CallInv, PlanInv, Before
<1>9. LoopInv(c)'
  BY <1>2, <1>3, <1>4, <1>5 DEF LoopInv, Running, Holding
<1>10. WriteInv(c)'
  <2>1. \A r \in mail : r.call # c
    BY <1>1, <1>3 DEF CallInv, WriteInv
  <2>2. \A i \in DOMAIN commands[c] : Wrote(c, commands[c][i]) => i \in DOMAIN outcome[c] /\ mayHave[c]
    BY <1>1 DEF CallInv, WriteInv
  <2>3. \A i \in DOMAIN outcome[c] : Wrote(c, commands[c][i])
    BY <1>1, <1>3 DEF CallInv, WriteInv
  <2>4. QED
    BY <1>2, <1>3, <1>4, <1>5, <1>7, <2>1, <2>2, <2>3 DEF WriteInv
<1>11. LockInv(c)'
  BY <1>2 DEF LockInv, Holding
<1>12. RunStep(c)
  <2>1. Touched(c)' = Touched(c)
    BY <1>4, <1>7 DEF Touched, Wrote
  <2>2. Doing(c) = "prepare" /\ Doing(c)' = "over"
    BY <1>2 DEF Doing
  <2>3. PlanRun(c)!Halt("failed", reason)
    BY <1>4, <2>2 DEF PlanRun!Halt
  <2>4. PlanRun(c)!Drift \/ PlanRun(c)!PrepareFails
    BY <2>1, <2>2, <2>3 DEF PlanRun!Drift, PlanRun!PrepareFails
  <2>5. QED
    BY <2>4 DEF RunStep, PlanRun!PlanNext
<1>13. \A d \in Call \ {c} : Idle(d)
  BY <1>2, <1>4 DEF Idle, Halt
<1>14. holder' = holder \/ holder \in {None, c}
  BY DEF Halt
<1>15. QED
  BY <1>6, <1>8, <1>9, <1>10, <1>11, <1>12, <1>13, <1>14, StepKeeps DEF CallInv

-----------------------------------------------------------------------------
(* Under the lock. *)
LEMMA TwinsAreFinite ==
  ASSUME NEW e \in Entry
  PROVE  IsFiniteSet(Twins(e)) /\ Cardinality(Twins(e)) \in Nat /\ Occurrence(e) \in Nat
         /\ Occurrence(e) <= Cardinality(Twins(e))
<1>1. IsFiniteSet(Entry) /\ Entries \in Nat
  BY CamtAssumption, FS_Interval DEF Entry
<1>2. IsFiniteSet(Twins(e)) /\ Cardinality(Twins(e)) \in Nat
  BY <1>1, FS_Subset, FS_CardinalityType DEF Twins
<1>3. {d \in 1..e : KeyOf[d] = KeyOf[e]} \in SUBSET Twins(e)
  BY <1>1 DEF Twins, Entry
<1>4. QED
  BY <1>2, <1>3, FS_Subset, FS_CardinalityType DEF Occurrence

LEMMA KnownIsFinite ==
  ASSUME TypeOK, NEW c \in Call
  PROVE  IsFiniteSet(Known(c))
<1>1. IsFiniteSet(Stored)
  <2> DEFINE f == [i \in Rows |-> [id |-> i, entry |-> rows[i].entry, mark |-> rows[i].mark]]
  <2>1. IsFiniteSet(Rows)
    <3>1. Len(rows) \in Nat
      BY DEF TypeOK
    <3>2. QED
      BY <3>1, FS_Interval DEF Rows
  <2>2. f \in Surjection(Rows, Stored)
    BY DEF Surjection, Stored
  <2> HIDE DEF f
  <2>3. QED
    BY <2>1, <2>2, FS_Surjection
<1>2. IsFiniteSet({[id |-> m.id, entry |-> m.entry, mark |-> "exact"] : m \in mine[c]})
  <2> DEFINE S == {[id |-> m.id, entry |-> m.entry, mark |-> "exact"] : m \in mine[c]}
  <2> DEFINE g == [m \in mine[c] |-> [id |-> m.id, entry |-> m.entry, mark |-> "exact"]]
  <2>1. IsFiniteSet(mine[c])
    BY DEF TypeOK
  <2>2. g \in Surjection(mine[c], S)
    BY DEF Surjection
  <2> HIDE DEF g, S
  <2>3. IsFiniteSet(S)
    BY <2>1, <2>2, FS_Surjection
  <2>4. QED
    BY <2>3 DEF S
<1>3. QED
  BY <1>1, <1>2, FS_Union DEF Known

(* A row that is not a duplicate leaves room for itself: what imports wrote with its key
   is in the list, as exact matches, and each of them counts. *)
LEMMA NoDuplicateNoTwin ==
  ASSUME CamtInv, NEW c \in Call, NEW e \in Entry, HasKey(e), ~IsDuplicate(e, Known(c))
  PROVE  Cardinality(Imported(e)) < Cardinality(Twins(e))
<1> DEFINE M == Matching(e, Known(c))
<1> DEFINE f == [i \in Imported(e) |-> [id |-> i, entry |-> rows[i].entry, mark |-> rows[i].mark]]
<1>1. IsFiniteSet(M) /\ Cardinality(M) \in Nat
  <2>1. IsFiniteSet(Known(c)) /\ M \in SUBSET Known(c)
    BY KnownIsFinite DEF CamtInv, Matching
  <2>2. QED
    BY <2>1, FS_Subset, FS_CardinalityType
<1>2. ASSUME NEW i \in Imported(e)
      PROVE  [id |-> i, entry |-> rows[i].entry, mark |-> rows[i].mark] \in M
  <2>1. i \in Rows /\ rows[i].by \in Call /\ KeyOf[rows[i].entry] = KeyOf[e]
    <3>1. i \in Rows /\ rows[i].by # User /\ rows[i] \in Row /\ KeyOf[rows[i].entry] = KeyOf[e]
      BY DEF Imported, CamtInv, TypeOK, Rows
    <3>2. QED
      BY <3>1 DEF Row
  <2>2. rows[i].mark = "exact"
    BY <2>1 DEF CamtInv, CallInv, PlanInv
  <2>3. [id |-> i, entry |-> rows[i].entry, mark |-> rows[i].mark] \in Known(c)
    BY <2>1 DEF Known, Stored
  <2>4. QED
    BY <2>1, <2>2, <2>3 DEF Matching
<1>3. f \in Injection(Imported(e), M)
  BY <1>2 DEF Injection, IsInjective
<1> HIDE DEF f
<1>4. IsFiniteSet(Imported(e)) /\ Cardinality(Imported(e)) <= Cardinality(M)
  BY <1>1, <1>3, FS_Injection
<1>5. Cardinality(Imported(e)) \in Nat
  BY <1>4, FS_CardinalityType
<1>6. Cardinality(M) < Occurrence(e)
  BY <1>1, TwinsAreFinite DEF IsDuplicate
<1>7. QED
  BY <1>1, <1>4, <1>5, <1>6, TwinsAreFinite

LEMMA PreparationKeeps ==
  ASSUME CamtInv, NEW c \in Call,
         \/ NextRow(c) \/ Acquire(c) \/ LockBusy(c) \/ CheckRows(c) \/ CheckJournals(c)
         \/ ReadFails(c)
  PROVE  Sound
<1>1. CASE NextRow(c)
  <2>1. holder = c
    BY <1>1 DEF NextRow, Runs, CamtInv, CallInv, LockInv, Holding
  <2>2. QED
    BY <1>1, <2>1, PrepareKeeps DEF NextRow, Runs, Reads
<1>2. CASE Acquire(c)
  BY <1>2, PrepareKeeps DEF Acquire, Runs, Reads
<1>3. CASE LockBusy(c)
  BY <1>3, PrepareHalts DEF LockBusy, Runs, Reads
<1>4. CASE CheckRows(c)
  <2>1. step[c] = "listing" /\ holder = c /\ Current(c) \in Entry
    BY <1>4, AtRow DEF CheckRows, Runs, CamtInv, CallInv, LockInv, Holding, Running
  <2>2. UNCHANGED <<rows, mail, review, mine, answer>>
    BY <1>4 DEF CheckRows
  <2>3. CASE Halt(c, "failed", "plan_drift") /\ UNCHANGED mayHave
    BY <2>1, <2>2, <2>3, PrepareHalts
  <2>4. CASE ~IsDuplicate(Current(c), Known(c)) /\ Goto(c, "journals") /\ UNCHANGED <<holder, engine>>
    <3>1. Room(c)
      BY <2>1, <2>4, NoDuplicateNoTwin DEF Room
    <3>2. QED
      BY <2>1, <2>2, <2>4, <3>1, PrepareKeeps
  <2>5. QED
    BY <1>4, <2>3, <2>4 DEF CheckRows
<1>5. CASE CheckJournals(c)
  <2>1. step[c] = "journals" /\ holder = c /\ Room(c)
    BY <1>5 DEF CheckJournals, Runs, CamtInv, CallInv, LockInv, Holding, Room
  <2>2. UNCHANGED <<rows, mail, review, mine, answer>>
    BY <1>5 DEF CheckJournals, Reads
  <2>3. CASE Halt(c, "failed", "plan_drift") /\ UNCHANGED mayHave
    BY <2>1, <2>2, <2>3, PrepareHalts
  <2>4. CASE Goto(c, "create") /\ UNCHANGED <<holder, engine>>
    BY <2>1, <2>2, <2>4, PrepareKeeps
  <2>5. QED
    BY <1>5, <2>3, <2>4 DEF CheckJournals
<1>6. CASE ReadFails(c)
  BY <1>6, PrepareHalts DEF ReadFails, Runs, Reads
<1>7. QED
  BY <1>1, <1>2, <1>3, <1>4, <1>5, <1>6

-----------------------------------------------------------------------------
(* The create of a row. *)
LEMMA SendKeeps ==
  ASSUME CamtInv, NEW c \in Call, SendCreate(c)
  PROVE  Sound
<1>1. TypeOK /\ CallInv(c) /\ step[c] = "create"
  BY DEF CamtInv, SendCreate, Runs
<1>2. /\ step'[c] = "creating" /\ (\A d \in Call \ {c} : step'[d] = step[d])
      /\ step' \in [Call -> Step]
  BY <1>1, Moved DEF SendCreate, Step, Running, Holding
<1>3. /\ UNCHANGED <<rows, holder, review, engine, mine>>
      /\ mail' = mail \cup {[call |-> c, entry |-> Current(c)]}
      /\ answer'[c] = "none" /\ \A d \in Call \ {c} : answer'[d] = answer[d]
  BY <1>1 DEF SendCreate, TypeOK
<1>4. /\ Rows' = Rows /\ (\A e : Wrote(c, e)' <=> Wrote(c, e)) /\ Current(c)' = Current(c)
      /\ Position(c)' = Position(c) /\ \A e : Imported(e)' = Imported(e)
  BY <1>3 DEF Rows, Wrote, Current, Position, Imported, engine
<1>5. TypeOK'
  <2>1. Current(c) \in Entry
    BY <1>1, AtRow DEF Running, Holding
  <2>2. answer' \in [Call -> {"none", "ok", "noId"}]
    BY <1>1 DEF SendCreate, TypeOK
  <2>3. QED
    BY <1>1, <1>2, <1>3, <2>1, <2>2 DEF TypeOK, engine
<1>6. PlanInv(c)' /\ LoopInv(c)'
  BY <1>1, <1>2, <1>3, <1>4 DEF CallInv, PlanInv, LoopInv, engine, Before, Running, Holding
<1>7. WriteInv(c)'
  <2>1. \A r \in mail : r.call # c
    BY <1>1, AtRow DEF CallInv, WriteInv, Running, Holding
  <2>2. QED
    BY <1>1, <1>2, <1>3, <1>4, <2>1 DEF CallInv, WriteInv, engine
<1>8. LockInv(c)'
  BY <1>1, <1>2, <1>3, <1>4 DEF CallInv, LockInv, Holding
<1>9. RunStep(c)
  <2>1. Touched(c)' = Touched(c)
    BY <1>3, <1>4 DEF Touched, engine, Wrote
  <2>2. Doing(c) = "mutate" /\ Doing(c)' = "mutate"
    BY <1>1, <1>2 DEF Doing
  <2>3. QED
    BY <1>3, <2>1, <2>2 DEF RunStep, PlanRun!planVars, engine
<1>10. \A d \in Call \ {c} : Idle(d)
  BY <1>2, <1>3 DEF Idle, engine
<1>11. QED
  BY <1>3, <1>5, <1>6, <1>7, <1>8, <1>9, <1>10, StepKeeps DEF CallInv

LEMMA AnsweredKeeps ==
  ASSUME CamtInv, NEW c \in Call, CreateAnswered(c)
  PROVE  Sound
<1>1. TypeOK /\ CallInv(c) /\ step[c] = "creating" /\ answer[c] # "none"
  BY DEF CamtInv, CreateAnswered, Runs
<1>2. /\ commands[c] \in Seq(Entry) /\ outcome[c] \in Seq(Part)
      /\ Len(outcome[c]) \in Nat /\ Len(commands[c]) \in Nat
      /\ DOMAIN outcome[c] = 1..Len(outcome[c]) /\ DOMAIN commands[c] = 1..Len(commands[c])
      /\ Len(outcome[c]) < Len(commands[c]) /\ Current(c) \in Entry
      /\ stop[c] = "none" /\ (\A i \in DOMAIN outcome[c] : outcome[c][i] = "completed")
  BY <1>1, AtRow DEF Running, Holding
<1>3. UNCHANGED <<rows, mail, review, commands, stop>>
  BY DEF CreateAnswered, Proceed
<1>4. /\ outcome'[c] = Append(outcome[c], "completed") /\ mayHave'[c] = TRUE
      /\ answer'[c] = "none"
      /\ \A d \in Call \ {c} : /\ outcome'[d] = outcome[d] /\ mayHave'[d] = mayHave[d]
                               /\ answer'[d] = answer[d]
  BY <1>1 DEF CreateAnswered, Proceed, TypeOK
<1>5. /\ outcome'[c] \in Seq(Part) /\ Len(outcome'[c]) = Len(outcome[c]) + 1
      /\ DOMAIN outcome'[c] = 1..(Len(outcome[c]) + 1)
      /\ \A i \in DOMAIN outcome'[c] : outcome'[c][i] = "completed"
  BY <1>2, <1>4 DEF Part
<1>6. PICK s \in {"over", "next"} :
         /\ Goto(c, s) /\ (s = "over" <=> Len(outcome'[c]) = Len(commands[c]))
         /\ holder' = IF s = "over" THEN None ELSE holder
  BY DEF CreateAnswered, Proceed
<1>7. /\ step'[c] = s /\ (\A d \in Call \ {c} : step'[d] = step[d]) /\ step' \in [Call -> Step]
  BY <1>1, <1>6, Moved DEF Step, Running, Holding
<1>8. holder = c
  BY <1>1 DEF CallInv, LockInv, Holding
<1>9. TypeOK'
  <2>1. CreatedId(c) \in Nat
    <3>1. CASE answer[c] = "noId"
      BY <3>1 DEF CreatedId
    <3>2. CASE answer[c] # "noId"
      <4>1. Wrote(c, Current(c))
        BY <1>1 DEF CallInv, WriteInv
      <4>2. CreatedId(c) \in Rows
        BY <3>2, <4>1 DEF CreatedId, Wrote
      <4>3. QED
        BY <4>2 DEF Rows
    <3>3. QED
      BY <3>1, <3>2
  <2> DEFINE m == [id |-> CreatedId(c), entry |-> Current(c)]
  <2>2. mine' = [mine EXCEPT ![c] = mine[c] \cup {m}] /\ m \in [id : Nat, entry : Entry]
    BY <1>1, <1>2, <2>1 DEF CreateAnswered, TypeOK
  <2> HIDE DEF m
  <2>3. mine' \in [Call -> SUBSET [id : Nat, entry : Entry]] /\ \A d \in Call : IsFiniteSet(mine'[d])
    <3>1. IsFiniteSet(mine[c] \cup {m})
      BY <1>1, FS_AddElement DEF TypeOK
    <3>2. QED
      BY <1>1, <2>2, <3>1 DEF TypeOK
  <2>4. /\ outcome' \in [Call -> Seq(Part)] /\ mayHave' \in [Call -> BOOLEAN]
        /\ answer' \in [Call -> {"none", "ok", "noId"}]
    BY <1>1, <1>4, <1>5 DEF CreateAnswered, Proceed, TypeOK
  <2>5. QED
    BY <1>1, <1>3, <1>7, <2>3, <2>4 DEF TypeOK
<1>10. /\ Rows' = Rows /\ (\A e : Wrote(c, e)' <=> Wrote(c, e))
  BY <1>3 DEF Rows, Wrote
<1>11. PlanInv(c)'
  BY <1>1, <1>3, <1>7, <1>10 DEF CallInv, PlanInv, Before
<1>12. LoopInv(c)'
  BY <1>2, <1>3, <1>5, <1>6, <1>7 DEF LoopInv, Running, Holding
<1>13. WriteInv(c)'
  <2>1. \A r \in mail : r.call # c
    BY <1>1, <1>2 DEF CallInv, WriteInv
  <2>2. \A i \in DOMAIN outcome'[c] : Wrote(c, commands[c][i])
    BY <1>1, <1>2, <1>5 DEF CallInv, WriteInv, Current, Position
  <2>3. \A i \in DOMAIN commands[c] : Wrote(c, commands[c][i]) =>
           i \in DOMAIN outcome'[c]
    BY <1>1, <1>2, <1>5 DEF CallInv, WriteInv, Position
  <2>4. QED
    BY <1>3, <1>4, <1>5, <1>7, <1>10, <2>1, <2>2, <2>3 DEF WriteInv
<1>14. LockInv(c)'
  BY <1>4, <1>6, <1>7, <1>8 DEF LockInv, Holding
<1>15. RunStep(c)
  <2>1. Touched(c)' = Touched(c)
    BY <1>3, <1>10 DEF Touched, Wrote
  <2>2. /\ Doing(c) = "mutate"
        /\ Doing(c)' = IF Len(outcome'[c]) = Len(commands[c]) THEN "over" ELSE "prepare"
    BY <1>1, <1>6, <1>7 DEF Doing
  <2>3. PlanRun(c)!At \in Touched(c)
    <3>1. Wrote(c, Current(c)) /\ Position(c) \in 1..Len(commands[c])
      BY <1>1, <1>2 DEF CallInv, WriteInv, Position
    <3>2. QED
      BY <3>1 DEF Touched, PlanRun!At, Wrote, Current, Position
  <2>4. PlanRun(c)!Complete
    BY <1>3, <1>4, <2>1, <2>2, <2>3 DEF PlanRun!Complete, PlanRun!Proceed
  <2>5. QED
    BY <2>4 DEF RunStep, PlanRun!PlanNext
<1>16. \A d \in Call \ {c} : Idle(d)
  BY <1>3, <1>4, <1>7 DEF Idle
<1>17. QED
  BY <1>3, <1>8, <1>9, <1>11, <1>12, <1>13, <1>14, <1>15, <1>16, StepKeeps DEF CallInv

(* The call gives a create up, or hears that it was refused. *)
LEMMA ThrowsKeeps ==
  ASSUME CamtInv, NEW c \in Call, CreateThrows(c)
  PROVE  Sound
<1>1. TypeOK /\ CallInv(c) /\ step[c] = "creating"
  BY DEF CamtInv, CreateThrows, Runs
<1>2. /\ outcome[c] \in Seq(Part) /\ Len(outcome[c]) \in Nat /\ Len(commands[c]) \in Nat
      /\ DOMAIN outcome[c] = 1..Len(outcome[c]) /\ Len(outcome[c]) < Len(commands[c])
      /\ stop[c] = "none" /\ (\A i \in DOMAIN outcome[c] : outcome[c][i] = "completed")
      /\ DOMAIN commands[c] = 1..Len(commands[c])
  BY <1>1, AtRow DEF Running, Holding
<1>3. UNCHANGED <<rows, mail, review, commands, mine>>
  BY DEF CreateThrows, Halt
<1>4. /\ outcome'[c] = Append(outcome[c], "indeterminate") /\ mayHave'[c] = TRUE
      /\ stop'[c] = "mutation_indeterminate" /\ answer'[c] = "none"
      /\ \A d \in Call \ {c} : /\ outcome'[d] = outcome[d] /\ mayHave'[d] = mayHave[d]
                               /\ stop'[d] = stop[d] /\ answer'[d] = answer[d]
  BY <1>1 DEF CreateThrows, Halt, TypeOK
<1>5. /\ outcome'[c] \in Seq(Part) /\ Len(outcome'[c]) = Len(outcome[c]) + 1
      /\ DOMAIN outcome'[c] = 1..(Len(outcome[c]) + 1)
      /\ outcome'[c][Len(outcome[c]) + 1] = "indeterminate"
      /\ \A i \in DOMAIN outcome[c] : outcome'[c][i] = "completed"
  BY <1>2, <1>4 DEF Part
<1>6. /\ step'[c] = "over" /\ (\A d \in Call \ {c} : step'[d] = step[d]) /\ step' \in [Call -> Step]
  BY <1>1, Moved DEF CreateThrows, Halt, Step
<1>7. TypeOK'
  <2>1. /\ outcome' \in [Call -> Seq(Part)] /\ mayHave' \in [Call -> BOOLEAN]
        /\ stop' \in [Call -> {"none", "plan_drift", "mutation_failed", "mutation_indeterminate"}]
        /\ answer' \in [Call -> {"none", "ok", "noId"}]
    BY <1>1, <1>4, <1>5 DEF CreateThrows, Halt, TypeOK
  <2>2. QED
    BY <1>1, <1>3, <1>6, <2>1 DEF TypeOK
<1>8. Rows' = Rows /\ (\A e : Wrote(c, e)' <=> Wrote(c, e))
  BY <1>3 DEF Rows, Wrote
<1>9. PlanInv(c)'
  BY <1>1, <1>3, <1>6, <1>8 DEF CallInv, PlanInv, Before
<1>10. LoopInv(c)'
  BY <1>2, <1>3, <1>4, <1>5, <1>6 DEF LoopInv, Running, Holding
<1>11. WriteInv(c)'
  <2>1. \A r \in mail : r.call = c => r.entry = commands[c][Len(outcome'[c])]
    BY <1>1, <1>2, <1>5 DEF CallInv, WriteInv, Current, Position
  <2>2. \A i \in DOMAIN outcome[c] : Wrote(c, commands[c][i])
    BY <1>1, <1>2 DEF CallInv, WriteInv
  <2>3. \A i \in DOMAIN commands[c] : Wrote(c, commands[c][i]) => i \in DOMAIN outcome'[c]
    BY <1>1, <1>2, <1>5 DEF CallInv, WriteInv, Position
  <2>4. \A i \in DOMAIN outcome'[c] : outcome'[c][i] # "failed"
    BY <1>2, <1>5
  <2>5. QED
    BY <1>2, <1>3, <1>4, <1>5, <1>6, <1>8, <2>1, <2>2, <2>3, <2>4 DEF WriteInv
<1>12. LockInv(c)'
  BY <1>6 DEF LockInv, Holding
<1>13. RunStep(c)
  <2>1. Touched(c)' = Touched(c)
    BY <1>3, <1>8 DEF Touched, Wrote
  <2>2. Doing(c) = "mutate" /\ Doing(c)' = "over"
    BY <1>1, <1>6 DEF Doing
  <2>3. PlanRun(c)!Unknown
    BY <1>3, <1>4, <2>1, <2>2 DEF PlanRun!Unknown, PlanRun!Halt
  <2>4. QED
    BY <2>3 DEF RunStep, PlanRun!PlanNext
<1>14. \A d \in Call \ {c} : Idle(d)
  BY <1>3, <1>4, <1>6 DEF Idle
<1>15. holder' = holder \/ holder \in {None, c}
  BY DEF CreateThrows, Halt
<1>16. QED
  BY <1>3, <1>7, <1>9, <1>10, <1>11, <1>12, <1>13, <1>14, <1>15, StepKeeps DEF CallInv

-----------------------------------------------------------------------------
(* A row more. *)
LEMMA OneRowMore ==
  ASSUME TypeOK, NEW x \in Row, rows' = Append(rows, x)
  PROVE  /\ rows' \in Seq(Row) /\ Len(rows) + 1 \notin Rows
         /\ \A d, e : Wrote(d, e)' <=> Wrote(d, e) \/ (x.by = d /\ x.entry = e)
         /\ \A e : Imported(e)' =
                      IF x.by # User /\ ~x.late /\ KeyOf[x.entry] = KeyOf[e]
                      THEN Imported(e) \cup {Len(rows) + 1} ELSE Imported(e)
         /\ \A r \in Rows' : \/ r \in Rows /\ rows'[r] = rows[r]
                             \/ rows'[r] = x
<1>1. rows \in Seq(Row) /\ Len(rows) \in Nat /\ Rows = 1..Len(rows)
  BY DEF TypeOK, Rows
<1>2. /\ rows' \in Seq(Row) /\ Rows' = 1..(Len(rows) + 1) /\ rows'[Len(rows) + 1] = x
      /\ \A r \in Rows : rows'[r] = rows[r]
  BY <1>1 DEF Rows
<1>3. \A d, e : Wrote(d, e)' <=> Wrote(d, e) \/ (x.by = d /\ x.entry = e)
  BY <1>1, <1>2 DEF Wrote
<1>4. ASSUME NEW e
      PROVE  Imported(e)' = IF x.by # User /\ ~x.late /\ KeyOf[x.entry] = KeyOf[e]
                            THEN Imported(e) \cup {Len(rows) + 1} ELSE Imported(e)
  BY <1>1, <1>2 DEF Imported
<1>5. QED
  BY <1>1, <1>2, <1>3, <1>4

LEMMA RowAside ==
  ASSUME CamtInv, NEW d \in Call, Idle(d), NEW x \in Row, rows' = Append(rows, x), x.by # d,
         mail' \subseteq mail, holder' = holder,
         step[d] \in Holding => x.by = User \/ x.late
  PROVE  CallInv(d)' /\ RunStep(d)
<1> USE DEF Idle
<1>1. TypeOK /\ CallInv(d) /\ commands[d] \in Seq(Entry)
  BY DEF CamtInv, TypeOK
<1>2. /\ (\A e : Wrote(d, e)' <=> Wrote(d, e)) /\ Current(d)' = Current(d)
      /\ Position(d)' = Position(d)
      /\ step[d] \in Holding => \A e : Imported(e)' = Imported(e)
      /\ \A r \in Rows' : rows'[r].by = d => r \in Rows /\ rows'[r] = rows[r]
  <2>1. Current(d)' = Current(d) /\ Position(d)' = Position(d)
    BY DEF Current, Position
  <2>2. \A e : Wrote(d, e)' <=> Wrote(d, e) \/ (x.by = d /\ x.entry = e)
    BY <1>1, OneRowMore
  <2>3. \A e : Wrote(d, e)' <=> Wrote(d, e)
    BY <2>2
  <2>4. \A e : Imported(e)' = IF x.by # User /\ ~x.late /\ KeyOf[x.entry] = KeyOf[e]
                              THEN Imported(e) \cup {Len(rows) + 1} ELSE Imported(e)
    BY <1>1, OneRowMore
  <2>5. step[d] \in Holding => \A e : Imported(e)' = Imported(e)
    BY <2>4
  <2>6. \A r \in Rows' : (r \in Rows /\ rows'[r] = rows[r]) \/ rows'[r] = x
    BY <1>1, OneRowMore
  <2>7. \A r \in Rows' : rows'[r].by = d => r \in Rows /\ rows'[r] = rows[r]
    BY <2>6
  <2>8. QED
    BY <2>1, <2>3, <2>5, <2>7
<1>3. PlanInv(d)' /\ LoopInv(d)'
  <2>1. ASSUME NEW q \in Rows', rows'[q].by = d
        PROVE  /\ rows'[q].mark = "exact"
               /\ \E i \in DOMAIN commands'[d] : commands'[d][i] = rows'[q].entry
    <3>1. q \in Rows /\ rows'[q] = rows[q] /\ rows[q].by = d
      BY <1>2, <2>1
    <3>2. QED
      BY <1>1, <3>1 DEF CallInv, PlanInv
  <2>2. PlanInv(d)'
    <3>1. /\ \A i, j \in DOMAIN commands'[d] : i < j => commands'[d][i] < commands'[d][j]
          /\ step'[d] \in Before => commands'[d] = << >> /\ outcome'[d] = << >>
      BY <1>1 DEF CallInv, PlanInv
    <3>2. QED
      BY <2>1, <3>1 DEF PlanInv
  <2>3. LoopInv(d)'
    BY <1>1 DEF CallInv, LoopInv
  <2>4. QED
    BY <2>2, <2>3
<1>4. WriteInv(d)'
  BY <1>1, <1>2 DEF CallInv, WriteInv
<1>5. LockInv(d)'
  BY <1>1, <1>2 DEF CallInv, LockInv, Holding
<1>6. QED
  BY <1>1, <1>2, <1>3, <1>4, <1>5, IdleRuns DEF CallInv

LEMMA ForeignRowKeeps ==
  ASSUME CamtInv, NEW e \in Entry, NEW mark \in {"exact", "unclear"}, ForeignRow(e, mark)
  PROVE  Sound
<1> DEFINE x == [by |-> User, entry |-> e, mark |-> mark, late |-> FALSE]
<1>1. x \in Row /\ x.by = User
  BY DEF Row
<1>2. /\ rows' = Append(rows, x)
      /\ UNCHANGED <<mail, holder, step, review, engine, mine, answer>>
  BY DEF ForeignRow
<1> HIDE DEF x
<1>3. ASSUME NEW d \in Call PROVE CallInv(d)' /\ RunStep(d)
  BY <1>1, <1>2, RowAside, CamtAssumption DEF Idle, engine
<1>4. TypeOK'
  BY <1>1, <1>2, OneRowMore DEF CamtInv, TypeOK, engine
<1>5. ImportedOnce'
  BY <1>1, <1>2, OneRowMore DEF CamtInv, ImportedOnce
<1>6. QED
  BY <1>3, <1>4, <1>5 DEF Sound, CamtInv

(* The service carries a create out: one the call waits for, one of a call that died, or
   one its call gave up. *)
LEMMA DeliverKeeps ==
  ASSUME CamtInv, NEW r \in mail, Deliver(r)
  PROVE  Sound
<1> DEFINE c == r.call
<1> DEFINE x == [by |-> c, entry |-> r.entry, mark |-> "exact", late |-> ~Waiting(c)]
<1>0. TypeOK /\ r \in [call : Call, entry : Entry]
  BY DEF CamtInv, TypeOK
<1>1. c \in Call /\ r.entry \in Entry /\ c # User
  BY <1>0, CamtAssumption
<1>2. /\ x \in Row /\ x.by = c /\ x.entry = r.entry /\ (x.late <=> step[c] # "creating")
      /\ x.mark = "exact"
  BY <1>1 DEF Row, Waiting
<1>3. /\ rows' = Append(rows, x) /\ mail' = mail \ {r}
      /\ UNCHANGED <<holder, step, review, commands, outcome, mayHave, stop, mine>>
  BY DEF Deliver, engine
<1>4. PICK text \in {"ok", "noId"} :
         answer' = IF Waiting(c) THEN [answer EXCEPT ![c] = text] ELSE answer
  BY DEF Deliver
<1>5. /\ answer' \in [Call -> {"none", "ok", "noId"}]
      /\ answer'[c] = IF step[c] = "creating" THEN text ELSE answer[c]
      /\ \A d \in Call \ {c} : answer'[d] = answer[d]
  BY <1>0, <1>1, <1>4 DEF TypeOK, Waiting
<1> HIDE DEF x
<1>6. CallInv(c)
  BY <1>1 DEF CamtInv
<1>7. \/ step[c] = "creating" /\ answer[c] = "none" /\ r.entry = Current(c)
      \/ step[c] = "lost" /\ r.entry = Current(c)
      \/ stop[c] = "mutation_indeterminate" /\ r.entry = commands[c][Len(outcome[c])]
  BY <1>6 DEF CallInv, WriteInv
<1>8. step[c] = "creating" => answer[c] = "none" /\ r.entry = Current(c) /\ LockInv(c)
  BY <1>6, <1>7 DEF CallInv, LoopInv
<1>9. TypeOK'
  BY <1>0, <1>2, <1>3, <1>5, OneRowMore DEF TypeOK
<1>10. ASSUME NEW e \in Entry, HasKey(e)
       PROVE  Cardinality(Imported(e)') <= Cardinality(Twins(e))
  <2>1. IsFiniteSet(Imported(e)) /\ Cardinality(Imported(e)) \in Nat
    <3>1. Len(rows) \in Nat /\ Imported(e) \in SUBSET Rows
      BY <1>0 DEF TypeOK, Imported
    <3>2. IsFiniteSet(Rows)
      BY <3>1, FS_Interval DEF Rows
    <3>3. QED
      BY <3>1, <3>2, FS_Subset, FS_CardinalityType
  <2>2. CASE x.late \/ KeyOf[x.entry] # KeyOf[e]
    <3>1. Imported(e)' = Imported(e)
      BY <1>0, <1>2, <1>3, <2>2, OneRowMore
    <3>2. QED
      BY <1>10, <3>1 DEF CamtInv, ImportedOnce, Twins
  <2>3. CASE ~x.late /\ KeyOf[x.entry] = KeyOf[e]
    <3>1. /\ Imported(e)' = Imported(e) \cup {Len(rows) + 1} /\ Len(rows) + 1 \notin Rows
      BY <1>0, <1>1, <1>2, <1>3, <2>3, OneRowMore
    <3>2. Cardinality(Imported(e)') = Cardinality(Imported(e)) + 1
      BY <2>1, <3>1, FS_AddElement DEF Imported
    <3>3. /\ HasKey(Current(c)) /\ Imported(Current(c)) = Imported(e)
          /\ Twins(Current(c)) = Twins(e)
      BY <1>2, <1>8, <1>10, <2>3 DEF HasKey, Imported, Twins
    <3>4. Cardinality(Imported(e)) < Cardinality(Twins(e))
      BY <1>2, <1>8, <2>3, <3>3 DEF LockInv
    <3>5. QED
      BY <2>1, <3>2, <3>4, TwinsAreFinite
  <2>4. QED
    BY <2>2, <2>3
<1>11. ImportedOnce'
  BY <1>10 DEF ImportedOnce, Twins, HasKey
<1>12. ASSUME NEW d \in Call \ {c} PROVE CallInv(d)' /\ RunStep(d)
  <2>1. step[d] \in Holding => holder = d
    BY DEF CamtInv, CallInv, LockInv
  <2>2. step[c] = "creating" => holder = c
    BY <1>8 DEF LockInv, Holding
  <2>3. step[d] \in Holding => x.late
    BY <1>2, <2>1, <2>2
  <2>4. Idle(d)
    BY <1>3, <1>5 DEF Idle
  <2>5. QED
    BY <1>2, <1>3, <2>3, <2>4, RowAside
<1>13. /\ commands[c] \in Seq(Entry) /\ outcome[c] \in Seq(Part) /\ Len(outcome[c]) \in Nat
       /\ Len(commands[c]) \in Nat /\ DOMAIN outcome[c] = 1..Len(outcome[c])
       /\ DOMAIN commands[c] = 1..Len(commands[c])
  BY <1>0, <1>1 DEF TypeOK
<1>14. PICK k \in DOMAIN commands[c] :
          /\ commands[c][k] = r.entry
          /\ \/ k = Position(c) /\ step[c] \in {"creating", "lost"}
             \/ /\ stop[c] = "mutation_indeterminate" /\ k = Len(outcome[c])
                /\ k \in DOMAIN outcome[c] /\ outcome[c][k] # "failed" /\ mayHave[c]
  <2>1. CASE step[c] \in {"creating", "lost"} /\ r.entry = Current(c)
    BY <1>1, <2>1, AtRow DEF Running, Holding, Current
  <2>2. CASE stop[c] = "mutation_indeterminate" /\ r.entry = commands[c][Len(outcome[c])]
    BY <1>6, <1>13, <2>2 DEF CallInv, LoopInv
  <2>3. QED
    BY <1>7, <2>1, <2>2
<1>15. \A i \in DOMAIN commands[c] : commands[c][i] = r.entry => i = k
  <2>1. \A i \in DOMAIN commands[c] : commands[c][i] \in Nat
    BY <1>13, CamtAssumption DEF Entry
  <2>2. QED
    BY <1>6, <1>13, <1>14, <2>1 DEF CallInv, PlanInv
<1>16. /\ (\A e : Wrote(c, e)' <=> Wrote(c, e) \/ e = r.entry)
       /\ (\A i \in Rows' : (i \in Rows /\ rows'[i] = rows[i]) \/ rows'[i] = x)
       /\ Current(c)' = Current(c) /\ Position(c)' = Position(c)
  <2>1. Current(c)' = Current(c) /\ Position(c)' = Position(c)
    BY <1>3 DEF Current, Position
  <2>2. (\A e : Wrote(c, e)' <=> Wrote(c, e) \/ e = r.entry)
    BY <1>0, <1>2, <1>3, OneRowMore
  <2>3. \A i \in Rows' : (i \in Rows /\ rows'[i] = rows[i]) \/ rows'[i] = x
    BY <1>0, <1>2, <1>3, OneRowMore
  <2>4. QED
    BY <2>1, <2>2, <2>3
<1>17. PlanInv(c)' /\ LoopInv(c)'
  <2>1. step[c] \notin Before
    BY <1>6, <1>14 DEF CallInv, PlanInv
  <2>2. PlanInv(c)'
    <3>1. ASSUME NEW q \in Rows', rows'[q].by = c
          PROVE  /\ rows'[q].mark = "exact"
                 /\ \E i \in DOMAIN commands[c] : commands[c][i] = rows'[q].entry
      <4>1. CASE q \in Rows /\ rows'[q] = rows[q]
        BY <1>6, <3>1, <4>1 DEF CallInv, PlanInv
      <4>2. CASE rows'[q] = x
        BY <1>2, <1>14, <4>2
      <4>3. QED
        BY <1>16, <4>1, <4>2
    <3>2. QED
      BY <1>3, <1>6, <2>1, <3>1 DEF CallInv, PlanInv
  <2>3. LoopInv(c)'
    BY <1>3, <1>6 DEF CallInv, LoopInv
  <2>4. QED
    BY <2>2, <2>3
<1>18. WriteInv(c)'
  <2>1. \A i \in DOMAIN commands[c] : Wrote(c, commands[c][i])' =>
           \/ i \in DOMAIN outcome[c] /\ outcome[c][i] # "failed" /\ mayHave[c]
           \/ i = Position(c) /\ step[c] \in {"creating", "lost"}
    BY <1>3, <1>6, <1>14, <1>15, <1>16 DEF CallInv, WriteInv
  <2>2. ASSUME NEW q \in mail', q.call = c
        PROVE  \/ step[c] = "lost" /\ q.entry = Current(c)
               \/ stop[c] = "mutation_indeterminate" /\ q.entry = commands[c][Len(outcome[c])]
    <3>1. q \in mail /\ q # r /\ q \in [call : Call, entry : Entry]
      BY <1>0, <1>3, <2>2 DEF TypeOK
    <3>2. q = [call |-> q.call, entry |-> q.entry] /\ r = [call |-> r.call, entry |-> r.entry]
      BY <1>0, <3>1
    <3>3. CASE step[c] = "creating"
      <4>1. q.entry = Current(c)
        BY <1>6, <2>2, <3>1, <3>3 DEF CallInv, WriteInv, LoopInv
      <4>2. QED
        BY <1>8, <2>2, <3>1, <3>2, <3>3, <4>1
    <3>4. CASE step[c] # "creating"
      BY <1>6, <2>2, <3>1, <3>4 DEF CallInv, WriteInv
    <3>5. QED
      BY <3>3, <3>4
  <2>3. \A i \in DOMAIN outcome[c] : outcome[c][i] = "completed" => Wrote(c, commands[c][i])'
    BY <1>3, <1>6, <1>16 DEF CallInv, WriteInv
  <2>4. step[c] = "creating" => Wrote(c, Current(c))'
    BY <1>8, <1>16
  <2>5. QED
    BY <1>3, <1>16, <2>1, <2>2, <2>3, <2>4 DEF WriteInv
<1>19. LockInv(c)'
  BY <1>3, <1>5, <1>6, <1>14 DEF CallInv, LoopInv, LockInv, Holding
<1>20. RunStep(c)
  <2>1. Touched(c)' = Touched(c) \cup {k}
    <3>1. /\ Touched(c) = {i \in 1..Len(commands[c]) : Wrote(c, commands[c][i])}
          /\ Touched(c)' = {i \in 1..Len(commands[c]) : Wrote(c, commands[c][i])'}
      BY <1>3 DEF Touched, Wrote
    <3>2. QED
      BY <1>3, <1>13, <1>14, <1>15, <1>16, <3>1
  <2>2. Doing(c)' = Doing(c)
    BY <1>3 DEF Doing
  <2>3. step[c] \in {"creating", "lost"} => Doing(c) \in {"mutate", "lost"}
    BY DEF Doing
  <2>4. PlanRun(c)!Write
    BY <1>3, <1>14, <2>1, <2>2, <2>3 DEF PlanRun!Write, PlanRun!At, Position
  <2>5. QED
    BY <2>4 DEF RunStep, PlanRun!PlanNext
<1>21. ASSUME NEW d \in Call PROVE CallInv(d)' /\ RunStep(d)
  BY <1>12, <1>17, <1>18, <1>19, <1>20 DEF CallInv
<1>22. QED
  BY <1>9, <1>11, <1>21 DEF Sound, CamtInv

-----------------------------------------------------------------------------
(* A process dies with all of its calls. *)
LEMMA DieKeeps ==
  ASSUME CamtInv, NEW p \in Process, Die(p)
  PROVE  Sound
<1>1. TypeOK
  BY DEF CamtInv
<1>2. /\ UNCHANGED <<rows, mail, review, commands, outcome, mayHave, stop, mine, answer>>
      /\ holder' = IF holder # None /\ ProcOf[holder] = p THEN None ELSE holder
  BY DEF Die, engine
<1>3. ASSUME NEW c \in Call
      PROVE  step'[c] = IF ProcOf[c] # p \/ step[c] \in Ended THEN step[c]
                        ELSE IF step[c] \in {"create", "creating"} THEN "lost" ELSE "dead"
  BY DEF Die
<1>4. TypeOK'
  <2>1. ASSUME NEW c \in Call PROVE step'[c] \in Step
    BY <1>1, <1>3 DEF TypeOK, Step, Running
  <2>2. step' \in [Call -> Step]
    BY <2>1 DEF Die
  <2>3. QED
    BY <1>1, <1>2, <2>2 DEF TypeOK
<1>5. ASSUME NEW c \in Call, ProcOf[c] # p \/ step[c] \in Ended
      PROVE  CallInv(c)' /\ RunStep(c)
  <2>1. Idle(c)
    BY <1>2, <1>3, <1>5 DEF Idle
  <2>2. step[c] \in Holding => holder' = holder
    <3>1. step[c] \in Holding => holder = c /\ ProcOf[c] # p
      BY <1>5 DEF CamtInv, CallInv, LockInv, Holding, Ended
    <3>2. QED
      BY <1>2, <3>1
  <2>3. QED
    BY <1>2, <2>1, <2>2, IdleKeeps
<1>6. ASSUME NEW c \in Call, ~(ProcOf[c] # p \/ step[c] \in Ended)
      PROVE  CallInv(c)' /\ RunStep(c)
  <2>1. /\ step'[c] = IF step[c] \in {"create", "creating"} THEN "lost" ELSE "dead"
        /\ CallInv(c) /\ step[c] \in Step \ Ended
    BY <1>1, <1>3, <1>6 DEF CamtInv, TypeOK
  <2>2. /\ Rows' = Rows /\ (\A e : Wrote(c, e)' <=> Wrote(c, e)) /\ Current(c)' = Current(c)
        /\ Position(c)' = Position(c)
    BY <1>2 DEF Rows, Wrote, Current, Position
  <2>3. stop[c] = "none"
    BY <2>1 DEF CallInv, LoopInv, Ended
  <2>4. PlanInv(c)'
    BY <1>2, <2>1, <2>2 DEF CallInv, PlanInv, Before
  <2>5. LoopInv(c)'
    BY <1>2, <2>1, <2>3 DEF CallInv, LoopInv, Running, Holding
  <2>6. WriteInv(c)'
    BY <1>2, <2>1, <2>2, <2>3 DEF CallInv, WriteInv, Ended
  <2>7. LockInv(c)'
    BY <2>1 DEF LockInv, Holding
  <2>8. RunStep(c)
    <3>1. Touched(c)' = Touched(c)
      BY <1>2, <2>2 DEF Touched, Wrote
    <3>2. /\ Doing(c) \in {"idle", "prepare", "mutate"}
          /\ Doing(c)' = IF Doing(c) = "mutate" THEN "lost" ELSE "dead"
      BY <2>1 DEF Doing, Step, Before, Running, Holding, Ended
    <3>3. PlanRun(c)!Abandon
      BY <1>2, <3>1, <3>2 DEF PlanRun!Abandon
    <3>4. QED
      BY <3>3 DEF RunStep, PlanRun!PlanNext
  <2>9. QED
    BY <2>4, <2>5, <2>6, <2>7, <2>8 DEF CallInv
<1>7. ImportedOnce'
  BY <1>2 DEF CamtInv, ImportedOnce, Imported, Rows
<1>8. QED
  BY <1>4, <1>5, <1>6, <1>7 DEF Sound, CamtInv

LEMMA NextCamt == CamtInv /\ [Next]_vars => Sound
<1> SUFFICES ASSUME CamtInv, [Next]_vars PROVE Sound
  OBVIOUS
<1>1. CASE UNCHANGED vars
  BY <1>1, StillKeeps DEF vars
<1>2. ASSUME NEW c \in Call, \/ Preview(c) \/ ScopeUnavailable(c) \/ Consume(c)
                             \/ CallStep(c) \/ ReadFails(c) \/ ServiceStep(c)
      PROVE  Sound
  <2>1. CASE Preview(c) \/ Consume(c)
    BY <2>1, OpeningKeeps
  <2>2. CASE ScopeUnavailable(c)
    BY <2>2, StillKeeps DEF ScopeUnavailable
  <2>3. CASE Reproject(c)
    BY <2>3, ReprojectKeeps
  <2>4. CASE \/ NextRow(c) \/ Acquire(c) \/ LockBusy(c) \/ CheckRows(c) \/ CheckJournals(c)
             \/ ReadFails(c)
    BY <2>4, PreparationKeeps
  <2>5. CASE SendCreate(c)
    BY <2>5, SendKeeps
  <2>6. CASE CreateAnswered(c)
    BY <2>6, AnsweredKeeps
  <2>7. CASE CreateThrows(c)
    BY <2>7, ThrowsKeeps
  <2>8. CASE ServiceStep(c)
    <3>1. PICK r \in mail : Deliver(r) \/ Refuse(r)
      BY <2>8 DEF ServiceStep
    <3>2. CASE Deliver(r)
      BY <3>2, DeliverKeeps
    <3>3. CASE Refuse(r)
      BY <3>3, StillKeeps DEF Refuse
    <3>4. QED
      BY <3>1, <3>2, <3>3
  <2>9. QED
    BY <1>2, <2>1, <2>2, <2>3, <2>4, <2>5, <2>6, <2>7, <2>8 DEF CallStep
<1>3. ASSUME NEW e \in Entry, ForeignJournal(e) PROVE Sound
  BY <1>3, StillKeeps DEF ForeignJournal
<1>4. ASSUME NEW e \in Entry, NEW mark \in {"exact", "unclear"}, ForeignRow(e, mark) PROVE Sound
  BY <1>4, ForeignRowKeeps
<1>5. ASSUME NEW p \in Process, Die(p) PROVE Sound
  BY <1>5, DieKeeps
<1>6. QED
  BY <1>1, <1>2, <1>3, <1>4, <1>5 DEF Next

-----------------------------------------------------------------------------
(* What an execute has written is what its loop says, and under the row lock there is
   room for one more row until the row is written. *)
THEOREM CamtInvariant == Spec => []CamtInv
<1>1. Init => CamtInv
  BY InitCamt
<1>2. CamtInv /\ [Next]_vars => CamtInv'
  BY NextCamt DEF Sound
<1>3. QED
  BY <1>1, <1>2, PTL DEF Spec

(* However many executes run, in whatever processes and with whatever keys, an entry with
   a bank reference is imported once, and identical legs as often as the statement has them. *)
THEOREM EntriesImportedOnce == Spec => []ImportedOnce
<1>1. CamtInv => ImportedOnce
  BY DEF CamtInv
<1>2. QED
  BY <1>1, CamtInvariant, PTL

(* Every execute is a run of the shared loop of PlanExecution: rows in the order of the
   plan, each written at most once and none after a stop but the one called indeterminate. *)
THEOREM ExecutesRunPlans == Spec => ImplementsPlanRun
<1>1. Init => \A c \in Call : PlanRun(c)!PlanInit
  BY InitCamt
<1>2. CamtInv /\ [Next]_vars =>
         [\A c \in Call : [PlanRun(c)!PlanNext]_(PlanRun(c)!planVars)]_vars
  BY NextCamt DEF Sound, RunStep
<1>3. QED
  BY <1>1, <1>2, CamtInvariant, PTL DEF Spec, ImplementsPlanRun

(* The report of every execute that returned one tells the truth about the books. *)
THEOREM ImportReportsAreTrue == Spec => []ReportIsTrue
<1>1. CamtInv => ReportIsTrue
  <2> SUFFICES ASSUME CamtInv, NEW c \in Call
               PROVE  PlanRun(c)!ReportTellsTruth /\ PlanRun(c)!StopsAtTheFirst
    BY DEF ReportIsTrue
  <2>1. /\ outcome[c] \in Seq(Part) /\ commands[c] \in Seq(Entry) /\ mayHave[c] \in BOOLEAN
        /\ LoopInv(c) /\ WriteInv(c)
    BY DEF CamtInv, TypeOK, CallInv
  <2>2. /\ DOMAIN outcome[c] = 1..Len(outcome[c]) /\ DOMAIN commands[c] = 1..Len(commands[c])
        /\ Len(outcome[c]) \in Nat /\ Len(commands[c]) \in Nat
    BY <2>1
  <2>3. Touched(c) = {i \in 1..Len(commands[c]) : Wrote(c, commands[c][i])}
    BY DEF Touched, Wrote
  <2>4. Doing(c) = "over" => step[c] = "over"
    BY DEF Doing
  <2>5. step[c] = "over" => Doing(c) = "over"
    BY DEF Doing
  <2>6. PlanRun(c)!StopsAtTheFirst
    BY <2>1, <2>2, <2>4, <2>5 DEF PlanRun!StopsAtTheFirst, LoopInv
  <2>7. ASSUME step[c] = "over"
        PROVE  /\ PlanRun(c)!Reported("completed") \subseteq Touched(c)
               /\ Touched(c) \cap (PlanRun(c)!Reported("skipped") \cup PlanRun(c)!NotAttempted) = {}
               /\ (Touched(c) # {} => mayHave[c])
               /\ PlanRun(c)!Status \in {"plan_drift", "mutation_failed"} => Touched(c) = {}
    <3>1. \A i \in Touched(c) : i \in DOMAIN outcome[c] /\ outcome[c][i] # "failed" /\ mayHave[c]
      BY <2>1, <2>2, <2>3, <2>7 DEF WriteInv
    <3>2. PlanRun(c)!Reported("completed") \subseteq Touched(c)
      BY <2>1, <2>2, <2>3 DEF WriteInv, LoopInv, PlanRun!Reported
    <3>3. PlanRun(c)!Reported("skipped") = {} /\ Touched(c) \cap PlanRun(c)!NotAttempted = {}
      BY <2>1, <2>2, <3>1 DEF LoopInv, PlanRun!Reported, PlanRun!NotAttempted
    <3>4. PlanRun(c)!Status \in {"plan_drift", "mutation_failed"} => ~mayHave[c]
      BY DEF PlanRun!Status
    <3>5. QED
      BY <3>1, <3>2, <3>3, <3>4
  <2>8. QED
    BY <2>4, <2>6, <2>7 DEF PlanRun!ReportTellsTruth
<1>2. QED
  BY <1>1, CamtInvariant, PTL
=============================================================================
