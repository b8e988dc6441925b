--------------------- MODULE PurchaseInvoiceIntake_proofs ---------------------
(***************************************************************************)
(* Proofs about PurchaseInvoiceIntake: for any number of intakes on any    *)
(* ways, with any lost or late request and any work of the accountant, the *)
(* document is booked once, as reviewed, and the reports are true.         *)
(***************************************************************************)
EXTENDS PurchaseInvoiceIntake, TLAPS

InvoiceRow ==
    [by : Call \cup {"User"}, status : {"PROJECT", "CONFIRMED", "VOID"}, totals : BOOLEAN,
     file : BOOLEAN, edited : {"no", "before", "after"}, late : BOOLEAN,
     registrar : Call \cup {"User", "none"}]

Op == {"create", "totals", "upload", "register", "undo"}
Entered == {"queued", "send", "create", "look", "totals", "readback"}
Reviewed == {"reread", "review", "again", "rescan", "latest"}
Step == Entered \cup Reviewed \cup
        {"new", "upload", "verify", "attached", "register", "undo", "bankLook", "bankSend",
         "bankAfter", "over"}
Answer == {"none", "ok", "noId", "rejected", "lost"}
Outcome == {"none", "held", "unread", "noId", "refused", "unknown", "failed", "created",
            "keptDraft", "invalidated", "left", "notRegistered", "confirmed", "drifted",
            "registerFailed", "registerUnknown"}

TypeOK ==
    /\ invoices \in Seq(InvoiceRow)
    /\ mail \subseteq [call : Call, op : Op]
    /\ path \in [Call -> Path]
    /\ markers \subseteq Call /\ released \subseteq Call
    /\ step \in [Call -> Step] /\ draft \in [Call -> Nat]
    /\ answer \in [Call -> Answer] /\ outcome \in [Call -> Outcome]

(* The gate: a call waits for its turn, and creates in it. *)
GateInv ==
    /\ gate \in Seq(Call)
    /\ \A i \in DOMAIN gate : i > 1 => step[gate[i]] \in {"queued", "again"}
    /\ \A i, j \in DOMAIN gate : gate[i] = gate[j] => i = j
    /\ \A c \in Call : step[c] \in Entered => \E i \in DOMAIN gate : gate[i] = c
    /\ \A c \in Call : step[c] \in {"new", "review"} => \A i \in DOMAIN gate : gate[i] # c

HasCreated(c) == \E i \in DOMAIN invoices : invoices[i].by = c

(* What is in the books, or may still get there, although nobody waits for it. *)
Posted(c) == HasCreated(c) \/ (Requested(c, "create") /\ step[c] # "create")

WayInv(c) ==
    /\ outcome[c] # "none" => step[c] = "over"
    /\ step[c] \in {"bankLook", "bankSend", "bankAfter"} => path[c] = "bank"
    /\ step[c] \in Reviewed \cup {"upload", "verify", "attached"} => path[c] # "bank"

DraftInv(c) ==
    /\ draft[c] # 0 => draft[c] \in DOMAIN invoices /\ Draft(c).by = c
    /\ step[c] \notin {"new", "queued", "send", "create", "over"} => draft[c] # 0
    /\ outcome[c] \in {"invalidated", "created", "notRegistered", "confirmed"} => draft[c] # 0
    /\ \A op \in Op \ {"create"} : Requested(c, op) => draft[c] # 0
    /\ step[c] \in Op /\ answer[c] # "none" => ~Requested(c, step[c])

CreateInv(c) ==
    /\ \/ step[c] \in {"new", "queued", "send"}
       \/ outcome[c] \in {"held", "unread", "refused"}
       \/ Answered(c, "create", "rejected")
       => ~Requested(c, "create") /\ ~HasCreated(c)
    /\ Requested(c, "create") => ~HasCreated(c)
    /\ Answered(c, "create", "ok") => HasCreated(c)
    /\ path[c] = "reading" /\ Requested(c, "create") /\ step[c] # "create"
          => c \in markers \cup released

FillInv(c) ==
    /\ \/ Answered(c, "totals", "ok")
       \/ step[c] \in {"readback", "upload", "verify", "attached"} \cup Reviewed
       => Draft(c).totals
    /\ \/ Answered(c, "upload", "ok")
       \/ step[c] \in {"verify", "attached"} \cup Reviewed
       => Draft(c).file
    /\ outcome[c] \in {"created", "notRegistered", "confirmed"} /\ path[c] # "bank"
          => Draft(c).totals /\ Draft(c).file
    /\ path[c] # "bank" /\ (step[c] = "register" \/ Requested(c, "register"))
          => PastLook(c) /\ Draft(c).totals /\ Draft(c).file /\ Draft(c).edited # "before"

RegisterInv(c) ==
    /\ \/ step[c] \notin {"register", "undo", "bankAfter", "over"}
       \/ Answered(c, "register", "rejected")
       \/ outcome[c] \in {"keptDraft", "notRegistered", "registerFailed", "created"}
       => ~Requested(c, "register") /\ ~RegisteredBy(c)
    /\ Requested(c, "register") => ~RegisteredBy(c)
    /\ Answered(c, "register", "ok") \/ outcome[c] = "confirmed" => Draft(c).registrar # "none"
    /\ Answered(c, "undo", "ok") \/ outcome[c] = "invalidated"
          => ~Live(Draft(c)) \/ Draft(c).registrar # "none"

(* Between its scan and the answer to its create no other intake may create in time. *)
ScanInv(c) ==
    step[c] \in {"send", "create"} =>
        /\ \A i \in DOMAIN invoices :
              LET a == invoices[i] IN
              a.by \notin {c, "User"} /\ Recognizes(c, a.by) /\ Live(a) => a.late
        /\ path[c] = "reading" =>
              /\ markers = {}
              /\ \A d \in Call \ {c} : path[d] = "reading" /\ Posted(d) => d \in released

CallInv(c) == WayInv(c) /\ DraftInv(c) /\ CreateInv(c) /\ FillInv(c) /\ RegisterInv(c)

OnceInv ==
    \A i, j \in DOMAIN invoices :
        LET a == invoices[i]  b == invoices[j] IN
        /\ a.by # "User" /\ a.by = b.by => i = j
        /\ i < j /\ a.by # "User" /\ b.by # "User" /\ Recognizes(b.by, a.by) /\ Live(a) /\ Live(b)
              => a.late \/ b.late

RegistrarInv ==
    \A i \in DOMAIN invoices :
        LET d == invoices[i] IN
        /\ d.status = "CONFIRMED" => d.registrar # "none"
        /\ d.registrar \in Call /\ path[d.registrar] # "bank"
              => /\ d.by = d.registrar /\ d.totals /\ d.file /\ d.edited # "before"
                 /\ PastLook(d.by)

PostInv ==
    \A c, d \in Call :
        c # d /\ path[c] = "reading" /\ path[d] = "reading" /\ Posted(c) /\ Posted(d)
            => c \in released \/ d \in released

BooksInv == OnceInv /\ RegistrarInv /\ PostInv

IntakeInv ==
    /\ TypeOK /\ GateInv /\ BooksInv
    /\ \A c \in Call : CallInv(c) /\ ScanInv(c)

-----------------------------------------------------------------------------
LEMMA InitIntake == Init => IntakeInv
<1> SUFFICES ASSUME Init PROVE IntakeInv
  OBVIOUS
<1>1. TypeOK /\ GateInv
  BY IntakeAssumption DEF Init, TypeOK, GateInv, Step, Answer, Outcome, Entered
<1>2. /\ DOMAIN invoices = {} /\ mail = {} /\ \A c \in Call : ~HasCreated(c) /\ ~RegisteredBy(c)
      /\ \A c \in Call, op \in Op : ~Requested(c, op)
  BY DEF Init, HasCreated, RegisteredBy, Requested
<1>3. \A c \in Call : ~Posted(c)
  BY <1>2 DEF Posted, Op
<1>4. BooksInv
  BY <1>2, <1>3 DEF BooksInv, OnceInv, RegistrarInv, PostInv
<1>5. ASSUME NEW c \in Call PROVE CallInv(c) /\ ScanInv(c)
  <2>1. step[c] = "new" /\ answer[c] = "none" /\ outcome[c] = "none" /\ draft[c] = 0
    BY DEF Init
  <2>2. WayInv(c) /\ ScanInv(c)
    BY <2>1 DEF WayInv, ScanInv, Reviewed
  <2>3. DraftInv(c) /\ CreateInv(c)
    BY <1>2, <2>1 DEF DraftInv, CreateInv, Answered, Op
  <2>4. FillInv(c) /\ RegisterInv(c)
    BY <1>2, <2>1 DEF FillInv, RegisterInv, Answered, Op, Reviewed
  <2>5. QED
    BY <2>2, <2>3, <2>4 DEF CallInv
<1>6. QED
  BY <1>1, <1>4, <1>5 DEF IntakeInv

-----------------------------------------------------------------------------
(* The gate. *)
Front(c) == gate # << >> /\ gate[1] = c /\ Head(gate) = c

LEMMA CreatorInFront ==
  ASSUME GateInv, NEW c \in Call, step[c] \in Entered,
         step[c] # "queued" \/ Head(gate) = c
  PROVE  Front(c)
<1>1. PICK i \in DOMAIN gate : gate[i] = c
  BY DEF GateInv
<1>2. gate \in Seq(Call) /\ gate # << >> /\ Head(gate) = gate[1]
  BY <1>1 DEF GateInv
<1>3. step[c] # "queued" => i = 1
  BY <1>1, <1>2 DEF GateInv, Entered
<1>4. QED
  BY <1>1, <1>2, <1>3 DEF Front

(* Between its scan and its draft a call is the only one. *)
LEMMA OneCreates ==
  ASSUME GateInv, NEW c \in Call, NEW d \in Call,
         step[c] \in Entered \ {"queued"}, step[d] \in Entered \ {"queued"}
  PROVE  c = d
  BY CreatorInFront DEF Front

LEMMA SameGate ==
  ASSUME GateInv, step \in [Call -> Step], NEW c \in Call, NEW s, Goto(c, s), gate' = gate,
         s \notin {"new", "review"}, s \in Entered => step[c] \in Entered,
         step[c] \notin {"queued", "again"} \/ Head(gate) = c
  PROVE  GateInv'
<1>1. step'[c] = s /\ \A d \in Call \ {c} : step'[d] = step[d]
  BY DEF Goto
<1>2. \A i \in DOMAIN gate : gate[i] \in Call /\ (gate[i] = c => i = 1)
  BY DEF GateInv
<1>3. QED
  BY <1>1, <1>2 DEF GateInv

LEMMA JoinGate ==
  ASSUME GateInv, step \in [Call -> Step], NEW c \in Call, NEW s \in {"queued", "again"},
         step[c] \in {"new", "review"}, Goto(c, s), gate' = Append(gate, c)
  PROVE  GateInv'
<1>1. step'[c] = s /\ \A d \in Call \ {c} : step'[d] = step[d]
  BY DEF Goto
<1>2. /\ gate \in Seq(Call) /\ gate' \in Seq(Call) /\ Len(gate) \in Nat
      /\ DOMAIN gate = 1..Len(gate) /\ DOMAIN gate' = 1..(Len(gate) + 1)
      /\ gate'[Len(gate) + 1] = c /\ \A i \in 1..Len(gate) : gate'[i] = gate[i]
  BY DEF GateInv
<1>3. \A i \in 1..Len(gate) : gate[i] \in Call \ {c}
  BY <1>2 DEF GateInv
<1>4. ASSUME NEW i \in DOMAIN gate', i > 1 PROVE step'[gate'[i]] \in {"queued", "again"}
  <2>1. CASE i = Len(gate) + 1
    BY <1>1, <1>2, <2>1
  <2>2. CASE i # Len(gate) + 1
    <3>1. i \in DOMAIN gate /\ gate'[i] = gate[i] /\ gate[i] \in Call \ {c}
      BY <1>2, <1>3, <2>2
    <3>2. QED
      BY <1>1, <1>4, <3>1 DEF GateInv
  <2>3. QED
    BY <2>1, <2>2
<1>5. ASSUME NEW i \in DOMAIN gate', NEW j \in DOMAIN gate', gate'[i] = gate'[j] PROVE i = j
  <2>1. CASE i \in DOMAIN gate /\ j \in DOMAIN gate
    BY <1>2, <1>5, <2>1 DEF GateInv
  <2>2. CASE ~(i \in DOMAIN gate /\ j \in DOMAIN gate)
    BY <1>2, <1>3, <1>5, <2>2
  <2>3. QED
    BY <2>1, <2>2
<1>6. ASSUME NEW d \in Call, step'[d] \in Entered PROVE \E i \in DOMAIN gate' : gate'[i] = d
  <2>1. CASE d = c
    BY <1>2, <2>1
  <2>2. CASE d # c
    <3>1. PICK i \in DOMAIN gate : gate[i] = d
      BY <1>1, <1>6, <2>2 DEF GateInv
    <3>2. QED
      BY <1>2, <3>1
  <2>3. QED
    BY <2>1, <2>2
<1>7. ASSUME NEW d \in Call, step'[d] \in {"new", "review"}, NEW i \in DOMAIN gate'
      PROVE  gate'[i] # d
  <2>1. d # c /\ step[d] \in {"new", "review"}
    BY <1>1, <1>7
  <2>2. QED
    BY <1>2, <2>1 DEF GateInv
<1>8. QED
  BY <1>2, <1>4, <1>5, <1>6, <1>7 DEF GateInv

LEMMA LeaveGate ==
  ASSUME GateInv, step \in [Call -> Step], NEW c \in Call, NEW s, Goto(c, s), Leave(c),
         s \notin Entered \cup {"new"}, step[c] \notin {"queued", "again"} \/ Head(gate) = c
  PROVE  GateInv'
<1>1. step'[c] = s /\ \A d \in Call \ {c} : step'[d] = step[d]
  BY DEF Goto
<1>2. gate \in Seq(Call) /\ \A i \in DOMAIN gate : gate[i] \in Call /\ (gate[i] = c => i = 1)
  BY DEF GateInv
<1>3. CASE gate # << >> /\ Head(gate) = c
  <2>1. /\ gate' = Tail(gate) /\ gate' \in Seq(Call) /\ gate[1] = c
        /\ Len(gate) \in Nat \ {0} /\ DOMAIN gate = 1..Len(gate)
        /\ DOMAIN gate' = 1..(Len(gate) - 1)
        /\ \A i \in DOMAIN gate' : gate'[i] = gate[i + 1] /\ i + 1 \in DOMAIN gate
    BY <1>2, <1>3 DEF Leave
  <2>2. \A i \in DOMAIN gate' : gate'[i] \in Call \ {c}
    BY <1>2, <2>1
  <2>3. ASSUME NEW i \in DOMAIN gate', i > 1 PROVE step'[gate'[i]] \in {"queued", "again"}
    <3>1. gate'[i] = gate[i + 1] /\ i + 1 \in DOMAIN gate /\ i + 1 > 1 /\ gate[i + 1] \in Call \ {c}
      BY <2>1, <2>2
    <3>2. QED
      BY <1>1, <3>1 DEF GateInv
  <2>4. ASSUME NEW i \in DOMAIN gate', NEW j \in DOMAIN gate', gate'[i] = gate'[j] PROVE i = j
    <3>1. i + 1 = j + 1
      BY <2>1, <2>4 DEF GateInv
    <3>2. QED
      BY <2>1, <3>1
  <2>5. ASSUME NEW d \in Call, step'[d] \in Entered PROVE \E i \in DOMAIN gate' : gate'[i] = d
    <3>1. d # c /\ step[d] \in Entered
      BY <1>1, <2>5
    <3>2. PICK i \in DOMAIN gate : gate[i] = d
      BY <3>1 DEF GateInv
    <3>3. i - 1 \in DOMAIN gate' /\ gate'[i - 1] = gate[i]
      BY <2>1, <3>1, <3>2
    <3>4. QED
      BY <3>2, <3>3
  <2>6. ASSUME NEW d \in Call, step'[d] \in {"new", "review"}, NEW i \in DOMAIN gate'
        PROVE  gate'[i] # d
    <3>1. CASE d = c
      BY <2>2, <3>1
    <3>2. CASE d # c
      BY <1>1, <2>1, <2>6, <3>2 DEF GateInv
    <3>3. QED
      BY <3>1, <3>2
  <2>7. QED
    BY <2>1, <2>3, <2>4, <2>5, <2>6 DEF GateInv
<1>4. CASE ~(gate # << >> /\ Head(gate) = c)
  <2>1. gate' = gate /\ \A i \in DOMAIN gate : gate[i] # c
    BY <1>2, <1>4 DEF Leave
  <2>2. QED
    BY <1>1, <2>1 DEF GateInv
<1>5. QED
  BY <1>3, <1>4

-----------------------------------------------------------------------------
(* A step that leaves the books alone. *)
Still(d) ==
    /\ step'[d] = step[d] /\ draft'[d] = draft[d]
    /\ answer'[d] = answer[d] /\ outcome'[d] = outcome[d]

Same(c) ==
    /\ Draft(c)' = Draft(c) /\ HasCreated(c)' = HasCreated(c) /\ RegisteredBy(c)' = RegisteredBy(c)

LEMMA SameBooks ==
  ASSUME invoices' = invoices, NEW c \in Call, draft'[c] = draft[c]
  PROVE  Same(c)
  BY DEF Same, Draft, HasCreated, RegisteredBy

LEMMA StillCall ==
  ASSUME NEW d \in Call, CallInv(d), Still(d), Same(d), UNCHANGED <<invoices, path>>,
         \A op \in Op : Requested(d, op)' <=> Requested(d, op),
         markers \cup released \subseteq markers' \cup released'
  PROVE  CallInv(d)'
<1> USE DEF Still, Same
<1>1. WayInv(d)'
  BY DEF CallInv, WayInv
<1>2. DraftInv(d)'
  <2>1. step[d] \in Op => (Requested(d, step[d])' <=> Requested(d, step[d]))
    OBVIOUS
  <2>2. QED
    BY <2>1 DEF CallInv, DraftInv
<1>3. CreateInv(d)'
  BY DEF CallInv, CreateInv, Answered, Op
<1>4. FillInv(d)'
  BY DEF CallInv, FillInv, Answered, PastLook, Op
<1>5. RegisterInv(d)'
  BY DEF CallInv, RegisterInv, Answered, Op
<1>6. QED
  BY <1>1, <1>2, <1>3, <1>4, <1>5 DEF CallInv

LEMMA SameMail ==
  ASSUME TypeOK, NEW c \in Call, NEW s,
         mail' = mail \/ (s \in Op /\ mail' = mail \cup {[call |-> c, op |-> s]}),
         NEW d \in Call, NEW op
  PROVE  /\ Requested(d, op)' => Requested(d, op) \/ (d = c /\ op = s)
         /\ Requested(d, op) => Requested(d, op)'
  BY DEF Requested

LEMMA QuietStep ==
  ASSUME IntakeInv, NEW c \in Call, UNCHANGED <<invoices, path, released>>,
         \A d \in Call \ {c} : Still(d),
         mail' = mail \/ (step'[c] \in Op /\ mail' = mail \cup {[call |-> c, op |-> step'[c]]}),
         markers \subseteq markers',
         markers' = markers \/ step[c] \in {"create", "readback"},
         TypeOK', GateInv', CallInv(c)', ScanInv(c)', PastLook(c) => PastLook(c)'
  PROVE  IntakeInv'
<1>1. \A d \in Call, op \in Op :
         /\ Requested(d, op)' => Requested(d, op) \/ (d = c /\ op = step'[c])
         /\ Requested(d, op) => Requested(d, op)'
  BY SameMail DEF IntakeInv
<1>2. \A d \in Call : /\ HasCreated(d)' = HasCreated(d)
                      /\ d # c => step'[d] = step[d] /\ (Posted(d)' <=> Posted(d))
                      /\ Posted(d)' => Posted(d) \/ (d = c /\ step[c] = "create")
  BY <1>1 DEF HasCreated, Posted, Still, Op
<1>3. step[c] \in {"create", "readback"} =>
         \A d \in Call \ {c} : step'[d] \notin {"send", "create"}
  <2> SUFFICES ASSUME step[c] \in {"create", "readback"}, NEW d \in Call \ {c},
                      step[d] \in {"send", "create"}
               PROVE  FALSE
    BY <1>2
  <2>1. step[c] \in Entered \ {"queued"} /\ step[d] \in Entered \ {"queued"}
    BY DEF Entered
  <2>2. QED
    BY <2>1, OneCreates DEF IntakeInv
<1>4. ASSUME NEW d \in Call \ {c} PROVE CallInv(d)' /\ ScanInv(d)'
  <2>1. CallInv(d) /\ ScanInv(d) /\ Still(d) /\ d \in Call
    BY DEF IntakeInv
  <2>2. Same(d)
    BY <2>1, SameBooks DEF Still
  <2>3. CallInv(d)'
    BY <1>1, <2>1, <2>2, StillCall
  <2>4. ScanInv(d)'
    <3>1. CASE step[c] \in {"create", "readback"}
      BY <1>3, <3>1 DEF ScanInv
    <3>2. CASE step[c] \notin {"create", "readback"}
      <4>1. markers' = markers /\ step'[d] = step[d] /\ \A e \in Call : Posted(e)' => Posted(e)
        BY <1>2, <2>1, <3>2 DEF Still
      <4>2. QED
        BY <2>1, <4>1 DEF ScanInv, Recognizes
    <3>3. QED
      BY <3>1, <3>2
  <2>5. QED
    BY <2>3, <2>4
<1>5. \A d \in Call : PastLook(d) => PastLook(d)'
  BY DEF PastLook, Still
<1>6. OnceInv' /\ RegistrarInv'
  <2>1. invoices \in Seq(InvoiceRow) /\ OnceInv /\ RegistrarInv
    BY DEF IntakeInv, TypeOK, BooksInv
  <2>2. OnceInv'
    BY <2>1 DEF OnceInv, Recognizes
  <2>3. RegistrarInv'
    BY <1>5, <2>1 DEF RegistrarInv
  <2>4. QED
    BY <2>2, <2>3
<1>7. PostInv'
  <2> SUFFICES ASSUME NEW d \in Call, NEW e \in Call, d # e, path[d] = "reading",
                      path[e] = "reading", Posted(d)', Posted(e)'
               PROVE  d \in released \/ e \in released
    BY DEF PostInv
  <2>1. CASE Posted(d) /\ Posted(e)
    BY <2>1 DEF IntakeInv, BooksInv, PostInv
  <2>2. CASE d = c /\ step[c] = "create" /\ Posted(e)
    BY <2>2 DEF IntakeInv, ScanInv
  <2>3. CASE e = c /\ step[c] = "create" /\ Posted(d)
    BY <2>3 DEF IntakeInv, ScanInv
  <2>4. QED
    BY <1>2, <2>1, <2>2, <2>3
<1>8. QED
  BY <1>4, <1>6, <1>7 DEF IntakeInv, BooksInv

(* The next step of a call, which asks for nothing: what it must have shown before. *)
LEMMA GoesKeeps ==
  ASSUME IntakeInv, NEW c \in Call,
         NEW s \in {"send", "readback", "bankLook", "reread", "verify", "review", "rescan",
                    "latest", "attached", "bankSend", "bankAfter"},
         Goto(c, s), UNCHANGED <<invoices, path, released, mail, markers, draft, answer, outcome>>,
         gate' = gate \/ Leave(c),
         step[c] \notin {"new", "create", "over"},
         step[c] \notin {"queued", "again"} \/ Head(gate) = c,
         s \in {"send", "readback"} => gate' = gate /\ step[c] \in Entered,
         s = "review" => Leave(c),
         s = "send" => step[c] = "queued" /\ ScanInv(c)',
         s # "send" => draft[c] # 0,
         s \in {"bankLook", "bankSend", "bankAfter"} => path[c] = "bank",
         s \in {"verify", "attached"} \cup Reviewed => path[c] # "bank",
         s \in {"readback", "verify", "attached"} \cup Reviewed => Draft(c).totals,
         s \in {"verify", "attached"} \cup Reviewed => Draft(c).file,
         s # "bankAfter" => step[c] \notin {"register", "undo", "bankAfter", "over"},
         PastLook(c) => s \in {"bankSend", "bankAfter"}
  PROVE  IntakeInv'
<1>0. TypeOK /\ GateInv /\ CallInv(c) /\ step[c] # "over"
  BY DEF IntakeInv
<1>1. step'[c] = s /\ \A d \in Call \ {c} : step'[d] = step[d]
  BY <1>0 DEF Goto, TypeOK
<1>2. \A d \in Call \ {c} : Still(d)
  BY <1>1 DEF Still
<1>3. s \in Step /\ s \notin Op /\ s \notin {"new", "over"}
  BY DEF Step, Op, Entered, Reviewed
<1>4. TypeOK'
  BY <1>0, <1>3 DEF TypeOK, Goto
<1>5. GateInv'
  <2>1. CASE gate' = gate /\ s # "review"
    BY <1>0, <1>3, <2>1, SameGate DEF Entered, TypeOK
  <2>2. CASE Leave(c) /\ s \notin {"send", "readback"}
    <3>1. s \notin Entered \cup {"new"}
      BY <2>2 DEF Entered
    <3>2. QED
      BY <1>0, <2>2, <3>1, LeaveGate DEF TypeOK
  <2>3. QED
    BY <2>1, <2>2
<1>6. /\ Same(c)
      /\ \A op : Requested(c, op)' = Requested(c, op)
      /\ answer'[c] = answer[c] /\ outcome'[c] = outcome[c] /\ draft'[c] = draft[c]
      /\ path'[c] = path[c] /\ outcome[c] = "none"
  <2>1. \A op : Requested(c, op)' = Requested(c, op)
    BY DEF Requested
  <2>2. outcome[c] = "none"
    BY <1>0 DEF CallInv, WayInv
  <2>3. QED
    BY <2>1, <2>2, SameBooks
<1>7. CallInv(c)'
  <2>1. WayInv(c)'
    BY <1>1, <1>6 DEF WayInv
  <2>2. DraftInv(c)'
    BY <1>0, <1>1, <1>3, <1>6 DEF CallInv, DraftInv, Same
  <2>3. CreateInv(c)'
    BY <1>0, <1>1, <1>6 DEF CallInv, CreateInv, Same, Answered
  <2>4. RegisterInv(c)'
    BY <1>0, <1>1, <1>6 DEF CallInv, RegisterInv, Same, Answered
  <2>5. FillInv(c)'
    <3>1. path[c] # "bank" => ~Requested(c, "register")
      BY <1>0 DEF CallInv, RegisterInv
    <3>2. QED
      BY <1>0, <1>1, <1>6, <3>1 DEF CallInv, FillInv, Same, Answered
  <2>6. QED
    BY <2>1, <2>2, <2>3, <2>4, <2>5 DEF CallInv
<1>8. ScanInv(c)'
  BY <1>1 DEF ScanInv
<1>9. PastLook(c) => PastLook(c)'
  BY <1>1 DEF PastLook
<1>10. QED
  BY <1>2, <1>4, <1>5, <1>7, <1>8, <1>9, QuietStep

(* A request of a call. *)
LEMMA SendsKeeps ==
  ASSUME IntakeInv, NEW c \in Call, NEW op \in Op, Send(c, op),
         UNCHANGED <<invoices, path, released, markers, draft, outcome, gate>>,
         step[c] \notin {"new", "create", "undo", "bankAfter", "over"},
         step[c] \notin {"queued", "again"} \/ Head(gate) = c,
         op = "create" => step[c] = "send",
         op = "totals" => step[c] \in Entered,
         op # "create" => draft[c] # 0 /\ step[c] # "send",
         op \in {"create", "totals", "upload", "register"} =>
            step[c] \notin {"register", "undo", "bankAfter", "over"},
         op = "upload" => path[c] # "bank" /\ Draft(c).totals,
         op = "register" /\ path[c] # "bank" =>
            Draft(c).totals /\ Draft(c).file /\ Draft(c).edited # "before",
         PastLook(c) => op \in {"register", "undo"}
  PROVE  IntakeInv'
<1>0. TypeOK /\ GateInv /\ CallInv(c) /\ ScanInv(c)
  BY DEF IntakeInv
<1>1. /\ Goto(c, op) /\ step'[c] = op /\ \A d \in Call \ {c} : step'[d] = step[d]
      /\ answer' = [answer EXCEPT ![c] = "none"] /\ answer'[c] = "none"
      /\ mail' = mail \cup {[call |-> c, op |-> op]}
  BY <1>0 DEF Send, Goto, TypeOK
<1>2. \A d \in Call \ {c} : Still(d)
  BY <1>0, <1>1 DEF Still, TypeOK
<1>3. op \in Step /\ op \notin {"new", "review", "queued", "again", "over"}
  BY DEF Step, Op, Entered
<1>4. TypeOK'
  BY <1>0, <1>1, <1>3 DEF TypeOK, Goto, Answer
<1>5. GateInv'
  <2>1. op \in Entered => step[c] \in Entered
    BY DEF Entered, Op
  <2>2. QED
    BY <1>0, <1>1, <1>3, <2>1, SameGate DEF TypeOK
<1>6. /\ Same(c) /\ outcome'[c] = outcome[c] /\ draft'[c] = draft[c] /\ outcome[c] = "none"
      /\ \A o \in Op : Requested(c, o)' <=> (Requested(c, o) \/ o = op)
  <2>1. \A o \in Op : Requested(c, o)' <=> (Requested(c, o) \/ o = op)
    <3>1. PICK q : q = [call |-> c, op |-> op]
      OBVIOUS
    <3>2. mail' = mail \cup {q} /\ q.call = c /\ q.op = op
      BY <1>1, <3>1
    <3>3. QED
      BY <3>2 DEF Requested
  <2>2. outcome[c] = "none"
    BY <1>0 DEF CallInv, WayInv
  <2>3. QED
    BY <2>1, <2>2, SameBooks
<1>7. CallInv(c)'
  <2>1. WayInv(c)'
    BY <1>1, <1>3, <1>6 DEF WayInv, Op, Reviewed
  <2>2. DraftInv(c)'
    BY <1>0, <1>1, <1>3, <1>6 DEF CallInv, DraftInv, Same
  <2>3. CreateInv(c)'
    <3>1. op # "create" /\ path[c] = "reading" /\ Requested(c, "create") =>
             c \in markers \cup released
      BY <1>0 DEF CallInv, CreateInv
    <3>2. op = "create" => ~Requested(c, "create") /\ ~HasCreated(c)
      BY <1>0 DEF CallInv, CreateInv
    <3>3. QED
      BY <1>0, <1>1, <1>3, <1>6, <3>1, <3>2 DEF CallInv, CreateInv, Same, Answered, Op
  <2>4. RegisterInv(c)'
    <3>1. op \in {"create", "totals", "upload", "register"} =>
             ~Requested(c, "register") /\ ~RegisteredBy(c)
      BY <1>0 DEF CallInv, RegisterInv
    <3>2. QED
      BY <1>0, <1>1, <1>3, <1>6, <3>1 DEF CallInv, RegisterInv, Same, Answered, Op
  <2>5. FillInv(c)'
    <3>1. op \in {"create", "totals", "upload", "register"} => ~Requested(c, "register")
      BY <1>0 DEF CallInv, RegisterInv
    <3>2. PastLook(c)' <=> op \in {"register", "undo"}
      BY <1>1 DEF PastLook, Op
    <3>3. op = "undo" /\ path[c] # "bank" /\ Requested(c, "register") =>
             Draft(c).totals /\ Draft(c).file /\ Draft(c).edited # "before"
      BY <1>0 DEF CallInv, FillInv
    <3>4. op \notin {"readback", "verify", "attached"} \cup Reviewed /\ "register" \in Op
      BY DEF Op, Reviewed
    <3>5. QED
      BY <1>0, <1>1, <1>6, <3>1, <3>2, <3>3, <3>4 DEF FillInv, Same, Answered, Op
  <2>6. QED
    BY <2>1, <2>2, <2>3, <2>4, <2>5 DEF CallInv
<1>8. ScanInv(c)'
  <2>1. CASE op = "create"
    <3>1. \A d \in Call \ {c} : Posted(d)' => Posted(d)
      BY <1>1 DEF Posted, HasCreated, Requested
    <3>2. QED
      BY <1>0, <1>1, <2>1, <3>1 DEF ScanInv, Recognizes
  <2>2. CASE op # "create"
    BY <1>1, <1>3, <2>2 DEF ScanInv, Op
  <2>3. QED
    BY <2>1, <2>2
<1>9. PastLook(c) => PastLook(c)'
  BY <1>1 DEF PastLook
<1>10. QED
  BY <1>1, <1>2, <1>4, <1>5, <1>7, <1>8, <1>9, QuietStep

(* The end of a call: what it must have shown for what it reports. *)
LEMMA EndsKeeps ==
  ASSUME IntakeInv, NEW c \in Call, NEW o \in Outcome, End(c, o),
         UNCHANGED <<invoices, path, released, mail, draft, answer>>,
         \/ markers' = markers
         \/ markers' = markers \cup {c} /\ step[c] \in {"create", "readback"},
         step[c] \notin {"queued", "again"} \/ Head(gate) = c,
         o \in {"invalidated", "created", "notRegistered", "confirmed"} => draft[c] # 0,
         o \in {"held", "unread", "refused"} => ~Requested(c, "create") /\ ~HasCreated(c),
         step[c] = "create" /\ path[c] = "reading" /\ Requested(c, "create") => c \in markers',
         o \in {"created", "notRegistered", "confirmed"} /\ path[c] # "bank" =>
            Draft(c).totals /\ Draft(c).file,
         o \in {"keptDraft", "notRegistered", "registerFailed", "created"} =>
            ~Requested(c, "register") /\ ~RegisteredBy(c),
         o = "confirmed" => Draft(c).registrar # "none",
         o = "invalidated" => ~Live(Draft(c)) \/ Draft(c).registrar # "none"
  PROVE  IntakeInv'
<1>0. TypeOK /\ GateInv /\ CallInv(c)
  BY DEF IntakeInv
<1>1. /\ Goto(c, "over") /\ Leave(c) /\ step'[c] = "over" /\ outcome'[c] = o
      /\ \A d \in Call \ {c} : step'[d] = step[d] /\ outcome'[d] = outcome[d]
      /\ outcome' = [outcome EXCEPT ![c] = o]
  BY <1>0 DEF End, Goto, TypeOK
<1>2. \A d \in Call \ {c} : Still(d)
  BY <1>1 DEF Still
<1>3. TypeOK'
  BY <1>0, <1>1 DEF TypeOK, Goto, Step
<1>4. GateInv'
  <2>1. "over" \notin Entered \cup {"new"}
    BY DEF Entered
  <2>2. QED
    BY <1>0, <1>1, <2>1, LeaveGate DEF TypeOK
<1>5. /\ Same(c) /\ answer'[c] = answer[c] /\ draft'[c] = draft[c]
      /\ \A op : Requested(c, op)' = Requested(c, op)
  <2>1. \A op : Requested(c, op)' = Requested(c, op)
    BY DEF Requested
  <2>2. QED
    BY <2>1, SameBooks
<1>6. CallInv(c)'
  <2>1. WayInv(c)'
    BY <1>1 DEF WayInv, Reviewed
  <2>2. DraftInv(c)'
    BY <1>0, <1>1, <1>5 DEF CallInv, DraftInv, Same, Op
  <2>3. CreateInv(c)'
    <3>1. path[c] = "reading" /\ Requested(c, "create") => c \in markers' \cup released'
      BY <1>0 DEF CallInv, CreateInv
    <3>2. QED
      BY <1>0, <1>1, <1>5, <3>1 DEF CallInv, CreateInv, Same, Answered
  <2>4. RegisterInv(c)'
    BY <1>0, <1>1, <1>5 DEF CallInv, RegisterInv, Same, Answered
  <2>5. FillInv(c)'
    <3>1. PastLook(c)'
      BY <1>1 DEF PastLook
    <3>2. QED
      BY <1>0, <1>1, <1>5, <3>1 DEF CallInv, FillInv, Same, Answered, Reviewed
  <2>6. QED
    BY <2>1, <2>2, <2>3, <2>4, <2>5 DEF CallInv
<1>7. ScanInv(c)'
  BY <1>1 DEF ScanInv
<1>8. PastLook(c) => PastLook(c)'
  BY <1>1 DEF PastLook
<1>9. QED
  BY <1>2, <1>3, <1>4, <1>6, <1>7, <1>8, QuietStep

-----------------------------------------------------------------------------
(* The steps of the calls. *)
LEMMA JoinsKeeps ==
  ASSUME IntakeInv, NEW c \in Call, Enqueue(c) \/ Approve(c)
  PROVE  IntakeInv'
<1>0. TypeOK /\ GateInv /\ CallInv(c)
  BY DEF IntakeInv
<1>1. PICK s \in {"queued", "again"} :
         /\ Goto(c, s) /\ gate' = Append(gate, c) /\ step[c] \in {"new", "review"}
         /\ s = "queued" <=> step[c] = "new"
  BY DEF Enqueue, Approve
<1>2. UNCHANGED <<invoices, path, released, mail, markers, draft, answer, outcome>>
  BY DEF Enqueue, Approve, Quiet
<1>3. step'[c] = s /\ \A d \in Call \ {c} : Still(d)
  BY <1>0, <1>1, <1>2 DEF Still, Goto, TypeOK
<1>4. TypeOK' /\ GateInv'
  <2>1. TypeOK'
    BY <1>0, <1>1, <1>2 DEF TypeOK, Goto, Step, Entered, Reviewed
  <2>2. QED
    BY <1>0, <1>1, <2>1, JoinGate DEF TypeOK
<1>5. Same(c) /\ \A op : Requested(c, op)' = Requested(c, op)
  BY <1>2, SameBooks DEF Requested
<1>6. CallInv(c)'
  <2>1. WayInv(c)' /\ DraftInv(c)' /\ CreateInv(c)'
    BY <1>0, <1>1, <1>2, <1>3, <1>5
       DEF CallInv, WayInv, DraftInv, CreateInv, Same, Answered, Op, Reviewed
  <2>2. FillInv(c)' /\ RegisterInv(c)'
    BY <1>0, <1>1, <1>2, <1>3, <1>5
       DEF CallInv, FillInv, RegisterInv, Same, Answered, PastLook, Reviewed
  <2>3. QED
    BY <2>1, <2>2 DEF CallInv
<1>7. ScanInv(c)' /\ ~PastLook(c)
  BY <1>1, <1>3 DEF ScanInv, PastLook
<1>8. QED
  BY <1>2, <1>3, <1>4, <1>6, <1>7, QuietStep

(* What a call in the gate has not done yet. *)
LEMMA Before ==
  ASSUME IntakeInv, NEW c \in Call
  PROVE  /\ step[c] \in {"new", "queued", "send"} => ~Requested(c, "create") /\ ~HasCreated(c)
         /\ step[c] \notin {"register", "undo", "bankAfter", "over"} =>
               ~Requested(c, "register") /\ ~RegisteredBy(c)
         /\ step[c] \notin {"new", "queued", "send", "create", "over"} => draft[c] # 0
  BY DEF IntakeInv, CallInv, DraftInv, CreateInv, RegisterInv

LEMMA ScanKeeps ==
  ASSUME IntakeInv, NEW c \in Call, Scan(c) \/ ScanFails(c)
  PROVE  IntakeInv'
<1>1. /\ step[c] = "queued" /\ Head(gate) = c
      /\ UNCHANGED <<invoices, path, released, mail, markers, draft, answer>>
  BY DEF Scan, ScanFails, Enter, Quiet
<1>2. ~Requested(c, "create") /\ ~HasCreated(c) /\ {"held", "unread"} \subseteq Outcome
  BY <1>1, Before DEF Outcome
<1>3. ASSUME NEW o \in {"held", "unread"}, End(c, o) PROVE IntakeInv'
  BY <1>1, <1>2, <1>3, EndsKeeps
<1>4. CASE /\ Goto(c, "send") /\ UNCHANGED <<gate, outcome>>
           /\ ~DuplicateFound(c) /\ (path[c] = "reading" => markers = {})
  <2>1. \A i \in DOMAIN invoices :
           /\ invoices[i].by # c
           /\ path[c] = "reading" => invoices[i].by \in {c}
           /\ invoices[i].by \notin {c, "User"} /\ Recognizes(c, invoices[i].by)
                 => ~Live(invoices[i])
    BY <1>2, <1>4 DEF DuplicateFound, HasCreated, Recognizes
  <2>2. path[c] = "reading" => \A d \in Call \ {c} : path[d] = "reading" /\ Posted(d) => d \in released
    <3> SUFFICES ASSUME path[c] = "reading", NEW d \in Call \ {c}, path[d] = "reading", Posted(d)
                 PROVE  d \in released
      OBVIOUS
    <3>1. ~HasCreated(d)
      BY <2>1 DEF HasCreated
    <3>2. Requested(d, "create") /\ step[d] # "create"
      BY <3>1 DEF Posted
    <3>3. d \in markers \cup released
      BY <3>2 DEF IntakeInv, CallInv, CreateInv
    <3>4. QED
      BY <1>4, <3>3
  <2>3. \A d \in Call \ {c} : Posted(d)' => Posted(d)
    BY <1>1, <1>4 DEF Posted, HasCreated, Requested, Goto, IntakeInv, TypeOK
  <2>4. ScanInv(c)'
    BY <1>1, <1>4, <2>1, <2>2, <2>3 DEF ScanInv, Recognizes
  <2>5. step[c] \in Entered /\ ~PastLook(c) /\ "send" \notin Reviewed
    BY <1>1 DEF Entered, PastLook, Reviewed
  <2>6. QED
    BY <1>1, <1>4, <2>4, <2>5, GoesKeeps
<1>5. QED
  BY <1>3, <1>4 DEF Scan, ScanFails

LEMMA SendCreateKeeps ==
  ASSUME IntakeInv, NEW c \in Call, SendCreate(c)
  PROVE  IntakeInv'
<1>1. "create" \in Op /\ ~PastLook(c)
  BY DEF Op, PastLook, SendCreate
<1>2. QED
  BY <1>1, SendsKeeps DEF SendCreate, Quiet, guards

LEMMA CreatedKeeps ==
  ASSUME IntakeInv, NEW c \in Call, Created(c)
  PROVE  IntakeInv'
<1>0. TypeOK /\ GateInv /\ CallInv(c)
  BY DEF IntakeInv
<1>1. /\ Goto(c, "look") /\ step[c] = "create" /\ answer[c] = "ok"
      /\ UNCHANGED <<invoices, path, released, mail, gate, markers, answer, outcome>>
  BY DEF Created, Quiet, Answered
<1>2. PICK i \in DOMAIN invoices : invoices[i].by = c /\ draft' = [draft EXCEPT ![c] = i]
  <2>1. \E i \in DOMAIN invoices : invoices[i].by = c
    BY <1>0, <1>1 DEF CallInv, CreateInv, Answered, HasCreated
  <2>2. QED
    BY <2>1 DEF Created
<1>3. /\ step'[c] = "look" /\ draft'[c] = i /\ i \in Nat \ {0} /\ outcome[c] = "none"
      /\ \A d \in Call \ {c} : Still(d)
  BY <1>0, <1>1, <1>2 DEF Still, Goto, TypeOK, CallInv, WayInv
<1>4. TypeOK'
  BY <1>0, <1>1, <1>2, <1>3 DEF TypeOK, Goto, Step, Entered
<1>5. GateInv'
  BY <1>0, <1>1, SameGate DEF Entered, TypeOK
<1>6. \A op : Requested(c, op)' = Requested(c, op)
  BY <1>1 DEF Requested
<1>7. ~Requested(c, "create") /\ ~Requested(c, "register") /\ ~RegisteredBy(c)
  BY <1>0, <1>1 DEF CallInv, DraftInv, RegisterInv, Op
<1>8. CallInv(c)'
  <2>1. WayInv(c)' /\ DraftInv(c)' /\ CreateInv(c)'
    BY <1>1, <1>2, <1>3, <1>6, <1>7
       DEF WayInv, DraftInv, CreateInv, Draft, Answered, Reviewed, Op
  <2>2. FillInv(c)' /\ RegisterInv(c)'
    BY <1>1, <1>3, <1>6, <1>7 DEF FillInv, RegisterInv, RegisteredBy, Answered, Reviewed
  <2>3. QED
    BY <2>1, <2>2 DEF CallInv
<1>9. ScanInv(c)' /\ ~PastLook(c)
  BY <1>1, <1>3 DEF ScanInv, PastLook
<1>10. QED
  BY <1>1, <1>3, <1>4, <1>5, <1>8, <1>9, QuietStep

LEMMA CreateFailsKeeps ==
  ASSUME IntakeInv, NEW c \in Call, CreateFails(c)
  PROVE  IntakeInv'
<1>0. CallInv(c)
  BY DEF IntakeInv
<1>1. step[c] = "create" /\ UNCHANGED <<invoices, path, released, mail, draft, answer>>
  BY DEF CreateFails, Quiet, Answered, Unanswered
<1>2. {"noId", "refused", "unknown"} \subseteq Outcome
  BY DEF Outcome
<1>3. answer[c] # "none" => ~Requested(c, "create")
  BY <1>0, <1>1 DEF CallInv, DraftInv, Op
<1>4. CASE Answered(c, "create", "noId") /\ End(c, "noId") /\ markers' = markers
  BY <1>1, <1>2, <1>3, <1>4, EndsKeeps DEF Answered
<1>5. CASE Answered(c, "create", "rejected") /\ End(c, "refused") /\ markers' = markers
  <2>1. ~Requested(c, "create") /\ ~HasCreated(c)
    BY <1>0, <1>5 DEF CallInv, CreateInv
  <2>2. QED
    BY <1>1, <1>2, <1>5, <2>1, EndsKeeps
<1>6. CASE End(c, "unknown") /\ AddMarker(c)
  <2>1. /\ markers' = markers \/ markers' = markers \cup {c}
        /\ path[c] = "reading" => c \in markers'
    BY <1>6 DEF AddMarker
  <2>2. QED
    BY <1>1, <1>2, <1>6, <2>1, EndsKeeps
<1>7. QED
  BY <1>4, <1>5, <1>6 DEF CreateFails

(* What a call has filled in where it stands. *)
LEMMA Filled ==
  ASSUME IntakeInv, NEW c \in Call
  PROVE  /\ Answered(c, "totals", "ok") => Draft(c).totals
         /\ step[c] \in {"readback", "upload", "verify", "attached"} \cup Reviewed => Draft(c).totals
         /\ Answered(c, "upload", "ok") => Draft(c).file
         /\ step[c] \in {"verify", "attached"} \cup Reviewed => Draft(c).file
         /\ step[c] \in {"upload", "verify", "attached"} \cup Reviewed => path[c] # "bank"
         /\ step[c] = "register" /\ path[c] # "bank" =>
               Draft(c).totals /\ Draft(c).file /\ Draft(c).edited # "before"
         /\ step[c] \in {"bankLook", "bankSend", "bankAfter"} => path[c] = "bank"
  BY DEF IntakeInv, CallInv, FillInv, WayInv

LEMMA TotalsKeeps ==
  ASSUME IntakeInv, NEW c \in Call, FirstRead(c) \/ TotalsSet(c) \/ TotalsFail(c)
  PROVE  IntakeInv'
<1>1. /\ step[c] \in {"look", "totals"}
      /\ UNCHANGED <<invoices, path, released, markers, draft, outcome, gate>>
  BY DEF FirstRead, TotalsSet, TotalsFail, Quiet, Answered, Unanswered, guards
<1>2. draft[c] # 0 /\ ~PastLook(c) /\ step[c] \in Entered
  BY <1>1, Before DEF PastLook, Entered
<1>3. ASSUME NEW op \in {"totals", "undo"}, Send(c, op) PROVE IntakeInv'
  <2>1. op \in Op
    BY DEF Op
  <2>2. QED
    BY <1>1, <1>2, <1>3, <2>1, SendsKeeps
<1>4. CASE TotalsSet(c)
  <2>1. Draft(c).totals /\ "readback" \notin Reviewed
    BY <1>4, Filled DEF TotalsSet, Reviewed
  <2>2. Goto(c, "readback") /\ UNCHANGED <<mail, answer>>
    BY <1>4 DEF TotalsSet
  <2>3. QED
    BY <1>1, <1>2, <2>1, <2>2, GoesKeeps
<1>5. QED
  BY <1>3, <1>4 DEF FirstRead, TotalsFail

LEMMA ReadBackKeeps ==
  ASSUME IntakeInv, NEW c \in Call, ReadBack(c) \/ ReadBackFails(c)
  PROVE  IntakeInv'
<1>1. step[c] = "readback" /\ UNCHANGED <<invoices, path, released, draft>>
  BY DEF ReadBack, ReadBackFails, Quiet
<1>2. /\ draft[c] # 0 /\ ~PastLook(c) /\ Draft(c).totals
      /\ {"upload", "undo"} \subseteq Op /\ {"failed", "unknown"} \subseteq Outcome
      /\ "bankLook" \notin Reviewed
  BY <1>1, Before, Filled DEF PastLook, Op, Outcome, Reviewed
<1>3. CASE Leave(c) /\ Goto(c, "bankLook") /\ path[c] = "bank" /\ UNCHANGED <<mail, answer, markers, outcome>>
  BY <1>1, <1>2, <1>3, GoesKeeps
<1>4. ASSUME NEW op \in {"upload", "undo"}, Send(c, op), op = "upload" => path[c] # "bank",
             UNCHANGED <<gate, markers, outcome>>
      PROVE  IntakeInv'
  BY <1>1, <1>2, <1>4, SendsKeeps
<1>5. ASSUME NEW o \in {"failed", "unknown"}, End(c, o), UNCHANGED <<mail, answer>>,
             markers' = markers \/ AddMarker(c)
      PROVE  IntakeInv'
  <2>1. markers' = markers \/ markers' = markers \cup {c}
    BY <1>5 DEF AddMarker
  <2>2. QED
    BY <1>1, <1>2, <1>5, <2>1, EndsKeeps
<1>6. QED
  BY <1>3, <1>4, <1>5 DEF ReadBack, ReadBackFails

LEMMA UploadKeeps ==
  ASSUME IntakeInv, NEW c \in Call, Uploaded(c) \/ UploadFails(c)
  PROVE  IntakeInv'
<1>1. step[c] = "upload" /\ UNCHANGED <<invoices, path, released, markers, draft>>
  BY DEF Uploaded, UploadFails, Quiet, Answered, Unanswered
<1>2. /\ draft[c] # 0 /\ ~PastLook(c) /\ Draft(c).totals /\ path[c] # "bank"
      /\ ~Requested(c, "register") /\ ~RegisteredBy(c)
      /\ "undo" \in Op /\ {"created", "keptDraft"} \subseteq Outcome
  BY <1>1, Before, Filled DEF PastLook, Op, Outcome
<1>3. CASE Uploaded(c)
  <2>1. Draft(c).file /\ UNCHANGED <<mail, answer>>
    BY <1>3, Filled DEF Uploaded
  <2>2. ASSUME NEW s \in {"reread", "verify"}, Goto(c, s), gate' = gate \/ Leave(c), outcome' = outcome
        PROVE  IntakeInv'
    BY <1>1, <1>2, <2>1, <2>2, GoesKeeps
  <2>3. CASE End(c, "created")
    BY <1>1, <1>2, <2>1, <2>3, EndsKeeps
  <2>4. QED
    BY <1>3, <2>2, <2>3 DEF Uploaded
<1>4. CASE Send(c, "undo") /\ UNCHANGED <<gate, outcome>>
  BY <1>1, <1>2, <1>4, SendsKeeps
<1>5. CASE End(c, "keptDraft") /\ UNCHANGED <<mail, answer>>
  BY <1>1, <1>2, <1>5, EndsKeeps
<1>6. QED
  BY <1>3, <1>4, <1>5 DEF UploadFails

LEMMA UndoneKeeps ==
  ASSUME IntakeInv, NEW c \in Call, Undone(c)
  PROVE  IntakeInv'
<1>1. step[c] = "undo" /\ UNCHANGED <<invoices, path, released, markers, draft, mail, answer>>
  BY DEF Undone, Quiet, Answered, Unanswered
<1>2. draft[c] # 0 /\ {"invalidated", "left"} \subseteq Outcome
  BY <1>1, Before DEF Outcome
<1>3. CASE Answered(c, "undo", "ok") /\ End(c, "invalidated")
  <2>1. ~Live(Draft(c)) \/ Draft(c).registrar # "none"
    BY <1>3 DEF IntakeInv, CallInv, RegisterInv
  <2>2. QED
    BY <1>1, <1>2, <1>3, <2>1, EndsKeeps
<1>4. CASE End(c, "left")
  BY <1>1, <1>2, <1>4, EndsKeeps
<1>5. QED
  BY <1>3, <1>4 DEF Undone

(* The looks before the register request, in a second call or at once. *)
LEMMA LooksKeep ==
  ASSUME IntakeInv, NEW c \in Call,
         Reread(c) \/ FirstLook(c) \/ Rescan(c) \/ Verify(c) \/ BankLook(c)
  PROVE  IntakeInv'
<1>1. /\ step[c] \in {"reread", "again", "rescan", "verify", "attached", "bankLook"}
      /\ step[c] = "again" => Head(gate) = c
      /\ UNCHANGED <<invoices, path, released, markers, draft, mail, answer>>
  BY DEF Reread, FirstLook, Rescan, Verify, BankLook, Enter, Quiet
<1>2. /\ draft[c] # 0 /\ ~PastLook(c) /\ ~Requested(c, "register") /\ ~RegisteredBy(c)
      /\ {"created", "notRegistered", "keptDraft"} \subseteq Outcome
  BY <1>1, Before DEF PastLook, Outcome
<1>3. /\ step[c] # "bankLook" => path[c] # "bank" /\ Draft(c).totals /\ Draft(c).file
      /\ step[c] = "bankLook" => path[c] = "bank"
  BY <1>1, Filled DEF Reviewed
<1>4. ASSUME NEW s \in {"review", "rescan", "latest", "attached"}, step[c] # "bankLook",
             Goto(c, s), outcome' = outcome, gate' = gate \/ Leave(c), s = "review" => Leave(c)
      PROVE  IntakeInv'
  BY <1>1, <1>2, <1>3, <1>4, GoesKeeps
<1>5. CASE step[c] = "bankLook" /\ Goto(c, "bankSend") /\ UNCHANGED <<gate, outcome>>
  <2>1. "bankSend" \notin Reviewed
    BY DEF Reviewed
  <2>2. QED
    BY <1>1, <1>2, <1>3, <1>5, <2>1, GoesKeeps
<1>6. ASSUME NEW o \in {"created", "notRegistered", "keptDraft"}, End(c, o),
             step[c] = "bankLook" => o = "keptDraft"
      PROVE  IntakeInv'
  BY <1>1, <1>2, <1>3, <1>6, EndsKeeps
<1>7. CASE Reread(c)
  BY <1>4, <1>6, <1>7 DEF Reread
<1>8. CASE FirstLook(c)
  BY <1>4, <1>6, <1>8 DEF FirstLook, Enter
<1>9. CASE Rescan(c)
  BY <1>4, <1>6, <1>9 DEF Rescan
<1>10. CASE Verify(c)
  BY <1>4, <1>6, <1>10 DEF Verify
<1>11. CASE BankLook(c)
  BY <1>5, <1>6, <1>11 DEF BankLook
<1>12. QED
  BY <1>7, <1>8, <1>9, <1>10, <1>11

LEMMA LastLookKeeps ==
  ASSUME IntakeInv, NEW c \in Call, LastLook(c)
  PROVE  IntakeInv'
<1>1. /\ step[c] \in {"latest", "again"} /\ (step[c] = "again" => Head(gate) = c)
      /\ UNCHANGED <<invoices, path, released, markers, draft>>
  BY DEF LastLook, AtRegister, Enter, Quiet
<1>2. /\ draft[c] # 0 /\ ~PastLook(c) /\ ~Requested(c, "register") /\ ~RegisteredBy(c)
      /\ {"notRegistered", "keptDraft"} \subseteq Outcome /\ "register" \in Op
      /\ path[c] # "bank" /\ Draft(c).totals /\ Draft(c).file
  BY <1>1, Before, Filled DEF PastLook, Outcome, Op, Reviewed
<1>3. CASE Unchanged(c) /\ Send(c, "register") /\ UNCHANGED <<gate, outcome>>
  <2>1. Draft(c).edited # "before"
    BY <1>3 DEF Unchanged, Matches
  <2>2. QED
    BY <1>1, <1>2, <1>3, <2>1, SendsKeeps
<1>4. ASSUME NEW o \in {"notRegistered", "keptDraft"}, End(c, o), UNCHANGED <<mail, answer>>
      PROVE  IntakeInv'
  BY <1>1, <1>2, <1>4, EndsKeeps
<1>5. QED
  BY <1>3, <1>4 DEF LastLook

LEMMA BankKeeps ==
  ASSUME IntakeInv, NEW c \in Call, BankSend(c) \/ BankAfter(c)
  PROVE  IntakeInv'
<1>1. step[c] \in {"bankSend", "bankAfter"} /\ UNCHANGED <<invoices, path, released, markers, draft>>
  BY DEF BankSend, BankAfter, Quiet
<1>2. /\ draft[c] # 0 /\ path[c] = "bank" /\ "register" \in Op
      /\ {"keptDraft", "confirmed", "drifted"} \subseteq Outcome
      /\ step[c] = "bankSend" => ~Requested(c, "register") /\ ~RegisteredBy(c)
  BY <1>1, Before, Filled DEF Outcome, Op
<1>3. CASE BankSend(c)
  <2>1. CASE Send(c, "register") /\ UNCHANGED <<gate, outcome>>
    BY <1>1, <1>2, <1>3, <2>1, SendsKeeps DEF BankSend
  <2>2. CASE End(c, "keptDraft") /\ UNCHANGED <<mail, answer>>
    BY <1>1, <1>2, <1>3, <2>2, EndsKeeps DEF BankSend
  <2>3. QED
    BY <1>3, <2>1, <2>2 DEF BankSend
<1>4. CASE BankAfter(c)
  <2>1. UNCHANGED <<mail, answer>> /\ step[c] = "bankAfter"
    BY <1>4 DEF BankAfter
  <2>2. CASE Draft(c).status = "CONFIRMED" /\ End(c, "confirmed")
    <3>1. Draft(c).registrar # "none"
      BY <1>2, <2>2 DEF Draft, IntakeInv, BooksInv, RegistrarInv, CallInv, DraftInv
    <3>2. QED
      BY <1>1, <1>2, <2>1, <2>2, <3>1, EndsKeeps
  <2>3. CASE End(c, "drifted")
    BY <1>1, <1>2, <2>1, <2>3, EndsKeeps
  <2>4. QED
    BY <1>4, <2>2, <2>3 DEF BankAfter
<1>5. QED
  BY <1>3, <1>4

LEMMA RegisteredKeeps ==
  ASSUME IntakeInv, NEW c \in Call, Registered(c) \/ RegisterFails(c)
  PROVE  IntakeInv'
<1>1. step[c] = "register" /\ UNCHANGED <<invoices, path, released, markers, draft>>
  BY DEF Registered, RegisterFails, Quiet, Answered, Unanswered
<1>2. /\ draft[c] # 0 /\ "undo" \in Op
      /\ {"confirmed", "registerFailed", "registerUnknown"} \subseteq Outcome
      /\ path[c] # "bank" => Draft(c).totals /\ Draft(c).file
  BY <1>1, Before, Filled DEF Outcome, Op
<1>3. CASE Registered(c)
  <2>1. Draft(c).registrar # "none" /\ UNCHANGED <<mail, answer>>
    BY <1>3 DEF Registered, IntakeInv, CallInv, RegisterInv
  <2>2. CASE path[c] = "bank" /\ Goto(c, "bankAfter") /\ UNCHANGED <<gate, outcome>>
    <3>1. "bankAfter" \notin Reviewed
      BY DEF Reviewed
    <3>2. QED
      BY <1>1, <1>2, <2>1, <2>2, <3>1, GoesKeeps
  <2>3. CASE End(c, "confirmed")
    BY <1>1, <1>2, <2>1, <2>3, EndsKeeps
  <2>4. QED
    BY <1>3, <2>2, <2>3 DEF Registered
<1>4. CASE Send(c, "undo") /\ UNCHANGED <<gate, outcome>>
  BY <1>1, <1>2, <1>4, SendsKeeps
<1>5. CASE Answered(c, "register", "rejected") /\ End(c, "registerFailed") /\ UNCHANGED <<mail, answer>>
  <2>1. ~Requested(c, "register") /\ ~RegisteredBy(c)
    BY <1>5 DEF IntakeInv, CallInv, RegisterInv
  <2>2. QED
    BY <1>1, <1>2, <1>5, <2>1, EndsKeeps
<1>6. CASE End(c, "registerUnknown") /\ UNCHANGED <<mail, answer>>
  BY <1>1, <1>2, <1>6, EndsKeeps
<1>7. QED
  BY <1>3, <1>4, <1>5, <1>6 DEF RegisterFails

-----------------------------------------------------------------------------
(* A step of others: what an invoice may become while its intake stands still. *)
Follows(a, b) ==
    /\ b.by = a.by /\ b.late = a.late
    /\ a.totals => b.totals
    /\ a.file => b.file
    /\ ~Live(a) => ~Live(b)
    /\ a.registrar # "none" => b.registrar # "none"
    /\ b.status = "CONFIRMED" => b.registrar # "none"
    /\ b.edited = "before" => a.edited = "before" \/ a.by = "User" \/ ~PastLook(a.by)

Grows ==
    \A i \in DOMAIN invoices : i \in DOMAIN invoices' /\ Follows(invoices[i], invoices'[i])

LEMMA GrowsCall ==
  ASSUME IntakeInv, Grows, NEW d \in Call, UNCHANGED <<step, draft, outcome, path>>,
         answer'[d] = answer[d], HasCreated(d)' <=> HasCreated(d), RegisteredBy(d)' => RegisteredBy(d),
         \A op \in Op : Requested(d, op)' <=> Requested(d, op),
         markers \cup released \subseteq markers' \cup released'
  PROVE  CallInv(d)'
<1>1. CallInv(d) /\ draft[d] \in Nat
  BY DEF IntakeInv, TypeOK
<1>2. draft[d] # 0 =>
        /\ draft[d] \in DOMAIN invoices /\ Draft(d).by = d
        /\ draft'[d] \in DOMAIN invoices' /\ Draft(d)'.by = d
        /\ Draft(d).totals => Draft(d)'.totals
        /\ Draft(d).file => Draft(d)'.file
        /\ ~Live(Draft(d)) => ~Live(Draft(d))'
        /\ Draft(d).registrar # "none" => Draft(d)'.registrar # "none"
        /\ PastLook(d) /\ Draft(d).edited # "before" => Draft(d)'.edited # "before"
  BY <1>1, IntakeAssumption DEF CallInv, DraftInv, Grows, Follows, Draft, Live
<1>3. WayInv(d)'
  BY <1>1 DEF CallInv, WayInv
<1>4. DraftInv(d)'
  <2>1. step[d] \in Op => (Requested(d, step[d])' <=> Requested(d, step[d]))
    OBVIOUS
  <2>2. QED
    BY <1>1, <1>2, <2>1 DEF CallInv, DraftInv
<1>5. CreateInv(d)'
  BY <1>1 DEF CallInv, CreateInv, Answered, Op
<1>6. FillInv(d)'
  <2>1. /\ Answered(d, "totals", "ok") => draft[d] # 0
        /\ step[d] \in {"readback", "upload", "verify", "attached"} \cup Reviewed => draft[d] # 0
        /\ Answered(d, "upload", "ok") => draft[d] # 0
        /\ outcome[d] \in {"created", "notRegistered", "confirmed"} => draft[d] # 0
        /\ step[d] = "register" \/ Requested(d, "register") => draft[d] # 0
    BY <1>1 DEF CallInv, DraftInv, Answered, Reviewed, Op
  <2>2. PastLook(d)' <=> PastLook(d)
    BY DEF PastLook
  <2>3. Requested(d, "register")' <=> Requested(d, "register")
    BY DEF Op
  <2>4. QED
    BY <1>1, <1>2, <2>1, <2>2, <2>3 DEF CallInv, FillInv, Answered
<1>7. RegisterInv(d)'
  <2>1. /\ Answered(d, "register", "ok") \/ outcome[d] = "confirmed" => draft[d] # 0
        /\ Answered(d, "undo", "ok") \/ outcome[d] = "invalidated" => draft[d] # 0
    BY <1>1 DEF CallInv, DraftInv, Answered
  <2>2. Requested(d, "register")' <=> Requested(d, "register")
    BY DEF Op
  <2>3. QED
    BY <1>1, <1>2, <2>1, <2>2 DEF CallInv, RegisterInv, Answered
<1>8. QED
  BY <1>3, <1>4, <1>5, <1>6, <1>7 DEF CallInv

(* The books grow by what the accountant enters, or by what a call had sent for. *)
LEMMA GrowsBooks ==
  ASSUME IntakeInv, Grows, TypeOK', UNCHANGED <<step, path, gate>>,
         markers' \subseteq markers, released \subseteq released',
         \A i \in DOMAIN invoices' \ DOMAIN invoices :
            /\ invoices'[i].registrar = "none" /\ invoices'[i].status = "PROJECT"
            /\ invoices'[i].by # "User" =>
                  /\ i = Len(invoices) + 1
                  /\ Requested(invoices'[i].by, "create")
                  /\ ~HasCreated(invoices'[i].by)
                  /\ ~invoices'[i].late => step[invoices'[i].by] = "create",
         \A i \in DOMAIN invoices : LET b == invoices'[i] IN
            b.registrar = invoices[i].registrar \/ b.registrar = "User" \/
            (b.registrar = b.by /\ b.by \in Call /\
                (path[b.by] # "bank" =>
                    b.totals /\ b.file /\ b.edited # "before" /\ PastLook(b.by))),
         \A d \in Call : Requested(d, "create")' => Requested(d, "create"),
         \A d \in Call : CallInv(d)'
  PROVE  IntakeInv'
<1>0. TypeOK /\ BooksInv /\ invoices \in Seq(InvoiceRow) /\ invoices' \in Seq(InvoiceRow)
  BY DEF IntakeInv, TypeOK
<1>1. GateInv'
  BY DEF IntakeInv, GateInv
<1>2. \A i \in DOMAIN invoices : invoices[i] \in InvoiceRow
  BY <1>0
<1>3. \A i \in DOMAIN invoices' : invoices'[i] \in InvoiceRow
  BY <1>0
<1>4. \A i \in DOMAIN invoices' : i \notin DOMAIN invoices =>
         \A j \in DOMAIN invoices : j < i
  BY <1>0
<1>5. \A i \in DOMAIN invoices : /\ i \in DOMAIN invoices'
                                 /\ invoices'[i].by = invoices[i].by
                                 /\ invoices'[i].late = invoices[i].late
                                 /\ Live(invoices'[i]) => Live(invoices[i])
  BY DEF Grows, Follows
<1>6. ASSUME NEW d \in Call, HasCreated(d)', ~HasCreated(d)
      PROVE  Requested(d, "create")
  <2>1. PICK i \in DOMAIN invoices' : invoices'[i].by = d
    BY <1>6 DEF HasCreated
  <2>2. i \notin DOMAIN invoices
    BY <1>5, <1>6, <2>1 DEF HasCreated
  <2>3. QED
    BY <2>1, <2>2, IntakeAssumption
<1>7. ASSUME NEW d \in Call, Posted(d)' PROVE Posted(d) \/ step[d] = "create"
  BY <1>6, <1>7 DEF Posted
<1>8. ASSUME NEW c \in Call, step[c] \in {"send", "create"},
             NEW d \in Call \ {c}, Posted(d)' \/ (Requested(d, "create") /\ step[d] # "create")
      PROVE  Posted(d)
  <2>1. step[d] # "create"
    BY <1>8, OneCreates DEF IntakeInv, Entered
  <2>2. QED
    BY <1>7, <1>8, <2>1 DEF Posted
<1>9. OnceInv'
  <2>1. ASSUME NEW i \in DOMAIN invoices', NEW j \in DOMAIN invoices',
               invoices'[i].by # "User", invoices'[i].by = invoices'[j].by
        PROVE  i = j
    <3>1. CASE i \in DOMAIN invoices /\ j \in DOMAIN invoices
      BY <1>0, <1>5, <2>1, <3>1 DEF BooksInv, OnceInv
    <3>2. CASE i \in DOMAIN invoices /\ j \notin DOMAIN invoices
      BY <1>5, <2>1, <3>2 DEF HasCreated
    <3>3. CASE i \notin DOMAIN invoices /\ j \in DOMAIN invoices
      BY <1>5, <2>1, <3>3 DEF HasCreated
    <3>4. CASE i \notin DOMAIN invoices /\ j \notin DOMAIN invoices
      BY <2>1, <3>4
    <3>5. QED
      BY <3>1, <3>2, <3>3, <3>4
  <2>2. ASSUME NEW i \in DOMAIN invoices', NEW j \in DOMAIN invoices', i < j,
               invoices'[i].by # "User", invoices'[j].by # "User",
               Recognizes(invoices'[j].by, invoices'[i].by),
               Live(invoices'[i]), Live(invoices'[j])
        PROVE  invoices'[i].late \/ invoices'[j].late
    <3>1. CASE j \in DOMAIN invoices
      <4>1. i \in DOMAIN invoices
        BY <1>0, <2>2, <3>1
      <4>2. QED
        BY <1>0, <1>5, <2>2, <3>1, <4>1 DEF BooksInv, OnceInv
    <3>2. CASE j \notin DOMAIN invoices /\ i \in DOMAIN invoices
      <4> SUFFICES ASSUME ~invoices'[j].late PROVE invoices'[i].late
        OBVIOUS
      <4> DEFINE c == invoices'[j].by
      <4>1. c \in Call /\ step[c] = "create" /\ ~HasCreated(c)
        BY <1>3, <2>2, <3>2 DEF InvoiceRow
      <4>2. invoices[i].by \notin {c, "User"} /\ Recognizes(c, invoices[i].by) /\ Live(invoices[i])
        BY <1>5, <2>2, <3>2, <4>1 DEF HasCreated
      <4>3. invoices[i].late
        BY <3>2, <4>1, <4>2 DEF IntakeInv, ScanInv
      <4>4. QED
        BY <1>5, <3>2, <4>3
    <3>3. CASE j \notin DOMAIN invoices /\ i \notin DOMAIN invoices
      BY <2>2, <3>3, <1>0
    <3>4. QED
      BY <3>1, <3>2, <3>3
  <2>3. QED
    BY <2>1, <2>2 DEF OnceInv, Recognizes
<1>10. RegistrarInv'
  <2>1. ASSUME NEW i \in DOMAIN invoices'
        PROVE  LET d == invoices'[i] IN
               /\ d.status = "CONFIRMED" => d.registrar # "none"
               /\ d.registrar \in Call /\ path[d.registrar] # "bank"
                     => /\ d.by = d.registrar /\ d.totals /\ d.file /\ d.edited # "before"
                        /\ PastLook(d.by)
    <3>1. CASE i \notin DOMAIN invoices
      BY <3>1, IntakeAssumption
    <3>2. CASE i \in DOMAIN invoices
      <4>1. Follows(invoices[i], invoices'[i])
        BY <3>2 DEF Grows
      <4>2. invoices[i].registrar \in Call /\ path[invoices[i].registrar] # "bank" =>
               /\ invoices[i].by = invoices[i].registrar /\ invoices[i].totals
               /\ invoices[i].file /\ invoices[i].edited # "before" /\ PastLook(invoices[i].by)
        BY <1>0, <3>2 DEF BooksInv, RegistrarInv
      <4>3. QED
        BY <3>2, <4>1, <4>2, IntakeAssumption DEF Follows
    <3>3. QED
      BY <3>1, <3>2
  <2>2. QED
    BY <2>1 DEF RegistrarInv, PastLook
<1>11. PostInv'
  <2> SUFFICES ASSUME NEW d \in Call, NEW e \in Call, d # e, path[d] = "reading",
                      path[e] = "reading", Posted(d)', Posted(e)'
               PROVE  d \in released \/ e \in released
    BY DEF PostInv
  <2>1. CASE Posted(d) /\ Posted(e)
    BY <1>0, <2>1 DEF BooksInv, PostInv
  <2>2. CASE step[d] = "create"
    BY <1>8, <2>2 DEF IntakeInv, ScanInv
  <2>3. CASE step[e] = "create"
    BY <1>8, <2>3 DEF IntakeInv, ScanInv
  <2>4. QED
    BY <1>7, <2>1, <2>2, <2>3
<1>12. ASSUME NEW c \in Call PROVE ScanInv(c)'
  <2> SUFFICES ASSUME step[c] \in {"send", "create"} PROVE ScanInv(c)'
    BY DEF ScanInv
  <2>1. ScanInv(c)
    BY DEF IntakeInv
  <2>2. ASSUME NEW i \in DOMAIN invoices', invoices'[i].by \notin {c, "User"},
               Recognizes(c, invoices'[i].by), Live(invoices'[i])
        PROVE  invoices'[i].late
    <3>1. CASE i \in DOMAIN invoices
      BY <1>5, <2>1, <2>2, <3>1 DEF ScanInv
    <3>2. CASE i \notin DOMAIN invoices
      <4>1. invoices'[i].by \in Call \ {c}
        BY <1>3, <2>2 DEF InvoiceRow
      <4>2. step[invoices'[i].by] # "create"
        BY <4>1, OneCreates DEF IntakeInv, Entered
      <4>3. QED
        BY <2>2, <3>2, <4>2
    <3>3. QED
      BY <3>1, <3>2
  <2>3. path[c] = "reading" =>
          /\ markers' = {}
          /\ \A d \in Call \ {c} : path[d] = "reading" /\ Posted(d)' => d \in released'
    BY <1>8, <2>1 DEF ScanInv
  <2>4. QED
    BY <2>2, <2>3 DEF ScanInv, Recognizes
<1>13. QED
  BY <1>1, <1>9, <1>10, <1>11, <1>12 DEF IntakeInv, BooksInv

LEMMA SameRows == IntakeInv /\ invoices' = invoices => Grows
<1> SUFFICES ASSUME IntakeInv, invoices' = invoices, NEW i \in DOMAIN invoices
             PROVE  Follows(invoices[i], invoices'[i])
  BY DEF Grows
<1>1. invoices[i].status = "CONFIRMED" => invoices[i].registrar # "none"
  BY DEF IntakeInv, BooksInv, RegistrarInv
<1>2. QED
  BY <1>1 DEF Follows

(* The rest of the calls, when the service answers one, or the accountant works. *)
LEMMA OthersKeep ==
  ASSUME IntakeInv, Grows, NEW d \in Call, UNCHANGED <<step, draft, outcome, path>>,
         answer'[d] = answer[d], \A op \in Op : Requested(d, op)' <=> Requested(d, op),
         markers \cup released \subseteq markers' \cup released',
         \A i \in DOMAIN invoices' \ DOMAIN invoices :
            invoices'[i].by # d /\ invoices'[i].registrar = "none",
         \A i \in DOMAIN invoices :
            invoices'[i].registrar = invoices[i].registrar \/ invoices'[i].registrar # d
  PROVE  CallInv(d)'
<1>1. HasCreated(d)' <=> HasCreated(d)
  BY DEF HasCreated, Grows, Follows
<1>2. RegisteredBy(d)' => RegisteredBy(d)
  BY IntakeAssumption DEF RegisteredBy, Grows
<1>3. QED
  BY <1>1, <1>2, GrowsCall

LEMMA AnsweredCall ==
  ASSUME IntakeInv, Grows, NEW c \in Call, NEW o \in Op, NEW text \in Answer \ {"none"},
         Requested(c, o), UNCHANGED <<step, draft, outcome, path, markers, released>>,
         answer'[c] = IF Answered(c, o, "none") THEN text ELSE answer[c],
         \A op \in Op : Requested(c, op)' <=> Requested(c, op) /\ op # o,
         HasCreated(c)' <=> HasCreated(c) \/ (o = "create" /\ HasCreated(c)'),
         o = "create" => /\ text = "ok" => HasCreated(c)'
                         /\ text = "rejected" => ~HasCreated(c)',
         RegisteredBy(c)' => RegisteredBy(c) \/ (o = "register" /\ text # "rejected"),
         text = "ok" =>
            /\ o = "totals" => Draft(c)'.totals
            /\ o = "upload" => Draft(c)'.file
            /\ o = "register" => Draft(c)'.registrar # "none"
            /\ o = "undo" => ~Live(Draft(c))' \/ Draft(c)'.registrar # "none"
  PROVE  CallInv(c)'
<1>1. CallInv(c) /\ draft[c] \in Nat
  BY DEF IntakeInv, TypeOK
<1>2. draft[c] # 0 =>
        /\ draft[c] \in DOMAIN invoices /\ Draft(c).by = c
        /\ draft'[c] \in DOMAIN invoices' /\ Draft(c)'.by = c
        /\ Draft(c).totals => Draft(c)'.totals
        /\ Draft(c).file => Draft(c)'.file
        /\ ~Live(Draft(c)) => ~Live(Draft(c))'
        /\ Draft(c).registrar # "none" => Draft(c)'.registrar # "none"
        /\ PastLook(c) /\ Draft(c).edited # "before" => Draft(c)'.edited # "before"
  BY <1>1, IntakeAssumption DEF CallInv, DraftInv, Grows, Follows, Draft, Live
<1>3. \A op \in Op, t \in Answer : Answered(c, op, t)' =>
         Answered(c, op, t) \/ (op = o /\ t = text /\ Answered(c, o, "none"))
  BY DEF Answered
<1>4. /\ Requested(c, "create")' <=> Requested(c, "create") /\ o # "create"
      /\ Requested(c, "register")' <=> Requested(c, "register") /\ o # "register"
      /\ {"create", "totals", "upload", "register", "undo"} \subseteq Op
  BY DEF Op
<1>5. WayInv(c)'
  BY <1>1 DEF CallInv, WayInv
<1>6. DraftInv(c)'
  <2>1. step[c] \in Op /\ answer'[c] # "none" => ~Requested(c, step[c])'
    BY <1>1 DEF CallInv, DraftInv, Answered
  <2>2. QED
    BY <1>1, <1>2, <2>1 DEF CallInv, DraftInv
<1>7. CreateInv(c)'
  <2>1. o # "create" => (HasCreated(c)' <=> HasCreated(c))
    OBVIOUS
  <2>2. o = "create" => Requested(c, "create") /\ ~HasCreated(c)
    BY <1>1 DEF CallInv, CreateInv
  <2>3. \A t \in {"ok", "rejected"} : Answered(c, "create", t)' =>
           Answered(c, "create", t) \/ (o = "create" /\ t = text /\ Answered(c, "create", "none"))
    BY <1>3, <1>4 DEF Answer
  <2>4. Answered(c, "create", "ok") => HasCreated(c) /\ ~Requested(c, "create")
    BY <1>1, <1>4 DEF CallInv, CreateInv, DraftInv, Answered
  <2>5. QED
    BY <1>1, <1>4, <2>1, <2>2, <2>3, <2>4 DEF CallInv, CreateInv
<1>8. FillInv(c)'
  <2>1. /\ Answered(c, "totals", "ok") => draft[c] # 0
        /\ step[c] \in {"readback", "upload", "verify", "attached"} \cup Reviewed => draft[c] # 0
        /\ Answered(c, "upload", "ok") => draft[c] # 0
        /\ outcome[c] \in {"created", "notRegistered", "confirmed"} => draft[c] # 0
        /\ step[c] = "register" \/ Requested(c, "register") => draft[c] # 0
    BY <1>1 DEF CallInv, DraftInv, Answered, Reviewed, Op
  <2>2. PastLook(c)' <=> PastLook(c)
    BY DEF PastLook
  <2>3. /\ Answered(c, "totals", "ok")' => Answered(c, "totals", "ok") \/ (o = "totals" /\ text = "ok")
        /\ Answered(c, "upload", "ok")' => Answered(c, "upload", "ok") \/ (o = "upload" /\ text = "ok")
    BY <1>3, <1>4 DEF Answer
  <2>4. QED
    BY <1>1, <1>2, <1>4, <2>1, <2>2, <2>3 DEF CallInv, FillInv
<1>9. RegisterInv(c)'
  <2>1. /\ Answered(c, "register", "ok") \/ outcome[c] = "confirmed" => draft[c] # 0
        /\ Answered(c, "undo", "ok") \/ outcome[c] = "invalidated" => draft[c] # 0
    BY <1>1 DEF CallInv, DraftInv, Answered
  <2>2. /\ Answered(c, "register", "ok")' => Answered(c, "register", "ok") \/ (o = "register" /\ text = "ok")
        /\ Answered(c, "undo", "ok")' => Answered(c, "undo", "ok") \/ (o = "undo" /\ text = "ok")
        /\ Answered(c, "register", "rejected")' =>
              Answered(c, "register", "rejected") \/ (o = "register" /\ text = "rejected")
    BY <1>3, <1>4 DEF Answer
  <2>3. o = "register" => ~RegisteredBy(c)
    BY <1>1 DEF CallInv, RegisterInv
  <2>4. ASSUME \/ step[c] \notin {"register", "undo", "bankAfter", "over"}
               \/ Answered(c, "register", "rejected")'
               \/ outcome[c] \in {"keptDraft", "notRegistered", "registerFailed", "created"}
        PROVE  ~Requested(c, "register")' /\ ~RegisteredBy(c)'
    <3>1. CASE o = "register" /\ text = "rejected"
      BY <1>4, <2>3, <3>1
    <3>2. CASE ~(o = "register" /\ text = "rejected")
      <4>1. ~Requested(c, "register") /\ ~RegisteredBy(c)
        BY <1>1, <2>2, <2>4, <3>2 DEF CallInv, RegisterInv
      <4>2. QED
        BY <1>4, <4>1
    <3>3. QED
      BY <3>1, <3>2
  <2>5. Requested(c, "register")' => ~RegisteredBy(c)'
    BY <1>1, <1>4 DEF CallInv, RegisterInv
  <2>6. QED
    BY <1>1, <1>2, <2>1, <2>2, <2>4, <2>5 DEF CallInv, RegisterInv
<1>10. QED
  BY <1>5, <1>6, <1>7, <1>8, <1>9 DEF CallInv

(* One invoice more, by a call or by the accountant. *)
LEMMA OneMore ==
  ASSUME IntakeInv, NEW x \in InvoiceRow, invoices' = Append(invoices, x)
  PROVE  /\ Grows /\ invoices' \in Seq(InvoiceRow)
         /\ DOMAIN invoices' \ DOMAIN invoices = {Len(invoices) + 1}
         /\ invoices'[Len(invoices) + 1] = x
         /\ \A i \in DOMAIN invoices : invoices'[i] = invoices[i]
<1>1. /\ invoices \in Seq(InvoiceRow) /\ invoices' \in Seq(InvoiceRow) /\ Len(invoices) \in Nat
      /\ DOMAIN invoices = 1..Len(invoices) /\ DOMAIN invoices' = 1..(Len(invoices) + 1)
      /\ invoices'[Len(invoices) + 1] = x
      /\ \A i \in DOMAIN invoices : invoices'[i] = invoices[i]
  BY DEF IntakeInv, TypeOK
<1>2. ASSUME NEW i \in DOMAIN invoices PROVE Follows(invoices[i], invoices'[i])
  <2>1. invoices[i].status = "CONFIRMED" => invoices[i].registrar # "none"
    BY DEF IntakeInv, BooksInv, RegistrarInv
  <2>2. QED
    BY <1>1, <2>1 DEF Follows
<1>3. QED
  BY <1>1, <1>2 DEF Grows

(* One invoice changed. *)
LEMMA OneChanged ==
  ASSUME IntakeInv, NEW k \in DOMAIN invoices, NEW x \in InvoiceRow,
         invoices' = [invoices EXCEPT ![k] = x], Follows(invoices[k], x)
  PROVE  /\ Grows /\ invoices' \in Seq(InvoiceRow) /\ DOMAIN invoices' = DOMAIN invoices
         /\ invoices'[k] = x /\ \A i \in DOMAIN invoices \ {k} : invoices'[i] = invoices[i]
<1>1. /\ invoices \in Seq(InvoiceRow) /\ invoices' \in Seq(InvoiceRow)
      /\ DOMAIN invoices' = DOMAIN invoices
      /\ invoices'[k] = x /\ \A i \in DOMAIN invoices \ {k} : invoices'[i] = invoices[i]
  BY DEF IntakeInv, TypeOK
<1>2. ASSUME NEW i \in DOMAIN invoices PROVE Follows(invoices[i], invoices'[i])
  <2>1. invoices[i].status = "CONFIRMED" => invoices[i].registrar # "none"
    BY DEF IntakeInv, BooksInv, RegistrarInv
  <2>2. QED
    BY <1>1, <2>1 DEF Follows
<1>3. QED
  BY <1>1, <1>2 DEF Grows

(* What is known of the draft a request of its call is about. *)
LEMMA DraftOf ==
  ASSUME IntakeInv, NEW c \in Call, NEW op \in Op \ {"create"}, Requested(c, op)
  PROVE  /\ draft[c] \in DOMAIN invoices /\ Draft(c).by = c /\ Draft(c) \in InvoiceRow
         /\ Draft(c).status = "CONFIRMED" => Draft(c).registrar # "none"
         /\ op = "register" => ~RegisteredBy(c)
         /\ op = "register" /\ path[c] # "bank" =>
               PastLook(c) /\ Draft(c).totals /\ Draft(c).file /\ Draft(c).edited # "before"
<1>1. CallInv(c) /\ invoices \in Seq(InvoiceRow) /\ RegistrarInv
  BY DEF IntakeInv, TypeOK, BooksInv
<1>2. draft[c] \in DOMAIN invoices /\ Draft(c).by = c
  BY <1>1 DEF CallInv, DraftInv
<1>3. Draft(c) \in InvoiceRow /\ (Draft(c).status = "CONFIRMED" => Draft(c).registrar # "none")
  BY <1>1, <1>2 DEF Draft, RegistrarInv
<1>4. QED
  BY <1>1, <1>2, <1>3 DEF CallInv, RegisterInv, FillInv

(* The change a request makes to its draft. *)
Changed(c, op) ==
    CASE op = "totals" -> [Draft(c) EXCEPT !.totals = TRUE]
      [] op = "upload" -> [Draft(c) EXCEPT !.file = TRUE]
      [] op = "register" -> [Draft(c) EXCEPT !.status = "CONFIRMED", !.registrar = c]
      [] op = "undo" -> [Draft(c) EXCEPT !.status = AfterUndo(@)]

LEMMA ChangedRow ==
  ASSUME IntakeInv, NEW c \in Call, NEW op \in Op \ {"create"}, Requested(c, op),
         Live(Draft(c))
  PROVE  /\ Changed(c, op) \in InvoiceRow /\ Follows(Draft(c), Changed(c, op))
         /\ Changed(c, op).by = c
         /\ op = "totals" => Changed(c, op).totals
         /\ op = "upload" => Changed(c, op).file
         /\ op = "register" => Changed(c, op).registrar = c
         /\ op = "undo" => ~Live(Changed(c, op)) \/ Changed(c, op).registrar # "none"
         /\ op # "register" => Changed(c, op).registrar = Draft(c).registrar
         /\ Changed(c, op).edited = Draft(c).edited
         /\ Draft(c).totals => Changed(c, op).totals
         /\ Draft(c).file => Changed(c, op).file
<1>1. /\ Draft(c) \in InvoiceRow /\ Draft(c).by = c
      /\ Draft(c).status = "CONFIRMED" => Draft(c).registrar # "none"
  BY DraftOf
<1>2. CASE op = "totals"
  BY <1>1, <1>2 DEF Changed, InvoiceRow, Follows, Live
<1>3. CASE op = "upload"
  BY <1>1, <1>3 DEF Changed, InvoiceRow, Follows, Live
<1>4. CASE op = "register"
  <2>1. Changed(c, op) = [Draft(c) EXCEPT !.status = "CONFIRMED", !.registrar = c]
    BY <1>4 DEF Changed
  <2>2. c # "none"
    BY IntakeAssumption
  <2>3. QED
    BY <1>1, <1>4, <2>1, <2>2 DEF InvoiceRow, Follows, Live
<1>5. CASE op = "undo"
  <2>1. Changed(c, op) = [Draft(c) EXCEPT !.status = AfterUndo(@)]
    BY <1>5 DEF Changed
  <2>2. AfterUndo(Draft(c).status) = IF Draft(c).status = "CONFIRMED" THEN "PROJECT" ELSE "VOID"
    BY DEF AfterUndo
  <2>3. QED
    BY <1>1, <1>5, <2>1, <2>2 DEF InvoiceRow, Follows, Live
<1>6. QED
  BY <1>2, <1>3, <1>4, <1>5 DEF Op

LEMMA ServiceKeeps ==
  ASSUME IntakeInv, NEW c \in Call, Service(c)
  PROVE  IntakeInv'
<1>0. TypeOK /\ CallInv(c)
  BY DEF IntakeInv
<1>1. PICK r \in mail : /\ r.call = c /\ mail' = mail \ {r}
                        /\ \/ Allowed(r) /\ CarryOut(r) /\ Reply(r, "ok")
                           \/ Allowed(r) /\ CarryOut(r) /\ r.op = "create" /\ Reply(r, "noId")
                           \/ Allowed(r) /\ CarryOut(r) /\ Reply(r, "lost")
                           \/ invoices' = invoices /\ Reply(r, "rejected")
                           \/ invoices' = invoices /\ Reply(r, "lost")
  BY DEF Service
<1>2. PICK o \in Op : o = r.op /\ r \in [call : Call, op : Op] /\ Requested(c, o)
  BY <1>0, <1>1 DEF TypeOK, Requested
<1>3. UNCHANGED <<path, guards, step, draft, outcome>>
  BY <1>1 DEF Service
<1>4. PICK text \in Answer \ {"none"} :
         /\ Reply(r, text)
         /\ \/ Allowed(r) /\ CarryOut(r) /\ text # "rejected" /\ (text = "noId" => o = "create")
            \/ invoices' = invoices /\ text \in {"rejected", "lost"}
  BY <1>1, <1>2 DEF Answer
<1>5. /\ answer' \in [Call -> Answer] /\ \A d \in Call \ {c} : answer'[d] = answer[d]
      /\ answer'[c] = IF Answered(c, o, "none") THEN text ELSE answer[c]
  BY <1>0, <1>1, <1>2, <1>4 DEF Reply, TypeOK
<1>6. \A d \in Call, op \in Op :
         Requested(d, op)' <=> Requested(d, op) /\ ~(d = c /\ op = o)
  <2>1. ASSUME NEW x \in mail, x.call = c, x.op = o PROVE x = r
    <3>1. x \in [call : Call, op : Op] /\ r \in [call : Call, op : Op]
      BY <1>0, <1>1 DEF TypeOK
    <3>2. x = [call |-> x.call, op |-> x.op] /\ r = [call |-> r.call, op |-> r.op]
      BY <3>1
    <3>3. QED
      BY <1>1, <1>2, <2>1, <3>2
  <2>2. QED
    BY <1>1, <1>2, <2>1 DEF Requested
<1>7. ASSUME Grows, invoices' \in Seq(InvoiceRow),
             \A i \in DOMAIN invoices' \ DOMAIN invoices :
                /\ i = Len(invoices) + 1 /\ invoices'[i].by = c /\ o = "create"
                /\ invoices'[i].registrar = "none" /\ invoices'[i].status = "PROJECT"
                /\ ~invoices'[i].late => step[c] = "create",
             \A i \in DOMAIN invoices :
                \/ invoices'[i].registrar = invoices[i].registrar
                \/ /\ o = "register" /\ text # "rejected" /\ invoices'[i].registrar = c
                   /\ invoices'[i].by = c
                   /\ path[c] # "bank" => /\ invoices'[i].totals /\ invoices'[i].file
                                          /\ invoices'[i].edited # "before" /\ PastLook(c),
             o = "create" => /\ text = "ok" => HasCreated(c)'
                             /\ text = "rejected" => ~HasCreated(c)',
             text = "ok" =>
                /\ o = "totals" => Draft(c)'.totals
                /\ o = "upload" => Draft(c)'.file
                /\ o = "register" => Draft(c)'.registrar # "none"
                /\ o = "undo" => ~Live(Draft(c))' \/ Draft(c)'.registrar # "none"
      PROVE  IntakeInv'
  <2>1. TypeOK'
    BY <1>0, <1>1, <1>3, <1>5, <1>7 DEF TypeOK, guards
  <2>2. ASSUME NEW d \in Call \ {c} PROVE CallInv(d)'
    <3>1. \A i \in DOMAIN invoices :
             invoices'[i].registrar = invoices[i].registrar \/ invoices'[i].registrar # d
      BY <1>7
    <3>2. \A i \in DOMAIN invoices' \ DOMAIN invoices :
             invoices'[i].by # d /\ invoices'[i].registrar = "none"
      BY <1>7
    <3>3. \A op \in Op : Requested(d, op)' <=> Requested(d, op)
      BY <1>6
    <3>4. QED
      BY <1>3, <1>5, <1>7, <3>1, <3>2, <3>3, OthersKeep DEF guards
  <2>3. CallInv(c)'
    <3>1. HasCreated(c)' <=> HasCreated(c) \/ (o = "create" /\ HasCreated(c)')
      BY <1>7 DEF HasCreated, Grows, Follows
    <3>2. RegisteredBy(c)' => RegisteredBy(c) \/ (o = "register" /\ text # "rejected")
      BY <1>7, IntakeAssumption DEF RegisteredBy
    <3>3. \A op \in Op : Requested(c, op)' <=> Requested(c, op) /\ op # o
      BY <1>6
    <3>4. QED
      BY <1>2, <1>3, <1>5, <1>7, <3>1, <3>2, <3>3, AnsweredCall DEF guards
  <2>4. o = "create" => Requested(c, "create") /\ ~HasCreated(c)
    BY <1>0, <1>2 DEF CallInv, CreateInv
  <2>5. \A d \in Call : Requested(d, "create")' => Requested(d, "create")
    BY <1>6 DEF Op
  <2>6. \A d \in Call : CallInv(d)'
    BY <2>2, <2>3
  <2>7. QED
    BY <1>3, <1>7, <2>1, <2>4, <2>5, <2>6, GrowsBooks DEF guards
<1>8. CASE invoices' = invoices /\ text \in {"rejected", "lost"}
  <2>1. Grows /\ invoices' \in Seq(InvoiceRow)
    BY <1>0, <1>8, SameRows DEF TypeOK
  <2>2. o = "create" => ~HasCreated(c)'
    BY <1>0, <1>2, <1>8 DEF CallInv, CreateInv, HasCreated
  <2>3. QED
    BY <1>7, <1>8, <2>1, <2>2
<1>9. CASE CarryOut(r) /\ o = "create" /\ text # "rejected"
  <2> DEFINE x == NewInvoice(c, ~Answered(c, "create", "none"))
  <2>1. invoices' = Append(invoices, x)
    BY <1>1, <1>2, <1>9 DEF CarryOut
  <2>2. /\ x \in InvoiceRow /\ x.by = c /\ x.registrar = "none" /\ x.status = "PROJECT"
        /\ ~x.late => step[c] = "create"
    BY IntakeAssumption DEF NewInvoice, InvoiceRow, Answered
  <2> HIDE DEF x
  <2>3. /\ Grows /\ invoices' \in Seq(InvoiceRow)
        /\ DOMAIN invoices' \ DOMAIN invoices = {Len(invoices) + 1}
        /\ invoices'[Len(invoices) + 1] = x
        /\ \A i \in DOMAIN invoices : invoices'[i] = invoices[i]
    BY <2>1, <2>2, OneMore
  <2>4. HasCreated(c)'
    BY <2>2, <2>3 DEF HasCreated
  <2>5. QED
    BY <1>7, <1>9, <2>2, <2>3, <2>4
<1>10. CASE Allowed(r) /\ CarryOut(r) /\ o # "create" /\ text # "rejected"
  <2>1. draft[c] \in DOMAIN invoices /\ Live(Draft(c)) /\ invoices[draft[c]] = Draft(c)
    BY <1>1, <1>2, <1>10, DraftOf DEF Allowed, Live, Draft
  <2>2. invoices' = [invoices EXCEPT ![draft[c]] = Changed(c, o)]
    BY <1>1, <1>2, <1>10, <2>1 DEF CarryOut, Changed, Draft, Op
  <2>3. /\ Changed(c, o) \in InvoiceRow /\ Follows(Draft(c), Changed(c, o))
        /\ Changed(c, o).by = c
        /\ o = "totals" => Changed(c, o).totals
        /\ o = "upload" => Changed(c, o).file
        /\ o = "register" => Changed(c, o).registrar = c
        /\ o = "undo" => ~Live(Changed(c, o)) \/ Changed(c, o).registrar # "none"
        /\ o # "register" => Changed(c, o).registrar = Draft(c).registrar
        /\ Changed(c, o).edited = Draft(c).edited
        /\ Draft(c).totals => Changed(c, o).totals
        /\ Draft(c).file => Changed(c, o).file
    BY <1>2, <1>10, <2>1, ChangedRow
  <2>4. /\ Grows /\ invoices' \in Seq(InvoiceRow) /\ DOMAIN invoices' = DOMAIN invoices
        /\ invoices'[draft[c]] = Changed(c, o)
        /\ \A i \in DOMAIN invoices \ {draft[c]} : invoices'[i] = invoices[i]
    BY <2>1, <2>2, <2>3, OneChanged
  <2>5. Draft(c)' = Changed(c, o) /\ (Live(Draft(c))' <=> Live(Changed(c, o)))
    BY <1>3, <2>4 DEF Draft, Live
  <2>6. o = "register" /\ path[c] # "bank" =>
           PastLook(c) /\ Draft(c).totals /\ Draft(c).file /\ Draft(c).edited # "before"
    BY <1>2, DraftOf DEF Op
  <2>7. c # "none"
    BY IntakeAssumption
  <2>8. \A i \in DOMAIN invoices :
           \/ invoices'[i].registrar = invoices[i].registrar
           \/ /\ o = "register" /\ text # "rejected" /\ invoices'[i].registrar = c
              /\ invoices'[i].by = c
              /\ path[c] # "bank" => /\ invoices'[i].totals /\ invoices'[i].file
                                     /\ invoices'[i].edited # "before" /\ PastLook(c)
    BY <1>10, <2>1, <2>3, <2>4, <2>6
  <2>9. QED
    BY <1>7, <1>10, <2>3, <2>4, <2>5, <2>7, <2>8
<1>11. QED
  BY <1>4, <1>8, <1>9, <1>10

(* The accountant enters an invoice, or works on one that is there. *)
LEMMA ForeignKeeps ==
  ASSUME IntakeInv, Grows, UNCHANGED <<mail, path, guards, call>>, invoices' \in Seq(InvoiceRow),
         \A i \in DOMAIN invoices' \ DOMAIN invoices :
            /\ invoices'[i].by = "User"
            /\ invoices'[i].registrar = "none" /\ invoices'[i].status = "PROJECT",
         \A i \in DOMAIN invoices :
            invoices'[i].registrar = invoices[i].registrar \/ invoices'[i].registrar = "User"
  PROVE  IntakeInv'
<1>0. TypeOK
  BY DEF IntakeInv
<1>1. TypeOK'
  BY <1>0 DEF TypeOK, guards, call
<1>2. \A d, op : Requested(d, op)' <=> Requested(d, op)
  BY DEF Requested
<1>3. ASSUME NEW d \in Call PROVE CallInv(d)'
  <2>1. d # "User"
    BY IntakeAssumption
  <2>2. QED
    BY <1>2, <2>1, OthersKeep DEF guards, call
<1>4. QED
  BY <1>1, <1>2, <1>3, GrowsBooks DEF guards, call

LEMMA AccountantKeeps ==
  ASSUME IntakeInv, Accountant
  PROVE  IntakeInv'
<1>1. UNCHANGED <<mail, path, guards, call>> /\ invoices \in Seq(InvoiceRow)
  BY DEF Accountant, IntakeInv, TypeOK
<1>2. CASE invoices' = Append(invoices, NewInvoice("User", FALSE))
  <2> DEFINE x == NewInvoice("User", FALSE)
  <2>1. x \in InvoiceRow /\ x.by = "User" /\ x.registrar = "none" /\ x.status = "PROJECT"
    BY DEF NewInvoice, InvoiceRow
  <2>2. invoices' = Append(invoices, x)
    BY <1>2
  <2> HIDE DEF x
  <2>3. /\ Grows /\ invoices' \in Seq(InvoiceRow)
        /\ DOMAIN invoices' \ DOMAIN invoices = {Len(invoices) + 1}
        /\ invoices'[Len(invoices) + 1] = x
        /\ \A i \in DOMAIN invoices : invoices'[i] = invoices[i]
    BY <2>1, <2>2, OneMore
  <2>4. QED
    BY <1>1, <2>1, <2>3, ForeignKeeps
<1>3. ASSUME NEW i \in DOMAIN invoices, NEW x \in InvoiceRow, Follows(invoices[i], x),
             x.registrar \in {invoices[i].registrar, "User"},
             invoices' = [invoices EXCEPT ![i] = x]
      PROVE  IntakeInv'
  <2>1. /\ Grows /\ invoices' \in Seq(InvoiceRow) /\ DOMAIN invoices' = DOMAIN invoices
        /\ invoices'[i] = x /\ \A j \in DOMAIN invoices \ {i} : invoices'[j] = invoices[j]
    BY <1>3, OneChanged
  <2>2. QED
    BY <1>1, <1>3, <2>1, ForeignKeeps
<1>4. ASSUME NEW i \in DOMAIN invoices
      PROVE  /\ invoices[i] \in InvoiceRow
             /\ invoices[i].status = "CONFIRMED" => invoices[i].registrar # "none"
  BY <1>1 DEF IntakeInv, BooksInv, RegistrarInv
<1>5. ASSUME NEW i \in DOMAIN invoices, invoices[i].status = "PROJECT",
             invoices' = [invoices EXCEPT ![i].edited = EditOf(invoices[i])]
      PROVE  IntakeInv'
  <2> DEFINE x == [invoices[i] EXCEPT !.edited = EditOf(invoices[i])]
  <2>1. EditOf(invoices[i]) \in {"before", "after"}
    BY DEF EditOf
  <2>2. EditOf(invoices[i]) = "before" =>
           \/ invoices[i].by = "User" \/ ~PastLook(invoices[i].by) \/ invoices[i].edited = "before"
    BY DEF EditOf
  <2>3. x \in InvoiceRow /\ x.registrar = invoices[i].registrar /\ x.by = invoices[i].by
    BY <1>4, <2>1 DEF InvoiceRow
  <2>4. Follows(invoices[i], x)
    BY <1>4, <2>2 DEF InvoiceRow, Follows, Live
  <2>5. invoices' = [invoices EXCEPT ![i] = x]
    BY <1>1, <1>5
  <2> HIDE DEF x
  <2>6. QED
    BY <1>3, <2>3, <2>4, <2>5
<1>6. ASSUME NEW i \in DOMAIN invoices, invoices[i].status = "PROJECT",
             invoices' = [invoices EXCEPT ![i].status = "CONFIRMED", ![i].registrar = "User"]
      PROVE  IntakeInv'
  <2> DEFINE x == [invoices[i] EXCEPT !.status = "CONFIRMED", !.registrar = "User"]
  <2>1. x \in InvoiceRow /\ x.registrar = "User"
    BY <1>4 DEF InvoiceRow
  <2>2. Follows(invoices[i], x)
    BY <1>4, <1>6 DEF InvoiceRow, Follows, Live
  <2>3. invoices' = [invoices EXCEPT ![i] = x]
    BY <1>1, <1>6
  <2> HIDE DEF x
  <2>4. QED
    BY <1>3, <2>1, <2>2, <2>3
<1>7. ASSUME NEW i \in DOMAIN invoices, Live(invoices[i]),
             invoices' = [invoices EXCEPT ![i].status = AfterUndo(@)]
      PROVE  IntakeInv'
  <2> DEFINE x == [invoices[i] EXCEPT !.status = AfterUndo(invoices[i].status)]
  <2>1. AfterUndo(invoices[i].status) \in {"PROJECT", "VOID"}
    BY DEF AfterUndo
  <2>2. x \in InvoiceRow /\ x.registrar = invoices[i].registrar
    BY <1>4, <2>1 DEF InvoiceRow
  <2>3. Follows(invoices[i], x)
    BY <1>4, <1>7, <2>1 DEF InvoiceRow, Follows, Live
  <2>4. invoices' = [invoices EXCEPT ![i] = x]
    BY <1>1, <1>7
  <2> HIDE DEF x
  <2>5. QED
    BY <1>3, <2>2, <2>3, <2>4
<1>8. QED
  BY <1>2, <1>5, <1>6, <1>7 DEF Accountant

LEMMA OwnerReleasesKeeps ==
  ASSUME IntakeInv, OwnerReleases
  PROVE  IntakeInv'
<1>0. TypeOK
  BY DEF IntakeInv
<1>1. PICK c \in markers : markers' = markers \ {c} /\ released' = released \cup {c}
  BY DEF OwnerReleases
<1>2. UNCHANGED <<invoices, mail, path, gate, cached, call, bounds>>
  BY DEF OwnerReleases
<1>3. Grows
  BY <1>2, SameRows
<1>4. TypeOK'
  BY <1>0, <1>1, <1>2 DEF TypeOK, call
<1>5. \A d, op : Requested(d, op)' <=> Requested(d, op)
  BY <1>2 DEF Requested
<1>6. ASSUME NEW d \in Call PROVE CallInv(d)'
  BY <1>1, <1>2, <1>3, <1>5, OthersKeep DEF call
<1>7. QED
  BY <1>1, <1>2, <1>3, <1>4, <1>5, <1>6, GrowsBooks DEF call

LEMMA StutterKeeps ==
  ASSUME IntakeInv, UNCHANGED vars
  PROVE  IntakeInv'
<1>1. invoices \in Seq(InvoiceRow)
  BY DEF IntakeInv, TypeOK
<1>2. QED
  BY <1>1, SameRows, ForeignKeeps DEF vars, call, guards

LEMMA NextIntake == IntakeInv /\ [Next]_vars => IntakeInv'
<1> SUFFICES ASSUME IntakeInv, [Next]_vars PROVE IntakeInv'
  OBVIOUS
<1>1. CASE UNCHANGED vars
  BY <1>1, StutterKeeps
<1>2. CASE Accountant
  BY <1>2, AccountantKeeps
<1>3. CASE OwnerReleases
  BY <1>3, OwnerReleasesKeeps
<1>4. ASSUME NEW c \in Call, Enqueue(c) \/ Approve(c) PROVE IntakeInv'
  BY <1>4, JoinsKeeps
<1>5. ASSUME NEW c \in Call, Service(c) PROVE IntakeInv'
  BY <1>5, ServiceKeeps
<1>6. ASSUME NEW c \in Call, CallStep(c) PROVE IntakeInv'
  <2>1. CASE Scan(c) \/ ScanFails(c)
    BY <2>1, ScanKeeps
  <2>2. CASE SendCreate(c)
    BY <2>2, SendCreateKeeps
  <2>3. CASE Created(c)
    BY <2>3, CreatedKeeps
  <2>4. CASE CreateFails(c)
    BY <2>4, CreateFailsKeeps
  <2>5. CASE FirstRead(c) \/ TotalsSet(c) \/ TotalsFail(c)
    BY <2>5, TotalsKeeps
  <2>6. CASE ReadBack(c) \/ ReadBackFails(c)
    BY <2>6, ReadBackKeeps
  <2>7. CASE Uploaded(c) \/ UploadFails(c)
    BY <2>7, UploadKeeps
  <2>8. CASE Undone(c)
    BY <2>8, UndoneKeeps
  <2>9. CASE Reread(c) \/ FirstLook(c) \/ Rescan(c) \/ Verify(c) \/ BankLook(c)
    BY <2>9, LooksKeep
  <2>10. CASE LastLook(c)
    BY <2>10, LastLookKeeps
  <2>11. CASE BankSend(c) \/ BankAfter(c)
    BY <2>11, BankKeeps
  <2>12. CASE Registered(c) \/ RegisterFails(c)
    BY <2>12, RegisteredKeeps
  <2>13. QED
    BY <1>6, <2>1, <2>2, <2>3, <2>4, <2>5, <2>6, <2>7, <2>8, <2>9, <2>10, <2>11, <2>12
       DEF CallStep
<1>7. QED
  BY <1>1, <1>2, <1>3, <1>4, <1>5, <1>6 DEF Next

-----------------------------------------------------------------------------
(* What a call relies on when it creates, fills and registers its draft always holds,
   whatever gets lost or late and whoever works in the web application meanwhile. *)
THEOREM IntakeInvariant == Spec => []IntakeInv
<1>1. QED
  BY InitIntake, NextIntake, PTL DEF Spec

(* The document is in the books once by the intakes that can recognize each other's
   invoices, except by a create carried out after its caller gave it up; by two readings
   not even then, unless the owner released a marker. *)
THEOREM BookedOnce == Spec => []IntakeOnce
<1>1. IntakeInv => IntakeOnce
  <2> SUFFICES ASSUME IntakeInv, NEW i \in DOMAIN invoices, NEW j \in DOMAIN invoices, i < j,
                      invoices[i].by # "User", invoices[j].by # "User",
                      Recognizes(invoices[j].by, invoices[i].by),
                      Live(invoices[i]), Live(invoices[j])
               PROVE  /\ invoices[i].late \/ invoices[j].late
                      /\ path[invoices[i].by] = "reading" /\ path[invoices[j].by] = "reading"
                            => {invoices[i].by, invoices[j].by} \cap released # {}
    BY DEF IntakeOnce
  <2>1. invoices \in Seq(InvoiceRow) /\ OnceInv /\ PostInv
    BY DEF IntakeInv, TypeOK, BooksInv
  <2>2. invoices[i].late \/ invoices[j].late
    BY <2>1 DEF OnceInv
  <2>3. invoices[i].by \in Call /\ invoices[j].by \in Call
    <3>1. invoices[i] \in InvoiceRow /\ invoices[j] \in InvoiceRow
      BY <2>1
    <3>2. QED
      BY <3>1 DEF InvoiceRow
  <2>4. i # j /\ invoices[i].by # invoices[j].by
    BY <2>1 DEF OnceInv
  <2>5. Posted(invoices[i].by) /\ Posted(invoices[j].by)
    BY DEF Posted, HasCreated
  <2>6. QED
    BY <2>1, <2>2, <2>3, <2>4, <2>5 DEF PostInv
<1>2. QED
  BY <1>1, IntakeInvariant, PTL

(* What an intake registers, but for the bank path, is its own draft with totals and
   document, as it was reviewed and edited by nobody up to the last look. *)
THEOREM RegistersWhatWasReviewed == Spec => []RegisteredAsReviewed
<1>1. IntakeInv => RegisteredAsReviewed
  <2> SUFFICES ASSUME IntakeInv, NEW i \in DOMAIN invoices,
                      invoices[i].registrar \notin {"none", "User"},
                      path[invoices[i].registrar] # "bank"
               PROVE  /\ invoices[i].by = invoices[i].registrar
                      /\ invoices[i].totals /\ invoices[i].file /\ invoices[i].edited # "before"
    BY DEF RegisteredAsReviewed
  <2>1. invoices \in Seq(InvoiceRow) /\ RegistrarInv
    BY DEF IntakeInv, TypeOK, BooksInv
  <2>2. invoices[i].registrar \in Call
    <3>1. invoices[i] \in InvoiceRow
      BY <2>1
    <3>2. QED
      BY <3>1 DEF InvoiceRow
  <2>3. QED
    BY <2>1, <2>2 DEF RegistrarInv
<1>2. QED
  BY <1>1, IntakeInvariant, PTL

(* What an intake reports when it ends is true, and no request that is still on its way
   and no later work of anybody makes it false. *)
THEOREM ReportsAreTrue == Spec => []OutcomeIsTrue
<1>1. IntakeInv => OutcomeIsTrue
  <2> SUFFICES ASSUME IntakeInv, NEW c \in Call
               PROVE  /\ outcome[c] \in {"held", "unread", "refused"}
                            => ~Requested(c, "create") /\ ~HasCreated(c)
                      /\ outcome[c] = "invalidated" => ~Live(Draft(c)) \/ Draft(c).registrar # "none"
                      /\ outcome[c] \in {"keptDraft", "notRegistered", "registerFailed", "created"}
                            => ~Requested(c, "register") /\ ~RegisteredBy(c)
                      /\ outcome[c] \in {"created", "notRegistered", "confirmed"} /\ path[c] # "bank"
                            => Draft(c).totals /\ Draft(c).file
                      /\ outcome[c] = "confirmed" => Draft(c).registrar # "none"
    BY DEF OutcomeIsTrue, HasCreated
  <2>1. CreateInv(c) /\ FillInv(c) /\ RegisterInv(c)
    BY DEF IntakeInv, CallInv
  <2>2. outcome[c] \in {"held", "unread", "refused"} => ~Requested(c, "create") /\ ~HasCreated(c)
    BY <2>1 DEF CreateInv
  <2>3. QED
    BY <2>1, <2>2 DEF FillInv, RegisterInv
<1>2. QED
  BY <1>1, IntakeInvariant, PTL
=============================================================================
