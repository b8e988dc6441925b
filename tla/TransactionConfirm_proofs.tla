---------------------- MODULE TransactionConfirm_proofs ----------------------
(***************************************************************************)
(* Proofs about TransactionConfirm: for any number of confirms, processes, *)
(* invoices and clients, and for any writes of others and lost answers,    *)
(* every safety property of the module holds.                              *)
(***************************************************************************)
EXTENDS TransactionConfirm, TLAPS

MaybeClient == Client \cup {NoClient}
Mark == Invoice \cup RowChange
Row == [status : {"PROJECT", "CONFIRMED", "VOID"}, client : MaybeClient, rev : Nat]
Journal == [by : Call, late : BOOLEAN, again : BOOLEAN, stale : SUBSET Mark,
            client : MaybeClient, rev : Nat, invoice : [Invoice -> MaybeClient]]
Write == [op : {"client", "register"}, call : Call, client : MaybeClient \cup {Untouched}]

PlainStep == {"readRow", "readInvoice", "assertRow"}
ReviewStepName == {"reviewRow", "reviewInvoice", "reviewAgain", "reviewWritten", "finalInvoice",
                   "finalRow", "rollbackRead"}
Idle == {"idle", "queued", "over"}
Step == Idle \cup PlainStep \cup ReviewStepName \cup {"update", "register", "recover", "rollback"}
Outcome == {"none", "registered", "recovered", "refused", "rejected", "readFailed", "drift",
            "indeterminate", "unresolved", "rollbackUnknown", "rollbackFailed"}
Busy(c) == step[c] \notin Idle

TypeOK ==
    /\ row \in Row /\ invoice \in [Invoice -> MaybeClient]
    /\ approved \in [row : Row, invoice : [Invoice -> MaybeClient]]
    /\ journals \in Seq(Journal) /\ flying \subseteq Write
    /\ step \in [Call -> Step]
    /\ saw \in [Call -> MaybeClient]
    /\ got \in [Call -> SUBSET Client] /\ todo \in [Call -> SUBSET Invoice]
    /\ want \in [Call -> Client \cup {Untouched}]
    /\ undo \in [Call -> MaybeClient \cup {Untouched}]
    /\ failure \in [Call -> {"none", "rejected", "unresolved"}]
    /\ outcome \in [Call -> Outcome]
    /\ stale \in [Call -> SUBSET Mark]
    /\ writer \in Call \cup {Untouched}

(* The gate of a process: only its head is past the gate. *)
GateInv ==
    /\ queue \in [Process -> Seq(Call)]
    /\ \A p \in Process : \A i \in 1..Len(queue[p]) :
          /\ ProcOf[queue[p][i]] = p
          /\ step[queue[p][i]] \notin {"idle", "over"}
          /\ i > 1 => step[queue[p][i]] = "queued"
          /\ \A j \in 1..Len(queue[p]) : queue[p][i] = queue[p][j] => i = j
    /\ \A c \in Call : step[c] \notin {"idle", "over"} =>
          \E i \in 1..Len(queue[ProcOf[c]]) : queue[ProcOf[c]][i] = c

(* Where a call stands tells what it has written, and what it may answer. *)
Wrote == {"assertRow", "reviewWritten", "rollbackRead", "rollback"}
MayHaveWritten == Wrote \cup {"finalInvoice", "finalRow", "register", "recover", "over"}

StandInv(c) ==
    /\ c \in Reviewed => step[c] \notin PlainStep
    /\ c \notin Reviewed => step[c] \notin ReviewStepName
    /\ outcome[c] # "none" => step[c] = "over"
    /\ step[c] \in Wrote => undo[c] # Untouched
    /\ step[c] \notin MayHaveWritten => undo[c] = Untouched
    /\ step[c] \in {"reviewAgain", "update"} \/ undo[c] # Untouched => want[c] \in Client
    /\ step[c] \in {"rollbackRead", "rollback"} => failure[c] \in {"rejected", "unresolved"}

(* What a confirm knows of the rows, or else what changed since it looked. *)
Same(c, i, clients) == i \in stale[c] \/ invoice[i] \in clients

PlainInv(c) ==
    /\ step[c] \in {"readInvoice", "update", "assertRow", "register"} =>
          row.status # "CONFIRMED" \/ "status" \in stale[c]
    /\ step[c] = "readRow" => LinkedOf[c] \subseteq todo[c]
    /\ step[c] = "readInvoice" =>
          /\ row.client = saw[c] \/ "row" \in stale[c]
          /\ \A i \in LinkedOf[c] \ todo[c] : Same(c, i, got[c] \cup {NoClient})
    /\ step[c] \in {"update", "assertRow"} =>
          \A i \in LinkedOf[c] : Same(c, i, {NoClient, want[c]})
    /\ step[c] = "register" =>
          \/ row.client = NoClient \/ "row" \in stale[c]
          \/ \A i \in LinkedOf[c] : Same(c, i, {NoClient, row.client})

Expected(c) == IF undo[c] = Untouched THEN approved.row.client ELSE want[c]

ReviewedInv(c) ==
    /\ step[c] = "reviewInvoice" =>
          /\ saw[c] = approved.row.client
          /\ todo[c] \subseteq LinkedOf[c]
          /\ \A i \in LinkedOf[c] \ todo[c] : approved.invoice[i] \in got[c]
    /\ step[c] \in {"reviewAgain", "update", "reviewWritten"} =>
          \A i \in LinkedOf[c] : approved.invoice[i] = want[c]
    /\ step[c] \in {"finalInvoice", "finalRow", "register"} =>
          \A i \in LinkedOf[c] : approved.invoice[i] = Expected(c)
    /\ step[c] = "finalInvoice" =>
          \A i \in LinkedOf[c] \ todo[c] : Same(c, i, {approved.invoice[i]})
    /\ step[c] \in {"finalRow", "register"} =>
          \A i \in LinkedOf[c] : Same(c, i, {approved.invoice[i]})
    /\ step[c] = "register" =>
          \/ AsReviewed(c, row) /\ row.status = "PROJECT"
          \/ RowChange \subseteq stale[c]
    /\ step[c] = "rollback" => row.client = want[c] \/ "row" \in stale[c]

LookInv(c) == IF c \in Reviewed THEN ReviewedInv(c) ELSE PlainInv(c)

(* What a call has booked, or may still book. *)
BookInv(c) ==
    /\ step[c] \notin {"recover", "rollbackRead", "rollback", "over"} => Unregistered(c)
    /\ step[c] \in {"rollbackRead", "rollback"} /\ failure[c] = "rejected" => Unregistered(c)
    /\ RejectionIsFinal(c)

(* Whose client is on the row. *)
WriterInv ==
    /\ \A c \in Call : writer = c =>
          /\ row.client = want[c]
          /\ undo[c] # Untouched \/ outcome[c] = "indeterminate"
    /\ \A c \in Call : outcome[c] \in {"refused", "rejected", "unresolved"} => writer # c
    /\ \A w \in flying :
          /\ step[w.call] \in {"over", "recover", "rollbackRead", "rollback"}
          /\ w.op = "client" =>
                /\ step[w.call] = "over" /\ w.client \in MaybeClient
                /\ \/ w.client = undo[w.call]
                   \/ w.client = want[w.call] /\ outcome[w.call] = "indeterminate"

BooksInv ==
    ReceiptUnderInvoiceClient /\ NoSecondRegistration /\ ReviewedBooksWhatWasApproved

ConfirmInv ==
    /\ TypeOK /\ GateInv /\ WriterInv /\ BooksInv
    /\ \A c \in Call : StandInv(c) /\ LookInv(c) /\ BookInv(c)

-----------------------------------------------------------------------------
LEMMA InitConfirm == Init => ConfirmInv
<1> SUFFICES ASSUME Init PROVE ConfirmInv
  OBVIOUS
<1>1. TypeOK
  BY DEF Init, TypeOK, Row, MaybeClient, Step, Idle, Outcome
<1>2. GateInv
  BY ConfirmAssumption DEF Init, GateInv
<1>3. Booked = {}
  BY DEF Init, Booked
<1>4. WriterInv /\ BooksInv
  BY <1>3, ConfirmAssumption
     DEF Init, WriterInv, BooksInv, ReceiptUnderInvoiceClient, NoSecondRegistration,
         ReviewedBooksWhatWasApproved
<1>5. ASSUME NEW c \in Call PROVE StandInv(c) /\ LookInv(c) /\ BookInv(c)
  BY <1>3 DEF Init, StandInv, LookInv, ReviewedInv, PlainInv, BookInv, Unregistered,
              RejectionIsFinal, FailedUnregistered, PlainStep, ReviewStepName, Wrote, MayHaveWritten
<1>6. QED
  BY <1>1, <1>2, <1>4, <1>5 DEF ConfirmInv

-----------------------------------------------------------------------------
(* The gate. *)
LEMMA BusyIsHead ==
  ASSUME TypeOK, GateInv, NEW c \in Call, Busy(c)
  PROVE  /\ queue[ProcOf[c]] \in Seq(Call) /\ Len(queue[ProcOf[c]]) >= 1
         /\ queue[ProcOf[c]][1] = c /\ Head(queue[ProcOf[c]]) = c
         /\ ProcOf[c] \in Process
<1>1. ProcOf[c] \in Process
  BY ConfirmAssumption
<1>2. PICK i \in 1..Len(queue[ProcOf[c]]) : queue[ProcOf[c]][i] = c
  BY DEF GateInv, Busy, Idle
<1>3. i = 1
  BY <1>1, <1>2 DEF GateInv, Busy, Idle
<1>4. QED
  BY <1>1, <1>2, <1>3 DEF GateInv

(* While one call is past the gate of its process, no other one is. *)
LEMMA Alone ==
  ASSUME TypeOK, GateInv, NEW c \in Call, Busy(c), NEW d \in Call, d # c,
         ProcOf[d] = ProcOf[c]
  PROVE  step[d] \in Idle
  BY BusyIsHead DEF Busy

LEMMA GoOnGate ==
  ASSUME TypeOK, GateInv, NEW c \in Call, NEW s \in Step \ Idle,
         Busy(c) \/ (step[c] = "queued" /\ GateOpen(c)),
         step' = [step EXCEPT ![c] = s], queue' = queue
  PROVE  GateInv'
<1>1. ProcOf[c] \in Process
  BY ConfirmAssumption
<1>2. queue[ProcOf[c]] \in Seq(Call) /\ Len(queue[ProcOf[c]]) >= 1 /\ queue[ProcOf[c]][1] = c
  <2>1. CASE Busy(c)
    BY <2>1, BusyIsHead
  <2>2. CASE step[c] = "queued" /\ GateOpen(c)
    <3>1. PICK i \in 1..Len(queue[ProcOf[c]]) : queue[ProcOf[c]][i] = c
      BY <2>2 DEF GateInv
    <3>2. queue[ProcOf[c]] \in Seq(Call)
      BY <1>1 DEF GateInv
    <3>3. QED
      BY <2>2, <3>1, <3>2 DEF GateOpen
  <2>3. QED
    BY <2>1, <2>2
<1>3. \A p \in Process : \A i \in 1..Len(queue[p]) : queue[p][i] = c => i = 1
  BY <1>1, <1>2 DEF GateInv
<1>4. /\ step'[c] = s /\ s \notin Idle
      /\ \A d \in Call \ {c} : step'[d] = step[d]
  BY DEF TypeOK
<1>5. \A p \in Process : \A i \in 1..Len(queue[p]) : queue[p][i] \in Call
  BY DEF GateInv
<1>6. ASSUME NEW p \in Process, NEW i \in 1..Len(queue[p])
      PROVE  /\ ProcOf[queue[p][i]] = p
             /\ step'[queue[p][i]] \notin {"idle", "over"}
             /\ i > 1 => step'[queue[p][i]] = "queued"
             /\ \A j \in 1..Len(queue[p]) : queue[p][i] = queue[p][j] => i = j
  <2>1. /\ ProcOf[queue[p][i]] = p
        /\ step[queue[p][i]] \notin {"idle", "over"}
        /\ i > 1 => step[queue[p][i]] = "queued"
        /\ \A j \in 1..Len(queue[p]) : queue[p][i] = queue[p][j] => i = j
    BY DEF GateInv
  <2>2. i > 1 => queue[p][i] # c
    BY <1>3
  <2>3. step'[queue[p][i]] \notin {"idle", "over"}
    BY <1>4, <1>5, <2>1 DEF Idle
  <2>4. i > 1 => step'[queue[p][i]] = "queued"
    BY <1>4, <1>5, <2>1, <2>2
  <2>5. QED
    BY <2>1, <2>3, <2>4
<1>7. ASSUME NEW d \in Call, step'[d] \notin {"idle", "over"}
      PROVE  \E i \in 1..Len(queue[ProcOf[d]]) : queue[ProcOf[d]][i] = d
  <2>1. CASE d = c
    BY <1>2, <2>1
  <2>2. CASE d # c
    BY <1>4, <1>7, <2>2 DEF GateInv
  <2>3. QED
    BY <2>1, <2>2
<1>8. (\A p \in Process : \A i \in 1..Len(queue[p]) :
          /\ ProcOf[queue[p][i]] = p
          /\ step[queue[p][i]] \notin {"idle", "over"}
          /\ i > 1 => step[queue[p][i]] = "queued"
          /\ \A j \in 1..Len(queue[p]) : queue[p][i] = queue[p][j] => i = j)'
  BY <1>6
<1>9. (\A d \in Call : step[d] \notin {"idle", "over"} =>
          \E i \in 1..Len(queue[ProcOf[d]]) : queue[ProcOf[d]][i] = d)'
  BY <1>7
<1>10. queue' \in [Process -> Seq(Call)]
  BY DEF GateInv
<1>11. QED
  BY <1>8, <1>9, <1>10 DEF GateInv

LEMMA EndGate ==
  ASSUME TypeOK, GateInv, NEW c \in Call, Busy(c), NEW o, End(c, o)
  PROVE  GateInv'
<1> DEFINE q == ProcOf[c]
<1>1. q \in Process /\ queue[q] \in Seq(Call) /\ Len(queue[q]) >= 1 /\ queue[q][1] = c
  BY BusyIsHead
<1>2. /\ Tail(queue[q]) \in Seq(Call) /\ Len(Tail(queue[q])) = Len(queue[q]) - 1
      /\ \A i \in 1..(Len(queue[q]) - 1) : Tail(queue[q])[i] = queue[q][i + 1]
  BY <1>1
<1>3. /\ queue' \in [Process -> Seq(Call)]
      /\ queue'[q] = Tail(queue[q])
      /\ \A p \in Process \ {q} : queue'[p] = queue[p]
  BY <1>1, <1>2 DEF End, GateInv
<1>4. step'[c] = "over" /\ \A d \in Call \ {c} : step'[d] = step[d]
  BY DEF End, TypeOK
<1>0. /\ Len(queue[q]) \in Nat /\ Len(queue'[q]) = Len(queue[q]) - 1
      /\ \A i \in 1..(Len(queue[q]) - 1) : queue'[q][i] = queue[q][i + 1]
  BY <1>1, <1>2, <1>3
<1>8. \A i \in 1..Len(queue[q]) : /\ queue[q][i] \in Call /\ ProcOf[queue[q][i]] = q
                                  /\ i > 1 => step[queue[q][i]] = "queued"
                                  /\ \A j \in 1..Len(queue[q]) : queue[q][i] = queue[q][j] => i = j
  BY <1>1 DEF GateInv
<1> HIDE DEF q
<1>5. ASSUME NEW p \in Process, NEW i \in 1..Len(queue'[p])
      PROVE  /\ ProcOf[queue'[p][i]] = p
             /\ step'[queue'[p][i]] \notin {"idle", "over"}
             /\ i > 1 => step'[queue'[p][i]] = "queued"
             /\ \A j \in 1..Len(queue'[p]) : queue'[p][i] = queue'[p][j] => i = j
  <2>1. CASE p # q
    <3>1. queue'[p] = queue[p] /\ queue[p][i] \in Call
      BY <1>3, <2>1 DEF GateInv
    <3>2. queue[p][i] # c
      BY <1>3, <2>1, <3>1 DEF GateInv, q
    <3>3. QED
      BY <1>4, <3>1, <3>2 DEF GateInv
  <2>2. CASE p = q
    <3>1. /\ i + 1 \in 1..Len(queue[q]) /\ queue'[p][i] = queue[q][i + 1]
          /\ queue[q][i + 1] \in Call
      BY <1>0, <1>8, <2>2
    <3>2. queue[q][i + 1] # c /\ step[queue[q][i + 1]] = "queued" /\ ProcOf[queue[q][i + 1]] = q
      BY <1>0, <1>1, <1>8, <3>1
    <3>3. ASSUME NEW j \in 1..Len(queue'[p]), queue'[p][i] = queue'[p][j] PROVE i = j
      <4>1. j + 1 \in 1..Len(queue[q]) /\ queue'[p][j] = queue[q][j + 1]
        BY <1>0, <2>2
      <4>2. i + 1 = j + 1
        BY <1>8, <3>1, <3>3, <4>1
      <4>3. QED
        BY <4>2
    <3>4. QED
      BY <1>4, <2>2, <3>1, <3>2, <3>3
  <2>3. QED
    BY <2>1, <2>2
<1>6. ASSUME NEW d \in Call, step'[d] \notin {"idle", "over"}
      PROVE  \E i \in 1..Len(queue'[ProcOf[d]]) : queue'[ProcOf[d]][i] = d
  <2>1. d # c /\ step[d] \notin {"idle", "over"} /\ ProcOf[d] \in Process
    BY <1>4, <1>6, ConfirmAssumption
  <2>2. PICK i \in 1..Len(queue[ProcOf[d]]) : queue[ProcOf[d]][i] = d
    BY <2>1 DEF GateInv
  <2>3. CASE ProcOf[d] # q
    BY <1>3, <2>1, <2>2, <2>3
  <2>4. CASE ProcOf[d] = q
    <3>1. i # 1 /\ i - 1 \in 1..(Len(queue[q]) - 1) /\ i = (i - 1) + 1
      BY <1>1, <2>1, <2>2, <2>4
    <3>2. Tail(queue[q])[i - 1] = d
      BY <1>2, <2>2, <2>4, <3>1
    <3>3. QED
      BY <1>2, <1>3, <2>4, <3>1, <3>2
  <2>5. QED
    BY <2>3, <2>4
<1>7. QED
  BY <1>3, <1>5, <1>6 DEF GateInv

LEMMA EnqueueGate ==
  ASSUME TypeOK, GateInv, NEW c \in Call, Enqueue(c)
  PROVE  GateInv'
<1> DEFINE q == ProcOf[c]
<1>1. q \in Process /\ queue[q] \in Seq(Call)
  BY ConfirmAssumption DEF GateInv
<1>2. /\ Append(queue[q], c) \in Seq(Call)
      /\ Len(Append(queue[q], c)) = Len(queue[q]) + 1
      /\ Append(queue[q], c)[Len(queue[q]) + 1] = c
      /\ \A i \in 1..Len(queue[q]) : Append(queue[q], c)[i] = queue[q][i]
      /\ Len(queue[q]) \in Nat
  BY <1>1
<1>3. /\ queue' \in [Process -> Seq(Call)]
      /\ queue'[q] = Append(queue[q], c)
      /\ \A p \in Process \ {q} : queue'[p] = queue[p]
  BY <1>1, <1>2 DEF Enqueue, GateInv
<1>4. step[c] = "idle" /\ step'[c] = "queued" /\ \A d \in Call \ {c} : step'[d] = step[d]
  BY DEF Enqueue, TypeOK
<1>0. /\ Len(queue'[q]) = Len(queue[q]) + 1 /\ queue'[q][Len(queue[q]) + 1] = c
      /\ \A i \in 1..Len(queue[q]) : queue'[q][i] = queue[q][i]
      /\ Len(queue[q]) \in Nat
  BY <1>2, <1>3
<1> HIDE DEF q
<1>5. \A p \in Process : \A i \in 1..Len(queue[p]) : queue[p][i] \in Call /\ queue[p][i] # c
  BY <1>4 DEF GateInv
<1>6. ASSUME NEW p \in Process, NEW i \in 1..Len(queue'[p])
      PROVE  /\ ProcOf[queue'[p][i]] = p
             /\ step'[queue'[p][i]] \notin {"idle", "over"}
             /\ i > 1 => step'[queue'[p][i]] = "queued"
             /\ \A j \in 1..Len(queue'[p]) : queue'[p][i] = queue'[p][j] => i = j
  <2>1. CASE p # q
    BY <1>3, <1>4, <1>5, <2>1 DEF GateInv
  <2>2. CASE p = q /\ i = Len(queue[q]) + 1
    <3>1. queue'[p][i] = c /\ \A j \in 1..Len(queue'[p]) : queue'[p][j] = c => j = i
      BY <1>0, <1>1, <1>5, <2>2
    <3>2. QED
      BY <1>4, <2>2, <3>1 DEF q
  <2>3. CASE p = q /\ i # Len(queue[q]) + 1
    <3>1. i \in 1..Len(queue[q]) /\ queue'[p][i] = queue[q][i]
      BY <1>0, <2>3
    <3>2. /\ ProcOf[queue[q][i]] = q /\ step[queue[q][i]] \notin {"idle", "over"}
          /\ i > 1 => step[queue[q][i]] = "queued"
          /\ \A j \in 1..Len(queue[q]) : queue[q][i] = queue[q][j] => i = j
          /\ queue[q][i] \in Call \ {c}
      BY <1>1, <1>5, <3>1 DEF GateInv
    <3>3. QED
      <4>1. ASSUME NEW j \in 1..Len(queue'[p]), queue'[p][i] = queue'[p][j] PROVE i = j
        <5>1. j = Len(queue[q]) + 1 \/ j \in 1..Len(queue[q])
          BY <1>0, <2>3
        <5>2. j \in 1..Len(queue[q]) /\ queue'[p][j] = queue[q][j]
          BY <1>0, <2>3, <3>1, <3>2, <4>1, <5>1
        <5>3. QED
          BY <3>1, <3>2, <4>1, <5>2
      <4>2. QED
        BY <1>4, <2>3, <3>1, <3>2, <4>1
  <2>4. QED
    BY <2>1, <2>2, <2>3
<1>7. ASSUME NEW d \in Call, step'[d] \notin {"idle", "over"}
      PROVE  \E i \in 1..Len(queue'[ProcOf[d]]) : queue'[ProcOf[d]][i] = d
  <2>1. CASE d = c
    BY <1>0, <2>1 DEF q
  <2>2. CASE d # c
    <3>1. PICK i \in 1..Len(queue[ProcOf[d]]) : queue[ProcOf[d]][i] = d
      BY <1>4, <1>7, <2>2 DEF GateInv
    <3>2. ProcOf[d] \in Process
      BY ConfirmAssumption
    <3>3. CASE ProcOf[d] # q
      BY <1>3, <3>1, <3>2, <3>3
    <3>4. CASE ProcOf[d] = q
      BY <1>0, <3>1, <3>4
    <3>5. QED
      BY <3>3, <3>4
  <2>3. QED
    BY <2>1, <2>2
<1>8. QED
  BY <1>3, <1>6, <1>7 DEF GateInv

-----------------------------------------------------------------------------
(* A call that does not move: whatever changes meanwhile either is still to be looked
   at, or is held against what it has seen. *)
Still(d) ==
    /\ step'[d] = step[d] /\ saw'[d] = saw[d] /\ got'[d] = got[d] /\ todo'[d] = todo[d]
    /\ want'[d] = want[d] /\ undo'[d] = undo[d] /\ failure'[d] = failure[d]
    /\ outcome'[d] = outcome[d]

LEMMA StillLook ==
  ASSUME TypeOK, NEW d \in Call, LookInv(d), Still(d), approved' = approved,
         stale[d] \subseteq stale'[d],
         row' = row \/ RowChange \cap Unwatched(d) \subseteq stale'[d],
         \A i \in Invoice \cap Unwatched(d) : invoice'[i] = invoice[i] \/ i \in stale'[d]
  PROVE  LookInv(d)'
<1>1. LinkedOf[d] \subseteq Invoice
  BY ConfirmAssumption
<1>2. CASE d \notin Reviewed
  <2>1. PlainInv(d)'
    <3>1. PlainInv(d)
      BY <1>2 DEF LookInv
    <3>2. CASE step[d] = "readInvoice"
      <4>1. Unwatched(d) = Invoice \cup RowChange
        BY <1>2, <3>2 DEF Unwatched
      <4>2. QED
        BY <1>1, <3>1, <3>2, <4>1 DEF PlainInv, Still, Same, RowChange
    <3>3. CASE step[d] \in {"update", "assertRow"}
      <4>1. Unwatched(d) = Invoice \cup {"status"}
        BY <1>2, <3>3 DEF Unwatched
      <4>2. QED
        BY <1>1, <3>1, <3>3, <4>1 DEF PlainInv, Still, Same, RowChange
    <3>4. CASE step[d] = "register"
      <4>1. Unwatched(d) = Invoice \cup RowChange
        BY <1>2, <3>4 DEF Unwatched
      <4>2. QED
        BY <1>1, <3>1, <3>4, <4>1 DEF PlainInv, Still, Same, RowChange
    <3>5. CASE step[d] \notin {"readInvoice", "update", "assertRow", "register"}
      BY <3>1, <3>5 DEF PlainInv, Still
    <3>6. QED
      BY <3>2, <3>3, <3>4, <3>5
  <2>2. QED
    BY <1>2, <2>1 DEF LookInv
<1>3. CASE d \in Reviewed
  <2>1. ReviewedInv(d)'
    <3>1. ReviewedInv(d)
      BY <1>3 DEF LookInv
    <3>2. Expected(d)' = Expected(d) /\ AsReviewed(d, row)' = AsReviewed(d, row)'
      BY DEF Expected, Still
    <3>3. CASE step[d] \in {"finalInvoice", "finalRow"}
      <4>1. Unwatched(d) = Invoice
        BY <1>3, <3>3 DEF Unwatched
      <4>2. QED
        BY <1>1, <3>1, <3>2, <3>3, <4>1 DEF ReviewedInv, Still, Same
    <3>4. CASE step[d] = "register"
      <4>1. Unwatched(d) = Invoice \cup RowChange
        BY <1>3, <3>4 DEF Unwatched
      <4>2. row' = row => (AsReviewed(d, row)' <=> AsReviewed(d, row))
        BY DEF AsReviewed, Still
      <4>3. QED
        BY <1>1, <3>1, <3>2, <3>4, <4>1, <4>2 DEF ReviewedInv, Still, Same
    <3>5. CASE step[d] = "rollback"
      <4>1. Unwatched(d) = Invoice \cup RowChange
        BY <1>3, <3>5 DEF Unwatched
      <4>2. QED
        BY <3>1, <3>5, <4>1 DEF ReviewedInv, Still, RowChange
    <3>6. CASE step[d] \notin {"finalInvoice", "finalRow", "register", "rollback"}
      BY <3>1, <3>6 DEF ReviewedInv, Still
    <3>7. QED
      BY <3>3, <3>4, <3>5, <3>6
  <2>2. QED
    BY <1>3, <2>1 DEF LookInv
<1>4. QED
  BY <1>2, <1>3

LEMMA StillStand ==
  ASSUME NEW d \in Call, StandInv(d), Still(d)
  PROVE  StandInv(d)'
  BY DEF StandInv, Still

LEMMA StillBook ==
  ASSUME NEW d \in Call, BookInv(d), Still(d), Unregistered(d) => Unregistered(d)'
  PROVE  BookInv(d)'
  BY DEF BookInv, Still, RejectionIsFinal, FailedUnregistered, Unregistered

-----------------------------------------------------------------------------
(* Types. *)
LEMMA MarkTypes ==
  ASSUME TypeOK, NEW S \in SUBSET Call, NEW what \in SUBSET Mark, Outdate(S, what)
  PROVE  /\ stale' \in [Call -> SUBSET Mark]
         /\ \A d \in Call : stale'[d] = IF d \in S THEN stale[d] \cup (what \cap Unwatched(d))
                                        ELSE stale[d]
  BY DEF TypeOK, Outdate

LEMMA GotoType ==
  ASSUME TypeOK, NEW c \in Call, NEW s \in Step, Goto(c, s)
  PROVE  step' \in [Call -> Step] /\ outcome' \in [Call -> Outcome]
  BY DEF TypeOK, Goto

LEMMA EndType ==
  ASSUME TypeOK, NEW c \in Call, NEW o \in Outcome, End(c, o)
  PROVE  step' \in [Call -> Step] /\ outcome' \in [Call -> Outcome]
  BY DEF TypeOK, End, Step, Idle

LEMMA ApplyType ==
  ASSUME TypeOK, NEW w \in Write, w.client \in MaybeClient \/ w.op = "register",
         NEW late \in BOOLEAN, Apply(w, late)
  PROVE  row' \in Row /\ journals' \in Seq(Journal) /\ writer' \in Call \cup {Untouched}
<1>1. CASE w.op = "client"
  <2>1. /\ row' = [row EXCEPT !.client = w.client] /\ journals' = journals
        /\ writer' = Untouched \/ writer' = w.call
    BY <1>1 DEF Apply, ApplyClient
  <2>2. row' \in Row
    BY <1>1, <2>1 DEF TypeOK, Row
  <2>3. QED
    BY <2>1, <2>2 DEF TypeOK, Write
<1>2. CASE w.op # "client"
  <2> DEFINE j == [by |-> w.call, late |-> late, again |-> row.status = "CONFIRMED",
                   stale |-> stale[w.call], client |-> row.client, rev |-> row.rev,
                   invoice |-> invoice]
  <2>1. /\ row' = [row EXCEPT !.status = "CONFIRMED"] /\ journals' = Append(journals, j)
        /\ writer' = writer
    BY <1>2 DEF Apply, ApplyRegister
  <2>2. row' \in Row /\ row.client \in MaybeClient /\ row.rev \in Nat
    BY <2>1 DEF TypeOK, Row
  <2>3. w.call \in Call /\ stale[w.call] \in SUBSET Mark /\ (row.status = "CONFIRMED") \in BOOLEAN
    BY DEF TypeOK, Write
  <2>4. j \in Journal
    BY <2>2, <2>3 DEF Journal, TypeOK
  <2>5. QED
    BY <2>1, <2>2, <2>4 DEF TypeOK
<1>3. QED
  BY <1>1, <1>2

LEMMA SendType ==
  ASSUME TypeOK, NEW c \in Call, NEW w \in Write, w.client \in MaybeClient \/ w.op = "register",
         NEW reply, Send(c, w, reply)
  PROVE  /\ row' \in Row /\ journals' \in Seq(Journal) /\ writer' \in Call \cup {Untouched}
         /\ flying' \subseteq Write
         /\ stale' \in [Call -> SUBSET Mark]
<1>1. CASE Apply(w, FALSE) /\ Outdate(Others(c), RowChange) /\ UNCHANGED flying
  <2>1. stale' \in [Call -> SUBSET Mark]
    BY <1>1, MarkTypes, Others(c) \in SUBSET Call, RowChange \in SUBSET Mark DEF Others, Mark
  <2>2. QED
    BY <1>1, <2>1, ApplyType DEF TypeOK
<1>2. CASE Unapplied /\ flying' \in {flying, flying \cup {w}}
  BY <1>2 DEF Unapplied, TypeOK
<1>3. QED
  BY <1>1, <1>2 DEF Send

LEMMA AfterFailureType ==
  ASSUME TypeOK, NEW c \in Call, NEW f \in {"rejected", "unresolved"}, AfterFailure(c, f)
  PROVE  /\ step' \in [Call -> Step] /\ outcome' \in [Call -> Outcome]
         /\ failure' \in [Call -> {"none", "rejected", "unresolved"}]
<1>1. CASE undo[c] = Untouched
  <2>1. End(c, f) /\ failure' = failure
    BY <1>1 DEF AfterFailure
  <2>2. f \in Outcome
    BY DEF Outcome
  <2>3. QED
    BY <2>1, <2>2, EndType DEF TypeOK
<1>2. CASE undo[c] # Untouched
  <2>1. /\ Goto(c, "rollbackRead") \/ Goto(c, "rollback")
        /\ failure' = [failure EXCEPT ![c] = f]
    BY <1>2 DEF AfterFailure
  <2>2. "rollbackRead" \in Step /\ "rollback" \in Step
    BY DEF Step, ReviewStepName
  <2>3. QED
    BY <2>1, <2>2, GotoType DEF TypeOK
<1>3. QED
  BY <1>1, <1>2

(* The locals and the service, by the actions that touch them. *)
LEMMA QuietType ==
  ASSUME TypeOK, NEW c \in Call,
         \/ Enqueue(c) \/ Begin(c) \/ ReadFails(c) \/ ReadRow(c) \/ AssertClient(c)
         \/ Recover(c) \/ RollbackRead(c) \/ FinalInvoice(c)
  PROVE  TypeOK'
<1> USE DEF TypeOK
<1>1. CASE Enqueue(c)
  BY <1>1 DEF Enqueue, service, locals, history, Step, Idle
<1>2. CASE Begin(c)
  <2>1. "reviewRow" \in Step /\ "readRow" \in Step
    BY DEF Step, ReviewStepName, PlainStep
  <2>2. todo' \in [Call -> SUBSET Invoice]
    BY <1>2, ConfirmAssumption DEF Begin
  <2>3. step' \in [Call -> Step] /\ outcome' \in [Call -> Outcome]
    BY <1>2, <2>1, GotoType DEF Begin
  <2>4. QED
    BY <1>2, <2>2, <2>3 DEF Begin, service, history
<1>3. CASE ReadFails(c)
  <2>1. step' \in [Call -> Step] /\ outcome' \in [Call -> Outcome]
    BY <1>3, EndType DEF ReadFails, Outcome
  <2>2. QED
    BY <1>3, <2>1 DEF ReadFails, service
<1>4. CASE ReadRow(c)
  <2>1. "readInvoice" \in Step /\ "register" \in Step /\ "refused" \in Outcome
    BY DEF Step, PlainStep, Outcome
  <2>2. step' \in [Call -> Step] /\ outcome' \in [Call -> Outcome]
    BY <1>4, <2>1, EndType, GotoType DEF ReadRow
  <2>3. saw' \in [Call -> MaybeClient] /\ stale' \in [Call -> SUBSET Mark] /\ writer' = writer
    BY <1>4 DEF ReadRow, LookAtRow, FreshRow, Row
  <2>4. QED
    BY <1>4, <2>2, <2>3 DEF ReadRow, service
<1>5. CASE AssertClient(c)
  <2>1. "register" \in Step /\ "refused" \in Outcome
    BY DEF Step, Outcome
  <2>2. step' \in [Call -> Step] /\ outcome' \in [Call -> Outcome]
    BY <1>5, <2>1, EndType, GotoType DEF AssertClient
  <2>3. QED
    BY <1>5, <2>2 DEF AssertClient, LookAtRow, service
<1>6. CASE Recover(c)
  <2>1. "recovered" \in Outcome /\ "indeterminate" \in Outcome
    BY DEF Outcome
  <2>2. /\ step' \in [Call -> Step] /\ outcome' \in [Call -> Outcome]
        /\ failure' \in [Call -> {"none", "rejected", "unresolved"}]
    BY <1>6, <2>1, EndType, AfterFailureType DEF Recover
  <2>3. QED
    BY <1>6, <2>2 DEF Recover, LookAtRow, service
<1>7. CASE RollbackRead(c)
  <2>1. "rollback" \in Step /\ {"drift", "rollbackUnknown", "rollbackFailed"} \subseteq Outcome
    BY DEF Step, Outcome
  <2>2. step' \in [Call -> Step] /\ outcome' \in [Call -> Outcome]
    BY <1>7, <2>1, EndType, GotoType DEF RollbackRead
  <2>3. stale' \in [Call -> SUBSET Mark] /\ writer' = writer
    BY <1>7 DEF RollbackRead, LookAtRow
  <2>4. QED
    BY <1>7, <2>2, <2>3 DEF RollbackRead, service
<1>8. CASE FinalInvoice(c)
  <2>1. "finalRow" \in Step /\ "drift" \in Outcome
    BY DEF Step, ReviewStepName, Outcome
  <2>2. step' \in [Call -> Step] /\ outcome' \in [Call -> Outcome]
    BY <1>8, <2>1, EndType, GotoType DEF FinalInvoice
  <2>3. QED
    BY <1>8, <2>2 DEF FinalInvoice, LookAtInvoice, service
<1>9. QED
  BY <1>1, <1>2, <1>3, <1>4, <1>5, <1>6, <1>7, <1>8

LEMMA SeenType ==
  ASSUME TypeOK, NEW c \in Call, NEW i \in Invoice
  PROVE  Seen(c, i) \in SUBSET Client
  BY DEF TypeOK, Seen, MaybeClient

LEMMA GuardType ==
  ASSUME TypeOK, NEW c \in Call, NEW clients,
         Guarded(c, clients) \/ ReviewedTransition(c, clients)
  PROVE  /\ step' \in [Call -> Step] /\ outcome' \in [Call -> Outcome]
         /\ want' \in [Call -> Client \cup {Untouched}]
<1>1. /\ {"register", "update", "finalInvoice", "reviewAgain"} \subseteq Step
      /\ {"refused", "drift"} \subseteq Outcome
  BY DEF Step, ReviewStepName, Outcome
<1>2. CASE Guarded(c, clients)
  BY <1>1, <1>2, EndType, GotoType DEF Guarded, TypeOK
<1>3. CASE ReviewedTransition(c, clients)
  BY <1>1, <1>3, EndType, GotoType DEF ReviewedTransition, TypeOK
<1>4. QED
  BY <1>2, <1>3

LEMMA GuardingType ==
  ASSUME TypeOK, NEW c \in Call, ReadInvoice(c) \/ ReviewInvoice(c)
  PROVE  TypeOK'
<1> USE DEF TypeOK
<1>1. CASE ReadInvoice(c)
  <2>1. PICK i \in todo[c] :
           /\ LookAtInvoice(c, i)
           /\ got' = [got EXCEPT ![c] = Seen(c, i)]
           /\ todo' = [todo EXCEPT ![c] = @ \ {i}]
           /\ IF todo[c] = {i} THEN Guarded(c, Seen(c, i))
                               ELSE UNCHANGED <<step, queue, outcome, want>>
    BY <1>1 DEF ReadInvoice
  <2>2. /\ step' \in [Call -> Step] /\ outcome' \in [Call -> Outcome]
        /\ want' \in [Call -> Client \cup {Untouched}]
    BY <2>1, GuardType
  <2>3. got' \in [Call -> SUBSET Client] /\ todo' \in [Call -> SUBSET Invoice]
    BY <2>1, SeenType
  <2>4. QED
    BY <1>1, <2>1, <2>2, <2>3 DEF ReadInvoice, LookAtInvoice, service
<1>2. CASE ReviewInvoice(c)
  <2>1. CASE /\ ReviewedTransition(c, {})
             /\ UNCHANGED <<got, todo, stale, writer>>
    BY <1>2, <2>1, GuardType DEF ReviewInvoice, service
  <2>2. ASSUME NEW i \in todo[c],
               LookAtInvoice(c, i),
               got' = [got EXCEPT ![c] = Seen(c, i)],
               \/ End(c, "drift") /\ UNCHANGED <<want, todo>>
               \/ /\ todo' = [todo EXCEPT ![c] = LinkedOf[c]]
                  /\ ReviewedTransition(c, Seen(c, i))
               \/ /\ todo' = [todo EXCEPT ![c] = @ \ {i}]
                  /\ UNCHANGED <<step, queue, outcome, want>>
        PROVE  TypeOK'
    <3>1. got' \in [Call -> SUBSET Client] /\ todo' \in [Call -> SUBSET Invoice]
      <4>1. Seen(c, i) \in SUBSET Client
        BY SeenType
      <4>2. LinkedOf[c] \in SUBSET Invoice
        BY ConfirmAssumption
      <4>3. QED
        BY <2>2, <4>1, <4>2
    <3>2. /\ step' \in [Call -> Step] /\ outcome' \in [Call -> Outcome]
          /\ want' \in [Call -> Client \cup {Untouched}]
      BY <2>2, GuardType, EndType DEF Outcome
    <3>3. QED
      BY <1>2, <2>2, <3>1, <3>2 DEF ReviewInvoice, LookAtInvoice, service
  <2>3. QED
    BY <1>2, <2>1, <2>2 DEF ReviewInvoice
<1>3. QED
  BY <1>1, <1>2

LEMMA ReviewRowType ==
  ASSUME TypeOK, NEW c \in Call, NEW at, NEW next \in Step, ReviewRow(c, at, next)
  PROVE  TypeOK'
<1> USE DEF TypeOK
<1>1. step' \in [Call -> Step] /\ outcome' \in [Call -> Outcome]
  BY EndType, GotoType DEF ReviewRow, Outcome
<1>2. /\ saw' \in [Call -> MaybeClient] /\ stale' \in [Call -> SUBSET Mark]
      /\ todo' \in [Call -> SUBSET Invoice] /\ got' \in [Call -> SUBSET Client]
  BY ConfirmAssumption DEF ReviewRow, LookAtRow, FreshRow, Row
<1>3. QED
  BY <1>1, <1>2 DEF ReviewRow, LookAtRow, service

LEMMA WritingType ==
  ASSUME ConfirmInv, NEW c \in Call, UpdateClient(c) \/ Register(c) \/ Rollback(c)
  PROVE  TypeOK'
<1> USE DEF ConfirmInv, TypeOK
<1>1. CASE UpdateClient(c)
  <2> DEFINE w == [op |-> "client", call |-> c, client |-> want[c]]
  <2>1. want[c] \in Client
    BY <1>1 DEF StandInv, UpdateClient, Active
  <2>2. w \in Write /\ w.client \in MaybeClient
    BY <2>1 DEF Write, MaybeClient
  <2>3. PICK reply \in {"ok", "rejected", "unknown"} :
           /\ Send(c, w, reply)
           /\ \/ /\ undo' = [undo EXCEPT ![c] = saw[c]]
                 /\ Goto(c, "reviewWritten") \/ Goto(c, "assertRow")
              \/ /\ End(c, "rejected") \/ End(c, "indeterminate")
                 /\ undo' = undo
    BY <1>1 DEF UpdateClient
  <2> HIDE DEF w
  <2>4. /\ row' \in Row /\ journals' \in Seq(Journal) /\ writer' \in Call \cup {Untouched}
        /\ flying' \subseteq Write /\ stale' \in [Call -> SUBSET Mark]
    BY <2>2, <2>3, SendType
  <2>5. step' \in [Call -> Step] /\ outcome' \in [Call -> Outcome]
    <3>1. /\ {"reviewWritten", "assertRow"} \subseteq Step
          /\ {"rejected", "indeterminate"} \subseteq Outcome
      BY DEF Step, ReviewStepName, PlainStep, Outcome
    <3>2. QED
      BY <2>3, <3>1, GotoType, EndType
  <2>6. undo' \in [Call -> MaybeClient \cup {Untouched}]
    BY <2>3
  <2>7. QED
    BY <1>1, <2>4, <2>5, <2>6 DEF UpdateClient
<1>2. CASE Register(c)
  <2> DEFINE w == [op |-> "register", call |-> c, client |-> Untouched]
  <2>1. w \in Write /\ w.op = "register"
    BY DEF Write
  <2>2. PICK reply \in {"ok", "rejected", "unknown"} :
           /\ Send(c, w, reply)
           /\ \/ End(c, "registered") /\ UNCHANGED failure
              \/ AfterFailure(c, "rejected")
              \/ Goto(c, "recover") /\ UNCHANGED failure
    BY <1>2 DEF Register
  <2> HIDE DEF w
  <2>3. /\ row' \in Row /\ journals' \in Seq(Journal) /\ writer' \in Call \cup {Untouched}
        /\ flying' \subseteq Write /\ stale' \in [Call -> SUBSET Mark]
    BY <2>1, <2>2, SendType
  <2>4. /\ step' \in [Call -> Step] /\ outcome' \in [Call -> Outcome]
        /\ failure' \in [Call -> {"none", "rejected", "unresolved"}]
    <3>1. "recover" \in Step /\ "registered" \in Outcome
      BY DEF Step, Outcome
    <3>2. QED
      BY <2>2, <3>1, GotoType, EndType, AfterFailureType
  <2>5. QED
    BY <1>2, <2>3, <2>4 DEF Register
<1>3. CASE Rollback(c)
  <2> DEFINE w == [op |-> "client", call |-> c, client |-> undo[c]]
  <2>1. undo[c] \in MaybeClient
    BY <1>3 DEF StandInv, Wrote, Rollback, Active
  <2>2. w \in Write /\ w.client \in MaybeClient
    BY <2>1 DEF Write
  <2>3. PICK reply \in {"ok", "rejected", "unknown"} :
           /\ Send(c, w, reply)
           /\ End(c, CASE reply = "ok" -> failure[c]
                       [] reply = "rejected" -> "rollbackFailed"
                       [] reply = "unknown" -> "rollbackUnknown")
    BY <1>3 DEF Rollback
  <2> HIDE DEF w
  <2>4. /\ row' \in Row /\ journals' \in Seq(Journal) /\ writer' \in Call \cup {Untouched}
        /\ flying' \subseteq Write /\ stale' \in [Call -> SUBSET Mark]
    BY <2>2, <2>3, SendType
  <2>5. step' \in [Call -> Step] /\ outcome' \in [Call -> Outcome]
    <3>1. {"rollbackFailed", "rollbackUnknown", failure[c]} \subseteq Outcome
      BY DEF Outcome
    <3>2. QED
      BY <2>3, <3>1, EndType
  <2>6. QED
    BY <1>3, <2>4, <2>5 DEF Rollback
<1>4. QED
  BY <1>1, <1>2, <1>3

-----------------------------------------------------------------------------
(* A step of call c that writes nothing: what is left to show is what it knows. *)
Rows == <<row, invoice, journals, flying, writer, approved>>

OnlyLocals(c) ==
    \A d \in Call \ {c} :
        /\ saw'[d] = saw[d] /\ got'[d] = got[d] /\ todo'[d] = todo[d] /\ want'[d] = want[d]
        /\ undo'[d] = undo[d] /\ failure'[d] = failure[d] /\ stale'[d] = stale[d]

LEMMA QuietStep ==
  ASSUME ConfirmInv, NEW c \in Call, step[c] # "over", UNCHANGED Rows, TypeOK', GateInv',
         \A d \in Call \ {c} : Still(d) /\ stale'[d] = stale[d],
         StandInv(c)', LookInv(c)', BookInv(c)',
         writer = c => /\ want'[c] = want[c] /\ undo'[c] = undo[c]
                       /\ outcome'[c] \notin {"refused", "rejected", "unresolved"},
         step[c] \in {"recover", "rollbackRead", "rollback"} =>
            step'[c] \in {"recover", "rollbackRead", "rollback", "over"}
  PROVE  ConfirmInv'
<1>1. Booked' = Booked /\ flying' = flying
  BY DEF Rows, Booked
<1>2. \A d \in Call : Unregistered(d)' <=> Unregistered(d)
  BY <1>1 DEF Unregistered
<1>3. ASSUME NEW d \in Call \ {c} PROVE StandInv(d)' /\ LookInv(d)' /\ BookInv(d)'
  <2>1. d \in Call /\ StandInv(d) /\ LookInv(d) /\ BookInv(d) /\ Still(d) /\ stale'[d] = stale[d]
    BY DEF ConfirmInv
  <2>2. LookInv(d)'
    BY <2>1, StillLook DEF Rows, ConfirmInv
  <2>3. QED
    BY <1>2, <2>1, <2>2, StillStand, StillBook
<1>4. WriterInv'
  <2>1. ASSUME NEW d \in Call, writer' = d
        PROVE  row'.client = want'[d] /\ (undo'[d] # Untouched \/ outcome'[d] = "indeterminate")
    <3>1. CASE d = c
      BY <2>1, <3>1 DEF ConfirmInv, WriterInv, StandInv, Rows
    <3>2. CASE d # c
      BY <2>1, <3>2 DEF ConfirmInv, WriterInv, Still, Rows
    <3>3. QED
      BY <3>1, <3>2
  <2>2. ASSUME NEW d \in Call, outcome'[d] \in {"refused", "rejected", "unresolved"}
        PROVE  writer' # d
    BY <2>2 DEF ConfirmInv, WriterInv, Still, Rows
  <2>3. ASSUME NEW w \in flying'
        PROVE  /\ step'[w.call] \in {"over", "recover", "rollbackRead", "rollback"}
               /\ w.op = "client" =>
                     /\ step'[w.call] = "over" /\ w.client \in MaybeClient
                     /\ \/ w.client = undo'[w.call]
                        \/ w.client = want'[w.call] /\ outcome'[w.call] = "indeterminate"
    <3>1. w \in flying /\ w.call \in Call
      BY <1>1 DEF ConfirmInv, TypeOK, Write
    <3>2. CASE w.call = c
      BY <3>1, <3>2 DEF ConfirmInv, WriterInv
    <3>3. CASE w.call # c
      BY <3>1, <3>3 DEF ConfirmInv, WriterInv, Still
    <3>4. QED
      BY <3>2, <3>3
  <2>4. QED
    BY <2>1, <2>2, <2>3 DEF WriterInv
<1>5. BooksInv'
  BY <1>1 DEF ConfirmInv, BooksInv, ReceiptUnderInvoiceClient, NoSecondRegistration,
              ReviewedBooksWhatWasApproved, Rows
<1>6. QED
  BY <1>3, <1>4, <1>5 DEF ConfirmInv

LEMMA QuietGoOn ==
  ASSUME ConfirmInv, NEW c \in Call, Busy(c) \/ (step[c] = "queued" /\ GateOpen(c)),
         NEW s \in Step \ Idle, Goto(c, s), UNCHANGED Rows, OnlyLocals(c), TypeOK',
         StandInv(c)', LookInv(c)',
         s \in {"recover", "rollbackRead", "rollback"} <=>
            step[c] \in {"recover", "rollbackRead", "rollback"},
         s \in {"rollbackRead", "rollback"} /\ failure'[c] = "rejected" =>
            step[c] \in {"rollbackRead", "rollback"} /\ failure[c] = "rejected",
         writer = c => want'[c] = want[c] /\ undo'[c] = undo[c]
  PROVE  ConfirmInv'
<1>1. /\ step' = [step EXCEPT ![c] = s] /\ queue' = queue /\ outcome' = outcome
      /\ step'[c] = s /\ \A d \in Call \ {c} : step'[d] = step[d]
  BY DEF Goto, ConfirmInv, TypeOK
<1>2. GateInv'
  BY <1>1, GoOnGate DEF ConfirmInv
<1>3. \A d \in Call \ {c} : Still(d) /\ stale'[d] = stale[d]
  BY <1>1 DEF OnlyLocals, Still
<1>4. step[c] # "over" /\ outcome[c] = "none"
  BY DEF ConfirmInv, StandInv, Busy, Idle
<1>5. BookInv(c)'
  <2>1. Unregistered(c)' <=> Unregistered(c)
    BY DEF Unregistered, Booked, Rows
  <2>2. BookInv(c)
    BY DEF ConfirmInv
  <2>3. RejectionIsFinal(c)'
    BY <1>1, <1>4 DEF RejectionIsFinal, FailedUnregistered
  <2>4. QED
    BY <1>1, <1>4, <2>1, <2>2, <2>3 DEF BookInv, Idle
<1>6. QED
  BY <1>1, <1>2, <1>3, <1>4, <1>5, QuietStep

LEMMA QuietEnd ==
  ASSUME ConfirmInv, NEW c \in Call, Busy(c), NEW o \in Outcome, End(c, o), UNCHANGED Rows,
         OnlyLocals(c), TypeOK', want'[c] = want[c], undo'[c] = undo[c],
         o \in {"refused", "rejected", "readFailed"} => Unregistered(c),
         o \in {"drift", "rollbackFailed", "rollbackUnknown"} =>
            Unregistered(c) \/ failure'[c] = "unresolved",
         o \in {"refused", "rejected", "unresolved"} => writer # c
  PROVE  ConfirmInv'
<1>1. /\ step'[c] = "over" /\ outcome'[c] = o
      /\ \A d \in Call \ {c} : step'[d] = step[d] /\ outcome'[d] = outcome[d]
  BY DEF End, ConfirmInv, TypeOK
<1>2. GateInv'
  BY EndGate DEF ConfirmInv
<1>3. \A d \in Call \ {c} : Still(d) /\ stale'[d] = stale[d]
  BY <1>1 DEF OnlyLocals, Still
<1>4. StandInv(c)'
  <2>1. StandInv(c)
    BY DEF ConfirmInv
  <2>2. QED
    BY <1>1, <2>1 DEF StandInv, PlainStep, ReviewStepName, Wrote, MayHaveWritten
<1>5. LookInv(c)'
  BY <1>1 DEF LookInv, PlainInv, ReviewedInv
<1>6. BookInv(c)'
  <2>1. Unregistered(c)' <=> Unregistered(c)
    BY DEF Unregistered, Booked, Rows
  <2>2. QED
    BY <1>1, <2>1 DEF BookInv, RejectionIsFinal, FailedUnregistered, Unregistered
<1>7. step[c] # "over"
  BY DEF Busy, Idle
<1>8. QED
  BY <1>1, <1>2, <1>3, <1>4, <1>5, <1>6, <1>7, QuietStep

-----------------------------------------------------------------------------
(* The quiet steps of confirmUnlocked. *)
LEMMA NotYet ==
  ASSUME ConfirmInv, NEW c \in Call, Busy(c)
  PROVE  /\ outcome[c] = "none" /\ step[c] # "over"
         /\ undo[c] = Untouched => writer # c
         /\ step[c] \notin {"recover", "rollbackRead", "rollback"} => Unregistered(c)
  BY DEF ConfirmInv, StandInv, BookInv, WriterInv, Busy, Idle

LEMMA BeginKeeps ==
  ASSUME ConfirmInv, NEW c \in Call, Begin(c)
  PROVE  ConfirmInv'
<1>1. TypeOK'
  BY QuietType DEF ConfirmInv
<1>2. UNCHANGED Rows /\ OnlyLocals(c)
  BY DEF Begin, Rows, OnlyLocals, service, history, ConfirmInv, TypeOK
<1>3. PICK s \in {"reviewRow", "readRow"} :
         Goto(c, s) /\ (s = "reviewRow" <=> c \in Reviewed)
  BY DEF Begin
<1>4. s \in Step \ Idle
  BY DEF Step, Idle, PlainStep, ReviewStepName
<1>5. step[c] = "queued" /\ GateOpen(c) /\ step'[c] = s /\ outcome' = outcome
  BY <1>3 DEF Begin, Goto, ConfirmInv, TypeOK
<1>6. StandInv(c)'
  <2>1. StandInv(c)
    BY DEF ConfirmInv
  <2>2. undo' = undo /\ want' = want
    BY DEF Begin
  <2>3. QED
    BY <1>3, <1>5, <2>1, <2>2
       DEF StandInv, PlainStep, ReviewStepName, Wrote, MayHaveWritten
<1>7. LookInv(c)'
  BY <1>3, <1>5 DEF LookInv, PlainInv, ReviewedInv, Begin, ConfirmInv, TypeOK
<1>8. undo' = undo /\ want' = want
  BY DEF Begin
<1>9. QED
  BY <1>1, <1>2, <1>3, <1>4, <1>5, <1>6, <1>7, <1>8, QuietGoOn

LEMMA ReadFailsKeeps ==
  ASSUME ConfirmInv, NEW c \in Call, ReadFails(c)
  PROVE  ConfirmInv'
<1>1. TypeOK'
  BY QuietType DEF ConfirmInv
<1>2. UNCHANGED Rows /\ OnlyLocals(c) /\ want' = want /\ undo' = undo
  BY DEF ReadFails, Rows, OnlyLocals, service
<1>3. PICK o \in {"drift", "readFailed"} : End(c, o)
  BY DEF ReadFails
<1>4. Busy(c) /\ step[c] \notin {"recover", "rollbackRead", "rollback"} /\ o \in Outcome
  BY DEF ReadFails, Busy, Idle, Outcome
<1>5. Unregistered(c)
  BY <1>4, NotYet
<1>6. QED
  BY <1>1, <1>2, <1>3, <1>4, <1>5, QuietEnd

LEMMA ReadRowKeeps ==
  ASSUME ConfirmInv, NEW c \in Call, ReadRow(c)
  PROVE  ConfirmInv'
<1>1. TypeOK'
  BY QuietType DEF ConfirmInv
<1>2. UNCHANGED Rows /\ OnlyLocals(c) /\ UNCHANGED <<todo, want, undo, failure>>
  BY DEF ReadRow, LookAtRow, Rows, OnlyLocals, service, ConfirmInv, TypeOK
<1>3. /\ step[c] = "readRow" /\ Busy(c) /\ c \notin Reviewed /\ undo[c] = Untouched
      /\ LinkedOf[c] \subseteq todo[c]
  BY DEF ReadRow, Active, Busy, Idle, ConfirmInv, StandInv, LookInv, PlainInv, PlainStep,
         MayHaveWritten, Wrote
<1>4. writer # c /\ Unregistered(c) /\ outcome[c] = "none"
  BY <1>3, NotYet
<1>5. saw'[c] = row.client /\ stale'[c] = stale[c] \ RowChange
  BY DEF ReadRow, LookAtRow, FreshRow, ConfirmInv, TypeOK
<1>6. CASE row.status = "CONFIRMED"
  <2>1. End(c, "refused") /\ "refused" \in Outcome
    BY <1>6 DEF ReadRow, FreshRow, Outcome
  <2>2. QED
    BY <1>1, <1>2, <1>3, <1>4, <2>1, QuietEnd
<1>7. CASE row.status # "CONFIRMED"
  <2>1. PICK s \in {"readInvoice", "register"} :
           Goto(c, s) /\ (s = "register" => LinkedOf[c] = {} \/ row.client = NoClient)
    BY <1>7 DEF ReadRow, FreshRow
  <2>2. s \in Step \ Idle /\ s \notin {"recover", "rollbackRead", "rollback"}
    BY DEF Step, Idle, PlainStep
  <2>3. step'[c] = s /\ outcome' = outcome
    BY <2>1 DEF Goto, ConfirmInv, TypeOK
  <2>4. StandInv(c)'
    BY <1>2, <1>3, <1>4, <2>3
       DEF StandInv, PlainStep, ReviewStepName, Wrote, MayHaveWritten
  <2>5. PlainInv(c)'
    BY <1>2, <1>3, <1>5, <1>7, <2>1, <2>3 DEF PlainInv, Rows
  <2>6. LookInv(c)'
    BY <1>3, <2>5 DEF LookInv
  <2>7. QED
    BY <1>1, <1>2, <1>3, <1>4, <2>1, <2>2, <2>4, <2>6, QuietGoOn
<1>8. QED
  BY <1>6, <1>7

LEMMA ReadInvoiceKeeps ==
  ASSUME ConfirmInv, NEW c \in Call, ReadInvoice(c)
  PROVE  ConfirmInv'
<1>1. TypeOK'
  BY GuardingType DEF ConfirmInv
<1>2. UNCHANGED Rows /\ OnlyLocals(c) /\ UNCHANGED <<saw, undo, failure>>
  <2>1. \A d \in Call \ {c} : want'[d] = want[d]
    BY DEF ReadInvoice, Guarded, ConfirmInv, TypeOK
  <2>2. QED
    BY <2>1 DEF ReadInvoice, LookAtInvoice, Rows, OnlyLocals, service, ConfirmInv, TypeOK
<1>3. /\ step[c] = "readInvoice" /\ Busy(c) /\ c \notin Reviewed /\ undo[c] = Untouched
      /\ PlainInv(c)
  BY DEF ReadInvoice, Active, Busy, Idle, ConfirmInv, StandInv, LookInv, PlainStep,
         MayHaveWritten, Wrote
<1>4. writer # c /\ Unregistered(c) /\ outcome[c] = "none"
  BY <1>3, NotYet
<1>5. PICK i \in todo[c] :
         /\ LookAtInvoice(c, i)
         /\ got' = [got EXCEPT ![c] = Seen(c, i)]
         /\ todo' = [todo EXCEPT ![c] = @ \ {i}]
         /\ IF todo[c] = {i} THEN Guarded(c, Seen(c, i))
                             ELSE UNCHANGED <<step, queue, outcome, want>>
  BY DEF ReadInvoice
<1>6. /\ stale'[c] = stale[c] \ {i} /\ got'[c] = got[c] \cup ({invoice[i]} \ {NoClient})
      /\ todo'[c] = todo[c] \ {i} /\ i \notin RowChange
      /\ got'[c] = Seen(c, i)
  BY <1>5, ConfirmAssumption DEF LookAtInvoice, Seen, RowChange, ConfirmInv, TypeOK
<1>7. /\ row' = row /\ invoice' = invoice /\ saw' = saw
      /\ row.status # "CONFIRMED" \/ "status" \in stale'[c]
      /\ row.client = saw[c] \/ "row" \in stale'[c]
      /\ \A n \in LinkedOf[c] \ todo'[c] : n \in stale'[c] \/ invoice[n] \in got'[c] \cup {NoClient}
  BY <1>2, <1>3, <1>6 DEF PlainInv, Same, RowChange, Rows
<1>8. CASE todo[c] # {i}
  <2>1. Goto(c, "readInvoice") /\ want' = want
    BY <1>3, <1>5, <1>8 DEF Goto, ConfirmInv, TypeOK
  <2>2. step'[c] = "readInvoice" /\ outcome' = outcome
    BY <2>1, <1>3, <1>5, <1>8
  <2>3. StandInv(c)'
    BY <1>2, <1>3, <1>4, <2>1, <2>2
       DEF StandInv, PlainStep, ReviewStepName, Wrote, MayHaveWritten
  <2>4. PlainInv(c)'
    BY <1>7, <2>2 DEF PlainInv, Same
  <2>5. LookInv(c)' /\ "readInvoice" \in Step \ Idle
    BY <1>3, <2>4 DEF LookInv, Step, Idle, PlainStep
  <2>6. QED
    BY <1>1, <1>2, <1>3, <1>4, <2>1, <2>3, <2>5, QuietGoOn
<1>9. CASE todo[c] = {i}
  <2>1. Guarded(c, got'[c]) /\ todo'[c] = {}
    BY <1>5, <1>6, <1>9
  <2>2. CASE End(c, "refused") /\ want' = want
    <3>1. "refused" \in Outcome
      BY DEF Outcome
    <3>2. QED
      BY <1>1, <1>2, <1>3, <1>4, <2>2, <3>1, QuietEnd
  <2>3. CASE got'[c] \subseteq {saw[c]} /\ Goto(c, "register") /\ want' = want
    <3>1. step'[c] = "register" /\ outcome' = outcome
      BY <2>3 DEF Goto, ConfirmInv, TypeOK
    <3>2. StandInv(c)'
      BY <1>2, <1>3, <1>4, <2>3, <3>1
         DEF StandInv, PlainStep, ReviewStepName, Wrote, MayHaveWritten
    <3>3. PlainInv(c)'
      BY <1>7, <2>1, <2>3, <3>1 DEF PlainInv, Same
    <3>4. LookInv(c)' /\ "register" \in Step \ Idle
      BY <1>3, <3>3 DEF LookInv, Step, Idle
    <3>5. QED
      BY <1>1, <1>2, <1>3, <1>4, <2>3, <3>2, <3>4, QuietGoOn
  <2>4. ASSUME NEW k \in Client, got'[c] = {k}, Goto(c, "update"), want' = [want EXCEPT ![c] = k]
        PROVE  ConfirmInv'
    <3>1. step'[c] = "update" /\ outcome' = outcome /\ want'[c] = k
      BY <2>4 DEF Goto, ConfirmInv, TypeOK
    <3>2. StandInv(c)'
      BY <1>2, <1>3, <1>4, <3>1
         DEF StandInv, PlainStep, ReviewStepName, Wrote, MayHaveWritten
    <3>3. PlainInv(c)'
      BY <1>7, <2>1, <2>4, <3>1 DEF PlainInv, Same
    <3>4. LookInv(c)' /\ "update" \in Step \ Idle
      BY <1>3, <3>3 DEF LookInv, Step, Idle
    <3>5. QED
      BY <1>1, <1>2, <1>3, <1>4, <2>4, <3>2, <3>4, QuietGoOn
  <2>5. QED
    BY <2>1, <2>2, <2>3, <2>4 DEF Guarded
<1>10. QED
  BY <1>8, <1>9

LEMMA AssertClientKeeps ==
  ASSUME ConfirmInv, NEW c \in Call, AssertClient(c)
  PROVE  ConfirmInv'
<1>1. TypeOK'
  BY QuietType DEF ConfirmInv
<1>2. UNCHANGED Rows /\ OnlyLocals(c) /\ UNCHANGED <<saw, want, undo, failure>>
  BY DEF AssertClient, LookAtRow, Rows, OnlyLocals, service, ConfirmInv, TypeOK
<1>3. step[c] = "assertRow" /\ Busy(c) /\ c \notin Reviewed /\ undo[c] # Untouched /\ PlainInv(c)
  BY DEF AssertClient, Active, Busy, Idle, ConfirmInv, StandInv, LookInv, PlainStep,
         MayHaveWritten, Wrote
<1>4. Unregistered(c) /\ outcome[c] = "none" /\ stale'[c] = stale[c] \ {"row"}
  BY <1>3, NotYet DEF AssertClient, LookAtRow, ConfirmInv, TypeOK
<1>5. CASE row.client = want[c]
  <2>1. Goto(c, "register")
    BY <1>5 DEF AssertClient, FreshRow
  <2>2. step'[c] = "register" /\ outcome' = outcome
    BY <2>1 DEF Goto, ConfirmInv, TypeOK
  <2>3. StandInv(c)'
    <3>1. StandInv(c)
      BY DEF ConfirmInv
    <3>2. QED
      BY <1>2, <1>3, <1>4, <2>2, <3>1
         DEF StandInv, PlainStep, ReviewStepName, Wrote, MayHaveWritten
  <2>4. PlainInv(c)'
    <3>1. \A i \in LinkedOf[c] : i # "row"
      BY ConfirmAssumption
    <3>2. QED
      BY <1>2, <1>3, <1>4, <1>5, <2>2, <3>1 DEF PlainInv, Same, Rows
  <2>5. LookInv(c)' /\ "register" \in Step \ Idle
    BY <1>3, <2>4 DEF LookInv, Step, Idle
  <2>6. QED
    BY <1>1, <1>2, <1>3, <1>4, <2>1, <2>3, <2>5, QuietGoOn
<1>6. CASE row.client # want[c]
  <2>1. End(c, "refused") /\ "refused" \in Outcome
    BY <1>6 DEF AssertClient, FreshRow, Outcome
  <2>2. writer # c
    BY <1>6 DEF ConfirmInv, WriterInv
  <2>3. QED
    BY <1>1, <1>2, <1>3, <1>4, <2>1, <2>2, QuietEnd
<1>7. QED
  BY <1>5, <1>6

(* A call that leaves a failed register: it ends, or it is to roll back. *)
LEMMA AfterFailureKeeps ==
  ASSUME ConfirmInv, NEW c \in Call, step[c] = "recover", AfterFailure(c, "unresolved"),
         UNCHANGED Rows, OnlyLocals(c), TypeOK', UNCHANGED <<want, undo>>
  PROVE  ConfirmInv'
<1>1. Busy(c) /\ outcome[c] = "none" /\ (undo[c] = Untouched => writer # c) /\ StandInv(c)
  <2>1. Busy(c)
    BY DEF Busy, Idle
  <2>2. QED
    BY <2>1, NotYet DEF ConfirmInv
<1>2. CASE undo[c] = Untouched
  <2>1. End(c, "unresolved") /\ "unresolved" \in Outcome
    BY <1>2 DEF AfterFailure, Outcome
  <2>2. QED
    BY <1>1, <1>2, <2>1, QuietEnd
<1>3. CASE undo[c] # Untouched
  <2>1. PICK s \in {"rollbackRead", "rollback"} :
           Goto(c, s) /\ (s = "rollbackRead" <=> c \in Reviewed)
    BY <1>3 DEF AfterFailure
  <2>2. /\ step'[c] = s /\ outcome' = outcome /\ failure'[c] = "unresolved"
        /\ s \in Step \ Idle
    BY <1>3, <2>1 DEF AfterFailure, Goto, ConfirmInv, TypeOK, Step, Idle, ReviewStepName
  <2>3. StandInv(c)'
    BY <1>1, <1>3, <2>1, <2>2
       DEF StandInv, PlainStep, ReviewStepName, Wrote, MayHaveWritten
  <2>4. LookInv(c)'
    BY <2>1, <2>2 DEF LookInv, PlainInv, ReviewedInv
  <2>5. QED
    BY <1>1, <2>1, <2>2, <2>3, <2>4, QuietGoOn
<1>4. QED
  BY <1>2, <1>3

LEMMA RecoverKeeps ==
  ASSUME ConfirmInv, NEW c \in Call, Recover(c)
  PROVE  ConfirmInv'
<1>1. TypeOK'
  BY QuietType DEF ConfirmInv
<1>2. UNCHANGED Rows /\ OnlyLocals(c) /\ UNCHANGED <<want, undo>> /\ step[c] = "recover" /\ Busy(c)
  <2>1. \A d \in Call \ {c} : failure'[d] = failure[d]
    BY DEF Recover, AfterFailure, ConfirmInv, TypeOK
  <2>2. QED
    BY <2>1 DEF Recover, Active, Busy, Idle, LookAtRow, Rows, OnlyLocals, service, ConfirmInv, TypeOK
<1>3. \/ AfterFailure(c, "unresolved")
      \/ \E o \in {"recovered", "indeterminate"} : End(c, o)
  BY DEF Recover
<1>4. {"recovered", "indeterminate"} \subseteq Outcome
  BY DEF Outcome
<1>5. QED
  BY <1>1, <1>2, <1>3, <1>4, AfterFailureKeeps, QuietEnd

-----------------------------------------------------------------------------
(* The quiet steps of a reviewed confirm. *)
LEMMA AsReviewedClient ==
  ASSUME ConfirmInv, NEW c \in Call, AsReviewed(c, row)
  PROVE  row.client = Expected(c) /\ row.rev = approved.row.rev
  BY DEF ConfirmInv, TypeOK, Row, AsReviewed, Expected

LEMMA RollbackReadKeeps ==
  ASSUME ConfirmInv, NEW c \in Call, RollbackRead(c)
  PROVE  ConfirmInv'
<1>1. TypeOK'
  BY QuietType DEF ConfirmInv
<1>2. /\ UNCHANGED Rows /\ OnlyLocals(c) /\ UNCHANGED <<want, undo, failure>>
      /\ step[c] = "rollbackRead" /\ Busy(c)
  BY DEF RollbackRead, Active, Busy, Idle, LookAtRow, Rows, OnlyLocals, service, ConfirmInv, TypeOK
<1>3. StandInv(c) /\ c \in Reviewed /\ undo[c] # Untouched
  BY <1>2 DEF ConfirmInv, StandInv, ReviewStepName, Wrote
<1>4. CASE AsReviewed(c, row) /\ Goto(c, "rollback")
  <2>1. step'[c] = "rollback" /\ outcome' = outcome /\ "rollback" \in Step \ Idle
    BY <1>4 DEF Goto, ConfirmInv, TypeOK, Step, Idle
  <2>2. row.client = want[c]
    BY <1>3, <1>4, AsReviewedClient DEF Expected
  <2>3. StandInv(c)'
    BY <1>2, <1>3, <2>1
       DEF StandInv, PlainStep, ReviewStepName, Wrote, MayHaveWritten
  <2>4. LookInv(c)'
    BY <1>2, <1>3, <2>1, <2>2 DEF LookInv, ReviewedInv, Rows
  <2>5. QED
    BY <1>1, <1>2, <1>4, <2>1, <2>3, <2>4, QuietGoOn
<1>5. ASSUME NEW o \in {"drift", "rollbackUnknown", "rollbackFailed"}, End(c, o) PROVE ConfirmInv'
  <2>1. o \in Outcome /\ want'[c] = want[c] /\ undo'[c] = undo[c]
    BY <1>2 DEF Outcome
  <2>2. Unregistered(c) \/ failure'[c] = "unresolved"
    BY <1>2, <1>3 DEF ConfirmInv, BookInv, StandInv
  <2>3. QED
    BY <1>1, <1>2, <1>5, <2>1, <2>2, QuietEnd
<1>6. QED
  BY <1>4, <1>5 DEF RollbackRead, FreshRow

LEMMA ReviewRowKeeps ==
  ASSUME ConfirmInv, NEW c \in Call,
         \/ ReviewRow(c, "reviewRow", "reviewInvoice")
         \/ ReviewRow(c, "reviewAgain", "update")
         \/ ReviewRow(c, "reviewWritten", "finalInvoice")
         \/ ReviewRow(c, "finalRow", "register")
  PROVE  ConfirmInv'
<1>1. PICK at \in {"reviewRow", "reviewAgain", "reviewWritten", "finalRow"},
           next \in {"reviewInvoice", "update", "finalInvoice", "register"} :
         /\ ReviewRow(c, at, next)
         /\ at = "reviewRow" <=> next = "reviewInvoice"
         /\ at = "reviewAgain" <=> next = "update"
         /\ at = "reviewWritten" <=> next = "finalInvoice"
         /\ at = "finalRow" <=> next = "register"
  OBVIOUS
<1>2. next \in Step \ Idle /\ next \notin {"recover", "rollbackRead", "rollback"}
  BY DEF Step, Idle, ReviewStepName
<1>3. TypeOK'
  BY <1>1, <1>2, ReviewRowType DEF ConfirmInv
<1>4. /\ UNCHANGED Rows /\ OnlyLocals(c) /\ UNCHANGED <<want, undo, failure>>
      /\ step[c] = at /\ Busy(c)
  BY <1>1 DEF ReviewRow, Active, Busy, Idle, LookAtRow, Rows, OnlyLocals, service, ConfirmInv, TypeOK
<1>5. StandInv(c) /\ c \in Reviewed /\ ReviewedInv(c)
  BY <1>4 DEF ConfirmInv, StandInv, PlainStep, ReviewStepName, Wrote, LookInv
<1>6. /\ todo'[c] = LinkedOf[c] /\ stale'[c] = stale[c] \ RowChange
      /\ at = "reviewRow" => saw'[c] = row.client
  BY <1>1 DEF ReviewRow, LookAtRow, FreshRow, ConfirmInv, TypeOK
<1>7. outcome[c] = "none" /\ Unregistered(c) /\ LinkedOf[c] \cap RowChange = {}
  <2>1. LinkedOf[c] \cap RowChange = {}
    BY ConfirmAssumption DEF RowChange
  <2>2. QED
    BY <1>1, <1>4, <2>1, NotYet
<1>8. CASE AsReviewed(c, row) /\ row.status = "PROJECT"
  <2>1. Goto(c, next)
    BY <1>1, <1>8 DEF ReviewRow, FreshRow
  <2>2. step'[c] = next /\ outcome' = outcome
    BY <2>1 DEF Goto, ConfirmInv, TypeOK
  <2>3. StandInv(c)'
    BY <1>1, <1>4, <1>5, <1>7, <2>2
       DEF StandInv, PlainStep, ReviewStepName, Wrote, MayHaveWritten
  <2>4. /\ row.client = Expected(c) /\ (Expected(c)' = Expected(c))
        /\ AsReviewed(c, row)' /\ row'.status = "PROJECT"
        /\ at = "reviewWritten" => undo[c] # Untouched /\ Expected(c) = want[c]
        /\ at = "reviewRow" => Expected(c) = approved.row.client
    BY <1>4, <1>5, <1>8, AsReviewedClient
       DEF Expected, AsReviewed, Rows, StandInv, Wrote, MayHaveWritten
  <2>5. ReviewedInv(c)'
    <3>1. CASE at = "reviewRow"
      BY <1>1, <1>4, <1>6, <2>2, <2>4, <3>1 DEF ReviewedInv, Rows
    <3>2. CASE at = "reviewAgain"
      BY <1>1, <1>4, <1>5, <2>2, <3>2 DEF ReviewedInv, Rows
    <3>3. CASE at = "reviewWritten"
      BY <1>1, <1>4, <1>5, <1>6, <2>2, <2>4, <3>3 DEF ReviewedInv, Rows
    <3>4. CASE at = "finalRow"
      <4>1. \A i \in LinkedOf[c] : Same(c, i, {approved.invoice[i]})'
        BY <1>4, <1>5, <1>6, <1>7, <3>4 DEF ReviewedInv, Rows, Same
      <4>2. \A i \in LinkedOf[c] : approved'.invoice[i] = Expected(c)'
        BY <1>4, <1>5, <2>4, <3>4 DEF ReviewedInv, Rows
      <4>3. QED
        BY <1>1, <2>2, <2>4, <3>4, <4>1, <4>2 DEF ReviewedInv
    <3>5. QED
      BY <3>1, <3>2, <3>3, <3>4
  <2>6. LookInv(c)'
    BY <1>5, <2>5 DEF LookInv
  <2>7. QED
    BY <1>1, <1>2, <1>3, <1>4, <2>1, <2>3, <2>6, QuietGoOn
<1>9. CASE ~(AsReviewed(c, row) /\ row.status = "PROJECT")
  <2>1. End(c, "drift") /\ "drift" \in Outcome
    BY <1>1, <1>9 DEF ReviewRow, FreshRow, Outcome
  <2>2. QED
    BY <1>3, <1>4, <1>7, <2>1, QuietEnd
<1>10. QED
  BY <1>8, <1>9

LEMMA FinalInvoiceKeeps ==
  ASSUME ConfirmInv, NEW c \in Call, FinalInvoice(c)
  PROVE  ConfirmInv'
<1>1. TypeOK'
  BY QuietType DEF ConfirmInv
<1>2. /\ UNCHANGED Rows /\ OnlyLocals(c) /\ UNCHANGED <<want, undo, failure>>
      /\ step[c] = "finalInvoice" /\ Busy(c)
  BY DEF FinalInvoice, Active, Busy, Idle, LookAtInvoice, Rows, OnlyLocals, service, ConfirmInv, TypeOK
<1>3. /\ StandInv(c) /\ c \in Reviewed /\ ReviewedInv(c)
      /\ outcome[c] = "none" /\ Unregistered(c)
  BY <1>2, NotYet DEF ConfirmInv, StandInv, ReviewStepName, LookInv
<1>4. ASSUME NEW s \in {"finalInvoice", "finalRow"}, Goto(c, s),
             s = "finalRow" => todo[c] = {} /\ stale' = stale,
             \A i \in LinkedOf[c] \ todo'[c] : Same(c, i, {approved.invoice[i]})'
      PROVE  ConfirmInv'
  <2>1. step'[c] = s /\ outcome' = outcome /\ s \in Step \ Idle
    BY <1>4 DEF Goto, ConfirmInv, TypeOK, Step, Idle, ReviewStepName
  <2>2. StandInv(c)'
    BY <1>2, <1>3, <2>1 DEF StandInv, PlainStep, ReviewStepName, Wrote, MayHaveWritten
  <2>3. Expected(c)' = Expected(c)
    BY <1>2 DEF Expected, Rows
  <2>4. \A i \in LinkedOf[c] : approved'.invoice[i] = Expected(c)'
    BY <1>2, <1>3, <2>3 DEF ReviewedInv, Rows
  <2>5. s = "finalRow" => \A i \in LinkedOf[c] : Same(c, i, {approved.invoice[i]})'
    BY <1>2, <1>3, <1>4 DEF ReviewedInv, Same, Rows
  <2>6. LookInv(c)'
    BY <1>3, <1>4, <2>1, <2>4, <2>5 DEF LookInv, ReviewedInv
  <2>7. QED
    BY <1>1, <1>2, <1>4, <2>1, <2>2, <2>6, QuietGoOn
<1>5. CASE todo[c] = {} /\ Goto(c, "finalRow") /\ UNCHANGED <<todo, stale, writer>>
  <2>1. \A i \in LinkedOf[c] \ todo'[c] : Same(c, i, {approved.invoice[i]})'
    BY <1>2, <1>3, <1>5 DEF ReviewedInv, Same, Rows
  <2>2. QED
    BY <1>4, <1>5, <2>1
<1>6. ASSUME NEW i \in todo[c], LookAtInvoice(c, i), todo' = [todo EXCEPT ![c] = @ \ {i}],
             IF invoice[i] # approved.invoice[i] THEN End(c, "drift")
                                                 ELSE UNCHANGED <<step, queue, outcome>>
      PROVE  ConfirmInv'
  <2>1. CASE invoice[i] # approved.invoice[i]
    <3>1. End(c, "drift") /\ "drift" \in Outcome
      BY <1>6, <2>1 DEF Outcome
    <3>2. QED
      BY <1>1, <1>2, <1>3, <3>1, QuietEnd
  <2>2. CASE invoice[i] = approved.invoice[i]
    <3>1. Goto(c, "finalInvoice")
      BY <1>2, <1>6, <2>2 DEF Goto, ConfirmInv, TypeOK
    <3>2. todo'[c] = todo[c] \ {i} /\ stale'[c] = stale[c] \ {i}
      BY <1>6 DEF LookAtInvoice, ConfirmInv, TypeOK
    <3>3. \A n \in LinkedOf[c] \ todo'[c] : Same(c, n, {approved.invoice[n]})'
      BY <1>2, <1>3, <2>2, <3>2 DEF ReviewedInv, Same, Rows
    <3>4. QED
      BY <1>4, <3>1, <3>3
  <2>3. QED
    BY <2>1, <2>2
<1>7. QED
  BY <1>5, <1>6 DEF FinalInvoice

LEMMA ReviewInvoiceKeeps ==
  ASSUME ConfirmInv, NEW c \in Call, ReviewInvoice(c)
  PROVE  ConfirmInv'
<1>1. TypeOK'
  BY GuardingType DEF ConfirmInv
<1>2. /\ UNCHANGED Rows /\ OnlyLocals(c) /\ UNCHANGED <<saw, undo, failure>>
      /\ step[c] = "reviewInvoice" /\ Busy(c)
  <2>1. \A d \in Call \ {c} : want'[d] = want[d] /\ todo'[d] = todo[d] /\ got'[d] = got[d]
    BY DEF ReviewInvoice, ReviewedTransition, ConfirmInv, TypeOK
  <2>2. \A d \in Call \ {c} : stale'[d] = stale[d]
    BY DEF ReviewInvoice, LookAtInvoice, ConfirmInv, TypeOK
  <2>3. QED
    BY <2>1, <2>2 DEF ReviewInvoice, Active, Busy, Idle, LookAtInvoice, Rows, OnlyLocals, service
<1>3. /\ StandInv(c) /\ c \in Reviewed /\ ReviewedInv(c) /\ undo[c] = Untouched
      /\ LinkedOf[c] \subseteq Invoice
  BY <1>2, ConfirmAssumption
     DEF ConfirmInv, StandInv, ReviewStepName, LookInv, MayHaveWritten, Wrote
<1>4. writer # c /\ outcome[c] = "none" /\ Unregistered(c)
  BY <1>2, <1>3, NotYet
<1>5. ASSUME End(c, "drift"), want' = want PROVE ConfirmInv'
  <2>1. "drift" \in Outcome
    BY DEF Outcome
  <2>2. QED
    BY <1>1, <1>2, <1>4, <1>5, <2>1, QuietEnd
<1>6. ASSUME NEW clients, ReviewedTransition(c, clients), todo'[c] = LinkedOf[c],
             \A i \in LinkedOf[c] : approved.invoice[i] \in clients
      PROVE  ConfirmInv'
  <2>1. CASE clients \subseteq {saw[c]} /\ Goto(c, "finalInvoice") /\ want' = want
    <3>1. step'[c] = "finalInvoice" /\ outcome' = outcome /\ "finalInvoice" \in Step \ Idle
      BY <2>1 DEF Goto, ConfirmInv, TypeOK, Step, Idle, ReviewStepName
    <3>2. StandInv(c)'
      BY <1>2, <1>3, <1>4, <2>1, <3>1
         DEF StandInv, PlainStep, ReviewStepName, Wrote, MayHaveWritten
    <3>3. \A i \in LinkedOf[c] : approved'.invoice[i] = Expected(c)'
      BY <1>2, <1>3, <1>6, <2>1 DEF Expected, ReviewedInv, Rows
    <3>4. LookInv(c)'
      BY <1>3, <1>6, <3>1, <3>3 DEF LookInv, ReviewedInv
    <3>5. QED
      BY <1>1, <1>2, <1>3, <1>4, <2>1, <3>1, <3>2, <3>4, QuietGoOn
  <2>2. ASSUME NEW k \in Client, clients = {k}, Goto(c, "reviewAgain"),
               want' = [want EXCEPT ![c] = k]
        PROVE  ConfirmInv'
    <3>1. /\ step'[c] = "reviewAgain" /\ outcome' = outcome /\ want'[c] = k
          /\ "reviewAgain" \in Step \ Idle
      BY <2>2 DEF Goto, ConfirmInv, TypeOK, Step, Idle, ReviewStepName
    <3>2. StandInv(c)'
      BY <1>2, <1>3, <1>4, <3>1
         DEF StandInv, PlainStep, ReviewStepName, Wrote, MayHaveWritten
    <3>3. LookInv(c)'
      BY <1>2, <1>3, <1>6, <2>2, <3>1 DEF LookInv, ReviewedInv, Rows
    <3>4. QED
      BY <1>1, <1>2, <1>3, <1>4, <2>2, <3>1, <3>2, <3>3, QuietGoOn
  <2>3. CASE End(c, "drift") /\ want' = want
    BY <1>5, <2>3
  <2>4. QED
    BY <1>6, <2>1, <2>2, <2>3 DEF ReviewedTransition
<1>7. CASE LinkedOf[c] = {} /\ ReviewedTransition(c, {}) /\ UNCHANGED <<got, todo, stale, writer>>
  <2>1. todo'[c] = LinkedOf[c]
    BY <1>2, <1>3, <1>7 DEF ReviewedInv
  <2>2. QED
    BY <1>6, <1>7, <2>1
<1>8. ASSUME NEW i \in todo[c], LookAtInvoice(c, i), got' = [got EXCEPT ![c] = Seen(c, i)],
             \/ /\ invoice[i] # approved.invoice[i] \/ invoice[i] = NoClient
                /\ End(c, "drift") /\ UNCHANGED <<want, todo>>
             \/ /\ invoice[i] = approved.invoice[i] /\ invoice[i] # NoClient
                /\ IF todo[c] = {i}
                     THEN /\ todo' = [todo EXCEPT ![c] = LinkedOf[c]]
                          /\ ReviewedTransition(c, Seen(c, i))
                     ELSE /\ todo' = [todo EXCEPT ![c] = @ \ {i}]
                          /\ UNCHANGED <<step, queue, outcome, want>>
      PROVE  ConfirmInv'
  <2>1. CASE End(c, "drift") /\ want' = want
    BY <1>5, <2>1
  <2>2. CASE invoice[i] = approved.invoice[i] /\ invoice[i] # NoClient
    <3>1. \A n \in LinkedOf[c] \ (todo[c] \ {i}) : approved.invoice[n] \in Seen(c, i)
      BY <1>2, <1>3, <2>2 DEF ReviewedInv, Seen
    <3>2. CASE todo[c] = {i}
      <4>1. todo'[c] = LinkedOf[c] /\ ReviewedTransition(c, Seen(c, i))
        BY <1>8, <2>2, <3>2 DEF ConfirmInv, TypeOK
      <4>2. QED
        BY <1>6, <3>1, <3>2, <4>1
    <3>3. CASE todo[c] # {i}
      <4>1. /\ Goto(c, "reviewInvoice") /\ want' = want /\ step' = step /\ outcome' = outcome
            /\ todo'[c] = todo[c] \ {i} /\ got'[c] = Seen(c, i)
        BY <1>2, <1>8, <2>2, <3>3 DEF Goto, ConfirmInv, TypeOK
      <4>2. StandInv(c)'
        BY <1>2, <1>3, <4>1 DEF StandInv
      <4>3. LookInv(c)'
        BY <1>2, <1>3, <3>1, <4>1 DEF LookInv, ReviewedInv, Rows
      <4>4. "reviewInvoice" \in Step \ Idle
        BY DEF Step, Idle, ReviewStepName
      <4>5. QED
        BY <1>1, <1>2, <1>3, <1>4, <4>1, <4>2, <4>3, <4>4, QuietGoOn
    <3>4. QED
      BY <3>2, <3>3
  <2>3. QED
    BY <1>8, <2>1, <2>2
<1>9. QED
  BY <1>7, <1>8 DEF ReviewInvoice

-----------------------------------------------------------------------------
(* Writes that reach the service, of a call or of its past. *)
Registration(w, late) ==
    [by |-> w.call, late |-> late, again |-> row.status = "CONFIRMED", stale |-> stale[w.call],
     client |-> row.client, rev |-> row.rev, invoice |-> invoice]

LEMMA ApplyEffect ==
  ASSUME ConfirmInv, NEW w \in Write, NEW late \in BOOLEAN, Apply(w, late)
  PROVE  /\ w.op = "client" => /\ Booked' = Booked /\ row'.client = w.client
                               /\ writer' = IF w.client = undo[w.call] THEN Untouched ELSE w.call
         /\ w.op # "client" => /\ Booked' = Booked \cup {Registration(w, late)}
                               /\ row.client # NoClient /\ row'.client = row.client
                               /\ writer' = writer
<1>1. CASE w.op = "client"
  BY <1>1 DEF Apply, ApplyClient, Booked, ConfirmInv, TypeOK, Row
<1>2. CASE w.op # "client"
  <2>1. /\ row.client # NoClient /\ row' = [row EXCEPT !.status = "CONFIRMED"]
        /\ journals' = Append(journals, Registration(w, late)) /\ writer' = writer
    BY <1>2 DEF Apply, ApplyRegister, Registration
  <2>2. row'.client = row.client
    BY <2>1 DEF ConfirmInv, TypeOK, Row
  <2>3. /\ Len(journals) \in Nat /\ Len(journals') = Len(journals) + 1
        /\ journals'[Len(journals) + 1] = Registration(w, late)
        /\ \A n \in 1..Len(journals) : journals'[n] = journals[n]
    BY <2>1 DEF ConfirmInv, TypeOK
  <2>4. Booked' = Booked \cup {Registration(w, late)}
    BY <2>3 DEF Booked
  <2>5. QED
    BY <1>2, <2>1, <2>2, <2>4
<1>3. QED
  BY <1>1, <1>2

(* The books keep their properties while only late journals are added. *)
LEMMA BooksKept ==
  ASSUME BooksInv, approved' = approved, \A j \in Booked' \ Booked : j.late
  PROVE  BooksInv'
  BY DEF BooksInv, ReceiptUnderInvoiceClient, NoSecondRegistration, ReviewedBooksWhatWasApproved

(* A call that registers now books what its property demands. *)
LEMMA RegistersWell ==
  ASSUME ConfirmInv, NEW c \in Call, step[c] = "register", row.client # NoClient,
         NEW w \in Write, w.call = c, approved' = approved,
         Booked' \subseteq Booked \cup {Registration(w, FALSE)}
  PROVE  BooksInv'
<1> DEFINE j == Registration(w, FALSE)
<1>1. /\ j.by = c /\ j.stale = stale[c] /\ j.client = row.client /\ j.rev = row.rev
      /\ j.invoice = invoice /\ j.again = (row.status = "CONFIRMED")
  BY DEF Registration
<1>2. LookInv(c)
  BY DEF ConfirmInv
<1>3. /\ \A i \in LinkedOf[c] : /\ j.invoice[i] \in {NoClient, j.client} \/ "row" \in j.stale
                                   \/ i \in j.stale
                                /\ c \in Reviewed => j.invoice[i] = approved.invoice[i] \/ i \in j.stale
      /\ j.again => "status" \in j.stale
      /\ c \in Reviewed => j.rev = approved.row.rev \/ "row" \in j.stale
  <2>1. CASE c \in Reviewed
    <3>1. ReviewedInv(c)
      BY <1>2, <2>1 DEF LookInv
    <3>2. AsReviewed(c, row) => row.client = Expected(c) /\ row.rev = approved.row.rev
      BY AsReviewedClient
    <3>3. \/ row.client = Expected(c) /\ row.rev = approved.row.rev /\ row.status # "CONFIRMED"
          \/ "row" \in stale[c] /\ "status" \in stale[c]
      BY <3>1, <3>2 DEF ReviewedInv, RowChange
    <3>4. \A i \in LinkedOf[c] : /\ approved.invoice[i] = Expected(c)
                                 /\ i \in stale[c] \/ invoice[i] = approved.invoice[i]
      BY <3>1 DEF ReviewedInv, Same
    <3>5. QED
      BY <1>1, <3>3, <3>4
  <2>2. CASE c \notin Reviewed
    <3>1. PlainInv(c)
      BY <1>2, <2>2 DEF LookInv
    <3>2. /\ row.status # "CONFIRMED" \/ "status" \in stale[c]
          /\ \A i \in LinkedOf[c] : \/ "row" \in stale[c] \/ i \in stale[c]
                                    \/ invoice[i] \in {NoClient, row.client}
      BY <3>1 DEF PlainInv, Same
    <3>3. QED
      BY <1>1, <2>2, <3>2
  <2>3. QED
    BY <2>1, <2>2
<1> HIDE DEF j
<1>4. Booked' \subseteq Booked \cup {j}
  BY DEF j
<1>5. BooksInv
  BY DEF ConfirmInv
<1>6. QED
  BY <1>1, <1>3, <1>4, <1>5
     DEF BooksInv, ReceiptUnderInvoiceClient, NoSecondRegistration, ReviewedBooksWhatWasApproved

(* What a request of call c does to the calls of others. *)
LEMMA SendOthers ==
  ASSUME ConfirmInv, NEW c \in Call, Busy(c), NEW w \in Write, w.call = c, NEW reply,
         Send(c, w, reply), UNCHANGED <<invoice, approved>>,
         NEW d \in Call \ {c}, Still(d)
  PROVE  StandInv(d)' /\ LookInv(d)' /\ BookInv(d)'
<1>1. StandInv(d) /\ LookInv(d) /\ BookInv(d) /\ d \in Call /\ TypeOK /\ GateInv
  BY DEF ConfirmInv
<1>2. Unregistered(d) => Unregistered(d)'
  <2>1. CASE Apply(w, FALSE) /\ UNCHANGED flying
    <3>1. Booked' \subseteq Booked \cup {Registration(w, FALSE)}
      BY <2>1, ApplyEffect
    <3>2. Registration(w, FALSE).by = c
      BY DEF Registration
    <3>3. QED
      BY <2>1, <3>1, <3>2 DEF Unregistered
  <2>2. CASE Unapplied /\ flying' \in {flying, flying \cup {w}}
    BY <2>2 DEF Unapplied, Unregistered, Booked
  <2>3. QED
    BY <2>1, <2>2 DEF Send
<1>3. \/ /\ row' = row /\ stale'[d] = stale[d]
      \/ stale'[d] = stale[d] \cup (RowChange \cap Unwatched(d))
      \/ Unwatched(d) = {} /\ stale'[d] = stale[d]
  <2>1. CASE Unapplied
    BY <2>1 DEF Unapplied
  <2>2. CASE Outdate(Others(c), RowChange)
    <3>1. stale'[d] = IF d \in Others(c) THEN stale[d] \cup (RowChange \cap Unwatched(d))
                                         ELSE stale[d]
      BY <2>2 DEF Outdate
    <3>2. CASE d \in Others(c)
      BY <3>1, <3>2
    <3>3. CASE d \notin Others(c)
      <4>1. step[d] \in Idle
        BY <1>1, <3>3, Alone DEF Others
      <4>2. Unwatched(d) = {}
        BY <4>1 DEF Unwatched, Idle
      <4>3. QED
        BY <3>1, <3>3, <4>2
    <3>4. QED
      BY <3>2, <3>3
  <2>3. QED
    BY <2>1, <2>2 DEF Send
<1>4. LookInv(d)'
  BY <1>1, <1>3, StillLook
<1>5. QED
  BY <1>1, <1>2, <1>4, StillStand, StillBook

(* The two outcomes of a request: it is applied now, or not. *)
LEMMA SendCases ==
  ASSUME ConfirmInv, NEW c \in Call, NEW w \in Write, NEW reply \in {"ok", "rejected", "unknown"},
         Send(c, w, reply)
  PROVE  \/ reply \in {"ok", "unknown"} /\ Apply(w, FALSE) /\ flying' = flying
         \/ /\ reply \in {"rejected", "unknown"} /\ UNCHANGED <<row, journals, writer>>
            /\ flying' = flying \/ (reply = "unknown" /\ flying' = flying \cup {w})
  BY DEF Send, Unapplied

(* The part of WriterInv about the writes on their way, kept when c leaves step s. *)
Flown(w) ==
    /\ step[w.call] \in {"over", "recover", "rollbackRead", "rollback"}
    /\ w.op = "client" =>
          /\ step[w.call] = "over" /\ w.client \in MaybeClient
          /\ \/ w.client = undo[w.call]
             \/ w.client = want[w.call] /\ outcome[w.call] = "indeterminate"

LEMMA FlownKept ==
  ASSUME ConfirmInv, NEW c \in Call, Busy(c), \A d \in Call \ {c} : Still(d),
         step[c] \in {"recover", "rollbackRead", "rollback"} =>
            step'[c] \in {"over", "recover", "rollbackRead", "rollback"},
         NEW v \in flying
  PROVE  Flown(v)'
<1>1. v.call \in Call /\ Flown(v)
  BY DEF ConfirmInv, TypeOK, Write, WriterInv, Flown
<1>2. CASE v.call = c
  BY <1>1, <1>2 DEF Flown, Busy, Idle
<1>3. CASE v.call # c
  BY <1>1, <1>3 DEF Flown, Still
<1>4. QED
  BY <1>2, <1>3

LEMMA UpdateClientKeeps ==
  ASSUME ConfirmInv, NEW c \in Call, UpdateClient(c)
  PROVE  ConfirmInv'
<1> DEFINE w == [op |-> "client", call |-> c, client |-> want[c]]
<1>1. TypeOK'
  BY WritingType
<1>2. step[c] = "update" /\ Busy(c) /\ want[c] \in Client /\ undo[c] = Untouched
  BY DEF UpdateClient, Active, Busy, Idle, ConfirmInv, StandInv, MayHaveWritten, Wrote
<1>3. outcome[c] = "none" /\ writer # c /\ Unregistered(c)
  BY <1>2, NotYet
<1>4. PICK reply \in {"ok", "rejected", "unknown"} :
         /\ Send(c, w, reply)
         /\ \/ /\ reply = "ok"
               /\ undo' = [undo EXCEPT ![c] = saw[c]]
               /\ Goto(c, IF c \in Reviewed THEN "reviewWritten" ELSE "assertRow")
            \/ reply = "rejected" /\ End(c, "rejected") /\ UNCHANGED undo
            \/ reply = "unknown" /\ End(c, "indeterminate") /\ UNCHANGED undo
  BY DEF UpdateClient
<1>5. w \in Write /\ w.call = c /\ w.op = "client" /\ w.client = want[c] /\ w.client \in MaybeClient
  BY <1>2 DEF Write, MaybeClient
<1> HIDE DEF w
<1>6. UNCHANGED <<invoice, saw, got, todo, want, failure, approved>>
  BY DEF UpdateClient
<1>7. \A d \in Call \ {c} : Still(d)
  BY <1>4, <1>6 DEF Still, Goto, End, ConfirmInv, TypeOK
<1>8. \/ /\ reply \in {"ok", "unknown"} /\ Booked' = Booked /\ row'.client = want[c]
         /\ writer' = c /\ flying' = flying
      \/ /\ reply \in {"rejected", "unknown"} /\ Booked' = Booked /\ row' = row /\ writer' = writer
         /\ flying' = flying \/ (reply = "unknown" /\ flying' = flying \cup {w})
  <2>1. want[c] # undo[c]
    BY <1>2, ConfirmAssumption
  <2>2. UNCHANGED <<row, journals, writer>> => Booked' = Booked
    BY DEF Booked
  <2>3. Apply(w, FALSE) => Booked' = Booked /\ row'.client = want[c] /\ writer' = c
    BY <1>5, <2>1, ApplyEffect
  <2>4. \/ reply \in {"ok", "unknown"} /\ Apply(w, FALSE) /\ flying' = flying
        \/ /\ reply \in {"rejected", "unknown"} /\ UNCHANGED <<row, journals, writer>>
           /\ flying' = flying \/ (reply = "unknown" /\ flying' = flying \cup {w})
    BY <1>4, <1>5, SendCases
  <2>5. QED
    BY <2>2, <2>3, <2>4
<1>9. /\ undo'[c] = IF reply = "ok" THEN saw[c] ELSE Untouched
      /\ step'[c] = IF reply = "ok" THEN IF c \in Reviewed THEN "reviewWritten" ELSE "assertRow"
                    ELSE "over"
      /\ outcome'[c] = CASE reply = "ok" -> "none" [] reply = "rejected" -> "rejected"
                         [] reply = "unknown" -> "indeterminate"
      /\ saw[c] # Untouched
  BY <1>2, <1>3, <1>4, ConfirmAssumption DEF Goto, End, ConfirmInv, TypeOK, MaybeClient
<1>10. GateInv'
  <2>1. CASE reply = "ok"
    <3>1. {"reviewWritten", "assertRow"} \subseteq Step \ Idle
      BY DEF Step, Idle, PlainStep, ReviewStepName
    <3>2. QED
      BY <1>2, <1>4, <2>1, <3>1, GoOnGate DEF Goto, ConfirmInv
  <2>2. CASE reply # "ok"
    BY <1>2, <1>4, <2>2, EndGate DEF ConfirmInv
  <2>3. QED
    BY <2>1, <2>2
<1>11. \A d \in Call \ {c} : StandInv(d)' /\ LookInv(d)' /\ BookInv(d)'
  BY <1>2, <1>4, <1>5, <1>6, <1>7, SendOthers
<1>12. StandInv(c)'
  <2>1. StandInv(c) /\ want'[c] = want[c]
    BY <1>6 DEF ConfirmInv
  <2>2. QED
    BY <1>2, <1>3, <1>9, <2>1 DEF StandInv, PlainStep, ReviewStepName, Wrote, MayHaveWritten
<1>13. LookInv(c)'
  <2>1. CASE reply # "ok"
    BY <1>9, <2>1 DEF LookInv, PlainInv, ReviewedInv
  <2>2. CASE reply = "ok" /\ c \in Reviewed
    <3>1. ReviewedInv(c)
      BY <2>2 DEF ConfirmInv, LookInv
    <3>2. QED
      BY <1>2, <1>6, <1>9, <2>2, <3>1 DEF LookInv, ReviewedInv
  <2>3. CASE reply = "ok" /\ c \notin Reviewed
    <3>1. PlainInv(c)
      BY <2>3 DEF ConfirmInv, LookInv
    <3>2. Apply(w, FALSE) /\ Outdate(Others(c), RowChange)
      BY <1>4, <2>3 DEF Send
    <3>3. row'.status = row.status /\ stale'[c] = stale[c]
      BY <1>5, <3>2 DEF Apply, ApplyClient, Outdate, Others, ConfirmInv, TypeOK, Row
    <3>4. QED
      BY <1>2, <1>6, <1>9, <2>3, <3>1, <3>3 DEF LookInv, PlainInv, Same
  <2>4. QED
    BY <2>1, <2>2, <2>3
<1>14. BookInv(c)'
  <2>1. Unregistered(c)'
    BY <1>3, <1>5, <1>8 DEF Unregistered
  <2>2. QED
    BY <2>1 DEF BookInv, RejectionIsFinal, FailedUnregistered, Unregistered
<1>15. WriterInv'
  <2>1. ASSUME NEW d \in Call, writer' = d
        PROVE  row'.client = want'[d] /\ (undo'[d] # Untouched \/ outcome'[d] = "indeterminate")
    <3>1. CASE d = c
      BY <1>3, <1>6, <1>8, <1>9, <2>1, <3>1
    <3>2. CASE d # c
      <4>1. writer = d /\ row' = row
        BY <1>8, <2>1, <3>2
      <4>2. Still(d)
        BY <1>7, <3>2
      <4>3. QED
        BY <4>1, <4>2 DEF ConfirmInv, WriterInv, Still
    <3>3. QED
      BY <3>1, <3>2
  <2>2. ASSUME NEW d \in Call, outcome'[d] \in {"refused", "rejected", "unresolved"}
        PROVE  writer' # d
    <3>1. CASE d = c
      BY <1>3, <1>8, <1>9, <2>2, <3>1
    <3>2. CASE d # c
      BY <1>7, <1>8, <2>2, <3>2 DEF ConfirmInv, WriterInv, Still
    <3>3. QED
      BY <3>1, <3>2
  <2>3. ASSUME NEW v \in flying' PROVE Flown(v)'
    <3>1. CASE v \in flying
      BY <1>2, <1>7, <3>1, FlownKept
    <3>2. CASE v \notin flying
      <4>1. v = w /\ reply = "unknown"
        BY <1>8, <3>2
      <4>2. QED
        BY <1>5, <1>6, <1>9, <4>1 DEF Flown
    <3>3. QED
      BY <3>1, <3>2
  <2>4. QED
    BY <2>1, <2>2, <2>3 DEF WriterInv, Flown
<1>16. BooksInv'
  BY <1>6, <1>8, BooksKept DEF ConfirmInv
<1>17. QED
  BY <1>1, <1>10, <1>11, <1>12, <1>13, <1>14, <1>15, <1>16 DEF ConfirmInv

(* The part of WriterInv about the calls that stand still, whatever request c makes. *)
LEMMA SendWriter ==
  ASSUME ConfirmInv, NEW c \in Call, Busy(c), NEW w \in Write, w.call = c,
         NEW reply \in {"ok", "rejected", "unknown"}, Send(c, w, reply),
         \A d \in Call \ {c} : Still(d),
         step[c] \in {"rollbackRead", "rollback"} =>
            step'[c] \in {"over", "recover", "rollbackRead", "rollback"},
         step[c] # "recover",
         writer' = c => /\ row'.client = want'[c]
                        /\ undo'[c] # Untouched \/ outcome'[c] = "indeterminate",
         outcome'[c] \in {"refused", "rejected", "unresolved"} => writer' # c,
         reply = "unknown" => Flown(w)'
  PROVE  WriterInv'
<1>1. \/ Apply(w, FALSE) /\ flying' = flying
      \/ /\ UNCHANGED <<row, journals, writer>>
         /\ flying' = flying \/ (reply = "unknown" /\ flying' = flying \cup {w})
  BY SendCases
<1>2. ASSUME NEW d \in Call \ {c}, writer' = d PROVE writer = d /\ row'.client = row.client
  <2>1. CASE Apply(w, FALSE) /\ w.op = "client"
    BY <1>2, <2>1, ApplyEffect, ConfirmAssumption
  <2>2. CASE Apply(w, FALSE) /\ w.op # "client"
    BY <1>2, <2>2, ApplyEffect
  <2>3. CASE UNCHANGED <<row, journals, writer>>
    BY <1>2, <2>3
  <2>4. QED
    BY <1>1, <2>1, <2>2, <2>3
<1>3. \A d \in Call \ {c} : writer' # d \/ writer = d
  BY <1>2
<1>4. ASSUME NEW d \in Call, writer' = d
      PROVE  row'.client = want'[d] /\ (undo'[d] # Untouched \/ outcome'[d] = "indeterminate")
  <2>1. CASE d = c
    BY <1>4, <2>1
  <2>2. CASE d # c
    <3>1. writer = d /\ row'.client = row.client /\ Still(d)
      BY <1>2, <1>4, <2>2
    <3>2. QED
      BY <3>1 DEF ConfirmInv, WriterInv, Still
  <2>3. QED
    BY <2>1, <2>2
<1>5. ASSUME NEW d \in Call, outcome'[d] \in {"refused", "rejected", "unresolved"}
      PROVE  writer' # d
  <2>1. CASE d = c
    BY <1>5, <2>1
  <2>2. CASE d # c
    <3>1. Still(d) /\ (writer' = d => writer = d)
      BY <1>3, <2>2
    <3>2. QED
      BY <1>5, <3>1 DEF ConfirmInv, WriterInv, Still
  <2>3. QED
    BY <2>1, <2>2
<1>6. ASSUME NEW v \in flying' PROVE Flown(v)'
  <2>1. CASE v \in flying
    BY <2>1, FlownKept
  <2>2. CASE v \notin flying
    <3>1. v = w /\ reply = "unknown"
      BY <1>1, <1>6, <2>2
    <3>2. QED
      BY <3>1
  <2>3. QED
    BY <2>1, <2>2
<1>7. QED
  BY <1>4, <1>5, <1>6 DEF WriterInv, Flown

LEMMA RegisterKeeps ==
  ASSUME ConfirmInv, NEW c \in Call, Register(c)
  PROVE  ConfirmInv'
<1> DEFINE w == [op |-> "register", call |-> c, client |-> Untouched]
<1>1. TypeOK'
  BY WritingType
<1>2. step[c] = "register" /\ Busy(c)
  BY DEF Register, Active, Busy, Idle
<1>3. /\ outcome[c] = "none" /\ Unregistered(c) /\ StandInv(c)
      /\ undo[c] = Untouched => writer # c
  BY <1>2, NotYet DEF ConfirmInv
<1>4. PICK reply \in {"ok", "rejected", "unknown"} :
         /\ Send(c, w, reply)
         /\ \/ reply = "ok" /\ End(c, "registered") /\ UNCHANGED failure
            \/ reply = "rejected" /\ AfterFailure(c, "rejected")
            \/ reply = "unknown" /\ Goto(c, "recover") /\ UNCHANGED failure
  BY DEF Register
<1>5. w \in Write /\ w.call = c /\ w.op = "register"
  BY DEF Write
<1> HIDE DEF w
<1>6. UNCHANGED <<invoice, saw, got, todo, want, undo, approved>>
  BY DEF Register
<1>7. \/ /\ reply = "ok" /\ End(c, "registered") /\ failure' = failure
         /\ step'[c] = "over" /\ outcome'[c] = "registered"
      \/ /\ reply = "rejected" /\ undo[c] = Untouched /\ End(c, "rejected") /\ failure' = failure
         /\ step'[c] = "over" /\ outcome'[c] = "rejected"
      \/ /\ reply = "rejected" /\ undo[c] # Untouched /\ c \in Reviewed /\ Goto(c, "rollbackRead")
         /\ failure' = [failure EXCEPT ![c] = "rejected"] /\ failure'[c] = "rejected"
         /\ step'[c] = "rollbackRead" /\ outcome' = outcome
      \/ /\ reply = "rejected" /\ undo[c] # Untouched /\ c \notin Reviewed /\ Goto(c, "rollback")
         /\ failure' = [failure EXCEPT ![c] = "rejected"] /\ failure'[c] = "rejected"
         /\ step'[c] = "rollback" /\ outcome' = outcome
      \/ /\ reply = "unknown" /\ Goto(c, "recover") /\ failure' = failure
         /\ step'[c] = "recover" /\ outcome' = outcome
  <2>1. /\ \A s : Goto(c, s) => step'[c] = s /\ outcome' = outcome
        /\ \A o : End(c, o) => step'[c] = "over" /\ outcome'[c] = o
        /\ \A f : failure' = [failure EXCEPT ![c] = f] => failure'[c] = f
    BY DEF Goto, End, ConfirmInv, TypeOK
  <2>2. QED
    BY <1>4, <2>1 DEF AfterFailure
<1>8. \A d \in Call \ {c} : Still(d)
  <2>1. /\ \A d \in Call \ {c} : step'[d] = step[d] /\ outcome'[d] = outcome[d]
    BY <1>7 DEF Goto, End, ConfirmInv, TypeOK
  <2>2. \A d \in Call \ {c} : failure'[d] = failure[d]
    BY <1>7 DEF ConfirmInv, TypeOK
  <2>3. QED
    BY <1>6, <2>1, <2>2 DEF Still
<1>9. GateInv'
  <2>1. {"rollbackRead", "rollback", "recover"} \subseteq Step \ Idle
    BY DEF Step, Idle, ReviewStepName
  <2>2. ASSUME NEW s \in {"rollbackRead", "rollback", "recover"}, Goto(c, s) PROVE GateInv'
    BY <1>2, <2>1, <2>2, GoOnGate DEF Goto, ConfirmInv
  <2>3. ASSUME NEW o, End(c, o) PROVE GateInv'
    BY <1>2, <2>3, EndGate DEF ConfirmInv
  <2>4. QED
    BY <1>7, <2>2, <2>3
<1>10. \A d \in Call \ {c} : StandInv(d)' /\ LookInv(d)' /\ BookInv(d)'
  BY <1>2, <1>4, <1>5, <1>6, <1>8, SendOthers
<1>11. StandInv(c)'
  BY <1>2, <1>3, <1>6, <1>7 DEF StandInv, PlainStep, ReviewStepName, Wrote, MayHaveWritten
<1>12. LookInv(c)'
  BY <1>7 DEF LookInv, PlainInv, ReviewedInv
<1>13. reply = "rejected" => UNCHANGED <<row, journals, writer>> /\ flying' = flying
  BY <1>4 DEF Send, Unapplied
<1>14. reply = "rejected" => Unregistered(c)'
  BY <1>3, <1>13 DEF Unregistered, Booked
<1>15. BookInv(c)'
  BY <1>3, <1>7, <1>14 DEF BookInv, RejectionIsFinal, FailedUnregistered, Unregistered
<1>16. /\ writer' = writer /\ row'.client = row.client
       /\ Booked' # Booked => /\ row.client # NoClient
                              /\ Booked' = Booked \cup {Registration(w, FALSE)}
  <2>1. Apply(w, FALSE) \/ UNCHANGED <<row, journals, writer>>
    BY <1>4, SendCases, <1>5
  <2>2. UNCHANGED <<row, journals, writer>> => Booked' = Booked
    BY DEF Booked
  <2>3. QED
    BY <1>5, <2>1, <2>2, ApplyEffect
<1>17. BooksInv'
  <2>1. CASE Booked' = Booked
    BY <1>6, <2>1, BooksKept DEF ConfirmInv
  <2>2. CASE Booked' # Booked
    BY <1>2, <1>5, <1>6, <1>16, <2>2, RegistersWell
  <2>3. QED
    BY <2>1, <2>2
<1>18. WriterInv'
  <2>1. writer' = c => row'.client = want'[c] /\ undo'[c] # Untouched
    BY <1>3, <1>6, <1>16 DEF ConfirmInv, WriterInv
  <2>2. outcome'[c] \in {"refused", "rejected", "unresolved"} => writer' # c
    BY <1>3, <1>7, <1>16
  <2>3. reply = "unknown" => Flown(w)'
    BY <1>5, <1>7 DEF Flown
  <2>4. QED
    BY <1>2, <1>4, <1>5, <1>8, <2>1, <2>2, <2>3, SendWriter
<1>19. QED
  BY <1>1, <1>9, <1>10, <1>11, <1>12, <1>15, <1>17, <1>18 DEF ConfirmInv

LEMMA RollbackKeeps ==
  ASSUME ConfirmInv, NEW c \in Call, Rollback(c)
  PROVE  ConfirmInv'
<1>1. TypeOK'
  BY WritingType
<1>2. step[c] = "rollback" /\ Busy(c) /\ undo[c] \in MaybeClient /\ undo[c] # Untouched
  BY DEF Rollback, Active, Busy, Idle, ConfirmInv, TypeOK, StandInv, Wrote
<1>3. /\ failure[c] \in {"rejected", "unresolved"}
      /\ failure[c] = "rejected" => Unregistered(c)
  BY <1>2 DEF ConfirmInv, StandInv, BookInv
<1>4. PICK reply \in {"ok", "rejected", "unknown"}, w \in Write :
         /\ w = [op |-> "client", call |-> c, client |-> undo[c]]
         /\ Send(c, w, reply)
         /\ End(c, CASE reply = "ok" -> failure[c]
                     [] reply = "rejected" -> "rollbackFailed"
                     [] reply = "unknown" -> "rollbackUnknown")
  <2>1. [op |-> "client", call |-> c, client |-> undo[c]] \in Write
    BY <1>2 DEF Write
  <2>2. QED
    BY <2>1 DEF Rollback
<1>5. w.call = c /\ w.op = "client" /\ w.client = undo[c]
  BY <1>4
<1>6. UNCHANGED <<invoice, saw, got, todo, want, undo, failure, approved>>
  BY DEF Rollback
<1>7. /\ step'[c] = "over" /\ outcome'[c] \in Outcome
      /\ reply = "ok" => outcome'[c] = failure[c]
      /\ reply = "rejected" => outcome'[c] = "rollbackFailed"
      /\ reply = "unknown" => outcome'[c] = "rollbackUnknown"
  BY <1>1, <1>4 DEF End, ConfirmInv, TypeOK
<1>8. \A d \in Call \ {c} : Still(d)
  BY <1>4, <1>6 DEF Still, End, ConfirmInv, TypeOK
<1>9. GateInv'
  BY <1>2, <1>4, EndGate DEF ConfirmInv
<1>10. \A d \in Call \ {c} : StandInv(d)' /\ LookInv(d)' /\ BookInv(d)'
  BY <1>2, <1>4, <1>5, <1>6, <1>8, SendOthers
<1>11. StandInv(c)'
  <2>1. StandInv(c)
    BY DEF ConfirmInv
  <2>2. QED
    BY <1>2, <1>6, <1>7, <2>1 DEF StandInv, PlainStep, ReviewStepName, Wrote, MayHaveWritten
<1>12. LookInv(c)'
  BY <1>7 DEF LookInv, PlainInv, ReviewedInv
<1>13. /\ Booked' = Booked
       /\ flying' = flying \/ flying' = flying \cup {w}
       /\ reply = "ok" => writer' = Untouched
       /\ writer' = Untouched \/ (writer' = writer /\ row' = row)
  <2>1. \/ reply \in {"ok", "unknown"} /\ Apply(w, FALSE) /\ flying' = flying
        \/ /\ reply \in {"rejected", "unknown"} /\ UNCHANGED <<row, journals, writer>>
           /\ flying' = flying \/ flying' = flying \cup {w}
    BY <1>4, <1>5, SendCases
  <2>2. Apply(w, FALSE) => Booked' = Booked /\ writer' = Untouched
    BY <1>5, ApplyEffect
  <2>3. UNCHANGED <<row, journals, writer>> => Booked' = Booked
    BY DEF Booked
  <2>4. QED
    BY <2>1, <2>2, <2>3
<1>14. BookInv(c)'
  <2>1. Unregistered(c) => Unregistered(c)'
    BY <1>5, <1>13 DEF Unregistered
  <2>2. failure'[c] = failure[c] /\ (outcome'[c] = "rejected" => failure[c] = "rejected")
    BY <1>6, <1>7
  <2>3. FailedUnregistered(c)' => Unregistered(c)'
    BY <1>3, <1>4, <1>7, <2>1, <2>2 DEF FailedUnregistered
  <2>4. QED
    BY <1>7, <2>3 DEF BookInv, RejectionIsFinal
<1>15. BooksInv'
  BY <1>6, <1>13, BooksKept DEF ConfirmInv
<1>16. WriterInv'
  <2>1. writer' = c => row'.client = want'[c] /\ undo'[c] # Untouched
    BY <1>2, <1>6, <1>13, ConfirmAssumption DEF ConfirmInv, WriterInv
  <2>2. outcome'[c] \in {"refused", "rejected", "unresolved"} => writer' # c
    BY <1>4, <1>7, <1>13, ConfirmAssumption
  <2>3. reply = "unknown" => Flown(w)'
    BY <1>2, <1>5, <1>6, <1>7 DEF Flown
  <2>4. QED
    BY <1>2, <1>4, <1>5, <1>7, <1>8, <2>1, <2>2, <2>3, SendWriter
<1>17. QED
  BY <1>1, <1>9, <1>10, <1>11, <1>12, <1>14, <1>15, <1>16 DEF ConfirmInv

-----------------------------------------------------------------------------
(* What is not a call's own step past the gate. *)
LEMMA EnqueueKeeps ==
  ASSUME ConfirmInv, NEW c \in Call, Enqueue(c)
  PROVE  ConfirmInv'
<1>1. TypeOK' /\ GateInv'
  BY QuietType, EnqueueGate DEF ConfirmInv
<1>2. /\ step[c] = "idle" /\ step'[c] = "queued" /\ UNCHANGED Rows /\ UNCHANGED locals
      /\ stale' = stale /\ \A d \in Call \ {c} : step'[d] = step[d]
  BY DEF Enqueue, Rows, service, history, ConfirmInv, TypeOK
<1>3. \A d \in Call \ {c} : Still(d) /\ stale'[d] = stale[d]
  BY <1>2 DEF Still, locals
<1>4. StandInv(c) /\ BookInv(c)
  BY DEF ConfirmInv
<1>5. StandInv(c)'
  BY <1>2, <1>4 DEF StandInv, locals, PlainStep, ReviewStepName, Wrote, MayHaveWritten
<1>6. LookInv(c)'
  BY <1>2 DEF LookInv, PlainInv, ReviewedInv
<1>7. BookInv(c)'
  <2>1. Unregistered(c)' <=> Unregistered(c)
    BY <1>2 DEF Unregistered, Booked, Rows
  <2>2. QED
    BY <1>2, <1>4, <2>1 DEF BookInv, RejectionIsFinal, FailedUnregistered, Unregistered, locals
<1>8. writer = c => outcome'[c] \notin {"refused", "rejected", "unresolved"}
  BY <1>2, <1>4 DEF StandInv, locals
<1>9. want'[c] = want[c] /\ undo'[c] = undo[c]
  BY <1>2 DEF locals
<1>10. QED
  BY <1>1, <1>2, <1>3, <1>5, <1>6, <1>7, <1>8, <1>9, QuietStep

LEMMA UnreadKeeps ==
  ASSUME ConfirmInv, UNCHANGED <<service, queue, step, locals, history>>
  PROVE  ConfirmInv'
<1> USE DEF service, locals, history
<1>1. TypeOK' /\ GateInv'
  BY DEF ConfirmInv, TypeOK, GateInv
<1>2. Booked' = Booked
  BY DEF Booked
<1>3. WriterInv' /\ BooksInv'
  BY <1>2 DEF ConfirmInv, WriterInv, BooksInv, ReceiptUnderInvoiceClient, NoSecondRegistration,
              ReviewedBooksWhatWasApproved
<1>4. ASSUME NEW c \in Call PROVE StandInv(c)' /\ LookInv(c)' /\ BookInv(c)'
  <2>1. StandInv(c) /\ LookInv(c) /\ BookInv(c) /\ Still(c)
    BY DEF ConfirmInv, Still
  <2>2. Unregistered(c)' = Unregistered(c)
    BY <1>2 DEF Unregistered
  <2>3. QED
    BY <2>1, <2>2, StillStand, StillBook, StillLook DEF ConfirmInv
<1>5. QED
  BY <1>1, <1>3, <1>4 DEF ConfirmInv

(* A step of others, while every call stands still. *)
LEMMA OthersStep ==
  ASSUME ConfirmInv, UNCHANGED <<queue, step, locals, approved>>, TypeOK', WriterInv', BooksInv',
         \A d \in Call : stale[d] \subseteq stale'[d],
         row' = row \/ \A d \in Call : RowChange \cap Unwatched(d) \subseteq stale'[d],
         \A d \in Call : \A i \in Invoice \cap Unwatched(d) :
            invoice'[i] = invoice[i] \/ i \in stale'[d],
         \A d \in Call : Unregistered(d) => Unregistered(d)'
  PROVE  ConfirmInv'
<1>1. GateInv'
  BY DEF ConfirmInv, GateInv
<1>2. ASSUME NEW d \in Call PROVE StandInv(d)' /\ LookInv(d)' /\ BookInv(d)'
  <2>1. StandInv(d) /\ LookInv(d) /\ BookInv(d) /\ Still(d) /\ TypeOK
    BY DEF ConfirmInv, Still, locals
  <2>2. LookInv(d)'
    BY <2>1, StillLook
  <2>3. QED
    BY <2>1, <2>2, StillStand, StillBook
<1>3. QED
  BY <1>1, <1>2 DEF ConfirmInv

LEMMA LandKeeps ==
  ASSUME ConfirmInv, NEW w \in flying, Land(w)
  PROVE  ConfirmInv'
<1>1. w \in Write /\ Flown(w) /\ TypeOK
  BY DEF ConfirmInv, TypeOK, WriterInv, Flown
<1>2. w.call \in Call /\ (w.client \in MaybeClient \/ w.op = "register")
  BY <1>1 DEF Write, Flown
<1>3. /\ flying' = flying \ {w} /\ UNCHANGED <<invoice, queue, step, locals, approved>>
      /\ Apply(w, TRUE) \/ UNCHANGED <<row, journals, writer>>
      /\ Outdate(Call, RowChange)
  BY DEF Land
<1>4. /\ stale' \in [Call -> SUBSET Mark]
      /\ \A d \in Call : stale'[d] = stale[d] \cup (RowChange \cap Unwatched(d))
  BY <1>1, <1>3, MarkTypes, Call \in SUBSET Call, RowChange \in SUBSET Mark DEF Mark
<1>5. TypeOK'
  <2>1. row' \in Row /\ journals' \in Seq(Journal) /\ writer' \in Call \cup {Untouched}
    BY <1>1, <1>2, <1>3, ApplyType DEF TypeOK
  <2>2. QED
    BY <1>1, <1>3, <1>4, <2>1 DEF TypeOK, locals
<1>6. \/ /\ w.op = "client" /\ Booked' = Booked /\ row'.client = w.client
         /\ writer' = IF w.client = undo[w.call] THEN Untouched ELSE w.call
      \/ /\ w.op = "register" /\ Booked' = Booked \cup {Registration(w, TRUE)}
         /\ row'.client = row.client /\ writer' = writer
      \/ Booked' = Booked /\ row' = row /\ writer' = writer
  <2>1. w.op \in {"client", "register"}
    BY <1>1 DEF Write
  <2>2. UNCHANGED <<row, journals, writer>> => Booked' = Booked
    BY DEF Booked
  <2>3. CASE Apply(w, TRUE)
    BY <1>1, <2>1, <2>3, ApplyEffect
  <2>4. QED
    BY <1>3, <2>2, <2>3
<1>7. Registration(w, TRUE).late /\ Registration(w, TRUE).by = w.call
  BY DEF Registration
<1>8. BooksInv'
  BY <1>3, <1>6, <1>7, BooksKept DEF ConfirmInv
<1>9. ASSUME NEW d \in Call, Unregistered(d) PROVE Unregistered(d)'
  <2>1. w.op = "register" => w.call # d
    BY <1>9 DEF Unregistered
  <2>2. QED
    BY <1>3, <1>6, <1>7, <1>9, <2>1 DEF Unregistered
<1>10. WriterInv'
  <2>0. /\ undo' = undo /\ want' = want /\ outcome' = outcome /\ step' = step
    BY <1>3 DEF locals
  <2>1. ASSUME NEW d \in Call, writer' = d
        PROVE  row'.client = want'[d] /\ (undo'[d] # Untouched \/ outcome'[d] = "indeterminate")
    <3>1. CASE writer = d /\ row'.client = row.client
      BY <2>0, <3>1 DEF ConfirmInv, WriterInv
    <3>2. CASE /\ w.op = "client" /\ row'.client = w.client
               /\ writer' = w.call /\ w.client # undo[w.call]
      BY <1>1, <2>0, <2>1, <3>2 DEF Flown
    <3>3. QED
      BY <1>6, <2>1, <3>1, <3>2, ConfirmAssumption
  <2>2. ASSUME NEW d \in Call, outcome'[d] \in {"refused", "rejected", "unresolved"}
        PROVE  writer' # d
    <3>1. writer # d
      BY <2>0, <2>2 DEF ConfirmInv, WriterInv
    <3>2. CASE w.op = "client" /\ w.client # undo[w.call]
      <4>1. w.call # d
        BY <1>1, <2>0, <2>2, <3>2 DEF Flown
      <4>2. QED
        BY <1>6, <3>1, <3>2, <4>1
    <3>3. QED
      BY <1>6, <3>1, <3>2, ConfirmAssumption
  <2>3. ASSUME NEW v \in flying' PROVE Flown(v)'
    <3>1. Flown(v)
      BY <1>3 DEF ConfirmInv, WriterInv, Flown
    <3>2. QED
      BY <2>0, <3>1 DEF Flown
  <2>4. QED
    BY <2>1, <2>2, <2>3 DEF WriterInv, Flown
<1>11. QED
  BY <1>3, <1>4, <1>5, <1>8, <1>9, <1>10, OthersStep

LEMMA ForeignWriteKeeps ==
  ASSUME ConfirmInv, ForeignWrite
  PROVE  ConfirmInv'
<1>1. UNCHANGED <<journals, flying, queue, step, locals, approved>> /\ TypeOK
  BY DEF ForeignWrite, ConfirmInv
<1>2. Booked' = Booked /\ flying' = flying
  BY <1>1 DEF Booked
<1>3. BooksInv' /\ \A d \in Call : Unregistered(d) => Unregistered(d)'
  BY <1>1, <1>2, BooksKept DEF ConfirmInv, Unregistered
<1>4. CASE /\ row' \in Row /\ Outdate(Call, RowChange) /\ invoice' = invoice
           /\ writer' = IF row'.client = row.client THEN writer ELSE Untouched
  <2>1. /\ stale' \in [Call -> SUBSET Mark]
        /\ \A d \in Call : stale'[d] = stale[d] \cup (RowChange \cap Unwatched(d))
    BY <1>1, <1>4, MarkTypes, Call \in SUBSET Call, RowChange \in SUBSET Mark DEF Mark
  <2>2. TypeOK'
    BY <1>1, <1>4, <2>1 DEF TypeOK, locals
  <2>3. WriterInv'
    BY <1>1, <1>4, ConfirmAssumption DEF ConfirmInv, WriterInv, locals
  <2>4. QED
    BY <1>1, <1>3, <1>4, <2>1, <2>2, <2>3, OthersStep
<1>5. ASSUME NEW i \in Invoice, NEW k \in Client, invoice' = [invoice EXCEPT ![i] = k],
             Outdate(Call, {i}), UNCHANGED <<row, writer>>
      PROVE  ConfirmInv'
  <2>1. /\ stale' \in [Call -> SUBSET Mark]
        /\ \A d \in Call : stale'[d] = stale[d] \cup ({i} \cap Unwatched(d))
    BY <1>1, <1>5, MarkTypes, Call \in SUBSET Call, {i} \in SUBSET Mark DEF Mark
  <2>2. TypeOK'
    BY <1>1, <1>5, <2>1 DEF TypeOK, locals, MaybeClient
  <2>3. WriterInv'
    BY <1>1, <1>5 DEF ConfirmInv, WriterInv, locals
  <2>4. \A n \in Invoice : n # i => invoice'[n] = invoice[n]
    BY <1>1, <1>5 DEF TypeOK
  <2>5. QED
    BY <1>1, <1>3, <1>5, <2>1, <2>2, <2>3, <2>4, OthersStep
<1>6. row' \in Row \/ row' = row
  <2>1. /\ \A k \in MaybeClient : [row EXCEPT !.client = k] \in Row
        /\ [row EXCEPT !.rev = @ + 1] \in Row
        /\ \A t \in {"CONFIRMED", "VOID"} : [row EXCEPT !.status = t] \in Row
    BY <1>1 DEF TypeOK, Row
  <2>2. \/ \E k \in MaybeClient : row' = [row EXCEPT !.client = k]
        \/ row' = [row EXCEPT !.rev = @ + 1]
        \/ \E t \in {"CONFIRMED", "VOID"} : row' = [row EXCEPT !.status = t]
        \/ row' = row
    BY DEF ForeignWrite, MaybeClient
  <2>3. QED
    BY <2>1, <2>2
<1>7. QED
  BY <1>1, <1>4, <1>5, <1>6 DEF ForeignWrite, TypeOK

-----------------------------------------------------------------------------
LEMMA NextConfirm == ConfirmInv /\ [Next]_vars => ConfirmInv'
<1> SUFFICES ASSUME ConfirmInv, [Next]_vars PROVE ConfirmInv'
  OBVIOUS
<1>1. ASSUME NEW c \in Call, CallStep(c) PROVE ConfirmInv'
  <2>1. CASE ReviewStep(c)
    BY <2>1, ReviewRowKeeps, ReviewInvoiceKeeps, FinalInvoiceKeeps DEF ReviewStep
  <2>2. CASE Begin(c) \/ ReadRow(c) \/ ReadInvoice(c) \/ AssertClient(c)
    BY <2>2, BeginKeeps, ReadRowKeeps, ReadInvoiceKeeps, AssertClientKeeps
  <2>3. CASE UpdateClient(c) \/ Register(c) \/ Rollback(c)
    BY <2>3, UpdateClientKeeps, RegisterKeeps, RollbackKeeps
  <2>4. CASE Recover(c) \/ RollbackRead(c)
    BY <2>4, RecoverKeeps, RollbackReadKeeps
  <2>5. QED
    BY <1>1, <2>1, <2>2, <2>3, <2>4 DEF CallStep
<1>2. ASSUME NEW c \in Call, Enqueue(c) \/ ReadFails(c) PROVE ConfirmInv'
  BY <1>2, EnqueueKeeps, ReadFailsKeeps
<1>3. ASSUME NEW w \in flying, Land(w) PROVE ConfirmInv'
  BY <1>3, LandKeeps
<1>4. ASSUME NEW p \in Process, OtherToolReads(p) PROVE ConfirmInv'
  BY <1>4, UnreadKeeps DEF OtherToolReads
<1>5. CASE ForeignWrite
  BY <1>5, ForeignWriteKeeps
<1>6. CASE UNCHANGED vars
  BY <1>6, UnreadKeeps DEF vars
<1>7. QED
  BY <1>1, <1>2, <1>3, <1>4, <1>5, <1>6 DEF Next

(* What every confirm knows, has written and may answer, in every reachable state. *)
THEOREM ConfirmInvariant == Spec => []ConfirmInv
<1>1. Init => ConfirmInv
  BY InitConfirm
<1>2. ConfirmInv /\ [Next]_vars => ConfirmInv'
  BY NextConfirm
<1>3. QED
  BY <1>1, <1>2, PTL DEF Spec

(* No journal is in another client's sub-ledger than the linked invoices' (confirm's
   client guard), unless someone changed the row or an invoice after the last look. *)
THEOREM ReceiptsUnderInvoiceClient == Spec => []ReceiptUnderInvoiceClient
<1>1. ConfirmInv => ReceiptUnderInvoiceClient
  BY DEF ConfirmInv, BooksInv
<1>2. QED
  BY <1>1, ConfirmInvariant, PTL

(* However many confirms of a transaction are queued, confirmLocks and the status
   check let none register it a second time. *)
THEOREM RegistersOnce == Spec => []NoSecondRegistration
<1>1. ConfirmInv => NoSecondRegistration
  BY DEF ConfirmInv, BooksInv
<1>2. QED
  BY <1>1, ConfirmInvariant, PTL

(* prepareReviewedConfirm: what a reviewed confirm books is what its owner approved. *)
THEOREM BooksWhatWasApproved == Spec => []ReviewedBooksWhatWasApproved
<1>1. ConfirmInv => ReviewedBooksWhatWasApproved
  BY DEF ConfirmInv, BooksInv
<1>2. QED
  BY <1>1, ConfirmInvariant, PTL

(* The errors of confirm, after rollbacks, lost answers and late writes.  One raised
   ahead of the register call or after its refusal has registered nothing and will not,
   a drift and a failed rollback included; a register without an answer is not covered.
   And a failed confirm does not leave its own client on the row. *)
THEOREM FailuresAreTrue == Spec => []FailureIsTrue
<1>1. ConfirmInv => FailureIsTrue
  BY DEF ConfirmInv, BookInv, WriterInv, FailureIsTrue
<1>2. QED
  BY <1>1, ConfirmInvariant, PTL

(* The re-read before a reviewed rollback: the client it overwrites is the one the
   confirm wrote, or came after the re-read. *)
THEOREM RollbacksSpareForeignWrites == Spec => RollbackSparesForeignWrite
<1> DEFINE Spares == \A c \in Reviewed :
              Active(c, "rollback") /\ step'[c] = "over" /\ row' # row
                 => row.client = want[c] \/ "row" \in stale[c]
<1>1. ConfirmInv /\ [Next]_vars => [Spares]_vars
  <2> SUFFICES ASSUME ConfirmInv PROVE Spares
    OBVIOUS
  <2> SUFFICES ASSUME NEW c \in Reviewed, step[c] = "rollback"
               PROVE  row.client = want[c] \/ "row" \in stale[c]
    BY DEF Active
  <2>1. c \in Call
    BY ConfirmAssumption
  <2>2. ReviewedInv(c)
    BY <2>1 DEF ConfirmInv, LookInv
  <2>3. QED
    BY <2>2 DEF ReviewedInv
<1>2. QED
  BY <1>1, ConfirmInvariant, PTL DEF Spec, RollbackSparesForeignWrite
=============================================================================
