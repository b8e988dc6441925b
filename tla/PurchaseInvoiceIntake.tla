----------------------- MODULE PurchaseInvoiceIntake -----------------------
(***************************************************************************)
(* One supplier invoice enters the books of one server process by five     *)
(* ways: process_accounting_document with its own extraction ("document")  *)
(* or with a verified reading ("reading"), create_purchase_invoice_from_   *)
(* pdf ("pdf"), the receipt batch ("receipt") and the classification of    *)
(* bank transactions ("bank").  All of them scan, create, correct the      *)
(* totals and, but for the last, attach the document inside one first-in   *)
(* first-out gate; the draft is then registered, after a review of its own *)
(* or at once.  Requests and answers are lost or late, and the accountant  *)
(* works on the same drafts in the web application.                        *)
(***************************************************************************)
EXTENDS Naturals, Sequences, FiniteSets

CONSTANTS
    Call,           \* an intake: the create and the confirmation that follows it
    Paths,          \* the assignments of a way to each call that are considered
    NonDeductible,  \* intakes whose rows are the non-deductible form (createNonDeductible)
    MaxForeign,     \* bound: steps of the accountant
    MaxFaults       \* bound: failed reads, refused or lost requests, lost answers

Path == {"document", "reading", "pdf", "receipt", "bank"}
Reviewing == {"document", "reading", "pdf"}     \* the owner confirms in a second call

ASSUME IntakeAssumption ==
    /\ Paths \subseteq [Call -> Path]
    /\ NonDeductible \subseteq Call
    /\ "User" \notin Call /\ "none" \notin Call

VARIABLES
    invoices,   \* the purchase invoices by id
    mail,       \* requests on their way: [call, op]
    path,       \* path[c]: the way c takes
    gate,       \* withPurchaseInvoiceLock: the call that runs, and behind it the waiting ones
    cached,     \* calls whose draft is in the process cache, as read back after the PATCH
    markers, released,      \* reading: creates with an unknown outcome, and those let go
    step, draft, answer, outcome,
    copy,       \* copy[c]: the draft read back was a PROJECT as requested
    foreign, faults

guards == <<gate, cached, markers, released>>
call == <<step, draft, answer, outcome, copy>>
bounds == <<foreign, faults>>
vars == <<invoices, mail, path, guards, call, bounds>>

Draft(c) == invoices[draft[c]]

(* isInvalidatedPurchaseInvoice *)
Live(invoice) == invoice.status # "VOID"

(* draftReadbackMismatches finds nothing. *)
Matches(c) == Draft(c).totals /\ Draft(c).edited = "no"

(* The draft is a PROJECT with the fingerprint of the one that was reviewed, which matched. *)
Unchanged(c) == Draft(c).status = "PROJECT" /\ Matches(c)

-----------------------------------------------------------------------------
Init ==
    /\ invoices = << >>
    /\ mail = {}
    /\ path \in Paths
    /\ gate = << >> /\ cached = {} /\ markers = {} /\ released = {}
    /\ step = [c \in Call |-> "new"]
    /\ draft = [c \in Call |-> 0]
    /\ answer = [c \in Call |-> "none"]
    /\ outcome = [c \in Call |-> "none"]
    /\ copy = [c \in Call |-> FALSE]
    /\ foreign = 0 /\ faults = 0

Goto(c, s) == step' = [step EXCEPT ![c] = s]

Fault == faults < MaxFaults /\ faults' = faults + 1

Leave(c) == gate' = IF gate # << >> /\ Head(gate) = c THEN Tail(gate) ELSE gate

(* Mutant: the next call waits for one that succeeded (previous.then(run)). *)
EndBlocking(c, what) ==
    /\ Goto(c, "over")
    /\ outcome' = [outcome EXCEPT ![c] = what]
    /\ IF what \in {"created", "confirmed", "held"} THEN Leave(c) ELSE UNCHANGED gate

(* A call is over, and with it its turn at the gate, whether it returned or threw. *)
End(c, what) ==
    /\ Goto(c, "over")
    /\ outcome' = [outcome EXCEPT ![c] = what]
    /\ Leave(c)

Send(c, op) ==
    /\ Goto(c, op)
    /\ answer' = [answer EXCEPT ![c] = "none"]
    /\ mail' = mail \cup {[call |-> c, op |-> op]}

Answered(c, op, text) == step[c] = op /\ answer[c] = text

(* No answer, a 5xx or the abort after 60 seconds: classifyMutationFailure says indeterminate. *)
Unanswered(c, op) ==
    \/ Answered(c, op, "lost") /\ UNCHANGED faults
    \/ Answered(c, op, "none") /\ Fault

(* A write that was carried out or may have been drops the cached invoices. *)
DropCache == cached' = {}

Quiet == UNCHANGED <<invoices, path, released, foreign>>

-----------------------------------------------------------------------------
(* The service.  A registered invoice that is invalidated is a draft again. *)

Reply(r, text) ==
    answer' = IF Answered(r.call, r.op, "none") THEN [answer EXCEPT ![r.call] = text] ELSE answer

NewInvoice(by, late) ==
    [by |-> by, status |-> "PROJECT", totals |-> by = "User", file |-> FALSE, edited |-> "no",
     late |-> late, registrar |-> "none"]

Allowed(r) ==
    r.op # "create" => Draft(r.call).status \in
                           {"PROJECT"} \cup IF r.op \in {"upload", "undo"} THEN {"CONFIRMED"} ELSE {}

AfterUndo(status) == IF status = "CONFIRMED" THEN "PROJECT" ELSE "VOID"

CarryOut(r) ==
    LET i == draft[r.call] IN
    invoices' =
        CASE r.op = "create" -> Append(invoices, NewInvoice(r.call, ~Answered(r.call, "create", "none")))
          [] r.op = "totals" -> [invoices EXCEPT ![i].totals = TRUE]
          [] r.op = "upload" -> [invoices EXCEPT ![i].file = TRUE]
          [] r.op = "register" -> [invoices EXCEPT ![i].status = "CONFIRMED", ![i].registrar = r.call]
          [] r.op = "undo" -> [invoices EXCEPT ![i].status = AfterUndo(@)]

Service(c) ==
    \E r \in mail :
        /\ r.call = c
        /\ mail' = mail \ {r}
        /\ \/ /\ Allowed(r) /\ CarryOut(r)
              /\ \/ Reply(r, "ok") /\ UNCHANGED faults
                 \/ r.op = "create" /\ Fault /\ Reply(r, "noId")
                 \/ Fault /\ Reply(r, "lost")
           \/ ~Allowed(r) /\ Reply(r, "rejected") /\ UNCHANGED <<invoices, faults>>
           \/ Fault /\ UNCHANGED invoices /\ \E text \in {"rejected", "lost"} : Reply(r, text)
        /\ UNCHANGED <<path, guards, step, draft, outcome, copy, foreign>>

(* The accountant.  An edit is told from one made after the last look of the call whose
   draft it is: no check of a program without conditional writes sees that one. *)
PastLook(c) == step[c] \in {"bankSend", "bankAfter", "register", "undo", "over"}

EditOf(invoice) ==
    IF invoice.by # "User" /\ PastLook(invoice.by) /\ invoice.edited # "before"
    THEN "after" ELSE "before"

Accountant ==
    /\ foreign < MaxForeign
    /\ foreign' = foreign + 1
    /\ \/ invoices' = Append(invoices, NewInvoice("User", FALSE))
       \/ \E i \in DOMAIN invoices :
             \/ /\ invoices[i].status = "PROJECT"
                /\ \/ invoices' = [invoices EXCEPT ![i].edited = EditOf(invoices[i])]
                   \/ invoices' = [invoices EXCEPT ![i].status = "CONFIRMED", ![i].registrar = "User"]
             \/ Live(invoices[i]) /\ invoices' = [invoices EXCEPT ![i].status = AfterUndo(@)]
    /\ UNCHANGED <<mail, path, guards, call, faults>>

(* mode='verify' with release_indeterminate *)
OwnerReleases ==
    \E c \in markers :
        /\ markers' = markers \ {c}
        /\ released' = released \cup {c}
        /\ UNCHANGED <<invoices, mail, path, gate, cached, call, bounds>>

-----------------------------------------------------------------------------
(* Inside the gate: scan, create, totals, document. *)

Enqueue(c) ==
    /\ step[c] = "new" /\ Goto(c, "queued")
    /\ gate' = Append(gate, c)
    /\ Quiet /\ UNCHANGED <<mail, cached, markers, draft, answer, outcome, copy, faults>>

(* Mutant: the tail promise is replaced before it was waited for. *)
EnterAtOnce(c, s) == step[c] = s

Enter(c, s) == step[c] = s /\ Head(gate) = c

(* The invoices are compared by number, and the bank path numbers its own "AUTO-TX-...";
   a reading is compared by amount and date as well. *)
Recognizes(c, by) == path[c] = "reading" \/ (path[c] = "bank") = (by # "User" /\ path[by] = "bank")

(* scanPurchaseIntakeDuplicates sees the live invoices; readingDuplicateHolds holds on a
   voided one as well. *)
DuplicateFound(c) ==
    \E i \in DOMAIN invoices :
        /\ invoices[i].by # c /\ Recognizes(c, invoices[i].by)
        /\ Live(invoices[i]) \/ path[c] = "reading"

Scan(c) ==
    /\ Enter(c, "queued")
    /\ IF (path[c] = "reading" /\ markers # {}) \/ DuplicateFound(c)
       THEN End(c, "held")
       ELSE Goto(c, "send") /\ UNCHANGED <<gate, outcome>>
    /\ DropCache
    /\ Quiet /\ UNCHANGED <<mail, markers, draft, answer, copy, faults>>

ScanFails(c) ==
    /\ Enter(c, "queued")
    /\ Fault /\ End(c, "unread") /\ DropCache
    /\ Quiet /\ UNCHANGED <<mail, markers, draft, answer, copy>>

SendCreate(c) ==
    /\ step[c] = "send" /\ Send(c, "create")
    /\ Quiet /\ UNCHANGED <<guards, draft, outcome, copy, faults>>

Created(c) ==
    /\ Answered(c, "create", "ok")
    /\ draft' = [draft EXCEPT ![c] = CHOOSE i \in DOMAIN invoices : invoices[i].by = c]
    /\ Goto(c, "look") /\ DropCache
    /\ Quiet /\ UNCHANGED <<mail, gate, markers, answer, outcome, copy, faults>>

AddMarker(c) == markers' = IF path[c] = "reading" THEN markers \cup {c} ELSE markers

(* "Purchase invoice created but no ID returned" is a plain Error, which is not taken for
   an ambiguous create: no marker.  The draft is there for the next scan. *)
CreateFails(c) ==
    /\ \/ Answered(c, "create", "noId") /\ End(c, "noId") /\ DropCache /\ UNCHANGED <<markers, faults>>
       \/ Answered(c, "create", "rejected") /\ End(c, "refused") /\ UNCHANGED <<cached, markers, faults>>
       \/ Unanswered(c, "create") /\ End(c, "unknown") /\ DropCache /\ AddMarker(c)
    /\ Quiet /\ UNCHANGED <<mail, draft, answer, copy>>

(* createNonDeductible compares the rows at both of its reads.  An edit may be to what is
   not compared there. *)
Unproven(c) == c \in NonDeductible /\ path[c] \in Reviewing /\ Draft(c).edited # "no"

(* createAndSetTotals reads the draft and sends the totals, or else invalidates it: the
   read failed, or an edit left rows and totals that do not fit what was asked for. *)
FirstRead(c) ==
    /\ step[c] = "look"
    /\ \/ Send(c, "totals") /\ UNCHANGED faults
       \/ Fault /\ Send(c, "undo")
       \/ Draft(c).edited # "no" /\ Send(c, "undo") /\ UNCHANGED faults
    /\ Quiet /\ UNCHANGED <<guards, draft, outcome, copy>>

TotalsSet(c) ==
    /\ Answered(c, "totals", "ok") /\ Goto(c, "readback") /\ DropCache
    /\ Quiet /\ UNCHANGED <<mail, gate, markers, draft, answer, outcome, copy, faults>>

TotalsFail(c) ==
    /\ \/ Answered(c, "totals", "rejected") /\ UNCHANGED <<cached, faults>>
       \/ Unanswered(c, "totals") /\ DropCache
    /\ Send(c, "undo")
    /\ Quiet /\ UNCHANGED <<gate, markers, draft, outcome, copy>>

ReadBack(c) ==
    /\ step[c] = "readback"
    /\ copy' = [copy EXCEPT ![c] = Unchanged(c)]
    /\ cached' = cached \cup {c}
    /\ IF path[c] = "bank"
       THEN Leave(c) /\ Goto(c, "bankLook") /\ UNCHANGED <<mail, answer>>
       ELSE Send(c, "upload") /\ UNCHANGED gate
    /\ Quiet /\ UNCHANGED <<markers, draft, outcome, faults>>

(* `return this.get(id)' is not awaited in the try that invalidates: the draft stays and
   the callers do not learn its id.  The non-deductible form awaits its read. *)
ReadBackFails(c) ==
    LET awaited == c \in NonDeductible /\ path[c] \in Reviewing IN
    /\ step[c] = "readback"
    /\ \/ /\ awaited /\ Send(c, "undo") /\ UNCHANGED <<gate, markers, outcome>>
          /\ Fault \/ (Unproven(c) /\ UNCHANGED faults)
       \/ ~awaited /\ Fault /\ End(c, "failed") /\ UNCHANGED <<mail, markers, answer>>
       \/ /\ ~awaited /\ Fault /\ path[c] = "reading"
          /\ End(c, "unknown") /\ AddMarker(c) /\ UNCHANGED <<mail, answer>>
    /\ Quiet /\ UNCHANGED <<cached, draft, copy>>

(* With execution_mode="create" the receipt stays a draft. *)
Uploaded(c) ==
    /\ Answered(c, "upload", "ok") /\ DropCache
    /\ \/ path[c] # "receipt" /\ Goto(c, "reread") /\ UNCHANGED <<gate, outcome>>
       \/ path[c] = "receipt" /\ Goto(c, "verify") /\ Leave(c) /\ UNCHANGED outcome
       \/ path[c] = "receipt" /\ End(c, "created")
    /\ Quiet /\ UNCHANGED <<mail, markers, draft, answer, copy, faults>>

(* uploadSourceDocumentOrInvalidate; the receipt keeps its draft if the outcome is unknown. *)
UploadFails(c) ==
    /\ \/ /\ Answered(c, "upload", "rejected") /\ UNCHANGED <<cached, faults>>
          /\ Send(c, "undo") /\ UNCHANGED <<gate, outcome>>
       \/ /\ Unanswered(c, "upload") /\ DropCache
          /\ IF path[c] = "receipt" THEN End(c, "keptDraft") /\ UNCHANGED <<mail, answer>>
             ELSE Send(c, "undo") /\ UNCHANGED <<gate, outcome>>
    /\ Quiet /\ UNCHANGED <<markers, draft, copy>>

Undone(c) ==
    /\ \/ Answered(c, "undo", "ok") /\ End(c, "invalidated") /\ DropCache /\ UNCHANGED faults
       \/ Answered(c, "undo", "rejected") /\ End(c, "left") /\ UNCHANGED <<cached, faults>>
       \/ Unanswered(c, "undo") /\ End(c, "left") /\ DropCache
    /\ Quiet /\ UNCHANGED <<mail, markers, draft, answer, copy>>

(* The plan to confirm is issued for the draft as read fresh, if it is what was asked for.
   The reading's does not look at the status. *)
Reread(c) ==
    /\ step[c] = "reread" /\ DropCache
    /\ \/ /\ Matches(c) /\ (path[c] = "reading" \/ Draft(c).status = "PROJECT")
          /\ Goto(c, "review") /\ Leave(c) /\ UNCHANGED <<outcome, faults>>
       \/ ~(Matches(c) /\ Draft(c).status = "PROJECT") /\ End(c, "created") /\ UNCHANGED faults
       \/ Fault /\ End(c, "created")
    /\ Quiet /\ UNCHANGED <<mail, markers, draft, answer, copy>>

-----------------------------------------------------------------------------
(* The confirmation after a review: document, reading, pdf. *)

Approve(c) ==
    /\ step[c] = "review" /\ Goto(c, "again")
    /\ gate' = Append(gate, c)
    /\ Quiet /\ UNCHANGED <<mail, cached, markers, draft, answer, outcome, copy, faults>>

FirstLook(c) ==
    /\ Enter(c, "again") /\ path[c] # "pdf" /\ DropCache
    /\ \/ /\ Unchanged(c) /\ UNCHANGED <<gate, outcome, faults>>
          /\ Goto(c, IF path[c] = "reading" THEN "rescan" ELSE "latest")
       \/ ~Unchanged(c) /\ End(c, "notRegistered") /\ UNCHANGED faults
       \/ Fault /\ End(c, "notRegistered")
    /\ Quiet /\ UNCHANGED <<mail, markers, draft, answer, copy>>

Rescan(c) ==
    /\ step[c] = "rescan" /\ DropCache
    /\ \/ ~DuplicateFound(c) /\ Goto(c, "latest") /\ UNCHANGED <<gate, outcome, faults>>
       \/ DuplicateFound(c) /\ End(c, "notRegistered") /\ UNCHANGED faults
       \/ Fault /\ End(c, "notRegistered")
    /\ Quiet /\ UNCHANGED <<mail, markers, draft, answer, copy>>

(* The comparison right before the register request: the second one of document and
   reading, the one in PurchaseInvoicesApi.confirm of pdf and receipt. *)
AtRegister(c) ==
    \/ step[c] = "latest"
    \/ path[c] = "pdf" /\ Enter(c, "again")

(* Mutant: the first look is enough. *)
LastLookTrusting(c) ==
    /\ AtRegister(c) /\ DropCache /\ Send(c, "register")
    /\ Quiet /\ UNCHANGED <<gate, markers, draft, outcome, copy, faults>>

LastLook(c) ==
    LET stop == End(c, IF path[c] = "receipt" THEN "keptDraft" ELSE "notRegistered") IN
    /\ AtRegister(c) /\ DropCache
    /\ \/ Unchanged(c) /\ Send(c, "register") /\ UNCHANGED <<gate, outcome, faults>>
       \/ ~Unchanged(c) /\ stop /\ UNCHANGED <<mail, answer, faults>>
       \/ Fault /\ stop /\ UNCHANGED <<mail, answer>>
    /\ Quiet /\ UNCHANGED <<markers, draft, copy>>

-----------------------------------------------------------------------------
(* The registration at once: receipt, bank. *)

(* The draft, the attached bytes, and the draft once more. *)
Verify(c) ==
    /\ step[c] \in {"verify", "attached"} /\ DropCache
    /\ \/ /\ Unchanged(c) /\ Draft(c).file /\ UNCHANGED <<outcome, gate, faults>>
          /\ Goto(c, IF step[c] = "verify" THEN "attached" ELSE "latest")
       \/ ~(Unchanged(c) /\ Draft(c).file) /\ End(c, "keptDraft") /\ UNCHANGED faults
       \/ Fault /\ End(c, "keptDraft")
    /\ Quiet /\ UNCHANGED <<mail, markers, draft, answer, copy>>

(* freshDraft is read through the cache, which still has the draft as read back unless
   another call of the process, or the 120 seconds, dropped it. *)
BankLook(c) ==
    /\ step[c] = "bankLook"
    /\ \/ /\ c \in cached /\ UNCHANGED <<cached, faults>>
          /\ IF copy[c] THEN Goto(c, "bankSend") /\ UNCHANGED <<gate, outcome>> ELSE End(c, "keptDraft")
       \/ /\ cached' = cached \cup {c} /\ UNCHANGED faults
          /\ IF Unchanged(c) THEN Goto(c, "bankSend") /\ UNCHANGED <<gate, outcome>>
             ELSE End(c, "keptDraft")
       \/ Fault /\ End(c, "keptDraft") /\ UNCHANGED cached
    /\ Quiet /\ UNCHANGED <<mail, markers, draft, answer, copy>>

(* The transaction is compared once more; confirmWithTotals gets no fingerprint. *)
BankSend(c) ==
    /\ step[c] = "bankSend"
    /\ \/ Send(c, "register") /\ UNCHANGED <<gate, outcome, faults>>
       \/ Fault /\ End(c, "keptDraft") /\ UNCHANGED <<mail, answer>>
    /\ Quiet /\ UNCHANGED <<cached, markers, draft, copy>>

(* Before the transaction is linked, the registered invoice is read and compared. *)
BankAfter(c) ==
    /\ step[c] = "bankAfter"
    /\ \/ Draft(c).status = "CONFIRMED" /\ Matches(c) /\ End(c, "confirmed") /\ UNCHANGED faults
       \/ ~(Draft(c).status = "CONFIRMED" /\ Matches(c)) /\ End(c, "drifted") /\ UNCHANGED faults
       \/ Fault /\ End(c, "drifted")
    /\ Quiet /\ UNCHANGED <<mail, cached, markers, draft, answer, copy>>

Registered(c) ==
    /\ Answered(c, "register", "ok") /\ DropCache
    /\ IF path[c] = "bank" THEN Goto(c, "bankAfter") /\ UNCHANGED <<gate, outcome>> ELSE End(c, "confirmed")
    /\ Quiet /\ UNCHANGED <<mail, markers, draft, answer, copy, faults>>

(* Mutant: every failure is taken for a refusal. *)
RegisterFailsUnclassified(c) ==
    /\ \/ Answered(c, "register", "rejected") /\ UNCHANGED faults
       \/ Unanswered(c, "register")
    /\ End(c, "registerFailed")
    /\ Quiet /\ UNCHANGED <<mail, cached, markers, draft, answer, copy>>

(* The receipt's rollbackCreatedInvoice follows every failure; the others report it. *)
RegisterFails(c) ==
    /\ \/ /\ Answered(c, "register", "rejected") /\ UNCHANGED <<cached, faults>>
          /\ IF path[c] = "receipt" THEN Send(c, "undo") /\ UNCHANGED <<gate, outcome>>
             ELSE End(c, "registerFailed") /\ UNCHANGED <<mail, answer>>
       \/ /\ Unanswered(c, "register") /\ DropCache
          /\ IF path[c] = "receipt" THEN Send(c, "undo") /\ UNCHANGED <<gate, outcome>>
             ELSE End(c, "registerUnknown") /\ UNCHANGED <<mail, answer>>
    /\ Quiet /\ UNCHANGED <<markers, draft, copy>>

-----------------------------------------------------------------------------
CallStep(c) ==
    \/ Scan(c) \/ ScanFails(c) \/ SendCreate(c) \/ Created(c) \/ CreateFails(c)
    \/ FirstRead(c) \/ TotalsSet(c) \/ TotalsFail(c) \/ ReadBack(c) \/ ReadBackFails(c)
    \/ Uploaded(c) \/ UploadFails(c) \/ Undone(c) \/ Reread(c)
    \/ FirstLook(c) \/ Rescan(c) \/ LastLook(c) \/ Registered(c) \/ RegisterFails(c)
    \/ Verify(c) \/ BankLook(c) \/ BankSend(c) \/ BankAfter(c)

Next ==
    \/ \E c \in Call : Enqueue(c) \/ Approve(c) \/ CallStep(c) \/ Service(c)
    \/ Accountant
    \/ OwnerReleases

Spec == Init /\ [][Next]_vars

(* The event loop runs every call on, and a request is answered or aborted after 60
   seconds (src/src/http-client.ts:365).  Nobody has to approve or release anything. *)
FairSpec == Spec /\ \A c \in Call : WF_vars(CallStep(c)) /\ WF_vars(Service(c))

-----------------------------------------------------------------------------
(* The document is in the books once by the intakes of this process whose scans can
   recognize each other's invoices, except by a create that was carried out after its
   caller gave it up; and even then once, if both intakes are readings and the owner did
   not release the marker. *)
IntakeOnce ==
    \A i, j \in DOMAIN invoices :
        LET a == invoices[i]  b == invoices[j] IN
        /\ i < j /\ a.by # "User" /\ b.by # "User" /\ Recognizes(b.by, a.by)
        /\ Live(a) /\ Live(b)
        => /\ a.late \/ b.late
           /\ path[a.by] = "reading" /\ path[b.by] = "reading" => {a.by, b.by} \cap released # {}

(* What an intake registers has its totals and its document and is the draft that was
   reviewed, edited by nobody since, up to the last look of the intake.  The bank path
   is left to BankDriftIsHeld. *)
RegisteredAsReviewed ==
    \A i \in DOMAIN invoices :
        LET d == invoices[i] IN
        d.registrar \notin {"none", "User"} /\ path[d.registrar] # "bank" /\ d.status = "CONFIRMED"
            => /\ d.by = d.registrar /\ d.totals /\ d.file
               /\ d.edited # "before"

(* "holds authored row/tax/header drift after created"
   (src/src/receipts/classification-operations.test.ts:341): a draft that is edited
   before the classification reads it again is not registered. *)
BankDriftIsHeld ==
    \A i \in DOMAIN invoices :
        LET d == invoices[i] IN
        d.registrar \notin {"none", "User"} /\ path[d.registrar] = "bank" => d.edited # "before"

Requested(c, op) == \E r \in mail : r.call = c /\ r.op = op
RegisteredBy(c) == \E i \in DOMAIN invoices : invoices[i].registrar = c

(* What an intake reports when it ends is true and stays so: nothing created; the draft
   invalidated (unless it had been registered, which makes it a draft again); not
   registered; complete with totals and document. *)
OutcomeIsTrue ==
    \A c \in Call :
        /\ outcome[c] \in {"held", "unread", "refused"}
              => ~Requested(c, "create") /\ \A i \in DOMAIN invoices : invoices[i].by # c
        /\ outcome[c] = "invalidated" => ~Live(Draft(c)) \/ Draft(c).registrar # "none"
        /\ outcome[c] \in {"keptDraft", "notRegistered", "registerFailed", "created"}
              => ~Requested(c, "register") /\ ~RegisteredBy(c)
        /\ outcome[c] \in {"created", "notRegistered", "confirmed"} /\ path[c] # "bank"
              => Draft(c).totals /\ Draft(c).file
        /\ outcome[c] = "confirmed" => Draft(c).registrar # "none"

(* "auto-invalidates the created purchase invoice and reports that file as failed instead
   of leaving a stray draft behind" (src/README.md:220). *)
FailureLeavesNoDraft ==
    \A c \in Call :
        path[c] = "receipt" /\ draft[c] # 0 /\ outcome[c] \in {"failed", "invalidated"}
            => Draft(c).status # "PROJECT"

(* Every intake leaves the gate, whatever the one before it met. *)
EveryIntakeEnds ==
    \A c \in Call :
        /\ step[c] = "queued" ~> step[c] \in {"bankLook", "verify", "review", "over"}
        /\ step[c] = "again" ~> step[c] = "over"

=============================================================================
