------------------------- MODULE TransactionConfirm -------------------------
(***************************************************************************)
(* TransactionsApi.confirm (src/src/api/transactions.api.ts): registering  *)
(* one bank transaction from several confirm calls in several server       *)
(* processes, while the accountant edits the same rows in the web          *)
(* application and requests or their answers get lost.                     *)
(*                                                                         *)
(* The remote row is a status, a client and the rest of its material (a    *)
(* revision number).  Registering copies the row's live client into the    *)
(* journal it creates, so a journal whose client is not the linked         *)
(* invoices' client books the receipt in the wrong sub-ledger.             *)
(***************************************************************************)
EXTENDS Naturals, Sequences, FiniteSets

CONSTANTS
    Call,           \* the confirm calls
    Process,        \* the server processes
    ProcOf,         \* the process of a call
    Client,         \* clients of the company
    NoClient,       \* clients_id is null
    Invoice,        \* the invoices a distribution can link
    LinkedOf,       \* LinkedOf[c]: the invoices call c distributes to
    AutoFix,        \* calls without autoFixClientsId: false
    Reassign,       \* calls with reassignClientToInvoice: true
    Reviewed,       \* calls with expectedTransaction, taken of the initial state
    Untouched,      \* clientsIdRollbackValue undefined; an empty cache entry
    MaxForeign,     \* bound: writes by the web application
    MaxFaults       \* bound: reads that fail, writes whose answer is lost

ASSUME ConfirmAssumption ==
    /\ ProcOf \in [Call -> Process]
    /\ LinkedOf \in [Call -> SUBSET Invoice]
    /\ NoClient \notin Client /\ Untouched \notin Client \cup {NoClient} \cup Call
    /\ {"row", "status"} \cap Invoice = {}
    /\ AutoFix \subseteq Call /\ Reassign \subseteq Call /\ Reviewed \subseteq Call

VARIABLES
    \* the accounting service
    row,            \* the transaction: status, client, rev
    invoice,        \* invoice[i]: its client
    journals,       \* the journals registering created, in order
    flying,         \* writes whose answer was given up on, still to be applied
    \* the server processes
    cached,         \* cached[p]: the row in p's cache, or Untouched
    queue,          \* queue[p]: p's calls in the promise chain of confirmLocks
    \* the calls
    step, saw, got, todo, want, undo, failure, outcome,
    \* history and bounds
    approved,       \* what the reviewed calls were approved on
    stale,          \* stale[c]: what others changed after c's last look at it
    writer,         \* the call that wrote the row's present client, or Untouched
    foreign, faults

service == <<row, invoice, journals, flying>>
locals == <<saw, got, todo, want, undo, failure, outcome>>
history == <<approved, stale, writer, foreign, faults>>
vars == <<service, cached, queue, step, locals, history>>

-----------------------------------------------------------------------------
Init ==
    /\ row \in {[status |-> "PROJECT", client |-> k, rev |-> 0] : k \in Client \cup {NoClient}}
    /\ invoice \in [Invoice -> Client \cup {NoClient}]
    /\ journals = << >>
    /\ flying = {}
    /\ cached = [p \in Process |-> Untouched]
    /\ queue = [p \in Process |-> << >>]
    /\ step = [c \in Call |-> "idle"]
    /\ saw = [c \in Call |-> NoClient]
    /\ got = [c \in Call |-> {}]
    /\ todo = [c \in Call |-> {}]
    /\ want = [c \in Call |-> Untouched]
    /\ undo = [c \in Call |-> Untouched]
    /\ failure = [c \in Call |-> "none"]
    /\ outcome = [c \in Call |-> "none"]
    /\ approved = [row |-> row, invoice |-> invoice]
    /\ stale = [c \in Call |-> {}]
    /\ writer = Untouched
    /\ foreign = 0
    /\ faults = 0

-----------------------------------------------------------------------------
(* What the accounting service does with a write, and who it outdates. *)

RowChange == {"row", "status"}

(* What call c, where it stands, may have looked at for the last time: a change
   made now may go unseen.  Every other change must be seen before it registers,
   or before it rolls back. *)
Unwatched(c) ==
    IF c \in Reviewed
    THEN CASE step[c] \in {"finalInvoice", "finalRow"} -> Invoice
           [] step[c] \in {"register", "rollback"} -> Invoice \cup RowChange
           [] OTHER -> {}
    ELSE CASE step[c] \in {"update", "assertRow"} -> Invoice \cup {"status"}
           [] step[c] \in {"readInvoice", "register"} -> Invoice \cup RowChange
           [] OTHER -> {}

Outdate(S, what) ==
    stale' = [c \in Call |-> IF c \in S THEN stale[c] \cup (what \cap Unwatched(c)) ELSE stale[c]]

Others(c) == {d \in Call : ProcOf[d] # ProcOf[c]}

(* PATCH /transactions/{id} with clients_id. *)
ApplyClient(c, k) ==
    /\ row' = [row EXCEPT !.client = k]
    /\ writer' = IF k = undo[c] THEN Untouched ELSE c
    /\ UNCHANGED journals

(* PATCH /transactions/{id}/register: refused without a client; the journal takes
   the live client.  Whether the service registers a CONFIRMED row again is not
   documented, so it may. *)
ApplyRegister(c, late) ==
    /\ row.client # NoClient
    /\ row' = [row EXCEPT !.status = "CONFIRMED"]
    /\ journals' = Append(journals,
          [by |-> c, late |-> late, again |-> row.status = "CONFIRMED", stale |-> stale[c],
           client |-> row.client, rev |-> row.rev, invoice |-> invoice])
    /\ UNCHANGED writer

Apply(w, late) ==
    IF w.op = "client" THEN ApplyClient(w.call, w.client) ELSE ApplyRegister(w.call, late)

Unapplied == UNCHANGED <<row, journals, writer, stale>>

(* One write request of call c and what c learns: "ok", "rejected" (4xx, nothing
   written) or "unknown" (network, 5xx, 408), after which the write has happened,
   will not happen, or happens later. *)
Send(c, w, reply) ==
    \/ reply = "ok" /\ Apply(w, FALSE) /\ Outdate(Others(c), RowChange) /\ UNCHANGED <<flying, faults>>
    \/ reply = "rejected" /\ Unapplied /\ UNCHANGED <<flying, faults>>
    \/ /\ reply = "unknown"
       /\ faults < MaxFaults
       /\ faults' = faults + 1
       /\ \/ Apply(w, FALSE) /\ Outdate(Others(c), RowChange) /\ UNCHANGED flying
          \/ Unapplied /\ flying' = flying \cup {w}
          \/ Unapplied /\ UNCHANGED flying

(* A write whose answer was given up on reaches the service after all. *)
Land(w) ==
    /\ flying' = flying \ {w}
    /\ Apply(w, TRUE) \/ UNCHANGED <<row, journals, writer>>
    /\ Outdate(Call, RowChange)
    /\ UNCHANGED <<invoice, cached, queue, step, locals, approved, foreign, faults>>

(* The accountant in the web application edits the row's client or other material,
   corrects an invoice's client, registers the row or invalidates it. *)
ForeignWrite ==
    /\ foreign < MaxForeign
    /\ foreign' = foreign + 1
    /\ \/ /\ \/ \E k \in Client \cup {NoClient} : row' = [row EXCEPT !.client = k]
             \/ row' = [row EXCEPT !.rev = @ + 1]
             \/ /\ row.status = "PROJECT" /\ row.client # NoClient
                /\ row' = [row EXCEPT !.status = "CONFIRMED"]
             \/ row.status = "CONFIRMED" /\ row' = [row EXCEPT !.status = "VOID"]
          /\ Outdate(Call, RowChange)
          /\ writer' = IF row'.client = row.client THEN writer ELSE Untouched
          /\ UNCHANGED invoice
       \/ \E i \in Invoice, k \in Client :
             /\ invoice' = [invoice EXCEPT ![i] = k]
             /\ Outdate(Call, {i})
             /\ UNCHANGED <<row, writer>>
    /\ UNCHANGED <<journals, flying, cached, queue, step, locals, approved, faults>>

(* Another tool of process p reads the row through the cache. *)
OtherToolReads(p) ==
    /\ cached[p] = Untouched
    /\ cached' = [cached EXCEPT ![p] = row]
    /\ UNCHANGED <<service, queue, step, locals, history>>

-----------------------------------------------------------------------------
(* Pieces the handlers share. *)

Active(c, s) == step[c] = s /\ Head(queue[ProcOf[c]]) = c

Goto(c, s) == step' = [step EXCEPT ![c] = s] /\ UNCHANGED <<queue, outcome>>

(* Mutant: a confirm that fails never releases the gate. *)
EndKeepingGate(c, o) ==
    /\ step' = [step EXCEPT ![c] = "over"]
    /\ outcome' = [outcome EXCEPT ![c] = o]
    /\ queue' = IF o = "registered" THEN [queue EXCEPT ![ProcOf[c]] = Tail(@)] ELSE queue

(* The call settles; the finally block of confirm releases the gate. *)
End(c, o) ==
    /\ step' = [step EXCEPT ![c] = "over"]
    /\ outcome' = [outcome EXCEPT ![c] = o]
    /\ queue' = [queue EXCEPT ![ProcOf[c]] = Tail(@)]

(* Mutant: get(id) without invalidating the cache first. *)
FreshRowFromCache(c) == IF cached[ProcOf[c]] = Untouched THEN row ELSE cached[ProcOf[c]]

(* cache.invalidateExact and get(id): the live row, written back to the cache. *)
FreshRow(c) == row

LookAtRow(c, what) ==
    /\ cached' = [cached EXCEPT ![ProcOf[c]] = FreshRow(c)]
    /\ stale' = [stale EXCEPT ![c] = @ \ what]
    /\ UNCHANGED writer

ForgetRow(c) == cached' = [cached EXCEPT ![ProcOf[c]] = Untouched]

ReadFault ==
    /\ faults < MaxFaults
    /\ faults' = faults + 1

LookAtInvoice(c, i) ==
    /\ stale' = [stale EXCEPT ![c] = @ \ {i}]
    /\ UNCHANGED writer

(* Every distinct client the linked invoices were read to have. *)
Seen(c, i) == got[c] \cup ({invoice[i]} \ {NoClient})

-----------------------------------------------------------------------------
(* confirm: join the promise chain of this transaction, then confirmUnlocked. *)
Enqueue(c) ==
    /\ step[c] = "idle"
    /\ queue' = [queue EXCEPT ![ProcOf[c]] = Append(@, c)]
    /\ step' = [step EXCEPT ![c] = "queued"]
    /\ UNCHANGED <<service, cached, locals, history>>

GateOpen(c) == Head(queue[ProcOf[c]]) = c

Begin(c) ==
    /\ step[c] = "queued"
    /\ GateOpen(c)
    /\ Goto(c, IF c \in Reviewed THEN "reviewRow" ELSE "readRow")
    /\ todo' = [todo EXCEPT ![c] = LinkedOf[c]]
    /\ UNCHANGED <<service, cached, saw, got, want, undo, failure, history>>

(* A read outside any recovery fails: the error goes to the caller as it is,
   whatever was written before it.  In a reviewed confirm that already wrote the
   client it is reported as material drift. *)
ReadFails(c) ==
    /\ step[c] \in {"readRow", "readInvoice", "assertRow", "reviewRow", "reviewInvoice",
                    "reviewAgain", "reviewWritten", "finalInvoice", "finalRow"}
    /\ ReadFault
    /\ End(c, IF c \in Reviewed /\ undo[c] # Untouched THEN "drift" ELSE "readFailed")
    /\ ForgetRow(c)
    /\ UNCHANGED <<service, saw, got, todo, want, undo, failure, approved, stale, writer, foreign>>

(* confirmUnlocked: the live row; CONFIRMED is never registered again. *)
ReadRow(c) ==
    /\ Active(c, "readRow")
    /\ LookAtRow(c, RowChange)
    /\ LET tx == FreshRow(c) IN
         /\ saw' = [saw EXCEPT ![c] = tx.client]
         /\ \/ tx.status = "CONFIRMED" /\ End(c, "refused")
            \/ /\ tx.status # "CONFIRMED"
               /\ Goto(c, IF LinkedOf[c] # {} /\ (tx.client # NoClient \/ c \in AutoFix)
                            THEN "readInvoice" ELSE "register")
    /\ UNCHANGED <<service, got, todo, want, undo, failure, approved, foreign, faults>>

(* Mutant: any one of the linked invoices decides. *)
GuardedByOneInvoice(c, clients) ==
    \/ clients \cap {saw[c]} = clients /\ Goto(c, "register") /\ UNCHANGED want
    \/ \E k \in clients :
         /\ saw[c] # k
         /\ IF saw[c] = NoClient \/ c \in Reassign
              THEN Goto(c, "update") /\ want' = [want EXCEPT ![c] = k]
              ELSE End(c, "refused") /\ UNCHANGED want

(* The clients of the linked invoices, one GET each, and the client guard after
   the last: several clients are refused, a missing client is filled in, a
   different one is refused unless the caller approved the reassignment. *)
Guarded(c, clients) ==
    \/ Cardinality(clients) > 1 /\ End(c, "refused") /\ UNCHANGED want
    \/ clients \subseteq {saw[c]} /\ Goto(c, "register") /\ UNCHANGED want
    \/ \E k \in Client :
         /\ clients = {k} /\ saw[c] # k
         /\ IF saw[c] = NoClient \/ c \in Reassign
              THEN Goto(c, "update") /\ want' = [want EXCEPT ![c] = k]
              ELSE End(c, "refused") /\ UNCHANGED want

ReadInvoice(c) ==
    /\ Active(c, "readInvoice")
    /\ \E i \in todo[c] :
         /\ LookAtInvoice(c, i)
         /\ got' = [got EXCEPT ![c] = Seen(c, i)]
         /\ todo' = [todo EXCEPT ![c] = @ \ {i}]
         /\ IF todo[c] = {i}
              THEN Guarded(c, Seen(c, i))
              ELSE UNCHANGED <<step, queue, outcome, want>>
    /\ UNCHANGED <<service, cached, saw, undo, failure, approved, foreign, faults>>

(* this.update(id, { clients_id }): a rejected write throws, an ambiguous one is
   reported as indeterminate; only a confirmed one is remembered for a rollback. *)
UpdateClient(c) ==
    /\ Active(c, "update")
    /\ \E reply \in {"ok", "rejected", "unknown"} :
         /\ Send(c, [op |-> "client", call |-> c, client |-> want[c]], reply)
         /\ CASE reply = "ok" ->
                   /\ undo' = [undo EXCEPT ![c] = saw[c]]
                   /\ Goto(c, IF c \in Reviewed THEN "reviewWritten" ELSE "assertRow")
                   /\ ForgetRow(c)
              [] reply = "rejected" -> End(c, "rejected") /\ UNCHANGED <<undo, cached>>
              [] reply = "unknown" -> End(c, "indeterminate") /\ ForgetRow(c) /\ UNCHANGED undo
    /\ UNCHANGED <<invoice, saw, got, todo, want, failure, approved, foreign>>

(* assertClientWritten: register only the client that was just written. *)
AssertClient(c) ==
    /\ Active(c, "assertRow")
    /\ LookAtRow(c, {"row"})
    /\ IF FreshRow(c).client = want[c] THEN Goto(c, "register") ELSE End(c, "refused")
    /\ UNCHANGED <<service, saw, got, todo, want, undo, failure, approved, foreign, faults>>

(* The register call failed: undo the client write, or rethrow the failure. *)
AfterFailure(c, f) ==
    IF undo[c] = Untouched
    THEN End(c, f) /\ UNCHANGED failure
    ELSE /\ Goto(c, IF c \in Reviewed THEN "rollbackRead" ELSE "rollback")
         /\ failure' = [failure EXCEPT ![c] = f]

(* Mutant: a register without an answer is taken for a rejected one. *)
RegisterUnclassified(c) ==
    /\ Active(c, "register")
    /\ \E reply \in {"ok", "rejected", "unknown"} :
         /\ Send(c, [op |-> "register", call |-> c, client |-> Untouched], reply)
         /\ IF reply = "ok" THEN End(c, "registered") /\ UNCHANGED failure
                            ELSE AfterFailure(c, "rejected")
    /\ ForgetRow(c)
    /\ UNCHANGED <<invoice, saw, got, todo, want, undo, approved, foreign>>

Register(c) ==
    /\ Active(c, "register")
    /\ \E reply \in {"ok", "rejected", "unknown"} :
         /\ Send(c, [op |-> "register", call |-> c, client |-> Untouched], reply)
         /\ CASE reply = "ok" -> End(c, "registered") /\ UNCHANGED failure
              [] reply = "rejected" -> AfterFailure(c, "rejected")
              [] reply = "unknown" -> Goto(c, "recover") /\ UNCHANGED failure
    /\ ForgetRow(c)
    /\ UNCHANGED <<invoice, saw, got, todo, want, undo, approved, foreign>>

(* An ambiguous register is settled by one fresh read: CONFIRMED is success,
   PROJECT is failure, anything else, and a failed read, stay indeterminate. *)
Recover(c) ==
    /\ Active(c, "recover")
    /\ \/ /\ LookAtRow(c, {"row"})
          /\ CASE FreshRow(c).status = "CONFIRMED" -> End(c, "recovered") /\ UNCHANGED failure
               [] FreshRow(c).status = "PROJECT" -> AfterFailure(c, "unresolved")
               [] OTHER -> End(c, "indeterminate") /\ UNCHANGED failure
          /\ UNCHANGED faults
       \/ /\ ReadFault
          /\ ForgetRow(c)
          /\ End(c, "indeterminate")
          /\ UNCHANGED <<failure, stale, writer>>
    /\ UNCHANGED <<service, saw, got, todo, want, undo, approved, foreign>>

(* Mutant: only the client is compared. *)
AsReviewedClientOnly(c, tx) ==
    tx.client = IF undo[c] = Untouched THEN approved.row.client ELSE want[c]

(* A reviewed confirm rolls back only the row it was approved on, as it wrote it. *)
AsReviewed(c, tx) ==
    tx = [approved.row EXCEPT !.client = IF undo[c] = Untouched THEN @ ELSE want[c]]

(* Mutant: the re-read row is not compared before it is written. *)
RollbackUncompared(c) ==
    /\ Active(c, "rollbackRead")
    /\ LookAtRow(c, {"row"})
    /\ Goto(c, "rollback")
    /\ UNCHANGED <<service, saw, got, todo, want, undo, failure, approved, foreign, faults>>

RollbackRead(c) ==
    /\ Active(c, "rollbackRead")
    /\ \/ /\ LookAtRow(c, {"row"})
          /\ IF AsReviewed(c, FreshRow(c)) THEN Goto(c, "rollback") ELSE End(c, "drift")
          /\ UNCHANGED faults
       \/ /\ ReadFault
          /\ ForgetRow(c)
          /\ \E o \in {"rollbackUnknown", "rollbackFailed"} : End(c, o)
          /\ UNCHANGED <<stale, writer>>
    /\ UNCHANGED <<service, saw, got, todo, want, undo, failure, approved, foreign>>

Rollback(c) ==
    /\ Active(c, "rollback")
    /\ \E reply \in {"ok", "rejected", "unknown"} :
         /\ Send(c, [op |-> "client", call |-> c, client |-> undo[c]], reply)
         /\ End(c, CASE reply = "ok" -> failure[c]
                     [] reply = "rejected" -> "rollbackFailed"
                     [] reply = "unknown" -> "rollbackUnknown")
         /\ IF reply = "rejected" THEN UNCHANGED cached ELSE ForgetRow(c)
    /\ UNCHANGED <<invoice, saw, got, todo, want, undo, failure, approved, foreign>>

-----------------------------------------------------------------------------
(* prepareReviewedConfirm: every read must still be what the owner approved. *)

ReviewRow(c, at, next) ==
    /\ Active(c, at)
    /\ LookAtRow(c, RowChange)
    /\ saw' = [saw EXCEPT ![c] = IF at = "reviewRow" THEN FreshRow(c).client ELSE @]
    /\ IF AsReviewed(c, FreshRow(c)) /\ FreshRow(c).status = "PROJECT"
         THEN Goto(c, next) ELSE End(c, "drift")
    /\ todo' = [todo EXCEPT ![c] = LinkedOf[c]]
    /\ got' = [got EXCEPT ![c] = {}]
    /\ UNCHANGED <<service, want, undo, failure, approved, foreign, faults>>

(* The transition to another client must be the approved one: the one the approved
   rows imply, and allowed by the call's options. *)
ReviewedTransition(c, clients) ==
    \/ Cardinality(clients) > 1 /\ End(c, "drift") /\ UNCHANGED want
    \/ clients \subseteq {saw[c]} /\ Goto(c, "finalInvoice") /\ UNCHANGED want
    \/ \E k \in Client :
         /\ clients = {k} /\ saw[c] # k
         /\ IF IF saw[c] = NoClient THEN c \in AutoFix ELSE c \in Reassign
              THEN Goto(c, "reviewAgain") /\ want' = [want EXCEPT ![c] = k]
              ELSE End(c, "drift") /\ UNCHANGED want

ReviewInvoice(c) ==
    /\ Active(c, "reviewInvoice")
    /\ \/ /\ LinkedOf[c] = {}
          /\ ReviewedTransition(c, {})
          /\ UNCHANGED <<got, todo, stale, writer>>
       \/ \E i \in todo[c] :
            /\ LookAtInvoice(c, i)
            /\ got' = [got EXCEPT ![c] = Seen(c, i)]
            /\ \/ /\ invoice[i] # approved.invoice[i] \/ invoice[i] = NoClient
                  /\ End(c, "drift") /\ UNCHANGED <<want, todo>>
               \/ /\ invoice[i] = approved.invoice[i] /\ invoice[i] # NoClient
                  /\ IF todo[c] = {i}
                       THEN /\ todo' = [todo EXCEPT ![c] = LinkedOf[c]]
                            /\ ReviewedTransition(c, Seen(c, i))
                       ELSE /\ todo' = [todo EXCEPT ![c] = @ \ {i}]
                            /\ UNCHANGED <<step, queue, outcome, want>>
    /\ UNCHANGED <<service, cached, saw, undo, failure, approved, foreign, faults>>

(* The second pass over the invoices, after any client write. *)
FinalInvoice(c) ==
    /\ Active(c, "finalInvoice")
    /\ \/ todo[c] = {} /\ Goto(c, "finalRow") /\ UNCHANGED <<todo, stale, writer>>
       \/ \E i \in todo[c] :
            /\ LookAtInvoice(c, i)
            /\ todo' = [todo EXCEPT ![c] = @ \ {i}]
            /\ IF invoice[i] # approved.invoice[i]
                 THEN End(c, "drift")
                 ELSE UNCHANGED <<step, queue, outcome>>
    /\ UNCHANGED <<service, cached, saw, got, want, undo, failure, approved, foreign, faults>>

ReviewStep(c) ==
    \/ ReviewRow(c, "reviewRow", "reviewInvoice")
    \/ ReviewRow(c, "reviewAgain", "update")
    \/ ReviewRow(c, "reviewWritten", "finalInvoice")
    \/ ReviewRow(c, "finalRow", "register")
    \/ ReviewInvoice(c)
    \/ FinalInvoice(c)

-----------------------------------------------------------------------------
CallStep(c) ==
    \/ Begin(c) \/ ReadRow(c) \/ ReadInvoice(c) \/ UpdateClient(c) \/ AssertClient(c)
    \/ Register(c) \/ Recover(c) \/ RollbackRead(c) \/ Rollback(c)
    \/ ReviewStep(c)

Next ==
    \/ \E c \in Call : Enqueue(c) \/ CallStep(c) \/ ReadFails(c)
    \/ \E w \in flying : Land(w)
    \/ \E p \in Process : OtherToolReads(p)
    \/ ForeignWrite

Spec == Init /\ [][Next]_vars

(* A confirm that has joined the chain is driven by the event loop; its requests
   are answered or time out (AbortSignal in src/src/http-client.ts). *)
FairSpec == Spec /\ \A c \in Call : WF_vars(CallStep(c))

-----------------------------------------------------------------------------
Booked == {journals[n] : n \in 1..Len(journals)}

(* A receipt is booked under another client than its invoices' only when someone
   changed the row or one of the invoices after the confirm's last look at it:
   "refuse to register unless it still carries the value just written"
   (src/src/api/transactions.api.ts:232-234).  A register that lands after its
   caller gave up on it is outside what the guard can see. *)
ReceiptUnderInvoiceClient ==
    \A j \in Booked : \A i \in LinkedOf[j.by] :
        j.invoice[i] \in {NoClient, j.client} \/ "row" \in j.stale \/ i \in j.stale \/ j.late

(* A confirm queued behind another of its process never registers a row that is
   already CONFIRMED; only a writer outside the process can cause that, after the
   confirm last compared the status. *)
NoSecondRegistration ==
    \A j \in Booked : j.again => "status" \in j.stale \/ j.late

(* A reviewed confirm books the very row and the very invoices its owner approved,
   unless they change in the last instant after they were read again. *)
ReviewedBooksWhatWasApproved ==
    \A j \in Booked : j.by \in Reviewed =>
        /\ j.rev = approved.row.rev \/ "row" \in j.stale \/ j.late
        /\ \A i \in LinkedOf[j.by] :
              j.invoice[i] = approved.invoice[i] \/ i \in j.stale \/ j.late

(* No journal by c, and no register request of it still on its way. *)
Unregistered(c) ==
    /\ \A j \in Booked : j.by # c
    /\ \A w \in flying : ~(w.call = c /\ w.op = "register")

(* The failures that settle that nothing was registered: they come ahead of the register
   call, or after it was refused with a 4xx (src/src/mutation-outcome.ts). *)
FailedUnregistered(c) ==
    \/ outcome[c] \in {"refused", "rejected", "readFailed"}
    \/ /\ outcome[c] \in {"drift", "rollbackFailed", "rollbackUnknown"}
       /\ failure[c] # "unresolved"

RejectionIsFinal(c) == FailedUnregistered(c) => Unregistered(c)

(* What a failed confirmation is known to have left.  After every failure ahead of the
   register call, and after a refused register, also when the rollback drifts or fails
   behind it, the call has not registered and will not.  A refusal, a rejection, and an
   error whose rollback went through do not leave the call's own client on the row, which
   has the old client again, or the one another writer chose.  Nothing is said of a
   register without an answer: "indeterminate", or "unresolved" once the row was read in
   PROJECT.  A drift behind the latter may have a journal, though its error says
   register_attempted = false (src/src/banking/transaction-material-snapshot.ts:204). *)
FailureIsTrue ==
    \A c \in Call :
        /\ RejectionIsFinal(c)
        /\ outcome[c] \in {"refused", "rejected", "unresolved"} => writer # c

(* A reviewed rollback overwrites nothing but the client it wrote itself, unless
   another writer is faster than its re-read. *)
RollbackSparesForeignWrite ==
    [][\A c \in Reviewed :
          Active(c, "rollback") /\ step'[c] = "over" /\ row' # row
             => row.client = want[c] \/ "row" \in stale[c]]_vars

(* Every confirm that joined the chain settles, whatever became of those before. *)
EveryConfirmSettles == \A c \in Call : step[c] = "queued" ~> step[c] = "over"

=============================================================================
