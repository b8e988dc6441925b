------------------------- MODULE SaleInvoiceCreate -------------------------
(***************************************************************************)
(* manage_sale_invoice, action create (src/src/sales): a reviewed plan is  *)
(* executed under the recovery guard of its connection, a first-in         *)
(* first-out lock in memory.  A create whose POST has an unknown outcome   *)
(* leaves a marker that stops every create of what may be the same event   *)
(* until the owner releases it; a customer created for an invoice that was *)
(* refused is deactivated again.  Requests and answers are lost or late,   *)
(* the accountant enters invoices by hand, and the server restarts.        *)
(***************************************************************************)
EXTENDS Naturals, Sequences, FiniteSets, SequencesExt

CONSTANTS
    Sale,           \* a prepare and the execute of its plan
    EventOf,        \* the economic event: date, type, currency and gross amount
    Customer, CustomerOf,
    Inline,         \* calls that describe their customer instead of naming its id
    KnownClients,   \* the customers that are clients at the start, by id
    Capacity,       \* of the guard
    MaxOutside,     \* bound: restarts of the server and invoices entered by hand
    MaxErrors       \* bound: refused or lost requests, lost answers, failed reads

Marker == [call : Sale, client : Nat, made : BOOLEAN]

ASSUME SaleAssumption ==
    /\ CustomerOf \in [Sale -> Customer]
    /\ Inline \subseteq Sale
    /\ KnownClients \in Seq(Customer)
    /\ \A c \in Sale \ Inline : \E k \in DOMAIN KnownClients : KnownClients[k] = CustomerOf[c]
    /\ Capacity \in Nat \ {0}
    /\ "User" \notin Sale   \* who enters invoices and clients by hand
    /\ \A c \in Sale : c \notin Marker

VARIABLES
    clients,    \* the clients by id: [customer, active, by]
    invoices,   \* the invoices in the order they were stored: [by, event, client]
    mail,       \* requests on their way
    queue,      \* the calls in the lock and behind it, or the marker the owner releases
    markers, released,  \* Partition: creates with an unknown outcome, and those let go
    reserved,   \* Partition: calls with a reservation
    stage, client, made, \* per call: where it is, the resolved client, created by it
    answer, outcome,
    saw,        \* what was there at the check of c: stored invoices, unknown creates
    life,       \* life[c]: the server c runs in
    restarts, foreign, errors

guard == <<markers, released, reserved>>
books == <<clients, invoices>>
saleVars == <<books, mail, queue, guard, stage, client, made, answer, outcome, saw, life,
          restarts, foreign, errors>>

Guarded == {"check", "resolve", "customer", "invoice", "undo"}
Given(c) == IF c \in Inline THEN 0
            ELSE CHOOSE k \in DOMAIN KnownClients : KnownClients[k] = CustomerOf[c]

(* saleCreateMayBeSameEvent: unknown fields match.  An inline customer may be any client. *)
MayBeSame(marker, c) ==
    /\ EventOf[marker.call] = EventOf[c]
    /\ Given(c) \in {0, marker.client}

Matching(list, c) == {k \in DOMAIN list : MayBeSame(list[k], c)}

Earliest(list, c) == list[CHOOSE k \in Matching(list, c) : \A l \in Matching(list, c) : k <= l]

(* The first pending marker, or else the first released one, is the evidence whose
   client the scan of the invoices looks for. *)
Suspected(c) == Matching(markers, c) # {} \/ Matching(released, c) # {}

Evidence(c) == IF Matching(markers, c) # {} THEN Earliest(markers, c) ELSE Earliest(released, c)

Listed(event, k) == \E i \in DOMAIN invoices : invoices[i].event = event /\ invoices[i].client = k

-----------------------------------------------------------------------------
SaleInit ==
    /\ clients = [k \in DOMAIN KnownClients |->
                    [customer |-> KnownClients[k], active |-> TRUE, by |-> "User"]]
    /\ invoices = << >>
    /\ mail = {}
    /\ queue = << >>
    /\ markers = << >> /\ released = << >> /\ reserved = {}
    /\ stage = [c \in Sale |-> "new"]
    /\ client = [c \in Sale |-> 0]
    /\ made = [c \in Sale |-> FALSE]
    /\ answer = [c \in Sale |-> "none"]
    /\ outcome = [c \in Sale |-> "none"]
    /\ saw = [c \in Sale |-> [stored |-> 0, unknown |-> {}]]
    /\ life = [c \in Sale |-> 0]
    /\ restarts = 0 /\ foreign = 0 /\ errors = 0

Advance(c, s) == stage' = [stage EXCEPT ![c] = s]

Fault == errors < MaxErrors /\ errors' = errors + 1

(* Mutant: a call that ends stays in the lock. *)
EndInside(c, what) ==
    /\ Advance(c, "over")
    /\ outcome' = [outcome EXCEPT ![c] = what]
    /\ UNCHANGED queue

(* withLock: the lock is left with the call, however it ends. *)
End(c, what) ==
    /\ Advance(c, "over")
    /\ outcome' = [outcome EXCEPT ![c] = what]
    /\ queue' = Tail(queue)

(* Mutant: the reservation stays. *)
KeepReservation(c) == UNCHANGED guard

(* abandonDefinitive, complete and markIndeterminate. *)
Abandon(c) == reserved' = reserved \ {c} /\ UNCHANGED <<markers, released>>

MarkIndeterminate(c) ==
    /\ markers' = Append(markers, [call |-> c, client |-> client[c], made |-> made[c]])
    /\ reserved' = reserved \ {c}
    /\ UNCHANGED released

-----------------------------------------------------------------------------
(* The service, the accountant and the server process. *)

Reply(r, text) == answer' = IF stage[r.call] = r.op THEN [answer EXCEPT ![r.call] = text] ELSE answer

Store(r) ==
    \/ /\ r.op = "customer"
       /\ clients' = Append(clients, [customer |-> CustomerOf[r.call], active |-> TRUE, by |-> r.call])
       /\ \E text \in {"ok", "noId"} : Reply(r, text)
       /\ UNCHANGED invoices
    \/ /\ r.op = "invoice"
       /\ invoices' = Append(invoices, [by |-> r.call, event |-> EventOf[r.call], client |-> r.client])
       /\ \E text \in {"ok", "noId"} : Reply(r, text)
       /\ UNCHANGED clients
    \/ /\ r.op = "undo"
       /\ clients' = [clients EXCEPT ![r.client].active = FALSE]
       /\ Reply(r, "ok")
       /\ UNCHANGED invoices

ServiceStep(c) ==
    \E r \in mail :
        /\ r.call = c
        /\ mail' = mail \ {r}
        /\ \/ Store(r) /\ UNCHANGED errors
           \/ Fault /\ Reply(r, "rejected") /\ UNCHANGED books
           \/ Fault /\ UNCHANGED <<answer, books>>
        /\ UNCHANGED <<queue, guard, stage, client, made, outcome, saw, life, restarts, foreign>>

ForeignInvoice ==
    /\ restarts + foreign < MaxOutside
    /\ foreign' = foreign + 1
    /\ \E c \in Sale, k \in DOMAIN clients :
          /\ clients[k].active
          /\ invoices' = Append(invoices, [by |-> "User", event |-> EventOf[c], client |-> k])
    /\ UNCHANGED <<clients, mail, queue, guard, stage, client, made, answer, outcome, saw, life,
                   restarts, errors>>

(* The plans and the guard are kept in memory. *)
Restart ==
    /\ restarts + foreign < MaxOutside
    /\ restarts' = restarts + 1
    /\ queue' = << >>
    /\ markers' = << >> /\ released' = << >> /\ reserved' = {}
    /\ stage' = [c \in Sale |-> IF stage[c] \in {"new", "over"} THEN stage[c] ELSE "dead"]
    /\ UNCHANGED <<books, mail, client, made, answer, outcome, saw, life, foreign, errors>>

-----------------------------------------------------------------------------
Keep == UNCHANGED <<books, foreign, restarts>>

(* prepare: no plan without a scan that found nothing, and never one beside a marker.
   It holds the lock and changes nothing: one step. *)
Prepare(c) ==
    /\ stage[c] = "new"
    /\ queue = << >>
    /\ Matching(markers, c) = {}
    /\ Suspected(c) => ~Listed(EventOf[c], Evidence(c).client)
    /\ Advance(c, "reviewed")
    /\ life' = [life EXCEPT ![c] = restarts]
    /\ Keep /\ UNCHANGED <<mail, queue, guard, client, made, answer, outcome, saw, errors>>

(* execute: the plan is consumed, then the lock is asked for. *)
Consume(c) ==
    /\ stage[c] = "reviewed"
    /\ Advance(c, "check")
    /\ queue' = Append(queue, c)
    /\ Keep /\ UNCHANGED <<mail, guard, client, made, answer, outcome, saw, life, errors>>

Holds(c, s) == stage[c] = s /\ queue # << >> /\ Head(queue) = c

(* reserve: the capacity is shared with the released markers, which stay. *)
Reserve(c) ==
    IF Len(markers) + Cardinality(reserved) + Len(released) >= Capacity
      THEN End(c, "unavailable") /\ UNCHANGED guard
      ELSE /\ reserved' = reserved \cup {c}
           /\ Advance(c, "resolve")
           /\ UNCHANGED <<markers, released, outcome, queue>>

See(c) == saw' = [saw EXCEPT ![c] =
    [stored |-> Len(invoices), unknown |-> {d \in Sale : outcome[d] = "indeterminate"}]]

(* Mutant: a released marker no longer asks for a scan. *)
CheckPendingOnly(c) ==
    /\ Holds(c, "check")
    /\ IF Matching(markers, c) # {} THEN End(c, "held") /\ UNCHANGED guard ELSE Reserve(c)
    /\ See(c)
    /\ Keep /\ UNCHANGED <<mail, client, made, answer, life, errors>>

(* checkCreateRecovery, then the validation that only reads, then reserve. *)
Check(c) ==
    /\ Holds(c, "check")
    /\ IF \/ Matching(markers, c) # {}
          \/ Suspected(c) /\ Listed(EventOf[c], Evidence(c).client)
         THEN End(c, "held") /\ UNCHANGED guard
         ELSE Reserve(c)
    /\ See(c)
    /\ Keep /\ UNCHANGED <<mail, client, made, answer, life, errors>>

(* A scan that is not complete holds; a failed read of the accounts fails the call. *)
CheckFails(c) ==
    /\ Holds(c, "check")
    /\ Fault
    /\ End(c, IF Suspected(c) THEN "held" ELSE "failed")
    /\ Keep /\ UNCHANGED <<guard, mail, client, made, answer, saw, life>>

Send(c, op, k) ==
    /\ mail' = mail \cup {[op |-> op, call |-> c, client |-> k]}
    /\ answer' = [answer EXCEPT ![c] = "none"]
    /\ Advance(c, op)

(* bindResolvedClient, then the POST.  The binding cannot be refused: a marker that
   matches the resolved client matched the intent at the check. *)
SendInvoice(c, k) ==
    /\ client' = [client EXCEPT ![c] = k]
    /\ Send(c, "invoice", k)

Active(customer) == {k \in DOMAIN clients : clients[k].customer = customer /\ clients[k].active}

(* resolveInvoiceClient: an active client is reused, else one is created. *)
Resolve(c) ==
    /\ Holds(c, "resolve")
    /\ \/ c \notin Inline /\ SendInvoice(c, Given(c))
       \/ /\ c \in Inline
          /\ \/ \E k \in Active(CustomerOf[c]) : SendInvoice(c, k)
             \/ Active(CustomerOf[c]) = {} /\ Send(c, "customer", 0) /\ UNCHANGED client
    /\ Keep /\ UNCHANGED <<queue, guard, made, outcome, saw, life, errors>>

(* The customer may not be resolved (its own company, an identity conflict, no
   verified identity), or reading the clients fails. *)
ResolveRefused(c) ==
    /\ Holds(c, "resolve")
    /\ c \in Inline
    /\ Abandon(c)
    /\ End(c, "failed")
    /\ Keep /\ UNCHANGED <<mail, client, made, answer, saw, life, errors>>

Unanswered(c) ==
    \/ answer[c] = "none" /\ (\A r \in mail : r.call # c) /\ UNCHANGED errors
    \/ (answer[c] # "none" \/ \E r \in mail : r.call = c) /\ Fault

CustomerCreated(c) ==
    /\ Holds(c, "customer")
    /\ answer[c] = "ok"
    /\ \E k \in DOMAIN clients : clients[k].by = c /\ SendInvoice(c, k)
    /\ made' = [made EXCEPT ![c] = TRUE]
    /\ Keep /\ UNCHANGED <<queue, guard, outcome, saw, life, errors>>

(* An answer without an id leaves the customer unresolved, and whatever the create of
   the client throws, a lost answer too, is definitive here. *)
CustomerFailed(c) ==
    /\ Holds(c, "customer")
    /\ (answer[c] \in {"rejected", "noId"} /\ UNCHANGED errors) \/ Unanswered(c)
    /\ Abandon(c)
    /\ End(c, "failed")
    /\ Keep /\ UNCHANGED <<mail, client, made, answer, saw, life>>

InvoiceCreated(c) ==
    /\ Holds(c, "invoice")
    /\ answer[c] = "ok"
    /\ Abandon(c)
    /\ End(c, "created")
    /\ Keep /\ UNCHANGED <<mail, client, made, answer, saw, life, errors>>

(* No answer, or one without a usable id. *)
InvoiceUnknown(c) ==
    /\ Holds(c, "invoice")
    /\ (answer[c] = "noId" /\ UNCHANGED errors) \/ Unanswered(c)
    /\ MarkIndeterminate(c)
    /\ End(c, "indeterminate")
    /\ Keep /\ UNCHANGED <<mail, client, made, answer, saw, life>>

(* Mutant: an unknown outcome is taken for a refusal. *)
InvoiceRefusedOrUnknown(c) ==
    /\ Holds(c, "invoice")
    /\ (answer[c] = "rejected" /\ UNCHANGED errors) \/ Unanswered(c)
    /\ Abandon(c)
    /\ IF made[c]
         THEN Send(c, "undo", client[c]) /\ UNCHANGED <<queue, outcome>>
         ELSE End(c, "failed") /\ UNCHANGED <<mail, answer>>
    /\ Keep /\ UNCHANGED <<client, made, saw, life>>

(* A definitive refusal: the client created for the invoice is deactivated. *)
InvoiceRefused(c) ==
    /\ Holds(c, "invoice")
    /\ answer[c] = "rejected"
    /\ Abandon(c)
    /\ IF made[c]
         THEN Send(c, "undo", client[c]) /\ UNCHANGED <<queue, outcome>>
         ELSE End(c, "failed") /\ UNCHANGED <<mail, answer>>
    /\ Keep /\ UNCHANGED <<client, made, saw, life, errors>>

Undone(c) ==
    /\ Holds(c, "undo")
    /\ \/ answer[c] = "ok" /\ End(c, "rolledBack") /\ UNCHANGED errors
       \/ answer[c] = "rejected" /\ End(c, "rollbackUnknown") /\ UNCHANGED errors
       \/ Unanswered(c) /\ End(c, "rollbackUnknown")
    /\ Keep /\ UNCHANGED <<guard, mail, client, made, answer, saw, life>>

-----------------------------------------------------------------------------
(* prepare with release_indeterminate: the owner names the marker of an intent, the
   invoices are listed, and only then the marker is let go.  Nobody can check that
   the POST will not complete after all. *)
OwnerScans ==
    /\ queue = << >>
    /\ \E m \in Range(markers) :
          /\ Earliest(markers, m.call) = m
          /\ ~Listed(EventOf[m.call], m.client)
          /\ queue' = <<m>>
    /\ Keep /\ UNCHANGED <<mail, guard, stage, client, made, answer, outcome, saw, life, errors>>

OwnerReleases ==
    /\ \E k \in DOMAIN markers :
          /\ queue # << >> /\ Head(queue) = markers[k]
          /\ released' = Append(released, markers[k])
          /\ markers' = RemoveAt(markers, k)
    /\ queue' = Tail(queue)
    /\ Keep /\ UNCHANGED <<mail, reserved, stage, client, made, answer, outcome, saw, life, errors>>

-----------------------------------------------------------------------------
SaleStep(c) ==
    \/ Check(c) \/ Resolve(c) \/ CustomerCreated(c) \/ CustomerFailed(c)
    \/ InvoiceCreated(c) \/ InvoiceUnknown(c) \/ InvoiceRefused(c) \/ Undone(c)

SaleNext ==
    \/ \E c \in Sale : \/ Prepare(c) \/ Consume(c) \/ SaleStep(c) \/ CheckFails(c)
                       \/ ResolveRefused(c) \/ ServiceStep(c)
    \/ OwnerScans \/ OwnerReleases
    \/ ForeignInvoice
    \/ Restart

SaleSpec == SaleInit /\ [][SaleNext]_saleVars

(* The event loop runs every call on, and a request is answered or aborted after 60
   seconds (src/src/http-client.ts:365). *)
FairSaleSpec == /\ SaleSpec
            /\ \A c \in Sale : WF_saleVars(SaleStep(c)) /\ WF_saleVars(ServiceStep(c))
            /\ WF_saleVars(OwnerReleases)

-----------------------------------------------------------------------------
(* The guard remembers every create that this server reported unknown, until the owner
   lets it go and also then, for the capacity it shares; it never holds more than its
   capacity, and the reservations are of the calls between the check and the outcome. *)
GuardRemembers ==
    /\ {c \in Sale : outcome[c] = "indeterminate" /\ life[c] = restarts}
           = {m.call : m \in Range(markers \o released)}
    /\ Len(markers) + Cardinality(reserved) + Len(released) <= Capacity
    /\ reserved = {c \in Sale : stage[c] \in Guarded \ {"check", "undo"}}

(* An invoice is not created over one that an earlier create, reported unknown by the
   same server, had stored by the time this create listed the invoices; and one that
   was stored later is there only because the owner released the marker.  Among several
   released markers only the first is scanned for (src/src/sales/invoice-operations.ts:341),
   so an invoice with another client's marker released before its own may be passed over. *)
NoSecondInvoice ==
    \A i, j \in DOMAIN invoices :
        LET a == invoices[i].by  b == invoices[j].by IN
        /\ a \in Sale /\ b \in Sale /\ a # b
        /\ life[a] = life[b] /\ life[b] = restarts
        /\ invoices[i].event = invoices[j].event /\ invoices[i].client = invoices[j].client
        /\ a \in saw[b].unknown
        => \E n \in DOMAIN released :
               /\ released[n].call = a
               /\ \/ i > saw[b].stored
                  \/ \E k \in 1..(n - 1) : released[k].client # invoices[i].client

InvoiceOf(c) ==
    \/ \E i \in DOMAIN invoices : invoices[i].by = c
    \/ \E r \in mail : r.call = c /\ r.op = "invoice"

ClientsOf(c) == {k \in DOMAIN clients : clients[k].by = c}

(* The client a call created is deactivated late: after it was reported unknown, or by
   a request of a server that is gone. *)
LateDeactivation(c) == outcome[c] = "rollbackUnknown" \/ stage[c] = "dead"

(* What a call says of its invoice and its customer when it ends is true and stays so;
   and the customer of an invoice that was created, or may have been, stays active. *)
ReportIsTrue ==
    \A c \in Sale :
        /\ outcome[c] = "created" => InvoiceOf(c)
        /\ outcome[c] \in {"unavailable", "failed", "held", "rolledBack", "rollbackUnknown"} => ~InvoiceOf(c)
        /\ outcome[c] \in {"unavailable", "held"} => ClientsOf(c) = {}
        /\ outcome[c] = "rolledBack" => \A k \in ClientsOf(c) : ~clients[k].active
        /\ outcome[c] \in {"created", "indeterminate"} /\ ~clients[client[c]].active
              => LateDeactivation(clients[client[c]].by)

(* An execute ends unless its server restarts: whatever the calls before it met, the
   lock is passed on. *)
EveryCreateEnds == \A c \in Sale : stage[c] = "check" ~> stage[c] \in {"over", "dead"}

=============================================================================
