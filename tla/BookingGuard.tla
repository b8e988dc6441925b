---------------------------- MODULE BookingGuard ----------------------------
(***************************************************************************)
(* BookingGuard.createJournalOnce (src/src/booking-guard.ts) for one       *)
(* booking key, called from several server processes that may die, while   *)
(* requests are delayed or lost, their answers are lost, and the           *)
(* accountant deletes a journal to have it posted again.                   *)
(*                                                                         *)
(* A request travels on its own: it reaches the accounting service while   *)
(* its call waits for the answer, after the call gave up on it or died, or *)
(* never.  The file lock is the one AbstractLock promises.                 *)
(***************************************************************************)
EXTENDS Naturals, Sequences, FiniteSets

CONSTANTS
    Call,           \* the calls of createJournalOnce with one DocKey
    Process,        \* the server processes
    ProcOf,         \* the process of a call
    Connection,     \* connection fingerprints (API credentials of one company)
    ConnectionOf,   \* the connection a call uses; the lock path depends on it
    Confirming,     \* the calls without confirm: false
    NoId,           \* created_object_id missing; no journal id yet
    MaxDown,        \* bound: processes that die
    MaxForeign,     \* bound: journals the accountant deletes
    MaxFaults       \* bound: lost requests, lost answers and failed reads

ASSUME BookingAssumption ==
    /\ ProcOf \in [Call -> Process]
    /\ ConnectionOf \in [Call -> Connection]
    /\ Confirming \subseteq Call
    /\ NoId \notin Nat

VARIABLES
    ledger,         \* the journals with this document number, in order of creation
    mail,           \* the POST and PATCH requests on their way to the service
    down,           \* the processes that died
    step, saw, answer, journalId, registered, outcome,
    foreign, faults

locals == <<saw, journalId, registered>>
bounds == <<foreign, faults>>
vars == <<ledger, mail, down, step, locals, answer, outcome, bounds>>

Locked == {"scan", "scanning", "create", "creating", "rescan", "rescanning",
           "confirm", "confirming", "verify"}
Ended == {"over", "dead"}
Step == {"waiting"} \cup Locked \cup Ended
Kinds == {"created", "duplicate", "busy", "readFailed", "rejected", "confirmRejected",
          "indeterminate"}
NotEnded == [kind |-> "none", id |-> NoId]

Ids == 1..Len(ledger)
Live == {i \in Ids : ~ledger[i].deleted}

-----------------------------------------------------------------------------
Init ==
    /\ ledger = << >>
    /\ mail = {}
    /\ down = {}
    /\ step = [c \in Call |-> "waiting"]
    /\ saw = [c \in Call |-> {}]
    /\ answer = [c \in Call |-> "none"]
    /\ journalId = [c \in Call |-> NoId]
    /\ registered = [c \in Call |-> FALSE]
    /\ outcome = [c \in Call |-> NotEnded]
    /\ foreign = 0
    /\ faults = 0

Runs(c, s) == step[c] = s /\ ProcOf[c] \notin down

Goto(c, s) == step' = [step EXCEPT ![c] = s] /\ UNCHANGED outcome

(* The callback returns or throws; withOwnedFileLock's finally block releases. *)
End(c, kind, id) ==
    /\ step' = [step EXCEPT ![c] = "over"]
    /\ outcome' = [outcome EXCEPT ![c] = [kind |-> kind, id |-> id]]

Fault == faults < MaxFaults /\ faults' = faults + 1

-----------------------------------------------------------------------------
(* The service, the accountant and the processes. *)

Waiting(r) == step[r.call] = IF r.op = "create" THEN "creating" ELSE "confirming"

Reply(r, text) == answer' = IF Waiting(r) THEN [answer EXCEPT ![r.call] = text] ELSE answer

(* POST /journals is carried out; the 2xx answer may lack created_object_id.  It is
   late when the call no longer waits for it. *)
DeliverCreate(r) ==
    /\ r.op = "create"
    /\ ledger' = Append(ledger, [by |-> r.call, registered |-> FALSE, deleted |-> FALSE,
                                 late |-> ~Waiting(r), over |-> r.saw \cap Live])
    /\ \E text \in {"ok", "noId"} : Reply(r, text)

(* PATCH /journals/{id}/register; a deleted journal is not registered. *)
DeliverRegister(r) ==
    /\ r.op = "register"
    /\ r.id \in Live
    /\ ledger' = [ledger EXCEPT ![r.id].registered = TRUE]
    /\ Reply(r, "ok")

(* A 4xx answer: nothing was written. *)
Refuse(r) == Reply(r, "rejected") /\ UNCHANGED ledger

ServiceStep(c) ==
    \E r \in mail :
        /\ r.call = c
        /\ mail' = mail \ {r}
        /\ DeliverCreate(r) \/ DeliverRegister(r) \/ Refuse(r)
        /\ UNCHANGED <<down, step, locals, outcome, bounds>>

LoseRequest(r) ==
    /\ Fault
    /\ mail' = mail \ {r}
    /\ UNCHANGED <<ledger, down, step, locals, answer, outcome, foreign>>

(* The accountant deletes or invalidates the journal in the web application. *)
ForeignDelete(i) ==
    /\ foreign < MaxForeign
    /\ foreign' = foreign + 1
    /\ i \in Live
    /\ ledger' = [ledger EXCEPT ![i].deleted = TRUE]
    /\ UNCHANGED <<mail, down, step, locals, answer, outcome, faults>>

(* A process dies; its requests go on, its lock file is reclaimed. *)
Die(p) ==
    /\ p \notin down
    /\ Cardinality(down) < MaxDown
    /\ down' = down \cup {p}
    /\ step' = [c \in Call |-> IF ProcOf[c] = p /\ step[c] # "over" THEN "dead" ELSE step[c]]
    /\ saw' = [c \in Call |-> IF ProcOf[c] = p THEN {} ELSE saw[c]]
    /\ answer' = [c \in Call |-> IF ProcOf[c] = p THEN "none" ELSE answer[c]]
    /\ UNCHANGED <<ledger, mail, journalId, registered, outcome, bounds>>

-----------------------------------------------------------------------------
(* withBookingKeyLock: one lock per connection fingerprint and key. *)

SameLock(c) == {d \in Call : ConnectionOf[d] = ConnectionOf[c]}

(* Mutant: only the calls of the same process are serialized. *)
LockIsFreeInProcess(c) ==
    \A d \in SameLock(c) : step[d] \in Locked => ProcOf[d] # ProcOf[c]

LockIsFree(c) == \A d \in SameLock(c) : step[d] \notin Locked

Enter(c) ==
    /\ Runs(c, "waiting")
    /\ LockIsFree(c)
    /\ Goto(c, "scan")
    /\ UNCHANGED <<ledger, mail, down, locals, answer, bounds>>

(* LockBusyError after 30 seconds behind another holder. *)
Busy(c) ==
    /\ Runs(c, "waiting")
    /\ ~LockIsFree(c)
    /\ End(c, "busy", NoId)
    /\ UNCHANGED <<ledger, mail, down, locals, answer, bounds>>

(* invalidateListCache and the first page of listAll. *)
StartScan(c, at, next) ==
    /\ Runs(c, at)
    /\ saw' = [saw EXCEPT ![c] = Live]
    /\ Goto(c, next)
    /\ UNCHANGED <<ledger, mail, down, journalId, registered, answer, bounds>>

(* Mutant: an unregistered journal is not found. *)
ScannedRegistered(c) ==
    {{i \in S : ledger[i].registered} :
        S \in {S \in SUBSET (saw[c] \cup Live) : saw[c] \cap Live \subseteq S}}

(* What a walk over the live pages can show under liveness not_deleted: a journal
   that was there all the time, and perhaps one that came or went meanwhile. *)
Scanned(c) ==
    {S \in SUBSET (saw[c] \cup Live) : saw[c] \cap Live \subseteq S}

(* The duplicate check ahead of the POST. *)
CheckDuplicate(c) ==
    /\ Runs(c, "scanning")
    /\ \E S \in Scanned(c) :
          \/ S = {} /\ Goto(c, "create")
          \/ \E i \in S : End(c, "duplicate", i)
    /\ saw' = [saw EXCEPT ![c] = IF step'[c] = "over" THEN {} ELSE @]
    /\ UNCHANGED <<ledger, mail, down, journalId, registered, answer, bounds>>

ReadFails(c) ==
    /\ \E s \in {"scanning", "rescanning", "verify"} : Runs(c, s)
    /\ Fault
    /\ IF step[c] = "scanning"
         THEN End(c, "readFailed", NoId)
         ELSE End(c, "indeterminate", journalId[c])
    /\ UNCHANGED <<ledger, mail, down, locals, answer, foreign>>

Send(c, op, next) ==
    /\ mail' = mail \cup {[op |-> op, call |-> c, id |-> journalId[c], saw |-> saw[c]]}
    /\ saw' = [saw EXCEPT ![c] = {}]
    /\ answer' = [answer EXCEPT ![c] = "none"]
    /\ Goto(c, next)

SendCreate(c) ==
    /\ Runs(c, "create")
    /\ Send(c, "create", "creating")
    /\ UNCHANGED <<ledger, down, journalId, registered, bounds>>

SendConfirm(c) ==
    /\ Runs(c, "confirm")
    /\ Send(c, "register", "confirming")
    /\ UNCHANGED <<ledger, down, journalId, registered, bounds>>

Heard(c) == answer' = [answer EXCEPT ![c] = "none"]

(* An id is known: confirm it unless it is registered or confirm: false. *)
HaveJournal(c, i, isRegistered) ==
    /\ journalId' = [journalId EXCEPT ![c] = i]
    /\ registered' = [registered EXCEPT ![c] = isRegistered]
    /\ IF c \in Confirming /\ ~isRegistered
         THEN Goto(c, "confirm")
         ELSE End(c, "created", i)

(* The journal the answer to c's POST names. *)
Created(c) == CHOOSE i \in Ids : ledger[i].by = c

(* Mutant: every failed create is reported as rejected. *)
CreateAnsweredUnclassified(c) ==
    /\ Runs(c, "creating")
    /\ \/ answer[c] = "ok" /\ HaveJournal(c, Created(c), FALSE)
       \/ answer[c] \in {"rejected", "noId"} /\ End(c, "rejected", NoId)
            /\ UNCHANGED <<journalId, registered>>
    /\ Heard(c)
    /\ UNCHANGED <<ledger, mail, down, saw, bounds>>

CreateAnswered(c) ==
    /\ Runs(c, "creating")
    /\ \/ answer[c] = "ok" /\ HaveJournal(c, Created(c), FALSE)
       \/ answer[c] = "noId" /\ Goto(c, "rescan") /\ UNCHANGED <<journalId, registered>>
       \/ answer[c] = "rejected" /\ End(c, "rejected", NoId) /\ UNCHANGED <<journalId, registered>>
    /\ Heard(c)
    /\ UNCHANGED <<ledger, mail, down, saw, bounds>>

(* Mutant: a request that gets no answer is waited for without a deadline. *)
UnansweredWithoutDeadline(c) == (answer[c] # "none" \/ \E r \in mail : r.call = c) /\ Fault

(* Timeout, network error, 5xx or 408: the request is lost, still under way, or
   its answer is lost. *)
Unanswered(c) ==
    \/ answer[c] = "none" /\ (\A r \in mail : r.call # c) /\ UNCHANGED faults
    \/ (answer[c] # "none" \/ \E r \in mail : r.call = c) /\ Fault

CreateAmbiguous(c) ==
    /\ Runs(c, "creating")
    /\ Unanswered(c)
    /\ Goto(c, "rescan")
    /\ Heard(c)
    /\ UNCHANGED <<ledger, mail, down, locals, foreign>>

(* One fresh list settles an ambiguous create; it is never sent again. *)
Recover(c) ==
    /\ Runs(c, "rescanning")
    /\ \E S \in Scanned(c) :
          \/ /\ S = {}
             /\ End(c, "indeterminate", NoId)
             /\ UNCHANGED <<journalId, registered>>
          \/ \E i \in S : HaveJournal(c, i, ledger[i].registered)
    /\ saw' = [saw EXCEPT ![c] = {}]
    /\ UNCHANGED <<ledger, mail, down, answer, bounds>>

ConfirmAnswered(c) ==
    /\ Runs(c, "confirming")
    /\ \/ /\ answer[c] = "ok"
          /\ registered' = [registered EXCEPT ![c] = TRUE]
          /\ End(c, "created", journalId[c])
       \/ /\ answer[c] = "rejected"
          /\ End(c, "confirmRejected", journalId[c])
          /\ UNCHANGED registered
    /\ Heard(c)
    /\ UNCHANGED <<ledger, mail, down, saw, journalId, bounds>>

ConfirmAmbiguous(c) ==
    /\ Runs(c, "confirming")
    /\ Unanswered(c)
    /\ Goto(c, "verify")
    /\ Heard(c)
    /\ UNCHANGED <<ledger, mail, down, locals, foreign>>

(* One fresh get settles an ambiguous confirm. *)
Verify(c) ==
    /\ Runs(c, "verify")
    /\ IF ledger[journalId[c]].registered
         THEN /\ registered' = [registered EXCEPT ![c] = TRUE]
              /\ End(c, "created", journalId[c])
         ELSE End(c, "indeterminate", journalId[c]) /\ UNCHANGED registered
    /\ UNCHANGED <<ledger, mail, down, saw, journalId, answer, bounds>>

-----------------------------------------------------------------------------
CallStep(c) ==
    \/ Enter(c) \/ Busy(c)
    \/ StartScan(c, "scan", "scanning") \/ CheckDuplicate(c)
    \/ SendCreate(c) \/ CreateAnswered(c) \/ CreateAmbiguous(c)
    \/ StartScan(c, "rescan", "rescanning") \/ Recover(c)
    \/ SendConfirm(c) \/ ConfirmAnswered(c) \/ ConfirmAmbiguous(c) \/ Verify(c)

Next ==
    \/ \E c \in Call : CallStep(c) \/ ReadFails(c) \/ ServiceStep(c)
    \/ \E r \in mail : LoseRequest(r)
    \/ \E i \in Ids : ForeignDelete(i)
    \/ \E p \in Process : Die(p)

Spec == Init /\ [][Next]_vars

(* A live process runs its event loop, every request is answered or times out
   (60 s, src/src/http-client.ts:365), and the lock is handed on. *)
FairSpec == Spec /\ \A c \in Call : WF_vars(CallStep(c)) /\ WF_vars(ServiceStep(c))

-----------------------------------------------------------------------------
TypeOK ==
    /\ \A i \in Ids : /\ ledger[i].by \in Call
                      /\ {ledger[i].registered, ledger[i].deleted, ledger[i].late} \subseteq BOOLEAN
    /\ \A r \in mail : r.call \in Call /\ r.op \in {"create", "register"}
                         /\ (r.op = "register" => r.id \in Ids)
    /\ down \subseteq Process
    /\ step \in [Call -> Step]
    /\ \A c \in Call : outcome[c].kind \in Kinds \cup {"none"}
    /\ \A c \in Call : {journalId[c], outcome[c].id} \subseteq Ids \cup {NoId}

(* "one document_number => at most one live journal" (src/src/booking-guard.ts:37),
   between calls with the same credentials, unless one of the journals was posted
   by a request its call had already given up on or died with. *)
OneLiveJournal ==
    \A i, j \in Live :
        i # j /\ ConnectionOf[ledger[i].by] = ConnectionOf[ledger[j].by]
            => ledger[i].late \/ ledger[j].late

(* Nothing is booked over a live journal that was there when the call looked, late
   or not; a deleted journal, and only a deleted one, is posted again. *)
NothingBookedOver == \A i \in Ids : ledger[i].over = {}

(* What a call reports is so.  An outcome that says nothing was written is true, of
   requests under way too; a journal reported registered is registered, and one
   that is reported created without it was left unconfirmed on request. *)
FailureBookedNothing(c) ==
    /\ \A i \in Ids : ledger[i].by # c
    /\ \A r \in mail : r.call # c

ReportedAsBooked(c) ==
    /\ outcome[c].id \in Ids
    /\ IF registered[c] THEN ledger[outcome[c].id].registered ELSE c \notin Confirming

OutcomeIsTrue ==
    \A c \in Call :
        /\ outcome[c].kind \in {"duplicate", "busy", "readFailed", "rejected"}
              => FailureBookedNothing(c)
        /\ outcome[c].kind = "created" => ReportedAsBooked(c)

(* Every call that asked for the lock ends, whoever died or timed out before it. *)
EveryBookingEnds == \A c \in Call : step[c] = "waiting" ~> step[c] \in Ended

(* The calls of one connection use their lock as AbstractLock has it, which is what
   OwnedFileLock is shown to implement. *)
Phase(c) ==
    CASE step[c] = "waiting" -> "waiting"
      [] step[c] \in Locked -> "holding"
      [] OTHER -> "finished"

CallsOf(k) == {c \in Call : ConnectionOf[c] = k}

Phases(k) == [c \in CallsOf(k) |-> Phase(c)]

Lock(k) == INSTANCE AbstractLock WITH Call <- CallsOf(k), phase <- Phases(k)

UsesLock == [][\A k \in Connection : [Lock(k)!Next]_(Phases(k))]_vars

=============================================================================
