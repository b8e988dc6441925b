------------------------ MODULE BookingGuard_proofs ------------------------
(***************************************************************************)
(* Proofs about BookingGuard: for any number of calls, processes and       *)
(* connections, and whatever is lost, late or deleted, one booking key has *)
(* one live journal, nothing is booked over another journal, and what a    *)
(* call reports is so.                                                     *)
(***************************************************************************)
EXTENDS BookingGuard, TLAPS

Journal == [by : Call, registered : BOOLEAN, deleted : BOOLEAN, late : BOOLEAN,
            over : SUBSET Nat]
Request == [op : {"create", "register"}, call : Call, id : Nat \cup {NoId}, saw : SUBSET Nat]

BookingType ==
    /\ ledger \in Seq(Journal)
    /\ mail \in SUBSET Request
    /\ down \in SUBSET Process
    /\ step \in [Call -> Step]
    /\ saw \in [Call -> SUBSET Nat]
    /\ answer \in [Call -> {"none", "ok", "noId", "rejected"}]
    /\ journalId \in [Call -> Nat \cup {NoId}]
    /\ registered \in [Call -> BOOLEAN]
    /\ outcome \in [Call -> [kind : Kinds \cup {"none"}, id : Nat \cup {NoId}]]

(* The journals that a call of c's connection posted while it waited for the answer. *)
OwnLive(c) == {i \in Live : ConnectionOf[ledger[i].by] = ConnectionOf[c] /\ ~ledger[i].late}

Unposted == {"waiting", "scan", "scanning", "create"}
Posted == {"confirm", "confirming", "verify"}
Failures == {"duplicate", "busy", "readFailed", "rejected"}

(* What one call knows and has done. *)
CallInv(c) ==
    /\ saw[c] \subseteq Ids /\ {journalId[c], outcome[c].id} \subseteq Ids \cup {NoId}
    /\ step[c] \in Posted => journalId[c] \in Ids
    /\ step[c] \in {"waiting"} \cup Locked => outcome[c] = NotEnded
    /\ step[c] \in Unposted => FailureBookedNothing(c)
    /\ step[c] = "scanning" => OwnLive(c) \subseteq saw[c]
    /\ step[c] = "create" => saw[c] \cap Live = {}
    /\ step[c] \in {"create", "creating"} => \A i \in OwnLive(c) : ledger[i].by = c
    /\ step[c] = "creating" /\ answer[c] = "ok" => \E i \in Ids : ledger[i].by = c
    /\ step[c] = "creating" /\ answer[c] = "rejected" => FailureBookedNothing(c)
    /\ step[c] = "confirming" /\ answer[c] = "ok" => ledger[journalId[c]].registered
    /\ outcome[c].kind \in Failures => FailureBookedNothing(c)
    /\ outcome[c].kind = "created" => ReportedAsBooked(c)

(* What is on its way to the service. *)
MailInv ==
    /\ \A r \in mail : r.op = "create" =>
          /\ r.saw \subseteq Ids /\ r.saw \cap Live = {}
          /\ \A i \in Ids : ledger[i].by # r.call
          /\ \A q \in mail : q.op = "create" /\ q.call = r.call => q = r
    /\ \A r \in mail : r.op = "register" =>
          /\ r.id \in Ids /\ r.id = journalId[r.call]
          /\ step[r.call] \in {"confirming", "verify"} \cup Ended

(* One holder of each lock, and one journal of each call. *)
Exclusive ==
    \A c, d \in Call : ConnectionOf[c] = ConnectionOf[d] /\ step[c] \in Locked
                          /\ step[d] \in Locked => c = d

LedgerInv ==
    /\ \A i, j \in Ids : ledger[i].by = ledger[j].by => i = j
    /\ NothingBookedOver
    /\ OneLiveJournal

BookingInv ==
    BookingType /\ (\A c \in Call : CallInv(c)) /\ MailInv /\ Exclusive /\ LedgerInv

-----------------------------------------------------------------------------
LEMMA BookingInit == Init => BookingInv
<1> SUFFICES ASSUME Init PROVE BookingInv
  OBVIOUS
<1>1. Ids = {} /\ Live = {}
  BY DEF Init, Ids, Live
<1>2. BookingType
  BY DEF Init, BookingType, Step, NotEnded
<1>3. \A c \in Call : CallInv(c)
  BY <1>1 DEF Init, CallInv, Posted, Failures, NotEnded, FailureBookedNothing
<1>4. MailInv /\ Exclusive /\ LedgerInv
  BY <1>1 DEF Init, MailInv, Exclusive, LedgerInv, NothingBookedOver, OneLiveJournal, Locked
<1>5. QED
  BY <1>2, <1>3, <1>4 DEF BookingInv

(* A step that touches one call and sends nothing leaves everything else as it was. *)
LEMMA CallMoves ==
  ASSUME BookingInv, NEW c \in Call, ledger' = ledger, mail' = mail, BookingType',
         \A d \in Call \ {c} :
            /\ step'[d] = step[d] /\ saw'[d] = saw[d] /\ answer'[d] = answer[d]
            /\ journalId'[d] = journalId[d] /\ registered'[d] = registered[d]
            /\ outcome'[d] = outcome[d],
         CallInv(c)',
         step'[c] \in Locked => step[c] \in Locked \/ LockIsFree(c),
         \A r \in mail : r.op = "register" /\ r.call = c =>
            journalId'[c] = journalId[c] /\ step'[c] \in {"confirming", "verify"} \cup Ended
  PROVE  BookingInv'
<1>1. Ids' = Ids /\ Live' = Live
  BY DEF Ids, Live
<1>2. \A d \in Call \ {c} : CallInv(d) => CallInv(d)'
  BY <1>1 DEF CallInv, FailureBookedNothing, ReportedAsBooked, OwnLive
<1>3. \A d \in Call : CallInv(d)'
  BY <1>2 DEF BookingInv
<1>4. MailInv'
  <2>1. \A r \in mail : r.call \in Call
    BY DEF BookingInv, BookingType, Request
  <2>2. QED
    BY <1>1, <2>1 DEF BookingInv, MailInv
<1>5. Exclusive'
  BY DEF BookingInv, Exclusive, LockIsFree, SameLock
<1>6. LedgerInv'
  BY <1>1 DEF BookingInv, LedgerInv, NothingBookedOver, OneLiveJournal
<1>7. QED
  BY <1>3, <1>4, <1>5, <1>6 DEF BookingInv

-----------------------------------------------------------------------------
(* A call that ends is over, and what the ledger holds are journals. *)
LEMMA EndTyped ==
  ASSUME BookingInv, NEW c \in Call, NEW kind \in Kinds, NEW id \in Nat \cup {NoId}, End(c, kind, id)
  PROVE  /\ step' \in [Call -> Step]
         /\ outcome' \in [Call -> [kind : Kinds \cup {"none"}, id : Nat \cup {NoId}]]
  BY DEF End, BookingInv, BookingType, Step, Ended

LEMMA LedgerTyped == ASSUME BookingInv, NEW i \in Ids PROVE ledger[i] \in Journal
  BY DEF BookingInv, BookingType, Ids

(* One lemma per step of a call. *)

LEMMA EnterKeeps == ASSUME BookingInv, NEW c \in Call, Enter(c) PROVE BookingInv'
<1> USE DEF Enter, Goto, Runs, locals, bounds
<1>1. BookingType'
  BY DEF BookingInv, BookingType, Step, Locked
<1>2. CallInv(c)'
  BY DEF BookingInv, BookingType, CallInv, Locked, Posted, Unposted, FailureBookedNothing,
         ReportedAsBooked, Ids, Live
<1>3. QED
  BY <1>1, <1>2, CallMoves DEF BookingInv, BookingType, MailInv, Ended

LEMMA BusyKeeps == ASSUME BookingInv, NEW c \in Call, Busy(c) PROVE BookingInv'
<1> USE DEF Busy, End, Runs, locals, bounds
<1>1. BookingType'
  BY DEF BookingInv, BookingType, Step, Ended, Kinds
<1>2. CallInv(c)'
  BY DEF BookingInv, BookingType, CallInv, Locked, Posted, Unposted, FailureBookedNothing,
         ReportedAsBooked, Ids, Live
<1>3. QED
  BY <1>1, <1>2, CallMoves DEF BookingInv, BookingType, MailInv, Ended, Locked

LEMMA StartScanKeeps ==
  ASSUME BookingInv, NEW c \in Call,
         StartScan(c, "scan", "scanning") \/ StartScan(c, "rescan", "rescanning")
  PROVE  BookingInv'
<1> USE DEF StartScan, Goto, Runs, locals, bounds
<1>1. BookingType'
  <2>1. Live \in SUBSET Nat
    BY DEF Live, Ids
  <2>2. QED
    BY <2>1 DEF BookingInv, BookingType, Step, Locked
<1>2. CallInv(c)'
  BY DEF BookingInv, BookingType, CallInv, Locked, Posted, Unposted, FailureBookedNothing,
         ReportedAsBooked, OwnLive, Ids, Live
<1>3. QED
  BY <1>1, <1>2, CallMoves DEF BookingInv, BookingType, MailInv, Ended, Locked

LEMMA CheckDuplicateKeeps == ASSUME BookingInv, NEW c \in Call, CheckDuplicate(c) PROVE BookingInv'
<1>1. PICK S \in Scanned(c) : (S = {} /\ Goto(c, "create")) \/ \E i \in S : End(c, "duplicate", i)
  BY DEF CheckDuplicate
<1>2. /\ saw[c] \subseteq Ids /\ Live \subseteq Ids /\ Ids \subseteq Nat
      /\ S \subseteq Ids /\ saw[c] \cap Live \subseteq S
  BY DEF Scanned, BookingInv, CallInv, Live, Ids
<1>3. BookingType'
  <2>1. step' \in [Call -> Step] /\ outcome' \in [Call -> [kind : Kinds \cup {"none"}, id : Nat \cup {NoId}]]
    BY <1>1, <1>2 DEF Goto, End, BookingInv, BookingType, Step, Locked, Ended, Kinds
  <2>2. saw' \in [Call -> SUBSET Nat]
    BY DEF CheckDuplicate, BookingInv, BookingType
  <2>3. QED
    BY <2>1, <2>2 DEF CheckDuplicate, Runs, bounds, BookingInv, BookingType
<1>4. CallInv(c)'
  <2>1. CASE S = {} /\ Goto(c, "create")
    <3>1. step'[c] = "create" /\ saw'[c] = saw[c] /\ saw[c] \cap Live = {}
      BY <1>2, <2>1 DEF CheckDuplicate, Goto, BookingInv, BookingType
    <3>2. OwnLive(c) = {}
      BY <3>1 DEF CheckDuplicate, Runs, OwnLive, BookingInv, CallInv
    <3>3. QED
      BY <2>1, <3>1, <3>2 DEF CheckDuplicate, Goto, Runs, bounds, BookingInv, BookingType, CallInv,
             Locked, Posted, Unposted, FailureBookedNothing, ReportedAsBooked, OwnLive, Ids, Live
  <2>2. ASSUME NEW i \in S, End(c, "duplicate", i) PROVE CallInv(c)'
    BY <1>2, <2>2 DEF CheckDuplicate, End, Runs, bounds, BookingInv, BookingType, CallInv, Locked,
                      Posted, Unposted, Failures, FailureBookedNothing, Ids, Live
  <2>3. QED
    BY <1>1, <2>1, <2>2
<1>5. step'[c] \in Locked => step[c] \in Locked
  BY DEF CheckDuplicate, Runs, Locked
<1>6. QED
  BY <1>1, <1>3, <1>4, <1>5, CallMoves
     DEF CheckDuplicate, Goto, End, Runs, bounds, BookingInv, BookingType, MailInv, Ended

LEMMA ReadFailsKeeps == ASSUME BookingInv, NEW c \in Call, ReadFails(c) PROVE BookingInv'
<1>1. BookingType'
  <2>1. journalId[c] \in Nat \cup {NoId}
    BY DEF BookingInv, BookingType
  <2>2. step' \in [Call -> Step] /\ outcome' \in [Call -> [kind : Kinds \cup {"none"}, id : Nat \cup {NoId}]]
    BY <2>1, EndTyped DEF ReadFails, Kinds
  <2>3. QED
    BY <2>2 DEF ReadFails, locals, BookingInv, BookingType
<1> USE DEF ReadFails, End, Runs, locals
<1>2. CallInv(c)'
  <2>1. CASE step[c] = "scanning"
    BY <2>1 DEF BookingInv, BookingType, CallInv, Locked, Posted, Unposted, Failures,
                FailureBookedNothing, Ids, Live
  <2>2. CASE step[c] # "scanning"
    BY <2>2 DEF BookingInv, BookingType, CallInv, Locked, Posted, Unposted, Failures, Ids, Live
  <2>3. QED
    BY <2>1, <2>2
<1>3. QED
  BY <1>1, <1>2, CallMoves DEF BookingInv, BookingType, MailInv, Ended, Locked

(* An id is known: the call goes on to confirm the journal, or reports it. *)
LEMMA HaveJournalHolds ==
  ASSUME BookingInv, NEW c \in Call, step[c] \in Locked \ Unposted, NEW i \in Ids,
         NEW isRegistered \in BOOLEAN, isRegistered => ledger[i].registered,
         HaveJournal(c, i, isRegistered), ledger' = ledger, mail' = mail,
         saw'[c] \in {saw[c], {}}
  PROVE  /\ CallInv(c)'
         /\ step' \in [Call -> Step] /\ journalId' \in [Call -> Nat \cup {NoId}]
         /\ registered' \in [Call -> BOOLEAN]
         /\ outcome' \in [Call -> [kind : Kinds \cup {"none"}, id : Nat \cup {NoId}]]
         /\ step'[c] \in {"confirm", "over"}
         /\ \A d \in Call \ {c} : /\ step'[d] = step[d] /\ journalId'[d] = journalId[d]
                                  /\ registered'[d] = registered[d] /\ outcome'[d] = outcome[d]
<1> USE DEF HaveJournal, Goto, End
<1>1. i \in Nat /\ Ids' = Ids
  BY DEF Ids
<1>2. step' \in [Call -> Step] /\ step'[c] \in {"confirm", "over"}
  BY DEF BookingInv, BookingType, Step, Locked, Ended
<1>3. /\ journalId' \in [Call -> Nat \cup {NoId}] /\ registered' \in [Call -> BOOLEAN]
      /\ journalId'[c] = i /\ registered'[c] = isRegistered
  BY <1>1 DEF BookingInv, BookingType
<1>4. outcome' \in [Call -> [kind : Kinds \cup {"none"}, id : Nat \cup {NoId}]]
  BY <1>1 DEF BookingInv, BookingType, Kinds
<1>5. CASE c \in Confirming /\ ~isRegistered
  <2>1. step'[c] = "confirm" /\ outcome'[c] = outcome[c] /\ outcome[c] = NotEnded
    BY <1>5 DEF BookingInv, BookingType, CallInv
  <2>2. CallInv(c)'
    BY <1>1, <1>3, <2>1 DEF BookingInv, BookingType, CallInv, Locked, Posted, Unposted, Failures, NotEnded
  <2>3. QED
    BY <1>2, <1>3, <1>4, <2>2 DEF BookingInv, BookingType
<1>6. CASE ~(c \in Confirming /\ ~isRegistered)
  <2>1. step'[c] = "over" /\ outcome'[c] = [kind |-> "created", id |-> i]
    BY <1>6 DEF BookingInv, BookingType
  <2>2. ReportedAsBooked(c)'
    BY <1>1, <1>3, <1>6, <2>1 DEF ReportedAsBooked
  <2>3. CallInv(c)'
    BY <1>1, <1>3, <2>1, <2>2 DEF BookingInv, CallInv, Locked, Posted, Unposted, Failures
  <2>4. QED
    BY <1>2, <1>3, <1>4, <2>3 DEF BookingInv, BookingType
<1>7. QED
  BY <1>5, <1>6

(* While the answer to its POST is due, or settled by a list, a call has nothing else
   on its way. *)
LEMMA NoRegister ==
  ASSUME BookingInv, NEW c \in Call, step[c] \in {"creating", "rescan", "rescanning"}
  PROVE  \A r \in mail : ~(r.op = "register" /\ r.call = c)
  BY DEF BookingInv, MailInv, Ended

LEMMA CreateAnsweredKeeps == ASSUME BookingInv, NEW c \in Call, CreateAnswered(c) PROVE BookingInv'
<1>1. /\ step[c] = "creating" /\ ledger' = ledger /\ mail' = mail /\ down' = down /\ saw' = saw
      /\ answer' \in [Call -> {"none", "ok", "noId", "rejected"}]
      /\ \A d \in Call \ {c} : answer'[d] = answer[d]
  BY DEF CreateAnswered, Runs, Heard, BookingInv, BookingType
<1>2. CASE answer[c] = "ok" /\ HaveJournal(c, Created(c), FALSE)
  <2>1. Created(c) \in Ids
    BY <1>1, <1>2 DEF BookingInv, CallInv, Created
  <2>2. step[c] \in Locked \ Unposted
    BY <1>1 DEF Locked, Unposted
  <2>3. /\ CallInv(c)'
        /\ step' \in [Call -> Step] /\ journalId' \in [Call -> Nat \cup {NoId}]
        /\ registered' \in [Call -> BOOLEAN]
        /\ outcome' \in [Call -> [kind : Kinds \cup {"none"}, id : Nat \cup {NoId}]]
        /\ \A d \in Call \ {c} : /\ step'[d] = step[d] /\ journalId'[d] = journalId[d]
                                 /\ registered'[d] = registered[d] /\ outcome'[d] = outcome[d]
    BY <1>1, <1>2, <2>1, <2>2, HaveJournalHolds
  <2>4. BookingType'
    BY <1>1, <2>3 DEF BookingInv, BookingType
  <2>5. QED
    BY <1>1, <2>2, <2>3, <2>4, CallMoves, NoRegister
<1>3. CASE answer[c] = "noId" /\ Goto(c, "rescan") /\ UNCHANGED <<journalId, registered>>
  <2>1. BookingType'
    BY <1>1, <1>3 DEF Goto, BookingInv, BookingType, Step, Locked
  <2>2. CallInv(c)'
    BY <1>1, <1>3 DEF Goto, BookingInv, BookingType, CallInv, Locked, Posted, Unposted, Failures,
                      NotEnded, Ids, Live
  <2>3. QED
    BY <1>1, <1>3, <2>1, <2>2, CallMoves, NoRegister DEF Goto, BookingInv, BookingType, Locked
<1>4. CASE answer[c] = "rejected" /\ End(c, "rejected", NoId) /\ UNCHANGED <<journalId, registered>>
  <2>1. BookingType'
    BY <1>1, <1>4 DEF End, BookingInv, BookingType, Step, Ended, Kinds
  <2>2. CallInv(c)'
    BY <1>1, <1>4 DEF End, BookingInv, BookingType, CallInv, Locked, Posted, Unposted,
                      FailureBookedNothing, Ids, Live
  <2>3. QED
    BY <1>1, <1>4, <2>1, <2>2, CallMoves, NoRegister DEF End, BookingInv, BookingType, Locked
<1>5. QED
  BY <1>2, <1>3, <1>4 DEF CreateAnswered

LEMMA CreateAmbiguousKeeps == ASSUME BookingInv, NEW c \in Call, CreateAmbiguous(c) PROVE BookingInv'
<1> USE DEF CreateAmbiguous, Goto, Runs, Heard, locals
<1>1. BookingType'
  BY DEF BookingInv, BookingType, Step, Locked
<1>2. CallInv(c)'
  BY DEF BookingInv, BookingType, CallInv, Locked, Posted, Unposted, Failures, NotEnded, Ids, Live
<1>3. QED
  BY <1>1, <1>2, CallMoves, NoRegister DEF BookingInv, BookingType, Locked

LEMMA RecoverKeeps == ASSUME BookingInv, NEW c \in Call, Recover(c) PROVE BookingInv'
<1>1. PICK S \in Scanned(c) :
         \/ S = {} /\ End(c, "indeterminate", NoId) /\ UNCHANGED <<journalId, registered>>
         \/ \E i \in S : HaveJournal(c, i, ledger[i].registered)
  BY DEF Recover
<1>2. /\ step[c] = "rescanning" /\ ledger' = ledger /\ mail' = mail /\ down' = down
      /\ saw' \in [Call -> SUBSET Nat] /\ saw'[c] = {} /\ answer' = answer
      /\ \A d \in Call \ {c} : saw'[d] = saw[d]
  BY DEF Recover, Runs, bounds, BookingInv, BookingType
<1>3. CASE S = {} /\ End(c, "indeterminate", NoId) /\ UNCHANGED <<journalId, registered>>
  <2>1. BookingType'
    BY <1>2, <1>3 DEF End, BookingInv, BookingType, Step, Ended, Kinds
  <2>2. CallInv(c)'
    BY <1>2, <1>3 DEF End, BookingInv, BookingType, CallInv, Locked, Posted, Unposted, Failures,
                      Ids, Live
  <2>3. QED
    BY <1>2, <1>3, <2>1, <2>2, CallMoves, NoRegister DEF End, BookingInv, BookingType, Locked
<1>4. ASSUME NEW i \in S, HaveJournal(c, i, ledger[i].registered) PROVE BookingInv'
  <2>1. i \in Ids
    BY DEF Scanned, BookingInv, CallInv, Live, Ids
  <2>2. step[c] \in Locked \ Unposted /\ ledger[i].registered \in BOOLEAN
    BY <1>2, <2>1, LedgerTyped DEF Locked, Unposted, Journal
  <2>3. /\ CallInv(c)'
        /\ step' \in [Call -> Step] /\ journalId' \in [Call -> Nat \cup {NoId}]
        /\ registered' \in [Call -> BOOLEAN]
        /\ outcome' \in [Call -> [kind : Kinds \cup {"none"}, id : Nat \cup {NoId}]]
        /\ \A d \in Call \ {c} : /\ step'[d] = step[d] /\ journalId'[d] = journalId[d]
                                 /\ registered'[d] = registered[d] /\ outcome'[d] = outcome[d]
    BY <1>2, <1>4, <2>1, <2>2, HaveJournalHolds
  <2>4. BookingType'
    BY <1>2, <2>3 DEF BookingInv, BookingType
  <2>5. QED
    BY <1>2, <2>2, <2>3, <2>4, CallMoves, NoRegister
<1>5. QED
  BY <1>1, <1>3, <1>4

LEMMA ConfirmAnsweredKeeps == ASSUME BookingInv, NEW c \in Call, ConfirmAnswered(c) PROVE BookingInv'
<1>1. BookingType'
  <2>1. journalId[c] \in Nat \cup {NoId}
    BY DEF BookingInv, BookingType
  <2>2. step' \in [Call -> Step] /\ outcome' \in [Call -> [kind : Kinds \cup {"none"}, id : Nat \cup {NoId}]]
    BY <2>1, EndTyped DEF ConfirmAnswered, Kinds
  <2>3. registered' \in [Call -> BOOLEAN] /\ answer' \in [Call -> {"none", "ok", "noId", "rejected"}]
    BY DEF ConfirmAnswered, Heard, BookingInv, BookingType
  <2>4. QED
    BY <2>2, <2>3 DEF ConfirmAnswered, bounds, BookingInv, BookingType
<1> USE DEF ConfirmAnswered, End, Runs, Heard, bounds
<1>2. CallInv(c)'
  BY DEF BookingInv, BookingType, CallInv, Locked, Posted, Unposted, Failures, ReportedAsBooked,
         Ids, Live
<1>3. QED
  BY <1>1, <1>2, CallMoves DEF BookingInv, BookingType, MailInv, Ended, Locked

LEMMA ConfirmAmbiguousKeeps == ASSUME BookingInv, NEW c \in Call, ConfirmAmbiguous(c) PROVE BookingInv'
<1> USE DEF ConfirmAmbiguous, Goto, Runs, Heard, locals
<1>1. BookingType'
  BY DEF BookingInv, BookingType, Step, Locked
<1>2. CallInv(c)'
  BY DEF BookingInv, BookingType, CallInv, Locked, Posted, Unposted, Failures, NotEnded, Ids, Live
<1>3. QED
  BY <1>1, <1>2, CallMoves DEF BookingInv, BookingType, MailInv, Ended, Locked

LEMMA VerifyKeeps == ASSUME BookingInv, NEW c \in Call, Verify(c) PROVE BookingInv'
<1>1. BookingType'
  <2>1. journalId[c] \in Nat \cup {NoId}
    BY DEF BookingInv, BookingType
  <2>2. step' \in [Call -> Step] /\ outcome' \in [Call -> [kind : Kinds \cup {"none"}, id : Nat \cup {NoId}]]
    BY <2>1, EndTyped DEF Verify, Kinds
  <2>3. registered' \in [Call -> BOOLEAN]
    BY DEF Verify, BookingInv, BookingType
  <2>4. QED
    BY <2>2, <2>3 DEF Verify, bounds, BookingInv, BookingType
<1> USE DEF Verify, End, Runs, bounds
<1>2. CallInv(c)'
  BY DEF BookingInv, BookingType, CallInv, Locked, Posted, Unposted, Failures, ReportedAsBooked,
         Ids, Live
<1>3. QED
  BY <1>1, <1>2, CallMoves DEF BookingInv, BookingType, MailInv, Ended, Locked

-----------------------------------------------------------------------------
(* One lemma per step that changes what is on its way, or the ledger. *)

LEMMA SendCreateKeeps == ASSUME BookingInv, NEW c \in Call, SendCreate(c) PROVE BookingInv'
<1> DEFINE m == [op |-> "create", call |-> c, id |-> journalId[c], saw |-> saw[c]]
<1>1. /\ step[c] = "create" /\ mail' = mail \cup {m} /\ ledger' = ledger /\ down' = down
      /\ step' = [step EXCEPT ![c] = "creating"] /\ saw' = [saw EXCEPT ![c] = {}]
      /\ answer' = [answer EXCEPT ![c] = "none"]
      /\ journalId' = journalId /\ registered' = registered /\ outcome' = outcome
  BY DEF SendCreate, Send, Goto, Runs
<1>2. m \in Request /\ m.op = "create" /\ m.call = c /\ m.saw = saw[c]
  BY DEF BookingInv, BookingType, Request
<1>3. BookingType'
  BY <1>1, <1>2 DEF BookingInv, BookingType, Step, Locked
<1>4. /\ CallInv(c) /\ FailureBookedNothing(c) /\ saw[c] \subseteq Ids /\ saw[c] \cap Live = {}
      /\ Ids' = Ids /\ Live' = Live
  BY <1>1 DEF BookingInv, CallInv, Unposted, Ids, Live
<1> HIDE DEF m
<1>5. ASSUME NEW d \in Call PROVE CallInv(d)'
  <2>1. CASE d = c
    BY <1>1, <1>4, <2>1 DEF CallInv, BookingInv, BookingType, Locked, Posted, Unposted, Failures,
                            NotEnded, OwnLive
  <2>2. CASE d # c
    <3>1. /\ step'[d] = step[d] /\ saw'[d] = saw[d] /\ answer'[d] = answer[d]
          /\ FailureBookedNothing(d) => FailureBookedNothing(d)'
      BY <1>1, <1>2, <1>4, <2>2 DEF BookingInv, BookingType, FailureBookedNothing
    <3>2. QED
      BY <1>1, <1>4, <3>1 DEF CallInv, BookingInv, OwnLive, ReportedAsBooked
  <2>3. QED
    BY <2>1, <2>2
<1>6. MailInv'
  BY <1>1, <1>2, <1>4 DEF BookingInv, BookingType, MailInv, FailureBookedNothing, Ended, Request
<1>7. Exclusive' /\ LedgerInv'
  BY <1>1, <1>4 DEF BookingInv, BookingType, Exclusive, Locked, LedgerInv, NothingBookedOver, OneLiveJournal
<1>8. QED
  BY <1>3, <1>5, <1>6, <1>7 DEF BookingInv

LEMMA SendConfirmKeeps == ASSUME BookingInv, NEW c \in Call, SendConfirm(c) PROVE BookingInv'
<1> DEFINE m == [op |-> "register", call |-> c, id |-> journalId[c], saw |-> saw[c]]
<1>1. /\ step[c] = "confirm" /\ mail' = mail \cup {m} /\ ledger' = ledger /\ down' = down
      /\ step' = [step EXCEPT ![c] = "confirming"] /\ saw' = [saw EXCEPT ![c] = {}]
      /\ answer' = [answer EXCEPT ![c] = "none"]
      /\ journalId' = journalId /\ registered' = registered /\ outcome' = outcome
  BY DEF SendConfirm, Send, Goto, Runs
<1>2. m \in Request /\ m.op = "register" /\ m.call = c /\ m.id = journalId[c]
  BY DEF BookingInv, BookingType, Request
<1>3. BookingType'
  BY <1>1, <1>2 DEF BookingInv, BookingType, Step, Locked
<1>4. CallInv(c) /\ journalId[c] \in Ids /\ Ids' = Ids /\ Live' = Live
  BY <1>1 DEF BookingInv, CallInv, Posted, Ids, Live
<1> HIDE DEF m
<1>5. ASSUME NEW d \in Call PROVE CallInv(d)'
  <2>1. CASE d = c
    BY <1>1, <1>4, <2>1 DEF CallInv, BookingInv, BookingType, Locked, Posted, Unposted, Failures,
                            NotEnded
  <2>2. CASE d # c
    <3>1. /\ step'[d] = step[d] /\ saw'[d] = saw[d] /\ answer'[d] = answer[d]
          /\ FailureBookedNothing(d) => FailureBookedNothing(d)'
      BY <1>1, <1>2, <1>4, <2>2 DEF BookingInv, BookingType, FailureBookedNothing
    <3>2. QED
      BY <1>1, <1>4, <3>1 DEF CallInv, BookingInv, OwnLive, ReportedAsBooked
  <2>3. QED
    BY <2>1, <2>2
<1>6. MailInv'
  BY <1>1, <1>2, <1>4 DEF BookingInv, BookingType, MailInv, Ended, Request
<1>7. Exclusive' /\ LedgerInv'
  BY <1>1, <1>4 DEF BookingInv, BookingType, Exclusive, Locked, LedgerInv, NothingBookedOver, OneLiveJournal
<1>8. QED
  BY <1>3, <1>5, <1>6, <1>7 DEF BookingInv

(* A request that leaves the mail without a trace in the ledger, with an answer that
   says so or none. *)
LEMMA LeavesMail ==
  ASSUME BookingInv, NEW r \in mail, mail' = mail \ {r}, ledger' = ledger, down' = down,
         step' = step, saw' = saw, journalId' = journalId, registered' = registered,
         outcome' = outcome, Reply(r, "rejected") \/ answer' = answer
  PROVE  BookingInv'
<1>1. /\ r \in Request /\ r.call \in Call /\ r.op \in {"create", "register"}
      /\ Ids' = Ids /\ Live' = Live
  BY DEF BookingInv, BookingType, Request, Ids, Live
<1>2. /\ answer' \in [Call -> {"none", "ok", "noId", "rejected"}]
      /\ \A d \in Call : answer'[d] # answer[d] => d = r.call /\ Waiting(r) /\ answer'[d] = "rejected"
  BY <1>1 DEF Reply, BookingInv, BookingType
<1>3. BookingType'
  BY <1>2 DEF BookingInv, BookingType
<1>4. ASSUME NEW d \in Call PROVE CallInv(d)'
  <2>1. FailureBookedNothing(d) => FailureBookedNothing(d)'
    BY <1>1 DEF FailureBookedNothing
  <2>2. CASE answer'[d] = answer[d]
    BY <1>1, <2>1, <2>2 DEF CallInv, BookingInv, OwnLive, ReportedAsBooked
  <2>3. CASE answer'[d] # answer[d]
    <3>1. d = r.call /\ Waiting(r) /\ answer'[d] = "rejected"
      BY <1>2, <2>3
    <3>2. step[d] = "creating" => FailureBookedNothing(d)'
      BY <1>1, <3>1 DEF Waiting, FailureBookedNothing, BookingInv, BookingType, MailInv, Request, Ended
    <3>3. QED
      BY <1>1, <2>1, <3>1, <3>2 DEF CallInv, BookingInv, OwnLive, ReportedAsBooked
  <2>4. QED
    BY <2>2, <2>3
<1>5. MailInv' /\ Exclusive' /\ LedgerInv'
  BY <1>1 DEF BookingInv, MailInv, Exclusive, LedgerInv, NothingBookedOver, OneLiveJournal
<1>6. QED
  BY <1>3, <1>4, <1>5 DEF BookingInv

(* A POST is carried out. *)
LEMMA DeliverCreateKeeps ==
  ASSUME BookingInv, NEW r \in mail, DeliverCreate(r), mail' = mail \ {r}, down' = down,
         step' = step, saw' = saw, journalId' = journalId, registered' = registered,
         outcome' = outcome
  PROVE  BookingInv'
<1> DEFINE n == Len(ledger) + 1
           j == [by |-> r.call, registered |-> FALSE, deleted |-> FALSE, late |-> ~Waiting(r),
                 over |-> r.saw \cap Live]
<1>1. /\ r \in Request /\ r.call \in Call /\ r.op = "create" /\ Len(ledger) \in Nat
      /\ r.saw \subseteq Ids /\ r.saw \cap Live = {}
      /\ \A i \in Ids : ledger[i].by # r.call
  BY DEF DeliverCreate, BookingInv, BookingType, MailInv, Request
<1>2. Waiting(r) <=> step[r.call] = "creating"
  BY <1>1 DEF Waiting
<1>3. j \in Journal /\ j.by = r.call /\ ~j.registered /\ ~j.deleted /\ j.over = {}
      /\ (j.late <=> step[r.call] # "creating")
  <2>1. j.over = {} /\ {} \in SUBSET Nat /\ (~Waiting(r)) \in BOOLEAN
    BY <1>1, <1>2
  <2>2. QED
    BY <1>1, <1>2, <2>1 DEF Journal
<1>4. ledger' = Append(ledger, j)
  BY DEF DeliverCreate
<1>5. /\ Len(ledger') = n /\ ledger'[n] = j /\ n \notin Ids /\ Ids' = Ids \cup {n}
      /\ \A i \in Ids : ledger'[i] = ledger[i]
      /\ ledger' \in Seq(Journal)
  BY <1>1, <1>3, <1>4 DEF Ids, BookingInv, BookingType
<1> HIDE DEF n, j
<1>6. Live' = Live \cup {n}
  BY <1>3, <1>5 DEF Live
<1>7. /\ answer' \in [Call -> {"none", "ok", "noId", "rejected"}]
      /\ \A d \in Call : answer'[d] # answer[d] =>
            d = r.call /\ step[d] = "creating" /\ answer'[d] \in {"ok", "noId"}
  BY <1>1, <1>2 DEF DeliverCreate, Reply, BookingInv, BookingType
<1>8. BookingType'
  BY <1>5, <1>7 DEF BookingInv, BookingType
<1>9. ASSUME NEW d \in Call PROVE CallInv(d)'
  <2>1. FailureBookedNothing(d) => d # r.call
    BY <1>1 DEF FailureBookedNothing
  <2>2. FailureBookedNothing(d) => FailureBookedNothing(d)'
    BY <1>3, <1>5, <2>1 DEF FailureBookedNothing
  <2>3. OwnLive(d)' \subseteq OwnLive(d) \cup {n}
    BY <1>5, <1>6 DEF OwnLive, Live
  <2>4. n \in OwnLive(d)' => step[r.call] = "creating" /\ ConnectionOf[r.call] = ConnectionOf[d]
    BY <1>3, <1>5 DEF OwnLive
  <2>5. n \in OwnLive(d)' /\ step[d] \in Locked => d = r.call
    BY <1>1, <2>4 DEF BookingInv, Exclusive, Locked
  <2>6. CallInv(d)
    BY DEF BookingInv
  <2>7. /\ saw'[d] \subseteq Ids' /\ {journalId'[d], outcome'[d].id} \subseteq Ids' \cup {NoId}
        /\ step'[d] \in Posted => journalId'[d] \in Ids'
        /\ step'[d] \in {"waiting"} \cup Locked => outcome'[d] = NotEnded
        /\ step'[d] \in Unposted => FailureBookedNothing(d)'
    BY <1>5, <2>2, <2>6 DEF CallInv
  <2>8. step'[d] = "scanning" => OwnLive(d)' \subseteq saw'[d]
    <3>1. step[d] = "scanning" => n \notin OwnLive(d)'
      BY <2>4, <2>5 DEF Locked
    <3>2. QED
      BY <2>3, <2>6, <3>1 DEF CallInv
  <2>9. step'[d] = "create" => saw'[d] \cap Live' = {}
    BY <1>5, <1>6, <2>6 DEF CallInv
  <2>10. step'[d] \in {"create", "creating"} => \A i \in OwnLive(d)' : ledger'[i].by = d
    <3>1. step[d] \in {"create", "creating"} /\ n \in OwnLive(d)' => d = r.call
      BY <2>5 DEF Locked
    <3>2. \A i \in OwnLive(d) : ledger'[i] = ledger[i]
      BY <1>5 DEF OwnLive, Live
    <3>3. QED
      BY <1>3, <1>5, <2>3, <2>6, <3>1, <3>2 DEF CallInv
  <2>11. step'[d] = "creating" /\ answer'[d] = "ok" => \E i \in Ids' : ledger'[i].by = d
    BY <1>3, <1>5, <1>7, <2>6 DEF CallInv
  <2>12. step'[d] = "creating" /\ answer'[d] = "rejected" => FailureBookedNothing(d)'
    BY <1>7, <2>2, <2>6 DEF CallInv
  <2>13. step'[d] = "confirming" /\ answer'[d] = "ok" => ledger'[journalId'[d]].registered
    BY <1>5, <1>7, <2>6 DEF CallInv, Posted
  <2>14. outcome'[d].kind \in Failures => FailureBookedNothing(d)'
    BY <2>2, <2>6 DEF CallInv
  <2>15. outcome'[d].kind = "created" => ReportedAsBooked(d)'
    BY <1>5, <2>6 DEF CallInv, ReportedAsBooked
  <2>16. QED
    BY <2>7, <2>8, <2>9, <2>10, <2>11, <2>12, <2>13, <2>14, <2>15 DEF CallInv
<1>10. MailInv'
  <2>1. \A q \in mail' : q.op = "create" => q.call # r.call
    BY <1>1 DEF BookingInv, MailInv
  <2>2. QED
    BY <1>3, <1>5, <1>6, <2>1 DEF BookingInv, MailInv
<1>11. LedgerInv'
  <2>1. \A i, k \in Ids' : ledger'[i].by = ledger'[k].by => i = k
    BY <1>1, <1>3, <1>5 DEF BookingInv, LedgerInv
  <2>2. NothingBookedOver'
    BY <1>3, <1>5 DEF BookingInv, LedgerInv, NothingBookedOver
  <2>3. ASSUME NEW i \in Live, ConnectionOf[ledger[i].by] = ConnectionOf[r.call]
        PROVE  ledger[i].late \/ j.late
    <3>1. step[r.call] = "creating" => i \notin OwnLive(r.call)
      BY <1>1, <2>3 DEF BookingInv, CallInv, OwnLive, Live
    <3>2. QED
      BY <1>3, <2>3, <3>1 DEF OwnLive
  <2>4. OneLiveJournal'
    <3>1. \A i \in Live : i \in Ids /\ ledger'[i] = ledger[i]
      BY <1>5 DEF Live
    <3>2. ASSUME NEW i \in Live', NEW k \in Live', i # k,
                 ConnectionOf[ledger'[i].by] = ConnectionOf[ledger'[k].by]
          PROVE  ledger'[i].late \/ ledger'[k].late
      <4>1. CASE i \in Live /\ k \in Live
        BY <3>1, <3>2, <4>1 DEF BookingInv, LedgerInv, OneLiveJournal
      <4>2. CASE i = n
        BY <1>3, <1>5, <1>6, <2>3, <3>1, <3>2, <4>2
      <4>3. CASE k = n
        BY <1>3, <1>5, <1>6, <2>3, <3>1, <3>2, <4>3
      <4>4. QED
        BY <1>6, <4>1, <4>2, <4>3
    <3>3. QED
      BY <3>2 DEF OneLiveJournal
  <2>5. QED
    BY <2>1, <2>2, <2>4 DEF LedgerInv
<1>12. Exclusive'
  BY DEF BookingInv, Exclusive
<1>13. QED
  BY <1>8, <1>9, <1>10, <1>11, <1>12 DEF BookingInv

(* A journal gets registered, or deleted: nobody has another journal by that. *)
LEMMA JournalChanges ==
  ASSUME BookingInv, NEW i \in Live, NEW j \in Journal,
         j.by = ledger[i].by, j.late = ledger[i].late, j.over = ledger[i].over,
         ledger[i].registered => j.registered,
         ledger' = [ledger EXCEPT ![i] = j], mail' \subseteq mail, down' = down,
         step' = step, saw' = saw, journalId' = journalId, registered' = registered,
         outcome' = outcome, answer' \in [Call -> {"none", "ok", "noId", "rejected"}],
         \A d \in Call : answer'[d] # answer[d] =>
            step[d] = "confirming" /\ journalId[d] = i /\ j.registered
  PROVE  BookingInv'
<1>1. /\ i \in Ids /\ Ids' = Ids /\ Live' \subseteq Live /\ ledger' \in Seq(Journal)
      /\ \A k \in Ids : /\ ledger'[k].by = ledger[k].by /\ ledger'[k].late = ledger[k].late
                        /\ ledger'[k].over = ledger[k].over
                        /\ ledger[k].registered => ledger'[k].registered
  BY DEF Live, Ids, BookingInv, BookingType
<1>2. Live \subseteq Ids /\ ledger'[i].registered = j.registered
  BY <1>1 DEF Live, Ids, BookingInv, BookingType
<1>3. BookingType'
  BY <1>1 DEF BookingInv, BookingType
<1>4. ASSUME NEW d \in Call PROVE CallInv(d)'
  <2>1. FailureBookedNothing(d) => FailureBookedNothing(d)'
    BY <1>1 DEF FailureBookedNothing
  <2>2. OwnLive(d)' \subseteq OwnLive(d)
    BY <1>1, <1>2 DEF OwnLive
  <2>3. ReportedAsBooked(d) => ReportedAsBooked(d)'
    BY <1>1 DEF ReportedAsBooked
  <2>4. CallInv(d)
    BY DEF BookingInv
  <2>5. \A k \in OwnLive(d) : ledger'[k].by = ledger[k].by
    BY <1>1, <1>2 DEF OwnLive
  <2>6. step'[d] = "confirming" /\ answer'[d] = "ok" => ledger'[journalId'[d]].registered
    BY <1>1, <1>2, <2>4 DEF CallInv, Posted
  <2>7. step'[d] = "creating" => answer'[d] = answer[d]
    OBVIOUS
  <2>8. QED
    BY <1>1, <2>1, <2>2, <2>3, <2>4, <2>5, <2>6, <2>7 DEF CallInv
<1>5. MailInv' /\ Exclusive'
  BY <1>1 DEF BookingInv, MailInv, Exclusive
<1>6. LedgerInv'
  BY <1>1, <1>2 DEF BookingInv, LedgerInv, NothingBookedOver, OneLiveJournal
<1>7. QED
  BY <1>3, <1>4, <1>5, <1>6 DEF BookingInv

LEMMA DeliverRegisterKeeps ==
  ASSUME BookingInv, NEW r \in mail, DeliverRegister(r), mail' = mail \ {r}, down' = down,
         step' = step, saw' = saw, journalId' = journalId, registered' = registered,
         outcome' = outcome
  PROVE  BookingInv'
<1> DEFINE j == [ledger[r.id] EXCEPT !.registered = TRUE]
<1>1. r \in Request /\ r.call \in Call /\ r.op = "register" /\ r.id \in Live /\ r.id \in Ids
  BY DEF DeliverRegister, BookingInv, BookingType, Request, Live
<1>2. ledger[r.id] \in Journal
  BY <1>1, LedgerTyped
<1>3. /\ j \in Journal /\ j.by = ledger[r.id].by /\ j.late = ledger[r.id].late
      /\ j.over = ledger[r.id].over /\ j.registered
  BY <1>2 DEF Journal
<1>4. ledger' = [ledger EXCEPT ![r.id] = j]
  BY <1>1 DEF DeliverRegister
<1>5. /\ answer' \in [Call -> {"none", "ok", "noId", "rejected"}]
      /\ \A d \in Call : answer'[d] # answer[d] => step[d] = "confirming" /\ journalId[d] = r.id
  <2>1. answer \in [Call -> {"none", "ok", "noId", "rejected"}]
    BY DEF BookingInv, BookingType
  <2>2. \/ answer' = answer
        \/ answer' = [answer EXCEPT ![r.call] = "ok"] /\ Waiting(r)
    BY DEF DeliverRegister, Reply
  <2>3. Waiting(r) => step[r.call] = "confirming" /\ journalId[r.call] = r.id
    BY <1>1 DEF Waiting, BookingInv, MailInv
  <2>4. QED
    BY <1>1, <2>1, <2>2, <2>3
<1> HIDE DEF j
<1>6. PICK i \in Live : i = r.id
  BY <1>1
<1>7. /\ j \in Journal /\ j.by = ledger[i].by /\ j.late = ledger[i].late
      /\ j.over = ledger[i].over /\ j.registered
      /\ ledger' = [ledger EXCEPT ![i] = j] /\ mail' \subseteq mail
  BY <1>3, <1>4, <1>6
<1>8. \A d \in Call : answer'[d] # answer[d] =>
         step[d] = "confirming" /\ journalId[d] = i /\ j.registered
  BY <1>5, <1>6, <1>7
<1>9. QED
  BY <1>5, <1>7, <1>8, JournalChanges

LEMMA ForeignDeleteKeeps ==
  ASSUME BookingInv, NEW i \in Ids, ForeignDelete(i) PROVE BookingInv'
<1> DEFINE j == [ledger[i] EXCEPT !.deleted = TRUE]
<1>1. i \in Live /\ ledger[i] \in Journal
  BY LedgerTyped DEF ForeignDelete
<1>2. /\ j \in Journal /\ j.by = ledger[i].by /\ j.late = ledger[i].late
      /\ j.over = ledger[i].over /\ j.registered = ledger[i].registered
  BY <1>1 DEF Journal
<1>3. ledger' = [ledger EXCEPT ![i] = j]
  BY DEF ForeignDelete
<1>4. answer' \in [Call -> {"none", "ok", "noId", "rejected"}] /\ answer' = answer
  BY DEF ForeignDelete, BookingInv, BookingType
<1> HIDE DEF j
<1>5. QED
  BY <1>1, <1>2, <1>3, <1>4, JournalChanges DEF ForeignDelete, locals

LEMMA DieKeeps == ASSUME BookingInv, NEW p \in Process, Die(p) PROVE BookingInv'
<1>1. /\ ledger' = ledger /\ mail' = mail /\ journalId' = journalId /\ registered' = registered
      /\ outcome' = outcome /\ Ids' = Ids /\ Live' = Live
  BY DEF Die, bounds, Ids, Live
<1>2. \A d \in Call :
         \/ step'[d] = "dead" /\ saw'[d] = {}
         \/ /\ step'[d] = step[d] /\ saw'[d] \in {saw[d], {}} /\ answer'[d] \in {answer[d], "none"}
            /\ saw'[d] # saw[d] \/ answer'[d] # answer[d] => step[d] = "over"
  BY DEF Die, BookingInv, BookingType
<1>3. BookingType'
  BY DEF Die, bounds, BookingInv, BookingType, Step, Ended
<1>4. ASSUME NEW d \in Call PROVE CallInv(d)'
  <2>1. CallInv(d) /\ (FailureBookedNothing(d) <=> FailureBookedNothing(d)')
        /\ (ReportedAsBooked(d) <=> ReportedAsBooked(d)') /\ OwnLive(d)' = OwnLive(d)
    BY <1>1 DEF BookingInv, FailureBookedNothing, ReportedAsBooked, OwnLive
  <2>2. CASE step'[d] = "dead" /\ saw'[d] = {}
    BY <1>1, <2>1, <2>2 DEF CallInv, Posted, Locked, Unposted
  <2>3. CASE /\ step'[d] = step[d] /\ saw'[d] \in {saw[d], {}} /\ answer'[d] \in {answer[d], "none"}
             /\ saw'[d] # saw[d] \/ answer'[d] # answer[d] => step[d] = "over"
    BY <1>1, <2>1, <2>3 DEF CallInv, Posted, Locked, Unposted
  <2>4. QED
    BY <1>2, <2>2, <2>3
<1>5. MailInv'
  BY <1>1, <1>2 DEF BookingInv, BookingType, MailInv, Request, Ended
<1>6. Exclusive' /\ LedgerInv'
  BY <1>1, <1>2 DEF BookingInv, Exclusive, Locked, LedgerInv, NothingBookedOver, OneLiveJournal
<1>7. QED
  BY <1>3, <1>4, <1>5, <1>6 DEF BookingInv

-----------------------------------------------------------------------------
LEMMA ServiceKeeps == ASSUME BookingInv, NEW c \in Call, ServiceStep(c) PROVE BookingInv'
<1>1. PICK r \in mail : /\ mail' = mail \ {r}
                        /\ DeliverCreate(r) \/ DeliverRegister(r) \/ Refuse(r)
                        /\ UNCHANGED <<down, step, locals, outcome, bounds>>
  BY DEF ServiceStep
<1>2. /\ down' = down /\ step' = step /\ saw' = saw /\ journalId' = journalId
      /\ registered' = registered /\ outcome' = outcome
  BY <1>1 DEF locals
<1>3. CASE DeliverCreate(r)
  BY <1>1, <1>2, <1>3, DeliverCreateKeeps
<1>4. CASE DeliverRegister(r)
  BY <1>1, <1>2, <1>4, DeliverRegisterKeeps
<1>5. CASE Refuse(r)
  BY <1>1, <1>2, <1>5, LeavesMail DEF Refuse
<1>6. QED
  BY <1>1, <1>3, <1>4, <1>5

LEMMA CallKeeps == ASSUME BookingInv, NEW c \in Call, CallStep(c) PROVE BookingInv'
  BY EnterKeeps, BusyKeeps, StartScanKeeps, CheckDuplicateKeeps, SendCreateKeeps,
     CreateAnsweredKeeps, CreateAmbiguousKeeps, RecoverKeeps, SendConfirmKeeps,
     ConfirmAnsweredKeeps, ConfirmAmbiguousKeeps, VerifyKeeps DEF CallStep

LEMMA BookingNext == BookingInv /\ [Next]_vars => BookingInv'
<1> SUFFICES ASSUME BookingInv, [Next]_vars PROVE BookingInv'
  OBVIOUS
<1>1. ASSUME NEW c \in Call, CallStep(c) \/ ReadFails(c) \/ ServiceStep(c) PROVE BookingInv'
  BY <1>1, CallKeeps, ReadFailsKeeps, ServiceKeeps
<1>2. ASSUME NEW r \in mail, LoseRequest(r) PROVE BookingInv'
  BY <1>2, LeavesMail DEF LoseRequest, locals
<1>3. ASSUME NEW i \in Ids, ForeignDelete(i) PROVE BookingInv'
  BY <1>3, ForeignDeleteKeeps
<1>4. ASSUME NEW p \in Process, Die(p) PROVE BookingInv'
  BY <1>4, DieKeeps
<1>5. CASE UNCHANGED vars
  <2>1. /\ ledger' = ledger /\ mail' = mail /\ down' = down /\ step' = step /\ saw' = saw
        /\ answer' = answer /\ journalId' = journalId /\ registered' = registered
        /\ outcome' = outcome /\ Ids' = Ids /\ Live' = Live
    BY <1>5 DEF vars, locals, Ids, Live
  <2>2. BookingType' /\ MailInv' /\ Exclusive' /\ LedgerInv'
    BY <2>1 DEF BookingInv, BookingType, MailInv, Exclusive, LedgerInv, NothingBookedOver,
                OneLiveJournal
  <2>3. \A d \in Call : CallInv(d)'
    BY <2>1 DEF BookingInv, CallInv, FailureBookedNothing, ReportedAsBooked, OwnLive
  <2>4. QED
    BY <2>2, <2>3 DEF BookingInv
<1>6. QED
  BY <1>1, <1>2, <1>3, <1>4, <1>5 DEF Next

(* Every reachable state satisfies BookingInv: what was scanned stays true of the
   journals that calls with the same credentials post in time, because only the
   holder of the lock waits for such an answer. *)
THEOREM BookingInvariant == Spec => []BookingInv
  BY BookingInit, BookingNext, PTL DEF Spec

(* createJournalOnce is well typed, and every id a call keeps or reports is that of a
   journal. *)
THEOREM BookingTypeCorrect == Spec => []TypeOK
<1>1. BookingInv => TypeOK
  <2> SUFFICES ASSUME BookingInv PROVE TypeOK
    OBVIOUS
  <2>1. \A i \in Ids : ledger[i] \in Journal
    BY LedgerTyped
  <2>2. \A c \in Call : {journalId[c], outcome[c].id} \subseteq Ids \cup {NoId}
    BY DEF BookingInv, CallInv
  <2>3. QED
    BY <2>1, <2>2 DEF TypeOK, BookingInv, BookingType, Journal, Request, MailInv
<1>2. QED
  BY <1>1, BookingInvariant, PTL

(* One live journal per document number, src/src/booking-guard.ts:37, between calls
   with the same credentials: for any number of calls, processes and deaths. *)
THEOREM BookedOnce == Spec => []OneLiveJournal
<1>1. BookingInv => OneLiveJournal
  BY DEF BookingInv, LedgerInv
<1>2. QED
  BY <1>1, BookingInvariant, PTL

(* No journal, in time or late, is posted over one its call could have seen. *)
THEOREM NeverBookedOver == Spec => []NothingBookedOver
<1>1. BookingInv => NothingBookedOver
  BY DEF BookingInv, LedgerInv
<1>2. QED
  BY <1>1, BookingInvariant, PTL

(* What createJournalOnce returns or throws is so, whatever was lost or late. *)
THEOREM OutcomesAreTrue == Spec => []OutcomeIsTrue
<1>1. BookingInv => OutcomeIsTrue
  BY DEF BookingInv, CallInv, OutcomeIsTrue, Failures
<1>2. QED
  BY <1>1, BookingInvariant, PTL

-----------------------------------------------------------------------------
(* Seen from outside, a step of the calls is a step of the abstract lock. *)
LEMMA PhaseMoves ==
  ASSUME BookingInv, [Next]_vars
  PROVE  \/ \E c \in Call : Enter(c)
         \/ \A d \in Call : Phase(d)' = Phase(d) \/ Phase(d)' = "finished"
<1>1. ASSUME NEW c \in Call, CallStep(c), ~Enter(c)
      PROVE  \A d \in Call : Phase(d)' = Phase(d) \/ Phase(d)' = "finished"
  <2>1. step \in [Call -> Step] /\ step' \in [Call -> Step]
    BY <1>1, CallKeeps DEF BookingInv, BookingType
  <2>2. \A d \in Call \ {c} : step'[d] = step[d]
    BY <1>1, <2>1 DEF CallStep, Busy, StartScan, CheckDuplicate, SendCreate, CreateAnswered,
         CreateAmbiguous, Recover, SendConfirm, ConfirmAnswered, ConfirmAmbiguous, Verify,
         HaveJournal, Send, Goto, End
  <2>3. step'[c] = "over" \/ (step[c] \in Locked /\ step'[c] \in Locked)
    BY <1>1, <2>1 DEF CallStep, Busy, StartScan, CheckDuplicate, SendCreate, CreateAnswered,
         CreateAmbiguous, Recover, SendConfirm, ConfirmAnswered, ConfirmAmbiguous, Verify,
         HaveJournal, Send, Goto, End, Runs, Locked
  <2>4. QED
    BY <2>2, <2>3 DEF Phase, Locked
<1>2. ASSUME NEW c \in Call, ReadFails(c)
      PROVE  \A d \in Call : Phase(d)' = Phase(d) \/ Phase(d)' = "finished"
  <2>1. step' = [step EXCEPT ![c] = "over"] /\ step \in [Call -> Step]
    BY <1>2 DEF ReadFails, End, BookingInv, BookingType
  <2>2. QED
    BY <2>1 DEF Phase, Locked
<1>3. ASSUME NEW p \in Process, Die(p)
      PROVE  \A d \in Call : Phase(d)' = Phase(d) \/ Phase(d)' = "finished"
  <2>1. \A d \in Call : step'[d] \in {step[d], "dead"}
    BY <1>3 DEF Die
  <2>2. QED
    BY <2>1 DEF Phase, Locked
<1>4. ASSUME step' = step PROVE \A d \in Call : Phase(d)' = Phase(d)
  BY <1>4 DEF Phase
<1>5. QED
  BY <1>1, <1>2, <1>3, <1>4
     DEF Next, ServiceStep, LoseRequest, ForeignDelete, vars

(* The calls of one connection use their lock as AbstractLock has it, which
   OwnedFileLock implements. *)
THEOREM BookingUsesLock == Spec => UsesLock
<1>1. ASSUME BookingInv, [Next]_vars, NEW k \in Connection
      PROVE  [Lock(k)!Next]_(Phases(k))
  <2>1. CASE \E c \in Call : Enter(c)
    <3>1. PICK c \in Call : Enter(c)
      BY <2>1
    <3>2. step \in [Call -> Step] /\ step' = [step EXCEPT ![c] = "scan"] /\ step[c] = "waiting"
      BY <1>1, <3>1 DEF Enter, Goto, Runs, BookingInv, BookingType
    <3>3. /\ Phase(c) = "waiting" /\ Phase(c)' = "holding"
          /\ \A d \in Call \ {c} : Phase(d)' = Phase(d)
      BY <3>2 DEF Phase, Locked
    <3>4. CASE c \in CallsOf(k)
      <4>1. \A d \in CallsOf(k) : Phase(d) # "holding"
        BY <3>1, <3>4 DEF Enter, LockIsFree, SameLock, CallsOf, Phase
      <4>2. Phases(k)' = [Phases(k) EXCEPT ![c] = "holding"]
        BY <3>3, <3>4 DEF Phases, CallsOf
      <4>3. Lock(k)!Enter(c)
        BY <3>3, <3>4, <4>1, <4>2 DEF Lock!Enter, Phases
      <4>4. QED
        BY <3>4, <4>3 DEF Lock!Next
    <3>5. CASE c \notin CallsOf(k)
      BY <3>3, <3>5 DEF Phases, CallsOf
    <3>6. QED
      BY <3>4, <3>5
  <2>2. CASE \A d \in Call : Phase(d)' = Phase(d) \/ Phase(d)' = "finished"
    <3> DEFINE S == {d \in CallsOf(k) : Phase(d)' = "finished"}
    <3>1. Lock(k)!Finish(S)
      BY <2>2 DEF Lock!Finish, Phases, CallsOf
    <3>2. QED
      BY <3>1 DEF Lock!Next
  <2>3. QED
    BY <1>1, <2>1, <2>2, PhaseMoves
<1>2. BookingInv /\ [Next]_vars => \A k \in Connection : [Lock(k)!Next]_(Phases(k))
  BY <1>1
<1>3. QED
  BY <1>2, BookingInvariant, PTL DEF Spec, UsesLock

=============================================================================
