------------------------- MODULE BankReconciliation -------------------------
(***************************************************************************)
(* Reconciliation of a transfer between two own bank accounts              *)
(* (src/src/banking/reconciliation): the outgoing row of one account and   *)
(* the incoming row of the other are one movement of money.  A plan        *)
(* confirms one of them against the other account and deletes its mirror,  *)
(* or deletes the mirror of a transfer that is booked already.             *)
(*                                                                         *)
(* Several calls, in several server processes, plan and execute at the     *)
(* same time, and nothing locks them out: every command reads the service  *)
(* again before its write.  The accountant works on the same rows.         *)
(***************************************************************************)
EXTENDS Naturals, Sequences, FiniteSets

CONSTANTS
    Call,           \* one dry run and the execute of its plan
    MaxForeign,     \* bound: steps of the accountant
    MaxFaults       \* bound: refused or lost requests, lost answers, failed reads, deaths

ASSUME ReconciliationAssumption == MaxForeign \in Nat /\ MaxFaults \in Nat

Row == {"out", "in"}
Other(r) == IF r = "out" THEN "in" ELSE "out"

VARIABLES
    rows,           \* rows[r]: status, client and revision of its material
    journals,       \* journals of the transfer: registrations of a row, or by hand
    mail,           \* requests on their way
    step, seen,     \* seen[c]: the rows c listed
    review,         \* the plan the owner reviewed
    plan,           \* the plan c executes: matched again and found equal
    outcome, mayHave, stop,     \* the state of PlanExecution, per call
    answer,
    wrote,          \* commands whose write took place, as far as c could know
    stale,          \* what others changed after c's last look at it
    foreign, faults

service == <<rows, journals, mail>>
report == <<outcome, mayHave, stop>>
vars == <<service, step, seen, review, plan, report, answer, wrote, stale, foreign, faults>>

Ended == {"over", "refused", "dead", "lost"}
Looks == {"prepare", "source", "other", "journals", "row", "review"}
Step == {"list", "match", "reviewed", "sent", "recover"} \cup Looks \cup Ended

-----------------------------------------------------------------------------
(* runInterAccountMatching. *)

(* Journals that move the transfer: registered, with the two right postings. *)
Booking(js) == {i \in DOMAIN js : js[i].live /\ js[i].good}

(* findRegistrationJournal. *)
Registrations(r) == {i \in DOMAIN journals : journals[i].live /\ journals[i].of = r}

First(ids) == CHOOSE i \in ids : \A k \in ids : i <= k

NoPlan == [ops |-> << >>, source |-> "out", material |-> << >>, journal |-> 0]

(* The row is a mirror of the booked one when the journal is the registration of
   its confirmed counterpart. *)
IsMirror(r, journal) ==
    journal.of = Other(r) /\ rows[Other(r)].status = "CONFIRMED"

(* buildInterAccountPlanCommandProjections: a row without a client gets the company's. *)
Ops(view, r, rest) == (IF view[r].client = "none" THEN <<"client">> ELSE << >>) \o rest

(* A matched pair is confirmed by one row and loses the other; a row that a journal
   books already may be proposed for deletion. *)
PairOps(view) == Ops(view, "out", <<"confirm", "delete">>)

MirrorOps(r, journal) == IF IsMirror(r, journal) THEN <<"mirror">> ELSE << >>

(* Both rows pending: a pair, of which the outgoing row is confirmed and the other
   deleted.  One pending: a one-sided transfer, unless a journal books it already;
   then the row may be proposed for deletion.  The fingerprint binds the commands
   with the material of their rows, and the journals of what is left out. *)
Matched(view, known) ==
    LET pending == {r \in Row : view[r].status = "PROJECT"}
        booked  == Booking(known)
        source  == IF "out" \in pending THEN "out" ELSE "in"
        ops == CASE booked # {} /\ pending = Row -> << >>
                 [] booked # {} /\ pending # Row -> MirrorOps(source, known[First(booked)])
                 [] booked = {} /\ pending = Row -> PairOps(view)
                 [] OTHER -> Ops(view, source, <<"confirm">>)
    IN  IF pending = {} THEN NoPlan
        ELSE [ops |-> ops, source |-> source, material |-> [r \in pending |-> view[r]],
              journal |-> IF booked = {} THEN 0 ELSE First(booked)]

-----------------------------------------------------------------------------
NewRow == [status |-> "PROJECT", client |-> "none", rev |-> 0]

Init ==
    /\ rows = [r \in Row |-> NewRow]
    /\ journals = << >>
    /\ mail = {}
    /\ step = [c \in Call |-> "list"]
    /\ seen = [c \in Call |-> << >>]
    /\ review = [c \in Call |-> NoPlan]
    /\ plan = [c \in Call |-> NoPlan]
    /\ outcome = [c \in Call |-> << >>]
    /\ mayHave = [c \in Call |-> FALSE]
    /\ stop = [c \in Call |-> "none"]
    /\ answer = [c \in Call |-> "none"]
    /\ wrote = [c \in Call |-> {}]
    /\ stale = [c \in Call |-> {}]
    /\ foreign = 0
    /\ faults = 0

Goto(c, s) == step' = [step EXCEPT ![c] = s]

Fault == faults < MaxFaults /\ faults' = faults + 1

Op(c) == plan[c].ops[Len(outcome[c]) + 1]
At(c, s, ops) == step[c] = s /\ Op(c) \in ops

(* The row the command at hand writes. *)
Target(c) == IF Op(c) = "delete" THEN Other(plan[c].source) ELSE plan[c].source

(* Others changed the things under the commands of the calls; a look at a thing makes
   it fresh for c again. *)
Outdate(calls, things) ==
    stale' = [c \in Call |-> IF c \in calls /\ step[c] \in Looks \cup {"sent", "recover"}
                            THEN stale[c] \cup things ELSE stale[c]]

LookedAt(c, thing) == stale' = [stale EXCEPT ![c] = @ \ {thing}]

(* The loop of runPlanCommands. *)
Proceed(c, part) ==
    /\ outcome' = [outcome EXCEPT ![c] = Append(@, part)]
    /\ Goto(c, IF Len(outcome'[c]) = Len(plan[c].ops) THEN "over" ELSE "prepare")
    /\ mayHave' = [mayHave EXCEPT ![c] = TRUE]
    /\ UNCHANGED stop

Halt(c, part, reason) ==
    /\ outcome' = [outcome EXCEPT ![c] = Append(@, part)]
    /\ stop' = [stop EXCEPT ![c] = reason]
    /\ mayHave' = [mayHave EXCEPT ![c] = @ \/ part = "indeterminate"]
    /\ Goto(c, "over")

Drift(c) == Halt(c, "failed", "plan_drift")

-----------------------------------------------------------------------------
(* The service. *)

(* A request whose call still waits for it, or reads whether it arrived. *)
Waiting(m) == step[m.call] = "sent" /\ Op(m.call) = m.op
Awaited(m) == Waiting(m) \/ (step[m.call] = "recover" /\ m.op = "confirm")

(* PATCH of the client and DELETE want a row that is not confirmed; a registration
   books the row as it is, also one that is confirmed already. *)
Applicable(m) ==
    IF m.op = "confirm" THEN rows[m.row].status # "deleted" ELSE rows[m.row].status = "PROJECT"

Apply(m) ==
    /\ Applicable(m)
    /\ rows' = CASE m.op = "client"  -> [rows EXCEPT ![m.row].client = "company"]
                 [] m.op = "confirm" -> [rows EXCEPT ![m.row].status = "CONFIRMED"]
                 [] OTHER            -> [rows EXCEPT ![m.row].status = "deleted"]
    /\ IF m.op = "confirm"
         THEN /\ journals' = Append(journals, [of |-> m.row, live |-> TRUE,
                                               good |-> rows[m.row].rev = m.rev])
              /\ Outdate(Call \ {m.call}, {m.row, "journals"})
         ELSE UNCHANGED journals /\ Outdate(Call \ {m.call}, {m.row})

Reply(m, text) == answer' = IF Waiting(m) THEN [answer EXCEPT ![m.call] = text] ELSE answer

(* A registration that arrives when its call has read PROJECT is not one it knows of. *)
Deliver(m) ==
    /\ Apply(m)
    /\ wrote' = IF m.op # "confirm" \/ Awaited(m) \/ step[m.call] = "lost"
                THEN [wrote EXCEPT ![m.call] = @ \cup {m.op}] ELSE wrote
    /\ Reply(m, "ok")
    /\ UNCHANGED faults

Refuse(m) ==
    /\ Fault \/ (~Applicable(m) /\ UNCHANGED faults)
    /\ Reply(m, "rejected")
    /\ UNCHANGED <<rows, journals, wrote, stale>>

Lose(m) == Fault /\ UNCHANGED <<rows, journals, wrote, stale, answer>>

ServiceStep(c) ==
    \E m \in mail :
        /\ m.call = c
        /\ mail' = mail \ {m}
        /\ Deliver(m) \/ Refuse(m) \/ Lose(m)
        /\ UNCHANGED <<step, seen, review, plan, report, foreign>>

(* The accountant registers a row, rightly or not, returns it to PROJECT, corrects
   its material, deletes it, or books the transfer by hand. *)
ForeignStep ==
    /\ foreign < MaxForeign
    /\ foreign' = foreign + 1
    /\ \/ \E r \in Row, good \in BOOLEAN :
             /\ rows[r].status = "PROJECT"
             /\ rows' = [rows EXCEPT ![r].status = "CONFIRMED"]
             /\ journals' = Append(journals, [of |-> r, live |-> TRUE, good |-> good])
             /\ Outdate(Call, {r, "journals"})
       \/ \E r \in Row :
             /\ rows[r].status = "CONFIRMED"
             /\ rows' = [rows EXCEPT ![r].status = "PROJECT"]
             /\ journals' = [i \in DOMAIN journals |->
                   [journals[i] EXCEPT !.live = @ /\ journals[i].of # r]]
             /\ Outdate(Call, {r, "journals"})
       \/ \E r \in Row :
             /\ rows[r].status = "PROJECT"
             /\ rows' \in {[rows EXCEPT ![r].rev = @ + 1], [rows EXCEPT ![r].status = "deleted"]}
             /\ UNCHANGED journals
             /\ Outdate(Call, {r})
       \/ /\ journals' = Append(journals, [of |-> "hand", live |-> TRUE, good |-> TRUE])
          /\ UNCHANGED rows
          /\ Outdate(Call, {"journals"})
    /\ UNCHANGED <<mail, step, seen, review, plan, report, answer, wrote, faults>>

-----------------------------------------------------------------------------
Idle == UNCHANGED <<rows, journals, foreign>>

(* transactions.listAll and the details of the pending rows, past the cache. *)
List(c) ==
    /\ step[c] = "list"
    /\ seen' = [seen EXCEPT ![c] = rows]
    /\ Goto(c, "match")
    /\ Idle /\ UNCHANGED <<mail, review, plan, report, answer, wrote, stale, faults>>

(* The journals are read and the rows matched.  A dry run may find the journals in the
   cache, as they were at first, and issues its plan; an execute consumes the plan and
   goes on when it has matched the same. *)
Match(c) ==
    /\ step[c] = "match"
    /\ \/ /\ review[c] = NoPlan
          /\ \E known \in {journals, << >>} :
                LET matched == Matched(seen[c], known) IN
                /\ review' = [review EXCEPT ![c] = matched]
                /\ Goto(c, IF matched.ops = << >> THEN "refused" ELSE "reviewed")
          /\ UNCHANGED plan
       \/ /\ review[c] # NoPlan
          /\ IF Matched(seen[c], journals) = review[c]
               THEN plan' = [plan EXCEPT ![c] = review[c]] /\ Goto(c, "prepare")
               ELSE UNCHANGED plan /\ Goto(c, "refused")
          /\ UNCHANGED review
    /\ seen' = [seen EXCEPT ![c] = << >>]
    /\ Idle /\ UNCHANGED <<mail, report, answer, wrote, stale, faults>>

Execute(c) ==
    /\ step[c] = "reviewed"
    /\ Goto(c, "list")
    /\ Idle /\ UNCHANGED <<mail, seen, review, plan, report, answer, wrote, stale, faults>>

Done(c, op) == \E i \in 1..Len(outcome[c]) : plan[c].ops[i] = op

(* sourceExpected: the reviewed material under the client this run has written. *)
Expected(c) ==
    IF Done(c, "client") THEN [plan[c].material[plan[c].source] EXCEPT !.client = "company"]
                         ELSE plan[c].material[plan[c].source]

Pair(c) == Cardinality(DOMAIN plan[c].material) = 2

Unwritten == UNCHANGED <<mail, answer>>

Send(c) ==
    /\ mail' = mail \cup {[call |-> c, op |-> Op(c), row |-> Target(c), rev |-> Expected(c).rev]}
    /\ answer' = [answer EXCEPT ![c] = "none"]
    /\ Goto(c, "sent")

(* One read of the service that decides whether the command goes on. *)
Look(c, thing, holds, next) ==
    /\ IF holds THEN Goto(c, next) /\ UNCHANGED report ELSE Drift(c)
    /\ Unwritten
    /\ LookedAt(c, thing)
    /\ Idle /\ UNCHANGED <<seen, review, plan, wrote, faults>>

LookAndSend(c, thing, holds) ==
    /\ IF holds THEN Send(c) /\ UNCHANGED report ELSE Drift(c) /\ Unwritten
    /\ LookedAt(c, thing)
    /\ Idle /\ UNCHANGED <<seen, review, plan, wrote, faults>>

(* verifyTransferMaterial reads source and mirror twice; the last look decides. *)
LookAtSource(c) ==
    /\ At(c, "prepare", {"client", "confirm"})
    /\ LET same == rows[plan[c].source] = Expected(c) IN
       CASE Pair(c)                     -> Look(c, plan[c].source, same, "other")
         [] ~Pair(c) /\ Op(c) = "client"  -> LookAndSend(c, plan[c].source, same)
         [] ~Pair(c) /\ Op(c) = "confirm" -> Look(c, plan[c].source, same, "review")

(* Mutant: the mirror is not looked at before the source is confirmed. *)
LookAtOtherBlindly(c) ==
    /\ At(c, "other", {"client", "confirm"})
    /\ IF Op(c) = "client" THEN LookAndSend(c, "nothing", TRUE) ELSE Look(c, "nothing", TRUE, "review")

LookAtOther(c) ==
    /\ At(c, "other", {"client", "confirm"})
    /\ LET other == Other(plan[c].source)
           same  == rows[other] = plan[c].material[other]
       IN  IF Op(c) = "client" THEN LookAndSend(c, other, same) ELSE Look(c, other, same, "review")

(* TransactionsApi.confirm with expectedTransaction: the row is read once more. *)
Review(c) ==
    /\ At(c, "review", {"confirm"})
    /\ IF rows[plan[c].source] = Expected(c)
         THEN Send(c) /\ UNCHANGED report
         ELSE Halt(c, "failed", "mutation_failed") /\ Unwritten
    /\ LookedAt(c, plan[c].source)
    /\ Idle /\ UNCHANGED <<seen, review, plan, wrote, faults>>

(* Mutant: that there is a registration is enough, whatever it posts. *)
LookAtJournalsOnly(c) ==
    /\ At(c, "prepare", {"delete"})
    /\ Look(c, "journals", Cardinality(Registrations(plan[c].source)) = 1, "source")

(* The mirror goes only when exactly one registration of the source moves the money. *)
LookAtJournals(c) ==
    /\ At(c, "prepare", {"delete"})
    /\ Look(c, "journals",
            /\ Cardinality(Registrations(plan[c].source)) = 1
            /\ Registrations(plan[c].source) \subseteq Booking(journals), "source")

LookAtBooked(c) ==
    /\ At(c, "source", {"delete"})
    /\ Look(c, plan[c].source,
            rows[plan[c].source] = [Expected(c) EXCEPT !.status = "CONFIRMED"], "other")

LookAtMirror(c) ==
    /\ At(c, "other", {"delete"})
    /\ LookAndSend(c, Target(c), rows[Target(c)] = plan[c].material[Target(c)])

(* A proposed mirror: its counterpart, the journal, and the row itself last. *)
LookAtCounterpart(c) ==
    /\ At(c, "prepare", {"mirror"})
    /\ Look(c, Other(plan[c].source), rows[Other(plan[c].source)].status = "CONFIRMED", "journals")

LookAtProof(c) ==
    /\ At(c, "journals", {"mirror"})
    /\ Look(c, "journals", plan[c].journal \in Registrations(Other(plan[c].source))
                                                  \cap Booking(journals), "row")

LookAtRow(c) ==
    /\ At(c, "row", {"mirror"})
    /\ LookAndSend(c, Target(c), rows[Target(c)] = plan[c].material[Target(c)])

(* A read throws: prepare does, and so does a confirm that has written nothing. *)
ReadFails(c) ==
    /\ step[c] \in Looks
    /\ Fault
    /\ Halt(c, "failed", "mutation_failed")
    /\ Idle /\ UNCHANGED <<mail, seen, review, plan, answer, wrote, stale>>

Answered(c) ==
    /\ step[c] = "sent"
    /\ \/ answer[c] = "ok" /\ Proceed(c, "completed")
       \/ answer[c] = "rejected" /\ Halt(c, "failed", "mutation_failed")
    /\ answer' = [answer EXCEPT ![c] = "none"]
    /\ Idle /\ UNCHANGED <<mail, seen, review, plan, wrote, stale, faults>>

(* No answer: a lost request, one given up on, or a lost answer. *)
Unanswered(c) ==
    \/ answer[c] = "none" /\ (\A m \in mail : m.call # c) /\ UNCHANGED faults
    \/ (answer[c] # "none" \/ \E m \in mail : m.call = c) /\ Fault

(* Mutant: what is not answered has failed. *)
UnknownIsFailed(c) ==
    /\ step[c] = "sent"
    /\ Unanswered(c)
    /\ Halt(c, "failed", "mutation_failed")
    /\ answer' = [answer EXCEPT ![c] = "none"]
    /\ Idle /\ UNCHANGED <<mail, seen, review, plan, wrote, stale>>

Unknown(c) ==
    /\ step[c] = "sent"
    /\ Unanswered(c)
    /\ IF Op(c) = "confirm" THEN Goto(c, "recover") /\ UNCHANGED report
                            ELSE Halt(c, "indeterminate", "mutation_indeterminate")
    /\ answer' = [answer EXCEPT ![c] = "none"]
    /\ Idle /\ UNCHANGED <<mail, seen, review, plan, wrote, stale>>

(* The confirmation settles an unknown outcome with one read.  CONFIRMED is success,
   whoever registered the row; PROJECT is a failure: nothing is registered (any more). *)
Recover(c) ==
    /\ step[c] = "recover"
    /\ \/ /\ CASE rows[plan[c].source].status = "CONFIRMED" -> Proceed(c, "completed")
               [] rows[plan[c].source].status = "PROJECT" -> Halt(c, "failed", "mutation_failed")
               [] OTHER -> Halt(c, "indeterminate", "mutation_indeterminate")
          /\ wrote' = CASE rows[plan[c].source].status = "CONFIRMED" ->
                              [wrote EXCEPT ![c] = @ \cup {"confirm"}]
                        [] rows[plan[c].source].status = "PROJECT" ->
                              [wrote EXCEPT ![c] = @ \ {"confirm"}]
                        [] OTHER -> wrote
          /\ LookedAt(c, plan[c].source)
          /\ UNCHANGED faults
       \/ /\ Fault
          /\ Halt(c, "indeterminate", "mutation_indeterminate")
          /\ UNCHANGED <<wrote, stale>>
    /\ Idle /\ UNCHANGED <<mail, seen, review, plan, answer>>

(* The process of a call dies. *)
Die(c) ==
    /\ step[c] \notin Ended
    /\ Fault
    /\ Goto(c, IF step[c] \in {"sent", "recover", "review"} THEN "lost" ELSE "dead")
    /\ Idle /\ UNCHANGED <<mail, seen, review, plan, report, answer, wrote, stale>>

-----------------------------------------------------------------------------
CallStep(c) ==
    \/ List(c) \/ Match(c)
    \/ LookAtSource(c) \/ LookAtOther(c) \/ Review(c)
    \/ LookAtJournals(c) \/ LookAtBooked(c) \/ LookAtMirror(c)
    \/ LookAtCounterpart(c) \/ LookAtProof(c) \/ LookAtRow(c)
    \/ Answered(c) \/ Unknown(c) \/ Recover(c)

Next ==
    \/ \E c \in Call : CallStep(c) \/ Execute(c) \/ ReadFails(c) \/ Die(c) \/ ServiceStep(c)
    \/ ForeignStep

Spec == Init /\ [][Next]_vars

-----------------------------------------------------------------------------
(* A request of a call that waits for it is carried out in this step. *)
Lands(m, op) == /\ m \in mail /\ m.op = op /\ Waiting(m)
                /\ m \notin mail' /\ answer'[m.call] = "ok"

(* A mirror row is deleted only as it was reviewed and while the movement it records
   is booked by the registration of the other row.  Only a change that comes after
   the last look at the row, its counterpart or the journals can get past. *)
MovementIsKept ==
    [][\A m \in mail : Lands(m, "delete") \/ Lands(m, "mirror") =>
          /\ \/ \E i \in Registrations(Other(m.row)) : journals[i].good
             \/ stale[m.call] \cap {Other(m.row), "journals"} # {}
          /\ rows[m.row] = plan[m.call].material[m.row] \/ m.row \in stale[m.call]]_vars

(* A transfer is not registered over a row that is confirmed, its own or its mirror,
   unless that was confirmed after the last look at it, nor over a journal that books
   it unless the journal came after the execute matched. *)
NotBookedTwice ==
    [][\A m \in mail : Lands(m, "confirm") =>
          /\ rows[m.row].status = "PROJECT" \/ m.row \in stale[m.call]
          /\ Pair(m.call) => \/ rows[Other(m.row)].status = "PROJECT"
                             \/ Other(m.row) \in stale[m.call]
          /\ Booking(journals) = {} \/ "journals" \in stale[m.call]]_vars

(* What PlanExecution sees of a call. *)
Doing(c) ==
    CASE step[c] \in {"list", "match", "reviewed", "refused"} -> "idle"
      [] step[c] \in Looks \ {"review"} -> "prepare"
      [] step[c] \in {"review", "sent", "recover"} -> "mutate"
      [] OTHER -> step[c]

PlanRun(c) == INSTANCE PlanExecution WITH
    commands <- [i \in DOMAIN plan[c].ops |-> i], doing <- Doing(c), outcome <- outcome[c],
    mayHave <- mayHave[c], stop <- stop[c],
    touched <- {i \in DOMAIN plan[c].ops : plan[c].ops[i] \in wrote[c]}

(* The report of an execute tells the truth: a row reported confirmed, updated or
   deleted is, one of the later commands is not, and nothing was written when the
   report says so; but for a registration that arrives after a read said PROJECT. *)
ReportIsTrue == \A c \in Call : PlanRun(c)!ReportTellsTruth /\ PlanRun(c)!StopsAtTheFirst

=============================================================================
