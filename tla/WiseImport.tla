----------------------------- MODULE WiseImport -----------------------------
(***************************************************************************)
(* The import of one Wise statement (src/src/wise): several calls preview  *)
(* and execute it in several server processes, while the accountant books  *)
(* journals and confirms rows by hand, requests and answers are lost, and  *)
(* processes die.                                                          *)
(*                                                                         *)
(* A statement row has a main leg, perhaps a fee leg that is confirmed at  *)
(* once, and an own transfer is confirmed against the other bank.  The     *)
(* commands of a plan do not run through runPlanCommands: the loop of      *)
(* executeWiseImport skips what fails and goes on, and stops only at an    *)
(* unknown outcome; a registration without an answer is first settled by   *)
(* reading the row again.  Its gate serializes the executes of a process.  *)
(***************************************************************************)
EXTENDS Naturals, Sequences, FiniteSets

CONSTANTS
    Call,           \* one dry run and the execute of its plan
    Process,        \* the server processes
    ProcOf,         \* the process of a call
    StatementRows,  \* the number of eligible rows
    WithFee,        \* rows with a fee leg
    Transfer,       \* transfer rows: journals are read again before a write
    Own,            \* approved own transfers between two bank accounts
    MaxDown,        \* bound: processes that die
    MaxForeign,     \* bound: journals, rows and clients the accountant changes
    MaxFaults       \* bound: refused or lost requests, lost answers, failed reads

StatementRow == 1..StatementRows

ASSUME WiseAssumption ==
    /\ ProcOf \in [Call -> Process]
    /\ StatementRows \in Nat
    /\ WithFee \subseteq StatementRow
    /\ {"User", "Late"} \cap Call = {}   \* a hand, and a registration after its report
    /\ Own \subseteq Transfer /\ Transfer \subseteq StatementRow

VARIABLES
    txs,        \* the rows with a WISE: tag of this statement, in order of creation
    journals,   \* what the accountant did about a statement row
    mail,       \* create and confirm requests on their way
    strayed,    \* confirm requests whose caller read PROJECT, or CONFIRMED, and went on
    down, gate, \* dead processes; gate[p]: the executes of p in or before the loop
    step, review, plan, \* plan[c]: the commands c executes, in order
    part,       \* what the report of c says of each command it went past
    blocked,    \* rows whose earlier check failed
    answer, foreign, faults

ledger == <<txs, journals>>
vars == <<ledger, mail, strayed, down, gate, step, review, plan, part, blocked, answer,
          foreign, faults>>

Looping == {"command", "guard", "creating", "check", "confirming", "recover"}
Ended == {"over", "refused", "dead"}
Step == {"preview", "reviewed", "projecting", "queued"} \cup Looping \cup Ended
Part == {"done", "dependency", "blocked", "stale", "noId", "rejected", "orphan", "unknown",
         "notAttempted"}

Ids == 1..Len(txs)

-----------------------------------------------------------------------------
(* projectWiseCommands. *)

HasTag(leg, r) == \E i \in Ids : txs[i].leg = leg /\ txs[i].row = r

About(r, kind) == [row |-> r, kind |-> kind] \in journals

(* A journal labelled with the row books it: no bank row is made of the main leg.
   Any other journal that may book the row holds all of it. *)
Pending(cmd) ==
    /\ ~About(cmd.row, "mayBook")
    /\ CASE cmd.act = "main"  -> ~HasTag("main", cmd.row) /\ ~About(cmd.row, "books")
         [] cmd.act = "fee"   -> cmd.row \in WithFee /\ ~HasTag("fee", cmd.row)
         [] cmd.act = "inter" -> /\ cmd.row \in Own
                                 /\ ~HasTag("main", cmd.row) /\ ~About(cmd.row, "books")

(* Row by row the main and the fee leg, then the own transfers. *)
EveryCommand ==
    [i \in 1..(3 * StatementRows) |->
        IF i > 2 * StatementRows THEN [act |-> "inter", row |-> i - 2 * StatementRows]
        ELSE [act |-> IF i % 2 = 1 THEN "main" ELSE "fee", row |-> (i + 1) \div 2]]

PendingAt == {i \in DOMAIN EveryCommand : Pending(EveryCommand[i])}

(* The pending ones in the order of the projection, the members of a set of one. *)
PlannedCommands ==
    {[i \in DOMAIN s |-> EveryCommand[s[i]]] :
        s \in {t \in [1..Cardinality(PendingAt) -> PendingAt] :
                  \A i, j \in DOMAIN t : i < j => t[i] < t[j]}}

-----------------------------------------------------------------------------
Init ==
    /\ txs = << >>
    /\ journals = {}
    /\ mail = {}
    /\ strayed = {}
    /\ down = {}
    /\ gate = [p \in Process |-> << >>]
    /\ step = [c \in Call |-> "preview"]
    /\ review = [c \in Call |-> ledger]
    /\ plan = [c \in Call |-> << >>]
    /\ part = [c \in Call |-> << >>]
    /\ blocked = [c \in Call |-> {}]
    /\ answer = [c \in Call |-> "none"]
    /\ foreign = 0
    /\ faults = 0

Runs(c, s) == step[c] = s /\ ProcOf[c] \notin down

Goto(c, s) == step' = [step EXCEPT ![c] = s]

Fault == faults < MaxFaults /\ faults' = faults + 1

Current(c) == plan[c][Len(part[c]) + 1]

(* Mutant: a run that ends leaves its gate closed. *)
LeaveOpen(c) == UNCHANGED gate

(* The finally block: releaseExecutionLock, of the gate in front. *)
Leave(c) == gate' = [gate EXCEPT ![ProcOf[c]] = Tail(@)]

(* The report takes the command in, and the loop goes on. *)
Report(c, what) ==
    /\ part' = [part EXCEPT ![c] = Append(@, what)]
    /\ IF Len(part'[c]) = Len(plan[c])
         THEN Goto(c, "over") /\ Leave(c)
         ELSE Goto(c, "command") /\ UNCHANGED gate

(* A MutationIndeterminateError: everything after it is listed as not attempted. *)
StopUnknown(c) ==
    /\ part' = [part EXCEPT ![c] = [i \in 1..Len(plan[c]) |->
          IF i <= Len(@) THEN @[i] ELSE IF i = Len(@) + 1 THEN "unknown" ELSE "notAttempted"]]
    /\ Goto(c, "over")
    /\ Leave(c)

Block(c) == blocked' = [blocked EXCEPT ![c] = @ \cup {Current(c).row}]

Outside == UNCHANGED <<ledger, strayed, down, review, plan, foreign>>

-----------------------------------------------------------------------------
(* The service, the accountant and the processes. *)

Waiting(r) == step[r.call] = IF r.op = "create" THEN "creating" ELSE "confirming"

Reply(r, text) == answer' = IF Waiting(r) THEN [answer EXCEPT ![r.call] = text] ELSE answer

(* POST /transactions; the 2xx answer may lack created_object_id. *)
DeliverCreate(r) ==
    /\ r.op = "create"
    /\ txs' = Append(txs, [by |-> r.call, leg |-> r.leg, row |-> r.row, late |-> ~Waiting(r),
                           confirmedBy |-> {}])
    /\ \E text \in {"ok", "noId"} : Reply(r, text)
    /\ UNCHANGED faults

(* PATCH /transactions/{id}/register of the row c created; a row that is confirmed
   already is refused. *)
DeliverConfirm(r) ==
    /\ r.op = "confirm"
    /\ \E i \in Ids :
          /\ txs[i].by = r.call /\ txs[i].leg = r.leg /\ txs[i].row = r.row
          /\ IF txs[i].confirmedBy = {}
               THEN txs' = [txs EXCEPT ![i].confirmedBy = {r.call}] /\ Reply(r, "ok")
               ELSE UNCHANGED txs /\ Reply(r, "rejected")
    /\ UNCHANGED faults

(* A 4xx answer. *)
Refuse(r) == Fault /\ Reply(r, "rejected") /\ UNCHANGED txs

Lose(r) == Fault /\ UNCHANGED <<txs, answer>>

ServiceStep(c) ==
    \E r \in mail :
        /\ r.call = c
        /\ mail' = mail \ {r}
        /\ DeliverCreate(r) \/ DeliverConfirm(r) \/ Refuse(r) \/ Lose(r)
        /\ UNCHANGED <<journals, strayed, down, gate, step, review, plan, part, blocked, foreign>>

(* A register request arrives after its caller has read the row in PROJECT. *)
LateConfirm(r) ==
    /\ strayed' = strayed \ {r}
    /\ \E i \in Ids :
          /\ txs[i].by = r.call /\ txs[i].leg = r.leg /\ txs[i].row = r.row
          /\ txs[i].confirmedBy = {}
          /\ txs' = [txs EXCEPT ![i].confirmedBy = {"Late"}]
    /\ UNCHANGED <<journals, mail, down, gate, step, review, plan, part, blocked, answer,
                   foreign, faults>>

(* The accountant books a journal about a row, changes or deactivates the client that
   earlier payments give a card row, or confirms a stored row by hand. *)
ForeignStep ==
    /\ foreign < MaxForeign
    /\ foreign' = foreign + 1
    /\ \/ \E r \in StatementRow, kind \in {"books", "mayBook", "client"} :
             /\ kind = "client" => r \notin Transfer
             /\ journals' = journals \cup {[row |-> r, kind |-> kind]}
             /\ UNCHANGED txs
       \/ \E i \in Ids : /\ txs[i].confirmedBy = {}
                         /\ txs' = [txs EXCEPT ![i].confirmedBy = {"User"}]
                         /\ UNCHANGED journals
    /\ UNCHANGED <<mail, strayed, down, gate, step, review, plan, part, blocked, answer, faults>>

(* The gate is a map in memory: it goes with its process. *)
Die(p) ==
    /\ p \notin down
    /\ Cardinality(down) < MaxDown
    /\ down' = down \cup {p}
    /\ step' = [c \in Call |-> IF ProcOf[c] = p /\ step[c] \notin Ended THEN "dead" ELSE step[c]]
    /\ gate' = [gate EXCEPT ![p] = << >>]
    /\ UNCHANGED <<ledger, mail, strayed, review, plan, part, blocked, answer, foreign, faults>>

-----------------------------------------------------------------------------
(* The dry run; the digest of its plan binds every row and journal it read. *)
Preview(c) ==
    /\ Runs(c, "preview")
    /\ review' = [review EXCEPT ![c] = ledger]
    /\ Goto(c, "reviewed")
    /\ UNCHANGED <<ledger, mail, strayed, down, gate, plan, part, blocked, answer, foreign, faults>>

(* The handle is consumed before anything is validated. *)
Consume(c) ==
    /\ Runs(c, "reviewed")
    /\ Goto(c, "projecting")
    /\ Outside /\ UNCHANGED <<mail, answer, gate, part, blocked, faults>>

(* The digest is computed again and compared ahead of the gate. *)
Compare(c) ==
    /\ Runs(c, "projecting")
    /\ \/ /\ review[c] = ledger /\ PendingAt # {}
          /\ \E cmds \in PlannedCommands : plan' = [plan EXCEPT ![c] = cmds]
          /\ gate' = [gate EXCEPT ![ProcOf[c]] = Append(@, c)]
          /\ Goto(c, "queued")
          /\ UNCHANGED faults
       \/ /\ review[c] # ledger \/ PendingAt = {}
          /\ Goto(c, "refused")
          /\ UNCHANGED <<plan, gate, faults>>
       \/ Fault /\ Goto(c, "refused") /\ UNCHANGED <<plan, gate>>
    /\ UNCHANGED <<ledger, mail, strayed, down, review, part, blocked, answer, foreign>>

(* Mutant: the gate before this one is not awaited. *)
EnterAtOnce(c) ==
    /\ Runs(c, "queued")
    /\ Goto(c, "command")
    /\ Outside /\ UNCHANGED <<mail, answer, gate, part, blocked, faults>>

(* acquireWiseExecutionLock resolves when the gate before it is released. *)
Enter(c) ==
    /\ Runs(c, "queued")
    /\ Head(gate[ProcOf[c]]) = c
    /\ Goto(c, "command")
    /\ Outside /\ UNCHANGED <<mail, answer, gate, part, blocked, faults>>

(* The main create a fee or an own transfer of this plan depends on succeeded. *)
Succeeded(c, r) == \E i \in 1..Len(part[c]) :
    plan[c][i] = [act |-> "main", row |-> r] /\ part[c][i] = "done"

NeedsMain(c) ==
    /\ Current(c).act # "main"
    /\ \E i \in 1..Len(plan[c]) : plan[c][i] = [act |-> "main", row |-> Current(c).row]

Dependent(c) == NeedsMain(c) /\ ~Succeeded(c, Current(c).row)

Blocked(c) == Current(c).row \in blocked[c]

SkipCommand(c) ==
    /\ Runs(c, "command")
    /\ \/ Dependent(c) /\ Report(c, "dependency")
       \/ ~Dependent(c) /\ Blocked(c) /\ Report(c, "blocked")
    /\ Outside /\ UNCHANGED <<mail, answer, blocked, faults>>

Attempts(c) == Runs(c, "command") /\ ~Dependent(c) /\ ~Blocked(c)

(* A fee leg is confirmed after its create, an own transfer without one. *)
Confirms(c) == Runs(c, "check") \/ (Attempts(c) /\ Current(c).act = "inter")

Send(c, op, leg, next) ==
    /\ mail' = mail \cup {[op |-> op, call |-> c, leg |-> leg, row |-> Current(c).row]}
    /\ answer' = [answer EXCEPT ![c] = "none"]
    /\ Goto(c, next)
    /\ UNCHANGED <<part, gate>>

(* The leg a command confirms. *)
LegOf(cmd) == IF cmd.act = "fee" THEN "fee" ELSE "main"

SendCreate(c) == Send(c, "create", Current(c).act, "creating")

(* guardHistoryClient: the client a card row has from earlier payments is another one,
   or inactive, since the review. *)
OtherClient(c) ==
    /\ Current(c).act = "main"
    /\ [row |-> Current(c).row, kind |-> "client"] \in journals \ review[c][2]

(* transactionCommandExists on the fresh list, and the client of a main leg. *)
CheckIdentity(c) ==
    /\ Attempts(c) /\ Current(c).act # "inter"
    /\ \/ /\ HasTag(Current(c).act, Current(c).row)
          /\ Report(c, "stale")
          /\ UNCHANGED <<mail, answer, blocked>>
       \/ /\ ~HasTag(Current(c).act, Current(c).row) /\ OtherClient(c)
          /\ Report(c, "stale") /\ Block(c)
          /\ UNCHANGED <<mail, answer>>
       \/ /\ ~HasTag(Current(c).act, Current(c).row) /\ ~OtherClient(c)
          /\ IF Current(c).row \in Transfer
               THEN Goto(c, "guard") /\ UNCHANGED <<part, gate, mail, answer>>
               ELSE SendCreate(c)
          /\ UNCHANGED blocked
    /\ Outside /\ UNCHANGED faults

(* wiseSideBlock: a journal about the row appeared since the review, but for the
   registration journals of rows this run created. *)
NewEvidence(c, r) ==
    \/ \E j \in journals \ review[c][2] : j.row = r
    \/ \E i \in Ids : /\ txs[i].row = r /\ txs[i].by # c /\ txs[i].confirmedBy # {}
                      /\ (i > Len(review[c][1]) \/ review[c][1][i] # txs[i])

GuardLeg(c) ==
    /\ Runs(c, "guard")
    /\ IF NewEvidence(c, Current(c).row)
         THEN Report(c, "stale") /\ Block(c) /\ UNCHANGED <<mail, answer>>
         ELSE SendCreate(c) /\ UNCHANGED blocked
    /\ Outside /\ UNCHANGED faults

(* A failed read of the rows or the clients skips the command; one of the journals by
   guardWiseLeg, also ahead of a fee's registration, skips the whole row. *)
ReadFails(c) ==
    /\ Fault
    /\ \/ Attempts(c) /\ Current(c).act # "inter" /\ Report(c, "stale") /\ UNCHANGED blocked
       \/ Runs(c, "guard") /\ Report(c, "stale") /\ Block(c)
       \/ Confirms(c) /\ Report(c, "orphan") /\ UNCHANGED blocked
       \/ /\ Runs(c, "check") /\ Current(c).row \in Transfer
          /\ Report(c, "orphan") /\ Block(c)
    /\ Outside /\ UNCHANGED <<mail, answer>>

(* A create without created_object_id is an ordinary error: the command is skipped
   and the loop goes on.  A fee leg is confirmed next. *)
CreateAnswered(c) ==
    /\ Runs(c, "creating")
    /\ \/ /\ answer[c] = "ok"
          /\ IF Current(c).act = "fee" THEN Goto(c, "check") /\ UNCHANGED <<part, gate>>
                                       ELSE Report(c, "done")
       \/ answer[c] \in {"noId", "rejected"} /\ Report(c, answer[c])
    /\ answer' = [answer EXCEPT ![c] = "none"]
    /\ Outside /\ UNCHANGED <<mail, blocked, faults>>

(* No answer: network error, timeout, 5xx or 408. *)
Unanswered(c) ==
    \/ answer[c] = "none" /\ (\A r \in mail : r.call # c) /\ UNCHANGED faults
    \/ (answer[c] # "none" \/ \E r \in mail : r.call = c) /\ Fault

(* A create without an answer ends the loop. *)
CreateUnknown(c) ==
    /\ Runs(c, "creating")
    /\ Unanswered(c)
    /\ answer' = [answer EXCEPT ![c] = "none"]
    /\ StopUnknown(c)
    /\ Outside /\ UNCHANGED <<mail, blocked>>

(* The created row, read again, is unchanged and in PROJECT, and no journal about the
   row appeared. *)
ReadyToConfirm(c) ==
    /\ \E i \in Ids : /\ txs[i].by = c /\ txs[i].leg = LegOf(Current(c))
                      /\ txs[i].row = Current(c).row /\ txs[i].confirmedBy = {}
    /\ Current(c).row \in Transfer => ~NewEvidence(c, Current(c).row)

(* A row that may not be confirmed stays behind and is reported. *)
CheckBeforeConfirm(c) ==
    /\ Confirms(c)
    /\ IF ReadyToConfirm(c)
         THEN Send(c, "confirm", LegOf(Current(c)), "confirming") /\ UNCHANGED blocked
         ELSE /\ Report(c, "orphan") /\ UNCHANGED <<mail, answer>>
              /\ IF Current(c).act = "fee" /\ NewEvidence(c, Current(c).row)
                   THEN Block(c) ELSE UNCHANGED blocked
    /\ Outside /\ UNCHANGED faults

(* The client update of an own transfer ahead of its registration: refused, it leaves
   the row behind; without an answer it ends the loop. *)
UpdateFails(c) ==
    /\ Confirms(c) /\ Current(c).act = "inter" /\ ReadyToConfirm(c)
    /\ Fault
    /\ Report(c, "orphan") \/ StopUnknown(c)
    /\ Outside /\ UNCHANGED <<mail, answer, blocked>>

ConfirmAnswered(c) ==
    /\ Runs(c, "confirming")
    /\ \/ answer[c] = "ok" /\ Report(c, "done")
       \/ answer[c] = "rejected" /\ Report(c, "orphan")
    /\ answer' = [answer EXCEPT ![c] = "none"]
    /\ Outside /\ UNCHANGED <<mail, blocked, faults>>

(* TransactionsApi.confirm: a register without an answer is settled by a fresh read. *)
ConfirmUnknown(c) ==
    /\ Runs(c, "confirming")
    /\ Unanswered(c)
    /\ answer' = [answer EXCEPT ![c] = "none"]
    /\ Goto(c, "recover")
    /\ Outside /\ UNCHANGED <<mail, gate, part, blocked>>

(* The leg of the command is confirmed, whoever registered it. *)
Settled(c, cmd) == \E i \in Ids : /\ txs[i].by = c /\ txs[i].leg = LegOf(cmd)
                                 /\ txs[i].row = cmd.row /\ txs[i].confirmedBy # {}

(* Mutant: the answer that is missing counts as a refusal, and nothing is read. *)
RecoverUnread(c) ==
    /\ Runs(c, "recover")
    /\ Report(c, "orphan")
    /\ mail' = {r \in mail : r.call # c}
    /\ strayed' = strayed \cup (mail \ mail')
    /\ UNCHANGED <<ledger, down, review, plan, blocked, answer, foreign, faults>>

(* CONFIRMED is success.  PROJECT rethrows the error of the register, which the import
   takes for a failed confirmation: it reports the row as left behind and goes on, and
   a request still on its way is nobody's.  Only a failed read ends the loop; the outage
   that took the answer may take the read too, so it counts as no fault of its own. *)
Recover(c) ==
    /\ Runs(c, "recover")
    /\ \/ /\ Report(c, IF Settled(c, Current(c)) THEN "done" ELSE "orphan")
          /\ mail' = {r \in mail : r.call # c}
          /\ strayed' = strayed \cup (mail \ mail')
       \/ StopUnknown(c) /\ UNCHANGED <<mail, strayed>>
    /\ UNCHANGED <<ledger, down, review, plan, blocked, answer, foreign, faults>>

-----------------------------------------------------------------------------
CallStep(c) ==
    \/ Compare(c) \/ Enter(c) \/ SkipCommand(c) \/ CheckIdentity(c) \/ GuardLeg(c)
    \/ CreateAnswered(c) \/ CreateUnknown(c) \/ CheckBeforeConfirm(c) \/ ConfirmAnswered(c)
    \/ ConfirmUnknown(c) \/ Recover(c)

Next ==
    \/ \E c \in Call : \/ Preview(c) \/ Consume(c) \/ CallStep(c) \/ ReadFails(c)
                       \/ UpdateFails(c) \/ ServiceStep(c)
    \/ \E r \in strayed : LateConfirm(r)
    \/ ForeignStep
    \/ \E p \in Process : Die(p)

Spec == Init /\ [][Next]_vars

(* A live process runs its event loop; a request without an answer is aborted after
   60 seconds (src/src/http-client.ts:365), so every execute leaves its gate. *)
FairSpec == Spec /\ \A c \in Call : WF_vars(CallStep(c)) /\ WF_vars(ServiceStep(c))

-----------------------------------------------------------------------------
(* A leg of a statement row is created once, but for a create that arrives after its
   execute stopped, and for executes in two processes: the gate and the identity
   check between them are no protection there (src/src/wise/executor.ts:100). *)
LegOncePerProcess ==
    \A i, j \in Ids :
        i # j /\ txs[i].leg = txs[j].leg /\ txs[i].row = txs[j].row
            => \/ txs[i].late \/ txs[j].late
               \/ ProcOf[txs[i].by] # ProcOf[txs[j].by]

(* Rows and requests of c about a command. *)
Wrote(c, cmd) ==
    \/ \E i \in Ids : txs[i].by = c /\ txs[i].leg = cmd.act /\ txs[i].row = cmd.row
    \/ \E r \in mail : r.call = c /\ r.op = "create" /\ r.leg = cmd.act /\ r.row = cmd.row

Confirmed(c, cmd) ==
    \/ \E i \in Ids : txs[i].confirmedBy = {c} /\ txs[i].row = cmd.row /\ txs[i].leg = LegOf(cmd)
    \/ \E r \in mail : r.call = c /\ r.op = "confirm" /\ r.row = cmd.row /\ r.leg = LegOf(cmd)

(* The report of an execute that ended is true.  A skipped or unattempted command wrote
   nothing.  A leg reported as confirmed is.  A row reported as created and left in
   PROJECT is not confirmed by this execute, nor is a request of it on its way, but for
   a registration that was still on its way when the row was read in PROJECT after it
   (strayed, "Late"): of that one the report knows nothing (src/src/wise/executor.ts:1018,
   1127).  And "main transaction was not created" (src/src/wise/executor.ts:931) fails
   only where the create was answered without an id. *)
ReportIsTrue ==
    \A c \in Call : step[c] = "over" => \A i \in 1..Len(plan[c]) :
        LET cmd == plan[c][i]  what == part[c][i] IN
        /\ Len(part[c]) = Len(plan[c])
        /\ what = "done" => /\ cmd.act # "inter" => Wrote(c, cmd)
                            /\ cmd.act # "main" => Settled(c, cmd)
        /\ what \in {"dependency", "blocked", "stale", "rejected", "notAttempted"} =>
              ~Wrote(c, cmd) /\ (cmd.act = "main" \/ ~Confirmed(c, cmd))
        /\ what = "orphan" => ~Confirmed(c, cmd) /\ (cmd.act = "fee" => Wrote(c, cmd))
        /\ what = "unknown" => \A j \in 1..Len(part[c]) : (j > i) = (part[c][j] = "notAttempted")
        /\ what = "dependency" =>
              LET main == [act |-> "main", row |-> cmd.row] IN
              \/ ~Wrote(c, main)
              \/ \E j \in 1..i : plan[c][j] = main /\ part[c][j] = "noId"

(* An execute that consumed its plan ends: the gates of its process are released in
   the order they were taken, whatever the executes before it met. *)
EveryExecuteEnds == \A c \in Call : step[c] = "projecting" ~> step[c] \in Ended

=============================================================================
