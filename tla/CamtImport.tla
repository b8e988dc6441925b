----------------------------- MODULE CamtImport -----------------------------
(***************************************************************************)
(* The import of one CAMT.053 statement into one bank dimension            *)
(* (src/src/camt): dry runs and executes of several calls, in several      *)
(* server processes and with several API keys of one company, while the    *)
(* accountant books rows and journals by hand, requests and answers are    *)
(* lost, and processes die.                                                *)
(*                                                                         *)
(* An execute runs its rows through PlanExecution.  Each row is rechecked  *)
(* and created under one file lock per company and dimension, the one      *)
(* AbstractLock promises.                                                  *)
(***************************************************************************)
EXTENDS Naturals, Sequences, FiniteSets

CONSTANTS
    Call,           \* one dry run and the execute of its plan
    Process,        \* the server processes
    ProcOf,         \* the process of a call
    Entries,        \* the number of entries of the statement
    KeyOf,          \* the exact ledger key of an entry
    NoKey,          \* an entry without a bank reference has none
    User,           \* the accountant, in the web application
    None,           \* nobody holds the lock
    MaxDown,        \* bound: processes that die
    MaxForeign,     \* bound: rows and journals the accountant books
    MaxFaults       \* bound: lost requests and answers, failed reads, lock timeouts

Entry == 1..Entries

ASSUME CamtAssumption ==
    /\ ProcOf \in [Call -> Process]
    /\ Entries \in Nat
    /\ User \notin Call /\ None \notin Call

VARIABLES
    rows,           \* the bank transactions of the dimension, in order of creation
    covered,        \* entries a journal books already
    mail,           \* POST /transactions requests on their way
    down, holder,   \* dead processes; the call that holds the row lock
    step, review,   \* review[c]: the projection the plan of c froze
    cached,         \* the lists the dry run of c read are still in its process's cache
    commands, outcome, mayHave, stop,   \* the state of PlanExecution, per call
    mine,           \* createdThisRun: what c believes it created, by entry
    answer, foreign, faults

engine == <<commands, outcome, mayHave, stop>>
vars == <<rows, covered, mail, down, holder, step, review, cached, engine, mine,
          answer, foreign, faults>>

Ended == {"over", "refused", "dead", "lost"}

Rows == 1..Len(rows)
HasKey(e) == KeyOf[e] # NoKey

-----------------------------------------------------------------------------
(* The identity of an entry and of a stored row (duplicate-identity.ts). *)

(* findExactKeyOccurrences: identical legs of one entry share their key, and leg n
   is imported only when n stored rows match. *)
Occurrence(e) == Cardinality({d \in 1..e : KeyOf[d] = KeyOf[e]})

Matching(e, stored) == {r \in stored : r.mark = "exact" /\ KeyOf[r.entry] = KeyOf[e]}

(* findDuplicateTransactionIds; an entry without bank reference never matches. *)
IsDuplicate(e, stored) ==
    HasKey(e) /\ Cardinality(Matching(e, stored)) >= Occurrence(e)

(* A row whose marker contradicts itself, whose shortened identity several entries
   share, or that an earlier release imported in part: evidence neither way. *)
IsUnclear(e, stored) == \E r \in stored : r.mark = "unclear" /\ r.entry = e

(* findPossibleDuplicateMatches: rows with the amount and date of the entry. *)
Possible(e, stored) == {r.id : r \in {r \in stored : ~HasKey(e) /\ r.entry = e}}

(* The uncached list of the non-void rows. *)
Stored == {[id |-> i, entry |-> rows[i].entry, mark |-> rows[i].mark] : i \in Rows}

(* computeCamtImportProjection: the rows to create, and what the
   fingerprint keeps of the entries left out and of possible duplicates. *)
Projection(stored, journals) ==
    LET out(e) == IsDuplicate(e, stored) \/ IsUnclear(e, stored) \/ e \in journals
    IN [create   |-> {e \in Entry : ~out(e)},
        left     |-> {<<e, {r \in stored : r.entry = e}>> : e \in {e \in Entry : out(e)}},
        possible |-> [e \in Entry |-> Possible(e, stored)]]

(* The commands of a plan: its entries in statement order. *)
Ordered(S) == {s \in [1..Cardinality(S) -> S] : \A i, j \in DOMAIN s : i < j => s[i] < s[j]}

NoReview == [create |-> {}, left |-> {}, possible |-> [e \in Entry |-> {}]]

-----------------------------------------------------------------------------
Init ==
    /\ rows = << >>
    /\ covered = {}
    /\ mail = {}
    /\ down = {}
    /\ holder = None
    /\ step = [c \in Call |-> "preview"]
    /\ review = [c \in Call |-> NoReview]
    /\ cached = [c \in Call |-> FALSE]
    /\ commands = [c \in Call |-> << >>]
    /\ outcome = [c \in Call |-> << >>]
    /\ mayHave = [c \in Call |-> FALSE]
    /\ stop = [c \in Call |-> "none"]
    /\ mine = [c \in Call |-> {}]
    /\ answer = [c \in Call |-> "none"]
    /\ foreign = 0
    /\ faults = 0

Runs(c, s) == step[c] = s /\ ProcOf[c] \notin down

Goto(c, s) == step' = [step EXCEPT ![c] = s]

Fault == faults < MaxFaults /\ faults' = faults + 1

(* The row the loop of c is at. *)
Position(c) == Len(outcome[c]) + 1
Current(c) == commands[c][Position(c)]

(* The loop of runPlanCommands goes on, or stops and frees the row lock (finally). *)
Proceed(c, part) ==
    /\ outcome' = [outcome EXCEPT ![c] = Append(@, part)]
    /\ IF Len(outcome'[c]) = Len(commands[c])
         THEN Goto(c, "over") /\ holder' = None
         ELSE Goto(c, "next") /\ UNCHANGED holder
    /\ UNCHANGED <<commands, stop>>

(* Mutant: the row lock is not freed when the run stops. *)
HaltHolding(c, part, reason) ==
    /\ outcome' = [outcome EXCEPT ![c] = Append(@, part)]
    /\ stop' = [stop EXCEPT ![c] = reason]
    /\ Goto(c, "over")
    /\ UNCHANGED <<commands, holder>>

(* Mutant: the run goes on with the next row. *)
HaltGoesOn(c, part, reason) == Proceed(c, part)

Halt(c, part, reason) ==
    /\ outcome' = [outcome EXCEPT ![c] = Append(@, part)]
    /\ stop' = [stop EXCEPT ![c] = reason]
    /\ Goto(c, "over")
    /\ holder' = IF holder = c THEN None ELSE holder
    /\ UNCHANGED commands

Reads == UNCHANGED <<rows, covered, mail, down, review, cached, mine, answer, foreign>>

-----------------------------------------------------------------------------
(* The service, the accountant and the processes. *)

Waiting(c) == step[c] = "creating"

(* POST /transactions is carried out; the answer may lack created_object_id.  The
   row is late when its call no longer waits for it. *)
Deliver(r) ==
    /\ mail' = mail \ {r}
    /\ rows' = Append(rows, [by |-> r.call, entry |-> r.entry, mark |-> "exact",
                             late |-> ~Waiting(r.call)])
    /\ \E text \in {"ok", "noId"} :
          answer' = IF Waiting(r.call) THEN [answer EXCEPT ![r.call] = text] ELSE answer
    /\ UNCHANGED <<covered, down, holder, step, review, cached, engine, mine, foreign, faults>>

(* The service refuses it, or the request is lost. *)
Refuse(r) ==
    /\ Fault
    /\ mail' = mail \ {r}
    /\ UNCHANGED <<rows, covered, down, holder, step, review, cached, engine, mine, answer, foreign>>

ServiceStep(c) == \E r \in mail : r.call = c /\ (Deliver(r) \/ Refuse(r))

Foreign == foreign < MaxForeign /\ foreign' = foreign + 1

(* A row for a statement entry, with its identity or with one nothing can be told from. *)
ForeignRow(e, mark) ==
    /\ Foreign
    /\ rows' = Append(rows, [by |-> User, entry |-> e, mark |-> mark, late |-> FALSE])
    /\ UNCHANGED <<covered, mail, down, holder, step, review, cached, engine, mine, answer, faults>>

ForeignJournal(e) ==
    /\ Foreign
    /\ covered' = covered \cup {e}
    /\ UNCHANGED <<rows, mail, down, holder, step, review, cached, engine, mine, answer, faults>>

(* A process dies; its lock file is reclaimed, its request goes on. *)
Die(p) ==
    /\ p \notin down
    /\ Cardinality(down) < MaxDown
    /\ down' = down \cup {p}
    /\ step' = [c \in Call |->
          IF ProcOf[c] # p \/ step[c] \in Ended THEN step[c]
          ELSE IF step[c] \in {"create", "creating"} THEN "lost" ELSE "dead"]
    /\ holder' = IF holder # None /\ ProcOf[holder] = p THEN None ELSE holder
    /\ UNCHANGED <<rows, covered, mail, review, cached, engine, mine, answer, foreign, faults>>

-----------------------------------------------------------------------------
(* The dry run: parse, project, freeze the projection in a plan. *)
Preview(c) ==
    /\ Runs(c, "preview")
    /\ review' = [review EXCEPT ![c] = Projection(Stored, covered)]
    /\ cached' = [cached EXCEPT ![c] = TRUE]
    /\ Goto(c, "reviewed")
    /\ UNCHANGED <<rows, covered, mail, down, holder, engine, mine, answer, foreign, faults>>

(* The company cannot be identified: refused before the plan is consumed. *)
ScopeUnavailable(c) ==
    /\ Runs(c, "reviewed")
    /\ Fault
    /\ UNCHANGED <<rows, covered, mail, down, holder, step, review, cached, engine, mine,
                   answer, foreign>>

(* The plan is consumed; the source bytes or the arguments may have changed. *)
Consume(c) ==
    /\ Runs(c, "reviewed")
    /\ \/ Goto(c, "projecting") /\ UNCHANGED faults
       \/ Goto(c, "refused") /\ Fault
    /\ UNCHANGED <<rows, covered, mail, down, holder, review, cached, engine, mine, answer, foreign>>

(* The fingerprint of the projection, made again from lists that may be cached, is
   the reviewed one: the frozen rows become the commands of the run. *)
Reproject(c) ==
    /\ Runs(c, "projecting")
    /\ \/ /\ cached[c] \/ Projection(Stored, covered) = review[c]
          /\ \E s \in Ordered(review[c].create) : commands' = [commands EXCEPT ![c] = s]
          /\ Goto(c, IF review[c].create = {} THEN "over" ELSE "row")
          /\ UNCHANGED faults
       \/ /\ Projection(Stored, covered) # review[c]
          /\ Goto(c, "refused")
          /\ UNCHANGED <<commands, faults>>
       \/ Fault /\ Goto(c, "refused") /\ UNCHANGED commands
    /\ UNCHANGED <<rows, covered, mail, down, holder, review, cached, outcome, mayHave, stop,
                   mine, answer, foreign>>

(* acquireRowLock frees the lock of the row before and asks for it again. *)
NextRow(c) ==
    /\ Runs(c, "next")
    /\ Goto(c, "row")
    /\ holder' = None
    /\ Reads /\ UNCHANGED <<engine, faults>>

(* Mutant: the lock is taken per API key, or not at all. *)
AcquireUnlocked(c) ==
    /\ Runs(c, "row")
    /\ holder' = c
    /\ Goto(c, "listing")
    /\ Reads /\ UNCHANGED <<engine, faults>>

Acquire(c) ==
    /\ Runs(c, "row")
    /\ holder = None
    /\ holder' = c
    /\ Goto(c, "listing")
    /\ Reads /\ UNCHANGED <<engine, faults>>

(* LockBusyError after 30 seconds: prepare throws. *)
LockBusy(c) ==
    /\ Runs(c, "row")
    /\ holder # None
    /\ Halt(c, "failed", "mutation_failed")
    /\ Reads /\ UNCHANGED <<mayHave, faults>>

(* The fresh list and what this run created, counted once where both know the id. *)
Known(c) == Stored \cup {[id |-> m.id, entry |-> m.entry, mark |-> "exact"] : m \in mine[c]}

(* The duplicate, marker and partial-import rechecks on the uncached list. *)
CheckRows(c) ==
    /\ Runs(c, "listing")
    /\ IF IsDuplicate(Current(c), Known(c)) \/ IsUnclear(Current(c), Known(c))
         THEN Halt(c, "failed", "plan_drift") /\ UNCHANGED mayHave
         ELSE Goto(c, "journals") /\ UNCHANGED <<holder, engine>>
    /\ cached' = [d \in Call |-> cached[d] /\ ProcOf[d] # ProcOf[c]]
    /\ UNCHANGED <<rows, covered, mail, down, review, mine, answer, foreign, faults>>

(* The uncached journal list. *)
CheckJournals(c) ==
    /\ Runs(c, "journals")
    /\ IF Current(c) \in covered
         THEN Halt(c, "failed", "plan_drift") /\ UNCHANGED mayHave
         ELSE Goto(c, "create") /\ UNCHANGED <<holder, engine>>
    /\ Reads /\ UNCHANGED faults

ReadFails(c) ==
    /\ Runs(c, "listing") \/ Runs(c, "journals")
    /\ Fault
    /\ Halt(c, "failed", "mutation_failed")
    /\ Reads /\ UNCHANGED mayHave

(* mutateIndex: createBankTransaction. *)
SendCreate(c) ==
    /\ Runs(c, "create")
    /\ mail' = mail \cup {[call |-> c, entry |-> Current(c)]}
    /\ answer' = [answer EXCEPT ![c] = "none"]
    /\ Goto(c, "creating")
    /\ UNCHANGED <<rows, covered, down, holder, review, cached, engine, mine, foreign, faults>>

(* The row the answer names; 0 stands for an id the answer did not give. *)
CreatedId(c) ==
    IF answer[c] = "noId" THEN 0
    ELSE CHOOSE i \in Rows : rows[i].by = c /\ rows[i].entry = Current(c)

CreateAnswered(c) ==
    /\ Runs(c, "creating")
    /\ answer[c] # "none"
    /\ mine' = [mine EXCEPT ![c] = @ \cup {[id |-> CreatedId(c), entry |-> Current(c)]}]
    /\ mayHave' = [mayHave EXCEPT ![c] = TRUE]
    /\ answer' = [answer EXCEPT ![c] = "none"]
    /\ Proceed(c, "completed")
    /\ UNCHANGED <<rows, covered, mail, down, review, cached, foreign, faults>>

(* Mutant: a create without an answer is reported as a failure that wrote nothing. *)
CreateFailedCleanly(c) ==
    /\ Runs(c, "creating")
    /\ \/ answer[c] = "none" /\ (\A r \in mail : r.call # c) /\ UNCHANGED faults
       \/ (answer[c] # "none" \/ \E r \in mail : r.call = c) /\ Fault
    /\ answer' = [answer EXCEPT ![c] = "none"]
    /\ Halt(c, "failed", "mutation_failed")
    /\ UNCHANGED <<mayHave, rows, covered, mail, down, review, cached, mine, foreign>>

(* mutate throws: refused, lost, timed out with the request under way, or the answer
   is lost.  The tracker calls it unknown whatever the status. *)
CreateThrows(c) ==
    /\ Runs(c, "creating")
    /\ \/ answer[c] = "none" /\ (\A r \in mail : r.call # c) /\ UNCHANGED faults
       \/ (answer[c] # "none" \/ \E r \in mail : r.call = c) /\ Fault
    /\ mayHave' = [mayHave EXCEPT ![c] = TRUE]
    /\ answer' = [answer EXCEPT ![c] = "none"]
    /\ Halt(c, "indeterminate", "mutation_indeterminate")
    /\ UNCHANGED <<rows, covered, mail, down, review, cached, mine, foreign>>

-----------------------------------------------------------------------------
CallStep(c) ==
    \/ Reproject(c) \/ NextRow(c) \/ Acquire(c) \/ LockBusy(c) \/ CheckRows(c) \/ CheckJournals(c)
    \/ SendCreate(c) \/ CreateAnswered(c) \/ CreateThrows(c)

Next ==
    \/ \E c \in Call : \/ Preview(c) \/ ScopeUnavailable(c) \/ Consume(c)
                       \/ CallStep(c) \/ ReadFails(c) \/ ServiceStep(c)
    \/ \E e \in Entry : ForeignJournal(e) \/ \E mark \in {"exact", "unclear"} : ForeignRow(e, mark)
    \/ \E p \in Process : Die(p)

Spec == Init /\ [][Next]_vars

(* A live process runs its event loop, a request that is not lost arrives and one
   without an answer is aborted after 60 seconds (src/src/http-client.ts:365).  A
   call waits at most 30 seconds for the row lock (src/src/camt/executor.ts:715). *)
FairSpec == Spec /\ \A c \in Call : WF_vars(CallStep(c)) /\ WF_vars(ServiceStep(c))

-----------------------------------------------------------------------------
(* The rows imports wrote with the key of e, but for those a request wrote after its
   call had given up on it or died. *)
Imported(e) == {i \in Rows : rows[i].by # User /\ ~rows[i].late /\ KeyOf[rows[i].entry] = KeyOf[e]}

(* However many executes of the statement run, in whatever processes and with
   whatever API keys, an entry with a bank reference is imported once; identical
   legs, which share their key, as many times as the statement has them. *)
ImportedOnce ==
    \A e \in Entry : HasKey(e) =>
        Cardinality(Imported(e)) <= Cardinality({d \in Entry : KeyOf[d] = KeyOf[e]})

(* What PlanExecution sees of a call. *)
Doing(c) ==
    CASE step[c] \in {"preview", "reviewed", "projecting", "refused"} -> "idle"
      [] step[c] \in {"row", "listing", "journals", "next"} -> "prepare"
      [] step[c] \in {"create", "creating"} -> "mutate"
      [] OTHER -> step[c]

Touched(c) == {i \in 1..Len(commands[c]) :
                  \E r \in Rows : rows[r].by = c /\ rows[r].entry = commands[c][i]}

PlanRun(c) == INSTANCE PlanExecution WITH
    commands <- commands[c], doing <- Doing(c), outcome <- outcome[c],
    mayHave <- mayHave[c], stop <- stop[c], touched <- Touched(c)

(* Every execute is a run of the shared loop: its rows in the order of the plan, each
   written at most once and not after a stop, but for the one called indeterminate. *)
ImplementsPlanRun ==
    /\ \A c \in Call : PlanRun(c)!PlanInit
    /\ [][\A c \in Call : [PlanRun(c)!PlanNext]_(PlanRun(c)!planVars)]_vars

(* The report of every execute that returned one tells the truth about the books,
   and what it calls not attempted is everything after the first stop. *)
ReportIsTrue == \A c \in Call : PlanRun(c)!ReportTellsTruth /\ PlanRun(c)!StopsAtTheFirst

(* An execute that consumed its plan ends, whoever holds the row lock, and the lock, which
   one row passes on to the next, is left however the execute ends. *)
EveryExecuteEnds ==
    \A c \in Call : step[c] = "projecting" ~> step[c] \in Ended /\ holder # c

=============================================================================
