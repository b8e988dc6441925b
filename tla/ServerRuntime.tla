--------------------------- MODULE ServerRuntime ---------------------------
(***************************************************************************)
(* One server process between its MCP client and the accounting service:   *)
(* the wrapper around every tool call (src/src/server/create-server.ts),   *)
(* switch_connection, the response cache and the plan store.               *)
(*                                                                         *)
(* The process runs one call at a time between two awaits.  A call awaits  *)
(* the audit label, its turn at the rate limiter and the answers of the    *)
(* service; a switch of the connection, a write or another call's plan may *)
(* come in between.  A connection is another company, and its data is a    *)
(* version: the number of writes the service carried out for it.           *)
(***************************************************************************)
EXTENDS PlanStore

CONSTANTS
    Call,           \* the tool calls
    DryRun, Execute, Switch,    \* what they do: a partition of Call; a tool that only
                    \* reads is a dry run whose plan nobody uses
    ReadOnly,       \* calls of tools with readOnlyHint
    Index,          \* the configured connections
    TargetOf,       \* the index a switch_connection call asks for
    WantOf,         \* the connection argument of a call, or None
    StartIndex,     \* EARVELDAJA_DEFAULT_CONNECTION
    Verified,       \* the connections configured with a verified company name
    DomainOf,       \* the operation a dry run or an execute belongs to
    MaxFaults       \* bound: reads and writes that the network loses

ASSUME RuntimeAssumption ==
    /\ Call = DryRun \cup Execute \cup Switch
    /\ DryRun \cap Execute = {}
    /\ ReadOnly \subseteq DryRun
    /\ TargetOf \in [Switch -> Index]
    /\ WantOf \in [Call -> Index \cup {None}]
    /\ StartIndex \in Index /\ Verified \subseteq Index

VARIABLES
    active,         \* connectionState: index and generation
    inFlight,       \* inFlightMutations
    cache,          \* cache[i]: the cached data of connection i, or None
    cacheGen,       \* the generation of the cache
    resolved,       \* the connections whose company name is resolved
    service,        \* service[i]: writes carried out
    flying,         \* the connections a given up write is still on its way to
    step, outcome,
    local,          \* local[c]: its snapshot, the cache generation and data of its
                    \* read, the answer to its write
    planOf,         \* planOf[c]: the handle c presented, or None
    \* history and bounds
    settled,        \* settled[i]: service[i] when a write of this process last settled
    reviewed,       \* reviewed[d]: the connection a plan was issued on
    faults

connection == <<active, inFlight, resolved>>
data == <<cache, cacheGen>>
remote == <<service, flying>>
history == <<settled, reviewed, faults>>
vars == <<store, connection, data, remote, step, local, planOf, outcome, history>>

Step == {"new", "label", "read", "readWait", "reading", "readBack", "issue", "consume",
         "write", "writeWait", "writing", "writeBack", "report", "switch", "over"}
Outcomes == {"readFailed", "dryRun", "storeFull", "wrongConnection", "interrupted",
             "already", "blocked", "switched", "expired", "consumed", "invalid",
             "domainMismatch", "scopeMismatch", "written", "rejected", "indeterminate"}

(* The locals of a call that has not begun, or has ended. *)
Fresh == [snap |-> None, gen |-> 0, value |-> None, answer |-> "none"]

-----------------------------------------------------------------------------
Init ==
    /\ StoreInit
    /\ active = [index |-> StartIndex, gen |-> 0]
    /\ inFlight = {}
    /\ cache = [i \in Index |-> None]
    /\ cacheGen = 0
    /\ resolved = Verified
    /\ service = [i \in Index |-> 0]
    /\ flying = {}
    /\ step = [c \in Call |-> "new"]
    /\ local = [c \in Call |-> Fresh]
    /\ planOf = [c \in Call |-> None]
    /\ outcome = [c \in Call |-> "none"]
    /\ settled = service
    /\ reviewed = [d \in DryRun |-> None]
    /\ faults = 0

Goto(c, s) == step' = [step EXCEPT ![c] = s] /\ UNCHANGED <<inFlight, outcome>>

(* The call goes on at s, or it returns: wrapToolHandler's finally block takes it out
   of inFlightMutations. *)
Continue(c, s) == Goto(c, s) /\ UNCHANGED local

End(c, kind) ==
    /\ step' = [step EXCEPT ![c] = "over"]
    /\ outcome' = [outcome EXCEPT ![c] = kind]
    /\ inFlight' = inFlight \ {c}
    /\ local' = [local EXCEPT ![c] = Fresh]

Fault == faults < MaxFaults /\ faults' = faults + 1

At(c) == local[c].snap.index

(* assertSnapshotCurrent *)
Current(c) == local[c].snap.gen = active.gen

(* getActiveScope: of the call's snapshot, not of the active connection. *)
Scope(c) == [index |-> At(c), gen |-> local[c].snap.gen, named |-> At(c) \in resolved]

FirstStep(c) == IF c \in Switch THEN "switch" ELSE "read"

-----------------------------------------------------------------------------
(* wrapToolHandler *)

Capture(c) == local' = [local EXCEPT ![c].snap = active]

(* Mutant: a call is not registered before its first await. *)
ArriveUnregistered(c) ==
    /\ step[c] = "new"
    /\ IF WantOf[c] \notin {None, active.index}
         THEN End(c, "wrongConnection")
         ELSE Capture(c) /\ Goto(c, "label")
    /\ UNCHANGED <<store, active, resolved, data, remote, planOf, history>>

(* The synchronous prologue: snapshot, connection argument, registration. *)
Arrive(c) ==
    /\ step[c] = "new"
    /\ IF WantOf[c] \notin {None, active.index}
         THEN End(c, "wrongConnection")
         ELSE /\ Capture(c)
              /\ step' = [step EXCEPT ![c] = "label"]
              /\ inFlight' = IF c \in ReadOnly THEN inFlight ELSE inFlight \cup {c}
              /\ UNCHANGED outcome
    /\ UNCHANGED <<store, active, resolved, data, remote, planOf, history>>

(* ensureAuditLogLabelResolved: a request of its own, whose failure is swallowed. *)
Label(c) ==
    /\ step[c] = "label"
    /\ resolved' \in {resolved, resolved \cup {At(c)}}
    /\ Continue(c, FirstStep(c))
    /\ UNCHANGED <<store, active, data, remote, planOf, history>>

-----------------------------------------------------------------------------
(* BaseResource.get and list: from the cache, or by a request. *)

AfterRead(c) ==
    /\ Goto(c, IF c \in DryRun THEN "issue" ELSE "consume")
    /\ local' = [local EXCEPT ![c] = [Fresh EXCEPT !.snap = local[c].snap]]

StartRead(c) ==
    /\ step[c] = "read"
    /\ \/ ~Current(c) /\ End(c, "interrupted")
       \/ Current(c) /\ cache[At(c)] # None /\ AfterRead(c)
       \/ /\ Current(c) /\ cache[At(c)] = None
          /\ Goto(c, "readWait")
          /\ local' = [local EXCEPT ![c].gen = cacheGen]
    /\ UNCHANGED <<store, active, resolved, data, remote, planOf, history>>

(* Mutant: the guard is not asked again after the rate limiter. *)
SendUnguarded(c, from, to) ==
    /\ step[c] = from
    /\ Continue(c, to)
    /\ UNCHANGED <<store, active, resolved, data, remote, planOf, history>>

(* request: after the rate limiter's turn the guard is asked again, and fetch. *)
SendRequest(c, from, to) ==
    /\ step[c] = from
    /\ IF Current(c) THEN Continue(c, to) ELSE End(c, "interrupted")
    /\ UNCHANGED <<store, active, resolved, data, remote, planOf, history>>

ServeRead(c) ==
    /\ step[c] = "reading"
    /\ Goto(c, "readBack")
    /\ local' = [local EXCEPT ![c].value = service[At(c)]]
    /\ UNCHANGED <<store, active, resolved, data, remote, planOf, history>>

(* A GET that the network loses is sent again, behind the guard, or given up. *)
LoseRead(c) ==
    /\ step[c] = "reading"
    /\ Fault
    /\ \/ Current(c) /\ Continue(c, "readWait")
       \/ ~Current(c) /\ End(c, "interrupted")
       \/ End(c, "readFailed")
    /\ UNCHANGED <<store, active, resolved, data, remote, planOf, settled, reviewed>>

(* Mutant: the answer is cached whatever was invalidated since the request. *)
ReturnReadAlways(c) ==
    /\ step[c] = "readBack"
    /\ cache' = [cache EXCEPT ![At(c)] = local[c].value]
    /\ AfterRead(c)
    /\ UNCHANGED <<store, active, resolved, cacheGen, remote, planOf, history>>

(* setIfSameGeneration *)
ReturnRead(c) ==
    /\ step[c] = "readBack"
    /\ cache' = IF local[c].gen = cacheGen THEN [cache EXCEPT ![At(c)] = local[c].value]
                ELSE cache
    /\ AfterRead(c)
    /\ UNCHANGED <<store, active, resolved, cacheGen, remote, planOf, history>>

(* The entry outlives its time or is the oldest of a full cache. *)
Evict(i) ==
    /\ cache[i] # None
    /\ cache' = [cache EXCEPT ![i] = None]
    /\ UNCHANGED <<store, connection, cacheGen, remote, step, local, planOf, outcome, history>>

-----------------------------------------------------------------------------
(* The plan of a dry run and its execution. *)

IssuePlan(c) ==
    /\ step[c] = "issue"
    /\ Issue(c, DomainOf[c], Scope(c))
    /\ reviewed' = [reviewed EXCEPT ![c] = local[c].snap]
    /\ End(c, IF Full THEN "storeFull" ELSE "dryRun")
    /\ UNCHANGED <<active, resolved, data, remote, planOf, settled, faults>>

(* The client presents the handle of a dry run it has the answer of. *)
Consume(c) ==
    /\ step[c] = "consume"
    /\ \E h \in {d \in DryRun : outcome[d] = "dryRun"} :
         /\ planOf' = [planOf EXCEPT ![c] = h]
         /\ \E verdict \in Outcomes \cup {"taken"} :
              /\ \/ ConsumeActive(h, DomainOf[c], Scope(c), verdict)
                 \/ ConsumeLate(h, verdict)
                 \/ ConsumeMissing(h, verdict)
              /\ IF verdict = "taken" THEN Continue(c, "write") ELSE End(c, verdict)
    /\ UNCHANGED <<results, active, resolved, data, remote, history>>

(* Every use of the API context asks whether the snapshot is current. *)
StartWrite(c) ==
    /\ step[c] = "write"
    /\ IF Current(c) THEN Continue(c, "writeWait") ELSE End(c, "interrupted")
    /\ UNCHANGED <<store, active, resolved, data, remote, planOf, history>>

Answer(c, text) == Goto(c, "writeBack") /\ local' = [local EXCEPT ![c].answer = text]

CarryOut(i) == service' = [service EXCEPT ![i] = @ + 1]

ServeWrite(c) ==
    /\ step[c] = "writing"
    /\ \/ CarryOut(At(c)) /\ Answer(c, "ok") /\ UNCHANGED <<flying, faults>>
       \/ Answer(c, "rejected") /\ UNCHANGED <<service, flying, faults>>
       \/ CarryOut(At(c)) /\ Answer(c, "lost") /\ Fault /\ UNCHANGED flying
       \/ flying' = flying \cup {At(c)} /\ Answer(c, "lost") /\ Fault /\ UNCHANGED service
    /\ UNCHANGED <<store, active, resolved, data, planOf, settled, reviewed>>

(* A write its call gave up on is carried out after all, or never. *)
Land(i) ==
    /\ i \in flying
    /\ flying' = flying \ {i}
    /\ CarryOut(i) \/ UNCHANGED service
    /\ UNCHANGED <<store, connection, data, step, local, planOf, outcome, history>>

Invalidate(i) == cache' = [cache EXCEPT ![i] = None] /\ cacheGen' = cacheGen + 1

(* mutate: whatever may have been written invalidates the affected entries. *)
Settle(c) ==
    /\ step[c] = "writeBack"
    /\ IF local[c].answer = "rejected" THEN UNCHANGED data ELSE Invalidate(At(c))
    /\ settled' = IF local[c].answer = "rejected" THEN settled
                  ELSE [settled EXCEPT ![At(c)] = service[At(c)]]
    /\ Continue(c, "report")
    /\ UNCHANGED <<store, active, resolved, remote, planOf, reviewed, faults>>

(* The execution report, and an operation result if the proof is still there. *)
Report(c) ==
    /\ step[c] = "report"
    /\ IssueResult(planOf[c], Scope(c))
    /\ End(c, CASE local[c].answer = "ok" -> "written"
                [] local[c].answer = "rejected" -> "rejected"
                [] local[c].answer = "lost" -> "indeterminate")
    /\ UNCHANGED <<active, resolved, data, remote, planOf, history>>

-----------------------------------------------------------------------------
(* switchActiveConnection: clearConnectionCaches for both connections. *)
SwitchTo(i) ==
    LET both == {active.index, i}
    IN  /\ active' = [index |-> i, gen |-> active.gen + 1]
        /\ cache' = [j \in Index |-> IF j \in both THEN None ELSE cache[j]]
        /\ cacheGen' = cacheGen + 2
        /\ settled' = [j \in Index |-> IF j \in both THEN service[j] ELSE settled[j]]

SwitchConnection(c) ==
    /\ step[c] = "switch"
    /\ \/ /\ TargetOf[c] = active.index
          /\ End(c, "already") /\ UNCHANGED <<active, data, settled>>
       \/ /\ TargetOf[c] # active.index
          /\ inFlight \ {c} # {}
          /\ End(c, "blocked") /\ UNCHANGED <<active, data, settled>>
       \/ /\ TargetOf[c] # active.index
          /\ inFlight \ {c} = {}
          /\ SwitchTo(TargetOf[c])
          /\ End(c, "switched")
    /\ UNCHANGED <<store, resolved, remote, planOf, reviewed, faults>>

-----------------------------------------------------------------------------
CallStep(c) ==
    \/ Arrive(c) \/ Label(c)
    \/ StartRead(c) \/ SendRequest(c, "readWait", "reading") \/ ReturnRead(c)
    \/ IssuePlan(c) \/ Consume(c)
    \/ StartWrite(c) \/ SendRequest(c, "writeWait", "writing") \/ Settle(c) \/ Report(c)
    \/ SwitchConnection(c)

StoreStep ==
    /\ Purge \/ ExpireResult
    /\ UNCHANGED <<connection, data, remote, step, local, planOf, outcome, history>>

Next ==
    \/ \E c \in Call : CallStep(c) \/ ServeRead(c) \/ LoseRead(c) \/ ServeWrite(c)
    \/ \E i \in Index : Evict(i) \/ Land(i)
    \/ StoreStep

Spec == Init /\ [][Next]_vars

-----------------------------------------------------------------------------
Running(c) == step[c] \notin {"new", "over"}

(* A tool that may write keeps the connection it started with until it ends: "a
   mutation in flight against the previous connection" would otherwise stop half
   way (src/src/server/register-system-tools.ts:193-197). *)
MutationKeepsItsConnection ==
    \A c \in Call \ ReadOnly : Running(c) => local[c].snap = active

(* No request goes out under a connection that was switched away from, however long
   its call waited: the old company's data is neither read nor written any more. *)
NoRequestAfterSwitch ==
    [][\A c \in Call : step'[c] # step[c] /\ step'[c] \in {"reading", "writing"}
          => local[c].snap = active]_vars

(* A plan runs once and where it was reviewed.  What an execute writes, it writes to
   the connection its plan was reviewed on, not switched away from in between, there
   and back included; and of all the executes that present one handle at most one
   finds it active, so that also a failed attempt spends it ("One-attempt
   semantics", src/src/plan-store.ts:350). *)
Attempted(c) ==
    \/ outcome[c] \in {"domainMismatch", "scopeMismatch"}
    \/ step[c] \in {"write", "writeWait", "writing", "writeBack", "report"}
    \/ outcome[c] \in {"written", "rejected", "indeterminate"}

PlanRunsOnceWhereReviewed ==
    /\ \A c \in Execute : step[c] \in {"write", "writeWait", "writing"} =>
          reviewed[planOf[c]] = active
    /\ \A c, d \in Execute :
          c # d /\ planOf[c] = planOf[d] => ~(Attempted(c) /\ Attempted(d))

(* The cache is never older than the last write of this process that settled, also
   one that was carried out although its answer was lost, nor than the last switch:
   what is answered from it shows the process its own writes. *)
CacheShowsSettledWrites ==
    \A i \in Index : cache[i] # None => cache[i] >= settled[i]

=============================================================================
