----------------------------- MODULE PlanStore -----------------------------
(***************************************************************************)
(* ExecutionPlanStore (src/src/plan-store.ts) and the operation results    *)
(* that pin its proofs (src/src/operation-result-store.ts).                *)
(*                                                                         *)
(* A dry run issues a plan under a handle; an execute presents the handle  *)
(* and may consume the plan once.  A consumed or expired handle leaves a   *)
(* tombstone.  The tombstone of a plan that was consumed successfully is   *)
(* the proof that the operation results read later depend on, so a result  *)
(* pins it against eviction.                                               *)
(*                                                                         *)
(* Every operation is synchronous, so it is one step of the module that    *)
(* uses the store.  Time is not counted: plans have one time to live and   *)
(* are kept in the order of issue, so the oldest expires first.            *)
(***************************************************************************)
EXTENDS Naturals, Sequences, FiniteSets, SequencesExt

CONSTANTS
    None,           \* no proof: of an expired handle or a failed consume; no plan
    MaxActive,      \* maxActive: plans in the store
    MaxTombs        \* maxTombstones

ASSUME StoreAssumption == MaxActive \in Nat \ {0} /\ MaxTombs \in Nat \ {0}

VARIABLES
    plans,          \* the active plans, oldest first: handle, domain, scope
    tombs,          \* the tombstones, oldest first: handle, reason, proof, pins
    results         \* the handles with a live operation result, oldest first

store == <<plans, tombs, results>>

StoreInit == plans = << >> /\ tombs = << >> /\ results = << >>

Handles(s) == {s[i].handle : i \in DOMAIN s}
Position(s, h) == CHOOSE i \in DOMAIN s : s[i].handle = h
Entry(s, h) == s[Position(s, h)]
Others(s, h) == IF h \in Handles(s) THEN RemoveAt(s, Position(s, h)) ELSE s

-----------------------------------------------------------------------------
(* Mutant: eviction takes the oldest tombstone, pinned or not. *)
TrimOldest(ts, kept) == SelectSeq(ts, LAMBDA t : t.handle = kept
                                        \/ \E i \in DOMAIN ts : ts[i] = t /\ i + MaxTombs > Len(ts))

(* trimTombstones: as long as there are too many, the oldest goes that is neither
   pinned nor the proof that is being added; a store full of those exceeds its limit. *)
Evictable(ts, kept) == {i \in DOMAIN ts : ts[i].handle # kept /\ ts[i].pins = 0}
Oldest(S) == CHOOSE i \in S : \A j \in S : i <= j

TrimOnce(ts, kept) ==
    IF Len(ts) <= MaxTombs \/ Evictable(ts, kept) = {} THEN ts
    ELSE RemoveAt(ts, Oldest(Evictable(ts, kept)))

Trim(ts, kept) ==
    LET rest[n \in 0..Len(ts)] == IF n = 0 THEN ts ELSE TrimOnce(rest[n - 1], kept)
    IN  rest[Len(ts)]

(* addTombstone: the handle moves to the young end and keeps its pins. *)
AddTomb(ts, h, reason, proof) ==
    LET pins == IF h \in Handles(ts) THEN Entry(ts, h).pins ELSE 0
        tomb == [handle |-> h, reason |-> reason, proof |-> proof, pins |-> pins]
    IN  Trim(Append(Others(ts, h), tomb), IF proof = None THEN None ELSE h)

(* purgeExpired, for the plans older than one that is found expired. *)
Buried(ts, old) ==
    LET graves[n \in 0..Len(old)] ==
            IF n = 0 THEN ts ELSE AddTomb(graves[n - 1], old[n].handle, "expired", None)
    IN  graves[Len(old)]

(* Some operation of the store finds the oldest plan expired. *)
Purge ==
    /\ plans # << >>
    /\ tombs' = Buried(tombs, <<Head(plans)>>)
    /\ plans' = Tail(plans)
    /\ UNCHANGED results

(* issue; a full store refuses. *)
Full == Len(plans) >= MaxActive

Issue(h, domain, scope) ==
    /\ plans' = IF Full THEN plans
                ELSE Append(plans, [handle |-> h, domain |-> domain, scope |-> scope])
    /\ UNCHANGED <<tombs, results>>

(* Mutant: two scopes of the same connection are equal whatever happened between. *)
SameConnection(left, right) == left.index = right.index /\ left.named = right.named

(* runtimeSafetyScopesEqual *)
SameScope(left, right) == left = right

(* throwMissing *)
Missing(h) ==
    IF h \notin Handles(tombs) THEN "invalid"
    ELSE IF Entry(tombs, h).reason = "expired" THEN "expired" ELSE "consumed"

(* What consume finds wrong with an active plan that has not expired. *)
Verdict(plan, domain, scope) ==
    IF plan.domain # domain THEN "domainMismatch"
    ELSE IF ~SameScope(plan.scope, scope) THEN "scopeMismatch"
    ELSE "taken"

(* consume of an active plan in time: burned before it is compared with anything;
   only success leaves the proof. *)
ConsumeActive(h, domain, scope, verdict) ==
    LET plan == Entry(plans, h)
        burned == AddTomb(tombs, h, "consumed", None)
    IN  /\ h \in Handles(plans)
        /\ verdict = Verdict(plan, domain, scope)
        /\ plans' = RemoveAt(plans, Position(plans, h))
        /\ tombs' = IF verdict = "taken" THEN AddTomb(burned, h, "consumed", plan.scope)
                    ELSE burned

(* consume of an active plan after its expiresAt, and with it of every older one. *)
ConsumeLate(h, verdict) ==
    /\ h \in Handles(plans)
    /\ verdict = "expired"
    /\ LET n == Position(plans, h)
       IN  /\ plans' = SubSeq(plans, n + 1, Len(plans))
           /\ tombs' = Buried(tombs, SubSeq(plans, 1, n))

(* consume of a handle that is not active. *)
ConsumeMissing(h, verdict) ==
    /\ h \notin Handles(plans)
    /\ verdict = Missing(h)
    /\ UNCHANGED <<plans, tombs>>

-----------------------------------------------------------------------------
(* assertConsumed *)
Proved(h, scope) == \E t \in ToSet(tombs) : t.handle = h /\ t.proof # None /\ SameScope(t.proof, scope)

Pin(h, pins) ==
    [i \in DOMAIN tombs |-> IF tombs[i].handle = h THEN [tombs[i] EXCEPT !.pins = pins] ELSE tombs[i]]

(* OperationResultStore.issue: retainConsumed pins the proof; without one the
   executors answer without a result handle. *)
IssueResult(h, scope) ==
    /\ IF Proved(h, scope)
         THEN /\ tombs' = Pin(h, Entry(tombs, h).pins + 1)
              /\ results' = Append(results, h)
         ELSE UNCHANGED <<tombs, results>>
    /\ UNCHANGED plans

(* Some operation of the result store finds the oldest result expired and releases
   its pin. *)
ExpireResult ==
    /\ results # << >>
    /\ LET h == Head(results)
       IN  tombs' = IF h \in Handles(tombs) /\ Entry(tombs, h).pins > 0
                    THEN Trim(Pin(h, Entry(tombs, h).pins - 1), None) ELSE tombs
    /\ results' = Tail(results)
    /\ UNCHANGED plans

-----------------------------------------------------------------------------
(* Every live operation result still has the proof that its plan was consumed: reading it
   needs that proof (assertConsumed in src/src/plan-store.ts:367-374).  Nothing else is
   kept past the limits: beyond MaxTombs there are only pinned proofs and the one that was
   just added; and a handle is a plan or a tombstone, never both. *)
ResultKeepsItsProof ==
    /\ \A h \in ToSet(results) : \E t \in ToSet(tombs) : t.handle = h /\ t.proof # None
    /\ Len(plans) <= MaxActive
    /\ Handles(plans) \cap Handles(tombs) = {}
    /\ Len(tombs) > MaxTombs =>
          Cardinality({i \in DOMAIN tombs : tombs[i].pins = 0}) <= 1
=============================================================================
