--------------------------- MODULE OwnedFileLock ---------------------------
(***************************************************************************)
(* The owned file lock of src/src/file-lock.ts on one lock path, as        *)
(* several server processes and several calls inside each process use it.  *)
(*                                                                         *)
(* Three files matter: level 0 is the lock itself, level 1 the guard       *)
(* `<lock>.reclaim` and level 2 the guard's guard `<lock>.reclaim.reclaim`. *)
(* A file holds the owner token of one call (pid, nonce, createdAt); the   *)
(* nonce makes it unique, so the token is the call itself.  Every file     *)
(* system operation is one atomic step, and other processes run between    *)
(* any two of them; a process may die between any two of them.             *)
(***************************************************************************)
EXTENDS Naturals, FiniteSets, Sequences

CONSTANTS
    Call,         \* the calls of withOwnedFileLock on this path
    Process,      \* the server processes, a restarted server is another one
    ProcOf,       \* the process that makes a call
    PidOf,        \* its operating system pid, which a later process may reuse
    None,         \* no file, no predecessor
    MayExpire,    \* TRUE when deadlines (timeoutMs) are finite
    MaxDown,      \* bound: processes that die
    MaxFaults     \* bound: file system operations that throw

ASSUME LockAssumption ==
    /\ ProcOf \in [Call -> Process]
    /\ None \notin Call
    /\ MayExpire \in BOOLEAN

VARIABLES
    fs,           \* fs[l]: the call whose token file l holds, or None
    proc,         \* proc[p]: "new", "up" or "down"
    line,         \* line[p]: the calls of p in the order they registered
    settled,      \* the calls whose queue tail promise is resolved
    step,         \* step[c]: the operation call c does next
    level,        \* level[c]: 0 while reclaiming the lock, 1 the guard
    seen,         \* seen[c]: observedText, the dead owner c wants to evict
    result,       \* result[c]: what the guarded removal returned or threw
    expired,      \* the calls whose deadline has passed
    faults        \* file system operations that threw so far

vars == <<fs, proc, line, settled, step, level, seen, result, expired, faults>>
reclaimVars == <<level, seen, result>>
queueVars == <<proc, line, settled>>

File == 0..2
Finished == {"over", "busy", "failed", "dead"}
UnderGuard == {"recheck", "remove", "unguard", "unlinkGuard"}
Holding == {"held", "release", "unlink"}
Step == {"idle", "queued", "publish", "observe", "guard", "poll"}
            \cup UnderGuard \cup Holding \cup Finished

-----------------------------------------------------------------------------
(* Mutant: every failure of the probe, EPERM included, proves the owner dead. *)
OwnerDeadOnAnyError(t) == t # None

(* ownerDefinitelyDead: the signal 0 probe of the token's pid says ESRCH. A
   pid that a later process reuses makes the owner look alive again. *)
OwnerDead(t) ==
    /\ t # None
    /\ \A p \in Process : proc[p] = "up" => PidOf[p] # PidOf[ProcOf[t]]

(* The promise chain of withOwnedFileLock: the tail that was in queueTails when
   c registered, None when the map had none. *)
Predecessor(c) ==
    LET q == line[ProcOf[c]]
        i == CHOOSE j \in 1..Len(q) : q[j] = c
    IN  IF i = 1 THEN None ELSE q[i - 1]

(* Mutant: the tail is the call's own end, so a waiter that gave up lets the next
   one overtake those before it. *)
TailIsOwnEnd(c) == step[c] \in Finished

(* ownTail = predecessor.then(() => ownDone): resolved when the call is done and
   every call before it in the chain is. *)
TailResolved(c) ==
    /\ step[c] \in Finished
    /\ Predecessor(c) = None \/ Predecessor(c) \in settled

Runs(c, s) == proc[ProcOf[c]] = "up" /\ step[c] = s

Goto(c, s) == step' = [step EXCEPT ![c] = s]

(* The locals of reclaimIfOwnerDead start out, and go out of scope, like this. *)
Forget(c) ==
    /\ level' = [level EXCEPT ![c] = 0]
    /\ seen' = [seen EXCEPT ![c] = None]
    /\ result' = [result EXCEPT ![c] = "none"]

Init ==
    /\ fs = [l \in File |-> None]
    /\ proc = [p \in Process |-> "new"]
    /\ line = [p \in Process |-> << >>]
    /\ settled = {}
    /\ step = [c \in Call |-> "idle"]
    /\ level = [c \in Call |-> 0]
    /\ seen = [c \in Call |-> None]
    /\ result = [c \in Call |-> "none"]
    /\ expired = {}
    /\ faults = 0

-----------------------------------------------------------------------------
(* Processes. *)

Start(p) ==
    /\ proc[p] = "new"
    /\ \A q \in Process : proc[q] = "up" => PidOf[q] # PidOf[p]
    /\ proc' = [proc EXCEPT ![p] = "up"]
    /\ UNCHANGED <<fs, line, settled, step, reclaimVars, expired, faults>>

(* A process ends: crash, kill or plain exit.  Its files stay. *)
Die(p) ==
    /\ proc[p] = "up"
    /\ Cardinality({q \in Process : proc[q] = "down"}) < MaxDown
    /\ proc' = [proc EXCEPT ![p] = "down"]
    /\ step' = [c \in Call |->
                  IF ProcOf[c] = p /\ step[c] \notin Finished THEN "dead" ELSE step[c]]
    /\ level' = [c \in Call |-> IF ProcOf[c] = p THEN 0 ELSE level[c]]
    /\ seen' = [c \in Call |-> IF ProcOf[c] = p THEN None ELSE seen[c]]
    /\ result' = [c \in Call |-> IF ProcOf[c] = p THEN "none" ELSE result[c]]
    /\ expired' = {c \in expired : ProcOf[c] # p}
    /\ UNCHANGED <<fs, line, settled, faults>>

-----------------------------------------------------------------------------
(* The in-process queue in front of the file. *)

(* withOwnedFileLock: take the current tail as predecessor, become the tail. *)
Register(c) ==
    /\ Runs(c, "idle")
    /\ line' = [line EXCEPT ![ProcOf[c]] = Append(@, c)]
    /\ Goto(c, "queued")
    /\ UNCHANGED <<fs, proc, settled, reclaimVars, expired, faults>>

Settle(c) ==
    /\ step[c] \in Finished
    /\ proc[ProcOf[c]] = "up"
    /\ c \notin settled
    /\ TailResolved(c)
    /\ settled' = settled \cup {c}
    /\ UNCHANGED <<fs, proc, line, step, reclaimVars, expired, faults>>

(* waitForPredecessor, won by the predecessor's tail. *)
PredecessorDone(c) ==
    /\ Runs(c, "queued")
    /\ Predecessor(c) = None \/ Predecessor(c) \in settled
    /\ Goto(c, "publish")
    /\ UNCHANGED <<fs, queueVars, reclaimVars, expired, faults>>

(* waitForPredecessor, won by the deadline timer. *)
QueueTimeout(c) ==
    /\ Runs(c, "queued")
    /\ c \in expired
    /\ Goto(c, "busy")
    /\ UNCHANGED <<fs, queueVars, reclaimVars, expired, faults>>

(* The clock passes the call's deadline. *)
Expire(c) ==
    /\ MayExpire
    /\ proc[ProcOf[c]] = "up"
    /\ step[c] \notin Finished \cup {"idle"}
    /\ c \notin expired
    /\ expired' = expired \cup {c}
    /\ UNCHANGED <<fs, queueVars, step, reclaimVars, faults>>

-----------------------------------------------------------------------------
(* acquireOwnedFileLock. *)

(* Mutant: the candidate is renamed over the lock file instead of linked. *)
PublishByRename(c) ==
    /\ Runs(c, "publish")
    /\ fs' = [fs EXCEPT ![0] = c]
    /\ Goto(c, "held")
    /\ UNCHANGED <<queueVars, reclaimVars, expired, faults>>

(* publishOwnedPath(lockPath): link() creates the file or says EEXIST. *)
Publish(c) ==
    /\ Runs(c, "publish")
    /\ IF fs[0] = None
       THEN fs' = [fs EXCEPT ![0] = c] /\ Goto(c, "held")
       ELSE UNCHANGED fs /\ Goto(c, "observe")
    /\ UNCHANGED <<queueVars, reclaimVars, expired, faults>>

(* reclaimIfOwnerDead: read the path, give up unless its owner is dead. *)
Observe(c) ==
    /\ Runs(c, "observe")
    /\ IF OwnerDead(fs[level[c]])
       THEN /\ seen' = [seen EXCEPT ![c] = fs[level[c]]]
            /\ Goto(c, "guard")
            /\ UNCHANGED <<level, result>>
       ELSE Forget(c) /\ Goto(c, "poll")
    /\ UNCHANGED <<fs, queueVars, expired, faults>>

(* Mutant: the guard is written over whatever guard is there. *)
GuardByRename(c) ==
    /\ Runs(c, "guard")
    /\ fs' = [fs EXCEPT ![level[c] + 1] = c]
    /\ Goto(c, "recheck")
    /\ UNCHANGED <<reclaimVars, queueVars, expired, faults>>

(* Mutant: a busy guard is never examined for a dead owner. *)
GuardNeverCleared(c) ==
    /\ Runs(c, "guard")
    /\ \/ /\ fs[level[c] + 1] = None
          /\ fs' = [fs EXCEPT ![level[c] + 1] = c]
          /\ Goto(c, "recheck")
          /\ UNCHANGED reclaimVars
       \/ /\ fs[level[c] + 1] # None
          /\ Forget(c)
          /\ Goto(c, "poll")
          /\ UNCHANGED fs
    /\ UNCHANGED <<queueVars, expired, faults>>

(* publishOwnedPath(reclaimPath).  A busy guard of the lock is itself examined
   one level deeper (clearDeadGuard), a busy guard of the guard is not. *)
Guard(c) ==
    /\ Runs(c, "guard")
    /\ \/ /\ fs[level[c] + 1] = None
          /\ fs' = [fs EXCEPT ![level[c] + 1] = c]
          /\ Goto(c, "recheck")
          /\ UNCHANGED reclaimVars
       \/ /\ fs[level[c] + 1] # None
          /\ level[c] = 0
          /\ level' = [level EXCEPT ![c] = 1]
          /\ Goto(c, "observe")
          /\ UNCHANGED <<fs, seen, result>>
       \/ /\ fs[level[c] + 1] # None
          /\ level[c] = 1
          /\ Forget(c)
          /\ Goto(c, "poll")
          /\ UNCHANGED fs
    /\ UNCHANGED <<queueVars, expired, faults>>

(* Mutant: under the guard the path is removed without reading it again. *)
RecheckSkipped(c) ==
    /\ Runs(c, "recheck")
    /\ Goto(c, "remove")
    /\ result' = [result EXCEPT ![c] = "kept"]
    /\ UNCHANGED <<fs, queueVars, level, seen, expired, faults>>

(* Under the guard: the path must still hold the very token that was observed. *)
Recheck(c) ==
    /\ Runs(c, "recheck")
    /\ Goto(c, IF fs[level[c]] = seen[c] /\ OwnerDead(seen[c]) THEN "remove" ELSE "unguard")
    /\ result' = [result EXCEPT ![c] = "kept"]
    /\ UNCHANGED <<fs, queueVars, level, seen, expired, faults>>

RemoveFile(c) ==
    /\ Runs(c, "remove")
    /\ fs' = [fs EXCEPT ![level[c]] = None]
    /\ result' = [result EXCEPT ![c] = "removed"]
    /\ Goto(c, "unguard")
    /\ UNCHANGED <<queueVars, level, seen, expired, faults>>

(* reclaimIfOwnerDead returns or throws: TRUE retries at once, and what the
   level 1 call returned is ignored. *)
AfterReclaim(c) ==
    CASE result[c] = "threw" -> "failed"
      [] result[c] = "removed" /\ level[c] = 0 -> "publish"
      [] OTHER -> "poll"

(* releaseIfOwned(reclaimPath): read, and remove only one's own token. *)
Unguard(c) ==
    /\ Runs(c, "unguard")
    /\ IF fs[level[c] + 1] = c
       THEN Goto(c, "unlinkGuard") /\ UNCHANGED reclaimVars
       ELSE Goto(c, AfterReclaim(c)) /\ Forget(c)
    /\ UNCHANGED <<fs, queueVars, expired, faults>>

UnlinkGuard(c) ==
    /\ Runs(c, "unlinkGuard")
    /\ fs' = [fs EXCEPT ![level[c] + 1] = None]
    /\ Goto(c, AfterReclaim(c))
    /\ Forget(c)
    /\ UNCHANGED <<queueVars, expired, faults>>

(* The end of a poll: LockBusyError once the deadline has passed. *)
Poll(c) ==
    /\ Runs(c, "poll")
    /\ Goto(c, IF c \in expired THEN "busy" ELSE "publish")
    /\ UNCHANGED <<fs, queueVars, reclaimVars, expired, faults>>

-----------------------------------------------------------------------------
(* The callback and the release, which also follows a callback that throws. *)

CallbackEnds(c) ==
    /\ Runs(c, "held")
    /\ Goto(c, "release")
    /\ UNCHANGED <<fs, queueVars, reclaimVars, expired, faults>>

Release(c) ==
    /\ Runs(c, "release")
    /\ Goto(c, IF fs[0] = c THEN "unlink" ELSE "over")
    /\ UNCHANGED <<fs, queueVars, reclaimVars, expired, faults>>

Unlink(c) ==
    /\ Runs(c, "unlink")
    /\ fs' = [fs EXCEPT ![0] = None]
    /\ Goto(c, "over")
    /\ UNCHANGED <<queueVars, reclaimVars, expired, faults>>

(* A file system operation throws something other than EEXIST and ENOENT.  Under
   the guard the finally block still releases the guard; elsewhere the call ends
   and the outer finally block still advances the queue.  A publish may throw
   while it removes its candidate, after the link was made. *)
FileFault(c) ==
    /\ proc[ProcOf[c]] = "up"
    /\ faults < MaxFaults
    /\ \/ /\ step[c] \in {"publish", "observe", "guard", "unguard", "unlinkGuard",
                          "release", "unlink"}
          /\ Goto(c, "failed")
          /\ Forget(c)
          /\ UNCHANGED fs
       \/ /\ step[c] \in {"publish", "guard"}
          /\ LET l == IF step[c] = "publish" THEN 0 ELSE level[c] + 1
             IN  fs[l] = None /\ fs' = [fs EXCEPT ![l] = c]
          /\ Goto(c, "failed")
          /\ Forget(c)
       \/ /\ step[c] \in {"recheck", "remove"}
          /\ Goto(c, "unguard")
          /\ result' = [result EXCEPT ![c] = "threw"]
          /\ UNCHANGED <<fs, level, seen>>
    /\ faults' = faults + 1
    /\ UNCHANGED <<queueVars, expired>>

-----------------------------------------------------------------------------
Acquiring(c) ==
    Publish(c) \/ Observe(c) \/ Guard(c) \/ Recheck(c) \/ RemoveFile(c)
        \/ Unguard(c) \/ UnlinkGuard(c) \/ Poll(c)

CallStep(c) ==
    \/ Settle(c) \/ PredecessorDone(c) \/ QueueTimeout(c)
    \/ Acquiring(c)
    \/ CallbackEnds(c) \/ Release(c) \/ Unlink(c)

Next ==
    \/ \E p \in Process : Start(p) \/ Die(p)
    \/ \E c \in Call : Register(c) \/ Expire(c) \/ CallStep(c) \/ FileFault(c)

Spec == Init /\ [][Next]_vars

(* A live process keeps running its event loop, its clock advances, and the
   callback returns (its HTTP requests have timeouts of their own). *)
FairSpec ==
    /\ Spec
    /\ \A c \in Call : WF_vars(CallStep(c)) /\ WF_vars(Expire(c))

-----------------------------------------------------------------------------
TypeOK ==
    /\ fs \in [File -> Call \cup {None}]
    /\ proc \in [Process -> {"new", "up", "down"}]
    /\ line \in [Process -> Seq(Call)]
    /\ settled \subseteq Call
    /\ step \in [Call -> Step]
    /\ level \in [Call -> {0, 1}]
    /\ seen \in [Call -> Call \cup {None}]
    /\ result \in [Call -> {"none", "kept", "removed", "threw"}]
    /\ expired \subseteq Call
    /\ faults \in Nat

(* At most one call is between a successful publish and the removal of its token,
   whatever processes died, came back or reclaimed in between. *)
MutualExclusion ==
    \A c, d \in Call : step[c] \in Holding /\ step[d] \in Holding => c = d

(* Who owns which file, and what a reclaimer may rely on when it removes one: the
   inductive invariant behind MutualExclusion, and a property in its own right.
   A running call's process is up and a token is never from a process that has
   not started, so a dead owner's process is down for good. *)
Ownership ==
    /\ \A c \in Call : step[c] \in Holding => fs[0] = c
    /\ \A c \in Call : step[c] \in UnderGuard => fs[level[c] + 1] = c
    /\ \A c \in Call : step[c] = "remove" =>
          /\ fs[level[c]] = seen[c]
          /\ seen[c] # None
          /\ proc[ProcOf[seen[c]]] = "down"
    /\ \A c \in Call : step[c] \notin Finished \cup {"idle"} => proc[ProcOf[c]] = "up"
    /\ \A l \in File : fs[l] # None => proc[ProcOf[fs[l]]] # "new"

LockInv == TypeOK /\ Ownership

(* A file disappears only by the hand of the call that owns it, or after its
   owner's process ended: "a path a live owner re-published in between is never
   removed" (src/src/file-lock.ts:90).  It holds for the guards as for the lock. *)
OwnHand(c, l) ==
    \/ l = 0 /\ step[c] = "unlink"
    \/ step[c] = "unlinkGuard" /\ l = level[c] + 1

LiveOwnerKeepsFile ==
    [][\A l \in File : \A c \in Call :
          fs[l] = c /\ fs'[l] # c => proc[ProcOf[c]] = "down" \/ OwnHand(c, l)]_vars

(* Calls of one process take the lock in the order they registered, also when one
   in the middle of the queue gives up at its deadline while it still waits. *)
InProcessFifo ==
    \A p \in Process : \A j \in 1..Len(line[p]) : \A i \in 1..(j - 1) :
        step[line[p][j]] \notin {"queued"} \cup Finished
            => step[line[p][i]] \in Finished

(* The steps of a call seen from outside. *)
Phase(c) ==
    CASE step[c] \in Holding -> "holding"
      [] step[c] \in Finished -> "finished"
      [] OTHER -> "waiting"

Abstract == INSTANCE AbstractLock WITH phase <- [c \in Call |-> Phase(c)]

(* The file protocol implements the abstract lock: enter alone, at most once. *)
ImplementsLock == Abstract!Spec

(* A call that registered ends: it ran its callback, timed out, failed, or died
   with its process.  With MayExpire = FALSE it ends only by getting the lock, so
   a dead owner's lock file and a dead reclaimer's guard are cleared. *)
EveryCallEnds ==
    \A c \in Call : step[c] = "queued" ~> step[c] \in Finished

=============================================================================
