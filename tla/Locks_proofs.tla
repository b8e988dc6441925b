---------------------------- MODULE Locks_proofs ----------------------------
(***************************************************************************)
(* Proofs about the two locks of the server and what is done under them,   *)
(* for any calls, processes, customers and bounds.  Of the owned file      *)
(* lock: its inductive invariant, mutual exclusion, the protection of live *)
(* owners' files, the order of the in-process queue, and the refinement of *)
(* the abstract lock.  Of the recovery guard of the sale invoices, a lock  *)
(* in memory: what it remembers of the creates with an unknown outcome,    *)
(* that a create does not repeat one of them, and that the reports of the  *)
(* creates are true.                                                       *)
(***************************************************************************)
EXTENDS OwnedFileLock, SaleInvoiceCreate, FiniteSetTheorems, SequenceTheorems,
        WellFoundedInduction, TLAPS

(* The state components have their types: every operation of the lock protocol
   keeps a file's token, a call's position and a queue in range. *)
LEMMA InitType == Init => TypeOK
  BY LockAssumption DEF Init, TypeOK, File, Step

LEMMA ForgetType ==
  ASSUME TypeOK, NEW c \in Call, Forget(c)
  PROVE  /\ level' \in [Call -> {0, 1}]
         /\ seen' \in [Call -> Call \cup {None}]
         /\ result' \in [Call -> {"none", "kept", "removed", "threw"}]
  BY DEF TypeOK, Forget

LEMMA GotoType ==
  ASSUME TypeOK, NEW c \in Call, NEW s \in Step, Goto(c, s)
  PROVE  step' \in [Call -> Step]
  BY DEF TypeOK, Goto

LEMMA LevelType ==
  ASSUME TypeOK, NEW c \in Call
  PROVE  level[c] \in {0, 1} /\ level[c] \in File /\ level[c] + 1 \in File
<1>1. level[c] \in {0, 1}
  BY DEF TypeOK
<1>2. QED
  BY <1>1 DEF File

LEMMA AfterReclaimType ==
  ASSUME NEW c \in Call
  PROVE  AfterReclaim(c) \in {"failed", "publish", "poll"}
  BY DEF AfterReclaim

LEMMA NextType == TypeOK /\ [Next]_vars => TypeOK'
<1> SUFFICES ASSUME TypeOK, [Next]_vars PROVE TypeOK'
  OBVIOUS
<1> USE LockAssumption DEF TypeOK, Step, UnderGuard, Holding, Finished, File, queueVars, reclaimVars
<1>1. ASSUME NEW p \in Process, Start(p) PROVE TypeOK'
  BY <1>1 DEF Start, reclaimVars
<1>2. ASSUME NEW p \in Process, Die(p) PROVE TypeOK'
  BY <1>2 DEF Die, Step, Finished
<1>3. ASSUME NEW c \in Call, Register(c) PROVE TypeOK'
  BY <1>3 DEF Register, Goto, Step, reclaimVars
<1>4. ASSUME NEW c \in Call, Expire(c) PROVE TypeOK'
  BY <1>4 DEF Expire, queueVars, reclaimVars
<1>5. ASSUME NEW c \in Call, Settle(c) PROVE TypeOK'
  BY <1>5 DEF Settle, reclaimVars
<1>6. ASSUME NEW c \in Call, PredecessorDone(c) PROVE TypeOK'
  BY <1>6 DEF PredecessorDone, Goto, Step, queueVars, reclaimVars
<1>7. ASSUME NEW c \in Call, QueueTimeout(c) PROVE TypeOK'
  BY <1>7 DEF QueueTimeout, Goto, Step, Finished, queueVars, reclaimVars
<1>8. ASSUME NEW c \in Call, Publish(c) PROVE TypeOK'
  <2>1. CASE fs[0] = None
    <3>1. /\ fs' = [fs EXCEPT ![0] = c]
          /\ Goto(c, "held")
          /\ UNCHANGED <<queueVars, reclaimVars, expired, faults>>
      BY <1>8, <2>1 DEF Publish
    <3>2. QED
      BY <3>1, GotoType
  <2>2. CASE fs[0] # None
    BY <1>8, <2>2 DEF Publish, Goto
  <2>3. QED
    BY <2>1, <2>2
<1>9. ASSUME NEW c \in Call, Observe(c) PROVE TypeOK'
  <2>1. CASE OwnerDead(fs[level[c]])
    <3>1. level[c] \in File
      OBVIOUS
    <3>2. QED
      <4>1. /\ seen' = [seen EXCEPT ![c] = fs[level[c]]]
            /\ Goto(c, "guard")
            /\ UNCHANGED <<fs, queueVars, level, result, expired, faults>>
        BY <1>9, <2>1 DEF Observe
      <4>2. QED
        BY <3>1, <4>1, GotoType
  <2>2. CASE ~OwnerDead(fs[level[c]])
    <3>1. Forget(c) /\ Goto(c, "poll") /\ UNCHANGED <<fs, queueVars, expired, faults>>
      BY <1>9, <2>2 DEF Observe
    <3>2. QED
      BY <3>1, ForgetType, GotoType
  <2>3. QED
    BY <2>1, <2>2
<1>10. ASSUME NEW c \in Call, Guard(c) PROVE TypeOK'
  <2>1. CASE fs[level[c] + 1] = None
    <3>1. /\ fs' = [fs EXCEPT ![level[c] + 1] = c]
          /\ Goto(c, "recheck")
          /\ UNCHANGED <<queueVars, reclaimVars, expired, faults>>
      BY <1>10, <2>1 DEF Guard
    <3>2. QED
      BY <3>1, GotoType
  <2>2. CASE fs[level[c] + 1] # None /\ level[c] = 0
    <3>1. /\ level' = [level EXCEPT ![c] = 1]
          /\ Goto(c, "observe")
          /\ UNCHANGED <<fs, seen, result, queueVars, expired, faults>>
      BY <1>10, <2>2 DEF Guard
    <3>2. QED
      BY <3>1, GotoType
  <2>3. CASE fs[level[c] + 1] # None /\ level[c] = 1
    <3>1. Forget(c) /\ Goto(c, "poll") /\ UNCHANGED <<fs, queueVars, expired, faults>>
      BY <1>10, <2>3 DEF Guard
    <3>2. QED
      BY <3>1, ForgetType, GotoType
  <2>4. QED
    BY <2>1, <2>2, <2>3
<1>11. ASSUME NEW c \in Call, Recheck(c) PROVE TypeOK'
  BY <1>11 DEF Recheck, Goto, Step, UnderGuard, queueVars
<1>12. ASSUME NEW c \in Call, RemoveFile(c) PROVE TypeOK'
  BY <1>12 DEF RemoveFile, Goto, Step, UnderGuard, File, queueVars
<1>13. ASSUME NEW c \in Call, Unguard(c) PROVE TypeOK'
  <2>1. CASE fs[level[c] + 1] = c
    BY <1>13, <2>1 DEF Unguard, Goto
  <2>2. CASE fs[level[c] + 1] # c
    <3>1. Forget(c) /\ Goto(c, AfterReclaim(c)) /\ UNCHANGED <<fs, queueVars, expired, faults>>
      BY <1>13, <2>2 DEF Unguard
    <3>2. QED
      BY <3>1, ForgetType, GotoType, AfterReclaimType
  <2>3. QED
    BY <2>1, <2>2
<1>14. ASSUME NEW c \in Call, UnlinkGuard(c) PROVE TypeOK'
  BY <1>14, AfterReclaimType
     DEF UnlinkGuard, Forget, Goto, Step, Finished, File, queueVars
<1>15. ASSUME NEW c \in Call, Poll(c) PROVE TypeOK'
  BY <1>15 DEF Poll, Goto, Step, Finished, queueVars, reclaimVars
<1>16. ASSUME NEW c \in Call, CallbackEnds(c) PROVE TypeOK'
  BY <1>16 DEF CallbackEnds, Goto, Step, Holding, queueVars, reclaimVars
<1>17. ASSUME NEW c \in Call, Release(c) PROVE TypeOK'
  BY <1>17 DEF Release, Goto, Step, Holding, Finished, queueVars, reclaimVars
<1>18. ASSUME NEW c \in Call, Unlink(c) PROVE TypeOK'
  BY <1>18 DEF Unlink, Goto, Step, Finished, File, queueVars, reclaimVars
<1>19. ASSUME NEW c \in Call, FileFault(c) PROVE TypeOK'
  <2>1. CASE Goto(c, "failed") /\ Forget(c) /\ UNCHANGED fs
    BY <1>19, <2>1, ForgetType, GotoType DEF FileFault
  <2>2. CASE /\ step[c] \in {"publish", "guard"}
             /\ Goto(c, "failed") /\ Forget(c)
             /\ \E l \in File : fs' = [fs EXCEPT ![l] = c]
    BY <1>19, <2>2, ForgetType, GotoType DEF FileFault
  <2>3. CASE /\ Goto(c, "unguard")
             /\ result' = [result EXCEPT ![c] = "threw"]
             /\ UNCHANGED <<fs, level, seen>>
    BY <1>19, <2>3, GotoType DEF FileFault
  <2>4. ASSUME step[c] \in {"publish", "guard"},
               LET l == IF step[c] = "publish" THEN 0 ELSE level[c] + 1
               IN  fs[l] = None /\ fs' = [fs EXCEPT ![l] = c]
        PROVE  \E l \in File : fs' = [fs EXCEPT ![l] = c]
    <3>1. CASE step[c] = "publish"
      BY <2>4, <3>1
    <3>2. CASE step[c] = "guard"
      <4>1. level[c] + 1 \in File
        BY LevelType, Zenon
      <4>2. step[c] # "publish"
        BY <3>2
      <4>3. fs' = [fs EXCEPT ![level[c] + 1] = c]
        BY <2>4, <4>2, Zenon
      <4>4. QED
        BY <4>1, <4>3
    <3>3. QED
      BY <2>4, <3>1, <3>2
  <2>5. QED
    BY <1>19, <2>1, <2>2, <2>3, <2>4 DEF FileFault
<1>20. CASE UNCHANGED vars
  BY <1>20 DEF vars
<1>21. QED
  BY <1>1, <1>2, <1>3, <1>4, <1>5, <1>6, <1>7, <1>8, <1>9, <1>10, <1>11, <1>12,
     <1>13, <1>14, <1>15, <1>16, <1>17, <1>18, <1>19, <1>20
     DEF Next, CallStep, Acquiring

(* Every reachable state of the lock protocol is well typed. *)
THEOREM TypeCorrect == Spec => []TypeOK
  BY InitType, NextType, PTL DEF Spec

-----------------------------------------------------------------------------
(* A step of a call that leaves the files alone and does not take it to a place
   where it relies on owning one keeps every ownership fact. *)
LEMMA QuietStep ==
  ASSUME TypeOK, Ownership, NEW c \in Call, NEW s \in Step,
         s \notin Holding \cup UnderGuard, proc[ProcOf[c]] = "up",
         Goto(c, s), UNCHANGED <<fs, proc>>,
         \A d \in Call : d # c => level'[d] = level[d] /\ seen'[d] = seen[d]
  PROVE  Ownership'
<1> USE LockAssumption DEF TypeOK, Goto, Ownership
<1>1. \A d \in Call : step'[d] = IF d = c THEN s ELSE step[d]
  OBVIOUS
<1>2. \A d \in Call : step'[d] \in Holding => fs'[0] = d
  BY <1>1
<1>3. \A d \in Call : step'[d] \in UnderGuard => fs'[level'[d] + 1] = d
  BY <1>1
<1>4. \A d \in Call : step'[d] = "remove" =>
         fs'[level'[d]] = seen'[d] /\ seen'[d] # None /\ proc'[ProcOf[seen'[d]]] = "down"
  <2>1. s # "remove"
    BY DEF UnderGuard
  <2>2. QED
    BY <1>1, <2>1
<1>5. \A d \in Call : step'[d] \notin Finished \cup {"idle"} => proc'[ProcOf[d]] = "up"
  BY <1>1
<1>6. \A l \in File : fs'[l] # None => proc'[ProcOf[fs'[l]]] # "new"
  OBVIOUS
<1>7. QED
  BY <1>2, <1>3, <1>4, <1>5, <1>6

(* No reclaimer is about to remove a file whose owner's process is up. *)
LEMMA RemovalTargets ==
  ASSUME TypeOK, Ownership, NEW d \in Call, step[d] = "remove"
  PROVE  /\ fs[level[d]] \in Call
         /\ proc[ProcOf[fs[level[d]]]] = "down"
  BY DEF TypeOK, Ownership

(* A dead owner's process is down: it has started, and it is not up. *)
LEMMA DeadOwnerIsDown ==
  ASSUME TypeOK, Ownership, NEW l \in File, OwnerDead(fs[l])
  PROVE  fs[l] \in Call /\ proc[ProcOf[fs[l]]] = "down"
<1>1. fs[l] \in Call
  BY DEF TypeOK, OwnerDead
<1>2. proc[ProcOf[fs[l]]] \in {"up", "down"}
  BY <1>1, LockAssumption DEF TypeOK, Ownership
<1>3. proc[ProcOf[fs[l]]] # "up"
  BY <1>1, LockAssumption DEF OwnerDead
<1>4. QED
  BY <1>1, <1>2, <1>3

LEMMA StartOwnership ==
  ASSUME TypeOK, Ownership, NEW p \in Process, Start(p)
  PROVE  Ownership'
<1> USE LockAssumption DEF TypeOK, Ownership, Start, reclaimVars
<1>1. \A q \in Process : proc[q] # "new" => proc'[q] = proc[q]
  OBVIOUS
<1>2. \A c \in Call : proc[ProcOf[c]] # "new" => proc'[ProcOf[c]] = proc[ProcOf[c]]
  BY <1>1
<1>3. \A c \in Call : step[c] = "remove" => seen[c] \in Call
  OBVIOUS
<1>4. \A l \in File : fs[l] # None => fs[l] \in Call
  OBVIOUS
<1>5. \A c \in Call : step[c] = "remove" => proc'[ProcOf[seen[c]]] = "down"
  BY <1>2, <1>3
<1>6. \A c \in Call : step[c] \notin Finished \cup {"idle"} => proc'[ProcOf[c]] = "up"
  BY <1>2
<1>7. \A l \in File : fs[l] # None => proc'[ProcOf[fs[l]]] # "new"
  BY <1>2, <1>4
<1>8. QED
  BY <1>5, <1>6, <1>7

LEMMA DieOwnership ==
  ASSUME TypeOK, Ownership, NEW p \in Process, Die(p)
  PROVE  Ownership'
<1> USE LockAssumption DEF TypeOK, Ownership
<1>1. /\ fs' = fs
      /\ proc' = [proc EXCEPT ![p] = "down"]
      /\ \A c \in Call : ProcOf[c] # p => step'[c] = step[c] /\ level'[c] = level[c] /\ seen'[c] = seen[c]
      /\ \A c \in Call : ProcOf[c] = p => step'[c] \in Finished
  BY DEF Die, Finished
<1>2. \A c \in Call : step'[c] \notin Finished \cup {"idle"}
         => ProcOf[c] # p /\ step'[c] = step[c] /\ level'[c] = level[c] /\ seen'[c] = seen[c]
  BY <1>1
<1>3. \A c \in Call : step'[c] \in Holding => fs'[0] = c
  <2>1. \A c \in Call : step[c] \in Holding => fs[0] = c
    OBVIOUS
  <2>2. \A c \in Call : step'[c] \in Holding => step[c] \in Holding
    BY <1>2 DEF Holding, Finished
  <2>3. QED
    BY <1>1, <2>1, <2>2
<1>4. \A c \in Call : step'[c] \in UnderGuard => fs'[level'[c] + 1] = c
  <2>1. \A c \in Call : step[c] \in UnderGuard => fs[level[c] + 1] = c
    OBVIOUS
  <2>2. \A c \in Call : step'[c] \in UnderGuard => step[c] \in UnderGuard /\ level'[c] = level[c]
    BY <1>2 DEF UnderGuard, Finished
  <2>3. QED
    BY <1>1, <2>1, <2>2
<1>5. \A q \in Process : proc[q] # "new" => proc'[q] # "new"
  BY <1>1
<1>6. \A q \in Process : proc[q] = "down" => proc'[q] = "down"
  BY <1>1
<1>7. \A c \in Call : step'[c] = "remove" =>
         fs'[level'[c]] = seen'[c] /\ seen'[c] # None /\ proc'[ProcOf[seen'[c]]] = "down"
  <2> SUFFICES ASSUME NEW c \in Call, step'[c] = "remove"
               PROVE  fs'[level'[c]] = seen'[c] /\ seen'[c] # None
                        /\ proc'[ProcOf[seen'[c]]] = "down"
    OBVIOUS
  <2>1. step[c] = "remove" /\ level'[c] = level[c] /\ seen'[c] = seen[c]
    BY <1>2 DEF Finished
  <2>2. seen[c] \in Call /\ proc[ProcOf[seen[c]]] = "down" /\ fs[level[c]] = seen[c]
    BY <2>1
  <2>3. QED
    BY <1>1, <1>6, <2>1, <2>2
<1>8. \A c \in Call : step'[c] \notin Finished \cup {"idle"} => proc'[ProcOf[c]] = "up"
  BY <1>1, <1>2
<1>9. \A l \in File : fs'[l] # None => proc'[ProcOf[fs'[l]]] # "new"
  BY <1>1, <1>5
<1>10. QED
  BY <1>3, <1>4, <1>7, <1>8, <1>9

(* A call puts its token into a file that nobody owned. *)
LEMMA PublishOwnership ==
  ASSUME TypeOK, Ownership, NEW c \in Call, NEW l \in File, NEW s \in Step,
         fs[l] = None, fs' = [fs EXCEPT ![l] = c], UNCHANGED <<proc>>,
         proc[ProcOf[c]] = "up", step[c] \notin Holding \cup UnderGuard,
         Goto(c, s),
         \/ s \notin Holding \cup UnderGuard
         \/ s = "held" /\ l = 0
         \/ s = "recheck" /\ l = level[c] + 1 /\ level'[c] = level[c],
         \A d \in Call : d # c => level'[d] = level[d] /\ seen'[d] = seen[d]
  PROVE  Ownership'
<1> USE LockAssumption DEF TypeOK, Goto, Ownership
<1>1. \A d \in Call : step'[d] = IF d = c THEN s ELSE step[d]
  OBVIOUS
<1>2. \A m \in File : fs'[m] = IF m = l THEN c ELSE fs[m]
  OBVIOUS
<1>3. \A m \in File : fs[m] # None => fs'[m] = fs[m]
  BY <1>2
<1>4. \A d \in Call : step'[d] \in Holding => fs'[0] = d
  <2> SUFFICES ASSUME NEW d \in Call, step'[d] \in Holding PROVE fs'[0] = d
    OBVIOUS
  <2>1. CASE d = c
    BY <1>1, <1>2, <2>1 DEF Holding, File, UnderGuard
  <2>2. CASE d # c
    BY <1>1, <1>3, <2>2 DEF File
  <2>3. QED
    BY <2>1, <2>2
<1>5. \A d \in Call : step'[d] \in UnderGuard => fs'[level'[d] + 1] = d
  <2> SUFFICES ASSUME NEW d \in Call, step'[d] \in UnderGuard PROVE fs'[level'[d] + 1] = d
    OBVIOUS
  <2>1. CASE d = c
    BY <1>1, <1>2, <2>1 DEF Holding, UnderGuard
  <2>2. CASE d # c
    <3>1. level[d] + 1 \in File /\ level'[d] = level[d] /\ fs[level[d] + 1] = d
      BY <1>1, <2>2, LevelType
    <3>2. QED
      BY <1>3, <3>1
  <2>3. QED
    BY <2>1, <2>2
<1>6. \A d \in Call : step'[d] = "remove" =>
         fs'[level'[d]] = seen'[d] /\ seen'[d] # None /\ proc'[ProcOf[seen'[d]]] = "down"
  <2> SUFFICES ASSUME NEW d \in Call, step'[d] = "remove"
               PROVE  fs'[level'[d]] = seen'[d] /\ seen'[d] # None
                        /\ proc'[ProcOf[seen'[d]]] = "down"
    OBVIOUS
  <2>1. d # c
    BY <1>1 DEF Holding, UnderGuard
  <2>2. step[d] = "remove" /\ level'[d] = level[d] /\ seen'[d] = seen[d] /\ level[d] \in File
    BY <1>1, <2>1, LevelType
  <2>3. QED
    BY <1>3, <2>2
<1>7. \A d \in Call : step'[d] \notin Finished \cup {"idle"} => proc'[ProcOf[d]] = "up"
  BY <1>1
<1>8. \A m \in File : fs'[m] # None => proc'[ProcOf[fs'[m]]] # "new"
  BY <1>2
<1>9. QED
  BY <1>4, <1>5, <1>6, <1>7, <1>8

(* A call removes a file: nobody else relies on it. *)
LEMMA UnlinkOwnership ==
  ASSUME TypeOK, Ownership, NEW c \in Call, NEW l \in File, NEW s \in Step,
         fs' = [fs EXCEPT ![l] = None], UNCHANGED <<proc>>,
         proc[ProcOf[c]] = "up",
         Goto(c, s), s \notin Holding, s # "remove",
         s \in UnderGuard => level[c] + 1 # l /\ level'[c] = level[c] /\ step[c] \in UnderGuard,
         \A d \in Call : d # c => level'[d] = level[d] /\ seen'[d] = seen[d],
         \A d \in Call : d # c => ~(step[d] \in Holding /\ l = 0),
         \A d \in Call : d # c => ~(step[d] \in UnderGuard /\ l = level[d] + 1),
         \A d \in Call : d # c => ~(step[d] = "remove" /\ l = level[d])
  PROVE  Ownership'
<1> USE LockAssumption DEF TypeOK, Goto, Ownership
<1>1. \A d \in Call : step'[d] = IF d = c THEN s ELSE step[d]
  OBVIOUS
<1>2. \A m \in File : m # l => fs'[m] = fs[m]
  OBVIOUS
<1>3. \A d \in Call : step'[d] \in Holding => fs'[0] = d
  <2> SUFFICES ASSUME NEW d \in Call, step'[d] \in Holding PROVE fs'[0] = d
    OBVIOUS
  <2>1. d # c /\ step[d] \in Holding
    BY <1>1
  <2>2. l # 0 /\ 0 \in File /\ fs[0] = d
    BY <2>1 DEF File
  <2>3. QED
    BY <1>2, <2>2
<1>4. \A d \in Call : step'[d] \in UnderGuard => fs'[level'[d] + 1] = d
  <2> SUFFICES ASSUME NEW d \in Call, step'[d] \in UnderGuard PROVE fs'[level'[d] + 1] = d
    OBVIOUS
  <2>1. step[d] \in UnderGuard /\ level'[d] = level[d] /\ l # level[d] + 1
    BY <1>1
  <2>2. level[d] + 1 \in File /\ fs[level[d] + 1] = d
    BY <2>1, LevelType
  <2>3. QED
    BY <1>2, <2>1, <2>2
<1>5. \A d \in Call : step'[d] = "remove" =>
         fs'[level'[d]] = seen'[d] /\ seen'[d] # None /\ proc'[ProcOf[seen'[d]]] = "down"
  <2> SUFFICES ASSUME NEW d \in Call, step'[d] = "remove"
               PROVE  fs'[level'[d]] = seen'[d] /\ seen'[d] # None
                        /\ proc'[ProcOf[seen'[d]]] = "down"
    OBVIOUS
  <2>1. step[d] = "remove" /\ level'[d] = level[d] /\ seen'[d] = seen[d] /\ l # level[d]
    BY <1>1
  <2>2. level[d] \in File
    BY LevelType
  <2>3. QED
    BY <1>2, <2>1, <2>2
<1>6. \A d \in Call : step'[d] \notin Finished \cup {"idle"} => proc'[ProcOf[d]] = "up"
  BY <1>1
<1>7. \A m \in File : fs'[m] # None => proc'[ProcOf[fs'[m]]] # "new"
  OBVIOUS
<1>8. QED
  BY <1>3, <1>4, <1>5, <1>6, <1>7

(* A call moves on without touching a file while it owns what it relies on. *)
LEMMA AdvanceOwnership ==
  ASSUME TypeOK, Ownership, NEW c \in Call, NEW s \in Step,
         Goto(c, s), UNCHANGED <<fs, proc, level, seen>>,
         proc[ProcOf[c]] = "up",
         s \in Holding => fs[0] = c,
         s \in UnderGuard => fs[level[c] + 1] = c,
         s = "remove" => /\ fs[level[c]] = seen[c] /\ seen[c] # None
                         /\ proc[ProcOf[seen[c]]] = "down"
  PROVE  Ownership'
<1> USE LockAssumption DEF TypeOK, Goto, Ownership
<1>1. \A d \in Call : step'[d] = IF d = c THEN s ELSE step[d]
  OBVIOUS
<1>2. QED
  BY <1>1

(* Where the removals of UnlinkOwnership find nobody else who relies on l. *)
LEMMA OwnerAlone ==
  ASSUME TypeOK, Ownership, NEW c \in Call, NEW l \in File, fs[l] = c,
         proc[ProcOf[c]] = "up", NEW d \in Call, d # c
  PROVE  /\ ~(step[d] \in Holding /\ l = 0)
         /\ ~(step[d] \in UnderGuard /\ l = level[d] + 1)
         /\ ~(step[d] = "remove" /\ l = level[d])
  BY DEF Ownership

LEMMA RemoveOwnership ==
  ASSUME TypeOK, Ownership, NEW c \in Call, RemoveFile(c)
  PROVE  Ownership'
<1>1. /\ step[c] = "remove" /\ proc[ProcOf[c]] = "up"
      /\ fs' = [fs EXCEPT ![level[c]] = None]
      /\ Goto(c, "unguard")
      /\ UNCHANGED <<proc, level, seen>>
  BY DEF RemoveFile, Runs, queueVars
<1>2. fs[level[c]] \in Call /\ proc[ProcOf[fs[level[c]]]] = "down"
  BY <1>1, RemovalTargets
<1>3. level[c] \in {0, 1} /\ level[c] \in File /\ level[c] + 1 \in File
  BY LevelType
<1>4. ASSUME NEW d \in Call, d # c
      PROVE  /\ ~(step[d] \in Holding /\ level[c] = 0)
             /\ ~(step[d] \in UnderGuard /\ level[c] = level[d] + 1)
             /\ ~(step[d] = "remove" /\ level[c] = level[d])
  <2>1. ~(step[d] \in Holding /\ level[c] = 0)
    BY <1>2 DEF Ownership, Holding, Finished
  <2>2. ~(step[d] \in UnderGuard /\ level[c] = level[d] + 1)
    BY <1>2 DEF Ownership, UnderGuard, Finished
  <2>3. ~(step[d] = "remove" /\ level[c] = level[d])
    BY <1>1, <1>4 DEF Ownership, UnderGuard
  <2>4. QED
    BY <2>1, <2>2, <2>3
<1>5. "unguard" \in Step /\ "unguard" \notin Holding /\ step[c] \in UnderGuard
  BY <1>1 DEF Step, UnderGuard, Holding
<1>6. level[c] + 1 # level[c]
  BY <1>3
<1>7. QED
  BY <1>1, <1>3, <1>4, <1>5, <1>6, UnlinkOwnership

LEMMA UnlinkGuardOwnership ==
  ASSUME TypeOK, Ownership, NEW c \in Call, UnlinkGuard(c)
  PROVE  Ownership'
<1>1. /\ step[c] = "unlinkGuard" /\ proc[ProcOf[c]] = "up"
      /\ fs' = [fs EXCEPT ![level[c] + 1] = None]
      /\ Goto(c, AfterReclaim(c)) /\ Forget(c)
      /\ UNCHANGED proc
  BY DEF UnlinkGuard, Runs, queueVars
<1>2. level[c] + 1 \in File /\ fs[level[c] + 1] = c
  BY <1>1, LevelType DEF Ownership, UnderGuard
<1>3. \A d \in Call : d # c => level'[d] = level[d] /\ seen'[d] = seen[d]
  BY <1>1 DEF Forget, TypeOK
<1>4. AfterReclaim(c) \in Step /\ AfterReclaim(c) \notin Holding \cup UnderGuard
  BY AfterReclaimType DEF Step, Holding, UnderGuard, Finished
<1>5. AfterReclaim(c) # "remove"
  BY <1>4 DEF UnderGuard
<1>6. ASSUME NEW d \in Call, d # c
      PROVE  /\ ~(step[d] \in Holding /\ level[c] + 1 = 0)
             /\ ~(step[d] \in UnderGuard /\ level[c] + 1 = level[d] + 1)
             /\ ~(step[d] = "remove" /\ level[c] + 1 = level[d])
  BY <1>1, <1>2, <1>6, OwnerAlone
<1>7. QED
  BY <1>1, <1>2, <1>3, <1>4, <1>5, <1>6, UnlinkOwnership

LEMMA UnlinkFileOwnership ==
  ASSUME TypeOK, Ownership, NEW c \in Call, Unlink(c)
  PROVE  Ownership'
<1>1. /\ step[c] = "unlink" /\ proc[ProcOf[c]] = "up"
      /\ fs' = [fs EXCEPT ![0] = None]
      /\ Goto(c, "over")
      /\ UNCHANGED <<proc, level, seen>>
  BY DEF Unlink, Runs, queueVars, reclaimVars
<1>2. 0 \in File /\ fs[0] = c
  BY <1>1 DEF Ownership, Holding, File
<1>3. "over" \in Step /\ "over" \notin Holding \cup UnderGuard /\ "over" # "remove"
  BY DEF Step, Holding, UnderGuard, Finished
<1>4. ASSUME NEW d \in Call, d # c
      PROVE  /\ ~(step[d] \in Holding /\ 0 = 0)
             /\ ~(step[d] \in UnderGuard /\ 0 = level[d] + 1)
             /\ ~(step[d] = "remove" /\ 0 = level[d])
  BY <1>1, <1>2, <1>4, OwnerAlone
<1>5. QED
  BY <1>1, <1>2, <1>3, <1>4, UnlinkOwnership

LEMMA PublishStepOwnership ==
  ASSUME TypeOK, Ownership, NEW c \in Call, Publish(c)
  PROVE  Ownership'
<1>1. /\ step[c] = "publish" /\ proc[ProcOf[c]] = "up"
      /\ UNCHANGED <<proc, level, seen>>
  BY DEF Publish, Runs, queueVars, reclaimVars
<1>2. {"held", "observe"} \subseteq Step /\ "observe" \notin Holding \cup UnderGuard
        /\ step[c] \notin Holding \cup UnderGuard /\ 0 \in File
  BY <1>1 DEF Step, Holding, UnderGuard, File
<1>3. CASE fs[0] = None
  <2>1. fs' = [fs EXCEPT ![0] = c] /\ Goto(c, "held")
    BY <1>3 DEF Publish
  <2>2. QED
    BY <1>1, <1>2, <1>3, <2>1, PublishOwnership
<1>4. CASE fs[0] # None
  <2>1. UNCHANGED fs /\ Goto(c, "observe")
    BY <1>4 DEF Publish
  <2>2. QED
    BY <1>1, <1>2, <2>1, QuietStep
<1>5. QED
  BY <1>3, <1>4

LEMMA ObserveOwnership ==
  ASSUME TypeOK, Ownership, NEW c \in Call, Observe(c)
  PROVE  Ownership'
<1>1. proc[ProcOf[c]] = "up" /\ UNCHANGED <<fs, proc>>
  BY DEF Observe, Runs, queueVars
<1>2. {"guard", "poll"} \subseteq Step /\ {"guard", "poll"} \cap (Holding \cup UnderGuard) = {}
  BY DEF Step, Holding, UnderGuard
<1>3. CASE OwnerDead(fs[level[c]])
  <2>1. /\ seen' = [seen EXCEPT ![c] = fs[level[c]]]
        /\ Goto(c, "guard") /\ UNCHANGED level
    BY <1>3 DEF Observe
  <2>2. \A d \in Call : d # c => level'[d] = level[d] /\ seen'[d] = seen[d]
    BY <2>1 DEF TypeOK
  <2>3. QED
    BY <1>1, <1>2, <2>1, <2>2, QuietStep
<1>4. CASE ~OwnerDead(fs[level[c]])
  <2>1. Forget(c) /\ Goto(c, "poll")
    BY <1>4 DEF Observe
  <2>2. \A d \in Call : d # c => level'[d] = level[d] /\ seen'[d] = seen[d]
    BY <2>1 DEF TypeOK, Forget
  <2>3. QED
    BY <1>1, <1>2, <2>1, <2>2, QuietStep
<1>5. QED
  BY <1>3, <1>4

LEMMA GuardOwnership ==
  ASSUME TypeOK, Ownership, NEW c \in Call, Guard(c)
  PROVE  Ownership'
<1>1. step[c] = "guard" /\ proc[ProcOf[c]] = "up" /\ UNCHANGED proc
  BY DEF Guard, Runs, queueVars
<1>2. /\ {"recheck", "observe", "poll"} \subseteq Step
      /\ {"guard", "observe", "poll"} \cap (Holding \cup UnderGuard) = {}
  BY DEF Step, Holding, UnderGuard
<1>3. level[c] \in {0, 1} /\ level[c] + 1 \in File
  BY LevelType
<1>4. CASE fs[level[c] + 1] = None
  <2>1. fs' = [fs EXCEPT ![level[c] + 1] = c] /\ Goto(c, "recheck") /\ UNCHANGED <<level, seen>>
    BY <1>4 DEF Guard, reclaimVars
  <2>2. QED
    BY <1>1, <1>2, <1>3, <1>4, <2>1, PublishOwnership
<1>5. CASE fs[level[c] + 1] # None /\ level[c] = 0
  <2>1. Goto(c, "observe") /\ UNCHANGED <<fs, seen>> /\ level' = [level EXCEPT ![c] = 1]
    BY <1>5 DEF Guard
  <2>2. \A d \in Call : d # c => level'[d] = level[d] /\ seen'[d] = seen[d]
    BY <2>1 DEF TypeOK
  <2>3. QED
    BY <1>1, <1>2, <2>1, <2>2, QuietStep
<1>6. CASE fs[level[c] + 1] # None /\ level[c] = 1
  <2>1. Goto(c, "poll") /\ UNCHANGED fs /\ Forget(c)
    BY <1>6 DEF Guard
  <2>2. \A d \in Call : d # c => level'[d] = level[d] /\ seen'[d] = seen[d]
    BY <2>1 DEF TypeOK, Forget
  <2>3. QED
    BY <1>1, <1>2, <2>1, <2>2, QuietStep
<1>7. QED
  BY <1>3, <1>4, <1>5, <1>6

LEMMA RecheckOwnership ==
  ASSUME TypeOK, Ownership, NEW c \in Call, Recheck(c)
  PROVE  Ownership'
<1>1. step[c] = "recheck" /\ proc[ProcOf[c]] = "up" /\ UNCHANGED <<fs, proc, level, seen>>
  BY DEF Recheck, Runs, queueVars
<1>2. {"remove", "unguard"} \subseteq Step /\ {"remove", "unguard"} \cap Holding = {}
  BY DEF Step, UnderGuard, Holding
<1>3. fs[level[c] + 1] = c
  BY <1>1 DEF Ownership, UnderGuard
<1>4. CASE fs[level[c]] = seen[c] /\ OwnerDead(seen[c])
  <2>1. Goto(c, "remove")
    BY <1>4 DEF Recheck
  <2>2. seen[c] # None /\ proc[ProcOf[seen[c]]] = "down"
    BY <1>4, LevelType, DeadOwnerIsDown DEF OwnerDead
  <2>3. QED
    BY <1>1, <1>2, <1>3, <1>4, <2>1, <2>2, AdvanceOwnership
<1>5. CASE ~(fs[level[c]] = seen[c] /\ OwnerDead(seen[c]))
  <2>1. Goto(c, "unguard")
    BY <1>5 DEF Recheck
  <2>2. QED
    BY <1>1, <1>2, <1>3, <2>1, AdvanceOwnership
<1>6. QED
  BY <1>4, <1>5

LEMMA UnguardOwnership ==
  ASSUME TypeOK, Ownership, NEW c \in Call, Unguard(c)
  PROVE  Ownership'
<1>1. step[c] = "unguard" /\ proc[ProcOf[c]] = "up" /\ UNCHANGED <<fs, proc>>
  BY DEF Unguard, Runs, queueVars
<1>2. CASE fs[level[c] + 1] = c
  <2>1. Goto(c, "unlinkGuard") /\ UNCHANGED <<level, seen>>
    BY <1>2 DEF Unguard, reclaimVars
  <2>2. "unlinkGuard" \in Step /\ "unlinkGuard" \notin Holding
    BY DEF Step, UnderGuard, Holding
  <2>3. QED
    BY <1>1, <1>2, <2>1, <2>2, AdvanceOwnership
<1>3. CASE fs[level[c] + 1] # c
  BY <1>1, <1>3 DEF Ownership, UnderGuard
<1>4. QED
  BY <1>2, <1>3

LEMMA FaultOwnership ==
  ASSUME TypeOK, Ownership, NEW c \in Call, FileFault(c)
  PROVE  Ownership'
<1>1. proc[ProcOf[c]] = "up" /\ UNCHANGED proc
  BY DEF FileFault, queueVars
<1>2. {"failed", "unguard"} \subseteq Step /\ "failed" \notin Holding \cup UnderGuard
        /\ "unguard" \notin Holding
  BY DEF Step, Finished, Holding, UnderGuard
<1>3. Forget(c) => \A d \in Call : d # c => level'[d] = level[d] /\ seen'[d] = seen[d]
  BY DEF Forget, TypeOK
<1>4. CASE Goto(c, "failed") /\ Forget(c) /\ UNCHANGED fs
  BY <1>1, <1>2, <1>3, <1>4, QuietStep
<1>5. ASSUME step[c] \in {"publish", "guard"}, Goto(c, "failed"), Forget(c),
             NEW l \in File, fs[l] = None, fs' = [fs EXCEPT ![l] = c]
      PROVE  Ownership'
  <2>1. step[c] \notin Holding \cup UnderGuard
    BY <1>5 DEF Holding, UnderGuard
  <2>2. QED
    BY <1>1, <1>2, <1>3, <1>5, <2>1, PublishOwnership
<1>6. CASE /\ step[c] \in {"recheck", "remove"} /\ Goto(c, "unguard")
           /\ UNCHANGED <<fs, level, seen>>
  <2>1. fs[level[c] + 1] = c
    BY <1>6 DEF Ownership, UnderGuard
  <2>2. QED
    BY <1>1, <1>2, <1>6, <2>1, AdvanceOwnership
<1>7. ASSUME step[c] \in {"publish", "guard"},
             LET l == IF step[c] = "publish" THEN 0 ELSE level[c] + 1
             IN  fs[l] = None /\ fs' = [fs EXCEPT ![l] = c]
      PROVE  \E l \in File : fs[l] = None /\ fs' = [fs EXCEPT ![l] = c]
  <2>1. CASE step[c] = "publish"
    BY <1>7, <2>1 DEF File
  <2>2. CASE step[c] = "guard"
    <3>1. step[c] # "publish"
      BY <2>2
    <3>2. fs[level[c] + 1] = None /\ fs' = [fs EXCEPT ![level[c] + 1] = c]
      BY <1>7, <3>1, Zenon
    <3>3. QED
      BY <3>2, LevelType
  <2>3. QED
    BY <1>7, <2>1, <2>2
<1>8. QED
  BY <1>4, <1>5, <1>6, <1>7 DEF FileFault

LEMMA InitOwnership == Init => Ownership
  BY LockAssumption DEF Init, Ownership, Holding, UnderGuard, Finished

(* A step that moves call c to s without touching files or locals of a reclaim. *)
LEMMA MoveOwnership ==
  ASSUME TypeOK, Ownership, NEW c \in Call, NEW s \in Step, Goto(c, s),
         s \notin Holding \cup UnderGuard, proc[ProcOf[c]] = "up",
         UNCHANGED <<fs, proc, level, seen>>
  PROVE  Ownership'
  BY QuietStep

LEMMA NextOwnership == TypeOK /\ Ownership /\ [Next]_vars => Ownership'
<1> SUFFICES ASSUME TypeOK, Ownership, [Next]_vars PROVE Ownership'
  OBVIOUS
<1>1. ASSUME NEW p \in Process, Start(p) PROVE Ownership'
  BY <1>1, StartOwnership
<1>2. ASSUME NEW p \in Process, Die(p) PROVE Ownership'
  BY <1>2, DieOwnership
<1>3. ASSUME NEW c \in Call, Register(c) PROVE Ownership'
  <2>1. /\ proc[ProcOf[c]] = "up" /\ Goto(c, "queued") /\ UNCHANGED <<fs, proc, level, seen>>
        /\ "queued" \in Step /\ "queued" \notin Holding \cup UnderGuard
    BY <1>3 DEF Register, Runs, reclaimVars, Step, Holding, UnderGuard
  <2>2. QED
    BY <2>1, MoveOwnership
<1>4. ASSUME NEW c \in Call, Expire(c) \/ Settle(c) PROVE Ownership'
  BY <1>4 DEF Expire, Settle, queueVars, reclaimVars, Ownership
<1>5. ASSUME NEW c \in Call, PredecessorDone(c) PROVE Ownership'
  <2>1. /\ proc[ProcOf[c]] = "up" /\ Goto(c, "publish") /\ UNCHANGED <<fs, proc, level, seen>>
        /\ "publish" \in Step /\ "publish" \notin Holding \cup UnderGuard
    BY <1>5 DEF PredecessorDone, Runs, queueVars, reclaimVars, Step, Holding, UnderGuard
  <2>2. QED
    BY <2>1, MoveOwnership
<1>6. ASSUME NEW c \in Call, QueueTimeout(c) PROVE Ownership'
  <2>1. /\ proc[ProcOf[c]] = "up" /\ Goto(c, "busy") /\ UNCHANGED <<fs, proc, level, seen>>
        /\ "busy" \in Step /\ "busy" \notin Holding \cup UnderGuard
    BY <1>6 DEF QueueTimeout, Runs, queueVars, reclaimVars, Step, Holding, UnderGuard, Finished
  <2>2. QED
    BY <2>1, MoveOwnership
<1>7. ASSUME NEW c \in Call, Acquiring(c) PROVE Ownership'
  <2>1. CASE Poll(c)
    <3>1. /\ proc[ProcOf[c]] = "up" /\ UNCHANGED <<fs, proc, level, seen>>
          /\ Goto(c, "busy") \/ Goto(c, "publish")
          /\ {"busy", "publish"} \subseteq Step
          /\ {"busy", "publish"} \cap (Holding \cup UnderGuard) = {}
      BY <2>1 DEF Poll, Runs, queueVars, reclaimVars, Step, Holding, UnderGuard, Finished
    <3>2. QED
      BY <3>1, MoveOwnership
  <2>2. QED
    BY <1>7, <2>1, PublishStepOwnership, ObserveOwnership, GuardOwnership, RecheckOwnership,
       RemoveOwnership, UnguardOwnership, UnlinkGuardOwnership DEF Acquiring
<1>8. ASSUME NEW c \in Call, CallbackEnds(c) PROVE Ownership'
  <2>1. /\ step[c] = "held" /\ proc[ProcOf[c]] = "up" /\ Goto(c, "release")
        /\ UNCHANGED <<fs, proc, level, seen>>
    BY <1>8 DEF CallbackEnds, Runs, queueVars, reclaimVars
  <2>2. "release" \in Step /\ "release" \notin UnderGuard /\ "release" # "remove" /\ fs[0] = c
    BY <2>1 DEF Step, Holding, UnderGuard, Ownership
  <2>3. QED
    BY <2>1, <2>2, AdvanceOwnership
<1>9. ASSUME NEW c \in Call, Release(c) PROVE Ownership'
  <2>1. /\ step[c] = "release" /\ proc[ProcOf[c]] = "up" /\ UNCHANGED <<fs, proc, level, seen>>
    BY <1>9 DEF Release, Runs, queueVars, reclaimVars
  <2>2. fs[0] = c
    BY <2>1 DEF Holding, Ownership
  <2>3. Goto(c, "unlink")
    BY <1>9, <2>2 DEF Release
  <2>4. "unlink" \in Step /\ "unlink" \notin UnderGuard /\ "unlink" # "remove"
    BY DEF Step, Holding, UnderGuard
  <2>5. QED
    BY <2>1, <2>2, <2>3, <2>4, AdvanceOwnership
<1>10. ASSUME NEW c \in Call, Unlink(c) PROVE Ownership'
  BY <1>10, UnlinkFileOwnership
<1>11. ASSUME NEW c \in Call, FileFault(c) PROVE Ownership'
  BY <1>11, FaultOwnership
<1>12. CASE UNCHANGED vars
  BY <1>12 DEF vars, Ownership
<1>13. QED
  BY <1>1, <1>2, <1>3, <1>4, <1>5, <1>6, <1>7, <1>8, <1>9, <1>10, <1>11, <1>12
     DEF Next, CallStep

(* Every holder owns the lock file, every reclaimer its guard, and a reclaimer
   about to remove a file sees a dead owner's token in it. *)
THEOREM LockInvariant == Spec => []LockInv
<1>1. Init => LockInv
  BY InitType, InitOwnership DEF LockInv
<1>2. LockInv /\ [Next]_vars => LockInv'
  BY NextType, NextOwnership DEF LockInv
<1>3. QED
  BY <1>1, <1>2, PTL DEF Spec

(* Two calls never hold the lock at the same time, across processes, crashes,
   reclaims and reused pids. *)
THEOREM LockMutualExclusion == Spec => []MutualExclusion
<1>1. LockInv => MutualExclusion
  BY DEF LockInv, Ownership, MutualExclusion
<1>2. QED
  BY <1>1, LockInvariant, PTL

-----------------------------------------------------------------------------
(* The only steps that take a token out of a file. *)
Removal(d) == RemoveFile(d) \/ UnlinkGuard(d) \/ Unlink(d)

LEMMA FileChange ==
  ASSUME TypeOK, [Next]_vars
  PROVE  \/ fs' = fs
         \/ \E c \in Call, l \in File : fs[l] = None /\ fs' = [fs EXCEPT ![l] = c]
         \/ \E d \in Call : Removal(d)
<1> DEFINE Filled == \E c \in Call, l \in File : fs[l] = None /\ fs' = [fs EXCEPT ![l] = c]
<1>1. ASSUME NEW p \in Process, Start(p) \/ Die(p) PROVE fs' = fs
  BY <1>1 DEF Start, Die
<1>2. ASSUME NEW c \in Call, Register(c) \/ Expire(c) PROVE fs' = fs
  BY <1>2 DEF Register, Expire
<1>3. ASSUME NEW c \in Call,
             Settle(c) \/ PredecessorDone(c) \/ QueueTimeout(c) \/ CallbackEnds(c) \/ Release(c)
      PROVE  fs' = fs
  BY <1>3 DEF Settle, PredecessorDone, QueueTimeout, CallbackEnds, Release
<1>4. ASSUME NEW c \in Call, Observe(c) \/ Recheck(c) \/ Unguard(c) \/ Poll(c) PROVE fs' = fs
  BY <1>4 DEF Observe, Recheck, Unguard, Poll
<1>5. ASSUME NEW c \in Call, Publish(c) PROVE fs' = fs \/ Filled
  BY <1>5 DEF Publish, File
<1>6. ASSUME NEW c \in Call, Guard(c) PROVE fs' = fs \/ Filled
  BY <1>6, LevelType DEF Guard
<1>7. ASSUME NEW c \in Call, FileFault(c) PROVE fs' = fs \/ Filled
  <2>1. ASSUME step[c] \in {"publish", "guard"},
               LET l == IF step[c] = "publish" THEN 0 ELSE level[c] + 1
               IN  fs[l] = None /\ fs' = [fs EXCEPT ![l] = c]
        PROVE  Filled
    <3>1. CASE step[c] = "publish"
      <4>1. fs[0] = None /\ fs' = [fs EXCEPT ![0] = c]
        BY <2>1, <3>1, Zenon
      <4>2. 0 \in File
        BY DEF File
      <4>3. QED
        BY <4>1, <4>2
    <3>2. CASE step[c] = "guard"
      <4>1. step[c] # "publish"
        BY <3>2
      <4>2. fs[level[c] + 1] = None /\ fs' = [fs EXCEPT ![level[c] + 1] = c]
        BY <2>1, <4>1, Zenon
      <4>3. QED
        BY <4>2, LevelType
    <3>3. QED
      BY <2>1, <3>1, <3>2
  <2>2. QED
    BY <1>7, <2>1 DEF FileFault
<1>8. CASE UNCHANGED vars
  BY <1>8 DEF vars
<1>9. QED
  BY <1>1, <1>2, <1>3, <1>4, <1>5, <1>6, <1>7, <1>8
     DEF Next, CallStep, Acquiring, Removal

(* Neither a reclaim nor a release ever removes a token of a running owner, from
   the lock file or from a guard. *)
THEOREM LiveOwnersKeepTheirFiles == Spec => LiveOwnerKeepsFile
<1> DEFINE A == \A l \in File : \A c \in Call :
                  fs[l] = c /\ fs'[l] # c => proc[ProcOf[c]] = "down" \/ OwnHand(c, l)
<1>1. LockInv /\ [Next]_vars => A
  <2> SUFFICES ASSUME LockInv, [Next]_vars, NEW l \in File, NEW c \in Call,
                      fs[l] = c, fs'[l] # c
               PROVE  proc[ProcOf[c]] = "down" \/ OwnHand(c, l)
    OBVIOUS
  <2> USE LockAssumption DEF LockInv
  <2>1. fs' # fs /\ TypeOK /\ Ownership
    OBVIOUS
  <2>2. ~(\E d \in Call, m \in File : fs[m] = None /\ fs' = [fs EXCEPT ![m] = d])
    BY DEF TypeOK
  <2>3. PICK d \in Call : Removal(d)
    BY <2>1, <2>2, FileChange
  <2>4. CASE RemoveFile(d)
    <3>1. step[d] = "remove" /\ fs' = [fs EXCEPT ![level[d]] = None]
      BY <2>4 DEF RemoveFile, Runs
    <3>2. l = level[d]
      BY <3>1 DEF TypeOK
    <3>3. QED
      BY <2>1, <3>1, <3>2, RemovalTargets
  <2>5. CASE UnlinkGuard(d)
    <3>1. step[d] = "unlinkGuard" /\ fs' = [fs EXCEPT ![level[d] + 1] = None]
      BY <2>5 DEF UnlinkGuard, Runs
    <3>2. l = level[d] + 1
      BY <3>1 DEF TypeOK
    <3>3. fs[level[d] + 1] = d
      BY <2>1, <3>1 DEF Ownership, UnderGuard
    <3>4. QED
      BY <3>1, <3>2, <3>3 DEF OwnHand
  <2>6. CASE Unlink(d)
    <3>1. step[d] = "unlink" /\ fs' = [fs EXCEPT ![0] = None]
      BY <2>6 DEF Unlink, Runs
    <3>2. l = 0
      BY <3>1 DEF TypeOK
    <3>3. fs[0] = d
      BY <2>1, <3>1 DEF Ownership, Holding
    <3>4. QED
      BY <3>1, <3>2, <3>3 DEF OwnHand
  <2>7. QED
    BY <2>3, <2>4, <2>5, <2>6 DEF Removal
<1>2. QED
  BY <1>1, LockInvariant, PTL DEF Spec, LiveOwnerKeepsFile

-----------------------------------------------------------------------------
(* A step of one call to s, and every other call stays where it is. *)
LEMMA GotoPhase ==
  ASSUME TypeOK, NEW c \in Call, NEW s, Goto(c, s),
         \/ s \in Finished
         \/ s \in Holding /\ step[c] \in Holding
         \/ s \notin Holding \cup Finished /\ step[c] \notin Holding \cup Finished
  PROVE  \A d \in Call : Phase(d)' \in {Phase(d), "finished"}
<1> SUFFICES ASSUME NEW d \in Call PROVE Phase(d)' \in {Phase(d), "finished"}
  OBVIOUS
<1>1. step'[d] = IF d = c THEN s ELSE step[d]
  BY DEF TypeOK, Goto
<1>2. Holding \cap Finished = {}
  BY DEF Holding, Finished
<1>3. CASE d # c
  BY <1>1, <1>3 DEF Phase
<1>4. CASE d = c
  BY <1>1, <1>2, <1>4 DEF Phase
<1>5. QED
  BY <1>3, <1>4

LEMMA PhaseStep ==
  ASSUME LockInv, [Next]_vars
  PROVE  \/ \E c \in Call : Publish(c) /\ fs[0] = None
         \/ \A d \in Call : Phase(d)' \in {Phase(d), "finished"}
<1> DEFINE Quiet == \A d \in Call : Phase(d)' \in {Phase(d), "finished"}
<1> USE DEF LockInv, Runs, Holding, Finished, UnderGuard
<1>1. step' = step => Quiet
  BY DEF Phase
<1>2. ASSUME NEW p \in Process, Start(p) PROVE Quiet
  BY <1>1, <1>2 DEF Start
<1>3. ASSUME NEW p \in Process, Die(p) PROVE Quiet
  <2>1. \A d \in Call : step'[d] = step[d] \/ step'[d] = "dead"
    BY <1>3 DEF Die
  <2>2. QED
    BY <2>1 DEF Phase
<1>4. ASSUME NEW c \in Call, Register(c) PROVE Quiet
  BY <1>4, GotoPhase DEF Register
<1>5. ASSUME NEW c \in Call, Expire(c) \/ Settle(c) PROVE Quiet
  BY <1>1, <1>5 DEF Expire, Settle
<1>6. ASSUME NEW c \in Call, PredecessorDone(c) \/ QueueTimeout(c) PROVE Quiet
  BY <1>6, GotoPhase DEF PredecessorDone, QueueTimeout
<1>7. ASSUME NEW c \in Call, Publish(c), fs[0] # None PROVE Quiet
  <2>1. step[c] = "publish" /\ Goto(c, "observe")
    BY <1>7 DEF Publish
  <2>2. QED
    BY <2>1, GotoPhase
<1>8. ASSUME NEW c \in Call, Observe(c) PROVE Quiet
  <2>1. step[c] = "observe" /\ (Goto(c, "guard") \/ Goto(c, "poll"))
    BY <1>8 DEF Observe
  <2>2. QED
    BY <2>1, GotoPhase
<1>9. ASSUME NEW c \in Call, Guard(c) PROVE Quiet
  <2>1. step[c] = "guard" /\ (Goto(c, "recheck") \/ Goto(c, "observe") \/ Goto(c, "poll"))
    BY <1>9 DEF Guard
  <2>2. QED
    BY <2>1, GotoPhase
<1>10. ASSUME NEW c \in Call, Recheck(c) \/ RemoveFile(c) PROVE Quiet
  <2>1. step[c] \in {"recheck", "remove"} /\ (Goto(c, "remove") \/ Goto(c, "unguard"))
    BY <1>10 DEF Recheck, RemoveFile
  <2>2. QED
    BY <2>1, GotoPhase
<1>11. ASSUME NEW c \in Call, Unguard(c) \/ UnlinkGuard(c) PROVE Quiet
  <2>1. /\ step[c] \in {"unguard", "unlinkGuard"}
        /\ Goto(c, "unlinkGuard") \/ Goto(c, AfterReclaim(c))
    BY <1>11 DEF Unguard, UnlinkGuard
  <2>2. AfterReclaim(c) \in {"failed", "publish", "poll"}
    BY AfterReclaimType
  <2>3. QED
    BY <2>1, <2>2, GotoPhase
<1>12. ASSUME NEW c \in Call, Poll(c) PROVE Quiet
  BY <1>12, GotoPhase DEF Poll
<1>13. ASSUME NEW c \in Call, CallbackEnds(c) \/ Release(c) \/ Unlink(c) PROVE Quiet
  <2>1. /\ step[c] \in {"held", "release", "unlink"}
        /\ Goto(c, "release") \/ Goto(c, "unlink") \/ Goto(c, "over")
    BY <1>13 DEF CallbackEnds, Release, Unlink
  <2>2. QED
    BY <2>1, GotoPhase
<1>14. ASSUME NEW c \in Call, FileFault(c) PROVE Quiet
  <2>1. Goto(c, "failed") \/ (step[c] \in {"recheck", "remove"} /\ Goto(c, "unguard"))
    BY <1>14 DEF FileFault
  <2>2. QED
    BY <2>1, GotoPhase
<1>15. CASE UNCHANGED vars
  BY <1>1, <1>15 DEF vars
<1>16. QED
  BY <1>2, <1>3, <1>4, <1>5, <1>6, <1>7, <1>8, <1>9, <1>10, <1>11, <1>12, <1>13, <1>14, <1>15
     DEF Next, CallStep, Acquiring

(* The file protocol with its guards, deaths and faults implements the abstract
   lock: each call holds it at most once, alone, and never after it finished. *)
THEOREM LockRefinement == Spec => ImplementsLock
<1>1. Init => Abstract!Init
  BY DEF Init, Abstract!Init, Phase, Holding, Finished
<1>2. LockInv /\ [Next]_vars => [Abstract!Next]_[c \in Call |-> Phase(c)]
  <2> SUFFICES ASSUME LockInv, [Next]_vars PROVE Abstract!Next
    OBVIOUS
  <2> DEFINE ph == [c \in Call |-> Phase(c)]
  <2>1. CASE \E c \in Call : Publish(c) /\ fs[0] = None
    <3>1. PICK c \in Call : Publish(c) /\ fs[0] = None
      BY <2>1
    <3>2. step[c] = "publish" /\ step' = [step EXCEPT ![c] = "held"]
      BY <3>1 DEF Publish, Runs, Goto
    <3>3. \A d \in Call : step'[d] = IF d = c THEN "held" ELSE step[d]
      BY <3>2 DEF LockInv, TypeOK
    <3>4. Phase(c) = "waiting" /\ Phase(c)' = "holding"
      BY <3>2, <3>3 DEF Phase, Holding, Finished
    <3>5. \A d \in Call : step[d] \notin Holding
      BY <3>1, LockAssumption DEF LockInv, Ownership
    <3>6. \A d \in Call : Phase(d) # "holding"
      BY <3>5 DEF Phase
    <3>7. \A d \in Call : d # c => Phase(d)' = Phase(d)
      BY <3>3 DEF Phase
    <3>8. ph' = [ph EXCEPT ![c] = "holding"]
      BY <3>4, <3>7
    <3>9. Abstract!Enter(c)
      BY <3>4, <3>6, <3>8 DEF Abstract!Enter
    <3>10. QED
      BY <3>9 DEF Abstract!Next
  <2>2. CASE \A d \in Call : Phase(d)' \in {Phase(d), "finished"}
    <3> DEFINE S == {d \in Call : Phase(d)' = "finished"}
    <3>1. ph' = [c \in Call |-> IF c \in S THEN "finished" ELSE ph[c]]
      BY <2>2
    <3>2. S \in SUBSET Call /\ Abstract!Finish(S)
      BY <3>1 DEF Abstract!Finish
    <3>3. QED
      BY <3>2 DEF Abstract!Next
  <2>3. QED
    BY <2>1, <2>2, PhaseStep
<1>3. QED
  BY <1>1, <1>2, LockInvariant, PTL DEF Spec, ImplementsLock, Abstract!Spec

-----------------------------------------------------------------------------
(* The in-process queue.  What makes a tail promise mean what its waiter takes it
   for: it resolves only when everyone before it in the line has ended. *)

(* The call at position i of the line of process p. *)
At(p, i) == line[p][i]

(* c has left the line behind it, or has not come to it yet. *)
Past(c) == step[c] \notin {"queued"} \cup Finished

(* A call stands in the line of its own process, once, and has left "idle". *)
LineInv ==
    /\ \A p \in Process : \A i \in 1..Len(line[p]) :
          ProcOf[At(p, i)] = p /\ step[At(p, i)] # "idle"
    /\ \A p \in Process : \A i, j \in 1..Len(line[p]) : At(p, i) = At(p, j) => i = j

(* A resolved tail: the call ended, and so did every call before it. *)
TailInv ==
    /\ \A c \in settled : step[c] \in Finished
    /\ \A p \in Process : \A j \in 1..Len(line[p]) : \A i \in 1..j :
          At(p, j) \in settled => step[At(p, i)] \in Finished

QueueInv == LineInv /\ TailInv /\ InProcessFifo

(* The predecessor is the call one place ahead. *)
LEMMA PredecessorAt ==
  ASSUME TypeOK, LineInv, NEW p \in Process, NEW j \in 1..Len(line[p])
  PROVE  Predecessor(At(p, j)) = IF j = 1 THEN None ELSE At(p, j - 1)
<1> DEFINE c == At(p, j)
           k == CHOOSE i \in 1..Len(line[p]) : line[p][i] = c
<1>1. ProcOf[c] = p
  BY DEF LineInv
<1>2. k \in 1..Len(line[p]) /\ At(p, k) = c
  BY DEF At
<1>3. k = j
  BY <1>2 DEF LineInv
<1>4. Predecessor(c) = IF k = 1 THEN None ELSE line[p][k - 1]
  BY <1>1 DEF Predecessor
<1>5. QED
  BY <1>3, <1>4 DEF At

(* Once the predecessor's tail is resolved, everyone ahead has ended. *)
LEMMA AheadEnded ==
  ASSUME TypeOK, LineInv, TailInv, NEW p \in Process, NEW j \in 1..Len(line[p]),
         Predecessor(At(p, j)) = None \/ Predecessor(At(p, j)) \in settled
  PROVE  \A i \in 1..(j - 1) : step[At(p, i)] \in Finished
<1> SUFFICES ASSUME NEW i \in 1..(j - 1) PROVE step[At(p, i)] \in Finished
  OBVIOUS
<1>1. Len(line[p]) \in Nat /\ At(p, j - 1) \in Call
  BY DEF TypeOK, At
<1>2. j # 1 /\ j - 1 \in 1..Len(line[p]) /\ i \in 1..(j - 1)
  BY <1>1
<1>3. At(p, j - 1) \in settled
  BY <1>1, <1>2, PredecessorAt, LockAssumption
<1>4. QED
  BY <1>2, <1>3 DEF TailInv

(* A step that leaves the line alone, and in which no call comes back from its end
   or forgets that it registered. *)
LEMMA StandingLine ==
  ASSUME TypeOK, LineInv, TailInv, UNCHANGED <<line, settled>>,
         \A c \in Call : step[c] \in Finished => step'[c] \in Finished,
         \A c \in Call : step[c] # "idle" => step'[c] # "idle"
  PROVE  /\ LineInv' /\ TailInv'
         /\ \A p \in Process : \A i \in 1..Len(line[p]) : At(p, i) \in Call /\ At(p, i)' = At(p, i)
<1>1. \A p \in Process : \A i \in 1..Len(line[p]) : At(p, i) \in Call /\ At(p, i)' = At(p, i)
  BY DEF TypeOK, At
<1>2. LineInv'
  BY <1>1 DEF LineInv
<1>3. TailInv'
  <2>1. \A d \in settled' : step'[d] \in Finished
    BY DEF TailInv, TypeOK
  <2>2. ASSUME NEW p \in Process, NEW j \in 1..Len(line[p]), NEW i \in 1..j, At(p, j) \in settled
        PROVE  step'[At(p, i)] \in Finished
    <3>1. i \in 1..Len(line[p])
      BY DEF TypeOK
    <3>2. step[At(p, i)] \in Finished
      BY <2>2 DEF TailInv
    <3>3. QED
      BY <1>1, <3>1, <3>2
  <2>3. QED
    BY <2>1, <2>2 DEF TailInv, At
<1>4. QED
  BY <1>1, <1>2, <1>3

(* If moreover no call gets past its place in the line, the order stands. *)
LEMMA QuietQueue ==
  ASSUME TypeOK, QueueInv, UNCHANGED <<line, settled>>,
         \A c \in Call : step[c] \in Finished => step'[c] \in Finished,
         \A c \in Call : step[c] # "idle" => step'[c] # "idle",
         \A c \in Call : Past(c)' => Past(c)
  PROVE  QueueInv'
<1>1. /\ LineInv' /\ TailInv'
      /\ \A p \in Process : \A i \in 1..Len(line[p]) : At(p, i) \in Call /\ At(p, i)' = At(p, i)
  BY StandingLine DEF QueueInv
<1>2. InProcessFifo'
  <2> SUFFICES ASSUME NEW p \in Process, NEW j \in 1..Len(line[p]), NEW i \in 1..(j - 1),
                      Past(At(p, j))'
               PROVE  step'[At(p, i)] \in Finished
    BY <1>1 DEF InProcessFifo, Past, At
  <2>1. Past(At(p, j)) /\ i \in 1..Len(line[p])
    BY <1>1 DEF TypeOK
  <2>2. step[At(p, i)] \in Finished
    BY <2>1 DEF QueueInv, InProcessFifo, Past, At
  <2>3. QED
    BY <1>1, <2>1, <2>2
<1>3. QED
  BY <1>1, <1>2 DEF QueueInv

(* A step of one call on its way from past the line to wherever it goes next, or
   of a waiter that gives up. *)
LEMMA WalkQueue ==
  ASSUME TypeOK, QueueInv, NEW c \in Call, NEW s \in Step \ {"idle", "queued"}, Goto(c, s),
         UNCHANGED <<line, settled>>,
         Past(c) \/ (step[c] = "queued" /\ s \in Finished)
  PROVE  QueueInv'
<1>1. \A d \in Call : step'[d] = IF d = c THEN s ELSE step[d]
  BY DEF TypeOK, Goto
<1>2. step[c] \notin Finished
  BY DEF Past, Finished
<1>3. \A d \in Call : step[d] \in Finished => step'[d] \in Finished
  BY <1>1, <1>2
<1>4. \A d \in Call : step[d] # "idle" => step'[d] # "idle"
  BY <1>1
<1>5. \A d \in Call : Past(d)' => Past(d)
  BY <1>1 DEF Past
<1>6. QED
  BY <1>3, <1>4, <1>5, QuietQueue

(* The end of the line is a new place: the calls in it keep theirs. *)
LEMMA RegisterQueue ==
  ASSUME TypeOK, QueueInv, NEW c \in Call, Register(c)
  PROVE  QueueInv'
<1> DEFINE p == ProcOf[c]
           n == Len(line[p])
<1>1. p \in Process /\ n \in Nat /\ step[c] = "idle" /\ UNCHANGED settled
  BY LockAssumption DEF Register, Runs, TypeOK
<1>2. /\ Len(line'[p]) = n + 1 /\ line'[p][n + 1] = c
      /\ \A i \in 1..n : line'[p][i] = line[p][i] /\ line[p][i] \in Call
  <2>1. line'[p] = Append(line[p], c) /\ line[p] \in Seq(Call)
    BY <1>1 DEF Register, TypeOK
  <2>2. QED
    BY <2>1
<1>3. \A q \in Process : q # p => line'[q] = line[q]
  BY DEF Register, TypeOK
<1>4. \A d \in Call : step'[d] = IF d = c THEN "queued" ELSE step[d]
  BY DEF Register, Goto, TypeOK
<1>5. /\ \A q \in Process : \A i \in 1..Len(line[q]) :
            At(q, i) \in Call \ {c} /\ At(q, i)' = At(q, i)
      /\ c \notin settled
  <2>1. ASSUME NEW q \in Process, NEW i \in 1..Len(line[q])
        PROVE  At(q, i) \in Call \ {c} /\ At(q, i)' = At(q, i)
    <3>1. At(q, i) \in Call /\ At(q, i) # c
      BY <1>1 DEF QueueInv, LineInv, TypeOK, At
    <3>2. QED
      BY <3>1, <1>2, <1>3 DEF At
  <2>2. c \notin settled
    BY <1>1 DEF QueueInv, TailInv, Finished
  <2>3. QED
    BY <2>1, <2>2
<1>6. ASSUME NEW q \in Process, NEW i \in 1..Len(line'[q])
      PROVE  \/ i \in 1..Len(line[q])
             \/ q = p /\ i = n + 1 /\ At(q, i)' = c
  <2>1. CASE q = p
    <3>1. i \in 1..n \/ i = n + 1
      BY <1>1, <1>2, <2>1
    <3>2. QED
      BY <1>2, <2>1, <3>1 DEF At
  <2>2. CASE q # p
    BY <1>3, <2>2
  <2>3. QED
    BY <2>1, <2>2
<1>7. LineInv'
  <2>1. ASSUME NEW q \in Process, NEW i \in 1..Len(line'[q])
        PROVE  ProcOf[At(q, i)'] = q /\ step'[At(q, i)'] # "idle"
    BY <1>4, <1>5, <1>6 DEF QueueInv, LineInv
  <2>2. ASSUME NEW q \in Process, NEW i \in 1..Len(line'[q]), NEW j \in 1..Len(line'[q]),
               At(q, i)' = At(q, j)'
        PROVE  i = j
    BY <1>5, <1>6, <2>2 DEF QueueInv, LineInv
  <2>3. QED
    BY <2>1, <2>2 DEF LineInv
<1>8. TailInv'
  <2>1. \A d \in settled' : step'[d] \in Finished
    BY <1>1, <1>4, <1>5 DEF QueueInv, TailInv, TypeOK
  <2>2. ASSUME NEW q \in Process, NEW j \in 1..Len(line'[q]), NEW i \in 1..j, At(q, j)' \in settled
        PROVE  step'[At(q, i)'] \in Finished
    <3>1. j \in 1..Len(line[q])
      BY <1>5, <1>6, <2>2
    <3>2. i \in 1..Len(line[q])
      BY <3>1 DEF TypeOK
    <3>3. step[At(q, i)] \in Finished
      BY <1>5, <2>2, <3>1 DEF QueueInv, TailInv
    <3>4. QED
      BY <1>4, <1>5, <3>2, <3>3
  <2>3. QED
    BY <1>1, <2>1, <2>2 DEF TailInv
<1>9. InProcessFifo'
  <2>1. ASSUME NEW q \in Process, NEW j \in 1..Len(line'[q]), NEW i \in 1..(j - 1), Past(At(q, j))'
        PROVE  step'[At(q, i)'] \in Finished
    <3>1. At(q, j)' # c
      BY <1>4, <2>1 DEF Past
    <3>2. j \in 1..Len(line[q])
      BY <1>6, <3>1
    <3>3. i \in 1..Len(line[q])
      BY <3>2 DEF TypeOK
    <3>4. Past(At(q, j))
      BY <1>4, <1>5, <2>1, <3>2 DEF Past
    <3>5. step[At(q, i)] \in Finished
      BY <3>2, <3>4 DEF QueueInv, InProcessFifo, Past, At
    <3>6. QED
      BY <1>4, <1>5, <3>3, <3>5
  <2>2. QED
    BY <2>1 DEF InProcessFifo, Past, At
<1>10. QED
  BY <1>7, <1>8, <1>9 DEF QueueInv

(* A tail resolves after the call's own end and its predecessor's tail. *)
LEMMA SettleQueue ==
  ASSUME TypeOK, QueueInv, NEW c \in Call, Settle(c)
  PROVE  QueueInv'
<1>1. UNCHANGED <<line, step>> /\ settled' = settled \cup {c} /\ TailResolved(c)
  BY DEF Settle
<1>2. LineInv' /\ InProcessFifo'
  BY <1>1 DEF QueueInv, LineInv, InProcessFifo, At
<1>3. TailInv'
  <2>1. \A d \in settled' : step[d] \in Finished
    BY <1>1 DEF QueueInv, TailInv, TailResolved
  <2>2. ASSUME NEW p \in Process, NEW j \in 1..Len(line[p]), NEW i \in 1..j, At(p, j) \in settled'
        PROVE  step[At(p, i)] \in Finished
    <3>1. CASE At(p, j) \in settled
      BY <3>1 DEF QueueInv, TailInv
    <3>2. CASE At(p, j) = c
      <4>1. \A k \in 1..(j - 1) : step[At(p, k)] \in Finished
        BY <1>1, <3>2, AheadEnded DEF QueueInv, TailResolved
      <4>2. i = j \/ i \in 1..(j - 1)
        BY DEF TypeOK
      <4>3. QED
        BY <1>1, <3>2, <4>1, <4>2 DEF TailResolved
    <3>3. QED
      BY <1>1, <2>2, <3>1, <3>2
  <2>3. QED
    BY <1>1, <2>1, <2>2 DEF TailInv, At
<1>4. QED
  BY <1>2, <1>3 DEF QueueInv

(* A waiter moves on only when everyone ahead of it has ended. *)
LEMMA PredecessorDoneQueue ==
  ASSUME TypeOK, QueueInv, NEW c \in Call, PredecessorDone(c)
  PROVE  QueueInv'
<1>1. /\ step[c] = "queued" /\ UNCHANGED <<line, settled>>
      /\ Predecessor(c) = None \/ Predecessor(c) \in settled
  BY DEF PredecessorDone, Runs, queueVars
<1>2. \A d \in Call : step'[d] = IF d = c THEN "publish" ELSE step[d]
  BY DEF PredecessorDone, Goto, TypeOK
<1>3. \A d \in Call : step[d] \in Finished => step'[d] \in Finished
  BY <1>1, <1>2 DEF Finished
<1>4. \A d \in Call : step[d] # "idle" => step'[d] # "idle"
  BY <1>2
<1>5. /\ LineInv' /\ TailInv'
      /\ \A p \in Process : \A i \in 1..Len(line[p]) : At(p, i) \in Call /\ At(p, i)' = At(p, i)
  BY <1>1, <1>3, <1>4, StandingLine DEF QueueInv
<1>6. InProcessFifo'
  <2> SUFFICES ASSUME NEW p \in Process, NEW j \in 1..Len(line[p]), NEW i \in 1..(j - 1),
                      Past(At(p, j))'
               PROVE  step'[At(p, i)] \in Finished
    BY <1>1 DEF InProcessFifo, Past, At
  <2>1. i \in 1..Len(line[p])
    BY DEF TypeOK
  <2>2. step[At(p, i)] \in Finished
    <3>1. CASE At(p, j) = c
      BY <1>1, <3>1, AheadEnded DEF QueueInv
    <3>2. CASE At(p, j) # c
      BY <1>2, <1>5, <3>2 DEF QueueInv, InProcessFifo, Past, At
    <3>3. QED
      BY <3>1, <3>2
  <2>3. QED
    BY <1>3, <1>5, <2>1, <2>2
<1>7. QED
  BY <1>5, <1>6 DEF QueueInv

(* A process that dies ends every call it has, in line or past it. *)
LEMMA DieQueue ==
  ASSUME TypeOK, QueueInv, NEW p \in Process, Die(p)
  PROVE  QueueInv'
<1>1. UNCHANGED <<line, settled>>
  BY DEF Die
<1>2. \A c \in Call : step'[c] = step[c] \/ step'[c] = "dead"
  BY DEF Die
<1>3. /\ \A c \in Call : step[c] \in Finished => step'[c] \in Finished
      /\ \A c \in Call : step[c] # "idle" => step'[c] # "idle"
      /\ \A c \in Call : Past(c)' => Past(c)
  BY <1>2 DEF Past, Finished
<1>4. QED
  BY <1>1, <1>3, QuietQueue

(* Nothing that happens to a call past the line brings it back into it. *)
LEMMA AcquiringQueue ==
  ASSUME TypeOK, QueueInv, NEW c \in Call,
         \/ Acquiring(c) \/ CallbackEnds(c) \/ Release(c) \/ Unlink(c) \/ FileFault(c)
  PROVE  QueueInv'
<1>1. PICK s \in Step \ {"idle", "queued"} : Goto(c, s)
  <2>1. AfterReclaim(c) \in {"failed", "publish", "poll"}
    BY AfterReclaimType DEF AfterReclaim
  <2>2. {"publish", "observe", "guard", "recheck", "remove", "unguard", "unlinkGuard", "poll",
         "held", "release", "unlink", "over", "busy", "failed"} \subseteq Step \ {"idle", "queued"}
    BY DEF Step, UnderGuard, Holding, Finished
  <2>3. CASE Publish(c) \/ Observe(c) \/ Guard(c) \/ Recheck(c) \/ RemoveFile(c)
    BY <2>2, <2>3 DEF Publish, Observe, Guard, Recheck, RemoveFile
  <2>4. CASE Unguard(c) \/ UnlinkGuard(c)
    BY <2>1, <2>2, <2>4 DEF Unguard, UnlinkGuard
  <2>5. CASE Poll(c) \/ CallbackEnds(c) \/ Release(c) \/ Unlink(c) \/ FileFault(c)
    BY <2>2, <2>5 DEF Poll, CallbackEnds, Release, Unlink, FileFault
  <2>6. QED
    BY <2>3, <2>4, <2>5 DEF Acquiring
<1>2. UNCHANGED <<line, settled>> /\ Past(c)
  <2>1. step[c] \in {"publish", "observe", "guard", "recheck", "remove", "unguard", "unlinkGuard",
                     "poll", "held", "release", "unlink"}
    BY DEF Acquiring, Publish, Observe, Guard, Recheck, RemoveFile, Unguard, UnlinkGuard, Poll,
           CallbackEnds, Release, Unlink, FileFault, Runs
  <2>2. UNCHANGED <<line, settled>>
    BY DEF Acquiring, Publish, Observe, Guard, Recheck, RemoveFile, Unguard, UnlinkGuard, Poll,
           CallbackEnds, Release, Unlink, FileFault, queueVars
  <2>3. QED
    BY <2>1, <2>2 DEF Past, Finished
<1>3. QED
  BY <1>1, <1>2, WalkQueue

LEMMA NextQueue == TypeOK /\ QueueInv /\ [Next]_vars => QueueInv'
<1> SUFFICES ASSUME TypeOK, QueueInv, [Next]_vars PROVE QueueInv'
  OBVIOUS
<1>1. ASSUME NEW p \in Process, Start(p) PROVE QueueInv'
  <2>1. UNCHANGED <<line, settled, step>>
    BY <1>1 DEF Start
  <2>2. QED
    BY <2>1, QuietQueue DEF Past
<1>2. ASSUME NEW p \in Process, Die(p) PROVE QueueInv'
  BY <1>2, DieQueue
<1>3. ASSUME NEW c \in Call, Register(c) PROVE QueueInv'
  BY <1>3, RegisterQueue
<1>4. ASSUME NEW c \in Call, Expire(c) PROVE QueueInv'
  <2>1. UNCHANGED <<line, settled, step>>
    BY <1>4 DEF Expire, queueVars
  <2>2. QED
    BY <2>1, QuietQueue DEF Past
<1>5. ASSUME NEW c \in Call, Settle(c) PROVE QueueInv'
  BY <1>5, SettleQueue
<1>6. ASSUME NEW c \in Call, PredecessorDone(c) PROVE QueueInv'
  BY <1>6, PredecessorDoneQueue
<1>7. ASSUME NEW c \in Call, QueueTimeout(c) PROVE QueueInv'
  <2>1. step[c] = "queued" /\ Goto(c, "busy") /\ UNCHANGED <<line, settled>>
    BY <1>7 DEF QueueTimeout, Runs, queueVars
  <2>2. "busy" \in Finished /\ "busy" \in Step \ {"idle", "queued"}
    BY DEF Finished, Step
  <2>3. QED
    BY <2>1, <2>2, WalkQueue
<1>8. ASSUME NEW c \in Call,
             \/ Acquiring(c) \/ CallbackEnds(c) \/ Release(c) \/ Unlink(c) \/ FileFault(c)
      PROVE  QueueInv'
  BY <1>8, AcquiringQueue
<1>9. CASE UNCHANGED vars
  <2>1. UNCHANGED <<line, settled, step>>
    BY <1>9 DEF vars
  <2>2. QED
    BY <2>1, QuietQueue DEF Past
<1>10. QED
  BY <1>1, <1>2, <1>3, <1>4, <1>5, <1>6, <1>7, <1>8, <1>9 DEF Next, CallStep

(* Calls of one process get past the line in the order they joined it, whatever
   deadlines pass, calls fail and processes die: for a queue of any length. *)
THEOREM QueueIsFifo == Spec => []InProcessFifo
<1>1. Init => QueueInv
  BY DEF Init, QueueInv, LineInv, TailInv, InProcessFifo
<1>2. TypeOK /\ QueueInv /\ [Next]_vars => QueueInv'
  BY NextQueue
<1>3. QueueInv => InProcessFifo
  BY DEF QueueInv
<1>4. QED
  BY <1>1, <1>2, <1>3, TypeCorrect, PTL DEF Spec

-----------------------------------------------------------------------------
(* The creates of sale invoices: what holds of them in every reachable state. *)
OfClient == [customer : Customer, active : BOOLEAN, by : Sale \cup {"User"}]
OfInvoice == [by : Sale \cup {"User"}, event : {EventOf[c] : c \in Sale}, client : Nat]
Request == [op : {"customer", "invoice", "undo"}, call : Sale, client : Nat]
Stages == {"new", "reviewed", "check", "resolve", "customer", "invoice", "undo", "over", "dead"}
Outcomes == {"none", "unavailable", "held", "failed", "created", "indeterminate",
             "rolledBack", "rollbackUnknown"}
Answers == {"none", "ok", "noId", "rejected"}

BookTypes == clients \in Seq(OfClient) /\ invoices \in Seq(OfInvoice)

SaleTypes ==
    /\ BookTypes
    /\ mail \subseteq Request
    /\ queue \in Seq(Sale \cup Marker)
    /\ markers \in Seq(Marker) /\ released \in Seq(Marker)
    /\ reserved \subseteq Sale
    /\ stage \in [Sale -> Stages]
    /\ client \in [Sale -> Nat]
    /\ made \in [Sale -> BOOLEAN]
    /\ answer \in [Sale -> Answers]
    /\ outcome \in [Sale -> Outcomes]
    /\ saw \in [Sale -> [stored : Nat, unknown : SUBSET Sale]]
    /\ life \in [Sale -> Nat]
    /\ restarts \in Nat /\ foreign \in Nat /\ errors \in Nat

(* The lock is first-in first-out, and only the call at its head is past the check. *)
OneAtATime ==
    /\ \A i \in DOMAIN queue : queue[i] \in Sale =>
          /\ stage[queue[i]] \in Guarded
          /\ i # 1 => stage[queue[i]] = "check"
    /\ \A i, j \in DOMAIN queue : queue[i] \in Sale /\ queue[i] = queue[j] => i = j
    /\ \A c \in Sale : stage[c] \in Guarded => \E i \in DOMAIN queue : queue[i] = c

Stored(c) == \E i \in DOMAIN invoices : invoices[i].by = c

(* A call in the lock runs in this server, a dead one ran in an earlier one. *)
Lives(c) ==
    /\ outcome[c] # "none" <=> stage[c] = "over"
    /\ life[c] <= restarts
    /\ stage[c] \in Guarded \cup {"reviewed"} => life[c] = restarts
    /\ stage[c] = "dead" => life[c] < restarts
    /\ stage[c] = "customer" => c \in Inline

(* What a request on its way says about its call. *)
Requests(c) ==
    \A r \in mail : r.call = c =>
        /\ stage[c] = r.op => answer[c] = "none"
        /\ r.op = "customer" =>
              /\ r.client = 0
              /\ stage[c] \in {"customer", "dead"} \/ outcome[c] = "failed"
              /\ ClientsOf(c) = {}
        /\ r.op = "invoice" =>
              /\ r.client = client[c]
              /\ stage[c] \in {"invoice", "dead"} \/ outcome[c] = "indeterminate"
              /\ ~Stored(c)
        /\ r.op = "undo" =>
              /\ r.client = client[c] /\ made[c]
              /\ stage[c] \in {"undo", "dead"} \/ outcome[c] = "rollbackUnknown"

ItsInvoice(c) ==
    /\ Stored(c) => stage[c] \in {"invoice", "dead"} \/ outcome[c] \in {"created", "indeterminate"}
    /\ stage[c] = "invoice" => (Stored(c) <=> answer[c] \in {"ok", "noId"})
    /\ outcome[c] = "created" => Stored(c)
    /\ \A i \in DOMAIN invoices : invoices[i].by = c =>
          invoices[i].event = EventOf[c] /\ invoices[i].client = client[c]
    /\ InvoiceOf(c) => Given(c) \in {0, client[c]}
    /\ saw[c].stored <= Len(invoices)

ItsClient(c) ==
    /\ client[c] <= Len(clients)
    /\ stage[c] \in {"invoice", "undo"} \/ outcome[c] \in {"created", "indeterminate"} => client[c] # 0
    /\ ClientsOf(c) # {} => \/ stage[c] \in {"customer", "invoice", "undo", "dead"}
                            \/ outcome[c] \notin {"none", "unavailable", "held"}
    /\ made[c] => client[c] \in ClientsOf(c)
    /\ \A k, l \in ClientsOf(c) : k = l
    /\ stage[c] = "undo" => made[c] /\ (answer[c] = "ok" => ~clients[client[c]].active)
    /\ outcome[c] = "rolledBack" => \A k \in ClientsOf(c) : ~clients[k].active
    /\ (\E k \in ClientsOf(c) : ~clients[k].active)
           => stage[c] \in {"undo", "dead"} \/ outcome[c] \in {"rolledBack", "rollbackUnknown"}

SaleInv(c) == Lives(c) /\ Requests(c) /\ ItsInvoice(c) /\ ItsClient(c)

(* The clients of the start stay the first ones, and what a user entered stays active. *)
KnownStay ==
    /\ Len(KnownClients) <= Len(clients)
    /\ \A k \in DOMAIN KnownClients : clients[k].by = "User"
    /\ \A k \in DOMAIN clients : clients[k].by = "User" => clients[k].active

(* A client that may still be deactivated by the call that created it is nobody else's. *)
OwnClient ==
    \A u, c \in Sale : \A k \in ClientsOf(u) :
        c # u /\ client[c] = k => stage[u] \notin {"customer", "invoice", "undo"} /\ outcome[u] # "rolledBack"

Remembered(m) ==
    /\ m.client = client[m.call]
    /\ outcome[m.call] = "indeterminate" /\ life[m.call] = restarts

GuardInv ==
    /\ \A k \in DOMAIN markers : Remembered(markers[k])
    /\ \A k \in DOMAIN released : Remembered(released[k])
    /\ \A c \in Sale : outcome[c] = "indeterminate" /\ life[c] = restarts =>
          \/ \E k \in DOMAIN markers : markers[k].call = c
          \/ \E k \in DOMAIN released : released[k].call = c
    /\ reserved = {c \in Sale : stage[c] \in Guarded \ {"check", "undo"}}
    /\ Len(markers) + Cardinality(reserved) + Len(released) <= Capacity

Placed(b) == stage[b] \in {"resolve", "customer", "invoice"} \/ InvoiceOf(b)

(* What let b pass its check although a had ended unknown. *)
Cleared(a, b) ==
    \E n \in DOMAIN released :
        /\ released[n].call = a
        /\ \/ \A i \in DOMAIN invoices : i <= saw[b].stored
                 => ~(invoices[i].event = EventOf[a] /\ invoices[i].client = client[a])
           \/ \E k \in 1..(n - 1) : released[k].client # client[a]

ChecksCleared ==
    \A a, b \in Sale :
        /\ a \in saw[b].unknown => outcome[a] = "indeterminate"
        /\ /\ Placed(b) /\ a \in saw[b].unknown /\ a # b
           /\ life[a] = restarts /\ life[b] = restarts
           /\ EventOf[a] = EventOf[b] /\ Given(b) \in {0, client[a]}
           => Cleared(a, b)

-----------------------------------------------------------------------------
(* The clients and the given ids. *)
LEMMA Clients ==
  ASSUME BookTypes, NEW k \in DOMAIN clients
  PROVE  /\ Len(clients) \in Nat /\ k \in 1..Len(clients) /\ k \in Nat
         /\ clients[k].customer \in Customer /\ clients[k].active \in BOOLEAN
         /\ clients[k].by \in Sale \cup {"User"}
<1>1. Len(clients) \in Nat /\ k \in 1..Len(clients) /\ clients[k] \in OfClient
  BY DEF BookTypes
<1>2. QED
  BY <1>1 DEF OfClient

LEMMA GivenTyped ==
  ASSUME NEW c \in Sale
  PROVE  /\ Given(c) \in Nat /\ Len(KnownClients) \in Nat
         /\ c \notin Inline => Given(c) \in 1..Len(KnownClients)
  BY SaleAssumption DEF Given

-----------------------------------------------------------------------------
(* What the parts of an operation do. *)
LEMMA AdvanceEffect ==
  ASSUME SaleTypes, NEW c \in Sale, NEW s \in Stages, Advance(c, s)
  PROVE  /\ stage' \in [Sale -> Stages] /\ stage'[c] = s
         /\ \A d \in Sale : d # c => stage'[d] = stage[d]
  BY DEF SaleTypes, Advance

LEMMA EndEffect ==
  ASSUME SaleTypes, NEW c \in Sale, NEW what \in Outcomes, queue # << >>, End(c, what)
  PROVE  /\ stage' \in [Sale -> Stages] /\ stage'[c] = "over"
         /\ \A d \in Sale : d # c => stage'[d] = stage[d]
         /\ outcome' \in [Sale -> Outcomes] /\ outcome'[c] = what
         /\ \A d \in Sale : d # c => outcome'[d] = outcome[d]
         /\ queue' \in Seq(Sale \cup Marker) /\ queue' = Tail(queue)
<1>1. "over" \in Stages
  BY DEF Stages
<1>2. Advance(c, "over")
  BY DEF End
<1>3. /\ outcome' \in [Sale -> Outcomes] /\ outcome'[c] = what
      /\ \A d \in Sale : d # c => outcome'[d] = outcome[d]
  BY DEF End, SaleTypes
<1>4. queue' \in Seq(Sale \cup Marker) /\ queue' = Tail(queue)
  BY DEF End, SaleTypes
<1>5. QED
  BY <1>1, <1>2, <1>3, <1>4, AdvanceEffect

LEMMA SendEffect ==
  ASSUME SaleTypes, NEW c \in Sale, NEW op \in {"customer", "invoice", "undo"}, NEW k \in Nat,
         Send(c, op, k)
  PROVE  /\ stage' \in [Sale -> Stages] /\ stage'[c] = op
         /\ \A d \in Sale : d # c => stage'[d] = stage[d]
         /\ answer' \in [Sale -> Answers] /\ answer'[c] = "none"
         /\ \A d \in Sale : d # c => answer'[d] = answer[d]
         /\ mail' \subseteq Request
         /\ mail' = mail \cup {[op |-> op, call |-> c, client |-> k]}
<1>1. op \in Stages
  BY DEF Stages
<1>2. Advance(c, op)
  BY DEF Send
<1>3. /\ answer' \in [Sale -> Answers] /\ answer'[c] = "none"
      /\ \A d \in Sale : d # c => answer'[d] = answer[d]
  BY DEF Send, SaleTypes, Answers
<1>4. [op |-> op, call |-> c, client |-> k] \in Request
  BY DEF Request
<1>5. mail' \subseteq Request /\ mail' = mail \cup {[op |-> op, call |-> c, client |-> k]}
  BY <1>4 DEF Send, SaleTypes
<1>6. QED
  BY <1>1, <1>2, <1>3, <1>5, AdvanceEffect

LEMMA SendInvoiceEffect ==
  ASSUME SaleTypes, NEW c \in Sale, NEW k \in Nat, SendInvoice(c, k)
  PROVE  /\ client' \in [Sale -> Nat] /\ client'[c] = k
         /\ \A d \in Sale : d # c => client'[d] = client[d]
         /\ Send(c, "invoice", k)
  BY DEF SendInvoice, SaleTypes

(* The service serves a request: a customer or an invoice is appended, or the client of
   the request deactivated. *)
Grows(c) ==
    /\ \A i \in DOMAIN invoices : i \in DOMAIN invoices' /\ invoices'[i] = invoices[i]
    /\ \A i \in DOMAIN invoices' : i \in DOMAIN invoices \/ invoices'[i].by \in {c, "User"}
    /\ Len(invoices) <= Len(invoices')
    /\ \A k \in DOMAIN clients : k \in DOMAIN clients' /\ clients'[k].by = clients[k].by
    /\ \A k \in DOMAIN clients' : k \in DOMAIN clients \/ clients'[k].by = c
    /\ \A k \in DOMAIN clients : clients[k].by # c => clients'[k] = clients[k]
    /\ \A k \in DOMAIN clients : ~clients[k].active => ~clients'[k].active
    /\ Len(clients) <= Len(clients')

LEMMA NoGrowth ==
  ASSUME BookTypes, NEW c, UNCHANGED books
  PROVE  BookTypes' /\ Grows(c)
<1>1. Len(clients) \in Nat /\ Len(invoices) \in Nat
  BY DEF BookTypes
<1>2. QED
  BY <1>1 DEF BookTypes, Grows, books

LEMMA ReplyEffect ==
  ASSUME SaleTypes, NEW r \in mail, NEW text \in Answers, Reply(r, text)
  PROVE  /\ answer' \in [Sale -> Answers]
         /\ \A d \in Sale : answer'[d] = IF d = r.call /\ stage[d] = r.op THEN text ELSE answer[d]
<1>1. r.call \in Sale
  BY DEF SaleTypes, Request
<1>2. QED
  BY <1>1 DEF Reply, SaleTypes

LEMMA CustomerStored ==
  ASSUME BookTypes, NEW c \in Sale,
         clients' = Append(clients, [customer |-> CustomerOf[c], active |-> TRUE, by |-> c]),
         UNCHANGED invoices
  PROVE  /\ BookTypes' /\ Grows(c)
         /\ Len(clients') = Len(clients) + 1
         /\ DOMAIN clients' = DOMAIN clients \cup {Len(clients) + 1}
         /\ \A k \in DOMAIN clients : clients'[k] = clients[k]
         /\ clients'[Len(clients) + 1] = [customer |-> CustomerOf[c], active |-> TRUE, by |-> c]
<1> DEFINE row == [customer |-> CustomerOf[c], active |-> TRUE, by |-> c]
<1>1. row \in OfClient
  BY SaleAssumption DEF OfClient
<1>2. clients' = Append(clients, row) /\ row.active = TRUE /\ row.by = c
  OBVIOUS
<1> HIDE DEF row
<1>3. /\ Len(clients) \in Nat /\ DOMAIN clients = 1..Len(clients) /\ clients' \in Seq(OfClient)
      /\ Len(clients') = Len(clients) + 1 /\ DOMAIN clients' = 1..Len(clients')
      /\ \A k \in 1..Len(clients) : clients'[k] = clients[k]
      /\ clients'[Len(clients) + 1] = row
  BY <1>1, <1>2 DEF BookTypes
<1>4. Len(invoices) \in Nat
  BY DEF BookTypes
<1>5. DOMAIN clients' = DOMAIN clients \cup {Len(clients) + 1}
  BY <1>3
<1>6. Grows(c)
  BY <1>2, <1>3, <1>4, <1>5 DEF Grows
<1>7. QED
  BY <1>3, <1>5, <1>6 DEF BookTypes, row

LEMMA InvoiceStored ==
  ASSUME BookTypes, NEW c \in Sale \cup {"User"}, NEW u \in {c, "User"}, NEW d \in Sale, NEW k \in Nat,
         invoices' = Append(invoices, [by |-> u, event |-> EventOf[d], client |-> k]),
         UNCHANGED clients
  PROVE  /\ BookTypes' /\ Grows(c)
         /\ Len(invoices') = Len(invoices) + 1
         /\ DOMAIN invoices' = DOMAIN invoices \cup {Len(invoices) + 1}
         /\ \A i \in DOMAIN invoices : invoices'[i] = invoices[i]
         /\ invoices'[Len(invoices) + 1] = [by |-> u, event |-> EventOf[d], client |-> k]
<1> DEFINE row == [by |-> u, event |-> EventOf[d], client |-> k]
<1>1. row \in OfInvoice
  BY DEF OfInvoice
<1>2. invoices' = Append(invoices, row) /\ row.by \in {c, "User"}
  OBVIOUS
<1> HIDE DEF row
<1>3. /\ Len(invoices) \in Nat /\ DOMAIN invoices = 1..Len(invoices) /\ invoices' \in Seq(OfInvoice)
      /\ Len(invoices') = Len(invoices) + 1 /\ DOMAIN invoices' = 1..Len(invoices')
      /\ \A i \in 1..Len(invoices) : invoices'[i] = invoices[i]
      /\ invoices'[Len(invoices) + 1] = row
  BY <1>1, <1>2 DEF BookTypes
<1>4. Len(clients) \in Nat
  BY DEF BookTypes
<1>5. DOMAIN invoices' = DOMAIN invoices \cup {Len(invoices) + 1}
  BY <1>3
<1>6. Grows(c)
  BY <1>2, <1>3, <1>4, <1>5 DEF Grows
<1>7. QED
  BY <1>3, <1>5, <1>6 DEF BookTypes, row

LEMMA ClientDeactivated ==
  ASSUME BookTypes, NEW c \in Sale, NEW n \in DOMAIN clients, clients[n].by = c,
         clients' = [clients EXCEPT ![n].active = FALSE], UNCHANGED invoices
  PROVE  /\ BookTypes' /\ Grows(c)
         /\ Len(clients') = Len(clients) /\ DOMAIN clients' = DOMAIN clients
         /\ \A k \in DOMAIN clients : k # n => clients'[k] = clients[k]
         /\ ~clients'[n].active
<1> DEFINE row == [clients[n] EXCEPT !.active = FALSE]
<1>1. clients[n] \in OfClient
  BY DEF BookTypes
<1>2. row \in OfClient /\ row.active = FALSE /\ row.by = c
  BY <1>1 DEF OfClient
<1>3. clients' = [clients EXCEPT ![n] = row]
  OBVIOUS
<1> HIDE DEF row
<1>4. /\ Len(clients) \in Nat /\ DOMAIN clients = 1..Len(clients) /\ clients' \in Seq(OfClient)
      /\ Len(clients') = Len(clients) /\ DOMAIN clients' = DOMAIN clients
      /\ \A k \in DOMAIN clients : k # n => clients'[k] = clients[k]
      /\ clients'[n] = row
  <2>1. clients \in Seq(OfClient) /\ Len(clients) \in Nat /\ DOMAIN clients = 1..Len(clients)
    BY DEF BookTypes
  <2>2. /\ clients' \in Seq(OfClient) /\ Len(clients') = Len(clients)
        /\ \A k \in 1..Len(clients) : clients'[k] = IF k = n THEN row ELSE clients[k]
    <3>1. n \in 1..Len(clients)
      BY <2>1
    <3>2. /\ [clients EXCEPT ![n] = row] \in Seq(OfClient)
          /\ Len([clients EXCEPT ![n] = row]) = Len(clients)
      BY <1>2, <2>1, <3>1, ExceptSeq
    <3>3. \A k \in 1..Len(clients) : [clients EXCEPT ![n] = row][k] = IF k = n THEN row ELSE clients[k]
      BY <2>1, <3>1
    <3>4. QED
      BY <1>3, <3>2, <3>3
  <2>3. DOMAIN clients' = 1..Len(clients')
    BY <2>2
  <2>4. QED
    BY <2>1, <2>2, <2>3
<1>5. Len(invoices) \in Nat
  BY DEF BookTypes
<1>6. Grows(c)
  BY <1>2, <1>4, <1>5 DEF Grows
<1>7. QED
  BY <1>2, <1>4, <1>6 DEF BookTypes

(* What a served request of c changes. *)
Served(c, r) ==
    /\ r \in mail /\ r.call = c /\ mail' = mail \ {r}
    /\ BookTypes' /\ Grows(c)
    /\ answer' \in [Sale -> Answers]
    /\ \A d \in Sale : d # c \/ stage[c] # r.op => answer'[d] = answer[d]
    /\ \/ UNCHANGED books /\ (stage[c] = r.op => answer'[c] \in {"none", "rejected"})
       \/ /\ r.op = "customer" /\ UNCHANGED invoices
          /\ DOMAIN clients' = DOMAIN clients \cup {Len(clients) + 1}
          /\ \A k \in DOMAIN clients : clients'[k] = clients[k]
          /\ clients'[Len(clients) + 1] = [customer |-> CustomerOf[c], active |-> TRUE, by |-> c]
       \/ /\ r.op = "invoice" /\ UNCHANGED clients
          /\ (stage[c] = "invoice" => answer'[c] \in {"ok", "noId"})
          /\ Len(invoices') = Len(invoices) + 1
          /\ DOMAIN invoices' = DOMAIN invoices \cup {Len(invoices) + 1}
          /\ \A i \in DOMAIN invoices : invoices'[i] = invoices[i]
          /\ invoices'[Len(invoices) + 1] = [by |-> c, event |-> EventOf[c], client |-> r.client]
       \/ /\ r.op = "undo" /\ UNCHANGED invoices
          /\ client[c] \in DOMAIN clients /\ DOMAIN clients' = DOMAIN clients
          /\ \A k \in DOMAIN clients : k # client[c] => clients'[k] = clients[k]
          /\ ~clients'[client[c]].active

LEMMA ServiceEffect ==
  ASSUME SaleTypes, NEW c \in Sale, SaleInv(c), ServiceStep(c)
  PROVE  \E r \in mail : Served(c, r)
<1>1. PICK r \in mail :
        /\ r.call = c
        /\ mail' = mail \ {r}
        /\ \/ Store(r)
           \/ Reply(r, "rejected") /\ UNCHANGED books
           \/ UNCHANGED <<answer, books>>
  BY DEF ServiceStep
<1>2. /\ r.op \in {"customer", "invoice", "undo"} /\ r.client \in Nat
      /\ "ok" \in Answers /\ "noId" \in Answers /\ "rejected" \in Answers
      /\ BookTypes /\ answer \in [Sale -> Answers]
  BY DEF SaleTypes, Request, Answers
<1>3. stage[c] = r.op => answer[c] = "none"
  BY <1>1 DEF SaleInv, Requests
<1>4. CASE UNCHANGED <<answer, books>>
  <2>1. BookTypes' /\ Grows(c)
    BY <1>2, <1>4, NoGrowth
  <2>2. QED
    BY <1>1, <1>2, <1>3, <1>4, <2>1 DEF Served
<1>5. CASE Reply(r, "rejected") /\ UNCHANGED books
  <2>1. BookTypes' /\ Grows(c)
    BY <1>2, <1>5, NoGrowth
  <2>2. /\ answer' \in [Sale -> Answers]
        /\ \A d \in Sale : answer'[d] = IF d = r.call /\ stage[d] = r.op THEN "rejected" ELSE answer[d]
    BY <1>2, <1>5, ReplyEffect
  <2>3. QED
    BY <1>1, <1>5, <2>1, <2>2 DEF Served
<1>6. CASE Store(r)
  <2>1. CASE r.op = "customer"
    <3>1. PICK text \in {"ok", "noId"} : Reply(r, text)
      BY <1>6, <2>1 DEF Store
    <3>2. /\ clients' = Append(clients, [customer |-> CustomerOf[c], active |-> TRUE, by |-> c])
          /\ UNCHANGED invoices
      BY <1>1, <1>6, <2>1 DEF Store
    <3>3. /\ answer' \in [Sale -> Answers]
          /\ \A d \in Sale : d # c \/ stage[c] # r.op => answer'[d] = answer[d]
          /\ stage[c] = r.op => answer'[c] = text
      <4>1. /\ answer' \in [Sale -> Answers]
            /\ \A d \in Sale : answer'[d] = IF d = r.call /\ stage[d] = r.op THEN text ELSE answer[d]
        BY <1>2, <3>1, ReplyEffect
      <4>2. QED
        BY <1>1, <4>1
    <3>4. /\ BookTypes' /\ Grows(c)
          /\ DOMAIN clients' = DOMAIN clients \cup {Len(clients) + 1}
          /\ \A k \in DOMAIN clients : clients'[k] = clients[k]
          /\ clients'[Len(clients) + 1] = [customer |-> CustomerOf[c], active |-> TRUE, by |-> c]
      BY <1>2, <3>2, CustomerStored
    <3>5. QED
      BY <1>1, <2>1, <3>2, <3>3, <3>4, Zenon DEF Served
  <2>2. CASE r.op = "invoice"
    <3>1. PICK text \in {"ok", "noId"} : Reply(r, text)
      BY <1>6, <2>2 DEF Store
    <3>2. /\ invoices' = Append(invoices, [by |-> c, event |-> EventOf[c], client |-> r.client])
          /\ UNCHANGED clients
      BY <1>1, <1>6, <2>2 DEF Store
    <3>3. /\ answer' \in [Sale -> Answers]
          /\ \A d \in Sale : d # c \/ stage[c] # r.op => answer'[d] = answer[d]
          /\ stage[c] = r.op => answer'[c] = text
      <4>1. /\ answer' \in [Sale -> Answers]
            /\ \A d \in Sale : answer'[d] = IF d = r.call /\ stage[d] = r.op THEN text ELSE answer[d]
        BY <1>2, <3>1, ReplyEffect
      <4>2. QED
        BY <1>1, <4>1
    <3>4. /\ BookTypes' /\ Grows(c)
          /\ Len(invoices') = Len(invoices) + 1
          /\ DOMAIN invoices' = DOMAIN invoices \cup {Len(invoices) + 1}
          /\ \A i \in DOMAIN invoices : invoices'[i] = invoices[i]
          /\ invoices'[Len(invoices) + 1] = [by |-> c, event |-> EventOf[c], client |-> r.client]
      BY <1>2, <3>2, InvoiceStored
    <3>5. stage[c] = "invoice" => answer'[c] \in {"ok", "noId"}
      BY <2>2, <3>1, <3>3
    <3>6. QED
      BY <1>1, <2>2, <3>2, <3>3, <3>4, <3>5, Zenon DEF Served
  <2>3. CASE r.op = "undo"
    <3>1. Reply(r, "ok") /\ UNCHANGED invoices
          /\ clients' = [clients EXCEPT ![r.client].active = FALSE]
      BY <1>6, <2>3 DEF Store
    <3>2. r.client = client[c] /\ client[c] \in DOMAIN clients /\ clients[client[c]].by = c
      BY <1>1, <2>3 DEF SaleInv, Requests, ItsClient, ClientsOf
    <3>3. /\ answer' \in [Sale -> Answers]
          /\ \A d \in Sale : d # c \/ stage[c] # r.op => answer'[d] = answer[d]
          /\ stage[c] = r.op => answer'[c] = "ok"
      <4>1. /\ answer' \in [Sale -> Answers]
            /\ \A d \in Sale : answer'[d] = IF d = r.call /\ stage[d] = r.op THEN "ok" ELSE answer[d]
        BY <1>2, <3>1, ReplyEffect
      <4>2. QED
        BY <1>1, <4>1
    <3>4. /\ BookTypes' /\ Grows(c) /\ DOMAIN clients' = DOMAIN clients
          /\ \A k \in DOMAIN clients : k # client[c] => clients'[k] = clients[k]
          /\ ~clients'[client[c]].active
      BY <1>2, <3>1, <3>2, ClientDeactivated
    <3>5. QED
      BY <1>1, <2>3, <3>1, <3>2, <3>3, <3>4, Zenon DEF Served
  <2>4. QED
    BY <1>2, <2>1, <2>2, <2>3
<1>7. QED
  BY <1>1, <1>4, <1>5, <1>6

-----------------------------------------------------------------------------
(* The lock. *)
Running == {"resolve", "customer", "invoice", "undo"}

LEMMA QueueTyped ==
  ASSUME SaleTypes, queue # << >>
  PROVE  /\ Len(queue) \in Nat /\ Len(queue) >= 1 /\ DOMAIN queue = 1..Len(queue)
         /\ Head(queue) = queue[1] /\ Tail(queue) \in Seq(Sale \cup Marker)
         /\ Len(Tail(queue)) = Len(queue) - 1 /\ DOMAIN Tail(queue) = 1..(Len(queue) - 1)
         /\ \A i \in 1..(Len(queue) - 1) : Tail(queue)[i] = queue[i + 1]
  BY HeadTailProperties DEF SaleTypes

LEMMA HeadAlone ==
  ASSUME SaleTypes, OneAtATime, queue # << >>, NEW d \in Sale, stage[d] \in Running
  PROVE  Head(queue) = d
<1>1. stage[d] \in Guarded /\ stage[d] # "check"
  BY DEF Running, Guarded
<1>2. PICK i \in DOMAIN queue : queue[i] = d
  BY <1>1 DEF OneAtATime
<1>3. i = 1
  BY <1>1, <1>2 DEF OneAtATime
<1>4. QED
  BY <1>2, <1>3, QueueTyped

LEMMA QueueStays ==
  ASSUME SaleTypes, OneAtATime, NEW c \in Sale, NEW s \in Guarded, Holds(c, s), queue' = queue,
         stage'[c] \in Guarded, \A d \in Sale : d # c => stage'[d] = stage[d]
  PROVE  OneAtATime'
<1>1. queue # << >> /\ queue[1] = c /\ 1 \in DOMAIN queue
  BY QueueTyped DEF Holds
<1>2. ASSUME NEW i \in DOMAIN queue, queue[i] \in Sale
      PROVE  stage'[queue[i]] \in Guarded /\ (i # 1 => stage'[queue[i]] = "check")
  <2>1. stage[queue[i]] \in Guarded /\ (i # 1 => stage[queue[i]] = "check")
    BY <1>2 DEF OneAtATime
  <2>2. queue[i] = c => i = 1
    BY <1>1, <1>2 DEF OneAtATime
  <2>3. QED
    BY <1>2, <2>1, <2>2
<1>3. ASSUME NEW d \in Sale, stage'[d] \in Guarded
      PROVE  \E i \in DOMAIN queue : queue[i] = d
  BY <1>1, <1>3 DEF OneAtATime
<1>4. \A i, j \in DOMAIN queue : queue[i] \in Sale /\ queue[i] = queue[j] => i = j
  BY DEF OneAtATime
<1>5. QED
  BY <1>2, <1>3, <1>4 DEF OneAtATime

(* The head leaves: a call that ends, or the marker the owner released. *)
LEMMA QueuePasses ==
  ASSUME SaleTypes, OneAtATime, queue # << >>, queue' = Tail(queue),
         \A d \in Sale : d # Head(queue) => stage'[d] = stage[d],
         Head(queue) \in Sale => stage'[Head(queue)] \notin Guarded
  PROVE  OneAtATime'
<1>1. /\ Len(queue) \in Nat /\ DOMAIN queue = 1..Len(queue) /\ 1 \in DOMAIN queue
      /\ Head(queue) = queue[1] /\ DOMAIN queue' = 1..(Len(queue) - 1)
      /\ \A i \in 1..(Len(queue) - 1) : queue'[i] = queue[i + 1]
  BY QueueTyped
<1>2. ASSUME NEW i \in DOMAIN queue', queue'[i] \in Sale
      PROVE  /\ stage'[queue'[i]] = "check"
             /\ \A j \in DOMAIN queue' : queue'[i] = queue'[j] => i = j
  <2>1. i + 1 \in DOMAIN queue /\ i + 1 # 1 /\ queue'[i] = queue[i + 1]
    BY <1>1
  <2>2. stage[queue[i + 1]] = "check" /\ queue[i + 1] # queue[1]
    BY <1>1, <1>2, <2>1 DEF OneAtATime
  <2>3. ASSUME NEW j \in DOMAIN queue', queue'[i] = queue'[j]
        PROVE  i = j
    <3>1. j + 1 \in DOMAIN queue /\ queue'[j] = queue[j + 1]
      BY <1>1
    <3>2. i + 1 = j + 1
      BY <1>2, <2>1, <2>3, <3>1 DEF OneAtATime
    <3>3. QED
      BY <1>1, <3>2
  <2>4. QED
    BY <1>1, <1>2, <2>1, <2>2, <2>3
<1>3. ASSUME NEW d \in Sale, stage'[d] \in Guarded
      PROVE  \E i \in DOMAIN queue' : queue'[i] = d
  <2>1. d # queue[1] /\ stage[d] \in Guarded
    BY <1>1, <1>3
  <2>2. PICK i \in DOMAIN queue : queue[i] = d
    BY <2>1 DEF OneAtATime
  <2>3. i - 1 \in 1..(Len(queue) - 1) /\ (i - 1) + 1 = i
    BY <1>1, <2>1, <2>2
  <2>4. i - 1 \in DOMAIN queue' /\ queue'[i - 1] = d
    BY <1>1, <2>2, <2>3
  <2>5. QED
    BY <2>4
<1>4. QED
  BY <1>2, <1>3 DEF OneAtATime, Guarded

(* A call that is not in the lock moves outside it. *)
LEMMA QueueOutside ==
  ASSUME SaleTypes, OneAtATime, NEW c \in Sale, stage[c] \notin Guarded, queue' = queue,
         stage'[c] \notin Guarded, \A d \in Sale : d # c => stage'[d] = stage[d]
  PROVE  OneAtATime'
<1>1. ASSUME NEW i \in DOMAIN queue, queue[i] \in Sale
      PROVE  stage'[queue[i]] = stage[queue[i]]
  BY <1>1 DEF OneAtATime
<1>2. \A i \in DOMAIN queue : queue[i] \in Sale =>
          /\ stage'[queue[i]] \in Guarded
          /\ i # 1 => stage'[queue[i]] = "check"
  BY <1>1 DEF OneAtATime
<1>3. \A d \in Sale : stage'[d] \in Guarded => \E i \in DOMAIN queue : queue[i] = d
  BY DEF OneAtATime
<1>4. \A i, j \in DOMAIN queue : queue[i] \in Sale /\ queue[i] = queue[j] => i = j
  BY DEF OneAtATime
<1>5. QED
  BY <1>2, <1>3, <1>4 DEF OneAtATime

LEMMA QueueJoins ==
  ASSUME SaleTypes, OneAtATime, NEW c \in Sale, stage[c] \notin Guarded,
         queue' = Append(queue, c), stage'[c] = "check", \A d \in Sale : d # c => stage'[d] = stage[d]
  PROVE  OneAtATime' /\ queue' \in Seq(Sale \cup Marker)
<1>1. /\ Len(queue) \in Nat /\ DOMAIN queue = 1..Len(queue) /\ DOMAIN queue' = 1..(Len(queue) + 1)
      /\ queue'[Len(queue) + 1] = c /\ \A i \in 1..Len(queue) : queue'[i] = queue[i]
      /\ queue' \in Seq(Sale \cup Marker)
  BY AppendProperties DEF SaleTypes
<1>2. \A i \in DOMAIN queue : queue[i] # c
  BY DEF OneAtATime
<1>3. ASSUME NEW i \in DOMAIN queue', queue'[i] \in Sale
      PROVE  /\ stage'[queue'[i]] \in Guarded
             /\ i # 1 => stage'[queue'[i]] = "check"
             /\ \A j \in DOMAIN queue' : queue'[i] = queue'[j] => i = j
  <2>1. CASE i \in 1..Len(queue)
    <3>1. queue'[i] = queue[i] /\ queue[i] # c
      BY <1>1, <1>2, <2>1
    <3>2. stage[queue[i]] \in Guarded /\ (i # 1 => stage[queue[i]] = "check")
      BY <1>1, <1>3, <2>1, <3>1 DEF OneAtATime
    <3>3. ASSUME NEW j \in DOMAIN queue', queue'[i] = queue'[j]
          PROVE  i = j
      <4>1. j \in 1..Len(queue)
        BY <1>1, <3>1, <3>3
      <4>2. QED
        BY <1>1, <1>3, <2>1, <3>1, <3>3, <4>1 DEF OneAtATime
    <3>4. QED
      BY <1>3, <3>1, <3>2, <3>3
  <2>2. CASE i = Len(queue) + 1
    BY <1>1, <1>2, <2>2 DEF Guarded
  <2>3. QED
    BY <1>1, <2>1, <2>2
<1>4. ASSUME NEW d \in Sale, stage'[d] \in Guarded
      PROVE  \E i \in DOMAIN queue' : queue'[i] = d
  <2>1. CASE d = c
    BY <1>1, <2>1
  <2>2. CASE d # c
    <3>1. PICK i \in DOMAIN queue : queue[i] = d
      BY <1>4, <2>2 DEF OneAtATime
    <3>2. QED
      BY <1>1, <3>1
  <2>3. QED
    BY <2>1, <2>2
<1>5. QED
  BY <1>1, <1>3, <1>4 DEF OneAtATime

-----------------------------------------------------------------------------
(* One call moves, and what the others are and have sent stays. *)
Alone(c) ==
    /\ \A d \in Sale : d # c =>
          /\ stage'[d] = stage[d] /\ outcome'[d] = outcome[d] /\ answer'[d] = answer[d]
          /\ client'[d] = client[d] /\ made'[d] = made[d]
          /\ saw'[d] = saw[d] /\ life'[d] = life[d]
    /\ \A r : r.call # c => (r \in mail' <=> r \in mail)
    /\ BookTypes' /\ Grows(c)
    /\ restarts' = restarts

LEMMA SameBooks ==
  ASSUME NEW c, UNCHANGED books
  PROVE  (Stored(c)' <=> Stored(c)) /\ ClientsOf(c)' = ClientsOf(c)
  BY DEF books, Stored, ClientsOf

LEMMA AtStage ==
  ASSUME NEW c \in Sale, SaleTypes, SaleInv(c), stage[c] # "over"
  PROVE  outcome[c] = "none"
  BY DEF SaleInv, Lives

LEMMA NoRequest ==
  ASSUME NEW c \in Sale, SaleTypes, SaleInv(c),
         \/ stage[c] \in {"new", "reviewed", "check", "resolve"}
         \/ stage[c] \in {"customer", "invoice", "undo"} /\ answer[c] # "none"
  PROVE  \A r \in mail : r.call # c
<1> SUFFICES ASSUME NEW r \in mail, r.call = c
             PROVE  FALSE
  OBVIOUS
<1>1. r.op \in {"customer", "invoice", "undo"}
  BY DEF SaleTypes, Request
<1>2. outcome[c] = "none"
  BY AtStage
<1>3. (stage[c] = r.op => answer[c] = "none") /\ (stage[c] = r.op \/ stage[c] = "dead")
  BY <1>1, <1>2 DEF SaleInv, Requests
<1>4. QED
  BY <1>1, <1>3

(* A call leaves the lock and reports. *)
LEMMA EndKeeps ==
  ASSUME SaleTypes, OneAtATime, NEW c \in Sale, SaleInv(c), NEW s \in Guarded, Holds(c, s),
         NEW what \in Outcomes \ {"none"}, End(c, what),
         UNCHANGED <<books, mail, client, made, answer, life, restarts, foreign>>,
         markers' \in Seq(Marker), released' \in Seq(Marker), reserved' \subseteq Sale, errors' \in Nat,
         saw' \in [Sale -> [stored : Nat, unknown : SUBSET Sale]],
         saw'[c].stored <= Len(invoices), \A d \in Sale : d # c => saw'[d] = saw[d],
         what \in {"unavailable", "held"} => s = "check",
         s \in {"check", "resolve"} => what \in {"unavailable", "held", "failed"},
         s = "customer" => what = "failed",
         s = "invoice" => \/ what = "created" /\ answer[c] = "ok"
                          \/ what = "indeterminate"
                          \/ what = "failed" /\ answer[c] = "rejected",
         s = "undo" => (what = "rolledBack" /\ answer[c] = "ok") \/ what = "rollbackUnknown"
  PROVE  SaleTypes' /\ OneAtATime' /\ Alone(c) /\ SaleInv(c)'
         /\ stage'[c] = "over" /\ outcome'[c] = what
<1>1. stage[c] = s /\ queue # << >> /\ Head(queue) = c /\ outcome[c] = "none"
  BY AtStage DEF Holds, Guarded
<1>2. /\ stage' \in [Sale -> Stages] /\ stage'[c] = "over"
      /\ \A d \in Sale : d # c => stage'[d] = stage[d]
      /\ outcome' \in [Sale -> Outcomes] /\ outcome'[c] = what
      /\ \A d \in Sale : d # c => outcome'[d] = outcome[d]
      /\ queue' \in Seq(Sale \cup Marker) /\ queue' = Tail(queue)
  BY <1>1, EndEffect
<1>3. SaleTypes'
  BY <1>2 DEF SaleTypes, BookTypes, books
<1>4. OneAtATime'
  BY <1>1, <1>2, QueuePasses DEF Guarded
<1>5. Alone(c)
  BY <1>2, NoGrowth DEF Alone, SaleTypes
<1>6. (Stored(c)' <=> Stored(c)) /\ ClientsOf(c)' = ClientsOf(c) /\ clients' = clients /\ invoices' = invoices
  BY SameBooks DEF books
<1>7. Lives(c)'
  BY <1>1, <1>2 DEF SaleInv, Lives, Guarded
<1>8. Requests(c)'
  <2> SUFFICES ASSUME NEW r \in mail, r.call = c
               PROVE  /\ stage'[c] # r.op
                      /\ r.op = "customer" => r.client = 0 /\ outcome'[c] = "failed" /\ ClientsOf(c) = {}
                      /\ r.op = "invoice" => r.client = client[c] /\ outcome'[c] = "indeterminate" /\ ~Stored(c)
                      /\ r.op = "undo" => r.client = client[c] /\ made[c] /\ outcome'[c] = "rollbackUnknown"
    BY <1>6 DEF Requests
  <2>1. r.op \in {"customer", "invoice", "undo"}
    BY DEF SaleTypes, Request
  <2>2. s \in {"customer", "invoice", "undo"} /\ answer[c] = "none"
    BY <1>1, NoRequest DEF Guarded
  <2>3. /\ r.op = "customer" => r.client = 0 /\ s = "customer" /\ ClientsOf(c) = {}
        /\ r.op = "invoice" => r.client = client[c] /\ s = "invoice" /\ ~Stored(c)
        /\ r.op = "undo" => r.client = client[c] /\ made[c] /\ s = "undo"
    BY <1>1, <2>2 DEF SaleInv, Requests
  <2>4. QED
    BY <1>2, <2>1, <2>2, <2>3
<1>9. InvoiceOf(c)' => InvoiceOf(c)
  BY <1>6 DEF InvoiceOf
<1>10. ItsInvoice(c)'
  <2>1. Stored(c) => s = "invoice" /\ answer[c] \in {"ok", "noId"}
    BY <1>1 DEF SaleInv, ItsInvoice, Guarded
  <2>2. s = "invoice" /\ answer[c] = "ok" => Stored(c)
    BY <1>1 DEF SaleInv, ItsInvoice
  <2>3. Stored(c) => what \in {"created", "indeterminate"}
    BY <2>1
  <2>4. what = "created" => Stored(c)
    BY <2>2 DEF Guarded
  <2>5. /\ \A i \in DOMAIN invoices : invoices[i].by = c =>
              invoices[i].event = EventOf[c] /\ invoices[i].client = client[c]
        /\ InvoiceOf(c) => Given(c) \in {0, client[c]}
    BY DEF SaleInv, ItsInvoice
  <2>6. Given(c)' = Given(c)
    BY DEF Given
  <2>7. QED
    BY <1>2, <1>6, <1>9, <2>3, <2>4, <2>5, <2>6 DEF ItsInvoice
<1>11. ItsClient(c)'
  <2>1. what \in {"created", "indeterminate"} => client[c] # 0
    BY <1>1 DEF SaleInv, ItsClient, Guarded
  <2>2. ClientsOf(c) # {} => what \notin {"unavailable", "held"}
    BY <1>1 DEF SaleInv, ItsClient
  <2>3. /\ client[c] <= Len(clients)
        /\ made[c] => client[c] \in ClientsOf(c)
        /\ \A k, l \in ClientsOf(c) : k = l
        /\ s = "undo" => made[c] /\ (answer[c] = "ok" => ~clients[client[c]].active)
        /\ (\E k \in ClientsOf(c) : ~clients[k].active) => s = "undo"
    BY <1>1 DEF SaleInv, ItsClient, Guarded
  <2>4. what = "rolledBack" => \A k \in ClientsOf(c) : ~clients[k].active
    BY <2>3 DEF Guarded
  <2>5. s = "undo" => what \in {"rolledBack", "rollbackUnknown"}
    OBVIOUS
  <2>6. (\E k \in ClientsOf(c) : ~clients[k].active) => what \in {"rolledBack", "rollbackUnknown"}
    BY <2>3, <2>5
  <2>7. QED
    BY <1>2, <1>6, <2>1, <2>2, <2>3, <2>4, <2>6 DEF ItsClient
<1>12. QED
  BY <1>2, <1>3, <1>4, <1>5, <1>7, <1>8, <1>10, <1>11 DEF SaleInv

(* A call sends its next request. *)
SendsWhat(c, s, op, k) ==
    \/ op = "customer" /\ s = "resolve" /\ c \in Inline /\ k = 0 /\ client' = client /\ made' = made
    \/ /\ op = "invoice" /\ k \in DOMAIN clients /\ Given(c) \in {0, k} /\ client'[c] = k
       /\ \/ s = "resolve" /\ made' = made
          \/ s = "customer" /\ answer[c] = "ok" /\ k \in ClientsOf(c) /\ made'[c]
    \/ op = "undo" /\ s = "invoice" /\ answer[c] = "rejected" /\ made[c] /\ k = client[c]
       /\ client' = client /\ made' = made

LEMMA SendKeeps ==
  ASSUME SaleTypes, OneAtATime, NEW c \in Sale, SaleInv(c), NEW s \in Guarded, Holds(c, s),
         NEW op, NEW k \in Nat, Send(c, op, k), SendsWhat(c, s, op, k),
         client' \in [Sale -> Nat], \A d \in Sale : d # c => client'[d] = client[d],
         made' \in [Sale -> BOOLEAN], \A d \in Sale : d # c => made'[d] = made[d],
         UNCHANGED <<books, queue, markers, released, outcome, saw, life, restarts, foreign>>,
         reserved' \subseteq Sale, errors' \in Nat
  PROVE  SaleTypes' /\ OneAtATime' /\ Alone(c) /\ SaleInv(c)'
         /\ stage'[c] = op /\ mail' = mail \cup {[op |-> op, call |-> c, client |-> k]}
<1> DEFINE new == [op |-> op, call |-> c, client |-> k]
<1>1. stage[c] = s /\ outcome[c] = "none" /\ op \in {"customer", "invoice", "undo"}
      /\ s \in {"resolve", "customer", "invoice"}
  BY AtStage DEF Holds, Guarded, SendsWhat
<1>2. /\ stage' \in [Sale -> Stages] /\ stage'[c] = op
      /\ \A d \in Sale : d # c => stage'[d] = stage[d]
      /\ answer' \in [Sale -> Answers] /\ answer'[c] = "none"
      /\ \A d \in Sale : d # c => answer'[d] = answer[d]
      /\ mail' \subseteq Request /\ mail' = mail \cup {new}
  BY <1>1, SendEffect
<1>3. new.op = op /\ new.call = c /\ new.client = k
  OBVIOUS
<1> HIDE DEF new
<1>4. SaleTypes'
  BY <1>2 DEF SaleTypes, BookTypes, books
<1>5. OneAtATime'
  BY <1>1, <1>2, QueueStays DEF Guarded
<1>6. Alone(c)
  BY <1>2, <1>3, NoGrowth DEF Alone, SaleTypes
<1>7. (Stored(c)' <=> Stored(c)) /\ ClientsOf(c)' = ClientsOf(c) /\ clients' = clients /\ invoices' = invoices
  BY SameBooks DEF books
<1>8. \A r \in mail' : r.call = c => r = new
  <2>1. s = "resolve" \/ answer[c] # "none"
    BY DEF SendsWhat
  <2>2. \A r \in mail : r.call # c
    BY <1>1, <2>1, NoRequest
  <2>3. QED
    BY <1>2, <2>2
<1>9. Lives(c)'
  BY <1>1, <1>2 DEF SaleInv, Lives, Guarded, SendsWhat
<1>10. Stored(c) = FALSE
  <2>1. Stored(c) => s = "invoice" /\ answer[c] \in {"ok", "noId"}
    BY <1>1 DEF SaleInv, ItsInvoice, Guarded
  <2>2. s = "invoice" => answer[c] = "rejected"
    BY DEF SendsWhat
  <2>3. QED
    BY <2>1, <2>2 DEF Stored
<1>11. made[c] => s = "invoice" \/ (op = "invoice" /\ s = "customer")
  <2>1. made[c] => ClientsOf(c) # {}
    BY DEF SaleInv, ItsClient
  <2>2. ClientsOf(c) # {} => s # "resolve"
    BY <1>1 DEF SaleInv, ItsClient
  <2>3. s = "customer" => op = "invoice"
    BY DEF SendsWhat
  <2>4. QED
    BY <1>1, <2>1, <2>2, <2>3
<1>12. s = "resolve" => ClientsOf(c) = {}
  BY <1>1 DEF SaleInv, ItsClient
<1>13. /\ op = "customer" => k = 0 /\ s = "resolve"
       /\ op = "invoice" => k = client'[c] /\ Given(c) \in {0, k}
       /\ op = "undo" => k = client'[c] /\ made'[c]
  BY DEF SendsWhat
<1>14. Requests(c)'
  <2> SUFFICES ASSUME NEW r \in mail', r.call = c
               PROVE  /\ answer'[c] = "none"
                      /\ r.op = "customer" => r.client = 0 /\ stage'[c] = "customer" /\ ClientsOf(c) = {}
                      /\ r.op = "invoice" => r.client = client'[c] /\ stage'[c] = "invoice" /\ ~Stored(c)
                      /\ r.op = "undo" => r.client = client'[c] /\ made'[c] /\ stage'[c] = "undo"
    BY <1>7 DEF Requests
  <2>1. r = new
    BY <1>8
  <2>2. QED
    BY <1>2, <1>3, <1>10, <1>12, <1>13, <2>1
<1>15. ItsInvoice(c)'
  <2>1. InvoiceOf(c)' => op = "invoice"
    <3>1. ~Stored(c)'
      BY <1>7, <1>10
    <3>2. QED
      BY <1>3, <1>8, <3>1 DEF InvoiceOf, Stored
  <2>2. Given(c)' = Given(c)
    BY DEF Given
  <2>3. saw[c].stored <= Len(invoices) /\ outcome[c] # "created"
    BY <1>1 DEF SaleInv, ItsInvoice
  <2>4. \A i \in DOMAIN invoices' : invoices'[i].by # c
    BY <1>7, <1>10 DEF Stored
  <2>5. ~Stored(c)' /\ (stage'[c] = "invoice" => answer'[c] \notin {"ok", "noId"})
    BY <1>2, <1>7, <1>10
  <2>6. InvoiceOf(c)' => Given(c)' \in {0, client'[c]}
    BY <1>13, <2>1, <2>2
  <2>7. (saw[c].stored <= Len(invoices) /\ outcome[c] # "created")'
    BY <1>7, <2>3
  <2>8. QED
    BY <2>4, <2>5, <2>6, <2>7 DEF ItsInvoice
<1>16. ItsClient(c)'
  <2>1. /\ client[c] <= Len(clients)
        /\ made[c] => client[c] \in ClientsOf(c)
        /\ \A j, l \in ClientsOf(c) : j = l
        /\ \A j \in ClientsOf(c) : clients[j].active
    BY <1>1 DEF SaleInv, ItsClient, Guarded
  <2>2. client[c] # 0 \/ s # "invoice"
    BY <1>1 DEF SaleInv, ItsClient
  <2>3. client'[c] <= Len(clients)
    BY <2>1, Clients DEF SendsWhat, SaleTypes
  <2>4. op \in {"invoice", "undo"} => client'[c] # 0
    BY <1>13, <2>2, Clients DEF SendsWhat, SaleTypes
  <2>5. made'[c] => client'[c] \in ClientsOf(c)
    BY <1>11, <2>1 DEF SendsWhat
  <2>6. op = "undo" => made'[c]
    BY <1>13
  <2>7. QED
    BY <1>1, <1>2, <1>7, <2>1, <2>3, <2>4, <2>5, <2>6 DEF ItsClient
<1>17. QED
  BY <1>2, <1>4, <1>5, <1>6, <1>9, <1>14, <1>15, <1>16 DEF SaleInv, new

-----------------------------------------------------------------------------
(* The operations of a call. *)
Moves(c) == SaleTypes' /\ OneAtATime' /\ Alone(c) /\ SaleInv(c)'

LEMMA PrepareMoves ==
  ASSUME SaleTypes, OneAtATime, NEW c \in Sale, SaleInv(c), Prepare(c)
  PROVE  Moves(c)
<1>1. stage[c] = "new" /\ Advance(c, "reviewed") /\ life' = [life EXCEPT ![c] = restarts]
      /\ UNCHANGED <<books, foreign, restarts, mail, queue, guard, client, made, answer, outcome, saw, errors>>
  BY DEF Prepare, Keep
<1>2. /\ stage' \in [Sale -> Stages] /\ stage'[c] = "reviewed"
      /\ \A d \in Sale : d # c => stage'[d] = stage[d]
  BY <1>1, AdvanceEffect DEF Stages
<1>3. life' \in [Sale -> Nat] /\ life'[c] = restarts /\ \A d \in Sale : d # c => life'[d] = life[d]
  BY <1>1 DEF SaleTypes
<1>4. SaleTypes'
  BY <1>1, <1>2, <1>3 DEF SaleTypes, BookTypes, books, guard
<1>5. OneAtATime'
  BY <1>1, <1>2, QueueOutside DEF Guarded
<1>6. Alone(c)
  BY <1>1, <1>2, <1>3, NoGrowth DEF Alone, SaleTypes
<1>7. (Stored(c)' <=> Stored(c)) /\ ClientsOf(c)' = ClientsOf(c) /\ clients' = clients /\ invoices' = invoices
  BY <1>1, SameBooks DEF books
<1>8. outcome[c] = "none" /\ \A r \in mail : r.call # c
  BY <1>1, AtStage, NoRequest
<1>9. Lives(c)' /\ Requests(c)'
  <2>1. restarts \in Nat
    BY DEF SaleTypes
  <2>2. QED
    BY <1>1, <1>2, <1>3, <1>8, <2>1 DEF Lives, Requests
<1>10. ItsInvoice(c)' /\ ItsClient(c)'
  <2>1. InvoiceOf(c)' <=> InvoiceOf(c)
    BY <1>1, <1>7 DEF InvoiceOf
  <2>2. Given(c)' = Given(c)
    BY DEF Given
  <2>3. ItsInvoice(c)'
    BY <1>1, <1>2, <1>7, <2>1, <2>2 DEF SaleInv, ItsInvoice
  <2>4. ItsClient(c)'
    BY <1>1, <1>2, <1>7, <1>8 DEF SaleInv, ItsClient
  <2>5. QED
    BY <2>3, <2>4
<1>11. QED
  BY <1>4, <1>5, <1>6, <1>9, <1>10 DEF SaleInv, Moves

LEMMA ConsumeMoves ==
  ASSUME SaleTypes, OneAtATime, NEW c \in Sale, SaleInv(c), Consume(c)
  PROVE  Moves(c)
<1>1. stage[c] = "reviewed" /\ Advance(c, "check") /\ queue' = Append(queue, c)
      /\ UNCHANGED <<books, foreign, restarts, mail, guard, client, made, answer, outcome, saw, life, errors>>
  BY DEF Consume, Keep
<1>2. /\ stage' \in [Sale -> Stages] /\ stage'[c] = "check"
      /\ \A d \in Sale : d # c => stage'[d] = stage[d]
  BY <1>1, AdvanceEffect DEF Stages
<1>3. OneAtATime' /\ queue' \in Seq(Sale \cup Marker)
  BY <1>1, <1>2, QueueJoins DEF Guarded
<1>4. SaleTypes'
  BY <1>1, <1>2, <1>3 DEF SaleTypes, BookTypes, books, guard
<1>6. Alone(c)
  BY <1>1, <1>2, NoGrowth DEF Alone, SaleTypes
<1>7. (Stored(c)' <=> Stored(c)) /\ ClientsOf(c)' = ClientsOf(c) /\ clients' = clients /\ invoices' = invoices
  BY <1>1, SameBooks DEF books
<1>8. outcome[c] = "none" /\ \A r \in mail : r.call # c
  BY <1>1, AtStage, NoRequest
<1>9. Lives(c)' /\ Requests(c)'
  BY <1>1, <1>2, <1>8 DEF SaleInv, Lives, Requests
<1>10. ItsInvoice(c)' /\ ItsClient(c)'
  <2>1. InvoiceOf(c)' <=> InvoiceOf(c)
    BY <1>1, <1>7 DEF InvoiceOf
  <2>2. Given(c)' = Given(c)
    BY DEF Given
  <2>3. ItsInvoice(c)'
    BY <1>1, <1>2, <1>7, <2>1, <2>2 DEF SaleInv, ItsInvoice
  <2>4. ItsClient(c)'
    BY <1>1, <1>2, <1>7, <1>8 DEF SaleInv, ItsClient
  <2>5. QED
    BY <2>3, <2>4
<1>11. QED
  BY <1>3, <1>4, <1>6, <1>9, <1>10 DEF SaleInv, Moves

LEMMA AtHead ==
  ASSUME SaleTypes, NEW c \in Sale, SaleInv(c), NEW s \in Guarded, Holds(c, s)
  PROVE  stage[c] = s /\ queue # << >> /\ Head(queue) = c /\ outcome[c] = "none" /\ life[c] = restarts
  BY AtStage DEF Holds, SaleInv, Lives, Guarded

(* What c sees at its check is what is there. *)
LEMMA SeeEffect ==
  ASSUME SaleTypes, NEW c \in Sale, See(c)
  PROVE  /\ saw' \in [Sale -> [stored : Nat, unknown : SUBSET Sale]]
         /\ saw'[c].unknown = {d \in Sale : outcome[d] = "indeterminate"}
         /\ saw'[c].stored <= Len(invoices)
         /\ \A d \in Sale : d # c => saw'[d] = saw[d]
<1>1. Len(invoices) \in Nat
  BY DEF SaleTypes, BookTypes
<1> DEFINE sight == [stored |-> Len(invoices), unknown |-> {d \in Sale : outcome[d] = "indeterminate"}]
<1>2. saw' = [saw EXCEPT ![c] = sight]
  BY DEF See
<1>3. /\ sight \in [stored : Nat, unknown : SUBSET Sale] /\ sight.stored <= Len(invoices)
      /\ sight.unknown = {d \in Sale : outcome[d] = "indeterminate"}
  BY <1>1
<1> HIDE DEF sight
<1>4. QED
  BY <1>2, <1>3 DEF SaleTypes

(* The check lets a call pass, or ends it. *)
Passes(c) ==
    /\ Matching(markers, c) = {}
    /\ Suspected(c) => ~Listed(EventOf[c], Evidence(c).client)
    /\ ~(Len(markers) + Cardinality(reserved) + Len(released) >= Capacity)
    /\ reserved' = reserved \cup {c} /\ Advance(c, "resolve")
    /\ UNCHANGED <<markers, released, outcome, queue>>

LEMMA CheckEffect ==
  ASSUME NEW c \in Sale, Check(c)
  PROVE  /\ Holds(c, "check") /\ See(c)
         /\ UNCHANGED <<books, foreign, restarts, mail, client, made, answer, life, errors>>
         /\ \/ \E what \in {"unavailable", "held"} : End(c, what) /\ UNCHANGED guard
            \/ Passes(c)
<1>1. CASE Matching(markers, c) # {} \/ (Suspected(c) /\ Listed(EventOf[c], Evidence(c).client))
  BY <1>1 DEF Check, Keep
<1>2. CASE ~(Matching(markers, c) # {} \/ (Suspected(c) /\ Listed(EventOf[c], Evidence(c).client)))
  <2>1. Reserve(c)
    BY <1>2 DEF Check
  <2>2. (\E what \in {"unavailable", "held"} : End(c, what) /\ UNCHANGED guard) \/ Passes(c)
    BY <1>2, <2>1 DEF Reserve, Passes
  <2>3. QED
    BY <2>2 DEF Check, Keep
<1>3. QED
  BY <1>1, <1>2

LEMMA PassMoves ==
  ASSUME SaleTypes, OneAtATime, NEW c \in Sale, SaleInv(c), Holds(c, "check"), See(c), Passes(c),
         UNCHANGED <<books, foreign, restarts, mail, client, made, answer, life, errors>>
  PROVE  Moves(c) /\ stage'[c] = "resolve"
<1>1. stage[c] = "check" /\ outcome[c] = "none" /\ life[c] = restarts
  BY AtHead DEF Guarded
<1>2. /\ stage' \in [Sale -> Stages] /\ stage'[c] = "resolve"
      /\ \A d \in Sale : d # c => stage'[d] = stage[d]
  BY AdvanceEffect DEF Passes, Stages
<1>3. OneAtATime'
  BY <1>1, <1>2, QueueStays DEF Guarded, Passes
<1>4. SaleTypes'
  BY <1>1, <1>2, <1>3, SeeEffect DEF SaleTypes, BookTypes, books, Passes
<1>6. Alone(c)
  <2>1. Grows(c) /\ BookTypes'
    BY NoGrowth DEF SaleTypes
  <2>2. \A d \in Sale : d # c => saw'[d] = saw[d]
    BY SeeEffect
  <2>3. QED
    BY <1>2, <2>1, <2>2 DEF Alone, Passes
<1>7. (Stored(c)' <=> Stored(c)) /\ ClientsOf(c)' = ClientsOf(c) /\ clients' = clients /\ invoices' = invoices
  BY SameBooks DEF books
<1>8. \A r \in mail : r.call # c
  BY <1>1, NoRequest
<1>9. Lives(c)' /\ Requests(c)'
  BY <1>1, <1>2, <1>8 DEF SaleInv, Lives, Requests, Passes, Guarded
<1>10. ItsInvoice(c)' /\ ItsClient(c)'
  <2>1. InvoiceOf(c)' <=> InvoiceOf(c)
    BY <1>7 DEF InvoiceOf
  <2>2. Given(c)' = Given(c)
    BY DEF Given
  <2>3. (saw[c].stored <= Len(invoices))'
    <3>1. saw'[c].stored <= Len(invoices)
      BY SeeEffect
    <3>2. QED
      BY <1>7, <3>1
  <2>4. ~Stored(c) /\ ~Stored(c)' /\ outcome'[c] = "none"
    BY <1>1, <1>7 DEF SaleInv, ItsInvoice, Passes
  <2>5. \A i \in DOMAIN invoices' : invoices'[i].by # c
    BY <2>4 DEF Stored
  <2>6. InvoiceOf(c)' => Given(c)' \in {0, client'[c]}
    BY <2>1, <2>2 DEF SaleInv, ItsInvoice
  <2>7. ItsInvoice(c)'
    BY <1>2, <2>3, <2>4, <2>5, <2>6 DEF ItsInvoice
  <2>8. ItsClient(c)'
    BY <1>1, <1>2, <1>7 DEF SaleInv, ItsClient, Passes
  <2>9. QED
    BY <2>7, <2>8
<1>11. QED
  BY <1>2, <1>3, <1>4, <1>6, <1>9, <1>10 DEF SaleInv, Moves

LEMMA CheckMoves ==
  ASSUME SaleTypes, OneAtATime, NEW c \in Sale, SaleInv(c), Check(c)
  PROVE  Moves(c)
<1>1. /\ Holds(c, "check") /\ See(c)
      /\ UNCHANGED <<books, foreign, restarts, mail, client, made, answer, life, errors>>
      /\ \/ \E what \in {"unavailable", "held"} : End(c, what) /\ UNCHANGED guard
         \/ Passes(c)
  BY CheckEffect
<1>2. CASE Passes(c)
  BY <1>1, <1>2, PassMoves
<1>3. ASSUME NEW what \in {"unavailable", "held"}, End(c, what), UNCHANGED guard
      PROVE  Moves(c)
  <2>1. /\ saw' \in [Sale -> [stored : Nat, unknown : SUBSET Sale]]
        /\ saw'[c].stored <= Len(invoices)
        /\ \A d \in Sale : d # c => saw'[d] = saw[d]
    BY <1>1, SeeEffect
  <2>2. /\ markers' \in Seq(Marker) /\ released' \in Seq(Marker) /\ reserved' \subseteq Sale
        /\ errors' \in Nat
    BY <1>1, <1>3 DEF SaleTypes, guard
  <2>3. "check" \in Guarded /\ what \in Outcomes \ {"none"}
    BY DEF Guarded, Outcomes
  <2> DEFINE s == "check"
  <2>4. /\ what \in {"unavailable", "held"} => s = "check"
        /\ s \in {"check", "resolve"} => what \in {"unavailable", "held", "failed"}
        /\ s # "customer" /\ s # "invoice" /\ s # "undo"
    OBVIOUS
  <2>5. s \in Guarded /\ Holds(c, s)
    BY <1>1, <2>3
  <2> HIDE DEF s
  <2>6. QED
    BY <1>1, <1>3, <2>1, <2>2, <2>3, <2>4, <2>5, EndKeeps DEF Moves
<1>4. QED
  BY <1>1, <1>2, <1>3

(* What leaves the lock without a look at the books: the shape of EndKeeps with what the
   call saw and the guard's types as they are. *)
LEMMA LeaveMoves ==
  ASSUME SaleTypes, OneAtATime, NEW c \in Sale, SaleInv(c), NEW s \in Guarded, Holds(c, s),
         NEW what \in Outcomes \ {"none"}, End(c, what),
         UNCHANGED <<books, foreign, restarts, mail, client, made, answer, saw, life>>,
         markers' \in Seq(Marker), released' = released, reserved' \subseteq Sale, errors' \in Nat,
         what \in {"unavailable", "held"} => s = "check",
         s \in {"check", "resolve"} => what \in {"unavailable", "held", "failed"},
         s = "customer" => what = "failed",
         s = "invoice" => \/ what = "created" /\ answer[c] = "ok"
                          \/ what = "indeterminate"
                          \/ what = "failed" /\ answer[c] = "rejected",
         s = "undo" => (what = "rolledBack" /\ answer[c] = "ok") \/ what = "rollbackUnknown"
  PROVE  Moves(c)
<1>1. /\ saw' \in [Sale -> [stored : Nat, unknown : SUBSET Sale]]
      /\ saw'[c].stored <= Len(invoices)
      /\ \A d \in Sale : d # c => saw'[d] = saw[d]
  BY DEF SaleTypes, SaleInv, ItsInvoice
<1>2. released' \in Seq(Marker)
  BY DEF SaleTypes
<1>3. QED
  BY <1>1, <1>2, EndKeeps DEF Moves

LEMMA ErrorsTyped ==
  ASSUME SaleTypes, Fault \/ UNCHANGED errors
  PROVE  errors' \in Nat
  BY DEF SaleTypes, Fault

LEMMA UnansweredErrors ==
  ASSUME SaleTypes, NEW c \in Sale, Unanswered(c)
  PROVE  errors' \in Nat
  BY ErrorsTyped DEF Unanswered

LEMMA AbandonTyped ==
  ASSUME SaleTypes, NEW c \in Sale, Abandon(c) \/ UNCHANGED guard
  PROVE  markers' \in Seq(Marker) /\ released' = released /\ reserved' \subseteq Sale
  BY DEF SaleTypes, Abandon, guard

LEMMA CheckFailsMoves ==
  ASSUME SaleTypes, OneAtATime, NEW c \in Sale, SaleInv(c), CheckFails(c)
  PROVE  Moves(c)
<1> DEFINE s == "check"
<1>1. Holds(c, s) /\ errors' \in Nat
  BY ErrorsTyped DEF CheckFails
<1>2. PICK what \in {"held", "failed"} : End(c, what)
  BY DEF CheckFails
<1>3. /\ UNCHANGED <<books, foreign, restarts, mail, client, made, answer, saw, life>>
      /\ markers' \in Seq(Marker) /\ released' = released /\ reserved' \subseteq Sale
  BY AbandonTyped DEF CheckFails, Keep
<1>4. s \in Guarded /\ what \in Outcomes \ {"none"} /\ s = "check"
      /\ s \notin {"customer", "invoice", "undo"}
  BY DEF Guarded, Outcomes
<1> HIDE DEF s
<1>5. QED
  BY <1>1, <1>2, <1>3, <1>4, LeaveMoves

LEMMA ResolveRefusedMoves ==
  ASSUME SaleTypes, OneAtATime, NEW c \in Sale, SaleInv(c), ResolveRefused(c)
  PROVE  Moves(c)
<1> DEFINE s == "resolve"  what == "failed"
<1>1. Holds(c, s) /\ errors' \in Nat /\ End(c, what)
  BY ErrorsTyped DEF ResolveRefused
<1>2. /\ UNCHANGED <<books, foreign, restarts, mail, client, made, answer, saw, life>>
      /\ markers' \in Seq(Marker) /\ released' = released /\ reserved' \subseteq Sale
  BY AbandonTyped DEF ResolveRefused, Keep
<1>3. s \in Guarded /\ what \in Outcomes \ {"none"} /\ what = "failed"
      /\ s \notin {"check", "customer", "invoice", "undo"} /\ what \notin {"unavailable", "held"}
  BY DEF Guarded, Outcomes
<1> HIDE DEF s, what
<1>4. QED
  BY <1>1, <1>2, <1>3, LeaveMoves

LEMMA CustomerFailedMoves ==
  ASSUME SaleTypes, OneAtATime, NEW c \in Sale, SaleInv(c), CustomerFailed(c)
  PROVE  Moves(c)
<1> DEFINE s == "customer"  what == "failed"
<1>1. Holds(c, s) /\ errors' \in Nat /\ End(c, what)
  BY ErrorsTyped, UnansweredErrors DEF CustomerFailed
<1>2. /\ UNCHANGED <<books, foreign, restarts, mail, client, made, answer, saw, life>>
      /\ markers' \in Seq(Marker) /\ released' = released /\ reserved' \subseteq Sale
  BY AbandonTyped DEF CustomerFailed, Keep
<1>3. s \in Guarded /\ what \in Outcomes \ {"none"} /\ what = "failed"
      /\ s \notin {"check", "resolve", "invoice", "undo"} /\ what \notin {"unavailable", "held"}
  BY DEF Guarded, Outcomes
<1> HIDE DEF s, what
<1>4. QED
  BY <1>1, <1>2, <1>3, LeaveMoves

LEMMA InvoiceCreatedMoves ==
  ASSUME SaleTypes, OneAtATime, NEW c \in Sale, SaleInv(c), InvoiceCreated(c)
  PROVE  Moves(c)
<1> DEFINE s == "invoice"  what == "created"
<1>1. Holds(c, s) /\ errors' \in Nat /\ End(c, what) /\ answer[c] = "ok"
  BY ErrorsTyped DEF InvoiceCreated
<1>2. /\ UNCHANGED <<books, foreign, restarts, mail, client, made, answer, saw, life>>
      /\ markers' \in Seq(Marker) /\ released' = released /\ reserved' \subseteq Sale
  BY AbandonTyped DEF InvoiceCreated, Keep
<1>3. s \in Guarded /\ what \in Outcomes \ {"none"} /\ what = "created"
      /\ s \notin {"check", "resolve", "customer", "undo"} /\ what \notin {"unavailable", "held"}
  BY DEF Guarded, Outcomes
<1> HIDE DEF s, what
<1>4. QED
  BY <1>1, <1>2, <1>3, LeaveMoves

(* An unknown outcome leaves its marker. *)
LEMMA MarkEffect ==
  ASSUME SaleTypes, NEW c \in Sale, MarkIndeterminate(c)
  PROVE  /\ markers' \in Seq(Marker) /\ released' = released /\ reserved' = reserved \ {c}
         /\ Len(markers) \in Nat /\ DOMAIN markers = 1..Len(markers)
         /\ Len(markers') = Len(markers) + 1 /\ DOMAIN markers' = 1..(Len(markers) + 1)
         /\ \A k \in 1..Len(markers) : markers'[k] = markers[k]
         /\ markers'[Len(markers) + 1].call = c /\ markers'[Len(markers) + 1].client = client[c]
<1> DEFINE m == [call |-> c, client |-> client[c], made |-> made[c]]
<1>1. m \in Marker /\ m.call = c /\ m.client = client[c] /\ markers' = Append(markers, m)
  BY DEF SaleTypes, Marker, MarkIndeterminate
<1> HIDE DEF m
<1>2. QED
  BY <1>1, AppendProperties DEF SaleTypes, MarkIndeterminate

LEMMA InvoiceUnknownMoves ==
  ASSUME SaleTypes, OneAtATime, NEW c \in Sale, SaleInv(c), InvoiceUnknown(c)
  PROVE  Moves(c)
<1> DEFINE s == "invoice"  what == "indeterminate"
<1>1. Holds(c, s) /\ errors' \in Nat /\ End(c, what)
  BY ErrorsTyped, UnansweredErrors DEF InvoiceUnknown
<1>2. /\ UNCHANGED <<books, foreign, restarts, mail, client, made, answer, saw, life>>
      /\ markers' \in Seq(Marker) /\ released' = released /\ reserved' \subseteq Sale
  BY MarkEffect DEF InvoiceUnknown, Keep, SaleTypes
<1>3. s \in Guarded /\ what \in Outcomes \ {"none"} /\ what = "indeterminate"
      /\ s \notin {"check", "resolve", "customer", "undo"} /\ what \notin {"unavailable", "held"}
  BY DEF Guarded, Outcomes
<1> HIDE DEF s, what
<1>4. QED
  BY <1>1, <1>2, <1>3, LeaveMoves

LEMMA InvoiceRefusedMoves ==
  ASSUME SaleTypes, OneAtATime, NEW c \in Sale, SaleInv(c), InvoiceRefused(c)
  PROVE  Moves(c)
<1> DEFINE s == "invoice"  what == "failed"  op == "undo"
<1>1. /\ Holds(c, s) /\ answer[c] = "rejected" /\ errors' \in Nat
      /\ UNCHANGED <<books, foreign, restarts, client, made, saw, life>>
      /\ markers' \in Seq(Marker) /\ released' = released /\ reserved' \subseteq Sale
  BY ErrorsTyped, AbandonTyped DEF InvoiceRefused, Keep
<1>2. s \in Guarded /\ what \in Outcomes \ {"none"} /\ what = "failed" /\ op = "undo" /\ s = "invoice"
      /\ s \notin {"check", "resolve", "customer", "undo"} /\ what \notin {"unavailable", "held"}
  BY DEF Guarded, Outcomes
<1>3. CASE made[c]
  <2>1. Send(c, op, client[c]) /\ UNCHANGED <<queue, outcome>> /\ markers' = markers
    BY <1>3 DEF InvoiceRefused, Abandon
  <2>2. /\ client[c] \in Nat /\ client' \in [Sale -> Nat] /\ made' \in [Sale -> BOOLEAN]
        /\ SendsWhat(c, s, op, client[c])
    BY <1>1, <1>3 DEF SaleTypes, SendsWhat
  <2> HIDE DEF s, what, op
  <2>3. QED
    BY <1>1, <1>2, <2>1, <2>2, SendKeeps DEF Moves
<1>4. CASE ~made[c]
  <2>1. End(c, what) /\ UNCHANGED <<mail, answer>>
    BY <1>4 DEF InvoiceRefused
  <2> HIDE DEF s, what, op
  <2>2. QED
    BY <1>1, <1>2, <2>1, LeaveMoves
<1>5. QED
  BY <1>3, <1>4

LEMMA UndoneMoves ==
  ASSUME SaleTypes, OneAtATime, NEW c \in Sale, SaleInv(c), Undone(c)
  PROVE  Moves(c)
<1> DEFINE s == "undo"
<1>1. Holds(c, s) /\ errors' \in Nat
  BY ErrorsTyped, UnansweredErrors DEF Undone
<1>2. PICK what \in {"rolledBack", "rollbackUnknown"} :
        End(c, what) /\ (what = "rolledBack" => answer[c] = "ok")
  BY DEF Undone
<1>3. /\ UNCHANGED <<books, foreign, restarts, mail, client, made, answer, saw, life>>
      /\ markers' \in Seq(Marker) /\ released' = released /\ reserved' \subseteq Sale
  BY AbandonTyped DEF Undone, Keep
<1>4. s \in Guarded /\ what \in Outcomes \ {"none"} /\ s = "undo"
      /\ s \notin {"check", "resolve", "customer", "invoice"}
  BY DEF Guarded, Outcomes
<1> HIDE DEF s
<1>5. QED
  BY <1>1, <1>2, <1>3, <1>4, LeaveMoves

LEMMA CustomerCreatedMoves ==
  ASSUME SaleTypes, OneAtATime, NEW c \in Sale, SaleInv(c), CustomerCreated(c)
  PROVE  Moves(c)
<1> DEFINE s == "customer"  op == "invoice"
<1>1. PICK k \in DOMAIN clients : clients[k].by = c /\ SendInvoice(c, k)
  BY DEF CustomerCreated
<1>2. k \in Nat /\ k \in ClientsOf(c)
  BY <1>1, Clients DEF ClientsOf, SaleTypes
<1>3. /\ client' \in [Sale -> Nat] /\ client'[c] = k
      /\ \A d \in Sale : d # c => client'[d] = client[d]
      /\ Send(c, op, k)
  BY <1>1, <1>2, SendInvoiceEffect
<1>4. made' \in [Sale -> BOOLEAN] /\ made'[c] /\ \A d \in Sale : d # c => made'[d] = made[d]
  BY DEF CustomerCreated, SaleTypes
<1>5. /\ Holds(c, s) /\ answer[c] = "ok"
      /\ UNCHANGED <<books, queue, markers, released, outcome, saw, life, restarts, foreign>>
      /\ reserved' \subseteq Sale /\ errors' \in Nat
  BY DEF CustomerCreated, Keep, guard, SaleTypes
<1>6. Given(c) = 0
  BY <1>5 DEF Given, Holds, SaleInv, Lives
<1>7. SendsWhat(c, s, op, k) /\ s \in Guarded
  BY <1>1, <1>2, <1>3, <1>4, <1>5, <1>6 DEF SendsWhat, Guarded
<1> HIDE DEF s, op
<1>8. QED
  BY <1>2, <1>3, <1>4, <1>5, <1>7, SendKeeps DEF Moves

LEMMA ResolveMoves ==
  ASSUME SaleTypes, OneAtATime, KnownStay, NEW c \in Sale, SaleInv(c), Resolve(c)
  PROVE  Moves(c)
<1> DEFINE s == "resolve"
<1>1. /\ Holds(c, s) /\ s \in Guarded
      /\ UNCHANGED <<books, queue, markers, released, outcome, saw, life, restarts, foreign>>
      /\ reserved' \subseteq Sale /\ errors' \in Nat
      /\ made' = made /\ made' \in [Sale -> BOOLEAN] /\ \A d \in Sale : d # c => made'[d] = made[d]
  BY DEF Resolve, Keep, guard, SaleTypes, Guarded
<1>2. ASSUME NEW k \in DOMAIN clients, Given(c) \in {0, k}, SendInvoice(c, k)
      PROVE  Moves(c)
  <2> DEFINE op == "invoice"
  <2>1. k \in Nat
    BY Clients DEF SaleTypes
  <2>2. /\ client' \in [Sale -> Nat] /\ client'[c] = k
        /\ \A d \in Sale : d # c => client'[d] = client[d]
        /\ Send(c, op, k)
    BY <1>2, <2>1, SendInvoiceEffect
  <2>3. SendsWhat(c, s, op, k)
    BY <1>1, <1>2, <2>2 DEF SendsWhat
  <2> HIDE DEF s, op
  <2>4. QED
    BY <1>1, <2>1, <2>2, <2>3, SendKeeps DEF Moves
<1>3. CASE c \notin Inline
  <2>1. SendInvoice(c, Given(c))
    BY <1>3 DEF Resolve
  <2>2. Given(c) \in DOMAIN clients
    BY <1>3, GivenTyped DEF KnownStay, SaleTypes, BookTypes
  <2>3. QED
    BY <1>2, <2>1, <2>2
<1>4. CASE c \in Inline
  <2>1. Given(c) = 0
    BY <1>4 DEF Given
  <2>2. CASE \E k \in Active(CustomerOf[c]) : SendInvoice(c, k)
    <3>1. PICK k \in Active(CustomerOf[c]) : SendInvoice(c, k)
      BY <2>2
    <3>2. k \in DOMAIN clients
      BY DEF Active
    <3>3. QED
      BY <1>2, <2>1, <3>1, <3>2
  <2>3. CASE Send(c, "customer", 0) /\ UNCHANGED client
    <3> DEFINE op == "customer"  k == 0
    <3>1. Send(c, op, k) /\ client' \in [Sale -> Nat] /\ \A d \in Sale : d # c => client'[d] = client[d]
      BY <2>3 DEF SaleTypes
    <3>2. SendsWhat(c, s, op, k) /\ k \in Nat
      BY <1>1, <1>4, <2>3 DEF SendsWhat
    <3> HIDE DEF s, op, k
    <3>3. QED
      BY <1>1, <3>1, <3>2, SendKeeps DEF Moves
  <2>4. QED
    BY <1>4, <2>2, <2>3 DEF Resolve
<1>5. QED
  BY <1>3, <1>4

-----------------------------------------------------------------------------
(* The service serves a request of c. *)
LEMMA ServiceMoves ==
  ASSUME SaleTypes, OneAtATime, NEW c \in Sale, SaleInv(c), ServiceStep(c)
  PROVE  Moves(c)
<1>1. PICK r \in mail : Served(c, r)
  BY ServiceEffect
<1>2. /\ UNCHANGED <<queue, guard, stage, client, made, outcome, saw, life, restarts, foreign>>
      /\ errors' \in Nat
  BY DEF ServiceStep, Fault, SaleTypes
<1>3. /\ r.call = c /\ mail' = mail \ {r} /\ BookTypes' /\ Grows(c)
      /\ answer' \in [Sale -> Answers]
      /\ \A d \in Sale : d # c \/ stage[c] # r.op => answer'[d] = answer[d]
      /\ r.op \in {"customer", "invoice", "undo"}
      /\ r \in Request
  BY <1>1 DEF Served, SaleTypes, Request
<1>4. SaleTypes'
  BY <1>2, <1>3 DEF SaleTypes, guard
<1>5. OneAtATime'
  BY <1>2 DEF OneAtATime
<1>6. Alone(c)
  BY <1>2, <1>3 DEF Alone
<1>7. Lives(c)'
  BY <1>2 DEF SaleInv, Lives
<1>8. stage[c] = r.op => answer[c] = "none"
  BY <1>3 DEF SaleInv, Requests
<1>9. \A q \in mail' : q.call = c => q.op # r.op
  <2> SUFFICES ASSUME NEW q \in mail, q.call = c, q.op = r.op
               PROVE  q = r
    BY <1>3
  <2>1. q.client = r.client
    BY <1>3 DEF SaleInv, Requests
  <2>2. q \in Request
    BY DEF SaleTypes
  <2>3. QED
    BY <1>3, <2>1, <2>2 DEF Request
<1>10. ASSUME NEW q \in mail', q.call = c
       PROVE  /\ q \in mail /\ q.op # r.op /\ (stage'[c] = q.op => answer'[c] = "none")
              /\ q.op = "customer" => q.client = 0 /\ (stage'[c] \in {"customer", "dead"} \/ outcome'[c] = "failed")
                                      /\ ClientsOf(c) = {}
              /\ q.op = "invoice" => q.client = client'[c] /\ ~Stored(c)
                                     /\ (stage'[c] \in {"invoice", "dead"} \/ outcome'[c] = "indeterminate")
              /\ q.op = "undo" => q.client = client'[c] /\ made'[c]
                                  /\ (stage'[c] \in {"undo", "dead"} \/ outcome'[c] = "rollbackUnknown")
  <2>1. q \in mail /\ q.op # r.op
    BY <1>3, <1>9, <1>10
  <2>2. stage[c] = q.op => answer'[c] = answer[c]
    BY <1>3, <2>1
  <2>3. QED
    BY <1>2, <1>10, <2>1, <2>2 DEF SaleInv, Requests
<1>11. InvoiceOf(c)' => InvoiceOf(c) \/ r.op = "invoice"
  <2>1. UNCHANGED invoices \/ r.op = "invoice"
    BY <1>1 DEF Served, books
  <2>2. QED
    BY <1>3, <2>1 DEF InvoiceOf
<1>12. r.op = "invoice" => InvoiceOf(c)
  BY <1>3 DEF InvoiceOf
<1>13. InvoiceOf(c)' => Given(c)' \in {0, client'[c]}
  <2>1. InvoiceOf(c)' => Given(c) \in {0, client[c]}
    BY <1>11, <1>12 DEF SaleInv, ItsInvoice
  <2>2. Given(c)' = Given(c)
    BY DEF Given
  <2>3. QED
    BY <1>2, <2>1, <2>2
<1>14. (saw[c].stored <= Len(invoices))' /\ (client[c] <= Len(clients))'
  <2>1. /\ saw[c].stored <= Len(invoices) /\ saw[c].stored \in Nat /\ Len(invoices) \in Nat
        /\ client[c] <= Len(clients) /\ client[c] \in Nat /\ Len(clients) \in Nat
        /\ Len(invoices') \in Nat /\ Len(clients') \in Nat
    BY <1>3 DEF SaleInv, ItsInvoice, ItsClient, SaleTypes, BookTypes
  <2>2. Len(invoices) <= Len(invoices') /\ Len(clients) <= Len(clients')
    BY <1>3 DEF Grows
  <2>3. QED
    BY <1>2, <2>1, <2>2
<1>15. CASE UNCHANGED books /\ (stage[c] = r.op => answer'[c] \in {"none", "rejected"})
  <2>1. (Stored(c)' <=> Stored(c)) /\ ClientsOf(c)' = ClientsOf(c) /\ clients' = clients /\ invoices' = invoices
    BY <1>15, SameBooks DEF books
  <2>2. Requests(c)'
    BY <1>10, <2>1 DEF Requests
  <2>3. stage[c] = "invoice" => (Stored(c) <=> answer'[c] \in {"ok", "noId"})
    <3>1. CASE r.op = stage[c]
      BY <1>8, <1>15, <3>1 DEF SaleInv, ItsInvoice
    <3>2. CASE r.op # stage[c]
      BY <1>3, <3>2 DEF SaleInv, ItsInvoice
    <3>3. QED
      BY <3>1, <3>2
  <2>4. ItsInvoice(c)'
    BY <1>2, <1>13, <1>14, <2>1, <2>3 DEF SaleInv, ItsInvoice
  <2>5. stage[c] = "undo" /\ answer'[c] = "ok" => answer[c] = "ok"
    BY <1>3, <1>15
  <2>6. ItsClient(c)'
    BY <1>2, <1>14, <2>1, <2>5 DEF SaleInv, ItsClient
  <2>7. QED
    BY <1>4, <1>5, <1>6, <1>7, <2>2, <2>4, <2>6 DEF Moves, SaleInv
<1>16. CASE /\ r.op = "customer" /\ UNCHANGED invoices
            /\ DOMAIN clients' = DOMAIN clients \cup {Len(clients) + 1}
            /\ \A k \in DOMAIN clients : clients'[k] = clients[k]
            /\ clients'[Len(clients) + 1] = [customer |-> CustomerOf[c], active |-> TRUE, by |-> c]
  <2> DEFINE n == Len(clients) + 1
  <2>1. Stored(c)' <=> Stored(c)
    BY <1>16 DEF Stored
  <2>2. /\ ClientsOf(c) = {}
        /\ stage[c] \in {"customer", "dead"} \/ outcome[c] = "failed"
    BY <1>3, <1>16 DEF SaleInv, Requests
  <2>3. clients'[n].by = c /\ clients'[n].active
    BY <1>16
  <2>4. ClientsOf(c)' = {n}
    BY <1>16, <2>2, <2>3 DEF ClientsOf
  <2> HIDE DEF n
  <2>5. Requests(c)'
    BY <1>10, <1>16, <2>1 DEF Requests
  <2>6. stage[c] = "invoice" => answer'[c] = answer[c]
    BY <1>3, <1>16
  <2>7. ItsInvoice(c)'
    BY <1>2, <1>13, <1>14, <1>16, <2>1, <2>6 DEF SaleInv, ItsInvoice
  <2>8. ~made[c]
    BY <2>2 DEF SaleInv, ItsClient
  <2>9. stage[c] # "undo" /\ outcome[c] # "rolledBack"
    BY <2>2 DEF SaleInv, Lives
  <2>10. outcome[c] \in {"none", "failed"}
    BY <2>2 DEF SaleInv, Lives
  <2>11. outcome[c] = "none" => stage[c] \in {"customer", "dead"}
    BY <2>2
  <2>12. stage[c] \in {"invoice", "undo"} \/ outcome[c] \in {"created", "indeterminate"} => client[c] # 0
    BY DEF SaleInv, ItsClient
  <2>13. QED
    <3>1. ItsClient(c)'
      BY <1>2, <1>14, <2>3, <2>4, <2>8, <2>9, <2>10, <2>11, <2>12 DEF ItsClient
    <3>2. QED
      BY <1>4, <1>5, <1>6, <1>7, <2>5, <2>7, <3>1 DEF Moves, SaleInv
<1>17. CASE /\ r.op = "invoice" /\ UNCHANGED clients
            /\ (stage[c] = "invoice" => answer'[c] \in {"ok", "noId"})
            /\ DOMAIN invoices' = DOMAIN invoices \cup {Len(invoices) + 1}
            /\ \A i \in DOMAIN invoices : invoices'[i] = invoices[i]
            /\ invoices'[Len(invoices) + 1] = [by |-> c, event |-> EventOf[c], client |-> r.client]
  <2> DEFINE n == Len(invoices) + 1
  <2>1. ClientsOf(c)' = ClientsOf(c)
    BY <1>17 DEF ClientsOf
  <2>2. /\ stage[c] \in {"invoice", "dead"} \/ outcome[c] = "indeterminate"
        /\ ~Stored(c) /\ r.client = client[c]
    BY <1>3, <1>17 DEF SaleInv, Requests
  <2>3. invoices'[n].by = c /\ invoices'[n].event = EventOf[c] /\ invoices'[n].client = client[c]
    BY <1>17, <2>2
  <2>4. n \in DOMAIN invoices' /\ \A i \in DOMAIN invoices' : invoices'[i].by = c => i = n
    BY <1>17, <2>2 DEF Stored
  <2> HIDE DEF n
  <2>5. Stored(c)'
    BY <2>3, <2>4 DEF Stored
  <2>6. Requests(c)'
    BY <1>10, <1>17, <2>1 DEF Requests
  <2>7. \A i \in DOMAIN invoices' : invoices'[i].by = c =>
           invoices'[i].event = EventOf[c] /\ invoices'[i].client = client'[c]
    BY <1>2, <2>3, <2>4
  <2>8. ItsInvoice(c)'
    BY <1>2, <1>13, <1>14, <1>17, <2>2, <2>5, <2>7 DEF ItsInvoice
  <2>9. stage[c] = "undo" => answer'[c] = answer[c]
    BY <1>3, <1>17
  <2>10. ItsClient(c)'
    BY <1>2, <1>14, <1>17, <2>1, <2>9 DEF SaleInv, ItsClient
  <2>11. QED
    BY <1>4, <1>5, <1>6, <1>7, <2>6, <2>8, <2>10 DEF Moves, SaleInv
<1>18. CASE /\ r.op = "undo" /\ UNCHANGED invoices
            /\ client[c] \in DOMAIN clients /\ DOMAIN clients' = DOMAIN clients
            /\ \A k \in DOMAIN clients : k # client[c] => clients'[k] = clients[k]
            /\ ~clients'[client[c]].active
  <2>1. Stored(c)' <=> Stored(c)
    BY <1>18 DEF Stored
  <2>2. \A k \in DOMAIN clients : clients'[k].by = clients[k].by /\ (~clients[k].active => ~clients'[k].active)
    BY <1>3 DEF Grows
  <2>3. ClientsOf(c)' = ClientsOf(c)
    BY <1>18, <2>2 DEF ClientsOf
  <2>4. stage[c] \in {"undo", "dead"} \/ outcome[c] = "rollbackUnknown"
    BY <1>3, <1>18 DEF SaleInv, Requests
  <2>5. Requests(c)'
    BY <1>10, <2>1, <2>3 DEF Requests
  <2>6. stage[c] = "invoice" => answer'[c] = answer[c]
    BY <1>3, <1>18
  <2>7. ItsInvoice(c)'
    BY <1>2, <1>13, <1>14, <1>18, <2>1, <2>6 DEF SaleInv, ItsInvoice
  <2>8. \A k \in ClientsOf(c) : ~clients[k].active => ~clients'[k].active
    BY <2>2 DEF ClientsOf
  <2>9. outcome[c] = "rolledBack" => \A k \in ClientsOf(c) : ~clients'[k].active
    BY <2>8 DEF SaleInv, ItsClient
  <2>10. ItsClient(c)'
    BY <1>2, <1>14, <1>18, <2>3, <2>4, <2>9 DEF SaleInv, ItsClient
  <2>11. QED
    BY <1>4, <1>5, <1>6, <1>7, <2>5, <2>7, <2>10 DEF Moves, SaleInv
<1>19. QED
  BY <1>1, <1>15, <1>16, <1>17, <1>18 DEF Served

-----------------------------------------------------------------------------
(* The other calls, the owner, the accountant and the server. *)
LEMMA AloneBooks ==
  ASSUME NEW c, Alone(c), NEW d \in Sale, d # c
  PROVE  /\ Stored(d)' <=> Stored(d)
         /\ InvoiceOf(d)' <=> InvoiceOf(d)
         /\ ClientsOf(d)' = ClientsOf(d)
         /\ \A k \in ClientsOf(d) : clients'[k] = clients[k]
         /\ \A i \in DOMAIN invoices' : invoices'[i].by = d => i \in DOMAIN invoices /\ invoices'[i] = invoices[i]
<1>1. d # "User"
  BY SaleAssumption
<1>2. \A i \in DOMAIN invoices : i \in DOMAIN invoices' /\ invoices'[i] = invoices[i]
  BY DEF Alone, Grows
<1>3. \A i \in DOMAIN invoices' : invoices'[i].by = d => i \in DOMAIN invoices
  BY <1>1 DEF Alone, Grows
<1>4. \A k \in DOMAIN clients' : clients'[k].by = d => k \in DOMAIN clients
  BY DEF Alone, Grows
<1>5. \A k \in DOMAIN clients : k \in DOMAIN clients' /\ clients'[k].by = clients[k].by
  BY DEF Alone, Grows
<1>6. \A k \in DOMAIN clients : clients[k].by = d => clients'[k] = clients[k]
  BY DEF Alone, Grows
<1>7. Stored(d)' <=> Stored(d)
  BY <1>2, <1>3 DEF Stored
<1>8. InvoiceOf(d)' <=> InvoiceOf(d)
  <2>1. \A r : r.call = d => (r \in mail' <=> r \in mail)
    BY DEF Alone
  <2>2. QED
    BY <1>7, <2>1 DEF InvoiceOf, Stored
<1>9. ClientsOf(d)' = ClientsOf(d)
  BY <1>4, <1>5 DEF ClientsOf
<1>10. QED
  BY <1>2, <1>3, <1>6, <1>7, <1>8, <1>9 DEF ClientsOf

LEMMA AloneKeeps ==
  ASSUME SaleTypes, NEW c, Alone(c), NEW d \in Sale, d # c, SaleInv(d)
  PROVE  SaleInv(d)'
<1>1. /\ stage'[d] = stage[d] /\ outcome'[d] = outcome[d] /\ answer'[d] = answer[d]
      /\ client'[d] = client[d] /\ made'[d] = made[d]
      /\ saw'[d] = saw[d] /\ life'[d] = life[d] /\ restarts' = restarts
  BY DEF Alone
<1>2. \A r \in mail' : r.call = d => r \in mail
  BY DEF Alone
<1>3. /\ Stored(d)' <=> Stored(d)
      /\ InvoiceOf(d)' <=> InvoiceOf(d)
      /\ ClientsOf(d)' = ClientsOf(d)
      /\ \A k \in ClientsOf(d) : clients'[k] = clients[k]
      /\ \A i \in DOMAIN invoices' : invoices'[i].by = d => i \in DOMAIN invoices /\ invoices'[i] = invoices[i]
  BY AloneBooks
<1>4. Lives(d)'
  BY <1>1 DEF SaleInv, Lives
<1>5. Requests(d)'
  BY <1>1, <1>2, <1>3 DEF SaleInv, Requests
<1>6. (saw[d].stored <= Len(invoices))' /\ (client[d] <= Len(clients))'
  <2>1. /\ saw[d].stored <= Len(invoices) /\ saw[d].stored \in Nat /\ Len(invoices) \in Nat
        /\ client[d] <= Len(clients) /\ client[d] \in Nat /\ Len(clients) \in Nat
        /\ Len(invoices') \in Nat /\ Len(clients') \in Nat
    BY DEF SaleInv, ItsInvoice, ItsClient, SaleTypes, BookTypes, Alone
  <2>2. Len(invoices) <= Len(invoices') /\ Len(clients) <= Len(clients')
    BY DEF Grows, Alone
  <2>3. QED
    BY <1>1, <2>1, <2>2
<1>7. ItsInvoice(d)'
  <2>1. Given(d)' = Given(d)
    BY DEF Given
  <2>2. QED
    BY <1>1, <1>3, <1>6, <2>1 DEF SaleInv, ItsInvoice
<1>8. ItsClient(d)'
  <2>1. stage[d] = "undo" => client[d] \in ClientsOf(d)
    BY DEF SaleInv, ItsClient
  <2>2. QED
    BY <1>1, <1>3, <1>6, <2>1 DEF SaleInv, ItsClient
<1>9. QED
  BY <1>4, <1>5, <1>7, <1>8 DEF SaleInv

(* A step that is no call's: the calls, their requests and the guard's calls stay. *)
Outside == SaleTypes' /\ OneAtATime' /\ Alone("User") /\ clients' = clients
           /\ UNCHANGED <<stage, client, made, outcome, saw, life, mail, reserved>>

LEMMA OwnerScansOutside ==
  ASSUME SaleTypes, OneAtATime, OwnerScans
  PROVE  Outside /\ UNCHANGED <<markers, released, invoices>>
<1>1. PICK m \in Range(markers) : queue = << >> /\ queue' = <<m>>
  BY DEF OwnerScans
<1>2. UNCHANGED <<books, foreign, restarts, mail, guard, stage, client, made, answer, outcome, saw, life, errors>>
  BY DEF OwnerScans, Keep
<1>3. m \in Marker
  BY RangeOfSeq DEF SaleTypes
<1>4. m \notin Sale
  BY <1>3, SaleAssumption
<1>5. queue' \in Seq(Sale \cup Marker) /\ DOMAIN queue' = {1} /\ queue'[1] = m
  BY <1>1, <1>3
<1>6. SaleTypes'
  BY <1>2, <1>5 DEF SaleTypes, BookTypes, books, guard
<1>7. \A c \in Sale : stage[c] \notin Guarded
  BY <1>1 DEF OneAtATime
<1>8. OneAtATime'
  BY <1>2, <1>4, <1>5, <1>7 DEF OneAtATime
<1>9. Alone("User")
  <2>1. BookTypes' /\ Grows("User")
    BY <1>2, NoGrowth DEF SaleTypes
  <2>2. QED
    BY <1>2, <2>1 DEF Alone
<1>10. QED
  BY <1>2, <1>6, <1>8, <1>9 DEF Outside, books, guard

(* A marker that is let go moves from one list to the other. *)
Handed(k) ==
    /\ k \in DOMAIN markers /\ Len(markers) \in Nat /\ DOMAIN markers = 1..Len(markers)
    /\ Len(markers') = Len(markers) - 1 /\ DOMAIN markers' = 1..(Len(markers) - 1)
    /\ \A i \in DOMAIN markers' : \E j \in DOMAIN markers : j # k /\ markers'[i] = markers[j]
    /\ \A j \in DOMAIN markers : j # k => \E i \in DOMAIN markers' : markers'[i] = markers[j]
    /\ Len(released) \in Nat /\ DOMAIN released = 1..Len(released)
    /\ Len(released') = Len(released) + 1 /\ DOMAIN released' = 1..(Len(released) + 1)
    /\ \A i \in DOMAIN released : released'[i] = released[i]
    /\ released'[Len(released) + 1] = markers[k]

LEMMA RemovalOfMarker ==
  ASSUME NEW s \in Seq(Marker), NEW k \in DOMAIN s
  PROVE  /\ RemoveAt(s, k) \in Seq(Marker) /\ Len(s) \in Nat /\ DOMAIN s = 1..Len(s)
         /\ Len(RemoveAt(s, k)) = Len(s) - 1 /\ DOMAIN RemoveAt(s, k) = 1..(Len(s) - 1)
         /\ \A i \in 1..(Len(s) - 1) : RemoveAt(s, k)[i] = s[IF i < k THEN i ELSE i + 1]
<1> DEFINE left == SubSeq(s, 1, k - 1)
           right == SubSeq(s, k + 1, Len(s))
           t == left \o right
<1>1. /\ Len(s) \in Nat /\ DOMAIN s = 1..Len(s) /\ k \in 1..Len(s) /\ k \in Nat /\ k - 1 \in Int
      /\ \A i \in 1..(k - 1) : s[i] \in Marker
      /\ \A i \in (k + 1)..Len(s) : s[i] \in Marker
  OBVIOUS
<1>2. /\ left \in Seq(Marker) /\ Len(left) = k - 1
      /\ \A i \in 1..(k - 1) : left[i] = s[i]
  BY <1>1, SubSeqProperties
<1>3. /\ right \in Seq(Marker) /\ Len(right) = Len(s) - k
      /\ \A i \in 1..(Len(s) - k) : right[i] = s[k + i]
  BY <1>1, SubSeqProperties
<1> HIDE DEF left, right
<1>4. /\ t \in Seq(Marker) /\ Len(t) = Len(left) + Len(right)
      /\ \A i \in 1..(Len(left) + Len(right)) :
            t[i] = IF i <= Len(left) THEN left[i] ELSE right[i - Len(left)]
  BY <1>2, <1>3, ConcatProperties
<1>5. RemoveAt(s, k) = t
  BY DEF RemoveAt, left, right
<1> HIDE DEF t
<1>6. Len(t) = Len(s) - 1 /\ DOMAIN t = 1..(Len(s) - 1)
  BY <1>1, <1>2, <1>3, <1>4
<1>7. ASSUME NEW i \in 1..(Len(s) - 1)
      PROVE  t[i] = s[IF i < k THEN i ELSE i + 1]
  <2>1. t[i] = IF i <= k - 1 THEN left[i] ELSE right[i - (k - 1)]
    BY <1>1, <1>2, <1>3, <1>4
  <2>2. CASE i < k
    BY <1>1, <1>2, <2>1, <2>2
  <2>3. CASE ~(i < k)
    <3>1. i - (k - 1) \in 1..(Len(s) - k) /\ k + (i - (k - 1)) = i + 1
      BY <1>1, <2>3
    <3>2. t[i] = right[i - (k - 1)]
      BY <1>1, <2>1, <2>3
    <3>3. QED
      BY <1>3, <2>3, <3>1, <3>2
  <2>4. QED
    BY <2>2, <2>3
<1>8. QED
  BY <1>1, <1>4, <1>5, <1>6, <1>7

LEMMA OwnerReleasesOutside ==
  ASSUME SaleTypes, OneAtATime, OwnerReleases
  PROVE  /\ Outside /\ UNCHANGED invoices
         /\ \E k \in DOMAIN markers : Handed(k)
<1>1. PICK k \in DOMAIN markers :
        /\ queue # << >> /\ Head(queue) = markers[k]
        /\ released' = Append(released, markers[k])
        /\ markers' = RemoveAt(markers, k)
  BY DEF OwnerReleases
<1>2. /\ queue' = Tail(queue)
      /\ UNCHANGED <<books, foreign, restarts, mail, reserved, stage, client, made, answer, outcome, saw, life, errors>>
  BY DEF OwnerReleases, Keep
<1>3. markers[k] \in Marker /\ markers \in Seq(Marker) /\ released \in Seq(Marker)
  BY DEF SaleTypes
<1>4. markers[k] \notin Sale
  BY <1>3, SaleAssumption
<1>5. /\ markers' \in Seq(Marker) /\ Len(markers) \in Nat /\ DOMAIN markers = 1..Len(markers)
      /\ Len(markers') = Len(markers) - 1 /\ DOMAIN markers' = 1..(Len(markers) - 1)
      /\ \A i \in 1..(Len(markers) - 1) : markers'[i] = markers[IF i < k THEN i ELSE i + 1]
  BY <1>1, <1>3, RemovalOfMarker
<1>6. /\ released' \in Seq(Marker) /\ Len(released) \in Nat /\ DOMAIN released = 1..Len(released)
      /\ Len(released') = Len(released) + 1 /\ DOMAIN released' = 1..(Len(released) + 1)
      /\ \A i \in 1..Len(released) : released'[i] = released[i]
      /\ released'[Len(released) + 1] = markers[k]
  BY <1>1, <1>3, AppendProperties
<1>7. queue' \in Seq(Sale \cup Marker)
  BY <1>1, <1>2, QueueTyped
<1>8. SaleTypes'
  BY <1>2, <1>5, <1>6, <1>7 DEF SaleTypes, BookTypes, books
<1>9. OneAtATime'
  BY <1>1, <1>2, <1>4, QueuePasses
<1>10. Alone("User")
  <2>1. BookTypes' /\ Grows("User")
    BY <1>2, NoGrowth DEF SaleTypes
  <2>2. QED
    BY <1>2, <2>1 DEF Alone
<1>11. Handed(k)
  <2>1. ASSUME NEW i \in DOMAIN markers'
        PROVE  \E j \in DOMAIN markers : j # k /\ markers'[i] = markers[j]
    <3>1. CASE i < k
      BY <1>5, <3>1
    <3>2. CASE ~(i < k)
      <4>1. i + 1 \in DOMAIN markers /\ i + 1 # k /\ markers'[i] = markers[i + 1]
        BY <1>5, <3>2
      <4>2. QED
        BY <4>1
    <3>3. QED
      BY <3>1, <3>2
  <2>2. ASSUME NEW j \in DOMAIN markers, j # k
        PROVE  \E i \in DOMAIN markers' : markers'[i] = markers[j]
    <3>1. CASE j < k
      <4>1. j \in DOMAIN markers' /\ markers'[j] = markers[j]
        BY <1>5, <3>1
      <4>2. QED
        BY <4>1
    <3>2. CASE ~(j < k)
      <4>1. j - 1 \in DOMAIN markers' /\ ~(j - 1 < k) /\ (j - 1) + 1 = j
        BY <1>5, <2>2, <3>2
      <4>2. markers'[j - 1] = markers[j]
        BY <1>5, <4>1
      <4>3. QED
        BY <4>1, <4>2
    <3>3. QED
      BY <3>1, <3>2
  <2>3. QED
    BY <1>5, <1>6, <2>1, <2>2 DEF Handed
<1>12. QED
  BY <1>2, <1>8, <1>9, <1>10, <1>11 DEF Outside, books

LEMMA ForeignOutside ==
  ASSUME SaleTypes, OneAtATime, ForeignInvoice
  PROVE  Outside /\ UNCHANGED <<markers, released>>
<1>1. PICK c \in Sale, k \in DOMAIN clients :
        invoices' = Append(invoices, [by |-> "User", event |-> EventOf[c], client |-> k])
  BY DEF ForeignInvoice
<1>2. /\ UNCHANGED <<clients, mail, queue, guard, stage, client, made, answer, outcome, saw, life,
                     restarts, errors>>
      /\ foreign' \in Nat
  BY DEF ForeignInvoice, SaleTypes
<1>3. BookTypes' /\ Grows("User")
  <2> DEFINE u == "User"
  <2>1. u \in Sale \cup {"User"} /\ u \in {u, "User"} /\ k \in Nat
        /\ invoices' = Append(invoices, [by |-> u, event |-> EventOf[c], client |-> k])
    BY <1>1, Clients DEF SaleTypes
  <2> HIDE DEF u
  <2>2. BookTypes' /\ Grows(u)
    BY <1>2, <2>1, InvoiceStored DEF SaleTypes
  <2>3. QED
    BY <2>2 DEF u
<1>4. SaleTypes'
  BY <1>2, <1>3 DEF SaleTypes, guard
<1>5. OneAtATime'
  BY <1>2 DEF OneAtATime
<1>6. Alone("User")
  BY <1>2, <1>3 DEF Alone
<1>7. QED
  BY <1>2, <1>4, <1>5, <1>6 DEF Outside, guard

LEMMA RestartKeeps ==
  ASSUME SaleTypes, OneAtATime, \A c \in Sale : SaleInv(c), Restart
  PROVE  SaleTypes' /\ OneAtATime' /\ \A c \in Sale : SaleInv(c)'
<1>1. /\ restarts' = restarts + 1 /\ restarts \in Nat
      /\ queue' = << >> /\ markers' = << >> /\ released' = << >> /\ reserved' = {}
      /\ stage' = [c \in Sale |-> IF stage[c] \in {"new", "over"} THEN stage[c] ELSE "dead"]
      /\ UNCHANGED <<books, mail, client, made, answer, outcome, saw, life, foreign, errors>>
  BY DEF Restart, SaleTypes
<1>2. stage' \in [Sale -> Stages]
  BY <1>1 DEF SaleTypes, Stages
<1>3. SaleTypes'
  <2>1. queue' \in Seq(Sale \cup Marker) /\ markers' \in Seq(Marker) /\ released' \in Seq(Marker)
    BY <1>1
  <2>2. restarts' \in Nat
    BY <1>1
  <2>3. QED
    BY <1>1, <1>2, <2>1, <2>2 DEF SaleTypes, BookTypes, books
<1>4. OneAtATime'
  <2>1. DOMAIN queue' = {}
    BY <1>1
  <2>2. \A c \in Sale : stage'[c] \notin Guarded
    BY <1>1 DEF Guarded
  <2>3. QED
    BY <2>1, <2>2 DEF OneAtATime
<1>5. ASSUME NEW c \in Sale
      PROVE  SaleInv(c)'
  <2>1. /\ stage'[c] = IF stage[c] \in {"new", "over"} THEN stage[c] ELSE "dead"
        /\ stage'[c] \in {"new", "over", "dead"}
        /\ SaleInv(c)
    BY <1>1
  <2>2. (Stored(c)' <=> Stored(c)) /\ ClientsOf(c)' = ClientsOf(c) /\ clients' = clients /\ invoices' = invoices
    BY <1>1, SameBooks DEF books
  <2>3. life[c] <= restarts /\ life[c] \in Nat /\ (outcome[c] # "none" <=> stage[c] = "over")
    BY <2>1 DEF SaleInv, Lives, SaleTypes
  <2>4. Lives(c)'
    <3>1. life[c] <= restarts + 1 /\ life[c] < restarts + 1
      BY <1>1, <2>3
    <3>2. stage'[c] = "over" <=> stage[c] = "over"
      BY <2>1
    <3>3. QED
      BY <1>1, <2>1, <2>3, <3>1, <3>2 DEF Lives, Guarded
  <2>5. Requests(c)'
    <3> SUFFICES ASSUME NEW r \in mail, r.call = c
                 PROVE  /\ stage'[c] # r.op
                        /\ r.op = "customer" => /\ r.client = 0 /\ ClientsOf(c) = {}
                                                /\ stage'[c] = "dead" \/ outcome[c] = "failed"
                        /\ r.op = "invoice" => /\ r.client = client[c] /\ ~Stored(c)
                                               /\ stage'[c] = "dead" \/ outcome[c] = "indeterminate"
                        /\ r.op = "undo" => /\ r.client = client[c] /\ made[c]
                                            /\ stage'[c] = "dead" \/ outcome[c] = "rollbackUnknown"
      BY <1>1, <2>2 DEF Requests
    <3>1. r.op \in {"customer", "invoice", "undo"}
      BY DEF SaleTypes, Request
    <3>2. /\ r.op = "customer" => /\ r.client = 0 /\ ClientsOf(c) = {}
                                  /\ stage[c] \in {"customer", "dead"} \/ outcome[c] = "failed"
          /\ r.op = "invoice" => /\ r.client = client[c] /\ ~Stored(c)
                                 /\ stage[c] \in {"invoice", "dead"} \/ outcome[c] = "indeterminate"
          /\ r.op = "undo" => /\ r.client = client[c] /\ made[c]
                              /\ stage[c] \in {"undo", "dead"} \/ outcome[c] = "rollbackUnknown"
      BY <2>1 DEF SaleInv, Requests
    <3>3. QED
      BY <2>1, <3>1, <3>2
  <2>6. InvoiceOf(c)' <=> InvoiceOf(c)
    BY <1>1, <2>2 DEF InvoiceOf
  <2>7. Given(c)' = Given(c)
    BY DEF Given
  <2>8. stage[c] \in {"customer", "invoice", "undo", "dead"} => stage'[c] = "dead"
    BY <2>1
  <2>9. ItsInvoice(c)'
    BY <1>1, <2>1, <2>2, <2>6, <2>7, <2>8 DEF SaleInv, ItsInvoice
  <2>10. ItsClient(c)'
    BY <1>1, <2>1, <2>2, <2>8 DEF SaleInv, ItsClient
  <2>11. QED
    BY <2>4, <2>5, <2>9, <2>10 DEF SaleInv
<1>6. QED
  BY <1>3, <1>4, <1>5

(* Each call's operation, whichever it is. *)
LEMMA CallMoves ==
  ASSUME SaleTypes, OneAtATime, KnownStay, NEW c \in Sale, SaleInv(c),
         Prepare(c) \/ Consume(c) \/ SaleStep(c) \/ CheckFails(c) \/ ResolveRefused(c) \/ ServiceStep(c)
  PROVE  Moves(c)
  BY PrepareMoves, ConsumeMoves, CheckMoves, CheckFailsMoves, ResolveMoves, ResolveRefusedMoves,
     CustomerCreatedMoves, CustomerFailedMoves, InvoiceCreatedMoves, InvoiceUnknownMoves,
     InvoiceRefusedMoves, UndoneMoves, ServiceMoves DEF SaleStep

LEMMA KnownKeeps ==
  ASSUME SaleTypes, KnownStay, NEW c \in Sale \cup {"User"}, Alone(c), c \in Sale \/ clients' = clients
  PROVE  KnownStay'
<1>1. CASE clients' = clients
  BY <1>1 DEF KnownStay
<1>2. CASE c \in Sale
  <2>1. c # "User"
    BY <1>2, SaleAssumption
  <2>2. /\ Len(KnownClients) \in Nat /\ DOMAIN KnownClients = 1..Len(KnownClients)
        /\ Len(clients) \in Nat /\ DOMAIN clients = 1..Len(clients) /\ Len(clients') \in Nat
        /\ Len(KnownClients) <= Len(clients) /\ Len(clients) <= Len(clients')
    BY SaleAssumption DEF SaleTypes, BookTypes, Alone, Grows, KnownStay
  <2>3. DOMAIN KnownClients \subseteq DOMAIN clients /\ Len(KnownClients) <= Len(clients')
    BY <2>2
  <2>4. \A k \in DOMAIN clients : clients'[k].by = clients[k].by
    BY DEF Alone, Grows
  <2>5. \A k \in DOMAIN clients' : clients'[k].by = "User" => k \in DOMAIN clients /\ clients'[k] = clients[k]
    BY <2>1 DEF Alone, Grows
  <2>6. QED
    BY <2>3, <2>4, <2>5 DEF KnownStay
<1>3. QED
  BY <1>1, <1>2

CallsInv == SaleTypes /\ OneAtATime /\ KnownStay /\ \A c \in Sale : SaleInv(c)

LEMMA CallsStep ==
  ASSUME CallsInv, [SaleNext]_saleVars
  PROVE  CallsInv'
<1>0. SaleTypes /\ OneAtATime /\ KnownStay /\ \A c \in Sale : SaleInv(c)
  BY DEF CallsInv
<1>1. ASSUME NEW c \in Sale,
             Prepare(c) \/ Consume(c) \/ SaleStep(c) \/ CheckFails(c) \/ ResolveRefused(c) \/ ServiceStep(c)
      PROVE  CallsInv'
  <2>1. SaleTypes' /\ OneAtATime' /\ Alone(c) /\ SaleInv(c)'
    BY <1>0, <1>1, CallMoves DEF Moves
  <2>2. \A d \in Sale : SaleInv(d)'
    BY <1>0, <2>1, AloneKeeps
  <2>3. KnownStay'
    BY <1>0, <2>1, KnownKeeps
  <2>4. QED
    BY <2>1, <2>2, <2>3 DEF CallsInv
<1>2. CASE Outside
  <2>1. SaleTypes' /\ OneAtATime' /\ Alone("User") /\ clients' = clients
    BY <1>2 DEF Outside
  <2>2. \A d \in Sale : SaleInv(d)'
    BY <1>0, <2>1, AloneKeeps, SaleAssumption
  <2>3. KnownStay'
    BY <1>0, <2>1 DEF KnownStay
  <2>4. QED
    BY <2>1, <2>2, <2>3 DEF CallsInv
<1>3. CASE Restart
  <2>1. KnownStay'
    BY <1>0, <1>3 DEF KnownStay, Restart, books
  <2>2. QED
    BY <1>0, <1>3, <2>1, RestartKeeps DEF CallsInv
<1>4. CASE UNCHANGED saleVars
  <2>1. SaleTypes' /\ OneAtATime' /\ KnownStay'
    BY <1>0, <1>4 DEF SaleTypes, BookTypes, OneAtATime, KnownStay, saleVars, books, guard
  <2>2. Alone("User")
    <3>1. BookTypes' /\ Grows("User")
      BY <1>0, <1>4, NoGrowth DEF SaleTypes, saleVars
    <3>2. QED
      BY <1>4, <3>1 DEF Alone, saleVars
  <2>3. \A d \in Sale : SaleInv(d)'
    BY <1>0, <2>2, AloneKeeps, SaleAssumption
  <2>4. QED
    BY <2>1, <2>3 DEF CallsInv
<1>5. QED
  BY <1>0, <1>1, <1>2, <1>3, <1>4, OwnerScansOutside, OwnerReleasesOutside, ForeignOutside DEF SaleNext

LEMMA SaleStarts == SaleInit => CallsInv
<1> SUFFICES ASSUME SaleInit
             PROVE  CallsInv
  OBVIOUS
<1>1. /\ KnownClients \in Seq(Customer) /\ Len(KnownClients) \in Nat
      /\ DOMAIN KnownClients = 1..Len(KnownClients)
      /\ \A k \in 1..Len(KnownClients) : KnownClients[k] \in Customer
  BY SaleAssumption
<1>2. clients = [k \in 1..Len(KnownClients) |->
                   [customer |-> KnownClients[k], active |-> TRUE, by |-> "User"]]
  BY <1>1 DEF SaleInit
<1>3. /\ clients \in Seq(OfClient) /\ Len(clients) = Len(KnownClients)
      /\ DOMAIN clients = 1..Len(KnownClients)
      /\ \A k \in DOMAIN clients : clients[k].by = "User" /\ clients[k].active
  <2>1. \A k \in 1..Len(KnownClients) :
           [customer |-> KnownClients[k], active |-> TRUE, by |-> "User"] \in OfClient
    BY <1>1 DEF OfClient
  <2>2. clients \in [1..Len(KnownClients) -> OfClient]
    BY <1>2, <2>1
  <2>3. QED
    BY <1>1, <1>2, <2>2
<1>4. SaleTypes
  <2>1. BookTypes /\ queue \in Seq(Sale \cup Marker) /\ markers \in Seq(Marker) /\ released \in Seq(Marker)
    BY <1>3 DEF SaleInit, BookTypes
  <2>2. /\ stage \in [Sale -> Stages] /\ answer \in [Sale -> Answers] /\ outcome \in [Sale -> Outcomes]
        /\ client \in [Sale -> Nat] /\ made \in [Sale -> BOOLEAN] /\ life \in [Sale -> Nat]
        /\ saw \in [Sale -> [stored : Nat, unknown : SUBSET Sale]]
    BY DEF SaleInit, Stages, Answers, Outcomes
  <2>3. QED
    BY <2>1, <2>2 DEF SaleInit, SaleTypes
<1>5. OneAtATime
  BY DEF SaleInit, OneAtATime, Guarded
<1>6. KnownStay
  BY <1>1, <1>3 DEF KnownStay
<1>7. ASSUME NEW c \in Sale
      PROVE  SaleInv(c)
  <2>1. ClientsOf(c) = {} /\ ~Stored(c) /\ ~InvoiceOf(c)
    BY <1>3, SaleAssumption DEF SaleInit, ClientsOf, Stored, InvoiceOf
  <2>2. Lives(c) /\ Requests(c)
    BY DEF SaleInit, Lives, Requests, Guarded
  <2>3. ItsInvoice(c)
    BY <2>1 DEF SaleInit, ItsInvoice
  <2>4. ItsClient(c)
    BY <1>1, <1>3, <2>1 DEF SaleInit, ItsClient
  <2>5. QED
    BY <2>2, <2>3, <2>4 DEF SaleInv
<1>8. QED
  BY <1>4, <1>5, <1>6, <1>7 DEF CallsInv

-----------------------------------------------------------------------------
(* What no operation but the check that passes does to its call. *)
Unknown == {d \in Sale : outcome[d] = "indeterminate"}

Tidy(c) ==
    /\ stage[c] = "over" => /\ outcome'[c] = outcome[c] /\ client'[c] = client[c]
                            /\ life'[c] = life[c]
    /\ saw'[c] = saw[c] \/ saw'[c].unknown = Unknown
    /\ stage'[c] \in {"customer", "invoice", "undo"} => stage[c] \in Running
    /\ outcome'[c] = "rolledBack" => outcome[c] = "rolledBack" \/ stage[c] = "undo"
    /\ \/ client'[c] = client[c] \/ client'[c] \in ClientsOf(c)
       \/ stage[c] = "resolve" /\ client'[c] \in DOMAIN clients /\ clients[client'[c]].active

KeepsPlace(c) == Placed(c)' => Placed(c) /\ saw'[c] = saw[c] /\ life'[c] = life[c]

LEMMA SameInvoice ==
  ASSUME NEW c, UNCHANGED <<books, mail>>
  PROVE  InvoiceOf(c)' <=> InvoiceOf(c)
  BY DEF books, InvoiceOf

LEMMA NotYetPlaced ==
  ASSUME SaleTypes, NEW c \in Sale, SaleInv(c), stage[c] \in {"new", "reviewed", "check"}
  PROVE  ~InvoiceOf(c)
<1>1. outcome[c] = "none" /\ \A r \in mail : r.call # c
  BY AtStage, NoRequest
<1>2. ~Stored(c)
  BY <1>1 DEF SaleInv, ItsInvoice
<1>3. QED
  BY <1>1, <1>2 DEF InvoiceOf, Stored

LEMMA LeaveTidy ==
  ASSUME SaleTypes, NEW c \in Sale, SaleInv(c), NEW s \in Guarded, Holds(c, s),
         NEW what \in Outcomes, End(c, what), UNCHANGED <<books, mail, client, life>>,
         saw'[c] = saw[c] \/ (s = "check" /\ saw'[c].unknown = Unknown),
         what = "rolledBack" => s = "undo"
  PROVE  Tidy(c) /\ KeepsPlace(c)
<1>1. stage[c] = s /\ queue # << >> /\ s # "over"
  BY DEF Holds, Guarded
<1>2. stage'[c] = "over" /\ outcome'[c] = what
  BY <1>1, EndEffect
<1>3. Tidy(c)
  BY <1>1, <1>2 DEF Tidy
<1>4. Placed(c)' => InvoiceOf(c)
  BY <1>2, SameInvoice DEF Placed
<1>5. InvoiceOf(c) => s # "check"
  BY <1>1, NotYetPlaced
<1>6. QED
  BY <1>3, <1>4, <1>5 DEF KeepsPlace, Placed

LEMMA SendTidy ==
  ASSUME SaleTypes, NEW c \in Sale, SaleInv(c), NEW s \in Guarded, Holds(c, s),
         NEW op, NEW k \in Nat, Send(c, op, k), SendsWhat(c, s, op, k),
         UNCHANGED <<books, outcome, saw, life>>,
         s = "resolve" /\ op = "invoice" => k \in DOMAIN clients /\ clients[k].active
  PROVE  Tidy(c) /\ KeepsPlace(c)
<1>1. stage[c] = s /\ s \in {"resolve", "customer", "invoice"} /\ op \in {"customer", "invoice", "undo"}
  BY DEF Holds, SendsWhat
<1>2. client'[c] = client[c] \/ (op = "invoice" /\ client'[c] = k /\ (s = "resolve" \/ k \in ClientsOf(c)))
  BY DEF SendsWhat
<1>3. \/ client'[c] = client[c] \/ client'[c] \in ClientsOf(c)
      \/ stage[c] = "resolve" /\ client'[c] \in DOMAIN clients /\ clients[client'[c]].active
  BY <1>1, <1>2
<1>4. Tidy(c)
  BY <1>1, <1>3 DEF Tidy, Running
<1>5. QED
  BY <1>1, <1>4 DEF KeepsPlace, Placed

LEMMA BeginTidy ==
  ASSUME SaleTypes, NEW c \in Sale, SaleInv(c), Prepare(c) \/ Consume(c)
  PROVE  Tidy(c) /\ KeepsPlace(c)
<1>1. /\ stage[c] \in {"new", "reviewed"} /\ UNCHANGED <<books, mail, client, outcome, saw>>
      /\ Advance(c, "reviewed") \/ Advance(c, "check")
  BY DEF Prepare, Consume, Keep
<1>2. stage'[c] \in {"reviewed", "check"}
  BY <1>1, AdvanceEffect DEF Stages
<1>3. ~Placed(c)'
  BY <1>1, <1>2, NotYetPlaced, SameInvoice DEF Placed
<1>4. outcome'[c] = "none"
  BY <1>1, AtStage
<1>5. QED
  BY <1>1, <1>2, <1>3, <1>4 DEF Tidy, KeepsPlace

LEMMA CheckTidy ==
  ASSUME SaleTypes, NEW c \in Sale, SaleInv(c), Check(c)
  PROVE  Tidy(c) /\ (KeepsPlace(c) \/ Passes(c))
<1>1. /\ Holds(c, "check") /\ See(c)
      /\ UNCHANGED <<books, foreign, restarts, mail, client, made, answer, life, errors>>
      /\ \/ \E what \in {"unavailable", "held"} : End(c, what) /\ UNCHANGED guard
         \/ Passes(c)
  BY CheckEffect
<1>2. saw'[c].unknown = Unknown
  BY <1>1, SeeEffect DEF Unknown
<1>3. CASE Passes(c)
  <2>1. stage'[c] = "resolve"
    BY <1>3, AdvanceEffect DEF Passes, Stages
  <2>2. stage[c] = "check" /\ outcome'[c] = "none"
    BY <1>1, <1>3, AtStage DEF Holds, Passes
  <2>3. QED
    BY <1>1, <1>2, <1>3, <2>1, <2>2 DEF Tidy
<1>4. ASSUME NEW what \in {"unavailable", "held"}, End(c, what)
      PROVE  Tidy(c) /\ KeepsPlace(c)
  <2> DEFINE s == "check"
  <2>1. Holds(c, s) /\ s \in Guarded /\ s = "check" /\ what \in Outcomes /\ what # "rolledBack"
    BY <1>1 DEF Guarded, Outcomes
  <2> HIDE DEF s
  <2>2. QED
    BY <1>1, <1>2, <1>4, <2>1, LeaveTidy
<1>5. QED
  BY <1>1, <1>3, <1>4

(* The operations that end their call. *)
LEMMA EndTidy ==
  ASSUME SaleTypes, NEW c \in Sale, SaleInv(c),
         \/ CheckFails(c) \/ ResolveRefused(c) \/ CustomerFailed(c) \/ InvoiceCreated(c)
         \/ InvoiceUnknown(c) \/ Undone(c)
  PROVE  Tidy(c) /\ KeepsPlace(c)
<1>1. PICK s \in Guarded, what \in Outcomes :
        Holds(c, s) /\ End(c, what) /\ (what = "rolledBack" => s = "undo")
  <2>1. CASE CheckFails(c)
    BY <2>1 DEF CheckFails, Guarded, Outcomes
  <2>2. CASE ResolveRefused(c)
    BY <2>2 DEF ResolveRefused, Guarded, Outcomes
  <2>3. CASE CustomerFailed(c)
    BY <2>3 DEF CustomerFailed, Guarded, Outcomes
  <2>4. CASE InvoiceCreated(c)
    BY <2>4 DEF InvoiceCreated, Guarded, Outcomes
  <2>5. CASE InvoiceUnknown(c)
    BY <2>5 DEF InvoiceUnknown, Guarded, Outcomes
  <2>6. CASE Undone(c)
    BY <2>6 DEF Undone, Guarded, Outcomes
  <2>7. QED
    BY <2>1, <2>2, <2>3, <2>4, <2>5, <2>6
<1>2. UNCHANGED <<books, mail, client, life>> /\ saw' = saw
  BY DEF CheckFails, ResolveRefused, CustomerFailed, InvoiceCreated, InvoiceUnknown, Undone, Keep
<1>3. QED
  BY <1>1, <1>2, LeaveTidy

LEMMA ResolveTidy ==
  ASSUME SaleTypes, KnownStay, NEW c \in Sale, SaleInv(c), Resolve(c)
  PROVE  Tidy(c) /\ KeepsPlace(c)
<1> DEFINE s == "resolve"
<1>1. /\ Holds(c, s) /\ s \in Guarded /\ s = "resolve"
      /\ UNCHANGED <<books, outcome, saw, life>> /\ made' = made
  BY DEF Resolve, Keep, Guarded
<1>2. ASSUME NEW k \in DOMAIN clients, clients[k].active, Given(c) \in {0, k}, SendInvoice(c, k)
      PROVE  Tidy(c) /\ KeepsPlace(c)
  <2> DEFINE op == "invoice"
  <2>1. k \in Nat
    BY Clients DEF SaleTypes
  <2>2. client'[c] = k /\ Send(c, op, k)
    BY <1>2, <2>1, SendInvoiceEffect
  <2>3. SendsWhat(c, s, op, k)
    BY <1>1, <1>2, <2>2 DEF SendsWhat
  <2> HIDE DEF s, op
  <2>4. QED
    BY <1>1, <1>2, <2>1, <2>2, <2>3, SendTidy
<1>3. CASE c \notin Inline
  <2>1. SendInvoice(c, Given(c))
    BY <1>3 DEF Resolve
  <2>2. Given(c) \in DOMAIN KnownClients /\ Given(c) \in DOMAIN clients
    BY <1>3, GivenTyped, SaleAssumption DEF KnownStay, SaleTypes, BookTypes
  <2>3. clients[Given(c)].active
    BY <2>2 DEF KnownStay
  <2>4. QED
    BY <1>2, <2>1, <2>2, <2>3
<1>4. CASE c \in Inline
  <2>1. Given(c) = 0
    BY <1>4 DEF Given
  <2>2. CASE \E k \in Active(CustomerOf[c]) : SendInvoice(c, k)
    <3>1. PICK k \in Active(CustomerOf[c]) : SendInvoice(c, k)
      BY <2>2
    <3>2. k \in DOMAIN clients /\ clients[k].active
      BY DEF Active
    <3>3. QED
      BY <1>2, <2>1, <3>1, <3>2
  <2>3. CASE Send(c, "customer", 0) /\ UNCHANGED client
    <3> DEFINE op == "customer"  k == 0
    <3>1. Send(c, op, k) /\ SendsWhat(c, s, op, k) /\ k \in Nat /\ op = "customer"
      BY <1>1, <1>4, <2>3 DEF SendsWhat
    <3> HIDE DEF s, op, k
    <3>2. QED
      BY <1>1, <3>1, SendTidy
  <2>4. QED
    BY <1>4, <2>2, <2>3 DEF Resolve
<1>5. QED
  BY <1>3, <1>4

LEMMA CustomerCreatedTidy ==
  ASSUME SaleTypes, NEW c \in Sale, SaleInv(c), CustomerCreated(c)
  PROVE  Tidy(c) /\ KeepsPlace(c)
<1> DEFINE s == "customer"  op == "invoice"
<1>1. PICK k \in DOMAIN clients : clients[k].by = c /\ SendInvoice(c, k)
  BY DEF CustomerCreated
<1>2. k \in Nat /\ k \in ClientsOf(c)
  BY <1>1, Clients DEF ClientsOf, SaleTypes
<1>3. client'[c] = k /\ Send(c, op, k)
  BY <1>1, <1>2, SendInvoiceEffect
<1>4. Holds(c, s) /\ answer[c] = "ok" /\ UNCHANGED <<books, outcome, saw, life>> /\ made'[c]
  BY DEF CustomerCreated, Keep, SaleTypes
<1>5. Given(c) = 0
  BY <1>4 DEF Given, Holds, SaleInv, Lives
<1>6. SendsWhat(c, s, op, k) /\ s \in Guarded /\ s # "resolve"
  BY <1>2, <1>3, <1>4, <1>5 DEF SendsWhat, Guarded
<1> HIDE DEF s, op
<1>7. QED
  BY <1>2, <1>3, <1>4, <1>6, SendTidy

LEMMA InvoiceRefusedTidy ==
  ASSUME SaleTypes, NEW c \in Sale, SaleInv(c), InvoiceRefused(c)
  PROVE  Tidy(c) /\ KeepsPlace(c)
<1> DEFINE s == "invoice"  what == "failed"  op == "undo"
<1>1. Holds(c, s) /\ answer[c] = "rejected" /\ UNCHANGED <<books, client, made, saw, life>>
  BY DEF InvoiceRefused, Keep
<1>2. s \in Guarded /\ s # "resolve" /\ what \in Outcomes /\ what # "rolledBack"
  BY DEF Guarded, Outcomes
<1>3. CASE made[c]
  <2>1. Send(c, op, client[c]) /\ UNCHANGED outcome
    BY <1>3 DEF InvoiceRefused
  <2>2. client[c] \in Nat /\ SendsWhat(c, s, op, client[c])
    BY <1>1, <1>3 DEF SaleTypes, SendsWhat
  <2> HIDE DEF s, what, op
  <2>3. QED
    BY <1>1, <1>2, <2>1, <2>2, SendTidy
<1>4. CASE ~made[c]
  <2>1. End(c, what) /\ UNCHANGED mail
    BY <1>4 DEF InvoiceRefused
  <2> HIDE DEF s, what, op
  <2>2. QED
    BY <1>1, <1>2, <2>1, LeaveTidy
<1>5. QED
  BY <1>3, <1>4

LEMMA ServiceTidy ==
  ASSUME SaleTypes, NEW c \in Sale, SaleInv(c), ServiceStep(c)
  PROVE  Tidy(c) /\ KeepsPlace(c)
<1>1. PICK r \in mail : Served(c, r)
  BY ServiceEffect
<1>2. UNCHANGED <<stage, client, outcome, saw, life>>
  BY DEF ServiceStep
<1>3. UNCHANGED invoices \/ r.op = "invoice"
  BY <1>1 DEF Served, books
<1>4. InvoiceOf(c)' => InvoiceOf(c)
  BY <1>1, <1>3 DEF InvoiceOf, Served
<1>5. QED
  BY <1>2, <1>4 DEF Tidy, KeepsPlace, Placed, Running

LEMMA CallTidy ==
  ASSUME SaleTypes, KnownStay, NEW c \in Sale, SaleInv(c),
         Prepare(c) \/ Consume(c) \/ SaleStep(c) \/ CheckFails(c) \/ ResolveRefused(c) \/ ServiceStep(c)
  PROVE  Tidy(c) /\ (KeepsPlace(c) \/ (Check(c) /\ Passes(c)))
  BY BeginTidy, CheckTidy, EndTidy, ResolveTidy, CustomerCreatedTidy, InvoiceRefusedTidy, ServiceTidy
     DEF SaleStep

-----------------------------------------------------------------------------
(* The client a call created stays its own while it may be deactivated. *)
LEMMA OwnMoves ==
  ASSUME CallsInv, OwnClient, NEW c \in Sale, Moves(c), Tidy(c)
  PROVE  OwnClient'
<1>0. SaleTypes /\ SaleInv(c) /\ Alone(c) /\ OneAtATime
  BY DEF CallsInv, Moves
<1>1. SUFFICES ASSUME NEW u \in Sale, NEW d \in Sale, NEW k \in ClientsOf(u)', d # u, client'[d] = k
               PROVE  stage'[u] \notin {"customer", "invoice", "undo"} /\ outcome'[u] # "rolledBack"
  BY DEF OwnClient
<1>2. \A e \in Sale : e # c => /\ stage'[e] = stage[e] /\ outcome'[e] = outcome[e]
                               /\ client'[e] = client[e] /\ ClientsOf(e)' = ClientsOf(e)
  BY <1>0, AloneBooks DEF Alone
<1>3. CASE u # c /\ client'[d] = client[d]
  <2>1. k \in ClientsOf(u) /\ stage'[u] = stage[u] /\ outcome'[u] = outcome[u]
    BY <1>1, <1>2, <1>3
  <2>2. QED
    BY <1>1, <1>3, <2>1 DEF OwnClient
<1>4. CASE u # c /\ client'[d] # client[d]
  <2>1. d = c /\ k \in ClientsOf(u) /\ stage'[u] = stage[u] /\ outcome'[u] = outcome[u]
    BY <1>1, <1>2, <1>4
  <2>2. k \notin ClientsOf(c)
    BY <1>4, <2>1 DEF ClientsOf
  <2>3. stage[c] = "resolve" /\ clients[k].active
    BY <1>1, <1>4, <2>1, <2>2 DEF Tidy
  <2>4. stage[u] \notin Running
    <3>1. queue # << >>
      BY <1>0, <2>3 DEF OneAtATime, Guarded, SaleTypes
    <3>2. stage[c] \in Running
      BY <2>3 DEF Running
    <3>3. QED
      BY <1>0, <1>4, <3>1, <3>2, HeadAlone
  <2>5. outcome[u] # "rolledBack"
    BY <2>1, <2>3 DEF CallsInv, SaleInv, ItsClient
  <2>6. QED
    BY <2>1, <2>4, <2>5 DEF Running
<1>5. CASE u = c
  <2>1. client'[d] = client[d] /\ client[d] = k
    BY <1>1, <1>2, <1>5
  <2>2. CASE k \in ClientsOf(c)
    <3>1. stage[c] \notin {"customer", "invoice", "undo"} /\ outcome[c] # "rolledBack"
      BY <1>1, <1>5, <2>1, <2>2 DEF OwnClient
    <3>2. stage[c] # "resolve"
      <4>1. ClientsOf(c) # {}
        BY <2>2
      <4>2. stage[c] = "resolve" => outcome[c] = "none"
        BY <1>0, AtStage
      <4>3. QED
        BY <1>0, <4>1, <4>2 DEF SaleInv, ItsClient
    <3>3. QED
      BY <1>5, <3>1, <3>2 DEF Tidy, Running
  <2>3. CASE k \notin ClientsOf(c)
    <3>1. k \in DOMAIN clients' /\ clients'[k].by = c
      BY <1>1, <1>5 DEF ClientsOf
    <3>2. k \notin DOMAIN clients
      BY <1>0, <2>3, <3>1 DEF ClientsOf, Alone, Grows
    <3>3. DOMAIN clients = 1..Len(clients) /\ Len(clients) \in Nat /\ DOMAIN clients' \subseteq Nat \ {0}
      <4>1. clients \in Seq(OfClient)
        BY <1>0 DEF SaleTypes, BookTypes
      <4>2. clients' \in Seq(OfClient)
        BY <1>0 DEF BookTypes, Alone
      <4>3. Len(clients') \in Nat /\ DOMAIN clients' = 1..Len(clients')
        BY <4>2
      <4>4. Len(clients) \in Nat /\ DOMAIN clients = 1..Len(clients)
        BY <4>1
      <4>5. QED
        BY <4>3, <4>4
    <3>4. client[d] <= Len(clients)
      BY DEF CallsInv, SaleInv, ItsClient
    <3>5. QED
      BY <2>1, <3>1, <3>2, <3>3, <3>4
  <2>4. QED
    BY <2>2, <2>3
<1>6. QED
  BY <1>3, <1>4, <1>5

LEMMA OwnStep ==
  ASSUME CallsInv, OwnClient, [SaleNext]_saleVars
  PROVE  OwnClient'
<1>0. SaleTypes /\ OneAtATime /\ KnownStay /\ \A c \in Sale : SaleInv(c)
  BY DEF CallsInv
<1>1. ASSUME NEW c \in Sale,
             Prepare(c) \/ Consume(c) \/ SaleStep(c) \/ CheckFails(c) \/ ResolveRefused(c) \/ ServiceStep(c)
      PROVE  OwnClient'
  <2>1. Moves(c) /\ Tidy(c)
    BY <1>0, <1>1, CallMoves, CallTidy
  <2>2. QED
    BY <2>1, OwnMoves
<1>2. CASE Outside \/ UNCHANGED saleVars
  <2>1. UNCHANGED <<clients, stage, client, outcome>>
    BY <1>2 DEF Outside, saleVars, books
  <2>2. QED
    BY <2>1 DEF OwnClient, ClientsOf
<1>3. CASE Restart
  <2>1. UNCHANGED <<clients, client, outcome>>
        /\ \A u \in Sale : stage'[u] \notin {"customer", "invoice", "undo"}
    BY <1>3 DEF Restart, books
  <2>2. QED
    BY <2>1 DEF OwnClient, ClientsOf
<1>4. QED
  BY <1>0, <1>1, <1>2, <1>3, OwnerScansOutside, OwnerReleasesOutside, ForeignOutside DEF SaleNext

-----------------------------------------------------------------------------
(* The guard. *)
Busy == {"resolve", "customer", "invoice"}

LEMMA BusyIs == Busy = Guarded \ {"check", "undo"}
  BY DEF Busy, Guarded

LEMMA ReservedIsHead ==
  ASSUME SaleTypes, OneAtATime, GuardInv, NEW c \in Sale, NEW s \in Guarded, Holds(c, s)
  PROVE  reserved = IF s \in Busy THEN {c} ELSE {}
<1>1. stage[c] = s /\ queue # << >> /\ Head(queue) = c
  BY DEF Holds
<1>2. \A d \in Sale : stage[d] \in Busy => d = c
  BY <1>1, HeadAlone DEF Busy, Running
<1>3. reserved = {d \in Sale : stage[d] \in Busy}
  BY BusyIs DEF GuardInv
<1>4. QED
  BY <1>1, <1>2, <1>3

LEMMA RememberedStays ==
  ASSUME SaleTypes, NEW c \in Sale, SaleInv(c), Alone(c), Tidy(c), NEW m \in Marker, Remembered(m)
  PROVE  Remembered(m)'
<1>1. m.call \in Sale
  BY DEF Marker
<1>2. CASE m.call = c
  <2>1. stage[c] = "over"
    BY <1>2 DEF Remembered, SaleInv, Lives
  <2>2. QED
    BY <1>2, <2>1 DEF Remembered, Tidy, Alone
<1>3. CASE m.call # c
  BY <1>1, <1>3 DEF Remembered, Alone
<1>4. QED
  BY <1>2, <1>3

(* The markers stay: no outcome becomes unknown. *)
LEMMA GuardStays ==
  ASSUME SaleTypes, GuardInv, NEW c \in Sale, SaleInv(c), Alone(c), Tidy(c),
         UNCHANGED <<markers, released>>,
         outcome'[c] = "indeterminate" => outcome[c] = "indeterminate" /\ life'[c] = life[c],
         reserved' = {d \in Sale : stage'[d] \in Busy},
         Len(markers) + Cardinality(reserved') + Len(released) <= Capacity
  PROVE  GuardInv'
<1>1. /\ \A k \in DOMAIN markers : markers[k] \in Marker /\ Remembered(markers[k])
      /\ \A k \in DOMAIN released : released[k] \in Marker /\ Remembered(released[k])
  BY DEF GuardInv, SaleTypes
<1>2. (\A k \in DOMAIN markers : Remembered(markers[k])')
      /\ (\A k \in DOMAIN released : Remembered(released[k])')
  BY <1>1, RememberedStays
<1>3. (\A k \in DOMAIN markers : Remembered(markers[k]))' /\ (\A k \in DOMAIN released : Remembered(released[k]))'
  BY <1>2 DEF Remembered
<1>4. ASSUME NEW d \in Sale, outcome'[d] = "indeterminate", life'[d] = restarts'
      PROVE  \/ \E k \in DOMAIN markers : markers[k].call = d
             \/ \E k \in DOMAIN released : released[k].call = d
  <2>1. outcome[d] = "indeterminate" /\ life[d] = restarts
    BY <1>4 DEF Alone
  <2>2. QED
    BY <2>1 DEF GuardInv
<1>5. QED
  BY <1>3, <1>4, BusyIs DEF GuardInv

LEMMA BusyAfter ==
  ASSUME SaleTypes, OneAtATime, NEW c \in Sale, NEW s \in Guarded, Holds(c, s),
         \A d \in Sale : d # c => stage'[d] = stage[d]
  PROVE  {d \in Sale : stage'[d] \in Busy} = IF stage'[c] \in Busy THEN {c} ELSE {}
<1>1. \A d \in Sale : d # c => stage[d] \notin Busy
  BY HeadAlone DEF Holds, Busy, Running
<1>2. QED
  BY <1>1

LEMMA SmallSets ==
  ASSUME NEW c
  PROVE  Cardinality({}) = 0 /\ Cardinality({c}) = 1
  BY FS_EmptySet, FS_Singleton

LEMMA GuardLengths ==
  ASSUME SaleTypes
  PROVE  Len(markers) \in Nat /\ Len(released) \in Nat /\ Capacity \in Nat
  BY SaleAssumption DEF SaleTypes

(* The head of the queue moves on, and keeps its reservation or gives it back. *)
LEMMA HeadGuard ==
  ASSUME SaleTypes, OneAtATime, GuardInv, NEW c \in Sale, SaleInv(c), Alone(c), Tidy(c),
         NEW s \in Guarded, Holds(c, s), UNCHANGED <<markers, released>>,
         outcome'[c] # "indeterminate",
         \/ reserved' = reserved /\ (s \in Busy <=> stage'[c] \in Busy)
         \/ reserved' = reserved \ {c} /\ stage'[c] \notin Busy
  PROVE  GuardInv'
<1>1. reserved = IF s \in Busy THEN {c} ELSE {}
  BY ReservedIsHead
<1>2. {d \in Sale : stage'[d] \in Busy} = IF stage'[c] \in Busy THEN {c} ELSE {}
  BY BusyAfter DEF Alone
<1>3. reserved' = IF stage'[c] \in Busy THEN {c} ELSE {}
  BY <1>1
<1>4. reserved' = reserved \/ reserved' = {}
  BY <1>1
<1>5. Len(markers) + Cardinality(reserved') + Len(released) <= Capacity
  <2>1. CASE reserved' = reserved
    BY <2>1 DEF GuardInv
  <2>2. CASE reserved' = {} /\ reserved = {c}
    <3>1. Cardinality(reserved) = 1 /\ Cardinality(reserved') = 0
      BY <2>2, SmallSets
    <3>2. QED
      BY <3>1, GuardLengths DEF GuardInv
  <2>3. QED
    BY <1>1, <1>4, <2>1, <2>2
<1>6. QED
  BY <1>2, <1>3, <1>5, GuardStays

LEMMA PassGuard ==
  ASSUME SaleTypes, OneAtATime, GuardInv, NEW c \in Sale, SaleInv(c), Alone(c), Tidy(c),
         Check(c), Passes(c)
  PROVE  GuardInv'
<1> DEFINE s == "check"
<1>1. Holds(c, s) /\ s \in Guarded /\ s \notin Busy
  BY DEF Check, Guarded, Busy
<1>2. outcome[c] = "none" /\ outcome' = outcome /\ stage'[c] = "resolve"
      /\ UNCHANGED <<markers, released>> /\ reserved' = reserved \cup {c}
  BY <1>1, AtHead, AdvanceEffect DEF Passes, Stages
<1> HIDE DEF s
<1>3. reserved = {}
  BY <1>1, ReservedIsHead
<1>4. {d \in Sale : stage'[d] \in Busy} = {c}
  <2>1. \A d \in Sale : d # c => stage'[d] = stage[d]
    BY DEF Alone
  <2>2. {d \in Sale : stage'[d] \in Busy} = IF stage'[c] \in Busy THEN {c} ELSE {}
    BY <1>1, <2>1, BusyAfter
  <2>3. QED
    BY <1>2, <2>2 DEF Busy
<1>5. reserved' = {c}
  BY <1>2, <1>3
<1>6. Len(markers) + Cardinality(reserved') + Len(released) <= Capacity
  <2>1. ~(Len(markers) + Cardinality(reserved) + Len(released) >= Capacity)
    BY DEF Passes
  <2>2. Cardinality(reserved) = 0 /\ Cardinality(reserved') = 1
    BY <1>3, <1>5, SmallSets
  <2>3. QED
    BY <2>1, <2>2, GuardLengths
<1>7. QED
  BY <1>2, <1>4, <1>5, <1>6, GuardStays

LEMMA UnknownGuard ==
  ASSUME SaleTypes, OneAtATime, GuardInv, NEW c \in Sale, SaleInv(c), Alone(c), Tidy(c), InvoiceUnknown(c)
  PROVE  GuardInv'
<1> DEFINE s == "invoice"
<1>1. Holds(c, s) /\ s \in Guarded /\ s \in Busy
  BY DEF InvoiceUnknown, Guarded, Busy
<1>2. /\ MarkIndeterminate(c) /\ End(c, "indeterminate") /\ UNCHANGED <<client, life, restarts>>
  BY DEF InvoiceUnknown, Keep
<1> HIDE DEF s
<1>3. stage[c] = s /\ queue # << >> /\ life[c] = restarts
  BY <1>1, AtHead
<1>4. stage'[c] = "over" /\ outcome'[c] = "indeterminate" /\ \A d \in Sale : d # c => stage'[d] = stage[d]
  BY <1>2, <1>3, EndEffect DEF Outcomes
<1>5. /\ released' = released /\ reserved' = reserved \ {c}
      /\ Len(markers) \in Nat /\ DOMAIN markers = 1..Len(markers)
      /\ Len(markers') = Len(markers) + 1 /\ DOMAIN markers' = 1..(Len(markers) + 1)
      /\ \A k \in 1..Len(markers) : markers'[k] = markers[k]
      /\ markers'[Len(markers) + 1].call = c /\ markers'[Len(markers) + 1].client = client[c]
  BY <1>2, MarkEffect
<1>6. reserved = {c} /\ reserved' = {}
  BY <1>1, <1>5, ReservedIsHead
<1>7. {d \in Sale : stage'[d] \in Busy} = {}
  <2>1. {d \in Sale : stage'[d] \in Busy} = IF stage'[c] \in Busy THEN {c} ELSE {}
    BY <1>1, <1>4, BusyAfter
  <2>2. QED
    BY <1>4, <2>1 DEF Busy
<1>8. Len(markers') + Cardinality(reserved') + Len(released') <= Capacity
  <2>1. Cardinality(reserved) = 1 /\ Cardinality(reserved') = 0
    BY <1>6, SmallSets
  <2>2. QED
    BY <1>5, <2>1, GuardLengths DEF GuardInv
<1>9. ASSUME NEW k \in DOMAIN markers'
      PROVE  /\ markers'[k].client = client'[markers'[k].call]
             /\ outcome'[markers'[k].call] = "indeterminate" /\ life'[markers'[k].call] = restarts'
  <2>1. CASE k \in 1..Len(markers)
    <3>1. PICK m \in Marker : m = markers[k]
      BY <1>5, <2>1 DEF SaleTypes
    <3>2. Remembered(m) /\ markers'[k] = m
      BY <1>5, <2>1, <3>1 DEF GuardInv
    <3>3. Remembered(m)'
      BY <3>2, RememberedStays
    <3>4. QED
      BY <3>2, <3>3 DEF Remembered
  <2>2. CASE k = Len(markers) + 1
    BY <1>2, <1>3, <1>4, <1>5, <2>2
  <2>3. QED
    BY <1>5, <2>1, <2>2
<1>10. ASSUME NEW k \in DOMAIN released
       PROVE  /\ released[k].client = client'[released[k].call]
              /\ outcome'[released[k].call] = "indeterminate" /\ life'[released[k].call] = restarts'
  <2>1. PICK m \in Marker : m = released[k]
    BY DEF SaleTypes
  <2>2. Remembered(m)
    BY <2>1 DEF GuardInv
  <2>3. Remembered(m)'
    BY <2>2, RememberedStays
  <2>4. QED
    BY <2>1, <2>3 DEF Remembered
<1>11. ASSUME NEW d \in Sale, outcome'[d] = "indeterminate", life'[d] = restarts'
       PROVE  \/ \E k \in DOMAIN markers' : markers'[k].call = d
              \/ \E k \in DOMAIN released' : released'[k].call = d
  <2>1. CASE d = c
    <3>1. Len(markers) + 1 \in DOMAIN markers'
      BY <1>5
    <3>2. QED
      BY <1>5, <2>1, <3>1
  <2>2. CASE d # c
    <3>1. outcome[d] = "indeterminate" /\ life[d] = restarts
      BY <1>11, <2>2 DEF Alone
    <3>2. \/ \E k \in DOMAIN markers : markers[k].call = d
          \/ \E k \in DOMAIN released : released[k].call = d
      BY <3>1 DEF GuardInv
    <3>3. \A k \in DOMAIN markers : k \in DOMAIN markers' /\ markers'[k] = markers[k]
      BY <1>5
    <3>4. QED
      BY <1>5, <3>2, <3>3
  <2>3. QED
    BY <2>1, <2>2
<1>12. reserved' = {d \in Sale : stage'[d] \in Guarded \ {"check", "undo"}}
  BY <1>6, <1>7, BusyIs
<1>13. (\A k \in DOMAIN markers : Remembered(markers[k]))'
  BY <1>9 DEF Remembered
<1>14. (\A k \in DOMAIN released : Remembered(released[k]))'
  BY <1>5, <1>10 DEF Remembered
<1>15. QED
  BY <1>8, <1>11, <1>12, <1>13, <1>14 DEF GuardInv

LEMMA BeginGuard ==
  ASSUME SaleTypes, GuardInv, NEW c \in Sale, SaleInv(c), Alone(c), Tidy(c), Prepare(c) \/ Consume(c)
  PROVE  GuardInv'
<1>1. /\ stage[c] \in {"new", "reviewed"} /\ UNCHANGED <<guard, outcome>>
      /\ Advance(c, "reviewed") \/ Advance(c, "check")
  BY DEF Prepare, Consume, Keep
<1>2. stage'[c] \in {"reviewed", "check"} /\ outcome[c] = "none"
  BY <1>1, AdvanceEffect, AtStage DEF Stages
<1>3. reserved' = {d \in Sale : stage'[d] \in Busy}
  <2>1. \A d \in Sale : stage'[d] \in Busy <=> stage[d] \in Busy
    BY <1>1, <1>2 DEF Alone, Busy
  <2>2. reserved = {d \in Sale : stage[d] \in Busy}
    BY BusyIs DEF GuardInv
  <2>3. QED
    BY <1>1, <2>1, <2>2 DEF guard
<1>4. Len(markers) + Cardinality(reserved') + Len(released) <= Capacity
  BY <1>1 DEF guard, GuardInv
<1>5. QED
  BY <1>1, <1>2, <1>3, <1>4, GuardStays DEF guard

LEMMA ServiceGuard ==
  ASSUME SaleTypes, GuardInv, NEW c \in Sale, SaleInv(c), Alone(c), Tidy(c), ServiceStep(c)
  PROVE  GuardInv'
<1>1. UNCHANGED <<guard, stage, outcome, life>>
  BY DEF ServiceStep
<1>2. reserved' = {d \in Sale : stage'[d] \in Busy}
  BY <1>1, BusyIs DEF GuardInv, guard
<1>3. Len(markers) + Cardinality(reserved') + Len(released) <= Capacity
  BY <1>1 DEF guard, GuardInv
<1>4. QED
  BY <1>1, <1>2, <1>3, GuardStays DEF guard

(* Without a reservation to give back: the end of a check and of an undo. *)
LEMMA EndGuard ==
  ASSUME SaleTypes, OneAtATime, GuardInv, NEW c \in Sale, SaleInv(c), Alone(c), Tidy(c),
         NEW s \in Guarded, Holds(c, s), NEW what \in Outcomes \ {"indeterminate"}, End(c, what),
         Abandon(c) \/ (s \notin Busy /\ UNCHANGED guard)
  PROVE  GuardInv'
<1>1. queue # << >>
  BY DEF Holds
<1>2. stage'[c] = "over" /\ outcome'[c] = what
  BY <1>1, EndEffect
<1>3. stage'[c] \notin Busy
  BY <1>2 DEF Busy
<1>4. UNCHANGED <<markers, released>>
  BY DEF Abandon, guard
<1>5. \/ reserved' = reserved /\ (s \in Busy <=> stage'[c] \in Busy)
      \/ reserved' = reserved \ {c} /\ stage'[c] \notin Busy
  BY <1>3 DEF Abandon, guard
<1>6. QED
  BY <1>2, <1>4, <1>5, HeadGuard

LEMMA EndsGuard ==
  ASSUME SaleTypes, OneAtATime, GuardInv, NEW c \in Sale, SaleInv(c), Alone(c), Tidy(c),
         \/ CheckFails(c) \/ ResolveRefused(c) \/ CustomerFailed(c) \/ InvoiceCreated(c) \/ Undone(c)
  PROVE  GuardInv'
<1>1. PICK s \in Guarded, what \in Outcomes \ {"indeterminate"} :
        Holds(c, s) /\ End(c, what) /\ (Abandon(c) \/ (s \notin Busy /\ UNCHANGED guard))
  <2>1. CASE CheckFails(c)
    BY <2>1 DEF CheckFails, Guarded, Outcomes, Busy
  <2>2. CASE ResolveRefused(c)
    BY <2>2 DEF ResolveRefused, Guarded, Outcomes
  <2>3. CASE CustomerFailed(c)
    BY <2>3 DEF CustomerFailed, Guarded, Outcomes
  <2>4. CASE InvoiceCreated(c)
    BY <2>4 DEF InvoiceCreated, Guarded, Outcomes
  <2>5. CASE Undone(c)
    BY <2>5 DEF Undone, Guarded, Outcomes, Busy
  <2>6. QED
    BY <2>1, <2>2, <2>3, <2>4, <2>5
<1>2. QED
  BY <1>1, EndGuard

LEMMA CheckGuard ==
  ASSUME SaleTypes, OneAtATime, GuardInv, NEW c \in Sale, SaleInv(c), Alone(c), Tidy(c), Check(c)
  PROVE  GuardInv'
<1> DEFINE s == "check"
<1>1. /\ Holds(c, s) /\ s \in Guarded /\ s \notin Busy
      /\ (\E what \in {"unavailable", "held"} : End(c, what) /\ UNCHANGED guard) \/ Passes(c)
  BY CheckEffect DEF Guarded, Busy
<1> HIDE DEF s
<1>2. CASE Passes(c)
  BY <1>2, PassGuard
<1>3. ASSUME NEW what \in {"unavailable", "held"}, End(c, what), UNCHANGED guard
      PROVE  GuardInv'
  <2>1. what \in Outcomes \ {"indeterminate"}
    BY DEF Outcomes
  <2>2. QED
    BY <1>1, <1>3, <2>1, EndGuard
<1>4. QED
  BY <1>1, <1>2, <1>3

LEMMA RefusedGuard ==
  ASSUME SaleTypes, OneAtATime, GuardInv, NEW c \in Sale, SaleInv(c), Alone(c), Tidy(c), InvoiceRefused(c)
  PROVE  GuardInv'
<1> DEFINE s == "invoice"  what == "failed"  op == "undo"
<1>1. Holds(c, s) /\ s \in Guarded /\ Abandon(c) /\ what \in Outcomes \ {"indeterminate"}
      /\ op \in {"customer", "invoice", "undo"} /\ op \notin Busy
  BY DEF InvoiceRefused, Guarded, Outcomes, Busy
<1>2. CASE made[c]
  <2>1. Send(c, op, client[c]) /\ outcome' = outcome
    BY <1>2 DEF InvoiceRefused
  <2>2. client[c] \in Nat /\ outcome[c] = "none"
    BY <1>1, AtHead DEF SaleTypes
  <2> HIDE DEF s, what, op
  <2>3. stage'[c] = op
    BY <1>1, <2>1, <2>2, SendEffect
  <2>4. QED
    BY <1>1, <2>1, <2>2, <2>3, HeadGuard DEF Abandon
<1>3. CASE ~made[c]
  <2>1. End(c, what)
    BY <1>3 DEF InvoiceRefused
  <2> HIDE DEF s, what, op
  <2>2. QED
    BY <1>1, <2>1, EndGuard
<1>4. QED
  BY <1>2, <1>3

LEMMA SendGuard ==
  ASSUME SaleTypes, OneAtATime, GuardInv, NEW c \in Sale, SaleInv(c), Alone(c), Tidy(c),
         Resolve(c) \/ CustomerCreated(c)
  PROVE  GuardInv'
<1>1. PICK s \in Busy : Holds(c, s)
  BY DEF Resolve, CustomerCreated, Busy
<1>2. UNCHANGED <<guard, outcome>> /\ s \in Guarded
  BY DEF Resolve, CustomerCreated, Keep, Busy, Guarded
<1>3. outcome'[c] = "none"
  BY <1>1, <1>2, AtHead
<1>4. stage'[c] \in {"customer", "invoice"}
  <2>1. Advance(c, "customer") \/ Advance(c, "invoice")
    BY DEF Resolve, CustomerCreated, SendInvoice, Send
  <2>2. QED
    BY <2>1, AdvanceEffect DEF Stages
<1>5. stage'[c] \in Busy
  BY <1>4 DEF Busy
<1>6. QED
  BY <1>1, <1>2, <1>3, <1>5, HeadGuard DEF guard

LEMMA CallGuard ==
  ASSUME SaleTypes, OneAtATime, GuardInv, NEW c \in Sale, SaleInv(c), Alone(c), Tidy(c),
         Prepare(c) \/ Consume(c) \/ SaleStep(c) \/ CheckFails(c) \/ ResolveRefused(c) \/ ServiceStep(c)
  PROVE  GuardInv'
  BY BeginGuard, ServiceGuard, EndsGuard, CheckGuard, RefusedGuard, SendGuard, UnknownGuard DEF SaleStep

(* At most the call at the head of the queue has a reservation. *)
LEMMA ReservedNumber ==
  ASSUME SaleTypes, OneAtATime, GuardInv
  PROVE  Cardinality(reserved) \in Nat
<1>1. CASE reserved = {}
  BY <1>1, FS_EmptySet
<1>2. ASSUME NEW c \in reserved
      PROVE  Cardinality(reserved) \in Nat
  <2>1. c \in Sale /\ stage[c] \in Busy /\ stage[c] \in Guarded
    BY BusyIs DEF GuardInv
  <2>2. queue # << >>
    BY <2>1 DEF OneAtATime, SaleTypes
  <2>3. stage[c] \in Running
    BY <2>1 DEF Busy, Running
  <2>4. Head(queue) = c
    BY <2>1, <2>2, <2>3, HeadAlone DEF SaleTypes
  <2>5. Holds(c, stage[c])
    BY <2>2, <2>4 DEF Holds
  <2>6. reserved = {c}
    BY <2>1, <2>5, ReservedIsHead
  <2>7. Cardinality(reserved) = 1
    BY <2>6, SmallSets
  <2>8. QED
    BY <2>7
<1>3. QED
  BY <1>1, <1>2

(* The owner moves a marker over. *)
LEMMA ReleaseGuard ==
  ASSUME SaleTypes, OneAtATime, GuardInv, Outside, NEW k \in DOMAIN markers, Handed(k)
  PROVE  GuardInv'
<1>1. UNCHANGED <<stage, client, outcome, life, reserved>> /\ restarts' = restarts
  BY DEF Outside, Alone
<1>2. \A m \in Marker : Remembered(m)' <=> Remembered(m)
  BY <1>1 DEF Remembered
<1>3. ASSUME NEW i \in DOMAIN markers'
      PROVE  Remembered(markers'[i])
  <2>1. PICK j \in DOMAIN markers : markers'[i] = markers[j]
    BY DEF Handed
  <2>2. QED
    BY <2>1 DEF GuardInv
<1>4. ASSUME NEW i \in DOMAIN released'
      PROVE  Remembered(released'[i])
  <2>1. CASE i \in DOMAIN released
    BY <2>1 DEF GuardInv, Handed
  <2>2. CASE i = Len(released) + 1
    BY <2>2 DEF GuardInv, Handed
  <2>3. QED
    BY <2>1, <2>2 DEF Handed
<1>5. (\A i \in DOMAIN markers : Remembered(markers[i]))'
      /\ (\A i \in DOMAIN released : Remembered(released[i]))'
  BY <1>1, <1>3, <1>4 DEF Remembered
<1>6. ASSUME NEW d \in Sale, outcome[d] = "indeterminate", life[d] = restarts
      PROVE  \/ \E i \in DOMAIN markers' : markers'[i].call = d
             \/ \E i \in DOMAIN released' : released'[i].call = d
  <2>1. CASE \E i \in DOMAIN released : released[i].call = d
    <3>1. \A i \in DOMAIN released : i \in DOMAIN released' /\ released'[i] = released[i]
      BY DEF Handed
    <3>2. QED
      BY <2>1, <3>1
  <2>2. CASE \E i \in DOMAIN markers : markers[i].call = d
    <3>1. PICK i \in DOMAIN markers : markers[i].call = d
      BY <2>2
    <3>2. CASE i = k
      <4>1. Len(released) + 1 \in DOMAIN released' /\ released'[Len(released) + 1] = markers[k]
        BY DEF Handed
      <4>2. QED
        BY <3>1, <3>2, <4>1
    <3>3. CASE i # k
      BY <3>1, <3>3 DEF Handed
    <3>4. QED
      BY <3>2, <3>3
  <2>3. QED
    BY <1>6, <2>1, <2>2 DEF GuardInv
<1>7. Len(markers') + Cardinality(reserved') + Len(released') <= Capacity
  <2>1. Len(markers') + Len(released') = Len(markers) + Len(released)
        /\ Len(markers') \in Nat /\ Len(released') \in Nat
    BY GuardLengths DEF Handed
  <2>2. PICK n \in Nat : n = Cardinality(reserved)
    BY ReservedNumber
  <2>3. Len(markers) + n + Len(released) <= Capacity
    BY <2>2 DEF GuardInv
  <2>4. Len(markers') + n + Len(released') <= Capacity
    BY <2>1, <2>3, GuardLengths
  <2>5. QED
    BY <1>1, <2>2, <2>4
<1>8. QED
  BY <1>1, <1>5, <1>6, <1>7 DEF GuardInv

LEMMA GuardStep ==
  ASSUME CallsInv, GuardInv, [SaleNext]_saleVars
  PROVE  GuardInv'
<1>0. SaleTypes /\ OneAtATime /\ KnownStay /\ \A c \in Sale : SaleInv(c)
  BY DEF CallsInv
<1>1. ASSUME NEW c \in Sale,
             Prepare(c) \/ Consume(c) \/ SaleStep(c) \/ CheckFails(c) \/ ResolveRefused(c) \/ ServiceStep(c)
      PROVE  GuardInv'
  <2>1. Alone(c) /\ Tidy(c)
    BY <1>0, <1>1, CallMoves, CallTidy DEF Moves
  <2>2. QED
    BY <1>0, <1>1, <2>1, CallGuard
<1>2. CASE OwnerReleases
  BY <1>0, <1>2, OwnerReleasesOutside, ReleaseGuard
<1>3. CASE UNCHANGED <<markers, released, reserved, stage, client, outcome, life, restarts>>
  BY <1>3 DEF GuardInv, Remembered
<1>4. CASE (Outside /\ UNCHANGED <<markers, released>>) \/ UNCHANGED saleVars
  <2>1. UNCHANGED <<markers, released, reserved, stage, client, outcome, life, restarts>>
    BY <1>4 DEF Outside, Alone, saleVars, guard
  <2>2. QED
    BY <1>3, <2>1
<1>5. CASE Restart
  <2>1. /\ restarts' = restarts + 1 /\ markers' = << >> /\ released' = << >> /\ reserved' = {}
        /\ stage' = [c \in Sale |-> IF stage[c] \in {"new", "over"} THEN stage[c] ELSE "dead"]
        /\ life' = life /\ restarts \in Nat
    BY <1>0, <1>5 DEF Restart, SaleTypes
  <2>2. \A c \in Sale : stage'[c] \notin Busy
    BY <2>1 DEF Busy
  <2>3. \A c \in Sale : life'[c] # restarts'
    <3>1. \A c \in Sale : life[c] \in Nat /\ life[c] <= restarts
      BY <1>0 DEF SaleInv, Lives, SaleTypes
    <3>2. QED
      BY <2>1, <3>1
  <2>4. DOMAIN markers' = {} /\ DOMAIN released' = {} /\ Len(markers') = 0 /\ Len(released') = 0
    BY <2>1
  <2>5. Cardinality(reserved') = 0
    BY <2>1, FS_EmptySet
  <2>6. Len(markers') + Cardinality(reserved') + Len(released') <= Capacity
    BY <2>4, <2>5, SaleAssumption
  <2>7. reserved' = {c \in Sale : stage'[c] \in Guarded \ {"check", "undo"}}
    BY <2>1, <2>2, BusyIs
  <2>8. QED
    BY <2>3, <2>4, <2>6, <2>7 DEF GuardInv
<1>6. QED
  BY <1>0, <1>1, <1>2, <1>4, <1>5, OwnerScansOutside, ForeignOutside DEF SaleNext

-----------------------------------------------------------------------------
(* The creates that passed the check beside one that ended unknown. *)
LEMMA LeastPosition ==
  ASSUME NEW S, S \subseteq Nat, S # {}
  PROVE  \E k \in S : \A l \in S : k <= l
<1> DEFINE R == {ss \in Nat \X Nat : ss[1] < ss[2]}
<1>1. IsWellFoundedOn(R, Nat)
  BY NatLessThanWellFounded DEF OpToRel
<1>2. R = {ss \in Nat \X Nat : ss[1] < ss[2]}
  OBVIOUS
<1> HIDE DEF R
<1>3. PICK k \in S : \A l \in S : ~(<<l, k>> \in R)
  BY <1>1, WFMin
<1>4. ASSUME NEW l \in S
      PROVE  k <= l
  <2>1. <<l, k>> \in Nat \X Nat /\ l \in Nat /\ k \in Nat
    OBVIOUS
  <2>2. ~(l < k)
    BY <1>2, <1>3, <2>1
  <2>3. QED
    BY <2>1, <2>2
<1>5. QED
  BY <1>4

LEMMA EarliestIsFirst ==
  ASSUME NEW list \in Seq(Marker), NEW c \in Sale, NEW n \in Matching(list, c)
  PROVE  \E k \in Matching(list, c) : k <= n /\ Earliest(list, c) = list[k]
<1> DEFINE all == Matching(list, c)
           first == CHOOSE k \in all : \A l \in all : k <= l
<1>1. all \subseteq Nat /\ n \in all
  BY DEF Matching
<1>2. Earliest(list, c) = list[first]
  BY DEF Earliest
<1> HIDE DEF all
<1>3. \E k \in all : \A l \in all : k <= l
  BY <1>1, LeastPosition
<1>4. first \in all /\ \A l \in all : first <= l
  BY <1>3
<1> HIDE DEF first
<1>5. QED
  BY <1>1, <1>2, <1>4 DEF all

LEMMA UnknownStays ==
  ASSUME CallsInv, NEW c, Alone(c), c \in Sale => Tidy(c), NEW a \in Sale, outcome[a] = "indeterminate"
  PROVE  outcome'[a] = "indeterminate" /\ client'[a] = client[a] /\ life'[a] = life[a]
<1>1. stage[a] = "over"
  BY DEF CallsInv, SaleInv, Lives
<1>2. CASE a = c
  BY <1>1, <1>2 DEF Tidy
<1>3. CASE a # c
  BY <1>3 DEF Alone
<1>4. QED
  BY <1>2, <1>3

LEMMA ClearedStays ==
  ASSUME CallsInv, NEW c, Alone(c), NEW a \in Sale, NEW b \in Sale,
         client'[a] = client[a], saw'[b] = saw[b],
         \A n \in DOMAIN released : n \in DOMAIN released' /\ released'[n] = released[n],
         Cleared(a, b)
  PROVE  Cleared(a, b)'
<1>1. PICK n \in DOMAIN released :
        /\ released[n].call = a
        /\ \/ \A i \in DOMAIN invoices : i <= saw[b].stored
                 => ~(invoices[i].event = EventOf[a] /\ invoices[i].client = client[a])
           \/ \E k \in 1..(n - 1) : released[k].client # client[a]
  BY DEF Cleared
<1>2. n \in DOMAIN released' /\ released'[n].call = a
  BY <1>1
<1>3. CASE \E k \in 1..(n - 1) : released[k].client # client[a]
  <2>1. PICK k \in 1..(n - 1) : released[k].client # client[a]
    BY <1>3
  <2>2. k \in DOMAIN released
    BY DEF CallsInv, SaleTypes
  <2>3. released'[k].client # client'[a]
    BY <2>1, <2>2
  <2>4. QED
    BY <1>2, <2>1, <2>3 DEF Cleared
<1>4. CASE \A i \in DOMAIN invoices : i <= saw[b].stored
             => ~(invoices[i].event = EventOf[a] /\ invoices[i].client = client[a])
  <2>1. /\ saw[b].stored \in Nat /\ saw[b].stored <= Len(invoices)
        /\ Len(invoices) \in Nat /\ DOMAIN invoices = 1..Len(invoices)
        /\ Len(invoices') \in Nat /\ DOMAIN invoices' = 1..Len(invoices')
    BY DEF CallsInv, SaleInv, ItsInvoice, SaleTypes, BookTypes, Alone
  <2>2. ASSUME NEW i \in DOMAIN invoices', i <= saw[b].stored
        PROVE  ~(invoices'[i].event = EventOf[a] /\ invoices'[i].client = client[a])
    <3>1. i \in DOMAIN invoices
      <4>1. i \in Nat /\ i >= 1
        BY <2>1
      <4>2. QED
        BY <2>1, <2>2, <4>1
    <3>2. invoices'[i] = invoices[i]
      BY <3>1 DEF Alone, Grows
    <3>3. QED
      BY <1>4, <2>2, <3>1, <3>2
  <2>3. QED
    BY <1>2, <2>2 DEF Cleared
<1>5. QED
  BY <1>1, <1>3, <1>4

LEMMA PassCleared ==
  ASSUME CallsInv, GuardInv, NEW b \in Sale, Alone(b), Tidy(b), Check(b), Passes(b), NEW a \in Sale,
         a # b, a \in saw'[b].unknown, life'[a] = restarts', EventOf[a] = EventOf[b],
         Given(b) \in {0, client'[a]}
  PROVE  Cleared(a, b)'
<1>0. SaleTypes
  BY DEF CallsInv
<1>1. See(b) /\ UNCHANGED <<invoices, client, life, restarts>>
  BY CheckEffect DEF books
<1>2. UNCHANGED released /\ Matching(markers, b) = {}
  BY DEF Passes
<1>3. outcome[a] = "indeterminate" /\ life[a] = restarts /\ Given(b) \in {0, client[a]}
  BY <1>0, <1>1, SeeEffect
<1>4. \A m \in Marker : m.call = a /\ Remembered(m) => MayBeSame(m, b) /\ m.client = client[a]
  BY <1>3 DEF Remembered, MayBeSame
<1>5. \A k \in DOMAIN markers : markers[k].call # a
  <2>1. \A k \in DOMAIN markers : markers[k] \in Marker /\ Remembered(markers[k])
    BY <1>0 DEF SaleTypes, GuardInv
  <2>2. QED
    BY <1>2, <1>4, <2>1 DEF Matching
<1>6. PICK n \in DOMAIN released : released[n].call = a
  BY <1>3, <1>5 DEF GuardInv
<1>7. n \in Matching(released, b) /\ released[n].client = client[a]
  <2>1. released[n] \in Marker /\ Remembered(released[n])
    BY <1>0 DEF SaleTypes, GuardInv
  <2>2. QED
    BY <1>4, <1>6, <2>1 DEF Matching
<1>8. PICK k \in Matching(released, b) : k <= n /\ Earliest(released, b) = released[k]
  BY <1>0, <1>7, EarliestIsFirst DEF SaleTypes
<1>9. ~Listed(EventOf[b], released[k].client)
  BY <1>2, <1>7, <1>8 DEF Passes, Suspected, Evidence
<1>10. CASE released[k].client = client[a]
  <2>1. \A i \in DOMAIN invoices : ~(invoices[i].event = EventOf[a] /\ invoices[i].client = client[a])
    BY <1>9, <1>10 DEF Listed
  <2>2. QED
    BY <1>1, <1>2, <1>6, <2>1 DEF Cleared
<1>11. CASE released[k].client # client[a]
  <2>1. k \in DOMAIN released /\ DOMAIN released \subseteq Nat \ {0}
    BY <1>0 DEF Matching, SaleTypes
  <2>2. k \in 1..(n - 1)
    BY <1>7, <1>8, <1>11, <2>1
  <2>3. QED
    BY <1>1, <1>2, <1>6, <1>11, <2>2 DEF Cleared
<1>12. QED
  BY <1>10, <1>11

(* A step that leaves the invoices a create saw, and the markers that were let go. *)
LEMMA ClearedKeeps ==
  ASSUME CallsInv, GuardInv, ChecksCleared, NEW c \in Sale \cup {"User"}, Alone(c),
         c \in Sale => Tidy(c) /\ (KeepsPlace(c) \/ (Check(c) /\ Passes(c))),
         \A n \in DOMAIN released : n \in DOMAIN released' /\ released'[n] = released[n]
  PROVE  ChecksCleared'
<1>0. c \in Sale => Tidy(c)
  OBVIOUS
<1>1. ASSUME NEW a \in Sale, NEW b \in Sale, a \in saw'[b].unknown
      PROVE  outcome[a] = "indeterminate" /\ (b = c \/ a \in saw[b].unknown)
  <2>1. CASE saw'[b] = saw[b]
    BY <1>1, <2>1 DEF ChecksCleared
  <2>2. CASE b # c
    BY <1>1, <2>1, <2>2 DEF Alone
  <2>3. CASE b = c
    BY <1>0, <1>1, <2>1, <2>3 DEF Tidy, Unknown
  <2>4. QED
    BY <2>2, <2>3
<1>2. ASSUME NEW a \in Sale, NEW b \in Sale, Placed(b)', a \in saw'[b].unknown, a # b,
             life'[a] = restarts', life'[b] = restarts', EventOf[a] = EventOf[b],
             Given(b) \in {0, client'[a]}
      PROVE  Cleared(a, b)'
  <2>1. outcome[a] = "indeterminate" /\ client'[a] = client[a] /\ life'[a] = life[a] /\ restarts' = restarts
    BY <1>0, <1>1, <1>2, UnknownStays DEF Alone
  <2>2. CASE Placed(b) /\ saw'[b] = saw[b] /\ life'[b] = life[b]
    <3>1. Cleared(a, b)
      BY <1>2, <2>1, <2>2 DEF ChecksCleared
    <3>2. QED
      BY <2>1, <2>2, <3>1, ClearedStays
  <2>3. CASE b # c
    <3>1. saw'[b] = saw[b] /\ life'[b] = life[b] /\ stage'[b] = stage[b]
      BY <2>3 DEF Alone
    <3>2. InvoiceOf(b)' <=> InvoiceOf(b)
      BY <2>3, AloneBooks
    <3>3. QED
      BY <1>2, <2>2, <3>1, <3>2 DEF Placed
  <2>4. CASE b = c /\ KeepsPlace(c)
    BY <1>2, <2>2, <2>4 DEF KeepsPlace
  <2>5. CASE b = c /\ Check(c) /\ Passes(c)
    BY <1>0, <1>2, <2>5, PassCleared
  <2>6. QED
    BY <2>3, <2>4, <2>5
<1>3. \A a, b \in Sale : a \in saw'[b].unknown => outcome'[a] = "indeterminate"
  BY <1>0, <1>1, UnknownStays
<1>4. QED
  <2>1. \A b : Given(b)' = Given(b)
    BY DEF Given
  <2>2. QED
    BY <1>2, <1>3, <2>1 DEF ChecksCleared

LEMMA ReleasedKeeps ==
  ASSUME SaleTypes, NEW c \in Sale,
         Prepare(c) \/ Consume(c) \/ SaleStep(c) \/ CheckFails(c) \/ ResolveRefused(c) \/ ServiceStep(c)
  PROVE  released' = released
<1>1. CASE Check(c)
  BY <1>1, CheckEffect DEF Passes, guard
<1>2. CASE ~Check(c)
  BY <1>2 DEF SaleStep, Prepare, Consume, CheckFails, ResolveRefused, ServiceStep, Resolve,
     CustomerCreated, CustomerFailed, InvoiceCreated, InvoiceUnknown, InvoiceRefused, Undone,
     Abandon, MarkIndeterminate, guard
<1>3. QED
  BY <1>1, <1>2

LEMMA ClearedStep ==
  ASSUME CallsInv, GuardInv, ChecksCleared, [SaleNext]_saleVars
  PROVE  ChecksCleared'
<1>0. SaleTypes /\ OneAtATime /\ KnownStay /\ \A c \in Sale : SaleInv(c)
  BY DEF CallsInv
<1>1. ASSUME NEW c \in Sale,
             Prepare(c) \/ Consume(c) \/ SaleStep(c) \/ CheckFails(c) \/ ResolveRefused(c) \/ ServiceStep(c)
      PROVE  ChecksCleared'
  <2>1. Alone(c) /\ Tidy(c) /\ (KeepsPlace(c) \/ (Check(c) /\ Passes(c)))
    BY <1>0, <1>1, CallMoves, CallTidy DEF Moves
  <2>2. released' = released
    BY <1>0, <1>1, ReleasedKeeps
  <2>3. QED
    BY <2>1, <2>2, ClearedKeeps
<1>2. ASSUME Outside, \A n \in DOMAIN released : n \in DOMAIN released' /\ released'[n] = released[n]
      PROVE  ChecksCleared'
  <2>1. Alone("User") /\ "User" \notin Sale
    BY <1>2, SaleAssumption DEF Outside
  <2>2. QED
    BY <1>2, <2>1, ClearedKeeps
<1>3. CASE OwnerScans \/ ForeignInvoice
  BY <1>0, <1>2, <1>3, OwnerScansOutside, ForeignOutside
<1>4. CASE OwnerReleases
  <2>1. Outside /\ \E k \in DOMAIN markers : Handed(k)
    BY <1>0, <1>4, OwnerReleasesOutside
  <2>2. \A n \in DOMAIN released : n \in DOMAIN released' /\ released'[n] = released[n]
    BY <2>1 DEF Handed
  <2>3. QED
    BY <1>2, <2>1, <2>2
<1>5. CASE Restart
  <2>1. restarts' = restarts + 1 /\ UNCHANGED <<life, outcome, saw>> /\ restarts \in Nat
    BY <1>0, <1>5 DEF Restart, SaleTypes
  <2>2. \A a \in Sale : life[a] \in Nat /\ life[a] <= restarts
    BY <1>0 DEF SaleInv, Lives, SaleTypes
  <2>3. \A a \in Sale : life'[a] # restarts'
    BY <2>1, <2>2
  <2>4. QED
    BY <2>1, <2>3 DEF ChecksCleared
<1>6. CASE UNCHANGED saleVars
  <2>1. UNCHANGED <<invoices, mail, stage, saw, outcome, life, restarts, client, released>>
    BY <1>6 DEF saleVars, books, guard
  <2>2. QED
    BY <2>1 DEF ChecksCleared, Placed, InvoiceOf, Cleared, Given
<1>7. QED
  BY <1>1, <1>3, <1>4, <1>5, <1>6 DEF SaleNext

LEMMA RestStarts == SaleInit => OwnClient /\ GuardInv /\ ChecksCleared
<1> SUFFICES ASSUME SaleInit
             PROVE  OwnClient /\ GuardInv /\ ChecksCleared
  OBVIOUS
<1>1. OwnClient
  BY DEF SaleInit, OwnClient
<1>2. GuardInv
  <2>1. DOMAIN markers = {} /\ DOMAIN released = {} /\ Len(markers) = 0 /\ Len(released) = 0
    BY DEF SaleInit
  <2>2. Cardinality(reserved) = 0
    BY FS_EmptySet DEF SaleInit
  <2>3. Len(markers) + Cardinality(reserved) + Len(released) <= Capacity
    BY <2>1, <2>2, SaleAssumption
  <2>4. reserved = {c \in Sale : stage[c] \in Guarded \ {"check", "undo"}}
    BY DEF SaleInit, Guarded
  <2>5. \A c \in Sale : outcome[c] # "indeterminate"
    BY DEF SaleInit
  <2>6. QED
    BY <2>1, <2>3, <2>4, <2>5 DEF GuardInv
<1>3. ChecksCleared
  BY DEF SaleInit, ChecksCleared
<1>4. QED
  BY <1>1, <1>2, <1>3

(* What holds of the creates in every reachable state: the types, the order in the lock,
   what each call, its requests, its invoice and its customer are, and what the guard and
   the checks know of the creates that ended unknown. *)
SaleInvariant == CallsInv /\ OwnClient /\ GuardInv /\ ChecksCleared

(* Every reachable state of the creates satisfies the invariant. *)
THEOREM SaleInvariantHolds == SaleSpec => []SaleInvariant
<1>1. SaleInit => SaleInvariant
  BY SaleStarts, RestStarts DEF SaleInvariant
<1>2. SaleInvariant /\ [SaleNext]_saleVars => SaleInvariant'
  <2> SUFFICES ASSUME SaleInvariant, [SaleNext]_saleVars
               PROVE  SaleInvariant'
    OBVIOUS
  <2>1. CallsInv'
    BY CallsStep DEF SaleInvariant
  <2>2. OwnClient'
    BY OwnStep DEF SaleInvariant
  <2>3. GuardInv'
    BY GuardStep DEF SaleInvariant
  <2>4. ChecksCleared'
    BY ClearedStep DEF SaleInvariant
  <2>5. QED
    BY <2>1, <2>2, <2>3, <2>4 DEF SaleInvariant
<1>3. QED
  BY <1>1, <1>2, PTL DEF SaleSpec

LEMMA BothLists ==
  ASSUME NEW s \in Seq(Marker), NEW t \in Seq(Marker), NEW m
  PROVE  m \in Range(s \o t) <=> (\E k \in DOMAIN s : s[k] = m) \/ (\E k \in DOMAIN t : t[k] = m)
<1>1. Range(s \o t) = Range(s) \cup Range(t)
  BY RangeConcatenation
<1>2. Range(s) = {s[k] : k \in DOMAIN s} /\ Range(t) = {t[k] : k \in DOMAIN t}
  BY DEF Range
<1>3. QED
  BY <1>1, <1>2

(* Every create that this server reported unknown is pending or released in the guard, and
   no other is; the guard stays within its capacity, and the reservations are of the calls
   between the check and the outcome: for any number of calls, capacity and restarts. *)
THEOREM UnknownIsRemembered == SaleSpec => []GuardRemembers
<1>1. SaleInvariant => GuardRemembers
  <2> SUFFICES ASSUME SaleInvariant
               PROVE  GuardRemembers
    OBVIOUS
  <2>0. SaleTypes /\ GuardInv /\ markers \in Seq(Marker) /\ released \in Seq(Marker)
    BY DEF SaleInvariant, CallsInv, SaleTypes
  <2>1. ASSUME NEW c
        PROVE  c \in {d \in Sale : outcome[d] = "indeterminate" /\ life[d] = restarts}
                 <=> c \in {m.call : m \in Range(markers \o released)}
    <3>1. c \in {m.call : m \in Range(markers \o released)}
            <=> (\E k \in DOMAIN markers : markers[k].call = c) \/ (\E k \in DOMAIN released : released[k].call = c)
      <4> DEFINE all == Range(markers \o released)
      <4>1. \A m : m \in all <=> (\E k \in DOMAIN markers : markers[k] = m) \/ (\E k \in DOMAIN released : released[k] = m)
        BY <2>0, BothLists
      <4> HIDE DEF all
      <4>2. c \in {m.call : m \in all}
              <=> (\E k \in DOMAIN markers : markers[k].call = c) \/ (\E k \in DOMAIN released : released[k].call = c)
        BY <4>1
      <4>3. QED
        BY <4>2 DEF all
    <3>2. /\ \A k \in DOMAIN markers : markers[k].call \in Sale /\ Remembered(markers[k])
          /\ \A k \in DOMAIN released : released[k].call \in Sale /\ Remembered(released[k])
      <4>1. \A m \in Marker : m.call \in Sale
        BY DEF Marker
      <4>2. /\ \A k \in DOMAIN markers : markers[k] \in Marker
            /\ \A k \in DOMAIN released : released[k] \in Marker
        BY <2>0
      <4>3. QED
        BY <2>0, <4>1, <4>2 DEF GuardInv
    <3>3. QED
      BY <2>0, <3>1, <3>2 DEF GuardInv, Remembered
  <2>2. QED
    BY <2>0, <2>1 DEF GuardRemembers, GuardInv
<1>2. QED
  BY <1>1, SaleInvariantHolds, PTL

(* No create stores an invoice over one that an earlier create, reported unknown by the
   same server, had stored by the time of its check, except past a released marker of
   another client: whatever is lost or late, and whatever the accountant enters. *)
THEOREM UnknownIsNotRepeated == SaleSpec => []NoSecondInvoice
<1>1. SaleInvariant => NoSecondInvoice
  <2> SUFFICES ASSUME SaleInvariant, NEW i \in DOMAIN invoices, NEW j \in DOMAIN invoices,
                      NEW a, a = invoices[i].by, NEW b, b = invoices[j].by,
                      a \in Sale, b \in Sale, a # b, life[a] = life[b], life[b] = restarts,
                      invoices[i].event = invoices[j].event, invoices[i].client = invoices[j].client,
                      a \in saw[b].unknown
               PROVE  \E n \in DOMAIN released :
                        /\ released[n].call = a
                        /\ \/ i > saw[b].stored
                           \/ \E k \in 1..(n - 1) : released[k].client # invoices[i].client
    BY DEF NoSecondInvoice
  <2>1. SaleTypes /\ ItsInvoice(a) /\ ItsInvoice(b) /\ ChecksCleared
    BY DEF SaleInvariant, CallsInv, SaleInv
  <2>2. invoices[i].event = EventOf[a] /\ invoices[i].client = client[a]
    BY <2>1 DEF ItsInvoice
  <2>3. invoices[j].event = EventOf[b] /\ invoices[j].client = client[b] /\ InvoiceOf(b)
    BY <2>1 DEF ItsInvoice, InvoiceOf
  <2>4. EventOf[a] = EventOf[b] /\ Given(b) \in {0, client[a]} /\ Placed(b)
    BY <2>1, <2>2, <2>3 DEF ItsInvoice, Placed
  <2>5. PICK n \in DOMAIN released :
          /\ released[n].call = a
          /\ \/ \A l \in DOMAIN invoices : l <= saw[b].stored
                   => ~(invoices[l].event = EventOf[a] /\ invoices[l].client = client[a])
             \/ \E k \in 1..(n - 1) : released[k].client # client[a]
    <3>1. Cleared(a, b)
      BY <2>1, <2>4 DEF ChecksCleared
    <3>2. QED
      BY <3>1 DEF Cleared
  <2>6. i \in Nat /\ saw[b].stored \in Nat
    <3>1. invoices \in Seq(OfInvoice) /\ saw[b] \in [stored : Nat, unknown : SUBSET Sale]
      BY <2>1 DEF SaleTypes, BookTypes
    <3>2. i \in Nat
      BY <3>1
    <3>3. QED
      BY <3>1, <3>2
  <2>7. i > saw[b].stored \/ \E k \in 1..(n - 1) : released[k].client # client[a]
    BY <2>2, <2>5, <2>6
  <2>8. QED
    BY <2>2, <2>5, <2>7
<1>2. QED
  BY <1>1, SaleInvariantHolds, PTL

(* What a call reports of its invoice and its customer is true and stays true, however late
   a request is served; and only a deactivation that came late can take away the customer
   of an invoice that was created or may have been. *)
THEOREM ReportsAreTrue == SaleSpec => []ReportIsTrue
<1>1. SaleInvariant => ReportIsTrue
  <2> SUFFICES ASSUME SaleInvariant, NEW c \in Sale
               PROVE  /\ outcome[c] = "created" => InvoiceOf(c)
                      /\ outcome[c] \in {"unavailable", "failed", "held", "rolledBack", "rollbackUnknown"} => ~InvoiceOf(c)
                      /\ outcome[c] \in {"unavailable", "held"} => ClientsOf(c) = {}
                      /\ outcome[c] = "rolledBack" => \A k \in ClientsOf(c) : ~clients[k].active
                      /\ outcome[c] \in {"created", "indeterminate"} /\ ~clients[client[c]].active
                            => LateDeactivation(clients[client[c]].by)
    BY DEF ReportIsTrue
  <2>1. SaleTypes /\ KnownStay /\ OwnClient /\ \A d \in Sale : SaleInv(d)
    BY DEF SaleInvariant, CallsInv
  <2>2. outcome[c] # "none" => stage[c] = "over"
    BY <2>1 DEF SaleInv, Lives
  <2>3. outcome[c] = "created" => InvoiceOf(c)
    BY <2>1 DEF SaleInv, ItsInvoice, InvoiceOf, Stored
  <2>4. outcome[c] \in {"unavailable", "failed", "held", "rolledBack", "rollbackUnknown"} => ~InvoiceOf(c)
    <3> SUFFICES ASSUME outcome[c] \in {"unavailable", "failed", "held", "rolledBack", "rollbackUnknown"}
                 PROVE  ~InvoiceOf(c)
      OBVIOUS
    <3>1. ~Stored(c)
      BY <2>1, <2>2 DEF SaleInv, ItsInvoice
    <3>2. \A r \in mail : ~(r.call = c /\ r.op = "invoice")
      BY <2>1, <2>2 DEF SaleInv, Requests
    <3>3. QED
      BY <3>1, <3>2 DEF InvoiceOf, Stored
  <2>5. outcome[c] \in {"unavailable", "held"} => ClientsOf(c) = {}
    BY <2>1, <2>2 DEF SaleInv, ItsClient
  <2>6. outcome[c] = "rolledBack" => \A k \in ClientsOf(c) : ~clients[k].active
    BY <2>1 DEF SaleInv, ItsClient
  <2>7. ASSUME outcome[c] \in {"created", "indeterminate"}, ~clients[client[c]].active
        PROVE  LateDeactivation(clients[client[c]].by)
    <3> DEFINE k == client[c]
               u == clients[k].by
    <3>1. k \in DOMAIN clients
      <4>1. k \in Nat /\ k # 0 /\ k <= Len(clients) /\ Len(clients) \in Nat /\ DOMAIN clients = 1..Len(clients)
        BY <2>1, <2>7 DEF SaleTypes, BookTypes, SaleInv, ItsClient
      <4>2. QED
        BY <4>1
    <3>2. u \in Sale \cup {"User"} /\ u # "User"
      BY <2>1, <2>7, <3>1, Clients DEF SaleTypes, KnownStay
    <3>3. k \in ClientsOf(u) /\ ~clients[k].active
      BY <2>7, <3>1 DEF ClientsOf
    <3> HIDE DEF k, u
    <3>4. stage[u] \in {"undo", "dead"} \/ outcome[u] \in {"rolledBack", "rollbackUnknown"}
      BY <2>1, <3>2, <3>3 DEF SaleInv, ItsClient
    <3>5. u # c
      BY <2>2, <2>7, <3>4
    <3>6. stage[u] # "undo" /\ outcome[u] # "rolledBack"
      BY <2>1, <3>2, <3>3, <3>5 DEF OwnClient, k
    <3>7. LateDeactivation(u)
      BY <3>4, <3>6 DEF LateDeactivation
    <3>8. QED
      BY <3>7 DEF k, u
  <2>8. QED
    BY <2>3, <2>4, <2>5, <2>6, <2>7
<1>2. QED
  BY <1>1, SaleInvariantHolds, PTL

=============================================================================
