------------------------ MODULE ServerRuntime_proofs ------------------------
(***************************************************************************)
(* Proofs about ServerRuntime: for any number of connections, tool calls   *)
(* and switches, a call that may write keeps its connection, no request    *)
(* goes out under one that was switched away from, the cache shows the     *)
(* process its own settled writes, a plan is executed at most once, and    *)
(* an operation result keeps the proof it depends on.                      *)
(***************************************************************************)
EXTENDS ServerRuntime, FiniteSetTheorems, SequenceTheorems, WellFoundedInduction,
        TLAPS

Snapshot == [index : Index, gen : Nat]
Local == [snap : Snapshot \cup {None}, gen : Nat, value : Nat \cup {None},
          answer : {"none", "ok", "rejected", "lost"}]

(* The shape of the state the two properties read, and that a running call has a
   snapshot. *)
Shape ==
    /\ active \in Snapshot
    /\ cacheGen \in Nat
    /\ service \in [Index -> Nat]
    /\ step \in [Call -> Step]
    /\ local \in [Call -> Local]
    /\ \A c \in Call : Running(c) => local[c].snap \in Snapshot
    /\ \A c \in Call : step[c] = "switch" => c \in Switch

(* The in-flight set is what switch_connection takes it for; a snapshot is never of
   a later generation, and one of the current generation is of the active
   connection. *)
Guarded ==
    /\ inFlight = {c \in Call \ ReadOnly : Running(c)}
    /\ \A c \in Call : Running(c) =>
          /\ local[c].snap.gen <= active.gen
          /\ local[c].snap.gen = active.gen => local[c].snap = active
    /\ MutationKeepsItsConnection

RuntimeInv == Shape /\ Guarded

-----------------------------------------------------------------------------
LEMMA InitRuntime == Init => RuntimeInv
  BY RuntimeAssumption
     DEF Init, RuntimeInv, Shape, Guarded, MutationKeepsItsConnection, Running, Snapshot,
         Local, Fresh, Step

(* A step of a running call that does not end it, and leaves the snapshots and the
   connection alone. *)
LEMMA GoesOn ==
  ASSUME RuntimeInv, NEW c \in Call, Running(c),
         NEW s \in Step \ {"new", "over"}, s = "switch" => c \in Switch, Goto(c, s),
         active' = active, cacheGen' \in Nat, service' \in [Index -> Nat],
         local' \in [Call -> Local], \A d \in Call : local'[d].snap = local[d].snap
  PROVE  RuntimeInv'
<1>1. \A d \in Call : /\ Running(d)' <=> Running(d)
                      /\ step'[d] = "switch" => d \in Switch
  BY DEF RuntimeInv, Shape, Goto, Running
<1>2. inFlight' = inFlight /\ step' \in [Call -> Step]
  BY DEF RuntimeInv, Shape, Goto
<1>3. Shape'
  BY <1>1, <1>2 DEF RuntimeInv, Shape
<1>4. Guarded'
  BY <1>1, <1>2 DEF RuntimeInv, Guarded, MutationKeepsItsConnection
<1>5. QED
  BY <1>3, <1>4 DEF RuntimeInv

(* The same for the steps that leave the locals alone. *)
LEMMA Continues ==
  ASSUME RuntimeInv, NEW c \in Call, Running(c),
         NEW s \in Step \ {"new", "over"}, s = "switch" => c \in Switch, Continue(c, s),
         active' = active, cacheGen' \in Nat, service' \in [Index -> Nat]
  PROVE  RuntimeInv'
<1>1. Goto(c, s) /\ local' = local
  BY DEF Continue
<1>2. local' \in [Call -> Local]
  BY <1>1 DEF RuntimeInv, Shape
<1>3. QED
  BY <1>1, <1>2, GoesOn

(* A call that ends is no longer in flight. *)
LEMMA EndKeeps ==
  ASSUME RuntimeInv, NEW c \in Call, NEW kind, End(c, kind),
         active' = active, cacheGen' \in Nat, service' \in [Index -> Nat]
  PROVE  RuntimeInv'
<1>1. \A d \in Call : /\ Running(d)' <=> (Running(d) /\ d # c)
                      /\ step'[d] = "switch" => d \in Switch
                      /\ d # c => local'[d] = local[d]
  BY DEF RuntimeInv, Shape, End, Running
<1>2. step' \in [Call -> Step] /\ local' \in [Call -> Local] /\ inFlight' = inFlight \ {c}
  BY DEF RuntimeInv, Shape, End, Step, Local, Fresh
<1>3. Shape'
  BY <1>1, <1>2 DEF RuntimeInv, Shape
<1>4. Guarded'
  BY <1>1, <1>2 DEF RuntimeInv, Guarded, MutationKeepsItsConnection
<1>5. QED
  BY <1>3, <1>4 DEF RuntimeInv

(* A step no call takes. *)
LEMMA NoCallMoves ==
  ASSUME RuntimeInv, UNCHANGED <<step, local, inFlight>>,
         active' = active, cacheGen' \in Nat, service' \in [Index -> Nat]
  PROVE  RuntimeInv'
  BY DEF RuntimeInv, Shape, Guarded, MutationKeepsItsConnection, Running

(* A running call's connection is one of the configured ones. *)
LEMMA RunningAt ==
  ASSUME RuntimeInv, NEW c \in Call, Running(c)
  PROVE  /\ local[c] \in Local
         /\ local[c].snap \in Snapshot
         /\ At(c) \in Index
         /\ service[At(c)] \in Nat
  BY DEF RuntimeInv, Shape, At, Snapshot

(* A write that the service carries out. *)
LEMMA CarryOutType ==
  ASSUME RuntimeInv, NEW i \in Index, CarryOut(i)
  PROVE  service' \in [Index -> Nat]
  BY DEF RuntimeInv, Shape, CarryOut

-----------------------------------------------------------------------------
(* The steps that move a connection: its arrival takes the snapshot, a switch takes
   the next generation. *)
LEMMA ArriveKeeps ==
  ASSUME RuntimeInv, NEW c \in Call, Arrive(c)
  PROVE  RuntimeInv'
<1>1. CASE WantOf[c] \notin {None, active.index}
  <2>1. End(c, "wrongConnection") /\ UNCHANGED <<active, cacheGen, service>>
    BY <1>1 DEF Arrive, data, remote
  <2>2. QED
    BY <2>1, EndKeeps DEF RuntimeInv, Shape
<1>2. CASE WantOf[c] \in {None, active.index}
  <2>1. /\ step[c] = "new"
        /\ step' = [step EXCEPT ![c] = "label"]
        /\ local' = [local EXCEPT ![c].snap = active]
        /\ inFlight' = IF c \in ReadOnly THEN inFlight ELSE inFlight \cup {c}
        /\ UNCHANGED <<active, cacheGen, service>>
    BY <1>2 DEF Arrive, Capture, data, remote
  <2>2. \A d \in Call : /\ Running(d)' <=> (Running(d) \/ d = c)
                        /\ step'[d] = "switch" => d \in Switch
                        /\ d # c => local'[d] = local[d]
    BY <2>1 DEF RuntimeInv, Shape, Running
  <2>3. local' \in [Call -> Local] /\ local'[c].snap = active
    BY <2>1 DEF RuntimeInv, Shape, Local
  <2>4. step' \in [Call -> Step]
    BY <2>1 DEF RuntimeInv, Shape, Step
  <2>5. Shape'
    BY <2>1, <2>2, <2>3, <2>4 DEF RuntimeInv, Shape
  <2>6. Guarded'
    BY <2>1, <2>2, <2>3 DEF RuntimeInv, Shape, Guarded, MutationKeepsItsConnection, Snapshot
  <2>7. QED
    BY <2>5, <2>6 DEF RuntimeInv
<1>3. QED
  BY <1>1, <1>2

LEMMA SwitchKeeps ==
  ASSUME RuntimeInv, NEW c \in Call, SwitchConnection(c)
  PROVE  RuntimeInv'
<1>1. CASE /\ End(c, "already") \/ End(c, "blocked")
           /\ UNCHANGED <<active, data>>
  BY <1>1, EndKeeps, SwitchConnection(c) DEF SwitchConnection, data, remote, RuntimeInv, Shape
<1>2. CASE /\ inFlight \ {c} = {}
           /\ SwitchTo(TargetOf[c])
           /\ End(c, "switched")
  <2>1. step[c] = "switch" /\ TargetOf[c] \in Index
    BY RuntimeAssumption DEF SwitchConnection, RuntimeInv, Shape
  <2>2. /\ active' = [index |-> TargetOf[c], gen |-> active.gen + 1]
        /\ cacheGen' = cacheGen + 2
        /\ service' = service
    BY <1>2 DEF SwitchTo, SwitchConnection, remote
  <2>3. active' \in Snapshot /\ cacheGen' \in Nat /\ active.gen \in Nat
    BY <2>1, <2>2 DEF RuntimeInv, Shape, Snapshot
  <2>4. \A d \in Call : /\ Running(d)' <=> (Running(d) /\ d # c)
                        /\ step'[d] = "switch" => d \in Switch
                        /\ d # c => local'[d] = local[d]
    BY <1>2 DEF RuntimeInv, Shape, End, Running
  <2>5. step' \in [Call -> Step] /\ local' \in [Call -> Local] /\ inFlight' = inFlight \ {c}
    BY <1>2 DEF RuntimeInv, Shape, End, Step, Local, Fresh
  <2>6. Shape'
    BY <2>2, <2>3, <2>4, <2>5 DEF RuntimeInv, Shape
  <2>7. \A d \in Call \ ReadOnly : ~ Running(d)'
    BY <1>2, <2>4 DEF RuntimeInv, Guarded
  <2>8. \A d \in Call : Running(d)' => local'[d].snap.gen < active'.gen
    BY <2>2, <2>3, <2>4 DEF RuntimeInv, Shape, Guarded, Snapshot
  <2>9. Guarded'
    <3>1. inFlight' = {}
      BY <1>2, <2>5
    <3>2. \A d \in Call : Running(d)' =>
             /\ local'[d].snap.gen <= active'.gen
             /\ local'[d].snap.gen # active'.gen
      <4> SUFFICES ASSUME NEW d \in Call, Running(d)'
                   PROVE  /\ local'[d].snap.gen <= active'.gen
                          /\ local'[d].snap.gen # active'.gen
        OBVIOUS
      <4>1. local'[d].snap.gen \in Nat /\ active'.gen \in Nat
        BY <2>6 DEF Shape, Snapshot
      <4>2. QED
        BY <4>1, <2>8
    <3>3. QED
      BY <2>7, <3>1, <3>2 DEF Guarded, MutationKeepsItsConnection
  <2>10. QED
    BY <2>6, <2>9 DEF RuntimeInv
<1>3. QED
  BY <1>1, <1>2 DEF SwitchConnection, data

-----------------------------------------------------------------------------
(* The reads: a call's locals change, its snapshot does not. *)
LEMMA ReadKeeps ==
  ASSUME RuntimeInv, NEW c \in Call,
         StartRead(c) \/ ServeRead(c) \/ LoseRead(c) \/ ReturnRead(c)
  PROVE  RuntimeInv'
<1>0. Running(c)
  BY DEF StartRead, ServeRead, LoseRead, ReturnRead, Running
<1>1. UNCHANGED <<active, cacheGen>> \/ UNCHANGED <<active, data>>
  BY DEF StartRead, ServeRead, LoseRead, ReturnRead
<1>2. active' = active /\ cacheGen' \in Nat /\ service' \in [Index -> Nat]
  BY <1>1 DEF StartRead, ServeRead, LoseRead, ReturnRead, data, remote, RuntimeInv, Shape
<1>3. ASSUME NEW kind, End(c, kind) PROVE RuntimeInv'
  BY <1>2, <1>3, EndKeeps
<1>4. ASSUME NEW s \in Step \ {"new", "over", "switch"}, NEW l \in Local,
             Goto(c, s), local' = [local EXCEPT ![c] = l], l.snap = local[c].snap
      PROVE  RuntimeInv'
  <2>1. local' \in [Call -> Local] /\ \A d \in Call : local'[d].snap = local[d].snap
    BY <1>4 DEF RuntimeInv, Shape
  <2>2. QED
    BY <1>0, <1>2, <1>4, <2>1, GoesOn
<1>5. ASSUME AfterRead(c) PROVE RuntimeInv'
  <2>1. [Fresh EXCEPT !.snap = local[c].snap] \in Local
    BY <1>0, RunningAt DEF Fresh, Local
  <2>2. [Fresh EXCEPT !.snap = local[c].snap].snap = local[c].snap
    BY DEF Fresh
  <2>3. "issue" \in Step \ {"new", "over", "switch"} /\ "consume" \in Step \ {"new", "over", "switch"}
    BY DEF Step
  <2>4. CASE c \in DryRun
    BY <1>4, <1>5, <2>1, <2>2, <2>3, <2>4 DEF AfterRead
  <2>5. CASE c \notin DryRun
    BY <1>4, <1>5, <2>1, <2>2, <2>3, <2>5 DEF AfterRead
  <2>6. QED
    BY <2>4, <2>5
<1>6. ASSUME NEW s \in {"readWait"}, Continue(c, s) PROVE RuntimeInv'
  BY <1>0, <1>2, <1>6, Continues DEF Step
<1>7. CASE StartRead(c)
  <2>1. CASE Goto(c, "readWait") /\ local' = [local EXCEPT ![c].gen = cacheGen]
    <3>1. local' = [local EXCEPT ![c] = [local[c] EXCEPT !.gen = cacheGen]]
      BY <2>1
    <3>2. /\ [local[c] EXCEPT !.gen = cacheGen] \in Local
          /\ [local[c] EXCEPT !.gen = cacheGen].snap = local[c].snap
      BY <1>0, RunningAt DEF Local, RuntimeInv, Shape
    <3>3. QED
      BY <1>4, <2>1, <3>1, <3>2 DEF Step
  <2>2. QED
    BY <1>3, <1>5, <1>7, <2>1 DEF StartRead
<1>8. CASE ServeRead(c)
  <2>1. local' = [local EXCEPT ![c] = [local[c] EXCEPT !.value = service[At(c)]]]
    BY <1>8 DEF ServeRead
  <2>2. /\ [local[c] EXCEPT !.value = service[At(c)]] \in Local
        /\ [local[c] EXCEPT !.value = service[At(c)]].snap = local[c].snap
    BY <1>0, RunningAt DEF Local
  <2>3. QED
    BY <1>4, <1>8, <2>1, <2>2 DEF ServeRead, Step
<1>9. CASE LoseRead(c)
  BY <1>3, <1>6, <1>9 DEF LoseRead
<1>10. CASE ReturnRead(c)
  BY <1>5, <1>10 DEF ReturnRead
<1>11. QED
  BY <1>7, <1>8, <1>9, <1>10

(* The sends: only a call whose snapshot is current gets to the network. *)
LEMMA SendKeeps ==
  ASSUME RuntimeInv, NEW c \in Call,
         \/ SendRequest(c, "readWait", "reading")
         \/ SendRequest(c, "writeWait", "writing")
  PROVE  RuntimeInv'
<1>1. Running(c) /\ active' = active /\ cacheGen' \in Nat /\ service' \in [Index -> Nat]
  BY DEF SendRequest, Running, data, remote, RuntimeInv, Shape
<1>2. End(c, "interrupted") \/ Continue(c, "reading") \/ Continue(c, "writing")
  BY DEF SendRequest
<1>3. QED
  BY <1>1, <1>2, Continues, EndKeeps DEF Step

(* The plans: issued by a call that ends, consumed by one that goes on to write. *)
LEMMA PlanKeeps ==
  ASSUME RuntimeInv, NEW c \in Call, Label(c) \/ IssuePlan(c) \/ Consume(c)
  PROVE  RuntimeInv'
<1>1. active' = active /\ cacheGen' \in Nat /\ service' \in [Index -> Nat]
  BY DEF Label, IssuePlan, Consume, data, remote, RuntimeInv, Shape
<1>2. CASE Label(c)
  <2>1. FirstStep(c) \in Step \ {"new", "over"} /\ (FirstStep(c) = "switch" => c \in Switch)
    BY DEF FirstStep, Step
  <2>2. Running(c) /\ Continue(c, FirstStep(c))
    BY <1>2 DEF Label, Running
  <2>3. QED
    BY <1>1, <2>1, <2>2, Continues
<1>3. CASE IssuePlan(c)
  BY <1>1, <1>3, EndKeeps DEF IssuePlan
<1>4. CASE Consume(c)
  <2>1. Running(c) /\ (Continue(c, "write") \/ \E verdict : End(c, verdict))
    BY <1>4 DEF Consume, Running
  <2>2. QED
    BY <1>1, <2>1, Continues, EndKeeps DEF Step
<1>5. QED
  BY <1>2, <1>3, <1>4

(* The writes of a call whose plan was consumed, up to its report. *)
LEMMA WriteKeeps ==
  ASSUME RuntimeInv, NEW c \in Call,
         StartWrite(c) \/ ServeWrite(c) \/ Settle(c) \/ Report(c)
  PROVE  RuntimeInv'
<1>1. Running(c) /\ active' = active
  BY DEF StartWrite, ServeWrite, Settle, Report, Running
<1>2. CASE StartWrite(c)
  <2>1. cacheGen' \in Nat /\ service' \in [Index -> Nat]
    BY <1>2 DEF StartWrite, data, remote, RuntimeInv, Shape
  <2>2. QED
    BY <1>1, <1>2, <2>1, Continues, EndKeeps DEF StartWrite, Step
<1>3. CASE ServeWrite(c)
  <2>1. PICK text \in {"ok", "rejected", "lost"} : Answer(c, text)
    BY <1>3 DEF ServeWrite
  <2>2. cacheGen' \in Nat
    BY <1>3 DEF ServeWrite, data, RuntimeInv, Shape
  <2>3. service' \in [Index -> Nat]
    <3>1. CarryOut(At(c)) \/ UNCHANGED service
      BY <1>3 DEF ServeWrite
    <3>2. QED
      BY <1>1, <3>1, RunningAt, CarryOutType DEF RuntimeInv, Shape
  <2>4. local' = [local EXCEPT ![c] = [local[c] EXCEPT !.answer = text]]
    BY <2>1 DEF Answer
  <2>5. /\ [local[c] EXCEPT !.answer = text] \in Local
        /\ [local[c] EXCEPT !.answer = text].snap = local[c].snap
    BY <1>1, RunningAt DEF Local
  <2>6. local' \in [Call -> Local] /\ \A d \in Call : local'[d].snap = local[d].snap
    BY <2>4, <2>5 DEF RuntimeInv, Shape
  <2>7. Goto(c, "writeBack") /\ "writeBack" \in Step \ {"new", "over"}
    BY <2>1 DEF Answer, Step
  <2>8. QED
    BY <1>1, <2>2, <2>3, <2>6, <2>7, GoesOn
<1>4. CASE Settle(c)
  <2>1. service' \in [Index -> Nat] /\ cacheGen' \in Nat
    BY <1>4 DEF Settle, Invalidate, data, remote, RuntimeInv, Shape
  <2>2. QED
    BY <1>1, <1>4, <2>1, Continues DEF Settle, Step
<1>5. CASE Report(c)
  <2>1. cacheGen' \in Nat /\ service' \in [Index -> Nat] /\ \E kind : End(c, kind)
    BY <1>5 DEF Report, data, remote, RuntimeInv, Shape
  <2>2. QED
    BY <1>1, <2>1, EndKeeps
<1>6. QED
  BY <1>2, <1>3, <1>4, <1>5

(* What happens by itself: eviction, a write that lands late, an entry that expires. *)
LEMMA IdleKeeps ==
  ASSUME RuntimeInv,
         (\E i \in Index : Evict(i) \/ Land(i)) \/ StoreStep \/ UNCHANGED vars
  PROVE  RuntimeInv'
<1>1. UNCHANGED <<step, local, inFlight, active>>
  BY DEF Evict, Land, StoreStep, vars, connection
<1>2. cacheGen' \in Nat
  BY DEF Evict, Land, StoreStep, vars, data, RuntimeInv, Shape
<1>3. service' \in [Index -> Nat]
  <2>1. UNCHANGED service \/ \E i \in Index : CarryOut(i)
    BY DEF Evict, Land, StoreStep, vars, remote
  <2>2. QED
    BY <2>1, CarryOutType DEF RuntimeInv, Shape
<1>4. QED
  BY <1>1, <1>2, <1>3, NoCallMoves

LEMMA NextRuntime == RuntimeInv /\ [Next]_vars => RuntimeInv'
<1> SUFFICES ASSUME RuntimeInv, [Next]_vars PROVE RuntimeInv'
  OBVIOUS
<1>1. ASSUME NEW c \in Call, CallStep(c) \/ ServeRead(c) \/ LoseRead(c) \/ ServeWrite(c)
      PROVE  RuntimeInv'
  BY <1>1, ArriveKeeps, PlanKeeps, ReadKeeps, SendKeeps, WriteKeeps, SwitchKeeps DEF CallStep
<1>2. QED
  BY <1>1, IdleKeeps DEF Next

(* The inductive invariant holds in every reachable state. *)
THEOREM RuntimeInvariant == Spec => []RuntimeInv
  BY InitRuntime, NextRuntime, PTL DEF Spec

(* switch_connection waits for every call that may write, so such a call has the
   active connection for its snapshot until it ends. *)
THEOREM MutationsKeepConnection == Spec => []MutationKeepsItsConnection
<1>1. RuntimeInv => MutationKeepsItsConnection
  BY DEF RuntimeInv, Guarded
<1>2. QED
  BY <1>1, RuntimeInvariant, PTL

-----------------------------------------------------------------------------
(* A call gets to the network only behind the request guard, and under its invariant
   the guard compares the whole snapshot. *)
LEMMA SendIsGuarded ==
  ASSUME RuntimeInv, [Next]_vars, NEW c \in Call,
         step'[c] # step[c], step'[c] \in {"reading", "writing"}
  PROVE  Running(c) /\ Current(c)
<1> USE DEF RuntimeInv, Shape
<1>1. ASSUME NEW d \in Call, CallStep(d) \/ ServeRead(d) \/ LoseRead(d) \/ ServeWrite(d)
      PROVE  d = c /\ (SendRequest(d, "readWait", "reading")
                         \/ SendRequest(d, "writeWait", "writing"))
  <2>1. d = c
    BY <1>1 DEF CallStep, ServeRead, LoseRead, ServeWrite, Arrive, Label, StartRead,
                SendRequest, ReturnRead, IssuePlan, Consume, StartWrite, Settle, Report,
                SwitchConnection, Continue, Goto, End, AfterRead, Answer
  <2>2. SendRequest(d, "readWait", "reading") \/ SendRequest(d, "writeWait", "writing")
    BY <1>1, <2>1
       DEF CallStep, ServeRead, LoseRead, ServeWrite, Arrive, Label, FirstStep, StartRead,
           ReturnRead, IssuePlan, Consume, StartWrite, Settle, Report,
           SwitchConnection, Continue, Goto, End, AfterRead, Answer
  <2>3. QED
    BY <2>1, <2>2
<1>2. ~UNCHANGED step
  OBVIOUS
<1>3. PICK d \in Call : CallStep(d) \/ ServeRead(d) \/ LoseRead(d) \/ ServeWrite(d)
  BY <1>2 DEF Next, Evict, Land, StoreStep, vars
<1>4. SendRequest(c, "readWait", "reading") \/ SendRequest(c, "writeWait", "writing")
  BY <1>1, <1>3
<1>5. QED
  BY <1>4 DEF SendRequest, Running, End

(* No call, however long it waited for its turn, sends a request under a connection
   that is no longer the active one. *)
THEOREM RequestsKeepConnection == Spec => NoRequestAfterSwitch
<1>1. ASSUME RuntimeInv, [Next]_vars
      PROVE  \A c \in Call : step'[c] # step[c] /\ step'[c] \in {"reading", "writing"}
                                => local[c].snap = active
  BY <1>1, SendIsGuarded DEF RuntimeInv, Guarded, Current
<1>2. QED
  BY <1>1, RuntimeInvariant, PTL DEF Spec, NoRequestAfterSwitch
-----------------------------------------------------------------------------
(* What the cache shows.  A value that a read brings back is cached only when nothing
   was invalidated since the read was asked for, and until then no write has settled
   on its connection; so it is not older than the last one that did. *)
CacheInv ==
    /\ settled \in [Index -> Nat]
    /\ \A i \in Index : settled[i] <= service[i]
    /\ cache \in [Index -> Nat \cup {None}]
    /\ CacheShowsSettledWrites
    /\ \A c \in Call :
          /\ step[c] \in {"readWait", "reading", "readBack"} => local[c].gen <= cacheGen
          /\ step[c] = "readBack" /\ local[c].gen = cacheGen =>
                local[c].value \in Nat /\ local[c].value >= settled[At(c)]

LEMMA InitCache == Init => CacheInv
  BY RuntimeAssumption DEF Init, CacheInv, CacheShowsSettledWrites

(* A call that is not reading moves, and at most forgets an entry. *)
LEMMA NoReadKeepsCache ==
  ASSUME RuntimeInv, CacheInv, NEW c \in Call, UNCHANGED <<cache, cacheGen, settled>>,
         service' \in [Index -> Nat], \A i \in Index : service'[i] >= service[i],
         step'[c] \notin {"readWait", "reading", "readBack"},
         \A d \in Call \ {c} : step'[d] = step[d] /\ local'[d] = local[d]
  PROVE  CacheInv'
<1>1. \A i \in Index : settled[i] \in Nat /\ service[i] \in Nat /\ service'[i] \in Nat
  BY DEF CacheInv, RuntimeInv, Shape
<1>2. \A i \in Index : settled'[i] <= service'[i]
  BY <1>1 DEF CacheInv
<1>3. ASSUME NEW d \in Call
      PROVE  /\ step'[d] \in {"readWait", "reading", "readBack"} => local'[d].gen <= cacheGen'
             /\ step'[d] = "readBack" /\ local'[d].gen = cacheGen' =>
                   local'[d].value \in Nat /\ local'[d].value >= settled'[At(d)']
  BY DEF CacheInv, At
<1>4. QED
  BY <1>2, <1>3 DEF CacheInv, CacheShowsSettledWrites

(* The read of call c goes on. *)
LEMMA ReadKeepsCache ==
  ASSUME RuntimeInv, CacheInv, NEW c \in Call,
         \/ StartRead(c) \/ ServeRead(c) \/ LoseRead(c) \/ ReturnRead(c)
         \/ SendRequest(c, "readWait", "reading")
  PROVE  CacheInv'
<1>0. /\ Running(c) /\ local[c] \in Local /\ At(c) \in Index /\ service[At(c)] \in Nat
      /\ cacheGen \in Nat /\ step \in [Call -> Step] /\ local \in [Call -> Local]
      /\ UNCHANGED <<service, cacheGen, settled>>
  <2>1. Running(c)
    BY DEF StartRead, ServeRead, LoseRead, ReturnRead, SendRequest, Running
  <2>2. QED
    BY <2>1, RunningAt DEF StartRead, ServeRead, LoseRead, ReturnRead, SendRequest, data, remote,
          history, RuntimeInv, Shape
<1>1. \A d \in Call \ {c} : step'[d] = step[d] /\ local'[d] = local[d]
  BY <1>0 DEF StartRead, ServeRead, LoseRead, ReturnRead, SendRequest, AfterRead, Continue, Goto, End
<1>2. \A i \in Index : service'[i] >= service[i] /\ service[i] \in Nat /\ settled[i] \in Nat
  BY <1>0 DEF RuntimeInv, Shape, CacheInv
<1>3. CASE cache' = cache /\ step'[c] \notin {"readWait", "reading", "readBack"}
  BY <1>0, <1>1, <1>2, <1>3, NoReadKeepsCache DEF RuntimeInv, Shape
<1>4. ASSUME cache' = cache, step'[c] \in {"readWait", "reading", "readBack"},
             local'[c].gen <= cacheGen,
             step'[c] = "readBack" => local'[c].value = service[At(c)] /\ At(c)' = At(c)
      PROVE  CacheInv'
  <2>1. ASSUME NEW d \in Call
        PROVE  /\ step'[d] \in {"readWait", "reading", "readBack"} => local'[d].gen <= cacheGen'
               /\ step'[d] = "readBack" /\ local'[d].gen = cacheGen' =>
                     local'[d].value \in Nat /\ local'[d].value >= settled'[At(d)']
    <3>1. CASE d = c
      BY <1>0, <1>2, <1>4, <3>1 DEF CacheInv
    <3>2. CASE d # c
      BY <1>0, <1>1, <3>2 DEF CacheInv, At
    <3>3. QED
      BY <3>1, <3>2
  <2>2. QED
    BY <1>0, <1>4, <2>1 DEF CacheInv, CacheShowsSettledWrites
<1>5. CASE StartRead(c)
  <2>1. cache' = cache
    BY <1>5 DEF StartRead, data
  <2>2. CASE Goto(c, "readWait") /\ local' = [local EXCEPT ![c].gen = cacheGen]
    <3>1. step'[c] = "readWait" /\ local'[c].gen = cacheGen
      BY <1>0, <2>2 DEF Goto, Local
    <3>2. QED
      BY <1>0, <1>4, <2>1, <3>1
  <2>3. CASE AfterRead(c) \/ End(c, "interrupted")
    BY <1>0, <1>3, <2>1, <2>3 DEF AfterRead, Goto, End
  <2>4. QED
    BY <1>5, <2>2, <2>3 DEF StartRead
<1>6. CASE SendRequest(c, "readWait", "reading")
  <2>1. cache' = cache /\ step[c] = "readWait"
    BY <1>6 DEF SendRequest, data
  <2>2. CASE Continue(c, "reading")
    BY <1>0, <1>4, <2>1, <2>2 DEF Continue, Goto, CacheInv
  <2>3. CASE End(c, "interrupted")
    BY <1>0, <1>3, <2>1, <2>3 DEF End
  <2>4. QED
    BY <1>6, <2>2, <2>3 DEF SendRequest
<1>7. CASE ServeRead(c)
  <2>1. /\ cache' = cache /\ step[c] = "reading" /\ step'[c] = "readBack"
        /\ local' = [local EXCEPT ![c].value = service[At(c)]]
    BY <1>0, <1>7 DEF ServeRead, Goto, data
  <2>2. /\ local'[c].gen = local[c].gen /\ local'[c].snap = local[c].snap
        /\ local'[c].value = service[At(c)]
    BY <1>0, <2>1 DEF Local
  <2>3. QED
    BY <1>0, <1>4, <2>1, <2>2 DEF CacheInv, At
<1>8. CASE LoseRead(c)
  <2>1. cache' = cache /\ step[c] = "reading"
    BY <1>8 DEF LoseRead, data
  <2>2. CASE Continue(c, "readWait")
    BY <1>0, <1>4, <2>1, <2>2 DEF Continue, Goto, CacheInv
  <2>3. CASE \E kind : End(c, kind)
    BY <1>0, <1>3, <2>1, <2>3 DEF End
  <2>4. QED
    BY <1>8, <2>2, <2>3 DEF LoseRead
<1>9. CASE ReturnRead(c)
  <2>1. /\ step[c] = "readBack" /\ step'[c] \in {"issue", "consume"}
        /\ cache' = IF local[c].gen = cacheGen THEN [cache EXCEPT ![At(c)] = local[c].value]
                    ELSE cache
    BY <1>0, <1>9 DEF ReturnRead, AfterRead, Goto
  <2>2. CASE local[c].gen # cacheGen
    BY <1>0, <1>3, <2>1, <2>2
  <2>3. CASE local[c].gen = cacheGen
    <3>1. local[c].value \in Nat /\ local[c].value >= settled[At(c)]
      BY <2>1, <2>3 DEF CacheInv
    <3>2. cache' = [cache EXCEPT ![At(c)] = local[c].value]
      BY <2>1, <2>3
    <3>3. cache' \in [Index -> Nat \cup {None}] /\ CacheShowsSettledWrites'
      BY <1>0, <3>1, <3>2 DEF CacheInv, CacheShowsSettledWrites
    <3>4. ASSUME NEW d \in Call
          PROVE  /\ step'[d] \in {"readWait", "reading", "readBack"} => local'[d].gen <= cacheGen'
                 /\ step'[d] = "readBack" /\ local'[d].gen = cacheGen' =>
                       local'[d].value \in Nat /\ local'[d].value >= settled'[At(d)']
      BY <1>0, <1>1, <2>1 DEF CacheInv, At
    <3>5. QED
      BY <1>0, <3>3, <3>4 DEF CacheInv
  <2>4. QED
    BY <2>2, <2>3
<1>10. QED
  BY <1>5, <1>6, <1>7, <1>8, <1>9

(* A settled write, and a switch, invalidate what they outdate, and with it every read
   that is under way. *)
LEMMA InvalidationKeepsCache ==
  ASSUME RuntimeInv, CacheInv, NEW c \in Call, Settle(c) \/ SwitchConnection(c)
  PROVE  CacheInv'
<1>0. /\ Running(c) /\ At(c) \in Index /\ cacheGen \in Nat /\ step \in [Call -> Step]
      /\ local \in [Call -> Local] /\ service' = service /\ service \in [Index -> Nat]
  <2>1. Running(c)
    BY DEF Settle, SwitchConnection, Running
  <2>2. QED
    BY <2>1, RunningAt DEF Settle, SwitchConnection, remote, RuntimeInv, Shape
<1>1. /\ \A d \in Call \ {c} : step'[d] = step[d] /\ local'[d] = local[d]
      /\ step'[c] \in {"report", "over"}
  BY <1>0 DEF Settle, SwitchConnection, Continue, Goto, End
<1>2. CASE UNCHANGED <<cache, cacheGen, settled>>
  BY <1>0, <1>1, <1>2, NoReadKeepsCache DEF RuntimeInv, Shape
<1>3. ASSUME cacheGen' \in Nat, cacheGen' > cacheGen, NEW T \in SUBSET Index,
             cache' = [i \in Index |-> IF i \in T THEN None ELSE cache[i]],
             settled' = [i \in Index |-> IF i \in T THEN service[i] ELSE settled[i]]
      PROVE  CacheInv'
  <2>1. settled' \in [Index -> Nat] /\ \A i \in Index : settled'[i] <= service'[i]
    BY <1>0, <1>3 DEF CacheInv
  <2>2. cache' \in [Index -> Nat \cup {None}] /\ CacheShowsSettledWrites'
    BY <1>3 DEF CacheInv, CacheShowsSettledWrites
  <2>3. ASSUME NEW d \in Call, step'[d] \in {"readWait", "reading", "readBack"}
        PROVE  local'[d].gen < cacheGen' /\ local'[d].gen \in Nat
    BY <1>0, <1>1, <1>3, <2>3 DEF CacheInv, Local
  <2>4. QED
    BY <1>3, <2>1, <2>2, <2>3 DEF CacheInv
<1>4. CASE Settle(c) /\ local[c].answer # "rejected"
  <2>1. /\ cache' = [cache EXCEPT ![At(c)] = None] /\ cacheGen' = cacheGen + 1
        /\ settled' = [settled EXCEPT ![At(c)] = service[At(c)]]
    BY <1>4 DEF Settle, Invalidate
  <2>2. /\ cache' = [i \in Index |-> IF i \in {At(c)} THEN None ELSE cache[i]]
        /\ settled' = [i \in Index |-> IF i \in {At(c)} THEN service[i] ELSE settled[i]]
    BY <2>1 DEF CacheInv
  <2>3. {At(c)} \in SUBSET Index /\ cacheGen' \in Nat /\ cacheGen' > cacheGen
    BY <1>0, <2>1
  <2>4. QED
    BY <1>3, <2>2, <2>3
<1>5. CASE SwitchConnection(c) /\ SwitchTo(TargetOf[c])
  <2>1. TargetOf[c] \in Index /\ active.index \in Index
    BY <1>5, RuntimeAssumption DEF SwitchConnection, RuntimeInv, Shape, Snapshot
  <2>2. /\ cache' = [i \in Index |-> IF i \in {active.index, TargetOf[c]} THEN None ELSE cache[i]]
        /\ settled' = [i \in Index |-> IF i \in {active.index, TargetOf[c]} THEN service[i]
                                        ELSE settled[i]]
    BY <1>5 DEF SwitchTo
  <2>3. /\ {active.index, TargetOf[c]} \in SUBSET Index
        /\ cacheGen' \in Nat /\ cacheGen' > cacheGen
    BY <1>0, <1>5, <2>1 DEF SwitchTo
  <2>4. QED
    BY <1>3, <2>2, <2>3
<1>6. QED
  BY <1>2, <1>4, <1>5 DEF Settle, SwitchConnection, data

LEMMA NextCache == RuntimeInv /\ CacheInv /\ [Next]_vars => CacheInv'
<1> SUFFICES ASSUME RuntimeInv, CacheInv, [Next]_vars PROVE CacheInv'
  OBVIOUS
<1> USE DEF RuntimeInv, Shape
<1>1. ASSUME NEW c \in Call,
             \/ Arrive(c) \/ Label(c) \/ IssuePlan(c) \/ Consume(c) \/ StartWrite(c)
             \/ SendRequest(c, "writeWait", "writing") \/ Report(c) \/ ServeWrite(c)
      PROVE  CacheInv'
  <2>1. UNCHANGED <<cache, cacheGen, settled>>
    BY <1>1 DEF Arrive, Label, IssuePlan, Consume, StartWrite, SendRequest, Report, ServeWrite,
                data, history
  <2>2. /\ step'[c] \notin {"readWait", "reading", "readBack"}
        /\ \A d \in Call \ {c} : step'[d] = step[d] /\ local'[d] = local[d]
    BY <1>1 DEF Arrive, Label, IssuePlan, Consume, StartWrite, SendRequest, Report, ServeWrite,
                Capture, Continue, Goto, End, Answer, FirstStep
  <2>3. service' \in [Index -> Nat] /\ \A i \in Index : service'[i] >= service[i]
    <3>1. service' = service \/ \E i \in Index : CarryOut(i)
      <4>1. CASE ServeWrite(c)
        <5>1. Running(c)
          BY <4>1 DEF ServeWrite, Running
        <5>2. QED
          BY <4>1, <5>1, RunningAt DEF ServeWrite
      <4>2. QED
        BY <1>1, <4>1 DEF Arrive, Label, IssuePlan, Consume, StartWrite, SendRequest, Report, remote
    <3>2. QED
      BY <3>1 DEF CarryOut
  <2>4. QED
    BY <2>1, <2>2, <2>3, NoReadKeepsCache
<1>2. ASSUME NEW i \in Index, Evict(i) \/ Land(i) PROVE CacheInv'
  <2>1. UNCHANGED <<step, local, cacheGen, settled>>
    BY <1>2 DEF Evict, Land, data, history
  <2>2. service' \in [Index -> Nat] /\ \A j \in Index : service'[j] >= service[j]
    BY <1>2 DEF Evict, Land, CarryOut, remote
  <2>3. cache' \in [Index -> Nat \cup {None}] /\ \A j \in Index : cache'[j] \in {cache[j], None}
    BY <1>2 DEF Evict, Land, data, CacheInv
  <2>4. \A j \in Index : settled'[j] <= service'[j]
    <3>1. \A j \in Index : settled[j] \in Nat /\ service[j] \in Nat /\ service'[j] \in Nat
      BY <2>2 DEF CacheInv
    <3>2. QED
      BY <2>1, <2>2, <3>1 DEF CacheInv
  <2>5. QED
    BY <2>1, <2>3, <2>4 DEF CacheInv, CacheShowsSettledWrites, At
<1>3. CASE StoreStep \/ UNCHANGED vars
  <2>1. UNCHANGED <<step, local, cache, cacheGen, settled, service>>
    BY <1>3 DEF StoreStep, vars, data, remote, history
  <2>2. QED
    BY <2>1 DEF CacheInv, CacheShowsSettledWrites, At
<1>4. QED
  BY <1>1, <1>2, <1>3, ReadKeepsCache, InvalidationKeepsCache DEF Next, CallStep

(* The cache is never older than the last write of the process that settled, nor than
   the last switch, however reads, writes and invalidations overlap. *)
THEOREM CacheIsCurrent == Spec => []CacheShowsSettledWrites
<1>1. CacheInv => CacheShowsSettledWrites
  BY DEF CacheInv
<1>2. QED
  BY <1>1, InitCache, NextCache, RuntimeInvariant, PTL DEF Spec
-----------------------------------------------------------------------------
(* The plans.  The store only ever hands out a subsequence of what it had, so a handle
   that is consumed never comes back. *)
Plan == [handle : DryRun, domain : {DomainOf[d] : d \in DryRun},
         scope : [index : Index, gen : Nat, named : BOOLEAN]]

OneHandleEach(s) == \A i, j \in 1..Len(s) : s[i].handle = s[j].handle => i = j

Shrinks(s, t) ==
    /\ t \in Seq(Plan) /\ OneHandleEach(t)
    /\ \A i \in 1..Len(t) : \E j \in 1..Len(s) : t[i] = s[j]

LEMMA SuffixShrinks ==
  ASSUME NEW s \in Seq(Plan), OneHandleEach(s), NEW n \in 1..Len(s)
  PROVE  /\ Shrinks(s, SubSeq(s, n + 1, Len(s)))
         /\ s[n].handle \notin Handles(SubSeq(s, n + 1, Len(s)))
<1> DEFINE t == SubSeq(s, n + 1, Len(s))
<1>1. Len(s) \in Nat /\ \A i \in (n + 1)..Len(s) : s[i] \in Plan
  OBVIOUS
<1>2. /\ t \in Seq(Plan) /\ Len(t) = Len(s) - n
      /\ \A i \in 1..Len(t) : t[i] = s[n + i]
  BY <1>1, SubSeqProperties
<1>3. \A i \in 1..Len(t) : n + i \in 1..Len(s) /\ n + i # n
  BY <1>1, <1>2
<1>4. DOMAIN t = 1..Len(t)
  BY <1>2
<1> HIDE DEF t
<1>5. OneHandleEach(t)
  <2> SUFFICES ASSUME NEW i \in 1..Len(t), NEW k \in 1..Len(t), t[i].handle = t[k].handle
               PROVE  i = k
    BY DEF OneHandleEach
  <2>1. t[i] = s[n + i] /\ t[k] = s[n + k]
    BY <1>2
  <2>2. n + i \in 1..Len(s) /\ n + k \in 1..Len(s)
    BY <1>3
  <2>3. n + i = n + k
    BY <2>1, <2>2 DEF OneHandleEach
  <2>4. Len(t) \in Nat /\ n \in Nat
    BY <1>1, <1>2
  <2>5. QED
    BY <2>3, <2>4
<1>6. \A i \in 1..Len(t) : t[i].handle # s[n].handle
  BY <1>2, <1>3 DEF OneHandleEach
<1>7. Shrinks(s, t) /\ s[n].handle \notin Handles(t)
  BY <1>2, <1>3, <1>4, <1>5, <1>6 DEF Shrinks, Handles
<1>8. QED
  BY <1>7 DEF t

(* What is left of a list of handles when its n-th entry is deleted. *)
Deleted(s, n, t) ==
    /\ Len(t) = Len(s) - 1 /\ OneHandleEach(t)
    /\ \A i \in 1..Len(t) : \E j \in 1..Len(s) : t[i] = s[j] /\ t[i].handle # s[n].handle
    /\ \A j \in (1..Len(s)) \ {n} : \E i \in 1..Len(t) : t[i] = s[j]

LEMMA RemovalDeletes ==
  ASSUME NEW S, NEW s \in Seq(S), OneHandleEach(s), NEW n \in 1..Len(s)
  PROVE  RemoveAt(s, n) \in Seq(S) /\ Deleted(s, n, RemoveAt(s, n))
<1> DEFINE left == SubSeq(s, 1, n - 1)
           right == SubSeq(s, n + 1, Len(s))
           t == left \o right
           at(i) == IF i < n THEN i ELSE i + 1
<1>1. /\ Len(s) \in Nat /\ n \in Nat /\ n - 1 \in Int
      /\ \A i \in 1..(n - 1) : s[i] \in S
      /\ \A i \in (n + 1)..Len(s) : s[i] \in S
  OBVIOUS
<1>2. /\ left \in Seq(S) /\ Len(left) = n - 1
      /\ \A i \in 1..(n - 1) : left[i] = s[i]
  BY <1>1, SubSeqProperties
<1>3. /\ right \in Seq(S) /\ Len(right) = Len(s) - n
      /\ \A i \in 1..(Len(s) - n) : right[i] = s[n + i]
  BY <1>1, SubSeqProperties
<1> HIDE DEF left, right
<1>4. /\ t \in Seq(S) /\ Len(t) = Len(s) - 1
      /\ \A i \in 1..Len(t) : t[i] = IF i <= n - 1 THEN left[i] ELSE right[i - (n - 1)]
  <2>1. /\ t \in Seq(S) /\ Len(t) = Len(left) + Len(right)
        /\ \A i \in 1..(Len(left) + Len(right)) :
              t[i] = IF i <= Len(left) THEN left[i] ELSE right[i - Len(left)]
    BY <1>2, <1>3, ConcatProperties
  <2>2. Len(left) + Len(right) = Len(s) - 1
    BY <1>1, <1>2, <1>3
  <2>3. QED
    BY <1>2, <2>1, <2>2
<1> HIDE DEF t
<1>5. \A i \in 1..Len(t) : at(i) \in 1..Len(s) /\ at(i) # n /\ t[i] = s[at(i)]
  BY <1>1, <1>2, <1>3, <1>4
<1>6. \A i, j \in 1..Len(t) : at(i) = at(j) => i = j
  BY <1>4
<1>7. \A j \in (1..Len(s)) \ {n} : \E i \in 1..Len(t) : at(i) = j
  <2>1. ASSUME NEW j \in (1..Len(s)) \ {n}
        PROVE  \E i \in 1..Len(t) : at(i) = j
    <3>1. CASE j < n
      <4>1. j \in 1..Len(t) /\ at(j) = j
        BY <1>1, <1>4, <3>1
      <4>2. QED
        BY <4>1
    <3>2. CASE j > n
      <4>1. j - 1 \in 1..Len(t) /\ at(j - 1) = j
        BY <1>1, <1>4, <3>2
      <4>2. QED
        BY <4>1
    <3>3. QED
      BY <1>1, <3>1, <3>2
  <2>2. QED
    BY <2>1
<1> HIDE DEF at
<1>8. OneHandleEach(t)
  <2> SUFFICES ASSUME NEW i \in 1..Len(t), NEW k \in 1..Len(t), t[i].handle = t[k].handle
               PROVE  i = k
    BY DEF OneHandleEach
  <2>1. /\ at(i) \in 1..Len(s) /\ t[i] = s[at(i)]
        /\ at(k) \in 1..Len(s) /\ t[k] = s[at(k)]
    BY <1>5
  <2>2. at(i) = at(k)
    BY <2>1 DEF OneHandleEach
  <2>3. QED
    BY <1>6, <2>2
<1>9. \A i \in 1..Len(t) : \E j \in 1..Len(s) : t[i] = s[j] /\ t[i].handle # s[n].handle
  BY <1>5 DEF OneHandleEach
<1>10. \A j \in (1..Len(s)) \ {n} : \E i \in 1..Len(t) : t[i] = s[j]
  BY <1>5, <1>7
<1>11. t \in Seq(S) /\ Deleted(s, n, t)
  BY <1>4, <1>8, <1>9, <1>10 DEF Deleted
<1>12. QED
  BY <1>11 DEF RemoveAt, t, left, right

LEMMA RemovalShrinks ==
  ASSUME NEW s \in Seq(Plan), OneHandleEach(s), NEW n \in 1..Len(s)
  PROVE  Shrinks(s, RemoveAt(s, n)) /\ s[n].handle \notin Handles(RemoveAt(s, n))
<1>1. RemoveAt(s, n) \in Seq(Plan) /\ Deleted(s, n, RemoveAt(s, n))
  BY RemovalDeletes
<1>2. DOMAIN RemoveAt(s, n) = 1..Len(RemoveAt(s, n))
  BY <1>1
<1>3. QED
  BY <1>1, <1>2 DEF Deleted, Shrinks, Handles

LEMMA HeadShrinks ==
  ASSUME NEW s \in Seq(Plan), OneHandleEach(s), s # << >>
  PROVE  Shrinks(s, Tail(s))
<1>1. 1 \in 1..Len(s) /\ Tail(s) = SubSeq(s, 1 + 1, Len(s))
  BY TailIsSubSeq, EmptySeq, 1 + 1 = 2
<1>2. QED
  BY <1>1, SuffixShrinks

LEMMA PositionIsIndex ==
  ASSUME NEW s \in Seq(Plan), NEW h \in Handles(s)
  PROVE  Position(s, h) \in 1..Len(s) /\ s[Position(s, h)].handle = h
  BY DEF Handles, Position

(* A plan in the store is of a dry run that is over, with the connection it was
   reviewed on; a handle that an execute spent is in the store no more. *)
Spent(c) ==
    /\ planOf[c] \in DryRun /\ step[planOf[c]] = "over"
    /\ planOf[c] \notin Handles(plans)

Writing == {"write", "writeWait", "writing"}

HandleType ==
    /\ planOf \in [Call -> DryRun \cup {None}]
    /\ reviewed \in [DryRun -> Snapshot \cup {None}]
    /\ outcome \in [Call -> Outcomes \cup {"none"}]
    /\ \A c \in Call : /\ step[c] = "issue" => c \in DryRun
                       /\ step[c] # "over" => outcome[c] = "none"
                       /\ step[c] \in {"writeBack", "report"} => local[c].answer # "none"

PlansInv ==
    /\ plans \in Seq(Plan) /\ OneHandleEach(plans)
    /\ \A i \in 1..Len(plans) :
          /\ step[plans[i].handle] = "over"
          /\ reviewed[plans[i].handle]
                = [index |-> plans[i].scope.index, gen |-> plans[i].scope.gen]

SpentInv ==
    /\ \A c \in Execute : Attempted(c) => Spent(c)
    /\ \A c \in Execute : step[c] \in Writing => reviewed[planOf[c]] = local[c].snap
    /\ \A c, d \in Execute : c # d /\ planOf[c] = planOf[d] => ~(Attempted(c) /\ Attempted(d))

HandleInv == HandleType /\ PlansInv /\ SpentInv

LEMMA PlanHandles ==
  ASSUME NEW s \in Seq(Plan)
  PROVE  /\ \A i \in 1..Len(s) : s[i] \in Plan /\ s[i].handle \in DryRun
         /\ \A h : h \in Handles(s) <=> \E i \in 1..Len(s) : s[i].handle = h
<1>1. DOMAIN s = 1..Len(s) /\ \A i \in 1..Len(s) : s[i] \in Plan
  OBVIOUS
<1>2. QED
  BY <1>1 DEF Plan, Handles

LEMMA InitHandle == Init => HandleInv
<1> SUFFICES ASSUME Init PROVE HandleInv
  OBVIOUS
<1>1. plans \in Seq(Plan) /\ Len(plans) = 0 /\ OneHandleEach(plans)
  BY DEF Init, StoreInit, OneHandleEach
<1>2. \A c \in Execute : ~Attempted(c) /\ step[c] \notin Writing
  BY RuntimeAssumption DEF Init, Attempted, Writing
<1>3. QED
  BY <1>1, <1>2 DEF Init, HandleInv, HandleType, PlansInv, SpentInv

(* The plans shrink, or stay, while one call moves that does not present a handle. *)
LEMMA MoveKeepsHandles ==
  ASSUME RuntimeInv, HandleInv, NEW c \in Call,
         Shrinks(plans, plans') \/ plans' = plans,
         UNCHANGED <<planOf, reviewed>>,
         outcome' \in [Call -> Outcomes \cup {"none"}],
         \A d \in Call \ {c} : step'[d] = step[d] /\ local'[d] = local[d] /\ outcome'[d] = outcome[d],
         step[c] = "over" => step'[c] = "over",
         step'[c] = "issue" => c \in DryRun,
         step'[c] # "over" => outcome'[c] = "none",
         step'[c] \in {"writeBack", "report"} => local'[c].answer # "none",
         step'[c] \in Writing => step[c] \in Writing /\ local'[c].snap = local[c].snap,
         c \in Execute /\ Attempted(c)' => Attempted(c)
  PROVE  HandleInv'
<1>1. /\ plans' \in Seq(Plan) /\ OneHandleEach(plans)'
      /\ \A i \in 1..Len(plans') : \E j \in 1..Len(plans) : plans'[i] = plans[j]
  BY DEF HandleInv, PlansInv, Shrinks
<1>2. Handles(plans)' \subseteq Handles(plans)
  BY <1>1, PlanHandles DEF HandleInv, PlansInv
<1>3. \A h \in DryRun : step[h] = "over" => step'[h] = "over"
  BY RuntimeAssumption
<1>4. \A d \in Execute : Attempted(d)' => Attempted(d)
  BY RuntimeAssumption DEF Attempted
<1>5. \A d \in Execute : Attempted(d)' => Spent(d)'
  BY <1>2, <1>3, <1>4 DEF HandleInv, SpentInv, Spent
<1>6. \A i \in 1..Len(plans') :
         /\ step'[plans'[i].handle] = "over"
         /\ reviewed'[plans'[i].handle]
               = [index |-> plans'[i].scope.index, gen |-> plans'[i].scope.gen]
  BY <1>1, <1>3, PlanHandles DEF HandleInv, PlansInv
<1>7. \A d \in Execute : step'[d] \in Writing => reviewed'[planOf'[d]] = local'[d].snap
  BY RuntimeAssumption DEF HandleInv, SpentInv
<1>8. \A d \in Call : step'[d] = "issue" => d \in DryRun
  BY DEF HandleInv, HandleType
<1>9. \A d \in Call : step'[d] # "over" => outcome'[d] = "none"
  BY DEF HandleInv, HandleType
<1>10. \A d \in Call : step'[d] \in {"writeBack", "report"} => local'[d].answer # "none"
  BY DEF HandleInv, HandleType
<1>11. QED
  BY <1>1, <1>4, <1>5, <1>6, <1>7, <1>8, <1>9, <1>10 DEF HandleInv, HandleType, PlansInv, SpentInv

(* The steps of a call that neither issue nor present a handle. *)
LEMMA CallKeepsHandles ==
  ASSUME RuntimeInv, HandleInv, NEW c \in Call,
         \/ Arrive(c) \/ Label(c) \/ StartRead(c) \/ ServeRead(c) \/ LoseRead(c) \/ ReturnRead(c)
         \/ SendRequest(c, "readWait", "reading") \/ SendRequest(c, "writeWait", "writing")
         \/ StartWrite(c) \/ ServeWrite(c) \/ Settle(c) \/ Report(c) \/ SwitchConnection(c)
  PROVE  HandleInv'
<1> USE DEF RuntimeInv, Shape
<1>1. UNCHANGED <<plans, planOf, reviewed>>
  BY DEF Arrive, Label, StartRead, ServeRead, LoseRead, ReturnRead, SendRequest, StartWrite,
         ServeWrite, Settle, Report, SwitchConnection, IssueResult, store, history
<1>2. step[c] \notin {"issue", "consume", "over"} /\ outcome[c] = "none"
  <2>1. step[c] \notin {"issue", "consume", "over"}
    BY DEF Arrive, Label, StartRead, ServeRead, LoseRead, ReturnRead, SendRequest,
           StartWrite, ServeWrite, Settle, Report, SwitchConnection
  <2>2. QED
    BY <2>1 DEF HandleInv, HandleType
<1>3. ASSUME NEW s \in Step \ {"new", "over"}, Goto(c, s),
             \A d \in Call \ {c} : local'[d] = local[d],
             s = "issue" => c \in DryRun,
             s \in Writing => step[c] \in Writing /\ local'[c].snap = local[c].snap,
             s \in {"writeBack", "report"} => /\ step[c] \in Writing \cup {"writeBack"}
                                              /\ local'[c].answer # "none"
      PROVE  HandleInv'
  <2>1. step'[c] = s /\ outcome' = outcome /\ \A d \in Call \ {c} : step'[d] = step[d]
    BY <1>3 DEF Goto
  <2>2. Attempted(c)' => Attempted(c)
    BY <1>2, <1>3, <2>1 DEF Attempted, Writing
  <2>3. QED
    BY <1>1, <1>2, <1>3, <2>1, <2>2, MoveKeepsHandles DEF HandleInv, HandleType
<1>4. ASSUME NEW kind \in Outcomes, End(c, kind),
             kind \in {"domainMismatch", "scopeMismatch", "written", "rejected", "indeterminate"}
                => step[c] = "report"
      PROVE  HandleInv'
  <2>1. /\ step'[c] = "over" /\ outcome'[c] = kind /\ outcome' \in [Call -> Outcomes \cup {"none"}]
        /\ \A d \in Call \ {c} : step'[d] = step[d] /\ local'[d] = local[d]
                                   /\ outcome'[d] = outcome[d]
    BY <1>4 DEF End, HandleInv, HandleType
  <2>2. Attempted(c)' => Attempted(c)
    BY <1>4, <2>1 DEF Attempted
  <2>3. QED
    BY <1>1, <1>2, <2>1, <2>2, MoveKeepsHandles DEF Writing
<1>5. CASE Arrive(c)
  <2>1. CASE End(c, "wrongConnection")
    BY <1>4, <2>1 DEF Outcomes
  <2>2. CASE Capture(c) /\ step' = [step EXCEPT ![c] = "label"] /\ UNCHANGED outcome
    <3>1. /\ step'[c] = "label" /\ outcome' = outcome
          /\ \A d \in Call \ {c} : step'[d] = step[d] /\ local'[d] = local[d]
      BY <2>2 DEF Capture
    <3>2. ~Attempted(c)'
      BY <1>2, <3>1 DEF Attempted
    <3>3. QED
      BY <1>1, <1>2, <3>1, <3>2, MoveKeepsHandles DEF HandleInv, HandleType, Writing
  <2>3. QED
    BY <1>5, <2>1, <2>2 DEF Arrive
<1>6. CASE Label(c)
  BY <1>3, <1>6 DEF Label, Continue, FirstStep, Step, Writing
<1>7. ASSUME AfterRead(c) PROVE HandleInv'
  <2>1. CASE c \in DryRun
    BY <1>3, <1>7, <2>1 DEF AfterRead, Step, Writing
  <2>2. CASE c \notin DryRun
    BY <1>3, <1>7, <2>2 DEF AfterRead, Step, Writing
  <2>3. QED
    BY <2>1, <2>2
<1>8. CASE StartRead(c)
  <2>1. CASE End(c, "interrupted")
    BY <1>4, <2>1 DEF Outcomes
  <2>2. CASE Goto(c, "readWait") /\ local' = [local EXCEPT ![c].gen = cacheGen]
    BY <1>3, <2>2 DEF Step, Writing
  <2>3. QED
    BY <1>7, <1>8, <2>1, <2>2 DEF StartRead
<1>9. CASE ServeRead(c)
  BY <1>3, <1>9 DEF ServeRead, Step, Writing
<1>10. CASE LoseRead(c)
  <2>1. CASE Continue(c, "readWait")
    BY <1>3, <2>1 DEF Continue, Step, Writing
  <2>2. CASE End(c, "interrupted") \/ End(c, "readFailed")
    BY <1>4, <2>2 DEF Outcomes
  <2>3. QED
    BY <1>10, <2>1, <2>2 DEF LoseRead
<1>11. CASE ReturnRead(c)
  BY <1>7, <1>11 DEF ReturnRead
<1>12. CASE SendRequest(c, "readWait", "reading") \/ SendRequest(c, "writeWait", "writing")
  <2>1. CASE End(c, "interrupted")
    BY <1>4, <2>1 DEF Outcomes
  <2>2. CASE Continue(c, "reading")
    BY <1>3, <2>2 DEF Continue, Step, Writing
  <2>3. CASE step[c] = "writeWait" /\ Continue(c, "writing")
    BY <1>3, <2>3 DEF Continue, Step, Writing
  <2>4. QED
    BY <1>12, <2>1, <2>2, <2>3 DEF SendRequest
<1>13. CASE StartWrite(c)
  <2>1. CASE End(c, "interrupted")
    BY <1>4, <2>1 DEF Outcomes
  <2>2. CASE Continue(c, "writeWait")
    BY <1>3, <1>13, <2>2 DEF StartWrite, Continue, Step, Writing
  <2>3. QED
    BY <1>13, <2>1, <2>2 DEF StartWrite
<1>14. CASE ServeWrite(c)
  <2>1. step[c] = "writing"
    BY <1>14 DEF ServeWrite
  <2>2. PICK text \in {"ok", "rejected", "lost"} : Answer(c, text)
    BY <1>14 DEF ServeWrite
  <2>3. /\ Goto(c, "writeBack") /\ local'[c].answer = text
        /\ \A d \in Call \ {c} : local'[d] = local[d]
    BY <2>2 DEF Answer, Local
  <2>4. QED
    BY <1>3, <2>1, <2>2, <2>3 DEF Step, Writing
<1>15. CASE Settle(c)
  <2>1. step[c] = "writeBack" /\ Goto(c, "report") /\ local' = local
    BY <1>15 DEF Settle, Continue
  <2>2. local[c].answer # "none"
    BY <2>1 DEF HandleInv, HandleType
  <2>3. QED
    BY <1>3, <2>1, <2>2 DEF Step, Writing
<1>16. CASE Report(c)
  <2>1. step[c] = "report" /\ local[c].answer \in {"ok", "rejected", "lost"}
    BY <1>16 DEF Report, HandleInv, HandleType, Local
  <2>2. \E kind \in {"written", "rejected", "indeterminate"} : End(c, kind)
    BY <1>16, <2>1 DEF Report
  <2>3. QED
    BY <1>4, <2>1, <2>2 DEF Outcomes
<1>17. CASE SwitchConnection(c)
  BY <1>4, <1>17 DEF SwitchConnection, Outcomes
<1>18. QED
  BY <1>5, <1>6, <1>8, <1>9, <1>10, <1>11, <1>12, <1>13, <1>14, <1>15, <1>16, <1>17

(* A dry run that ends puts its plan at the young end. *)
LEMMA IssueKeepsHandles ==
  ASSUME RuntimeInv, HandleInv, NEW c \in Call, IssuePlan(c)
  PROVE  HandleInv'
<1>1. /\ c \in DryRun /\ c \notin Execute /\ step[c] = "issue" /\ Running(c)
      /\ step'[c] = "over" /\ outcome' \in [Call -> Outcomes \cup {"none"}]
      /\ planOf' = planOf
      /\ \A d \in Call \ {c} : step'[d] = step[d] /\ local'[d] = local[d]
                                 /\ outcome'[d] = outcome[d]
  BY RuntimeAssumption
     DEF IssuePlan, End, HandleInv, HandleType, Running, Outcomes, RuntimeInv, Shape
<1>2. local[c].snap \in Snapshot
  BY <1>1, RunningAt
<1>3. /\ reviewed' \in [DryRun -> Snapshot \cup {None}] /\ reviewed'[c] = local[c].snap
      /\ \A d \in DryRun \ {c} : reviewed'[d] = reviewed[d]
  BY <1>1, <1>2 DEF IssuePlan, HandleInv, HandleType
<1> DEFINE plan == [handle |-> c, domain |-> DomainOf[c], scope |-> Scope(c)]
<1>4. /\ plan \in Plan
      /\ reviewed'[c] = [index |-> plan.scope.index, gen |-> plan.scope.gen]
  BY <1>1, <1>2, <1>3 DEF Plan, Scope, At, Snapshot
<1>5. plans' = plans \/ plans' = Append(plans, plan)
  BY DEF IssuePlan, Issue
<1>6. c \notin Handles(plans)
  <2>1. plans \in Seq(Plan) /\ \A i \in 1..Len(plans) : step[plans[i].handle] = "over"
    BY DEF HandleInv, PlansInv
  <2>2. QED
    BY <1>1, <2>1, PlanHandles
<1> HIDE DEF plan
<1>7. plan.handle = c
  BY DEF plan
<1>8. /\ plans' \in Seq(Plan) /\ OneHandleEach(plans)'
      /\ \A i \in 1..Len(plans') : plans'[i] = plan \/ \E j \in 1..Len(plans) : plans'[i] = plans[j]
  <2>1. CASE plans' = plans
    BY <2>1 DEF HandleInv, PlansInv
  <2>2. CASE plans' = Append(plans, plan)
    <3>1. /\ plans' \in Seq(Plan) /\ Len(plans') = Len(plans) + 1 /\ Len(plans) \in Nat
          /\ plans'[Len(plans) + 1] = plan
          /\ \A i \in 1..Len(plans) : plans'[i] = plans[i] /\ plans[i].handle # c
      BY <1>4, <1>6, <2>2, PlanHandles DEF HandleInv, PlansInv
    <3>2. OneHandleEach(plans)'
      BY <1>7, <3>1 DEF HandleInv, PlansInv, OneHandleEach
    <3>3. QED
      BY <3>1, <3>2
  <2>3. QED
    BY <1>5, <2>1, <2>2
<1>9. Handles(plans)' \subseteq Handles(plans) \cup {c}
  BY <1>7, <1>8, PlanHandles DEF HandleInv, PlansInv
<1>10. \A i \in 1..Len(plans') :
          /\ step'[plans'[i].handle] = "over"
          /\ reviewed'[plans'[i].handle]
                = [index |-> plans'[i].scope.index, gen |-> plans'[i].scope.gen]
  <2>1. \A j \in 1..Len(plans) : plans[j].handle \in DryRun \ {c}
    BY <1>6, PlanHandles DEF HandleInv, PlansInv
  <2>2. SUFFICES ASSUME NEW i \in 1..Len(plans')
                 PROVE  /\ step'[plans'[i].handle] = "over"
                        /\ reviewed'[plans'[i].handle]
                              = [index |-> plans'[i].scope.index, gen |-> plans'[i].scope.gen]
    OBVIOUS
  <2>3. CASE plans'[i] = plan
    BY <1>1, <1>4, <1>7, <2>3
  <2>4. ASSUME NEW j \in 1..Len(plans), plans'[i] = plans[j]
        PROVE  /\ step'[plans'[i].handle] = "over"
               /\ reviewed'[plans'[i].handle]
                     = [index |-> plans'[i].scope.index, gen |-> plans'[i].scope.gen]
    <3>1. plans[j].handle \in DryRun \ {c} /\ plans[j].handle \in Call
      BY <2>1, RuntimeAssumption
    <3>2. /\ step[plans[j].handle] = "over"
          /\ reviewed[plans[j].handle]
                = [index |-> plans[j].scope.index, gen |-> plans[j].scope.gen]
      BY DEF HandleInv, PlansInv
    <3>3. QED
      BY <1>1, <1>3, <2>4, <3>1, <3>2
  <2>5. QED
    BY <1>8, <2>3, <2>4
<1>11. \A d \in Execute : /\ d \in Call /\ (Attempted(d)' <=> Attempted(d))
                          /\ local'[d] = local[d] /\ step'[d] = step[d]
  BY <1>1, RuntimeAssumption DEF Attempted
<1>12. \A d \in Execute : Attempted(d) => Spent(d)' /\ planOf[d] \in DryRun \ {c}
  <2>1. \A d \in Execute : Attempted(d) => planOf[d] \in DryRun \ {c}
    BY <1>1 DEF HandleInv, SpentInv, Spent
  <2>2. QED
    BY <1>1, <1>9, <2>1, RuntimeAssumption DEF HandleInv, SpentInv, Spent
<1>13. \A d \in Execute : step[d] \in Writing => Attempted(d)
  BY DEF Writing, Attempted
<1>14. HandleType' /\ PlansInv'
  BY <1>1, <1>3, <1>8, <1>10 DEF HandleInv, HandleType, PlansInv
<1>15. SpentInv'
  <2>1. \A d \in Execute : d \in Call /\ planOf'[d] = planOf[d]
    BY <1>1, RuntimeAssumption
  <2>2. \A d \in Execute : step'[d] \in Writing => reviewed'[planOf'[d]] = local'[d].snap
    BY <1>3, <1>11, <1>12, <1>13, <2>1 DEF HandleInv, SpentInv
  <2>3. QED
    BY <1>11, <1>12, <2>1, <2>2 DEF HandleInv, SpentInv
<1>16. QED
  BY <1>14, <1>15 DEF HandleInv

(* An execute that presents a handle spends it when it finds the plan; the plan it
   may write for was reviewed under the snapshot it has itself. *)
LEMMA ConsumeKeepsHandles ==
  ASSUME RuntimeInv, HandleInv, NEW c \in Call, Consume(c)
  PROVE  HandleInv'
<1>1. PICK h \in DryRun, verdict \in Outcomes \cup {"taken"} :
         /\ outcome[h] = "dryRun"
         /\ planOf' = [planOf EXCEPT ![c] = h]
         /\ \/ ConsumeActive(h, DomainOf[c], Scope(c), verdict)
            \/ ConsumeLate(h, verdict)
            \/ ConsumeMissing(h, verdict)
         /\ IF verdict = "taken" THEN Continue(c, "write") ELSE End(c, verdict)
  BY DEF Consume
<1>2. /\ step[c] = "consume" /\ outcome[c] = "none" /\ Running(c) /\ ~Attempted(c)
      /\ step \in [Call -> Step] /\ reviewed' = reviewed
  BY DEF Consume, HandleInv, HandleType, Running, Attempted, RuntimeInv, Shape, history
<1>3. h \in Call /\ h # c /\ step[h] = "over"
  BY <1>1, <1>2, RuntimeAssumption DEF HandleInv, HandleType
<1>4. planOf' \in [Call -> DryRun \cup {None}]
  BY <1>1 DEF HandleInv, HandleType
<1>5. /\ outcome' \in [Call -> Outcomes \cup {"none"}]
      /\ \A d \in Call \ {c} : /\ step'[d] = step[d] /\ local'[d] = local[d]
                               /\ outcome'[d] = outcome[d] /\ planOf'[d] = planOf[d]
      /\ planOf'[c] = h
      /\ IF verdict = "taken"
           THEN step'[c] = "write" /\ local'[c] = local[c] /\ outcome'[c] = "none"
           ELSE step'[c] = "over" /\ outcome'[c] = verdict
  BY <1>1, <1>2 DEF HandleInv, HandleType, Continue, Goto, End, RuntimeInv, Shape
<1>6. \/ /\ plans' = plans \/ Shrinks(plans, plans')
         /\ verdict \in {"invalid", "expired", "consumed"}
      \/ /\ Shrinks(plans, plans') /\ h \in Handles(plans) /\ h \notin Handles(plans)'
         /\ verdict \in {"domainMismatch", "scopeMismatch", "taken"}
         /\ verdict = "taken" => reviewed[h] = local[c].snap
  <2>1. CASE ConsumeActive(h, DomainOf[c], Scope(c), verdict)
    <3> DEFINE n == Position(plans, h)
    <3>1. h \in Handles(plans) /\ plans' = RemoveAt(plans, n)
          /\ verdict = Verdict(plans[n], DomainOf[c], Scope(c))
      BY <2>1 DEF ConsumeActive, Entry
    <3>2. n \in 1..Len(plans) /\ plans[n].handle = h
      BY <3>1, PositionIsIndex DEF HandleInv, PlansInv
    <3> HIDE DEF n
    <3>3. Shrinks(plans, plans') /\ h \notin Handles(plans)'
      BY <3>1, <3>2, RemovalShrinks DEF HandleInv, PlansInv
    <3>4. verdict \in {"domainMismatch", "scopeMismatch", "taken"}
      BY <3>1 DEF Verdict
    <3>5. verdict = "taken" => plans[n].scope = Scope(c)
      BY <3>1 DEF Verdict, SameScope
    <3>6. reviewed[h] = [index |-> plans[n].scope.index, gen |-> plans[n].scope.gen]
      BY <3>2 DEF HandleInv, PlansInv
    <3>7. [index |-> Scope(c).index, gen |-> Scope(c).gen] = local[c].snap
      <4>1. local[c].snap \in Snapshot
        BY <1>2, RunningAt
      <4>2. QED
        BY <4>1 DEF Scope, At, Snapshot
    <3>8. QED
      BY <3>1, <3>3, <3>4, <3>5, <3>6, <3>7
  <2>2. CASE ConsumeLate(h, verdict)
    <3> DEFINE n == Position(plans, h)
    <3>1. h \in Handles(plans) /\ verdict = "expired" /\ plans' = SubSeq(plans, n + 1, Len(plans))
      BY <2>2 DEF ConsumeLate
    <3>2. n \in 1..Len(plans)
      BY <3>1, PositionIsIndex DEF HandleInv, PlansInv
    <3> HIDE DEF n
    <3>3. Shrinks(plans, plans')
      BY <3>1, <3>2, SuffixShrinks DEF HandleInv, PlansInv
    <3>4. QED
      BY <3>1, <3>3
  <2>3. CASE ConsumeMissing(h, verdict)
    BY <2>3 DEF ConsumeMissing, Missing
  <2>4. QED
    BY <1>1, <2>1, <2>2, <2>3
<1>7. /\ plans' \in Seq(Plan) /\ OneHandleEach(plans)'
      /\ \A i \in 1..Len(plans') : \E j \in 1..Len(plans) : plans'[i] = plans[j]
  BY <1>6 DEF HandleInv, PlansInv, Shrinks
<1>8. Handles(plans)' \subseteq Handles(plans)
  BY <1>7, PlanHandles DEF HandleInv, PlansInv
<1>9. \A d \in DryRun : d \in Call /\ (step[d] = "over" => step'[d] = "over")
  BY <1>2, <1>5, RuntimeAssumption
<1>10. \A i \in 1..Len(plans') :
          /\ step'[plans'[i].handle] = "over"
          /\ reviewed'[plans'[i].handle]
                = [index |-> plans'[i].scope.index, gen |-> plans'[i].scope.gen]
  <2>1. /\ plans \in Seq(Plan)
        /\ \A j \in 1..Len(plans) :
              /\ step[plans[j].handle] = "over"
              /\ reviewed[plans[j].handle]
                    = [index |-> plans[j].scope.index, gen |-> plans[j].scope.gen]
    BY DEF HandleInv, PlansInv
  <2>2. \A j \in 1..Len(plans) : plans[j].handle \in DryRun
    BY <2>1, PlanHandles
  <2>3. QED
    BY <1>2, <1>7, <1>9, <2>1, <2>2
<1>11. \A d \in Execute : /\ d \in Call
                          /\ d # c => /\ Attempted(d)' <=> Attempted(d)
                                      /\ Spent(d) => Spent(d)'
  BY <1>5, <1>8, <1>9, RuntimeAssumption DEF Attempted, Spent
<1>12. Attempted(c)' => /\ verdict \in {"domainMismatch", "scopeMismatch", "taken"}
                        /\ h \in Handles(plans) /\ h \notin Handles(plans)'
  BY <1>5, <1>6 DEF Attempted
<1>13. Attempted(c)' => Spent(c)'
  BY <1>3, <1>5, <1>9, <1>12 DEF Spent
<1>14. \A d \in Execute : d # c /\ planOf'[d] = planOf'[c] => ~(Attempted(d)' /\ Attempted(c)')
  BY <1>5, <1>11, <1>12 DEF HandleInv, SpentInv, Spent
<1>15. \A d \in Execute : step'[d] \in Writing => reviewed'[planOf'[d]] = local'[d].snap
  BY <1>2, <1>5, <1>6, <1>11 DEF HandleInv, SpentInv, Writing
<1>16. \A d \in Call : /\ step'[d] = "issue" => d \in DryRun
                       /\ step'[d] # "over" => outcome'[d] = "none"
                       /\ step'[d] \in {"writeBack", "report"} => local'[d].answer # "none"
  BY <1>5 DEF HandleInv, HandleType
<1>17. \A d, e \in Execute : d # e /\ planOf'[d] = planOf'[e] => ~(Attempted(d)' /\ Attempted(e)')
  <2>1. SUFFICES ASSUME NEW d \in Execute, NEW e \in Execute, d # e, planOf'[d] = planOf'[e]
                 PROVE  ~(Attempted(d)' /\ Attempted(e)')
    OBVIOUS
  <2>2. CASE d = c \/ e = c
    BY <1>14, <2>1, <2>2
  <2>3. CASE d # c /\ e # c
    BY <1>5, <1>11, <2>1, <2>3 DEF HandleInv, SpentInv
  <2>4. QED
    BY <2>2, <2>3
<1>18. \A d \in Execute : Attempted(d)' => Spent(d)'
  BY <1>11, <1>13 DEF HandleInv, SpentInv
<1>19. reviewed' \in [DryRun -> Snapshot \cup {None}]
  BY <1>2 DEF HandleInv, HandleType
<1>20. QED
  BY <1>4, <1>5, <1>7, <1>10, <1>15, <1>16, <1>17, <1>18, <1>19 DEF HandleInv, HandleType, PlansInv, SpentInv

LEMMA NextHandle == RuntimeInv /\ HandleInv /\ [Next]_vars => HandleInv'
<1> SUFFICES ASSUME RuntimeInv, HandleInv, [Next]_vars PROVE HandleInv'
  OBVIOUS
<1>1. CASE /\ UNCHANGED <<step, local, planOf, outcome, reviewed>>
           /\ plans' = plans \/ Shrinks(plans, plans')
  <2>1. /\ plans' \in Seq(Plan) /\ OneHandleEach(plans)'
        /\ \A i \in 1..Len(plans') : \E j \in 1..Len(plans) : plans'[i] = plans[j]
    BY <1>1 DEF HandleInv, PlansInv, Shrinks
  <2>2. Handles(plans)' \subseteq Handles(plans)
    BY <2>1, PlanHandles DEF HandleInv, PlansInv
  <2>3. \A d \in Execute : /\ Attempted(d)' <=> Attempted(d)
                           /\ Spent(d) => Spent(d)'
    BY <1>1, <2>2 DEF Attempted, Spent
  <2>4. \A i \in 1..Len(plans') :
           /\ step'[plans'[i].handle] = "over"
           /\ reviewed'[plans'[i].handle]
                 = [index |-> plans'[i].scope.index, gen |-> plans'[i].scope.gen]
    BY <1>1, <2>1 DEF HandleInv, PlansInv
  <2>5. QED
    BY <1>1, <2>1, <2>3, <2>4 DEF HandleInv, HandleType, PlansInv, SpentInv
<1>2. ASSUME NEW i \in Index, Evict(i) \/ Land(i) PROVE HandleInv'
  BY <1>1, <1>2 DEF Evict, Land, store, history
<1>3. CASE StoreStep
  <2>1. CASE Purge
    <3>1. plans # << >> /\ plans' = Tail(plans)
      BY <2>1 DEF Purge
    <3>2. Shrinks(plans, plans')
      BY <3>1, HeadShrinks DEF HandleInv, PlansInv
    <3>3. QED
      BY <1>1, <1>3, <3>2 DEF StoreStep, history
  <2>2. CASE ExpireResult
    BY <1>1, <1>3, <2>2 DEF StoreStep, ExpireResult, history
  <2>3. QED
    BY <1>3, <2>1, <2>2 DEF StoreStep
<1>4. CASE UNCHANGED vars
  BY <1>1, <1>4 DEF vars, store, history
<1>5. QED
  BY <1>2, <1>3, <1>4, CallKeepsHandles, IssueKeepsHandles, ConsumeKeepsHandles DEF Next, CallStep

(* A plan is executed at most once, and only where it was reviewed: on its connection
   and in the same generation of it. *)
THEOREM PlansRunOnce == Spec => []PlanRunsOnceWhereReviewed
<1>1. RuntimeInv /\ HandleInv => PlanRunsOnceWhereReviewed
  <2>1. ASSUME RuntimeInv, HandleInv, NEW c \in Execute, step[c] \in Writing
        PROVE  reviewed[planOf[c]] = active
    <3>1. c \in Call \ ReadOnly /\ Running(c)
      BY <2>1, RuntimeAssumption DEF Writing, Running
    <3>2. QED
      BY <2>1, <3>1 DEF RuntimeInv, Guarded, MutationKeepsItsConnection, HandleInv, SpentInv
  <2>2. QED
    BY <2>1 DEF HandleInv, SpentInv, PlanRunsOnceWhereReviewed, Writing
<1>2. QED
  BY <1>1, InitHandle, NextHandle, InitRuntime, NextRuntime, PTL DEF Spec

-----------------------------------------------------------------------------
(* The tombstones.  What they are for the live operation results rs: a handle has at
   most one, pinned once for each of its results, and every result has the proof of its
   plan; beyond the limit there is one more than the pinned ones at most. *)
Tomb == [handle : DryRun, reason : {"expired", "consumed"},
         proof : [index : Index, gen : Nat, named : BOOLEAN] \cup {None}, pins : Nat]

ResultsOf(rs, h) == {k \in 1..Len(rs) : rs[k] = h}

Suits(ts, rs) ==
    /\ ts \in Seq(Tomb) /\ OneHandleEach(ts)
    /\ \A i \in 1..Len(ts) : ts[i].pins = Cardinality(ResultsOf(rs, ts[i].handle))
    /\ \A k \in 1..Len(rs) : \E i \in 1..Len(ts) : ts[i].handle = rs[k] /\ ts[i].proof # None

TombsFor(ts, rs) ==
    /\ Suits(ts, rs)
    /\ Len(ts) > MaxTombs =>
          \A i, j \in 1..Len(ts) : ts[i].pins = 0 /\ ts[j].pins = 0 => i = j

StoreInv ==
    /\ results \in Seq(DryRun)
    /\ TombsFor(tombs, results)
    /\ Len(plans) <= MaxActive
    /\ Handles(plans) \cap Handles(tombs) = {}
    /\ \A i \in 1..Len(tombs) : step[tombs[i].handle] = "over"

(* Induction up to a bound, over the set of the numbers that have been reached. *)
LEMMA LeastNumber ==
  ASSUME NEW S, S \subseteq Nat, S # {}
  PROVE  \E k \in S : \A l \in S : k <= l
<1> DEFINE R == {ss \in Nat \X Nat : ss[1] < ss[2]}
<1>1. IsWellFoundedOn(R, Nat)
  BY NatLessThanWellFounded DEF OpToRel
<1>2. R = {ss \in Nat \X Nat : ss[1] < ss[2]}
  OBVIOUS
<1> HIDE DEF R
<1>3. PICK k \in S : \A l \in S : ~(<<l, k>> \in R)
  BY <1>1, WFMin
<1>4. ASSUME NEW l \in S
      PROVE  k <= l
  <2>1. <<l, k>> \in Nat \X Nat /\ l \in Nat /\ k \in Nat
    OBVIOUS
  <2>2. ~(l < k)
    BY <1>2, <1>3, <2>1
  <2>3. QED
    BY <2>1, <2>2
<1>5. QED
  BY <1>4

LEMMA AllReached ==
  ASSUME NEW N \in Nat, NEW S, 0 \in S, \A n \in 1..N : n - 1 \in S => n \in S
  PROVE  \A n \in 0..N : n \in S
<1> DEFINE missed == (0..N) \ S
<1>1. SUFFICES ASSUME missed # {} PROVE FALSE
  OBVIOUS
<1>2. PICK k \in missed : \A l \in missed : k <= l
  <2>1. missed \subseteq Nat
    OBVIOUS
  <2> HIDE DEF missed
  <2>2. QED
    BY <1>1, <2>1, LeastNumber
<1>3. k \in 1..N /\ k \notin S
  BY <1>2
<1>4. k - 1 \in 0..N /\ ~(k <= k - 1)
  BY <1>3
<1>5. k - 1 \in S
  BY <1>2, <1>4
<1>6. QED
  BY <1>3, <1>5

LEMMA OldestIsMember ==
  ASSUME NEW S, S \subseteq Nat, S # {}
  PROVE  Oldest(S) \in S
  BY LeastNumber DEF Oldest

-----------------------------------------------------------------------------
(* trimTombstones only deletes what it may delete, and ends when nothing is left to
   delete or the limit is kept. *)
Kept(ts, kept, t) ==
    /\ t \in Seq(Tomb) /\ OneHandleEach(t)
    /\ \A i \in 1..Len(t) : \E j \in 1..Len(ts) : t[i] = ts[j]
    /\ \A j \in 1..Len(ts) : ts[j].handle = kept \/ ts[j].pins # 0 =>
          \E i \in 1..Len(t) : t[i] = ts[j]

LEMMA EvictionKeeps ==
  ASSUME NEW ts, NEW kept, NEW t, Kept(ts, kept, t), Evictable(t, kept) # {}
  PROVE  /\ Kept(ts, kept, RemoveAt(t, Oldest(Evictable(t, kept))))
         /\ Len(RemoveAt(t, Oldest(Evictable(t, kept)))) = Len(t) - 1
<1> DEFINE n == Oldest(Evictable(t, kept))
           u == RemoveAt(t, n)
<1>1. Len(t) \in Nat /\ DOMAIN t = 1..Len(t) /\ t \in Seq(Tomb) /\ OneHandleEach(t)
  BY DEF Kept
<1>2. n \in 1..Len(t) /\ t[n].handle # kept /\ t[n].pins = 0
  <2>1. Evictable(t, kept) \subseteq Nat
    BY <1>1 DEF Evictable
  <2>2. n \in Evictable(t, kept)
    BY <2>1, OldestIsMember
  <2> HIDE DEF n
  <2>3. QED
    BY <1>1, <2>2 DEF Evictable
<1> HIDE DEF n
<1>3. u \in Seq(Tomb) /\ Deleted(t, n, u)
  BY <1>1, <1>2, RemovalDeletes
<1> HIDE DEF u
<1>4. \A i \in 1..Len(u) : \E j \in 1..Len(ts) : u[i] = ts[j]
  BY <1>3 DEF Deleted, Kept
<1>5. ASSUME NEW j \in 1..Len(ts), ts[j].handle = kept \/ ts[j].pins # 0
      PROVE  \E i \in 1..Len(u) : u[i] = ts[j]
  <2>1. PICK m \in 1..Len(t) : t[m] = ts[j]
    BY <1>5 DEF Kept
  <2>2. m # n
    BY <1>2, <1>5, <2>1
  <2>3. QED
    BY <1>3, <2>1, <2>2 DEF Deleted
<1>6. Kept(ts, kept, u) /\ Len(u) = Len(t) - 1
  BY <1>3, <1>4, <1>5 DEF Deleted, Kept
<1>7. QED
  BY <1>6 DEF n, u

LEMMA TrimIsRecursive ==
  ASSUME NEW ts \in Seq(Tomb), NEW kept
  PROVE  \E rest : /\ rest[0] = ts
                   /\ \A n \in 1..Len(ts) : rest[n] = TrimOnce(rest[n - 1], kept)
                   /\ Trim(ts, kept) = rest[Len(ts)]
<1> DEFINE Runs(f, m) == f = [n \in 0..m |-> IF n = 0 THEN ts ELSE TrimOnce(f[n - 1], kept)]
           S == {m \in 0..Len(ts) : \E f : Runs(f, m)}
<1>0. Len(ts) \in Nat
  OBVIOUS
<1>1. 0 \in S
  <2>1. \E f : Runs(f, 0)
    <3>1. Runs([n \in 0..0 |-> ts], 0)
      OBVIOUS
    <3> HIDE DEF Runs
    <3>2. QED
      BY <3>1
  <2> HIDE DEF Runs
  <2>2. QED
    BY <1>0, <2>1
<1>2. ASSUME NEW m \in 1..Len(ts), m - 1 \in S
      PROVE  m \in S
  <2>1. PICK f : Runs(f, m - 1)
    BY <1>2
  <2> DEFINE g == [n \in 0..m |-> IF n = 0 THEN ts ELSE TrimOnce(f[n - 1], kept)]
  <2>2. \A n \in 0..(m - 1) : g[n] = f[n]
    BY <1>0, <2>1
  <2>3. Runs(g, m)
    <3>1. \A n \in 0..m : n # 0 => g[n - 1] = f[n - 1]
      <4>1. \A n \in 0..m : n # 0 => n - 1 \in 0..(m - 1)
        BY <1>0
      <4> HIDE DEF g
      <4>2. QED
        BY <2>2, <4>1
    <3>2. g = [n \in 0..m |-> IF n = 0 THEN ts ELSE TrimOnce(f[n - 1], kept)]
      OBVIOUS
    <3> HIDE DEF g
    <3>3. \A n \in 0..m : (IF n = 0 THEN ts ELSE TrimOnce(f[n - 1], kept))
                          = (IF n = 0 THEN ts ELSE TrimOnce(g[n - 1], kept))
      BY <3>1
    <3>4. QED
      BY <3>2, <3>3
  <2> HIDE DEF Runs
  <2>4. QED
    BY <1>0, <2>3
<1> HIDE DEF S
<1>3. Len(ts) \in S
  <2>1. \A n \in 0..Len(ts) : n \in S
    BY <1>0, <1>1, <1>2, AllReached
  <2>2. QED
    BY <1>0, <2>1
<1>4. \E f : f = [n \in 0..Len(ts) |-> IF n = 0 THEN ts ELSE TrimOnce(f[n - 1], kept)]
  BY <1>3 DEF S
<1> DEFINE rest[n \in 0..Len(ts)] == IF n = 0 THEN ts ELSE TrimOnce(rest[n - 1], kept)
<1>5. Trim(ts, kept) = rest[Len(ts)]
  BY DEF Trim
<1>6. rest = [n \in 0..Len(ts) |-> IF n = 0 THEN ts ELSE TrimOnce(rest[n - 1], kept)]
  BY <1>4
<1> HIDE DEF rest
<1>7. rest[0] = ts /\ \A n \in 1..Len(ts) : rest[n] = TrimOnce(rest[n - 1], kept)
  BY <1>0, <1>6
<1>8. QED
  BY <1>5, <1>7

LEMMA TrimKeeps ==
  ASSUME NEW ts \in Seq(Tomb), OneHandleEach(ts), NEW kept
  PROVE  /\ Kept(ts, kept, Trim(ts, kept))
         /\ Len(Trim(ts, kept)) <= MaxTombs \/ Evictable(Trim(ts, kept), kept) = {}
<1>1. PICK rest : /\ rest[0] = ts
                  /\ \A n \in 1..Len(ts) : rest[n] = TrimOnce(rest[n - 1], kept)
                  /\ Trim(ts, kept) = rest[Len(ts)]
  BY TrimIsRecursive
<1> DEFINE Ends(n, t) == \/ Len(t) <= MaxTombs
                         \/ Evictable(t, kept) = {}
                         \/ Len(t) <= Len(ts) - n
           S == {n \in 0..Len(ts) : Kept(ts, kept, rest[n]) /\ Ends(n, rest[n])}
<1>2. Len(ts) \in Nat /\ MaxTombs \in Nat /\ MaxTombs > 0
  BY StoreAssumption
<1>3. 0 \in S
  BY <1>1, <1>2 DEF Kept
<1>4. ASSUME NEW n \in 1..Len(ts), n - 1 \in S
      PROVE  n \in S
  <2> DEFINE t == rest[n - 1]
  <2>1. Kept(ts, kept, t) /\ Ends(n - 1, t) /\ rest[n] = TrimOnce(t, kept)
    BY <1>1, <1>4
  <2> HIDE DEF t
  <2>2. CASE Len(t) <= MaxTombs \/ Evictable(t, kept) = {}
    <3>1. rest[n] = t
      BY <2>1, <2>2 DEF TrimOnce
    <3>2. Kept(ts, kept, rest[n]) /\ Ends(n, rest[n])
      BY <2>1, <2>2, <3>1
    <3>3. QED
      BY <1>2, <3>2
  <2>3. CASE ~(Len(t) <= MaxTombs) /\ Evictable(t, kept) # {}
    <3>1. rest[n] = RemoveAt(t, Oldest(Evictable(t, kept)))
      BY <2>1, <2>3 DEF TrimOnce
    <3>2. Kept(ts, kept, rest[n]) /\ Len(rest[n]) = Len(t) - 1
      BY <2>1, <2>3, <3>1, EvictionKeeps
    <3>3. Len(t) \in Nat /\ Len(t) <= Len(ts) - (n - 1)
      BY <2>1, <2>3 DEF Kept
    <3>4. Len(rest[n]) <= Len(ts) - n
      BY <1>2, <3>2, <3>3
    <3>5. QED
      BY <1>2, <3>2, <3>4
  <2>4. QED
    BY <2>2, <2>3
<1> HIDE DEF S
<1>5. Len(ts) \in S
  <2>1. \A n \in 0..Len(ts) : n \in S
    BY <1>2, <1>3, <1>4, AllReached
  <2>2. QED
    BY <1>2, <2>1
<1>6. Kept(ts, kept, rest[Len(ts)]) /\ Ends(Len(ts), rest[Len(ts)])
  BY <1>5 DEF S
<1>7. Len(rest[Len(ts)]) \in Nat /\ Len(ts) - Len(ts) = 0
  BY <1>2, <1>6 DEF Kept
<1>8. QED
  BY <1>1, <1>2, <1>6, <1>7

-----------------------------------------------------------------------------
LEMMA NoResults ==
  ASSUME NEW rs, NEW h, \A k \in 1..Len(rs) : rs[k] # h
  PROVE  Cardinality(ResultsOf(rs, h)) = 0
<1>1. ResultsOf(rs, h) = {}
  BY DEF ResultsOf
<1>2. QED
  BY <1>1, FS_EmptySet

LEMMA ResultsAreFinite ==
  ASSUME NEW rs \in Seq(DryRun), NEW h
  PROVE  IsFiniteSet(ResultsOf(rs, h)) /\ Cardinality(ResultsOf(rs, h)) \in Nat
<1>1. Len(rs) \in Nat /\ ResultsOf(rs, h) \in SUBSET (1..Len(rs))
  BY DEF ResultsOf
<1>2. IsFiniteSet(1..Len(rs))
  BY <1>1, FS_Interval
<1>3. IsFiniteSet(ResultsOf(rs, h))
  BY <1>1, <1>2, FS_Subset
<1>4. QED
  BY <1>3, FS_CardinalityType

Among(ts, t) == \A i \in 1..Len(t) : \E j \in 1..Len(ts) : t[i].handle = ts[j].handle

LEMMA TrimSuits ==
  ASSUME NEW rs \in Seq(DryRun), NEW ts, Suits(ts, rs), NEW kept
  PROVE  TombsFor(Trim(ts, kept), rs) /\ Among(ts, Trim(ts, kept))
<1> DEFINE left == Trim(ts, kept)
<1>1. Kept(ts, kept, left) /\ (Len(left) <= MaxTombs \/ Evictable(left, kept) = {})
  BY TrimKeeps DEF Suits
<1> HIDE DEF left
<1>2. left \in Seq(Tomb) /\ OneHandleEach(left) /\ Len(left) \in Nat /\ DOMAIN left = 1..Len(left)
  BY <1>1 DEF Kept
<1>3. \A i \in 1..Len(left) : left[i].pins = Cardinality(ResultsOf(rs, left[i].handle))
  <2>1. ASSUME NEW i \in 1..Len(left)
        PROVE  left[i].pins = Cardinality(ResultsOf(rs, left[i].handle))
    <3>1. PICK j \in 1..Len(ts) : left[i] = ts[j]
      BY <1>1 DEF Kept
    <3>2. ts[j].pins = Cardinality(ResultsOf(rs, ts[j].handle))
      BY DEF Suits
    <3>3. QED
      BY <3>1, <3>2
  <2>2. QED
    BY <2>1
<1>4. ASSUME NEW k \in 1..Len(rs)
      PROVE  \E i \in 1..Len(left) : left[i].handle = rs[k] /\ left[i].proof # None
  <2>1. PICK j \in 1..Len(ts) : ts[j].handle = rs[k] /\ ts[j].proof # None
    BY DEF Suits
  <2>2. k \in ResultsOf(rs, ts[j].handle)
    BY <2>1 DEF ResultsOf
  <2>3. Cardinality(ResultsOf(rs, ts[j].handle)) # 0
    BY <2>2, ResultsAreFinite, FS_EmptySet
  <2>4. ts[j].pins # 0
    BY <2>3 DEF Suits
  <2>5. PICK i \in 1..Len(left) : left[i] = ts[j]
    BY <1>1, <2>4 DEF Kept
  <2>6. QED
    BY <2>1, <2>5
<1>5. ASSUME Len(left) > MaxTombs, NEW i \in 1..Len(left), NEW j \in 1..Len(left),
             left[i].pins = 0, left[j].pins = 0
      PROVE  i = j
  <2>1. Evictable(left, kept) = {}
    BY <1>1, <1>2, <1>5, StoreAssumption
  <2>2. left[i].handle = kept /\ left[j].handle = kept
    BY <1>2, <1>5, <2>1 DEF Evictable
  <2>3. QED
    BY <1>2, <2>2 DEF OneHandleEach
<1>6. Among(ts, left)
  BY <1>1 DEF Kept, Among
<1>7. TombsFor(left, rs)
  BY <1>2, <1>3, <1>4, <1>5 DEF TombsFor, Suits
<1>8. QED
  BY <1>6, <1>7 DEF left

Without(ts, h, t) ==
    /\ t \in Seq(Tomb) /\ OneHandleEach(t)
    /\ \A i \in 1..Len(t) : \E j \in 1..Len(ts) : t[i] = ts[j] /\ ts[j].handle # h
    /\ \A j \in 1..Len(ts) : ts[j].handle # h => \E i \in 1..Len(t) : t[i] = ts[j]

LEMMA OthersAreLeft ==
  ASSUME NEW ts \in Seq(Tomb), OneHandleEach(ts), NEW h
  PROVE  Without(ts, h, Others(ts, h))
<1>0. DOMAIN ts = 1..Len(ts)
  OBVIOUS
<1>1. CASE h \notin Handles(ts)
  <2>1. Others(ts, h) = ts
    BY <1>1 DEF Others
  <2>2. \A j \in 1..Len(ts) : ts[j].handle # h
    BY <1>0, <1>1 DEF Handles
  <2>3. QED
    BY <2>1, <2>2 DEF Without
<1>2. CASE h \in Handles(ts)
  <2> DEFINE n == Position(ts, h)
             t == RemoveAt(ts, n)
  <2>1. n \in 1..Len(ts) /\ ts[n].handle = h
    BY <1>0, <1>2 DEF Handles, Position
  <2>2. Others(ts, h) = t
    BY <1>2 DEF Others
  <2> HIDE DEF n
  <2>3. t \in Seq(Tomb) /\ Deleted(ts, n, t)
    BY <2>1, RemovalDeletes
  <2> HIDE DEF t
  <2>4. \A i \in 1..Len(t) : \E j \in 1..Len(ts) : t[i] = ts[j] /\ ts[j].handle # h
    <3>1. ASSUME NEW i \in 1..Len(t)
          PROVE  \E j \in 1..Len(ts) : t[i] = ts[j] /\ ts[j].handle # h
      <4>1. PICK j \in 1..Len(ts) : t[i] = ts[j] /\ t[i].handle # ts[n].handle
        BY <2>3 DEF Deleted
      <4>2. QED
        BY <2>1, <4>1
    <3>2. QED
      BY <3>1
  <2>5. \A j \in 1..Len(ts) : ts[j].handle # h => \E i \in 1..Len(t) : t[i] = ts[j]
    <3>1. ASSUME NEW j \in 1..Len(ts), ts[j].handle # h
          PROVE  \E i \in 1..Len(t) : t[i] = ts[j]
      <4>1. j \in (1..Len(ts)) \ {n}
        BY <2>1, <3>1
      <4>2. QED
        BY <2>3, <4>1 DEF Deleted
    <3>2. QED
      BY <3>1
  <2>6. QED
    BY <2>2, <2>3, <2>4, <2>5 DEF Deleted, Without
<1>3. QED
  BY <1>1, <1>2

(* A tombstone that no result depends on may come or change. *)
Adds(ts, h, t) ==
    \A i \in 1..Len(t) : t[i].handle = h \/ \E j \in 1..Len(ts) : t[i].handle = ts[j].handle

LEMMA AddTombKeeps ==
  ASSUME NEW rs \in Seq(DryRun), NEW ts, TombsFor(ts, rs),
         NEW h \in DryRun, \A k \in 1..Len(rs) : rs[k] # h,
         NEW reason \in {"expired", "consumed"},
         NEW proof \in [index : Index, gen : Nat, named : BOOLEAN] \cup {None}
  PROVE  /\ TombsFor(AddTomb(ts, h, reason, proof), rs)
         /\ Adds(ts, h, AddTomb(ts, h, reason, proof))
<1> DEFINE pins == IF h \in Handles(ts) THEN Entry(ts, h).pins ELSE 0
           tomb == [handle |-> h, reason |-> reason, proof |-> proof, pins |-> pins]
           others == Others(ts, h)
           all == Append(others, tomb)
           kept == IF proof = None THEN None ELSE h
           left == Trim(all, kept)
<1>0. /\ ts \in Seq(Tomb) /\ OneHandleEach(ts) /\ Len(ts) \in Nat /\ DOMAIN ts = 1..Len(ts)
      /\ \A i \in 1..Len(ts) : ts[i] \in Tomb
  BY DEF TombsFor, Suits
<1>1. AddTomb(ts, h, reason, proof) = left
  BY DEF AddTomb
<1>2. pins = 0 /\ Cardinality(ResultsOf(rs, h)) = 0
  <2>1. Cardinality(ResultsOf(rs, h)) = 0
    BY NoResults
  <2>2. CASE h \in Handles(ts)
    <3>1. Position(ts, h) \in 1..Len(ts) /\ ts[Position(ts, h)].handle = h
      BY <1>0, <2>2 DEF Handles, Position
    <3>2. ts[Position(ts, h)].pins = 0
      BY <2>1, <3>1 DEF TombsFor, Suits
    <3>3. QED
      BY <2>1, <2>2, <3>2 DEF Entry
  <2>3. QED
    BY <2>1, <2>2
<1> HIDE DEF pins
<1>3. tomb \in Tomb /\ tomb.handle = h /\ tomb.pins = 0
  BY <1>2 DEF Tomb
<1> HIDE DEF tomb, all, left
<1>4. /\ others \in Seq(Tomb) /\ OneHandleEach(others)
      /\ \A i \in 1..Len(others) : \E j \in 1..Len(ts) : others[i] = ts[j] /\ ts[j].handle # h
      /\ \A j \in 1..Len(ts) : ts[j].handle # h => \E i \in 1..Len(others) : others[i] = ts[j]
  <2>1. Without(ts, h, others)
    BY <1>0, OthersAreLeft
  <2> HIDE DEF others
  <2>2. QED
    BY <2>1 DEF Without
<1> HIDE DEF others
<1>5. /\ all \in Seq(Tomb) /\ Len(all) = Len(others) + 1 /\ Len(others) \in Nat
      /\ \A i \in 1..Len(others) : all[i] = others[i]
      /\ all[Len(others) + 1] = tomb
  BY <1>3, <1>4 DEF all
<1>6. \A i \in 1..Len(all) : \/ all[i] = tomb /\ i = Len(all)
                             \/ i \in 1..Len(others) /\ all[i] = others[i] /\ all[i].handle # h
  <2>1. \A i \in 1..Len(others) : others[i].handle # h
    BY <1>4
  <2>2. \A i \in 1..Len(all) : i = Len(others) + 1 \/ i \in 1..Len(others)
    BY <1>5
  <2>3. QED
    BY <1>5, <2>1, <2>2
<1>7. OneHandleEach(all)
  <2>1. SUFFICES ASSUME NEW i \in 1..Len(all), NEW k \in 1..Len(all), all[i].handle = all[k].handle
                 PROVE  i = k
    BY DEF OneHandleEach
  <2>2. CASE all[i] = tomb \/ all[k] = tomb
    BY <1>3, <1>6, <2>1, <2>2
  <2>3. CASE /\ i \in 1..Len(others) /\ all[i] = others[i]
             /\ k \in 1..Len(others) /\ all[k] = others[k]
    BY <1>4, <2>1, <2>3 DEF OneHandleEach
  <2>4. QED
    BY <1>6, <2>2, <2>3
<1>8. \A i \in 1..Len(all) : all[i].pins = Cardinality(ResultsOf(rs, all[i].handle))
  <2>1. ASSUME NEW i \in 1..Len(all)
        PROVE  all[i].pins = Cardinality(ResultsOf(rs, all[i].handle))
    <3>1. CASE all[i] = tomb
      BY <1>2, <1>3, <3>1
    <3>2. CASE i \in 1..Len(others) /\ all[i] = others[i]
      <4>1. PICK j \in 1..Len(ts) : others[i] = ts[j]
        BY <1>4, <3>2
      <4>2. ts[j].pins = Cardinality(ResultsOf(rs, ts[j].handle))
        BY DEF TombsFor, Suits
      <4>3. QED
        BY <3>2, <4>1, <4>2
    <3>3. QED
      BY <1>6, <3>1, <3>2
  <2>2. QED
    BY <2>1
<1>9. ASSUME NEW k \in 1..Len(rs)
      PROVE  \E i \in 1..Len(all) : all[i].handle = rs[k] /\ all[i].proof # None
  <2>1. PICK j \in 1..Len(ts) : ts[j].handle = rs[k] /\ ts[j].proof # None
    BY DEF TombsFor, Suits
  <2>2. ts[j].handle # h
    BY <2>1
  <2>3. PICK i \in 1..Len(others) : others[i] = ts[j]
    BY <1>4, <2>2
  <2>4. i \in 1..Len(all) /\ all[i] = ts[j]
    BY <1>5, <2>3
  <2>5. QED
    BY <2>1, <2>4
<1>10. Suits(all, rs)
  BY <1>5, <1>7, <1>8, <1>9 DEF Suits
<1> HIDE DEF kept
<1>11. TombsFor(left, rs) /\ Among(all, left)
  BY <1>10, TrimSuits DEF left
<1>12. Adds(ts, h, left)
  <2>1. \A i \in 1..Len(all) : all[i].handle = h \/ \E j \in 1..Len(ts) : all[i].handle = ts[j].handle
    <3>1. ASSUME NEW i \in 1..Len(all), i \in 1..Len(others), all[i] = others[i]
          PROVE  \E j \in 1..Len(ts) : all[i].handle = ts[j].handle
      <4>1. PICK j \in 1..Len(ts) : others[i] = ts[j]
        BY <1>4, <3>1
      <4>2. QED
        BY <3>1, <4>1
    <3>2. QED
      BY <1>3, <1>6, <3>1
  <2>2. QED
    BY <1>11, <2>1 DEF Adds, Among
<1>13. QED
  BY <1>1, <1>11, <1>12

(* purgeExpired is that step for each plan it finds expired. *)
LEMMA BuriedIsRecursive ==
  ASSUME NEW ts, NEW old \in Seq(Plan)
  PROVE  \E graves : /\ graves[0] = ts
                     /\ \A n \in 1..Len(old) :
                           graves[n] = AddTomb(graves[n - 1], old[n].handle, "expired", None)
                     /\ Buried(ts, old) = graves[Len(old)]
<1> DEFINE Next1(t, n) == AddTomb(t, old[n].handle, "expired", None)
           Runs(f, m) == f = [n \in 0..m |-> IF n = 0 THEN ts ELSE Next1(f[n - 1], n)]
           S == {m \in 0..Len(old) : \E f : Runs(f, m)}
<1>0. Len(old) \in Nat
  OBVIOUS
<1> HIDE DEF Next1
<1>1. 0 \in S
  <2>1. \E f : Runs(f, 0)
    <3>1. Runs([n \in 0..0 |-> ts], 0)
      OBVIOUS
    <3> HIDE DEF Runs
    <3>2. QED
      BY <3>1
  <2> HIDE DEF Runs
  <2>2. QED
    BY <1>0, <2>1
<1>2. ASSUME NEW m \in 1..Len(old), m - 1 \in S
      PROVE  m \in S
  <2>1. PICK f : Runs(f, m - 1)
    BY <1>2
  <2> DEFINE g == [n \in 0..m |-> IF n = 0 THEN ts ELSE Next1(f[n - 1], n)]
  <2>2. \A n \in 0..(m - 1) : g[n] = f[n]
    BY <1>0, <2>1
  <2>3. Runs(g, m)
    <3>1. \A n \in 0..m : n # 0 => g[n - 1] = f[n - 1]
      <4>1. \A n \in 0..m : n # 0 => n - 1 \in 0..(m - 1)
        BY <1>0
      <4> HIDE DEF g
      <4>2. QED
        BY <2>2, <4>1
    <3>2. g = [n \in 0..m |-> IF n = 0 THEN ts ELSE Next1(f[n - 1], n)]
      OBVIOUS
    <3> HIDE DEF g
    <3>3. \A n \in 0..m : (IF n = 0 THEN ts ELSE Next1(f[n - 1], n))
                          = (IF n = 0 THEN ts ELSE Next1(g[n - 1], n))
      BY <3>1
    <3>4. QED
      BY <3>2, <3>3
  <2> HIDE DEF Runs
  <2>4. QED
    BY <1>0, <2>3
<1> HIDE DEF S
<1>3. Len(old) \in S
  <2>1. \A n \in 0..Len(old) : n \in S
    BY <1>0, <1>1, <1>2, AllReached
  <2>2. QED
    BY <1>0, <2>1
<1>4. \E f : f = [n \in 0..Len(old) |-> IF n = 0 THEN ts
                                         ELSE AddTomb(f[n - 1], old[n].handle, "expired", None)]
  BY <1>3 DEF S, Next1
<1> DEFINE graves[n \in 0..Len(old)] ==
              IF n = 0 THEN ts ELSE AddTomb(graves[n - 1], old[n].handle, "expired", None)
<1>5. Buried(ts, old) = graves[Len(old)]
  BY DEF Buried
<1>6. graves = [n \in 0..Len(old) |->
                  IF n = 0 THEN ts ELSE AddTomb(graves[n - 1], old[n].handle, "expired", None)]
  BY <1>4
<1> HIDE DEF graves
<1>7. /\ graves[0] = ts
      /\ \A n \in 1..Len(old) :
            graves[n] = AddTomb(graves[n - 1], old[n].handle, "expired", None)
  BY <1>0, <1>6
<1>8. QED
  BY <1>5, <1>7

Buries(ts, old, t) ==
    \A i \in 1..Len(t) : \/ \E n \in 1..Len(old) : t[i].handle = old[n].handle
                         \/ \E j \in 1..Len(ts) : t[i].handle = ts[j].handle

LEMMA BuriedKeeps ==
  ASSUME NEW rs \in Seq(DryRun), NEW ts, TombsFor(ts, rs), NEW old \in Seq(Plan),
         \A n \in 1..Len(old) : \A k \in 1..Len(rs) : rs[k] # old[n].handle
  PROVE  /\ TombsFor(Buried(ts, old), rs)
         /\ Buries(ts, old, Buried(ts, old))
<1>1. PICK graves : /\ graves[0] = ts
                    /\ \A n \in 1..Len(old) :
                          graves[n] = AddTomb(graves[n - 1], old[n].handle, "expired", None)
                    /\ Buried(ts, old) = graves[Len(old)]
  BY BuriedIsRecursive
<1> DEFINE S == {n \in 0..Len(old) : TombsFor(graves[n], rs) /\ Buries(ts, old, graves[n])}
<1>2. Len(old) \in Nat /\ \A n \in 1..Len(old) : old[n].handle \in DryRun
  BY PlanHandles
<1>3. 0 \in S
  BY <1>1, <1>2 DEF Buries
<1>4. ASSUME NEW n \in 1..Len(old), n - 1 \in S
      PROVE  n \in S
  <2> DEFINE t == graves[n - 1]
             u == AddTomb(t, old[n].handle, "expired", None)
  <2>1. TombsFor(t, rs) /\ Buries(ts, old, t) /\ graves[n] = u
    BY <1>1, <1>4
  <2> HIDE DEF t
  <2>2. TombsFor(u, rs) /\ Adds(t, old[n].handle, u)
    <3>1. old[n].handle \in DryRun /\ \A k \in 1..Len(rs) : rs[k] # old[n].handle
      BY <1>2
    <3>2. /\ "expired" \in {"expired", "consumed"}
          /\ None \in [index : Index, gen : Nat, named : BOOLEAN] \cup {None}
      OBVIOUS
    <3>3. QED
      BY <2>1, <3>1, <3>2, AddTombKeeps
  <2> HIDE DEF u
  <2>3. Buries(ts, old, u)
    <3>1. ASSUME NEW i \in 1..Len(u)
          PROVE  \/ \E m \in 1..Len(old) : u[i].handle = old[m].handle
                 \/ \E j \in 1..Len(ts) : u[i].handle = ts[j].handle
      <4>1. CASE u[i].handle = old[n].handle
        BY <4>1
      <4>2. ASSUME NEW k \in 1..Len(t), u[i].handle = t[k].handle
            PROVE  \/ \E m \in 1..Len(old) : u[i].handle = old[m].handle
                   \/ \E j \in 1..Len(ts) : u[i].handle = ts[j].handle
        BY <2>1, <4>2 DEF Buries
      <4>3. QED
        BY <2>2, <4>1, <4>2 DEF Adds
    <3>2. QED
      BY <3>1 DEF Buries
  <2>4. QED
    BY <2>1, <2>2, <2>3
<1> HIDE DEF S
<1>5. Len(old) \in S
  <2>1. \A n \in 0..Len(old) : n \in S
    BY <1>2, <1>3, <1>4, AllReached
  <2>2. QED
    BY <1>2, <2>1
<1>6. QED
  BY <1>1, <1>5 DEF S

-----------------------------------------------------------------------------
(* The results of a handle, counted: one more, and one less. *)
LEMMA OneResultMore ==
  ASSUME NEW rs \in Seq(DryRun), NEW h \in DryRun, NEW g
  PROVE  Cardinality(ResultsOf(Append(rs, h), g))
            = Cardinality(ResultsOf(rs, g)) + (IF g = h THEN 1 ELSE 0)
<1> DEFINE n == Len(rs) + 1
           new == Append(rs, h)
<1>1. /\ Len(rs) \in Nat /\ Len(new) = n /\ new[n] = h
      /\ \A k \in 1..Len(rs) : new[k] = rs[k]
  OBVIOUS
<1> HIDE DEF new
<1>2. \A k \in 1..Len(new) : k = n \/ k \in 1..Len(rs)
  BY <1>1
<1>3. n \in 1..Len(new) /\ \A k \in 1..Len(rs) : k \in 1..Len(new) /\ k # n
  BY <1>1
<1>4. CASE g # h
  <2>1. ResultsOf(new, g) = ResultsOf(rs, g)
    BY <1>1, <1>2, <1>3, <1>4 DEF ResultsOf
  <2>2. QED
    BY <1>4, <2>1, ResultsAreFinite DEF new
<1>5. CASE g = h
  <2>1. ResultsOf(new, g) = ResultsOf(rs, g) \cup {n} /\ n \notin ResultsOf(rs, g)
    BY <1>1, <1>2, <1>3, <1>5 DEF ResultsOf
  <2>2. Cardinality(ResultsOf(new, g)) = Cardinality(ResultsOf(rs, g)) + 1
    BY <2>1, ResultsAreFinite, FS_AddElement
  <2>3. QED
    BY <1>5, <2>2 DEF new
<1>6. QED
  BY <1>4, <1>5

LEMMA OneResultLess ==
  ASSUME NEW rs \in Seq(DryRun), rs # << >>, NEW g
  PROVE  Cardinality(ResultsOf(rs, g))
            = Cardinality(ResultsOf(Tail(rs), g)) + (IF g = Head(rs) THEN 1 ELSE 0)
<1> DEFINE rest == Tail(rs)
           few == ResultsOf(rest, g)
           later == {k \in 2..Len(rs) : rs[k] = g}
           up == [k \in few |-> k + 1]
<1>1. /\ rest \in Seq(DryRun) /\ Len(rs) \in Nat /\ Len(rs) >= 1 /\ Len(rest) = Len(rs) - 1
      /\ \A k \in 1..Len(rest) : rest[k] = rs[k + 1]
      /\ Head(rs) = rs[1]
  BY EmptySeq, HeadTailProperties
<1>2. IsFiniteSet(few) /\ Cardinality(few) \in Nat
  BY <1>1, ResultsAreFinite
<1> HIDE DEF rest
<1>3. \A k \in 2..Len(rs) : k - 1 \in 1..Len(rest) /\ rest[k - 1] = rs[k]
  BY <1>1
<1>4. \A k \in 1..Len(rest) : k + 1 \in 2..Len(rs) /\ rest[k] = rs[k + 1]
  BY <1>1
<1>5. ExistsBijection(few, later)
  <2>1. \A k \in few : k + 1 \in later /\ k \in Int
    BY <1>4 DEF ResultsOf
  <2>2. \A k \in later : k - 1 \in few /\ (k - 1) + 1 = k
    BY <1>3 DEF ResultsOf
  <2> HIDE DEF few, later
  <2>3. up \in [few -> later]
    BY <2>1
  <2>4. \A k, l \in few : up[k] = up[l] => k = l
    BY <2>1
  <2>5. \A k \in later : \E l \in few : up[l] = k
    BY <2>2
  <2> HIDE DEF up
  <2>6. up \in Bijection(few, later)
    BY <2>3, <2>4, <2>5 DEF Bijection, Injection, Surjection, IsInjective
  <2>7. QED
    BY <2>6 DEF ExistsBijection
<1> HIDE DEF few
<1>6. IsFiniteSet(later) /\ Cardinality(later) = Cardinality(few)
  BY <1>2, <1>5, FS_Bijection
<1>7. CASE g # Head(rs)
  <2>1. ResultsOf(rs, g) = later
    BY <1>1, <1>7 DEF ResultsOf
  <2>2. QED
    BY <1>2, <1>6, <1>7, <2>1 DEF few, rest
<1>8. CASE g = Head(rs)
  <2>1. ResultsOf(rs, g) = later \cup {1} /\ 1 \notin later
    BY <1>1, <1>8 DEF ResultsOf
  <2> HIDE DEF later
  <2>2. Cardinality(ResultsOf(rs, g)) = Cardinality(few) + 1
    BY <1>6, <2>1, FS_AddElement
  <2>3. QED
    BY <1>8, <2>2 DEF few, rest
<1>9. QED
  BY <1>7, <1>8

-----------------------------------------------------------------------------
(* The steps of the store. *)
LEMMA StoreHandles ==
  ASSUME StoreInv
  PROVE  /\ results \in Seq(DryRun) /\ tombs \in Seq(Tomb) /\ Len(tombs) \in Nat
         /\ DOMAIN tombs = 1..Len(tombs) /\ OneHandleEach(tombs)
         /\ \A i \in 1..Len(tombs) : tombs[i] \in Tomb /\ tombs[i].handle \in DryRun
         /\ \A h : h \in Handles(tombs) <=> \E i \in 1..Len(tombs) : tombs[i].handle = h
         /\ \A k \in 1..Len(results) : results[k] \in Handles(tombs)
<1>1. results \in Seq(DryRun) /\ tombs \in Seq(Tomb) /\ OneHandleEach(tombs)
  BY DEF StoreInv, TombsFor, Suits
<1>2. DOMAIN tombs = 1..Len(tombs) /\ Len(tombs) \in Nat
  BY <1>1
<1>3. \A i \in 1..Len(tombs) : tombs[i] \in Tomb /\ tombs[i].handle \in DryRun
  <2>1. \A i \in 1..Len(tombs) : tombs[i] \in Tomb
    BY <1>1
  <2>2. QED
    BY <2>1 DEF Tomb
<1>4. \A h : h \in Handles(tombs) <=> \E i \in 1..Len(tombs) : tombs[i].handle = h
  BY <1>2 DEF Handles
<1>5. \A k \in 1..Len(results) : results[k] \in Handles(tombs)
  BY <1>4 DEF StoreInv, TombsFor, Suits
<1>6. QED
  BY <1>1, <1>2, <1>3, <1>4, <1>5

LEMMA StoreFollows ==
  ASSUME results' \in Seq(DryRun), TombsFor(tombs', results'), Len(plans') <= MaxActive,
         \A i \in 1..Len(tombs') : /\ tombs'[i].handle \notin Handles(plans)'
                                   /\ step'[tombs'[i].handle] = "over"
  PROVE  StoreInv'
<1>1. tombs' \in Seq(Tomb)
  BY DEF TombsFor, Suits
<1>2. DOMAIN tombs' = 1..Len(tombs')
  BY <1>1
<1>3. Handles(plans)' \cap Handles(tombs)' = {}
  BY <1>2 DEF Handles
<1>4. QED
  BY <1>3 DEF StoreInv

(* What leaves the tombstones and the results alone. *)
LEMMA TombsStay ==
  ASSUME StoreInv, UNCHANGED <<tombs, results>>, Len(plans') <= MaxActive,
         \A i \in 1..Len(tombs) : tombs[i].handle \notin Handles(plans)',
         \A h \in DryRun : step[h] = "over" => step'[h] = "over"
  PROVE  StoreInv'
<1>1. \A i \in 1..Len(tombs) : step'[tombs[i].handle] = "over"
  BY StoreHandles DEF StoreInv
<1>2. results' \in Seq(DryRun) /\ TombsFor(tombs', results')
  BY DEF StoreInv
<1>3. QED
  BY <1>1, <1>2, StoreFollows

(* The oldest plans turn into tombstones. *)
LEMMA BuryKeepsStore ==
  ASSUME HandleInv, StoreInv, NEW n \in 1..Len(plans), NEW old \in Seq(Plan), Len(old) = n,
         \A k \in 1..n : old[k] = plans[k],
         plans' \in Seq(Plan), Len(plans') = Len(plans) - n,
         \A i \in 1..Len(plans') : plans'[i] = plans[n + i],
         tombs' = Buried(tombs, old), results' = results,
         \A h \in DryRun : step[h] = "over" => step'[h] = "over"
  PROVE  StoreInv'
<1>1. /\ plans \in Seq(Plan) /\ Len(plans) \in Nat /\ OneHandleEach(plans)
      /\ \A k \in 1..Len(plans) : step[plans[k].handle] = "over" /\ plans[k].handle \in DryRun
      /\ \A h : h \in Handles(plans) <=> \E i \in 1..Len(plans) : plans[i].handle = h
      /\ \A h : h \in Handles(plans)' <=> \E i \in 1..Len(plans') : plans'[i].handle = h
  <2>1. plans \in Seq(Plan) /\ OneHandleEach(plans)
    BY DEF HandleInv, PlansInv
  <2>2. DOMAIN plans = 1..Len(plans) /\ DOMAIN plans' = 1..Len(plans')
    BY <2>1
  <2>3. \A h : h \in Handles(plans)' <=> \E i \in 1..Len(plans') : plans'[i].handle = h
    BY <2>2 DEF Handles
  <2>4. \A h : h \in Handles(plans) <=> \E i \in 1..Len(plans) : plans[i].handle = h
    BY <2>2 DEF Handles
  <2>5. \A k \in 1..Len(plans) : step[plans[k].handle] = "over" /\ plans[k].handle \in DryRun
    BY <2>1, PlanHandles DEF HandleInv, PlansInv
  <2>6. QED
    BY <2>1, <2>3, <2>4, <2>5
<1>2. \A k \in 1..Len(old) : k \in 1..Len(plans) /\ old[k] = plans[k]
  BY <1>1
<1>3. \A k \in 1..Len(old) : old[k].handle \notin Handles(tombs)
  BY <1>1, <1>2 DEF StoreInv
<1>4. /\ TombsFor(tombs', results')
      /\ \A i \in 1..Len(tombs') : \/ \E k \in 1..Len(old) : tombs'[i].handle = old[k].handle
                                   \/ \E j \in 1..Len(tombs) : tombs'[i].handle = tombs[j].handle
  <2>1. \A k \in 1..Len(old) : \A m \in 1..Len(results) : results[m] # old[k].handle
    BY <1>3, StoreHandles
  <2>2. results \in Seq(DryRun) /\ TombsFor(tombs, results)
    BY DEF StoreInv
  <2> DEFINE t == Buried(tombs, old)
  <2>3. TombsFor(t, results) /\ Buries(tombs, old, t)
    BY <2>1, <2>2, BuriedKeeps
  <2>4. tombs' = t /\ results' = results
    OBVIOUS
  <2> HIDE DEF t
  <2>5. TombsFor(tombs', results') /\ Buries(tombs, old, tombs')
    BY <2>3, <2>4
  <2>6. QED
    BY <2>5 DEF Buries
<1>5. \A i \in 1..Len(plans') : n + i \in 1..Len(plans) /\ plans'[i] = plans[n + i]
                                /\ \A k \in 1..n : k # n + i
  BY <1>1
<1>6. \A i \in 1..Len(plans') : \A k \in 1..Len(old) : plans'[i].handle # old[k].handle
  <2>1. SUFFICES ASSUME NEW i \in 1..Len(plans'), NEW k \in 1..Len(old),
                        plans'[i].handle = old[k].handle
                 PROVE  FALSE
    OBVIOUS
  <2>2. /\ n + i \in 1..Len(plans) /\ k \in 1..Len(plans) /\ k # n + i
        /\ plans[n + i].handle = plans[k].handle
    <3>1. n + i \in 1..Len(plans) /\ plans'[i] = plans[n + i] /\ k # n + i
      BY <1>5
    <3>2. k \in 1..Len(plans) /\ old[k] = plans[k]
      BY <1>2
    <3>3. QED
      BY <2>1, <3>1, <3>2
  <2>3. QED
    BY <1>1, <2>2 DEF OneHandleEach
<1>7. \A h : h \in Handles(plans)' => h \in Handles(plans)
  <2>1. \A h : h \in Handles(plans)' => \E i \in 1..Len(plans') : plans'[i].handle = h
    BY <1>1
  <2>2. \A j \in 1..Len(plans) : plans[j].handle \in Handles(plans)
    BY <1>1
  <2>3. QED
    BY <1>5, <2>1, <2>2
<1>8. ASSUME NEW i \in 1..Len(tombs')
      PROVE  tombs'[i].handle \notin Handles(plans)' /\ step'[tombs'[i].handle] = "over"
  <2>1. ASSUME NEW k \in 1..Len(old), tombs'[i].handle = old[k].handle
        PROVE  tombs'[i].handle \notin Handles(plans)' /\ step'[tombs'[i].handle] = "over"
    <3>1. tombs'[i].handle \notin Handles(plans)'
      <4>1. \A m \in 1..Len(plans') : plans'[m].handle # old[k].handle
        BY <1>6
      <4>2. \A h : h \in Handles(plans)' => \E m \in 1..Len(plans') : plans'[m].handle = h
        BY <1>1
      <4>3. QED
        BY <2>1, <4>1, <4>2
    <3>2. k \in 1..Len(plans) /\ old[k] = plans[k]
      BY <1>2
    <3>3. step[old[k].handle] = "over" /\ old[k].handle \in DryRun
      BY <1>1, <3>2
    <3>4. QED
      BY <2>1, <3>1, <3>3
  <2>2. ASSUME NEW j \in 1..Len(tombs), tombs'[i].handle = tombs[j].handle
        PROVE  tombs'[i].handle \notin Handles(plans)' /\ step'[tombs'[i].handle] = "over"
    <3>1. tombs[j].handle \in DryRun /\ tombs[j].handle \in Handles(tombs)
      BY StoreHandles
    <3>2. tombs[j].handle \notin Handles(plans) /\ step[tombs[j].handle] = "over"
      BY <3>1 DEF StoreInv
    <3>3. QED
      BY <1>7, <2>2, <3>1, <3>2
  <2>3. QED
    BY <1>4, <2>1, <2>2
<1>9. Len(plans') <= MaxActive /\ results' \in Seq(DryRun)
  BY <1>1, StoreAssumption DEF StoreInv
<1>10. QED
  BY <1>4, <1>8, <1>9, StoreFollows

LEMMA PurgeKeepsStore ==
  ASSUME HandleInv, StoreInv, Purge, step' = step
  PROVE  StoreInv'
<1> DEFINE old == <<Head(plans)>>
<1>1. plans \in Seq(Plan) /\ plans # << >>
  BY DEF HandleInv, PlansInv, Purge
<1>2. /\ 1 \in 1..Len(plans) /\ Len(plans) \in Nat /\ Head(plans) = plans[1] /\ Head(plans) \in Plan
      /\ Tail(plans) \in Seq(Plan) /\ Len(Tail(plans)) = Len(plans) - 1
      /\ \A i \in 1..Len(Tail(plans)) : Tail(plans)[i] = plans[1 + i]
  BY <1>1, EmptySeq, HeadTailProperties
<1>3. old \in Seq(Plan) /\ Len(old) = 1 /\ \A k \in 1..1 : old[k] = plans[k]
  BY <1>2
<1>4. plans' = Tail(plans) /\ tombs' = Buried(tombs, old) /\ results' = results
  BY DEF Purge
<1> HIDE DEF old
<1>5. QED
  BY <1>2, <1>3, <1>4, BuryKeepsStore

LEMMA IssueKeepsStore ==
  ASSUME RuntimeInv, HandleInv, StoreInv, NEW c \in Call, IssuePlan(c),
         \A h \in DryRun : step[h] = "over" => step'[h] = "over"
  PROVE  StoreInv'
<1> DEFINE plan == [handle |-> c, domain |-> DomainOf[c], scope |-> Scope(c)]
<1>1. /\ step[c] = "issue" /\ UNCHANGED <<tombs, results>>
      /\ plans' = IF Full THEN plans ELSE Append(plans, plan)
  BY DEF IssuePlan, Issue
<1>2. plan.handle = c
  OBVIOUS
<1> HIDE DEF plan
<1>3. \A i \in 1..Len(tombs) : tombs[i].handle # c /\ tombs[i].handle \notin Handles(plans)
  BY <1>1, StoreHandles DEF StoreInv
<1>4. CASE plans' = plans
  BY <1>1, <1>3, <1>4, TombsStay DEF StoreInv
<1>5. CASE ~Full /\ plans' = Append(plans, plan)
  <2>1. plans \in Seq(Plan) /\ Len(plans) \in Nat /\ DOMAIN plans = 1..Len(plans)
    BY DEF HandleInv, PlansInv
  <2>2. Len(plans') = Len(plans) + 1 /\ DOMAIN plans' = 1..(Len(plans) + 1)
    BY <1>5, <2>1
  <2>3. \A i \in 1..(Len(plans) + 1) :
           plans'[i] = IF i <= Len(plans) THEN plans[i] ELSE plan
    BY <1>5, <2>1
  <2>4. Len(plans') <= MaxActive
    BY <1>5, <2>1, <2>2, StoreAssumption DEF Full
  <2>5. \A h : h \in Handles(plans)' => h \in Handles(plans) \/ h = c
    <3>1. SUFFICES ASSUME NEW i \in 1..(Len(plans) + 1)
                   PROVE  plans'[i].handle \in Handles(plans) \/ plans'[i].handle = c
      BY <2>2 DEF Handles
    <3>2. CASE i <= Len(plans)
      BY <2>1, <2>3, <3>2 DEF Handles
    <3>3. CASE ~(i <= Len(plans))
      BY <1>2, <2>3, <3>3
    <3>4. QED
      BY <3>2, <3>3
  <2>6. \A i \in 1..Len(tombs) : tombs[i].handle \notin Handles(plans)'
    BY <1>3, <2>5
  <2>7. QED
    BY <1>1, <2>4, <2>6, TombsStay
<1>6. QED
  BY <1>1, <1>4, <1>5

(* A plan that is taken is a tombstone at once, first without and then with the proof. *)
LEMMA TakeKeepsStore ==
  ASSUME HandleInv, StoreInv, NEW c \in Call, NEW h, NEW domain, NEW verdict,
         ConsumeActive(h, domain, Scope(c), verdict), results' = results,
         \A d \in DryRun : step[d] = "over" => step'[d] = "over"
  PROVE  StoreInv'
<1> DEFINE n == Position(plans, h)
           burned == AddTomb(tombs, h, "consumed", None)
           proven == AddTomb(burned, h, "consumed", plans[n].scope)
<1>1. /\ plans \in Seq(Plan) /\ OneHandleEach(plans) /\ Len(plans) \in Nat
      /\ \A k \in 1..Len(plans) : step[plans[k].handle] = "over"
  <2> HIDE DEF n, burned, proven
  <2>1. plans \in Seq(Plan) /\ OneHandleEach(plans)
    BY DEF HandleInv, PlansInv
  <2>2. \A k \in 1..Len(plans) : step[plans[k].handle] = "over"
    BY DEF HandleInv, PlansInv
  <2>3. QED
    BY <2>1, <2>2
<1>2. h \in Handles(plans) /\ plans' = RemoveAt(plans, n) /\ tombs' \in {burned, proven}
  BY DEF ConsumeActive, Entry
<1>3. n \in 1..Len(plans) /\ plans[n].handle = h
  BY <1>1, <1>2, PositionIsIndex
<1> HIDE DEF n
<1>4. /\ h \in DryRun /\ step[h] = "over"
      /\ plans[n].scope \in [index : Index, gen : Nat, named : BOOLEAN]
  <2>1. plans[n] \in Plan
    BY <1>1, <1>3
  <2>2. QED
    BY <1>1, <1>3, <2>1 DEF Plan
<1>5. plans' \in Seq(Plan) /\ Deleted(plans, n, plans')
  BY <1>1, <1>2, <1>3, RemovalDeletes
<1>6. DOMAIN plans = 1..Len(plans) /\ DOMAIN plans' = 1..Len(plans')
  BY <1>1, <1>5
<1>7. h \notin Handles(plans)' /\ \A g : g \in Handles(plans)' => g \in Handles(plans)
  <2>1. \A i \in 1..Len(plans') :
           \E j \in 1..Len(plans) : plans'[i] = plans[j] /\ plans'[i].handle # h
    BY <1>3, <1>5 DEF Deleted
  <2>2. \A g : g \in Handles(plans)' => \E i \in 1..Len(plans') : plans'[i].handle = g
    BY <1>6 DEF Handles
  <2>3. \A j \in 1..Len(plans) : plans[j].handle \in Handles(plans)
    BY <1>6 DEF Handles
  <2>4. QED
    BY <2>1, <2>2, <2>3
<1>8. results \in Seq(DryRun) /\ TombsFor(tombs, results)
      /\ \A k \in 1..Len(results) : results[k] # h
  BY <1>2, StoreHandles DEF StoreInv
<1>9. "consumed" \in {"expired", "consumed"}
      /\ None \in [index : Index, gen : Nat, named : BOOLEAN] \cup {None}
  OBVIOUS
<1>10. TombsFor(burned, results) /\ Adds(tombs, h, burned)
  BY <1>4, <1>8, <1>9, AddTombKeeps
<1> HIDE DEF burned
<1>11. TombsFor(proven, results) /\ Adds(burned, h, proven)
  <2>1. plans[n].scope \in [index : Index, gen : Nat, named : BOOLEAN] \cup {None}
    BY <1>4
  <2>2. QED
    BY <1>4, <1>8, <1>9, <1>10, <2>1, AddTombKeeps
<1> HIDE DEF proven
<1>12. /\ TombsFor(tombs', results)
       /\ \A i \in 1..Len(tombs') : \/ tombs'[i].handle = h
                                    \/ \E j \in 1..Len(tombs) : tombs'[i].handle = tombs[j].handle
  <2>1. CASE tombs' = burned
    BY <1>10, <2>1 DEF Adds
  <2>2. CASE tombs' = proven
    BY <1>10, <1>11, <2>2 DEF Adds
  <2>3. QED
    BY <1>2, <2>1, <2>2
<1>13. ASSUME NEW i \in 1..Len(tombs')
       PROVE  tombs'[i].handle \notin Handles(plans)' /\ step'[tombs'[i].handle] = "over"
  <2>1. CASE tombs'[i].handle = h
    BY <1>4, <1>7, <2>1
  <2>2. ASSUME NEW j \in 1..Len(tombs), tombs'[i].handle = tombs[j].handle
        PROVE  tombs'[i].handle \notin Handles(plans)' /\ step'[tombs'[i].handle] = "over"
    BY <1>7, <2>2, StoreHandles DEF StoreInv
  <2>3. QED
    BY <1>12, <2>1, <2>2
<1>14. Len(plans') <= MaxActive
  <2>1. Len(plans') = Len(plans) - 1 /\ Len(plans) <= MaxActive
    BY <1>5 DEF Deleted, StoreInv
  <2>2. QED
    BY <1>1, <2>1, StoreAssumption
<1>15. QED
  BY <1>8, <1>12, <1>13, <1>14, StoreFollows

LEMMA ConsumeKeepsStore ==
  ASSUME HandleInv, StoreInv, NEW c \in Call, Consume(c),
         \A d \in DryRun : step[d] = "over" => step'[d] = "over"
  PROVE  StoreInv'
<1>1. PICK h \in DryRun, verdict \in Outcomes \cup {"taken"} :
         \/ ConsumeActive(h, DomainOf[c], Scope(c), verdict)
         \/ ConsumeLate(h, verdict)
         \/ ConsumeMissing(h, verdict)
  BY DEF Consume
<1>2. results' = results /\ plans \in Seq(Plan) /\ Len(plans) \in Nat
  BY DEF Consume, HandleInv, PlansInv
<1>3. CASE ConsumeActive(h, DomainOf[c], Scope(c), verdict)
  BY <1>2, <1>3, TakeKeepsStore
<1>4. CASE ConsumeLate(h, verdict)
  <2> DEFINE n == Position(plans, h)
             old == SubSeq(plans, 1, n)
             left == SubSeq(plans, n + 1, Len(plans))
  <2>1. h \in Handles(plans) /\ plans' = left /\ tombs' = Buried(tombs, old)
    BY <1>4 DEF ConsumeLate
  <2>2. n \in 1..Len(plans)
    BY <1>2, <2>1, PositionIsIndex
  <2> HIDE DEF n
  <2>3. \A i \in 1..n : plans[i] \in Plan
    BY <1>2, <2>2
  <2>4. \A i \in (n + 1)..Len(plans) : plans[i] \in Plan
    BY <1>2, <2>2
  <2>5. old \in Seq(Plan) /\ Len(old) = n /\ \A k \in 1..n : old[k] = plans[k]
    BY <1>2, <2>2, <2>3, SubSeqProperties
  <2>6. /\ left \in Seq(Plan) /\ Len(left) = Len(plans) - n
        /\ \A i \in 1..Len(left) : left[i] = plans[n + i]
    BY <1>2, <2>2, <2>4, SubSeqProperties
  <2> HIDE DEF old, left
  <2>7. QED
    BY <1>2, <2>1, <2>2, <2>5, <2>6, BuryKeepsStore
<1>5. CASE ConsumeMissing(h, verdict)
  <2>1. UNCHANGED <<plans, tombs, results>>
    BY <1>2, <1>5 DEF ConsumeMissing
  <2>2. \A i \in 1..Len(tombs) : tombs[i].handle \notin Handles(plans)
    BY StoreHandles DEF StoreInv
  <2>3. QED
    BY <2>1, <2>2, TombsStay DEF StoreInv
<1>6. QED
  BY <1>1, <1>3, <1>4, <1>5

-----------------------------------------------------------------------------
(* A result pins the proof it depends on, and lets go of it when it expires. *)
Pinned(ts, h, p, t) ==
    /\ t \in Seq(Tomb) /\ Len(t) = Len(ts)
    /\ \A i \in 1..Len(ts) : /\ t[i].handle = ts[i].handle /\ t[i].proof = ts[i].proof
                             /\ t[i].pins = IF ts[i].handle = h THEN p ELSE ts[i].pins

LEMMA PinPins ==
  ASSUME tombs \in Seq(Tomb), NEW h, NEW p \in Nat
  PROVE  Pinned(tombs, h, p, Pin(h, p))
<1> DEFINE t == Pin(h, p)
           entry(i) == IF tombs[i].handle = h THEN [tombs[i] EXCEPT !.pins = p] ELSE tombs[i]
<1>1. Len(tombs) \in Nat /\ DOMAIN tombs = 1..Len(tombs)
  OBVIOUS
<1>2. t = [i \in 1..Len(tombs) |-> entry(i)]
  BY <1>1 DEF Pin
<1>3. \A i \in 1..Len(tombs) :
         /\ entry(i) \in Tomb
         /\ entry(i).handle = tombs[i].handle /\ entry(i).proof = tombs[i].proof
         /\ entry(i).pins = IF tombs[i].handle = h THEN p ELSE tombs[i].pins
  <2>1. \A i \in 1..Len(tombs) : tombs[i] \in Tomb
    OBVIOUS
  <2>2. QED
    BY <2>1 DEF Tomb
<1> HIDE DEF t, entry
<1>4. t \in Seq(Tomb) /\ Len(t) = Len(tombs) /\ \A i \in 1..Len(tombs) : t[i] = entry(i)
  BY <1>1, <1>2, <1>3
<1>5. QED
  BY <1>3, <1>4 DEF Pinned, t

LEMMA PinnedSuits ==
  ASSUME NEW ts, NEW h, NEW p, NEW t, Pinned(ts, h, p, t), NEW rs, NEW rest, Suits(ts, rs),
         \A g : g # h => Cardinality(ResultsOf(rest, g)) = Cardinality(ResultsOf(rs, g)),
         p = Cardinality(ResultsOf(rest, h)),
         \A k \in 1..Len(rest) : \E m \in 1..Len(rs) : rest[k] = rs[m]
  PROVE  Suits(t, rest)
<1>1. t \in Seq(Tomb) /\ Len(t) = Len(ts)
  BY DEF Pinned
<1>2. OneHandleEach(t)
  BY DEF Pinned, Suits, OneHandleEach
<1>3. ASSUME NEW i \in 1..Len(t)
      PROVE  t[i].pins = Cardinality(ResultsOf(rest, t[i].handle))
  <2>1. t[i].handle = ts[i].handle /\ ts[i].pins = Cardinality(ResultsOf(rs, ts[i].handle))
    BY <1>1 DEF Pinned, Suits
  <2>2. t[i].pins = IF ts[i].handle = h THEN p ELSE ts[i].pins
    BY <1>1 DEF Pinned
  <2>3. QED
    BY <2>1, <2>2
<1>4. ASSUME NEW k \in 1..Len(rest)
      PROVE  \E i \in 1..Len(t) : t[i].handle = rest[k] /\ t[i].proof # None
  <2>1. PICK m \in 1..Len(rs) : rest[k] = rs[m]
    OBVIOUS
  <2>2. PICK i \in 1..Len(ts) : ts[i].handle = rs[m] /\ ts[i].proof # None
    BY DEF Suits
  <2>3. i \in 1..Len(t) /\ t[i].handle = rest[k] /\ t[i].proof # None
    BY <1>1, <2>1, <2>2 DEF Pinned
  <2>4. QED
    BY <2>3
<1>5. QED
  BY <1>1, <1>2, <1>3, <1>4 DEF Suits

LEMMA PositionOfTomb ==
  ASSUME StoreInv, NEW j \in 1..Len(tombs)
  PROVE  Entry(tombs, tombs[j].handle) = tombs[j]
<1> DEFINE n == Position(tombs, tombs[j].handle)
<1>1. tombs[j].handle \in Handles(tombs)
  BY StoreHandles
<1>2. n \in 1..Len(tombs) /\ tombs[n].handle = tombs[j].handle
  BY <1>1, StoreHandles DEF Handles, Position
<1> HIDE DEF n
<1>3. n = j
  BY <1>2, StoreHandles DEF OneHandleEach
<1>4. QED
  BY <1>3 DEF Entry, n

LEMMA ReportKeepsStore ==
  ASSUME StoreInv, NEW h, NEW scope, IssueResult(h, scope),
         \A d \in DryRun : step[d] = "over" => step'[d] = "over"
  PROVE  StoreInv'
<1>1. plans' = plans /\ Suits(tombs, results)
  BY DEF IssueResult, StoreInv, TombsFor
<1>2. \A i \in 1..Len(tombs) : tombs[i].handle \notin Handles(plans)
  BY StoreHandles DEF StoreInv
<1>3. CASE ~Proved(h, scope)
  BY <1>1, <1>2, <1>3, TombsStay DEF IssueResult, StoreInv
<1>4. CASE Proved(h, scope)
  <2>1. PICK j \in 1..Len(tombs) : tombs[j].handle = h /\ tombs[j].proof # None
    <3>1. \E j \in DOMAIN tombs : tombs[j].handle = h /\ tombs[j].proof # None
      BY <1>4 DEF Proved, ToSet
    <3>2. QED
      BY <3>1, StoreHandles
  <2> DEFINE p == tombs[j].pins + 1
             rest == Append(results, h)
             t == Pin(h, p)
  <2>2. tombs' = t /\ results' = rest
    BY <1>4, <2>1, PositionOfTomb DEF IssueResult
  <2>3. /\ h \in DryRun /\ results \in Seq(DryRun) /\ tombs \in Seq(Tomb) /\ Len(results) \in Nat
        /\ tombs[j].pins = Cardinality(ResultsOf(results, h))
    BY <2>1, StoreHandles DEF StoreInv, TombsFor, Suits
  <2>4. tombs[j].pins \in Nat
    BY <2>3, ResultsAreFinite
  <2>5. Pinned(tombs, h, p, t)
    BY <2>3, <2>4, PinPins
  <2>6. /\ \A g : g # h => Cardinality(ResultsOf(rest, g)) = Cardinality(ResultsOf(results, g))
        /\ p = Cardinality(ResultsOf(rest, h))
    <3>1. \A g : Cardinality(ResultsOf(rest, g))
                    = Cardinality(ResultsOf(results, g)) + (IF g = h THEN 1 ELSE 0)
      BY <2>3, OneResultMore
    <3>2. \A g : Cardinality(ResultsOf(results, g)) \in Nat
      BY <2>3, ResultsAreFinite
    <3> HIDE DEF rest
    <3>3. QED
      BY <2>3, <3>1, <3>2
  <2>7. /\ rest \in Seq(DryRun) /\ Len(rest) = Len(results) + 1
        /\ rest[Len(results) + 1] = h
        /\ \A k \in 1..Len(results) : rest[k] = results[k]
    BY <2>3
  <2> HIDE DEF t, rest, p
  <2>8. Len(t) = Len(tombs) /\ t \in Seq(Tomb) /\ OneHandleEach(t)
    BY <2>5, StoreHandles DEF Pinned, OneHandleEach
  <2>9. \A i \in 1..Len(t) : t[i].pins = Cardinality(ResultsOf(rest, t[i].handle))
    <3>1. ASSUME NEW i \in 1..Len(t)
          PROVE  t[i].pins = Cardinality(ResultsOf(rest, t[i].handle))
      <4>1. /\ t[i].handle = tombs[i].handle
            /\ t[i].pins = IF tombs[i].handle = h THEN p ELSE tombs[i].pins
            /\ tombs[i].pins = Cardinality(ResultsOf(results, tombs[i].handle))
        BY <1>1, <2>5, <2>8 DEF Pinned, Suits
      <4>2. QED
        BY <2>6, <4>1
    <3>2. QED
      BY <3>1
  <2>10. \A k \in 1..Len(rest) : \E i \in 1..Len(t) : t[i].handle = rest[k] /\ t[i].proof # None
    <3>1. ASSUME NEW k \in 1..Len(rest)
          PROVE  \E i \in 1..Len(t) : t[i].handle = rest[k] /\ t[i].proof # None
      <4>1. PICK i \in 1..Len(tombs) : tombs[i].handle = rest[k] /\ tombs[i].proof # None
        <5>1. CASE k \in 1..Len(results)
          BY <1>1, <2>7, <5>1 DEF Suits
        <5>2. CASE k = Len(results) + 1
          BY <2>1, <2>7, <5>2
        <5>3. QED
          BY <2>3, <2>7, <5>1, <5>2
      <4>2. i \in 1..Len(t) /\ t[i].handle = rest[k] /\ t[i].proof # None
        BY <2>5, <2>8, <4>1 DEF Pinned
      <4>3. QED
        BY <4>2
    <3>2. QED
      BY <3>1
  <2>11. ASSUME Len(t) > MaxTombs, NEW i \in 1..Len(t), NEW k \in 1..Len(t),
                t[i].pins = 0, t[k].pins = 0
         PROVE  i = k
    <3>1. p # 0
      BY <2>4 DEF p
    <3>2. tombs[i].pins = 0 /\ tombs[k].pins = 0
      BY <2>5, <2>8, <2>11, <3>1 DEF Pinned
    <3>3. QED
      BY <2>8, <2>11, <3>2 DEF StoreInv, TombsFor
  <2>12. TombsFor(tombs', results') /\ results' \in Seq(DryRun)
    BY <2>2, <2>7, <2>8, <2>9, <2>10, <2>11 DEF TombsFor, Suits
  <2>13. \A i \in 1..Len(tombs') : /\ tombs'[i].handle \notin Handles(plans)'
                                   /\ step'[tombs'[i].handle] = "over"
    <3>1. ASSUME NEW i \in 1..Len(t)
          PROVE  t[i].handle \notin Handles(plans) /\ step'[t[i].handle] = "over"
      <4>1. i \in 1..Len(tombs) /\ t[i].handle = tombs[i].handle
        BY <2>5, <2>8 DEF Pinned
      <4>2. QED
        BY <1>2, <4>1, StoreHandles DEF StoreInv
    <3>2. QED
      BY <1>1, <2>2, <3>1
  <2>14. QED
    BY <1>1, <2>12, <2>13, StoreFollows DEF StoreInv
<1>5. QED
  BY <1>3, <1>4

LEMMA ExpiryKeepsStore ==
  ASSUME StoreInv, ExpireResult, step' = step
  PROVE  StoreInv'
<1> DEFINE h == Head(results)
           rest == Tail(results)
<1>1. plans' = plans /\ results' = rest /\ results # << >> /\ Suits(tombs, results)
  BY DEF ExpireResult, StoreInv, TombsFor
<1>2. /\ results \in Seq(DryRun) /\ 1 \in 1..Len(results) /\ h = results[1]
      /\ rest \in Seq(DryRun) /\ Len(rest) = Len(results) - 1 /\ Len(results) \in Nat
      /\ \A k \in 1..Len(rest) : rest[k] = results[k + 1]
  BY <1>1, StoreHandles, EmptySeq, HeadTailProperties
<1>3. PICK j \in 1..Len(tombs) : tombs[j].handle = h
  BY <1>1, <1>2 DEF Suits
<1>4. /\ \A g : Cardinality(ResultsOf(results, g))
                   = Cardinality(ResultsOf(rest, g)) + (IF g = h THEN 1 ELSE 0)
      /\ \A g : Cardinality(ResultsOf(rest, g)) \in Nat
  BY <1>1, <1>2, OneResultLess, ResultsAreFinite
<1> HIDE DEF h, rest
<1> DEFINE p == tombs[j].pins - 1
           t == Pin(h, p)
           left == Trim(t, None)
<1>5. /\ tombs[j].pins = Cardinality(ResultsOf(results, h))
      /\ p = Cardinality(ResultsOf(rest, h)) /\ p \in Nat /\ tombs[j].pins > 0
  <2>1. tombs[j].pins = Cardinality(ResultsOf(results, h))
    BY <1>1, <1>3 DEF Suits
  <2>2. QED
    BY <1>4, <2>1
<1>6. tombs' = left
  <2>1. h \in Handles(tombs) /\ Entry(tombs, h) = tombs[j]
    BY <1>3, StoreHandles, PositionOfTomb
  <2>2. QED
    BY <1>5, <2>1 DEF ExpireResult, h
<1>7. Pinned(tombs, h, p, t)
  BY <1>5, PinPins, StoreHandles
<1> HIDE DEF p, t
<1>8. Suits(t, rest)
  <2>1. \A k \in 1..Len(rest) : \E m \in 1..Len(results) : rest[k] = results[m]
    <3>1. \A k \in 1..Len(rest) : k + 1 \in 1..Len(results)
      BY <1>2
    <3>2. QED
      BY <1>2, <3>1
  <2>2. \A g : g # h => Cardinality(ResultsOf(rest, g)) = Cardinality(ResultsOf(results, g))
    BY <1>4
  <2>3. QED
    BY <1>1, <1>5, <1>7, <2>1, <2>2, PinnedSuits
<1>9. TombsFor(left, rest) /\ Among(t, left)
  BY <1>2, <1>8, TrimSuits
<1> HIDE DEF left
<1>10. ASSUME NEW i \in 1..Len(left)
       PROVE  left[i].handle \notin Handles(plans) /\ step[left[i].handle] = "over"
  <2>1. PICK k \in 1..Len(t) : left[i].handle = t[k].handle
    BY <1>9 DEF Among
  <2>2. k \in 1..Len(tombs) /\ t[k].handle = tombs[k].handle
    BY <1>7 DEF Pinned
  <2>3. QED
    BY <2>1, <2>2, StoreHandles DEF StoreInv
<1>11. \A i \in 1..Len(tombs') : /\ tombs'[i].handle \notin Handles(plans)'
                                 /\ step'[tombs'[i].handle] = "over"
  BY <1>1, <1>6, <1>10
<1>12. TombsFor(tombs', results') /\ results' \in Seq(DryRun)
  BY <1>1, <1>2, <1>6, <1>9
<1>13. QED
  BY <1>1, <1>11, <1>12, StoreFollows DEF StoreInv

-----------------------------------------------------------------------------
(* A call that is over stays over. *)
LEMMA OverStays ==
  ASSUME RuntimeInv, [Next]_vars, NEW d \in Call, step[d] = "over"
  PROVE  step'[d] = "over"
<1>1. step \in [Call -> Step]
  BY DEF RuntimeInv, Shape
<1>2. ASSUME NEW c \in Call, CallStep(c) \/ ServeRead(c) \/ LoseRead(c) \/ ServeWrite(c)
      PROVE  step[c] # "over" /\ \A b \in Call \ {c} : step'[b] = step[b]
  <2>1. step[c] # "over"
    BY <1>2 DEF CallStep, Arrive, Label, StartRead, ServeRead, LoseRead, ReturnRead, SendRequest,
                IssuePlan, Consume, StartWrite, ServeWrite, Settle, Report, SwitchConnection
  <2>2. \A b \in Call \ {c} : step'[b] = step[b]
    <3>1. \/ \E s : step' = [step EXCEPT ![c] = s]
          \/ step' = step
      BY <1>2 DEF CallStep, Arrive, Label, StartRead, ServeRead, LoseRead, ReturnRead, SendRequest,
                  IssuePlan, Consume, StartWrite, ServeWrite, Settle, Report, SwitchConnection,
                  AfterRead, Answer, Continue, Goto, End
    <3>2. QED
      BY <1>1, <3>1
  <2>3. QED
    BY <2>1, <2>2
<1>3. ASSUME NEW i \in Index, Evict(i) \/ Land(i) PROVE step' = step
  BY <1>3 DEF Evict, Land
<1>4. CASE StoreStep \/ UNCHANGED vars
  BY <1>4 DEF StoreStep, vars
<1>5. QED
  BY <1>2, <1>3, <1>4 DEF Next

LEMMA InitStore == Init => StoreInv
<1> SUFFICES ASSUME Init PROVE StoreInv
  OBVIOUS
<1>1. plans = << >> /\ tombs = << >> /\ results = << >>
  BY DEF Init, StoreInit
<1>2. tombs \in Seq(Tomb) /\ results \in Seq(DryRun) /\ Len(tombs) = 0 /\ Len(results) = 0
  BY <1>1
<1>3. Len(plans) <= MaxActive /\ Handles(plans) = {}
  BY <1>1, StoreAssumption DEF Handles
<1>4. QED
  BY <1>2, <1>3, StoreAssumption DEF StoreInv, TombsFor, Suits, OneHandleEach

LEMMA NextStore == RuntimeInv /\ HandleInv /\ StoreInv /\ [Next]_vars => StoreInv'
<1> SUFFICES ASSUME RuntimeInv, HandleInv, StoreInv, [Next]_vars PROVE StoreInv'
  OBVIOUS
<1>1. \A h \in DryRun : step[h] = "over" => step'[h] = "over"
  BY OverStays, RuntimeAssumption
<1>2. CASE UNCHANGED store
  <2>1. \A i \in 1..Len(tombs) : tombs[i].handle \notin Handles(plans)
    BY StoreHandles DEF StoreInv
  <2>2. UNCHANGED <<plans, tombs, results>>
    BY <1>2 DEF store
  <2>3. QED
    BY <1>1, <2>1, <2>2, TombsStay DEF StoreInv
<1>3. ASSUME NEW c \in Call, CallStep(c) \/ ServeRead(c) \/ LoseRead(c) \/ ServeWrite(c)
      PROVE  StoreInv'
  <2>1. CASE IssuePlan(c)
    BY <1>1, <2>1, IssueKeepsStore
  <2>2. CASE Consume(c)
    BY <1>1, <2>2, ConsumeKeepsStore
  <2>3. CASE Report(c)
    BY <1>1, <2>3, ReportKeepsStore DEF Report
  <2>4. CASE ~(IssuePlan(c) \/ Consume(c) \/ Report(c))
    <3>1. UNCHANGED store
      BY <1>3, <2>4 DEF CallStep, Arrive, Label, StartRead, ServeRead, LoseRead, ReturnRead,
                        SendRequest, StartWrite, ServeWrite, Settle, SwitchConnection
    <3>2. QED
      BY <1>2, <3>1
  <2>5. QED
    BY <2>1, <2>2, <2>3, <2>4
<1>4. ASSUME NEW i \in Index, Evict(i) \/ Land(i) PROVE StoreInv'
  BY <1>2, <1>4 DEF Evict, Land
<1>5. CASE StoreStep
  BY <1>5, PurgeKeepsStore, ExpiryKeepsStore DEF StoreStep
<1>6. CASE UNCHANGED vars
  BY <1>2, <1>6 DEF vars
<1>7. QED
  BY <1>3, <1>4, <1>5, <1>6 DEF Next

(* Every live operation result has the proof that its plan was consumed, however many
   plans expire, are consumed or reported on and whatever is trimmed in between; and
   nothing else is kept past the limits of the store. *)
THEOREM ResultsKeepTheirProofs == Spec => []ResultKeepsItsProof
<1>1. ASSUME StoreInv PROVE ResultKeepsItsProof
  <2>1. \A h \in ToSet(results) : \E t \in ToSet(tombs) : t.handle = h /\ t.proof # None
    <3>1. DOMAIN results = 1..Len(results) /\ DOMAIN tombs = 1..Len(tombs)
      BY <1>1, StoreHandles
    <3>2. \A k \in 1..Len(results) :
             \E i \in 1..Len(tombs) : tombs[i].handle = results[k] /\ tombs[i].proof # None
      BY <1>1 DEF StoreInv, TombsFor, Suits
    <3>3. \A i \in 1..Len(tombs) : tombs[i] \in ToSet(tombs)
      BY <3>1 DEF ToSet
    <3>4. \A h \in ToSet(results) : \E k \in 1..Len(results) : results[k] = h
      BY <3>1 DEF ToSet
    <3>5. QED
      BY <3>2, <3>3, <3>4
  <2>2. ASSUME Len(tombs) > MaxTombs
        PROVE  Cardinality({i \in DOMAIN tombs : tombs[i].pins = 0}) <= 1
    <3> DEFINE free == {i \in DOMAIN tombs : tombs[i].pins = 0}
    <3>1. \A i, j \in free : i = j
      BY <1>1, <2>2, StoreHandles DEF StoreInv, TombsFor
    <3> HIDE DEF free
    <3>2. CASE free = {}
      BY <3>2, FS_EmptySet DEF free
    <3>3. CASE free # {}
      <4>1. PICK i : free = {i}
        BY <3>1, <3>3
      <4>2. Cardinality(free) = 1
        BY <4>1, FS_Singleton
      <4>3. QED
        BY <4>2 DEF free
    <3>4. QED
      BY <3>2, <3>3
  <2>3. QED
    BY <1>1, <2>1, <2>2 DEF StoreInv, ResultKeepsItsProof
<1>2. QED
  BY <1>1, InitStore, NextStore, InitHandle, NextHandle, InitRuntime, NextRuntime, PTL DEF Spec

=============================================================================
