------------------------- MODULE ServerManagerProofs -------------------------
(***************************************************************************)
(* Machine-checked proofs about ServerManager, for every number of         *)
(* requests and models, every budget and every set of faults.              *)
(*                                                                         *)
(* Part 1 proves the type invariant.  TypeOK alone is not inductive: an    *)
(* action that updates registry[model[r]] needs model[r] to be a model,    *)
(* which KnownModel adds.                                                  *)
(***************************************************************************)
EXTENDS ServerManager, FiniteSetTheorems, TLAPS

\* A request past fallback_model, or naming a model, knows its model.
KnownModel ==
  \A r \in Requests :
    pc[r] \notin {"new", "fallback", "awaitStart", "failed"} => model[r] \in Models

Typed == TypeOK /\ KnownModel

-----------------------------------------------------------------------------
(* The effects shared by the actions keep the types.                       *)

LEMMA ClaimTyped ==
  ASSUME Typed, NEW r \in Requests, NEW m \in Models,
         IsRunning(m), Claim(r, m), restart' \in SUBSET Requests, locked' \in BOOLEAN,
         UNCHANGED <<registryVars, stopper>>
  PROVE  Typed'
BY DEF Typed, TypeOK, KnownModel, MaybeBackend, Places, Stopping, AfterStop, Claim, Goto,
       IsRunning, registryVars, sizeVars

LEMMA MoveTyped ==
  ASSUME Typed, NEW r \in Requests, NEW place \in Places, Move(r, place),
         model[r] \in Models \/ place = "failed", locked' \in BOOLEAN,
         UNCHANGED <<registryVars, instanceVars, stopper>>
  PROVE  Typed'
BY DEF Typed, TypeOK, KnownModel, MaybeBackend, Move, Goto, localVars, registryVars,
       instanceVars, configVars, sizeVars

LEMMA FailTyped ==
  ASSUME Typed, NEW r \in Requests, Fail(r), locked' \in BOOLEAN,
         UNCHANGED <<registryVars, instanceVars, stopper>>
  PROVE  Typed'
BY DEF Typed, TypeOK, KnownModel, MaybeBackend, Places, Fail, Goto, registryVars,
       instanceVars, configVars, sizeVars

LEMMA AwaitEventsTyped ==
  ASSUME Typed, NEW r \in Requests, NEW place \in Places, NEW events \in SUBSET Requests,
         AwaitEvents(r, place, events), model[r] \in Models \/ place = "awaitStart",
         locked' \in BOOLEAN, UNCHANGED <<registryVars, instanceVars, stopper>>
  PROVE  Typed'
BY DEF Typed, TypeOK, KnownModel, MaybeBackend, AwaitEvents, Goto, registryVars,
       instanceVars, configVars, sizeVars

LEMMA UnregisterTyped ==
  ASSUME TypeOK, NEW m, NEW stay \in {"none", "sleep", "awaitLock", "stop"},
         Unregister(m, stay)
  PROVE  /\ registry' \in [Models -> MaybeBackend]
         /\ idleTasks' \in [Models -> MaybeBackend]
         /\ watcher' \in [Requests -> {"none", "sleep", "awaitLock", "stop"}]
         /\ saving' \subseteq Requests
BY DEF TypeOK, MaybeBackend, Unregister, IsRunning

LEMMA StopInstanceTyped ==
  ASSUME Typed, NEW r \in Requests, NEW m \in Models, NEW place \in Stopping,
         model[r] \in Models, StopInstance(r, m, place)
  PROVE  Typed'
<1>1. /\ registry' \in [Models -> MaybeBackend]
      /\ idleTasks' \in [Models -> MaybeBackend]
      /\ watcher' \in [Requests -> {"none", "sleep", "awaitLock", "stop"}]
      /\ saving' \subseteq Requests
  BY UnregisterTyped DEF Typed, StopInstance
<1> QED
  BY <1>1 DEF Typed, TypeOK, KnownModel, MaybeBackend, Places, StopInstance, Goto,
              instanceVars, configVars, sizeVars

-----------------------------------------------------------------------------
(* Every action keeps the types.                                           *)

LEMMA EnsureRunningTyped ==
  ASSUME Typed, NEW r \in Requests, EnsureRunning(r)
  PROVE  Typed'
<1> DEFINE m == model[r]
<1>1. m \in Models
  BY DEF EnsureRunning, Typed, KnownModel
<1>2. CASE IsReady(m) /\ Claim(r, m) /\ UNCHANGED restart
  BY <1>1, <1>2, ClaimTyped DEF EnsureRunning, IsReady, Typed, TypeOK
<1>3. CASE /\ starting[m] # None
           /\ AwaitEvents(r, "awaitStart", {starting[m]})
           /\ UNCHANGED instanceVars
  <2>1. {starting[m]} \in SUBSET Requests
    BY <1>1, <1>3 DEF Typed, TypeOK, MaybeBackend
  <2> QED BY <1>3, <2>1, AwaitEventsTyped DEF EnsureRunning, Typed, TypeOK, Places
<1>4. CASE Move(r, "awaitLock") /\ UNCHANGED instanceVars
  BY <1>1, <1>4, MoveTyped DEF EnsureRunning, Typed, TypeOK, Places
<1> QED BY <1>2, <1>3, <1>4 DEF EnsureRunning

LEMMA FallbackModelTyped ==
  ASSUME Typed, NEW r \in Requests, FallbackModel(r)
  PROVE  Typed'
<1>1. CASE Fail(r) /\ UNCHANGED instanceVars
  BY <1>1, FailTyped DEF FallbackModel, Typed, TypeOK
<1>2. ASSUME NEW m \in FallbackModels, starting[m] = None, Claim(r, m), UNCHANGED restart
      PROVE  Typed'
  <2>1. m \in Models /\ IsRunning(m)
    BY <1>2 DEF FallbackModels, Running
  <2> QED BY <1>2, <2>1, ClaimTyped DEF FallbackModel, Typed, TypeOK
<1>3. ASSUME NEW m \in FallbackModels, starting[m] # None,
             AwaitEvents(r, "awaitStart", {starting[m]}), UNCHANGED instanceVars
      PROVE  Typed'
  <2>1. {starting[m]} \in SUBSET Requests
    BY <1>3 DEF FallbackModels, Running, Typed, TypeOK, MaybeBackend
  <2> QED BY <1>3, <2>1, AwaitEventsTyped DEF FallbackModel, Typed, TypeOK, Places
<1> QED BY <1>1, <1>2, <1>3 DEF FallbackModel

LEMMA EnsureRunningLockedTyped ==
  ASSUME Typed, NEW r \in Requests, EnsureRunningLocked(r)
  PROVE  Typed'
<1> DEFINE m == model[r]
           b == registry[m]
<1>1. m \in Models
  BY DEF EnsureRunningLocked, Typed, KnownModel
<1>2. CASE Move(r, "enter") /\ UNCHANGED <<locked, registryVars, instanceVars, stopper>>
  BY <1>1, <1>2, MoveTyped DEF Typed, TypeOK, Places
<1>3. CASE /\ IsRunning(m)
           /\ Claim(r, m)
           /\ restart' \in {restart, restart \cup {b}}
           /\ UNCHANGED <<locked, registryVars, stopper>>
  <2>1. restart' \in SUBSET Requests
    BY <1>1, <1>3 DEF IsRunning, Typed, TypeOK
  <2> QED BY <1>1, <1>3, <2>1, ClaimTyped DEF Typed, TypeOK
<1>4. CASE StopInstance(r, m, "stopThenPrepare")
  BY <1>1, <1>4, StopInstanceTyped DEF Stopping, AfterStop
<1>5. CASE Fail(r) /\ UNCHANGED <<locked, registryVars, instanceVars, stopper>>
  BY <1>5, FailTyped DEF Typed, TypeOK
<1>6. CASE /\ Move(r, "prepare")
           /\ locked' = TRUE
           /\ UNCHANGED <<registryVars, instanceVars, stopper>>
  BY <1>1, <1>6, MoveTyped DEF Places
<1> QED BY <1>2, <1>3, <1>4, <1>5, <1>6 DEF EnsureRunningLocked

LEMMA EvictIfNeededTyped ==
  ASSUME Typed, NEW r \in Requests, EvictIfNeeded(r)
  PROVE  Typed'
<1>1. model[r] \in Models
  BY DEF EvictIfNeeded, Typed, KnownModel
<1>3. CASE /\ AwaitEvents(r, "awaitAnyStart", {starting[x] : x \in Models} \ {None})
           /\ locked' = FALSE
           /\ UNCHANGED <<registryVars, instanceVars, stopper>>
  <2>1. {starting[x] : x \in Models} \ {None} \in SUBSET Requests
    BY DEF Typed, TypeOK, MaybeBackend
  <2> QED BY <1>1, <1>3, <2>1, AwaitEventsTyped DEF Places
<1>4. ASSUME NEW v \in Victims, StopInstance(r, v, "stopThenEvict")
      PROVE  Typed'
  <2>1. v \in Models
    BY DEF Victims, IdleModels, Evictable, Running
  <2> QED BY <1>1, <1>4, <2>1, StopInstanceTyped DEF Stopping, AfterStop
<1>5. ASSUME NEW v \in Victims,
             Goto(r, "drain"), focus' = [focus EXCEPT ![r] = registry[v]], locked' = FALSE,
             UNCHANGED <<registryVars, instanceVars, model, slot, waits, incoming, stopper>>
      PROVE  Typed'
  <2>1. registry[v] \in MaybeBackend
    BY DEF Victims, IdleModels, Evictable, Running, Typed, TypeOK
  <2> QED BY <1>1, <1>5, <2>1 DEF Typed, TypeOK, KnownModel, Places, Goto, registryVars,
                                  instanceVars, configVars, sizeVars
<1> QED BY <1>3, <1>4, <1>5 DEF EvictIfNeeded

LEMMA DecideTyped ==
  ASSUME Typed, NEW r \in Requests, Decide(r)
  PROVE  Typed'
<1> DEFINE m == model[r]
<1>1. m \in Models
  BY DEF Decide, Typed, KnownModel
<1>2. CASE Move(r, "enter") /\ locked' = FALSE
           /\ UNCHANGED <<registryVars, instanceVars, stopper>>
  BY <1>1, <1>2, MoveTyped DEF Places
<1>3. CASE /\ IsRunning(m)
           /\ Claim(r, m)
           /\ locked' = FALSE
           /\ UNCHANGED <<restart, registryVars, stopper>>
  BY <1>1, <1>3, ClaimTyped DEF Typed, TypeOK
<1>4. CASE StopInstance(r, m, "stopThenBegin")
  BY <1>1, <1>4, StopInstanceTyped DEF Stopping, AfterStop
<1>5. CASE Move(r, "begin") /\ UNCHANGED <<locked, registryVars, instanceVars, stopper>>
  BY <1>1, <1>5, MoveTyped DEF Typed, TypeOK, Places
<1> QED BY <1>2, <1>3, <1>4, <1>5 DEF Decide

LEMMA BeginStartTyped ==
  ASSUME Typed, NEW r \in Requests, BeginStart(r)
  PROVE  Typed'
<1>1. model[r] \in Models
  BY DEF BeginStart, Typed, KnownModel
<1>2. CASE Move(r, "refused") /\ locked' = FALSE
           /\ UNCHANGED <<registryVars, instanceVars, stopper>>
  BY <1>1, <1>2, MoveTyped DEF Places
<1>3. CASE /\ Move(r, "spawn")
           /\ launched' = launched \cup {r}
           /\ est' = [est EXCEPT ![r] = size[model[r]]]
           /\ UNCHANGED <<locked, registryVars, live, active, ready, recorded, restart, size, stopper>>
  BY <1>1, <1>3 DEF Typed, TypeOK, KnownModel, MaybeBackend, Places, Move, Goto, localVars,
                    registryVars
<1>4. CASE FailUnlock(r)
  BY <1>4, FailTyped DEF FailUnlock
<1> QED BY <1>2, <1>3, <1>4 DEF BeginStart

LEMMA SpawnTyped ==
  ASSUME Typed, NEW r \in Requests, Spawn(r)
  PROVE  Typed'
<1>1. CASE FailUnlock(r)
  BY <1>1, FailTyped DEF FailUnlock
<1>2. CASE ~FailUnlock(r)
  <2>1. model[r] \in Models
    BY DEF Spawn, Typed, KnownModel
  <2>2. /\ live' = live \cup {r}
        /\ recorded' = recorded \cup {r}
        /\ registry' = [registry EXCEPT ![model[r]] = r]
        /\ starting' = [starting EXCEPT ![model[r]] = r]
        /\ focus' = [focus EXCEPT ![r] = r]
        /\ locked' = FALSE
        /\ pc' = [pc EXCEPT ![r] = "health"]
        /\ UNCHANGED <<idleTasks, watcher, saving, active, ready, launched, restart,
                       size, model, slot, waits, incoming, stopper>>
    BY <1>2 DEF Spawn, Goto
  <2>3. est' \in [Requests -> Nat]
    <3>1. PICK e \in {est[r], size[model[r]]} : est' = [est EXCEPT ![r] = e]
      BY <1>2 DEF Spawn
    <3> QED BY <2>1, <3>1 DEF Typed, TypeOK
  <2> QED BY <2>1, <2>2, <2>3 DEF Typed, TypeOK, KnownModel, MaybeBackend, Places
<1> QED BY <1>1, <1>2

LEMMA ResumeTyped ==
  ASSUME Typed, NEW r \in Requests, Resume(r)
  PROVE  Typed'
<1> DEFINE m == model[r]
<1>1. m \in Models
  BY DEF Resume, Typed, KnownModel
<1>2. CASE StopInstance(r, m, "stopThenFail")
  BY <1>1, <1>2, StopInstanceTyped DEF Stopping, AfterStop
<1>3. CASE Settle(r) /\ Fail(r)
           /\ UNCHANGED <<locked, registry, idleTasks, watcher, saving, instanceVars, stopper>>
  BY <1>3 DEF Settle, Fail, Goto, Typed, TypeOK, KnownModel, MaybeBackend, Places,
              instanceVars, configVars, sizeVars
<1>4. CASE /\ idleTasks' = [idleTasks EXCEPT ![m] = r]
           /\ watcher' = [watcher EXCEPT ![r] = "sleep"]
           /\ Settle(r)
           /\ ready' = ready \cup {r}
           /\ active' = [active EXCEPT ![r] = @ + 1]
           /\ slot' = [slot EXCEPT ![r] = r]
           /\ focus' = [focus EXCEPT ![r] = None]
           /\ Goto(r, "claimed")
           /\ UNCHANGED <<locked, registry, saving, live, configVars, model, waits, incoming, stopper>>
  BY <1>1, <1>4 DEF Settle, Goto, Typed, TypeOK, KnownModel, MaybeBackend, Places, configVars, sizeVars
<1> QED BY <1>2, <1>3, <1>4 DEF Resume

LEMMA StopReturnsTyped ==
  ASSUME Typed, NEW r \in Requests, StopReturns(r)
  PROVE  Typed'
<1> USE DEF Typed, TypeOK, KnownModel, MaybeBackend, Places, Goto, Terminated, configVars, sizeVars
<1>1. CASE pc[r] = "stopThenFail"
  BY <1>1 DEF StopReturns, Settle, Fail
<1>2. CASE pc[r] # "stopThenFail"
  <2>1. AfterStop[pc[r]] \in {"prepare", "evict", "begin"}
    BY <1>2 DEF StopReturns, Stopping, AfterStop
  <2>2. model[r] \in Models
    BY DEF StopReturns, Stopping, AfterStop
  <2> QED BY <1>2, <2>1, <2>2 DEF StopReturns
<1> QED BY <1>1, <1>2

LEMMA FinishTyped ==
  ASSUME Typed, NEW r \in Requests, Finish(r)
  PROVE  Typed'
<1>1. active' \in [Requests -> Nat]
  <2>1. CASE active' = active
    BY <2>1 DEF Typed, TypeOK
  <2>2. CASE active' = [active EXCEPT ![slot[r]] = IF @ > 0 THEN @ - 1 ELSE 0]
    <3>1. ASSUME NEW x \in Requests
          PROVE  active'[x] = (IF x = slot[r] THEN (IF active[x] > 0 THEN active[x] - 1 ELSE 0)
                               ELSE active[x])
      BY <2>2 DEF Typed, TypeOK
    <3>2. ASSUME NEW x \in Requests PROVE active'[x] \in Nat
      BY <3>1, <3>2 DEF Typed, TypeOK
    <3> QED BY <2>2, <3>2 DEF Typed, TypeOK
  <2> QED BY <2>1, <2>2 DEF Finish
<1> QED BY <1>1 DEF Finish, Typed, TypeOK, KnownModel, MaybeBackend, Places, Goto,
                    registryVars, configVars, sizeVars

LEMMA CancelTyped ==
  ASSUME Typed, NEW r \in Requests, Cancel(r)
  PROVE  Typed'
<1>1. CASE Fail(r) /\ UNCHANGED <<locked, registryVars, instanceVars, stopper>>
  BY <1>1, FailTyped DEF Typed, TypeOK
<1>2. CASE /\ pc[r] \in {"awaitAnyStart", "drain", "relock"}
           /\ Goto(r, "relockCancelled")
           /\ focus' = [focus EXCEPT ![r] = None]
           /\ waits' = [waits EXCEPT ![r] = {}]
           /\ UNCHANGED <<locked, registryVars, instanceVars, model, slot, incoming, stopper>>
  BY <1>2 DEF Typed, TypeOK, KnownModel, MaybeBackend, Places, Goto, registryVars,
              instanceVars, configVars, sizeVars
<1>3. CASE FailUnlock(r)
  BY <1>3, FailTyped DEF FailUnlock
<1>4. CASE pc[r] \in {"health", "resume"} /\ Move(r, "resumeFailed")
           /\ UNCHANGED <<locked, registryVars, instanceVars, stopper>>
  BY <1>4, MoveTyped DEF Typed, TypeOK, KnownModel, Places
<1>5. CASE /\ Terminated(focus[r])
           /\ Settle(r) \/ UNCHANGED starting
           /\ Fail(r)
           /\ locked' = FALSE
           /\ UNCHANGED <<registry, idleTasks, watcher, stopper>>
  BY <1>5 DEF Terminated, Settle, Fail, Goto, Typed, TypeOK, KnownModel, MaybeBackend,
              Places, configVars, sizeVars
<1> QED BY <1>1, <1>2, <1>3, <1>4, <1>5 DEF Cancel

\* The actions that only move a request, or end in an error.
LEMMA PlainStepTyped ==
  ASSUME Typed, NEW r \in Requests,
         \/ \E m \in Models \cup {None} : Arrive(r, m)
         \/ StartSettled(r) \/ PrepareStart(r) \/ AnyStartSettled(r) \/ Drained(r)
         \/ HealthSettles(r) \/ Relock(r)
  PROVE  Typed'
<1> USE DEF Typed, TypeOK, KnownModel, MaybeBackend, Places, Goto, registryVars,
            instanceVars, configVars, sizeVars
<1>1. ASSUME NEW m \in Models \cup {None}, Arrive(r, m) PROVE Typed'
  BY <1>1, ModelsAssumption DEF Arrive
<1>2. CASE StartSettled(r)
  BY <1>2 DEF StartSettled
<1>3. CASE PrepareStart(r)
  <2>1. CASE FailUnlock(r)
    BY <2>1, FailTyped DEF FailUnlock
  <2>2. CASE ~FailUnlock(r)
    <3>1. incoming' \in [Requests -> Nat]
      BY <1>3, <2>2 DEF PrepareStart
    <3> QED BY <1>3, <2>2, <3>1 DEF PrepareStart
  <2> QED BY <2>1, <2>2
<1>4. CASE AnyStartSettled(r)
  BY <1>4 DEF AnyStartSettled
<1>5. CASE Drained(r)
  BY <1>5 DEF Drained
<1>6. CASE HealthSettles(r)
  BY <1>6 DEF HealthSettles, Move, localVars
<1>7. CASE Relock(r)
  <2>1. CASE Fail(r)
    BY <1>7, <2>1, FailTyped DEF Relock
  <2>2. CASE Move(r, "evict")
    BY <1>7, <2>2 DEF Relock, Move, localVars
  <2> QED BY <1>7, <2>1, <2>2 DEF Relock
<1> QED BY <1>1, <1>2, <1>3, <1>4, <1>5, <1>6, <1>7

LEMMA RequestStepTyped ==
  ASSUME Typed, NEW r \in Requests, RequestStep(r)
  PROVE  Typed'
BY PlainStepTyped, EnsureRunningTyped, FallbackModelTyped, EnsureRunningLockedTyped,
   EvictIfNeededTyped, DecideTyped, BeginStartTyped, SpawnTyped, ResumeTyped,
   StopReturnsTyped, FinishTyped, CancelTyped
   DEF RequestStep, Progress, AcquireLock

LEMMA WatcherStepTyped ==
  ASSUME Typed, NEW b \in Requests, WatcherStep(b)
  PROVE  Typed'
<1> USE DEF Typed, TypeOK, KnownModel, taskVars, localVars
<1>1. CASE WatcherWakes(b)
  BY <1>1 DEF WatcherWakes, FlagIfStale, sizeVars
<1>2. CASE WatcherRelents(b)
  BY <1>2 DEF WatcherRelents, instanceVars, configVars, sizeVars
<1>3. CASE WatcherStops(b)
  <2>1. /\ registry' \in [Models -> MaybeBackend]
        /\ idleTasks' \in [Models -> MaybeBackend]
        /\ watcher' \in [Requests -> {"none", "sleep", "awaitLock", "stop"}]
        /\ saving' \subseteq Requests
    BY <1>3, UnregisterTyped DEF WatcherStops
  <2> QED BY <1>3, <2>1 DEF WatcherStops, FlagIfStale, instanceVars, configVars, sizeVars
<1>4. CASE WatcherStopReturns(b)
  BY <1>4 DEF WatcherStopReturns, Terminated, configVars, sizeVars
<1> QED BY <1>1, <1>2, <1>3, <1>4 DEF WatcherStep

LEMMA StopperStepTyped ==
  ASSUME Typed, StopperStep
  PROVE  Typed'
<1> USE DEF Typed, TypeOK, KnownModel, MaybeBackend, taskVars, localVars, instanceVars,
            configVars, sizeVars
<1>1. ASSUME NEW names \in SUBSET Models, StopBegins(names) PROVE Typed'
  BY <1>1 DEF StopBegins, registryVars
<1>2. CASE Stop
  BY <1>1, <1>2 DEF Stop
<1>3. ASSUME NEW m \in Models, StopModel(m) PROVE Typed'
  BY <1>1, <1>3 DEF StopModel
<1>4. CASE StopNext
  <2>1. ASSUME NEW m \in stopper.names, Unregister(m, "none"),
               stopper' = [pc |-> "stop", names |-> stopper.names \ {m}, focus |-> registry[m]]
        PROVE  Typed'
    <3>1. /\ registry' \in [Models -> MaybeBackend]
          /\ idleTasks' \in [Models -> MaybeBackend]
          /\ watcher' \in [Requests -> {"none", "sleep", "awaitLock", "stop"}]
          /\ saving' \subseteq Requests
      BY <2>1, UnregisterTyped
    <3> QED BY <1>4, <2>1, <3>1 DEF StopNext
  <2>2. CASE UNCHANGED <<registry, idleTasks, watcher, saving>>
             /\ stopper' = [pc |-> "idle", names |-> {}, focus |-> None]
    BY <1>4, <2>2 DEF StopNext
  <2> QED BY <1>4, <2>1, <2>2 DEF StopNext
<1>5. CASE StopperStopReturns
  BY <1>5 DEF StopperStopReturns, Terminated
<1> QED BY <1>2, <1>3, <1>4, <1>5 DEF StopperStep

LEMMA InitTyped == Init => Typed
<1> SUFFICES ASSUME Init PROVE Typed
  OBVIOUS
<1>1. /\ stopper \in [pc : {"idle", "next", "stop"}, names : SUBSET Models, focus : MaybeBackend]
      /\ size \in [Models -> Nat]
  BY LimitsAssumption DEF Init, MaybeBackend
<1>2. active \in [Requests -> Nat] /\ waits \in [Requests -> SUBSET Requests]
  BY DEF Init
<1> QED BY <1>1, <1>2 DEF Init, Typed, TypeOK, KnownModel, MaybeBackend, Places

LEMMA NextTyped == Typed /\ [Next]_vars => Typed'
<1> SUFFICES ASSUME Typed, [Next]_vars PROVE Typed'
  OBVIOUS
<1>1. ASSUME NEW r \in Requests, RequestStep(r) PROVE Typed'
  BY <1>1, RequestStepTyped
<1>2. ASSUME NEW b \in Requests, WatcherStep(b) PROVE Typed'
  BY <1>2, WatcherStepTyped
<1>3. CASE StopperStep
  BY <1>3, StopperStepTyped
<1>4. ASSUME NEW b \in Requests, Crash(b) PROVE Typed'
  BY <1>4 DEF Crash, Typed, TypeOK, KnownModel, taskVars, localVars, configVars, sizeVars, registryVars
<1>5. ASSUME NEW m \in Models, EditConfig(m) \/ ReplaceFiles(m) PROVE Typed'
  <2>1. size' \in [Models -> Nat]
    BY <1>5, LimitsAssumption DEF EditConfig, ReplaceFiles, Resize, Typed, TypeOK
  <2> QED BY <1>5, <2>1 DEF EditConfig, ReplaceFiles, Typed, TypeOK, KnownModel, taskVars,
                            localVars, registryVars
<1>6. CASE UNCHANGED vars
  BY <1>6 DEF vars, Typed, TypeOK, KnownModel, taskVars, localVars, registryVars,
              instanceVars, configVars, sizeVars
<1> QED BY <1>1, <1>2, <1>3, <1>4, <1>5, <1>6 DEF Next

\* The manager's maps, instances and tasks keep their types: a backend is
\* registered, watched, starting or claimed under a request's name, and
\* active_requests never goes below zero.
THEOREM TypeInvariant == Spec => []TypeOK
<1>1. Typed => TypeOK
  BY DEF Typed
<1> QED BY <1>1, InitTyped, NextTyped, PTL DEF Spec

THEOREM TypedInvariant == Spec => []Typed
BY InitTyped, NextTyped, PTL DEF Spec

-----------------------------------------------------------------------------
(* Part 2: the registry.  StartsFresh, StartsAreTracked and RegistryAgrees  *)
(* hold only together with LockDiscipline: nobody can register a model a   *)
(* request is about to start because that takes the lock it holds, and the *)
(* watcher that takes the lock to stop its backend is the one entered for  *)
(* it.  Guarded is the conjunction that is inductive.                      *)

Tracked == StartsAreTracked /\ StartsFresh /\ RegistryAgrees
Guarded == LockDiscipline /\ Tracked

Fresh == {"begin", "spawn", "stopThenBegin"}
Waiting == {"sleep", "awaitLock"}
StartPlaces == {"health", "resume", "resumeFailed", "stopThenFail"}

\* A step moves requests only forward: to an unspawned place, to the start or
\* to a new model only from where the code allows it.
MovesForward ==
  \A s \in Requests :
    /\ pc'[s] \in Unspawned => pc[s] \in Unspawned
    /\ AtStart(s)' => AtStart(s)
    /\ pc'[s] # "refused"
    /\ model'[s] = model[s] \/ pc[s] \in Unspawned
    /\ pc'[s] \in Fresh =>
         /\ model'[s] = model[s]
         /\ \/ pc[s] \in Fresh
            \/ registry'[model[s]] = None /\ starting[model[s]] = None

\* Entries of the registry and its watchers are only removed.
Shrinks ==
  /\ \A m \in Models : registry'[m] \in {registry[m], None}
  /\ \A m \in Models : idleTasks'[m] # None =>
       idleTasks'[m] = idleTasks[m] /\ registry'[m] = registry[m]
  /\ \A b \in Requests : watcher'[b] \in Waiting =>
       watcher[b] \in Waiting /\ idleTasks'[model[b]] = idleTasks[model[b]]

LEMMA ShrinkTracked ==
  ASSUME Typed, Typed', Tracked, MovesForward, Shrinks,
         \/ starting' = starting /\ \A s \in Requests : AtStart(s) => AtStart(s)'
         \/ \E r \in Requests :
              /\ AtStart(r) /\ ~AtStart(r)'
              /\ starting' = [starting EXCEPT ![model[r]] = None]
              /\ \A s \in Requests \ {r} : AtStart(s) => AtStart(s)'
  PROVE  Tracked'
<1> USE DEF Typed, TypeOK
<1>1. ASSUME NEW m \in Models
      PROVE  starting'[m] \in {starting[m], None}
  OBVIOUS
<1>2. ASSUME NEW s \in Requests, AtStart(s)
      PROVE  /\ model'[s] = model[s] /\ model[s] \in Models /\ starting[model[s]] = s
             /\ pc[s] \notin Unspawned
  BY <1>2 DEF Tracked, StartsAreTracked, MovesForward, AtStart, Unspawned, KnownModel
<1>3. StartsAreTracked'
  <2>1. ASSUME NEW m \in Models, starting'[m] # None
        PROVE  pc'[starting'[m]] \in StartPlaces /\ model'[starting'[m]] = m
    <3>1. starting'[m] = starting[m] /\ starting[m] \in Requests
      BY <1>1, <2>1 DEF MaybeBackend
    <3>2. AtStart(starting[m]) /\ model[starting[m]] = m
      BY <2>1, <3>1 DEF Tracked, StartsAreTracked
    <3>3. pc'[starting[m]] \in StartPlaces
      <4>1. ASSUME NEW r \in Requests, r = starting[m],
                   starting' = [starting EXCEPT ![model[r]] = None]
            PROVE  FALSE
        BY <2>1, <3>1, <3>2, <4>1
      <4> QED BY <3>1, <3>2, <4>1 DEF AtStart, StartPlaces
    <3>4. model'[starting[m]] = m
      BY <1>2, <3>1, <3>2
    <3> QED BY <3>1, <3>3, <3>4
  <2>2. ASSUME NEW s \in Requests, AtStart(s)'
        PROVE  starting'[model'[s]] = s
    <3>1. AtStart(s)
      BY <2>2 DEF MovesForward
    <3>2. /\ model'[s] = model[s] /\ model[s] \in Models /\ starting[model[s]] = s
      BY <1>2, <3>1
    <3>3. ASSUME NEW r \in Requests, AtStart(r), ~AtStart(r)', model[r] = model[s]
          PROVE  FALSE
      BY <1>2, <2>2, <3>2, <3>3
    <3>4. ASSUME NEW r \in Requests, AtStart(r), ~AtStart(r)',
                 starting' = [starting EXCEPT ![model[r]] = None]
          PROVE  starting'[model[s]] = s
      BY <3>2, <3>3, <3>4
    <3>5. starting'[model[s]] = s
      BY <3>2, <3>4
    <3> QED BY <3>2, <3>5
  <2> QED BY <2>1, <2>2 DEF StartsAreTracked, AtStart, StartPlaces
<1>4. StartsFresh'
  <2>1. ASSUME NEW s \in Requests, pc'[s] \in Fresh
        PROVE  /\ model'[s] = model[s] /\ model[s] \in Models
               /\ registry'[model[s]] = None
               /\ idleTasks'[model[s]] = None
               /\ starting'[model[s]] = None
    <3>1. model'[s] = model[s] /\ model[s] \in Models
      BY <2>1 DEF MovesForward, Fresh, KnownModel
    <3>2. CASE pc[s] \in Fresh
      BY <1>1, <3>1, <3>2 DEF Tracked, StartsFresh, Fresh, Shrinks
    <3>3. CASE registry'[model[s]] = None /\ starting[model[s]] = None
      <4>1. idleTasks'[model[s]] = None
        BY <3>1, <3>3 DEF Shrinks, Tracked, RegistryAgrees
      <4> QED BY <1>1, <3>1, <3>3, <4>1
    <3> QED BY <2>1, <3>2, <3>3 DEF MovesForward
  <2> QED BY <2>1 DEF StartsFresh, MovesForward, Fresh
<1>5. RegistryAgrees'
  <2>1. ASSUME NEW m \in Models, registry'[m] # None
        PROVE  model'[registry'[m]] = m /\ pc'[registry'[m]] \notin Unspawned
    <3>1. registry'[m] = registry[m] /\ registry[m] \in Requests
      BY <2>1 DEF Shrinks, MaybeBackend
    <3>2. model[registry[m]] = m /\ pc[registry[m]] \notin Unspawned
      BY <2>1, <3>1 DEF Tracked, RegistryAgrees
    <3> QED BY <3>1, <3>2 DEF MovesForward
  <2>2. ASSUME NEW m \in Models, idleTasks'[m] # None
        PROVE  registry'[m] = idleTasks'[m]
    BY <2>2 DEF Shrinks, Tracked, RegistryAgrees
  <2>3. ASSUME NEW b \in Requests, watcher'[b] \in Waiting
        PROVE  model'[b] \in Models /\ idleTasks'[model'[b]] = b
    <3>1. /\ model[b] \in Models /\ idleTasks[model[b]] = b
          /\ idleTasks'[model[b]] = idleTasks[model[b]]
      BY <2>3 DEF Shrinks, Tracked, RegistryAgrees, Waiting
    <3>2. b # None
      BY RequestsAssumption
    <3>3. registry[model[b]] = b
      BY <3>1, <3>2 DEF Tracked, RegistryAgrees
    <3>4. pc[b] \notin Unspawned
      BY <3>1, <3>2, <3>3 DEF Tracked, RegistryAgrees
    <3> QED BY <3>1, <3>4 DEF MovesForward
  <2>4. ASSUME NEW m \in Models, starting'[m] # None
        PROVE  registry'[m] \in {None, starting'[m]} /\ idleTasks'[m] = None
    <3>1. starting'[m] = starting[m]
      BY <1>1, <2>4
    <3>2. registry[m] \in {None, starting[m]} /\ idleTasks[m] = None
      BY <2>4, <3>1 DEF Tracked, RegistryAgrees
    <3> QED BY <3>1, <3>2 DEF Shrinks
  <2> QED BY <2>1, <2>2, <2>3, <2>4 DEF RegistryAgrees, Waiting
<1> QED BY <1>3, <1>4, <1>5 DEF Tracked

LEMMA UnregisterShrinks ==
  ASSUME Typed, Tracked, NEW m \in Models, NEW stay \in {"none", "stop"},
         Unregister(m, stay)
  PROVE  Shrinks
<1>1. \A x \in Models : registry'[x] \in {registry[x], None}
  BY DEF Unregister, Typed, TypeOK
<1>2. ASSUME NEW x \in Models, idleTasks'[x] # None
      PROVE  idleTasks'[x] = idleTasks[x] /\ registry'[x] = registry[x]
  BY <1>2 DEF Unregister, Typed, TypeOK
<1>3. ASSUME NEW b \in Requests, watcher'[b] \in Waiting
      PROVE  watcher[b] \in Waiting /\ idleTasks'[model[b]] = idleTasks[model[b]]
  <2>1. b # idleTasks[m] /\ watcher'[b] = watcher[b]
    BY <1>3 DEF Unregister, Waiting
  <2>2. model[b] \in Models /\ idleTasks[model[b]] = b
    BY <1>3, <2>1 DEF Waiting, Tracked, RegistryAgrees
  <2> QED BY <1>3, <2>1, <2>2 DEF Unregister, Typed, TypeOK
<1> QED BY <1>1, <1>2, <1>3 DEF Shrinks

LEMMA SpawnTracked ==
  ASSUME Typed, Guarded, NEW r \in Requests, Spawn(r), ~FailUnlock(r)
  PROVE  Tracked'
<1> DEFINE m == model[r]
<1> USE DEF Typed, TypeOK
<1>1. /\ pc[r] = "spawn" /\ pc' = [pc EXCEPT ![r] = "health"]
      /\ registry' = [registry EXCEPT ![m] = r]
      /\ starting' = [starting EXCEPT ![m] = r]
      /\ UNCHANGED <<idleTasks, watcher, model>>
  BY DEF Spawn, Goto
<1>2. m \in Models /\ registry[m] = None /\ idleTasks[m] = None /\ starting[m] = None
  BY <1>1 DEF KnownModel, Guarded, Tracked, StartsFresh
<1>3. r # None
  BY RequestsAssumption
<1>4. ASSUME NEW s \in Requests, s # r
      PROVE  pc'[s] \notin Fresh
  BY <1>1, <1>4 DEF Guarded, LockDiscipline, RequestHolds, LockedPlaces, Stopping, AfterStop,
                    Fresh
<1>5. StartsAreTracked'
  <2>1. ASSUME NEW x \in Models, starting'[x] # None
        PROVE  pc'[starting'[x]] \in StartPlaces /\ model[starting'[x]] = x
    <3>1. CASE x = m
      BY <1>1, <1>2, <3>1 DEF StartPlaces
    <3>2. CASE x # m
      <4>1. starting'[x] = starting[x] /\ starting[x] \in Requests
        BY <1>1, <2>1, <3>2 DEF MaybeBackend
      <4> QED BY <1>1, <2>1, <4>1 DEF Guarded, Tracked, StartsAreTracked, AtStart, StartPlaces
    <3> QED BY <3>1, <3>2
  <2>2. ASSUME NEW s \in Requests, pc'[s] \in StartPlaces
        PROVE  starting'[model[s]] = s
    <3>1. CASE s = r
      BY <1>1, <1>2, <3>1
    <3>2. CASE s # r
      <4>1. AtStart(s) /\ starting[model[s]] = s
        BY <1>1, <2>2, <3>2 DEF Guarded, Tracked, StartsAreTracked, AtStart, StartPlaces
      <4> QED BY <1>1, <1>2, <4>1, RequestsAssumption
    <3> QED BY <3>1, <3>2
  <2> QED BY <1>1, <2>1, <2>2 DEF StartsAreTracked, AtStart, StartPlaces
<1>6. StartsFresh'
  BY <1>1, <1>4 DEF StartsFresh, Guarded, Tracked, Fresh
<1>7. RegistryAgrees'
  BY <1>1, <1>2, <1>3, RequestsAssumption
     DEF RegistryAgrees, Guarded, Tracked, Unspawned, MaybeBackend
<1> QED BY <1>5, <1>6, <1>7 DEF Tracked

\* The third disjunct of Resume: the start succeeded.
LEMMA PublishTracked ==
  ASSUME Typed, Guarded, NEW r \in Requests, AtStart(r), ~locked,
         registry[model[r]] = r,
         idleTasks' = [idleTasks EXCEPT ![model[r]] = r],
         watcher' = [watcher EXCEPT ![r] = "sleep"],
         Settle(r), Goto(r, "claimed"), UNCHANGED <<registry, model>>
  PROVE  Tracked'
<1> DEFINE m == model[r]
<1> USE DEF Typed, TypeOK, Guarded
<1>1. m \in Models /\ starting[m] = r /\ r # None
  BY RequestsAssumption DEF KnownModel, AtStart, Tracked, StartsAreTracked
<1>2. idleTasks[m] = None
  BY <1>1 DEF Tracked, RegistryAgrees
<1>3. pc' = [pc EXCEPT ![r] = "claimed"] /\ starting' = [starting EXCEPT ![m] = None]
  BY DEF Goto, Settle
<1>4. ASSUME NEW s \in Requests
      PROVE  pc'[s] \notin Fresh /\ pc'[s] # "refused"
  BY <1>3 DEF LockDiscipline, RequestHolds, LockedPlaces, Fresh, Stopping, AfterStop, Tracked,
              StartsFresh
<1>5. StartsAreTracked'
  <2>1. ASSUME NEW x \in Models, starting'[x] # None
        PROVE  pc'[starting'[x]] \in StartPlaces /\ model[starting'[x]] = x
    <3>1. x # m /\ starting'[x] = starting[x] /\ starting[x] \in Requests
      BY <1>1, <1>3, <2>1 DEF MaybeBackend
    <3>2. AtStart(starting[x]) /\ model[starting[x]] = x
      BY <2>1, <3>1 DEF Tracked, StartsAreTracked
    <3> QED BY <1>3, <3>1, <3>2 DEF AtStart, StartPlaces
  <2>2. ASSUME NEW s \in Requests, pc'[s] \in StartPlaces
        PROVE  starting'[model[s]] = s
    <3>1. s # r /\ AtStart(s)
      BY <1>3, <2>2 DEF AtStart, StartPlaces
    <3>2. starting[model[s]] = s /\ model[s] \in Models
      BY <3>1 DEF Tracked, StartsAreTracked, KnownModel, AtStart
    <3> QED BY <1>1, <1>3, <3>1, <3>2
  <2> QED BY <2>1, <2>2 DEF StartsAreTracked, AtStart, StartPlaces
<1>6. StartsFresh'
  BY <1>4 DEF StartsFresh, Fresh
<1>7. RegistryAgrees'
  <2>1. ASSUME NEW x \in Models, registry'[x] # None
        PROVE  model'[registry'[x]] = x /\ pc'[registry'[x]] \notin Unspawned
    BY <1>3, <2>1 DEF Tracked, RegistryAgrees, Unspawned, MaybeBackend
  <2>2. ASSUME NEW x \in Models, idleTasks'[x] # None
        PROVE  registry'[x] = idleTasks'[x]
    BY <1>1, <2>2 DEF Tracked, RegistryAgrees
  <2>3. ASSUME NEW b \in Requests, watcher'[b] \in Waiting
        PROVE  model'[b] \in Models /\ idleTasks'[model'[b]] = b
    <3>1. CASE b = r
      BY <1>1, <3>1
    <3>2. CASE b # r
      <4>1. model[b] \in Models /\ idleTasks[model[b]] = b
        BY <2>3, <3>2 DEF Tracked, RegistryAgrees, Waiting
      <4> QED BY <1>2, <4>1, RequestsAssumption
    <3> QED BY <3>1, <3>2
  <2>4. ASSUME NEW x \in Models, starting'[x] # None
        PROVE  registry'[x] \in {None, starting'[x]} /\ idleTasks'[x] = None
    BY <1>1, <1>3, <2>4 DEF Tracked, RegistryAgrees
  <2> QED BY <2>1, <2>2, <2>3, <2>4 DEF RegistryAgrees, Waiting
<1> QED BY <1>5, <1>6, <1>7 DEF Tracked

\* A request that moves without touching the registry.
LEMMA MoveTracked ==
  ASSUME Typed, Typed', Tracked, NEW r \in Requests, NEW place \in Places,
         Goto(r, place), Shrinks, UNCHANGED starting,
         place \in Unspawned => pc[r] \in Unspawned,
         place \in StartPlaces <=> pc[r] \in StartPlaces,
         place # "refused",
         \/ model' = model
         \/ pc[r] \in Unspawned /\ \E m : model' = [model EXCEPT ![r] = m],
         place \in Fresh =>
           /\ model' = model
           /\ \/ pc[r] \in Fresh
              \/ registry'[model[r]] = None /\ starting[model[r]] = None
  PROVE  Tracked'
<1> USE DEF Typed, TypeOK
<1>1. pc' = [pc EXCEPT ![r] = place]
  BY DEF Goto
<1>2. ASSUME NEW s \in Requests
      PROVE  model'[s] = model[s] \/ (s = r /\ pc[r] \in Unspawned)
  <2>1. ASSUME NEW m, model' = [model EXCEPT ![r] = m], s # r
        PROVE  model'[s] = model[s]
    BY <2>1
  <2>2. CASE model' = model
    BY <2>2
  <2>3. CASE pc[r] \in Unspawned /\ \E m : model' = [model EXCEPT ![r] = m]
    BY <2>1, <2>3
  <2> QED BY <2>2, <2>3
<1>3. MovesForward
  <2> SUFFICES ASSUME NEW s \in Requests
               PROVE  /\ pc'[s] \in Unspawned => pc[s] \in Unspawned
                      /\ AtStart(s)' => AtStart(s)
                      /\ pc'[s] # "refused"
                      /\ model'[s] = model[s] \/ pc[s] \in Unspawned
                      /\ pc'[s] \in Fresh =>
                           /\ model'[s] = model[s]
                           /\ \/ pc[s] \in Fresh
                              \/ registry'[model[s]] = None /\ starting[model[s]] = None
    BY DEF MovesForward
  <2>1. CASE s = r
    BY <1>1, <1>2, <2>1 DEF AtStart, StartPlaces
  <2>2. CASE s # r
    <3>1. pc'[s] = pc[s] /\ pc[s] # "refused"
      BY <1>1, <2>2 DEF Tracked, StartsFresh
    <3>2. model'[s] = model[s]
      BY <1>2, <2>2
    <3>3. AtStart(s)' <=> AtStart(s)
      BY <3>1 DEF AtStart
    <3> QED BY <3>1, <3>2, <3>3 DEF Unspawned, Fresh
  <2> QED BY <2>1, <2>2
<1>4. \A s \in Requests : AtStart(s) => AtStart(s)'
  BY <1>1 DEF AtStart, StartPlaces
<1> QED BY <1>3, <1>4, ShrinkTracked

\* A request whose start fails: it settles it.
LEMMA FailedStartTracked ==
  ASSUME Typed, Typed', Tracked, NEW r \in Requests, AtStart(r),
         Goto(r, "failed"), Shrinks, Settle(r), UNCHANGED model
  PROVE  Tracked'
<1> USE DEF Typed, TypeOK
<1>1. pc' = [pc EXCEPT ![r] = "failed"]
  BY DEF Goto
<1>2. MovesForward
  BY <1>1 DEF MovesForward, AtStart, Fresh, Unspawned, Tracked, StartsFresh
<1>3. ~AtStart(r)' /\ \A s \in Requests \ {r} : AtStart(s) => AtStart(s)'
  BY <1>1 DEF AtStart
<1> QED BY <1>2, <1>3, ShrinkTracked DEF Settle

LEMMA SameShrinks ==
  ASSUME UNCHANGED <<registry, idleTasks, watcher>>
  PROVE  Shrinks
BY DEF Shrinks

LEMMA StopInstanceTracked ==
  ASSUME Typed, Typed', Tracked, NEW r \in Requests, NEW m \in Models, NEW place \in Stopping,
         StopInstance(r, m, place),
         place = "stopThenFail" <=> AtStart(r),
         place # "stopThenFail" => pc[r] \in Unspawned,
         place = "stopThenBegin" => m = model[r] /\ starting[m] = None
  PROVE  Tracked'
<1>1. Shrinks
  BY UnregisterShrinks DEF StopInstance
<1>2. place = "stopThenBegin" => registry'[model[r]] = None
  BY DEF StopInstance, Unregister, Typed, TypeOK
<1>3. /\ Goto(r, place) /\ UNCHANGED <<starting, model>>
      /\ place \in Places /\ place # "refused"
  BY DEF StopInstance, Stopping, AfterStop, Places
<1>4. place \in StartPlaces <=> pc[r] \in StartPlaces
  BY DEF Stopping, AfterStop, StartPlaces, AtStart
<1>5. place \in Unspawned => pc[r] \in Unspawned
  BY DEF Stopping, AfterStop, Unspawned
<1>6. place \in Fresh => registry'[model[r]] = None /\ starting[model[r]] = None
  BY <1>2 DEF Stopping, AfterStop, Fresh
<1>7. model' = model
  BY <1>3
<1>8. place \in Fresh => /\ model' = model
                        /\ \/ pc[r] \in Fresh
                           \/ registry'[model[r]] = None /\ starting[model[r]] = None
  BY <1>6, <1>7
<1> QED BY <1>1, <1>3, <1>4, <1>5, <1>7, <1>8, MoveTracked

\* Every request's step keeps the registry in order.
LEMMA RequestStepTracked ==
  ASSUME Typed, Guarded, NEW r \in Requests, RequestStep(r)
  PROVE  Tracked'
<1> USE DEF Guarded, Places, Stopping, AfterStop, Move, Fail, AwaitEvents, Claim,
            registryVars, StartPlaces, Unspawned, Fresh
<1>0. Typed'
  BY RequestStepTyped
<1>1. ASSUME NEW m \in Models \cup {None}, Arrive(r, m) PROVE Tracked'
  BY <1>0, <1>1, MoveTracked, SameShrinks DEF Arrive
<1>2. CASE EnsureRunning(r)
  <2>1. CASE Claim(r, model[r])
    BY <1>0, <1>2, <2>1, MoveTracked, SameShrinks DEF EnsureRunning
  <2>2. ASSUME NEW place \in {"awaitStart", "awaitLock"}, Goto(r, place), UNCHANGED model
        PROVE  Tracked'
    BY <1>0, <1>2, <2>2, MoveTracked, SameShrinks DEF EnsureRunning
  <2> QED BY <1>2, <2>1, <2>2 DEF EnsureRunning, localVars
<1>3. CASE FallbackModel(r)
  BY <1>0, <1>3, MoveTracked, SameShrinks DEF FallbackModel
<1>4. CASE StartSettled(r)
  BY <1>0, <1>4, MoveTracked, SameShrinks DEF StartSettled
<1>5. CASE PrepareStart(r)
  <2>1. ASSUME NEW place \in {"evict", "failed"}, Goto(r, place),
               UNCHANGED <<registryVars, model>>
        PROVE  Tracked'
    BY <1>0, <1>5, <2>1, MoveTracked, SameShrinks DEF PrepareStart
  <2> QED BY <1>5, <2>1 DEF PrepareStart, FailUnlock, localVars
<1>6. CASE EvictIfNeeded(r)
  <2>1. ASSUME NEW v \in Victims, StopInstance(r, v, "stopThenEvict") PROVE Tracked'
    BY <1>0, <1>6, <2>1, StopInstanceTracked
       DEF EvictIfNeeded, Victims, IdleModels, Evictable, Running, AtStart
  <2>2. ASSUME NEW place \in {"awaitAnyStart", "drain"}, Goto(r, place),
               UNCHANGED <<registryVars, model>>
        PROVE  Tracked'
    BY <1>0, <1>6, <2>2, MoveTracked, SameShrinks DEF EvictIfNeeded
  <2> QED BY <1>6, <2>1, <2>2 DEF EvictIfNeeded, localVars
<1>7. CASE AnyStartSettled(r)
  BY <1>0, <1>7, MoveTracked, SameShrinks DEF AnyStartSettled
<1>8. CASE Drained(r)
  BY <1>0, <1>8, MoveTracked, SameShrinks DEF Drained
<1>9. CASE Decide(r)
  <2>1. CASE StopInstance(r, model[r], "stopThenBegin") /\ starting[model[r]] = None
    BY <1>0, <1>9, <2>1, StopInstanceTracked DEF Decide, Typed, KnownModel, AtStart
  <2>2. CASE Goto(r, "enter") /\ UNCHANGED <<registryVars, model>>
    BY <1>0, <1>9, <2>2, MoveTracked, SameShrinks DEF Decide
  <2>3. CASE Claim(r, model[r]) /\ UNCHANGED registryVars
    BY <1>0, <1>9, <2>3, MoveTracked, SameShrinks DEF Decide
  <2>4. CASE /\ Goto(r, "begin") /\ UNCHANGED <<registryVars, model>>
             /\ registry[model[r]] = None /\ starting[model[r]] = None
    BY <1>0, <1>9, <2>4, MoveTracked, SameShrinks DEF Decide
  <2> QED BY <1>9, <2>1, <2>2, <2>3, <2>4 DEF Decide, localVars
<1>10. CASE BeginStart(r)
  <2>1. /\ registry[model[r]] = None /\ idleTasks[model[r]] = None
        /\ starting[model[r]] = None
    BY <1>10 DEF BeginStart, Tracked, StartsFresh
  <2>2. CASE Goto(r, "spawn") /\ UNCHANGED <<registryVars, model>>
    BY <1>0, <1>10, <2>2, MoveTracked, SameShrinks DEF BeginStart
  <2>3. CASE Goto(r, "failed") /\ UNCHANGED <<registryVars, model>>
    BY <1>0, <1>10, <2>3, MoveTracked, SameShrinks DEF BeginStart
  <2> QED BY <1>10, <2>1, <2>2, <2>3 DEF BeginStart, FailUnlock, localVars
<1>11. CASE Spawn(r)
  <2>1. CASE FailUnlock(r)
    BY <1>0, <1>11, <2>1, MoveTracked, SameShrinks DEF Spawn, FailUnlock
  <2> QED BY <1>11, <2>1, SpawnTracked
<1>12. CASE HealthSettles(r)
  BY <1>0, <1>12, MoveTracked, SameShrinks DEF HealthSettles, localVars
<1>13. CASE StopReturns(r)
  <2>1. CASE pc[r] = "stopThenFail"
    BY <1>0, <1>13, <2>1, FailedStartTracked, SameShrinks DEF StopReturns, AtStart
  <2>2. CASE pc[r] # "stopThenFail"
    <3>1. AfterStop[pc[r]] \in {"prepare", "evict", "begin"}
      BY <1>13, <2>2 DEF StopReturns
    <3>2. AfterStop[pc[r]] = "begin" => pc[r] = "stopThenBegin"
      BY <1>13, <2>2 DEF StopReturns
    <3>3. pc[r] \in Unspawned /\ pc[r] \notin StartPlaces
      BY <1>13, <2>2 DEF StopReturns
    <3> QED BY <1>0, <1>13, <2>2, <3>1, <3>2, <3>3, MoveTracked, SameShrinks
            DEF StopReturns
  <2> QED BY <2>1, <2>2
<1>14. CASE Finish(r)
  BY <1>0, <1>14, MoveTracked, SameShrinks DEF Finish
<1>15. CASE EnsureRunningLocked(r)
  <2>1. CASE StopInstance(r, model[r], "stopThenPrepare")
    BY <1>0, <1>15, <2>1, StopInstanceTracked
       DEF EnsureRunningLocked, Typed, KnownModel, AtStart
  <2>2. CASE Claim(r, model[r]) /\ UNCHANGED registryVars
    BY <1>0, <1>15, <2>2, MoveTracked, SameShrinks DEF EnsureRunningLocked
  <2>3. ASSUME NEW place \in {"enter", "failed", "prepare"}, Goto(r, place),
               UNCHANGED <<registryVars, model>>
        PROVE  Tracked'
    BY <1>0, <1>15, <2>3, MoveTracked, SameShrinks DEF EnsureRunningLocked
  <2> QED BY <1>15, <2>1, <2>2, <2>3 DEF EnsureRunningLocked, localVars
<1>16. CASE Relock(r)
  BY <1>0, <1>16, MoveTracked, SameShrinks DEF Relock, localVars
<1>17. CASE Resume(r)
  <2>1. AtStart(r) /\ ~locked /\ model[r] \in Models
    BY <1>17 DEF Resume, AtStart, Typed, KnownModel
  <2>2. CASE StopInstance(r, model[r], "stopThenFail")
    BY <1>0, <2>1, <2>2, StopInstanceTracked
  <2>3. CASE Settle(r) /\ Fail(r) /\ UNCHANGED <<registry, idleTasks, watcher>>
    BY <1>0, <2>1, <2>3, FailedStartTracked, SameShrinks
  <2>4. CASE /\ registry[model[r]] = r
             /\ idleTasks' = [idleTasks EXCEPT ![model[r]] = r]
             /\ watcher' = [watcher EXCEPT ![r] = "sleep"]
             /\ Settle(r) /\ Goto(r, "claimed") /\ UNCHANGED <<registry, model>>
    BY <2>1, <2>4, PublishTracked
  <2> QED BY <1>17, <2>2, <2>3, <2>4 DEF Resume
<1>18. CASE Cancel(r)
  <2>1. ASSUME NEW place \in {"failed", "relockCancelled", "resumeFailed"}, Goto(r, place),
               place = "resumeFailed" <=> pc[r] \in StartPlaces,
               place = "relockCancelled" => pc[r] \in Unspawned,
               UNCHANGED <<registry, idleTasks, starting, watcher, model>>
        PROVE  Tracked'
    BY <1>0, <2>1, MoveTracked, SameShrinks
  <2>2. CASE pc[r] = "stopThenFail"
    BY <1>0, <1>18, <2>2, FailedStartTracked, SameShrinks DEF Cancel, AtStart
  <2>3. CASE pc[r] # "stopThenFail" /\ pc[r] \in Stopping
    BY <1>18, <2>1, <2>3 DEF Cancel
  <2>4. CASE pc[r] \notin Stopping
    BY <1>18, <2>1, <2>4 DEF Cancel, FailUnlock, localVars
  <2> QED BY <2>2, <2>3, <2>4
<1> QED
  BY <1>1, <1>2, <1>3, <1>4, <1>5, <1>6, <1>7, <1>8, <1>9, <1>10, <1>11, <1>12, <1>13,
     <1>14, <1>15, <1>16, <1>17, <1>18 DEF RequestStep, Progress, AcquireLock

\* A step that moves no request keeps the registry in order when it only
\* removes entries.
LEMMA StillTracked ==
  ASSUME Typed, Typed', Tracked, Shrinks, UNCHANGED <<starting, pc, model>>
  PROVE  Tracked'
<1>1. MovesForward
  BY DEF MovesForward, AtStart, Tracked, StartsFresh
<1>2. \A s \in Requests : AtStart(s) => AtStart(s)'
  BY DEF AtStart
<1> QED BY <1>1, <1>2, ShrinkTracked

LEMMA WatcherStepTracked ==
  ASSUME Typed, Guarded, NEW b \in Requests, WatcherStep(b)
  PROVE  Tracked'
<1>0. Typed' /\ Tracked
  BY WatcherStepTyped DEF Guarded
<1>1. UNCHANGED <<starting, pc, model>>
  BY DEF WatcherStep, WatcherWakes, WatcherRelents, WatcherStops, WatcherStopReturns, taskVars,
         localVars
<1>2. CASE /\ UNCHANGED <<registry, idleTasks>>
           /\ \A c \in Requests : watcher'[c] \in Waiting => watcher[c] \in Waiting
  <2>1. Shrinks
    BY <1>2 DEF Shrinks
  <2> QED BY <1>0, <1>1, <2>1, StillTracked
<1>3. CASE WatcherWakes(b) \/ WatcherRelents(b) \/ WatcherStopReturns(b)
  <2>1. UNCHANGED <<registry, idleTasks>>
    BY <1>3 DEF WatcherWakes, WatcherRelents, WatcherStopReturns
  <2>2. \E place \in {"none", "sleep", "awaitLock"} : watcher' = [watcher EXCEPT ![b] = place]
    BY <1>3 DEF WatcherWakes, WatcherRelents, WatcherStopReturns
  <2>3. watcher'[b] = "none" \/ watcher[b] \in Waiting
    BY <1>3 DEF WatcherWakes, WatcherRelents, WatcherStopReturns, Waiting, Typed, TypeOK
  <2>4. \A c \in Requests : watcher'[c] \in Waiting => watcher[c] \in Waiting
    BY <2>2, <2>3 DEF Waiting, Typed, TypeOK
  <2> QED BY <1>2, <2>1, <2>4
<1>4. CASE WatcherStops(b)
  <2>1. model[b] \in Models
    BY <1>0, <1>4 DEF WatcherStops, Tracked, RegistryAgrees
  <2>2. Shrinks
    BY <1>0, <1>4, <2>1, UnregisterShrinks DEF WatcherStops
  <2> QED BY <1>0, <1>1, <2>2, StillTracked
<1> QED BY <1>3, <1>4 DEF WatcherStep

LEMMA StopperStepTracked ==
  ASSUME Typed, Guarded, StopperStep
  PROVE  Tracked'
<1>0. Typed' /\ Tracked
  BY StopperStepTyped DEF Guarded
<1>1. UNCHANGED <<starting, pc, model>>
  BY DEF StopperStep, Stop, StopModel, StopBegins, StopNext, StopperStopReturns, taskVars,
         localVars, registryVars
<1>2. Shrinks
  <2>1. ASSUME NEW m \in stopper.names, Unregister(m, "none") PROVE Shrinks
    <3>1. m \in Models
      BY DEF Typed, TypeOK
    <3> QED BY <1>0, <2>1, <3>1, UnregisterShrinks
  <2>2. CASE UNCHANGED <<registry, idleTasks, watcher>>
    BY <2>2, SameShrinks
  <2> QED BY <2>1, <2>2 DEF StopperStep, Stop, StopModel, StopBegins, StopNext,
                            StopperStopReturns, registryVars
<1> QED BY <1>0, <1>1, <1>2, StillTracked

-----------------------------------------------------------------------------
(* The lock.  A step of a request keeps the lock discipline when it enters  *)
(* a locked section only with the lock free, leaves one only releasing it,  *)
(* and moves no watcher into or out of its own.                             *)

SameSection(r) == (RequestHolds(r)' <=> RequestHolds(r)) /\ locked' = locked
EntersSection(r) == ~RequestHolds(r) /\ RequestHolds(r)' /\ ~locked /\ locked' = TRUE
LeavesSection(r) == RequestHolds(r) /\ ~RequestHolds(r)' /\ locked' = FALSE
LockStep(r) ==
  /\ \E place \in Places : pc' = [pc EXCEPT ![r] = place]
  /\ \A b \in Requests : WatcherHolds(b)' <=> WatcherHolds(b)
  /\ stopper' = stopper
  /\ SameSection(r) \/ EntersSection(r) \/ LeavesSection(r)

LEMMA LockStepKeepsDiscipline ==
  ASSUME Typed, LockDiscipline, NEW r \in Requests, LockStep(r)
  PROVE  LockDiscipline'
<1>1. ASSUME NEW s \in Requests, s # r PROVE RequestHolds(s)' <=> RequestHolds(s)
  BY <1>1 DEF LockStep, RequestHolds, Typed, TypeOK
<1>2. StopperHolds' <=> StopperHolds
  BY DEF LockStep, StopperHolds
<1>3. \A b \in Requests : WatcherHolds(b)' <=> WatcherHolds(b)
  BY DEF LockStep
<1>4. CASE SameSection(r)
  BY <1>1, <1>2, <1>3, <1>4 DEF SameSection, LockDiscipline
<1>5. CASE EntersSection(r)
  BY <1>1, <1>2, <1>3, <1>5 DEF EntersSection, LockDiscipline
<1>6. CASE LeavesSection(r)
  BY <1>1, <1>2, <1>3, <1>6 DEF LeavesSection, LockDiscipline
<1> QED BY <1>4, <1>5, <1>6 DEF LockStep

\* A task in its locked section, or about to enter one, sees no watcher in
\* its own: cancelling an idle watcher interrupts no stop.
LEMMA UnregisterQuiet ==
  ASSUME Typed, NEW m, Unregister(m, "none"),
         \A b \in Requests : ~WatcherHolds(b)
  PROVE  \A b \in Requests : WatcherHolds(b)' <=> WatcherHolds(b)
BY DEF Unregister, WatcherHolds, Typed, TypeOK

LEMMA StopInstanceLock ==
  ASSUME Typed, LockDiscipline, NEW r \in Requests, NEW m, NEW place \in Stopping,
         StopInstance(r, m, place),
         RequestHolds(r) \/ ~locked
  PROVE  LockStep(r)
<1>1. \A b \in Requests : ~WatcherHolds(b)
  BY DEF LockDiscipline
<1>2. \A b \in Requests : WatcherHolds(b)' <=> WatcherHolds(b)
  BY <1>1, UnregisterQuiet DEF StopInstance
<1>3. pc' = [pc EXCEPT ![r] = place] /\ RequestHolds(r)' /\ locked' = TRUE
  BY DEF StopInstance, Goto, RequestHolds, LockedPlaces, Typed, TypeOK
<1>4. RequestHolds(r) => locked = TRUE
  BY DEF LockDiscipline, Typed, TypeOK
<1>5. ~locked => ~RequestHolds(r)
  BY DEF LockDiscipline
<1>6. place \in Places /\ stopper' = stopper
  BY DEF Places, StopInstance
<1> QED BY <1>2, <1>3, <1>4, <1>5, <1>6 DEF LockStep, SameSection, EntersSection

\* What StopInstanceLock leaves: requests that touch no watcher.
LEMMA PlainLock ==
  ASSUME Typed, LockDiscipline, NEW r \in Requests, NEW place \in Places,
         Goto(r, place), UNCHANGED <<watcher, stopper>>,
         \/ locked' = locked /\ (pc[r] \in LockedPlaces <=> place \in LockedPlaces)
         \/ ~locked /\ locked' = TRUE /\ place \in LockedPlaces
         \/ pc[r] \in LockedPlaces /\ locked' = FALSE /\ place \notin LockedPlaces
  PROVE  LockStep(r)
<1>1. pc' = [pc EXCEPT ![r] = place] /\ pc'[r] = place
  BY DEF Goto, Typed, TypeOK
<1>2. \A b \in Requests : WatcherHolds(b)' <=> WatcherHolds(b)
  BY DEF WatcherHolds
<1>3. ~locked => ~RequestHolds(r)
  BY DEF LockDiscipline
<1>4. (RequestHolds(r) <=> pc[r] \in LockedPlaces)
      /\ (RequestHolds(r)' <=> place \in LockedPlaces)
  BY <1>1 DEF RequestHolds
<1> QED BY <1>1, <1>2, <1>3, <1>4 DEF LockStep, SameSection, EntersSection, LeavesSection

LEMMA RequestStepLock ==
  ASSUME Typed, LockDiscipline, NEW r \in Requests, RequestStep(r)
  PROVE  LockStep(r)
<1> USE DEF LockedPlaces, Places, Stopping, AfterStop, Move, Fail, AwaitEvents, Claim,
            registryVars
<1>1. ASSUME NEW m \in Models \cup {None}, Arrive(r, m) PROVE LockStep(r)
  BY <1>1, PlainLock DEF Arrive
<1>2. CASE EnsureRunning(r)
  BY <1>2, PlainLock DEF EnsureRunning
<1>3. CASE FallbackModel(r)
  BY <1>3, PlainLock DEF FallbackModel
<1>4. CASE StartSettled(r)
  BY <1>4, PlainLock DEF StartSettled
<1>5. CASE PrepareStart(r)
  BY <1>5, PlainLock DEF PrepareStart, FailUnlock
<1>6. CASE EvictIfNeeded(r)
  BY <1>6, PlainLock, StopInstanceLock DEF EvictIfNeeded, RequestHolds
<1>7. CASE AnyStartSettled(r)
  BY <1>7, PlainLock DEF AnyStartSettled
<1>8. CASE Drained(r)
  BY <1>8, PlainLock DEF Drained
<1>9. CASE Decide(r)
  BY <1>9, PlainLock, StopInstanceLock DEF Decide, RequestHolds
<1>10. CASE BeginStart(r)
  BY <1>10, PlainLock DEF BeginStart, FailUnlock
<1>11. CASE Spawn(r)
  BY <1>11, PlainLock DEF Spawn, FailUnlock
<1>12. CASE HealthSettles(r)
  BY <1>12, PlainLock DEF HealthSettles
<1>13. CASE StopReturns(r)
  <2>1. CASE pc[r] = "stopThenFail"
    BY <1>13, <2>1, PlainLock DEF StopReturns
  <2>2. CASE pc[r] # "stopThenFail"
    <3>1. /\ AfterStop[pc[r]] \in {"prepare", "evict", "begin"}
          /\ Goto(r, AfterStop[pc[r]]) /\ UNCHANGED <<locked, watcher, stopper>>
      BY <1>13, <2>2 DEF StopReturns
    <3> QED BY <1>13, <3>1, PlainLock DEF StopReturns
  <2> QED BY <2>1, <2>2
<1>14. CASE Finish(r)
  BY <1>14, PlainLock DEF Finish
<1>15. CASE EnsureRunningLocked(r)
  BY <1>15, PlainLock, StopInstanceLock DEF EnsureRunningLocked
<1>16. CASE Relock(r)
  BY <1>16, PlainLock DEF Relock
<1>17. CASE Resume(r)
  <2>1. CASE StopInstance(r, model[r], "stopThenFail")
    BY <1>17, <2>1, StopInstanceLock DEF Resume
  <2>2. CASE Fail(r) /\ UNCHANGED <<locked, watcher, stopper>>
    BY <1>17, <2>2, PlainLock DEF Resume
  <2>3. CASE /\ watcher' = [watcher EXCEPT ![r] = "sleep"]
             /\ Goto(r, "claimed")
             /\ UNCHANGED <<locked, stopper>>
    <3>1. \A b \in Requests : ~WatcherHolds(b)
      BY <1>17 DEF Resume, LockDiscipline
    <3>2. \A b \in Requests : WatcherHolds(b)' <=> WatcherHolds(b)
      BY <2>3, <3>1 DEF WatcherHolds, Typed, TypeOK
    <3>3. SameSection(r)
      BY <1>17, <2>3 DEF Resume, SameSection, RequestHolds, Goto, Typed, TypeOK
    <3> QED BY <2>3, <3>2, <3>3 DEF LockStep, Goto
  <2> QED BY <1>17, <2>1, <2>2, <2>3 DEF Resume
<1>18. CASE Cancel(r)
  BY <1>18, PlainLock DEF Cancel, FailUnlock
<1> QED
  BY <1>1, <1>2, <1>3, <1>4, <1>5, <1>6, <1>7, <1>8, <1>9, <1>10, <1>11, <1>12, <1>13,
     <1>14, <1>15, <1>16, <1>17, <1>18 DEF RequestStep, Progress, AcquireLock

LEMMA WatcherStepLock ==
  ASSUME Typed, Guarded, NEW b \in Requests, WatcherStep(b)
  PROVE  LockDiscipline'
<1> USE DEF Guarded, LockDiscipline, RequestHolds, WatcherHolds, StopperHolds, Typed, TypeOK,
            taskVars
<1>1. CASE WatcherWakes(b)
  BY <1>1 DEF WatcherWakes
<1>2. CASE WatcherRelents(b)
  BY <1>2 DEF WatcherRelents
<1>3. CASE WatcherStops(b)
  <2>1. \A c \in Requests : ~WatcherHolds(c) /\ ~RequestHolds(c)
    BY <1>3 DEF WatcherStops
  <2>2. ~StopperHolds
    BY <1>3 DEF WatcherStops
  <2>3. idleTasks[model[b]] = b
    BY <1>3 DEF WatcherStops, Tracked, RegistryAgrees
  <2>4. watcher' = [c \in Requests |-> IF c = b THEN "stop" ELSE watcher[c]]
    BY <1>3, <2>3 DEF WatcherStops, Unregister
  <2>5. \A c \in Requests : watcher'[c] = "stop" <=> c = b
    BY <2>1, <2>4
  <2>6. locked' = TRUE /\ pc' = pc /\ stopper' = stopper
    BY <1>3 DEF WatcherStops
  <2> QED BY <2>1, <2>2, <2>5, <2>6
<1>4. CASE WatcherStopReturns(b)
  BY <1>4 DEF WatcherStopReturns
<1> QED BY <1>1, <1>2, <1>3, <1>4 DEF WatcherStep

LEMMA StopperStepLock ==
  ASSUME Typed, LockDiscipline, StopperStep
  PROVE  LockDiscipline'
<1> USE DEF LockDiscipline, RequestHolds, WatcherHolds, StopperHolds, Typed, TypeOK,
            taskVars
<1>1. ASSUME NEW names, StopBegins(names) PROVE LockDiscipline'
  BY <1>1 DEF StopBegins, registryVars
<1>2. CASE Stop
  BY <1>1, <1>2 DEF Stop
<1>3. ASSUME NEW m \in Models, StopModel(m) PROVE LockDiscipline'
  BY <1>1, <1>3 DEF StopModel
<1>4. CASE StopNext
  <2>1. /\ stopper.pc # "idle" /\ locked = TRUE
        /\ \A c \in Requests : watcher[c] # "stop" /\ pc[c] \notin LockedPlaces
    BY <1>4 DEF StopNext
  <2>2. pc' = pc
    BY <1>4 DEF StopNext
  <2>3. CASE UNCHANGED locked /\ stopper'.pc = "stop"
             /\ \A c \in Requests : watcher'[c] # "stop"
    BY <2>1, <2>2, <2>3
  <2>4. CASE locked' = FALSE /\ stopper'.pc = "idle" /\ watcher' = watcher
    BY <2>1, <2>2, <2>4
  <2>5. ASSUME NEW m \in stopper.names, Unregister(m, "none"), UNCHANGED locked,
               stopper' = [pc |-> "stop", names |-> stopper.names \ {m}, focus |-> registry[m]]
        PROVE  LockDiscipline'
    <3>1. \A c \in Requests : watcher'[c] # "stop"
      BY <2>1, <2>5 DEF Unregister
    <3>2. stopper'.pc = "stop"
      BY <2>5
    <3> QED BY <2>3, <2>5, <3>1, <3>2
  <2>6. stopper' = [pc |-> "idle", names |-> {}, focus |-> None] => stopper'.pc = "idle"
    OBVIOUS
  <2> QED BY <1>4, <2>4, <2>5, <2>6 DEF StopNext
<1>5. CASE StopperStopReturns
  BY <1>5 DEF StopperStopReturns
<1> QED BY <1>2, <1>3, <1>4, <1>5 DEF StopperStep

-----------------------------------------------------------------------------
LEMMA NextGuarded == Typed /\ Guarded /\ [Next]_vars => Guarded'
<1> SUFFICES ASSUME Typed, Guarded, [Next]_vars PROVE Guarded'
  OBVIOUS
<1>0. Typed' /\ LockDiscipline /\ Tracked
  BY NextTyped DEF Guarded
<1>1. ASSUME NEW r \in Requests, RequestStep(r) PROVE Guarded'
  BY <1>0, <1>1, RequestStepTracked, RequestStepLock, LockStepKeepsDiscipline DEF Guarded
<1>2. ASSUME NEW b \in Requests, WatcherStep(b) PROVE Guarded'
  BY <1>2, WatcherStepTracked, WatcherStepLock DEF Guarded
<1>3. CASE StopperStep
  BY <1>0, <1>3, StopperStepTracked, StopperStepLock DEF Guarded
<1>4. CASE UNCHANGED <<locked, registryVars, pc, model, stopper>>
  <2>1. Tracked'
    BY <1>0, <1>4, SameShrinks, StillTracked DEF registryVars
  <2>2. LockDiscipline'
    BY <1>0, <1>4 DEF LockDiscipline, RequestHolds, WatcherHolds, StopperHolds, registryVars
  <2> QED BY <2>1, <2>2 DEF Guarded
<1>5. ASSUME NEW b \in Requests, Crash(b) PROVE Guarded'
  BY <1>4, <1>5 DEF Crash, taskVars, localVars
<1>6. ASSUME NEW m \in Models, EditConfig(m) \/ ReplaceFiles(m) PROVE Guarded'
  BY <1>4, <1>6 DEF EditConfig, ReplaceFiles, taskVars, localVars
<1>7. CASE UNCHANGED vars
  BY <1>4, <1>7 DEF vars, taskVars, localVars
<1> QED BY <1>1, <1>2, <1>3, <1>5, <1>6, <1>7 DEF Next

LEMMA InitGuarded == Init => Guarded
BY DEF Init, Guarded, LockDiscipline, RequestHolds, WatcherHolds, StopperHolds, LockedPlaces,
       Stopping, AfterStop, Tracked, StartsAreTracked, AtStart, StartsFresh, RegistryAgrees

THEOREM GuardedInvariant == Spec => [](Typed /\ Guarded)
BY InitTyped, NextTyped, InitGuarded, NextGuarded, PTL DEF Spec

\* The manager lock is held by exactly the one task in a locked section, and
\* is free when there is none, whatever is cancelled while it is given up.
THEOREM LockIsDisciplined == Spec => []LockDiscipline
<1>1. Guarded => LockDiscipline
  BY DEF Guarded
<1> QED BY <1>1, GuardedInvariant, PTL

\* The start event of a model is set by the request at its start, which is
\* always there to settle it.
THEOREM EveryStartIsTracked == Spec => []StartsAreTracked
<1>1. Guarded => StartsAreTracked
  BY DEF Guarded, Tracked
<1> QED BY <1>1, GuardedInvariant, PTL

\* _start's RuntimeError is unreachable: nobody registers a model between the
\* decision to start it and the spawn of its process.
THEOREM NoStartIsRefused == Spec => []StartsFresh
<1>1. Guarded => StartsFresh
  BY DEF Guarded, Tracked
<1> QED BY <1>1, GuardedInvariant, PTL

\* _instances, _idle_tasks and _starting never disagree.
THEOREM RegistryIsConsistent == Spec => []RegistryAgrees
<1>1. Guarded => RegistryAgrees
  BY DEF Guarded, Tracked
<1> QED BY <1>1, GuardedInvariant, PTL
=============================================================================
