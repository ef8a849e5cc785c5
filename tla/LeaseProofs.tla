------------------------------ MODULE LeaseProofs ------------------------------
(***************************************************************************)
(* What ServerManagerProofs says of the manager's maps, carried to the     *)
(* processes: none is forgotten, none unwatched, none used or saved before *)
(* it is ready.  Then what the manager owes the requests it hands slots    *)
(* to: a slot is counted as long as it is held, nothing that is held is    *)
(* stopped, the limits on loaded models and on memory are kept, and all of *)
(* it is what BackendLease promises.  For every number of requests and     *)
(* models and every set of faults.                                         *)
(***************************************************************************)
EXTENDS ServerManagerProofs, WellFoundedInduction

-----------------------------------------------------------------------------
(* The processes.                                                          *)

\* A model that is registered and no longer starting has started.
StartedIsReady ==
  \A m \in Models : registry[m] # None /\ starting[m] = None =>
    registry[m] \in ready /\ idleTasks[m] = registry[m]

\* Every process is registered or about to be terminated.
LiveIsKept ==
  \A b \in live : (\E m \in Models : registry[m] = b) \/ BeingStopped(b)

\* What its watcher stops, or its own failed start, is not registered any more.
Unregistered(b) == \A m \in Models : registry[m] # b
StoppedIsUnregistered ==
  \A b \in Requests : watcher[b] = "stop" \/ pc[b] = "stopThenFail" => Unregistered(b)

Kept == /\ StartedIsReady /\ ReadyIsWatched /\ ClaimsAreReady /\ SavesOnlyReady
        /\ LiveIsKept /\ StoppedIsUnregistered

-----------------------------------------------------------------------------
(* The kinds of steps.                                                     *)

\* A step that leaves the manager's maps and every stop in progress alone.
LEMMA PlainKept ==
  ASSUME Typed, Kept, UNCHANGED <<registryVars, stopper>>, live' \subseteq live, ready' = ready,
         \A s \in Requests : pc[s] \in Stopping => pc'[s] = pc[s] /\ focus'[s] = focus[s],
         \A s \in Requests : pc'[s] \in Stopping => pc[s] \in Stopping,
         \A s \in Requests : slot'[s] # None => slot'[s] \in ready
  PROVE  Kept'
<1> USE DEF Kept, registryVars
<1>1. StartedIsReady' /\ SavesOnlyReady'
  BY DEF StartedIsReady, SavesOnlyReady
<1>2. ReadyIsWatched'
  BY DEF ReadyIsWatched, IsRunning
<1>3. ClaimsAreReady'
  BY DEF ClaimsAreReady
<1>4. LiveIsKept'
  BY DEF LiveIsKept, BeingStopped
<1>5. StoppedIsUnregistered'
  <2>1. \A s \in Requests : pc'[s] = "stopThenFail" => pc[s] = "stopThenFail"
    BY DEF Stopping, AfterStop
  <2> QED
    BY <2>1 DEF StoppedIsUnregistered, Unregistered
<1> QED BY <1>1, <1>2, <1>3, <1>4, <1>5

\* The head of _stop_instance(m) takes m's entries and nobody else's.
LEMMA UnregisterKept ==
  ASSUME Typed, Tracked, Kept, NEW m \in Models, NEW stay \in {"none", "stop"},
         Unregister(m, stay), UNCHANGED <<starting, live, ready>>
  PROVE  /\ StartedIsReady' /\ ReadyIsWatched' /\ SavesOnlyReady'
         /\ \A x \in Models : registry'[x] = IF x = m THEN None ELSE registry[x]
         /\ \A b \in Requests : watcher[b] = "stop" => watcher'[b] = "stop"
         /\ \A b \in Requests : watcher'[b] = "stop" => watcher[b] = "stop" \/ b = idleTasks[m]
<1> USE DEF Typed, TypeOK, Kept
<1>1. \A x \in Models : /\ registry'[x] = IF x = m THEN None ELSE registry[x]
                        /\ idleTasks'[x] = IF x = m THEN None ELSE idleTasks[x]
  BY DEF Unregister
<1>2. \A b \in Requests : watcher'[b] = IF b = idleTasks[m] THEN stay ELSE watcher[b]
  BY DEF Unregister
<1>3. StartedIsReady'
  BY <1>1 DEF StartedIsReady
<1>4. ReadyIsWatched'
  <2> SUFFICES ASSUME NEW x \in Models, IsRunning(x)', starting'[x] = None
               PROVE  idleTasks'[x] = registry'[x] /\ watcher'[registry'[x]] # "none"
    BY DEF ReadyIsWatched
  <2>1. x # m /\ registry[x] \in Requests /\ IsRunning(x) /\ starting[x] = None
    BY <1>1 DEF IsRunning, MaybeBackend
  <2>2. idleTasks[x] = registry[x] /\ watcher[registry[x]] # "none"
    BY <2>1 DEF ReadyIsWatched
  <2>3. registry[x] # idleTasks[m]
    BY <2>1 DEF Tracked, RegistryAgrees, IsRunning
  <2> QED BY <1>1, <1>2, <2>1, <2>2, <2>3
<1>5. SavesOnlyReady'
  BY DEF SavesOnlyReady, Unregister, StartedIsReady, IsRunning
<1>6. \A b \in Requests : watcher[b] = "stop" => b # idleTasks[m]
  BY RequestsAssumption DEF StoppedIsUnregistered, Unregistered, Tracked, RegistryAgrees
<1> QED BY <1>1, <1>2, <1>3, <1>4, <1>5, <1>6

LEMMA StopInstanceKept ==
  ASSUME Typed, Tracked, Kept, NEW r \in Requests, NEW m \in Models, NEW place \in Stopping,
         pc[r] \notin Stopping, place = "stopThenFail" => registry[m] = r,
         StopInstance(r, m, place)
  PROVE  Kept'
<1> USE DEF Typed, TypeOK
<1>1. /\ Unregister(m, "none") /\ UNCHANGED <<starting, live, ready, slot, model, stopper>>
      /\ pc' = [pc EXCEPT ![r] = place] /\ focus' = [focus EXCEPT ![r] = registry[m]]
  BY DEF StopInstance, instanceVars, Goto
<1>2. /\ StartedIsReady' /\ ReadyIsWatched' /\ SavesOnlyReady'
      /\ \A x \in Models : registry'[x] = IF x = m THEN None ELSE registry[x]
      /\ \A b \in Requests : watcher[b] = "stop" => watcher'[b] = "stop"
  BY <1>1, UnregisterKept
<1>3. \A b \in Requests : watcher'[b] = "stop" => watcher[b] = "stop"
  BY <1>1 DEF Unregister
<1>4. ClaimsAreReady'
  BY <1>1 DEF Kept, ClaimsAreReady
<1>5. LiveIsKept'
  <2> SUFFICES ASSUME NEW b \in live'
               PROVE  (\E x \in Models : registry'[x] = b) \/ BeingStopped(b)'
    BY DEF LiveIsKept
  <2>1. b \in live /\ b \in Requests
    BY <1>1
  <2>2. CASE registry[m] = b
    BY <1>1, <2>2 DEF BeingStopped
  <2>3. CASE \E x \in Models : x # m /\ registry[x] = b
    BY <1>2, <2>3
  <2>4. CASE BeingStopped(b)
    BY <1>1, <1>2, <2>1, <2>4 DEF BeingStopped
  <2> QED BY <2>1, <2>2, <2>3, <2>4 DEF Kept, LiveIsKept
<1>6. StoppedIsUnregistered'
  <2> SUFFICES ASSUME NEW b \in Requests, watcher'[b] = "stop" \/ pc'[b] = "stopThenFail"
               PROVE  \A x \in Models : registry'[x] # b
    BY DEF StoppedIsUnregistered, Unregistered
  <2>1. CASE watcher[b] = "stop" \/ pc[b] = "stopThenFail"
    BY <1>2, <2>1, RequestsAssumption DEF Kept, StoppedIsUnregistered, Unregistered
  <2>2. CASE b = r /\ place = "stopThenFail"
    BY <1>2, <2>2, RequestsAssumption DEF Tracked, RegistryAgrees
  <2> QED BY <1>1, <1>3, <2>1, <2>2
<1> QED BY <1>2, <1>4, <1>5, <1>6 DEF Kept

\* The end of a stop: the process is gone.
LEMMA TerminatedKept ==
  ASSUME Typed, Tracked, Kept, NEW b,
         Terminated(b), UNCHANGED <<registry, idleTasks, slot>>,
         \A s \in Requests : pc[s] \in Stopping => \/ focus[s] = b
                                                   \/ pc'[s] = pc[s] /\ focus'[s] = focus[s],
         \A s \in Requests : pc'[s] \in Stopping => pc[s] \in Stopping /\ pc'[s] = pc[s],
         \A s \in Requests : watcher'[s] = watcher[s] \/ (s = b /\ watcher[s] = "stop" /\ watcher'[s] = "none"),
         stopper.pc = "stop" => stopper' = stopper \/ stopper.focus = b,
         \/ starting' = starting
         \/ \E r \in Requests : pc[r] = "stopThenFail" /\ Settle(r)
  PROVE  Kept'
<1> USE DEF Typed, TypeOK, Kept
<1>1. /\ live' = live \ {b} /\ saving' \subseteq saving /\ ready' = ready
  BY DEF Terminated
<1>2. \A m \in Models : registry[m] # None /\ starting'[m] = None => starting[m] = None
  <2>1. CASE starting' = starting
    BY <2>1
  <2>2. ASSUME NEW r \in Requests, pc[r] = "stopThenFail", Settle(r), NEW m \in Models,
               registry[m] # None, starting'[m] = None
        PROVE  starting[m] = None
    <3>1. AtStart(r) /\ starting[model[r]] = r /\ Unregistered(r)
      BY <2>2 DEF AtStart, Tracked, StartsAreTracked, StoppedIsUnregistered
    <3>2. starting' = [starting EXCEPT ![model[r]] = None]
      BY <2>2 DEF Settle
    <3>3. m # model[r]
      BY <2>2, <3>1, RequestsAssumption DEF Tracked, RegistryAgrees, Unregistered
    <3> QED BY <2>2, <3>2, <3>3
  <2> QED BY <2>1, <2>2
<1>3. StartedIsReady' /\ SavesOnlyReady' /\ ClaimsAreReady'
  BY <1>1, <1>2 DEF StartedIsReady, SavesOnlyReady, ClaimsAreReady
<1>4. ReadyIsWatched'
  <2> SUFFICES ASSUME NEW m \in Models, IsRunning(m)', starting'[m] = None
               PROVE  idleTasks'[m] = registry'[m] /\ watcher'[registry'[m]] # "none"
    BY DEF ReadyIsWatched
  <2>1. registry[m] \in Requests /\ registry[m] # b /\ IsRunning(m) /\ starting[m] = None
    BY <1>1, <1>2 DEF IsRunning, MaybeBackend
  <2> QED BY <2>1 DEF ReadyIsWatched
<1>5. LiveIsKept'
  <2> SUFFICES ASSUME NEW x \in live'
               PROVE  (\E m \in Models : registry'[m] = x) \/ BeingStopped(x)'
    BY DEF LiveIsKept
  <2>1. x \in live /\ x # b /\ x \in Requests
    BY <1>1
  <2>2. CASE BeingStopped(x)
    BY <2>1, <2>2 DEF BeingStopped
  <2> QED BY <2>1, <2>2 DEF LiveIsKept
<1>6. StoppedIsUnregistered'
  <2>1. \A s \in Requests : /\ pc'[s] = "stopThenFail" => pc[s] = "stopThenFail"
                            /\ watcher'[s] = "stop" => watcher[s] = "stop"
    BY DEF Stopping, AfterStop
  <2> QED BY <2>1 DEF StoppedIsUnregistered, Unregistered
<1> QED BY <1>3, <1>4, <1>5, <1>6

-----------------------------------------------------------------------------
(* The steps.                                                              *)

\* A claim is on a backend whose start has settled.
LEMMA ClaimKept ==
  ASSUME Typed, Kept, NEW r \in Requests, NEW m \in Models, Claim(r, m), pc[r] \notin Stopping,
         IsRunning(m), starting[m] = None, UNCHANGED <<registryVars, stopper>>
  PROVE  Kept'
<1>1. registry[m] \in ready
  BY DEF Kept, StartedIsReady, IsRunning
<1>2. /\ live' = live /\ ready' = ready /\ focus' = focus
      /\ pc' = [pc EXCEPT ![r] = "claimed"] /\ slot' = [slot EXCEPT ![r] = registry[m]]
  BY DEF Claim, Goto
<1>3. "claimed" \notin Stopping
  BY DEF Stopping, AfterStop
<1> QED
  BY <1>1, <1>2, <1>3, PlainKept DEF Typed, TypeOK, Kept, ClaimsAreReady

\* A request that is not stopping anything goes elsewhere.
LEMMA GotoKept ==
  ASSUME Typed, Kept, NEW r \in Requests, NEW place, Goto(r, place), pc[r] \notin Stopping,
         place \notin Stopping, \A s \in Requests \ {r} : focus'[s] = focus[s],
         UNCHANGED <<registryVars, live, ready, slot, stopper>>
  PROVE  Kept'
BY PlainKept DEF Typed, TypeOK, Kept, ClaimsAreReady, Goto

LEMMA MoveKept ==
  ASSUME Typed, Kept, NEW r \in Requests, NEW place, Move(r, place), pc[r] \notin Stopping,
         place \notin Stopping, UNCHANGED <<registryVars, live, ready, stopper>>
  PROVE  Kept'
BY GotoKept DEF Move, localVars

LEMMA FailKept ==
  ASSUME Typed, Kept, NEW r \in Requests, Fail(r), pc[r] \notin Stopping,
         UNCHANGED <<registryVars, live, ready, stopper>>
  PROVE  Kept'
<1>1. \A s \in Requests \ {r} : focus'[s] = focus[s]
  BY DEF Fail, Typed, TypeOK
<1>2. "failed" \notin Stopping
  BY DEF Stopping, AfterStop
<1> QED BY <1>1, <1>2, GotoKept DEF Fail

LEMMA SpawnKept ==
  ASSUME Typed, LockDiscipline, Tracked, Kept, NEW r \in Requests, Spawn(r)
  PROVE  Kept'
<1> USE DEF Typed, TypeOK
<1>0. pc[r] \notin Stopping /\ pc[r] # "stopThenFail" /\ pc[r] = "spawn"
  BY DEF Spawn, Stopping, AfterStop
<1>1. CASE FailUnlock(r)
  <2>1. "failed" \notin Stopping
    BY DEF Stopping, AfterStop
  <2> QED BY <1>0, <1>1, <2>1, GotoKept DEF FailUnlock, Fail, instanceVars
<1>2. CASE ~FailUnlock(r)
  <2> DEFINE m == model[r]
  <2>1. /\ live' = live \cup {r} /\ registry' = [registry EXCEPT ![m] = r]
        /\ starting' = [starting EXCEPT ![m] = r] /\ focus' = [focus EXCEPT ![r] = r]
        /\ pc' = [pc EXCEPT ![r] = "health"]
        /\ UNCHANGED <<idleTasks, watcher, saving, ready, slot, stopper>>
    BY <1>2 DEF Spawn, Goto
  <2>2. m \in Models /\ registry[m] = None
    BY <1>0 DEF KnownModel, Tracked, StartsFresh
  <2>3. StartedIsReady'
    BY <2>1, RequestsAssumption DEF Kept, StartedIsReady
  <2>4. ReadyIsWatched'
    BY <2>1, <2>2, RequestsAssumption DEF Kept, ReadyIsWatched, StartedIsReady, IsRunning, Tracked, RegistryAgrees,
                      Unspawned
  <2>5. ClaimsAreReady' /\ SavesOnlyReady'
    BY <2>1 DEF Kept, ClaimsAreReady, SavesOnlyReady
  <2>6. LiveIsKept'
    <3> SUFFICES ASSUME NEW b \in live'
                 PROVE  (\E x \in Models : registry'[x] = b) \/ BeingStopped(b)'
      BY DEF LiveIsKept
    <3>1. CASE b = r
      BY <2>1, <2>2, <3>1
    <3>2. CASE b # r /\ BeingStopped(b)
      BY <1>0, <2>1, <3>2 DEF BeingStopped
    <3>3. CASE b # r /\ \E x \in Models : registry[x] = b
      BY <2>1, <2>2, <3>3, RequestsAssumption
    <3> QED BY <2>1, <3>1, <3>2, <3>3 DEF Kept, LiveIsKept
  <2>7. StoppedIsUnregistered'
    <3>1. watcher[r] # "stop"
      BY <1>0 DEF LockDiscipline, RequestHolds, WatcherHolds, LockedPlaces
    <3> QED BY <1>0, <2>1, <3>1 DEF Kept, StoppedIsUnregistered, Unregistered
  <2> QED BY <2>3, <2>4, <2>5, <2>6, <2>7 DEF Kept
<1> QED BY <1>1, <1>2

LEMMA ResumeKept ==
  ASSUME Typed, Tracked, Kept, NEW r \in Requests, Resume(r)
  PROVE  Kept'
<1> USE DEF Typed, TypeOK
<1> DEFINE m == model[r]
<1>0. /\ pc[r] \in {"resume", "resumeFailed"} /\ pc[r] \notin Stopping /\ AtStart(r)
      /\ m \in Models
  BY DEF Resume, Stopping, AfterStop, AtStart, KnownModel
<1>1. starting[m] = r /\ registry[m] \in {None, r} /\ idleTasks[m] = None
  BY <1>0, RequestsAssumption DEF Tracked, StartsAreTracked, RegistryAgrees
<1>2. CASE StopInstance(r, m, "stopThenFail") /\ registry[m] = r
  BY <1>0, <1>2, StopInstanceKept DEF Stopping, AfterStop
<1>3. CASE /\ registry[m] # r /\ Settle(r) /\ Fail(r)
           /\ UNCHANGED <<locked, registry, idleTasks, watcher, saving, instanceVars, stopper>>
  <2>1. /\ starting' = [starting EXCEPT ![m] = None] /\ pc' = [pc EXCEPT ![r] = "failed"]
        /\ focus' = [focus EXCEPT ![r] = None] /\ slot' = slot
        /\ UNCHANGED <<registry, idleTasks, watcher, saving, live, ready, stopper>>
    BY <1>3 DEF Settle, Fail, Goto, instanceVars
  <2>2. registry[m] = None
    BY <1>1, <1>3
  <2>3. \A x \in Models : registry[x] # None /\ starting'[x] = None => starting[x] = None
    BY <2>1, <2>2
  <2>4. StartedIsReady' /\ ClaimsAreReady' /\ SavesOnlyReady'
    BY <2>1, <2>3 DEF Kept, StartedIsReady, ClaimsAreReady, SavesOnlyReady
  <2>5. ReadyIsWatched'
    BY <2>1, <2>3 DEF Kept, ReadyIsWatched, IsRunning
  <2>6. LiveIsKept'
    BY <1>0, <2>1 DEF Kept, LiveIsKept, BeingStopped
  <2>7. StoppedIsUnregistered'
    BY <2>1 DEF Kept, StoppedIsUnregistered, Unregistered
  <2> QED BY <2>4, <2>5, <2>6, <2>7 DEF Kept
<1>4. CASE /\ registry[m] = r /\ r \in live
           /\ idleTasks' = [idleTasks EXCEPT ![m] = r] /\ watcher' = [watcher EXCEPT ![r] = "sleep"]
           /\ Settle(r) /\ ready' = ready \cup {r} /\ slot' = [slot EXCEPT ![r] = r]
           /\ focus' = [focus EXCEPT ![r] = None] /\ Goto(r, "claimed")
           /\ UNCHANGED <<registry, saving, live, stopper>>
  <2>1. /\ starting' = [starting EXCEPT ![m] = None] /\ pc' = [pc EXCEPT ![r] = "claimed"]
    BY <1>4 DEF Settle, Goto
  <2>2. StartedIsReady' /\ ClaimsAreReady' /\ SavesOnlyReady'
    BY <1>0, <1>4, <2>1 DEF Kept, StartedIsReady, ClaimsAreReady, SavesOnlyReady
  <2>3. ReadyIsWatched'
    BY <1>0, <1>4, <2>1 DEF Kept, ReadyIsWatched, IsRunning
  <2>4. watcher[r] # "stop"
    BY <1>0, <1>4 DEF Kept, StoppedIsUnregistered, Unregistered
  <2>5. LiveIsKept'
    BY <1>0, <1>4, <2>1, <2>4 DEF Kept, LiveIsKept, BeingStopped
  <2>6. StoppedIsUnregistered'
    BY <1>4, <2>1 DEF Kept, StoppedIsUnregistered, Unregistered
  <2> QED BY <2>2, <2>3, <2>5, <2>6 DEF Kept
<1> QED BY <1>2, <1>3, <1>4 DEF Resume

LEMMA StopReturnsKept ==
  ASSUME Typed, Tracked, Kept, NEW r \in Requests, pc[r] \in Stopping, NEW place,
         Terminated(focus[r]), Goto(r, place), place \notin Stopping,
         \A s \in Requests \ {r} : focus'[s] = focus[s],
         IF pc[r] = "stopThenFail" THEN Settle(r) ELSE UNCHANGED starting,
         UNCHANGED <<registry, idleTasks, watcher, slot, stopper>>
  PROVE  Kept'
<1>1. pc' = [pc EXCEPT ![r] = place]
  BY DEF Goto
<1>2. pc \in [Requests -> Places]
  BY DEF Typed, TypeOK
<1>3. \A s \in Requests : s = r \/ (pc'[s] = pc[s] /\ focus'[s] = focus[s])
  BY <1>1, <1>2
<1>4. pc'[r] = place
  BY <1>1, <1>2
<1>5. \/ starting' = starting
      \/ \E s \in Requests : pc[s] = "stopThenFail" /\ Settle(s)
  OBVIOUS
<1>6. \A s \in Requests : pc'[s] \in Stopping => pc[s] \in Stopping /\ pc'[s] = pc[s]
  BY <1>3, <1>4
<1>7. \A s \in Requests : pc[s] \in Stopping => \/ focus[s] = focus[r]
                                                \/ pc'[s] = pc[s] /\ focus'[s] = focus[s]
  BY <1>3
<1> QED BY <1>5, <1>6, <1>7, TerminatedKept

LEMMA RequestStepKept ==
  ASSUME Typed, Guarded, Kept, NEW r \in Requests, RequestStep(r)
  PROVE  Kept'
<1> USE DEF Guarded
<1> DEFINE m == model[r]
<1>a. \A place \in {"enter", "fallback", "awaitStart", "awaitLock", "prepare", "evict",
         "awaitAnyStart", "drain", "relock", "relockCancelled", "begin", "spawn",
         "health", "resume", "resumeFailed", "claimed", "done", "failed", "refused", "new"} :
         place \notin Stopping
  BY DEF Stopping, AfterStop
<1>1. ASSUME NEW x \in Models \cup {None}, Arrive(r, x) PROVE Kept'
  BY <1>a, <1>1, GotoKept DEF Arrive, instanceVars
<1>2. CASE EnsureRunning(r)
  <2>1. CASE IsReady(m) /\ Claim(r, m)
    BY <1>a, <1>2, <2>1, ClaimKept DEF EnsureRunning, IsReady, Typed, KnownModel
  <2>2. CASE ~IsReady(m)
    BY <1>a, <1>2, <2>2, GotoKept DEF EnsureRunning, AwaitEvents, Move, localVars, instanceVars
  <2> QED BY <1>2, <2>1, <2>2 DEF EnsureRunning
<1>3. CASE FallbackModel(r)
  <2>1. CASE Running = {} /\ Fail(r) /\ UNCHANGED instanceVars
    BY <1>a, <1>3, <2>1, GotoKept DEF FallbackModel, Fail, instanceVars
  <2>2. ASSUME NEW x \in FallbackModels, starting[x] = None, Claim(r, x) PROVE Kept'
    BY <1>a, <1>3, <2>2, ClaimKept DEF FallbackModel, FallbackModels, Running
  <2>3. ASSUME NEW e, AwaitEvents(r, "awaitStart", e), UNCHANGED instanceVars PROVE Kept'
    BY <1>a, <1>3, <2>3, GotoKept DEF FallbackModel, AwaitEvents, instanceVars
  <2> QED BY <1>3, <2>1, <2>2, <2>3 DEF FallbackModel
<1>4. CASE StartSettled(r)
  BY <1>a, <1>4, GotoKept DEF StartSettled, instanceVars
<1>5. CASE PrepareStart(r)
  BY <1>a, <1>5, GotoKept, FailKept DEF PrepareStart, FailUnlock, instanceVars, registryVars
<1>6. CASE EvictIfNeeded(r)
  <2>1. ASSUME NEW v \in Models, StopInstance(r, v, "stopThenEvict") PROVE Kept'
    BY <1>a, <1>6, <2>1, StopInstanceKept DEF EvictIfNeeded, Stopping, AfterStop
  <2>2. ASSUME NEW place \in {"awaitAnyStart", "drain"}, Goto(r, place),
               \A s \in Requests \ {r} : focus'[s] = focus[s],
               UNCHANGED <<registryVars, instanceVars, slot, stopper>>
        PROVE  Kept'
    BY <1>a, <1>6, <2>2, GotoKept DEF EvictIfNeeded, instanceVars
  <2>3. \A v \in Victims : v \in Models
    BY DEF Victims, IdleModels, Evictable, Running
  <2> QED
    BY <1>6, <2>1, <2>2, <2>3 DEF EvictIfNeeded, Move, localVars, AwaitEvents, Typed, TypeOK
<1>7. CASE AnyStartSettled(r) \/ Drained(r)
  BY <1>a, <1>7, GotoKept DEF AnyStartSettled, Drained, instanceVars, Typed, TypeOK
<1>8. CASE Decide(r)
  <2>1. CASE IsRunning(m) /\ starting[m] = None /\ Claim(r, m)
    BY <1>a, <1>8, <2>1, ClaimKept DEF Decide, Typed, KnownModel
  <2>2. CASE StopInstance(r, m, "stopThenBegin")
    BY <1>a, <1>8, <2>2, StopInstanceKept DEF Decide, Stopping, AfterStop, Typed, KnownModel
  <2>3. CASE Move(r, "enter") \/ Move(r, "begin")
    <3>1. pc[r] \notin Stopping
      BY <1>a, <1>8 DEF Decide
    <3>2. CASE UNCHANGED <<registryVars, instanceVars, stopper>>
      BY <1>a, <2>3, <3>1, <3>2, MoveKept DEF instanceVars
    <3> QED BY <1>8, <2>3, <3>2, <2>1, <2>2 DEF Decide
  <2> QED BY <1>8, <2>1, <2>2, <2>3 DEF Decide
<1>9. CASE BeginStart(r)
  BY <1>a, <1>9, MoveKept, FailKept DEF BeginStart, FailUnlock, instanceVars
<1>10. CASE Spawn(r)
  BY <1>10, SpawnKept
<1>11. CASE HealthSettles(r)
  BY <1>a, <1>11, GotoKept DEF HealthSettles, Move, localVars, instanceVars
<1>12. CASE StopReturns(r)
  <2>1. \A p \in Stopping : p # "stopThenFail" => AfterStop[p] \notin Stopping
    BY DEF Stopping, AfterStop
  <2>2. CASE pc[r] = "stopThenFail"
    BY <1>a, <1>12, <2>2, StopReturnsKept DEF StopReturns, Fail, Typed, TypeOK
  <2>3. CASE pc[r] # "stopThenFail"
    BY <1>12, <2>1, <2>3, StopReturnsKept DEF StopReturns, Typed, TypeOK
  <2> QED BY <2>2, <2>3
<1>13. CASE Finish(r)
  <2>1. \A s \in Requests : slot'[s] # None => slot'[s] = slot[s]
    BY <1>13 DEF Finish, Typed, TypeOK
  <2>2. \A s \in Requests : slot'[s] # None => slot'[s] \in ready
    BY <2>1 DEF Kept, ClaimsAreReady
  <2> QED BY <1>a, <1>13, <2>2, PlainKept DEF Finish, Goto, Typed, TypeOK
<1>14. CASE EnsureRunningLocked(r)
  <2>1. CASE IsRunning(m) /\ starting[m] = None /\ Claim(r, m) /\ UNCHANGED <<registryVars, stopper>>
    BY <1>a, <1>14, <2>1, ClaimKept DEF EnsureRunningLocked, Typed, KnownModel
  <2>2. CASE StopInstance(r, m, "stopThenPrepare")
    BY <1>a, <1>14, <2>2, StopInstanceKept
    DEF EnsureRunningLocked, Stopping, AfterStop, Typed, KnownModel
  <2>3. CASE /\ Move(r, "enter") \/ Move(r, "prepare") \/ Fail(r)
             /\ UNCHANGED <<registryVars, instanceVars, stopper>>
    BY <1>a, <1>14, <2>3, MoveKept, FailKept DEF EnsureRunningLocked, instanceVars
  <2> QED BY <1>14, <2>1, <2>2, <2>3 DEF EnsureRunningLocked
<1>15. CASE Relock(r)
  BY <1>a, <1>15, MoveKept, FailKept DEF Relock, instanceVars
<1>16. CASE Resume(r)
  BY <1>16, ResumeKept
<1>17. CASE Cancel(r)
  <2>1. CASE pc[r] \in Stopping
    BY <1>a, <1>17, <2>1, StopReturnsKept DEF Cancel, Fail, Typed, TypeOK
  <2>2. CASE pc[r] \notin Stopping
    <3>1. CASE Fail(r)
      BY <1>a, <1>17, <2>2, <3>1, FailKept DEF Cancel, FailUnlock, instanceVars
    <3>2. CASE Move(r, "resumeFailed")
      BY <1>a, <1>17, <2>2, <3>2, MoveKept DEF Cancel, FailUnlock, Fail, Move, instanceVars
    <3>3. CASE pc[r] \in {"awaitAnyStart", "drain", "relock"}
      <4>1. \A s \in Requests \ {r} : focus'[s] = focus[s]
        BY <1>17, <3>3 DEF Cancel, Fail, Typed, TypeOK, Stopping, AfterStop
      <4> QED BY <1>a, <1>17, <2>2, <3>3, <4>1, GotoKept DEF Cancel, instanceVars
    <3> QED BY <1>17, <2>2, <3>1, <3>2, <3>3 DEF Cancel, FailUnlock
  <2> QED BY <2>1, <2>2
<1> QED
  BY <1>1, <1>2, <1>3, <1>4, <1>5, <1>6, <1>7, <1>8, <1>9, <1>10, <1>11, <1>12, <1>13, <1>14,
     <1>15, <1>16, <1>17 DEF RequestStep, Progress, AcquireLock

LEMMA WatcherStepKept ==
  ASSUME Typed, Guarded, Kept, NEW b \in Requests, WatcherStep(b)
  PROVE  Kept'
<1> USE DEF Typed, TypeOK, Guarded
<1>1. CASE WatcherWakes(b) \/ WatcherRelents(b)
  <2>1. /\ UNCHANGED <<registry, idleTasks, starting, saving, live, ready, pc, slot, focus, stopper>>
        /\ watcher[b] \in {"sleep", "awaitLock"}
    BY <1>1 DEF WatcherWakes, WatcherRelents, taskVars, localVars, instanceVars
  <2>2. \/ Gone(b) /\ watcher' = [watcher EXCEPT ![b] = "none"]
        \/ \E w \in {"sleep", "awaitLock"} : watcher' = [watcher EXCEPT ![b] = w]
    BY <1>1 DEF WatcherWakes, WatcherRelents
  <2>3. StartedIsReady' /\ ClaimsAreReady' /\ SavesOnlyReady'
    BY <2>1 DEF Kept, StartedIsReady, ClaimsAreReady, SavesOnlyReady
  <2>4. ReadyIsWatched'
    <3> SUFFICES ASSUME NEW m \in Models, IsRunning(m)', starting'[m] = None
                 PROVE  idleTasks'[m] = registry'[m] /\ watcher'[registry'[m]] # "none"
      BY DEF ReadyIsWatched
    <3>1. registry[m] \in Requests /\ registry[m] \in live /\ starting[m] = None
      BY <2>1 DEF IsRunning, MaybeBackend
    <3>2. idleTasks[m] = registry[m] /\ watcher[registry[m]] # "none"
      BY <3>1, RequestsAssumption DEF Kept, ReadyIsWatched, IsRunning
    <3>3. registry[m] = b => ~Gone(b)
      BY <3>1, RequestsAssumption DEF Gone, Tracked, RegistryAgrees
    <3> QED BY <2>1, <2>2, <3>1, <3>2, <3>3
  <2>5. LiveIsKept'
    BY <2>1, <2>2 DEF Kept, LiveIsKept, BeingStopped
  <2>6. StoppedIsUnregistered'
    BY <2>1, <2>2 DEF Kept, StoppedIsUnregistered, Unregistered
  <2> QED BY <2>3, <2>4, <2>5, <2>6 DEF Kept
<1>2. CASE WatcherStops(b)
  <2> DEFINE m == model[b]
  <2>1. /\ m \in Models /\ registry[m] = b /\ idleTasks[m] = b
    BY <1>2, RequestsAssumption DEF WatcherStops, Gone, Tracked, RegistryAgrees
  <2>2. /\ Unregister(m, "stop")
        /\ UNCHANGED <<starting, live, ready, pc, slot, focus, stopper>>
    BY <1>2 DEF WatcherStops, taskVars, localVars
  <2>3. /\ StartedIsReady' /\ ReadyIsWatched' /\ SavesOnlyReady'
        /\ \A x \in Models : registry'[x] = IF x = m THEN None ELSE registry[x]
        /\ \A s \in Requests : watcher[s] = "stop" => watcher'[s] = "stop"
        /\ \A s \in Requests : watcher'[s] = "stop" => watcher[s] = "stop" \/ s = b
    BY <2>1, <2>2, UnregisterKept
  <2>4. watcher'[b] = "stop"
    BY <2>1, <2>2 DEF Unregister
  <2>5. ClaimsAreReady'
    BY <2>2 DEF Kept, ClaimsAreReady
  <2>6. LiveIsKept'
    <3> SUFFICES ASSUME NEW x \in live'
                 PROVE  (\E y \in Models : registry'[y] = x) \/ BeingStopped(x)'
      BY DEF LiveIsKept
    <3>1. x \in live /\ x \in Requests
      BY <2>2
    <3>2. CASE x = b
      BY <2>4, <3>2 DEF BeingStopped
    <3>3. CASE BeingStopped(x)
      BY <2>2, <2>3, <3>1, <3>3 DEF BeingStopped
    <3>4. CASE x # b /\ \E y \in Models : registry[y] = x
      BY <2>1, <2>3, <3>4
    <3> QED BY <3>1, <3>2, <3>3, <3>4 DEF Kept, LiveIsKept
  <2>7. StoppedIsUnregistered'
    <3> SUFFICES ASSUME NEW x \in Requests, watcher'[x] = "stop" \/ pc'[x] = "stopThenFail"
                 PROVE  \A y \in Models : registry'[y] # x
      BY DEF StoppedIsUnregistered, Unregistered
    <3>1. CASE watcher[x] = "stop" \/ pc[x] = "stopThenFail"
      BY <2>3, <3>1, RequestsAssumption DEF Kept, StoppedIsUnregistered, Unregistered
    <3>2. CASE x = b
      BY <2>3, <3>2, RequestsAssumption DEF Tracked, RegistryAgrees
    <3> QED BY <2>2, <2>3, <3>1, <3>2
  <2> QED BY <2>3, <2>5, <2>6, <2>7 DEF Kept
<1>3. CASE WatcherStopReturns(b)
  <2>1. /\ Terminated(b) /\ watcher[b] = "stop" /\ watcher' = [watcher EXCEPT ![b] = "none"]
        /\ UNCHANGED <<registry, idleTasks, starting, pc, focus, slot, stopper>>
    BY <1>3 DEF WatcherStopReturns, taskVars, localVars
  <2>2. \A s \in Requests : \/ watcher'[s] = watcher[s]
                            \/ s = b /\ watcher[s] = "stop" /\ watcher'[s] = "none"
    BY <2>1
  <2> QED BY <2>1, <2>2, TerminatedKept
<1> QED BY <1>1, <1>2, <1>3 DEF WatcherStep

LEMMA StopperStepKept ==
  ASSUME Typed, Guarded, Kept, StopperStep
  PROVE  Kept'
<1> USE DEF Typed, TypeOK, Guarded
<1>1. ASSUME NEW names, StopBegins(names) PROVE Kept'
  <2>1. /\ UNCHANGED <<registryVars, live, ready, pc, focus, slot>>
        /\ stopper.pc = "idle" /\ stopper'.pc = "next"
    BY <1>1 DEF StopBegins, instanceVars, taskVars, localVars
  <2>2. StartedIsReady' /\ ClaimsAreReady' /\ SavesOnlyReady' /\ ReadyIsWatched'
    BY <2>1 DEF registryVars, Kept, StartedIsReady, ClaimsAreReady, SavesOnlyReady,
                ReadyIsWatched, IsRunning
  <2>3. LiveIsKept' /\ StoppedIsUnregistered'
    BY <2>1 DEF registryVars, Kept, LiveIsKept, BeingStopped, StoppedIsUnregistered, Unregistered
  <2> QED BY <2>2, <2>3 DEF Kept
<1>2. CASE StopNext
  <2>1. stopper.pc = "next" /\ UNCHANGED <<starting, live, ready, pc, focus, slot>>
    BY <1>2 DEF StopNext, instanceVars, taskVars, localVars
  <2>2. ASSUME NEW m \in stopper.names, Unregister(m, "none"),
               stopper' = [pc |-> "stop", names |-> stopper.names \ {m}, focus |-> registry[m]]
        PROVE  Kept'
    <3>0. m \in Models
      BY <2>2
    <3>1. /\ StartedIsReady' /\ ReadyIsWatched' /\ SavesOnlyReady'
          /\ \A x \in Models : registry'[x] = IF x = m THEN None ELSE registry[x]
          /\ \A s \in Requests : watcher[s] = "stop" => watcher'[s] = "stop"
      BY <2>1, <2>2, <3>0, UnregisterKept
    <3>2. \A s \in Requests : watcher'[s] = "stop" => watcher[s] = "stop"
      BY <2>2 DEF Unregister
    <3>3. ClaimsAreReady'
      BY <2>1 DEF Kept, ClaimsAreReady
    <3>4. LiveIsKept'
      <4> SUFFICES ASSUME NEW x \in live'
                   PROVE  (\E y \in Models : registry'[y] = x) \/ BeingStopped(x)'
        BY DEF LiveIsKept
      <4>1. x \in live /\ x \in Requests
        BY <2>1
      <4>2. CASE registry[m] = x
        BY <2>2, <4>2 DEF BeingStopped
      <4>3. CASE BeingStopped(x)
        BY <2>1, <3>1, <4>1, <4>3 DEF BeingStopped
      <4>4. CASE registry[m] # x /\ \E y \in Models : registry[y] = x
        BY <3>1, <4>4
      <4> QED BY <4>1, <4>2, <4>3, <4>4 DEF Kept, LiveIsKept
    <3>5. StoppedIsUnregistered'
      BY <2>1, <3>1, <3>2, RequestsAssumption DEF Kept, StoppedIsUnregistered, Unregistered
    <3> QED BY <3>1, <3>3, <3>4, <3>5 DEF Kept
  <2>3. CASE UNCHANGED <<registry, idleTasks, watcher, saving>>
    <3>1. StartedIsReady' /\ ClaimsAreReady' /\ SavesOnlyReady' /\ ReadyIsWatched'
      BY <2>1, <2>3 DEF Kept, StartedIsReady, ClaimsAreReady, SavesOnlyReady, ReadyIsWatched,
                        IsRunning
    <3>2. LiveIsKept' /\ StoppedIsUnregistered'
      BY <2>1, <2>3 DEF Kept, LiveIsKept, BeingStopped, StoppedIsUnregistered, Unregistered
    <3> QED BY <3>1, <3>2 DEF Kept
  <2> QED BY <1>2, <2>2, <2>3 DEF StopNext
<1>3. CASE StopperStopReturns
  <2>1. /\ Terminated(stopper.focus)
        /\ UNCHANGED <<registry, idleTasks, starting, watcher, pc, focus, slot>>
    BY <1>3 DEF StopperStopReturns, taskVars, localVars
  <2> QED BY <2>1, TerminatedKept
<1> QED BY <1>1, <1>2, <1>3 DEF StopperStep, Stop, StopModel

LEMMA NextKept == Typed /\ Guarded /\ Kept /\ [Next]_vars => Kept'
<1> SUFFICES ASSUME Typed, Guarded, Kept, [Next]_vars PROVE Kept'
  OBVIOUS
<1>1. ASSUME NEW r \in Requests, RequestStep(r) PROVE Kept'
  BY <1>1, RequestStepKept
<1>2. ASSUME NEW b \in Requests, WatcherStep(b) PROVE Kept'
  BY <1>2, WatcherStepKept
<1>3. CASE StopperStep
  BY <1>3, StopperStepKept
<1>4. CASE live' \subseteq live /\ UNCHANGED <<registryVars, ready, pc, focus, slot, stopper>>
  BY <1>4, PlainKept DEF Kept, ClaimsAreReady
<1>5. ASSUME NEW b \in Requests, Crash(b) PROVE Kept'
  BY <1>4, <1>5 DEF Crash, taskVars, localVars
<1>6. ASSUME NEW m \in Models, EditConfig(m) \/ ReplaceFiles(m) PROVE Kept'
  BY <1>4, <1>6 DEF EditConfig, ReplaceFiles, taskVars, localVars
<1>7. CASE UNCHANGED vars
  BY <1>4, <1>7 DEF vars, instanceVars, taskVars, localVars
<1> QED BY <1>1, <1>2, <1>3, <1>5, <1>6, <1>7 DEF Next

LEMMA InitKept == Init => Kept
BY DEF Init, Kept, StartedIsReady, ReadyIsWatched, IsRunning, ClaimsAreReady, SavesOnlyReady,
       LiveIsKept, StoppedIsUnregistered, Unregistered

LEMMA KeptInvariant == Spec => [](Typed /\ Guarded /\ Kept)
BY InitTyped, NextTyped, InitGuarded, NextGuarded, InitKept, NextKept, PTL DEF Spec

-----------------------------------------------------------------------------
\* ensure_running and fallback_model hand out a slot only on a backend whose start completed,
\* whoever else starts, stops or evicts models meanwhile.
THEOREM ClaimsAreOnReady == Spec => []ClaimsAreReady
<1>1. Kept => ClaimsAreReady
  BY DEF Kept
<1> QED BY <1>1, KeptInvariant, PTL

\* _stop_instance never writes the prompt cache of a backend that was not yet ready, so a
\* stop that overtakes a start leaves the files it was about to restore alone.
THEOREM OnlyReadyIsSaved == Spec => []SavesOnlyReady
<1>1. Kept => SavesOnlyReady
  BY DEF Kept
<1> QED BY <1>1, KeptInvariant, PTL

\* A backend that is up and ready has its idle watcher at work: no order of crashes, stops,
\* config changes and claims makes _idle_watcher return too early.
THEOREM NothingIsUnwatched == Spec => []ReadyIsWatched
<1>1. Kept => ReadyIsWatched
  BY DEF Kept
<1> QED BY <1>1, KeptInvariant, PTL

\* Every process the manager has spawned is registered under its model or is being
\* terminated by a task that waits for its end: none is lost by a failed or cancelled start.
THEOREM NoProcessIsLost == Spec => []NoOrphan
<1>1. Typed /\ Guarded /\ Kept => NoOrphan
  <2> SUFFICES ASSUME Typed, Guarded, Kept, NEW b \in live
               PROVE  registry[model[b]] = b \/ BeingStopped(b)
    BY DEF NoOrphan
  <2>1. ASSUME NEW m \in Models, registry[m] = b PROVE registry[model[b]] = b
    <3>1. b \in Requests
      BY DEF Typed, TypeOK
    <3> QED BY <2>1, <3>1, RequestsAssumption DEF Guarded, Tracked, RegistryAgrees
  <2> QED BY <2>1 DEF Kept, LiveIsKept
<1> QED BY <1>1, KeptInvariant, PTL

-----------------------------------------------------------------------------
(* The slots.  Every step is of one of seven kinds; each property looks at *)
(* the kinds.  The memory limit is kept because room once found lasts      *)
(* until it is used.                                                       *)

\* Where a request stands before the backend it may start can be claimed.
Unclaimed == Unspawned \cup StartPlaces

\* Where a request stands that will start a backend for sure.
Committed == {"begin", "spawn", "stopThenBegin"}

ShuttingDown == stopper.pc # "idle"

-----------------------------------------------------------------------------
(* The kinds of steps.                                                     *)

\* What no step but a claim, a publication and a return does to the requests.
Onward ==
  /\ \A s \in Requests : pc'[s] \in Unspawned => pc[s] \in Unspawned
  /\ \A s \in Requests : pc'[s] \in Unclaimed => pc[s] \in Unclaimed
  /\ \A s \in Requests : pc[s] = "claimed" => pc'[s] = "claimed"
  /\ \A s \in Requests : model'[s] = model[s] \/ pc[s] = "new"
  /\ \A s \in Requests : pc'[s] \in Committed =>
       pc[s] \in Committed \/ (pc[s] = "evict" /\ ~OverBudget(s))

\* At most the process of b ends, and a start that nothing is registered for is settled.
Plain(b) ==
  /\ Onward
  /\ live' = live \ {b}
  /\ \A m \in Models : starting'[m] = starting[m] \/ registry[m] = None
  /\ ShuttingDown' = ShuttingDown
  /\ UNCHANGED <<registry, active, slot>>

\* A shutdown begins or ends.
Toggles ==
  /\ ~ShuttingDown \/ ~ShuttingDown'
  /\ UNCHANGED <<registry, starting, live, active, slot, pc, model>>

\* The head of _stop_instance(m), with the reason the code has for it.
Stoppable(m) ==
  LET b == registry[m] IN
  b # None /\ b \in live =>
    active[b] = 0 \/ pc[b] \in StartPlaces \/ (ShuttingDown /\ stopper'.pc = "stop")
TakesDown(m) ==
  /\ Onward
  /\ Stoppable(m)
  /\ registry' = [registry EXCEPT ![m] = None]
  /\ ShuttingDown' = ShuttingDown
  /\ UNCHANGED <<starting, live, active, slot, model>>

Spawns(r) ==
  /\ Onward
  /\ pc[r] = "spawn" /\ pc'[r] = "health"
  /\ live' = live \cup {r}
  /\ registry' = [registry EXCEPT ![model[r]] = r]
  /\ starting' = [starting EXCEPT ![model[r]] = r]
  /\ ShuttingDown' = ShuttingDown
  /\ UNCHANGED <<active, slot, model>>

Claims(r, m) ==
  /\ pc[r] \in Unspawned
  /\ IsRunning(m) /\ starting[m] = None
  /\ Claim(r, m)
  /\ UNCHANGED <<registry, starting, stopper>>

Publishes(r) ==
  /\ pc[r] = "resume" /\ registry[model[r]] = r /\ r \in live
  /\ starting' = [starting EXCEPT ![model[r]] = None]
  /\ active' = [active EXCEPT ![r] = @ + 1]
  /\ slot' = [slot EXCEPT ![r] = r]
  /\ pc' = [pc EXCEPT ![r] = "claimed"]
  /\ UNCHANGED <<registry, live, model, stopper>>

Returns(r) ==
  /\ pc[r] = "claimed"
  /\ active' = IF registry[model[r]] = slot[r]
               THEN [active EXCEPT ![slot[r]] = IF @ > 0 THEN @ - 1 ELSE 0]
               ELSE active
  /\ slot' = [slot EXCEPT ![r] = None]
  /\ pc' = [pc EXCEPT ![r] = "done"]
  /\ UNCHANGED <<registry, starting, live, model, stopper>>

Kinds ==
  \/ \E b \in MaybeBackend : Plain(b)
  \/ Toggles
  \/ \E m \in Models : TakesDown(m)
  \/ \E r \in Requests : Spawns(r) \/ Publishes(r) \/ Returns(r)
  \/ \E r \in Requests, m \in Models : Claims(r, m)

-----------------------------------------------------------------------------
(* Every step is of one of these kinds.                                    *)

\* The moves of one request that are nothing but moves.
Moves(p, q) ==
  /\ q \in Unspawned => p \in Unspawned
  /\ q \in Unclaimed => p \in Unclaimed
  /\ p # "claimed"
  /\ q \in Committed => p \in Committed

LEMMA GotoOnward ==
  ASSUME Typed, NEW r \in Requests, NEW q, Goto(r, q), Moves(pc[r], q), UNCHANGED model
  PROVE  Onward
BY DEF Typed, TypeOK, Goto, Onward, Moves

LEMMA GotoPlain ==
  ASSUME Typed, NEW r \in Requests, NEW q, Goto(r, q), Moves(pc[r], q),
         UNCHANGED <<model, registry, starting, live, active, slot, stopper>>
  PROVE  Kinds
<1>1. Onward
  BY GotoOnward
<1>2. live' = live \ {None} /\ None \in MaybeBackend
  BY RequestsAssumption DEF Typed, TypeOK, MaybeBackend
<1>3. Plain(None)
  BY <1>1, <1>2 DEF Plain, ShuttingDown
<1> QED BY <1>2, <1>3 DEF Kinds

\* Nothing that Onward looks at happens.
LEMMA StillOnward ==
  ASSUME UNCHANGED <<pc, model>>
  PROVE  Onward
BY DEF Onward, Unclaimed

LEMMA EndIsPlain ==
  ASSUME NEW b \in MaybeBackend, Terminated(b), Onward, ShuttingDown' = ShuttingDown,
         \A m \in Models : starting'[m] = starting[m] \/ registry[m] = None,
         UNCHANGED <<registry, slot>>
  PROVE  Kinds
BY DEF Plain, Terminated, Kinds

LEMMA StopInstanceTakesDown ==
  ASSUME Typed, Guarded, NEW r \in Requests, NEW m \in Models, NEW q \in Stopping,
         StopInstance(r, m, q), Moves(pc[r], q) \/ (q = "stopThenBegin" /\ Onward), Stoppable(m)
  PROVE  Kinds
<1>1. Onward
  BY GotoOnward DEF StopInstance
<1>2. TakesDown(m)
  BY <1>1 DEF TakesDown, StopInstance, Unregister, instanceVars, ShuttingDown
<1> QED BY <1>2 DEF Kinds

LEMMA RequestStepKinds ==
  ASSUME Typed, Guarded, Kept, NEW r \in Requests, RequestStep(r)
  PROVE  Kinds
<1> DEFINE m == model[r]
<1> USE DEF Unclaimed, Unspawned, StartPlaces, Committed, Stopping, AfterStop, Moves
<1>a. ASSUME NEW x \in Models, Claim(r, x), IsRunning(x), starting[x] = None,
             pc[r] \in {"enter", "fallback", "awaitLock", "evict"},
             UNCHANGED <<registry, starting, stopper>>
      PROVE  Kinds
  BY <1>a DEF Claims, Kinds
<1>b. ASSUME Fail(r), Moves(pc[r], "failed"),
             UNCHANGED <<registry, starting, live, active, stopper>>
      PROVE  Kinds
  BY <1>b, GotoPlain DEF Fail
<1>c. ASSUME NEW q, Move(r, q), Moves(pc[r], q),
             UNCHANGED <<registry, starting, live, active, stopper>>
      PROVE  Kinds
  BY <1>c, GotoPlain DEF Move, localVars
<1>d. m \in Models \/ pc[r] \in {"new", "fallback", "awaitStart", "failed"}
  BY DEF Typed, KnownModel
<1> USE DEF registryVars, instanceVars
<1>1. ASSUME NEW x \in Models \cup {None}, Arrive(r, x) PROVE Kinds
  <2>1. Onward
    BY <1>1 DEF Arrive, Goto, Onward, Typed, TypeOK
  <2>2. Plain(None)
    BY <1>1, <2>1, RequestsAssumption DEF Plain, Arrive, ShuttingDown, Typed, TypeOK
  <2> QED BY <2>2 DEF Kinds, MaybeBackend
<1>2. CASE EnsureRunning(r)
  <2>1. CASE IsReady(m) /\ Claim(r, m)
    BY <1>2, <2>1, <1>a, <1>d DEF EnsureRunning, IsReady
  <2>2. CASE ~IsReady(m)
    BY <1>2, <2>2, GotoPlain, <1>c DEF EnsureRunning, AwaitEvents
  <2> QED BY <1>2, <2>1, <2>2 DEF EnsureRunning
<1>3. CASE FallbackModel(r)
  <2>1. CASE Running = {} /\ Fail(r) /\ UNCHANGED instanceVars
    BY <1>3, <2>1, <1>b DEF FallbackModel
  <2>2. ASSUME NEW x \in FallbackModels, starting[x] = None, Claim(r, x) PROVE Kinds
    BY <1>3, <2>2, <1>a DEF FallbackModel, FallbackModels, Running
  <2>3. ASSUME NEW e, AwaitEvents(r, "awaitStart", e), UNCHANGED instanceVars PROVE Kinds
    BY <1>3, <2>3, GotoPlain DEF FallbackModel, AwaitEvents
  <2> QED BY <1>3, <2>1, <2>2, <2>3 DEF FallbackModel
<1>4. CASE StartSettled(r)
  BY <1>4, GotoPlain DEF StartSettled
<1>5. CASE PrepareStart(r)
  BY <1>5, <1>b, GotoPlain DEF PrepareStart, FailUnlock
<1>6. CASE EvictIfNeeded(r)
  <2>1. ASSUME NEW v \in Models, active[registry[v]] = 0, StopInstance(r, v, "stopThenEvict")
        PROVE  Kinds
    BY <1>6, <2>1, StopInstanceTakesDown DEF EvictIfNeeded, Stoppable
  <2>2. ASSUME NEW place \in {"awaitAnyStart", "drain"}, Goto(r, place),
               UNCHANGED <<registryVars, instanceVars, model, slot, stopper>>
        PROVE  Kinds
    BY <1>6, <2>2, GotoPlain DEF EvictIfNeeded
  <2>3. \A v \in Victims : v \in Models
    BY DEF Victims, IdleModels, Evictable, Running
  <2> QED BY <1>6, <2>1, <2>2, <2>3 DEF EvictIfNeeded, AwaitEvents
<1>7. CASE AnyStartSettled(r) \/ Drained(r)
  BY <1>7, GotoPlain DEF AnyStartSettled, Drained
<1>8. CASE Decide(r)
  <2>1. CASE IsRunning(m) /\ starting[m] = None /\ Claim(r, m)
    BY <1>8, <2>1, <1>a, <1>d DEF Decide
  <2>2. CASE StopInstance(r, m, "stopThenBegin") /\ ~IsRunning(m)
    <3>1. Onward
      BY <1>8, <2>2 DEF Decide, EvictionDone, StopInstance, Goto, Onward, Typed, TypeOK
    <3>2. Stoppable(m)
      BY <2>2 DEF Stoppable, IsRunning
    <3> QED BY <1>8, <1>d, <2>2, <3>1, <3>2, StopInstanceTakesDown DEF Decide
  <2>3. CASE Move(r, "begin") /\ registry[m] = None /\ UNCHANGED <<registryVars, instanceVars, stopper>>
    <3>1. Onward
      BY <1>8, <2>3 DEF Decide, EvictionDone, Move, localVars, Goto, Onward, Typed, TypeOK, IsRunning
    <3>2. Plain(None)
      BY <2>3, <3>1, RequestsAssumption DEF Plain, Move, localVars, ShuttingDown, Typed, TypeOK
    <3> QED BY <3>2 DEF Kinds, MaybeBackend
  <2>4. CASE Move(r, "enter") /\ UNCHANGED <<registryVars, instanceVars, stopper>>
    BY <1>8, <2>4, <1>c DEF Decide
  <2> QED BY <1>8, <2>1, <2>2, <2>3, <2>4 DEF Decide
<1>9. CASE BeginStart(r)
  BY <1>9, <1>b, <1>c DEF BeginStart, FailUnlock
<1>10. CASE Spawn(r)
  <2>1. CASE FailUnlock(r)
    BY <1>10, <2>1, <1>b DEF Spawn, FailUnlock
  <2>2. CASE ~FailUnlock(r)
    <3>1. Onward
      BY <1>10, <2>2 DEF Spawn, Goto, Onward, Typed, TypeOK
    <3>2. Spawns(r)
      BY <1>10, <2>2, <3>1 DEF Spawn, Spawns, Goto, ShuttingDown, Typed, TypeOK
    <3> QED BY <3>2 DEF Kinds
  <2> QED BY <2>1, <2>2
<1>11. CASE HealthSettles(r)
  BY <1>11, <1>c DEF HealthSettles
<1>12. CASE pc[r] \in Stopping /\ (StopReturns(r) \/ Cancel(r))
  <2>1. Terminated(focus[r]) /\ focus[r] \in MaybeBackend /\ UNCHANGED <<registry, slot, stopper>>
    BY <1>12 DEF StopReturns, Cancel, FailUnlock, Fail, Typed, TypeOK
  <2>2. Onward
    BY <1>12 DEF StopReturns, Cancel, FailUnlock, Fail, Goto, Onward, Typed, TypeOK
  <2>3. \A x \in Models : starting'[x] = starting[x] \/ registry[x] = None
    <3>1. CASE starting' = starting
      BY <3>1
    <3>2. CASE pc[r] = "stopThenFail" /\ Settle(r)
      <4>1. starting[m] = r /\ registry[m] \in {None, r} /\ Unregistered(r) /\ m \in Models
        BY <3>2, <1>d, RequestsAssumption
        DEF Guarded, Tracked, StartsAreTracked, RegistryAgrees, AtStart, Kept, StoppedIsUnregistered
      <4> QED BY <3>2, <4>1 DEF Settle, Unregistered, Typed, TypeOK
    <3> QED BY <1>12, <3>1, <3>2 DEF StopReturns, Cancel, FailUnlock
  <2> QED BY <2>1, <2>2, <2>3, EndIsPlain DEF ShuttingDown
<1>13. CASE Finish(r)
  BY <1>13 DEF Finish, Returns, Goto, Kinds
<1>14. CASE EnsureRunningLocked(r)
  <2>1. CASE IsRunning(m) /\ starting[m] = None /\ Claim(r, m) /\ UNCHANGED <<registryVars, stopper>>
    BY <1>14, <2>1, <1>a, <1>d DEF EnsureRunningLocked
  <2>2. CASE /\ StopInstance(r, m, "stopThenPrepare")
             /\ active[registry[m]] = 0 \/ ~IsRunning(m)
    <3>1. Stoppable(m)
      BY <2>2 DEF Stoppable, IsRunning
    <3> QED BY <1>14, <1>d, <2>2, <3>1, StopInstanceTakesDown DEF EnsureRunningLocked
  <2>3. CASE /\ Move(r, "enter") \/ Move(r, "prepare") \/ Fail(r)
             /\ UNCHANGED <<registryVars, instanceVars, stopper>>
    BY <1>14, <2>3, <1>b, <1>c DEF EnsureRunningLocked
  <2> QED BY <1>14, <2>1, <2>2, <2>3 DEF EnsureRunningLocked
<1>15. CASE Relock(r)
  BY <1>15, <1>b, <1>c DEF Relock
<1>16. CASE Resume(r)
  <2>1. starting[m] = r /\ m \in Models /\ registry[m] \in {None, r}
    BY <1>16, <1>d, RequestsAssumption DEF Resume, Guarded, Tracked, StartsAreTracked, AtStart, RegistryAgrees
  <2>2. CASE registry[m] = r /\ StopInstance(r, m, "stopThenFail")
    BY <1>16, <2>1, <2>2, StopInstanceTakesDown DEF Resume, Stoppable
  <2>3. CASE registry[m] # r /\ Settle(r) /\ Fail(r) /\ UNCHANGED <<registry, instanceVars, stopper>>
    <3>1. Onward
      BY <1>16, <2>3, GotoOnward DEF Resume, Fail
    <3>2. Plain(None)
      BY <2>1, <2>3, <3>1, RequestsAssumption
      DEF Plain, Settle, Fail, ShuttingDown, Typed, TypeOK
    <3> QED BY <3>2 DEF Kinds, MaybeBackend
  <2>4. CASE ~(registry[m] = r /\ StopInstance(r, m, "stopThenFail"))
             /\ ~(registry[m] # r /\ Settle(r) /\ Fail(r) /\ UNCHANGED <<registry, instanceVars, stopper>>)
    <3>1. Publishes(r)
      BY <1>16, <2>4 DEF Resume, Publishes, Settle, Goto
    <3> QED BY <3>1 DEF Kinds
  <2> QED BY <2>2, <2>3, <2>4
<1>17. CASE pc[r] \notin Stopping /\ Cancel(r)
  BY <1>17, <1>b, <1>c, GotoPlain DEF Cancel, FailUnlock
<1> QED
  BY <1>1, <1>2, <1>3, <1>4, <1>5, <1>6, <1>7, <1>8, <1>9, <1>10, <1>11, <1>12, <1>13, <1>14,
     <1>15, <1>16, <1>17 DEF RequestStep, Progress, AcquireLock, StopReturns

LEMMA WatcherStepKinds ==
  ASSUME Typed, Guarded, Kept, NEW b \in Requests, WatcherStep(b)
  PROVE  Kinds
<1>1. UNCHANGED <<starting, pc, model, slot, stopper>>
  BY DEF WatcherStep, WatcherWakes, WatcherRelents, WatcherStops, WatcherStopReturns, taskVars,
         localVars
<1>2. Onward
  BY <1>1, StillOnward
<1>3. CASE WatcherWakes(b) \/ WatcherRelents(b)
  <2>1. UNCHANGED <<registry, live, active>>
    BY <1>3 DEF WatcherWakes, WatcherRelents, instanceVars
  <2>2. Plain(None) /\ None \in MaybeBackend
    BY <1>1, <1>2, <2>1, RequestsAssumption DEF Plain, ShuttingDown, Typed, TypeOK, MaybeBackend
  <2> QED BY <2>2 DEF Kinds
<1>4. CASE WatcherStops(b)
  <2>1. model[b] \in Models /\ registry[model[b]] = b /\ active[b] = 0
    BY <1>4, RequestsAssumption DEF WatcherStops, Gone, Guarded, Tracked, RegistryAgrees
  <2>2. UNCHANGED <<live, active>> /\ registry' = [registry EXCEPT ![model[b]] = None]
    BY <1>4 DEF WatcherStops, Unregister
  <2>3. TakesDown(model[b])
    BY <1>1, <1>2, <2>1, <2>2 DEF TakesDown, Stoppable, ShuttingDown
  <2> QED BY <2>1, <2>3 DEF Kinds
<1>5. CASE WatcherStopReturns(b)
  BY <1>1, <1>2, <1>5, EndIsPlain DEF WatcherStopReturns, ShuttingDown, MaybeBackend
<1> QED BY <1>3, <1>4, <1>5 DEF WatcherStep

LEMMA StopperStepKinds ==
  ASSUME Typed, Guarded, StopperStep
  PROVE  Kinds
<1>1. ASSUME NEW names, StopBegins(names) PROVE Kinds
  BY <1>1 DEF StopBegins, registryVars, instanceVars, taskVars, localVars, Kinds, Toggles,
              ShuttingDown
<1>2. CASE StopNext
  <2>1. UNCHANGED <<starting, live, active, pc, model, slot>> /\ stopper.pc = "next"
    BY <1>2 DEF StopNext, instanceVars, taskVars, localVars
  <2>2. ASSUME NEW m \in stopper.names, Unregister(m, "none"),
               stopper' = [pc |-> "stop", names |-> stopper.names \ {m}, focus |-> registry[m]]
        PROVE  Kinds
    <3>1. Onward /\ m \in Models
      BY <2>1, StillOnward DEF Typed, TypeOK
    <3>2. TakesDown(m)
      BY <2>1, <2>2, <3>1 DEF TakesDown, Stoppable, ShuttingDown, Unregister
    <3> QED BY <3>1, <3>2 DEF Kinds
  <2>3. CASE registry' = registry /\ stopper'.pc = "idle"
    BY <2>1, <2>3 DEF Kinds, Toggles, ShuttingDown
  <2> QED BY <1>2, <2>2, <2>3 DEF StopNext
<1>3. CASE StopperStopReturns
  <2>1. Onward /\ UNCHANGED <<starting, registry, slot>>
    BY <1>3, StillOnward DEF StopperStopReturns, taskVars, localVars
  <2>2. stopper.focus \in MaybeBackend /\ ShuttingDown' = ShuttingDown /\ Terminated(stopper.focus)
    BY <1>3 DEF StopperStopReturns, ShuttingDown, Typed, TypeOK
  <2> QED BY <2>1, <2>2, EndIsPlain
<1> QED BY <1>1, <1>2, <1>3 DEF StopperStep, Stop, StopModel

LEMMA StepKinds ==
  ASSUME Typed, Guarded, Kept, [Next]_vars
  PROVE  Kinds
<1>1. ASSUME NEW r \in Requests, RequestStep(r) PROVE Kinds
  BY <1>1, RequestStepKinds
<1>2. ASSUME NEW b \in Requests, WatcherStep(b) PROVE Kinds
  BY <1>2, WatcherStepKinds
<1>3. CASE StopperStep
  BY <1>3, StopperStepKinds
<1>4. ASSUME NEW b \in MaybeBackend, live' = live \ {b},
             UNCHANGED <<registry, starting, active, pc, model, slot, stopper>>
      PROVE  Kinds
  BY <1>4, StillOnward DEF Plain, ShuttingDown, Kinds
<1>5. ASSUME NEW b \in Requests, Crash(b) PROVE Kinds
  BY <1>4, <1>5 DEF Crash, taskVars, localVars, registryVars, MaybeBackend
<1>6. live = live \ {None} /\ None \in MaybeBackend
  BY RequestsAssumption DEF Typed, TypeOK, MaybeBackend
<1>7. ASSUME NEW m \in Models, EditConfig(m) \/ ReplaceFiles(m) PROVE Kinds
  BY <1>4, <1>6, <1>7 DEF EditConfig, ReplaceFiles, taskVars, localVars, registryVars
<1>8. CASE UNCHANGED vars
  BY <1>4, <1>6, <1>8 DEF vars, instanceVars, taskVars, localVars, registryVars
<1> QED BY <1>1, <1>2, <1>3, <1>5, <1>7, <1>8 DEF Next

-----------------------------------------------------------------------------
(* Slots are counted, and what is held is not stopped.                     *)

\* Nobody holds a backend that cannot have been claimed yet, and a request holds one
\* while it is served only, of the model it asks for.
SlotsAreServed ==
  /\ \A b \in Requests : pc[b] \in Unclaimed => active[b] = 0 /\ Holders(b) = {}
  /\ \A r \in Requests : slot[r] # None => pc[r] = "claimed" /\ model[r] = model[slot[r]]

Counted == SlotsAreServed /\ ClaimsCounted

\* A backend that may be claimed is registered under its model and past its start.
LEMMA ClaimedBackend ==
  ASSUME Typed, Tracked, Kept, NEW m \in Models, IsRunning(m), starting[m] = None
  PROVE  /\ registry[m] \in Requests /\ registry[m] # None /\ model[registry[m]] = m
         /\ pc[registry[m]] \notin Unclaimed
<1>1. registry[m] \in Requests /\ registry[m] # None /\ model[registry[m]] = m
      /\ pc[registry[m]] \notin Unspawned
  BY RequestsAssumption DEF Tracked, RegistryAgrees, IsRunning, Typed, TypeOK
<1>2. ~AtStart(registry[m])
  BY <1>1 DEF Tracked, StartsAreTracked
<1> QED BY <1>1, <1>2 DEF Unclaimed, AtStart, StartPlaces

LEMMA HoldersFinite == \A b : IsFiniteSet(Holders(b)) /\ Cardinality(Holders(b)) \in Nat
<1> SUFFICES ASSUME NEW b PROVE IsFiniteSet(Holders(b)) /\ Cardinality(Holders(b)) \in Nat
  OBVIOUS
<1>1. IsFiniteSet(Holders(b))
  BY FS_Subset, RequestsAssumption DEF Holders
<1> QED BY <1>1, FS_CardinalityType

\* One more request holds a backend.
LEMMA HoldOneMore ==
  ASSUME NEW b \in Requests, NEW r \in Requests, slot \in [Requests -> MaybeBackend],
         slot[r] = None, slot' = [slot EXCEPT ![r] = b]
  PROVE  /\ Cardinality(Holders(b)') = Cardinality(Holders(b)) + 1
         /\ \A c \in Requests \ {b} : Holders(c)' = Holders(c)
<1>1. Holders(b)' = Holders(b) \cup {r} /\ r \notin Holders(b)
  BY RequestsAssumption DEF Holders
<1>2. Cardinality(Holders(b) \cup {r}) = Cardinality(Holders(b)) + 1
  BY <1>1, HoldersFinite, FS_AddElement
<1>3. \A c \in Requests \ {b} : Holders(c)' = Holders(c)
  BY RequestsAssumption DEF Holders
<1> QED BY <1>1, <1>2, <1>3

LEMMA HoldOneLess ==
  ASSUME NEW b \in Requests, NEW r \in Requests, slot \in [Requests -> MaybeBackend],
         slot[r] = b, slot' = [slot EXCEPT ![r] = None]
  PROVE  /\ Cardinality(Holders(b)') = Cardinality(Holders(b)) - 1
         /\ Cardinality(Holders(b)) > 0
         /\ \A c \in Requests \ {b} : Holders(c)' = Holders(c)
<1>1. Holders(b)' = Holders(b) \ {r} /\ r \in Holders(b)
  BY RequestsAssumption DEF Holders
<1>2. Cardinality(Holders(b) \ {r}) = Cardinality(Holders(b)) - 1
  BY <1>1, HoldersFinite, FS_RemoveElement
<1>3. Cardinality(Holders(b)) > 0
  BY <1>1, HoldersFinite, FS_EmptySet
<1>4. \A c \in Requests \ {b} : Holders(c)' = Holders(c)
  BY RequestsAssumption DEF Holders
<1> QED BY <1>1, <1>2, <1>3, <1>4

\* What leaves slots and counters alone and registers nothing keeps the count.
LEMMA OnwardCounted ==
  ASSUME Typed, Counted, Onward, UNCHANGED <<active, slot>>,
         \A m \in Models : registry'[m] # None => registry'[m] = registry[m]
  PROVE  Counted'
<1> USE DEF Typed, TypeOK
<1>1. \A b : Holders(b)' = Holders(b)
  BY DEF Holders
<1>2. \A b \in Requests : pc'[b] \in Unclaimed => active'[b] = 0 /\ Holders(b)' = {}
  BY <1>1 DEF Onward, Counted, SlotsAreServed
<1>3. ASSUME NEW r \in Requests, slot'[r] # None
      PROVE  pc'[r] = "claimed" /\ model'[r] = model'[slot'[r]]
  <2>1. pc[r] = "claimed" /\ model[r] = model[slot[r]] /\ slot[r] \in Requests
    BY <1>3 DEF Counted, SlotsAreServed, MaybeBackend
  <2>2. pc[slot[r]] # "new"
    BY <2>1 DEF Counted, SlotsAreServed, Holders, Unclaimed, Unspawned
  <2> QED BY <2>1, <2>2 DEF Onward
<1>4. ClaimsCounted'
  BY <1>1 DEF Counted, ClaimsCounted
<1> QED BY <1>2, <1>3, <1>4 DEF Counted, SlotsAreServed

LEMMA SpawnCounted ==
  ASSUME Typed, Tracked, Counted, NEW r \in Requests, Spawns(r)
  PROVE  Counted'
<1> USE DEF Typed, TypeOK
<1>1. active[r] = 0 /\ Holders(r) = {} /\ pc[r] # "new" /\ model[r] \in Models
  BY DEF Spawns, Counted, SlotsAreServed, Unclaimed, Unspawned, KnownModel
<1>2. \A b : Holders(b)' = Holders(b)
  BY DEF Holders, Spawns
<1>3. SlotsAreServed'
  BY <1>2 DEF Spawns, Onward, Counted, SlotsAreServed
<1>4. ClaimsCounted'
  BY <1>1, <1>2, FS_EmptySet DEF Spawns, Counted, ClaimsCounted
<1> QED BY <1>3, <1>4 DEF Counted

LEMMA ClaimCounted ==
  ASSUME Typed, Tracked, Kept, Counted, NEW r \in Requests, NEW m \in Models, Claims(r, m)
  PROVE  Counted'
<1> USE DEF Typed, TypeOK
<1> DEFINE b == registry[m]
<1>1. b \in Requests /\ b # None /\ model[b] = m /\ pc[b] \notin Unclaimed
  BY ClaimedBackend DEF Claims
<1>2. pc[r] \in Unclaimed /\ b # r /\ slot[r] = None
  BY <1>1 DEF Claims, Counted, SlotsAreServed, Unclaimed, Unspawned
<1>3. /\ active' = [active EXCEPT ![b] = @ + 1] /\ slot' = [slot EXCEPT ![r] = b]
      /\ model' = [model EXCEPT ![r] = m] /\ pc' = [pc EXCEPT ![r] = "claimed"]
      /\ registry' = registry
  BY DEF Claims, Claim, Goto
<1>4. /\ Cardinality(Holders(b)') = Cardinality(Holders(b)) + 1
      /\ \A c \in Requests \ {b} : Holders(c)' = Holders(c)
  BY <1>1, <1>2, <1>3, HoldOneMore
<1>5. "claimed" \notin Unclaimed
  BY DEF Unclaimed, Unspawned, StartPlaces
<1>6. \A c \in Requests : pc'[c] \in Unclaimed => active'[c] = 0 /\ Holders(c)' = {}
  BY <1>1, <1>3, <1>4, <1>5 DEF Counted, SlotsAreServed
<1>7. ASSUME NEW s \in Requests, slot'[s] # None
      PROVE  pc'[s] = "claimed" /\ model'[s] = model'[slot'[s]]
  <2>1. CASE s = r
    BY <1>1, <1>2, <1>3, <2>1
  <2>2. CASE s # r
    <3>1. slot[s] # None /\ slot[s] \in Requests /\ slot'[s] = slot[s]
      BY <1>3, <1>7, <2>2 DEF MaybeBackend
    <3>2. slot[s] # r
      BY <1>2, <3>1 DEF Counted, SlotsAreServed, Holders
    <3> QED BY <1>3, <2>2, <3>1, <3>2 DEF Counted, SlotsAreServed
  <2> QED BY <2>1, <2>2
<1>8. ClaimsCounted'
  BY <1>1, <1>3, <1>4 DEF Counted, ClaimsCounted, MaybeBackend
<1> QED BY <1>6, <1>7, <1>8 DEF Counted, SlotsAreServed

LEMMA PublishCounted ==
  ASSUME Typed, Tracked, Counted, NEW r \in Requests, Publishes(r)
  PROVE  Counted'
<1> USE DEF Typed, TypeOK
<1>1. active[r] = 0 /\ Holders(r) = {} /\ slot[r] = None
  BY DEF Publishes, Counted, SlotsAreServed, Unclaimed, StartPlaces
<1>2. /\ Cardinality(Holders(r)') = Cardinality(Holders(r)) + 1
      /\ \A c \in Requests \ {r} : Holders(c)' = Holders(c)
  BY <1>1, HoldOneMore DEF Publishes
<1>3. "claimed" \notin Unclaimed
  BY DEF Unclaimed, Unspawned, StartPlaces
<1>4. \A c \in Requests : pc'[c] \in Unclaimed => active'[c] = 0 /\ Holders(c)' = {}
  BY <1>2, <1>3 DEF Publishes, Counted, SlotsAreServed
<1>5. \A s \in Requests : slot'[s] # None => pc'[s] = "claimed" /\ model'[s] = model'[slot'[s]]
  BY DEF Publishes, Counted, SlotsAreServed
<1>6. active'[r] = Cardinality(Holders(r)')
  BY <1>1, <1>2, FS_EmptySet DEF Publishes
<1>7. ClaimsCounted'
  BY <1>2, <1>6 DEF Publishes, Counted, ClaimsCounted, MaybeBackend
<1> QED BY <1>4, <1>5, <1>7 DEF Counted, SlotsAreServed

LEMMA ReturnCounted ==
  ASSUME Typed, Tracked, Counted, NEW r \in Requests, Returns(r)
  PROVE  Counted'
<1> USE DEF Typed, TypeOK
<1>1. /\ slot' = [slot EXCEPT ![r] = None] /\ pc' = [pc EXCEPT ![r] = "done"]
      /\ UNCHANGED <<registry, model>>
  BY DEF Returns
<1>2. "done" \notin Unclaimed
  BY DEF Unclaimed, Unspawned, StartPlaces
<1>3. \A s \in Requests : slot'[s] # None => pc'[s] = "claimed" /\ model'[s] = model'[slot'[s]]
  BY <1>1 DEF Counted, SlotsAreServed
<1>4. CASE slot[r] = None
  <2>1. active' = active /\ slot' = slot
    BY <1>1, <1>4, RequestsAssumption DEF Returns
  <2>2. \A c : Holders(c)' = Holders(c)
    BY <2>1 DEF Holders
  <2> QED BY <1>1, <1>2, <1>3, <2>1, <2>2 DEF Counted, SlotsAreServed, ClaimsCounted
<1>5. ASSUME NEW b \in Requests, b = slot[r] PROVE Counted'
  <2>1. slot[r] # None /\ model[r] = model[b]
    BY <1>5, RequestsAssumption DEF Counted, SlotsAreServed, MaybeBackend
  <2>2. /\ Cardinality(Holders(b)') = Cardinality(Holders(b)) - 1
        /\ Cardinality(Holders(b)) > 0
        /\ \A c \in Requests \ {b} : Holders(c)' = Holders(c)
    BY <1>1, <1>5, HoldOneLess
  <2>3. \A c \in Requests : c # b => active'[c] = active[c]
    BY <1>5 DEF Returns
  <2>4. pc[b] \notin Unclaimed
    <3>1. r \in Holders(b)
      BY <1>5 DEF Holders
    <3> QED BY <3>1 DEF Counted, SlotsAreServed
  <2>5. \A c \in Requests : pc'[c] \in Unclaimed => active'[c] = 0 /\ Holders(c)' = {}
    BY <1>1, <1>2, <2>2, <2>3, <2>4 DEF Counted, SlotsAreServed
  <2>6. ASSUME NEW x \in Models, NEW c \in Requests, registry[x] = c
        PROVE  active'[c] = Cardinality(Holders(c)')
    <3>1. model[c] = x /\ c # None
      BY <2>6, RequestsAssumption DEF Tracked, RegistryAgrees
    <3>2. active[c] = Cardinality(Holders(c))
      BY <2>6, <3>1 DEF Counted, ClaimsCounted
    <3>3. CASE c # b
      BY <2>2, <2>3, <3>2, <3>3
    <3>4. CASE c = b
      <4>1. registry[model[r]] = slot[r]
        BY <1>5, <2>1, <2>6, <3>1, <3>4
      <4>2. active'[c] = active[c] - 1
        BY <1>5, <2>2, <3>2, <3>4, <4>1, HoldersFinite DEF Returns
      <4> QED BY <2>2, <3>2, <3>4, <4>2
    <3> QED BY <3>3, <3>4
  <2>7. ClaimsCounted'
    BY <1>1, <2>6 DEF ClaimsCounted, MaybeBackend
  <2> QED BY <1>3, <2>5, <2>7 DEF Counted, SlotsAreServed
<1> QED BY <1>4, <1>5 DEF MaybeBackend

LEMMA KindsCounted ==
  ASSUME Typed, Tracked, Kept, Counted, Kinds
  PROVE  Counted'
<1>1. ASSUME NEW b \in MaybeBackend, Plain(b) PROVE Counted'
  BY <1>1, OnwardCounted DEF Plain
<1>2. CASE Toggles
  BY <1>2, StillOnward, OnwardCounted DEF Toggles
<1>3. ASSUME NEW m \in Models, TakesDown(m) PROVE Counted'
  <2>1. \A x \in Models : registry'[x] # None => registry'[x] = registry[x]
    BY <1>3 DEF TakesDown, Typed, TypeOK
  <2> QED BY <1>3, <2>1, OnwardCounted DEF TakesDown
<1> QED
  BY <1>1, <1>2, <1>3, SpawnCounted, PublishCounted, ReturnCounted, ClaimCounted DEF Kinds

LEMMA InitCounted == Init => Counted
<1> SUFFICES ASSUME Init PROVE Counted
  OBVIOUS
<1>1. \A b \in Requests : Holders(b) = {}
  BY RequestsAssumption DEF Init, Holders
<1> QED BY <1>1 DEF Init, Counted, SlotsAreServed, ClaimsCounted

LEMMA CountedInvariant == Spec => [](Typed /\ Guarded /\ Kept /\ Counted)
<1>1. Typed /\ Guarded /\ Kept /\ Counted /\ [Next]_vars => Counted'
  <2> SUFFICES ASSUME Typed, Guarded, Kept, Counted, [Next]_vars PROVE Counted'
    OBVIOUS
  <2>1. Guarded'
    BY NextGuarded
  <2> QED BY <2>1, StepKinds, KindsCounted DEF Guarded
<1> QED
  BY <1>1, InitTyped, NextTyped, InitGuarded, NextGuarded, InitKept, NextKept, InitCounted, PTL DEF Spec

\* active_requests counts the slots held on an instance over crashes, restarts, claims by
\* fallback_model and late request_finished calls, for any number of requests and models.
THEOREM ClaimsAreCounted == Spec => []ClaimsCounted
<1>1. Counted => ClaimsCounted
  BY DEF Counted
<1> QED BY <1>1, CountedInvariant, PTL

\* An eviction, an idle timeout, a config restart and a failed start stop only what nobody
\* holds: a live backend in use is unregistered by stop() and stop_model() alone.
THEOREM NothingInUseIsStopped == Spec => BusyIsNeverStopped
<1>1. ASSUME Typed, Guarded, Kept, Counted, Guarded', [Next]_vars,
             NEW m \in Models, registry[m] # None, registry'[m] # registry[m], registry[m] \in live
      PROVE  Holders(registry[m]) = {} \/ stopper'.pc = "stop"
  <2>1. Kinds
    BY <1>1, StepKinds
  <2>2. registry[m] \in Requests
    BY <1>1 DEF Typed, TypeOK, MaybeBackend
  <2>3. CASE \E x \in Models : TakesDown(x)
    <3>1. Stoppable(m)
      BY <1>1, <2>3 DEF TakesDown, Typed, TypeOK
    <3>2. CASE active[registry[m]] = 0
      BY <1>1, <2>2, <3>2, HoldersFinite, FS_EmptySet DEF Counted, ClaimsCounted
    <3>3. CASE pc[registry[m]] \in StartPlaces
      BY <1>1, <2>2, <3>3 DEF Counted, SlotsAreServed, Unclaimed
    <3> QED BY <1>1, <3>1, <3>2, <3>3 DEF Stoppable
  <2>4. CASE \E r \in Requests : Spawns(r)
    <3>1. PICK r \in Requests : Spawns(r)
      BY <2>4
    <3>2. registry[model[r]] = None
      BY <1>1, <3>1 DEF Spawns, Guarded, Tracked, StartsFresh
    <3> QED BY <1>1, <3>1, <3>2 DEF Spawns, Typed, TypeOK
  <2> QED BY <1>1, <2>1, <2>3, <2>4 DEF Kinds, Plain, Toggles, Claims, Publishes, Returns
<1>2. Typed /\ Guarded /\ Kept /\ Counted /\ Guarded' /\ [Next]_vars
      => [\A m \in Models :
            LET b == registry[m] IN
            /\ b # None
            /\ b # registry'[m]
            /\ b \in live
            => Holders(b) = {} \/ stopper'.pc = "stop"]_vars
  BY <1>1
<1> QED BY <1>2, CountedInvariant, PTL DEF Spec, BusyIsNeverStopped

-----------------------------------------------------------------------------
(* The limit on loaded models.                                             *)

\* Whoever will start a backend for sure has room for it until it is spawned, although the
\* lock was given up while the room was made.
Roomy ==
  MaxLoaded > 0 =>
    /\ Cardinality(live) <= MaxLoaded
    /\ \A r \in Requests : pc[r] \in Committed => Cardinality(live) < MaxLoaded

LEMMA LiveFinite == Typed => IsFiniteSet(live) /\ Cardinality(live) \in Nat
<1> SUFFICES ASSUME Typed PROVE IsFiniteSet(live) /\ Cardinality(live) \in Nat
  OBVIOUS
<1>1. IsFiniteSet(live)
  BY FS_Subset, RequestsAssumption DEF Typed, TypeOK
<1> QED BY <1>1, FS_CardinalityType

\* While a request evicts, holding the lock, no stop is in progress: every process there is
\* runs a model that _evict_if_needed sees.
LEMMA LiveRegistered ==
  ASSUME Typed, Guarded, Kept, NEW r \in Requests, pc[r] = "evict"
  PROVE  \A b \in live : model[b] \in Running /\ registry[model[b]] = b
<1> USE DEF Typed, TypeOK
<1>1. /\ \A s \in Requests : pc[s] \notin Stopping /\ watcher[s] # "stop"
      /\ stopper.pc = "idle"
  BY DEF Guarded, LockDiscipline, RequestHolds, WatcherHolds, StopperHolds, LockedPlaces,
         Stopping, AfterStop
<1>2. \A b \in live : model[b] \in Running /\ registry[model[b]] = b
  <2> SUFFICES ASSUME NEW b \in live PROVE model[b] \in Running /\ registry[model[b]] = b
    OBVIOUS
  <2>1. b \in Requests /\ b # None
    BY RequestsAssumption
  <2>2. PICK m \in Models : registry[m] = b
    BY <1>1, <2>1 DEF Kept, LiveIsKept, BeingStopped
  <2>3. model[b] = m
    BY <2>1, <2>2 DEF Guarded, Tracked, RegistryAgrees
  <2> QED BY <2>1, <2>2, <2>3 DEF Running, IsRunning
<1> QED BY <1>2

LEMMA EvictionCountsAll ==
  ASSUME Typed, Guarded, Kept, NEW r \in Requests, pc[r] = "evict"
  PROVE  Cardinality(live) <= Cardinality(Running)
<1>2. \A b \in live : model[b] \in Running /\ registry[model[b]] = b
  BY LiveRegistered
<1> DEFINE f == [b \in live |-> model[b]]
<1>3. f \in Injection(live, Running)
  BY <1>2 DEF Injection, IsInjective
<1>4. IsFiniteSet(Running)
  BY FS_Subset, ModelsAssumption DEF Running
<1> QED BY <1>3, <1>4, FS_Injection

LEMMA RoomToStart ==
  ASSUME Typed, Guarded, Kept, Roomy, MaxLoaded > 0, Onward,
         NEW s \in Requests, pc'[s] \in Committed
  PROVE  Cardinality(live) < MaxLoaded
<1>1. CASE pc[s] \in Committed
  BY <1>1 DEF Roomy
<1>2. CASE pc[s] = "evict" /\ ~OverBudget(s)
  <2>1. Cardinality(live) <= Cardinality(Running)
    BY <1>2, EvictionCountsAll
  <2>2. ~(Cardinality(Running) >= MaxLoaded)
    BY <1>2 DEF OverBudget
  <2>3. IsFiniteSet(Running)
    BY FS_Subset, ModelsAssumption DEF Running
  <2> QED BY <2>1, <2>2, <2>3, LiveFinite, LimitsAssumption, FS_CardinalityType
<1> QED BY <1>1, <1>2 DEF Onward

LEMMA SameRoom ==
  ASSUME Roomy, UNCHANGED live,
         \A s \in Requests : pc'[s] \in Committed => pc'[s] = pc[s]
  PROVE  Roomy'
BY DEF Roomy

LEMMA PlainRoomy ==
  ASSUME Typed, Guarded, Kept, Roomy, NEW b \in MaybeBackend, Plain(b)
  PROVE  Roomy'
<1> SUFFICES ASSUME MaxLoaded > 0 PROVE Roomy'
  BY DEF Roomy
<1>1. /\ live' = live \ {b} /\ registry' = registry /\ Onward
      /\ Cardinality(live') = IF b \in live THEN Cardinality(live) - 1 ELSE Cardinality(live)
  BY LiveFinite, FS_RemoveElement DEF Plain
<1>2. Cardinality(live') <= Cardinality(live) /\ Cardinality(live) <= MaxLoaded
      /\ Cardinality(live) \in Nat /\ Cardinality(live') \in Nat
  <2>1. Cardinality(live) \in Nat /\ Cardinality(live) <= MaxLoaded
    BY LiveFinite DEF Roomy
  <2>2. IsFiniteSet(live')
    BY <1>1, LiveFinite, FS_RemoveElement
  <2>3. Cardinality(live') \in Nat
    BY <2>2, FS_CardinalityType
  <2> QED BY <1>1, <2>1, <2>3
<1>3. ASSUME NEW s \in Requests, pc'[s] \in Committed PROVE Cardinality(live') < MaxLoaded
  BY <1>1, <1>2, <1>3, RoomToStart, LimitsAssumption
<1>4. Cardinality(live') <= MaxLoaded
  BY <1>2, LimitsAssumption
<1> QED BY <1>3, <1>4 DEF Roomy

\* Who spawns holds the lock, so nobody else is about to start a backend.
LEMMA OnlyOneStarts ==
  ASSUME Typed, Guarded, NEW r \in Requests, Spawns(r), NEW s \in Requests
  PROVE  pc'[s] \notin Committed
<1>1. CASE s = r
  BY <1>1 DEF Spawns, Committed
<1>2. CASE s # r
  <2>1. RequestHolds(r) /\ ~RequestHolds(s)
    BY <1>2 DEF Spawns, RequestHolds, LockedPlaces, Guarded, LockDiscipline
  <2>2. pc[s] \notin Committed \cup {"evict"}
    BY <2>1 DEF Committed, RequestHolds, LockedPlaces, Stopping, AfterStop
  <2> QED
    BY <2>2 DEF Spawns, Onward, Committed, RequestHolds, LockedPlaces, Stopping, AfterStop
<1> QED BY <1>1, <1>2

LEMMA SpawnRoomy ==
  ASSUME Typed, Guarded, Roomy, NEW r \in Requests, Spawns(r)
  PROVE  Roomy'
<1> SUFFICES ASSUME MaxLoaded > 0 PROVE Roomy'
  BY DEF Roomy
<1>1. Cardinality(live) < MaxLoaded
  BY DEF Spawns, Roomy, Committed
<1>2. Cardinality(live') <= MaxLoaded
  <2>1. Cardinality(live \cup {r}) <= Cardinality(live) + 1
    BY LiveFinite, FS_AddElement
  <2>2. IsFiniteSet(live \cup {r}) /\ live' = live \cup {r}
    BY LiveFinite, FS_AddElement DEF Spawns
  <2> QED BY <1>1, <2>1, <2>2, LiveFinite, FS_CardinalityType, LimitsAssumption
<1>3. \A s \in Requests : pc'[s] \notin Committed
  BY OnlyOneStarts
<1> QED BY <1>2, <1>3 DEF Roomy

LEMMA KindsRoomy ==
  ASSUME Typed, Guarded, Kept, Roomy, Kinds
  PROVE  Roomy'
<1> USE DEF Typed, TypeOK
<1>1. CASE Toggles
  BY <1>1, SameRoom DEF Toggles
<1>2. ASSUME NEW m \in Models, TakesDown(m) PROVE Roomy'
  <2> SUFFICES ASSUME MaxLoaded > 0 PROVE Roomy'
    BY DEF Roomy
  <2>1. \A s \in Requests : pc'[s] \in Committed => Cardinality(live) < MaxLoaded
    BY <1>2, RoomToStart DEF TakesDown
  <2> QED BY <1>2, <2>1 DEF TakesDown, Roomy
<1>3. "claimed" \notin Committed /\ "done" \notin Committed
  BY DEF Committed
<1>4. ASSUME NEW r \in Requests, Publishes(r) \/ Returns(r) PROVE Roomy'
  BY <1>3, <1>4, SameRoom DEF Publishes, Returns
<1>5. ASSUME NEW r \in Requests, NEW m \in Models, Claims(r, m) PROVE Roomy'
  BY <1>3, <1>5, SameRoom DEF Claims, Claim, Goto
<1> QED BY <1>1, <1>2, <1>4, <1>5, PlainRoomy, SpawnRoomy DEF Kinds

LEMMA InitRoomy == Init => Roomy
BY FS_EmptySet, LimitsAssumption DEF Init, Roomy, Committed

Sound == Typed /\ Guarded /\ Kept /\ Counted /\ Roomy

LEMMA SoundInvariant == Spec => []Sound
<1>1. Typed /\ Guarded /\ Kept /\ Roomy /\ [Next]_vars => Roomy'
  <2> SUFFICES ASSUME Typed, Guarded, Kept, Roomy, [Next]_vars PROVE Roomy'
    OBVIOUS
  <2>1. Guarded'
    BY NextGuarded
  <2> QED BY <2>1, StepKinds, KindsRoomy
<1> QED
  BY <1>1, InitRoomy, CountedInvariant, PTL DEF Spec, Sound

\* _evict_if_needed keeps max_loaded_models, counting the processes still being stopped,
\* although it gives the lock up to drain a victim and to wait for a start.
THEOREM LimitIsKept == Spec => []CountBudget
<1>1. Sound => CountBudget
  BY DEF Sound, Roomy, CountBudget
<1> QED BY <1>1, SoundInvariant, PTL

-----------------------------------------------------------------------------
(* Sums of sizes, counted: the sum of f over S is the number of S's units.  *)

Units(S, f) == UNION {{x} \X (1..f[x]) : x \in S}

LEMMA UnitsFinite ==
  ASSUME NEW S, IsFiniteSet(S), NEW f, \A x \in S : f[x] \in Nat
  PROVE  IsFiniteSet(Units(S, f)) /\ Cardinality(Units(S, f)) \in Nat
<1> DEFINE column(x) == {x} \X (1..f[x])
           columns == {column(x) : x \in S}
<1>1. ASSUME NEW x \in S PROVE IsFiniteSet(column(x))
  <2>1. f[x] \in Int /\ 1 \in Int
    OBVIOUS
  <2>2. IsFiniteSet({x})
    BY FS_Singleton
  <2>3. IsFiniteSet(1..f[x])
    BY <2>1, FS_Interval
  <2> QED
    BY <2>2, <2>3, FS_Product
<1>2. IsFiniteSet(columns)
  <2> DEFINE F == [x \in S |-> column(x)]
  <2>1. F \in Surjection(S, columns)
    BY DEF Surjection
  <2> QED
    BY <2>1, FS_Surjection
<1>3. IsFiniteSet(UNION columns)
  BY <1>1, <1>2, FS_UNION
<1> QED
  BY <1>3, FS_CardinalityType DEF Units

LEMMA OneMore ==
  ASSUME NEW S, IsFiniteSet(S), NEW f, \A x \in S : f[x] \in Nat, NEW y \in S
  PROVE  Cardinality(Units(S, f)) = f[y] + Cardinality(Units(S \ {y}, f))
<1> DEFINE column == {y} \X (1..f[y])
           rest == Units(S \ {y}, f)
<1>1. IsFiniteSet(S \ {y})
  BY FS_Subset
<1>2. IsFiniteSet(rest) /\ Cardinality(rest) \in Nat
  BY <1>1, UnitsFinite
<1>3. IsFiniteSet(column) /\ Cardinality(column) = f[y]
  <2>1. f[y] \in Nat /\ 1 \in Int
    OBVIOUS
  <2>2. IsFiniteSet({y}) /\ Cardinality({y}) = 1
    BY FS_Singleton
  <2>3. IsFiniteSet(1..f[y]) /\ Cardinality(1..f[y]) = f[y]
    BY <2>1, FS_Interval
  <2>4. IsFiniteSet(column) /\ Cardinality(column) = Cardinality({y}) * Cardinality(1..f[y])
    BY <2>2, <2>3, FS_Product
  <2> QED
    BY <2>1, <2>2, <2>3, <2>4
<1>4. Units(S, f) = column \cup rest /\ column \cap rest = {}
  BY DEF Units
<1>5. Cardinality(Units(S, f)) = Cardinality(column) + Cardinality(rest) - Cardinality(column \cap rest)
  BY <1>2, <1>3, <1>4, FS_Union
<1>6. Cardinality(column \cap rest) = 0
  BY <1>4, FS_EmptySet
<1>7. f[y] \in Nat
  OBVIOUS
<1> HIDE DEF column
<1> QED
  BY <1>2, <1>3, <1>5, <1>6, <1>7

\* The function MapThenSumSet is defined by.
SumsUp(sum, S, f) ==
  sum = [s \in SUBSET S |->
           IF s = {} THEN 0
           ELSE f[CHOOSE x \in s : TRUE] + sum[s \ {CHOOSE x \in s : TRUE}]]

LEMMA SumExists ==
  ASSUME NEW S, IsFiniteSet(S), NEW f, \A x \in S : f[x] \in Nat
  PROVE  SumsUp([s \in SUBSET S |-> Cardinality(Units(s, f))], S, f)
<1> DEFINE count == [s \in SUBSET S |-> Cardinality(Units(s, f))]
<1> SUFFICES ASSUME NEW s \in SUBSET S
             PROVE  count[s] = IF s = {} THEN 0
                               ELSE f[CHOOSE x \in s : TRUE] + count[s \ {CHOOSE x \in s : TRUE}]
  BY DEF SumsUp
<1>1. CASE s = {}
  BY <1>1, FS_EmptySet DEF Units
<1>2. CASE s # {}
  <2>1. PICK y \in s : y = CHOOSE x \in s : TRUE
    BY <1>2
  <2>2. IsFiniteSet(s) /\ \A x \in s : f[x] \in Nat
    BY FS_Subset
  <2>3. Cardinality(Units(s, f)) = f[y] + Cardinality(Units(s \ {y}, f))
    BY <2>2, OneMore
  <2>4. count[s] = Cardinality(Units(s, f)) /\ count[s \ {y}] = Cardinality(Units(s \ {y}, f))
    OBVIOUS
  <2> QED
    BY <1>2, <2>1, <2>3, <2>4
<1> QED
  BY <1>1, <1>2

LEMMA SmallestNumber ==
  ASSUME NEW S, S \subseteq Nat, S # {}
  PROVE  \E x \in S : \A y \in S : x <= y
<1>1. PICK x \in S : \A y \in S : ~(<<y, x>> \in OpToRel(<, Nat))
  BY NatLessThanWellFounded, WFMin, Zenon
<1>2. \A y \in S : ~(y < x)
  BY <1>1 DEF OpToRel
<1> QED
  BY <1>2

\* There is only one such function: a smallest set on which two differ would not be empty,
\* and without the element that is chosen from it they would not differ.
LEMMA SumIsCount ==
  ASSUME NEW S, IsFiniteSet(S), NEW f, \A x \in S : f[x] \in Nat, NEW sum, SumsUp(sum, S, f)
  PROVE  sum[S] = Cardinality(Units(S, f))
<1> DEFINE Differs(s) == sum[s] # Cardinality(Units(s, f))
           sizes == {n \in Nat : \E s \in SUBSET S : Differs(s) /\ Cardinality(s) = n}
<1>1. \A s \in SUBSET S : IsFiniteSet(s) /\ Cardinality(s) \in Nat /\ \A x \in s : f[x] \in Nat
  BY FS_Subset, FS_CardinalityType
<1>2. ASSUME NEW s \in SUBSET S, Differs(s)
      PROVE  \E n \in sizes : n < Cardinality(s)
  <2>1. sum[s] = IF s = {} THEN 0
                 ELSE f[CHOOSE x \in s : TRUE] + sum[s \ {CHOOSE x \in s : TRUE}]
    BY DEF SumsUp
  <2>2. s # {}
    BY <1>2, <2>1, FS_EmptySet DEF Units
  <2>3. PICK y \in s : y = CHOOSE x \in s : TRUE
    BY <2>2
  <2>4. Cardinality(Units(s, f)) = f[y] + Cardinality(Units(s \ {y}, f))
    BY <1>1, OneMore
  <2>5. Differs(s \ {y}) /\ s \ {y} \in SUBSET S
    BY <1>2, <2>1, <2>2, <2>3, <2>4
  <2>6. Cardinality(s \ {y}) = Cardinality(s) - 1 /\ Cardinality(s \ {y}) \in Nat /\ Cardinality(s) \in Nat
    BY <1>1, FS_RemoveElement
  <2>7. Cardinality(s \ {y}) \in sizes
    BY <2>5, <2>6
  <2>8. Cardinality(s \ {y}) < Cardinality(s)
    BY <2>6
  <2> QED
    BY <2>7, <2>8, Zenon
<1>3. sizes = {}
  <2> SUFFICES ASSUME sizes # {} PROVE FALSE
    OBVIOUS
  <2>1. PICK n \in sizes : \A k \in sizes : n <= k
    BY SmallestNumber
  <2>2. PICK s \in SUBSET S : Differs(s) /\ Cardinality(s) = n
    OBVIOUS
  <2>3. PICK k \in sizes : k < n
    BY <1>2, <2>2
  <2> QED
    BY <2>1, <2>3
<1>4. ~Differs(S)
  BY <1>1, <1>3
<1> QED
  BY <1>4

\* What _evict_if_needed adds up, as units of the running models.
Counts == [m \in Running |-> est[registry[m]]]

LEMMA UsedIsCount ==
  ASSUME Typed
  PROVE  /\ UsedMemory(Running) = Cardinality(Units(Running, Counts))
         /\ IsFiniteSet(Running) /\ \A m \in Running : Counts[m] \in Nat
<1> DEFINE Sums(sum) ==
      sum = [s \in SUBSET Running |->
               IF s = {} THEN 0
               ELSE est[registry[CHOOSE x \in s : TRUE]] + sum[s \ {CHOOSE x \in s : TRUE}]]
    sum == CHOOSE iter : Sums(iter)
<1>1. UsedMemory(Running) = sum[Running]
  BY DEF UsedMemory, MapThenSumSet, MapThenFoldSet
<1>2. ASSUME NEW g PROVE Sums(g) <=> SumsUp(g, Running, Counts)
  <2>1. \A s \in SUBSET Running :
          s # {} => Counts[CHOOSE x \in s : TRUE] = est[registry[CHOOSE x \in s : TRUE]]
    <3> SUFFICES ASSUME NEW s \in SUBSET Running, s # {}
                 PROVE  Counts[CHOOSE x \in s : TRUE] = est[registry[CHOOSE x \in s : TRUE]]
      OBVIOUS
    <3>1. (CHOOSE x \in s : TRUE) \in s
      OBVIOUS
    <3> QED
      BY <3>1 DEF Counts
  <2> QED
    BY <2>1 DEF SumsUp
<1> HIDE DEF Sums
<1>3. IsFiniteSet(Running) /\ \A m \in Running : Counts[m] \in Nat
  <2>1. IsFiniteSet(Running)
    BY FS_Subset, ModelsAssumption DEF Running
  <2>2. ASSUME NEW m \in Running PROVE Counts[m] \in Nat
    <3>1. registry[m] \in Requests
      BY DEF Running, IsRunning, Typed, TypeOK
    <3> QED
      BY <3>1 DEF Counts, Typed, TypeOK
  <2> QED
    BY <2>1, <2>2
<1>4. \E g : SumsUp(g, Running, Counts)
  BY <1>3, SumExists
<1>5. \E g : Sums(g)
  BY <1>2, <1>4
<1>6. Sums(sum)
  BY <1>5
<1>7. SumsUp(sum, Running, Counts)
  BY <1>2, <1>6
<1> QED
  BY <1>1, <1>3, <1>7, SumIsCount

-----------------------------------------------------------------------------
(* The limit on memory.                                                    *)

\* The memory the processes of S take, as a number of units.
Taken(S) == Cardinality(Units(S, est))

LEMMA LoadIsCount ==
  ASSUME Typed, NEW S \in SUBSET Requests
  PROVE  Load(S) = Taken(S)
<1> DEFINE sum == CHOOSE iter : SumsUp(iter, S, est)
<1>1. Load(S) = sum[S]
  BY DEF Load, MapThenSumSet, MapThenFoldSet, SumsUp
<1>2. IsFiniteSet(S) /\ \A b \in S : est[b] \in Nat
  BY FS_Subset, RequestsAssumption DEF Typed, TypeOK
<1>3. \E g : SumsUp(g, S, est)
  BY <1>2, SumExists
<1>4. SumsUp(sum, S, est)
  BY <1>3
<1> QED
  BY <1>1, <1>2, <1>4, SumIsCount DEF Taken

\* A process that lives was spawned, so what it was estimated at stays.
LiveIsSpawned == \A b \in live : pc[b] \notin Unspawned

\* Whoever will start a backend for sure finds no process or room for what it was estimated
\* at first, until it is spawned; what lives fits, but for the growth of one process.
Room(r) == live = {} \/ Taken(live) + incoming[r] <= MaxMemory
LiveFits ==
  \/ Cardinality(live) <= 1
  \/ Taken(live) <= MaxMemory
  \/ \E b \in live : Taken(live \ {b}) + incoming[b] <= MaxMemory
RoomInMemory ==
  /\ LiveIsSpawned
  /\ MaxMemory > 0 => LiveFits /\ \A r \in Requests : pc[r] \in Committed => Room(r)

LEMMA TakenTyped ==
  ASSUME Typed, NEW S \in SUBSET Requests, NEW b
  PROVE  /\ IsFiniteSet(S) /\ Taken(S) \in Nat
         /\ Taken(S \ {b}) \in Nat /\ Taken(S \ {b}) <= Taken(S)
         /\ b \in S => Taken(S) = est[b] + Taken(S \ {b})
<1>1. /\ IsFiniteSet(S) /\ IsFiniteSet(S \ {b})
      /\ \A x \in S : est[x] \in Nat
  BY FS_Subset, RequestsAssumption DEF Typed, TypeOK
<1>2. Taken(S) \in Nat /\ Taken(S \ {b}) \in Nat
  BY <1>1, UnitsFinite DEF Taken
<1>3. CASE b \in S
  <2>1. Taken(S) = est[b] + Taken(S \ {b})
    BY <1>1, <1>3, OneMore DEF Taken
  <2> QED
    BY <1>1, <1>2, <1>3, <2>1
<1>4. CASE b \notin S
  <2>1. Taken(S \ {b}) = Taken(S)
    <3>1. S \ {b} = S
      BY <1>4
    <3> QED
      BY <3>1
  <2> QED
    BY <1>1, <1>2, <1>4, <2>1
<1> QED
  BY <1>3, <1>4

\* What _evict_if_needed adds up is what all processes take.
LEMMA EvictionAddsAll ==
  ASSUME Typed, Guarded, Kept, NEW r \in Requests, pc[r] = "evict"
  PROVE  Taken(live) <= UsedMemory(Running) /\ UsedMemory(Running) \in Nat /\ (Running = {} => live = {})
<1> DEFINE S == Units(live, est)
           T == Units(Running, Counts)
           f == [u \in S |-> <<model[u[1]], u[2]>>]
<1>1. \A b \in live : model[b] \in Running /\ registry[model[b]] = b
  BY LiveRegistered
<1>2. UsedMemory(Running) = Cardinality(T) /\ IsFiniteSet(T) /\ Cardinality(T) \in Nat
  BY UsedIsCount, UnitsFinite
<1>3. ASSUME NEW u \in S
      PROVE  /\ u[1] \in live /\ u = <<u[1], u[2]>>
             /\ <<model[u[1]], u[2]>> \in T
  <2>1. PICK b \in live : u \in {b} \X (1..est[b])
    BY DEF Units
  <2>2. u[1] = b /\ u[2] \in 1..est[b] /\ u = <<u[1], u[2]>>
    BY <2>1
  <2>3. model[b] \in Running /\ Counts[model[b]] = est[b]
    BY <1>1 DEF Counts
  <2>4. <<model[b], u[2]>> \in {model[b]} \X (1..Counts[model[b]])
    BY <2>2, <2>3
  <2> QED
    BY <2>2, <2>3, <2>4 DEF Units
<1>4. f \in [S -> T]
  BY <1>3
<1>5. \A u, v \in S : f[u] = f[v] => u = v
  <2> SUFFICES ASSUME NEW u \in S, NEW v \in S, f[u] = f[v] PROVE u = v
    OBVIOUS
  <2>1. model[u[1]] = model[v[1]] /\ u[2] = v[2]
    OBVIOUS
  <2>2. u[1] = v[1]
    BY <1>1, <1>3, <2>1
  <2> QED
    BY <1>3, <2>1, <2>2
<1>6. f \in Injection(S, T)
  BY <1>4, <1>5 DEF Injection, IsInjective
<1>7. Cardinality(S) <= Cardinality(T)
  BY <1>2, <1>6, FS_Injection
<1> QED
  BY <1>1, <1>2, <1>7 DEF Taken

LEMMA MemoryToStart ==
  ASSUME Typed, Guarded, Kept, RoomInMemory, MaxMemory > 0, Onward,
         NEW s \in Requests, pc'[s] \in Committed
  PROVE  Room(s)
<1>1. CASE pc[s] \in Committed
  BY <1>1 DEF RoomInMemory
<1>2. CASE pc[s] = "evict" /\ ~OverBudget(s)
  <2>1. Taken(live) <= UsedMemory(Running) /\ UsedMemory(Running) \in Nat /\ (Running = {} => live = {})
    BY <1>2, EvictionAddsAll
  <2>2. Running = {} \/ ~(UsedMemory(Running) + incoming[s] > MaxMemory)
    BY <1>2 DEF OverBudget
  <2>3. incoming[s] \in Nat /\ Taken(live) \in Nat
    BY TakenTyped DEF Typed, TypeOK
  <2> QED
    BY <2>1, <2>2, <2>3, LimitsAssumption DEF Room
<1> QED BY <1>1, <1>2 DEF Onward

\* An estimate is made once before eviction and once when the backend is started.
Estimated ==
  \A s \in Requests :
    /\ incoming'[s] = incoming[s] \/ (pc[s] = "prepare" /\ pc'[s] = "evict")
    /\ est'[s] = est[s] \/ pc[s] \in {"begin", "spawn"}

LEMMA StepEstimated ==
  ASSUME Typed, [Next]_vars
  PROVE  Estimated
<1> USE DEF Estimated, Typed, TypeOK
<1>1. ASSUME NEW r \in Requests, RequestStep(r) PROVE Estimated
  <2>1. CASE PrepareStart(r)
    BY <2>1 DEF PrepareStart, FailUnlock, Fail, Goto, instanceVars, configVars, sizeVars
  <2>2. CASE BeginStart(r)
    BY <2>2 DEF BeginStart, FailUnlock, Fail, Move, localVars, instanceVars, configVars, sizeVars
  <2>3. CASE Spawn(r)
    BY <2>3 DEF Spawn, FailUnlock, Fail, Goto, instanceVars, configVars, sizeVars
  <2>4. CASE UNCHANGED <<est, incoming>>
    BY <2>4
  <2> USE DEF instanceVars, configVars, sizeVars, localVars
  <2>5. ASSUME NEW m \in Models \cup {None}, Arrive(r, m) PROVE UNCHANGED <<est, incoming>>
    BY <2>5 DEF Arrive
  <2>6. CASE EnsureRunning(r) \/ FallbackModel(r) \/ StartSettled(r)
    BY <2>6 DEF EnsureRunning, FallbackModel, StartSettled, Claim, AwaitEvents, Move, Fail
  <2>7. CASE EvictIfNeeded(r) \/ AnyStartSettled(r) \/ Drained(r) \/ Decide(r)
    BY <2>7 DEF EvictIfNeeded, AnyStartSettled, Drained, Decide, StopInstance, Claim, AwaitEvents, Move
  <2>8. CASE HealthSettles(r) \/ StopReturns(r) \/ Finish(r) \/ Cancel(r)
    BY <2>8 DEF HealthSettles, StopReturns, Finish, Cancel, Terminated, FailUnlock, Move, Fail
  <2>9. CASE EnsureRunningLocked(r) \/ Relock(r) \/ Resume(r)
    BY <2>9 DEF EnsureRunningLocked, Relock, Resume, StopInstance, Claim, Move, Fail
  <2> QED
    BY <1>1, <2>1, <2>2, <2>3, <2>4, <2>5, <2>6, <2>7, <2>8, <2>9
    DEF RequestStep, Progress, AcquireLock
<1>2. CASE UNCHANGED <<est, incoming>>
  BY <1>2
<1> USE DEF instanceVars, configVars, sizeVars, taskVars, localVars
<1>3. ASSUME NEW b \in Requests, WatcherStep(b) PROVE UNCHANGED <<est, incoming>>
  BY <1>3 DEF WatcherStep, WatcherWakes, WatcherRelents, WatcherStops, WatcherStopReturns, Terminated
<1>4. CASE StopperStep
  BY <1>2, <1>4 DEF StopperStep, Stop, StopModel, StopBegins, StopNext, StopperStopReturns, Terminated
<1>5. ASSUME NEW b \in Requests, Crash(b) PROVE UNCHANGED <<est, incoming>>
  BY <1>5 DEF Crash
<1>6. ASSUME NEW m \in Models, EditConfig(m) \/ ReplaceFiles(m) PROVE UNCHANGED <<est, incoming>>
  BY <1>6 DEF EditConfig, ReplaceFiles
<1>7. CASE UNCHANGED vars
  BY <1>2, <1>7 DEF vars
<1> QED BY <1>1, <1>2, <1>3, <1>4, <1>5, <1>6, <1>7 DEF Next

\* What lives keeps its estimates.
LEMMA LiveEstimates ==
  ASSUME Typed, LiveIsSpawned, Estimated
  PROVE  /\ \A b \in live : est'[b] = est[b] /\ incoming'[b] = incoming[b]
         /\ \A S \in SUBSET live : Cardinality(Units(S, est')) = Taken(S)
<1>1. \A b \in live : est'[b] = est[b] /\ incoming'[b] = incoming[b]
  BY DEF LiveIsSpawned, Estimated, Unspawned, Typed, TypeOK
<1>2. ASSUME NEW S \in SUBSET live PROVE Cardinality(Units(S, est')) = Taken(S)
  <2>1. Units(S, est') = Units(S, est)
    BY <1>1 DEF Units
  <2> QED
    BY <2>1 DEF Taken
<1> QED BY <1>1, <1>2

\* At most a process ends, and who is to start a backend has room for it already.
LEMMA FewerInMemory ==
  ASSUME Typed, RoomInMemory, Estimated, LiveIsSpawned', NEW b, live' = live \ {b},
         MaxMemory > 0 => \A s \in Requests : pc'[s] \in Committed => Room(s)
  PROVE  RoomInMemory'
<1> SUFFICES ASSUME MaxMemory > 0 PROVE LiveFits' /\ \A s \in Requests : pc'[s] \in Committed => Room(s)'
  BY DEF RoomInMemory
<1>1. live \in SUBSET Requests /\ LiveIsSpawned /\ LiveFits
  BY DEF Typed, TypeOK, RoomInMemory
<1>2. /\ Taken(live)' = Taken(live \ {b})
      /\ \A x \in live : /\ incoming'[x] = incoming[x]
                        /\ Cardinality(Units(live \ {b, x}, est')) = Taken(live \ {b, x})
  BY <1>1, LiveEstimates DEF Taken
<1>3. Taken(live) \in Nat /\ Taken(live \ {b}) \in Nat /\ Taken(live \ {b}) <= Taken(live)
  BY <1>1, TakenTyped
<1>4. ASSUME NEW s \in Requests, pc'[s] \in Committed PROVE Room(s)'
  <2>1. Room(s) /\ incoming'[s] = incoming[s] /\ incoming[s] \in Nat
    BY <1>4 DEF Estimated, Committed, Typed, TypeOK
  <2> QED
    BY <1>2, <1>3, <2>1, LimitsAssumption DEF Room
<1>5. LiveFits'
  <2>1. CASE Cardinality(live) <= 1
    <3>1. IsFiniteSet(live) /\ live' \subseteq live
      BY <1>1, TakenTyped
    <3>2. /\ Cardinality(live') <= Cardinality(live)
          /\ Cardinality(live') \in Nat /\ Cardinality(live) \in Nat
      BY <3>1, FS_Subset, FS_CardinalityType
    <3>3. Cardinality(live') <= 1
      BY <2>1, <3>2
    <3> QED BY <3>3 DEF LiveFits
  <2>2. CASE Taken(live) <= MaxMemory
    BY <1>2, <1>3, <2>2, LimitsAssumption DEF LiveFits
  <2>3. ASSUME NEW x \in live, Taken(live \ {x}) + incoming[x] <= MaxMemory PROVE LiveFits'
    <3>1. incoming[x] \in Nat /\ Taken(live \ {x}) \in Nat
      BY <1>1, TakenTyped DEF Typed, TypeOK
    <3>2. CASE x = b
      BY <1>2, <2>3, <3>1, <3>2, LimitsAssumption DEF LiveFits
    <3>3. CASE x # b
      <4>1. (live \ {x}) \ {b} = live \ {b, x} /\ live' \ {x} = live \ {b, x}
        OBVIOUS
      <4>2. Taken(live \ {b, x}) \in Nat /\ Taken(live \ {b, x}) <= Taken(live \ {x})
        BY <1>1, <4>1, TakenTyped
      <4>3. Cardinality(Units(live' \ {x}, est')) = Taken(live \ {b, x}) /\ x \in live'
        BY <1>2, <3>3, <4>1
      <4>4. Cardinality(Units(live' \ {x}, est')) + incoming'[x] <= MaxMemory
        BY <1>2, <2>3, <3>1, <4>2, <4>3, LimitsAssumption
      <4> QED
        BY <4>3, <4>4 DEF LiveFits, Taken
    <3> QED BY <3>2, <3>3
  <2> QED BY <1>1, <2>1, <2>2, <2>3 DEF LiveFits
<1> QED BY <1>4, <1>5

LEMMA SpawnInMemory ==
  ASSUME Typed, Guarded, RoomInMemory, Estimated, NEW r \in Requests, Spawns(r)
  PROVE  RoomInMemory'
<1>1. /\ live' = live \cup {r} /\ Onward /\ pc[r] = "spawn" /\ pc'[r] = "health"
      /\ live \in SUBSET Requests /\ LiveIsSpawned
  BY DEF Spawns, RoomInMemory, Typed, TypeOK
<1>2. r \notin live /\ incoming'[r] = incoming[r]
  BY <1>1 DEF LiveIsSpawned, Unspawned, Estimated
<1>3. LiveIsSpawned'
  BY <1>1, <1>2 DEF LiveIsSpawned, Onward, Unspawned
<1>4. Cardinality(Units(live' \ {r}, est')) = Taken(live)
  <2>1. live' \ {r} = live
    BY <1>1, <1>2
  <2> QED BY <1>1, <2>1, LiveEstimates
<1>5. MaxMemory > 0 => LiveFits'
  <2> SUFFICES ASSUME MaxMemory > 0 PROVE LiveFits'
    OBVIOUS
  <2>1. Room(r)
    BY <1>1 DEF RoomInMemory, Committed
  <2>2. CASE live = {}
    <3>1. live' = {r}
      BY <1>1, <2>2
    <3>2. Cardinality({r}) = 1
      BY FS_Singleton
    <3> QED BY <3>1, <3>2 DEF LiveFits
  <2>3. CASE Taken(live) + incoming[r] <= MaxMemory
    BY <1>1, <1>2, <1>4, <2>3 DEF LiveFits, Taken
  <2> QED BY <2>1, <2>2, <2>3 DEF Room
<1>6. \A s \in Requests : pc'[s] \notin Committed
  BY OnlyOneStarts
<1> QED BY <1>3, <1>5, <1>6 DEF RoomInMemory

LEMMA KindsInMemory ==
  ASSUME Typed, Guarded, Kept, RoomInMemory, Estimated, Kinds
  PROVE  RoomInMemory'
<1>1. live \in SUBSET Requests /\ LiveIsSpawned /\ live = live \ {None}
  BY RequestsAssumption DEF RoomInMemory, Typed, TypeOK
<1>2. ASSUME Onward, NEW b, live' = live \ {b} PROVE RoomInMemory'
  <2>1. LiveIsSpawned'
    BY <1>1, <1>2 DEF LiveIsSpawned, Onward
  <2>2. MaxMemory > 0 => \A s \in Requests : pc'[s] \in Committed => Room(s)
    BY <1>2, MemoryToStart
  <2> QED
    BY <1>2, <2>1, <2>2, FewerInMemory
<1>3. ASSUME live' = live, \A s \in Requests : pc'[s] = pc[s] \/ pc'[s] \in {"claimed", "done"}
      PROVE  RoomInMemory'
  <2>1. LiveIsSpawned'
    BY <1>1, <1>3 DEF LiveIsSpawned, Unspawned
  <2>2. MaxMemory > 0 => \A s \in Requests : pc'[s] \in Committed => Room(s)
    BY <1>3 DEF RoomInMemory, Committed
  <2> QED
    BY <1>1, <1>3, <2>1, <2>2, FewerInMemory
<1>4. CASE Toggles
  BY <1>3, <1>4 DEF Toggles
<1>5. ASSUME NEW m \in Models, TakesDown(m) PROVE RoomInMemory'
  BY <1>1, <1>2, <1>5 DEF TakesDown
<1>6. ASSUME NEW r \in Requests, Publishes(r) \/ Returns(r) PROVE RoomInMemory'
  BY <1>3, <1>6 DEF Publishes, Returns, Typed, TypeOK
<1>7. ASSUME NEW r \in Requests, NEW m \in Models, Claims(r, m) PROVE RoomInMemory'
  BY <1>3, <1>7 DEF Claims, Claim, Goto, Typed, TypeOK
<1>8. ASSUME NEW b \in MaybeBackend, Plain(b) PROVE RoomInMemory'
  BY <1>2, <1>8 DEF Plain
<1> QED BY <1>4, <1>5, <1>6, <1>7, <1>8, SpawnInMemory DEF Kinds

LEMMA InitInMemory == Init => RoomInMemory
BY FS_EmptySet DEF Init, RoomInMemory, LiveIsSpawned, LiveFits, Committed

\* _evict_if_needed keeps max_memory, counting the processes still being stopped, but for
\* one model that is too large for it and runs alone, and for what the one started last has
\* grown by since room was made for it.
THEOREM MemoryIsKept == Spec => []MemoryBudget
<1>1. Typed /\ Guarded /\ Kept /\ RoomInMemory /\ [Next]_vars => RoomInMemory'
  BY StepKinds, StepEstimated, KindsInMemory
<1>2. Typed /\ RoomInMemory => MemoryBudget
  <2> SUFFICES ASSUME Typed, RoomInMemory PROVE MemoryBudget
    OBVIOUS
  <2>1. live \in SUBSET Requests
    BY DEF Typed, TypeOK
  <2>2. Load(live) = Taken(live) /\ \A b \in live : Load(live \ {b}) = Taken(live \ {b})
    BY <2>1, LoadIsCount
  <2> QED
    BY <2>2 DEF MemoryBudget, RoomInMemory, LiveFits
<1> QED
  BY <1>1, <1>2, InitInMemory, CountedInvariant, PTL DEF Spec

-----------------------------------------------------------------------------
(* The manager implements BackendLease.                                    *)

\* phase and name of BackendLease, as the manager's state gives them.
Phase == [b \in Requests |-> PhaseOf(b)]
Name == [b \in Requests |-> IF PhaseOf(b) = "off" THEN None ELSE model[b]]

\* What a backend's phase is read from.
LEMMA PhaseRead ==
  ASSUME Typed, Tracked, NEW b \in Requests
  PROVE  /\ PhaseOf(b) # "off" <=> model[b] \in Models /\ registry[model[b]] = b
         /\ PhaseOf(b) = "starting" <=>
              model[b] \in Models /\ registry[model[b]] = b /\ b \in live /\ starting[model[b]] = b
         /\ PhaseOf(b) = "ready" <=>
              model[b] \in Models /\ registry[model[b]] = b /\ b \in live /\ starting[model[b]] # b
         /\ pc[b] \in Unspawned => PhaseOf(b) = "off"
         /\ \A m \in Models : registry[m] = b => model[b] = m
BY RequestsAssumption DEF PhaseOf, Tracked, RegistryAgrees

\* A backend whose entries are what they were is in the phase it was in.
LEMMA PhaseStays ==
  ASSUME Typed, Tracked, NEW b \in Requests,
         model'[b] = model[b], model[b] \in Models => registry'[model[b]] = registry[model[b]],
         b \in live' <=> b \in live,
         model[b] \in Models => starting'[model[b]] = starting[model[b]] \/ registry[model[b]] = None
  PROVE  PhaseOf(b)' = PhaseOf(b)
BY RequestsAssumption DEF PhaseOf

LEMMA PlainPromised ==
  ASSUME Sound, NEW b \in MaybeBackend, Plain(b)
  PROVE  Promise!Next
<1> USE DEF Sound, Guarded, Typed, TypeOK
<1>1. /\ live' = live \ {b} /\ registry' = registry /\ slot' = slot /\ Onward
      /\ \A m \in Models : starting'[m] = starting[m] \/ registry[m] = None
      /\ ShuttingDown' = ShuttingDown
  BY DEF Plain
<1>2. ASSUME NEW c \in Requests, c # b \/ b \notin live \/ PhaseOf(c) = "off"
      PROVE  PhaseOf(c)' = PhaseOf(c) /\ (PhaseOf(c) # "off" => model'[c] = model[c])
  <2>1. CASE model'[c] = model[c] /\ (c # b \/ b \notin live)
    BY <1>1, <2>1, PhaseStays
  <2>2. CASE PhaseOf(c) = "off"
    <3>1. \A m \in Models : registry[m] # c
      BY <2>2, PhaseRead
    <3> QED BY <1>1, <2>2, <3>1 DEF PhaseOf
  <2>3. CASE model'[c] # model[c]
    <3>1. pc[c] \in Unspawned
      BY <1>1, <2>3 DEF Onward, Unspawned
    <3> QED BY <2>2, <3>1, PhaseRead
  <2> QED BY <1>2, <2>1, <2>2, <2>3
<1>3. CASE b \in live /\ PhaseOf(b) # "off"
  <2>1. b \in Requests /\ PhaseOf(b) \in {"starting", "ready"}
    BY <1>3 DEF PhaseOf
  <2>2. model'[b] = model[b] /\ PhaseOf(b)' = "dead"
    <3>1. pc[b] # "new"
      BY <1>3, <2>1, PhaseRead DEF Unspawned
    <3>2. model'[b] = model[b] /\ b \notin live'
      BY <1>1, <2>1, <3>1 DEF Onward
    <3> QED BY <1>1, <1>3, <3>2 DEF PhaseOf
  <2>3. Phase' = [Phase EXCEPT ![b] = "dead"]
    BY <1>2, <2>1, <2>2 DEF Phase
  <2>4. Name' = Name
    BY <1>2, <1>3, <2>1, <2>2 DEF Name
  <2>5. Promise!Die(b)
    BY <1>1, <2>1, <2>3, <2>4 DEF Promise!Die, Promise!Up, Phase, Name, ShuttingDown
  <2> QED BY <2>1, <2>5 DEF Promise!Next
<1>4. CASE ~(b \in live /\ PhaseOf(b) # "off")
  <2>1. Phase' = Phase /\ Name' = Name
    BY <1>2, <1>4 DEF Phase, Name
  <2> QED
    BY <1>1, <2>1 DEF Promise!Next, Promise!Stutter, Promise!vars, Phase, Name, ShuttingDown
<1> QED BY <1>3, <1>4

LEMMA SpawnPromised ==
  ASSUME Sound, NEW r \in Requests, Spawns(r)
  PROVE  Promise!Next
<1> USE DEF Sound, Guarded, Typed, TypeOK
<1>0. PICK m \in Models : m = model[r]
  BY DEF Spawns, KnownModel
<1>1. /\ live' = live \cup {r} /\ registry' = [registry EXCEPT ![m] = r]
      /\ starting' = [starting EXCEPT ![m] = r] /\ UNCHANGED <<slot, model>>
      /\ ShuttingDown' = ShuttingDown
  BY <1>0 DEF Spawns
<1>2. registry[m] = None /\ pc[r] \in Unspawned /\ pc[r] \in Unclaimed
  BY <1>0 DEF Spawns, KnownModel, Tracked, StartsFresh, Unclaimed, Unspawned
<1>3. PhaseOf(r) = "off" /\ PhaseOf(r)' = "starting"
  BY <1>0, <1>1, <1>2, PhaseRead, RequestsAssumption DEF PhaseOf
<1>4. ASSUME NEW c \in Requests, c # r PROVE PhaseOf(c)' = PhaseOf(c)
  <2>1. CASE model[c] = m
    BY <1>1, <1>2, <1>4, <2>1, RequestsAssumption DEF PhaseOf
  <2>2. CASE model[c] # m
    BY <1>1, <1>2, <1>4, <2>2, PhaseStays
  <2> QED BY <2>1, <2>2
<1>5. Phase' = [Phase EXCEPT ![r] = "starting"] /\ Name' = [Name EXCEPT ![r] = m]
  BY <1>0, <1>1, <1>3, <1>4 DEF Phase, Name
<1>6. \A s \in Requests : slot[s] # r
  BY <1>2 DEF Counted, SlotsAreServed, Holders
<1>7. Promise!Serving(m) = {}
  BY <1>2, PhaseRead, RequestsAssumption DEF Promise!Serving
<1>8. MaxLoaded > 0 => Promise!Cardinality(Promise!Up) < MaxLoaded
  <2>1. Promise!Up \in SUBSET live
    BY PhaseRead DEF Promise!Up
  <2>2. MaxLoaded > 0 => Cardinality(live) < MaxLoaded
    BY DEF Roomy, Spawns, Committed
  <2>3. Cardinality(Promise!Up) <= Cardinality(live) /\ IsFiniteSet(Promise!Up)
    BY <2>1, LiveFinite, FS_Subset
  <2>4. Promise!Cardinality(Promise!Up) = Cardinality(Promise!Up)
    BY DEF Cardinality, Promise!Cardinality, IsFiniteSet, Promise!IsFiniteSet
  <2> QED BY <2>2, <2>3, <2>4, LiveFinite, FS_CardinalityType, LimitsAssumption
<1>9. Promise!Launch(r, m)
  BY <1>1, <1>3, <1>5, <1>6, <1>7, <1>8 DEF Promise!Launch, Promise!Leased, Phase, Name, ShuttingDown
<1> QED BY <1>9 DEF Promise!Next

LEMMA ClaimPromised ==
  ASSUME Sound, NEW r \in Requests, NEW m \in Models, Claims(r, m)
  PROVE  Promise!Next
<1> USE DEF Sound, Guarded, Typed, TypeOK
<1>1. PICK b \in Requests : b = registry[m]
  BY ClaimedBackend DEF Claims
<1>2. /\ slot' = [slot EXCEPT ![r] = b] /\ model' = [model EXCEPT ![r] = m]
      /\ UNCHANGED <<registry, starting, live>> /\ ShuttingDown' = ShuttingDown
  BY <1>1 DEF Claims, Claim, ShuttingDown
<1>3. PhaseOf(b) = "ready" /\ b # r
  BY <1>1, ClaimedBackend, RequestsAssumption, PhaseRead DEF Claims, IsRunning, Unclaimed
<1>4. slot[r] = None
  BY DEF Claims, Counted, SlotsAreServed, Unspawned
<1>5. PhaseOf(r) = "off" /\ PhaseOf(r)' = "off"
  <2>1. PhaseOf(r) = "off"
    BY PhaseRead DEF Claims
  <2> QED BY <1>1, <1>2, <1>3, <2>1 DEF PhaseOf
<1>6. \A c \in Requests : c # r => PhaseOf(c)' = PhaseOf(c)
  BY <1>2, PhaseStays
<1>7. Phase' = Phase /\ Name' = Name
  BY <1>2, <1>5, <1>6 DEF Phase, Name
<1>8. Promise!Lease(b, r)
  BY <1>2, <1>3, <1>4, <1>7 DEF Promise!Lease, Phase, Name, ShuttingDown
<1> QED BY <1>8 DEF Promise!Next

LEMMA PublishPromised ==
  ASSUME Sound, NEW r \in Requests, Publishes(r)
  PROVE  Promise!Next
<1> USE DEF Sound, Guarded, Typed, TypeOK
<1> DEFINE m == model[r]
<1>1. /\ m \in Models /\ registry[m] = r /\ r \in live /\ starting[m] = r
      /\ starting' = [starting EXCEPT ![m] = None] /\ slot' = [slot EXCEPT ![r] = r]
      /\ UNCHANGED <<registry, live, model>> /\ ShuttingDown' = ShuttingDown
  BY DEF Publishes, KnownModel, Tracked, StartsAreTracked, AtStart, ShuttingDown
<1>2. PhaseOf(r) = "starting" /\ PhaseOf(r)' = "ready"
  BY <1>1, RequestsAssumption DEF PhaseOf
<1>3. ASSUME NEW c \in Requests, c # r PROVE PhaseOf(c)' = PhaseOf(c)
  <2>1. CASE model[c] = m
    BY <1>1, <1>3, <2>1 DEF PhaseOf
  <2>2. CASE model[c] # m
    BY <1>1, <2>2, PhaseStays
  <2> QED BY <2>1, <2>2
<1>4. slot[r] = None
  BY DEF Publishes, Counted, SlotsAreServed
<1>5. Phase' = [Phase EXCEPT ![r] = "ready"] /\ Name' = Name
  BY <1>1, <1>2, <1>3 DEF Phase, Name
<1>6. Promise!Publish(r, r)
  BY <1>1, <1>2, <1>4, <1>5 DEF Promise!Publish, Phase, Name, ShuttingDown
<1> QED BY <1>6 DEF Promise!Next

LEMMA ReturnPromised ==
  ASSUME Sound, NEW r \in Requests, Returns(r)
  PROVE  Promise!Next
<1> USE DEF Sound, Guarded, Typed, TypeOK
<1>1. /\ slot' = [slot EXCEPT ![r] = None] /\ UNCHANGED <<registry, starting, live, model>>
      /\ ShuttingDown' = ShuttingDown
  BY DEF Returns, ShuttingDown
<1>2. Phase' = Phase /\ Name' = Name
  BY <1>1 DEF Phase, Name, PhaseOf
<1>3. CASE slot[r] # None
  BY <1>1, <1>2, <1>3 DEF Promise!Next, Promise!Return, Phase, Name, ShuttingDown
<1>4. CASE slot[r] = None
  BY <1>1, <1>2, <1>4 DEF Promise!Next, Promise!Stutter, Promise!vars, Phase, Name, ShuttingDown
<1> QED BY <1>3, <1>4

LEMMA TakeDownPromised ==
  ASSUME Sound, NEW m \in Models, TakesDown(m)
  PROVE  Promise!Next
<1> USE DEF Sound, Guarded, Typed, TypeOK
<1>1. /\ registry' = [registry EXCEPT ![m] = None] /\ UNCHANGED <<starting, live, model, slot>>
      /\ ShuttingDown' = ShuttingDown
  BY DEF TakesDown
<1>2. CASE registry[m] = None
  <2>1. registry' = registry
    BY <1>1, <1>2
  <2>2. Phase' = Phase /\ Name' = Name
    BY <1>1, <2>1 DEF Phase, Name, PhaseOf
  <2> QED
    BY <1>1, <2>2 DEF Promise!Next, Promise!Stutter, Promise!vars, Phase, Name, ShuttingDown
<1>3. ASSUME NEW b \in Requests, registry[m] = b PROVE Promise!Next
  <2>1. model[b] = m /\ b # None
    BY <1>3, PhaseRead, RequestsAssumption
  <2>2. PhaseOf(b) \in {"starting", "dead", "ready"} /\ PhaseOf(b)' = "off"
    BY <1>1, <1>3, <2>1, RequestsAssumption DEF PhaseOf
  <2>3. ASSUME NEW c \in Requests, c # b PROVE PhaseOf(c)' = PhaseOf(c)
    <3>1. CASE model[c] = m
      BY <1>1, <1>3, <2>1, <2>3, <3>1, RequestsAssumption DEF PhaseOf
    <3>2. CASE model[c] # m
      BY <1>1, <3>2, PhaseStays
    <3> QED BY <3>1, <3>2
  <2>4. Phase' = [Phase EXCEPT ![b] = "off"] /\ Name' = [Name EXCEPT ![b] = None]
    BY <1>1, <2>2, <2>3 DEF Phase, Name
  <2>5. ASSUME PhaseOf(b) = "ready", NEW s \in Requests, slot[s] = b PROVE ShuttingDown
    <3>1. b \in live /\ Holders(b) # {}
      BY <2>5, PhaseRead DEF Holders
    <3>2. active[b] # 0
      BY <1>3, <2>1, <3>1, HoldersFinite, FS_EmptySet DEF Counted, ClaimsCounted
    <3>3. pc[b] \notin StartPlaces
      BY <3>1 DEF Counted, SlotsAreServed, Unclaimed
    <3> QED BY <1>3, <2>1, <3>1, <3>2, <3>3 DEF TakesDown, Stoppable
  <2>6. Promise!TakeDown(b)
    BY <1>1, <2>2, <2>4, <2>5 DEF Promise!TakeDown, Promise!Leased, Phase, Name, ShuttingDown
  <2> QED BY <2>6 DEF Promise!Next
<1> QED BY <1>2, <1>3 DEF MaybeBackend

LEMMA TogglePromised ==
  ASSUME Toggles
  PROVE  Promise!Next
<1>1. Phase' = Phase /\ Name' = Name /\ slot' = slot
  BY DEF Toggles, Phase, Name, PhaseOf
<1>2. CASE ShuttingDown' = ShuttingDown
  BY <1>1, <1>2 DEF Promise!Next, Promise!Stutter, Promise!vars, Phase, Name, ShuttingDown
<1>3. CASE ShuttingDown' = ~ShuttingDown
  BY <1>1, <1>3 DEF Promise!Next, Promise!Shutdown, Phase, Name, ShuttingDown
<1> QED BY <1>2, <1>3 DEF Toggles, ShuttingDown

\* ServerManager implements BackendLease: with any number of requests, models and faults,
\* its lock, maps, watchers and stops amount to backends that are launched within the limit
\* and for one model once, leased only while ready, and taken down only when nobody holds a
\* lease, but for a crash or a shutdown.
THEOREM PromiseIsKept == Spec => KeepsPromise
<1>1. Init => Promise!Init
  BY ModelsAssumption DEF Init, Promise!Init, PhaseOf
<1>2. Sound /\ Guarded' /\ [Next]_vars => Promise!Next
  <2> SUFFICES ASSUME Sound, Guarded', [Next]_vars PROVE Promise!Next
    OBVIOUS
  <2>1. Kinds
    BY StepKinds DEF Sound
  <2> QED
    BY <2>1, PlainPromised, SpawnPromised, ClaimPromised, PublishPromised, ReturnPromised,
       TakeDownPromised, TogglePromised DEF Kinds
<1>3. Sound => Guarded
  BY DEF Sound
<1> QED BY <1>1, <1>2, <1>3, SoundInvariant, PTL DEF Spec, KeepsPromise, Promise!Spec
=============================================================================
