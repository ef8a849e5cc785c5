---------------------------- MODULE ServerManager ----------------------------
(***************************************************************************)
(* drove's ServerManager (src/src/drove/server_manager.py): one backend    *)
(* process per model, started on demand, shared by requests, evicted under *)
(* a count and a memory budget, stopped when idle.                         *)
(*                                                                         *)
(* The manager is single-threaded asyncio code, so the atomic steps are    *)
(* the stretches of code between two awaits; every request, idle watcher   *)
(* and stop() call may be interleaved at an await.  `pc` names the await   *)
(* (or the point between two calls) a request stands at.                   *)
(*                                                                         *)
(* A request runs ensure_running once, and _start is the last thing it     *)
(* does there, so it spawns at most one backend: the backend spawned by    *)
(* request r, the _ModelInstance object, its start event and its idle      *)
(* watcher are all named r.  Time is abstracted: LRU order, idle timeouts  *)
(* and the health deadline are nondeterministic choices.                   *)
(***************************************************************************)
EXTENDS Integers, FiniteSets, FiniteSetsExt

CONSTANTS
  Requests,    \* requests the proxy hands to the manager, each served once
  Models,      \* names of the models on disk
  None,        \* Python's None: no instance, no model
  MaxLoaded,   \* max_loaded_models, 0 = unlimited
  MaxMemory,   \* max_memory_bytes, 0 = unlimited
  Sizes,       \* what _estimate_model_memory may come to, of each model
  Faults       \* the environment's steps a run allows, see FaultKinds

FaultKinds == {"crash",      \* a backend process exits by itself
               "cancel",     \* a request's task is cancelled at an await
               "edit",       \* a model's config sidecar or its files are rewritten
               "badConfig",  \* _prepare_start raises
               "noSpawn",    \* the backend cannot be launched
               "unhealthy",  \* the health wait times out
               "stop",       \* stop() / stop_model() is called
               "fallback"}   \* a request names no model

ASSUME RequestsAssumption == IsFiniteSet(Requests) /\ None \notin Requests
ASSUME ModelsAssumption == IsFiniteSet(Models) /\ None \notin Models
ASSUME LimitsAssumption ==
  MaxLoaded \in Nat /\ MaxMemory \in Nat /\ Sizes \in [Models -> (SUBSET Nat) \ {{}}]
ASSUME FaultsAssumption == Faults \subseteq FaultKinds

VARIABLES
  locked,     \* self._lock: asyncio locks have no owner, only a flag
  registry,   \* self._instances
  idleTasks,  \* self._idle_tasks, by the backend the watcher was made for
  starting,   \* self._starting, by the backend whose start the event settles
  live,       \* backends whose process runs (inst.is_running)
  active,     \* inst.active_requests
  ready,      \* backends that became healthy and had their cache restored
  recorded,   \* instances whose config_mtimes are those of the files now
  launched,   \* backends whose command line has the config of the files now
  restart,    \* inst.needs_restart
  size,       \* what each model's config and files would be estimated at now
  est,        \* inst.est_memory_bytes; while it is started, the config's part of it
  incoming,   \* incoming_bytes, for which each request makes room
  watcher,    \* where each idle watcher task stands
  pc,         \* where each request's ensure_running stands
  model,      \* the model each request asks for (None: the fallback model)
  slot,       \* the instance each request holds a claim on
  focus,      \* the instance a request is draining, stopping or starting
  waits,      \* the start events a request awaits
  saving,     \* backends whose prompt cache a stop writes to disk
  stopper     \* a running stop() or stop_model()

registryVars == <<registry, idleTasks, starting, watcher, saving>>
localVars == <<model, slot, focus, waits, incoming>>
taskVars == <<pc, localVars>>
sizeVars == <<size, est>>
configVars == <<recorded, launched, restart, sizeVars>>
instanceVars == <<live, active, ready, configVars>>
vars == <<locked, registryVars, instanceVars, taskVars, stopper>>

-----------------------------------------------------------------------------
(* Predicates the code evaluates.                                          *)

IsRunning(m) == registry[m] # None /\ registry[m] \in live
Running == {m \in Models : IsRunning(m)}

\* _get_config_mtimes(...) != inst.config_mtimes
Stale(b) == b \notin recorded

IsReadyEarly(m) == IsRunning(m) /\ ~Stale(registry[m])  \* mutant: still starting

\* _is_ready: running, fully started and on its current config.
IsReady(m) ==
  /\ IsRunning(m)
  /\ starting[m] = None
  /\ ~Stale(registry[m])

\* The sum of est_memory_bytes.
UsedMemory(S) == MapThenSumSet(LAMBDA m : est[registry[m]], S)

OverBudgetByOne(r) ==  \* mutant: > where the code compares with >=
  \/ MaxLoaded > 0 /\ Cardinality(Running) > MaxLoaded
  \/ MaxMemory > 0 /\ Running # {} /\ UsedMemory(Running) + incoming[r] > MaxMemory

OverBudgetAlone(r) ==  \* mutant: forgets the estimate of the incoming model
  \/ MaxLoaded > 0 /\ Cardinality(Running) >= MaxLoaded
  \/ MaxMemory > 0 /\ Running # {} /\ UsedMemory(Running) > MaxMemory

\* over_count \/ over_memory of the _evict_if_needed that r calls.
OverBudget(r) ==
  \/ MaxLoaded > 0 /\ Cardinality(Running) >= MaxLoaded
  \/ MaxMemory > 0 /\ Running # {} /\ UsedMemory(Running) + incoming[r] > MaxMemory

\* A model still starting is never a victim; idle models go first.
Evictable == {m \in Running : starting[m] = None}
IdleModels == {m \in Evictable : active[registry[m]] = 0}
Victims == IF IdleModels # {} THEN IdleModels ELSE Evictable

\* current_model: the ready models, else those loaded but starting.
FallbackModels ==
  IF \E m \in Running : starting[m] = None
  THEN {m \in Running : starting[m] = None}
  ELSE Running

-----------------------------------------------------------------------------
(* Effects shared by the operations.                                       *)

Goto(r, place) == pc' = [pc EXCEPT ![r] = place]
Move(r, place) == Goto(r, place) /\ UNCHANGED localVars

\* ensure_running raises: the request ends with no slot.
Fail(r) ==
  /\ Goto(r, "failed")
  /\ focus' = [focus EXCEPT ![r] = None]
  /\ waits' = [waits EXCEPT ![r] = {}]
  /\ UNCHANGED <<model, slot, incoming>>

\* _claim_slot(m) by r, which returns the instance to the proxy.
Claim(r, m) ==
  /\ active' = [active EXCEPT ![registry[m]] = @ + 1]
  /\ slot' = [slot EXCEPT ![r] = registry[m]]
  /\ model' = [model EXCEPT ![r] = m]
  /\ Goto(r, "claimed")
  /\ UNCHANGED <<focus, waits, incoming, live, ready, recorded, launched, sizeVars>>

UnregisterSavingAll(m, stay) ==  \* mutant: saves the cache of a failed start
  /\ registry' = [registry EXCEPT ![m] = None]
  /\ idleTasks' = [idleTasks EXCEPT ![m] = None]
  /\ watcher' = [b \in Requests |-> IF b = idleTasks[m] THEN stay ELSE watcher[b]]
  /\ saving' = IF IsRunning(m) THEN saving \cup {registry[m]} ELSE saving

UnregisterKeepingTask(m, stay) ==  \* mutant: forgets the idle task
  /\ registry' = [registry EXCEPT ![m] = None]
  /\ watcher' = [b \in Requests |-> IF b = idleTasks[m] THEN stay ELSE watcher[b]]
  /\ saving' = IF starting[m] = None /\ IsRunning(m)
               THEN saving \cup {registry[m]} ELSE saving
  /\ UNCHANGED idleTasks

\* The synchronous head of _stop_instance(m): unregister the instance and
\* its idle task, which is cancelled unless it is the caller (stay), and
\* decide whether the prompt cache is saved, all before the first await.
Unregister(m, stay) ==
  /\ registry' = [registry EXCEPT ![m] = None]
  /\ idleTasks' = [idleTasks EXCEPT ![m] = None]
  /\ watcher' = [b \in Requests |-> IF b = idleTasks[m] THEN stay ELSE watcher[b]]
  /\ saving' = IF starting[m] = None /\ IsRunning(m)
               THEN saving \cup {registry[m]} ELSE saving

\* Where a request goes on when the _stop_instance it awaits returns.
AfterStop == [stopThenPrepare |-> "prepare", stopThenEvict |-> "evict",
              stopThenBegin |-> "begin", stopThenFail |-> "failed"]
Stopping == DOMAIN AfterStop

\* Request r stops model m, holding the lock.
StopInstance(r, m, place) ==
  /\ Unregister(m, "none")
  /\ locked' = TRUE
  /\ Goto(r, place)
  /\ focus' = [focus EXCEPT ![r] = registry[m]]
  /\ UNCHANGED <<starting, instanceVars, model, slot, waits, incoming, stopper>>

SettleForgotten(r) == UNCHANGED starting  \* mutant: no `finally`

\* The end of _start, however it ends: the start event fires.
Settle(r) == starting' = [starting EXCEPT ![model[r]] = None]

TerminatedUnreaped(b) ==  \* mutant: gives up without the kill
  /\ saving' = saving \ {b}
  /\ UNCHANGED <<live, active, ready, configVars>>

\* _terminate (or _kill_now) leaves no process of b behind; nobody looks at
\* the config of its instance again.
Terminated(b) ==
  /\ live' = live \ {b}
  /\ saving' = saving \ {b}
  /\ recorded' = recorded \ {b}
  /\ launched' = launched \ {b}
  /\ restart' = restart \ {b}
  /\ UNCHANGED <<active, ready, sizeVars>>

-----------------------------------------------------------------------------
Init ==
  /\ locked = FALSE
  /\ registry = [m \in Models |-> None]
  /\ idleTasks = [m \in Models |-> None]
  /\ starting = [m \in Models |-> None]
  /\ live = {} /\ ready = {}
  /\ active = [b \in Requests |-> 0]
  /\ recorded = {} /\ launched = {} /\ restart = {}
  /\ size \in {f \in [Models -> UNION {Sizes[m] : m \in Models}] :
                \A m \in Models : f[m] \in Sizes[m]}
  /\ est = [b \in Requests |-> 0]
  /\ incoming = [r \in Requests |-> 0]
  /\ watcher = [b \in Requests |-> "none"]
  /\ pc = [r \in Requests |-> "new"]
  /\ model = [r \in Requests |-> None]
  /\ slot = [r \in Requests |-> None]
  /\ focus = [r \in Requests |-> None]
  /\ waits = [r \in Requests |-> {}]
  /\ saving = {}
  /\ stopper = [pc |-> "idle", names |-> {}, focus |-> None]

-----------------------------------------------------------------------------
(* ensure_running and fallback_model.                                      *)

\* The proxy passes on a request for model m, or one that names no model.
Arrive(r, m) ==
  /\ pc[r] = "new"
  /\ m = None => "fallback" \in Faults
  /\ model' = [model EXCEPT ![r] = m]
  /\ Goto(r, IF m = None THEN "fallback" ELSE "enter")
  /\ UNCHANGED <<locked, registryVars, instanceVars, slot, focus, waits, incoming, stopper>>

AwaitEvents(r, place, events) ==
  /\ Goto(r, place)
  /\ waits' = [waits EXCEPT ![r] = events]
  /\ UNCHANGED <<model, slot, focus, incoming>>

\* The top of ensure_running's loop: no lock is taken for a ready model, and
\* a start in progress is waited for.
EnsureRunning(r) ==
  LET m == model[r] IN
  /\ pc[r] = "enter"
  /\ \/ /\ IsReady(m)
        /\ Claim(r, m)
        /\ UNCHANGED restart
     \/ /\ ~IsReady(m)
        /\ starting[m] # None
        /\ AwaitEvents(r, "awaitStart", {starting[m]})
        /\ UNCHANGED instanceVars
     \/ /\ ~IsReady(m)
        /\ starting[m] = None
        /\ Move(r, "awaitLock")
        /\ UNCHANGED instanceVars
  /\ UNCHANGED <<locked, registryVars, stopper>>

\* fallback_model, and request_started on its result with no await between.
FallbackModel(r) ==
  /\ pc[r] = "fallback"
  /\ \/ Running = {} /\ Fail(r) /\ UNCHANGED instanceVars
     \/ \E m \in FallbackModels :
          IF starting[m] = None
          THEN Claim(r, m) /\ UNCHANGED restart
          ELSE AwaitEvents(r, "awaitStart", {starting[m]}) /\ UNCHANGED instanceVars
  /\ UNCHANGED <<locked, registryVars, stopper>>

\* The event of b's start is set, and its entry removed, in one step.
Settled(b) == starting[model[b]] # b

StartSettled(r) ==
  /\ pc[r] = "awaitStart"
  /\ \E b \in waits[r] : Settled(b)
  /\ Goto(r, IF model[r] = None THEN "fallback" ELSE "enter")
  /\ waits' = [waits EXCEPT ![r] = {}]
  /\ UNCHANGED <<locked, registryVars, instanceVars, model, slot, focus, incoming, stopper>>

\* The lock is acquired; _ensure_running_locked runs to its first await, or
\* returns and the lock is released again.
EnsureRunningLocked(r) ==
  LET m == model[r]
      b == registry[m]
  IN
  /\ pc[r] = "awaitLock"
  /\ ~locked
  /\ \/ /\ starting[m] # None           \* a start began meanwhile: loop
        /\ Move(r, "enter")
        /\ UNCHANGED <<locked, registryVars, instanceVars, stopper>>
     \/ /\ starting[m] = None
        /\ IsRunning(m)
        /\ ~Stale(b)
        /\ Claim(r, m)
        /\ UNCHANGED <<restart, locked, registryVars, stopper>>
     \/ /\ starting[m] = None           \* stale but busy: flag it, share it
        /\ IsRunning(m)
        /\ Stale(b)
        /\ active[b] > 0
        /\ restart' = restart \cup {b}
        /\ Claim(r, m)
        /\ UNCHANGED <<locked, registryVars, stopper>>
     \/ /\ starting[m] = None           \* stale and idle: validate, then stop
        /\ IsRunning(m)
        /\ Stale(b)
        /\ active[b] = 0
        /\ \/ StopInstance(r, m, "stopThenPrepare")
           \/ "badConfig" \in Faults /\ Fail(r)
              /\ UNCHANGED <<locked, registryVars, instanceVars, stopper>>
     \/ /\ starting[m] = None           \* the process died: clean up
        /\ b # None
        /\ ~IsRunning(m)
        /\ StopInstance(r, m, "stopThenPrepare")
     \/ /\ starting[m] = None
        /\ b = None
        /\ Move(r, "prepare")
        /\ locked' = TRUE
        /\ UNCHANGED <<registryVars, instanceVars, stopper>>

\* An exception leaves `async with self._lock`.
FailUnlock(r) ==
  /\ Fail(r)
  /\ locked' = FALSE
  /\ UNCHANGED <<registryVars, instanceVars, stopper>>

\* _prepare_start before evicting: a broken config evicts nothing.  The estimate it
\* leads to is the one room is made for.
PrepareStart(r) ==
  /\ pc[r] = "prepare"
  /\ \/ /\ incoming' = [incoming EXCEPT ![r] = size[model[r]]]
        /\ Goto(r, "evict")
        /\ UNCHANGED <<locked, registryVars, instanceVars, model, slot, focus, waits, stopper>>
     \/ "badConfig" \in Faults /\ FailUnlock(r)

\* _evict_if_needed is over when r's model runs already or there is room for it.
EvictionDone(r) == IsRunning(model[r]) \/ ~OverBudget(r)

\* One round of _evict_if_needed's loop that goes on, the lock held.
EvictIfNeeded(r) ==
  /\ pc[r] = "evict"
  /\ ~EvictionDone(r)
  /\ \/ /\ Evictable = {}
        /\ AwaitEvents(r, "awaitAnyStart", {starting[x] : x \in Models} \ {None})
        /\ locked' = FALSE
        /\ UNCHANGED <<registryVars, instanceVars, stopper>>
     \/ /\ \E v \in Victims :
             \/ /\ active[registry[v]] = 0
                /\ StopInstance(r, v, "stopThenEvict")
             \/ /\ active[registry[v]] > 0
                /\ Goto(r, "drain")
                /\ focus' = [focus EXCEPT ![r] = registry[v]]
                /\ locked' = FALSE
                /\ UNCHANGED <<registryVars, instanceVars, model, slot, waits,
                               incoming, stopper>>

\* _wait_for_a_start returns once any of the starts settles.
AnyStartSettled(r) ==
  /\ pc[r] = "awaitAnyStart"
  /\ \E b \in waits[r] : Settled(b)
  /\ Goto(r, "relock")
  /\ waits' = [waits EXCEPT ![r] = {}]
  /\ UNCHANGED <<locked, registryVars, instanceVars, model, slot, focus, incoming, stopper>>

\* The poll `while victim.active_requests > 0` ends.
Drained(r) ==
  /\ pc[r] = "drain"
  /\ active[focus[r]] = 0
  /\ Goto(r, "relock")
  /\ focus' = [focus EXCEPT ![r] = None]
  /\ UNCHANGED <<locked, registryVars, instanceVars, model, slot, waits, incoming, stopper>>

RelockAtOnce(r) ==  \* mutant: a cancelled acquire is given up
  /\ \/ /\ pc[r] = "relock"
        /\ ~locked
        /\ Move(r, "evict")
        /\ locked' = TRUE
     \/ /\ pc[r] = "relockCancelled"
        /\ Fail(r)
        /\ locked' = FALSE
  /\ UNCHANGED <<registryVars, instanceVars, stopper>>

\* _relock: the lock is always taken back before a cancellation propagates
\* and the surrounding `async with` releases it.
Relock(r) ==
  /\ ~locked
  /\ \/ /\ pc[r] = "relock"
        /\ Move(r, "evict")
        /\ locked' = TRUE
     \/ /\ pc[r] = "relockCancelled"
        /\ Fail(r)
        /\ UNCHANGED locked
  /\ UNCHANGED <<registryVars, instanceVars, stopper>>

DecideBlindly(r) ==  \* mutant: starts without looking again after eviction
  /\ pc[r] = "evict"
  /\ EvictionDone(r)
  /\ Move(r, "begin")
  /\ UNCHANGED <<locked, registryVars, instanceVars, stopper>>

\* The last round of the loop, which returns, and with no await the look of
\* _ensure_running_locked at what happened while eviction released the lock.
Decide(r) ==
  LET m == model[r] IN
  /\ pc[r] = "evict"
  /\ EvictionDone(r)
  /\ \/ /\ starting[m] # None           \* _RETRY
        /\ Move(r, "enter")
        /\ locked' = FALSE
        /\ UNCHANGED <<registryVars, instanceVars, stopper>>
     \/ /\ starting[m] = None
        /\ IsRunning(m)
        /\ Claim(r, m)
        /\ locked' = FALSE
        /\ UNCHANGED <<restart, registryVars, stopper>>
     \/ /\ starting[m] = None
        /\ registry[m] # None
        /\ ~IsRunning(m)
        /\ StopInstance(r, m, "stopThenBegin")
     \/ /\ starting[m] = None
        /\ registry[m] = None
        /\ Move(r, "begin")
        /\ UNCHANGED <<locked, registryVars, instanceVars, stopper>>

-----------------------------------------------------------------------------
(* _start, which holds the lock up to the spawn and gives it up meanwhile. *)

\* The checks and the (second) read of the model's config.
BeginStart(r) ==
  LET m == model[r] IN
  /\ pc[r] = "begin"
  /\ IF registry[m] # None \/ idleTasks[m] # None \/ starting[m] # None
     THEN /\ Move(r, "refused")         \* already registered: RuntimeError
          /\ locked' = FALSE
          /\ UNCHANGED <<registryVars, instanceVars, stopper>>
     ELSE \/ /\ Move(r, "spawn")
             /\ launched' = launched \cup {r}
             /\ est' = [est EXCEPT ![r] = size[m]]
             /\ UNCHANGED <<locked, registryVars, live, active, ready,
                            recorded, restart, size, stopper>>
          \/ "badConfig" \in Faults /\ FailUnlock(r)

\* create_subprocess_exec returns: the instance is registered with the
\* config mtimes of now, its start announced, and the lock released.  It is
\* estimated by the config read before (a voice) or by its files as they are now.
Spawn(r) ==
  LET m == model[r] IN
  /\ pc[r] = "spawn"
  /\ \/ /\ live' = live \cup {r}
        /\ recorded' = recorded \cup {r}
        /\ \E e \in {est[r], size[m]} : est' = [est EXCEPT ![r] = e]
        /\ registry' = [registry EXCEPT ![m] = r]
        /\ starting' = [starting EXCEPT ![m] = r]
        /\ focus' = [focus EXCEPT ![r] = r]
        /\ locked' = FALSE
        /\ Goto(r, "health")
        /\ UNCHANGED <<idleTasks, watcher, saving, active, ready, launched, restart,
                       size, model, slot, waits, incoming, stopper>>
     \/ "noSpawn" \in Faults /\ FailUnlock(r)

\* _wait_for_health and _restore_prompt_cache: ready, or the process is gone,
\* or the deadline passed.
HealthSettles(r) ==
  /\ pc[r] = "health"
  /\ \/ r \in live /\ Move(r, "resume")
     \/ r \notin live /\ Move(r, "resumeFailed")
     \/ "unhealthy" \in Faults /\ Move(r, "resumeFailed")
  /\ UNCHANGED <<locked, registryVars, instanceVars, stopper>>

\* The lock is back: publish the instance, or undo the start if it failed or
\* was stopped meanwhile.  A successful start is claimed with no await.
Resume(r) ==
  LET m == model[r]
      tracked == registry[m] = r
      good == pc[r] = "resume" /\ tracked /\ r \in live
  IN
  /\ pc[r] \in {"resume", "resumeFailed"}
  /\ ~locked
  /\ \/ /\ good
        /\ idleTasks' = [idleTasks EXCEPT ![m] = r]
        /\ watcher' = [watcher EXCEPT ![r] = "sleep"]
        /\ Settle(r)
        /\ ready' = ready \cup {r}
        /\ active' = [active EXCEPT ![r] = @ + 1]
        /\ slot' = [slot EXCEPT ![r] = r]
        /\ focus' = [focus EXCEPT ![r] = None]
        /\ Goto(r, "claimed")
        /\ UNCHANGED <<locked, registry, saving, live, configVars, model,
                       waits, incoming, stopper>>
     \/ ~good /\ tracked /\ StopInstance(r, m, "stopThenFail")
     \/ /\ ~good /\ ~tracked
        /\ Settle(r)
        /\ Fail(r)
        /\ UNCHANGED <<locked, registry, idleTasks, watcher, saving,
                       instanceVars, stopper>>

-----------------------------------------------------------------------------
(* The end of a _stop_instance a request made: its process is gone.  A     *)
(* failed start is settled (del _starting, event set) only then.           *)

StopReturns(r) ==
  /\ pc[r] \in Stopping
  /\ Terminated(focus[r])
  /\ IF pc[r] = "stopThenFail"
     THEN Settle(r) /\ Fail(r) /\ locked' = FALSE
     ELSE /\ Goto(r, AfterStop[pc[r]])
          /\ focus' = [focus EXCEPT ![r] = None]
          /\ UNCHANGED <<locked, starting, model, slot, waits, incoming>>
  /\ UNCHANGED <<registry, idleTasks, watcher, stopper>>

FinishByName(r) ==  \* mutant: releases whatever runs the model now, unguarded
  /\ pc[r] = "claimed"
  /\ active' = IF registry[model[r]] # None
               THEN [active EXCEPT ![registry[model[r]]] = @ - 1]
               ELSE active
  /\ slot' = [slot EXCEPT ![r] = None]
  /\ Goto(r, "done")
  /\ UNCHANGED <<locked, registryVars, live, ready, configVars, model, focus,
                 waits, incoming, stopper>>

FinishUncounted(r) ==  \* mutant: the claim is never released
  /\ pc[r] = "claimed"
  /\ slot' = [slot EXCEPT ![r] = None]
  /\ Goto(r, "done")
  /\ UNCHANGED <<locked, registryVars, instanceVars, model, focus, waits, incoming, stopper>>

\* request_finished(model, slot): only the instance the slot names is released.
Finish(r) ==
  /\ pc[r] = "claimed"
  /\ active' = IF registry[model[r]] = slot[r]
               THEN [active EXCEPT ![slot[r]] = IF @ > 0 THEN @ - 1 ELSE 0]
               ELSE active
  /\ slot' = [slot EXCEPT ![r] = None]
  /\ Goto(r, "done")
  /\ UNCHANGED <<locked, registryVars, live, ready, configVars, model, focus,
                 waits, incoming, stopper>>

\* CancelledError at the await r stands at.
Cancel(r) ==
  /\ "cancel" \in Faults
  /\ \/ /\ pc[r] \in {"awaitStart", "awaitLock"}
        /\ Fail(r)
        /\ UNCHANGED <<locked, registryVars, instanceVars, stopper>>
     \/ /\ pc[r] \in {"awaitAnyStart", "drain", "relock"}
        /\ Goto(r, "relockCancelled")
        /\ focus' = [focus EXCEPT ![r] = None]
        /\ waits' = [waits EXCEPT ![r] = {}]
        /\ UNCHANGED <<locked, registryVars, instanceVars, model, slot, incoming, stopper>>
     \/ /\ pc[r] = "spawn"
        /\ FailUnlock(r)
     \/ /\ pc[r] \in {"health", "resume"}
        /\ Move(r, "resumeFailed")
        /\ UNCHANGED <<locked, registryVars, instanceVars, stopper>>
     \/ /\ pc[r] \in Stopping            \* _kill_now, then the lock is released
        /\ Terminated(focus[r])
        /\ IF pc[r] = "stopThenFail" THEN Settle(r) ELSE UNCHANGED starting
        /\ Fail(r)
        /\ locked' = FALSE
        /\ UNCHANGED <<registry, idleTasks, watcher, stopper>>

-----------------------------------------------------------------------------
(* The idle watcher of backend b.                                          *)

Gone(b) == registry[model[b]] # b \/ b \notin live

\* _idle_stop_reason: never with requests in flight; a config change flags
\* the instance.  Whether the idle timeout has passed is left open.
FlagIfStale(b) == restart' = IF Stale(b) THEN restart \cup {b} ELSE restart

WatcherWakes(b) ==
  /\ watcher[b] = "sleep"
  /\ \/ /\ Gone(b)
        /\ watcher' = [watcher EXCEPT ![b] = "none"]
        /\ UNCHANGED restart
     \/ /\ ~Gone(b)
        /\ active[b] = 0
        /\ FlagIfStale(b)
        /\ watcher' = [watcher EXCEPT ![b] = "awaitLock"]
  /\ UNCHANGED <<locked, registry, idleTasks, starting, saving, taskVars, stopper,
                 live, active, ready, recorded, launched, sizeVars>>

WatcherGivesUp(b) ==  \* mutant: returns where the code continues its loop
  /\ watcher[b] = "awaitLock"
  /\ ~locked
  /\ Gone(b) \/ active[b] > 0 \/ ~(Stale(b) \/ b \in restart)
  /\ watcher' = [watcher EXCEPT ![b] = "none"]
  /\ UNCHANGED <<locked, registry, idleTasks, starting, saving, instanceVars,
                 taskVars,
                 stopper>>

\* The lock is acquired: decide again before stopping anything.
WatcherRelents(b) ==
  /\ watcher[b] = "awaitLock"
  /\ ~locked
  /\ \/ Gone(b) /\ watcher' = [watcher EXCEPT ![b] = "none"]
     \/ /\ ~Gone(b)
        /\ active[b] > 0 \/ ~(Stale(b) \/ b \in restart)
        /\ watcher' = [watcher EXCEPT ![b] = "sleep"]
  /\ UNCHANGED <<locked, registry, idleTasks, starting, saving, instanceVars,
                 taskVars,
                 stopper>>

WatcherStopsUnchecked(b) ==  \* mutant: does not decide again under the lock
  /\ watcher[b] = "awaitLock"
  /\ ~locked
  /\ ~Gone(b)
  /\ FlagIfStale(b)
  /\ Unregister(model[b], "stop")
  /\ locked' = TRUE
  /\ UNCHANGED <<starting, live, active, ready, recorded, launched, sizeVars, taskVars,
                 stopper>>

WatcherStops(b) ==
  /\ watcher[b] = "awaitLock"
  /\ ~locked
  /\ ~Gone(b)
  /\ active[b] = 0
  /\ FlagIfStale(b)
  /\ Unregister(model[b], "stop")
  /\ locked' = TRUE
  /\ UNCHANGED <<starting, live, active, ready, recorded, launched, sizeVars, taskVars,
                 stopper>>

WatcherStopReturns(b) ==
  /\ watcher[b] = "stop"
  /\ Terminated(b)
  /\ watcher' = [watcher EXCEPT ![b] = "none"]
  /\ locked' = FALSE
  /\ UNCHANGED <<registry, idleTasks, starting, taskVars, stopper>>

-----------------------------------------------------------------------------
(* stop() at shutdown, and stop_model().                                   *)

\* The lock is acquired and the names are listed once.
StopBegins(names) ==
  /\ "stop" \in Faults
  /\ stopper.pc = "idle"
  /\ ~locked
  /\ names # {}
  /\ locked' = TRUE
  /\ stopper' = [pc |-> "next", names |-> names, focus |-> None]
  /\ UNCHANGED <<registryVars, instanceVars, taskVars>>

Stop == StopBegins({m \in Models : registry[m] # None})
StopModel(m) == registry[m] # None /\ StopBegins({m})

StopNext ==
  /\ stopper.pc = "next"
  /\ \/ \E m \in stopper.names :
          /\ Unregister(m, "none")
          /\ stopper' = [pc |-> "stop", names |-> stopper.names \ {m},
                         focus |-> registry[m]]
          /\ UNCHANGED locked
     \/ /\ stopper.names = {}
        /\ locked' = FALSE
        /\ stopper' = [pc |-> "idle", names |-> {}, focus |-> None]
        /\ UNCHANGED <<registry, idleTasks, watcher, saving>>
  /\ UNCHANGED <<starting, instanceVars, taskVars>>

StopperStopReturns ==
  /\ stopper.pc = "stop"
  /\ Terminated(stopper.focus)
  /\ stopper' = [pc |-> "next", names |-> stopper.names, focus |-> None]
  /\ UNCHANGED <<locked, registry, idleTasks, starting, watcher, taskVars>>

-----------------------------------------------------------------------------
(* The environment.                                                        *)

Crash(b) ==
  /\ "crash" \in Faults
  /\ b \in live
  /\ live' = live \ {b}
  /\ UNCHANGED <<locked, registryVars, active, ready, configVars, taskVars,
                 stopper>>

\* Model m is estimated anew from now on.
Resize(m) == \E n \in Sizes[m] : size' = [size EXCEPT ![m] = n]

\* The sidecar of model m is rewritten: what was read or recorded before is
\* no longer what the file says.
EditConfig(m) ==
  /\ "edit" \in Faults
  /\ recorded' = {b \in recorded : model[b] # m}
  /\ launched' = {b \in launched : model[b] # m}
  /\ Resize(m)
  /\ UNCHANGED <<locked, registryVars, live, active, ready, restart, est, taskVars,
                 stopper>>

\* Its files are downloaded again.
ReplaceFiles(m) ==
  /\ "edit" \in Faults
  /\ Resize(m)
  /\ UNCHANGED <<locked, registryVars, live, active, ready, recorded, launched, restart,
                 est, taskVars, stopper>>

-----------------------------------------------------------------------------
Progress(r) ==      \* what the event loop runs once it is ready
  \/ EnsureRunning(r)
  \/ FallbackModel(r)
  \/ StartSettled(r)
  \/ PrepareStart(r)
  \/ EvictIfNeeded(r)
  \/ AnyStartSettled(r)
  \/ Drained(r)
  \/ Decide(r)
  \/ BeginStart(r)
  \/ Spawn(r)
  \/ HealthSettles(r)
  \/ StopReturns(r)
  \/ Finish(r)

AcquireLock(r) ==   \* what waits in the lock's queue
  \/ EnsureRunningLocked(r)
  \/ Relock(r)
  \/ Resume(r)

RequestStep(r) ==
  \/ \E m \in Models \cup {None} : Arrive(r, m)
  \/ Progress(r)
  \/ AcquireLock(r)
  \/ Cancel(r)

WatcherStep(b) ==
  \/ WatcherWakes(b)
  \/ WatcherRelents(b)
  \/ WatcherStops(b)
  \/ WatcherStopReturns(b)

StopperStep ==
  \/ Stop
  \/ \E m \in Models : StopModel(m)
  \/ StopNext
  \/ StopperStopReturns

Next ==
  \/ \E r \in Requests : RequestStep(r)
  \/ \E b \in Requests : WatcherStep(b)
  \/ StopperStep
  \/ \E b \in Requests : Crash(b)
  \/ \E m \in Models : EditConfig(m) \/ ReplaceFiles(m)

Spec == Init /\ [][Next]_vars
-----------------------------------------------------------------------------
(* Safety.                                                                 *)

Places == {"new", "enter", "fallback", "awaitStart", "awaitLock", "prepare",
           "evict", "awaitAnyStart", "drain", "relock", "relockCancelled",
           "begin", "spawn", "health", "resume", "resumeFailed",
           "claimed", "done", "failed", "refused"} \cup Stopping
MaybeBackend == Requests \cup {None}

\* The types of the manager's maps, of each instance and of each task.
TypeOK ==
  /\ locked \in BOOLEAN
  /\ registry \in [Models -> MaybeBackend]
  /\ idleTasks \in [Models -> MaybeBackend]
  /\ starting \in [Models -> MaybeBackend]
  /\ live \subseteq Requests /\ ready \subseteq Requests
  /\ active \in [Requests -> Nat]
  /\ recorded \subseteq Requests /\ launched \subseteq Requests
  /\ restart \subseteq Requests
  /\ size \in [Models -> Nat]
  /\ est \in [Requests -> Nat] /\ incoming \in [Requests -> Nat]
  /\ watcher \in [Requests -> {"none", "sleep", "awaitLock", "stop"}]
  /\ pc \in [Requests -> Places]
  /\ model \in [Requests -> Models \cup {None}]
  /\ slot \in [Requests -> MaybeBackend]
  /\ focus \in [Requests -> MaybeBackend]
  /\ waits \in [Requests -> SUBSET Requests]
  /\ saving \subseteq Requests
  /\ stopper \in [pc : {"idle", "next", "stop"}, names : SUBSET Models,
                  focus : MaybeBackend]

\* Where a request stands inside `async with self._lock`, the lock held.
LockedPlaces == {"prepare", "evict", "begin", "spawn"} \cup Stopping

\* Every task that holds the manager lock: requests, idle watchers, stop().
RequestHolds(r) == pc[r] \in LockedPlaces
WatcherHolds(b) == watcher[b] = "stop"
StopperHolds == stopper.pc # "idle"

\* _start and _evict_if_needed release the lock inside an `async with` that
\* releases it again: at any time at most one task is in a locked section,
\* and the lock is taken exactly when one is, so nobody ever releases a lock
\* another task holds, whatever is cancelled (_reacquire_lock's comment).
LockDiscipline ==
  /\ \A r, s \in Requests : RequestHolds(r) /\ RequestHolds(s) => r = s
  /\ \A b, c \in Requests : WatcherHolds(b) /\ WatcherHolds(c) => b = c
  /\ \A r, b \in Requests : ~(RequestHolds(r) /\ WatcherHolds(b))
  /\ StopperHolds => \A r \in Requests : ~RequestHolds(r) /\ ~WatcherHolds(r)
  /\ locked <=> \/ \E r \in Requests : RequestHolds(r) \/ WatcherHolds(r)
                \/ StopperHolds

\* A model is marked as starting exactly while the request that will settle
\* its start is at it: whatever fails, is cancelled or stopped, no waiter on
\* a start event is left behind, and no second start of the model begins.
AtStart(r) == pc[r] \in {"health", "resume", "resumeFailed", "stopThenFail"}
StartsAreTracked ==
  /\ \A m \in Models : starting[m] # None =>
       AtStart(starting[m]) /\ model[starting[m]] = m
  /\ \A r \in Requests : AtStart(r) => starting[model[r]] = r

\* Where a request stands before it has spawned a backend.
Unspawned == {"new", "enter", "fallback", "awaitStart", "awaitLock", "prepare", "evict",
              "awaitAnyStart", "drain", "relock", "relockCancelled", "begin",
              "spawn", "stopThenPrepare", "stopThenEvict", "stopThenBegin"}

\* _instances, _idle_tasks and _starting never disagree: each entry is for the
\* backend of its own model, a watcher that may still act is the one entered
\* for it, and a model that is starting has no watcher and no other instance.
RegistryAgrees ==
  /\ \A m \in Models : registry[m] # None =>
       model[registry[m]] = m /\ pc[registry[m]] \notin Unspawned
  /\ \A m \in Models : idleTasks[m] # None => registry[m] = idleTasks[m]
  /\ \A b \in Requests : watcher[b] \in {"sleep", "awaitLock"} =>
       model[b] \in Models /\ idleTasks[model[b]] = b
  /\ \A m \in Models : starting[m] # None =>
       registry[m] \in {None, starting[m]} /\ idleTasks[m] = None

\* A slot is only ever claimed on a backend whose start completed: no request
\* reaches one still loading or restoring its prompt cache.
ClaimsAreReady == \A r \in Requests : slot[r] # None => slot[r] \in ready

\* active_requests of a registered instance counts the slots held on it, over
\* crashes, restarts and late request_finished calls.
Holders(b) == {r \in Requests : slot[r] = b}
ClaimsCounted ==
  \A m \in Models : registry[m] # None =>
    active[registry[m]] = Cardinality(Holders(registry[m]))

\* No process outlives its registration: one that runs is registered, or its
\* stop is in progress under the lock.  A failed, cancelled or refused start
\* leaves no model process behind.
BeingStopped(b) ==
  \/ \E r \in Requests : pc[r] \in Stopping /\ focus[r] = b
  \/ watcher[b] = "stop"
  \/ stopper.pc = "stop" /\ stopper.focus = b
NoOrphan ==
  \A b \in live :
    registry[model[b]] = b \/ BeingStopped(b)

\* A backend that is up and ready has a live idle watcher: nothing stays
\* loaded for ever.
ReadyIsWatched ==
  \A m \in Models : IsRunning(m) /\ starting[m] = None =>
    /\ idleTasks[m] = registry[m]
    /\ watcher[registry[m]] # "none"

\* Never more live processes (those being stopped included) than
\* max_loaded_models.
CountBudget ==
  MaxLoaded > 0 =>
    Cardinality(live) <= MaxLoaded

\* The live processes fit max_memory by their estimates, except one oversized model on
\* its own, and except for what one of them, the one started last, has grown by between
\* the estimate that room was made for and the one it is counted with: such growth never
\* adds up, over several starts at a time, deaths, evictions and edits.
Load(S) == MapThenSumSet(LAMBDA b : est[b], S)
MemoryBudget ==
  MaxMemory > 0 =>
    \/ Cardinality(live) <= 1
    \/ Load(live) <= MaxMemory
    \/ \E b \in live : Load(live \ {b}) + incoming[b] <= MaxMemory

\* From the moment a request decides to start a model until its process is
\* spawned, the model is not registered, watched or starting, whatever the
\* other tasks do meanwhile: _start's RuntimeError is unreachable and no entry
\* (hence no process) is ever overwritten.
StartsFresh ==
  \A r \in Requests :
    /\ pc[r] # "refused"
    /\ pc[r] \in {"begin", "spawn", "stopThenBegin"} =>
         /\ registry[model[r]] = None
         /\ idleTasks[model[r]] = None
         /\ starting[model[r]] = None

\* A stop saves the prompt cache only of a backend that became ready: the
\* files a start was about to restore are never overwritten by it.
SavesOnlyReady == saving \subseteq ready

\* The config mtimes an instance records are those of the config it was
\* launched with: an instance that looks current is.
RecordedIsLaunched ==
  \A m \in Models : IsRunning(m) /\ registry[m] \in recorded =>
    registry[m] \in launched

\* A live backend on which slots are held is unregistered by stop() only,
\* never by an eviction, an idle timeout or a config restart.
BusyIsNeverStopped ==
  [][\A m \in Models :
       LET b == registry[m] IN
       /\ b # None
       /\ b # registry'[m]
       /\ b \in live
       => Holders(b) = {} \/ stopper'.pc = "stop"]_vars

-----------------------------------------------------------------------------
(* Refinement: the manager keeps the promise of BackendLease.              *)

PhaseOf(b) ==
  IF model[b] \notin Models \/ registry[model[b]] # b THEN "off"
  ELSE IF b \notin live THEN "dead"
  ELSE IF starting[model[b]] = b THEN "starting"
  ELSE "ready"

Promise == INSTANCE BackendLease WITH
  Backends <- Requests,
  Limit <- MaxLoaded,
  phase <- [b \in Requests |-> PhaseOf(b)],
  name <- [b \in Requests |-> IF PhaseOf(b) = "off" THEN None ELSE model[b]],
  lease <- slot,
  shutdown <- (stopper.pc # "idle")

\* Every behaviour of the manager is one of the leases it promises.
KeepsPromise == Promise!Spec

-----------------------------------------------------------------------------
(* Liveness.  The event loop runs every task that is ready (WF), asyncio's *)
(* lock is FIFO (SF on each acquisition), requests end, the health wait    *)
(* has a deadline and an idle watcher meets its timeout.  Nothing in the   *)
(* environment is fair.                                                    *)

Fairness ==
  /\ \A r \in Requests : WF_vars(Progress(r)) /\ SF_vars(AcquireLock(r))
  /\ \A b \in Requests : /\ WF_vars(WatcherWakes(b) \/ WatcherStopReturns(b))
                         /\ SF_vars(WatcherStops(b))
  /\ WF_vars(StopNext \/ StopperStopReturns)

FairSpec == Spec /\ Fairness

\* Every request that reaches the manager gets its slot or an error, but for
\* one draining an instance that was replaced under it (see DrainEnds).
Abandoned(r) == pc[r] = "drain" /\ registry[model[focus[r]]] # focus[r]
EveryRequestSettles ==
  \A r \in Requests :
    pc[r] \notin {"new", "claimed", "done", "failed", "refused"} ~>
      pc[r] \in {"claimed", "done", "failed", "refused"} \/ Abandoned(r)

\* Every start settles, so nobody waits for one in vain.
EveryStartSettles ==
  \A m \in Models : []<>(starting[m] = None)

\* A request into the manager always comes back, and so does a start it waits for.
EveryCallSettles == EveryRequestSettles /\ EveryStartSettles

\* Every backend is unloaded once its requests are done.
EveryBackendUnloads ==
  \A b \in Requests : []<>(b \notin live)

\* A drain ends once the victim's requests have finished ("wait for its
\* active requests to finish before stopping it").
DrainEnds == \A r \in Requests : pc[r] = "drain" ~> pc[r] # "drain"
=============================================================================
