-------------------------------- MODULE Proxy --------------------------------
(***************************************************************************)
(* drove's proxy (src/src/drove/proxy.py): each HTTP request claims a      *)
(* backend from the manager, is forwarded to it, and its response is       *)
(* streamed back; /status counts it (stats.py) and, when observing, a      *)
(* worker thread writes its record.                                        *)
(*                                                                         *)
(* `at` names the await each handler stands at.  A handler has up to three *)
(* tasks of its own running beside it: the upstream send, the watcher for  *)
(* the client's disconnect, and the clean-up of an abandoned send.  The    *)
(* manager is its promise, BackendLease, which ServerManager implements.   *)
(* Bodies, headers, token counts and timings are left out.                 *)
(***************************************************************************)
EXTENDS Integers, FiniteSets

CONSTANTS
  Requests,    \* HTTP requests
  Backends,    \* backend processes
  Models,      \* model names
  None,
  Limit,       \* max_loaded_models
  MaxPending,  \* _OBSERVE_MAX_PENDING
  Faults       \* the environment's steps a run allows, see FaultKinds

FaultKinds == {"crash",     \* a backend process dies
               "cancel",    \* a handler's task is cancelled at an await
               "leave",     \* a client closes its connection
               "refuse",    \* a request or a start is refused
               "upstream",  \* a live backend fails a request
               "unsent",    \* a response is given up before its body starts
               "shutdown"}  \* the server shuts down

ASSUME ProxyAssumption ==
  /\ None \notin Requests \cup Backends \cup Models
  /\ IsFiniteSet(Requests)
  /\ Limit \in Nat
  /\ MaxPending \in Nat \ {0}
  /\ Faults \subseteq FaultKinds

VARIABLES
  phase, name, lease, shutdown,   \* the manager's, see BackendLease
  at,        \* where each handler stands
  used,      \* its resolved_model
  send,      \* its client.send task
  watch,     \* its _wait_for_disconnect task
  cleanup,   \* its _discard_send task
  outcome,   \* why a send race is being discarded
  upstream,  \* the backend its request was sent to
  open,      \* requests whose upstream response is open
  gone,      \* requests whose client has left
  result,    \* how each request was settled
  stats,     \* ProxyStats: total, active and failed requests
  record,    \* the observe record of each request
  server,    \* the lifespan of the app
  awaited    \* the records _ObserveWriter.drain waits for

managerVars == <<phase, name, lease, shutdown>>
raceVars == <<send, watch, cleanup, outcome, upstream, open>>
lifespanVars == <<server, awaited>>
vars == <<managerVars, at, used, raceVars, gone, result, stats, record, lifespanVars>>

Manager == INSTANCE BackendLease

-----------------------------------------------------------------------------
(* ProxyStats and the claim.                                               *)

Goto(r, place) == at' = [at EXCEPT ![r] = place]

\* manager.request_finished(model, slot): a no-op for a request with no claim.
Release(r) == lease' = [lease EXCEPT ![r] = None]

Plus(flag) == IF flag THEN 1 ELSE 0

SettledTwice(r, how) ==  \* mutant: an abandoned request is counted down twice
  /\ at' = [at EXCEPT ![r] = "ended"]
  /\ result' = [result EXCEPT ![r] = how]
  /\ stats' = [total |-> stats.total,
               active |-> stats.active - 1 - Plus(how = "left"),
               errors |-> stats.errors + Plus(how = "error")]

\* stats.request_finished, and stats.request_error for a failure.
Settle(r, how) ==
  /\ at' = [at EXCEPT ![r] = "ended"]
  /\ result' = [result EXCEPT ![r] = how]
  /\ stats' = [total |-> stats.total,
               active |-> IF stats.active > 0 THEN stats.active - 1 ELSE 0,
               errors |-> stats.errors + Plus(how = "error")]

\* A request that holds no claim is settled.
Reject(r, how) ==
  /\ Settle(r, how)
  /\ UNCHANGED <<managerVars, used, raceVars, gone, record, lifespanVars>>

\* A request that holds a claim gives it up and is settled.
GiveUp(r, how) ==
  /\ Release(r)
  /\ Settle(r, how)
  /\ UNCHANGED <<phase, name, shutdown, used, gone, record, lifespanVars>>

-----------------------------------------------------------------------------
Init ==
  /\ Manager!Init
  /\ at = [r \in Requests |-> "new"]
  /\ used = [r \in Requests |-> None]
  /\ send = [r \in Requests |-> "none"]
  /\ watch = [r \in Requests |-> "none"]
  /\ cleanup = [r \in Requests |-> "none"]
  /\ outcome = [r \in Requests |-> "none"]
  /\ upstream = [r \in Requests |-> None]
  /\ open = {} /\ gone = {}
  /\ result = [r \in Requests |-> "none"]
  /\ stats = [total |-> 0, active |-> 0, errors |-> 0]
  /\ record = [r \in Requests |-> "none"]
  /\ server = "serving" /\ awaited = {}

-----------------------------------------------------------------------------
(* proxy() and _forward, up to the claim.                                  *)

Receive(r) ==
  /\ at[r] = "new"
  /\ server = "serving"
  /\ Goto(r, "extract")
  /\ stats' = [total |-> stats.total + 1, active |-> stats.active + 1,
               errors |-> stats.errors]
  /\ UNCHANGED <<managerVars, used, raceVars, gone, result, record, lifespanVars>>

\* _extract_model returns: a model, asked for or the default; an invalid
\* name; or none, for which a loaded model is needed (manager.is_running).
Extract(r) ==
  /\ at[r] = "extract"
  /\ \/ \E m \in Models :
          /\ used' = [used EXCEPT ![r] = m]
          /\ Goto(r, "ensure")
          /\ UNCHANGED <<managerVars, raceVars, gone, result, stats, record,
                         lifespanVars>>
     \/ /\ "refuse" \in Faults
        /\ Reject(r, "error")
     \/ /\ Manager!Up = {}
        /\ Reject(r, "error")
     \/ /\ Manager!Up # {}
        /\ Goto(r, "fallback")
        /\ UNCHANGED <<managerVars, used, raceVars, gone, result, stats, record,
                       lifespanVars>>

\* The claim r gets from the manager, on a backend serving its model.
Claimed(r, b) ==
  /\ Goto(r, "body")
  /\ used' = [used EXCEPT ![r] = name[b]]
  /\ UNCHANGED <<raceVars, gone, result, stats, record, lifespanVars>>

\* ensure_running(claim=True) returns or raises.
EnsureRunning(r) ==
  /\ at[r] = "ensure"
  /\ \/ \E b \in Manager!Serving(used[r]) :
          /\ Manager!Lease(b, r) \/ Manager!Publish(b, r)
          /\ Claimed(r, b)
     \/ "refuse" \in Faults /\ Reject(r, "error")

\* fallback_model returns; request_started claims its result at once.
FallbackModel(r) ==
  /\ at[r] = "fallback"
  /\ \/ \E b \in Backends : Manager!Lease(b, r) /\ Claimed(r, b)
     \/ Manager!Up = {} /\ Reject(r, "error")

-----------------------------------------------------------------------------
(* The request body, and the race of the send against the disconnect.      *)

BodyReadReleased(r) ==  \* mutant: the claim ends before the send
  /\ at[r] = "body"
  /\ r \notin gone
  /\ Goto(r, "racing")
  /\ Release(r)
  /\ send' = [send EXCEPT ![r] = "flying"]
  /\ watch' = [watch EXCEPT ![r] = "watching"]
  /\ \/ \E b \in Manager!Serving(used[r]) : upstream' = [upstream EXCEPT ![r] = b]
     \/ Manager!Serving(used[r]) = {} /\ UNCHANGED upstream
  /\ UNCHANGED <<phase, name, shutdown, used, cleanup, outcome, open, gone, result,
                 stats, record, lifespanVars>>

\* request.body() and is_disconnected() return for a client still there:
\* base_url_for looks the model's backend up by name, and the race starts.
BodyRead(r) ==
  /\ at[r] = "body"
  /\ r \notin gone
  /\ Goto(r, "racing")
  /\ send' = [send EXCEPT ![r] = "flying"]
  /\ watch' = [watch EXCEPT ![r] = "watching"]
  /\ \/ \E b \in Manager!Serving(used[r]) : upstream' = [upstream EXCEPT ![r] = b]
     \/ Manager!Serving(used[r]) = {} /\ UNCHANGED upstream
  /\ UNCHANGED <<managerVars, used, cleanup, outcome, open, gone, result, stats,
                 record, lifespanVars>>

\* The client is seen to have left (abandon), or its body breaks off.
BodyLost(r) ==
  /\ at[r] = "body"
  /\ r \in gone
  /\ \E how \in {"left", "error"} : GiveUp(r, how)
  /\ UNCHANGED raceVars

Answers(b) == b # None /\ phase[b] \in {"starting", "ready"}

\* client.send returns a response or raises a TransportError.
SendReturns(r) ==
  /\ send[r] = "flying"
  /\ \/ /\ Answers(upstream[r])
        /\ send' = [send EXCEPT ![r] = "answered"]
        /\ open' = open \cup {r}
     \/ /\ ~Answers(upstream[r]) \/ "upstream" \in Faults
        /\ send' = [send EXCEPT ![r] = "failed"]
        /\ UNCHANGED open
  /\ UNCHANGED <<managerVars, at, used, watch, cleanup, outcome, upstream, gone,
                 result, stats, record, lifespanVars>>

WatchReturns(r) ==
  /\ watch[r] = "watching"
  /\ r \in gone
  /\ watch' = [watch EXCEPT ![r] = "gone"]
  /\ UNCHANGED <<managerVars, at, used, send, cleanup, outcome, upstream, open, gone,
                 result, stats, record, lifespanVars>>

\* `finally: if not handed_over`: _discard_send runs, shielded.
Discard(r, why) ==
  /\ Goto(r, "discarding")
  /\ outcome' = [outcome EXCEPT ![r] = why]
  /\ cleanup' = [cleanup EXCEPT ![r] = "running"]
  /\ UNCHANGED <<managerVars, used, send, upstream, open, gone, result, stats, record,
                 lifespanVars>>

RaceEndsSendFirst(r) ==  \* mutant: the send wins a tie
  /\ at[r] = "racing"
  /\ \/ watch[r] = "gone" /\ send[r] = "flying" /\ Discard(r, "left") /\ UNCHANGED watch
     \/ /\ send[r] \in {"answered", "failed"}
        /\ Goto(r, "handoff")
        /\ UNCHANGED <<managerVars, used, send, watch, cleanup, outcome, upstream, open,
                       gone, result, stats, record, lifespanVars>>

\* asyncio.wait returns: a disconnect wins a tie with the response.
RaceEnds(r) ==
  /\ at[r] = "racing"
  /\ \/ watch[r] = "gone" /\ Discard(r, "left") /\ UNCHANGED watch
     \/ /\ watch[r] # "gone"
        /\ send[r] \in {"answered", "failed"}
        /\ watch' = [watch EXCEPT ![r] = "cancelled"]
        /\ Goto(r, "handoff")
        /\ UNCHANGED <<managerVars, used, send, cleanup, outcome, upstream, open, gone,
                       result, stats, record, lifespanVars>>

\* The cancelled watcher has been awaited: the response is handed over, or
\* the send's error raised.
HandOver(r) ==
  /\ at[r] = "handoff"
  /\ \/ /\ send[r] = "answered"
        /\ Goto(r, "handed")
        /\ UNCHANGED <<managerVars, used, raceVars, gone, result, stats, record,
                       lifespanVars>>
     \/ send[r] = "failed" /\ Discard(r, "failed") /\ UNCHANGED watch

CleanupUnclosed(r) ==  \* mutant: a response that arrived is not closed
  /\ cleanup[r] = "running"
  /\ cleanup' = [cleanup EXCEPT ![r] = "done"]
  /\ send' = [send EXCEPT ![r] = IF @ = "flying" THEN "cancelled" ELSE @]
  /\ watch' = [watch EXCEPT ![r] = IF @ = "watching" THEN "cancelled" ELSE @]
  /\ UNCHANGED <<managerVars, at, used, outcome, upstream, open, gone, result, stats,
                 record, lifespanVars>>

\* _discard_send: both tasks are cancelled and awaited, a response closed.
Cleanup(r) ==
  /\ cleanup[r] = "running"
  /\ cleanup' = [cleanup EXCEPT ![r] = "done"]
  /\ send' = [send EXCEPT ![r] = IF @ = "flying" THEN "cancelled" ELSE @]
  /\ watch' = [watch EXCEPT ![r] = IF @ = "watching" THEN "cancelled" ELSE @]
  /\ open' = open \ {r}
  /\ UNCHANGED <<managerVars, at, used, outcome, upstream, gone, result, stats, record,
                 lifespanVars>>

ResultOf == [left |-> "left", failed |-> "error", cancelled |-> "cancelled"]

\* The shield returns: abandon(), the 502, or the cancellation of proxy().
Discarded(r) ==
  /\ at[r] = "discarding"
  /\ cleanup[r] = "done"
  /\ GiveUp(r, ResultOf[outcome[r]])
  /\ UNCHANGED raceVars

-----------------------------------------------------------------------------
(* The StreamingResponse and _counting_stream.                             *)

\* The headers are sent and the generator takes its first step, or the
\* response is given up while its headers are being sent: the generator has
\* not started, so its `finally` never runs.
ResponseStarts(r) ==
  /\ at[r] = "handed"
  /\ \/ Goto(r, "stream")
     \/ "unsent" \in Faults /\ Goto(r, "unsent")
  /\ UNCHANGED <<managerVars, used, raceVars, gone, result, stats, record, lifespanVars>>

Pending == {r \in Requests : record[r] = "pending"}

\* _ObserveWriter.submit (or observing is off).
Submit(r) ==
  \/ record' = [record EXCEPT ![r] = IF Cardinality(Pending) >= MaxPending
                                     THEN "dropped" ELSE "pending"]
  \/ UNCHANGED record

StreamLeft(r, how) ==  \* mutant: no `finally` in _counting_stream
  /\ Settle(r, how)
  /\ open' = open \ {r}
  /\ UNCHANGED <<managerVars, used, send, watch, cleanup, outcome, upstream, gone,
                 lifespanVars>>

\* _counting_stream's `finally`, the upstream response closed.
StreamEnds(r, how) ==
  /\ Release(r)
  /\ Settle(r, how)
  /\ open' = open \ {r}
  /\ UNCHANGED <<phase, name, shutdown, used, send, watch, cleanup, outcome, upstream,
                 gone, lifespanVars>>

\* The last chunk is sent, reading the upstream fails, or the response task
\* is cancelled at either of the two awaits: inside the generator, or while
\* it is suspended at its yield and is left to the loop's finalizer.
Stream(r) ==
  /\ at[r] = "stream"
  /\ \/ Answers(upstream[r]) /\ Submit(r) /\ StreamEnds(r, "ok")
     \/ /\ ~Answers(upstream[r]) \/ "upstream" \in Faults
        /\ StreamEnds(r, "error")
        /\ UNCHANGED record
     \/ /\ r \in gone \/ "cancel" \in Faults
        /\ \/ StreamEnds(r, "cancelled") /\ UNCHANGED record
           \/ /\ Goto(r, "orphaned")
              /\ UNCHANGED <<managerVars, used, raceVars, gone, result, stats, record,
                             lifespanVars>>

\* An abandoned generator is closed by the event loop's finalizer.
StreamFinalized(r) ==
  /\ at[r] = "orphaned"
  /\ StreamEnds(r, "cancelled")
  /\ UNCHANGED record

RecordWritten(r) ==
  /\ record[r] = "pending"
  /\ record' = [record EXCEPT ![r] = "saved"]
  /\ UNCHANGED <<managerVars, at, used, raceVars, gone, result, stats, lifespanVars>>

-----------------------------------------------------------------------------
(* Cancellation, clients, and the app's lifespan.                          *)

\* proxy()'s `except BaseException`, after the send race's own `finally`.
Cancel(r) ==
  /\ "cancel" \in Faults
  /\ \/ at[r] \in {"extract", "ensure", "fallback"} /\ Reject(r, "cancelled")
     \/ at[r] = "body" /\ GiveUp(r, "cancelled") /\ UNCHANGED raceVars
     \/ at[r] \in {"racing", "handoff"} /\ Discard(r, "cancelled") /\ UNCHANGED watch
     \/ at[r] = "discarding" /\ GiveUp(r, "cancelled") /\ UNCHANGED raceVars

Leave(r) ==
  /\ "leave" \in Faults
  /\ at[r] \notin {"new", "ended"}
  /\ gone' = gone \cup {r}
  /\ UNCHANGED <<managerVars, at, used, raceVars, result, stats, record, lifespanVars>>

\* The server stops taking requests and waits for its handlers; then the
\* lifespan drains the writer, stops the manager and closes the client.
Over == {"ended", "orphaned", "unsent"}
ShutdownBegins ==
  /\ "shutdown" \in Faults
  /\ server = "serving"
  /\ \A r \in Requests : at[r] \in Over \cup {"new"}
  /\ server' = "draining"
  /\ awaited' = Pending
  /\ UNCHANGED <<managerVars, at, used, raceVars, gone, result, stats, record>>

DrainedUnwaited ==  \* mutant: drain does not wait
  /\ server = "draining"
  /\ server' = "stopping"
  /\ shutdown' = TRUE
  /\ UNCHANGED <<phase, name, lease, at, used, raceVars, gone, result, stats, record,
                 awaited>>

Drained ==
  /\ server = "draining"
  /\ awaited \cap Pending = {}
  /\ server' = "stopping"
  /\ shutdown' = TRUE
  /\ UNCHANGED <<phase, name, lease, at, used, raceVars, gone, result, stats, record,
                 awaited>>

ManagerStopped ==
  /\ server = "stopping"
  /\ Manager!Up = {}
  /\ server' = "closed"
  /\ shutdown' = FALSE
  /\ UNCHANGED <<phase, name, lease, at, used, raceVars, gone, result, stats, record,
                 awaited>>

-----------------------------------------------------------------------------
(* The manager on its own.  A new process is not one of those a request is *)
(* still connected to.                                                     *)

ManagerStep ==
  /\ \/ \E b \in Backends, m \in Models :
          /\ server = "serving"
          /\ \E r \in Requests : at[r] = "ensure" /\ used[r] = m
          /\ \A r \in Requests :
               upstream[r] = b => at[r] = "ended" /\ cleanup[r] # "running"
          /\ Manager!Launch(b, m)
     \/ \E b \in Backends : Manager!TakeDown(b)
     \/ "crash" \in Faults /\ \E b \in Backends : Manager!Die(b)
  /\ UNCHANGED <<at, used, raceVars, gone, result, stats, record, lifespanVars>>

Progress(r) ==
  \/ Extract(r)
  \/ EnsureRunning(r)
  \/ FallbackModel(r)
  \/ BodyRead(r)
  \/ BodyLost(r)
  \/ RaceEnds(r)
  \/ HandOver(r)
  \/ Discarded(r)
  \/ ResponseStarts(r)
  \/ Stream(r)
  \/ StreamFinalized(r)

Helper(r) ==
  \/ SendReturns(r)
  \/ WatchReturns(r)
  \/ Cleanup(r)
  \/ RecordWritten(r)

Lifespan ==
  \/ ShutdownBegins
  \/ Drained
  \/ ManagerStopped

Next ==
  \/ \E r \in Requests : Receive(r) \/ Progress(r) \/ Helper(r) \/ Cancel(r) \/ Leave(r)
  \/ Lifespan
  \/ ManagerStep

Spec == Init /\ [][Next]_vars
-----------------------------------------------------------------------------
(* Safety.                                                                 *)

MaybeBackend == Backends \cup {None}
Claiming == {"body", "racing", "handoff", "discarding", "handed", "stream", "orphaned",
             "unsent"}
Places == {"new", "extract", "ensure", "fallback", "ended"} \cup Claiming

\* The types of the app's counters and of each handler's local state.
TypeOK ==
  /\ phase \in [Backends -> {"off", "starting", "ready", "dead"}]
  /\ name \in [Backends -> Models \cup {None}]
  /\ lease \in [Requests -> MaybeBackend]
  /\ shutdown \in BOOLEAN
  /\ at \in [Requests -> Places]
  /\ used \in [Requests -> Models \cup {None}]
  /\ send \in [Requests -> {"none", "flying", "answered", "failed", "cancelled"}]
  /\ watch \in [Requests -> {"none", "watching", "gone", "cancelled"}]
  /\ cleanup \in [Requests -> {"none", "running", "done"}]
  /\ outcome \in [Requests -> {"none", "left", "failed", "cancelled"}]
  /\ upstream \in [Requests -> MaybeBackend]
  /\ open \subseteq Requests /\ gone \subseteq Requests
  /\ result \in [Requests -> {"none", "ok", "error", "left", "cancelled"}]
  /\ stats \in [total : Nat, active : Nat, errors : Nat]
  /\ record \in [Requests -> {"none", "pending", "saved", "dropped"}]
  /\ server \in {"serving", "draining", "stopping", "closed"}
  /\ awaited \subseteq Requests

\* Whatever path a request takes (rejected, abandoned, failed, cancelled,
\* streamed, finalized), it is counted in once and out once: request_finished
\* floors its counter at 0 and would hide a second settlement.
StatsBalance ==
  /\ stats.total = Cardinality({r \in Requests : at[r] # "new"})
  /\ stats.active = Cardinality({r \in Requests : at[r] \notin {"new", "ended"}})
  /\ stats.errors = Cardinality({r \in Requests : result[r] = "error"})

\* A request holds its claim on a backend from the manager's answer to its
\* own settlement: no path settles one and not the other.
ClaimMatches ==
  \A r \in Requests : lease[r] # None <=> at[r] \in Claiming

\* An upstream response is open, or a send or a disconnect watcher running,
\* only while the handler that started it is at work or its shielded
\* clean-up is, however often the handler is cancelled.
NothingLeftBehind ==
  \A r \in Requests :
    \/ cleanup[r] = "running"
    \/ at[r] \in {"racing", "handoff"}
    \/ at[r] \in {"handed", "stream", "orphaned", "unsent"}
         /\ send[r] = "answered" /\ watch[r] = "cancelled"
    \/ r \notin open /\ send[r] # "flying" /\ watch[r] # "watching"

\* The client's disconnect wins the race: a request it was seen for is
\* neither served nor counted as an error.
DisconnectWins ==
  \A r \in Requests : watch[r] = "gone" => result[r] \notin {"ok", "error"}

\* No ready backend a request has been forwarded to is taken down under it,
\* whatever other models need ("a concurrent ensure_running for another
\* model cannot evict this one while we're mid-request").
MidRequest(r) == at[r] \in {"racing", "handoff", "handed", "stream"}
NeverEvictedMidRequest ==
  [][\A b \in Backends :
       /\ phase[b] = "ready"
       /\ phase'[b] = "off"
       => shutdown \/ \A r \in Requests : MidRequest(r) => upstream[r] # b]_vars

\* Once the app is closed no observe record is left half-way ("used at
\* shutdown so no record is lost").
RecordsSurviveShutdown ==
  server \in {"stopping", "closed"} => Pending = {}

-----------------------------------------------------------------------------
(* Liveness.  The event loop runs what is ready; a client's body arrives   *)
(* or the client leaves, an upstream answers or times out, a stream ends,  *)
(* a start settles (ServerManager's EveryRequestSettles).                  *)

Fairness ==
  \A r \in Requests : WF_vars(Progress(r)) /\ WF_vars(SendReturns(r)) /\ WF_vars(Cleanup(r))

FairSpec == Spec /\ Fairness

\* A backend a request claimed is given back, so that it can be drained,
\* evicted, restarted or stopped when idle ("settle the claim exactly once").
EveryClaimIsReturned ==
  \A r \in Requests : []<>(lease[r] = None)

\* Every upstream response that was opened is closed.
EveryResponseIsClosed ==
  \A r \in Requests : []<>(r \notin open)

\* Nothing a request holds is kept for ever, neither a claim nor a response.
NothingIsKept == EveryClaimIsReturned /\ EveryResponseIsClosed
=============================================================================
