----------------------------- MODULE BackendLease -----------------------------
(***************************************************************************)
(* What drove's ServerManager promises its callers, with no lock, no       *)
(* registry and no task in sight: backends come up, become ready, are      *)
(* leased to requests only while ready, and go down only when nobody holds *)
(* a lease on them, unless their process dies or the manager shuts down.   *)
(* At most Limit backends (0 = any number) are up at a time, and at most   *)
(* one stands for each model.                                              *)
(***************************************************************************)
EXTENDS Integers, FiniteSets

CONSTANTS Backends, Requests, Models, None, Limit

VARIABLES
  phase,     \* of each backend: "off", "starting", "ready" or "dead"
  name,      \* the model each backend that is not off serves
  lease,     \* the backend each request holds
  shutdown   \* the manager is stopping models whoever uses them

vars == <<phase, name, lease, shutdown>>

Up == {b \in Backends : phase[b] \in {"starting", "ready"}}
Leased(b) == \E r \in Requests : lease[r] = b
Serving(m) == {b \in Backends : phase[b] # "off" /\ name[b] = m}

Init ==
  /\ phase = [b \in Backends |-> "off"]
  /\ name = [b \in Backends |-> None]
  /\ lease = [r \in Requests |-> None]
  /\ shutdown = FALSE

Launch(b, m) ==
  /\ phase[b] = "off"
  /\ ~Leased(b)
  /\ Serving(m) = {}
  /\ Limit > 0 => Cardinality(Up) < Limit
  /\ phase' = [phase EXCEPT ![b] = "starting"]
  /\ name' = [name EXCEPT ![b] = m]
  /\ UNCHANGED <<lease, shutdown>>

\* A start succeeds: the request that made it holds the first lease.
Publish(b, r) ==
  /\ phase[b] = "starting"
  /\ lease[r] = None
  /\ phase' = [phase EXCEPT ![b] = "ready"]
  /\ lease' = [lease EXCEPT ![r] = b]
  /\ UNCHANGED <<name, shutdown>>

Lease(b, r) ==
  /\ phase[b] = "ready"
  /\ lease[r] = None
  /\ lease' = [lease EXCEPT ![r] = b]
  /\ UNCHANGED <<phase, name, shutdown>>

Return(r) ==
  /\ lease[r] # None
  /\ lease' = [lease EXCEPT ![r] = None]
  /\ UNCHANGED <<phase, name, shutdown>>

\* A start is given up, a dead backend is cleaned up, an idle one retired.
TakeDown(b) ==
  /\ \/ phase[b] \in {"starting", "dead"}
     \/ phase[b] = "ready" /\ (Leased(b) => shutdown)
  /\ phase' = [phase EXCEPT ![b] = "off"]
  /\ name' = [name EXCEPT ![b] = None]
  /\ UNCHANGED <<lease, shutdown>>

Die(b) ==
  /\ b \in Up
  /\ phase' = [phase EXCEPT ![b] = "dead"]
  /\ UNCHANGED <<name, lease, shutdown>>

Shutdown == shutdown' = ~shutdown /\ UNCHANGED <<phase, name, lease>>

\* Most steps of a manager are none of these: tried first, for TLC's sake.
Stutter == UNCHANGED vars

Next ==
  \/ Stutter
  \/ \E b \in Backends, m \in Models : Launch(b, m)
  \/ \E b \in Backends : TakeDown(b) \/ Die(b)
  \/ \E b \in Backends, r \in Requests : Publish(b, r) \/ Lease(b, r)
  \/ \E r \in Requests : Return(r)
  \/ Shutdown

Spec == Init /\ [][Next]_vars
=============================================================================
