----------------------------- MODULE ProxyProofs -----------------------------
(***************************************************************************)
(* Proofs about Proxy, for every number of requests, backends and models:  *)
(* the type invariant, and the invariants of the claim, of the counters,   *)
(* of the send race and of the lifespan.  Each invariant has one lemma     *)
(* that a step preserves it, with one step per action.                     *)
(***************************************************************************)
EXTENDS Proxy, FiniteSetTheorems, TLAPS

\* What one request does, its helper tasks included.
RequestStep(r) == Receive(r) \/ Progress(r) \/ Helper(r) \/ Cancel(r) \/ Leave(r)

LEMMA NextCases ==
  ASSUME [Next]_vars
  PROVE  \/ \E r \in Requests : RequestStep(r)
         \/ Lifespan \/ ManagerStep \/ UNCHANGED vars
  BY DEF Next, RequestStep

-----------------------------------------------------------------------------
(* Part 1.  Types.                                                         *)

\* An abandoned send always has its reason.
Reasoned == \A r \in Requests : at[r] = "discarding" => outcome[r] # "none"
Typed == TypeOK /\ Reasoned

LEMMA InitTyped == Init => Typed
<1>. SUFFICES ASSUME Init PROVE Typed
  OBVIOUS
<1>1. shutdown \in BOOLEAN
  BY Zenon DEF Init, Manager!Init
<1>. QED
  BY <1>1 DEF Init, Typed, TypeOK, Reasoned, MaybeBackend, Places, Claiming, Manager!Init

LEMMA RequestTyped ==
  ASSUME Typed, NEW r \in Requests, RequestStep(r)
  PROVE  Typed'
<1> USE ProxyAssumption DEF Typed, TypeOK, Reasoned, MaybeBackend, Places, Claiming, managerVars, raceVars, lifespanVars
<1>1. CASE Receive(r)
  BY <1>1 DEF Receive, Goto
<1>2. CASE Extract(r)
  BY <1>2 DEF Extract, Goto, Reject, Settle, Plus
<1>3. CASE EnsureRunning(r)
  BY <1>3 DEF EnsureRunning, Goto, Reject, Settle, Plus, Claimed, Manager!Lease, Manager!Publish, Manager!Serving
<1>4. CASE FallbackModel(r)
  BY <1>4 DEF FallbackModel, Goto, Reject, Settle, Plus, Claimed, Manager!Lease
<1>5. CASE BodyRead(r)
  BY <1>5 DEF BodyRead, Goto, Manager!Serving
<1>6. CASE BodyLost(r)
  BY <1>6 DEF BodyLost, GiveUp, Release, Settle, Plus
<1>7. CASE RaceEnds(r)
  BY <1>7 DEF RaceEnds, Discard, Goto
<1>8. CASE HandOver(r)
  BY <1>8 DEF HandOver, Discard, Goto
<1>9. CASE Discarded(r)
  BY <1>9 DEF Discarded, GiveUp, Release, Settle, Plus, ResultOf
<1>10. CASE ResponseStarts(r)
  BY <1>10 DEF ResponseStarts, Goto
<1>11. CASE Stream(r)
  BY <1>11 DEF Stream, StreamEnds, Submit, Goto, Release, Settle, Plus
<1>12. CASE StreamFinalized(r)
  BY <1>12 DEF StreamFinalized, StreamEnds, Release, Settle, Plus
<1>13. CASE SendReturns(r)
  BY <1>13 DEF SendReturns
<1>14. CASE WatchReturns(r)
  BY <1>14 DEF WatchReturns
<1>15. CASE Cleanup(r)
  BY <1>15 DEF Cleanup
<1>16. CASE RecordWritten(r)
  BY <1>16 DEF RecordWritten
<1>17. CASE Cancel(r)
  BY <1>17 DEF Cancel, Reject, GiveUp, Release, Discard, Goto, Settle, Plus
<1>18. CASE Leave(r)
  BY <1>18 DEF Leave
<1>. QED
  BY <1>1, <1>2, <1>3, <1>4, <1>5, <1>6, <1>7, <1>8, <1>9, <1>10, <1>11, <1>12, <1>13, <1>14, <1>15, <1>16, <1>17, <1>18
  DEF RequestStep, Progress, Helper

LEMMA SystemTyped ==
  ASSUME Typed, Lifespan \/ ManagerStep
  PROVE  Typed'
<1> USE ProxyAssumption DEF Typed, TypeOK, Reasoned, MaybeBackend, managerVars, raceVars, lifespanVars
<1>1. CASE Lifespan
  <2>1. shutdown' \in BOOLEAN
    BY <1>1, Zenon DEF Lifespan, ShutdownBegins, Drained, ManagerStopped
  <2>. QED
    BY <1>1, <2>1 DEF Lifespan, ShutdownBegins, Drained, ManagerStopped, Pending
<1>2. CASE ManagerStep
  <2>1. /\ phase' \in [Backends -> {"off", "starting", "ready", "dead"}]
        /\ name' \in [Backends -> Models \cup {None}]
        /\ UNCHANGED <<lease, shutdown>>
    BY <1>2 DEF ManagerStep, Manager!Launch, Manager!TakeDown, Manager!Die
  <2>. QED
    BY <1>2, <2>1 DEF ManagerStep, Places, Claiming
<1>. QED
  BY <1>1, <1>2

LEMMA NextTyped == Typed /\ [Next]_vars => Typed'
<1>. SUFFICES ASSUME Typed, [Next]_vars PROVE Typed'
  OBVIOUS
<1>1. CASE UNCHANGED vars
  <2>1. TypeOK'
    BY <1>1 DEF vars, Typed, TypeOK, MaybeBackend, Places, Claiming, managerVars, raceVars, lifespanVars
  <2>2. Reasoned'
    BY <1>1 DEF vars, Typed, Reasoned, managerVars, raceVars, lifespanVars
  <2>. QED
    BY <2>1, <2>2 DEF Typed
<1>. QED
  BY <1>1, NextCases, RequestTyped, SystemTyped

\* Every counter, map and local state of the proxy keeps its type.
THEOREM TypeInvariant == Spec => []TypeOK
<1>1. Typed => TypeOK
  BY DEF Typed
<1>. QED
  BY <1>1, InitTyped, NextTyped, PTL DEF Spec

\* The same, with the reason every abandoned send is discarded for.
THEOREM TypedInvariant == Spec => []Typed
  BY InitTyped, NextTyped, PTL DEF Spec


-----------------------------------------------------------------------------
(* Part 2.  What each request's own state keeps: its claim, its result and *)
(* the tasks of its send race.  A step of one request leaves every other's *)
(* alone, so the invariant is one predicate of a request.                  *)

Claims(r) == (lease[r] # None) <=> (at[r] \in Claiming)
Unsettled(r) == at[r] # "ended" => result[r] = "none"
Tidy(r) ==
  \/ cleanup[r] = "running"
  \/ at[r] \in {"racing", "handoff"}
  \/ /\ at[r] \in {"handed", "stream", "orphaned", "unsent"}
     /\ send[r] = "answered" /\ watch[r] = "cancelled"
  \/ r \notin open /\ send[r] # "flying" /\ watch[r] # "watching"
\* What `handoff` is reached with.
Handing(r) ==
  at[r] = "handoff" => watch[r] = "cancelled" /\ send[r] \in {"answered", "failed"}
\* A watcher nobody cancelled belongs to a race, or to one a disconnect or a
\* cancellation ended.
Watched(r) ==
  watch[r] \in {"watching", "gone"} =>
    /\ result[r] \notin {"ok", "error"}
    /\ \/ at[r] \in {"racing", "ended"}
       \/ at[r] = "discarding" /\ outcome[r] \in {"left", "cancelled"}

Local(r) == Claims(r) /\ Unsettled(r) /\ Tidy(r) /\ Handing(r) /\ Watched(r)
LocalInv == \A r \in Requests : Local(r)

\* The other requests' claims, results and tasks stay as they are.
Others(r) ==
  \A q \in Requests \ {r} :
    /\ lease'[q] = lease[q] /\ at'[q] = at[q] /\ result'[q] = result[q]
    /\ cleanup'[q] = cleanup[q] /\ send'[q] = send[q] /\ watch'[q] = watch[q]
    /\ outcome'[q] = outcome[q] /\ (q \in open' <=> q \in open)

LEMMA InitLocal == Init => LocalInv
  BY ProxyAssumption DEF Init, LocalInv, Local, Claims, Unsettled, Tidy, Handing, Watched, Claiming, Manager!Init

LEMMA RequestLocal ==
  ASSUME Typed, NEW r \in Requests, Local(r), RequestStep(r)
  PROVE  Local(r)'
<1> USE ProxyAssumption DEF Typed, TypeOK, Reasoned, MaybeBackend, Places, Claiming, managerVars,
        raceVars, lifespanVars, Local, Claims, Unsettled, Tidy, Handing, Watched
<1>1. CASE Receive(r)
  BY <1>1 DEF Receive, Goto
<1>2. CASE Extract(r)
  BY <1>2 DEF Extract, Goto, Reject, Settle
<1>3. CASE EnsureRunning(r)
  BY <1>3 DEF EnsureRunning, Goto, Reject, Settle, Claimed, Manager!Lease, Manager!Publish, Manager!Serving
<1>4. CASE FallbackModel(r)
  BY <1>4 DEF FallbackModel, Goto, Reject, Settle, Claimed, Manager!Lease
<1>5. CASE BodyRead(r)
  BY <1>5 DEF BodyRead, Goto, Manager!Serving
<1>6. CASE BodyLost(r)
  BY <1>6 DEF BodyLost, GiveUp, Release, Settle
<1>7. CASE RaceEnds(r)
  BY <1>7 DEF RaceEnds, Discard, Goto
<1>8. CASE HandOver(r)
  BY <1>8 DEF HandOver, Discard, Goto
<1>9. CASE Discarded(r)
  BY <1>9 DEF Discarded, GiveUp, Release, Settle, ResultOf
<1>10. CASE ResponseStarts(r)
  BY <1>10 DEF ResponseStarts, Goto
<1>11. CASE Stream(r)
  BY <1>11 DEF Stream, StreamEnds, Submit, Goto, Release, Settle
<1>12. CASE StreamFinalized(r)
  BY <1>12 DEF StreamFinalized, StreamEnds, Release, Settle
<1>13. CASE SendReturns(r)
  BY <1>13 DEF SendReturns
<1>14. CASE WatchReturns(r)
  BY <1>14 DEF WatchReturns
<1>15. CASE Cleanup(r)
  BY <1>15 DEF Cleanup
<1>16. CASE RecordWritten(r)
  BY <1>16 DEF RecordWritten
<1>17. CASE Cancel(r)
  BY <1>17 DEF Cancel, Reject, GiveUp, Release, Discard, Goto, Settle
<1>18. CASE Leave(r)
  BY <1>18 DEF Leave
<1>. QED
  BY <1>1, <1>2, <1>3, <1>4, <1>5, <1>6, <1>7, <1>8, <1>9, <1>10, <1>11, <1>12, <1>13, <1>14, <1>15, <1>16, <1>17, <1>18
  DEF RequestStep, Progress, Helper

\* A step of r's changes no other request's claim, result or tasks.
LEMMA RequestAlone ==
  ASSUME Typed, NEW r \in Requests, RequestStep(r)
  PROVE  Others(r)
<1> USE DEF Typed, TypeOK, MaybeBackend, managerVars, raceVars, lifespanVars, Others
<1>1. CASE Receive(r) \/ Extract(r) \/ EnsureRunning(r) \/ FallbackModel(r)
  BY <1>1 DEF Receive, Extract, EnsureRunning, FallbackModel, Goto, Reject, Settle, Claimed,
              Manager!Lease, Manager!Publish
<1>2. CASE BodyRead(r) \/ BodyLost(r)
  BY <1>2 DEF BodyRead, BodyLost, Goto, GiveUp, Release, Settle
<1>3. CASE RaceEnds(r) \/ HandOver(r) \/ Discarded(r) \/ ResponseStarts(r)
  BY <1>3 DEF RaceEnds, HandOver, Discarded, ResponseStarts, Discard, GiveUp, Release, Settle, Goto
<1>4. CASE Stream(r) \/ StreamFinalized(r)
  BY <1>4 DEF Stream, StreamFinalized, StreamEnds, Goto, Release, Settle
<1>5. CASE Helper(r)
  BY <1>5 DEF Helper, SendReturns, WatchReturns, Cleanup, RecordWritten
<1>6. CASE Cancel(r)
  BY <1>6 DEF Cancel, Reject, GiveUp, Release, Discard, Goto, Settle
<1>7. CASE Leave(r)
  BY <1>7 DEF Leave
<1>. QED
  BY <1>1, <1>2, <1>3, <1>4, <1>5, <1>6, <1>7 DEF RequestStep, Progress

LEMMA LocalFrame ==
  ASSUME NEW q \in Requests, Local(q),
         lease'[q] = lease[q], at'[q] = at[q], result'[q] = result[q],
         cleanup'[q] = cleanup[q], send'[q] = send[q], watch'[q] = watch[q],
         outcome'[q] = outcome[q], q \in open' <=> q \in open
  PROVE  Local(q)'
  BY DEF Local, Claims, Unsettled, Tidy, Handing, Watched

LEMMA NextLocal == Typed /\ LocalInv /\ [Next]_vars => LocalInv'
<1>. SUFFICES ASSUME Typed, LocalInv, [Next]_vars, NEW q \in Requests PROVE Local(q)'
  BY DEF LocalInv
<1>1. ASSUME NEW r \in Requests, RequestStep(r) PROVE Local(q)'
  <2>1. CASE q = r
    BY <1>1, <2>1, RequestLocal DEF LocalInv
  <2>2. CASE q # r
    BY <1>1, <2>2, RequestAlone, LocalFrame DEF LocalInv, Others
  <2>. QED
    BY <2>1, <2>2
<1>2. CASE Lifespan \/ ManagerStep
  <2>1. UNCHANGED <<lease, at, result, cleanup, send, watch, outcome, open>>
    BY <1>2 DEF Lifespan, ShutdownBegins, Drained, ManagerStopped, ManagerStep, managerVars, raceVars,
                Manager!Launch, Manager!TakeDown, Manager!Die
  <2>. QED
    BY <2>1, LocalFrame DEF LocalInv
<1>3. CASE UNCHANGED vars
  BY <1>3, LocalFrame DEF LocalInv, vars, managerVars, raceVars
<1>. QED
  BY <1>1, <1>2, <1>3, NextCases

\* Every request keeps its claim, its result and its send race's tasks in
\* step, whatever the other requests do.
THEOREM LocalInvariant == Spec => [](Typed /\ LocalInv)
  BY InitTyped, NextTyped, InitLocal, NextLocal, PTL DEF Spec

\* A claim lives exactly as long as its request is at work: what proxy.py
\* promises with `_settle_claim` on every path.
THEOREM ClaimInvariant == Spec => []ClaimMatches
<1>1. LocalInv => ClaimMatches
  BY DEF LocalInv, Local, Claims, ClaimMatches
<1>. QED
  BY <1>1, LocalInvariant, PTL

\* No send, watcher or response outlives its handler and its clean-up.
THEOREM TidyInvariant == Spec => []NothingLeftBehind
<1>1. LocalInv => NothingLeftBehind
  BY DEF LocalInv, Local, Tidy, NothingLeftBehind
<1>. QED
  BY <1>1, LocalInvariant, PTL

\* A disconnect seen by the watcher settles its request as abandoned.
THEOREM DisconnectInvariant == Spec => []DisconnectWins
<1>1. LocalInv => DisconnectWins
  BY DEF LocalInv, Local, Watched, DisconnectWins
<1>. QED
  BY <1>1, LocalInvariant, PTL

-----------------------------------------------------------------------------
(* Part 3.  The counters.  A step counts one request in, counts one out, or *)
(* leaves the three sets the counters stand for as they are.               *)

Counted == {r \in Requests : at[r] # "new"}
Busy == {r \in Requests : at[r] \notin {"new", "ended"}}
Failed == {r \in Requests : result[r] = "error"}

CountsIn(r) ==
  /\ r \notin Counted
  /\ Counted' = Counted \cup {r} /\ Busy' = Busy \cup {r} /\ Failed' = Failed
  /\ stats' = [total |-> stats.total + 1, active |-> stats.active + 1,
               errors |-> stats.errors]
CountsOut(r) ==
  /\ r \in Busy \ Failed
  /\ Counted' = Counted /\ Busy' = Busy \ {r}
  /\ \E how \in {"ok", "error", "left", "cancelled"} :
       /\ Settle(r, how)
       /\ Failed' = IF how = "error" THEN Failed \cup {r} ELSE Failed
CountsNothing ==
  Counted' = Counted /\ Busy' = Busy /\ Failed' = Failed /\ stats' = stats

LEMMA SettleCounts ==
  ASSUME Typed, NEW r \in Requests, Local(r), at[r] \notin {"new", "ended"},
         NEW how \in {"ok", "error", "left", "cancelled"}, Settle(r, how)
  PROVE  CountsOut(r)
<1>1. r \in Busy \ Failed
  BY DEF Busy, Failed, Local, Unsettled
<1>2. Counted' = Counted /\ Busy' = Busy \ {r}
  BY DEF Counted, Busy, Settle, Typed, TypeOK
<1>3. Failed' = IF how = "error" THEN Failed \cup {r} ELSE Failed
  <2>1. CASE how = "error"
    BY <2>1 DEF Failed, Settle, Typed, TypeOK
  <2>2. CASE how # "error"
    BY <2>2, <1>1 DEF Failed, Settle, Typed, TypeOK
  <2>. QED
    BY <2>1, <2>2
<1>. QED
  BY <1>1, <1>2, <1>3 DEF CountsOut

\* A handler that moves on is neither counted in nor out.
LEMMA MoveCounts ==
  ASSUME Typed, NEW r \in Requests, at[r] \notin {"new", "ended"},
         NEW place \in Places \ {"new", "ended"}, Goto(r, place),
         UNCHANGED <<result, stats>>
  PROVE  CountsNothing
  BY DEF CountsNothing, Counted, Busy, Failed, Goto, Typed, TypeOK

LEMMA StillCounts ==
  ASSUME UNCHANGED <<at, result, stats>>
  PROVE  CountsNothing
  BY DEF CountsNothing, Counted, Busy, Failed

LEMMA RequestCounts ==
  ASSUME Typed, NEW r \in Requests, Local(r), RequestStep(r)
  PROVE  CountsIn(r) \/ CountsOut(r) \/ CountsNothing
<1> USE DEF Places, Claiming, managerVars, raceVars, lifespanVars
<1>1. CASE Receive(r)
  BY <1>1 DEF Receive, Goto, CountsIn, Counted, Busy, Failed, Typed, TypeOK
<1>2. CASE Extract(r)
  BY <1>2, SettleCounts, MoveCounts DEF Extract, Reject
<1>3. CASE EnsureRunning(r)
  BY <1>3, SettleCounts, MoveCounts DEF EnsureRunning, Reject, Claimed
<1>4. CASE FallbackModel(r)
  BY <1>4, SettleCounts, MoveCounts DEF FallbackModel, Reject, Claimed
<1>5. CASE BodyRead(r)
  BY <1>5, MoveCounts DEF BodyRead
<1>6. CASE BodyLost(r)
  BY <1>6, SettleCounts DEF BodyLost, GiveUp
<1>7. CASE RaceEnds(r)
  BY <1>7, MoveCounts DEF RaceEnds, Discard
<1>8. CASE HandOver(r)
  BY <1>8, MoveCounts DEF HandOver, Discard
<1>9. CASE Discarded(r)
  <2>1. ResultOf[outcome[r]] \in {"ok", "error", "left", "cancelled"}
    BY <1>9 DEF Discarded, ResultOf, Typed, TypeOK, Reasoned
  <2>. QED
    BY <1>9, <2>1, SettleCounts DEF Discarded, GiveUp
<1>10. CASE ResponseStarts(r)
  BY <1>10, MoveCounts DEF ResponseStarts
<1>11. CASE Stream(r)
  BY <1>11, SettleCounts, MoveCounts DEF Stream, StreamEnds
<1>12. CASE StreamFinalized(r)
  BY <1>12, SettleCounts DEF StreamFinalized, StreamEnds
<1>13. CASE Helper(r)
  BY <1>13, StillCounts DEF Helper, SendReturns, WatchReturns, Cleanup, RecordWritten
<1>14. CASE Cancel(r)
  BY <1>14, SettleCounts, MoveCounts DEF Cancel, Reject, GiveUp, Discard
<1>15. CASE Leave(r)
  BY <1>15, StillCounts DEF Leave
<1>. QED
  BY <1>1, <1>2, <1>3, <1>4, <1>5, <1>6, <1>7, <1>8, <1>9, <1>10, <1>11, <1>12, <1>13, <1>14, <1>15
  DEF RequestStep, Progress

LEMMA SetsFinite ==
  ASSUME Typed
  PROVE  /\ IsFiniteSet(Counted) /\ Cardinality(Counted) \in Nat
         /\ IsFiniteSet(Busy) /\ Cardinality(Busy) \in Nat
         /\ IsFiniteSet(Failed) /\ Cardinality(Failed) \in Nat
  BY ProxyAssumption, FS_Subset, FS_CardinalityType DEF Counted, Busy, Failed

Balance ==
  /\ stats.total = Cardinality(Counted)
  /\ stats.active = Cardinality(Busy)
  /\ stats.errors = Cardinality(Failed)

LEMMA InitBalance == Init => Balance
<1>. SUFFICES ASSUME Init PROVE Balance
  OBVIOUS
<1>1. Counted = {} /\ Busy = {} /\ Failed = {}
  BY DEF Init, Counted, Busy, Failed
<1>. QED
  BY <1>1, FS_EmptySet DEF Init, Balance

LEMMA CountsInKeeps ==
  ASSUME Typed, Balance, NEW r \in Requests, CountsIn(r)
  PROVE  Balance'
<1>1. r \notin Counted /\ r \notin Busy
  BY DEF CountsIn, Counted, Busy
<1>2. Cardinality(Counted \cup {r}) = Cardinality(Counted) + 1
  BY <1>1, SetsFinite, FS_AddElement
<1>3. Cardinality(Busy \cup {r}) = Cardinality(Busy) + 1
  BY <1>1, SetsFinite, FS_AddElement
<1>. QED
  BY <1>2, <1>3 DEF CountsIn, Balance

LEMMA CountsOutKeeps ==
  ASSUME Typed, Balance, NEW r \in Requests, CountsOut(r)
  PROVE  Balance'
<1>1. PICK how \in {"ok", "error", "left", "cancelled"} :
        /\ Settle(r, how)
        /\ Failed' = IF how = "error" THEN Failed \cup {r} ELSE Failed
  BY DEF CountsOut
<1>2. Cardinality(Busy \ {r}) = Cardinality(Busy) - 1 /\ Cardinality(Busy) > 0
  <2>1. Cardinality(Busy \ {r}) = Cardinality(Busy) - 1
    BY SetsFinite, FS_RemoveElement DEF CountsOut
  <2>2. Cardinality(Busy \ {r}) \in Nat
    BY SetsFinite, FS_Subset, FS_CardinalityType
  <2>. QED
    BY <2>1, <2>2, SetsFinite
<1>3. Cardinality(Failed \cup {r}) = Cardinality(Failed) + 1
  BY SetsFinite, FS_AddElement DEF CountsOut
<1>4. Cardinality(Failed') = Cardinality(Failed) + Plus(how = "error")
  BY <1>1, <1>3, SetsFinite DEF Plus
<1>5. stats' = [total |-> stats.total, active |-> stats.active - 1,
                errors |-> stats.errors + Plus(how = "error")]
  BY <1>1, <1>2 DEF Settle, Balance
<1>. QED
  BY <1>2, <1>4, <1>5 DEF CountsOut, Balance

LEMMA NextBalance == Typed /\ LocalInv /\ Balance /\ [Next]_vars => Balance'
<1>. SUFFICES ASSUME Typed, LocalInv, Balance, [Next]_vars PROVE Balance'
  OBVIOUS
<1>0. ASSUME CountsNothing PROVE Balance'
  BY <1>0 DEF CountsNothing, Balance
<1>1. ASSUME NEW r \in Requests, RequestStep(r) PROVE Balance'
  BY <1>0, <1>1, RequestCounts, CountsInKeeps, CountsOutKeeps DEF LocalInv
<1>2. CASE Lifespan \/ ManagerStep
  BY <1>0, <1>2, StillCounts DEF Lifespan, ShutdownBegins, Drained, ManagerStopped, ManagerStep
<1>3. CASE UNCHANGED vars
  BY <1>0, <1>3, StillCounts DEF vars
<1>. QED
  BY <1>1, <1>2, <1>3, NextCases

\* /status is right whatever the requests went through: each is counted in
\* once and out once, and the floor of request_finished is never needed.
THEOREM StatsInvariant == Spec => []StatsBalance
<1>1. Balance => StatsBalance
  BY DEF Balance, StatsBalance, Counted, Busy, Failed
<1>. QED
  BY <1>1, InitTyped, NextTyped, InitLocal, NextLocal, InitBalance, NextBalance, PTL DEF Spec

-----------------------------------------------------------------------------
(* Part 4.  The lifespan.  Records are submitted by streams, and no stream  *)
(* is left once the server drains; what was pending then is waited for.     *)

Drains ==
  /\ server # "serving" => \A r \in Requests : at[r] \in Over \cup {"new"}
  /\ server = "draining" => Pending \subseteq awaited
  /\ server \in {"stopping", "closed"} => Pending = {}
  /\ shutdown => server = "stopping"

LEMMA InitDrains == Init => Drains
<1>. SUFFICES ASSUME Init PROVE Drains
  OBVIOUS
<1>1. ~shutdown
  BY Zenon DEF Init, Manager!Init
<1>. QED
  BY <1>1 DEF Init, Drains

\* What a request does once the server no longer serves.
LEMMA RequestDrains ==
  ASSUME Typed, Drains, NEW r \in Requests, RequestStep(r)
  PROVE  /\ shutdown' = shutdown /\ server' = server /\ awaited' = awaited
         /\ server # "serving" => /\ \A q \in Requests : at'[q] \in Over \cup {"new"}
                                  /\ Pending' \subseteq Pending
<1> USE DEF managerVars, raceVars, lifespanVars
<1>1. shutdown' = shutdown /\ server' = server /\ awaited' = awaited
  BY DEF RequestStep, Progress, Helper, Receive, Extract, EnsureRunning, FallbackModel, BodyRead, BodyLost,
         RaceEnds, HandOver, Discarded, ResponseStarts, Stream, StreamFinalized, SendReturns,
         WatchReturns, Cleanup, RecordWritten, Cancel, Leave, Goto, Reject, GiveUp, Claimed, Discard,
         StreamEnds, Manager!Lease, Manager!Publish
<1>2. ASSUME server # "serving"
      PROVE  (\A q \in Requests : at'[q] \in Over \cup {"new"}) /\ Pending' \subseteq Pending
  <2> USE DEF Typed, TypeOK, Over, Drains, Pending
  <2>1. at[r] \in Over \cup {"new"}
    BY <1>2
  <2>2. CASE StreamFinalized(r)
    BY <1>2, <2>2 DEF StreamFinalized, StreamEnds, Settle
  <2>3. CASE Helper(r)
    BY <1>2, <2>3 DEF Helper, SendReturns, WatchReturns, Cleanup, RecordWritten
  <2>4. CASE Leave(r)
    BY <1>2, <2>4 DEF Leave
  <2>5. CASE (Progress(r) /\ ~StreamFinalized(r)) \/ Receive(r) \/ Cancel(r)
    BY <1>2, <2>1, <2>5 DEF Progress, Receive, Extract, EnsureRunning, FallbackModel, BodyRead,
       BodyLost, RaceEnds, HandOver, Discarded, ResponseStarts, Stream, Cancel
  <2>. QED
    BY <2>2, <2>3, <2>4, <2>5 DEF RequestStep
<1>. QED
  BY <1>1, <1>2

LEMMA NextDrains == Typed /\ Drains /\ [Next]_vars => Drains'
<1>. SUFFICES ASSUME Typed, Drains, [Next]_vars PROVE Drains'
  OBVIOUS
<1>1. ASSUME NEW r \in Requests, RequestStep(r) PROVE Drains'
  BY <1>1, RequestDrains DEF Drains
<1>2. CASE ShutdownBegins
  BY <1>2 DEF ShutdownBegins, Drains, managerVars, Pending
<1>3. CASE Drained
  <2>1. Pending' = {}
    BY <1>3 DEF Drained, Drains, Pending
  <2>2. UNCHANGED at /\ server' = "stopping"
    BY <1>3 DEF Drained
  <2>. QED
    BY <2>1, <2>2, <1>3 DEF Drains, Drained
<1>4. CASE ManagerStopped
  <2>1. ~shutdown'
    BY <1>4, Zenon DEF ManagerStopped
  <2>. QED
    BY <1>4, <2>1 DEF ManagerStopped, Drains, Pending
<1>5. CASE ManagerStep
  <2>1. UNCHANGED <<shutdown, at, record, lifespanVars>>
    BY <1>5 DEF ManagerStep, Manager!Launch, Manager!TakeDown, Manager!Die
  <2>. QED
    BY <2>1 DEF Drains, Pending, lifespanVars
<1>6. CASE UNCHANGED vars
  BY <1>6 DEF vars, managerVars, lifespanVars, Drains, Pending
<1>. QED
  BY <1>1, <1>2, <1>3, <1>4, <1>5, <1>6, NextCases DEF Lifespan

\* Once the app stops serving no request is at work, and what the writer
\* has left to write only shrinks.
THEOREM DrainsInvariant == Spec => []Drains
  BY InitTyped, NextTyped, InitDrains, NextDrains, PTL DEF Spec

\* No observe record is pending when the manager is stopped and the client
\* closed: drain() has waited for each.
THEOREM RecordsInvariant == Spec => []RecordsSurviveShutdown
<1>1. Drains => RecordsSurviveShutdown
  BY DEF Drains, RecordsSurviveShutdown
<1>. QED
  BY <1>1, DrainsInvariant, PTL

-----------------------------------------------------------------------------
(* Part 5.  The claim and the backend behind it, when no process dies by    *)
(* itself.  proxy.py claims a backend through the manager and then finds it *)
(* again by its model's name, so the two must be the same backend.          *)

Attached == Claiming \ {"orphaned", "unsent"}

OneEach ==
  \A b, c \in Backends :
    (phase[b] # "off" /\ phase[c] # "off" /\ name[b] = name[c]) => b = c
Held(r) ==
  at[r] \in Attached =>
    /\ lease[r] \in Backends
    /\ phase[lease[r]] = "ready"
    /\ name[lease[r]] = used[r]
    /\ MidRequest(r) => upstream[r] = lease[r]
HeldInv == OneEach /\ \A r \in Requests : Held(r)

LEMMA InitHeld == Init => HeldInv
  BY DEF Init, HeldInv, OneEach, Held, Attached, Claiming, Manager!Init

\* A step of r's takes no backend down, and renames none.
LEMMA RequestKeepsBackends ==
  ASSUME Typed, NEW r \in Requests, RequestStep(r)
  PROVE  /\ name' = name
         /\ \A b \in Backends : /\ phase[b] = "ready" => phase'[b] = "ready"
                                /\ phase[b] = "off" <=> phase'[b] = "off"
<1> USE DEF managerVars, raceVars, lifespanVars, Typed, TypeOK
<1>1. CASE EnsureRunning(r)
  BY <1>1 DEF EnsureRunning, Manager!Lease, Manager!Publish, Reject
<1>2. CASE ~EnsureRunning(r)
  <2>1. UNCHANGED <<phase, name>>
    BY <1>2 DEF RequestStep, Progress, Helper, Receive, Extract, FallbackModel, BodyRead, BodyLost,
         RaceEnds, HandOver, Discarded, ResponseStarts, Stream, StreamFinalized, SendReturns,
         WatchReturns, Cleanup, RecordWritten, Cancel, Leave, Reject, GiveUp, Discard,
         StreamEnds, Manager!Lease
  <2>. QED
    BY <2>1
<1>. QED
  BY <1>1, <1>2

LEMMA RequestHeld ==
  ASSUME Typed, HeldInv, NEW r \in Requests, RequestStep(r)
  PROVE  Held(r)'
<1>0. Held(r) /\ OneEach
  BY DEF HeldInv
<1> USE <1>0, ProxyAssumption DEF Typed, TypeOK, MaybeBackend, Places, Claiming, Attached, Held, MidRequest,
        managerVars, raceVars, lifespanVars
<1>1. CASE Receive(r) \/ Extract(r)
  BY <1>1 DEF Receive, Extract, Goto, Reject, Settle
<1>2. CASE EnsureRunning(r)
  BY <1>2 DEF EnsureRunning, Goto, Reject, Settle, Claimed, Manager!Lease, Manager!Publish, Manager!Serving
<1>3. CASE FallbackModel(r)
  BY <1>3 DEF FallbackModel, Goto, Reject, Settle, Claimed, Manager!Lease
<1>4. CASE BodyRead(r)
  <2>1. Manager!Serving(used[r]) = {lease[r]}
    BY <1>4 DEF BodyRead, OneEach, Manager!Serving
  <2>. QED
    BY <1>4, <2>1 DEF BodyRead, Goto
<1>5. CASE BodyLost(r) \/ Discarded(r)
  BY <1>5 DEF BodyLost, Discarded, GiveUp, Release, Settle
<1>6. CASE RaceEnds(r) \/ HandOver(r) \/ ResponseStarts(r)
  BY <1>6 DEF RaceEnds, HandOver, ResponseStarts, Discard, Goto
<1>7. CASE Stream(r) \/ StreamFinalized(r)
  BY <1>7 DEF Stream, StreamFinalized, StreamEnds, Goto, Release, Settle
<1>8. CASE Helper(r)
  BY <1>8 DEF Helper, SendReturns, WatchReturns, Cleanup, RecordWritten
<1>9. CASE Cancel(r)
  BY <1>9 DEF Cancel, Reject, GiveUp, Release, Discard, Goto, Settle
<1>10. CASE Leave(r)
  BY <1>10 DEF Leave
<1>. QED
  BY <1>1, <1>2, <1>3, <1>4, <1>5, <1>6, <1>7, <1>8, <1>9, <1>10 DEF RequestStep, Progress

\* Nor does it touch another's model or upstream.
LEMMA RequestKeepsOthers ==
  ASSUME Typed, NEW r \in Requests, RequestStep(r), NEW q \in Requests \ {r}
  PROVE  used'[q] = used[q] /\ upstream'[q] = upstream[q]
<1> USE DEF managerVars, raceVars, lifespanVars, Typed, TypeOK
<1>1. CASE Extract(r) \/ EnsureRunning(r) \/ FallbackModel(r)
  BY <1>1 DEF Extract, EnsureRunning, FallbackModel, Reject, Claimed
<1>2. CASE ~(Extract(r) \/ EnsureRunning(r) \/ FallbackModel(r))
  BY <1>2 DEF RequestStep, Progress, Helper, Receive, BodyRead, BodyLost,
       RaceEnds, HandOver, Discarded, ResponseStarts, Stream, StreamFinalized, SendReturns,
       WatchReturns, Cleanup, RecordWritten, Cancel, Leave, Reject, GiveUp, Discard,
       StreamEnds
<1>. QED
  BY <1>1, <1>2

LEMMA HeldFrame ==
  ASSUME NEW q \in Requests, Held(q), UNCHANGED <<name>>,
         \A b \in Backends : phase[b] = "ready" => phase'[b] = "ready",
         lease'[q] = lease[q], at'[q] = at[q], used'[q] = used[q], upstream'[q] = upstream[q]
  PROVE  Held(q)'
  BY DEF Held, MidRequest

\* The manager launches no second backend of a model, and takes down none
\* that is leased: no request is claiming one while the app shuts down.
LEMMA ManagerHeld ==
  ASSUME Typed, LocalInv, Drains, HeldInv, "crash" \notin Faults, ManagerStep
  PROVE  HeldInv'
<1> USE DEF Typed, TypeOK, MaybeBackend, raceVars
<1>1. UNCHANGED <<lease, at, used, upstream>>
  BY DEF ManagerStep, Manager!Launch, Manager!TakeDown, Manager!Die
<1>2. CASE \E b \in Backends, m \in Models : Manager!Launch(b, m)
  <2>1. PICK b \in Backends, m \in Models : Manager!Launch(b, m)
    BY <1>2
  <2>2. OneEach'
    BY <2>1 DEF HeldInv, OneEach, Manager!Launch, Manager!Serving
  <2>3. ASSUME NEW r \in Requests PROVE Held(r)'
    BY <1>1, <2>1 DEF HeldInv, Held, MidRequest, Manager!Launch
  <2>. QED
    BY <2>2, <2>3 DEF HeldInv
<1>3. CASE \E b \in Backends : Manager!TakeDown(b)
  <2>1. PICK b \in Backends : Manager!TakeDown(b)
    BY <1>3
  <2>2. OneEach'
    BY <2>1 DEF HeldInv, OneEach, Manager!TakeDown
  <2>3. ASSUME NEW r \in Requests PROVE Held(r)'
    <3>1. CASE at[r] \in Attached
      <4>1. ~shutdown
        BY <3>1 DEF Drains, Attached, Claiming, Over
      <4>2. lease[r] # b
        BY <2>1, <3>1, <4>1 DEF HeldInv, Held, Manager!TakeDown, Manager!Leased
      <4>. QED
        BY <1>1, <2>1, <3>1, <4>2 DEF HeldInv, Held, MidRequest, Manager!TakeDown
    <3>2. CASE at[r] \notin Attached
      BY <1>1, <3>2 DEF Held
    <3>. QED
      BY <3>1, <3>2
  <2>. QED
    BY <2>2, <2>3 DEF HeldInv
<1>. QED
  BY <1>2, <1>3 DEF ManagerStep

LEMMA NextHeld ==
  ASSUME "crash" \notin Faults
  PROVE  Typed /\ LocalInv /\ Drains /\ HeldInv /\ [Next]_vars => HeldInv'
<1>. SUFFICES ASSUME Typed, LocalInv, Drains, HeldInv, [Next]_vars PROVE HeldInv'
  OBVIOUS
<1>1. ASSUME NEW r \in Requests, RequestStep(r) PROVE HeldInv'
  <2>1. OneEach'
    BY <1>1, RequestKeepsBackends DEF HeldInv, OneEach
  <2>2. ASSUME NEW q \in Requests PROVE Held(q)'
    <3>1. CASE q = r
      BY <1>1, <3>1, RequestHeld
    <3>2. CASE q # r
      BY <1>1, <3>2, RequestAlone, RequestKeepsBackends, RequestKeepsOthers, HeldFrame DEF Others, HeldInv
    <3>. QED
      BY <3>1, <3>2
  <2>. QED
    BY <2>1, <2>2 DEF HeldInv
<1>2. CASE ManagerStep
  BY <1>2, ManagerHeld
<1>3. CASE Lifespan \/ UNCHANGED vars
  <2>1. UNCHANGED <<phase, name, lease, at, used, upstream>>
    BY <1>3 DEF Lifespan, ShutdownBegins, Drained, ManagerStopped, vars, managerVars, raceVars
  <2>. QED
    BY <2>1 DEF HeldInv, OneEach, Held, MidRequest
<1>. QED
  BY <1>1, <1>2, <1>3, NextCases

\* Without deaths, no ready backend goes down under a request forwarded to
\* it, whatever the other requests and models are.
THEOREM NeverEvicted ==
  ASSUME "crash" \notin Faults
  PROVE  Spec => NeverEvictedMidRequest
<1>1. ASSUME Typed, LocalInv, Drains, HeldInv, [Next]_vars
      PROVE  [\A b \in Backends :
                /\ phase[b] = "ready"
                /\ phase'[b] = "off"
                => shutdown \/ \A r \in Requests : MidRequest(r) => upstream[r] # b]_vars
  <2>1. SUFFICES ASSUME NEW b \in Backends, phase[b] = "ready", phase'[b] = "off", ~shutdown,
                        NEW r \in Requests, MidRequest(r), upstream[r] = b
                 PROVE  FALSE
    BY <1>1
  <2>2. lease[r] = b
    BY <1>1, <2>1 DEF HeldInv, Held, MidRequest, Attached, Claiming
  <2>3. ManagerStep
    <3>1. ~ \E q \in Requests : RequestStep(q)
      BY <1>1, <2>1, RequestKeepsBackends
    <3>2. ~(Lifespan \/ UNCHANGED vars)
      BY <1>1, <2>1 DEF Lifespan, ShutdownBegins, Drained, ManagerStopped, vars, managerVars
    <3>. QED
      BY <1>1, <3>1, <3>2, NextCases
  <2>. QED
    BY <1>1, <2>1, <2>2, <2>3 DEF ManagerStep, Manager!Launch, Manager!TakeDown, Manager!Leased, Typed, TypeOK
<1>. QED
  BY <1>1, InitTyped, NextTyped, InitLocal, NextLocal, InitDrains, NextDrains, InitHeld, NextHeld, PTL
  DEF Spec, NeverEvictedMidRequest
=============================================================================
