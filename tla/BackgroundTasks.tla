--------------------------- MODULE BackgroundTasks ---------------------------
(***************************************************************************)
(* Shell commands the chat's model leaves running: a table behind a lock,  *)
(* a thread and a process group for each, and the limits on both.  Threads *)
(* read the clock before they take the lock, so ends are recorded late and *)
(* in any order.                                                           *)
(***************************************************************************)
EXTENDS Naturals, FiniteSets

CONSTANTS
  Tasks,        \* ids, a new one for each task
  MaxRunning, MaxFinished, Retention,
  MaxClock      \* bound: how far the clock is followed

ASSUME TasksAssumption ==
  {MaxRunning, MaxFinished, Retention} \subseteq Nat /\ MaxClock \in Nat \ {0}

VARIABLES
  table,     \* status of each entry: "unused", "running", an ending, or "forgotten"
  ended,     \* finished_at, 0 while it is not known
  process,   \* where the task's thread and process group are
  clock

taskVars == <<table, ended, process, clock>>

Endings == {"finished", "timed out", "failed"}

TasksInit ==
  /\ table = [t \in Tasks |-> "unused"] /\ ended = [t \in Tasks |-> 0]
  /\ process = [t \in Tasks |-> "none"] /\ clock = 1

\* The entries _prune_background drops: expired, or behind MaxFinished newer ones.
EndedTasks == {t \in Tasks : table[t] \in Endings}
Stale == {t \in EndedTasks :
  \/ clock > ended[t] + Retention
  \/ Cardinality({u \in EndedTasks : ended[u] > ended[t]}) >= MaxFinished}

Pruned == [t \in Tasks |-> IF t \in Stale THEN "forgotten" ELSE table[t]]
RunningTasks == {t \in Tasks : table[t] = "running"}

StartOneMore(t) ==  \* mutant: off by one at the limit
  /\ table[t] = "unused"
  /\ IF Cardinality(RunningTasks) > MaxRunning
     THEN table' = Pruned /\ UNCHANGED process
     ELSE /\ table' = [Pruned EXCEPT ![t] = "running"]
          /\ process' = [process EXCEPT ![t] = "starting"]
  /\ UNCHANGED <<ended, clock>>

StartBackground(t) ==  \* or a refusal, at the limit
  /\ table[t] = "unused"
  /\ IF Cardinality(RunningTasks) >= MaxRunning
     THEN table' = Pruned /\ UNCHANGED process
     ELSE /\ table' = [Pruned EXCEPT ![t] = "running"]
          /\ process' = [process EXCEPT ![t] = "starting"]
  /\ UNCHANGED <<ended, clock>>

Spawn(t) ==
  /\ process[t] = "starting"
  /\ process' = [process EXCEPT ![t] = "alive"]
  /\ UNCHANGED <<table, ended, clock>>

\* Popen fails, the command exits, or its time is up: the group is killed, then
\* the thread reads the clock, which never shows two of them the same time.
Ends(t, how) ==
  /\ clock < MaxClock /\ clock' = clock + 1
  /\ process[t] = IF how = "failed" THEN "starting" ELSE "alive"
  /\ process' = [process EXCEPT ![t] = how]
  /\ ended' = [ended EXCEPT ![t] = clock]
  /\ UNCHANGED table

RecordEnd(t) ==
  /\ process[t] \in Endings
  /\ table' = IF table[t] = "forgotten" THEN table ELSE [table EXCEPT ![t] = process[t]]
  /\ process' = [process EXCEPT ![t] = "gone"]
  /\ UNCHANGED <<ended, clock>>

CheckTask ==  \* whichever task is asked about
  /\ table' = Pruned
  /\ UNCHANGED <<ended, process, clock>>

TimePasses ==
  /\ clock < MaxClock /\ clock' = clock + 1
  /\ UNCHANGED <<table, ended, process>>

TasksNext ==
  \/ \E t \in Tasks :
       StartBackground(t) \/ Spawn(t) \/ RecordEnd(t) \/ \E how \in Endings : Ends(t, how)
  \/ CheckTask \/ TimePasses

TasksSpec == TasksInit /\ [][TasksNext]_taskVars

-----------------------------------------------------------------------------
\* Type invariant of the table.
TasksTypeOK ==
  /\ table \in [Tasks -> Endings \cup {"unused", "running", "forgotten"}]
  /\ process \in [Tasks -> Endings \cup {"none", "starting", "alive", "gone"}]
  /\ ended \in [Tasks -> 0..MaxClock] /\ clock \in 1..MaxClock

\* The table never lies about what runs: a process is alive only under an entry that
\* says running, and never more of them than the limit; a task's answer is kept until
\* its retention is over or as many others as the limit have ended after it; and the
\* table stays small although threads add to what has finished without pruning.
TasksAreRemembered ==
  /\ \A t \in Tasks : process[t] \in Endings \cup {"starting", "alive"} <=> table[t] = "running"
  /\ Cardinality({t \in Tasks : process[t] = "alive"}) <= MaxRunning
  /\ Cardinality(EndedTasks \cup RunningTasks) <= MaxFinished + MaxRunning
  /\ \A t \in Tasks : table[t] = "forgotten" =>
       \/ clock > ended[t] + Retention
       \/ Cardinality({u \in Tasks : ended[u] > ended[t]}) >= MaxFinished
=============================================================================
