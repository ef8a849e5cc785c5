----------------------------- MODULE DetailPane -----------------------------
(***************************************************************************)
(* The right half of `drove observe`: what is shown of the chosen record.  *)
(* Every choice starts a task of its own; each takes the old widgets down  *)
(* and puts the new ones up one after the other, and while it waits for    *)
(* the screen, other choices are made.                                     *)
(***************************************************************************)
EXTENDS Integers, Sequences

CONSTANTS
  MaxChoices,  \* bound: choices of a record, or of a message in its place
  Messages,    \* those choices that show a message, which is one widget
  PartCount    \* widgets a record is shown with

ASSUME PaneAssumption == MaxChoices \in Nat /\ PartCount \in Nat \ {0}

Width(c) == IF c \in Messages THEN 1 ELSE PartCount

VARIABLES
  version,   \* _detail_version, the number of choices made
  task,      \* of each choice where its task is
  lockQueue, \* tasks that wait for _lock, its holder first
  revision,  \* the task that raised _revision last
  pane,      \* the widgets that are up, <<choice, part>>
  unmounted  \* the pane has been taken off the screen

paneVars == <<version, task, lockQueue, revision, pane, unmounted>>

Versions == 1..MaxChoices

PaneInit ==
  /\ version = 0 /\ task = [c \in Versions |-> "none"]
  /\ lockQueue = <<>> /\ revision = 0 /\ pane = <<>> /\ unmounted = FALSE

ChooseRecord ==  \* _show_detail
  /\ version < MaxChoices /\ ~unmounted
  /\ version' = version + 1
  /\ task' = [task EXCEPT ![version + 1] = "scheduled"]
  /\ UNCHANGED <<lockQueue, revision, pane, unmounted>>

CloseDetail ==
  /\ ~unmounted /\ unmounted' = TRUE
  /\ UNCHANGED <<version, task, lockQueue, revision, pane>>

\* render and the first lines of show_record; tasks start in the order they were made.
StartTask(c) ==
  /\ task[c] = "scheduled" /\ \A d \in 1..(c - 1) : task[d] # "scheduled"
  /\ IF c = version /\ ~unmounted
     THEN /\ task' = [task EXCEPT ![c] = "queued"]
          /\ lockQueue' = Append(lockQueue, c) /\ revision' = c
     ELSE task' = [task EXCEPT ![c] = "done"] /\ UNCHANGED <<lockQueue, revision>>
  /\ UNCHANGED <<version, pane, unmounted>>

NeedsNoLock(c) == TRUE  \* mutant: tasks do not wait for each other

HoldsLock(c) == lockQueue # <<>> /\ Head(lockQueue) = c

Outdated(c) == revision # c \/ unmounted

EndTask(c) == task' = [task EXCEPT ![c] = "done"] /\ lockQueue' = Tail(lockQueue)

TakeDown(c) ==  \* remove_children, which awaits
  /\ task[c] = "queued" /\ HoldsLock(c)
  /\ IF Outdated(c) THEN EndTask(c) /\ pane' = pane
     ELSE task' = [task EXCEPT ![c] = "empty"] /\ pane' = <<>> /\ UNCHANGED lockQueue
  /\ UNCHANGED <<version, revision, unmounted>>

PutUp(c) ==  \* one mount; between two of them nothing is checked again
  /\ task[c] = "empty" /\ HoldsLock(c)
  /\ IF pane = <<>> /\ Outdated(c) THEN EndTask(c) /\ pane' = pane
     ELSE /\ pane' = Append(pane, <<c, Len(pane) + 1>>)
          /\ IF Len(pane) + 1 = Width(c) THEN EndTask(c) ELSE UNCHANGED <<task, lockQueue>>
  /\ UNCHANGED <<version, revision, unmounted>>

PaneNext == ChooseRecord \/ CloseDetail \/ \E c \in Versions : StartTask(c) \/ TakeDown(c) \/ PutUp(c)

PaneFairness == WF_paneVars(\E c \in Versions : StartTask(c) \/ TakeDown(c) \/ PutUp(c))

PaneSpec == PaneInit /\ [][PaneNext]_paneVars /\ PaneFairness

-----------------------------------------------------------------------------
(* What must hold.                                                         *)

\* Type invariant of the pane.
PaneTypeOK ==
  /\ version \in 0..MaxChoices /\ revision \in 0..MaxChoices /\ unmounted \in BOOLEAN
  /\ task \in [Versions -> {"none", "scheduled", "queued", "empty", "done"}]
  /\ lockQueue \in Seq(Versions) /\ pane \in Seq(Versions \X (1..PartCount))

AllDone == \A c \in Versions : task[c] \in {"none", "done"}

\* The pane never holds widgets of two records, nor one twice, and when no task is left it
\* shows what was chosen last, all of it.
PaneShowsLast ==
  /\ \A i \in DOMAIN pane : pane[i] = <<pane[1][1], i>>
  /\ ~unmounted /\ version > 0 /\ AllDone =>
       pane # <<>> /\ pane[1][1] = version /\ Len(pane) = Width(version)

\* What was chosen is shown in the end.
PaneSettles == []<>(unmounted \/ AllDone)
=============================================================================
