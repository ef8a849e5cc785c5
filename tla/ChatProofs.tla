------------------------------ MODULE ChatProofs ------------------------------
(***************************************************************************)
(* Proofs about ChatTurn, for any number of prompts, sessions, replies,    *)
(* commands and failures, and about its tools (ToolCall, BackgroundTasks), *)
(* for any paths, folders, commands, origins, grants and drafts, and any   *)
(* number of calls, redirects and changes of what links and names mean.    *)
(*                                                                         *)
(* Three invariants carry the turns: the turn is a turn, a tool's thread   *)
(* has its turn waiting for it, and a turn that is being stopped or has    *)
(* failed has paused the queue; commands and files are where the turn's    *)
(* place says; and every history is complete, the turn's own up to the     *)
(* calls of its last reply that are still to be answered.                  *)
(*                                                                         *)
(* Two carry the tools.  The first follows the user's consent through the  *)
(* call: what the dialog asks for, what the answer leaves for the call,    *)
(* what the tool's context makes of it, and what an origin was vetted for. *)
(* The second is about which tasks the trimming of the ended ones reaches. *)
(***************************************************************************)
EXTENDS ChatTurn, ToolCall, BackgroundTasks, SequenceTheorems, FiniteSetTheorems,
        WellFoundedInduction, TLAPS

\* The turn in hand and the prompts behind it.
TurnTyped ==
  /\ turn \in Turns \cup {Nobody} /\ queue \in Seq(Nat) /\ submitted \in Nat
  /\ {paused, moved, quitting, closed} \subseteq BOOLEAN

SessionsTyped ==
  /\ modelOf \in Seq(ChatModels) /\ current \in 1..Opened /\ chatModel \in ChatModels

\* Only a command at work since before the turn can have unpaused the queue again.
TroublePauses ==
  Generating /\ (turn.stop \/ turn.at \in {"failing", "unsaved", "interrupted"}) => paused \/ moved

TurnInv == TurnTyped /\ SessionsTyped /\ NoAbandonedTool /\ TroublePauses /\ NoQueueStands /\ QueueFlows

-----------------------------------------------------------------------------
(* Lemmas about the beginning and the end of a turn.                       *)

LEMMA NewTurnIsTurn ==
  ASSUME TurnTyped, SessionsTyped, NEW p \in Nat
  PROVE  NewTurn(p) \in Turns /\ NewTurn(p) # Nobody
<1>1. current \in Nat
  BY DEF SessionsTyped, Opened
<1>2. NewTurn(p) \in Turns
  BY <1>1 DEF NewTurn, Turns, TurnPlaces
<1>. QED
  BY <1>2, NobodyAssumption

\* Whatever starts a turn leaves the thread alone and has none.
LEMMA StartKeeps ==
  ASSUME TurnTyped, SessionsTyped, NEW p \in Nat, NEW rest \in Seq(Nat), NEW h,
         NEW hold \in BOOLEAN, StartTurn(p, rest, h, hold), ~hold \/ rest = <<>>, thread' = Nobody,
         UNCHANGED <<submitted, moved, quitting>>, closed' \in BOOLEAN
  PROVE  TurnTyped' /\ NoAbandonedTool' /\ TroublePauses' /\ NoQueueStands' /\ QueueFlows'
<1>1. turn' \in Turns /\ turn' # Nobody /\ ~turn'.stop /\ turn'.at = "created"
  BY NewTurnIsTurn DEF StartTurn, NewTurn
<1>2. TurnTyped'
  BY <1>1 DEF TurnTyped, StartTurn
<1>3. ~paused'
  BY DEF StartTurn
<1>. QED
  BY <1>1, <1>2, <1>3 DEF NoAbandonedTool, TroublePauses, NoQueueStands, QueueFlows, Generating

LEMMA TurnMoves ==
  ASSUME NEW t \in Turns
  PROVE  /\ [t EXCEPT !.at = "showing"] \in Turns
         /\ [t EXCEPT !.at = "showing"].at = "showing"
         /\ [t EXCEPT !.at = "showing"].stop = t.stop
         /\ LET u == [t EXCEPT !.at = "streaming", !.calls = <<>>, !.committed = FALSE, !.done = 0]
            IN  u \in Turns /\ u.at = "streaming" /\ u.stop = t.stop
  BY DEF Turns, TurnPlaces

LEMMA ReleaseKeeps ==
  ASSUME TurnTyped, SessionsTyped, NEW t \in Turns, NEW ok \in BOOLEAN, NEW h, Release(t, ok, h),
         thread' = Nobody, UNCHANGED <<submitted, moved, quitting>>,
         ok => t.at # "interrupted", ~ok => t.stop \/ paused \/ moved
  PROVE  TurnTyped' /\ NoAbandonedTool' /\ TroublePauses' /\ NoQueueStands' /\ QueueFlows'
<1>1. closed' \in BOOLEAN
  BY DEF Release, TurnTyped
<1>2. CASE ok /\ ~t.stop /\ ~quitting /\ ~paused /\ queue # <<>>
  <2>1. StartTurn(Head(queue), Tail(queue), h, paused)
    BY <1>2 DEF Release
  <2>2. Head(queue) \in Nat /\ Tail(queue) \in Seq(Nat)
    BY <1>2 DEF TurnTyped
  <2>. QED
    BY <1>1, <1>2, <2>1, <2>2, StartKeeps DEF TurnTyped
<1>3. CASE ~(ok /\ ~t.stop /\ ~quitting /\ ~paused /\ queue # <<>>)
  <2>1. /\ turn' = Nobody /\ paused' = (paused \/ t.stop) /\ queue' = queue
        /\ closed' = (quitting /\ t.at # "interrupted")
    BY <1>3 DEF Release
  <2>2. TurnTyped'
    BY <2>1 DEF TurnTyped, Turns
  <2>. QED
    BY <1>3, <2>1, <2>2 DEF NoAbandonedTool, TroublePauses, NoQueueStands, QueueFlows, Generating
<1>. QED
  BY <1>2, <1>3

LEMMA EndKeeps ==
  ASSUME TurnTyped, SessionsTyped, NEW t \in Turns, NEW ok \in BOOLEAN, NEW h, EndTurn(t, ok, h),
         thread' = Nobody, UNCHANGED <<submitted, moved, quitting>>,
         ok => t.at # "interrupted", ~ok => t.stop \/ paused \/ moved
  PROVE  TurnTyped' /\ NoAbandonedTool' /\ TroublePauses' /\ NoQueueStands' /\ QueueFlows'
<1>. DEFINE g == [h EXCEPT ![t.session] = Settled(t, ok, @)]
<1>1. CASE Release(t, ok, g)
  BY <1>1, ReleaseKeeps
<1>2. CASE /\ turn' = [t EXCEPT !.at = "unsaved", !.committed = @ \/ t.stop \/ t.text]
           /\ paused' = TRUE /\ UNCHANGED <<queue, closed>>
  <2>1. turn' \in Turns
    BY <1>2 DEF Turns, TurnPlaces
  <2>2. TurnTyped'
    BY <1>2, <2>1 DEF TurnTyped
  <2>. QED
    BY <1>2, <2>1, <2>2, NobodyAssumption
    DEF NoAbandonedTool, TroublePauses, NoQueueStands, QueueFlows, Generating
<1>. QED
  BY <1>1, <1>2 DEF EndTurn

-----------------------------------------------------------------------------
(* Every step keeps the invariant.                                         *)

LEMMA InitTurnInv == ChatInit => TurnInv
<1>. SUFFICES ASSUME ChatInit PROVE TurnInv
  OBVIOUS
<1>1. TurnTyped
  <2>1. queue = <<>> /\ submitted = 0 /\ turn = Nobody
    BY Zenon DEF ChatInit
  <2>2. paused \in BOOLEAN /\ moved \in BOOLEAN /\ quitting \in BOOLEAN /\ closed \in BOOLEAN
    BY Zenon DEF ChatInit
  <2>. QED
    BY <2>1, <2>2 DEF TurnTyped
<1>2. SessionsTyped
  BY ChatAssumption DEF ChatInit, SessionsTyped, Opened
<1>. QED
  BY <1>1, <1>2 DEF ChatInit, TurnInv, NoAbandonedTool, TroublePauses, NoQueueStands, QueueFlows, Generating

\* Steps that leave the sessions' models alone, or open a session, or load one.
LEMMA SessionsKept ==
  ASSUME SessionsTyped, SessionMatchesModel, [ChatNext]_chatVars
  PROVE  SessionsTyped' /\ SessionMatchesModel'
<1>. USE DEF SessionsTyped, SessionMatchesModel, Opened
<1>1. CASE UNCHANGED <<current, chatModel, modelOf>>
  BY <1>1
<1>2. CASE Cleared
  BY <1>2 DEF Cleared, NewSession
<1>3. ASSUME NEW s \in 1..Opened, PickSession(s) PROVE SessionsTyped' /\ SessionMatchesModel'
  BY <1>3 DEF PickSession, session
<1>4. ASSUME NEW m \in ChatModels, PickModel(m) PROVE SessionsTyped' /\ SessionMatchesModel'
  BY <1>4 DEF PickModel, NewSession
<1>5. CASE Worker
  <2>1. UNCHANGED Others
    BY <1>5, ZenonT(60) DEF Worker, TurnStarts, ReplyEnds, StreamFails, CallsArrive, AskUser, RunTool, Deny,
       ToolReturns, ToolRaises, ErrorShown, TurnCancelled, Unsaved
  <2>. QED
    BY <1>1, <2>1 DEF Others
<1>6. CASE Keyboard
  BY <1>1, <1>6 DEF Keyboard, Submit, Resume, Stop, Quit, Save, CancelQueued, session
<1>7. CASE SessionCommands
  <2>1. CASE NewChat \/ BrowseSessions \/ Loaded \/ LeaveSessions \/ ChooseModel \/ ModelsFetched
             \/ KeepModel \/ Switched
    BY <1>1, <2>1 DEF NewChat, BrowseSessions, Loaded, LeaveSessions, ChooseModel, ModelsFetched,
       KeepModel, Switched, session
  <2>. QED
    BY <1>2, <1>3, <1>4, <1>7, <2>1 DEF SessionCommands
<1>8. CASE UNCHANGED chatVars
  BY <1>1, <1>8 DEF chatVars, session
<1>. QED
  BY <1>5, <1>6, <1>7, <1>8 DEF ChatNext

LEMMA WorkerKeeps ==
  ASSUME TurnInv, Worker
  PROVE  TurnTyped' /\ NoAbandonedTool' /\ TroublePauses' /\ NoQueueStands' /\ QueueFlows'
<1>. DEFINE Kept == TurnTyped' /\ NoAbandonedTool' /\ TroublePauses' /\ NoQueueStands' /\ QueueFlows'
<1>. USE DEF TurnInv
<1>0. Generating /\ ~closed /\ turn \in Turns
  <2>1. Generating /\ ~closed
    BY ZenonT(60) DEF Worker, TurnStarts, ReplyEnds, StreamFails, CallsArrive, AskUser, RunTool, Deny,
       ToolReturns, ToolRaises, ErrorShown, TurnCancelled, Unsaved, At
  <2>. QED
    BY <2>1 DEF TurnTyped, Generating
<1>1. ASSUME turn.at # "running" PROVE thread = Nobody
  BY <1>1 DEF NoAbandonedTool
<1>2. CASE TurnStarts
  <2>1. turn' \in Turns /\ turn'.at = "streaming" /\ ~turn'.stop
    BY <1>0, <1>2 DEF TurnStarts, Turns, TurnPlaces
  <2>. QED
    BY <1>0, <1>1, <1>2, <2>1, NobodyAssumption DEF TurnStarts, At, NoEnd, Others, TurnTyped,
       NoAbandonedTool, TroublePauses, NoQueueStands, QueueFlows, Generating, command
<1>3. CASE ReplyEnds
  <2>1. [turn EXCEPT !.committed = TRUE] \in Turns /\ [turn EXCEPT !.committed = TRUE].at = "streaming"
    BY <1>0, <1>3 DEF ReplyEnds, At, Turns
  <2>. QED
    BY <1>0, <1>1, <1>3, <2>1, EndKeeps DEF ReplyEnds, At, Others, command
<1>4. ASSUME NEW calls \in Batches, CallsArrive(calls) PROVE Kept
  <2>1. turn' \in Turns /\ turn'.at = "showing" /\ ~turn'.stop
    BY <1>0, <1>4 DEF CallsArrive, Turns, TurnPlaces
  <2>. QED
    BY <1>0, <1>1, <1>4, <2>1, NobodyAssumption DEF CallsArrive, At, NoEnd, Others, TurnTyped,
       NoAbandonedTool, TroublePauses, NoQueueStands, QueueFlows, Generating, command
<1>5. CASE StreamFails
  <2>1. turn' \in Turns
    BY <1>0, <1>5 DEF StreamFails, Turns, TurnPlaces
  <2>. QED
    BY <1>0, <1>1, <1>5, <2>1, NobodyAssumption DEF StreamFails, At, Others, TurnTyped,
       NoAbandonedTool, TroublePauses, NoQueueStands, QueueFlows, Generating, command
<1>6. CASE AskUser
  <2>1. turn' \in Turns /\ turn'.at = "asking" /\ ~turn'.stop
    BY <1>0, <1>6 DEF AskUser, Turns, TurnPlaces
  <2>. QED
    BY <1>0, <1>1, <1>6, <2>1, NobodyAssumption DEF AskUser, At, NoEnd, Others, TurnTyped,
       NoAbandonedTool, TroublePauses, NoQueueStands, QueueFlows, Generating, command
<1>7. CASE RunTool
  <2>1. turn' \in Turns /\ turn'.at = "running" /\ ~turn'.stop /\ turn'.session = turn.session
    BY <1>0, <1>7 DEF RunTool, Turns, TurnPlaces
  <2>. QED
    BY <1>0, <1>7, <2>1, NobodyAssumption DEF RunTool, At, NoEnd, Others, TurnTyped,
       NoAbandonedTool, TroublePauses, NoQueueStands, QueueFlows, Generating, command
<1>8. ASSUME NEW result, NextCall(result), thread' = Nobody, turn.at \in {"asking", "running"},
             UNCHANGED Others
      PROVE  Kept
  <2>. DEFINE t == [turn EXCEPT !.done = @ + 1]
              h == [history EXCEPT ![t.session] = Append(@, Result(t.calls[t.done], result))]
  <2>1. t \in Turns /\ t.stop = turn.stop
    BY <1>0 DEF Turns
  <2>2. CASE turn.stop
    <3>1. EndTurn(t, FALSE, h)
      BY <1>8, <2>1, <2>2 DEF NextCall
    <3>. QED
      BY <1>8, <2>1, <2>2, <3>1, EndKeeps DEF Others, command
  <2>3. CASE ~turn.stop
    <3>1. NoEnd /\ turn' \in {[t EXCEPT !.at = "showing"],
            [t EXCEPT !.at = "streaming", !.calls = <<>>, !.committed = FALSE, !.done = 0]}
      BY <1>8, <2>1, <2>3 DEF NextCall
    <3>2. turn' \in Turns /\ turn'.at \in {"showing", "streaming"} /\ ~turn'.stop
      BY <2>1, <2>3, <3>1, TurnMoves, ZenonT(60)
    <3>. QED
      BY <1>0, <1>8, <2>3, <3>1, <3>2, NobodyAssumption DEF NoEnd, Others, TurnTyped,
         NoAbandonedTool, TroublePauses, NoQueueStands, QueueFlows, Generating, command
  <2>. QED
    BY <2>2, <2>3, <1>0 DEF Turns
<1>9. CASE Deny
  BY <1>1, <1>8, <1>9 DEF Deny, At
<1>10. CASE ToolReturns
  BY <1>8, <1>10 DEF ToolReturns, At
<1>11. CASE ToolRaises
  <2>1. turn' \in Turns
    BY <1>0, <1>11 DEF ToolRaises, Turns, TurnPlaces
  <2>. QED
    BY <1>0, <1>11, <2>1, NobodyAssumption DEF ToolRaises, At, Others, TurnTyped,
       NoAbandonedTool, TroublePauses, NoQueueStands, QueueFlows, Generating, command
<1>12. CASE ErrorShown
  BY <1>0, <1>1, <1>12, EndKeeps DEF ErrorShown, At, Others, command, TroublePauses
<1>13. CASE TurnCancelled
  BY <1>0, <1>1, <1>13, EndKeeps DEF TurnCancelled, At, Others, command, Cancellable
<1>14. CASE Unsaved
  <2>1. [turn EXCEPT !.stop = FALSE] \in Turns
    BY <1>0 DEF Turns
  <2>. QED
    BY <1>0, <1>1, <1>14, <2>1, ReleaseKeeps DEF Unsaved, At, Others, command, TroublePauses
<1>. QED
  BY <1>2, <1>3, <1>4, <1>5, <1>6, <1>7, <1>9, <1>10, <1>11, <1>12, <1>13, <1>14 DEF Worker

LEMMA KeyboardKeeps ==
  ASSUME TurnInv, Keyboard
  PROVE  TurnTyped' /\ NoAbandonedTool' /\ TroublePauses' /\ NoQueueStands' /\ QueueFlows'
<1>. DEFINE Kept == TurnTyped' /\ NoAbandonedTool' /\ TroublePauses' /\ NoQueueStands' /\ QueueFlows'
<1>. USE DEF TurnInv
<1>1. ASSUME ~Generating PROVE thread = Nobody
  BY <1>1 DEF NoAbandonedTool
<1>2. ASSUME Generating PROVE turn \in Turns
  BY <1>2 DEF Generating, TurnTyped
<1>3. CASE Submit
  <2>1. submitted' = submitted + 1 /\ submitted' \in Nat /\ ~closed
    BY <1>3 DEF Submit, TurnTyped, AtPrompt
  <2>2. UNCHANGED <<thread, moved, quitting, closed>>
    BY <1>3 DEF Submit, command, ending
  <2>3. CASE Generating \/ queue # <<>>
    <3>1. queue' = Append(queue, submitted + 1) /\ UNCHANGED <<turn, paused>>
      BY <1>3, <2>3 DEF Submit
    <3>2. TurnTyped'
      BY <2>1, <2>2, <3>1 DEF TurnTyped
    <3>. QED
      BY <2>1, <2>2, <2>3, <3>1, <3>2 DEF NoAbandonedTool, TroublePauses, NoQueueStands, QueueFlows, Generating
  <2>4. CASE ~(Generating \/ queue # <<>>)
    <3>1. StartTurn(submitted + 1, <<>>, history, paused)
      BY <1>3, <2>4 DEF Submit
    <3>2. turn' \in Turns /\ turn' # Nobody /\ ~turn'.stop /\ turn'.at = "created"
      BY <2>1, <3>1, NewTurnIsTurn DEF StartTurn, NewTurn
    <3>3. TurnTyped'
      BY <2>1, <2>2, <3>1, <3>2 DEF TurnTyped, StartTurn
    <3>4. ~paused'
      BY <3>1 DEF StartTurn
    <3>. QED
      BY <1>1, <2>2, <2>4, <3>2, <3>3, <3>4 DEF NoAbandonedTool, TroublePauses, NoQueueStands, QueueFlows, Generating
  <2>. QED
    BY <2>3, <2>4
<1>4. CASE Resume
  <2>1. Head(queue) \in Nat /\ Tail(queue) \in Seq(Nat)
    BY <1>4 DEF Resume, TurnTyped
  <2>. QED
    BY <1>1, <1>4, <2>1, StartKeeps DEF Resume, command, ending, TurnTyped
<1>5. CASE Stop
  <2>1. turn' \in Turns /\ turn' # Nobody /\ turn'.session = turn.session /\ turn'.stop
        /\ (turn.at = "running" => turn'.at = "running")
    BY <1>2, <1>5, NobodyAssumption DEF Stop, RequestStop, Turns, TurnPlaces
  <2>2. paused' = TRUE /\ UNCHANGED <<queue, submitted, thread, moved, quitting, closed>>
    BY <1>5 DEF Stop, RequestStop, command, ending
  <2>3. TurnTyped'
    BY <2>1, <2>2 DEF TurnTyped
  <2>. QED
    BY <2>1, <2>2, <2>3 DEF NoAbandonedTool, TroublePauses, NoQueueStands, QueueFlows, Generating
<1>6. CASE Quit
  <2>1. UNCHANGED <<queue, submitted, thread, moved>>
    BY <1>6 DEF Quit, command
  <2>2. CASE ~Generating
    <3>1. closed' = TRUE /\ UNCHANGED <<quitting, turn, paused>>
      BY <1>6, <2>2 DEF Quit
    <3>2. TurnTyped'
      BY <2>1, <3>1 DEF TurnTyped
    <3>. QED
      BY <1>1, <2>1, <2>2, <3>1, <3>2 DEF NoAbandonedTool, TroublePauses, NoQueueStands, QueueFlows, Generating
  <2>3. CASE Generating
    <3>1. quitting' = TRUE /\ closed' = closed
      BY <1>6, <2>3 DEF Quit
    <3>2. CASE turn.stop
      <4>1. UNCHANGED <<turn, paused>>
        BY <1>6, <2>3, <3>2 DEF Quit
      <4>2. TurnTyped'
        BY <2>1, <3>1, <4>1 DEF TurnTyped
      <4>. QED
        BY <2>1, <2>3, <3>1, <4>1, <4>2
        DEF NoAbandonedTool, TroublePauses, NoQueueStands, QueueFlows, Generating
    <3>3. CASE ~turn.stop
      <4>1. RequestStop
        BY <1>6, <2>3, <3>3 DEF Quit
      <4>2. turn' \in Turns /\ turn' # Nobody /\ turn'.session = turn.session
            /\ (turn.at = "running" => turn'.at = "running")
        BY <1>2, <2>3, <4>1, NobodyAssumption DEF RequestStop, Turns, TurnPlaces
      <4>3. TurnTyped'
        BY <2>1, <3>1, <4>1, <4>2 DEF TurnTyped, RequestStop
      <4>. QED
        BY <2>1, <3>1, <4>1, <4>2, <4>3
        DEF NoAbandonedTool, TroublePauses, NoQueueStands, QueueFlows, Generating, RequestStop
    <3>. QED
      BY <3>2, <3>3
  <2>. QED
    BY <2>2, <2>3
<1>7. CASE Save
  <2>1. UNCHANGED <<turn, queue, submitted, paused, moved, quitting, closed, thread>>
    BY <1>7 DEF Save, Chat, ending
  <2>. QED
    BY <2>1 DEF TurnTyped, NoAbandonedTool, TroublePauses, NoQueueStands, QueueFlows, Generating
<1>8. ASSUME NEW i \in DOMAIN queue, CancelQueued(i) PROVE Kept
  <2>1. UNCHANGED <<turn, submitted, paused, moved, quitting, closed, thread>>
    BY <1>8 DEF CancelQueued, command, ending
  <2>2. queue \in Seq(Nat) /\ queue # <<>> /\ i \in 1..Len(queue)
    BY <1>8 DEF TurnTyped
  <2>3. SubSeq(queue, 1, i - 1) \in Seq(Nat) /\ SubSeq(queue, i + 1, Len(queue)) \in Seq(Nat)
    BY <2>2
  <2>4. queue' \in Seq(Nat)
    BY <1>8, <2>3 DEF CancelQueued, RemoveAt
  <2>. QED
    BY <2>1, <2>2, <2>4 DEF TurnTyped, NoAbandonedTool, TroublePauses, NoQueueStands, QueueFlows, Generating
<1>. QED
  BY <1>3, <1>4, <1>5, <1>6, <1>7, <1>8 DEF Keyboard

LEMMA CommandsKeep ==
  ASSUME TurnInv, SessionCommands
  PROVE  TurnTyped' /\ NoAbandonedTool' /\ TroublePauses' /\ NoQueueStands' /\ QueueFlows'
<1>. USE DEF TurnInv
<1>1. UNCHANGED <<turn, submitted, thread, quitting, closed>>
  BY DEF SessionCommands, NewChat, Cleared, BrowseSessions, PickSession, Loaded, LeaveSessions,
     ChooseModel, ModelsFetched, PickModel, KeepModel, Switched, Chat, ending
<1>2. CASE UNCHANGED <<queue, paused, moved>>
  BY <1>1, <1>2 DEF TurnTyped, NoAbandonedTool, TroublePauses, NoQueueStands, QueueFlows, Generating
<1>3. CASE queue' = <<>> /\ paused' = FALSE /\ moved' = (moved \/ Generating)
  <2>1. moved' \in BOOLEAN /\ paused' \in BOOLEAN /\ (Generating => moved')
    BY Zenon, <1>3 DEF TurnTyped, Generating
  <2>2. TurnTyped'
    <3>1. queue' \in Seq(Nat)
      BY <1>3
    <3>. QED
      BY <1>1, <2>1, <3>1 DEF TurnTyped
  <2>. QED
    BY <1>1, <1>3, <2>1, <2>2 DEF NoAbandonedTool, TroublePauses, NoQueueStands, QueueFlows, Generating
<1>. QED
  BY <1>2, <1>3 DEF SessionCommands, NewChat, Cleared, BrowseSessions, PickSession, Loaded,
     LeaveSessions, ChooseModel, ModelsFetched, PickModel, KeepModel, Switched

LEMMA NextTurnInv == TurnInv /\ SessionMatchesModel /\ [ChatNext]_chatVars
                     => TurnInv' /\ SessionMatchesModel'
<1>. SUFFICES ASSUME TurnInv, SessionMatchesModel, [ChatNext]_chatVars
              PROVE  TurnInv' /\ SessionMatchesModel'
  OBVIOUS
<1>1. SessionsTyped' /\ SessionMatchesModel'
  BY SessionsKept DEF TurnInv
<1>2. CASE Worker \/ Keyboard \/ SessionCommands
  BY <1>1, <1>2, WorkerKeeps, KeyboardKeeps, CommandsKeep DEF TurnInv
<1>3. CASE UNCHANGED chatVars
  BY <1>1, <1>3 DEF chatVars, waiting, command, ending, TurnInv, TurnTyped, NoAbandonedTool,
     TroublePauses, NoQueueStands, QueueFlows, Generating
<1>. QED
  BY <1>2, <1>3 DEF ChatNext

-----------------------------------------------------------------------------
(* The order of the prompts.                                               *)

\* A rising sequence of numbers up to n, and one sequence below another.
Rising(s, n) ==
  /\ s \in Seq(Nat)
  /\ \A i, j \in 1..Len(s) : i < j => s[i] < s[j]
  /\ \A i \in 1..Len(s) : 1 <= s[i] /\ s[i] <= n
Below(s, t) == \A i \in 1..Len(s), j \in 1..Len(t) : s[i] < t[j]

LEMMA AppendRises ==
  ASSUME NEW n \in Nat, NEW s, Rising(s, n)
  PROVE  Rising(Append(s, n + 1), n + 1)
<1>1. s \in Seq(Nat)
  BY DEF Rising
<1>2. /\ Append(s, n + 1) \in Seq(Nat) /\ Len(Append(s, n + 1)) = Len(s) + 1
      /\ \A i \in 1..Len(s) : Append(s, n + 1)[i] = s[i]
      /\ Append(s, n + 1)[Len(s) + 1] = n + 1
  BY <1>1
<1>. DEFINE t == Append(s, n + 1)
<1>. HIDE DEF t
<1>3. t \in Seq(Nat) /\ Len(t) = Len(s) + 1 /\ t[Len(s) + 1] = n + 1
      /\ \A i \in 1..Len(s) : t[i] = s[i]
  BY <1>2 DEF t
<1>4. \A i \in 1..Len(t) : i \in 1..Len(s) \/ i = Len(s) + 1
  BY <1>1, <1>3
<1>5. \A i \in 1..Len(s) : t[i] \in Nat /\ 1 <= t[i] /\ t[i] <= n
  BY <1>1, <1>3, ElementOfSeq DEF Rising
<1>6. ASSUME NEW i \in 1..Len(t), NEW j \in 1..Len(t), i < j PROVE t[i] < t[j]
  <2>1. i \in 1..Len(s)
    BY <1>1, <1>3, <1>6
  <2>2. CASE j \in 1..Len(s)
    BY <1>3, <1>6, <2>1, <2>2 DEF Rising
  <2>3. CASE j = Len(s) + 1
    BY <1>3, <1>5, <2>1, <2>3
  <2>. QED
    BY <1>4, <2>2, <2>3
<1>7. ASSUME NEW i \in 1..Len(t) PROVE 1 <= t[i] /\ t[i] <= n + 1
  BY <1>3, <1>4, <1>5
<1>8. Rising(t, n + 1)
  BY <1>3, <1>6, <1>7 DEF Rising
<1>. QED
  BY <1>8 DEF t

LEMMA HeadMoves ==
  ASSUME NEW n \in Nat, NEW s, NEW q, Rising(s, n), Rising(q, n), Below(s, q), q # <<>>
  PROVE  Rising(Append(s, Head(q)), n) /\ Rising(Tail(q), n) /\ Below(Append(s, Head(q)), Tail(q))
<1>1. s \in Seq(Nat) /\ q \in Seq(Nat) /\ Len(s) \in Nat /\ Len(q) \in Nat \ {0}
  BY EmptySeq DEF Rising
<1>. DEFINE t == Append(s, Head(q))
            r == Tail(q)
<1>2. r \in Seq(Nat) /\ Len(r) = Len(q) - 1 /\ \A i \in 1..Len(r) : r[i] = q[i + 1]
  BY <1>1, HeadTailProperties
<1>3. Head(q) = q[1] /\ q[1] \in Nat
  BY <1>1
<1>4. t \in Seq(Nat) /\ Len(t) = Len(s) + 1 /\ t[Len(s) + 1] = q[1]
      /\ \A i \in 1..Len(s) : t[i] = s[i]
  BY <1>1, <1>3
<1>. HIDE DEF t, r
<1>5. \A i \in 1..Len(t) : i \in 1..Len(s) \/ i = Len(s) + 1
  BY <1>1, <1>4
<1>6. \A i \in 1..Len(r) : i + 1 \in 1..Len(q) /\ 1 < i + 1
  BY <1>1, <1>2
<1>7. 1 \in 1..Len(q)
  BY <1>1
<1>8. Rising(t, n)
  <2>1. \A i \in 1..Len(s) : t[i] < q[1] /\ 1 <= t[i] /\ t[i] <= n
    BY <1>4, <1>7 DEF Below, Rising
  <2>2. 1 <= q[1] /\ q[1] <= n
    BY <1>7 DEF Rising
  <2>3. ASSUME NEW i \in 1..Len(t), NEW j \in 1..Len(t), i < j PROVE t[i] < t[j]
    <3>1. i \in 1..Len(s)
      BY <1>1, <1>4, <2>3
    <3>2. CASE j \in 1..Len(s)
      BY <1>4, <2>3, <3>1, <3>2 DEF Rising
    <3>3. CASE j = Len(s) + 1
      BY <1>4, <2>1, <3>1, <3>3
    <3>. QED
      BY <1>5, <3>2, <3>3
  <2>4. ASSUME NEW i \in 1..Len(t) PROVE 1 <= t[i] /\ t[i] <= n
    BY <1>4, <1>5, <2>1, <2>2
  <2>. QED
    BY <1>4, <2>3, <2>4 DEF Rising
<1>9. Rising(r, n)
  <2>1. ASSUME NEW i \in 1..Len(r), NEW j \in 1..Len(r), i < j PROVE r[i] < r[j]
    <3>1. i + 1 \in 1..Len(q) /\ j + 1 \in 1..Len(q) /\ i + 1 < j + 1
      BY <1>6, <2>1
    <3>2. q[i + 1] < q[j + 1]
      BY <3>1 DEF Rising
    <3>. QED
      BY <1>2, <3>2
  <2>2. ASSUME NEW i \in 1..Len(r) PROVE 1 <= r[i] /\ r[i] <= n
    BY <1>2, <1>6 DEF Rising
  <2>. QED
    BY <1>2, <2>1, <2>2 DEF Rising
<1>10. Below(t, r)
  <2>1. ASSUME NEW i \in 1..Len(t), NEW j \in 1..Len(r) PROVE t[i] < r[j]
    <3>1. j + 1 \in 1..Len(q) /\ 1 < j + 1 /\ r[j] = q[j + 1]
      BY <1>2, <1>6
    <3>2. CASE i \in 1..Len(s)
      BY <1>4, <3>1, <3>2 DEF Below
    <3>3. CASE i = Len(s) + 1
      BY <1>4, <1>7, <3>1, <3>3 DEF Rising
    <3>. QED
      BY <1>5, <3>2, <3>3
  <2>. QED
    BY <2>1 DEF Below
<1>. QED
  BY <1>8, <1>9, <1>10 DEF t, r

LEMMA RemovalRises ==
  ASSUME NEW n \in Nat, NEW s, NEW q, Rising(q, n), Below(s, q), NEW i \in 1..Len(q)
  PROVE  Rising(RemoveAt(q, i), n) /\ Below(s, RemoveAt(q, i))
<1>1. q \in Seq(Nat) /\ Len(q) \in Nat /\ i \in Nat /\ 1 <= i /\ i <= Len(q)
  BY DEF Rising
<1>. DEFINE front == SubSeq(q, 1, i - 1)
            back  == SubSeq(q, i + 1, Len(q))
            r     == RemoveAt(q, i)
<1>2. \A j \in 1..Len(q) : q[j] \in Nat
  BY <1>1
<1>3. front \in Seq(Nat) /\ Len(front) = i - 1 /\ \A j \in 1..(i - 1) : front[j] = q[j]
  <2>1. \A j \in 1..(i - 1) : q[j] \in Nat
    BY <1>1, <1>2
  <2>. QED
    BY <1>1, <2>1, SubSeqProperties
<1>4. back \in Seq(Nat) /\ Len(back) = Len(q) - i
      /\ \A j \in 1..(Len(q) - i) : back[j] = q[i + j]
  <2>1. \A j \in (i + 1)..Len(q) : q[j] \in Nat
    BY <1>1, <1>2
  <2>2. i + 1 \in 1..(Len(q) + 1) /\ Len(q) \in i..Len(q)
    BY <1>1
  <2>3. back \in Seq(Nat) /\ Len(back) = Len(q) - i
    BY <1>1, <2>1, <2>2, SubSeqProperties
  <2>. QED
    BY <1>1, <2>1, <2>2, <2>3, SubSeqProperties
<1>5. r = front \o back
  BY DEF RemoveAt
<1>. HIDE DEF front, back, r
<1>6. r \in Seq(Nat) /\ Len(r) = Len(q) - 1
      /\ \A j \in 1..(Len(q) - 1) : r[j] = IF j <= i - 1 THEN front[j] ELSE back[j - (i - 1)]
  <2>1. Len(front) + Len(back) = Len(q) - 1
    BY <1>1, <1>3, <1>4
  <2>2. /\ front \o back \in Seq(Nat) /\ Len(front \o back) = Len(front) + Len(back)
        /\ \A j \in 1..(Len(front) + Len(back)) : (front \o back)[j] =
             IF j <= Len(front) THEN front[j] ELSE back[j - Len(front)]
    BY <1>3, <1>4, ConcatProperties
  <2>. QED
    BY <1>3, <1>5, <2>1, <2>2
<1>7. ASSUME NEW j \in 1..Len(r)
      PROVE  \/ j < i /\ j \in 1..Len(q) /\ r[j] = q[j]
             \/ j >= i /\ j + 1 \in 1..Len(q) /\ r[j] = q[j + 1]
  <2>1. j \in 1..(Len(q) - 1)
    BY <1>6
  <2>2. CASE j < i
    <3>1. j \in 1..(i - 1) /\ j <= i - 1 /\ j \in 1..Len(q)
      BY <1>1, <2>1, <2>2
    <3>2. r[j] = front[j]
      BY <1>6, <2>1, <3>1
    <3>3. front[j] = q[j]
      BY <1>3, <3>1
    <3>. QED
      BY <2>2, <3>1, <3>2, <3>3
  <2>3. CASE j >= i
    <3>1. j - (i - 1) \in 1..(Len(q) - i) /\ i + (j - (i - 1)) = j + 1
      BY <1>1, <2>1, <2>3
    <3>2. r[j] = back[j - (i - 1)]
      <4>1. ~(j <= i - 1)
        BY <1>1, <2>1, <2>3
      <4>. QED
        BY <1>6, <2>1, <4>1
    <3>3. back[j - (i - 1)] = q[i + (j - (i - 1))]
      BY <1>4, <3>1
    <3>4. j + 1 \in 1..Len(q)
      BY <1>1, <2>1
    <3>. QED
      BY <2>3, <3>1, <3>2, <3>3, <3>4
  <2>4. j < i \/ j >= i
    BY <1>1, <2>1
  <2>. QED
    BY <2>2, <2>3, <2>4
<1>8. ASSUME NEW j \in 1..Len(r), NEW k \in 1..Len(r), j < k PROVE r[j] < r[k]
  BY <1>1, <1>7, <1>8 DEF Rising
<1>9. ASSUME NEW j \in 1..Len(r) PROVE 1 <= r[j] /\ r[j] <= n
  BY <1>7 DEF Rising
<1>10. Below(s, r)
  BY <1>7 DEF Below
<1>. QED
  BY <1>6, <1>8, <1>9, <1>10 DEF Rising, r

\* The prompts sent and those that wait, in the order they were typed.
LineInv == submitted \in Nat /\ Rising(begun, submitted) /\ Rising(queue, submitted)
           /\ Below(begun, queue)

\* What a step may do to the line.
Enqueued == submitted' = submitted + 1 /\ queue' = Append(queue, submitted + 1) /\ begun' = begun
SentAtOnce == /\ submitted' = submitted + 1 /\ queue = <<>> /\ queue' = <<>>
              /\ begun' = Append(begun, submitted + 1)
SentNext == /\ queue # <<>> /\ submitted' = submitted /\ queue' = Tail(queue)
            /\ begun' = Append(begun, Head(queue))
Removed == /\ submitted' = submitted /\ begun' = begun
           /\ \E i \in DOMAIN queue : queue' = RemoveAt(queue, i)
Emptied == submitted' = submitted /\ begun' = begun /\ queue' = <<>>
LineStep == Enqueued \/ SentAtOnce \/ SentNext \/ Removed \/ Emptied
            \/ UNCHANGED <<submitted, begun, queue>>

LEMMA LineSteps ==
  ASSUME [ChatNext]_chatVars
  PROVE  LineStep
<1>1. ASSUME NEW t, NEW ok, NEW h, Release(t, ok, h), submitted' = submitted PROVE LineStep
  BY <1>1 DEF Release, StartTurn, LineStep, SentNext
<1>2. ASSUME NEW t, NEW ok, NEW h, EndTurn(t, ok, h), submitted' = submitted PROVE LineStep
  BY <1>1, <1>2 DEF EndTurn, LineStep
<1>3. CASE Worker
  <2>1. submitted' = submitted
    BY <1>3 DEF Worker, TurnStarts, ReplyEnds, StreamFails, CallsArrive, AskUser, RunTool, Deny,
       ToolReturns, ToolRaises, ErrorShown, TurnCancelled, Unsaved, Others
  <2>2. CASE TurnStarts \/ StreamFails \/ (\E c \in Batches : CallsArrive(c)) \/ AskUser \/ RunTool
             \/ ToolRaises
    BY <2>1, <2>2 DEF TurnStarts, StreamFails, CallsArrive, AskUser, RunTool, ToolRaises, NoEnd,
       LineStep
  <2>3. ASSUME NEW result, NextCall(result) PROVE LineStep
    BY <1>2, <2>1, <2>3 DEF NextCall, NoEnd, LineStep
  <2>4. CASE Deny \/ ToolReturns
    BY <2>3, <2>4 DEF Deny, ToolReturns
  <2>5. CASE ReplyEnds \/ ErrorShown \/ TurnCancelled
    BY <1>2, <2>1, <2>5 DEF ReplyEnds, ErrorShown, TurnCancelled
  <2>6. CASE Unsaved
    BY <1>1, <2>1, <2>6 DEF Unsaved
  <2>. QED
    BY <1>3, <2>2, <2>4, <2>5, <2>6 DEF Worker
<1>4. CASE Keyboard
  <2>1. CASE Submit
    BY <2>1 DEF Submit, StartTurn, LineStep, Enqueued, SentAtOnce
  <2>2. CASE Resume
    BY <2>2 DEF Resume, StartTurn, LineStep, SentNext
  <2>3. CASE Stop \/ Quit \/ Save
    BY <2>3 DEF Stop, Quit, Save, Chat, LineStep
  <2>4. ASSUME NEW i \in DOMAIN queue, CancelQueued(i) PROVE LineStep
    BY <2>4 DEF CancelQueued, LineStep, Removed
  <2>. QED
    BY <1>4, <2>1, <2>2, <2>3, <2>4 DEF Keyboard
<1>5. CASE SessionCommands
  BY <1>5 DEF SessionCommands, NewChat, Cleared, BrowseSessions, PickSession, Loaded, LeaveSessions,
     ChooseModel, ModelsFetched, PickModel, KeepModel, Switched, Chat, LineStep, Emptied
<1>6. CASE UNCHANGED chatVars
  BY <1>6 DEF chatVars, waiting, LineStep
<1>. QED
  BY <1>3, <1>4, <1>5, <1>6 DEF ChatNext

LEMMA LineKept ==
  ASSUME LineInv, LineStep
  PROVE  LineInv'
<1>0. submitted \in Nat /\ begun \in Seq(Nat) /\ queue \in Seq(Nat)
  BY DEF LineInv, Rising
<1>1. CASE Enqueued
  <2>1. Rising(queue', submitted')
    BY <1>1, AppendRises DEF Enqueued, LineInv
  <2>2. Rising(begun', submitted')
    BY <1>1 DEF Enqueued, LineInv, Rising
  <2>3. /\ Len(queue') = Len(queue) + 1 /\ queue'[Len(queue) + 1] = submitted + 1
        /\ \A i \in 1..Len(queue) : queue'[i] = queue[i]
    BY <1>0, <1>1 DEF Enqueued
  <2>4. Below(begun, queue')
    <3>1. \A j \in 1..Len(queue') : j \in 1..Len(queue) \/ j = Len(queue) + 1
      BY <1>0, <2>3
    <3>2. ASSUME NEW i \in 1..Len(begun), NEW j \in 1..Len(queue') PROVE begun[i] < queue'[j]
      <4>1. begun[i] \in Nat /\ begun[i] <= submitted
        BY <1>0, ElementOfSeq DEF LineInv, Rising
      <4>2. CASE j \in 1..Len(queue)
        BY <2>3, <4>2 DEF LineInv, Below
      <4>3. CASE j = Len(queue) + 1
        BY <1>0, <2>3, <4>1, <4>3
      <4>. QED
        BY <3>1, <4>2, <4>3
    <3>. QED
      BY <3>2 DEF Below
  <2>. QED
    BY <1>0, <1>1, <2>1, <2>2, <2>4 DEF Enqueued, LineInv
<1>2. CASE SentAtOnce
  <2>1. Rising(begun', submitted')
    BY <1>2, AppendRises DEF SentAtOnce, LineInv
  <2>. QED
    BY <1>0, <1>2, <2>1 DEF SentAtOnce, LineInv, Rising, Below
<1>3. CASE SentNext
  BY <1>3, HeadMoves DEF SentNext, LineInv
<1>4. CASE Removed
  <2>1. PICK i \in 1..Len(queue) : queue' = RemoveAt(queue, i)
    BY <1>0, <1>4 DEF Removed
  <2>. QED
    BY <1>4, <2>1, RemovalRises DEF Removed, LineInv
<1>5. CASE Emptied
  BY <1>5 DEF Emptied, LineInv, Rising, Below
<1>6. CASE UNCHANGED <<submitted, begun, queue>>
  BY <1>6 DEF LineInv
<1>. QED
  BY <1>1, <1>2, <1>3, <1>4, <1>5, <1>6 DEF LineStep

LEMMA LineOrdered == LineInv => PromptsInOrder
<1>. SUFFICES ASSUME LineInv PROVE PromptsInOrder
  OBVIOUS
<1>1. begun \in Seq(Nat) /\ queue \in Seq(Nat)
  BY DEF LineInv, Rising
<1>. DEFINE line == begun \o queue
<1>2. line \in Seq(Nat) /\ Len(line) = Len(begun) + Len(queue)
      /\ \A i \in 1..(Len(begun) + Len(queue)) :
           line[i] = IF i <= Len(begun) THEN begun[i] ELSE queue[i - Len(begun)]
  BY <1>1, ConcatProperties
<1>. HIDE DEF line
<1>3. ASSUME NEW i \in DOMAIN line, NEW j \in DOMAIN line, i < j PROVE line[i] < line[j]
  <2>1. i \in 1..(Len(begun) + Len(queue)) /\ j \in 1..(Len(begun) + Len(queue))
    BY <1>2
  <2>2. CASE j <= Len(begun)
    <3>1. i \in 1..Len(begun) /\ j \in 1..Len(begun)
      BY <1>1, <1>3, <2>1, <2>2
    <3>2. line[i] = begun[i] /\ line[j] = begun[j]
      BY <1>1, <1>2, <2>1, <2>2, <3>1, SMTT(30)
    <3>. QED
      BY <1>3, <3>1, <3>2 DEF LineInv, Rising
  <2>3. CASE i <= Len(begun) /\ ~(j <= Len(begun))
    <3>1. i \in 1..Len(begun) /\ j - Len(begun) \in 1..Len(queue)
      BY <1>1, <2>1, <2>3
    <3>. QED
      BY <1>1, <1>2, <2>1, <2>3, <3>1 DEF LineInv, Below
  <2>4. CASE ~(i <= Len(begun))
    <3>1. /\ i - Len(begun) \in 1..Len(queue) /\ j - Len(begun) \in 1..Len(queue)
          /\ i - Len(begun) < j - Len(begun) /\ ~(j <= Len(begun))
      BY <1>1, <1>3, <2>1, <2>4
    <3>. QED
      BY <1>1, <1>2, <2>1, <2>4, <3>1 DEF LineInv, Rising
  <2>. QED
    BY <1>1, <2>1, <2>2, <2>3, <2>4
<1>. QED
  BY <1>3 DEF PromptsInOrder, line

-----------------------------------------------------------------------------
(* A conversation and its results.  A history is taken to be any sequence, *)
(* and what must hold is said of each reply in it; what a turn has in hand *)
(* is a reply at the end with the first of its results.                    *)

IsSeq(s) == \E S : s \in Seq(S)

\* What a session's history is made of, and what one of its replies may be followed by.
Answered(h, i) ==
  LET end == i + Len(h[i].calls)
  IN  /\ end <= Len(h)
      /\ \A j \in i+1..end : h[j].role = "tool"
      /\ end = Len(h) \/ h[end + 1].role # "tool"
      /\ {h[j].id : j \in i+1..end} = ToSet(h[i].calls)

\* Every reply before position n has the results of its calls behind it.
CompleteTo(h, n) ==
  /\ IsSeq(h)
  /\ \A i \in 1..n : h[i].role = "assistant" =>
       h[i].calls \in Batches \cup {<<>>} /\ Answered(h, i)
Complete(h) == CompleteTo(h, Len(h))

\* The last reply of h calls c, and d of the results are there.
Unfinished(h, c, d) ==
  /\ c \in Batches \cup {<<>>} /\ d \in 0..Len(c) /\ Len(h) - d >= 1
  /\ h[Len(h) - d] = Assistant(c)
  /\ \A j \in 1..d : h[Len(h) - d + j].role = "tool" /\ h[Len(h) - d + j].id = c[j]
  /\ CompleteTo(h, Len(h) - d - 1)

LEMMA CallsAreSeq ==
  ASSUME NEW c \in Batches \cup {<<>>}
  PROVE  /\ IsSeq(c) /\ Len(c) \in Nat /\ DOMAIN c = 1..Len(c)
         /\ \A i, j \in 1..Len(c) : c[i] = c[j] => i = j
         /\ ToSet(c) = {c[i] : i \in 1..Len(c)}
<1>1. c \in Seq(ToSet(c))
  BY ChatAssumption, EmptySeq DEF ToSet
<1>2. DOMAIN c = 1..Len(c) /\ Len(c) \in Nat
  BY <1>1, LenProperties
<1>3. IsInjective(c)
  BY ChatAssumption DEF IsInjective
<1>. QED
  BY <1>1, <1>2, <1>3 DEF IsSeq, IsInjective, ToSet

LEMMA SeqFacts ==
  ASSUME NEW h, IsSeq(h)
  PROVE  Len(h) \in Nat /\ DOMAIN h = 1..Len(h)
BY LenProperties DEF IsSeq

LEMMA AppendFacts ==
  ASSUME NEW h, IsSeq(h), NEW m
  PROVE  /\ IsSeq(Append(h, m)) /\ Len(Append(h, m)) = Len(h) + 1
         /\ \A i \in 1..Len(h) : Append(h, m)[i] = h[i]
         /\ Append(h, m)[Len(h) + 1] = m
<1>1. PICK S : h \in Seq(S)
  BY DEF IsSeq
<1>2. h \in Seq(S \cup {m})
  <2>1. h \in [1..Len(h) -> S] /\ Len(h) \in Nat
    BY <1>1
  <2>2. h \in [1..Len(h) -> S \cup {m}]
    BY <2>1
  <2>. QED
    BY <2>1, <2>2
<1>3. Append(h, m) \in Seq(S \cup {m})
  BY <1>2
<1>. QED
  BY <1>2, <1>3, AppendProperties DEF IsSeq

LEMMA CompleteIsPaired ==
  ASSUME NEW h, Complete(h)
  PROVE  Paired(h)
<1>1. Len(h) \in Nat /\ DOMAIN h = 1..Len(h)
  BY SeqFacts DEF Complete, CompleteTo
<1>2. ASSUME NEW i \in DOMAIN h, h[i].role = "assistant"
      PROVE  LET after == {j \in i+1..Len(h) : h[j].role # "tool"}
                 last  == IF after = {} THEN Len(h)
                          ELSE (CHOOSE j \in after : \A k \in after : j <= k) - 1
             IN  /\ last - i = Len(h[i].calls)
                 /\ {h[j].id : j \in i+1..last} = ToSet(h[i].calls)
  <2>. DEFINE after == {j \in i+1..Len(h) : h[j].role # "tool"}
              last  == IF after = {} THEN Len(h)
                          ELSE (CHOOSE j \in after : \A k \in after : j <= k) - 1
              end == i + Len(h[i].calls)
  <2>1. /\ end <= Len(h)
        /\ \A j \in i+1..end : h[j].role = "tool"
        /\ end = Len(h) \/ h[end + 1].role # "tool"
        /\ {h[j].id : j \in i+1..end} = ToSet(h[i].calls)
        /\ Len(h[i].calls) \in Nat
    BY <1>1, <1>2, CallsAreSeq DEF Complete, CompleteTo, Answered
  <2>2. i \in Nat /\ end \in Nat
    BY <1>1, <2>1
  <2>3. last = end
    <3>1. CASE end = Len(h)
      BY <2>1, <3>1
    <3>2. CASE end # Len(h)
      <4>1. end + 1 \in after
        BY <1>1, <2>1, <2>2, <3>2
      <4>2. \A k \in after : end + 1 <= k
        BY <1>1, <2>1, <2>2
      <4>3. \A j \in after : (\A k \in after : j <= k) => j = end + 1
        BY <4>1, <4>2, <2>2, <1>1
      <4>4. (CHOOSE j \in after : \A k \in after : j <= k) = end + 1
        BY <4>1, <4>2, <4>3
      <4>5. after # {}
        BY <4>1
      <4>6. last = (CHOOSE j \in after : \A k \in after : j <= k) - 1
        BY <4>5, Zenon
      <4>7. last = (end + 1) - 1
        BY <4>4, <4>6, Zenon
      <4>. QED
        BY <4>7, <2>2
    <3>. QED
      BY <3>1, <3>2
  <2>4. last - i = Len(h[i].calls)
    <3>. HIDE DEF last
    <3>. QED
      BY <2>1, <2>2, <2>3
  <2>5. {h[j].id : j \in i+1..last} = ToSet(h[i].calls)
    BY <2>1, <2>3, Zenon
  <2>. QED
    BY <2>4, <2>5, Zenon
<1>. QED
  BY <1>2 DEF Paired

\* What follows a position does not matter to the replies that end before it.
LEMMA AnsweredApart ==
  ASSUME NEW h, NEW m, IsSeq(h), NEW i \in 1..Len(h), h[i].role = "assistant",
         h[i].calls \in Batches \cup {<<>>}, Answered(h, i),
         m.role # "tool" \/ i + Len(h[i].calls) < Len(h)
  PROVE  Answered(Append(h, m), i)
<1>1. /\ IsSeq(Append(h, m)) /\ Len(Append(h, m)) = Len(h) + 1
      /\ \A j \in 1..Len(h) : Append(h, m)[j] = h[j]
      /\ Append(h, m)[Len(h) + 1] = m
  BY AppendFacts
<1>2. Len(h) \in Nat /\ Len(h[i].calls) \in Nat /\ i \in Nat
  BY SeqFacts, CallsAreSeq
<1>. DEFINE g == Append(h, m)
            end == i + Len(h[i].calls)
<1>. HIDE DEF g
<1>3. /\ end <= Len(h)
      /\ \A j \in i+1..end : h[j].role = "tool"
      /\ end = Len(h) \/ h[end + 1].role # "tool"
      /\ {h[j].id : j \in i+1..end} = ToSet(h[i].calls)
  BY DEF Answered
<1>4. \A j \in i+1..end : g[j] = h[j]
  BY <1>1, <1>2, <1>3 DEF g
<1>5. g[i] = h[i] /\ Len(g) = Len(h) + 1
  BY <1>1 DEF g
<1>6. g[end + 1].role # "tool"
  <2>1. CASE end = Len(h)
    BY <1>1, <1>2, <2>1 DEF g
  <2>2. CASE end # Len(h)
    <3>1. end + 1 \in 1..Len(h)
      BY <1>2, <1>3, <2>2
    <3>. QED
      BY <1>1, <1>3, <2>2, <3>1 DEF g
  <2>. QED
    BY <2>1, <2>2
<1>7. {g[j].id : j \in i+1..end} = {h[j].id : j \in i+1..end}
  BY <1>4
<1>8. Answered(g, i)
  <2>1. end <= Len(g) /\ end # Len(g)
    BY <1>2, <1>3, <1>5
  <2>2. /\ \A j \in i+1..end : g[j].role = "tool"
        /\ {g[j].id : j \in i+1..end} = ToSet(g[i].calls)
    BY <1>3, <1>4, <1>5, <1>7, Zenon
  <2>. QED
    BY <1>5, <1>6, <2>1, <2>2, Zenon DEF Answered
<1>. QED
  BY <1>8 DEF g

LEMMA CompletePrefix ==
  ASSUME NEW h, NEW m, NEW n \in Nat, n <= Len(h), CompleteTo(h, n),
         m.role # "tool" \/ (n < Len(h) /\ h[n + 1].role # "tool")
  PROVE  CompleteTo(Append(h, m), n)
<1>1. /\ IsSeq(Append(h, m)) /\ Len(h) \in Nat
      /\ \A j \in 1..Len(h) : Append(h, m)[j] = h[j]
  BY AppendFacts, SeqFacts DEF CompleteTo
<1>2. ASSUME NEW i \in 1..n, h[i].role = "assistant"
      PROVE  h[i].calls \in Batches \cup {<<>>} /\ Answered(Append(h, m), i)
  <2>1. h[i].calls \in Batches \cup {<<>>} /\ Answered(h, i) /\ i \in 1..Len(h)
    BY <1>1, <1>2 DEF CompleteTo
  <2>2. Len(h[i].calls) \in Nat /\ i \in Nat
    BY <2>1, CallsAreSeq
  <2>3. CASE n < Len(h) /\ h[n + 1].role # "tool"
    <3>1. i + Len(h[i].calls) < n + 1
      <4>1. \A j \in i+1..(i + Len(h[i].calls)) : h[j].role = "tool"
        BY <2>1 DEF Answered
      <4>2. n + 1 \notin i+1..(i + Len(h[i].calls))
        BY <4>1, <2>3
      <4>. QED
        BY <4>2, <2>2
    <3>2. i + Len(h[i].calls) < Len(h)
      BY <1>1, <2>2, <2>3, <3>1
    <3>. QED
      BY <1>2, <2>1, <3>2, AnsweredApart DEF CompleteTo
  <2>. QED
    BY <1>2, <2>1, <2>3, AnsweredApart DEF CompleteTo
<1>3. \A i \in 1..n : Append(h, m)[i] = h[i]
  BY <1>1
<1>. QED
  BY <1>1, <1>2, <1>3 DEF CompleteTo

\* A message that is no tool's result may follow a complete history.
LEMMA BatchBegins ==
  ASSUME NEW h, Complete(h), NEW c \in Batches \cup {<<>>}
  PROVE  Unfinished(Append(h, Assistant(c)), c, 0)
<1>. DEFINE g == Append(h, Assistant(c))
<1>1. /\ IsSeq(h) /\ Len(h) \in Nat /\ Len(g) = Len(h) + 1 /\ g[Len(h) + 1] = Assistant(c)
  BY AppendFacts, SeqFacts DEF Complete, CompleteTo
<1>2. CompleteTo(g, Len(h))
  <2>1. Assistant(c).role # "tool"
    BY DEF Assistant
  <2>. QED
    BY <1>1, <2>1, CompletePrefix DEF Complete
<1>. HIDE DEF g
<1>3. Len(c) \in Nat
  BY CallsAreSeq
<1>4. /\ Len(g) - 0 = Len(h) + 1 /\ Len(g) - 0 - 1 = Len(h) /\ Len(g) - 0 >= 1 /\ 0 \in 0..Len(c)
      /\ 1..0 = {}
  BY <1>1, <1>3
<1>5. Unfinished(g, c, 0)
  BY <1>1, <1>2, <1>4 DEF Unfinished
<1>. QED
  BY <1>5 DEF g

LEMMA BatchEnds ==
  ASSUME NEW h, NEW c, Unfinished(h, c, Len(c))
  PROVE  Complete(h)
<1>. DEFINE k == Len(h) - Len(c)
<1>1. /\ c \in Batches \cup {<<>>} /\ k >= 1 /\ h[k] = Assistant(c)
      /\ \A j \in 1..Len(c) : h[k + j].role = "tool" /\ h[k + j].id = c[j]
      /\ CompleteTo(h, k - 1)
  BY DEF Unfinished
<1>2. IsSeq(h) /\ Len(h) \in Nat /\ Len(c) \in Nat
  BY <1>1, CallsAreSeq, SeqFacts DEF CompleteTo
<1>3. k \in Nat /\ k + Len(c) = Len(h)
  BY <1>1, <1>2
<1>. HIDE DEF k
<1>4. h[k].role = "assistant" /\ h[k].calls = c
  BY <1>1 DEF Assistant
<1>5. \A j \in k+1..Len(h) : j - k \in 1..Len(c) /\ k + (j - k) = j
  BY <1>2, <1>3
<1>6. \A j \in k+1..Len(h) : h[j].role = "tool" /\ h[j].id = c[j - k]
  BY <1>1, <1>5
<1>7. {h[j].id : j \in k+1..Len(h)} = ToSet(c)
  <2>1. ToSet(c) = {c[i] : i \in 1..Len(c)}
    BY <1>1, CallsAreSeq
  <2>2. \A i \in 1..Len(c) : k + i \in k+1..Len(h) /\ (k + i) - k = i
    BY <1>2, <1>3
  <2>3. ASSUME NEW x \in {h[j].id : j \in k+1..Len(h)} PROVE x \in {c[i] : i \in 1..Len(c)}
    BY <1>5, <1>6
  <2>4. ASSUME NEW i \in 1..Len(c) PROVE c[i] \in {h[j].id : j \in k+1..Len(h)}
    BY <1>6, <2>2
  <2>. QED
    BY <2>1, <2>3, <2>4
<1>8. Answered(h, k)
  BY <1>2, <1>3, <1>4, <1>6, <1>7 DEF Answered
<1>9. ASSUME NEW i \in 1..Len(h), h[i].role = "assistant"
      PROVE  h[i].calls \in Batches \cup {<<>>} /\ Answered(h, i)
  <2>1. i \in 1..(k - 1) \/ i = k \/ i \in k+1..Len(h)
    BY <1>2, <1>3
  <2>. QED
    BY <1>1, <1>4, <1>6, <1>8, <1>9, <2>1 DEF CompleteTo
<1>. QED
  BY <1>2, <1>9 DEF Complete, CompleteTo

LEMMA ResultComes ==
  ASSUME NEW h, NEW c, NEW d, Unfinished(h, c, d), d < Len(c), NEW r
  PROVE  Unfinished(Append(h, Result(c[d + 1], r)), c, d + 1)
<1>. DEFINE m == Result(c[d + 1], r)
            g == Append(h, m)
            k == Len(h) - d
<1>1. /\ c \in Batches \cup {<<>>} /\ d \in 0..Len(c) /\ k >= 1 /\ h[k] = Assistant(c)
      /\ \A j \in 1..d : h[k + j].role = "tool" /\ h[k + j].id = c[j]
      /\ CompleteTo(h, k - 1)
  BY DEF Unfinished
<1>2. IsSeq(h) /\ Len(h) \in Nat /\ Len(c) \in Nat /\ d \in Nat
  BY <1>1, CallsAreSeq, SeqFacts DEF CompleteTo
<1>3. /\ Len(g) = Len(h) + 1 /\ g[Len(h) + 1] = m
      /\ \A j \in 1..Len(h) : g[j] = h[j]
  BY <1>2, AppendFacts
<1>4. m.role = "tool" /\ m.id = c[d + 1]
  BY DEF Result
<1>5. CompleteTo(g, k - 1)
  <2>1. k - 1 \in Nat /\ k - 1 < Len(h) /\ k - 1 + 1 = k
    BY <1>1, <1>2
  <2>2. h[k].role # "tool"
    BY <1>1 DEF Assistant
  <2>. QED
    BY <1>1, <1>2, <2>1, <2>2, CompletePrefix
<1>6. k \in 1..Len(h) /\ k + d = Len(h) /\ Len(g) - (d + 1) = k
  BY <1>1, <1>2, <1>3
<1>. HIDE DEF g, m, k
<1>7. ASSUME NEW j \in 1..(d + 1) PROVE g[k + j].role = "tool" /\ g[k + j].id = c[j]
  <2>1. CASE j = d + 1
    <3>1. k + j = Len(h) + 1
      BY <1>2, <1>6, <2>1
    <3>. QED
      BY <1>3, <1>4, <2>1, <3>1
  <2>2. CASE j \in 1..d
    <3>1. k + j \in 1..Len(h)
      BY <1>2, <1>6, <2>2
    <3>. QED
      BY <1>1, <1>3, <2>2, <3>1
  <2>. QED
    BY <1>2, <2>1, <2>2
<1>8. d + 1 \in 0..Len(c) /\ g[k] = Assistant(c) /\ k >= 1
  BY <1>1, <1>2, <1>3, <1>6
<1>9. Unfinished(g, c, d + 1)
  BY <1>1, <1>5, <1>6, <1>7, <1>8, Zenon DEF Unfinished
<1>. QED
  BY <1>9 DEF g, m

\* A prompt, or a reply without calls, follows a complete history.
LEMMA PromptComes ==
  ASSUME NEW h, Complete(h), NEW p
  PROVE  Complete(Append(h, User(p)))
<1>. DEFINE g == Append(h, User(p))
<1>1. /\ IsSeq(h) /\ Len(h) \in Nat /\ Len(g) = Len(h) + 1 /\ g[Len(h) + 1] = User(p)
  BY AppendFacts, SeqFacts DEF Complete, CompleteTo
<1>2. User(p).role = "user"
  BY DEF User
<1>3. CompleteTo(g, Len(h))
  BY <1>1, <1>2, CompletePrefix DEF Complete
<1>. HIDE DEF g
<1>4. \A i \in 1..Len(g) : i \in 1..Len(h) \/ i = Len(h) + 1
  BY <1>1
<1>5. Complete(g)
  BY <1>1, <1>2, <1>3, <1>4 DEF Complete, CompleteTo
<1>. QED
  BY <1>5 DEF g

LEMMA ReplyComes ==
  ASSUME NEW h, Complete(h)
  PROVE  Complete(Append(h, Assistant(<<>>)))
<1>1. Unfinished(Append(h, Assistant(<<>>)), <<>>, Len(<<>>))
  <2>1. Len(<<>>) = 0
    OBVIOUS
  <2>. QED
    BY <2>1, BatchBegins
<1>. QED
  BY <1>1, BatchEnds

LEMMA SmallestIn ==
  ASSUME NEW S, S \subseteq Nat, S # {}
  PROVE  \E x \in S : \A y \in S : x <= y
<1>1. PICK x \in S : \A y \in S : ~(<<y, x>> \in OpToRel(<, Nat))
  BY NatLessThanWellFounded, WFMin, Zenon
<1>2. \A y \in S : ~(y < x)
  BY <1>1 DEF OpToRel
<1>. QED
  BY <1>2

\* One function answers the calls from the first to the last.
AnswersRest(f, calls, completed, h) ==
  f = [n \in 0..Len(calls) |->
        IF n = 0 THEN h
        ELSE IF calls[n] \in completed THEN f[n - 1]
        ELSE Append(f[n - 1], Result(calls[n], "not run"))]

LEMMA AnswersExist ==
  ASSUME NEW c, Len(c) \in Nat, NEW completed, NEW h
  PROVE  \E f : AnswersRest(f, c, completed, h)
<1>. DEFINE late(n) == Result(c[n], "not run")
            value(f, n) == IF n = 0 THEN h
                           ELSE IF c[n] \in completed THEN f[n - 1] ELSE Append(f[n - 1], late(n))
            UpTo(f, k) == f = [n \in 0..k |-> value(f, n)]
            wrong == {k \in 0..Len(c) : ~\E f : UpTo(f, k)}
<1>. HIDE DEF late
<1>1. wrong = {}
  <2>. SUFFICES ASSUME wrong # {} PROVE FALSE
    OBVIOUS
  <2>1. PICK k \in wrong : \A j \in wrong : k <= j
    <3>1. wrong \subseteq Nat
      OBVIOUS
    <3>. HIDE DEF wrong
    <3>. QED
      BY <3>1, SmallestIn
  <2>. HIDE DEF UpTo
  <2>2. k \in 0..Len(c) /\ ~\E f : UpTo(f, k)
    BY <2>1
  <2>3. k # 0
    <3>1. UpTo([n \in 0..0 |-> h], 0)
      BY DEF UpTo
    <3>. QED
      BY <2>2, <3>1
  <2>4. k \in Nat /\ k - 1 \in 0..Len(c) /\ k - 1 \in Nat /\ ~(k <= k - 1)
    BY <2>2, <2>3
  <2>5. PICK f : UpTo(f, k - 1)
    BY <2>1, <2>4
  <2>. DEFINE g == [n \in 0..k |-> IF n = k THEN value(f, k) ELSE f[n]]
  <2>6. ASSUME NEW n \in 0..k PROVE g[n] = value(g, n)
    <3>1. n # 0 => n - 1 \in 0..k /\ g[n - 1] = f[n - 1]
      <4>. HIDE DEF value
      <4>. QED
        BY <2>4
    <3>2. CASE n = k
      BY <2>3, <3>1, <3>2
    <3>3. CASE n # k
      <4>1. n \in 0..(k - 1)
        BY <2>4, <3>3
      <4>2. f[n] = value(f, n)
        BY <2>5, <4>1 DEF UpTo
      <4>. QED
        BY <3>1, <3>3, <4>2
    <3>. QED
      BY <3>2, <3>3
  <2>7. UpTo(g, k)
    <3>1. g = [n \in 0..k |-> g[n]]
      OBVIOUS
    <3>. HIDE DEF g, value
    <3>2. g = [n \in 0..k |-> value(g, n)]
      BY <2>6, <3>1
    <3>. QED
      BY <3>2 DEF UpTo
  <2>. HIDE DEF g
  <2>. QED
    BY <2>2, <2>7
<1>2. \E f : UpTo(f, Len(c))
  <2>. HIDE DEF UpTo
  <2>. QED
    BY <1>1
<1>. QED
  BY <1>2, Zenon DEF AnswersRest, late

LEMMA AnswersFinish ==
  ASSUME NEW h, NEW c, NEW d, Unfinished(h, c, d)
  PROVE  Complete(AnswerRest(c, {c[j] : j \in 1..d}, h))
<1>. DEFINE completed == {c[j] : j \in 1..d}
            f == CHOOSE g : AnswersRest(g, c, completed, h)
<1>1. /\ c \in Batches \cup {<<>>} /\ d \in 0..Len(c) /\ d \in Nat /\ Len(c) \in Nat /\ IsSeq(h)
      /\ \A i, j \in 1..Len(c) : c[i] = c[j] => i = j
  <2>1. c \in Batches \cup {<<>>} /\ d \in 0..Len(c) /\ IsSeq(h)
    BY DEF Unfinished, CompleteTo
  <2>. QED
    BY <2>1, CallsAreSeq
<1>2. AnswerRest(c, completed, h) = f[Len(c)]
  BY DEF AnswerRest, AnswersRest
<1>3. AnswersRest(f, c, completed, h)
  BY <1>1, AnswersExist
<1>4. ASSUME NEW n \in 1..Len(c) PROVE c[n] \in completed <=> n <= d
  BY <1>1, <1>4
<1>. HIDE DEF f, completed
<1>5. f[0] = h /\ \A n \in 1..Len(c) : f[n] = IF c[n] \in completed THEN f[n - 1]
                                   ELSE Append(f[n - 1], Result(c[n], "not run"))
  <2>1. f = [n \in 0..Len(c) |->
              IF n = 0 THEN h
              ELSE IF c[n] \in completed THEN f[n - 1]
              ELSE Append(f[n - 1], Result(c[n], "not run"))]
    BY <1>3 DEF AnswersRest
  <2>2. 0 \in 0..Len(c) /\ \A n \in 1..Len(c) : n \in 0..Len(c) /\ n # 0
    BY <1>1
  <2>3. f[0] = h
    BY <2>1, <2>2
  <2>4. ASSUME NEW n \in 1..Len(c)
        PROVE  f[n] = IF c[n] \in completed THEN f[n - 1]
                      ELSE Append(f[n - 1], Result(c[n], "not run"))
    BY <2>1, <2>2
  <2>. QED
    BY <2>3, <2>4
<1>. DEFINE done(n) == IF n <= d THEN d ELSE n
            wrong == {n \in 0..Len(c) : ~Unfinished(f[n], c, done(n))}
<1>6. wrong = {}
  <2>. SUFFICES ASSUME wrong # {} PROVE FALSE
    OBVIOUS
  <2>1. PICK n \in wrong : \A k \in wrong : n <= k
    <3>1. wrong \subseteq Nat
      BY <1>1
    <3>. QED
      BY <3>1, SmallestIn
  <2>2. n \in 1..Len(c) /\ n - 1 \in 0..Len(c)
    <3>1. n # 0
      <4>1. done(0) = d
        BY <1>1
      <4>2. Unfinished(f[0], c, done(0))
        BY <1>5, <4>1
      <4>. QED
        BY <2>1, <4>2
    <3>. QED
      BY <1>1, <3>1
  <2>3. Unfinished(f[n - 1], c, done(n - 1))
    BY <2>1, <2>2
  <2>4. CASE n <= d
    <3>1. done(n) = d /\ done(n - 1) = d
      BY <1>1, <2>2, <2>4
    <3>2. f[n] = f[n - 1]
      BY <1>4, <1>5, <2>2, <2>4
    <3>. QED
      BY <2>1, <2>3, <3>1, <3>2
  <2>5. CASE ~(n <= d)
    <3>1. done(n - 1) = n - 1 /\ done(n) = n /\ n - 1 + 1 = n /\ n - 1 < Len(c)
      BY <1>1, <2>2, <2>5
    <3>2. f[n] = Append(f[n - 1], Result(c[n], "not run"))
      BY <1>4, <1>5, <2>2, <2>5
    <3>3. Unfinished(f[n], c, n)
      BY <2>3, <3>1, <3>2, ResultComes
    <3>. QED
      BY <2>1, <3>1, <3>3
  <2>. QED
    BY <2>4, <2>5
<1>7. Unfinished(f[Len(c)], c, Len(c))
  <2>1. Len(c) \in 0..Len(c) /\ done(Len(c)) = Len(c)
    BY <1>1
  <2>. QED
    BY <1>6, <2>1
<1>. QED
  BY <1>2, <1>7, BatchEnds DEF completed

LEMMA BatchFinishes ==
  ASSUME NEW h, NEW t, NEW d, Unfinished(h, t.calls, d)
  PROVE  Complete(FinishToolHistory(t, h))
<1>. DEFINE c == t.calls
            k == Len(h) - d
<1>1. /\ c \in Batches \cup {<<>>} /\ d \in 0..Len(c) /\ k >= 1 /\ h[k] = Assistant(c)
      /\ \A j \in 1..d : h[k + j].role = "tool" /\ h[k + j].id = c[j]
      /\ IsSeq(h)
  BY DEF Unfinished, CompleteTo
<1>2. Len(h) \in Nat /\ DOMAIN h = 1..Len(h) /\ Len(c) \in Nat /\ d \in Nat
  BY <1>1, CallsAreSeq, SeqFacts
<1>3. k \in DOMAIN h /\ k + d = Len(h) /\ k \in Nat
  BY <1>1, <1>2
<1>. HIDE DEF k
<1>4. \A j \in k+1..Len(h) : j - k \in 1..d /\ k + (j - k) = j
  BY <1>2, <1>3
<1>5. \A j \in k+1..Len(h) : h[j].role = "tool" /\ h[j].id = c[j - k]
  BY <1>1, <1>4, SMTT(30)
<1>6. LastReply(h) = k
  <2>. DEFINE IsLast(i) == h[i].role = "assistant" /\ \A j \in i+1..Len(h) : h[j].role # "assistant"
  <2>1. IsLast(k)
    BY <1>1, <1>5 DEF Assistant
  <2>2. ASSUME NEW i \in DOMAIN h, IsLast(i) PROVE i = k
    <3>1. CASE i < k
      BY <1>2, <1>3, <2>1, <2>2, <3>1
    <3>2. CASE i > k
      <4>1. i \in k+1..Len(h)
        BY <1>2, <1>3, <3>2
      <4>. QED
        BY <1>5, <2>2, <4>1
    <3>. QED
      BY <1>2, <1>3, <3>1, <3>2
  <2>. HIDE DEF IsLast
  <2>3. (CHOOSE i \in DOMAIN h : IsLast(i)) = k
    BY <1>3, <2>1, <2>2
  <2>. QED
    BY <2>3 DEF LastReply, IsLast
<1>7. {h[i].id : i \in LastReply(h)+1..Len(h)} = {c[j] : j \in 1..d}
  <2>1. \A j \in 1..d : k + j \in k+1..Len(h) /\ (k + j) - k = j
    BY <1>2, <1>3
  <2>2. ASSUME NEW x \in {h[i].id : i \in k+1..Len(h)} PROVE x \in {c[j] : j \in 1..d}
    BY <1>4, <1>5
  <2>3. ASSUME NEW j \in 1..d PROVE c[j] \in {h[i].id : i \in k+1..Len(h)}
    BY <1>5, <2>1
  <2>. QED
    BY <1>6, <2>2, <2>3
<1>. QED
  BY <1>7, AnswersFinish DEF FinishToolHistory

-----------------------------------------------------------------------------
(* The histories and the files, whoever writes them.                       *)

\* There is a history and a file for every session.
HistoriesTyped ==
  /\ IsSeq(history) /\ Len(history) = Opened
  /\ IsSeq(saved) /\ Len(saved) = Opened
  /\ drafted \subseteq 1..Opened

\* How far a turn is with the calls of its reply.
Answering(t) == t.committed /\ t.at \in {"showing", "asking", "running", "failing"}
TurnPlaced ==
  Generating =>
    /\ turn.session \in 1..Opened /\ turn.done \in 0..Len(turn.calls)
    /\ (~turn.committed => turn.calls = <<>>)
    /\ (turn.at \in {"created", "streaming"} => ~turn.committed)
    /\ (turn.at \in {"showing", "asking", "running"} => turn.committed)
    /\ (Answering(turn) => turn.done < Len(turn.calls))

\* The history a turn writes has a reply with some of its results at the end; every other
\* one is complete, and so is every file that is not marked as a draft.
Written(s) ==
  IF Generating /\ turn.session = s /\ Answering(turn)
  THEN Unfinished(history[s], turn.calls, turn.done)
  ELSE Complete(history[s])
FilesComplete(files) ==
  \A s \in 1..Len(files) : files[s] # NoFile /\ ~files[s].draft => Complete(files[s].msgs)
HistoriesInv ==
  /\ HistoriesTyped /\ TurnPlaced
  /\ \A s \in (1..Opened) \ drafted : Written(s)
  /\ FilesComplete(saved)

PutAt(g, h, i, x) == g = [h EXCEPT ![i] = x]

LEMMA PutFacts ==
  ASSUME NEW h, IsSeq(h), NEW i \in 1..Len(h), NEW x, NEW g, PutAt(g, h, i, x)
  PROVE  /\ IsSeq(g) /\ Len(g) = Len(h) /\ g[i] = x
         /\ \A j \in 1..Len(h) : j # i => g[j] = h[j]
<1>1. PICK S : h \in Seq(S)
  BY DEF IsSeq
<1>2. h \in [1..Len(h) -> S] /\ Len(h) \in Nat
  BY <1>1
<1>3. g \in [1..Len(h) -> S \cup {x}]
  BY <1>2 DEF PutAt
<1>4. g[i] = x /\ \A j \in 1..Len(h) : j # i => g[j] = h[j]
  BY <1>2 DEF PutAt
<1>5. g \in Seq(S \cup {x}) /\ DOMAIN g = 1..Len(h)
  BY <1>2, <1>3
<1>6. Len(g) = Len(h)
  BY <1>2, <1>5, LenProperties
<1>7. IsSeq(g)
  BY <1>5 DEF IsSeq
<1>. QED
  BY <1>4, <1>6, <1>7

LEMMA StartWrites ==
  ASSUME SessionsTyped, HistoriesTyped, FilesComplete(saved)', NEW p, NEW rest, NEW h, NEW hold,
         StartTurn(p, rest, h, hold), IsSeq(h), Len(h) = Opened,
         \A s \in (1..Opened) \ drafted : Complete(h[s]),
         IsSeq(saved)', Len(saved)' = Opened, UNCHANGED <<modelOf, drafted>>
  PROVE  HistoriesInv'
<1>. DEFINE x == Append(h[current], User(p))
<1>1. /\ turn' = NewTurn(p) /\ PutAt(history', h, current, x)
      /\ current \in 1..Len(h) /\ Opened' = Opened
  BY DEF StartTurn, SessionsTyped, Opened, PutAt
<1>2. /\ IsSeq(history') /\ Len(history') = Opened /\ history'[current] = x
      /\ \A s \in 1..Opened : s # current => history'[s] = h[s]
  <2>. HIDE DEF x
  <2>. QED
    BY <1>1, PutFacts
<1>3. ASSUME NEW s \in (1..Opened) \ drafted PROVE Complete(history'[s])
  BY <1>2, PromptComes
<1>4. HistoriesTyped'
  BY <1>1, <1>2 DEF HistoriesTyped
<1>5. ~Answering(turn)'
  BY <1>1 DEF Answering, NewTurn
<1>6. TurnPlaced'
  BY <1>1, <1>5 DEF TurnPlaced, NewTurn, SessionsTyped
<1>7. \A s \in ((1..Opened) \ drafted)' : Written(s)'
  BY <1>1, <1>3, <1>5 DEF Written
<1>. QED
  BY <1>4, <1>6, <1>7 DEF HistoriesInv

LEMMA ReleaseWrites ==
  ASSUME SessionsTyped, HistoriesTyped, FilesComplete(saved)', NEW t, NEW ok, NEW h,
         Release(t, ok, h), IsSeq(h), Len(h) = Opened,
         \A s \in (1..Opened) \ drafted : Complete(h[s]),
         IsSeq(saved)', Len(saved)' = Opened, UNCHANGED <<modelOf, drafted>>
  PROVE  HistoriesInv'
<1>1. CASE StartTurn(Head(queue), Tail(queue), h, paused)
  BY <1>1, StartWrites
<1>2. CASE turn' = Nobody /\ history' = h
  <2>1. ~Generating' /\ Opened' = Opened
    BY <1>2 DEF Generating, Opened
  <2>. QED
    BY <1>2, <2>1 DEF HistoriesInv, HistoriesTyped, TurnPlaced, Written
<1>. QED
  BY <1>1, <1>2 DEF Release

\* What a turn needs to be when its finally block begins.
CanSettle(t, ok, h) ==
  IF ok THEN ~t.stop /\ Complete(h)
  ELSE IF t.committed THEN Unfinished(h, t.calls, t.done) ELSE t.calls = <<>> /\ Complete(h)

LEMMA SettledComplete ==
  ASSUME NEW t, NEW ok, NEW h, CanSettle(t, ok, h)
  PROVE  Complete(Settled(t, ok, h))
<1>1. CASE ok
  BY <1>1 DEF CanSettle, Settled
<1>2. CASE ~ok /\ t.committed
  BY <1>2, BatchFinishes DEF CanSettle, Settled, CommitDraft
<1>3. CASE ~ok /\ ~t.committed
  <2>1. t.calls = <<>> /\ Complete(h)
    BY <1>3 DEF CanSettle
  <2>2. CommitDraft(t, h) = Append(h, Assistant(<<>>))
    BY <1>3, <2>1 DEF CommitDraft
  <2>3. Unfinished(CommitDraft(t, h), t.calls, 0)
    BY <2>1, <2>2, BatchBegins
  <2>4. Complete(FinishToolHistory(t, CommitDraft(t, h)))
    BY <2>3, BatchFinishes
  <2>. QED
    BY <1>3, <2>1, <2>4 DEF Settled
<1>. QED
  BY <1>1, <1>2, <1>3

LEMMA EndWrites ==
  ASSUME SessionsTyped, HistoriesInv, NEW t \in Turns, NEW ok \in BOOLEAN, NEW h, EndTurn(t, ok, h),
         IsSeq(h), Len(h) = Opened, t.session \in 1..Opened, t.done \in 0..Len(t.calls),
         ~t.committed => t.calls = <<>>, Generating, t.session = turn.session,
         \A s \in 1..Opened : s # t.session => h[s] = history[s],
         t.session \notin drafted => CanSettle(t, ok, h[t.session]),
         UNCHANGED <<modelOf, drafted>>
  PROVE  HistoriesInv'
<1>. DEFINE g == [h EXCEPT ![t.session] = Settled(t, ok, @)]
<1>1. /\ IsSeq(g) /\ Len(g) = Opened /\ g[t.session] = Settled(t, ok, h[t.session])
      /\ \A s \in 1..Opened : s # t.session => g[s] = h[s]
  <2>1. PutAt(g, h, t.session, Settled(t, ok, h[t.session])) /\ t.session \in 1..Len(h)
    BY DEF PutAt
  <2>. HIDE DEF g
  <2>. QED
    BY <2>1, PutFacts
<1>2. \/ /\ saved' = [saved EXCEPT ![t.session] =
                     [msgs |-> g[t.session], draft |-> t.session \in drafted]]
         /\ Release(t, ok, g)
      \/ /\ turn' = [t EXCEPT !.at = "unsaved", !.committed = @ \/ t.stop \/ t.text]
         /\ history' = g /\ saved' = saved
  BY DEF EndTurn, Write
<1>. HIDE DEF g
<1>3. \A s \in (1..Opened) \ drafted : Complete(g[s])
  <2>1. ASSUME NEW s \in (1..Opened) \ drafted, s # t.session PROVE Complete(history[s])
    BY <2>1 DEF HistoriesInv, Written
  <2>2. t.session \notin drafted => Complete(g[t.session])
    BY <1>1, SettledComplete
  <2>. QED
    BY <1>1, <2>1, <2>2
<1>4. HistoriesTyped /\ FilesComplete(saved) /\ Opened' = Opened
  BY DEF HistoriesInv, Opened
<1>5. CASE /\ saved' = [saved EXCEPT ![t.session] =
                     [msgs |-> g[t.session], draft |-> t.session \in drafted]]
           /\ Release(t, ok, g)
  <2>. DEFINE file == [msgs |-> g[t.session], draft |-> t.session \in drafted]
  <2>0. PutAt(saved', saved, t.session, file) /\ t.session \in 1..Len(saved)
    BY <1>4, <1>5 DEF HistoriesTyped, PutAt
  <2>3. file.msgs = g[t.session] /\ (~file.draft => t.session \notin drafted)
    OBVIOUS
  <2>. HIDE DEF file
  <2>1. IsSeq(saved)' /\ Len(saved)' = Opened /\ saved'[t.session] = file
        /\ \A s \in 1..Opened : s # t.session => saved'[s] = saved[s]
    BY <1>4, <2>0, PutFacts DEF HistoriesTyped
  <2>4. Len(saved') = Len(saved) /\ Len(saved) = Opened
    BY <1>4, <2>1 DEF HistoriesTyped
  <2>5. ASSUME NEW s \in 1..Len(saved'), saved'[s] # NoFile /\ ~saved'[s].draft
        PROVE  Complete(saved'[s].msgs)
    <3>1. CASE s = t.session
      BY <1>3, <2>1, <2>3, <2>4, <2>5, <3>1
    <3>2. CASE s # t.session
      BY <1>4, <2>1, <2>4, <2>5, <3>2 DEF FilesComplete
    <3>. QED
      BY <3>1, <3>2
  <2>2. FilesComplete(saved')
    BY <2>5 DEF FilesComplete
  <2>. QED
    BY <1>1, <1>3, <1>4, <1>5, <2>1, <2>2, ReleaseWrites
<1>6. CASE /\ turn' = [t EXCEPT !.at = "unsaved", !.committed = @ \/ t.stop \/ t.text]
           /\ history' = g /\ saved' = saved
  <2>1. /\ turn'.at = "unsaved" /\ turn'.calls = t.calls /\ turn'.done = t.done
        /\ turn'.session = t.session /\ (~turn'.committed => ~t.committed)
    BY <1>6 DEF Turns
  <2>2. ~Answering(turn)'
    BY <2>1 DEF Answering
  <2>3. TurnPlaced'
    BY <1>4, <2>1, <2>2 DEF TurnPlaced
  <2>4. HistoriesTyped'
    BY <1>1, <1>4, <1>6 DEF HistoriesTyped
  <2>5. \A s \in ((1..Opened) \ drafted)' : Written(s)'
    BY <1>3, <1>4, <1>6, <2>2 DEF Written
  <2>. QED
    BY <1>4, <1>6, <2>3, <2>4, <2>5 DEF HistoriesInv
<1>. QED
  BY <1>2, <1>5, <1>6

\* A step of the turn that leaves the histories and files alone.
LEMMA TurnMoved ==
  ASSUME HistoriesInv, Generating, turn' # Nobody, UNCHANGED <<modelOf, history, saved, drafted>>,
         turn'.session = turn.session, turn'.calls = turn.calls, turn'.done = turn.done,
         turn'.committed = turn.committed,
         turn'.at \in {"created", "streaming"} => turn.at \in {"created", "streaming"},
         turn'.at \in {"showing", "asking", "running"}
           => turn.at \in {"showing", "asking", "running"},
         turn'.at \in {"showing", "asking", "running", "failing"}
           => turn.at \in {"showing", "asking", "running", "failing"} \/ ~turn.committed,
         turn.at \in {"showing", "asking", "running", "failing"}
           => turn'.at \in {"showing", "asking", "running", "failing"}
  PROVE  HistoriesInv'
<1>1. Answering(turn)' <=> Answering(turn)
  BY DEF Answering
<1>2. Opened' = Opened /\ Generating'
  BY DEF Opened, Generating
<1>3. TurnPlaced'
  BY <1>1, <1>2 DEF TurnPlaced, HistoriesInv
<1>4. \A s \in 1..Opened : Written(s)' <=> Written(s)
  BY <1>1, <1>2 DEF Written
<1>. QED
  BY <1>2, <1>3, <1>4 DEF HistoriesInv, HistoriesTyped, FilesComplete

\* A step in which the turn's history grows by one message.
Grows(h, m) == PutAt(h, history, turn.session, Append(history[turn.session], m))

LEMMA GrownFacts ==
  ASSUME HistoriesInv, Generating, NEW h, NEW m, Grows(h, m)
  PROVE  /\ IsSeq(h) /\ Len(h) = Opened /\ h[turn.session] = Append(history[turn.session], m)
         /\ \A s \in 1..Opened : s # turn.session => h[s] = history[s]
<1>. DEFINE x == Append(history[turn.session], m)
<1>1. turn.session \in 1..Len(history) /\ IsSeq(history) /\ Len(history) = Opened
  BY DEF HistoriesInv, HistoriesTyped, TurnPlaced
<1>2. PutAt(h, history, turn.session, x)
  BY DEF Grows
<1>. HIDE DEF x
<1>3. /\ IsSeq(h) /\ Len(h) = Opened /\ h[turn.session] = x
      /\ \A s \in 1..Opened : s # turn.session => h[s] = history[s]
  BY <1>1, <1>2, PutFacts
<1>. QED
  BY <1>3 DEF x

LEMMA TurnGrows ==
  ASSUME HistoriesInv, Generating, turn' # Nobody, UNCHANGED <<modelOf, saved, drafted>>, NEW m,
         Grows(history', m), turn'.session = turn.session,
         TurnPlaced',
         turn.session \notin drafted => Written(turn.session)'
  PROVE  HistoriesInv'
<1>1. /\ IsSeq(history') /\ Len(history') = Opened
      /\ \A s \in 1..Opened : s # turn.session => history'[s] = history[s]
  BY GrownFacts
<1>2. Opened' = Opened /\ Generating'
  BY DEF Opened, Generating
<1>3. HistoriesTyped'
  BY <1>1, <1>2 DEF HistoriesInv, HistoriesTyped
<1>4. ASSUME NEW s \in (1..Opened) \ drafted PROVE Written(s)'
  <2>1. CASE s = turn.session
    BY <1>4, <2>1
  <2>2. CASE s # turn.session
    <3>1. Complete(history[s])
      BY <2>2 DEF HistoriesInv, Written
    <3>. QED
      BY <1>1, <1>2, <2>2, <3>1 DEF Written
  <2>. QED
    BY <2>1, <2>2
<1>. QED
  BY <1>2, <1>3, <1>4 DEF HistoriesInv

LEMMA WorkerWrites ==
  ASSUME TurnTyped, SessionsTyped, HistoriesInv, Worker
  PROVE  HistoriesInv'
<1>0. Generating /\ turn \in Turns /\ UNCHANGED <<modelOf, drafted>>
  BY DEF Worker, TurnStarts, ReplyEnds, StreamFails, CallsArrive, AskUser, RunTool, Deny,
     ToolReturns, ToolRaises, ErrorShown, TurnCancelled, Unsaved, At, TurnTyped, Generating, Others
<1>a. /\ turn.session \in 1..Opened /\ turn.done \in 0..Len(turn.calls)
      /\ (~turn.committed => turn.calls = <<>>)
      /\ (turn.at \in {"created", "streaming"} => ~turn.committed)
      /\ (turn.at \in {"showing", "asking", "running"} => turn.committed)
      /\ (Answering(turn) => turn.done < Len(turn.calls))
      /\ turn.calls \in Batches \cup {<<>>} /\ Len(turn.calls) \in Nat
      /\ IsSeq(history) /\ Len(history) = Opened
  BY <1>0, CallsAreSeq DEF HistoriesInv, HistoriesTyped, TurnPlaced, Turns
<1>b. ASSUME turn.session \notin drafted
      PROVE  /\ Answering(turn) => Unfinished(history[turn.session], turn.calls, turn.done)
             /\ ~Answering(turn) => Complete(history[turn.session])
  BY <1>0, <1>a, <1>b DEF HistoriesInv, Written
<1>1. CASE TurnStarts \/ AskUser \/ RunTool \/ ToolRaises
  <2>1. turn' # Nobody /\ UNCHANGED <<history, saved>>
    <3>1. turn' \in Turns
      BY <1>0, <1>1 DEF TurnStarts, AskUser, RunTool, ToolRaises, Turns, TurnPlaces
    <3>. QED
      BY <1>1, <3>1, NobodyAssumption DEF TurnStarts, AskUser, RunTool, ToolRaises, NoEnd
  <2>2. /\ turn'.session = turn.session /\ turn'.calls = turn.calls /\ turn'.done = turn.done
        /\ turn'.committed = turn.committed
        /\ \/ turn'.at = "streaming" /\ turn.at = "created"
           \/ turn'.at \in {"asking", "running"} /\ turn.at \in {"showing", "asking"}
           \/ turn'.at = "failing" /\ turn.at = "running"
    BY <1>0, <1>1 DEF TurnStarts, AskUser, RunTool, ToolRaises, At, Turns
  <2>. QED
    BY <1>0, <2>1, <2>2, TurnMoved
<1>2. CASE StreamFails
  <2>1. turn' # Nobody /\ UNCHANGED <<history, saved>>
    <3>1. turn' \in Turns
      BY <1>0, <1>2 DEF StreamFails, Turns, TurnPlaces
    <3>. QED
      BY <1>2, <3>1, NobodyAssumption DEF StreamFails
  <2>2. /\ turn'.session = turn.session /\ turn'.calls = turn.calls /\ turn'.done = turn.done
        /\ turn'.committed = turn.committed /\ turn'.at = "failing" /\ turn.at = "streaming"
    BY <1>0, <1>2 DEF StreamFails, At, Turns
  <2>. QED
    BY <1>0, <1>a, <2>1, <2>2, TurnMoved
<1>3. CASE ReplyEnds
  <2>. DEFINE t == [turn EXCEPT !.committed = TRUE]
              h == [history EXCEPT ![turn.session] = Append(@, Assistant(<<>>))]
  <2>1. /\ t \in Turns /\ t.session = turn.session /\ t.done = turn.done /\ t.calls = turn.calls
        /\ t.committed /\ ~t.stop /\ turn.at = "streaming"
    BY <1>0, <1>3 DEF ReplyEnds, Turns, At
  <2>2. EndTurn(t, TRUE, h) /\ Grows(h, Assistant(<<>>))
    BY <1>3 DEF ReplyEnds, Grows, PutAt
  <2>. HIDE DEF t, h
  <2>3. /\ IsSeq(h) /\ Len(h) = Opened
        /\ h[turn.session] = Append(history[turn.session], Assistant(<<>>))
        /\ \A s \in 1..Opened : s # turn.session => h[s] = history[s]
    BY <1>0, <2>2, GrownFacts
  <2>4. t.session \notin drafted => CanSettle(t, TRUE, h[t.session])
    BY <1>a, <1>b, <2>1, <2>3, ReplyComes DEF CanSettle, Answering
  <2>. QED
    BY <1>0, <1>a, <2>1, <2>2, <2>3, <2>4, EndWrites
<1>4. ASSUME NEW calls \in Batches, CallsArrive(calls) PROVE HistoriesInv'
  <2>1. /\ turn' \in Turns /\ turn'.session = turn.session /\ turn'.done = 0 /\ turn'.calls = calls
        /\ turn'.committed /\ turn'.at = "showing" /\ turn.at = "streaming"
    BY <1>0, <1>4 DEF CallsArrive, Turns, At, TurnPlaces
  <2>2. /\ turn' # Nobody /\ UNCHANGED <<saved, modelOf, drafted>>
        /\ Grows(history', Assistant(calls))
    BY <1>0, <1>4, <2>1, NobodyAssumption DEF CallsArrive, NoEnd, Grows, PutAt
  <2>3. Len(calls) \in Nat /\ 0 < Len(calls)
    <3>1. calls \in Seq(ToSet(calls)) /\ calls # <<>>
      BY ChatAssumption
    <3>. QED
      BY <3>1
  <2>4. TurnPlaced'
    BY <1>0, <1>a, <2>1, <2>3 DEF TurnPlaced, Opened
  <2>5. turn.session \notin drafted => Written(turn.session)'
    <3>1. history'[turn.session] = Append(history[turn.session], Assistant(calls))
      BY <1>0, <2>2, GrownFacts
    <3>2. Generating' /\ Answering(turn)'
      BY <2>1, <2>2 DEF Generating, Answering
    <3>. QED
      BY <1>a, <1>b, <2>1, <3>1, <3>2, BatchBegins DEF Written, Answering
  <2>. QED
    BY <1>0, <2>1, <2>2, <2>4, <2>5, TurnGrows
<1>5. ASSUME NEW result, NextCall(result), turn.at \in {"asking", "running"} PROVE HistoriesInv'
  <2>. DEFINE t == [turn EXCEPT !.done = @ + 1]
              m == Result(t.calls[t.done], result)
              h == [history EXCEPT ![t.session] = Append(@, m)]
  <2>1. /\ t \in Turns /\ t.session = turn.session /\ t.done = turn.done + 1 /\ t.calls = turn.calls
        /\ t.committed = turn.committed /\ t.stop = turn.stop
    BY <1>0 DEF Turns
  <2>2. turn.committed /\ Answering(turn) /\ turn.done + 1 \in 0..Len(turn.calls) /\ turn.done \in Nat
    BY <1>5, <1>a DEF Answering
  <2>3. /\ Grows(h, m)
        /\ \/ turn.stop /\ EndTurn(t, FALSE, h)
           \/ /\ turn' = IF t.done < Len(t.calls) THEN [t EXCEPT !.at = "showing"]
                      ELSE [t EXCEPT !.at = "streaming", !.calls = <<>>,
                                     !.committed = FALSE, !.done = 0]
              /\ history' = h /\ saved' = saved
    BY <1>5, <2>1 DEF NextCall, Grows, PutAt, NoEnd
  <2>. HIDE DEF h
  <2>4. /\ IsSeq(h) /\ Len(h) = Opened
        /\ h[turn.session] = Append(history[turn.session], m)
        /\ \A s \in 1..Opened : s # turn.session => h[s] = history[s]
    BY <1>0, <2>3, GrownFacts
  <2>5. turn.session \notin drafted => Unfinished(h[turn.session], turn.calls, turn.done + 1)
    <3>1. m = Result(turn.calls[turn.done + 1], result)
      BY <2>1
    <3>2. turn.session \notin drafted => Unfinished(history[turn.session], turn.calls, turn.done)
      BY <1>b, <2>2
    <3>3. turn.done < Len(turn.calls)
      BY <1>a, <2>2
    <3>. HIDE DEF m
    <3>. QED
      BY <2>4, <3>1, <3>2, <3>3, ResultComes, SMTT(30)
  <2>6. CASE turn.stop /\ EndTurn(t, FALSE, h)
    <3>1. t.session \notin drafted => CanSettle(t, FALSE, h[t.session])
      BY <2>1, <2>2, <2>5 DEF CanSettle
    <3>. QED
      BY <1>0, <1>a, <2>1, <2>2, <2>4, <2>6, <3>1, EndWrites
  <2>7. CASE /\ t.done < Len(t.calls) /\ turn' = [t EXCEPT !.at = "showing"]
             /\ history' = h /\ saved' = saved
    <3>1. /\ turn' \in Turns /\ turn'.session = turn.session /\ turn'.done = turn.done + 1
          /\ turn'.calls = turn.calls /\ turn'.committed /\ turn'.at = "showing"
      BY <2>1, <2>2, <2>7 DEF Turns, TurnPlaces
    <3>2. turn' # Nobody /\ Generating' /\ Answering(turn)'
      BY <3>1, NobodyAssumption DEF Generating, Answering
    <3>3. TurnPlaced'
      BY <1>0, <1>a, <2>1, <2>2, <2>7, <3>1 DEF TurnPlaced, Opened
    <3>4. turn.session \notin drafted => Written(turn.session)'
      BY <2>5, <2>7, <3>1, <3>2 DEF Written
    <3>. QED
      BY <1>0, <2>3, <2>7, <3>1, <3>2, <3>3, <3>4, TurnGrows
  <2>8. CASE /\ ~(t.done < Len(t.calls))
             /\ turn' = [t EXCEPT !.at = "streaming", !.calls = <<>>,
                                  !.committed = FALSE, !.done = 0]
             /\ history' = h /\ saved' = saved
    <3>1. /\ turn' \in Turns /\ turn'.session = turn.session /\ turn'.done = 0
          /\ turn'.calls = <<>> /\ ~turn'.committed /\ turn'.at = "streaming"
      BY <2>1, <2>8 DEF Turns, TurnPlaces
    <3>2. turn' # Nobody /\ Generating' /\ ~Answering(turn)'
      BY <3>1, NobodyAssumption DEF Generating, Answering
    <3>3. TurnPlaced'
      BY <1>0, <1>a, <3>1, <3>2 DEF TurnPlaced, Opened
    <3>4. turn.done + 1 = Len(turn.calls)
      BY <1>a, <2>1, <2>2, <2>8
    <3>5. turn.session \notin drafted => Written(turn.session)'
      BY <2>5, <2>8, <3>1, <3>2, <3>4, BatchEnds DEF Written
    <3>. QED
      BY <1>0, <2>3, <2>8, <3>1, <3>2, <3>3, <3>5, TurnGrows
  <2>. QED
    BY <2>3, <2>6, <2>7, <2>8
<1>6. CASE Deny \/ ToolReturns
  BY <1>5, <1>6 DEF Deny, ToolReturns, At
<1>7. CASE ErrorShown \/ TurnCancelled
  <2>1. EndTurn(turn, FALSE, history) /\ turn.at \in Cancellable
    BY <1>7 DEF ErrorShown, TurnCancelled, At, Cancellable
  <2>2. turn.committed => Answering(turn)
    BY <1>a, <2>1 DEF Cancellable, Answering
  <2>3. turn.session \notin drafted => CanSettle(turn, FALSE, history[turn.session])
    BY <1>a, <1>b, <2>2 DEF CanSettle, Answering
  <2>. QED
    BY <1>0, <1>a, <2>1, <2>3, EndWrites
<1>8. CASE Unsaved
  <2>1. /\ Release([turn EXCEPT !.stop = FALSE], FALSE, history) /\ UNCHANGED saved
        /\ turn.at \in {"unsaved", "interrupted"}
    BY <1>8 DEF Unsaved
  <2>2. ~Answering(turn)
    BY <2>1 DEF Answering
  <2>3. \A s \in (1..Opened) \ drafted : Complete(history[s])
    BY <2>2 DEF HistoriesInv, Written
  <2>4. HistoriesTyped /\ FilesComplete(saved)' /\ IsSeq(saved)' /\ Len(saved)' = Opened
    BY <2>1 DEF HistoriesInv, HistoriesTyped, FilesComplete
  <2>. QED
    BY <1>0, <1>a, <2>1, <2>3, <2>4, ReleaseWrites
<1>. QED
  BY <1>1, <1>2, <1>3, <1>4, <1>6, <1>7, <1>8 DEF Worker

LEMMA NothingWritten ==
  ASSUME HistoriesInv, UNCHANGED <<modelOf, history, saved, drafted, turn>>
  PROVE  HistoriesInv'
BY DEF HistoriesInv, HistoriesTyped, TurnPlaced, Written, FilesComplete, Generating, Opened

LEMMA KeyboardWrites ==
  ASSUME TurnTyped, SessionsTyped, HistoriesInv, Keyboard
  PROVE  HistoriesInv'
<1>0. UNCHANGED <<modelOf, drafted>>
  BY DEF Keyboard, Submit, Resume, Stop, Quit, Save, CancelQueued, session
<1>1. ASSUME ~Generating, NEW p, NEW rest, NEW hold, StartTurn(p, rest, history, hold), UNCHANGED saved
      PROVE  HistoriesInv'
  <2>1. \A s \in (1..Opened) \ drafted : Complete(history[s])
    BY <1>1 DEF HistoriesInv, Written
  <2>2. /\ HistoriesTyped /\ FilesComplete(saved)' /\ IsSeq(saved)' /\ Len(saved)' = Opened
        /\ IsSeq(history) /\ Len(history) = Opened
    BY <1>1 DEF HistoriesInv, HistoriesTyped, FilesComplete
  <2>. QED
    BY <1>0, <1>1, <2>1, <2>2, StartWrites
<1>2. CASE Submit
  BY <1>0, <1>1, <1>2, NothingWritten DEF Submit
<1>3. CASE Resume
  BY <1>0, <1>1, <1>3 DEF Resume
<1>4. ASSUME RequestStop, Generating, UNCHANGED <<history, saved>> PROVE HistoriesInv'
  <2>1. turn \in Turns
    BY <1>4 DEF TurnTyped, Generating
  <2>2. /\ turn' \in Turns /\ turn'.session = turn.session /\ turn'.calls = turn.calls
        /\ turn'.done = turn.done /\ turn'.committed = turn.committed
        /\ turn'.at = IF turn.at = "unsaved" THEN "interrupted" ELSE turn.at
    BY <1>4, <2>1 DEF RequestStop, Turns, TurnPlaces
  <2>. QED
    BY <1>0, <1>4, <2>2, NobodyAssumption, TurnMoved
<1>5. CASE Stop
  BY <1>4, <1>5 DEF Stop, session
<1>6. CASE Quit
  BY <1>0, <1>4, <1>6, NothingWritten DEF Quit, session
<1>7. ASSUME NEW i \in DOMAIN queue, CancelQueued(i) PROVE HistoriesInv'
  BY <1>7, NothingWritten DEF CancelQueued, session
<1>8. CASE Save
  <2>. DEFINE s == IF Generating THEN turn.session ELSE current
              h == IF Generating THEN CommitDraft(turn, history[s]) ELSE history[s]
              draft == s \in drafted \/ (Generating /\ turn.calls # <<>>)
              file == [msgs |-> h, draft |-> draft]
  <2>1. PutAt(saved', saved, s, file) /\ UNCHANGED <<turn, history>>
    BY <1>8 DEF Save, PutAt, Chat
  <2>2. s \in 1..Opened /\ Len(saved) = Opened /\ IsSeq(saved)
    BY DEF HistoriesInv, HistoriesTyped, TurnPlaced, SessionsTyped
  <2>3. ASSUME ~draft PROVE Complete(h)
    <3>1. CASE ~Generating
      BY <2>2, <2>3, <3>1 DEF HistoriesInv, Written
    <3>2. CASE Generating
      <4>1. s = turn.session /\ s \notin drafted /\ turn.calls = <<>>
        BY <2>3, <3>2
      <4>2. ~Answering(turn)
        BY <3>2, <4>1 DEF HistoriesInv, TurnPlaced
      <4>3. Complete(history[s])
        BY <2>2, <4>1, <4>2 DEF HistoriesInv, Written
      <4>4. h = CommitDraft(turn, history[s])
        BY <3>2
      <4>. QED
        BY <4>1, <4>3, <4>4, ReplyComes DEF CommitDraft
    <3>. QED
      BY <3>1, <3>2
  <2>4. file.msgs = h /\ file.draft = draft
    OBVIOUS
  <2>. HIDE DEF s, h, draft, file
  <2>5. /\ IsSeq(saved') /\ Len(saved') = Opened /\ saved'[s] = file
        /\ \A r \in 1..Opened : r # s => saved'[r] = saved[r]
    BY <2>1, <2>2, PutFacts
  <2>6. ASSUME NEW r \in 1..Len(saved'), saved'[r] # NoFile /\ ~saved'[r].draft
        PROVE  Complete(saved'[r].msgs)
    <3>1. CASE r = s
      BY <2>3, <2>4, <2>5, <2>6, <3>1
    <3>2. CASE r # s
      BY <2>2, <2>5, <2>6, <3>2 DEF HistoriesInv, FilesComplete
    <3>. QED
      BY <3>1, <3>2
  <2>7. FilesComplete(saved')
    BY <2>6 DEF FilesComplete
  <2>8. HistoriesTyped' /\ TurnPlaced' /\ \A r \in ((1..Opened) \ drafted)' : Written(r)'
    BY <1>0, <2>1, <2>2, <2>5
    DEF HistoriesInv, HistoriesTyped, TurnPlaced, Written, Generating, Opened
  <2>. QED
    BY <2>7, <2>8 DEF HistoriesInv
<1>. QED
  BY <1>2, <1>3, <1>5, <1>6, <1>7, <1>8 DEF Keyboard

\* A new session, with no message and no file.
LEMMA SessionOpens ==
  ASSUME HistoriesInv, SessionsTyped, NEW m, modelOf' = Append(modelOf, m), NEW files,
         history' = Append(history, <<>>), saved' = Append(files, NoFile),
         IsSeq(files), Len(files) = Opened, FilesComplete(files), UNCHANGED <<drafted, turn>>
  PROVE  HistoriesInv'
<1>1. Opened \in Nat /\ Opened' = Opened + 1
  BY DEF SessionsTyped, Opened
<1>2. /\ IsSeq(history') /\ Len(history') = Opened + 1 /\ history'[Opened + 1] = <<>>
      /\ \A s \in 1..Opened : history'[s] = history[s]
  BY AppendFacts DEF HistoriesInv, HistoriesTyped
<1>3. /\ IsSeq(saved') /\ Len(saved') = Opened + 1 /\ saved'[Opened + 1] = NoFile
      /\ \A s \in 1..Opened : saved'[s] = files[s]
  BY AppendFacts
<1>4. \A s \in 1..(Opened + 1) : s \in 1..Opened \/ s = Opened + 1
  BY <1>1
<1>5. HistoriesTyped' /\ TurnPlaced'
  BY <1>1, <1>2, <1>3 DEF HistoriesInv, HistoriesTyped, TurnPlaced, Generating
<1>6. FilesComplete(saved')
  BY <1>1, <1>3, <1>4 DEF FilesComplete
<1>7. Complete(<<>>)
  <2>1. IsSeq(<<>>) /\ Len(<<>>) = 0
    BY EmptySeq DEF IsSeq
  <2>. QED
    BY <2>1 DEF Complete, CompleteTo
<1>8. ASSUME NEW s \in ((1..Opened) \ drafted)' PROVE Written(s)'
  <2>1. CASE s \in 1..Opened
    BY <1>1, <1>2, <1>8, <2>1 DEF HistoriesInv, Written, Generating
  <2>2. CASE s = Opened + 1
    <3>1. Generating => turn.session # s
      BY <1>1, <2>2 DEF HistoriesInv, TurnPlaced
    <3>. QED
      BY <1>2, <1>7, <2>2, <3>1 DEF Written, Generating
  <2>. QED
    BY <1>1, <1>4, <1>8, <2>1, <2>2
<1>. QED
  BY <1>5, <1>6, <1>8 DEF HistoriesInv

LEMMA CommandsWrite ==
  ASSUME SessionsTyped, HistoriesInv, SessionCommands
  PROVE  HistoriesInv'
<1>1. CASE NewChat \/ BrowseSessions \/ Loaded \/ LeaveSessions \/ ChooseModel \/ ModelsFetched
           \/ KeepModel \/ Switched
  BY <1>1, NothingWritten DEF NewChat, BrowseSessions, Loaded, LeaveSessions, ChooseModel,
     ModelsFetched, KeepModel, Switched, session, Chat
<1>2. CASE Cleared
  <2>1. IsSeq(saved) /\ Len(saved) = Opened /\ FilesComplete(saved)
    BY DEF HistoriesInv, HistoriesTyped
  <2>. QED
    BY <1>2, <2>1, SessionOpens DEF Cleared, NewSession, Chat
<1>3. ASSUME NEW m \in ChatModels, PickModel(m) PROVE HistoriesInv'
  <2>. DEFINE file == [msgs |-> history[current], draft |-> current \in drafted]
              files == [saved EXCEPT ![current] = file]
  <2>1. /\ PutAt(files, saved, current, file) /\ current \in 1..Opened
        /\ IsSeq(saved) /\ Len(saved) = Opened /\ ~Generating
    BY <1>3 DEF HistoriesInv, HistoriesTyped, SessionsTyped, PickModel, Idle, PutAt
  <2>2. saved' = Append(files, NoFile)
    BY <1>3 DEF PickModel
  <2>3. file.msgs = history[current] /\ file.draft = (current \in drafted)
    OBVIOUS
  <2>. HIDE DEF files, file
  <2>4. /\ IsSeq(files) /\ Len(files) = Opened /\ files[current] = file
        /\ \A s \in 1..Opened : s # current => files[s] = saved[s]
    BY <2>1, PutFacts
  <2>5. ASSUME NEW s \in 1..Opened, files[s] # NoFile /\ ~files[s].draft
        PROVE  Complete(files[s].msgs)
    BY <2>1, <2>3, <2>4, <2>5 DEF HistoriesInv, FilesComplete, Written
  <2>6. FilesComplete(files)
    BY <2>4, <2>5 DEF FilesComplete
  <2>. QED
    BY <1>3, <2>2, <2>4, <2>6, SessionOpens DEF PickModel, NewSession, Chat
<1>4. ASSUME NEW s \in 1..Opened, PickSession(s) PROVE HistoriesInv'
  <2>1. CASE UNCHANGED session
    BY <1>4, <2>1, NothingWritten DEF PickSession, session, Chat
  <2>2. CASE /\ ~Generating /\ history' = [history EXCEPT ![s] = saved[s].msgs]
             /\ drafted' = IF saved[s].draft THEN drafted \cup {s} ELSE drafted \ {s}
             /\ UNCHANGED <<modelOf, saved>>
    <3>1. PutAt(history', history, s, saved[s].msgs) /\ IsSeq(history) /\ Len(history) = Opened
      BY <2>2 DEF PutAt, HistoriesInv, HistoriesTyped
    <3>2. /\ IsSeq(history') /\ Len(history') = Opened /\ history'[s] = saved[s].msgs
          /\ \A r \in 1..Opened : r # s => history'[r] = history[r]
      BY <3>1, PutFacts
    <3>3. saved[s] # NoFile /\ ~saved[s].draft => Complete(saved[s].msgs)
      BY DEF HistoriesInv, HistoriesTyped, FilesComplete
    <3>4. UNCHANGED turn /\ saved[s] # NoFile /\ ~Generating' /\ Opened' = Opened
      BY <1>4, <2>2 DEF PickSession, Chat, Generating, Opened
    <3>5. HistoriesTyped' /\ TurnPlaced' /\ FilesComplete(saved)'
      BY <2>2, <3>2, <3>4 DEF HistoriesInv, HistoriesTyped, TurnPlaced, FilesComplete
    <3>6. ASSUME NEW r \in ((1..Opened) \ drafted)' PROVE Written(r)'
      <4>1. CASE r = s
        BY <2>2, <3>2, <3>3, <3>4, <3>6, <4>1 DEF Written
      <4>2. CASE r # s
        BY <2>2, <3>2, <3>4, <3>6, <4>2 DEF Written, HistoriesInv
      <4>. QED
        BY <4>1, <4>2
    <3>. QED
      BY <3>5, <3>6 DEF HistoriesInv
  <2>. QED
    BY <1>4, <2>1, <2>2 DEF PickSession
<1>. QED
  BY <1>1, <1>2, <1>3, <1>4 DEF SessionCommands

LEMMA InitHistories == ChatInit => HistoriesInv
<1>. SUFFICES ASSUME ChatInit PROVE HistoriesInv
  OBVIOUS
<1>1. /\ Opened = 1 /\ history = <<<<>>>> /\ saved = <<NoFile>> /\ drafted = {} /\ ~Generating
  BY DEF ChatInit, Opened, Generating
<1>2. /\ IsSeq(history) /\ Len(history) = 1 /\ history[1] = <<>>
      /\ IsSeq(saved) /\ Len(saved) = 1 /\ saved[1] = NoFile
  <2>1. history \in Seq({<<>>}) /\ saved \in Seq({NoFile})
    BY <1>1
  <2>. QED
    BY <1>1, <2>1 DEF IsSeq
<1>3. Complete(<<>>)
  <2>1. IsSeq(<<>>) /\ Len(<<>>) = 0
    BY EmptySeq DEF IsSeq
  <2>. QED
    BY <2>1 DEF Complete, CompleteTo
<1>4. \A s \in 1..1 : s = 1
  OBVIOUS
<1>. QED
  BY <1>1, <1>2, <1>3, <1>4 DEF HistoriesInv, HistoriesTyped, TurnPlaced, Written, FilesComplete

LEMMA HistoriesPaired == HistoriesInv => ToolResultsPaired
BY CompleteIsPaired DEF HistoriesInv, Written, ToolResultsPaired

-----------------------------------------------------------------------------
(* The files.  A history only grows, whoever writes it, so that a file     *)
(* that held a part of it still does.                                      *)

Extends(g, h) ==
  /\ IsSeq(g) /\ IsSeq(h) /\ Len(h) <= Len(g)
  /\ \A i \in 1..Len(h) : g[i] = h[i]

LEMMA ExtendsItself ==
  ASSUME NEW h, IsSeq(h)
  PROVE  Extends(h, h)
BY SeqFacts DEF Extends

LEMMA ExtendsOn ==
  ASSUME NEW f, NEW g, NEW h, Extends(f, g), Extends(g, h)
  PROVE  Extends(f, h)
<1>1. Len(f) \in Nat /\ Len(g) \in Nat /\ Len(h) \in Nat
  BY SeqFacts DEF Extends
<1>. QED
  BY <1>1 DEF Extends

LEMMA AppendExtends ==
  ASSUME NEW h, IsSeq(h), NEW m
  PROVE  Extends(Append(h, m), h)
<1>1. Len(h) \in Nat
  BY SeqFacts
<1>. QED
  BY <1>1, AppendFacts DEF Extends

LEMMA AnswersExtend ==
  ASSUME NEW c, Len(c) \in Nat, NEW completed, NEW h, IsSeq(h)
  PROVE  Extends(AnswerRest(c, completed, h), h)
<1>. DEFINE late(n) == Result(c[n], "not run")
            f == CHOOSE g : AnswersRest(g, c, completed, h)
            wrong == {n \in 0..Len(c) : ~Extends(f[n], h)}
<1>1. AnswerRest(c, completed, h) = f[Len(c)]
  BY DEF AnswerRest, AnswersRest
<1>2. AnswersRest(f, c, completed, h)
  BY AnswersExist
<1>. HIDE DEF f, late
<1>3. f = [n \in 0..Len(c) |->
            IF n = 0 THEN h
            ELSE IF c[n] \in completed THEN f[n - 1] ELSE Append(f[n - 1], late(n))]
  BY <1>2, Zenon DEF AnswersRest, late
<1>4. wrong = {}
  <2>. SUFFICES ASSUME wrong # {} PROVE FALSE
    OBVIOUS
  <2>1. PICK n \in wrong : \A k \in wrong : n <= k
    <3>1. wrong \subseteq Nat
      OBVIOUS
    <3>. HIDE DEF wrong
    <3>. QED
      BY <3>1, SmallestIn
  <2>2. n \in 0..Len(c) /\ ~Extends(f[n], h)
    BY <2>1
  <2>3. n # 0
    <3>1. f[0] = h
      BY <1>3
    <3>. QED
      BY <2>2, <3>1, ExtendsItself
  <2>4. n - 1 \in 0..Len(c) /\ ~(n <= n - 1)
    BY <2>2, <2>3
  <2>5. Extends(f[n - 1], h)
    BY <2>1, <2>4
  <2>6. f[n] = f[n - 1] \/ f[n] = Append(f[n - 1], late(n))
    BY <1>3, <2>2, <2>3
  <2>7. Extends(Append(f[n - 1], late(n)), f[n - 1])
    BY <2>5, AppendExtends DEF Extends
  <2>8. Extends(Append(f[n - 1], late(n)), h)
    BY <2>5, <2>7, ExtendsOn
  <2>. QED
    BY <2>2, <2>5, <2>6, <2>8
<1>. QED
  BY <1>1, <1>4

LEMMA SettledExtends ==
  ASSUME NEW t, Len(t.calls) \in Nat, NEW ok, NEW h, IsSeq(h)
  PROVE  Extends(Settled(t, ok, h), h)
<1>1. Extends(CommitDraft(t, h), h)
  BY ExtendsItself, AppendExtends DEF CommitDraft
<1>2. IsSeq(CommitDraft(t, h))
  BY <1>1 DEF Extends
<1>3. Extends(FinishToolHistory(t, CommitDraft(t, h)), CommitDraft(t, h))
  BY <1>2, AnswersExtend DEF FinishToolHistory
<1>4. Extends(FinishToolHistory(t, CommitDraft(t, h)), h)
  BY <1>1, <1>3, ExtendsOn
<1>. QED
  BY <1>4, ExtendsItself DEF Settled

\* What is known of a session and its file.
FileHolds(s) ==
  /\ IsSeq(history[s]) /\ (saved[s] # NoFile => IsSeq(saved[s].msgs))
  /\ FileIsSession(s)
MarkedUnwritten ==
  Generating /\ turn.at \in {"unsaved", "interrupted"} => turn.session \in unwritten
FilesInv ==
  /\ unwritten \subseteq 1..Opened
  /\ MarkedUnwritten
  /\ \A s \in 1..Opened : FileHolds(s)

\* The file stays as it is, while the session may grow.
LEMMA FileKept ==
  ASSUME NEW s, FileHolds(s), saved'[s] = saved[s], Extends(history'[s], history[s]),
         Unsettled(s)' \/ (history'[s] = history[s] /\ ~Unsettled(s))
  PROVE  FileHolds(s)'
<1>1. IsSeq(history'[s]) /\ IsSeq(history[s])
  BY DEF Extends
<1>2. DOMAIN history[s] = 1..Len(history[s]) /\ DOMAIN history'[s] = 1..Len(history'[s])
      /\ Len(history[s]) \in Nat /\ Len(history'[s]) \in Nat
  BY <1>1, SeqFacts
<1>3. saved[s] # NoFile => AsSent(saved[s].msgs, history'[s])
  BY <1>2 DEF FileHolds, FileIsSession, AsSent, Extends
<1>4. ~Unsettled(s)' => IF saved[s] = NoFile THEN history'[s] = <<>> ELSE saved[s].msgs = history'[s]
  BY DEF FileHolds, FileIsSession
<1>. QED
  BY <1>1, <1>3, <1>4 DEF FileHolds, FileIsSession

\* The file is written, and the session may grow further.
LEMMA FileWritten ==
  ASSUME NEW s, saved'[s] # NoFile, Extends(history'[s], saved'[s].msgs),
         Unsettled(s)' \/ history'[s] = saved'[s].msgs
  PROVE  FileHolds(s)'
<1>1. IsSeq(history'[s]) /\ IsSeq(saved'[s].msgs)
  BY DEF Extends
<1>2. DOMAIN history'[s] = 1..Len(history'[s]) /\ DOMAIN saved'[s].msgs = 1..Len(saved'[s].msgs)
      /\ Len(history'[s]) \in Nat /\ Len(saved'[s].msgs) \in Nat
  BY <1>1, SeqFacts
<1>3. AsSent(saved'[s].msgs, history'[s])
  BY <1>2 DEF AsSent, Extends
<1>. QED
  BY <1>1, <1>3 DEF FileHolds, FileIsSession

\* A turn starts, in the session on the screen.
LEMMA StartFiles ==
  ASSUME TurnTyped, SessionsTyped, NEW p \in Nat, NEW rest, NEW h, NEW hold,
         StartTurn(p, rest, h, hold), IsSeq(h), Len(h) = Opened, \A s \in 1..Opened : IsSeq(h[s])
  PROVE  /\ Generating' => turn'.at = "created"
         /\ \A s \in 1..Opened : /\ Extends(history'[s], h[s])
                                 /\ history'[s] = h[s] \/ (Generating' /\ turn'.session = s)
<1>. DEFINE x == Append(h[current], User(p))
<1>1. current \in 1..Opened /\ PutAt(history', h, current, x)
  BY DEF SessionsTyped, StartTurn, PutAt
<1>2. Generating' /\ turn'.session = current /\ turn'.at = "created"
  BY NewTurnIsTurn DEF StartTurn, NewTurn, Generating
<1>3. Extends(x, h[current])
  BY <1>1, AppendExtends
<1>. HIDE DEF x
<1>4. history'[current] = x /\ \A s \in 1..Opened : s # current => history'[s] = h[s]
  BY <1>1, PutFacts
<1>. QED
  BY <1>2, <1>3, <1>4, ExtendsItself

LEMMA ReleaseFiles ==
  ASSUME TurnTyped, SessionsTyped, NEW t, NEW ok, NEW h, Release(t, ok, h),
         IsSeq(h), Len(h) = Opened, \A s \in 1..Opened : IsSeq(h[s])
  PROVE  /\ Generating' => turn'.at = "created"
         /\ \A s \in 1..Opened : /\ Extends(history'[s], h[s])
                                 /\ history'[s] = h[s] \/ (Generating' /\ turn'.session = s)
<1>1. CASE queue # <<>> /\ StartTurn(Head(queue), Tail(queue), h, paused)
  <2>1. Head(queue) \in Nat
    BY <1>1 DEF TurnTyped
  <2>. QED
    BY <1>1, <2>1, StartFiles
<1>2. CASE turn' = Nobody /\ history' = h
  BY <1>2, ExtendsItself DEF Generating
<1>. QED
  BY <1>1, <1>2 DEF Release

LEMMA EndFiles ==
  ASSUME TurnTyped, SessionsTyped, HistoriesTyped, FilesInv, Generating,
         NEW t \in Turns, NEW ok, NEW h, EndTurn(t, ok, h), IsSeq(h), Len(h) = Opened,
         t.session = turn.session, t.session \in 1..Opened,
         Extends(h[t.session], history[t.session]),
         \A s \in 1..Opened : s # t.session => h[s] = history[s], UNCHANGED modelOf
  PROVE  FilesInv'
<1>. DEFINE g == [h EXCEPT ![t.session] = Settled(t, ok, @)]
            file == [msgs |-> g[t.session], draft |-> t.session \in drafted]
<1>0. /\ Opened' = Opened /\ unwritten \subseteq 1..Opened
      /\ \A s \in 1..Opened : FileHolds(s) /\ IsSeq(history[s])
      /\ IsSeq(saved) /\ Len(saved) = Opened
  BY DEF FilesInv, FileHolds, Opened, HistoriesTyped
<1>1. IsSeq(h[t.session]) /\ Len(t.calls) \in Nat
  BY CallsAreSeq DEF Extends, Turns
<1>2. Extends(Settled(t, ok, h[t.session]), h[t.session])
  BY <1>1, SettledExtends
<1>3. /\ IsSeq(g) /\ Len(g) = Opened /\ g[t.session] = Settled(t, ok, h[t.session])
      /\ \A s \in 1..Opened : s # t.session => g[s] = h[s]
  <2>1. PutAt(g, h, t.session, Settled(t, ok, h[t.session])) /\ t.session \in 1..Len(h)
    BY DEF PutAt
  <2>. HIDE DEF g
  <2>. QED
    BY <2>1, PutFacts
<1>4. \/ PutAt(saved', saved, t.session, file) /\ unwritten' = unwritten \ {t.session}
         /\ Release(t, ok, g)
      \/ /\ unwritten' = unwritten \cup {t.session} /\ history' = g /\ saved' = saved
         /\ turn' = [t EXCEPT !.at = "unsaved", !.committed = @ \/ t.stop \/ t.text]
  BY DEF EndTurn, Write, PutAt
<1>5. file.msgs = g[t.session] /\ file # NoFile
  <2>1. DOMAIN file = {"msgs", "draft"} /\ DOMAIN NoFile = {"missing"}
    BY DEF NoFile
  <2>. QED
    BY <2>1
<1>. HIDE DEF g, file
<1>6. \A s \in 1..Opened : Extends(g[s], history[s]) /\ IsSeq(g[s])
  BY <1>0, <1>2, <1>3, ExtendsOn, ExtendsItself DEF Extends
<1>7. CASE /\ PutAt(saved', saved, t.session, file) /\ unwritten' = unwritten \ {t.session}
           /\ Release(t, ok, g)
  <2>1. saved'[t.session] = file /\ \A s \in 1..Opened : s # t.session => saved'[s] = saved[s]
    BY <1>0, <1>7, PutFacts
  <2>2. /\ Generating' => turn'.at = "created"
        /\ \A s \in 1..Opened : /\ Extends(history'[s], g[s])
                                /\ history'[s] = g[s] \/ (Generating' /\ turn'.session = s)
    BY <1>3, <1>6, <1>7, ReleaseFiles
  <2>3. ASSUME NEW s \in 1..Opened, s = t.session PROVE FileHolds(s)'
    <3>1. saved'[s] # NoFile /\ saved'[s].msgs = g[s]
      BY <1>5, <2>1, <2>3
    <3>2. Extends(history'[s], saved'[s].msgs) /\ (Unsettled(s)' \/ history'[s] = saved'[s].msgs)
      BY <2>2, <3>1 DEF Unsettled
    <3>. QED
      BY <3>1, <3>2, FileWritten
  <2>4. ASSUME NEW s \in 1..Opened, s # t.session PROVE FileHolds(s)'
    <3>1. saved'[s] = saved[s] /\ g[s] = history[s]
      BY <1>3, <2>1, <2>4
    <3>2. Unsettled(s) => s \in unwritten
      BY <2>4 DEF Unsettled
    <3>3. Unsettled(s)' \/ (history'[s] = history[s] /\ ~Unsettled(s))
      BY <1>7, <2>2, <2>4, <3>1, <3>2 DEF Unsettled
    <3>. QED
      BY <1>0, <2>2, <3>1, <3>3, FileKept
  <2>. QED
    BY <1>0, <1>7, <2>2, <2>3, <2>4 DEF FilesInv, MarkedUnwritten
<1>8. CASE /\ unwritten' = unwritten \cup {t.session} /\ history' = g /\ saved' = saved
           /\ turn' = [t EXCEPT !.at = "unsaved", !.committed = @ \/ t.stop \/ t.text]
  <2>1. ASSUME NEW s \in 1..Opened PROVE FileHolds(s)'
    <3>1. Unsettled(s)' \/ (history'[s] = history[s] /\ ~Unsettled(s))
      BY <1>3, <1>8 DEF Unsettled
    <3>. QED
      BY <1>0, <1>6, <1>8, <3>1, FileKept
  <2>2. turn'.session = t.session
    BY <1>8 DEF Turns
  <2>. QED
    BY <1>0, <1>8, <2>1, <2>2 DEF FilesInv, MarkedUnwritten
<1>. QED
  BY <1>4, <1>7, <1>8

\* A step of the turn that writes no file.
LEMMA TurnFiles ==
  ASSUME FilesInv, Generating, Generating', turn'.session = turn.session,
         turn'.at \notin {"unsaved", "interrupted"},
         UNCHANGED <<modelOf, saved, unwritten>>,
         \A s \in 1..Opened : history'[s] = history[s]
                              \/ (s = turn.session /\ Extends(history'[s], history[s]))
  PROVE  FilesInv'
<1>1. ASSUME NEW s \in 1..Opened PROVE FileHolds(s)'
  <2>1. FileHolds(s) /\ saved'[s] = saved[s] /\ Extends(history'[s], history[s])
    BY ExtendsItself DEF FilesInv, FileHolds
  <2>2. Unsettled(s)' \/ (history'[s] = history[s] /\ ~Unsettled(s))
    BY DEF Unsettled
  <2>. QED
    BY <2>1, <2>2, FileKept
<1>. QED
  BY <1>1 DEF FilesInv, MarkedUnwritten, Opened

LEMMA NoFiles ==
  ASSUME FilesInv, UNCHANGED <<modelOf, history, saved, unwritten>>, Generating' <=> Generating,
         Generating => turn'.session = turn.session,
         Generating /\ turn'.at \in {"unsaved", "interrupted"} => turn.at \in {"unsaved", "interrupted"}
  PROVE  FilesInv'
BY DEF FilesInv, MarkedUnwritten, FileHolds, FileIsSession, Unsettled, Opened

LEMMA WorkerFiles ==
  ASSUME TurnTyped, SessionsTyped, HistoriesInv, FilesInv, Worker
  PROVE  FilesInv'
<1>0. Generating /\ turn \in Turns /\ UNCHANGED modelOf
  <2>1. Generating /\ UNCHANGED Others
    BY ZenonT(60) DEF Worker, TurnStarts, ReplyEnds, StreamFails, CallsArrive, AskUser, RunTool,
       Deny, ToolReturns, ToolRaises, ErrorShown, TurnCancelled, Unsaved, At
  <2>. QED
    BY <2>1 DEF Others, TurnTyped, Generating
<1>1. /\ HistoriesTyped /\ turn.session \in 1..Opened /\ IsSeq(history) /\ Len(history) = Opened
      /\ \A s \in 1..Opened : IsSeq(history[s])
  BY <1>0 DEF HistoriesInv, HistoriesTyped, TurnPlaced, FilesInv, FileHolds
<1>2. ASSUME NEW h, NEW m, Grows(h, m)
      PROVE  /\ IsSeq(h) /\ Len(h) = Opened /\ Extends(h[turn.session], history[turn.session])
             /\ \A s \in 1..Opened : s # turn.session => h[s] = history[s]
  <2>1. /\ IsSeq(h) /\ Len(h) = Opened /\ h[turn.session] = Append(history[turn.session], m)
        /\ \A s \in 1..Opened : s # turn.session => h[s] = history[s]
    BY <1>0, <1>2, GrownFacts
  <2>2. Extends(Append(history[turn.session], m), history[turn.session])
    BY <1>1, AppendExtends
  <2>. QED
    BY <2>1, <2>2
<1>3. ASSUME NEW t \in Turns, t.session = turn.session, NEW ok, NEW h, EndTurn(t, ok, h),
             h = history \/ \E m : Grows(h, m)
      PROVE  FilesInv'
  <2>1. /\ IsSeq(h) /\ Len(h) = Opened /\ Extends(h[turn.session], history[turn.session])
        /\ \A s \in 1..Opened : s # turn.session => h[s] = history[s]
    BY <1>1, <1>2, <1>3, ExtendsItself
  <2>. QED
    BY <1>0, <1>1, <1>3, <2>1, EndFiles
<1>4. CASE TurnStarts \/ AskUser \/ RunTool \/ ToolRaises \/ StreamFails
  <2>1. UNCHANGED <<history, saved, unwritten>>
    BY <1>4 DEF TurnStarts, AskUser, RunTool, ToolRaises, StreamFails, NoEnd
  <2>2. turn' \in Turns /\ turn'.session = turn.session /\ turn'.at \notin {"unsaved", "interrupted"}
    BY <1>0, <1>4 DEF TurnStarts, AskUser, RunTool, ToolRaises, StreamFails, Turns, TurnPlaces
  <2>3. Generating' <=> Generating
    BY <1>0, <2>2, NobodyAssumption DEF Generating
  <2>. QED
    BY <1>0, <2>1, <2>2, <2>3, NoFiles
<1>5. CASE ReplyEnds
  <2>. DEFINE t == [turn EXCEPT !.committed = TRUE]
              h == [history EXCEPT ![turn.session] = Append(@, Assistant(<<>>))]
  <2>1. t \in Turns /\ t.session = turn.session
    BY <1>0 DEF Turns
  <2>2. EndTurn(t, TRUE, h) /\ Grows(h, Assistant(<<>>))
    BY <1>5 DEF ReplyEnds, Grows, PutAt
  <2>. HIDE DEF t, h
  <2>. QED
    BY <1>3, <2>1, <2>2
<1>6. ASSUME NEW calls \in Batches, CallsArrive(calls) PROVE FilesInv'
  <2>1. turn' \in Turns /\ turn'.session = turn.session /\ turn'.at \notin {"unsaved", "interrupted"}
    BY <1>0, <1>6 DEF CallsArrive, Turns, TurnPlaces
  <2>2. Generating' /\ UNCHANGED <<saved, unwritten>> /\ Grows(history', Assistant(calls))
    BY <1>6, <2>1, NobodyAssumption DEF CallsArrive, NoEnd, Generating, Grows, PutAt
  <2>. QED
    BY <1>0, <1>2, <2>1, <2>2, TurnFiles
<1>7. ASSUME NEW result, NextCall(result) PROVE FilesInv'
  <2>. DEFINE t == [turn EXCEPT !.done = @ + 1]
              m == Result(t.calls[t.done], result)
              h == [history EXCEPT ![t.session] = Append(@, m)]
  <2>0. turn.done + 1 \in Nat
    BY <1>0 DEF Turns
  <2>1. t \in Turns /\ t.session = turn.session
    BY <1>0 DEF Turns
  <2>2. /\ Grows(h, m)
        /\ \/ EndTurn(t, FALSE, h)
           \/ /\ turn' = IF t.done < Len(t.calls) THEN [t EXCEPT !.at = "showing"]
                         ELSE [t EXCEPT !.at = "streaming", !.calls = <<>>,
                                        !.committed = FALSE, !.done = 0]
              /\ history' = h /\ UNCHANGED <<saved, unwritten>>
    BY <1>7, <2>1 DEF NextCall, Grows, PutAt, NoEnd
  <2>. HIDE DEF h, m
  <2>3. CASE EndTurn(t, FALSE, h)
    <3>. HIDE DEF t
    <3>. QED
      BY <1>3, <2>1, <2>2, <2>3
  <2>4. CASE /\ turn' = IF t.done < Len(t.calls) THEN [t EXCEPT !.at = "showing"]
                        ELSE [t EXCEPT !.at = "streaming", !.calls = <<>>,
                                       !.committed = FALSE, !.done = 0]
             /\ history' = h /\ UNCHANGED <<saved, unwritten>>
    <3>1. turn' \in Turns /\ turn'.session = turn.session /\ turn'.at \notin {"unsaved", "interrupted"}
      BY <2>1, <2>4 DEF Turns, TurnPlaces
    <3>2. Generating'
      BY <3>1, NobodyAssumption DEF Generating
    <3>. QED
      BY <1>0, <1>2, <2>2, <2>4, <3>1, <3>2, TurnFiles
  <2>. QED
    BY <2>2, <2>3, <2>4
<1>8. CASE ErrorShown \/ TurnCancelled
  BY <1>0, <1>3, <1>8 DEF ErrorShown, TurnCancelled
<1>9. CASE Unsaved
  <2>1. Release([turn EXCEPT !.stop = FALSE], FALSE, history) /\ UNCHANGED <<saved, unwritten>>
    BY <1>9 DEF Unsaved
  <2>2. turn' = Nobody /\ history' = history /\ turn.session \in unwritten
    BY <1>0, <1>9, <2>1 DEF Release, Unsaved, FilesInv, MarkedUnwritten
  <2>3. ASSUME NEW s \in 1..Opened PROVE FileHolds(s)'
    BY <1>0, <2>1, <2>2, <2>3 DEF FilesInv, FileHolds, FileIsSession, Unsettled
  <2>. QED
    BY <1>0, <2>1, <2>2, <2>3 DEF FilesInv, MarkedUnwritten, Generating, Opened
<1>. QED
  BY <1>4, <1>5, <1>6, <1>7, <1>8, <1>9 DEF Worker, Deny, ToolReturns

LEMMA KeyboardFiles ==
  ASSUME TurnTyped, SessionsTyped, HistoriesInv, FilesInv, Keyboard
  PROVE  FilesInv'
<1>0. /\ UNCHANGED modelOf /\ Opened' = Opened /\ HistoriesTyped
      /\ \A s \in 1..Opened : FileHolds(s) /\ IsSeq(history[s])
      /\ IsSeq(history) /\ Len(history) = Opened /\ IsSeq(saved) /\ Len(saved) = Opened
  BY DEF Keyboard, Submit, Resume, Stop, Quit, Save, CancelQueued, session, HistoriesInv,
     HistoriesTyped, FilesInv, FileHolds, Opened
<1>1. ASSUME ~Generating, NEW p \in Nat, NEW rest, NEW hold, StartTurn(p, rest, history, hold),
             UNCHANGED <<saved, unwritten>>
      PROVE  FilesInv'
  <2>1. /\ Generating' => turn'.at = "created"
        /\ \A s \in 1..Opened : /\ Extends(history'[s], history[s])
                                /\ history'[s] = history[s] \/ (Generating' /\ turn'.session = s)
    BY <1>0, <1>1, StartFiles
  <2>2. ASSUME NEW s \in 1..Opened PROVE FileHolds(s)'
    <3>1. Unsettled(s)' \/ (history'[s] = history[s] /\ ~Unsettled(s))
      BY <1>1, <2>1 DEF Unsettled
    <3>. QED
      BY <1>0, <1>1, <2>1, <3>1, FileKept
  <2>. QED
    BY <1>0, <1>1, <2>1, <2>2 DEF FilesInv, MarkedUnwritten
<1>2. CASE Submit
  <2>1. submitted + 1 \in Nat
    BY DEF TurnTyped
  <2>. QED
    BY <1>1, <1>2, <2>1, NoFiles DEF Submit, Generating
<1>3. CASE Resume
  <2>1. Head(queue) \in Nat
    BY <1>3 DEF Resume, TurnTyped
  <2>. QED
    BY <1>1, <1>3, <2>1 DEF Resume
<1>4. ASSUME RequestStop, Generating, UNCHANGED <<modelOf, history, saved, unwritten>>
      PROVE  FilesInv'
  <2>1. turn \in Turns
    BY <1>4 DEF TurnTyped, Generating
  <2>2. /\ turn' \in Turns /\ turn'.session = turn.session
        /\ turn'.at = IF turn.at = "unsaved" THEN "interrupted" ELSE turn.at
    BY <1>4, <2>1 DEF RequestStop, Turns, TurnPlaces
  <2>. QED
    BY <1>4, <2>2, NobodyAssumption, NoFiles DEF Generating
<1>5. CASE Stop
  BY <1>4, <1>5 DEF Stop, session
<1>6. CASE Quit
  <2>1. UNCHANGED <<modelOf, history, saved, unwritten>> /\ (UNCHANGED turn \/ (Generating /\ RequestStop))
    BY <1>6 DEF Quit, session
  <2>. QED
    BY <1>4, <2>1, NoFiles DEF Generating
<1>7. ASSUME NEW i \in DOMAIN queue, CancelQueued(i) PROVE FilesInv'
  BY <1>7, NoFiles DEF CancelQueued, session, Generating
<1>8. CASE Save
  <2>. DEFINE r == IF Generating THEN turn.session ELSE current
              h == IF Generating THEN CommitDraft(turn, history[r]) ELSE history[r]
              draft == r \in drafted \/ (Generating /\ turn.calls # <<>>)
              file == [msgs |-> h, draft |-> draft]
  <2>1. /\ PutAt(saved', saved, r, file) /\ UNCHANGED <<turn, history>>
        /\ unwritten' = IF Generating THEN unwritten ELSE unwritten \ {r}
    BY <1>8 DEF Save, PutAt, Chat
  <2>2. r \in 1..Opened /\ (Generating => r = turn.session)
    BY DEF HistoriesInv, TurnPlaced, SessionsTyped
  <2>3. h = history[r] \/ (Generating /\ h = Append(history[r], Assistant(<<>>)))
    BY <2>2 DEF CommitDraft, HistoriesInv, TurnPlaced
  <2>4. file.msgs = h /\ file # NoFile
    <3>1. DOMAIN file = {"msgs", "draft"} /\ DOMAIN NoFile = {"missing"}
      BY DEF NoFile
    <3>. QED
      BY <3>1
  <2>. HIDE DEF r, h, draft, file
  <2>5. saved'[r] = file /\ \A s \in 1..Opened : s # r => saved'[s] = saved[s]
    BY <1>0, <2>1, <2>2, PutFacts
  <2>6. CASE h = history[r]
    <3>1. ASSUME NEW s \in 1..Opened, s = r PROVE FileHolds(s)'
      BY <1>0, <2>1, <2>4, <2>5, <2>6, <3>1, FileWritten, ExtendsItself
    <3>2. ASSUME NEW s \in 1..Opened, s # r PROVE FileHolds(s)'
      BY <1>0, <2>1, <2>5, <3>2 DEF FileHolds, FileIsSession, Unsettled, Generating
    <3>. QED
      BY <1>0, <2>1, <3>1, <3>2 DEF FilesInv, MarkedUnwritten, Generating
  <2>7. CASE Generating /\ h = Append(history[r], Assistant(<<>>))
    <3>1. ASSUME NEW s \in 1..Opened, s = r PROVE FileHolds(s)'
      <4>1. Unsettled(s)' /\ saved'[s].msgs = Append(history[s], Assistant(<<>>))
            /\ history'[s] = history[s]
        BY <2>1, <2>2, <2>4, <2>5, <2>7, <3>1 DEF Unsettled, Generating
      <4>2. AsSent(saved'[s].msgs, history'[s]) /\ IsSeq(saved'[s].msgs)
        <5>. DEFINE a == Append(history[s], Assistant(<<>>))
        <5>1. /\ IsSeq(a) /\ Len(a) = Len(history[s]) + 1
              /\ \A i \in 1..Len(history[s]) : a[i] = history[s][i]
              /\ a[Len(history[s]) + 1] = Assistant(<<>>)
          BY <1>0, AppendFacts
        <5>. HIDE DEF a
        <5>2. /\ DOMAIN a = 1..Len(a) /\ DOMAIN history[s] = 1..Len(history[s])
              /\ Len(history[s]) \in Nat
          BY <1>0, <5>1, SeqFacts
        <5>3. AsSent(a, history[s])
          BY <5>1, <5>2 DEF AsSent
        <5>. QED
          BY <4>1, <5>1, <5>3 DEF a
      <4>. QED
        BY <1>0, <4>1, <4>2 DEF FileHolds, FileIsSession
    <3>2. ASSUME NEW s \in 1..Opened, s # r PROVE FileHolds(s)'
      BY <1>0, <2>1, <2>5, <3>2 DEF FileHolds, FileIsSession, Unsettled, Generating
    <3>. QED
      BY <1>0, <2>1, <3>1, <3>2 DEF FilesInv, MarkedUnwritten, Generating
  <2>. QED
    BY <2>3, <2>6, <2>7
<1>. QED
  BY <1>2, <1>3, <1>5, <1>6, <1>7, <1>8 DEF Keyboard

\* A session is opened, with no message and no file.
LEMMA OpenFiles ==
  ASSUME SessionsTyped, HistoriesInv, FilesInv, NEW m, modelOf' = Append(modelOf, m), NEW files,
         history' = Append(history, <<>>), saved' = Append(files, NoFile),
         IsSeq(files), Len(files) = Opened, UNCHANGED turn, unwritten' \subseteq unwritten,
         MarkedUnwritten',
         \A s \in 1..Opened : \/ files[s] = saved[s] /\ (s \in unwritten => s \in unwritten')
                              \/ files[s] # NoFile /\ files[s].msgs = history[s]
  PROVE  FilesInv'
<1>1. Opened \in Nat /\ Opened' = Opened + 1
  BY DEF SessionsTyped, Opened
<1>2. /\ IsSeq(history') /\ Len(history') = Opened + 1 /\ history'[Opened + 1] = <<>>
      /\ \A s \in 1..Opened : history'[s] = history[s]
  BY AppendFacts DEF HistoriesInv, HistoriesTyped
<1>3. /\ saved'[Opened + 1] = NoFile
      /\ \A s \in 1..Opened : saved'[s] = files[s]
  BY AppendFacts
<1>4. \A s \in 1..(Opened + 1) : s \in 1..Opened \/ s = Opened + 1
  BY <1>1
<1>5. ASSUME NEW s \in 1..Opened PROVE FileHolds(s)'
  <2>1. FileHolds(s) /\ IsSeq(history[s]) /\ history'[s] = history[s] /\ saved'[s] = files[s]
    BY <1>2, <1>3 DEF FilesInv, FileHolds
  <2>2. CASE files[s] = saved[s] /\ (s \in unwritten => s \in unwritten')
    BY <2>1, <2>2 DEF FileHolds, FileIsSession, Unsettled, Generating
  <2>3. CASE files[s] # NoFile /\ files[s].msgs = history[s]
    BY <2>1, <2>3, FileWritten, ExtendsItself
  <2>. QED
    BY <2>2, <2>3
<1>6. ASSUME NEW s, s = Opened + 1 PROVE FileHolds(s)'
  <2>1. IsSeq(<<>>)
    BY EmptySeq DEF IsSeq
  <2>2. history'[s] = <<>> /\ saved'[s] = NoFile
    BY <1>2, <1>3, <1>6
  <2>. QED
    BY <2>1, <2>2 DEF FileHolds, FileIsSession
<1>7. \A s \in (1..Opened)' : FileHolds(s)'
  BY <1>1, <1>4, <1>5, <1>6
<1>8. unwritten' \subseteq (1..Opened)'
  BY <1>1 DEF FilesInv
<1>. QED
  BY <1>7, <1>8 DEF FilesInv

LEMMA CommandsFiles ==
  ASSUME SessionsTyped, HistoriesInv, FilesInv, SessionCommands
  PROVE  FilesInv'
<1>0. /\ \A s \in 1..Opened : FileHolds(s) /\ IsSeq(history[s])
      /\ IsSeq(history) /\ Len(history) = Opened /\ IsSeq(saved) /\ Len(saved) = Opened
  BY DEF HistoriesInv, HistoriesTyped, FilesInv, FileHolds
<1>1. CASE NewChat \/ BrowseSessions \/ Loaded \/ LeaveSessions \/ ChooseModel \/ ModelsFetched
           \/ KeepModel \/ Switched
  <2>1. UNCHANGED <<modelOf, history, saved, unwritten, turn>>
    BY <1>1 DEF NewChat, BrowseSessions, Loaded, LeaveSessions, ChooseModel,
       ModelsFetched, KeepModel, Switched, session, Chat
  <2>. QED
    BY <2>1, NoFiles DEF Generating
<1>2. CASE Cleared
  <2>1. UNCHANGED <<turn, unwritten>> /\ MarkedUnwritten'
    BY <1>2 DEF Cleared, Chat, FilesInv, MarkedUnwritten, Generating
  <2>. QED
    BY <1>0, <1>2, <2>1, OpenFiles DEF Cleared, NewSession
<1>3. ASSUME NEW m \in ChatModels, PickModel(m) PROVE FilesInv'
  <2>. DEFINE file == [msgs |-> history[current], draft |-> current \in drafted]
              files == [saved EXCEPT ![current] = file]
  <2>1. PutAt(files, saved, current, file) /\ current \in 1..Opened
    BY <1>3 DEF SessionsTyped, PutAt
  <2>2. /\ saved' = Append(files, NoFile) /\ unwritten' = unwritten \ {current} /\ UNCHANGED turn
        /\ modelOf' = Append(modelOf, m) /\ history' = Append(history, <<>>) /\ ~Generating
    BY <1>3 DEF PickModel, NewSession, Chat, Idle
  <2>3. file.msgs = history[current] /\ file # NoFile
    <3>1. DOMAIN file = {"msgs", "draft"} /\ DOMAIN NoFile = {"missing"}
      BY DEF NoFile
    <3>. QED
      BY <3>1
  <2>. HIDE DEF files, file
  <2>4. /\ IsSeq(files) /\ Len(files) = Opened /\ files[current] = file
        /\ \A s \in 1..Opened : s # current => files[s] = saved[s]
    BY <1>0, <2>1, PutFacts
  <2>5. MarkedUnwritten'
    BY <2>2 DEF MarkedUnwritten, Generating
  <2>6. \A s \in 1..Opened : \/ files[s] = saved[s] /\ (s \in unwritten => s \in unwritten')
                             \/ files[s] # NoFile /\ files[s].msgs = history[s]
    BY <2>2, <2>3, <2>4
  <2>. QED
    BY <2>2, <2>4, <2>5, <2>6, OpenFiles
<1>4. ASSUME NEW r \in 1..Opened, PickSession(r) PROVE FilesInv'
  <2>1. CASE UNCHANGED session
    BY <1>4, <2>1, NoFiles DEF PickSession, session, Chat, Generating
  <2>2. CASE /\ ~Generating /\ history' = [history EXCEPT ![r] = saved[r].msgs]
             /\ unwritten' = unwritten \ {r} /\ UNCHANGED <<modelOf, saved>>
    <3>1. PutAt(history', history, r, saved[r].msgs)
      BY <2>2 DEF PutAt
    <3>2. history'[r] = saved[r].msgs /\ \A s \in 1..Opened : s # r => history'[s] = history[s]
      BY <1>0, <3>1, PutFacts
    <3>3. UNCHANGED turn /\ saved[r] # NoFile
      BY <1>4 DEF PickSession, Chat
    <3>4. FileHolds(r)'
      BY <1>0, <2>2, <3>2, <3>3, FileWritten, ExtendsItself DEF FileHolds
    <3>5. ASSUME NEW s \in 1..Opened, s # r PROVE FileHolds(s)'
      BY <1>0, <2>2, <3>2, <3>3, <3>5 DEF FileHolds, FileIsSession, Unsettled, Generating
    <3>. QED
      BY <2>2, <3>3, <3>4, <3>5 DEF FilesInv, MarkedUnwritten, Generating, Opened
  <2>. QED
    BY <1>4, <2>1, <2>2 DEF PickSession
<1>. QED
  BY <1>1, <1>2, <1>3, <1>4 DEF SessionCommands

LEMMA InitFiles == ChatInit => FilesInv
<1>. SUFFICES ASSUME ChatInit PROVE FilesInv
  OBVIOUS
<1>1. Opened = 1 /\ history[1] = <<>> /\ saved[1] = NoFile /\ unwritten = {} /\ ~Generating
  BY DEF ChatInit, Opened, Generating
<1>2. IsSeq(<<>>)
  BY EmptySeq DEF IsSeq
<1>3. IsSeq(history[1])
  BY <1>1, <1>2
<1>4. \A s \in 1..1 : s = 1
  OBVIOUS
<1>. QED
  BY <1>1, <1>3, <1>4 DEF FilesInv, MarkedUnwritten, FileHolds, FileIsSession

-----------------------------------------------------------------------------
(* The rest of the types.                                                  *)

CommandsTyped ==
  /\ submitted \in 0..MaxPrompts /\ batches \in 0..MaxBatches
  /\ commands \in 0..MaxCommands /\ failures \in 0..MaxFailures
  /\ clearing \in BOOLEAN
  /\ browsing \in {"no", "picking", "loading"}
  /\ choosing \in {"no", "fetching", "picking", "switching"}

\* What a step may do to the counters.
Counted(x, max) == UNCHANGED x \/ (x < max /\ x' = x + 1)

LEMMA CommandsTypedKept ==
  ASSUME CommandsTyped, [ChatNext]_chatVars
  PROVE  CommandsTyped'
<1>0. \A max \in {MaxPrompts, MaxBatches, MaxCommands, MaxFailures} : max \in Nat
  BY ChatAssumption
<1>1. CASE Worker
  <2>1. ASSUME NEW t, NEW ok, NEW h, EndTurn(t, ok, h) PROVE Counted(failures, MaxFailures)
    BY <2>1 DEF EndTurn, Failure, Counted
  <2>2. ASSUME NEW result, NextCall(result) PROVE Counted(failures, MaxFailures)
    BY <2>1, <2>2 DEF NextCall, NoEnd, Counted
  <2>3. Counted(failures, MaxFailures)
    BY <1>1, <2>1, <2>2 DEF Worker, TurnStarts, ReplyEnds, StreamFails, CallsArrive, AskUser, RunTool,
       Deny, ToolReturns, ToolRaises, ErrorShown, TurnCancelled, Unsaved, NoEnd, Failure, Counted
  <2>4. Counted(batches, MaxBatches)
    BY <1>1 DEF Worker, TurnStarts, ReplyEnds, StreamFails, CallsArrive, AskUser, RunTool,
       Deny, ToolReturns, ToolRaises, ErrorShown, TurnCancelled, Unsaved, Counted
  <2>5. UNCHANGED <<submitted, command>>
    BY <1>1 DEF Worker, TurnStarts, ReplyEnds, StreamFails, CallsArrive, AskUser, RunTool,
       Deny, ToolReturns, ToolRaises, ErrorShown, TurnCancelled, Unsaved, Others
  <2>. QED
    BY <1>0, <2>3, <2>4, <2>5 DEF CommandsTyped, Counted, command
<1>2. CASE Keyboard
  <2>1. /\ Counted(submitted, MaxPrompts) /\ Counted(commands, MaxCommands)
        /\ UNCHANGED <<batches, failures, clearing, browsing, choosing>>
    BY <1>2 DEF Keyboard, Submit, Resume, Stop, Quit, Save, CancelQueued, Command, Counted, command, Chat
  <2>. QED
    BY <1>0, <2>1 DEF CommandsTyped, Counted
<1>3. CASE SessionCommands
  <2>1. Counted(commands, MaxCommands) /\ UNCHANGED <<submitted, batches, failures>>
    BY <1>3 DEF SessionCommands, NewChat, Cleared, BrowseSessions, PickSession, Loaded, LeaveSessions,
       ChooseModel, ModelsFetched, PickModel, KeepModel, Switched, Command, Counted, Chat
  <2>2. /\ clearing' = clearing \/ clearing' = TRUE \/ clearing' = FALSE
        /\ browsing' \in {browsing, "no", "picking", "loading"}
        /\ choosing' \in {choosing, "no", "fetching", "picking", "switching"}
    BY <1>3 DEF SessionCommands, NewChat, Cleared, BrowseSessions, PickSession, Loaded, LeaveSessions,
       ChooseModel, ModelsFetched, PickModel, KeepModel, Switched
  <2>3. clearing' \in BOOLEAN
    BY <2>2, Zenon DEF CommandsTyped
  <2>. QED
    BY <1>0, <2>1, <2>2, <2>3 DEF CommandsTyped, Counted
<1>4. CASE UNCHANGED chatVars
  BY <1>4 DEF chatVars, waiting, command, CommandsTyped
<1>. QED
  BY <1>1, <1>2, <1>3, <1>4 DEF ChatNext

LEMMA ChatTyped ==
  ASSUME TurnInv, LineInv, HistoriesInv, FilesInv, CommandsTyped
  PROVE  ChatTypeOK
<1>1. /\ current \in 1..Opened /\ chatModel \in ChatModels
      /\ Len(history) = Opened /\ Len(saved) = Opened /\ unwritten \cup drafted \subseteq 1..Opened
  BY DEF TurnInv, SessionsTyped, HistoriesInv, HistoriesTyped, FilesInv
<1>2. ToSet(queue) \cup ToSet(begun) \subseteq 1..submitted
  <2>1. ASSUME NEW s, Rising(s, submitted) PROVE ToSet(s) \subseteq 1..submitted
    <3>1. s \in Seq(Nat) /\ DOMAIN s = 1..Len(s)
      BY <2>1 DEF Rising
    <3>. QED
      BY <2>1, <3>1 DEF Rising, ToSet, LineInv
  <2>. QED
    BY <2>1 DEF LineInv
<1>3. Generating => turn \in Turns /\ turn.session \in 1..Opened /\ turn.done \in 0..Len(turn.calls)
  BY DEF Generating, TurnInv, TurnTyped, HistoriesInv, TurnPlaced
<1>4. thread \in (1..Opened) \cup {Nobody}
  BY <1>3 DEF TurnInv, NoAbandonedTool
<1>5. {paused, clearing, moved, quitting, closed} \subseteq BOOLEAN
  BY DEF TurnInv, TurnTyped, CommandsTyped
<1>. QED
  BY <1>1, <1>2, <1>3, <1>4, <1>5 DEF ChatTypeOK, CommandsTyped

-----------------------------------------------------------------------------
(* The theorems.                                                           *)

ChatInv ==
  TurnInv /\ SessionMatchesModel /\ LineInv /\ HistoriesInv /\ FilesInv /\ CommandsTyped

LEMMA ChatInvariant == ChatSpec => []ChatInv
<1>1. ChatInit => SessionMatchesModel /\ LineInv
  <2>1. ChatInit => SessionMatchesModel
    BY DEF ChatInit, SessionMatchesModel
  <2>2. ChatInit => submitted = 0 /\ begun = <<>> /\ queue = <<>>
    BY DEF ChatInit
  <2>. QED
    BY <2>1, <2>2 DEF LineInv, Rising, Below
<1>2. LineInv /\ [ChatNext]_chatVars => LineInv'
  BY LineSteps, LineKept
<1>3. TurnInv /\ HistoriesInv /\ [ChatNext]_chatVars => HistoriesInv'
  <2>1. ASSUME TurnInv, HistoriesInv, ChatNext PROVE HistoriesInv'
    BY <2>1, WorkerWrites, KeyboardWrites, CommandsWrite DEF ChatNext, TurnInv
  <2>2. ASSUME HistoriesInv, UNCHANGED chatVars PROVE HistoriesInv'
    BY <2>2, NothingWritten DEF chatVars, session
  <2>. QED
    BY <2>1, <2>2
<1>4. CommandsTyped /\ [ChatNext]_chatVars => CommandsTyped'
  BY CommandsTypedKept
<1>5. ChatInit => CommandsTyped
  <2>1. ChatInit => clearing \in BOOLEAN
    BY Zenon DEF ChatInit
  <2>2. /\ 0 \in 0..MaxPrompts /\ 0 \in 0..MaxBatches /\ 0 \in 0..MaxCommands
        /\ 0 \in 0..MaxFailures
    BY ChatAssumption
  <2>. QED
    BY <2>1, <2>2 DEF ChatInit, CommandsTyped
<1>6. TurnInv /\ HistoriesInv /\ FilesInv /\ [ChatNext]_chatVars => FilesInv'
  <2>1. ASSUME TurnInv, HistoriesInv, FilesInv, ChatNext PROVE FilesInv'
    BY <2>1, WorkerFiles, KeyboardFiles, CommandsFiles DEF ChatNext, TurnInv
  <2>2. ASSUME FilesInv, UNCHANGED chatVars PROVE FilesInv'
    BY <2>2, NoFiles DEF chatVars, session, Generating
  <2>. QED
    BY <2>1, <2>2
<1>7. ChatInit => ChatInv
  BY <1>1, <1>5, InitTurnInv, InitHistories, InitFiles DEF ChatInv
<1>8. ChatInv /\ [ChatNext]_chatVars => ChatInv'
  BY <1>2, <1>3, <1>4, <1>6, NextTurnInv DEF ChatInv
<1>. QED
  BY <1>7, <1>8, PTL DEF ChatSpec

\* The chat's state has the types it is meant to have: a turn belongs to a session there is
\* and never has more results than calls, prompts waiting or sent have been typed.
THEOREM ChatTypeInvariant == ChatSpec => []ChatTypeOK
<1>1. ChatInv => ChatTypeOK
  BY ChatTyped DEF ChatInv
<1>. QED
  BY <1>1, ChatInvariant, PTL

\* Every reply that called tools has one result for each of its calls behind it and no other,
\* however its turn ended, whatever ids earlier replies used, and from whichever file the
\* session was resumed: what the model is sent next is a conversation it accepts.
THEOREM ResultsArePaired == ChatSpec => []ToolResultsPaired
<1>1. ChatInv => ToolResultsPaired
  BY HistoriesPaired DEF ChatInv
<1>. QED
  BY <1>1, ChatInvariant, PTL

\* A tool's thread always has its turn waiting for it: no stop, no failure and no quitting,
\* and none of the commands that clear or load a session, abandons a tool at work.
THEOREM ToolsAreAwaited == ChatSpec => []NoAbandonedTool
<1>1. ChatInv => NoAbandonedTool
  BY DEF ChatInv, TurnInv
<1>. QED
  BY <1>1, ChatInvariant, PTL

\* The session on the screen talks to the model in use, whatever overlaps; and the file of
\* every session holds what its model was sent, but for a draft saved in mid-reply: all of it,
\* where no reply is being made and the last one could be saved.
THEOREM SessionsKeep == ChatSpec => []SessionsAreKept
<1>1. ChatInv => SessionsAreKept
  BY DEF ChatInv, FilesInv, FileHolds, SessionsAreKept
<1>. QED
  BY <1>1, ChatInvariant, PTL

\* Prompts are sent at most once and in the order they were typed; nothing but a pause keeps
\* one waiting when no reply is being made, and nothing but a stop or a failure pauses what
\* waits behind a reply, resumed or not.
THEOREM QueueIsDisciplined == ChatSpec => []QueueDiscipline
<1>1. ChatInv => QueueDiscipline
  BY LineOrdered DEF ChatInv, TurnInv, QueueDiscipline
<1>. QED
  BY <1>1, ChatInvariant, PTL

LEMMA StoppingHolds ==
  ASSUME TurnInv, [ChatNext]_chatVars, Stopping
  PROVE  begun' = begun /\ batches' = batches /\ thread' \in {thread, Nobody}
<1>1. Generating /\ turn.stop /\ turn \in Turns
  BY DEF Stopping, Generating, TurnInv, TurnTyped
<1>2. ASSUME NEW t, NEW ok, NEW h, Release(t, ok, h), ok => t.stop PROVE begun' = begun
  BY <1>2 DEF Release
<1>3. ASSUME NEW t, NEW ok, NEW h, EndTurn(t, ok, h), ok => t.stop PROVE begun' = begun
  BY <1>2, <1>3 DEF EndTurn
<1>4. CASE Worker
  <2>1. CASE ToolReturns
    <3>1. [turn EXCEPT !.done = @ + 1].stop
      BY <1>1 DEF Turns
    <3>2. begun' = begun
      BY <1>3, <2>1, <3>1 DEF ToolReturns, NextCall
    <3>. QED
      BY <2>1, <3>2 DEF ToolReturns
  <2>2. CASE ToolRaises
    BY <2>2 DEF ToolRaises
  <2>3. CASE TurnCancelled
    BY <1>3, <2>3 DEF TurnCancelled
  <2>4. CASE Unsaved
    BY <1>2, <2>4 DEF Unsaved
  <2>. QED
    BY <1>1, <1>4, <2>1, <2>2, <2>3, <2>4 DEF Worker, TurnStarts, ReplyEnds, StreamFails,
       CallsArrive, AskUser, RunTool, Deny, ErrorShown
<1>5. CASE Keyboard
  BY <1>1, <1>5 DEF Keyboard, Submit, Resume, Stop, Quit, Save, CancelQueued, Chat
<1>6. CASE SessionCommands
  BY <1>6 DEF SessionCommands, NewChat, Cleared, BrowseSessions, PickSession, Loaded, LeaveSessions,
     ChooseModel, ModelsFetched, PickModel, KeepModel, Switched, Chat
<1>7. CASE UNCHANGED chatVars
  BY <1>7 DEF chatVars, waiting
<1>. QED
  BY <1>4, <1>5, <1>6, <1>7 DEF ChatNext

\* From the stop on a reply starts no tool, asks the model for nothing more and sends no
\* queued prompt when it ends.
THEOREM StopIsFinal == ChatSpec => StopHolds
<1>1. ChatInv /\ [ChatNext]_chatVars
      => [Stopping => /\ begun' = begun /\ batches' = batches
                      /\ thread' \in {thread, Nobody}]_chatVars
  BY StoppingHolds DEF ChatInv
<1>. QED
  BY <1>1, ChatInvariant, PTL DEF ChatSpec, StopHolds

-----------------------------------------------------------------------------
(* A tool call: what it touches lies within what the user allows.          *)

\* What the user allows for the call in hand.
Allowed == standing.grants \cup agreed

\* At idle the next call has not been decided yet.
Busy == at # "idle"

Typed ==
  /\ at \in {"idle", "asked", "allowed", "running", "vetted", "asked midway"}
  /\ at # "idle" => call \in Calls
  /\ where \in [Paths -> Targets \cup {Unset}]
  /\ sessionGrants \subseteq AllGrants /\ savedGrants \subseteq AllGrants
  /\ rules \subseteq AllGrants
  /\ question \in [prompt : BOOLEAN, grant : AllGrants \cup {Unset}, scoped : BOOLEAN]
  /\ question.scoped => question.grant # Unset
  /\ callGrant \in AllGrants \cup {Unset}

\* What is in force was in force when the call was decided, or was agreed to since.
Standing == Busy => allowAll = standing.all /\ Grants \subseteq Allowed

\* A grant that the call has for itself.
OwnGrant(g) ==
  g # Unset => /\ g \in Allowed
               /\ call.tool \in ReadTools /\ remote => g \in agreed

\* What a yes to a question means, and what the call has been given.
Asks ==
  /\ call.tool = "shell_execute" => question.grant = CommandGrant(call.arg)
  /\ call.tool = "write_file" => question.grant = Unset
Granted ==
  /\ OwnGrant(callGrant)
  /\ call.tool = "shell_execute" => standing.all \/ CommandGrant(call.arg) \in Allowed
  /\ call.tool = "write_file" /\ callGrant = Unset => standing.all \/ ThisCall \in agreed

\* What the tool may open, run and fetch.
RootAllowed(r) ==
  \/ call.tool \in ReadTools /\ ~remote /\ r = Cwd
  \/ \E g \in Allowed : /\ g.tool = call.tool /\ g.dir = r
                        /\ call.tool \in ReadTools /\ remote => g \in agreed
OriginWithin(scopes, o, internal) ==
  \E g \in scopes : g.tool = "fetch_url" /\ g.origin = o /\ (internal => g.internal)
Contained ==
  /\ call.tool \in ReadTools /\ context.anywhere => standing.all
  /\ call.tool = "write_file" /\ context.anywhere => standing.all \/ ThisCall \in agreed
  /\ call.tool \in ReadTools \cup {"write_file"} => \A r \in context.roots : RootAllowed(r)
  /\ call.tool = "shell_execute" => standing.all \/ CommandGrant(call.arg) \in Allowed
  /\ \A o \in context.origins : standing.all \/ OriginWithin(Allowed, o, FALSE)
  /\ \A o \in context.internal : standing.all \/ OriginWithin(Allowed, o, TRUE)

\* The context and the hop are records.
Shaped ==
  /\ context = [anywhere |-> context.anywhere, roots |-> context.roots,
                origins |-> context.origins, internal |-> context.internal]
  /\ call.tool = "fetch_url" =>
       hop = [origin |-> hop.origin, address |-> hop.address] /\ hop.origin \in Origins

CallInv ==
  /\ Typed /\ Standing /\ TouchedWithinConsent
  /\ at \in {"asked", "allowed"} => touched = Unset
  /\ at = "asked" => Asks /\ Grants \subseteq standing.grants
  /\ at = "allowed" => Granted
  /\ at \in {"running", "vetted", "asked midway"} => Contained /\ Shaped
  /\ at \in {"vetted", "asked midway"} => call.tool = "fetch_url"
  /\ at = "vetted" => standing.all \/ OriginWithin(Allowed, hop.origin, hop.address = "internal")
  /\ at = "asked midway" =>
       \E internal \in BOOLEAN : /\ question.grant = OriginGrant(hop.origin, internal)
                                 /\ hop.address = "internal" => internal

-----------------------------------------------------------------------------
(* The policy.                                                             *)

\* The three answers the policy has for reading and fetching.
LEMMA AnswerFacts ==
  ASSUME NEW d, NEW g \in AllGrants,
         d = NoPrompt \/ d = Ask(g, TRUE) \/ d = Ask(g, FALSE)
  PROVE  /\ d \in [prompt : BOOLEAN, grant : AllGrants \cup {Unset}, scoped : BOOLEAN]
         /\ d.scoped => d.grant # Unset
         /\ ~d.prompt => d.grant = Unset
<1>0. g # Unset
  BY CallAssumption
<1>1. CASE d = NoPrompt
  BY <1>1 DEF NoPrompt
<1>2. CASE d = Ask(g, TRUE)
  BY <1>0, <1>2 DEF Ask
<1>3. CASE d = Ask(g, FALSE)
  BY <1>3 DEF Ask
<1> QED
  BY <1>1, <1>2, <1>3

\* What the policy answers: a scope it can remember, or a grant it already has.
LEMMA DecideFacts ==
  ASSUME Typed, NEW c \in Calls
  PROVE  /\ Decide(c) \in [prompt : BOOLEAN, grant : AllGrants \cup {Unset}, scoped : BOOLEAN]
         /\ Decide(c).scoped => Decide(c).grant # Unset
         /\ Decide(c).prompt /\ c.tool = "shell_execute" => Decide(c).grant = CommandGrant(c.arg)
         /\ Decide(c).prompt /\ c.tool = "write_file" => Decide(c).grant = Unset
         /\ ~Decide(c).prompt => Decide(c).grant \in Grants \cup {Unset}
         /\ ~Decide(c).prompt /\ c.tool = "shell_execute" =>
              allowAll \/ CommandGrant(c.arg) \in Grants
         /\ ~Decide(c).prompt /\ c.tool = "write_file" => allowAll \/ Decide(c).grant # Unset
         /\ ~Decide(c).prompt /\ c.tool \in ReadTools => Decide(c).grant = Unset
<1>0. Unset \notin AllGrants
  BY CallAssumption
<1>1. Grants \subseteq AllGrants
  BY DEF Typed, Grants, ParseGrants
<1>2. CASE allowAll
  BY <1>2 DEF Decide, NoPrompt
<1>3. CASE ~allowAll /\ c.tool = "shell_execute"
  <2>1. c.arg \in ShellCommands
    BY <1>3 DEF Calls, ReadTools
  <2>2. CommandGrant(c.arg) \in AllGrants
    BY <2>1 DEF CommandGrant, Grant, AllGrants, Places
  <2>3. Decide(c) = DecideShell(c.arg)
    BY <1>3 DEF Decide, ReadTools
  <2> QED
    BY <1>0, <1>3, <2>2, <2>3 DEF DecideShell, Permitted, Ask, ReadTools
<1>4. CASE ~allowAll /\ c.tool = "write_file"
  <2>1. Decide(c) = DecideWrite(c.arg)
    BY <1>4 DEF Decide, ReadTools
  <2> DEFINE covering == {g \in Grants : g.tool = "write_file" /\ Within(where[c.arg], g.dir)}
  <2>2. CASE managed /\ covering # {}
    <3>1. PICK g \in covering : Decide(c) = Permitted(g)
      BY <2>1, <2>2 DEF DecideWrite
    <3>2. g \in Grants
      OBVIOUS
    <3> HIDE DEF covering
    <3> QED
      BY <1>0, <1>1, <1>4, <3>1, <3>2 DEF Permitted, ReadTools
  <2>3. CASE ~(managed /\ covering # {})
    BY <1>4, <2>1, <2>3 DEF DecideWrite, Ask, ReadTools
  <2> QED
    BY <2>2, <2>3
<1>5. CASE ~allowAll /\ c.tool \in ReadTools
  <2>1. Decide(c) = DecideRead(c.tool, c.arg)
    BY <1>5 DEF Decide, ReadTools
  <2>2. c.arg \in Paths
    BY <1>5 DEF Calls, ReadTools
  <2>3. where[c.arg] = Unset \/ where[c.arg] \in Targets
    BY <2>2 DEF Typed
  <2> DEFINE target == where[c.arg]
             scope == IF c.tool = "read_file" /\ target \notin Folders THEN Front(target)
                      ELSE target
  <2>4. CASE target = Unset
    BY <1>5, <2>1, <2>4 DEF DecideRead, Ask, ReadTools
  <2>5. CASE target # Unset
    <3>1. scope \in Places
      BY <2>3, <2>5 DEF Places
    <3>2. PathGrant(c.tool, scope) \in AllGrants
      BY <1>5, <3>1 DEF PathGrant, Grant, AllGrants, ReadTools
    <3>3. \/ Decide(c) = Ask(PathGrant(c.tool, scope), FALSE)
          \/ Decide(c) = Ask(PathGrant(c.tool, scope), TRUE)
          \/ Decide(c) = NoPrompt
      BY <2>1, <2>5 DEF DecideRead
    <3> HIDE DEF scope
    <3> QED
      BY <1>5, <3>2, <3>3, AnswerFacts DEF ReadTools
  <2> QED
    BY <2>4, <2>5
<1>6. CASE ~allowAll /\ c.tool = "fetch_url"
  <2>1. Decide(c) = DecideFetch(c.arg)
    BY <1>6 DEF Decide, ReadTools
  <2>2. c.arg \in Origins
    BY <1>6 DEF Calls, ReadTools
  <2>3. OriginGrant(c.arg, c.arg \in Literals) \in AllGrants
    BY <2>2 DEF OriginGrant, Grant, AllGrants, Places
  <2>4. \/ Decide(c) = NoPrompt
        \/ Decide(c) = Ask(OriginGrant(c.arg, c.arg \in Literals), TRUE)
    BY <2>1 DEF DecideFetch
  <2> QED
    BY <1>6, <2>3, <2>4, AnswerFacts DEF ReadTools
<1> QED
  BY <1>2, <1>3, <1>4, <1>5, <1>6 DEF Calls, ReadTools

\* An answer adds no grant but the one that was asked about.
LEMMA ChooseFacts ==
  ASSUME Typed, NEW choice, Choose(choice)
  PROVE  /\ Grants' \subseteq Grants \cup ({question.grant} \ {Unset})
         /\ allowAll' = allowAll /\ remote' = remote /\ managed' = managed
         /\ sessionGrants' \subseteq AllGrants /\ savedGrants' \subseteq AllGrants
         /\ rules' \subseteq AllGrants
<1>1. CASE choice \in {"session", "always"}
  <2>1. question.grant \in AllGrants /\ question.grant # Unset
    BY <1>1 DEF Choose, Typed
  <2>2. /\ sessionGrants' = sessionGrants \cup {question.grant}
        /\ rules' = IF managed THEN rules \cup {question.grant} ELSE rules
        /\ savedGrants' = savedGrants \/ savedGrants' = savedGrants \cup {question.grant}
        /\ allowAll' = allowAll /\ remote' = remote /\ managed' = managed
    BY <1>1 DEF Choose, Remember
  <2>3. Grants' \subseteq Grants \cup {question.grant}
    BY <2>2 DEF Grants, ParseGrants
  <2> QED
    BY <2>1, <2>2, <2>3 DEF Typed
<1>2. CASE choice \notin {"session", "always"}
  BY <1>2 DEF Choose, policyVars, Grants, ParseGrants, Typed
<1> QED
  BY <1>1, <1>2

LEMMA GrantsKept ==
  ASSUME UNCHANGED policyVars
  PROVE  Grants' = Grants /\ allowAll' = allowAll /\ remote' = remote
BY DEF policyVars, Grants, ParseGrants

\* Consent given for what was touched is not withdrawn within the call.
LEMMA ConsentStays ==
  ASSUME TouchedWithinConsent, touched' = touched, standing' = standing, remote' = remote,
         agreed \subseteq agreed'
  PROVE  TouchedWithinConsent'
BY DEF TouchedWithinConsent
-----------------------------------------------------------------------------
(* One lemma per step.                                                     *)

LEMMA CallStarts ==
  ASSUME CallInit
  PROVE  CallInv
<1>1. {} \subseteq AllGrants /\ savedGrants \subseteq AllGrants
  BY CallAssumption DEF CallInit
<1>2. Typed
  BY <1>1 DEF CallInit, Typed, NoPrompt
<1>3. TouchedWithinConsent
  BY DEF CallInit, TouchedWithinConsent
<1> QED
  BY <1>2, <1>3 DEF CallInit, CallInv, Standing, Busy

\* The end of every call, whatever it has touched.
LEMMA Finishes ==
  ASSUME CallInv, UNCHANGED <<policyVars, where>>, at' = "idle", question' = NoPrompt,
         callGrant' \in {callGrant, Unset}, TouchedWithinConsent'
  PROVE  CallInv'
<1>1. Typed'
  BY DEF CallInv, Typed, policyVars, NoPrompt
<1> QED
  BY <1>1 DEF CallInv, Standing, Busy

LEMMA OriginGrantFacts ==
  ASSUME NEW o \in Origins, NEW internal \in BOOLEAN
  PROVE  /\ OriginGrant(o, internal) \in AllGrants /\ OriginGrant(o, internal) # Unset
         /\ OriginGrant(o, internal).tool = "fetch_url"
         /\ OriginGrant(o, internal).origin = o
         /\ OriginGrant(o, internal).internal = internal
<1>1. OriginGrant(o, internal) \in AllGrants
  BY DEF OriginGrant, Grant, AllGrants, Places
<1> QED
  BY <1>1, CallAssumption DEF OriginGrant, Grant

LEMMA TakeCallStep ==
  ASSUME CallInv, NEW c \in Calls, TakeCall(c)
  PROVE  CallInv'
<1> DEFINE d == Decide(c)
<1>1. Typed
  BY DEF CallInv
<1>2. /\ d \in [prompt : BOOLEAN, grant : AllGrants \cup {Unset}, scoped : BOOLEAN]
      /\ d.scoped => d.grant # Unset
  BY <1>1, DecideFacts
<1>3. Grants' = Grants /\ allowAll' = allowAll /\ remote' = remote
  BY GrantsKept DEF TakeCall
<1>4. /\ call' = c /\ touched' = Unset /\ question' = d
      /\ standing' = [all |-> allowAll, grants |-> Grants]
      /\ standing'.all = allowAll /\ standing'.grants = Grants
      /\ \/ d.prompt /\ at' = "asked" /\ callGrant' = callGrant
         \/ at' = "allowed" /\ callGrant' = d.grant
            /\ agreed' = IF d.prompt THEN {Consent(d)} ELSE {}
      /\ UNCHANGED <<policyVars, where>>
  BY DEF TakeCall, worldVars
<1>5. /\ d.prompt /\ c.tool = "shell_execute" => d.grant = CommandGrant(c.arg)
      /\ d.prompt /\ c.tool = "write_file" => d.grant = Unset
      /\ ~d.prompt => d.grant \in Grants \cup {Unset}
      /\ ~d.prompt /\ c.tool = "shell_execute" => allowAll \/ CommandGrant(c.arg) \in Grants
      /\ ~d.prompt /\ c.tool = "write_file" => allowAll \/ d.grant # Unset
      /\ ~d.prompt /\ c.tool \in ReadTools => d.grant = Unset
  BY <1>1, DecideFacts
<1> HIDE DEF d
<1>6. Typed'
  <2>1. at' \in {"idle", "asked", "allowed", "running", "vetted", "asked midway"}
    BY <1>4
  <2>2. callGrant' \in AllGrants \cup {Unset}
    BY <1>1, <1>2, <1>4 DEF Typed
  <2> QED
    BY <1>1, <1>2, <1>4, <2>1, <2>2 DEF Typed, policyVars
<1>7. Standing'
  BY <1>3, <1>4 DEF Standing, Allowed
<1>8. TouchedWithinConsent'
  BY <1>4 DEF TouchedWithinConsent
<1>9. CASE d.prompt /\ at' = "asked"
  <2>1. Asks'
    BY <1>4, <1>5, <1>9 DEF Asks
  <2> QED
    BY <1>3, <1>4, <1>6, <1>7, <1>8, <1>9, <2>1 DEF CallInv
<1>10. CASE /\ at' = "allowed" /\ callGrant' = d.grant
            /\ agreed' = IF d.prompt THEN {Consent(d)} ELSE {}
  <2>1. Granted'
    <3>1. CASE d.prompt
      <4>1. d.grant # Unset => d.grant \in agreed'
        BY <1>10, <3>1 DEF Consent
      <4>2. d.grant = Unset => ThisCall \in agreed'
        BY <1>10, <3>1 DEF Consent
      <4>3. CommandGrant(c.arg) \in AllGrants => CommandGrant(c.arg) # Unset
        BY CallAssumption
      <4>4. c.tool = "shell_execute" => CommandGrant(c.arg) \in AllGrants
        BY <1>2 DEF CommandGrant, Grant, AllGrants, Places, Calls, ReadTools
      <4> QED
        BY <1>4, <1>5, <1>10, <3>1, <4>1, <4>2, <4>3, <4>4 DEF Granted, OwnGrant, Allowed
    <3>2. CASE ~d.prompt
      <4>1. d.grant # Unset => d.grant \in Grants /\ c.tool \notin ReadTools
        BY <1>5, <3>2
      <4> QED
        BY <1>4, <1>5, <1>10, <3>2, <4>1 DEF Granted, OwnGrant, Allowed
    <3> QED
      BY <3>1, <3>2
  <2> QED
    BY <1>4, <1>6, <1>7, <1>8, <1>10, <2>1 DEF CallInv
<1> QED
  BY <1>4, <1>9, <1>10

LEMMA AllowStep ==
  ASSUME CallInv, NEW choice, Allow(choice)
  PROVE  CallInv'
<1> DEFINE g == question.grant
<1>1. /\ at = "asked" /\ at' = "allowed" /\ call' = call /\ question' = question
      /\ touched' = touched /\ standing' = standing /\ where' = where
      /\ agreed' = {Consent(question)} /\ callGrant' = question.grant
      /\ Choose(choice)
  BY DEF Allow, worldVars
<1>2. /\ Typed /\ Standing /\ Asks /\ Grants \subseteq standing.grants /\ touched = Unset
  BY <1>1 DEF CallInv
<1>3. /\ Grants' \subseteq Grants \cup ({question.grant} \ {Unset})
      /\ allowAll' = allowAll /\ remote' = remote /\ managed' = managed
      /\ sessionGrants' \subseteq AllGrants /\ savedGrants' \subseteq AllGrants
      /\ rules' \subseteq AllGrants
  BY <1>1, <1>2, ChooseFacts
<1>4. /\ g # Unset => g \in agreed'
      /\ g = Unset => ThisCall \in agreed'
  BY <1>1 DEF Consent
<1>5. Typed'
  BY <1>1, <1>2, <1>3 DEF Typed
<1>6. Standing'
  BY <1>1, <1>2, <1>3, <1>4 DEF Standing, Busy, Allowed
<1>7. TouchedWithinConsent'
  BY <1>1, <1>2 DEF TouchedWithinConsent
<1>8. Granted'
  <2>1. call.tool = "shell_execute" => g # Unset
    <3>1. CommandGrant(call.arg) \in AllGrants => CommandGrant(call.arg) # Unset
      BY CallAssumption
    <3>2. call.tool = "shell_execute" => CommandGrant(call.arg) \in AllGrants
      BY <1>1, <1>2 DEF Typed, CommandGrant, Grant, AllGrants, Places, Calls, ReadTools
    <3> QED
      BY <1>2, <3>1, <3>2 DEF Asks
  <2> QED
    BY <1>1, <1>2, <1>4, <2>1 DEF Granted, OwnGrant, Allowed, Asks
<1> QED
  BY <1>1, <1>2, <1>5, <1>6, <1>7, <1>8 DEF CallInv

LEMMA RefuseCallStep ==
  ASSUME CallInv, RefuseCall
  PROVE  CallInv'
<1>1. TouchedWithinConsent'
  BY DEF RefuseCall, Finish, TouchedWithinConsent
<1> QED
  BY <1>1, Finishes DEF RefuseCall, Finish, worldVars
\* What the context is made of was allowed.
LEMMA ContextFacts ==
  ASSUME Typed, Standing, Granted, at = "allowed", Grants \subseteq Allowed,
         context' = ToolContext(call, callGrant),
         UNCHANGED <<policyVars, standing, agreed, call>>
  PROVE  Contained'
<1> DEFINE c == call.tool
           given(tool) == Given(tool, callGrant)
<1>1. /\ context'.anywhere = IF c = "write_file" THEN callGrant = Unset ELSE allowAll
      /\ context'.roots = IF c \in ReadTools THEN ReadRoots(c, callGrant)
                          ELSE {x.dir : x \in given("write_file")}
      /\ context'.origins = {x.origin : x \in FetchGrants(callGrant)}
      /\ context'.internal = {x.origin : x \in {y \in FetchGrants(callGrant) : y.internal}}
  BY DEF ToolContext
<1>2. allowAll = standing.all /\ allowAll' = allowAll /\ remote' = remote /\ Allowed' = Allowed
  BY DEF Standing, Busy, policyVars, Allowed
<1>3. \A tool : given(tool) \subseteq {g \in Allowed : g.tool = tool}
  BY DEF Given, Granted, OwnGrant
<1>4. \A g \in FetchGrants(callGrant) : g \in Allowed /\ g.tool = "fetch_url"
  BY <1>3 DEF FetchGrants
<1>5. ASSUME c \in ReadTools, NEW r \in ReadRoots(c, callGrant)
      PROVE  RootAllowed(r)
  <2>1. CASE ~remote /\ r = Cwd
    BY <1>5, <2>1 DEF RootAllowed
  <2>2. CASE ~remote /\ \E x \in Grants : x.tool = c /\ r = x.dir
    BY <1>5, <2>2 DEF RootAllowed
  <2>3. CASE \E x \in given(c) : r = x.dir
    <3>1. PICK x \in given(c) : r = x.dir
      BY <2>3
    <3>2. x = callGrant /\ x # Unset /\ x.tool = c
      BY <3>1 DEF Given
    <3> QED
      BY <1>5, <3>1, <3>2 DEF RootAllowed, Granted, OwnGrant
  <2> QED
    BY <1>5, <2>1, <2>2, <2>3 DEF ReadRoots
<1>6. ASSUME c = "write_file", NEW x \in given("write_file")
      PROVE  RootAllowed(x.dir)
  BY <1>3, <1>6 DEF RootAllowed, ReadTools
<1>7. \A r : RootAllowed(r)' <=> RootAllowed(r)
  BY <1>2 DEF RootAllowed
<1>8. call.tool \in ReadTools \cup {"write_file"} => \A r \in context'.roots : RootAllowed(r)
  BY <1>1, <1>5, <1>6 DEF ReadTools
<1>9. \A o \in context'.origins : OriginWithin(Allowed, o, FALSE)
  BY <1>1, <1>4 DEF OriginWithin
<1>10. \A o \in context'.internal : OriginWithin(Allowed, o, TRUE)
  BY <1>1, <1>4 DEF OriginWithin
<1>12. c \in ReadTools => c # "write_file"
  BY DEF ReadTools
<1> HIDE DEF given
<1> QED
  BY <1>1, <1>2, <1>7, <1>8, <1>9, <1>10, <1>12 DEF Contained, Granted

LEMMA StartToolStep ==
  ASSUME CallInv, StartTool
  PROVE  CallInv'
<1>1. at = "allowed" /\ UNCHANGED <<policyVars, where, standing, agreed>>
  BY DEF StartTool, worldVars, ghostVars
<1>2. Typed /\ Standing /\ Granted /\ touched = Unset
  BY <1>1 DEF CallInv
<1>3. Grants' = Grants /\ allowAll' = allowAll /\ remote' = remote
  BY <1>1, GrantsKept
<1>4. CASE stopped
  <2>1. TouchedWithinConsent'
    BY <1>4 DEF StartTool, Finish, TouchedWithinConsent
  <2> QED
    BY <1>1, <1>4, <2>1, Finishes DEF StartTool, Finish
<1>5. CASE ~stopped
  <2>1. /\ at' = "running" /\ callGrant' = Unset /\ context' = ToolContext(call, callGrant)
        /\ call' = call /\ question' = question /\ touched' = touched
    BY <1>5 DEF StartTool
  <2>2. Contained'
    BY <1>1, <1>2, <2>1, ContextFacts DEF Standing, Busy
  <2>6. Shaped'
    <3>1. context' = [anywhere |-> context'.anywhere, roots |-> context'.roots,
                      origins |-> context'.origins, internal |-> context'.internal]
      BY <2>1 DEF ToolContext
    <3>2. call.tool = "fetch_url" =>
            hop' = [origin |-> hop'.origin, address |-> hop'.address] /\ hop'.origin \in Origins
      BY <1>1, <1>2, <1>5 DEF StartTool, Typed, Calls, ReadTools
    <3> QED
      BY <2>1, <3>1, <3>2 DEF Shaped
  <2>3. Typed'
    BY <1>1, <1>2, <2>1 DEF Typed, policyVars
  <2>4. Standing'
    BY <1>1, <1>2, <1>3, <2>1 DEF Standing, Busy, Allowed
  <2>5. TouchedWithinConsent'
    BY <1>2, <2>1 DEF TouchedWithinConsent
  <2> QED
    BY <2>1, <2>2, <2>3, <2>4, <2>5, <2>6 DEF CallInv
<1> QED
  BY <1>4, <1>5

LEMMA UseFileStep ==
  ASSUME CallInv, UseFile
  PROVE  CallInv'
<1> DEFINE place == where[call.arg]
<1>1. /\ at = "running" /\ call.tool \in ReadTools \cup {"write_file"}
      /\ Finish(IF place # Unset /\ InRoots(place)
                THEN [tool |-> call.tool, place |-> place] ELSE Unset)
      /\ UNCHANGED <<policyVars, where, standing, agreed, callGrant>>
  BY DEF UseFile, Quiet, worldVars, ghostVars
<1>2. Contained
  BY <1>1 DEF CallInv
<1>3. remote' = remote
  BY <1>1 DEF policyVars
<1>4. TouchedWithinConsent'
  <2>1. CASE ~(place # Unset /\ InRoots(place))
    BY <1>1, <2>1 DEF Finish, TouchedWithinConsent
  <2>2. CASE place # Unset /\ InRoots(place)
    <3>1. /\ touched' = [tool |-> call.tool, place |-> place]
          /\ touched'.tool = call.tool /\ touched'.place = place
      BY <1>1, <2>2 DEF Finish
    <3>2. CASE context.anywhere
      BY <1>1, <1>2, <3>1, <3>2 DEF Contained, TouchedWithinConsent
    <3>3. CASE \E r \in context.roots : Within(place, r)
      <4>1. PICK r \in context.roots : Within(place, r)
        BY <3>3
      <4>2. RootAllowed(r)
        BY <1>1, <1>2, <4>1 DEF Contained
      <4>3. CASE call.tool \in ReadTools /\ ~remote /\ r = Cwd
        BY <1>3, <3>1, <4>1, <4>3 DEF TouchedWithinConsent
      <4>4. CASE \E g \in Allowed : /\ g.tool = call.tool /\ g.dir = r
                                    /\ (call.tool \in ReadTools /\ remote => g \in agreed)
        <5>1. PICK g \in Allowed : /\ g.tool = call.tool /\ g.dir = r
                                   /\ (call.tool \in ReadTools /\ remote => g \in agreed)
          BY <4>4
        <5>2. g \in standing'.grants \cup agreed' /\ g.tool = touched'.tool
              /\ Within(touched'.place, g.dir)
          BY <1>1, <3>1, <4>1, <5>1 DEF Allowed
        <5>3. CASE call.tool \in ReadTools
          <6>1. remote' => g \in agreed'
            BY <1>1, <1>3, <5>1, <5>3
          <6> QED
            BY <3>1, <5>2, <5>3, <6>1 DEF TouchedWithinConsent
        <5>4. CASE call.tool = "write_file"
          BY <3>1, <5>2, <5>4 DEF TouchedWithinConsent
        <5> QED
          BY <1>1, <5>3, <5>4
      <4> QED
        BY <4>2, <4>3, <4>4 DEF RootAllowed
    <3> QED
      BY <2>2, <3>2, <3>3 DEF InRoots
  <2> QED
    BY <2>1, <2>2
<1> QED
  BY <1>1, <1>4, Finishes DEF Finish
LEMMA RunCommandStep ==
  ASSUME CallInv, RunCommand
  PROVE  CallInv'
<1>1. /\ at = "running" /\ call.tool = "shell_execute"
      /\ touched' = [tool |-> "shell_execute", place |-> call.arg]
      /\ UNCHANGED <<policyVars, where, standing, agreed, callGrant>>
      /\ at' = "idle" /\ question' = NoPrompt
  BY DEF RunCommand, Finish, Quiet, worldVars, ghostVars
<1>2. standing.all \/ CommandGrant(call.arg) \in Allowed
  BY <1>1 DEF CallInv, Contained
<1>3. TouchedWithinConsent'
  BY <1>1, <1>2 DEF TouchedWithinConsent, Allowed, CommandGrant, Grant
<1> QED
  BY <1>1, <1>3, Finishes

\* An origin that comes with consent widens the context within what is allowed.
LEMMA Widened ==
  ASSUME Contained, Shaped, NEW o, NEW blocked \in BOOLEAN, Approve(o, blocked),
         standing.all \/ OriginWithin(Allowed', o, blocked),
         UNCHANGED <<call, remote, standing>>, agreed \subseteq agreed',
         call.tool = "fetch_url" =>
           hop' = [origin |-> hop'.origin, address |-> hop'.address] /\ hop'.origin \in Origins
  PROVE  Contained' /\ Shaped'
<1>1. context' = [anywhere |-> context.anywhere, roots |-> context.roots,
                  origins |-> context.origins \cup {o},
                  internal |-> IF blocked THEN context.internal \cup {o} ELSE context.internal]
  BY DEF Approve, Shaped
<1>2. /\ context'.anywhere = context.anywhere /\ context'.roots = context.roots
      /\ context'.origins = context.origins \cup {o}
      /\ context'.internal = IF blocked THEN context.internal \cup {o} ELSE context.internal
  BY <1>1
<1>3. Allowed \subseteq Allowed'
  BY DEF Allowed
<1>4. \A r : RootAllowed(r) => RootAllowed(r)'
  BY <1>3 DEF RootAllowed
<1>5. \A p, i : OriginWithin(Allowed, p, i) => OriginWithin(Allowed', p, i)
  BY <1>3 DEF OriginWithin
<1>6. /\ OriginWithin(Allowed', o, blocked) => OriginWithin(Allowed', o, FALSE)
      /\ OriginWithin(Allowed', o, blocked) /\ blocked => OriginWithin(Allowed', o, TRUE)
  BY DEF OriginWithin
<1>7. Contained'
  BY <1>2, <1>3, <1>4, <1>5, <1>6 DEF Contained
<1>8. Shaped'
  BY <1>1 DEF Shaped
<1> QED
  BY <1>7, <1>8

\* And with the context it had, a call keeps within what is allowed.
LEMMA StaysContained ==
  ASSUME Contained, Shaped, UNCHANGED <<call, remote, standing, context>>, agreed \subseteq agreed',
         call.tool = "fetch_url" =>
           hop' = [origin |-> hop'.origin, address |-> hop'.address] /\ hop'.origin \in Origins
  PROVE  Contained' /\ Shaped'
<1>1. Allowed \subseteq Allowed'
  BY DEF Allowed
<1>2. \A r : RootAllowed(r) => RootAllowed(r)'
  BY <1>1 DEF RootAllowed
<1>3. \A p, i : OriginWithin(Allowed, p, i) => OriginWithin(Allowed', p, i)
  BY <1>1 DEF OriginWithin
<1>4. Contained'
  BY <1>1, <1>2, <1>3 DEF Contained
<1>5. Shaped'
  BY DEF Shaped
<1> QED
  BY <1>4, <1>5
LEMMA VetHopStep ==
  ASSUME CallInv, VetHop
  PROVE  CallInv'
<1> DEFINE o       == hop.origin
           blocked == address[o] = "internal"
           covered == o \in context.origins /\ (blocked => o \in context.internal)
           known   == \E g \in Grants : g.tool = "fetch_url" /\ g.origin = o
                                          /\ (blocked => g.internal)
<1>1. /\ at = "running" /\ call.tool = "fetch_url"
      /\ UNCHANGED <<policyVars, where, call, callGrant, touched, standing>>
      /\ hop' = [hop EXCEPT !.address = address[o]]
  BY DEF VetHop, Quiet, worldVars, Vetted
<1>2. Typed /\ Standing /\ TouchedWithinConsent /\ Contained /\ Shaped
  BY <1>1 DEF CallInv
<1>3. Grants' = Grants /\ allowAll' = allowAll /\ remote' = remote
  BY <1>1, GrantsKept
<1>4. /\ hop' = [origin |-> o, address |-> address[o]] /\ o \in Origins
      /\ hop'.origin = o /\ hop'.address = address[o]
  BY <1>1, <1>2 DEF Shaped
<1>5. \/ covered /\ at' = "vetted" /\ UNCHANGED <<context, question, agreed>>
      \/ /\ allowAll \/ known \/ SkipPermissions
         /\ at' = "vetted" /\ Approve(o, blocked) /\ question' = question
         /\ agreed' = IF allowAll \/ known THEN agreed
                      ELSE agreed \cup {OriginGrant(o, blocked)}
      \/ /\ at' = "asked midway" /\ question' = Ask(OriginGrant(o, blocked), TRUE)
         /\ UNCHANGED <<context, agreed>>
  BY DEF VetHop, Vetted
<1>6. agreed \subseteq agreed' /\ Allowed \subseteq Allowed'
  BY <1>1, <1>5 DEF Allowed
<1>7. Standing' /\ TouchedWithinConsent'
  BY <1>1, <1>2, <1>3, <1>6, ConsentStays DEF Standing, Busy
<1>13. blocked \in BOOLEAN /\ (hop'.address = "internal" <=> blocked)
  BY <1>4
<1> HIDE DEF blocked
<1>8. /\ OriginGrant(o, blocked) \in AllGrants /\ OriginGrant(o, blocked) # Unset
      /\ OriginGrant(o, blocked).tool = "fetch_url" /\ OriginGrant(o, blocked).origin = o
      /\ OriginGrant(o, blocked).internal = blocked
  BY <1>4, <1>13, OriginGrantFacts
<1>9. Typed'
  <2>1. question' \in [prompt : BOOLEAN, grant : AllGrants \cup {Unset}, scoped : BOOLEAN]
        /\ (question'.scoped => question'.grant # Unset)
    <3>1. CASE question' = question
      BY <1>2, <3>1 DEF Typed
    <3>2. CASE question' = Ask(OriginGrant(o, blocked), TRUE)
      BY <1>8, <3>2, AnswerFacts
    <3> QED
      BY <1>5, <3>1, <3>2
  <2> QED
    BY <1>1, <1>2, <1>5, <2>1 DEF Typed, policyVars
<1> HIDE DEF known
<1>10. CASE covered /\ at' = "vetted" /\ UNCHANGED <<context, question, agreed>>
  <2>1. Contained' /\ Shaped'
    BY <1>1, <1>2, <1>3, <1>4, <1>6, <1>10, StaysContained
  <2>2. standing.all \/ OriginWithin(Allowed, o, blocked)
    <3>1. CASE blocked
      BY <1>2, <1>10, <3>1 DEF Contained, OriginWithin
    <3>2. CASE ~blocked
      BY <1>2, <1>10, <3>2 DEF Contained, OriginWithin
    <3> QED
      BY <3>1, <3>2
  <2>3. standing'.all \/ OriginWithin(Allowed', hop'.origin, hop'.address = "internal")
    BY <1>1, <1>4, <1>6, <1>13, <2>2 DEF OriginWithin
  <2> QED
    BY <1>1, <1>7, <1>9, <1>10, <2>1, <2>3 DEF CallInv
<1>11. CASE /\ allowAll \/ known \/ SkipPermissions
            /\ at' = "vetted" /\ Approve(o, blocked) /\ question' = question
            /\ agreed' = IF allowAll \/ known THEN agreed
                         ELSE agreed \cup {OriginGrant(o, blocked)}
  <2>1. standing.all \/ OriginWithin(Allowed', o, blocked)
    <3>1. CASE allowAll
      BY <1>1, <1>2, <3>1 DEF Standing, Busy
    <3>2. CASE known
      BY <1>1, <1>2, <1>6, <3>2 DEF known, Standing, Busy, OriginWithin
    <3>3. CASE ~(allowAll \/ known)
      <4>1. OriginGrant(o, blocked) \in Allowed'
        BY <1>11, <3>3 DEF Allowed
      <4> QED
        BY <1>8, <4>1 DEF OriginWithin
    <3> QED
      BY <3>1, <3>2, <3>3
  <2>2. Contained' /\ Shaped'
    <3>1. call.tool = "fetch_url" =>
            hop' = [origin |-> hop'.origin, address |-> hop'.address] /\ hop'.origin \in Origins
      BY <1>4
    <3> QED
      BY <1>1, <1>2, <1>3, <1>6, <1>11, <1>13, <2>1, <3>1, Widened
  <2>3. standing'.all \/ OriginWithin(Allowed', hop'.origin, hop'.address = "internal")
    BY <1>1, <1>4, <1>13, <2>1 DEF OriginWithin
  <2> QED
    BY <1>1, <1>7, <1>9, <1>11, <2>2, <2>3 DEF CallInv
<1>12. CASE /\ at' = "asked midway" /\ question' = Ask(OriginGrant(o, blocked), TRUE)
            /\ UNCHANGED <<context, agreed>>
  <2>1. Contained' /\ Shaped'
    BY <1>1, <1>2, <1>3, <1>4, <1>6, <1>12, StaysContained
  <2>2. question'.grant = OriginGrant(hop'.origin, blocked)
    BY <1>4, <1>12 DEF Ask
  <2> QED
    BY <1>1, <1>7, <1>9, <1>12, <1>13, <2>1, <2>2 DEF CallInv
<1> QED
  BY <1>5, <1>10, <1>11, <1>12

LEMMA RefuseHopStep ==
  ASSUME CallInv, RefuseHop
  PROVE  CallInv'
<1>1. TouchedWithinConsent'
  BY DEF RefuseHop, Finish, TouchedWithinConsent
<1> QED
  BY <1>1, Finishes DEF RefuseHop, Finish, Quiet, worldVars

LEMMA RefuseMidwayStep ==
  ASSUME CallInv, RefuseMidway
  PROVE  CallInv'
<1>1. TouchedWithinConsent'
  BY DEF RefuseMidway, Finish, TouchedWithinConsent
<1> QED
  BY <1>1, Finishes DEF RefuseMidway, Finish, Quiet, worldVars

LEMMA AllowMidwayStep ==
  ASSUME CallInv, NEW choice, AllowMidway(choice)
  PROVE  CallInv'
<1> DEFINE g == question.grant
<1>1. /\ at = "asked midway" /\ at' = "vetted" /\ Choose(choice)
      /\ agreed' = agreed \cup {Consent(question)}
      /\ Approve(hop.origin, g.internal)
      /\ UNCHANGED <<where, hop, callGrant, call, question, touched, standing>>
  BY DEF AllowMidway, worldVars, fetchVars
<1>2. Typed /\ Standing /\ TouchedWithinConsent /\ Contained /\ Shaped
  BY <1>1 DEF CallInv
<1>3. PICK internal \in BOOLEAN : g = OriginGrant(hop.origin, internal)
                                 /\ (hop.address = "internal" => internal)
  BY <1>1 DEF CallInv
<1>4. g.internal = internal /\ g.tool = "fetch_url" /\ g.origin = hop.origin
  BY <1>3 DEF OriginGrant, Grant
<1>5. /\ Grants' \subseteq Grants \cup ({question.grant} \ {Unset})
      /\ allowAll' = allowAll /\ remote' = remote /\ managed' = managed
      /\ sessionGrants' \subseteq AllGrants /\ savedGrants' \subseteq AllGrants
      /\ rules' \subseteq AllGrants
  BY <1>1, <1>2, ChooseFacts
<1>6. agreed \subseteq agreed' /\ Allowed \subseteq Allowed' /\ (g # Unset => g \in Allowed')
  BY <1>1 DEF Allowed, Consent
<1>7. Typed'
  BY <1>1, <1>2, <1>5 DEF Typed
<1>8. Standing' /\ TouchedWithinConsent'
  BY <1>1, <1>2, <1>5, <1>6, ConsentStays DEF Standing, Busy
<1>9. standing.all \/ OriginWithin(Allowed', hop.origin, internal)
  <2>1. hop.origin \in Origins
    BY <1>1, <1>2 DEF CallInv, Shaped
  <2>2. g # Unset
    BY <1>3, <2>1, OriginGrantFacts
  <2> QED
    BY <1>4, <1>6, <2>2 DEF OriginWithin
<1>10. Contained' /\ Shaped'
  <2>1. Approve(hop.origin, internal)
    BY <1>1, <1>4
  <2> QED
    BY <1>1, <1>2, <1>5, <1>6, <1>9, <2>1, Widened DEF Shaped
<1>11. standing'.all \/ OriginWithin(Allowed', hop.origin, hop.address = "internal")
  BY <1>1, <1>3, <1>9 DEF OriginWithin
<1> QED
  BY <1>1, <1>7, <1>8, <1>10, <1>11 DEF CallInv
LEMMA ConnectStep ==
  ASSUME CallInv, Connect
  PROVE  CallInv'
<1> DEFINE there == [tool |-> "fetch_url", place |-> hop]
<1>1. /\ at = "vetted" /\ touched' = there
      /\ UNCHANGED <<policyVars, where, callGrant, standing, agreed>>
      /\ \/ at' = "idle" /\ question' = NoPrompt
         \/ /\ at' = "running" /\ UNCHANGED <<call, context, question>>
            /\ \E o \in Origins : hop' = [origin |-> o, address |-> Unset]
  BY DEF Connect, Finish, Quiet, worldVars, ghostVars
<1>2. /\ Typed /\ Standing /\ Contained /\ Shaped
      /\ standing.all \/ OriginWithin(Allowed, hop.origin, hop.address = "internal")
  BY <1>1 DEF CallInv
<1>3. Grants' = Grants /\ allowAll' = allowAll /\ remote' = remote
  BY <1>1, GrantsKept
<1>4. TouchedWithinConsent'
  <2>1. touched'.tool = "fetch_url" /\ touched'.place = hop
    BY <1>1
  <2>2. CASE standing.all
    BY <1>1, <2>2 DEF TouchedWithinConsent
  <2>3. CASE OriginWithin(Allowed, hop.origin, hop.address = "internal")
    <3>1. PICK g \in Allowed : /\ g.tool = "fetch_url" /\ g.origin = hop.origin
                               /\ (hop.address = "internal" => g.internal)
      BY <2>3 DEF OriginWithin
    <3>2. g \in standing'.grants \cup agreed'
      BY <1>1 DEF Allowed
    <3> QED
      BY <2>1, <3>1, <3>2 DEF TouchedWithinConsent
  <2> QED
    BY <1>2, <2>2, <2>3
<1>5. CASE at' = "idle" /\ question' = NoPrompt
  BY <1>1, <1>4, <1>5, Finishes
<1>6. CASE /\ at' = "running" /\ UNCHANGED <<call, context, question>>
           /\ \E o \in Origins : hop' = [origin |-> o, address |-> Unset]
  <2>1. hop' = [origin |-> hop'.origin, address |-> hop'.address] /\ hop'.origin \in Origins
    BY <1>6
  <2>2. Contained' /\ Shaped'
    BY <1>1, <1>2, <1>3, <1>6, <2>1, StaysContained
  <2>3. Typed'
    BY <1>1, <1>2, <1>6 DEF Typed, policyVars
  <2>4. Standing'
    BY <1>1, <1>2, <1>3 DEF Standing, Busy, Allowed
  <2> QED
    BY <1>4, <1>6, <2>2, <2>3, <2>4 DEF CallInv
<1> QED
  BY <1>1, <1>5, <1>6

\* A stop is a note for the steps to come, and so is what a name now stands for.
LEMMA NothingMoves ==
  ASSUME CallInv, Typed',
         UNCHANGED <<policyVars, call, at, question, callGrant, context, hop, touched, agreed,
                     standing>>
  PROVE  CallInv'
<1>1. Grants' = Grants /\ allowAll' = allowAll /\ remote' = remote
  BY GrantsKept
<1>2. Allowed' = Allowed
  BY DEF Allowed
<1>3. Standing' /\ TouchedWithinConsent'
  BY <1>1, <1>2, ConsentStays DEF CallInv, Standing, Busy
<1>4. (Asks' <=> Asks) /\ (Shaped' <=> Shaped)
  BY DEF Asks, Shaped
<1>5. Granted' <=> Granted
  BY <1>1, <1>2 DEF Granted, OwnGrant
<1>6. \A r : RootAllowed(r)' <=> RootAllowed(r)
  BY <1>1, <1>2 DEF RootAllowed
<1>7. Contained' <=> Contained
  BY <1>2, <1>6 DEF Contained
<1> QED
  BY <1>1, <1>2, <1>3, <1>4, <1>5, <1>7 DEF CallInv

LEMMA BetweenCalls ==
  ASSUME CallInv, at = "idle",
         UNCHANGED <<remote, where, call, at, question, touched, agreed, standing>>,
         savedGrants' = savedGrants, callGrant' \in {callGrant, Unset},
         sessionGrants' \subseteq AllGrants, rules' \subseteq AllGrants
  PROVE  CallInv'
<1>1. Typed'
  BY DEF CallInv, Typed
<1>2. TouchedWithinConsent'
  BY ConsentStays DEF CallInv
<1> QED
  BY <1>1, <1>2 DEF CallInv, Standing, Busy

LEMMA ChangeStep ==
  ASSUME CallInv, Change
  PROVE  CallInv'
<1>1. where' \in [Paths -> Targets \cup {Unset}]
  <2>1. where \in [Paths -> Targets \cup {Unset}]
    BY DEF CallInv, Typed
  <2> QED
    BY <2>1 DEF Change
<1>2. UNCHANGED <<policyVars, call, at, question, callGrant, context, hop, touched, agreed, standing>>
  BY DEF Change, fetchVars, ghostVars
<1>3. Typed'
  BY <1>1, <1>2 DEF CallInv, Typed, policyVars
<1> QED
  BY <1>2, <1>3, NothingMoves

LEMMA CallSteps ==
  ASSUME CallInv, [CallNext]_callVars
  PROVE  CallInv'
<1>1. ASSUME NEW c \in Calls, TakeCall(c) PROVE CallInv'
  BY <1>1, TakeCallStep
<1>2. ASSUME NEW choice, Allow(choice) PROVE CallInv'
  BY <1>2, AllowStep
<1>3. ASSUME NEW choice, AllowMidway(choice) PROVE CallInv'
  BY <1>3, AllowMidwayStep
<1>4. CASE RefuseCall
  BY <1>4, RefuseCallStep
<1>5. CASE RefuseMidway
  BY <1>5, RefuseMidwayStep
<1>6. CASE StartTool
  BY <1>6, StartToolStep
<1>7. CASE UseFile
  BY <1>7, UseFileStep
<1>8. CASE RunCommand
  BY <1>8, RunCommandStep
<1>9. CASE VetHop
  BY <1>9, VetHopStep
<1>10. CASE RefuseHop
  BY <1>10, RefuseHopStep
<1>11. CASE Connect
  BY <1>11, ConnectStep
<1>12. CASE StopReply
  <2>1. Typed'
    BY <1>12 DEF CallInv, Typed, StopReply, policyVars, worldVars
  <2> QED
    BY <1>12, <2>1, NothingMoves DEF StopReply, fetchVars, ghostVars
<1>13. CASE ApplyPermissions
  <2>1. rules' \subseteq AllGrants
    BY <1>13, CallAssumption DEF ApplyPermissions
  <2> QED
    BY <1>13, <2>1, BetweenCalls DEF ApplyPermissions, worldVars, ghostVars, CallInv, Typed
<1>14. CASE ResetPermissions
  BY <1>14, BetweenCalls DEF ResetPermissions, worldVars, ghostVars
<1>15. CASE Change
  BY <1>15, ChangeStep
<1>16. CASE UNCHANGED callVars
  <2>1. Typed'
    BY <1>16 DEF CallInv, Typed, callVars, policyVars, worldVars
  <2> QED
    BY <1>16, <2>1, NothingMoves DEF callVars, fetchVars, ghostVars
<1> QED
  BY <1>1, <1>2, <1>3, <1>4, <1>5, <1>6, <1>7, <1>8, <1>9, <1>10, <1>11, <1>12, <1>13, <1>14,
     <1>15, <1>16 DEF CallNext

\* Whatever a tool opens, writes, runs or connects to lies within what the user allows, by a
\* rule that stood when the call was decided or by an answer given for this call, although
\* symlinks and names move between _decide, the dialog, _run_tool and the tool's own checks.
THEOREM ToolsKeepToConsent == CallSpec => []TouchedWithinConsent
<1>1. CallInit => CallInv
  BY CallStarts
<1>2. CallInv /\ [CallNext]_callVars => CallInv'
  BY CallSteps
<1>3. CallInv => TouchedWithinConsent
  BY DEF CallInv
<1> QED
  BY <1>1, <1>2, <1>3, PTL DEF CallSpec

-----------------------------------------------------------------------------
(* The types of a call.                                                    *)

LEMMA CallBounds == MaxCalls \in Nat /\ MaxChanges \in Nat /\ MaxHops \in Nat
BY CallAssumption

LEMMA CallTypedInit ==
  ASSUME CallInit
  PROVE  CallTypeOK
<1>1. question \in [prompt : BOOLEAN, grant : AllGrants \cup {Unset}, scoped : BOOLEAN]
  BY CallStarts DEF CallInv, Typed
<1>2. hops \in 0..MaxHops /\ taken \in 0..MaxCalls /\ changes \in 0..MaxChanges
  BY CallBounds DEF CallInit
<1> QED
  BY <1>1, <1>2 DEF CallInit, CallTypeOK

\* What the tool is given is of directories and origins.
LEMMA ContextTyped ==
  ASSUME CallInv, at = "allowed", allowAll \in BOOLEAN
  PROVE  ToolContext(call, callGrant) \in Contexts
<1>1. Grants \subseteq AllGrants
  BY DEF CallInv, Typed, Grants, ParseGrants
<1>2. \A tool : Given(tool, callGrant) \subseteq AllGrants
  BY DEF CallInv, Typed, Given
<1>0. \A g \in AllGrants : g.dir \in Places /\ g.origin \in Origins \cup {Unset}
  BY DEF AllGrants
<1>3. \A tool : ReadRoots(tool, callGrant) \subseteq Places
  BY <1>0, <1>1, <1>2, ZenonT(30) DEF ReadRoots, Places
<1>4. FetchGrants(callGrant) \subseteq AllGrants
  BY <1>1, <1>2 DEF FetchGrants
<1>5. {x.dir : x \in Given("write_file", callGrant)} \subseteq Places
  BY <1>0, <1>2, Zenon
<1>6. {x.origin : x \in FetchGrants(callGrant)} \subseteq Origins \cup {Unset}
  BY <1>0, <1>4, Zenon
<1>7. {x.origin : x \in {y \in FetchGrants(callGrant) : y.internal}} \subseteq Origins \cup {Unset}
  BY <1>0, <1>4, Zenon
<1> QED
  BY <1>3, <1>5, <1>6, <1>7 DEF ToolContext, Contexts

\* An origin that is approved joins those the tool was given.
LEMMA ApproveTyped ==
  ASSUME context \in Contexts, NEW o \in Origins, NEW blocked, Approve(o, blocked)
  PROVE  context' \in Contexts
<1>1. context' = [context EXCEPT !.origins = context.origins \cup {o},
                    !.internal = IF blocked THEN context.internal \cup {o} ELSE context.internal]
  BY DEF Approve
<1> QED
  BY <1>1 DEF Contexts

\* The end of a call leaves nothing of it.
LEMMA FinishTyped ==
  ASSUME CallTypeOK, NEW x, Finish(x), taken' = taken, changes' = changes,
         allowAll' \in BOOLEAN, stopped' \in BOOLEAN
  PROVE  CallTypeOK'
<1>1. question' \in [prompt : BOOLEAN, grant : AllGrants \cup {Unset}, scoped : BOOLEAN]
  BY DEF Finish, NoPrompt
<1>2. hops' \in 0..MaxHops /\ taken' \in 0..MaxCalls /\ changes' \in 0..MaxChanges
  <2>1. taken \in 0..MaxCalls /\ changes \in 0..MaxChanges
    BY Zenon DEF CallTypeOK
  <2>2. hops' = 0
    BY Zenon DEF Finish
  <2> QED
    BY <2>1, <2>2, CallBounds
<1> QED
  BY <1>1, <1>2 DEF CallTypeOK, Finish

LEMMA TakeCallTyped ==
  ASSUME CallInv, CallTypeOK, NEW c \in Calls, TakeCall(c)
  PROVE  CallTypeOK'
<1>1. question' \in [prompt : BOOLEAN, grant : AllGrants \cup {Unset}, scoped : BOOLEAN]
  BY DecideFacts DEF CallInv, TakeCall
<1>2. call' = c /\ at' \in {"asked", "allowed"} /\ c # Unset
  BY CallAssumption DEF TakeCall
<1>3. hops' \in 0..MaxHops /\ taken' \in 0..MaxCalls /\ changes' \in 0..MaxChanges
  BY CallBounds DEF CallTypeOK, TakeCall, worldVars, fetchVars
<1>4. allowAll' = allowAll /\ stopped' = FALSE /\ context' = context
  BY DEF TakeCall, policyVars
<1>5. context = Unset
  BY DEF CallTypeOK, TakeCall
<1> QED
  BY <1>1, <1>2, <1>3, <1>4, <1>5 DEF CallTypeOK

LEMMA AllowTyped ==
  ASSUME CallInv, CallTypeOK, NEW choice, Allow(choice) \/ AllowMidway(choice)
  PROVE  CallTypeOK'
<1>1. allowAll' = allowAll
  BY DEF Allow, AllowMidway, Choose, Remember, policyVars
<1>2. CASE Allow(choice)
  BY <1>1, <1>2 DEF CallTypeOK, Allow, worldVars, fetchVars
<1>3. CASE AllowMidway(choice)
  <2>1. context \in Contexts /\ hop.origin \in Origins
    BY <1>3 DEF AllowMidway, CallTypeOK, CallInv, Shaped
  <2>2. context' \in Contexts
    BY <1>3, <2>1, ApproveTyped DEF AllowMidway
  <2> QED
    BY <1>1, <1>3, <2>2 DEF CallTypeOK, AllowMidway, worldVars, fetchVars
<1> QED
  BY <1>2, <1>3

LEMMA VetHopTyped ==
  ASSUME CallInv, CallTypeOK, VetHop
  PROVE  CallTypeOK'
<1>1. context \in Contexts /\ hop.origin \in Origins
  BY DEF VetHop, CallTypeOK, CallInv, Shaped
<1>2. context' \in Contexts
  <2>1. context' = context \/ \E blocked \in BOOLEAN : Approve(hop.origin, blocked)
    BY DEF VetHop
  <2> QED
    BY <1>1, <2>1, ApproveTyped
<1>3. question' \in [prompt : BOOLEAN, grant : AllGrants \cup {Unset}, scoped : BOOLEAN]
  BY VetHopStep DEF CallInv, Typed
<1>4. at' \in {"vetted", "asked midway"}
  BY DEF VetHop, Vetted
<1>5. UNCHANGED <<policyVars, worldVars, stopped, taken, call, hops>>
  BY DEF VetHop, Quiet
<1> QED
  BY <1>2, <1>3, <1>4, <1>5 DEF CallTypeOK, VetHop, policyVars, worldVars

LEMMA StartToolTyped ==
  ASSUME CallInv, CallTypeOK, StartTool
  PROVE  CallTypeOK'
<1>1. UNCHANGED <<policyVars, worldVars, stopped, taken>>
  BY DEF StartTool
<1>2. CASE stopped
  <2>1. Finish(Unset)
    BY <1>2 DEF StartTool
  <2> QED
    BY <1>1, <2>1, FinishTyped DEF CallTypeOK, policyVars, worldVars
<1>3. CASE ~stopped
  <2>1. context' \in Contexts
    BY <1>3, ContextTyped DEF StartTool, CallTypeOK
  <2>2. at' = "running" /\ UNCHANGED <<hops, call, question>>
    BY <1>3 DEF StartTool
  <2> QED
    BY <1>1, <2>1, <2>2 DEF CallTypeOK, StartTool, policyVars, worldVars
<1> QED
  BY <1>2, <1>3

LEMMA ConnectTyped ==
  ASSUME CallTypeOK, Connect
  PROVE  CallTypeOK'
<1>1. UNCHANGED <<policyVars, worldVars, stopped, taken>>
  BY DEF Connect, Quiet
<1>2. CASE \E x : Finish(x)
  BY <1>1, <1>2, FinishTyped DEF CallTypeOK, policyVars, worldVars
<1>3. CASE /\ hops < MaxHops /\ hops' = hops + 1 /\ at' = "running"
           /\ UNCHANGED <<call, context, question>>
  BY <1>1, <1>3, CallBounds DEF CallTypeOK, Connect, policyVars, worldVars
<1> QED
  BY <1>2, <1>3 DEF Connect

LEMMA CallTypedStep ==
  ASSUME CallInv, CallTypeOK, [CallNext]_callVars
  PROVE  CallTypeOK'
<1>1. ASSUME NEW c \in Calls, TakeCall(c) PROVE CallTypeOK'
  BY <1>1, TakeCallTyped
<1>2. ASSUME NEW choice, Allow(choice) \/ AllowMidway(choice) PROVE CallTypeOK'
  BY <1>2, AllowTyped
<1>3. CASE RefuseCall \/ RefuseMidway \/ UseFile \/ RunCommand \/ RefuseHop
  <2>1. \E x : Finish(x)
    BY <1>3 DEF RefuseCall, RefuseMidway, UseFile, RunCommand, RefuseHop
  <2>2. UNCHANGED <<policyVars, worldVars, stopped, taken>>
    BY <1>3 DEF RefuseCall, RefuseMidway, UseFile, RunCommand, RefuseHop, Quiet
  <2> QED
    BY <2>1, <2>2, FinishTyped DEF CallTypeOK, policyVars, worldVars
<1>4. CASE StartTool
  BY <1>4, StartToolTyped
<1>5. CASE VetHop
  BY <1>5, VetHopTyped
<1>6. CASE Connect
  BY <1>6, ConnectTyped
<1>7. CASE StopReply
  BY <1>7 DEF CallTypeOK, StopReply, policyVars, worldVars, fetchVars
<1>8. CASE ApplyPermissions
  BY <1>8 DEF CallTypeOK, ApplyPermissions, worldVars, fetchVars
<1>9. CASE ResetPermissions
  BY <1>9 DEF CallTypeOK, ResetPermissions, worldVars, fetchVars
<1>10. CASE Change
  <2>1. changes' \in 0..MaxChanges
    <3>1. changes \in 0..MaxChanges
      BY Zenon DEF CallTypeOK
    <3>2. changes < MaxChanges /\ changes' = changes + 1
      BY <1>10, Zenon DEF Change
    <3> QED
      BY <3>1, <3>2, CallBounds
  <2>2. UNCHANGED <<allowAll, hops, call, at, question, context, stopped, taken>>
    BY <1>10 DEF Change, policyVars, fetchVars
  <2> QED
    BY <2>1, <2>2 DEF CallTypeOK
<1>11. CASE UNCHANGED callVars
  BY <1>11 DEF CallTypeOK, callVars, policyVars, worldVars, fetchVars
<1> QED
  BY <1>1, <1>2, <1>3, <1>4, <1>5, <1>6, <1>7, <1>8, <1>9, <1>10, <1>11 DEF CallNext

\* The call in hand, its question and its context keep their types.
THEOREM CallTypeInvariant == CallSpec => []CallTypeOK
<1>1. CallInit => CallInv /\ CallTypeOK
  BY CallStarts, CallTypedInit
<1>2. CallInv /\ CallTypeOK /\ [CallNext]_callVars => CallInv' /\ CallTypeOK'
  BY CallSteps, CallTypedStep
<1> QED
  BY <1>1, <1>2, PTL DEF CallSpec

-----------------------------------------------------------------------------
(* The background tasks that tools start.                                  *)

\* A set of numbers that is not empty has a smallest one.
LEMMA SmallestOf ==
  ASSUME NEW S, S \subseteq Nat, S # {}
  PROVE  \E x \in S : \A y \in S : x <= y
<1>1. PICK x \in S : \A y \in S : ~(<<y, x>> \in OpToRel(<, Nat))
  BY NatLessThanWellFounded, WFMin, Zenon
<1>2. \A y \in S : ~(y < x)
  BY <1>1 DEF OpToRel
<1> QED
  BY <1>2

LEMMA TasksTyped == TasksInit => TasksTypeOK
BY TasksAssumption DEF TasksInit, TasksTypeOK

LEMMA TasksTypeStep == TasksTypeOK /\ [TasksNext]_taskVars => TasksTypeOK'
<1> SUFFICES ASSUME TasksTypeOK, [TasksNext]_taskVars PROVE TasksTypeOK'
  OBVIOUS
<1> USE DEF TasksTypeOK
<1>1. Pruned \in [Tasks -> Endings \cup {"unused", "running", "forgotten"}]
  BY DEF Pruned
<1>2. CASE UNCHANGED taskVars
  BY <1>2 DEF taskVars
<1>3. ASSUME NEW t \in Tasks, StartBackground(t) PROVE TasksTypeOK'
  BY <1>1, <1>3 DEF StartBackground
<1>4. ASSUME NEW t \in Tasks, Spawn(t) PROVE TasksTypeOK'
  BY <1>4 DEF Spawn
<1>5. ASSUME NEW t \in Tasks, RecordEnd(t) PROVE TasksTypeOK'
  BY <1>5 DEF RecordEnd
<1>6. ASSUME NEW t \in Tasks, NEW how \in Endings, Ends(t, how) PROVE TasksTypeOK'
  BY <1>6, TasksAssumption DEF Ends
<1>7. CASE CheckTask
  BY <1>1, <1>7 DEF CheckTask
<1>8. CASE TimePasses
  BY <1>8, TasksAssumption DEF TimePasses
<1> QED
  BY <1>2, <1>3, <1>4, <1>5, <1>6, <1>7, <1>8 DEF TasksNext

(* Why the table tells the truth and stays small: the times tasks end at    *)
(* are behind the clock and apart, so that among those that are not stale   *)
(* all but the limit have ended after the oldest.                           *)
Started == {t \in Tasks : table[t] # "unused"}
Newer(t) == {u \in EndedTasks : ended[u] > ended[t]}

TimesApart ==
  /\ \A t \in Tasks : ended[t] < clock
  /\ \A t \in EndedTasks : ended[t] > 0
  /\ \A t \in Tasks : process[t] \in Endings => ended[t] > 0
  /\ \A t, u \in Tasks : ended[t] = ended[u] /\ ended[t] > 0 => t = u
Outlived(t) ==
  \/ clock > ended[t] + Retention
  \/ Cardinality({u \in Tasks : ended[u] > ended[t]}) >= MaxFinished
TableTrue ==
  /\ \A t \in Tasks : process[t] \in Endings \cup {"starting", "alive"} <=> table[t] = "running"
  /\ \A t \in Tasks : table[t] = "unused" => ended[t] = 0
  /\ \A t \in Tasks : table[t] = "forgotten" => Outlived(t)
TableSmall ==
  /\ IsFiniteSet(Started)
  /\ Cardinality(RunningTasks) <= MaxRunning
  /\ Cardinality(EndedTasks \cup RunningTasks) <= MaxFinished + MaxRunning
TasksInv == TimesApart /\ TableTrue /\ TableSmall

LEMMA TasksInitInv == TasksInit => TasksInv
<1> SUFFICES ASSUME TasksInit PROVE TasksInv
  OBVIOUS
<1>1. Started = {} /\ RunningTasks = {} /\ EndedTasks = {}
  BY DEF TasksInit, Started, RunningTasks, EndedTasks, Endings
<1>2. TableSmall
  <2>1. EndedTasks \cup RunningTasks = {}
    BY <1>1
  <2> QED
    BY <1>1, <2>1, FS_EmptySet, TasksAssumption DEF TableSmall
<1>3. TimesApart
  BY <1>1 DEF TasksInit, TimesApart, Endings
<1>4. TableTrue
  BY DEF TasksInit, TableTrue, Endings
<1> QED
  BY <1>2, <1>3, <1>4 DEF TasksInv

\* The tasks that are not stale are few.
LEMMA FewAreKept ==
  ASSUME TasksTypeOK, TimesApart, IsFiniteSet(Started)
  PROVE  /\ IsFiniteSet(EndedTasks) /\ IsFiniteSet(EndedTasks \ Stale)
         /\ Cardinality(EndedTasks \ Stale) <= MaxFinished
<1> DEFINE kept == EndedTasks \ Stale
<1>1. EndedTasks \subseteq Started
  BY DEF EndedTasks, Started, Endings
<1>2. IsFiniteSet(EndedTasks) /\ IsFiniteSet(kept)
  <2>1. kept \subseteq Started
    BY <1>1
  <2> QED
    BY <1>1, <2>1, FS_Subset
<1>3. CASE kept = {}
  BY <1>2, <1>3, FS_EmptySet, TasksAssumption
<1>4. CASE kept # {}
  <2> DEFINE times == {ended[t] : t \in kept}
  <2>1. times \subseteq Nat /\ times # {}
    BY <1>4 DEF TasksTypeOK, EndedTasks
  <2>2. PICK x \in times : \A y \in times : x <= y
    BY <2>1, SmallestOf
  <2>3. PICK t \in kept : x = ended[t]
    OBVIOUS
  <2>4. kept \ {t} \subseteq Newer(t)
    <3> SUFFICES ASSUME NEW u \in kept, u # t PROVE ended[u] > ended[t]
      BY DEF Newer
    <3>1. ended[t] <= ended[u]
      BY <2>2, <2>3
    <3>2. ended[t] # ended[u]
      BY DEF TimesApart, EndedTasks
    <3> QED
      BY <3>1, <3>2 DEF TasksTypeOK, EndedTasks
  <2>5. IsFiniteSet(Newer(t))
    BY <1>2, FS_Subset DEF Newer
  <2>6. Cardinality(kept \ {t}) <= Cardinality(Newer(t))
    BY <2>4, <2>5, FS_Subset
  <2>7. ~(Cardinality(Newer(t)) >= MaxFinished)
    BY <2>3 DEF Stale, Newer
  <2>8. Cardinality(kept \ {t}) = Cardinality(kept) - 1
    BY <1>2, FS_RemoveElement
  <2>9. Cardinality(kept) \in Nat /\ Cardinality(Newer(t)) \in Nat
    BY <1>2, <2>5, FS_CardinalityType
  <2> QED
    BY <1>2, <2>6, <2>7, <2>8, <2>9, TasksAssumption
<1> QED
  BY <1>2, <1>3, <1>4

\* Pruning forgets only what has been outlived.
LEMMA PrunedTasks ==
  ASSUME TasksTypeOK, TasksInv
  PROVE  /\ \A t \in Tasks : Pruned[t] = "running" <=> table[t] = "running"
         /\ \A t \in Tasks : Pruned[t] = "unused" <=> table[t] = "unused"
         /\ \A t \in Tasks : Pruned[t] = "forgotten" => Outlived(t)
         /\ \A t \in Tasks : Pruned[t] \in Endings <=> t \in EndedTasks \ Stale
<1>1. \A t \in Stale : t \in EndedTasks
  BY DEF Stale
<1>2. ASSUME NEW t \in Stale PROVE Outlived(t)
  <2>1. CASE clock > ended[t] + Retention
    BY <2>1 DEF Outlived
  <2>2. CASE Cardinality(Newer(t)) >= MaxFinished
    <3> DEFINE later == {u \in Tasks : ended[u] > ended[t]}
    <3>1. later \subseteq Started
      BY DEF TasksInv, TableTrue, TasksTypeOK, Started, Stale, EndedTasks
    <3>2. IsFiniteSet(later)
      BY <3>1, FS_Subset DEF TasksInv, TableSmall
    <3>3. Newer(t) \subseteq later
      BY DEF Newer, EndedTasks
    <3>4. Cardinality(Newer(t)) <= Cardinality(later) /\ IsFiniteSet(Newer(t))
      BY <3>2, <3>3, FS_Subset
    <3>5. Cardinality(Newer(t)) \in Nat /\ Cardinality(later) \in Nat
      BY <3>2, <3>4, FS_CardinalityType
    <3> QED
      BY <2>2, <3>4, <3>5, TasksAssumption DEF Outlived
  <2> QED
    BY <2>1, <2>2 DEF Stale, Newer
<1>3. \A t \in Tasks : Pruned[t] = IF t \in Stale THEN "forgotten" ELSE table[t]
  BY DEF Pruned
<1> QED
  BY <1>1, <1>2, <1>3 DEF EndedTasks, Endings, TasksInv, TableTrue

\* What was outlived stays so while the clock and the ends of others go on.
LEMMA OutlivedStays ==
  ASSUME TasksTypeOK, TasksTypeOK', IsFiniteSet(Started)', NEW t \in Tasks, Outlived(t),
         clock <= clock', ended'[t] = ended[t], \A u \in Tasks : ended[u] <= ended'[u],
         \A u \in Tasks : ended'[u] > 0 => table'[u] # "unused"
  PROVE  Outlived(t)'
<1>1. CASE clock > ended[t] + Retention
  BY <1>1, TasksAssumption DEF Outlived, TasksTypeOK
<1>2. CASE Cardinality({u \in Tasks : ended[u] > ended[t]}) >= MaxFinished
  <2> DEFINE before == {u \in Tasks : ended[u] > ended[t]}
  <2> DEFINE after == {u \in Tasks : ended'[u] > ended'[t]}
  <2>1. before \subseteq after
    BY DEF TasksTypeOK
  <2>2. after \subseteq Started'
    BY DEF TasksTypeOK, Started
  <2>3. IsFiniteSet(after) /\ IsFiniteSet(before) /\ Cardinality(before) <= Cardinality(after)
    BY <2>1, <2>2, FS_Subset
  <2>4. Cardinality(before) \in Nat /\ Cardinality(after) \in Nat
    BY <2>3, FS_CardinalityType
  <2>5. Cardinality(after) >= MaxFinished
    BY <1>2, <2>3, <2>4, TasksAssumption
  <2> QED
    BY <2>5 DEF Outlived
<1> QED
  BY <1>1, <1>2 DEF Outlived

\* Pruning, with nothing else.
LEMMA PruneInv ==
  ASSUME TasksTypeOK, TasksTypeOK', TasksInv, table' = Pruned, UNCHANGED <<ended, process, clock>>
  PROVE  TasksInv'
<1>1. /\ \A t \in Tasks : Pruned[t] = "running" <=> table[t] = "running"
      /\ \A t \in Tasks : Pruned[t] = "unused" <=> table[t] = "unused"
      /\ \A t \in Tasks : Pruned[t] = "forgotten" => Outlived(t)
      /\ \A t \in Tasks : Pruned[t] \in Endings <=> t \in EndedTasks \ Stale
  BY PrunedTasks
<1>2. Started' = Started /\ RunningTasks' = RunningTasks /\ EndedTasks' \subseteq EndedTasks
  BY <1>1 DEF Started, RunningTasks, EndedTasks
<1>3. TimesApart'
  BY <1>2 DEF TasksInv, TimesApart
<1>4. \A t \in Tasks : Outlived(t) => Outlived(t)'
  BY DEF Outlived
<1>5. TableTrue'
  BY <1>1, <1>4 DEF TasksInv, TableTrue
<1>6. TableSmall'
  <2> DEFINE before == EndedTasks \cup RunningTasks
  <2> DEFINE after == EndedTasks' \cup RunningTasks'
  <2>1. after \subseteq before /\ before \subseteq Started
    BY <1>2 DEF Started, EndedTasks, RunningTasks, Endings
  <2>2. IsFiniteSet(before) /\ IsFiniteSet(after) /\ Cardinality(after) <= Cardinality(before)
    BY <2>1, FS_Subset DEF TasksInv, TableSmall
  <2>3. Cardinality(before) \in Nat /\ Cardinality(after) \in Nat
    BY <2>2, FS_CardinalityType
  <2> HIDE DEF before, after
  <2>4. Cardinality(before) <= MaxFinished + MaxRunning
    BY DEF TasksInv, TableSmall, before
  <2>5. Cardinality(after) <= MaxFinished + MaxRunning
    BY <2>2, <2>3, <2>4, TasksAssumption
  <2> QED
    BY <1>2, <2>5 DEF TasksInv, TableSmall, after
<1> QED
  BY <1>3, <1>5, <1>6 DEF TasksInv

\* A task that starts is one more that runs, beside those that pruning keeps.
LEMMA StartInv ==
  ASSUME TasksTypeOK, TasksTypeOK', TasksInv, NEW t \in Tasks, table[t] = "unused",
         ~(Cardinality(RunningTasks) >= MaxRunning),
         table' = [Pruned EXCEPT ![t] = "running"], process' = [process EXCEPT ![t] = "starting"],
         UNCHANGED <<ended, clock>>
  PROVE  TasksInv'
<1>1. /\ \A u \in Tasks : Pruned[u] = "running" <=> table[u] = "running"
      /\ \A u \in Tasks : Pruned[u] = "unused" <=> table[u] = "unused"
      /\ \A u \in Tasks : Pruned[u] = "forgotten" => Outlived(u)
      /\ \A u \in Tasks : Pruned[u] \in Endings <=> u \in EndedTasks \ Stale
  BY PrunedTasks
<1>2. /\ table'[t] = "running" /\ process'[t] = "starting"
      /\ \A u \in Tasks \ {t} : table'[u] = Pruned[u] /\ process'[u] = process[u]
  BY DEF Pruned, TasksTypeOK
<1>3. /\ RunningTasks' = RunningTasks \cup {t} /\ Started' = Started \cup {t}
      /\ EndedTasks' = EndedTasks \ Stale
  <2>1. RunningTasks' = RunningTasks \cup {t}
    BY <1>1, <1>2 DEF RunningTasks
  <2>2. Started' = Started \cup {t}
    BY <1>1, <1>2 DEF Started
  <2>3. t \notin EndedTasks /\ table'[t] \notin Endings
    BY <1>2 DEF EndedTasks, Endings
  <2>4. EndedTasks' = {u \in Tasks : table'[u] \in Endings}
    BY DEF EndedTasks, Endings
  <2>5. EndedTasks \subseteq Tasks
    BY DEF EndedTasks
  <2> QED
    BY <1>1, <1>2, <2>1, <2>2, <2>3, <2>4, <2>5
<1>4. TimesApart'
  BY <1>2, <1>3 DEF TasksInv, TimesApart, Endings
<1>5. \A u \in Tasks : Outlived(u) => Outlived(u)'
  BY DEF Outlived
<1>6. TableTrue'
  BY <1>1, <1>2, <1>5 DEF TasksInv, TableTrue
<1>7. TableSmall'
  <2>1. IsFiniteSet(Started')
    BY <1>3, FS_AddElement DEF TasksInv, TableSmall
  <2>2. IsFiniteSet(RunningTasks) /\ t \notin RunningTasks
    <3>1. RunningTasks \subseteq Started
      BY DEF RunningTasks, Started
    <3> QED
      BY <3>1, FS_Subset DEF TasksInv, TableSmall, RunningTasks
  <2>3. /\ IsFiniteSet(RunningTasks') /\ Cardinality(RunningTasks) \in Nat
        /\ Cardinality(RunningTasks') = Cardinality(RunningTasks) + 1
    BY <1>3, <2>2, FS_AddElement, FS_CardinalityType
  <2>4. Cardinality(RunningTasks') <= MaxRunning
    BY <2>3, TasksAssumption
  <2>5. IsFiniteSet(EndedTasks') /\ Cardinality(EndedTasks') <= MaxFinished
    BY <1>3, FewAreKept DEF TasksInv, TableSmall
  <2>6. /\ Cardinality(EndedTasks' \cup RunningTasks')
             <= Cardinality(EndedTasks') + Cardinality(RunningTasks')
        /\ IsFiniteSet(EndedTasks' \cup RunningTasks')
    <3> DEFINE E == EndedTasks'
    <3> DEFINE R == RunningTasks'
    <3>1. Cardinality(E \cap R) \in Nat
      BY <2>3, FS_Subset, FS_CardinalityType
    <3>2. IsFiniteSet(E \cup R) /\ Cardinality(E \cup R) = Cardinality(E) + Cardinality(R) - Cardinality(E \cap R)
      BY <2>3, <2>5, FS_Union
    <3>3. Cardinality(E) \in Nat /\ Cardinality(R) \in Nat
      BY <2>3, <2>5, FS_CardinalityType
    <3> HIDE DEF E, R
    <3>4. Cardinality(E \cup R) <= Cardinality(E) + Cardinality(R)
      BY <3>1, <3>2, <3>3
    <3> QED
      BY <3>2, <3>4 DEF E, R
  <2>7. /\ Cardinality(EndedTasks') \in Nat /\ Cardinality(RunningTasks') \in Nat
        /\ Cardinality(EndedTasks' \cup RunningTasks') \in Nat
    BY <2>3, <2>5, <2>6, FS_CardinalityType
  <2>8. Cardinality(EndedTasks' \cup RunningTasks') <= MaxFinished + MaxRunning
    BY <2>4, <2>5, <2>6, <2>7, TasksAssumption
  <2> QED
    BY <2>1, <2>4, <2>8 DEF TableSmall
<1> QED
  BY <1>4, <1>6, <1>7 DEF TasksInv

\* The end of a task is the last so far.
LEMMA EndsInv ==
  ASSUME TasksTypeOK, TasksTypeOK', TasksInv, NEW t \in Tasks, NEW how \in Endings, Ends(t, how)
  PROVE  TasksInv'
<1>1. /\ ended'[t] = clock /\ process'[t] = how /\ table[t] = "running" /\ clock' = clock + 1
      /\ \A u \in Tasks \ {t} : ended'[u] = ended[u] /\ process'[u] = process[u]
  BY ZenonT(60) DEF Ends, TasksTypeOK, TasksInv, TableTrue, Endings
<1>2. \A u \in Tasks : ended[u] \in Nat /\ ended[u] < clock /\ clock \in Nat /\ clock > 0
  BY DEF TasksTypeOK, TasksInv, TimesApart
<1>3. Started' = Started /\ RunningTasks' = RunningTasks /\ EndedTasks' = EndedTasks
      /\ t \notin EndedTasks
  BY <1>1 DEF Ends, Started, RunningTasks, EndedTasks, Endings
<1>4. TimesApart'
  <2>1. \A u \in Tasks : ended'[u] < clock'
    BY <1>1, <1>2
  <2>2. \A u \in EndedTasks' : ended'[u] > 0
    BY <1>1, <1>3 DEF TasksInv, TimesApart, EndedTasks
  <2>3. \A u \in Tasks : process'[u] \in Endings => ended'[u] > 0
    BY <1>1, <1>2 DEF TasksInv, TimesApart
  <2>4. \A u, v \in Tasks : ended'[u] = ended'[v] /\ ended'[u] > 0 => u = v
    BY <1>1, <1>2 DEF TasksInv, TimesApart
  <2> QED
    BY <2>1, <2>2, <2>3, <2>4 DEF TimesApart
<1>5. TableTrue'
  <2>1. \A u \in Tasks : process'[u] \in Endings \cup {"starting", "alive"} <=> table'[u] = "running"
    BY <1>1 DEF Ends, TasksInv, TableTrue
  <2>2. \A u \in Tasks : table'[u] = "unused" => ended'[u] = 0
    BY <1>1 DEF Ends, TasksInv, TableTrue
  <2>3. ASSUME NEW u \in Tasks, table'[u] = "forgotten" PROVE Outlived(u)'
    <3>1. u # t /\ Outlived(u)
      BY <1>1, <2>3 DEF Ends, TasksInv, TableTrue
    <3>2. \A v \in Tasks : ended[v] <= ended'[v]
      BY <1>1, <1>2
    <3>3. \A v \in Tasks : ended'[v] > 0 => table'[v] # "unused"
      BY <2>2
    <3>4. IsFiniteSet(Started)'
      BY <1>3 DEF TasksInv, TableSmall
    <3>5. clock <= clock'
      BY <1>1, <1>2
    <3> QED
      BY <1>1, <3>1, <3>2, <3>3, <3>4, <3>5, OutlivedStays
  <2> QED
    BY <2>1, <2>2, <2>3 DEF TableTrue
<1>6. TableSmall'
  BY <1>3 DEF TasksInv, TableSmall
<1> QED
  BY <1>4, <1>5, <1>6 DEF TasksInv

\* Recording an end moves a task from those that run to those that have ended.
LEMMA RecordEndInv ==
  ASSUME TasksTypeOK, TasksTypeOK', TasksInv, NEW t \in Tasks, RecordEnd(t)
  PROVE  TasksInv'
<1>1. /\ table[t] = "running" /\ table'[t] \in Endings /\ process'[t] = "gone" /\ ended[t] > 0
      /\ \A u \in Tasks \ {t} : table'[u] = table[u] /\ process'[u] = process[u]
      /\ UNCHANGED <<ended, clock>>
  BY DEF RecordEnd, TasksTypeOK, TasksInv, TableTrue, TimesApart
<1>2. /\ Started' = Started /\ RunningTasks' = RunningTasks \ {t}
      /\ EndedTasks' = EndedTasks \cup {t} /\ t \in RunningTasks
  BY <1>1 DEF Started, RunningTasks, EndedTasks, Endings
<1>3. TimesApart'
  BY <1>1, <1>2 DEF TasksInv, TimesApart, Endings
<1>4. \A u \in Tasks : Outlived(u) => Outlived(u)'
  BY <1>1 DEF Outlived
<1>5. TableTrue'
  BY <1>1, <1>4 DEF TasksInv, TableTrue, Endings
<1>6. TableSmall'
  <2>1. EndedTasks' \cup RunningTasks' = EndedTasks \cup RunningTasks
    BY <1>2
  <2>2. Cardinality(RunningTasks') <= MaxRunning
    <3>1. RunningTasks \subseteq Started
      BY DEF RunningTasks, Started
    <3>2. IsFiniteSet(RunningTasks)
      BY <3>1, FS_Subset DEF TasksInv, TableSmall
    <3>3. Cardinality(RunningTasks') = Cardinality(RunningTasks) - 1
      BY <1>2, <3>2, FS_RemoveElement
    <3>4. Cardinality(RunningTasks) \in Nat
      BY <3>2, FS_CardinalityType
    <3> QED
      BY <3>3, <3>4, TasksAssumption DEF TasksInv, TableSmall
  <2> QED
    BY <1>2, <2>1, <2>2 DEF TasksInv, TableSmall
<1> QED
  BY <1>3, <1>5, <1>6 DEF TasksInv

LEMMA TasksStep ==
  ASSUME TasksTypeOK, TasksInv, [TasksNext]_taskVars
  PROVE  TasksInv'
<1>0. TasksTypeOK'
  BY TasksTypeStep
<1>1. CASE UNCHANGED taskVars
  BY <1>1 DEF taskVars, TasksInv, TimesApart, TableTrue, TableSmall, Outlived, Started,
     RunningTasks, EndedTasks
<1>2. ASSUME NEW t \in Tasks, StartBackground(t) PROVE TasksInv'
  BY <1>0, <1>2, PruneInv, StartInv DEF StartBackground
<1>3. ASSUME NEW t \in Tasks, Spawn(t) PROVE TasksInv'
  <2>1. /\ process'[t] = "alive" /\ process[t] = "starting"
        /\ \A u \in Tasks \ {t} : process'[u] = process[u]
    BY <1>3 DEF Spawn, TasksTypeOK
  <2> QED
    BY <1>3, <2>1 DEF Spawn, TasksInv, TimesApart, TableTrue, TableSmall, Outlived, Started,
       RunningTasks, EndedTasks, Endings
<1>4. ASSUME NEW t \in Tasks, RecordEnd(t) PROVE TasksInv'
  BY <1>0, <1>4, RecordEndInv
<1>5. ASSUME NEW t \in Tasks, NEW how \in Endings, Ends(t, how) PROVE TasksInv'
  BY <1>0, <1>5, EndsInv
<1>6. CASE CheckTask
  BY <1>0, <1>6, PruneInv DEF CheckTask
<1>7. CASE TimePasses
  <2>1. clock < clock' /\ UNCHANGED <<table, ended, process>>
    BY <1>7 DEF TimePasses, TasksTypeOK
  <2>2. TimesApart'
    BY <1>0, <2>1 DEF TasksInv, TimesApart, TasksTypeOK, EndedTasks
  <2>3. \A u \in Tasks : Outlived(u) => Outlived(u)'
    BY <1>0, <2>1, TasksAssumption DEF Outlived, TasksTypeOK
  <2>4. TableTrue' /\ TableSmall'
    BY <2>1, <2>3 DEF TasksInv, TableTrue, TableSmall, Started, RunningTasks, EndedTasks
  <2> QED
    BY <2>2, <2>4 DEF TasksInv
<1> QED
  BY <1>1, <1>2, <1>3, <1>4, <1>5, <1>6, <1>7, Zenon DEF TasksNext

LEMMA TasksFollow == TasksTypeOK /\ TasksInv => TasksAreRemembered
<1> SUFFICES ASSUME TasksTypeOK, TasksInv PROVE TasksAreRemembered
  OBVIOUS
<1> DEFINE alive == {t \in Tasks : process[t] = "alive"}
<1>1. Cardinality(alive) <= MaxRunning
  <2>1. alive \subseteq RunningTasks /\ RunningTasks \subseteq Started
    BY DEF RunningTasks, Started, TasksInv, TableTrue
  <2>2. IsFiniteSet(RunningTasks) /\ IsFiniteSet(alive) /\ Cardinality(alive) <= Cardinality(RunningTasks)
    <3>1. IsFiniteSet(RunningTasks)
      BY <2>1, FS_Subset DEF TasksInv, TableSmall
    <3> QED
      BY <2>1, <3>1, FS_Subset
  <2>3. Cardinality(alive) \in Nat /\ Cardinality(RunningTasks) \in Nat
    BY <2>2, FS_CardinalityType
  <2> QED
    BY <2>2, <2>3, TasksAssumption DEF TasksInv, TableSmall
<1> QED
  BY <1>1 DEF TasksAreRemembered, TasksInv, TableTrue, TableSmall, Outlived

\* However many commands the model leaves running and however late their ends are
\* recorded, the table says of each what is true, keeps every answer as long as it
\* promises and holds no more entries than the two limits together.
THEOREM TasksAreRememberedInvariant == TasksSpec => []TasksAreRemembered
<1>1. TasksInit => TasksTypeOK /\ TasksInv
  BY TasksTyped, TasksInitInv
<1>2. TasksTypeOK /\ TasksInv /\ [TasksNext]_taskVars => TasksTypeOK' /\ TasksInv'
  BY TasksTypeStep, TasksStep
<1> QED
  BY <1>1, <1>2, TasksFollow, PTL DEF TasksSpec
=============================================================================
