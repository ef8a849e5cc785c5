------------------------------ MODULE ChatTurn ------------------------------
(***************************************************************************)
(* `drove chat`: one reply at a time (a turn), the prompts queued behind   *)
(* it, the tools it calls in a thread, and the commands that change the    *)
(* session under it.  Everything but the tool's thread runs on one event   *)
(* loop: an action is what happens between two awaits.                     *)
(***************************************************************************)
EXTENDS Integers, Sequences, FiniteSets, SequencesExt

CONSTANTS
  Batches,      \* sequences of call ids a reply may make; ids recur between replies
  ChatModels,
  FirstModel,
  MaxPrompts,   \* bound: prompts typed
  MaxSessions,  \* bound: sessions opened
  MaxBatches,   \* bound: replies that call tools
  MaxCommands,  \* bound: /new, /sessions, /model and /save, together
  MaxFailures,  \* bound: streams, tools and saves that fail, together
  MaxEvents,    \* bound: prompts, batches, commands and failures, together
  Nobody

ASSUME ChatAssumption ==
  /\ (\A b \in Batches : b \in Seq(ToSet(b)) \ {<<>>} /\ IsInjective(b))
  /\ FirstModel \in ChatModels
  /\ MaxSessions \in Nat \ {0} /\ {MaxPrompts, MaxBatches, MaxCommands, MaxFailures, MaxEvents}
       \subseteq Nat
  /\ Nobody \notin Nat \cup ChatModels

\* A reply being made; `at` is the await it stands at.
TurnPlaces == {"created", "streaming", "showing", "asking", "failing", "running", "unsaved",
               "interrupted"}
Turns ==
  [session : Nat, prompt : Nat, at : TurnPlaces, stop : BOOLEAN, text : BOOLEAN,
   calls : Batches \cup {<<>>}, committed : BOOLEAN, done : Nat]

ASSUME NobodyAssumption == Nobody \notin Turns

VARIABLES
  current,    \* _session, a number
  chatModel,  \* _model
  modelOf,    \* the model of each session opened so far
  history,    \* its messages in memory
  saved,      \* its file: [msgs, draft], NoFile before the first save
  unwritten,  \* sessions a turn could not save in the end, nor anyone since
  drafted,    \* sessions resumed from a file saved in mid-turn
  turn,       \* _turn, Nobody when is_generating is false
  queue,      \* _queue
  paused,     \* _queue_paused
  submitted,  \* how many prompts were typed
  begun,      \* the prompts that were sent, in order
  thread,     \* the session whose tool a thread executes, or Nobody
  batches,    \* how many replies called tools
  commands, failures,
  clearing,   \* /new waits for the transcript to be removed
  browsing,   \* /sessions: "no", its picker is open, the chosen one loads
  choosing,   \* /model: "no", "fetching", its picker is open, "switching"
  moved,      \* /new or /sessions ended under a reply that began after
              \* they had seen none
  quitting,   \* _quit_requested
  closed      \* the application has exited

session == <<current, chatModel, modelOf, history, saved, unwritten, drafted>>
waiting == <<queue, paused, submitted, begun>>
command == <<clearing, browsing, choosing, moved, commands>>
ending  == <<quitting, closed>>
chatVars == <<session, waiting, command, ending, turn, thread, batches, failures>>

User(p)      == [role |-> "user", prompt |-> p]
Assistant(c) == [role |-> "assistant", calls |-> c]
Result(c, r) == [role |-> "tool", id |-> c, result |-> r]
NoFile       == [missing |-> TRUE]

Generating == turn # Nobody
Stopping   == Generating /\ turn.stop
Modal      == browsing = "picking" \/ choosing = "picking"
              \/ (Generating /\ turn.at = "asking")

ChatInit ==
  /\ current = 1 /\ chatModel = FirstModel /\ modelOf = <<FirstModel>>
  /\ history = <<<<>>>> /\ saved = <<NoFile>> /\ unwritten = {} /\ drafted = {}
  /\ turn = Nobody /\ thread = Nobody /\ batches = 0 /\ commands = 0 /\ failures = 0
  /\ queue = <<>> /\ paused = FALSE /\ submitted = 0 /\ begun = <<>>
  /\ clearing = FALSE /\ browsing = "no" /\ choosing = "no" /\ moved = FALSE
  /\ quitting = FALSE /\ closed = FALSE

Room == submitted + batches + commands + failures < MaxEvents

-----------------------------------------------------------------------------
(* Starting a turn.                                                        *)

Others == <<current, chatModel, modelOf, drafted, submitted, command, quitting>>

NewTurn(p) ==
  [session |-> current, prompt |-> p, at |-> "created", stop |-> FALSE,
   text |-> FALSE, calls |-> <<>>, committed |-> FALSE, done |-> 0]

\* _start_turn, with `rest` left in the queue, `h` the histories before it, and whether
\* the queue was paused.
StartTurn(p, rest, h, hold) ==
  /\ turn' = NewTurn(p)
  /\ history' = [h EXCEPT ![current] = Append(@, User(p))]
  /\ queue' = rest
  /\ paused' = (hold /\ rest # <<>>)
  /\ begun' = Append(begun, p)

AtPrompt == ~closed /\ ~Modal

SubmitOverQueue ==  \* mutant: a paused queue is overtaken
  /\ AtPrompt /\ choosing = "no" /\ submitted < MaxPrompts /\ Room
  /\ submitted' = submitted + 1
  /\ IF Generating
     THEN /\ queue' = Append(queue, submitted + 1)
          /\ UNCHANGED <<turn, history, paused, begun>>
     ELSE StartTurn(submitted + 1, queue, history, paused)
  /\ UNCHANGED <<current, chatModel, modelOf, saved, unwritten, drafted,
                 thread, batches, failures, command, ending>>

Submit ==
  /\ AtPrompt /\ choosing = "no" /\ submitted < MaxPrompts /\ Room
  /\ submitted' = submitted + 1
  /\ IF Generating \/ queue # <<>>
     THEN /\ queue' = Append(queue, submitted + 1)
          /\ UNCHANGED <<turn, history, paused, begun>>
     ELSE StartTurn(submitted + 1, <<>>, history, paused)
  /\ UNCHANGED <<current, chatModel, modelOf, saved, unwritten, drafted,
                 thread, batches, failures, command, ending>>

ResumeOnce ==  \* mutant: the queue stays paused behind the prompt it sends
  /\ AtPrompt /\ ~Generating /\ queue # <<>>
  /\ StartTurn(Head(queue), Tail(queue), history, paused)
  /\ UNCHANGED <<current, chatModel, modelOf, saved, unwritten, drafted, submitted,
                 thread, batches, failures, command, ending>>

Resume ==  \* its button shows only over a queue and no reply
  /\ AtPrompt /\ ~Generating /\ queue # <<>>
  /\ StartTurn(Head(queue), Tail(queue), history, FALSE)
  /\ UNCHANGED <<current, chatModel, modelOf, saved, unwritten, drafted, submitted,
                 thread, batches, failures, command, ending>>

CancelQueued(i) ==
  /\ AtPrompt
  /\ queue' = RemoveAt(queue, i)
  /\ UNCHANGED <<session, turn, paused, submitted, begun, thread, batches, failures, command, ending>>

RequestStop ==
  /\ turn' = [turn EXCEPT !.stop = TRUE,
                          !.at = IF @ = "unsaved" THEN "interrupted" ELSE @]
  /\ paused' = TRUE

Stop ==
  /\ AtPrompt /\ Generating /\ ~turn.stop
  /\ RequestStop
  /\ UNCHANGED <<session, queue, submitted, begun, thread, batches, failures, command, ending>>

Quit ==  \* a priority key: dialogs do not catch it
  /\ ~closed
  /\ IF Generating
     THEN /\ quitting' = TRUE /\ closed' = closed
          /\ IF turn.stop THEN UNCHANGED <<turn, paused>> ELSE RequestStop
     ELSE closed' = TRUE /\ UNCHANGED <<quitting, turn, paused>>
  /\ UNCHANGED <<session, queue, submitted, begun, thread, batches, failures, command>>

-----------------------------------------------------------------------------
(* The end of a turn: the finally block of _send_message.                  *)

CommitDraft(t, h) == IF t.committed THEN h ELSE Append(h, Assistant(t.calls))

LastReply(h) == CHOOSE i \in DOMAIN h :
  h[i].role = "assistant" /\ \A j \in i+1..Len(h) : h[j].role # "assistant"

\* Every call that is not among the completed ones is answered, one after the other.
AnswerRest(calls, completed, h) ==
  LET answered[n \in 0..Len(calls)] ==
        IF n = 0 THEN h
        ELSE IF calls[n] \in completed THEN answered[n - 1]
        ELSE Append(answered[n - 1], Result(calls[n], "not run"))
  IN  answered[Len(calls)]

FinishByIds(t, h) ==  \* mutant: an earlier batch's result satisfies this one's call
  AnswerRest(t.calls, {h[i].id : i \in {j \in DOMAIN h : h[j].role = "tool"}}, h)

\* A call without a result after its own batch gets one that says so.
FinishToolHistory(t, h) ==
  AnswerRest(t.calls, {h[i].id : i \in LastReply(h)+1..Len(h)}, h)

Settled(t, ok, h) ==
  IF t.stop THEN FinishToolHistory(t, CommitDraft(t, h))
  ELSE IF ok \/ ~(t.committed \/ t.text) THEN h
  ELSE FinishToolHistory(t, CommitDraft(t, h))

\* Give up the turn; leave, send the next prompt, or wait for the user.
Release(t, ok, h) ==
  /\ closed' = (quitting /\ t.at # "interrupted")
  /\ IF ok /\ ~t.stop /\ ~quitting /\ ~paused /\ queue # <<>>
     THEN StartTurn(Head(queue), Tail(queue), h, paused)
     ELSE /\ turn' = Nobody /\ history' = h
          /\ paused' = (paused \/ t.stop)
          /\ UNCHANGED <<queue, begun>>

Failure == failures < MaxFailures /\ Room /\ failures' = failures + 1

WriteCurrent(s, h) ==  \* mutant: what was said goes to the session on the screen
  /\ saved' = [saved EXCEPT ![current] = [msgs |-> h, draft |-> s \in drafted]]
  /\ unwritten' = unwritten \ {s}

Write(s, h) ==  \* _save_turn and save_session: all of the session `s`, in its own file
  /\ saved' = [saved EXCEPT ![s] = [msgs |-> h, draft |-> s \in drafted]]
  /\ unwritten' = unwritten \ {s}

EndTurn(t, ok, h) ==
  LET g == [h EXCEPT ![t.session] = Settled(t, ok, @)]
  IN  \/ /\ Write(t.session, g[t.session])
         /\ Release(t, ok, g)
         /\ UNCHANGED failures
      \/ /\ Failure
         /\ unwritten' = unwritten \cup {t.session}
         /\ turn' = [t EXCEPT !.at = "unsaved", !.committed = @ \/ t.stop \/ t.text]
         /\ history' = g /\ paused' = TRUE
         /\ UNCHANGED <<saved, queue, begun, closed>>

Unsaved ==  \* the error bubble is mounted, or a late stop interrupts that
  /\ Generating /\ ~closed /\ turn.at \in {"unsaved", "interrupted"}
  /\ Release([turn EXCEPT !.stop = FALSE], FALSE, history)
  /\ UNCHANGED <<Others, saved, unwritten, thread, batches, failures>>

-----------------------------------------------------------------------------
(* The turn itself: stream a reply, run the tools it calls, stream again.  *)

At(place) == Generating /\ ~closed /\ turn.at = place
NoEnd     == UNCHANGED <<saved, unwritten, queue, paused, begun, closed, failures>>

TurnStarts ==
  /\ At("created") /\ ~turn.stop
  /\ turn' = [turn EXCEPT !.at = "streaming"]
  /\ NoEnd /\ UNCHANGED <<Others, history, thread, batches>>

ReplyEnds ==
  /\ At("streaming") /\ ~turn.stop
  /\ EndTurn([turn EXCEPT !.committed = TRUE], TRUE,
             [history EXCEPT ![turn.session] = Append(@, Assistant(<<>>))])
  /\ UNCHANGED <<Others, thread, batches>>

CallsArrive(calls) ==
  /\ At("streaming") /\ ~turn.stop /\ batches < MaxBatches /\ Room
  /\ batches' = batches + 1
  /\ turn' = [turn EXCEPT !.at = "showing", !.calls = calls, !.committed = TRUE, !.done = 0]
  /\ history' = [history EXCEPT ![turn.session] = Append(@, Assistant(calls))]
  /\ NoEnd /\ UNCHANGED <<Others, thread>>

StreamFails ==
  /\ At("streaming") /\ ~turn.stop /\ Failure
  /\ \E text \in BOOLEAN : turn' = [turn EXCEPT !.at = "failing", !.text = text]
  /\ paused' = TRUE
  /\ UNCHANGED <<Others, history, saved, unwritten, queue, begun, closed, thread, batches>>

AskUser ==
  /\ At("showing") /\ ~turn.stop
  /\ turn' = [turn EXCEPT !.at = "asking"]
  /\ NoEnd /\ UNCHANGED <<Others, history, thread, batches>>

RunToolAnyway ==  \* mutant: does not look at the stop again
  /\ At("showing") \/ At("asking")
  /\ turn' = [turn EXCEPT !.at = "running"]
  /\ thread' = turn.session
  /\ NoEnd /\ UNCHANGED <<Others, history, batches>>

RunTool ==  \* the policy lets it pass, or the user does
  /\ At("showing") \/ At("asking")
  /\ ~turn.stop
  /\ turn' = [turn EXCEPT !.at = "running"]
  /\ thread' = turn.session
  /\ NoEnd /\ UNCHANGED <<Others, history, batches>>

\* What the loop over the batch does after the result of a call.
NextCall(result) ==
  LET t == [turn EXCEPT !.done = @ + 1]
      h == [history EXCEPT ![t.session] = Append(@, Result(t.calls[t.done], result))]
  IN  IF t.stop THEN EndTurn(t, FALSE, h)
      ELSE /\ turn' = IF t.done < Len(t.calls) THEN [t EXCEPT !.at = "showing"]
                      ELSE [t EXCEPT !.at = "streaming", !.calls = <<>>,
                                     !.committed = FALSE, !.done = 0]
           /\ history' = h
           /\ NoEnd

Deny ==
  /\ At("asking") /\ ~turn.stop
  /\ NextCall("denied")
  /\ UNCHANGED <<Others, thread, batches>>

ToolReturns ==
  /\ At("running")
  /\ thread' = Nobody
  /\ NextCall("returned")
  /\ UNCHANGED <<Others, batches>>

ToolRaises ==
  /\ At("running") /\ Failure
  /\ thread' = Nobody
  /\ turn' = [turn EXCEPT !.at = "failing"] /\ paused' = TRUE
  /\ UNCHANGED <<Others, history, saved, unwritten, queue, begun, closed, batches>>

ErrorShown ==
  /\ At("failing") /\ ~turn.stop
  /\ EndTurn(turn, FALSE, history)
  /\ UNCHANGED <<Others, thread, batches>>

CancellableAtOnce ==  \* mutant: the tool's await is not shielded
  {"created", "streaming", "showing", "asking", "failing", "running"}

\* The cancelled worker runs: every await but the one on a tool's thread ends.
Cancellable == {"created", "streaming", "showing", "asking", "failing"}
TurnCancelled ==
  /\ \E place \in Cancellable : At(place)
  /\ turn.stop
  /\ EndTurn(turn, FALSE, history)
  /\ UNCHANGED <<Others, thread, batches>>

-----------------------------------------------------------------------------
(* The commands that change the session, each with an await in the middle. *)

Opened == Len(modelOf)
Idle   == ~Generating /\ queue = <<>>
Chat   == <<turn, thread, batches, failures, submitted, begun>>
Command == commands < MaxCommands /\ Room /\ commands' = commands + 1

NewSession(m) ==
  /\ modelOf' = Append(modelOf, m) /\ current' = Opened + 1
  /\ history' = Append(history, <<>>)
  /\ UNCHANGED drafted

NewChat ==  \* /new and /clear are refused during a reply; no one looks again
  /\ AtPrompt /\ Command /\ ~Generating /\ ~clearing /\ Opened < MaxSessions
  /\ clearing' = TRUE
  /\ UNCHANGED <<session, Chat, queue, paused, browsing, choosing, moved, ending>>

Cleared ==
  /\ clearing /\ ~closed /\ Opened < MaxSessions
  /\ clearing' = FALSE /\ moved' = (moved \/ Generating)
  /\ NewSession(chatModel)
  /\ saved' = Append(saved, NoFile) /\ UNCHANGED unwritten
  /\ queue' = <<>> /\ paused' = FALSE
  /\ UNCHANGED <<Chat, chatModel, browsing, choosing, commands, ending>>

Listed == {s \in 1..Opened : saved[s] # NoFile /\ modelOf[s] = chatModel}

BrowseSessions ==
  /\ AtPrompt /\ Command /\ ~Generating /\ browsing = "no" /\ Listed # {}
  /\ browsing' = "picking"
  /\ UNCHANGED <<session, Chat, queue, paused, clearing, choosing, moved, ending>>

PickAnySession(s) ==  \* mutant: trusts the list it was picked from
  /\ browsing = "picking" /\ choosing # "picking" /\ ~closed
  /\ saved[s] # NoFile
  /\ IF Generating
     THEN browsing' = "no" /\ UNCHANGED session
     ELSE /\ browsing' = "loading"
          /\ current' = s
          /\ history' = [history EXCEPT ![s] = saved[s].msgs]
          /\ drafted' = IF saved[s].draft THEN drafted \cup {s} ELSE drafted \ {s}
          /\ unwritten' = unwritten \ {s}
          /\ UNCHANGED <<chatModel, modelOf, saved>>
  /\ UNCHANGED <<Chat, queue, paused, clearing, choosing, moved, commands, ending>>

PickSession(s) ==
  /\ browsing = "picking" /\ choosing # "picking" /\ ~closed
  /\ saved[s] # NoFile
  /\ IF Generating \/ modelOf[s] # chatModel
     THEN browsing' = "no" /\ UNCHANGED session
     ELSE /\ browsing' = "loading"
          /\ current' = s
          /\ history' = [history EXCEPT ![s] = saved[s].msgs]
          /\ drafted' = IF saved[s].draft THEN drafted \cup {s} ELSE drafted \ {s}
          /\ unwritten' = unwritten \ {s}
          /\ UNCHANGED <<chatModel, modelOf, saved>>
  /\ UNCHANGED <<Chat, queue, paused, clearing, choosing, moved, commands, ending>>

Loaded ==
  /\ browsing = "loading" /\ ~closed
  /\ browsing' = "no" /\ moved' = (moved \/ Generating)
  /\ queue' = <<>> /\ paused' = FALSE
  /\ UNCHANGED <<session, Chat, clearing, choosing, commands, ending>>

LeaveSessions ==
  /\ browsing = "picking" /\ choosing # "picking" /\ ~closed
  /\ browsing' = "no"
  /\ UNCHANGED <<session, Chat, queue, paused, clearing, choosing, moved, commands, ending>>

ChooseModel ==
  /\ AtPrompt /\ Command /\ choosing = "no" /\ Idle /\ Opened < MaxSessions
  /\ choosing' = "fetching"
  /\ UNCHANGED <<session, Chat, queue, paused, clearing, browsing, moved, ending>>

ModelsFetched ==  \* or not: the endpoint may be down
  /\ choosing = "fetching" /\ ~closed
  /\ choosing' \in IF Idle THEN {"picking", "no"} ELSE {"no"}
  /\ UNCHANGED <<session, Chat, queue, paused, clearing, browsing, moved, commands, ending>>

PickModel(m) ==
  /\ choosing = "picking" /\ ~closed
  /\ m # chatModel /\ Idle /\ Opened < MaxSessions
  /\ choosing' = "switching" /\ chatModel' = m
  /\ NewSession(m)
  /\ saved' = Append([saved EXCEPT ![current] =
                        [msgs |-> history[current], draft |-> current \in drafted]], NoFile)
  /\ unwritten' = unwritten \ {current}
  /\ UNCHANGED <<Chat, queue, paused, clearing, browsing, moved, commands, ending>>

KeepModel ==  \* cancelled, refused, or the conversation could not be saved
  /\ choosing = "picking" /\ ~closed
  /\ choosing' = "no"
  /\ UNCHANGED <<session, Chat, queue, paused, clearing, browsing, moved, commands, ending>>

Switched ==
  /\ choosing = "switching" /\ ~closed
  /\ choosing' = "no"
  /\ UNCHANGED <<session, Chat, queue, paused, clearing, browsing, moved, commands, ending>>

\* /save: in mid-turn the draft goes with it, and calls that have no result yet.
Save ==
  /\ AtPrompt /\ Command
  /\ LET s == IF Generating THEN turn.session ELSE current
         h == IF Generating THEN CommitDraft(turn, history[s]) ELSE history[s]
     IN  /\ saved' = [saved EXCEPT ![s] = [msgs |-> h,
           draft |-> s \in drafted \/ (Generating /\ turn.calls # <<>>)]]
         /\ unwritten' = IF Generating THEN unwritten ELSE unwritten \ {s}
  /\ UNCHANGED <<current, chatModel, modelOf, history, drafted,
                 Chat, queue, paused, clearing, browsing, choosing, moved, ending>>

-----------------------------------------------------------------------------
Worker ==
  \/ TurnStarts \/ ReplyEnds \/ StreamFails
  \/ \E calls \in Batches : CallsArrive(calls)
  \/ AskUser \/ RunTool \/ Deny \/ ToolReturns \/ ToolRaises
  \/ ErrorShown \/ TurnCancelled \/ Unsaved

Keyboard ==
  \/ Submit \/ Resume \/ Stop \/ Quit \/ Save
  \/ \E i \in DOMAIN queue : CancelQueued(i)

SessionCommands ==
  \/ NewChat \/ Cleared
  \/ BrowseSessions \/ Loaded \/ LeaveSessions
  \/ \E s \in 1..Opened : PickSession(s)
  \/ ChooseModel \/ ModelsFetched \/ KeepModel \/ Switched
  \/ \E m \in ChatModels : PickModel(m)

ChatNext == Worker \/ Keyboard \/ SessionCommands
ChatSpec == ChatInit /\ [][ChatNext]_chatVars

\* The loop runs what is ready, and a tool's thread ends: shell commands and
\* fetches have a timeout, an approval asked from the thread polls for the stop.
ChatFairness ==
  /\ WF_chatVars(TurnCancelled) /\ WF_chatVars(ErrorShown) /\ WF_chatVars(Unsaved)
  /\ WF_chatVars(ToolReturns \/ ToolRaises)
ChatFairSpec == ChatSpec /\ ChatFairness

-----------------------------------------------------------------------------
(* What must hold.                                                         *)

\* Type invariant of the chat's state.
ChatTypeOK ==
  /\ current \in 1..Opened /\ chatModel \in ChatModels
  /\ Len(history) = Opened /\ Len(saved) = Opened /\ unwritten \cup drafted \subseteq 1..Opened
  /\ submitted \in 0..MaxPrompts /\ batches \in 0..MaxBatches
  /\ commands \in 0..MaxCommands /\ failures \in 0..MaxFailures
  /\ ToSet(queue) \cup ToSet(begun) \subseteq 1..submitted
  /\ thread \in (1..Opened) \cup {Nobody}
  /\ Generating => turn \in Turns /\ turn.session \in 1..Opened
                   /\ turn.done \in 0..Len(turn.calls)
  /\ {paused, clearing, moved, quitting, closed} \subseteq BOOLEAN
  /\ browsing \in {"no", "picking", "loading"}
  /\ choosing \in {"no", "fetching", "picking", "switching"}

\* Every reply that called tools is followed by one result for each of its calls
\* and by no other result, however the turn ended and whatever ids earlier batches
\* used: an endpoint refuses a conversation without.  Sessions a turn is writing,
\* and those resumed from a draft saved between a call and its result, are exempt.
Paired(h) ==
  \A i \in DOMAIN h : h[i].role = "assistant" =>
    LET after == {j \in i+1..Len(h) : h[j].role # "tool"}
        last  == IF after = {} THEN Len(h) ELSE (CHOOSE j \in after : \A k \in after : j <= k) - 1
    IN  /\ last - i = Len(h[i].calls)
        /\ {h[j].id : j \in i+1..last} = ToSet(h[i].calls)
ToolResultsPaired ==
  \A s \in (1..Opened) \ drafted :
    (Generating /\ turn.session = s) \/ Paired(history[s])

PromptsInOrder ==
  LET line == begun \o queue IN \A i, j \in DOMAIN line : i < j => line[i] < line[j]
NoQueueStands == ~Generating /\ queue # <<>> /\ ~closed => paused \/ moved
QueueFlows ==
  Generating /\ paused => turn.stop \/ turn.at \in {"failing", "unsaved", "interrupted"}

\* Prompts are sent at most once and in the order they were typed, those that were
\* cancelled or cleared apart; and only a paused queue waits without a reply running,
\* unless a /new or /sessions still at work when the reply began has unpaused it.  A reply
\* pauses what waits behind it only by being stopped or failing: a queue that is resumed
\* flows on, prompt after prompt.
QueueDiscipline == PromptsInOrder /\ NoQueueStands /\ QueueFlows

\* A tool's thread always has its turn waiting for it: a stop, a crash of the reply or
\* leaving the chat never abandons a tool that is still at work.
NoAbandonedTool ==
  thread # Nobody => Generating /\ turn.at = "running" /\ turn.session = thread /\ ~closed

\* The session on the screen always talks to the model in use, through every overlap
\* of /new, /sessions and /model; and a session's file holds what its model was sent, but
\* for the draft a /save in mid-reply put last: all of it, once its reply has ended and
\* could be saved.
SessionMatchesModel == modelOf[current] = chatModel
AsSent(msgs, h) ==
  \A i \in DOMAIN msgs :
    (i \in DOMAIN h /\ h[i] = msgs[i]) \/ (i = Len(msgs) /\ msgs[i] = Assistant(<<>>))
Unsettled(s) == s \in unwritten \/ (Generating /\ turn.session = s)
FileIsSession(s) ==
  /\ saved[s] # NoFile => AsSent(saved[s].msgs, history[s])
  /\ ~Unsettled(s) => IF saved[s] = NoFile THEN history[s] = <<>> ELSE saved[s].msgs = history[s]
SessionsAreKept == SessionMatchesModel /\ \A s \in 1..Opened : FileIsSession(s)

\* Once a reply is being stopped it starts no tool, asks the model for nothing more,
\* and its end sends no queued prompt.
StopHolds ==
  [][Stopping => /\ begun' = begun /\ batches' = batches
                 /\ thread' \in {thread, Nobody}]_chatVars

\* A stop always gives the chat back: through dialogs, tools, errors and failed saves.
NotStopping == ~Stopping \/ closed
StopSettles == []<>NotStopping

=============================================================================
