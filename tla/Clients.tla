------------------------------- MODULE Clients -------------------------------
(***************************************************************************)
(* What runs around the server: the chat's turns, a tool call and its      *)
(* background tasks, the observe viewer's list and its detail pane, the    *)
(* integrations, the config file's reload, the speech worker, the model    *)
(* settings and a reply's readers.  They share no state in the models, so  *)
(* each is explored on its own, from its own initial states; `part` says   *)
(* which.                                                                  *)
(***************************************************************************)
EXTENDS ChatTurn, ToolCall, BackgroundTasks, ObservePages, DetailPane, Integrate,
        ConfigReload, Speech, ModelSettings, ReplyStream

VARIABLE part

allVars == <<chatVars, callVars, taskVars, pageVars, paneVars, integrateVars, reloadVars,
             speechVars, settingsVars, streamVars, part>>

-----------------------------------------------------------------------------
Init ==
  /\ part \in {"turn", "call", "tasks", "pages", "pane", "integrate", "reload", "speech",
               "settings", "stream"}
  /\ ChatInit /\ TasksInit /\ PageInit /\ PaneInit /\ ReloadInit
  /\ part # "call" => remote = FALSE /\ where = [x \in Paths |-> Unset]
  /\ CallInit
  /\ part # "integrate" => agent = "pi" /\ offered = Models
  /\ IntegrateInit
  /\ SpeechInit
  /\ part # "speech" => \A r \in Speeches : speech[r].voice = NoVoice
                                            /\ speech[r].text = CHOOSE t \in Texts : TRUE
  /\ part # "settings" => layers = CHOOSE early \in EarlySettings : TRUE
  /\ SettingsInit
  /\ part # "stream" => reply = CHOOSE s \in Replies : TRUE
  /\ StreamInit

Only(mine) ==
  /\ part = mine /\ part' = part
  /\ mine # "turn" => UNCHANGED chatVars
  /\ mine # "call" => UNCHANGED callVars
  /\ mine # "tasks" => UNCHANGED taskVars
  /\ mine # "pages" => UNCHANGED pageVars
  /\ mine # "pane" => UNCHANGED paneVars
  /\ mine # "integrate" => UNCHANGED integrateVars
  /\ mine # "reload" => UNCHANGED reloadVars
  /\ mine # "speech" => UNCHANGED speechVars
  /\ mine # "settings" => UNCHANGED settingsVars
  /\ mine # "stream" => UNCHANGED streamVars

Next ==
  \/ Only("turn")      /\ ChatNext
  \/ Only("call")      /\ CallNext
  \/ Only("tasks")     /\ TasksNext
  \/ Only("pages")     /\ PageNext
  \/ Only("pane")      /\ PaneNext
  \/ Only("integrate") /\ IntegrateNext
  \/ Only("reload")    /\ ReloadNext
  \/ Only("speech")    /\ SpeechNext
  \/ Only("settings")  /\ SettingsNext
  \/ Only("stream")    /\ StreamNext

\* Of the fair actions only a page's are enabled in the initial state, so these alone have
\* to say which part they belong to.
Fairness ==
  /\ ChatFairness /\ CallFairness /\ PaneFairness /\ ReloadFairness
  /\ WF_pageVars(part = "pages" /\ Debounced)
  /\ WF_pageVars(part = "pages" /\ ScanStep)
  /\ WF_pageVars(part = "pages" /\ LoopStep)

Spec == Init /\ [][Next]_allVars /\ Fairness

-----------------------------------------------------------------------------
\* Type invariants of the parts.
TypeOK ==
  /\ part = "turn" => ChatTypeOK
  /\ part = "call" => CallTypeOK
  /\ part = "tasks" => TasksTypeOK
  /\ part = "pages" => PagesTypeOK
  /\ part = "pane" => PaneTypeOK
  /\ part = "integrate" => IntegrateTypeOK
  /\ part = "reload" => ReloadTypeOK
  /\ part = "speech" => SpeechTypeOK
  /\ part = "settings" => SettingsTypeOK
  /\ part = "stream" => StreamTypeOK

\* What `drove observe` shows is true: the list answers what was asked last, lacks no
\* record that was there all the while (but those below a directory with records of its
\* own, which the code never lists) and is never forgotten, and the pane beside it shows
\* the record chosen last.
ScreenIsTrue ==
  /\ part = "pages" => PageIsCurrent /\ PageHasNoGaps /\ NothingForgotten
  /\ part = "pane" => PaneShowsLast

\* Config files hold what was put there: what `drove integrate` says of the agents' files is
\* true, what they held can be had back, and they select no model of drove's that is not
\* there; a model's setting stays until it is set again; a field of config.toml that needs
\* a restart waits for one.
ConfigsHold ==
  /\ part = "integrate" => WrittenOrReported /\ NothingLost /\ SelectionsRegistered
  /\ part = "settings" => SettingsSurvive
  /\ part = "reload" => FixedUntilRestart

\* Whoever reads the same thing apart reads it alike: a record is the reply as the chat read
\* it, with the tokens it reported, and an agent is told of a model what its backend gets.
ReadersAgree ==
  /\ part = "stream" => RecordIsFaithful /\ TokensAreTheLast
  /\ part = "settings" => DescribedAsServed

\* A stop gives the chat back, and a tool that waits for an answer; a page that is asked
\* for arrives and a record that is chosen is shown; the proxy ends up with its config file.
\* As one part moves alone, this is the conjunction of the parts' properties.
EverythingSettles ==
  []<>(/\ NotStopping /\ NoToolStopped /\ CaughtUp
       /\ part = "pages" => PageThere
       /\ unmounted \/ AllDone)
=============================================================================
