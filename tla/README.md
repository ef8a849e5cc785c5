# A verification of drove

drove serves local language and audio models behind one OpenAI-compatible HTTP
port. An asyncio proxy starts a backend process per model on demand, streams
requests through to it, and evicts or idles models out under a count and a memory
budget; around that there is a command line, a downloader, a model store, an
observe mode that records requests, and a terminal chat with tools.

This directory holds TLA+ modules translated from the source in
`src/src/drove/`, TLC configurations that check them on small instances, and
proofs, checked by TLAPS, that hold for any number of requests, models, backends,
files, prompts and tool calls. `PROJECT.json` maps every definition to the lines it
stands for, and lists the runs, the mutants that show each property can fail, the
hazards of the code and the theorems.

Run `tlc -config ServerManager_core.cfg MCServerManager.tla` (likewise for every
other `X_name.cfg` with `MCX.tla`), and `tlapm XProofs.tla`. Sections 2 to 4 say what
is modelled, checked and proved; section 5 lists what was noticed on the way, section 6
what is left out.

## 1. The system

| Component (source) | State | Operations | What is hard | What makes it correct |
| --- | --- | --- | --- | --- |
| ServerManager (`server_manager.py`) | `_instances`, `_idle_tasks`, `_starting`, one lock; per instance its process, `active_requests`, `config_mtimes` | `ensure_running`, `fallback_model`, `request_started/finished`, `_start`, `_evict_if_needed`, `_idle_watcher`, `stop`, `stop_model` | a lock that is *released inside* its own `async with` during health waits and drains; crashes, cancellation at every await; edits of a model's config meanwhile | a claim is only on a ready instance and protects it; starts settle; budgets hold; no process is lost; the maps agree |
| Proxy (`proxy.py`, `stats.py`) | per request a claim, a send task, a disconnect watcher, a clean-up task; total/active/error counters; the observe writer's pending tasks | `proxy`, `_forward`, `_send_unless_disconnected`, `_discard_send`, `_counting_stream`, `_ObserveWriter`, the lifespan | two tasks racing, handlers cancelled at any await, generators abandoned before their first step | claim and counter are settled exactly once; nothing runs or stays open after its handler; no record lost at shutdown |
| Config reload (`proxy.py`, `config.py`) | the merged `Config`, the watched mtimes | `_config_watcher`, SIGHUP, `_reload_config` | polls, signals and writers in any order; replaced under requests in flight (not modelled) | restart-only fields stay, the last edit wins |
| Prompt cache (`server_manager.py`) | slot files per model | save at stop, restore at start, expiry, pruning | a save overtaking a restore | only a ready backend's cache is saved |
| Downloads and store (`downloader.py`, `download_state.py`, `model_store.py`, `gguf.py`, `model_config.py`) | files, a state record per destination | `download_model`, listing, removal | kill and rerun, two downloads of one directory, size checks | never listed complete with files missing |
| Observe (`observe.py`, `observe_tui.py`, `observe_web.py`) | record files by date; the TUI's page, generation, pending request | write, list, page, search, prune | files pruned while paged, answers of older searches | a page lacks nothing that was there all the while (but what section 5 says), the last search wins |
| Config files (`config.py`, `model_config.py`) | one TOML file, sidecars | `set_config_value`, `add_allowed_tool`, `save_model_config` | unlocked read-modify-write by several processes | the proxy ends up with what was written last; a model's setting stays until it is set again, unless two writers overlap (then one's update may be lost: section 5) |
| Integrations (`integrations.py`, `cli/integrate.py`) | the agents' config files | `write_configs`, roll-back | failing half-way, failing to undo | old or new, or reported |
| A reply's readers (`tui.py`, `proxy.py`, `observe.py`) | lines heard; bytes kept for the record and for the token count | `_stream_chat`, `_counting_stream`, `_record_usage`, `_assemble_response` | three readers of one stream, two of them with a limit; chunks cut lines anywhere | the record and the count are what the chat was told |
| Chat (`tui.py`, `tools.py`, `tool_policy.py`, `permissions.py`, `sessions.py`) | history, the turn's task, queued prompts, pending tool calls, grants, background shells, session files | submit, stop, queue, resume, tool calls, approval, quit | tools in threads that cannot be cancelled, an approval asked across threads, stops at every await | history stays well-formed and is what is saved, one turn at a time, a queue flows on when resumed, a grant is used once |
| Audio workers (`workers/asr.py`, `workers/tts_runtime/`) | a loaded model; the voice of a shared engine, a lock | transcribe; split, speak, join | one engine for all requests, lack of GPU memory in the middle of a text | all of the text is spoken, in order, in the voice asked for |
| Command line, pickers, listings (`cli/*`, `chat_models.py`, `model_picker.py`, `backend.py`) | none of their own | parse, print | - | - |

How they interact: the proxy calls the manager (`ensure_running(claim=True)`,
`fallback_model`, `request_started`, `base_url_for`, `request_finished`, `stop`)
in the same event loop; the manager talks to its processes by HTTP health checks
and signals. The proxy hands records to a worker thread that writes files which
the observe viewers read and prune from other processes. The CLI, the chat and
the user all edit the config files the proxy reloads; the downloader and the
store share directories and state records. The chat is a client of the proxy.

`PROJECT.json` lists all of it under "components", and, under "hazards", what is
hard to test in it, at the line where it bites.

## 2. The modules

| Module | What it is |
| --- | --- |
| `BackendLease` | The abstract specification: what the manager promises its callers, with no lock, registry or task in it |
| `ServerManager` | The manager as the code runs it; it implements `BackendLease` |
| `Proxy` | Request handling, composed with the manager through `BackendLease` |
| `Download` | One model directory: the download and delete commands, the record, the store's verdict |
| `ChatTurn` | The chat's turns, prompts, stops, sessions and the commands that change them |
| `ToolCall` | A tool call: the policy, the question, the grants, what is touched |
| `BackgroundTasks` | The table of shell commands left running |
| `ReplyStream` | A reply cut into chunks, read by the chat, the token count and the record |
| `ObservePages` | Records on disk and the viewer's list of them |
| `DetailPane` | The pane beside that list |
| `Integrate` | `drove integrate`: several config files, backups, roll-back |
| `ConfigReload` | `config.toml`, its writers, and the proxy that reloads it |
| `ModelSettings` | A model's sidecar and `_global.toml`: merged, turned into flags, described, rewritten |
| `Speech` | The speech worker: splitting a text, one engine, recovery |
| `Clients` | The ten modules from `ChatTurn` to `Speech`, together |
| `MCServerManager`, `MCProxy`, `MCDownload`, `MCClients` | Instances for TLC: model values, estimates, symmetry |
| `ServerManagerProofs`, `LeaseProofs`, `ProxyProofs`, `DownloadProofs`, `ChatProofs`, `SpeechProofs`, `StreamProofs`, `ClientProofs` | The theorems and their proofs |

### BackendLease

Each backend is `off`, `starting`, `ready` or `dead` and stands for one model
(`name`); `lease[r]` is the backend a request holds. Leases are given on ready
backends only, a ready backend is taken down only when nobody leases it (or the
manager shuts down), at most `Limit` backends are up, at most one stands for a
model. A lease may outlive its backend only by the death of the process or by a
shutdown.

### ServerManager

The code is one event loop, so an action is the code between two awaits, with
every call in it; `pc[r]` names the await a request stands at. The manager's
three dictionaries are `registry`, `idleTasks` and `starting`; the instance a
request spawns is named after the request, because `_start` is the last thing a
call of `ensure_running` does and so spawns at most once. `locked` is
asyncio's flag: it has no owner, and a release hits whoever holds it, which is
what `LockDiscipline` is about.

| Actions | Code |
| --- | --- |
| `Arrive`, `EnsureRunning`, `StartSettled`, `EnsureRunningLocked`, `FallbackModel` | `ensure_running`: the fast path, the wait for another's start, the locked part; `fallback_model` |
| `PrepareStart`, `EvictIfNeeded`, `AnyStartSettled`, `Drained`, `Relock`, `Decide` | the stop of a stale or dead instance, the eviction loop, its waits with the lock released, `_reacquire_lock`, the second look at the registry |
| `BeginStart`, `Spawn`, `HealthSettles`, `Resume`, `StopReturns` | `_start`: read of the config, the process, the health wait without the lock, success, failure and cancellation, `_terminate` |
| `Finish` | `request_finished`, with its test for a replaced instance |
| `WatcherWakes`, `WatcherRelents`, `WatcherStops`, `WatcherStopReturns` | `_idle_watcher` |
| `Stop`, `StopModel`, `StopNext`, `StopperStopReturns` | `stop`, `stop_model` |
| `Cancel` | cancellation of a request's task at each await, with the `except`/`finally` that runs there |
| `Crash`, `EditConfig`, `ReplaceFiles` | a process dies; a sidecar is rewritten; a model is downloaded again |

Memory is counted as the code counts it. `size[m]` is what `_estimate_model_memory` would
make of model m's config and files at this moment, and an edit or a download may change it
at any time. `incoming[r]` is the estimate that request r evicts for, made before the first
await of the eviction; `est[b]` is the one its instance is counted with from then on, made
of the config read again in `_start` (a voice) or of the files after the spawn. The last
round of the eviction loop, which returns, and the look at the registry behind it are one
action (`Decide`): there is no await between them.

Abstractions, each an over-approximation: the LRU order (any eligible victim may
be chosen among idle ones first), the idle timeout and the health deadline (they
may pass at any time), ports, command lines and logs. An instance whose process
has died is stopped through the same awaiting path as a live one.

### Proxy

`at[r]` names the await a handler stands at. `send[r]`, `watch[r]` and
`cleanup[r]` are the tasks of its race between the upstream send and the client's
disconnect; they run beside the handler, and beside its cancellation. The manager
is an `INSTANCE` of `BackendLease` whose actions are conjoined with the proxy's
(`EnsureRunning` takes a lease, `ManagerStep` is what the manager does on its
own), so what is checked of the proxy rests on the promise and not on the
manager's code.

| Actions | Code |
| --- | --- |
| `Receive`, `Extract`, `EnsureRunning`, `FallbackModel` | `proxy`, `_extract_model`, `_forward` up to the claim |
| `BodyRead`, `BodyLost` | `request.body()`, `is_disconnected()`, and `base_url_for` *after* them |
| `SendReturns`, `WatchReturns`, `RaceEnds`, `HandOver`, `Cleanup`, `Discarded` | `_send_unless_disconnected`, `_discard_send`, `abandon`, the 502 |
| `ResponseStarts`, `Stream`, `StreamFinalized` | `StreamingResponse`, `_counting_stream` and its `finally` |
| `RecordWritten`, `ShutdownBegins`, `Drained`, `ManagerStopped` | `_ObserveWriter`, the lifespan |
| `Cancel`, `Leave` | the task is cancelled; the client leaves |

Two places stand for what Starlette and asyncio do with a response: `unsent`, a
response whose headers could not be sent, so that its generator never starts, and
`orphaned`, a generator dropped while suspended at its `yield`, which the event
loop's finalizer closes. Request bodies, headers, tokens and timings are left out.

### Download

A user runs one command at a time; commands of several users, or of one user's
terminals, share the directory without a lock. `at[u]` is the place of `u`'s
command between two writes to the disk, and `Interrupt` ends it at any of them:
declined, raised or killed. The directory is the sizes of the files in their final
place (`disk`), of those still in a folder of the repository (`raw`), the record,
the marker of a speech model and the sections of the sidecars. Files are numbered as
their names sort; a selection is a set of weights (a quant, all of them, a voice).

| Actions and operators | Code |
| --- | --- |
| `DownloadModel`, `CheckLocalFiles` | `download_model`: resolving, "Already fully downloaded" |
| `Execute`, `Survey`, `HubDownload`, `Flatten`, `SaveTtsConfig`, `TouchMarker`, `RecordComplete` | `DownloadPlan.execute` |
| `SaveDownloadInfo`, `SaveMmproj` | `_finish_download` |
| `DeleteModel`, `Unlink`, `RemoveDirectory` | `delete_model`: `shutil.rmtree`, entry by entry |
| `SelectPrimary`, `RecordAllows`, `SplitIsWhole`, `Served` | `ModelStore._select_primary`, `_record_reason`, `_split_reason`, `resolve` |
| `Republish`, `Damage` | the repository's author and the user's disk |

`hf_hub_download` is external: it moves a whole file of the current revision into
place. `alone`, `reported`, `used` and `overlapped` are history the properties
read. Left out: ONNX settings and support files, symlinks, aliases and legacy flat
files, the parsing of references, contents of equal size, and a kill in the middle
of one sidecar's write.

### ChatTurn

The chat is one event loop too; only a tool runs in a thread (`thread`). A turn is
the worker of `_send_message`, and `turn.at` the await it stands at; `turn.stop` is
`stop_requested`. The cancelled worker is at once past any await but that of the
tool's thread, which `_run_tool` shields, so `TurnCancelled` does not apply at
"running". Saving a session is part of the action that ends the turn (`EndTurn`):
the `finally` block completes the history, saves, gives the turn up and starts the
next prompt without an await between.

| Actions and operators | Code (`tui.py`) |
| --- | --- |
| `Submit`, `Resume`, `CancelQueued`, `StartTurn` | `action_submit`, `_dispatch_queued`, `on_button_pressed`, `_start_turn` |
| `TurnStarts`, `ReplyEnds`, `CallsArrive`, `StreamFails` | `_send_message`: the stream, the reply's commit, the batch of calls |
| `AskUser`, `RunTool`, `Deny`, `ToolReturns`, `ToolRaises`, `NextCall` | the loop over the batch, `_run_tool_call`, `_tool_allowed`, `_confirm`, `_run_tool` |
| `ErrorShown`, `TurnCancelled`, `Unsaved`, `EndTurn`, `Settled`, `FinishToolHistory`, `Release` | `except` and `finally` of `_send_message`: a result for every call, the save, "Could not save", quit, the next prompt |
| `Stop`, `Quit` | `action_stop_generation`, `action_quit` |
| `NewChat`, `Cleared`, `BrowseSessions`, `PickSession`, `Loaded`, `LeaveSessions` | `_dispatch_command` and `_load_session`, split at their awaits |
| `ChooseModel`, `ModelsFetched`, `PickModel`, `KeepModel`, `Switched`, `Save` | `_choose_model`, likewise; `/save` and `_save_turn` |

`moved`, `drafted` and `unwritten` are history: a `/new` or `/sessions` that ended under a
reply it had not seen, a session resumed from a file that was saved in the middle of a
batch, and a session whose last reply could not be saved, nor anyone saved since. A file
holds what was sent (`Write`), or with `/save` in mid-reply also the draft of the reply.

### ToolCall

One call after another, with the world moving between any two steps: `where` says what
a path resolves to now (a symlink may be turned), `address` what a host name stands for
now. `standing` and `agreed` are history: the grants when the call was decided and the
user's answers for this call. The policy's order of cases is the code's: allow-all
comes first, and `managed` says that the editor's rules have replaced the others.

| Actions and operators | Code |
| --- | --- |
| `Decide` and the `Decide…` of each tool, `ParseGrants`, `Grants` | `tool_policy.py`, `permissions.py` |
| `TakeCall`, `Allow`, `RefuseCall`, `Remember`, `StartTool`, `ToolContext` | `_tool_allowed`, `_confirm` and its dialog's choices, `add_allowed_tool`, the first half of `_run_tool` |
| `UseFile`, `RunCommand` | the file tools' second resolution and `_check_roots`; `_shell_execute` |
| `VetHop`, `AllowMidway`, `RefuseMidway`, `RefuseHop`, `Connect` | `_fetch_url` with `_vet_hop`, `_origin_approver` and `_approve_origin`: every redirect is vetted, approved across threads, and connected by the vetted address |
| `StopReply`, `ApplyPermissions`, `ResetPermissions`, `Change` | a stop, the permissions editor, a new session; the world |

### BackgroundTasks

An entry per task, its thread and process group; `StartBackground`, `Spawn`, `Ends`,
`RecordEnd`, `CheckTask` are the code of `tools.py` between two uses of the table's
lock. A thread reads the clock before it takes the lock, so ends are recorded late
and in any order; `Stale` is `_prune_background`.

### ReplyStream

Lines are two units long and chunks one to three, so that chunks, `BodyLimit` and
`TailLimit` (the two limits in bytes) cut lines in half. `HearLine`, `HearEnd` and
`StopReading` are the chat; `ForwardChunk`, `StreamEnds` and `StreamAbandoned` are
`_counting_stream` as it keeps the first and the last units; `RecordUsage` and
`Assemble` read what was kept, as `_record_usage` and `_assemble_response` do. The bodies
of the three loops are `Hear` (the chat, one line), `Collect` (the record, one line) and
`ScanBack` (the token count, from the end). `WellFormed` is what is taken for granted of a
backend: `[DONE]` comes last, the pieces of one call name one id, and tokens are reported
by events or by one body, with timings that repeat the usage beside them. The instance's
replies always were of this kind; that the properties need it was found in their proof.

### ObservePages and DetailPane

`SaveRecord`, `RecordSaved` and `Prune` are the writers. `RequestPage`, `Debounced`,
`ChangeSearch`, `RefreshPages`, `TurnPage`, `CloseViewer` and `NextScan` are the
viewer's loop (`observe_tui.py`: `_request_page`, `_enqueue_page`, `_query_loop`);
`ListDirs`, `ListFiles`, `ListSorted` and `ReadRecord` are its thread, one file
operation each (`observe.py`: `list_records_page`, `search_records_page`);
`RenderPage`, `PageBeyondEnd`, `PageOutdated` and `ScanFails` what is done with the
answer. A scan carries two histories: `lasting`, the records that have been on disk all the
while, and `hidden`, those that lie below a directory with records of its own when the
directories are listed, which the code passes over (section 5). `DetailPane` is the task every choice of a record starts, with its lock, its
version and the awaits between taking widgets down and putting them up.

### Integrate

`RunIntegrate` decides a run in memory (`Apply`, `RemoveModels`, `SetDefault`,
`ClearSelections`, the agents' plans); `Stage`, `Backup`, `Replace` are the loops of
`write_configs`, `Restore` and `CleanUp` of `_roll_back`. `StepFails`,
`RestoreFails` and `Aborted` let any file operation fail and Ctrl-C or a kill come
between any two, `InterruptUnlisted` between `os.replace` and the note of it. pi keeps
two files, the others one: `agent` chooses.

### ConfigReload

`ReadConfig`, `ResetConfig`, `TruncateConfig` and `WriteConfig` are
`set_config_value` and `write_default_config` as the disk sees them; `StartProxy`,
`WatchConfig`, `PollConfig`, `Hup`, `CheckSyntax` and `LoadConfig` are the proxy's
lifespan, `_config_watcher`, SIGHUP and `_reload_config`. One field stands for those a
reload may change and one for those that need a restart.

### ModelSettings

The state is what commands do to the two files: `EditSettings`, `RecordDownload`
(which reads the sidecar again, `KeepDownload`), `OpenSettings`, `WriteSettings`,
`EditorDies`. The rest is functions of their content: `CommandLine` is how
`config.py` and `server_manager.py` make flags of it, `Server` what llama-server makes
of the flags (external), `DescribeModel` what `integrations.py` tells an agent, `Report`
what `drove models config` prints. Raw arguments are flags, values and both in one
(`--ctx-size=4096`), as llama-server would accept them (`Arguments`); the flags that
neither side reads are one (`--other`).

### Speech

`SplitSentences` with its helpers is the splitting of a text into groups that an
engine can speak; a text is where its spaces and the ends of clauses and sentences are.
The bodies of the two loops that put pieces together again are `AddWord` (`_hard_split`)
and `AddUnit` (`_pack`).
`BeginSpeech`, `SpeakGroup`, `OutOfMemory`, `SpeechFails` and `AnswerSpeech` are a
request under the engine's lock: a group that needs too much memory is put back
together with what follows and split again under half the limit.

### Clients and MCClients

The ten modules above run in different processes and share no state in the models.
`Clients` puts them together: `part` says which one moves, from its own initial states,
while the others rest, and the parts' invariants and properties are stated of the whole,
so that what surrounds the server is one specification and one run. `MCClients` is its
instance.

## 3. What is checked

Every property is preceded in its module by a comment saying what it means; every
one has a mutant, a plausible bug put into one definition, that violates it.

| Run | Instance | Shows |
| --- | --- | --- |
| `manager_core` | 3 requests, 2 models, `MaxLoaded` 1, every fault; 695k states | `LockDiscipline`, `StartsAreTracked`, `StartsFresh`, `RegistryAgrees`, `ClaimsAreReady`, `ClaimsCounted`, `NoOrphan`, `ReadyIsWatched`, `SavesOnlyReady`, `CountBudget`, `BusyIsNeverStopped`; and `KeepsPromise`: the manager implements `BackendLease` |
| `manager_memory` | 3 requests, 3 models estimated at 1, one of them at 1 or 3 from time to time, `MaxMemory` 2, crashes, edits and downloads; 1.91M states | `MemoryBudget`: the processes that live fit the limit, or there is one of them only, or they fit with one of them counted by the estimate that room was made for. Several victims for one start; an oversized model only alone; and what models grow by while they start never adds up |
| `manager_settles` | 2 requests, 2 models, every fault, fair | `EveryCallSettles` (every request and every start settles), `EveryBackendUnloads`: no lost start event, no deadlock on the lock, no drain that never ends while its victim stays registered |
| `proxy_core` | 2 requests, 2 backends, 2 models, `Limit` 1, one pending record, every fault but deaths; 129k states | `StatsBalance`, `ClaimMatches`, `NothingLeftBehind`, `DisconnectWins`, `RecordsSurviveShutdown`, `NeverEvictedMidRequest` |
| `proxy_returns` | 2 requests, 2 backends, 1 model; crashes, cancellation, departures; fair | `NothingIsKept`: every claim is returned and every upstream response closed |
| `download_core` | 2 users, a split model with a projector, a voice, 2 revisions, 3 commands, 1 mishap; 1.04M states | `ServedIsWhole`: what has a record is served only if one selection is there whole, of one revision. `SuccessServes`: in a directory that one selection of one revision was ever downloaded to, without two commands overlapping, a download that ran undisturbed and succeeded leaves it served, with its metadata, whatever was killed, damaged or deleted before |
| `clients_core` | the ten client modules, each alone; 978k states | the thirteen properties below |

`clients_core` shows, part by part:

| Property | Part | Says |
| --- | --- | --- |
| `TypeOK` | all | the parts' type invariants |
| `ToolResultsPaired` | ChatTurn | every batch of calls has exactly its results, in order, in what the model is sent and in what is saved, although ids repeat between batches |
| `QueueDiscipline` | ChatTurn | prompts are sent at most once and in order; a queue waits without a reply only when paused, and a reply pauses it only by being stopped or failing, so one that is resumed flows on to its end |
| `NoAbandonedTool` | ChatTurn | a tool in its thread always has its turn waiting for it |
| `SessionsAreKept` | ChatTurn | the session on the screen talks to the model in use; a session's file is a beginning of what its model was sent, with at most a draft behind it, and all of it once its reply has ended and could be saved |
| `StopHolds` | ChatTurn | a turn that is stopping asks for no further reply and starts no tool |
| `TouchedWithinConsent` | ToolCall | what a tool touches was allowed when the call was decided, or agreed to for it |
| `TasksAreRemembered` | BackgroundTasks | none running is forgotten or over the limit, none that ended forgotten before it may be |
| `ScreenIsTrue` | ObservePages, DetailPane | the page answers the last request and lacks no record that was on disk all the while, except those below a directory with records of its own; the pane shows the last choice |
| `ConfigsHold` | Integrate, ModelSettings, ConfigReload | every agent's file is new, old or reported; a user's content survives in it or in its backup; no selection of an unregistered model; a model's setting stays until it is set again; restart-only fields wait for a restart |
| `SpokenInFull` | Speech | every answer is the whole text, in order, in the voice asked for |
| `ReadersAgree` | ReplyStream, ModelSettings | the record is what the chat was told, the tokens those reported last; an agent is told of a model what its backend serves |
| `EverythingSettles` | those with fairness | a stop gives the chat and its tool back, a page arrives, a choice is shown, the proxy ends up with its config file |

`MCClients` also has the assumption `SplitSound`, which TLC evaluates on every run: for
all texts of five letters and every limit up to eight, `SplitSentences` keeps the text
whole, every group within the limit, and uses as few groups as the units can be put into.
The first two are proved for every text and limit (`SplitIsSound`). The third is not true of
every text: the proof of it failed, and `TwoWouldDo` is the text that shows why (section 5).
What is true of every text is `SplitMakesFew`.

The premises of `SuccessServes` were found in its proof. Of three quants that lie within
one another, {1}, {2} and {1, 2}, the download of the second after the whole finds its
file there and answers "Already fully downloaded", while the store serves the first; so
no other selection may have been downloaded. And the shards of a file have its name but
for their number, hence its quant and its selections (`ShardsAssumption`).

Why these bounds are enough: the interesting interleavings of the manager need a
request that holds a model, one that evicts it, and one that comes back for it;
with two models and room for one, every start evicts, and a third request queues
behind the other two. A third model is needed only where one start takes
several victims (`manager_memory`): a model estimated at 3 evicts two of 1, and one
that grows from 1 to 3 between the two estimates exceeds the limit beside another. Liveness is checked with two requests, one that
holds or starts a model and one that waits for it, because every fault is allowed
there. `proxy_core` leaves deaths out because `NeverEvictedMidRequest` needs it; the
invariants it checks are proved with deaths, and `proxy_returns` allows them. The
proxy's requests meet only through the manager, the
counters and the writer: two of them contend for one backend slot and for one
pending record. Downloads meet in one directory: two commands overlap, the third is
the rerun or the delete; one mishap puts a wrong size or a second revision in
between, and the sizes of the two revisions shrink for one file and grow for the
others, so that the downloader's `>=` and the store's `=` disagree.
In `clients_core` three prompts are one running, one queued and one
cancelled or cleared, or one stopped and two that flow on after it; two batches of two calls make ids repeat; two commands overlap
at their awaits; five events of a user or of the network are a stop, a failure and a
quit around them. A call follows one redirect while one link or name changes, and a
second call sees what the first has left. Four tasks exceed the limit of two running
and of one finished. Four records are two pages, one is pruned and one half written,
and two requests overlap; they lie in a flat directory, in a namespace, and in a directory
of the namespace's name that comes to be while it is listed. Two integrate runs with two faults are a run that fails and
fails to undo, and a rerun after a kill. Three writes by two writers and two reloads
let a reload meet a file empty, old and new. Two speeches share an engine that runs out
of memory as often as the limit can be halved. Replies of up to three events are cut at
every place into chunks up to a line and a half, and some exceed both limits.
`CHECK_DEADLOCK` is off everywhere because requests and commands are bounded and
the system then rests.

### Findings

Five runs check a sentence of the repository that the code does not keep, and TLC
shows how:

- `manager_drain` / `DrainEnds` (`server_manager.py:579`): a drain polls the count
  of the instance it captured. When that instance dies with requests on it and is
  cleaned up by another request, nobody counts it down any more, and the request
  that drains it waits for ever. With the victim still registered the drain does
  end: `EveryCallSettles` excepts only this case.
- `manager_config` / `RecordedIsLaunched` (`server_manager.py:688`): `_start` reads
  the config, awaits, then records the mtimes; an edit in between is recorded as
  launched, and the instance is never restarted for it.
- `proxy_restart` / `NeverEvictedMidRequest` (`proxy.py:357`): the claimed backend
  is looked up again by its name after the body was read. If it died and was
  restarted meanwhile the request runs on an instance it holds no claim on. Without
  deaths this cannot happen: `proxy_core`, and for all instances the theorem
  `NeverEvicted`.
- `proxy_unsent` / `EveryClaimIsReturned` (`proxy.py:381`): a response given up
  while its headers are sent never starts its generator, so neither the claim nor
  the active count is settled.
- `download_reused` / `RerunFinishes` (`cli/models.py:717`): after a second quant was
  downloaded into the same `--name`, rerunning the first finds its files there and
  the record complete, answers "Already fully downloaded" and changes nothing; the
  store hides the model, because its primary is not part of the record, and advises
  to rerun the download.

### Fairness

Manager: the event loop runs every task that is ready (weak fairness of a
request's `Progress`, of a watcher that wakes or whose stop returns, of a running
`stop()`); `asyncio.Lock` is FIFO, so a task that waits for it is not passed over
for ever (strong fairness of each acquisition). `Progress` includes the end of a
request (`Finish`), the health wait's deadline and the death of a terminated
process, which the code bounds with timeouts. Requests arriving, crashes, edits,
cancellations and `stop()` being called are not fair.

Proxy: weak fairness of each handler's `Progress`, of its send and of its clean-up
(`httpx` has timeouts on all three). The client leaving, cancellation and the
manager's own steps are not fair; that a start settles is what the manager's
`EveryCallSettles` shows.

Chat: a cancelled worker is resumed, an error bubble and "Could not save" are mounted,
a tool's thread ends (shell commands have a timeout, `fetch_url` a deadline). The model
may never end its reply and the user never answer: only after a stop must a dialog
close, and that is the code's own doing. ToolCall: its thread runs; a dialog is closed
by a stop. Observe: the debounce timer fires, the thread reads on, the query loop and a
pane's task are resumed. Config: the watcher's sleep ends and a signal's callback runs.
No writer is ever bound to finish. As user events and changes are bounded by the
instance, "settles" is stated as `[]<>P`: from every state on, P comes again.

## 4. What is proved

`tlapm` checks the eight proof modules from nothing. All 36 invariants, action
properties and refinements that passing runs check hold, by these theorems, of every
instance. The assumptions are those the modules declare, and no bound on any set of
requests, models, users, selections, prompts, paths, origins, records, texts, replies or
settings is used:

- bounds and limits are naturals, a limit that something is divided into is not 0, and a
  value that stands for "none" (`None`, `Nobody`, `Unset`, `NotSet`, `NoVoice`, `Absent`)
  is none of the values it stands apart from;
- requests, models, records and the config file's writers are finitely many, and the
  faults are among `FaultKinds`;
- the weights of a selection are of one kind, two selections that share a weight are one
  within the other, and the shards of a file are in the same selections;
- a batch of calls is not empty and its ids differ; configured grants and drafts are sets
  of grants;
- a text's spaces and ends lie within the text; a reply is a sequence of lines that is not
  empty and is well formed (`WellFormed`);
- a model's settings have the types that `ModelConfig` declares and its raw arguments are
  ones that llama-server starts with: each flag with its value, each switch without one,
  no context below 0.

**ServerManagerProofs.** `TypeInvariant`; `LockIsDisciplined`;
`EveryStartIsTracked`; `NoStartIsRefused` (`_start`'s `RuntimeError` is
unreachable); `RegistryIsConsistent`. These are mutually dependent. That a model
stays unregistered from the decision to start it to its spawn needs mutual
exclusion, and that the maps agree needs freshness: a second start of a model would
overwrite an entry whose watcher still acts. The inductive invariant is the
conjunction of the four with the types and the place of the request that owns each
start; each action has one lemma for the types and one for the invariant.

**LeaseProofs** carries that from the maps to the processes: `ClaimsAreOnReady`,
`OnlyReadyIsSaved`, `NothingIsUnwatched` and `NoProcessIsLost`. The four are proved
together with two facts that no run states (`Kept`). A registered model that is no
longer starting has started (`StartedIsReady`): what makes a claim safe is only that
`starting` is cleared by the start's own success or after its backend is unregistered.
And what a watcher or a failed start is about to terminate is not registered any
more (`StoppedIsUnregistered`), so settling that start uncovers no half-started
backend, and the head of `_stop_instance` always takes the entries of its own backend.

Then come the slots, the limits and the refinement. Every step is of one of seven kinds
(`StepKinds`): it leaves the maps alone but for the end of one process or the settling of
a start nothing is registered for, takes one model's entries down, spawns, publishes,
claims, returns a slot, or begins or ends a shutdown. Each property is proved kind by kind.

- `ClaimsAreCounted` rests on `SlotsAreServed`: nobody holds a backend that is still
  being started, and who holds one is served and asks for the model it runs. That is
  why `request_finished`, which finds the instance by the model's name, gives back the
  claim that was taken, and why its floor at 0 is never used on a registered instance.
- `NothingInUseIsStopped`: with the count right, each reason to stop a live backend
  (`Stoppable`) says that nobody holds it, but for `stop` and `stop_model`.
- `LimitIsKept`: `_evict_if_needed` counts registered models, the limit is about
  processes. While it counts, no stop is in progress (`EvictionCountsAll`), and
  `Roomy` carries the room it made over the awaits up to the spawn.
- `MemoryIsKept` needs the same of sizes: `RoomInMemory` says that whoever has decided to
  start a backend finds no other process, or room for the estimate it evicted for beside
  all of them, until it spawns. The spawn then records another estimate, and the total may
  exceed the limit by the difference. The next start evicts until everything fits as it is
  recorded, so there is at most one such difference at a time, that of the backend spawned
  last. No estimate of a process that lives changes (`Estimated`, `LiveEstimates`). The sums are folds over sets, so a sum is first shown to be a count
  (`SumIsCount`): of the pairs of a process and a unit of its size. Counts have theorems;
  that the fold's recursive function is the count follows from the smallest set on which
  it is not.
- `PromiseIsKept` maps each kind to one step of `BackendLease` or a stutter:
  `Die`, `TakeDown`, `Launch`, `Publish`, `Lease`, `Return` and `Shutdown`.

**ProxyProofs.**

- `TypeInvariant`, with `Reasoned`: an abandoned send has a reason.
- `ClaimInvariant`, `TidyInvariant`, `DisconnectInvariant` come from `LocalInv`, a
  predicate of one request. None of the three is inductive: a disconnect can only
  be shown to win if a watcher that nobody cancelled belongs to a race or to one
  that was discarded for leaving (`Watched`), and a response handed over is closed
  only if the hand-over began with the watcher cancelled and the send over
  (`Handing`). A step of one request leaves every other's state alone
  (`RequestAlone`), so the invariant is kept request by request.
- `StatsInvariant`: every step counts one request in, counts one out or changes no
  counter; a request counted out was at work and had no result yet. So the floor
  at 0 of `request_finished` is never used.
- `RecordsInvariant`, from `Drains`: no stream is left once the server drains, so
  what is pending then only shrinks, and all of it is awaited.
- `NeverEvicted`: if no process dies by itself, no ready backend goes down under a
  request forwarded to it. The invariant `Held` ties what the request claimed to
  what it finds again by name: one backend per model, and the claimed one is ready
  and serves the request's model.

**DownloadProofs.** `TypeInvariant` and `ServedIsWholeInvariant`. The store's verdict
reads the disk, the record and the sidecars, so the invariant is not about the disk
at all: `Provenance` says that a plan is what one revision holds of one selection,
that a record is some download's whole plan, and that a file named by its metadata
is the entry of a selection. Whoever wrote the record, and whatever was deleted,
damaged or overwritten since, a primary that passes is then the first file of a
selection that lies within the recorded one: by its name (`PrimaryIsWhole`, where
the selections' nesting is used), or because it sorts first among all files there
of its kind (`FlatIsFirst`).

`SuccessServesInvariant` is about the disk. While one selection is all that was
downloaded, the directory holds parts of it and nothing else (`DirectoryOf`), and one
command at a time works on it (`OneAtATime`). What a running download has passed is there
(`Advanced`), but for files that a mishap may have taken from it (`Fetching`), in which
case it is not undisturbed; so what a success has found is there when it reports
(`Delivered`), and stays, because any other command takes the report back first. That the
store then serves it is a matter of names: the entry is the first file of its kind.

**ChatProofs** is about `ChatTurn`, `ToolCall` and `BackgroundTasks`. `ToolsAreAwaited`, `SessionsKeep`, `StopIsFinal`,
`QueueIsDisciplined`, `ResultsArePaired` and `ChatTypeInvariant`. `TurnInv` says where a
turn can stand: a thread at work has the turn that awaits it, and a turn that is being
stopped or has failed has paused the queue, but where `moved` records that a command at
work since before the turn has unpaused it; and no other turn runs over a paused queue
(`QueueFlows`): what begins one finds the queue empty or clears the pause. The session's
model follows from the sessions' types alone, step by step. The queue's order needs `LineInv`: the prompts begun and the
prompts waiting each rise, up to the last number given; every action adds at the end,
takes from the head or out of the middle, or empties the line.

`ResultsArePaired` needs `HistoriesInv`: every history is `Complete`, but for the one a
turn writes, which is `Unfinished`: complete up to a last reply that calls tools and the
results of its first `done` calls. Every file is complete that is not marked as saved in
mid-turn. So a tool's end adds the next result, and `FinishToolHistory`, however the turn
ended, adds those still missing and never one twice, although ids repeat from batch to
batch: it searches behind the last reply. The property is stated with a recursive function
of the history's length; that it says what `Complete` says is shown by the existence of
such a function and the smallest length at which the two would differ.

`SessionsKeep` needs `FilesInv`. While a reply runs in a session its history only grows
(`Extends`), so a file stays a beginning of it; when the reply ends, the save and the last
change of the history are one step, or the session is marked as `unwritten`. A session that
no reply runs in is left alone, and one that is loaded has the history its file has. That
completing a history only adds to it is again shown by the existence of the recursive
function (`AnswersExtend`).

`ToolsKeepToConsent`: `TouchedWithinConsent` speaks of a past
decision, a past answer and the place a path or name *now* stands for, so the invariant
follows the consent through the call: what is in force was in force at the decision or
was agreed to since (`Standing`), what a dialog asks (`Asks`), what the answer leaves
(`Granted`), what the tool's context makes of it (`Contained`) and what a redirect was
vetted for. That `Change` may come between any two of these is one short lemma:
nothing in the invariant depends on what links and names mean, because each tool
compares the place it is about to use with its context again. `CallTypeInvariant` is
about the types, and `TasksAreRememberedInvariant` about `BackgroundTasks`: ends are
apart in time though they are recorded in any order (`TimesApart`), so of the tasks that
are not stale all but `MaxFinished` have that many newer ones behind them
(`Outlived`), and trimming forgets only those.

**SpeechProofs.** `SplitIsSound`: whatever the text, the piece of it and the limit,
`SplitSentences` keeps the piece whole, in order, and every group within the limit. A text
is cut four times, into sentences, clauses, words and letters, and put together twice;
each of these takes a run of pieces that covers an interval to another that covers the
same one (`Run`, `Grouped`). The loops are folds, whose recursion is again unrolled by the
existence of the function and the step from each place to the next (`Climb`); the search
for the smallest size ends because the limit itself will do.
`AnswersAreSpokenInFull` then says of a request under the engine's lock that what it has
spoken goes up to some letter and what it has left goes on from there (`SpokenUpTo`): when
memory runs out, the group that failed and those behind it are put together and split
anew, and cover the same letters. The voice is the request's because it holds the lock.
`SpeechTypeInvariant` has the types: the limit stays between its floor and its first value.
`SplitMakesFew` is about the number of groups: filled to the limit, `_pack` stays ahead of
any other way to put the units together (`StaysAhead`), and the search ends at the limit or
at a size that makes at most `count` groups (`SearchEnds`).

**StreamProofs.** `RepliesAreReadAlike` compares three folds over parts of one reply: the
chat's over the lines it has heard, the record's over the lines that are whole in the first
`BodyLimit` units, and the token count's, backwards, over those in the last `TailLimit`.

- What is kept is always a `Stretch` of the reply's units, from one place to another
  (`Kept`): the record's from the start on, the tail's up to what has been forwarded, and no
  shorter than `TailLimit` unless it is everything. That stays true when a chunk is cut, or
  the tail trimmed (`ForwardKeeps`). So what is whole in it is a stretch of lines
  (`FirstLines`, `LastLines`).
- A fold is a sequence of states, one per line (`CollectFold`, `ChatFold`, `RecordFold`,
  `ScanFold`): the existence of the fold's function and the step from each place to the next.
- The record finds a call by its index where the chat finds it by its index too; after the
  same lines the two have the same calls (`TextOfPart`), and after fewer lines the record
  has prefixes of them, whose ids are not yet named or the same (`Grown`, `TextGrows`). That
  needs that the pieces of a call name one id. Sorting by id loses none (`ByIdFacts`).
- `StreamInv` says that the chat's answer is the fold over the lines heard, and what has
  been kept; from it follow `RecordIsFaithful` and `TokensAreTheLast`. Going back, the scan
  stops at the last report that says something was generated, and what it may have to fill
  in is nothing else's (`ScanFinds`); of a report cut in front the second half is enough
  (`LateReports`, `UsageFound`), and of one that lies before the tail nothing is counted.

**ClientProofs** is about the other parts of `Clients`, and about all of it.

- `PartsAsSpecified`: `Clients` runs each part as the part is specified, fairness
  included, so what is proved of a part is true of the whole (`ChatAndToolsInvariant`,
  `SpokenInFullInvariant`, and the first half of `ReadersAgreeInvariant`).
- `ScreenIsTrueInvariant`. For the pane (`PaneInv`): the tasks of earlier choices stand in
  the lock's queue in the order of the choices, and the last one is to come, at work or
  done with none behind it. For the pages (`PagesInv`): a request of the present
  generation asks for what the screen asks for, and a scan that reads has left out of its
  page only what lies before it or what a full page has no room for; a file pruned
  meanwhile is not missed, one that lasts is, unless its directory was passed over
  (`Due`).
- `ConfigsHoldInvariant`. `RunInOrder` says which files a run has reached, `ListsTrue`
  that its list of replaced files has all that is still to be undone; `EditedInTurn` that
  of two edits which did not overlap the second has read what the first wrote.
- `DescribedAsServedInvariant`. llama-server reads its arguments from the first to the
  last, `describe_model` looks for the last place of a flag. The fold is a sequence of
  states (`Readings`); a field that several arguments set is that of the last one
  (`LastWins`), for values and for switches, whose two spellings overwrite each other; the
  raw arguments come last, so what they do not set is the layers' (`FlagWins`,
  `SwitchWins`, `ProjectorWins`). The layers are merged alike by the manager, the
  integrations and the report (`LayersMerged`), and the rest is the arithmetic of slots,
  windows and budgets (`SameWindow`).
- `TypeInvariant`: every part is well-typed.

Model-checked only: liveness (`EveryCallSettles`, `EveryBackendUnloads`, `NothingIsKept`,
`EverythingSettles`), which is beyond the prover.

## 5. Observations

Met while the modules were written. The models contain each of these or say that they
leave it out. Three contradict a sentence of the repository and are not among the findings
of section 3, which each have a run: the second estimate of a model, the hidden records and
the fewest groups. In the first two the property that a run checks states the exemption, in
the third a theorem says what is true instead.

Server:

- A model's memory is estimated before eviction (`server_manager.py:456`) and again after
  its spawn (`server_manager.py:690`), from a config and files that may have changed over
  the awaits in between. The live total may then exceed the limit that "caps the combined
  memory estimate of the loaded models plus *incoming_bytes*" (`server_manager.py:502`), the
  "combined memory budget for all loaded models" (`docs/configuration.md:186`), although no
  model of the total is alone. `MemoryBudget` says by how much: what one model has grown by.

Chat and tools:

- A tool that raises is recorded as "not executed" although part of it may have run.
- Calls of a batch are executed and recorded sorted by id, not in the model's order;
  when ids repeat within a batch, a stop gives them one "not run" result.
- `/new`, `/clear` and the loading of a session check `is_generating` before they await
  the removal of the transcript: a reply may begin meanwhile (`moved`).
- Quitting while "Could not save" is being mounted is forgotten.
- `/save` in the middle of a batch writes a history that lacks results; a session
  resumed from that file starts with it (`drafted`).
- If a background task's thread cannot be started, its entry stays running.
- The instant between a file tool's check of a path and its opening is not modelled.
- An `error` event in the middle of a stream is ignored by the chat, and a stream that
  ends without `[DONE]` counts as complete; `tool_calls: null` raises in both readers.
  The chat accepts `data:` without a space, the record and the token count do not.

Speech:

- `split_sentences` means to use the "Fewest groups the text can fit in" (`engines.py:167`)
  and takes the text's length divided by the limit for their number. The space where two
  groups meet is spoken by neither, so that number may be too high by one or more: sentences
  of 6, 3, 3 and 6 characters are put into three groups of at most 10 where two would do.
  The cost is a pause. `SplitMakesFew` says how many there can be at most.

Records and their viewers:

- A reply that is given up is neither recorded nor counted, and so is one whose reader
  closes at `[DONE]` before the upstream's end has reached the proxy.
- A record that is shortened twice states the size after the first shortening.
- Without a model filter, records of `org/repo` are not listed, searched or paged once
  there are records of a model `org`, although they are on disk all the while: a directory
  with records of its own is not looked into (`observe.py:507-519`). The docstrings say that
  the scan "walks two levels deep so namespaced models (`org/repo:quant`) are found
  alongside legacy flat model dirs" (`observe.py:490`) and that the list goes "across all
  model subdirectories (including namespaced dirs ...)" (`observe.py:556`). `PageHasNoGaps`
  exempts these records by name (`Due`); nothing else may be missing.

Files:

- `config.toml`, sidecars and `_global.toml` are truncated and rewritten without a lock:
  a reader may see defaults for a moment, and one of two writers' updates is lost. A
  file edited between the proxy's load and the watcher's first look is not reloaded
  until it changes again; one load reads the file twice.
- Ctrl-C between `os.replace` and the note of it leaves a new agent config that a
  roll-back does not restore, and a kill may leave a default for a model that is not
  registered (`damaged`). A roll-back normalises line ends.
- A projector that merely lies beside the weights is reported as vision although no
  `--mmproj` is passed for it (`Projector` is FALSE in the run).
- Unknown keys of a sidecar are dropped when it is set; `model_copy(update=...)` does
  not validate the values set.
- Prompt-cache files are named after the model only.

## 6. Not modelled, and what could come next

Not modelled: the command line, pickers, listings and backend detection (no state of
their own); widgets and layout; the parsing of shell commands, URLs, GGUF files and
TOML values; agents' JSON layouts; audio encoding and resampling; redaction and the
shortening of records; the web viewer, which reads one page per request; `/status`;
the prompt cache's slot files, whose every failure degrades to an empty cache.
Requests and evictions in flight under a limit that a reload has replaced are left
out: `ServerManager` takes its limits as constants. So is a model that is claimed again and
again while another request drains it: requests are finitely many in the models, and the
code sets no bound on that wait. That no update of `config.toml` is lost between two
overlapping writers is not claimed, since the code does lose one.

What would add most: `ServerManager` composed with `ConfigReload`, its limits a
variable; a `PromptCache` module with expiry and pruning.
