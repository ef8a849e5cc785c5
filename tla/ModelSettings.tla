---------------------------- MODULE ModelSettings ----------------------------
(***************************************************************************)
(* The settings of a model, in layers: config.toml, _global.toml and the   *)
(* sidecar beside the weights.  `drove models config` and downloads edit   *)
(* the two files without a lock and not at once.                           *)
(*                                                                         *)
(* Three parts of drove put the layers together: the manager, which makes  *)
(* llama-server's command line of them; the integrations, which work out   *)
(* from them what a coding agent may ask of the model; and the report that *)
(* `drove models config` prints.                                           *)
(***************************************************************************)
EXTENDS Integers, Sequences, FiniteSets, SequencesExt, FiniteSetsExt

CONSTANTS
  Terminals,
  NotSet,        \* a key or a flag that is not given
  Unreadable,    \* a file that is not valid TOML
  BaseSettings,  \* config.toml's layer
  EarlySettings, \* what the files say at first, [global, model]
  NewValues,     \* of each key the values it is set to
  Training,      \* the context the model was trained for, NotSet when the GGUF does not say
  Template,      \* its chat template: [known, tools, thinks]
  Projector,     \* a projector's file lies beside the weights
  Fallback, MinOutput, MaxOutput,
  MaxSettings    \* bound: commands

VARIABLES
  layers,     \* "global" and "model": what the files say, Unreadable when they cannot be read
  download,   \* the sidecar's [download], a number, NotSet when there is none
  editing,    \* of each terminal where its command is and what it is to write
  expected,   \* history: the settings and downloads as commands one after the other leave them
  overlapped, \* history: files that two commands edited at once, or that a kill left empty
  issued

settingsVars == <<layers, download, editing, expected, overlapped, issued>>

SettingKeys == {"ctx_size", "n_parallel", "threads", "mmproj", "extra_args"}
Scopes      == {"global", "model"}

Setting ==  \* what each flag with a value sets
  [n \in {"-c", "--ctx-size", "-np", "--parallel", "--threads", "-mm", "--mmproj",
          "--kv-unified-per-slot", "--reasoning-budget"} |->
     CASE n \in {"-c", "--ctx-size"} -> "ctx"
       [] n \in {"-np", "--parallel"} -> "slots"
       [] n \in {"-mm", "--mmproj"} -> "mmproj"
       [] n = "--threads" -> "threads"
       [] n = "--kv-unified-per-slot" -> "cap"
       [] n = "--reasoning-budget" -> "budget"]

Switches == {"-kvu", "--kv-unified", "-no-kvu", "--no-kv-unified",
             "--jinja", "--no-jinja", "--no-mmproj"}

\* An argument of a command line is a flag, a value, or both in one, as in --ctx-size=4096.
\* A value is a number here, a file's too, and flags that nobody here reads are all one.
Argument == [name : DOMAIN Setting \cup Switches \cup {"", "--other"}, value : Int \cup {NotSet}]

\* Arguments llama-server takes: every flag with its value, a switch without one, and no
\* context below 0.
Arguments ==
  {args \in Seq(Argument) : \A i \in DOMAIN args :
     /\ args[i].name \in DOMAIN Setting /\ args[i].value = NotSet =>
          i < Len(args) /\ args[i + 1].name = "" /\ args[i + 1].value # NotSet
     /\ args[i].name \in {"-c", "--ctx-size"} =>
          (IF args[i].value # NotSet THEN args[i].value ELSE args[i + 1].value) \in Nat
     /\ args[i].name \in Switches => args[i].value = NotSet}

ValuesOf(key) ==
  CASE key = "extra_args" -> Arguments
    [] key = "n_parallel" -> Int
    [] OTHER -> Nat

NothingSet  == [k \in SettingKeys |-> NotSet]   \* an absent or empty file
IsLayer(l)  == /\ l = [k \in SettingKeys |-> l[k]]
               /\ \A k \in SettingKeys : l[k] # NotSet => l[k] \in ValuesOf(k)
NoCommand   == [at |-> "idle", scope |-> "model", key |-> "none", data |-> NothingSet,
                info |-> NotSet, mixed |-> FALSE]

ASSUME SettingsAssumption ==
  /\ {MaxSettings, MinOutput, MaxOutput} \subseteq Nat /\ Fallback \in Nat \ {0}
  /\ NotSet \notin Int /\ NotSet \notin Arguments
  /\ Training # NotSet => Training \in Nat
  /\ Template \in [known : BOOLEAN, tools : BOOLEAN, thinks : BOOLEAN] /\ Projector \in BOOLEAN
  /\ IsLayer(BaseSettings)
  /\ \A k \in SettingKeys : NewValues[k] \subseteq ValuesOf(k)
  /\ \A early \in EarlySettings :
       /\ early = [s \in Scopes |-> early[s]]
       /\ \A s \in Scopes : early[s] = Unreadable \/ IsLayer(early[s])

-----------------------------------------------------------------------------
(* The command line of a model's backend.                                  *)

Flag(name)        == [name |-> name, value |-> NotSet]
Value(v)          == [name |-> "", value |-> v]
FlagIs(name, v)   == [name |-> name, value |-> v]
Passed(name, v)   == IF v = NotSet THEN <<>> ELSE <<Flag(name), Value(v)>>
ExtraArgs(config) == IF config["extra_args"] = NotSet THEN <<>> ELSE config["extra_args"]

Overlay(below, above) == [k \in SettingKeys |-> IF above[k] = NotSet THEN below[k] ELSE above[k]]

ExtraArgsFirst(config) ==  \* mutant: the generated arguments come last
  ExtraArgs(config) \o Passed("--ctx-size", config["ctx_size"])
    \o Passed("--parallel", config["n_parallel"])
    \o Passed("--threads", config["threads"]) \o Passed("--mmproj", config["mmproj"])

\* to_llama_args: what the user gave raw comes last.
LlamaArgs(config) ==
  Passed("--ctx-size", config["ctx_size"]) \o Passed("--parallel", config["n_parallel"])
    \o Passed("--threads", config["threads"]) \o Passed("--mmproj", config["mmproj"])
    \o ExtraArgs(config)

\* _build_args of the manager.
CommandLine(global, sidecar) == LlamaArgs(Overlay(Overlay(BaseSettings, global), sidecar))

-----------------------------------------------------------------------------
(* describe_model.                                                         *)

Described(global, sidecar) == FoldLeft(Overlay, BaseSettings, <<global, sidecar>>)

\* _last_flag and _last_switch: the place of the last one, 0 when there is none.
LastFlag(args, names) ==
  Max({0} \cup {i \in DOMAIN args : /\ args[i].name \in names
                                    /\ args[i].value # NotSet \/ i < Len(args)})
FlagValue(args, names) ==
  LET i == LastFlag(args, names)
  IN  IF i = 0 THEN NotSet
      ELSE IF args[i].value # NotSet THEN args[i].value ELSE args[i + 1].value

LastSwitch(args, names) == Max({0} \cup {i \in DOMAIN args : args[i] \in {Flag(n) : n \in names}})

\* 0 stands for the training context, as in llama-server.
ConfiguredContext(config) ==
  LET raw   == FlagValue(ExtraArgs(config), {"-c", "--ctx-size"})
      total == IF raw = NotSet THEN config["ctx_size"] ELSE raw
  IN  IF total \in {NotSet, 0} THEN Training ELSE total

SlotContext(config, total) ==
  LET args     == ExtraArgs(config)
      raw      == FlagValue(args, {"-np", "--parallel"})
      parallel == IF raw = NotSet THEN config["n_parallel"] ELSE raw
      auto     == IF parallel = NotSet THEN TRUE ELSE parallel <= 0
      on       == LastSwitch(args, {"-kvu", "--kv-unified"})
      off      == LastSwitch(args, {"-no-kvu", "--no-kv-unified"})
      unified  == IF on = 0 /\ off = 0 THEN auto ELSE on > off
      share    == IF unified \/ auto THEN total ELSE total \div parallel
      cap      == FlagValue(args, {"--kv-unified-per-slot"})
      limits   == {share} \cup {x \in {cap, Training} : x \notin {NotSet, 0}}
  IN  Max({1, Min(limits)})

OutputBudget(window) ==
  Max({1, Min({Max({MinOutput, Min({window \div 4, MaxOutput})}), window \div 2})})

DescribeModel(global, sidecar) ==
  LET config == Described(global, sidecar)
      args   == ExtraArgs(config)
      total  == ConfiguredContext(config)
      window == SlotContext(config, IF total = NotSet THEN Fallback ELSE total)
      jinja  == LastSwitch(args, {"--no-jinja"}) <= LastSwitch(args, {"--jinja"})
      with   == LastFlag(args, {"-mm", "--mmproj"})
      without == LastSwitch(args, {"--no-mmproj"})
  IN  [window    |-> window,
       known     |-> IF total = NotSet THEN NotSet ELSE SlotContext(config, total),
       output    |-> OutputBudget(window),
       vision    |-> without <= with /\ (with > 0 \/ config["mmproj"] # NotSet \/ Projector),
       tools     |-> jinja /\ (~Template.known \/ Template.tools),
       reasoning |-> jinja /\ Template.thinks /\ FlagValue(args, {"--reasoning-budget"}) # 0]

\* _print_resolved_config: the last layer that sets a key.
Report(global, sidecar) ==
  LET all == <<BaseSettings, global, sidecar>>
  IN  [k \in SettingKeys |-> LET set == {i \in 1..3 : all[i][k] # NotSet}
                      IN  IF set = {} THEN NotSet ELSE all[Max(set)][k]]

-----------------------------------------------------------------------------
(* llama-server, which reads its command line from left to right.          *)

ReadSwitch(server, name) ==
  CASE name \in {"-kvu", "--kv-unified"} -> [server EXCEPT !.unified = "on"]
    [] name \in {"-no-kvu", "--no-kv-unified"} -> [server EXCEPT !.unified = "off"]
    [] name = "--jinja" -> [server EXCEPT !.jinja = TRUE]
    [] name = "--no-jinja" -> [server EXCEPT !.jinja = FALSE]
    [] name = "--no-mmproj" -> [server EXCEPT !.mmproj = NotSet]
    [] OTHER -> server

ReadArgument(server, arg) ==
  IF server.waits # "" THEN [server EXCEPT ![server.waits] = arg.value, !.waits = ""]
  ELSE IF arg.name \notin DOMAIN Setting THEN ReadSwitch(server, arg.name)
  ELSE IF arg.value # NotSet THEN [server EXCEPT ![Setting[arg.name]] = arg.value]
  ELSE [server EXCEPT !.waits = Setting[arg.name]]

Server(args) ==
  FoldLeft(ReadArgument,
           [ctx |-> NotSet, slots |-> NotSet, mmproj |-> NotSet, threads |-> NotSet,
            cap |-> NotSet, budget |-> NotSet, unified |-> "auto", jinja |-> TRUE, waits |-> ""],
           args)

\* The tokens one request can use, NotSet when only the server knows.
ServedWindow(server) ==
  LET total == IF server.ctx \in {NotSet, 0} THEN Training ELSE server.ctx
      slots == IF server.slots = NotSet THEN 0 ELSE server.slots
      split == slots > 1 /\ server.unified # "on"
      own   == IF split THEN total \div slots ELSE total
  IN  IF total = NotSet THEN NotSet
      ELSE Max({1, Min({own} \cup {x \in {server.cap, Training} : x \notin {NotSet, 0}})})

-----------------------------------------------------------------------------
(* Commands that edit the files.                                           *)

SettingsInit ==
  /\ layers \in EarlySettings /\ download = NotSet
  /\ editing = [t \in Terminals |-> NoCommand]
  /\ expected = [layers |-> layers, download |-> download]
  /\ overlapped = {} /\ issued = 0

Starts(t, scope) ==
  /\ editing[t].at = "idle" /\ issued < MaxSettings /\ issued' = issued + 1
  /\ layers[scope] # Unreadable
  /\ overlapped' = overlapped \cup
       {s \in {scope} : \E u \in Terminals : editing[u].at # "idle" /\ editing[u].scope = s}

EditSettings(t, scope, key, v) ==  \* set_model_config_key, or --unset
  /\ Starts(t, scope)
  /\ editing' = [editing EXCEPT ![t] =
       [at |-> IF scope = "model" THEN "edited" ELSE "merged", scope |-> scope, key |-> key,
        data |-> [layers[scope] EXCEPT ![key] = v], info |-> NotSet, mixed |-> FALSE]]
  /\ UNCHANGED <<layers, download, expected>>

KeepDownload(t) ==  \* save_model_config reads the sidecar again
  /\ editing[t].at = "edited"
  /\ editing' = [editing EXCEPT ![t] = IF layers["model"] = Unreadable THEN NoCommand
                                       ELSE [@ EXCEPT !.at = "merged", !.info = download]]
  /\ UNCHANGED <<layers, download, expected, overlapped, issued>>

RecordDownload(t) ==  \* save_download_info
  /\ Starts(t, "model")
  /\ editing' = [editing EXCEPT ![t] =
       [at |-> "merged", scope |-> "model", key |-> "download", data |-> layers["model"],
        info |-> issued', mixed |-> FALSE]]
  /\ UNCHANGED <<layers, download, expected>>

OpenSettings(t) ==  \* write_bytes empties the file
  LET e == editing[t]
  IN  /\ e.at = "merged"
      /\ layers' = [layers EXCEPT ![e.scope] = NothingSet]
      /\ download' = IF e.scope = "model" THEN NotSet ELSE download
      /\ editing' = [editing EXCEPT ![t].at = "open", ![t].mixed = FALSE]
      /\ UNCHANGED <<expected, overlapped, issued>>

WriteSettings(t) ==
  LET e == editing[t]
  IN  /\ e.at = "open"
      /\ layers' \in {[layers EXCEPT ![e.scope] = new] :
                        new \in {e.data} \cup IF e.mixed THEN {Unreadable} ELSE {}}
      /\ download' = IF e.scope = "model" THEN e.info ELSE download
      /\ editing' = [u \in Terminals |->
           IF u = t THEN NoCommand
           ELSE [editing[u] EXCEPT !.mixed = @ \/ (editing[u].at = "open"
                                                   /\ editing[u].scope = e.scope)]]
      /\ expected' = IF e.key = "download" THEN [expected EXCEPT !.download = e.info]
                     ELSE [expected EXCEPT !.layers[e.scope][e.key] = e.data[e.key]]
      /\ UNCHANGED <<overlapped, issued>>

EditorDies(t) ==
  /\ editing[t].at # "idle"
  /\ overlapped' = overlapped \cup {s \in {editing[t].scope} : editing[t].at = "open"}
  /\ editing' = [editing EXCEPT ![t] = NoCommand]
  /\ UNCHANGED <<layers, download, expected, issued>>

SettingsNext ==
  \E t \in Terminals :
    \/ \E s \in Scopes, k \in SettingKeys : \E v \in NewValues[k] \cup {NotSet} : EditSettings(t, s, k, v)
    \/ KeepDownload(t) \/ RecordDownload(t) \/ OpenSettings(t) \/ WriteSettings(t) \/ EditorDies(t)

SettingsSpec == SettingsInit /\ [][SettingsNext]_settingsVars

-----------------------------------------------------------------------------
(* What must hold.                                                         *)

\* Type invariant of the settings.
SettingsTypeOK ==
  /\ layers = [s \in Scopes |-> layers[s]]
  /\ \A s \in Scopes : layers[s] = Unreadable \/ IsLayer(layers[s])
  /\ \A t \in Terminals : editing[t].at \in {"idle", "edited", "merged", "open"}
  /\ overlapped \subseteq Scopes /\ issued \in 0..MaxSettings

Readable == \A s \in Scopes : layers[s] # Unreadable

\* An agent is told of a model what a backend started now would serve, and the report shows
\* what it would be started with: in whichever layer, key or raw argument a value is given
\* and however often.  A window that is only a guess is never said to be known, and what a
\* reply may take leaves room for the prompt.  A projector that merely lies beside the
\* weights is told of, but no backend is given it.
DescribedAsServed ==
  Readable =>
    LET model  == DescribeModel(layers["global"], layers["model"])
        server == Server(CommandLine(layers["global"], layers["model"]))
        report == Report(layers["global"], layers["model"])
    IN  /\ model.known = ServedWindow(server)
        /\ model.known # NotSet => model.window = model.known
        /\ model.output \in 1..Max({1, model.window \div 2})
        /\ Projector \/ model.vision = (server.mmproj # NotSet)
        /\ model.tools => server.jinja
        /\ model.reasoning = (server.jinja /\ Template.thinks /\ server.budget # 0)
        /\ LlamaArgs(report) = CommandLine(layers["global"], layers["model"])

\* A command changes nothing but its key: whatever is set or recorded later, in either
\* file, stays until it is set again, unless two commands edited a file at once or one was
\* killed between emptying and writing it.
SettingsSurvive ==
  \A s \in Scopes \ overlapped :
    (\A t \in Terminals : editing[t].scope = s => editing[t].at # "open") =>
      layers[s] = expected.layers[s] /\ (s = "model" => download = expected.download)
=============================================================================
