---------------------------- MODULE ConfigReload ----------------------------
(***************************************************************************)
(* The config file and a running proxy.  drove's commands and chats read   *)
(* the file, change a key and write it back, without a lock and not at     *)
(* once; users edit it by hand.  The proxy polls its time of change and    *)
(* loads it again, or does so on SIGHUP; some fields need a restart.       *)
(*                                                                         *)
(* Every change of the file is assumed to give it another time of change.  *)
(***************************************************************************)
EXTENDS Integers, FiniteSets

CONSTANTS
  Writers,       \* processes that set values
  Values,        \* values of a field, 0 the default
  Invalid,       \* a file that is not a valid config
  MaxWrites,     \* bound: values set and edits by hand
  MaxHups        \* bound: SIGHUPs and starts of the proxy

ASSUME ReloadAssumption ==
  /\ IsFiniteSet(Writers) /\ 0 \in Values
  /\ {MaxWrites, MaxHups} \subseteq Nat

VARIABLES
  conf,       \* what the file says, Invalid when it cannot be loaded
  mtime,      \* its time of change
  writer,     \* of each process where it is and what it is to write
  proxy,      \* "down", "loaded", "asleep", or in a reload: "reading", "parsed"
  seen,       \* mtime in _config_watcher
  config,     \* app.state.config, which the manager shares
  started,    \* history: the config it was started with
  missed,     \* history: a change between the load at start and the watcher's first look
  writes, hups

reloadVars == <<conf, mtime, writer, proxy, seen, config, started, missed, writes, hups>>
proxyVars  == <<proxy, seen, config, started, missed, hups>>

Fields     == {"live", "fixed"}          \* "fixed" stands for _RESTART_REQUIRED
Settings   == [Fields -> Values]
Default    == [f \in Fields |-> 0]       \* what an empty file says
IdleWriter == [at |-> "idle", data |-> Default, mixed |-> FALSE]

ReloadInit ==
  /\ conf = Default /\ mtime = 1
  /\ writer = [w \in Writers |-> IdleWriter]
  /\ proxy = "down" /\ seen = 0 /\ config = Default /\ started = Default /\ missed = FALSE
  /\ writes = 0 /\ hups = 0

-----------------------------------------------------------------------------
(* Writers.                                                                *)

SetsValue == writes < MaxWrites /\ writes' = writes + 1

EditByHand(c) ==
  /\ SetsValue
  /\ conf' = c /\ mtime' = mtime + 1
  /\ UNCHANGED <<writer, proxyVars>>

ReadConfig(w, f, v) ==  \* set_config_value, which refuses an invalid file
  /\ SetsValue /\ writer[w].at = "idle" /\ conf # Invalid
  /\ writer' = [writer EXCEPT ![w] = [IdleWriter EXCEPT !.at = "edited",
                                                 !.data = [conf EXCEPT ![f] = v]]]
  /\ UNCHANGED <<conf, mtime, proxyVars>>

ResetConfig(w) ==  \* write_default_config reads nothing
  /\ SetsValue /\ writer[w].at = "idle"
  /\ writer' = [writer EXCEPT ![w] = [IdleWriter EXCEPT !.at = "edited"]]
  /\ UNCHANGED <<conf, mtime, proxyVars>>

TruncateConfig(w) ==  \* write_bytes empties the file when it opens it
  /\ writer[w].at = "edited"
  /\ conf' = Default /\ mtime' = mtime + 1
  /\ writer' = [writer EXCEPT ![w].at = "open", ![w].mixed = FALSE]
  /\ UNCHANGED <<proxyVars, writes>>

WriteConfig(w) ==  \* over what another may have written since: its end may stay
  /\ writer[w].at = "open"
  /\ conf' \in IF writer[w].mixed THEN {writer[w].data, Invalid} ELSE {writer[w].data}
  /\ mtime' = mtime + 1
  /\ writer' = [x \in Writers |-> IF x = w THEN IdleWriter
                                  ELSE IF writer[x].at = "open"
                                  THEN [writer[x] EXCEPT !.mixed = TRUE] ELSE writer[x]]
  /\ UNCHANGED <<proxyVars, writes>>

WriterDies(w) ==
  /\ writer[w].at # "idle"
  /\ writer' = [writer EXCEPT ![w] = IdleWriter]
  /\ UNCHANGED <<conf, mtime, proxyVars, writes>>

-----------------------------------------------------------------------------
(* The proxy.  A reload keeps its event loop, not the writers.             *)

WritersKept == UNCHANGED <<conf, mtime, writer, writes>>

StartProxy ==
  /\ proxy = "down" /\ conf # Invalid /\ hups < MaxHups
  /\ proxy' = "loaded" /\ config' = conf /\ started' = conf
  /\ seen' = mtime /\ missed' = FALSE /\ hups' = hups + 1
  /\ WritersKept

WatchConfig ==  \* until here `seen` stands for the time of the file that was loaded
  /\ proxy = "loaded"
  /\ proxy' = "asleep" /\ seen' = mtime /\ missed' = (seen # mtime)
  /\ UNCHANGED <<config, started, hups>> /\ WritersKept

PollConfig ==
  /\ proxy = "asleep" /\ mtime # seen
  /\ seen' = mtime
  /\ proxy' = "reading"
  /\ UNCHANGED <<config, started, missed, hups>> /\ WritersKept

Hup ==
  /\ proxy = "asleep" /\ hups < MaxHups
  /\ proxy' = "reading" /\ hups' = hups + 1
  /\ UNCHANGED <<seen, config, started, missed>> /\ WritersKept

CheckSyntax ==  \* load_config reads the file twice
  /\ proxy = "reading"
  /\ proxy' = IF conf = Invalid THEN "asleep" ELSE "parsed"
  /\ UNCHANGED <<seen, config, started, missed, hups>> /\ WritersKept

LoadUnlessSkipped ==  \* mutant: a file that changes a field that needs a restart is ignored
  /\ proxy = "parsed"
  /\ config' = IF conf = Invalid \/ conf["fixed"] # config["fixed"] THEN config ELSE conf
  /\ proxy' = "asleep" /\ missed' = FALSE
  /\ UNCHANGED <<seen, started, hups>> /\ WritersKept

LoadConfig ==
  /\ proxy = "parsed"
  /\ config' = IF conf = Invalid THEN config ELSE [conf EXCEPT !["fixed"] = config["fixed"]]
  /\ proxy' = "asleep" /\ missed' = FALSE
  /\ UNCHANGED <<seen, started, hups>> /\ WritersKept

StopProxy ==
  /\ proxy = "asleep"
  /\ proxy' = "down"
  /\ UNCHANGED <<seen, config, started, missed, hups>> /\ WritersKept

ReloadNext ==
  \/ \E c \in Settings \cup {Invalid} : EditByHand(c)
  \/ \E w \in Writers : \/ \E f \in Fields, v \in Values : ReadConfig(w, f, v)
                        \/ ResetConfig(w) \/ TruncateConfig(w) \/ WriteConfig(w) \/ WriterDies(w)
  \/ StartProxy \/ WatchConfig \/ PollConfig \/ Hup \/ CheckSyntax \/ LoadConfig \/ StopProxy

\* The proxy's loop runs; nothing makes a writer finish.
ReloadFairness ==
  /\ WF_reloadVars(WatchConfig) /\ WF_reloadVars(PollConfig)
  /\ WF_reloadVars(CheckSyntax \/ LoadConfig)

ReloadSpec == ReloadInit /\ [][ReloadNext]_reloadVars /\ ReloadFairness

-----------------------------------------------------------------------------
(* What must hold.                                                         *)

\* Type invariant of the config file and its readers.
ReloadTypeOK ==
  /\ conf \in Settings \cup {Invalid} /\ mtime \in Nat /\ seen \in 0..mtime
  /\ writer \in [Writers -> [at : {"idle", "edited", "open"}, data : Settings, mixed : BOOLEAN]]
  /\ proxy \in {"down", "loaded", "asleep", "reading", "parsed"}
  /\ {config, started} \subseteq Settings /\ missed \in BOOLEAN
  /\ writes \in 0..MaxWrites /\ hups \in 0..MaxHups

CaughtUp == \/ proxy = "down" \/ missed \/ conf = Invalid
            \/ config["live"] = conf["live"]

\* However writers, edits and reloads overlap, the proxy ends up with what the file says
\* once the file rests (changes are bounded here, so it does), unless that is invalid or
\* changed before the watcher's first look.
ReloadCatchesUp == []<>CaughtUp

\* Through every reload the fields that need a restart stay those the proxy was started with.
FixedUntilRestart == proxy # "down" => config["fixed"] = started["fixed"]
=============================================================================
