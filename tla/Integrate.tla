------------------------------ MODULE Integrate ------------------------------
(***************************************************************************)
(* `drove integrate`: drove's chat models are registered in the config     *)
(* files of a coding agent.  A run edits the files in memory, stages every *)
(* changed one beside its target, then backs up and replaces them one by   *)
(* one, and undoes what it did when a step fails.  Any file operation may  *)
(* fail, the user may press Ctrl-C, and the process may be killed.         *)
(*                                                                         *)
(* pi keeps its models and what is selected in two files; opencode and     *)
(* Kilo Code keep both in one.  Nothing else writes them during a run.     *)
(***************************************************************************)
EXTENDS Integers, Sequences, FiniteSets, SequencesExt

CONSTANTS
  Models,        \* names of models
  NoModel,       \* no --default
  Absent,        \* a file that does not exist
  Unregistered,  \* a file without drove's provider
  CutShort,      \* a .bak that was not written to its end
  MaxRuns,       \* bound: runs of the command
  MaxFaults,     \* bound: operations that fail, interrupts and kills
  MaxEdits       \* bound: changes to the store and selections by the user

Files     == {"main", "settings"}
Keys      == {"default", "other"}   \* two places where a model is selected
Providers == {"drove", "another"}
Refs      == [key : Keys, provider : Providers, model : Models]
Contents  == [models : (SUBSET Models) \cup {Unregistered}, selected : SUBSET Refs]

ASSUME IntegrateAssumption ==
  /\ IsFiniteSet(Models) /\ NoModel \notin Models
  /\ {MaxRuns, MaxFaults, MaxEdits} \subseteq Nat
  /\ Absent \notin Contents /\ \A models \in SUBSET Models : Unregistered # models

VARIABLES
  agent,     \* "pi" or "opencode"
  offered,   \* chat models in drove's store
  files,     \* of each path the content, or Absent
  old,       \* the contents the run has read
  want,      \* and what they are to become
  bak,       \* of each path the content of its .bak, or Absent
  temps,     \* temporary files of the last run still on disk
  pos,       \* in the list of changed files
  replaced,  \* the list write_configs keeps of what it has replaced
  failed,    \* the list _roll_back keeps of what it could not restore
  step,      \* where the run is
  cause,     \* what made it undo its work: "error" or "interrupt"
  outcome,   \* how the last run ended
  excused,   \* history: what an ill-timed fault made impossible
  damaged,   \* history: some run has left the files half written
  runs, faults, edits

runVars       == <<bak, temps, pos, replaced, failed, cause, excused, damaged, faults>>
integrateVars == <<agent, offered, files, old, want, step, outcome, runs, edits, runVars>>

-----------------------------------------------------------------------------
(* The edits, in memory.                                                   *)

SettingsFile == IF agent = "pi" THEN "settings" ELSE "main"

Empty == [models |-> Unregistered, selected |-> {}]

\* A missing file is loaded as an empty one.
Content(c)  == IF c = Absent THEN Empty ELSE c
LoadedFiles == [f \in Files |-> Content(files[f])]

ModelIds(data) == IF data["main"].models = Unregistered THEN {} ELSE data["main"].models

PointsAtRemoved(ref, removed) == ref.provider = "drove" /\ ref.model \in removed

ClearSelections(data, removed) ==
  [data EXCEPT ![SettingsFile].selected = {s \in @ : ~PointsAtRemoved(s, removed)}]

ApplyQuietly(data, specs, prune) ==  \* mutant: what is selected is left as it was
  [data EXCEPT !["main"].models = specs \cup IF prune THEN {} ELSE ModelIds(data)]

Apply(data, specs, prune) ==
  LET stale == ModelIds(data) \ specs
      added == [data EXCEPT !["main"].models = specs \cup (ModelIds(data) \ IF prune THEN stale
                                                                            ELSE {})]
  IN  IF prune THEN ClearSelections(added, stale) ELSE added

\* With no names the whole provider goes.
RemoveModels(data, names) ==
  IF names = {} THEN ClearSelections([data EXCEPT !["main"].models = Unregistered], Models)
  ELSE ClearSelections(
         IF data["main"].models = Unregistered THEN data
         ELSE [data EXCEPT !["main"].models = @ \ names], names)

SetDefault(data, model) ==
  LET others == {s \in data[SettingsFile].selected : s.key # "default"}
  IN  [data EXCEPT ![SettingsFile].selected =
         others \cup {[key |-> "default", provider |-> "drove", model |-> model]}]

Requests == [names : SUBSET Models, default : Models \cup {NoModel}, remove : BOOLEAN]

Specs(request) == IF request.names = {} THEN offered ELSE request.names

\* The run ends with an error message before it touches anything.
Refused(request) ==
  IF request.remove THEN request.default # NoModel
  ELSE \/ ~ request.names \subseteq offered
       \/ Specs(request) = {} /\ (ModelIds(LoadedFiles) = {} \/ request.default # NoModel)
       \/ Specs(request) # {} /\ request.default \notin Specs(request) \cup {NoModel}

Edited(request) ==
  IF request.remove THEN RemoveModels(LoadedFiles, request.names)
  ELSE IF Specs(request) = {} THEN RemoveModels(LoadedFiles, ModelIds(LoadedFiles))
  ELSE LET applied == Apply(LoadedFiles, Specs(request), request.names = {})
       IN  IF request.default = NoModel THEN applied ELSE SetDefault(applied, request.default)

\* In the order in which they were first read.
IfChanged(f) == IF want[f] # Content(old[f]) THEN <<f>> ELSE <<>>
Changed == IfChanged("main") \o IfChanged("settings")

-----------------------------------------------------------------------------
(* Between runs.                                                           *)

IntegrateInit ==
  /\ agent \in {"pi", "opencode"}
  /\ offered \in (SUBSET Models) \ {{}}
  /\ files = [f \in Files |-> Absent] /\ old = files /\ bak = files
  /\ want = [f \in Files |-> Empty]
  /\ temps = {} /\ pos = 1 /\ replaced = <<>> /\ failed = {}
  /\ step = "idle" /\ cause = "none" /\ outcome = "none"
  /\ excused = {} /\ damaged = FALSE
  /\ runs = 0 /\ faults = 0 /\ edits = 0

UserEdits == step = "idle" /\ edits < MaxEdits /\ edits' = edits + 1

ChangeStore(models) ==
  /\ UserEdits /\ models # offered
  /\ offered' = models
  /\ UNCHANGED <<agent, files, old, want, step, outcome, runs, runVars>>

SelectInAgent(ref) ==  \* the agent offers what is registered
  /\ UserEdits /\ files["main"] # Absent
  /\ ref.provider = "drove" => ref.model \in ModelIds(LoadedFiles)
  /\ files' = [files EXCEPT ![SettingsFile] =
                 [LoadedFiles[SettingsFile] EXCEPT
                    !.selected = {s \in @ : s.key # ref.key} \cup {ref}]]
  /\ old' = files' /\ outcome' = "none"
  /\ UNCHANGED <<agent, offered, want, step, runs, runVars>>

-----------------------------------------------------------------------------
(* A run: integrate, write_configs and _roll_back.                         *)

RunIntegrate(request) ==
  /\ step = "idle" /\ runs < MaxRuns /\ ~Refused(request)
  /\ runs' = runs + 1
  /\ old' = files /\ want' = Edited(request)
  /\ IF want' = LoadedFiles THEN step' = "idle" /\ outcome' = "written"
                       ELSE step' = "staging" /\ outcome' = "none"
  /\ temps' = {} /\ pos' = 1 /\ replaced' = <<>> /\ failed' = {}
  /\ cause' = "none" /\ excused' = {}
  /\ UNCHANGED <<agent, offered, files, bak, damaged, faults, edits>>

Current == Changed[pos]
Advance(here, then) ==
  IF pos = Len(Changed) THEN pos' = 1 /\ step' = then ELSE pos' = pos + 1 /\ step' = here

Stage ==
  /\ step = "staging"
  /\ temps' = temps \cup {<<Current, "staged">>}
  /\ Advance("staging", "backup")
  /\ UNCHANGED <<agent, offered, files, old, want, bak, replaced, failed, cause, outcome,
                 excused, damaged, runs, faults, edits>>

Backup ==  \* when there is something to keep
  /\ step = "backup"
  /\ bak' = IF files[Current] = Absent THEN bak ELSE [bak EXCEPT ![Current] = files[Current]]
  /\ step' = "replace"
  /\ UNCHANGED <<agent, offered, files, old, want, temps, pos, replaced, failed, cause, outcome,
                 excused, damaged, runs, faults, edits>>

Replace ==  \* os.replace, and the list
  /\ step = "replace"
  /\ files' = [files EXCEPT ![Current] = want[Current]]
  /\ temps' = temps \ {<<Current, "staged">>}
  /\ replaced' = Append(replaced, [path |-> Current, backup |-> files[Current] # Absent])
  /\ Advance("backup", "idle")
  /\ outcome' = IF step' = "idle" THEN "written" ELSE outcome
  /\ UNCHANGED <<agent, offered, old, want, bak, failed, cause, excused, damaged, runs, faults,
                 edits>>

Fault(why) ==
  /\ faults < MaxFaults /\ faults' = faults + 1
  /\ step' = "undo" /\ cause' = why

\* An error, or Ctrl-C, in one of the three steps.  The temporary file is lost when it
\* cannot be unlinked, or when the interrupt comes before it is on the list.
StepFails(why) ==
  /\ step \in {"staging", "backup", "replace"}
  /\ Fault(why)
  /\ IF step = "staging" THEN \/ UNCHANGED <<temps, excused>>
                              \/ /\ temps' = temps \cup {<<Current, "lost">>}
                                 /\ excused' = excused \cup {"temps"}
     ELSE UNCHANGED <<temps, excused>>
  /\ IF step = "backup" /\ files[Current] # Absent
     THEN bak' \in {bak, [bak EXCEPT ![Current] = CutShort]} ELSE bak' = bak
  /\ UNCHANGED <<agent, offered, files, old, want, pos, replaced, failed, outcome, damaged, runs,
                 edits>>

\* Ctrl-C after os.replace and before the list has it.
InterruptUnlisted ==
  /\ step = "replace"
  /\ Fault("interrupt")
  /\ files' = [files EXCEPT ![Current] = want[Current]]
  /\ temps' = temps \ {<<Current, "staged">>}
  /\ excused' = excused \cup {"unlisted"}
  /\ UNCHANGED <<agent, offered, old, want, bak, pos, replaced, failed, outcome, damaged, runs,
                 edits>>

Restore ==  \* newest first
  /\ step = "undo" /\ replaced # <<>>
  /\ LET last == Last(replaced)
     IN  files' = [files EXCEPT ![last.path] = IF last.backup THEN bak[last.path] ELSE Absent]
  /\ replaced' = Front(replaced)
  /\ UNCHANGED <<agent, offered, old, want, bak, temps, pos, failed, step, cause, outcome,
                 excused, damaged, runs, faults, edits>>

RestoreFails ==
  /\ step = "undo" /\ replaced # <<>>
  /\ faults < MaxFaults /\ faults' = faults + 1
  /\ failed' = failed \cup {Last(replaced).path}
  /\ replaced' = Front(replaced)
  /\ temps' \in {temps, temps \cup {<<Last(replaced).path, "restore">>}}
  /\ UNCHANGED <<agent, offered, files, old, want, bak, pos, step, cause, outcome, excused,
                 damaged, runs, edits>>

End(how) ==
  /\ step' = "idle" /\ outcome' = how
  /\ damaged' = (damaged \/ (files' # old /\ how # "written"))

CleanUp ==  \* whatever cannot be unlinked stays
  /\ step = "undo" /\ replaced = <<>>
  /\ LET lost == {t \in temps : t[2] = "lost"}
     IN  \/ temps' = lost /\ UNCHANGED <<excused, faults>>
         \/ /\ faults < MaxFaults /\ faults' = faults + 1
            /\ \E t \in temps \ lost : temps' = lost \cup {t}
            /\ excused' = excused \cup {"temps"}
  /\ UNCHANGED <<agent, offered, files, old, want, bak, pos, replaced, failed, cause, runs, edits>>
  /\ End(IF failed # {} THEN "incomplete" ELSE cause)

\* A second Ctrl-C ends _roll_back half way, a kill anything.
Aborted ==
  /\ step # "idle" /\ faults < MaxFaults /\ faults' = faults + 1
  /\ UNCHANGED <<agent, offered, files, old, want, bak, temps, pos, replaced, failed, cause,
                 excused, runs, edits>>
  /\ \/ step = "undo" /\ End("abandoned")
     \/ End("killed")

IntegrateNext ==
  \/ \E models \in SUBSET Models : ChangeStore(models)
  \/ \E ref \in Refs : SelectInAgent(ref)
  \/ \E request \in Requests : RunIntegrate(request)
  \/ Stage \/ Backup \/ Replace \/ \E why \in {"error", "interrupt"} : StepFails(why)
  \/ InterruptUnlisted \/ Restore \/ RestoreFails \/ CleanUp \/ Aborted

IntegrateSpec == IntegrateInit /\ [][IntegrateNext]_integrateVars

-----------------------------------------------------------------------------
(* What must hold.                                                         *)

\* Type invariant of the integration.
IntegrateTypeOK ==
  /\ agent \in {"pi", "opencode"} /\ offered \subseteq Models
  /\ {files, old} \subseteq [Files -> Contents \cup {Absent}]
  /\ want \in [Files -> Contents] /\ bak \in [Files -> Contents \cup {Absent, CutShort}]
  /\ temps \subseteq Files \X {"staged", "lost", "restore"}
  /\ pos \in 1..2 /\ failed \subseteq Files
  /\ replaced \in Seq([path : Files, backup : BOOLEAN])
  /\ step \in {"idle", "staging", "backup", "replace", "undo"}
  /\ step \notin {"idle", "undo"} => pos <= Len(Changed)
  /\ cause \in {"none", "error", "interrupt"} /\ damaged \in BOOLEAN
  /\ outcome \in {"none", "written", "error", "interrupt", "incomplete", "abandoned", "killed"}

Differs == {f \in Files : files[f] # old[f]}

\* A run that says it has updated the files has updated all of them, one that says nothing
\* was changed has changed none, and one that could not undo its work names exactly the
\* files that are not as they were; a clean end leaves no temporary file.  Excused is an
\* interrupt between a replacement and its record, and a file that cannot be unlinked.
WrittenOrReported ==
  step = "idle" =>
    /\ outcome = "written" => \A f \in Files : Content(files[f]) = want[f]
    /\ outcome \in {"error", "interrupt"} /\ "unlisted" \notin excused => Differs = {}
    /\ outcome = "incomplete" /\ "unlisted" \notin excused => Differs = failed
    /\ outcome \in {"written", "error", "interrupt", "incomplete"} /\ "temps" \notin excused
         => temps = {}

\* Whatever fails or kills the run, each file is the old one or the new one, and what a
\* file held before is still there or in its backup.
NothingLost ==
  \A f \in Files : /\ files[f] \in {old[f], want[f]}
                   /\ (f \in Differs /\ old[f] # Absent) => bak[f] = old[f]

\* The agent never has a model of drove selected that is not registered: over registering,
\* pruning and removing, in one file or two, unless a run was cut short half way.
SelectionsRegistered ==
  step = "idle" /\ ~damaged =>
    \A s \in LoadedFiles[SettingsFile].selected :
      s.provider = "drove" => s.model \in ModelIds(LoadedFiles)
=============================================================================
