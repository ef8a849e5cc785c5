------------------------------ MODULE Download -------------------------------
(***************************************************************************)
(* One model directory, the `drove models download` and `delete` commands  *)
(* that work on it, and the verdict of the model store that decides        *)
(* whether the proxy lists and serves it.  Commands are processes without  *)
(* a lock between them: they may overlap, be killed at any step and be run *)
(* again, with another selection of the repository's files or after its    *)
(* author has replaced them.                                               *)
(*                                                                         *)
(* Files are numbered the way their names sort, so that the smallest file  *)
(* of a selection is its first shard.                                      *)
(***************************************************************************)
EXTENDS Integers, FiniteSets

CONSTANTS
  Users,        \* terminals, each running one command at a time
  Files,        \* the repository's files
  Selections,   \* the sets of weights one can ask for: a quant, all, a voice
  Projectors,   \* mmproj files, best variant first
  Speech,       \* weights and support files of a text-to-speech repository
  Onnx,         \* ONNX weights
  Splits,       \* families of files named like -00001-of-00003.gguf
  Foldered,     \* files the repository keeps in a folder
  Unsized,      \* files whose size the hub does not tell
  Revisions,    \* bound: how many times the repository is published
  Size,         \* bytes of each file at each revision
  FolderFirst,  \* a folder's name sorts before the files beside it
  MaxCommands,  \* bound: how many commands are given
  MaxMishaps,   \* bound: damaged files and new revisions, together
  None

Gguf == Files \ (Projectors \cup Speech \cup Onnx)
Marker == 0  \* model.tts, the primary of a speech model

ASSUME FilesAssumption ==
  /\ Files \subseteq Nat \ {Marker} /\ IsFiniteSet(Files)
  /\ Projectors \cup Speech \cup Onnx \cup Foldered \cup Unsized \subseteq Files
  /\ Projectors \cap (Speech \cup Onnx) = {} /\ Speech \cap Onnx = {}
  /\ Splits \subseteq SUBSET Gguf
  /\ None \notin Nat
  /\ \A place \in {"flat", "folder"}, f \in Files \cup {Marker} :
       None # [place |-> place, file |-> f]
ASSUME SelectionsAssumption ==
  /\ \A s \in Selections : s # {} /\ \E kind \in {Gguf, Onnx, Speech} : s \subseteq kind
  /\ \A s, t \in Selections :  \* quants are disjoint, "all" holds each of them
       s \cap t # {} => s \subseteq Speech \/ s \subseteq t \/ t \subseteq s
ASSUME ShardsAssumption ==  \* a quant's shards share its name
  \A family \in Splits, s \in Selections : family \cap s # {} => family \subseteq s
ASSUME SizeAssumption ==
  /\ Revisions \in Nat \ {0}
  /\ Size \in [1..Revisions -> [Files -> Nat \ {0, 1}]]
ASSUME SwitchesAssumption == FolderFirst \in BOOLEAN
ASSUME BoundsAssumption == MaxCommands \in Nat /\ MaxMishaps \in Nat

VARIABLES
  revision,    \* what the hub would send now
  exists,      \* the model directory is there
  disk,        \* size of each file in its final place
  raw,         \* size of each file still in its repository folder
  record,      \* .drove-download.json, None = no such file
  marker,      \* model.tts is there
  sidecars,    \* sections of the TOML beside each primary
  at,          \* where each user's command is
  sel,         \* the selection it downloads
  repair,      \* --repair-config
  plan,        \* the size it expects of each file
  todo,        \* files it still has to fetch
  doomed,      \* entries a delete still has to unlink
  commands,    \* commands given so far
  mishaps,     \* files damaged and revisions published so far
  alone,       \* history: no other step has disturbed it
  reported,    \* history: the last undisturbed success, until something changes
  used,        \* history: selections downloaded into this directory
  overlapped   \* history: commands have overlapped

diskVars == <<exists, disk, raw, record, marker, sidecars>>
cmdVars == <<at, sel, repair, plan, todo, doomed>>
bounds == <<commands, mishaps>>
history == <<alone, reported, used, overlapped>>
vars == <<revision, exists, disk, raw, record, marker, sidecars, at, sel, repair,
          plan, todo, doomed, commands, mishaps, alone, reported, used, overlapped>>

First(S) == CHOOSE x \in S : \A y \in S : x <= y
Put(f, x, v) == [y \in DOMAIN f \cup {x} |-> IF y = x THEN v ELSE f[y]]
Without(f, S) == [y \in DOMAIN f \ S |-> f[y]]
Nothing == [f \in {} |-> 0]

-----------------------------------------------------------------------------
(* What a selection needs, and what the store makes of the directory.       *)

Speaks(s) == s \subseteq Speech
Companion(s) ==
  IF s \subseteq Gguf /\ Projectors # {} THEN {First(Projectors)} ELSE {}
Needed(s) == s \cup Companion(s)
Expected(s, r) ==
  [f \in Needed(s) |-> IF f \in Unsized THEN 0 ELSE Size[r][f]]

\* The primary that _finish_download and the store mean by a selection.
Entry(s) == IF Speaks(s) THEN Marker ELSE First(s)

Complete(u, f) == f \in DOMAIN disk /\ disk[f] >= plan[u][f]

At(place, f) == [place |-> place, file |-> f]
Beside(place) == IF place = "flat" THEN DOMAIN disk ELSE DOMAIN raw

Names(f) == f \in DOMAIN sidecars /\ "download" \in sidecars[f]

FirstByPath(kind) ==
  IF Beside("folder") \cap kind # {} /\ (FolderFirst \/ Beside("flat") \cap kind = {})
  THEN At("folder", First(Beside("folder") \cap kind))
  ELSE At("flat", First(Beside("flat") \cap kind))

Found(kind) == (DOMAIN disk \cup DOMAIN raw) \cap kind # {}

SelectPrimary ==
  LET named == {f \in DOMAIN disk \cap Gguf : Names(f)}
  IN IF marker THEN At("flat", Marker)
     ELSE IF named # {} THEN At("flat", First(named))
     ELSE IF Found(Gguf) THEN FirstByPath(Gguf)
     ELSE IF Found(Onnx) THEN FirstByPath(Onnx)
     ELSE None

RecordAllowsLarger(primary) ==  \* mutant: compares the way the downloader does
  /\ record.state = "complete"
  /\ \A f \in DOMAIN record.files : f \in DOMAIN disk /\ disk[f] >= record.files[f]
  /\ \/ primary.file = Marker
     \/ primary.place = "flat" /\ primary.file \in DOMAIN record.files

RecordAllows(primary) ==
  /\ record.state = "complete"
  /\ \A f \in DOMAIN record.files :
       /\ f \in DOMAIN disk
       /\ record.files[f] # 0 => disk[f] = record.files[f]
  /\ \/ primary.file = Marker
     \/ primary.place = "flat" /\ primary.file \in DOMAIN record.files

SplitIsWhole(primary) ==
  \A family \in Splits :
    primary.file \in family =>
      primary.file = First(family) /\ family \subseteq Beside(primary.place)

Servable(primary) ==
  /\ primary # None
  /\ record # None => RecordAllows(primary)
  /\ SplitIsWhole(primary)

Served == Servable(SelectPrimary)

-----------------------------------------------------------------------------
(* No directory yet.                                                        *)

InitCommands ==
  /\ at = [u \in Users |-> "idle"]
  /\ sel = [u \in Users |-> None]
  /\ repair = [u \in Users |-> FALSE]
  /\ plan = [u \in Users |-> Nothing]
  /\ todo = [u \in Users |-> {}]
  /\ doomed = [u \in Users |-> {}]

Init ==
  /\ revision = 1
  /\ exists = FALSE
  /\ disk = Nothing /\ raw = Nothing /\ sidecars = Nothing
  /\ record = None
  /\ marker = FALSE
  /\ InitCommands
  /\ commands = 0 /\ mishaps = 0
  /\ alone = [u \in Users |-> FALSE]
  /\ reported = None
  /\ used = {}
  /\ overlapped = FALSE

-----------------------------------------------------------------------------
(* Steps of a command.  Whatever a step does not name stays as it is.       *)

Goes(u, step) == at' = [at EXCEPT ![u] = step]

Ends(u) ==
  /\ Goes(u, "idle")
  /\ sel' = [sel EXCEPT ![u] = None]
  /\ repair' = [repair EXCEPT ![u] = FALSE]
  /\ plan' = [plan EXCEPT ![u] = Nothing]
  /\ todo' = [todo EXCEPT ![u] = {}]
  /\ doomed' = [doomed EXCEPT ![u] = {}]

Busy(u) == at[u] # "idle"
OthersIdle(u) == \A v \in Users \ {u} : ~Busy(v)

\* A command enters: it disturbs those that run, and they it.
Enters(u) ==
  /\ ~Busy(u)
  /\ commands < MaxCommands
  /\ commands' = commands + 1
  /\ alone' = [v \in Users |-> v = u /\ OthersIdle(u)]
  /\ overlapped' = (overlapped \/ ~OthersIdle(u))

\* full: the command transferred and configured, instead of finding all there.
Succeeds(u, full) ==
  /\ reported' = IF alone[u] THEN [sel |-> sel[u], full |-> full] ELSE None
  /\ Ends(u)

DownloadModel(u, s, fix) ==
  /\ Enters(u)
  /\ Goes(u, "resolved")
  /\ sel' = [sel EXCEPT ![u] = s]
  /\ repair' = [repair EXCEPT ![u] = fix]
  /\ plan' = [plan EXCEPT ![u] = Expected(s, revision)]
  /\ UNCHANGED <<revision, diskVars, todo, doomed, mishaps, reported, used>>

Pending == record # None /\ record.state = "incomplete"

CheckLocalFilesOnly(u) ==  \* mutant: does not ask the record
  /\ at[u] = "resolved"
  /\ IF /\ \A f \in DOMAIN plan[u] : Complete(u, f)
        /\ ~Speaks(sel[u]) /\ ~repair[u]
     THEN Succeeds(u, FALSE)
     ELSE /\ Goes(u, "confirmed")
          /\ UNCHANGED <<sel, repair, plan, todo, doomed, reported>>
  /\ UNCHANGED <<revision, diskVars, alone, used, overlapped, bounds>>

\* The local files and the record, read one after the other: a step of another
\* command between the two reads can as well come after both.
CheckLocalFiles(u) ==
  /\ at[u] = "resolved"
  /\ IF /\ \A f \in DOMAIN plan[u] : Complete(u, f)
        /\ ~Speaks(sel[u]) /\ ~repair[u] /\ ~Pending
     THEN Succeeds(u, FALSE)
     ELSE /\ Goes(u, "confirmed")
          /\ UNCHANGED <<sel, repair, plan, todo, doomed, reported>>
  /\ UNCHANGED <<revision, diskVars, alone, used, overlapped, bounds>>

Execute(u) ==
  /\ at[u] = "confirmed"
  /\ Goes(u, "surveying")
  /\ exists' = TRUE
  /\ record' = [state |-> "incomplete", files |-> plan[u]]
  /\ reported' = None
  /\ used' = used \cup {sel[u]}
  /\ UNCHANGED <<revision, disk, raw, marker, sidecars, sel, repair, plan, todo,
                 doomed, alone, overlapped, bounds>>

\* Where a download goes once nothing is left to fetch.
Landed(u) == IF Speaks(sel[u]) THEN "configuring" ELSE "recording"

SurveyRepository(u) ==  \* mutant: looks at all files of the repository
  LET lacking == {f \in Files : f \notin DOMAIN disk}
  IN /\ at[u] = "surveying"
     /\ todo' = [todo EXCEPT ![u] = lacking]
     /\ Goes(u, IF lacking = {} THEN Landed(u) ELSE "fetching")
     /\ UNCHANGED <<revision, diskVars, sel, repair, plan, doomed, history, bounds>>

Survey(u) ==
  LET lacking == {f \in DOMAIN plan[u] : ~Complete(u, f)}
  IN /\ at[u] = "surveying"
     /\ todo' = [todo EXCEPT ![u] = lacking]
     /\ Goes(u, IF lacking = {} THEN Landed(u) ELSE "fetching")
     /\ UNCHANGED <<revision, diskVars, sel, repair, plan, doomed, history, bounds>>

\* Weights before projectors, each in the order of their names.
Upcoming(u) ==
  LET weights == todo[u] \ Projectors
  IN First(IF weights # {} THEN weights ELSE todo[u])

Tick(u, f) ==
  /\ todo' = [todo EXCEPT ![u] = @ \ {f}]
  /\ Goes(u, IF todo[u] = {f} THEN Landed(u) ELSE "fetching")

\* hf_hub_download makes the directory it needs, fetches the current revision
\* and moves the whole file into place.
HubDownload(u) ==
  LET f == Upcoming(u)
      arrived == Size[revision][f]
  IN /\ at[u] = "fetching"
     /\ exists' = TRUE
     /\ IF f \in Foldered /\ ~Speaks(sel[u])
        THEN /\ raw' = Put(raw, f, arrived)
             /\ Goes(u, "flattening")
             /\ UNCHANGED <<disk, todo>>
        ELSE /\ disk' = Put(disk, f, arrived)
             /\ Tick(u, f)
             /\ UNCHANGED raw
     /\ UNCHANGED <<revision, record, marker, sidecars, sel, repair, plan, doomed,
                    history, bounds>>

\* Another download may have moved the file already.
Flatten(u) ==
  LET f == Upcoming(u)
  IN /\ at[u] = "flattening"
     /\ IF f \in DOMAIN raw
        THEN disk' = Put(disk, f, raw[f]) /\ raw' = Without(raw, {f})
        ELSE UNCHANGED <<disk, raw>>
     /\ Tick(u, f)
     /\ UNCHANGED <<revision, exists, record, marker, sidecars, sel, repair, plan,
                    doomed, history, bounds>>

Sections(f) == IF f \in DOMAIN sidecars THEN sidecars[f] ELSE {}
Writes(f, section) == sidecars' = Put(sidecars, f, Sections(f) \cup {section})

\* The writes below fail when a delete has removed the directory: Interrupt.
SaveTtsConfig(u) ==
  /\ at[u] = "configuring"
  /\ exists
  /\ Writes(Marker, "tts")
  /\ Goes(u, "marking")
  /\ UNCHANGED <<revision, exists, disk, raw, record, marker, sel, repair, plan,
                 todo, doomed, history, bounds>>

TouchMarker(u) ==
  /\ at[u] = "marking"
  /\ exists
  /\ marker' = TRUE
  /\ Goes(u, "recording")
  /\ UNCHANGED <<revision, exists, disk, raw, record, sidecars, sel, repair, plan,
                 todo, doomed, history, bounds>>

RecordComplete(u) ==
  /\ at[u] = "recording"
  /\ exists
  /\ record' = [state |-> "complete", files |-> plan[u]]
  /\ Goes(u, "metadata")
  /\ UNCHANGED <<revision, exists, disk, raw, marker, sidecars, sel, repair, plan,
                 todo, doomed, history, bounds>>

SaveDownloadInfo(u) ==
  /\ at[u] = "metadata"
  /\ exists
  /\ Writes(Entry(sel[u]), "download")
  /\ IF Companion(sel[u]) = {}
     THEN Succeeds(u, TRUE)
     ELSE /\ Goes(u, "settings")
          /\ UNCHANGED <<sel, repair, plan, todo, doomed, reported>>
  /\ UNCHANGED <<revision, exists, disk, raw, record, marker, alone, used, overlapped, bounds>>

SaveMmproj(u) ==
  /\ at[u] = "settings"
  /\ exists
  /\ IF repair[u] /\ "mmproj" \in Sections(Entry(sel[u]))
     THEN UNCHANGED sidecars
     ELSE Writes(Entry(sel[u]), "mmproj")
  /\ Succeeds(u, TRUE)
  /\ UNCHANGED <<revision, exists, disk, raw, record, marker, alone, used, overlapped, bounds>>

\* The user declines, a step raises, or the process is killed.
Interrupt(u) ==
  /\ Busy(u)
  /\ Ends(u)
  /\ UNCHANGED <<revision, diskVars, history, bounds>>

-----------------------------------------------------------------------------
(* drove models delete: shutil.rmtree lists the directory, unlinks what it  *)
(* listed in no particular order and removes the directory if it is empty.  *)

Entries ==
  ({"flat"} \X DOMAIN disk) \cup ({"folder"} \X DOMAIN raw)
    \cup ({"sidecar"} \X DOMAIN sidecars)
    \cup (IF marker THEN {<<"marker", Marker>>} ELSE {})
    \cup (IF record # None THEN {<<"record", Marker>>} ELSE {})

DeleteModel(u) ==
  /\ Enters(u)
  /\ exists
  /\ Goes(u, "deleting")
  /\ doomed' = [doomed EXCEPT ![u] = Entries]
  /\ UNCHANGED <<revision, diskVars, sel, repair, plan, todo, mishaps, reported, used>>

Unlink(u, entry) ==
  LET Gone(kind) == IF entry[1] = kind THEN {entry[2]} ELSE {}
  IN /\ at[u] = "deleting"
     /\ entry \in doomed[u]
     /\ doomed' = [doomed EXCEPT ![u] = @ \ {entry}]
     /\ disk' = Without(disk, Gone("flat"))
     /\ raw' = Without(raw, Gone("folder"))
     /\ sidecars' = Without(sidecars, Gone("sidecar"))
     /\ marker' = (marker /\ entry[1] # "marker")
     /\ record' = IF entry[1] = "record" THEN None ELSE record
     /\ reported' = None
     /\ UNCHANGED <<revision, exists, at, sel, repair, plan, todo, alone, used,
                    overlapped, bounds>>

RemoveDirectory(u) ==
  /\ at[u] = "deleting"
  /\ doomed[u] = {}
  /\ exists /\ Entries = {}
  /\ exists' = FALSE
  /\ Ends(u)
  /\ used' = IF OthersIdle(u) THEN {} ELSE used
  /\ overlapped' = (overlapped /\ ~OthersIdle(u))
  /\ UNCHANGED <<revision, disk, raw, record, marker, sidecars, alone, reported, bounds>>

-----------------------------------------------------------------------------
(* What happens behind drove's back.                                        *)

Mishap ==
  /\ mishaps < MaxMishaps
  /\ mishaps' = mishaps + 1
  /\ alone' = [u \in Users |-> FALSE]

\* The author replaces the repository's files.
Republish ==
  /\ revision < Revisions
  /\ revision' = revision + 1
  /\ Mishap
  /\ UNCHANGED <<diskVars, cmdVars, reported, used, overlapped, commands>>

\* A file is truncated or removed.
Damage(f) ==
  /\ f \in DOMAIN disk
  /\ disk' \in {Put(disk, f, 1), Without(disk, {f})}
  /\ Mishap
  /\ reported' = None
  /\ UNCHANGED <<revision, exists, raw, record, marker, sidecars, cmdVars, used,
                 overlapped, commands>>

-----------------------------------------------------------------------------
Step(u) ==
  \/ \E s \in Selections, fix \in BOOLEAN : DownloadModel(u, s, fix)
  \/ CheckLocalFiles(u)
  \/ Execute(u)
  \/ Survey(u)
  \/ HubDownload(u)
  \/ Flatten(u)
  \/ SaveTtsConfig(u)
  \/ TouchMarker(u)
  \/ RecordComplete(u)
  \/ SaveDownloadInfo(u)
  \/ SaveMmproj(u)
  \/ Interrupt(u)
  \/ DeleteModel(u)
  \/ \E entry \in doomed[u] : Unlink(u, entry)
  \/ RemoveDirectory(u)

Next ==
  \/ \E u \in Users : Step(u)
  \/ Republish
  \/ \E f \in Files : Damage(f)

Spec == Init /\ [][Next]_vars

-----------------------------------------------------------------------------
Bytes == {0, 1} \cup UNION {{Size[r][f] : f \in Files} : r \in 1..Revisions}
Sizes(f) == DOMAIN f \subseteq Files /\ \A x \in DOMAIN f : f[x] \in Bytes
Steps == {"idle", "resolved", "confirmed", "surveying", "fetching", "flattening",
          "configuring", "marking", "recording", "metadata", "settings", "deleting"}
Downloading(u) == at[u] \notin {"idle", "deleting"}
AllEntries ==
  {"flat", "folder", "sidecar", "marker", "record"} \X (Files \cup {Marker})

DiskTyped ==
  /\ revision \in 1..Revisions
  /\ exists \in BOOLEAN /\ marker \in BOOLEAN
  /\ Sizes(disk) /\ Sizes(raw)
  /\ record # None => record.state \in {"incomplete", "complete"} /\ Sizes(record.files)
  /\ DOMAIN sidecars \subseteq Files \cup {Marker}
  /\ \A f \in DOMAIN sidecars : sidecars[f] \subseteq {"download", "mmproj", "tts"}

CommandsTyped ==
  /\ at \in [Users -> Steps] /\ repair \in [Users -> BOOLEAN]
  /\ sel \in [Users -> Selections \cup {None}]
  /\ DOMAIN plan = Users /\ todo \in [Users -> SUBSET Files]
  /\ doomed \in [Users -> SUBSET AllEntries]
  /\ \A u \in Users :
       /\ Downloading(u) => sel[u] \in Selections
       /\ Sizes(plan[u]) /\ todo[u] \subseteq DOMAIN plan[u]
       /\ at[u] \in {"fetching", "flattening"} => todo[u] # {}
       /\ at[u] = "idle" => todo[u] = {}

HistoryTyped ==
  /\ commands \in 0..MaxCommands /\ mishaps \in 0..MaxMishaps
  /\ alone \in [Users -> BOOLEAN] /\ overlapped \in BOOLEAN
  /\ used \subseteq Selections
  /\ reported # None => reported \in [sel : Selections, full : BOOLEAN]

\* Every variable stays within its type; a download knows its selection, works
\* on files of its plan only and has one to fetch whenever it fetches.
TypeOK == DiskTyped /\ CommandsTyped /\ HistoryTyped

\* What an answer of the store vouches for: the primary begins a selection
\* whose every file is there, whole and of one revision.
WholeSelection(primary) ==
  \E s \in Selections, r \in 1..Revisions :
    /\ primary.file = Entry(s)
    /\ \A f \in Needed(s) :
         f \in DOMAIN disk /\ (f \notin Unsized => disk[f] = Size[r][f])

\* A model with a download record is listed and served only if everything of
\* one selection is on disk at the size one revision of the repository gave
\* it, wherever commands were killed, overlapped or damaged: "an interrupted
\* download is never listed or served" (downloader.py, execute).  Directories
\* without a record are trusted as they are, and so is the marker of a speech
\* model whose record another download has replaced.
ServedIsWhole ==
  LET primary == SelectPrimary
  IN Served /\ record # None /\ (primary.file = Marker => DOMAIN record.files \subseteq Speech)
       => WholeSelection(primary)

\* The store serves this selection, with the metadata and settings a full run
\* promises to have published (cli/models.py, _finish_download).
Serves(outcome) ==
  LET s == outcome.sel
  IN /\ Served
     /\ SelectPrimary = At("flat", Entry(s))
     /\ Speaks(s) => "tts" \in Sections(Marker)
     /\ outcome.full => /\ "download" \in Sections(Entry(s))
                        /\ Companion(s) # {} => "mmproj" \in Sections(Entry(s))

\* A download that ran undisturbed and ended in success leaves its selection
\* served, if it is used the way it is documented to be: rerun after it was
\* interrupted, damaged or half deleted, of the same revision, in a directory
\* where no two commands ever overlapped and nothing else was downloaded.
SuccessServes ==
  /\ reported # None
  /\ used \subseteq {reported.sel} /\ revision = 1 /\ ~overlapped
  => Serves(reported)

\* "Rerun 'drove models download' for it to finish the download"
\* (model_store.py, resolve): once an undisturbed rerun has found the model
\* already fully downloaded, the store no longer calls it incomplete.
RerunFinishes == reported # None /\ ~reported.full => Served
=============================================================================
