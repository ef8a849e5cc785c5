---------------------------- MODULE DownloadProofs ----------------------------
(***************************************************************************)
(* What holds of a model directory for any number of users, files,         *)
(* selections and revisions: the types, that the store never serves part   *)
(* of a recorded selection, and that a success leaves one served.          *)
(***************************************************************************)
EXTENDS Download, WellFoundedInduction, TLAPS

-----------------------------------------------------------------------------
(* The first of a set of files.                                             *)

\* A set of files that is not empty has a first one.
LEMMA FirstExists ==
  ASSUME NEW S, S \subseteq Nat, S # {}
  PROVE  First(S) \in S /\ \A y \in S : First(S) <= y
<1>1. PICK x \in S : \A y \in S : ~(<<y, x>> \in OpToRel(<, Nat))
  BY NatLessThanWellFounded, WFMin, Zenon
<1>2. \A y \in S : ~(y < x)
  BY <1>1 DEF OpToRel
<1>3. \A y \in S : x <= y
  BY <1>2
<1> QED
  BY <1>3 DEF First

\* It is the only one before all others.
LEMMA FirstIsUnique ==
  ASSUME NEW S, S \subseteq Nat, NEW x \in S, \A y \in S : x <= y
  PROVE  First(S) = x
<1>1. First(S) \in S /\ First(S) <= x
  BY FirstExists
<1>2. x <= First(S) /\ First(S) \in Nat /\ x \in Nat
  BY <1>1
<1> QED
  BY <1>1, <1>2

-----------------------------------------------------------------------------
(* Type correctness.                                                        *)

\* A file that is written gets a size; removing files keeps the others'.
LEMMA SizesKept ==
  ASSUME NEW f, Sizes(f)
  PROVE  /\ \A x \in Files, v \in Bytes : Sizes(Put(f, x, v))
         /\ \A S : Sizes(Without(f, S))
BY DEF Sizes, Put, Without

\* A selection is some of the repository's files.
LEMMA SelectedAreFiles ==
  ASSUME NEW s \in Selections
  PROVE  s # {} /\ s \subseteq Files /\ s \subseteq Nat
<1>1. Gguf \subseteq Files /\ Onnx \subseteq Files /\ Speech \subseteq Files
  BY FilesAssumption DEF Gguf
<1>2. Files \subseteq Nat
  BY FilesAssumption
<1>3. s # {} /\ \E kind \in {Gguf, Onnx, Speech} : s \subseteq kind
  BY SelectionsAssumption
<1> QED
  BY <1>1, <1>2, <1>3

\* The sizes a plan expects are sizes.
LEMMA ExpectedSizes ==
  ASSUME NEW s \in Selections, NEW r \in 1..Revisions
  PROVE  Needed(s) \subseteq Files /\ Sizes(Expected(s, r))
<1>1. Companion(s) \subseteq Projectors
  BY FirstExists, FilesAssumption DEF Companion
<1>2. s \subseteq Files
  BY SelectedAreFiles
<1>3. Needed(s) \subseteq Files
  BY <1>1, <1>2, FilesAssumption DEF Needed
<1>4. \A f \in Files : Size[r][f] \in Bytes
  BY DEF Bytes
<1> QED
  BY <1>3, <1>4 DEF Sizes, Expected, Bytes

\* The file a download works on is one it has to fetch.
LEMMA UpcomingIsTodo ==
  ASSUME CommandsTyped, NEW u \in Users, todo[u] # {}
  PROVE  Upcoming(u) \in todo[u]
<1>1. todo[u] \subseteq Nat
  BY FilesAssumption DEF CommandsTyped
<1> QED
  BY <1>1, FirstExists DEF Upcoming

LEMMA InitTyped == Init => TypeOK
<1> SUFFICES ASSUME Init PROVE TypeOK
  OBVIOUS
<1> USE DEF Init, InitCommands
<1>1. DiskTyped
  <2>1. 1 \in 1..Revisions
    BY SizeAssumption
  <2>2. Sizes(disk) /\ Sizes(raw) /\ DOMAIN sidecars = {}
    BY DEF Sizes, Nothing
  <2> QED
    BY <2>1, <2>2 DEF DiskTyped
<1>2. CommandsTyped
  BY DEF CommandsTyped, Steps, Downloading, Sizes, Nothing
<1>3. HistoryTyped
  <2>1. 0 \in 0..MaxCommands /\ 0 \in 0..MaxMishaps
    BY BoundsAssumption
  <2>2. alone \in [Users -> BOOLEAN] /\ overlapped \in BOOLEAN
    OBVIOUS
  <2> QED
    BY <2>1, <2>2 DEF HistoryTyped
<1> QED
  BY <1>1, <1>2, <1>3 DEF TypeOK

\* A command that ends leaves nothing behind.
LEMMA EndsTyped ==
  ASSUME CommandsTyped, NEW u \in Users, Ends(u)
  PROVE  CommandsTyped'
BY DEF CommandsTyped, Ends, Goes, Steps, Downloading, Sizes, Nothing

\* A command that takes its next step keeps its selection and plan.
LEMMA GoesTyped ==
  ASSUME CommandsTyped, NEW u \in Users, NEW step \in Steps \ {"idle"}, Goes(u, step),
         step # "deleting" => sel[u] \in Selections,
         step \in {"fetching", "flattening"} => todo'[u] # {},
         todo' \in [Users -> SUBSET Files], todo'[u] \subseteq DOMAIN plan[u],
         \A v \in Users \ {u} : todo'[v] = todo[v],
         UNCHANGED <<sel, repair, plan, doomed>>
  PROVE  CommandsTyped'
BY DEF CommandsTyped, Goes, Downloading

\* Outside the directory and the history a step touches nothing.
LEMMA DiskUnchanged ==
  ASSUME DiskTyped, UNCHANGED <<revision, diskVars>>
  PROVE  DiskTyped'
BY DEF DiskTyped, diskVars, Sizes

LEMMA HistoryUnchanged ==
  ASSUME HistoryTyped, UNCHANGED <<history, bounds>>
  PROVE  HistoryTyped'
BY DEF HistoryTyped, history, bounds

\* Success is reported of the selection the command was given.
LEMMA ReportTyped ==
  ASSUME HistoryTyped, NEW u \in Users, NEW full \in BOOLEAN, sel[u] \in Selections,
         Succeeds(u, full), UNCHANGED <<alone, used, overlapped, bounds>>
  PROVE  HistoryTyped'
<1>1. reported' # None => reported' \in [sel : Selections, full : BOOLEAN]
  BY DEF Succeeds
<1>2. commands' \in 0..MaxCommands /\ mishaps' \in 0..MaxMishaps
  BY DEF HistoryTyped, bounds
<1>3. alone' \in [Users -> BOOLEAN] /\ overlapped' \in BOOLEAN /\ used' \subseteq Selections
  BY DEF HistoryTyped
<1> QED
  BY <1>1, <1>2, <1>3 DEF HistoryTyped

\* A command that enters counts, and is judged alone or not.
LEMMA EntersTyped ==
  ASSUME HistoryTyped, NEW u \in Users, Enters(u), UNCHANGED <<mishaps, reported, used>>
  PROVE  HistoryTyped'
<1>1. commands' \in 0..MaxCommands /\ mishaps' \in 0..MaxMishaps
  BY BoundsAssumption DEF HistoryTyped, Enters
<1>2. alone' \in [Users -> BOOLEAN]
  <2>1. \A v \in Users : (v = u /\ OthersIdle(u)) \in BOOLEAN
    BY Zenon
  <2> QED
    BY <2>1 DEF Enters
<1>3. overlapped' \in BOOLEAN
  BY Zenon DEF Enters
<1>4. /\ used' \subseteq Selections
      /\ reported' # None => reported' \in [sel : Selections, full : BOOLEAN]
  BY DEF HistoryTyped
<1> QED
  BY <1>1, <1>2, <1>3, <1>4 DEF HistoryTyped

\* What is written beside a primary is one of three sections.
LEMMA WritesTyped ==
  ASSUME DiskTyped, NEW f \in Files \cup {Marker}, NEW section \in {"download", "mmproj", "tts"},
         Writes(f, section)
  PROVE  /\ DOMAIN sidecars' \subseteq Files \cup {Marker}
         /\ \A x \in DOMAIN sidecars' : sidecars'[x] \subseteq {"download", "mmproj", "tts"}
BY DEF DiskTyped, Writes, Sections, Put

\* The primary of a selection is one of its files or the marker.
LEMMA EntryTyped ==
  ASSUME NEW s \in Selections
  PROVE  Entry(s) \in Files \cup {Marker}
<1> QED
  BY SelectedAreFiles, FirstExists DEF Entry

LEMMA DownloadModelTyped ==
  ASSUME TypeOK, NEW u \in Users, NEW s \in Selections, NEW fix \in BOOLEAN,
         DownloadModel(u, s, fix)
  PROVE  TypeOK'
<1>1. DiskTyped'
  BY DiskUnchanged DEF TypeOK, DownloadModel
<1>2. HistoryTyped'
  BY EntersTyped DEF TypeOK, DownloadModel
<1>3. CommandsTyped'
  <2>1. revision \in 1..Revisions
    BY DEF TypeOK, DiskTyped
  <2>2. Sizes(Expected(s, revision))
    BY <2>1, ExpectedSizes
  <2>3. /\ at' \in [Users -> Steps] /\ repair' \in [Users -> BOOLEAN]
        /\ sel' \in [Users -> Selections \cup {None}]
        /\ DOMAIN plan' = Users /\ todo' \in [Users -> SUBSET Files]
        /\ doomed' \in [Users -> SUBSET AllEntries]
    BY DEF TypeOK, CommandsTyped, DownloadModel, Goes, Steps
  <2>4. at'[u] = "resolved" /\ sel'[u] = s /\ plan'[u] = Expected(s, revision)
    BY DEF TypeOK, CommandsTyped, DownloadModel, Goes
  <2>5. todo[u] = {}
    BY DEF CommandsTyped, TypeOK, DownloadModel, Enters, Busy
  <2>6. ASSUME NEW v \in Users
        PROVE  /\ Downloading(v)' => sel'[v] \in Selections
               /\ Sizes(plan'[v]) /\ todo'[v] \subseteq DOMAIN plan'[v]
               /\ at'[v] \in {"fetching", "flattening"} => todo'[v] # {}
               /\ at'[v] = "idle" => todo'[v] = {}
    <3>1. CASE v = u
      BY <2>2, <2>4, <2>5, <3>1 DEF DownloadModel
    <3>2. CASE v # u
      BY <3>2 DEF TypeOK, CommandsTyped, DownloadModel, Goes, Downloading
    <3> QED
      BY <3>1, <3>2
  <2> QED
    BY <2>3, <2>6 DEF CommandsTyped, Sizes
<1> QED
  BY <1>1, <1>2, <1>3 DEF TypeOK

LEMMA CheckLocalFilesTyped ==
  ASSUME TypeOK, NEW u \in Users, CheckLocalFiles(u)
  PROVE  TypeOK'
<1>1. DiskTyped'
  BY DiskUnchanged DEF TypeOK, CheckLocalFiles
<1>2. sel[u] \in Selections
  BY DEF TypeOK, CommandsTyped, CheckLocalFiles, Downloading
<1>3. CASE Succeeds(u, FALSE)
  <2>1. HistoryTyped'
    BY <1>2, <1>3, ReportTyped DEF TypeOK, CheckLocalFiles
  <2>2. CommandsTyped'
    BY <1>3, EndsTyped DEF TypeOK, Succeeds
  <2> QED
    BY <1>1, <2>1, <2>2 DEF TypeOK
<1>4. CASE Goes(u, "confirmed") /\ UNCHANGED <<sel, repair, plan, todo, doomed, reported>>
  <2>1. HistoryTyped'
    BY <1>4, HistoryUnchanged DEF TypeOK, CheckLocalFiles, history
  <2>2. CommandsTyped'
    BY <1>2, <1>4, GoesTyped DEF TypeOK, CommandsTyped, Steps
  <2> QED
    BY <1>1, <2>1, <2>2 DEF TypeOK
<1> QED
  BY <1>3, <1>4 DEF CheckLocalFiles

LEMMA ExecuteTyped ==
  ASSUME TypeOK, NEW u \in Users, Execute(u)
  PROVE  TypeOK'
<1>1. sel[u] \in Selections /\ Sizes(plan[u])
  BY DEF TypeOK, CommandsTyped, Execute, Downloading
<1>2. DiskTyped'
  BY <1>1 DEF TypeOK, DiskTyped, Execute, Sizes
<1>3. HistoryTyped'
  BY <1>1 DEF TypeOK, HistoryTyped, Execute, bounds
<1>4. CommandsTyped'
  BY <1>1, GoesTyped DEF TypeOK, CommandsTyped, Steps, Execute
<1> QED
  BY <1>2, <1>3, <1>4 DEF TypeOK

LEMMA SurveyTyped ==
  ASSUME TypeOK, NEW u \in Users, Survey(u)
  PROVE  TypeOK'
<1> DEFINE lacking == {f \in DOMAIN plan[u] : ~Complete(u, f)}
<1>1. sel[u] \in Selections /\ DOMAIN plan[u] \subseteq Files
  BY DEF TypeOK, CommandsTyped, Survey, Downloading, Sizes
<1>2. DiskTyped' /\ HistoryTyped'
  BY DiskUnchanged, HistoryUnchanged DEF TypeOK, Survey
<1>3. todo' = [todo EXCEPT ![u] = lacking] /\ UNCHANGED <<sel, repair, plan, doomed>>
  BY DEF Survey
<1>4. PICK step \in Steps :
        /\ Goes(u, step)
        /\ step \notin {"idle", "deleting", "flattening"}
        /\ step = "fetching" => lacking # {}
  BY DEF Survey, Steps, Landed
<1>5. /\ todo' \in [Users -> SUBSET Files] /\ todo'[u] = lacking
      /\ \A v \in Users \ {u} : todo'[v] = todo[v]
  BY <1>1, <1>3 DEF TypeOK, CommandsTyped
<1>6. CommandsTyped'
  BY <1>1, <1>3, <1>4, <1>5, GoesTyped DEF TypeOK
<1> QED
  BY <1>2, <1>6 DEF TypeOK

\* A download takes a file off its list.
LEMMA TickTyped ==
  ASSUME CommandsTyped, NEW u \in Users, sel[u] \in Selections, NEW f \in todo[u], Tick(u, f),
         UNCHANGED <<sel, repair, plan, doomed>>
  PROVE  CommandsTyped'
<1>1. /\ todo' \in [Users -> SUBSET Files] /\ todo'[u] = todo[u] \ {f}
      /\ \A v \in Users \ {u} : todo'[v] = todo[v]
  BY DEF CommandsTyped, Tick
<1>2. todo'[u] \subseteq DOMAIN plan[u]
  BY <1>1 DEF CommandsTyped
<1>3. PICK step \in Steps :
        /\ Goes(u, step)
        /\ step \notin {"idle", "deleting", "flattening"}
        /\ step = "fetching" => todo[u] # {f}
  BY DEF Tick, Steps, Landed
<1>4. step = "fetching" => todo'[u] # {}
  BY <1>1, <1>3
<1> QED
  BY <1>1, <1>2, <1>3, <1>4, GoesTyped

LEMMA HubDownloadTyped ==
  ASSUME TypeOK, NEW u \in Users, HubDownload(u)
  PROVE  TypeOK'
<1> DEFINE f == Upcoming(u)
<1> DEFINE arrived == Size[revision][f]
<1>1. sel[u] \in Selections /\ todo[u] # {} /\ todo[u] \subseteq Files
  BY DEF TypeOK, CommandsTyped, HubDownload, Downloading
<1>2. f \in todo[u] /\ f \in Files
  BY <1>1, UpcomingIsTodo DEF TypeOK
<1>3. arrived \in Bytes
  BY <1>2 DEF TypeOK, DiskTyped, Bytes
<1>4. Sizes(disk') /\ Sizes(raw')
  BY <1>2, <1>3, SizesKept DEF HubDownload, TypeOK, DiskTyped
<1>5. DiskTyped'
  BY <1>4 DEF TypeOK, DiskTyped, HubDownload, Sizes
<1>6. HistoryTyped'
  BY HistoryUnchanged DEF TypeOK, HubDownload
<1>7. CommandsTyped'
  <2>1. CASE Goes(u, "flattening") /\ UNCHANGED todo
    BY <1>1, <2>1, GoesTyped DEF TypeOK, CommandsTyped, Steps, HubDownload
  <2>2. CASE Tick(u, f)
    BY <1>1, <1>2, <2>2, TickTyped DEF TypeOK, HubDownload
  <2> QED
    BY <2>1, <2>2 DEF HubDownload
<1> QED
  BY <1>5, <1>6, <1>7 DEF TypeOK

LEMMA FlattenTyped ==
  ASSUME TypeOK, NEW u \in Users, Flatten(u)
  PROVE  TypeOK'
<1> DEFINE f == Upcoming(u)
<1>1. sel[u] \in Selections /\ todo[u] # {} /\ todo[u] \subseteq Files
  BY DEF TypeOK, CommandsTyped, Flatten, Downloading
<1>2. f \in todo[u] /\ f \in Files
  BY <1>1, UpcomingIsTodo DEF TypeOK
<1>3. f \in DOMAIN raw => raw[f] \in Bytes
  BY DEF TypeOK, DiskTyped, Sizes
<1>4. Sizes(disk') /\ Sizes(raw')
  BY <1>2, <1>3, SizesKept DEF Flatten, TypeOK, DiskTyped
<1>5. DiskTyped'
  BY <1>4 DEF TypeOK, DiskTyped, Flatten, Sizes
<1>6. HistoryTyped'
  BY HistoryUnchanged DEF TypeOK, Flatten
<1>7. CommandsTyped'
  BY <1>1, <1>2, TickTyped DEF TypeOK, Flatten
<1> QED
  BY <1>5, <1>6, <1>7 DEF TypeOK

LEMMA SaveTtsConfigTyped ==
  ASSUME TypeOK, NEW u \in Users, SaveTtsConfig(u)
  PROVE  TypeOK'
<1>1. sel[u] \in Selections
  BY DEF TypeOK, CommandsTyped, SaveTtsConfig, Downloading
<1>2. DiskTyped'
  BY WritesTyped DEF TypeOK, DiskTyped, SaveTtsConfig, Sizes
<1>3. HistoryTyped'
  BY HistoryUnchanged DEF TypeOK, SaveTtsConfig
<1>4. CommandsTyped'
  BY <1>1, GoesTyped DEF TypeOK, CommandsTyped, Steps, SaveTtsConfig
<1> QED
  BY <1>2, <1>3, <1>4 DEF TypeOK

LEMMA TouchMarkerTyped ==
  ASSUME TypeOK, NEW u \in Users, TouchMarker(u)
  PROVE  TypeOK'
<1>1. sel[u] \in Selections
  BY DEF TypeOK, CommandsTyped, TouchMarker, Downloading
<1>2. DiskTyped'
  BY DEF TypeOK, DiskTyped, TouchMarker, Sizes
<1>3. HistoryTyped'
  BY HistoryUnchanged DEF TypeOK, TouchMarker
<1>4. CommandsTyped'
  BY <1>1, GoesTyped DEF TypeOK, CommandsTyped, Steps, TouchMarker
<1> QED
  BY <1>2, <1>3, <1>4 DEF TypeOK

LEMMA RecordCompleteTyped ==
  ASSUME TypeOK, NEW u \in Users, RecordComplete(u)
  PROVE  TypeOK'
<1>1. sel[u] \in Selections /\ Sizes(plan[u])
  BY DEF TypeOK, CommandsTyped, RecordComplete, Downloading
<1>2. DiskTyped'
  BY <1>1 DEF TypeOK, DiskTyped, RecordComplete, Sizes
<1>3. HistoryTyped'
  BY HistoryUnchanged DEF TypeOK, RecordComplete
<1>4. CommandsTyped'
  BY <1>1, GoesTyped DEF TypeOK, CommandsTyped, Steps, RecordComplete
<1> QED
  BY <1>2, <1>3, <1>4 DEF TypeOK

LEMMA SaveDownloadInfoTyped ==
  ASSUME TypeOK, NEW u \in Users, SaveDownloadInfo(u)
  PROVE  TypeOK'
<1>1. sel[u] \in Selections
  BY DEF TypeOK, CommandsTyped, SaveDownloadInfo, Downloading
<1>2. DiskTyped'
  BY <1>1, EntryTyped, WritesTyped DEF TypeOK, DiskTyped, SaveDownloadInfo, Sizes
<1>3. CASE Succeeds(u, TRUE)
  <2>1. HistoryTyped'
    BY <1>1, <1>3, ReportTyped DEF TypeOK, SaveDownloadInfo
  <2>2. CommandsTyped'
    BY <1>3, EndsTyped DEF TypeOK, Succeeds
  <2> QED
    BY <1>2, <2>1, <2>2 DEF TypeOK
<1>4. CASE Goes(u, "settings") /\ UNCHANGED <<sel, repair, plan, todo, doomed, reported>>
  <2>1. HistoryTyped'
    BY <1>4, HistoryUnchanged DEF TypeOK, SaveDownloadInfo, history
  <2>2. CommandsTyped'
    BY <1>1, <1>4, GoesTyped DEF TypeOK, CommandsTyped, Steps
  <2> QED
    BY <1>2, <2>1, <2>2 DEF TypeOK
<1> QED
  BY <1>3, <1>4 DEF SaveDownloadInfo

LEMMA SaveMmprojTyped ==
  ASSUME TypeOK, NEW u \in Users, SaveMmproj(u)
  PROVE  TypeOK'
<1>1. sel[u] \in Selections
  BY DEF TypeOK, CommandsTyped, SaveMmproj, Downloading
<1>2. /\ DOMAIN sidecars' \subseteq Files \cup {Marker}
      /\ \A f \in DOMAIN sidecars' : sidecars'[f] \subseteq {"download", "mmproj", "tts"}
  BY <1>1, EntryTyped, WritesTyped DEF TypeOK, DiskTyped, SaveMmproj
<1>3. DiskTyped'
  BY <1>2 DEF TypeOK, DiskTyped, SaveMmproj, Sizes
<1>4. HistoryTyped'
  BY <1>1, ReportTyped DEF TypeOK, SaveMmproj
<1>5. CommandsTyped'
  BY EndsTyped DEF TypeOK, SaveMmproj, Succeeds
<1> QED
  BY <1>3, <1>4, <1>5 DEF TypeOK

LEMMA InterruptTyped ==
  ASSUME TypeOK, NEW u \in Users, Interrupt(u)
  PROVE  TypeOK'
<1>1. DiskTyped' /\ HistoryTyped'
  BY DiskUnchanged, HistoryUnchanged DEF TypeOK, Interrupt
<1>2. CommandsTyped'
  BY EndsTyped DEF TypeOK, Interrupt
<1> QED
  BY <1>1, <1>2 DEF TypeOK

LEMMA DeleteModelTyped ==
  ASSUME TypeOK, NEW u \in Users, DeleteModel(u)
  PROVE  TypeOK'
<1>1. DiskTyped'
  BY DiskUnchanged DEF TypeOK, DeleteModel
<1>2. HistoryTyped'
  BY EntersTyped DEF TypeOK, DeleteModel
<1>3. Entries \subseteq AllEntries
  BY DEF TypeOK, DiskTyped, Entries, AllEntries, Sizes
<1>4. /\ at' \in [Users -> Steps] /\ doomed' \in [Users -> SUBSET AllEntries]
      /\ UNCHANGED <<repair, sel, plan, todo>>
  BY <1>3 DEF TypeOK, CommandsTyped, DeleteModel, Goes, Steps
<1>5. CommandsTyped'
  BY <1>4 DEF TypeOK, CommandsTyped, DeleteModel, Goes, Downloading, Sizes
<1> QED
  BY <1>1, <1>2, <1>5 DEF TypeOK

LEMMA UnlinkTyped ==
  ASSUME TypeOK, NEW u \in Users, NEW entry \in doomed[u], Unlink(u, entry)
  PROVE  TypeOK'
<1>1. Sizes(disk') /\ Sizes(raw')
  BY SizesKept DEF TypeOK, DiskTyped, Unlink
<1>2. /\ DOMAIN sidecars' \subseteq Files \cup {Marker}
      /\ \A f \in DOMAIN sidecars' : sidecars'[f] \subseteq {"download", "mmproj", "tts"}
  BY DEF TypeOK, DiskTyped, Unlink, Without
<1>3. marker' \in BOOLEAN
  BY Zenon DEF Unlink
<1>4. record' = record \/ record' = None
  BY DEF Unlink
<1>5. DiskTyped'
  BY <1>1, <1>2, <1>3, <1>4 DEF TypeOK, DiskTyped, Unlink, Sizes
<1>6. HistoryTyped'
  BY DEF TypeOK, HistoryTyped, Unlink, bounds
<1>7. CommandsTyped'
  BY DEF TypeOK, CommandsTyped, Unlink, Downloading, Sizes
<1> QED
  BY <1>5, <1>6, <1>7 DEF TypeOK

LEMMA RemoveDirectoryTyped ==
  ASSUME TypeOK, NEW u \in Users, RemoveDirectory(u)
  PROVE  TypeOK'
<1>1. DiskTyped'
  BY DEF TypeOK, DiskTyped, RemoveDirectory, Sizes
<1>2. overlapped' \in BOOLEAN
  BY Zenon DEF RemoveDirectory
<1>3. HistoryTyped'
  BY <1>2 DEF TypeOK, HistoryTyped, RemoveDirectory, bounds
<1>4. CommandsTyped'
  BY EndsTyped DEF TypeOK, RemoveDirectory
<1> QED
  BY <1>1, <1>3, <1>4 DEF TypeOK

\* A mishap touches no command.
LEMMA MishapTyped ==
  ASSUME TypeOK, Mishap, UNCHANGED <<cmdVars, used, overlapped, commands>>,
         reported' \in {reported, None}
  PROVE  CommandsTyped' /\ HistoryTyped'
<1>1. CommandsTyped'
  BY DEF TypeOK, CommandsTyped, cmdVars, Downloading, Sizes
<1>2. mishaps' \in 0..MaxMishaps /\ alone' \in [Users -> BOOLEAN]
  BY BoundsAssumption DEF TypeOK, HistoryTyped, Mishap
<1>3. HistoryTyped'
  BY <1>2 DEF TypeOK, HistoryTyped
<1> QED
  BY <1>1, <1>3

LEMMA RepublishTyped ==
  ASSUME TypeOK, Republish
  PROVE  TypeOK'
<1>1. revision' \in 1..Revisions
  BY SizeAssumption DEF TypeOK, DiskTyped, Republish
<1>2. DiskTyped'
  BY <1>1 DEF TypeOK, DiskTyped, Republish, diskVars, Sizes
<1>3. CommandsTyped' /\ HistoryTyped'
  BY MishapTyped DEF Republish
<1> QED
  BY <1>2, <1>3 DEF TypeOK

LEMMA DamageTyped ==
  ASSUME TypeOK, NEW f \in Files, Damage(f)
  PROVE  TypeOK'
<1>1. 1 \in Bytes
  BY DEF Bytes
<1>2. Sizes(disk')
  BY <1>1, SizesKept DEF TypeOK, DiskTyped, Damage
<1>3. DiskTyped'
  BY <1>2 DEF TypeOK, DiskTyped, Damage, Sizes
<1>4. CommandsTyped' /\ HistoryTyped'
  BY MishapTyped DEF Damage
<1> QED
  BY <1>3, <1>4 DEF TypeOK

LEMMA TypeStep == TypeOK /\ [Next]_vars => TypeOK'
<1> SUFFICES ASSUME TypeOK, [Next]_vars PROVE TypeOK'
  OBVIOUS
<1>1. CASE UNCHANGED vars
  BY <1>1 DEF vars, TypeOK, DiskTyped, CommandsTyped, HistoryTyped, Downloading, Sizes
<1>2. ASSUME NEW u \in Users, Step(u) PROVE TypeOK'
  BY <1>2, DownloadModelTyped, CheckLocalFilesTyped, ExecuteTyped, SurveyTyped,
     HubDownloadTyped, FlattenTyped, SaveTtsConfigTyped, TouchMarkerTyped,
     RecordCompleteTyped, SaveDownloadInfoTyped, SaveMmprojTyped, InterruptTyped,
     DeleteModelTyped, UnlinkTyped, RemoveDirectoryTyped, Zenon DEF Step
<1>3. CASE Republish
  BY <1>3, RepublishTyped
<1>4. ASSUME NEW f \in Files, Damage(f) PROVE TypeOK'
  BY <1>4, DamageTyped
<1> QED
  BY <1>1, <1>2, <1>3, <1>4 DEF Next

\* Commands, files and history keep their types however many users, files and
\* selections there are, and a download never has a file to fetch that its
\* plan does not name.
THEOREM TypeInvariant == Spec => []TypeOK
<1>1. Init => TypeOK
  BY InitTyped
<1>2. TypeOK /\ [Next]_vars => TypeOK'
  BY TypeStep
<1> QED
  BY <1>1, <1>2, PTL DEF Spec

-----------------------------------------------------------------------------
(* Why nothing half there is served.  A plan is what one revision holds of  *)
(* one selection, a record is some download's plan, whole, and a primary    *)
(* that is named by its metadata is the entry of a selection.               *)

PlansAreExpected ==
  \A u \in Users : Downloading(u) =>
    \E r \in 1..Revisions : plan[u] = Expected(sel[u], r)

RecordIsPlan ==
  record # None =>
    \E s \in Selections, r \in 1..Revisions : record.files = Expected(s, r)

NamedAreEntries ==
  \A f \in DOMAIN sidecars : "download" \in sidecars[f] =>
    \E s \in Selections : f = Entry(s)

Provenance == PlansAreExpected /\ RecordIsPlan /\ NamedAreEntries

\* A command that ends has no plan any more.
LEMMA PlansEnd ==
  ASSUME TypeOK, PlansAreExpected, NEW u \in Users, Ends(u)
  PROVE  PlansAreExpected'
<1>1. /\ at' = [at EXCEPT ![u] = "idle"]
      /\ sel' = [sel EXCEPT ![u] = None]
      /\ plan' = [plan EXCEPT ![u] = Nothing]
  BY DEF Ends, Goes
<1>2. ASSUME NEW v \in Users, Downloading(v)'
      PROVE  Downloading(v) /\ sel'[v] = sel[v] /\ plan'[v] = plan[v]
  BY <1>1, <1>2 DEF TypeOK, CommandsTyped, Downloading
<1> QED
  BY <1>2 DEF PlansAreExpected

\* A command that takes its next step keeps its plan.
LEMMA PlansGo ==
  ASSUME TypeOK, PlansAreExpected, NEW u \in Users, NEW step, Goes(u, step),
         Downloading(u) \/ step = "deleting", UNCHANGED <<sel, plan>>
  PROVE  PlansAreExpected'
<1>1. ASSUME NEW v \in Users, Downloading(v)' PROVE Downloading(v)
  BY <1>1 DEF TypeOK, CommandsTyped, Downloading, Goes
<1> QED
  BY <1>1 DEF PlansAreExpected

\* Writing another section beside a primary names no new one.
LEMMA WritesProvenance ==
  ASSUME NamedAreEntries, NEW f, NEW section, Writes(f, section),
         section = "download" => \E s \in Selections : f = Entry(s)
  PROVE  NamedAreEntries'
<1>1. sidecars' = Put(sidecars, f, Sections(f) \cup {section})
  BY DEF Writes
<1>2. ASSUME NEW x \in DOMAIN sidecars', "download" \in sidecars'[x]
      PROVE  \E s \in Selections : x = Entry(s)
  <2>1. CASE x # f
    BY <1>1, <1>2, <2>1 DEF Put, NamedAreEntries
  <2>2. CASE x = f
    <3>1. "download" \in Sections(f) \cup {section}
      BY <1>1, <1>2, <2>2 DEF Put
    <3>2. CASE "download" \in Sections(f)
      BY <2>2, <3>2 DEF Sections, NamedAreEntries
    <3> QED
      BY <2>2, <3>1, <3>2
  <2> QED
    BY <2>1, <2>2
<1> QED
  BY <1>2 DEF NamedAreEntries

\* What no step writes stays what it was.
LEMMA RecordKept ==
  ASSUME RecordIsPlan, record' \in {record, None}
  PROVE  RecordIsPlan'
BY DEF RecordIsPlan

LEMMA NamesKept ==
  ASSUME NamedAreEntries, NEW S, sidecars' = sidecars \/ sidecars' = Without(sidecars, S)
  PROVE  NamedAreEntries'
BY DEF NamedAreEntries, Without

\* A plan that is written down is what a revision holds of a selection.
LEMMA RecordWritten ==
  ASSUME TypeOK, PlansAreExpected, NEW u \in Users, Downloading(u), record'.files = plan[u]
  PROVE  RecordIsPlan'
<1>1. sel[u] \in Selections
  BY DEF TypeOK, CommandsTyped
<1>2. PICK r \in 1..Revisions : plan[u] = Expected(sel[u], r)
  BY DEF PlansAreExpected
<1>3. RecordIsPlan' <=>
        (record' # None =>
           \E s \in Selections, r0 \in 1..Revisions : record'.files = Expected(s, r0))
  BY DEF RecordIsPlan
<1> QED
  BY <1>1, <1>2, <1>3

LEMMA DownloadModelProvenance ==
  ASSUME TypeOK, Provenance, NEW u \in Users, NEW s \in Selections, NEW fix \in BOOLEAN,
         DownloadModel(u, s, fix)
  PROVE  Provenance'
<1>1. revision \in 1..Revisions
  BY DEF TypeOK, DiskTyped
<1>2. /\ at' = [at EXCEPT ![u] = "resolved"]
      /\ sel' = [sel EXCEPT ![u] = s]
      /\ plan' = [plan EXCEPT ![u] = Expected(s, revision)]
  BY DEF DownloadModel, Goes
<1>3. PlansAreExpected'
  <2>1. ASSUME NEW v \in Users, Downloading(v)'
        PROVE  \E r \in 1..Revisions : plan'[v] = Expected(sel'[v], r)
    <3>1. CASE v = u
      BY <1>1, <1>2, <3>1 DEF TypeOK, CommandsTyped
    <3>2. CASE v # u
      BY <1>2, <2>1, <3>2 DEF TypeOK, CommandsTyped, Provenance, PlansAreExpected, Downloading
    <3> QED
      BY <3>1, <3>2
  <2> QED
    BY <2>1 DEF PlansAreExpected
<1>4. RecordIsPlan' /\ NamedAreEntries'
  BY RecordKept, NamesKept DEF Provenance, DownloadModel, diskVars
<1> QED
  BY <1>3, <1>4 DEF Provenance

LEMMA ProvenanceStep == TypeOK /\ Provenance /\ [Next]_vars => Provenance'
<1> SUFFICES ASSUME TypeOK, Provenance, [Next]_vars PROVE Provenance'
  OBVIOUS
<1> USE DEF Provenance
<1>1. CASE UNCHANGED vars
  BY <1>1 DEF vars, PlansAreExpected, RecordIsPlan, NamedAreEntries, Downloading
<1>2. ASSUME NEW u \in Users, Step(u) PROVE Provenance'
  <2>1. ASSUME NEW s \in Selections, NEW fix \in BOOLEAN, DownloadModel(u, s, fix)
        PROVE  Provenance'
    BY <2>1, DownloadModelProvenance
  <2>2. CASE CheckLocalFiles(u)
    <3>1. RecordIsPlan' /\ NamedAreEntries'
      BY <2>2, RecordKept, NamesKept DEF CheckLocalFiles, diskVars
    <3>2. PlansAreExpected'
      BY <2>2, PlansEnd, PlansGo DEF CheckLocalFiles, Succeeds, Downloading
    <3> QED
      BY <3>1, <3>2
  <2>3. CASE Execute(u)
    <3>1. PlansAreExpected' /\ NamedAreEntries'
      BY <2>3, PlansGo, NamesKept DEF Execute, Downloading
    <3>2. RecordIsPlan'
      BY <2>3, RecordWritten DEF Execute, Downloading
    <3> QED
      BY <3>1, <3>2
  <2>4. CASE Survey(u)
    BY <2>4, PlansGo, RecordKept, NamesKept DEF Survey, diskVars, Downloading
  <2>5. CASE HubDownload(u)
    BY <2>5, PlansGo, RecordKept, NamesKept DEF HubDownload, Tick, Downloading
  <2>6. CASE Flatten(u)
    BY <2>6, PlansGo, RecordKept, NamesKept DEF Flatten, Tick, Downloading
  <2>7. CASE SaveTtsConfig(u)
    BY <2>7, PlansGo, RecordKept, WritesProvenance DEF SaveTtsConfig, Downloading
  <2>8. CASE TouchMarker(u)
    BY <2>8, PlansGo, RecordKept, NamesKept DEF TouchMarker, Downloading
  <2>9. CASE RecordComplete(u)
    <3>1. PlansAreExpected' /\ NamedAreEntries'
      BY <2>9, PlansGo, NamesKept DEF RecordComplete, Downloading
    <3>2. RecordIsPlan'
      BY <2>9, RecordWritten DEF RecordComplete, Downloading
    <3> QED
      BY <3>1, <3>2
  <2>10. CASE SaveDownloadInfo(u)
    <3>1. sel[u] \in Selections
      BY <2>10 DEF TypeOK, CommandsTyped, SaveDownloadInfo, Downloading
    <3>2. RecordIsPlan' /\ NamedAreEntries'
      BY <2>10, <3>1, RecordKept, WritesProvenance DEF SaveDownloadInfo
    <3>3. PlansAreExpected'
      BY <2>10, PlansEnd, PlansGo DEF SaveDownloadInfo, Succeeds, Downloading
    <3> QED
      BY <3>2, <3>3
  <2>11. CASE SaveMmproj(u)
    <3>1. RecordIsPlan' /\ NamedAreEntries'
      BY <2>11, RecordKept, NamesKept, WritesProvenance DEF SaveMmproj
    <3>2. PlansAreExpected'
      BY <2>11, PlansEnd DEF SaveMmproj, Succeeds
    <3> QED
      BY <3>1, <3>2
  <2>12. CASE Interrupt(u)
    BY <2>12, PlansEnd, RecordKept, NamesKept DEF Interrupt, diskVars
  <2>13. CASE DeleteModel(u)
    BY <2>13, PlansGo, RecordKept, NamesKept DEF DeleteModel, diskVars
  <2>14. ASSUME NEW entry \in doomed[u], Unlink(u, entry) PROVE Provenance'
    <3>1. PlansAreExpected'
      BY <2>14 DEF Unlink, PlansAreExpected, Downloading
    <3>2. RecordIsPlan' /\ NamedAreEntries'
      BY <2>14, RecordKept, NamesKept DEF Unlink
    <3> QED
      BY <3>1, <3>2
  <2>15. CASE RemoveDirectory(u)
    BY <2>15, PlansEnd, RecordKept, NamesKept DEF RemoveDirectory
  <2> QED
    BY <1>2, <2>1, <2>2, <2>3, <2>4, <2>5, <2>6, <2>7, <2>8, <2>9, <2>10, <2>11, <2>12,
       <2>13, <2>14, <2>15, Zenon DEF Step
<1>3. CASE Republish
  BY <1>3 DEF Republish, cmdVars, diskVars, PlansAreExpected, RecordIsPlan,
     NamedAreEntries, Downloading
<1>4. ASSUME NEW f \in Files, Damage(f) PROVE Provenance'
  BY <1>4 DEF Damage, cmdVars, PlansAreExpected, RecordIsPlan, NamedAreEntries, Downloading
<1> QED
  BY <1>1, <1>2, <1>3, <1>4, Zenon DEF Next

LEMMA InitProvenance == Init => Provenance
BY DEF Init, InitCommands, Provenance, PlansAreExpected, RecordIsPlan, NamedAreEntries,
   Nothing, Downloading

-----------------------------------------------------------------------------
(* The verdict of the store.                                                *)

\* A record that allows a primary vouches for the files of the selection it
\* was written for.
LEMMA RecordVouches ==
  ASSUME TypeOK, NEW s \in Selections, NEW r \in 1..Revisions,
         record # None, record.files = Expected(s, r), NEW primary, RecordAllows(primary)
  PROVE  /\ DOMAIN record.files = Needed(s)
         /\ \A f \in Needed(s) :
              f \in DOMAIN disk /\ (f \notin Unsized => disk[f] = Size[r][f])
<1>1. DOMAIN record.files = Needed(s) /\ Needed(s) \subseteq Files
  BY ExpectedSizes DEF Expected
<1>2. ASSUME NEW f \in Needed(s), f \notin Unsized
      PROVE  record.files[f] = Size[r][f] /\ record.files[f] # 0
  BY <1>1, <1>2, SizeAssumption DEF Expected
<1> QED
  BY <1>1, <1>2 DEF RecordAllows

\* Weights are of one kind and none is a projector.
LEMMA KindsAreApart ==
  ASSUME NEW s \in Selections, NEW kind \in {Gguf, Onnx, Speech}, NEW f \in kind, f \in Needed(s)
  PROVE  f \in s /\ s \subseteq kind
<1>1. \A p \in Companion(s) : p \in Projectors
  BY FirstExists, FilesAssumption DEF Companion
<1>2. Projectors \cap kind = {}
  BY FilesAssumption DEF Gguf
<1>3. f \in s
  BY <1>1, <1>2 DEF Needed
<1>4. PICK other \in {Gguf, Onnx, Speech} : s \subseteq other
  BY SelectionsAssumption
<1>5. other = kind
  <2>1. Gguf \cap Onnx = {} /\ Gguf \cap Speech = {} /\ Onnx \cap Speech = {}
    BY FilesAssumption DEF Gguf
  <2>2. f \in other /\ f \in kind
    BY <1>3, <1>4
  <2> QED
    BY <2>1, <2>2
<1> QED
  BY <1>3, <1>4, <1>5

\* The selection the store settles on by name or by sorting is recorded whole.
LEMMA PrimaryIsWhole ==
  ASSUME TypeOK, NEW s \in Selections, NEW r \in 1..Revisions, record # None,
         record.files = Expected(s, r), NEW primary, RecordAllows(primary),
         NEW kind \in {Gguf, Onnx}, primary.file \in DOMAIN disk \cap kind,
         \/ \A y \in DOMAIN disk \cap kind : primary.file <= y
         \/ \E t \in Selections : primary.file = Entry(t)
  PROVE  WholeSelection(primary)
<1> DEFINE f == primary.file
<1>1. f \in Files /\ f # Marker /\ f \in Nat /\ f \notin Speech
  BY FilesAssumption DEF TypeOK, DiskTyped, Sizes, Gguf
<1>2. /\ DOMAIN record.files = Needed(s)
      /\ \A x \in Needed(s) :
           x \in DOMAIN disk /\ (x \notin Unsized => disk[x] = Size[r][x])
  BY RecordVouches
<1>3. f \in s /\ s \subseteq kind
  <2>1. f \in Needed(s)
    BY <1>1, <1>2 DEF RecordAllows
  <2> QED
    BY <2>1, KindsAreApart
<1>4. ~Speaks(s)
  BY <1>1, <1>3 DEF Speaks
<1>5. s \subseteq Nat
  BY SelectedAreFiles
<1>6. ASSUME \A y \in s : f <= y PROVE WholeSelection(primary)
  <2>1. f = Entry(s)
    BY <1>3, <1>4, <1>5, <1>6, FirstIsUnique DEF Entry
  <2> QED
    BY <1>2, <2>1 DEF WholeSelection
<1>7. CASE \A y \in DOMAIN disk \cap kind : f <= y
  <2>1. s \subseteq DOMAIN disk \cap kind
    BY <1>2, <1>3 DEF Needed
  <2> QED
    BY <1>6, <1>7, <2>1
<1>8. ASSUME NEW t \in Selections, f = Entry(t) PROVE WholeSelection(primary)
  <2>1. t # {} /\ t \subseteq Nat
    BY SelectedAreFiles
  <2>2. f = First(t) /\ f \in t /\ \A y \in t : f <= y
    <3>1. First(t) \in t /\ \A y \in t : First(t) <= y
      BY <2>1, FirstExists
    <3>2. f = First(t)
      BY <1>1, <1>8 DEF Entry
    <3> QED
      BY <3>1, <3>2
  <2>3. s \subseteq t \/ t \subseteq s
    <3>1. s \cap t # {} /\ ~(s \subseteq Speech)
      BY <1>1, <1>3, <2>2
    <3> QED
      BY <3>1, SelectionsAssumption
  <2>4. CASE s \subseteq t
    BY <1>6, <2>2, <2>4
  <2>5. CASE t \subseteq s
    <3>1. Companion(t) \subseteq Companion(s)
      <4>1. kind = Gguf \/ kind = Onnx
        OBVIOUS
      <4>2. CASE kind = Gguf
        BY <1>3, <2>5, <4>2 DEF Companion
      <4>3. CASE kind = Onnx
        <5>1. f \notin Gguf
          BY <1>3, <4>3 DEF Gguf
        <5> QED
          BY <2>2, <5>1 DEF Companion
      <4> QED
        BY <4>1, <4>2, <4>3
    <3>2. Needed(t) \subseteq Needed(s)
      BY <2>5, <3>1 DEF Needed
    <3> QED
      BY <1>2, <1>8, <3>2 DEF WholeSelection
  <2> QED
    BY <2>3, <2>4, <2>5
<1> QED
  BY <1>7, <1>8

\* What the store picks without a name is the first file of its kind.
LEMMA FlatIsFirst ==
  ASSUME TypeOK, NEW kind \in {Gguf, Onnx}, Found(kind), FirstByPath(kind).place = "flat"
  PROVE  /\ FirstByPath(kind).file \in DOMAIN disk \cap kind
         /\ \A y \in DOMAIN disk \cap kind : FirstByPath(kind).file <= y
<1>1. Beside("flat") = DOMAIN disk /\ Beside("folder") = DOMAIN raw
  BY DEF Beside
<1>2. ~(DOMAIN raw \cap kind # {} /\ (FolderFirst \/ DOMAIN disk \cap kind = {}))
  BY <1>1 DEF FirstByPath, At
<1>3. FirstByPath(kind).file = First(DOMAIN disk \cap kind)
  BY <1>1, <1>2 DEF FirstByPath, At
<1>4. DOMAIN disk \cap kind # {}
  BY <1>2 DEF Found
<1>5. DOMAIN disk \cap kind \subseteq Nat
  BY FilesAssumption DEF TypeOK, DiskTyped, Sizes
<1> QED
  BY <1>3, <1>4, <1>5, FirstExists

LEMMA ServedFollows == TypeOK /\ Provenance => ServedIsWhole
<1> DEFINE primary == SelectPrimary
<1> SUFFICES ASSUME TypeOK, Provenance, Served, record # None,
                    primary.file = Marker => DOMAIN record.files \subseteq Speech
             PROVE  WholeSelection(primary)
  BY DEF ServedIsWhole
<1> DEFINE named == {f \in DOMAIN disk \cap Gguf : Names(f)}
<1>1. primary # None /\ RecordAllows(primary)
  BY DEF Served, Servable
<1>2. PICK s \in Selections, r \in 1..Revisions : record.files = Expected(s, r)
  BY DEF Provenance, RecordIsPlan
<1>3. DOMAIN disk \subseteq Files /\ Files \subseteq Nat
  BY FilesAssumption DEF TypeOK, DiskTyped, Sizes
<1>4. CASE marker
  <2>1. primary.file = Marker
    BY <1>4 DEF SelectPrimary, At
  <2>2. /\ DOMAIN record.files = Needed(s)
        /\ \A f \in Needed(s) :
             f \in DOMAIN disk /\ (f \notin Unsized => disk[f] = Size[r][f])
    BY <1>1, <1>2, RecordVouches
  <2>3. Speaks(s)
    BY <2>1, <2>2 DEF Needed, Speaks
  <2>4. primary.file = Entry(s)
    BY <2>1, <2>3 DEF Entry
  <2> QED
    BY <2>2, <2>4 DEF WholeSelection
<1>5. CASE ~marker /\ named # {}
  <2>1. primary = At("flat", First(named)) /\ primary.file = First(named)
    BY <1>5 DEF SelectPrimary, At
  <2>2. named \subseteq Nat
    BY <1>3
  <2>3. First(named) \in named
    BY <1>5, <2>2, FirstExists
  <2>4. primary.file \in DOMAIN disk \cap Gguf /\ Names(primary.file)
    BY <2>1, <2>3
  <2>5. \E t \in Selections : primary.file = Entry(t)
    BY <2>4 DEF Names, Provenance, NamedAreEntries
  <2> QED
    BY <1>1, <1>2, <2>4, <2>5, PrimaryIsWhole
<1>6. ASSUME NEW kind \in {Gguf, Onnx}, ~marker, Found(kind), primary = FirstByPath(kind)
      PROVE  WholeSelection(primary)
  <2>1. primary.file # Marker
    <3>1. primary.file \in Files
      <4>1. (DOMAIN raw \cap kind) \subseteq Nat /\ (DOMAIN disk \cap kind) \subseteq Nat
        BY <1>3, FilesAssumption DEF TypeOK, DiskTyped, Sizes
      <4>2. DOMAIN raw \subseteq Files
        BY DEF TypeOK, DiskTyped, Sizes
      <4>3. Beside("flat") = DOMAIN disk /\ Beside("folder") = DOMAIN raw
        BY DEF Beside
      <4>4. CASE primary.place = "flat"
        BY <1>3, <1>6, <4>4, FlatIsFirst
      <4>5. CASE primary.place # "flat"
        <5>1. DOMAIN raw \cap kind # {} /\ primary.file = First(DOMAIN raw \cap kind)
          BY <1>6, <4>3, <4>5 DEF FirstByPath, At
        <5> QED
          BY <4>1, <4>2, <5>1, FirstExists
      <4> QED
        BY <4>4, <4>5
    <3> QED
      BY <3>1, FilesAssumption
  <2>2. primary.place = "flat"
    BY <1>1, <2>1 DEF RecordAllows
  <2>3. /\ primary.file \in DOMAIN disk \cap kind
        /\ \A y \in DOMAIN disk \cap kind : primary.file <= y
    BY <1>6, <2>2, FlatIsFirst
  <2> QED
    BY <1>1, <1>2, <2>3, PrimaryIsWhole
<1> QED
  BY <1>1, <1>4, <1>5, <1>6 DEF SelectPrimary

\* However commands were killed, overlapped or given again, with other
\* selections or other revisions, the store serves a recorded directory only
\* if one selection is whole in it: every number of users, every repository.
THEOREM ServedIsWholeInvariant == Spec => []ServedIsWhole
<1>1. Init => TypeOK /\ Provenance
  BY InitTyped, InitProvenance
<1>2. TypeOK /\ Provenance /\ [Next]_vars => TypeOK' /\ Provenance'
  BY TypeStep, ProvenanceStep
<1>3. TypeOK /\ Provenance => ServedIsWhole
  BY ServedFollows
<1> QED
  BY <1>1, <1>2, <1>3, PTL DEF Spec

-----------------------------------------------------------------------------
(* Why success is kept: what an undisturbed directory holds, for which the  *)
(* first revision is all there ever was.                                    *)

Quiet        == revision = 1 /\ ~overlapped
Executing(u) == at[u] \notin {"idle", "resolved", "confirmed", "deleting"}

\* A file is missing, or damaged where that can be told.
Lacks(f) == f \notin DOMAIN disk \/ (f \notin Unsized /\ disk[f] # Size[1][f])

\* Commands that do not overlap run one at a time; what they say was said before.
OneAtATime ==
  ~overlapped => /\ \A u, v \in Users : Busy(u) /\ Busy(v) => u = v
                 /\ \A u \in Users : Executing(u) => reported = None
Recorded ==
  /\ \A u \in Users : Executing(u) => sel[u] \in used
  /\ \A u \in Users : todo[u] # {} => at[u] \in {"fetching", "flattening"}
  /\ revision = 1 => \A u \in Users : Downloading(u) => plan[u] = Expected(sel[u], 1)
  /\ reported # None => DOMAIN disk # {} \/ DOMAIN sidecars # {}
Orderly == OneAtATime /\ Recorded

\* The directory holds what downloads of s have left, and nothing else.
DirectoryOf(s) ==
  /\ DOMAIN disk \cup DOMAIN raw \subseteq Needed(s)
  /\ \A f \in DOMAIN disk : disk[f] \in {1, Size[1][f]}
  /\ \A f \in DOMAIN raw : f \in Foldered /\ ~Speaks(s) /\ raw[f] = Size[1][f] /\ Lacks(f)
  /\ marker => Speaks(s)
  /\ \A f \in DOMAIN sidecars : "download" \in sidecars[f] => f = Entry(s)
  /\ record # None => record.files = Expected(s, 1)

\* How far a download that nothing has disturbed has come.
Advanced(u, s) ==
  /\ at[u] # "surveying" => \A f \in Needed(s) \ todo[u] : ~Lacks(f)
  /\ at[u] \in {"marking", "recording", "metadata", "settings"} /\ Speaks(s) =>
       "tts" \in Sections(Marker)
  /\ at[u] \in {"recording", "metadata", "settings"} /\ Speaks(s) => marker
  /\ at[u] \in {"metadata", "settings"} /\ record # None => record.state = "complete"
  /\ at[u] = "settings" => "download" \in Sections(Entry(s))

\* And one that a mishap may have disturbed.
Fetching(u, s) ==
  /\ \A f \in todo[u] : Lacks(f)
  /\ at[u] = "flattening" => Upcoming(u) \in DOMAIN raw
  /\ at[u] \in {"configuring", "marking"} => Speaks(s)

OnlyOf(s) ==
  /\ DirectoryOf(s)
  /\ \A u \in Users : Executing(u) => Fetching(u, s) /\ (alone[u] => Advanced(u, s))
Shape == Quiet => \A s \in Selections : used \subseteq {s} => OnlyOf(s)

\* What a success has found, stays until something is reported anew.
Delivers(s, full) ==
  /\ \A f \in Needed(s) : ~Lacks(f)
  /\ record # None => record.state = "complete"
  /\ Speaks(s) => marker /\ "tts" \in Sections(Marker)
  /\ full => /\ "download" \in Sections(Entry(s))
             /\ Companion(s) # {} => "mmproj" \in Sections(Entry(s))
Reports(s, full) ==
  Quiet /\ reported # None /\ reported.sel = s /\ reported.full = full /\ used \subseteq {s}
Delivered ==
  \A s \in Selections, full \in BOOLEAN : Reports(s, full) => Delivers(s, full)

-----------------------------------------------------------------------------
(* Orderly.                                                                 *)

\* A command that ends leaves the others to themselves.
LEMMA EndsAt ==
  ASSUME TypeOK, NEW u \in Users, Ends(u)
  PROVE  /\ at'[u] = "idle" /\ todo'[u] = {}
         /\ \A v \in Users \ {u} : /\ at'[v] = at[v] /\ sel'[v] = sel[v]
                                   /\ plan'[v] = plan[v] /\ todo'[v] = todo[v]
BY DEF TypeOK, CommandsTyped, Ends, Goes

LEMMA GoesAt ==
  ASSUME TypeOK, NEW u \in Users, NEW step, Goes(u, step)
  PROVE  at'[u] = step /\ \A v \in Users \ {u} : at'[v] = at[v]
BY DEF TypeOK, CommandsTyped, Goes

\* Where a step of a download takes it.
Onward(u) ==
  /\ Downloading(u) /\ Downloading(u)' /\ UNCHANGED <<revision, overlapped, sel, plan>>
  /\ \A v \in Users \ {u} : at'[v] = at[v] /\ todo'[v] = todo[v]
  /\ at'[u] \notin {"resolved"}
  /\ Executing(u)' => sel[u] \in used' /\ (~overlapped => reported' = None)
  /\ todo'[u] # {} => at'[u] \in {"fetching", "flattening"}

LEMMA OnwardOrderly ==
  ASSUME TypeOK, Orderly, NEW u \in Users, Onward(u), used \subseteq used',
         reported' # None => DOMAIN disk' # {} \/ DOMAIN sidecars' # {}
  PROVE  Orderly'
<1>1. ~overlapped => \A v \in Users \ {u} : at[v] = "idle"
  BY DEF Orderly, OneAtATime, Onward, Busy, Downloading
<1>2. OneAtATime'
  <2> SUFFICES ASSUME ~overlapped'
               PROVE  /\ \A v, w \in Users : Busy(v)' /\ Busy(w)' => v = w
                      /\ \A v \in Users : Executing(v)' => reported' = None
    BY DEF OneAtATime
  <2>1. \A v \in Users \ {u} : at'[v] = "idle"
    BY <1>1 DEF Onward
  <2>2. \A v, w \in Users : Busy(v)' /\ Busy(w)' => v = w
    BY <2>1 DEF Busy
  <2>3. \A v \in Users : Executing(v)' => reported' = None
    BY <2>1 DEF Executing, Onward
  <2> QED
    BY <2>2, <2>3
<1>3. Recorded'
  <2>1. \A v \in Users : Executing(v)' => sel'[v] \in used'
    BY DEF Orderly, Recorded, Executing, Onward
  <2>2. \A v \in Users : todo'[v] # {} => at'[v] \in {"fetching", "flattening"}
    BY DEF Orderly, Recorded, Onward
  <2>3. revision' = 1 => \A v \in Users : Downloading(v)' => plan'[v] = Expected(sel'[v], 1)
    BY DEF Orderly, Recorded, Onward, Downloading
  <2> QED
    BY <2>1, <2>2, <2>3 DEF Recorded
<1> QED
  BY <1>2, <1>3 DEF Orderly

\* A command that ends, or succeeds.
LEMMA EndsOrderly ==
  ASSUME TypeOK, Orderly, NEW u \in Users, Busy(u), Ends(u),
         UNCHANGED <<revision, overlapped, used>>,
         reported' # None => DOMAIN disk' # {} \/ DOMAIN sidecars' # {}
  PROVE  Orderly'
<1>1. /\ at'[u] = "idle" /\ todo'[u] = {}
      /\ \A v \in Users \ {u} : /\ at'[v] = at[v] /\ sel'[v] = sel[v]
                                /\ plan'[v] = plan[v] /\ todo'[v] = todo[v]
  BY EndsAt
<1>2. ~overlapped => \A v \in Users : at'[v] = "idle"
  BY <1>1 DEF Orderly, OneAtATime, Busy
<1>3. OneAtATime'
  BY <1>2 DEF OneAtATime, Executing, Busy
<1>4. Recorded'
  BY <1>1 DEF Orderly, Recorded, Executing, Downloading
<1> QED
  BY <1>3, <1>4 DEF Orderly

\* A command that enters finds the others idle or overlaps with them.
LEMMA EntersOrderly ==
  ASSUME TypeOK, Orderly, NEW u \in Users, Enters(u), NEW step \in {"resolved", "deleting"},
         Goes(u, step), step = "resolved" /\ revision = 1 => plan'[u] = Expected(sel'[u], 1),
         \A v \in Users \ {u} : sel'[v] = sel[v] /\ plan'[v] = plan[v],
         UNCHANGED <<revision, diskVars, todo, reported, used>>
  PROVE  Orderly'
<1>1. at'[u] = step /\ \A v \in Users \ {u} : at'[v] = at[v]
  BY GoesAt
<1>2. ~overlapped' => ~overlapped /\ \A v \in Users \ {u} : at'[v] = "idle"
  BY <1>1 DEF Enters, OthersIdle, Busy
<1>3. OneAtATime'
  BY <1>1, <1>2 DEF OneAtATime, Executing, Busy
<1>4. ~Executing(u)' /\ todo'[u] = {}
  BY <1>1 DEF Executing, Enters, Busy, TypeOK, CommandsTyped
<1>5. Recorded'
  <2>1. \A v \in Users : Executing(v)' => sel'[v] \in used'
    BY <1>1, <1>4 DEF Orderly, Recorded, Executing
  <2>2. \A v \in Users : todo'[v] # {} => at'[v] \in {"fetching", "flattening"}
    BY <1>1, <1>4 DEF Orderly, Recorded
  <2>3. revision' = 1 => \A v \in Users : Downloading(v)' => plan'[v] = Expected(sel'[v], 1)
    BY <1>1 DEF Orderly, Recorded, Downloading
  <2>4. reported' # None => DOMAIN disk' # {} \/ DOMAIN sidecars' # {}
    BY DEF Orderly, Recorded, diskVars
  <2> QED
    BY <2>1, <2>2, <2>3, <2>4 DEF Recorded
<1> QED
  BY <1>3, <1>5 DEF Orderly

\* A command whose files are all there has some.
LEMMA CompleteIsThere ==
  ASSUME TypeOK, Orderly, Provenance, NEW u \in Users, Downloading(u),
         \A f \in DOMAIN plan[u] : Complete(u, f)
  PROVE  DOMAIN disk # {}
<1>1. PICK r \in 1..Revisions : plan[u] = Expected(sel[u], r)
  BY DEF Provenance, PlansAreExpected
<1>2. sel[u] # {}
  BY SelectedAreFiles DEF TypeOK, CommandsTyped
<1>3. DOMAIN plan[u] # {}
  BY <1>1, <1>2 DEF Expected, Needed
<1> QED
  BY <1>3 DEF Complete

\* A section that is written is there.
LEMMA WrittenIsThere ==
  ASSUME NEW f, NEW section, Writes(f, section)
  PROVE  /\ f \in DOMAIN sidecars' /\ section \in Sections(f)'
         /\ \A x : Sections(x) \subseteq Sections(x)'
         /\ \A x : x # f => Sections(x)' = Sections(x)
         /\ Sections(f)' = Sections(f) \cup {section}
BY DEF Writes, Sections, Put

\* What has no sections beside it is not named.
LEMMA SectionsExist == \A f : Sections(f) # {} => f \in DOMAIN sidecars
BY DEF Sections

\* A download at work goes on to its next step.
LEMMA ExecutingOrderly ==
  ASSUME TypeOK, Orderly, NEW u \in Users, Executing(u),
         NEW step \in Steps \ {"idle", "resolved", "confirmed", "deleting"}, Goes(u, step),
         UNCHANGED <<revision, sel, plan, history>>,
         \A v \in Users \ {u} : todo'[v] = todo[v],
         todo'[u] # {} => step \in {"fetching", "flattening"},
         DOMAIN disk \subseteq DOMAIN disk', DOMAIN sidecars \subseteq DOMAIN sidecars'
  PROVE  Orderly'
<1>1. at'[u] = step /\ \A v \in Users \ {u} : at'[v] = at[v]
  BY GoesAt
<1>2. sel[u] \in used' /\ (~overlapped => reported' = None)
  BY DEF Orderly, OneAtATime, Recorded, history
<1>3. Onward(u)
  BY <1>1, <1>2 DEF Onward, Downloading, Executing, history
<1> QED
  BY <1>3, OnwardOrderly DEF Orderly, Recorded, history

\* A download takes a file off its list.
LEMMA TickGoes ==
  ASSUME TypeOK, NEW u \in Users, NEW f, Tick(u, f)
  PROVE  /\ todo'[u] = todo[u] \ {f} /\ \A v \in Users \ {u} : todo'[v] = todo[v]
         /\ \E step \in {"fetching", "configuring", "recording"} :
              /\ Goes(u, step)
              /\ step = "fetching" <=> todo[u] # {f}
              /\ step = "configuring" => Speaks(sel[u])
              /\ step = "recording" => ~Speaks(sel[u])
BY DEF TypeOK, CommandsTyped, Tick, Landed

LEMMA SurveyGoes ==
  ASSUME TypeOK, NEW u \in Users, Survey(u)
  PROVE  /\ todo'[u] = {f \in DOMAIN plan[u] : ~Complete(u, f)}
         /\ \A v \in Users \ {u} : todo'[v] = todo[v]
         /\ \E step \in {"fetching", "configuring", "recording"} :
              /\ Goes(u, step)
              /\ step = "fetching" <=> todo'[u] # {}
              /\ step = "configuring" => Speaks(sel[u])
              /\ step = "recording" => ~Speaks(sel[u])
BY DEF TypeOK, CommandsTyped, Survey, Landed

\* An empty directory is that.
LEMMA NothingLeft ==
  ASSUME Entries = {}
  PROVE  DOMAIN disk = {} /\ DOMAIN raw = {} /\ DOMAIN sidecars = {} /\ ~marker /\ record = None
<1>1. ASSUME NEW x \in DOMAIN disk PROVE FALSE
  <2>1. <<"flat", x>> \in {"flat"} \X DOMAIN disk
    OBVIOUS
  <2> QED
    BY <2>1 DEF Entries
<1>2. ASSUME NEW x \in DOMAIN raw PROVE FALSE
  <2>1. <<"folder", x>> \in {"folder"} \X DOMAIN raw
    OBVIOUS
  <2> QED
    BY <2>1 DEF Entries
<1>3. ASSUME NEW x \in DOMAIN sidecars PROVE FALSE
  <2>1. <<"sidecar", x>> \in {"sidecar"} \X DOMAIN sidecars
    OBVIOUS
  <2> QED
    BY <2>1 DEF Entries
<1>4. ~marker /\ record = None
  BY DEF Entries
<1> QED
  BY <1>1, <1>2, <1>3, <1>4

LEMMA OrderlyStep ==
  ASSUME TypeOK, Provenance, Orderly, [Next]_vars
  PROVE  Orderly'
<1> USE DEF Downloading, Executing
<1>1. CASE UNCHANGED vars
  BY <1>1 DEF vars, Orderly, OneAtATime, Recorded, Busy
<1>2. ASSUME NEW u \in Users, Step(u) PROVE Orderly'
  <2> DEFINE kept == reported # None => DOMAIN disk # {} \/ DOMAIN sidecars # {}
  <2>0. kept
    BY DEF Orderly, Recorded
  <2>a. Executing(u) => sel[u] \in used
    BY DEF Orderly, Recorded
  <2>b. ~overlapped /\ Executing(u) => reported = None
    BY DEF Orderly, OneAtATime
  <2>c. todo[u] # {} => at[u] \in {"fetching", "flattening"}
    BY DEF Orderly, Recorded
  <2>d. \A step : Goes(u, step) => at'[u] = step /\ \A v \in Users \ {u} : at'[v] = at[v]
    BY GoesAt
  <2>1. ASSUME NEW s \in Selections, NEW fix \in BOOLEAN, DownloadModel(u, s, fix)
        PROVE  Orderly'
    <3>1. sel'[u] = s /\ plan'[u] = Expected(s, revision)
      BY <2>1 DEF DownloadModel, TypeOK, CommandsTyped
    <3>2. \A v \in Users \ {u} : sel'[v] = sel[v] /\ plan'[v] = plan[v]
      BY <2>1 DEF DownloadModel, TypeOK, CommandsTyped
    <3> QED
      BY <2>1, <3>1, <3>2, EntersOrderly DEF DownloadModel
  <2>2. CASE CheckLocalFiles(u)
    <3>1. CASE Succeeds(u, FALSE) /\ \A f \in DOMAIN plan[u] : Complete(u, f)
      <4>1. DOMAIN disk' # {}
        BY <2>2, <3>1, CompleteIsThere DEF CheckLocalFiles, diskVars
      <4> QED
        BY <2>2, <3>1, <4>1, EndsOrderly DEF CheckLocalFiles, Succeeds, Busy
    <3>2. CASE Goes(u, "confirmed") /\ UNCHANGED <<sel, repair, plan, todo, doomed, reported>>
      <4>1. Onward(u)
        BY <2>2, <2>c, <2>d, <3>2 DEF Onward, CheckLocalFiles
      <4> QED
        BY <2>2, <2>0, <3>2, <4>1, OnwardOrderly DEF CheckLocalFiles, diskVars
    <3> QED
      BY <2>2, <3>1, <3>2 DEF CheckLocalFiles
  <2>3. CASE Execute(u)
    <3>1. Onward(u)
      BY <2>3, <2>c, <2>d DEF Onward, Execute
    <3> QED
      BY <2>3, <3>1, OnwardOrderly DEF Execute
  <2>4. CASE Survey(u)
    BY <2>4, SurveyGoes, ExecutingOrderly DEF Survey, Steps, diskVars
  <2>5. CASE HubDownload(u)
    <3>1. DOMAIN disk \subseteq DOMAIN disk'
      BY <2>5 DEF HubDownload, Put
    <3>2. CASE Tick(u, Upcoming(u))
      BY <2>5, <3>1, <3>2, TickGoes, ExecutingOrderly DEF HubDownload, Steps
    <3>3. CASE Goes(u, "flattening") /\ UNCHANGED <<disk, todo>>
      BY <2>5, <3>3, ExecutingOrderly DEF HubDownload, Steps
    <3> QED
      BY <2>5, <3>2, <3>3 DEF HubDownload
  <2>6. CASE Flatten(u)
    <3>1. DOMAIN disk \subseteq DOMAIN disk'
      BY <2>6 DEF Flatten, Put
    <3> QED
      BY <2>6, <3>1, TickGoes, ExecutingOrderly DEF Flatten, Steps
  <2>7. CASE SaveTtsConfig(u)
    BY <2>7, <2>c, ExecutingOrderly DEF SaveTtsConfig, Steps, Writes, Put
  <2>8. CASE TouchMarker(u)
    BY <2>8, <2>c, ExecutingOrderly DEF TouchMarker, Steps
  <2>9. CASE RecordComplete(u)
    BY <2>9, <2>c, ExecutingOrderly DEF RecordComplete, Steps
  <2>10. CASE SaveDownloadInfo(u)
    <3>1. DOMAIN sidecars' # {} /\ DOMAIN sidecars \subseteq DOMAIN sidecars'
      BY <2>10 DEF SaveDownloadInfo, Writes, Put
    <3>2. CASE Succeeds(u, TRUE)
      BY <2>10, <3>1, <3>2, EndsOrderly DEF SaveDownloadInfo, Succeeds, Busy
    <3>3. CASE Goes(u, "settings") /\ UNCHANGED <<sel, repair, plan, todo, doomed, reported>>
      BY <2>10, <2>c, <3>1, <3>3, ExecutingOrderly DEF SaveDownloadInfo, Steps, history
    <3> QED
      BY <2>10, <3>2, <3>3 DEF SaveDownloadInfo
  <2>11. CASE SaveMmproj(u)
    <3>1. DOMAIN sidecars' # {}
      <4>1. CASE "mmproj" \in Sections(Entry(sel[u])) /\ UNCHANGED sidecars
        BY <4>1, SectionsExist
      <4>2. CASE Writes(Entry(sel[u]), "mmproj")
        BY <4>2, WrittenIsThere
      <4> QED
        BY <2>11, <4>1, <4>2 DEF SaveMmproj
    <3> QED
      BY <2>11, <3>1, EndsOrderly DEF SaveMmproj, Succeeds, Busy
  <2>12. CASE Interrupt(u)
    BY <2>12, <2>0, EndsOrderly DEF Interrupt, diskVars, history
  <2>13. CASE DeleteModel(u)
    BY <2>13, EntersOrderly DEF DeleteModel
  <2>14. ASSUME NEW entry \in doomed[u], Unlink(u, entry) PROVE Orderly'
    BY <2>14 DEF Unlink, Orderly, OneAtATime, Recorded, Busy
  <2>15. CASE RemoveDirectory(u)
    <3>1. /\ at'[u] = "idle" /\ todo'[u] = {}
          /\ \A v \in Users \ {u} : /\ at'[v] = at[v] /\ sel'[v] = sel[v]
                                    /\ plan'[v] = plan[v] /\ todo'[v] = todo[v]
      BY <2>15, EndsAt DEF RemoveDirectory
    <3>2. DOMAIN disk = {} /\ DOMAIN sidecars = {}
      BY <2>15, NothingLeft DEF RemoveDirectory
    <3>3. ~overlapped => OthersIdle(u)
      BY <2>15 DEF Orderly, OneAtATime, RemoveDirectory, OthersIdle, Busy
    <3>4. reported = None
      BY <2>0, <3>2
    <3>5. ~overlapped' => \A v \in Users : at'[v] = "idle"
      BY <2>15, <3>1, <3>3 DEF RemoveDirectory, OthersIdle, Busy
    <3>6. OneAtATime'
      BY <3>5 DEF OneAtATime, Busy
    <3>7. \A v \in Users : Executing(v)' => used' = used
      BY <2>15, <3>1 DEF RemoveDirectory, OthersIdle, Busy
    <3>8. Recorded'
      BY <2>15, <3>1, <3>4, <3>7 DEF RemoveDirectory, Orderly, Recorded
    <3> QED
      BY <3>6, <3>8 DEF Orderly
  <2> QED
    BY <1>2, <2>1, <2>2, <2>3, <2>4, <2>5, <2>6, <2>7, <2>8, <2>9, <2>10, <2>11, <2>12,
       <2>13, <2>14, <2>15, Zenon DEF Step
<1>3. CASE Republish
  BY <1>3 DEF Republish, Mishap, cmdVars, diskVars, TypeOK, DiskTyped, Orderly, OneAtATime,
     Recorded, Busy
<1>4. ASSUME NEW f \in Files, Damage(f) PROVE Orderly'
  BY <1>4 DEF Damage, Mishap, cmdVars, Orderly, OneAtATime, Recorded, Busy
<1> QED
  BY <1>1, <1>2, <1>3, <1>4, Zenon DEF Next

-----------------------------------------------------------------------------
(* The directory, step by step.                                             *)

\* What the hub tells of a file that a selection needs.
LEMMA ExpectedSize ==
  ASSUME NEW s \in Selections, NEW f \in Needed(s)
  PROVE  /\ DOMAIN Expected(s, 1) = Needed(s) /\ f \in Files
         /\ Expected(s, 1)[f] = IF f \in Unsized THEN 0 ELSE Size[1][f]
         /\ Size[1][f] \in Nat /\ Size[1][f] > 1
<1>1. 1 \in 1..Revisions
  BY SizeAssumption
<1>2. f \in Files
  BY <1>1, ExpectedSizes
<1>3. Size[1][f] \in Nat \ {0, 1}
  BY <1>1, <1>2, SizeAssumption
<1> QED
  BY <1>2, <1>3 DEF Expected

\* For a directory of one selection a download sees what is lacking.
LEMMA LackingIsSeen ==
  ASSUME NEW s \in Selections, DirectoryOf(s), NEW u \in Users, plan[u] = Expected(s, 1),
         NEW f \in Needed(s)
  PROVE  Complete(u, f) <=> ~Lacks(f)
<1>1. /\ Expected(s, 1)[f] = IF f \in Unsized THEN 0 ELSE Size[1][f]
      /\ Size[1][f] \in Nat /\ Size[1][f] > 1
  BY ExpectedSize
<1>2. f \in DOMAIN disk => disk[f] \in {1, Size[1][f]}
  BY DEF DirectoryOf
<1> QED
  BY <1>1, <1>2 DEF Complete, Lacks

\* A quiet directory has one command, which downloads what the directory is of.
LEMMA OnlyCommand ==
  ASSUME TypeOK, Orderly, Quiet, NEW u \in Users, Busy(u)
  PROVE  \A v \in Users \ {u} : at[v] = "idle"
BY DEF Orderly, OneAtATime, Quiet, Busy

LEMMA ItsPlan ==
  ASSUME TypeOK, Orderly, Quiet, NEW u \in Users, Downloading(u), NEW s, NEW U, U \subseteq {s},
         Executing(u) => used \subseteq U, ~Executing(u) => sel[u] \in U
  PROVE  sel[u] = s /\ plan[u] = Expected(s, 1) /\ todo[u] \subseteq Needed(s)
<1>1. sel[u] = s
  BY DEF Orderly, Recorded
<1>2. plan[u] = Expected(s, 1)
  BY <1>1 DEF Orderly, Recorded, Quiet
<1> QED
  BY <1>1, <1>2 DEF TypeOK, CommandsTyped, Expected

\* A step of one command keeps the shape if it keeps it for that command.
LEMMA ShapeBy ==
  ASSUME TypeOK, Orderly, Shape, NEW u \in Users, Busy(u),
         \A v \in Users \ {u} : at'[v] = at[v],
         UNCHANGED <<revision, overlapped>>, used \subseteq used',
         \A s \in Selections : Quiet /\ used' \subseteq {s} /\ OnlyOf(s) =>
           /\ DirectoryOf(s)'
           /\ Executing(u)' => Fetching(u, s)' /\ (alone'[u] => Advanced(u, s)')
  PROVE  Shape'
<1> SUFFICES ASSUME Quiet', NEW s \in Selections, used' \subseteq {s} PROVE OnlyOf(s)'
  BY DEF Shape
<1>1. Quiet /\ OnlyOf(s)
  BY DEF Quiet, Shape
<1>2. \A v \in Users \ {u} : ~Executing(v)'
  BY <1>1, OnlyCommand DEF Executing
<1> QED
  BY <1>1, <1>2 DEF OnlyOf

\* Where the directory stays as it is, what it holds does.
LEMMA DirectoryKept ==
  ASSUME NEW s, DirectoryOf(s), UNCHANGED diskVars
  PROVE  DirectoryOf(s)' /\ \A f : Lacks(f)' = Lacks(f)
BY DEF DirectoryOf, diskVars, Lacks

LEMMA ExecuteShape ==
  ASSUME TypeOK, Orderly, Shape, NEW u \in Users, Execute(u)
  PROVE  Shape'
<1>1. at'[u] = "surveying" /\ \A v \in Users \ {u} : at'[v] = at[v]
  BY GoesAt DEF Execute
<1>2. Busy(u) /\ Downloading(u) /\ ~Executing(u)
  BY DEF Execute, Busy, Downloading, Executing
<1>3. todo'[u] = {}
  BY DEF Execute, Orderly, Recorded
<1>4. ASSUME NEW s \in Selections, Quiet, used' \subseteq {s}, OnlyOf(s)
      PROVE  DirectoryOf(s)' /\ Fetching(u, s)' /\ Advanced(u, s)'
  <2>1. plan[u] = Expected(s, 1)
    BY <1>2, <1>4, ItsPlan DEF Execute
  <2>2. DirectoryOf(s)'
    BY <1>4, <2>1 DEF Execute, DirectoryOf, OnlyOf, Lacks
  <2>3. Fetching(u, s)' /\ Advanced(u, s)'
    BY <1>1, <1>3 DEF Fetching, Advanced
  <2> QED
    BY <2>2, <2>3
<1> QED
  BY <1>1, <1>2, <1>4, ShapeBy DEF Execute

LEMMA SurveyShape ==
  ASSUME TypeOK, Orderly, Shape, NEW u \in Users, Survey(u)
  PROVE  Shape'
<1>1. PICK step \in {"fetching", "configuring", "recording"} :
        /\ Goes(u, step)
        /\ step = "fetching" <=> todo'[u] # {}
        /\ step = "configuring" => Speaks(sel[u])
        /\ step = "recording" => ~Speaks(sel[u])
  BY SurveyGoes
<1>2. at'[u] = step /\ \A v \in Users \ {u} : at'[v] = at[v]
  BY <1>1, GoesAt
<1>3. Busy(u) /\ Downloading(u) /\ Executing(u)
  BY DEF Survey, Busy, Downloading, Executing
<1>4. ASSUME NEW s \in Selections, Quiet, used' \subseteq {s}, OnlyOf(s)
      PROVE  DirectoryOf(s)' /\ Fetching(u, s)' /\ Advanced(u, s)'
  <2>1. sel[u] = s /\ plan[u] = Expected(s, 1) /\ DOMAIN plan[u] = Needed(s)
    BY <1>3, <1>4, ItsPlan DEF Survey, history, Expected
  <2>2. DirectoryOf(s)' /\ \A f : Lacks(f)' = Lacks(f)
    BY <1>4, DirectoryKept DEF OnlyOf, Survey
  <2>3. \A f \in Needed(s) : Complete(u, f) <=> ~Lacks(f)
    BY <1>4, <2>1, LackingIsSeen DEF OnlyOf
  <2>4. todo'[u] = {f \in Needed(s) : Lacks(f)}
    BY <2>1, <2>3, SurveyGoes
  <2>5. Fetching(u, s)'
    BY <1>1, <1>2, <2>1, <2>2, <2>4 DEF Fetching
  <2>6. Advanced(u, s)'
    BY <1>1, <1>2, <2>1, <2>2, <2>4 DEF Advanced
  <2> QED
    BY <2>2, <2>5, <2>6
<1> QED
  BY <1>2, <1>3, <1>4, ShapeBy DEF Survey, history

\* A file that has arrived in its place is lacking no more.
LEMMA Arrives ==
  ASSUME NEW s \in Selections, DirectoryOf(s), NEW f \in Needed(s),
         disk' = Put(disk, f, Size[1][f]), DOMAIN raw' = DOMAIN raw \ {f},
         \A x \in DOMAIN raw' : raw'[x] = raw[x], UNCHANGED <<record, marker, sidecars>>
  PROVE  /\ DirectoryOf(s)' /\ ~Lacks(f)' /\ \A x : x # f => Lacks(x)' = Lacks(x)
<1>1. ~Lacks(f)' /\ \A x : x # f => Lacks(x)' = Lacks(x)
  BY DEF Lacks, Put
<1> QED
  BY <1>1 DEF DirectoryOf, Put

\* A file is taken off the list when it has arrived.
LEMMA TickShape ==
  ASSUME TypeOK, Orderly, Shape, NEW u \in Users, at[u] \in {"fetching", "flattening"},
         Tick(u, Upcoming(u)), UNCHANGED <<revision, record, marker, sidecars, sel, plan, history>>,
         \A s \in Selections : Quiet /\ used \subseteq {s} /\ OnlyOf(s) =>
           /\ disk' = Put(disk, Upcoming(u), Size[1][Upcoming(u)])
           /\ DOMAIN raw' = DOMAIN raw \ {Upcoming(u)}
           /\ \A x \in DOMAIN raw' : raw'[x] = raw[x]
  PROVE  Shape'
<1>0. PICK f : f = Upcoming(u)
  OBVIOUS
<1>1. PICK step \in {"fetching", "configuring", "recording"} :
        /\ Goes(u, step)
        /\ step = "fetching" <=> todo[u] # {f}
        /\ step = "configuring" => Speaks(sel[u])
        /\ step = "recording" => ~Speaks(sel[u])
  BY <1>0, TickGoes
<1>2. at'[u] = step /\ \A v \in Users \ {u} : at'[v] = at[v]
  BY <1>1, GoesAt
<1>3. Busy(u) /\ Downloading(u) /\ Executing(u)
  BY DEF Busy, Downloading, Executing
<1>4. f \in todo[u] /\ todo'[u] = todo[u] \ {f}
  BY <1>0, UpcomingIsTodo, TickGoes DEF TypeOK, CommandsTyped
<1>5. ASSUME NEW s \in Selections, Quiet, used' \subseteq {s}, OnlyOf(s)
      PROVE  DirectoryOf(s)' /\ Fetching(u, s)' /\ (alone'[u] => Advanced(u, s)')
  <2>1. sel[u] = s /\ f \in Needed(s)
    BY <1>3, <1>4, <1>5, ItsPlan DEF history
  <2>2. DirectoryOf(s)' /\ ~Lacks(f)' /\ \A x : x # f => Lacks(x)' = Lacks(x)
    <3>1. /\ disk' = Put(disk, f, Size[1][f]) /\ DOMAIN raw' = DOMAIN raw \ {f}
          /\ \A x \in DOMAIN raw' : raw'[x] = raw[x]
      BY <1>0, <1>5 DEF history
    <3>2. DirectoryOf(s)
      BY <1>5 DEF OnlyOf
    <3> QED
      BY <2>1, <3>1, <3>2, Arrives
  <2>3. Fetching(u, s) /\ (alone[u] => Advanced(u, s))
    BY <1>3, <1>5 DEF OnlyOf
  <2>4. Fetching(u, s)'
    BY <1>1, <1>2, <1>4, <2>1, <2>2, <2>3 DEF Fetching
  <2>5. ASSUME alone[u] PROVE Advanced(u, s)'
    <3>1. \A x \in Needed(s) \ todo[u] : ~Lacks(x)
      BY <2>3, <2>5 DEF Advanced
    <3> QED
      BY <1>1, <1>2, <1>4, <2>1, <2>2, <3>1 DEF Advanced
  <2> QED
    BY <2>2, <2>4, <2>5 DEF history
<1> QED
  BY <1>2, <1>3, <1>5, ShapeBy DEF history

LEMMA HubDownloadShape ==
  ASSUME TypeOK, Orderly, Shape, NEW u \in Users, HubDownload(u)
  PROVE  Shape'
<1> DEFINE f == Upcoming(u)
<1>1. Busy(u) /\ Downloading(u) /\ Executing(u)
  BY DEF HubDownload, Busy, Downloading, Executing
<1>2. f \in todo[u]
  BY UpcomingIsTodo DEF HubDownload, TypeOK, CommandsTyped
<1>3. ASSUME NEW s \in Selections, Quiet, used \subseteq {s}, OnlyOf(s)
      PROVE  /\ sel[u] = s /\ f \in Needed(s) /\ Size[revision][f] = Size[1][f]
             /\ Fetching(u, s) /\ (alone[u] => Advanced(u, s)) /\ DirectoryOf(s)
  BY <1>1, <1>2, <1>3, ItsPlan DEF Quiet, OnlyOf
<1>4. CASE f \in Foldered /\ ~Speaks(sel[u])
  <2>1. /\ raw' = Put(raw, f, Size[revision][f]) /\ Goes(u, "flattening")
        /\ UNCHANGED <<disk, todo>>
    BY <1>4 DEF HubDownload
  <2>2. at'[u] = "flattening" /\ \A v \in Users \ {u} : at'[v] = at[v]
    BY <2>1, GoesAt
  <2>3. ASSUME NEW s \in Selections, Quiet, used' \subseteq {s}, OnlyOf(s)
        PROVE  DirectoryOf(s)' /\ Fetching(u, s)' /\ (alone'[u] => Advanced(u, s)')
    <3>1. used \subseteq {s}
      BY <2>3 DEF HubDownload, history
    <3>2. \A x : Lacks(x)' = Lacks(x)
      BY <2>1 DEF Lacks
    <3>3. Lacks(f)
      BY <1>2, <1>3, <2>3, <3>1 DEF Fetching
    <3>4. DirectoryOf(s)'
      BY <1>3, <1>4, <2>1, <2>3, <3>1, <3>2, <3>3 DEF HubDownload, DirectoryOf, Put
    <3>5. Upcoming(u)' \in DOMAIN raw'
      BY <2>1 DEF Upcoming, Put
    <3>6. Fetching(u, s)'
      BY <1>3, <2>1, <2>2, <2>3, <3>1, <3>2, <3>5 DEF Fetching
    <3>7. ASSUME alone[u] PROVE Advanced(u, s)'
      <4>1. \A x \in Needed(s) \ todo[u] : ~Lacks(x)
        BY <1>3, <2>3, <3>1, <3>7 DEF Advanced, HubDownload
      <4> QED
        BY <2>1, <2>2, <3>2, <4>1 DEF Advanced
    <3> QED
      BY <3>4, <3>6, <3>7 DEF HubDownload, history
  <2> QED
    BY <1>1, <2>2, <2>3, ShapeBy DEF HubDownload, history
<1>5. CASE ~(f \in Foldered /\ ~Speaks(sel[u]))
  <2>1. disk' = Put(disk, f, Size[revision][f]) /\ Tick(u, f) /\ UNCHANGED raw
    BY <1>5 DEF HubDownload
  <2>2. ASSUME NEW s \in Selections, Quiet, used \subseteq {s}, OnlyOf(s)
        PROVE  f \notin DOMAIN raw
    BY <1>3, <1>5, <2>2 DEF DirectoryOf
  <2> QED
    BY <1>3, <2>1, <2>2, TickShape DEF HubDownload
<1> QED
  BY <1>4, <1>5

LEMMA FlattenShape ==
  ASSUME TypeOK, Orderly, Shape, NEW u \in Users, Flatten(u)
  PROVE  Shape'
<1> DEFINE f == Upcoming(u)
<1>1. Executing(u)
  BY DEF Flatten, Executing
<1>2. ASSUME NEW s \in Selections, Quiet, used \subseteq {s}, OnlyOf(s)
      PROVE  /\ disk' = Put(disk, f, Size[1][f]) /\ DOMAIN raw' = DOMAIN raw \ {f}
             /\ \A x \in DOMAIN raw' : raw'[x] = raw[x]
  <2>1. f \in DOMAIN raw
    BY <1>1, <1>2 DEF OnlyOf, Fetching, Flatten
  <2>2. raw[f] = Size[1][f]
    BY <1>2, <2>1 DEF OnlyOf, DirectoryOf
  <2> QED
    BY <2>1, <2>2 DEF Flatten, Without
<1> QED
  BY <1>2, TickShape DEF Flatten

\* A step that leaves the files alone, and what is written beside them true.
LEMMA FilesKept ==
  ASSUME NEW s, DirectoryOf(s), UNCHANGED <<disk, raw>>,
         marker' => Speaks(s),
         \A f : "download" \in Sections(f)' => f = Entry(s) \/ "download" \in Sections(f),
         record' # None => record'.files = Expected(s, 1)
  PROVE  DirectoryOf(s)' /\ \A f : Lacks(f)' = Lacks(f)
<1>1. \A f : Lacks(f)' = Lacks(f)
  BY DEF Lacks
<1>2. ASSUME NEW f \in DOMAIN sidecars', "download" \in sidecars'[f] PROVE f = Entry(s)
  BY <1>2, SectionsExist DEF Sections, DirectoryOf
<1> QED
  BY <1>1, <1>2 DEF DirectoryOf

\* What it finds, and what it has to leave.
Working(u, s) == /\ Quiet /\ used \subseteq {s} /\ OnlyOf(s)
                 /\ sel[u] = s /\ plan[u] = Expected(s, 1)
                 /\ Fetching(u, s) /\ (alone[u] => Advanced(u, s))
Written(u, s, step) ==
  /\ marker' => Speaks(s)
  /\ \A f : "download" \in Sections(f)' => f = Entry(s) \/ "download" \in Sections(f)
  /\ record' # None => record'.files = Expected(s, 1)
  /\ step = "marking" => Speaks(s)
  /\ alone[u] =>
       /\ Speaks(s) => "tts" \in Sections(Marker)'
       /\ step # "marking" /\ Speaks(s) => marker'
       /\ step \in {"metadata", "settings"} /\ record' # None => record'.state = "complete"
       /\ step = "settings" => "download" \in Sections(Entry(s))'

\* A download whose files are all there writes something beside them.
LEMMA WritingShape ==
  ASSUME TypeOK, Orderly, Shape, NEW u \in Users, Executing(u),
         at[u] \notin {"surveying", "fetching", "flattening"},
         NEW step \in {"marking", "recording", "metadata", "settings"}, Goes(u, step),
         UNCHANGED <<revision, disk, raw, sel, todo, history>>,
         \A s \in Selections : Working(u, s) => Written(u, s, step)
  PROVE  Shape'
<1>1. at'[u] = step /\ \A v \in Users \ {u} : at'[v] = at[v]
  BY GoesAt
<1>2. Busy(u) /\ Downloading(u) /\ todo[u] = {}
  BY DEF Busy, Downloading, Executing, Orderly, Recorded
<1>3. ASSUME NEW s \in Selections, Quiet, used' \subseteq {s}, OnlyOf(s)
      PROVE  DirectoryOf(s)' /\ Fetching(u, s)' /\ (alone'[u] => Advanced(u, s)')
  <2>1. used \subseteq {s} /\ alone' = alone /\ DirectoryOf(s)
    BY <1>3 DEF history, OnlyOf
  <2>2. /\ sel[u] = s /\ plan[u] = Expected(s, 1)
        /\ Fetching(u, s) /\ (alone[u] => Advanced(u, s))
    BY <1>2, <1>3, <2>1, ItsPlan DEF OnlyOf
  <2>a. Written(u, s, step)
    BY <1>3, <2>1, <2>2 DEF Working
  <2>3. DirectoryOf(s)' /\ \A f : Lacks(f)' = Lacks(f)
    BY <1>3, <2>1, <2>a, FilesKept DEF Written
  <2>4. Fetching(u, s)'
    BY <1>1, <1>2, <2>a DEF Fetching, Written
  <2>5. ASSUME alone[u] PROVE Advanced(u, s)'
    <3>1. \A f \in Needed(s) : ~Lacks(f)
      BY <1>2, <2>2, <2>5 DEF Advanced
    <3> QED
      BY <1>1, <1>2, <2>a, <2>3, <2>5, <3>1 DEF Advanced, Written
  <2> QED
    BY <2>1, <2>3, <2>4, <2>5
<1> QED
  BY <1>1, <1>2, <1>3, ShapeBy DEF history

LEMMA SaveTtsConfigShape ==
  ASSUME TypeOK, Orderly, Shape, NEW u \in Users, SaveTtsConfig(u)
  PROVE  Shape'
<1>1. Executing(u) /\ Writes(Marker, "tts") /\ Goes(u, "marking")
  BY DEF Executing, SaveTtsConfig
<1>2. /\ "tts" \in Sections(Marker)'
      /\ \A f : "download" \in Sections(f)' => "download" \in Sections(f)
  BY <1>1, WrittenIsThere
<1>3. ASSUME NEW s \in Selections, Working(u, s) PROVE Written(u, s, "marking")
  BY <1>2, <1>3 DEF Working, Written, OnlyOf, DirectoryOf, Fetching, SaveTtsConfig
<1> QED
  BY <1>1, <1>3, WritingShape DEF SaveTtsConfig

LEMMA TouchMarkerShape ==
  ASSUME TypeOK, Orderly, Shape, NEW u \in Users, TouchMarker(u)
  PROVE  Shape'
<1>1. Executing(u) /\ Goes(u, "recording") /\ marker' /\ \A f : Sections(f)' = Sections(f)
  BY DEF Executing, TouchMarker, Sections
<1>2. ASSUME NEW s \in Selections, Working(u, s) PROVE Written(u, s, "recording")
  BY <1>1, <1>2 DEF Working, Written, OnlyOf, DirectoryOf, Fetching, Advanced, TouchMarker
<1> QED
  BY <1>1, <1>2, WritingShape DEF TouchMarker

LEMMA RecordCompleteShape ==
  ASSUME TypeOK, Orderly, Shape, NEW u \in Users, RecordComplete(u)
  PROVE  Shape'
<1>1. Executing(u) /\ Goes(u, "metadata") /\ \A f : Sections(f)' = Sections(f)
  BY DEF Executing, RecordComplete, Sections
<1>2. record' = [state |-> "complete", files |-> plan[u]]
  BY DEF RecordComplete
<1>3. ASSUME NEW s \in Selections, Working(u, s) PROVE Written(u, s, "metadata")
  BY <1>1, <1>2, <1>3 DEF Working, Written, OnlyOf, DirectoryOf, Advanced, RecordComplete
<1> QED
  BY <1>1, <1>3, WritingShape DEF RecordComplete

\* What a step adds to the metadata is about the selection.
Describes(s) ==
  \A f : "download" \in Sections(f)' => f = Entry(s) \/ "download" \in Sections(f)

\* A command that ends, or only looks.
LEMMA LeavingShape ==
  ASSUME TypeOK, Orderly, Shape, NEW u \in Users, Busy(u), NEW step, at'[u] = step,
         \A v \in Users \ {u} : at'[v] = at[v], step \in {"idle", "confirmed"},
         UNCHANGED <<revision, disk, raw, record, marker, used, overlapped>>,
         \A s \in Selections : Quiet /\ used \subseteq {s} /\ OnlyOf(s) => Describes(s)
  PROVE  Shape'
<1>1. ASSUME NEW s \in Selections, Quiet, used' \subseteq {s}, OnlyOf(s)
      PROVE  DirectoryOf(s)' /\ ~Executing(u)'
  <2>1. DirectoryOf(s) /\ marker' => Speaks(s)
    BY <1>1 DEF OnlyOf, DirectoryOf
  <2>2. record' # None => record'.files = Expected(s, 1)
    BY <1>1 DEF OnlyOf, DirectoryOf
  <2> QED
    BY <1>1, <2>1, <2>2, FilesKept DEF Executing, OnlyOf, Describes
<1> QED
  BY <1>1, ShapeBy

LEMMA SaveDownloadInfoShape ==
  ASSUME TypeOK, Orderly, Shape, NEW u \in Users, SaveDownloadInfo(u)
  PROVE  Shape'
<1>1. Executing(u) /\ Downloading(u) /\ Busy(u)
  BY DEF Executing, Downloading, Busy, SaveDownloadInfo
<1>0. PICK e : e = Entry(sel[u])
  OBVIOUS
<1>2. /\ "download" \in Sections(e)'
      /\ \A f : "download" \in Sections(f)' => f = e \/ "download" \in Sections(f)
      /\ \A f : Sections(f) \subseteq Sections(f)'
  <2>1. Writes(e, "download")
    BY <1>0 DEF SaveDownloadInfo
  <2> QED
    BY <2>1, WrittenIsThere
<1>3. CASE Succeeds(u, TRUE)
  <2>1. /\ at'[u] = "idle" /\ \A v \in Users \ {u} : at'[v] = at[v]
    BY <1>3, EndsAt DEF Succeeds
  <2>2. ASSUME NEW s \in Selections, Quiet, used \subseteq {s}, OnlyOf(s) PROVE Describes(s)
    BY <1>0, <1>1, <1>2, <2>2, ItsPlan DEF Describes
  <2>3. UNCHANGED <<revision, disk, raw, record, marker, used, overlapped>>
    BY DEF SaveDownloadInfo
  <2> QED
    BY <1>1, <2>1, <2>2, <2>3, LeavingShape
<1>4. CASE Goes(u, "settings") /\ UNCHANGED <<sel, repair, plan, todo, doomed, reported>>
  <2>1. UNCHANGED <<revision, disk, raw, sel, todo, history, record, marker>>
    BY <1>4 DEF SaveDownloadInfo, history
  <2>2. ASSUME NEW s \in Selections, Working(u, s) PROVE Written(u, s, "settings")
    BY <1>0, <1>2, <2>1, <2>2 DEF Working, Written, OnlyOf, DirectoryOf, Advanced, SaveDownloadInfo
  <2> QED
    BY <1>1, <1>4, <2>1, <2>2, WritingShape DEF SaveDownloadInfo
<1> QED
  BY <1>3, <1>4 DEF SaveDownloadInfo

\* Other sections than the metadata name nothing.
LEMMA SaveMmprojShape ==
  ASSUME TypeOK, Orderly, Shape, NEW u \in Users, SaveMmproj(u)
  PROVE  Shape'
<1>1. at'[u] = "idle" /\ \A v \in Users \ {u} : at'[v] = at[v]
  BY EndsAt DEF SaveMmproj, Succeeds
<1>2. \A s : Describes(s)
  <2>1. CASE UNCHANGED sidecars
    BY <2>1 DEF Describes, Sections
  <2>2. CASE Writes(Entry(sel[u]), "mmproj")
    BY <2>2, WrittenIsThere DEF Describes
  <2> QED
    BY <2>1, <2>2 DEF SaveMmproj
<1> QED
  BY <1>1, <1>2, LeavingShape DEF SaveMmproj, Busy

LEMMA LookingShape ==
  ASSUME TypeOK, Orderly, Shape, NEW u \in Users, CheckLocalFiles(u) \/ Interrupt(u)
  PROVE  Shape'
<1>1. /\ \E step \in {"idle", "confirmed"} : at'[u] = step
      /\ \A v \in Users \ {u} : at'[v] = at[v]
  BY EndsAt, GoesAt DEF CheckLocalFiles, Interrupt, Succeeds
<1>2. UNCHANGED <<revision, diskVars, used, overlapped>>
  BY DEF CheckLocalFiles, Interrupt, history
<1>3. \A s : Describes(s)
  BY <1>2 DEF Describes, Sections, diskVars
<1> QED
  BY <1>1, <1>2, <1>3, LeavingShape DEF CheckLocalFiles, Interrupt, Busy, diskVars

\* A command that enters quietly finds the others idle.
LEMMA EntersShape ==
  ASSUME TypeOK, Shape, NEW u \in Users, Enters(u), NEW step \in {"resolved", "deleting"},
         Goes(u, step), UNCHANGED <<revision, diskVars, used>>
  PROVE  Shape'
<1>1. at'[u] = step /\ \A v \in Users \ {u} : at'[v] = at[v]
  BY GoesAt
<1> SUFFICES ASSUME Quiet', NEW s \in Selections, used' \subseteq {s} PROVE OnlyOf(s)'
  BY DEF Shape
<1>2. Quiet /\ OthersIdle(u)
  BY DEF Quiet, Enters
<1>3. \A v \in Users : ~Executing(v)'
  BY <1>1, <1>2 DEF Executing, OthersIdle, Busy
<1>4. DirectoryOf(s)
  BY <1>2 DEF Shape, OnlyOf
<1>5. DirectoryOf(s)'
  BY <1>4, DirectoryKept
<1> QED
  BY <1>3, <1>5 DEF OnlyOf

\* What a delete takes away belonged to the selection.
LEMMA UnlinkShape ==
  ASSUME TypeOK, Orderly, Shape, NEW u \in Users, NEW entry \in doomed[u], Unlink(u, entry)
  PROVE  Shape'
<1>1. at[u] = "deleting" /\ at' = at /\ Busy(u)
  BY DEF Unlink, Busy
<1>2. ASSUME NEW s \in Selections, Quiet, used' \subseteq {s}, OnlyOf(s)
      PROVE  DirectoryOf(s)' /\ ~Executing(u)'
  <2>1. \A f : Lacks(f) => Lacks(f)'
    BY DEF Lacks, Unlink, Without
  <2>2. DirectoryOf(s)
    BY <1>2 DEF OnlyOf
  <2>3. /\ DOMAIN disk' \subseteq DOMAIN disk /\ \A f \in DOMAIN disk' : disk'[f] = disk[f]
        /\ DOMAIN raw' \subseteq DOMAIN raw /\ \A f \in DOMAIN raw' : raw'[f] = raw[f]
        /\ DOMAIN sidecars' \subseteq DOMAIN sidecars
        /\ \A f \in DOMAIN sidecars' : sidecars'[f] = sidecars[f]
        /\ marker' => marker
        /\ record' # None => record' = record
    BY DEF Unlink, Without
  <2>4. DirectoryOf(s)'
    BY <2>1, <2>2, <2>3 DEF DirectoryOf
  <2> QED
    BY <1>1, <2>4 DEF Executing
<1> QED
  BY <1>1, <1>2, ShapeBy DEF Unlink

\* A directory that is empty and then gone is as good as any.
LEMMA RemoveDirectoryShape ==
  ASSUME TypeOK, Orderly, Shape, NEW u \in Users, RemoveDirectory(u)
  PROVE  Shape'
<1>1. /\ DOMAIN disk' = {} /\ DOMAIN raw' = {} /\ DOMAIN sidecars' = {}
      /\ ~marker' /\ record' = None
  BY NothingLeft DEF RemoveDirectory
<1>2. \A s : DirectoryOf(s)'
  BY <1>1 DEF DirectoryOf
<1>3. at'[u] = "idle" /\ \A v \in Users \ {u} : at'[v] = at[v]
  BY EndsAt DEF RemoveDirectory
<1>4. Quiet' => OthersIdle(u)
  BY DEF Quiet, RemoveDirectory, Orderly, OneAtATime, OthersIdle, Busy
<1>5. Quiet' => \A v \in Users : ~Executing(v)'
  BY <1>3, <1>4 DEF Executing, OthersIdle, Busy
<1> QED
  BY <1>2, <1>5 DEF Shape, OnlyOf

\* A damaged file is lacking, unless nobody can tell.
LEMMA DamageShape ==
  ASSUME TypeOK, Shape, NEW f \in Files, Damage(f)
  PROVE  Shape'
<1> SUFFICES ASSUME Quiet', NEW s \in Selections, used' \subseteq {s} PROVE OnlyOf(s)'
  BY DEF Shape
<1>1. OnlyOf(s) /\ revision = 1
  BY DEF Quiet, Shape, Damage
<1>2. 1 \in 1..Revisions
  BY SizeAssumption
<1>3. Size[1][f] # 1
  BY <1>2, SizeAssumption
<1>4. \A x : Lacks(x) => Lacks(x)'
  BY <1>3 DEF Lacks, Damage, Put, Without
<1>5. /\ DOMAIN disk' \subseteq DOMAIN disk
      /\ \A x \in DOMAIN disk' : disk'[x] \in {1, disk[x]}
  BY DEF Damage, Put, Without
<1>6. DirectoryOf(s)'
  BY <1>1, <1>4, <1>5 DEF OnlyOf, DirectoryOf, Damage
<1>7. ASSUME NEW u \in Users, Executing(u)'
      PROVE  Fetching(u, s)' /\ ~alone'[u]
  <2>1. Fetching(u, s)
    BY <1>1, <1>7 DEF OnlyOf, Executing, Damage, cmdVars
  <2> QED
    BY <1>4, <2>1 DEF Fetching, Damage, Mishap, cmdVars, Upcoming
<1> QED
  BY <1>6, <1>7 DEF OnlyOf

LEMMA ShapeStep ==
  ASSUME TypeOK, Orderly, Shape, [Next]_vars
  PROVE  Shape'
<1>1. CASE UNCHANGED vars
  BY <1>1 DEF vars, Shape, Quiet, OnlyOf, DirectoryOf, Lacks, Fetching, Advanced, Executing,
     Upcoming, Sections
<1>2. ASSUME NEW u \in Users, Step(u) PROVE Shape'
  <2>1. ASSUME NEW s \in Selections, NEW fix \in BOOLEAN, DownloadModel(u, s, fix)
        PROVE  Shape'
    BY <2>1, EntersShape DEF DownloadModel
  <2>2. CASE DeleteModel(u)
    BY <2>2, EntersShape DEF DeleteModel
  <2> QED
    BY <1>2, <2>1, <2>2, LookingShape, ExecuteShape, SurveyShape, HubDownloadShape,
       FlattenShape, SaveTtsConfigShape, TouchMarkerShape, RecordCompleteShape,
       SaveDownloadInfoShape, SaveMmprojShape, UnlinkShape, RemoveDirectoryShape,
       Zenon DEF Step
<1>3. CASE Republish
  BY <1>3 DEF Republish, TypeOK, DiskTyped, Shape, Quiet
<1>4. ASSUME NEW f \in Files, Damage(f) PROVE Shape'
  BY <1>4, DamageShape
<1> QED
  BY <1>1, <1>2, <1>3, <1>4, Zenon DEF Next

-----------------------------------------------------------------------------
(* What a success has found, is there while it stands.                      *)

\* Steps that leave the directory alone leave what was delivered.
LEMMA DeliveryKept ==
  ASSUME NEW s, NEW full, Delivers(s, full), UNCHANGED diskVars
  PROVE  Delivers(s, full)'
BY DEF Delivers, diskVars, Lacks, Sections

\* What a command reports is what it was asked.
LEMMA SuccessReports ==
  ASSUME NEW u \in Users, NEW full, Succeeds(u, full), reported' # None
  PROVE  alone[u] /\ reported'.sel = sel[u] /\ reported'.full = full
BY DEF Succeeds

\* A quiet success is about the only selection ever downloaded here.
LEMMA SuccessIsAboutIt ==
  ASSUME TypeOK, Orderly, Shape, NEW u \in Users, Downloading(u), Quiet, sel[u] \in Selections,
         used \subseteq {sel[u]}
  PROVE  /\ OnlyOf(sel[u]) /\ plan[u] = Expected(sel[u], 1)
         /\ Executing(u) /\ alone[u] => Advanced(u, sel[u])
<1>1. plan[u] = Expected(sel[u], 1)
  BY DEF Orderly, Recorded, Quiet
<1> QED
  BY <1>1 DEF Shape, OnlyOf

LEMMA CheckLocalFilesDelivers ==
  ASSUME TypeOK, Orderly, Shape, Delivered, NEW u \in Users, CheckLocalFiles(u)
  PROVE  Delivered'
<1> SUFFICES ASSUME NEW s \in Selections, NEW full \in BOOLEAN, Reports(s, full)'
             PROVE  Delivers(s, full)'
  BY DEF Delivered
<1>1. UNCHANGED <<revision, overlapped, used>> /\ UNCHANGED diskVars
  BY DEF CheckLocalFiles
<1>2. Quiet /\ used \subseteq {s}
  BY <1>1 DEF Quiet, Reports
<1>3. Delivers(s, full)
  <2>1. CASE UNCHANGED reported
    BY <1>1, <2>1 DEF Delivered, Reports, Quiet
  <2>2. CASE /\ Succeeds(u, FALSE) /\ \A f \in DOMAIN plan[u] : Complete(u, f)
             /\ ~Speaks(sel[u]) /\ ~Pending
    <3>1. sel[u] = s /\ full = FALSE
      BY <2>2, SuccessReports DEF Reports
    <3>2. Downloading(u)
      BY DEF CheckLocalFiles, Downloading
    <3>3. OnlyOf(s) /\ plan[u] = Expected(s, 1)
      BY <1>2, <3>1, <3>2, SuccessIsAboutIt
    <3>4. DirectoryOf(s) /\ DOMAIN plan[u] = Needed(s)
      BY <3>3 DEF OnlyOf, Expected
    <3>5. \A f \in Needed(s) : ~Lacks(f)
      BY <2>2, <3>3, <3>4, LackingIsSeen
    <3>6. record # None => record.state = "complete"
      BY <2>2 DEF Pending, TypeOK, DiskTyped
    <3> QED
      BY <2>2, <3>1, <3>5, <3>6 DEF Delivers
  <2> QED
    BY <2>1, <2>2 DEF CheckLocalFiles
<1> QED
  BY <1>1, <1>3, DeliveryKept

\* A full run has written all there is to write.
LEMMA FullRunDelivers ==
  ASSUME TypeOK, Orderly, Shape, NEW u \in Users, at[u] \in {"metadata", "settings"},
         Succeeds(u, TRUE), UNCHANGED <<revision, disk, record, marker, used, overlapped>>,
         \A f : Sections(f) \subseteq Sections(f)', NEW e, e = Entry(sel[u]),
         at[u] = "metadata" => "download" \in Sections(e)',
         Companion(sel[u]) # {} => "mmproj" \in Sections(e)'
  PROVE  Delivered'
<1> SUFFICES ASSUME NEW s \in Selections, NEW full \in BOOLEAN, Reports(s, full)'
             PROVE  Delivers(s, full)'
  BY DEF Delivered
<1>1. Executing(u) /\ Downloading(u) /\ Quiet /\ used \subseteq {s}
  BY DEF Executing, Downloading, Quiet, Reports
<1>2. sel[u] = s /\ alone[u]
  BY SuccessReports DEF Reports
<1>3. Advanced(u, s) /\ todo[u] = {}
  BY <1>1, <1>2, SuccessIsAboutIt DEF Orderly, Recorded
<1>4. \A f \in Needed(s) : ~Lacks(f)'
  BY <1>3 DEF Advanced, Lacks
<1>5. record' # None => record'.state = "complete"
  BY <1>3 DEF Advanced
<1>6. Speaks(s) => marker' /\ "tts" \in Sections(Marker)'
  BY <1>3 DEF Advanced
<1>7. "download" \in Sections(e)'
  BY <1>2, <1>3 DEF Advanced
<1> QED
  BY <1>2, <1>4, <1>5, <1>6, <1>7 DEF Delivers

LEMMA SaveDownloadInfoDelivers ==
  ASSUME TypeOK, Orderly, Shape, Delivered, NEW u \in Users, SaveDownloadInfo(u)
  PROVE  Delivered'
<1>1. at[u] = "metadata" /\ Executing(u)
  BY DEF SaveDownloadInfo, Executing
<1>2. PICK e : e = Entry(sel[u]) /\ Writes(e, "download")
  BY DEF SaveDownloadInfo
<1>3. "download" \in Sections(e)' /\ \A f : Sections(f) \subseteq Sections(f)'
  BY <1>2, WrittenIsThere
<1>4. CASE Companion(sel[u]) = {} /\ Succeeds(u, TRUE)
  BY <1>1, <1>2, <1>3, <1>4, FullRunDelivers DEF SaveDownloadInfo
<1>5. CASE UNCHANGED reported
  BY <1>1, <1>5 DEF SaveDownloadInfo, Delivered, Reports, Quiet, Orderly, OneAtATime
<1> QED
  BY <1>4, <1>5 DEF SaveDownloadInfo

LEMMA SaveMmprojDelivers ==
  ASSUME TypeOK, Orderly, Shape, NEW u \in Users, SaveMmproj(u)
  PROVE  Delivered'
<1>1. PICK e : e = Entry(sel[u])
  OBVIOUS
<1>2. "mmproj" \in Sections(e)' /\ \A f : Sections(f) \subseteq Sections(f)'
  <2>1. CASE Writes(e, "mmproj")
    BY <2>1, WrittenIsThere
  <2>2. CASE "mmproj" \in Sections(e) /\ UNCHANGED sidecars
    BY <2>2 DEF Sections
  <2> QED
    BY <1>1, <2>1, <2>2 DEF SaveMmproj
<1> QED
  BY <1>1, <1>2, FullRunDelivers DEF SaveMmproj

LEMMA DeliveredStep ==
  ASSUME TypeOK, Orderly, Shape, Delivered, [Next]_vars
  PROVE  Delivered'
<1>1. ASSUME reported' = None PROVE Delivered'
  BY <1>1 DEF Delivered, Reports
<1>2. ASSUME UNCHANGED diskVars, UNCHANGED reported, Quiet' => Quiet, used \subseteq used'
      PROVE  Delivered'
  BY <1>2, DeliveryKept DEF Delivered, Reports
<1>3. ASSUME NEW u \in Users, Executing(u), UNCHANGED <<overlapped, reported>> PROVE Delivered'
  BY <1>3 DEF Delivered, Reports, Quiet, Orderly, OneAtATime
<1>4. CASE UNCHANGED vars
  BY <1>2, <1>4 DEF vars, diskVars, Quiet
<1>5. ASSUME NEW u \in Users, Step(u) PROVE Delivered'
  <2>1. ASSUME NEW s \in Selections, NEW fix \in BOOLEAN, DownloadModel(u, s, fix)
        PROVE  Delivered'
    BY <1>2, <2>1 DEF DownloadModel, Enters, Quiet
  <2>2. CASE Execute(u)
    BY <1>1, <2>2 DEF Execute
  <2>3. CASE Survey(u) \/ HubDownload(u) \/ Flatten(u) \/ SaveTtsConfig(u)
             \/ TouchMarker(u) \/ RecordComplete(u)
    BY <1>3, <2>3 DEF Survey, HubDownload, Flatten, SaveTtsConfig, TouchMarker,
       RecordComplete, Executing, history
  <2>4. CASE Interrupt(u)
    BY <1>2, <2>4 DEF Interrupt, history, Quiet
  <2>5. CASE DeleteModel(u)
    BY <1>2, <2>5 DEF DeleteModel, Enters, Quiet
  <2>6. ASSUME NEW entry \in doomed[u], Unlink(u, entry) PROVE Delivered'
    BY <1>1, <2>6 DEF Unlink
  <2>7. CASE RemoveDirectory(u)
    BY <1>1, <2>7, NothingLeft DEF RemoveDirectory, Orderly, Recorded
  <2> QED
    BY <1>5, <2>1, <2>2, <2>3, <2>4, <2>5, <2>6, <2>7, CheckLocalFilesDelivers,
       SaveDownloadInfoDelivers, SaveMmprojDelivers, Zenon DEF Step
<1>6. CASE Republish
  BY <1>6 DEF Republish, TypeOK, DiskTyped, Delivered, Reports, Quiet
<1>7. ASSUME NEW f \in Files, Damage(f) PROVE Delivered'
  BY <1>1, <1>7 DEF Damage
<1> QED
  BY <1>4, <1>5, <1>6, <1>7, Zenon DEF Next

LEMMA InitOrderly == Init => Orderly /\ Shape /\ Delivered
BY DEF Init, InitCommands, Orderly, OneAtATime, Recorded, Busy, Executing, Downloading,
   Shape, OnlyOf, DirectoryOf, Nothing, Delivered, Reports

-----------------------------------------------------------------------------
(* And the store serves it.                                                 *)

\* A directory in which nothing of the selection lacks holds just that.
LEMMA HoldsJustThat ==
  ASSUME NEW s, DirectoryOf(s), \A f \in Needed(s) : ~Lacks(f)
  PROVE  DOMAIN disk = Needed(s) /\ DOMAIN raw = {}
BY DEF DirectoryOf, Lacks

LEMMA PrimaryIsTheEntry ==
  ASSUME TypeOK, NEW s \in Selections, NEW full \in BOOLEAN, DirectoryOf(s), Delivers(s, full)
  PROVE  SelectPrimary = At("flat", Entry(s))
<1>1. DOMAIN disk = Needed(s) /\ DOMAIN raw = {}
  BY HoldsJustThat DEF Delivers
<1>2. s # {} /\ s \subseteq Nat /\ s \subseteq Needed(s)
  BY SelectedAreFiles DEF Needed
<1>3. CASE Speaks(s)
  BY <1>3 DEF Delivers, SelectPrimary, Entry
<1>4. CASE ~Speaks(s)
  <2>1. ~marker /\ Entry(s) = First(s)
    BY <1>4 DEF DirectoryOf, Entry
  <2>2. PICK kind \in {Gguf, Onnx} : s \subseteq kind
    BY <1>4, SelectionsAssumption DEF Speaks
  <2>3. DOMAIN disk \cap kind = s
    BY <1>1, <1>2, <2>2, KindsAreApart
  <2>4. Beside("flat") = DOMAIN disk /\ Beside("folder") = {}
    BY <1>1 DEF Beside
  <2>5. FirstByPath(kind) = At("flat", First(s)) /\ Found(kind)
    BY <1>2, <2>3, <2>4 DEF FirstByPath, Found
  <2>6. \A f \in DOMAIN disk \cap Gguf : Names(f) => f = First(s)
    BY <2>1 DEF DirectoryOf, Names
  <2>7. ASSUME NEW S, S # {}, \A f \in S : f = First(s) PROVE First(S) = First(s)
    <3>1. S = {First(s)} /\ First(s) \in Nat
      BY <1>2, <2>7, FirstExists
    <3> QED
      BY <3>1, FirstExists
  <2>8. CASE kind = Gguf
    <3> DEFINE named == {f \in DOMAIN disk \cap Gguf : Names(f)}
    <3>1. named # {} => First(named) = First(s)
      BY <2>6, <2>7
    <3>2. SelectPrimary = IF named # {} THEN At("flat", First(named)) ELSE FirstByPath(Gguf)
      BY <2>1, <2>5, <2>8 DEF SelectPrimary
    <3> HIDE DEF named
    <3> QED
      BY <2>1, <2>5, <2>8, <3>1, <3>2
  <2>9. CASE kind = Onnx
    <3>1. DOMAIN disk \cap Gguf = {}
      <4>1. Onnx \cap Gguf = {}
        BY DEF Gguf
      <4>2. ASSUME NEW f \in DOMAIN disk \cap Gguf PROVE FALSE
        <5>1. f \in s
          BY <1>1, <4>2, KindsAreApart
        <5> QED
          BY <2>2, <2>9, <4>1, <4>2, <5>1
      <4> QED
        BY <4>2
    <3>2. ~Found(Gguf)
      BY <1>1, <3>1 DEF Found
    <3> QED
      BY <2>1, <2>5, <2>9, <3>1, <3>2 DEF SelectPrimary
  <2> QED
    BY <2>8, <2>9
<1> QED
  BY <1>3, <1>4

LEMMA DeliveryIsServed ==
  ASSUME TypeOK, NEW s \in Selections, NEW full \in BOOLEAN, DirectoryOf(s), Delivers(s, full)
  PROVE  Served
<1> DEFINE primary == At("flat", Entry(s))
<1>1. SelectPrimary = primary /\ primary.place = "flat" /\ primary.file = Entry(s)
  BY PrimaryIsTheEntry DEF At
<1>2. primary # None
  BY EntryTyped, FilesAssumption DEF At
<1>3. DOMAIN disk = Needed(s)
  BY HoldsJustThat DEF Delivers
<1>4. s # {} /\ s \subseteq Nat /\ s \subseteq Needed(s)
  BY SelectedAreFiles DEF Needed
<1>5. ~Speaks(s) => Entry(s) \in s /\ \A y \in s : Entry(s) <= y
  BY <1>4, FirstExists DEF Entry
<1>6. ASSUME record # None PROVE RecordAllows(primary)
  <2>1. record.files = Expected(s, 1) /\ DOMAIN record.files = Needed(s)
    BY <1>6 DEF DirectoryOf, Expected
  <2>2. ASSUME NEW f \in Needed(s)
        PROVE  f \in DOMAIN disk /\ (record.files[f] # 0 => disk[f] = record.files[f])
    <3>1. ~Lacks(f)
      BY DEF Delivers
    <3> QED
      BY <2>1, <3>1, ExpectedSize DEF Lacks
  <2>3. primary.file = Marker \/ primary.file \in Needed(s)
    <3>1. CASE Speaks(s)
      BY <1>1, <3>1 DEF Entry
    <3>2. CASE ~Speaks(s)
      <4>1. Entry(s) \in Needed(s)
        BY <1>4, <1>5, <3>2
      <4> QED
        BY <1>1, <4>1
    <3> QED
      BY <3>1, <3>2
  <2> QED
    BY <1>1, <1>6, <2>1, <2>2, <2>3 DEF RecordAllows, Delivers
<1>7. SplitIsWhole(primary)
  <2>1. SUFFICES ASSUME NEW family \in Splits, Entry(s) \in family
                 PROVE  Entry(s) = First(family) /\ family \subseteq Needed(s)
    BY <1>1, <1>3 DEF SplitIsWhole, Beside
  <2>2. family \subseteq Files /\ family \subseteq Nat /\ Marker \notin family
    BY FilesAssumption DEF Gguf
  <2>3. ~Speaks(s)
    BY <2>1, <2>2 DEF Entry
  <2>4. family \subseteq s
    BY <1>5, <2>1, <2>3, ShardsAssumption
  <2>5. First(family) = Entry(s)
    BY <1>5, <2>1, <2>2, <2>3, <2>4, FirstIsUnique
  <2> QED
    BY <1>4, <2>4, <2>5
<1> QED
  BY <1>1, <1>2, <1>6, <1>7 DEF Served, Servable

LEMMA SuccessFollows == TypeOK /\ Shape /\ Delivered => SuccessServes
<1> SUFFICES ASSUME TypeOK, Shape, Delivered, reported # None, used \subseteq {reported.sel},
                    revision = 1, ~overlapped
             PROVE  Serves(reported)
  BY DEF SuccessServes
<1>1. PICK s \in Selections, full \in BOOLEAN : reported.sel = s /\ reported.full = full
  BY DEF TypeOK, HistoryTyped
<1>2. DirectoryOf(s) /\ Delivers(s, full)
  BY <1>1 DEF Shape, Delivered, Reports, OnlyOf, Quiet
<1>3. Served /\ SelectPrimary = At("flat", Entry(s))
  BY <1>2, DeliveryIsServed, PrimaryIsTheEntry
<1> QED
  BY <1>1, <1>2, <1>3 DEF Serves, Delivers

\* After an undisturbed success the store serves what was asked, with its
\* metadata and settings, until something is reported anew: whatever was
\* killed, damaged, deleted or downloaded again before, for any number of
\* users and files, in a directory of one selection and revision in which no
\* two commands have overlapped.
THEOREM SuccessServesInvariant == Spec => []SuccessServes
<1> DEFINE Inv == TypeOK /\ Provenance /\ Orderly /\ Shape /\ Delivered
<1>1. Init => Inv
  BY InitTyped, InitProvenance, InitOrderly
<1>2. Inv /\ [Next]_vars => Inv'
  BY TypeStep, ProvenanceStep, OrderlyStep, ShapeStep, DeliveredStep
<1>3. Inv => SuccessServes
  BY SuccessFollows
<1> QED
  BY <1>1, <1>2, <1>3, PTL DEF Spec
=============================================================================
