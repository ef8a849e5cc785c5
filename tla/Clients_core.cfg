SPECIFICATION Spec
CONSTANTS
  p = p
  q = q
  Nobody = Nobody
  Batches <- MCBatches
  ChatModels = {p, q}
  FirstModel = p
  MaxPrompts = 3
  MaxSessions = 2
  MaxBatches = 2
  MaxCommands = 2
  MaxFailures = 1
  MaxEvents = 5
  o1 = o1
  o2 = o2
  path = path
  Unset = Unset
  Paths = {path}
  Cwd <- MCCwd
  Folders <- MCFolders
  Targets <- MCTargets
  ShellCommands = {"ls"}
  Origins = {o1, o2}
  Literals = {}
  Endpoints = {TRUE, FALSE}
  SkipPermissions = FALSE
  Configured <- MCConfigured
  Drafts <- MCDrafts
  MaxCalls = 2
  MaxChanges = 1
  MaxHops = 1
  t1 = t1
  t2 = t2
  t3 = t3
  t4 = t4
  Tasks = {t1, t2, t3, t4}
  MaxRunning = 2
  MaxFinished = 1
  Retention = 1
  MaxClock = 5
  Null = Null
  Records = {1, 2, 3, 4}
  Folder <- MCFolder
  Early = {1, 2, 3}
  Searches = {{1, 3, 4}}
  PageSize = 2
  MaxAsked = 2
  MaxPruned = 1
  MaxBroken = 1
  MaxChoices = 4
  Messages = {1}
  PartCount = 3
  a = a
  b = b
  Models = {a, b}
  NoModel = NoModel
  Absent = Absent
  Unregistered = Unregistered
  CutShort = CutShort
  MaxRuns = 2
  MaxFaults = 2
  MaxEdits = 1
  w1 = w1
  w2 = w2
  Writers = {w1, w2}
  Values = {0, 1}
  Invalid = Invalid
  MaxWrites = 3
  MaxHups = 2
  r1 = r1
  r2 = r2
  Speeches = {r1, r2}
  NoVoice = NoVoice
  Voices = {"a", "b"}
  Texts <- MCTexts
  Floor = 2
  ChunkLimit = 7
  u1 = u1
  u2 = u2
  Terminals = {u1, u2}
  NotSet = NotSet
  Unreadable = Unreadable
  BaseSettings <- MCBaseSettings
  EarlySettings <- MCEarlySettings
  NewValues <- MCNewValues
  Training = 16
  Template <- MCTemplate
  Projector = FALSE
  Fallback = 8
  MinOutput = 2
  MaxOutput = 3
  MaxSettings = 2
  Replies <- MCReplies
  BodyLimit = 5
  TailLimit = 3
  MaxChunk = 3
  NoTokens = NoTokens
CHECK_DEADLOCK FALSE
INVARIANTS
  TypeOK
  ToolResultsPaired
  QueueDiscipline
  NoAbandonedTool
  SessionsAreKept
  TouchedWithinConsent
  TasksAreRemembered
  ScreenIsTrue
  ConfigsHold
  SpokenInFull
  ReadersAgree
PROPERTIES
  StopHolds
  EverythingSettles
