SPECIFICATION Spec
CONSTANTS
  r1 = r1
  r2 = r2
  r3 = r3
  r4 = r4
  m1 = m1
  m2 = m2
  m3 = m3
  None = None
  Requests = {r1, r2, r3}
  Models = {m1, m2}
  MaxLoaded = 1
  MaxMemory = 0
  Sizes <- MCSizes
  Faults = {"crash", "cancel", "edit", "badConfig", "noSpawn", "unhealthy", "stop", "fallback"}
SYMMETRY Symmetry
CHECK_DEADLOCK FALSE
INVARIANTS
  TypeOK
  LockDiscipline
  StartsAreTracked
  StartsFresh
  RegistryAgrees
  ClaimsAreReady
  ClaimsCounted
  NoOrphan
  ReadyIsWatched
  SavesOnlyReady
  CountBudget
PROPERTIES
  BusyIsNeverStopped
  KeepsPromise
