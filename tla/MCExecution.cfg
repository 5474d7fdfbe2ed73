CONSTANTS
  a1 = a1
  a2 = a2
  t1 = t1
  t2 = t2
  Wans = {a1, a2}
  GlobalLimits = {2}
  MaxConcurrency = 16
  NoRequest = NoRequest
  Nobody = Nobody
  Workers = {w1, w2}
  Tasks = {t1}
  Callers = {c1, c2}
  Results = {1, 2}
  QueueCapacity = 1
  StoreFaults = TRUE
  InitialTables <- NoTasks
  FieldChoices <- Edits
  SettingsChoices <- Shared
SPECIFICATION Spec
SYMMETRY Symmetry
INVARIANTS TypeOK ActiveOwnedOnce NoOverlap ActiveTaskLive
PROPERTY FollowsLifecycle
