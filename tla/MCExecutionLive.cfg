CONSTANTS
  a1 = a1
  a2 = a2
  t1 = t1
  t2 = t2
  Wans = {a1, a2}
  GlobalLimits = {2}
  MaxConcurrency = 16
  NoRequest = NoRequest
  Nobody = Nobody
  Workers = {w1, w2}
  Tasks = {t1}
  Callers = {c1}
  Results = {1, 2}
  QueueCapacity = 1
  StoreFaults = FALSE
  InitialTables <- OneTask
  FieldChoices <- NoEdits
  SettingsChoices <- Shared
SPECIFICATION FairSpec
PROPERTIES RunsEnd StopDrains
