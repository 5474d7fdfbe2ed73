CONSTANTS
  utc = utc
  dst = dst
  None = None
  Zones = {utc, dst}
  LocalMinute <- SetBack
  Tasks = {t1}
  Callbacks = {k1}
  MaxInstant = 2
  MaxGeneration = 3
  FieldChoices <- Plain
  Disconnects = TRUE
  StoreFaults = FALSE
SPECIFICATION Spec
SYMMETRY Symmetry
INVARIANT ScheduleMatchesStore
