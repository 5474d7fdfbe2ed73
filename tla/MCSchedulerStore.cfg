CONSTANTS
  utc = utc
  dst = dst
  None = None
  Zones = {utc, dst}
  LocalMinute <- SetBack
  Tasks = {t1, t2}
  Callbacks = {k1}
  MaxInstant = 2
  MaxGeneration = 3
  FieldChoices <- Plain
  Disconnects = FALSE
  StoreFaults = FALSE
SPECIFICATION Spec
SYMMETRY Symmetry
INVARIANT ScheduleMatchesStore
