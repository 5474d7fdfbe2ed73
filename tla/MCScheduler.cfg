CONSTANTS
  utc = utc
  dst = dst
  None = None
  Zones = {utc, dst}
  LocalMinute <- SetBack
  Tasks = {t1}
  Callbacks = {k1, k2}
  MaxInstant = 4
  MaxGeneration = 3
  FieldChoices <- Zoned
  Disconnects = TRUE
  StoreFaults = TRUE
SPECIFICATION Spec
SYMMETRY Symmetry
INVARIANT NoGhostEntry
PROPERTIES NoRunTwice RunsFollowStoredSchedule ImportIsQuiet
