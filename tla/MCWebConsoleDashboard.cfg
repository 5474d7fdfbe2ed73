CONSTANTS
  eth = eth  ppp = ppp  a4 = a4  b4 = b4  b6 = b6
  toEth = toEth  toPpp = toPpp  fiber = fiber  padded = padded
  s1 = s1  s2 = s2  never = never
  Blank = Blank  Null = Null  None = None
  Names <- SomeNames
  Trim <- Trimmed
  Interfaces = {eth, ppp}
  Addresses <- SomeAddresses
  RouteProfiles <- SomeProfiles
  Servers = {s1}
  Urls <- SomeUrls
  Endpoints <- SomeEndpoints
  Timings <- Sound
  ValidTimings <- Sound
  CustomServers = TRUE
  StoredTasks <- SomeTasks
  Defaults <- Sound
  FallbackTiming = "daily"
  MaxEdits = 2
  MaxForeign = 1
  MaxSaves = 1
  e1 = e1  e2 = e2  p1 = p1  p2 = p2  t1 = t1  t2 = t2
  d1 = d1  o1 = o1  w1 = w1  w2 = w2  k1 = k1  k2 = k2
  Executables = {e1, e2}  TooLarge = {}
  Documents <- SomePolicies  Malformed = Malformed  FirstRows <- SomeSettings
  MaxWrites = 2
  MaxResults = 2  Zones = {1, 2}  DayOf <- LaterDays  Views <- SomeViews  MaxChanges = 1
  ProfileIds = {p1, p2}  Populations <- SomePopulations
  Links <- SomeLinks  Down <- DownLinks
  Tasks = {t1, t2}  Definitions = {d1}  Options = {o1}  NoOptions = NoOptions
  Unreachable = {t2}
  Runs <- SomeRuns  Offered = {"download", "duration", "successRate"}  Instants = {60, 90}  Dates = {2, 3}  Ranges = {1}
  WanList <- BothWans  DefaultPaths = 1  SettingsRows <- SomeRows  Fallback <- UtcRow
  MaxPageEdits = 1  MaxRequests = 2  MaxInputs = 2  MaxTroubles = 1
SPECIFICATION WebSpec
CHECK_DEADLOCK FALSE
INVARIANT TestsAppear
