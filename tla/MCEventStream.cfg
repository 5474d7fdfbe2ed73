CONSTANTS
  routeProfiles = routeProfiles
  Topics <- MCTopics
  Operations <- MCOperations
  Publishers = {p1, p2}
  Connections = {c1, c2}
  ChannelCapacity = 1
  SubscriberLimit = 1
  MaxWrites = 2
  MaxLosses = 2
  MaxProcesses = 2
  None = None
  Sent = Sent
  Failed = Failed
SPECIFICATION FairSpec
INVARIANTS TypeOK 
 
CHECK_DEADLOCK FALSE
