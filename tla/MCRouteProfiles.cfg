CONSTANTS
  t1 = t1
  t2 = t2
  p1 = p1
  p2 = p2
  wan = wan
  lte = lte
  gateway = gateway
  Never = Never
  Gone = Gone
  None = None
  Tasks = {t1, t2}
  Profiles = {p1, p2}
  Paths = {wan, lte}
  Gateways = {gateway}
  Runs = {r1}
  TaskChoices <- SomeTasks
  ProfileChoices <- SomeProfiles
  Documents <- SomeDocuments
SPECIFICATION Spec
INVARIANTS TypeOK NoDanglingProfile MeasuredPathValidated
