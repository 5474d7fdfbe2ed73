--------------------------- MODULE MCRouteProfiles ---------------------------
(***************************************************************************)
(* An instance of RouteProfiles for TLC.                                   *)
(***************************************************************************)
EXTENDS RouteProfiles, TLC

CONSTANTS t1, t2, p1, p2, wan, lte, gateway

Task(path, p, strict) == [path |-> path, profile |-> p, strict |-> strict]
Profile(path, g) == [path |-> path, gateway |-> g]

\* Without a profile, strict, on another path, and without a look at gateways.
SomeTasks == {Task(wan, None, TRUE), Task(wan, p1, TRUE), Task(lte, p2, TRUE), Task(wan, p2, FALSE)}
SomeProfiles == {Profile(wan, gateway), Profile(wan, None), Profile(lte, gateway)}

Document(first, second, one, two) ==
  [tasks |-> (t1 :> first @@ t2 :> second), profiles |-> (p1 :> one @@ p2 :> two)]

\* An empty document, a good one, one with a missing profile and one with a
\* profile for another path.
SomeDocuments == {
  Document(None, None, None, None),
  Document(Task(wan, p1, TRUE), None, Profile(wan, gateway), None),
  Document(Task(wan, p1, TRUE), None, None, Profile(wan, gateway)),
  Document(None, Task(wan, p2, FALSE), None, Profile(lte, gateway))}
=============================================================================
