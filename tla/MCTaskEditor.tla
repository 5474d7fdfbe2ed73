---------------------------- MODULE MCTaskEditor ----------------------------
(***************************************************************************)
(* Instances of TaskEditor for TLC: two interfaces, one of them with two   *)
(* addresses, a profile for each of two paths, a name with and without     *)
(* white space around it.                                                  *)
(***************************************************************************)
EXTENDS TaskEditor

CONSTANTS eth, ppp, a4, b4, b6, toEth, toPpp, fiber, padded, s1, s2, never

SomeNames == {Blank, fiber, padded}
Trimmed == [n \in SomeNames |-> IF n = padded THEN fiber ELSE n]

Address(i, f, l) == [interfaceName |-> i, family |-> f, linkLocal |-> l]
SomeAddresses == [a \in {a4, b4, b6} |->
  CASE a = a4 -> Address(eth, "ipv4", FALSE)
    [] a = b4 -> Address(ppp, "ipv4", FALSE)
    [] a = b6 -> Address(ppp, "ipv6", TRUE)]
SomeProfiles == [r \in {toEth, toPpp} |->
  IF r = toEth THEN [interfaceName |-> eth, sourceIp |-> a4]
  ELSE [interfaceName |-> ppp, sourceIp |-> b4]]

Http == [valid |-> TRUE, plain |-> TRUE]
SomeUrls == {Http}

Traversal == [marks |-> {}, segments |-> {"name", "dotdot"}]
SomeEndpoints == {Traversal}

Sound == {"daily", "hourly"}
SomeTimings == Sound \cup {never}

Task(p, m, r, e) ==
  [name |-> fiber, enabled |-> e, provider |-> p, serverSelectionMode |-> m,
   serverId |-> IF m = "fixed" THEN s1 ELSE Blank,
   serverUrl |-> IF m = "custom" THEN Http ELSE Blank,
   custom |-> NoCustom, ipFamily |-> "ipv4", interfaceName |-> eth, sourceIp |-> a4,
   routeProfileId |-> r, timing |-> "daily"]

\* The second one's profile was moved to the other interface after it was saved.
SomeTasks == {Task("librespeed", "fixed", toEth, TRUE), Task("ookla", "automatic", toPpp, FALSE)}
=============================================================================
