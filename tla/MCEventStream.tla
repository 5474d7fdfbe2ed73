---------------------------- MODULE MCEventStream ----------------------------
(* One browser with two pages: the results and the route profiles. *)
EXTENDS EventStream

CONSTANT routeProfiles

MCTopics == {routeProfiles}

\* A profile is validated; a profile is edited, whose event nobody listens to.
MCOperations ==
  { [writes |-> {routeProfiles}, refreshes |-> {routeProfiles}],
    [writes |-> {routeProfiles}, refreshes |-> {}] }
=============================================================================
