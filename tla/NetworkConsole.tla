--------------------------- MODULE NetworkConsole ---------------------------
(***************************************************************************)
(* The network page of the web console                                     *)
(* (src/web/src/pages/NetworkPage.tsx): the interfaces that were found and *)
(* the route profiles, with the dialogs that edit and delete one and the   *)
(* button that validates one.  The profiles are the server's; the page     *)
(* fetches them again after its own requests and after events, while other *)
(* clients change them too.  The path stands for what a profile expects.   *)
(* The list of interfaces offers what was found; of its fetches only the   *)
(* failures matter here.                                                   *)
(***************************************************************************)
EXTENDS Integers

CONSTANTS
  Profiles,    \* identifiers of route profiles
  Populations, \* sets of profiles that may exist at first
  Links,       \* pairs [interfaceName, sourceIp] discovery may find
  Down,        \* the ones whose interface is down or virtual
  MaxRequests, MaxEdits, MaxTroubles,
  Blank, None

InterfaceNames == {l.interfaceName : l \in Links}
SourceIps == {l.sourceIp : l \in Links}
routeDefaults == [interfaceName |-> Blank, sourceIp |-> Blank]

\* What a form may hold, the rows of the server, lists of them and requests.
Paths == [interfaceName : InterfaceNames \cup {Blank}, sourceIp : SourceIps \cup {Blank}]
Rows == [path : Paths, outcome : {"none", "valid", "mismatch"}]
Lists == [Profiles -> Rows \cup {None}]
Saves == [arg : [profile : Profiles \cup {Blank}, path : Paths], done : BOOLEAN]
Deletions == [arg : Profiles, done : BOOLEAN]

\* There is something to route through; None is the absence of a profile, a
\* row, a list and a request.
ConstantsApart ==
  /\ Links # {} /\ Links \subseteq [interfaceName : InterfaceNames, sourceIp : SourceIps]
  /\ None \notin Profiles \cup Rows \cup Saves \cup Deletions \cup Lists \cup [{} -> {None}]

VARIABLES
  stored,               \* the server: rows [path, outcome], or None
  \* the query cache
  routes, routesFetch,  \* the profiles, and the fetch that is under way
  failed,               \* queries in error, of "routes" and "links"
  \* the page
  includeDown, refreshing,
  editRoute, draft, saving,
  deleteRoute, deleting,
  validation, checks,
  \* history
  requests, edits,
  troubles,   \* what other clients and the network do
  overtaken   \* another client has written, or an answer was lost, and the
              \* profiles have not been fetched since

routeQuery == <<routes, routesFetch>>
filter == <<includeDown, refreshing>>
dialog == <<editRoute, draft, saving, edits>>
removal == <<deleteRoute, deleting>>
check == <<validation, checks>>
history == <<requests, troubles, overtaken>>
vars == <<stored, routeQuery, failed, filter, dialog, removal, check, history>>

Unserved == [p \in {} |-> None]
Row(l) == [path |-> l, outcome |-> "none"]
Existing(r) == {p \in Profiles : r[p] # None}

offered == IF includeDown THEN Links ELSE Links \ Down

Init ==
  /\ stored \in {[p \in Profiles |-> IF p \in ids THEN Row(CHOOSE l \in Links : TRUE) ELSE None] :
                   ids \in Populations}
  /\ routes = None /\ routesFetch = Unserved
  /\ failed = {}
  /\ includeDown = FALSE /\ refreshing = FALSE
  /\ editRoute = None /\ draft = routeDefaults /\ saving = None /\ edits = 0
  /\ deleteRoute = None /\ deleting = None
  /\ validation = None /\ checks = {}
  /\ requests = 0 /\ troubles = 0 /\ overtaken = FALSE

\* The queries have data and none is in error; a dialog is modal.
Shown == routes # None /\ failed = {}
Usable == Shown /\ editRoute = None /\ deleteRoute = None

\* A request: what it is about, and whether the server is done with it.
Request(arg) == [arg |-> arg, done |-> FALSE]
Starts == requests < MaxRequests /\ requests' = requests + 1

\* The request fails, or its answer is lost.
Loses(request) ==
  /\ request # None /\ troubles < MaxTroubles
  /\ troubles' = troubles + 1
  /\ overtaken' = (overtaken \/ request.done)

-----------------------------------------------------------------------------
(* The operations of the API.  Each refuses a profile that is gone; its other *)
(* errors are the failures of the requests.                                   *)

CreateRouteProfile(path) ==
  \E p \in Profiles \ Existing(stored) : stored' = [stored EXCEPT ![p] = Row(path)]

UpdateRouteProfile(p, path) ==
  /\ stored[p] # None
  /\ stored' = [stored EXCEPT ![p] = Row(path)]

DeleteRouteProfile(p) ==
  /\ stored[p] # None
  /\ stored' = [stored EXCEPT ![p] = None]

\* The outcome is stored with the profile.
ValidateRouteProfile(p) ==
  /\ stored[p] # None
  /\ \E o \in {"valid", "mismatch"} : stored' = [stored EXCEPT ![p].outcome = o]

-----------------------------------------------------------------------------
(* The queries *)

\* Mutant: the fetch that is under way is good enough.
InvalidateRoutesLazily == routesFetch' = IF routesFetch = None THEN Unserved ELSE routesFetch

\* A fetch that is under way, unless it is the first, is given up.
InvalidateRoutes ==
  routesFetch' = IF routes = None /\ routesFetch # None THEN routesFetch ELSE Unserved

RoutesServed ==
  /\ routesFetch = Unserved
  /\ routesFetch' = stored
  /\ UNCHANGED <<stored, routes, failed, filter, dialog, removal, check, history>>

RoutesArrive ==
  /\ routesFetch \notin {None, Unserved}
  /\ routes' = routesFetch /\ routesFetch' = None
  /\ failed' = failed \ {"routes"}
  /\ overtaken' = (overtaken /\ routesFetch # stored)
  /\ UNCHANGED <<stored, filter, dialog, removal, check, requests, troubles>>

RoutesFail ==
  /\ routesFetch # None /\ troubles < MaxTroubles
  /\ routesFetch' = None
  /\ failed' = failed \cup {"routes"}
  /\ troubles' = troubles + 1
  /\ UNCHANGED <<stored, routes, filter, dialog, removal, check, requests,
                 overtaken>>

\* The interfaces cannot be fetched, or can again.
LinksFail ==
  /\ "links" \notin failed /\ troubles < MaxTroubles
  /\ failed' = failed \cup {"links"}
  /\ troubles' = troubles + 1
  /\ UNCHANGED <<stored, routeQuery, filter, dialog, removal, check, requests, overtaken>>

LinksArrive ==
  /\ "links" \in failed
  /\ failed' = failed \ {"links"}
  /\ UNCHANGED <<stored, routeQuery, filter, dialog, removal, check, history>>

\* Try again.
Retry ==
  /\ failed # {}
  /\ InvalidateRoutes
  /\ UNCHANGED <<stored, routes, failed, filter, dialog, removal, check, history>>

\* An event of a route validation, or the event stream opens again.
EventArrives ==
  /\ InvalidateRoutes
  /\ UNCHANGED <<stored, routes, failed, filter, dialog, removal, check, history>>

\* Show interfaces that are down or virtual.
ToggleDown ==
  /\ Usable /\ edits < MaxEdits
  /\ includeDown' = ~includeDown /\ edits' = edits + 1
  /\ UNCHANGED <<stored, routeQuery, failed, refreshing, editRoute, draft, saving, removal,
                 check, history>>

\* The server discovers the interfaces anew; its answer has them fetched.
Refresh ==
  /\ Usable /\ ~refreshing /\ Starts
  /\ refreshing' = TRUE
  /\ UNCHANGED <<stored, routeQuery, failed, includeDown, dialog, removal, check, troubles,
                 overtaken>>

RefreshEnds ==
  /\ refreshing
  /\ refreshing' = FALSE
  /\ UNCHANGED <<stored, routeQuery, failed, includeDown, dialog, removal, check, history>>

-----------------------------------------------------------------------------
(* RouteDialog *)

\* The form starts from the profile as it was listed when the dialog opened,
\* or from the defaults.
Open(p) ==
  /\ Usable /\ (p \in Profiles => routes[p] # None)
  /\ editRoute' = p
  /\ draft' = IF p \in Profiles THEN routes[p].path ELSE routeDefaults
  /\ UNCHANGED <<stored, routeQuery, failed, filter, saving, edits, removal, check,
                 history>>

\* Cancel is disabled while a save is under way; the cross and the keyboard
\* are not.
Close ==
  /\ Shown /\ editRoute # None
  /\ editRoute' = None /\ draft' = routeDefaults
  /\ UNCHANGED <<stored, routeQuery, failed, filter, saving, edits, removal, check,
                 history>>

Enter(d) ==
  /\ Shown /\ editRoute # None /\ edits < MaxEdits /\ d # draft
  /\ draft' = d /\ edits' = edits + 1
  /\ UNCHANGED <<stored, routeQuery, failed, filter, editRoute, saving, removal,
                 check, history>>

SelectInterface(i) ==
  /\ i \in {l.interfaceName : l \in offered} \cup {Blank}
  /\ Enter([interfaceName |-> i, sourceIp |-> Blank])

SelectSource(a) ==
  /\ [draft EXCEPT !.sourceIp = a] \in offered
  /\ Enter([draft EXCEPT !.sourceIp = a])

\* routeSchema asks for both; the request is for the profile of the dialog.
Save ==
  /\ Shown /\ editRoute # None /\ saving = None /\ Starts
  /\ draft.interfaceName # Blank /\ draft.sourceIp # Blank
  /\ saving' = Request([profile |-> editRoute, path |-> draft])
  /\ UNCHANGED <<stored, routeQuery, failed, filter, editRoute, draft, edits,
                 removal, check, troubles, overtaken>>

SaveServed ==
  /\ saving # None /\ ~saving.done
  /\ IF saving.arg.profile \in Profiles
     THEN UpdateRouteProfile(saving.arg.profile, saving.arg.path)
     ELSE CreateRouteProfile(saving.arg.path)
  /\ saving' = [saving EXCEPT !.done = TRUE]
  /\ UNCHANGED <<routeQuery, failed, filter, editRoute, draft, edits,
                 removal, check, history>>

\* Whichever dialog is open by then is closed.
SaveArrives ==
  /\ saving # None /\ saving.done
  /\ saving' = None /\ editRoute' = None /\ draft' = routeDefaults
  /\ InvalidateRoutes
  /\ UNCHANGED <<stored, routes, failed, filter, edits, removal, check, history>>

SaveFails ==
  /\ Loses(saving)
  /\ saving' = None
  /\ UNCHANGED <<stored, routeQuery, failed, filter, editRoute, draft, edits,
                 removal, check, requests>>

-----------------------------------------------------------------------------
(* Deletion *)

AskDelete(p) ==
  /\ Usable /\ routes[p] # None
  /\ deleteRoute' = p
  /\ UNCHANGED <<stored, routeQuery, failed, filter, dialog, deleting, check, history>>

Dismiss ==
  /\ Shown /\ deleteRoute # None
  /\ deleteRoute' = None
  /\ UNCHANGED <<stored, routeQuery, failed, filter, dialog, deleting, check, history>>

ConfirmDelete ==
  /\ Shown /\ deleteRoute # None /\ deleting = None /\ Starts
  /\ deleting' = Request(deleteRoute) /\ deleteRoute' = None
  /\ UNCHANGED <<stored, routeQuery, failed, filter, dialog, check, troubles,
                 overtaken>>

\* The server refuses when a task refers to the profile.
DeleteServed ==
  /\ deleting # None /\ ~deleting.done /\ DeleteRouteProfile(deleting.arg)
  /\ deleting' = [deleting EXCEPT !.done = TRUE]
  /\ UNCHANGED <<routeQuery, failed, filter, dialog, deleteRoute, check,
                 history>>

DeleteArrives ==
  /\ deleting # None /\ deleting.done
  /\ deleting' = None /\ deleteRoute' = None
  /\ InvalidateRoutes
  /\ UNCHANGED <<stored, routes, failed, filter, dialog, check, history>>

DeleteFails ==
  /\ Loses(deleting)
  /\ deleting' = None
  /\ UNCHANGED <<stored, routeQuery, failed, filter, dialog, deleteRoute, check,
                 requests>>

-----------------------------------------------------------------------------
(* Validation *)

\* The button of a profile is disabled while it is the one that is validated.
Validate(p) ==
  /\ Usable /\ routes[p] # None /\ validation # [profile |-> p, pending |-> TRUE]
  /\ Starts
  /\ validation' = [profile |-> p, pending |-> TRUE]
  /\ checks' = checks \cup {[arg |-> p, number |-> requests', done |-> FALSE]}
  /\ UNCHANGED <<stored, routeQuery, failed, filter, dialog, removal, troubles,
                 overtaken>>

CheckServed(c) ==
  /\ c \in checks /\ ~c.done /\ ValidateRouteProfile(c.arg)
  /\ checks' = (checks \ {c}) \cup {[c EXCEPT !.done = TRUE]}
  /\ UNCHANGED <<routeQuery, failed, filter, dialog, removal, validation,
                 history>>

\* Whichever profile it was for, nothing is pending any more.
Settled == IF validation = None THEN None ELSE [validation EXCEPT !.pending = FALSE]

CheckArrives(c) ==
  /\ c \in checks /\ c.done
  /\ checks' = checks \ {c} /\ validation' = Settled
  /\ InvalidateRoutes
  /\ UNCHANGED <<stored, routes, failed, filter, dialog, removal, history>>

CheckFails(c) ==
  /\ c \in checks /\ Loses(c)
  /\ checks' = checks \ {c} /\ validation' = Settled
  /\ UNCHANGED <<stored, routeQuery, failed, filter, dialog, removal, requests>>

-----------------------------------------------------------------------------
\* Another client saves or deletes a profile; there is no event about it.
ForeignWrite(p) ==
  /\ troubles < MaxTroubles
  /\ \E r \in {Row(l) : l \in Links} \cup {None} :
       r # stored[p] /\ stored' = [stored EXCEPT ![p] = r]
  /\ troubles' = troubles + 1 /\ overtaken' = TRUE
  /\ UNCHANGED <<routeQuery, failed, filter, dialog, removal, check, requests>>

Next ==
  \/ RoutesServed \/ RoutesArrive \/ RoutesFail
  \/ LinksArrive \/ LinksFail
  \/ Retry \/ EventArrives \/ ToggleDown
  \/ Refresh \/ RefreshEnds
  \/ \E p \in Profiles \cup {Blank} : Open(p)
  \/ Close
  \/ \E i \in InterfaceNames \cup {Blank} : SelectInterface(i)
  \/ \E a \in SourceIps : SelectSource(a)
  \/ Save \/ SaveServed \/ SaveArrives \/ SaveFails
  \/ \E p \in Profiles : AskDelete(p) \/ Validate(p) \/ ForeignWrite(p)
  \/ Dismiss \/ ConfirmDelete \/ DeleteServed \/ DeleteArrives \/ DeleteFails
  \/ \E c \in checks : CheckServed(c) \/ CheckArrives(c) \/ CheckFails(c)

Spec == Init /\ [][Next]_vars

-----------------------------------------------------------------------------
(* Properties *)

\* Once every request of the page has been answered, the profiles it lists are
\* the server's, with the outcome of their latest validation, and no profile
\* is shown as being validated; unless another client has written or an answer
\* was lost, and no fetch has shown that yet.
RoutesSettle ==
  (/\ Shown /\ routesFetch = None
   /\ saving = None /\ deleting = None /\ checks = {}
   /\ ~overtaken)
    => /\ routes = stored
       /\ validation # None => ~validation.pending
=============================================================================
