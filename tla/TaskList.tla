------------------------------ MODULE TaskList ------------------------------
(***************************************************************************)
(* The list of tasks of the web console (src/web/src/pages/TasksPage.tsx). *)
(*                                                                         *)
(* The switch of a row sends the whole task back, as it was listed, with   *)
(* its flag off: the list may be older than the row on the server, several *)
(* of these requests may be under way, and the answer of a duplication     *)
(* takes the user to the editor wherever he is by then.                    *)
(***************************************************************************)
EXTENDS Integers, FiniteSets

CONSTANTS
  Tasks,                   \* identifiers
  Definitions, Options,    \* what a task measures, and its provider's options
  NoOptions, Null,         \* no options, maybe one of those, and missing ones
  Unreachable,             \* tasks whose path is known to be invalid
  MaxRequests, MaxTroubles,
  None

\* What can be written of a task, and the row the server makes of it.
Inputs == [definition : Definitions, options : Options, enabled : BOOLEAN]
Row(input) ==
  [definition |-> input.definition, options |-> input.options, enabled |-> input.enabled,
   nextScheduledAt |-> IF input.enabled THEN "due" ELSE "never"]
Rows == {Row(i) : i \in Inputs}

\* The server never sends options that are missing.
OptionsKnown == Null \notin Options

VARIABLES
  stored,        \* the server: rows, or None
  \* the query cache
  listed, fetch, failed,
  \* the page: mounted or left for the editor, and the filter for enabled tasks
  mounted, onlyEnabled,
  \* requests under way
  updates,       \* [number, id, from, input] of the switches
  running, duplicating, deleting,
  deleteTask,    \* the task of the dialog that is open
  \* history
  requests, troubles

query == <<listed, fetch, failed>>
page == <<mounted, onlyEnabled, deleteTask>>
mutations == <<updates, running, duplicating, deleting>>
vars == <<stored, query, page, mutations, requests, troubles>>

Unserved == [t \in {} |-> None]

Init ==
  /\ stored \in [Tasks -> {r \in Rows : r.enabled} \cup {None}]
  /\ listed = None /\ fetch = Unserved /\ failed = FALSE
  /\ mounted = TRUE /\ onlyEnabled = FALSE
  /\ updates = {} /\ running = None /\ duplicating = None /\ deleting = None
  /\ deleteTask = None
  /\ requests = 0 /\ troubles = 0

Shown == mounted /\ listed # None /\ ~failed

\* The rows that pass the filter; a dialog is modal.
Visible(t) ==
  /\ Shown /\ deleteTask = None
  /\ listed[t] # None
  /\ onlyEnabled => listed[t].enabled

Starts == requests < MaxRequests /\ requests' = requests + 1
Trouble == troubles < MaxTroubles /\ troubles' = troubles + 1

-----------------------------------------------------------------------------
(* The operations of the API.  Each refuses a task that is gone; its other    *)
(* errors are the failures of the requests.                                   *)

\* PUT replaces the row.
UpdateTask(t, input) ==
  /\ stored[t] # None
  /\ stored' = [stored EXCEPT ![t] = Row(input)]

\* A copy is off.
DuplicateTask(t) ==
  /\ stored[t] # None
  /\ \E copy \in {c \in Tasks : stored[c] = None} :
       stored' = [stored EXCEPT ![copy] = Row([stored[t] EXCEPT !.enabled = FALSE])]

DeleteTask(t) ==
  /\ stored[t] # None
  /\ stored' = [stored EXCEPT ![t] = None]

-----------------------------------------------------------------------------
(* The query *)

\* A fetch that is under way, unless it is the first, is given up; there is
\* none while nobody looks.
Invalidate ==
  fetch' = IF ~mounted \/ (listed = None /\ fetch # None) THEN fetch ELSE Unserved

ListServed ==
  /\ fetch = Unserved
  /\ fetch' = stored
  /\ UNCHANGED <<stored, listed, failed, page, mutations, requests, troubles>>

ListArrives ==
  /\ fetch \notin {None, Unserved}
  /\ listed' = fetch /\ fetch' = None /\ failed' = FALSE
  /\ UNCHANGED <<stored, page, mutations, requests, troubles>>

ListFails ==
  /\ fetch # None /\ Trouble
  /\ fetch' = None /\ failed' = TRUE
  /\ UNCHANGED <<stored, listed, page, mutations, requests>>

\* Try again, an event of a task, or the event stream opens again.
Refetch ==
  /\ mounted /\ Invalidate
  /\ UNCHANGED <<stored, listed, failed, page, mutations, requests, troubles>>

\* The old list is shown until the new one arrives.
Return ==
  /\ ~mounted
  /\ mounted' = TRUE
  /\ fetch' = IF fetch = None THEN Unserved ELSE fetch
  /\ UNCHANGED <<stored, listed, failed, onlyEnabled, deleteTask, mutations, requests, troubles>>

Leave == mounted' = FALSE /\ onlyEnabled' = FALSE /\ deleteTask' = None

\* Edit, create, or the switch of a task that is off: enabling needs the
\* preflight of the editor.
GoToEditor ==
  /\ Shown /\ deleteTask = None
  /\ Leave
  /\ UNCHANGED <<stored, query, mutations, requests, troubles>>

Filter ==
  /\ Shown /\ deleteTask = None
  /\ onlyEnabled' = ~onlyEnabled
  /\ UNCHANGED <<stored, query, mounted, deleteTask, mutations, requests, troubles>>

-----------------------------------------------------------------------------
(* The switch *)

\* Mutant: the options are left to the server's defaults.
taskToInputBare(task) ==
  [definition |-> task.definition, options |-> NoOptions, enabled |-> task.enabled]

\* Every field of the task that can be written, and none of the others.
taskToInput(task) ==
  [definition |-> task.definition, enabled |-> task.enabled,
   options |-> IF task.options = Null THEN NoOptions ELSE task.options]

\* The switch is not disabled while another request is under way.
SwitchOff(t) ==
  /\ Visible(t) /\ listed[t].enabled /\ Starts
  /\ updates' = updates \cup {[number |-> requests', id |-> t, from |-> listed[t],
                               input |-> [taskToInput(listed[t]) EXCEPT !.enabled = FALSE],
                               done |-> FALSE]}
  /\ UNCHANGED <<stored, query, page, running, duplicating, deleting, troubles>>

UpdateServed(u) ==
  /\ ~u.done /\ UpdateTask(u.id, u.input)
  /\ updates' = (updates \ {u}) \cup {[u EXCEPT !.done = TRUE]}
  /\ UNCHANGED <<query, page, running, duplicating, deleting, requests, troubles>>

UpdateArrives(u) ==
  /\ u.done
  /\ updates' = updates \ {u}
  /\ Invalidate
  /\ UNCHANGED <<stored, listed, failed, page, running, duplicating, deleting, requests, troubles>>

UpdateFails(u) ==
  /\ Trouble
  /\ updates' = updates \ {u}
  /\ UNCHANGED <<stored, query, page, running, duplicating, deleting, requests>>

-----------------------------------------------------------------------------
(* The menu: run, duplicate, delete *)

Run(t) ==
  /\ Visible(t) /\ running = None /\ t \notin Unreachable /\ Starts
  /\ running' = t
  /\ UNCHANGED <<stored, query, page, updates, duplicating, deleting, troubles>>

\* Whatever the answer is, only a message follows here.
RunEnds ==
  /\ running # None
  /\ running' = None
  /\ UNCHANGED <<stored, query, page, updates, duplicating, deleting, requests, troubles>>

Duplicate(t) ==
  /\ Visible(t) /\ duplicating = None /\ Starts
  /\ duplicating' = [id |-> t, done |-> FALSE]
  /\ UNCHANGED <<stored, query, page, updates, running, deleting, troubles>>

DuplicateServed ==
  /\ duplicating # None /\ ~duplicating.done /\ DuplicateTask(duplicating.id)
  /\ duplicating' = [duplicating EXCEPT !.done = TRUE]
  /\ UNCHANGED <<query, page, updates, running, deleting, requests, troubles>>

\* The user is taken to the editor of the copy.
DuplicateArrives ==
  /\ duplicating # None /\ duplicating.done
  /\ duplicating' = None
  /\ Invalidate /\ Leave
  /\ UNCHANGED <<stored, listed, failed, updates, running, deleting, requests, troubles>>

DuplicateFails ==
  /\ duplicating # None /\ Trouble
  /\ duplicating' = None
  /\ UNCHANGED <<stored, query, page, updates, running, deleting, requests>>

AskDelete(t) ==
  /\ Visible(t)
  /\ deleteTask' = t
  /\ UNCHANGED <<stored, query, mounted, onlyEnabled, mutations, requests, troubles>>

Dismiss ==
  /\ Shown /\ deleteTask # None
  /\ deleteTask' = None
  /\ UNCHANGED <<stored, query, mounted, onlyEnabled, mutations, requests, troubles>>

ConfirmDelete ==
  /\ Shown /\ deleteTask # None /\ deleting = None /\ Starts
  /\ deleting' = [id |-> deleteTask, done |-> FALSE] /\ deleteTask' = None
  /\ UNCHANGED <<stored, query, mounted, onlyEnabled, updates, running, duplicating, troubles>>

DeleteServed ==
  /\ deleting # None /\ ~deleting.done /\ DeleteTask(deleting.id)
  /\ deleting' = [deleting EXCEPT !.done = TRUE]
  /\ UNCHANGED <<query, page, updates, running, duplicating, requests, troubles>>

\* Whichever dialog is open by then is closed.
DeleteArrives ==
  /\ deleting # None /\ deleting.done
  /\ deleting' = None /\ deleteTask' = None
  /\ Invalidate
  /\ UNCHANGED <<stored, listed, failed, mounted, onlyEnabled, updates, running, duplicating,
                 requests, troubles>>

DeleteFails ==
  /\ deleting # None /\ Trouble
  /\ deleting' = None
  /\ UNCHANGED <<stored, query, page, updates, running, duplicating, requests>>

-----------------------------------------------------------------------------
\* The editor, or another client, writes a task.
Written(t, input) ==
  /\ stored[t] # None /\ Row(input) # stored[t] /\ Trouble
  /\ stored' = [stored EXCEPT ![t] = Row(input)]
  /\ UNCHANGED <<query, page, mutations, requests>>

Next ==
  \/ ListServed \/ ListArrives \/ ListFails \/ Refetch
  \/ Return \/ GoToEditor \/ Filter
  \/ \E t \in Tasks : SwitchOff(t) \/ Run(t) \/ Duplicate(t) \/ AskDelete(t)
  \/ \E u \in updates : UpdateServed(u) \/ UpdateArrives(u) \/ UpdateFails(u)
  \/ RunEnds
  \/ DuplicateServed \/ DuplicateArrives \/ DuplicateFails
  \/ Dismiss \/ ConfirmDelete \/ DeleteServed \/ DeleteArrives \/ DeleteFails
  \/ \E t \in Tasks, i \in Inputs : Written(t, i)

Spec == Init /\ [][Next]_vars

-----------------------------------------------------------------------------
(* Properties *)

SwitchStep ==
  /\ \A u \in updates :
       (/\ ~u.done /\ [u EXCEPT !.done = TRUE] \in updates'
        /\ u.from = stored[u.id])
         => stored'[u.id] = [stored[u.id] EXCEPT !.enabled = FALSE, !.nextScheduledAt = "never"]
  /\ (\E t \in Tasks : /\ stored'[t] # None /\ stored'[t].enabled
                       /\ stored[t] # None => ~stored[t].enabled)
       => troubles' # troubles

\* A switch turns its task off, and as long as the row it was made from is
\* still the server's nothing else of the task changes, whatever else is under
\* way; and no request of the list turns a task on.
SwitchOnlyTurnsOff == [][SwitchStep]_vars
=============================================================================
