---------------------------- MODULE RouteProfiles ----------------------------
(***************************************************************************)
(* Route profiles, the tasks that refer to them, and the runs that are     *)
(* validated against them (src/internal/api/routes.go, tasks.go and        *)
(* configuration.go, src/internal/database/routes.go,                      *)
(* src/internal/network/route.go, src/internal/execution/manager.go).      *)
(*                                                                         *)
(* A profile states what the kernel should answer for a network path.      *)
(* Deletion is logical, so that no foreign key keeps a task from referring *)
(* to a deleted profile: the handlers check the reference and, in other    *)
(* store calls, write the task, and they all hold Server.configurationMu.  *)
(* Scheduled runs take their task and its profile in two reads without     *)
(* that mutex.  Manual runs hold it, which is a special case of that here. *)
(*                                                                         *)
(* The last validation of a profile only informs the user and is left out. *)
(***************************************************************************)
CONSTANTS
  Tasks,
  Profiles,
  Paths,           \* pairs of an interface and a source address
  Gateways,        \* pairs of a gateway and a routing table
  Runs,            \* calls of Queue, and the results they create
  TaskChoices,     \* fields of tasks clients submit
  ProfileChoices,  \* fields of profiles clients submit
  Documents,       \* configurations clients import
  Never,           \* a row that was never inserted
  Gone,            \* a row whose deleted_at is set
  None

\* A task without a profile, or a profile without an expected gateway or
\* table, has None there.  A task is strict unless its route_validation is
\* "interface-only".
TaskFields == [path : Paths, profile : Profiles \cup {None}, strict : BOOLEAN]
ProfileFields == [path : Paths, gateway : Gateways \cup {None}]

\* What `ip route get` answers: the path it selects, and the gateway.
Routes == [path : Paths, gateway : Gateways \cup {None}]

ASSUME RouteAssumption ==
  /\ TaskChoices \subseteq TaskFields
  /\ ProfileChoices \subseteq ProfileFields
  /\ Documents \subseteq [tasks : [Tasks -> TaskFields \cup {None}],
                          profiles : [Profiles -> ProfileFields \cup {None}]]
  /\ {Never, Gone, None} \cap (TaskFields \cup ProfileFields) = {}
  /\ Never # Gone /\ Never # None /\ Gone # None
  /\ None \notin Tasks \cup Profiles \cup Gateways

VARIABLES
  task,      \* task[t]: the row of a task
  profile,   \* profile[p]: the row of a route profile
  handler,   \* the handler that holds configurationMu
  run        \* run[r]: a call of Queue and the run it leads to

vars == <<task, profile, handler, run>>

-----------------------------------------------------------------------------
Absent == {Never, Gone}
LiveTask(t) == task[t] \notin Absent
LiveProfile(p) == profile[p] \notin Absent

NoHandler == [at |-> "none", task |-> None, old |-> None, new |-> None]
NoRun == [at |-> "none", task |-> None, fields |-> None, profile |-> None, found |-> None]

Handlers == [at : {"none", "editing", "checked", "stored", "copying"},
             task : Tasks \cup {None}, old : TaskFields \cup {None},
             new : TaskFields \cup {None}]
RunStates == [at : {"none", "loading", "loaded", "queued", "measuring"},
              task : Tasks \cup {None}, fields : TaskFields \cup {None},
              profile : ProfileFields \cup {None}, found : Routes \cup {None}]

TypeOK ==
  /\ task \in [Tasks -> TaskFields \cup Absent]
  /\ profile \in [Profiles -> ProfileFields \cup Absent]
  /\ handler \in Handlers
  /\ handler.at # "none" => handler.task \in Tasks /\ handler.new \in TaskFields
  /\ run \in [Runs -> RunStates]
  /\ \A r \in Runs :
       /\ run[r].at # "none" => run[r].task \in Tasks /\ run[r].fields \in TaskFields
       /\ run[r].at = "measuring" => run[r].found \in Routes

Init ==
  /\ task = [t \in Tasks |-> Never]
  /\ profile = [p \in Profiles |-> Never]
  /\ handler = NoHandler
  /\ run = [r \in Runs |-> NoRun]

-----------------------------------------------------------------------------
(* Handlers of tasks *)

Free == handler.at = "none"

\* A live result of the task is queued, validating or running.
Active(t) == \E r \in Runs : run[r].at \in {"queued", "measuring"} /\ run[r].task = t

Write(t, row) == task' = [task EXCEPT ![t] = row]

\* createTask and updateTask: the mutex is taken and the old row is read.
SubmitTask(t, f) ==
  /\ Free /\ task[t] # Gone
  /\ handler' = [at |-> "editing", task |-> t, new |-> f,
                 old |-> IF LiveTask(t) THEN task[t] ELSE None]
  /\ UNCHANGED <<task, profile, run>>

\* The profile the fields refer to exists and is for the same path.
Refers(f) ==
  f.profile # None => LiveProfile(f.profile) /\ profile[f.profile].path = f.path

\* validateTaskModel, and the preflight of a task that is enabled.
CheckTask ==
  /\ handler.at = "editing"
  /\ Refers(handler.new)
  /\ handler' = [handler EXCEPT !.at = "checked"]
  /\ UNCHANGED <<task, profile, run>>

\* Every return before the write.
Refuse ==
  /\ handler.at \in {"editing", "checked", "copying"}
  /\ handler' = NoHandler
  /\ UNCHANGED <<task, profile, run>>

StoreTask ==
  /\ handler.at = "checked"
  /\ Write(handler.task, handler.new)
  /\ handler' = [handler EXCEPT !.at = "stored"]
  /\ UNCHANGED <<profile, run>>

\* The scheduler has accepted the task, or the compensation has failed too.
FinishTask ==
  /\ handler.at = "stored"
  /\ handler' = NoHandler
  /\ UNCHANGED <<task, profile, run>>

\* Mutant: a creation is taken back like an edit.
UndoAsEdit ==
  /\ handler.at = "stored"
  /\ Write(handler.task, handler.old)
  /\ handler' = NoHandler
  /\ UNCHANGED <<profile, run>>

\* The scheduler has not: a new row is deleted again, unless it is in use
\* already, and an old one is written back.
UndoTask ==
  /\ handler.at = "stored"
  /\ \/ handler.old # None /\ Write(handler.task, handler.old)
     \/ handler.old = None /\ ~Active(handler.task) /\ Write(handler.task, Gone)
  /\ handler' = NoHandler
  /\ UNCHANGED <<profile, run>>

DeleteTask(t) ==
  /\ Free /\ LiveTask(t) /\ ~Active(t)
  /\ Write(t, Gone)
  /\ UNCHANGED <<profile, handler, run>>

\* duplicateTask reads one row and inserts another; it checks nothing.
DuplicateTask(s, t) ==
  /\ Free /\ LiveTask(s) /\ task[t] = Never
  /\ handler' = [at |-> "copying", task |-> t, old |-> None, new |-> task[s]]
  /\ UNCHANGED <<task, profile, run>>

StoreCopy ==
  /\ handler.at = "copying"
  /\ Write(handler.task, handler.new)
  /\ handler' = NoHandler
  /\ UNCHANGED <<profile, run>>

-----------------------------------------------------------------------------
(* Handlers of profiles, and the import *)

\* createRouteProfile and updateRouteProfile; tasks that refer to an edited
\* profile are not looked at.
StoreProfile(p, f) ==
  /\ Free /\ profile[p] # Gone
  /\ profile' = [profile EXCEPT ![p] = f]
  /\ UNCHANGED <<task, handler, run>>

\* Mutant: the handler does not take configurationMu.
DeleteProfileUnlocked(p) ==
  /\ LiveProfile(p)
  /\ \A t \in Tasks : LiveTask(t) => task[t].profile # p
  /\ profile' = [profile EXCEPT ![p] = Gone]
  /\ UNCHANGED <<task, handler, run>>

\* One statement, which finds out whether a live task refers to the profile.
DeleteProfile(p) ==
  /\ Free /\ LiveProfile(p)
  /\ \A t \in Tasks : LiveTask(t) => task[t].profile # p
  /\ profile' = [profile EXCEPT ![p] = Gone]
  /\ UNCHANGED <<task, handler, run>>

\* validateConfigurationDocument: the references of a document are its own.
ValidDocument(d) ==
  \A t \in Tasks : d.tasks[t] # None /\ d.tasks[t].profile # None =>
    LET p == d.tasks[t].profile IN
    d.profiles[p] # None /\ d.profiles[p].path = d.tasks[t].path

\* What the import makes of a row: it is replaced, and comes back if it was
\* deleted, or it is retired.
Imported(new, old) == IF new # None THEN new ELSE IF old = Never THEN Never ELSE Gone

\* ReplaceConfiguration, in one transaction.
ImportConfiguration(d) ==
  /\ Free /\ ValidDocument(d)
  /\ \A t \in Tasks : ~Active(t)
  /\ task' = [t \in Tasks |-> Imported(d.tasks[t], task[t])]
  /\ profile' = [p \in Profiles |-> Imported(d.profiles[p], profile[p])]
  /\ UNCHANGED <<handler, run>>

-----------------------------------------------------------------------------
(* Runs *)

\* Queue reads the task ...
LoadTask(r, t) ==
  /\ run[r].at = "none" /\ LiveTask(t)
  /\ run' = [run EXCEPT ![r] = [NoRun EXCEPT !.at = "loading", !.task = t, !.fields = task[t]]]
  /\ UNCHANGED <<task, profile, handler>>

\* ... then its profile, which must be there ...
LoadProfile(r) ==
  LET p == run[r].fields.profile IN
  /\ run[r].at = "loading"
  /\ \/ p = None /\ run' = [run EXCEPT ![r].at = "loaded"]
     \/ /\ p # None /\ LiveProfile(p)
        /\ run' = [run EXCEPT ![r].at = "loaded", ![r].profile = profile[p]]
  /\ UNCHANGED <<task, profile, handler>>

\* ... and inserts the result, for which the task must still be there.  Both
\* rows may have changed by then.
CreateResult(r) ==
  /\ run[r].at = "loaded" /\ LiveTask(run[r].task)
  /\ run' = [run EXCEPT ![r].at = "queued"]
  /\ UNCHANGED <<task, profile, handler>>

\* Mutant: the paths of task and profile are not compared.
ProfileOfAnyPath(f, stored) ==
  IF f.profile = None THEN [path |-> f.path, gateway |-> None]
  ELSE IF f.strict THEN stored ELSE [stored EXCEPT !.gateway = None]

\* The profile a run is validated against, None if it may not run.
RouteProfileForTask(f, stored) ==
  IF f.profile = None THEN [path |-> f.path, gateway |-> None]
  ELSE IF stored = None \/ stored.path # f.path THEN None
  ELSE IF f.strict THEN stored ELSE [stored EXCEPT !.gateway = None]

\* RouteValidator.Validate, after the checks of the interface and before that
\* of reachability, both of which may fail at any time.
Accepts(effective, found) ==
  /\ found.path = effective.path
  /\ effective.gateway # None => found.gateway = effective.gateway

\* execute validates the run and calls the provider with the task's own path.
StartMeasuring(r, found) ==
  LET effective == RouteProfileForTask(run[r].fields, run[r].profile) IN
  /\ run[r].at = "queued"
  /\ effective # None /\ Accepts(effective, found)
  /\ run' = [run EXCEPT ![r].at = "measuring", ![r].found = found]
  /\ UNCHANGED <<task, profile, handler>>

\* Queue or the run fails at any point, or the measurement is over.
EndRun(r) ==
  /\ run[r].at # "none"
  /\ run' = [run EXCEPT ![r] = NoRun]
  /\ UNCHANGED <<task, profile, handler>>

\* The process ends; the next one cancels what was active.
Halt ==
  /\ handler' = NoHandler
  /\ run' = [r \in Runs |-> NoRun]
  /\ UNCHANGED <<task, profile>>

Next ==
  \/ \E t \in Tasks, f \in TaskChoices : SubmitTask(t, f)
  \/ CheckTask \/ Refuse \/ StoreTask \/ FinishTask \/ UndoTask
  \/ \E t \in Tasks : DeleteTask(t)
  \/ \E s, t \in Tasks : DuplicateTask(s, t)
  \/ StoreCopy
  \/ \E p \in Profiles, f \in ProfileChoices : StoreProfile(p, f)
  \/ \E p \in Profiles : DeleteProfile(p)
  \/ \E d \in Documents : ImportConfiguration(d)
  \/ \E r \in Runs, t \in Tasks : LoadTask(r, t)
  \/ \E r \in Runs : LoadProfile(r) \/ CreateResult(r) \/ EndRun(r)
  \/ \E r \in Runs, found \in Routes : StartMeasuring(r, found)
  \/ Halt

Spec == Init /\ [][Next]_vars

-----------------------------------------------------------------------------
(* Properties *)

\* A live task never refers to a deleted profile: not when the profile is
\* deleted while the task is being checked, copied or written back, and not
\* after an import (docs/architecture.md 81: "referenced route profiles must be
\* detached from live tasks first"; database/routes.go 97-103).
NoDanglingProfile == \A t \in Tasks :
  LiveTask(t) /\ task[t].profile # None => LiveProfile(task[t].profile)

\* A measurement goes over the task's own path, the kernel selected that path
\* for it in this run, and a strict profile got the gateway it expects, although
\* task and profile are edited, one without the other, between the two reads of
\* Queue and while the run waits (docs/networking.md 69-78).
MeasuredPathValidated == \A r \in Runs : run[r].at = "measuring" =>
  LET f == run[r].fields
      stored == run[r].profile IN
  /\ run[r].found.path = f.path
  /\ f.profile # None =>
       /\ stored # None
       /\ f.strict /\ stored.gateway # None => run[r].found.gateway = stored.gateway
=============================================================================
