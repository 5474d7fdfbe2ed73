------------------------- MODULE RouteProfilesProofs -------------------------
(***************************************************************************)
(* Theorems about route profiles, for every set of tasks, profiles, paths, *)
(* runs, submitted fields and imported documents.                          *)
(***************************************************************************)
EXTENDS RouteProfiles, TLAPS

\* The fields refer to no profile, or to a live one.
Attached(f) == f.profile # None => LiveProfile(f.profile)

\* What a handler is about to write refers to live profiles, and so does what
\* it may write back.
HandlerAttached ==
  /\ handler.at \in {"checked", "stored", "copying"} => Attached(handler.new)
  /\ handler.at # "none" /\ handler.old # None => Attached(handler.old)

\* The inductive invariant of the references.
ReferenceInv == TypeOK /\ HandlerAttached /\ NoDanglingProfile

-----------------------------------------------------------------------------
(* Types *)

\* A handler goes on to another place, or ends.
LEMMA HandlerTyped ==
  ASSUME TypeOK, NEW to \in {"editing", "checked", "stored", "copying"},
         handler.at # "none",
         handler' = [handler EXCEPT !.at = to] \/ handler' = NoHandler
  PROVE  /\ handler' \in Handlers
         /\ handler'.at # "none" => handler'.task \in Tasks /\ handler'.new \in TaskFields
  BY DEF TypeOK, Handlers, NoHandler

LEMMA NoHandlerTyped ==
  /\ NoHandler \in Handlers
  /\ NoHandler.at = "none"
  BY DEF NoHandler, Handlers

LEMMA NoRunTyped ==
  /\ NoRun \in RunStates
  /\ NoRun.at = "none"
  BY DEF NoRun, RunStates

\* A write to the table of tasks.
LEMMA WriteTyped ==
  ASSUME TypeOK, NEW t \in Tasks, NEW row \in TaskFields \cup Absent, Write(t, row)
  PROVE  task' \in [Tasks -> TaskFields \cup Absent]
  BY DEF TypeOK, Write

\* The runs after one of them has changed.
RunsTyped(rs) ==
  /\ rs \in [Runs -> RunStates]
  /\ \A r \in Runs :
       /\ rs[r].at # "none" => rs[r].task \in Tasks /\ rs[r].fields \in TaskFields
       /\ rs[r].at = "measuring" => rs[r].found \in Routes

LEMMA OneRunTyped ==
  ASSUME RunsTyped(run), NEW r \in Runs, NEW s \in RunStates,
         s.at # "none" => s.task \in Tasks /\ s.fields \in TaskFields,
         s.at = "measuring" => s.found \in Routes
  PROVE  RunsTyped([run EXCEPT ![r] = s])
  BY DEF RunsTyped

LEMMA InitTyped == Init => TypeOK
<1> SUFFICES ASSUME Init PROVE TypeOK
  OBVIOUS
<1>1. RunsTyped(run)
  BY NoRunTyped DEF Init, RunsTyped
<1>2. handler \in Handlers /\ handler.at = "none"
  BY NoHandlerTyped DEF Init
<1> QED
  BY <1>1, <1>2 DEF Init, TypeOK, RunsTyped, Absent

LEMMA NextTyped == TypeOK /\ [Next]_vars => TypeOK'
<1> SUFFICES ASSUME TypeOK, [Next]_vars PROVE TypeOK'
  OBVIOUS
<1> USE RouteAssumption
<1> DEFINE TablesTyped == /\ task' \in [Tasks -> TaskFields \cup Absent]
                          /\ profile' \in [Profiles -> ProfileFields \cup Absent]
           HandlerOK == /\ handler' \in Handlers
                        /\ handler'.at # "none" =>
                             handler'.task \in Tasks /\ handler'.new \in TaskFields
           RunsOK == RunsTyped(run')
<1>0. TablesTyped /\ HandlerOK /\ RunsOK => TypeOK'
  BY DEF TypeOK, RunsTyped
<1>h. RunsTyped(run)
  BY DEF TypeOK, RunsTyped
<1>t. task \in [Tasks -> TaskFields \cup Absent] /\ profile \in [Profiles -> ProfileFields \cup Absent]
  BY DEF TypeOK
<1> HIDE DEF TablesTyped, HandlerOK, RunsOK
<1>u. UNCHANGED <<task, profile>> => TablesTyped
  BY <1>t DEF TablesTyped
<1>v. UNCHANGED handler => HandlerOK
  BY DEF TypeOK, HandlerOK
<1>w. UNCHANGED run => RunsOK
  BY <1>h DEF RunsOK
<1>n. handler' = NoHandler => HandlerOK
  BY NoHandlerTyped DEF HandlerOK
<1>1. ASSUME NEW t \in Tasks, NEW f \in TaskChoices, SubmitTask(t, f) PROVE TypeOK'
  <2>1. task[t] \in TaskFields \/ task[t] \in Absent
    BY <1>t
  <2>2. HandlerOK
    BY <1>1, <2>1 DEF SubmitTask, HandlerOK, Handlers, LiveTask
  <2> QED
    BY <1>1, <2>2, <1>u, <1>w, <1>0 DEF SubmitTask
<1>2. CASE CheckTask
  <2>1. HandlerOK
    BY <1>2, HandlerTyped DEF CheckTask, HandlerOK
  <2> QED
    BY <1>2, <2>1, <1>u, <1>w, <1>0 DEF CheckTask
<1>3. CASE Refuse
  BY <1>3, <1>n, <1>u, <1>w, <1>0 DEF Refuse
<1>4. CASE StoreTask
  <2>1. HandlerOK
    BY <1>4, HandlerTyped DEF StoreTask, HandlerOK
  <2>2. TablesTyped
    BY <1>4, <1>t, WriteTyped DEF StoreTask, TablesTyped, TypeOK
  <2> QED
    BY <1>4, <2>1, <2>2, <1>w, <1>0 DEF StoreTask
<1>5. CASE FinishTask
  BY <1>5, <1>n, <1>u, <1>w, <1>0 DEF FinishTask
<1>6. CASE UndoTask
  <2>1. handler.task \in Tasks /\ handler.old \in TaskFields \cup {None}
    BY <1>6 DEF UndoTask, TypeOK, Handlers
  <2>2. TablesTyped
    BY <1>6, <1>t, <2>1, WriteTyped DEF UndoTask, TablesTyped, Absent
  <2> QED
    BY <1>6, <2>2, <1>n, <1>w, <1>0 DEF UndoTask
<1>7. ASSUME NEW t \in Tasks, DeleteTask(t) PROVE TypeOK'
  <2>1. TablesTyped
    BY <1>7, <1>t, WriteTyped DEF DeleteTask, TablesTyped, Absent
  <2> QED
    BY <1>7, <2>1, <1>v, <1>w, <1>0 DEF DeleteTask
<1>8. ASSUME NEW s \in Tasks, NEW t \in Tasks, DuplicateTask(s, t) PROVE TypeOK'
  <2>1. task[s] \in TaskFields
    BY <1>8, <1>t DEF DuplicateTask, LiveTask
  <2>2. HandlerOK
    BY <1>8, <2>1 DEF DuplicateTask, HandlerOK, Handlers
  <2> QED
    BY <1>8, <2>2, <1>u, <1>w, <1>0 DEF DuplicateTask
<1>9. CASE StoreCopy
  <2>1. TablesTyped
    BY <1>9, <1>t, WriteTyped DEF StoreCopy, TablesTyped, TypeOK
  <2> QED
    BY <1>9, <2>1, <1>n, <1>w, <1>0 DEF StoreCopy
<1>10. ASSUME NEW p \in Profiles, NEW f \in ProfileChoices, StoreProfile(p, f) PROVE TypeOK'
  <2>1. TablesTyped
    BY <1>10, <1>t DEF StoreProfile, TablesTyped
  <2> QED
    BY <1>10, <2>1, <1>v, <1>w, <1>0 DEF StoreProfile
<1>11. ASSUME NEW p \in Profiles, DeleteProfile(p) PROVE TypeOK'
  <2>1. TablesTyped
    BY <1>11, <1>t DEF DeleteProfile, TablesTyped, Absent
  <2> QED
    BY <1>11, <2>1, <1>v, <1>w, <1>0 DEF DeleteProfile
<1>12. ASSUME NEW d \in Documents, ImportConfiguration(d) PROVE TypeOK'
  <2>1. /\ d.tasks \in [Tasks -> TaskFields \cup {None}]
        /\ d.profiles \in [Profiles -> ProfileFields \cup {None}]
    OBVIOUS
  <2>2. TablesTyped
    BY <1>12, <2>1 DEF ImportConfiguration, TablesTyped, Imported, Absent
  <2> QED
    BY <1>12, <2>2, <1>v, <1>w, <1>0 DEF ImportConfiguration
<1>13. ASSUME NEW r \in Runs, NEW t \in Tasks, LoadTask(r, t) PROVE TypeOK'
  <2>1. task[t] \in TaskFields
    BY <1>13, <1>t DEF LoadTask, LiveTask
  <2> DEFINE s == [NoRun EXCEPT !.at = "loading", !.task = t, !.fields = task[t]]
  <2>2. s \in RunStates /\ s.at = "loading" /\ s.task = t /\ s.fields = task[t]
    BY <2>1 DEF RunStates, NoRun
  <2>3. run' = [run EXCEPT ![r] = s]
    BY <1>13 DEF LoadTask
  <2> HIDE DEF s
  <2>4. RunsOK
    BY <1>h, <2>1, <2>2, <2>3, OneRunTyped DEF RunsOK
  <2> QED
    BY <1>13, <2>4, <1>u, <1>v, <1>0 DEF LoadTask
<1>14. ASSUME NEW r \in Runs, LoadProfile(r) PROVE TypeOK'
  <2>1. PICK q \in ProfileFields \cup {None} :
          run' = [run EXCEPT ![r] = [run[r] EXCEPT !.at = "loaded", !.profile = q]]
    <3>1. run \in [Runs -> RunStates] /\ run[r].fields \in TaskFields
      BY <1>14, <1>h DEF LoadProfile, RunsTyped
    <3>2. CASE run[r].fields.profile = None
      <4>1. run' = [run EXCEPT ![r].at = "loaded"]
        BY <1>14, <3>2 DEF LoadProfile
      <4>2. [run[r] EXCEPT !.at = "loaded", !.profile = run[r].profile] = [run[r] EXCEPT !.at = "loaded"]
        BY <3>1 DEF RunStates
      <4>3. run[r].profile \in ProfileFields \cup {None}
        BY <3>1 DEF RunStates
      <4> QED
        BY <4>1, <4>2, <4>3
    <3>3. CASE run[r].fields.profile # None
      <4> DEFINE p == run[r].fields.profile
      <4>1. p \in Profiles
        BY <3>1, <3>3 DEF TaskFields
      <4>2. profile[p] \in ProfileFields
        BY <1>14, <1>t, <3>3, <4>1 DEF LoadProfile, LiveProfile
      <4>3. run' = [run EXCEPT ![r].at = "loaded", ![r].profile = profile[p]]
        BY <1>14, <3>3 DEF LoadProfile
      <4> QED
        BY <4>2, <4>3
    <3> QED
      BY <3>2, <3>3
  <2> DEFINE s == [run[r] EXCEPT !.at = "loaded", !.profile = q]
  <2>2. s \in RunStates /\ s.at = "loaded" /\ s.task \in Tasks /\ s.fields \in TaskFields
    <3>1. run[r] \in RunStates /\ run[r].task \in Tasks /\ run[r].fields \in TaskFields
      BY <1>14, <1>h DEF LoadProfile, RunsTyped
    <3>2. q \in ProfileFields \cup {None}
      OBVIOUS
    <3> QED
      BY <3>1, <3>2 DEF RunStates
  <2>3. run' = [run EXCEPT ![r] = s]
    BY <2>1
  <2> HIDE DEF s
  <2>4. RunsOK
    BY <1>h, <2>2, <2>3, OneRunTyped DEF RunsOK
  <2> QED
    BY <1>14, <2>4, <1>u, <1>v, <1>0 DEF LoadProfile
<1>14a. ASSUME NEW r \in Runs, CreateResult(r) PROVE TypeOK'
  <2> DEFINE s == [run[r] EXCEPT !.at = "queued"]
  <2>1. s \in RunStates /\ s.at = "queued" /\ s.task \in Tasks /\ s.fields \in TaskFields
    BY <1>14a, <1>h DEF CreateResult, RunsTyped, RunStates
  <2>2. run' = [run EXCEPT ![r] = s]
    BY <1>14a DEF CreateResult
  <2> HIDE DEF s
  <2>3. RunsOK
    BY <1>h, <2>1, <2>2, OneRunTyped DEF RunsOK
  <2> QED
    BY <1>14a, <2>3, <1>u, <1>v, <1>0 DEF CreateResult
<1>15. ASSUME NEW r \in Runs, EndRun(r) PROVE TypeOK'
  <2>1. RunsOK
    BY <1>15, <1>h, NoRunTyped, OneRunTyped DEF EndRun, RunsOK
  <2> QED
    BY <1>15, <2>1, <1>u, <1>v, <1>0 DEF EndRun
<1>16. ASSUME NEW r \in Runs, NEW found \in Routes, StartMeasuring(r, found) PROVE TypeOK'
  <2> DEFINE s == [run[r] EXCEPT !.at = "measuring", !.found = found]
  <2>1. /\ s \in RunStates /\ s.task \in Tasks /\ s.fields \in TaskFields
        /\ s.found = found
    BY <1>16, <1>h DEF StartMeasuring, RunsTyped, RunStates
  <2>2. run' = [run EXCEPT ![r] = s]
    BY <1>16 DEF StartMeasuring
  <2> HIDE DEF s
  <2>3. RunsOK
    BY <1>h, <2>1, <2>2, OneRunTyped DEF RunsOK
  <2> QED
    BY <1>16, <2>3, <1>u, <1>v, <1>0 DEF StartMeasuring
<1>17. CASE Halt
  <2>1. RunsOK
    BY <1>17, NoRunTyped DEF Halt, RunsOK, RunsTyped
  <2> QED
    BY <1>17, <2>1, <1>u, <1>n, <1>0 DEF Halt
<1>18. CASE UNCHANGED vars
  BY <1>18, <1>u, <1>v, <1>w, <1>0 DEF vars
<1> QED
  BY <1>1, <1>2, <1>3, <1>4, <1>5, <1>6, <1>7, <1>8, <1>9, <1>10, <1>11, <1>12,
     <1>13, <1>14, <1>15, <1>16, <1>17, <1>18, <1>14a DEF Next

\* The tables, the handler and the runs keep their types; in particular a
\* creation that is taken back never writes the absent old row.
THEOREM RoutesTyped == Spec => []TypeOK
  BY InitTyped, NextTyped, PTL DEF Spec

-----------------------------------------------------------------------------
(* References *)

\* A write of fields that refer to a live profile, or of a deleted row.
LEMMA WriteAttached ==
  ASSUME TypeOK, NoDanglingProfile, NEW t \in Tasks, NEW row \in TaskFields \cup {Gone},
         row = Gone \/ Attached(row), Write(t, row), UNCHANGED profile
  PROVE  NoDanglingProfile'
  BY DEF TypeOK, NoDanglingProfile, Attached, Write, LiveTask, LiveProfile, Absent

LEMMA NextAttached == ReferenceInv /\ [Next]_vars => ReferenceInv'
<1> SUFFICES ASSUME ReferenceInv, [Next]_vars PROVE ReferenceInv'
  OBVIOUS
<1> USE RouteAssumption
<1>0. TypeOK /\ TypeOK' /\ HandlerAttached /\ NoDanglingProfile
  BY NextTyped DEF ReferenceInv
<1>n. handler' = NoHandler => HandlerAttached'
  BY DEF NoHandler, HandlerAttached
<1>u. UNCHANGED <<task, profile>> => NoDanglingProfile'
  BY <1>0 DEF NoDanglingProfile, LiveTask, LiveProfile
<1>f. Free /\ UNCHANGED handler => HandlerAttached'
  BY DEF Free, HandlerAttached
<1>v. UNCHANGED <<handler, profile>> => HandlerAttached'
  BY <1>0 DEF HandlerAttached, Attached, LiveProfile
<1>1. ASSUME NEW t \in Tasks, NEW f \in TaskChoices, SubmitTask(t, f) PROVE ReferenceInv'
  <2>1. handler'.at = "editing" /\ (handler'.old # None => LiveTask(t) /\ handler'.old = task[t])
    BY <1>1 DEF SubmitTask
  <2>2. HandlerAttached'
    BY <1>0, <1>1, <2>1 DEF SubmitTask, HandlerAttached, NoDanglingProfile, Attached, LiveProfile
  <2> QED
    BY <1>1, <2>2, <1>0, <1>u DEF SubmitTask, ReferenceInv
<1>2. CASE CheckTask
  <2>1. Attached(handler.new)
    BY <1>2 DEF CheckTask, Refers, Attached
  <2>2. handler'.new = handler.new /\ handler'.old = handler.old
    BY <1>0, <1>2 DEF CheckTask, TypeOK, Handlers
  <2>3. HandlerAttached'
    BY <1>0, <1>2, <2>1, <2>2 DEF CheckTask, HandlerAttached, Attached, LiveProfile
  <2> QED
    BY <1>2, <2>3, <1>0, <1>u DEF CheckTask, ReferenceInv
<1>3. CASE Refuse
  BY <1>3, <1>0, <1>n, <1>u DEF Refuse, ReferenceInv
<1>4. CASE StoreTask
  <2>1. Attached(handler.new) /\ handler.task \in Tasks /\ handler.new \in TaskFields
    BY <1>0, <1>4 DEF StoreTask, HandlerAttached, TypeOK
  <2>2. handler'.new = handler.new /\ handler'.old = handler.old
    BY <1>0, <1>4 DEF StoreTask, TypeOK, Handlers
  <2>3. HandlerAttached'
    BY <1>0, <1>4, <2>1, <2>2 DEF StoreTask, HandlerAttached, Attached, LiveProfile
  <2>4. NoDanglingProfile'
    BY <1>0, <1>4, <2>1, WriteAttached DEF StoreTask
  <2> QED
    BY <2>3, <2>4, <1>0 DEF ReferenceInv
<1>5. CASE FinishTask
  BY <1>5, <1>0, <1>n, <1>u DEF FinishTask, ReferenceInv
<1>6. CASE UndoTask
  <2>1. handler.task \in Tasks /\ (handler.old # None => Attached(handler.old) /\ handler.old \in TaskFields)
    BY <1>0, <1>6 DEF UndoTask, HandlerAttached, TypeOK, Handlers
  <2>2. NoDanglingProfile'
    BY <1>0, <1>6, <2>1, WriteAttached DEF UndoTask
  <2> QED
    BY <1>6, <2>2, <1>0, <1>n DEF UndoTask, ReferenceInv
<1>7. ASSUME NEW t \in Tasks, DeleteTask(t) PROVE ReferenceInv'
  <2>1. NoDanglingProfile'
    BY <1>0, <1>7, WriteAttached DEF DeleteTask
  <2> QED
    BY <1>7, <2>1, <1>0, <1>f DEF DeleteTask, ReferenceInv
<1>8. ASSUME NEW s \in Tasks, NEW t \in Tasks, DuplicateTask(s, t) PROVE ReferenceInv'
  <2>1. handler'.old = None /\ handler'.new = task[s] /\ LiveTask(s)
    BY <1>8 DEF DuplicateTask
  <2>2. HandlerAttached'
    BY <1>0, <1>8, <2>1 DEF DuplicateTask, HandlerAttached, NoDanglingProfile, Attached, LiveProfile
  <2> QED
    BY <1>8, <2>2, <1>0, <1>u DEF DuplicateTask, ReferenceInv
<1>9. CASE StoreCopy
  <2>1. Attached(handler.new) /\ handler.task \in Tasks /\ handler.new \in TaskFields
    BY <1>0, <1>9 DEF StoreCopy, HandlerAttached, TypeOK
  <2>2. NoDanglingProfile'
    BY <1>0, <1>9, <2>1, WriteAttached DEF StoreCopy
  <2> QED
    BY <1>9, <2>2, <1>0, <1>n DEF StoreCopy, ReferenceInv
<1>10. ASSUME NEW p \in Profiles, NEW f \in ProfileChoices, StoreProfile(p, f) PROVE ReferenceInv'
  <2>1. f \notin Absent
    BY DEF Absent
  <2>2. NoDanglingProfile'
    BY <1>0, <1>10, <2>1 DEF StoreProfile, NoDanglingProfile, LiveTask, LiveProfile, TypeOK
  <2> QED
    BY <1>10, <2>2, <1>0, <1>f DEF StoreProfile, ReferenceInv
<1>11. ASSUME NEW p \in Profiles, DeleteProfile(p) PROVE ReferenceInv'
  <2>1. NoDanglingProfile'
    BY <1>0, <1>11 DEF DeleteProfile, NoDanglingProfile, LiveTask, LiveProfile, TypeOK
  <2> QED
    BY <1>11, <2>1, <1>0, <1>f DEF DeleteProfile, ReferenceInv
<1>12. ASSUME NEW d \in Documents, ImportConfiguration(d) PROVE ReferenceInv'
  <2>1. /\ d.tasks \in [Tasks -> TaskFields \cup {None}]
        /\ d.profiles \in [Profiles -> ProfileFields \cup {None}]
    OBVIOUS
  <2>2. ASSUME NEW t \in Tasks, task'[t] \notin Absent, task'[t].profile # None
        PROVE  profile'[task'[t].profile] \notin Absent
    <3>1. d.tasks[t] # None /\ task'[t] = d.tasks[t]
      BY <1>12, <2>2 DEF ImportConfiguration, Imported, Absent
    <3>2. d.tasks[t].profile \in Profiles
      BY <2>1, <2>2, <3>1 DEF TaskFields
    <3>3. PICK p \in Profiles : p = d.tasks[t].profile
      BY <3>2
    <3>4. d.profiles[p] # None /\ profile'[p] = d.profiles[p]
      BY <1>12, <2>2, <3>1, <3>3 DEF ImportConfiguration, ValidDocument, Imported
    <3>5. d.profiles[p] \notin Absent
      BY <2>1, <3>4 DEF Absent
    <3>6. task'[t].profile = p
      BY <3>1, <3>3
    <3> QED
      BY <3>4, <3>5, <3>6
  <2>3. NoDanglingProfile'
    BY <2>2 DEF NoDanglingProfile, LiveTask, LiveProfile, Absent
  <2> QED
    BY <1>12, <2>3, <1>0, <1>f DEF ImportConfiguration, ReferenceInv
<1>13. ASSUME NEW r \in Runs, NEW t \in Tasks, LoadTask(r, t) PROVE ReferenceInv'
  BY <1>13, <1>0, <1>u, <1>v DEF LoadTask, ReferenceInv
<1>14. ASSUME NEW r \in Runs, LoadProfile(r) PROVE ReferenceInv'
  BY <1>14, <1>0, <1>u, <1>v DEF LoadProfile, ReferenceInv
<1>14a. ASSUME NEW r \in Runs, CreateResult(r) PROVE ReferenceInv'
  BY <1>14a, <1>0, <1>u, <1>v DEF CreateResult, ReferenceInv
<1>15. ASSUME NEW r \in Runs, EndRun(r) PROVE ReferenceInv'
  BY <1>15, <1>0, <1>u, <1>v DEF EndRun, ReferenceInv
<1>16. ASSUME NEW r \in Runs, NEW found \in Routes, StartMeasuring(r, found) PROVE ReferenceInv'
  BY <1>16, <1>0, <1>u, <1>v DEF StartMeasuring, ReferenceInv
<1>17. CASE Halt
  BY <1>17, <1>0, <1>n, <1>u DEF Halt, ReferenceInv
<1>18. CASE UNCHANGED vars
  BY <1>18, <1>0, <1>u, <1>v DEF vars, ReferenceInv
<1> QED
  BY <1>1, <1>2, <1>3, <1>4, <1>5, <1>6, <1>7, <1>8, <1>9, <1>10, <1>11, <1>12,
     <1>13, <1>14, <1>15, <1>16, <1>17, <1>18, <1>14a DEF Next

\* A live task never refers to a deleted profile.
THEOREM RoutesNoDanglingProfile == Spec => []NoDanglingProfile
<1>1. Init => ReferenceInv
  <2> SUFFICES ASSUME Init PROVE ReferenceInv
    OBVIOUS
  <2>1. HandlerAttached
    BY DEF Init, HandlerAttached, NoHandler
  <2>2. NoDanglingProfile
    BY DEF Init, NoDanglingProfile, LiveTask, Absent
  <2> QED
    BY <2>1, <2>2, InitTyped DEF ReferenceInv
<1>2. ReferenceInv => NoDanglingProfile
  BY DEF ReferenceInv
<1> QED
  BY <1>1, <1>2, NextAttached, PTL DEF Spec

-----------------------------------------------------------------------------
(* Measurements *)

\* What is accepted for the effective profile of a task is the task's own path
\* and, if the profile is strict about it, the gateway of the stored profile.
LEMMA AcceptedRoute ==
  ASSUME NEW f \in TaskFields, NEW stored \in ProfileFields \cup {None}, NEW found \in Routes,
         RouteProfileForTask(f, stored) # None,
         Accepts(RouteProfileForTask(f, stored), found)
  PROVE  /\ found.path = f.path
         /\ f.profile # None =>
              /\ stored # None
              /\ f.strict /\ stored.gateway # None => found.gateway = stored.gateway
<1> USE RouteAssumption
<1>1. CASE f.profile = None
  BY <1>1 DEF RouteProfileForTask, Accepts
<1>2. CASE f.profile # None
  <2>1. stored \in ProfileFields /\ stored.path = f.path
    BY <1>2 DEF RouteProfileForTask
  <2>2. CASE f.strict
    BY <1>2, <2>1, <2>2 DEF RouteProfileForTask, Accepts
  <2>3. CASE ~f.strict
    BY <1>2, <2>1, <2>3 DEF RouteProfileForTask, Accepts, ProfileFields
  <2> QED
    BY <2>2, <2>3
<1> QED
  BY <1>1, <1>2

\* One run, as MeasuredPathValidated sees it.
RunValidated(s) == s.at = "measuring" =>
  /\ s.found.path = s.fields.path
  /\ s.fields.profile # None =>
       /\ s.profile # None
       /\ s.fields.strict /\ s.profile.gateway # None => s.found.gateway = s.profile.gateway

LEMMA NextValidated == TypeOK /\ MeasuredPathValidated /\ [Next]_vars => MeasuredPathValidated'
<1> SUFFICES ASSUME TypeOK, MeasuredPathValidated, [Next]_vars, NEW r \in Runs
             PROVE  RunValidated(run'[r])
  BY DEF MeasuredPathValidated, RunValidated
<1>0. RunValidated(run[r]) /\ run[r] \in RunStates
  BY DEF MeasuredPathValidated, RunValidated, TypeOK
<1>1. CASE run'[r] = run[r]
  BY <1>0, <1>1
<1>2. CASE run'[r].at # "measuring"
  BY <1>2 DEF RunValidated
<1>3. ASSUME NEW found \in Routes, StartMeasuring(r, found) PROVE RunValidated(run'[r])
  <2>1. run[r].fields \in TaskFields /\ run[r].profile \in ProfileFields \cup {None}
    BY <1>3 DEF StartMeasuring, TypeOK, RunStates
  <2>2. run'[r] = [run[r] EXCEPT !.at = "measuring", !.found = found]
    BY <1>3 DEF StartMeasuring, TypeOK
  <2>3. /\ run'[r].found = found
        /\ run'[r].fields = run[r].fields /\ run'[r].profile = run[r].profile
    BY <2>2, <1>0 DEF RunStates
  <2> QED
    BY <1>3, <2>1, <2>3, AcceptedRoute DEF StartMeasuring, RunValidated
<1>4. run'[r] = run[r] \/ run'[r].at # "measuring" \/ \E found \in Routes : StartMeasuring(r, found)
  <2>1. ASSUME NEW q \in Runs, NEW t \in Tasks, LoadTask(q, t)
        PROVE  run'[r] = run[r] \/ run'[r].at # "measuring"
    BY <2>1 DEF LoadTask, NoRun, TypeOK
  <2>2. ASSUME NEW q \in Runs, LoadProfile(q)
        PROVE  run'[r] = run[r] \/ run'[r].at # "measuring"
    BY <2>2 DEF LoadProfile, TypeOK, RunStates
  <2>2a. ASSUME NEW q \in Runs, CreateResult(q)
        PROVE  run'[r] = run[r] \/ run'[r].at # "measuring"
    BY <2>2a DEF CreateResult, TypeOK, RunStates
  <2>3. ASSUME NEW q \in Runs, EndRun(q)
        PROVE  run'[r] = run[r] \/ run'[r].at # "measuring"
    BY <2>3 DEF EndRun, NoRun, TypeOK
  <2>4. ASSUME NEW q \in Runs, NEW found \in Routes, StartMeasuring(q, found)
        PROVE  run'[r] = run[r] \/ \E g \in Routes : StartMeasuring(r, g)
    <3>1. CASE q = r
      BY <2>4, <3>1
    <3>2. CASE q # r
      BY <2>4, <3>2 DEF StartMeasuring, TypeOK
    <3> QED
      BY <3>1, <3>2
  <2>5. CASE Halt
    BY <2>5 DEF Halt, NoRun
  <2>6. UNCHANGED run => run'[r] = run[r]
    OBVIOUS
  <2> QED
    BY <2>1, <2>2, <2>3, <2>4, <2>5, <2>6, <2>2a
    DEF Next, vars, SubmitTask, CheckTask, Refuse, StoreTask, FinishTask, UndoTask, DeleteTask,
        DuplicateTask, StoreCopy, StoreProfile, DeleteProfile, ImportConfiguration
<1> QED
  BY <1>1, <1>2, <1>3, <1>4

\* A measurement goes over the path that was validated in its own run.
THEOREM RoutesMeasuredPathValidated == Spec => []MeasuredPathValidated
<1>1. Init => MeasuredPathValidated
  BY DEF Init, MeasuredPathValidated, NoRun
<1> QED
  BY <1>1, NextValidated, RoutesTyped, PTL DEF Spec
=============================================================================
