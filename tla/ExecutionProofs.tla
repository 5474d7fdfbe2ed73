--------------------------- MODULE ExecutionProofs ---------------------------
(***************************************************************************)
(* Proofs about the execution manager for any callers, workers, tasks,     *)
(* paths and result rows, any capacity of the channel, with and without    *)
(* faults of the store.                                                    *)
(***************************************************************************)
EXTENDS Execution, FiniteSetTheorems, TLAPS

(* The inductive invariant, by the part of the state it is about. *)

\* A call between queueMu.Lock() and its return holds the mutex, carries the
\* snapshot of its task and, once its row is inserted, that row.
CallsInOrder == \A c \in Callers :
  /\ caller[c].at \in {"inserting", "sending"} => queueMu = c
  /\ caller[c].at # "out" => caller[c].job \in Job
  /\ caller[c].at = "sending" => caller[c].result \in Results
  /\ caller[c].at # "sending" => caller[c].result = Nobody

\* Nothing of a process is left when it is down.
DownIsEmpty == phase = "down" =>
  /\ \A c \in Callers : caller[c].at = "out"
  /\ queue = <<>>
  /\ \A w \in Workers : stage[w] = "idle"

\* Rows are created in the order of their identifiers, and an active row
\* knows its task and its path.
RowsInOrder ==
  /\ \A q, r \in Results : q < r /\ status[r] # "absent" => status[q] # "absent"
  /\ \A r \in Results : Active(r) => rowOf[r] \in Job
  /\ \A r \in lost : status[r] # "absent"

\* A row that waits for a worker to start on it.
Waiting(r) == status[r] = "queued" /\ r \notin lost

\* The status of a row tells how far the worker that holds it has come.
RowMatches(w) ==
  /\ stage[w] \in {"idle", "exited"} <=> job[w] = Nobody
  /\ stage[w] \in {"settings", "acquiring", "starting"} => Waiting(job[w])
  /\ stage[w] = "validating" => status[job[w]] = "validating" /\ job[w] \notin lost
  /\ stage[w] = "running" => status[job[w]] = "running" /\ job[w] \notin lost
  /\ stage[w] = "finishing" =>
       /\ Active(job[w]) /\ job[w] \notin lost
       /\ outcome[w] \in TerminalStatuses
       /\ outcome[w] = "succeeded" => status[job[w]] = "running"
  /\ stage[w] = "leaving" =>
       status[job[w]] # "absent" /\ (Active(job[w]) => job[w] \in lost)

StatusOfHeld ==
  /\ \A c \in Callers : caller[c].at = "sending" => Waiting(caller[c].result)
  /\ \A i \in DOMAIN queue : Waiting(queue[i])
  /\ \A w \in Workers : RowMatches(w)

\* No row is in two hands.
HandsDisjoint ==
  /\ \A i, j \in DOMAIN queue : queue[i] = queue[j] => i = j
  /\ \A v, w \in Workers : job[v] = job[w] /\ job[v] # Nobody => v = w
  /\ \A c \in Callers, i \in DOMAIN queue : caller[c].result # queue[i]
  /\ \A c \in Callers, w \in Workers : caller[c].result = job[w] => job[w] = Nobody
  /\ \A i \in DOMAIN queue, w \in Workers : queue[i] # job[w]

InHand(r) ==
  \/ \E c \in Callers : caller[c].result = r
  \/ \E i \in DOMAIN queue : queue[i] = r
  \/ \E w \in Workers : job[w] = r

\* Every active row is in somebody's hands, or its last write was refused.
ActiveInHand ==
  phase # "down" => \A r \in Results : Active(r) => r \in lost \/ InHand(r)

\* The overlap check still holds when its caller inserts the row.
CheckStillHolds == \A c \in Callers :
  /\ caller[c].at = "inserting" /\ ~caller[c].skip
  /\ caller[c].job.preventOverlap
  => ~TaskHasActiveResults(caller[c].job.task)

\* Where a worker is in the limiter follows from where it is in execute, and
\* it asked for the task and the path of its row.
SlotMatches(w) ==
  /\ stage[w] \in {"idle", "exited", "settings"} => place[w] = "out"
  /\ stage[w] = "acquiring" => place[w] \in {"trying", "waiting"}
  /\ stage[w] \in {"starting", "validating", "running"} => place[w] = "admitted"
  /\ stage[w] \in {"finishing", "leaving"} => place[w] \in {"out", "admitted"}
  /\ stage[w] = "finishing" /\ place[w] = "out" => status[job[w]] = "queued"
  /\ place[w] # "out" /\ stage[w] # "leaving" =>
       /\ request[w].task = rowOf[job[w]].task
       /\ request[w].wan = rowOf[job[w]].wan

SlotOfStage == \A w \in Workers : SlotMatches(w)

\* The limiter is exact, and Manager.running has the admitted workers.
SlotInv ==
  /\ SlotOfStage
  /\ running = Limiter!Admitted
  /\ Limiter!Exclusion

\* The part all the others build on: who holds which row.
CustodyInv ==
  /\ TypeOK
  /\ CallsInOrder
  /\ DownIsEmpty
  /\ RowsInOrder
  /\ StatusOfHeld
  /\ HandsDisjoint

-----------------------------------------------------------------------------
(* Type correctness, by the parts of the state. *)

CallerRecord == [at : {"out", "loaded", "inserting", "sending"},
                 job : Job \cup {Nobody}, skip : BOOLEAN,
                 result : Results \cup {Nobody}]

DatabaseTyped ==
  /\ task \in [Tasks -> TaskRow]
  /\ settings \in Settings
  /\ status \in [Results -> Lifecycle!Statuses]
  /\ rowOf \in [Results -> Job \cup {Nobody}]
  /\ lost \subseteq Results

QueueTyped ==
  /\ queueMu \in Callers \cup {Nobody}
  /\ caller \in [Callers -> CallerRecord]
  /\ queue \in Seq(Results) /\ Len(queue) <= QueueCapacity

WorkersTyped ==
  /\ stage \in [Workers -> Stages]
  /\ job \in [Workers -> Results \cup {Nobody}]
  /\ outcome \in [Workers -> TerminalStatuses \cup {"none"}]
  /\ runCtx \in [Workers -> {"none", "live", "canceled", "deadline"}]
  /\ running \subseteq Workers

\* The type invariant is the conjunction of its parts.
LEMMA TypeParts ==
  TypeOK <=> /\ phase \in {"up", "stopping", "down"}
             /\ DatabaseTyped /\ QueueTyped /\ WorkersTyped /\ Limiter!TypeOK
  BY DEF TypeOK, DatabaseTyped, QueueTyped, WorkersTyped, CallerRecord

\* What the statuses are.
LEMMA StatusSets ==
  /\ ActiveStatuses = {"queued", "validating", "running"}
  /\ TerminalStatuses = {"succeeded", "failed", "skipped", "cancelled"}
  /\ Lifecycle!Statuses = {"absent", "deleted", "queued", "validating", "running",
                            "succeeded", "failed", "skipped", "cancelled"}
  BY DEF ActiveStatuses, TerminalStatuses, Lifecycle!ActiveStatuses,
         Lifecycle!TerminalStatuses, Lifecycle!Statuses

\* The parts of the type invariant hold initially.
LEMMA DatabaseTypedInit == Init => DatabaseTyped
  BY ExecutionAssumption, StatusSets DEF Init, DatabaseTyped

\* No call is under way and the channel is empty.
LEMMA QueueTypedInit == Init => QueueTyped
<1> SUFFICES ASSUME Init PROVE QueueTyped
  OBVIOUS
<1>1. NoCall \in CallerRecord
  BY DEF NoCall, CallerRecord
<1>2. queue \in Seq(Results) /\ Len(queue) = 0
  BY DEF Init
<1>3. QED
  BY <1>1, <1>2, ExecutionAssumption DEF Init, QueueTyped

\* Every worker is idle.
LEMMA WorkersTypedInit == Init => WorkersTyped
  BY DEF Init, WorkersTyped, Stages

\* Nobody has called the limiter.
LEMMA LimiterTypedInit == Init => Limiter!TypeOK
<1> SUFFICES ASSUME Init PROVE Limiter!TypeOK
  OBVIOUS
<1>1. request \in [Workers -> Limiter!Requests \cup {NoRequest}]
  BY DEF Init
<1>2. place \in [Workers -> Limiter!Places] /\ \A w \in Workers : place[w] = "out"
  BY DEF Init, Limiter!Places
<1>3. runningTotal \in Nat /\ ctxDone \in BOOLEAN
  BY DEF Init, ctxDone
<1>4. QED
  BY <1>1, <1>2, <1>3 DEF Init, Limiter!TypeOK

-----------------------------------------------------------------------------
\* The goroutines of the workers keep their types.
LEMMA WorkersTypedStep ==
  ASSUME TypeOK, [Next]_vars
  PROVE  WorkersTyped'
<1> USE DEF WorkersTyped, Stages, TerminalStatuses, Lifecycle!TerminalStatuses
<1>0. WorkersTyped /\ QueueTyped
  BY TypeParts
<1>1. ASSUME UNCHANGED workerVars PROVE WorkersTyped'
  BY <1>0, <1>1 DEF workerVars
<1>2. ASSUME NEW c \in Callers, NEW t \in Tasks, NEW trigger \in {"manual", "scheduled"},
             QueueLoad(c, t, trigger)
      PROVE  WorkersTyped'
  BY <1>1, <1>2 DEF QueueLoad
<1>3. ASSUME NEW c \in Callers, CallerStep(c) PROVE WorkersTyped'
  BY <1>1, <1>3 DEF CallerStep, QueueLock, QueueInsert, QueueFail, QueueSend, QueueFull
<1>4. ASSUME NEW w \in Workers, Dequeue(w) PROVE WorkersTyped'
  <2>1. Head(queue) \in Results
    BY <1>0, <1>4 DEF Dequeue, QueueTyped
  <2>2. QED
    BY <1>0, <1>4, <2>1 DEF Dequeue, Goto
<1>5. ASSUME NEW w \in Workers, WorkerExit(w) PROVE WorkersTyped'
  BY <1>0, <1>5 DEF WorkerExit, Goto
<1>6. ASSUME NEW w \in Workers, LoadSettings(w) PROVE WorkersTyped'
  BY <1>0, <1>6 DEF LoadSettings, Goto
<1>7. ASSUME NEW w \in Workers, NEW from, NEW s \in TerminalStatuses, Decide(w, from, s)
      PROVE  WorkersTyped'
  BY <1>0, <1>7 DEF Decide, Goto
<1>8. ASSUME NEW w \in Workers,
             SettingsFail(w) \/ AcquireFails(w) \/ RunFails(w)
               \/ ProviderUnavailable(w) \/ ProviderReturns(w)
      PROVE  WorkersTyped'
  BY <1>7, <1>8 DEF SettingsFail, AcquireFails, RunFails, ProviderUnavailable, ProviderReturns
<1>9. ASSUME NEW w \in Workers, Acquired(w) PROVE WorkersTyped'
  BY <1>0, <1>9 DEF Acquired, Goto
<1>10. ASSUME NEW w \in Workers, AcquireWaits(w) PROVE WorkersTyped'
  BY <1>1, <1>10 DEF AcquireWaits
<1>11. ASSUME NEW w \in Workers, StartValidating(w) \/ StartRunning(w) PROVE WorkersTyped'
  BY <1>0, <1>11 DEF StartValidating, StartRunning, Persist, Goto
<1>12. ASSUME NEW w \in Workers, Finish(w) PROVE WorkersTyped'
  BY <1>0, <1>12 DEF Finish, Goto
<1>13. ASSUME NEW w \in Workers, Leave(w) PROVE WorkersTyped'
  BY <1>0, <1>13 DEF Leave, Goto
<1>14. ASSUME NEW w \in Workers, Deadline(w) PROVE WorkersTyped'
  BY <1>0, <1>14 DEF Deadline
<1>15. ASSUME NEW r \in Results, Cancel(r) PROVE WorkersTyped'
  BY <1>0, <1>15 DEF Cancel
<1>16. ASSUME NEW t \in Tasks, NEW f \in FieldChoices, CreateTask(t, f) \/ UpdateTask(t, f)
       PROVE  WorkersTyped'
  BY <1>1, <1>16 DEF CreateTask, UpdateTask
<1>17. ASSUME NEW t \in Tasks, DeleteTask(t) PROVE WorkersTyped'
  BY <1>1, <1>17 DEF DeleteTask
<1>18. ASSUME NEW new \in SettingsChoices, UpdateSettings(new) PROVE WorkersTyped'
  BY <1>1, <1>18 DEF UpdateSettings
<1>19. ASSUME NEW imported \in SUBSET Tasks, NEW f \in [Tasks -> FieldChoices],
              NEW new \in SettingsChoices, ReplaceConfiguration(imported, f, new)
       PROVE  WorkersTyped'
  BY <1>1, <1>19 DEF ReplaceConfiguration
<1>20. ASSUME NEW rows \in SUBSET Results, DeleteResults(rows) PROVE WorkersTyped'
  BY <1>1, <1>20 DEF DeleteResults
<1>21. CASE Stop
  BY <1>0, <1>21 DEF Stop
<1>22. CASE Halt
  BY <1>22 DEF Halt
<1>23. CASE Restart \/ UNCHANGED vars
  BY <1>1, <1>23 DEF Restart, vars
<1>24. QED
  BY <1>2, <1>3, <1>4, <1>5, <1>6, <1>8, <1>9, <1>10, <1>11, <1>12, <1>13, <1>14, <1>15,
     <1>16, <1>17, <1>18, <1>19, <1>20, <1>21, <1>22, <1>23
     DEF Next, WorkerStep

-----------------------------------------------------------------------------
(* The steps of Next, with those grouped that differ in what the invariant   *)
(* does not speak about.                                                     *)

\* The returns of execute that decide on a terminal status.
Decides(w) ==
  \/ SettingsFail(w) \/ AcquireFails(w) \/ RunFails(w)
  \/ ProviderUnavailable(w) \/ ProviderReturns(w)

\* Edits of tasks and settings, cancelled and expired contexts, Stop.
Quiet ==
  /\ UNCHANGED <<status, rowOf, lost, queueVars, stage, job, outcome, running, limiterVars>>
  /\ \/ phase' = phase
     \/ phase = "up" /\ phase' = "stopping"

\* Every step is one of these.
LEMMA Steps ==
  ASSUME [Next]_vars
  PROVE  \/ \E c \in Callers :
              \/ \E t \in Tasks, trigger \in {"manual", "scheduled"} : QueueLoad(c, t, trigger)
              \/ QueueLock(c) \/ QueueInsert(c) \/ QueueFail(c) \/ QueueSend(c) \/ QueueFull(c)
         \/ \E w \in Workers :
              \/ Dequeue(w) \/ WorkerExit(w) \/ LoadSettings(w) \/ Acquired(w)
              \/ AcquireWaits(w) \/ StartValidating(w) \/ StartRunning(w)
              \/ Decides(w) \/ Finish(w) \/ Leave(w)
         \/ \E rows \in SUBSET Results : DeleteResults(rows)
         \/ Halt \/ Restart \/ Quiet
<1>1. ASSUME NEW t \in Tasks, NEW f \in FieldChoices, CreateTask(t, f) \/ UpdateTask(t, f)
      PROVE  Quiet
  BY <1>1 DEF CreateTask, UpdateTask, Quiet, workerVars
<1>2. ASSUME NEW t \in Tasks, DeleteTask(t) PROVE Quiet
  BY <1>2 DEF DeleteTask, Quiet, workerVars
<1>3. ASSUME NEW new \in SettingsChoices, UpdateSettings(new) PROVE Quiet
  BY <1>3 DEF UpdateSettings, Quiet, workerVars
<1>4. ASSUME NEW imported \in SUBSET Tasks, NEW f \in [Tasks -> FieldChoices],
             NEW new \in SettingsChoices, ReplaceConfiguration(imported, f, new)
      PROVE  Quiet
  BY <1>4 DEF ReplaceConfiguration, Quiet, workerVars
<1>5. ASSUME NEW w \in Workers, Deadline(w) PROVE Quiet
  BY <1>5 DEF Deadline, Quiet, database
<1>6. ASSUME NEW r \in Results, Cancel(r) PROVE Quiet
  BY <1>6 DEF Cancel, Quiet, database
<1>7. CASE Stop
  BY <1>7 DEF Stop, Quiet, database
<1>8. CASE UNCHANGED vars
  BY <1>8 DEF vars, Quiet, database, workerVars
<1>9. QED
  BY <1>1, <1>2, <1>3, <1>4, <1>5, <1>6, <1>7, <1>8 DEF Next, CallerStep, WorkerStep, Decides

\* A worker that decides has a row that is not finished, and only a provider
\* that ran can have succeeded.
LEMMA DecideSteps ==
  ASSUME NEW w \in Workers, Decides(w)
  PROVE  \E from \in {"settings", "acquiring", "starting", "validating", "running"},
            s \in TerminalStatuses :
           /\ Decide(w, from, s)
           /\ s = "succeeded" => from = "running"
           /\ from = "acquiring" => Limiter!GiveUp(w)
           /\ from # "acquiring" => UNCHANGED limiterVars
<1>1. CASE SettingsFail(w)
  BY <1>1, StatusSets DEF SettingsFail
<1>2. CASE AcquireFails(w)
  BY <1>2, StatusSets DEF AcquireFails
<1>3. CASE RunFails(w)
  <2>1. stage[w] \in {"starting", "validating"} /\ Decide(w, stage[w], "failed") /\ UNCHANGED limiterVars
    BY <1>3 DEF RunFails
  <2>2. QED
    BY <2>1, StatusSets
<1>4. CASE ProviderUnavailable(w)
  BY <1>4, StatusSets DEF ProviderUnavailable
<1>5. CASE ProviderReturns(w)
  BY <1>5, StatusSets DEF ProviderReturns
<1>6. QED
  BY <1>1, <1>2, <1>3, <1>4, <1>5 DEF Decides

\* What the steps of Queue make of the call of c; the other calls stay.
LEMMA Loaded ==
  ASSUME QueueTyped, DatabaseTyped, NEW c \in Callers, NEW t \in Tasks, NEW trigger,
         QueueLoad(c, t, trigger)
  PROVE  /\ caller' \in [Callers -> CallerRecord]
         /\ \A d \in Callers \ {c} : caller'[d] = caller[d]
         /\ caller'[c].at = "loaded" /\ caller'[c].job \in Job /\ caller'[c].result = Nobody
<1> DEFINE f == task[t].fields
           j == [task |-> t, wan |-> f.wan, preventOverlap |-> f.preventOverlap]
<1>1. j \in Job
  BY DEF DatabaseTyped, TaskRow, TaskFields, Job
<1>2. caller' = [caller EXCEPT ![c] = [NoCall EXCEPT !.at = "loaded", !.job = j]]
  BY DEF QueueLoad
<1> HIDE DEF j
<1>3. QED
  BY <1>1, <1>2 DEF QueueTyped, CallerRecord, NoCall

\* QueueLock sets the outcome of the overlap check and nothing else.
LEMMA Locked ==
  ASSUME QueueTyped, NEW c \in Callers, QueueLock(c)
  PROVE  /\ caller' \in [Callers -> CallerRecord]
         /\ \A d \in Callers \ {c} : caller'[d] = caller[d]
         /\ caller'[c].at = "inserting" /\ caller'[c].job = caller[c].job
         /\ caller'[c].result = caller[c].result
         /\ caller'[c].skip = (caller[c].job.preventOverlap /\ TaskHasActiveResults(caller[c].job.task))
<1> DEFINE b == caller[c].job.preventOverlap /\ TaskHasActiveResults(caller[c].job.task)
<1>1. caller' = [caller EXCEPT ![c].at = "inserting", ![c].skip = b]
  BY DEF QueueLock
<1>2. b \in BOOLEAN
  OBVIOUS
<1> HIDE DEF b
<1>3. /\ caller' \in [Callers -> CallerRecord]
      /\ \A d \in Callers \ {c} : caller'[d] = caller[d]
      /\ caller'[c].at = "inserting" /\ caller'[c].job = caller[c].job
      /\ caller'[c].result = caller[c].result
      /\ caller'[c].skip = b
  BY <1>1, <1>2 DEF QueueTyped, CallerRecord
<1>4. QED
  BY <1>3 DEF b

\* A queued row goes into the record of the call that inserted it.
LEMMA Inserted ==
  ASSUME QueueTyped, NEW c \in Callers, NEW r \in Results,
         caller' = [caller EXCEPT ![c].at = "sending", ![c].result = r]
  PROVE  /\ caller' \in [Callers -> CallerRecord]
         /\ \A d \in Callers \ {c} : caller'[d] = caller[d]
         /\ caller'[c].at = "sending" /\ caller'[c].job = caller[c].job
         /\ caller'[c].result = r
  BY DEF QueueTyped, CallerRecord

\* A call that returns leaves nothing behind.
LEMMA Returned ==
  ASSUME QueueTyped, NEW c \in Callers, Return(c)
  PROVE  /\ caller' \in [Callers -> CallerRecord]
         /\ \A d \in Callers \ {c} : caller'[d] = caller[d]
         /\ caller'[c].at = "out" /\ caller'[c].result = Nobody
         /\ queueMu' = Nobody
  BY DEF Return, NoCall, QueueTyped, CallerRecord

\* What callers leave to workers.
LEMMA CallerFrame ==
  ASSUME NEW c \in Callers,
         \/ \E t \in Tasks, trigger \in {"manual", "scheduled"} : QueueLoad(c, t, trigger)
         \/ QueueLock(c) \/ QueueInsert(c) \/ QueueFail(c) \/ QueueSend(c) \/ QueueFull(c)
  PROVE  UNCHANGED <<task, settings, phase, workerVars, limiterVars>>
  BY DEF QueueLoad, QueueLock, QueueInsert, QueueFail, QueueSend, QueueFull, database

\* What workers leave to callers.
LEMMA WorkerFrame ==
  ASSUME NEW w \in Workers,
         \/ WorkerExit(w) \/ LoadSettings(w) \/ Acquired(w) \/ AcquireWaits(w)
         \/ StartValidating(w) \/ StartRunning(w) \/ Decides(w) \/ Finish(w) \/ Leave(w)
  PROVE  UNCHANGED <<task, settings, rowOf, phase, queueVars>>
  BY DEF WorkerExit, LoadSettings, Acquired, AcquireWaits, StartValidating, StartRunning,
         Decides, SettingsFail, AcquireFails, RunFails, ProviderUnavailable, ProviderReturns,
         Finish, Leave, Decide, Persist, database

-----------------------------------------------------------------------------
\* The mutex, the calls and the channel keep their types: the channel never
\* takes more than its capacity.
LEMMA QueueTypedStep ==
  ASSUME CustodyInv, [Next]_vars
  PROVE  QueueTyped'
<1>0. QueueTyped /\ DatabaseTyped
  BY TypeParts DEF CustodyInv
<1>1. ASSUME UNCHANGED queueVars PROVE QueueTyped'
  BY <1>0, <1>1 DEF queueVars, QueueTyped
<1>2. ASSUME NEW c \in Callers, NEW t \in Tasks, NEW trigger \in {"manual", "scheduled"},
             QueueLoad(c, t, trigger)
      PROVE  QueueTyped'
  <2>1. UNCHANGED <<queueMu, queue>>
    BY <1>2 DEF QueueLoad
  <2>2. QED
    BY <1>0, <1>2, <2>1, Loaded DEF QueueTyped
<1>3. ASSUME NEW c \in Callers, QueueLock(c) PROVE QueueTyped'
  <2>1. queueMu' = c /\ queue' = queue
    BY <1>3 DEF QueueLock
  <2>2. QED
    BY <1>0, <1>3, <2>1, Locked DEF QueueTyped
<1>4. ASSUME NEW c \in Callers, QueueInsert(c) PROVE QueueTyped'
  <2>1. queue' = queue
    BY <1>4 DEF QueueInsert
  <2>2. CASE Return(c)
    BY <1>0, <2>1, <2>2, Returned DEF QueueTyped
  <2>3. ASSUME NEW r \in Results, UNCHANGED queueMu,
               caller' = [caller EXCEPT ![c].at = "sending", ![c].result = r]
        PROVE  QueueTyped'
    BY <1>0, <2>1, <2>3, Inserted DEF QueueTyped
  <2>4. QED
    BY <1>4, <2>2, <2>3, Zenon DEF QueueInsert
<1>5. ASSUME NEW c \in Callers, QueueFail(c) \/ QueueFull(c) PROVE QueueTyped'
  <2>1. queue' = queue /\ Return(c)
    BY <1>5 DEF QueueFail, QueueFull
  <2>2. QED
    BY <1>0, <2>1, Returned DEF QueueTyped
<1>6. ASSUME NEW c \in Callers, QueueSend(c) PROVE QueueTyped'
  <2>1. caller[c].result \in Results
    BY <1>6 DEF QueueSend, CustodyInv, CallsInOrder
  <2>2. queue' \in Seq(Results) /\ Len(queue') <= QueueCapacity
    BY <1>0, <1>6, <2>1, ExecutionAssumption DEF QueueSend, QueueTyped
  <2>3. Return(c)
    BY <1>6 DEF QueueSend
  <2>4. QED
    BY <1>0, <2>2, <2>3, Returned DEF QueueTyped
<1>7. ASSUME NEW w \in Workers, Dequeue(w) PROVE QueueTyped'
  <2>1. Tail(queue) \in Seq(Results) /\ Len(Tail(queue)) <= QueueCapacity
    BY <1>0, <1>7, ExecutionAssumption DEF Dequeue, QueueTyped
  <2>2. QED
    BY <1>0, <1>7, <2>1 DEF Dequeue, QueueTyped
<1>8. ASSUME NEW rows \in SUBSET Results, DeleteResults(rows) PROVE QueueTyped'
  BY <1>1, <1>8 DEF DeleteResults
<1>9. CASE Restart \/ Quiet
  BY <1>1, <1>9 DEF Restart, Quiet
<1>10. CASE Halt
  <2>1. NoCall \in CallerRecord
    BY DEF NoCall, CallerRecord
  <2>2. queue' \in Seq(Results) /\ Len(queue') = 0
    BY <1>10 DEF Halt
  <2>3. caller' \in [Callers -> CallerRecord] /\ queueMu' = Nobody
    BY <1>10, <2>1 DEF Halt
  <2>4. QED
    BY <2>2, <2>3, ExecutionAssumption DEF QueueTyped
<1>11. QED
  BY <1>1, <1>2, <1>3, <1>4, <1>5, <1>6, <1>7, <1>8, <1>9, <1>10, Steps, WorkerFrame

\* A row that a call or a worker has not finished is a row of the table.
LEMMA HeldRows ==
  ASSUME CustodyInv
  PROVE  /\ \A w \in Workers : stage[w] \notin {"idle", "exited"} => job[w] \in Results
         /\ \A w \in Workers :
              stage[w] \in {"settings", "acquiring", "starting", "validating", "running", "finishing"}
                => Active(job[w]) /\ rowOf[job[w]] \in Job /\ job[w] \notin lost
         /\ \A i \in DOMAIN queue : queue[i] \in Results
         /\ \A w \in Workers : job[w] # Nobody => job[w] \in Results /\ status[job[w]] # "absent"
<1>1. \A w \in Workers : stage[w] \notin {"idle", "exited"} => job[w] \in Results
  BY DEF CustodyInv, StatusOfHeld, RowMatches, TypeOK
<1>2. \A w \in Workers :
        stage[w] \in {"settings", "acquiring", "starting", "validating", "running", "finishing"}
          => Active(job[w]) /\ job[w] \notin lost
  BY StatusSets DEF CustodyInv, StatusOfHeld, RowMatches, Waiting, Active
<1>3. \A i \in DOMAIN queue : queue[i] \in Results
  BY DEF CustodyInv, TypeOK
<1>4. \A w \in Workers : job[w] # Nobody => job[w] \in Results /\ status[job[w]] # "absent"
  <2> SUFFICES ASSUME NEW w \in Workers, job[w] # Nobody
               PROVE  job[w] \in Results /\ status[job[w]] # "absent"
    OBVIOUS
  <2>1. stage[w] \in Stages \ {"idle", "exited"}
    BY DEF CustodyInv, StatusOfHeld, RowMatches, TypeOK
  <2>2. CASE stage[w] = "leaving"
    BY <1>1, <2>2 DEF CustodyInv, StatusOfHeld, RowMatches
  <2>3. CASE stage[w] # "leaving"
    BY <1>1, <1>2, <2>1, <2>3, StatusSets DEF Stages, Active
  <2>4. QED
    BY <2>2, <2>3
<1>5. QED
  BY <1>1, <1>2, <1>3, <1>4 DEF CustodyInv, RowsInOrder

\* A worker asks the limiter only with the task and path of a row.
LEMMA LimiterTypedStep ==
  ASSUME CustodyInv, [Next]_vars
  PROVE  Limiter!TypeOK'
<1> USE DEF Limiter!TypeOK, Limiter!Places
<1>0. Limiter!TypeOK /\ DatabaseTyped
  BY TypeParts DEF CustodyInv
<1>1. ctxDone' \in BOOLEAN
  BY DEF ctxDone
<1>2. ASSUME UNCHANGED limiterVars PROVE Limiter!TypeOK'
  BY <1>0, <1>1, <1>2 DEF limiterVars
<1>3. ASSUME NEW w \in Workers, LoadSettings(w) PROVE Limiter!TypeOK'
  <2> DEFINE j == rowOf[job[w]]
             r == [task |-> j.task, wan |-> j.wan, limit |-> settings.limit,
                   separateWAN |-> settings.separateWAN]
  <2>1. j \in Job
    BY <1>3, HeldRows DEF LoadSettings, Goto
  <2>2. r \in Limiter!Requests
    BY <1>0, <2>1 DEF Job, DatabaseTyped, Settings, Limiter!Requests
  <2>3. Limiter!Call(w, r)
    BY <1>3 DEF LoadSettings
  <2> HIDE DEF r
  <2>4. QED
    BY <1>0, <1>1, <2>2, <2>3 DEF Limiter!Call
<1>4. ASSUME NEW w \in Workers, Acquired(w) PROVE Limiter!TypeOK'
  <2>1. Limiter!Admit(w)
    BY <1>4 DEF Acquired
  <2>2. QED
    BY <1>0, <1>1, <2>1 DEF Limiter!Admit, Limiter!Requests
<1>5. ASSUME NEW w \in Workers, AcquireWaits(w) PROVE Limiter!TypeOK'
  <2>1. Limiter!Block(w) \/ Limiter!Wake(w)
    BY <1>5 DEF AcquireWaits
  <2>2. QED
    BY <1>0, <1>1, <2>1 DEF Limiter!Block, Limiter!Wake
<1>6. ASSUME NEW w \in Workers, Limiter!GiveUp(w) PROVE Limiter!TypeOK'
  BY <1>0, <1>1, <1>6 DEF Limiter!GiveUp
<1>7. ASSUME NEW w \in Workers, Decides(w) PROVE Limiter!TypeOK'
  BY <1>2, <1>6, <1>7, DecideSteps
<1>8. ASSUME NEW w \in Workers, Leave(w) PROVE Limiter!TypeOK'
  <2>1. CASE Limiter!Release(w)
    BY <1>0, <1>1, <2>1 DEF Limiter!Release
  <2>2. QED
    BY <1>2, <1>8, <2>1 DEF Leave
<1>9. ASSUME NEW w \in Workers,
             Dequeue(w) \/ WorkerExit(w) \/ StartValidating(w) \/ StartRunning(w) \/ Finish(w)
      PROVE  Limiter!TypeOK'
  BY <1>2, <1>9 DEF Dequeue, WorkerExit, StartValidating, StartRunning, Finish, Persist
<1>10. ASSUME NEW rows \in SUBSET Results, DeleteResults(rows) PROVE Limiter!TypeOK'
  BY <1>2, <1>10 DEF DeleteResults
<1>11. CASE Restart \/ Quiet
  BY <1>2, <1>11 DEF Restart, Quiet
<1>12. CASE Halt
  BY <1>1, <1>12 DEF Halt
<1>13. QED
  BY <1>2, <1>3, <1>4, <1>5, <1>7, <1>8, <1>9, <1>10, <1>11, <1>12, Steps, CallerFrame

\* The edits of the task table keep it well formed.
LEMMA TaskEdits ==
  ASSUME DatabaseTyped, NEW t \in Tasks
  PROVE  /\ \A f \in TaskFields :
              /\ [task EXCEPT ![t] = [state |-> "live", fields |-> f]] \in [Tasks -> TaskRow]
              /\ [task EXCEPT ![t].fields = f] \in [Tasks -> TaskRow]
         /\ [task EXCEPT ![t].state = "deleted", ![t].fields.enabled = FALSE]
              \in [Tasks -> TaskRow]
         /\ [task[t] EXCEPT !.state = "deleted", !.fields.enabled = FALSE] \in TaskRow
  BY DEF DatabaseTyped, TaskRow, TaskFields

\* The tables keep their types under every step.
LEMMA DatabaseTypedStep ==
  ASSUME CustodyInv, [Next]_vars
  PROVE  DatabaseTyped'
<1>0. DatabaseTyped /\ QueueTyped /\ WorkersTyped
  BY TypeParts DEF CustodyInv
<1>1. ASSUME UNCHANGED <<settings, status, rowOf, lost>>, task' \in [Tasks -> TaskRow]
      PROVE  DatabaseTyped'
  BY <1>0, <1>1 DEF DatabaseTyped
<1>2. ASSUME UNCHANGED <<task, settings, rowOf>>, NEW r \in Results,
             NEW s \in TerminalStatuses, PersistTerminal(r, s)
      PROVE  DatabaseTyped'
  BY <1>0, <1>2, StatusSets DEF DatabaseTyped, PersistTerminal
<1>3. ASSUME NEW c \in Callers,
             \/ \E t \in Tasks, trigger \in {"manual", "scheduled"} : QueueLoad(c, t, trigger)
             \/ QueueLock(c) \/ QueueFail(c) \/ QueueSend(c)
      PROVE  DatabaseTyped'
  BY <1>0, <1>3 DEF QueueLoad, QueueLock, QueueFail, QueueSend, database, DatabaseTyped
<1>4. ASSUME NEW c \in Callers, QueueInsert(c) PROVE DatabaseTyped'
  <2>1. caller[c].job \in Job
    BY <1>4 DEF QueueInsert, CustodyInv, CallsInOrder
  <2>2. PICK r \in Results :
          /\ rowOf' = [rowOf EXCEPT ![r] = caller[c].job]
          /\ status' = [status EXCEPT ![r] = "skipped"] \/ status' = [status EXCEPT ![r] = "queued"]
    BY <1>4, Zenon DEF QueueInsert
  <2>3. UNCHANGED <<task, settings, lost>>
    BY <1>4 DEF QueueInsert
  <2>4. QED
    BY <1>0, <2>1, <2>2, <2>3, StatusSets DEF DatabaseTyped
<1>5. ASSUME NEW c \in Callers, QueueFull(c) PROVE DatabaseTyped'
  <2>1. caller[c].result \in Results /\ PersistTerminal(caller[c].result, "skipped")
    BY <1>5 DEF QueueFull, CustodyInv, CallsInOrder
  <2>2. UNCHANGED <<task, settings, rowOf>>
    BY <1>5 DEF QueueFull
  <2>3. QED
    BY <1>2, <2>1, <2>2, StatusSets
<1>6. ASSUME NEW w \in Workers, WorkerStep(w) \/ ProviderReturns(w) \/ Deadline(w),
             ~StartValidating(w), ~StartRunning(w), ~Finish(w)
      PROVE  DatabaseTyped'
  <2>1. UNCHANGED database
    BY <1>6 DEF WorkerStep, Dequeue, WorkerExit, LoadSettings, SettingsFail, Acquired,
       AcquireWaits, AcquireFails, RunFails, ProviderUnavailable, Leave, ProviderReturns,
       Deadline, Decide
  <2>2. QED
    BY <1>0, <2>1 DEF database, DatabaseTyped
<1>7. ASSUME NEW w \in Workers, StartValidating(w) \/ StartRunning(w) PROVE DatabaseTyped'
  BY <1>0, <1>7, StatusSets DEF StartValidating, StartRunning, Persist, DatabaseTyped
<1>8. ASSUME NEW w \in Workers, Finish(w) PROVE DatabaseTyped'
  <2>1. job[w] \in Results /\ outcome[w] \in TerminalStatuses
    BY <1>8, HeldRows DEF Finish, Goto, CustodyInv, StatusOfHeld, RowMatches
  <2>2. PersistTerminal(job[w], outcome[w]) /\ UNCHANGED <<task, settings, rowOf>>
    BY <1>8 DEF Finish
  <2>3. QED
    BY <1>2, <2>1, <2>2
<1>9. ASSUME NEW r \in Results, Cancel(r) PROVE DatabaseTyped'
  BY <1>0, <1>9 DEF Cancel, database, DatabaseTyped
<1>10. ASSUME NEW t \in Tasks, NEW f \in FieldChoices, CreateTask(t, f) \/ UpdateTask(t, f)
       PROVE  DatabaseTyped'
  <2>1. f \in TaskFields
    BY ExecutionAssumption
  <2>2. CASE CreateTask(t, f)
    BY <1>0, <1>1, <2>1, <2>2, TaskEdits, Zenon DEF CreateTask
  <2>3. CASE UpdateTask(t, f)
    BY <1>0, <1>1, <2>1, <2>3, TaskEdits, Zenon DEF UpdateTask
  <2>4. QED
    BY <1>10, <2>2, <2>3
<1>11. ASSUME NEW t \in Tasks, DeleteTask(t) PROVE DatabaseTyped'
  BY <1>0, <1>1, <1>11, TaskEdits, Zenon DEF DeleteTask
<1>12. ASSUME NEW new \in SettingsChoices, UpdateSettings(new) PROVE DatabaseTyped'
  BY <1>0, <1>12, ExecutionAssumption DEF UpdateSettings, DatabaseTyped
<1>13. ASSUME NEW imported \in SUBSET Tasks, NEW f \in [Tasks -> FieldChoices],
              NEW new \in SettingsChoices, ReplaceConfiguration(imported, f, new)
       PROVE  DatabaseTyped'
  <2> DEFINE Row(t) ==
        IF t \in imported THEN [state |-> "live", fields |-> f[t]]
        ELSE IF Live(t) THEN [task[t] EXCEPT !.state = "deleted", !.fields.enabled = FALSE]
        ELSE task[t]
  <2>1. ASSUME NEW t \in Tasks PROVE Row(t) \in TaskRow
    <3>1. f[t] \in TaskFields /\ task[t] \in TaskRow
      BY <1>0, ExecutionAssumption DEF DatabaseTyped
    <3>2. [state |-> "live", fields |-> f[t]] \in TaskRow
      BY <3>1 DEF TaskRow
    <3>3. [task[t] EXCEPT !.state = "deleted", !.fields.enabled = FALSE] \in TaskRow
      BY <1>0, TaskEdits
    <3>4. QED
      BY <3>1, <3>2, <3>3, Zenon
  <2>2. task' = [t \in Tasks |-> Row(t)]
    BY <1>13, Zenon DEF ReplaceConfiguration
  <2> HIDE DEF Row
  <2>3. task' \in [Tasks -> TaskRow]
    BY <2>1, <2>2
  <2>4. settings' \in Settings /\ UNCHANGED <<status, rowOf, lost>>
    BY <1>13, ExecutionAssumption DEF ReplaceConfiguration
  <2>5. QED
    BY <1>0, <2>3, <2>4 DEF DatabaseTyped
<1>14. ASSUME NEW rows \in SUBSET Results, DeleteResults(rows) PROVE DatabaseTyped'
  BY <1>0, <1>14, StatusSets DEF DeleteResults, DatabaseTyped
<1>15. CASE Stop \/ Halt \/ UNCHANGED vars
  BY <1>0, <1>15 DEF Stop, Halt, vars, database, DatabaseTyped
<1>16. CASE Restart
  BY <1>0, <1>16, StatusSets DEF Restart, DatabaseTyped
<1>17. QED
  BY <1>3, <1>4, <1>5, <1>6, <1>7, <1>8, <1>9, <1>10, <1>11, <1>12, <1>13, <1>14, <1>15, <1>16
     DEF Next, CallerStep, WorkerStep

-----------------------------------------------------------------------------
\* At most one call is between its lock and its return.
LEMMA CallsInOrderStep ==
  ASSUME CustodyInv, [Next]_vars
  PROVE  CallsInOrder'
<1>0. CallsInOrder /\ QueueTyped /\ DatabaseTyped
  BY TypeParts DEF CustodyInv
<1>1. ASSUME UNCHANGED <<queueMu, caller>> PROVE CallsInOrder'
  BY <1>0, <1>1 DEF CallsInOrder
<1>2. ASSUME NEW c \in Callers, NEW t \in Tasks, NEW trigger \in {"manual", "scheduled"},
             QueueLoad(c, t, trigger)
      PROVE  CallsInOrder'
  <2>1. UNCHANGED queueMu
    BY <1>2 DEF QueueLoad
  <2>2. QED
    BY <1>0, <1>2, <2>1, Loaded DEF CallsInOrder
<1>3. ASSUME NEW c \in Callers, QueueLock(c) PROVE CallsInOrder'
  <2>1. caller[c].at = "loaded" /\ queueMu = Nobody /\ queueMu' = c
    BY <1>3 DEF QueueLock
  <2>2. QED
    BY <1>0, <1>3, <2>1, Locked, ExecutionAssumption DEF CallsInOrder
<1>4. ASSUME NEW c \in Callers, caller[c].at \in {"inserting", "sending"}, Return(c)
      PROVE  CallsInOrder'
  BY <1>0, <1>4, Returned DEF CallsInOrder
<1>5. ASSUME NEW c \in Callers, QueueInsert(c) PROVE CallsInOrder'
  <2>1. caller[c].at = "inserting"
    BY <1>5 DEF QueueInsert
  <2>2. ASSUME NEW r \in Results, UNCHANGED queueMu,
               caller' = [caller EXCEPT ![c].at = "sending", ![c].result = r]
        PROVE  CallsInOrder'
    BY <1>0, <2>1, <2>2, Inserted DEF CallsInOrder
  <2>3. QED
    BY <1>4, <1>5, <2>1, <2>2, Zenon DEF QueueInsert
<1>6. ASSUME NEW c \in Callers, QueueFail(c) \/ QueueSend(c) \/ QueueFull(c) PROVE CallsInOrder'
  BY <1>4, <1>6 DEF QueueFail, QueueSend, QueueFull
<1>7. ASSUME NEW w \in Workers, Dequeue(w) PROVE CallsInOrder'
  BY <1>1, <1>7 DEF Dequeue
<1>8. ASSUME NEW rows \in SUBSET Results, DeleteResults(rows) PROVE CallsInOrder'
  BY <1>1, <1>8 DEF DeleteResults, queueVars
<1>9. CASE Restart \/ Quiet
  BY <1>1, <1>9 DEF Restart, Quiet, queueVars
<1>10. CASE Halt
  BY <1>10 DEF Halt, NoCall, CallsInOrder
<1>11. QED
  BY <1>1, <1>2, <1>3, <1>5, <1>6, <1>7, <1>8, <1>9, <1>10, Steps, WorkerFrame DEF queueVars

\* Only a process that is up or stopping has goroutines that run.
LEMMA DownIsEmptyStep ==
  ASSUME CustodyInv, [Next]_vars
  PROVE  DownIsEmpty'
<1>0. DownIsEmpty /\ QueueTyped /\ WorkersTyped /\ phase \in {"up", "stopping", "down"}
  BY TypeParts DEF CustodyInv
<1>1. ASSUME phase # "down", phase' # "down" PROVE DownIsEmpty'
  BY <1>1 DEF DownIsEmpty
<1>2. ASSUME NEW c \in Callers,
             \/ \E t \in Tasks, trigger \in {"manual", "scheduled"} : QueueLoad(c, t, trigger)
             \/ QueueLock(c) \/ QueueInsert(c) \/ QueueFail(c) \/ QueueSend(c) \/ QueueFull(c)
      PROVE  DownIsEmpty'
  <2>1. phase # "down"
    BY <1>0, <1>2 DEF QueueLoad, QueueLock, QueueInsert, QueueFail, QueueSend, QueueFull, DownIsEmpty
  <2>2. QED
    BY <1>1, <1>2, <2>1, CallerFrame
<1>3. ASSUME NEW w \in Workers, Dequeue(w) PROVE DownIsEmpty'
  BY <1>1, <1>3 DEF Dequeue
<1>4. ASSUME NEW w \in Workers,
             \/ WorkerExit(w) \/ LoadSettings(w) \/ Acquired(w) \/ AcquireWaits(w)
             \/ StartValidating(w) \/ StartRunning(w) \/ Decides(w) \/ Finish(w) \/ Leave(w)
      PROVE  DownIsEmpty'
  <2>1. phase # "down" \/ stage[w] # "idle"
    BY <1>4, DecideSteps DEF WorkerExit, LoadSettings, Acquired, AcquireWaits, StartValidating,
       StartRunning, Finish, Leave, Decide, Persist, Goto
  <2>2. phase # "down"
    BY <1>0, <2>1 DEF DownIsEmpty
  <2>3. QED
    BY <1>1, <1>4, <2>2, WorkerFrame
<1>5. ASSUME NEW rows \in SUBSET Results, DeleteResults(rows) PROVE DownIsEmpty'
  BY <1>1, <1>5 DEF DeleteResults
<1>6. CASE Restart
  BY <1>6 DEF Restart, DownIsEmpty
<1>7. CASE Quiet
  BY <1>0, <1>7 DEF Quiet, DownIsEmpty, queueVars
<1>8. CASE Halt
  BY <1>8 DEF Halt, NoCall, DownIsEmpty
<1>9. QED
  BY <1>2, <1>3, <1>4, <1>5, <1>6, <1>7, <1>8, Steps

-----------------------------------------------------------------------------
(* The refinement of ResultLifecycle. *)

\* The steps that write no row.
LEMMA StoreFrame ==
  /\ \A c \in Callers :
       \/ \E t \in Tasks, trigger \in {"manual", "scheduled"} : QueueLoad(c, t, trigger)
       \/ QueueLock(c) \/ QueueFail(c) \/ QueueSend(c)
       => UNCHANGED database
  /\ \A w \in Workers :
       \/ Dequeue(w) \/ WorkerExit(w) \/ LoadSettings(w) \/ Acquired(w)
       \/ AcquireWaits(w) \/ Decides(w) \/ Leave(w)
       => UNCHANGED database
<1>1. ASSUME NEW c \in Callers,
             \/ \E t \in Tasks, trigger \in {"manual", "scheduled"} : QueueLoad(c, t, trigger)
             \/ QueueLock(c) \/ QueueFail(c) \/ QueueSend(c)
      PROVE  UNCHANGED database
  BY <1>1 DEF QueueLoad, QueueLock, QueueFail, QueueSend
<1>2. ASSUME NEW w \in Workers,
             \/ Dequeue(w) \/ WorkerExit(w) \/ LoadSettings(w) \/ Acquired(w)
             \/ AcquireWaits(w) \/ Decides(w) \/ Leave(w)
       PROVE  UNCHANGED database
  BY <1>2, DecideSteps DEF Dequeue, WorkerExit, LoadSettings, Acquired, AcquireWaits, Decide, Leave
<1>3. QED
  BY <1>1, <1>2

\* Every step of the manager is a step of the life cycle or leaves the
\* statuses alone.
LEMMA LifecycleStep ==
  ASSUME CustodyInv, [Next]_vars
  PROVE  [Lifecycle!Next]_status
<1> USE DEF Lifecycle!Next, Lifecycle!Move
<1>1. ASSUME NEW c \in Callers, QueueInsert(c) PROVE Lifecycle!Next
  <2>1. PICK r \in Results :
          /\ IsNext(r)
          /\ status' = [status EXCEPT ![r] = "skipped"] \/ status' = [status EXCEPT ![r] = "queued"]
    BY <1>1, Zenon DEF QueueInsert
  <2>2. Lifecycle!Create(r)
    BY <2>1 DEF Lifecycle!Create, IsNext
  <2>3. QED
    BY <2>2
<1>2. ASSUME NEW r \in Results, Active(r), NEW s \in TerminalStatuses,
             s = "succeeded" => status[r] = "running", PersistTerminal(r, s)
      PROVE  [Lifecycle!Next]_status
  <2>1. CASE UNCHANGED status
    BY <2>1
  <2>2. CASE status' = [status EXCEPT ![r] = s]
    <3>1. Lifecycle!Finish(r)
      BY <1>2, <2>2 DEF Lifecycle!Finish, Active, ActiveStatuses, TerminalStatuses
    <3>2. QED
      BY <3>1
  <2>3. QED
    BY <1>2, <2>1, <2>2 DEF PersistTerminal
<1>3. ASSUME NEW c \in Callers, QueueFull(c) PROVE [Lifecycle!Next]_status
  <2>1. caller[c].result \in Results /\ Active(caller[c].result)
    BY <1>3, StatusSets DEF QueueFull, CustodyInv, CallsInOrder, StatusOfHeld, Waiting, Active
  <2>2. PersistTerminal(caller[c].result, "skipped") /\ "skipped" \in TerminalStatuses
    BY <1>3, StatusSets DEF QueueFull
  <2>3. QED
    BY <1>2, <2>1, <2>2
<1>4. ASSUME NEW w \in Workers, StartValidating(w) \/ StartRunning(w) PROVE Lifecycle!Next
  <2>1. job[w] \in Results
    BY <1>4, HeldRows DEF StartValidating, StartRunning, Persist, Goto
  <2>2. Lifecycle!Advance(job[w])
    BY <1>4 DEF StartValidating, StartRunning, Persist, Goto, CustodyInv, StatusOfHeld, RowMatches,
       Waiting, Lifecycle!Advance
  <2>3. QED
    BY <2>1, <2>2
<1>5. ASSUME NEW w \in Workers, Finish(w) PROVE [Lifecycle!Next]_status
  <2>1. /\ job[w] \in Results /\ Active(job[w]) /\ outcome[w] \in TerminalStatuses
        /\ outcome[w] = "succeeded" => status[job[w]] = "running"
    BY <1>5, HeldRows DEF Finish, Goto, CustodyInv, StatusOfHeld, RowMatches
  <2>2. PersistTerminal(job[w], outcome[w])
    BY <1>5 DEF Finish
  <2>3. QED
    BY <1>2, <2>1, <2>2
<1>6. ASSUME NEW rows \in SUBSET Results, DeleteResults(rows) PROVE Lifecycle!Next
  <2>1. Lifecycle!Delete(rows)
    BY <1>6 DEF DeleteResults, Terminal, TerminalStatuses, Lifecycle!Delete
  <2>2. QED
    BY <2>1
<1>7. CASE Restart
  BY <1>7 DEF Restart, Active, ActiveStatuses, Lifecycle!Recover
<1>8. QED
  BY <1>1, <1>3, <1>4, <1>5, <1>6, <1>7, Steps, StoreFrame DEF Halt, Quiet, database

\* A row leaves the status absent once and for all, and only an insert makes
\* a row active.
LEMMA RowsStay ==
  ASSUME CustodyInv, [Next]_vars, NEW r \in Results
  PROVE  /\ status[r] # "absent" => status'[r] # "absent"
         /\ Active(r)' => Active(r) \/ status[r] = "absent"
<1>0. DatabaseTyped
  BY TypeParts DEF CustodyInv
<1>1. CASE UNCHANGED status
  BY <1>1 DEF Active
<1>2. ASSUME NEW q \in Results, Lifecycle!Create(q) \/ Lifecycle!Advance(q) \/ Lifecycle!Finish(q)
      PROVE  /\ status[r] # "absent" => status'[r] # "absent"
             /\ Active(r)' => Active(r) \/ status[r] = "absent"
  BY <1>0, <1>2, StatusSets DEF Lifecycle!Create, Lifecycle!Advance, Lifecycle!Finish, Lifecycle!Move,
     DatabaseTyped, Active, Lifecycle!ActiveStatuses, Lifecycle!TerminalStatuses
<1>3. CASE Lifecycle!Recover \/ \E rows \in SUBSET Results : Lifecycle!Delete(rows)
  BY <1>3, StatusSets DEF Lifecycle!Recover, Lifecycle!Delete, Active
<1>4. QED
  BY <1>1, <1>2, <1>3, LifecycleStep DEF Lifecycle!Next

-----------------------------------------------------------------------------
(* The rows and who holds them. *)

\* Rows keep being created in order and stay named while they are active.
LEMMA RowsInOrderStep ==
  ASSUME CustodyInv, [Next]_vars
  PROVE  RowsInOrder'
<1>0. RowsInOrder /\ DatabaseTyped /\ QueueTyped
  BY TypeParts DEF CustodyInv
\* The steps that create no row.
<1>1. ASSUME \A r \in Results : status[r] = "absent" => status'[r] = "absent",
             \A r \in Results : Active(r)' => rowOf'[r] = rowOf[r],
             \A r \in lost' : r \in lost \/ status[r] # "absent"
      PROVE  RowsInOrder'
  <2>1. \A r \in Results : status'[r] = "absent" <=> status[r] = "absent"
    BY <1>1, RowsStay
  <2>2. \A r \in Results : Active(r)' => Active(r)
    BY <1>1, RowsStay, StatusSets DEF Active
  <2>3. lost' \subseteq Results
    BY DatabaseTypedStep DEF DatabaseTyped
  <2>4. QED
    BY <1>0, <1>1, <2>1, <2>2, <2>3 DEF RowsInOrder
<1>2. ASSUME UNCHANGED <<status, rowOf, lost>> PROVE RowsInOrder'
  BY <1>0, <1>2 DEF RowsInOrder, Active
<1>3. ASSUME NEW c \in Callers, QueueInsert(c) PROVE RowsInOrder'
  <2>1. caller[c].job \in Job /\ lost' = lost
    BY <1>3 DEF QueueInsert, CustodyInv, CallsInOrder
  <2>2. PICK r \in Results :
          /\ IsNext(r)
          /\ rowOf' = [rowOf EXCEPT ![r] = caller[c].job]
          /\ status' = [status EXCEPT ![r] = "skipped"] \/ status' = [status EXCEPT ![r] = "queued"]
    BY <1>3, Zenon DEF QueueInsert
  <2>3. status'[r] # "absent" /\ \A q \in Results \ {r} : status'[q] = status[q]
    BY <1>0, <2>2 DEF DatabaseTyped
  <2>4. rowOf'[r] = caller[c].job /\ \A q \in Results \ {r} : rowOf'[q] = rowOf[q]
    BY <1>0, <2>2 DEF DatabaseTyped
  <2>5. \A p, q \in Results : p < q /\ status'[q] # "absent" => status'[p] # "absent"
    BY <1>0, <2>2, <2>3 DEF RowsInOrder, IsNext
  <2>6. \A q \in Results : Active(q)' => rowOf'[q] \in Job
    BY <1>0, <2>1, <2>3, <2>4 DEF RowsInOrder, Active
  <2>7. \A q \in lost' : status'[q] # "absent"
    BY <1>0, <2>1, <2>3 DEF RowsInOrder, DatabaseTyped
  <2>8. QED
    BY <2>5, <2>6, <2>7 DEF RowsInOrder
<1>4. ASSUME NEW r \in Results, Active(r), NEW s, PersistTerminal(r, s), UNCHANGED rowOf
      PROVE  RowsInOrder'
  BY <1>0, <1>1, <1>4, StatusSets DEF PersistTerminal, DatabaseTyped, Active
<1>5. ASSUME NEW c \in Callers, QueueFull(c) PROVE RowsInOrder'
  <2>1. caller[c].result \in Results /\ Active(caller[c].result)
    BY <1>5, StatusSets DEF QueueFull, CustodyInv, CallsInOrder, StatusOfHeld, Waiting, Active
  <2>2. PersistTerminal(caller[c].result, "skipped") /\ UNCHANGED rowOf
    BY <1>5 DEF QueueFull
  <2>3. QED
    BY <1>4, <2>1, <2>2
<1>6. ASSUME NEW w \in Workers, StartValidating(w) \/ StartRunning(w) PROVE RowsInOrder'
  <2>1. job[w] \in Results /\ Active(job[w])
    BY <1>6, HeldRows DEF StartValidating, StartRunning, Persist, Goto
  <2>2. /\ UNCHANGED <<rowOf, lost>>
        /\ status' = [status EXCEPT ![job[w]] = "validating"] \/ status' = [status EXCEPT ![job[w]] = "running"]
    BY <1>6 DEF StartValidating, StartRunning, Persist
  <2>3. \A r \in Results : status[r] = "absent" => status'[r] = "absent"
    BY <1>0, <2>1, <2>2, StatusSets DEF DatabaseTyped, Active
  <2>4. QED
    BY <1>1, <2>2, <2>3
<1>7. ASSUME NEW w \in Workers, Finish(w) PROVE RowsInOrder'
  <2>1. job[w] \in Results /\ Active(job[w])
    BY <1>7, HeldRows DEF Finish, Goto
  <2>2. PersistTerminal(job[w], outcome[w]) /\ UNCHANGED rowOf
    BY <1>7 DEF Finish
  <2>3. QED
    BY <1>4, <2>1, <2>2
<1>8. ASSUME NEW rows \in SUBSET Results, DeleteResults(rows) PROVE RowsInOrder'
  <2>1. \A r \in Results : status[r] = "absent" => status'[r] = "absent"
    BY <1>8, StatusSets DEF DeleteResults, Terminal
  <2>2. \A r \in Results : Active(r)' => rowOf'[r] = rowOf[r]
    BY <1>8, StatusSets DEF DeleteResults, Active
  <2>3. lost' = lost
    BY <1>8 DEF DeleteResults
  <2>4. QED
    BY <1>1, <2>1, <2>2, <2>3
<1>9. CASE Restart
  BY <1>1, <1>9, StatusSets DEF Restart, Active
<1>10. QED
  BY <1>2, <1>3, <1>5, <1>6, <1>7, <1>8, <1>9, Steps, StoreFrame DEF Halt, Quiet, database

\* A worker's row stays matched while its own state and its row stay.
LEMMA MatchKept ==
  ASSUME NEW w \in Workers, RowMatches(w), UNCHANGED <<stage[w], job[w], outcome[w]>>,
         job[w] # Nobody => /\ status'[job[w]] = status[job[w]]
                            /\ job[w] \in lost' <=> job[w] \in lost
  PROVE  RowMatches(w)'
  BY DEF RowMatches, Waiting, Active

\* What a refused or an accepted terminal write leaves of the other rows.
LEMMA TerminalWrite ==
  ASSUME DatabaseTyped, NEW r \in Results, NEW s \in TerminalStatuses, PersistTerminal(r, s)
  PROVE  /\ \A q \in Results \ {r} : status'[q] = status[q] /\ (q \in lost' <=> q \in lost)
         /\ \/ status'[r] \in TerminalStatuses
            \/ status' = status /\ r \in lost'
  BY DEF DatabaseTyped, PersistTerminal

\* Nobody writes the status of a row that another goroutine holds.
LEMMA StatusOfHeldStep ==
  ASSUME CustodyInv, [Next]_vars
  PROVE  StatusOfHeld'
<1>0. /\ CallsInOrder /\ RowsInOrder /\ StatusOfHeld /\ HandsDisjoint
      /\ DatabaseTyped /\ QueueTyped /\ WorkersTyped
  BY TypeParts DEF CustodyInv
<1>a. Nobody \notin Results
  BY ExecutionAssumption
<1>b. \A w \in Workers : RowMatches(w) /\ (job[w] # Nobody => job[w] \in Results)
  BY <1>0 DEF StatusOfHeld, WorkersTyped
\* Steps of a call that do not touch the rows.
<1>1. ASSUME NEW c \in Callers, UNCHANGED <<status, lost, queue, stage, job, outcome>>,
             \A d \in Callers \ {c} : caller'[d] = caller[d], caller'[c].at # "sending"
      PROVE  StatusOfHeld'
  <2>1. \A w \in Workers : RowMatches(w)'
    BY <1>b, <1>1, MatchKept
  <2>2. QED
    BY <1>0, <1>1, <2>1 DEF StatusOfHeld, Waiting
<1>2. ASSUME NEW c \in Callers,
             \/ \E t \in Tasks, trigger \in {"manual", "scheduled"} : QueueLoad(c, t, trigger)
             \/ QueueLock(c) \/ QueueFail(c)
      PROVE  StatusOfHeld'
  <2>1. UNCHANGED <<status, lost, queue, stage, job, outcome>>
    BY <1>2, StoreFrame, CallerFrame DEF QueueLoad, QueueLock, QueueFail, database, workerVars
  <2>2. CASE \E t \in Tasks, trigger \in {"manual", "scheduled"} : QueueLoad(c, t, trigger)
    BY <1>0, <1>1, <2>1, <2>2, Loaded
  <2>3. CASE QueueLock(c)
    BY <1>0, <1>1, <2>1, <2>3, Locked
  <2>4. CASE QueueFail(c)
    BY <1>0, <1>1, <2>1, <2>4, Returned DEF QueueFail
  <2>5. QED
    BY <1>2, <2>2, <2>3, <2>4
<1>3. ASSUME NEW c \in Callers, QueueInsert(c) PROVE StatusOfHeld'
  <2>1. PICK r \in Results :
          /\ IsNext(r)
          /\ \/ status' = [status EXCEPT ![r] = "skipped"] /\ Return(c)
             \/ /\ status' = [status EXCEPT ![r] = "queued"]
                /\ caller' = [caller EXCEPT ![c].at = "sending", ![c].result = r]
    BY <1>3, Zenon DEF QueueInsert
  <2>2. UNCHANGED <<lost, queue, stage, job, outcome>>
    BY <1>3 DEF QueueInsert, workerVars
  <2>3. status[r] = "absent" /\ r \notin lost /\ \A q \in Results \ {r} : status'[q] = status[q]
    BY <1>0, <2>1 DEF IsNext, RowsInOrder, DatabaseTyped
  <2>4. ASSUME NEW w \in Workers PROVE RowMatches(w)'
    <3>1. job[w] # r
      BY <2>3, <1>a, HeldRows
    <3>2. QED
      BY <1>b, <2>2, <2>3, <3>1, MatchKept
  <2>5. \A i \in DOMAIN queue' : Waiting(queue[i])'
    BY <1>0, <2>2, <2>3 DEF StatusOfHeld, Waiting, QueueTyped
  <2>6. \A d \in Callers \ {c} : caller'[d].at = "sending" => Waiting(caller[d].result)'
    <3>1. \A d \in Callers \ {c} : caller'[d] = caller[d]
      BY <1>0, <2>1, Returned, Inserted
    <3>2. QED
      BY <1>0, <2>2, <2>3, <3>1 DEF StatusOfHeld, Waiting, CallsInOrder
  <2>7. caller'[c].at = "sending" => Waiting(caller[c].result)'
    BY <1>0, <2>1, <2>2, <2>3, Returned, Inserted DEF Waiting, DatabaseTyped
  <2>8. QED
    BY <2>4, <2>5, <2>6, <2>7 DEF StatusOfHeld
<1>4. ASSUME NEW c \in Callers, QueueSend(c) PROVE StatusOfHeld'
  <2>1. UNCHANGED <<status, lost, stage, job, outcome>> /\ Return(c)
    BY <1>4 DEF QueueSend, database, workerVars
  <2>2. caller[c].result \in Results /\ Waiting(caller[c].result)
    BY <1>0, <1>4 DEF QueueSend, CallsInOrder, StatusOfHeld
  <2>3. \A i \in DOMAIN queue' :
          \/ queue'[i] = caller[c].result
          \/ i \in DOMAIN queue /\ queue'[i] = queue[i]
    BY <1>0, <1>4, <2>2 DEF QueueSend, QueueTyped
  <2>4. \A i \in DOMAIN queue' : Waiting(queue[i])'
    BY <1>0, <2>1, <2>2, <2>3 DEF Waiting, StatusOfHeld
  <2>5. \A w \in Workers : RowMatches(w)'
    BY <1>b, <2>1, MatchKept
  <2>6. \A d \in Callers : caller'[d].at = "sending" => Waiting(caller[d].result)'
    BY <1>0, <2>1, Returned DEF StatusOfHeld, Waiting
  <2>7. QED
    BY <2>4, <2>5, <2>6 DEF StatusOfHeld
<1>5. ASSUME NEW c \in Callers, QueueFull(c) PROVE StatusOfHeld'
  <2> DEFINE x == caller[c].result
  <2>1. x \in Results /\ caller[c].at = "sending" /\ queueMu = c
    BY <1>0, <1>5 DEF QueueFull, CallsInOrder
  <2>2. UNCHANGED <<queue, stage, job, outcome>> /\ Return(c) /\ PersistTerminal(x, "skipped")
    BY <1>5 DEF QueueFull, workerVars
  <2>3. \A q \in Results \ {x} : status'[q] = status[q] /\ (q \in lost' <=> q \in lost)
    BY <1>0, <2>1, <2>2, TerminalWrite, StatusSets
  <2>4. \A d \in Callers : caller'[d].at # "sending"
    BY <1>0, <2>1, <2>2, Returned DEF CallsInOrder
  <2>5. \A i \in DOMAIN queue' : Waiting(queue[i])'
    BY <1>0, <2>1, <2>2, <2>3 DEF StatusOfHeld, Waiting, HandsDisjoint, QueueTyped
  <2>6. ASSUME NEW w \in Workers PROVE RowMatches(w)'
    <3>1. job[w] # Nobody => job[w] \in Results \ {x}
      BY <1>0, <1>b DEF HandsDisjoint
    <3>2. QED
      BY <1>b, <2>2, <2>3, <3>1, MatchKept
  <2>7. QED
    BY <2>4, <2>5, <2>6 DEF StatusOfHeld
\* Steps of a worker that do not touch the rows.
<1>6. ASSUME NEW w \in Workers, UNCHANGED <<status, lost, caller>>,
             \A i \in DOMAIN queue' : \E k \in DOMAIN queue : queue'[i] = queue[k],
             \A v \in Workers \ {w} : UNCHANGED <<stage[v], job[v], outcome[v]>>,
             RowMatches(w)'
      PROVE  StatusOfHeld'
  <2>1. \A v \in Workers \ {w} : RowMatches(v)'
    BY <1>b, <1>6, MatchKept
  <2>2. QED
    BY <1>0, <1>6, <2>1 DEF StatusOfHeld, Waiting
<1>7. ASSUME NEW w \in Workers, Dequeue(w) PROVE StatusOfHeld'
  <2>1. /\ UNCHANGED <<status, lost, caller, outcome>> /\ queue # <<>>
        /\ stage' = [stage EXCEPT ![w] = "settings"] /\ job' = [job EXCEPT ![w] = Head(queue)]
        /\ queue' = Tail(queue)
    BY <1>7 DEF Dequeue, Goto, database
  <2>2. Head(queue) = queue[1] /\ 1 \in DOMAIN queue /\ Head(queue) \in Results
    BY <1>0, <2>1 DEF QueueTyped
  <2>3. \A i \in DOMAIN queue' : i + 1 \in DOMAIN queue /\ queue'[i] = queue[i + 1]
    BY <1>0, <2>1 DEF QueueTyped
  <2>4. Waiting(Head(queue))
    BY <1>0, <2>2 DEF StatusOfHeld
  <2>5. stage'[w] = "settings" /\ job'[w] = Head(queue)
    BY <1>0, <2>1 DEF WorkersTyped
  <2>6. RowMatches(w)'
    BY <2>1, <2>2, <2>4, <2>5, <1>a DEF RowMatches, Waiting
  <2>7. \A v \in Workers \ {w} : UNCHANGED <<stage[v], job[v], outcome[v]>>
    BY <1>0, <2>1 DEF WorkersTyped
  <2>8. QED
    BY <1>6, <2>1, <2>3, <2>6, <2>7
<1>8. ASSUME NEW w \in Workers, WorkerExit(w) \/ LoadSettings(w) \/ Acquired(w) PROVE StatusOfHeld'
  <2>1. UNCHANGED <<status, lost, caller, queue, job, outcome>>
    BY <1>8, StoreFrame, WorkerFrame DEF WorkerExit, LoadSettings, Acquired, database, queueVars
  <2>2. \/ Goto(w, "idle", "exited")
        \/ Goto(w, "settings", "acquiring")
        \/ Goto(w, "acquiring", "starting")
    BY <1>8 DEF WorkerExit, LoadSettings, Acquired
  <2>3. RowMatches(w)'
    BY <1>0, <1>b, <2>1, <2>2 DEF RowMatches, Waiting, Goto, WorkersTyped
  <2>4. \A v \in Workers \ {w} : UNCHANGED <<stage[v], job[v], outcome[v]>>
    BY <1>0, <2>1, <2>2 DEF WorkersTyped, Goto
  <2>5. QED
    BY <1>6, <2>1, <2>3, <2>4
<1>9. ASSUME NEW w \in Workers, Decides(w) PROVE StatusOfHeld'
  <2>1. PICK from \in {"settings", "acquiring", "starting", "validating", "running"},
             s \in TerminalStatuses :
          Decide(w, from, s) /\ (s = "succeeded" => from = "running")
    BY <1>9, DecideSteps
  <2>2. /\ UNCHANGED <<status, lost, caller, queue, job>>
        /\ Goto(w, from, "finishing") /\ outcome' = [outcome EXCEPT ![w] = s]
    BY <2>1 DEF Decide, database, queueVars
  <2>3. Active(job[w]) /\ job[w] \notin lost /\ job[w] \in Results
    BY <2>2, HeldRows DEF Goto
  <2>4. from = "running" => status[job[w]] = "running"
    BY <1>b, <2>2 DEF RowMatches, Goto
  <2>5. stage'[w] = "finishing" /\ outcome'[w] = s
    BY <1>0, <2>2 DEF WorkersTyped, Goto
  <2>6. RowMatches(w)'
    BY <1>a, <2>1, <2>2, <2>3, <2>4, <2>5 DEF RowMatches, Active
  <2>7. \A v \in Workers \ {w} : UNCHANGED <<stage[v], job[v], outcome[v]>>
    BY <1>0, <2>2 DEF WorkersTyped, Goto
  <2>8. QED
    BY <1>6, <2>2, <2>6, <2>7
\* Steps of a worker that write its row, which nobody else holds.
<1>10. ASSUME NEW w \in Workers, job[w] \in Results, UNCHANGED <<caller, queue, job, outcome>>,
              \A q \in Results \ {job[w]} : status'[q] = status[q] /\ (q \in lost' <=> q \in lost),
              \A v \in Workers \ {w} : stage'[v] = stage[v], RowMatches(w)'
       PROVE  StatusOfHeld'
  <2>1. ASSUME NEW v \in Workers \ {w} PROVE RowMatches(v)'
    <3>1. job[v] # Nobody => job[v] \in Results \ {job[w]}
      BY <1>0, <1>b DEF HandsDisjoint
    <3>2. QED
      BY <1>b, <1>10, <3>1, MatchKept
  <2>2. \A i \in DOMAIN queue' : Waiting(queue[i])'
    BY <1>0, <1>10 DEF StatusOfHeld, Waiting, HandsDisjoint, QueueTyped
  <2>3. ASSUME NEW c \in Callers, caller'[c].at = "sending" PROVE Waiting(caller[c].result)'
    <3>1. caller[c].result \in Results \ {job[w]} /\ Waiting(caller[c].result)
      BY <1>a, <1>0, <1>10, <2>3 DEF HandsDisjoint, CallsInOrder, StatusOfHeld
    <3>2. QED
      BY <1>10, <3>1 DEF Waiting
  <2>4. QED
    BY <1>10, <2>1, <2>2, <2>3 DEF StatusOfHeld
<1>11. ASSUME NEW w \in Workers, StartValidating(w) \/ StartRunning(w) PROVE StatusOfHeld'
  <2>1. UNCHANGED <<lost, caller, queue, job, outcome>>
    BY <1>11 DEF StartValidating, StartRunning, Persist, queueVars
  <2>2. /\ stage[w] \in {"starting", "validating"}
        /\ \/ status' = [status EXCEPT ![job[w]] = "validating"] /\ stage' = [stage EXCEPT ![w] = "validating"]
           \/ status' = [status EXCEPT ![job[w]] = "running"] /\ stage' = [stage EXCEPT ![w] = "running"]
    BY <1>11 DEF StartValidating, StartRunning, Persist, Goto
  <2>3. job[w] \in Results /\ job[w] \notin lost
    BY <2>2, HeldRows
  <2>4. RowMatches(w)'
    BY <1>0, <1>a, <2>1, <2>2, <2>3 DEF RowMatches, WorkersTyped, DatabaseTyped
  <2>5. \A v \in Workers \ {w} : stage'[v] = stage[v]
    BY <1>0, <2>2 DEF WorkersTyped
  <2>6. \A q \in Results \ {job[w]} : status'[q] = status[q]
    BY <1>0, <2>2 DEF DatabaseTyped
  <2>7. QED
    BY <1>10, <2>1, <2>3, <2>4, <2>5, <2>6
<1>12. ASSUME NEW w \in Workers, Finish(w) PROVE StatusOfHeld'
  <2>1. /\ UNCHANGED <<caller, queue, job, outcome>> /\ PersistTerminal(job[w], outcome[w])
        /\ stage[w] = "finishing" /\ stage' = [stage EXCEPT ![w] = "leaving"]
    BY <1>12 DEF Finish, Goto, queueVars
  <2>2. job[w] \in Results /\ outcome[w] \in TerminalStatuses /\ Active(job[w])
    BY <1>b, <2>1, HeldRows DEF RowMatches
  <2>3. /\ \A q \in Results \ {job[w]} : status'[q] = status[q] /\ (q \in lost' <=> q \in lost)
        /\ \/ status'[job[w]] \in TerminalStatuses
           \/ status' = status /\ job[w] \in lost'
    BY <1>0, <2>1, <2>2, TerminalWrite
  <2>4. stage'[w] = "leaving" /\ \A v \in Workers \ {w} : stage'[v] = stage[v]
    BY <1>0, <2>1 DEF WorkersTyped
  <2>5. RowMatches(w)'
    BY <1>a, <2>1, <2>2, <2>3, <2>4, StatusSets DEF RowMatches, Active
  <2>6. QED
    BY <1>10, <2>1, <2>2, <2>3, <2>4, <2>5
<1>13. ASSUME NEW w \in Workers, Leave(w) PROVE StatusOfHeld'
  <2>1. /\ UNCHANGED <<status, lost, caller, queue>>
        /\ stage' = [stage EXCEPT ![w] = "idle"] /\ job' = [job EXCEPT ![w] = Nobody]
        /\ outcome' = [outcome EXCEPT ![w] = "none"]
    BY <1>13 DEF Leave, Goto, database, queueVars
  <2>2. stage'[w] = "idle" /\ job'[w] = Nobody
    BY <1>0, <2>1 DEF WorkersTyped
  <2>3. \A v \in Workers \ {w} : UNCHANGED <<stage[v], job[v], outcome[v]>>
    BY <1>0, <2>1 DEF WorkersTyped
  <2>4. RowMatches(w)'
    BY <2>2 DEF RowMatches
  <2>5. QED
    BY <1>6, <2>1, <2>3, <2>4
<1>14. ASSUME NEW rows \in SUBSET Results, DeleteResults(rows) PROVE StatusOfHeld'
  <2>1. /\ UNCHANGED <<lost, caller, queue, stage, job, outcome>>
        /\ status' = [r \in Results |-> IF r \in rows THEN "deleted" ELSE status[r]]
        /\ \A r \in rows : status[r] \in TerminalStatuses
    BY <1>14 DEF DeleteResults, Terminal, queueVars, workerVars
  <2>2. \A r \in Results : Active(r) => status'[r] = status[r]
    BY <2>1, StatusSets DEF Active
  <2>3. \A r \in Results : Waiting(r) => Waiting(r)'
    BY <2>1, <2>2, StatusSets DEF Waiting, Active
  <2>4. ASSUME NEW w \in Workers PROVE RowMatches(w)'
    <3>1. CASE stage[w] = "leaving"
      <4>1. job[w] \in Results /\ status'[job[w]] # "absent"
        BY <3>1, HeldRows, RowsStay DEF CustodyInv, StatusOfHeld, RowMatches
      <4>2. Active(job[w])' => Active(job[w])
        BY <2>1, <4>1, StatusSets DEF Active
      <4>3. QED
        BY <1>b, <2>1, <3>1, <4>1, <4>2 DEF RowMatches
    <3>2. CASE stage[w] # "leaving"
      <4>1. job[w] # Nobody => job[w] \in Results /\ Active(job[w])
        BY <1>0, <1>b, <3>2, HeldRows DEF WorkersTyped, Stages, RowMatches
      <4>2. QED
        BY <1>b, <2>1, <2>2, <4>1, MatchKept
    <3>3. QED
      BY <3>1, <3>2
  <2>5. QED
    BY <1>0, <2>1, <2>3, <2>4, HeldRows DEF StatusOfHeld, CallsInOrder
<1>15. CASE Halt
  BY <1>15 DEF Halt, NoCall, StatusOfHeld, RowMatches
<1>16. CASE Restart
  <2>1. UNCHANGED <<caller, queue, stage, job, outcome>>
    BY <1>16 DEF Restart, queueVars, workerVars
  <2>2. /\ \A c \in Callers : caller[c].at = "out"
        /\ queue = <<>>
        /\ \A w \in Workers : stage[w] = "idle" /\ job[w] = Nobody
    BY <1>16, <1>b DEF Restart, CustodyInv, DownIsEmpty, RowMatches
  <2>3. QED
    BY <2>1, <2>2 DEF StatusOfHeld, RowMatches
<1>17. ASSUME UNCHANGED <<status, lost, caller, queue, stage, job, outcome>> PROVE StatusOfHeld'
  <2>1. \A w \in Workers : RowMatches(w)'
    BY <1>b, <1>17, MatchKept
  <2>2. QED
    BY <1>0, <1>17, <2>1 DEF StatusOfHeld, Waiting
<1>18. ASSUME NEW w \in Workers, AcquireWaits(w) PROVE StatusOfHeld'
  BY <1>17, <1>18 DEF AcquireWaits, database, queueVars, workerVars
<1>19. CASE Quiet
  BY <1>17, <1>19 DEF Quiet, queueVars
<1>20. QED
  BY <1>2, <1>3, <1>4, <1>5, <1>7, <1>8, <1>9, <1>11, <1>12, <1>13, <1>14, <1>15, <1>16,
     <1>18, <1>19, Steps

\* A row passes from hand to hand without ever being in two.
LEMMA HandsDisjointStep ==
  ASSUME CustodyInv, [Next]_vars
  PROVE  HandsDisjoint'
<1>0. /\ CallsInOrder /\ RowsInOrder /\ StatusOfHeld /\ HandsDisjoint
      /\ DatabaseTyped /\ QueueTyped /\ WorkersTyped
  BY TypeParts DEF CustodyInv
<1>a. Nobody \notin Results
  BY ExecutionAssumption
<1>1. ASSUME UNCHANGED <<queue, job>>,
             \A d \in Callers : caller'[d].result = caller[d].result \/ caller'[d].result = Nobody
      PROVE  HandsDisjoint'
  BY <1>a, <1>0, <1>1, HeldRows DEF HandsDisjoint
<1>2. ASSUME UNCHANGED queueVars, UNCHANGED job PROVE HandsDisjoint'
  BY <1>1, <1>2 DEF queueVars
<1>3. ASSUME NEW c \in Callers, NEW t \in Tasks, NEW trigger \in {"manual", "scheduled"},
             QueueLoad(c, t, trigger)
      PROVE  HandsDisjoint'
  <2>1. UNCHANGED <<queue, job>>
    BY <1>3 DEF QueueLoad, workerVars
  <2>2. QED
    BY <1>0, <1>1, <1>3, <2>1, Loaded
<1>4. ASSUME NEW c \in Callers, QueueLock(c) PROVE HandsDisjoint'
  <2>1. UNCHANGED <<queue, job>>
    BY <1>4 DEF QueueLock, workerVars
  <2>2. QED
    BY <1>0, <1>1, <1>4, <2>1, Locked
<1>5. ASSUME NEW c \in Callers, Return(c), UNCHANGED <<queue, job>> PROVE HandsDisjoint'
  BY <1>0, <1>1, <1>5, Returned
<1>6. ASSUME NEW c \in Callers, QueueFail(c) \/ QueueFull(c) PROVE HandsDisjoint'
  BY <1>5, <1>6 DEF QueueFail, QueueFull, workerVars
<1>7. ASSUME NEW c \in Callers, QueueInsert(c) PROVE HandsDisjoint'
  <2>1. UNCHANGED <<queue, job>>
    BY <1>7 DEF QueueInsert, workerVars
  <2>2. ASSUME NEW r \in Results, IsNext(r),
               caller' = [caller EXCEPT ![c].at = "sending", ![c].result = r]
        PROVE  HandsDisjoint'
    <3>1. \A i \in DOMAIN queue : queue[i] # r
      BY <1>0, <2>2 DEF StatusOfHeld, Waiting, IsNext
    <3>2. \A w \in Workers : job[w] # r
      BY <1>a, <2>2, HeldRows DEF IsNext
    <3>3. caller'[c].result = r /\ \A d \in Callers \ {c} : caller'[d] = caller[d]
      BY <1>0, <2>2, Inserted
    <3>4. QED
      BY <1>0, <2>1, <3>1, <3>2, <3>3 DEF HandsDisjoint
  <2>3. QED
    BY <1>5, <1>7, <2>1, <2>2, Zenon DEF QueueInsert
<1>8. ASSUME NEW c \in Callers, QueueSend(c) PROVE HandsDisjoint'
  <2> DEFINE x == caller[c].result
  <2>1. /\ caller[c].at = "sending" /\ queue' = Append(queue, x) /\ Return(c) /\ UNCHANGED job
    BY <1>8 DEF QueueSend, workerVars
  <2>2. x \in Results /\ queueMu = c
    BY <1>0, <2>1 DEF CallsInOrder
  <2>3. \A d \in Callers : caller'[d].result = Nobody
    BY <1>0, <2>1, <2>2, Returned DEF CallsInOrder
  <2>4. \A i \in DOMAIN queue : queue[i] # x /\ queue[i] \in Results
    BY <1>0, HeldRows DEF HandsDisjoint
  <2>5. \A w \in Workers : job[w] # x
    BY <1>0, <1>a, <2>2 DEF HandsDisjoint
  <2> HIDE DEF x
  <2>6. /\ DOMAIN queue' = 1 .. Len(queue) + 1 /\ DOMAIN queue = 1 .. Len(queue) /\ Len(queue) \in Nat
        /\ queue'[Len(queue) + 1] = x
        /\ \A i \in DOMAIN queue : queue'[i] = queue[i]
    BY <1>0, <2>1, <2>2 DEF QueueTyped
  <2>7. \A i \in DOMAIN queue' : i = Len(queue) + 1 \/ i \in DOMAIN queue
    BY <2>6
  <2>8. \A i, j \in DOMAIN queue' : queue'[i] = queue'[j] => i = j
    BY <1>0, <2>4, <2>6, <2>7 DEF HandsDisjoint
  <2>9. \A i \in DOMAIN queue', w \in Workers : queue'[i] # job[w]
    BY <1>0, <2>5, <2>6, <2>7 DEF HandsDisjoint
  <2>10. \A i \in DOMAIN queue' : queue'[i] \in Results
    BY <2>2, <2>4, <2>6, <2>7
  <2>11. QED
    BY <1>0, <1>a, <2>1, <2>3, <2>8, <2>9, <2>10 DEF HandsDisjoint
<1>9. ASSUME NEW w \in Workers, Dequeue(w) PROVE HandsDisjoint'
  <2>1. /\ UNCHANGED caller /\ queue # <<>> /\ job' = [job EXCEPT ![w] = Head(queue)]
        /\ queue' = Tail(queue)
    BY <1>9 DEF Dequeue
  <2>2. Head(queue) = queue[1] /\ 1 \in DOMAIN queue /\ Head(queue) \in Results
    BY <1>0, <2>1 DEF QueueTyped
  <2>3. \A i \in DOMAIN queue' :
          i \in Nat /\ i # 0 /\ i + 1 \in DOMAIN queue /\ queue'[i] = queue[i + 1]
    BY <1>0, <2>1 DEF QueueTyped
  <2>4. job'[w] = queue[1] /\ \A v \in Workers \ {w} : job'[v] = job[v]
    BY <1>0, <2>1, <2>2 DEF WorkersTyped
  <2>5. \A i, j \in DOMAIN queue' : queue'[i] = queue'[j] => i = j
    BY <1>0, <2>3 DEF HandsDisjoint
  <2>6. \A i \in DOMAIN queue', v \in Workers : queue'[i] # job'[v]
    <3>1. \A i \in DOMAIN queue' : queue'[i] # queue[1]
      <4>1. SUFFICES ASSUME NEW i \in DOMAIN queue', queue[i + 1] = queue[1] PROVE FALSE
        BY <2>3
      <4>2. i + 1 = 1
        BY <1>0, <2>2, <2>3, <4>1 DEF HandsDisjoint
      <4>3. QED
        BY <2>3, <4>2
    <3>2. QED
      BY <1>0, <2>3, <2>4, <3>1 DEF HandsDisjoint
  <2>7. \A u, v \in Workers : job'[u] = job'[v] /\ job'[u] # Nobody => u = v
    BY <1>0, <2>2, <2>4 DEF HandsDisjoint
  <2>8. \A c \in Callers, v \in Workers : caller'[c].result = job'[v] => job'[v] = Nobody
    BY <1>0, <2>1, <2>2, <2>4 DEF HandsDisjoint
  <2>9. \A c \in Callers, i \in DOMAIN queue' : caller'[c].result # queue'[i]
    BY <1>0, <2>1, <2>3 DEF HandsDisjoint
  <2>10. QED
    BY <2>5, <2>6, <2>7, <2>8, <2>9 DEF HandsDisjoint
<1>10. ASSUME NEW w \in Workers, Leave(w) PROVE HandsDisjoint'
  <2>1. UNCHANGED <<caller, queue>> /\ job' = [job EXCEPT ![w] = Nobody]
    BY <1>10 DEF Leave, queueVars
  <2>2. job'[w] = Nobody /\ \A v \in Workers \ {w} : job'[v] = job[v]
    BY <1>0, <2>1 DEF WorkersTyped
  <2>3. QED
    BY <1>0, <1>a, <2>1, <2>2, HeldRows DEF HandsDisjoint
<1>11. ASSUME NEW w \in Workers,
              \/ WorkerExit(w) \/ LoadSettings(w) \/ Acquired(w) \/ AcquireWaits(w)
              \/ StartValidating(w) \/ StartRunning(w) \/ Decides(w) \/ Finish(w)
       PROVE  HandsDisjoint'
  <2>1. UNCHANGED job
    BY <1>11, DecideSteps DEF WorkerExit, LoadSettings, Acquired, AcquireWaits, StartValidating,
       StartRunning, Decide, Finish, Persist, workerVars
  <2>2. QED
    BY <1>2, <1>11, <2>1, WorkerFrame
<1>12. ASSUME NEW rows \in SUBSET Results, DeleteResults(rows) PROVE HandsDisjoint'
  BY <1>2, <1>12 DEF DeleteResults, workerVars
<1>13. CASE Restart \/ Quiet
  BY <1>2, <1>13 DEF Restart, Quiet, workerVars
<1>14. CASE Halt
  BY <1>14 DEF Halt, NoCall, HandsDisjoint
<1>15. QED
  BY <1>3, <1>4, <1>6, <1>7, <1>8, <1>9, <1>10, <1>11, <1>12, <1>13, <1>14, Steps

\* The invariant of who holds which row, for every behaviour.
LEMMA Custody == Spec => []CustodyInv
<1>1. Init => CustodyInv
  <2> SUFFICES ASSUME Init PROVE CustodyInv
    OBVIOUS
  <2>1. TypeOK
    BY DatabaseTypedInit, QueueTypedInit, WorkersTypedInit, LimiterTypedInit, TypeParts DEF Init
  <2>2. CallsInOrder /\ DownIsEmpty
    BY DEF Init, NoCall, CallsInOrder, DownIsEmpty
  <2>3. RowsInOrder
    BY StatusSets DEF Init, RowsInOrder, Active
  <2>4. StatusOfHeld /\ HandsDisjoint
    BY DEF Init, NoCall, StatusOfHeld, HandsDisjoint, RowMatches
  <2>5. QED
    BY <2>1, <2>2, <2>3, <2>4 DEF CustodyInv
<1>2. CustodyInv /\ [Next]_vars => CustodyInv'
  <2> SUFFICES ASSUME CustodyInv, [Next]_vars PROVE CustodyInv'
    OBVIOUS
  <2>1. phase' \in {"up", "stopping", "down"}
    <3>1. phase \in {"up", "stopping", "down"}
      BY DEF CustodyInv, TypeOK
    <3>2. phase' = phase \/ phase' \in {"up", "stopping", "down"}
      BY Steps, CallerFrame, WorkerFrame DEF Dequeue, DeleteResults, Halt, Restart, Quiet
    <3>3. QED
      BY <3>1, <3>2
  <2>2. TypeOK'
    <3>1. TypeOK
      BY DEF CustodyInv
    <3>2. DatabaseTyped' /\ QueueTyped' /\ WorkersTyped' /\ Limiter!TypeOK'
      BY <3>1, DatabaseTypedStep, QueueTypedStep, WorkersTypedStep, LimiterTypedStep
    <3>3. QED
      BY <2>1, <3>2 DEF TypeOK, DatabaseTyped, QueueTyped, WorkersTyped, CallerRecord
  <2>3. QED
    BY <2>2, CallsInOrderStep, DownIsEmptyStep, RowsInOrderStep, StatusOfHeldStep,
       HandsDisjointStep DEF CustodyInv
<1>3. QED
  BY <1>1, <1>2, PTL DEF Spec

\* The type invariant holds of every behaviour of the manager.
THEOREM ExecutionTyped == Spec => []TypeOK
<1>1. CustodyInv => TypeOK
  BY DEF CustodyInv
<1>2. QED
  BY <1>1, Custody, PTL

\* Every row of the manager follows the life cycle of ResultLifecycle.
THEOREM ExecutionLifecycle == Spec => FollowsLifecycle
<1>1. Init => Lifecycle!Init
  BY DEF Init, Lifecycle!Init
<1>2. CustodyInv /\ [Next]_vars => [Lifecycle!Next]_status
  BY LifecycleStep
<1>3. QED
  BY <1>1, <1>2, Custody, PTL DEF Spec, FollowsLifecycle, Lifecycle!Spec

-----------------------------------------------------------------------------
(* Every active row is in exactly one pair of hands. *)

\* A row is let go only in a terminal status or after a refused write.
LEMMA ActiveInHandStep ==
  ASSUME CustodyInv, ActiveInHand, [Next]_vars
  PROVE  ActiveInHand'
<1>0. /\ CallsInOrder /\ StatusOfHeld /\ DatabaseTyped /\ QueueTyped /\ WorkersTyped
      /\ ActiveInHand
  BY TypeParts DEF CustodyInv
<1>a. Nobody \notin Results
  BY ExecutionAssumption
\* No row becomes active, and the hands of the active ones only change.
<1>1. ASSUME UNCHANGED phase, lost \subseteq lost',
             \A r \in Results : status[r] = "absent" => status'[r] = "absent",
             \A r \in Results : Active(r)' /\ Active(r) /\ r \notin lost' /\ InHand(r) => InHand(r)'
      PROVE  ActiveInHand'
  <2> SUFFICES ASSUME phase' # "down", NEW r \in Results, Active(r)', r \notin lost'
               PROVE  InHand(r)'
    BY DEF ActiveInHand
  <2>1. Active(r)
    BY <1>1, RowsStay, StatusSets DEF Active
  <2>2. QED
    BY <1>0, <1>1, <2>1 DEF ActiveInHand
<1>2. ASSUME UNCHANGED <<phase, lost, caller, queue, job>>,
             \A r \in Results : status[r] = "absent" => status'[r] = "absent"
      PROVE  ActiveInHand'
  BY <1>1, <1>2 DEF InHand
\* A call without a row takes a step.
<1>3. ASSUME NEW c \in Callers, caller[c].result = Nobody, UNCHANGED <<phase, status, lost, queue, job>>,
             \A d \in Callers \ {c} : caller'[d] = caller[d]
      PROVE  ActiveInHand'
  <2>1. \A r \in Results : InHand(r) => InHand(r)'
    BY <1>a, <1>3 DEF InHand
  <2>2. QED
    BY <1>1, <1>3, <2>1
<1>4. ASSUME NEW c \in Callers,
             \/ \E t \in Tasks, trigger \in {"manual", "scheduled"} : QueueLoad(c, t, trigger)
             \/ QueueLock(c) \/ QueueFail(c)
      PROVE  ActiveInHand'
  <2>1. UNCHANGED <<phase, status, lost, queue, job>>
    BY <1>4, StoreFrame, CallerFrame DEF QueueLoad, QueueLock, QueueFail, database, workerVars
  <2>2. caller[c].result = Nobody
    BY <1>0, <1>4 DEF QueueLoad, QueueLock, QueueFail, CallsInOrder
  <2>3. \A d \in Callers \ {c} : caller'[d] = caller[d]
    <3>1. CASE \E t \in Tasks, trigger \in {"manual", "scheduled"} : QueueLoad(c, t, trigger)
      BY <1>0, <3>1, Loaded
    <3>2. CASE QueueLock(c)
      BY <1>0, <3>2, Locked
    <3>3. CASE QueueFail(c)
      BY <1>0, <3>3, Returned DEF QueueFail
    <3>4. QED
      BY <1>4, <3>1, <3>2, <3>3
  <2>4. QED
    BY <1>3, <2>1, <2>2, <2>3
<1>5. ASSUME NEW c \in Callers, QueueInsert(c) PROVE ActiveInHand'
  <2>1. UNCHANGED <<phase, lost, queue, job>> /\ caller[c].at = "inserting"
    BY <1>5 DEF QueueInsert, workerVars
  <2>2. PICK r \in Results :
          \/ status' = [status EXCEPT ![r] = "skipped"] /\ Return(c)
          \/ /\ status' = [status EXCEPT ![r] = "queued"]
             /\ caller' = [caller EXCEPT ![c].at = "sending", ![c].result = r]
    BY <1>5, Zenon DEF QueueInsert
  <2>3. caller[c].result = Nobody /\ \A d \in Callers \ {c} : caller'[d] = caller[d]
    BY <1>0, <2>1, <2>2, Returned, Inserted DEF CallsInOrder
  <2>4. \A q \in Results : InHand(q) => InHand(q)'
    BY <1>a, <2>1, <2>3 DEF InHand
  <2>5. \A q \in Results \ {r} : Active(q)' => Active(q)
    BY <1>0, <2>2 DEF DatabaseTyped, Active
  <2>6. Active(r)' => InHand(r)'
    BY <1>0, <2>2, Inserted, StatusSets DEF DatabaseTyped, Active, InHand
  <2>7. QED
    BY <1>0, <2>1, <2>4, <2>5, <2>6 DEF ActiveInHand
<1>6. ASSUME NEW c \in Callers, QueueSend(c) PROVE ActiveInHand'
  <2>1. /\ UNCHANGED <<phase, status, lost, job>> /\ Return(c) /\ caller[c].at = "sending"
        /\ queue' = Append(queue, caller[c].result)
    BY <1>6 DEF QueueSend, database, workerVars
  <2>2. caller[c].result \in Results
    BY <1>0, <2>1 DEF CallsInOrder
  <2>3. /\ Len(queue) + 1 \in DOMAIN queue' /\ queue'[Len(queue) + 1] = caller[c].result
        /\ \A i \in DOMAIN queue : i \in DOMAIN queue' /\ queue'[i] = queue[i]
    BY <1>0, <2>1, <2>2 DEF QueueTyped
  <2>4. \A d \in Callers \ {c} : caller'[d] = caller[d]
    BY <1>0, <2>1, Returned
  <2>5. \A r \in Results : InHand(r) => InHand(r)'
    BY <2>1, <2>3, <2>4 DEF InHand
  <2>6. QED
    BY <1>1, <2>1, <2>5
<1>7. ASSUME NEW c \in Callers, QueueFull(c) PROVE ActiveInHand'
  <2>0. PICK x : x = caller[c].result
    OBVIOUS
  <2>1. /\ UNCHANGED <<phase, queue, job>> /\ Return(c) /\ caller[c].at = "sending"
        /\ PersistTerminal(x, "skipped")
    BY <1>7, <2>0 DEF QueueFull, workerVars
  <2>2. x \in Results /\ status[x] = "queued"
    BY <1>0, <2>0, <2>1 DEF CallsInOrder, StatusOfHeld, Waiting
  <2>3. /\ \A q \in Results \ {x} : status'[q] = status[q] /\ (q \in lost' <=> q \in lost)
        /\ status'[x] \in TerminalStatuses \/ x \in lost'
        /\ lost \subseteq lost'
    BY <1>0, <2>1, <2>2, TerminalWrite, StatusSets DEF PersistTerminal
  <2>4. \A d \in Callers \ {c} : caller'[d] = caller[d]
    BY <1>0, <2>1, Returned
  <2>5. \A r \in Results \ {x} : InHand(r) => InHand(r)'
    BY <2>0, <2>1, <2>4 DEF InHand
  <2>6. \A r \in Results : status[r] = "absent" => status'[r] = "absent"
    BY <2>2, <2>3
  <2>7. Active(x)' => x \in lost'
    BY <2>3, StatusSets DEF Active
  <2>8. QED
    BY <1>1, <2>1, <2>3, <2>5, <2>6, <2>7
<1>8. ASSUME NEW w \in Workers, Dequeue(w) PROVE ActiveInHand'
  <2>1. /\ UNCHANGED <<phase, status, lost, caller>> /\ queue # <<>>
        /\ job' = [job EXCEPT ![w] = Head(queue)] /\ queue' = Tail(queue) /\ stage[w] = "idle"
    BY <1>8 DEF Dequeue, Goto, database
  <2>2. job[w] = Nobody /\ job'[w] = queue[1] /\ \A v \in Workers \ {w} : job'[v] = job[v]
    BY <1>0, <2>1 DEF WorkersTyped, QueueTyped, StatusOfHeld, RowMatches
  <2>3. \A i \in DOMAIN queue : i = 1 \/ (i - 1 \in DOMAIN queue' /\ queue'[i - 1] = queue[i])
    BY <1>0, <2>1 DEF QueueTyped
  <2>4. \A r \in Results : InHand(r) => InHand(r)'
    BY <1>a, <2>1, <2>2, <2>3 DEF InHand
  <2>5. QED
    BY <1>1, <2>1, <2>4
<1>9. ASSUME NEW w \in Workers, Leave(w) PROVE ActiveInHand'
  <2>1. /\ UNCHANGED <<phase, status, lost, caller, queue>>
        /\ job' = [job EXCEPT ![w] = Nobody] /\ stage[w] = "leaving"
    BY <1>9 DEF Leave, Goto, database, queueVars
  <2>2. Active(job[w]) => job[w] \in lost
    BY <1>0, <2>1 DEF StatusOfHeld, RowMatches
  <2>3. \A v \in Workers \ {w} : job'[v] = job[v]
    BY <1>0, <2>1 DEF WorkersTyped
  <2>4. \A r \in Results : Active(r) /\ r \notin lost /\ InHand(r) => InHand(r)'
    BY <2>1, <2>2, <2>3 DEF InHand
  <2>5. QED
    BY <1>1, <2>1, <2>4
<1>10. ASSUME NEW w \in Workers,
              \/ WorkerExit(w) \/ LoadSettings(w) \/ Acquired(w) \/ AcquireWaits(w) \/ Decides(w)
       PROVE  ActiveInHand'
  <2>1. UNCHANGED <<status, lost, phase, caller, queue>>
    BY <1>10, StoreFrame, WorkerFrame DEF database, queueVars
  <2>2. UNCHANGED job
    BY <1>10, DecideSteps DEF WorkerExit, LoadSettings, Acquired, AcquireWaits, Decide, workerVars
  <2>3. QED
    BY <1>2, <2>1, <2>2
<1>11. ASSUME NEW w \in Workers, StartValidating(w) \/ StartRunning(w) \/ Finish(w)
       PROVE  ActiveInHand'
  <2>1. UNCHANGED <<phase, caller, queue, job>>
    BY <1>11, WorkerFrame DEF StartValidating, StartRunning, Persist, Finish, queueVars
  <2>2. lost \subseteq lost'
    BY <1>11 DEF StartValidating, StartRunning, Persist, Finish, PersistTerminal
  <2>3. job[w] \in Results /\ Active(job[w])
    BY <1>11, HeldRows DEF StartValidating, StartRunning, Persist, Finish, Goto
  <2>4. \A r \in Results \ {job[w]} : status'[r] = status[r]
    BY <1>0, <1>11 DEF StartValidating, StartRunning, Persist, Finish, PersistTerminal, DatabaseTyped
  <2>5. \A r \in Results : status[r] = "absent" => status'[r] = "absent"
    BY <2>3, <2>4, StatusSets DEF Active
  <2>6. QED
    BY <1>1, <2>1, <2>2, <2>5 DEF InHand
<1>12. ASSUME NEW rows \in SUBSET Results, DeleteResults(rows) PROVE ActiveInHand'
  <2>1. UNCHANGED <<phase, lost, caller, queue, job>>
    BY <1>12 DEF DeleteResults, queueVars, workerVars
  <2>2. \A r \in Results : status[r] = "absent" => status'[r] = "absent"
    BY <1>12, StatusSets DEF DeleteResults, Terminal
  <2>3. QED
    BY <1>2, <2>1, <2>2
<1>13. CASE Halt
  BY <1>13 DEF Halt, ActiveInHand
<1>14. CASE Restart
  BY <1>14, StatusSets DEF Restart, ActiveInHand, Active
<1>15. CASE Quiet
  BY <1>0, <1>15 DEF Quiet, queueVars, ActiveInHand, InHand, Active
<1>16. QED
  BY <1>4, <1>5, <1>6, <1>7, <1>8, <1>9, <1>10, <1>11, <1>12, <1>13, <1>14, <1>15, Steps

\* No active row is forgotten, in any behaviour.
LEMMA Hands == Spec => []ActiveInHand
<1>1. Init => ActiveInHand
  BY StatusSets DEF Init, ActiveInHand, Active
<1>2. QED
  BY <1>1, ActiveInHandStep, Custody, PTL DEF Spec

\* No row has two owners.
LEMMA OwnersOnce ==
  ASSUME CustodyInv, NEW r \in Results, NEW x \in Owners(r), NEW y \in Owners(r)
  PROVE  x = y
<1>0. Nobody \notin Results
  BY ExecutionAssumption
<1>1. /\ \A c, d \in Callers : caller[c].result = r /\ caller[d].result = r => c = d
      /\ \A i, k \in DOMAIN queue : queue[i] = r /\ queue[k] = r => i = k
      /\ \A v, w \in Workers : job[v] = r /\ job[w] = r => v = w
  BY <1>0 DEF CustodyInv, CallsInOrder, HandsDisjoint
<1>2. /\ \A c \in Callers, i \in DOMAIN queue : ~(caller[c].result = r /\ queue[i] = r)
      /\ \A c \in Callers, w \in Workers : ~(caller[c].result = r /\ job[w] = r)
      /\ \A i \in DOMAIN queue, w \in Workers : ~(queue[i] = r /\ job[w] = r)
  BY <1>0 DEF CustodyInv, HandsDisjoint
<1>3. QED
  BY <1>1, <1>2 DEF Owners

\* While a process is up, an active row has exactly one owner, unless the
\* store refused its last write: for any number of callers and workers, any
\* capacity of the channel and any interleaving with stops and crashes.
THEOREM ExecutionOwnership == Spec => []ActiveOwnedOnce
<1>1. CustodyInv /\ ActiveInHand => ActiveOwnedOnce
  <2> SUFFICES ASSUME CustodyInv, ActiveInHand, phase # "down", NEW r \in Results, Active(r),
                      ~(r \in lost /\ Owners(r) = {})
               PROVE  Cardinality(Owners(r)) = 1
    BY DEF ActiveOwnedOnce
  <2>1. Owners(r) # {}
    <3>1. CASE InHand(r)
      BY <3>1 DEF InHand, Owners
    <3>2. QED
      BY <3>1 DEF ActiveInHand
  <2>2. PICK x : x \in Owners(r)
    BY <2>1
  <2>3. Owners(r) = {x}
    BY <2>2, OwnersOnce
  <2>4. QED
    BY <2>3, FS_Singleton
<1>2. QED
  BY <1>1, Custody, Hands, PTL

-----------------------------------------------------------------------------
(* Active rows, their tasks and the overlap check. *)

\* Only CreateResult makes a row active, and an active row keeps its task and
\* its path.
LEMMA ActiveRows ==
  ASSUME CustodyInv, [Next]_vars, \A c \in Callers : ~QueueInsert(c), NEW r \in Results, Active(r)'
  PROVE  Active(r) /\ rowOf'[r] = rowOf[r]
<1>0. DatabaseTyped
  BY TypeParts DEF CustodyInv
<1> DEFINE Goal == Active(r) /\ rowOf'[r] = rowOf[r]
<1>1. ASSUME UNCHANGED rowOf, status[r] = "absent" => status'[r] = "absent" PROVE Goal
  BY <1>1, RowsStay, StatusSets DEF Active
<1>2. ASSUME UNCHANGED database PROVE Goal
  BY <1>1, <1>2 DEF database
<1>3. ASSUME NEW q \in Results, Active(q), NEW s, status' = [status EXCEPT ![q] = s] \/ UNCHANGED status,
             UNCHANGED rowOf
      PROVE  Goal
  BY <1>0, <1>1, <1>3, StatusSets DEF Active, DatabaseTyped
<1>4. ASSUME NEW c \in Callers, QueueFull(c) PROVE Goal
  <2>1. caller[c].result \in Results /\ Active(caller[c].result)
    BY <1>4, StatusSets DEF QueueFull, CustodyInv, CallsInOrder, StatusOfHeld, Waiting, Active
  <2>2. QED
    BY <1>3, <1>4, <2>1 DEF QueueFull, PersistTerminal
<1>5. ASSUME NEW w \in Workers, StartValidating(w) \/ StartRunning(w) \/ Finish(w) PROVE Goal
  <2>1. job[w] \in Results /\ Active(job[w])
    BY <1>5, HeldRows DEF StartValidating, StartRunning, Persist, Finish, Goto
  <2>2. QED
    BY <1>3, <1>5, <2>1 DEF StartValidating, StartRunning, Persist, Finish, PersistTerminal
<1>6. ASSUME NEW rows \in SUBSET Results, DeleteResults(rows) PROVE Goal
  BY <1>6, StatusSets DEF DeleteResults, Active
<1>7. CASE Restart
  BY <1>7, StatusSets DEF Restart, Active
<1>8. CASE Quiet
  BY <1>1, <1>8 DEF Quiet
<1>9. QED
  BY <1>2, <1>4, <1>5, <1>6, <1>7, <1>8, Steps, StoreFrame DEF Halt

\* What QueueInsert adds to the tables.
LEMMA InsertedRow ==
  ASSUME CustodyInv, NEW c \in Callers, QueueInsert(c)
  PROVE  \E r \in Results :
           /\ IsNext(r)
           /\ rowOf'[r] = caller[c].job /\ caller[c].job \in Job
           /\ Active(r)' => ~caller[c].skip
           /\ \A q \in Results \ {r} : status'[q] = status[q] /\ rowOf'[q] = rowOf[q]
<1>0. DatabaseTyped
  BY TypeParts DEF CustodyInv
<1>1. PICK r \in Results :
        /\ IsNext(r)
        /\ rowOf' = [rowOf EXCEPT ![r] = caller[c].job]
        /\ \/ caller[c].skip /\ status' = [status EXCEPT ![r] = "skipped"]
           \/ ~caller[c].skip /\ status' = [status EXCEPT ![r] = "queued"]
  BY Zenon DEF QueueInsert
<1>2. rowOf'[r] = caller[c].job /\ \A q \in Results \ {r} : status'[q] = status[q] /\ rowOf'[q] = rowOf[q]
  BY <1>0, <1>1 DEF DatabaseTyped
<1>3. status'[r] = "skipped" \/ ~caller[c].skip
  BY <1>0, <1>1 DEF DatabaseTyped
<1>4. Active(r)' => ~caller[c].skip
  BY <1>3, StatusSets DEF Active
<1>5. caller[c].job \in Job
  BY DEF QueueInsert, CustodyInv, CallsInOrder
<1>6. QED
  BY <1>1, <1>2, <1>4, <1>5

\* A task with active results stays live under every edit.
LEMMA LiveKept ==
  ASSUME CustodyInv, [Next]_vars, NEW t \in Tasks, Live(t), TaskHasActiveResults(t)
  PROVE  Live(t)'
<1>0. DatabaseTyped /\ task[t] \in TaskRow
  BY TypeParts DEF CustodyInv, DatabaseTyped
<1>1. CASE UNCHANGED task
  BY <1>1 DEF Live
<1>2. ASSUME NEW u \in Tasks, NEW f \in FieldChoices, CreateTask(u, f) \/ UpdateTask(u, f)
      PROVE  Live(t)'
  BY <1>0, <1>2 DEF CreateTask, UpdateTask, Live, DatabaseTyped, TaskRow
<1>3. ASSUME NEW u \in Tasks, DeleteTask(u) PROVE Live(t)'
  <2>1. u # t
    BY <1>3 DEF DeleteTask
  <2>2. task'[t] = task[t]
    BY <1>0, <1>3, <2>1 DEF DeleteTask, DatabaseTyped
  <2>3. QED
    BY <2>2 DEF Live
<1>4. ASSUME NEW imported \in SUBSET Tasks, NEW f \in [Tasks -> FieldChoices],
             NEW new \in SettingsChoices, ReplaceConfiguration(imported, f, new)
      PROVE  FALSE
  BY <1>4 DEF ReplaceConfiguration, TaskHasActiveResults
<1>5. ASSUME NEW new \in SettingsChoices, UpdateSettings(new) PROVE UNCHANGED task
  BY <1>5 DEF UpdateSettings
<1>6. ASSUME NEW r \in Results, Cancel(r) PROVE UNCHANGED task
  BY <1>6 DEF Cancel, database
<1>7. ASSUME NEW w \in Workers, Dequeue(w) \/ Deadline(w) PROVE UNCHANGED task
  BY <1>7 DEF Dequeue, Deadline, database
<1>8. ASSUME NEW rows \in SUBSET Results, DeleteResults(rows) PROVE UNCHANGED task
  BY <1>8 DEF DeleteResults
<1>9. CASE Stop \/ Halt \/ Restart \/ UNCHANGED vars
  BY <1>1, <1>9 DEF Stop, Halt, Restart, vars, database
<1>10. QED
  BY <1>1, <1>2, <1>3, <1>4, <1>5, <1>6, <1>7, <1>8, <1>9, CallerFrame, WorkerFrame
     DEF Next, CallerStep, WorkerStep, Decides

\* A run never outlives its task: between a caller's GetTask and its insert
\* the task may be edited, deleted or replaced by an import.
THEOREM ExecutionTasksLive == Spec => []ActiveTaskLive
<1>1. Init => ActiveTaskLive
  BY StatusSets DEF Init, ActiveTaskLive, Active
<1>2. CustodyInv /\ ActiveTaskLive /\ [Next]_vars => ActiveTaskLive'
  <2> SUFFICES ASSUME CustodyInv, ActiveTaskLive, [Next]_vars, NEW r \in Results, Active(r)'
               PROVE  Live(rowOf[r].task)'
    BY DEF ActiveTaskLive
  <2>1. ASSUME Active(r), rowOf'[r] = rowOf[r] PROVE Live(rowOf[r].task)'
    <3>1. PICK t \in Tasks : t = rowOf[r].task
      BY <2>1 DEF CustodyInv, RowsInOrder, Job
    <3>2. Live(t) /\ TaskHasActiveResults(t)
      BY <2>1, <3>1 DEF ActiveTaskLive, TaskHasActiveResults
    <3>3. Live(t)'
      BY <3>2, LiveKept
    <3>4. QED
      BY <2>1, <3>1, <3>3 DEF Live
  <2>2. ASSUME NEW c \in Callers, QueueInsert(c) PROVE Live(rowOf[r].task)'
    <3>1. PICK q \in Results :
            /\ rowOf'[q] = caller[c].job
            /\ \A p \in Results \ {q} : status'[p] = status[p] /\ rowOf'[p] = rowOf[p]
      BY <2>2, InsertedRow
    <3>2. CASE r = q
      <4>1. Live(caller[c].job.task) /\ task' = task
        BY <2>2 DEF QueueInsert
      <4>2. QED
        BY <3>1, <3>2, <4>1 DEF Live
    <3>3. CASE r # q
      BY <2>1, <3>1, <3>3 DEF Active
    <3>4. QED
      BY <3>2, <3>3
  <2>3. QED
    BY <2>1, <2>2, ActiveRows
<1>3. QED
  BY <1>1, <1>2, Custody, PTL DEF Spec

\* Nothing becomes active between an overlap check and its insert.
LEMMA CheckStillHoldsStep ==
  ASSUME CustodyInv, CheckStillHolds, [Next]_vars
  PROVE  CheckStillHolds'
<1>0. CallsInOrder /\ DatabaseTyped /\ QueueTyped
  BY TypeParts DEF CustodyInv
<1> SUFFICES ASSUME NEW d \in Callers, caller'[d].at = "inserting", ~caller'[d].skip,
                    caller'[d].job.preventOverlap
             PROVE  ~TaskHasActiveResults(caller[d].job.task)'
  BY DEF CheckStillHolds
<1> DEFINE Goal == ~TaskHasActiveResults(caller[d].job.task)'
\* The call of d was there before, and no row has become active since.
<1>1. ASSUME caller'[d] = caller[d], \A c \in Callers : ~QueueInsert(c) PROVE Goal
  <2>1. ~TaskHasActiveResults(caller[d].job.task)
    BY <1>1 DEF CheckStillHolds
  <2>2. QED
    BY <1>1, <2>1, ActiveRows DEF TaskHasActiveResults
<1>2. ASSUME NEW c \in Callers, QueueInsert(c) PROVE FALSE
  <2>1. caller[c].at = "inserting" /\ queueMu = c
    BY <1>0, <1>2 DEF QueueInsert, CallsInOrder
  <2>2. caller'[c].at # "inserting" /\ \A e \in Callers \ {c} : caller'[e] = caller[e]
    BY <1>0, <1>2, Returned, Inserted DEF QueueInsert
  <2>3. QED
    BY <1>0, <2>1, <2>2 DEF CallsInOrder
<1>3. ASSUME NEW c \in Callers, QueueLock(c) PROVE Goal
  <2>1. CASE c = d
    <3>1. ~(caller[c].job.preventOverlap /\ TaskHasActiveResults(caller[c].job.task))
      BY <1>0, <1>3, <2>1, Locked
    <3>2. caller'[d].job = caller[d].job
      BY <1>0, <1>3, <2>1, Locked
    <3>3. ~TaskHasActiveResults(caller[d].job.task)
      BY <2>1, <3>1, <3>2
    <3>4. UNCHANGED <<status, rowOf>>
      BY <1>3 DEF QueueLock, database
    <3>5. QED
      BY <3>2, <3>3, <3>4 DEF TaskHasActiveResults, Active
  <2>2. CASE c # d
    BY <1>0, <1>1, <1>2, <1>3, <2>2, Locked
  <2>3. QED
    BY <2>1, <2>2
<1>4. ASSUME NEW c \in Callers,
             \/ \E t \in Tasks, trigger \in {"manual", "scheduled"} : QueueLoad(c, t, trigger)
             \/ QueueFail(c) \/ QueueSend(c) \/ QueueFull(c)
      PROVE  Goal
  <2>1. caller'[c].at # "inserting" /\ \A e \in Callers \ {c} : caller'[e] = caller[e]
    <3>1. CASE \E t \in Tasks, trigger \in {"manual", "scheduled"} : QueueLoad(c, t, trigger)
      BY <1>0, <3>1, Loaded
    <3>2. CASE QueueFail(c) \/ QueueSend(c) \/ QueueFull(c)
      BY <1>0, <3>2, Returned DEF QueueFail, QueueSend, QueueFull
    <3>3. QED
      BY <1>4, <3>1, <3>2
  <2>2. QED
    BY <1>1, <1>2, <2>1
<1>5. CASE Halt
  BY <1>5 DEF Halt, NoCall
<1>6. ASSUME UNCHANGED caller PROVE Goal
  BY <1>1, <1>2, <1>6
<1>7. ASSUME NEW w \in Workers, Dequeue(w) PROVE Goal
  BY <1>6, <1>7 DEF Dequeue
<1>8. ASSUME NEW rows \in SUBSET Results, DeleteResults(rows) PROVE Goal
  BY <1>6, <1>8 DEF DeleteResults, queueVars
<1>9. CASE Restart \/ Quiet
  BY <1>6, <1>9 DEF Restart, Quiet, queueVars
<1>10. QED
  BY <1>2, <1>3, <1>4, <1>5, <1>6, <1>7, <1>8, <1>9, Steps, WorkerFrame DEF queueVars

\* A run of a task that prevents overlap never starts beside an older one,
\* whoever queues it and whatever happens between the check and the insert.
THEOREM ExecutionNoOverlap == Spec => []NoOverlap
<1>1. Init => CheckStillHolds /\ NoOverlap
  BY StatusSets DEF Init, NoCall, CheckStillHolds, NoOverlap, Active
<1>2. CustodyInv /\ CheckStillHolds /\ NoOverlap /\ [Next]_vars => NoOverlap'
  <2> SUFFICES ASSUME CustodyInv, CheckStillHolds, NoOverlap, [Next]_vars,
                      NEW q \in Results, NEW r \in Results, Active(q)', Active(r)', q < r,
                      rowOf'[q].task = rowOf'[r].task
               PROVE  ~rowOf'[r].preventOverlap
    BY DEF NoOverlap
  <2>1. CASE \A c \in Callers : ~QueueInsert(c)
    BY <2>1, ActiveRows DEF NoOverlap
  <2>2. ASSUME NEW c \in Callers, QueueInsert(c) PROVE ~rowOf'[r].preventOverlap
    <3>1. PICK n \in Results :
           /\ IsNext(n)
           /\ rowOf'[n] = caller[c].job
           /\ Active(n)' => ~caller[c].skip
           /\ \A p \in Results \ {n} : status'[p] = status[p] /\ rowOf'[p] = rowOf[p]
      BY <2>2, InsertedRow
    <3>2. CASE r = n
      <4>1. Active(q) /\ rowOf[q].task = caller[c].job.task
        BY <3>1, <3>2, ExecutionAssumption DEF Active
      <4>2. TaskHasActiveResults(caller[c].job.task)
        BY <4>1 DEF TaskHasActiveResults
      <4>3. caller[c].at = "inserting" /\ ~caller[c].skip
        BY <2>2, <3>1, <3>2 DEF QueueInsert
      <4>4. QED
        BY <3>1, <3>2, <4>2, <4>3 DEF CheckStillHolds
    <3>3. CASE q = n
      <4>1. status[r] # "absent" /\ status[q] = "absent"
        BY <3>1, <3>3, ExecutionAssumption, StatusSets DEF Active, IsNext
      <4>2. QED
        BY <4>1 DEF CustodyInv, RowsInOrder
    <3>4. CASE q # n /\ r # n
      BY <3>1, <3>4 DEF Active, NoOverlap
    <3>5. QED
      BY <3>2, <3>3, <3>4
  <2>3. QED
    BY <2>1, <2>2
<1>3. QED
  BY <1>1, <1>2, CheckStillHoldsStep, Custody, PTL DEF Spec

-----------------------------------------------------------------------------
(* The limiter under the manager. *)

\* The lemmas about the limiter on its own apply to the manager's limiter.
LimiterProofs == INSTANCE RunLimiterProofs WITH
  Workers <- Workers, Tasks <- Tasks, Wans <- Wans, GlobalLimits <- GlobalLimits,
  MaxConcurrency <- MaxConcurrency, NoRequest <- NoRequest,
  tasks <- tasks, wans <- wans, runningTotal <- runningTotal, place <- place,
  request <- request, woken <- woken, ctxDone <- ctxDone

\* The instances of the limiter count alike.
LEMMA SameCounts ==
  /\ \A S : Limiter!Cardinality(S) = Cardinality(S)
  /\ \A S : LimiterProofs!Cardinality(S) = Cardinality(S)
  /\ LimiterProofs!IsFiniteSet(Workers)
<1>1. \A S : Limiter!Cardinality(S) = Cardinality(S)
  BY DEF Limiter!Cardinality, Cardinality
<1>2. \A S : LimiterProofs!Cardinality(S) = Cardinality(S)
  BY DEF LimiterProofs!Cardinality, Cardinality
<1>3. LimiterProofs!IsFiniteSet(Workers)
  BY ExecutionAssumption DEF LimiterProofs!IsFiniteSet, IsFiniteSet
<1>4. QED
  BY <1>1, <1>2, <1>3

\* A step of the manager within a process is a step of the limiter.
LEMMA LimiterStep ==
  ASSUME CustodyInv, [Next]_vars, ~Halt, ~Restart
  PROVE  [LimiterProofs!Next]_(LimiterProofs!vars)
<1>0. Limiter!TypeOK /\ DatabaseTyped
  BY TypeParts DEF CustodyInv
<1>1. ASSUME UNCHANGED limiterVars, UNCHANGED phase PROVE UNCHANGED LimiterProofs!vars
  BY <1>1 DEF limiterVars, ctxDone, LimiterProofs!vars, LimiterProofs!limiterVars
<1>2. ASSUME NEW w \in Workers, UNCHANGED phase,
             \/ Limiter!Admit(w) \/ Limiter!Block(w) \/ Limiter!Wake(w)
             \/ Limiter!GiveUp(w) \/ Limiter!Release(w)
      PROVE  LimiterProofs!Next
  <2>1. LimiterProofs!Step(w)
    BY <1>2 DEF LimiterProofs!Step, LimiterProofs!Admit, LimiterProofs!Block, LimiterProofs!Wake,
       LimiterProofs!GiveUp, LimiterProofs!Release, LimiterProofs!Allowed, LimiterProofs!Clamp,
       Limiter!Admit, Limiter!Block, Limiter!Wake, Limiter!GiveUp, Limiter!Release,
       Limiter!Allowed, Limiter!Clamp
  <2>2. UNCHANGED ctxDone
    BY <1>2 DEF ctxDone
  <2>3. QED
    BY <2>1, <2>2 DEF LimiterProofs!Next
<1>3. ASSUME NEW w \in Workers, LoadSettings(w) PROVE LimiterProofs!Next
  <2> DEFINE j == rowOf[job[w]]
             r == [task |-> j.task, wan |-> j.wan, limit |-> settings.limit,
                   separateWAN |-> settings.separateWAN]
  <2>1. j \in Job
    BY <1>3, HeldRows DEF LoadSettings, Goto
  <2>2. r \in LimiterProofs!Requests
    BY <1>0, <2>1 DEF Job, DatabaseTyped, Settings, LimiterProofs!Requests
  <2>3. LimiterProofs!Call(w, r)
    BY <1>3 DEF LoadSettings, Limiter!Call, LimiterProofs!Call
  <2>4. UNCHANGED ctxDone
    BY <1>3 DEF LoadSettings, ctxDone
  <2> HIDE DEF r
  <2>5. QED
    BY <2>2, <2>3, <2>4 DEF LimiterProofs!Next
<1>4. ASSUME NEW w \in Workers, Acquired(w) \/ AcquireWaits(w) PROVE LimiterProofs!Next
  BY <1>2, <1>4 DEF Acquired, AcquireWaits
<1>5. ASSUME NEW w \in Workers, Decides(w) PROVE [LimiterProofs!Next]_(LimiterProofs!vars)
  <2>1. UNCHANGED phase
    BY <1>5, WorkerFrame
  <2>2. Limiter!GiveUp(w) \/ UNCHANGED limiterVars
    BY <1>5, DecideSteps
  <2>3. QED
    BY <1>1, <1>2, <2>1, <2>2
<1>6. ASSUME NEW w \in Workers, Leave(w) PROVE [LimiterProofs!Next]_(LimiterProofs!vars)
  BY <1>1, <1>2, <1>6 DEF Leave
<1>7. ASSUME NEW w \in Workers,
             Dequeue(w) \/ WorkerExit(w) \/ StartValidating(w) \/ StartRunning(w) \/ Finish(w)
      PROVE  UNCHANGED LimiterProofs!vars
  BY <1>1, <1>7 DEF Dequeue, WorkerExit, StartValidating, StartRunning, Finish, Persist
<1>8. ASSUME NEW rows \in SUBSET Results, DeleteResults(rows) PROVE UNCHANGED LimiterProofs!vars
  BY <1>1, <1>8 DEF DeleteResults
<1>9. CASE Quiet
  <2>1. CASE phase' = phase
    BY <1>1, <1>9, <2>1 DEF Quiet
  <2>2. CASE phase = "up" /\ phase' = "stopping"
    <3>1. LimiterProofs!CancelContext
      BY <1>9, <2>2 DEF Quiet, ctxDone, limiterVars, LimiterProofs!CancelContext, LimiterProofs!limiterVars
    <3>2. QED
      BY <3>1 DEF LimiterProofs!Next
  <2>3. QED
    BY <1>9, <2>1, <2>2 DEF Quiet
<1>10. QED
  BY <1>1, <1>3, <1>4, <1>5, <1>6, <1>7, <1>8, <1>9, Steps, CallerFrame

\* The limiter stays exact under every step of the manager.
LEMMA ExclusionKept ==
  ASSUME CustodyInv, Limiter!Exclusion, [Next]_vars
  PROVE  Limiter!Exclusion'
<1>1. CASE Halt
  BY <1>1, FS_EmptySet, SameCounts DEF Halt, Limiter!Exclusion, Limiter!Admitted
<1>2. CASE Restart
  BY <1>2 DEF Restart, limiterVars, Limiter!Exclusion, Limiter!Admitted
<1>3. CASE ~Halt /\ ~Restart
  <2>1. LimiterProofs!TypeOK
    <3>1. Limiter!TypeOK
      BY TypeParts DEF CustodyInv
    <3>2. QED
      BY <3>1 DEF Limiter!TypeOK, Limiter!Requests, Limiter!Places,
         LimiterProofs!TypeOK, LimiterProofs!Requests, LimiterProofs!Places
  <2>2. LimiterProofs!Exclusion
    BY SameCounts DEF LimiterProofs!Exclusion, LimiterProofs!Admitted, Limiter!Exclusion, Limiter!Admitted
  <2>3. LimiterProofs!Exclusion'
    BY <1>3, <2>1, <2>2, LimiterStep, LimiterProofs!ExclusionStep, SameCounts, ExecutionAssumption
  <2>4. QED
    BY <2>3, SameCounts DEF LimiterProofs!Exclusion, LimiterProofs!Admitted, Limiter!Exclusion, Limiter!Admitted
<1>4. QED
  BY <1>1, <1>2, <1>3

\* A worker's slot stays matched while its own state and its row stay.
LEMMA SlotKept ==
  ASSUME NEW w \in Workers, SlotMatches(w), UNCHANGED <<stage[w], job[w], place[w], request[w]>>,
         stage[w] \notin {"idle", "exited", "leaving"} =>
           status'[job[w]] = status[job[w]] /\ rowOf'[job[w]] = rowOf[job[w]]
  PROVE  SlotMatches(w)'
  BY DEF SlotMatches

\* A worker never changes the slot of another one.
LEMMA SlotOfStageStep ==
  ASSUME CustodyInv, SlotOfStage, [Next]_vars
  PROVE  SlotOfStage'
<1>0. /\ CallsInOrder /\ StatusOfHeld /\ HandsDisjoint
      /\ DatabaseTyped /\ QueueTyped /\ WorkersTyped /\ Limiter!TypeOK
  BY TypeParts DEF CustodyInv
<1>a. Nobody \notin Results
  BY ExecutionAssumption
<1>b. \A w \in Workers : SlotMatches(w)
  BY DEF SlotOfStage
<1>c. ASSUME NEW w \in Workers, stage[w] \notin {"idle", "exited", "leaving"}
      PROVE  job[w] \in Results /\ Active(job[w])
  BY <1>0, <1>c, HeldRows DEF WorkersTyped, Stages
<1>1. ASSUME UNCHANGED <<stage, job, limiterVars>>,
             \A r \in Results : Active(r) /\ (\E w \in Workers : job[w] = r) =>
               status'[r] = status[r] /\ rowOf'[r] = rowOf[r]
      PROVE  SlotOfStage'
  <2> SUFFICES ASSUME NEW w \in Workers PROVE SlotMatches(w)'
    BY DEF SlotOfStage
  <2>1. stage[w] \notin {"idle", "exited", "leaving"} =>
          status'[job[w]] = status[job[w]] /\ rowOf'[job[w]] = rowOf[job[w]]
    BY <1>1, <1>c
  <2>2. UNCHANGED <<stage[w], job[w], place[w], request[w]>>
    BY <1>1 DEF limiterVars
  <2>3. QED
    BY <1>b, <2>1, <2>2, SlotKept
<1>2. ASSUME NEW c \in Callers,
             \/ \E t \in Tasks, trigger \in {"manual", "scheduled"} : QueueLoad(c, t, trigger)
             \/ QueueLock(c) \/ QueueFail(c) \/ QueueSend(c)
      PROVE  SlotOfStage'
  <2>1. UNCHANGED <<stage, job, limiterVars>>
    BY <1>2, CallerFrame DEF workerVars
  <2>2. UNCHANGED <<status, rowOf>>
    BY <1>2, StoreFrame DEF database
  <2>3. QED
    BY <1>1, <2>1, <2>2
<1>3. ASSUME NEW c \in Callers, QueueInsert(c) PROVE SlotOfStage'
  <2>1. UNCHANGED <<stage, job, limiterVars>>
    BY <1>3, CallerFrame DEF workerVars
  <2>2. PICK r \in Results :
          /\ IsNext(r)
          /\ \A q \in Results \ {r} : status'[q] = status[q] /\ rowOf'[q] = rowOf[q]
    BY <1>3, InsertedRow
  <2>3. ~Active(r)
    BY <2>2, StatusSets DEF IsNext, Active
  <2>4. QED
    BY <1>1, <2>1, <2>2, <2>3
<1>4. ASSUME NEW c \in Callers, QueueFull(c) PROVE SlotOfStage'
  <2>1. UNCHANGED <<stage, job, limiterVars>>
    BY <1>4, CallerFrame DEF workerVars
  <2>2. PICK x \in Results : x = caller[c].result
    BY <1>0, <1>4 DEF QueueFull, CallsInOrder
  <2>3. UNCHANGED rowOf /\ \A q \in Results \ {x} : status'[q] = status[q]
    BY <1>0, <1>4, <2>2 DEF QueueFull, PersistTerminal, DatabaseTyped
  <2>4. \A w \in Workers : job[w] # x
    BY <1>0, <1>a, <2>2 DEF HandsDisjoint
  <2>5. QED
    BY <1>1, <2>1, <2>3, <2>4
\* A worker takes a step that at most writes its own row.
<1>5. ASSUME NEW w \in Workers, UNCHANGED rowOf,
             \A q \in Results : job[w] # q => status'[q] = status[q],
             \A v \in Workers \ {w} : UNCHANGED <<stage[v], job[v], place[v], request[v]>>,
             SlotMatches(w)'
      PROVE  SlotOfStage'
  <2> SUFFICES ASSUME NEW v \in Workers, v # w PROVE SlotMatches(v)'
    BY <1>5 DEF SlotOfStage
  <2>1. stage[v] \notin {"idle", "exited", "leaving"} => status'[job[v]] = status[job[v]]
    <3>1. SUFFICES ASSUME stage[v] \notin {"idle", "exited", "leaving"}
                   PROVE  status'[job[v]] = status[job[v]]
      OBVIOUS
    <3>2. job[v] \in Results
      BY <1>c, <3>1
    <3>3. job[w] # job[v]
      BY <1>0, <1>a, <3>2 DEF HandsDisjoint
    <3>4. QED
      BY <1>5, <3>2, <3>3
  <2>2. QED
    BY <1>b, <1>5, <2>1, SlotKept
<1>6. ASSUME NEW w \in Workers, Dequeue(w) \/ WorkerExit(w) PROVE SlotOfStage'
  <2>1. /\ UNCHANGED <<status, rowOf, limiterVars>> /\ stage[w] = "idle"
        /\ stage' = [stage EXCEPT ![w] = "settings"] \/ stage' = [stage EXCEPT ![w] = "exited"]
        /\ \A v \in Workers \ {w} : job'[v] = job[v]
    BY <1>0, <1>6 DEF Dequeue, WorkerExit, Goto, database, WorkersTyped
  <2>2. place[w] = "out" /\ UNCHANGED <<place, request>>
    BY <1>b, <2>1 DEF SlotMatches, limiterVars
  <2>3. stage'[w] \in {"settings", "exited"} /\ \A v \in Workers \ {w} : stage'[v] = stage[v]
    BY <1>0, <2>1 DEF WorkersTyped
  <2>4. SlotMatches(w)'
    BY <2>2, <2>3 DEF SlotMatches
  <2>5. QED
    BY <1>5, <2>1, <2>2, <2>3, <2>4
<1>7. ASSUME NEW w \in Workers, LoadSettings(w) PROVE SlotOfStage'
  <2> DEFINE j == rowOf[job[w]]
             r == [task |-> j.task, wan |-> j.wan, limit |-> settings.limit,
                   separateWAN |-> settings.separateWAN]
  <2>1. /\ UNCHANGED <<status, rowOf, job>> /\ Goto(w, "settings", "acquiring")
        /\ Limiter!Call(w, r)
    BY <1>7 DEF LoadSettings, database
  <2>2. /\ place'[w] = "trying" /\ request'[w] = r /\ stage'[w] = "acquiring"
        /\ \A v \in Workers \ {w} : UNCHANGED <<stage[v], place[v], request[v]>>
    BY <1>0, <2>1 DEF Limiter!Call, Limiter!TypeOK, WorkersTyped, Goto
  <2>3. SlotMatches(w)'
    BY <2>1, <2>2 DEF SlotMatches
  <2>4. QED
    BY <1>5, <2>1, <2>2, <2>3
<1>8. ASSUME NEW w \in Workers, Acquired(w) PROVE SlotOfStage'
  <2>1. /\ UNCHANGED <<status, rowOf, job>> /\ Goto(w, "acquiring", "starting")
        /\ Limiter!Admit(w)
    BY <1>8 DEF Acquired, database
  <2>2. /\ place[w] = "trying" /\ place'[w] = "admitted" /\ request' = request
        /\ stage[w] = "acquiring" /\ stage'[w] = "starting"
        /\ \A v \in Workers \ {w} : UNCHANGED <<stage[v], place[v]>>
    BY <1>0, <2>1 DEF Limiter!Admit, Limiter!TypeOK, WorkersTyped, Goto
  <2>3. SlotMatches(w)'
    BY <1>b, <2>1, <2>2 DEF SlotMatches
  <2>4. QED
    BY <1>5, <2>1, <2>2, <2>3
<1>9. ASSUME NEW w \in Workers, AcquireWaits(w) PROVE SlotOfStage'
  <2>1. /\ UNCHANGED <<status, rowOf, job, stage>> /\ stage[w] = "acquiring"
        /\ Limiter!Block(w) \/ Limiter!Wake(w)
    BY <1>9 DEF AcquireWaits, database, workerVars
  <2>2. /\ place[w] # "out" /\ place'[w] \in {"trying", "waiting"} /\ request' = request
        /\ \A v \in Workers \ {w} : UNCHANGED place[v]
    BY <1>0, <2>1 DEF Limiter!Block, Limiter!Wake, Limiter!TypeOK
  <2>3. SlotMatches(w)'
    BY <1>b, <2>1, <2>2 DEF SlotMatches
  <2>4. QED
    BY <1>5, <2>1, <2>2, <2>3
<1>10. ASSUME NEW w \in Workers, Decides(w) PROVE SlotOfStage'
  <2>1. PICK from \in {"settings", "acquiring", "starting", "validating", "running"},
             s \in TerminalStatuses :
          /\ Decide(w, from, s)
          /\ from = "acquiring" => Limiter!GiveUp(w)
          /\ from # "acquiring" => UNCHANGED limiterVars
    BY <1>10, DecideSteps
  <2>2. UNCHANGED <<status, rowOf, job>> /\ Goto(w, from, "finishing")
    BY <2>1 DEF Decide, database
  <2>3. /\ stage[w] = from /\ stage'[w] = "finishing"
        /\ \A v \in Workers \ {w} : UNCHANGED stage[v]
    BY <1>0, <2>2 DEF Goto, WorkersTyped
  <2>4. CASE from = "acquiring"
    <3>1. place'[w] = "out" /\ \A v \in Workers \ {w} : UNCHANGED <<place[v], request[v]>>
      BY <1>0, <2>1, <2>4 DEF Limiter!GiveUp, Limiter!TypeOK
    <3>2. status[job[w]] = "queued"
      BY <1>0, <2>3, <2>4 DEF StatusOfHeld, RowMatches, Waiting
    <3>3. SlotMatches(w)'
      BY <2>2, <2>3, <3>1, <3>2 DEF SlotMatches
    <3>4. QED
      BY <1>5, <2>2, <2>3, <3>1, <3>3
  <2>5. CASE from # "acquiring"
    <3>1. UNCHANGED <<place, request>>
      BY <2>1, <2>5 DEF limiterVars
    <3>2. from = "settings" => status[job[w]] = "queued"
      BY <1>0, <2>3 DEF StatusOfHeld, RowMatches, Waiting
    <3>3. SlotMatches(w)'
      BY <1>b, <2>1, <2>2, <2>3, <2>5, <3>1, <3>2 DEF SlotMatches
    <3>4. QED
      BY <1>5, <2>2, <2>3, <3>1, <3>3
  <2>6. QED
    BY <2>4, <2>5
<1>11. ASSUME NEW w \in Workers, StartValidating(w) \/ StartRunning(w) \/ Finish(w) PROVE SlotOfStage'
  <2>1. /\ UNCHANGED <<rowOf, job, limiterVars>>
        /\ \/ Goto(w, "starting", "validating") \/ Goto(w, "validating", "running")
           \/ Goto(w, "finishing", "leaving")
    BY <1>11 DEF StartValidating, StartRunning, Persist, Finish
  <2>2. \A q \in Results : job[w] # q => status'[q] = status[q]
    BY <1>0, <1>11 DEF StartValidating, StartRunning, Persist, Finish, PersistTerminal, DatabaseTyped
  <2>3. /\ stage'[w] \in {"validating", "running", "leaving"}
        /\ stage'[w] = "leaving" <=> stage[w] = "finishing"
        /\ stage[w] \in {"starting", "validating", "finishing"}
        /\ \A v \in Workers \ {w} : UNCHANGED stage[v]
    BY <1>0, <2>1 DEF Goto, WorkersTyped
  <2>4. UNCHANGED <<place, request>>
    BY <2>1 DEF limiterVars
  <2>5. SlotMatches(w)'
    BY <1>b, <2>1, <2>3, <2>4 DEF SlotMatches
  <2>6. QED
    BY <1>5, <2>1, <2>2, <2>3, <2>4, <2>5
<1>12. ASSUME NEW w \in Workers, Leave(w) PROVE SlotOfStage'
  <2>1. /\ UNCHANGED <<status, rowOf>> /\ Goto(w, "leaving", "idle")
        /\ job' = [job EXCEPT ![w] = Nobody]
    BY <1>12 DEF Leave, database
  <2>2. stage'[w] = "idle" /\ \A v \in Workers \ {w} : UNCHANGED <<stage[v], job[v]>>
    BY <1>0, <2>1 DEF Goto, WorkersTyped
  <2>3. place'[w] = "out" /\ \A v \in Workers \ {w} : UNCHANGED <<place[v], request[v]>>
    BY <1>0, <1>12 DEF Leave, Limiter!Release, Limiter!TypeOK, limiterVars
  <2>4. SlotMatches(w)'
    BY <2>2, <2>3 DEF SlotMatches
  <2>5. QED
    BY <1>5, <2>1, <2>2, <2>3, <2>4
<1>13. ASSUME NEW rows \in SUBSET Results, DeleteResults(rows) PROVE SlotOfStage'
  <2>1. UNCHANGED <<stage, job, limiterVars>>
    BY <1>13 DEF DeleteResults, workerVars
  <2>2. \A r \in Results : Active(r) => status'[r] = status[r] /\ rowOf'[r] = rowOf[r]
    BY <1>13, StatusSets DEF DeleteResults, Terminal, Active
  <2>3. QED
    BY <1>1, <2>1, <2>2
<1>14. CASE Halt
  BY <1>14 DEF Halt, SlotOfStage, SlotMatches
<1>15. CASE Restart
  <2>1. UNCHANGED <<stage, job, limiterVars, rowOf>> /\ phase = "down"
    BY <1>15 DEF Restart, workerVars
  <2>2. \A w \in Workers : job[w] = Nobody
    BY <1>0, <2>1 DEF CustodyInv, DownIsEmpty, StatusOfHeld, RowMatches
  <2>3. QED
    BY <1>1, <1>a, <2>1, <2>2
<1>16. CASE Quiet
  BY <1>1, <1>16 DEF Quiet
<1>17. QED
  BY <1>2, <1>3, <1>4, <1>6, <1>7, <1>8, <1>9, <1>10, <1>11, <1>12, <1>13, <1>14, <1>15,
     <1>16, Steps

\* Manager.running changes together with the limiter.
LEMMA RunningStep ==
  ASSUME CustodyInv, SlotOfStage, running = Limiter!Admitted, [Next]_vars
  PROVE  (running = Limiter!Admitted)'
<1> USE DEF Limiter!Admitted
<1>0. WorkersTyped /\ Limiter!TypeOK
  BY TypeParts DEF CustodyInv
<1>1. ASSUME UNCHANGED running,
             \A v \in Workers : place'[v] = "admitted" <=> place[v] = "admitted"
      PROVE  (running = Limiter!Admitted)'
  BY <1>1
<1>2. ASSUME UNCHANGED <<running, limiterVars>> PROVE (running = Limiter!Admitted)'
  BY <1>1, <1>2 DEF limiterVars
<1>3. ASSUME NEW w \in Workers, Acquired(w) PROVE (running = Limiter!Admitted)'
  <2>1. running' = running \cup {w} /\ Limiter!Admit(w)
    BY <1>3 DEF Acquired
  <2>2. QED
    BY <1>0, <2>1 DEF Limiter!Admit, Limiter!TypeOK
<1>4. ASSUME NEW w \in Workers, Leave(w) PROVE (running = Limiter!Admitted)'
  <2>1. running' = running \ {w}
    BY <1>4 DEF Leave
  <2>2. place'[w] = "out" /\ \A v \in Workers \ {w} : place'[v] = place[v]
    BY <1>0, <1>4 DEF Leave, Limiter!Release, Limiter!TypeOK, limiterVars
  <2>3. QED
    BY <2>1, <2>2
<1>5. ASSUME NEW w \in Workers, LoadSettings(w) PROVE (running = Limiter!Admitted)'
  BY <1>0, <1>1, <1>5 DEF LoadSettings, Limiter!Call, Limiter!TypeOK
<1>6. ASSUME NEW w \in Workers, AcquireWaits(w) PROVE (running = Limiter!Admitted)'
  BY <1>0, <1>1, <1>6 DEF AcquireWaits, Limiter!Block, Limiter!Wake, Limiter!TypeOK, workerVars
<1>7. ASSUME NEW w \in Workers, Decides(w) PROVE (running = Limiter!Admitted)'
  <2>1. UNCHANGED running /\ (Limiter!GiveUp(w) \/ UNCHANGED limiterVars)
    BY <1>7, DecideSteps DEF Decide
  <2>2. QED
    BY <1>0, <1>1, <1>2, <2>1 DEF Limiter!GiveUp, Limiter!TypeOK
<1>8. ASSUME NEW w \in Workers,
             Dequeue(w) \/ WorkerExit(w) \/ StartValidating(w) \/ StartRunning(w) \/ Finish(w)
      PROVE  (running = Limiter!Admitted)'
  BY <1>2, <1>8 DEF Dequeue, WorkerExit, StartValidating, StartRunning, Finish, Persist
<1>9. ASSUME NEW rows \in SUBSET Results, DeleteResults(rows) PROVE (running = Limiter!Admitted)'
  BY <1>2, <1>9 DEF DeleteResults, workerVars
<1>10. CASE Halt
  BY <1>10 DEF Halt
<1>11. CASE Restart \/ Quiet
  BY <1>2, <1>11 DEF Restart, Quiet, workerVars
<1>12. QED
  BY <1>2, <1>3, <1>4, <1>5, <1>6, <1>7, <1>8, <1>9, <1>10, <1>11, Steps, CallerFrame DEF workerVars

\* The invariant of the slots, for every behaviour.
LEMMA Slots == Spec => []SlotInv
<1>1. Init => SlotInv
  <2> SUFFICES ASSUME Init PROVE SlotInv
    OBVIOUS
  <2>1. SlotOfStage
    BY DEF Init, SlotOfStage, SlotMatches
  <2>2. running = Limiter!Admitted
    BY DEF Init, Limiter!Admitted
  <2>3. Limiter!Exclusion
    BY FS_EmptySet, SameCounts DEF Init, Limiter!Exclusion, Limiter!Admitted
  <2>4. QED
    BY <2>1, <2>2, <2>3 DEF SlotInv
<1>2. CustodyInv /\ SlotInv /\ [Next]_vars => SlotInv'
  <2> SUFFICES ASSUME CustodyInv, SlotInv, [Next]_vars PROVE SlotInv'
    OBVIOUS
  <2>1. SlotOfStage /\ running = Limiter!Admitted /\ Limiter!Exclusion
    BY DEF SlotInv
  <2>2. QED
    BY <2>1, SlotOfStageStep, RunningStep, ExclusionKept DEF SlotInv
<1>3. QED
  BY <1>1, <1>2, Custody, PTL DEF Spec

\* No return of execute leaks a slot of the limiter or an entry of
\* Manager.running, and no slot is given to two workers.
THEOREM ExecutionSlots == Spec => []SlotsMatchWorkers
<1>1. SlotInv => SlotsMatchWorkers
  BY DEF SlotInv, SlotOfStage, SlotMatches, SlotsMatchWorkers
<1>2. QED
  BY <1>1, Slots, PTL

\* The worker behind a row that is measured holds the limiter for it.
LEMMA MeasuringAdmitted ==
  ASSUME CustodyInv, ActiveInHand, SlotInv, phase # "down", NEW r \in Results, Measuring(r)
  PROVE  \E w \in Limiter!Admitted :
           /\ job[w] = r
           /\ request[w].task = rowOf[r].task /\ request[w].wan = rowOf[r].wan
<1>1. status[r] \in {"validating", "running"} /\ r \notin lost /\ Active(r)
  BY StatusSets DEF Measuring, Active
<1>2. InHand(r)
  BY <1>1 DEF ActiveInHand
<1>3. \A c \in Callers : caller[c].result # r
  BY <1>1, ExecutionAssumption DEF CustodyInv, CallsInOrder, StatusOfHeld, Waiting
<1>4. \A i \in DOMAIN queue : queue[i] # r
  BY <1>1 DEF CustodyInv, StatusOfHeld, Waiting
<1>5. PICK w \in Workers : job[w] = r
  BY <1>2, <1>3, <1>4 DEF InHand
<1>6. RowMatches(w) /\ SlotMatches(w) /\ stage[w] \in Stages /\ r # Nobody
  BY ExecutionAssumption DEF CustodyInv, StatusOfHeld, SlotInv, SlotOfStage, TypeOK
<1>7. stage[w] \in {"validating", "running", "finishing"}
  BY <1>1, <1>5, <1>6 DEF RowMatches, Waiting, Stages
<1>8. place[w] = "admitted"
  BY <1>1, <1>5, <1>6, <1>7 DEF SlotMatches
<1>9. QED
  BY <1>5, <1>6, <1>7, <1>8 DEF SlotMatches, Limiter!Admitted

\* Two measurements of one process never share a task or a WAN path, however
\* many workers there are and whatever limits the settings give.
THEOREM ExecutionMeasurementsApart == Spec => []MeasurementsApart
<1>1. CustodyInv /\ ActiveInHand /\ SlotInv => MeasurementsApart
  <2> SUFFICES ASSUME CustodyInv, ActiveInHand, SlotInv, phase # "down",
                      NEW q \in Results, NEW r \in Results, Measuring(q), Measuring(r), q # r
               PROVE  rowOf[q].task # rowOf[r].task /\ rowOf[q].wan # rowOf[r].wan
    BY DEF MeasurementsApart
  <2>1. PICK v \in Limiter!Admitted :
          job[v] = q /\ request[v].task = rowOf[q].task /\ request[v].wan = rowOf[q].wan
    BY MeasuringAdmitted
  <2>2. PICK w \in Limiter!Admitted :
          job[w] = r /\ request[w].task = rowOf[r].task /\ request[w].wan = rowOf[r].wan
    BY MeasuringAdmitted
  <2>3. QED
    BY <2>1, <2>2 DEF SlotInv, Limiter!Exclusion
<1>2. QED
  BY <1>1, Custody, Hands, Slots, PTL
=============================================================================
