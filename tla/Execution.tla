------------------------------ MODULE Execution ------------------------------
(***************************************************************************)
(* The execution manager (src/internal/execution/manager.go) with the      *)
(* tables it shares with the HTTP API and the scheduler.                   *)
(*                                                                         *)
(* Callers (HTTP handlers and cron callbacks) run Manager.Queue; workers   *)
(* take jobs from a bounded channel and run Manager.execute under the      *)
(* limiter of module RunLimiter; the API edits tasks, settings and results *)
(* in the database; the process stops, crashes and restarts.  Every store  *)
(* call, channel operation and critical section is one action, since other *)
(* goroutines may run between any two of them.                             *)
(***************************************************************************)
EXTENDS Integers, Sequences, FiniteSets

CONSTANTS
  Workers, Tasks, Wans, GlobalLimits, MaxConcurrency, NoRequest,
  Callers,          \* goroutines that may be inside Manager.Queue
  Results,          \* result identifiers in the order of their creation
  QueueCapacity,    \* capacity of the job channel; 64 in the code
  StoreFaults,      \* whether a store call may fail although its context is live
  InitialTables,    \* the task tables the first process may find
  FieldChoices,     \* the task fields clients submit
  SettingsChoices,  \* the settings clients submit
  Nobody            \* no caller, no result

\* The columns of a task that steer its execution.
TaskFields == [enabled : BOOLEAN, preventOverlap : BOOLEAN, wan : Wans]
TaskRow == [state : {"none", "live", "deleted"}, fields : TaskFields]
Settings == [limit : GlobalLimits, separateWAN : BOOLEAN]

ASSUME ExecutionAssumption ==
  /\ IsFiniteSet(Workers)
  /\ GlobalLimits \subseteq Int
  /\ MaxConcurrency \in Nat \ {0}
  /\ Results \subseteq Nat
  /\ QueueCapacity \in Nat
  /\ StoreFaults \in BOOLEAN
  /\ InitialTables \subseteq [Tasks -> TaskRow]
  /\ FieldChoices \subseteq TaskFields
  /\ SettingsChoices \subseteq Settings
  /\ Nobody \notin Results \cup Callers

VARIABLES
  \* the database
  task,       \* task[t]: the row of a task
  settings,   \* the persisted concurrency settings
  status,     \* status[r]: the status column of a result row
  rowOf,      \* rowOf[r]: the task and the path a result row was created for
  \* the manager
  phase,      \* "up", "stopping" after Stop, "down" between two processes
  queueMu,    \* the caller that holds Manager.queueMu
  caller,     \* caller[c]: local state of a call of Queue
  queue,      \* the channel of jobs
  stage,      \* stage[w]: where worker w is in execute
  job,        \* job[w]: the result worker w executes
  outcome,    \* outcome[w]: the terminal status w is about to persist
  runCtx,     \* runCtx[w]: "none", "live", "canceled" or "deadline"
  running,    \* workers whose cancel function is in Manager.running
  \* the limiter
  tasks, wans, runningTotal, place, request, woken,
  \* history
  lost        \* rows whose terminal status could not be persisted

ctxDone == phase # "up"

\* The limiter of the manager: its goroutines are the workers, and the context
\* of their calls is the manager's.
Limiter == INSTANCE RunLimiter WITH
  Workers <- Workers, Tasks <- Tasks, Wans <- Wans, GlobalLimits <- GlobalLimits,
  MaxConcurrency <- MaxConcurrency, NoRequest <- NoRequest,
  tasks <- tasks, wans <- wans, runningTotal <- runningTotal, place <- place,
  request <- request, woken <- woken, ctxDone <- ctxDone

limiterVars == <<tasks, wans, runningTotal, place, request, woken>>
database == <<task, settings, status, rowOf, lost>>
queueVars == <<queueMu, caller, queue>>
workerVars == <<stage, job, outcome, runCtx, running>>
vars == <<database, phase, queueVars, workerVars, limiterVars>>

-----------------------------------------------------------------------------
\* The abstract life cycle, of the statuses of the result rows.
Lifecycle == INSTANCE ResultLifecycle WITH Results <- Results, status <- status
ActiveStatuses == Lifecycle!ActiveStatuses
TerminalStatuses == Lifecycle!TerminalStatuses

Job == [task : Tasks, wan : Wans, preventOverlap : BOOLEAN]

Stages == {"idle", "settings", "acquiring", "starting", "validating",
           "running", "finishing", "leaving", "exited"}

Active(r) == status[r] \in ActiveStatuses
Terminal(r) == status[r] \in TerminalStatuses
Live(t) == task[t].state = "live"

\* TaskHasActiveResults and the same condition inside DeleteTask.
TaskHasActiveResults(t) ==
  \E r \in Results : Active(r) /\ rowOf[r].task = t

TypeOK ==
  /\ task \in [Tasks -> TaskRow]
  /\ settings \in Settings
  /\ status \in [Results -> Lifecycle!Statuses]
  /\ rowOf \in [Results -> Job \cup {Nobody}]
  /\ phase \in {"up", "stopping", "down"}
  /\ queueMu \in Callers \cup {Nobody}
  /\ caller \in [Callers -> [at : {"out", "loaded", "inserting", "sending"},
                             job : Job \cup {Nobody}, skip : BOOLEAN,
                             result : Results \cup {Nobody}]]
  /\ queue \in Seq(Results) /\ Len(queue) <= QueueCapacity
  /\ stage \in [Workers -> Stages]
  /\ job \in [Workers -> Results \cup {Nobody}]
  /\ outcome \in [Workers -> TerminalStatuses \cup {"none"}]
  /\ runCtx \in [Workers -> {"none", "live", "canceled", "deadline"}]
  /\ running \subseteq Workers
  /\ lost \subseteq Results
  /\ Limiter!TypeOK

-----------------------------------------------------------------------------
NoCall == [at |-> "out", job |-> Nobody, skip |-> FALSE, result |-> Nobody]

Init ==
  /\ task \in InitialTables
  /\ settings \in SettingsChoices
  /\ status = [r \in Results |-> "absent"]
  /\ rowOf = [r \in Results |-> Nobody]
  /\ phase = "up"
  /\ queueMu = Nobody
  /\ caller = [c \in Callers |-> NoCall]
  /\ queue = <<>>
  /\ stage = [w \in Workers |-> "idle"]
  /\ job = [w \in Workers |-> Nobody]
  /\ outcome = [w \in Workers |-> "none"]
  /\ runCtx = [w \in Workers |-> "none"]
  /\ running = {}
  /\ lost = {}
  /\ tasks = {} /\ wans = {} /\ runningTotal = 0 /\ woken = {}
  /\ place = [w \in Workers |-> "out"]
  /\ request = [w \in Workers |-> NoRequest]

-----------------------------------------------------------------------------
(* Manager.Queue *)

\* GetTask, the enabled check of a scheduled call and the snapshot of the
\* task that goes into the job.  A call that returns here changes nothing.
QueueLoad(c, t, trigger) ==
  /\ phase # "down"
  /\ caller[c].at = "out"
  /\ Live(t)
  /\ trigger = "scheduled" => task[t].fields.enabled
  /\ LET f == task[t].fields IN
       caller' = [caller EXCEPT ![c] =
         [NoCall EXCEPT !.at = "loaded",
            !.job = [task |-> t, wan |-> f.wan, preventOverlap |-> f.preventOverlap]]]
  /\ UNCHANGED <<database, phase, queueMu, queue, workerVars, limiterVars>>

\* Mutant: the overlap check and the insert are not one critical section.
QueueLockless(c) ==
  /\ caller[c].at = "loaded"
  /\ LET j == caller[c].job IN
       caller' = [caller EXCEPT ![c].at = "inserting",
                    ![c].skip = j.preventOverlap /\ TaskHasActiveResults(j.task)]
  /\ UNCHANGED <<database, phase, queueMu, queue, workerVars, limiterVars>>

\* queueMu.Lock() and the overlap check of a task that prevents overlap.
QueueLock(c) ==
  /\ caller[c].at = "loaded"
  /\ queueMu = Nobody
  /\ queueMu' = c
  /\ LET j == caller[c].job IN
       caller' = [caller EXCEPT ![c].at = "inserting",
                    ![c].skip = j.preventOverlap /\ TaskHasActiveResults(j.task)]
  /\ UNCHANGED <<database, phase, queue, workerVars, limiterVars>>

\* The identifier CreateResult gives to the next row.
IsNext(r) == status[r] = "absent" /\ \A q \in Results : q < r => status[q] # "absent"

Return(c) == caller' = [caller EXCEPT ![c] = NoCall] /\ queueMu' = Nobody

\* CreateResult, which inserts only while the task row is live: a skipped row
\* ends the call, a queued row still has to be sent to the workers.
QueueInsert(c) ==
  /\ caller[c].at = "inserting"
  /\ Live(caller[c].job.task)
  /\ \E r \in Results :
       /\ IsNext(r)
       /\ rowOf' = [rowOf EXCEPT ![r] = caller[c].job]
       /\ \/ /\ caller[c].skip
             /\ status' = [status EXCEPT ![r] = "skipped"]
             /\ Return(c)
          \/ /\ ~caller[c].skip
             /\ status' = [status EXCEPT ![r] = "queued"]
             /\ caller' = [caller EXCEPT ![c].at = "sending", ![c].result = r]
             /\ UNCHANGED queueMu
  /\ UNCHANGED <<task, settings, lost, phase, queue, workerVars, limiterVars>>

\* Queue returns an error without a row: the task is gone, or the caller's
\* own context (an HTTP request, the scheduler's) ended.
QueueFail(c) ==
  /\ caller[c].at = "inserting"
  /\ Return(c)
  /\ UNCHANGED <<database, phase, queue, workerVars, limiterVars>>

\* Mutant: the channel takes one job more than it has room for.
QueueSendOneMore(c) ==
  /\ caller[c].at = "sending"
  /\ Len(queue) <= QueueCapacity
  /\ queue' = Append(queue, caller[c].result)
  /\ Return(c)
  /\ UNCHANGED <<database, phase, workerVars, limiterVars>>

\* The non-blocking send: into the channel when it has room ...
QueueSend(c) ==
  /\ caller[c].at = "sending"
  /\ Len(queue) < QueueCapacity
  /\ queue' = Append(queue, caller[c].result)
  /\ Return(c)
  /\ UNCHANGED <<database, phase, workerVars, limiterVars>>

\* persistTerminal: a write with a context of its own.  When it fails the
\* row keeps its active status and nobody looks after it any more.
PersistTerminal(r, s) ==
  \/ status' = [status EXCEPT ![r] = s] /\ UNCHANGED lost
  \/ StoreFaults /\ lost' = lost \cup {r} /\ UNCHANGED status

\* Mutant: the row of a job that was not sent stays queued.
QueueFullForgets(c) ==
  /\ caller[c].at = "sending"
  /\ Len(queue) = QueueCapacity
  /\ Return(c)
  /\ UNCHANGED <<database, phase, queue, workerVars, limiterVars>>

\* ... and otherwise the row is skipped at once.
QueueFull(c) ==
  /\ caller[c].at = "sending"
  /\ Len(queue) = QueueCapacity
  /\ PersistTerminal(caller[c].result, "skipped")
  /\ Return(c)
  /\ UNCHANGED <<task, settings, rowOf, phase, queue, workerVars, limiterVars>>

-----------------------------------------------------------------------------
(* Manager.execute *)

Goto(w, from, to) == stage[w] = from /\ stage' = [stage EXCEPT ![w] = to]

\* An idle worker receives a job.  Its select may do so even after Stop.
Dequeue(w) ==
  /\ phase # "down"
  /\ Goto(w, "idle", "settings")
  /\ queue # <<>>
  /\ job' = [job EXCEPT ![w] = Head(queue)]
  /\ queue' = Tail(queue)
  /\ UNCHANGED <<database, phase, queueMu, caller, outcome, runCtx, running, limiterVars>>

\* An idle worker sees the cancelled context and returns.
WorkerExit(w) ==
  /\ phase = "stopping"
  /\ Goto(w, "idle", "exited")
  /\ UNCHANGED <<database, phase, queueVars, job, outcome, runCtx, running, limiterVars>>

\* GetSettings, then the call of Acquire with the settings just read.
LoadSettings(w) ==
  /\ Goto(w, "settings", "acquiring")
  /\ ~ctxDone
  /\ LET j == rowOf[job[w]] IN
       Limiter!Call(w, [task |-> j.task, wan |-> j.wan, limit |-> settings.limit,
                        separateWAN |-> settings.separateWAN])
  /\ UNCHANGED <<database, phase, queueVars, job, outcome, runCtx, running>>

\* The paths that end in failUnloaded or finishFailure: the status is decided
\* here and persisted by Finish.
Decide(w, from, s) ==
  /\ Goto(w, from, "finishing")
  /\ outcome' = [outcome EXCEPT ![w] = s]
  /\ UNCHANGED <<database, phase, queueVars, job, runCtx, running>>

\* Mutant: settings that cannot be read under a cancelled context are awaited.
SettingsAwaited(w) ==
  /\ StoreFaults
  /\ Decide(w, "settings", "failed")
  /\ UNCHANGED limiterVars

SettingsFail(w) ==
  /\ ctxDone \/ StoreFaults
  /\ Decide(w, "settings", "failed")
  /\ UNCHANGED limiterVars

\* Acquire finds room.  The timeout context and the entry in Manager.running
\* follow; a context derived from a cancelled one is born cancelled.
Acquired(w) ==
  /\ Goto(w, "acquiring", "starting")
  /\ Limiter!Admit(w)
  /\ runCtx' = [runCtx EXCEPT ![w] = IF ctxDone THEN "canceled" ELSE "live"]
  /\ running' = running \cup {w}
  /\ UNCHANGED <<database, phase, queueVars, job, outcome>>

\* Acquire finds no room, or looks again after a Release.
AcquireWaits(w) ==
  /\ stage[w] = "acquiring"
  /\ Limiter!Block(w) \/ Limiter!Wake(w)
  /\ UNCHANGED <<database, phase, queueVars, workerVars>>

\* Acquire returns the error of the cancelled context.
AcquireFails(w) ==
  /\ Limiter!GiveUp(w)
  /\ Decide(w, "acquiring", "failed")

\* UpdateResult under the run's context: the write of a new active status.
Persist(w, from, to, s) ==
  /\ Goto(w, from, to)
  /\ runCtx[w] = "live"
  /\ status' = [status EXCEPT ![job[w]] = s]
  /\ UNCHANGED <<task, settings, rowOf, lost, phase, queueVars,
                 job, outcome, runCtx, running, limiterVars>>

\* GetResult and the write of `validating`.
StartValidating(w) == Persist(w, "starting", "validating", "validating")

\* The route of the job is validated over the selected path, the provider is
\* found and available, and `running` is written; the provider starts.
StartRunning(w) == Persist(w, "validating", "running", "running")

\* A write fails (the context is over, or the store refuses), the profile does
\* not match the task, the validation fails, the provider is unknown ...
RunFails(w) ==
  /\ \/ stage[w] = "starting" /\ (runCtx[w] # "live" \/ StoreFaults)
     \/ stage[w] = "validating"
  /\ Decide(w, stage[w], "failed")
  /\ UNCHANGED limiterVars

\* ... or the provider is not available.
ProviderUnavailable(w) ==
  /\ Decide(w, "validating", "skipped")
  /\ UNCHANGED limiterVars

\* provider.Run returns: with metrics, even if the context is over by now;
\* with invalid metrics, which fail; or with an error, which counts as
\* cancelled if the run's context was cancelled and as failed otherwise.
ProviderReturns(w) ==
  /\ \/ Decide(w, "running", "succeeded")
     \/ Decide(w, "running", "failed")
     \/ runCtx[w] = "canceled" /\ Decide(w, "running", "cancelled")
  /\ UNCHANGED limiterVars

\* finishFailure or the end of a successful run: the terminal status is
\* persisted while the limiter is still held.
Finish(w) ==
  /\ Goto(w, "finishing", "leaving")
  /\ PersistTerminal(job[w], outcome[w])
  /\ UNCHANGED <<task, settings, rowOf, phase, queueVars,
                 job, outcome, runCtx, running, limiterVars>>

\* Mutant: Release is not deferred, and this return forgets it.
LeaveWithoutRelease(w) ==
  /\ Goto(w, "leaving", "idle")
  /\ job' = [job EXCEPT ![w] = Nobody]
  /\ outcome' = [outcome EXCEPT ![w] = "none"]
  /\ runCtx' = [runCtx EXCEPT ![w] = "none"]
  /\ running' = running \ {w}
  /\ place' = [place EXCEPT ![w] = "out"]
  /\ request' = [request EXCEPT ![w] = NoRequest]
  /\ UNCHANGED <<database, phase, queueVars, tasks, wans, runningTotal, woken>>

\* The deferred calls: the entry in Manager.running goes, the context is
\* cancelled, the limiter is released if it was acquired.
Leave(w) ==
  /\ Goto(w, "leaving", "idle")
  /\ job' = [job EXCEPT ![w] = Nobody]
  /\ outcome' = [outcome EXCEPT ![w] = "none"]
  /\ runCtx' = [runCtx EXCEPT ![w] = "none"]
  /\ running' = running \ {w}
  /\ \/ Limiter!Release(w)
     \/ place[w] = "out" /\ UNCHANGED limiterVars
  /\ UNCHANGED <<database, phase, queueVars>>

\* The timeout of the run expires.
Deadline(w) ==
  /\ runCtx[w] = "live"
  /\ runCtx' = [runCtx EXCEPT ![w] = "deadline"]
  /\ UNCHANGED <<database, phase, queueVars, stage, job, outcome, running, limiterVars>>

\* Manager.Cancel: calls the cancel function registered for a result.
Cancel(r) ==
  /\ \E w \in running :
       /\ job[w] = r
       /\ runCtx[w] = "live"
       /\ runCtx' = [runCtx EXCEPT ![w] = "canceled"]
  /\ UNCHANGED <<database, phase, queueVars, stage, job, outcome, running, limiterVars>>

-----------------------------------------------------------------------------
(* Edits of the database by the HTTP API. *)

\* CreateTask gives a new task a new identifier.
CreateTask(t, f) ==
  /\ phase # "down"
  /\ task[t].state = "none"
  /\ task' = [task EXCEPT ![t] = [state |-> "live", fields |-> f]]
  /\ UNCHANGED <<settings, status, rowOf, lost, phase, queueVars, workerVars, limiterVars>>

\* UpdateTask changes a live task, whether or not it has active results.
UpdateTask(t, f) ==
  /\ phase # "down"
  /\ Live(t)
  /\ task' = [task EXCEPT ![t].fields = f]
  /\ UNCHANGED <<settings, status, rowOf, lost, phase, queueVars, workerVars, limiterVars>>

\* Mutant: active results are not looked at.
DeleteBusyTask(t) ==
  /\ phase # "down"
  /\ Live(t)
  /\ task' = [task EXCEPT ![t].state = "deleted", ![t].fields.enabled = FALSE]
  /\ UNCHANGED <<settings, status, rowOf, lost, phase, queueVars, workerVars, limiterVars>>

\* DeleteTask is one statement: it applies only without active results.
DeleteTask(t) ==
  /\ phase # "down"
  /\ Live(t)
  /\ ~TaskHasActiveResults(t)
  /\ task' = [task EXCEPT ![t].state = "deleted", ![t].fields.enabled = FALSE]
  /\ UNCHANGED <<settings, status, rowOf, lost, phase, queueVars, workerVars, limiterVars>>

\* UpdateSettings.
UpdateSettings(new) ==
  /\ phase # "down"
  /\ settings' = new
  /\ UNCHANGED <<task, status, rowOf, lost, phase, queueVars, workerVars, limiterVars>>

\* ReplaceConfiguration is one transaction that refuses while any result is
\* active: it replaces the settings, inserts, revives or updates the imported
\* tasks and deletes the live tasks that are absent from the document.
ReplaceConfiguration(imported, f, new) ==
  /\ phase # "down"
  /\ \A r \in Results : ~Active(r)
  /\ settings' = new
  /\ task' = [t \in Tasks |->
       IF t \in imported THEN [state |-> "live", fields |-> f[t]]
       ELSE IF Live(t) THEN [task[t] EXCEPT !.state = "deleted", !.fields.enabled = FALSE]
       ELSE task[t]]
  /\ UNCHANGED <<status, rowOf, lost, phase, queueVars, workerVars, limiterVars>>

\* DeleteResult, DeleteResults and the batches of the retention service delete
\* terminal rows only, all of them in one transaction.
DeleteResults(rows) ==
  /\ phase # "down"
  /\ rows # {}
  /\ \A r \in rows : Terminal(r)
  /\ status' = [r \in Results |-> IF r \in rows THEN "deleted" ELSE status[r]]
  /\ rowOf' = [r \in Results |-> IF r \in rows THEN Nobody ELSE rowOf[r]]
  /\ UNCHANGED <<task, settings, lost, phase, queueVars, workerVars, limiterVars>>

-----------------------------------------------------------------------------
(* The process: Manager.Stop, the end of the process, the next start. *)

\* Stop cancels the manager's context and with it every run's context.
Stop ==
  /\ phase = "up"
  /\ phase' = "stopping"
  /\ runCtx' = [w \in Workers |-> IF runCtx[w] = "live" THEN "canceled" ELSE runCtx[w]]
  /\ UNCHANGED <<database, queueVars, stage, job, outcome, running, limiterVars>>

\* The process ends: after a clean stop, because the shutdown deadline passed
\* with workers still busy, or by a crash.  Only the database survives.
Halt ==
  /\ phase # "down"
  /\ phase' = "down"
  /\ queueMu' = Nobody
  /\ caller' = [c \in Callers |-> NoCall]
  /\ queue' = <<>>
  /\ stage' = [w \in Workers |-> "idle"]
  /\ job' = [w \in Workers |-> Nobody]
  /\ outcome' = [w \in Workers |-> "none"]
  /\ runCtx' = [w \in Workers |-> "none"]
  /\ running' = {}
  /\ tasks' = {} /\ wans' = {} /\ runningTotal' = 0 /\ woken' = {}
  /\ place' = [w \in Workers |-> "out"]
  /\ request' = [w \in Workers |-> NoRequest]
  /\ UNCHANGED database

\* Mutant: finished rows are cancelled as well.
RestartCancelsAll ==
  /\ phase = "down"
  /\ phase' = "up"
  /\ status' = [r \in Results |->
                  IF Active(r) \/ Terminal(r) THEN "cancelled" ELSE status[r]]
  /\ lost' = {}
  /\ UNCHANGED <<task, settings, rowOf, queueVars, workerVars, limiterVars>>

\* The next process cancels what the last one left active
\* (RecoverInterruptedResults) before it starts its workers.
Restart ==
  /\ phase = "down"
  /\ phase' = "up"
  /\ status' = [r \in Results |-> IF Active(r) THEN "cancelled" ELSE status[r]]
  /\ lost' = {}
  /\ UNCHANGED <<task, settings, rowOf, queueVars, workerVars, limiterVars>>

-----------------------------------------------------------------------------
CallerStep(c) ==
  QueueLock(c) \/ QueueInsert(c) \/ QueueFail(c) \/ QueueSend(c) \/ QueueFull(c)

\* What a worker does without waiting for the world outside.
WorkerStep(w) ==
  \/ Dequeue(w) \/ WorkerExit(w) \/ LoadSettings(w) \/ SettingsFail(w)
  \/ Acquired(w) \/ AcquireWaits(w) \/ AcquireFails(w)
  \/ StartValidating(w) \/ StartRunning(w)
  \/ RunFails(w) \/ ProviderUnavailable(w) \/ Finish(w) \/ Leave(w)

Next ==
  \/ \E c \in Callers :
       \/ \E t \in Tasks, trigger \in {"manual", "scheduled"} : QueueLoad(c, t, trigger)
       \/ CallerStep(c)
  \/ \E w \in Workers : WorkerStep(w) \/ ProviderReturns(w) \/ Deadline(w)
  \/ \E r \in Results : Cancel(r)
  \/ \E t \in Tasks, f \in FieldChoices : CreateTask(t, f) \/ UpdateTask(t, f)
  \/ \E t \in Tasks : DeleteTask(t)
  \/ \E new \in SettingsChoices : UpdateSettings(new)
  \/ \E imported \in SUBSET Tasks, f \in [Tasks -> FieldChoices], new \in SettingsChoices :
       ReplaceConfiguration(imported, f, new)
  \/ \E rows \in SUBSET Results : DeleteResults(rows)
  \/ Stop \/ Halt \/ Restart

Spec == Init /\ [][Next]_vars

\* Goroutines are scheduled fairly; a run's deadline expires; a provider
\* returns once its context is over, because its process group is killed
\* and its connections are closed.  Nothing is assumed of the API's clients,
\* of the operator who stops the process, or of a provider before its deadline.
Fairness ==
  /\ \A c \in Callers : WF_vars(CallerStep(c))
  /\ \A w \in Workers :
       /\ WF_vars(WorkerStep(w))
       /\ WF_vars(Deadline(w))
       /\ WF_vars(runCtx[w] # "live" /\ ProviderReturns(w))

FairSpec == Spec /\ Fairness
-----------------------------------------------------------------------------
(* Properties *)

Owners(r) ==
  {<<"caller", c>> : c \in {d \in Callers : caller[d].result = r}}
    \cup {<<"queue", i>> : i \in {k \in DOMAIN queue : queue[k] = r}}
    \cup {<<"worker", w>> : w \in {v \in Workers : job[v] = r}}

\* While a process is up, every row in an active status is in exactly one
\* pair of hands (a call of Queue, the channel or a worker) that will finish
\* it; the only exceptions are rows whose terminal status the store refused.
\* A row nobody owns would block its task's overlap check, its deletion and
\* every import until the next start (manager.go 129-150, 163-316).
ActiveOwnedOnce ==
  phase # "down" => \A r \in Results :
    Active(r) => \/ Cardinality(Owners(r)) = 1
                 \/ r \in lost /\ Owners(r) = {}

\* A run queued for a task that prevents overlap never finds an older run of
\* the same task active: check and insert are one critical section of queueMu,
\* and only they create active rows (manager.go 111-132).
NoOverlap == \A q, r \in Results :
  /\ Active(q) /\ Active(r) /\ q < r
  /\ rowOf[q].task = rowOf[r].task
  => ~rowOf[r].preventOverlap

\* An active run's task is live: the conditional insert of CreateResult and
\* the conditional update of DeleteTask and ReplaceConfiguration exclude each
\* other whatever happens between a caller's GetTask and its insert.
ActiveTaskLive == \A r \in Results : Active(r) => Live(rowOf[r].task)

\* Measurements never disturb each other: two rows that are validating or
\* running belong to different tasks and different WAN paths, and each worker
\* behind them holds the limiter (docs/networking.md 96).
Measuring(r) == status[r] \in {"validating", "running"} /\ r \notin lost

MeasurementsApart ==
  phase # "down" => \A q, r \in Results :
    Measuring(q) /\ Measuring(r) /\ q # r =>
      rowOf[q].task # rowOf[r].task /\ rowOf[q].wan # rowOf[r].wan

\* The limiter is held exactly by the workers between Acquire and the deferred
\* Release, so that no return of execute leaks a slot.
SlotsMatchWorkers ==
  /\ Limiter!Exclusion
  /\ running = Limiter!Admitted
  /\ \A w \in Workers : stage[w] \in {"idle", "exited", "settings"} => place[w] = "out"

\* Every row follows the life cycle the rest of the program relies on.
FollowsLifecycle == Lifecycle!Spec

\* Every queued run ends in a terminal status while the process stays up and
\* the store accepts its writes.
RunsEnd == \A r \in Results : Active(r) ~> (~Active(r) \/ phase # "up")

\* After Stop every worker returns, so that the shutdown need not run into its
\* deadline.
StopDrains ==
  phase = "stopping" ~> (phase = "down" \/ \A w \in Workers : stage[w] = "exited")
=============================================================================
