------------------------------ MODULE Scheduler ------------------------------
(***************************************************************************)
(* The scheduler (src/internal/scheduler/scheduler.go) and the handlers of *)
(* the HTTP API that edit tasks (src/internal/api/tasks.go and             *)
(* configuration.go).                                                      *)
(*                                                                         *)
(* The handlers run one at a time under Server.configurationMu, but their  *)
(* database writes and their calls of the scheduler are separate steps.    *)
(* Cron callbacks (Scheduler.fire) run concurrently with them and with     *)
(* each other; a callback looks at its generation, claims the current      *)
(* minute, sleeps for its jitter and queues the run.  Each critical        *)
(* section of Scheduler.mu and each database write outside it is an action.*)
(*                                                                         *)
(* A cron expression is the set of instants at which it activates, and a   *)
(* time zone maps instants to local minutes, two of which may be equal     *)
(* when clocks are set back.                                               *)
(***************************************************************************)
EXTENDS Integers, FiniteSets

CONSTANTS
  Tasks,
  Callbacks,       \* goroutines of cron callbacks that may exist at a time
  MaxInstant,      \* bound on the clock
  MaxGeneration,   \* bound on Scheduler.nextGeneration
  Zones,
  LocalMinute,     \* LocalMinute[z][i]: the local minute of instant i in z
  FieldChoices,    \* schedules clients submit: [enabled, cron, zone]
  Disconnects,     \* whether a client may go away while its request is handled
  StoreFaults,     \* whether a store call may fail although its context is live
  None

Instants == 1 .. MaxInstant
Fields == [enabled : BOOLEAN, cron : SUBSET Instants, zone : Zones]
Row == [live : BOOLEAN, fields : Fields]
Entry == [generation : 1 .. MaxGeneration, cron : SUBSET Instants, launched : 0 .. MaxInstant]
ScheduledRun == [at : Instants, zone : Zones]

ASSUME SchedulerAssumption ==
  /\ MaxInstant \in Nat \ {0}
  /\ MaxGeneration \in Nat
  /\ LocalMinute \in [Zones -> [Instants -> Nat]]
  /\ FieldChoices \subseteq Fields
  /\ Disconnects \in BOOLEAN
  /\ StoreFaults \in BOOLEAN
  /\ None \notin Fields \cup Row \cup Entry \cup Tasks \cup Nat

VARIABLES
  \* the database
  row,             \* row[t]: None, or the live or deleted row of a task
  last,            \* last[t]: last_scheduled_at
  active,          \* tasks with active results, see module Execution
  \* the scheduler
  entry,           \* entry[t]: the cron entry and the generation of a task
  nextGeneration,
  localFire,       \* localFire[t]: local minute of the last claim in memory
  callback,        \* callback[k]: local state of a call of fire
  \* the rest
  handler,         \* the handler that holds configurationMu
  now,             \* the clock
  up,              \* whether the process is running
  \* history
  claims,          \* claims[t]: the instants claimed for a task
  started          \* started[t]: the runs its callbacks started

database == <<row, last, active>>
memory == <<entry, nextGeneration, localFire>>
history == <<claims, started>>
vars == <<database, memory, callback, handler, now, up, history>>

-----------------------------------------------------------------------------
NoCallback == [at |-> "none", task |-> None, generation |-> 0, cron |-> {},
               zone |-> None, scheduled |-> 0]
NoHandler == [at |-> "none", task |-> None, old |-> None, connected |-> TRUE]

Live(t) == row[t] # None /\ row[t].live
Enabled(t) == Live(t) /\ row[t].fields.enabled

TypeOK ==
  /\ row \in [Tasks -> Row \cup {None}]
  /\ last \in [Tasks -> 0 .. MaxInstant]
  /\ active \subseteq Tasks
  /\ entry \in [Tasks -> Entry \cup {None}]
  /\ nextGeneration \in 0 .. MaxGeneration
  /\ localFire \in [Tasks -> Nat \cup {None}]
  /\ callback \in [Callbacks ->
       [at : {"none", "launched", "prepared", "claimed"}, task : Tasks \cup {None},
        generation : 0 .. MaxGeneration, cron : SUBSET Instants,
        zone : Zones \cup {None}, scheduled : 0 .. MaxInstant]]
  /\ \A k \in Callbacks :
       /\ callback[k].at # "none" => callback[k].task \in Tasks
       /\ callback[k].at \in {"prepared", "claimed"} =>
            callback[k].zone \in Zones /\ callback[k].scheduled \in Instants
  /\ handler \in [at : {"none", "schedule", "undoStore", "undoSchedule", "delete",
                        "restore", "replace", "reconcile"},
                  task : Tasks \cup {None}, old : Fields \cup {None}, connected : BOOLEAN]
  /\ handler.at \notin {"none", "replace", "reconcile"} =>
       handler.task \in Tasks /\ row[handler.task] # None
  /\ now \in Instants
  /\ up \in BOOLEAN
  /\ claims \in [Tasks -> SUBSET Instants]
  /\ started \in [Tasks -> SUBSET ScheduledRun]

Init ==
  /\ row = [t \in Tasks |-> None]
  /\ last = [t \in Tasks |-> 0]
  /\ active = {}
  /\ entry = [t \in Tasks |-> None]
  /\ nextGeneration = 0
  /\ localFire = [t \in Tasks |-> None]
  /\ callback = [k \in Callbacks |-> NoCallback]
  /\ handler = NoHandler
  /\ now = 1
  /\ up = TRUE
  /\ claims = [t \in Tasks |-> {}]
  /\ started = [t \in Tasks |-> {}]

-----------------------------------------------------------------------------
(* Scheduler.Reschedule, Reconcile and Remove *)

\* Mutant: the enabled column is not looked at.
RescheduleDisabled(T) ==
  /\ nextGeneration < MaxGeneration
  /\ nextGeneration' = nextGeneration + 1
  /\ entry' = [t \in Tasks |->
       IF t \notin T THEN entry[t]
       ELSE IF Live(t)
            THEN [generation |-> nextGeneration + 1, cron |-> row[t].fields.cron,
                  launched |-> now]
            ELSE None]
  /\ UNCHANGED localFire

\* rescheduleLocked for the tasks in T, each of which loses its entry and its
\* generation and, if its stored row is enabled, gets new ones.  Generations
\* are only compared task by task, so the tasks of one call may share one.
Reschedule(T) ==
  /\ nextGeneration < MaxGeneration
  /\ nextGeneration' = nextGeneration + 1
  /\ entry' = [t \in Tasks |->
       IF t \notin T THEN entry[t]
       ELSE IF Enabled(t)
            THEN [generation |-> nextGeneration + 1, cron |-> row[t].fields.cron,
                  launched |-> now]
            ELSE None]
  /\ UNCHANGED localFire

\* rescheduleLocked when a store call fails: the entry is gone already.
RescheduleFails(t) ==
  /\ entry' = [entry EXCEPT ![t] = None]
  /\ UNCHANGED <<nextGeneration, localFire>>

\* Remove, and Reconcile with no tasks: the local minute is forgotten as well.
Remove(T) ==
  /\ entry' = [t \in Tasks |-> IF t \in T THEN None ELSE entry[t]]
  /\ localFire' = [t \in Tasks |-> IF t \in T THEN None ELSE localFire[t]]
  /\ UNCHANGED nextGeneration

-----------------------------------------------------------------------------
(* Handlers *)

Begin(at, t, old) ==
  /\ up /\ handler.at = "none"
  /\ handler' = [at |-> at, task |-> t, old |-> old, connected |-> TRUE]

Proceed(from, to) ==
  /\ handler.at = from
  /\ handler' = IF to = "none" THEN NoHandler ELSE [handler EXCEPT !.at = to]

\* The client goes away and the request's context, which every store call of
\* the handler uses, is cancelled.
Disconnect ==
  /\ Disconnects
  /\ handler.at # "none" /\ handler.connected
  /\ handler' = [handler EXCEPT !.connected = FALSE]
  /\ UNCHANGED <<database, memory, callback, now, up, history>>

Store(t, f) == row' = [row EXCEPT ![t] = [live |-> TRUE, fields |-> f]]
Retire(r) == [r EXCEPT !.live = FALSE, !.fields.enabled = FALSE]

\* createTask and updateTask write the row before they call the scheduler.
CreateTask(t, f) ==
  /\ Begin("schedule", t, None)
  /\ row[t] = None
  /\ Store(t, f)
  /\ UNCHANGED <<last, active, memory, callback, now, up, history>>

UpdateTask(t, f) ==
  /\ Live(t)
  /\ Begin("schedule", t, row[t].fields)
  /\ Store(t, f)
  /\ UNCHANGED <<last, active, memory, callback, now, up, history>>

\* duplicateTask stores a disabled copy and has nothing to schedule.
DuplicateTask(s, t) ==
  /\ up /\ handler.at = "none"
  /\ Live(s) /\ row[t] = None
  /\ Store(t, [row[s].fields EXCEPT !.enabled = FALSE])
  /\ UNCHANGED <<last, active, memory, callback, handler, now, up, history>>

\* A store call of the handler may succeed, may fail.
Works == handler.connected
Fails == ~handler.connected \/ StoreFaults

\* The call of Reschedule after the write.
ScheduleTask ==
  /\ \/ Works /\ Proceed("schedule", "none") /\ Reschedule({handler.task})
     \/ Fails /\ Proceed("schedule", "undoStore") /\ RescheduleFails(handler.task)
  /\ UNCHANGED <<database, callback, now, up, history>>

\* The compensation after a failed Reschedule: DeleteTask for a new task,
\* UpdateTask with the old fields and a second Reschedule for an edited one.
\* It uses the request's context too, so it fails when that is cancelled.
UndoStore ==
  /\ Proceed("undoStore", IF handler.old = None THEN "none" ELSE "undoSchedule")
  /\ LET t == handler.task IN
     \/ Works /\ handler.old # None /\ Store(t, handler.old)
     \/ Works /\ handler.old = None /\ t \notin active
              /\ row' = [row EXCEPT ![t] = Retire(@)]
     \/ (Fails \/ (handler.old = None /\ t \in active)) /\ UNCHANGED row
  /\ UNCHANGED <<last, active, memory, callback, now, up, history>>

UndoSchedule ==
  /\ Proceed("undoSchedule", "none")
  /\ \/ Works /\ Reschedule({handler.task})
     \/ Fails /\ RescheduleFails(handler.task)
  /\ UNCHANGED <<database, callback, now, up, history>>

\* deleteTask first takes the task off the schedule ...
DeleteTask(t) ==
  /\ Live(t)
  /\ Begin("delete", t, None)
  /\ Remove({t})
  /\ UNCHANGED <<database, callback, now, up, history>>

\* Mutant: a refused deletion leaves the task off the schedule.
DeleteRowGivesUp ==
  /\ Proceed("delete", "none")
  /\ LET t == handler.task IN
     \/ Works /\ t \notin active /\ row' = [row EXCEPT ![t] = Retire(@)]
     \/ (Fails \/ t \in active) /\ UNCHANGED row
  /\ UNCHANGED <<last, active, memory, callback, now, up, history>>

\* ... then deletes the row, unless a result of the task is active ...
DeleteRow ==
  /\ LET t == handler.task IN
     \/ Works /\ t \notin active /\ Proceed("delete", "none")
              /\ row' = [row EXCEPT ![t] = Retire(@)]
     \/ (Fails \/ t \in active) /\ Proceed("delete", "restore") /\ UNCHANGED row
  /\ UNCHANGED <<last, active, memory, callback, now, up, history>>

\* ... in which case the schedule is put back.
RestoreSchedule ==
  /\ Proceed("restore", "none")
  /\ \/ Works /\ Reschedule({handler.task})
     \/ Fails /\ RescheduleFails(handler.task)
  /\ UNCHANGED <<database, callback, now, up, history>>

\* Mutant: the schedules are not paused.
ImportUnpaused ==
  /\ Begin("replace", None, None)
  /\ UNCHANGED <<database, memory, callback, now, up, history>>

\* importConfiguration pauses every schedule (Reconcile with no tasks) ...
ImportConfiguration ==
  /\ Begin("replace", None, None)
  /\ Remove({t \in Tasks : entry[t] # None})
  /\ UNCHANGED <<database, callback, now, up, history>>

\* ... replaces the tasks in one transaction, which refuses while a result is
\* active ...
ReplaceConfiguration(imported, f) ==
  /\ Works /\ active = {}
  /\ Proceed("replace", "reconcile")
  /\ row' = [t \in Tasks |->
       IF t \in imported THEN [live |-> TRUE, fields |-> f[t]]
       ELSE IF Live(t) THEN Retire(row[t]) ELSE row[t]]
  /\ UNCHANGED <<last, active, memory, callback, now, up, history>>

ReplaceRefused ==
  /\ Fails \/ active # {}
  /\ Proceed("replace", "reconcile")
  /\ UNCHANGED <<database, memory, callback, now, up, history>>

\* ... and schedules what is stored now, the old tasks or the new ones.
\* Reconcile stops at the first task it cannot reschedule.
ReconcileSchedules ==
  /\ Proceed("reconcile", "none")
  /\ \/ Works /\ Reschedule({t \in Tasks : Live(t)})
     \/ Fails /\ \E T \in SUBSET {t \in Tasks : Live(t)} : Reschedule(T)
  /\ UNCHANGED <<database, callback, now, up, history>>

HandlerStep ==
  \/ ScheduleTask \/ UndoStore \/ UndoSchedule \/ DeleteRow \/ RestoreSchedule
  \/ \E imported \in SUBSET Tasks, f \in [Tasks -> FieldChoices] :
       ReplaceConfiguration(imported, f)
  \/ ReplaceRefused \/ ReconcileSchedules

-----------------------------------------------------------------------------
(* Cron and Scheduler.fire *)

IsCurrent(k) ==
  LET c == callback[k] IN
  entry[c.task] # None /\ entry[c.task].generation = c.generation

Done(k) == callback' = [callback EXCEPT ![k] = NoCallback]

\* The cron library starts the callback of an entry once per activation.
Launch(k, t) ==
  /\ up /\ callback[k].at = "none"
  /\ entry[t] # None
  /\ now \in entry[t].cron /\ now > entry[t].launched
  /\ entry' = [entry EXCEPT ![t].launched = now]
  /\ callback' = [callback EXCEPT ![k] =
       [NoCallback EXCEPT !.at = "launched", !.task = t,
          !.generation = entry[t].generation, !.cron = entry[t].cron]]
  /\ UNCHANGED <<database, nextGeneration, localFire, handler, now, up, history>>

\* The first look at the generation, the load of the task and the reading of
\* the clock, which may be later than the activation.
FirePrepare(k) ==
  /\ callback[k].at = "launched"
  /\ LET t == callback[k].task IN
     \/ /\ IsCurrent(k) /\ Enabled(t)
        /\ callback' = [callback EXCEPT ![k].at = "prepared",
                          ![k].zone = row[t].fields.zone, ![k].scheduled = now]
     \/ (~(IsCurrent(k) /\ Enabled(t)) \/ StoreFaults) /\ Done(k)
  /\ UNCHANGED <<database, memory, handler, now, up, history>>

\* Mutant: only the memory of this process is consulted.
IsDuplicateInMemory(k) ==
  localFire[callback[k].task] = LocalMinute[callback[k].zone][callback[k].scheduled]

\* The local minute of the callback was claimed before: by this process, or
\* by the last claim that was persisted.
IsDuplicate(k) ==
  LET c == callback[k]
      minute == LocalMinute[c.zone] IN
  \/ localFire[c.task] = minute[c.scheduled]
  \/ last[c.task] # 0 /\ minute[last[c.task]] = minute[c.scheduled]

\* The critical section that claims the minute: generation, duplicate and
\* order are checked, then the claim goes to memory and to the database.
FireClaim(k) ==
  LET c == callback[k]
      fresh == IsCurrent(k) /\ Live(c.task) /\ ~IsDuplicate(k) /\ c.scheduled > last[c.task]
  IN
  /\ c.at = "prepared"
  /\ \/ /\ fresh
        /\ localFire' = [localFire EXCEPT ![c.task] = LocalMinute[c.zone][c.scheduled]]
        /\ \/ /\ last' = [last EXCEPT ![c.task] = c.scheduled]
              /\ claims' = [claims EXCEPT ![c.task] = @ \cup {c.scheduled}]
              /\ callback' = [callback EXCEPT ![k].at = "claimed"]
           \/ StoreFaults /\ Done(k) /\ UNCHANGED <<last, claims>>
     \/ (~fresh \/ StoreFaults) /\ Done(k) /\ UNCHANGED <<last, localFire, claims>>
  /\ UNCHANGED <<row, active, entry, nextGeneration, handler, now, up, started>>

\* Queue adds a result of the task, unless one is active.
StartRun(k) ==
  LET c == callback[k] IN
  /\ active' = active \cup {c.task}
  /\ started' = [started EXCEPT ![c.task] =
       IF c.task \in active THEN @ ELSE @ \cup {[at |-> c.scheduled, zone |-> c.zone]}]

\* Mutant: the generation is not checked again after the jitter.
FireQueueUnchecked(k) ==
  /\ callback[k].at = "claimed"
  /\ Done(k)
  /\ IF Enabled(callback[k].task) THEN StartRun(k) ELSE UNCHANGED <<active, started>>
  /\ UNCHANGED <<row, last, memory, handler, now, up, claims>>

\* After the jitter: the generation once more and the call of Queue in one
\* critical section.  Queue itself refuses a task that is gone or disabled,
\* and skips the run when its channel is full or an older run is active.
FireQueue(k) ==
  /\ callback[k].at = "claimed"
  /\ Done(k)
  /\ \/ IsCurrent(k) /\ Enabled(callback[k].task) /\ StartRun(k)
     \/ UNCHANGED <<active, started>>
  /\ UNCHANGED <<row, last, memory, handler, now, up, claims>>

-----------------------------------------------------------------------------
(* The rest of the program and the machine *)

\* runTask holds configurationMu while it queues a manual run.
RunTask(t) ==
  /\ up /\ handler.at = "none" /\ Live(t)
  /\ active' = active \cup {t}
  /\ UNCHANGED <<row, last, memory, callback, handler, now, up, history>>

\* The last active result of a task becomes terminal.
RunEnds(t) ==
  /\ t \in active
  /\ active' = active \ {t}
  /\ UNCHANGED <<row, last, memory, callback, handler, now, up, history>>

Tick ==
  /\ now < MaxInstant
  /\ now' = now + 1
  /\ UNCHANGED <<database, memory, callback, handler, up, history>>

\* The process ends, between any two steps of a handler or a callback.
\* Results left active are cancelled by the next start, see Execution.
Halt ==
  /\ up
  /\ up' = FALSE
  /\ entry' = [t \in Tasks |-> None]
  /\ nextGeneration' = 0
  /\ localFire' = [t \in Tasks |-> None]
  /\ callback' = [k \in Callbacks |-> NoCallback]
  /\ handler' = NoHandler
  /\ active' = {}
  /\ UNCHANGED <<row, last, now, history>>

\* Scheduler.Start schedules every enabled task; missed runs are not made up.
Start ==
  /\ ~up
  /\ up' = TRUE
  /\ Reschedule({t \in Tasks : Enabled(t)})
  /\ UNCHANGED <<database, callback, handler, now, history>>

Next ==
  \/ \E t \in Tasks, f \in FieldChoices : CreateTask(t, f) \/ UpdateTask(t, f)
  \/ \E s, t \in Tasks : DuplicateTask(s, t)
  \/ \E t \in Tasks : DeleteTask(t) \/ RunTask(t) \/ RunEnds(t)
  \/ ImportConfiguration \/ HandlerStep \/ Disconnect
  \/ \E k \in Callbacks, t \in Tasks : Launch(k, t)
  \/ \E k \in Callbacks : FirePrepare(k) \/ FireClaim(k) \/ FireQueue(k)
  \/ Tick \/ Halt \/ Start

Spec == Init /\ [][Next]_vars

-----------------------------------------------------------------------------
(* Properties *)

\* Between two requests the cron entries are exactly the enabled tasks of the
\* database, each with the stored expression (docs/architecture.md 59: the
\* scheduler "updates jobs immediately after create, edit, enable, disable,
\* or delete operations").
ScheduleMatchesStore ==
  up /\ handler.at = "none" => \A t \in Tasks :
    /\ entry[t] # None <=> Enabled(t)
    /\ entry[t] # None => entry[t].cron = row[t].fields.cron

\* A run for instant i in zone z repeats the minute of an earlier run, at j,
\* when the clocks of z show it at both and the task has claimed no other minute
\* in between.
Repeats(t, i, z, j) ==
  /\ j < i /\ LocalMinute[z][j] = LocalMinute[z][i]
  /\ \A n \in claims[t] : j < n /\ n < i => LocalMinute[z][n] = LocalMinute[z][i]

\* No activation runs a task twice, although callbacks overlap, sleep for their
\* jitter and overtake each other, and although edits, removals, imports and
\* restarts come between the two: a callback never starts a run for an instant
\* that another one started a run for, nor one that repeats a minute when the
\* clocks were set back (scheduler.go 205-253).  The code looks at the last
\* claim only, hence the last conjunct of Repeats.
NoRunTwice ==
  [][\A k \in Callbacks :
       LET c == callback[k]
           t == c.task IN
       (c.at = "claimed" /\ callback'[k].at = "none" /\ t \in active' \ active) =>
         \A r \in started[t] :
           /\ r.at # c.scheduled
           /\ ~Repeats(t, c.scheduled, c.zone, r.at)
           /\ ~Repeats(t, r.at, r.zone, c.scheduled)]_vars

\* No callback starts a run for a schedule that an edit has replaced, removed
\* or disabled before, however long its jitter was: outside the handler that
\* is editing the task, the run follows the stored expression of an enabled
\* task (scheduler.go 126-130 and 244-254).
RunsFollowStoredSchedule ==
  [][\A k \in Callbacks :
       LET t == callback[k].task IN
       (callback[k].at = "claimed" /\ callback'[k].at = "none" /\ t \in active' \ active
          /\ handler.task # t /\ handler.at \notin {"replace", "reconcile"})
         => Enabled(t) /\ row[t].fields.cron = callback[k].cron]_vars

\* While an import is replacing the configuration no callback starts a run, so
\* the transaction cannot retire a task that has just been queued.
ImportIsQuiet ==
  [][handler.at \in {"replace", "reconcile"} /\ handler'.at \in {"replace", "reconcile"}
       => active' \subseteq active]_vars

\* A deleted or disabled task has no cron entry once the request is over, even
\* if its client went away: failures may lose a schedule, never keep one.
NoGhostEntry ==
  up /\ handler.at = "none" => \A t \in Tasks : entry[t] # None => Enabled(t)
=============================================================================
