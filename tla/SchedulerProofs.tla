--------------------------- MODULE SchedulerProofs ---------------------------
(***************************************************************************)
(* Proofs about the scheduler for any tasks, callbacks, time zones and     *)
(* cron expressions, whether or not clients disconnect and stores fail.    *)
(***************************************************************************)
EXTENDS Scheduler, TLAPS

CallbackRecord ==
  [at : {"none", "launched", "prepared", "claimed"}, task : Tasks \cup {None},
   generation : 0 .. MaxGeneration, cron : SUBSET Instants,
   zone : Zones \cup {None}, scheduled : 0 .. MaxInstant]

HandlerRecord ==
  [at : {"none", "schedule", "undoStore", "undoSchedule", "delete", "restore", "replace",
         "reconcile"},
   task : Tasks \cup {None}, old : Fields \cup {None}, connected : BOOLEAN]

RowsTyped ==
  /\ row \in [Tasks -> Row \cup {None}]
  /\ last \in [Tasks -> 0 .. MaxInstant]
  /\ active \subseteq Tasks

EntriesTyped ==
  /\ entry \in [Tasks -> Entry \cup {None}]
  /\ nextGeneration \in 0 .. MaxGeneration
  /\ localFire \in [Tasks -> Nat \cup {None}]

CallbacksTyped ==
  /\ callback \in [Callbacks -> CallbackRecord]
  /\ \A k \in Callbacks :
       /\ callback[k].at # "none" => callback[k].task \in Tasks
       /\ callback[k].at \in {"prepared", "claimed"} =>
            callback[k].zone \in Zones /\ callback[k].scheduled \in Instants

HandlerTyped ==
  /\ handler \in HandlerRecord
  /\ handler.at \notin {"none", "replace", "reconcile"} =>
       handler.task \in Tasks /\ row[handler.task] # None

MachineTyped == now \in Instants /\ up \in BOOLEAN

HistoryTyped ==
  claims \in [Tasks -> SUBSET Instants] /\ started \in [Tasks -> SUBSET ScheduledRun]

Typed ==
  /\ RowsTyped /\ EntriesTyped /\ CallbacksTyped /\ HandlerTyped /\ MachineTyped
  /\ HistoryTyped

-----------------------------------------------------------------------------
(* The type invariant, part by part *)

\* The local state of nobody.
LEMMA NobodyTyped == NoCallback \in CallbackRecord /\ NoHandler \in HandlerRecord
  BY SchedulerAssumption DEF NoCallback, NoHandler, CallbackRecord, HandlerRecord

\* Every part holds in the initial state.
LEMMA TypedInit == Init => Typed
<1> SUFFICES ASSUME Init PROVE Typed
  OBVIOUS
<1> USE SchedulerAssumption DEF Init
<1>1. RowsTyped
  BY DEF RowsTyped
<1>2. EntriesTyped
  BY DEF EntriesTyped
<1>3. CallbacksTyped
  BY NobodyTyped DEF CallbacksTyped, NoCallback
<1>4. HandlerTyped
  BY NobodyTyped DEF HandlerTyped, NoHandler
<1>5. MachineTyped
  BY DEF MachineTyped, Instants
<1>6. HistoryTyped
  BY DEF HistoryTyped
<1>7. QED
  BY <1>1, <1>2, <1>3, <1>4, <1>5, <1>6 DEF Typed

\* What is stored is a row, and retiring a row leaves one.
LEMMA RowTyped ==
  /\ \A f \in Fields : [live |-> TRUE, fields |-> f] \in Row
  /\ \A r \in Row : Retire(r) \in Row /\ Retire(r).live = FALSE
<1>1. \A f \in Fields : [live |-> TRUE, fields |-> f] \in Row
  BY DEF Row
<1>2. \A f \in Fields : [f EXCEPT !.enabled = FALSE] \in Fields
  BY DEF Fields
<1>3. ASSUME NEW r \in Row
      PROVE  /\ Retire(r).live = FALSE
             /\ Retire(r).fields = [r.fields EXCEPT !.enabled = FALSE]
  BY DEF Retire, Row
<1>4. ASSUME NEW r \in Row PROVE Retire(r) \in Row
  <2>1. Retire(r).fields \in Fields
    BY <1>2, <1>3 DEF Row
  <2>2. QED
    BY <2>1 DEF Retire, Row
<1>5. QED
  BY <1>1, <1>3, <1>4

\* How a step changes the rows: a row is stored, retired or left alone, so no
\* row disappears.
LEMMA RowChange ==
  ASSUME Typed, [Next]_vars
  PROVE  /\ row' \in [Tasks -> Row \cup {None}]
         /\ \A t \in Tasks : row[t] # None => row'[t] # None
<1> USE SchedulerAssumption DEF Typed, RowsTyped
<1> DEFINE Goal == /\ row' \in [Tasks -> Row \cup {None}]
                   /\ \A t \in Tasks : row[t] # None => row'[t] # None
<1>1. ASSUME NEW t \in Tasks, NEW f \in Fields, Store(t, f) PROVE Goal
  BY <1>1, RowTyped DEF Store
<1>2. ASSUME NEW t \in Tasks, row[t] # None, row' = [row EXCEPT ![t] = Retire(@)] PROVE Goal
  BY <1>2, RowTyped
<1>3. ASSUME NEW t \in Tasks, NEW f \in FieldChoices, CreateTask(t, f) \/ UpdateTask(t, f)
      PROVE  Goal
  BY <1>1, <1>3 DEF CreateTask, UpdateTask
<1>4. ASSUME NEW s \in Tasks, NEW t \in Tasks, DuplicateTask(s, t) PROVE Goal
  <2>1. [row[s].fields EXCEPT !.enabled = FALSE] \in Fields
    BY <1>4 DEF DuplicateTask, Live, Row, Fields
  <2>2. QED
    BY <1>1, <1>4, <2>1 DEF DuplicateTask
<1>5. CASE UndoStore
  <2>1. handler.task \in Tasks /\ row[handler.task] # None
    BY <1>5 DEF UndoStore, Proceed, HandlerTyped
  <2>2. handler.old # None => handler.old \in Fields
    BY DEF HandlerTyped, HandlerRecord
  <2>3. QED
    BY <1>1, <1>2, <1>5, <2>1, <2>2 DEF UndoStore
<1>6. CASE DeleteRow
  <2>1. handler.task \in Tasks /\ row[handler.task] # None
    BY <1>6 DEF DeleteRow, Proceed, HandlerTyped
  <2>2. QED
    BY <1>2, <1>6, <2>1 DEF DeleteRow
<1>7. ASSUME NEW imported \in SUBSET Tasks, NEW f \in [Tasks -> FieldChoices],
             ReplaceConfiguration(imported, f)
      PROVE  Goal
  <2>1. \A t \in Tasks : [live |-> TRUE, fields |-> f[t]] \in Row
    BY RowTyped
  <2>2. \A t \in Tasks : Live(t) => Retire(row[t]) \in Row
    BY RowTyped DEF Live
  <2>3. QED
    BY <1>7, <2>1, <2>2 DEF ReplaceConfiguration
<1>8. CASE UNCHANGED row
  BY <1>8
<1>9. QED
  BY <1>3, <1>4, <1>5, <1>6, <1>7, <1>8
  DEF Next, HandlerStep, DeleteTask, RunTask, RunEnds, ImportConfiguration, Disconnect,
      ScheduleTask, UndoSchedule, RestoreSchedule, ReplaceRefused, ReconcileSchedules,
      Launch, FirePrepare, FireClaim, FireQueue, Tick, Halt, Start, vars, database

\* A step keeps the tables typed.
LEMMA RowsStep == Typed /\ [Next]_vars => RowsTyped'
<1> SUFFICES ASSUME Typed, [Next]_vars PROVE RowsTyped'
  OBVIOUS
<1> USE SchedulerAssumption DEF Typed, RowsTyped
<1>1. row' \in [Tasks -> Row \cup {None}]
  BY RowChange
<1>2. ASSUME NEW k \in Callbacks, FireClaim(k) PROVE RowsTyped'
  BY <1>1, <1>2 DEF FireClaim, CallbacksTyped, CallbackRecord, Done
<1>3. ASSUME NEW k \in Callbacks, FireQueue(k) PROVE RowsTyped'
  BY <1>1, <1>3 DEF FireQueue, StartRun, CallbacksTyped
<1>4. ASSUME NEW t \in Tasks, RunTask(t) \/ RunEnds(t) PROVE RowsTyped'
  BY <1>1, <1>4 DEF RunTask, RunEnds
<1>5. CASE Halt
  BY <1>1, <1>5 DEF Halt
<1>6. CASE UNCHANGED <<last, active>>
  BY <1>1, <1>6
<1>7. QED
  BY <1>2, <1>3, <1>4, <1>5, <1>6
  DEF Next, HandlerStep, CreateTask, UpdateTask, DuplicateTask, DeleteTask,
      ImportConfiguration, Disconnect, ScheduleTask, UndoStore, UndoSchedule, DeleteRow,
      RestoreSchedule, ReplaceConfiguration, ReplaceRefused, ReconcileSchedules, Launch,
      FirePrepare, Tick, Start, vars, database

\* Rescheduling and removing give entries.
LEMMA RescheduleTyped ==
  ASSUME Typed, NEW T, Reschedule(T) PROVE EntriesTyped'
<1> USE SchedulerAssumption DEF Typed
<1>1. nextGeneration' \in 0 .. MaxGeneration /\ nextGeneration + 1 \in 1 .. MaxGeneration
  BY DEF Reschedule, EntriesTyped
<1>2. ASSUME NEW t \in Tasks, Enabled(t)
      PROVE  [generation |-> nextGeneration + 1, cron |-> row[t].fields.cron,
              launched |-> now] \in Entry
  BY <1>1, <1>2 DEF Enabled, Live, RowsTyped, Row, Fields, Entry, MachineTyped, Instants
<1>3. entry' \in [Tasks -> Entry \cup {None}]
  BY <1>2 DEF Reschedule, EntriesTyped
<1>4. QED
  BY <1>1, <1>3 DEF Reschedule, EntriesTyped

\* A step keeps the scheduler's tables typed.
LEMMA EntriesStep == Typed /\ [Next]_vars => EntriesTyped'
<1> SUFFICES ASSUME Typed, [Next]_vars PROVE EntriesTyped'
  OBVIOUS
<1> USE SchedulerAssumption DEF Typed, EntriesTyped
<1>1. ASSUME NEW T, Remove(T) PROVE EntriesTyped'
  BY <1>1 DEF Remove
<1>2. ASSUME NEW t, RescheduleFails(t) PROVE EntriesTyped'
  BY <1>2 DEF RescheduleFails
<1>3. ASSUME NEW t \in Tasks, DeleteTask(t) PROVE EntriesTyped'
  BY <1>1, <1>3 DEF DeleteTask
<1>4. CASE ImportConfiguration
  BY <1>1, <1>4 DEF ImportConfiguration
<1>5. CASE ScheduleTask \/ UndoSchedule \/ RestoreSchedule \/ ReconcileSchedules \/ Start
  BY <1>2, <1>5, RescheduleTyped
  DEF ScheduleTask, UndoSchedule, RestoreSchedule, ReconcileSchedules, Start
<1>6. ASSUME NEW k \in Callbacks, NEW t \in Tasks, Launch(k, t) PROVE EntriesTyped'
  <2>1. entry[t] \in Entry /\ now \in 0 .. MaxInstant
    BY <1>6 DEF Launch, MachineTyped, Instants
  <2>2. [entry[t] EXCEPT !.launched = now] \in Entry
    BY <2>1 DEF Entry
  <2>3. QED
    BY <1>6, <2>2 DEF Launch
<1>7. ASSUME NEW k \in Callbacks, FireClaim(k) PROVE EntriesTyped'
  <2>1. callback[k].at = "prepared"
    BY <1>7 DEF FireClaim
  <2>2. LocalMinute[callback[k].zone][callback[k].scheduled] \in Nat
    BY <2>1 DEF CallbacksTyped
  <2>3. QED
    BY <1>7, <2>2 DEF FireClaim
<1>8. CASE Halt
  BY <1>8 DEF Halt
<1>9. CASE UNCHANGED memory
  BY <1>9 DEF memory
<1>10. QED
  BY <1>3, <1>4, <1>5, <1>6, <1>7, <1>8, <1>9
  DEF Next, HandlerStep, CreateTask, UpdateTask, DuplicateTask, RunTask, RunEnds,
      Disconnect, UndoStore, DeleteRow, ReplaceConfiguration, ReplaceRefused,
      FirePrepare, FireQueue, Tick, vars

\* What FirePrepare learns of a zone and an instant.
LEMMA PreparedTyped ==
  ASSUME callback \in [Callbacks -> CallbackRecord], NEW k \in Callbacks,
         NEW z \in Zones, NEW i \in 0 .. MaxInstant,
         callback' = [callback EXCEPT ![k].at = "prepared", ![k].zone = z, ![k].scheduled = i]
  PROVE  callback'[k] \in CallbackRecord
  BY DEF CallbackRecord

\* A step keeps the callbacks typed.
LEMMA CallbacksStep == Typed /\ [Next]_vars => CallbacksTyped'
<1> SUFFICES ASSUME Typed, [Next]_vars PROVE CallbacksTyped'
  OBVIOUS
<1> USE SchedulerAssumption DEF Typed, CallbacksTyped
<1>1. ASSUME NEW k \in Callbacks, NEW r \in CallbackRecord,
             callback' = [callback EXCEPT ![k] = r],
             r.at # "none" => r.task \in Tasks,
             r.at \in {"prepared", "claimed"} => r.zone \in Zones /\ r.scheduled \in Instants
      PROVE  CallbacksTyped'
  BY <1>1
<1>2. ASSUME NEW k \in Callbacks, Done(k) PROVE CallbacksTyped'
  <2>1. NoCallback.at = "none"
    BY DEF NoCallback
  <2>2. QED
    BY <1>1, <1>2, <2>1, NobodyTyped DEF Done
<1>3. ASSUME NEW k \in Callbacks, NEW t \in Tasks, Launch(k, t) PROVE CallbacksTyped'
  <2>1. PICK r : r = [NoCallback EXCEPT !.at = "launched", !.task = t,
                        !.generation = entry[t].generation, !.cron = entry[t].cron]
    OBVIOUS
  <2>2. entry[t] \in Entry
    BY <1>3 DEF Launch, EntriesTyped
  <2>3. entry[t].generation \in 0 .. MaxGeneration /\ entry[t].cron \in SUBSET Instants
    BY <2>2 DEF Entry
  <2>4. r \in CallbackRecord /\ r.at = "launched" /\ r.task = t
    BY <2>1, <2>3, NobodyTyped DEF CallbackRecord
  <2>5. QED
    BY <1>1, <1>3, <2>1, <2>4 DEF Launch
<1>4. ASSUME NEW k \in Callbacks, FirePrepare(k) PROVE CallbacksTyped'
  <2>1. callback[k].task \in Tasks
    BY <1>4 DEF FirePrepare
  <2>2. CASE /\ Enabled(callback[k].task)
             /\ callback' = [callback EXCEPT ![k].at = "prepared",
                               ![k].zone = row[callback[k].task].fields.zone,
                               ![k].scheduled = now]
    <3>1. row[callback[k].task].fields.zone \in Zones
      BY <2>1, <2>2 DEF Enabled, Live, RowsTyped, Row, Fields
    <3>2. /\ \A j \in Callbacks \ {k} : callback'[j] = callback[j]
          /\ callback' = [j \in Callbacks |-> callback'[j]]
      BY <2>2
    <3>3. /\ callback'[k].at = "prepared" /\ callback'[k].task = callback[k].task
          /\ callback'[k].zone \in Zones /\ callback'[k].scheduled \in Instants
      BY <2>2, <3>1 DEF CallbackRecord, MachineTyped
    <3>4. now \in 0 .. MaxInstant
      BY DEF MachineTyped, Instants
    <3>5. callback'[k] \in CallbackRecord
      BY <2>2, <3>1, <3>4, PreparedTyped
    <3>6. QED
      BY <2>1, <3>2, <3>3, <3>5
  <2>3. QED
    BY <1>2, <1>4, <2>2 DEF FirePrepare
<1>5. ASSUME NEW k \in Callbacks, FireClaim(k) PROVE CallbacksTyped'
  <2>1. callback[k].at = "prepared"
    BY <1>5 DEF FireClaim
  <2>2. PICK r : r = [callback[k] EXCEPT !.at = "claimed"]
    OBVIOUS
  <2>3. r \in CallbackRecord /\ r.task \in Tasks /\ r.zone \in Zones /\ r.scheduled \in Instants
    BY <2>1, <2>2 DEF CallbackRecord
  <2>4. callback' = [callback EXCEPT ![k] = r] \/ Done(k)
    BY <1>5, <2>2 DEF FireClaim
  <2>5. QED
    BY <1>1, <1>2, <2>3, <2>4
<1>6. ASSUME NEW k \in Callbacks, FireQueue(k) PROVE CallbacksTyped'
  BY <1>2, <1>6 DEF FireQueue
<1>7. CASE Halt
  BY <1>7, NobodyTyped DEF Halt, NoCallback
<1>8. CASE UNCHANGED callback
  BY <1>8
<1>9. QED
  BY <1>3, <1>4, <1>5, <1>6, <1>7, <1>8
  DEF Next, HandlerStep, CreateTask, UpdateTask, DuplicateTask, DeleteTask, RunTask, RunEnds,
      ImportConfiguration, Disconnect, ScheduleTask, UndoStore, UndoSchedule, DeleteRow,
      RestoreSchedule, ReplaceConfiguration, ReplaceRefused, ReconcileSchedules, Tick,
      Start, vars

\* A step keeps the handler typed.
LEMMA HandlerTypedStep == Typed /\ [Next]_vars => HandlerTyped'
<1> SUFFICES ASSUME Typed, [Next]_vars PROVE HandlerTyped'
  OBVIOUS
<1> USE SchedulerAssumption DEF Typed, HandlerTyped
<1>1. \A t \in Tasks : row[t] # None => row'[t] # None
  BY RowChange
<1>2. ASSUME handler' = NoHandler PROVE HandlerTyped'
  BY <1>2, NobodyTyped DEF NoHandler
<1>3. ASSUME NEW from, NEW to \in {"none", "undoStore", "undoSchedule", "restore"},
             from \in {"schedule", "undoStore", "undoSchedule", "delete", "restore"},
             Proceed(from, to)
      PROVE  HandlerTyped'
  BY <1>1, <1>2, <1>3 DEF Proceed, HandlerRecord
<1>4. ASSUME Proceed("replace", "reconcile") \/ Proceed("reconcile", "none")
      PROVE  HandlerTyped'
  BY <1>2, <1>4 DEF Proceed, HandlerRecord
<1>5. ASSUME NEW t \in Tasks, NEW f \in FieldChoices, CreateTask(t, f) PROVE HandlerTyped'
  BY <1>5, RowTyped DEF CreateTask, Begin, Store, HandlerRecord, RowsTyped
<1>6. ASSUME NEW t \in Tasks, NEW f \in FieldChoices, UpdateTask(t, f) PROVE HandlerTyped'
  BY <1>1, <1>6 DEF UpdateTask, Begin, Live, HandlerRecord, RowsTyped, Row
<1>7. ASSUME NEW t \in Tasks, DeleteTask(t) PROVE HandlerTyped'
  BY <1>1, <1>7 DEF DeleteTask, Begin, Live, HandlerRecord
<1>8. CASE ImportConfiguration
  BY <1>8 DEF ImportConfiguration, Begin, HandlerRecord
<1>9. CASE Disconnect
  BY <1>1, <1>9 DEF Disconnect, HandlerRecord
<1>10. CASE HandlerStep
  BY <1>3, <1>4, <1>10
  DEF HandlerStep, ScheduleTask, UndoStore, UndoSchedule, DeleteRow, RestoreSchedule,
      ReplaceConfiguration, ReplaceRefused, ReconcileSchedules
<1>11. CASE Halt
  BY <1>2, <1>11 DEF Halt
<1>12. CASE UNCHANGED handler
  BY <1>1, <1>12
<1>13. QED
  BY <1>5, <1>6, <1>7, <1>8, <1>9, <1>10, <1>11, <1>12
  DEF Next, DuplicateTask, RunTask, RunEnds, Launch, FirePrepare, FireClaim, FireQueue,
      Tick, Start, vars

\* A step keeps the clock and the process typed.
LEMMA MachineStep == Typed /\ [Next]_vars => MachineTyped'
<1> SUFFICES ASSUME Typed, [Next]_vars PROVE MachineTyped'
  OBVIOUS
<1> USE SchedulerAssumption DEF Typed, MachineTyped, Instants
<1>1. CASE Tick
  BY <1>1 DEF Tick
<1>2. CASE Halt \/ Start
  BY <1>2 DEF Halt, Start
<1>3. CASE UNCHANGED <<now, up>>
  BY <1>3
<1>4. QED
  BY <1>1, <1>2, <1>3
  DEF Next, HandlerStep, CreateTask, UpdateTask, DuplicateTask, DeleteTask, RunTask, RunEnds,
      ImportConfiguration, Disconnect, ScheduleTask, UndoStore, UndoSchedule, DeleteRow,
      RestoreSchedule, ReplaceConfiguration, ReplaceRefused, ReconcileSchedules, Launch,
      FirePrepare, FireClaim, FireQueue, vars

\* The steps that change the history.
LEMMA HistoryMoves ==
  ASSUME [Next]_vars
  PROVE  UNCHANGED history \/ \E k \in Callbacks : FireClaim(k) \/ FireQueue(k)
  BY DEF Next, HandlerStep, CreateTask, UpdateTask, DuplicateTask, DeleteTask, RunTask, RunEnds,
      ImportConfiguration, Disconnect, ScheduleTask, UndoStore, UndoSchedule, DeleteRow,
      RestoreSchedule, ReplaceConfiguration, ReplaceRefused, ReconcileSchedules, Launch,
      FirePrepare, Tick, Halt, Start, vars

\* A callback that wants to claim its minute is over, or has its claim.
LEMMA ClaimOutcome ==
  ASSUME NEW k \in Callbacks, FireClaim(k)
  PROVE  /\ callback[k].at = "prepared" /\ started' = started
         /\ \/ Done(k) /\ UNCHANGED <<last, claims>>
            \/ /\ ~IsDuplicate(k) /\ callback[k].scheduled > last[callback[k].task]
               /\ last' = [last EXCEPT ![callback[k].task] = callback[k].scheduled]
               /\ claims' = [claims EXCEPT ![callback[k].task] =
                                @ \cup {callback[k].scheduled}]
               /\ callback' = [callback EXCEPT ![k].at = "claimed"]
  BY Zenon DEF FireClaim

\* A step keeps the history typed.
LEMMA HistoryStep == Typed /\ [Next]_vars => HistoryTyped'
<1> SUFFICES ASSUME Typed, [Next]_vars PROVE HistoryTyped'
  OBVIOUS
<1> USE DEF Typed, HistoryTyped
<1>1. ASSUME NEW k \in Callbacks, callback[k].at \in {"prepared", "claimed"}
      PROVE  /\ callback[k].scheduled \in Instants
             /\ [at |-> callback[k].scheduled, zone |-> callback[k].zone] \in ScheduledRun
  BY <1>1 DEF CallbacksTyped, ScheduledRun
<1>2. ASSUME NEW k \in Callbacks, FireClaim(k) PROVE HistoryTyped'
  <2>1. callback[k].scheduled \in Instants
    BY <1>1, <1>2, ClaimOutcome
  <2>2. QED
    BY <1>2, <2>1, ClaimOutcome
<1>3. ASSUME NEW k \in Callbacks, FireQueue(k) PROVE HistoryTyped'
  BY <1>1, <1>3 DEF FireQueue, StartRun
<1>4. QED
  BY <1>2, <1>3, HistoryMoves DEF history

\* The types are kept.
LEMMA TypedStep == Typed /\ [Next]_vars => Typed'
  BY RowsStep, EntriesStep, CallbacksStep, HandlerTypedStep, MachineStep, HistoryStep DEF Typed

\* The type invariant of the scheduler: the handlers refer to rows that exist,
\* a callback past its first look knows its zone and its minute.
THEOREM SchedulerTyped == Spec => []TypeOK
<1>1. Typed => TypeOK
  BY DEF Typed, TypeOK, RowsTyped, EntriesTyped, CallbacksTyped, CallbackRecord,
         HandlerTyped, HandlerRecord, MachineTyped, HistoryTyped
<1>2. QED
  BY <1>1, TypedInit, TypedStep, PTL DEF Spec

-----------------------------------------------------------------------------
(* The entries and the stored tasks *)

\* A process that has ended leaves nothing but the database.
StoppedIsEmpty ==
  ~up => /\ entry = [t \in Tasks |-> None]
         /\ nextGeneration = 0
         /\ callback = [k \in Callbacks |-> NoCallback]
         /\ handler = NoHandler

\* A handler that deletes a task or undoes an edit has the task off the
\* schedule, an import all of them.
OffSchedule ==
  /\ handler.at \in {"undoStore", "undoSchedule", "delete", "restore"}
       => entry[handler.task] = None
  /\ handler.at \in {"replace", "reconcile"} => \A t \in Tasks : entry[t] = None

Stored(t) == Enabled(t) /\ entry[t].cron = row[t].fields.cron

\* The only entry that may differ from its row is that of a task whose row an
\* edit has just written.
EntriesStored ==
  \A t \in Tasks :
    entry[t] # None => Stored(t) \/ (handler.at = "schedule" /\ handler.task = t)

\* No callback is of a generation that is still to come, and one of the
\* current generation was launched for the current expression.
CallbacksDated ==
  \A t \in Tasks :
    /\ entry[t] # None => entry[t].generation <= nextGeneration
    /\ \A k \in Callbacks : (callback[k].at # "none" /\ callback[k].task = t) =>
         /\ callback[k].generation <= nextGeneration
         /\ (entry[t] # None /\ entry[t].generation = callback[k].generation)
              => entry[t].cron = callback[k].cron

ScheduleInv ==
  /\ Typed
  /\ StoppedIsEmpty
  /\ OffSchedule
  /\ EntriesStored
  /\ CallbacksDated

\* What Reschedule does to each entry.
LEMMA Rescheduled ==
  ASSUME Typed, NEW T, Reschedule(T), NEW t \in Tasks
  PROVE  /\ t \notin T => entry'[t] = entry[t]
         /\ t \in T /\ ~Enabled(t) => entry'[t] = None
         /\ t \in T /\ Enabled(t) =>
              /\ entry'[t] # None
              /\ entry'[t].generation = nextGeneration + 1
              /\ entry'[t].cron = row[t].fields.cron
<1>1. entry'[t] = IF t \notin T THEN entry[t]
                  ELSE IF Enabled(t)
                       THEN [generation |-> nextGeneration + 1, cron |-> row[t].fields.cron,
                             launched |-> now]
                       ELSE None
  BY DEF Reschedule
<1>2. ASSUME Enabled(t)
      PROVE  [generation |-> nextGeneration + 1, cron |-> row[t].fields.cron,
              launched |-> now] \in Entry
  BY <1>2, SchedulerAssumption
  DEF Reschedule, Typed, EntriesTyped, Enabled, Live, RowsTyped, Row, Fields, Entry,
      MachineTyped, Instants
<1>3. QED
  BY <1>1, <1>2, SchedulerAssumption

\* A step keeps a stopped process empty.
LEMMA StoppedStep == Typed /\ StoppedIsEmpty /\ [Next]_vars => StoppedIsEmpty'
<1> SUFFICES ASSUME Typed, StoppedIsEmpty, [Next]_vars, ~up' PROVE StoppedIsEmpty'
  BY DEF StoppedIsEmpty
<1>1. CASE Halt
  BY <1>1 DEF Halt, StoppedIsEmpty
<1>2. CASE Start
  BY <1>2 DEF Start
<1>3. CASE up /\ ~Halt
  <2>1. up' = up
    BY <1>2, <1>3
    DEF Next, HandlerStep, CreateTask, UpdateTask, DuplicateTask, DeleteTask, RunTask,
        RunEnds, ImportConfiguration, Disconnect, ScheduleTask, UndoStore, UndoSchedule,
        DeleteRow, RestoreSchedule, ReplaceConfiguration, ReplaceRefused,
        ReconcileSchedules, Launch, FirePrepare, FireClaim, FireQueue, Tick, Start, vars
  <2>2. QED
    BY <1>3, <2>1
<1>4. CASE ~up /\ ~Start
  <2>1. handler.at = "none" /\ \A k \in Callbacks : callback[k].at = "none"
    BY <1>4 DEF StoppedIsEmpty, NoHandler, NoCallback
  <2>2. UNCHANGED <<memory, callback, handler>>
    BY <1>4, <2>1
    DEF Next, HandlerStep, Begin, Proceed, CreateTask, UpdateTask, DuplicateTask,
        DeleteTask, RunTask, RunEnds, ImportConfiguration, Disconnect, ScheduleTask,
        UndoStore, UndoSchedule, DeleteRow, RestoreSchedule, ReplaceConfiguration,
        ReplaceRefused, ReconcileSchedules, Launch, FirePrepare, FireClaim, FireQueue, Tick,
        Halt, vars
  <2>3. QED
    BY <1>4, <2>2 DEF StoppedIsEmpty, memory
<1>5. QED
  BY <1>1, <1>2, <1>3, <1>4

\* A step keeps the schedule as far down as its handler has taken it.
LEMMA OffScheduleStep == ScheduleInv /\ [Next]_vars => OffSchedule'
<1> SUFFICES ASSUME ScheduleInv, [Next]_vars PROVE OffSchedule'
  OBVIOUS
<1> USE SchedulerAssumption DEF ScheduleInv, OffSchedule
<1>1. ASSUME handler'.at \in {"none", "schedule"} PROVE OffSchedule'
  BY <1>1
<1>2. ASSUME handler' = NoHandler PROVE OffSchedule'
  BY <1>1, <1>2 DEF NoHandler
<1>3. ASSUME NEW t \in Tasks, NEW f \in FieldChoices, CreateTask(t, f) \/ UpdateTask(t, f)
      PROVE  OffSchedule'
  BY <1>1, <1>3 DEF CreateTask, UpdateTask, Begin
<1>4. ASSUME NEW t \in Tasks, DeleteTask(t) PROVE OffSchedule'
  BY <1>4 DEF DeleteTask, Begin, Remove
<1>5. CASE ImportConfiguration
  BY <1>5 DEF ImportConfiguration, Begin, Remove
<1>6. CASE Disconnect
  <2>1. handler'.at = handler.at /\ handler'.task = handler.task /\ entry' = entry
    BY <1>6 DEF Disconnect, memory, Typed, HandlerTyped, HandlerRecord
  <2>2. QED
    BY <2>1
<1>7. CASE ScheduleTask
  <2>1. ASSUME Proceed("schedule", "undoStore"), RescheduleFails(handler.task)
        PROVE  OffSchedule'
    <3>1. handler'.at = "undoStore" /\ handler'.task = handler.task /\ handler.task \in Tasks
      BY <2>1 DEF Proceed, Typed, HandlerTyped, HandlerRecord
    <3>2. entry'[handler.task] = None
      BY <2>1, <3>1 DEF RescheduleFails, Typed, EntriesTyped
    <3>3. QED
      BY <3>1, <3>2
  <2>2. QED
    BY <1>2, <1>7, <2>1 DEF ScheduleTask, Proceed
<1>8. CASE UndoStore
  <2>1. /\ handler.at = "undoStore" /\ entry' = entry
        /\ handler' = NoHandler \/ handler' = [handler EXCEPT !.at = "undoSchedule"]
    BY <1>8 DEF UndoStore, Proceed, memory
  <2>2. QED
    BY <1>2, <2>1 DEF Typed, HandlerTyped, HandlerRecord
<1>9. CASE DeleteRow
  <2>1. /\ handler.at = "delete" /\ entry' = entry
        /\ handler' = NoHandler \/ handler' = [handler EXCEPT !.at = "restore"]
    BY <1>9 DEF DeleteRow, Proceed, memory
  <2>2. QED
    BY <1>2, <2>1 DEF Typed, HandlerTyped, HandlerRecord
<1>10. CASE \/ ReplaceRefused
            \/ \E imported \in SUBSET Tasks, f \in [Tasks -> FieldChoices] :
                 ReplaceConfiguration(imported, f)
  <2>1. /\ handler.at = "replace" /\ entry' = entry
        /\ handler' = [handler EXCEPT !.at = "reconcile"]
    BY <1>10 DEF ReplaceRefused, ReplaceConfiguration, Proceed, memory
  <2>2. QED
    BY <2>1 DEF Typed, HandlerTyped, HandlerRecord
<1>11. CASE UndoSchedule \/ RestoreSchedule \/ ReconcileSchedules \/ Halt
  BY <1>2, <1>11 DEF UndoSchedule, RestoreSchedule, ReconcileSchedules, Halt, Proceed
<1>12. ASSUME NEW k \in Callbacks, NEW t \in Tasks, Launch(k, t) PROVE OffSchedule'
  <2>1. entry[t] # None /\ handler' = handler
    BY <1>12 DEF Launch
  <2>2. \A s \in Tasks \ {t} : entry'[s] = entry[s]
    BY <1>12 DEF Launch, Typed, EntriesTyped
  <2>3. QED
    BY <2>1, <2>2 DEF Typed, HandlerTyped
<1>13. CASE Start
  BY <1>2, <1>13 DEF Start, StoppedIsEmpty
<1>14. CASE UNCHANGED <<entry, handler>>
  BY <1>14
<1>15. QED
  BY <1>3, <1>4, <1>5, <1>6, <1>7, <1>8, <1>9, <1>10, <1>11, <1>12, <1>13, <1>14
  DEF Next, HandlerStep, DuplicateTask, RunTask, RunEnds, FirePrepare, FireClaim, FireQueue,
      Tick, vars, memory

\* A step keeps the entries in line with the rows.
LEMMA EntriesStoredStep == ScheduleInv /\ [Next]_vars => EntriesStored'
<1> SUFFICES ASSUME ScheduleInv, [Next]_vars, NEW t \in Tasks, entry'[t] # None
             PROVE  Stored(t)' \/ (handler'.at = "schedule" /\ handler'.task = t)
  BY DEF EntriesStored
<1> DEFINE Goal == Stored(t)' \/ (handler'.at = "schedule" /\ handler'.task = t)
<1> USE SchedulerAssumption DEF ScheduleInv
<1>1. ASSUME Stored(t), entry'[t] = entry[t], row'[t] = row[t] PROVE Goal
  BY <1>1 DEF Stored, Enabled, Live
<1>2. entry[t] # None => Stored(t) \/ (handler.at = "schedule" /\ handler.task = t)
  BY DEF EntriesStored
<1>3. ASSUME NEW T, Reschedule(T), UNCHANGED row,
             t \in T \/ entry[t] = None \/ Stored(t)
      PROVE  Goal
  <2>1. CASE t \in T
    BY <1>3, <2>1, Rescheduled DEF Stored, Enabled, Live
  <2>2. CASE t \notin T
    BY <1>1, <1>3, <2>2, Rescheduled
  <2>3. QED
    BY <2>1, <2>2
<1>4. ASSUME NEW s \in Tasks, NEW f \in FieldChoices, CreateTask(s, f) \/ UpdateTask(s, f)
      PROVE  Goal
  <2>1. handler.at = "none" /\ handler'.at = "schedule" /\ handler'.task = s /\ entry' = entry
    BY <1>4 DEF CreateTask, UpdateTask, Begin, memory
  <2>2. CASE s = t
    BY <2>1, <2>2
  <2>3. CASE s # t
    <3>1. row'[t] = row[t]
      BY <1>4, <2>3 DEF CreateTask, UpdateTask, Store, Typed, RowsTyped
    <3>2. QED
      BY <1>1, <1>2, <2>1, <3>1
  <2>4. QED
    BY <2>2, <2>3
<1>5. ASSUME NEW r \in Tasks, NEW s \in Tasks, DuplicateTask(r, s) PROVE Goal
  <2>1. handler.at = "none" /\ row[s] = None /\ entry' = entry
    BY <1>5 DEF DuplicateTask, memory
  <2>2. s # t
    BY <1>2, <2>1 DEF Stored, Enabled, Live
  <2>3. row'[t] = row[t]
    BY <1>5, <2>2 DEF DuplicateTask, Store, Typed, RowsTyped
  <2>4. QED
    BY <1>1, <1>2, <2>1, <2>3
<1>6. ASSUME NEW T, Remove(T), handler.at = "none", UNCHANGED row PROVE Goal
  BY <1>1, <1>2, <1>6 DEF Remove
<1>7. ASSUME NEW s \in Tasks, DeleteTask(s) PROVE Goal
  BY <1>6, <1>7 DEF DeleteTask, Begin, database
<1>8. CASE ImportConfiguration
  BY <1>6, <1>8 DEF ImportConfiguration, Begin, database
<1>9. CASE Disconnect
  <2>1. handler'.at = handler.at /\ handler'.task = handler.task
    BY <1>9 DEF Disconnect, Typed, HandlerTyped, HandlerRecord
  <2>2. entry' = entry /\ row' = row
    BY <1>9 DEF Disconnect, memory, database
  <2>3. QED
    BY <1>1, <1>2, <2>1, <2>2
<1>10. ASSUME RescheduleFails(handler.task), UNCHANGED row, handler.task \in Tasks,
              t = handler.task \/ entry[t] = None \/ Stored(t)
       PROVE  Goal
  BY <1>1, <1>10 DEF RescheduleFails, Typed, EntriesTyped
<1>11. CASE ScheduleTask
  <2>1. handler.at = "schedule" /\ handler.task \in Tasks /\ row' = row
    BY <1>11 DEF ScheduleTask, Proceed, database, Typed, HandlerTyped
  <2>2. QED
    BY <1>2, <1>3, <1>10, <1>11, <2>1 DEF ScheduleTask
<1>12. CASE UndoSchedule \/ RestoreSchedule
  <2>1. /\ handler.at \in {"undoSchedule", "restore"}
        /\ handler.task \in Tasks /\ row' = row
    BY <1>12 DEF UndoSchedule, RestoreSchedule, Proceed, database, Typed, HandlerTyped
  <2>2. QED
    BY <1>2, <1>3, <1>10, <1>12, <2>1 DEF UndoSchedule, RestoreSchedule
<1>13. CASE UndoStore \/ DeleteRow
  <2>1. /\ handler.at \in {"undoStore", "delete"} /\ handler.task \in Tasks
        /\ entry' = entry
    BY <1>13 DEF UndoStore, DeleteRow, Proceed, memory, Typed, HandlerTyped
  <2>2. t # handler.task
    BY <2>1 DEF OffSchedule
  <2>3. row'[t] = row[t]
    BY <1>13, <2>1, <2>2 DEF UndoStore, DeleteRow, Store, Typed, RowsTyped
  <2>4. QED
    BY <1>1, <1>2, <2>1, <2>2, <2>3
<1>14. CASE \/ ReplaceRefused
            \/ \E imported \in SUBSET Tasks, f \in [Tasks -> FieldChoices] :
                 ReplaceConfiguration(imported, f)
  BY <1>14 DEF ReplaceRefused, ReplaceConfiguration, Proceed, memory, OffSchedule
<1>15. CASE ReconcileSchedules
  <2>1. entry[t] = None /\ row' = row /\ \E T : Reschedule(T)
    BY <1>15 DEF ReconcileSchedules, Proceed, database, OffSchedule
  <2>2. QED
    BY <1>3, <2>1
<1>16. ASSUME NEW k \in Callbacks, NEW s \in Tasks, Launch(k, s) PROVE Goal
  <2>1. entry[s] # None /\ entry[s] \in Entry /\ row' = row /\ handler' = handler
    BY <1>16 DEF Launch, database, Typed, EntriesTyped
  <2>2. entry[t] # None /\ entry'[t].cron = entry[t].cron
    BY <1>16, <2>1 DEF Launch, Typed, EntriesTyped, Entry
  <2>3. QED
    BY <1>2, <2>1, <2>2 DEF Stored, Enabled, Live
<1>17. CASE Halt
  BY <1>17 DEF Halt
<1>18. CASE Start
  <2>1. entry[t] = None /\ row' = row
    BY <1>18 DEF Start, StoppedIsEmpty, database
  <2>2. QED
    BY <1>3, <1>18, <2>1 DEF Start
<1>19. CASE UNCHANGED <<entry, row, handler>>
  BY <1>1, <1>2, <1>19
<1>20. QED
  BY <1>4, <1>5, <1>7, <1>8, <1>9, <1>11, <1>12, <1>13, <1>14, <1>15, <1>16, <1>17, <1>18, <1>19
  DEF Next, HandlerStep, RunTask, RunEnds, FirePrepare, FireClaim, FireQueue, Tick, vars,
      memory, database

\* A callback keeps what it was launched with until it is over.
LEMMA CallbackKeepsOrigin ==
  ASSUME Typed, NEW k \in Callbacks, FirePrepare(k) \/ FireClaim(k) \/ FireQueue(k),
         NEW j \in Callbacks, callback'[j].at # "none"
  PROVE  /\ callback[j].at # "none"
         /\ callback'[j].task = callback[j].task
         /\ callback'[j].generation = callback[j].generation
         /\ callback'[j].cron = callback[j].cron
<1>1. callback \in [Callbacks -> CallbackRecord]
  BY DEF Typed, CallbacksTyped
<1>2. ASSUME Done(k)
      PROVE  callback'[j] = callback[j]
  BY <1>1, <1>2 DEF Done, NoCallback
<1>3. CASE j # k
  BY <1>1, <1>3 DEF FirePrepare, FireClaim, FireQueue, Done
<1>4. CASE j = k
  <2>1. callback[k].at # "none"
    BY DEF FirePrepare, FireClaim, FireQueue
  <2>2. CASE FirePrepare(k)
    BY <1>1, <1>2, <1>4, <2>1, <2>2 DEF FirePrepare, CallbackRecord
  <2>3. CASE FireClaim(k)
    BY <1>1, <1>2, <1>4, <2>1, <2>3 DEF FireClaim, CallbackRecord
  <2>4. CASE FireQueue(k)
    BY <1>1, <1>2, <1>4, <2>1, <2>4 DEF FireQueue
  <2>5. QED
    BY <2>2, <2>3, <2>4
<1>5. QED
  BY <1>3, <1>4

\* A step keeps the generations apart: Reschedule takes one that no callback has.
LEMMA CallbacksDatedStep == ScheduleInv /\ [Next]_vars => CallbacksDated'
<1> SUFFICES ASSUME ScheduleInv, [Next]_vars PROVE CallbacksDated'
  OBVIOUS
<1> USE SchedulerAssumption DEF ScheduleInv
<1>1. /\ entry \in [Tasks -> Entry \cup {None}] /\ callback \in [Callbacks -> CallbackRecord]
      /\ nextGeneration \in Nat
  BY DEF Typed, EntriesTyped, CallbacksTyped
<1>2. ASSUME nextGeneration' = nextGeneration, callback' = callback,
             \A t \in Tasks : entry'[t] \in {entry[t], None}
      PROVE  CallbacksDated'
  BY <1>2 DEF CallbacksDated
<1>3. ASSUME NEW T, Reschedule(T), callback' = callback PROVE CallbacksDated'
  <2>1. nextGeneration' = nextGeneration + 1
    BY <1>3 DEF Reschedule
  <2>2. ASSUME NEW t \in Tasks, entry'[t] # None
        PROVE  \/ entry'[t] = entry[t]
               \/ entry'[t].generation = nextGeneration + 1
    BY <1>3, <2>2, Rescheduled
  <2>3. ASSUME NEW t \in Tasks, entry'[t] # None
        PROVE  entry'[t].generation <= nextGeneration'
    BY <1>1, <2>1, <2>2, <2>3 DEF CallbacksDated, Entry
  <2>4. ASSUME NEW t \in Tasks, NEW k \in Callbacks, callback[k].at # "none", callback[k].task = t
        PROVE  /\ callback[k].generation <= nextGeneration'
               /\ callback[k].generation # nextGeneration + 1
    <3>1. callback[k].generation \in Int /\ callback[k].generation <= nextGeneration
      BY <1>1, <2>4 DEF CallbacksDated, CallbackRecord
    <3>2. QED
      BY <1>1, <2>1, <3>1
  <2>5. QED
    BY <1>3, <2>2, <2>3, <2>4 DEF CallbacksDated
<1>4. ASSUME NEW t, RescheduleFails(t), callback' = callback PROVE CallbacksDated'
  BY <1>1, <1>2, <1>4 DEF RescheduleFails
<1>5. ASSUME NEW T, Remove(T), callback' = callback PROVE CallbacksDated'
  BY <1>2, <1>5 DEF Remove
<1>6. CASE \/ ScheduleTask \/ UndoSchedule \/ RestoreSchedule \/ ReconcileSchedules \/ Start
           \/ ImportConfiguration \/ \E t \in Tasks : DeleteTask(t)
  BY <1>3, <1>4, <1>5, <1>6
  DEF ScheduleTask, UndoSchedule, RestoreSchedule, ReconcileSchedules, Start,
      ImportConfiguration, DeleteTask
<1>7. ASSUME NEW k \in Callbacks, NEW t \in Tasks, Launch(k, t) PROVE CallbacksDated'
  <2>1. entry[t] # None /\ entry[t] \in Entry /\ nextGeneration' = nextGeneration
    BY <1>1, <1>7 DEF Launch
  <2>2. \A s \in Tasks : /\ entry'[s] # None => entry[s] # None
                         /\ entry'[s] # None => entry'[s].generation = entry[s].generation
                         /\ entry'[s] # None => entry'[s].cron = entry[s].cron
    BY <1>1, <1>7, <2>1 DEF Launch, Entry
  <2>3. \A j \in Callbacks \ {k} : callback'[j] = callback[j]
    BY <1>1, <1>7 DEF Launch
  <2>4. /\ callback'[k].task = t
        /\ callback'[k].generation = entry[t].generation
        /\ callback'[k].cron = entry[t].cron
    BY <1>1, <1>7 DEF Launch, NoCallback
  <2>5. QED
    BY <2>1, <2>2, <2>3, <2>4 DEF CallbacksDated
<1>8. ASSUME NEW k \in Callbacks, FirePrepare(k) \/ FireClaim(k) \/ FireQueue(k)
      PROVE  CallbacksDated'
  <2>1. entry' = entry /\ nextGeneration' = nextGeneration
    BY <1>8 DEF FirePrepare, FireClaim, FireQueue, memory
  <2>2. QED
    BY <1>8, <2>1, CallbackKeepsOrigin DEF CallbacksDated
<1>9. CASE Halt
  BY <1>9 DEF Halt, CallbacksDated, NoCallback
<1>10. CASE UNCHANGED <<memory, callback>>
  BY <1>2, <1>10 DEF memory
<1>11. QED
  BY <1>6, <1>7, <1>8, <1>9, <1>10
  DEF Next, HandlerStep, CreateTask, UpdateTask, DuplicateTask, RunTask, RunEnds, Disconnect,
      UndoStore, DeleteRow, ReplaceConfiguration, ReplaceRefused, Tick, vars

\* The invariant of the scheduler is inductive.
LEMMA ScheduleInvAlways == Spec => []ScheduleInv
<1>1. Init => ScheduleInv
  <2> SUFFICES ASSUME Init PROVE ScheduleInv
    OBVIOUS
  <2>1. StoppedIsEmpty /\ OffSchedule /\ EntriesStored
    BY DEF Init, StoppedIsEmpty, OffSchedule, EntriesStored, NoHandler
  <2>2. CallbacksDated
    BY DEF Init, CallbacksDated, NoCallback
  <2>3. QED
    BY <2>1, <2>2, TypedInit DEF ScheduleInv
<1>2. ScheduleInv /\ [Next]_vars => ScheduleInv'
  BY TypedStep, StoppedStep, OffScheduleStep, EntriesStoredStep, CallbacksDatedStep
  DEF ScheduleInv
<1>3. QED
  BY <1>1, <1>2, PTL DEF Spec

\* When a request is over, whatever failed in it and whether or not its client
\* stayed, a task that is deleted or disabled has no cron entry.
THEOREM SchedulerKeepsNoGhost == Spec => []NoGhostEntry
<1>1. ScheduleInv => NoGhostEntry
  BY DEF ScheduleInv, EntriesStored, Stored, NoGhostEntry
<1>2. QED
  BY <1>1, ScheduleInvAlways, PTL

-----------------------------------------------------------------------------
(* What a callback may do *)

\* The steps that change a callback.
LEMMA CallbackMoves ==
  ASSUME Typed, [Next]_vars, NEW k \in Callbacks, callback'[k] # callback[k]
  PROVE  \/ Halt
         \/ FirePrepare(k) \/ FireClaim(k) \/ FireQueue(k) \/ \E t \in Tasks : Launch(k, t)
<1>1. callback \in [Callbacks -> CallbackRecord]
  BY DEF Typed, CallbacksTyped
<1>2. ASSUME NEW j \in Callbacks, j # k,
             FirePrepare(j) \/ FireClaim(j) \/ FireQueue(j) \/ \E t \in Tasks : Launch(j, t)
      PROVE  FALSE
  BY <1>1, <1>2 DEF FirePrepare, FireClaim, FireQueue, Launch, Done
<1>3. QED
  BY <1>2
  DEF Next, HandlerStep, CreateTask, UpdateTask, DuplicateTask, DeleteTask, RunTask, RunEnds,
      ImportConfiguration, Disconnect, ScheduleTask, UndoStore, UndoSchedule, DeleteRow,
      RestoreSchedule, ReplaceConfiguration, ReplaceRefused, ReconcileSchedules, Tick, Start,
      vars

-----------------------------------------------------------------------------
(* Claims and the runs they lead to *)

\* The persisted claim is the latest.
LatestClaim ==
  \A t \in Tasks :
    /\ last[t] # 0 => last[t] \in claims[t]
    /\ \A i \in claims[t] : i <= last[t]

\* Instant i of zone z repeats no claim.
Fresh(t, i, z) == \A j \in claims[t] : ~Repeats(t, i, z, j)

\* A callback that sleeps has a claim of its own, and nothing ran for it yet.
Awaits(k) ==
  LET c == callback[k] IN
  /\ c.scheduled \in claims[c.task] /\ Fresh(c.task, c.scheduled, c.zone)
  /\ \A r \in started[c.task] : r.at # c.scheduled
  /\ \A j \in Callbacks :
       j # k /\ callback[j].at = "claimed" /\ callback[j].task = c.task =>
         callback[j].scheduled # c.scheduled

\* A run was claimed before it started.
WasClaimed(t, r) == r.at \in claims[t] /\ Fresh(t, r.at, r.zone)

ClaimInv ==
  /\ LatestClaim
  /\ \A k \in Callbacks : callback[k].at = "claimed" => Awaits(k)
  /\ \A t \in Tasks : \A r \in started[t] : WasClaimed(t, r)

\* What does not touch claims, runs and sleeping callbacks keeps the invariant.
LEMMA ClaimsKept ==
  ASSUME ClaimInv, UNCHANGED <<last, claims, started>>,
         \A k \in Callbacks : callback'[k].at = "claimed" => callback'[k] = callback[k]
  PROVE  ClaimInv'
<1>1. LatestClaim'
  BY DEF ClaimInv, LatestClaim
<1>2. ASSUME NEW k \in Callbacks, callback'[k].at = "claimed" PROVE Awaits(k)'
  BY <1>2 DEF ClaimInv, Awaits, Fresh, Repeats
<1>3. ASSUME NEW t \in Tasks, NEW r \in started'[t] PROVE WasClaimed(t, r)'
  BY <1>3 DEF ClaimInv, WasClaimed, Fresh, Repeats
<1>4. QED
  BY <1>1, <1>2, <1>3 DEF ClaimInv

\* A claim that is later than all others leaves them fresh, and is fresh itself
\* when its minute is not that of the last one.
LEMMA FreshKept ==
  ASSUME Typed, LatestClaim, NEW t \in Tasks, NEW s \in Instants, s > last[t],
         claims' = [claims EXCEPT ![t] = @ \cup {s}]
  PROVE  /\ \A u \in Tasks, i \in Instants, z \in Zones :
              i \in claims[u] /\ Fresh(u, i, z) => Fresh(u, i, z)'
         /\ \A z \in Zones :
              (last[t] # 0 => LocalMinute[z][last[t]] # LocalMinute[z][s]) => Fresh(t, s, z)'
<1>1. /\ claims[t] \subseteq Instants /\ last[t] \in Int
      /\ s \in Int /\ \A i \in Instants : i \in Int /\ i > 0
  BY DEF Typed, HistoryTyped, RowsTyped, Instants
<1>2. /\ claims'[t] = claims[t] \cup {s}
      /\ \A u \in Tasks : u # t => claims'[u] = claims[u]
  BY DEF Typed, HistoryTyped
<1>3. ASSUME NEW i \in claims[t] PROVE i \in Int /\ i > 0 /\ i <= last[t] /\ i < s
  <2>1. i \in Int /\ i > 0 /\ i <= last[t]
    BY <1>1 DEF LatestClaim
  <2>2. QED
    BY <1>1, <2>1
<1>4. ASSUME NEW u \in Tasks, NEW i \in Instants, NEW z \in Zones, i \in claims[u],
             Fresh(u, i, z)
      PROVE  Fresh(u, i, z)'
  <2>1. CASE u # t
    BY <1>2, <1>4, <2>1 DEF Fresh, Repeats
  <2>2. CASE u = t
    <3>1. i < s
      BY <1>3, <1>4, <2>2
    <3>2. ASSUME NEW j \in claims'[t], Repeats(t, i, z, j)' PROVE FALSE
      <4>1. j \in claims[t]
        <5>1. j < i
          BY <3>2 DEF Repeats
        <5>2. j # s
          BY <1>1, <3>1, <5>1
        <5> QED
          BY <1>2, <3>2, <5>2
      <4>2. Repeats(t, i, z, j)
        BY <1>2, <3>2 DEF Repeats
      <4>3. QED
        BY <1>4, <2>2, <4>1, <4>2 DEF Fresh
    <3>3. QED
      BY <2>2, <3>2 DEF Fresh
  <2>3. QED
    BY <2>1, <2>2
<1>5. ASSUME NEW z \in Zones, last[t] # 0 => LocalMinute[z][last[t]] # LocalMinute[z][s],
             NEW j \in claims'[t], Repeats(t, s, z, j)'
      PROVE  FALSE
  <2>1. j < s /\ LocalMinute[z][j] = LocalMinute[z][s]
    BY <1>5 DEF Repeats
  <2>2. j \in claims[t] /\ j <= last[t] /\ last[t] # 0
    <3>1. j # s
      BY <1>1, <2>1
    <3>2. j \in claims[t]
      BY <1>2, <1>5, <3>1
    <3>3. QED
      BY <1>1, <1>3, <3>2
  <2>3. last[t] \in claims[t] /\ j < last[t]
    <3>1. last[t] \in claims[t] /\ j \in Int /\ j # last[t]
      BY <1>3, <1>5, <2>1, <2>2 DEF LatestClaim
    <3>2. QED
      BY <1>1, <2>2, <3>1
  <2>4. LocalMinute[z][last[t]] = LocalMinute[z][s]
    BY <1>2, <1>5, <2>3 DEF Repeats
  <2>5. QED
    BY <1>5, <2>2, <2>4
<1>6. QED
  BY <1>4, <1>5 DEF Fresh

\* A claim that is stored: instant s of zone z, for task t.
LEMMA ClaimStep ==
  ASSUME Typed, ClaimInv, NEW k \in Callbacks, FireClaim(k), callback'[k].at = "claimed",
         NEW t \in Tasks, NEW s \in Instants, NEW z \in Zones,
         callback[k].task = t, callback[k].scheduled = s, callback[k].zone = z
  PROVE  ClaimInv'
<1>1. callback \in [Callbacks -> CallbackRecord] /\ callback[k].at = "prepared"
  BY ClaimOutcome DEF Typed, CallbacksTyped
<1>2. ~Done(k)
  BY <1>1 DEF Done, NoCallback
<1>3. /\ ~IsDuplicate(k) /\ s > last[t]
      /\ last' = [last EXCEPT ![t] = s]
      /\ claims' = [claims EXCEPT ![t] = @ \cup {s}]
      /\ callback' = [callback EXCEPT ![k].at = "claimed"]
      /\ started' = started
  BY <1>2, ClaimOutcome
<1>4. last[t] # 0 => LocalMinute[z][last[t]] # LocalMinute[z][s]
  BY <1>3 DEF IsDuplicate
<1>5. LatestClaim
  BY DEF ClaimInv
<1>6. /\ \A u \in Tasks, i \in Instants, y \in Zones :
           i \in claims[u] /\ Fresh(u, i, y) => Fresh(u, i, y)'
      /\ Fresh(t, s, z)'
  BY <1>3, <1>4, <1>5, FreshKept
<1>7. /\ \A u \in Tasks : claims[u] \subseteq claims'[u]
      /\ s \in claims'[t] /\ claims'[t] = claims[t] \cup {s} /\ last'[t] = s
      /\ \A u \in Tasks : u # t => claims'[u] = claims[u] /\ last'[u] = last[u]
      /\ last[t] \in Int /\ s \in Int /\ \A i \in claims[t] : i \in Int
  BY <1>3 DEF Typed, HistoryTyped, RowsTyped, Instants
<1>8. s \notin claims[t]
  BY <1>3, <1>5, <1>7 DEF LatestClaim
<1>9. LatestClaim'
  <2>1. ASSUME NEW i \in claims'[t] PROVE i <= last'[t]
    BY <1>3, <1>5, <1>7, <2>1 DEF LatestClaim
  <2>2. QED
    BY <1>5, <1>7, <2>1 DEF LatestClaim
<1>10. /\ \A j \in Callbacks : j # k => callback'[j] = callback[j]
       /\ callback'[k].task = t /\ callback'[k].scheduled = s /\ callback'[k].zone = z
  BY <1>1, <1>3 DEF CallbackRecord
<1>11. Awaits(k)'
  <2>1. \A r \in started'[t] : r.at # s
    BY <1>3, <1>8 DEF ClaimInv, WasClaimed
  <2>2. ASSUME NEW j \in Callbacks, j # k, callback'[j].at = "claimed", callback'[j].task = t
        PROVE  callback'[j].scheduled # s
    BY <1>8, <1>10, <2>2 DEF ClaimInv, Awaits
  <2>3. Fresh(callback[k].task, callback[k].scheduled, callback[k].zone)'
    BY <1>6, <1>10 DEF Fresh, Repeats
  <2>4. QED
    BY <1>7, <1>10, <2>1, <2>2, <2>3 DEF Awaits
<1>12. ASSUME NEW j \in Callbacks, j # k, callback'[j].at = "claimed" PROVE Awaits(j)'
  <2>1. callback'[j] = callback[j] /\ callback[j].at = "claimed" /\ Awaits(j)
    BY <1>10, <1>12 DEF ClaimInv
  <2>2. PICK u \in Tasks, i \in Instants, y \in Zones :
          callback[j].task = u /\ callback[j].scheduled = i /\ callback[j].zone = y
    BY <2>1 DEF Typed, CallbacksTyped
  <2>3. i \in claims'[u] /\ Fresh(u, i, y)'
    BY <1>6, <1>7, <2>1, <2>2 DEF Awaits
  <2>4. ASSUME NEW l \in Callbacks, l # j, callback'[l].at = "claimed", callback'[l].task = u
        PROVE  callback'[l].scheduled # i
    <3>1. CASE l = k
      BY <1>8, <1>10, <2>1, <2>2, <2>4, <3>1 DEF Awaits
    <3>2. CASE l # k
      BY <1>10, <2>1, <2>2, <2>4, <3>2 DEF Awaits
    <3>3. QED
      BY <3>1, <3>2
  <2>5. \A r \in started'[u] : r.at # i
    BY <1>3, <2>1, <2>2 DEF Awaits
  <2>6. Fresh(callback[j].task, callback[j].scheduled, callback[j].zone)'
    BY <2>1, <2>2, <2>3 DEF Fresh, Repeats
  <2>7. QED
    BY <2>1, <2>2, <2>3, <2>4, <2>5, <2>6 DEF Awaits
<1>13. ASSUME NEW u \in Tasks, NEW r \in started'[u] PROVE WasClaimed(u, r)'
  <2>1. WasClaimed(u, r) /\ r.at \in Instants /\ r.zone \in Zones
    BY <1>3, <1>13 DEF ClaimInv, Typed, HistoryTyped, ScheduledRun
  <2>2. QED
    BY <1>6, <1>7, <2>1 DEF WasClaimed
<1>14. QED
  BY <1>9, <1>11, <1>12, <1>13 DEF ClaimInv

\* A run that is started.
LEMMA StartStep ==
  ASSUME Typed, ClaimInv, NEW k \in Callbacks, FireQueue(k), StartRun(k)
  PROVE  ClaimInv'
<1> DEFINE c == callback[k]
           run == [at |-> callback[k].scheduled, zone |-> callback[k].zone]
<1>1. /\ callback \in [Callbacks -> CallbackRecord] /\ callback[k].at = "claimed"
      /\ c.task \in Tasks
  BY DEF Typed, CallbacksTyped, FireQueue
<1>2. /\ UNCHANGED <<last, claims>>
      /\ \A j \in Callbacks : callback'[j].at = "claimed" => j # k /\ callback'[j] = callback[j]
  BY <1>1 DEF FireQueue, Done, NoCallback
<1>3. \A u \in Tasks : started'[u] \subseteq IF u = c.task THEN started[u] \cup {run}
                                                           ELSE started[u]
  BY <1>1 DEF StartRun, Typed, HistoryTyped
<1>4. LatestClaim' /\ Awaits(k)
  BY <1>1, <1>2 DEF ClaimInv, LatestClaim
<1>5. ASSUME NEW j \in Callbacks, callback'[j].at = "claimed" PROVE Awaits(j)'
  <2>1. /\ j # k /\ callback'[j] = callback[j] /\ callback[j].at = "claimed"
        /\ callback[j].task \in Tasks
    BY <1>2, <1>5 DEF Typed, CallbacksTyped
  <2>2. Awaits(j) /\ Fresh(callback[j].task, callback[j].scheduled, callback[j].zone)'
    BY <1>2, <2>1 DEF ClaimInv, Awaits, Fresh, Repeats
  <2>3. \A r \in started'[callback[j].task] : r.at # callback[j].scheduled
    BY <1>1, <1>3, <2>1, <2>2 DEF Awaits
  <2>4. QED
    BY <1>2, <2>1, <2>2, <2>3 DEF Awaits
<1>6. ASSUME NEW u \in Tasks, NEW r \in started'[u] PROVE WasClaimed(u, r)'
  <2>1. r \in started[u] \/ (u = c.task /\ r = run)
    BY <1>3, <1>6
  <2>2. WasClaimed(u, r)
    BY <1>4, <1>6, <2>1 DEF ClaimInv, WasClaimed, Awaits
  <2>3. QED
    BY <1>2, <2>2 DEF WasClaimed, Fresh, Repeats
<1>7. QED
  BY <1>4, <1>5, <1>6 DEF ClaimInv

\* The invariant of the claims is inductive.
LEMMA ClaimInvStep == Typed /\ ClaimInv /\ [Next]_vars => ClaimInv'
<1> SUFFICES ASSUME Typed, ClaimInv, [Next]_vars PROVE ClaimInv'
  OBVIOUS
<1>1. callback \in [Callbacks -> CallbackRecord]
  BY DEF Typed, CallbacksTyped
<1>2. ASSUME NEW k \in Callbacks, FireClaim(k) PROVE ClaimInv'
  <2>1. CASE callback'[k].at = "claimed"
    <3>1. callback[k].at = "prepared"
      BY <1>2, ClaimOutcome
    <3>2. PICK t \in Tasks, s \in Instants, z \in Zones :
            callback[k].task = t /\ callback[k].scheduled = s /\ callback[k].zone = z
      BY <3>1 DEF Typed, CallbacksTyped
    <3>3. QED
      BY <1>2, <2>1, <3>2, ClaimStep
  <2>2. CASE callback'[k].at # "claimed"
    <3>1. UNCHANGED <<last, claims, started>> /\ Done(k)
      BY <1>1, <1>2, <2>2, ClaimOutcome DEF CallbackRecord
    <3>2. \A j \in Callbacks : callback'[j].at = "claimed" => callback'[j] = callback[j]
      BY <1>1, <2>2, <3>1 DEF Done
    <3>3. QED
      BY <3>1, <3>2, ClaimsKept
  <2>3. QED
    BY <2>1, <2>2
<1>3. ASSUME NEW k \in Callbacks, FireQueue(k) PROVE ClaimInv'
  <2>1. CASE StartRun(k)
    BY <1>3, <2>1, StartStep
  <2>2. CASE ~StartRun(k)
    BY <1>1, <1>3, <2>2, ClaimsKept DEF FireQueue, Done, NoCallback
  <2>3. QED
    BY <2>1, <2>2
<1>4. CASE \A k \in Callbacks : ~FireClaim(k) /\ ~FireQueue(k)
  <2>1. UNCHANGED <<claims, started>>
    BY <1>4, HistoryMoves DEF history
  <2>2. UNCHANGED last
    BY <1>4
    DEF Next, HandlerStep, CreateTask, UpdateTask, DuplicateTask, DeleteTask, RunTask, RunEnds,
        ImportConfiguration, Disconnect, ScheduleTask, UndoStore, UndoSchedule, DeleteRow,
        RestoreSchedule, ReplaceConfiguration, ReplaceRefused, ReconcileSchedules, Launch,
        FirePrepare, Tick, Halt, Start, vars, database
  <2>3. ASSUME NEW k \in Callbacks, callback'[k].at = "claimed", callback'[k] # callback[k]
        PROVE  FALSE
    <3>1. Halt \/ FirePrepare(k) \/ \E t \in Tasks : Launch(k, t)
      BY <1>4, <2>3, CallbackMoves
    <3>2. CASE Halt
      BY <2>3, <3>2 DEF Halt, NoCallback
    <3>3. CASE FirePrepare(k)
      BY <1>1, <2>3, <3>3 DEF FirePrepare, Done, NoCallback, CallbackRecord
    <3>4. CASE \E t \in Tasks : Launch(k, t)
      BY <1>1, <2>3, <3>4 DEF Launch, NoCallback
    <3>5. QED
      BY <3>1, <3>2, <3>3, <3>4
  <2>4. QED
    BY <2>1, <2>2, <2>3, ClaimsKept
<1>5. QED
  BY <1>2, <1>3, <1>4

\* No activation runs a task twice: across overlapping callbacks that overtake
\* each other, edits, removals, imports, restarts and clocks that are set back.
THEOREM SchedulerNoRunTwice == Spec => NoRunTwice
<1> DEFINE Once(k) ==
      LET c == callback[k]
          t == c.task IN
      (c.at = "claimed" /\ callback'[k].at = "none" /\ t \in active' \ active) =>
        \A r \in started[t] :
          /\ r.at # c.scheduled
          /\ ~Repeats(t, c.scheduled, c.zone, r.at)
          /\ ~Repeats(t, r.at, r.zone, c.scheduled)
<1>1. Init => ClaimInv
  BY DEF Init, ClaimInv, LatestClaim, NoCallback
<1>2. ASSUME Typed, ClaimInv, NEW k \in Callbacks PROVE Once(k)
  <2> SUFFICES ASSUME callback[k].at = "claimed", NEW r \in started[callback[k].task]
               PROVE  /\ r.at # callback[k].scheduled
                      /\ ~Repeats(callback[k].task, callback[k].scheduled, callback[k].zone, r.at)
                      /\ ~Repeats(callback[k].task, r.at, r.zone, callback[k].scheduled)
    OBVIOUS
  <2>1. Awaits(k) /\ callback[k].task \in Tasks
    BY <1>2 DEF ClaimInv, Typed, CallbacksTyped
  <2>2. WasClaimed(callback[k].task, r)
    BY <1>2, <2>1 DEF ClaimInv
  <2>3. QED
    BY <2>1, <2>2 DEF Awaits, WasClaimed, Fresh
<1>3. Typed /\ ClaimInv /\ [Next]_vars => [\A k \in Callbacks : Once(k)]_vars
  BY <1>2
<1>4. QED
  BY <1>1, <1>3, ClaimInvStep, TypedInit, TypedStep, PTL DEF Spec, NoRunTwice

-----------------------------------------------------------------------------
(* What callbacks run *)

\* A run that starts outside the edit of its task follows the stored
\* expression of an enabled task.
THEOREM SchedulerRunsAsStored == Spec => RunsFollowStoredSchedule
<1> DEFINE Follows(k) ==
      LET t == callback[k].task IN
      (callback[k].at = "claimed" /\ callback'[k].at = "none" /\ t \in active' \ active
         /\ handler.task # t /\ handler.at \notin {"replace", "reconcile"})
        => Enabled(t) /\ row[t].fields.cron = callback[k].cron
<1>1. ASSUME ScheduleInv, [Next]_vars, NEW k \in Callbacks PROVE Follows(k)
  <2> SUFFICES ASSUME callback[k].at = "claimed", callback'[k].at = "none",
                      callback[k].task \in active' \ active, handler.task # callback[k].task
               PROVE  /\ Enabled(callback[k].task)
                      /\ row[callback[k].task].fields.cron = callback[k].cron
    OBVIOUS
  <2>1. callback \in [Callbacks -> CallbackRecord] /\ callback[k].task \in Tasks
    BY <1>1 DEF ScheduleInv, Typed, CallbacksTyped
  <2>2. ~Halt
    BY DEF Halt
  <2>3. FireQueue(k)
    BY <1>1, <2>2, CallbackMoves DEF ScheduleInv, FirePrepare, FireClaim, Launch
  <2>4. IsCurrent(k) /\ Enabled(callback[k].task)
    BY <2>3 DEF FireQueue
  <2>5. entry[callback[k].task] # None /\ entry[callback[k].task].cron = callback[k].cron
    BY <1>1, <2>1, <2>4 DEF ScheduleInv, IsCurrent, CallbacksDated
  <2>6. Stored(callback[k].task)
    BY <1>1, <2>1, <2>5 DEF ScheduleInv, EntriesStored
  <2>7. QED
    BY <2>4, <2>5, <2>6 DEF Stored
<1>2. ScheduleInv /\ [Next]_vars => [\A k \in Callbacks : Follows(k)]_vars
  BY <1>1
<1>3. QED
  BY <1>2, ScheduleInvAlways, PTL DEF Spec, RunsFollowStoredSchedule

\* An import is quiet: no run starts between its first and its last step.
THEOREM SchedulerImportIsQuiet == Spec => ImportIsQuiet
<1>1. ASSUME ScheduleInv, [Next]_vars,
             handler.at \in {"replace", "reconcile"}, handler'.at \in {"replace", "reconcile"}
      PROVE  active' \subseteq active
  <2>1. \A t \in Tasks : entry[t] = None
    BY <1>1 DEF ScheduleInv, OffSchedule
  <2>2. ASSUME NEW k \in Callbacks, FireQueue(k) PROVE active' = active
    <3>1. callback[k].task \in Tasks
      BY <1>1, <2>2 DEF ScheduleInv, Typed, CallbacksTyped, FireQueue
    <3>2. QED
      BY <2>1, <2>2, <3>1 DEF FireQueue, IsCurrent
  <2>3. QED
    BY <1>1, <2>2
    DEF Next, HandlerStep, CreateTask, UpdateTask, DuplicateTask, DeleteTask, RunTask,
        RunEnds, ImportConfiguration, Disconnect, ScheduleTask, UndoStore, UndoSchedule,
        DeleteRow, RestoreSchedule, ReplaceConfiguration, ReplaceRefused,
        ReconcileSchedules, Launch, FirePrepare, FireClaim, Tick, Halt, Start, vars, database
<1>2. ScheduleInv /\ [Next]_vars =>
        [handler.at \in {"replace", "reconcile"} /\ handler'.at \in {"replace", "reconcile"}
           => active' \subseteq active]_vars
  BY <1>1
<1>3. QED
  BY <1>2, ScheduleInvAlways, PTL DEF Spec, ImportIsQuiet

-----------------------------------------------------------------------------
(* Requests that nothing disturbs *)

\* No client goes away while it is served and no store call fails.
Undisturbed == ~Disconnects /\ ~StoreFaults

Excused(t) ==
  \/ handler.at \in {"schedule", "delete", "restore"} /\ handler.task = t
  \/ handler.at \in {"replace", "reconcile"}

\* The converse of EntriesStored: an enabled task is off the schedule only
\* while a handler works on it, and no handler has to undo anything.
NoneForgotten ==
  /\ handler.connected
  /\ handler.at \notin {"undoStore", "undoSchedule"}
  /\ up => \A t \in Tasks : Enabled(t) => entry[t] # None \/ Excused(t)

\* A request that is not disturbed never undoes anything.
LEMMA HandlerConnected ==
  ASSUME Undisturbed, Typed, NoneForgotten, [Next]_vars
  PROVE  handler'.connected /\ handler'.at \notin {"undoStore", "undoSchedule"}
<1> USE DEF NoneForgotten, Undisturbed
<1>1. ~Fails
  BY DEF Fails
<1>2. handler \in HandlerRecord
  BY DEF Typed, HandlerTyped
<1>3. ASSUME NEW from, NEW to \in {"none", "restore", "reconcile"}, Proceed(from, to)
      PROVE  handler'.connected /\ handler'.at \notin {"undoStore", "undoSchedule"}
  BY <1>2, <1>3 DEF Proceed, HandlerRecord, NoHandler
<1>4. CASE HandlerStep
  <2>1. ~UndoStore
    BY DEF UndoStore, Proceed
  <2>2. QED
    BY <1>1, <1>3, <1>4, <2>1
    DEF HandlerStep, ScheduleTask, UndoSchedule, DeleteRow, RestoreSchedule,
        ReplaceConfiguration, ReplaceRefused, ReconcileSchedules
<1>5. CASE Halt
  BY <1>5 DEF Halt, NoHandler
<1>6. CASE UNCHANGED handler
  BY <1>6
<1>7. ASSUME NEW at \in {"schedule", "delete", "replace"}, NEW t, NEW old, Begin(at, t, old)
      PROVE  handler'.connected /\ handler'.at \notin {"undoStore", "undoSchedule"}
  BY <1>7 DEF Begin
<1>8. QED
  BY <1>4, <1>5, <1>6, <1>7
  DEF Next, CreateTask, UpdateTask, DuplicateTask, DeleteTask, RunTask, RunEnds,
      ImportConfiguration, Disconnect, Launch, FirePrepare, FireClaim, FireQueue, Tick,
      Start, vars

\* A step forgets no task.
LEMMA NoneForgottenStep ==
  ASSUME Undisturbed, ScheduleInv, NoneForgotten, [Next]_vars PROVE NoneForgotten'
<1> USE SchedulerAssumption DEF ScheduleInv
<1>1. handler'.connected /\ handler'.at \notin {"undoStore", "undoSchedule"}
  BY HandlerConnected
<1>2. SUFFICES ASSUME up', NEW t \in Tasks, Enabled(t)'
               PROVE  entry'[t] # None \/ Excused(t)'
  BY <1>1 DEF NoneForgotten
<1> DEFINE Goal == entry'[t] # None \/ Excused(t)'
<1>3. ~Fails /\ Works
  BY DEF Fails, Works, Undisturbed, NoneForgotten
<1>4. up /\ row'[t] = row[t] => entry[t] # None \/ Excused(t)
  BY <1>2 DEF NoneForgotten, Enabled, Live
<1>5. ASSUME NEW T, Reschedule(T), row' = row, t \in T \/ entry[t] # None PROVE Goal
  <2>1. Enabled(t)
    BY <1>2, <1>5 DEF Enabled, Live
  <2>2. QED
    BY <1>5, <2>1, Rescheduled
<1>6. ASSUME NEW s \in Tasks, NEW f \in FieldChoices, CreateTask(s, f) \/ UpdateTask(s, f)
      PROVE  Goal
  <2>1. /\ up /\ handler.at = "none" /\ handler'.at = "schedule" /\ handler'.task = s
        /\ entry' = entry
    BY <1>6 DEF CreateTask, UpdateTask, Begin, memory
  <2>2. s # t => row'[t] = row[t]
    BY <1>6 DEF CreateTask, UpdateTask, Store, Typed, RowsTyped
  <2>3. QED
    BY <1>4, <2>1, <2>2 DEF Excused
<1>7. ASSUME NEW r \in Tasks, NEW s \in Tasks, DuplicateTask(r, s) PROVE Goal
  <2>1. up /\ handler.at = "none" /\ entry' = entry
    BY <1>7 DEF DuplicateTask, memory
  <2>2. s # t
    <3>1. row[r] \in Row
      BY <1>7 DEF DuplicateTask, Live, Typed, RowsTyped
    <3>2. s = t => row'[t].fields = [row[r].fields EXCEPT !.enabled = FALSE]
      BY <1>7 DEF DuplicateTask, Store, Typed, RowsTyped
    <3>3. [row[r].fields EXCEPT !.enabled = FALSE].enabled = FALSE
      BY <3>1 DEF Row, Fields
    <3>4. QED
      BY <1>2, <3>2, <3>3 DEF Enabled
  <2>3. row'[t] = row[t]
    BY <1>7, <2>2 DEF DuplicateTask, Store, Typed, RowsTyped
  <2>4. QED
    BY <1>4, <2>1, <2>3 DEF Excused
<1>8. ASSUME NEW s \in Tasks, DeleteTask(s) PROVE Goal
  <2>1. /\ up /\ handler.at = "none" /\ handler'.at = "delete" /\ handler'.task = s
        /\ row' = row
    BY <1>8 DEF DeleteTask, Begin, database
  <2>2. s # t => entry'[t] = entry[t]
    BY <1>8 DEF DeleteTask, Remove
  <2>3. QED
    BY <1>4, <2>1, <2>2 DEF Excused
<1>9. CASE ImportConfiguration
  BY <1>9 DEF ImportConfiguration, Begin, Excused
<1>10. ASSUME handler.at # "none" PROVE up
  BY <1>10 DEF StoppedIsEmpty, NoHandler
<1>11. CASE ScheduleTask \/ RestoreSchedule
  <2>1. /\ handler.at \in {"schedule", "restore"} /\ row' = row
        /\ Reschedule({handler.task})
    BY <1>3, <1>11 DEF ScheduleTask, RestoreSchedule, Proceed, database
  <2>2. t = handler.task \/ entry[t] # None
    BY <1>4, <1>10, <2>1 DEF Excused
  <2>3. QED
    BY <1>5, <2>1, <2>2
<1>12. CASE UndoStore \/ UndoSchedule
  BY <1>12 DEF UndoStore, UndoSchedule, Proceed, NoneForgotten
<1>13. CASE DeleteRow
  <2>1. handler.at = "delete" /\ handler.task \in Tasks /\ entry' = entry
    BY <1>13 DEF DeleteRow, Proceed, memory, Typed, HandlerTyped
  <2>2. CASE row' = [row EXCEPT ![handler.task] = Retire(@)]
    <3>1. row[handler.task] \in Row
      BY <2>1 DEF Typed, HandlerTyped, RowsTyped
    <3>2. t # handler.task
      BY <1>2, <2>1, <2>2, <3>1, RowTyped DEF Enabled, Live, Typed, RowsTyped
    <3>3. row'[t] = row[t]
      BY <2>2, <3>2 DEF Typed, RowsTyped
    <3>4. QED
      BY <1>4, <1>10, <2>1, <3>2, <3>3 DEF Excused
  <2>3. CASE row' = row /\ handler' = [handler EXCEPT !.at = "restore"]
    <3>1. handler'.at = "restore" /\ handler'.task = handler.task
      BY <2>3 DEF Typed, HandlerTyped, HandlerRecord
    <3>2. QED
      BY <1>4, <1>10, <2>1, <2>3, <3>1 DEF Excused
  <2>4. QED
    BY <1>13, <2>2, <2>3 DEF DeleteRow, Proceed
<1>14. CASE \/ ReplaceRefused
            \/ \E imported \in SUBSET Tasks, f \in [Tasks -> FieldChoices] :
                 ReplaceConfiguration(imported, f)
  BY <1>14 DEF ReplaceRefused, ReplaceConfiguration, Proceed, Excused, Typed, HandlerTyped,
               HandlerRecord
<1>15. CASE ReconcileSchedules
  <2>1. Reschedule({s \in Tasks : Live(s)}) /\ row' = row
    BY <1>3, <1>15 DEF ReconcileSchedules, database
  <2>2. Live(t)
    BY <1>2, <2>1 DEF Enabled, Live
  <2>3. QED
    BY <1>5, <2>1, <2>2
<1>16. ASSUME NEW k \in Callbacks, NEW s \in Tasks, Launch(k, s) PROVE Goal
  <2>1. /\ entry[s] # None /\ entry[s] \in Entry /\ up /\ row' = row
        /\ handler' = handler
    BY <1>16 DEF Launch, database, Typed, EntriesTyped
  <2>2. entry'[s] # None
    <3>1. [entry[s] EXCEPT !.launched = now] \in Entry
      BY <2>1 DEF Entry, Typed, MachineTyped, Instants
    <3>2. entry'[s] = [entry[s] EXCEPT !.launched = now]
      BY <1>16 DEF Launch, Typed, EntriesTyped
    <3>3. QED
      BY <3>1, <3>2
  <2>3. s # t => entry'[t] = entry[t]
    BY <1>16 DEF Launch, Typed, EntriesTyped
  <2>4. QED
    BY <1>4, <2>1, <2>2, <2>3 DEF Excused
<1>17. CASE Halt
  BY <1>2, <1>17 DEF Halt
<1>18. CASE Start
  <2>1. Reschedule({s \in Tasks : Enabled(s)}) /\ row' = row
    BY <1>18 DEF Start, database
  <2>2. Enabled(t)
    BY <1>2, <2>1 DEF Enabled, Live
  <2>3. QED
    BY <1>5, <2>1, <2>2
<1>19. CASE UNCHANGED <<entry, row, handler, up>>
  BY <1>2, <1>4, <1>19 DEF Excused
<1>20. QED
  BY <1>6, <1>7, <1>8, <1>9, <1>11, <1>12, <1>13, <1>14, <1>15, <1>16, <1>17, <1>18, <1>19
  DEF Next, HandlerStep, RunTask, RunEnds, Disconnect, FirePrepare, FireClaim, FireQueue,
      Tick, vars, memory, database, Undisturbed

\* If nothing disturbs the requests, the entries are exactly the enabled tasks
\* between any two of them, each with its stored expression, also after a
\* refused deletion, a refused import or a restart.
THEOREM SchedulerMatchesStore ==
  ASSUME ~Disconnects, ~StoreFaults
  PROVE  Spec => []ScheduleMatchesStore
<1>1. Init => NoneForgotten
  BY DEF Init, NoneForgotten, NoHandler, Enabled, Live
<1>2. ScheduleInv /\ NoneForgotten /\ [Next]_vars => NoneForgotten'
  BY NoneForgottenStep DEF Undisturbed
<1>3. ScheduleInv /\ NoneForgotten => ScheduleMatchesStore
  BY DEF ScheduleInv, EntriesStored, Stored, NoneForgotten, Excused, ScheduleMatchesStore
<1>4. QED
  BY <1>1, <1>2, <1>3, ScheduleInvAlways, PTL DEF Spec
=============================================================================
