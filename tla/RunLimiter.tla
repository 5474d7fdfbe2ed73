----------------------------- MODULE RunLimiter -----------------------------
(***************************************************************************)
(* The admission control of the execution manager: type runLimiter of      *)
(* src/internal/execution/manager.go.                                      *)
(*                                                                         *)
(* Worker goroutines call Acquire(ctx, task, wan, limit, separateWAN)      *)
(* before a test and Release(task, wan) after it.  The limiter keeps, under *)
(* one mutex, the set of tasks and of WAN paths in use, the number of      *)
(* admitted runs, and a channel `changed` that Release closes and replaces *)
(* to wake every goroutine that found no room.                             *)
(*                                                                         *)
(* Each critical section of the mutex is one action.  A goroutine that     *)
(* finds no room remembers the channel it read inside the critical section *)
(* and selects on it after unlocking, so a Release may come in between:    *)
(* `woken` is the set of waiting goroutines whose remembered channel is    *)
(* closed already.                                                         *)
(***************************************************************************)
EXTENDS Integers, FiniteSets

CONSTANTS
  Workers,        \* the goroutines that acquire and release
  Tasks,          \* task identifiers
  Wans,           \* WAN path keys, see wanPathKey
  GlobalLimits,   \* values the persisted setting GlobalConcurrency may have
  MaxConcurrency, \* the cap Acquire puts on the limit; 16 in the code
  NoRequest       \* stands for the arguments of a call that is not under way

ASSUME LimiterAssumption ==
  /\ IsFiniteSet(Workers)
  /\ GlobalLimits \subseteq Int
  /\ MaxConcurrency \in Nat \ {0}

VARIABLES
  tasks,         \* runLimiter.tasks: tasks with an admitted run
  wans,          \* runLimiter.wans: WAN paths with an admitted run
  runningTotal,  \* runLimiter.runningTotal
  place,         \* place[w]: where goroutine w is in Acquire/Release
  request,       \* request[w]: the arguments of w's call of Acquire
  woken,         \* waiting goroutines whose `changed` channel is closed
  ctxDone        \* whether the context passed to Acquire is cancelled

limiterVars == <<tasks, wans, runningTotal, place, request, woken>>
vars == <<limiterVars, ctxDone>>

-----------------------------------------------------------------------------
Places == {"out", "trying", "waiting", "admitted"}

Requests ==
  [task : Tasks, wan : Wans, limit : GlobalLimits, separateWAN : BOOLEAN]

Admitted == {w \in Workers : place[w] = "admitted"}

TypeOK ==
  /\ tasks \subseteq Tasks
  /\ wans \subseteq Wans
  /\ runningTotal \in Nat
  /\ place \in [Workers -> Places]
  /\ request \in [Workers -> Requests \cup {NoRequest}]
  /\ \A w \in Workers : place[w] # "out" => request[w] \in Requests
  /\ woken \subseteq Workers
  /\ ctxDone \in BOOLEAN

\* Mutant: the limit is not capped from above.
ClampNoCap(limit) == IF limit < 1 THEN 1 ELSE limit

\* Mutant: a limit of zero is taken as it is.
ClampNoFloor(limit) == IF limit > MaxConcurrency THEN MaxConcurrency ELSE limit

\* The two clamping statements at the head of Acquire.
Clamp(limit) ==
  IF limit < 1 THEN 1 ELSE IF limit > MaxConcurrency THEN MaxConcurrency ELSE limit

\* Mutant: the WAN path is not looked at.
AllowedOnAnyWan(w) ==
  LET r == request[w] IN
  /\ r.task \notin tasks
  /\ runningTotal < Clamp(r.limit)
  /\ r.separateWAN \/ runningTotal = 0

\* The condition Acquire evaluates under the mutex.
Allowed(w) ==
  LET r == request[w] IN
  /\ r.task \notin tasks
  /\ r.wan \notin wans
  /\ runningTotal < Clamp(r.limit)
  /\ r.separateWAN \/ runningTotal = 0

-----------------------------------------------------------------------------
Init ==
  /\ tasks = {}
  /\ wans = {}
  /\ runningTotal = 0
  /\ place = [w \in Workers |-> "out"]
  /\ request = [w \in Workers |-> NoRequest]
  /\ woken = {}
  /\ ctxDone = FALSE

\* A goroutine calls Acquire with its arguments.
Call(w, r) ==
  /\ place[w] = "out"
  /\ place' = [place EXCEPT ![w] = "trying"]
  /\ request' = [request EXCEPT ![w] = r]
  /\ UNCHANGED <<tasks, wans, runningTotal, woken>>

\* The critical section of Acquire when there is room: the run is admitted.
Admit(w) ==
  /\ place[w] = "trying"
  /\ Allowed(w)
  /\ tasks' = tasks \cup {request[w].task}
  /\ wans' = wans \cup {request[w].wan}
  /\ runningTotal' = runningTotal + 1
  /\ place' = [place EXCEPT ![w] = "admitted"]
  /\ UNCHANGED <<request, woken>>

\* The critical section of Acquire when there is no room: the goroutine reads
\* the current `changed` channel and goes on to select on it.
Block(w) ==
  /\ place[w] = "trying"
  /\ ~Allowed(w)
  /\ place' = [place EXCEPT ![w] = "waiting"]
  /\ woken' = woken \ {w}
  /\ UNCHANGED <<tasks, wans, runningTotal, request>>

\* The select receives from the closed channel and the loop starts again.
Wake(w) ==
  /\ place[w] = "waiting"
  /\ w \in woken
  /\ place' = [place EXCEPT ![w] = "trying"]
  /\ woken' = woken \ {w}
  /\ UNCHANGED <<tasks, wans, runningTotal, request>>

\* The select receives from ctx.Done() and Acquire returns the error; Go
\* chooses freely when both channels are ready.
GiveUp(w) ==
  /\ place[w] = "waiting"
  /\ ctxDone
  /\ place' = [place EXCEPT ![w] = "out"]
  /\ request' = [request EXCEPT ![w] = NoRequest]
  /\ woken' = woken \ {w}
  /\ UNCHANGED <<tasks, wans, runningTotal>>

\* Mutant: the WAN path stays marked as busy.
ReleaseKeepsWan(w) ==
  /\ place[w] = "admitted"
  /\ tasks' = tasks \ {request[w].task}
  /\ runningTotal' = IF runningTotal > 0 THEN runningTotal - 1 ELSE runningTotal
  /\ place' = [place EXCEPT ![w] = "out"]
  /\ request' = [request EXCEPT ![w] = NoRequest]
  /\ woken' = woken \cup {v \in Workers : place[v] = "waiting"}
  /\ UNCHANGED wans

\* Mutant: the counter is decremented twice.
ReleaseCountsTwice(w) ==
  /\ place[w] = "admitted"
  /\ tasks' = tasks \ {request[w].task}
  /\ wans' = wans \ {request[w].wan}
  /\ runningTotal' = runningTotal - 2
  /\ place' = [place EXCEPT ![w] = "out"]
  /\ request' = [request EXCEPT ![w] = NoRequest]
  /\ woken' = woken \cup {v \in Workers : place[v] = "waiting"}

\* Mutant: a single waiter is woken instead of all of them.
ReleaseWakesOne(w) ==
  /\ place[w] = "admitted"
  /\ tasks' = tasks \ {request[w].task}
  /\ wans' = wans \ {request[w].wan}
  /\ runningTotal' = runningTotal - 1
  /\ place' = [place EXCEPT ![w] = "out"]
  /\ request' = [request EXCEPT ![w] = NoRequest]
  /\ LET waiting == {v \in Workers : place[v] = "waiting"} IN
       \/ \E v \in waiting : woken' = woken \cup {v}
       \/ waiting = {} /\ UNCHANGED woken

\* Release, deferred by execute: forgets the run, closes `changed` and
\* installs a fresh channel, which wakes everybody who waits.
Release(w) ==
  /\ place[w] = "admitted"
  /\ tasks' = tasks \ {request[w].task}
  /\ wans' = wans \ {request[w].wan}
  /\ runningTotal' = IF runningTotal > 0 THEN runningTotal - 1 ELSE runningTotal
  /\ place' = [place EXCEPT ![w] = "out"]
  /\ request' = [request EXCEPT ![w] = NoRequest]
  /\ woken' = woken \cup {v \in Workers : place[v] = "waiting"}

\* Manager.Stop cancels the context all calls of Acquire share.
CancelContext ==
  /\ ~ctxDone
  /\ ctxDone' = TRUE
  /\ UNCHANGED limiterVars

Step(w) == Admit(w) \/ Block(w) \/ Wake(w) \/ GiveUp(w) \/ Release(w)

Next ==
  \/ \E w \in Workers :
       /\ \/ Step(w)
          \/ \E r \in Requests : Call(w, r)
       /\ UNCHANGED ctxDone
  \/ CancelContext

Spec == Init /\ [][Next]_vars

-----------------------------------------------------------------------------
\* Two admitted runs never share a task or a WAN path, and the sets and the
\* counter are exactly the admitted runs: no Release of one run frees what
\* another holds, and the counter cannot drift (manager.go 443-490).
Exclusion ==
  /\ \A v, w \in Admitted :
       v # w => /\ request[v].task # request[w].task
                /\ request[v].wan # request[w].wan
  /\ tasks = {request[w].task : w \in Admitted}
  /\ wans = {request[w].wan : w \in Admitted}
  /\ runningTotal = Cardinality(Admitted)

\* The number of concurrent runs never passes the cap, whatever limits the
\* callers ask for.
WithinCap == Cardinality(Admitted) <= MaxConcurrency

\* A goroutine that selects on a channel nobody has closed has no room: a
\* Release between its check and its select is never missed (the channel is
\* read inside the critical section, manager.go 466-477).
NoLostWakeup == \A w \in Workers :
  place[w] = "waiting" /\ w \notin woken => ~Allowed(w)

\* Somebody waiting implies that somebody is going to make progress: either a
\* run is admitted whose Release will wake the others, or a goroutine is on
\* its way to the check already.  Otherwise everyone waits on everyone.
NoStandstill ==
  (\E w \in Workers : place[w] = "waiting") =>
     \/ Admitted # {}
     \/ woken # {}
     \/ \E w \in Workers : place[w] = "trying"
=============================================================================
