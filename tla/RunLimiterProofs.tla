-------------------------- MODULE RunLimiterProofs --------------------------
(***************************************************************************)
(* Proofs about the run limiter for any finite set of goroutines, any      *)
(* tasks, WAN paths and limits.                                            *)
(***************************************************************************)
EXTENDS RunLimiter, FiniteSetTheorems, TLAPS

\* The type invariant holds of every behaviour of the limiter.
THEOREM LimiterTyped == Spec => []TypeOK
<1> USE DEF TypeOK, Places
<1>1. Init => TypeOK
  <2> SUFFICES ASSUME Init PROVE TypeOK
    OBVIOUS
  <2>1. request \in [Workers -> Requests \cup {NoRequest}]
    BY DEF Init
  <2>2. place \in [Workers -> Places] /\ \A w \in Workers : place[w] = "out"
    BY DEF Init
  <2>3. tasks \subseteq Tasks /\ wans \subseteq Wans /\ woken \subseteq Workers
    BY DEF Init
  <2>4. runningTotal \in Nat
    BY DEF Init
  <2>5. ctxDone \in BOOLEAN
    BY DEF Init
  <2>6. QED
    BY <2>1, <2>2, <2>3, <2>4, <2>5
<1>2. TypeOK /\ [Next]_vars => TypeOK'
  <2> SUFFICES ASSUME TypeOK, [Next]_vars PROVE TypeOK'
    OBVIOUS
  <2>1. ASSUME NEW w \in Workers, NEW r \in Requests, Call(w, r), UNCHANGED ctxDone
        PROVE  TypeOK'
    BY <2>1 DEF Call
  <2>2. ASSUME NEW w \in Workers, Admit(w), UNCHANGED ctxDone PROVE TypeOK'
    BY <2>2 DEF Admit, Requests
  <2>3. ASSUME NEW w \in Workers, Block(w), UNCHANGED ctxDone PROVE TypeOK'
    BY <2>3 DEF Block
  <2>4. ASSUME NEW w \in Workers, Wake(w), UNCHANGED ctxDone PROVE TypeOK'
    BY <2>4 DEF Wake
  <2>5. ASSUME NEW w \in Workers, GiveUp(w), UNCHANGED ctxDone PROVE TypeOK'
    BY <2>5 DEF GiveUp
  <2>6. ASSUME NEW w \in Workers, Release(w), UNCHANGED ctxDone PROVE TypeOK'
    BY <2>6 DEF Release
  <2>7. CASE CancelContext
    BY <2>7 DEF CancelContext, limiterVars
  <2>8. CASE UNCHANGED vars
    BY <2>8 DEF vars, limiterVars
  <2>9. QED
    BY <2>1, <2>2, <2>3, <2>4, <2>5, <2>6, <2>7, <2>8 DEF Next, Step
<1>3. QED
  BY <1>1, <1>2, PTL DEF Spec

-----------------------------------------------------------------------------
\* The admitted goroutines are finitely many, so that they can be counted.
LEMMA AdmittedFinite == IsFiniteSet(Admitted)
  BY LimiterAssumption, FS_Subset DEF Admitted

\* What Acquire makes of a limit always lies between one and the cap.
LEMMA ClampRange == \A limit \in Int : Clamp(limit) \in 1..MaxConcurrency
  BY LimiterAssumption DEF Clamp

\* Exclusion is inductive relative to the type invariant.
LEMMA ExclusionStep == TypeOK /\ Exclusion /\ [Next]_vars => Exclusion'
<1> SUFFICES ASSUME TypeOK, Exclusion, [Next]_vars PROVE Exclusion'
  OBVIOUS
<1>1. ASSUME NEW w \in Workers, Admit(w) PROVE Exclusion'
  <2> USE <1>1 DEF Admit
  <2>1. Admitted' = Admitted \cup {w} /\ w \notin Admitted
    BY DEF Admitted, TypeOK
  <2>2. request[w].task \notin tasks /\ request[w].wan \notin wans
    BY DEF Allowed
  <2>3. \A u, v \in Admitted' : u # v =>
          request'[u].task # request'[v].task /\ request'[u].wan # request'[v].wan
    BY <2>1, <2>2 DEF Exclusion
  <2>4. tasks' = {request'[v].task : v \in Admitted'}
    BY <2>1 DEF Exclusion
  <2>5. wans' = {request'[v].wan : v \in Admitted'}
    BY <2>1 DEF Exclusion
  <2>6. runningTotal' = Cardinality(Admitted')
    BY <2>1, AdmittedFinite, FS_AddElement DEF Exclusion
  <2>7. QED
    BY <2>3, <2>4, <2>5, <2>6 DEF Exclusion
<1>2. ASSUME NEW w \in Workers, Release(w) PROVE Exclusion'
  <2> USE <1>2 DEF Release
  <2>1. Admitted' = Admitted \ {w} /\ w \in Admitted
    BY DEF Admitted, TypeOK
  <2>2. \A v \in Admitted' : request'[v] = request[v]
    BY <2>1 DEF TypeOK, Admitted
  <2>3. \A u, v \in Admitted' : u # v =>
          request'[u].task # request'[v].task /\ request'[u].wan # request'[v].wan
    BY <2>1, <2>2 DEF Exclusion
  <2>4. tasks' = {request'[v].task : v \in Admitted'}
    BY <2>1, <2>2 DEF Exclusion
  <2>5. wans' = {request'[v].wan : v \in Admitted'}
    BY <2>1, <2>2 DEF Exclusion
  <2>6. runningTotal' = Cardinality(Admitted')
    <3>1. Cardinality(Admitted') = Cardinality(Admitted) - 1
      BY <2>1, AdmittedFinite, FS_RemoveElement
    <3>2. Cardinality(Admitted) \in Nat /\ Cardinality(Admitted) # 0
      BY <2>1, AdmittedFinite, FS_CardinalityType, FS_EmptySet
    <3>3. QED
      BY <3>1, <3>2 DEF Exclusion
  <2>7. QED
    BY <2>3, <2>4, <2>5, <2>6 DEF Exclusion
<1>3. ASSUME UNCHANGED <<tasks, wans, runningTotal>>,
             Admitted' = Admitted, \A v \in Admitted : request'[v] = request[v]
      PROVE  Exclusion'
  <2>1. \A u, v \in Admitted' : u # v =>
          request'[u].task # request'[v].task /\ request'[u].wan # request'[v].wan
    BY <1>3 DEF Exclusion
  <2>2. tasks' = {request'[v].task : v \in Admitted'}
    BY <1>3 DEF Exclusion
  <2>3. wans' = {request'[v].wan : v \in Admitted'}
    BY <1>3 DEF Exclusion
  <2>4. runningTotal' = Cardinality(Admitted')
    BY <1>3 DEF Exclusion
  <2>5. QED
    BY <2>1, <2>2, <2>3, <2>4 DEF Exclusion
<1>4. ASSUME NEW w \in Workers, NEW r \in Requests, Call(w, r) PROVE Exclusion'
  BY <1>3, <1>4 DEF Call, Admitted, TypeOK
<1>5. ASSUME NEW w \in Workers, Block(w) \/ Wake(w) PROVE Exclusion'
  BY <1>3, <1>5 DEF Block, Wake, Admitted, TypeOK
<1>6. ASSUME NEW w \in Workers, GiveUp(w) PROVE Exclusion'
  BY <1>3, <1>6 DEF GiveUp, Admitted, TypeOK
<1>7. CASE CancelContext \/ UNCHANGED vars
  BY <1>3, <1>7 DEF CancelContext, vars, limiterVars, Admitted
<1>8. QED
  BY <1>1, <1>2, <1>4, <1>5, <1>6, <1>7 DEF Next, Step

\* No two runs share a task or a WAN path, whatever the number of goroutines:
\* the exclusion the limiter exists for.
THEOREM LimiterExclusion == Spec => []Exclusion
<1>1. Init => Exclusion
  BY FS_EmptySet DEF Init, Exclusion, Admitted
<1>2. QED
  BY <1>1, ExclusionStep, LimiterTyped, PTL DEF Spec

\* The number of admitted runs stays within the cap of Acquire.
THEOREM LimiterWithinCap == Spec => []WithinCap
<1> DEFINE Bounded == runningTotal <= MaxConcurrency
<1>1. Init => Bounded
  BY LimiterAssumption DEF Init
<1>2. TypeOK /\ Bounded /\ [Next]_vars => Bounded'
  <2> SUFFICES ASSUME TypeOK, Bounded, [Next]_vars PROVE Bounded'
    OBVIOUS
  <2>1. ASSUME NEW w \in Workers, Admit(w) PROVE Bounded'
    <3>1. request[w].limit \in Int
      BY <2>1, LimiterAssumption DEF Admit, TypeOK, Requests
    <3>2. QED
      BY <2>1, <3>1, ClampRange, LimiterAssumption DEF Admit, Allowed, TypeOK
  <2>2. ASSUME NEW w \in Workers, Release(w) PROVE Bounded'
    BY <2>2, LimiterAssumption DEF Release, TypeOK
  <2>3. CASE UNCHANGED runningTotal
    BY <2>3
  <2>4. QED
    BY <2>1, <2>2, <2>3
       DEF Next, Step, Call, Block, Wake, GiveUp, CancelContext, vars, limiterVars
<1>3. Bounded /\ Exclusion => WithinCap
  BY DEF Exclusion, WithinCap
<1>4. QED
  BY <1>1, <1>2, <1>3, LimiterTyped, LimiterExclusion, PTL DEF Spec

-----------------------------------------------------------------------------
\* A waiting goroutine whose channel is still open has no room, so no wakeup
\* is ever lost: only Release makes room, and Release closes the channel of
\* everybody who waits.
THEOREM LimiterNoLostWakeup == Spec => []NoLostWakeup
<1>1. Init => NoLostWakeup
  BY DEF Init, NoLostWakeup
<1>2. TypeOK /\ NoLostWakeup /\ [Next]_vars => NoLostWakeup'
  <2> SUFFICES ASSUME TypeOK, NoLostWakeup, [Next]_vars,
                      NEW v \in Workers, (place[v] = "waiting")', v \notin woken'
               PROVE  ~Allowed(v)'
    BY DEF NoLostWakeup
  <2>1. ASSUME NEW w \in Workers, NEW r \in Requests, Call(w, r) PROVE ~Allowed(v)'
    BY <2>1 DEF Call, Allowed, NoLostWakeup, TypeOK
  <2>2. ASSUME NEW w \in Workers, Admit(w) PROVE ~Allowed(v)'
    <3>1. place[v] = "waiting" /\ v \notin woken /\ request[v] \in Requests
      BY <2>2 DEF Admit, TypeOK
    <3>2. ~Allowed(v)
      BY <3>1 DEF NoLostWakeup
    <3>3. Clamp(request[v].limit) \in Int
      <4>1. request[v].limit \in Int
        BY <3>1, LimiterAssumption DEF Requests
      <4>2. Clamp(request[v].limit) \in 1..MaxConcurrency
        BY <4>1, ClampRange
      <4>3. QED
        BY <4>2
    <3>4. request'[v] = request[v] /\ tasks \subseteq tasks' /\ wans \subseteq wans'
      BY <2>2 DEF Admit
    <3>5. runningTotal' = runningTotal + 1 /\ runningTotal \in Nat
      BY <2>2 DEF Admit, TypeOK
    <3>6. QED
      BY <3>2, <3>3, <3>4, <3>5 DEF Allowed
  <2>3. ASSUME NEW w \in Workers, Block(w) PROVE ~Allowed(v)'
    BY <2>3 DEF Block, Allowed, NoLostWakeup, TypeOK
  <2>4. ASSUME NEW w \in Workers, Wake(w) PROVE ~Allowed(v)'
    BY <2>4 DEF Wake, Allowed, NoLostWakeup, TypeOK
  <2>5. ASSUME NEW w \in Workers, GiveUp(w) PROVE ~Allowed(v)'
    BY <2>5 DEF GiveUp, Allowed, NoLostWakeup, TypeOK
  <2>6. ASSUME NEW w \in Workers, Release(w) PROVE ~Allowed(v)'
    BY <2>6 DEF Release, TypeOK
  <2>7. CASE CancelContext \/ UNCHANGED vars
    BY <2>7 DEF CancelContext, vars, limiterVars, Allowed, NoLostWakeup
  <2>8. QED
    BY <2>1, <2>2, <2>3, <2>4, <2>5, <2>6, <2>7 DEF Next, Step
<1>3. QED
  BY <1>1, <1>2, LimiterTyped, PTL DEF Spec

\* The goroutines never all wait on one another: with nothing admitted every
\* waiter would have room, and NoLostWakeup says that it knows.
THEOREM LimiterNoStandstill == Spec => []NoStandstill
<1>1. TypeOK /\ Exclusion /\ NoLostWakeup => NoStandstill
  <2> SUFFICES ASSUME TypeOK, Exclusion, NoLostWakeup,
                      NEW w \in Workers, place[w] = "waiting",
                      Admitted = {}, woken = {}
               PROVE  FALSE
    BY DEF NoStandstill
  <2>1. ~Allowed(w) /\ request[w] \in Requests
    BY DEF NoLostWakeup, TypeOK
  <2>2. tasks = {} /\ wans = {} /\ runningTotal = 0
    BY FS_EmptySet DEF Exclusion
  <2>3. Clamp(request[w].limit) \in 1..MaxConcurrency
    BY <2>1, ClampRange, LimiterAssumption DEF Requests
  <2>4. QED
    BY <2>1, <2>2, <2>3 DEF Allowed
<1>2. QED
  BY <1>1, LimiterTyped, LimiterExclusion, LimiterNoLostWakeup, PTL
=============================================================================
