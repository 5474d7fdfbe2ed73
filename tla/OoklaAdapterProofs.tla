-------------------------- MODULE OoklaAdapterProofs --------------------------
(***************************************************************************)
(* Theorems about the locks of the Ookla adapter and about its executable, *)
(* for every set of calls, home directories, locks and uploads.            *)
(***************************************************************************)
EXTENDS OoklaAdapter, FiniteSetTheorems, TLAPS

\* The places of a call that has a reference to a lock, and those of one that
\* has its token in the channel of the lock.
Referring == {"waiting", "starting", "running", "releasing", "dropping"}
Holding == {"starting", "running", "releasing"}

\* A call refers to a lock exactly in these places.
Referred == \A c \in Calls : lock[c] # None <=> at[c] \in Referring

\* A lock is in the table at most once.
Injective == \A g, h \in Homes :
  runtimeLocks[g] # None /\ runtimeLocks[g] = runtimeLocks[h] => g = h

\* The token of a holder is its own.
TokenOwned == \A c \in Calls : at[c] \in Holding => semaphore[lock[c]] = c

\* The inductive invariant of the locks.
LockInv == TypeOK /\ Referred /\ Injective /\ TokenOwned /\ LockTableExact

-----------------------------------------------------------------------------
(* Types *)

\* The operations of an upload stay within its states.
LEMMA UploadTyped ==
  ASSUME TypeOK, NEW u \in Uploads, NEW from, NEW f \in Files \cup {None},
         NEW to \in {"out", "locking", "copying", "verifying", "activating", "securing"},
         NEW p \in Files \cup {None}, UploadTo(u, from, to, f, p)
  PROVE  upload' \in [Uploads -> UploadStates]
  BY DEF TypeOK, UploadTo, UploadStates

LEMMA InitTyped == Init => TypeOK
<1> SUFFICES ASSUME Init PROVE TypeOK
  OBVIOUS
<1>1. installed \in Files \cup {None}
  BY DEF Init, Genuine
<1>2. upload \in [Uploads -> UploadStates]
  BY DEF Init, UploadStates, NoUpload
<1>3. /\ runtimeLocks \in [Homes -> Locks \cup {None}]
      /\ references \in [Locks -> Nat]
      /\ semaphore \in [Locks -> Calls \cup {None}]
      /\ lock \in [Calls -> Locks \cup {None}]
  BY DEF Init
<1>4. at \in [Calls -> Places] /\ step \in [Calls -> 1 .. 3]
  BY DEF Init, Places
<1> QED
  BY <1>1, <1>2, <1>3, <1>4 DEF Init, TypeOK
-----------------------------------------------------------------------------
(* Counting the users of a lock *)

LEMMA UsersFinite ==
  ASSUME NEW l
  PROVE  IsFiniteSet(Users(l)) /\ Cardinality(Users(l)) \in Nat
<1>1. Users(l) \subseteq Calls
  BY DEF Users
<1>2. IsFiniteSet(Users(l))
  BY <1>1, OoklaAssumption, FS_Subset
<1> QED
  BY <1>2, FS_CardinalityType

\* A call that takes its first reference to a lock is one more user.
LEMMA UserAdded ==
  ASSUME NEW c \in Calls, NEW l \in Locks, TypeOK, lock[c] = None,
         lock' = [lock EXCEPT ![c] = l]
  PROVE  /\ c \in Users(l)'
         /\ Cardinality(Users(l)') = Cardinality(Users(l)) + 1
         /\ \A k \in Locks : k # l => Users(k)' = Users(k)
<1>1. Users(l)' = Users(l) \cup {c}
  BY DEF Users, TypeOK
<1>2. c \notin Users(l)
  BY OoklaAssumption DEF Users
<1>3. Cardinality(Users(l) \cup {c}) = Cardinality(Users(l)) + 1
  BY <1>2, UsersFinite, FS_AddElement
<1>4. \A k \in Locks : k # l => Users(k)' = Users(k)
  BY OoklaAssumption DEF Users, TypeOK
<1> QED
  BY <1>1, <1>3, <1>4

\* A call that gives its reference back is one user less.
LEMMA UserRemoved ==
  ASSUME NEW c \in Calls, NEW l \in Locks, TypeOK, lock[c] = l,
         lock' = [lock EXCEPT ![c] = None]
  PROVE  /\ Users(l)' = Users(l) \ {c}
         /\ c \in Users(l)
         /\ Cardinality(Users(l)') = Cardinality(Users(l)) - 1
         /\ \A k \in Locks : k # l => Users(k)' = Users(k)
<1>1. Users(l)' = Users(l) \ {c}
  BY OoklaAssumption DEF Users, TypeOK
<1>2. c \in Users(l)
  BY DEF Users
<1>3. Cardinality(Users(l) \ {c}) = Cardinality(Users(l)) - 1
  BY <1>2, UsersFinite, FS_RemoveElement
<1>4. \A k \in Locks : k # l => Users(k)' = Users(k)
  BY OoklaAssumption DEF Users, TypeOK
<1> QED
  BY <1>1, <1>2, <1>3, <1>4

\* A lock in the table has a user, so its count is not zero; and a count of
\* one means that a user is the only one.
LEMMA LastUser ==
  ASSUME LockInv, NEW c \in Calls, NEW l \in Locks, lock[c] = l
  PROVE  /\ references[l] = Cardinality(Users(l))
         /\ references[l] \in Nat \ {0}
         /\ references[l] = 1 <=> Users(l) = {c}
<1>1. runtimeLocks[Home(c)] = l /\ Home(c) \in Homes
  BY OoklaAssumption DEF LockInv, LockTableExact, Home, TypeOK, Plans
<1>2. references[l] = Cardinality(Users(l))
  BY <1>1, OoklaAssumption DEF LockInv, LockTableExact
<1>3. c \in Users(l)
  BY DEF Users
<1>4. Cardinality(Users(l)) # 0
  BY <1>3, UsersFinite, FS_EmptySet
<1>5. Users(l) = {c} => Cardinality(Users(l)) = 1
  BY FS_Singleton
<1>6. ASSUME Cardinality(Users(l)) = 1 PROVE Users(l) = {c}
  <2>1. PICK x : Users(l) = {x}
    BY <1>6, UsersFinite, FS_Singleton
  <2> QED
    BY <1>3, <2>1
<1> QED
  BY <1>2, <1>4, <1>5, <1>6, UsersFinite

LEMMA HomeTyped ==
  ASSUME TypeOK, NEW c \in Calls
  PROVE  Home(c) \in Homes
  BY OoklaAssumption DEF Home, TypeOK, Plans

-----------------------------------------------------------------------------
(* Every step keeps the types *)

LEMMA TypedNext ==
  ASSUME LockInv, [Next]_vars
  PROVE  TypeOK'
<1> USE OoklaAssumption
<1>0. TypeOK
  BY DEF LockInv
<1>1. ASSUME NEW c \in Calls, NEW p \in Plans, Begin(c, p) PROVE TypeOK'
  BY <1>0, <1>1 DEF TypeOK, Begin, Goto, Places, lockVars, uploadVars
<1>2. ASSUME NEW c \in Calls,
             \/ TermsAccepted(c) \/ Found(c) \/ ReturnEarly(c) \/ StartProcess(c)
             \/ ProcessEnds(c) \/ ContextEnds(c)
      PROVE  TypeOK'
  BY <1>0, <1>2 DEF TypeOK, TermsAccepted, Found, ReturnEarly, StartProcess, ProcessEnds,
                    ContextEnds, Goto, Places, lockVars, uploadVars
<1>3. ASSUME NEW c \in Calls, Reference(c) PROVE TypeOK'
  <2>1. at' \in [Calls -> Places]
    BY <1>0, <1>3 DEF TypeOK, Reference, Goto, Places
  <2>2. Home(c) \in Homes
    BY <1>0, HomeTyped
  <2>3. /\ runtimeLocks' \in [Homes -> Locks \cup {None}]
        /\ references' \in [Locks -> Nat]
        /\ semaphore' \in [Locks -> Calls \cup {None}]
        /\ lock' \in [Calls -> Locks \cup {None}]
    BY <1>0, <1>3, <2>2 DEF TypeOK, Reference
  <2> QED
    BY <1>0, <1>3, <2>1, <2>3 DEF TypeOK, Reference, uploadVars
<1>4. ASSUME NEW c \in Calls, Enter(c) \/ Unlock(c) PROVE TypeOK'
  BY <1>0, <1>4 DEF TypeOK, Enter, Unlock, Goto, Places, uploadVars
<1>5. ASSUME NEW c \in Calls, at[c] \in {"waiting", "dropping"}, DropReference(c)
      PROVE  /\ runtimeLocks' \in [Homes -> Locks \cup {None}]
             /\ references' \in [Locks -> Nat]
             /\ lock' \in [Calls -> Locks \cup {None}]
  <2>1. PICK l \in Locks : lock[c] = l
    BY <1>0, <1>5 DEF LockInv, Referred, Referring, TypeOK
  <2>2. references[l] - 1 \in Nat
    BY <2>1, LastUser
  <2>3. references' \in [Locks -> Nat]
    BY <1>0, <1>5, <2>1, <2>2 DEF TypeOK, DropReference
  <2>4. runtimeLocks' \in [Homes -> Locks \cup {None}]
    BY <1>0, <1>5 DEF TypeOK, DropReference
  <2>5. lock' \in [Calls -> Locks \cup {None}]
    BY <1>0, <1>5 DEF TypeOK, DropReference
  <2> QED
    BY <2>3, <2>4, <2>5
<1>6. ASSUME NEW c \in Calls, GiveUp(c) PROVE TypeOK'
  BY <1>0, <1>5, <1>6 DEF TypeOK, GiveUp, Goto, Places, uploadVars
<1>7. ASSUME NEW c \in Calls, Dropped(c) PROVE TypeOK'
  <2>1. step' \in [Calls -> 1 .. 3]
    <3>1. plan[c].last \in 1 .. 3 /\ step[c] \in 1 .. 3
      BY <1>0 DEF TypeOK, Plans
    <3> QED
      BY <1>0, <1>7, <3>1 DEF TypeOK, Dropped
  <2>2. at' \in [Calls -> Places] /\ at[c] \in {"waiting", "dropping"}
    BY <1>0, <1>7 DEF TypeOK, Dropped, Goto, Places
  <2> QED
    BY <1>0, <1>5, <1>7, <2>1, <2>2 DEF TypeOK, Dropped, uploadVars
<1>8. ASSUME NEW u \in Uploads,
             \/ BeginUpload(u) \/ LockManager(u) \/ Verified(u) \/ Activate(u)
             \/ Secured(u) \/ InstallFails(u) \/ \E f \in Files : Received(u, f)
      PROVE  TypeOK'
  <2>1. upload' \in [Uploads -> UploadStates]
    <3>1. CASE InstallFails(u) \/ Secured(u)
      BY <1>0, <3>1 DEF TypeOK, InstallFails, Secured, Return, NoUpload, UploadStates
    <3>2. upload[u].file \in Files \cup {None} /\ upload[u].previous \in Files \cup {None}
      BY <1>0 DEF TypeOK, UploadStates
    <3>3. CASE ~InstallFails(u) /\ ~Secured(u)
      BY <1>0, <1>8, <3>2, <3>3, UploadTyped
         DEF BeginUpload, LockManager, Verified, Activate, Received, TypeOK
    <3> QED
      BY <3>1, <3>3
  <2>2. installed' \in Files \cup {None} /\ mu' \in Uploads \cup {None}
    BY <1>0, <1>8 DEF TypeOK, UploadStates, BeginUpload, LockManager, Verified, Activate,
                      Secured, InstallFails, Return, Received
  <2> QED
    BY <1>0, <1>8, <2>1, <2>2
       DEF TypeOK, BeginUpload, LockManager, Verified, Activate, Secured, InstallFails,
           Return, Received, lockVars, callVars
<1>9. ASSUME NEW b \in BOOLEAN, SetAcceptance(b) PROVE TypeOK'
  BY <1>0, <1>9 DEF TypeOK, SetAcceptance, lockVars, callVars, uploadVars
<1>10. CASE UNCHANGED vars
  BY <1>0, <1>10 DEF TypeOK, vars, lockVars, callVars, uploadVars
<1> QED
  BY <1>1, <1>2, <1>3, <1>4, <1>6, <1>7, <1>8, <1>9, <1>10 DEF Next, CallStep, UploadStep

-----------------------------------------------------------------------------
(* Every step keeps the locks exact *)

LockFacts == Referred /\ Injective /\ TokenOwned /\ LockTableExact

\* A step that leaves the locks alone and moves a call only between places
\* that use a lock in the same way.
LEMMA FactsKept ==
  ASSUME LockInv, UNCHANGED lockVars,
         \A c \in Calls : at'[c] \in Referring <=> at[c] \in Referring,
         \A c \in Calls : at'[c] \in Holding => at[c] \in Holding,
         \A c \in Calls : lock[c] # None => Home(c)' = Home(c)
  PROVE  LockFacts'
<1>1. Referred' /\ Injective' /\ TokenOwned'
  BY DEF LockInv, Referred, Injective, TokenOwned, lockVars
<1>2. \A l : Users(l)' = Users(l)
  BY DEF Users, lockVars
<1>3. LockTableExact'
  BY <1>2 DEF LockInv, LockTableExact, lockVars
<1> QED
  BY <1>1, <1>3 DEF LockFacts

\* A call gives its reference back and goes on without it.
LEMMA FactsDropped ==
  ASSUME LockInv, NEW c \in Calls, NEW to \in Places \ Referring,
         at[c] \in {"waiting", "dropping"}, at' = [at EXCEPT ![c] = to],
         DropReference(c), UNCHANGED <<semaphore, plan>>,
         \A d \in Calls : d # c => step'[d] = step[d]
  PROVE  LockFacts'
<1> USE OoklaAssumption
<1>0. TypeOK
  BY DEF LockInv
<1>1. PICK l \in Locks : lock[c] = l
  BY <1>0 DEF LockInv, Referred, Referring, TypeOK
<1>2. /\ lock' = [lock EXCEPT ![c] = None]
      /\ lock'[c] = None
      /\ \A d \in Calls : d # c => lock'[d] = lock[d] /\ at'[d] = at[d] /\ Home(d)' = Home(d)
      /\ at'[c] \notin Referring
  BY <1>0 DEF TypeOK, DropReference, Home
<1>3. Home(c) \in Homes /\ runtimeLocks[Home(c)] = l
  BY <1>0, <1>1, HomeTyped DEF LockInv, LockTableExact
<1>4. \A h \in Homes : runtimeLocks[h] = l => h = Home(c)
  BY <1>3 DEF LockInv, Injective
<1>5. /\ Users(l)' = Users(l) \ {c}
      /\ Cardinality(Users(l)') = Cardinality(Users(l)) - 1
      /\ \A k \in Locks : k # l => Users(k)' = Users(k)
  BY <1>0, <1>1, <1>2, UserRemoved
<1>6. /\ references[l] = Cardinality(Users(l))
      /\ references[l] = 1 <=> Users(l) = {c}
  BY <1>1, LastUser
<1>7. references' = [references EXCEPT ![l] = @ - 1]
  BY <1>1 DEF DropReference
<1>8. \A h \in Homes : runtimeLocks'[h] =
         IF h = Home(c) /\ references[l] = 1 THEN None ELSE runtimeLocks[h]
  BY <1>1, <1>3 DEF DropReference
<1>9. Referred'
  BY <1>2 DEF LockInv, Referred
<1>10. Injective'
  BY <1>8 DEF LockInv, Injective
<1>11. TokenOwned'
  BY <1>2 DEF LockInv, TokenOwned, Holding, Referring
<1>12. ASSUME NEW d \in Calls, lock'[d] # None PROVE runtimeLocks'[Home(d)'] = lock'[d]
  <2>1. d # c /\ lock'[d] = lock[d] /\ Home(d)' = Home(d) /\ runtimeLocks[Home(d)] = lock[d]
    BY <1>2, <1>12 DEF LockInv, LockTableExact
  <2>2. Home(d) \in Homes
    BY <1>0, HomeTyped
  <2>3. CASE Home(d) = Home(c)
    <3>1. d \in Users(l)
      BY <1>3, <2>1, <2>3 DEF Users
    <3>2. references[l] # 1
      BY <1>6, <2>1, <3>1
    <3> QED
      BY <1>8, <2>1, <2>2, <3>2
  <2>4. CASE Home(d) # Home(c)
    BY <1>8, <2>1, <2>2, <2>4
  <2> QED
    BY <2>3, <2>4
<1>13. ASSUME NEW h \in Homes, NEW k \in Locks, runtimeLocks'[h] = k
       PROVE  Users(k)' # {} /\ references'[k] = Cardinality(Users(k)')
  <2>1. runtimeLocks[h] = k
    BY <1>8, <1>13
  <2>2. Users(k) # {} /\ references[k] = Cardinality(Users(k))
    BY <2>1 DEF LockInv, LockTableExact
  <2>3. CASE k = l
    <3>1. references[l] # 1
      BY <1>4, <1>8, <1>13, <2>1, <2>3
    <3>2. Users(l)' # {}
      BY <1>1, <1>5, <1>6, <3>1 DEF Users
    <3>3. references'[l] = Cardinality(Users(l)')
      BY <1>0, <1>5, <1>6, <1>7 DEF TypeOK
    <3> QED
      BY <2>3, <3>2, <3>3
  <2>4. CASE k # l
    <3>1. Users(k)' = Users(k) /\ references'[k] = references[k]
      BY <1>0, <1>5, <1>7, <2>4 DEF TypeOK
    <3> QED
      BY <2>2, <3>1
  <2> QED
    BY <2>3, <2>4
<1>14. LockTableExact'
  BY <1>12, <1>13 DEF LockTableExact
<1> QED
  BY <1>9, <1>10, <1>11, <1>14 DEF LockFacts

\* A call takes its reference.
LEMMA FactsReferenced ==
  ASSUME LockInv, NEW c \in Calls, Reference(c)
  PROVE  LockFacts'
<1> USE OoklaAssumption
<1>0. TypeOK /\ lock[c] = None
  BY DEF LockInv, Referred, Referring, Reference, Goto
<1>1. /\ at'[c] = "waiting"
      /\ \A d \in Calls : d # c => at'[d] = at[d]
      /\ \A d \in Calls : Home(d)' = Home(d)
      /\ Home(c) \in Homes
  BY <1>0, HomeTyped DEF TypeOK, Reference, Goto, Home
<1>2. PICK l \in Locks :
        /\ lock' = [lock EXCEPT ![c] = l]
        /\ \A h \in Homes : runtimeLocks'[h] = IF h = Home(c) THEN l ELSE runtimeLocks[h]
        /\ \A h \in Homes : h # Home(c) => runtimeLocks[h] # l
        /\ \A k \in Locks : k # l =>
              references'[k] = references[k] /\ semaphore'[k] = semaphore[k]
        /\ \/ references'[l] = references[l] + 1 /\ runtimeLocks[Home(c)] = l
               /\ semaphore' = semaphore
           \/ references'[l] = 1 /\ runtimeLocks[Home(c)] = None /\ Unused(l)
  <2>1. CASE runtimeLocks[Home(c)] # None
    <3>1. PICK l \in Locks : runtimeLocks[Home(c)] = l
      BY <1>0, <1>1, <2>1 DEF TypeOK
    <3>2. \A h \in Homes : h # Home(c) => runtimeLocks[h] # l
      BY <1>1, <3>1 DEF LockInv, Injective
    <3> QED
      BY <1>0, <1>1, <2>1, <3>1, <3>2 DEF Reference, TypeOK
  <2>2. CASE runtimeLocks[Home(c)] = None
    <3>1. PICK l \in Locks :
            /\ Unused(l)
            /\ lock' = [lock EXCEPT ![c] = l]
            /\ runtimeLocks' = [runtimeLocks EXCEPT ![Home(c)] = l]
            /\ references' = [references EXCEPT ![l] = 1]
            /\ semaphore' = [semaphore EXCEPT ![l] = None]
      BY <2>2 DEF Reference
    <3> QED
      BY <1>0, <1>1, <2>2, <3>1 DEF Unused, TypeOK
  <2> QED
    BY <2>1, <2>2
<1>3. /\ c \in Users(l)'
      /\ Cardinality(Users(l)') = Cardinality(Users(l)) + 1
      /\ \A k \in Locks : k # l => Users(k)' = Users(k)
  BY <1>0, <1>2, UserAdded
<1>4. /\ lock'[c] = l
      /\ \A d \in Calls : d # c => lock'[d] = lock[d]
  BY <1>0, <1>2 DEF TypeOK
<1>5. Referred'
  BY <1>1, <1>4 DEF LockInv, Referred, Referring
<1>6. Injective'
  BY <1>2 DEF LockInv, Injective
<1>7. TokenOwned'
  <2> SUFFICES ASSUME NEW d \in Calls, at'[d] \in Holding
               PROVE  semaphore'[lock'[d]] = d
    BY DEF TokenOwned
  <2>1. d # c /\ lock'[d] = lock[d] /\ at[d] \in Holding
    BY <1>1, <1>4 DEF Holding
  <2>2. semaphore[lock[d]] = d /\ lock[d] \in Locks
    BY <1>0, <2>1 DEF LockInv, TokenOwned, Referred, Referring, Holding, TypeOK
  <2>3. lock[d] = l => semaphore' = semaphore
    BY <1>2 DEF Unused
  <2> QED
    BY <1>2, <2>1, <2>2, <2>3
<1>8. ASSUME NEW d \in Calls, lock'[d] # None PROVE runtimeLocks'[Home(d)'] = lock'[d]
  <2>1. Home(d)' = Home(d) /\ Home(d) \in Homes
    BY <1>0, <1>1, HomeTyped
  <2>2. CASE d = c
    BY <1>2, <1>4, <2>1, <2>2
  <2>3. CASE d # c
    <3>1. runtimeLocks[Home(d)] = lock[d] /\ lock'[d] = lock[d] /\ lock[d] # None
      BY <1>4, <1>8, <2>3 DEF LockInv, LockTableExact
    <3> QED
      BY <1>2, <2>1, <3>1
  <2> QED
    BY <2>2, <2>3
<1>9. ASSUME NEW h \in Homes, NEW k \in Locks, runtimeLocks'[h] = k
      PROVE  Users(k)' # {} /\ references'[k] = Cardinality(Users(k)')
  <2>1. CASE k = l
    <3>1. CASE runtimeLocks[Home(c)] = l
      <4>1. references[l] = Cardinality(Users(l)) /\ references'[l] = references[l] + 1
        BY <1>1, <1>2, <3>1 DEF LockInv, LockTableExact
      <4> QED
        BY <1>3, <2>1, <4>1
    <3>2. CASE runtimeLocks[Home(c)] # l
      <4>1. references'[l] = 1 /\ Unused(l)
        BY <1>2, <3>2
      <4>2. Users(l) = {}
        BY <4>1 DEF Unused, Users
      <4>3. Cardinality(Users(l)) = 0
        BY <4>2, FS_EmptySet
      <4> QED
        BY <1>3, <2>1, <4>1, <4>3
    <3> QED
      BY <3>1, <3>2
  <2>2. CASE k # l
    <3>1. runtimeLocks[h] = k
      BY <1>2, <1>9, <2>2
    <3> QED
      BY <1>2, <1>3, <2>2, <3>1 DEF LockInv, LockTableExact
  <2> QED
    BY <2>1, <2>2
<1>10. LockTableExact'
  BY <1>8, <1>9 DEF LockTableExact
<1> QED
  BY <1>5, <1>6, <1>7, <1>10 DEF LockFacts

\* The token goes into the channel or comes out of it.
LEMMA FactsToken ==
  ASSUME LockInv, NEW c \in Calls, Enter(c) \/ Unlock(c)
  PROVE  LockFacts'
<1> USE OoklaAssumption
<1>0. TypeOK
  BY DEF LockInv
<1>1. /\ at[c] \in Referring /\ at'[c] \in Referring
      /\ \A d \in Calls : d # c => at'[d] = at[d]
      /\ UNCHANGED <<runtimeLocks, references, lock>>
      /\ \A d \in Calls : Home(d)' = Home(d)
  BY <1>0 DEF TypeOK, Enter, Unlock, Goto, Referring, Home
<1>2. \A l : Users(l)' = Users(l)
  BY <1>1 DEF Users
<1>3. Referred' /\ Injective' /\ LockTableExact'
  BY <1>1, <1>2 DEF LockInv, Referred, Injective, LockTableExact
<1>4. PICK l \in Locks : lock[c] = l
  BY <1>0, <1>1 DEF LockInv, Referred, TypeOK
<1>5. \A k \in Locks : k # l => semaphore'[k] = semaphore[k]
  BY <1>0, <1>4 DEF TypeOK, Enter, Unlock
<1>6. ASSUME NEW d \in Calls, d # c, at[d] \in Holding PROVE lock[d] # l
  <2>1. semaphore[lock[d]] = d
    BY <1>6 DEF LockInv, TokenOwned
  <2>2. semaphore[l] \in {None, c}
    BY <1>4 DEF LockInv, TokenOwned, Enter, Unlock, Goto, Holding
  <2> QED
    BY <1>6, <2>1, <2>2
<1>7. at'[c] \in Holding => semaphore'[l] = c
  BY <1>0, <1>4 DEF TypeOK, Enter, Unlock, Goto, Holding
<1>8. TokenOwned'
  <2> SUFFICES ASSUME NEW d \in Calls, at'[d] \in Holding
               PROVE  semaphore'[lock'[d]] = d
    BY DEF TokenOwned
  <2>1. CASE d = c
    BY <1>1, <1>4, <1>7, <2>1
  <2>2. CASE d # c
    <3>1. at[d] \in Holding /\ lock'[d] = lock[d]
      BY <1>1, <2>2
    <3>2. semaphore[lock[d]] = d /\ lock[d] \in Locks
      BY <1>0, <3>1 DEF LockInv, TokenOwned, Referred, Referring, Holding, TypeOK
    <3> QED
      BY <1>5, <1>6, <2>2, <3>1, <3>2
  <2> QED
    BY <2>1, <2>2
<1> QED
  BY <1>3, <1>8 DEF LockFacts

LEMMA LockInvInit == Init => LockInv
<1> SUFFICES ASSUME Init PROVE LockInv
  OBVIOUS
<1>1. TypeOK
  BY InitTyped
<1>2. Referred /\ Injective /\ TokenOwned
  BY DEF Init, Referred, Referring, Injective, TokenOwned, Holding
<1>3. LockTableExact
  BY OoklaAssumption DEF Init, LockTableExact
<1> QED
  BY <1>1, <1>2, <1>3 DEF LockInv

LEMMA LockInvNext == LockInv /\ [Next]_vars => LockInv'
<1> SUFFICES ASSUME LockInv, [Next]_vars PROVE LockInv'
  OBVIOUS
<1>0. TypeOK
  BY DEF LockInv
<1>1. TypeOK'
  BY TypedNext
<1>2. LockFacts'
  <2>1. ASSUME NEW c \in Calls, NEW p \in Plans, Begin(c, p) PROVE LockFacts'
    <3>1. lock[c] = None
      BY <2>1 DEF LockInv, Referred, Referring, Begin, Goto
    <3> QED
      BY <1>0, <2>1, <3>1, FactsKept
         DEF TypeOK, Begin, Goto, Referring, Holding, Home
  <2>2. ASSUME NEW c \in Calls,
               \/ TermsAccepted(c) \/ Found(c) \/ ReturnEarly(c) \/ StartProcess(c)
               \/ ProcessEnds(c)
        PROVE  LockFacts'
    BY <1>0, <2>2, FactsKept
       DEF TypeOK, TermsAccepted, Found, ReturnEarly, StartProcess, ProcessEnds, Goto,
           Referring, Holding, Home
  <2>3. ASSUME NEW c \in Calls, GiveUp(c) PROVE LockFacts'
    BY <2>3, FactsDropped DEF GiveUp, Goto, Places, Referring
  <2>4. ASSUME NEW c \in Calls, Dropped(c) PROVE LockFacts'
    <3>1. PICK to \in {"request", "out"} : at' = [at EXCEPT ![c] = to]
      BY <2>4 DEF Dropped, Goto
    <3>2. at[c] = "dropping" /\ \A d \in Calls : d # c => step'[d] = step[d]
      BY <1>0, <2>4 DEF Dropped, Goto, TypeOK
    <3> QED
      BY <2>4, <3>1, <3>2, FactsDropped DEF Dropped, Places, Referring
  <2>5. CASE UNCHANGED <<lockVars, at, plan, step>>
    BY <2>5, FactsKept DEF Home
  <2>6. ASSUME NEW u \in Uploads,
               \/ BeginUpload(u) \/ LockManager(u) \/ Verified(u) \/ Activate(u)
               \/ Secured(u) \/ InstallFails(u) \/ \E f \in Files : Received(u, f)
        PROVE  UNCHANGED <<lockVars, at, plan, step>>
    BY <2>6 DEF BeginUpload, LockManager, Verified, Activate, Secured, InstallFails, Return,
                Received, callVars
  <2>7. ASSUME \/ \E c \in Calls : ContextEnds(c)
               \/ \E b \in BOOLEAN : SetAcceptance(b)
               \/ UNCHANGED vars
        PROVE  UNCHANGED <<lockVars, at, plan, step>>
    BY <2>7 DEF ContextEnds, SetAcceptance, callVars, vars
  <2> QED
    BY <2>1, <2>2, <2>3, <2>4, <2>5, <2>6, <2>7, FactsReferenced, FactsToken
       DEF Next, CallStep, UploadStep
<1> QED
  BY <1>1, <1>2 DEF LockFacts, LockInv

\* The adapter's variables keep their types; the reference counters in
\* particular never become negative (ookla.go 269).
THEOREM AdapterTyped == Spec => []TypeOK
<1>1. LockInv => TypeOK
  BY DEF LockInv
<1> QED
  BY <1>1, LockInvInit, LockInvNext, PTL DEF Spec

\* The table holds exactly the locks in use, each counted correctly, for any
\* number of calls and paths (ookla.go 236-274).
THEOREM AdapterLocksExact == Spec => []LockTableExact
<1>1. LockInv => LockTableExact
  BY DEF LockInv
<1> QED
  BY <1>1, LockInvInit, LockInvNext, PTL DEF Spec

\* Two processes of the tool never share a home directory, for any number of
\* calls, paths and locks (ookla.go 224-274).
THEOREM AdapterOneProcessPerHome == Spec => []OneProcessPerHome
<1>1. LockInv => OneProcessPerHome
  <2> SUFFICES ASSUME LockInv, NEW c \in Calls, NEW d \in Calls,
                      at[c] = "running", at[d] = "running", Home(c) = Home(d)
               PROVE  c = d
    BY DEF OneProcessPerHome
  <2>1. lock[c] # None /\ lock[d] # None
    BY DEF LockInv, Referred, Referring
  <2>2. lock[c] = lock[d]
    BY <2>1 DEF LockInv, LockTableExact
  <2> QED
    BY <2>2 DEF LockInv, TokenOwned, Holding
<1> QED
  BY <1>1, LockInvInit, LockInvNext, PTL DEF Spec

-----------------------------------------------------------------------------
(* The executable *)

\* Whoever works on the managed path holds the mutex, with a file that passed
\* the checks made so far.
UploadInv ==
  /\ InstalledIsGenuine
  /\ \A u \in Uploads :
       /\ upload[u].at \in {"copying", "verifying", "activating", "securing"} => mu = u
       /\ upload[u].at \in {"verifying", "activating"} =>
            upload[u].file \in Files /\ upload[u].file.elf
       /\ upload[u].at = "activating" => upload[u].file \in Genuine

\* An upload replaces the executable with a file that passed both checks and in
\* one step; one that fails before leaves what it found, whatever uploads
\* overlap or fail (binary_manager.go 115-188).
THEOREM AdapterInstalledIsGenuine == Spec => []InstalledIsGenuine
<1>1. Init => UploadInv
  BY DEF Init, UploadInv, InstalledIsGenuine, NoUpload
<1>2. TypeOK /\ UploadInv /\ [Next]_vars => UploadInv'
  <2> SUFFICES ASSUME TypeOK, UploadInv, [Next]_vars PROVE UploadInv'
    OBVIOUS
  <2> USE OoklaAssumption
  <2>1. ASSUME NEW u \in Uploads, BeginUpload(u) PROVE UploadInv'
    BY <2>1 DEF TypeOK, UploadInv, InstalledIsGenuine, BeginUpload, UploadTo
  <2>2. ASSUME NEW u \in Uploads, LockManager(u) PROVE UploadInv'
    BY <2>2 DEF TypeOK, UploadInv, InstalledIsGenuine, LockManager, UploadTo
  <2>3. ASSUME NEW u \in Uploads, NEW f \in Files, Received(u, f) PROVE UploadInv'
    BY <2>3 DEF TypeOK, UploadInv, InstalledIsGenuine, Received, UploadTo
  <2>4. ASSUME NEW u \in Uploads, Verified(u) PROVE UploadInv'
    <3>1. upload[u].file \in Genuine
      BY <2>4 DEF UploadInv, Verified, UploadTo, Genuine
    <3> QED
      BY <2>4, <3>1 DEF TypeOK, UploadInv, InstalledIsGenuine, Verified, UploadTo
  <2>5. ASSUME NEW u \in Uploads, Activate(u) \/ Secured(u) \/ InstallFails(u)
        PROVE  UploadInv'
    <3>1. CASE Activate(u)
      BY <2>5, <3>1 DEF TypeOK, UploadInv, InstalledIsGenuine, Activate, UploadTo
    <3>2. CASE Secured(u) \/ InstallFails(u)
      BY <2>5, <3>2
         DEF TypeOK, UploadInv, InstalledIsGenuine, Secured, InstallFails, Return, NoUpload
    <3> QED
      BY <2>5, <3>1, <3>2
  <2>6. CASE UNCHANGED <<installed, uploadVars>>
    BY <2>6 DEF UploadInv, InstalledIsGenuine, uploadVars
  <2>7. ASSUME NEW c \in Calls,
               \/ CallStep(c) \/ ProcessEnds(c) \/ ContextEnds(c)
               \/ \E p \in Plans : Begin(c, p)
        PROVE  UNCHANGED <<installed, uploadVars>>
    BY <2>7 DEF CallStep, TermsAccepted, Found, ReturnEarly, Reference, Enter, GiveUp,
                StartProcess, Unlock, Dropped, ProcessEnds, ContextEnds, Begin
  <2>8. ASSUME (\E b \in BOOLEAN : SetAcceptance(b)) \/ UNCHANGED vars
        PROVE  UNCHANGED <<installed, uploadVars>>
    BY <2>8 DEF SetAcceptance, vars
  <2> QED
    BY <2>1, <2>2, <2>3, <2>4, <2>5, <2>6, <2>7, <2>8 DEF Next, UploadStep
<1>3. UploadInv => InstalledIsGenuine
  BY DEF UploadInv
<1> QED
  BY <1>1, <1>2, <1>3, AdapterTyped, PTL DEF Spec
=============================================================================
