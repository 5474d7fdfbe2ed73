----------------------------- MODULE OoklaAdapter -----------------------------
(***************************************************************************)
(* The Ookla adapter (src/internal/providers/ookla/ookla.go) and the       *)
(* manager of its executable (binary_manager.go).                          *)
(*                                                                         *)
(* Workers, discovery requests, task preflights and the list of providers  *)
(* call the adapter concurrently.  A call runs the command line tool up to *)
(* three times: for its version in the default home directory, for the     *)
(* servers or the test in the home directory of the network path, and for  *)
(* the version again.  The tool keeps its settings in its home directory,  *)
(* so a lock per directory admits one process at a time.  Locks are made   *)
(* on demand, counted, and dropped from the table with their last user.    *)
(*                                                                         *)
(* The container ends with the server, and with it every process the       *)
(* server started.                                                         *)
(***************************************************************************)
EXTENDS Integers, FiniteSets

CONSTANTS
  Calls,    \* goroutines that may be inside the adapter
  Homes,    \* home directories of the tool, one per network path
  Default,  \* the home directory of calls without a path
  Lengths,  \* how many processes a call may need, see Plans
  Locks,    \* objects of type runtimeLock
  Uploads,  \* handlers that may be inside uploadOoklaBinary
  Versions, \* versions of the tool its output may name
  None

ASSUME OoklaAssumption ==
  /\ IsFiniteSet(Calls)
  /\ Default \in Homes
  /\ Lengths \subseteq 1 .. 3
  /\ None \notin Homes \cup Locks \cup Calls \cup Uploads \cup Versions

VARIABLES
  accepted,      \* the effective acknowledgement of the vendor's terms
  installed,     \* the executable at the managed path
  runtimeLocks,  \* Adapter.runtimeLocks
  references,    \* references[l]: runtimeLock.references
  semaphore,     \* semaphore[l]: the call whose token is in the channel
  at,            \* at[c]: where a call is
  plan,          \* plan[c]: the path of a call and how many processes it needs
  step,          \* step[c]: which of them is due
  lock,          \* lock[c]: the lock the call has a reference to
  over,          \* calls whose context is over
  mu,            \* the upload that holds BinaryManager.mu
  upload         \* upload[u]: where an upload is, the file it received, and the
                 \* executable that was installed when it took mu, until it is
                 \* replaced

lockVars == <<runtimeLocks, references, semaphore, lock>>
callVars == <<at, plan, step, over>>
uploadVars == <<mu, upload>>
vars == <<accepted, installed, lockVars, callVars, uploadVars>>

-----------------------------------------------------------------------------
\* What the checks of an upload tell apart: an ELF file for the platform or
\* not, the version its output names, None when it does not identify the tool.
Files == [elf : BOOLEAN, version : Versions \cup {None}]
Genuine == {f \in Files : f.elf /\ f.version # None}

\* Availability runs one process, ListServers two, Run three.  Their callers
\* insist on an interface, so the path never has the default home directory.
Plans == [path : Homes \ {Default}, last : Lengths]

Places == {"out", "terms", "lookup", "request", "waiting", "starting", "running",
           "releasing", "dropping"}

UploadStates == [at : {"out", "locking", "copying", "verifying", "activating",
                       "securing"},
                 file : Files \cup {None},
                 previous : Files \cup {None}]

TypeOK ==
  /\ accepted \in BOOLEAN
  /\ installed \in Files \cup {None}
  /\ runtimeLocks \in [Homes -> Locks \cup {None}]
  /\ references \in [Locks -> Nat]
  /\ semaphore \in [Locks -> Calls \cup {None}]
  /\ at \in [Calls -> Places]
  /\ plan \in [Calls -> Plans]
  /\ step \in [Calls -> 1 .. 3]
  /\ lock \in [Calls -> Locks \cup {None}]
  /\ over \subseteq Calls
  /\ mu \in Uploads \cup {None}
  /\ upload \in [Uploads -> UploadStates]

\* processRequest: the home directory of the process that is due.
Home(c) == IF step[c] = 2 THEN plan[c].path ELSE Default

NoUpload == [at |-> "out", file |-> None, previous |-> None]

Init ==
  /\ accepted \in BOOLEAN
  /\ installed \in Genuine \cup {None}
  /\ runtimeLocks = [h \in Homes |-> None]
  /\ references = [l \in Locks |-> 0]
  /\ semaphore = [l \in Locks |-> None]
  /\ at = [c \in Calls |-> "out"]
  /\ plan \in [Calls -> Plans]
  /\ step = [c \in Calls |-> 1]
  /\ lock = [c \in Calls |-> None]
  /\ over = {}
  /\ mu = None
  /\ upload = [u \in Uploads |-> NoUpload]

-----------------------------------------------------------------------------
(* Calls *)

Goto(c, from, to) == at[c] = from /\ at' = [at EXCEPT ![c] = to]

\* Availability, ListServers or Run is called with a fresh context.
Begin(c, p) ==
  /\ Goto(c, "out", "terms")
  /\ plan' = [plan EXCEPT ![c] = p]
  /\ step' = [step EXCEPT ![c] = 1]
  /\ over' = over \ {c}
  /\ UNCHANGED <<accepted, installed, lockVars, uploadVars>>

\* Mutant: the acknowledgement is not looked at.
TermsIgnored(c) ==
  /\ Goto(c, "terms", "lookup")
  /\ UNCHANGED <<accepted, installed, lockVars, plan, step, over, uploadVars>>

\* The acknowledgement is read; a call without it, or one that cannot read
\* it, returns.
TermsAccepted(c) ==
  /\ accepted
  /\ Goto(c, "terms", "lookup")
  /\ UNCHANGED <<accepted, installed, lockVars, plan, step, over, uploadVars>>

\* exec.LookPath finds the executable.
Found(c) ==
  /\ installed # None
  /\ Goto(c, "lookup", "request")
  /\ UNCHANGED <<accepted, installed, lockVars, plan, step, over, uploadVars>>

\* Every return before a process is asked for: the terms are not accepted or
\* cannot be read, the executable is missing, the target or the home directory
\* is not as it should be.
ReturnEarly(c) ==
  /\ \/ at[c] \in {"terms", "request"}
     \/ at[c] = "lookup" /\ installed = None
  /\ at' = [at EXCEPT ![c] = "out"]
  /\ UNCHANGED <<accepted, installed, lockVars, plan, step, over, uploadVars>>

\* No variable of the program refers to the lock any more.
Unused(l) ==
  /\ \A c \in Calls : lock[c] # l
  /\ \A h \in Homes : runtimeLocks[h] # l

\* acquireRuntimeLock, first part: one more reference to the lock in the
\* table, or to a new one.
Reference(c) ==
  /\ Goto(c, "request", "waiting")
  /\ LET h == Home(c) IN
     \/ /\ runtimeLocks[h] # None
        /\ lock' = [lock EXCEPT ![c] = runtimeLocks[h]]
        /\ references' = [references EXCEPT ![runtimeLocks[h]] = @ + 1]
        /\ UNCHANGED <<runtimeLocks, semaphore>>
     \/ /\ runtimeLocks[h] = None
        /\ \E l \in Locks :
             /\ Unused(l)
             /\ lock' = [lock EXCEPT ![c] = l]
             /\ runtimeLocks' = [runtimeLocks EXCEPT ![h] = l]
             /\ references' = [references EXCEPT ![l] = 1]
             /\ semaphore' = [semaphore EXCEPT ![l] = None]
  /\ UNCHANGED <<accepted, installed, plan, step, over, uploadVars>>

\* The select sends into the channel of one token ...
Enter(c) ==
  /\ Goto(c, "waiting", "starting")
  /\ semaphore[lock[c]] = None
  /\ semaphore' = [semaphore EXCEPT ![lock[c]] = c]
  /\ UNCHANGED <<accepted, installed, runtimeLocks, references, lock,
                 plan, step, over, uploadVars>>

\* Mutant: the lock leaves the table although others still use it.
DropLock(c) ==
  LET l == lock[c] IN
  /\ references' = [references EXCEPT ![l] = @ - 1]
  /\ runtimeLocks' = [runtimeLocks EXCEPT ![Home(c)] = None]
  /\ lock' = [lock EXCEPT ![c] = None]

\* Mutant: the reference is given back twice.
DropTwice(c) ==
  LET l == lock[c] IN
  /\ references' = [references EXCEPT ![l] = @ - 2]
  /\ runtimeLocks' = [h \in Homes |->
       IF h = Home(c) /\ references[l] = 2 /\ runtimeLocks[h] = l
       THEN None ELSE runtimeLocks[h]]
  /\ lock' = [lock EXCEPT ![c] = None]

\* releaseRuntimeLockReference: the last reference takes the lock out of the
\* table, if it is still there.
DropReference(c) ==
  LET l == lock[c] IN
  /\ references' = [references EXCEPT ![l] = @ - 1]
  /\ runtimeLocks' = [h \in Homes |->
       IF h = Home(c) /\ references[l] = 1 /\ runtimeLocks[h] = l
       THEN None ELSE runtimeLocks[h]]
  /\ lock' = [lock EXCEPT ![c] = None]

\* Mutant: the context is looked at only when the semaphore is free.
GivesUpLate(c) ==
  /\ Goto(c, "waiting", "out")
  /\ c \in over /\ semaphore[lock[c]] = None
  /\ DropReference(c)
  /\ UNCHANGED <<semaphore, accepted, installed, plan, step, over, uploadVars>>

\* Mutant: a call that gives up keeps its reference.
GivesUpQuietly(c) ==
  /\ Goto(c, "waiting", "out")
  /\ c \in over
  /\ lock' = [lock EXCEPT ![c] = None]
  /\ UNCHANGED <<runtimeLocks, references, semaphore, accepted, installed,
                 plan, step, over, uploadVars>>

\* ... or receives from ctx.Done(), and the call returns the error.
GiveUp(c) ==
  /\ Goto(c, "waiting", "out")
  /\ c \in over
  /\ DropReference(c)
  /\ UNCHANGED <<semaphore, accepted, installed, plan, step, over, uploadVars>>

\* ExecRunner.Run starts the process, unless the context is over.
StartProcess(c) ==
  /\ Goto(c, "starting", "running")
  /\ c \notin over
  /\ UNCHANGED <<accepted, installed, lockVars, plan, step, over, uploadVars>>

\* The process cannot be started, or ends: by itself, or killed with its group
\* when the context is over.
ProcessEnds(c) ==
  /\ at[c] \in {"starting", "running"}
  /\ at' = [at EXCEPT ![c] = "releasing"]
  /\ UNCHANGED <<accepted, installed, lockVars, plan, step, over, uploadVars>>

\* The deferred release: the token leaves the channel ...
Unlock(c) ==
  /\ Goto(c, "releasing", "dropping")
  /\ semaphore' = [semaphore EXCEPT ![lock[c]] = None]
  /\ UNCHANGED <<accepted, installed, runtimeLocks, references, lock,
                 plan, step, over, uploadVars>>

\* ... and then the reference goes.  The call asks for its next process, or
\* returns: after its last one, or because this one failed.
Dropped(c) ==
  /\ \/ /\ Goto(c, "dropping", "request")
        /\ step[c] < plan[c].last
        /\ step' = [step EXCEPT ![c] = @ + 1]
     \/ Goto(c, "dropping", "out") /\ UNCHANGED step
  /\ DropReference(c)
  /\ UNCHANGED <<semaphore, accepted, installed, plan, over, uploadVars>>

\* The timeout of a call expires, or its caller cancels it.
ContextEnds(c) ==
  /\ at[c] # "out"
  /\ c \notin over
  /\ over' = over \cup {c}
  /\ UNCHANGED <<accepted, installed, lockVars, at, plan, step, uploadVars>>

CallStep(c) ==
  \/ TermsAccepted(c) \/ Found(c) \/ ReturnEarly(c) \/ Reference(c) \/ Enter(c)
  \/ GiveUp(c) \/ StartProcess(c) \/ Unlock(c) \/ Dropped(c)

-----------------------------------------------------------------------------
(* The executable and the acknowledgement *)

UploadTo(u, from, to, f, p) ==
  /\ upload[u].at = from
  /\ upload' = [upload EXCEPT ![u] = [at |-> to, file |-> f, previous |-> p]]

\* uploadOoklaBinary reads the acknowledgement before it calls Install.
BeginUpload(u) ==
  /\ accepted
  /\ UploadTo(u, "out", "locking", None, None)
  /\ UNCHANGED <<accepted, installed, lockVars, callVars, mu>>

\* Mutant: Install does not take the mutex.
LockNothing(u) ==
  /\ mu' = u
  /\ UploadTo(u, "locking", "copying", None, installed)
  /\ UNCHANGED <<accepted, installed, lockVars, callVars>>

LockManager(u) ==
  /\ mu = None
  /\ mu' = u
  /\ UploadTo(u, "locking", "copying", None, installed)
  /\ UNCHANGED <<accepted, installed, lockVars, callVars>>

\* The body is in a temporary file, complete and within its limit, and it is
\* an executable of the platform: it is run for its version, in a home
\* directory of its own.
Received(u, f) ==
  /\ f.elf
  /\ UploadTo(u, "copying", "verifying", f, upload[u].previous)
  /\ UNCHANGED <<accepted, installed, lockVars, callVars, mu>>

Verified(u) ==
  /\ UploadTo(u, "verifying", "activating", upload[u].file, upload[u].previous)
  /\ upload[u].file.version # None
  /\ UNCHANGED <<accepted, installed, lockVars, callVars, mu>>

\* The temporary file is renamed over the managed path ...
Activate(u) ==
  /\ UploadTo(u, "activating", "securing", upload[u].file, None)
  /\ installed' = upload[u].file
  /\ UNCHANGED <<accepted, lockVars, callVars, mu>>

\* Install returns and unlocks the manager.
Return(u, from) ==
  /\ upload[u].at \in from
  /\ upload' = [upload EXCEPT ![u] = NoUpload]
  /\ mu' = None
  /\ UNCHANGED <<accepted, installed, lockVars, callVars>>

\* ... and its permissions are set again: the answer reports its version.
Secured(u) == Return(u, {"securing"})

\* Every failing return of Install.  Before the rename the temporary file is
\* removed.  When the permissions cannot be set the answer is an error as well,
\* but the new executable is in place.
InstallFails(u) == Return(u, {"copying", "verifying", "activating", "securing"})

\* SetOoklaEULAAcceptance records or revokes the acknowledgement.
SetAcceptance(b) ==
  /\ accepted' = b
  /\ UNCHANGED <<installed, lockVars, callVars, uploadVars>>

UploadStep(u) ==
  \/ LockManager(u) \/ Verified(u) \/ Activate(u) \/ Secured(u) \/ InstallFails(u)

Next ==
  \/ \E c \in Calls :
       CallStep(c) \/ ProcessEnds(c) \/ ContextEnds(c) \/ \E p \in Plans : Begin(c, p)
  \/ \E u \in Uploads :
       UploadStep(u) \/ BeginUpload(u) \/ \E f \in Files : Received(u, f)
  \/ \E b \in BOOLEAN : SetAcceptance(b)

Spec == Init /\ [][Next]_vars

\* Goroutines are scheduled fairly, every context has a timeout, and a process
\* does not survive the end of its context.  Nothing is assumed of a process
\* before, of clients or of the operator.
Fairness ==
  /\ \A c \in Calls :
       /\ WF_vars(CallStep(c))
       /\ WF_vars(ContextEnds(c))
       /\ WF_vars(c \in over /\ ProcessEnds(c))
  /\ \A u \in Uploads : WF_vars(UploadStep(u))

FairSpec == Spec /\ Fairness

-----------------------------------------------------------------------------
(* Properties *)

Users(l) == {c \in Calls : lock[c] = l}

\* Two processes never share a home directory, although locks come and go
\* while calls wait for them: a lock that was dropped from the table too early
\* would let a second one be made for the same directory (ookla.go 233-274).
OneProcessPerHome == \A c, d \in Calls :
  at[c] = "running" /\ at[d] = "running" /\ c # d => Home(c) # Home(d)

\* The table holds exactly the locks in use, each with the number of its
\* users, so that it neither grows with every path ever used nor forgets a
\* waiter, however waits are cancelled (ookla.go 236-274).
LockTableExact ==
  /\ \A h \in Homes, l \in Locks : runtimeLocks[h] = l =>
       Users(l) # {} /\ references[l] = Cardinality(Users(l))
  /\ \A c \in Calls : lock[c] # None => runtimeLocks[Home(c)] = lock[c]

\* An upload replaces the executable only with a file that passed its checks,
\* and only as a whole, although uploads overlap and fail at any point: what is
\* installed is always genuine; until its rename an upload finds what it found
\* when it began, so that one that fails leaves the previous executable in place
\* (docs/providers.md 35), whatever other uploads do meanwhile; and after it the
\* file in place is the one it verified, whose version it is about to report.
\* An upload that fails between the two has replaced the executable: its error
\* says that the permissions could not be set (binary_manager.go 178-184).
InstalledIsGenuine ==
  /\ installed \in Genuine \cup {None}
  /\ \A u \in Uploads :
       /\ upload[u].at \in {"copying", "verifying", "activating"} =>
            installed = upload[u].previous
       /\ upload[u].at = "securing" => installed = upload[u].file

\* Every call returns, also when others come all the time: a call whose context
\* is over does not depend on the holder of the lock.
CallsReturn == \A c \in Calls : at[c] # "out" ~> at[c] = "out"

\* Once the acknowledgement is revoked for good, the tool is not run any more,
\* although calls under way looked at it before (docs/providers.md 71).
RevocationStops ==
  <>[](~accepted) => <>[](\A c \in Calls : at[c] # "running")
=============================================================================
