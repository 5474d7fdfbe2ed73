--------------------------- MODULE SettingsConsole ---------------------------
(***************************************************************************)
(* The settings page of the web console (src/web/src/pages/                *)
(* SettingsPage.tsx) and the panel for the Ookla terms and the Ookla       *)
(* executable on it (components/common/OoklaEulaAcceptance.tsx).           *)
(*                                                                         *)
(* One row of settings is cached by the browser and shown in a form.  It   *)
(* is replaced by fetches and by the answer of an acknowledgement, and on  *)
(* the server by saves and imports, of this page or of other clients, and  *)
(* each of these requests takes its time.  No event tells the page of a    *)
(* change.  The retention policy stands for the operational settings: two    *)
(* fields, one of which constrains the other.                              *)
(***************************************************************************)
EXTENDS Integers

CONSTANTS
  Executables, TooLarge,   \* files a user may choose, and the ones beyond the limit
  Documents,               \* configuration files: a policy, or Malformed
  Malformed,
  FirstRows,               \* rows the server may hold, or a page have fetched, at first
  MaxWrites, MaxEdits,
  None

Policies == [mode : {"forever", "days"}, value : 0 .. 1]

\* settingsSchema: a bounded retention needs a period.
Valid(p) == p.mode # "forever" => p.value >= 1

\* Settings: the terms are accepted when their source is not "none".
Rows == [policy : {p \in Policies : Valid(p)}, source : {"none", "persisted", "environment"}]
fallbackSettings == [mode |-> "forever", value |-> 0]

\* The requests, and what each is sent with and answered by.
Kinds == {"get", "save", "eula", "install", "import", "cleanup"}
Mutations == Kinds \ {"get"}
Writers == {"save", "import", "eula"}
Arguments(k) ==
  CASE k \in {"save", "import"} -> {p \in Policies : Valid(p)}
    [] k = "eula" -> {"none", "persisted"}
    [] k = "install" -> Executables
    [] OTHER -> {None}
Calls(k) == [arg : Arguments(k), phase : {"asked", "answered"}, answer : Rows \cup {None}]

\* A document that is not malformed holds a policy the server accepts; None
\* is the absence of a row, a policy, a file and a request.
ConstantsApart ==
  /\ Documents \ {Malformed} \subseteq {p \in Policies : Valid(p)}
  /\ FirstRows \subseteq Rows
  /\ None \notin Rows \cup Policies \cup Executables
  /\ \A k \in Kinds : None \notin Calls(k)

VARIABLES
  \* the server
  row, installed,
  \* the query cache: what was fetched, and whether the fetch ended in error
  cache, failed,
  \* requests under way: [arg, phase, answer], or None
  calls,
  \* the form
  form, base, edits,
  \* the terms: the box is ticked, the dialog of the revocation is open
  agreed, revoking, orphans,   \* orphans: requests of a panel that is gone
  \* the executable: the file that was chosen, and the box that vouches for it
  file, confirmed,
  \* the import: files being read, and the document of the open dialog
  reading, pending,
  \* the cleanup: its dialog is open
  cleaning,
  \* history
  writes,      \* mutations that were started, other clients' included
  vouched,     \* files whose box was ticked while they were chosen
  unheard,     \* another client wrote the row, or the answer of a write was
               \* lost, and nothing served since has reached the cache
  overtaken,   \* nor since an acknowledgement's answer crossed a fetch
  reverted     \* the row was changed back to what is cached, under a form that
               \* shows what was saved

rows == <<row, installed>>
formVars == <<form, base, edits>>
panel == <<agreed, revoking, orphans, file, confirmed, vouched>>
dialogs == <<reading, pending, cleaning>>
doubts == <<unheard, overtaken, reverted>>
vars == <<rows, cache, failed, calls, formVars, panel, dialogs, writes, doubts>>

Idle(k) == calls[k] = None
Asked(arg) == [arg |-> arg, phase |-> "asked", answer |-> None]
Shown == cache # None /\ ~failed

\* The dialogs are modal: nothing else can be used while one is open.
Usable == Shown /\ ~revoking /\ pending = None /\ ~cleaning
Accepted == cache # None /\ cache.source # "none"

\* The settings are fetched, unless another page fetched them shortly before;
\* what is cached may be old.
Init ==
  /\ row \in FirstRows
  /\ installed = None
  /\ cache \in FirstRows \cup {None}
  /\ failed = FALSE
  /\ \E get \in {Asked(None)} \cup (IF cache = None THEN {} ELSE {None}) :
       calls = [k \in Kinds |-> IF k = "get" THEN get ELSE None]
  /\ base = (IF cache = None THEN fallbackSettings ELSE cache.policy) /\ form = base
  /\ edits = 0
  /\ agreed = FALSE /\ revoking = FALSE /\ orphans = {} /\ file = None /\ confirmed = FALSE
  /\ reading = {} /\ pending = None /\ cleaning = FALSE
  /\ writes = 0 /\ vouched = {}
  /\ unheard = (cache \notin {None, row}) /\ overtaken = FALSE /\ reverted = FALSE

-----------------------------------------------------------------------------
(* Requests *)

\* A mutation; its button is disabled while the last one is under way.
Start(k, arg) ==
  /\ Idle(k) /\ writes < MaxWrites
  /\ calls' = [calls EXCEPT ![k] = Asked(arg)]
  /\ writes' = writes + 1

\* The operations of the API: the row each makes of the one that is stored.
\* Only the operational settings can be written by the first two.
UpdateSettings(policy) == [row EXCEPT !.policy = policy]
ImportConfiguration(document) == [row EXCEPT !.policy = document]
UpdateOoklaEulaAcceptance(source) ==
  IF row.source = "environment" THEN row ELSE [row EXCEPT !.source = source]
UploadOoklaBinary(executable) == installed' = executable

Written(k, arg) ==
  CASE k = "save" -> UpdateSettings(arg)
    [] k = "import" -> ImportConfiguration(arg)
    [] k = "eula" -> UpdateOoklaEulaAcceptance(arg)
    [] OTHER -> row

\* The row is replaced, maybe by what is cached, beside a form that says
\* something else; then no fetch will reset it.
Write(new) ==
  /\ row' = new
  /\ reverted' = (reverted \/ (new # row /\ new = cache /\ base # new.policy))

\* The server's side of a request.
Serve(k) ==
  LET arg == calls[k].arg  new == Written(k, arg)
  IN /\ ~Idle(k) /\ calls[k].phase = "asked"
     /\ Write(new)
     /\ IF k = "install" THEN UploadOoklaBinary(arg) ELSE UNCHANGED installed
     /\ calls' = [calls EXCEPT ![k].phase = "answered", ![k].answer = new]
     /\ UNCHANGED <<cache, failed, formVars, panel, dialogs, writes, unheard, overtaken>>

\* Another client saves settings, imports a configuration or decides on the
\* terms.  The event settings.updated has no listener.
WriteElsewhere(k, arg) ==
  /\ writes < MaxWrites /\ Written(k, arg) # row
  /\ Write(Written(k, arg))
  /\ writes' = writes + 1 /\ unheard' = TRUE
  /\ UNCHANGED <<installed, cache, failed, calls, formVars, panel, dialogs, overtaken>>

\* The controls of the upload exist only under accepted terms.  When they go
\* they take their state with them, and a request of theirs goes on alone.
PanelFollows(c) ==
  IF c.source # "none" THEN UNCHANGED <<file, confirmed>> ELSE file' = None /\ confirmed' = FALSE
Orphaned(c) == orphans \cup {k \in {"install"} : c.source = "none" /\ ~Idle(k)}

\* New data of the query, unless it equals the old, resets the form.
Cached(c) ==
  /\ cache' = c /\ failed' = FALSE
  /\ IF c = cache THEN UNCHANGED <<form, base, reverted>>
     ELSE form' = c.policy /\ base' = c.policy /\ reverted' = FALSE
  /\ PanelFollows(c)

\* Mutant: the fetch that is under way is good enough.
InvalidatedLazily(done) ==
  [calls EXCEPT ![done] = None, !["get"] = IF @ = None THEN Asked(None) ELSE @]

\* invalidateQueries: a fetch that is under way is given up for a new one.
Invalidated(done) == [calls EXCEPT ![done] = None, !["get"] = Asked(None)]

Arrived(k) == ~Idle(k) /\ calls[k].phase = "answered"

FetchArrives ==
  /\ Arrived("get")
  /\ Cached(calls["get"].answer)
  /\ orphans' = Orphaned(calls["get"].answer)
  /\ calls' = [calls EXCEPT !["get"] = None]
  /\ LET old == calls["get"].answer # row
     IN unheard' = (unheard /\ old) /\ overtaken' = (overtaken /\ old)
  /\ UNCHANGED <<rows, edits, agreed, revoking, vouched, dialogs, writes>>

\* The retries are used up, or the server refused: an error takes the place
\* of the page until a retry succeeds.
FetchFails ==
  /\ ~Idle("get")
  /\ failed' = TRUE
  /\ agreed' = FALSE /\ revoking' = FALSE /\ file' = None /\ confirmed' = FALSE
  /\ orphans' = orphans \cup {k \in {"eula", "install"} : ~Idle(k)}
  /\ calls' = [calls EXCEPT !["get"] = None]
  /\ UNCHANGED <<rows, cache, formVars, vouched, dialogs, writes, doubts>>

\* Try again, or the event stream has been opened again; the first fetch is
\* never given up for another.
Refetch ==
  /\ calls' = IF cache = None /\ ~Idle("get") THEN calls ELSE Invalidated("get")
  /\ UNCHANGED <<rows, cache, failed, formVars, panel, dialogs, writes, doubts>>

\* The server refuses a mutation, or its answer is lost; a message is shown.
MutationFails(k) ==
  /\ ~Idle(k)
  /\ calls' = [calls EXCEPT ![k] = None]
  /\ orphans' = orphans \ {k}
  /\ unheard' = (unheard \/ (k \in Writers /\ calls[k].phase = "answered"))
  /\ UNCHANGED <<rows, cache, failed, formVars, agreed, revoking, file, confirmed, vouched,
                 dialogs, writes, overtaken, reverted>>

-----------------------------------------------------------------------------
(* The form *)

\* The period can be edited only beside a bounded policy.
Edit(p) ==
  /\ Usable /\ edits < MaxEdits /\ p # form
  /\ p.value # form.value => p.mode = form.mode /\ form.mode # "forever"
  /\ form' = p /\ edits' = edits + 1
  /\ UNCHANGED <<rows, cache, failed, calls, base, panel, dialogs, writes, doubts>>

Save ==
  /\ Usable /\ form # base /\ Valid(form)
  /\ Start("save", form)
  /\ UNCHANGED <<rows, cache, failed, formVars, panel, dialogs, doubts>>

\* The form takes the answer, whatever was typed since, and the cache is
\* fetched again.
SaveArrives ==
  /\ Arrived("save")
  /\ form' = calls["save"].answer.policy /\ base' = form'
  /\ reverted' = (cache = row /\ base' # row.policy)
  /\ calls' = Invalidated("save")
  /\ UNCHANGED <<rows, cache, failed, edits, panel, dialogs, writes, unheard, overtaken>>

-----------------------------------------------------------------------------
(* The terms and the executable *)

Agree(b) ==
  /\ Usable /\ ~Accepted /\ agreed # b
  /\ agreed' = b
  /\ UNCHANGED <<rows, cache, failed, calls, formVars, revoking, orphans, file, confirmed, vouched,
                 dialogs, writes, doubts>>

RecordAcknowledgement ==
  /\ Usable /\ ~Accepted /\ agreed
  /\ Start("eula", "persisted")
  /\ UNCHANGED <<rows, cache, failed, formVars, panel, dialogs, doubts>>

AskRevocation(b) ==
  /\ Accepted /\ revoking # b /\ (IF b THEN Usable ELSE Shown)
  /\ b => Idle("eula") /\ cache.source # "environment"
  /\ revoking' = b
  /\ UNCHANGED <<rows, cache, failed, calls, formVars, agreed, orphans, file, confirmed, vouched, dialogs,
                 writes, doubts>>

\* Confirming closes the dialog.
Revoke ==
  /\ Shown /\ Accepted /\ revoking /\ cache.source # "environment"
  /\ Start("eula", "none")
  /\ revoking' = FALSE
  /\ UNCHANGED <<rows, cache, failed, formVars, agreed, orphans, file, confirmed, vouched, dialogs,
                 doubts>>

\* A fetch that was served before the row became what it is comes after the
\* acknowledgement's answer, or what the row became since was shown before it;
\* no other answer is there that has the row fetched again.
CrossesFetch ==
  /\ \/ Arrived("get") /\ calls["get"].answer # row
     \/ Idle("get") /\ calls["eula"].answer # row
  /\ ~Arrived("save") /\ ~Arrived("import")

AcknowledgementApplied ==
  /\ Arrived("eula")
  /\ Cached(calls["eula"].answer)
  /\ orphans' = Orphaned(calls["eula"].answer) \ {"eula"}
  /\ IF "eula" \in orphans THEN UNCHANGED <<agreed, revoking>>
     ELSE agreed' = FALSE /\ revoking' = FALSE
  /\ overtaken' = (overtaken \/ CrossesFetch)
  /\ UNCHANGED <<rows, edits, vouched, dialogs, writes, unheard>>

\* Mutant: a fetch that is under way is given up.
AcknowledgementCancels ==
  /\ AcknowledgementApplied
  /\ calls' = [calls EXCEPT !["eula"] = None, !["get"] = None]

\* The answer is written into the cache over whatever is there; a fetch that
\* is under way goes on.
AcknowledgementArrives ==
  /\ AcknowledgementApplied
  /\ calls' = [calls EXCEPT !["eula"] = None]

\* Mutant: the box stays ticked for the next file.
ChooseExecutableStill(f) ==
  /\ Usable /\ Accepted
  /\ file' = f
  /\ UNCHANGED <<rows, cache, failed, calls, formVars, agreed, revoking, orphans, confirmed, vouched,
                 dialogs, writes, doubts>>

\* The input itself is never disabled, only the button that opens it.
ChooseExecutable(f) ==
  /\ Usable /\ Accepted
  /\ file' = f /\ confirmed' = FALSE
  /\ UNCHANGED <<rows, cache, failed, calls, formVars, agreed, revoking, orphans, vouched, dialogs,
                 writes, doubts>>

Confirm(b) ==
  /\ Usable /\ Accepted /\ confirmed # b
  /\ file # None /\ file \notin TooLarge /\ Idle("install")
  /\ confirmed' = b
  /\ vouched' = IF b THEN vouched \cup {file} ELSE vouched
  /\ UNCHANGED <<rows, cache, failed, calls, formVars, agreed, revoking, orphans, file, dialogs, writes,
                 doubts>>

Install ==
  /\ Usable /\ Accepted /\ confirmed /\ file # None /\ file \notin TooLarge
  /\ Start("install", file)
  /\ UNCHANGED <<rows, cache, failed, formVars, panel, dialogs, doubts>>

\* The panel forgets the file that is chosen by then.
InstallArrives ==
  /\ Arrived("install")
  /\ IF "install" \in orphans THEN UNCHANGED <<file, confirmed>>
     ELSE file' = None /\ confirmed' = FALSE
  /\ orphans' = orphans \ {"install"}
  /\ calls' = [calls EXCEPT !["install"] = None]
  /\ UNCHANGED <<rows, cache, failed, formVars, agreed, revoking, vouched, dialogs, writes,
                 doubts>>

-----------------------------------------------------------------------------
(* Import and cleanup *)

\* selectConfiguration: files are read one beside the other, and the one that
\* is read last is the one the dialog shows.
SelectConfiguration(d) ==
  /\ Usable /\ d \notin reading /\ Idle("import")
  /\ reading' = reading \cup {d}
  /\ UNCHANGED <<rows, cache, failed, calls, formVars, panel, pending, cleaning, writes, doubts>>

\* parseConfigurationPreview rejects what is no configuration.
FileRead(d) ==
  /\ d \in reading
  /\ reading' = reading \ {d}
  /\ pending' = IF d = Malformed THEN pending ELSE d
  /\ UNCHANGED <<rows, cache, failed, calls, formVars, panel, cleaning, writes, doubts>>

CloseImport ==
  /\ Shown /\ pending # None /\ Idle("import")
  /\ pending' = None
  /\ UNCHANGED <<rows, cache, failed, calls, formVars, panel, reading, cleaning, writes, doubts>>

ConfirmImport ==
  /\ Shown /\ pending # None
  /\ Start("import", pending)
  /\ pending' = None
  /\ UNCHANGED <<rows, cache, failed, formVars, panel, reading, cleaning, doubts>>

ImportArrives ==
  /\ Arrived("import")
  /\ pending' = None
  /\ calls' = Invalidated("import")
  /\ UNCHANGED <<rows, cache, failed, formVars, panel, reading, cleaning, writes, doubts>>

AskCleanup(b) ==
  /\ cleaning # b /\ (IF b THEN Usable ELSE Shown)
  /\ b => form.mode # "forever"
  /\ cleaning' = b
  /\ UNCHANGED <<rows, cache, failed, calls, formVars, panel, reading, pending, writes, doubts>>

ConfirmCleanup ==
  /\ Shown /\ cleaning
  /\ Start("cleanup", None)
  /\ cleaning' = FALSE
  /\ UNCHANGED <<rows, cache, failed, formVars, panel, reading, pending, doubts>>

CleanupArrives ==
  /\ Arrived("cleanup")
  /\ cleaning' = FALSE
  /\ calls' = [calls EXCEPT !["cleanup"] = None]
  /\ UNCHANGED <<rows, cache, failed, formVars, panel, reading, pending, writes, doubts>>

-----------------------------------------------------------------------------
Next ==
  \/ \E k \in Kinds : Serve(k)
  \/ \E k \in Writers : \E arg \in Arguments(k) : WriteElsewhere(k, arg)
  \/ \E k \in Mutations : MutationFails(k)
  \/ FetchArrives \/ FetchFails \/ Refetch
  \/ \E p \in Policies : Edit(p)
  \/ Save \/ SaveArrives
  \/ \E b \in BOOLEAN : Agree(b) \/ AskRevocation(b) \/ Confirm(b) \/ AskCleanup(b)
  \/ RecordAcknowledgement \/ Revoke \/ AcknowledgementArrives
  \/ \E f \in Executables \cup {None} : ChooseExecutable(f)
  \/ Install \/ InstallArrives
  \/ \E d \in Documents : SelectConfiguration(d) \/ FileRead(d)
  \/ CloseImport \/ ConfirmImport \/ ImportArrives
  \/ ConfirmCleanup \/ CleanupArrives

Spec == Init /\ [][Next]_vars

-----------------------------------------------------------------------------
(* Properties *)

\* Once every request has been answered, the cache and the form's defaults are
\* the row of the server, in whatever order fetches, saves, acknowledgements and
\* imports were served and answered.  Until the next fetch the page cannot know
\* of writes of other clients and of those whose answer was lost; nor, because
\* the answer of an acknowledgement is cached beside the fetches, of what such an
\* answer and a fetch replaced when they came in the other order than they were
\* served.  And a form stays as it was saved when the row goes back to what is
\* still cached.
SettlesOnServer ==
  (/\ \A k \in Kinds : Idle(k)
   /\ Shown /\ ~unheard /\ ~overtaken)
    => cache = row /\ (base = row.policy \/ reverted)

\* The executable on the server is one the user vouched for while it was the
\* one he had chosen.
InstallVouched == installed # None => installed \in vouched
=============================================================================
