----------------------------- MODULE TaskEditor -----------------------------
(***************************************************************************)
(* The task editor of the web console                                      *)
(* (src/web/src/pages/TaskEditorPage.tsx).                                 *)
(*                                                                         *)
(* The form lives beside a query cache: a refetch, caused by an event of   *)
(* the server or by a reconnect, gives the fields the user has not changed *)
(* new values under his hands.  Preflights and saves are requests whose    *)
(* answers arrive while he goes on editing; a save of his own is refetched *)
(* once it is served, before its answer or without one; and other clients  *)
(* edit the same task.  Fields that no condition of the page tells apart are one:   *)
(* name stands for the texts that are trimmed, timing for the schedule and *)
(* the guard rails, custom for the options of a LibreSpeed backend.        *)
(***************************************************************************)
EXTENDS Integers, Sequences

CONSTANTS
  Names, Trim,       \* texts, and Trim[n]: the text without white space around
  Interfaces,
  Addresses,         \* Addresses[ip]: its interface, family and scope
  RouteProfiles,     \* RouteProfiles[id]: the path a profile is for
  Servers,           \* server identifiers discovery can return
  Urls,              \* backend addresses: [valid, plain]
  Endpoints,         \* relative endpoints: the marks and segments they have
  Timings, ValidTimings,
  CustomServers,     \* the customServerUrls capability of LibreSpeed
  StoredTasks,       \* rows of the task; the profile of one may have been moved since
  Defaults,          \* Defaults: the timings settings may lead to
  FallbackTiming,    \* the timing of the fallback settings
  MaxEdits, MaxForeign, MaxSaves,
  Blank, Null, None

Providers == {"ookla", "librespeed", "cloudflare"}
Modes == {"automatic", "fixed", "custom"}
Families == {"auto", "ipv4", "ipv6"}
Sources == DOMAIN Addresses
Profiles == DOMAIN RouteProfiles
Customs == [endpoint : Endpoints \cup {Blank}, allowInsecure : BOOLEAN]
NoCustom == [endpoint |-> Blank, allowInsecure |-> FALSE]

\* TaskFormValues, and the same fields of a Task, whose profile may be null.
FormValues ==
  [name : Names, enabled : BOOLEAN, provider : Providers, serverSelectionMode : Modes,
   serverId : Servers \cup {Blank}, serverUrl : Urls \cup {Blank}, custom : Customs,
   ipFamily : Families, interfaceName : Interfaces \cup {Blank},
   sourceIp : Sources \cup {Blank}, routeProfileId : Profiles \cup {Blank},
   timing : Timings]
TaskInputs ==
  [name : Names, enabled : BOOLEAN, provider : Providers, serverSelectionMode : Modes,
   serverId : Servers \cup {Blank}, serverUrl : Urls \cup {Blank}, custom : Customs,
   ipFamily : Families, interfaceName : Interfaces \cup {Blank},
   sourceIp : Sources \cup {Blank}, routeProfileId : Profiles \cup {Null},
   timing : Timings]
Fields == {"name", "enabled", "provider", "serverSelectionMode", "serverId", "serverUrl",
           "custom", "ipFamily", "interfaceName", "sourceIp", "routeProfileId", "timing"}

PathFields == {"interfaceName", "sourceIp", "routeProfileId"}

ASSUME EditorAssumption ==
  /\ Blank \in Names /\ Trim \in [Names -> Names]
  /\ Blank \notin Interfaces \cup Sources \cup Profiles \cup Servers \cup Urls \cup Endpoints
  /\ Null \notin Profiles
  /\ CustomServers \in BOOLEAN
  /\ StoredTasks \subseteq TaskInputs
  /\ Defaults \subseteq Timings /\ FallbackTiming \in Timings
  /\ None \notin TaskInputs
  /\ {MaxEdits, MaxForeign, MaxSaves} \subseteq Nat

VARIABLES
  \* the server
  stored,      \* the row of the task, None while it does not exist
  \* the query cache
  cached,      \* taskQuery.data
  timingOf,    \* the timing that follows from settingsQuery.settings
  failed,      \* a query is in error, and the page shows that instead of the form
  \* the form
  form, base, dirty,
  \* the page
  editing,     \* the address names a task, which is edited; or a new one is made
  shown,       \* the page is mounted
  step,
  preflight,   \* the answer of the latest preflight and the document it is for
  validating,  \* the document of the preflight that is under way
  inflight,    \* numbers of the save requests that are under way
  served,      \* those of them the server has stored and not answered yet
  \* history
  sent,        \* the documents of all save requests
  verdict,     \* the document the latest preflight passed on the server
  touched,     \* fields the user changed or an input of his cleared
  refilled,    \* a changed task was fetched since the user's last input to the path
  edits, foreign

rows == <<stored, foreign>>
cache == <<cached, timingOf, failed>>
formVars == <<form, base, dirty, touched, refilled, edits>>
page == <<editing, shown, step>>
requests == <<preflight, validating, verdict, inflight, served, sent>>
vars == <<rows, cache, formVars, page, requests>>

-----------------------------------------------------------------------------
(* The schema and the conversions *)

\* customEndpointSchema and isSafeCustomEndpoint: no mark that leaves the
\* backend's base address, and a path whose segments decode to names.
SafeEndpoint(e) ==
  /\ e.marks \cap {"control", "leading slash", "backslash", "encoded separator",
                   "fragment", "scheme", "userinfo"} = {}
  /\ e.segments # {}
  /\ e.segments \cap {"empty", "dot", "dotdot", "undecodable"} = {}

\* taskSchema: the single fields ...
FieldsValid(v) ==
  /\ Trim[v.name] # Blank
  /\ v.interfaceName # Blank /\ v.sourceIp # Blank
  /\ v.timing \in ValidTimings
  /\ v.custom.endpoint # Blank => SafeEndpoint(v.custom.endpoint)

\* ... and what they require of each other.
Refined(v) ==
  /\ v.provider = "cloudflare" => v.serverSelectionMode = "automatic"
  /\ v.serverSelectionMode = "fixed" => v.serverId # Blank
  /\ v.serverSelectionMode = "custom" =>
       /\ v.provider = "librespeed"
       /\ v.serverUrl # Blank /\ v.serverUrl.valid
       /\ v.serverUrl.plain => v.custom.allowInsecure

Valid(v) == FieldsValid(v) /\ Refined(v)

\* The parsed values, which handleSubmit passes on: texts are trimmed.
Parsed(v) == [v EXCEPT !.name = Trim[@]]

\* stepFields: what Continue validates on each step.
StepValid(s, v) ==
  CASE s = 0 -> Trim[v.name] # Blank
    [] s = 1 -> /\ v.interfaceName # Blank /\ v.sourceIp # Blank
                /\ v.custom.endpoint # Blank => SafeEndpoint(v.custom.endpoint)
                /\ Refined(v)
    [] s = 2 -> v.timing \in ValidTimings
    [] OTHER -> TRUE

newTaskFormValues(t) ==
  [name |-> Blank, enabled |-> TRUE, provider |-> "cloudflare",
   serverSelectionMode |-> "automatic", serverId |-> Blank, serverUrl |-> Blank,
   custom |-> NoCustom, ipFamily |-> "auto", interfaceName |-> Blank, sourceIp |-> Blank,
   routeProfileId |-> Blank, timing |-> t]

taskToFormValues(task) ==
  [task EXCEPT !.routeProfileId = IF @ = Null THEN Blank ELSE @]

formValues(task, t) == IF task = None THEN newTaskFormValues(t) ELSE taskToFormValues(task)

\* What the mode makes of the target, and the options of a LibreSpeed backend,
\* which a task of another provider keeps as they are stored.
buildTaskInput(data, existing) ==
  LET mode == IF data.provider = "cloudflare" THEN "automatic" ELSE data.serverSelectionMode
  IN [name |-> data.name, enabled |-> data.enabled, provider |-> data.provider,
      serverSelectionMode |-> mode,
      serverId |-> IF mode = "fixed" THEN data.serverId ELSE Blank,
      serverUrl |-> IF mode = "custom" THEN data.serverUrl ELSE Blank,
      custom |-> IF data.provider = "librespeed" THEN data.custom
                 ELSE IF existing = None THEN NoCustom ELSE existing.custom,
      ipFamily |-> data.ipFamily, interfaceName |-> data.interfaceName,
      sourceIp |-> data.sourceIp,
      routeProfileId |-> IF data.routeProfileId = Blank THEN Null ELSE data.routeProfileId,
      timing |-> data.timing]

NeedsPreflight(input) == input.enabled /\ input.provider # "ookla"

PathMatches(r, v) ==
  /\ RouteProfiles[r].interfaceName = v.interfaceName
  /\ RouteProfiles[r].sourceIp = v.sourceIp

\* The server refuses a task whose profile is for another path.
Consistent(task) == task.routeProfileId # Null => PathMatches(task.routeProfileId, task)

TypeOK ==
  /\ stored \in TaskInputs \cup {None}
  /\ cached \in TaskInputs \cup {None}
  /\ timingOf \in Timings
  /\ failed \in BOOLEAN /\ shown \in BOOLEAN /\ editing \in BOOLEAN
  /\ form \in FormValues /\ base \in FormValues
  /\ dirty \subseteq touched /\ touched \subseteq Fields /\ refilled \in BOOLEAN
  /\ step \in 0 .. 3
  /\ preflight \in [input : TaskInputs, success : BOOLEAN] \cup {None}
  /\ validating \in TaskInputs \cup {None}
  /\ verdict \in TaskInputs \cup {None}
  /\ sent \in Seq(TaskInputs) /\ inflight \subseteq 1 .. Len(sent)
  /\ served \subseteq inflight
  /\ edits \in Nat /\ foreign \in Nat

Init ==
  /\ editing \in BOOLEAN
  /\ stored \in IF editing THEN StoredTasks ELSE {None}
  /\ cached = None /\ timingOf = FallbackTiming /\ failed = FALSE
  /\ base = newTaskFormValues(FallbackTiming) /\ form = base
  /\ dirty = {} /\ touched = {} /\ refilled = FALSE /\ edits = 0
  /\ shown = TRUE /\ step = 0
  /\ preflight = None /\ validating = None /\ verdict = None
  /\ inflight = {} /\ served = {} /\ sent = <<>>
  /\ foreign = 0

-----------------------------------------------------------------------------
(* The form library: react-hook-form with values and keepDirtyValues *)

\* The user gives field f the value v, and the page sets other fields in
\* consequence, without marking them as dirty.
Change(f, v, consequences) ==
  LET new == [g \in Fields |-> IF g = f THEN v
                               ELSE IF g \in DOMAIN consequences THEN consequences[g]
                               ELSE form[g]]
  IN /\ v # form[f] /\ edits < MaxEdits
     /\ form' = new
     /\ dirty' = IF v = base[f] THEN dirty \ {f} ELSE dirty \cup {f}
     /\ touched' = touched \cup {f} \cup DOMAIN consequences
     /\ refilled' = (refilled /\ ({f} \cup DOMAIN consequences) \cap PathFields = {})
     /\ edits' = edits + 1
     /\ UNCHANGED <<rows, cache, base, page, requests>>

Nothing == <<>>
Only(f, v) == [g \in {f} |-> v]

\* Mutant: new values are for the next time the page is opened.
RebaseNever(new) ==
  /\ base' = new
  /\ UNCHANGED form

\* New values, if they differ from the last ones, become the defaults and the
\* values of the fields that are not dirty.
Rebase(new) ==
  IF new = base THEN UNCHANGED <<form, base>>
  ELSE /\ base' = new
       /\ form' = [f \in Fields |-> IF f \in dirty THEN form[f] ELSE new[f]]

-----------------------------------------------------------------------------
(* The query cache and the server *)

\* The form is on the screen.
Open == shown /\ ~failed /\ (editing => cached # None)

\* The first load of the task, and every refetch that succeeds.
TaskArrives ==
  /\ shown /\ editing
  /\ stored # cached \/ failed
  /\ cached' = stored /\ failed' = FALSE
  /\ Rebase(formValues(stored, timingOf))
  /\ refilled' = (refilled \/ (base' # base /\ touched \cap PathFields # {}))
  /\ UNCHANGED <<rows, timingOf, dirty, touched, edits, page, requests>>

\* A query ends in error; the form is hidden until a retry succeeds.
QueryFails ==
  /\ shown /\ ~failed
  /\ failed' = TRUE
  /\ UNCHANGED <<rows, cached, timingOf, formVars, page, requests>>

\* Try again, for a new task: the other queries of the page.
Retry ==
  /\ shown /\ failed /\ ~editing
  /\ failed' = FALSE
  /\ UNCHANGED <<rows, cached, timingOf, formVars, page, requests>>

\* The settings arrive in the place of the fallback settings, or change.  A task
\* that exists has a timing of its own, and they are of no consequence for it.
SettingsArrive(t) ==
  /\ shown /\ ~editing /\ t # timingOf
  /\ timingOf' = t
  /\ Rebase(formValues(cached, t))
  /\ UNCHANGED <<rows, cached, failed, dirty, touched, refilled, edits, page, requests>>

\* Another client saves the task.
ForeignSave(task) ==
  /\ editing /\ task # stored /\ foreign < MaxForeign
  /\ Consistent(task)
  /\ stored' = task /\ foreign' = foreign + 1
  /\ UNCHANGED <<cache, formVars, page, requests>>

-----------------------------------------------------------------------------
(* The steps of the page *)

EnterName(n) == Open /\ step = 0 /\ Change("name", n, Nothing)

ToggleEnabled == Open /\ step = 0 /\ Change("enabled", ~form.enabled, Nothing)

SelectProvider(p) ==
  /\ Open /\ step = 0
  /\ Change("provider", p,
       IF p = "cloudflare" \/ (p = "ookla" /\ form.serverSelectionMode = "custom")
       THEN Only("serverSelectionMode", "automatic") ELSE Nothing)

SelectMode(m) ==
  /\ Open /\ step = 1 /\ form.provider # "cloudflare"
  /\ m = "custom" => form.provider = "librespeed" /\ CustomServers
  /\ Change("serverSelectionMode", m, Nothing)

\* ServerPicker: discovery needs a path.
SelectServer(s) ==
  /\ Open /\ step = 1 /\ form.provider # "cloudflare"
  /\ form.serverSelectionMode = "fixed"
  /\ form.interfaceName # Blank /\ form.sourceIp # Blank
  /\ Change("serverId", s, Nothing)

\* The inputs of a custom backend.
EnterUrl(u) ==
  /\ Open /\ step = 1 /\ form.provider # "cloudflare"
  /\ form.serverSelectionMode = "custom"
  /\ Change("serverUrl", u, Nothing)

EnterCustom(c) ==
  /\ Open /\ step = 1 /\ form.provider # "cloudflare"
  /\ form.serverSelectionMode = "custom"
  /\ Change("custom", c, Nothing)

PathCleared == [f \in {"sourceIp", "routeProfileId"} |-> Blank]

SelectFamily(x) == Open /\ step = 1 /\ Change("ipFamily", x, PathCleared)

SelectInterface(i) == Open /\ step = 1 /\ Change("interfaceName", i, PathCleared)

\* Mutant: the profile stays selected.
SelectSourceOnly(a) ==
  /\ Open /\ step = 1
  /\ a # Blank => (/\ Addresses[a].interfaceName = form.interfaceName
                   /\ ~Addresses[a].linkLocal
                   /\ form.ipFamily \in {"auto", Addresses[a].family})
  /\ Change("sourceIp", a, Nothing)

\* The addresses of the interface that are not link-local and of the family.
SelectSource(a) ==
  /\ Open /\ step = 1 /\ form.interfaceName # Blank
  /\ a # Blank => (/\ Addresses[a].interfaceName = form.interfaceName
                   /\ ~Addresses[a].linkLocal
                   /\ form.ipFamily \in {"auto", Addresses[a].family})
  /\ Change("sourceIp", a, Only("routeProfileId", Blank))

\* The options whose path is another one are disabled.
SelectRoute(r) ==
  /\ Open /\ step = 1
  /\ r # Blank => PathMatches(r, form)
  /\ Change("routeProfileId", r, Nothing)

EnterTiming(t) == Open /\ step = 2 /\ Change("timing", t, Nothing)

\* The buttons of the steps lead anywhere, Continue only on from a valid step,
\* Previous only while nothing is being saved.
GoTo(s) ==
  /\ Open /\ s # step
  /\ step' = s
  /\ UNCHANGED <<rows, cache, formVars, editing, shown, requests>>

nextStep == step < 3 /\ StepValid(step, form) /\ GoTo(step + 1)
previousStep == step > 0 /\ inflight = {} /\ GoTo(step - 1)

\* The page is unmounted: its form and its verdict are gone, the answer of a
\* preflight is dropped, a save goes on without it.
Unmount ==
  /\ shown' = FALSE /\ step' = 0
  /\ form' = base /\ dirty' = {} /\ touched' = {} /\ refilled' = FALSE
  /\ preflight' = None /\ validating' = None /\ verdict' = None
  /\ UNCHANGED <<cache, base, edits, editing, sent>>

\* Back to tasks, or any other link.
Leave == shown /\ Unmount /\ UNCHANGED <<rows, inflight, served>>

-----------------------------------------------------------------------------
(* Preflight and save *)

\* validateCandidate: the values as they are in the form, not parsed.
Validate ==
  /\ Open /\ step = 3 /\ validating = None
  /\ Valid(form)
  /\ validating' = buildTaskInput(form, cached)
  /\ preflight' = None /\ verdict' = None
  /\ UNCHANGED <<rows, cache, formVars, page, inflight, served, sent>>

\* requestValidation: a body with a verdict counts when the status is 200 or
\* 422; everything else is an error.
Responses == [status : {200, 422, 500}, body : {"passed", "failed", "error"}]
Verdict(r) == r.status \in {200, 422} /\ r.body # "error"

\* Mutant: the answer is taken to be about what the form says now.
PreflightAnswersNow(r) ==
  /\ validating # None
  /\ validating' = None
  /\ verdict' = IF Verdict(r) /\ r.body = "passed" THEN validating ELSE None
  /\ preflight' = IF Verdict(r)
       THEN [input |-> buildTaskInput(form, cached), success |-> r.body = "passed"]
       ELSE None
  /\ UNCHANGED <<rows, cache, formVars, page, inflight, served, sent>>

\* The answer is kept with the document that was asked about.
PreflightAnswers(r) ==
  /\ validating # None
  /\ validating' = None
  /\ verdict' = IF Verdict(r) /\ r.body = "passed" THEN validating ELSE None
  /\ preflight' = IF Verdict(r)
       THEN [input |-> validating, success |-> r.body = "passed"]
       ELSE None
  /\ UNCHANGED <<rows, cache, formVars, page, inflight, served, sent>>

\* onSubmit refuses a document that needs a preflight and has not passed it.
Refuses(input) ==
  /\ NeedsPreflight(input)
  /\ ~(preflight # None /\ preflight.input = input /\ preflight.success)

\* The submit button of the last step is disabled while a save is under way.
\* On the first step the name is the only text input and there is no submit
\* button, so that Enter submits the form, then as well.
saving == Len(sent) \in inflight
Submittable == Open /\ Valid(form) /\ (step = 0 \/ (step = 3 /\ ~saving))

Submit ==
  LET input == buildTaskInput(Parsed(form), cached) IN
  /\ Submittable /\ ~Refuses(input)
  /\ Len(sent) < MaxSaves
  /\ sent' = Append(sent, input)
  /\ inflight' = inflight \cup {Len(sent) + 1}
  /\ UNCHANGED <<rows, cache, formVars, page, preflight, validating,
                 verdict, served>>

SubmitRefused ==
  /\ Submittable /\ Refuses(buildTaskInput(Parsed(form), cached))
  /\ step' = 3
  /\ UNCHANGED <<rows, cache, formVars, editing, shown, requests>>

\* The server checks the profile against the path, stores the document and
\* publishes the event that has it fetched again.  Its answer comes later.
SaveServed(n) ==
  /\ n \in inflight \ served
  /\ Consistent(sent[n])
  /\ stored' = sent[n]
  /\ served' = served \cup {n}
  /\ UNCHANGED <<foreign, cache, formVars, page, preflight, validating, verdict,
                 inflight, sent>>

\* The answer arrives; the page is left for the list of tasks.
SaveSucceeds(n) ==
  /\ n \in served
  /\ inflight' = inflight \ {n} /\ served' = served \ {n}
  /\ Unmount
  /\ UNCHANGED rows

\* The server refuses, or the request is lost, or its answer after the row was
\* written; a message is shown.
SaveFails(n) ==
  /\ n \in inflight
  /\ inflight' = inflight \ {n} /\ served' = served \ {n}
  /\ UNCHANGED <<rows, cache, formVars, page, preflight, validating,
                 verdict, sent>>

-----------------------------------------------------------------------------
Edit ==
  \/ \E n \in Names : EnterName(n)
  \/ ToggleEnabled
  \/ \E p \in Providers : SelectProvider(p)
  \/ \E m \in Modes : SelectMode(m)
  \/ \E s \in Servers : SelectServer(s)
  \/ \E u \in Urls : EnterUrl(u)
  \/ \E c \in Customs : EnterCustom(c)
  \/ \E x \in Families : SelectFamily(x)
  \/ \E i \in Interfaces \cup {Blank} : SelectInterface(i)
  \/ \E a \in Sources \cup {Blank} : SelectSource(a)
  \/ \E r \in Profiles \cup {Blank} : SelectRoute(r)
  \/ \E t \in Timings : EnterTiming(t)

Walk == (\E s \in 0 .. 3 : GoTo(s)) \/ nextStep \/ previousStep \/ Leave

Fetch ==
  \/ TaskArrives \/ QueryFails \/ Retry
  \/ \E t \in Defaults : SettingsArrive(t)
  \/ \E task \in StoredTasks : ForeignSave(task)

Request ==
  \/ Validate
  \/ \E r \in Responses : PreflightAnswers(r)
  \/ Submit \/ SubmitRefused
  \/ \E n \in inflight : SaveServed(n) \/ SaveSucceeds(n) \/ SaveFails(n)

Next == Edit \/ Walk \/ Fetch \/ Request

Spec == Init /\ [][Next]_vars

-----------------------------------------------------------------------------
(* Properties *)

Gate == INSTANCE PreflightGate WITH
  Documents <- TaskInputs,
  Guarded <- NeedsPreflight,
  passed <- verdict

\* An enabled task of a provider other than Ookla is sent only while the
\* latest preflight has passed exactly the document that is sent, whatever is
\* edited or refetched between the request, its answer and the save.
PreflightGatesSave == Gate!Spec

\* Unless a changed task was fetched since the user's last input to the path, the
\* profile in the form is one for the interface and the source address in the
\* form: every change of the path clears it, and only matching ones can be
\* selected.  The path of a task whose profile was moved is shown as it is, as
\* a whole.  A changed task that is fetched over an edited path, another
\* client's or the user's own save, may fill the profile in again beside a
\* source it is not for; the server refuses such a document.
RouteFollowsPath ==
  (~refilled /\ form.routeProfileId # Blank) =>
    \/ PathMatches(form.routeProfileId, form)
    \/ /\ cached # None
       /\ \A f \in PathFields : form[f] = taskToFormValues(cached)[f]

\* What the user has not touched is what was fetched last, so that a save
\* never reverts another client's change the browser knows about.
UntouchedIsFetched ==
  shown => \A f \in Fields \ touched : form[f] = formValues(cached, timingOf)[f]
=============================================================================
