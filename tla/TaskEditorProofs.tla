-------------------------- MODULE TaskEditorProofs --------------------------
(***************************************************************************)
(* Theorems about the task editor, for every set of names, interfaces,     *)
(* addresses, profiles, servers and timings: its variables keep their      *)
(* types, fields the user has left alone follow the query cache, the route *)
(* profile follows the path, and the page implements PreflightGate.        *)
(*                                                                         *)
(* A form is typed field by field, since both a change by the user and a   *)
(* refetch compute the new form as a function of its fields.               *)
(***************************************************************************)
EXTENDS TaskEditor, TLAPS

FieldType(g) ==
  CASE g = "name" -> Names
    [] g = "enabled" -> BOOLEAN
    [] g = "provider" -> Providers
    [] g = "serverSelectionMode" -> Modes
    [] g = "serverId" -> Servers \cup {Blank}
    [] g = "serverUrl" -> Urls \cup {Blank}
    [] g = "custom" -> Customs
    [] g = "ipFamily" -> Families
    [] g = "interfaceName" -> Interfaces \cup {Blank}
    [] g = "sourceIp" -> Sources \cup {Blank}
    [] g = "routeProfileId" -> Profiles \cup {Blank}
    [] g = "timing" -> Timings

LEMMA FormByField ==
  ASSUME NEW x, x = [g \in Fields |-> x[g]], \A g \in Fields : x[g] \in FieldType(g)
  PROVE  x \in FormValues
<1>1. /\ x.name \in Names /\ x.enabled \in BOOLEAN /\ x.provider \in Providers
      /\ x.serverSelectionMode \in Modes /\ x.serverId \in Servers \cup {Blank}
      /\ x.serverUrl \in Urls \cup {Blank}
  BY DEF FieldType, Fields
<1>2. /\ x.custom \in Customs /\ x.ipFamily \in Families
      /\ x.interfaceName \in Interfaces \cup {Blank}
      /\ x.sourceIp \in Sources \cup {Blank} /\ x.routeProfileId \in Profiles \cup {Blank}
      /\ x.timing \in Timings
  BY DEF FieldType, Fields
<1> QED BY <1>1, <1>2 DEF FormValues, Fields

LEMMA FieldOfForm ==
  ASSUME NEW x \in FormValues, NEW g \in Fields
  PROVE  x[g] \in FieldType(g)
  BY DEF FormValues, Fields, FieldType

LEMMA BuildTyped ==
  ASSUME NEW data \in FormValues, NEW existing \in TaskInputs \cup {None}
  PROVE  buildTaskInput(data, existing) \in TaskInputs
<1> DEFINE mode == IF data.provider = "cloudflare" THEN "automatic" ELSE data.serverSelectionMode
           custom == IF data.provider = "librespeed" THEN data.custom
                     ELSE IF existing = None THEN NoCustom ELSE existing.custom
<1>1. mode \in Modes
  BY DEF FormValues, Modes
<1>2. NoCustom \in Customs
  BY DEF NoCustom, Customs
<1>3. custom \in Customs
  BY <1>2 DEF FormValues, TaskInputs
<1> HIDE DEF mode, custom
<1> QED BY <1>1, <1>3 DEF buildTaskInput, TaskInputs, FormValues, mode, custom

LEMMA TaskToFormTyped ==
  ASSUME NEW task \in TaskInputs
  PROVE  taskToFormValues(task) \in FormValues
  BY DEF TaskInputs, FormValues, taskToFormValues

LEMMA FormValuesTyped ==
  ASSUME NEW task \in TaskInputs \cup {None}, NEW t \in Timings
  PROVE  formValues(task, t) \in FormValues
<1>1. newTaskFormValues(t) \in FormValues
  <2>1. NoCustom \in Customs
    BY DEF NoCustom, Customs
  <2> QED BY <2>1, EditorAssumption DEF newTaskFormValues, FormValues, Providers, Modes, Families
<1> QED BY <1>1, TaskToFormTyped DEF formValues

LEMMA ParsedTyped ==
  ASSUME NEW v \in FormValues
  PROVE  Parsed(v) \in FormValues
  BY EditorAssumption DEF Parsed, FormValues

-----------------------------------------------------------------------------
\* What a successful answer that is shown says is still the latest verdict.
ShownIsLatest == (preflight # None /\ preflight.success) => verdict = preflight.input

Inv == TypeOK /\ ShownIsLatest

LEMMA ConsequencesTyped ==
  /\ DOMAIN Nothing = {}
  /\ \A f, v : DOMAIN Only(f, v) = {f} /\ Only(f, v)[f] = v
  /\ DOMAIN PathCleared = {"sourceIp", "routeProfileId"}
  /\ PathCleared["sourceIp"] = Blank /\ PathCleared["routeProfileId"] = Blank
<1>1. DOMAIN Nothing = {}
  BY DEF Nothing
<1>2. \A f, v : DOMAIN Only(f, v) = {f} /\ Only(f, v)[f] = v
  BY DEF Only
<1>3. /\ DOMAIN PathCleared = {"sourceIp", "routeProfileId"}
      /\ PathCleared["sourceIp"] = Blank /\ PathCleared["routeProfileId"] = Blank
  BY DEF PathCleared
<1> QED BY <1>1, <1>2, <1>3

LEMMA ChangeTyped ==
  ASSUME TypeOK, NEW f \in Fields, NEW v \in FieldType(f), NEW c,
         DOMAIN c \subseteq Fields, \A g \in DOMAIN c : c[g] \in FieldType(g),
         Change(f, v, c)
  PROVE  TypeOK'
<1> DEFINE new == [g \in Fields |-> IF g = f THEN v
                                    ELSE IF g \in DOMAIN c THEN c[g] ELSE form[g]]
<1>1. new \in FormValues
  <2>1. form \in FormValues
    BY DEF TypeOK
  <2>2. \A g \in Fields : form[g] \in FieldType(g)
    BY <2>1, FieldOfForm
  <2>3. new = [g \in Fields |-> new[g]]
    OBVIOUS
  <2>4. \A g \in Fields : new[g] \in FieldType(g)
    BY <2>2
  <2> HIDE DEF new
  <2> QED BY <2>3, <2>4, FormByField
<1>2. form' \in FormValues
  BY <1>1 DEF Change
<1>3. /\ dirty' \subseteq touched' /\ touched' \subseteq Fields /\ refilled' \in BOOLEAN
  BY DEF Change, TypeOK
<1>4. edits' \in Nat
  BY DEF Change, TypeOK
<1>5. UNCHANGED <<rows, cache, base, page, requests>>
  BY DEF Change
<1> QED BY <1>2, <1>3, <1>4, <1>5 DEF TypeOK, rows, cache, page, requests

LEMMA EditTyped ==
  ASSUME TypeOK, Edit
  PROVE  TypeOK' /\ UNCHANGED requests
<1>0. \A f, v, c : Change(f, v, c) => UNCHANGED requests
  BY DEF Change
<1> USE ConsequencesTyped
<1>1. ASSUME NEW n \in Names, EnterName(n) PROVE TypeOK' /\ UNCHANGED requests
  <2>1. "name" \in Fields /\ n \in FieldType("name")
    BY DEF Fields, FieldType
  <2>2. Change("name", n, Nothing)
    BY <1>1 DEF EnterName
  <2> QED BY <1>0, <2>1, <2>2, ChangeTyped
<1>2. CASE ToggleEnabled
  <2>1. PICK v \in BOOLEAN : Change("enabled", v, Nothing)
    BY <1>2 DEF ToggleEnabled
  <2>2. "enabled" \in Fields /\ v \in FieldType("enabled")
    BY DEF Fields, FieldType
  <2> QED BY <1>0, <2>1, <2>2, ChangeTyped
<1>3. ASSUME NEW p \in Providers, SelectProvider(p) PROVE TypeOK' /\ UNCHANGED requests
  <2>1. "provider" \in Fields /\ p \in FieldType("provider")
    BY DEF Fields, FieldType
  <2>2. "serverSelectionMode" \in Fields /\ "automatic" \in FieldType("serverSelectionMode")
    BY DEF Fields, FieldType, Modes
  <2>3. \/ Change("provider", p, Nothing)
        \/ Change("provider", p, Only("serverSelectionMode", "automatic"))
    BY <1>3 DEF SelectProvider
  <2>4. CASE Change("provider", p, Nothing)
    BY <1>0, <2>1, <2>4, ChangeTyped
  <2>5. CASE Change("provider", p, Only("serverSelectionMode", "automatic"))
    <3> DEFINE c == Only("serverSelectionMode", "automatic")
    <3>1. DOMAIN c \subseteq Fields /\ \A g \in DOMAIN c : c[g] \in FieldType(g)
      BY <2>2
    <3> HIDE DEF c
    <3>2. Change("provider", p, c)
      BY <2>5 DEF c
    <3> QED BY <1>0, <2>1, <3>1, <3>2, ChangeTyped
  <2> QED BY <2>3, <2>4, <2>5
<1>4. ASSUME NEW m \in Modes, SelectMode(m) PROVE TypeOK' /\ UNCHANGED requests
  <2>1. "serverSelectionMode" \in Fields /\ m \in FieldType("serverSelectionMode")
    BY DEF Fields, FieldType
  <2>2. Change("serverSelectionMode", m, Nothing)
    BY <1>4 DEF SelectMode
  <2> QED BY <1>0, <2>1, <2>2, ChangeTyped
<1>5. ASSUME NEW s \in Servers, SelectServer(s) PROVE TypeOK' /\ UNCHANGED requests
  <2>1. "serverId" \in Fields /\ s \in FieldType("serverId")
    BY DEF Fields, FieldType
  <2>2. Change("serverId", s, Nothing)
    BY <1>5 DEF SelectServer
  <2> QED BY <1>0, <2>1, <2>2, ChangeTyped
<1>6. ASSUME NEW u \in Urls, EnterUrl(u) PROVE TypeOK' /\ UNCHANGED requests
  <2>1. "serverUrl" \in Fields /\ u \in FieldType("serverUrl")
    BY DEF Fields, FieldType
  <2>2. Change("serverUrl", u, Nothing)
    BY <1>6 DEF EnterUrl
  <2> QED BY <1>0, <2>1, <2>2, ChangeTyped
<1>7. ASSUME NEW c \in Customs, EnterCustom(c) PROVE TypeOK' /\ UNCHANGED requests
  <2>1. "custom" \in Fields /\ c \in FieldType("custom")
    BY DEF Fields, FieldType
  <2>2. Change("custom", c, Nothing)
    BY <1>7 DEF EnterCustom
  <2> QED BY <1>0, <2>1, <2>2, ChangeTyped
<1>8. /\ "sourceIp" \in Fields /\ Blank \in FieldType("sourceIp")
      /\ "routeProfileId" \in Fields /\ Blank \in FieldType("routeProfileId")
  BY DEF Fields, FieldType
<1>9. ASSUME NEW x \in Families, SelectFamily(x) PROVE TypeOK' /\ UNCHANGED requests
  <2>1. "ipFamily" \in Fields /\ x \in FieldType("ipFamily")
    BY DEF Fields, FieldType
  <2>2. Change("ipFamily", x, PathCleared)
    BY <1>9 DEF SelectFamily
  <2> QED BY <1>0, <1>8, <2>1, <2>2, ChangeTyped
<1>10. ASSUME NEW i \in Interfaces \cup {Blank}, SelectInterface(i) PROVE TypeOK' /\ UNCHANGED requests
  <2>1. "interfaceName" \in Fields /\ i \in FieldType("interfaceName")
    BY DEF Fields, FieldType
  <2>2. Change("interfaceName", i, PathCleared)
    BY <1>10 DEF SelectInterface
  <2> QED BY <1>0, <1>8, <2>1, <2>2, ChangeTyped
<1>11. ASSUME NEW a \in Sources \cup {Blank}, SelectSource(a) PROVE TypeOK' /\ UNCHANGED requests
  <2>1. a \in FieldType("sourceIp")
    BY DEF FieldType
  <2>2. Change("sourceIp", a, Only("routeProfileId", Blank))
    BY <1>11 DEF SelectSource
  <2> DEFINE c == Only("routeProfileId", Blank)
  <2>3. DOMAIN c \subseteq Fields /\ \A g \in DOMAIN c : c[g] \in FieldType(g)
    <3>1. DOMAIN c = {"routeProfileId"} /\ c["routeProfileId"] = Blank
      OBVIOUS
    <3> HIDE DEF c
    <3> QED BY <1>8, <3>1
  <2> HIDE DEF c
  <2>4. Change("sourceIp", a, c)
    BY <2>2 DEF c
  <2> QED BY <1>0, <1>8, <2>1, <2>3, <2>4, ChangeTyped
<1>12. ASSUME NEW r \in Profiles \cup {Blank}, SelectRoute(r) PROVE TypeOK' /\ UNCHANGED requests
  <2>1. r \in FieldType("routeProfileId")
    BY DEF FieldType
  <2>2. Change("routeProfileId", r, Nothing)
    BY <1>12 DEF SelectRoute
  <2> QED BY <1>0, <1>8, <2>1, <2>2, ChangeTyped
<1>13. ASSUME NEW t \in Timings, EnterTiming(t) PROVE TypeOK' /\ UNCHANGED requests
  <2>1. "timing" \in Fields /\ t \in FieldType("timing")
    BY DEF Fields, FieldType
  <2>2. Change("timing", t, Nothing)
    BY <1>13 DEF EnterTiming
  <2> QED BY <1>0, <2>1, <2>2, ChangeTyped
<1> QED BY <1>1, <1>2, <1>3, <1>4, <1>5, <1>6, <1>7, <1>9, <1>10, <1>11, <1>12, <1>13 DEF Edit

LEMMA RebaseTyped ==
  ASSUME TypeOK, NEW new \in FormValues, Rebase(new)
  PROVE  form' \in FormValues /\ base' \in FormValues
<1>1. CASE new = base
  BY <1>1 DEF Rebase, TypeOK
<1>2. CASE new # base
  <2> DEFINE merged == [f \in Fields |-> IF f \in dirty THEN form[f] ELSE new[f]]
  <2>1. form \in FormValues
    BY DEF TypeOK
  <2>2. \A f \in Fields : form[f] \in FieldType(f) /\ new[f] \in FieldType(f)
    BY <2>1, FieldOfForm
  <2>3. merged = [f \in Fields |-> merged[f]]
    OBVIOUS
  <2>4. \A f \in Fields : merged[f] \in FieldType(f)
    BY <2>2
  <2>5. base' = new /\ form' = merged
    BY <1>2 DEF Rebase
  <2> HIDE DEF merged
  <2>6. merged \in FormValues
    BY <2>3, <2>4, FormByField
  <2> QED BY <2>5, <2>6
<1> QED BY <1>1, <1>2

LEMMA FetchTyped ==
  ASSUME TypeOK, Fetch
  PROVE  TypeOK' /\ UNCHANGED requests
<1>1. CASE TaskArrives
  <2>1. stored \in TaskInputs \cup {None} /\ timingOf \in Timings
    BY DEF TypeOK
  <2>2. formValues(stored, timingOf) \in FormValues
    BY <2>1, FormValuesTyped
  <2>3. form' \in FormValues /\ base' \in FormValues
    BY <1>1, <2>2, RebaseTyped DEF TaskArrives
  <2>4. cached' = stored /\ failed' = FALSE
        /\ UNCHANGED <<rows, timingOf, dirty, touched, edits, page, requests>>
    BY <1>1 DEF TaskArrives
  <2>5. refilled' \in BOOLEAN
    BY <1>1 DEF TaskArrives, TypeOK
  <2> QED BY <2>1, <2>3, <2>4, <2>5 DEF TypeOK, rows, page, requests
<1>2. CASE QueryFails
  BY <1>2 DEF QueryFails, TypeOK, rows, formVars, page, requests
<1>3. CASE Retry
  BY <1>3 DEF Retry, TypeOK, rows, formVars, page, requests
<1>4. ASSUME NEW t \in Defaults, SettingsArrive(t) PROVE TypeOK' /\ UNCHANGED requests
  <2>1. cached \in TaskInputs \cup {None} /\ t \in Timings
    BY EditorAssumption DEF TypeOK
  <2>2. formValues(cached, t) \in FormValues
    BY <2>1, FormValuesTyped
  <2>3. form' \in FormValues /\ base' \in FormValues
    BY <1>4, <2>2, RebaseTyped DEF SettingsArrive
  <2>4. timingOf' = t
        /\ UNCHANGED <<rows, cached, failed, dirty, touched, refilled, edits, page, requests>>
    BY <1>4 DEF SettingsArrive
  <2> QED BY <2>1, <2>3, <2>4 DEF TypeOK, rows, page, requests
<1>5. ASSUME NEW task \in StoredTasks, ForeignSave(task) PROVE TypeOK' /\ UNCHANGED requests
  <2>1. task \in TaskInputs
    BY EditorAssumption
  <2>2. stored' = task /\ foreign' = foreign + 1 /\ UNCHANGED <<cache, formVars, page, requests>>
    BY <1>5 DEF ForeignSave
  <2> QED BY <2>1, <2>2 DEF TypeOK, cache, formVars, page, requests
<1> QED BY <1>1, <1>2, <1>3, <1>4, <1>5 DEF Fetch

\* Unmounting leaves the history of what was sent and forgets every verdict.
LEMMA UnmountTyped ==
  ASSUME TypeOK, Unmount, inflight' \subseteq inflight, served' \subseteq inflight',
         UNCHANGED rows
  PROVE  TypeOK'
<1>1. /\ form' \in FormValues /\ base' \in FormValues
      /\ dirty' \subseteq touched' /\ touched' \subseteq Fields /\ refilled' \in BOOLEAN
  BY DEF Unmount, TypeOK
<1>2. shown' \in BOOLEAN
  BY DEF Unmount
<1>3. step' \in 0 .. 3
  BY DEF Unmount
<1>4. editing' \in BOOLEAN
  BY DEF Unmount, TypeOK
<1>5. /\ cached' \in TaskInputs \cup {None} /\ timingOf' \in Timings /\ failed' \in BOOLEAN
  BY DEF Unmount, TypeOK, cache
<1>6. preflight' = None /\ validating' = None /\ verdict' = None
  BY DEF Unmount
<1>7. /\ sent' \in Seq(TaskInputs) /\ inflight' \subseteq 1 .. Len(sent')
      /\ served' \subseteq inflight'
  BY DEF Unmount, TypeOK
<1>8. edits' \in Nat /\ foreign' \in Nat /\ stored' \in TaskInputs \cup {None}
  BY DEF Unmount, TypeOK, rows
<1> QED BY <1>1, <1>2, <1>3, <1>4, <1>5, <1>6, <1>7, <1>8 DEF TypeOK

LEMMA WalkTyped ==
  ASSUME TypeOK, Walk
  PROVE  TypeOK' /\ (UNCHANGED requests \/ (Unmount /\ UNCHANGED sent))
<1>1. ASSUME NEW s \in 0 .. 3, GoTo(s) PROVE TypeOK' /\ UNCHANGED requests
  BY <1>1 DEF GoTo, TypeOK, rows, cache, formVars, requests
<1>2. CASE nextStep
  <2>1. step + 1 \in 0 .. 3 /\ GoTo(step + 1)
    BY <1>2 DEF nextStep, TypeOK
  <2> QED BY <1>1, <2>1
<1>3. CASE previousStep
  <2>1. step - 1 \in 0 .. 3 /\ GoTo(step - 1)
    BY <1>3 DEF previousStep, TypeOK
  <2> QED BY <1>1, <2>1
<1>4. CASE Leave
  <2>1. Unmount /\ UNCHANGED <<rows, inflight, served>>
    BY <1>4 DEF Leave
  <2>2. inflight' \subseteq inflight /\ served' \subseteq inflight'
    BY <2>1 DEF TypeOK
  <2>3. UNCHANGED sent
    BY <2>1 DEF Unmount
  <2> QED BY <2>1, <2>2, <2>3, UnmountTyped
<1> QED BY <1>1, <1>2, <1>3, <1>4 DEF Walk

LEMMA RequestTyped ==
  ASSUME TypeOK, Request
  PROVE  TypeOK'
<1>0. form \in FormValues /\ cached \in TaskInputs \cup {None}
  BY DEF TypeOK
<1>1. CASE Validate
  <2>1. buildTaskInput(form, cached) \in TaskInputs
    BY <1>0, BuildTyped
  <2>2. /\ validating' = buildTaskInput(form, cached) /\ preflight' = None /\ verdict' = None
        /\ UNCHANGED <<rows, cache, formVars, page, inflight, served, sent>>
    BY <1>1 DEF Validate
  <2> QED BY <2>1, <2>2 DEF TypeOK, rows, cache, formVars, page
<1>2. ASSUME NEW r \in Responses, PreflightAnswers(r) PROVE TypeOK'
  <2>1. validating \in TaskInputs
    BY <1>2 DEF TypeOK, PreflightAnswers
  <2>2. preflight' \in [input : TaskInputs, success : BOOLEAN] \cup {None}
    BY <1>2, <2>1 DEF PreflightAnswers
  <2>3. verdict' \in TaskInputs \cup {None}
    BY <1>2, <2>1 DEF PreflightAnswers
  <2>4. validating' = None /\ UNCHANGED <<rows, cache, formVars, page, inflight, served, sent>>
    BY <1>2 DEF PreflightAnswers
  <2> QED BY <2>2, <2>3, <2>4 DEF TypeOK, rows, cache, formVars, page
<1>3. CASE Submit
  <2> DEFINE input == buildTaskInput(Parsed(form), cached)
  <2>1. input \in TaskInputs
    BY <1>0, ParsedTyped, BuildTyped
  <2>2. /\ sent' = Append(sent, input) /\ inflight' = inflight \cup {Len(sent) + 1}
        /\ UNCHANGED <<rows, cache, formVars, page, preflight, validating, verdict, served>>
    BY <1>3 DEF Submit
  <2> HIDE DEF input
  <2>3. sent' \in Seq(TaskInputs) /\ inflight' \subseteq 1 .. Len(sent') /\ served' \subseteq inflight'
    <3>1. sent \in Seq(TaskInputs) /\ inflight \subseteq 1 .. Len(sent)
      BY DEF TypeOK
    <3>2. sent' \in Seq(TaskInputs) /\ Len(sent') = Len(sent) + 1
      BY <2>1, <2>2, <3>1
    <3>3. PICK k \in Nat : k = Len(sent)
      BY <3>1
    <3>4. inflight \subseteq 1 .. k /\ inflight' = inflight \cup {k + 1} /\ Len(sent') = k + 1
      BY <2>2, <3>1, <3>2, <3>3
    <3>5. inflight' \subseteq 1 .. (k + 1)
      BY <3>4
    <3>6. served' \subseteq inflight'
      BY <2>2 DEF TypeOK
    <3> QED BY <3>2, <3>4, <3>5, <3>6
  <2> QED BY <2>2, <2>3 DEF TypeOK, rows, cache, formVars, page
<1>4. CASE SubmitRefused
  BY <1>4 DEF SubmitRefused, TypeOK, rows, cache, formVars, requests
<1>5. ASSUME NEW n \in inflight, SaveServed(n) PROVE TypeOK'
  <2>1. sent[n] \in TaskInputs
    BY DEF TypeOK
  <2> QED BY <1>5, <2>1 DEF SaveServed, TypeOK, cache, formVars, page
<1>6. ASSUME NEW n \in inflight, SaveSucceeds(n) PROVE TypeOK'
  <2>1. inflight' \subseteq inflight /\ served' \subseteq inflight'
    BY <1>6 DEF SaveSucceeds, TypeOK
  <2> QED BY <1>6, <2>1, UnmountTyped DEF SaveSucceeds
<1>7. ASSUME NEW n \in inflight, SaveFails(n) PROVE TypeOK'
  BY <1>7 DEF SaveFails, TypeOK, rows, cache, formVars, page
<1> QED BY <1>1, <1>2, <1>3, <1>4, <1>5, <1>6, <1>7 DEF Request

LEMMA InitTyped ==
  ASSUME Init
  PROVE  Inv
<1>1. newTaskFormValues(FallbackTiming) \in FormValues
  BY EditorAssumption, FormValuesTyped DEF formValues
<1>2. form \in FormValues /\ base \in FormValues
  BY <1>1 DEF Init
<1>3. stored \in TaskInputs \cup {None}
  BY EditorAssumption DEF Init
<1>4. sent \in Seq(TaskInputs) /\ inflight \subseteq 1 .. Len(sent) /\ served \subseteq inflight
  BY DEF Init
<1>5. timingOf \in Timings
  BY EditorAssumption DEF Init
<1>6. /\ cached = None /\ failed \in BOOLEAN /\ shown \in BOOLEAN /\ editing \in BOOLEAN
      /\ dirty \subseteq touched /\ touched \subseteq Fields /\ refilled \in BOOLEAN
  BY DEF Init
<1>7. step \in 0 .. 3 /\ edits \in Nat /\ foreign \in Nat
  BY DEF Init
<1>8. preflight = None /\ validating = None /\ verdict = None
  BY DEF Init
<1> QED BY <1>2, <1>3, <1>4, <1>5, <1>6, <1>7, <1>8 DEF Inv, TypeOK, ShownIsLatest

LEMMA InvHolds ==
  ASSUME Inv, [Next]_vars
  PROVE  Inv'
<1> USE DEF Inv
<1>1. ASSUME UNCHANGED requests PROVE ShownIsLatest'
  BY <1>1 DEF ShownIsLatest, requests
<1>2. ASSUME Unmount PROVE ShownIsLatest'
  BY <1>2 DEF Unmount, ShownIsLatest
<1>3. CASE Edit
  BY <1>1, <1>3, EditTyped
<1>4. CASE Walk
  BY <1>1, <1>2, <1>4, WalkTyped
<1>5. CASE Fetch
  BY <1>1, <1>5, FetchTyped
<1>6. CASE Request
  <2>1. ASSUME Validate PROVE ShownIsLatest'
    BY <2>1 DEF Validate, ShownIsLatest
  <2>2. ASSUME NEW r \in Responses, PreflightAnswers(r) PROVE ShownIsLatest'
    BY <2>2 DEF PreflightAnswers, ShownIsLatest
  <2>3. ASSUME Submit PROVE ShownIsLatest'
    BY <2>3 DEF Submit, ShownIsLatest
  <2>4. ASSUME SubmitRefused PROVE ShownIsLatest'
    BY <1>1, <2>4 DEF SubmitRefused
  <2>5. ASSUME NEW n \in inflight, SaveSucceeds(n) PROVE ShownIsLatest'
    BY <1>2, <2>5 DEF SaveSucceeds
  <2>6. ASSUME NEW n \in inflight, SaveFails(n) PROVE ShownIsLatest'
    BY <2>6 DEF SaveFails, ShownIsLatest
  <2>7. ASSUME NEW n \in inflight, SaveServed(n) PROVE ShownIsLatest'
    BY <2>7 DEF SaveServed, ShownIsLatest
  <2>8. ShownIsLatest'
    BY <1>6, <2>1, <2>2, <2>3, <2>4, <2>5, <2>6, <2>7 DEF Request
  <2> QED BY <1>6, <2>8, RequestTyped
<1>7. CASE UNCHANGED vars
  BY <1>7 DEF vars, TypeOK, ShownIsLatest, rows, cache, formVars, page, requests
<1> QED BY <1>3, <1>4, <1>5, <1>6, <1>7 DEF Next

\* Every variable of the page keeps its type, whatever is typed, refetched,
\* answered or saved, and a positive preflight on the screen is the latest one.
THEOREM EditorTyped == Spec => []TypeOK
<1>1. Inv => TypeOK
  BY DEF Inv
<1> QED BY <1>1, InitTyped, InvHolds, PTL DEF Spec

LEMMA SubmitIsGuarded ==
  ASSUME Inv, Submit
  PROVE  Gate!Next
<1> DEFINE input == buildTaskInput(Parsed(form), cached)
<1>1. input \in TaskInputs
  BY ParsedTyped, BuildTyped DEF Inv, TypeOK
<1>2. sent' = Append(sent, input) /\ UNCHANGED verdict /\ ~Refuses(input)
  BY DEF Submit
<1> HIDE DEF input
<1>3. NeedsPreflight(input) => verdict = input
  BY <1>2 DEF Refuses, Inv, ShownIsLatest
<1>4. sent \in Seq(TaskInputs)
  BY DEF Inv, TypeOK
<1>5. sent' # <<>> /\ sent'[Len(sent')] = input
  BY <1>1, <1>2, <1>4
<1>6. Gate!Send(input)
  BY <1>1, <1>2, <1>3 DEF Gate!Send
<1> QED BY <1>5, <1>6 DEF Gate!Next

\* The editor implements PreflightGate: a document that needs a preflight is
\* sent only while the latest verdict of the server is about that document.
THEOREM EditorGatesSaves == Spec => PreflightGatesSave
<1>1. Init => Gate!Init
  BY DEF Init, Gate!Init
<1>2. ASSUME Inv, [Next]_vars
      PROVE  [Gate!Next]_<<verdict, sent>>
  <2>1. ASSUME UNCHANGED sent, verdict' \in TaskInputs \cup {None} PROVE Gate!Next
    BY <2>1 DEF Gate!Next, Gate!Pass
  <2>2. TypeOK'
    BY <1>2, InvHolds DEF Inv
  <2>3. verdict' \in TaskInputs \cup {None}
    BY <2>2 DEF TypeOK
  <2>4. CASE Edit
    BY <1>2, <2>4, EditTyped DEF Inv, requests
  <2>5. CASE Walk
    BY <1>2, <2>1, <2>3, <2>5, WalkTyped DEF Inv, requests
  <2>6. CASE Fetch
    BY <1>2, <2>6, FetchTyped DEF Inv, requests
  <2>7. CASE Request
    <3>1. CASE Validate
      BY <2>1, <2>3, <3>1 DEF Validate
    <3>2. ASSUME NEW r \in Responses, PreflightAnswers(r) PROVE Gate!Next
      BY <2>1, <2>3, <3>2 DEF PreflightAnswers
    <3>3. CASE Submit
      BY <1>2, <3>3, SubmitIsGuarded
    <3>4. CASE SubmitRefused
      BY <3>4 DEF SubmitRefused, requests
    <3>5. ASSUME NEW n \in inflight, SaveSucceeds(n) PROVE Gate!Next
      BY <2>1, <2>3, <3>5 DEF SaveSucceeds, Unmount
    <3>6. ASSUME NEW n \in inflight, SaveFails(n) PROVE UNCHANGED <<verdict, sent>>
      BY <3>6 DEF SaveFails
    <3>7. ASSUME NEW n \in inflight, SaveServed(n) PROVE UNCHANGED <<verdict, sent>>
      BY <3>7 DEF SaveServed
    <3> QED BY <2>7, <3>1, <3>2, <3>3, <3>4, <3>5, <3>6, <3>7 DEF Request
  <2>8. CASE UNCHANGED vars
    BY <2>8 DEF vars, requests
  <2> QED BY <1>2, <2>4, <2>5, <2>6, <2>7, <2>8 DEF Next
<1> QED BY <1>1, <1>2, InitTyped, InvHolds, PTL DEF Spec, PreflightGatesSave, Gate!Spec

-----------------------------------------------------------------------------
\* The defaults of the form follow the cache, and a field without a touch has
\* its default: the two parts of UntouchedIsFetched, whether the page is shown
\* or not.
BaseIsFetched == base = formValues(cached, timingOf)
UntouchedIsBase == \A f \in Fields \ touched : form[f] = base[f]

FollowInv == TypeOK /\ BaseIsFetched /\ UntouchedIsBase

LEMMA RebaseFollows ==
  ASSUME TypeOK, UntouchedIsBase, NEW new, Rebase(new), UNCHANGED touched
  PROVE  base' = new /\ UntouchedIsBase'
<1>1. CASE new = base
  BY <1>1 DEF Rebase, UntouchedIsBase
<1>2. CASE new # base
  BY <1>2 DEF Rebase, UntouchedIsBase, TypeOK
<1> QED BY <1>1, <1>2

LEMMA EditIsAChange ==
  ASSUME Edit
  PROVE  \E f, v, c : Change(f, v, c)
  BY DEF Edit, EnterName, ToggleEnabled, SelectProvider, SelectMode, SelectServer, EnterUrl,
     EnterCustom, SelectFamily, SelectInterface, SelectSource, SelectRoute, EnterTiming

LEMMA FollowHolds ==
  ASSUME FollowInv, [Next]_vars
  PROVE  BaseIsFetched' /\ UntouchedIsBase'
<1> USE DEF FollowInv
<1>1. ASSUME UNCHANGED <<cache, form, base, touched>> PROVE BaseIsFetched' /\ UntouchedIsBase'
  BY <1>1 DEF BaseIsFetched, UntouchedIsBase, cache
<1>2. ASSUME Unmount PROVE BaseIsFetched' /\ UntouchedIsBase'
  BY <1>2 DEF Unmount, BaseIsFetched, UntouchedIsBase, cache
<1>3. CASE Edit
  <2>1. PICK f, v, c : Change(f, v, c)
    BY <1>3, EditIsAChange
  <2>2. BaseIsFetched'
    BY <2>1 DEF Change, BaseIsFetched, cache
  <2>3. UntouchedIsBase'
    BY <2>1 DEF Change, UntouchedIsBase
  <2> QED BY <2>2, <2>3
<1>4. CASE Walk
  BY <1>1, <1>2, <1>4 DEF Walk, GoTo, nextStep, previousStep, Leave, formVars
<1>5. CASE Fetch
  <2>1. CASE TaskArrives
    <3>1. base' = formValues(stored, timingOf) /\ UntouchedIsBase'
      BY <2>1, RebaseFollows DEF TaskArrives
    <3> QED BY <2>1, <3>1 DEF TaskArrives, BaseIsFetched
  <2>2. ASSUME NEW t \in Defaults, SettingsArrive(t) PROVE BaseIsFetched' /\ UntouchedIsBase'
    <3>1. base' = formValues(cached, t) /\ UntouchedIsBase'
      BY <2>2, RebaseFollows DEF SettingsArrive
    <3> QED BY <2>2, <3>1 DEF SettingsArrive, BaseIsFetched
  <2>3. CASE QueryFails \/ Retry
    BY <2>3 DEF QueryFails, Retry, formVars, BaseIsFetched, UntouchedIsBase
  <2>4. ASSUME NEW task \in StoredTasks, ForeignSave(task)
        PROVE  BaseIsFetched' /\ UntouchedIsBase'
    BY <1>1, <2>4 DEF ForeignSave, formVars
  <2> QED BY <1>5, <2>1, <2>2, <2>3, <2>4 DEF Fetch
<1>6. CASE Request
  BY <1>1, <1>2, <1>6 DEF Request, Validate, PreflightAnswers, Submit, SubmitRefused,
     SaveServed, SaveSucceeds, SaveFails, formVars
<1>7. CASE UNCHANGED vars
  BY <1>1, <1>7 DEF vars, formVars
<1> QED BY <1>3, <1>4, <1>5, <1>6, <1>7 DEF Next

\* Both hold in every state.
LEMMA FollowAlways == Spec => []FollowInv
<1>1. Init => BaseIsFetched /\ UntouchedIsBase
  BY DEF Init, BaseIsFetched, UntouchedIsBase, formValues
<1>2. TypeOK /\ BaseIsFetched /\ UntouchedIsBase /\ [Next]_vars
      => BaseIsFetched' /\ UntouchedIsBase'
  BY FollowHolds DEF FollowInv
<1>3. TypeOK /\ BaseIsFetched /\ UntouchedIsBase => FollowInv
  BY DEF FollowInv
<1> QED BY <1>1, <1>2, <1>3, EditorTyped, PTL DEF Spec

\* While the page is shown, a field the user has not touched holds what was
\* fetched last, whatever other clients save and whenever the refetch comes.
THEOREM EditorFollowsCache == Spec => []UntouchedIsFetched
<1>1. FollowInv => UntouchedIsFetched
  BY DEF FollowInv, BaseIsFetched, UntouchedIsBase, UntouchedIsFetched
<1> QED BY <1>1, FollowAlways, PTL

-----------------------------------------------------------------------------
\* RouteFollowsPath with what it rests on: nothing is edited before the task is
\* there, and a path that is entered for a new task is dirty, so that settings
\* that arrive take no part of it back.
RouteInv ==
  /\ RouteFollowsPath
  /\ editing => stored # None
  /\ editing /\ cached = None => touched = {}
  /\ ~editing => cached = None
  /\ ~editing => \A f \in PathFields : f \in dirty \/ form[f] = Blank

\* A change of the path clears the profile, unless it selects a matching one,
\* and nothing that a change brings about fills a field of the path.
PathSafe(f, v, c) ==
  /\ \A g \in DOMAIN c \cap PathFields : c[g] = Blank
  /\ \/ f \notin PathFields /\ DOMAIN c \cap PathFields = {}
     \/ f # "routeProfileId" /\ "routeProfileId" \in DOMAIN c
     \/ f = "routeProfileId" /\ DOMAIN c = {} /\ (v # Blank => PathMatches(v, form))

\* Every input of the page is such a change, of a form on the screen.
LEMMA EditIsPathSafe ==
  ASSUME Edit
  PROVE  Open /\ \E f \in Fields : \E v, c : Change(f, v, c) /\ PathSafe(f, v, c)
<1> DEFINE Goal == Open /\ \E f \in Fields : \E v, c : Change(f, v, c) /\ PathSafe(f, v, c)
<1> USE ConsequencesTyped
<1>1. ASSUME NEW f \in Fields \ PathFields, NEW v, Change(f, v, Nothing), Open PROVE Goal
  BY <1>1 DEF PathSafe
<1>2. ASSUME NEW f \in Fields, f # "routeProfileId", NEW v, Change(f, v, PathCleared), Open
      PROVE  Goal
  <2>1. PathSafe(f, v, PathCleared)
    BY <1>2 DEF PathSafe, PathFields
  <2> QED BY <1>2, <2>1
<1>3. \/ \E n \in Names : EnterName(n)
      \/ ToggleEnabled
      \/ \E m \in Modes : SelectMode(m)
      \/ \E s \in Servers : SelectServer(s)
      \/ \E u \in Urls : EnterUrl(u)
      \/ \E c \in Customs : EnterCustom(c)
      \/ \E t \in Timings : EnterTiming(t)
      => Goal
  <2>1. {"name", "enabled", "serverSelectionMode", "serverId", "serverUrl", "custom", "timing"}
          \subseteq Fields \ PathFields
    BY DEF Fields, PathFields
  <2> QED BY <1>1, <2>1 DEF EnterName, ToggleEnabled, SelectMode, SelectServer, EnterUrl,
          EnterCustom, EnterTiming
<1>4. ASSUME NEW p \in Providers, SelectProvider(p) PROVE Goal
  <2>1. PICK c \in {Nothing, Only("serverSelectionMode", "automatic")} :
           Change("provider", p, c) /\ Open
    BY <1>4 DEF SelectProvider
  <2>2. DOMAIN c \cap PathFields = {} /\ "provider" \in Fields \ PathFields
    <3>1. DOMAIN c = {} \/ DOMAIN c = {"serverSelectionMode"}
      BY <2>1
    <3> QED BY <3>1 DEF PathFields, Fields
  <2> QED BY <2>1, <2>2 DEF PathSafe
<1>5. ASSUME NEW x \in Families, SelectFamily(x) PROVE Goal
  BY <1>2, <1>5 DEF SelectFamily, Fields
<1>6. ASSUME NEW i \in Interfaces \cup {Blank}, SelectInterface(i) PROVE Goal
  BY <1>2, <1>6 DEF SelectInterface, Fields
<1>7. ASSUME NEW a \in Sources \cup {Blank}, SelectSource(a) PROVE Goal
  <2>1. Change("sourceIp", a, Only("routeProfileId", Blank)) /\ Open
    BY <1>7 DEF SelectSource
  <2>2. PICK c : c = Only("routeProfileId", Blank)
    OBVIOUS
  <2>3. DOMAIN c = {"routeProfileId"} /\ c["routeProfileId"] = Blank
    BY <2>2
  <2>4. PathSafe("sourceIp", a, c) /\ "sourceIp" \in Fields
    BY <2>3 DEF PathSafe, Fields
  <2> QED BY <2>1, <2>2, <2>4
<1>8. ASSUME NEW r \in Profiles \cup {Blank}, SelectRoute(r) PROVE Goal
  BY <1>8 DEF SelectRoute, PathSafe, Fields
<1> QED BY <1>3, <1>4, <1>5, <1>6, <1>7, <1>8 DEF Edit

\* The defaults of a new task have an empty path.
LEMMA NewTaskHasNoPath ==
  \A t : \A f \in PathFields : newTaskFormValues(t)[f] = Blank
  BY DEF newTaskFormValues, PathFields

\* A profile follows the path as long as neither the path nor the task the
\* form was filled from changes.
LEMMA SamePath ==
  ASSUME RouteFollowsPath, cached' = cached, refilled => refilled',
         \A f \in PathFields : form'[f] = form[f]
  PROVE  RouteFollowsPath'
  BY DEF RouteFollowsPath, PathMatches, PathFields

\* What the user does keeps the profile in line with the path.
LEMMA EditKeepsRoute ==
  ASSUME TypeOK, FollowInv, RouteInv, Edit PROVE RouteInv'
<1>1. Open
  BY EditIsPathSafe
<1>2. PICK f \in Fields : \E v, c : Change(f, v, c) /\ PathSafe(f, v, c)
  BY EditIsPathSafe
<1>3. PICK v, c : Change(f, v, c) /\ PathSafe(f, v, c)
  BY <1>2
<1>4. UNCHANGED <<stored, foreign, cached, timingOf, base, editing, shown>>
  BY <1>3 DEF Change, rows, cache, page
<1>5. \A g \in Fields : form'[g] = IF g = f THEN v ELSE IF g \in DOMAIN c THEN c[g] ELSE form[g]
  BY <1>3 DEF Change
<1>6. PathFields \subseteq Fields
  BY DEF PathFields, Fields
<1>7. RouteFollowsPath'
  <2>1. CASE f \notin PathFields /\ DOMAIN c \cap PathFields = {}
    <3>1. \A g \in PathFields : form'[g] = form[g]
      BY <1>5, <1>6, <2>1
    <3>2. ({f} \cup DOMAIN c) \cap PathFields = {}
      BY <2>1
    <3>3. refilled' = refilled
      BY <1>3, <3>2 DEF Change, TypeOK
    <3> QED BY <1>4, <3>1, <3>3, SamePath DEF RouteInv
  <2>2. CASE f # "routeProfileId" /\ "routeProfileId" \in DOMAIN c
    BY <1>3, <1>5, <2>2 DEF PathSafe, PathFields, Fields, RouteFollowsPath
  <2>3. CASE f = "routeProfileId" /\ DOMAIN c = {} /\ (v # Blank => PathMatches(v, form))
    <3>1. /\ form'.routeProfileId = v /\ form'.interfaceName = form.interfaceName
          /\ form'.sourceIp = form.sourceIp
      BY <1>5, <2>3 DEF Fields
    <3> QED BY <2>3, <3>1 DEF PathMatches, RouteFollowsPath
  <2> QED BY <1>3, <2>1, <2>2, <2>3 DEF PathSafe
<1>8. editing /\ cached = None => FALSE
  BY <1>1 DEF Open
<1>9. ASSUME ~editing, NEW g \in PathFields PROVE g \in dirty' \/ form'[g] = Blank
  <2>1. dirty' = IF v = base[f] THEN dirty \ {f} ELSE dirty \cup {f}
    BY <1>3 DEF Change
  <2>2. base[g] = Blank
    BY <1>9, NewTaskHasNoPath DEF RouteInv, FollowInv, BaseIsFetched, formValues
  <2>3. CASE g = f
    BY <1>5, <1>6, <2>1, <2>2, <2>3
  <2>4. CASE g # f
    BY <1>3, <1>5, <1>6, <1>9, <2>1, <2>4 DEF RouteInv, PathSafe
  <2> QED BY <2>3, <2>4
<1> QED BY <1>4, <1>7, <1>8, <1>9 DEF RouteInv

\* A task that arrives fills the whole path, or leaves it alone, or is noted.
LEMMA TaskKeepsPath ==
  ASSUME TypeOK, FollowInv, RouteInv, TaskArrives PROVE RouteFollowsPath'
<1> DEFINE new == formValues(stored, timingOf)
<1>1. /\ editing /\ cached' = stored /\ touched' = touched
      /\ refilled' = (refilled \/ (base' # base /\ touched \cap PathFields # {}))
      /\ Rebase(new)
  BY DEF TaskArrives
<1>2. stored # None
  BY <1>1 DEF RouteInv
<1>3. PathFields \subseteq Fields
  BY DEF PathFields, Fields
<1>4. new = taskToFormValues(stored)
  BY <1>2 DEF formValues
<1>5. base' = new /\ UntouchedIsBase'
  BY <1>1, RebaseFollows DEF FollowInv
<1> HIDE DEF new
<1>6. CASE touched \cap PathFields = {}
  <2>1. \A f \in PathFields : form'[f] = taskToFormValues(cached')[f]
    BY <1>1, <1>3, <1>4, <1>5, <1>6 DEF UntouchedIsBase
  <2> QED BY <1>1, <1>2, <2>1 DEF RouteFollowsPath
<1>7. CASE touched \cap PathFields # {} /\ base' # base
  BY <1>1, <1>7 DEF RouteFollowsPath
<1>8. CASE touched \cap PathFields # {} /\ base' = base
  <2>1. form' = form
    BY <1>1, <1>5, <1>8 DEF Rebase
  <2>2. cached # None
    BY <1>1, <1>8 DEF RouteInv
  <2>3. taskToFormValues(cached) = taskToFormValues(stored)
    BY <1>4, <1>5, <1>8, <2>2 DEF FollowInv, BaseIsFetched, formValues
  <2> QED BY <1>1, <1>2, <2>1, <2>2, <2>3 DEF RouteInv, RouteFollowsPath, PathMatches
<1> QED BY <1>6, <1>7, <1>8

\* Settings that arrive leave the path alone, as the fallback settings do.
LEMMA SettingsKeepPath ==
  ASSUME FollowInv, RouteInv, NEW t, SettingsArrive(t)
  PROVE  \A f \in PathFields : form'[f] = form[f]
<1> DEFINE new == formValues(cached, t)
<1>1. Rebase(new)
  BY DEF SettingsArrive
<1>2. PathFields \subseteq Fields
  BY DEF PathFields, Fields
<1>3. CASE cached # None
  <2>1. new = base
    BY <1>3 DEF FollowInv, BaseIsFetched, formValues
  <2> HIDE DEF new
  <2> QED BY <1>1, <2>1 DEF Rebase
<1>4. CASE cached = None
  <2>1. \A f \in PathFields : new[f] = Blank /\ base[f] = Blank
    BY <1>4, NewTaskHasNoPath DEF FollowInv, BaseIsFetched, formValues
  <2>2. \A f \in PathFields : f \in dirty \/ form[f] = Blank
    <3>1. CASE editing
      BY <1>2, <1>4, <2>1, <3>1 DEF RouteInv, FollowInv, UntouchedIsBase
    <3>2. CASE ~editing
      BY <3>2 DEF RouteInv
    <3> QED BY <3>1, <3>2
  <2> HIDE DEF new
  <2> QED BY <1>1, <1>2, <2>1, <2>2 DEF Rebase
<1> QED BY <1>3, <1>4

\* So does what is fetched.
LEMMA FetchKeepsRoute ==
  ASSUME TypeOK, FollowInv, RouteInv, Fetch PROVE RouteInv'
<1>1. CASE TaskArrives
  <2>1. /\ shown /\ editing /\ cached' = stored
        /\ UNCHANGED <<stored, dirty, touched, editing, shown>>
    BY <1>1 DEF TaskArrives, rows, page
  <2> QED BY <1>1, <2>1, TaskKeepsPath DEF RouteInv
<1>2. ASSUME NEW t \in Defaults, SettingsArrive(t) PROVE RouteInv'
  <2>1. UNCHANGED <<stored, cached, dirty, touched, refilled, editing>>
    BY <1>2 DEF SettingsArrive, rows, page
  <2>2. \A f \in PathFields : form'[f] = form[f]
    BY <1>2, SettingsKeepPath
  <2>3. RouteFollowsPath'
    BY <2>1, <2>2, SamePath DEF RouteInv
  <2> QED BY <2>1, <2>2, <2>3 DEF RouteInv
<1>3. CASE QueryFails \/ Retry
  BY <1>3 DEF QueryFails, Retry, rows, formVars, page, RouteInv, RouteFollowsPath, PathMatches
<1>4. ASSUME NEW task \in StoredTasks, ForeignSave(task) PROVE RouteInv'
  <2>1. stored' # None
    BY <1>4, EditorAssumption DEF ForeignSave
  <2> QED BY <1>4, <2>1 DEF ForeignSave, cache, formVars, page, RouteInv, RouteFollowsPath,
          PathMatches
<1> QED BY <1>1, <1>2, <1>3, <1>4 DEF Fetch

\* A page that is left forgets its form, and nothing is edited after that.
LEMMA UnmountKeepsRoute ==
  ASSUME TypeOK, FollowInv, RouteInv, Unmount, UNCHANGED rows PROVE RouteInv'
<1>1. /\ shown' = FALSE /\ form' = base /\ dirty' = {} /\ touched' = {}
      /\ UNCHANGED <<stored, cached, base, editing>>
  BY DEF Unmount, cache, rows
<1>2. cached = None => \A f \in PathFields : base[f] = Blank
  BY NewTaskHasNoPath DEF FollowInv, BaseIsFetched, formValues
<1>3. cached # None => base = taskToFormValues(cached)
  BY DEF FollowInv, BaseIsFetched, formValues
<1> QED BY <1>1, <1>2, <1>3 DEF RouteInv, RouteFollowsPath, PathFields

\* RouteInv is inductive.
LEMMA RouteHolds ==
  ASSUME FollowInv, RouteInv, [Next]_vars
  PROVE  RouteInv'
<1>1. TypeOK
  BY DEF FollowInv
<1>2. ASSUME UNCHANGED <<rows, cache, formVars, editing>> PROVE RouteInv'
  BY <1>2 DEF RouteInv, RouteFollowsPath, PathMatches, rows, cache, formVars
<1>3. CASE Edit
  BY <1>1, <1>3, EditKeepsRoute
<1>4. CASE Walk
  BY <1>1, <1>2, <1>4, UnmountKeepsRoute DEF Walk, GoTo, nextStep, previousStep, Leave
<1>5. CASE Fetch
  BY <1>1, <1>5, FetchKeepsRoute
<1>6. CASE Request
  <2>1. ASSUME NEW n \in inflight, SaveServed(n) PROVE RouteInv'
    <3>1. stored' # None
      BY <1>1, <2>1, EditorAssumption DEF SaveServed, TypeOK
    <3> QED BY <2>1, <3>1 DEF SaveServed, cache, formVars, page, RouteInv, RouteFollowsPath,
            PathMatches
  <2>2. ASSUME NEW n \in inflight, SaveSucceeds(n) PROVE RouteInv'
    BY <1>1, <2>2, UnmountKeepsRoute DEF SaveSucceeds
  <2> QED BY <1>2, <1>6, <2>1, <2>2 DEF Request, Validate, PreflightAnswers, Submit,
          SubmitRefused, SaveFails, page
<1>7. CASE UNCHANGED vars
  BY <1>2, <1>7 DEF vars, page
<1> QED BY <1>3, <1>4, <1>5, <1>6, <1>7 DEF Next

\* Unless a changed task was fetched over the user's last input to the path, the
\* route profile in the form is one for the path in the form or path and profile
\* are those the task was fetched with, through every order of edits, refetches,
\* changed settings, saves of other clients and saves of the page's own, served,
\* refused or lost.
THEOREM EditorRouteFollowsPath == Spec => []RouteFollowsPath
<1>1. Init => RouteInv
  <2> SUFFICES ASSUME Init PROVE RouteInv
    OBVIOUS
  <2>1. form = newTaskFormValues(FallbackTiming) /\ cached = None
    BY DEF Init
  <2>2. \A f \in PathFields : form[f] = Blank
    BY <2>1, NewTaskHasNoPath
  <2>3. editing => stored # None
    BY EditorAssumption DEF Init
  <2> QED BY <2>1, <2>2, <2>3 DEF Init, RouteInv, RouteFollowsPath, PathFields
<1>2. RouteInv => RouteFollowsPath
  BY DEF RouteInv, RouteFollowsPath
<1> QED BY <1>1, <1>2, RouteHolds, FollowAlways, PTL DEF Spec
=============================================================================
