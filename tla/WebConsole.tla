------------------------------ MODULE WebConsole ------------------------------
(***************************************************************************)
(* The pages of the web console.  The router mounts one page at a time     *)
(* (src/web/src/App.tsx), and a page keeps its state to itself: a          *)
(* behaviour is one of a single page, which is chosen at the start.  A     *)
(* variable that several pages have is declared once; the variables of the *)
(* pages that are not mounted are None.                                    *)
(***************************************************************************)
EXTENDS TaskEditor

CONSTANTS
  Executables, TooLarge, Documents, Malformed, FirstRows, MaxWrites,
  MaxResults, Zones, DayOf(_, _), Views, MaxChanges,
  ProfileIds, Populations, Links, Down,
  Tasks, Definitions, Options, NoOptions, Unreachable,
  Runs, Offered, Instants, Dates, Ranges, WanList, DefaultPaths, SettingsRows, Fallback,
  MaxPageEdits, MaxRequests, MaxInputs, MaxTroubles   \* of more than one page

VARIABLES
  mountedPage,
  \* the settings page
  row, installed, calls, settingsForm, settingsBase, agreed, revoking, orphans, file,
  confirmed, reading, pending, cleaning, writes, vouched, unheard, reverted,
  \* the list of results
  zone, view, pageNumber, answers, old, broken, listless, placeholder, confirming, changes,
  receded,
  \* the network page
  routes, routesFetch, includeDown, refreshing, editRoute, draft, savingRoute, deleteRoute,
  validation, checks,
  \* the list of tasks
  listed, fetch, mounted, onlyEnabled, updates, running, duplicating, deleteTask,
  \* the charts
  kind, now, asOf, settings, days, dates, dimension, granularity, metric, crashed, unseen,
  \* of more than one page
  storedRows, queryCache, fetches, failedFetches, selected, deleting, overtaken,
  editCount, requestCount, inputs, troubles

-----------------------------------------------------------------------------
(* The pages.  Names the task editor uses already are replaced. *)

Settings == INSTANCE SettingsConsole WITH
  MaxEdits <- MaxPageEdits, cache <- queryCache, failed <- failedFetches,
  form <- settingsForm, base <- settingsBase, edits <- editCount

Results == INSTANCE ResultList WITH stored <- storedRows, page <- pageNumber

Network == INSTANCE NetworkConsole WITH
  Profiles <- ProfileIds, MaxEdits <- MaxPageEdits, stored <- storedRows,
  failed <- failedFetches, saving <- savingRoute, edits <- editCount,
  requests <- requestCount

TaskTable == INSTANCE TaskList WITH
  stored <- storedRows, failed <- failedFetches, requests <- requestCount

Charts == INSTANCE Reporting WITH
  stored <- storedRows, cache <- queryCache, failed <- failedFetches

\* None is the absence of a value, and what is counted or compared is a number.
ASSUME PagesAssumption ==
  /\ Settings!ConstantsApart /\ Results!ConstantsApart /\ Network!ConstantsApart
  /\ TaskTable!OptionsKnown /\ Charts!ConstantsTyped

settingsVars ==
  <<row, installed, calls, settingsForm, settingsBase, agreed, revoking, orphans, file,
    confirmed, reading, pending, cleaning, writes, vouched, unheard, reverted>>
resultsVars ==
  <<zone, view, pageNumber, answers, old, broken, listless, placeholder, confirming, changes,
    receded>>
networkVars ==
  <<routes, routesFetch, includeDown, refreshing, editRoute, draft, savingRoute, deleteRoute,
    validation, checks>>
tasksVars == <<listed, fetch, mounted, onlyEnabled, updates, running, duplicating, deleteTask>>
chartsVars ==
  <<kind, now, asOf, settings, days, dates, dimension, granularity, metric, crashed, unseen>>
sharedVars ==
  <<storedRows, queryCache, fetches, failedFetches, selected, deleting, overtaken, editCount,
    requestCount, inputs, troubles>>
webVars ==
  <<vars, mountedPage, settingsVars, resultsVars, networkVars, tasksVars, chartsVars, sharedVars>>

-----------------------------------------------------------------------------
(* What is not mounted *)

NoEditor == Init /\ ~editing

NoSettings ==
  /\ row = None /\ installed = None /\ calls = None /\ settingsForm = None
  /\ settingsBase = None /\ agreed = None /\ revoking = None /\ orphans = None /\ file = None
  /\ confirmed = None /\ reading = None /\ pending = None /\ cleaning = None /\ writes = None
  /\ vouched = None /\ unheard = None /\ reverted = None

NoResults ==
  /\ zone = None /\ view = None /\ pageNumber = None /\ answers = None /\ old = None
  /\ broken = None /\ listless = None /\ placeholder = None /\ confirming = None
  /\ changes = None /\ receded = None

NoNetwork ==
  /\ routes = None /\ routesFetch = None /\ includeDown = None /\ refreshing = None
  /\ editRoute = None /\ draft = None /\ savingRoute = None /\ deleteRoute = None
  /\ validation = None /\ checks = None

NoTasks ==
  /\ listed = None /\ fetch = None /\ mounted = None /\ onlyEnabled = None /\ updates = None
  /\ running = None /\ duplicating = None /\ deleteTask = None

NoCharts ==
  /\ kind = None /\ now = None /\ asOf = None /\ settings = None /\ days = None
  /\ dates = None /\ dimension = None /\ granularity = None /\ metric = None
  /\ crashed = None /\ unseen = None

WebInit ==
  \/ /\ mountedPage = "editor" /\ Init
     /\ NoSettings /\ NoResults /\ NoNetwork /\ NoTasks /\ NoCharts
     /\ storedRows = None /\ queryCache = None /\ fetches = None /\ failedFetches = None
     /\ selected = None /\ deleting = None /\ overtaken = None /\ editCount = None
     /\ requestCount = None /\ inputs = None /\ troubles = None
  \/ /\ mountedPage = "settings" /\ Settings!Init
     /\ NoEditor /\ NoResults /\ NoNetwork /\ NoTasks /\ NoCharts
     /\ storedRows = None /\ fetches = None /\ selected = None /\ deleting = None
     /\ requestCount = None /\ inputs = None /\ troubles = None
  \/ /\ mountedPage = "results" /\ Results!Init
     /\ NoEditor /\ NoSettings /\ NoNetwork /\ NoTasks /\ NoCharts
     /\ queryCache = None /\ failedFetches = None /\ overtaken = None /\ editCount = None
     /\ requestCount = None /\ troubles = None
  \/ /\ mountedPage = "network" /\ Network!Init
     /\ NoEditor /\ NoSettings /\ NoResults /\ NoTasks /\ NoCharts
     /\ queryCache = None /\ fetches = None /\ selected = None /\ inputs = None
  \/ /\ mountedPage = "tasks" /\ TaskTable!Init
     /\ NoEditor /\ NoSettings /\ NoResults /\ NoNetwork /\ NoCharts
     /\ queryCache = None /\ fetches = None /\ selected = None /\ overtaken = None
     /\ editCount = None /\ inputs = None
  \/ /\ mountedPage = "charts" /\ Charts!Init
     /\ NoEditor /\ NoSettings /\ NoResults /\ NoNetwork /\ NoTasks
     /\ deleting = None /\ overtaken = None /\ editCount = None /\ requestCount = None

WebNext ==
  \/ /\ mountedPage = "editor" /\ Next
     /\ UNCHANGED <<settingsVars, resultsVars, networkVars, tasksVars, chartsVars, sharedVars,
                    mountedPage>>
  \/ /\ mountedPage = "settings" /\ Settings!Next
     /\ UNCHANGED <<vars, resultsVars, networkVars, tasksVars, chartsVars, mountedPage,
                    storedRows, fetches, selected, deleting, requestCount, inputs, troubles>>
  \/ /\ mountedPage = "results" /\ Results!Next
     /\ UNCHANGED <<vars, settingsVars, networkVars, tasksVars, chartsVars, mountedPage,
                    queryCache, failedFetches, overtaken, editCount, requestCount, troubles>>
  \/ /\ mountedPage = "network" /\ Network!Next
     /\ UNCHANGED <<vars, settingsVars, resultsVars, tasksVars, chartsVars, mountedPage,
                    queryCache, fetches, selected, inputs>>
  \/ /\ mountedPage = "tasks" /\ TaskTable!Next
     /\ UNCHANGED <<vars, settingsVars, resultsVars, networkVars, chartsVars, mountedPage,
                    queryCache, fetches, selected, overtaken, editCount, inputs>>
  \/ /\ mountedPage = "charts" /\ Charts!Next
     /\ UNCHANGED <<vars, settingsVars, resultsVars, networkVars, tasksVars, mountedPage,
                    deleting, overtaken, editCount, requestCount>>

WebSpec == WebInit /\ [][WebNext]_webVars

-----------------------------------------------------------------------------
(* Properties of the pages; the task editor's are those of TaskEditor. *)

\* Settings page: once its requests have been answered, the cache and the
\* form's defaults are the server's row (SettingsConsole).
SettlesOnServer == mountedPage = "settings" => Settings!SettlesOnServer

\* Settings page: the executable on the server is one the user vouched for
\* while it was chosen (SettingsConsole).
InstallVouched == mountedPage = "settings" => Settings!InstallVouched

\* List of results: the page that is asked for is one the server has, as long
\* as no result has left a view (ResultList).
PageWithinResults == mountedPage = "results" => Results!PageWithinResults

\* Network page: once its requests have been answered, the profiles are the
\* server's and none is shown as being validated (NetworkConsole).
RoutesSettle == mountedPage = "network" => Network!RoutesSettle

\* List of tasks: a switch turns its task off and changes nothing else of a
\* task that is still as it was listed; nothing turns a task on (TaskList).
SwitchOnlyTurnsOff == [][mountedPage = "tasks" => TaskTable!SwitchStep]_webVars

\* Charts: the chart on the screen shows exactly the results that count for its
\* metrics and that the inputs and the timezone on the screen ask for, at their
\* dates (Reporting).
ReportIsExact == mountedPage = "charts" => Charts!ReportIsExact

\* Dashboard: "Successful tests will appear here as soon as a task completes"
\* (Reporting).
TestsAppear == mountedPage = "charts" => Charts!TestsAppear
=============================================================================
