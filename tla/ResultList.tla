----------------------------- MODULE ResultList -----------------------------
(***************************************************************************)
(* The list of results of the web console                                  *)
(* (src/web/src/pages/ResultsPage.tsx).                                    *)
(*                                                                         *)
(* A page of results is fetched for every combination of filters and page  *)
(* number.  Until it arrives the page before it stays on the screen, with  *)
(* its boxes and its number of pages, while results are queued, finish and *)
(* are deleted on the server, and the reporting timezone, which moves the  *)
(* dates of the filters, arrives with the settings.                        *)
(***************************************************************************)
EXTENDS Integers, FiniteSets

CONSTANTS
  MaxResults,   \* results are numbered in the order they are queued
  Zones,        \* reporting timezones
  DayOf(_, _),  \* DayOf(z, r): whether r is in the range of dates, in zone z
  Views,        \* filters, sort and page size: [unfinished, dated, size, ascending]
  MaxInputs,    \* what the user does to filters, pages and boxes
  MaxChanges,   \* what others do to the results and the settings, and what goes wrong
  None

Results == 1 .. MaxResults
Most(a, b) == IF a > b THEN a ELSE b

VARIABLES
  stored,     \* the server: "absent", "unfinished" or "finished" for each result
  zone,       \* settings.defaultTimezone
  view, page,
  answers,    \* the query cache: [items, totalPages] for keys, or None
  old,        \* keys whose answer has been invalidated
  fetches,    \* fetches under way: Unserved, an answer, or None for each key
  broken,     \* keys whose fetch ended in error
  listless,   \* the lists of tasks or of interfaces are in error
  placeholder,  \* the answer shown last
  selected, confirming,
  deleting,   \* [ids, done] of the deletion that is under way, or None
  \* history
  inputs, changes,
  receded     \* a result has left a view: deleted, finished, or another day

server == <<stored, zone, changes, receded>>
queries == <<answers, old, fetches, broken, listless, placeholder>>
choice == <<view, page>>
deletion == <<selected, confirming, deleting>>
vars == <<server, queries, choice, deletion, inputs>>

-----------------------------------------------------------------------------
(* The server: GET /results *)

Matching(v, z) ==
  {r \in Results : /\ stored[r] # "absent"
                   /\ v.unfinished => stored[r] = "unfinished"
                   /\ v.dated => DayOf(z, r)}

PagesOf(n, size) == (n + size - 1) \div size
TotalPages(v, z) == PagesOf(Cardinality(Matching(v, z)), v.size)

\* The keys of the cache; a view without dates does not depend on the zone.
Key(v, z, p) == [view |-> v, zone |-> IF v.dated THEN z ELSE None, page |-> p]
Keys == [view : Views, zone : Zones \cup {None}, page : 1 .. MaxResults]
key == Key(view, zone, page)

\* A page of results: the ones whose rank, in the order of the view, is on it.
Unserved == [items |-> {}, totalPages |-> -1]
Answer(k) ==
  LET all == Matching(k.view, k.zone)
      rank(r) == Cardinality({q \in all : IF k.view.ascending THEN q <= r ELSE q >= r})
      skipped == (k.page - 1) * k.view.size
  IN [items |-> {r \in all : skipped < rank(r) /\ rank(r) <= skipped + k.view.size},
      totalPages |-> TotalPages(k.view, k.zone)]
Answers == [items : SUBSET Results, totalPages : 0 .. MaxResults]

\* A page holds at least one result; None is the absence of an answer and of a
\* fetch.
ConstantsApart ==
  /\ MaxResults \in Nat \ {0}
  /\ \A v \in Views : v.size \in Nat \ {0}
  /\ None \notin Answers \cup {Unserved}

Init ==
  /\ stored \in [Results -> {"absent", "unfinished", "finished"}]
  /\ \A r \in Results \ {1} : stored[r] # "absent" => stored[r - 1] # "absent"
  /\ zone \in Zones /\ changes = 0 /\ receded = FALSE
  /\ view \in Views /\ page = 1 /\ inputs = 0
  /\ answers = [k \in Keys |-> None] /\ old = {}
  /\ fetches = [k \in Keys |-> IF k = key THEN Unserved ELSE None]
  /\ broken = {} /\ listless = FALSE /\ placeholder = None
  /\ selected = {} /\ confirming = FALSE /\ deleting = None

-----------------------------------------------------------------------------
(* The query *)

Change == changes < MaxChanges /\ changes' = changes + 1

isFetching == fetches[key] # None
\* Data, of this key or of the one before; without any the page is loading.
shown == IF answers[key] # None THEN answers[key] ELSE placeholder
Usable == shown # None /\ key \notin broken /\ ~listless
items == shown.items

\* A fetch clears the error of a key that has no answer yet.
Asked(k) ==
  /\ fetches' = [fetches EXCEPT ![k] = Unserved]
  /\ broken' = IF answers[k] = None THEN broken \ {k} ELSE broken

\* Another key is observed: an answer that is invalid or missing is fetched,
\* one that is fifteen seconds old as well.
Observed(k) ==
  /\ placeholder' = IF shown = None THEN placeholder ELSE shown
  /\ \/ fetches[k] = None /\ Asked(k)
     \/ /\ fetches[k] # None \/ (answers[k] # None /\ k \notin old)
        /\ UNCHANGED <<fetches, broken>>
  /\ UNCHANGED <<answers, old, listless>>

\* A fetch of the observed key takes the place of one that is under way, but
\* not of the first one.
Refetched == IF answers[key] = None /\ isFetching THEN UNCHANGED <<fetches, broken>> ELSE Asked(key)

\* invalidateQueries(['results']).
Invalidated ==
  /\ old' = {k \in Keys : answers[k] # None} \cup old
  /\ Refetched
  /\ UNCHANGED <<answers, listless, placeholder>>

Serve(k) ==
  /\ fetches[k] = Unserved
  /\ fetches' = [fetches EXCEPT ![k] = Answer(k)]
  /\ UNCHANGED <<server, answers, old, broken, listless, placeholder, choice, deletion, inputs>>

\* Also for a key that is no longer observed.
Arrives(k) ==
  /\ fetches[k] \notin {None, Unserved}
  /\ answers' = [answers EXCEPT ![k] = fetches[k]]
  /\ fetches' = [fetches EXCEPT ![k] = None]
  /\ old' = old \ {k} /\ broken' = broken \ {k}
  /\ UNCHANGED <<server, listless, placeholder, choice, deletion, inputs>>

Fails(k) ==
  /\ fetches[k] # None /\ Change
  /\ fetches' = [fetches EXCEPT ![k] = None]
  /\ broken' = broken \cup {k}
  /\ UNCHANGED <<stored, zone, receded, answers, old, listless, placeholder, choice, deletion, inputs>>

\* The lists for the filters cannot be fetched, or can again.
ListsFail ==
  /\ ~listless /\ Change
  /\ listless' = TRUE
  /\ UNCHANGED <<stored, zone, receded, answers, old, fetches, broken, placeholder, choice, deletion, inputs>>

ListsArrive ==
  /\ listless
  /\ listless' = FALSE
  /\ UNCHANGED <<server, answers, old, fetches, broken, placeholder, choice, deletion, inputs>>

\* Try again, the only button beside an error.
Retry ==
  /\ key \in broken \/ listless
  /\ Refetched
  /\ UNCHANGED <<server, answers, old, listless, placeholder, choice, deletion, inputs>>

\* An event of a result, or the event stream has been opened again.
EventArrives ==
  /\ Invalidated
  /\ UNCHANGED <<server, choice, deletion, inputs>>

-----------------------------------------------------------------------------
(* Filters and pages *)

Input ==
  /\ Usable /\ ~confirming
  /\ inputs < MaxInputs /\ inputs' = inputs + 1

\* The filters, the sort and the page size: all of them lead to page one.
ChangeView(v) ==
  /\ Input /\ v # view
  /\ view' = v /\ page' = 1
  /\ Observed(Key(v, zone, 1))
  /\ UNCHANGED <<server, deletion>>

Turn(p) ==
  /\ Input
  /\ page' = p
  /\ Observed(Key(view, zone, p))
  /\ UNCHANGED <<server, view, deletion>>

\* Mutant: the button works on the data that is shown.
NextPageAtOnce == Usable /\ page < shown.totalPages /\ Turn(page + 1)

NextPage == Usable /\ ~isFetching /\ page < shown.totalPages /\ Turn(page + 1)
PreviousPage == ~isFetching /\ page > 1 /\ Turn(page - 1)

\* The settings arrive or change: a dated view has another key, and keeps its
\* page.
ZoneArrives(z) ==
  /\ z # zone /\ Change
  /\ zone' = z
  /\ receded' = (receded \/ \E v \in Views : ~(Matching(v, zone) \subseteq Matching(v, z)))
  /\ IF view.dated THEN Observed(Key(view, z, page)) ELSE UNCHANGED queries
  /\ UNCHANGED <<stored, choice, deletion, inputs>>

-----------------------------------------------------------------------------
(* Selection and deletion *)

Toggle(r) ==
  /\ Input /\ r \in items
  /\ selected' = IF r \in selected THEN selected \ {r} ELSE selected \cup {r}
  /\ UNCHANGED <<server, queries, choice, confirming, deleting>>

ToggleAll ==
  /\ Input /\ items # {}
  /\ selected' = IF items \subseteq selected THEN selected \ items ELSE selected \cup items
  /\ UNCHANGED <<server, queries, choice, confirming, deleting>>

\* The dialog; it cannot be cancelled while a deletion is under way, only
\* dismissed by the keyboard.
AskDelete(b) ==
  /\ Usable /\ confirming # b
  /\ b => selected # {}
  /\ confirming' = b
  /\ UNCHANGED <<server, queries, choice, selected, deleting, inputs>>

ConfirmDelete ==
  /\ Usable /\ confirming /\ deleting = None
  /\ deleting' = [ids |-> selected, done |-> FALSE] /\ confirming' = FALSE
  /\ UNCHANGED <<server, queries, choice, selected, inputs>>

\* All of them or, when one is still active, none.
DeleteResultsBatch(ids) ==
  /\ \A r \in ids : stored[r] # "unfinished"
  /\ stored' = [r \in Results |-> IF r \in ids THEN "absent" ELSE stored[r]]

DeleteServed ==
  /\ deleting # None /\ ~deleting.done
  /\ DeleteResultsBatch(deleting.ids)
  /\ deleting' = [deleting EXCEPT !.done = TRUE]
  /\ receded' = TRUE
  /\ UNCHANGED <<zone, changes, queries, choice, selected, confirming, inputs>>

\* The whole selection is forgotten, what was added to it since as well.
DeleteArrives ==
  /\ deleting # None /\ deleting.done
  /\ deleting' = None /\ selected' = {} /\ confirming' = FALSE
  /\ Invalidated
  /\ UNCHANGED <<server, choice, inputs>>

DeleteFails ==
  /\ deleting # None
  /\ \/ Change
     \/ ~deleting.done /\ (\E r \in deleting.ids : stored[r] = "unfinished") /\ UNCHANGED changes
  /\ deleting' = None
  /\ UNCHANGED <<stored, zone, receded, queries, choice, selected, confirming, inputs>>

-----------------------------------------------------------------------------
(* The other actors of the server *)

Queue(r) ==
  /\ stored[r] = "absent" /\ Change
  /\ \A q \in Results : q < r => stored[q] # "absent"
  /\ stored' = [stored EXCEPT ![r] = "unfinished"]
  /\ UNCHANGED <<zone, receded, queries, choice, deletion, inputs>>

Finish(r) ==
  /\ stored[r] = "unfinished" /\ Change
  /\ stored' = [stored EXCEPT ![r] = "finished"]
  /\ receded' = (receded \/ \E v \in Views : v.unfinished)
  /\ UNCHANGED <<zone, queries, choice, deletion, inputs>>

\* Retention, another client or the page of the result; never an active one.
Purge(r) ==
  /\ stored[r] = "finished" /\ Change
  /\ stored' = [stored EXCEPT ![r] = "absent"]
  /\ receded' = TRUE
  /\ UNCHANGED <<zone, queries, choice, deletion, inputs>>

-----------------------------------------------------------------------------
Next ==
  \/ \E k \in Keys : Serve(k) \/ Arrives(k) \/ Fails(k)
  \/ ListsFail \/ ListsArrive \/ Retry \/ EventArrives
  \/ \E v \in Views : ChangeView(v)
  \/ NextPage \/ PreviousPage
  \/ \E z \in Zones : ZoneArrives(z)
  \/ \E r \in Results : Toggle(r) \/ Queue(r) \/ Finish(r) \/ Purge(r)
  \/ ToggleAll
  \/ \E b \in BOOLEAN : AskDelete(b)
  \/ ConfirmDelete \/ DeleteServed \/ DeleteArrives \/ DeleteFails

Spec == Init /\ [][Next]_vars

-----------------------------------------------------------------------------
(* Properties *)

\* As long as no result has left a view, the page that is asked for is one the
\* server has, whatever filters, page size and page the answer on the screen
\* belongs to.
PageWithinResults == ~receded => page <= Most(1, TotalPages(view, zone))
=============================================================================
