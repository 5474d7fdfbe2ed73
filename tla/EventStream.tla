----------------------------- MODULE EventStream -----------------------------
(***************************************************************************)
(* Live updates: the broker (src/internal/events/broker.go), the handler   *)
(* of the event stream (src/internal/api/events.go) and a browser that     *)
(* keeps its cached queries fresh (src/web/src/hooks/useEventStream.ts).   *)
(*                                                                         *)
(* A publisher commits a write to the database and publishes an event      *)
(* afterwards, or never does; Publish takes an identifier before it locks  *)
(* the broker.  Events are not replayed: a subscriber whose channel is     *)
(* full is cut off, and the browser fetches everything again when its      *)
(* stream reopens.                                                         *)
(*                                                                         *)
(* A topic is one of the browser's query keys, with the number of writes   *)
(* to the resource behind it as its content.  An operation of the server   *)
(* writes some topics, and the browser answers its event by refreshing     *)
(* some: the hook has no listener for the events of settings, imports,     *)
(* route profiles and providers.                                           *)
(***************************************************************************)
EXTENDS Integers, Sequences, FiniteSets

CONSTANTS
  Topics,
  Operations,       \* writes of the server, with what their event refreshes
  Publishers,       \* goroutines that write and publish
  Connections,      \* calls of the handler that may exist at a time
  ChannelCapacity,  \* buffer of a subscription; 64 in the code
  SubscriberLimit,  \* subscribers of the broker; 128 in the code
  MaxWrites,        \* bound on the writes to each topic
  MaxLosses,        \* bound on connections and requests the network loses
  MaxProcesses,     \* bound on the number of server processes
  None,
  Sent,             \* a request of the browser that is not answered yet
  Failed            \* a request given up after its retries; the page says so

ASSUME EventStreamAssumption ==
  /\ Operations \subseteq [writes : SUBSET Topics, refreshes : SUBSET Topics]
  /\ ChannelCapacity \in Nat \ {0}
  /\ SubscriberLimit \in Nat \ {0}
  /\ {MaxWrites, MaxLosses} \subseteq Nat
  /\ MaxProcesses \in Nat \ {0}
  /\ None \notin Connections \cup Nat
  /\ Sent \notin Nat \cup {None}
  /\ Failed \notin Nat \cup {None, Sent}

VARIABLES
  \* the server
  db,            \* db[t]: writes to t that are committed
  publisher,     \* publisher[p]: local state of a write and its Publish
  nextEventID,
  closed,        \* Broker.closed
  subscribers,   \* connections whose channel is in Broker.subscribers
  channel,       \* channel[c]: the events buffered for a connection
  serving,       \* serving[c]: where the handler of a connection is
  process,       \* the number of the server process
  \* the browser
  stream,        \* StreamState
  source,        \* the connection the EventSource reads from
  fetch,         \* fetch[t]: None, Sent, Failed, or the content being delivered
  view,          \* view[t]: the content the browser shows, None before the first
  \* history
  due,           \* due[t]: the content the browser has been promised
  losses

server == <<db, publisher, nextEventID, closed, subscribers, channel, serving, process>>
browser == <<stream, source, fetch, view>>
vars == <<server, browser, due, losses>>

-----------------------------------------------------------------------------
Events == [id : Nat \ {0}, refreshes : SUBSET Topics]
NoOperation == [writes |-> {}, refreshes |-> {}]
Idle == [at |-> "idle", op |-> NoOperation, id |-> 0]

TypeOK ==
  /\ db \in [Topics -> 0 .. MaxWrites]
  /\ publisher \in [Publishers -> [at : {"idle", "written", "numbered"},
                                   op : Operations \cup {NoOperation}, id : Nat]]
  /\ nextEventID \in Nat
  /\ closed \in BOOLEAN
  /\ subscribers \subseteq Connections /\ Cardinality(subscribers) <= SubscriberLimit
  /\ channel \in [Connections -> Seq(Events)]
  /\ \A c \in Connections : Len(channel[c]) <= ChannelCapacity
  /\ serving \in [Connections -> {"none", "subscribed", "streaming"}]
  /\ process \in 1 .. MaxProcesses
  /\ stream \in {"connecting", "connected", "reconnecting", "unavailable"}
  /\ source \in Connections \cup {None}
  /\ fetch \in [Topics -> {None, Sent, Failed} \cup (0 .. MaxWrites)]
  /\ view \in [Topics -> {None} \cup (0 .. MaxWrites)]
  /\ due \in [Topics -> 0 .. MaxWrites]
  /\ losses \in 0 .. MaxLosses

\* The page has just loaded: every query is on its way for the first time.
Init ==
  /\ db = [t \in Topics |-> 0]
  /\ publisher = [p \in Publishers |-> Idle]
  /\ nextEventID = 0
  /\ closed = FALSE
  /\ subscribers = {}
  /\ channel = [c \in Connections |-> <<>>]
  /\ serving = [c \in Connections |-> "none"]
  /\ process = 1
  /\ stream = "connecting" /\ source = None
  /\ fetch = [t \in Topics |-> Sent]
  /\ view = [t \in Topics |-> None]
  /\ due = [t \in Topics |-> 0]
  /\ losses = 0

-----------------------------------------------------------------------------
(* Publishers *)

Write(p, op) ==
  /\ publisher[p].at = "idle"
  /\ \A t \in op.writes : db[t] < MaxWrites
  /\ db' = [t \in Topics |-> IF t \in op.writes THEN db[t] + 1 ELSE db[t]]
  /\ publisher' = [publisher EXCEPT ![p] = [at |-> "written", op |-> op, id |-> 0]]
  /\ UNCHANGED <<nextEventID, closed, subscribers, channel, serving, process,
                 browser, due, losses>>

\* The handler returns without an event: its cron entry could not be updated
\* nor the row put back, or it deleted results, which no event announces.
SayNothing(p) ==
  /\ publisher[p].at = "written"
  /\ publisher' = [publisher EXCEPT ![p] = Idle]
  /\ UNCHANGED <<db, nextEventID, closed, subscribers, channel, serving, process,
                 browser, due, losses>>

\* The atomic counter is incremented outside the mutex.
TakeID(p) ==
  /\ publisher[p].at = "written"
  /\ nextEventID' = nextEventID + 1
  /\ publisher' = [publisher EXCEPT ![p].at = "numbered", ![p].id = nextEventID + 1]
  /\ UNCHANGED <<db, closed, subscribers, channel, serving, process, browser, due, losses>>

\* Mutant: the buffer holds one event more than its capacity.
HasOneMore(c) == Len(channel[c]) <= ChannelCapacity

\* The send of the select does not block.
HasRoom(c) == Len(channel[c]) < ChannelCapacity

\* Mutant: an event a subscriber has no room for is dropped.
PublishDropping(p) ==
  LET refreshes == publisher[p].op.refreshes
      reached == {c \in subscribers : HasRoom(c)} IN
  /\ publisher[p].at = "numbered"
  /\ publisher' = [publisher EXCEPT ![p] = Idle]
  /\ channel' = [c \in Connections |->
                   IF c \in reached
                   THEN Append(channel[c], [id |-> publisher[p].id, refreshes |-> refreshes])
                   ELSE channel[c]]
  /\ due' = [t \in Topics |-> IF t \in refreshes THEN db[t] ELSE due[t]]
  /\ UNCHANGED <<db, nextEventID, closed, subscribers, serving, process, browser, losses>>

\* The critical section: every subscriber gets the event or is cut off, which
\* closes its channel but leaves what is buffered there.  A closed broker has
\* no subscribers.  The browser has been promised what the event announces.
Publish(p) ==
  LET refreshes == publisher[p].op.refreshes
      reached == {c \in subscribers : HasRoom(c)} IN
  /\ publisher[p].at = "numbered"
  /\ publisher' = [publisher EXCEPT ![p] = Idle]
  /\ channel' = [c \in Connections |->
                   IF c \in reached
                   THEN Append(channel[c], [id |-> publisher[p].id, refreshes |-> refreshes])
                   ELSE channel[c]]
  /\ subscribers' = reached
  /\ due' = [t \in Topics |-> IF t \in refreshes THEN db[t] ELSE due[t]]
  /\ UNCHANGED <<db, nextEventID, closed, serving, process, browser, losses>>

-----------------------------------------------------------------------------
(* The handler *)

\* TrySubscribe, before anything is written to the client.  A closed broker
\* hands out a closed channel.
Subscribe(c) ==
  /\ stream \in {"connecting", "reconnecting"} /\ source = None
  /\ serving[c] = "none"
  /\ closed \/ Cardinality(subscribers) < SubscriberLimit
  /\ subscribers' = IF closed THEN subscribers ELSE subscribers \cup {c}
  /\ channel' = [channel EXCEPT ![c] = <<>>]
  /\ serving' = [serving EXCEPT ![c] = "subscribed"]
  /\ source' = c
  /\ UNCHANGED <<db, publisher, nextEventID, closed, process, stream, fetch, view,
                 due, losses>>

\* No capacity: the handler answers 503, after which an EventSource does not
\* connect again and its readyState is CLOSED.
Refuse ==
  /\ stream \in {"connecting", "reconnecting"} /\ source = None
  /\ ~closed /\ Cardinality(subscribers) >= SubscriberLimit
  /\ stream' = "unavailable"
  /\ UNCHANGED <<server, source, fetch, view, due, losses>>

IsAnswer(t) == fetch[t] \notin {None, Sent, Failed}

\* A query without any content yet does not send its request again while it
\* is under way: the answer of its first load stands for what was announced.
Absorbs(t) == view[t] = None /\ IsAnswer(t)

\* Invalidating a query sends its request again and drops an older one.  The
\* browser is then promised the content in owed.
Invalidate(T, owed) ==
  /\ fetch' = [t \in Topics |-> IF t \in T /\ ~Absorbs(t) THEN Sent ELSE fetch[t]]
  /\ due' = [t \in Topics |-> IF t \notin T THEN due[t]
                              ELSE IF Absorbs(t) THEN fetch[t] ELSE owed[t]]

\* Mutant: the stream opens without fetching anything.
OpenQuietly(c) ==
  /\ serving[c] = "subscribed"
  /\ serving' = [serving EXCEPT ![c] = "streaming"]
  /\ stream' = IF source = c THEN "connected" ELSE stream
  /\ UNCHANGED <<db, publisher, nextEventID, closed, subscribers, channel, process,
                 source, fetch, view, due, losses>>

\* The first frame reaches the browser, whose onopen fetches every query: it
\* is promised all that is committed.
Open(c) ==
  /\ serving[c] = "subscribed"
  /\ source = c
  /\ serving' = [serving EXCEPT ![c] = "streaming"]
  /\ stream' = "connected"
  /\ Invalidate(Topics, db)
  /\ UNCHANGED <<db, publisher, nextEventID, closed, subscribers, channel, process,
                 source, view, losses>>

\* An event reaches the browser and invalidates the queries the hook has for
\* its type, none for a type it does not listen to.
Deliver(c) ==
  /\ serving[c] = "streaming" /\ source = c
  /\ channel[c] # <<>>
  /\ channel' = [channel EXCEPT ![c] = Tail(@)]
  /\ Invalidate(Head(channel[c]).refreshes, due)
  /\ UNCHANGED <<db, publisher, nextEventID, closed, subscribers, serving, process,
                 stream, source, view, losses>>

\* The handler returns: its channel is closed and drained, or its client is
\* gone (the request's context ends or a write fails).  The deferred Close
\* takes the subscription away; an EventSource that loses its stream connects
\* again.
HandlerReturns(c) ==
  /\ serving[c] # "none"
  /\ source # c \/ (serving[c] = "streaming" /\ c \notin subscribers /\ channel[c] = <<>>)
  /\ serving' = [serving EXCEPT ![c] = "none"]
  /\ subscribers' = subscribers \ {c}
  /\ channel' = [channel EXCEPT ![c] = <<>>]
  /\ source' = IF source = c THEN None ELSE source
  /\ stream' = IF source = c THEN "reconnecting" ELSE stream
  /\ UNCHANGED <<db, publisher, nextEventID, closed, process, fetch, view, due, losses>>

\* The network loses the connection; the browser notices at once, the handler
\* when it writes next.
Lose ==
  /\ source # None
  /\ losses < MaxLosses
  /\ losses' = losses + 1
  /\ source' = None
  /\ stream' = "reconnecting"
  /\ UNCHANGED <<server, fetch, view, due>>

-----------------------------------------------------------------------------
(* The browser's queries *)

\* The server reads the database for a request.
Answer(t) ==
  /\ fetch[t] = Sent
  /\ fetch' = [fetch EXCEPT ![t] = db[t]]
  /\ UNCHANGED <<server, stream, source, view, due, losses>>

\* The answer arrives and is shown.
Show(t) ==
  /\ IsAnswer(t)
  /\ view' = [view EXCEPT ![t] = fetch[t]]
  /\ fetch' = [fetch EXCEPT ![t] = None]
  /\ UNCHANGED <<server, stream, source, due, losses>>

\* The request or its answer is lost: it is sent again, or this was the last
\* retry and the page shows the error.
FetchLost(t) ==
  /\ fetch[t] = Sent \/ IsAnswer(t)
  /\ losses < MaxLosses
  /\ losses' = losses + 1
  /\ \E outcome \in {Sent, Failed} : fetch' = [fetch EXCEPT ![t] = outcome]
  /\ UNCHANGED <<server, stream, source, view, due>>

\* A page is opened after the content went stale, or the error's button is
\* pressed.
Look(t) ==
  /\ fetch[t] \in {None, Failed}
  /\ fetch' = [fetch EXCEPT ![t] = Sent]
  /\ UNCHANGED <<server, stream, source, view, due, losses>>

-----------------------------------------------------------------------------
(* The server process *)

\* Broker.Close, early in the shutdown.
Close ==
  /\ ~closed
  /\ process < MaxProcesses
  /\ closed' = TRUE
  /\ subscribers' = {}
  /\ UNCHANGED <<db, publisher, nextEventID, channel, serving, process, browser, due, losses>>

\* The process ends, after Close or by a crash, and the next one starts.
\* Writes that were committed but not published yet are never published;
\* requests under way are sent again or, after their last retry, fail.
Replace ==
  /\ process < MaxProcesses
  /\ process' = process + 1
  /\ publisher' = [p \in Publishers |-> Idle]
  /\ nextEventID' = 0
  /\ closed' = FALSE
  /\ subscribers' = {}
  /\ channel' = [c \in Connections |-> <<>>]
  /\ serving' = [c \in Connections |-> "none"]
  /\ source' = None
  /\ stream' = IF stream = "unavailable" THEN stream ELSE "reconnecting"
  /\ \E T \in SUBSET {t \in Topics : fetch[t] = Sent} :
       fetch' = [t \in Topics |-> IF t \in T THEN Failed ELSE fetch[t]]
  /\ UNCHANGED <<db, view, due, losses>>

-----------------------------------------------------------------------------
PublisherStep(p) == TakeID(p) \/ Publish(p)
ConnectionStep(c) == Open(c) \/ Deliver(c) \/ HandlerReturns(c)
Reconnect == Refuse \/ \E c \in Connections : Subscribe(c)
QueryStep(t) == Answer(t) \/ Show(t)

Next ==
  \/ \E p \in Publishers : PublisherStep(p) \/ SayNothing(p) \/ \E op \in Operations : Write(p, op)
  \/ \E c \in Connections : ConnectionStep(c)
  \/ Reconnect \/ Lose
  \/ \E t \in Topics : QueryStep(t) \/ FetchLost(t) \/ Look(t)
  \/ Close \/ Replace

Spec == Init /\ [][Next]_vars

\* Goroutines and the browser run fairly, the browser connects again, and a
\* shutdown that has begun ends.  Nothing is assumed of writers, of the user,
\* of the network or of crashes.
Fairness ==
  /\ \A p \in Publishers : WF_vars(PublisherStep(p))
  /\ \A c \in Connections : WF_vars(ConnectionStep(c))
  /\ WF_vars(Reconnect)
  /\ \A t \in Topics : WF_vars(QueryStep(t))
  /\ WF_vars(closed /\ Replace)

FairSpec == Spec /\ Fairness

-----------------------------------------------------------------------------
(* Properties *)

Shows(t) == view[t] # None /\ view[t] >= due[t]

\* A browser whose stream is open misses nothing it was promised, that is the
\* database of when the stream opened and what a heard event has announced
\* since, before or after it reached the browser.  A view that is older has a
\* request ahead of it whose answer will do, has failed with an error on the
\* page, has the event still buffered, or its stream is going to reopen.  No
\* event is lost between TrySubscribe and the first frame, on overflow, or in
\* a crash (events.go 14-29, broker.go 46-56).
StaleViewIsNoticed ==
  stream = "connected" => \A t \in Topics :
    \/ Shows(t)
    \/ fetch[t] \in {Sent, Failed}
    \/ IsAnswer(t) /\ fetch[t] >= due[t]
    \/ source \notin subscribers
    \/ \E i \in DOMAIN channel[source] : t \in channel[source][i].refreshes

\* The browser catches up with all it was promised, through overflow, lost
\* connections and requests and restarts, unless it was refused a stream or
\* its page shows that the last request failed.
BrowserCatchesUp ==
  <>[](stream = "unavailable" \/ \A t \in Topics : Shows(t) \/ fetch[t] = Failed)
=============================================================================
