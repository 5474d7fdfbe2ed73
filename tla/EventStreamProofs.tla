-------------------------- MODULE EventStreamProofs --------------------------
(***************************************************************************)
(* Proofs about the event stream for any topics, publishers, connections   *)
(* and capacities, and through any number of lost connections and crashes. *)
(***************************************************************************)
EXTENDS EventStream, FiniteSetTheorems, SequenceTheorems, TLAPS

\* A publisher has an identifier once the counter was incremented.
PublishersInOrder ==
  \A p \in Publishers : publisher[p].at = "numbered" => publisher[p].id > 0

\* The subscriptions are finitely many, although connections need not be.
SubscribersCounted ==
  /\ subscribers \subseteq Connections
  /\ IsFiniteSet(subscribers)
  /\ Cardinality(subscribers) <= SubscriberLimit

ChannelTyped ==
  /\ channel \in [Connections -> Seq(Events)]
  /\ \A c \in Connections : Len(channel[c]) <= ChannelCapacity

PublisherRecord == [at : {"idle", "written", "numbered"}, op : Operations \cup {NoOperation}, id : Nat]

\* The rest of the server's types.
ServerTyped ==
  /\ db \in [Topics -> 0 .. MaxWrites]
  /\ publisher \in [Publishers -> PublisherRecord]
  /\ nextEventID \in Nat
  /\ closed \in BOOLEAN
  /\ serving \in [Connections -> {"none", "subscribed", "streaming"}]
  /\ process \in 1 .. MaxProcesses
  /\ losses \in 0 .. MaxLosses

BrowserTyped ==
  /\ stream \in {"connecting", "connected", "reconnecting", "unavailable"}
  /\ source \in Connections \cup {None}
  /\ fetch \in [Topics -> {None, Sent, Failed} \cup (0 .. MaxWrites)]
  /\ view \in [Topics -> {None} \cup (0 .. MaxWrites)]
  /\ due \in [Topics -> 0 .. MaxWrites]

Typed ==
  /\ ServerTyped
  /\ PublishersInOrder
  /\ SubscribersCounted
  /\ ChannelTyped
  /\ BrowserTyped

-----------------------------------------------------------------------------
(* The type invariant, part by part *)

\* A publisher that has nothing to do.
LEMMA IdleTyped == Idle \in PublisherRecord
  BY DEF Idle, PublisherRecord

\* Every part holds in the initial state.
LEMMA TypedInit == Init => Typed
<1> SUFFICES ASSUME Init PROVE Typed
  OBVIOUS
<1> USE EventStreamAssumption DEF Init, Idle
<1>1. ServerTyped
  <2>1. publisher \in [Publishers -> PublisherRecord]
    BY IdleTyped
  <2>2. db \in [Topics -> 0 .. MaxWrites]
    OBVIOUS
  <2>3. serving \in [Connections -> {"none", "subscribed", "streaming"}]
    OBVIOUS
  <2>4. process \in 1 .. MaxProcesses /\ losses \in 0 .. MaxLosses
    OBVIOUS
  <2>5. nextEventID \in Nat /\ closed \in BOOLEAN
    OBVIOUS
  <2>6. QED
    BY ONLY <2>1, <2>2, <2>3, <2>4, <2>5 DEF ServerTyped
<1>2. PublishersInOrder
  BY DEF PublishersInOrder
<1>3. SubscribersCounted
  BY FS_EmptySet DEF SubscribersCounted
<1>4. ChannelTyped
  BY DEF ChannelTyped
<1>5. BrowserTyped
  BY DEF BrowserTyped
<1>6. QED
  BY <1>1, <1>2, <1>3, <1>4, <1>5 DEF Typed

\* A write keeps the table of what is committed.
LEMMA WriteTyped ==
  ASSUME ServerTyped, NEW p \in Publishers, NEW op \in Operations, Write(p, op)
  PROVE  db' \in [Topics -> 0 .. MaxWrites]
<1> USE EventStreamAssumption
<1>1. db' = [t \in Topics |-> IF t \in op.writes THEN db[t] + 1 ELSE db[t]]
  BY DEF Write
<1>2. ASSUME NEW t \in Topics PROVE (IF t \in op.writes THEN db[t] + 1 ELSE db[t]) \in 0 .. MaxWrites
  BY DEF Write, ServerTyped
<1>3. QED
  BY <1>1, <1>2

\* A step keeps the tables, the publishers and the handlers typed.
LEMMA ServerStep == Typed /\ [Next]_vars => ServerTyped'
<1> SUFFICES ASSUME Typed, [Next]_vars PROVE ServerTyped'
  OBVIOUS
<1> USE EventStreamAssumption DEF Typed, ServerTyped
<1>1. ASSUME NEW p \in Publishers, NEW op \in Operations, Write(p, op) PROVE ServerTyped'
  <2>1. publisher' \in [Publishers -> PublisherRecord]
    BY <1>1 DEF Write, PublisherRecord
  <2>2. QED
    BY <1>1, <2>1, WriteTyped DEF Write
<1>2. ASSUME NEW p \in Publishers, TakeID(p) PROVE ServerTyped'
  <2>1. \A q \in Publishers \ {p} : publisher'[q] = publisher[q]
    BY <1>2 DEF TakeID
  <2>2. publisher' \in [Publishers -> PublisherRecord]
    <3>1. publisher'[p] = [at |-> "numbered", op |-> publisher[p].op,
                           id |-> nextEventID + 1]
      BY <1>2 DEF TakeID, PublisherRecord
    <3>2. publisher'[p] \in PublisherRecord
      BY <3>1 DEF PublisherRecord
    <3>3. publisher' = [q \in Publishers |-> publisher'[q]]
      BY <1>2 DEF TakeID
    <3>4. QED
      BY <2>1, <3>2, <3>3
  <2>3. QED
    BY <1>2, <2>2 DEF TakeID
<1>3. ASSUME NEW p \in Publishers, Publish(p) \/ SayNothing(p) PROVE ServerTyped'
  BY <1>3, IdleTyped DEF Publish, SayNothing
<1>4. ASSUME NEW c \in Connections, Open(c) PROVE ServerTyped'
  BY <1>4 DEF Open
<1>5. ASSUME NEW c \in Connections, Deliver(c) PROVE ServerTyped'
  BY <1>5 DEF Deliver
<1>6. ASSUME NEW c \in Connections, HandlerReturns(c) PROVE ServerTyped'
  BY <1>6 DEF HandlerReturns
<1>7. ASSUME NEW c \in Connections, Subscribe(c) PROVE ServerTyped'
  BY <1>7 DEF Subscribe
<1>8. CASE Refuse
  BY <1>8 DEF Refuse, server
<1>9. CASE Lose
  BY <1>9 DEF Lose, server
<1>10. ASSUME NEW t \in Topics, QueryStep(t) \/ FetchLost(t) \/ Look(t) PROVE ServerTyped'
  BY <1>10 DEF QueryStep, Answer, Show, FetchLost, Look, server
<1>11. CASE Close
  BY <1>11 DEF Close
<1>12. CASE Replace
  <2>1. publisher' \in [Publishers -> PublisherRecord]
    BY <1>12, IdleTyped DEF Replace
  <2>2. process' \in 1 .. MaxProcesses
    BY <1>12 DEF Replace
  <2>3. serving' \in [Connections -> {"none", "subscribed", "streaming"}]
    BY <1>12 DEF Replace
  <2>4. QED
    BY <1>12, <2>1, <2>2, <2>3 DEF Replace
<1>13. CASE UNCHANGED vars
  BY <1>13 DEF vars, server
<1>14. QED
  BY <1>1, <1>2, <1>3, <1>4, <1>5, <1>6, <1>7, <1>8, <1>9, <1>10, <1>11, <1>12, <1>13
  DEF Next, PublisherStep, ConnectionStep, Reconnect

\* A step keeps the publishers in order.
LEMMA PublishersStep == Typed /\ [Next]_vars => PublishersInOrder'
<1> SUFFICES ASSUME Typed, [Next]_vars PROVE PublishersInOrder'
  OBVIOUS
<1> USE EventStreamAssumption DEF Typed, ServerTyped, PublisherRecord, PublishersInOrder
<1>1. ASSUME NEW p \in Publishers, NEW op \in Operations, Write(p, op) PROVE PublishersInOrder'
  BY <1>1 DEF Write
<1>2. ASSUME NEW p \in Publishers, TakeID(p) PROVE PublishersInOrder'
  BY <1>2 DEF TakeID
<1>3. ASSUME NEW p \in Publishers, Publish(p) \/ SayNothing(p) PROVE PublishersInOrder'
  <2>1. publisher' = [publisher EXCEPT ![p] = Idle]
    BY <1>3 DEF Publish, SayNothing
  <2>2. QED
    BY <2>1 DEF Idle
<1>4. CASE Replace
  BY <1>4 DEF Replace, Idle
<1>5. CASE UNCHANGED publisher
  BY <1>5
<1>6. QED
  BY <1>1, <1>2, <1>3, <1>4, <1>5
  DEF Next, PublisherStep, ConnectionStep, Reconnect, Open, Deliver, HandlerReturns,
      Subscribe, Refuse, Lose, QueryStep, Answer, Show, FetchLost, Look, Close, vars, server

\* The broker never has more subscribers than its limit: TrySubscribe counts
\* them in the critical section in which it adds one.
LEMMA SubscribersStep == Typed /\ [Next]_vars => SubscribersCounted'
<1> SUFFICES ASSUME Typed, [Next]_vars PROVE SubscribersCounted'
  OBVIOUS
<1> USE DEF Typed, SubscribersCounted
<1>1. ASSUME NEW T \in SUBSET subscribers, subscribers' = T PROVE SubscribersCounted'
  <2>1. IsFiniteSet(T) /\ Cardinality(T) <= Cardinality(subscribers)
    BY <1>1, FS_Subset
  <2>2. Cardinality(T) \in Nat /\ Cardinality(subscribers) \in Nat
    BY <2>1, FS_CardinalityType
  <2>3. QED
    BY <1>1, <2>1, <2>2, EventStreamAssumption
<1>2. ASSUME NEW c \in Connections, Subscribe(c) PROVE SubscribersCounted'
  <2>1. CASE closed
    BY <1>1, <1>2, <2>1 DEF Subscribe
  <2>2. CASE ~closed
    <3>1. subscribers' = subscribers \cup {c} /\ Cardinality(subscribers) < SubscriberLimit
      BY <1>2, <2>2 DEF Subscribe
    <3>2. /\ IsFiniteSet(subscribers \cup {c})
          /\ Cardinality(subscribers \cup {c})
               = IF c \in subscribers THEN Cardinality(subscribers)
                 ELSE Cardinality(subscribers) + 1
      BY FS_AddElement
    <3>3. Cardinality(subscribers) \in Nat
      BY FS_CardinalityType
    <3>4. QED
      BY <3>1, <3>2, <3>3, EventStreamAssumption
  <2>3. QED
    BY <2>1, <2>2
<1>3. ASSUME NEW p \in Publishers, Publish(p) PROVE SubscribersCounted'
  BY <1>1, <1>3 DEF Publish
<1>4. ASSUME NEW c \in Connections, HandlerReturns(c) PROVE SubscribersCounted'
  BY <1>1, <1>4 DEF HandlerReturns
<1>5. CASE Close \/ Replace
  BY <1>1, <1>5 DEF Close, Replace
<1>6. CASE UNCHANGED subscribers
  BY <1>6
<1>7. QED
  BY <1>2, <1>3, <1>4, <1>5, <1>6
  DEF Next, PublisherStep, ConnectionStep, Reconnect, Write, TakeID, SayNothing, Open,
      Deliver, Refuse, Lose, QueryStep, Answer, Show, FetchLost, Look, vars, server

\* The event a publisher is about to send.
EventOf(p) == [id |-> publisher[p].id, refreshes |-> publisher[p].op.refreshes]

\* What is sent is an event.
LEMMA EventTyped ==
  ASSUME Typed, NEW p \in Publishers, publisher[p].at = "numbered"
  PROVE  EventOf(p) \in Events
<1>1. publisher[p].op \in [writes : SUBSET Topics, refreshes : SUBSET Topics]
  BY EventStreamAssumption DEF Typed, ServerTyped, PublisherRecord, NoOperation
<1>2. publisher[p].id \in Nat \ {0}
  BY DEF Typed, ServerTyped, PublisherRecord, PublishersInOrder
<1>3. QED
  BY <1>1, <1>2 DEF EventOf, Events

\* A step keeps the buffers within their capacity.
LEMMA ChannelStep == Typed /\ [Next]_vars => ChannelTyped'
<1> SUFFICES ASSUME Typed, [Next]_vars PROVE ChannelTyped'
  OBVIOUS
<1> USE EventStreamAssumption DEF Typed, ChannelTyped
<1>1. ASSUME NEW p \in Publishers, Publish(p) PROVE ChannelTyped'
  <2>1. EventOf(p) \in Events
    BY <1>1, EventTyped DEF Publish
  <2>2. channel' = [c \in Connections |->
                      IF c \in subscribers /\ HasRoom(c)
                      THEN Append(channel[c], EventOf(p)) ELSE channel[c]]
    BY <1>1 DEF Publish, EventOf
  <2>3. ASSUME NEW c \in Connections, HasRoom(c)
        PROVE  /\ Append(channel[c], EventOf(p)) \in Seq(Events)
               /\ Len(Append(channel[c], EventOf(p))) <= ChannelCapacity
    BY <2>1, <2>3, AppendProperties, LenProperties DEF HasRoom
  <2>4. QED
    BY <2>2, <2>3
<1>2. ASSUME NEW c \in Connections, Deliver(c) PROVE ChannelTyped'
  <2>1. /\ Tail(channel[c]) \in Seq(Events)
        /\ Len(Tail(channel[c])) <= ChannelCapacity
    BY <1>2, HeadTailProperties, LenProperties DEF Deliver
  <2>2. QED
    BY <1>2, <2>1 DEF Deliver
<1>3. ASSUME NEW c \in Connections, Subscribe(c) \/ HandlerReturns(c) PROVE ChannelTyped'
  <2>1. channel' = [channel EXCEPT ![c] = <<>>]
    BY <1>3 DEF Subscribe, HandlerReturns
  <2>2. <<>> \in Seq(Events) /\ Len(<<>>) <= ChannelCapacity
    OBVIOUS
  <2>3. QED
    BY <2>1, <2>2
<1>4. CASE Replace
  BY <1>4 DEF Replace
<1>5. CASE UNCHANGED channel
  BY <1>5
<1>6. QED
  BY <1>1, <1>2, <1>3, <1>4, <1>5
  DEF Next, PublisherStep, ConnectionStep, Reconnect, Write, TakeID, SayNothing, Open, Refuse,
      Lose, QueryStep, Answer, Show, FetchLost, Look, Close, vars, server

\* Invalidating queries keeps the browser's tables.
LEMMA InvalidateTyped ==
  ASSUME BrowserTyped, NEW T \in SUBSET Topics, NEW owed \in [Topics -> 0 .. MaxWrites],
         Invalidate(T, owed)
  PROVE  /\ fetch' \in [Topics -> {None, Sent, Failed} \cup (0 .. MaxWrites)]
         /\ due' \in [Topics -> 0 .. MaxWrites]
<1>1. ASSUME NEW t \in Topics, Absorbs(t) PROVE fetch[t] \in 0 .. MaxWrites
  BY <1>1 DEF Absorbs, IsAnswer, BrowserTyped
<1>2. QED
  BY <1>1 DEF Invalidate, BrowserTyped

\* A step keeps the browser typed: what it shows is something the database held.
LEMMA BrowserStep == Typed /\ [Next]_vars => BrowserTyped'
<1> SUFFICES ASSUME Typed, [Next]_vars PROVE BrowserTyped'
  OBVIOUS
<1> USE EventStreamAssumption DEF Typed, BrowserTyped
<1>1. ASSUME NEW c \in Connections, Subscribe(c) PROVE BrowserTyped'
  BY <1>1 DEF Subscribe
<1>2. ASSUME NEW c \in Connections, Open(c) PROVE BrowserTyped'
  BY <1>2, InvalidateTyped DEF Open, ServerTyped
<1>3. ASSUME NEW c \in Connections, Deliver(c) PROVE BrowserTyped'
  <2>1. Head(channel[c]) \in Events
    BY <1>3, HeadTailProperties DEF Deliver, ChannelTyped
  <2>2. Head(channel[c]).refreshes \in SUBSET Topics
    BY <2>1 DEF Events
  <2>3. QED
    BY <1>3, <2>2, InvalidateTyped DEF Deliver
<1>4. ASSUME NEW c \in Connections, HandlerReturns(c) PROVE BrowserTyped'
  BY <1>4 DEF HandlerReturns
<1>5. CASE Refuse \/ Lose
  BY <1>5 DEF Refuse, Lose
<1>6. ASSUME NEW t \in Topics, QueryStep(t) PROVE BrowserTyped'
  BY <1>6 DEF QueryStep, Answer, Show, IsAnswer, ServerTyped
<1>7. ASSUME NEW t \in Topics, FetchLost(t) \/ Look(t) PROVE BrowserTyped'
  BY <1>7 DEF FetchLost, Look
<1>8. CASE Replace
  BY <1>8 DEF Replace
<1>9. ASSUME NEW p \in Publishers, Publish(p) PROVE BrowserTyped'
  BY <1>9 DEF Publish, ServerTyped, browser
<1>10. CASE UNCHANGED <<browser, due>>
  BY <1>10 DEF browser
<1>11. QED
  BY <1>1, <1>2, <1>3, <1>4, <1>5, <1>6, <1>7, <1>8, <1>9, <1>10
  DEF Next, PublisherStep, ConnectionStep, Reconnect, Write, TakeID, SayNothing, Close, vars

\* The strengthened type invariant is inductive.
LEMMA TypedAlways == Spec => []Typed
<1>1. Typed /\ [Next]_vars => Typed'
  BY ServerStep, PublishersStep, SubscribersStep, ChannelStep, BrowserStep DEF Typed
<1>2. QED
  BY <1>1, TypedInit, PTL DEF Spec

\* The broker keeps its bounds (subscribers, buffered events) and every event
\* it hands out has a number, whoever publishes, connects or
\* crashes.
THEOREM StreamTyped == Spec => []TypeOK
<1>1. Typed => TypeOK
  BY DEF Typed, TypeOK, ServerTyped, PublisherRecord, SubscribersCounted, ChannelTyped, BrowserTyped
<1>2. QED
  BY <1>1, TypedAlways, PTL

-----------------------------------------------------------------------------
(* No update is missed *)

\* The browser is going to refresh t: an event is buffered or the stream ends.
IsAwaited(t) ==
  \/ source \notin subscribers
  \/ \E i \in DOMAIN channel[source] : t \in channel[source][i].refreshes

\* Nothing is promised or answered that is not committed.
Committed ==
  \A t \in Topics :
    /\ due[t] <= db[t]
    /\ IsAnswer(t) => fetch[t] <= db[t]

\* A step keeps it so: the number of writes to a topic only grows.
LEMMA CommittedStep == Typed /\ Committed /\ [Next]_vars => Committed'
<1> SUFFICES ASSUME Typed, Committed, [Next]_vars, NEW t \in Topics
             PROVE  due'[t] <= db'[t] /\ (IsAnswer(t)' => fetch'[t] <= db'[t])
  BY DEF Committed
<1> DEFINE Kept == due'[t] <= db'[t] /\ (IsAnswer(t)' => fetch'[t] <= db'[t])
<1> USE DEF Typed, Committed
<1>1. /\ db[t] \in 0 .. MaxWrites /\ due[t] \in 0 .. MaxWrites
      /\ fetch[t] \in {None, Sent, Failed} \cup (0 .. MaxWrites)
  BY DEF ServerTyped, BrowserTyped
<1>2. ASSUME NEW p \in Publishers, NEW op \in Operations, Write(p, op) PROVE Kept
  <2>1. db'[t] \in {db[t], db[t] + 1} /\ UNCHANGED <<fetch, due>>
    BY <1>2 DEF Write, browser
  <2>2. QED
    BY <1>1, <2>1, EventStreamAssumption DEF IsAnswer
<1>3. ASSUME NEW p \in Publishers, Publish(p) PROVE Kept
  <2>1. due'[t] \in {db[t], due[t]} /\ UNCHANGED <<db, fetch>>
    BY <1>3 DEF Publish, browser
  <2>2. QED
    BY <1>1, <2>1 DEF IsAnswer
<1>4. ASSUME NEW T \in SUBSET Topics, NEW owed \in [Topics -> 0 .. MaxWrites],
             owed[t] <= db[t], Invalidate(T, owed), db' = db
      PROVE  Kept
  <2>1. /\ fetch'[t] \in {Sent, fetch[t]}
        /\ due'[t] \in {due[t], owed[t]} \/ (due'[t] = fetch[t] /\ IsAnswer(t))
    BY <1>4 DEF Invalidate, Absorbs
  <2>2. QED
    BY <1>1, <1>4, <2>1 DEF IsAnswer
<1>5. ASSUME NEW c \in Connections, Open(c) PROVE Kept
  BY <1>1, <1>4, <1>5 DEF Open, ServerTyped
<1>6. ASSUME NEW c \in Connections, Deliver(c) PROVE Kept
  <2>1. Head(channel[c]) \in Events
    BY <1>6, HeadTailProperties DEF Deliver, ChannelTyped
  <2>2. Head(channel[c]).refreshes \in SUBSET Topics
    BY <2>1 DEF Events
  <2>3. QED
    BY <1>4, <1>6, <2>2 DEF Deliver, BrowserTyped
<1>7. ASSUME NEW s \in Topics, QueryStep(s) \/ FetchLost(s) \/ Look(s) PROVE Kept
  <2>1. UNCHANGED <<db, due>>
    BY <1>7 DEF QueryStep, Answer, Show, FetchLost, Look, server
  <2>2. fetch'[t] \in {fetch[t], db[t], None, Sent, Failed}
    BY <1>7 DEF QueryStep, Answer, Show, FetchLost, Look, BrowserTyped
  <2>3. QED
    BY <1>1, <2>1, <2>2 DEF IsAnswer
<1>8. CASE Replace
  <2>1. UNCHANGED <<db, due>> /\ fetch'[t] \in {fetch[t], Failed}
    BY <1>8 DEF Replace
  <2>2. QED
    BY <1>1, <2>1 DEF IsAnswer
<1>9. CASE UNCHANGED <<db, fetch, due>>
  BY <1>9 DEF IsAnswer
<1>10. QED
  BY <1>2, <1>3, <1>5, <1>6, <1>7, <1>8, <1>9
  DEF Next, PublisherStep, ConnectionStep, Reconnect, TakeID, SayNothing, HandlerReturns,
      Subscribe, Refuse, Lose, Close, vars, server, browser

\* The query of t has what was promised, asks for it, or shows its failure.
Answers(t) ==
  \/ fetch[t] \in {Sent, Failed}
  \/ IsAnswer(t) /\ fetch[t] >= due[t]
  \/ fetch[t] = None /\ Shows(t)

\* StaleViewIsNoticed is not inductive: where the view is new enough it says
\* nothing of an older answer on its way, which Show would make the view.
NothingMissed ==
  stream = "connected" => \A t \in Topics : IsAwaited(t) \/ Answers(t)

\* Publish keeps a topic awaited, and makes it so when its event refreshes it:
\* the event is buffered for the browser, or the browser is cut off.
LEMMA AwaitedAcrossPublish ==
  ASSUME Typed, NEW p \in Publishers, Publish(p), NEW t \in Topics,
         IsAwaited(t) \/ t \in publisher[p].op.refreshes
  PROVE  IsAwaited(t)'
<1> USE DEF Typed
<1>1. source' = source /\ subscribers' = {c \in subscribers : HasRoom(c)}
  BY DEF Publish, browser
<1>2. SUFFICES ASSUME source \in subscribers, HasRoom(source) PROVE IsAwaited(t)'
  BY <1>1 DEF IsAwaited
<1>3. source \in Connections /\ channel[source] \in Seq(Events)
  BY <1>2 DEF SubscribersCounted, ChannelTyped
<1>4. channel'[source] = Append(channel[source], EventOf(p))
  BY <1>2, <1>3 DEF Publish, EventOf
<1>5. EventOf(p) \in Events /\ EventOf(p).refreshes = publisher[p].op.refreshes
  BY EventTyped DEF Publish, EventOf
<1>6. /\ DOMAIN channel[source] = 1 .. Len(channel[source])
      /\ DOMAIN channel'[source] = 1 .. Len(channel[source]) + 1
      /\ \A i \in 1 .. Len(channel[source]) : channel'[source][i] = channel[source][i]
      /\ channel'[source][Len(channel[source]) + 1] = EventOf(p)
      /\ Len(channel[source]) \in Nat
  BY <1>3, <1>4, <1>5, AppendProperties, LenProperties
<1>7. CASE \E i \in DOMAIN channel[source] : t \in channel[source][i].refreshes
  BY <1>1, <1>6, <1>7 DEF IsAwaited
<1>8. CASE t \in publisher[p].op.refreshes
  BY <1>1, <1>5, <1>6, <1>8 DEF IsAwaited
<1>9. QED
  BY <1>2, <1>7, <1>8 DEF IsAwaited

\* A query that is invalidated asks again or has its first answer on its way,
\* which is then what it owes; the others are left alone.
LEMMA InvalidateAnswers ==
  ASSUME Typed, NEW T \in SUBSET Topics, NEW owed \in [Topics -> 0 .. MaxWrites],
         Invalidate(T, owed), view' = view, NEW t \in Topics
  PROVE  /\ t \in T => Answers(t)'
         /\ t \notin T => (Answers(t) => Answers(t)')
<1> USE EventStreamAssumption DEF Typed, BrowserTyped
<1>1. /\ fetch'[t] = IF t \in T /\ ~Absorbs(t) THEN Sent ELSE fetch[t]
      /\ due'[t] = IF t \notin T THEN due[t] ELSE IF Absorbs(t) THEN fetch[t] ELSE owed[t]
  BY DEF Invalidate
<1>2. CASE t \in T /\ Absorbs(t)
  <2>1. fetch[t] \in 0 .. MaxWrites
    BY <1>2 DEF Absorbs, IsAnswer
  <2>2. fetch'[t] = fetch[t] /\ due'[t] = fetch[t]
    BY <1>1, <1>2
  <2>3. IsAnswer(t)'
    BY <1>2, <2>2 DEF Absorbs, IsAnswer
  <2>4. fetch'[t] >= due'[t]
    BY <2>1, <2>2
  <2>5. QED
    BY <1>2, <2>3, <2>4 DEF Answers
<1>3. CASE t \in T /\ ~Absorbs(t)
  BY <1>1, <1>3 DEF Answers
<1>4. CASE t \notin T
  BY <1>1, <1>4 DEF Answers, IsAnswer, Shows
<1>5. QED
  BY <1>2, <1>3, <1>4

\* A delivered event is replaced by a fetch; the other topics stay awaited.
LEMMA AwaitedAcrossDeliver ==
  ASSUME Typed, NEW c \in Connections, Deliver(c), NEW t \in Topics, IsAwaited(t)
  PROVE  IsAwaited(t)' \/ t \in Head(channel[c]).refreshes
<1> USE DEF Typed
<1>1. source = c /\ source' = source /\ subscribers' = subscribers
  BY DEF Deliver
<1>2. /\ channel[c] \in Seq(Events) /\ channel[c] # <<>>
      /\ channel'[c] = Tail(channel[c])
  BY DEF Deliver, ChannelTyped
<1>3. ASSUME NEW i \in DOMAIN channel[c], t \in channel[c][i].refreshes
      PROVE  IsAwaited(t)' \/ t \in Head(channel[c]).refreshes
  <2>1. i \in 1 .. Len(channel[c]) /\ Len(channel[c]) \in Nat
    BY <1>2, <1>3, LenProperties
  <2>2. CASE i = 1
    BY <1>2, <1>3, <2>2
  <2>3. CASE i # 1
    <3>1. /\ Len(channel'[c]) = Len(channel[c]) - 1
          /\ \A j \in 1 .. Len(channel'[c]) : channel'[c][j] = channel[c][j + 1]
          /\ DOMAIN channel'[c] = 1 .. Len(channel'[c])
      BY <1>2, HeadTailProperties, LenProperties
    <3>2. i - 1 \in DOMAIN channel'[c] /\ t \in channel'[c][i - 1].refreshes
      BY <1>3, <2>1, <2>3, <3>1
    <3>3. QED
      BY <1>1, <3>2 DEF IsAwaited
  <2>4. QED
    BY <2>2, <2>3
<1>4. QED
  BY <1>1, <1>3 DEF IsAwaited

\* NothingMissed is inductive relative to the types and to Committed.
LEMMA NothingMissedStep == Typed /\ Committed /\ NothingMissed /\ [Next]_vars => NothingMissed'
<1> SUFFICES ASSUME Typed, Committed, NothingMissed, [Next]_vars, stream' = "connected",
                    NEW t \in Topics
             PROVE  IsAwaited(t)' \/ Answers(t)'
  BY DEF NothingMissed
<1> DEFINE Kept == IsAwaited(t)' \/ Answers(t)'
<1>1. CASE UNCHANGED <<browser, due, subscribers, channel>>
  BY <1>1 DEF NothingMissed, browser, IsAwaited, Answers, IsAnswer, Shows
<1>2. ASSUME NEW p \in Publishers, Publish(p) PROVE Kept
  <2>1. UNCHANGED <<stream, fetch, view>>
    BY <1>2 DEF Publish, browser
  <2>2. due'[t] = IF t \in publisher[p].op.refreshes THEN db[t] ELSE due[t]
    BY <1>2 DEF Publish
  <2>3. CASE IsAwaited(t) \/ t \in publisher[p].op.refreshes
    BY <1>2, <2>3, AwaitedAcrossPublish
  <2>4. CASE Answers(t) /\ t \notin publisher[p].op.refreshes
    BY <2>1, <2>2, <2>4 DEF Answers, IsAnswer, Shows
  <2>5. QED
    BY <2>1, <2>3, <2>4 DEF NothingMissed
<1>3. ASSUME NEW c \in Connections, Open(c) PROVE Kept
  <2>1. Invalidate(Topics, db) /\ view' = view /\ db \in [Topics -> 0 .. MaxWrites]
    BY <1>3 DEF Open, Typed, ServerTyped
  <2>2. QED
    BY <2>1, InvalidateAnswers
<1>4. ASSUME NEW c \in Connections, Deliver(c) PROVE Kept
  <2>1. Invalidate(Head(channel[c]).refreshes, due) /\ view' = view /\ stream' = stream
    BY <1>4 DEF Deliver
  <2>2. Head(channel[c]) \in Events
    BY <1>4, HeadTailProperties DEF Deliver, Typed, ChannelTyped
  <2>3. Head(channel[c]).refreshes \in SUBSET Topics
    BY <2>2 DEF Events
  <2>4. due \in [Topics -> 0 .. MaxWrites]
    BY DEF Typed, BrowserTyped
  <2>5. /\ t \in Head(channel[c]).refreshes => Answers(t)'
        /\ t \notin Head(channel[c]).refreshes => (Answers(t) => Answers(t)')
    BY <2>1, <2>3, <2>4, InvalidateAnswers
  <2>6. QED
    BY <1>4, <2>1, <2>5, AwaitedAcrossDeliver DEF NothingMissed
<1>5. ASSUME NEW c \in Connections, HandlerReturns(c) PROVE Kept
  <2>1. source # c
    BY <1>5 DEF HandlerReturns
  <2>2. UNCHANGED <<stream, source, fetch, view, due>>
    BY <1>5, <2>1 DEF HandlerReturns
  <2>3. subscribers' = subscribers \ {c}
    BY <1>5 DEF HandlerReturns
  <2>4. source \in subscribers => channel'[source] = channel[source]
    BY <1>5, <2>1 DEF HandlerReturns, Typed, ChannelTyped, SubscribersCounted
  <2>5. QED
    BY <2>2, <2>3, <2>4 DEF NothingMissed, IsAwaited, Answers, IsAnswer, Shows
<1>6. ASSUME NEW c \in Connections, Subscribe(c) PROVE Kept
  BY <1>6 DEF Subscribe
<1>7. CASE Refuse \/ Lose \/ Replace
  BY <1>7 DEF Refuse, Lose, Replace
<1>8. ASSUME NEW s \in Topics, QueryStep(s) \/ FetchLost(s) \/ Look(s) PROVE Kept
  <2>1. UNCHANGED <<stream, source, subscribers, channel, due>>
    BY <1>8 DEF QueryStep, Answer, Show, FetchLost, Look, server
  <2>2. IsAwaited(t) => IsAwaited(t)'
    BY <2>1 DEF IsAwaited
  <2>3. SUFFICES ASSUME Answers(t) PROVE Answers(t)'
    BY <2>1, <2>2 DEF NothingMissed
  <2>4. CASE s # t
    <3>1. fetch'[t] = fetch[t] /\ view'[t] = view[t]
      BY <1>8, <2>4 DEF QueryStep, Answer, Show, FetchLost, Look, Typed, BrowserTyped
    <3>2. QED
      BY <2>1, <2>3, <3>1 DEF Answers, IsAnswer, Shows
  <2>5. CASE s = t /\ Answer(s)
    <3>1. fetch'[t] = db[t] /\ db[t] \in 0 .. MaxWrites /\ due[t] \in 0 .. MaxWrites
      BY <2>5 DEF Answer, Typed, ServerTyped, BrowserTyped
    <3>2. db[t] >= due[t]
      BY <3>1 DEF Committed
    <3>3. QED
      BY <2>1, <3>1, <3>2, EventStreamAssumption DEF Answers, IsAnswer
  <2>6. CASE s = t /\ Show(s)
    <3>1. view'[t] = fetch[t] /\ fetch'[t] = None /\ IsAnswer(t)
      BY <2>6 DEF Show, Typed, BrowserTyped
    <3>2. QED
      BY <2>1, <2>3, <3>1 DEF Answers, IsAnswer, Shows
  <2>7. CASE s = t /\ (FetchLost(s) \/ Look(s))
    <3>1. fetch'[t] \in {Sent, Failed}
      BY <2>7 DEF FetchLost, Look, Typed, BrowserTyped
    <3>2. QED
      BY <3>1 DEF Answers
  <2>8. QED
    BY <1>8, <2>4, <2>5, <2>6, <2>7 DEF QueryStep
<1>9. CASE Close
  BY <1>9 DEF Close, IsAwaited
<1>10. QED
  BY <1>1, <1>2, <1>3, <1>4, <1>5, <1>6, <1>7, <1>8, <1>9
  DEF Next, PublisherStep, ConnectionStep, Reconnect, Write, TakeID, SayNothing, vars, server

\* Nothing that was promised to a browser whose stream is open is lost: a view
\* older than an event it listens to, or than the database its stream opened
\* on, is about to be refreshed, or says that its request failed, or its
\* stream is about to end, on overflow, on a broker that closes and between
\* TrySubscribe and onopen.
THEOREM StreamMissesNothing == Spec => []StaleViewIsNoticed
<1>1. Init => Committed /\ NothingMissed
  BY DEF Init, Committed, IsAnswer, NothingMissed
<1>2. NothingMissed => StaleViewIsNoticed
  BY DEF NothingMissed, StaleViewIsNoticed, IsAwaited, Answers
<1>3. QED
  BY <1>1, <1>2, TypedAlways, CommittedStep, NothingMissedStep, PTL DEF Spec
=============================================================================
