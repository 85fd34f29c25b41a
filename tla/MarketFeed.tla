------------------------------ MODULE MarketFeed ------------------------------
(***************************************************************************)
(* The market data feed: the WebSocket client (adapters/polymarket_ws.py)  *)
(* with its subscriptions, reconnects and bounded frame queue, and the     *)
(* consumer of data/market_data_service.py that keeps the order books.     *)
(*                                                                         *)
(* Three tasks share the client: the connection loop, the consumer, which  *)
(* resubscribes a book it lost, and the universe refresh, which changes    *)
(* the set of subscriptions.  Each gives up the event loop where it awaits *)
(* a send; what it found before may be old when it goes on.  Requests fit  *)
(* in one chunk.                                                           *)
(*                                                                         *)
(* A channel is the book channel of an instrument.  A frame enters the     *)
(* queue when the exchange sends it: the wire and the queue are one, and a *)
(* connection that breaks loses what the exchange would have sent later.   *)
(***************************************************************************)
EXTENDS OrderBook, Sequences, FiniteSets

CONSTANTS
    Instruments,            \* exchange instrument ids, a set of numbers
    Universes,              \* the sets of instruments a refresh may enable
    MaxSubscriptions,       \* limit of channels per connection
    QueueSize,              \* frames the client keeps
    MaxReconnectAttempts,   \* failures in the window before DEGRADED
    MaxLosses,              \* bound: connections that break
    MaxRefusals,            \* bound: connection attempts that fail
    MaxOverflows,           \* bound: frames dropped from a full queue
    MaxFlaws,               \* bound: flawed messages
    MaxSyncs                \* bound: changes of the universe

ASSUME FeedAssumption ==
    /\ Instruments \subseteq Nat /\ IsFiniteSet(Instruments)
    /\ Universes \subseteq SUBSET Instruments
    /\ {MaxSubscriptions, QueueSize} \subseteq Nat \ {0}
    /\ {MaxReconnectAttempts, MaxLosses, MaxRefusals, MaxOverflows, MaxFlaws,
        MaxSyncs} \subseteq Nat

VARIABLES
    state,      \* connection state the client reports
    link,       \* the transport: none, up, or broken but not yet noticed
    loop,       \* where the connection loop is, and what it is sending
    failures,   \* failures in the rolling window
    lost,       \* has a connection ever been lost (reconnect_count > 0)
    desired,    \* channels that should be subscribed
    active,     \* channels the client takes to be subscribed
    served,     \* channels the exchange serves on this connection
    owed,       \* those of them whose snapshot it has not sent yet
    queue,      \* frames: [instrument, message]
    tracked,    \* instruments with a tracker
    book,       \* order books by instrument
    consumer,   \* where the consumer is, and the channel it resubscribes
    cooling,    \* instruments whose last resync request is recent
    sync,       \* where the universe refresh is, and what it is sending
    budget      \* what is left of the bounds

vars == <<state, link, loop, failures, lost, desired, active, served, owed,
          queue, tracked, book, consumer, cooling, sync, budget>>

connection == <<state, link, loop, failures, lost>>
books == <<tracked, book, consumer, cooling>>
exchange == <<served, owed>>

Bounds == [losses |-> MaxLosses, refusals |-> MaxRefusals,
           overflows |-> MaxOverflows, flaws |-> MaxFlaws, syncs |-> MaxSyncs]

Idle == [at |-> "idle", sent |-> {}]
SyncIdle == [at |-> "idle", sent |-> {}, remove |-> {}]

Init ==
    /\ state = "DISCONNECTED" /\ link = "none" /\ failures = 0 /\ lost = FALSE
    /\ loop = [at |-> "start", sent |-> {}]
    /\ desired = {} /\ active = {} /\ served = {} /\ owed = {}
    /\ queue = <<>>
    /\ tracked = {} /\ book = [i \in Instruments |-> NewBook]
    /\ consumer = Idle /\ cooling = {} /\ sync = SyncIdle
    /\ budget = Bounds

Spend(what) == budget[what] > 0 /\ budget' = [budget EXCEPT ![what] = @ - 1]

IsConnected == state = "CONNECTED"

-----------------------------------------------------------------------------
(* Frames.                                                                 *)

(* _enqueue: a full queue loses its oldest frame.                          *)
Enqueued(q, frame) ==
    Append(IF Len(q) = QueueSize THEN Tail(q) ELSE q, frame)

Snapshot(i) ==
    [instrument |-> i,
     message |-> [snapshot |-> TRUE, lag |-> 0, flaw |-> "none"]]

(* The exchange answers a subscription with a snapshot and goes on with    *)
(* deltas.  Without a transport nothing is sent; an error of a broken one  *)
(* is swallowed.                                                           *)
SendSubscribe(channels) ==
    IF link = "up"
    THEN served' = served \cup channels /\ owed' = owed \cup channels
    ELSE UNCHANGED exchange

SendUnsubscribe(channels) ==
    IF link = "up"
    THEN served' = served \ channels /\ owed' = owed \ channels
    ELSE UNCHANGED exchange

Frame(i, isSnapshot, flaw) ==
    [instrument |-> i,
     message |-> [snapshot |-> isSnapshot, lag |-> 0, flaw |-> flaw]]

(* A frame arrives.  Flawed frames and overflows are bounded.              *)
Arrives(q, frame) ==
    /\ queue' = Enqueued(q, frame)
    /\ IF frame.message.flaw # "none"
       THEN Len(q) < QueueSize /\ Spend("flaws")
       ELSE IF Len(q) = QueueSize THEN Spend("overflows")
       ELSE UNCHANGED budget

ExchangeAnswers(i, flaw) ==
    /\ i \in owed
    /\ owed' = owed \ {i}
    /\ Arrives(queue, Frame(i, TRUE, flaw))
    /\ UNCHANGED <<connection, desired, active, served, books, sync>>

(* The exchange changes a book and tells who has its snapshot.             *)
ExchangeUpdates(i, flaw) ==
    LET aged == [k \in 1..Len(queue) |->
                    IF queue[k].instrument = i
                    THEN [queue[k] EXCEPT !.message.lag = Older(@)]
                    ELSE queue[k]]
    IN  /\ \A k \in 1..Len(queue) : aged[k].message.lag < MaxLag - 1
        /\ book' = [book EXCEPT ![i].lag = Older(@)]
        /\ IF i \in served \ owed
           THEN Arrives(aged, Frame(i, FALSE, flaw))
           ELSE flaw = "none" /\ queue' = aged /\ UNCHANGED budget
        /\ UNCHANGED <<connection, desired, active, exchange, tracked, consumer,
                       cooling, sync>>

-----------------------------------------------------------------------------
(* The connection loop.                                                    *)

(* _register_failure: failures outside the window are forgotten.           *)
RegisterFailure ==
    \E old \in 0..failures :
        LET n == failures - old + 1
        IN  /\ failures' = IF n > MaxReconnectAttempts
                           THEN MaxReconnectAttempts + 1 ELSE n
            /\ state' = IF n > MaxReconnectAttempts THEN "DEGRADED" ELSE state

(* The top of the loop, at the start and after each backoff.               *)
TryConnect ==
    /\ loop.at \in {"start", "backoff"}
    /\ state' = IF state = "DEGRADED" THEN state
                ELSE IF lost THEN "RECONNECTING" ELSE "CONNECTING"
    /\ loop' = [loop EXCEPT !.at = "connecting"]
    /\ UNCHANGED <<link, failures, lost, desired, active, exchange, queue, books,
                   sync, budget>>

ConnectFails ==
    /\ loop.at = "connecting" /\ Spend("refusals")
    /\ RegisterFailure
    /\ loop' = [loop EXCEPT !.at = "backoff"]
    /\ UNCHANGED <<link, lost, desired, active, exchange, queue, books, sync>>

Connect ==
    /\ loop.at = "connecting"
    /\ link' = "up" /\ active' = {}
    /\ state' = "CONNECTED"
    /\ loop' = [loop EXCEPT !.at = "connected"]
    /\ UNCHANGED <<failures, lost, desired, exchange, queue, books, sync, budget>>

(* Mutant: what was active is restored, which is nothing by now.           *)
RestoredActive == active

(* What a new connection subscribes.                                       *)
Restored == desired

(* Behind the await of the state listener, with what is desired then.      *)
SubscribeDesired ==
    /\ loop.at = "connected"
    /\ IF Restored = {}
       THEN loop' = [loop EXCEPT !.at = "reading"] /\ UNCHANGED exchange
       ELSE /\ loop' = [at |-> "subscribing", sent |-> Restored]
            /\ SendSubscribe(Restored)
    /\ UNCHANGED <<state, link, failures, lost, desired, active, queue, books, sync,
                   budget>>

DesiredSent ==
    /\ loop.at = "subscribing"
    /\ active' = active \cup loop.sent
    /\ loop' = [at |-> "reading", sent |-> {}]
    /\ UNCHANGED <<state, link, failures, lost, desired, exchange, queue, books,
                   sync, budget>>

BreakConnection ==
    /\ link = "up" /\ Spend("losses")
    /\ link' = "broken" /\ served' = {} /\ owed' = {}
    /\ UNCHANGED <<state, loop, failures, lost, desired, active, queue, books,
                   sync>>

(* recv raises.  The state is not touched before the backoff is over,      *)
(* unless there were too many failures.                                    *)
Disconnect ==
    /\ loop.at = "reading" /\ link = "broken"
    /\ link' = "none" /\ active' = {} /\ lost' = TRUE
    /\ RegisterFailure
    /\ loop' = [loop EXCEPT !.at = "backoff"]
    /\ UNCHANGED <<desired, exchange, queue, books, sync, budget>>

Stop ==
    /\ loop.at # "stopped"
    /\ state' = "DISCONNECTED" /\ link' = "none"
    /\ active' = {} /\ served' = {} /\ owed' = {}
    /\ loop' = [at |-> "stopped", sent |-> {}]
    /\ UNCHANGED <<failures, lost, desired, queue, books, sync, budget>>

ConnectionLoop ==
    TryConnect \/ Connect \/ SubscribeDesired \/ DesiredSent \/ Disconnect

-----------------------------------------------------------------------------
(* The universe refresh: sync_universe and set_subscriptions.              *)

(* Beyond the limit the first channels in order are kept.                  *)
Truncated(channels) ==
    {i \in channels : Cardinality({j \in channels : j < i}) < MaxSubscriptions}

(***************************************************************************)
(* A refresh that changes the universe; one that finds it unchanged writes *)
(* nothing.  set_subscriptions sends what is new before what has gone.     *)
(***************************************************************************)
SyncUniverse(universe) ==
    LET wanted == Truncated(universe)
        add == wanted \ desired
        remove == desired \ wanted
    IN  /\ sync.at = "idle" /\ universe # tracked /\ Spend("syncs")
        /\ tracked' = universe
        /\ book' = [i \in Instruments |->
                        IF i \in tracked \ universe THEN NewBook ELSE book[i]]
        /\ desired' = wanted
        /\ CASE IsConnected /\ add # {} ->
                    /\ SendSubscribe(add)
                    /\ sync' = [at |-> "sub", sent |-> add, remove |-> remove]
             [] IsConnected /\ add = {} /\ remove # {} ->
                    /\ SendUnsubscribe(remove \cap active)
                    /\ sync' = [at |-> "unsub", sent |-> remove \cap active,
                                remove |-> {}]
             [] OTHER -> UNCHANGED <<exchange, sync>>
        /\ cooling' = cooling \cap universe
        /\ UNCHANGED <<connection, active, queue, consumer>>

(* Behind the await of the subscription: what is still active is removed.  *)
SyncSubscribed ==
    /\ sync.at = "sub"
    /\ LET now == active \cup sync.sent
       IN  /\ active' = now
           /\ IF sync.remove = {}
              THEN sync' = SyncIdle /\ UNCHANGED exchange
              ELSE /\ SendUnsubscribe(sync.remove \cap now)
                   /\ sync' = [at |-> "unsub", sent |-> sync.remove \cap now,
                               remove |-> {}]
    /\ UNCHANGED <<connection, desired, queue, books, budget>>

SyncUnsubscribed ==
    /\ sync.at = "unsub"
    /\ active' = active \ sync.sent
    /\ sync' = SyncIdle
    /\ UNCHANGED <<connection, desired, exchange, queue, books, budget>>

-----------------------------------------------------------------------------
(* The consumer.                                                           *)

(* _handle_book: a message that leaves the book unreliable asks for a      *)
(* resync, unless the last request is recent.                              *)
HandleFrame ==
    /\ consumer.at = "idle" /\ queue # <<>>
    /\ queue' = Tail(queue)
    /\ LET i == Head(queue).instrument
           m == Head(queue).message
           after == Apply(book[i], m)
       IN  IF i \notin tracked \/ ~ValidateBookMessage(m)
           THEN UNCHANGED <<book, consumer, cooling>>
           ELSE IF after.needsResync /\ i \notin cooling
           THEN /\ book' = [book EXCEPT ![i] = ResetForResync(after)]
                /\ cooling' = cooling \cup {i}
                /\ consumer' = [at |-> "resync", sent |-> {i}]
           ELSE /\ book' = [book EXCEPT ![i] = after]
                /\ UNCHANGED <<consumer, cooling>>
    /\ UNCHANGED <<connection, desired, active, exchange, tracked, sync, budget>>

(* resubscribe: only what is desired at this moment.                       *)
Resubscribe ==
    /\ consumer.at = "resync"
    /\ IF consumer.sent \subseteq desired /\ IsConnected
       THEN /\ SendUnsubscribe(consumer.sent \cap active)
            /\ consumer' = [consumer EXCEPT !.at = "unsub"]
       ELSE consumer' = Idle /\ UNCHANGED exchange
    /\ UNCHANGED <<connection, desired, active, queue, tracked, book, cooling, sync,
                   budget>>

ResyncUnsubscribed ==
    /\ consumer.at = "unsub"
    /\ active' = active \ consumer.sent
    /\ SendSubscribe(consumer.sent)
    /\ consumer' = [consumer EXCEPT !.at = "sub"]
    /\ UNCHANGED <<connection, desired, queue, tracked, book, cooling, sync, budget>>

ResyncSubscribed ==
    /\ consumer.at = "sub"
    /\ active' = active \cup consumer.sent
    /\ consumer' = Idle
    /\ UNCHANGED <<connection, desired, exchange, queue, tracked, book, cooling,
                   sync, budget>>

(* Time passes since a resync request.                                     *)
CoolDown(i) ==
    /\ i \in cooling
    /\ cooling' = cooling \ {i}
    /\ UNCHANGED <<connection, desired, active, exchange, queue, tracked, book,
                   consumer, sync, budget>>

Consumer ==
    HandleFrame \/ Resubscribe \/ ResyncUnsubscribed \/ ResyncSubscribed

-----------------------------------------------------------------------------
Next ==
    \/ \E i \in Instruments, flaw \in Flaws :
        ExchangeAnswers(i, flaw) \/ ExchangeUpdates(i, flaw)
    \/ ConnectionLoop \/ ConnectFails \/ BreakConnection \/ Stop
    \/ \E universe \in Universes : SyncUniverse(universe)
    \/ SyncSubscribed \/ SyncUnsubscribed
    \/ Consumer
    \/ \E i \in Instruments : CoolDown(i)

Spec == Init /\ [][Next]_vars

(* Tasks go on after each await, connection attempts are repeated without  *)
(* end, books change now and then, and time passes.                        *)
FairSpec ==
    /\ Spec
    /\ WF_vars(ConnectionLoop) /\ WF_vars(Consumer)
    /\ WF_vars(SyncSubscribed \/ SyncUnsubscribed)
    /\ \A i \in Instruments :
        /\ WF_vars(ExchangeAnswers(i, "none"))
        /\ WF_vars(ExchangeUpdates(i, "none"))
        /\ WF_vars(CoolDown(i))

-----------------------------------------------------------------------------
(* An order book that counts as reliable has exactly the levels the        *)
(* exchange had at the book's sequence number, whatever was lost, dropped, *)
(* refused or resent before (orderbook_service.py:88-118).                 *)
ReliableBooksAreRight ==
    \A i \in Instruments : Reliable(book[i]) => book[i].levels = "right"

(* When no request is under way on a connection that works, the exchange   *)
(* serves everything that is desired: no interleaving of reconnect, resync *)
(* and universe refresh loses a subscription (polymarket_ws.py:134-193).   *)
DesiredIsServed ==
    loop.at = "reading" /\ link = "up" /\ consumer.at = "idle"
        /\ sync.at = "idle" => desired \subseteq served

(* A book that is wanted becomes reliable again after every loss, as long  *)
(* as the feed runs: a resync that is not answered is asked for again, and *)
(* the client never gives up connecting (market_data_service.py:436-493).  *)
WantedBooksRecover ==
    \A i \in Instruments :
        []<>(i \in desired /\ loop.at # "stopped" => Reliable(book[i]))

=============================================================================
