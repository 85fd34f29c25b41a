--------------------------- MODULE MarketData_proofs ---------------------------
(***************************************************************************)
(* Safety of the two ends of the market data path: of MarketFeed for any   *)
(* instruments, universes, limits and queue sizes, and any losses,         *)
(* refusals, overflows and flawed messages, and of PersistenceBuffer for   *)
(* any keys, batches, capacities and failures.                             *)
(***************************************************************************)
EXTENDS MarketFeed, PersistenceBuffer, WellFoundedInduction, TLAPS

-----------------------------------------------------------------------------
(* The invariants.                                                         *)

(* A transport that is up is one the loop has reported, and not left yet.  *)
LinkInv ==
    link = "up" =>
        state = "CONNECTED" /\ loop.at \in {"connected", "subscribing", "reading"}

(* What a universe refresh is about to end is not desired.                 *)
SyncInv ==
    /\ sync.at # "idle" => sync.remove \cap desired = {}
    /\ sync.at = "unsub" => sync.sent \cap desired = {}

(* The book that the consumer has ended, to subscribe it again.            *)
Resubscribing == IF consumer.at = "unsub" THEN consumer.sent ELSE {}

(***************************************************************************)
(* From the moment the loop has sent what is desired, every change of what *)
(* is desired is sent too, and only the consumer may be behind.            *)
(***************************************************************************)
ServedInv ==
    link = "up" /\ loop.at \in {"subscribing", "reading"} =>
        desired \subseteq served \cup Resubscribing

Shapes ==
    /\ loop = [at |-> loop.at, sent |-> loop.sent]
    /\ consumer = [at |-> consumer.at, sent |-> consumer.sent]

FeedInv == Shapes /\ LinkInv /\ SyncInv /\ ServedInv

(* A book has its fields, and is right when it is reliable.                *)
Fields == {"initialized", "needsResync", "lag", "levels"}

RightBook(b) ==
    /\ b = [f \in Fields |-> b[f]]
    /\ b.initialized \in BOOLEAN /\ b.needsResync \in BOOLEAN
    /\ b.initialized /\ ~b.needsResync => b.levels = "right"

BookInv ==
    /\ book = [i \in Instruments |-> book[i]]
    /\ \A i \in Instruments : RightBook(book[i])

-----------------------------------------------------------------------------
(* Subscriptions.                                                          *)

(* The steps of the exchange, the queue and the clock.                     *)
Elsewhere == UNCHANGED <<state, link, loop, desired, served, consumer, sync>>

(* Nothing that concerns subscriptions changes.                            *)
LEMMA ElsewhereKeeps ==
  ASSUME FeedInv, Elsewhere
  PROVE  FeedInv'
  BY DEF FeedInv, Elsewhere, Shapes, LinkInv, SyncInv, ServedInv, Resubscribing

(* The loop connects, subscribes and fails.                                *)
LEMMA LoopKeeps ==
  ASSUME FeedInv, ConnectionLoop \/ ConnectFails \/ BreakConnection \/ Stop
  PROVE  FeedInv'
<1> USE DEF FeedInv, Shapes, LinkInv, SyncInv, ServedInv, Resubscribing
<1>1. CASE TryConnect
  BY <1>1 DEF TryConnect, exchange, books
<1>2. CASE ConnectFails
  BY <1>2 DEF ConnectFails, exchange, books
<1>3. CASE Connect
  BY <1>3 DEF Connect, exchange, books
<1>4. CASE SubscribeDesired
  BY <1>4 DEF SubscribeDesired, Restored, SendSubscribe, exchange, books
<1>5. CASE DesiredSent
  BY <1>5 DEF DesiredSent, exchange, books
<1>6. CASE Disconnect
  BY <1>6 DEF Disconnect, exchange, books
<1>7. CASE BreakConnection
  BY <1>7 DEF BreakConnection, books
<1>8. CASE Stop
  BY <1>8 DEF Stop, books
<1> QED
  BY <1>1, <1>2, <1>3, <1>4, <1>5, <1>6, <1>7, <1>8 DEF ConnectionLoop

(* The refresh sends what is new before it ends what has gone.             *)
LEMMA SyncKeeps ==
  ASSUME FeedInv, NEW universe,
         SyncUniverse(universe) \/ SyncSubscribed \/ SyncUnsubscribed
  PROVE  FeedInv'
<1> USE DEF FeedInv, Shapes, LinkInv, SyncInv, ServedInv, Resubscribing
<1>1. CASE SyncUniverse(universe)
  <2> DEFINE wanted == Truncated(universe)
             add == wanted \ desired
             remove == desired \ wanted
  <2>1. desired' = wanted /\ UNCHANGED <<state, link, loop, consumer>>
    BY <1>1 DEF SyncUniverse, connection
  <2>2. CASE IsConnected /\ add # {}
    <3>1. SendSubscribe(add) /\ sync' = [at |-> "sub", sent |-> add, remove |-> remove]
      BY <1>1, <2>2 DEF SyncUniverse
    <3> HIDE DEF wanted
    <3> QED
      BY <2>1, <3>1 DEF SendSubscribe, exchange
  <2>3. CASE IsConnected /\ add = {} /\ remove # {}
    <3>1. /\ SendUnsubscribe(remove \cap active)
          /\ sync' = [at |-> "unsub", sent |-> remove \cap active, remove |-> {}]
      BY <1>1, <2>3 DEF SyncUniverse
    <3> HIDE DEF wanted
    <3> QED
      BY <2>1, <2>3, <3>1 DEF SendUnsubscribe, exchange
  <2>4. CASE ~(IsConnected /\ add # {}) /\ ~(IsConnected /\ add = {} /\ remove # {})
    <3>1. UNCHANGED <<served, sync>> /\ sync.at = "idle"
      BY <1>1, <2>4 DEF SyncUniverse, exchange
    <3> HIDE DEF wanted
    <3> QED
      BY <2>1, <2>4, <3>1 DEF IsConnected
  <2> QED
    BY <2>2, <2>3, <2>4
<1>2. CASE SyncSubscribed
  BY <1>2 DEF SyncSubscribed, SendUnsubscribe, SyncIdle, connection, exchange, books
<1>3. CASE SyncUnsubscribed
  BY <1>3 DEF SyncUnsubscribed, SyncIdle, connection, exchange, books
<1> QED
  BY <1>1, <1>2, <1>3

(* A resync ends one subscription and makes it again.                      *)
LEMMA ConsumerKeeps ==
  ASSUME FeedInv, Consumer
  PROVE  FeedInv'
<1> USE DEF FeedInv, Shapes, LinkInv, SyncInv, ServedInv, Resubscribing
<1>1. CASE HandleFrame
  <2>1. UNCHANGED <<state, link, loop, desired, served, sync>> /\ consumer.at = "idle"
    BY <1>1 DEF HandleFrame, connection, exchange
  <2>2. consumer' = consumer \/ \E i : consumer' = [at |-> "resync", sent |-> {i}]
    BY <1>1 DEF HandleFrame
  <2> QED
    BY <2>1, <2>2
<1>2. CASE Resubscribe
  BY <1>2 DEF Resubscribe, SendUnsubscribe, Idle, connection, exchange
<1>3. CASE ResyncUnsubscribed
  BY <1>3 DEF ResyncUnsubscribed, SendSubscribe, connection, exchange
<1>4. CASE ResyncSubscribed
  BY <1>4 DEF ResyncSubscribed, Idle, connection, exchange
<1> QED
  BY <1>1, <1>2, <1>3, <1>4 DEF Consumer

(* At the start there is no transport.                                     *)
LEMMA FeedInit == Init => FeedInv
  BY DEF Init, FeedInv, Shapes, LinkInv, SyncInv, ServedInv, Idle, SyncIdle

(* Every step keeps the invariant.                                         *)
LEMMA FeedNext == FeedInv /\ [Next]_vars => FeedInv'
<1> SUFFICES ASSUME FeedInv, [Next]_vars
             PROVE  FeedInv'
  OBVIOUS
<1>1. ASSUME NEW i \in Instruments, NEW flaw \in Flaws,
             ExchangeAnswers(i, flaw) \/ ExchangeUpdates(i, flaw)
      PROVE  FeedInv'
  BY <1>1, ElsewhereKeeps
     DEF Elsewhere, ExchangeAnswers, ExchangeUpdates, connection, exchange, books
<1>2. ASSUME NEW i \in Instruments, CoolDown(i)
      PROVE  FeedInv'
  BY <1>2, ElsewhereKeeps DEF Elsewhere, CoolDown, connection, exchange
<1>3. CASE UNCHANGED vars
  BY <1>3, ElsewhereKeeps DEF Elsewhere, vars
<1> QED
  BY <1>1, <1>2, <1>3, LoopKeeps, SyncKeeps, ConsumerKeeps DEF Next

(* When no request is under way on a connection that works, the exchange   *)
(* serves everything that is desired, whatever reconnects, resyncs and     *)
(* universe refreshes came between (polymarket_ws.py:134-193).             *)
THEOREM DesiredIsServedHolds == Spec => []DesiredIsServed
<1>1. FeedInv => DesiredIsServed
  BY DEF FeedInv, ServedInv, Resubscribing, DesiredIsServed
<1> QED
  BY FeedInit, FeedNext, <1>1, PTL DEF Spec

-----------------------------------------------------------------------------
(* Books.                                                                  *)

(* A message keeps a book right or tells that it is not.                   *)
LEMMA ApplyKeeps ==
  ASSUME NEW b, RightBook(b), NEW m
  PROVE  RightBook(Apply(b, m))
  BY DEF RightBook, Fields, Apply, ApplySnapshot, ApplyDelta, MarkUnreliable, SequenceGap,
         Updated

(* A reset book is right, for it is not reliable.                          *)
LEMMA ResetKeeps ==
  ASSUME NEW b, RightBook(b)
  PROVE  RightBook(ResetForResync(b))
  BY DEF RightBook, Fields, ResetForResync

(* Books only change by messages, resets and the passing of time.          *)
LEMMA BookNext == BookInv /\ [Next]_vars => BookInv'
<1> SUFFICES ASSUME BookInv, [Next]_vars
             PROVE  BookInv'
  OBVIOUS
<1>1. CASE UNCHANGED book
  BY <1>1 DEF BookInv
<1>2. ASSUME NEW i \in Instruments, NEW b, RightBook(b), book' = [book EXCEPT ![i] = b]
      PROVE  BookInv'
  BY <1>2 DEF BookInv
<1>3. ASSUME NEW i \in Instruments, NEW flaw \in Flaws, ExchangeUpdates(i, flaw)
      PROVE  BookInv'
  <2> DEFINE b == [book[i] EXCEPT !.lag = Older(book[i].lag)]
  <2>1. book' = [book EXCEPT ![i] = b]
    BY <1>3 DEF ExchangeUpdates, BookInv
  <2>2. RightBook(b)
    BY DEF BookInv, RightBook, Fields
  <2> QED
    BY <1>2, <2>1, <2>2
<1>4. ASSUME NEW universe, SyncUniverse(universe)
      PROVE  BookInv'
  BY <1>4 DEF SyncUniverse, BookInv, RightBook, Fields, NewBook
<1>5. CASE HandleFrame
  <2> DEFINE i == Head(queue).instrument
             after == Apply(book[i], Head(queue).message)
  <2>1. CASE i \in Instruments
    <3>1. RightBook(after) /\ RightBook(ResetForResync(after))
      BY <2>1, ApplyKeeps, ResetKeeps DEF BookInv
    <3>2. \/ UNCHANGED book
          \/ book' = [book EXCEPT ![i] = ResetForResync(after)]
          \/ book' = [book EXCEPT ![i] = after]
      BY <1>5 DEF HandleFrame
    <3> HIDE DEF i, after
    <3> QED
      BY <1>1, <1>2, <2>1, <3>1, <3>2
  <2>2. CASE i \notin Instruments
    <3>1. \/ UNCHANGED book
          \/ book' = [book EXCEPT ![i] = ResetForResync(after)]
          \/ book' = [book EXCEPT ![i] = after]
      BY <1>5 DEF HandleFrame
    <3> HIDE DEF i, after
    <3>2. UNCHANGED book
      BY <2>2, <3>1 DEF BookInv
    <3> QED
      BY <1>1, <3>2
  <2> QED
    BY <2>1, <2>2
<1>6. ASSUME NEW i \in Instruments, NEW flaw \in Flaws, ExchangeAnswers(i, flaw)
      PROVE  UNCHANGED book
  BY <1>6 DEF ExchangeAnswers, books
<1>7. ASSUME ConnectionLoop \/ ConnectFails \/ BreakConnection \/ Stop
      PROVE  UNCHANGED book
  BY <1>7 DEF ConnectionLoop, TryConnect, Connect, SubscribeDesired, DesiredSent, Disconnect,
              ConnectFails, BreakConnection, Stop, books
<1>8. ASSUME \/ SyncSubscribed \/ SyncUnsubscribed
             \/ Resubscribe \/ ResyncUnsubscribed \/ ResyncSubscribed
             \/ UNCHANGED vars
      PROVE  UNCHANGED book
  BY <1>8 DEF SyncSubscribed, SyncUnsubscribed, Resubscribe, ResyncUnsubscribed,
              ResyncSubscribed, vars, books
<1>9. ASSUME NEW i \in Instruments, CoolDown(i)
      PROVE  UNCHANGED book
  BY <1>9 DEF CoolDown
<1> QED
  BY <1>1, <1>3, <1>4, <1>5, <1>6, <1>7, <1>8, <1>9 DEF Next, Consumer

(* No book is reliable before its first snapshot.                          *)
LEMMA BookInit == Init => BookInv
<1>1. RightBook(NewBook)
  BY DEF RightBook, Fields, NewBook
<1> QED
  BY <1>1 DEF Init, BookInv

(* A book that counts as reliable has the levels the exchange had at its   *)
(* sequence number, whatever messages were lost, dropped, refused or       *)
(* flawed (orderbook_service.py:88-118).                                   *)
THEOREM ReliableBooksAreRightHolds == Spec => []ReliableBooksAreRight
<1>1. BookInv => ReliableBooksAreRight
  BY DEF BookInv, RightBook, Reliable, ReliableBooksAreRight
<1> QED
  BY BookInit, BookNext, <1>1, PTL DEF Spec

-----------------------------------------------------------------------------
(* The buffer: sequences, and what is kept of them.                        *)

(* A set of numbers has a least one.                                       *)
LEMMA LeastNatural ==
  ASSUME NEW S, S \subseteq Nat, S # {}
  PROVE  \E m \in S : \A n \in S : m <= n
<1> DEFINE Less == OpToRel(<, Nat)
<1>1. PICK m \in S : \A n \in S : ~(<<n, m>> \in Less)
  BY NatLessThanWellFounded, WFMin, Zenon
<1>2. \A n \in S : ~(n < m)
  BY <1>1 DEF OpToRel
<1> QED
  BY <1>2

(* Appending adds one member.                                              *)
LEMMA RangeOfAppend ==
  ASSUME NEW S, NEW s \in Seq(S), NEW e \in S
  PROVE  Append(s, e) \in Seq(S) /\ Range(Append(s, e)) = Range(s) \cup {e}
<1>1. /\ Append(s, e) \in Seq(S) /\ DOMAIN Append(s, e) = 1 .. Len(s) + 1
      /\ \A i \in 1 .. Len(s) : Append(s, e)[i] = s[i]
      /\ Append(s, e)[Len(s) + 1] = e
      /\ DOMAIN s = 1 .. Len(s) /\ Len(s) \in Nat
  OBVIOUS
<1> DEFINE t == Append(s, e)
<1>2. t \in Seq(S) /\ DOMAIN t = 1 .. Len(s) + 1 /\ t[Len(s) + 1] = e
  BY <1>1
<1>3. \A i \in DOMAIN s : i \in DOMAIN t /\ t[i] = s[i]
  <2> TAKE i \in DOMAIN s
  <2>1. i \in 1 .. Len(s) /\ i \in 1 .. Len(s) + 1
    BY <1>1
  <2> QED
    BY <1>1, <2>1
<1>4. \A i \in DOMAIN t : i \in DOMAIN s \/ i = Len(s) + 1
  BY <1>1, <1>2
<1>5. Len(s) + 1 \in DOMAIN t
  BY <1>1, <1>2
<1> HIDE DEF t
<1>6. Range(t) = Range(s) \cup {e}
  BY <1>2, <1>3, <1>4, <1>5, Zenon DEF Range
<1> QED
  BY <1>2, <1>6 DEF t

(* A sequence is its head and its tail.                                    *)
LEMMA RangeOfTail ==
  ASSUME NEW S, NEW s \in Seq(S), s # <<>>
  PROVE  /\ Tail(s) \in Seq(S) /\ Head(s) \in S
         /\ Range(s) = {Head(s)} \cup Range(Tail(s))
<1>1. /\ Tail(s) \in Seq(S) /\ DOMAIN Tail(s) = 1 .. Len(s) - 1 /\ Len(s) \in Nat \ {0}
      /\ \A i \in 1 .. Len(s) - 1 : Tail(s)[i] = s[i + 1]
      /\ Head(s) = s[1] /\ DOMAIN s = 1 .. Len(s)
  OBVIOUS
<1>2. \A i \in 1 .. Len(s) : i = 1 \/ (i - 1 \in 1 .. Len(s) - 1 /\ s[i] = Tail(s)[i - 1])
  BY <1>1
<1>3. 1 \in 1 .. Len(s) /\ \A i \in 1 .. Len(s) - 1 : i + 1 \in 1 .. Len(s)
  BY <1>1
<1> DEFINE t == Tail(s)
<1>5. DOMAIN t = 1 .. Len(s) - 1
  BY <1>1
<1>6. \A i \in DOMAIN s : s[i] = Head(s) \/ \E j \in DOMAIN t : s[i] = t[j]
  BY <1>1, <1>2, <1>5
<1>4. Range(s) \subseteq {Head(s)} \cup Range(t)
  <2> HIDE DEF t
  <2> QED
    BY <1>6, Zenon DEF Range
<1>7. {Head(s)} \cup Range(t) \subseteq Range(s)
  BY <1>1, <1>3 DEF Range
<1> QED
  BY <1>1, <1>4, <1>7

Record == [key : Keys, version : Nat]

(* What the recursion of WithoutKeys builds from the first n records.      *)
KeptStep(s, keys, f, n) ==
    IF n = 0 THEN <<>>
    ELSE IF s[n].key \in keys THEN f[n - 1]
    ELSE Append(f[n - 1], s[n])

(* There is a function that satisfies the recursion, for every number of   *)
(* records: the least number without one would have one after all.         *)
LEMMA KeptExists ==
  ASSUME NEW s, NEW keys, NEW N \in Nat
  PROVE  \E f : f = [n \in 0 .. N |-> KeptStep(s, keys, f, n)]
<1> DEFINE Built(m, f) == f = [n \in 0 .. m |-> KeptStep(s, keys, f, n)]
           Bad == {m \in Nat : \A f : ~Built(m, f)}
<1> SUFFICES Bad = {}
  OBVIOUS
<1>1. SUFFICES ASSUME Bad # {}
               PROVE  FALSE
  OBVIOUS
<1>2. PICK m \in Bad : \A n \in Bad : m <= n
  BY <1>1, LeastNatural
<1>3. m # 0
  <2> DEFINE f == [n \in 0 .. 0 |-> <<>>]
  <2>1. Built(0, f)
    BY DEF KeptStep
  <2> QED
    BY <2>1
<1>4. m - 1 \in Nat /\ m - 1 \notin Bad
  BY <1>2, <1>3
<1>5. PICK f : Built(m - 1, f)
  BY <1>4
<1> DEFINE g == [n \in 0 .. m |-> IF n = m THEN KeptStep(s, keys, f, m) ELSE f[n]]
<1>6. ASSUME NEW n \in 0 .. m
      PROVE  g[n] = KeptStep(s, keys, g, n)
  <2>1. n # 0 => n - 1 \in 0 .. m - 1 /\ n - 1 \in 0 .. m /\ n - 1 # m
    BY <1>4
  <2>2. n # 0 => g[n - 1] = f[n - 1]
    BY <2>1
  <2>3. KeptStep(s, keys, g, n) = KeptStep(s, keys, f, n)
    BY <2>2 DEF KeptStep
  <2>4. n # m => n \in 0 .. m - 1
    BY <1>4
  <2>5. n # m => f[n] = KeptStep(s, keys, f, n)
    BY <1>5, <2>4
  <2> QED
    BY <2>3, <2>5
<1>7. Built(m, g)
  <2> HIDE DEF g
  <2>1. g = [n \in 0 .. m |-> g[n]]
    BY DEF g
  <2> QED
    BY <1>6, <2>1
<1> QED
  BY <1>2, <1>7

(* The recursion of WithoutKeys may be unfolded: what is kept is the value  *)
(* at the last record of a function that satisfies it.                     *)
LEMMA KeptUnfolds ==
  ASSUME NEW s, NEW keys, Len(s) \in Nat
  PROVE  \E f : /\ f = [n \in 0 .. Len(s) |-> KeptStep(s, keys, f, n)]
                /\ WithoutKeys(s, keys) = f[Len(s)]
<1> DEFINE kept == CHOOSE f : f = [n \in 0 .. Len(s) |-> KeptStep(s, keys, f, n)]
<1>1. kept = [n \in 0 .. Len(s) |-> KeptStep(s, keys, kept, n)]
  BY KeptExists
<1>2. WithoutKeys(s, keys) = kept[Len(s)]
  BY DEF WithoutKeys, KeptStep
<1> QED
  BY <1>1, <1>2

(* What is kept are the records of the other keys, all of them.            *)
LEMMA KeptRecords ==
  ASSUME NEW s \in Seq(Record), NEW keys
  PROVE  /\ WithoutKeys(s, keys) \in Seq(Record)
         /\ Range(WithoutKeys(s, keys)) = {r \in Range(s) : r.key \notin keys}
<1> DEFINE Kept(n) == {s[i] : i \in {j \in 1 .. n : s[j].key \notin keys}}
<1>0. Len(s) \in Nat
  OBVIOUS
<1>1. PICK f : /\ f = [n \in 0 .. Len(s) |-> KeptStep(s, keys, f, n)]
               /\ WithoutKeys(s, keys) = f[Len(s)]
  BY <1>0, KeptUnfolds
<1> DEFINE Right(n) == f[n] \in Seq(Record) /\ Range(f[n]) = Kept(n)
           Bad == {n \in 0 .. Len(s) : ~Right(n)}
<1>2. ASSUME Bad # {}
      PROVE  FALSE
  <2>1. PICK n \in Bad : \A i \in Bad : n <= i
    <3> HIDE DEF Bad
    <3>1. Bad \subseteq Nat
      BY DEF Bad
    <3> QED
      BY <1>2, <3>1, LeastNatural
  <2>2. f[n] = KeptStep(s, keys, f, n)
    BY <1>1
  <2>3. CASE n = 0
    <3>1. f[n] = <<>> /\ Kept(n) = {}
      BY <2>2, <2>3 DEF KeptStep
    <3>2. <<>> \in Seq(Record) /\ Range(<<>>) = {}
      BY DEF Range
    <3>3. Right(n)
      BY <3>1, <3>2
    <3> QED
      BY <3>3, <2>1
  <2>4. CASE n # 0
    <3> DEFINE t == f[n - 1]
    <3>1. n \in 1 .. Len(s) /\ n - 1 \in 0 .. Len(s) /\ s[n] \in Record
      BY <2>4
    <3>2. t \in Seq(Record) /\ Range(t) = Kept(n - 1)
      <4>1. n - 1 \notin Bad
        <5>1. n - 1 \in Nat /\ n \in Nat /\ ~(n <= n - 1)
          BY <1>0, <3>1
        <5> HIDE DEF Bad
        <5> QED
          BY <2>1, <5>1
      <4>2. Right(n - 1)
        BY <4>1, <3>1
      <4> QED
        BY <4>2
    <3> HIDE DEF t
    <3>3. CASE s[n].key \in keys
      <4>1. f[n] = t
        BY <2>2, <2>4, <3>3 DEF KeptStep, t
      <4>2. Kept(n) = Kept(n - 1)
        BY <3>1, <3>3
      <4> QED
        BY <4>1, <4>2, <3>2, <2>1
    <3>4. CASE s[n].key \notin keys
      <4>1. f[n] = Append(t, s[n])
        BY <2>2, <2>4, <3>4 DEF KeptStep, t
      <4>2. Kept(n) = Kept(n - 1) \cup {s[n]}
        BY <3>1, <3>4
      <4>3. f[n] \in Seq(Record) /\ Range(f[n]) = Range(t) \cup {s[n]}
        BY <4>1, <3>1, <3>2, RangeOfAppend
      <4> QED
        BY <4>2, <4>3, <3>2, <2>1
    <3> QED
      BY <3>3, <3>4
  <2> QED
    BY <2>3, <2>4
<1>3. f[Len(s)] \in Seq(Record) /\ Range(f[Len(s)]) = Kept(Len(s))
  <2>1. Len(s) \in 0 .. Len(s)
    BY <1>0
  <2>3. Bad = {}
    BY <1>2
  <2>2. Right(Len(s))
    BY <2>1, <2>3
  <2> QED
    BY <2>2
<1>4. Kept(Len(s)) = {r \in Range(s) : r.key \notin keys}
  BY DEF Range
<1> QED
  BY <1>1, <1>3, <1>4

-----------------------------------------------------------------------------
(* The buffer: its invariant.                                              *)

BufferTypes ==
    /\ records \in Seq(Record) /\ batch \in Seq(Record)
    /\ written \in 0 .. Len(batch)
    /\ task \in {"sleeping", "flushing", "final", "stopped"}
    /\ db \in [Keys -> Nat] /\ newest \in [Keys -> Nat]

(* What waits is the newest state of its key, and the database is behind. *)
WaitingInv ==
    /\ \A r \in Range(records) : r.version = newest[r.key]
    /\ \A k \in Keys : db[k] <= newest[k]

(* The batch under way holds one state of a key. *)
BatchInv ==
    /\ ~Flushing => batch = <<>>
    /\ \A a, b \in Range(batch) : a.key = b.key => a = b
    /\ \A b \in Range(batch) :
          \/ b.version = newest[b.key]
          \/ /\ b.version < newest[b.key]
             /\ [key |-> b.key, version |-> newest[b.key]] \in raced

(* The transactions of the batch so far are in the database, and the rest  *)
(* will bring it forward. *)
FlushInv ==
    /\ \A i \in 1 .. written : db[batch[i].key] = batch[i].version
    /\ \A i \in DOMAIN batch : db[batch[i].key] <= batch[i].version

BufferInv == BufferTypes /\ WaitingInv /\ BatchInv /\ FlushInv /\ NewestIsAccountedFor

(* The buffer starts with the invariant.                                   *)
LEMMA BufferInvInit == BufferInit => BufferInv
<1> SUFFICES ASSUME BufferInit PROVE BufferInv
  OBVIOUS
<1>1. records = <<>> /\ batch = <<>> /\ Range(<<>>) = {} /\ written = 0
  BY DEF BufferInit, Range
<1>2. BufferTypes
  BY <1>1 DEF BufferInit, BufferTypes
<1>3. WaitingInv
  BY <1>1 DEF BufferInit, WaitingInv
<1>4. BatchInv /\ FlushInv
  BY <1>1 DEF BatchInv, FlushInv
<1>5. NewestIsAccountedFor
  BY DEF BufferInit, NewestIsAccountedFor
<1> QED
  BY <1>2, <1>3, <1>4, <1>5 DEF BufferInv

(* A batch consists of records that wait in the buffer.                    *)
LEMMA FirstBatchTyped ==
  ASSUME BufferTypes
  PROVE  FirstBatch \in Seq(Record) /\ Range(FirstBatch) \subseteq Range(records)
<1> DEFINE n == IF Len(records) < BatchSize THEN Len(records) ELSE BatchSize
<1>1. n \in 0 .. Len(records) /\ FirstBatch = SubSeq(records, 1, n)
  BY BufferAssumption DEF FirstBatch, BufferTypes
<1> HIDE DEF n
<1>2. FirstBatch \in Seq(Record)
  BY <1>1 DEF BufferTypes
<1>3. DOMAIN FirstBatch = 1 .. n /\ \A i \in 1 .. n : FirstBatch[i] = records[i]
  BY <1>1 DEF BufferTypes
<1>4. Range(FirstBatch) \subseteq Range(records)
  <2>1. \A i \in 1 .. n : i \in DOMAIN records
    BY <1>1 DEF BufferTypes
  <2> QED
    BY <1>3, <2>1 DEF Range
<1> QED
  BY <1>2, <1>4

(* A flush that begins. *)
LEMMA BeginningKeeps ==
  ASSUME BufferInv, batch' = FirstBatch, written' = 0,
         task' \in {"flushing", "final"} \/ (task' = "stopped" /\ records = <<>>),
         UNCHANGED <<records, degraded, db, newest, dropped, raced, faults>>
  PROVE  BufferInv'
<1>1. batch' \in Seq(Record) /\ Range(batch') \subseteq Range(records)
  BY FirstBatchTyped DEF BufferInv
<1>2. BufferTypes'
  BY <1>1 DEF BufferInv, BufferTypes
<1>3. WaitingInv'
  BY DEF BufferInv, WaitingInv
<1>4. \A b \in Range(batch') : b \in Record /\ b.version = newest[b.key]
  <2>1. Range(records) \subseteq Record
    BY DEF BufferInv, BufferTypes, Range
  <2> QED
    BY <1>1, <2>1 DEF BufferInv, WaitingInv
<1>5. records = <<>> => batch' = <<>>
  <2>1. records = <<>> => Range(records) = {}
    BY DEF Range
  <2>2. batch' # <<>> => 1 \in DOMAIN batch'
    BY <1>1
  <2>3. 1 \in DOMAIN batch' => batch'[1] \in Range(batch')
    BY DEF Range
  <2> QED
    BY <1>1, <2>1, <2>2, <2>3
<1>6. BatchInv'
  BY <1>4, <1>5 DEF BatchInv, Flushing, Record
<1>7. FlushInv'
  <2>1. \A i \in DOMAIN batch' : db[batch'[i].key] <= batch'[i].version
    BY <1>4 DEF BufferInv, WaitingInv, Range, Record
  <2> QED
    BY <2>1 DEF FlushInv
<1>8. NewestIsAccountedFor'
  BY DEF BufferInv, NewestIsAccountedFor
<1> QED
  BY <1>2, <1>3, <1>6, <1>7, <1>8 DEF BufferInv

(* A record that comes is the newest of its key; what it displaces is      *)
(* dropped, or older.                                                      *)
LEMMA AppendKeeps ==
  ASSUME BufferInv, NEW k \in Keys, AppendRecord(k)
  PROVE  BufferInv'
<1> DEFINE record == [key |-> k, version |-> newest[k] + 1]
           full == k \notin KeysOf(records) /\ Len(records) = MaxBuffered
           left == IF full THEN Tail(records) ELSE WithoutKeys(records, {k})
<1>1. /\ records' = Append(left, record)
      /\ newest' = [newest EXCEPT ![k] = @ + 1]
      /\ dropped' = IF full THEN dropped \cup {Head(records)} ELSE dropped
      /\ raced' = IF Flushing /\ k \in KeysOf(batch) THEN raced \cup {record} ELSE raced
      /\ UNCHANGED <<task, batch, written, degraded, db, faults>>
  BY DEF AppendRecord
<1>2. BufferTypes /\ record \in Record /\ newest[k] \in Nat /\ db[k] <= newest[k]
  BY DEF BufferInv, BufferTypes, WaitingInv, Record
<1>3. /\ left \in Seq(Record) /\ Range(left) \subseteq Range(records)
      /\ \A r \in Range(left) : r.key # k
      /\ \A r \in Range(records) : r.key # k => r \in Range(left) \cup dropped'
  <2>1. CASE full
    <3>1. records # <<>>
      BY <1>2, <2>1, BufferAssumption DEF BufferTypes
    <3>2. /\ Tail(records) \in Seq(Record)
          /\ Range(records) = {Head(records)} \cup Range(Tail(records))
      BY <1>2, <3>1, RangeOfTail DEF BufferTypes
    <3>3. left = Tail(records) /\ dropped' = dropped \cup {Head(records)}
      BY <1>1, <2>1
    <3> HIDE DEF left
    <3> QED
      BY <2>1, <3>2, <3>3 DEF KeysOf
  <2>2. CASE ~full
    <3>1. left = WithoutKeys(records, {k})
      BY <2>2
    <3>2. /\ WithoutKeys(records, {k}) \in Seq(Record)
          /\ Range(WithoutKeys(records, {k})) = {r \in Range(records) : r.key \notin {k}}
      BY <1>2, KeptRecords DEF BufferTypes
    <3> HIDE DEF left
    <3> QED
      BY <3>1, <3>2
  <2> QED
    BY <2>1, <2>2
<1> HIDE DEF left, full
<1>4. records' \in Seq(Record) /\ Range(records') = Range(left) \cup {record}
  BY <1>1, <1>2, <1>3, RangeOfAppend
<1>5. newest' \in [Keys -> Nat] /\ newest'[k] = newest[k] + 1
      /\ \A j \in Keys \ {k} : newest'[j] = newest[j]
  BY <1>1, <1>2 DEF BufferTypes
<1>6. BufferTypes'
  BY <1>1, <1>2, <1>4, <1>5 DEF BufferTypes
<1>7. WaitingInv'
  <2>1. ASSUME NEW r \in Range(records')
        PROVE  r.version = newest'[r.key]
    <3>1. CASE r = record
      BY <1>5, <3>1
    <3>2. CASE r \in Range(left)
      <4>1. r.version = newest[r.key] /\ r.key # k
        BY <1>3, <3>2 DEF BufferInv, WaitingInv
      <4>2. r \in Record
        BY <1>3, <3>2 DEF Range
      <4> QED
        BY <1>5, <4>1, <4>2 DEF Record
    <3> QED
      BY <1>4, <3>1, <3>2
  <2>2. \A j \in Keys : db'[j] <= newest'[j]
    BY <1>1, <1>2, <1>5 DEF BufferInv, WaitingInv, BufferTypes
  <2> QED
    BY <2>1, <2>2 DEF WaitingInv
<1>8. BatchInv'
  <2>1. Range(batch) \subseteq Record
    BY <1>2 DEF BufferTypes, Range
  <2>2. ~Flushing' => batch' = <<>>
    BY <1>1 DEF BufferInv, BatchInv, Flushing
  <2>3. \A a, b \in Range(batch') : a.key = b.key => a = b
    BY <1>1 DEF BufferInv, BatchInv
  <2>4. ASSUME NEW b \in Range(batch)
        PROVE  \/ b.version = newest'[b.key]
               \/ /\ b.version < newest'[b.key]
                  /\ [key |-> b.key, version |-> newest'[b.key]] \in raced'
    <3>1. /\ b.key \in Keys /\ b.version \in Nat
          /\ \/ b.version = newest[b.key]
             \/ /\ b.version < newest[b.key]
                /\ [key |-> b.key, version |-> newest[b.key]] \in raced
      BY <2>1 DEF BufferInv, BatchInv, Record
    <3>2. CASE b.key = k
      <4>1. k \in KeysOf(batch)
        BY <3>2 DEF KeysOf
      <4>2. Flushing
        BY DEF BufferInv, BatchInv, Range
      <4>3. record \in raced' /\ record = [key |-> b.key, version |-> newest'[b.key]]
        BY <1>1, <1>5, <3>2, <4>1, <4>2
      <4> QED
        BY <1>2, <1>5, <3>1, <3>2, <4>3
    <3>3. CASE b.key # k
      BY <1>1, <1>5, <3>1, <3>3
    <3> QED
      BY <3>2, <3>3
  <2> QED
    BY <1>1, <2>2, <2>3, <2>4 DEF BatchInv
<1>9. FlushInv'
  BY <1>1 DEF BufferInv, FlushInv
<1>10. NewestIsAccountedFor'
  <2> SUFFICES ASSUME NEW j \in Keys, newest'[j] > 0, db'[j] # newest'[j]
               PROVE  [key |-> j, version |-> newest'[j]]
                        \in Range(records') \cup dropped' \cup raced'
    BY DEF NewestIsAccountedFor
  <2>1. CASE j = k
    BY <1>4, <1>5, <2>1
  <2>2. CASE j # k
    <3>1. [key |-> j, version |-> newest[j]] \in Range(records) \cup dropped \cup raced
      BY <1>1, <1>5, <2>2 DEF BufferInv, NewestIsAccountedFor
    <3>2. dropped \subseteq dropped' /\ raced \subseteq raced'
      BY <1>1
    <3> QED
      BY <1>3, <1>4, <1>5, <2>2, <3>1, <3>2
  <2> QED
    BY <2>1, <2>2
<1> QED
  BY <1>6, <1>7, <1>8, <1>9, <1>10 DEF BufferInv

(* A transaction brings the database forward, and no farther than what     *)
(* came last.                                                              *)
LEMMA UpsertKeeps ==
  ASSUME BufferInv, UpsertCandles
  PROVE  BufferInv' /\ \A k \in Keys : db'[k] >= db[k]
<1> DEFINE b == batch[written + 1]
<1>1. /\ written + 1 \in DOMAIN batch /\ written \in Nat /\ written + 1 \in 1 .. Len(batch)
      /\ DOMAIN batch = 1 .. Len(batch)
  BY DEF UpsertCandles, BufferInv, BufferTypes
<1>2. b \in Record /\ b \in Range(batch)
  BY <1>1 DEF BufferInv, BufferTypes, Range
<1>3. db' = [db EXCEPT ![b.key] = b.version] /\ written' = written + 1
      /\ UNCHANGED <<records, task, batch, degraded, newest, dropped, raced, faults>>
  BY DEF UpsertCandles
<1>4. /\ db[b.key] <= b.version /\ b.version <= newest[b.key]
      /\ b.key \in Keys /\ b.version \in Nat
      /\ db \in [Keys -> Nat] /\ newest \in [Keys -> Nat]
  <2>1. b.key \in Keys /\ b.version \in Nat
    BY <1>2 DEF Record
  <2>2. db \in [Keys -> Nat] /\ newest \in [Keys -> Nat]
    BY DEF BufferInv, BufferTypes
  <2>3. db[b.key] <= b.version
    BY <1>1 DEF BufferInv, FlushInv
  <2>4. b.version = newest[b.key] \/ b.version < newest[b.key]
    BY <1>2 DEF BufferInv, BatchInv
  <2> HIDE DEF b
  <2> QED
    BY <2>1, <2>2, <2>3, <2>4
<1>5. \A i \in DOMAIN batch : batch[i].key = b.key => batch[i] = b
  BY <1>2 DEF BufferInv, BatchInv, Range
<1>u. ASSUME NEW i \in DOMAIN batch
      PROVE  batch[i].key \in Keys /\ batch[i].version \in Nat
  <2>1. batch[i] \in Record
    BY DEF BufferInv, BufferTypes
  <2> QED
    BY <2>1 DEF Record
<1> HIDE DEF b
<1>6. db' \in [Keys -> Nat] /\ db'[b.key] = b.version
      /\ \A k \in Keys \ {b.key} : db'[k] = db[k]
  BY <1>3, <1>4
<1>7. BufferTypes'
  BY <1>1, <1>3, <1>6 DEF BufferInv, BufferTypes
<1>8. WaitingInv'
  BY <1>3, <1>4, <1>6 DEF BufferInv, WaitingInv
<1>9. BatchInv'
  BY <1>3 DEF BufferInv, BatchInv, Flushing
<1>10. FlushInv'
  <2>1. ASSUME NEW i \in DOMAIN batch
        PROVE  /\ i <= written + 1 => db'[batch[i].key] = batch[i].version
               /\ db'[batch[i].key] <= batch[i].version
    <3>1. CASE batch[i].key = b.key
      BY <1>4, <1>5, <1>6, <3>1
    <3>2. CASE batch[i].key # b.key
      <4>1. i # written + 1
        BY <3>2 DEF b
      <4>2. i <= written + 1 => i \in 1 .. written
        BY <1>1, <4>1
      <4>3. db'[batch[i].key] = db[batch[i].key]
        BY <1>u, <1>6, <3>2
      <4> QED
        BY <4>2, <4>3 DEF BufferInv, FlushInv
    <3> QED
      BY <3>1, <3>2
  <2>2. \A i \in 1 .. written + 1 : i \in DOMAIN batch /\ i <= written + 1
    BY <1>1
  <2> QED
    BY <1>3, <2>1, <2>2 DEF FlushInv
<1>11. NewestIsAccountedFor'
  <2> SUFFICES ASSUME NEW j \in Keys, newest[j] > 0, db'[j] # newest[j]
               PROVE  [key |-> j, version |-> newest[j]] \in Range(records) \cup dropped \cup raced
    BY <1>3 DEF NewestIsAccountedFor
  <2>1. db[j] # newest[j]
    <3>1. j # b.key => db'[j] = db[j]
      BY <1>6
    <3>2. j = b.key /\ db[j] = newest[j] => db'[j] = newest[j]
      BY <1>4, <1>6
    <3> QED
      BY <3>1, <3>2
  <2> QED
    BY <2>1 DEF BufferInv, NewestIsAccountedFor
<1>12. \A k \in Keys : db'[k] >= db[k]
  BY <1>4, <1>6
<1> QED
  BY <1>7, <1>8, <1>9, <1>10, <1>11, <1>12 DEF BufferInv

(* A flush that ends leaves no batch.                                      *)
LEMMA EmptyBatchKeeps ==
  ASSUME BufferInv, records' \in Seq(Record), Range(records') \subseteq Range(records),
         batch' = <<>>, written' = 0, task' = AfterFlush, UNCHANGED <<db, newest>>
  PROVE  BufferTypes' /\ WaitingInv' /\ BatchInv' /\ FlushInv'
<1>1. BufferTypes'
  BY DEF BufferInv, BufferTypes, AfterFlush
<1>2. WaitingInv'
  BY DEF BufferInv, WaitingInv
<1>3. Range(<<>>) = {} /\ DOMAIN <<>> = {}
  BY DEF Range
<1> QED
  BY <1>1, <1>2, <1>3 DEF BatchInv, FlushInv

(* A flush that returns has written the newest state of its keys, or one   *)
(* that a newer one has overtaken while it was awaited.                    *)
LEMMA ReturnKeeps ==
  ASSUME BufferInv, FlushReturns
  PROVE  BufferInv'
<1>1. /\ records' = WithoutKeys(records, KeysOf(batch)) /\ written = Len(batch)
      /\ task' = AfterFlush /\ batch' = <<>> /\ written' = 0
      /\ UNCHANGED <<db, newest, dropped, raced>>
  BY DEF FlushReturns
<1>2. /\ records' \in Seq(Record)
      /\ Range(records') = {r \in Range(records) : r.key \notin KeysOf(batch)}
  BY <1>1, KeptRecords DEF BufferInv, BufferTypes
<1>3. BufferTypes' /\ WaitingInv' /\ BatchInv' /\ FlushInv'
  BY <1>1, <1>2, EmptyBatchKeeps
<1>4. NewestIsAccountedFor'
  <2> SUFFICES ASSUME NEW j \in Keys, newest[j] > 0, db[j] # newest[j]
               PROVE  [key |-> j, version |-> newest[j]]
                        \in Range(records') \cup dropped \cup raced
    BY <1>1 DEF NewestIsAccountedFor
  <2>1. [key |-> j, version |-> newest[j]] \in Range(records) \cup dropped \cup raced
    BY DEF BufferInv, NewestIsAccountedFor
  <2>2. CASE j \notin KeysOf(batch)
    BY <1>2, <2>1, <2>2
  <2>3. CASE j \in KeysOf(batch)
    <3>1. PICK b \in Range(batch) : b.key = j
      BY <2>3 DEF KeysOf
    <3>2. PICK i \in DOMAIN batch : b = batch[i]
      BY DEF Range
    <3>3. i \in 1 .. written
      BY <1>1 DEF BufferInv, BufferTypes
    <3>4. db[j] = b.version
      BY <3>1, <3>2, <3>3 DEF BufferInv, FlushInv
    <3> QED
      BY <3>1, <3>4 DEF BufferInv, BatchInv
  <2> QED
    BY <2>2, <2>3
<1> QED
  BY <1>3, <1>4 DEF BufferInv

(* A flush that fails leaves its records where they are.                   *)
LEMMA FailureKeeps ==
  ASSUME BufferInv, FlushFails
  PROVE  BufferInv'
<1>1. /\ records' = records /\ task' = AfterFlush /\ batch' = <<>> /\ written' = 0
      /\ UNCHANGED <<db, newest, dropped, raced>>
  BY DEF FlushFails, KeptAfterFailure
<1>2. BufferTypes' /\ WaitingInv' /\ BatchInv' /\ FlushInv'
  BY <1>1, EmptyBatchKeeps DEF BufferInv, BufferTypes
<1> QED
  BY <1>1, <1>2 DEF BufferInv, NewestIsAccountedFor

(* Every step of the buffer keeps the invariant, and none lets a stored    *)
(* candle go back.                                                         *)
LEMMA BufferStep ==
  ASSUME BufferInv, [BufferNext]_bufferVars
  PROVE  BufferInv' /\ \A k \in Keys : db'[k] >= db[k]
<1>u. ASSUME UNCHANGED db
      PROVE  \A k \in Keys : db'[k] >= db[k]
  BY <1>u DEF BufferInv, BufferTypes
<1>1. ASSUME NEW k \in Keys, AppendRecord(k)
      PROVE  BufferInv' /\ UNCHANGED db
  BY <1>1, AppendKeeps DEF AppendRecord
<1>2. CASE StartFlush \/ StopBuffer
  <2>1. /\ UNCHANGED <<records, degraded, db, newest, dropped, raced, faults>>
        /\ batch' = FirstBatch /\ written' = 0
        /\ task' \in {"flushing", "final"} \/ (task' = "stopped" /\ records = <<>>)
    BY <1>2 DEF StartFlush, StopBuffer
  <2> QED
    BY <1>u, <2>1, BeginningKeeps
<1>3. CASE UpsertCandles
  BY <1>3, UpsertKeeps
<1>4. CASE FlushReturns
  BY <1>u, <1>4, ReturnKeeps DEF FlushReturns
<1>5. CASE FlushFails
  BY <1>u, <1>5, FailureKeeps DEF FlushFails
<1>6. CASE UNCHANGED bufferVars
  <2>1. UNCHANGED <<records, task, batch, written, degraded, db, newest, dropped, raced, faults>>
    BY <1>6 DEF bufferVars
  <2>2. BufferInv'
    BY <2>1 DEF BufferInv, BufferTypes, WaitingInv, BatchInv, FlushInv, Flushing,
                NewestIsAccountedFor
  <2> QED
    BY <1>u, <2>1, <2>2
<1> QED
  BY <1>u, <1>1, <1>2, <1>3, <1>4, <1>5, <1>6 DEF BufferNext

(* The newest state of a key is written or waits to be written, unless it  *)
(* was dropped or overtook its own flush, for any number of keys, batches, *)
(* failures and cancellations (persistence_buffer.py:98-123).              *)
THEOREM NewestIsAccountedForHolds == BufferSpec => []NewestIsAccountedFor
<1>1. BufferInv => NewestIsAccountedFor
  BY DEF BufferInv
<1> QED
  BY BufferInvInit, BufferStep, <1>1, PTL DEF BufferSpec

(* No flush, repeated or cancelled, writes an older state of a candle over *)
(* a newer one.                                                            *)
THEOREM CandlesNeverGoBackHolds == BufferSpec => CandlesNeverGoBack
<1>1. BufferInv /\ [BufferNext]_bufferVars => [\A k \in Keys : db'[k] >= db[k]]_db
  BY BufferStep
<1> QED
  BY BufferInvInit, BufferStep, <1>1, PTL DEF BufferSpec, CandlesNeverGoBack

=============================================================================
