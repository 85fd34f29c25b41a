---------------------------- MODULE BacktestReplay -----------------------------
(***************************************************************************)
(* The causal replay of a backtest (src/app/simulation/backtest_engine.py): *)
(* ordered public events drive the strategy, risk, lifecycle, entry and    *)
(* simulation stages.  One step of an engine takes an event of its source  *)
(* or is one stage of the work on a candle.                                *)
(* Prices are places on the ladder of a bullish plan.                      *)
(***************************************************************************)
EXTENDS SimulationEngine, SequencesExt

CONSTANTS
    Symbols,        \* numbered in their alphabetical order
    SeedPlans,      \* sequence of plans that exist before the run
    PlanOfKey,      \* candidate key -> the plan that the risk stage derives
    Book,           \* the levels of every replayed book
    Start, End,     \* the replay window
    MaxEvents,      \* max_events_per_run
    Interval,       \* checkpoint_interval_events
    MaxGap,         \* max_data_gap_seconds
    FundingGap,     \* _FUNDING_GAP_SECONDS
    Segmented,      \* allow_segmented_data
    Required        \* the required channels

(* The ladder: at or below the invalidation, in the entry zone, between,   *)
(* at the first target, at the second.                                     *)
Breach == 0
InZone == 1
AtTarget1 == 3
AtTarget2 == 4
Closes == Breach .. AtTarget2

Channels == {"closed_candles", "ticker_bbo", "orderbook", "funding"}

Plan == [symbol : Symbols, asOf : Nat, expiry : Nat, targets : 0 .. 2]

BacktestSettings ==
    /\ MaxEvents \in Nat \ {0} /\ Interval \in Nat \ {0}
    /\ MaxGap \in Nat \ {0}
    /\ Segmented \in BOOLEAN
    /\ "closed_candles" \in Required /\ Required \subseteq Channels

KnownFunding == [current |-> 1, history |-> <<1>>, next |-> None, fresh |-> TRUE]

(* What a leg may be modelled on.                                          *)
ReplayMarket ==
    [quality : BOOLEAN, session : BOOLEAN, at : Nat,
     quoteAt : Nat \cup {None}, bookAt : Nat \cup {None},
     book : [fresh : BOOLEAN, asks : {Book.asks}, bids : {Book.bids}],
     funding : {None, KnownFunding}]

ASSUME ReplayAssumption ==
    /\ Symbols \subseteq Nat
    /\ Start \in Nat /\ End \in Nat /\ Start <= End
    /\ FundingGap \in Nat
    /\ SeedPlans \in Seq(Plan)
    /\ IsFiniteSet(DOMAIN PlanOfKey)
    /\ \A key \in DOMAIN PlanOfKey : PlanOfKey[key] \in Plan
    /\ Book \in [bids : Seq(DepthLevel), asks : Seq(DepthLevel)]
    /\ None \notin Int \cup DOMAIN PlanOfKey \cup ReplayMarket
    /\ BacktestSettings

-----------------------------------------------------------------------------
(* Events and their order *)

(* An event says what it is about: a book, a data quality, a quote, a      *)
(* funding rate, a session; a candle also when it closed and where, what   *)
(* the strategy finds on it and whether the risk stage would accept it.    *)
Categories == <<"SESSION_CALENDAR", "INSTRUMENT_STATUS", "DATA_QUALITY_BOOK",
                "TICKER_BBO_TRADES", "CLOSED_CANDLE">>

(* A provider gives an event its place by what identifies it: it has none  *)
(* twice.                                                                  *)
ReplayEvent ==
    [at : Nat, category : {Categories[i] : i \in DOMAIN Categories},
     symbol : Symbols, sequence : Int, value : STRING,
     close : Closes, closedAt : Nat, key : DOMAIN PlanOfKey \cup {None},
     found : {"DETECTED", "CONFIRMED"}, expiry : Nat, accepts : BOOLEAN]

Priority(category) ==
    CHOOSE i \in DOMAIN Categories : Categories[i] = category

SortKey(event) ==
    <<event.at, Priority(event.category), event.symbol, event.sequence>>

Before(a, b) ==
    LET k == SortKey(a)
        l == SortKey(b)
    IN  \E i \in 1 .. 4 : k[i] < l[i] /\ \A j \in 1 .. (i - 1) : k[j] = l[j]

IsProvided(events) ==
    /\ IsFiniteSet(events) /\ events \subseteq ReplayEvent
    /\ \A a, b \in events : SortKey(a) = SortKey(b) => a = b

(* The events of a provider within the window, in the causal order.        *)
Source(events) ==
    LET window == {event \in events : event.at \in Start .. End}
        Place(event) == 1 + Cardinality({e \in window : Before(e, event)})
    IN  [i \in 1 .. Cardinality(window) |->
            CHOOSE event \in window : Place(event) = i]

Channel(event) ==
    IF event.category = "CLOSED_CANDLE" THEN "closed_candles"
    ELSE IF event.category = "DATA_QUALITY_BOOK" THEN "orderbook"
    ELSE IF event.category # "TICKER_BBO_TRADES" THEN "none"
    ELSE IF event.value = "funding" THEN "funding" ELSE "ticker_bbo"

-----------------------------------------------------------------------------
(* Coverage *)

GapLimit(channel) ==
    IF channel = "funding" THEN Larger(MaxGap, FundingGap) ELSE MaxGap

(* detect_gaps: the intervals in which a required channel of a symbol says *)
(* nothing for longer than its limit.                                      *)
Gaps(events) ==
    LET relevant == {event \in events : Channel(event) \in Required}
        Stamps(symbol, channel) ==
            {event.at : event \in {e \in relevant :
                e.symbol = symbol /\ Channel(e) = channel}}
        Silent(gap, channel) ==
            LET stamps == Stamps(gap.symbol, channel)
            IN  IF stamps = {} THEN gap.from = Start /\ gap.to = End
                ELSE /\ {gap.from, gap.to} \subseteq stamps \cup {Start, End}
                     /\ gap.to - gap.from > GapLimit(channel)
                     /\ \A stamp \in stamps : stamp <= gap.from \/ stamp >= gap.to
    IN  {gap \in [symbol : {event.symbol : event \in relevant},
                  from : Start .. End, to : Start .. End] :
            \E channel \in Required : Silent(gap, channel)}

MissingChannels(events) == Required \ {Channel(event) : event \in events}

(* validate_coverage: what a run may leave out, or that it must not start. *)
Coverage(events) ==
    LET gaps == Gaps(events)
        missing == MissingChannels(events)
    IN  [complete |-> gaps = {} /\ missing = {},
         excluded |-> IF Segmented /\ missing = {} THEN gaps ELSE {}]

IsExcluded(event, excluded) ==
    \E gap \in excluded :
        gap.symbol = event.symbol /\ event.at \in gap.from .. gap.to

-----------------------------------------------------------------------------
(* What is observed of a symbol *)

NewSymbol == [quoteAt |-> None, bookAt |-> None, fresh |-> FALSE,
              funding |-> None, session |-> TRUE, quality |-> TRUE,
              close |-> None]

(* ReplayState.apply; a candle of another timeframe than five minutes      *)
(* leaves the last one in place.                                           *)
Observed(symbol, event) ==
    IF event.category = "SESSION_CALENDAR"
    THEN [symbol EXCEPT !.session = event.value = "allowed"]
    ELSE IF event.category = "DATA_QUALITY_BOOK"
    THEN IF event.value \in {"fresh", "stale"}
         THEN [symbol EXCEPT !.bookAt = event.at, !.fresh = event.value = "fresh"]
         ELSE [symbol EXCEPT !.quality = event.value = "HEALTHY"]
    ELSE IF event.category = "TICKER_BBO_TRADES"
    THEN IF event.value = "funding"
         THEN [symbol EXCEPT !.funding = KnownFunding]
         ELSE [symbol EXCEPT !.quoteAt = event.at]
    ELSE IF event.category = "CLOSED_CANDLE" /\ event.value = "5m"
    THEN [symbol EXCEPT !.close = event.close]
    ELSE symbol

(* market_reference: what a leg at this instant is modelled on.            *)
MarketReference(symbol, now) ==
    [quality |-> symbol.quality, session |-> symbol.session, at |-> now,
     quoteAt |-> symbol.quoteAt, bookAt |-> symbol.bookAt,
     book |-> [fresh |-> symbol.fresh, asks |-> Book.asks, bids |-> Book.bids],
     funding |-> symbol.funding]

-----------------------------------------------------------------------------
(* The stages *)

NoCandidate == [state |-> "NONE", expiry |-> 0, planned |-> FALSE]

(* _stage_strategy: what the strategy finds is new, or promotes what was   *)
(* only detected.                                                          *)
AfterStrategy(candidates, event) ==
    LET old == candidates[event.key]
    IN  IF event.key = None THEN candidates
        ELSE IF \/ old = NoCandidate
                \/ old.state = "DETECTED" /\ event.found = "CONFIRMED"
        THEN [candidates EXCEPT ![event.key] =
                [state |-> event.found, expiry |-> event.expiry, planned |-> FALSE]]
        ELSE candidates

(* _stage_risk: confirmed candidates of the symbol get a plan, once, or    *)
(* are dropped when they have expired.                                     *)
Open(candidates, event) ==
    {key \in DOMAIN candidates :
        /\ PlanOfKey[key].symbol = event.symbol
        /\ candidates[key].state = "CONFIRMED"
        /\ ~candidates[key].planned}

Planned(candidates, event) ==
    {key \in Open(candidates, event) :
        candidates[key].expiry > event.at /\ event.accepts}

AfterRisk(candidates, event) ==
    [key \in DOMAIN candidates |->
        IF key \in Planned(candidates, event)
        THEN [candidates[key] EXCEPT !.planned = TRUE]
        ELSE IF key \in Open(candidates, event) /\ candidates[key].expiry <= event.at
        THEN NoCandidate ELSE candidates[key]]

Derived(candidates, event) ==
    SetToSeq({[PlanOfKey[key] EXCEPT !.asOf = event.at] :
                key \in Planned(candidates, event)})

FinalStates == {"EXPIRED", "INVALIDATED", "TARGET_1_REACHED", "TARGET_2_REACHED"}

NoLifecycle == [state |-> "NONE", due |-> None, confirmedAt |-> None,
                terminalAt |-> None, entry |-> None, simulated |-> FALSE]

Watching == [NoLifecycle EXCEPT !.state = "WATCHING_ENTRY"]

Ended(lifecycle, state, now) ==
    [lifecycle EXCEPT !.state = state, !.terminalAt = now]

(* A plan is tracked once it exists and before it expires.                 *)
Tracked(plan, lifecycle, event) ==
    IF /\ lifecycle = NoLifecycle
       /\ plan.symbol = event.symbol
       /\ plan.asOf <= event.at /\ event.at < plan.expiry
    THEN Watching ELSE lifecycle

(* _stage_lifecycle on the last closed candle; a confirmed entry is due    *)
(* after the delay.                                                        *)
Monitored(plan, lifecycle, symbol, now, delay) ==
    IF symbol.close = None \/ lifecycle.terminalAt # None THEN lifecycle
    ELSE IF lifecycle.state = "WATCHING_ENTRY"
    THEN IF now >= plan.expiry THEN Ended(lifecycle, "EXPIRED", now)
         ELSE IF symbol.close = Breach THEN Ended(lifecycle, "INVALIDATED", now)
         ELSE IF symbol.close = InZone /\ symbol.session /\ symbol.quality
         THEN [lifecycle EXCEPT !.state = "ACTIVE_RESEARCH",
                                !.confirmedAt = now, !.due = now + delay]
         ELSE lifecycle
    ELSE IF lifecycle.state = "ACTIVE_RESEARCH"
    THEN IF symbol.close = Breach THEN Ended(lifecycle, "INVALIDATED", now)
         ELSE IF plan.targets > 1 /\ symbol.close = AtTarget2
         THEN Ended(lifecycle, "TARGET_2_REACHED", now)
         ELSE IF plan.targets > 0 /\ symbol.close >= AtTarget1
         THEN Ended(lifecycle, "TARGET_1_REACHED", now)
         ELSE IF now >= plan.expiry THEN Ended(lifecycle, "EXPIRED", now)
         ELSE lifecycle
    ELSE lifecycle

(* Mutant: the entry is captured when the lifecycle is confirmed.          *)
CapturedEarly(lifecycle, symbol, now) ==
    IF lifecycle.due = None \/ lifecycle.entry # None
    THEN lifecycle
    ELSE [lifecycle EXCEPT !.entry = MarketReference(symbol, now)]

(* _stage_entry_capture: the market at the first candle that finds the     *)
(* entry due.                                                              *)
Captured(lifecycle, symbol, now) ==
    IF lifecycle.due = None \/ lifecycle.entry # None \/ now < lifecycle.due
    THEN lifecycle
    ELSE [lifecycle EXCEPT !.entry = MarketReference(symbol, now)]

Simulates(lifecycle) ==
    /\ ~lifecycle.simulated
    /\ lifecycle.terminalAt # None
    /\ lifecycle.confirmedAt # None

(* What a leg makes of a market: missing, of bad quality, too old or good. *)
Fitness(market, maxAge) ==
    IF market = None THEN "none"
    ELSE IF ~market.quality THEN "unfit"
    ELSE IF ~market.book.fresh THEN "stale"
    ELSE IF Age(market) = None THEN "stale"
    ELSE IF Age(market) > maxAge THEN "stale" ELSE "good"

MarketOf(fitness) ==
    [quality |-> fitness # "unfit", session |-> TRUE, at |-> 0, quoteAt |-> 0,
     bookAt |-> 0, book |-> [fresh |-> fitness = "good",
                             asks |-> Book.asks, bids |-> Book.bids],
     funding |-> None]

(* The state in which the simulation core leaves a kind of lifecycle.      *)
Outcome(kind) ==
    Simulate([paused |-> FALSE, state |-> "ENTRY_CONFIRMED", planAudit |-> TRUE,
              candidateAudit |-> TRUE, duplicate |-> FALSE,
              sessionAllowed |-> kind.session,
              dataQuality |-> kind.exit # "unfit",
              fee |-> TRUE, bullish |-> TRUE, reference |-> Book.asks[1].price,
              quantity |-> 1, risk |-> Book.asks[1].price, exit |-> kind.reason,
              entryMarket |-> IF kind.entry = "none" THEN None
                              ELSE MarketOf(kind.entry),
              exitMarket |-> MarketOf(kind.exit),
              funding |-> IF kind.funding THEN KnownFunding ELSE None]).state

SimulationStates ==
    {"REJECTED", "OPEN_SIMULATION", "UNMODELED_EXIT", "INCOMPLETE",
     "CLOSED_SIMULATION"}

Outcomes ==
    {<<kind, Outcome(kind)>> : kind \in
        [entry : {"none", "unfit", "stale", "good"},
         exit : {"unfit", "stale", "good"},
         session : BOOLEAN, funding : BOOLEAN,
         reason : {ExitReasonForEvent(state) : state \in FinalStates}]}

(* _stage_simulation: what the core is told of a finished lifecycle.       *)
SimulatedState(lifecycle, symbol, now) ==
    LET kind == [entry |-> Fitness(lifecycle.entry, Shadow.entryAge),
                 exit |-> Fitness(MarketReference(symbol, now), Shadow.exitAge),
                 session |-> symbol.session, funding |-> symbol.funding # None,
                 reason |-> ExitReasonForEvent(lifecycle.state)]
    IN  CHOOSE state \in SimulationStates : <<kind, state>> \in Outcomes

(* A result or a rejection, with the instants it was modelled at.          *)
Result(plan, lifecycle, symbol, now) ==
    [plan |-> plan,
     state |-> SimulatedState(lifecycle, symbol, now),
     confirmedAt |-> lifecycle.confirmedAt,
     due |-> lifecycle.due,
     entryAt |-> IF lifecycle.entry = None THEN None ELSE lifecycle.entry.at,
     bookAt |-> IF lifecycle.entry = None THEN None ELSE lifecycle.entry.bookAt,
     exitAt |-> now]

-----------------------------------------------------------------------------
(* The engine *)

(* A checkpoint counts the events applied and names the last of them.      *)
NoCheckpoint == [replayed |-> 0, at |-> None, sequence |-> None]

MaxPlans == Len(SeedPlans) + Cardinality(DOMAIN PlanOfKey)

(* Every lifecycle has its own delay, drawn from its id.                   *)
NewEngine(resume, delays) ==
    [delays |-> delays, next |-> 1, cancelled |-> FALSE, status |-> "RUNNING",
     truncated |-> FALSE,
     stage |-> "events", marker |-> resume, checkpoint |-> resume, kept |-> None,
     applied |-> {},
     symbols |-> [symbol \in Symbols |-> NewSymbol],
     candidates |-> [key \in DOMAIN PlanOfKey |-> NoCandidate],
     plans |-> SeedPlans,
     lifecycles |-> [i \in DOMAIN SeedPlans |-> NoLifecycle],
     results |-> {}]

(* The events up to the marker of a resumed run were applied before it.    *)
BehindMarker(event, marker) ==
    /\ marker.at # None
    /\ \/ event.at < marker.at
       \/ event.at = marker.at /\ event.sequence <= marker.sequence

(* _run_pipeline: the stages, in order, at the instant of a candle.        *)
PlanStage(engine, event) ==
    LET found == AfterStrategy(engine.candidates, event)
        derived == Derived(found, event)
    IN  [engine EXCEPT
            !.candidates = AfterRisk(found, event),
            !.plans = @ \o derived,
            !.lifecycles = @ \o [i \in DOMAIN derived |-> NoLifecycle]]

Mine(engine, event) ==
    {i \in DOMAIN engine.plans : engine.plans[i].symbol = event.symbol}

MonitorStage(engine, event) ==
    [engine EXCEPT !.lifecycles =
        [i \in DOMAIN @ |->
            IF i \in Mine(engine, event)
            THEN Monitored(engine.plans[i], Tracked(engine.plans[i], @[i], event),
                           engine.symbols[event.symbol], event.at, engine.delays[i])
            ELSE @[i]]]

CaptureStage(engine, event) ==
    [engine EXCEPT !.lifecycles =
        [i \in DOMAIN @ |->
            IF i \in Mine(engine, event)
            THEN Captured(@[i], engine.symbols[event.symbol], event.at) ELSE @[i]]]

SimulationStage(engine, event) ==
    LET finished == {i \in Mine(engine, event) : Simulates(engine.lifecycles[i])}
    IN  [engine EXCEPT
            !.lifecycles = [i \in DOMAIN @ |->
                IF i \in finished THEN [@[i] EXCEPT !.simulated = TRUE] ELSE @[i]],
            !.results = @ \cup
                {Result(i, engine.lifecycles[i], engine.symbols[event.symbol],
                        event.at) : i \in finished}]

Finished(engine, excluded) ==
    [engine EXCEPT !.status = IF excluded # {} THEN "COMPLETED_WITH_GAPS"
                              ELSE "COMPLETED"]

(* Mutant: the event at the limit is lost.                                 *)
TruncatesEarly(engine) == engine.next >= MaxEvents

Truncates(engine) == engine.next > MaxEvents

(* The checkpoint is kept after every so many events.                      *)
Kept(engine) ==
    IF engine.checkpoint.replayed % Interval = 0
    THEN [engine EXCEPT !.kept = engine.checkpoint] ELSE engine

(* An event is applied and counted; a candle is still to be worked on, and *)
(* one that has not closed yet is look-ahead and ends the run.             *)
Apply(engine, event, place) ==
    LET counted == [engine EXCEPT
            !.symbols[event.symbol] = Observed(@, event),
            !.checkpoint = [replayed |-> @.replayed + 1, at |-> event.at,
                            sequence |-> event.sequence],
            !.applied = @ \cup {place}]
    IN  IF event.category # "CLOSED_CANDLE" THEN Kept(counted)
        ELSE IF event.closedAt > event.at THEN [engine EXCEPT !.status = "REJECTED"]
        ELSE [counted EXCEPT !.stage = "planning"]

(* One round of BacktestEngine.run over the events of its source.          *)
NextEvent(engine, events, excluded) ==
    LET event == events[engine.next]
        consumed == [engine EXCEPT !.next = @ + 1]
    IN  IF engine.next > Len(events) THEN Finished(engine, excluded)
        ELSE IF Truncates(engine)
        THEN Finished([engine EXCEPT !.truncated = TRUE], excluded)
        ELSE IF engine.cancelled THEN [consumed EXCEPT !.status = "CANCELLED"]
        ELSE IF BehindMarker(event, engine.marker) \/ IsExcluded(event, excluded)
        THEN consumed
        ELSE Apply(consumed, event, engine.next)

(* The next stage of the pipeline on the candle just applied; the last one *)
(* is followed by the checkpoint.                                          *)
Work(engine, event) ==
    IF engine.stage = "planning"
    THEN PlanStage([engine EXCEPT !.stage = "monitoring"], event)
    ELSE IF engine.stage = "monitoring"
    THEN MonitorStage([engine EXCEPT !.stage = "capture"], event)
    ELSE IF engine.stage = "capture"
    THEN CaptureStage([engine EXCEPT !.stage = "simulation"], event)
    ELSE Kept(SimulationStage([engine EXCEPT !.stage = "events"], event))

=============================================================================
