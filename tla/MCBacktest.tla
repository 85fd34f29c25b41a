------------------------------ MODULE MCBacktest -------------------------------
(***************************************************************************)
(* Small instances of Backtest: one symbol with a plan and a second one    *)
(* without, six instants, and inputs that differ in where the candles      *)
(* close, in what the strategy finds, and in a gap or a look-ahead.        *)
(***************************************************************************)
EXTENDS Backtest

CONSTANTS q1, q2, r1, r2

MCCosts ==
    [engineEnabled |-> TRUE, slippageEnabled |-> TRUE, requireFreshBook |-> TRUE,
     fundingEnabled |-> TRUE, requireFundingData |-> TRUE,
     overnightBlocked |-> TRUE,
     entryMode |-> "ENTRY_TAKER", targetMode |-> "TARGET_TAKER",
     invalidationMode |-> "STOP_STRESS_TAKER", maxLevels |-> 2, lookback |-> 72,
     holdMinutes |-> 240, maxDistance |-> 1000, entryStress |-> 2,
     targetStress |-> 2, invalidationStress |-> 8, maxSlippageToRisk |-> 50,
     fundingBuffer |-> 1, costBuffer |-> 1, fundingInterval |-> 1,
     makerFee |-> 2, takerFee |-> 7, percentile |-> 75]

MCShadow ==
    [modeEnabled |-> TRUE, requireFunding |-> TRUE, requireCompleteCosts |-> TRUE,
     allowPartial |-> FALSE, partialPct |-> 50, unmodeledExit |-> "MARK_UNMODELED",
     entryAge |-> 3, exitAge |-> 3, delayModel |-> "UNIFORM_RANGE_SECONDS",
     delayFixed |-> 1, delayMin |-> 1, delayMax |-> 2]

MCBook == [asks |-> <<[price |-> 101, quantity |-> 2]>>,
           bids |-> <<[price |-> 100, quantity |-> 2]>>]

MCSeedPlans == <<[symbol |-> 1, asOf |-> 1, expiry |-> 5, targets |-> 1]>>

MCPlanOfKey == [k \in {"swing"} |-> [symbol |-> 1, asOf |-> 0, expiry |-> 6, targets |-> 2]]

Event(at, category, symbol, value) ==
    [at |-> at, category |-> category, symbol |-> symbol, sequence |-> at,
     value |-> value, close |-> 2, closedAt |-> at, key |-> None,
     found |-> "CONFIRMED", expiry |-> 5, accepts |-> TRUE]

Candle(at, close) ==
    [Event(at, "CLOSED_CANDLE", 1, "5m") EXCEPT !.close = close]

Quality == [Event(0, "DATA_QUALITY_BOOK", 1, "fresh") EXCEPT !.sequence = 2]

Surroundings ==
    {Quality, Event(0, "TICKER_BBO_TRADES", 1, "bbo"),
     [Event(0, "TICKER_BBO_TRADES", 1, "funding") EXCEPT !.sequence = 1]}

(* Candles 1 .. 4 that close where a sequence says.                        *)
Candles(closes) == {Candle(t, closes[t]) : t \in DOMAIN closes}

Held(closes) == Surroundings \cup Candles(closes)

(* What is changed of a candle of an input.                                *)
With(events, at, event) ==
    {e \in events : e.at # at} \cup {event}

Swing(at, found) == [Candle(at, InZone) EXCEPT !.key = "swing", !.found = found]

MCInputs ==
    {Held(<<1, 2, 2, 3>>), Held(<<1, 0, 2, 2>>), Held(<<2, 1, 2, 2>>),
     (* detected first, confirmed on the next candle *)
     With(With(Held(<<1, 1, 2, 3>>), 1, Swing(1, "DETECTED")), 2, Swing(2, "CONFIRMED")),
     (* a candle of another timeframe works on the old close *)
     With(Held(<<1, 2, 2, 3>>), 3, Event(3, "CLOSED_CANDLE", 1, "15m")),
     (* look-ahead *)
     With(Held(<<1, 2, 3, 3>>), 3, [Candle(3, AtTarget1) EXCEPT !.closedAt = 4]),
     (* the book is stale when the entry is due *)
     Held(<<1, 2, 3>>) \cup {Event(2, "DATA_QUALITY_BOOK", 1, "stale")},
     (* no funding: a required channel is missing *)
     {e \in Held(<<1, 2>>) : e.value # "funding"},
     (* the entry is still to come when the plan is invalidated *)
     Held(<<1, 0, 1>>),
     (* two timeframes close at once: confirmed and invalidated at 1 *)
     Surroundings \cup {Candle(0, InZone), Event(1, "CLOSED_CANDLE", 1, "15m"),
                        [Candle(1, Breach) EXCEPT !.sequence = 2], Candle(3, InZone)},
     (* the second symbol is silent for longer than allowed *)
     Held(<<1, 2, 2, 3>>) \cup {[Candle(3, 2) EXCEPT !.symbol = 2]}}

=============================================================================
