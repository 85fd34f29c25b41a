---------------------------- MODULE MCResearchRules ----------------------------
(***************************************************************************)
(* Five days: a range that is tested from above and its mirror image, a    *)
(* range that has been left, and a trend in each direction.                *)
(***************************************************************************)
EXTENDS ResearchRules

MCEpoch == 96

Bar(open, high, low, close, volume) ==
    [open |-> open, high |-> high, low |-> low, close |-> close, volume |-> volume]

(* The bars of a series that ends at the epoch.                            *)
Until(timeframe, bars) ==
    [i \in DOMAIN bars |->
        [at |-> MCEpoch - Width(timeframe) * (Len(bars) + 1 - i)] @@ bars[i]]

(* The image of a bar around 206.                                          *)
Mirror(bar) ==
    [bar EXCEPT !.open = 412 - @, !.close = 412 - @,
                !.high = 412 - bar.low, !.low = 412 - bar.high]

Mirrored(start) ==
    [m5 |-> [i \in DOMAIN start.m5 |-> Mirror(start.m5[i])],
     m15 |-> [i \in DOMAIN start.m15 |-> Mirror(start.m15[i])],
     h1 |-> [i \in DOMAIN start.h1 |-> Mirror(start.h1[i])],
     shapes |-> {Mirror(bar) : bar \in start.shapes}]

Ranging15 ==
    Until("15m", <<Bar(206, 208, 204, 207, 30), Bar(207, 216, 206, 208, 30),
                   Bar(208, 209, 200, 203, 30), Bar(203, 212, 203, 208, 30),
                   Bar(208, 214, 205, 206, 30), Bar(206, 207, 202, 204, 30)>>)

Ranging1h ==
    Until("1h", <<Bar(207, 212, 201, 206, 90), Bar(206, 211, 202, 207, 90),
                  Bar(207, 212, 202, 206, 90), Bar(206, 211, 203, 207, 90),
                  Bar(207, 211, 202, 206, 90), Bar(206, 209, 203, 207, 90)>>)

(* The last hour has left the range.                                       *)
Leaving1h ==
    Until("1h", <<Bar(207, 214, 201, 206, 90), Bar(206, 211, 202, 207, 90),
                  Bar(207, 212, 202, 206, 90), Bar(206, 211, 203, 207, 90),
                  Bar(207, 211, 202, 203, 90), Bar(203, 204, 198, 199, 90)>>)

Tested ==
    [m5 |-> Until("5m", <<Bar(205, 206, 204, 205, 10), Bar(205, 205, 203, 204, 10),
                          Bar(204, 205, 203, 204, 10)>>),
     m15 |-> Ranging15, h1 |-> Ranging1h,
     shapes |-> {Bar(202, 203, 197, 202, 10),    \* pierces and closes back
                 Bar(201, 202, 196, 198, 10),    \* pierces and closes below
                 Bar(199, 203, 199, 203, 20),    \* reclaims
                 Bar(203, 203, 200, 202, 10),    \* touches and holds
                 Bar(202, 203, 202, 203, 30)}]   \* moves away

Left ==
    [m5 |-> Until("5m", <<Bar(204, 205, 203, 204, 10), Bar(204, 204, 201, 201, 10),
                          Bar(201, 201, 197, 198, 20)>>),
     m15 |-> Ranging15, h1 |-> Leaving1h,
     shapes |-> {Bar(198, 198, 195, 196, 20),    \* moves away below
                 Bar(198, 200, 197, 198, 10),    \* touches from below
                 Bar(198, 206, 198, 205, 10),    \* returns into the range
                 Bar(204, 205, 200, 201, 30)}]   \* falls inside the range

Climbing ==
    [m5 |-> Until("5m", <<Bar(210, 212, 210, 211, 10), Bar(211, 213, 210, 212, 10),
                          Bar(212, 213, 210, 212, 10)>>),
     m15 |-> Until("15m", <<Bar(200, 202, 199, 201, 30), Bar(201, 204, 200, 202, 30),
                            Bar(202, 203, 198, 200, 30), Bar(200, 206, 200, 205, 30),
                            Bar(205, 208, 203, 206, 30), Bar(206, 207, 202, 206, 30),
                            Bar(206, 210, 204, 209, 30), Bar(209, 213, 209, 212, 30)>>),
     h1 |-> Until("1h", <<Bar(186, 194, 185, 190, 90), Bar(190, 198, 188, 194, 90),
                          Bar(194, 202, 192, 198, 90), Bar(198, 206, 196, 202, 90),
                          Bar(202, 214, 200, 208, 90), Bar(208, 213, 207, 211, 90)>>),
     shapes |-> {Bar(212, 212, 208, 211, 10),    \* touches the broken level
                 Bar(211, 214, 211, 214, 20),    \* moves away
                 Bar(211, 212, 204, 206, 10)}]   \* closes back through it

Sinking ==
    [Mirrored(Climbing) EXCEPT
        !.shapes = {Bar(203, 210, 201, 202, 10),     \* is rejected at the last high
                    Bar(202, 203, 199, 200, 20),     \* follows through
                    Bar(201, 207, 200, 206, 10)}]    \* recovers

MCDays == {Tested, Mirrored(Tested), Left, Climbing, Sinking}

MCStrategy ==
    [watchlistRequired |-> TRUE, freshBook |-> TRUE, degradedAllowed |-> FALSE,
     minScore |-> 60, minCandles |-> [t \in Timeframes |-> 3], maxGap |-> 150,
     leftBars |-> 1, rightBars |-> 1, swingAtr |-> 50, equalBps |-> 5,
     breakCloses |-> 1, lookback |-> 5, overshootBps |-> 3, reclaimBps |-> 2,
     retestBps |-> 50, retestCandles |-> 6, atrPeriod |-> 3,
     volatilityLookback |-> 100, highVolatility |-> 90, momentumLookback |-> 1,
     volumeLookback |-> 2, minVolume |-> 120, volumeRequired |-> FALSE,
     momentumRequired |-> TRUE, trendMin |-> 35, rangeMax |-> 20,
     breakoutLookback |-> 4, trendLookback |-> 4,
     eventWindows |-> {<<MCEpoch + 1, MCEpoch + 2>>}, expireAfter |-> 6,
     weights |-> [c \in ScoreWeights |->
        IF c \in {"htf_bias", "structure_15m"} THEN 20
        ELSE IF c \in {"liquidity_event", "local_confirmation_5m"} THEN 15
        ELSE IF c \in {"momentum", "volume"} THEN 10 ELSE 5]]

Usual ==
    [missing |-> None, watched |-> TRUE, paused |-> FALSE, sessionAllowed |-> TRUE,
     quality |-> "HEALTHY", bookReliable |-> TRUE, bookFresh |-> TRUE,
     bboFresh |-> TRUE, bbo |-> TRUE, imbalance |-> 0, lowLiquidity |-> FALSE]

MCSurroundings ==
    {Usual,
     [Usual EXCEPT !.watched = FALSE], [Usual EXCEPT !.paused = TRUE],
     [Usual EXCEPT !.sessionAllowed = FALSE], [Usual EXCEPT !.quality = "DEGRADED"],
     [Usual EXCEPT !.bookFresh = FALSE], [Usual EXCEPT !.lowLiquidity = TRUE],
     [Usual EXCEPT !.imbalance = 60], [Usual EXCEPT !.bbo = FALSE],
     [Usual EXCEPT !.missing = MCEpoch - 2]}

NoOverrides == <<>>

MCCosts ==
    [engineEnabled |-> TRUE, slippageEnabled |-> TRUE, requireFreshBook |-> TRUE,
     fundingEnabled |-> TRUE, requireFundingData |-> TRUE, overnightBlocked |-> TRUE,
     entryMode |-> "ENTRY_TAKER", targetMode |-> "TARGET_TAKER",
     invalidationMode |-> "STOP_STRESS_TAKER", maxLevels |-> 2, lookback |-> 72,
     holdMinutes |-> 240, maxDistance |-> 1000, entryStress |-> 2,
     targetStress |-> 2, invalidationStress |-> 8, maxSlippageToRisk |-> 50,
     fundingBuffer |-> 1, costBuffer |-> 1, fundingInterval |-> 1,
     makerFee |-> 2, takerFee |-> 7, percentile |-> 75]

MCRisk ==
    [confirmedOnly |-> TRUE, degradedAllowed |-> FALSE, freshBook |-> TRUE,
     account |-> 1000, riskBps |-> 200, minBps |-> 15, maxBps |-> 1000,
     minAtr |-> 50, maxAtr |-> 400, bufferBps |-> 5, bufferAtr |-> 25,
     minRelevance |-> 30, chaseBps |-> 400, maxNotional |-> 800,
     maxLeverage |-> 300, minNetRR |-> 10, maxCostPct |-> 40,
     approximated |-> FALSE, approxInitial |-> 3400, approxMaintenance |-> 1000,
     liquidationBps |-> 150, liquidationAtr |-> 100, stressBps |-> 50,
     isolatedOnly |-> TRUE, expirySeconds |-> 5, minScore |-> 50,
     weights |-> [c \in ScoreComponents |->
        IF c = "net_rr" THEN 25 ELSE IF c = "invalidation_quality" THEN 20
        ELSE IF c \in {"target_quality", "executability"} THEN 15
        ELSE IF c = "data_confidence" THEN 5 ELSE 10]]

(* Offsets from the last close.                                            *)
Liquid ==
    [assetClass |-> "CRYPTO", volatile |-> FALSE, blind |-> FALSE, delay |-> 0,
     instrument |-> [status |-> "ACTIVE", mark |-> 0, minNotional |-> 100,
                     maxLeverage |-> 5, tick |-> 1, initial |-> 3400,
                     maintenance |-> 500,
                     tiers |-> <<[bound |-> 0, maxLeverage |-> 5],
                                 [bound |-> 700, maxLeverage |-> 2]>>],
     book |-> [reliable |-> TRUE, freshness |-> "FRESH",
               asks |-> <<[price |-> 1, quantity |-> 3], [price |-> 2, quantity |-> 3]>>,
               bids |-> <<[price |-> 0, quantity |-> 3], [price |-> -1, quantity |-> 3]>>],
     bbo |-> [bid |-> 0, ask |-> 1], bboFreshness |-> "FRESH", quality |-> "HEALTHY",
     funding |-> [rate |-> 1, rateAge |-> 1, interval |-> 1, history |-> <<1, 1, 1>>,
                  historyAge |-> 1, next |-> 30],
     feeSchedule |-> "active", atr |-> 2, remaining |-> None, watched |-> TRUE,
     paused |-> FALSE, sessionAllowed |-> TRUE]

Instruments ==
    {[Liquid EXCEPT !.instrument.mark = mark, !.instrument.tick = tick,
                    !.instrument.maintenance = maintenance, !.atr = atr,
                    !.volatile = volatile] :
        mark \in {-8, 0, 8}, tick \in {1, 3}, maintenance \in {500, 3300},
        atr \in {1, 2, 4}, volatile \in BOOLEAN}

Deviations ==
    {[Liquid EXCEPT !.instrument.mark = None], [Liquid EXCEPT !.instrument.minNotional = 900],
     [Liquid EXCEPT !.instrument.tiers = <<>>], [Liquid EXCEPT !.instrument.initial = None],
     [Liquid EXCEPT !.instrument.maxLeverage = 1], [Liquid EXCEPT !.book.freshness = "STALE"],
     [Liquid EXCEPT !.bbo = None], [Liquid EXCEPT !.blind = TRUE],
     [Liquid EXCEPT !.funding.rate = None], [Liquid EXCEPT !.funding.history = <<>>],
     [Liquid EXCEPT !.atr = None], [Liquid EXCEPT !.delay = 6],
     [Liquid EXCEPT !.assetClass = "EQUITY"], [Liquid EXCEPT !.paused = TRUE],
     [Liquid EXCEPT !.quality = "DEGRADED"], [Liquid EXCEPT !.feeSchedule = "none"],
     [Liquid EXCEPT !.funding.rate = 50],
     [Liquid EXCEPT !.instrument.initial = 9800, !.instrument.maintenance = 9700],
     [Liquid EXCEPT !.book.asks[1].quantity = 1, !.book.asks[2].price = 8],
     [Liquid EXCEPT !.book.bids = <<[price |-> 0, quantity |-> 1]>>],
     [Liquid EXCEPT !.instrument.tiers[1].maxLeverage = 1]}

MCMarkets == Instruments \cup Deviations

=============================================================================
