---------------------------- MODULE MarketStructure ----------------------------
(***************************************************************************)
(* What the strategy reads off closed candles (src/app/strategy): swings,  *)
(* structure, liquidity levels, sweeps, reclaims, rejections, retests and  *)
(* the momentum, volume and volatility of a series.  Times, prices and     *)
(* volumes are integers, tolerances basis points, ATR values hundredths of *)
(* a price unit, ratios and confidences percent.                           *)
(***************************************************************************)
EXTENDS Absence, Integers, Sequences, SequencesExt

CONSTANT Strategy   \* the strategy settings

BasisPoints == 10000

(* The mandatory timeframes; a candle of five minutes is one tick wide.    *)
Timeframes == {"5m", "15m", "1h"}
Width(timeframe) == IF timeframe = "5m" THEN 1 ELSE IF timeframe = "15m" THEN 3 ELSE 12

ScoreWeights ==
    {"htf_bias", "structure_15m", "liquidity_event", "local_confirmation_5m",
     "momentum", "volume", "market_context", "volatility_fit"}

(* What the validators of the settings class accept.                       *)
StrategySettings ==
    {s \in
        [watchlistRequired : BOOLEAN, freshBook : BOOLEAN, degradedAllowed : BOOLEAN,
         minScore : 0 .. 100, minCandles : [Timeframes -> Nat], maxGap : Nat \ {0},
         leftBars : Nat \ {0}, rightBars : Nat \ {0}, swingAtr : Nat,
         equalBps : Nat, breakCloses : Nat \ {0}, lookback : Nat \ {0},
         overshootBps : Nat, reclaimBps : Nat, retestBps : Nat,
         retestCandles : Nat \ {0}, atrPeriod : Nat \ {0}, volatilityLookback : Nat,
         highVolatility : 50 .. 100, momentumLookback : Nat \ {0},
         volumeLookback : Nat \ {0}, minVolume : Nat, volumeRequired : BOOLEAN,
         momentumRequired : BOOLEAN, trendMin : Nat, rangeMax : Nat,
         breakoutLookback : Nat \ {0}, trendLookback : Nat \ {0},
         eventWindows : SUBSET (Nat \X Nat), expireAfter : Nat,
         weights : [ScoreWeights -> Nat]] :
        MapThenSumSet(LAMBDA c : s.weights[c], ScoreWeights) = 100}

ASSUME StrategyAssumption == Strategy \in StrategySettings

Lesser(a, b) == IF a <= b THEN a ELSE b
Greater(a, b) == IF a >= b THEN a ELSE b
AbsoluteOf(a) == Greater(a, -a)
(* The i-th smallest of a set of numbers, and the entries at some places.  *)
Nth(numbers, i) ==
    CHOOSE n \in numbers : Cardinality({m \in numbers : m <= n}) = i
Pick(seq, places) == [i \in 1 .. Cardinality(places) |-> seq[Nth(places, i)]]

Newest(seq, n) == SubSeq(seq, Greater(1, Len(seq) - n + 1), Len(seq))
Highs(candles) == {candles[i].high : i \in DOMAIN candles}
Lows(candles) == {candles[i].low : i \in DOMAIN candles}

-----------------------------------------------------------------------------
(* Series *)

Candle ==
    {c \in [at : Nat, open : Nat, high : Nat, low : Nat, close : Nat, volume : Nat] :
        {c.open, c.close} \subseteq c.low .. c.high}

ClosesAt(series, i) == series.candles[i].at + series.width

TooLong(time, width) == time * 100 > Strategy.maxGap * width

SeriesOf(timeframe, ordered, asOf) ==
    LET width == Width(timeframe)
    IN  IF Len(ordered) < Strategy.minCandles[timeframe]
        THEN [ok |-> FALSE, code |-> "INSUFFICIENT_CANDLE_HISTORY"]
        ELSE IF \/ \E i \in 1 .. Len(ordered) - 1 :
                        TooLong(ordered[i + 1].at - ordered[i].at, width)
                \/ TooLong(asOf - (Last(ordered).at + width), width)
        THEN [ok |-> FALSE, code |-> "CANDLE_GAP"]
        ELSE [ok |-> TRUE, candles |-> ordered, width |-> width]

CandleAt(closed, time) == CHOOSE c \in closed : c.at = time

OfTimes(closed, times) ==
    [i \in 1 .. Cardinality(times) |-> CandleAt(closed, Nth(times, i))]

InOrder(closed) == OfTimes(closed, {c.at : c \in closed})

ClosedSeries(timeframe, found, closed, asOf) ==
    IF closed = {}
    THEN [ok |-> FALSE, code |-> IF found # {} THEN "OPEN_CANDLE_ONLY"
                                 ELSE "INSUFFICIENT_CANDLE_HISTORY"]
    ELSE SeriesOf(timeframe, InOrder(closed), asOf)

(* CandleSeries.build: the closed candles in order, or the reason why they *)
(* are no series: too few, a hole, or the newest too old.                  *)
Build(timeframe, found, asOf) ==
    ClosedSeries(timeframe, found, {c \in found : c.at + Width(timeframe) <= asOf}, asOf)

TrueRange(candles, i) ==
    IF i = 1 THEN candles[1].high - candles[1].low
    ELSE Max({candles[i].high - candles[i].low,
              AbsoluteOf(candles[i].high - candles[i - 1].close),
              AbsoluteOf(candles[i].low - candles[i - 1].close)})

(* atr: the mean of the first true ranges, then smoothed after Wilder.     *)
Atr(candles) ==
    LET n == Strategy.atrPeriod
        smoothed[i \in (n + 1) .. Len(candles)] ==
            IF i = n + 1
            THEN (100 * MapThenSumSet(LAMBDA j : TrueRange(candles, j), 2 .. i)) \div n
            ELSE (smoothed[i - 1] * (n - 1) + 100 * TrueRange(candles, i)) \div n
    IN  IF Len(candles) < n + 1 THEN None ELSE smoothed[Len(candles)]

(* The extremes of the window that ends before the last candle.            *)
PriorWindow(candles, n) == Newest(Front(candles), n)
RollingHigh(candles, n) ==
    IF Len(candles) <= n THEN None ELSE Max(Highs(PriorWindow(candles, n)))
RollingLow(candles, n) ==
    IF Len(candles) <= n THEN None ELSE Min(Lows(PriorWindow(candles, n)))

-----------------------------------------------------------------------------
(* Swings *)

Around(i) == (i - Strategy.leftBars) .. (i + Strategy.rightBars)
LeftOf(candles, i) == SubSeq(candles, i - Strategy.leftBars, i - 1)
RightOf(candles, i) == SubSeq(candles, i + 1, i + Strategy.rightBars)

PivotHigh(candles, i) ==
    \A j \in Around(i) \ {i} : candles[j].high < candles[i].high

PivotLow(candles, i) ==
    \A j \in Around(i) \ {i} : candles[j].low > candles[i].low

HighProminence(candles, i) ==
    candles[i].high - Greater(Min(Lows(LeftOf(candles, i))), Min(Lows(RightOf(candles, i))))

LowProminence(candles, i) ==
    Lesser(Max(Highs(LeftOf(candles, i))), Max(Highs(RightOf(candles, i)))) - candles[i].low

Swing(series, type, price, i) ==
    [type |-> type, price |-> price, at |-> series.candles[i].at,
     confirmedAt |-> ClosesAt(series, i + Strategy.rightBars)]

Noise(prominence, atr) == prominence * 10000 < atr * Strategy.swingAtr

(* A candle has two pivots, its high and its low, counted in this order.  A *)
(* high that is noise drops the low of the same candle as well.            *)
PivotSwing(series, k) ==
    LET i == (k + 1) \div 2
    IN  IF k % 2 = 1 THEN Swing(series, "HIGH", series.candles[i].high, i)
        ELSE Swing(series, "LOW", series.candles[i].low, i)

CountsHigh(candles, i, atr) ==
    PivotHigh(candles, i) /\ ~Noise(HighProminence(candles, i), atr)

CountsLow(candles, i, atr) ==
    /\ PivotHigh(candles, i) => CountsHigh(candles, i, atr)
    /\ PivotLow(candles, i) /\ ~Noise(LowProminence(candles, i), atr)

Prominent(candles, atr) ==
    LET inner == {i \in DOMAIN candles : Around(i) \subseteq DOMAIN candles}
    IN  {2 * i - 1 : i \in {j \in inner : CountsHigh(candles, j, atr)}}
        \cup {2 * i : i \in {j \in inner : CountsLow(candles, j, atr)}}

SwingsAt(series, pivots) ==
    [n \in 1 .. Cardinality(pivots) |-> PivotSwing(series, Nth(pivots, n))]

ProminentSwings(series, atr) == SwingsAt(series, Prominent(series.candles, atr))

OrZero(found) == IF found = None THEN 0 ELSE found

(* detect_swings: pivots that are prominent enough against the ATR of the  *)
(* whole series, each confirmed by the close of its last right bar.        *)
DetectSwings(series) == ProminentSwings(series, OrZero(Atr(series.candles)))

SwingsOf(swings, type) == Pick(swings, {i \in DOMAIN swings : swings[i].type = type})

(* The recency of a swing among all of them.                               *)
Relevance(swings, swing) ==
    (100 * Cardinality({i \in DOMAIN swings : swings[i].at <= swing.at})) \div Len(swings)

-----------------------------------------------------------------------------
(* Structure *)

Relation(previous, price, up, down) ==
    IF AbsoluteOf(price - previous) * BasisPoints <= Strategy.equalBps * previous
    THEN "EQUAL" ELSE IF price > previous THEN up ELSE down

Relations(s, up, down, side) ==
    {[type |-> Relation(s[i - 1].price, s[i].price, up, down), price |-> s[i].price,
      at |-> s[i].confirmedAt, order |-> 2 * s[i].confirmedAt + side] : i \in 2 .. Len(s)}

(* _relation_events: how each swing lies to the one before it on its side; *)
(* "order" is the order in which the code counts them.                     *)
RelationEvents(swings) ==
    Relations(SwingsOf(swings, "HIGH"), "HIGHER_HIGH", "LOWER_HIGH", 0)
    \cup Relations(SwingsOf(swings, "LOW"), "HIGHER_LOW", "LOWER_LOW", 1)

Rising == {"HIGHER_HIGH", "HIGHER_LOW"}
Falling == {"LOWER_HIGH", "LOWER_LOW"}

DirectionalEvents(events) == {e \in events : e.type \in Rising \cup Falling}

Recent(directional) ==
    {e \in directional : Cardinality({f \in directional : f.order > e.order}) < 4}

StateOf(recent) ==
    LET types == {e.type : e \in recent}
    IN  IF Cardinality(recent) < 2 THEN "INSUFFICIENT_STRUCTURE"
        ELSE IF types \subseteq Rising THEN "BULLISH"
        ELSE IF types \subseteq Falling THEN "BEARISH" ELSE "TRANSITIONAL"

(* _classify_state: the last four directional relations.                   *)
ClassifyState(events) == StateOf(Recent(DirectionalEvents(events)))

Beyond(candle, price, above) ==
    IF above THEN candle.close > price ELSE candle.close < price

(* The candles that complete a run of closes beyond the swing after it was *)
(* confirmed.                                                              *)
ClosesBeyond(series, swing, above) ==
    LET n == Strategy.breakCloses
    IN  {k \in n .. Len(series.candles) :
            \A j \in (k - n + 1) .. k :
                /\ ClosesAt(series, j) > swing.confirmedAt
                /\ Beyond(series.candles[j], swing.price, above)}

BreakOf(series, swing, confirmed, above, type) ==
    IF confirmed = {} THEN {}
    ELSE {[type |-> type, above |-> above, price |-> swing.price,
           at |-> ClosesAt(series, Min(confirmed))]}

LastBreak(series, s, above, type) ==
    IF s = <<>> THEN {}
    ELSE BreakOf(series, Last(s), ClosesBeyond(series, Last(s), above), above, type)

BreakType(state, against) ==
    IF state = against THEN "CHANGE_OF_CHARACTER" ELSE "BREAK_OF_STRUCTURE"

(* _break_events: the first run of closes beyond the last swing of a side; *)
(* against the state it is a change of character.                          *)
BreakEvents(series, swings, state) ==
    LastBreak(series, SwingsOf(swings, "HIGH"), TRUE, BreakType(state, "BEARISH"))
    \cup LastBreak(series, SwingsOf(swings, "LOW"), FALSE, BreakType(state, "BULLISH"))

Structured(swings, state, breaks) ==
    [swings |-> swings, breaks |-> breaks,
     state |-> IF \E b \in breaks : b.type = "CHANGE_OF_CHARACTER"
               THEN "TRANSITIONAL" ELSE state]

StructureOf(series, swings, state) ==
    Structured(swings, state, BreakEvents(series, swings, state))

StructureOn(series, swings) ==
    StructureOf(series, swings, ClassifyState(RelationEvents(swings)))

AnalyzeStructure(series) == StructureOn(series, DetectSwings(series))

-----------------------------------------------------------------------------
(* Liquidity *)

LevelsBelow == {"SWING_LOW", "EQUAL_LOWS", "RANGE_LOW"}

Level(type, price, relevance) == [type |-> type, price |-> price, relevance |-> relevance]

SwingLevels(side, type, swings) ==
    [i \in DOMAIN side |-> Level(type, side[i].price, Relevance(swings, side[i]))]

(* The swings whose prices lie around that of the i-th.                    *)
EqualTo(side, i) ==
    {j \in DOMAIN side :
        AbsoluteOf(side[j].price - side[i].price) * BasisPoints
            <= Strategy.equalBps * side[i].price}

GroupLevel(type, prices, size) ==
    Level(type, IF type = "EQUAL_HIGHS" THEN Max(prices) ELSE Min(prices),
          Lesser(100, 25 + 25 * size))

(* The cluster around the first swing that has equals.                     *)
Cluster(side, type, anchors) ==
    IF anchors = {} THEN <<>>
    ELSE LET group == EqualTo(side, Min(anchors))
         IN  <<GroupLevel(type, {side[j].price : j \in group}, Cardinality(group))>>

Clusters(side, type) ==
    Cluster(side, type, {i \in DOMAIN side : EqualTo(side, i) # {i}})

Boundary(type, price) == IF price = None THEN <<>> ELSE <<Level(type, price, 80)>>

LevelsAround(series, swings, highs, lows) ==
    SwingLevels(highs, "SWING_HIGH", swings) \o SwingLevels(lows, "SWING_LOW", swings)
    \o Clusters(highs, "EQUAL_HIGHS") \o Clusters(lows, "EQUAL_LOWS")
    \o Boundary("RANGE_HIGH", RollingHigh(series.candles, Strategy.lookback))
    \o Boundary("RANGE_LOW", RollingLow(series.candles, Strategy.lookback))

(* detect_liquidity_levels: the last six swings of a side, one cluster of  *)
(* equal ones, and the range before the last candle.                       *)
DetectLiquidityLevels(series, swings) ==
    LevelsAround(series, swings, Newest(SwingsOf(swings, "HIGH"), 6),
                 Newest(SwingsOf(swings, "LOW"), 6))

SweepWindow == 8

Below(level) == level.type \in LevelsBelow

Overshoot(candle, level) ==
    IF Below(level) THEN level.price - candle.low ELSE candle.high - level.price

Pierces(candle, level) ==
    /\ Overshoot(candle, level) > 0
    /\ Overshoot(candle, level) * BasisPoints >= Strategy.overshootBps * level.price

Sweep(level, at, first, back) ==
    [level |-> level, below |-> Below(level), at |-> at, confirmed |-> back # {},
     confidence |-> IF back = {} THEN 30 ELSE IF Min(back) = first THEN 90 ELSE 70]

SweepFrom(window, level, first) ==
    Sweep(level, window[first].at, first,
          {i \in first .. Len(window) : Beyond(window[i], level.price, Below(level))})

SweepIn(window, level, pierced) ==
    IF pierced = {} THEN None ELSE SweepFrom(window, level, Min(pierced))

(* detect_sweeps: the first candle of the window that pierces a level far  *)
(* enough, and the first close back at or after it.                        *)
DetectSweep(series, level) ==
    LET window == Newest(series.candles, SweepWindow)
    IN  SweepIn(window, level, {i \in DOMAIN window : Pierces(window[i], level)})

Detected(found) == Pick(found, {i \in DOMAIN found : found[i] # None})

DetectSweeps(series, levels) ==
    Detected([i \in DOMAIN levels |-> DetectSweep(series, levels[i])])

(* The close clears the level by the tolerance.                            *)
Clears(candle, level, above, tolerance) ==
    IF above THEN candle.close * BasisPoints > level * (BasisPoints + tolerance)
    ELSE candle.close * BasisPoints < level * (BasisPoints - tolerance)

(* detect_reclaim: the first such close from the sweeping candle on.       *)
DetectReclaim(series, sweep) ==
    LET clear == {i \in DOMAIN series.candles :
            /\ series.candles[i].at >= sweep.at
            /\ Clears(series.candles[i], sweep.level.price, sweep.below,
                      Strategy.reclaimBps)}
    IN  IF clear = {} THEN None
        ELSE [confirmedAt |-> ClosesAt(series, Min(clear)),
              confidence |-> Lesser(90, sweep.confidence + 20)]

(* detect_rejection at a level above the price: a wick into it, a close    *)
(* away from it, and a lower close after it; the oldest one counts.        *)
DetectRejection(series, level) ==
    LET candles == series.candles
        rejected == {i \in 1 .. Len(candles) - 1 :
            LET c == candles[i] IN
            /\ c.high > c.low
            /\ c.high >= level
            /\ 2 * (c.high - Greater(c.open, c.close)) >= c.high - c.low
            /\ c.close < level
            /\ candles[i + 1].close < c.close}
    IN  IF rejected = {} THEN None ELSE ClosesAt(series, Min(rejected) + 1)

(* Mutant: a close back through the level is only another touch.           *)
NeverThrough(candle, level, bullish) == FALSE

(* A close back through the level, and a touch of its band.                *)
ClosesThrough(candle, level, bullish) ==
    Clears(candle, level, ~bullish, Strategy.retestBps)

Touches(candle, level, bullish) ==
    IF bullish THEN candle.low * BasisPoints <= level * (BasisPoints + Strategy.retestBps)
    ELSE candle.high * BasisPoints >= level * (BasisPoints - Strategy.retestBps)

(* The candles a retest may use: the first ones that open after the break. *)
RetestWindow(series, breakTime) ==
    LET candles == series.candles
        after == {i \in DOMAIN candles : candles[i].at >= breakTime}
    IN  IF after = {} THEN <<>>
        ELSE SubSeq(candles, Min(after),
                    Lesser(Len(candles), Min(after) + Strategy.retestCandles - 1))

Held(window, failed, touched) ==
    {i \in DOMAIN window \ (failed \cup touched) : \E j \in touched : j < i}

RetestState(seen, failed, touched, held) ==
    IF failed # {} /\ \A i \in held : Min(failed) < i THEN "FAILED"
    ELSE IF held # {} THEN "CONFIRMED"
    ELSE IF touched = {} /\ seen >= Strategy.retestCandles THEN "NOT_PRESENT"
    ELSE "PENDING"

RetestOf(window, failed, touched) ==
    RetestState(Len(window), failed, touched, Held(window, failed, touched))

RetestIn(window, level, bullish) ==
    RetestOf(window,
             {i \in DOMAIN window : ClosesThrough(window[i], level, bullish)},
             {i \in DOMAIN window : Touches(window[i], level, bullish)})

(* evaluate_retest: what comes first, a close through the level or a       *)
(* candle off the band after one that touched it.                          *)
EvaluateRetest(series, level, breakTime, bullish) ==
    IF level <= 0 THEN "NOT_PRESENT"
    ELSE RetestIn(RetestWindow(series, breakTime), level, bullish)

-----------------------------------------------------------------------------
(* Momentum, volume and volatility *)

Sign(a) == IF a > 0 THEN 1 ELSE IF a < 0 THEN -1 ELSE 0
CloseStep(candles, i) == Sign(candles[i].close - candles[i - 1].close)

(* compute_momentum: the direction of the change over the lookback when    *)
(* the last close lies in the same half of its candle, and the length of   *)
(* the run of closes in one direction.                                     *)
ComputeMomentum(candles) ==
    LET n == Len(candles)
        last == candles[n]
        location == Sign((last.close - last.low) - (last.high - last.close))
        change == Sign(last.close - candles[n - Strategy.momentumLookback].close)
        broken == {i \in 2 .. n : CloseStep(candles, i) # CloseStep(candles, n)}
    IN  [direction |-> IF /\ n > Strategy.momentumLookback
                          /\ last.high > last.low
                          /\ location = change
                       THEN change ELSE 0,
         continuation |-> IF n < 2 THEN 0
                          ELSE IF CloseStep(candles, n) = 0 THEN 0
                          ELSE n - (IF broken = {} THEN 1 ELSE Max(broken))]

(* compute_volume: the last volume relative to the mean before it.         *)
RelativeVolume(candles) ==
    LET n == Strategy.volumeLookback
        window == PriorWindow(candles, n)
        sum == MapThenSumSet(LAMBDA i : window[i].volume, DOMAIN window)
    IN  IF Len(candles) <= n THEN None
        ELSE IF sum = 0 THEN None ELSE (Last(candles).volume * n * 100) \div sum

Rank(less, equal, size) == ((2 * less + equal) * 50) \div size

(* compute_volatility: the rank of the last true range among the recent    *)
(* ones, ties counted half.                                                *)
AtrPercentile(candles) ==
    LET n == Len(candles)
        recent == (Greater(0, n - Strategy.volatilityLookback) + 1) .. n
    IN  IF n < 5 THEN None
        ELSE Rank(Cardinality({i \in recent : TrueRange(candles, i) < TrueRange(candles, n)}),
                  Cardinality({i \in recent : TrueRange(candles, i) = TrueRange(candles, n)}),
                  Cardinality(recent))

(* The direction of the move over the window.                              *)
DirectionalSign(candles, window) ==
    Sign(Last(candles).close - candles[Len(candles) - window].close)

(* The net move relative to the path, None without one.                    *)
EfficiencyRatio(candles, window) ==
    LET n == Len(candles)
        path == MapThenSumSet(
            LAMBDA i : AbsoluteOf(candles[i].close - candles[i - 1].close),
            (n - window + 1) .. n)
    IN  IF window < 1 \/ n <= window THEN None
        ELSE IF path = 0 THEN None
        ELSE (100 * AbsoluteOf(candles[n].close - candles[n - window].close)) \div path

=============================================================================
