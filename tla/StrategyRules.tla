----------------------------- MODULE StrategyRules -----------------------------
(***************************************************************************)
(* The pure strategy evaluation (src/app/strategy): hard gates, regime,    *)
(* the three rules for each direction, the score, and the best candidate   *)
(* per direction.  Fractions, ratios and confidences are whole percents.   *)
(***************************************************************************)
EXTENDS MarketStructure

(* round(): half to even.                                                  *)
Rounded(amount, unit) ==
    LET whole == amount \div unit
        rest == 2 * (amount % unit)
    IN  IF rest > unit \/ (rest = unit /\ whole % 2 = 1) THEN whole + 1 ELSE whole

Aligned(bullish) == IF bullish THEN "BULLISH" ELSE "BEARISH"
AlignedTrend(bullish) == IF bullish THEN "TREND_UP" ELSE "TREND_DOWN"

-----------------------------------------------------------------------------
(* Context and features *)

EvaluationContext(view, m5, m15, h1) ==
    [ok |-> TRUE, asOf |-> view.asOf, m5 |-> m5, m15 |-> m15, h1 |-> h1,
     watched |-> view.watched, paused |-> view.paused,
     sessionAllowed |-> view.sessionAllowed,
     qualityOk |-> \/ view.quality = "HEALTHY"
                   \/ view.quality = "DEGRADED" /\ Strategy.degradedAllowed,
     bookOk |-> view.bookReliable /\ view.bookFresh,
     lowLiquidity |-> view.lowLiquidity,
     market |-> [valid |-> /\ view.bookReliable /\ view.bookFresh
                           /\ view.bboFresh /\ view.bbo,
                 imbalance |-> IF view.bookReliable THEN view.imbalance ELSE None]]

ContextOn(view, m5, m15, h1) ==
    IF ~m5.ok THEN m5 ELSE IF ~m15.ok THEN m15 ELSE IF ~h1.ok THEN h1
    ELSE EvaluationContext(view, m5, m15, h1)

(* EvaluationContextBuilder.build: the series of every timeframe, or the   *)
(* first reason why one is none.                                           *)
BuildEvaluationContext(view) ==
    ContextOn(view, Build("5m", view.candles5m, view.asOf),
              Build("15m", view.candles15m, view.asOf),
              Build("1h", view.candles1h, view.asOf))

FeaturesOn(context, m15, levels) ==
    [m15 |-> m15,
     h1 |-> AnalyzeStructure(context.h1),
     m5 |-> AnalyzeStructure(context.m5),
     levels |-> levels,
     sweeps |-> DetectSweeps(context.m5, levels),
     momentum |-> ComputeMomentum(context.m5.candles),
     volume |-> RelativeVolume(context.m5.candles),
     percentile |-> AtrPercentile(context.h1.candles)]

FeaturesOf(context, m15) ==
    FeaturesOn(context, m15, DetectLiquidityLevels(context.m15, m15.swings))

(* build_feature_bundle: what the regime and the rules read.               *)
BuildFeatureBundle(context) == FeaturesOf(context, AnalyzeStructure(context.m15))

EventRiskActive(asOf) ==
    \E window \in Strategy.eventWindows : window[1] <= asOf /\ asOf < window[2]

Regime(name, confidence) == [regime |-> name, confidence |-> confidence]

(* A trend, unless the structure contradicts it.                           *)
Trend(state, er, bullish) ==
    IF state = Aligned(~bullish) THEN Regime("NO_TRADE", 70)
    ELSE Regime(AlignedTrend(bullish),
        Lesser(100, 50 + Lesser(45, ((er - Strategy.trendMin) * 120) \div 100)
                        + (IF state = Aligned(bullish) THEN 10 ELSE 0)))

(* The last close lies beyond the range before it.                         *)
OutOfRange(candles) ==
    LET n == Strategy.breakoutLookback
    IN  /\ Len(candles) > n
        /\ \/ Last(candles).close > RollingHigh(candles, n)
           \/ Last(candles).close < RollingLow(candles, n)

(* classify_regime: in this order, the first that applies.                 *)
RegimeOf(context, state, percentile, er, direction) ==
    IF er = None \/ percentile = None THEN Regime("INSUFFICIENT_DATA", 100)
    ELSE IF EventRiskActive(context.asOf) THEN Regime("EVENT_RISK", 100)
    ELSE IF context.lowLiquidity THEN Regime("LOW_LIQUIDITY", 90)
    ELSE IF percentile >= Strategy.highVolatility THEN Regime("HIGH_VOLATILITY", 80)
    ELSE IF OutOfRange(context.h1.candles) THEN Regime("BREAKOUT", 75)
    ELSE IF er >= Strategy.trendMin /\ direction # 0 THEN Trend(state, er, direction > 0)
    ELSE IF er <= Strategy.rangeMax THEN Regime("RANGE", 70)
    ELSE Regime("NO_TRADE", 60)

ClassifyRegime(context, bundle) ==
    LET candles == context.h1.candles
        window == Lesser(Strategy.trendLookback, Len(candles) - 1)
    IN  RegimeOf(context, bundle.h1.state, bundle.percentile,
                 EfficiencyRatio(candles, window), DirectionalSign(candles, window))

Blocking ==
    [NO_TRADE |-> "REGIME_NO_TRADE", HIGH_VOLATILITY |-> "REGIME_HIGH_VOLATILITY",
     LOW_LIQUIDITY |-> "REGIME_LOW_LIQUIDITY",
     INSUFFICIENT_DATA |-> "REGIME_INSUFFICIENT_DATA", EVENT_RISK |-> "REGIME_NO_TRADE"]

-----------------------------------------------------------------------------
(* Fractions and score *)

HtfFraction(state, regime, bullish) ==
    LET structured == state = Aligned(bullish)
        trending == regime = AlignedTrend(bullish)
    IN  IF structured /\ trending THEN 100
        ELSE IF structured \/ trending THEN 80
        ELSE IF state = "INSUFFICIENT_STRUCTURE" THEN 50
        ELSE IF state = "TRANSITIONAL" THEN 40 ELSE 0

MomentumFraction(momentum, bullish) ==
    IF momentum.direction = 0 THEN 40
    ELSE IF (momentum.direction = 1) = bullish
    THEN 60 + Lesser(40, 10 * momentum.continuation) ELSE 0

VolumeFraction(ratio) ==
    IF ratio = None THEN 0
    ELSE IF ratio >= 2 * Strategy.minVolume THEN 100
    ELSE IF ratio >= Strategy.minVolume THEN 70 ELSE 30

MarketFraction(market, bullish) ==
    IF ~market.valid THEN 0
    ELSE IF market.imbalance = None THEN 60
    ELSE IF (IF bullish THEN market.imbalance < -50 ELSE market.imbalance > 50)
    THEN 30 ELSE 100

VolatilityFraction(percentile) ==
    IF percentile >= Strategy.highVolatility THEN 0
    ELSE IF percentile >= 75 THEN 60 ELSE 100

LocalStructureFraction(state, bullish) ==
    IF state = Aligned(bullish) THEN 100
    ELSE IF state = "TRANSITIONAL" THEN 50
    ELSE IF state = "INSUFFICIENT_STRUCTURE" THEN 30 ELSE 0

Fractions(context, bundle, regime, bullish, liquidity, confirmation) ==
    [htf_bias |-> HtfFraction(bundle.h1.state, regime.regime, bullish),
     structure_15m |-> LocalStructureFraction(bundle.m15.state, bullish),
     liquidity_event |-> liquidity,
     local_confirmation_5m |-> confirmation,
     momentum |-> MomentumFraction(bundle.momentum, bullish),
     volume |-> VolumeFraction(bundle.volume),
     market_context |-> MarketFraction(context.market, bullish),
     volatility_fit |-> VolatilityFraction(bundle.percentile)]

ComputeScore(fractions) ==
    Rounded(MapThenSumSet(LAMBDA c : fractions[c] * Strategy.weights[c], ScoreWeights), 100)

-----------------------------------------------------------------------------
(* Rules *)

(* The most confident sweep, then the most relevant, then the oldest.      *)
StrongestSweep(sweeps) ==
    LET Better(a, b) ==
            LET s == sweeps[a]
                t == sweeps[b]
            IN  \/ s.confidence > t.confidence
                \/ /\ s.confidence = t.confidence
                   /\ \/ s.level.relevance > t.level.relevance
                      \/ /\ s.level.relevance = t.level.relevance
                         /\ s.at < t.at \/ (s.at = t.at /\ a < b)
    IN  sweeps[CHOOSE a \in DOMAIN sweeps :
                    \A b \in DOMAIN sweeps \ {a} : Better(a, b)]

(* Nothing found, but the reason why: each of these is one.                *)
Failures ==
    {"SWEEP_UNCONFIRMED", "RECLAIM_UNCONFIRMED", "STRUCTURE_NOT_CONFIRMED",
     "REJECTION_UNCONFIRMED"}

Fail(rule, bullish, code) == [rule |-> rule, bullish |-> bullish, code |-> code]

(* A candidate at a level, with the fractions of its score.                *)
Found(rule, bullish, level, confirmed, fractions) ==
    [rule |-> rule, bullish |-> bullish, code |-> None, level |-> level,
     confirmed |-> confirmed, fractions |-> fractions]

Reversal(context, bundle, regime, bullish, sweep, reclaim, retest) ==
    LET confirmed == retest = "CONFIRMED"
    IN  IF retest = "FAILED" THEN Fail("SWEEP_REVERSAL", bullish, "RECLAIM_UNCONFIRMED")
        ELSE Found("SWEEP_REVERSAL", bullish, sweep.level.price, confirmed,
                Fractions(context, bundle, regime, bullish, sweep.confidence,
                    Lesser(100, reclaim.confidence + (IF confirmed THEN 20 ELSE 0))))

ReclaimedSweep(context, bundle, regime, bullish, sweep, reclaim) ==
    IF reclaim = None THEN Fail("SWEEP_REVERSAL", bullish, "RECLAIM_UNCONFIRMED")
    ELSE Reversal(context, bundle, regime, bullish, sweep, reclaim,
            EvaluateRetest(context.m5, sweep.level.price, reclaim.confirmedAt, bullish))

SweptLevel(context, bundle, regime, bullish, sweep) ==
    IF ~sweep.confirmed THEN Fail("SWEEP_REVERSAL", bullish, "SWEEP_UNCONFIRMED")
    ELSE ReclaimedSweep(context, bundle, regime, bullish, sweep,
            DetectReclaim(context.m5, sweep))

(* sweep_reversal_rule: the strongest sweep of a side, its reclaim and the *)
(* retest of that.                                                         *)
SweepReversalRule(context, bundle, regime, bullish) ==
    LET sweeps == Pick(bundle.sweeps, {i \in DOMAIN bundle.sweeps : bundle.sweeps[i].below = bullish})
    IN  IF sweeps = <<>> THEN None
        ELSE SweptLevel(context, bundle, regime, bullish, StrongestSweep(sweeps))

Continuation(context, bundle, regime, bullish, level, confirmed, confirmation) ==
    Found("CONTINUATION", bullish, level, confirmed,
          Fractions(context, bundle, regime, bullish, 60, confirmation))

RetestedBreak(context, bundle, regime, level, retest) ==
    IF retest = "FAILED" THEN Fail("CONTINUATION", TRUE, "STRUCTURE_NOT_CONFIRMED")
    ELSE Continuation(context, bundle, regime, TRUE, level, retest = "CONFIRMED",
                      IF retest = "CONFIRMED" THEN 80 ELSE 60)

(* Upwards: a retest of the last broken structure.                         *)
UpwardContinuation(context, bundle, regime, broken) ==
    IF broken = {} THEN Fail("CONTINUATION", TRUE, "STRUCTURE_NOT_CONFIRMED")
    ELSE LET break == CHOOSE b \in broken : TRUE
         IN  RetestedBreak(context, bundle, regime, break.price,
                EvaluateRetest(context.m5, break.price, break.at, TRUE))

(* Downwards: a rejection at the last swing high.                          *)
DownwardContinuation(context, bundle, regime, highs) ==
    IF highs = <<>> THEN Fail("CONTINUATION", FALSE, "STRUCTURE_NOT_CONFIRMED")
    ELSE IF DetectRejection(context.m5, Last(highs).price) = None
    THEN Fail("CONTINUATION", FALSE, "REJECTION_UNCONFIRMED")
    ELSE Continuation(context, bundle, regime, FALSE, Last(highs).price, TRUE, 80)

(* continuation_rule: both structures in the direction of the trend.       *)
ContinuationRule(context, bundle, regime, bullish) ==
    IF \/ bundle.h1.state # Aligned(bullish) /\ regime.regime # AlignedTrend(bullish)
       \/ bundle.m15.state # Aligned(bullish)
    THEN None
    ELSE IF bullish
    THEN UpwardContinuation(context, bundle, regime,
            {b \in bundle.m15.breaks : b.type = "BREAK_OF_STRUCTURE" /\ b.above})
    ELSE DownwardContinuation(context, bundle, regime,
            SwingsOf(bundle.m15.swings, "HIGH"))

(* Mutant: the retest of a breakout starts at the first close beyond the   *)
(* level, whether the last one lies beyond it or not.                      *)
FirstBreakTime(series, level, up) ==
    LET recent == Newest(series.candles, Strategy.retestCandles)
        beyond == {i \in DOMAIN recent : Beyond(recent[i], level, up)}
    IN  IF beyond = {} THEN None ELSE recent[Min(beyond)].at + series.width

(* The close from which the retest counts: the last one when it lies       *)
(* beyond the level, else the first recent one that does.                  *)
BreakTime(series, level, up) ==
    LET recent == Newest(series.candles, Strategy.retestCandles)
        beyond == {i \in DOMAIN recent : Beyond(recent[i], level, up)}
    IN  IF beyond = {} THEN None
        ELSE IF Len(recent) \in beyond THEN Last(recent).at + series.width
        ELSE recent[Min(beyond)].at + series.width

Breakout(context, bundle, regime, up, level, retest) ==
    IF retest = "FAILED" THEN Fail("RANGE_BREAKOUT", up, "STRUCTURE_NOT_CONFIRMED")
    ELSE Found("RANGE_BREAKOUT", up, level.price, retest = "CONFIRMED",
            Fractions(context, bundle, regime, up,
                Lesser(90, 50 + (level.relevance * 40) \div 100),
                IF retest = "CONFIRMED" THEN 70 ELSE 55))

BrokenBoundary(context, bundle, regime, up, level, broken) ==
    IF broken = None THEN Fail("RANGE_BREAKOUT", up, "STRUCTURE_NOT_CONFIRMED")
    ELSE Breakout(context, bundle, regime, up, level,
            EvaluateRetest(context.m5, level.price, broken, up))

(* range_breakout_rule: a close beyond the range and its retest.           *)
RangeBreakoutRule(context, bundle, regime, up) ==
    LET wanted == IF up THEN "RANGE_HIGH" ELSE "RANGE_LOW"
        levels == Pick(bundle.levels, {i \in DOMAIN bundle.levels : bundle.levels[i].type = wanted})
    IN  IF regime.regime \notin {"RANGE", "BREAKOUT"} \/ levels = <<>> THEN None
        ELSE BrokenBoundary(context, bundle, regime, up, Head(levels),
                BreakTime(context.m5, Head(levels).price, up))

EvaluateRules(context, bundle, regime) ==
    {r \in UNION {{SweepReversalRule(context, bundle, regime, bullish),
                   ContinuationRule(context, bundle, regime, bullish),
                   RangeBreakoutRule(context, bundle, regime, bullish)} :
                        bullish \in BOOLEAN} :
        r # None}

-----------------------------------------------------------------------------
(* Evaluation *)

(* The gates before any feature is computed.                               *)
FirstGate(context) ==
    IF Strategy.watchlistRequired /\ ~context.watched THEN "NOT_ON_ACTIVE_WATCHLIST"
    ELSE IF context.paused THEN "BOT_PAUSED"
    ELSE IF ~context.sessionAllowed THEN "SESSION_NOT_ALLOWED"
    ELSE IF ~context.qualityOk THEN "DATA_QUALITY_NOT_SUFFICIENT"
    ELSE IF Strategy.freshBook /\ ~context.bookOk THEN "ORDERBOOK_NOT_FRESH" ELSE None

(* What an outcome of a rule has to pass to become a candidate.            *)
MandatoryGate(outcome) ==
    IF Strategy.momentumRequired /\ outcome.fractions.momentum < 60
    THEN "MOMENTUM_INSUFFICIENT"
    ELSE IF Strategy.volumeRequired /\ outcome.fractions.volume < 70
    THEN "VOLUME_INSUFFICIENT"
    ELSE IF outcome.fractions.htf_bias = 0 /\ outcome.fractions.structure_15m = 0
    THEN "HIGHER_TIMEFRAME_CONFLICT"
    ELSE IF ComputeScore(outcome.fractions) < Strategy.minScore
    THEN "SETUP_SCORE_BELOW_THRESHOLD" ELSE None

(* build_candidate *)
BuildCandidate(context, regime, outcome) ==
    LET score == ComputeScore(outcome.fractions)
    IN  [rule |-> outcome.rule, bullish |-> outcome.bullish, level |-> outcome.level,
         state |-> IF outcome.confirmed THEN "CONFIRMED" ELSE "DETECTED",
         score |-> score, regime |-> regime.regime,
         confidence |-> Lesser(95, Rounded(60 * score + 40 * regime.confidence, 100)),
         expiryAt |-> context.asOf + Strategy.expireAfter * Width("5m")]

(* The candidate types of one direction in alphabetical order.             *)
Precedence == [CONTINUATION |-> 1, SWEEP_REVERSAL |-> 2, RANGE_BREAKOUT |-> 3]

(* The best candidate of each direction.                                   *)
BestPerDirection(candidates) ==
    {c \in candidates : \A d \in candidates :
        d.bullish = c.bullish =>
            \/ d.score < c.score
            \/ d.score = c.score /\ Precedence[d.rule] >= Precedence[c.rule]}

Rejected(codes) == [regime |-> None, candidates |-> {}, rejections |-> codes]

Chosen(context, regime, results, outcomes, passing) ==
    [regime |-> regime.regime,
     candidates |->
        BestPerDirection({BuildCandidate(context, regime, o) : o \in passing}),
     rejections |-> {r.code : r \in results \ outcomes}
                    \cup {MandatoryGate(o) : o \in outcomes \ passing}]

Gated(context, regime, results, outcomes) ==
    Chosen(context, regime, results, outcomes,
           {o \in outcomes : MandatoryGate(o) = None})

EvaluateResults(context, regime, results) ==
    Gated(context, regime, results, {r \in results : r.code = None})

EvaluateRegime(context, bundle, regime) ==
    IF regime.regime \in DOMAIN Blocking
    THEN [regime |-> regime.regime, candidates |-> {},
          rejections |-> {Blocking[regime.regime]}]
    ELSE EvaluateResults(context, regime, EvaluateRules(context, bundle, regime))

EvaluateFeatures(context, bundle) ==
    EvaluateRegime(context, bundle, ClassifyRegime(context, bundle))

(* evaluate_context: the regime, the candidates and the rejections.        *)
EvaluateContext(context) ==
    IF FirstGate(context) # None THEN Rejected({FirstGate(context)})
    ELSE EvaluateFeatures(context, BuildFeatureBundle(context))

EvaluateBuilt(context) ==
    IF context.ok THEN EvaluateContext(context) ELSE Rejected({context.code})

(* What one evaluation of the market yields.                               *)
Evaluate(view) == EvaluateBuilt(BuildEvaluationContext(view))

=============================================================================
