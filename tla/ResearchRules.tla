----------------------------- MODULE ResearchRules -----------------------------
(***************************************************************************)
(* The two rule engines on a market that moves: with every closed candle   *)
(* of five minutes the strategy evaluates the market, and a confirmed      *)
(* candidate becomes a hypothetical plan, or the reason against one.       *)
(***************************************************************************)
EXTENDS StrategyRules, RiskEngine

CONSTANTS
    Days,           \* the candles a day starts from, and those it may add
    Surroundings,   \* what else the strategy reads
    Markets,        \* what else the risk engine reads
    Epoch,          \* when the candles a day starts from have closed
    MaxCandles      \* bound: how many candles a day adds

VARIABLES
    day,        \* the day
    candles,    \* the five-minute candles it has added
    outcome,    \* the evaluation at the last close
    proposal    \* the plan of one of its candidates, or the reason against it

rulesVars == <<day, candles, outcome, proposal>>

Shape ==
    {s \in [open : Nat, high : Nat, low : Nat, close : Nat, volume : Nat] :
        {s.open, s.close} \subseteq s.low .. s.high}

(* The stored candles of a series: one after the other, before the epoch.  *)
History(series) ==
    /\ series \in Seq(Candle)
    /\ \A i \in DOMAIN series : series[i].at < Epoch
    /\ \A i, j \in DOMAIN series : i < j => series[i].at < series[j].at

Depth(side, close) == [i \in DOMAIN side |-> [side[i] EXCEPT !.price = close + @]]

(* Nothing is no number, and no reason why a rule finds nothing.           *)
ASSUME AbsenceAssumption == None \notin Int /\ None \notin Failures

ASSUME DaysAssumption ==
    /\ Epoch \in Nat /\ MaxCandles \in Nat
    /\ \A d \in Days :
            /\ History(d.m5) /\ History(d.m15) /\ History(d.h1)
            /\ d.shapes \subseteq Shape

(* A candle that is missing is one of the stored ones.                     *)
ASSUME SurroundingsAssumption ==
    \A around \in Surroundings : around.missing \notin Epoch .. (Epoch + MaxCandles)

(* What the risk engine reads of an instrument and its market; what is not  *)
(* there is None.  Prices are offsets from the last close.                  *)
InstrumentSet ==
    [status : STRING, tick : Nat \ {0}, mark : Int \cup {None},
     minNotional : Nat \cup {None}, maxLeverage : Nat \cup {None},
     initial : Nat \cup {None}, maintenance : Nat \cup {None},
     tiers : Seq([bound : Nat, maxLeverage : Nat])]

BookSet ==
    [reliable : BOOLEAN, freshness : STRING,
     asks : Seq([price : Int, quantity : Nat]), bids : Seq([price : Int, quantity : Nat])]

FundingSet ==
    [rate : Int \cup {None}, rateAge : Nat \cup {None}, interval : Nat,
     history : Seq(Int), historyAge : Nat, next : Nat \cup {None}]

MarketSet ==
    [assetClass : STRING, volatile : BOOLEAN, blind : BOOLEAN, delay : Nat,
     instrument : InstrumentSet, book : BookSet, funding : FundingSet,
     bbo : [bid : Int, ask : Int] \cup {None}, bboFreshness : STRING, quality : STRING,
     feeSchedule : STRING, atr : Nat \cup {None}, remaining : Nat \cup {None},
     watched : BOOLEAN, paused : BOOLEAN, sessionAllowed : BOOLEAN]

(* Around any close that can be last, prices are positive.                 *)
ASSUME MarketsAssumption ==
    /\ Markets \subseteq MarketSet
    /\ \A market \in Markets, d \in Days : \A shape \in d.shapes :
            /\ market.instrument.mark # None => shape.close + market.instrument.mark > 0
            /\ market.bbo # None => /\ shape.close + market.bbo.bid > 0
                                    /\ shape.close + market.bbo.ask > 0
            /\ Depth(market.book.asks, shape.close) \in Seq(DepthLevel)
            /\ Depth(market.book.bids, shape.close) \in Seq(DepthLevel)

NoOutcome == Rejected({})

Now == Epoch + Len(candles)

(* Two records as one, the fields of the first before those of the other.  *)
Joined(first, other) ==
    [field \in DOMAIN first \cup DOMAIN other |->
        IF field \in DOMAIN first THEN first[field] ELSE other[field]]

(* The candle of fifteen minutes that three of five minutes make up.       *)
Quarter(three) ==
    [at |-> three[1].at, open |-> three[1].open, close |-> three[3].close,
     high |-> Max(Highs(three)), low |-> Min(Lows(three)),
     volume |-> three[1].volume + three[2].volume + three[3].volume]

Quarters(d, added) ==
    d.m15 \o [k \in 1 .. Len(added) \div 3 |-> Quarter(SubSeq(added, 3 * k - 2, 3 * k))]

(* What the strategy reads: the stored candles and the surroundings.       *)
StrategyView(d, added, around) ==
    Joined([candles5m |-> {c \in ToSet(d.m5 \o added) : c.at # around.missing},
            candles15m |-> ToSet(Quarters(d, added)), candles1h |-> ToSet(d.h1),
            asOf |-> Epoch + Len(added)],
           around)

(* The levels the strategy stored: the swings, newest first, and then the  *)
(* liquidity.                                                              *)
StoredLevel(kind, price, relevance) ==
    [kind |-> kind, price |-> price, relevance |-> relevance]

StoredSwing(swings, swing) ==
    StoredLevel(IF swing.type = "HIGH" THEN "SWING_HIGH" ELSE "SWING_LOW",
                swing.price, Relevance(swings, swing))

StoredLiquidity(levels) ==
    [i \in DOMAIN levels |->
        StoredLevel(levels[i].type, levels[i].price, levels[i].relevance)]

StoredLevels(series, swings) ==
    [i \in DOMAIN swings |-> StoredSwing(swings, swings[Len(swings) + 1 - i])]
    \o StoredLiquidity(DetectLiquidityLevels(series, swings))

LevelsIn(series) == StoredLevels(series, DetectSwings(series))

Snapshot(candidate, market) ==
    [state |-> candidate.state, bullish |-> candidate.bullish,
     type |-> IF candidate.rule = "CONTINUATION" THEN "continuation" ELSE "other",
     level |-> candidate.level, expiryAt |-> candidate.expiryAt,
     assetClass |-> market.assetClass, volatile |-> market.volatile]

(* What the risk job reads: the candidate, the stored levels, and the      *)
(* market around the last close.                                           *)
MarketAround(market, close) ==
    [instrument |-> [market.instrument EXCEPT !.mark = IF @ = None THEN None ELSE close + @],
     bbo |-> IF market.bbo = None THEN None
             ELSE [bid |-> close + market.bbo.bid, ask |-> close + market.bbo.ask],
     book |-> [market.book EXCEPT !.bids = Depth(@, close), !.asks = Depth(@, close)]]

RiskView(candidate, market, close) ==
    Joined([candidate |-> Snapshot(candidate, market),
            levels |-> IF market.blind THEN <<>>
                       ELSE LevelsIn(Build("15m", ToSet(Quarters(day, candles)), Now)),
            asOf |-> Now + market.delay],
           Joined(MarketAround(market, close), market))

-----------------------------------------------------------------------------

RulesInit ==
    /\ day \in Days
    /\ candles = <<>>
    /\ outcome = NoOutcome
    /\ proposal = None

(* A candle closes and the strategy job evaluates the market.              *)
CloseCandle(shape, around) ==
    /\ Len(candles) < MaxCandles
    /\ \E after \in {Append(candles, Joined([at |-> Now], shape))} :
            /\ candles' = after
            /\ outcome' \in {Evaluate(StrategyView(day, after, around))}
    /\ proposal' = None
    /\ UNCHANGED day

(* The risk job evaluates a confirmed candidate.                           *)
PlanTrade(candidate, market) ==
    /\ proposal = None
    /\ candidate.state = "CONFIRMED"
    /\ \E view \in {RiskView(candidate, market, Last(candles).close)} :
            proposal' \in {[candidate |-> candidate, view |-> view,
                            result |-> EvaluateCandidate(BuildContext(view))]}
    /\ UNCHANGED <<day, candles, outcome>>

NextDay ==
    /\ Len(candles) = MaxCandles
    /\ day' \in Days
    /\ candles' = <<>>
    /\ outcome' = NoOutcome
    /\ proposal' = None

RulesNext ==
    \/ \E shape \in day.shapes, around \in Surroundings : CloseCandle(shape, around)
    \/ \E candidate \in outcome.candidates, market \in Markets : PlanTrade(candidate, market)
    \/ NextDay

RulesSpec == RulesInit /\ [][RulesNext]_rulesVars

-----------------------------------------------------------------------------
(* Properties *)

AllCandles == day.m5 \o candles

(* A confirmed sweep reversal tells its story in order, over the candles   *)
(* that were read: a candle pierced the level, the first close at or after *)
(* it that clears the level by the tolerance reclaimed it, a later candle  *)
(* came back to touch the level, a still later one left it again, and no   *)
(* candle from the reclaim to that one closed back through the level.      *)
ReversalsTellTheirStory ==
    \A c \in outcome.candidates :
        c.rule = "SWEEP_REVERSAL" /\ c.state = "CONFIRMED" =>
            \E missing \in {around.missing : around \in Surroundings} :
            \E read \in {{i \in DOMAIN AllCandles : AllCandles[i].at # missing}} :
            \E pierced, reclaimed, touched, left \in read :
                /\ pierced <= reclaimed /\ reclaimed < touched /\ touched < left
                /\ IF c.bullish
                   THEN AllCandles[pierced].low < c.level
                   ELSE AllCandles[pierced].high > c.level
                /\ Clears(AllCandles[reclaimed], c.level, c.bullish, Strategy.reclaimBps)
                /\ \A i \in read : pierced <= i /\ i < reclaimed =>
                        ~Clears(AllCandles[i], c.level, c.bullish, Strategy.reclaimBps)
                /\ IF c.bullish
                   THEN AllCandles[touched].low * BPS
                            <= c.level * (BPS + Strategy.retestBps)
                   ELSE AllCandles[touched].high * BPS
                            >= c.level * (BPS - Strategy.retestBps)
                /\ IF c.bullish
                   THEN AllCandles[left].low * BPS > c.level * (BPS + Strategy.retestBps)
                   ELSE AllCandles[left].high * BPS < c.level * (BPS - Strategy.retestBps)
                /\ \A i \in read : reclaimed < i /\ i <= left =>
                        ~Clears(AllCandles[i], c.level, ~c.bullish, Strategy.retestBps)

(* A range breakout counts its retest from the last close beyond the       *)
(* range when there is one, so that it is confirmed only by a market whose *)
(* last close lies inside the range again.                                 *)
BreakoutsConfirmBackInside ==
    \A c \in outcome.candidates :
        c.rule = "RANGE_BREAKOUT" /\ c.state = "CONFIRMED" =>
            /\ ~Beyond(Last(candles), c.level, c.bullish)
            /\ \E i \in DOMAIN AllCandles : Beyond(AllCandles[i], c.level, c.bullish)

-----------------------------------------------------------------------------

Proposed == proposal # None
HasPlan == IF Proposed THEN proposal.result.ok ELSE FALSE

(* A plan follows its signal: it keeps the candidate's direction and is    *)
(* gone with it, but not before it is there when plans last at all; its    *)
(* entry zone spans from the level to the executable price; its            *)
(* invalidation lies behind the entry, and with a buffer on the far side   *)
(* of the level, so that the market has to undo the signal first; its      *)
(* targets lie on the near side, none nearer than the one before, and      *)
(* every price but a target's is on the grid of the instrument.            *)
PlansFollowTheirSignal ==
    HasPlan =>
        LET candidate == proposal.candidate
            bullish == candidate.bullish
            plan == proposal.result
            tick == proposal.view.instrument.tick
            Behind(a, b) == IF bullish THEN a < b ELSE a > b
        IN  /\ candidate.state = "CONFIRMED"
            /\ plan.expiryAt <= candidate.expiryAt
            /\ RiskDefaults.expirySeconds > 0 => plan.expiryAt > proposal.view.asOf
            /\ candidate.level \in plan.entry.low .. plan.entry.high
            /\ plan.entry.price \in plan.entry.low .. plan.entry.high
            /\ ~Behind(candidate.level, plan.invalidation.price)
            /\ RiskDefaults.bufferBps > 0 \/ RiskDefaults.bufferAtr > 0 =>
                    Behind(plan.invalidation.price, candidate.level)
            /\ Behind(plan.invalidation.price, plan.entry.price)
            /\ \A i \in DOMAIN plan.targets : Behind(plan.entry.price, plan.targets[i].price)
            /\ \A i, j \in DOMAIN plan.targets :
                    i < j => ~Behind(plan.targets[j].price, plan.targets[i].price)
            /\ \A price \in {plan.entry.low, plan.entry.high, plan.entry.price,
                             plan.invalidation.price} : price % tick = 0

(* A plan keeps its promises: its loss at the invalidation, costs          *)
(* included, exceeds the budget by no more than the allowed share of the   *)
(* costs; its notional lies inside the limits; its leverage stays below    *)
(* every cap, the last of the highest tiers it reaches among them, and     *)
(* with it and every half step below it the position is liquidated, from   *)
(* the entry and from the mark, only behind the invalidation and by the    *)
(* margin; the primary target earns the minimum.                           *)
PlansKeepTheirPromises ==
    HasPlan =>
        LET plan == proposal.result
            view == proposal.view
            bullish == proposal.candidate.bullish
            risk == EffectiveRiskSettings(view.assetClass)
            mark == view.instrument.mark
            tiers == view.instrument.tiers
            reached == {i \in DOMAIN tiers :
                            plan.position.notional >= tiers[i].bound
                            /\ tiers[i].maxLeverage > 0}
            Survives(leverage, anchor) ==
                LET price == LiquidationFrom(anchor, leverage, bullish,
                                             plan.leverage.rates, risk)
                    behind == IF bullish THEN plan.invalidation.price * BPS - price
                              ELSE price - plan.invalidation.price * BPS
                IN  behind > 0 /\ behind >= risk.liquidationBps * mark
        IN  /\ plan.costs.loss.net * 100 <= (100 + risk.maxCostPct) * Budget(risk)
            /\ plan.position.notional \in view.instrument.minNotional .. risk.maxNotional
            /\ plan.leverage.leverage <= Smaller(300, 100 * view.instrument.maxLeverage)
            /\ \A i \in reached :
                    (\A j \in reached :
                        \/ tiers[j].bound < tiers[i].bound
                        \/ (tiers[j].bound = tiers[i].bound /\ j <= i))
                    => plan.leverage.leverage <= 100 * tiers[i].maxLeverage
            /\ \A k \in 2 .. (plan.leverage.leverage \div 50), anchor \in {plan.entry.price, mark} :
                    Survives(50 * k, anchor)
            /\ plan.costs.targets[1].net * 10 >= risk.minNetRR * plan.costs.loss.net

=============================================================================
