------------------------------ MODULE RiskEngine ------------------------------
(***************************************************************************)
(* The risk engine (src/app/risk): one confirmed candidate in, one         *)
(* hypothetical plan or the code of the first reason against it out.       *)
(* Prices are integers, the instrument's tick a number of them; quantities *)
(* are counted in the smallest quantity step; money is counted in          *)
(* 1 / BPS, as in CostModel; ATR multiples and leverages are hundredths,   *)
(* relevances, fractions and confidences are percent.                      *)
(***************************************************************************)
EXTENDS CostModel

CONSTANTS
    RiskDefaults,       \* the risk settings
    ClassOverrides,     \* settings replaced per asset class
    SymbolOverrides     \* settings replaced for the symbol

ScoreComponents ==
    {"invalidation_quality", "target_quality", "net_rr", "executability",
     "cost_quality", "margin_buffer", "data_confidence"}

Switches == {"confirmedOnly", "degradedAllowed", "freshBook", "approximated", "isolatedOnly"}

Amounts ==
    {"account", "riskBps", "minBps", "maxBps", "minAtr", "maxAtr", "bufferBps", "bufferAtr",
     "minRelevance", "chaseBps", "maxNotional", "maxLeverage", "minNetRR", "maxCostPct",
     "approxInitial", "approxMaintenance", "liquidationBps", "liquidationAtr", "stressBps",
     "expirySeconds", "minScore"}

Unvalidated == {"minRelevance", "expirySeconds"}

AcceptedWeights(weights) ==
    /\ weights \in [ScoreComponents -> Nat]
    /\ MapThenSumSet(LAMBDA c : weights[c], ScoreComponents) = 100

TypedSettings(risk) ==
    /\ DOMAIN risk = Switches \cup Amounts \cup {"weights"}
    /\ \A key \in Switches : risk[key] \in BOOLEAN
    /\ \A key \in Amounts : risk[key] \in Int
    /\ \A key \in Amounts \ Unvalidated : risk[key] \in Nat

AcceptedRanges(risk) ==
    /\ risk.account > 0 /\ risk.maxNotional > 0 /\ risk.minNetRR >= 10
    /\ risk.riskBps \in 1 .. 500 /\ risk.maxLeverage \in 100 .. 300
    /\ risk.maxCostPct \in 1 .. 100 /\ risk.minScore \in 0 .. 100
    /\ risk.approxInitial \in 1 .. 9999 /\ risk.approxMaintenance \in 1 .. 9999

(* What the validators of the settings class accept.                       *)
AcceptedSettings(risk) ==
    TypedSettings(risk) /\ AcceptedRanges(risk) /\ AcceptedWeights(risk.weights)

ASSUME RiskAssumption == AcceptedSettings(RiskDefaults)

-----------------------------------------------------------------------------
(* Settings of one instrument *)

OverridableKeys ==
    {"minNetRR", "maxCostPct", "minBps", "maxBps", "riskBps", "maxLeverage",
     "minScore"}

(* The overrides are numbers, and nothing more is validated.               *)
ASSUME OverridesAssumption ==
    \A key \in OverridableKeys :
        /\ key \in DOMAIN SymbolOverrides => SymbolOverrides[key] \in Int
        /\ \A class \in DOMAIN ClassOverrides :
                key \in DOMAIN ClassOverrides[class] => ClassOverrides[class][key] \in Int

(* effective_risk_settings: the symbol's value replaces the asset class's, *)
(* the hard cap on the leverage survives both.                             *)
EffectiveRiskSettings(assetClass) ==
    LET class == IF assetClass \in DOMAIN ClassOverrides
                 THEN ClassOverrides[assetClass] ELSE <<>>
        Overridden(key) ==
            IF key \notin OverridableKeys THEN RiskDefaults[key]
            ELSE IF key \in DOMAIN SymbolOverrides THEN SymbolOverrides[key]
            ELSE IF key \in DOMAIN class THEN class[key]
            ELSE RiskDefaults[key]
    IN  [[key \in DOMAIN RiskDefaults |-> Overridden(key)]
            EXCEPT !.maxLeverage = Smaller(300, @)]

-----------------------------------------------------------------------------
(* The context: what the live adapters hand to the engine *)

Fresh(freshness) == freshness \in {"FRESH", "AGING"}

(* Swings and liquidity levels, newest first: a level of a kind and price  *)
(* counts once.                                                            *)
Levels(found) ==
    {i \in DOMAIN found :
        \A j \in 1 .. (i - 1) :
            <<found[j].kind, found[j].price>> # <<found[i].kind, found[i].price>>}

(* A rate counts as current only inside twice its own interval; ages are   *)
(* hours.                                                                  *)
FundingOf(funding) ==
    LET maxAge == Larger(2 * funding.interval, 2)
        live == funding.rate # None /\ funding.rateAge # None /\ funding.rateAge <= maxAge
        recorded == funding.history # <<>> /\ funding.historyAge <= maxAge
    IN  [current |-> IF live THEN funding.rate ELSE None,
         history |-> funding.history, next |-> funding.next,
         fresh |-> live \/ recorded]

(* The hold would outlast the session of an equity.                        *)
OvernightRisk(candidate, remaining) ==
    /\ candidate.assetClass = "EQUITY"
    /\ remaining = None \/ Costs.holdMinutes > remaining

(* build: an immutable view of the candidate, its instrument and its       *)
(* market.                                                                 *)
BuildContext(view) ==
    LET book == [fresh |-> view.book.reliable /\ Fresh(view.book.freshness),
                 asks |-> view.book.asks, bids |-> view.book.bids]
        bothSides == book.asks # <<>> /\ book.bids # <<>>
    IN  [candidate |-> view.candidate, instrument |-> view.instrument, book |-> book,
         reference |->
            IF view.instrument.mark # None THEN view.instrument.mark
            ELSE IF bothSides
            THEN (book.bids[1].price + book.asks[1].price) \div 2 ELSE None,
         spreadBps |->
            IF bothSides /\ book.bids[1].price > 0
            THEN (2 * (book.asks[1].price - book.bids[1].price) * BPS)
                    \div (book.bids[1].price + book.asks[1].price)
            ELSE None,
         bboFresh |-> view.bbo # None /\ Fresh(view.bboFreshness), bbo |-> view.bbo,
         qualityOk |-> \/ view.quality = "HEALTHY"
                       \/ view.quality = "DEGRADED" /\ RiskDefaults.degradedAllowed,
         levels |-> {[price |-> view.levels[i].price, rank |-> i,
                      relevance |-> view.levels[i].relevance] : i \in Levels(view.levels)},
         funding |-> FundingOf(view.funding), feeSchedule |-> view.feeSchedule,
         atr |-> view.atr, overnight |-> OvernightRisk(view.candidate, view.remaining),
         watched |-> view.watched, paused |-> view.paused,
         sessionAllowed |-> view.sessionAllowed, asOf |-> view.asOf]

-----------------------------------------------------------------------------
(* The grid of the instrument *)

(* Mutant: a price is rounded to the nearest tick.                         *)
RoundNearest(fine, tick) == ((2 * fine + tick * BPS) \div (2 * tick * BPS)) * tick

(* Round a price given in 1 / BPS to a tick below, or above, it.           *)
RoundDown(fine, tick) == (fine \div (tick * BPS)) * tick

RoundUp(fine, tick) == CeilDiv(fine, tick * BPS) * tick

Against(bullish, price, reference) ==
    IF bullish THEN price < reference ELSE price > reference

-----------------------------------------------------------------------------
(* The hard gates, in order *)

Gate(failed, code) == [failed |-> failed, code |-> code]

HardGates(context, risk) ==
    LET candidate == context.candidate
        instrument == context.instrument
    IN  <<Gate(context.paused, "BOT_PAUSED"),
          Gate(~context.watched, "INSTRUMENT_INACTIVE"),
          Gate(~context.sessionAllowed, "SESSION_NOT_ALLOWED"),
          Gate(candidate.state = "EXPIRED" \/ candidate.expiryAt <= context.asOf,
               "CANDIDATE_EXPIRED"),
          Gate(candidate.state = "SUPERSEDED", "CANDIDATE_SUPERSEDED"),
          Gate(risk.confirmedOnly /\ candidate.state # "CONFIRMED",
               "CANDIDATE_NOT_CONFIRMED"),
          Gate(instrument.status # "ACTIVE", "INSTRUMENT_INACTIVE"),
          Gate(~context.qualityOk, "DATA_QUALITY_INSUFFICIENT"),
          Gate(risk.freshBook /\ ~context.book.fresh, "ORDERBOOK_NOT_FRESH"),
          Gate(context.reference = None, "INSTRUMENT_RISK_DATA_MISSING"),
          Gate(instrument.minNotional = None, "INSTRUMENT_RISK_DATA_MISSING"),
          Gate(instrument.maxLeverage = None \/ instrument.maxLeverage = 0,
               "MAX_LEVERAGE_UNAVAILABLE"),
          Gate(context.feeSchedule # "active", "FEE_SCHEDULE_UNAVAILABLE"),
          Gate(/\ candidate.assetClass = "EQUITY"
               /\ Costs.overnightBlocked
               /\ context.overnight, "EQUITY_OVERNIGHT_BLOCKED")>>

FirstFailure(gates) ==
    LET failed == {i \in DOMAIN gates : gates[i].failed}
    IN  IF failed = {} THEN [ok |-> TRUE] ELSE Error(gates[Min(failed)].code)

-----------------------------------------------------------------------------
(* Technical framing *)

(* derive_entry_zone: from the candidate's level to the executable side,   *)
(* unless the price has run away from the level.                           *)
DeriveEntryZone(context, risk) ==
    LET bullish == context.candidate.bullish
        anchor == context.candidate.level
        executable == IF bullish THEN context.bbo.ask ELSE context.bbo.bid
        tick == context.instrument.tick
        ranAway == IF bullish
                   THEN executable * BPS > anchor * (BPS + risk.chaseBps)
                   ELSE executable * BPS < anchor * (BPS - risk.chaseBps)
    IN  IF \/ anchor = None \/ anchor <= 0
           \/ ~context.bboFresh
           \/ context.spreadBps = None \/ context.spreadBps > 2 * risk.chaseBps
           \/ ranAway
        THEN Error("REFERENCE_ENTRY_UNAVAILABLE")
        ELSE [ok |-> TRUE,
              low |-> RoundDown(Smaller(anchor, executable) * BPS, tick),
              high |-> RoundUp(Larger(anchor, executable) * BPS, tick),
              price |-> IF bullish THEN RoundUp(executable * BPS, tick)
                        ELSE RoundDown(executable * BPS, tick)]

InvalidationConfidence(type) == IF type = "continuation" THEN 70 ELSE 80

(* derive_invalidation: the level and a buffer against it, rounded away    *)
(* from the entry.                                                         *)
DeriveInvalidation(context, entry, risk) ==
    LET bullish == context.candidate.bullish
        level == context.candidate.level
        tick == context.instrument.tick
        buffer == level * risk.bufferBps + context.atr * risk.bufferAtr * (BPS \div 100)
        price == IF bullish THEN RoundDown(level * BPS - buffer, tick)
                 ELSE RoundUp(level * BPS + buffer, tick)
    IN  IF context.atr = None \/ context.atr <= 0 THEN Error("INVALIDATION_UNAVAILABLE")
        ELSE IF price <= 0 THEN Error("INVALIDATION_UNAVAILABLE")
        ELSE IF ~Against(bullish, price, entry) THEN Error("INVALIDATION_WRONG_SIDE")
        ELSE [ok |-> TRUE, price |-> price,
              confidence |-> InvalidationConfidence(context.candidate.type)]

(* validate_risk_distance: outside the noise, inside proportion.           *)
ValidateRiskDistance(distance, entry, atr, risk) ==
    FirstFailure(
        <<Gate(distance <= 0, "INVALIDATION_WRONG_SIDE"),
          Gate(distance * BPS < risk.minBps * entry, "INVALIDATION_TOO_CLOSE"),
          Gate(distance * BPS > risk.maxBps * entry, "INVALIDATION_TOO_FAR"),
          Gate(distance * 100 < risk.minAtr * atr, "INVALIDATION_TOO_CLOSE"),
          Gate(distance * 100 > risk.maxAtr * atr, "INVALIDATION_TOO_FAR")>>)

MaxTargets == 3

(* The order the targets are tried in: nearest first, ties kept.           *)
Nearer(bullish, a, b) == IF bullish THEN a.price < b.price ELSE a.price > b.price

(* derive_targets: the nearest relevant levels beyond a gap on the         *)
(* profitable side, as a sequence of distinct levels.                      *)
DeriveTargets(context, entry, risk) ==
    LET bullish == context.candidate.bullish
        relevant == {l \in context.levels :
                        l.price > 0 /\ l.relevance >= risk.minRelevance}
        gap == entry * risk.minBps
        beyond == {l \in relevant :
                    IF bullish THEN l.price * BPS > entry * BPS + gap
                    ELSE l.price * BPS < entry * BPS - gap}
        Place(l) == 1 + Cardinality({o \in beyond :
                            \/ Nearer(bullish, o, l)
                            \/ o.price = l.price /\ o.rank < l.rank})
    IN  IF relevant = {} THEN Error("REFERENCE_TARGET_UNAVAILABLE")
        ELSE IF beyond = {} THEN Error("TARGET_WRONG_SIDE")
        ELSE [ok |-> TRUE,
              levels |-> [i \in 1 .. Smaller(MaxTargets, Cardinality(beyond)) |->
                            CHOOSE l \in beyond : Place(l) = i]]

-----------------------------------------------------------------------------
(* The virtual position *)

Budget(risk) == risk.account * risk.riskBps

(* size_reference_position: never more than the budget at the              *)
(* invalidation, and never more than the notional cap.                     *)
SizeReferencePosition(instrument, entry, distance, risk) ==
    LET wanted == Budget(risk) \div (distance * BPS)
        quantity == IF wanted * entry > risk.maxNotional
                    THEN risk.maxNotional \div entry ELSE wanted
    IN  IF wanted <= 0 THEN Error("REFERENCE_QUANTITY_INVALID")
        ELSE IF wanted * entry < instrument.minNotional
        THEN Error("MIN_NOTIONAL_VIOLATION")
        ELSE IF quantity <= 0 THEN Error("REFERENCE_QUANTITY_INVALID")
        ELSE IF quantity * entry < instrument.minNotional
        THEN Error("MIN_NOTIONAL_VIOLATION")
        ELSE [ok |-> TRUE, quantity |-> quantity, notional |-> quantity * entry]

(* The tier with the highest bound that the notional reaches; of two with  *)
(* the same bound the later one.                                           *)
TierCap(instrument, notional) ==
    LET tiers == instrument.tiers
        reached == {i \in DOMAIN tiers :
                        notional >= tiers[i].bound /\ tiers[i].maxLeverage > 0}
        highest == {i \in reached : \A j \in reached : tiers[j].bound <= tiers[i].bound}
    IN  IF reached = {} THEN None ELSE tiers[Max(highest)].maxLeverage

(* The margin rates, public or approximated by an explicit choice.         *)
ResolveRates(instrument, risk) ==
    LET Plausible(initial, maintenance) ==
            0 < maintenance /\ maintenance < initial /\ initial < BPS
        Rates(initial, maintenance, approximated) ==
            [ok |-> TRUE, initial |-> initial, maintenance |-> maintenance,
             approximated |-> approximated]
    IN  IF instrument.initial # None /\ instrument.maintenance # None
        THEN IF Plausible(instrument.initial, instrument.maintenance)
             THEN Rates(instrument.initial, instrument.maintenance, FALSE)
             ELSE Error("MARGIN_MODEL_UNAVAILABLE")
        ELSE IF instrument.maintenance # None THEN Error("MARGIN_MODEL_UNAVAILABLE")
        ELSE IF instrument.initial # None
        THEN Error("MAINTENANCE_MARGIN_UNAVAILABLE")
        ELSE IF ~risk.approximated THEN Error("MARGIN_MODEL_UNAVAILABLE")
        ELSE IF Plausible(risk.approxInitial, risk.approxMaintenance)
        THEN Rates(risk.approxInitial, risk.approxMaintenance, TRUE)
        ELSE Error("CONFIGURATION_INVALID")

(* The modelled liquidation, in 1 / BPS, anchored at a price; the inverse  *)
(* leverage is rounded against the plan.                                   *)
LiquidationFrom(anchor, leverage, bullish, rates, risk) ==
    LET shift == ((BPS * 100) \div leverage) - rates.maintenance - risk.stressBps
    IN  anchor * (IF bullish THEN BPS - shift ELSE BPS + shift)

(* Mutant: only the entry anchors the liquidation.                         *)
EntryLiquidation(entry, mark, leverage, bullish, rates, risk) ==
    LiquidationFrom(entry, leverage, bullish, rates, risk)

(* build_margin_model: of the entry's and the mark's liquidation the one   *)
(* closer to the position.                                                 *)
Liquidation(entry, mark, leverage, bullish, rates, risk) ==
    LET atEntry == LiquidationFrom(entry, leverage, bullish, rates, risk)
        atMark == LiquidationFrom(mark, leverage, bullish, rates, risk)
    IN  IF bullish THEN Larger(atEntry, atMark) ELSE Smaller(atEntry, atMark)

(* check_liquidation_buffer: how far behind the invalidation it lies.      *)
BufferAbs(invalidation, liquidation, bullish) ==
    IF bullish THEN invalidation * BPS - liquidation ELSE liquidation - invalidation * BPS

BufferSufficient(buffer, mark, atr, risk) ==
    /\ buffer > 0
    /\ buffer >= risk.liquidationBps * mark
    /\ atr # None /\ atr > 0
    /\ buffer >= risk.liquidationAtr * atr * (BPS \div 100)

(* The leverage caps: settings, market, tier, volatility, spread, funding. *)
LeverageCap(context, notional, risk) ==
    LET instrument == context.instrument
        tier == TierCap(instrument, notional)
        market == Smaller(risk.maxLeverage, 100 * instrument.maxLeverage)
        tiered == IF tier # None THEN Smaller(market, 100 * tier) ELSE market
        Reduced(cap, by, applies) ==
            IF applies THEN Smaller(cap, Larger(100, cap - by)) ELSE cap
        thin == context.funding.current = None \/ Len(context.funding.history) < 3
    IN  Reduced(Reduced(Reduced(tiered, 100, context.candidate.volatile),
                        50, context.spreadBps # None /\ context.spreadBps > 10),
                50, thin)

LeverageSteps(cap) == ({cap - 50 * k : k \in 0 .. 4} \cap (100 .. 300)) \cup {100}

(* How far behind the invalidation a leverage liquidates.                  *)
LiquidationBuffer(context, entry, invalidation, leverage, rates, risk) ==
    BufferAbs(invalidation,
              Liquidation(entry, context.instrument.mark, leverage,
                          context.candidate.bullish, rates, risk),
              context.candidate.bullish)

(* The steps that the initial margin allows and whose liquidation stays    *)
(* behind the invalidation.                                                *)
SuitableLeverages(context, entry, invalidation, cap, rates, risk) ==
    {leverage \in LeverageSteps(cap) :
        /\ leverage * rates.initial <= 100 * BPS
        /\ BufferSufficient(
                LiquidationBuffer(context, entry, invalidation, leverage, rates, risk),
                context.instrument.mark, context.atr, risk)}

Leveraged(context, entry, invalidation, leverage, rates, risk) ==
    [ok |-> TRUE, leverage |-> leverage, rates |-> rates,
     buffer |-> LiquidationBuffer(context, entry, invalidation, leverage, rates, risk)]

LargestLeverage(context, entry, invalidation, suitable, rates, risk) ==
    IF suitable = {} THEN Error("LIQUIDATION_BUFFER_INSUFFICIENT")
    ELSE Leveraged(context, entry, invalidation, Max(suitable), rates, risk)

LeverageAt(context, entry, invalidation, notional, rates, risk) ==
    IF ~rates.ok THEN rates
    ELSE LargestLeverage(context, entry, invalidation,
            SuitableLeverages(context, entry, invalidation,
                LeverageCap(context, notional, risk), rates, risk),
            rates, risk)

(* determine_leverage_suitability: the largest suitable step.              *)
LeverageSuitability(context, entry, invalidation, notional, risk) ==
    IF ~risk.isolatedOnly THEN Error("CONFIGURATION_INVALID")
    ELSE IF context.instrument.mark = None THEN Error("INSTRUMENT_RISK_DATA_MISSING")
    ELSE LeverageAt(context, entry, invalidation, notional,
                    ResolveRates(context.instrument, risk), risk)

-----------------------------------------------------------------------------
(* Gates on the economics, and the score *)

(* validate_cost_estimate: no score can make up for these.                 *)
ValidateCostEstimate(costs, risk) ==
    LET primary == costs.targets[1]
    IN  FirstFailure(
            <<Gate(costs.loss.gross <= 0, "INVALIDATION_WRONG_SIDE"),
              Gate(costs.loss.net <= 0, "EVALUATION_ERROR"),
              Gate(costs.funding.cost * 100 > risk.maxCostPct * costs.loss.gross,
                   "FUNDING_COST_EXCESSIVE"),
              Gate(primary.net <= 0, "NET_TARGET_NON_POSITIVE"),
              Gate(primary.net * 10 < risk.minNetRR * costs.loss.net,
                   "NET_RR_BELOW_THRESHOLD"),
              Gate(costs.frictions * 100 > risk.maxCostPct * costs.loss.gross,
                   "COST_TO_RISK_EXCESSIVE")>>)

Clamp(percent) == Larger(0, Smaller(100, percent))

(* compute_eligibility_score: the fraction of each component, in percent.  *)
Fraction(component, plan, context, risk) ==
    LET costs == plan.costs
        Share(cost) == (cost * 100) \div costs.loss.gross
        Unused(cost) == Clamp(100 - ((Share(cost) * 100) \div risk.maxCostPct))
        sweet == /\ plan.distance >= context.atr
                 /\ plan.distance * 2 <= context.atr * 5
    IN  IF component = "invalidation_quality"
        THEN Clamp(IF sweet THEN plan.invalidation.confidence
                   ELSE (plan.invalidation.confidence * 70) \div 100)
        ELSE IF component = "target_quality"
        THEN Clamp(plan.targets[1].relevance + 10 * (Len(plan.targets) - 1))
        ELSE IF component = "net_rr"
        THEN Clamp(((costs.targets[1].net \div (costs.loss.net \div 100)) * 10)
                        \div risk.minNetRR - 50)
        ELSE IF component = "executability" THEN Unused(costs.slippage)
        ELSE IF component = "cost_quality" THEN Unused(costs.frictions)
        ELSE IF component = "margin_buffer"
        THEN IF risk.liquidationBps = 0 THEN 0
             ELSE Clamp(((plan.leverage.buffer \div context.instrument.mark) * 100)
                            \div (2 * risk.liquidationBps))
        ELSE Clamp(100 - (IF plan.leverage.rates.approximated THEN 40 ELSE 0)
                       - (IF costs.funding.modelled THEN 0 ELSE 30)
                       - (IF costs.funding.thin THEN 10 ELSE 0))

EligibilityScore(plan, context, risk) ==
    (MapThenSumSet(LAMBDA c : risk.weights[c] * Fraction(c, plan, context, risk),
                   ScoreComponents) + 50) \div 100

-----------------------------------------------------------------------------
(* evaluate_candidate *)

(* build_plan: the parts of the plan, valid no longer than the candidate.  *)
Plan(context, entry, invalidation, targets, position, leverage, costs, risk) ==
    [ok |-> TRUE, entry |-> entry, invalidation |-> invalidation,
     distance |-> Distance(entry.price, invalidation.price),
     targets |-> targets.levels, position |-> position, leverage |-> leverage,
     costs |-> costs,
     expiryAt |-> Smaller(context.asOf + risk.expirySeconds,
                          context.candidate.expiryAt)]

Scored(plan, context, risk) ==
    IF EligibilityScore(plan, context, risk) < risk.minScore
    THEN Error("ELIGIBILITY_SCORE_BELOW_THRESHOLD") ELSE plan

Costed(context, risk, entry, invalidation, targets, position, leverage, costs) ==
    IF ~costs.ok THEN costs
    ELSE LET economical == ValidateCostEstimate(costs, risk)
         IN  IF ~economical.ok THEN economical
             ELSE Scored(Plan(context, entry, invalidation, targets, position,
                              leverage, costs, risk),
                         context, risk)

Carried(context, risk, entry, invalidation, targets, position, leverage) ==
    IF ~leverage.ok THEN leverage
    ELSE Costed(context, risk, entry, invalidation, targets, position, leverage,
            EstimateCosts(context.candidate.bullish, entry.price, invalidation.price,
                [i \in DOMAIN targets.levels |-> targets.levels[i].price],
                position.quantity, context.book, context.funding))

Sized(context, risk, entry, invalidation, targets, position) ==
    IF ~position.ok THEN position
    ELSE Carried(context, risk, entry, invalidation, targets, position,
            LeverageSuitability(context, entry.price, invalidation.price,
                                position.notional, risk))

Targeted(context, risk, entry, invalidation, targets, distance) ==
    IF ~targets.ok THEN targets
    ELSE Sized(context, risk, entry, invalidation, targets,
            SizeReferencePosition(context.instrument, entry.price, distance, risk))

Framed(context, risk, entry, invalidation, distance) ==
    LET framed == ValidateRiskDistance(distance, entry.price, context.atr, risk)
    IN  IF ~framed.ok THEN framed
        ELSE Targeted(context, risk, entry, invalidation,
                      DeriveTargets(context, entry.price, risk), distance)

Invalidated(context, risk, entry, invalidation) ==
    IF ~invalidation.ok THEN invalidation
    ELSE Framed(context, risk, entry, invalidation,
                Distance(entry.price, invalidation.price))

Zoned(context, risk, entry) ==
    IF ~entry.ok THEN entry
    ELSE Invalidated(context, risk, entry,
                     DeriveInvalidation(context, entry.price, risk))

EvaluateUnder(context, risk) ==
    LET gates == FirstFailure(HardGates(context, risk))
    IN  IF ~gates.ok THEN gates ELSE Zoned(context, risk, DeriveEntryZone(context, risk))

(* evaluate_candidate: gate, entry zone, invalidation, distance, targets,  *)
(* position, leverage, costs and score, each only behind the one before.   *)
EvaluateCandidate(context) ==
    EvaluateUnder(context, EffectiveRiskSettings(context.candidate.assetClass))

=============================================================================
