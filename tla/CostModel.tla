------------------------------ MODULE CostModel -------------------------------
(***************************************************************************)
(* The cost engine (src/app/costs): what a leg of a hypothetical plan      *)
(* would cost on a public order book.  Prices and quantities are integers, *)
(* rates are basis points, and money is counted in units of 1 / BPS of a   *)
(* price unit so that a rate applies without rounding.  Every result is a  *)
(* record, or an Error with the code of the exception the code raises.     *)
(***************************************************************************)
EXTENDS Absence, Integers, Sequences, FiniteSetsExt

CONSTANT Costs      \* the cost settings

BPS == 10000

Legs == {"entry", "target", "invalidation"}

ExecutionModes ==
    {"ENTRY_TAKER", "ENTRY_MAKER", "TARGET_TAKER", "TARGET_MAKER",
     "STOP_TAKER", "STOP_STRESS_TAKER"}

(* What the validators of the settings class accept.                       *)
CostSettings ==
    [engineEnabled : BOOLEAN, slippageEnabled : BOOLEAN,
     requireFreshBook : BOOLEAN, fundingEnabled : BOOLEAN,
     requireFundingData : BOOLEAN,
     overnightBlocked : BOOLEAN,
     entryMode : {"ENTRY_TAKER", "ENTRY_MAKER"},
     targetMode : {"TARGET_TAKER", "TARGET_MAKER"},
     invalidationMode : {"STOP_TAKER", "STOP_STRESS_TAKER"},
     maxLevels : Nat \ {0}, lookback : Nat \ {0}, holdMinutes : Nat \ {0},
     maxDistance : Nat, entryStress : Nat, targetStress : Nat,
     invalidationStress : Nat, maxSlippageToRisk : Nat,
     fundingBuffer : Nat, costBuffer : Nat, fundingInterval : Nat,
     makerFee : 0 .. 500, takerFee : 0 .. 500, percentile : 50 .. 100]

ASSUME CostsAssumption == Costs \in CostSettings

Smaller(a, b) == IF a <= b THEN a ELSE b
Larger(a, b) == IF a >= b THEN a ELSE b
Distance(a, b) == Larger(a - b, b - a)
CeilDiv(a, b) == (a + b - 1) \div b

Error(code) == [ok |-> FALSE, code |-> code]

-----------------------------------------------------------------------------
(* Walking one side of the book *)

DepthLevel == [price : Nat \ {0}, quantity : Nat \ {0}]

(* Asks by ascending and bids by descending price; a book that is not      *)
(* fresh must not be walked.                                               *)
OrderbookDepthSnapshot ==
    {book \in [fresh : BOOLEAN, asks : Seq(DepthLevel), bids : Seq(DepthLevel)] :
        /\ \A i, j \in DOMAIN book.asks :
                i < j => book.asks[i].price < book.asks[j].price
        /\ \A i, j \in DOMAIN book.bids :
                i < j => book.bids[i].price > book.bids[j].price}

WithinDistance(price, reference) ==
    Distance(price, reference) * BPS <= Costs.maxDistance * reference

(* The levels that count: the first maxLevels, up to the first that is too *)
(* far from the best price.                                                *)
Window(levels) ==
    {i \in 1 .. Smaller(Len(levels), Costs.maxLevels) :
        \A j \in 1 .. i : WithinDistance(levels[j].price, levels[1].price)}

(* What the walk has taken with one more level.                            *)
Take(level, quantity, before) ==
    LET take == Smaller(level.quantity, quantity - before.filled)
    IN  [filled |-> before.filled + take, value |-> before.value + take * level.price]

(* walk_book: how much the fresh side fills, and its modelled value.       *)
WalkBook(levels, fresh, quantity) ==
    LET window == IF fresh /\ quantity > 0 THEN Window(levels) ELSE {}
        walked[i \in 0 .. Len(levels)] ==
            IF i = 0 THEN [filled |-> 0, value |-> 0]
            ELSE IF i \in window THEN Take(levels[i], quantity, walked[i - 1])
            ELSE walked[i - 1]
        taken == walked[Len(levels)]
    IN  [filled |-> taken.filled, unfilled |-> quantity - taken.filled,
         value |-> taken.value]

FullyFilled(walk) == walk.unfilled <= 0 /\ walk.filled > 0

Buying(entering, bullish) == entering = bullish

Side(book, entering, bullish) ==
    IF Buying(entering, bullish) THEN book.asks ELSE book.bids

(* +1 when a higher price is worse for the leg.                            *)
AdverseSign(entering, bullish) == IF Buying(entering, bullish) THEN 1 ELSE -1

StressFor(leg, mode) ==
    IF leg = "entry" THEN Costs.entryStress
    ELSE IF leg = "target" THEN Costs.targetStress
    ELSE IF mode = "STOP_STRESS_TAKER" THEN Costs.invalidationStress
    ELSE Smaller(Costs.invalidationStress, Costs.entryStress)

FeeRate(mode) ==
    IF mode \in {"ENTRY_MAKER", "TARGET_MAKER"}
    THEN Costs.makerFee ELSE Costs.takerFee

-----------------------------------------------------------------------------
(* One leg of a plan *)

(* A leg of which a full walk took the notional, given how much worse than *)
(* the reference price it is modelled to be.                               *)
PenalizedLeg(mode, reference, penalty, notional) ==
    IF notional <= 0 THEN Error("SLIPPAGE_MODEL_UNAVAILABLE")
    ELSE [ok |-> TRUE, reference |-> reference, notional |-> notional,
          slippage |-> penalty, fee |-> CeilDiv(notional * FeeRate(mode), BPS)]

(* The relative depth penalty of a walk against its touch, and the stress, *)
(* applied to the value at the reference price and rounded against the     *)
(* plan.                                                                   *)
Penalty(leg, mode, worth, walk, touch) ==
    CeilDiv(worth * Distance(walk.value, touch) * BPS, touch)
        + worth * StressFor(leg, mode)

(* estimate_leg: what the walk of the leg's side of the book costs.        *)
LegOnWalk(leg, mode, bullish, reference, quantity, walk, touch) ==
    IF ~FullyFilled(walk) THEN Error("ORDERBOOK_DEPTH_INSUFFICIENT")
    ELSE LET penalty == Penalty(leg, mode, reference * quantity, walk, touch)
         IN  PenalizedLeg(mode, reference, penalty,
                reference * quantity * BPS
                    + AdverseSign(leg = "entry", bullish) * penalty)

(* estimate_leg: the settings and the book allow an estimate at all.       *)
EstimateLeg(leg, mode, bullish, reference, quantity, book) ==
    IF ~Costs.slippageEnabled \/ reference <= 0 \/ quantity <= 0
    THEN Error("SLIPPAGE_MODEL_UNAVAILABLE")
    ELSE IF Costs.requireFreshBook /\ ~book.fresh THEN Error("ORDERBOOK_NOT_FRESH")
    ELSE LET side == Side(book, leg = "entry", bullish)
         IN  LegOnWalk(leg, mode, bullish, reference, quantity,
                       WalkBook(side, book.fresh, quantity), side[1].price * quantity)

-----------------------------------------------------------------------------
(* Funding *)

(* Longs pay positive rates, shorts negative ones; no income is planned.   *)
AdverseRate(rate, bullish) == Larger(IF bullish THEN rate ELSE -rate, 0)

(* Nearest rank: the smallest value that covers the share of the sample.   *)
Percentile(values, share) ==
    IF values = <<>> THEN 0
    ELSE LET rank == Larger(1, CeilDiv(share * Len(values), 100))
             Rank(v) == Cardinality({i \in DOMAIN values : values[i] <= v})
         IN  CHOOSE v \in {values[i] : i \in DOMAIN values} :
                /\ Rank(v) >= rank
                /\ \A i \in DOMAIN values : Rank(values[i]) >= rank => v <= values[i]

(* Rates are basis points, the next charge is in minutes.                  *)
FundingSnapshot ==
    [current : Int \cup {None}, history : Seq(Int), next : Nat \cup {None},
     fresh : BOOLEAN]

(* How often funding is charged while the position is held.                *)
Intervals(next, holdMinutes) ==
    IF \/ next # None /\ next > holdMinutes
       \/ Costs.fundingInterval = 0
    THEN 0 ELSE CeilDiv(holdMinutes, 60 * Costs.fundingInterval)

(* The adverse rate: the current one or the percentile of the history,     *)
(* whichever is worse.                                                     *)
PlannedRate(funding, bullish) ==
    Larger(IF funding.current = None THEN 0 ELSE AdverseRate(funding.current, bullish),
           Percentile([i \in DOMAIN funding.history |->
                            AdverseRate(funding.history[i], bullish)],
                      Costs.percentile))

(* project_funding: the modelled charges, with the buffer on top when the  *)
(* history is thin, or the buffer alone when there is nothing to go by.    *)
Projected(funding, bullish, holdMinutes, notional, buffer) ==
    IF /\ Costs.fundingEnabled
       /\ funding.current # None \/ funding.history # <<>>
       /\ funding.fresh
    THEN LET thin == Len(funding.history) < 3
         IN  [ok |-> TRUE, modelled |-> TRUE, thin |-> thin /\ buffer > 0,
              cost |-> CeilDiv(notional * PlannedRate(funding, bullish)
                                    * Intervals(funding.next, holdMinutes), BPS)
                       + IF thin THEN buffer ELSE 0]
    ELSE IF /\ Costs.fundingEnabled
            /\ Costs.requireFundingData \/ holdMinutes > 24 * 60
    THEN Error("FUNDING_MODEL_UNAVAILABLE")
    ELSE [ok |-> TRUE, modelled |-> FALSE, thin |-> buffer > 0, cost |-> buffer]

(* project_funding over the modelled holding time.                         *)
ProjectFunding(funding, bullish, holdMinutes, notional) ==
    Projected(funding, bullish, holdMinutes, notional,
              CeilDiv(notional * Costs.fundingBuffer, BPS))

-----------------------------------------------------------------------------
(* The plan as a whole *)

(* What a leg away from the entry earns per plan, before frictions.        *)
Gain(bullish, entry, leg, quantity) ==
    (IF bullish THEN 1 ELSE -1) * (leg.reference - entry.reference) * quantity * BPS

(* The frictions of the entry and of one leg that ends the plan.           *)
Frictions(entry, leg, projection, buffer) ==
    entry.fee + leg.fee + entry.slippage + leg.slippage + projection.cost + buffer

(* invalidation_economics: what an invalidation loses, before and after.   *)
InvalidationEconomics(bullish, entry, invalidation, quantity, projection, buffer) ==
    LET gross == -Gain(bullish, entry, invalidation, quantity)
    IN  [gross |-> gross,
         net |-> gross + Frictions(entry, invalidation, projection, buffer)]

(* target_economics: what a target earns; ratios are left to the plan.     *)
TargetEconomics(bullish, entry, target, quantity, projection, buffer) ==
    LET gross == Gain(bullish, entry, target, quantity)
    IN  [gross |-> gross,
         net |-> gross - Frictions(entry, target, projection, buffer)]

(* estimate_costs: the economics of the legs and their funding, or the     *)
(* first reason why there is no estimate.                                  *)
PlanEconomics(bullish, quantity, entry, invalidation, targets, projection, buffer, loss) ==
    LET failed == {i \in DOMAIN targets : ~targets[i].ok}
    IN  IF loss.gross <= 0 THEN Error("INVALIDATION_WRONG_SIDE")
        ELSE IF failed # {} THEN targets[Min(failed)]
        ELSE IF (entry.slippage + invalidation.slippage) * 100
                > Costs.maxSlippageToRisk * loss.gross
        THEN Error("SLIPPAGE_EXCESSIVE")
        ELSE [ok |-> TRUE, notional |-> entry.notional, loss |-> loss,
              slippage |-> entry.slippage + invalidation.slippage,
              funding |-> projection,
              frictions |-> Frictions(entry, invalidation, projection, buffer),
              targets |-> [i \in DOMAIN targets |->
                TargetEconomics(bullish, entry, targets[i], quantity,
                                projection, buffer)]]

PlanFunding(bullish, quantity, entry, invalidation, targets, projection, buffer) ==
    IF ~projection.ok THEN projection
    ELSE PlanEconomics(bullish, quantity, entry, invalidation, targets, projection, buffer,
            InvalidationEconomics(bullish, entry, invalidation, quantity,
                                  projection, buffer))

PlanLegs(bullish, quantity, entry, invalidation, targets, funding) ==
    IF ~entry.ok THEN entry
    ELSE IF ~invalidation.ok THEN invalidation
    ELSE PlanFunding(bullish, quantity, entry, invalidation, targets,
            ProjectFunding(funding, bullish, Costs.holdMinutes, entry.notional),
            CeilDiv(entry.notional * Costs.costBuffer, BPS))

(* estimate_costs: the entry, the invalidation and the targets of a plan   *)
(* with their frictions.                                                   *)
EstimateCosts(bullish, enter, invalidate, targets, quantity, book, funding) ==
    LET Leg(leg, mode, price) ==
            EstimateLeg(leg, mode, bullish, price, quantity, book)
    IN  IF \/ ~Costs.engineEnabled
           \/ quantity <= 0 \/ enter <= 0 \/ invalidate <= 0
        THEN Error("CONFIGURATION_INVALID")
        ELSE IF targets = <<>> THEN Error("REFERENCE_TARGET_UNAVAILABLE")
        ELSE PlanLegs(bullish, quantity,
                Leg("entry", Costs.entryMode, enter),
                Leg("invalidation", Costs.invalidationMode, invalidate),
                [i \in DOMAIN targets |-> Leg("target", Costs.targetMode, targets[i])],
                funding)

=============================================================================
