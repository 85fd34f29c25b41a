--------------------------- MODULE SimulationEngine ----------------------------
(***************************************************************************)
(* The pure simulation core (src/app/simulation): one hypothetical delayed *)
(* follower of a lifecycle, from the admission gates through the modelled  *)
(* entry, partial reduction, exit and funding to the result.  Shadow mode  *)
(* and the backtest use the same core.  Money is counted as in CostModel.  *)
(***************************************************************************)
EXTENDS CostModel

CONSTANT
    Shadow      \* the shadow simulation settings

DelayModels ==
    {"FIXED_SECONDS", "UNIFORM_RANGE_SECONDS", "LOGNORMAL_DELAY",
     "EVENT_TIMESTAMP_ONLY"}

MaxModelledDelay == 3600

(* What the validators of the settings class accept.                       *)
ShadowSettings ==
    [modeEnabled : BOOLEAN, requireFunding : BOOLEAN,
     requireCompleteCosts : BOOLEAN, allowPartial : BOOLEAN,
     partialPct : 1 .. 99, unmodeledExit : {"REJECT", "MARK_UNMODELED"},
     entryAge : Nat \ {0}, exitAge : Nat \ {0},
     delayModel : DelayModels, delayFixed : Nat, delayMin : Nat,
     delayMax : Nat]

ASSUME ShadowAssumption ==
    Shadow \in ShadowSettings /\ Shadow.delayMin <= Shadow.delayMax

-----------------------------------------------------------------------------
(* What the lifecycle tells *)

NoExit == "no exit"

ExitReasons ==
    {"TARGET_1_OBSERVED", "TARGET_2_OBSERVED", "TECHNICAL_EXIT_CONDITION",
     "INVALIDATION_CONDITION", "EXPIRED", "SUPERSEDED", "DATA_INVALID",
     "SESSION_POLICY_END", "LIFECYCLE_TERMINAL"}

ExitReasonForEvent(event) ==
    CASE event = "TARGET_1_REACHED" -> "TARGET_1_OBSERVED"
      [] event = "TARGET_2_REACHED" -> "TARGET_2_OBSERVED"
      [] event = "TECHNICAL_EXIT"   -> "TECHNICAL_EXIT_CONDITION"
      [] event = "INVALIDATED"      -> "INVALIDATION_CONDITION"
      [] event = "PAUSED"           -> "SESSION_POLICY_END"
      [] event \in {"EXPIRED", "SUPERSEDED", "DATA_INVALID"} -> event
      [] OTHER -> NoExit

TerminalStates ==
    {"TECHNICAL_EXIT", "INVALIDATED", "EXPIRED", "SUPERSEDED", "REJECTED",
     "DATA_INVALID"}

AdmissibleStates == {"ENTRY_CONFIRMED", "ACTIVE_RESEARCH"}

(* Lifecycles a shadow run picks up once their entry is confirmed.         *)
SourceStates ==
    AdmissibleStates \cup {"TARGET_1_REACHED", "TARGET_2_REACHED",
                           "TRAILING_RESEARCH"} \cup TerminalStates

(* The exit of an audit trail: the last exit event behind the first entry, *)
(* or what the terminal state says when the trail shows none.              *)
ExitOf(trail, state) ==
    LET entries == {i \in DOMAIN trail : trail[i] = "ENTRY_CONFIRMED"}
        exits == {i \in DOMAIN trail :
                    /\ ExitReasonForEvent(trail[i]) # NoExit
                    /\ \E j \in entries : j < i}
    IN  IF exits # {} THEN ExitReasonForEvent(trail[Max(exits)])
        ELSE IF state = "REJECTED" THEN "LIFECYCLE_TERMINAL"
        ELSE IF state \in TerminalStates THEN ExitReasonForEvent(state)
        ELSE NoExit

(* The delays the model may draw, in seconds.                              *)
Delays ==
    LET drawn == CASE Shadow.delayModel = "EVENT_TIMESTAMP_ONLY" -> {0}
                   [] Shadow.delayModel = "FIXED_SECONDS" -> {Shadow.delayFixed}
                   [] Shadow.delayModel = "UNIFORM_RANGE_SECONDS" ->
                        Shadow.delayMin .. Shadow.delayMax
                   [] OTHER -> 0 .. MaxModelledDelay
    IN  {Smaller(d, MaxModelledDelay) : d \in drawn}

-----------------------------------------------------------------------------
(* Admission *)

(* The gates in the order of check_admission, each with its code.          *)
Gates(in) ==
    <<<<Shadow.modeEnabled, "SIMULATION_DISABLED">>,
      <<~in.paused, "BOT_PAUSED">>,
      <<in.state \in AdmissibleStates, "LIFECYCLE_NOT_ELIGIBLE">>,
      <<in.planAudit, "PLAN_AUDIT_MISSING">>,
      <<in.candidateAudit, "CANDIDATE_AUDIT_MISSING">>,
      <<~in.duplicate, "DUPLICATE_SIMULATION">>,
      <<in.sessionAllowed, "SESSION_NOT_ALLOWED">>,
      <<in.dataQuality, "ENTRY_BOOK_STALE">>,
      <<in.fee, "FEE_SCHEDULE_UNAVAILABLE">>,
      <<in.quantity > 0 /\ in.risk > 0, "CONFIGURATION_INVALID">>>>

Admitted(in) == \A i \in DOMAIN Gates(in) : Gates(in)[i][1]

AdmissionCode(in) ==
    Gates(in)[Min({i \in DOMAIN Gates(in) : ~Gates(in)[i][1]})][2]

-----------------------------------------------------------------------------
(* Modelled legs *)

(* What a simulation is told of a plan and of the market at an instant.    *)
SimulationPlanReference ==
    [bullish : BOOLEAN, reference : Nat \ {0}, quantity : Nat, risk : Nat]

MarketReferenceSnapshot ==
    [quality : BOOLEAN, session : BOOLEAN, at : Nat,
     quoteAt : Nat \cup {None}, bookAt : Nat \cup {None},
     book : OrderbookDepthSnapshot, funding : FundingSnapshot \cup {None}]

Age(market) ==
    LET stamps == {market.quoteAt, market.bookAt} \ {None}
    IN  IF stamps = {} THEN None ELSE Larger(0, market.at - Max(stamps))

(* A modelled value against the touch, with its fee.                       *)
Execution(at, quantity, mode, value, touch) ==
    IF value <= 0 THEN Error("SIMULATION_ERROR")
    ELSE [ok |-> TRUE, at |-> at, quantity |-> quantity,
          value |-> value, touch |-> touch, slippage |-> Distance(value, touch),
          fee |-> CeilDiv(value * FeeRate(mode), BPS)]

ExecutionOnWalk(at, entering, bullish, quantity, mode, walk, best, thin) ==
    LET leg == IF entering THEN "entry" ELSE "invalidation"
    IN  IF ~FullyFilled(walk) THEN Error(thin)
        ELSE Execution(at, quantity, mode,
                walk.value
                    * (BPS + AdverseSign(entering, bullish) * StressFor(leg, mode)),
                best * quantity * BPS)

(* model_execution: the walk's value and the stress, against the position. *)
ModelExecution(market, entering, bullish, quantity, mode, maxAge, stale, thin) ==
    IF quantity <= 0 THEN Error("CONFIGURATION_INVALID")
    ELSE IF ~market.book.fresh \/ Age(market) = None THEN Error(stale)
    ELSE IF Age(market) > maxAge THEN Error(stale)
    ELSE LET side == Side(market.book, entering, bullish)
         IN  ExecutionOnWalk(market.at, entering, bullish, quantity, mode,
                WalkBook(side, market.book.fresh, quantity), side[1].price, thin)

(* The slippage against the reference is capped by the technical risk.     *)
CappedEntry(in, entry) ==
    LET worse == (entry.value - in.reference * in.quantity * BPS)
                    * (IF in.bullish THEN 1 ELSE -1)
    IN  IF ~entry.ok THEN entry
        ELSE IF in.risk > 0 /\ worse * 100
                > Costs.maxSlippageToRisk * in.risk * in.quantity * BPS
        THEN Error("ENTRY_SLIPPAGE_EXCESSIVE")
        ELSE entry

(* model_entry: at the delayed instant.                                    *)
ModelEntry(in) ==
    IF ~in.fee THEN Error("FEE_SCHEDULE_UNAVAILABLE")
    ELSE IF in.entryMarket = None THEN Error("ENTRY_DELAY_DATA_UNAVAILABLE")
    ELSE IF ~in.entryMarket.quality THEN Error("ENTRY_BOOK_STALE")
    ELSE CappedEntry(in,
            ModelExecution(in.entryMarket, TRUE, in.bullish, in.quantity,
                Costs.entryMode, Shadow.entryAge, "ENTRY_BOOK_STALE",
                "ENTRY_BOOK_INSUFFICIENT_DEPTH"))

ExitMode(reason) ==
    IF reason \in {"INVALIDATION_CONDITION", "TECHNICAL_EXIT_CONDITION",
                   "DATA_INVALID"}
    THEN Costs.invalidationMode ELSE Costs.targetMode

ModelExit(in, quantity, mode) ==
    ModelExecution(in.exitMarket, FALSE, in.bullish, quantity, mode,
                   Shadow.exitAge, "EXIT_BOOK_STALE",
                   "EXIT_BOOK_INSUFFICIENT_DEPTH")

(* model_exit checks the schedule and the market before the walk.          *)
Exit(in, quantity) ==
    IF ~in.fee THEN Error("FEE_SCHEDULE_UNAVAILABLE")
    ELSE IF in.exitMarket = None THEN Error("EXIT_BOOK_STALE")
    ELSE IF ~in.exitMarket.quality THEN Error("EXIT_BOOK_STALE")
    ELSE ModelExit(in, quantity, ExitMode(in.exit))

(* The share that a partial reduction takes, in whole units of quantity.   *)
PartialQuantity(in) == (in.quantity * Shadow.partialPct) \div 100

NoPartial == [ok |-> TRUE, quantity |-> 0, value |-> 0, touch |-> 0,
              slippage |-> 0, fee |-> 0]

(* model_partial_reduction: tried for every reason but the first target.   *)
Partial(in) ==
    IF \/ in.exit = "TARGET_1_OBSERVED"
       \/ ~Shadow.allowPartial
       \/ PartialQuantity(in) <= 0
    THEN NoPartial
    ELSE IF ~in.fee \/ in.exitMarket = None THEN Error("EXIT_BOOK_STALE")
    ELSE ModelExit(in, PartialQuantity(in), Costs.targetMode)

-----------------------------------------------------------------------------
(* Funding and the result *)

(* Without a projection the policy decides.                                *)
FundingOr(projection) ==
    IF projection.ok THEN projection
    ELSE IF Shadow.requireFunding THEN Error("FUNDING_UNAVAILABLE")
    ELSE [ok |-> TRUE, modelled |-> FALSE, cost |-> 0]

(* model_funding over the modelled holding time, at least one minute.      *)
Funding(in, seconds, notional) ==
    FundingOr(IF in.funding = None THEN Error("FUNDING_UNAVAILABLE")
              ELSE ProjectFunding(in.funding, in.bullish,
                        Larger(1, CeilDiv(Larger(0, seconds), 60)), notional))

Rejected(code) == [state |-> "REJECTED", code |-> code]

(* The cost completeness of a closed simulation.                           *)
Completeness(funding, warned) ==
    IF Shadow.requireCompleteCosts /\ ~funding.modelled THEN "INSUFFICIENT"
    ELSE IF funding.modelled /\ ~warned THEN "COMPLETE" ELSE "PARTIAL"

(* The result of a closed simulation: gross_result of the modelled prices, *)
(* less the sum of cost_breakdown.                                         *)
ClosedResult(sign, entry, exit, partial, funding, completeness) ==
    LET gross == sign * (exit.value + partial.value - entry.value)
        fees == entry.fee + exit.fee + partial.fee
        slippage == entry.slippage + exit.slippage + partial.slippage
    IN  [state |-> IF completeness = "INSUFFICIENT" THEN "INCOMPLETE"
                   ELSE "CLOSED_SIMULATION",
         completeness |-> completeness,
         gross |-> gross, fees |-> fees, slippage |-> slippage,
         funding |-> funding.cost,
         net |-> gross - fees - slippage - funding.cost,
         touch |-> sign * (exit.touch + partial.touch - entry.touch)]

Settled(in, entry, exit, partial, warned, funding) ==
    IF ~funding.ok THEN Rejected(funding.code)
    ELSE ClosedResult(IF in.bullish THEN 1 ELSE -1, entry, exit, partial, funding,
                      Completeness(funding, warned \/ ~funding.modelled))

(* An exit that cannot be modelled rejects the simulation, or marks it.    *)
Exited(in, entry, partial, warned, exit) ==
    IF exit.ok
    THEN Settled(in, entry, exit, partial, warned,
                 Funding(in, Larger(0, exit.at - entry.at), entry.value))
    ELSE IF Shadow.unmodeledExit = "REJECT" THEN Rejected(exit.code)
    ELSE [state |-> "UNMODELED_EXIT", completeness |-> "INSUFFICIENT"]

Reduced(in, entry, partial, warned) ==
    Exited(in, entry, partial, warned, Exit(in, in.quantity - partial.quantity))

(* A reduction that cannot be modelled is a warning.                       *)
Tried(in, entry, partial) ==
    Reduced(in, entry, IF partial.ok THEN partial ELSE NoPartial, ~partial.ok)

Entered(in, entry) ==
    IF ~entry.ok THEN Rejected(entry.code)
    ELSE IF in.exit = NoExit
    THEN [state |-> "OPEN_SIMULATION", completeness |-> "PARTIAL"]
    ELSE Tried(in, entry, Partial(in))

(* simulate: the outcome of one lifecycle.                                 *)
Simulate(in) ==
    IF Admitted(in) THEN Entered(in, ModelEntry(in)) ELSE Rejected(AdmissionCode(in))

=============================================================================
