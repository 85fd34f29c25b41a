-------------------------- MODULE MCShadowSimulation ---------------------------
(***************************************************************************)
(* Small instances of ShadowSimulation: a plan of two units on a book of   *)
(* two levels, which may be good or stale when a leg is modelled.          *)
(***************************************************************************)
EXTENDS ShadowSimulation

CONSTANTS s1, s2, s3

MCCosts ==
    [engineEnabled |-> TRUE, slippageEnabled |-> TRUE, requireFreshBook |-> TRUE,
     fundingEnabled |-> TRUE, requireFundingData |-> TRUE,
     overnightBlocked |-> TRUE,
     entryMode |-> "ENTRY_TAKER", targetMode |-> "TARGET_TAKER",
     invalidationMode |-> "STOP_STRESS_TAKER", maxLevels |-> 2, lookback |-> 72,
     holdMinutes |-> 240, maxDistance |-> 1000, entryStress |-> 2,
     targetStress |-> 2, invalidationStress |-> 8, maxSlippageToRisk |-> 50,
     fundingBuffer |-> 1, costBuffer |-> 1, fundingInterval |-> 1,
     makerFee |-> 2, takerFee |-> 7, percentile |-> 75]

MCShadow ==
    [modeEnabled |-> TRUE, requireFunding |-> TRUE, requireCompleteCosts |-> TRUE,
     allowPartial |-> FALSE, partialPct |-> 50, unmodeledExit |-> "MARK_UNMODELED",
     entryAge |-> 30, exitAge |-> 60, delayModel |-> "FIXED_SECONDS",
     delayFixed |-> 20, delayMin |-> 10, delayMax |-> 30]

MCPlan == [bullish |-> TRUE, reference |-> 101, quantity |-> 2, risk |-> 10]

(* A lifecycle is confirmed and then invalidated.                          *)
MCFollows ==
    [state \in TerminalStates \cup {"ENTRY_WATCH", "ENTRY_CONFIRMED"} |->
        CASE state = "ENTRY_WATCH" -> {"ENTRY_CONFIRMED"}
          [] state = "ENTRY_CONFIRMED" -> {"INVALIDATED"}
          [] OTHER -> {}]

MCPlanOf == [s \in Signals |-> IF s = s3 THEN None ELSE MCPlan]

GoodMarket ==
    [quality |-> TRUE, session |-> TRUE, at |-> 100, quoteAt |-> 100, bookAt |-> 90,
     book |-> [fresh |-> TRUE,
               asks |-> <<[price |-> 101, quantity |-> 1], [price |-> 102, quantity |-> 2]>>,
               bids |-> <<[price |-> 100, quantity |-> 1], [price |-> 99, quantity |-> 2]>>],
     funding |-> [current |-> 1, history |-> <<1, 1, 1>>, next |-> None,
                  fresh |-> TRUE]]

StaleMarket == [GoodMarket EXCEPT !.quoteAt = 60, !.bookAt = 60]

MCMarkets == {GoodMarket, StaleMarket}

=============================================================================
