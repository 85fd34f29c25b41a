----------------------------- MODULE SelectionRules -----------------------------
(***************************************************************************)
(* Which instruments may be listed (src/app/selection): the class of an    *)
(* instrument, the verdict of its session, its thresholds, the quality of  *)
(* its market and the hard gates.  Spreads and deviations are basis        *)
(* points, depth and volume whole pUSD; a threshold is kept in tenths,     *)
(* points in hundredths.                                                   *)
(***************************************************************************)
EXTENDS Sessions

CONSTANTS
    Selection,      \* MarketSelectionSettings
    Thresholds      \* SelectionThresholdSettings, per class

Classes == {"EQUITY", "INDEX", "CRYPTO", "COMMODITY", "FX", "UNKNOWN"}

(* What a session or a policy may say against an instrument.               *)
Objections ==
    {"CALENDAR_UNAVAILABLE", "WEEKEND_CLOSED", "HOLIDAY_CLOSED", "EARLY_CLOSE_ENDED",
     "SESSION_CLOSED", "DISABLED_BY_POLICY", "ASSET_CLASS_UNSUPPORTED"}

(* Entries that name no class are passed over by the code and left out     *)
(* here; there are thresholds of two classes.                              *)
ASSUME SelectionAssumption ==
    /\ None \notin Objections
    /\ \A category \in DOMAIN Selection.categoryMap :
            Selection.categoryMap[category] \in Classes
    /\ \A i \in DOMAIN Selection.symbolMap : Selection.symbolMap[i] \in Classes
    /\ DOMAIN Selection.policies \subseteq Classes
    /\ Selection.allowedClasses \subseteq Classes
    /\ Selection.flags \in
        [requireVolume : BOOLEAN, requireFresh : BOOLEAN, allowDegraded : BOOLEAN,
         minScore : 0 .. 100]
    /\ \A class \in {"EQUITY", "CRYPTO"} :
            Thresholds[class] \in [spread : Int, depth : Int, volume : Int, deviation : Int]
    /\ \A i \in DOMAIN Selection.overrides :
        \A limit \in DOMAIN Selection.overrides[i] \cap {"spread", "depth", "volume"} :
            Selection.overrides[i][limit] \in Int

(* What a cycle may read: a row, and what the feed has of the instrument.  *)
Rows ==
    [category : STRING, enabled : BOOLEAN,
     status : {"ACTIVE", "INACTIVE", "DELISTED", "UNKNOWN"}]

Age == {"FRESH", "AGING", "STALE", "INVALID", "RESYNCING", "UNKNOWN"}

Feeds ==
    [quality : {"HEALTHY", "DEGRADED", "DATA_STALE", "DATA_INVALID",
                "ORDERBOOK_RESYNCING", "UNAVAILABLE", None},
     reliable : BOOLEAN, bookAge : Age, bid : {None} \cup Nat, ask : {None} \cup Nat,
     mid : {None} \cup Int, spread : {None} \cup Nat, quote : {None} \cup Nat,
     quoteAge : Age, mark : {None} \cup Int, index : {None} \cup Int,
     volume : {None} \cup Int, statisticsAge : Age]

(* The category of the metadata decides, then the symbol.                  *)
Classify(i, row) ==
    IF row.category \in DOMAIN Selection.categoryMap
    THEN Selection.categoryMap[row.category]
    ELSE IF i \in DOMAIN Selection.symbolMap THEN Selection.symbolMap[i]
    ELSE "UNKNOWN"

EquityVerdict(equity) ==
    IF ~equity.available THEN "CALENDAR_UNAVAILABLE"
    ELSE IF equity.state = "EQUITY_WEEKEND" THEN "WEEKEND_CLOSED"
    ELSE IF equity.state = "EQUITY_HOLIDAY" THEN "HOLIDAY_CLOSED"
    ELSE IF equity.allowed THEN None
    ELSE IF equity.early /\ equity.state \in {"EQUITY_AFTER_HOURS", "EQUITY_CLOSED"}
    THEN "EARLY_CLOSE_ENDED"
    ELSE "SESSION_CLOSED"

PolicyBlock(class) ==
    IF class \in DOMAIN Selection.policies
    THEN IF Selection.policies[class] THEN None ELSE "DISABLED_BY_POLICY"
    ELSE IF class = "UNKNOWN" THEN "ASSET_CLASS_UNSUPPORTED"
    ELSE IF class \in Selection.allowedClasses THEN None ELSE "DISABLED_BY_POLICY"

(* What the session, and then the policy, says against a class.            *)
Verdict(class, t) ==
    LET session == IF class = "EQUITY" THEN EquityVerdict(EvaluateEquity(t))
                   ELSE IF EvaluateCrypto(t).allowed THEN None ELSE "SESSION_CLOSED"
    IN  IF session = None THEN PolicyBlock(class) ELSE session

ThinLiquidity(class, t) == class # "EQUITY" /\ EvaluateCrypto(t).limited

(* What the overrides of instrument i say, or else the defaults.           *)
Overridden(i, defaults, name) ==
    IF i \notin DOMAIN Selection.overrides THEN defaults[name]
    ELSE IF name \in DOMAIN Selection.overrides[i] THEN Selection.overrides[i][name]
    ELSE defaults[name]

(* The limits with these factors, and the flags.                           *)
LimitsBy(i, class, narrower, larger) ==
    LET Limit(name) ==
            Overridden(i, Thresholds[IF class = "EQUITY" THEN class ELSE "CRYPTO"], name)
        Flag(name) == Overridden(i, Selection.flags, name)
    IN  [spread |-> Limit("spread") * narrower, depth |-> Limit("depth") * larger,
         volume |-> Limit("volume") * larger, deviation |-> Limit("deviation"),
         requireVolume |-> Flag("requireVolume"), requireFresh |-> Flag("requireFresh"),
         allowDegraded |-> Flag("allowDegraded"), minScore |-> Flag("minScore")]

(* Mutant: a window of thin liquidity leaves the limits as they are.       *)
ResolveAsUsual(i, class, thin) == LimitsBy(i, class, 10, 10)

(* The defaults of the class, the overrides of the symbol, and both made   *)
(* stricter while liquidity is thin.                                       *)
ResolveThresholds(i, class, thin) ==
    IF thin THEN LimitsBy(i, class, 7, 15) ELSE LimitsBy(i, class, 10, 10)

-----------------------------------------------------------------------------
(* The market *)

Current(age) == age \in {"FRESH", "AGING"}

(* What the cached feed shows: the depth of a book that can be trusted,    *)
(* the spread of a current quote or else of a current book.                *)
MarketSnapshot(feed) ==
    LET quoted == feed.quote # None /\ Current(feed.quoteAge)
        current == feed.reliable /\ Current(feed.bookAge)
    IN  [quality |-> feed.quality, reliable |-> feed.reliable,
         fresh |-> Current(feed.bookAge),
         bid |-> IF feed.reliable THEN feed.bid ELSE None,
         ask |-> IF feed.reliable THEN feed.ask ELSE None,
         mid |-> IF feed.reliable THEN feed.mid ELSE None,
         spread |-> IF quoted THEN feed.quote ELSE IF current THEN feed.spread ELSE None,
         quoted |-> quoted, mark |-> feed.mark, index |-> feed.index,
         volume |-> feed.volume, volumeFresh |-> Current(feed.statisticsAge)]

WeakSide(market) == Min({market.bid, market.ask})
DepthKnown(market) == market.bid # None /\ market.ask # None

DataPoints(market) ==
    IF market.quality = "HEALTHY" THEN 3000
    ELSE IF market.quality = "DEGRADED" THEN 1500 ELSE 0

(* The code divides floats and rounds to two places, a half to the nearest *)
(* float; here a half goes up.                                             *)
RoundedShare(points, part, whole) == (2 * points * part + whole) \div (2 * whole)

(* Full up to half the limit, then falling to none at the limit.           *)
SpreadPoints(market, limits) ==
    IF ~market.quoted \/ market.spread = None THEN 0
    ELSE IF market.spread * 10 >= limits.spread THEN 0
    ELSE IF market.spread * 20 <= limits.spread THEN 2000
    ELSE RoundedShare(4000, limits.spread - market.spread * 10, limits.spread)

(* The weaker side counts.                                                 *)
DepthPoints(market, limits) ==
    IF ~market.reliable \/ ~market.fresh \/ ~DepthKnown(market) THEN 0
    ELSE IF WeakSide(market) * 10 < limits.depth THEN 0
    ELSE IF WeakSide(market) * 20 >= limits.depth * 3 THEN 2000 ELSE 1000

VolumePoints(market, limits) ==
    IF market.volume = None \/ ~market.volumeFresh THEN 0
    ELSE IF market.volume * 10 < limits.volume THEN 0
    ELSE IF market.volume * 5 >= limits.volume THEN 1500
    ELSE 750 + RoundedShare(750, market.volume * 10 - limits.volume, limits.volume)

(* How far mark, index and mid lie apart, as a share of their middle.      *)
Prices(market) == {p \in {market.mark, market.index, market.mid} \ {None} : p > 0}
ReferencesMissing(market) ==
    Cardinality({k \in {"mark", "index", "mid"} :
                    IF market[k] = None THEN FALSE ELSE market[k] > 0}) < 2
Apart(market) == Max(Prices(market)) - Min(Prices(market))
Middle(market) == Max(Prices(market)) + Min(Prices(market))

Inconsistent(market, limits) ==
    ~ReferencesMissing(market) /\ Apart(market) * 20000 > limits.deviation * Middle(market)

ConsistencyPoints(market, limits) ==
    IF ReferencesMissing(market) \/ Inconsistent(market, limits) THEN 0
    ELSE IF Apart(market) * 40000 <= limits.deviation * Middle(market) THEN 500 ELSE 200

(* The points of the market's status are full: they are lost only while    *)
(* no data layer is wired.  A half is rounded to the even score.           *)
Score(market, limits) ==
    LET points == DataPoints(market) + SpreadPoints(market, limits)
                      + DepthPoints(market, limits) + VolumePoints(market, limits)
                      + 1000 + ConsistencyPoints(market, limits)
        whole == points \div 100
        rest == points % 100
    IN  IF rest > 50 \/ (rest = 50 /\ whole % 2 = 1) THEN whole + 1 ELSE whole

-----------------------------------------------------------------------------
(* The gates, in order; the first that blocks names the status.            *)

Gate(status, blocks) == [status |-> status, blocks |-> blocks]

Gates(i, row, class, session, market, limits) ==
    <<Gate("INSTRUMENT_DELISTED", row.status = "DELISTED"),
      Gate("INSTRUMENT_NOT_CONFIGURED", ~row.enabled),
      Gate("DISABLED_BY_CONFIG", i \in Selection.denylist),
      Gate("ASSET_CLASS_UNSUPPORTED", class = "UNKNOWN"),
      Gate(session, session # None),
      Gate("MARKET_INACTIVE", row.status # "ACTIVE"),
      Gate("DATA_UNAVAILABLE", market.quality \in {None, "UNAVAILABLE"}),
      Gate("DATA_STALE", market.quality = "DATA_STALE"),
      Gate("DATA_INVALID", market.quality = "DATA_INVALID"),
      Gate("ORDERBOOK_RESYNCING", market.quality = "ORDERBOOK_RESYNCING"),
      Gate("INELIGIBLE", market.quality = "DEGRADED" /\ ~limits.allowDegraded),
      Gate("ORDERBOOK_RESYNCING", limits.requireFresh /\ ~market.reliable),
      Gate("DATA_STALE", limits.requireFresh /\ ~market.fresh),
      Gate("PRICE_INVALID", ~market.quoted),
      Gate("PRICE_INVALID", IF market.mark = None THEN TRUE ELSE market.mark <= 0),
      Gate("VOLUME_UNAVAILABLE",
           limits.requireVolume /\ (market.volume = None \/ ~market.volumeFresh)),
      Gate("LOW_VOLUME",
           limits.requireVolume /\ market.volume # None
               /\ market.volume * 10 < limits.volume),
      Gate("SPREAD_TOO_WIDE",
           market.spread # None /\ market.spread * 10 >= limits.spread),
      Gate("INSUFFICIENT_DEPTH",
           IF DepthKnown(market) THEN WeakSide(market) * 10 < limits.depth
           ELSE limits.requireFresh),
      Gate("PRICE_INVALID", Inconsistent(market, limits)),
      Gate("INELIGIBLE", Score(market, limits) < limits.minScore)>>

(* The decision on instrument i, of which row and feed are known, at t.    *)
Decide(i, row, feed, t) ==
    LET class == Classify(i, row)
        limits == ResolveThresholds(i, class, ThinLiquidity(class, t))
        market == MarketSnapshot(feed)
        gates == Gates(i, row, class, Verdict(class, t), market, limits)
        blocking == {n \in DOMAIN gates : gates[n].blocks}
    IN  [status |-> IF blocking = {} THEN "ELIGIBLE" ELSE gates[Min(blocking)].status,
         score |-> Score(market, limits)]

=============================================================================
