--------------------------- MODULE LifecycleEngine ---------------------------
(***************************************************************************)
(* One deterministic evaluation of one research signal: the nine monitors  *)
(* (src/app/signals/*_monitor.py) over one immutable context, and the      *)
(* choice of at most one transition by priority                            *)
(* (src/app/signals/lifecycle_engine.py).  Pure operators, no state.       *)
(*                                                                         *)
(* A price is its position on the ladder of the signal's reference levels, *)
(* counted along the direction of the thesis, so that a bullish and a      *)
(* bearish signal read the same: the "exit side" is the bid of a bullish   *)
(* and the ask of a bearish signal, the "entry side" the other one.        *)
(***************************************************************************)
EXTENDS Integers, Sequences, SignalStateMachine

CONSTANTS
    None,               \* an absent value (SQL NULL, Python None)
    Priority,           \* priority key -> number, higher wins
    EntryTrigger,       \* the entry trigger chosen at admission
    BreakoutCandidate,  \* the candidate type is a range breakout
    InvalidationPolicy,
    CloseConfirmationRequired,
    TargetPolicy,
    SecondTarget,       \* the plan has two reference targets
    SessionEndPolicy,
    PostEntryExpiryPolicy,
    DegradedGrace,      \* how long degraded data is tolerated
    EntryMaxWait,       \* how long an entry is waited for
    ActiveMaxDuration   \* how long a confirmed signal is monitored

PriorityKeys ==
    {"DATA_INVALID", "INVALIDATED", "SUPERSEDED", "EXPIRED", "PAUSED",
     "TECHNICAL_EXIT", "TARGET_2_REACHED", "TARGET_1_REACHED",
     "ENTRY_CONFIRMED", "INFO"}

(***************************************************************************)
(* The configurations the settings class accepts.                          *)
(***************************************************************************)
ASSUME PriorityAssumption ==
    /\ Priority \in [PriorityKeys -> Int]
    /\ \A k, l \in PriorityKeys : Priority[k] = Priority[l] => k = l
    /\ \A k \in PriorityKeys \ {"DATA_INVALID"} :
           Priority[k] < Priority["DATA_INVALID"]
    /\ Priority["INVALIDATED"] > Priority["TARGET_2_REACHED"]

ASSUME PolicyAssumption ==
    /\ EntryTrigger \in {"ZONE_TOUCH", "ZONE_TOUCH_AND_5M_CLOSE_CONFIRM",
                         "RECLAIM_LEVEL_CLOSE_CONFIRM", "RETEST_CONFIRM",
                         "BREAKOUT_CLOSE_CONFIRM"}
    /\ InvalidationPolicy \in {"MARK_PRICE_TOUCH", "BBO_TOUCH",
                               "FIVE_M_CLOSE_BEYOND_LEVEL",
                               "CONSERVATIVE_COMBINED"}
    /\ TargetPolicy \in {"MARK_PRICE_TOUCH", "BBO_TOUCH",
                         "FIVE_M_CLOSE_AT_OR_BEYOND_TARGET"}
    /\ SessionEndPolicy \in {"EXPIRE", "PAUSE", "TECHNICAL_EXIT"}
    /\ PostEntryExpiryPolicy \in {"EXPIRE", "TECHNICAL_EXIT"}
    /\ BreakoutCandidate \in BOOLEAN
    /\ CloseConfirmationRequired \in BOOLEAN
    /\ SecondTarget \in BOOLEAN
    /\ DegradedGrace \in Nat
    /\ EntryMaxWait \in Nat \ {0}
    /\ ActiveMaxDuration \in Nat \ {0}

-----------------------------------------------------------------------------
(* The ladder of reference levels.                                         *)

Beyond    == 0  \* at or beyond the invalidation level
Retreat   == 1  \* valid, but back beyond the anchor of the entry zone
Tolerance == 2  \* beyond the anchor, inside the tolerance of the zone
Zone      == 3  \* in the entry zone
Past      == 4  \* past the zone, short of the targets
Target1   == 5
Target2   == 6

Ladder == Beyond .. Target2

(***************************************************************************)
(* What one cycle reads about a signal's surroundings.  "OTHER" is any     *)
(* plan status that no monitor names (REJECTED, BLOCKED and so on), "LOST" *)
(* a row that can no longer be loaded.                                     *)
(***************************************************************************)
Context ==
    [plan           : {"ELIGIBLE", "SUPERSEDED", "EXPIRED", "DATA_INVALID",
                       "OTHER", "LOST"},
     candidate      : {"CONFIRMED", "SUPERSEDED", "EXPIRED", "REJECTED",
                       "LOST"},
     superseding    : BOOLEAN,    \* a newer eligible plan exists
     sessionAllowed : BOOLEAN,
     dataOk         : BOOLEAN,
     resyncing      : BOOLEAN,
     bboFresh       : BOOLEAN,
     mark           : Ladder \cup {None},
     exitSide       : Ladder \cup {None},
     entrySide      : Ladder \cup {None},
     close          : Ladder \cup {None},   \* last closed 5m candle
     wickInZone     : BOOLEAN,    \* that candle dipped back into the zone
     opposing       : BOOLEAN]    \* opposing structure event after entry

Healthy(ctx) == ctx.dataOk /\ ~ctx.resyncing

(***************************************************************************)
(* A finding proposes a transition under a priority key; "order" is the    *)
(* place of its monitor in the fixed list.                                 *)
(***************************************************************************)
Finding(order, key, to) == [order |-> order, key |-> key, to |-> to]

If(condition, item) == IF condition THEN {item} ELSE {}

-----------------------------------------------------------------------------
(* The monitors.  sig is the snapshot of the row, now the cycle's time.    *)

(* Degraded data is tolerated for the grace period, then ends the signal.  *)
CheckDataQuality(sig, ctx, now) ==
    LET since == IF sig.degradedSince = None THEN now ELSE sig.degradedSince
    IN  If(~Healthy(ctx) /\ now - since > DegradedGrace,
           Finding(1, "DATA_INVALID", "DATA_INVALID"))

CheckPlan(sig, ctx) ==
    LET postEntry == IsPostEntry(sig.state)
        lost == \/ ctx.plan \in {"LOST", "DATA_INVALID"}
                \/ ctx.plan = "OTHER" /\ postEntry
                \/ ctx.plan = "ELIGIBLE" /\ ctx.candidate = "LOST"
        superseded == \/ ctx.plan = "SUPERSEDED"
                      \/ ctx.plan = "ELIGIBLE" /\ ctx.candidate = "SUPERSEDED"
        expired == \/ ctx.plan = "EXPIRED"
                   \/ /\ ctx.plan = "ELIGIBLE"
                      /\ ctx.candidate \in {"EXPIRED", "REJECTED"}
                      /\ ~postEntry
        rejected == ctx.plan = "OTHER" /\ ~postEntry
    IN  If(lost, Finding(2, "DATA_INVALID", "DATA_INVALID"))
        \cup If(superseded, Finding(2, "SUPERSEDED", "SUPERSEDED"))
        \cup If(expired, Finding(2, "EXPIRED", "EXPIRED"))
        \cup If(rejected, Finding(2, "EXPIRED", "REJECTED"))

CheckSupersede(sig, ctx) ==
    If(ctx.superseding, Finding(3, "SUPERSEDED", "SUPERSEDED"))

CheckExpiry(sig, ctx, now) ==
    LET postEntry == IsPostEntry(sig.state)
        expired   == now >= sig.expiresAt
        waited    == /\ sig.state = "WATCHING_ENTRY"
                     /\ now - sig.watchingAt > EntryMaxWait
        monitored == /\ postEntry
                     /\ sig.entryAt # None
                     /\ now - sig.entryAt > ActiveMaxDuration
        exit      == postEntry /\ PostEntryExpiryPolicy = "TECHNICAL_EXIT"
    IN  If(expired \/ waited \/ monitored,
           IF exit THEN Finding(4, "TECHNICAL_EXIT", "TECHNICAL_EXIT")
                   ELSE Finding(4, "EXPIRED", "EXPIRED"))

(* Before entry a technical exit makes no sense and becomes an expiry.     *)
CheckSession(sig, ctx) ==
    LET to == CASE SessionEndPolicy = "PAUSE" -> "PAUSED"
                [] SessionEndPolicy = "TECHNICAL_EXIT"
                   /\ IsPostEntry(sig.state) -> "TECHNICAL_EXIT"
                [] OTHER -> "EXPIRED"
    IN  If(~ctx.sessionAllowed /\ sig.state # "PAUSED", Finding(5, to, to))

(* The sources that stand at or beyond the invalidation level.             *)
SourcesBeyondLevel(ctx) ==
    If(ctx.mark = Beyond /\ ctx.dataOk, "MARK_PRICE")
    \cup If(ctx.exitSide = Beyond /\ ctx.bboFresh, "BBO")
    \cup If(ctx.close = Beyond, "5M_CLOSE")

(* The policy may ask for one source in particular.                        *)
InvalidationConfirmed(ctx) ==
    LET hits == SourcesBeyondLevel(ctx)
        required ==
            If(InvalidationPolicy = "MARK_PRICE_TOUCH", "MARK_PRICE")
            \cup If(InvalidationPolicy = "BBO_TOUCH", "BBO")
            \cup If(\/ InvalidationPolicy = "FIVE_M_CLOSE_BEYOND_LEVEL"
                    \/ CloseConfirmationRequired, "5M_CLOSE")
    IN  /\ ctx.dataOk \/ ctx.bboFresh
        /\ hits # {}
        /\ required \subseteq hits

(* Mutant: a signal that reached target 1 can no longer be invalidated.    *)
CheckInvalidationTooNarrow(sig, ctx) ==
    If(InvalidationConfirmed(ctx)
       /\ sig.state \in {"WATCHING_ENTRY", "ACTIVE_RESEARCH"},
       Finding(6, "INVALIDATED", "INVALIDATED"))

(* After target 2 a breach of the level is a technical exit.               *)
CheckInvalidation(sig, ctx) ==
    LET Invalidatable == {"WATCHING_ENTRY", "ENTRY_CONFIRMED",
                          "ACTIVE_RESEARCH", "TARGET_1_REACHED"}
        ExitMapped == {"TARGET_2_REACHED", "TRAILING_RESEARCH"}
        confirmed == InvalidationConfirmed(ctx)
    IN  If(confirmed /\ sig.state \in Invalidatable,
           Finding(6, "INVALIDATED", "INVALIDATED"))
        \cup If(confirmed /\ sig.state \in ExitMapped,
                Finding(6, "TECHNICAL_EXIT", "TECHNICAL_EXIT"))

CheckStructureExit(sig, ctx) ==
    LET backInside == /\ BreakoutCandidate
                      /\ ctx.close \in {Retreat, Tolerance}
                      /\ ctx.dataOk
    IN  If(/\ sig.state \in PostEntryStates \ {"ENTRY_CONFIRMED"}
           /\ (ctx.opposing /\ sig.entryAt # None) \/ backInside,
           Finding(7, "TECHNICAL_EXIT", "TECHNICAL_EXIT"))

(* A target is reached when the configured source stands at or beyond it.  *)
TargetReached(ctx, target) ==
    CASE TargetPolicy = "MARK_PRICE_TOUCH" ->
             ctx.mark # None /\ ctx.dataOk /\ ctx.mark >= target
      [] TargetPolicy = "BBO_TOUCH" ->
             ctx.exitSide # None /\ ctx.bboFresh /\ ctx.exitSide >= target
      [] OTHER ->
             ctx.close # None /\ ctx.close >= target

CheckTargets(sig, ctx) ==
    LET second == /\ sig.state \in {"ACTIVE_RESEARCH", "TARGET_1_REACHED"}
                  /\ SecondTarget
                  /\ TargetReached(ctx, Target2)
        first  == /\ sig.state = "ACTIVE_RESEARCH"
                  /\ ~second
                  /\ TargetReached(ctx, Target1)
    IN  If(second, Finding(8, "TARGET_2_REACHED", "TARGET_2_REACHED"))
        \cup If(first, Finding(8, "TARGET_1_REACHED", "TARGET_1_REACHED"))

EntryTriggered(ctx) ==
    CASE EntryTrigger = "ZONE_TOUCH" ->
             ctx.bboFresh /\ ctx.entrySide \in {Tolerance, Zone}
      [] EntryTrigger = "ZONE_TOUCH_AND_5M_CLOSE_CONFIRM" ->
             ctx.close \in {Tolerance, Zone}
      [] EntryTrigger = "RETEST_CONFIRM" ->
             ctx.close = Zone /\ ctx.wickInZone
      [] OTHER ->
             ctx.close = Zone

(* The adverse price known for the signal must be on the valid side.       *)
ValidSide(ctx) ==
    LET known == If(ctx.bboFresh /\ ctx.exitSide # None, ctx.exitSide)
                 \cup If(ctx.mark # None, ctx.mark)
    IN  known # {} /\ Beyond \notin known

(* Mutant: the quality of the data is not looked at.                       *)
CheckEntryOnAnyData(sig, ctx, now, paused) ==
    If(/\ sig.state = "WATCHING_ENTRY"
       /\ ~paused
       /\ ctx.sessionAllowed
       /\ now < sig.expiresAt
       /\ ValidSide(ctx)
       /\ EntryTriggered(ctx),
       Finding(9, "ENTRY_CONFIRMED", "ENTRY_CONFIRMED"))

CheckEntry(sig, ctx, now, paused) ==
    If(/\ sig.state = "WATCHING_ENTRY"
       /\ ~paused
       /\ ctx.sessionAllowed
       /\ Healthy(ctx)
       /\ now < sig.expiresAt
       /\ ValidSide(ctx)
       /\ EntryTriggered(ctx),
       Finding(9, "ENTRY_CONFIRMED", "ENTRY_CONFIRMED"))

-----------------------------------------------------------------------------
(* The engine.                                                             *)

(* Deterministic progressions with the lowest priority.                    *)
AutoProgress(sig) ==
    If(sig.state = "ENTRY_CONFIRMED", Finding(10, "INFO", "ACTIVE_RESEARCH"))
    \cup If(sig.state = "TARGET_2_REACHED",
            Finding(10, "INFO", "TRAILING_RESEARCH"))

(* Only housekeeping monitors act on a dormant signal.                     *)
Findings(sig, ctx, now, paused) ==
    LET housekeeping == CheckDataQuality(sig, ctx, now)
                        \cup CheckPlan(sig, ctx)
                        \cup CheckSupersede(sig, ctx)
                        \cup CheckExpiry(sig, ctx, now)
    IN  IF sig.state = "PAUSED" THEN housekeeping
        ELSE housekeeping
             \cup CheckSession(sig, ctx)
             \cup CheckInvalidation(sig, ctx)
             \cup CheckStructureExit(sig, ctx)
             \cup CheckTargets(sig, ctx)
             \cup CheckEntry(sig, ctx, now, paused)
             \cup AutoProgress(sig)

(* Findings that propose an illegal move are suppressed.                   *)
LegalFindings(sig, ctx, now, paused) ==
    {f \in Findings(sig, ctx, now, paused) : CanTransition(sig.state, f.to)}

Outranks(f, g) ==
    \/ Priority[f.key] > Priority[g.key]
    \/ Priority[f.key] = Priority[g.key] /\ f.order <= g.order

Winner(findings) ==
    CHOOSE f \in findings : \A g \in findings : Outranks(f, g)

Step(from, to) == [from |-> from, to |-> to]

(***************************************************************************)
(* The transitions of one cycle: none, the winner's, or the documented     *)
(* entry chain.                                                            *)
(***************************************************************************)
EvaluateSignal(sig, ctx, now, paused) ==
    LET legal  == LegalFindings(sig, ctx, now, paused)
        winner == Winner(legal)
        first  == Step(sig.state, winner.to)
    IN  IF IsTerminal(sig.state) \/ legal = {} THEN <<>>
        ELSE IF winner.to = "ENTRY_CONFIRMED"
             THEN <<first, Step("ENTRY_CONFIRMED", "ACTIVE_RESEARCH")>>
             ELSE <<first>>

=============================================================================
