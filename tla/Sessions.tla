-------------------------------- MODULE Sessions --------------------------------
(***************************************************************************)
(* When a market may be analysed (src/app/sessions).  Equities follow the  *)
(* trading days of New York, from a calendar that ends; crypto is always   *)
(* open, with windows of thin liquidity.  An instant counts the half hours *)
(* of UTC, a wall clock those of New York; the phases of a day begin at    *)
(* half hours.                                                             *)
(***************************************************************************)
EXTENDS Absence, Integers, FiniteSetsExt

CONSTANTS
    EquitySettings,     \* EquitySessionSettings
    CryptoSettings,     \* CryptoSessionSettings
    Calendar,           \* the days it covers, its holidays and early closes
    FirstWeekday,       \* of day 0, Monday is 0
    Offsets             \* how far New York is behind, from which instant on

SlotsPerDay == 48

PremarketStart == 8
AfterHoursEnd == 40

(* An offset of New York holds until the next one does.                    *)
West(t) ==
    (CHOOSE o \in Offsets :
        o.from <= t /\ \A p \in Offsets : p.from <= t => p.from <= o.from).west

Local(t) == t - West(t)
DayOf(local) == local \div SlotsPerDay
TimeOf(local) == local % SlotsPerDay
Weekday(day) == (day + FirstWeekday) % 7

(* Mutant: the offset of now is kept across a change of the clocks.        *)
ToUtcUnadjusted(local) == local + Min({o.west : o \in Offsets})

(* The first instant at which the clocks of New York show that time.       *)
ToUtc(local) == Min({t \in {local + o.west : o \in Offsets} : Local(t) = local})

-----------------------------------------------------------------------------
(* Equities *)

(* The validators accept any times of a day; the phases of a day are       *)
(* supposed to come in their order.                                        *)
ASSUME SessionsAssumption ==
    /\ Offsets \subseteq [from : Int, west : 0 .. SlotsPerDay]
    /\ \A o, p \in Offsets : o.from = p.from => o = p
    /\ EquitySettings \in
        [calendarEnabled : BOOLEAN, versionMatches : BOOLEAN,
         open : 0 .. SlotsPerDay - 1, close : 0 .. SlotsPerDay - 1,
         earlyClose : 0 .. SlotsPerDay - 1, premarket : BOOLEAN,
         afterHours : BOOLEAN, premarketAnalysis : BOOLEAN,
         afterHoursAnalysis : BOOLEAN]
    /\ PremarketStart <= EquitySettings.open
    /\ EquitySettings.open < EquitySettings.earlyClose
    /\ EquitySettings.earlyClose <= EquitySettings.close
    /\ EquitySettings.close <= AfterHoursEnd

Weekend(day) == Weekday(day) >= 5
TradingDay(day) ==
    day \in Calendar.covered /\ ~Weekend(day) /\ day \notin Calendar.holidays

(* The clocks of New York change within a day, and that is a Sunday.       *)
ASSUME ClocksAssumption ==
    \A o \in Offsets : (\E p \in Offsets : p.from < o.from) =>
        LET day == DayOf(Local(o.from))
        IN  DayOf(Local(o.from - 1)) = day /\ ~TradingDay(day)

CloseTime(day) ==
    IF day \in Calendar.earlyCloses THEN EquitySettings.earlyClose ELSE EquitySettings.close

(* The next open in fourteen days, none when the calendar ends before it.  *)
NextOpenAfter(local) ==
    LET Open(day) == day * SlotsPerDay + EquitySettings.open
        days == DayOf(local) .. DayOf(local) + 13
        ends == {day \in days : day \notin Calendar.covered}
        opens == {day \in days : /\ TradingDay(day) /\ Open(day) > local
                                 /\ \A end \in ends : day < end}
    IN  IF opens = {} THEN None ELSE ToUtc(Open(Min(opens)))

Unavailable ==
    [available |-> FALSE, state |-> "EQUITY_CLOSED", allowed |-> FALSE,
     early |-> FALSE, nextAt |-> None, nextState |-> None]

(* EquitySessionManager.evaluate on a day the calendar covers.             *)
Phase(day, local) ==
    LET time == TimeOf(local)
        At(slot) == ToUtc(day * SlotsPerDay + slot)
        Trading == IF TradingDay(day) /\ day \in Calendar.earlyCloses
                   THEN "EQUITY_EARLY_CLOSE" ELSE "EQUITY_REGULAR"
        Is(state, allowed, nextAt, nextState) ==
            [available |-> TRUE, state |-> state, allowed |-> allowed,
             early |-> TradingDay(day) /\ day \in Calendar.earlyCloses,
             nextAt |-> nextAt, nextState |-> nextState]
        Closed(state) == Is(state, FALSE, NextOpenAfter(local), "EQUITY_REGULAR")
    IN  CASE Weekend(day) -> Closed("EQUITY_WEEKEND")
          [] ~Weekend(day) /\ day \in Calendar.holidays -> Closed("EQUITY_HOLIDAY")
          [] TradingDay(day) /\ time < EquitySettings.open ->
                LET premarket == EquitySettings.premarket /\ time >= PremarketStart
                IN  Is(IF premarket THEN "EQUITY_PREMARKET" ELSE "EQUITY_CLOSED",
                       premarket /\ EquitySettings.premarketAnalysis,
                       At(EquitySettings.open), Trading)
          [] TradingDay(day) /\ time \in EquitySettings.open .. CloseTime(day) - 1 ->
                Is(Trading, TRUE, At(CloseTime(day)),
                   IF EquitySettings.afterHours THEN "EQUITY_AFTER_HOURS"
                   ELSE "EQUITY_CLOSED")
          [] TradingDay(day) /\ time >= CloseTime(day) ->
                IF EquitySettings.afterHours /\ time < AfterHoursEnd
                THEN Is("EQUITY_AFTER_HOURS", EquitySettings.afterHoursAnalysis,
                        At(AfterHoursEnd), "EQUITY_CLOSED")
                ELSE Closed("EQUITY_CLOSED")

EvaluateEquity(t) ==
    IF /\ EquitySettings.calendarEnabled /\ EquitySettings.versionMatches
       /\ DayOf(Local(t)) \in Calendar.covered
    THEN Phase(DayOf(Local(t)), Local(t))
    ELSE Unavailable

-----------------------------------------------------------------------------
(* Crypto *)

(* A window that ends before it starts ends on the next day.               *)
InWindow(t, window) ==
    LET time == TimeOf(t)
        today == Weekday(DayOf(t)) \in window.days
        yesterday == Weekday(DayOf(t) - 1) \in window.days
    IN  IF window.start <= window.end
        THEN today /\ window.start <= time /\ time < window.end
        ELSE \/ today /\ time >= window.start
             \/ yesterday /\ time < window.end

EvaluateCrypto(t) ==
    [allowed |-> CryptoSettings.enabled,
     limited |-> /\ CryptoSettings.enabled /\ CryptoSettings.limitThin
                 /\ \E window \in CryptoSettings.windows : InWindow(t, window)]

=============================================================================
