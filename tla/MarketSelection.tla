---------------------------- MODULE MarketSelection ----------------------------
(***************************************************************************)
(* The watchlist with what decides on it                                   *)
(* (src/app/selection/selection_scheduler.py): a cycle reads the clock,    *)
(* the sessions, the known instruments and their markets, decides on every *)
(* instrument and gives the places of the list to the best.                *)
(*                                                                         *)
(* Time passes between cycles only; the code reads the clock at the        *)
(* beginning of a cycle and uses what it read to its end.                  *)
(***************************************************************************)
EXTENDS Watchlist, SelectionRules

CONSTANTS
    Instants,       \* when a cycle may begin
    Universes,      \* the instruments a cycle may find
    Situations,     \* row and market of every instrument
    SymbolOrder     \* the place of an instrument's symbol in the alphabet

(* New York has an offset a day before any instant, and a symbol is unique *)
(* among the instruments.                                                  *)
ASSUME MarketSelectionAssumption ==
    /\ Instants \subseteq Int
    /\ \E first \in Instants : \A t \in Instants : first <= t
    /\ \A t \in Instants : \E o \in Offsets : o.from <= t - SlotsPerDay
    /\ Universes \subseteq SUBSET Instruments
    /\ Situations \subseteq [Instruments -> [row : Rows, feed : Feeds]]
    /\ SymbolOrder \in [Instruments -> Int]
    /\ \A i, j \in Instruments : SymbolOrder[i] = SymbolOrder[j] => i = j

VARIABLES
    clock,      \* when the last cycle began
    seen        \* what the current cycle read, None between two

selectionVars == <<vars, clock, seen>>

(* Mutant: every candidate gets a place.                                   *)
EveryoneRanked(candidates, score) == candidates

(* The highest score comes first, then the first symbol.                   *)
Before(i, j, score) ==
    \/ score[i] > score[j]
    \/ score[i] = score[j] /\ SymbolOrder[i] < SymbolOrder[j]

(* The first candidates, as many as there are places.                      *)
Ranked(candidates, score) ==
    {i \in candidates :
        Cardinality({j \in candidates : Before(j, i, score)}) < MaxWatchlistSize}

(* What is decided on every instrument, at every instant and situation.    *)
Decisions ==
    [t \in Instants |-> [situation \in Situations |->
        [i \in Instruments |-> Decide(i, situation[i].row, situation[i].feed, t)]]]

(* The eligible and allowed instruments, the best of them are chosen.      *)
Chosen(universe, decision) ==
    Ranked({i \in universe \cap Allowlist : decision[i].status = "ELIGIBLE"},
           [i \in universe |-> decision[i].score])

SelectionInit ==
    /\ Init
    /\ clock = Min(Instants)
    /\ seen = None

(* A cycle reads the clock, rows and markets, and begins with its choice.  *)
BeginSelection ==
    /\ cycle.at = "idle"
    /\ clock' \in {t \in Instants : t >= clock}
    /\ seen' \in Situations
    /\ \E universe \in Universes : Begin(universe, Chosen(universe, Decisions[clock'][seen']))

StartSelection == Start /\ UNCHANGED <<clock, seen>>
ProceedSelection == Proceed /\ UNCHANGED <<clock, seen>>
EndSelection == EndCycle /\ seen' = None /\ UNCHANGED clock
CrashSelection == Crash /\ seen' = None /\ UNCHANGED clock

Service == StartSelection \/ BeginSelection \/ ProceedSelection \/ EndSelection

SelectionNext == Service \/ CrashSelection

(* The job runs until the process ends and is started again then.          *)
SelectionSpec ==
    SelectionInit /\ [][SelectionNext]_selectionVars /\ WF_selectionVars(Service)

-----------------------------------------------------------------------------
(* Correctness properties.                                                 *)

(* Whatever sessions, markets and ranking decide is a choice the watchlist *)
(* was designed for: of the eligible instruments those that are allowed,   *)
(* never more than there are places, and no place left free.               *)
ImplementsWatchlist == Spec

(* "retried on the next cycle": when the service could read the list at    *)
(* its last start, the list is right again and again, whatever failed      *)
(* before.                                                                 *)
ListRecovers == <>[]restored => []<>ListIsRight

(* In New York a trading day is on, between its open and its close.        *)
Trading(t) ==
    LET day == DayOf(Local(t))
    IN  TradingDay(day) /\ TimeOf(Local(t)) \in EquitySettings.open .. CloseTime(day) - 1

(* The session of t says when the exchange opens or closes next: not       *)
(* before then, and then unless it is the end of the hours after a close.  *)
Foretold(t) ==
    LET equity == EvaluateEquity(t)
    IN  equity.nextAt # None =>
            /\ equity.nextAt > t
            /\ \A u \in t .. equity.nextAt - 1 : Trading(u) = Trading(t)
            /\ equity.nextState # "EQUITY_CLOSED" => Trading(equity.nextAt) # Trading(t)

TruthfulInstants == {t \in Instants : Foretold(t)}

(***************************************************************************)
(* "next state transition": what the risk engine and the operators are     *)
(* told of the next transition is true to the half hour, over weekends,    *)
(* holidays, early closes and changes of the clocks.                       *)
(***************************************************************************)
TransitionsAreForetold == clock \in TruthfulInstants

(***************************************************************************)
(* "allowlist can never bypass this": what a cycle reports active was      *)
(* allowed, known and enabled, its exchange was open, its data healthy,    *)
(* its spread below the limit that holds for the hour, and no better       *)
(* instrument was left out.                                                *)
(***************************************************************************)
ListedMarketsAreSound ==
    \A i \in Instruments :
        seen # None /\ cycle.final[i] = "ACTIVE" =>
            LET row == seen[i].row
                feed == seen[i].feed
                class == Classify(i, row)
                usual == Thresholds[IF class = "EQUITY" THEN class ELSE "CRYPTO"].spread
                limit == usual * (IF ThinLiquidity(class, clock) THEN 7 ELSE 10)
                decision == Decisions[clock][seen]
            IN  /\ i \in Allowlist \ Selection.denylist
                /\ row.enabled /\ row.status = "ACTIVE"
                /\ class \in Selection.allowedClasses
                /\ class = "EQUITY" => Trading(clock)
                /\ feed.quality = "HEALTHY" /\ feed.reliable /\ Current(feed.bookAge)
                /\ feed.quote * 10 < limit
                /\ \A j \in (cycle.universe \cap Allowlist) \ cycle.target :
                        decision[j].status = "ELIGIBLE" => decision[j].score <= decision[i].score

=============================================================================
