------------------------------- MODULE Watchlist -------------------------------
(***************************************************************************)
(* The active watchlist (src/app/selection/watchlist_service.py) under its *)
(* scheduler (src/app/selection/selection_scheduler.py).  A cycle          *)
(* evaluates the instruments, ranks the eligible ones and brings every     *)
(* entry to the state it should have; memory decides what changes, the     *)
(* database is what the research jobs read.                                *)
(*                                                                         *)
(* Each database transaction is an action; any of them may fail and the    *)
(* process may die between two.  Cycles do not overlap (the scheduler's    *)
(* lock).  Which instruments are known, eligible and best is chosen anew   *)
(* for each cycle, and so is the order in which they are dealt with; no    *)
(* code in the repository deletes an instrument, an operator may.          *)
(*                                                                         *)
(* MarketSelection makes that choice as the code does and implements this  *)
(* module.                                                                 *)
(***************************************************************************)
EXTENDS Absence, Integers, FiniteSets

CONSTANTS
    Instruments,
    Allowlist,          \* instruments that may be listed
    MaxWatchlistSize,
    MaxCrashes,         \* bound: crashes of the process
    MaxFaults           \* bound: database transactions that fail

ASSUME WatchlistAssumption ==
    /\ IsFiniteSet(Instruments)
    /\ None \notin Instruments
    /\ Allowlist \subseteq Instruments
    /\ MaxWatchlistSize \in Nat
    /\ MaxCrashes \in Nat
    /\ MaxFaults \in Nat

VARIABLES
    db,         \* active_watchlist_entries: instrument -> its state
    announced,  \* watchlist_events: instrument -> state the last event names
    entries,    \* the service's memory of the list
    restored,   \* memory was loaded from the database
    cycle,      \* where the current cycle stands
    crashes,    \* crashes so far
    faults,     \* failed transactions so far
    clean       \* history: no transaction failed since the cycle began

vars == <<db, announced, entries, restored, cycle, crashes, faults, clean>>

State == {"NONE", "ACTIVE", "PAUSED"}

NotListed == [i \in Instruments |-> "NONE"]

(***************************************************************************)
(* A cycle's place, what it evaluated, the instruments not dealt with yet, *)
(* the one whose event is due, and the states reported so far.             *)
(***************************************************************************)
NoCycle ==
    [at |-> "down", universe |-> {}, target |-> {}, todo |-> {},
     current |-> None, final |-> NotListed]

Init ==
    /\ db = NotListed
    /\ announced = NotListed
    /\ entries = NotListed
    /\ restored = FALSE
    /\ cycle = NoCycle
    /\ crashes = 0
    /\ faults = 0
    /\ clean = TRUE

DatabaseFails ==
    /\ faults < MaxFaults
    /\ faults' = faults + 1
    /\ clean' = FALSE

DatabaseWorks == UNCHANGED <<faults, clean>>

(* The service starts: restore() is tried once.                            *)
Start ==
    /\ cycle.at = "down"
    /\ \/ /\ entries' = db
          /\ restored' = TRUE
          /\ DatabaseWorks
       \/ /\ UNCHANGED <<entries, restored>>
          /\ DatabaseFails
    /\ cycle' = [cycle EXCEPT !.at = "idle"]
    /\ UNCHANGED <<db, announced, crashes>>

(***************************************************************************)
(* The best of the eligible, allowed instruments, as many as there is room *)
(* for.  Scores are free, so any such set may come out.                    *)
(***************************************************************************)
IsTarget(target, eligible) ==
    LET candidates == eligible \cap Allowlist
    IN  /\ target \subseteq candidates
        /\ \/ target = candidates
           \/ Cardinality(target) = MaxWatchlistSize
        /\ Cardinality(target) <= MaxWatchlistSize

Listed == {i \in Instruments : entries[i] # "NONE"}

(* A cycle begins that knows the universe and lists the target.            *)
Begin(universe, target) ==
    /\ cycle.at = "idle"
    /\ cycle' = [at |-> "reconcile", universe |-> universe,
                 target |-> target, todo |-> universe \cup Listed,
                 current |-> None, final |-> NotListed]
    /\ clean' = TRUE
    /\ UNCHANGED <<db, announced, entries, restored, crashes, faults>>

BeginCycle ==
    \E universe \in SUBSET Instruments :
    \E eligible \in SUBSET universe : \E target \in SUBSET eligible :
        IsTarget(target, eligible) /\ Begin(universe, target)

(* Mutant: an entry that lost its place is left alone.                     *)
WantedNeverPaused(i) == IF i \in cycle.target THEN "ACTIVE" ELSE "NONE"

(* The state an evaluated instrument's entry should have.                  *)
Wanted(i) ==
    IF i \in cycle.target THEN "ACTIVE"
    ELSE IF entries[i] = "NONE" THEN "NONE" ELSE "PAUSED"

(* Instrument i is dealt with, and reported in that state.                 *)
Report(i, state) ==
    cycle' = [cycle EXCEPT !.at = "reconcile", !.todo = @ \ {i},
                           !.current = None, !.final[i] = state]

(* The row of instrument i is written, its event is due.                   *)
Announcing(place, i) ==
    cycle' = [cycle EXCEPT !.at = place, !.current = i]

Evaluated(i) == cycle.at = "reconcile" /\ i \in cycle.todo \cap cycle.universe

(* Never listed and not chosen: nothing is written.                        *)
LeaveOut(i) ==
    /\ Evaluated(i)
    /\ Wanted(i) = "NONE"
    /\ Report(i, "NONE")
    /\ UNCHANGED <<db, announced, entries, restored, crashes, faults, clean>>

(* Mutant: an activation that failed is reported all the same.             *)
ReportedRegardless(i) == Wanted(i)

(***************************************************************************)
(* What is reported when the entry could not be written: the plain         *)
(* decision for a new activation, the wanted state for everything else.    *)
(***************************************************************************)
ReportedUnpersisted(i) ==
    IF Wanted(i) = "ACTIVE" /\ entries[i] # "ACTIVE" THEN "NONE"
    ELSE Wanted(i)

(* upsert_entry; an unchanged entry is refreshed, without an event.        *)
Persist(i) ==
    LET state == Wanted(i)
    IN  /\ Evaluated(i)
        /\ state # "NONE"
        /\ \/ /\ db' = [db EXCEPT ![i] = state]
              /\ IF entries[i] = state THEN Report(i, state)
                 ELSE Announcing("announce", i)
              /\ DatabaseWorks
           \/ /\ DatabaseFails
              /\ Report(i, ReportedUnpersisted(i))
              /\ UNCHANGED db
        /\ UNCHANGED <<announced, entries, restored, crashes>>

(* The event of a change.  A lost one is not made up for.                  *)
Announce ==
    LET i     == cycle.current
        state == Wanted(i)
    IN  /\ cycle.at = "announce"
        /\ \/ announced' = [announced EXCEPT ![i] = state] /\ DatabaseWorks
           \/ DatabaseFails /\ UNCHANGED announced
        /\ entries' = [entries EXCEPT ![i] = state]
        /\ Report(i, state)
        /\ UNCHANGED <<db, restored, crashes>>

(***************************************************************************)
(* Entries of instruments that vanished are removed at the end: the row,   *)
(* then the event, and only when both are stored is the entry forgotten.   *)
(***************************************************************************)
RemoveEntry(i) ==
    /\ cycle.at = "reconcile"
    /\ cycle.todo \cap cycle.universe = {}
    /\ i \in cycle.todo
    /\ \/ /\ db' = [db EXCEPT ![i] = "NONE"]
          /\ Announcing("removed", i)
          /\ DatabaseWorks
       \/ /\ DatabaseFails
          /\ Report(i, "NONE")
          /\ UNCHANGED db
    /\ UNCHANGED <<announced, entries, restored, crashes>>

(* What memory keeps of an entry whose removal could not be announced.     *)
Unannounced(i) == entries[i]

AnnounceRemoval ==
    LET i == cycle.current
    IN  /\ cycle.at = "removed"
        /\ \/ /\ announced' = [announced EXCEPT ![i] = "NONE"]
              /\ entries' = [entries EXCEPT ![i] = "NONE"]
              /\ DatabaseWorks
           \/ /\ DatabaseFails
              /\ entries' = [entries EXCEPT ![i] = Unannounced(i)]
              /\ UNCHANGED announced
        /\ Report(i, "NONE")
        /\ UNCHANGED <<db, restored, crashes>>

EndCycle ==
    /\ cycle.at = "reconcile"
    /\ cycle.todo = {}
    /\ cycle' = [cycle EXCEPT !.at = "idle"]
    /\ UNCHANGED <<db, announced, entries, restored, crashes, faults, clean>>

(* The process dies; memory is gone, the database stays.                   *)
Crash ==
    /\ cycle.at # "down"
    /\ crashes < MaxCrashes
    /\ crashes' = crashes + 1
    /\ cycle' = NoCycle
    /\ entries' = NotListed
    /\ restored' = FALSE
    /\ UNCHANGED <<db, announced, faults, clean>>

(* What a service does that runs, once a cycle has begun.                  *)
Proceed ==
    \/ Announce \/ AnnounceRemoval
    \/ \E i \in Instruments : LeaveOut(i) \/ Persist(i) \/ RemoveEntry(i)

Next == Start \/ BeginCycle \/ Proceed \/ EndCycle \/ Crash

Spec == Init /\ [][Next]_vars

-----------------------------------------------------------------------------
(* Correctness properties.                                                 *)

CycleType ==
    [at : {"down", "idle", "reconcile", "announce", "removed"},
     universe : SUBSET Instruments, target : SUBSET Instruments,
     todo : SUBSET Instruments, current : Instruments \cup {None},
     final : [Instruments -> State]]

(* The type invariant of list, memory and cycle.                           *)
TypeOK ==
    /\ db \in [Instruments -> State]
    /\ announced \in [Instruments -> State]
    /\ entries \in [Instruments -> State]
    /\ restored \in BOOLEAN
    /\ cycle \in CycleType
    /\ crashes \in Nat
    /\ faults \in Nat
    /\ clean \in BOOLEAN

(* A cycle ran to its end and no transaction of it failed.                 *)
CleanlyDone == cycle.at = "idle" /\ cycle.universe # {} /\ clean

(* The research jobs read exactly what the cycle chose.                    *)
ListIsRight == {i \in Instruments : db[i] = "ACTIVE"} = cycle.target

(***************************************************************************)
(* "state changes that could not be persisted ... are retried on the next  *)
(* cycle": whatever failed or crashed before, in whatever order entries    *)
(* were written, one undisturbed cycle of a restored service leaves        *)
(* exactly the chosen instruments active, never more than there is room    *)
(* for.                                                                    *)
(***************************************************************************)
RestoredCycleConverges == CleanlyDone /\ restored => ListIsRight

(***************************************************************************)
(* "state changes that could not be persisted are NOT reported as          *)
(* successful": an instrument is never reported active while its row says  *)
(* paused, even after a failed restore.                                    *)
(***************************************************************************)
ActiveReportsAreBacked ==
    \A i \in Instruments : cycle.final[i] = "ACTIVE" => db[i] # "PAUSED"

=============================================================================
