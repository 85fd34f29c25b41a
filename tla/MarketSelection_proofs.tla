------------------------- MODULE MarketSelection_proofs -------------------------
(***************************************************************************)
(* First the watchlist, for any number of instruments, crashes and failed  *)
(* transactions: what it promises of the list whatever was decided.  Then  *)
(* MarketSelection implements Watchlist, for all settings, instruments,    *)
(* instants and situations: what the scores decide is a choice the         *)
(* watchlist was designed for.  With the default settings, what a cycle    *)
(* reports active is sound.  And every session foretells what comes next.  *)
(***************************************************************************)
EXTENDS MarketSelection, WellFoundedInduction, FiniteSetTheorems, TLAPS

-----------------------------------------------------------------------------
(* The invariant.                                                          *)

(* The place of the cycle, and what it implies.                            *)
PlaceInv ==
    /\ cycle.at = "down" => cycle = NoCycle /\ restored = FALSE
    /\ cycle.at # "down" => cycle.target \subseteq cycle.universe
    /\ cycle.at = "announce" =>
           /\ cycle.current \in cycle.todo
           /\ cycle.current \in cycle.universe
           /\ Wanted(cycle.current) # "NONE"
           /\ db[cycle.current] = Wanted(cycle.current)
    /\ cycle.at = "removed" =>
           /\ cycle.current \in cycle.todo \ cycle.universe
           /\ db[cycle.current] = "NONE"

(* The entry whose row is written and whose event is due.                  *)
Due(i) == cycle.at = "announce" /\ cycle.current = i

(***************************************************************************)
(* How far memory and table may differ: what a restored service does not   *)
(* list has no active row, and what any service lists as active is not     *)
(* paused, but for the entry whose event is due.                           *)
(***************************************************************************)
MemoryInv ==
    \A i \in Instruments :
        /\ restored /\ entries[i] = "NONE" /\ ~Due(i) => db[i] = "NONE"
        /\ entries[i] = "ACTIVE" /\ ~Due(i) => db[i] # "PAUSED"

(* A restored service has what it dealt with in an undisturbed cycle right.*)
DoneInv ==
    restored /\ clean /\ cycle.universe # {} =>
        \A i \in Instruments \ cycle.todo :
            db[i] = "ACTIVE" <=> i \in cycle.target

(* When a cycle is over nothing is left to do.                             *)
IdleInv == cycle.at = "idle" => cycle.todo = {}

(* Nothing is reported active before it is dealt with.                     *)
ReportInv ==
    /\ \A i \in cycle.todo : cycle.final[i] # "ACTIVE"
    /\ ActiveReportsAreBacked

IInv == TypeOK /\ PlaceInv /\ MemoryInv /\ DoneInv /\ IdleInv /\ ReportInv

-----------------------------------------------------------------------------
(* The actions.                                                            *)

(* What it means that instrument i is reported.                            *)
LEMMA Reported ==
  ASSUME cycle \in CycleType, NEW i \in Instruments, NEW state \in State,
         Report(i, state)
  PROVE  /\ cycle' \in CycleType
         /\ cycle'.at = "reconcile" /\ cycle'.current = None
         /\ cycle'.universe = cycle.universe /\ cycle'.target = cycle.target
         /\ cycle'.todo = cycle.todo \ {i}
         /\ cycle'.final = [cycle.final EXCEPT ![i] = state]
         /\ cycle'.final[i] = state
         /\ \A j \in Instruments \ {i} : cycle'.final[j] = cycle.final[j]
<1>1. /\ cycle'.at = "reconcile" /\ cycle'.current = None
      /\ cycle'.universe = cycle.universe /\ cycle'.target = cycle.target
      /\ cycle'.todo = cycle.todo \ {i}
      /\ cycle'.final = [cycle.final EXCEPT ![i] = state]
      /\ cycle' \in [at : {"down", "idle", "reconcile", "announce", "removed"},
                     universe : SUBSET Instruments, target : SUBSET Instruments,
                     todo : SUBSET Instruments, current : Instruments \cup {None},
                     final : [Instruments -> State]]
  BY DEF Report, CycleType
<1> QED
  BY <1>1 DEF CycleType

(* What it means that the event of instrument i becomes due.               *)
LEMMA BecomesDue ==
  ASSUME cycle \in CycleType, NEW i \in Instruments,
         NEW place \in {"announce", "removed"}, Announcing(place, i)
  PROVE  /\ cycle' \in CycleType
         /\ cycle'.at = place /\ cycle'.current = i
         /\ cycle'.universe = cycle.universe /\ cycle'.target = cycle.target
         /\ cycle'.todo = cycle.todo /\ cycle'.final = cycle.final
  BY DEF Announcing, CycleType

(* The states an entry may be brought to.                                  *)
LEMMA WantedType ==
  ASSUME TypeOK, NEW i \in Instruments
  PROVE  /\ Wanted(i) \in State
         /\ Wanted(i) = "ACTIVE" <=> i \in cycle.target
  BY DEF Wanted, State

(***************************************************************************)
(* Instrument i is reported, in a state that its row backs; its row and    *)
(* entry are what they are to be, unless a transaction failed.             *)
(***************************************************************************)
LEMMA ReportKeeps ==
  ASSUME IInv, NEW i \in cycle.todo, NEW state \in State, Report(i, state),
         TypeOK', UNCHANGED restored,
         clean' => clean,
         cycle.at = "reconcile" \/ cycle.current = i,
         cycle.at # "down",
         \A j \in Instruments \ {i} : db'[j] = db[j] /\ entries'[j] = entries[j],
         state = "ACTIVE" => db'[i] # "PAUSED",
         restored /\ entries'[i] = "NONE" => db'[i] = "NONE",
         entries'[i] = "ACTIVE" => db'[i] # "PAUSED",
         restored /\ clean' => (db'[i] = "ACTIVE" <=> i \in cycle.target)
  PROVE  IInv'
<1>1. cycle \in CycleType /\ i \in Instruments
  BY DEF IInv, TypeOK, CycleType
<1>2. PlaceInv'
  BY <1>1, Reported DEF IInv, PlaceInv
<1>3. MemoryInv'
  BY <1>1, Reported DEF IInv, MemoryInv, Due
<1>4. DoneInv'
  <2> SUFFICES ASSUME restored, clean', cycle'.universe # {},
                      NEW j \in Instruments \ cycle'.todo
               PROVE  db'[j] = "ACTIVE" <=> j \in cycle'.target
    BY DEF DoneInv
  <2>1. CASE j = i
    BY <1>1, <2>1, Reported
  <2>2. CASE j # i
    <3>1. /\ cycle'.universe = cycle.universe /\ cycle'.target = cycle.target
          /\ cycle'.todo = cycle.todo \ {i}
      BY <1>1, Reported
    <3>2. j \in Instruments \ cycle.todo /\ j \in Instruments \ {i}
      BY <2>2, <3>1
    <3>3. cycle.universe # {}
      BY <3>1
    <3>4. \A k \in Instruments \ cycle.todo :
              db[k] = "ACTIVE" <=> k \in cycle.target
      BY <3>3, Zenon DEF IInv, DoneInv
    <3>5. db'[j] = db[j]
      BY <3>2
    <3> QED
      BY <3>1, <3>2, <3>4, <3>5
  <2> QED
    BY <2>1, <2>2
<1>5. IdleInv'
  BY <1>1, Reported DEF IdleInv
<1>6. ReportInv'
  <2>1. \A j \in cycle'.todo : cycle'.final[j] # "ACTIVE"
    <3> SUFFICES ASSUME NEW j \in cycle'.todo
                 PROVE  cycle'.final[j] # "ACTIVE"
      OBVIOUS
    <3>1. j \in cycle.todo /\ j # i
      BY <1>1, Reported
    <3>2. j \in Instruments
      BY <1>1, <3>1 DEF CycleType
    <3>3. cycle.final[j] # "ACTIVE"
      BY <3>1 DEF IInv, ReportInv
    <3> QED
      BY <1>1, <3>1, <3>2, <3>3, Reported
  <2>2. ActiveReportsAreBacked'
    <3> SUFFICES ASSUME NEW j \in Instruments, cycle'.final[j] = "ACTIVE"
                 PROVE  db'[j] # "PAUSED"
      BY DEF ActiveReportsAreBacked
    <3>1. CASE j = i
      BY <1>1, <3>1, Reported
    <3>2. CASE j # i
      <4>1. cycle.final[j] = "ACTIVE" /\ db'[j] = db[j]
        BY <1>1, <3>2, Reported
      <4> QED
        BY <4>1 DEF IInv, ReportInv, ActiveReportsAreBacked
    <3> QED
      BY <3>1, <3>2
  <2> QED
    BY <2>1, <2>2 DEF ReportInv
<1> QED
  BY <1>2, <1>3, <1>4, <1>5, <1>6 DEF IInv

(* A failed transaction disturbs the cycle.                                *)
LEMMA FailureDisturbs ==
  ASSUME TypeOK, DatabaseFails
  PROVE  faults' \in Nat /\ clean' = FALSE
  BY DEF TypeOK, DatabaseFails

(* The service starts.                                                     *)
LEMMA StartStep ==
  ASSUME IInv, Start
  PROVE  IInv'
<1>1. /\ cycle = NoCycle /\ cycle \in CycleType
      /\ cycle' = [NoCycle EXCEPT !.at = "idle"] /\ UNCHANGED db
  BY DEF Start, IInv, PlaceInv, TypeOK
<1>2. /\ cycle'.at = "idle" /\ cycle'.universe = {} /\ cycle'.target = {}
      /\ cycle'.todo = {} /\ cycle'.final = NotListed
      /\ cycle' \in CycleType
  BY <1>1 DEF NoCycle, CycleType
<1>3. TypeOK'
  BY <1>2, FailureDisturbs DEF Start, IInv, TypeOK, DatabaseWorks
<1>4. PlaceInv' /\ DoneInv' /\ IdleInv'
  BY <1>2 DEF PlaceInv, DoneInv, IdleInv
<1>5. MemoryInv'
  BY <1>1, <1>2 DEF Start, IInv, MemoryInv, PlaceInv, Due, NoCycle
<1>6. ReportInv'
  BY <1>2 DEF ReportInv, ActiveReportsAreBacked, NotListed
<1> QED
  BY <1>3, <1>4, <1>5, <1>6 DEF IInv

(* A cycle begins.                                                         *)
LEMMA BeginStep ==
  ASSUME IInv, BeginCycle
  PROVE  IInv'
<1>1. PICK universe \in SUBSET Instruments, target \in SUBSET Instruments :
          /\ target \subseteq universe
          /\ cycle' = [at |-> "reconcile", universe |-> universe,
                       target |-> target, todo |-> universe \cup Listed,
                       current |-> None, final |-> NotListed]
  BY DEF BeginCycle, Begin
<1>2. /\ UNCHANGED <<db, announced, entries, restored, crashes, faults>>
      /\ clean' = TRUE /\ cycle.at = "idle"
  BY DEF BeginCycle, Begin
<1>3. /\ cycle' \in CycleType
      /\ cycle'.at = "reconcile" /\ cycle'.universe = universe
      /\ cycle'.target = target /\ cycle'.todo = universe \cup Listed
      /\ \A i \in Instruments : cycle'.final[i] = "NONE"
  BY <1>1 DEF CycleType, Listed, NotListed, State
<1>4. TypeOK'
  BY <1>2, <1>3 DEF IInv, TypeOK
<1>5. PlaceInv' /\ IdleInv'
  BY <1>1, <1>3 DEF PlaceInv, IdleInv
<1>6. MemoryInv'
  BY <1>2, <1>3 DEF IInv, MemoryInv, Due
<1>7. DoneInv'
  BY <1>1, <1>2, <1>3 DEF IInv, MemoryInv, Due, DoneInv, Listed
<1>8. ReportInv'
  BY <1>3 DEF ReportInv, ActiveReportsAreBacked, CycleType
<1> QED
  BY <1>4, <1>5, <1>6, <1>7, <1>8 DEF IInv

(* An instrument is left out.                                              *)
LEMMA LeaveOutStep ==
  ASSUME IInv, NEW i \in Instruments, LeaveOut(i)
  PROVE  IInv'
<1>1. /\ i \in cycle.todo /\ cycle.at = "reconcile"
      /\ Wanted(i) = "NONE" /\ Report(i, "NONE") /\ "NONE" \in State
      /\ UNCHANGED <<db, announced, entries, restored, crashes, faults, clean>>
  BY DEF LeaveOut, Evaluated, State
<1>2. TypeOK'
  BY <1>1, Reported DEF IInv, TypeOK
<1>3. entries[i] = "NONE" /\ i \notin cycle.target /\ ~Due(i)
  BY <1>1 DEF Wanted, Due
<1>4. /\ restored => db[i] = "NONE"
      /\ entries[i] = "ACTIVE" => db[i] # "PAUSED"
  BY <1>3 DEF IInv, MemoryInv
<1> QED
  BY <1>1, <1>2, <1>3, <1>4, ReportKeeps

(* A row is written, or is not.                                            *)
LEMMA PersistStep ==
  ASSUME IInv, NEW i \in Instruments, Persist(i)
  PROVE  IInv'
<1>1. /\ i \in cycle.todo /\ i \in cycle.universe /\ cycle.at = "reconcile"
      /\ Wanted(i) \in State /\ Wanted(i) # "NONE"
      /\ Wanted(i) = "ACTIVE" <=> i \in cycle.target
      /\ UNCHANGED <<announced, entries, restored, crashes>>
      /\ cycle \in CycleType
  BY WantedType DEF Persist, Evaluated, IInv, TypeOK
<1>2. CASE /\ db' = [db EXCEPT ![i] = Wanted(i)]
           /\ entries[i] = Wanted(i)
           /\ Report(i, Wanted(i))
           /\ DatabaseWorks
  <2>1. TypeOK'
    BY <1>1, <1>2, Reported DEF IInv, TypeOK, DatabaseWorks
  <2>2. /\ db'[i] = Wanted(i)
        /\ \A j \in Instruments \ {i} : db'[j] = db[j]
    BY <1>2 DEF IInv, TypeOK
  <2> QED
    BY <1>1, <1>2, <2>1, <2>2, ReportKeeps DEF DatabaseWorks, Wanted
<1>3. CASE /\ db' = [db EXCEPT ![i] = Wanted(i)]
           /\ Announcing("announce", i)
           /\ DatabaseWorks
  <2>1. TypeOK'
    BY <1>1, <1>3, BecomesDue DEF IInv, TypeOK, DatabaseWorks
  <2>2. /\ db'[i] = Wanted(i)
        /\ \A j \in Instruments \ {i} : db'[j] = db[j]
    BY <1>3 DEF IInv, TypeOK
  <2>3. Wanted(i)' = Wanted(i)
    BY <1>1, <1>3, BecomesDue DEF Wanted
  <2>4. PlaceInv'
    BY <1>1, <1>3, <2>2, <2>3, BecomesDue DEF IInv, PlaceInv
  <2>5. MemoryInv'
    BY <1>1, <1>3, <2>2, BecomesDue DEF IInv, MemoryInv, Due
  <2>6. DoneInv' /\ IdleInv'
    BY <1>1, <1>3, <2>2, BecomesDue DEF IInv, DoneInv, IdleInv, DatabaseWorks
  <2>7. ReportInv'
    BY <1>1, <1>3, <2>2, BecomesDue DEF IInv, ReportInv, ActiveReportsAreBacked
  <2> QED
    BY <2>1, <2>4, <2>5, <2>6, <2>7 DEF IInv
<1>4. CASE DatabaseFails /\ Report(i, ReportedUnpersisted(i)) /\ UNCHANGED db
  <2>1. ReportedUnpersisted(i) \in State
    BY <1>1 DEF ReportedUnpersisted, State
  <2>2. TypeOK' /\ clean' = FALSE
    BY <1>1, <1>4, <2>1, Reported, FailureDisturbs DEF IInv, TypeOK
  <2>3. ~Due(i)
    BY <1>1 DEF Due
  <2>4. /\ restored /\ entries[i] = "NONE" => db[i] = "NONE"
        /\ entries[i] = "ACTIVE" => db[i] # "PAUSED"
    BY <2>3 DEF IInv, MemoryInv
  <2>5. ReportedUnpersisted(i) = "ACTIVE" => db[i] # "PAUSED"
    BY <2>4 DEF ReportedUnpersisted
  <2> QED
    BY <1>1, <1>4, <2>1, <2>2, <2>4, <2>5, ReportKeeps
<1> QED
  BY <1>2, <1>3, <1>4 DEF Persist

(* A change is announced, or its event is lost.                            *)
LEMMA AnnounceStep ==
  ASSUME IInv, Announce
  PROVE  IInv'
<1> DEFINE i == cycle.current
<1>1. /\ i \in cycle.todo /\ i \in Instruments /\ cycle.at = "announce"
      /\ Wanted(i) \in State /\ db[i] = Wanted(i) /\ Wanted(i) # "NONE"
      /\ Wanted(i) = "ACTIVE" <=> i \in cycle.target
      /\ entries' = [entries EXCEPT ![i] = Wanted(i)]
      /\ Report(i, Wanted(i))
      /\ UNCHANGED <<db, restored, crashes>>
      /\ cycle \in CycleType
  BY WantedType DEF Announce, IInv, PlaceInv, TypeOK, CycleType
<1>2. /\ announced' \in [Instruments -> State]
      /\ faults' \in Nat /\ clean' \in BOOLEAN /\ (clean' => clean)
  <2>1. CASE DatabaseWorks
    BY <1>1, <2>1 DEF Announce, IInv, TypeOK, DatabaseWorks
  <2>2. CASE DatabaseFails
    <3>1. faults' \in Nat /\ clean' = FALSE
      BY <2>2, FailureDisturbs DEF IInv
    <3> QED
      BY <1>1, <3>1 DEF Announce, IInv, TypeOK
  <2> QED
    BY <2>1, <2>2 DEF Announce
<1>3. TypeOK'
  BY <1>1, <1>2, Reported DEF IInv, TypeOK
<1>4. /\ entries'[i] = Wanted(i)
      /\ \A j \in Instruments \ {i} : entries'[j] = entries[j]
  BY <1>1 DEF IInv, TypeOK
<1>5. /\ db'[i] = Wanted(i)
      /\ \A j \in Instruments \ {i} : db'[j] = db[j]
  BY <1>1
<1> HIDE DEF i
<1> QED
  BY <1>1, <1>2, <1>3, <1>4, <1>5, ReportKeeps DEF i

(* An entry that vanished is removed, or is not.                           *)
LEMMA RemoveStep ==
  ASSUME IInv, NEW i \in Instruments, RemoveEntry(i)
  PROVE  IInv'
<1>1. /\ i \in cycle.todo /\ i \notin cycle.universe /\ i \notin cycle.target
      /\ cycle.at = "reconcile" /\ cycle \in CycleType /\ "NONE" \in State
      /\ UNCHANGED <<announced, entries, restored, crashes>>
  BY DEF RemoveEntry, IInv, PlaceInv, TypeOK, State
<1>2. CASE db' = [db EXCEPT ![i] = "NONE"] /\ Announcing("removed", i) /\ DatabaseWorks
  <2>1. TypeOK'
    BY <1>1, <1>2, BecomesDue DEF IInv, TypeOK, DatabaseWorks
  <2>2. /\ db'[i] = "NONE"
        /\ \A j \in Instruments \ {i} : db'[j] = db[j]
    BY <1>2 DEF IInv, TypeOK
  <2>3. PlaceInv'
    BY <1>1, <1>2, <2>2, BecomesDue DEF IInv, PlaceInv
  <2>4. MemoryInv'
    BY <1>1, <1>2, <2>2, BecomesDue DEF IInv, MemoryInv, Due
  <2>5. DoneInv' /\ IdleInv'
    BY <1>1, <1>2, <2>2, BecomesDue DEF IInv, DoneInv, IdleInv, DatabaseWorks
  <2>6. ReportInv'
    BY <1>1, <1>2, <2>2, BecomesDue DEF IInv, ReportInv, ActiveReportsAreBacked
  <2> QED
    BY <2>1, <2>3, <2>4, <2>5, <2>6 DEF IInv
<1>3. CASE DatabaseFails /\ Report(i, "NONE") /\ UNCHANGED db
  <2>1. TypeOK' /\ clean' = FALSE
    BY <1>1, <1>3, Reported, FailureDisturbs DEF IInv, TypeOK
  <2>2. ~Due(i)
    BY <1>1 DEF Due
  <2>3. /\ restored /\ entries[i] = "NONE" => db[i] = "NONE"
        /\ entries[i] = "ACTIVE" => db[i] # "PAUSED"
    BY <2>2 DEF IInv, MemoryInv
  <2> QED
    BY <1>1, <1>3, <2>1, <2>3, ReportKeeps
<1> QED
  BY <1>2, <1>3 DEF RemoveEntry

(* A removal is announced and the entry forgotten, or it is kept.          *)
LEMMA RemovalStep ==
  ASSUME IInv, AnnounceRemoval
  PROVE  IInv'
<1> DEFINE i == cycle.current
<1>1. /\ i \in cycle.todo /\ i \in Instruments /\ cycle.at = "removed"
      /\ db[i] = "NONE" /\ i \notin cycle.target
      /\ Report(i, "NONE") /\ "NONE" \in State
      /\ UNCHANGED <<db, restored, crashes>>
      /\ cycle \in CycleType
  BY DEF AnnounceRemoval, IInv, PlaceInv, TypeOK, CycleType, State
<1>2. /\ announced' \in [Instruments -> State]
      /\ faults' \in Nat /\ clean' \in BOOLEAN /\ (clean' => clean)
  <2>1. CASE DatabaseWorks
    BY <1>1, <2>1 DEF AnnounceRemoval, IInv, TypeOK, DatabaseWorks
  <2>2. CASE DatabaseFails
    <3>1. faults' \in Nat /\ clean' = FALSE
      BY <2>2, FailureDisturbs DEF IInv
    <3> QED
      BY <1>1, <3>1 DEF AnnounceRemoval, IInv, TypeOK
  <2> QED
    BY <2>1, <2>2 DEF AnnounceRemoval
<1>3. /\ entries' \in [Instruments -> State]
      /\ \A j \in Instruments \ {i} : entries'[j] = entries[j]
  BY <1>1 DEF AnnounceRemoval, Unannounced, IInv, TypeOK
<1>4. TypeOK'
  BY <1>1, <1>2, <1>3, Reported DEF IInv, TypeOK
<1>5. /\ db'[i] = "NONE"
      /\ \A j \in Instruments \ {i} : db'[j] = db[j]
  BY <1>1
<1> HIDE DEF i
<1> QED
  BY <1>1, <1>2, <1>3, <1>4, <1>5, ReportKeeps DEF i

(* A cycle ends.                                                           *)
LEMMA EndStep ==
  ASSUME IInv, EndCycle
  PROVE  IInv'
<1>1. /\ cycle.at = "reconcile" /\ cycle.todo = {} /\ cycle \in CycleType
      /\ cycle' = [cycle EXCEPT !.at = "idle"]
      /\ UNCHANGED <<db, announced, entries, restored, crashes, faults, clean>>
  BY DEF EndCycle, IInv, TypeOK
<1>2. /\ cycle' \in CycleType /\ cycle'.at = "idle" /\ cycle'.todo = {}
      /\ cycle'.universe = cycle.universe /\ cycle'.target = cycle.target
      /\ cycle'.final = cycle.final
  BY <1>1 DEF CycleType
<1>3. TypeOK'
  BY <1>1, <1>2 DEF IInv, TypeOK
<1>4. PlaceInv' /\ IdleInv'
  BY <1>1, <1>2 DEF IInv, PlaceInv, IdleInv
<1>5. MemoryInv'
  BY <1>1, <1>2 DEF IInv, MemoryInv, Due
<1>6. DoneInv' /\ ReportInv'
  BY <1>1, <1>2 DEF IInv, DoneInv, ReportInv, ActiveReportsAreBacked
<1> QED
  BY <1>3, <1>4, <1>5, <1>6 DEF IInv

(* The process dies.                                                       *)
LEMMA CrashStep ==
  ASSUME IInv, Crash
  PROVE  IInv'
<1>1. /\ cycle' = NoCycle /\ entries' = NotListed /\ restored' = FALSE
      /\ crashes' = crashes + 1 /\ UNCHANGED <<db, announced, faults, clean>>
  BY DEF Crash
<1>2. /\ NotListed \in [Instruments -> State]
      /\ NoCycle \in CycleType /\ NoCycle.at = "down" /\ NoCycle.todo = {}
      /\ NoCycle.final = NotListed
      /\ \A i \in Instruments : NotListed[i] = "NONE"
  BY DEF NoCycle, NotListed, CycleType, State
<1>3. TypeOK'
  <2>1. crashes' \in Nat
    BY <1>1 DEF IInv, TypeOK
  <2>2. restored' \in BOOLEAN
    BY <1>1
  <2>3. UNCHANGED <<db, announced, faults, clean>>
    BY <1>1
  <2> QED
    BY <1>1, <1>2, <2>1, <2>2, <2>3 DEF IInv, TypeOK
<1>4. PlaceInv' /\ MemoryInv' /\ DoneInv' /\ IdleInv'
  BY <1>1, <1>2 DEF PlaceInv, MemoryInv, DoneInv, IdleInv
<1>5. ReportInv'
  BY <1>1, <1>2 DEF ReportInv, ActiveReportsAreBacked
<1> QED
  BY <1>3, <1>4, <1>5 DEF IInv

(* Nothing is listed at first.                                             *)
LEMMA InvInit == Init => IInv
<1> SUFFICES ASSUME Init
             PROVE  IInv
  OBVIOUS
<1>1. /\ NotListed \in [Instruments -> State]
      /\ NoCycle \in CycleType /\ NoCycle.at = "down" /\ NoCycle.todo = {}
      /\ NoCycle.final = NotListed
      /\ \A i \in Instruments : NotListed[i] = "NONE"
  BY DEF NoCycle, NotListed, CycleType, State
<1>2. TypeOK
  BY <1>1 DEF Init, TypeOK
<1>3. PlaceInv /\ MemoryInv /\ DoneInv /\ IdleInv
  BY <1>1 DEF Init, PlaceInv, MemoryInv, DoneInv, IdleInv
<1>4. ReportInv
  BY <1>1 DEF Init, ReportInv, ActiveReportsAreBacked
<1> QED
  BY <1>2, <1>3, <1>4 DEF IInv

(* Every step keeps the invariant.                                         *)
LEMMA InvNext == IInv /\ [Next]_vars => IInv'
<1>1. IInv /\ UNCHANGED vars => IInv'
  BY DEF vars, IInv, TypeOK, PlaceInv, MemoryInv, DoneInv, IdleInv, ReportInv,
         ActiveReportsAreBacked, Due, Wanted
<1>2. IInv /\ Next => IInv'
  BY StartStep, BeginStep, LeaveOutStep, PersistStep, AnnounceStep, RemoveStep,
     RemovalStep, EndStep, CrashStep DEF Next, Proceed
<1> QED
  BY <1>1, <1>2

(* The invariant holds in every reachable state.                           *)
THEOREM InvHolds == Spec => []IInv
  BY InvInit, InvNext, PTL DEF Spec

(* List, memory and cycle keep their types.                                *)
THEOREM TypeOKHolds == Spec => []TypeOK
<1>1. IInv => TypeOK
  BY DEF IInv
<1> QED
  BY <1>1, InvHolds, PTL

(***************************************************************************)
(* Whatever failed or crashed before, one undisturbed cycle of a restored  *)
(* service leaves exactly the chosen instruments active in the table.      *)
(***************************************************************************)
THEOREM RestoredCycleConvergesHolds == Spec => []RestoredCycleConverges
<1>1. IInv => RestoredCycleConverges
  BY DEF IInv, TypeOK, CycleType, DoneInv, IdleInv, RestoredCycleConverges,
         CleanlyDone, ListIsRight
<1> QED
  BY <1>1, InvHolds, PTL

(***************************************************************************)
(* An instrument is never reported active while its row says paused, not   *)
(* even by a service that failed to load its memory.                       *)
(***************************************************************************)
THEOREM ActiveReportsAreBackedHolds == Spec => []ActiveReportsAreBacked
<1>1. IInv => ActiveReportsAreBacked
  BY DEF IInv, ReportInv
<1> QED
  BY <1>1, InvHolds, PTL

-----------------------------------------------------------------------------
(* A score is an integer. *)

(* The limits that a score divides by are integers.                        *)
LEMMA LimitsType ==
  ASSUME NEW i, NEW class, NEW thin
  PROVE  /\ ResolveThresholds(i, class, thin).spread \in Int
         /\ ResolveThresholds(i, class, thin).volume \in Int
<1> DEFINE usual == Thresholds[IF class = "EQUITY" THEN class ELSE "CRYPTO"]
<1>1. usual.spread \in Int /\ usual.volume \in Int
  BY SelectionAssumption
<1>2. Overridden(i, usual, "spread") \in Int /\ Overridden(i, usual, "volume") \in Int
  BY <1>1, SelectionAssumption DEF Overridden
<1> QED
  BY <1>2 DEF ResolveThresholds, LimitsBy

(* The points of a spread: what is divided by is positive.                 *)
LEMMA SpreadPointsType ==
  ASSUME NEW market, NEW limits,
         limits.spread \in Int, market.spread \in {None} \cup Nat
  PROVE  SpreadPoints(market, limits) \in Int
<1> DEFINE unknown == ~market.quoted \/ market.spread = None
           wide == market.spread * 10 >= limits.spread
           narrow == market.spread * 20 <= limits.spread
           share == RoundedShare(4000, limits.spread - market.spread * 10, limits.spread)
<1>1. SpreadPoints(market, limits) =
        IF unknown THEN 0 ELSE IF wide THEN 0 ELSE IF narrow THEN 2000 ELSE share
  BY Zenon DEF SpreadPoints
<1>2. CASE unknown \/ wide \/ narrow
  <2> HIDE DEF unknown, wide, narrow, share
  <2> QED
    BY <1>1, <1>2
<1>3. CASE ~(unknown \/ wide \/ narrow)
  <2>1. limits.spread > 0 /\ limits.spread - market.spread * 10 \in Int
    BY <1>3
  <2>2. share \in Int
    BY <2>1 DEF RoundedShare
  <2> HIDE DEF unknown, wide, narrow, share
  <2> QED
    BY <1>1, <1>3, <2>2
<1> QED
  BY <1>2, <1>3

(* The points of a volume, likewise.                                       *)
LEMMA VolumePointsType ==
  ASSUME NEW market, NEW limits,
         limits.volume \in Int, market.volume \in {None} \cup Int
  PROVE  VolumePoints(market, limits) \in Int
<1> DEFINE unknown == market.volume = None \/ ~market.volumeFresh
           low == market.volume * 10 < limits.volume
           high == market.volume * 5 >= limits.volume
           share == RoundedShare(750, market.volume * 10 - limits.volume, limits.volume)
<1>1. VolumePoints(market, limits) =
        IF unknown THEN 0 ELSE IF low THEN 0 ELSE IF high THEN 1500 ELSE 750 + share
  BY Zenon DEF VolumePoints
<1>2. CASE unknown \/ low \/ high
  <2> HIDE DEF unknown, low, high, share
  <2> QED
    BY <1>1, <1>2
<1>3. CASE ~(unknown \/ low \/ high)
  <2>1. limits.volume > 0 /\ market.volume * 10 - limits.volume \in Int
    BY <1>3
  <2>2. share \in Int
    BY <2>1 DEF RoundedShare
  <2> HIDE DEF unknown, low, high, share
  <2> QED
    BY <1>1, <1>3, <2>2
<1> QED
  BY <1>2, <1>3

(* The score of a market under limits of these types.                      *)
LEMMA ScoreType ==
  ASSUME NEW market, NEW limits,
         limits.spread \in Int, limits.volume \in Int,
         market.spread \in {None} \cup Nat, market.volume \in {None} \cup Int
  PROVE  Score(market, limits) \in Int
<1> DEFINE points == DataPoints(market) + SpreadPoints(market, limits)
                      + DepthPoints(market, limits) + VolumePoints(market, limits)
                      + 1000 + ConsistencyPoints(market, limits)
           whole == points \div 100
           rest == points % 100
<1>1. DataPoints(market) \in Int
  BY DEF DataPoints
<1>2. DepthPoints(market, limits) \in Int
  BY DEF DepthPoints
<1>3. ConsistencyPoints(market, limits) \in Int
  BY DEF ConsistencyPoints
<1>4. points \in Int
  BY <1>1, <1>2, <1>3, SpreadPointsType, VolumePointsType
<1>5. Score(market, limits) =
        IF rest > 50 \/ (rest = 50 /\ whole % 2 = 1) THEN whole + 1 ELSE whole
  BY DEF Score
<1> QED
  <2> HIDE DEF points
  <2> QED
    BY <1>4, <1>5

(* The score of a decision on what a feed may have of an instrument.       *)
LEMMA DecideType ==
  ASSUME NEW i, NEW row, NEW feed \in Feeds, NEW t
  PROVE  Decide(i, row, feed, t).score \in Int
<1> DEFINE class == Classify(i, row)
           limits == ResolveThresholds(i, class, ThinLiquidity(class, t))
           market == MarketSnapshot(feed)
<1>1. limits.spread \in Int /\ limits.volume \in Int
  BY LimitsType
<1>2. market.spread \in {None} \cup Nat /\ market.volume \in {None} \cup Int
  BY DEF MarketSnapshot, Feeds
<1>3. Decide(i, row, feed, t).score = Score(market, limits)
  BY Zenon DEF Decide
<1> QED
  <2> HIDE DEF limits, market
  <2> QED
    BY <1>1, <1>2, <1>3, ScoreType

-----------------------------------------------------------------------------
(* Ranking *)

Ahead(i, candidates, score) == {j \in candidates : Before(j, i, score)}

(* Scores are compared, and symbols among equals: the order is total.      *)
LEMMA BeforeIsTotal ==
  ASSUME NEW C, C \subseteq Instruments, NEW score, \A i \in C : score[i] \in Int
  PROVE  /\ \A i \in C : ~Before(i, i, score)
         /\ \A i, j \in C : i # j => Before(i, j, score) \/ Before(j, i, score)
         /\ \A i, j, k \in C :
                Before(i, j, score) /\ Before(j, k, score) => Before(i, k, score)
<1>1. \A i \in C : SymbolOrder[i] \in Int
  BY MarketSelectionAssumption
<1>2. \A i, j \in C : SymbolOrder[i] = SymbolOrder[j] => i = j
  BY MarketSelectionAssumption
<1> QED
  BY <1>1, <1>2 DEF Before

(***************************************************************************)
(* The first candidates are all of them or as many as there are places,    *)
(* and no one left out comes before one of them.  The number of candidates *)
(* before each of them is injective, so they fit; of those left out the    *)
(* one with the least set before it has only listed ones before it.        *)
(***************************************************************************)
LEMMA RankedFills ==
  ASSUME NEW C, C \subseteq Instruments, NEW score, \A i \in C : score[i] \in Int
  PROVE  /\ Ranked(C, score) \subseteq C
         /\ Ranked(C, score) = C \/ Cardinality(Ranked(C, score)) = MaxWatchlistSize
         /\ Cardinality(Ranked(C, score)) <= MaxWatchlistSize
         /\ \A i \in Ranked(C, score) : \A j \in C \ Ranked(C, score) : ~Before(j, i, score)
<1> DEFINE A(i) == Ahead(i, C, score)
           T == Ranked(C, score)
           rank == [i \in T |-> Cardinality(A(i))]
<1>1. IsFiniteSet(C)
  BY FS_Subset, WatchlistAssumption
<1>2. /\ \A i \in C : ~Before(i, i, score)
      /\ \A i, j \in C : i # j => Before(i, j, score) \/ Before(j, i, score)
      /\ \A i, j, k \in C :
             Before(i, j, score) /\ Before(j, k, score) => Before(i, k, score)
  BY BeforeIsTotal
<1>3. \A i \in C : A(i) \subseteq C /\ IsFiniteSet(A(i)) /\ Cardinality(A(i)) \in Nat
  BY <1>1, FS_Subset, FS_CardinalityType DEF Ahead
<1>4. \A i, j \in C : Before(i, j, score) => Cardinality(A(i)) < Cardinality(A(j))
  <2> SUFFICES ASSUME NEW i \in C, NEW j \in C, Before(i, j, score)
               PROVE  Cardinality(A(i)) < Cardinality(A(j))
    OBVIOUS
  <2>1. A(i) \cup {i} \subseteq A(j) /\ i \notin A(i)
    BY <1>2 DEF Ahead
  <2>2. /\ IsFiniteSet(A(i) \cup {i})
        /\ Cardinality(A(i) \cup {i}) = Cardinality(A(i)) + 1
    <3> HIDE DEF A
    <3> QED
      BY <1>3, <2>1, FS_AddElement
  <2>3. Cardinality(A(i) \cup {i}) <= Cardinality(A(j))
    <3> HIDE DEF A
    <3> QED
      BY <1>3, <2>1, FS_Subset
  <2> QED
    BY <1>3, <2>2, <2>3
<1>5. T \subseteq C /\ IsFiniteSet(T) /\ Cardinality(T) \in Nat
  BY <1>1, FS_Subset, FS_CardinalityType DEF Ranked
<1>6. \A i \in C : i \in T <=> Cardinality(A(i)) < MaxWatchlistSize
  BY DEF Ranked, Ahead
<1>7. Cardinality(T) <= MaxWatchlistSize
  <2>1. rank \in Injection(T, 0 .. MaxWatchlistSize - 1)
    <3>1. rank \in [T -> 0 .. MaxWatchlistSize - 1]
      BY <1>3, <1>5, <1>6, WatchlistAssumption
    <3>2. \A i, j \in T : rank[i] = rank[j] => i = j
      BY <1>2, <1>3, <1>4, <1>5
    <3> QED
      BY <3>1, <3>2 DEF Injection, IsInjective
  <2>2. /\ IsFiniteSet(0 .. MaxWatchlistSize - 1)
        /\ Cardinality(0 .. MaxWatchlistSize - 1) = MaxWatchlistSize
    BY WatchlistAssumption, FS_Interval
  <2> QED
    <3> HIDE DEF rank, T
    <3> QED
      BY <2>1, <2>2, FS_Injection
<1>8. ASSUME NEW i \in T, NEW j \in C \ T
      PROVE  ~Before(j, i, score)
  BY <1>1, <1>3, <1>4, <1>5, <1>6, WatchlistAssumption
<1>9. T # C => Cardinality(T) = MaxWatchlistSize
  <2> SUFFICES ASSUME T # C
               PROVE  Cardinality(T) >= MaxWatchlistSize
    BY <1>5, <1>7, WatchlistAssumption
  <2> DEFINE R == StrictSubsetOrdering(C)
             U == {A(i) : i \in C \ T}
  <2>1. U \subseteq FiniteSubsetsOf(C) /\ U # {}
    BY <1>1, <1>3, <1>5 DEF FiniteSubsetsOf
  <2>2. PICK x \in U : \A y \in U : ~(<<y, x>> \in R)
    <3> HIDE DEF U, R
    <3>1. IsWellFoundedOn(R, FiniteSubsetsOf(C))
      BY <1>1, FS_StrictSubsetOrderingWellFounded DEF R
    <3> QED
      BY <3>1, <2>1, WFMin
  <2>3. PICK i \in C \ T : x = A(i)
    OBVIOUS
  <2>4. A(i) \subseteq T
    <3> SUFFICES ASSUME NEW j \in A(i), j \notin T
                 PROVE  FALSE
      OBVIOUS
    <3>1. j \in C /\ Before(j, i, score)
      BY DEF Ahead
    <3>2. A(j) \subseteq A(i) /\ j \notin A(j)
      BY <1>2, <3>1 DEF Ahead
    <3>3. <<A(j), A(i)>> \in R
      BY <1>3, <3>1, <3>2 DEF StrictSubsetOrdering
    <3> QED
      BY <2>2, <2>3, <3>1, <3>3
  <2>5. Cardinality(A(i)) <= Cardinality(T)
    <3> HIDE DEF A, T
    <3> QED
      BY <1>5, <2>4, FS_Subset
  <2> QED
    BY <1>3, <1>5, <1>6, <2>5, WatchlistAssumption
<1> QED
  BY <1>5, <1>7, <1>8, <1>9

-----------------------------------------------------------------------------
(* Refinement *)

(* What is decided of a known instrument, and that its score is one.       *)
LEMMA DecisionsType ==
  ASSUME NEW t \in Instants, NEW situation \in Situations, NEW i \in Instruments
  PROVE  /\ Decisions[t][situation][i] = Decide(i, situation[i].row, situation[i].feed, t)
         /\ Decisions[t][situation][i].score \in Int
<1>1. Decisions[t][situation][i] = Decide(i, situation[i].row, situation[i].feed, t)
  BY Zenon DEF Decisions
<1>2. situation[i].feed \in Feeds
  BY MarketSelectionAssumption
<1> QED
  BY <1>1, <1>2, DecideType

(* The choice is one of the watchlist's: all the eligible and allowed, or  *)
(* as many as there are places; and whoever is left out scores no more.    *)
LEMMA ChosenIsTarget ==
  ASSUME NEW t \in Instants, NEW situation \in Situations, NEW universe \in Universes
  PROVE  LET decision == Decisions[t][situation]
             eligible == {i \in universe : decision[i].status = "ELIGIBLE"}
             chosen == Chosen(universe, decision)
         IN  /\ chosen \subseteq eligible
             /\ IsTarget(chosen, eligible)
             /\ \A i \in chosen : \A j \in (eligible \cap Allowlist) \ chosen :
                    decision[j].score <= decision[i].score
<1> DEFINE decision == Decisions[t][situation]
           eligible == {i \in universe : decision[i].status = "ELIGIBLE"}
           C == {i \in universe \cap Allowlist : decision[i].status = "ELIGIBLE"}
           score == [i \in universe |-> decision[i].score]
           chosen == Chosen(universe, decision)
<1>1. universe \subseteq Instruments /\ C \subseteq Instruments
  BY MarketSelectionAssumption
<1>2. C = eligible \cap Allowlist
  OBVIOUS
<1>3. \A i \in universe : decision[i].score \in Int /\ score[i] = decision[i].score
  BY <1>1, DecisionsType
<1>4. chosen = Ranked(C, score)
  BY DEF Chosen
<1> HIDE DEF decision, C, score, chosen
<1>5. \A i \in C : score[i] \in Int
  BY <1>1, <1>3 DEF C
<1>6. /\ chosen \subseteq C
      /\ chosen = C \/ Cardinality(chosen) = MaxWatchlistSize
      /\ Cardinality(chosen) <= MaxWatchlistSize
      /\ \A i \in chosen : \A j \in C \ chosen : ~Before(j, i, score)
  BY <1>1, <1>4, <1>5, RankedFills
<1>7. ASSUME NEW i \in chosen, NEW j \in C \ chosen
      PROVE  decision[j].score <= decision[i].score
  <2>1. i \in universe /\ j \in universe
    BY <1>6 DEF C
  <2>2. ~(score[j] > score[i])
    BY <1>6 DEF Before
  <2> QED
    BY <1>3, <2>1, <2>2
<1> USE DEF decision, chosen
<1> QED
  BY <1>2, <1>6, <1>7 DEF IsTarget

(* A cycle that decides itself is a cycle of the watchlist.                *)
LEMMA BeginSelectionRefines ==
  ASSUME BeginSelection
  PROVE  BeginCycle
<1>1. clock' \in Instants /\ seen' \in Situations
  BY DEF BeginSelection
<1>2. PICK universe \in Universes : Begin(universe, Chosen(universe, Decisions[clock'][seen']))
  BY DEF BeginSelection
<1> DEFINE eligible == {i \in universe : Decisions[clock'][seen'][i].status = "ELIGIBLE"}
           chosen == Chosen(universe, Decisions[clock'][seen'])
<1>3. chosen \subseteq eligible /\ IsTarget(chosen, eligible)
  BY <1>1, ChosenIsTarget, Zenon
<1>4. universe \in SUBSET Instruments
  BY MarketSelectionAssumption
<1> HIDE DEF chosen
<1>5. eligible \in SUBSET universe /\ chosen \in SUBSET eligible
  BY <1>3
<1>6. Begin(universe, chosen)
  BY <1>2 DEF chosen
<1> HIDE DEF eligible
<1> QED
  BY <1>3, <1>4, <1>5, <1>6, Zenon DEF BeginCycle

(***************************************************************************)
(* Whatever the sessions, the markets, the thresholds and the ranking say, *)
(* the selection behaves as the watchlist may: its theorems hold of every  *)
(* selection.                                                              *)
(***************************************************************************)
THEOREM ImplementsWatchlistHolds == SelectionSpec => ImplementsWatchlist
<1>1. SelectionInit => Init
  BY DEF SelectionInit
<1>2. [SelectionNext]_selectionVars => [Next]_vars
  <2> SUFFICES ASSUME [SelectionNext]_selectionVars
               PROVE  [Next]_vars
    OBVIOUS
  <2>1. CASE StartSelection
    BY <2>1 DEF StartSelection, Next
  <2>2. CASE BeginSelection
    BY <2>2, BeginSelectionRefines DEF Next
  <2>3. CASE ProceedSelection
    BY <2>3 DEF ProceedSelection, Next
  <2>4. CASE EndSelection
    BY <2>4 DEF EndSelection, Next
  <2>5. CASE CrashSelection
    BY <2>5 DEF CrashSelection, Next
  <2>6. CASE UNCHANGED selectionVars
    BY <2>6 DEF selectionVars
  <2> QED
    BY <2>1, <2>2, <2>3, <2>4, <2>5, <2>6 DEF SelectionNext, Service
<1> QED
  BY <1>1, <1>2, PTL DEF SelectionSpec, ImplementsWatchlist, Spec

-----------------------------------------------------------------------------
(* The clocks of New York.                                                 *)

(* A set of numbers has a least one: the intervals up to its members are   *)
(* finite, and strict inclusion among those is well-founded.               *)
LEMMA LeastNatural ==
  ASSUME NEW S, S \subseteq Nat, S # {}
  PROVE  \E m \in S : \A n \in S : m <= n
<1> DEFINE Below(n) == 1 .. n
           R == StrictSubsetOrdering(Nat)
           U == {Below(n) : n \in S}
<1>1. \A n \in Nat : Below(n) \subseteq Nat /\ IsFiniteSet(Below(n))
  BY FS_Interval
<1>2. U \subseteq FiniteSubsetsOf(Nat) /\ U # {}
  BY <1>1 DEF FiniteSubsetsOf
<1>3. PICK x \in U : \A y \in U : ~(<<y, x>> \in R)
  <2> HIDE DEF U, R
  <2>1. IsWellFoundedOn(R, FiniteSubsetsOf(Nat))
    BY FS_StrictSubsetOrderingWellFounded DEF R
  <2> QED
    BY <2>1, <1>2, WFMin
<1>4. PICK m \in S : x = Below(m)
  OBVIOUS
<1>5. ASSUME NEW n \in S, n < m
      PROVE  FALSE
  <2>1. Below(n) \subseteq Below(m) /\ m \in Below(m) /\ m \notin Below(n)
    BY <1>5
  <2>2. <<Below(n), Below(m)>> \in R
    BY <1>1, <2>1 DEF StrictSubsetOrdering
  <2> QED
    BY <1>3, <1>4, <2>2
<1> QED
  BY <1>5

(* A time of the clocks is a day and a time of day.                        *)
LEMMA DaysAndTimes ==
  ASSUME NEW local \in Int
  PROVE  /\ DayOf(local) \in Int /\ TimeOf(local) \in 0 .. SlotsPerDay - 1
         /\ local = DayOf(local) * SlotsPerDay + TimeOf(local)
  BY DEF DayOf, TimeOf, SlotsPerDay

(* And the other way round.                                                *)
LEMMA DayAndTimeOf ==
  ASSUME NEW day \in Int, NEW slot \in 0 .. SlotsPerDay - 1
  PROVE  DayOf(day * SlotsPerDay + slot) = day /\ TimeOf(day * SlotsPerDay + slot) = slot
  BY DEF DayOf, TimeOf, SlotsPerDay

(* Days come in the order of time.                                         *)
LEMMA DaysAreOrdered ==
  ASSUME NEW l \in Int, NEW m \in Int, l <= m
  PROVE  DayOf(l) <= DayOf(m)
  BY DEF DayOf, SlotsPerDay

(* The least of what is not below a bound.                                 *)
LEMMA LeastFrom ==
  ASSUME NEW bound \in Int, NEW S, S # {}, \A n \in S : n \in Int /\ bound <= n
  PROVE  \E m \in S : \A n \in S : m <= n
<1> DEFINE D == {n - bound : n \in S}
<1>1. D \subseteq Nat /\ D # {}
  OBVIOUS
<1>2. PICK d \in D : \A e \in D : d <= e
  <2> HIDE DEF D
  <2> QED
    BY <1>1, LeastNatural
<1>3. PICK m \in S : d = m - bound
  OBVIOUS
<1>4. \A n \in S : n - bound \in D
  OBVIOUS
<1> HIDE DEF D
<1>5. \A n \in S : m - bound <= n - bound
  BY <1>2, <1>3, <1>4
<1> QED
  BY <1>5

(* It is the one that Min chooses.                                         *)
LEMMA LeastIsMin ==
  ASSUME NEW S, NEW m \in S, \A n \in S : n \in Int /\ m <= n
  PROVE  Min(S) = m
<1>1. Min(S) \in S /\ \A n \in S : Min(S) <= n
  BY Zenon DEF Min
<1> QED
  BY <1>1

(* The instants at which New York has an offset.                           *)
Known(t) == t \in Int /\ \E o \in Offsets : o.from <= t

Latest(o, t) == o.from <= t /\ \A p \in Offsets : p.from <= t => p.from <= o.from

(* New York is west of Greenwich, by a day at most.                        *)
LEMMA OffsetType ==
  ASSUME NEW o \in Offsets
  PROVE  o.from \in Int /\ o.west \in Int /\ 0 <= o.west /\ o.west <= SlotsPerDay
<1>1. o \in [from : Int, west : 0 .. SlotsPerDay]
  BY SessionsAssumption
<1> QED
  BY <1>1 DEF SlotsPerDay

(* There is one that holds.                                                *)
LEMMA LatestOffset ==
  ASSUME NEW t, Known(t)
  PROVE  \E o \in Offsets : Latest(o, t) /\ West(t) = o.west
<1> DEFINE S == {t - o.from : o \in {p \in Offsets : p.from <= t}}
<1>1. t \in Int
  BY DEF Known
<1>2. S \subseteq Nat /\ S # {}
  <2>1. \A o \in Offsets : o.from \in Int
    BY OffsetType
  <2>2. PICK o \in Offsets : o.from <= t
    BY DEF Known
  <2>3. t - o.from \in S
    BY <2>2
  <2> QED
    BY <1>1, <2>1, <2>3
<1>3. PICK d \in S : \A e \in S : d <= e
  <2> HIDE DEF S
  <2> QED
    BY <1>2, LeastNatural
<1>4. PICK o \in Offsets : o.from <= t /\ d = t - o.from
  BY <1>3
<1>5. Latest(o, t)
  <2> SUFFICES ASSUME NEW p \in Offsets, p.from <= t
               PROVE  p.from <= o.from
    BY <1>4 DEF Latest
  <2>1. t - p.from \in S
    OBVIOUS
  <2>2. t - o.from <= t - p.from
    BY <1>3, <1>4, <2>1
  <2> QED
    BY <1>1, <2>2, OffsetType
<1>6. West(t) = (CHOOSE p \in Offsets : Latest(p, t)).west
  BY Zenon DEF West, Latest
<1>7. (CHOOSE p \in Offsets : Latest(p, t)) \in {p \in Offsets : Latest(p, t)}
  BY <1>5
<1> QED
  BY <1>6, <1>7

(* So its clocks are behind, by as much at most.                           *)
LEMMA LocalType ==
  ASSUME NEW t, Known(t)
  PROVE  Local(t) \in Int /\ Local(t) <= t /\ t <= Local(t) + SlotsPerDay
<1>1. PICK o \in Offsets : West(t) = o.west
  BY LatestOffset
<1>2. o.west \in Int /\ 0 <= o.west /\ o.west <= SlotsPerDay /\ t \in Int
  BY OffsetType DEF Known
<1> QED
  BY <1>1, <1>2 DEF Local, SlotsPerDay

(* From one instant to the next the clocks go on, or they change within a  *)
(* day without trading.                                                    *)
LEMMA ClockStep ==
  ASSUME NEW t, Known(t)
  PROVE  /\ Known(t + 1)
         /\ \/ Local(t + 1) = Local(t) + 1
            \/ /\ DayOf(Local(t + 1)) = DayOf(Local(t))
               /\ ~TradingDay(DayOf(Local(t)))
<1>1. t \in Int /\ t + 1 \in Int
  BY DEF Known
<1>2. Known(t + 1)
  BY <1>1, OffsetType DEF Known
<1>3. PICK o \in Offsets : Latest(o, t) /\ West(t) = o.west
  BY LatestOffset
<1>4. PICK p \in Offsets : Latest(p, t + 1) /\ West(t + 1) = p.west
  BY <1>2, LatestOffset
<1>5. o.from \in Int /\ p.from \in Int /\ o.west \in Int /\ p.west \in Int
  BY OffsetType
<1>6. CASE p.from <= t
  <2>1. p.from = o.from
    BY <1>1, <1>3, <1>4, <1>5, <1>6 DEF Latest
  <2>2. p = o
    BY <2>1, SessionsAssumption
  <2> QED
    BY <1>1, <1>2, <1>3, <1>4, <1>5, <2>2 DEF Local
<1>7. CASE ~(p.from <= t)
  <2>1. p.from = t + 1 /\ o.from < p.from /\ t = p.from - 1
    BY <1>1, <1>3, <1>4, <1>5, <1>7 DEF Latest
  <2>2. DayOf(Local(p.from - 1)) = DayOf(Local(p.from)) /\ ~TradingDay(DayOf(Local(p.from)))
    BY <2>1, ClocksAssumption, Zenon
  <2> QED
    BY <1>2, <2>1, <2>2
<1> QED
  BY <1>6, <1>7

(* They never fall below a time of a trading day that they have reached.   *)
LEMMA ReachedStays ==
  ASSUME NEW t, Known(t), NEW u \in Int, t <= u,
         NEW local \in Int, TradingDay(DayOf(local)), local <= Local(t)
  PROVE  local <= Local(u)
<1> DEFINE S == {w \in Int : t <= w /\ Local(w) < local}
<1>1. t \in Int
  BY DEF Known
<1>2. \A w \in Int : t <= w => Known(w) /\ Local(w) \in Int
  <2> SUFFICES ASSUME NEW w \in Int, t <= w
               PROVE  Known(w)
    BY LocalType
  <2> QED
    BY <1>1, OffsetType DEF Known
<1> SUFFICES ASSUME S # {}
             PROVE  FALSE
  BY <1>2
<1>3. PICK w \in S : \A v \in S : w <= v
  <2>1. \A n \in S : n \in Int /\ t <= n
    OBVIOUS
  <2> HIDE DEF S
  <2> QED
    BY <1>1, <2>1, LeastFrom
<1>4. w \in Int /\ t <= w /\ Local(w) < local /\ w # t
  BY <1>1, <1>2, <1>3
<1>5. w - 1 \in Int /\ t <= w - 1 /\ (w - 1) + 1 = w /\ w - 1 \notin S
  BY <1>1, <1>3, <1>4
<1>6. local <= Local(w - 1)
  BY <1>2, <1>5
<1>7. \/ Local(w) = Local(w - 1) + 1
      \/ DayOf(Local(w)) = DayOf(Local(w - 1)) /\ ~TradingDay(DayOf(Local(w - 1)))
  BY <1>2, <1>5, ClockStep
<1>8. Local(w) \in Int /\ Local(w - 1) \in Int
  BY <1>2, <1>4, <1>5
<1>9. DayOf(Local(w)) <= DayOf(local) /\ DayOf(local) <= DayOf(Local(w - 1))
  BY <1>4, <1>6, <1>8, DaysAreOrdered
<1>10. DayOf(local) \in Int /\ DayOf(Local(w)) \in Int
  BY <1>8, DaysAndTimes
<1> QED
  BY <1>4, <1>6, <1>7, <1>8, <1>9, <1>10

(* Their days go on.                                                       *)
LEMMA DaysGoOn ==
  ASSUME NEW t, Known(t), NEW u \in Int, t <= u
  PROVE  DayOf(Local(t)) <= DayOf(Local(u))
<1> DEFINE day == DayOf(Local(t))
           S == {w \in Int : t <= w /\ ~(day <= DayOf(Local(w)))}
<1>1. t \in Int
  BY DEF Known
<1>2. \A w \in Int : t <= w => Known(w) /\ Local(w) \in Int /\ DayOf(Local(w)) \in Int
  <2> SUFFICES ASSUME NEW w \in Int, t <= w
               PROVE  Known(w)
    BY LocalType, DaysAndTimes
  <2> QED
    BY <1>1, OffsetType DEF Known
<1> SUFFICES ASSUME S # {}
             PROVE  FALSE
  OBVIOUS
<1>3. PICK w \in S : \A v \in S : w <= v
  <2>1. \A n \in S : n \in Int /\ t <= n
    OBVIOUS
  <2> HIDE DEF S
  <2> QED
    BY <1>1, <2>1, LeastFrom
<1>4. w \in Int /\ t <= w /\ ~(day <= DayOf(Local(w))) /\ w # t
  BY <1>1, <1>2, <1>3
<1>5. w - 1 \in Int /\ t <= w - 1 /\ (w - 1) + 1 = w /\ w - 1 \notin S
  BY <1>1, <1>3, <1>4
<1>6. day <= DayOf(Local(w - 1))
  BY <1>5
<1>7. \/ Local(w) = Local(w - 1) + 1
      \/ DayOf(Local(w)) = DayOf(Local(w - 1))
  BY <1>2, <1>5, ClockStep
<1>8. DayOf(Local(w - 1)) <= DayOf(Local(w))
  BY <1>2, <1>4, <1>5, <1>7, DaysAreOrdered
<1> HIDE DEF day
<1>9. day \in Int
  BY <1>1, <1>2 DEF day
<1> QED
  BY <1>2, <1>4, <1>5, <1>6, <1>8, <1>9

(* A later time of a trading day is reached, and not before then.          *)
LEMMA TimeIsReached ==
  ASSUME NEW t, Known(t), NEW local \in Int, TradingDay(DayOf(local)), Local(t) < local
  PROVE  \E u \in Int : /\ t < u /\ Local(u) = local
                        /\ \A v \in Int : t <= v /\ v < u => Local(v) < local
<1> DEFINE S == {w \in Int : t <= w /\ local <= Local(w)}
<1>1. t \in Int /\ Local(t) \in Int /\ t <= Local(t) + SlotsPerDay
  BY LocalType DEF Known
<1>2. \A w \in Int : t <= w => Known(w) /\ Local(w) \in Int /\ w <= Local(w) + SlotsPerDay
  <2> SUFFICES ASSUME NEW w \in Int, t <= w
               PROVE  Known(w)
    BY LocalType
  <2> QED
    BY <1>1, OffsetType DEF Known
<1>3. local + SlotsPerDay \in S
  <2>1. local + SlotsPerDay \in Int /\ t <= local + SlotsPerDay
    BY <1>1 DEF SlotsPerDay
  <2>2. local <= Local(local + SlotsPerDay)
    BY <1>2, <2>1 DEF SlotsPerDay
  <2> QED
    BY <2>1, <2>2
<1>4. PICK u \in S : \A v \in S : u <= v
  <2>1. \A n \in S : n \in Int /\ t <= n
    OBVIOUS
  <2> HIDE DEF S
  <2> QED
    BY <1>1, <1>3, <2>1, LeastFrom
<1>5. u \in Int /\ t <= u /\ local <= Local(u) /\ u # t
  BY <1>1, <1>4
<1>6. u - 1 \in Int /\ t <= u - 1 /\ (u - 1) + 1 = u /\ u - 1 \notin S
  BY <1>1, <1>4, <1>5
<1>7. Local(u - 1) < local
  BY <1>2, <1>6
<1>8. \/ Local(u) = Local(u - 1) + 1
      \/ DayOf(Local(u)) = DayOf(Local(u - 1)) /\ ~TradingDay(DayOf(Local(u - 1)))
  BY <1>2, <1>6, ClockStep
<1>9. Local(u) \in Int /\ Local(u - 1) \in Int
  BY <1>2, <1>5, <1>6
<1>10. DayOf(Local(u - 1)) <= DayOf(local) /\ DayOf(local) <= DayOf(Local(u))
  BY <1>5, <1>7, <1>9, DaysAreOrdered
<1>11. DayOf(local) \in Int /\ DayOf(Local(u)) \in Int
  BY <1>9, DaysAndTimes
<1>12. Local(u) = local
  BY <1>5, <1>7, <1>8, <1>9, <1>10, <1>11
<1>13. \A v \in Int : t <= v /\ v < u => Local(v) < local
  <2> SUFFICES ASSUME NEW v \in Int, t <= v, v < u
               PROVE  Local(v) < local
    OBVIOUS
  <2>1. v \notin S
    BY <1>4, <1>5
  <2> QED
    BY <1>2, <2>1
<1> QED
  BY <1>1, <1>5, <1>12, <1>13

(* The instant of such a time is the one the code computes.                *)
LEMMA ToUtcIsReached ==
  ASSUME NEW t \in Instants, NEW local \in Int, TradingDay(DayOf(local)), Local(t) < local
  PROVE  /\ ToUtc(local) \in Int /\ t < ToUtc(local) /\ Local(ToUtc(local)) = local
         /\ \A v \in Int : t <= v /\ v < ToUtc(local) => Local(v) < local
<1> DEFINE S == {x \in {local + o.west : o \in Offsets} : Local(x) = local}
<1>1. t \in Int
  BY MarketSelectionAssumption
<1>2. PICK first \in Offsets : first.from <= t - SlotsPerDay
  BY MarketSelectionAssumption
<1>3. Known(t) /\ \A x \in Int : t - SlotsPerDay <= x => Known(x)
  BY <1>1, <1>2, OffsetType DEF Known, SlotsPerDay
<1>4. PICK u \in Int : /\ t < u /\ Local(u) = local
                       /\ \A v \in Int : t <= v /\ v < u => Local(v) < local
  BY <1>3, TimeIsReached
<1>5. u \in S
  <2>1. Known(u)
    BY <1>1, <1>3, <1>4 DEF SlotsPerDay
  <2>2. PICK o \in Offsets : West(u) = o.west
    BY <2>1, LatestOffset
  <2>3. u = local + o.west
    BY <1>4, <2>2, OffsetType DEF Local
  <2> QED
    BY <1>4, <2>3
<1>6. ASSUME NEW x \in S
      PROVE  x \in Int /\ u <= x
  <2>1. PICK o \in Offsets : x = local + o.west
    OBVIOUS
  <2>2. Local(x) = local
    OBVIOUS
  <2>3. x \in Int /\ local <= x
    BY <2>1, OffsetType
  <2>4. t - SlotsPerDay <= x
    BY <1>1, <1>3, <2>3, LocalType DEF SlotsPerDay
  <2>5. Known(x)
    BY <1>3, <2>3, <2>4
  <2>6. ASSUME x < u
        PROVE  FALSE
    <3>1. CASE t <= x
      BY <1>4, <2>2, <2>3, <2>6, <3>1
    <3>2. CASE x < t
      <4>1. local <= Local(t)
        BY <1>1, <2>2, <2>3, <2>5, <3>2, ReachedStays
      <4> QED
        BY <1>3, <4>1, LocalType
    <3> QED
      BY <1>1, <2>3, <3>1, <3>2
  <2> QED
    BY <1>4, <2>3, <2>6
<1> HIDE DEF S
<1>7. Min(S) = u
  BY <1>5, <1>6, LeastIsMin
<1>8. ToUtc(local) = u
  BY <1>7 DEF ToUtc, S
<1> QED
  BY <1>4, <1>8

-----------------------------------------------------------------------------
(* What an eligible instrument passed *)

(* The defaults of the settings the property speaks of (config.py).        *)
DefaultSettings ==
    /\ DOMAIN Selection.overrides = {} /\ DOMAIN Selection.policies = {}
    /\ Selection.flags.requireFresh /\ ~Selection.flags.allowDegraded
    /\ ~EquitySettings.premarketAnalysis /\ ~EquitySettings.afterHoursAnalysis

(* With the analysis hours off an equity is allowed on a trading day,      *)
(* between open and close, and at no other time.                           *)
LEMMA PhaseIsTrading ==
  ASSUME NEW day \in Calendar.covered, NEW local \in Int, Phase(day, local).allowed,
         ~EquitySettings.premarketAnalysis, ~EquitySettings.afterHoursAnalysis
  PROVE  TradingDay(day) /\ TimeOf(local) \in EquitySettings.open .. CloseTime(day) - 1
<1> DEFINE time == TimeOf(local)
<1>1. time \in Int /\ EquitySettings.open \in Int /\ CloseTime(day) \in Int
  BY SessionsAssumption DEF TimeOf, SlotsPerDay, CloseTime
<1>a. EquitySettings.premarketAnalysis \in BOOLEAN /\ EquitySettings.afterHoursAnalysis \in BOOLEAN
  BY SessionsAssumption 
<1>2. CASE Weekend(day)
  BY <1>2, Zenon DEF Phase, TradingDay
<1>3. CASE ~Weekend(day) /\ day \in Calendar.holidays
  BY <1>3, Zenon DEF Phase, TradingDay
<1>4. CASE TradingDay(day) /\ time < EquitySettings.open
  <2>1. /\ ~Weekend(day) /\ day \notin Calendar.holidays
        /\ ~(time \in EquitySettings.open .. CloseTime(day) - 1)
        /\ ~(time >= CloseTime(day))
    BY <1>4, <1>1, SessionsAssumption DEF TradingDay, CloseTime
  <2>2. Phase(day, local).allowed <=>
          EquitySettings.premarket /\ time >= PremarketStart /\ EquitySettings.premarketAnalysis
    BY <1>4, <2>1, Zenon DEF Phase
  <2> QED
    BY <2>2, Zenon
<1>5. CASE TradingDay(day) /\ time >= CloseTime(day)
  <2>1. /\ ~Weekend(day) /\ day \notin Calendar.holidays
        /\ ~(time \in EquitySettings.open .. CloseTime(day) - 1)
        /\ ~(time < EquitySettings.open)
    BY <1>5, <1>1, SessionsAssumption DEF TradingDay, CloseTime
  <2>2. Phase(day, local).allowed \in {FALSE, EquitySettings.afterHoursAnalysis}
    BY <1>5, <2>1, Zenon DEF Phase
  <2> QED
    BY <2>2, Zenon
<1>6. CASE TradingDay(day) /\ ~(time < EquitySettings.open) /\ ~(time >= CloseTime(day))
  <2> HIDE DEF time
  <2> QED
    BY <1>1, <1>6 DEF time
<1> QED
  BY <1>2, <1>3, <1>4, <1>5, <1>6, Zenon DEF TradingDay

(* A session and a policy that object to nothing.                          *)
LEMMA VerdictIsSound ==
  ASSUME DefaultSettings, NEW class, NEW t \in Instants, Verdict(class, t) = None
  PROVE  /\ class \in Selection.allowedClasses
         /\ class = "EQUITY" => Trading(t)
<1>1. PolicyBlock(class) = None
  BY DEF Verdict
<1>2. class \in Selection.allowedClasses
  BY <1>1, SelectionAssumption DEF PolicyBlock, Objections, DefaultSettings
<1>3. ASSUME class = "EQUITY"
      PROVE  Trading(t)
  <2>1. EquityVerdict(EvaluateEquity(t)) = None
    BY <1>3 DEF Verdict
  <2>2. EvaluateEquity(t).available /\ EvaluateEquity(t).allowed
    BY <2>1, SelectionAssumption, Zenon DEF EquityVerdict, Objections
  <2>3. EvaluateEquity(t) # Unavailable
    BY <2>2 DEF Unavailable
  <2>4. DayOf(Local(t)) \in Calendar.covered /\ Phase(DayOf(Local(t)), Local(t)).allowed
    BY <2>2, <2>3, Zenon DEF EvaluateEquity
  <2>5. Local(t) \in Int
    <3>1. Known(t)
      BY MarketSelectionAssumption, OffsetType DEF Known, SlotsPerDay
    <3> QED
      BY <3>1, LocalType
  <2> QED
    BY <2>4, <2>5, PhaseIsTrading DEF Trading, DefaultSettings
<1> QED
  BY <1>2, <1>3

(* What they object, they name.                                            *)
LEMMA VerdictIsObjection ==
  ASSUME NEW class, NEW t
  PROVE  Verdict(class, t) \in Objections \cup {None}
  BY DEF Verdict, EquityVerdict, PolicyBlock, Objections

(* A gate that blocks never says that the instrument is eligible.          *)
LEMMA GatesObject ==
  ASSUME NEW i, NEW row, NEW class, NEW session, NEW market, NEW limits,
         session # None => session # "ELIGIBLE"
  PROVE  \A n \in 1 .. 21 :
            Gates(i, row, class, session, market, limits)[n].blocks =>
                Gates(i, row, class, session, market, limits)[n].status # "ELIGIBLE"
<1> DEFINE gates == Gates(i, row, class, session, market, limits)
<1>1. gates[5].status = session /\ (gates[5].blocks <=> session # None)
  BY DEF Gates, Gate
<1>2. \A n \in 1 .. 21 \ {5} : gates[n].status # "ELIGIBLE"
  BY DEF Gates, Gate
<1> HIDE DEF gates
<1> QED
  BY <1>1, <1>2 DEF gates

(* Eligible is who no gate blocks.                                         *)
LEMMA EligiblePassesGates ==
  ASSUME NEW i, NEW row, NEW feed, NEW t, Decide(i, row, feed, t).status = "ELIGIBLE"
  PROVE  LET class == Classify(i, row)
             limits == ResolveThresholds(i, class, ThinLiquidity(class, t))
         IN  \A n \in 1 .. 21 :
                ~Gates(i, row, class, Verdict(class, t), MarketSnapshot(feed), limits)[n].blocks
<1> DEFINE class == Classify(i, row)
           limits == ResolveThresholds(i, class, ThinLiquidity(class, t))
           gates == Gates(i, row, class, Verdict(class, t), MarketSnapshot(feed), limits)
           blocking == {n \in DOMAIN gates : gates[n].blocks}
<1>1. (IF blocking = {} THEN "ELIGIBLE" ELSE gates[Min(blocking)].status) = "ELIGIBLE"
  BY Zenon DEF Decide
<1>2. DOMAIN gates = 1 .. 21
  BY DEF Gates
<1>3. \A n \in 1 .. 21 : gates[n].blocks => gates[n].status # "ELIGIBLE"
  <2>1. Verdict(class, t) # None => Verdict(class, t) # "ELIGIBLE"
    BY VerdictIsObjection DEF Objections
  <2> QED
    BY <2>1, GatesObject
<1> HIDE DEF gates
<1>4. blocking \subseteq Nat
  BY <1>2
<1>5. blocking = {}
  <2> SUFFICES ASSUME blocking # {}
               PROVE  FALSE
    OBVIOUS
  <2>1. PICK m \in blocking : \A n \in blocking : m <= n
    <3> HIDE DEF blocking
    <3> QED
      BY <1>4, LeastNatural
  <2>2. Min(blocking) \in blocking
    BY <2>1, Zenon DEF Min
  <2>3. gates[Min(blocking)].status = "ELIGIBLE"
    BY <1>1, Zenon
  <2>4. Min(blocking) \in 1 .. 21 /\ gates[Min(blocking)].blocks
    BY <1>2, <2>2
  <2> QED
    BY <1>3, <2>3, <2>4
<1>6. \A n \in 1 .. 21 : ~gates[n].blocks
  BY <1>2, <1>5
<1> QED
  BY <1>6, Zenon DEF gates

(* Without overrides the limits are those of the class and the hour.       *)
LEMMA SettingsLimits ==
  ASSUME DefaultSettings, NEW i, NEW class, NEW thin \in BOOLEAN
  PROVE  LET limits == ResolveThresholds(i, class, thin)
             usual == Thresholds[IF class = "EQUITY" THEN class ELSE "CRYPTO"].spread
         IN  /\ limits.spread = usual * (IF thin THEN 7 ELSE 10)
             /\ limits.requireFresh /\ ~limits.allowDegraded
             /\ limits.spread \in Int
<1> DEFINE class1 == IF class = "EQUITY" THEN class ELSE "CRYPTO"
<1>1. \A defaults, name : Overridden(i, defaults, name) = defaults[name]
  BY DEF Overridden, DefaultSettings
<1>2. Thresholds[class1].spread \in Int
  BY SelectionAssumption
<1>3. CASE thin
  BY <1>1, <1>2, <1>3 DEF ResolveThresholds, LimitsBy, DefaultSettings
<1>4. CASE ~thin
  BY <1>1, <1>2, <1>4 DEF ResolveThresholds, LimitsBy, DefaultSettings
<1> QED
  BY <1>3, <1>4

(* What each gate that does not block says.                                *)
LEMMA WhatPasses ==
  ASSUME NEW i, NEW row, NEW class, NEW session, NEW market, NEW limits,
         \A n \in 1 .. 21 : ~Gates(i, row, class, session, market, limits)[n].blocks
  PROVE  /\ row.enabled /\ row.status = "ACTIVE"
         /\ i \notin Selection.denylist
         /\ session = None
         /\ market.quality \notin {None, "UNAVAILABLE", "DATA_STALE", "DATA_INVALID",
                                   "ORDERBOOK_RESYNCING"}
         /\ ~limits.allowDegraded => market.quality # "DEGRADED"
         /\ limits.requireFresh => market.reliable /\ market.fresh
         /\ market.quoted
         /\ market.spread # None => ~(market.spread * 10 >= limits.spread)
<1> DEFINE gates == Gates(i, row, class, session, market, limits)
<1>1. /\ gates[2].blocks <=> ~row.enabled
      /\ gates[3].blocks <=> i \in Selection.denylist
      /\ gates[5].blocks <=> session # None
      /\ gates[6].blocks <=> row.status # "ACTIVE"
  BY DEF Gates, Gate
<1>2. /\ gates[7].blocks <=> market.quality \in {None, "UNAVAILABLE"}
      /\ gates[8].blocks <=> market.quality = "DATA_STALE"
      /\ gates[9].blocks <=> market.quality = "DATA_INVALID"
      /\ gates[10].blocks <=> market.quality = "ORDERBOOK_RESYNCING"
      /\ gates[11].blocks <=> market.quality = "DEGRADED" /\ ~limits.allowDegraded
  BY DEF Gates, Gate
<1>3. /\ gates[12].blocks <=> limits.requireFresh /\ ~market.reliable
      /\ gates[13].blocks <=> limits.requireFresh /\ ~market.fresh
      /\ gates[14].blocks <=> ~market.quoted
      /\ gates[18].blocks <=> market.spread # None /\ market.spread * 10 >= limits.spread
  BY DEF Gates, Gate
<1>4. \A n \in {2, 3, 5, 6, 7, 8, 9, 10, 11, 12, 13, 14, 18} : ~gates[n].blocks
  OBVIOUS
<1> HIDE DEF gates
<1> QED
  BY <1>1, <1>2, <1>3, <1>4

(* What is eligible under the default settings.                            *)
LEMMA EligibleIsSound ==
  ASSUME DefaultSettings, NEW i, NEW row \in Rows, NEW feed \in Feeds, NEW t \in Instants,
         Decide(i, row, feed, t).status = "ELIGIBLE"
  PROVE  LET class == Classify(i, row)
             usual == Thresholds[IF class = "EQUITY" THEN class ELSE "CRYPTO"].spread
             limit == usual * (IF ThinLiquidity(class, t) THEN 7 ELSE 10)
         IN  /\ i \notin Selection.denylist
             /\ row.enabled /\ row.status = "ACTIVE"
             /\ class \in Selection.allowedClasses
             /\ class = "EQUITY" => Trading(t)
             /\ feed.quality = "HEALTHY" /\ feed.reliable /\ Current(feed.bookAge)
             /\ feed.quote * 10 < limit
<1> DEFINE class == Classify(i, row)
           thin == ThinLiquidity(class, t)
           limits == ResolveThresholds(i, class, thin)
           market == MarketSnapshot(feed)
           session == Verdict(class, t)
           usual == Thresholds[IF class = "EQUITY" THEN class ELSE "CRYPTO"].spread
           limit == usual * (IF thin THEN 7 ELSE 10)
           gates == Gates(i, row, class, session, market, limits)
<1>1. \A n \in 1 .. 21 : ~gates[n].blocks
  BY EligiblePassesGates, Zenon
<1>2. thin \in BOOLEAN
  BY DEF ThinLiquidity, EvaluateCrypto
<1>3. /\ limits.spread = limit /\ limit \in Int
      /\ limits.requireFresh /\ ~limits.allowDegraded
  <2> HIDE DEF thin, class
  <2> QED
    BY <1>2, SettingsLimits
<1> HIDE DEF class, thin, limits, market, session, limit
<1>4. /\ row.enabled /\ i \notin Selection.denylist /\ session = None
      /\ row.status = "ACTIVE"
  BY <1>1, WhatPasses
<1>5. /\ market.quality \notin {None, "UNAVAILABLE", "DATA_STALE", "DATA_INVALID",
                                "ORDERBOOK_RESYNCING", "DEGRADED"}
      /\ market.reliable /\ market.fresh /\ market.quoted
      /\ market.spread # None => ~(market.spread * 10 >= limits.spread)
  BY <1>1, <1>3, WhatPasses
<1>6. /\ market.quality = feed.quality /\ market.reliable = feed.reliable
      /\ market.fresh = Current(feed.bookAge)
      /\ market.quoted => market.spread = feed.quote /\ feed.quote # None
  BY DEF market, MarketSnapshot
<1>7. feed.quote \in Nat /\ feed.quality = "HEALTHY"
  BY <1>5, <1>6 DEF Feeds
<1>8. feed.quote * 10 < limit
  BY <1>3, <1>5, <1>6, <1>7
<1>9. class \in Selection.allowedClasses /\ (class = "EQUITY" => Trading(t))
  BY <1>4, VerdictIsSound DEF session
<1> QED
  BY <1>4, <1>5, <1>6, <1>7, <1>8, <1>9, Zenon DEF class, thin, limit

-----------------------------------------------------------------------------
(* What a cycle reports *)

(* Only what was chosen is reported active.                                *)
ReportsInv ==
    \A i \in Instruments : cycle.final[i] = "ACTIVE" => i \in cycle.target

(* A cycle keeps to what it read and chose.                                *)
SelectionInv ==
    /\ ReportsInv
    /\ seen # None =>
           /\ clock \in Instants /\ seen \in Situations
           /\ cycle.universe \in Universes
           /\ cycle.target = Chosen(cycle.universe, Decisions[clock][seen])

(* Reporting a chosen instrument active, or any other as it is.            *)
LEMMA ReportedAreTargets ==
  ASSUME TypeOK, ReportsInv,
         NEW i \in Instruments \cup {None}, NEW state, Report(i, state),
         state = "ACTIVE" => i \in cycle.target
  PROVE  /\ ReportsInv'
         /\ cycle'.universe = cycle.universe /\ cycle'.target = cycle.target
<1>1. cycle \in CycleType
  BY DEF TypeOK
<1>2. /\ cycle'.target = cycle.target /\ cycle'.universe = cycle.universe
      /\ cycle'.final = [cycle.final EXCEPT ![i] = state]
  BY <1>1 DEF Report, CycleType
<1> QED
  BY <1>1, <1>2 DEF CycleType, ReportsInv

(* A step of the cycle reports only what was chosen, and chooses no more.  *)
LEMMA ProceedKeeps ==
  ASSUME TypeOK, ReportsInv, Proceed
  PROVE  /\ ReportsInv'
         /\ cycle'.universe = cycle.universe /\ cycle'.target = cycle.target
<1> DEFINE Kept == /\ ReportsInv'
                   /\ cycle'.universe = cycle.universe /\ cycle'.target = cycle.target
<1>1. cycle \in CycleType
  BY DEF TypeOK
<1>2. ASSUME NEW place, NEW i, Announcing(place, i)
      PROVE  Kept
  BY <1>1, <1>2 DEF Announcing, CycleType, ReportsInv
<1>3. CASE Announce
  <2>1. Report(cycle.current, Wanted(cycle.current))
    BY <1>3 DEF Announce
  <2>2. Wanted(cycle.current) = "ACTIVE" => cycle.current \in cycle.target
    BY DEF Wanted
  <2> QED
    BY <1>1, <2>1, <2>2, ReportedAreTargets DEF CycleType
<1>4. CASE AnnounceRemoval
  <2>1. Report(cycle.current, "NONE")
    BY <1>4 DEF AnnounceRemoval
  <2> QED
    BY <1>1, <2>1, ReportedAreTargets DEF CycleType
<1>5. ASSUME NEW i \in Instruments, LeaveOut(i) \/ Persist(i) \/ RemoveEntry(i)
      PROVE  Kept
  <2>1. ASSUME NEW state, state = "ACTIVE" => i \in cycle.target, Report(i, state)
        PROVE  Kept
    BY <2>1, ReportedAreTargets
  <2>2. ASSUME NEW place, Announcing(place, i)
        PROVE  Kept
    BY <1>2, <2>2
  <2> HIDE DEF Kept
  <2>3. /\ Wanted(i) = "ACTIVE" => i \in cycle.target
        /\ ReportedUnpersisted(i) = "ACTIVE" => i \in cycle.target
    BY DEF Wanted, ReportedUnpersisted
  <2>4. CASE LeaveOut(i)
    BY <2>1, <2>4 DEF LeaveOut
  <2>5. CASE Persist(i)
    BY <2>1, <2>2, <2>3, <2>5 DEF Persist
  <2>6. CASE RemoveEntry(i)
    BY <2>1, <2>2, <2>6 DEF RemoveEntry
  <2> QED
    BY <1>5, <2>4, <2>5, <2>6
<1> QED
  BY <1>3, <1>4, <1>5 DEF Proceed

(* Every step keeps the invariant.                                         *)
LEMMA SelectionInvNext ==
  ASSUME TypeOK, SelectionInv, [SelectionNext]_selectionVars
  PROVE  SelectionInv'
<1>1. CASE StartSelection
  <2>1. cycle.at = "down" /\ cycle' = [cycle EXCEPT !.at = "idle"]
    BY <1>1 DEF StartSelection, Start
  <2>2. /\ cycle'.final = cycle.final
        /\ cycle'.universe = cycle.universe /\ cycle'.target = cycle.target
    BY <2>1 DEF TypeOK, CycleType
  <2> QED
    BY <1>1, <2>2 DEF StartSelection, SelectionInv, ReportsInv
<1>2. CASE BeginSelection
  <2>1. PICK universe \in Universes :
            Begin(universe, Chosen(universe, Decisions[clock'][seen']))
    BY <1>2 DEF BeginSelection
  <2>2. /\ cycle'.final = NotListed /\ cycle'.universe = universe
        /\ cycle'.target = Chosen(universe, Decisions[clock'][seen'])
    BY <2>1 DEF Begin
  <2>3. clock' \in Instants /\ seen' \in Situations
    BY <1>2 DEF BeginSelection
  <2> QED
    BY <2>2, <2>3 DEF SelectionInv, ReportsInv, NotListed
<1>3. CASE ProceedSelection
  <2>1. /\ ReportsInv'
        /\ cycle'.universe = cycle.universe /\ cycle'.target = cycle.target
    BY <1>3, ProceedKeeps DEF ProceedSelection, SelectionInv
  <2> QED
    BY <1>3, <2>1 DEF ProceedSelection, SelectionInv
<1>4. CASE EndSelection
  <2>1. /\ cycle'.final = cycle.final /\ cycle'.target = cycle.target
    BY <1>4 DEF EndSelection, EndCycle, TypeOK, CycleType
  <2> QED
    BY <1>4, <2>1 DEF EndSelection, SelectionInv, ReportsInv
<1>5. CASE CrashSelection
  <2>1. cycle'.final = NotListed
    BY <1>5 DEF CrashSelection, Crash, NoCycle
  <2> QED
    BY <1>5, <2>1 DEF CrashSelection, SelectionInv, ReportsInv, NotListed
<1>6. CASE UNCHANGED selectionVars
  BY <1>6 DEF selectionVars, vars, SelectionInv, ReportsInv
<1> QED
  BY <1>1, <1>2, <1>3, <1>4, <1>5, <1>6 DEF SelectionNext, Service

(* What was read, chosen and reported is sound.                            *)
LEMMA SelectionInvIsSound ==
  ASSUME DefaultSettings, TypeOK, SelectionInv
  PROVE  ListedMarketsAreSound
<1> SUFFICES ASSUME NEW i \in Instruments, seen # None, cycle.final[i] = "ACTIVE"
             PROVE  LET row == seen[i].row
                        feed == seen[i].feed
                        class == Classify(i, row)
                        usual == Thresholds[IF class = "EQUITY" THEN class ELSE "CRYPTO"].spread
                        limit == usual * (IF ThinLiquidity(class, clock) THEN 7 ELSE 10)
                        decision == Decisions[clock][seen]
                    IN  /\ i \in Allowlist \ Selection.denylist
                        /\ row.enabled /\ row.status = "ACTIVE"
                        /\ class \in Selection.allowedClasses
                        /\ class = "EQUITY" => Trading(clock)
                        /\ feed.quality = "HEALTHY" /\ feed.reliable /\ Current(feed.bookAge)
                        /\ feed.quote * 10 < limit
                        /\ \A j \in (cycle.universe \cap Allowlist) \ cycle.target :
                               decision[j].status = "ELIGIBLE"
                                   => decision[j].score <= decision[i].score
  BY Zenon DEF ListedMarketsAreSound
<1> DEFINE decision == Decisions[clock][seen]
           eligible == {j \in cycle.universe : decision[j].status = "ELIGIBLE"}
<1>1. /\ clock \in Instants /\ seen \in Situations /\ cycle.universe \in Universes
      /\ cycle.target = Chosen(cycle.universe, decision)
      /\ i \in cycle.target
  BY DEF SelectionInv, ReportsInv
<1>2. /\ cycle.target \subseteq eligible
      /\ IsTarget(cycle.target, eligible)
      /\ \A j \in (eligible \cap Allowlist) \ cycle.target :
             decision[j].score <= decision[i].score
  <2> DEFINE chosen == Chosen(cycle.universe, decision)
  <2>1. /\ chosen \subseteq eligible
        /\ IsTarget(chosen, eligible)
        /\ \A k \in chosen : \A j \in (eligible \cap Allowlist) \ chosen :
               decision[j].score <= decision[k].score
    BY <1>1, ChosenIsTarget, Zenon
  <2>2. cycle.target = chosen
    BY <1>1
  <2> HIDE DEF chosen, eligible, decision
  <2> QED
    BY <1>1, <2>1, <2>2
<1>3. i \in Allowlist /\ decision[i].status = "ELIGIBLE"
  <2> HIDE DEF decision
  <2> QED
    BY <1>1, <1>2 DEF IsTarget
<1>4. \A j \in (cycle.universe \cap Allowlist) \ cycle.target :
         decision[j].status = "ELIGIBLE" => decision[j].score <= decision[i].score
  <2> HIDE DEF decision
  <2> QED
    BY <1>2
<1>5. seen[i].row \in Rows /\ seen[i].feed \in Feeds
  BY <1>1, MarketSelectionAssumption
<1>6. Decide(i, seen[i].row, seen[i].feed, clock).status = "ELIGIBLE"
  BY <1>1, <1>3, DecisionsType
<1> DEFINE row == seen[i].row
           feed == seen[i].feed
           class == Classify(i, row)
           usual == Thresholds[IF class = "EQUITY" THEN class ELSE "CRYPTO"].spread
           limit == usual * (IF ThinLiquidity(class, clock) THEN 7 ELSE 10)
<1>7. /\ i \notin Selection.denylist
      /\ row.enabled /\ row.status = "ACTIVE"
      /\ class \in Selection.allowedClasses
      /\ class = "EQUITY" => Trading(clock)
      /\ feed.quality = "HEALTHY" /\ feed.reliable /\ Current(feed.bookAge)
      /\ feed.quote * 10 < limit
  <2>1. row \in Rows /\ feed \in Feeds /\ clock \in Instants
    BY <1>1, <1>5
  <2>2. Decide(i, row, feed, clock).status = "ELIGIBLE"
    BY <1>6
  <2> HIDE DEF row, feed
  <2> QED
    BY <2>1, <2>2, EligibleIsSound
<1> QED
  BY <1>3, <1>4, <1>7

(***************************************************************************)
(* With the default settings, whatever is read and whatever fails: what a  *)
(* cycle reports active was allowed, known and enabled, its exchange was   *)
(* open, its data healthy, its spread below the limit of the hour, and no  *)
(* better instrument was left out.                                         *)
(***************************************************************************)
THEOREM ListedMarketsAreSoundHolds ==
  ASSUME DefaultSettings
  PROVE  SelectionSpec => []ListedMarketsAreSound
<1>1. SelectionInit => SelectionInv
  BY DEF SelectionInit, SelectionInv, ReportsInv, Init, NoCycle, NotListed
<1>2. TypeOK /\ SelectionInv /\ [SelectionNext]_selectionVars => SelectionInv'
  BY SelectionInvNext
<1>3. SelectionSpec => []TypeOK
  BY ImplementsWatchlistHolds, TypeOKHolds, PTL DEF ImplementsWatchlist
<1>4. TypeOK /\ SelectionInv => ListedMarketsAreSound
  BY SelectionInvIsSound
<1> QED
  BY <1>1, <1>2, <1>3, <1>4, PTL DEF SelectionSpec

-----------------------------------------------------------------------------
(* What is foretold.                                                       *)

(* The opening and closing times come in their order.                      *)
LEMMA TimesOfDay ==
  ASSUME NEW day
  PROVE  /\ EquitySettings.open \in 0 .. SlotsPerDay - 1
         /\ CloseTime(day) \in 0 .. SlotsPerDay - 1 /\ AfterHoursEnd \in 0 .. SlotsPerDay - 1
         /\ EquitySettings.open < CloseTime(day) /\ CloseTime(day) <= AfterHoursEnd
<1>1. /\ EquitySettings.open \in 0 .. SlotsPerDay - 1
      /\ EquitySettings.close \in 0 .. SlotsPerDay - 1
      /\ EquitySettings.earlyClose \in 0 .. SlotsPerDay - 1
      /\ EquitySettings.open < EquitySettings.earlyClose
      /\ EquitySettings.earlyClose <= EquitySettings.close
      /\ EquitySettings.close <= AfterHoursEnd
  BY SessionsAssumption
<1> QED
  BY <1>1 DEF CloseTime, AfterHoursEnd, SlotsPerDay

(* A time of a trading day that is still to come, of what it begins and    *)
(* what holds until then.                                                  *)
LEMMA TransitionAt ==
  ASSUME NEW t \in Instants, NEW day \in Int, TradingDay(day),
         NEW slot \in 0 .. SlotsPerDay - 1, Local(t) < day * SlotsPerDay + slot
  PROVE  LET next == ToUtc(day * SlotsPerDay + slot)
         IN  /\ next \in Int /\ t < next /\ t \in Int
             /\ Trading(next) <=> slot \in EquitySettings.open .. CloseTime(day) - 1
             /\ \A v \in t .. next - 1 :
                   /\ Local(v) \in Int /\ Local(v) < day * SlotsPerDay + slot
                   /\ DayOf(Local(t)) <= DayOf(Local(v)) /\ DayOf(Local(v)) <= day
                   /\ TradingDay(DayOf(Local(t))) => Local(t) <= Local(v)
<1> DEFINE local == day * SlotsPerDay + slot
           next == ToUtc(local)
<1>1. local \in Int /\ DayOf(local) = day /\ TimeOf(local) = slot
  <2>1. local \in Int
    BY DEF SlotsPerDay
  <2> QED
    BY <2>1, DayAndTimeOf
<1> HIDE DEF local
<1>2. /\ next \in Int /\ t < next /\ Local(next) = local
      /\ \A v \in Int : t <= v /\ v < next => Local(v) < local
  BY <1>1, ToUtcIsReached DEF local
<1>3. t \in Int /\ Known(t)
  BY MarketSelectionAssumption, OffsetType DEF Known, SlotsPerDay
<1> HIDE DEF next
<1>4. Trading(next) <=> slot \in EquitySettings.open .. CloseTime(day) - 1
  BY <1>1, <1>2 DEF Trading
<1>5. ASSUME NEW v \in t .. next - 1
      PROVE  /\ Local(v) \in Int /\ Local(v) < local
             /\ DayOf(Local(t)) <= DayOf(Local(v)) /\ DayOf(Local(v)) <= day
             /\ TradingDay(DayOf(Local(t))) => Local(t) <= Local(v)
  <2>1. v \in Int /\ t <= v /\ v < next
    BY <1>2, <1>3
  <2>2. Known(v)
    BY <1>3, <2>1, OffsetType DEF Known
  <2>3. Local(v) \in Int /\ Local(t) \in Int
    BY <1>3, <2>2, LocalType
  <2>4. Local(v) < local
    BY <1>2, <2>1
  <2>5. DayOf(Local(v)) <= day
    BY <1>1, <2>3, <2>4, DaysAreOrdered
  <2> QED
    BY <1>3, <2>1, <2>3, <2>4, <2>5, DaysGoOn, ReachedStays
<1> QED
  BY <1>2, <1>3, <1>4, <1>5 DEF next, local

(* The next open is the first after a time.                                *)
LEMMA NextOpenIsFirst ==
  ASSUME NEW local \in Int, NextOpenAfter(local) # None
  PROVE  \E day \in Int :
            /\ TradingDay(day) /\ local < day * SlotsPerDay + EquitySettings.open
            /\ NextOpenAfter(local) = ToUtc(day * SlotsPerDay + EquitySettings.open)
            /\ \A d \in Int :
                  (/\ TradingDay(d) /\ DayOf(local) <= d
                   /\ local < d * SlotsPerDay + EquitySettings.open) => day <= d
<1> DEFINE Opening(day) == day * SlotsPerDay + EquitySettings.open
           days == DayOf(local) .. DayOf(local) + 13
           ends == {day \in days : day \notin Calendar.covered}
           opens == {day \in days : /\ TradingDay(day) /\ Opening(day) > local
                                    /\ \A end \in ends : day < end}
<1>1. NextOpenAfter(local) = IF opens = {} THEN None ELSE ToUtc(Opening(Min(opens)))
  BY Zenon DEF NextOpenAfter
<1>2. opens # {} /\ NextOpenAfter(local) = ToUtc(Opening(Min(opens)))
  BY <1>1, Zenon
<1>3. DayOf(local) \in Int
  BY DaysAndTimes
<1>4. \A day \in opens : day \in Int /\ DayOf(local) <= day
  BY <1>3
<1>5. PICK day \in opens : \A d \in opens : day <= d
  <2> HIDE DEF opens
  <2> QED
    BY <1>2, <1>3, <1>4, LeastFrom
<1>6. Min(opens) = day
  <2> HIDE DEF opens
  <2> QED
    BY <1>4, <1>5, LeastIsMin
<1>7. EquitySettings.open \in Int /\ Opening(day) \in Int
  BY <1>4, TimesOfDay DEF SlotsPerDay
<1>8. /\ day \in Int /\ TradingDay(day) /\ local < Opening(day) /\ day \in days
      /\ \A end \in ends : day < end
  BY <1>3, <1>5, <1>7
<1>9. ASSUME NEW d \in Int, TradingDay(d) /\ DayOf(local) <= d /\ local < Opening(d)
      PROVE  day <= d
  <2> SUFFICES ASSUME d < day
               PROVE  FALSE
    BY <1>8
  <2>1. d \in days /\ Opening(d) > local
    BY <1>3, <1>8, <1>7, <1>9 DEF SlotsPerDay
  <2>2. \A end \in ends : d < end
    BY <1>3, <1>8
  <2>3. d \in opens
    BY <1>9, <2>1, <2>2
  <2> QED
    BY <1>5, <1>8, <2>3
<1>10. NextOpenAfter(local) = ToUtc(Opening(day))
  BY <1>2, <1>6
<1> HIDE DEF opens, days, ends
<1>11. \A d \in Int : (TradingDay(d) /\ DayOf(local) <= d /\ local < Opening(d)) => day <= d
  BY <1>9
<1> QED
  BY <1>8, <1>10, <1>11

(* What is said of the next open is true when the market is closed now and *)
(* has nothing left to open today.                                         *)
LEMMA OpenIsForetold ==
  ASSUME NEW t \in Instants, NextOpenAfter(Local(t)) # None,
         TradingDay(DayOf(Local(t))) => TimeOf(Local(t)) >= CloseTime(DayOf(Local(t)))
  PROVE  LET next == NextOpenAfter(Local(t))
         IN  /\ next > t /\ Trading(next) /\ ~Trading(t)
             /\ \A v \in t .. next - 1 : ~Trading(v)
<1> DEFINE now == Local(t)
           today == DayOf(now)
<1>1. now \in Int /\ today \in Int /\ TimeOf(now) \in 0 .. SlotsPerDay - 1
      /\ now = today * SlotsPerDay + TimeOf(now) /\ t \in Int
  <2>1. Known(t)
    BY MarketSelectionAssumption, OffsetType DEF Known, SlotsPerDay
  <2> QED
    BY <2>1, LocalType, DaysAndTimes DEF Known
<1>2. PICK day \in Int :
            /\ TradingDay(day) /\ now < day * SlotsPerDay + EquitySettings.open
            /\ NextOpenAfter(now) = ToUtc(day * SlotsPerDay + EquitySettings.open)
            /\ \A d \in Int :
                  (/\ TradingDay(d) /\ DayOf(now) <= d
                   /\ now < d * SlotsPerDay + EquitySettings.open) => day <= d
  BY <1>1, NextOpenIsFirst
<1> DEFINE next == NextOpenAfter(now)
<1>3. /\ next \in Int /\ t < next
      /\ Trading(next) <=> EquitySettings.open \in EquitySettings.open .. CloseTime(day) - 1
      /\ \A v \in t .. next - 1 :
            /\ Local(v) \in Int /\ Local(v) < day * SlotsPerDay + EquitySettings.open
            /\ DayOf(now) <= DayOf(Local(v)) /\ DayOf(Local(v)) <= day
            /\ TradingDay(DayOf(now)) => now <= Local(v)
  BY <1>2, TimesOfDay, TransitionAt
<1> HIDE DEF next
<1>4. Trading(next)
  BY <1>3, TimesOfDay
<1>5. ASSUME NEW v \in t .. next - 1, Trading(v)
      PROVE  FALSE
  <2> DEFINE d == DayOf(Local(v))
             time == TimeOf(Local(v))
  <2>1. /\ d \in Int /\ time \in 0 .. SlotsPerDay - 1
        /\ Local(v) = d * SlotsPerDay + time
    BY <1>3, DaysAndTimes
  <2>2. TradingDay(d) /\ EquitySettings.open <= time /\ time < CloseTime(d)
    BY <1>5, <2>1, TimesOfDay DEF Trading
  <2>3. Local(v) < day * SlotsPerDay + EquitySettings.open /\ today <= d /\ d <= day
    BY <1>3
  <2>4. EquitySettings.open \in 0 .. SlotsPerDay - 1 /\ CloseTime(d) \in 0 .. SlotsPerDay - 1
    BY TimesOfDay
  <2>5. CASE d = today
    <3>1. now <= Local(v) /\ CloseTime(d) <= TimeOf(now)
      BY <1>1, <1>3, <2>2, <2>4, <2>5
    <3> HIDE DEF d, time, now
    <3> QED
      BY <1>1, <2>1, <2>2, <2>4, <2>5, <3>1 DEF SlotsPerDay
  <2>6. CASE today < d
    <3> HIDE DEF d, time, now, today
    <3>1. now < d * SlotsPerDay + EquitySettings.open
      BY <1>1, <2>1, <2>4, <2>6 DEF SlotsPerDay
    <3>2. today <= d
      BY <1>1, <2>1, <2>6
    <3>3. day <= d
      BY <1>2, <2>1, <2>2, <3>1, <3>2 DEF today
    <3> QED
      BY <2>1, <2>2, <2>3, <2>4, <3>3 DEF SlotsPerDay
  <2>7. d = today \/ today < d
    BY <1>1, <2>1, <2>3
  <2> QED
    BY <2>5, <2>6, <2>7, Zenon
<1>6. ~Trading(t)
  BY <1>1, <1>3, <1>5
<1> QED
  BY <1>3, <1>4, <1>5, <1>6 DEF next

(* What is said of a time of this trading day: it is true when it opens,   *)
(* closes or ends the hours after the close, whichever comes next.         *)
LEMMA TodayIsForetold ==
  ASSUME NEW t \in Instants, TradingDay(DayOf(Local(t))),
         NEW slot \in 0 .. SlotsPerDay - 1,
         LET day == DayOf(Local(t))
             time == TimeOf(Local(t))
         IN  \/ time < EquitySettings.open /\ slot = EquitySettings.open
             \/ time \in EquitySettings.open .. CloseTime(day) - 1 /\ slot = CloseTime(day)
             \/ CloseTime(day) <= time /\ time < slot
  PROVE  LET next == ToUtc(DayOf(Local(t)) * SlotsPerDay + slot)
         IN  /\ next > t
             /\ \A v \in t .. next - 1 : Trading(v) = Trading(t)
             /\ TimeOf(Local(t)) < CloseTime(DayOf(Local(t))) => Trading(next) # Trading(t)
<1> DEFINE now == Local(t)
           day == DayOf(now)
           time == TimeOf(now)
           next == ToUtc(day * SlotsPerDay + slot)
<1>1. now \in Int /\ day \in Int /\ time \in 0 .. SlotsPerDay - 1
      /\ now = day * SlotsPerDay + time /\ t \in Int
  <2>1. Known(t)
    BY MarketSelectionAssumption, OffsetType DEF Known, SlotsPerDay
  <2> QED
    BY <2>1, LocalType, DaysAndTimes DEF Known
<1>2. /\ EquitySettings.open \in 0 .. SlotsPerDay - 1
      /\ CloseTime(day) \in 0 .. SlotsPerDay - 1 /\ EquitySettings.open < CloseTime(day)
  BY TimesOfDay
<1>3. \/ time < EquitySettings.open /\ slot = EquitySettings.open
      \/ time \in EquitySettings.open .. CloseTime(day) - 1 /\ slot = CloseTime(day)
      \/ CloseTime(day) <= time /\ time < slot
  OBVIOUS
<1>4. time < slot
  BY <1>1, <1>2, <1>3
<1>5. /\ next \in Int /\ t < next
      /\ Trading(next) <=> slot \in EquitySettings.open .. CloseTime(day) - 1
      /\ \A v \in t .. next - 1 :
            /\ Local(v) \in Int /\ Local(v) < day * SlotsPerDay + slot
            /\ day <= DayOf(Local(v)) /\ DayOf(Local(v)) <= day /\ now <= Local(v)
  <2>1. now < day * SlotsPerDay + slot
    BY <1>1, <1>4 DEF SlotsPerDay
  <2> QED
    BY <1>1, <2>1, TransitionAt
<1> HIDE DEF next
<1>6. ASSUME NEW v \in t .. next - 1
      PROVE  Trading(v) <=> time \in EquitySettings.open .. CloseTime(day) - 1
  <2>1. /\ DayOf(Local(v)) \in Int /\ TimeOf(Local(v)) \in 0 .. SlotsPerDay - 1
        /\ Local(v) = DayOf(Local(v)) * SlotsPerDay + TimeOf(Local(v))
    BY <1>5, DaysAndTimes
  <2>2. DayOf(Local(v)) = day
    BY <1>1, <1>5, <2>1
  <2>3. time <= TimeOf(Local(v)) /\ TimeOf(Local(v)) < slot
    BY <1>1, <1>5, <2>1, <2>2 DEF SlotsPerDay
  <2>4. Trading(v) <=> TimeOf(Local(v)) \in EquitySettings.open .. CloseTime(day) - 1
    BY <2>2 DEF Trading
  <2> QED
    BY <1>1, <1>2, <1>3, <2>1, <2>3, <2>4
<1>7. Trading(t) <=> time \in EquitySettings.open .. CloseTime(day) - 1
  BY DEF Trading
<1>8. \A v \in {t, next} : Trading(v) \in BOOLEAN
  BY DEF Trading
<1>9. \A v \in t .. next - 1 : Trading(v) = Trading(t)
  BY <1>6, <1>7 DEF Trading
<1>10. time < CloseTime(day) => Trading(next) # Trading(t)
  BY <1>1, <1>2, <1>3, <1>5, <1>7
<1> QED
  BY <1>5, <1>9, <1>10 DEF next

(* So every session foretells what comes next.                             *)
LEMMA EveryInstantForetells ==
  ASSUME NEW t \in Instants
  PROVE  Foretold(t)
<1> DEFINE equity == EvaluateEquity(t)
           now == Local(t)
           day == DayOf(now)
           time == TimeOf(now)
           phase == Phase(day, now)
<1>1. now \in Int /\ day \in Int /\ time \in 0 .. SlotsPerDay - 1
  <2>1. Known(t)
    BY MarketSelectionAssumption, OffsetType DEF Known, SlotsPerDay
  <2> QED
    BY <2>1, LocalType, DaysAndTimes
<1>2. /\ EquitySettings.open \in 0 .. SlotsPerDay - 1
      /\ CloseTime(day) \in 0 .. SlotsPerDay - 1 /\ AfterHoursEnd \in 0 .. SlotsPerDay - 1
      /\ EquitySettings.open < CloseTime(day)
  BY TimesOfDay
<1>3. CASE equity = Unavailable
  BY <1>3 DEF Foretold, Unavailable
<1>4. CASE day \in Calendar.covered /\ equity = phase
  <2>1. ASSUME phase.nextAt = NextOpenAfter(now),
               TradingDay(day) => time >= CloseTime(day)
        PROVE  Foretold(t)
    <3>1. ASSUME equity.nextAt # None
          PROVE  /\ equity.nextAt > t /\ Trading(equity.nextAt) /\ ~Trading(t)
                 /\ \A v \in t .. equity.nextAt - 1 : ~Trading(v)
      <4>1. equity.nextAt = NextOpenAfter(now) /\ NextOpenAfter(now) # None
        BY <1>4, <2>1, <3>1
      <4> HIDE DEF equity, now
      <4> QED
        BY <2>1, <4>1, OpenIsForetold DEF now
    <3>2. \A v : Trading(v) \in BOOLEAN
      BY DEF Trading
    <3> HIDE DEF equity, phase
    <3> QED
      BY <3>1, <3>2, Zenon DEF Foretold, equity
  <2>2. ASSUME TradingDay(day), NEW slot \in 0 .. SlotsPerDay - 1,
               phase.nextAt = ToUtc(day * SlotsPerDay + slot),
               \/ time < EquitySettings.open /\ slot = EquitySettings.open
               \/ time \in EquitySettings.open .. CloseTime(day) - 1 /\ slot = CloseTime(day)
               \/ CloseTime(day) <= time /\ time < slot /\ phase.nextState = "EQUITY_CLOSED"
        PROVE  Foretold(t)
    <3>1. /\ equity.nextAt > t
          /\ \A v \in t .. equity.nextAt - 1 : Trading(v) = Trading(t)
          /\ time < CloseTime(day) => Trading(equity.nextAt) # Trading(t)
      <4>1. equity.nextAt = ToUtc(day * SlotsPerDay + slot)
        BY <1>4, <2>2
      <4> HIDE DEF equity, phase
      <4> QED
        BY <2>2, <4>1, TodayIsForetold
    <3>2. equity.nextState = "EQUITY_CLOSED" \/ time < CloseTime(day)
      BY <1>1, <1>2, <1>4, <2>2
    <3> HIDE DEF equity, phase, time, day, now
    <3> QED
      BY <3>1, <3>2, Zenon DEF Foretold, equity
  <2>3. CASE Weekend(day)
    <3>1. phase.nextAt = NextOpenAfter(now) /\ ~TradingDay(day)
      BY <2>3, Zenon DEF Phase, TradingDay
    <3> QED
      BY <2>1, <3>1
  <2>4. CASE ~Weekend(day) /\ day \in Calendar.holidays
    <3>1. phase.nextAt = NextOpenAfter(now) /\ ~TradingDay(day)
      BY <2>4, Zenon DEF Phase, TradingDay
    <3> QED
      BY <2>1, <3>1
  <2>5. CASE TradingDay(day) /\ time < EquitySettings.open
    <3>1. /\ ~Weekend(day) /\ day \notin Calendar.holidays
          /\ ~(time \in EquitySettings.open .. CloseTime(day) - 1)
          /\ ~(time >= CloseTime(day))
      BY <1>1, <1>2, <2>5 DEF TradingDay
    <3>2. phase.nextAt = ToUtc(day * SlotsPerDay + EquitySettings.open)
      BY <2>5, <3>1, Zenon DEF Phase
    <3> QED
      BY <1>2, <2>2, <2>5, <3>2
  <2>6. CASE TradingDay(day) /\ time \in EquitySettings.open .. CloseTime(day) - 1
    <3>1. /\ ~Weekend(day) /\ day \notin Calendar.holidays
          /\ ~(time < EquitySettings.open) /\ ~(time >= CloseTime(day))
      BY <1>1, <1>2, <2>6 DEF TradingDay
    <3>2. phase.nextAt = ToUtc(day * SlotsPerDay + CloseTime(day))
      BY <2>6, <3>1, Zenon DEF Phase
    <3> QED
      BY <1>2, <2>2, <2>6, <3>2
  <2>7. CASE TradingDay(day) /\ time >= CloseTime(day)
    <3>1. /\ ~Weekend(day) /\ day \notin Calendar.holidays
          /\ ~(time \in EquitySettings.open .. CloseTime(day) - 1)
          /\ ~(time < EquitySettings.open)
      BY <1>1, <1>2, <2>7 DEF TradingDay
    <3>2. CASE EquitySettings.afterHours /\ time < AfterHoursEnd
      <4>1. /\ phase.nextAt = ToUtc(day * SlotsPerDay + AfterHoursEnd)
            /\ phase.nextState = "EQUITY_CLOSED"
        BY <2>7, <3>1, <3>2, Zenon DEF Phase
      <4>2. CloseTime(day) <= time
        BY <1>1, <1>2, <2>7
      <4> QED
        BY <1>2, <2>2, <2>7, <3>2, <4>1, <4>2
    <3>3. CASE ~(EquitySettings.afterHours /\ time < AfterHoursEnd)
      <4>1. phase.nextAt = NextOpenAfter(now)
        BY <2>7, <3>1, <3>3, Zenon DEF Phase
      <4> QED
        BY <2>1, <2>7, <4>1
    <3> QED
      BY <3>2, <3>3
  <2>8. \/ Weekend(day) \/ (~Weekend(day) /\ day \in Calendar.holidays)
        \/ (TradingDay(day) /\ time < EquitySettings.open)
        \/ (TradingDay(day) /\ time \in EquitySettings.open .. CloseTime(day) - 1)
        \/ (TradingDay(day) /\ time >= CloseTime(day))
    BY <1>1, <1>2, <1>4 DEF TradingDay
  <2> QED
    BY <2>3, <2>4, <2>5, <2>6, <2>7, <2>8
<1>5. equity = Unavailable \/ (day \in Calendar.covered /\ equity = phase)
  BY Zenon DEF EvaluateEquity
<1> QED
  BY <1>3, <1>4, <1>5

(***************************************************************************)
(* For every calendar, whatever offsets New York has had and as long as    *)
(* its clocks change on days without trading: what the risk engine and the *)
(* operators are told of the next transition is true to the half hour.     *)
(***************************************************************************)
THEOREM TransitionsAreForetoldHolds == SelectionSpec => []TransitionsAreForetold
<1> DEFINE ClockInv == clock \in Instants
<1>1. TransitionsAreForetold <=> ClockInv
  BY EveryInstantForetells DEF TransitionsAreForetold, TruthfulInstants
<1>2. SelectionInit => ClockInv
  <2>1. PICK first \in Instants : \A t \in Instants : t \in Int /\ first <= t
    BY MarketSelectionAssumption
  <2>2. Min(Instants) = first
    BY <2>1, LeastIsMin
  <2> QED
    BY <2>2 DEF SelectionInit
<1>3. ClockInv /\ [SelectionNext]_selectionVars => ClockInv'
  BY DEF SelectionNext, Service, StartSelection, BeginSelection, ProceedSelection,
         EndSelection, CrashSelection, selectionVars
<1> QED
  BY <1>1, <1>2, <1>3, PTL DEF SelectionSpec

=============================================================================
