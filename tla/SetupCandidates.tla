--------------------------- MODULE SetupCandidates ---------------------------
(***************************************************************************)
(* Setup candidates and the job that writes them                           *)
(* (src/app/jobs/strategy_evaluation_refresh.py and                        *)
(* src/app/repositories/setup_candidate_repository.py), for one            *)
(* instrument: the job evaluates the instruments of a cycle concurrently,  *)
(* but they share nothing, and the expiry that follows treats every row    *)
(* alone.  Nobody else writes candidates and an instrument is dealt with   *)
(* sequentially, so a read and the write that depends on it are one        *)
(* action; every write is one, may fail, and may be the last of a process. *)
(* Scores are abstract, see Weaker, and so is expiry: any active row may   *)
(* be overdue when the job looks.                                          *)
(***************************************************************************)
EXTENDS Absence, Integers, FiniteSets

CONSTANTS
    Candidates,         \* bound: the candidates there will ever be
    Keys,               \* dedupe keys: type, direction, level
    DirectionOf,        \* the direction that is part of a key
    MaxCandidates,      \* max_active_candidates_per_instrument
    MaxCrashes,         \* bound: crashes of the process
    MaxFaults           \* bound: database transactions that fail

ASSUME SetupAssumption ==
    /\ IsFiniteSet(Candidates)
    /\ None \notin Candidates \cup Keys
    /\ \A key \in Keys : DirectionOf[key] \in {"LONG", "SHORT"}
    /\ MaxCandidates \in Nat
    /\ MaxCrashes \in Nat
    /\ MaxFaults \in Nat

VARIABLES
    candidates,     \* setup_candidates: id -> row
    candidateEvent, \* setup_candidate_events: id -> state of the last event
    recent,         \* memory: keys of candidates this process closed
    strategy,       \* where the strategy job stands
    crashes,        \* crashes so far
    faults          \* failed transactions so far

vars == <<candidates, candidateEvent, recent, strategy, crashes, faults>>

CandidateState == {"DETECTED", "CONFIRMED", "EXPIRED", "SUPERSEDED"}

ActiveStates == {"DETECTED", "CONFIRMED"}

(***************************************************************************)
(* A row: its state, its dedupe key and whether that is its active_key     *)
(* too, and whether it closed within the dedupe window.                    *)
(***************************************************************************)
NoCandidate ==
    [state |-> "NONE", key |-> None, slot |-> FALSE, lately |-> FALSE]

(***************************************************************************)
(* The job's place, the directions whose best setup was taken up, the      *)
(* candidates written for them, the setup and the candidate at hand, and   *)
(* the rows a loop still has to visit.                                     *)
(***************************************************************************)
NoStrategyCycle ==
    [at |-> "down", taken |-> {}, written |-> {}, setup |-> None,
     current |-> None, todo |-> {}]

Init ==
    /\ candidates = [c \in Candidates |-> NoCandidate]
    /\ candidateEvent = [c \in Candidates |-> "NONE"]
    /\ recent = {}
    /\ strategy = NoStrategyCycle
    /\ crashes = 0
    /\ faults = 0

DatabaseFails == faults < MaxFaults /\ faults' = faults + 1

DatabaseWorks == UNCHANGED faults

Active(c) == candidates[c].state \in ActiveStates

ActiveCandidates == {c \in Candidates : Active(c)}

Unused == {c \in Candidates : candidates[c] = NoCandidate}

(* The active row with this key; active_key is unique.                     *)
Existing(key) == {c \in Candidates : candidates[c].slot /\ candidates[c].key = key}

(***************************************************************************)
(* Active candidates of the other direction with a lower score.  Setups    *)
(* are admitted in the order of their scores, so what this evaluation      *)
(* wrote is not among them; of the others any may be.                      *)
(***************************************************************************)
Weaker(setup) ==
    SUBSET {c \in ActiveCandidates \ strategy.written :
                DirectionOf[candidates[c].key] # DirectionOf[setup.key]}

(* Mutant: the candidate about to be inserted is forgotten.                *)
HasRoomOffByOne == Cardinality(ActiveCandidates) <= MaxCandidates

HasRoom == Cardinality(ActiveCandidates) < MaxCandidates

Setup == [key : Keys, confirmed : BOOLEAN]

(***************************************************************************)
(* The evaluation of the instrument.  It finds at most one setup per       *)
(* direction, which one is chosen when it is taken up; nothing new to      *)
(* evaluate, a rejection and a pause find none.  An end of data validity   *)
(* expires every active row instead.                                       *)
(***************************************************************************)
BeginEvaluation ==
    /\ strategy.at = "idle"
    /\ \/ strategy' = [strategy EXCEPT !.at = "admit"]
       \/ strategy' = [strategy EXCEPT !.at = "data_loss", !.todo = ActiveCandidates]
    /\ UNCHANGED <<candidates, candidateEvent, recent, faults>>

(* transition(): it asks for neither the state before nor the key.         *)
Moved(c, state) ==
    [candidates EXCEPT ![c].state = state,
                       ![c].slot = @ /\ state \in ActiveStates,
                       ![c].lately = state \notin ActiveStates]

(* Mutant: memory holds one key only.                                      *)
RememberedLast(c) == {candidates[c].key}

Remembered(c) == recent \cup {candidates[c].key}

(* Row, active key and event change in one transaction, then memory.       *)
Close(c, state) ==
    /\ candidates' = Moved(c, state)
    /\ candidateEvent' = [candidateEvent EXCEPT ![c] = state]
    /\ recent' = Remembered(c)
    /\ DatabaseWorks

(* A transaction fails: nothing is written, the exception is swallowed.    *)
CandidateWriteFails ==
    /\ DatabaseFails
    /\ UNCHANGED <<candidates, candidateEvent, recent>>

ExpireForDataLoss(c) ==
    /\ strategy.at = "data_loss"
    /\ c \in strategy.todo
    /\ \/ /\ Close(c, "EXPIRED")
          /\ strategy' = [strategy EXCEPT !.todo = @ \ {c}]
       \/ /\ CandidateWriteFails
          /\ strategy' = [strategy EXCEPT !.todo = {}]

Admitting(setup) ==
    strategy.at = "admit" /\ DirectionOf[setup.key] \notin strategy.taken

Confirms(setup) ==
    setup.confirmed /\ \E c \in Existing(setup.key) : candidates[c].state = "DETECTED"

(* Done with this setup, which wrote these candidates.                     *)
Admitted(setup, written) ==
    strategy' = [strategy EXCEPT !.at = "admit",
                                 !.taken = @ \cup {DirectionOf[setup.key]},
                                 !.written = @ \cup written,
                                 !.setup = None, !.current = None, !.todo = {}]

(* An existing candidate gets its additional confirmation.                 *)
ConfirmExisting(setup) ==
    /\ Admitting(setup)
    /\ Confirms(setup)
    /\ \/ \E c \in Existing(setup.key) :
              /\ candidates' = Moved(c, "CONFIRMED")
              /\ candidateEvent' = [candidateEvent EXCEPT ![c] = "CONFIRMED"]
              /\ Admitted(setup, {c})
              /\ DatabaseWorks
              /\ UNCHANGED recent
       \/ CandidateWriteFails /\ Admitted(setup, {})

(* The process remembers that it closed this setup within the window.      *)
ClosedLately(key) ==
    key \in recent /\ \E c \in Candidates : candidates[c].key = key /\ candidates[c].lately

(* Suppressed: it exists already, or was closed only lately.               *)
SuppressSetup(setup) ==
    /\ Admitting(setup)
    /\ ~Confirms(setup)
    /\ Existing(setup.key) # {} \/ ClosedLately(setup.key)
    /\ Admitted(setup, {})
    /\ UNCHANGED <<candidates, candidateEvent, recent, faults>>

(* A new one; a confirmed one supersedes weaker ones of the other side.    *)
TakeUpSetup(setup) ==
    /\ Admitting(setup)
    /\ Existing(setup.key) = {}
    /\ ~ClosedLately(setup.key)
    /\ \E weaker \in Weaker(setup) :
           /\ ~setup.confirmed => weaker = {}
           /\ strategy' = [strategy EXCEPT !.at = "supersede", !.setup = setup,
                                           !.todo = weaker]
    /\ UNCHANGED <<candidates, candidateEvent, recent, faults>>

SupersedeCandidate(c) ==
    /\ strategy.at = "supersede"
    /\ c \in strategy.todo
    /\ \/ /\ Close(c, "SUPERSEDED")
          /\ strategy' = [strategy EXCEPT !.todo = @ \ {c}]
       \/ /\ CandidateWriteFails
          /\ Admitted(strategy.setup, {})

(***************************************************************************)
(* insert_new: the row, then its event in a transaction of its own.  There *)
(* is no row with the limit reached, the active key taken, or no id left   *)
(* (bound).                                                                *)
(***************************************************************************)
InsertCandidate ==
    LET setup == strategy.setup
        c     == CHOOSE c \in Unused : TRUE
        fits  == HasRoom /\ Existing(setup.key) = {} /\ Unused # {}
    IN  /\ strategy.at = "supersede"
        /\ strategy.todo = {}
        /\ \/ /\ fits
              /\ candidates' = [candidates EXCEPT ![c] =
                    [state |-> IF setup.confirmed THEN "CONFIRMED" ELSE "DETECTED",
                     key |-> setup.key, slot |-> TRUE, lately |-> FALSE]]
              /\ strategy' = [strategy EXCEPT !.at = "event", !.current = c]
              /\ DatabaseWorks
              /\ UNCHANGED <<candidateEvent, recent>>
           \/ /\ ~fits
              /\ Admitted(setup, {})
              /\ UNCHANGED <<candidates, candidateEvent, recent, faults>>
           \/ /\ CandidateWriteFails
              /\ Admitted(setup, {})

RecordCandidate ==
    LET c == strategy.current
    IN  /\ strategy.at = "event"
        /\ \/ /\ candidateEvent' = [candidateEvent EXCEPT ![c] = candidates[c].state]
              /\ DatabaseWorks
           \/ DatabaseFails /\ UNCHANGED candidateEvent
        /\ Admitted(strategy.setup, {c})
        /\ UNCHANGED <<candidates, recent>>

(* _expire_candidates, once the instruments are done.                      *)
BeginExpiry ==
    /\ \/ strategy.at = "admit"
       \/ strategy.at = "data_loss" /\ strategy.todo = {}
    /\ \E overdue \in SUBSET ActiveCandidates :
           strategy' = [NoStrategyCycle EXCEPT !.at = "expire", !.todo = overdue]
    /\ UNCHANGED <<candidates, candidateEvent, recent, faults>>

ExpireCandidate(c) ==
    /\ strategy.at = "expire"
    /\ c \in strategy.todo
    /\ \/ /\ Close(c, "EXPIRED")
          /\ strategy' = [strategy EXCEPT !.todo = @ \ {c}]
       \/ /\ CandidateWriteFails
          /\ strategy' = [strategy EXCEPT !.todo = {}]

EndStrategyCycle ==
    /\ strategy.at = "expire"
    /\ strategy.todo = {}
    /\ strategy' = [NoStrategyCycle EXCEPT !.at = "idle"]
    /\ UNCHANGED <<candidates, candidateEvent, recent, faults>>

(* Time passes: a dedupe window ends.                                      *)
DedupeWindowEnds(c) ==
    /\ candidates[c].lately
    /\ candidates' = [candidates EXCEPT ![c].lately = FALSE]
    /\ UNCHANGED <<candidateEvent, recent, strategy, faults>>

Start ==
    /\ strategy.at = "down"
    /\ strategy' = [strategy EXCEPT !.at = "idle"]
    /\ UNCHANGED <<candidates, candidateEvent, recent, faults>>

(* The process dies and forgets which keys it closed.                      *)
Crash ==
    /\ strategy.at # "down"
    /\ crashes < MaxCrashes
    /\ crashes' = crashes + 1
    /\ strategy' = NoStrategyCycle
    /\ recent' = {}
    /\ UNCHANGED <<candidates, candidateEvent, faults>>

Step ==
    \/ Start \/ BeginEvaluation \/ InsertCandidate \/ RecordCandidate
    \/ BeginExpiry \/ EndStrategyCycle
    \/ \E setup \in Setup :
           ConfirmExisting(setup) \/ SuppressSetup(setup) \/ TakeUpSetup(setup)
    \/ \E c \in Candidates :
           \/ ExpireForDataLoss(c) \/ SupersedeCandidate(c) \/ ExpireCandidate(c)
           \/ DedupeWindowEnds(c)

Next == Crash \/ (Step /\ UNCHANGED crashes)

Spec == Init /\ [][Next]_vars

-----------------------------------------------------------------------------
(* Correctness properties.                                                 *)

(* The type invariant of table, events, memory and job.                    *)
TypeOK ==
    /\ candidates \in
         [Candidates -> [state : CandidateState \cup {"NONE"}, key : Keys \cup {None},
                         slot : BOOLEAN, lately : BOOLEAN]]
    /\ candidateEvent \in [Candidates -> CandidateState \cup {"NONE"}]
    /\ recent \subseteq Keys
    /\ strategy \in
         [at : {"down", "idle", "admit", "data_loss", "supersede", "event", "expire"},
          taken : SUBSET {"LONG", "SHORT"}, written : SUBSET Candidates,
          setup : Setup \cup {None}, current : Candidates \cup {None},
          todo : SUBSET Candidates]
    /\ crashes \in Nat
    /\ faults \in Nat

(***************************************************************************)
(* "maximal einen aktiven Kandidaten pro Setup": no two active candidates  *)
(* share a dedupe key, though transition() looks at neither key nor state. *)
(***************************************************************************)
OneActivePerKey ==
    \A c, d \in ActiveCandidates : candidates[c].key = candidates[d].key => c = d

(***************************************************************************)
(* "Erneutes Auftreten innerhalb STRATEGY_CANDIDATE_DEDUPE_SECONDS nach    *)
(* terminalem Zustand wird unterdrueckt": as long as no crash takes the    *)
(* memory, a setup that closed within the window is not opened again, by   *)
(* whatever way it closed.                                                 *)
(***************************************************************************)
ClosedSetupsStayAway ==
    [][crashes = 0 =>
        \A c, d \in Candidates :
            c \in Unused /\ Active(c)' /\ candidates[d].lately =>
                candidates'[c].key # candidates[d].key]_vars

(* The rows as the other jobs see them.                                    *)
Seen ==
    INSTANCE ResearchCandidates WITH
        candidates <- [c \in Candidates |-> candidates[c].state]

(***************************************************************************)
(* The job keeps what the other jobs rely on, whatever fails: the limit of *)
(* active candidates, no way back from a closed state, and an event with   *)
(* every transition.                                                       *)
(***************************************************************************)
ImplementsResearchCandidates == Seen!CandidatesSpec

=============================================================================
