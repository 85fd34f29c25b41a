---------------------------- MODULE Research_proofs ----------------------------
(***************************************************************************)
(* Research for every instance.  First the table of setup candidates:      *)
(* types, one active candidate per key, and the refinement of              *)
(* ResearchCandidates.  Then what the rules and the risk engine answer:    *)
(* what a proposed plan promises, and what a confirmed signal has seen.    *)
(***************************************************************************)
EXTENDS SetupCandidates, ResearchRules, FiniteSetTheorems, WellFoundedInduction, TLAPS

-----------------------------------------------------------------------------
(* The invariant.                                                          *)

CandidateRow ==
    [state : CandidateState \cup {"NONE"}, key : Keys \cup {None},
     slot : BOOLEAN, lately : BOOLEAN]

(***************************************************************************)
(* The table: exactly the active rows hold their slot, a row that exists   *)
(* has a key, one that does not is blank, and no two rows hold a slot for  *)
(* the same key.                                                           *)
(***************************************************************************)
TableInv ==
    /\ candidates \in [Candidates -> CandidateRow]
    /\ candidateEvent \in [Candidates -> CandidateState \cup {"NONE"}]
    /\ recent \subseteq Keys
    /\ \A c \in Candidates :
           /\ candidates[c].slot <=> Active(c)
           /\ candidates[c].state = "NONE" => candidates[c] = NoCandidate
           /\ candidates[c].state # "NONE" => candidates[c].key \in Keys
    /\ \A c, d \in Candidates :
           /\ candidates[c].slot /\ candidates[d].slot
           /\ candidates[c].key = candidates[d].key
           => c = d

StrategyType ==
    [at : {"down", "idle", "admit", "data_loss", "supersede", "event", "expire"},
     taken : SUBSET {"LONG", "SHORT"}, written : SUBSET Candidates,
     setup : Setup \cup {None}, current : Candidates \cup {None},
     todo : SUBSET Candidates]

(***************************************************************************)
(* What a place of the job implies: the rows still to be closed are open,  *)
(* a setup taken up is one, and a candidate whose event is due is open.    *)
(***************************************************************************)
JobInv ==
    /\ strategy \in StrategyType
    /\ strategy.todo \subseteq ActiveCandidates
    /\ strategy.at \in {"supersede", "event"} => strategy.setup \in Setup
    /\ strategy.at = "event" => strategy.current \in ActiveCandidates
    /\ crashes \in Nat
    /\ faults \in Nat

IInv == TableInv /\ JobInv

(* The invariant has the types.                                            *)
LEMMA InvTypes == IInv => TypeOK
  BY DEF IInv, TableInv, JobInv, TypeOK, CandidateRow, StrategyType

-----------------------------------------------------------------------------
(* What a step may do to the table.                                        *)

SameTable == UNCHANGED <<candidates, candidateEvent, recent>>

(* Row c moves from an open state.                                         *)
Moves(c, state) ==
    /\ c \in ActiveCandidates
    /\ candidates' = Moved(c, state)
    /\ candidateEvent' = [candidateEvent EXCEPT ![c] = state]
    /\ recent' = recent \/ recent' = Remembered(c)

(* Row c begins with this key, which no open row has.                      *)
Begins(c, key) ==
    /\ c \in Unused
    /\ key \in Keys
    /\ Existing(key) = {}
    /\ \E state \in ActiveStates :
           candidates' = [candidates EXCEPT ![c] =
               [state |-> state, key |-> key, slot |-> TRUE, lately |-> FALSE]]
    /\ UNCHANGED <<candidateEvent, recent>>

(* A table that stays the same keeps its open rows.                        *)
LEMMA SameTableKeeps ==
  ASSUME TableInv, SameTable
  PROVE  TableInv' /\ ActiveCandidates' = ActiveCandidates
  BY DEF TableInv, SameTable, ActiveCandidates, Active, Unused

(* A move takes or keeps the slot of one open row and touches no other.    *)
LEMMA MovesKeep ==
  ASSUME TableInv, NEW c, NEW state \in {"CONFIRMED", "EXPIRED", "SUPERSEDED"},
         Moves(c, state)
  PROVE  /\ TableInv'
         /\ state = "CONFIRMED" => ActiveCandidates' = ActiveCandidates
         /\ state # "CONFIRMED" => ActiveCandidates' = ActiveCandidates \ {c}
<1>1. c \in Candidates /\ Active(c) /\ candidates[c].slot /\ candidates[c].key \in Keys
  BY DEF TableInv, Moves, ActiveCandidates, Active, ActiveStates
<1> DEFINE open == state \in ActiveStates
           moved == [candidates[c] EXCEPT !.state = state, !.slot = open,
                                          !.lately = ~open]
<1>2. /\ candidates'[c] = moved
      /\ \A d \in Candidates \ {c} : candidates'[d] = candidates[d]
      /\ candidates' \in [Candidates -> CandidateRow]
  <2>1. candidates[c] \in CandidateRow /\ candidates[c].slot = TRUE
    BY <1>1 DEF TableInv
  <2>2. candidates' = [candidates EXCEPT ![c].state = state,
                                         ![c].slot = @ /\ open,
                                         ![c].lately = ~open]
    BY DEF Moves, Moved
  <2>3. (candidates[c].slot /\ open) = open
    BY <2>1
  <2>4. candidates' = [candidates EXCEPT ![c] =
            [candidates[c] EXCEPT !.state = state, !.slot = candidates[c].slot /\ open,
                                  !.lately = ~open]]
    BY <1>1, <2>1, <2>2 DEF TableInv, CandidateRow
  <2>5. candidates' = [candidates EXCEPT ![c] = moved]
    BY <2>3, <2>4
  <2>6. moved \in CandidateRow
    <3>1. open \in BOOLEAN /\ state \in CandidateState
      BY DEF CandidateState
    <3> HIDE DEF open
    <3> QED
      BY <2>1, <3>1 DEF CandidateRow
  <2> QED
    BY <1>1, <2>5, <2>6 DEF TableInv
<1>3. /\ candidates'[c].state = state
      /\ candidates'[c].slot <=> state \in ActiveStates
      /\ candidates'[c].key = candidates[c].key
  <2>1. candidates[c] \in CandidateRow
    BY <1>1 DEF TableInv
  <2>2. moved.state = state /\ (moved.slot <=> open) /\ moved.key = candidates[c].key
    BY <2>1 DEF CandidateRow
  <2> HIDE DEF moved
  <2> QED
    BY <1>2, <2>2
<1> HIDE DEF moved, open
<1>4. candidateEvent' \in [Candidates -> CandidateState \cup {"NONE"}]
      /\ recent' \subseteq Keys
  BY <1>1 DEF TableInv, Moves, Remembered, CandidateState
<1>5. \A d \in Candidates :
          /\ candidates'[d].slot <=> candidates'[d].state \in ActiveStates
          /\ candidates'[d].state = "NONE" => candidates'[d] = NoCandidate
          /\ candidates'[d].state # "NONE" => candidates'[d].key \in Keys
  BY <1>1, <1>2, <1>3 DEF TableInv, Active
<1>6. \A d, e \in Candidates :
          candidates'[d].slot /\ candidates'[e].slot
          /\ candidates'[d].key = candidates'[e].key => d = e
  BY <1>1, <1>2, <1>3 DEF TableInv
<1>7. TableInv'
  BY <1>2, <1>4, <1>5, <1>6 DEF TableInv, Active
<1>8. ActiveCandidates' = {d \in Candidates : candidates'[d].state \in ActiveStates}
  BY DEF ActiveCandidates, Active
<1> QED
  BY <1>1, <1>2, <1>3, <1>7, <1>8 DEF ActiveCandidates, Active, ActiveStates

(* A new row takes a slot that was free.                                   *)
LEMMA BeginsKeep ==
  ASSUME TableInv, NEW c, NEW key, Begins(c, key)
  PROVE  TableInv' /\ ActiveCandidates' = ActiveCandidates \cup {c}
<1>1. PICK state \in ActiveStates :
          candidates' = [candidates EXCEPT ![c] =
              [state |-> state, key |-> key, slot |-> TRUE, lately |-> FALSE]]
  BY DEF Begins
<1>2. c \in Candidates /\ key \in Keys
  BY DEF Begins, Unused
<1>3. /\ candidates'[c] = [state |-> state, key |-> key, slot |-> TRUE, lately |-> FALSE]
      /\ \A d \in Candidates \ {c} : candidates'[d] = candidates[d]
      /\ candidates' \in [Candidates -> CandidateRow]
  BY <1>1, <1>2 DEF TableInv, CandidateRow, CandidateState, ActiveStates
<1>4. \A d \in Candidates : candidates[d].slot => candidates[d].key # key
  BY DEF Begins, Existing
<1>5. \A d \in Candidates :
          /\ candidates'[d].slot <=> candidates'[d].state \in ActiveStates
          /\ candidates'[d].state = "NONE" => candidates'[d] = NoCandidate
          /\ candidates'[d].state # "NONE" => candidates'[d].key \in Keys
  BY <1>2, <1>3 DEF TableInv, Active, ActiveStates
<1>6. \A d, e \in Candidates :
          candidates'[d].slot /\ candidates'[e].slot
          /\ candidates'[d].key = candidates'[e].key => d = e
  BY <1>2, <1>3, <1>4 DEF TableInv
<1>7. TableInv'
  BY <1>3, <1>5, <1>6 DEF TableInv, Active, Begins
<1>8. ActiveCandidates' = {d \in Candidates : candidates'[d].state \in ActiveStates}
  BY DEF ActiveCandidates, Active
<1> QED
  BY <1>2, <1>3, <1>7, <1>8 DEF ActiveCandidates, Active

(* The end of a dedupe window is nothing but that.                         *)
LEMMA WindowKeeps ==
  ASSUME TableInv, NEW c \in Candidates, DedupeWindowEnds(c)
  PROVE  /\ TableInv' /\ ActiveCandidates' = ActiveCandidates
         /\ \A d \in Candidates : candidates'[d].state = candidates[d].state
<1>1. /\ candidates' = [candidates EXCEPT ![c] = [candidates[c] EXCEPT !.lately = FALSE]]
      /\ candidates[c].lately
      /\ UNCHANGED <<candidateEvent, recent>>
  BY DEF DedupeWindowEnds
<1>2. /\ candidates'[c] = [candidates[c] EXCEPT !.lately = FALSE]
      /\ \A d \in Candidates \ {c} : candidates'[d] = candidates[d]
      /\ candidates' \in [Candidates -> CandidateRow]
  <2>1. candidates[c] \in CandidateRow
    BY DEF TableInv
  <2>2. [candidates[c] EXCEPT !.lately = FALSE] \in CandidateRow
    BY <2>1 DEF CandidateRow
  <2> QED
    BY <1>1, <2>2 DEF TableInv
<1>3. \A d \in Candidates : /\ candidates'[d].state = candidates[d].state
                            /\ candidates'[d].slot = candidates[d].slot
                            /\ candidates'[d].key = candidates[d].key
  BY <1>2 DEF TableInv, CandidateRow
<1>4. candidates[c] # NoCandidate
  BY <1>1 DEF NoCandidate
<1>5. TableInv'
  BY <1>1, <1>2, <1>3, <1>4 DEF TableInv, Active
<1> QED
  BY <1>3, <1>5 DEF ActiveCandidates, Active

-----------------------------------------------------------------------------
(* Every step is of one of these kinds.                                    *)

(* The rows that a step closes.                                            *)
Closes(c) == \E state \in {"EXPIRED", "SUPERSEDED"} : Moves(c, state)

Confirmed(c) == candidates[c].state = "DETECTED" /\ Moves(c, "CONFIRMED")

Opened(c) ==
    /\ \E key \in Keys : Begins(c, key)
    /\ HasRoom
    /\ c = CHOOSE d \in Unused : TRUE

(* The event of an open row is written.                                    *)
Recorded(c) ==
    /\ c \in ActiveCandidates
    /\ candidateEvent' = [candidateEvent EXCEPT ![c] = candidates[c].state]
    /\ UNCHANGED <<candidates, recent>>

(* The memory of a process is lost.                                        *)
Forgotten == recent' = {} /\ UNCHANGED <<candidates, candidateEvent>>

(* A candidate is closed by Close.                                         *)
LEMMA CloseMoves ==
  ASSUME NEW c \in ActiveCandidates, NEW state, Close(c, state)
  PROVE  Moves(c, state)
  BY DEF Close, Moves

(* The end of a setup's admission, whatever it wrote.                      *)
LEMMA AdmittedKeeps ==
  ASSUME strategy \in StrategyType, NEW setup \in Setup,
         NEW written \in SUBSET Candidates, Admitted(setup, written)
  PROVE  /\ strategy' \in StrategyType
         /\ strategy'.todo = {}
         /\ strategy'.at = "admit"
<1>1. setup.key \in Keys
  BY DEF Setup
<1>2. DirectionOf[setup.key] \in {"LONG", "SHORT"}
  BY <1>1, SetupAssumption
<1> QED
  BY <1>2 DEF Admitted, StrategyType

(* A failed transaction changes nothing but the count of faults.           *)
LEMMA FailureKeeps ==
  ASSUME faults \in Nat, CandidateWriteFails
  PROVE  SameTable /\ faults' \in Nat
  BY DEF CandidateWriteFails, DatabaseFails, SameTable

(* The table stays, and the job is at a place that implies nothing.        *)
LEMMA JobGoesOn ==
  ASSUME IInv, SameTable, strategy' \in StrategyType, strategy'.todo = {},
         strategy'.at \notin {"supersede", "event"},
         faults' \in Nat, crashes' \in Nat
  PROVE  IInv'
  BY SameTableKeeps DEF IInv, JobInv

(* One of the rows to be closed is closed.                                 *)
LEMMA ClosingKeeps ==
  ASSUME IInv, NEW c \in strategy.todo, NEW state \in {"EXPIRED", "SUPERSEDED"},
         Close(c, state), strategy.at # "event", UNCHANGED crashes,
         strategy' = [strategy EXCEPT !.todo = @ \ {c}]
  PROVE  IInv' /\ Closes(c)
<1>1. c \in ActiveCandidates /\ strategy \in StrategyType
  BY DEF IInv, JobInv
<1>2. Moves(c, state)
  BY <1>1, CloseMoves
<1>3. TableInv' /\ ActiveCandidates' = ActiveCandidates \ {c}
  BY <1>2, MovesKeep DEF IInv
<1>4. /\ strategy' \in StrategyType /\ strategy'.todo = strategy.todo \ {c}
      /\ strategy'.at = strategy.at /\ strategy'.setup = strategy.setup
  BY <1>1 DEF StrategyType
<1>5. strategy'.todo \subseteq ActiveCandidates'
  BY <1>3, <1>4 DEF IInv, JobInv
<1> QED
  BY <1>2, <1>3, <1>4, <1>5 DEF IInv, JobInv, Closes, Close, DatabaseWorks

StepKind ==
    \/ SameTable
    \/ Forgotten
    \/ \E c \in Candidates :
           \/ Closes(c) \/ Confirmed(c) \/ Opened(c) \/ Recorded(c)
           \/ DedupeWindowEnds(c)

(* The loops that close rows.                                              *)
LEMMA DataLossStep ==
  ASSUME IInv, NEW c \in Candidates, ExpireForDataLoss(c), UNCHANGED crashes
  PROVE  IInv' /\ StepKind
<1>1. c \in strategy.todo /\ strategy.at = "data_loss"
  BY DEF ExpireForDataLoss
<1>2. CASE Close(c, "EXPIRED") /\ strategy' = [strategy EXCEPT !.todo = @ \ {c}]
  BY <1>1, <1>2, ClosingKeeps DEF StepKind
<1>3. CASE CandidateWriteFails /\ strategy' = [strategy EXCEPT !.todo = {}]
  <2>1. /\ strategy' \in StrategyType /\ strategy'.todo = {}
        /\ strategy'.at = "data_loss"
    BY <1>1, <1>3 DEF IInv, JobInv, StrategyType
  <2> QED
    BY <1>3, <2>1, FailureKeeps, JobGoesOn DEF StepKind, IInv, JobInv
<1> QED
  BY <1>2, <1>3 DEF ExpireForDataLoss

(* The loop that expires candidates closes rows that are open, or gives up.*)
LEMMA ExpiryStep ==
  ASSUME IInv, NEW c \in Candidates, ExpireCandidate(c), UNCHANGED crashes
  PROVE  IInv' /\ StepKind
<1>1. c \in strategy.todo /\ strategy.at = "expire"
  BY DEF ExpireCandidate
<1>2. CASE Close(c, "EXPIRED") /\ strategy' = [strategy EXCEPT !.todo = @ \ {c}]
  BY <1>1, <1>2, ClosingKeeps DEF StepKind
<1>3. CASE CandidateWriteFails /\ strategy' = [strategy EXCEPT !.todo = {}]
  <2>1. /\ strategy' \in StrategyType /\ strategy'.todo = {}
        /\ strategy'.at = "expire"
    BY <1>1, <1>3 DEF IInv, JobInv, StrategyType
  <2> QED
    BY <1>3, <2>1, FailureKeeps, JobGoesOn DEF StepKind, IInv, JobInv
<1> QED
  BY <1>2, <1>3 DEF ExpireCandidate

(* A weaker candidate is closed, or its write fails and the admission ends.*)
LEMMA SupersedeStep ==
  ASSUME IInv, NEW c \in Candidates, SupersedeCandidate(c), UNCHANGED crashes
  PROVE  IInv' /\ StepKind
<1>1. /\ c \in strategy.todo /\ strategy.at = "supersede"
      /\ strategy.setup \in Setup /\ strategy \in StrategyType
  BY DEF SupersedeCandidate, IInv, JobInv
<1>2. CASE Close(c, "SUPERSEDED") /\ strategy' = [strategy EXCEPT !.todo = @ \ {c}]
  BY <1>1, <1>2, ClosingKeeps DEF StepKind
<1>3. CASE CandidateWriteFails /\ Admitted(strategy.setup, {})
  <2>1. /\ strategy' \in StrategyType /\ strategy'.todo = {}
        /\ strategy'.at = "admit"
    BY <1>1, <1>3, AdmittedKeeps
  <2> QED
    BY <1>3, <2>1, FailureKeeps, JobGoesOn DEF StepKind, IInv, JobInv
<1> QED
  BY <1>2, <1>3 DEF SupersedeCandidate

(* The branches of an admission.                                           *)
LEMMA ConfirmStep ==
  ASSUME IInv, NEW setup \in Setup, ConfirmExisting(setup), UNCHANGED crashes
  PROVE  IInv' /\ StepKind
<1>1. strategy \in StrategyType /\ faults \in Nat /\ crashes \in Nat
  BY DEF IInv, JobInv
<1>2. ASSUME NEW c \in Existing(setup.key),
             candidates' = Moved(c, "CONFIRMED"),
             candidateEvent' = [candidateEvent EXCEPT ![c] = "CONFIRMED"],
             Admitted(setup, {c}), DatabaseWorks, UNCHANGED recent
      PROVE  IInv' /\ StepKind
  <2>1. c \in Candidates /\ candidates[c].slot /\ candidates[c].key = setup.key
    BY DEF Existing
  <2>2. PICK d \in Existing(setup.key) : candidates[d].state = "DETECTED"
    BY DEF ConfirmExisting, Confirms
  <2>3. d = c
    BY <2>1, <2>2 DEF Existing, IInv, TableInv
  <2>4. Confirmed(c)
    BY <1>2, <2>1, <2>2, <2>3
    DEF Confirmed, Moves, ActiveCandidates, Active, ActiveStates
  <2>5. TableInv' /\ ActiveCandidates' = ActiveCandidates
    BY <2>4, MovesKeep DEF Confirmed, IInv
  <2>6. /\ strategy' \in StrategyType /\ strategy'.todo = {}
        /\ strategy'.at = "admit"
    BY <1>1, <1>2, <2>1, AdmittedKeeps
  <2> QED
    BY <1>1, <1>2, <2>1, <2>4, <2>5, <2>6
    DEF IInv, JobInv, StepKind, DatabaseWorks
<1>3. CASE CandidateWriteFails /\ Admitted(setup, {})
  <2>1. /\ strategy' \in StrategyType /\ strategy'.todo = {}
        /\ strategy'.at = "admit"
    BY <1>1, <1>3, AdmittedKeeps
  <2> QED
    BY <1>1, <1>3, <2>1, FailureKeeps, JobGoesOn DEF StepKind
<1> QED
  BY <1>2, <1>3 DEF ConfirmExisting

(* A setup that is suppressed leaves the table and the memory alone.       *)
LEMMA SuppressStep ==
  ASSUME IInv, NEW setup \in Setup, SuppressSetup(setup), UNCHANGED crashes
  PROVE  IInv' /\ StepKind
<1>1. strategy \in StrategyType /\ faults \in Nat /\ crashes \in Nat
  BY DEF IInv, JobInv
<1>2. Admitted(setup, {}) /\ SameTable /\ UNCHANGED faults
  BY DEF SuppressSetup, SameTable
<1>3. /\ strategy' \in StrategyType /\ strategy'.todo = {}
      /\ strategy'.at = "admit"
  BY <1>1, <1>2, AdmittedKeeps
<1> QED
  BY <1>1, <1>2, <1>3, JobGoesOn DEF StepKind

(* A setup that is taken up has only weaker, open candidates to supersede. *)
LEMMA TakeUpStep ==
  ASSUME IInv, NEW setup \in Setup, TakeUpSetup(setup), UNCHANGED crashes
  PROVE  IInv' /\ StepKind
<1>1. PICK weaker \in Weaker(setup) :
          strategy' = [strategy EXCEPT !.at = "supersede", !.setup = setup,
                                       !.todo = weaker]
  BY DEF TakeUpSetup
<1>2. weaker \subseteq ActiveCandidates /\ weaker \subseteq Candidates
  BY DEF Weaker, ActiveCandidates
<1>3. SameTable /\ UNCHANGED faults
  BY DEF TakeUpSetup, SameTable
<1>4. /\ strategy' \in StrategyType /\ strategy'.todo = weaker
      /\ strategy'.at = "supersede" /\ strategy'.setup = setup
  BY <1>1, <1>2 DEF IInv, JobInv, StrategyType
<1>5. TableInv' /\ ActiveCandidates' = ActiveCandidates
  BY <1>3, SameTableKeeps DEF IInv
<1> QED
  BY <1>2, <1>3, <1>4, <1>5 DEF IInv, JobInv, StepKind

(* The insertion and its event.                                            *)
LEMMA InsertStep ==
  ASSUME IInv, InsertCandidate, UNCHANGED crashes
  PROVE  IInv' /\ StepKind
<1> DEFINE setup == strategy.setup
           c == CHOOSE d \in Unused : TRUE
           fits == HasRoom /\ Existing(setup.key) = {} /\ Unused # {}
           state == IF setup.confirmed THEN "CONFIRMED" ELSE "DETECTED"
<1>1. /\ strategy \in StrategyType /\ setup \in Setup /\ strategy.todo = {}
      /\ faults \in Nat /\ crashes \in Nat
  BY DEF InsertCandidate, IInv, JobInv
<1>2. CASE /\ fits
           /\ candidates' = [candidates EXCEPT ![c] =
                 [state |-> state, key |-> setup.key, slot |-> TRUE, lately |-> FALSE]]
           /\ strategy' = [strategy EXCEPT !.at = "event", !.current = c]
           /\ DatabaseWorks
           /\ UNCHANGED <<candidateEvent, recent>>
  <2>1. c \in Unused /\ c \in Candidates
    BY <1>2 DEF Unused
  <2>2. setup.key \in Keys /\ state \in ActiveStates
    BY <1>1 DEF Setup, ActiveStates
  <2>3. Begins(c, setup.key)
    BY <1>2, <2>1, <2>2 DEF Begins
  <2>4. TableInv' /\ ActiveCandidates' = ActiveCandidates \cup {c}
    BY <2>3, BeginsKeep DEF IInv
  <2>5. Opened(c)
    BY <1>2, <2>2, <2>3 DEF Opened
  <2> HIDE DEF c, state
  <2>6. /\ strategy' \in StrategyType /\ strategy'.todo = {}
        /\ strategy'.at = "event" /\ strategy'.current = c
        /\ strategy'.setup = setup
    BY <1>1, <1>2, <2>1 DEF StrategyType
  <2> QED
    BY <1>1, <1>2, <2>1, <2>4, <2>5, <2>6 DEF IInv, JobInv, StepKind, DatabaseWorks
<1>3. ASSUME Admitted(setup, {}), SameTable, faults' \in Nat
      PROVE  IInv' /\ StepKind
  <2>1. /\ strategy' \in StrategyType /\ strategy'.todo = {}
        /\ strategy'.at = "admit"
    BY <1>1, <1>3, AdmittedKeeps
  <2> QED
    BY <1>1, <1>3, <2>1, JobGoesOn DEF StepKind
<1>4. CASE CandidateWriteFails /\ Admitted(setup, {})
  BY <1>1, <1>3, <1>4, FailureKeeps
<1>5. CASE Admitted(setup, {}) /\ UNCHANGED <<candidates, candidateEvent, recent, faults>>
  BY <1>1, <1>3, <1>5 DEF SameTable
<1> QED
  BY <1>2, <1>4, <1>5 DEF InsertCandidate

(* The event of a new candidate is written, or lost with its transaction.  *)
LEMMA RecordStep ==
  ASSUME IInv, RecordCandidate, UNCHANGED crashes
  PROVE  IInv' /\ StepKind
<1> DEFINE c == strategy.current
<1>1. /\ strategy \in StrategyType /\ strategy.setup \in Setup
      /\ c \in ActiveCandidates /\ c \in Candidates
      /\ faults \in Nat /\ crashes \in Nat
  BY DEF RecordCandidate, IInv, JobInv, ActiveCandidates
<1>2. /\ strategy' \in StrategyType /\ strategy'.todo = {}
      /\ strategy'.at = "admit"
  <2>1. Admitted(strategy.setup, {c})
    BY DEF RecordCandidate
  <2> QED
    BY <1>1, <2>1, AdmittedKeeps
<1>3. UNCHANGED <<candidates, recent>>
  BY DEF RecordCandidate
<1>4. CASE /\ candidateEvent' = [candidateEvent EXCEPT ![c] = candidates[c].state]
           /\ DatabaseWorks
  <2>1. Recorded(c)
    BY <1>1, <1>3, <1>4 DEF Recorded
  <2>2. candidates[c].state \in CandidateState
    BY <1>1 DEF ActiveCandidates, Active, ActiveStates, CandidateState
  <2>3. TableInv' /\ ActiveCandidates' = ActiveCandidates
    BY <1>3, <1>4, <2>2 DEF IInv, TableInv, ActiveCandidates, Active
  <2> QED
    BY <1>1, <1>2, <1>4, <2>1, <2>3 DEF IInv, JobInv, StepKind, DatabaseWorks
<1>5. CASE DatabaseFails /\ UNCHANGED candidateEvent
  <2>1. SameTable /\ faults' \in Nat
    BY <1>1, <1>3, <1>5 DEF SameTable, DatabaseFails
  <2> QED
    BY <1>1, <1>2, <2>1, JobGoesOn DEF StepKind
<1> QED
  BY <1>4, <1>5 DEF RecordCandidate

(* The steps that only move the job, and the crash.                        *)
LEMMA JobStep ==
  ASSUME IInv, UNCHANGED crashes,
         Start \/ BeginEvaluation \/ BeginExpiry \/ EndStrategyCycle
  PROVE  IInv' /\ StepKind
<1>1. strategy \in StrategyType /\ faults \in Nat /\ crashes \in Nat
  BY DEF IInv, JobInv
<1>2. SameTable /\ UNCHANGED faults
  BY DEF Start, BeginEvaluation, BeginExpiry, EndStrategyCycle, SameTable
<1>3. ActiveCandidates \subseteq Candidates
  BY DEF ActiveCandidates
<1>4. TableInv' /\ ActiveCandidates' = ActiveCandidates
  BY <1>2, SameTableKeeps DEF IInv
<1>5. /\ strategy' \in StrategyType
      /\ strategy'.todo \subseteq ActiveCandidates
      /\ strategy'.at \in {"idle", "admit", "data_loss", "expire"}
  <2>1. CASE Start
    BY <1>1, <2>1 DEF Start, IInv, JobInv, StrategyType
  <2>2. CASE BeginEvaluation
    BY <1>1, <1>3, <2>2 DEF BeginEvaluation, IInv, JobInv, StrategyType
  <2>3. CASE BeginExpiry
    <3>1. PICK overdue \in SUBSET ActiveCandidates :
              strategy' = [NoStrategyCycle EXCEPT !.at = "expire", !.todo = overdue]
      BY <2>3 DEF BeginExpiry
    <3> QED
      BY <1>3, <3>1 DEF NoStrategyCycle, StrategyType
  <2>4. CASE EndStrategyCycle
    BY <2>4 DEF EndStrategyCycle, NoStrategyCycle, StrategyType
  <2> QED
    BY <2>1, <2>2, <2>3, <2>4
<1> QED
  BY <1>1, <1>2, <1>4, <1>5 DEF IInv, JobInv, StepKind

(* A crash forgets the cycle and the memory and leaves the table alone.    *)
LEMMA CrashStep ==
  ASSUME IInv, Crash
  PROVE  IInv' /\ StepKind
<1>1. /\ strategy' = NoStrategyCycle /\ faults' \in Nat /\ crashes' \in Nat
      /\ Forgotten
  BY DEF Crash, IInv, JobInv, Forgotten
<1>2. TableInv'
  BY <1>1 DEF Forgotten, IInv, TableInv, Active
<1> QED
  BY <1>1, <1>2 DEF JobInv, IInv, NoStrategyCycle, StrategyType, StepKind

(* The deduplication window of a closed row ends; the table is otherwise as*)
(* it was.                                                                 *)
LEMMA WindowStep ==
  ASSUME IInv, NEW c \in Candidates, DedupeWindowEnds(c), UNCHANGED crashes
  PROVE  IInv' /\ StepKind
<1>1. UNCHANGED <<strategy, faults, crashes>>
  BY DEF DedupeWindowEnds
<1> QED
  BY <1>1, WindowKeeps DEF IInv, JobInv, StepKind

(* The invariant holds at first.                                           *)
LEMMA InvInit == Init => IInv
  BY DEF Init, IInv, TableInv, JobInv, CandidateRow, NoCandidate, Active,
         ActiveStates, ActiveCandidates, NoStrategyCycle, StrategyType

(* Every step keeps the invariant and is of one of the kinds.              *)
LEMMA InvNext ==
  ASSUME IInv, Next
  PROVE  IInv' /\ StepKind
<1>1. CASE Crash
  BY <1>1, CrashStep
<1>2. CASE Step /\ UNCHANGED crashes
  <2>1. CASE Start \/ BeginEvaluation \/ BeginExpiry \/ EndStrategyCycle
    BY <1>2, <2>1, JobStep
  <2>2. CASE InsertCandidate
    BY <1>2, <2>2, InsertStep
  <2>3. CASE RecordCandidate
    BY <1>2, <2>3, RecordStep
  <2>4. ASSUME NEW setup \in Setup,
               ConfirmExisting(setup) \/ SuppressSetup(setup) \/ TakeUpSetup(setup)
        PROVE  IInv' /\ StepKind
    BY <1>2, <2>4, ConfirmStep, SuppressStep, TakeUpStep
  <2>5. ASSUME NEW c \in Candidates,
               \/ ExpireForDataLoss(c) \/ SupersedeCandidate(c)
               \/ ExpireCandidate(c) \/ DedupeWindowEnds(c)
        PROVE  IInv' /\ StepKind
    BY <1>2, <2>5, DataLossStep, SupersedeStep, ExpiryStep, WindowStep
  <2> QED
    BY <1>2, <2>1, <2>2, <2>3, <2>4, <2>5 DEF Step
<1> QED
  BY <1>1, <1>2 DEF Next

(* The inductive invariant holds throughout.                               *)
THEOREM InvHolds == Spec => []IInv
<1>1. IInv /\ UNCHANGED vars => IInv'
  BY DEF vars, IInv, TableInv, JobInv, Active, ActiveCandidates
<1> QED
  BY <1>1, InvInit, InvNext, PTL DEF Spec

(***************************************************************************)
(* The table, its events, the memory of closed keys and the job keep their *)
(* types, for any number of candidates and keys.                           *)
(***************************************************************************)
THEOREM TypeOKHolds == Spec => []TypeOK
  BY InvHolds, InvTypes, PTL

(***************************************************************************)
(* At most one active candidate per setup, although transition() looks at  *)
(* neither the key nor the state before.                                   *)
(***************************************************************************)
THEOREM OneActivePerKeyHolds == Spec => []OneActivePerKey
<1>1. IInv => OneActivePerKey
  BY DEF IInv, TableInv, OneActivePerKey, ActiveCandidates
<1> QED
  BY <1>1, InvHolds, PTL

-----------------------------------------------------------------------------
(* The refinement of ResearchCandidates.                                   *)

(* The states of the rows, which is what the other jobs see.               *)
states == [c \in Candidates |-> candidates[c].state]

(* What is seen of a table is its states and its events.                   *)
LEMMA SeenStates ==
  /\ Seen!Unopened = {c \in Candidates : states[c] = "NONE"}
  /\ \A c : Seen!Active(c) <=> states[c] \in ActiveStates
  /\ Seen!candidateVars = <<states, candidateEvent>>
  BY DEF Seen!Unopened, Seen!Active, Seen!ActiveStates, ActiveStates,
         Seen!candidateVars, states

(* Counting is the same there.                                             *)
LEMMA SeenCardinality == \A S : Seen!Cardinality(S) = Cardinality(S)
  BY DEF Seen!Cardinality, Cardinality

(* No row, no state.                                                       *)
LEMMA SeenInit == Init => Seen!CandidatesInit
  BY DEF Init, Seen!CandidatesInit, NoCandidate

(* A move is seen as a move.                                               *)
LEMMA MovesSeen ==
  ASSUME TableInv, NEW c, NEW state \in {"CONFIRMED", "EXPIRED", "SUPERSEDED"},
         Moves(c, state)
  PROVE  /\ Seen!Move(c, state)
         /\ c \in Candidates /\ states[c] = candidates[c].state
         /\ states[c] \in ActiveStates
<1>1. c \in Candidates /\ candidates[c].state \in ActiveStates
  BY DEF Moves, ActiveCandidates, Active
<1>2. \A d \in Candidates :
          candidates'[d].state = IF d = c THEN state ELSE candidates[d].state
  BY <1>1 DEF Moves, Moved, TableInv, CandidateRow
<1>3. states' = [states EXCEPT ![c] = state]
  BY <1>1, <1>2 DEF states
<1> QED
  BY <1>1, <1>3 DEF Seen!Move, Moves, states

(* A new row is seen as one that opens.                                    *)
LEMMA OpenedSeen ==
  ASSUME TableInv, NEW c \in Candidates, Opened(c)
  PROVE  Seen!Open(c)
<1>1. PICK key \in Keys : Begins(c, key)
  BY DEF Opened
<1>2. PICK state \in ActiveStates :
          candidates' = [candidates EXCEPT ![c] =
              [state |-> state, key |-> key, slot |-> TRUE, lately |-> FALSE]]
  BY <1>1 DEF Begins
<1>3. states' = [states EXCEPT ![c] = state]
  BY <1>2 DEF TableInv, states
<1>4. Unused = Seen!Unopened
  <2>1. \A d \in Candidates :
            candidates[d] = NoCandidate <=> candidates[d].state = "NONE"
    BY DEF TableInv, NoCandidate
  <2> QED
    BY <2>1, SeenStates DEF Unused, states
<1>5. Unused # {} /\ c = CHOOSE d \in Unused : TRUE
  BY <1>1 DEF Begins, Opened
<1>6. Seen!Unopened # {} /\ c = CHOOSE d \in Seen!Unopened : TRUE
  BY <1>4, <1>5
<1>7. ActiveCandidates = {d \in Candidates : Seen!Active(d)}
  BY SeenStates DEF ActiveCandidates, Active, states
<1>8. Seen!Cardinality({d \in Candidates : Seen!Active(d)}) < MaxCandidates
  BY <1>7, SeenCardinality DEF Opened, HasRoom
<1>9. state \in Seen!ActiveStates
  BY DEF ActiveStates, Seen!ActiveStates
<1> QED
  BY <1>1, <1>3, <1>6, <1>8, <1>9 DEF Seen!Open, Begins, states

(* Every step is seen as one of the abstract table, or as none.            *)
LEMMA StepSeen ==
  ASSUME IInv, StepKind
  PROVE  [Seen!CandidatesNext]_(Seen!candidateVars)
<1>1. CASE SameTable \/ Forgotten
  BY <1>1 DEF SameTable, Forgotten, Seen!candidateVars
<1>2. ASSUME NEW c \in Candidates, Closes(c)
      PROVE  Seen!CandidatesNext
  <2>1. PICK state \in {"EXPIRED", "SUPERSEDED"} : Moves(c, state)
    BY <1>2 DEF Closes
  <2>2. Seen!Move(c, state) /\ Seen!Active(c)
    BY <2>1, MovesSeen, SeenStates DEF IInv
  <2>3. Seen!Close(c)
    BY <2>2 DEF Seen!Close, Seen!ClosedStates
  <2> QED
    BY <2>3 DEF Seen!CandidatesNext
<1>3. ASSUME NEW c \in Candidates, Confirmed(c)
      PROVE  Seen!CandidatesNext
  <2>1. Seen!Move(c, "CONFIRMED") /\ states[c] = "DETECTED"
    BY <1>3, MovesSeen DEF IInv, Confirmed
  <2>2. Seen!Confirm(c)
    BY <2>1 DEF Seen!Confirm, states
  <2> QED
    BY <2>2 DEF Seen!CandidatesNext
<1>4. ASSUME NEW c \in Candidates, Opened(c)
      PROVE  Seen!CandidatesNext
  BY <1>4, OpenedSeen DEF IInv, Seen!CandidatesNext
<1>5. ASSUME NEW c \in Candidates, Recorded(c)
      PROVE  Seen!CandidatesNext
  <2>1. Seen!Active(c) /\ states' = states /\ states[c] = candidates[c].state
    BY <1>5, SeenStates DEF Recorded, ActiveCandidates, Active, states
  <2>2. Seen!Record(c)
    BY <1>5, <2>1 DEF Seen!Record, Recorded, states
  <2> QED
    BY <2>2 DEF Seen!CandidatesNext
<1>6. ASSUME NEW c \in Candidates, DedupeWindowEnds(c)
      PROVE  UNCHANGED Seen!candidateVars
  <2>1. \A d \in Candidates : candidates'[d].state = candidates[d].state
    BY <1>6, WindowKeeps DEF IInv
  <2>2. states' = states
    BY <2>1 DEF states
  <2> QED
    BY <1>6, <2>2 DEF DedupeWindowEnds, Seen!candidateVars, states
<1> QED
  BY <1>1, <1>2, <1>3, <1>4, <1>5, <1>6 DEF StepKind

(***************************************************************************)
(* The strategy job implements the abstract candidates: whatever fails,    *)
(* the limit holds, no state is left backwards, and an event comes with    *)
(* every transition.                                                       *)
(***************************************************************************)
THEOREM ImplementsResearchCandidatesHolds == Spec => ImplementsResearchCandidates
<1>1. IInv /\ [Next]_vars => [Seen!CandidatesNext]_(Seen!candidateVars)
  <2> SUFFICES ASSUME IInv, [Next]_vars
               PROVE  [Seen!CandidatesNext]_(Seen!candidateVars)
    OBVIOUS
  <2>1. CASE Next
    BY <2>1, InvNext, StepSeen
  <2>2. CASE UNCHANGED vars
    BY <2>2 DEF vars, Seen!candidateVars
  <2> QED
    BY <2>1, <2>2
<1> QED
  BY <1>1, SeenInit, InvHolds, PTL
  DEF Spec, ImplementsResearchCandidates, Seen!CandidatesSpec

-----------------------------------------------------------------------------
(* Closed setups.                                                          *)

(***************************************************************************)
(* Without a crash the memory has the key of every row that closed within  *)
(* the window.  A setup taken up is none of them, and will not be: the     *)
(* rows still to be superseded are of the other direction.                 *)
(***************************************************************************)
AwayInv ==
    crashes = 0 =>
        /\ \A c \in Candidates : candidates[c].lately => candidates[c].key \in recent
        /\ strategy.at = "supersede" =>
               /\ \A c \in strategy.todo :
                      DirectionOf[candidates[c].key] # DirectionOf[strategy.setup.key]
               /\ \A c \in Candidates :
                      candidates[c].lately => candidates[c].key # strategy.setup.key

(* Nothing closed, nothing taken up.                                       *)
LEMMA AwayInit == Init => AwayInv
  BY DEF Init, AwayInv, NoCandidate, NoStrategyCycle

(* What a move leaves of keys and windows.                                 *)
LEMMA MovesKeys ==
  ASSUME TableInv, NEW c, NEW state, Moves(c, state)
  PROVE  \A d \in Candidates :
             /\ candidates'[d].key = candidates[d].key
             /\ d # c => candidates'[d].lately = candidates[d].lately
             /\ d = c => (candidates'[d].lately <=> state \notin ActiveStates)
<1>1. c \in Candidates /\ candidates[c] \in CandidateRow
  BY DEF Moves, ActiveCandidates, TableInv
<1> QED
  BY <1>1 DEF Moves, Moved, TableInv, CandidateRow

(* A row that closes is remembered, one of the other direction.            *)
LEMMA ClosingStaysAway ==
  ASSUME IInv, AwayInv, NEW c \in strategy.todo,
         NEW state \in {"EXPIRED", "SUPERSEDED"},
         Close(c, state), UNCHANGED crashes,
         strategy' = [strategy EXCEPT !.todo = @ \ {c}]
  PROVE  AwayInv'
<1>1. c \in ActiveCandidates /\ c \in Candidates /\ strategy \in StrategyType
  BY DEF IInv, JobInv, ActiveCandidates
<1>2. Moves(c, state)
  BY <1>1, CloseMoves
<1>3. \A d \in Candidates :
          /\ candidates'[d].key = candidates[d].key
          /\ d # c => candidates'[d].lately = candidates[d].lately
  BY <1>2, MovesKeys DEF IInv
<1>4. recent' = recent \cup {candidates[c].key}
  BY DEF Close, Remembered
<1>5. /\ strategy'.at = strategy.at /\ strategy'.setup = strategy.setup
      /\ strategy'.todo = strategy.todo \ {c}
      /\ strategy.todo \subseteq Candidates
  BY <1>1 DEF StrategyType
<1> QED
  BY <1>1, <1>3, <1>4, <1>5 DEF AwayInv

(* Windows that only end, a memory that only grows and another place.      *)
LEMMA ElsewhereStaysAway ==
  ASSUME AwayInv, crashes' = 0 => crashes = 0 /\ recent' = recent,
         crashes' = 0 => \A c \in Candidates :
             candidates'[c].lately =>
                 candidates[c].lately /\ candidates'[c].key = candidates[c].key,
         strategy'.at # "supersede"
  PROVE  AwayInv'
  BY DEF AwayInv

(* Every step keeps closed setups away.                                    *)
LEMMA AwayNext ==
  ASSUME IInv, AwayInv, Next
  PROVE  AwayInv'
<1>1. strategy \in StrategyType /\ crashes \in Nat /\ candidates \in [Candidates -> CandidateRow]
  BY DEF IInv, JobInv, TableInv
<1>2. CASE Crash
  BY <1>1, <1>2 DEF Crash, AwayInv
<1>3. CASE UNCHANGED crashes /\
           (Start \/ BeginEvaluation \/ BeginExpiry \/ EndStrategyCycle)
  <2>1. UNCHANGED <<candidates, recent>>
    BY <1>3 DEF Start, BeginEvaluation, BeginExpiry, EndStrategyCycle
  <2>2. strategy'.at # "supersede"
    BY <1>1, <1>3
    DEF Start, BeginEvaluation, BeginExpiry, EndStrategyCycle, NoStrategyCycle,
        StrategyType
  <2> QED
    BY <1>3, <2>1, <2>2, ElsewhereStaysAway
<1>4. ASSUME NEW setup \in Setup, NEW written \in SUBSET Candidates,
             Admitted(setup, written), UNCHANGED <<candidates, recent, crashes>>
      PROVE  AwayInv'
  BY <1>1, <1>4, AdmittedKeeps, ElsewhereStaysAway
<1>5. CASE InsertCandidate /\ UNCHANGED crashes
  <2> DEFINE setup == strategy.setup
             c == CHOOSE d \in Unused : TRUE
             new == [state |-> IF setup.confirmed THEN "CONFIRMED" ELSE "DETECTED",
                     key |-> setup.key, slot |-> TRUE, lately |-> FALSE]
  <2>1. setup \in Setup
    BY <1>5 DEF InsertCandidate, IInv, JobInv
  <2>2. CASE /\ candidates' = [candidates EXCEPT ![c] = new]
             /\ strategy' = [strategy EXCEPT !.at = "event", !.current = c]
             /\ UNCHANGED recent
    <3>1. new.lately = FALSE
      OBVIOUS
    <3> HIDE DEF new, c
    <3>2. \A d \in Candidates : candidates'[d].lately =>
              candidates[d].lately /\ candidates'[d].key = candidates[d].key
      BY <1>1, <2>2, <3>1
    <3>3. strategy'.at # "supersede"
      BY <1>1, <2>2 DEF StrategyType
    <3> QED
      BY <1>5, <2>2, <3>2, <3>3, ElsewhereStaysAway
  <2>3. CASE Admitted(setup, {}) /\ UNCHANGED <<candidates, recent>>
    BY <1>4, <1>5, <2>1, <2>3
  <2> QED
    BY <1>5, <2>2, <2>3 DEF InsertCandidate, CandidateWriteFails
<1>6. CASE RecordCandidate /\ UNCHANGED crashes
  <2>1. strategy.setup \in Setup /\ strategy.current \in Candidates
    BY <1>6 DEF RecordCandidate, IInv, JobInv, ActiveCandidates
  <2> QED
    BY <1>4, <1>6, <2>1 DEF RecordCandidate
<1>7. ASSUME NEW setup \in Setup, ConfirmExisting(setup), UNCHANGED crashes
      PROVE  AwayInv'
  <2>1. ASSUME NEW c \in Existing(setup.key), candidates' = Moved(c, "CONFIRMED"),
               Admitted(setup, {c}), UNCHANGED recent
        PROVE  AwayInv'
    <3>1. \A d \in Candidates :
              candidates'[d].lately =>
                  candidates[d].lately /\ candidates'[d].key = candidates[d].key
      BY <1>1, <2>1 DEF Moved, CandidateRow, ActiveStates
    <3>2. c \in Candidates
      BY DEF Existing
    <3>3. strategy'.at # "supersede"
      BY <1>1, <2>1, <3>2, AdmittedKeeps
    <3> QED
      BY <1>7, <2>1, <3>1, <3>3, ElsewhereStaysAway
  <2>2. CASE CandidateWriteFails /\ Admitted(setup, {})
    BY <1>4, <1>7, <2>2 DEF CandidateWriteFails
  <2> QED
    BY <1>7, <2>1, <2>2 DEF ConfirmExisting
<1>8. ASSUME NEW setup \in Setup, SuppressSetup(setup), UNCHANGED crashes
      PROVE  AwayInv'
  BY <1>4, <1>8 DEF SuppressSetup
<1>9. ASSUME NEW setup \in Setup, TakeUpSetup(setup), UNCHANGED crashes
      PROVE  AwayInv'
  <2>1. PICK weaker \in Weaker(setup) :
            strategy' = [strategy EXCEPT !.at = "supersede", !.setup = setup,
                                         !.todo = weaker]
    BY <1>9 DEF TakeUpSetup
  <2>2. strategy'.todo = weaker /\ strategy'.setup = setup
    BY <1>1, <2>1 DEF StrategyType
  <2>3. \A c \in weaker : DirectionOf[candidates[c].key] # DirectionOf[setup.key]
    BY DEF Weaker
  <2>4. /\ UNCHANGED <<candidates, recent>>
        /\ ~(setup.key \in recent /\ \E c \in Candidates :
                 candidates[c].key = setup.key /\ candidates[c].lately)
    BY <1>9 DEF TakeUpSetup, ClosedLately
  <2> QED
    BY <1>9, <2>2, <2>3, <2>4 DEF AwayInv
<1>10. ASSUME NEW c \in Candidates, UNCHANGED crashes,
              ExpireForDataLoss(c) \/ SupersedeCandidate(c) \/ ExpireCandidate(c)
       PROVE  AwayInv'
  <2>1. c \in strategy.todo
    BY <1>10 DEF ExpireForDataLoss, SupersedeCandidate, ExpireCandidate
  <2>2. ASSUME NEW state \in {"EXPIRED", "SUPERSEDED"}, Close(c, state),
               strategy' = [strategy EXCEPT !.todo = @ \ {c}]
        PROVE  AwayInv'
    BY <1>10, <2>1, <2>2, ClosingStaysAway
  <2>3. CASE CandidateWriteFails /\ strategy.at # "supersede"
             /\ strategy' = [strategy EXCEPT !.todo = {}]
    <3>1. strategy'.at # "supersede"
      BY <1>1, <2>3 DEF StrategyType
    <3> QED
      BY <1>10, <2>3, <3>1, ElsewhereStaysAway DEF CandidateWriteFails
  <2>4. CASE CandidateWriteFails /\ strategy.at = "supersede"
             /\ Admitted(strategy.setup, {})
    <3>1. strategy.setup \in Setup
      BY <2>4 DEF IInv, JobInv
    <3> QED
      BY <1>4, <1>10, <2>4, <3>1 DEF CandidateWriteFails
  <2> QED
    BY <1>10, <2>2, <2>3, <2>4
    DEF ExpireForDataLoss, SupersedeCandidate, ExpireCandidate
<1>11. ASSUME NEW c \in Candidates, DedupeWindowEnds(c), UNCHANGED crashes
       PROVE  AwayInv'
  <2>1. \A d \in Candidates :
            /\ candidates'[d].key = candidates[d].key
            /\ candidates'[d].lately => candidates[d].lately
    BY <1>1, <1>11 DEF DedupeWindowEnds, CandidateRow
  <2>2. UNCHANGED <<strategy, recent>>
    BY <1>11 DEF DedupeWindowEnds
  <2>3. strategy.todo \subseteq Candidates
    BY <1>1 DEF StrategyType
  <2> QED
    BY <1>11, <2>1, <2>2, <2>3 DEF AwayInv
<1> QED
  BY <1>2, <1>3, <1>5, <1>6, <1>7, <1>8, <1>9, <1>10, <1>11 DEF Next, Step

(* Only an insertion fills a row that is blank.                            *)
LEMMA OnlyInsertionOpens ==
  ASSUME IInv, Next, ~InsertCandidate, NEW c \in Unused
  PROVE  candidates'[c].state = "NONE"
<1>1. /\ c \in Candidates /\ candidates[c].state = "NONE"
      /\ c \notin ActiveCandidates /\ candidates[c].slot = FALSE
  BY DEF Unused, NoCandidate, ActiveCandidates, Active, ActiveStates
<1>2. candidates \in [Candidates -> CandidateRow]
  BY DEF IInv, TableInv
<1>3. CASE UNCHANGED candidates
  BY <1>1, <1>3
<1>4. ASSUME NEW d \in Candidates \ {c}, NEW state, candidates' = Moved(d, state)
      PROVE  candidates'[c].state = "NONE"
  BY <1>1, <1>2, <1>4 DEF Moved
<1>5. CASE Crash \/ Start \/ BeginEvaluation \/ RecordCandidate \/ BeginExpiry
           \/ EndStrategyCycle
  BY <1>3, <1>5
  DEF Crash, Start, BeginEvaluation, RecordCandidate, BeginExpiry, EndStrategyCycle
<1>6. ASSUME NEW setup \in Setup, SuppressSetup(setup) \/ TakeUpSetup(setup)
      PROVE  candidates'[c].state = "NONE"
  BY <1>3, <1>6 DEF SuppressSetup, TakeUpSetup
<1>7. ASSUME NEW setup \in Setup, ConfirmExisting(setup)
      PROVE  candidates'[c].state = "NONE"
  <2>1. ASSUME NEW d \in Existing(setup.key), candidates' = Moved(d, "CONFIRMED")
        PROVE  candidates'[c].state = "NONE"
    <3>1. d \in Candidates \ {c}
      BY <1>1 DEF Existing
    <3> QED
      BY <1>4, <2>1, <3>1
  <2>2. CASE CandidateWriteFails
    BY <1>3, <2>2 DEF CandidateWriteFails
  <2> QED
    BY <1>7, <2>1, <2>2 DEF ConfirmExisting
<1>8. ASSUME NEW d \in Candidates,
             ExpireForDataLoss(d) \/ SupersedeCandidate(d) \/ ExpireCandidate(d)
      PROVE  candidates'[c].state = "NONE"
  <2>1. d \in ActiveCandidates
    BY <1>8 DEF ExpireForDataLoss, SupersedeCandidate, ExpireCandidate, IInv, JobInv
  <2>2. d \in Candidates \ {c}
    BY <1>1, <1>8, <2>1
  <2>3. \/ candidates' = Moved(d, "EXPIRED")
        \/ candidates' = Moved(d, "SUPERSEDED")
        \/ UNCHANGED candidates
    BY <1>8
    DEF ExpireForDataLoss, SupersedeCandidate, ExpireCandidate, Close,
        CandidateWriteFails
  <2> QED
    BY <1>3, <1>4, <2>2, <2>3
<1>9. ASSUME NEW d \in Candidates, DedupeWindowEnds(d)
      PROVE  candidates'[c].state = "NONE"
  BY <1>1, <1>2, <1>9 DEF DedupeWindowEnds, CandidateRow
<1> QED
  BY <1>5, <1>6, <1>7, <1>8, <1>9 DEF Next, Step

(***************************************************************************)
(* As long as no crash takes the memory, a setup that closed within the    *)
(* window is not opened again, by whatever way it closed.                  *)
(***************************************************************************)
THEOREM ClosedSetupsStayAwayHolds == Spec => ClosedSetupsStayAway
<1> DEFINE Away == crashes = 0 =>
                       \A c, d \in Candidates :
                           c \in Unused /\ Active(c)' /\ candidates[d].lately =>
                               candidates'[c].key # candidates[d].key
<1>1. IInv /\ AwayInv /\ [Next]_vars => [Away]_vars
  <2> SUFFICES ASSUME IInv, AwayInv, Next, crashes = 0,
                      NEW c \in Candidates, NEW d \in Candidates,
                      c \in Unused, Active(c)', candidates[d].lately
               PROVE  candidates'[c].key # candidates[d].key
    OBVIOUS
  <2> DEFINE setup == strategy.setup
             new == CHOOSE e \in Unused : TRUE
             row == [state |-> IF setup.confirmed THEN "CONFIRMED" ELSE "DETECTED",
                     key |-> setup.key, slot |-> TRUE, lately |-> FALSE]
  <2>1. candidates[c].state = "NONE" /\ candidates'[c].state # "NONE"
    BY DEF Unused, NoCandidate, Active, ActiveStates
  <2>2. InsertCandidate
    BY <2>1, OnlyInsertionOpens
  <2>3. /\ strategy.at = "supersede"
        /\ \/ candidates' = [candidates EXCEPT ![new] = row]
           \/ UNCHANGED candidates
    BY <2>2 DEF InsertCandidate, CandidateWriteFails
  <2>4. row.key = setup.key
    OBVIOUS
  <2> HIDE DEF new, row
  <2>5. candidates'[c].key = setup.key
    BY <2>1, <2>3, <2>4 DEF IInv, TableInv
  <2> QED
    BY <2>3, <2>5 DEF AwayInv
<1>2. AwayInv /\ UNCHANGED vars => AwayInv'
  BY DEF AwayInv, vars
<1>3. IInv /\ AwayInv /\ [Next]_vars => AwayInv'
  BY <1>2, AwayNext
<1> QED
  BY <1>1, <1>3, AwayInit, InvHolds, PTL DEF Spec, ClosedSetupsStayAway

-----------------------------------------------------------------------------
(* Ranks and orders.                                                       *)

(* How many come before an element, and the element itself.                *)
RankIn(S, R, l) == 1 + Cardinality({o \in S : <<o, l>> \in R})

(* A strict and total order on S.                                          *)
StrictOrderOn(S, R) ==
    /\ \A a \in S : <<a, a>> \notin R
    /\ \A a, b, c \in S : <<a, b>> \in R /\ <<b, c>> \in R => <<a, c>> \in R
    /\ \A a, b \in S : a # b => <<a, b>> \in R \/ <<b, a>> \in R

(* A rank lies between one and the number of elements,                     *)
LEMMA RankBounds ==
  ASSUME NEW S, IsFiniteSet(S), NEW R, StrictOrderOn(S, R), NEW l \in S
  PROVE  RankIn(S, R, l) \in 1 .. Cardinality(S)
<1> DEFINE B == {o \in S : <<o, l>> \in R}
<1>1. B \subseteq S /\ l \notin B
  BY DEF StrictOrderOn
<1>2. IsFiniteSet(B) /\ Cardinality(B) <= Cardinality(S) /\ Cardinality(B) # Cardinality(S)
  <2> HIDE DEF B
  <2> QED BY <1>1, FS_Subset
<1>3. Cardinality(B) \in Nat /\ Cardinality(S) \in Nat
  BY <1>2, FS_CardinalityType
<1> QED
  BY <1>2, <1>3 DEF RankIn

(* What comes later has a larger rank.                                     *)
LEMMA RankGrows ==
  ASSUME NEW S, IsFiniteSet(S), NEW R, StrictOrderOn(S, R),
         NEW l \in S, NEW m \in S, <<l, m>> \in R
  PROVE  RankIn(S, R, l) < RankIn(S, R, m)
<1> DEFINE B == {o \in S : <<o, l>> \in R}
           C == {o \in S : <<o, m>> \in R}
<1>1. B \subseteq C /\ l \in C /\ l \notin B
  BY DEF StrictOrderOn
<1>2. IsFiniteSet(C)
  BY FS_Subset
<1>3. IsFiniteSet(B) /\ Cardinality(B) <= Cardinality(C) /\ Cardinality(B) # Cardinality(C)
  <2> HIDE DEF B, C
  <2> QED BY <1>1, <1>2, FS_Subset
<1>4. Cardinality(B) \in Nat /\ Cardinality(C) \in Nat
  BY <1>2, <1>3, FS_CardinalityType
<1> QED
  BY <1>3, <1>4 DEF RankIn

(* Every rank up to the size of the set is somebody's.                     *)
LEMMA EveryRankTaken ==
  ASSUME NEW S, IsFiniteSet(S), NEW R, StrictOrderOn(S, R)
  PROVE  \A i \in 1 .. Cardinality(S) : \E l \in S : RankIn(S, R, l) = i
<1> DEFINE n == Cardinality(S)
           f == [l \in S |-> RankIn(S, R, l)]
<1>1. n \in Nat
  BY FS_CardinalityType
<1>2. IsFiniteSet(1 .. n) /\ Cardinality(1 .. n) = n
  <2> HIDE DEF n
  <2> QED BY <1>1, FS_Interval
<1>3. f \in [S -> 1 .. n]
  BY RankBounds
<1>4. \A l, m \in S : f[l] = f[m] => l = m
  <2> SUFFICES ASSUME NEW l \in S, NEW m \in S, l # m PROVE f[l] # f[m]
    OBVIOUS
  <2>1. <<l, m>> \in R \/ <<m, l>> \in R
    BY DEF StrictOrderOn
  <2>2. RankIn(S, R, l) < RankIn(S, R, m) \/ RankIn(S, R, m) < RankIn(S, R, l)
    BY <2>1, RankGrows
  <2>3. RankIn(S, R, l) \in Int /\ RankIn(S, R, m) \in Int
    BY <1>1, RankBounds
  <2> QED BY <2>2, <2>3
<1>5. f \in Injection(S, 1 .. n)
  BY <1>3, <1>4 DEF Injection, IsInjective
<1>6. f \in Surjection(S, 1 .. n)
  <2> HIDE DEF f
  <2> QED BY <1>2, <1>5, FS_Injection
<1> QED
  <2> SUFFICES ASSUME NEW i \in 1 .. n PROVE \E l \in S : f[l] = i
    OBVIOUS
  <2> HIDE DEF f
  <2> QED BY <1>6 DEF Surjection

(* A finite set that is ordered and not empty has a first element.         *)
LEMMA FirstExists ==
  ASSUME NEW S, IsFiniteSet(S), S # {}, NEW R, StrictOrderOn(S, R)
  PROVE  \E l \in S : \A m \in S : <<m, l>> \notin R
<1>1. Cardinality(S) \in Nat /\ Cardinality(S) # 0
  BY FS_CardinalityType, FS_EmptySet
<1>2. PICK l \in S : RankIn(S, R, l) = 1
  BY <1>1, EveryRankTaken
<1>3. ASSUME NEW m \in S, <<m, l>> \in R PROVE FALSE
  <2>1. RankIn(S, R, m) < RankIn(S, R, l)
    BY <1>3, RankGrows
  <2>2. RankIn(S, R, m) \in 1 .. Cardinality(S)
    BY RankBounds
  <2> QED BY <1>1, <1>2, <2>1, <2>2
<1> QED
  BY <1>3

(* The order of the integers, on a set of them.                            *)
Less(S) == {e \in S \X S : e[1] < e[2]}

More(S) == {e \in S \X S : e[1] > e[2]}

(* What the pairs of the two orders are.                                   *)
LEMMA PairsOfNumbers ==
  ASSUME NEW S \in SUBSET Int
  PROVE  \A a, b \in S : (<<a, b>> \in Less(S) <=> a < b) /\ (<<a, b>> \in More(S) <=> a > b)
BY DEF Less, More

(* Both orders of a set of integers are strict and total.                  *)
LEMMA NumbersOrdered ==
  ASSUME NEW S \in SUBSET Int
  PROVE  StrictOrderOn(S, Less(S)) /\ StrictOrderOn(S, More(S))
<1>1. \A a, b \in S : /\ <<a, b>> \in Less(S) <=> a < b
                      /\ <<a, b>> \in More(S) <=> a > b
  BY PairsOfNumbers
<1>2. StrictOrderOn(S, Less(S))
  BY <1>1 DEF StrictOrderOn
<1>3. StrictOrderOn(S, More(S))
  BY <1>1 DEF StrictOrderOn
<1> QED
  BY <1>2, <1>3

(* Min of a finite set of integers is in it, and below all of it.          *)
LEMMA MinTaken ==
  ASSUME NEW S \in SUBSET Int, IsFiniteSet(S), S # {}
  PROVE  Min(S) \in S /\ \A m \in S : Min(S) <= m
<1>1. PICK l \in S : \A m \in S : <<m, l>> \notin Less(S)
  BY NumbersOrdered, FirstExists
<1>2. \A m \in S : l <= m
  <2>1. \A m \in S : ~(m < l)
    BY <1>1, PairsOfNumbers
  <2> QED BY <2>1
<1> QED
  BY <1>2 DEF Min

(* Max of a finite set of integers is in it, and above all of it.          *)
LEMMA MaxTaken ==
  ASSUME NEW S \in SUBSET Int, IsFiniteSet(S), S # {}
  PROVE  Max(S) \in S /\ \A m \in S : Max(S) >= m
<1>1. PICK l \in S : \A m \in S : <<m, l>> \notin More(S)
  BY NumbersOrdered, FirstExists
<1>2. \A m \in S : l >= m
  <2>1. \A m \in S : ~(m > l)
    BY <1>1, PairsOfNumbers
  <2> QED BY <2>1
<1> QED
  BY <1>2 DEF Max

(* Nth counts a set of numbers off, from the smallest.                     *)
LEMMA NthCounts ==
  ASSUME NEW S \in SUBSET Int, IsFiniteSet(S)
  PROVE  /\ Cardinality(S) \in Nat
         /\ \A i \in 1 .. Cardinality(S) : Nth(S, i) \in S
         /\ \A i, j \in 1 .. Cardinality(S) : i < j => Nth(S, i) < Nth(S, j)
         /\ \A p \in S : \E i \in 1 .. Cardinality(S) : Nth(S, i) = p
<1> DEFINE R == Less(S)
           n == Cardinality(S)
<1>1. StrictOrderOn(S, R)
  BY NumbersOrdered
<1>2. n \in Nat
  BY FS_CardinalityType
<1>3. ASSUME NEW p \in S
      PROVE  Cardinality({q \in S : q <= p}) = RankIn(S, R, p)
  <2> DEFINE B == {o \in S : <<o, p>> \in R}
  <2>0. \A q \in S : q \in B <=> q < p
    BY PairsOfNumbers
  <2>1. {q \in S : q <= p} = B \cup {p} /\ p \notin B
    <3> HIDE DEF B
    <3>1. B \subseteq S
      BY DEF B
    <3>2. \A q \in S : q <= p <=> q \in B \cup {p}
      <4> SUFFICES ASSUME NEW q \in S PROVE q <= p <=> q \in B \/ q = p
        OBVIOUS
      <4>1. q \in Int /\ p \in Int
        OBVIOUS
      <4> QED BY <2>0, <4>1
    <3>3. p \notin B
      BY <2>0
    <3> QED BY <3>1, <3>2, <3>3
  <2>2. IsFiniteSet(B)
    BY FS_Subset
  <2>3. Cardinality(B \cup {p}) = Cardinality(B) + 1 /\ Cardinality(B) \in Nat
    <3> HIDE DEF B
    <3> QED BY <2>1, <2>2, FS_AddElement, FS_CardinalityType
  <2> QED
    <3>1. RankIn(S, R, p) = 1 + Cardinality(B)
      BY DEF RankIn
    <3> HIDE DEF B, R
    <3> QED BY <2>1, <2>3, <3>1
<1>4. ASSUME NEW i \in 1 .. n
      PROVE  Nth(S, i) \in S /\ RankIn(S, R, Nth(S, i)) = i
  <2>1. \E p \in S : RankIn(S, R, p) = i
    BY <1>1, EveryRankTaken
  <2>2. \E p \in S : Cardinality({q \in S : q <= p}) = i
    BY <1>3, <2>1
  <2>3. Nth(S, i) \in S /\ Cardinality({q \in S : q <= Nth(S, i)}) = i
    BY <2>2 DEF Nth
  <2> QED
    BY <1>3, <2>3
<1>5. ASSUME NEW i \in 1 .. n, NEW j \in 1 .. n, i < j
      PROVE  Nth(S, i) < Nth(S, j)
  <2> DEFINE p == Nth(S, i)
             q == Nth(S, j)
  <2>1. p \in S /\ q \in S /\ RankIn(S, R, p) = i /\ RankIn(S, R, q) = j
    BY <1>4
  <2> HIDE DEF p, q
  <2>2. p # q
    BY <1>2, <1>5, <2>1
  <2>3. ASSUME q < p PROVE FALSE
    <3>1. <<q, p>> \in R
      BY <2>1, <2>3, PairsOfNumbers
    <3>2. j < i
      BY <1>1, <2>1, <3>1, RankGrows
    <3> QED BY <1>2, <1>5, <3>2
  <2>4. p < q
    <3>1. p \in Int /\ q \in Int
      BY <2>1
    <3> QED BY <2>2, <2>3, <3>1
  <2> QED
    BY <2>4 DEF p, q
<1>6. ASSUME NEW p \in S
      PROVE  \E i \in 1 .. n : Nth(S, i) = p
  <2> DEFINE i == RankIn(S, R, p)
             q == Nth(S, i)
  <2>1. i \in 1 .. n
    BY <1>1, RankBounds
  <2>2. q \in S /\ RankIn(S, R, q) = i
    BY <1>4, <2>1
  <2>3. q = p
    <3> SUFFICES ASSUME q # p PROVE FALSE
      OBVIOUS
    <3>1. <<p, q>> \in R \/ <<q, p>> \in R
      BY <1>1, <2>2 DEF StrictOrderOn
    <3>2. RankIn(S, R, p) < RankIn(S, R, q) \/ RankIn(S, R, q) < RankIn(S, R, p)
      BY <1>1, <2>2, <3>1, RankGrows
    <3> QED BY <1>2, <2>1, <2>2, <3>2
  <2> QED
    BY <2>1, <2>3
<1> QED
  BY <1>2, <1>4, <1>5, <1>6

-----------------------------------------------------------------------------
(* The cost engine.                                                        *)

(* Every set of naturals that is not empty has a least element.            *)
LEMMA LeastNatural ==
  ASSUME NEW S, S \subseteq Nat, S # {}
  PROVE  \E m \in S : \A n \in S : m <= n
<1> DEFINE InNat == OpToRel(<, Nat)
<1>1. PICK m \in S : \A n \in S : ~(<<n, m>> \in InNat)
  BY NatLessThanWellFounded, WFMin, Zenon
<1>2. \A n \in S : ~(n < m)
  BY <1>1 DEF OpToRel
<1> QED
  BY <1>2

(* A reason against a plan is never mistaken for a result.                 *)
LEMMA ErrorFails ==
  \A code : Error(code).ok = FALSE
BY DEF Error

(* Rounding up keeps a natural number, and rounds by less than one.        *)
LEMMA CeilDivNat ==
  ASSUME NEW a \in Nat, NEW b \in Nat \ {0}
  PROVE  CeilDiv(a, b) \in Nat
<1>1. a + b - 1 \in Nat /\ b > 0
  OBVIOUS
<1>2. (a + b - 1) \div b \in Nat
  BY <1>1
<1> QED BY <1>2 DEF CeilDiv

(* A distance is a natural number, whichever of the two is larger.         *)
LEMMA DistanceNat ==
  ASSUME NEW a \in Int, NEW b \in Int
  PROVE  Distance(a, b) \in Nat /\ Distance(a, b) = IF a >= b THEN a - b ELSE b - a
BY DEF Distance, Larger

(* One step down the levels of a book.                                     *)
WalkStep(levels, window, quantity, f, i) ==
    IF i = 0 THEN [filled |-> 0, value |-> 0]
    ELSE IF i \in window THEN Take(levels[i], quantity, f[i - 1])
    ELSE f[i - 1]

(* f is the walk down N levels.                                            *)
WalksTo(f, N, levels, window, quantity) ==
    f = [i \in 0 .. N |-> WalkStep(levels, window, quantity, f, i)]

(* There is a walk of any length, as there is a sum.                       *)
LEMMA WalkExists ==
  ASSUME NEW levels, NEW window, NEW quantity, NEW N \in Nat
  PROVE  \E f : WalksTo(f, N, levels, window, quantity)
<1> DEFINE Built(m, f) == WalksTo(f, m, levels, window, quantity)
           Bad == {m \in Nat : \A f : ~Built(m, f)}
<1> SUFFICES Bad = {}
  OBVIOUS
<1>1. SUFFICES ASSUME Bad # {} PROVE FALSE
  OBVIOUS
<1>2. PICK m \in Bad : \A n \in Bad : m <= n
  BY <1>1, LeastNatural
<1>3. m # 0
  <2> DEFINE f == [i \in 0 .. 0 |-> [filled |-> 0, value |-> 0]]
  <2>1. Built(0, f)
    BY DEF WalkStep, WalksTo
  <2> QED
    BY <2>1
<1>4. m - 1 \in Nat /\ m - 1 \notin Bad
  BY <1>2, <1>3
<1>5. PICK f : Built(m - 1, f)
  BY <1>4
<1> DEFINE g == [i \in 0 .. m |-> IF i = m THEN WalkStep(levels, window, quantity, f, m)
                                  ELSE f[i]]
<1>6. ASSUME NEW i \in 0 .. m
      PROVE  g[i] = WalkStep(levels, window, quantity, g, i)
  <2>1. i # 0 => i - 1 \in 0 .. m - 1 /\ i - 1 \in 0 .. m /\ i - 1 # m
    BY <1>4
  <2>2. i # 0 => g[i - 1] = f[i - 1]
    BY <2>1
  <2>3. WalkStep(levels, window, quantity, g, i) = WalkStep(levels, window, quantity, f, i)
    BY <2>2 DEF WalkStep
  <2>4. i # m => i \in 0 .. m - 1
    BY <1>4
  <2>5. i # m => f[i] = WalkStep(levels, window, quantity, f, i)
    BY <1>5, <2>4 DEF WalksTo
  <2> QED
    BY <2>3, <2>5
<1>7. Built(m, g)
  <2> HIDE DEF g
  <2>1. g = [i \in 0 .. m |-> g[i]]
    BY DEF g
  <2> QED
    BY <1>6, <2>1 DEF WalksTo
<1> QED
  BY <1>2, <1>7

(* What a walk of a book gives.                                            *)
Walk == [filled : Nat, unfilled : Int, value : Nat]

(* A walk fills no more than is wanted, and nothing of an empty side.      *)
LEMMA WalkTyped ==
  ASSUME NEW levels \in Seq(DepthLevel), NEW fresh, NEW quantity \in Nat
  PROVE  /\ WalkBook(levels, fresh, quantity) \in Walk
         /\ WalkBook(levels, fresh, quantity).filled > 0 => levels # <<>>
<1> DEFINE window == IF fresh /\ quantity > 0 THEN Window(levels) ELSE {}
           walked == CHOOSE f : f = [i \in 0 .. Len(levels) |->
                                        WalkStep(levels, window, quantity, f, i)]
           taken == walked[Len(levels)]
           Fine(i) == walked[i] \in [filled : 0 .. quantity, value : Nat]
           Bad == {i \in 0 .. Len(levels) : ~Fine(i)}
<1>1. WalkBook(levels, fresh, quantity) =
        [filled |-> taken.filled, unfilled |-> quantity - taken.filled, value |-> taken.value]
  BY DEF WalkBook, WalkStep
<1>2. Len(levels) \in Nat
  OBVIOUS
<1>3. walked = [i \in 0 .. Len(levels) |-> WalkStep(levels, window, quantity, walked, i)]
  <2> DEFINE Fit(f) == WalksTo(f, Len(levels), levels, window, quantity)
  <2>1. walked = CHOOSE f : Fit(f)
    BY DEF WalksTo
  <2> HIDE DEF walked, window
  <2>2. \E f : Fit(f)
    BY <1>2, WalkExists
  <2> HIDE DEF Fit
  <2>3. Fit(walked)
    BY <2>1, <2>2
  <2> QED BY <2>3 DEF Fit, WalksTo
<1>4. \A i \in 0 .. Len(levels) : walked[i] = WalkStep(levels, window, quantity, walked, i)
  <2> HIDE DEF walked, window
  <2> QED BY <1>3
<1>5. window \subseteq 1 .. Len(levels)
  <2>1. Costs.maxLevels \in Nat
    BY CostsAssumption DEF CostSettings
  <2> QED BY <1>2, <2>1 DEF Window, Smaller
<1> HIDE DEF walked, window
<1>6. walked[0] = [filled |-> 0, value |-> 0]
  BY <1>2, <1>4 DEF WalkStep
<1>7. Bad = {}
  <2> SUFFICES ASSUME Bad # {} PROVE FALSE
    OBVIOUS
  <2>1. PICK i \in Bad : \A j \in Bad : i <= j
    <3>1. Bad \subseteq Nat
      OBVIOUS
    <3> HIDE DEF Bad
    <3> QED BY <3>1, LeastNatural
  <2>2. i # 0
    BY <1>6, <2>1
  <2>3. i - 1 \in 0 .. Len(levels) /\ i - 1 \notin Bad
    BY <1>2, <2>1, <2>2
  <2>4. Fine(i - 1)
    BY <2>3
  <2>5. CASE i \notin window
    BY <1>4, <2>1, <2>2, <2>4, <2>5 DEF WalkStep
  <2>6. CASE i \in window
    <3>1. levels[i] \in DepthLevel
      BY <1>5, <2>6
    <3> DEFINE before == walked[i - 1]
               take == Smaller(levels[i].quantity, quantity - before.filled)
    <3>2. walked[i] = [filled |-> before.filled + take,
                       value |-> before.value + take * levels[i].price]
      BY <1>4, <2>1, <2>2, <2>6 DEF WalkStep, Take
    <3>3. levels[i].quantity \in Nat /\ levels[i].price \in Nat
          /\ before.filled \in 0 .. quantity /\ before.value \in Nat
      BY <2>4, <3>1 DEF DepthLevel
    <3> HIDE DEF before
    <3>4. take \in 0 .. (quantity - before.filled)
      BY <3>3 DEF Smaller
    <3> HIDE DEF take
    <3>5. before.filled + take \in 0 .. quantity /\ before.value + take * levels[i].price \in Nat
      <4>1. take \in Nat
        BY <3>3, <3>4
      <4>2. take * levels[i].price \in Nat
        BY <3>3, <4>1
      <4>3. \A a, b \in Nat : a + b \in Nat
        OBVIOUS
      <4>4. before.value + take * levels[i].price \in Nat
        BY <3>3, <4>2, <4>3, Zenon
      <4>5. before.filled + take \in 0 .. quantity
        BY <3>3, <3>4
      <4> QED BY <4>4, <4>5
    <3> QED BY <2>1, <3>2, <3>5
  <2> QED BY <2>5, <2>6
<1>8. taken.filled \in Nat /\ taken.filled <= quantity /\ taken.value \in Nat
  <2>1. Fine(Len(levels))
    BY <1>2, <1>7
  <2> QED BY <2>1
<1>9. levels = <<>> => taken.filled = 0
  BY <1>6
<1> HIDE DEF taken
<1> QED
  BY <1>1, <1>8, <1>9 DEF Walk

(* Every setting of the cost engine that is looked up is a natural number. *)
LEMMA CostsTyped ==
  /\ \A mode : FeeRate(mode) \in Nat
  /\ \A leg, mode : StressFor(leg, mode) \in Nat
  /\ Costs.costBuffer \in Nat /\ Costs.fundingBuffer \in Nat
  /\ Costs.holdMinutes \in Nat /\ Costs.fundingInterval \in Nat
  /\ Costs.percentile \in 50 .. 100
<1>1. /\ Costs.makerFee \in Nat /\ Costs.takerFee \in Nat
      /\ Costs.entryStress \in Nat /\ Costs.targetStress \in Nat
      /\ Costs.invalidationStress \in Nat
  BY CostsAssumption DEF CostSettings
<1>2. \A mode : FeeRate(mode) \in Nat
  BY <1>1 DEF FeeRate
<1>3. \A leg, mode : StressFor(leg, mode) \in Nat
  BY <1>1 DEF StressFor, Smaller
<1> QED
  BY <1>2, <1>3, CostsAssumption DEF CostSettings

(* Products and sums of naturals, for leaves that hold no arithmetic.      *)
LEMMA Naturals ==
  /\ \A a, b \in Nat : a + b \in Nat
  /\ \A a, b \in Nat : a * b \in Nat
<1>1. \A a, b \in Nat : a * b \in Nat
  OBVIOUS
<1>2. \A a, b \in Nat : a + b \in Nat
  OBVIOUS
<1> QED BY <1>1, <1>2

(* A book of levels with natural prices and quantities.                    *)
BookTyped(book) == book.asks \in Seq(DepthLevel) /\ book.bids \in Seq(DepthLevel)

(* A leg of a plan at this reference price.                                *)
Leg(reference) ==
    [ok : {TRUE}, reference : {reference}, notional : Nat, slippage : Nat, fee : Nat]

(* What a fill costs beyond the touch is never a gain.                     *)
LEMMA PenaltyNat ==
  ASSUME NEW leg, NEW mode, NEW worth \in Nat, NEW walk, walk.value \in Nat,
         NEW touch \in Nat \ {0}
  PROVE  Penalty(leg, mode, worth, walk, touch) \in Nat
<1>1. Distance(walk.value, touch) \in Nat
  <2>1. walk.value \in Int /\ touch \in Int
    OBVIOUS
  <2> QED BY <2>1, DistanceNat, Zenon
<1>2. worth * Distance(walk.value, touch) \in Nat
  BY <1>1
<1>3. worth * Distance(walk.value, touch) * BPS \in Nat
  BY <1>2 DEF BPS
<1>4. CeilDiv(worth * Distance(walk.value, touch) * BPS, touch) \in Nat
  BY <1>3, CeilDivNat
<1>5. worth * StressFor(leg, mode) \in Nat
  BY CostsTyped
<1> QED
  BY <1>4, <1>5, Naturals, Zenon DEF Penalty

(* A leg that is accepted has the price it was asked for and typed costs.  *)
LEMMA PenalizedWhenOk ==
  ASSUME NEW mode, NEW reference, NEW penalty \in Nat, NEW notional \in Int,
         PenalizedLeg(mode, reference, penalty, notional).ok
  PROVE  PenalizedLeg(mode, reference, penalty, notional) \in Leg(reference)
<1>1. ~(notional <= 0)
  BY ErrorFails DEF PenalizedLeg
<1>2. notional * FeeRate(mode) \in Nat /\ notional \in Nat
  BY <1>1, CostsTyped
<1>3. CeilDiv(notional * FeeRate(mode), BPS) \in Nat
  BY <1>2, CeilDivNat DEF BPS
<1> QED
  BY <1>1, <1>2, <1>3 DEF PenalizedLeg, Leg

(* A leg that is estimated is at a price, of a quantity, and costs         *)
(* something or nothing.                                                   *)
LEMMA LegWhenOk ==
  ASSUME NEW leg, NEW mode, NEW bullish, NEW reference \in Int, NEW quantity \in Int,
         NEW book, BookTyped(book),
         EstimateLeg(leg, mode, bullish, reference, quantity, book).ok
  PROVE  /\ reference > 0 /\ quantity > 0
         /\ EstimateLeg(leg, mode, bullish, reference, quantity, book) \in Leg(reference)
<1> DEFINE side == Side(book, leg = "entry", bullish)
           walk == WalkBook(side, book.fresh, quantity)
           touch == side[1].price * quantity
           worth == reference * quantity
           penalty == Penalty(leg, mode, worth, walk, touch)
           notional == worth * BPS + AdverseSign(leg = "entry", bullish) * penalty
           e == EstimateLeg(leg, mode, bullish, reference, quantity, book)
<1>1. reference > 0 /\ quantity > 0
  BY ErrorFails DEF EstimateLeg
<1>2. e = LegOnWalk(leg, mode, bullish, reference, quantity, walk, touch)
  BY ErrorFails DEF EstimateLeg
<1>3. side \in Seq(DepthLevel)
  BY DEF Side, BookTyped
<1>4. quantity \in Nat
  BY <1>1
<1> HIDE DEF side
<1>5. walk \in Walk /\ (walk.filled > 0 => side # <<>>)
  BY <1>3, <1>4, WalkTyped
<1>6. FullyFilled(walk) /\ e = PenalizedLeg(mode, reference, penalty, notional)
  BY <1>2, ErrorFails DEF LegOnWalk
<1> HIDE DEF walk
<1>7. side # <<>> /\ walk.value \in Nat
  BY <1>5, <1>6 DEF FullyFilled, Walk
<1>8. side[1] \in DepthLevel
  BY <1>3, <1>7
<1>9. side[1].price \in Nat \ {0}
  BY <1>8 DEF DepthLevel
<1>10. touch \in Nat \ {0}
  BY <1>1, <1>4, <1>9
<1>11. worth \in Nat
  BY <1>1, <1>4
<1> HIDE DEF touch, worth
<1>12. penalty \in Nat
  BY <1>7, <1>10, <1>11, PenaltyNat
<1> HIDE DEF penalty
<1>13. notional \in Int
  BY <1>11, <1>12 DEF AdverseSign, BPS
<1> HIDE DEF notional
<1>14. PenalizedLeg(mode, reference, penalty, notional).ok
  BY <1>6
<1> QED
  BY <1>1, <1>6, <1>12, <1>13, <1>14, PenalizedWhenOk

(* The entries of a sequence are finitely many.                            *)
LEMMA EntriesFinite ==
  ASSUME NEW T, NEW s \in Seq(T)
  PROVE  /\ IsFiniteSet({s[i] : i \in DOMAIN s})
         /\ {s[i] : i \in DOMAIN s} \subseteq T
<1> DEFINE V == {s[i] : i \in DOMAIN s}
           n == Len(s)
<1>1. n \in Nat /\ DOMAIN s = 1 .. n /\ s \in [1 .. n -> T]
  OBVIOUS
<1>2. s \in Surjection(1 .. n, V)
  BY <1>1 DEF Surjection
<1>3. IsFiniteSet(1 .. n)
  BY <1>1, FS_Interval
<1>4. IsFiniteSet(V)
  <2> HIDE DEF V, n
  <2> QED BY <1>2, <1>3, FS_Surjection
<1> QED
  BY <1>1, <1>4

(* The nearest rank is one of the values: the largest covers every share.  *)
LEMMA PercentileNat ==
  ASSUME NEW values \in Seq(Nat), NEW share \in 50 .. 100
  PROVE  Percentile(values, share) \in Nat
<1>1. CASE values = <<>>
  BY <1>1 DEF Percentile
<1>2. CASE values # <<>>
  <2> DEFINE n == Len(values)
             V == {values[i] : i \in DOMAIN values}
             AtMost(v) == Cardinality({i \in DOMAIN values : values[i] <= v})
             rank == Larger(1, CeilDiv(share * n, 100))
             W == {v \in V : AtMost(v) >= rank}
             Fits(v) == /\ AtMost(v) >= rank
                          /\ \A i \in DOMAIN values : AtMost(values[i]) >= rank => v <= values[i]
  <2>1. n \in Nat \ {0} /\ DOMAIN values = 1 .. n
    BY <1>2
  <2>2. IsFiniteSet(V) /\ V \subseteq Nat
    BY EntriesFinite
  <2>3. V # {}
    BY <2>1
  <2>4. PICK top \in V : \A v \in V : top >= v
    <3> HIDE DEF V
    <3>1. V \in SUBSET Int
      BY <2>2
    <3> QED BY <2>2, <2>3, <3>1, MaxTaken
  <2>5. {i \in DOMAIN values : values[i] <= top} = 1 .. n
    BY <2>1, <2>4
  <2>6. Cardinality(1 .. n) = n
    <3> HIDE DEF n
    <3> QED BY <2>1, FS_Interval
  <2>7. rank <= n
    <3>1. share * n + 99 <= 100 * n + 99
      BY <2>1
    <3>2. (100 * n + 99) \div 100 = n
      <4> HIDE DEF n
      <4> QED BY <2>1, Z3
    <3>3. (share * n + 99) \div 100 <= n
      <4> DEFINE m == share * n
      <4>1. m \in Nat /\ m <= 100 * n
        BY <2>1
      <4> HIDE DEF m
      <4> QED BY <2>1, <4>1
    <3>4. CeilDiv(share * n, 100) = (share * n + 99) \div 100
      BY <2>1 DEF CeilDiv
    <3> QED BY <2>1, <3>3, <3>4 DEF Larger
  <2>8. top \in W
    BY <2>4, <2>5, <2>6, <2>7
  <2>9. IsFiniteSet(W) /\ W \subseteq Nat
    BY <2>2, FS_Subset
  <2>10. PICK v \in W : \A w \in W : v <= w
    <3> HIDE DEF W
    <3>1. W \in SUBSET Int
      BY <2>9
    <3> QED BY <2>8, <2>9, <3>1, MinTaken
  <2>11. \E w \in V : Fits(w)
    <3>1. \A i \in DOMAIN values : values[i] \in V
      OBVIOUS
    <3> QED BY <2>10, <3>1
  <2>12. Percentile(values, share) = CHOOSE w \in V : Fits(w)
    BY <1>2 DEF Percentile
  <2>13. Percentile(values, share) \in V
    <3> HIDE DEF V, Fits
    <3> QED BY <2>11, <2>12
  <2> QED BY <2>2, <2>13
<1> QED
  BY <1>1, <1>2

(* Whatever is known of the funding is a number.                           *)
FundingTyped(funding) ==
    /\ funding.current # None => funding.current \in Int
    /\ funding.history \in Seq(Int)
    /\ funding.next # None => funding.next \in Nat

(* The funding a plan reckons with is never income.                        *)
LEMMA PlannedRateNat ==
  ASSUME NEW funding, FundingTyped(funding), NEW bullish
  PROVE  PlannedRate(funding, bullish) \in Nat
<1> DEFINE adverse == [i \in DOMAIN funding.history |-> AdverseRate(funding.history[i], bullish)]
<1>1. \A rate \in Int : AdverseRate(rate, bullish) \in Nat
  BY DEF AdverseRate, Larger
<1>2. adverse \in Seq(Nat)
  <2>1. Len(funding.history) \in Nat /\ DOMAIN funding.history = 1 .. Len(funding.history)
    BY DEF FundingTyped
  <2>2. \A i \in DOMAIN funding.history : AdverseRate(funding.history[i], bullish) \in Nat
    <3>1. \A i \in DOMAIN funding.history : funding.history[i] \in Int
      BY DEF FundingTyped
    <3> QED BY <1>1, <3>1
  <2> QED BY <2>1, <2>2
<1>3. Percentile(adverse, Costs.percentile) \in Nat
  <2> HIDE DEF adverse
  <2> QED BY <1>2, CostsTyped, PercentileNat
<1>4. (IF funding.current = None THEN 0 ELSE AdverseRate(funding.current, bullish)) \in Nat
  BY <1>1 DEF FundingTyped
<1> HIDE DEF adverse
<1>5. \A a, b \in Nat : Larger(a, b) \in Nat
  BY DEF Larger
<1> QED
  BY <1>3, <1>4, <1>5, Zenon DEF PlannedRate, adverse

(* How many funding times the holding period meets is a natural number.    *)
LEMMA IntervalsNat ==
  ASSUME NEW funding, FundingTyped(funding)
  PROVE  Intervals(funding.next, Costs.holdMinutes) \in Nat
<1>1. Costs.fundingInterval # 0 => 60 * Costs.fundingInterval \in Nat \ {0}
  BY CostsTyped
<1>2. Costs.fundingInterval # 0 =>
        CeilDiv(Costs.holdMinutes, 60 * Costs.fundingInterval) \in Nat
  BY <1>1, CostsTyped, CeilDivNat
<1> QED
  BY <1>2 DEF Intervals

(* The funding of a plan is a cost.                                        *)
LEMMA FundingWhenOk ==
  ASSUME NEW funding, FundingTyped(funding), NEW bullish, NEW notional \in Nat,
         ProjectFunding(funding, bullish, Costs.holdMinutes, notional).ok
  PROVE  ProjectFunding(funding, bullish, Costs.holdMinutes, notional).cost \in Nat
<1> DEFINE buffer == CeilDiv(notional * Costs.fundingBuffer, BPS)
           rate == PlannedRate(funding, bullish)
           intervals == Intervals(funding.next, Costs.holdMinutes)
           charged == CeilDiv(notional * rate * intervals, BPS)
<1>1. buffer \in Nat
  <2>1. notional * Costs.fundingBuffer \in Nat
    BY CostsTyped
  <2> QED BY <2>1, CeilDivNat DEF BPS
<1>2. charged \in Nat
  <2>1. rate \in Nat /\ intervals \in Nat
    BY PlannedRateNat, IntervalsNat
  <2> HIDE DEF rate, intervals
  <2>2. notional * rate * intervals \in Nat
    BY <2>1, Naturals, Zenon
  <2> QED BY <2>2, CeilDivNat DEF BPS
<1> DEFINE p == Projected(funding, bullish, Costs.holdMinutes, notional, buffer)
<1>3. p.ok
  BY DEF ProjectFunding
<1>4. p.cost \in {charged + buffer, charged + 0, buffer}
  <2> HIDE DEF buffer
  <2>1. p.cost \in {charged + IF Len(funding.history) < 3 THEN buffer ELSE 0, buffer}
    BY <1>3, ErrorFails, Zenon DEF Projected
  <2> QED BY <2>1
<1> HIDE DEF charged, buffer
<1>5. p.cost \in Nat
  BY <1>1, <1>2, <1>4
<1> QED
  BY <1>5 DEF ProjectFunding, buffer

(* How far a price lies from another one in the direction of the plan.     *)
Toward(bullish, from, to) == IF bullish THEN to - from ELSE from - to

(* The gain between two legs, and its negative, as a distance of their     *)
(* prices in the plan's direction.                                         *)
LEMMA GainIs ==
  ASSUME NEW bullish \in BOOLEAN, NEW entry, NEW leg, NEW quantity \in Int,
         entry.reference \in Int, leg.reference \in Int
  PROVE  /\ Gain(bullish, entry, leg, quantity)
                = Toward(bullish, entry.reference, leg.reference) * quantity * BPS
         /\ -Gain(bullish, entry, leg, quantity)
                = Toward(bullish, leg.reference, entry.reference) * quantity * BPS
<1> DEFINE d == leg.reference - entry.reference
<1>1. d \in Int /\ -d = entry.reference - leg.reference
  OBVIOUS
<1>2. Gain(bullish, entry, leg, quantity) = (IF bullish THEN 1 ELSE -1) * d * quantity * BPS
  BY DEF Gain
<1>3. Toward(bullish, entry.reference, leg.reference) = (IF bullish THEN d ELSE -d)
  BY DEF Toward
<1>4. Toward(bullish, leg.reference, entry.reference) = (IF bullish THEN -d ELSE d)
  BY DEF Toward
<1> HIDE DEF d
<1>5. 1 * d * quantity * BPS = d * quantity * BPS
      /\ (-1) * d * quantity * BPS = (-d) * quantity * BPS
      /\ -(1 * d * quantity * BPS) = (-d) * quantity * BPS
      /\ -((-1) * d * quantity * BPS) = d * quantity * BPS
  BY <1>1 DEF BPS
<1> QED
  BY <1>2, <1>3, <1>4, <1>5

(* The frictions of a way out are a natural number.                        *)
LEMMA FrictionsTyped ==
  ASSUME NEW entry, NEW leg, NEW a, NEW b, entry \in Leg(a), leg \in Leg(b),
         NEW projection, projection.cost \in Nat, NEW buffer \in Nat
  PROVE  Frictions(entry, leg, projection, buffer) \in Nat
<1>1. /\ entry.fee \in Nat /\ entry.slippage \in Nat
      /\ leg.fee \in Nat /\ leg.slippage \in Nat
  BY DEF Leg
<1> QED
  BY <1>1 DEF Frictions

(* What estimated costs say of a plan: the loss at the invalidation is its *)
(* distance, and the frictions on top; no target earns more than its       *)
(* distance.                                                               *)
CostsSay(costs, bullish, enter, invalidate, prices, quantity) ==
    /\ costs.loss.gross = Toward(bullish, invalidate, enter) * quantity * BPS
    /\ costs.loss.gross > 0
    /\ costs.frictions \in Nat
    /\ costs.loss.net = costs.loss.gross + costs.frictions
    /\ \A i \in DOMAIN prices :
            /\ costs.targets[i].net \in Int
            /\ costs.targets[i].net <= Toward(bullish, enter, prices[i]) * quantity * BPS

(* The legs of a plan, each estimated for its price, or not at all.        *)
LegsOf(enter, invalidate, prices, entry, invalidation, targets) ==
    /\ entry \in Leg(enter) /\ invalidation \in Leg(invalidate)
    /\ DOMAIN targets = DOMAIN prices
    /\ \A i \in DOMAIN targets : /\ targets[i].ok \in BOOLEAN
                                 /\ targets[i].ok => targets[i] \in Leg(prices[i])

(* The loss at the invalidation, as the cost engine computes it.           *)
LossOf(bullish, entry, invalidation, quantity, projection, buffer) ==
    InvalidationEconomics(bullish, entry, invalidation, quantity, projection, buffer)

(* Accepted economics: the loss is the distance of the invalidation with   *)
(* all frictions on top, and no target earns more than its distance.       *)
LEMMA EconomicsWhenOk ==
  ASSUME NEW bullish \in BOOLEAN, NEW quantity \in Nat, NEW enter \in Int,
         NEW invalidate \in Int, NEW prices \in Seq(Int),
         NEW entry, NEW invalidation, NEW targets,
         LegsOf(enter, invalidate, prices, entry, invalidation, targets),
         NEW projection, projection.cost \in Nat, NEW buffer \in Nat,
         PlanEconomics(bullish, quantity, entry, invalidation, targets, projection, buffer,
            LossOf(bullish, entry, invalidation, quantity, projection, buffer)).ok
  PROVE  CostsSay(PlanEconomics(bullish, quantity, entry, invalidation, targets, projection,
                        buffer,
                        LossOf(bullish, entry, invalidation, quantity, projection, buffer)),
                  bullish, enter, invalidate, prices, quantity)
<1> DEFINE costs == PlanEconomics(bullish, quantity, entry, invalidation, targets, projection,
                    buffer, LossOf(bullish, entry, invalidation, quantity, projection, buffer))
<1>a. /\ costs.ok
      /\ entry \in Leg(enter) /\ invalidation \in Leg(invalidate)
      /\ DOMAIN targets = DOMAIN prices
      /\ \A i \in DOMAIN targets : targets[i].ok => targets[i] \in Leg(prices[i])
  BY DEF LegsOf
<1> DEFINE loss == LossOf(bullish, entry, invalidation, quantity, projection, buffer)
           failed == {i \in DOMAIN targets : ~targets[i].ok}
<1>1. ~(loss.gross <= 0)
  BY <1>a, ErrorFails DEF PlanEconomics
<1>2. failed = {}
  <2> SUFFICES ASSUME failed # {} PROVE FALSE
    OBVIOUS
  <2>1. costs = targets[Min(failed)]
    BY <1>1 DEF PlanEconomics
  <2>2. failed \in SUBSET Int /\ IsFiniteSet(failed)
    <3>1. DOMAIN prices = 1 .. Len(prices) /\ Len(prices) \in Nat
      OBVIOUS
    <3>2. IsFiniteSet(1 .. Len(prices))
      BY <3>1, FS_Interval
    <3> QED BY <1>a, <3>1, <3>2, FS_Subset
  <2>3. Min(failed) \in failed
    <3> HIDE DEF failed
    <3> QED BY <2>2, MinTaken
  <2> QED BY <1>a, <2>1, <2>3
<1>3. costs = [ok |-> TRUE, notional |-> entry.notional, loss |-> loss,
              slippage |-> entry.slippage + invalidation.slippage,
              funding |-> projection,
              frictions |-> Frictions(entry, invalidation, projection, buffer),
              targets |-> [i \in DOMAIN targets |->
                TargetEconomics(bullish, entry, targets[i], quantity,
                                projection, buffer)]]
  BY <1>1, <1>2, <1>a, ErrorFails, Zenon DEF PlanEconomics
<1>4. /\ costs.loss = loss
      /\ costs.frictions = Frictions(entry, invalidation, projection, buffer)
      /\ \A i \in DOMAIN targets : costs.targets[i] =
            TargetEconomics(bullish, entry, targets[i], quantity, projection, buffer)
  <2> HIDE DEF costs, loss
  <2> QED BY <1>3
<1>5. entry.reference = enter /\ invalidation.reference = invalidate
  BY <1>a DEF Leg
<1>6. loss.gross = Toward(bullish, invalidate, enter) * quantity * BPS
      /\ loss.net = loss.gross + costs.frictions
  <2>1. quantity \in Int
    OBVIOUS
  <2>2. -Gain(bullish, entry, invalidation, quantity)
            = Toward(bullish, invalidate, enter) * quantity * BPS
    BY <1>5, <2>1, GainIs
  <2> QED BY <1>4, <2>2 DEF LossOf, InvalidationEconomics
<1>7. costs.frictions \in Nat
  BY <1>4, <1>a, FrictionsTyped
<1>8. loss.gross \in Int
  <2>1. Toward(bullish, invalidate, enter) \in Int
    BY DEF Toward
  <2>2. \A a, b \in Int : a * b * BPS \in Int
    BY DEF BPS
  <2>3. quantity \in Int
    OBVIOUS
  <2> QED BY <1>6, <2>1, <2>2, <2>3, Zenon
<1>9. loss.gross > 0
  BY <1>1, <1>8
<1> HIDE DEF costs, loss
<1>10. ASSUME NEW i \in DOMAIN prices
       PROVE  /\ costs.targets[i].net \in Int
              /\ costs.targets[i].net <= Toward(bullish, enter, prices[i]) * quantity * BPS
  <2>1. targets[i] \in Leg(prices[i]) /\ prices[i] \in Int
    BY <1>2, <1>a
  <2>2. targets[i].reference = prices[i]
    BY <2>1 DEF Leg
  <2> DEFINE g == Toward(bullish, enter, prices[i]) * quantity * BPS
             fr == Frictions(entry, targets[i], projection, buffer)
  <2>3. Gain(bullish, entry, targets[i], quantity) = g
    <3>1. quantity \in Int
      OBVIOUS
    <3> QED BY <1>5, <2>1, <2>2, <3>1, GainIs
  <2>4. fr \in Nat
    BY <2>1, <1>a, FrictionsTyped
  <2>5. g \in Int
    <3>1. Toward(bullish, enter, prices[i]) \in Int
      BY <2>1 DEF Toward
    <3>2. \A a, b \in Int : a * b * BPS \in Int
      BY DEF BPS
    <3>3. quantity \in Int
      OBVIOUS
    <3> QED BY <3>1, <3>2, <3>3, Zenon
  <2>6. costs.targets[i].net = g - fr
    <3>1. costs.targets[i] = TargetEconomics(bullish, entry, targets[i], quantity,
                                             projection, buffer)
      BY <1>4, <1>a
    <3>2. TargetEconomics(bullish, entry, targets[i], quantity, projection, buffer).net
            = Gain(bullish, entry, targets[i], quantity) - fr
      BY DEF TargetEconomics
    <3> HIDE DEF fr, g
    <3> QED BY <2>3, <3>1, <3>2, Zenon
  <2> HIDE DEF g, fr
  <2>7. g - fr \in Int /\ g - fr <= g
    BY <2>4, <2>5
  <2> QED BY <2>6, <2>7 DEF g
<1> QED
  BY <1>4, <1>6, <1>7, <1>9, <1>10 DEF CostsSay, costs

(* Costs that are estimated say this of a plan of some size at some price. *)
LEMMA CostsWhenOk ==
  ASSUME NEW bullish \in BOOLEAN, NEW enter \in Int, NEW invalidate \in Int,
         NEW prices \in Seq(Int), NEW quantity \in Int,
         NEW book, BookTyped(book), NEW funding, FundingTyped(funding), NEW costs,
         costs = EstimateCosts(bullish, enter, invalidate, prices, quantity, book, funding),
         costs.ok
  PROVE  /\ enter > 0 /\ quantity > 0 /\ prices # <<>>
         /\ CostsSay(costs, bullish, enter, invalidate, prices, quantity)
<1> DEFINE L(leg, mode, price) == EstimateLeg(leg, mode, bullish, price, quantity, book)
           entry == L("entry", Costs.entryMode, enter)
           invalidation == L("invalidation", Costs.invalidationMode, invalidate)
           targets == [i \in DOMAIN prices |-> L("target", Costs.targetMode, prices[i])]
           projection == ProjectFunding(funding, bullish, Costs.holdMinutes, entry.notional)
           buffer == CeilDiv(entry.notional * Costs.costBuffer, BPS)
<1>1. prices # <<>> /\ quantity > 0
      /\ costs = PlanLegs(bullish, quantity, entry, invalidation, targets, funding)
  BY ErrorFails DEF EstimateCosts
<1>b. \A i \in DOMAIN targets : targets[i].ok \in BOOLEAN
  <2> SUFFICES ASSUME NEW i \in DOMAIN prices PROVE targets[i].ok \in BOOLEAN
    OBVIOUS
  <2> DEFINE e == L("target", Costs.targetMode, prices[i])
  <2>1. \A r, p, n : PenalizedLeg(Costs.targetMode, r, p, n).ok \in BOOLEAN
    BY DEF PenalizedLeg, Error
  <2>2. \A w, t : LegOnWalk("target", Costs.targetMode, bullish, prices[i], quantity, w, t).ok
                    \in BOOLEAN
    BY <2>1, Zenon DEF LegOnWalk, Error
  <2>3. e.ok \in BOOLEAN
    BY <2>2, Zenon DEF EstimateLeg, Error
  <2> QED BY <2>3
<1>2. entry.ok /\ invalidation.ok
      /\ costs = PlanFunding(bullish, quantity, entry, invalidation, targets, projection, buffer)
  <2> HIDE DEF entry, invalidation, targets
  <2> QED BY <1>1 DEF PlanLegs, projection, buffer
<1>3. entry \in Leg(enter) /\ enter > 0
  BY <1>2, LegWhenOk
<1>4. invalidation \in Leg(invalidate)
  BY <1>2, LegWhenOk
<1>5. DOMAIN targets = DOMAIN prices
  OBVIOUS
<1>6. ASSUME NEW i \in DOMAIN targets, targets[i].ok
      PROVE  targets[i] \in Leg(prices[i])
  <2>1. prices[i] \in Int
    OBVIOUS
  <2>2. targets[i] = L("target", Costs.targetMode, prices[i])
    OBVIOUS
  <2> HIDE DEF targets
  <2>3. L("target", Costs.targetMode, prices[i]).ok
    BY <1>6, <2>2
  <2> QED BY <2>1, <2>2, <2>3, LegWhenOk
<1> HIDE DEF entry, invalidation, targets
<1>7. projection.ok
      /\ costs = PlanEconomics(bullish, quantity, entry, invalidation, targets, projection,
                    buffer, LossOf(bullish, entry, invalidation, quantity, projection, buffer))
  <2> HIDE DEF projection, buffer
  <2> QED BY <1>2 DEF PlanFunding, LossOf
<1>8. entry.notional \in Nat
  BY <1>3 DEF Leg
<1>9. projection.cost \in Nat
  BY <1>7, <1>8, FundingWhenOk
<1>10. buffer \in Nat
  <2>1. entry.notional * Costs.costBuffer \in Nat
    BY <1>8, CostsTyped
  <2> QED BY <2>1, CeilDivNat DEF BPS
<1> HIDE DEF projection, buffer
<1>11. quantity \in Nat
  BY <1>1
<1>12. LegsOf(enter, invalidate, prices, entry, invalidation, targets)
  BY <1>3, <1>4, <1>5, <1>6, <1>b DEF LegsOf
<1>13. CostsSay(costs, bullish, enter, invalidate, prices, quantity)
  BY <1>7, <1>9, <1>10, <1>11, <1>12, EconomicsWhenOk
<1> QED
  BY <1>1, <1>3, <1>13

-----------------------------------------------------------------------------
(* Risk settings and the gates.                                            *)

(* Risk settings as the engine reads them.                                 *)
RiskTyped(risk) ==
    /\ risk.account \in Nat /\ risk.riskBps \in Int
    /\ risk.minBps \in Int /\ risk.maxBps \in Int
    /\ risk.bufferBps = RiskDefaults.bufferBps /\ risk.bufferBps \in Nat
    /\ risk.bufferAtr = RiskDefaults.bufferAtr /\ risk.bufferAtr \in Nat
    /\ risk.maxLeverage \in Int /\ risk.maxNotional \in Nat
    /\ risk.minNetRR \in Int /\ risk.maxCostPct \in Int
    /\ risk.approxInitial \in Nat /\ risk.approxMaintenance \in Nat
    /\ risk.liquidationBps \in Nat /\ risk.stressBps \in Nat
    /\ risk.liquidationAtr \in Nat
    /\ risk.expirySeconds = RiskDefaults.expirySeconds /\ risk.expirySeconds \in Int
    /\ risk.confirmedOnly = RiskDefaults.confirmedOnly

(* Overriding the risk settings for an asset class or a symbol keeps them  *)
(* integers.                                                               *)
LEMMA EffectiveTyped ==
  ASSUME NEW assetClass
  PROVE  RiskTyped(EffectiveRiskSettings(assetClass))
<1> DEFINE class == IF assetClass \in DOMAIN ClassOverrides
                    THEN ClassOverrides[assetClass] ELSE <<>>
           Overridden(key) ==
            IF key \notin OverridableKeys THEN RiskDefaults[key]
            ELSE IF key \in DOMAIN SymbolOverrides THEN SymbolOverrides[key]
            ELSE IF key \in DOMAIN class THEN class[key]
            ELSE RiskDefaults[key]
           risk == EffectiveRiskSettings(assetClass)
<1>0. /\ DOMAIN RiskDefaults = Switches \cup Amounts \cup {"weights"}
      /\ \A key \in Amounts : RiskDefaults[key] \in Int
      /\ \A key \in Amounts \ Unvalidated : RiskDefaults[key] \in Nat
  <2>1. TypedSettings(RiskDefaults)
    BY RiskAssumption, Zenon DEF AcceptedSettings
  <2> QED BY <2>1, Zenon DEF TypedSettings
<1>1. /\ OverridableKeys \subseteq Amounts
      /\ Amounts \subseteq DOMAIN RiskDefaults
      /\ "confirmedOnly" \in DOMAIN RiskDefaults
  BY <1>0 DEF OverridableKeys, Amounts, Switches
<1>2. risk = [[key \in DOMAIN RiskDefaults |-> Overridden(key)]
                EXCEPT !.maxLeverage = Smaller(300, @)]
  BY DEF EffectiveRiskSettings
<1> HIDE DEF Overridden
<1>3. \A key \in DOMAIN RiskDefaults \ {"maxLeverage"} : risk[key] = Overridden(key)
  BY <1>2
<1>4. \A key \in DOMAIN RiskDefaults \ OverridableKeys : Overridden(key) = RiskDefaults[key]
  BY DEF Overridden
<1>5. ASSUME NEW key \in OverridableKeys, RiskDefaults[key] \in Int
      PROVE  Overridden(key) \in Int
  <2>1. key \in DOMAIN class => class[key] \in Int
    BY OverridesAssumption
  <2> QED
    BY <1>5, <2>1, OverridesAssumption DEF Overridden
<1>6. \A key \in Amounts \ {"maxLeverage"} : risk[key] \in Int
  <2> SUFFICES ASSUME NEW key \in Amounts \ {"maxLeverage"} PROVE risk[key] \in Int
    OBVIOUS
  <2>1. risk[key] = Overridden(key)
    BY <1>1, <1>3
  <2>2. RiskDefaults[key] \in Int
    BY <1>0
  <2>3. key \in OverridableKeys \/ Overridden(key) = RiskDefaults[key]
    BY <1>1, <1>4
  <2> QED BY <1>5, <2>1, <2>2, <2>3
<1>7. risk.maxLeverage \in Int
  <2>1. "maxLeverage" \in OverridableKeys /\ RiskDefaults["maxLeverage"] \in Int
    BY <1>0, <1>1 DEF OverridableKeys
  <2>2. Overridden("maxLeverage") \in Int
    BY <1>5, <2>1
  <2>3. risk.maxLeverage = Smaller(300, Overridden("maxLeverage"))
    BY <1>1, <1>2, <2>1
  <2> HIDE DEF risk
  <2> QED BY <2>2, <2>3 DEF Smaller
<1>8. \A key \in (Amounts \ OverridableKeys) \cup {"confirmedOnly"} :
          risk[key] = RiskDefaults[key]
  BY <1>1, <1>3, <1>4 DEF OverridableKeys
<1> HIDE DEF risk
<1>9. /\ {"account", "bufferBps", "bufferAtr", "maxNotional", "approxInitial",
          "approxMaintenance", "liquidationBps", "stressBps", "liquidationAtr"}
            \subseteq (Amounts \ Unvalidated) \ OverridableKeys
      /\ "expirySeconds" \in Amounts \ OverridableKeys
      /\ {"riskBps", "minBps", "maxBps", "minNetRR", "maxCostPct"}
            \subseteq Amounts \ {"maxLeverage"}
  BY DEF Amounts, Unvalidated, OverridableKeys
<1>10. RiskTyped(risk)
  BY <1>0, <1>6, <1>7, <1>8, <1>9 DEF RiskTyped
<1> QED
  BY <1>10 DEF risk

-----------------------------------------------------------------------------
(* What a plan derives: entry, invalidation, position, targets, leverage.  *)

(* The stages of an evaluation, each on the results of those before it.    *)
EntryOf(context, risk) == DeriveEntryZone(context, risk)
(* The derivations of a plan, each from those before it.                   *)
InvalidationOf(context, risk) ==
    DeriveInvalidation(context, EntryOf(context, risk).price, risk)
DistanceOf(context, risk) ==
    Distance(EntryOf(context, risk).price, InvalidationOf(context, risk).price)
TargetsOf(context, risk) == DeriveTargets(context, EntryOf(context, risk).price, risk)
PositionOf(context, risk) ==
    SizeReferencePosition(context.instrument, EntryOf(context, risk).price,
                          DistanceOf(context, risk), risk)
LeverageOf(context, risk) ==
    LeverageSuitability(context, EntryOf(context, risk).price,
                        InvalidationOf(context, risk).price,
                        PositionOf(context, risk).notional, risk)
PricesOf(context, risk) ==
    [i \in DOMAIN TargetsOf(context, risk).levels |-> TargetsOf(context, risk).levels[i].price]
CostsOf(context, risk) ==
    EstimateCosts(context.candidate.bullish, EntryOf(context, risk).price,
                  InvalidationOf(context, risk).price, PricesOf(context, risk),
                  PositionOf(context, risk).quantity, context.book, context.funding)

(* All of them pass.                                                       *)
Passed(context, risk) ==
    /\ FirstFailure(HardGates(context, risk)).ok
    /\ EntryOf(context, risk).ok
    /\ InvalidationOf(context, risk).ok
    /\ ValidateRiskDistance(DistanceOf(context, risk), EntryOf(context, risk).price,
                            context.atr, risk).ok
    /\ TargetsOf(context, risk).ok
    /\ PositionOf(context, risk).ok
    /\ LeverageOf(context, risk).ok
    /\ CostsOf(context, risk).ok
    /\ ValidateCostEstimate(CostsOf(context, risk), risk).ok

(* A plan stands behind all the stages, and consists of their results.     *)
LEMMA PlanPassed ==
  ASSUME NEW context, NEW risk, EvaluateUnder(context, risk).ok
  PROVE  /\ Passed(context, risk)
         /\ EvaluateUnder(context, risk) =
                Plan(context, EntryOf(context, risk), InvalidationOf(context, risk),
                     TargetsOf(context, risk), PositionOf(context, risk),
                     LeverageOf(context, risk), CostsOf(context, risk), risk)
<1> DEFINE result == EvaluateUnder(context, risk)
           entry == EntryOf(context, risk)
           invalidation == InvalidationOf(context, risk)
           distance == DistanceOf(context, risk)
           targets == TargetsOf(context, risk)
           position == PositionOf(context, risk)
           leverage == LeverageOf(context, risk)
           costs == CostsOf(context, risk)
<1>1. FirstFailure(HardGates(context, risk)).ok /\ result = Zoned(context, risk, entry)
  BY Zenon DEF EvaluateUnder, EntryOf
<1>2. result.ok
  OBVIOUS
<1> HIDE DEF result
<1>3. entry.ok /\ result = Invalidated(context, risk, entry, invalidation)
  BY <1>1, <1>2, Zenon DEF Zoned, InvalidationOf
<1>4. invalidation.ok /\ result = Framed(context, risk, entry, invalidation, distance)
  BY <1>2, <1>3, Zenon DEF Invalidated, DistanceOf
<1>5. /\ ValidateRiskDistance(distance, entry.price, context.atr, risk).ok
      /\ result = Targeted(context, risk, entry, invalidation, targets, distance)
  BY <1>2, <1>4, Zenon DEF Framed, TargetsOf
<1>6. targets.ok /\ result = Sized(context, risk, entry, invalidation, targets, position)
  BY <1>2, <1>5, Zenon DEF Targeted, PositionOf
<1>7. position.ok
      /\ result = Carried(context, risk, entry, invalidation, targets, position, leverage)
  BY <1>2, <1>6, Zenon DEF Sized, LeverageOf
<1>8. leverage.ok
      /\ result = Costed(context, risk, entry, invalidation, targets, position, leverage, costs)
  BY <1>2, <1>7, Zenon DEF Carried, CostsOf, PricesOf
<1>9. costs.ok /\ ValidateCostEstimate(costs, risk).ok
      /\ result = Scored(Plan(context, entry, invalidation, targets, position,
                              leverage, costs, risk), context, risk)
  BY <1>2, <1>8, Zenon DEF Costed
<1>10. result = Plan(context, entry, invalidation, targets, position, leverage, costs, risk)
  BY <1>2, <1>9, ErrorFails, Zenon DEF Scored
<1> QED
  BY <1>1, <1>3, <1>4, <1>5, <1>6, <1>7, <1>8, <1>9, <1>10, Zenon DEF Passed, result

(* No gate has failed where none is the first to fail.                     *)
LEMMA GatesPassed ==
  ASSUME NEW gates, FirstFailure(gates).ok
  PROVE  \A i \in DOMAIN gates : ~gates[i].failed
BY ErrorFails, Zenon DEF FirstFailure

(* Past the hard gates the candidate has not expired, and the limits of    *)
(* the instrument are known.                                               *)
LEMMA HardGatesSay ==
  ASSUME NEW context, NEW risk, FirstFailure(HardGates(context, risk)).ok
  PROVE  /\ ~(context.candidate.expiryAt <= context.asOf)
         /\ context.instrument.minNotional # None
         /\ context.instrument.maxLeverage # None /\ context.instrument.maxLeverage # 0
<1> DEFINE gates == HardGates(context, risk)
<1>1. DOMAIN gates = 1 .. 14
  BY DEF HardGates
<1>2. /\ gates[4] = Gate(context.candidate.state = "EXPIRED"
                            \/ context.candidate.expiryAt <= context.asOf, "CANDIDATE_EXPIRED")
      /\ gates[11] = Gate(context.instrument.minNotional = None,
                          "INSTRUMENT_RISK_DATA_MISSING")
      /\ gates[12] = Gate(context.instrument.maxLeverage = None
                            \/ context.instrument.maxLeverage = 0, "MAX_LEVERAGE_UNAVAILABLE")
  BY DEF HardGates
<1> HIDE DEF gates
<1>3. ~gates[4].failed /\ ~gates[11].failed /\ ~gates[12].failed
  <2>1. 4 \in 1 .. 14 /\ 11 \in 1 .. 14 /\ 12 \in 1 .. 14
    OBVIOUS
  <2>2. \A i \in DOMAIN gates : ~gates[i].failed
    BY GatesPassed DEF gates
  <2> QED BY <1>1, <2>1, <2>2, Zenon
<1>4. \A failed, code : Gate(failed, code).failed = failed
  BY DEF Gate
<1> QED
  BY <1>2, <1>3, <1>4, Zenon

(* An accepted distance of the invalidation is positive.                   *)
LEMMA DistanceSays ==
  ASSUME NEW distance \in Int, NEW entry \in Int, NEW atr, NEW risk,
         ValidateRiskDistance(distance, entry, atr, risk).ok
  PROVE  distance > 0
<1> DEFINE gates ==
        <<Gate(distance <= 0, "INVALIDATION_WRONG_SIDE"),
          Gate(distance * BPS < risk.minBps * entry, "INVALIDATION_TOO_CLOSE"),
          Gate(distance * BPS > risk.maxBps * entry, "INVALIDATION_TOO_FAR"),
          Gate(distance * 100 < risk.minAtr * atr, "INVALIDATION_TOO_CLOSE"),
          Gate(distance * 100 > risk.maxAtr * atr, "INVALIDATION_TOO_FAR")>>
<1>1. DOMAIN gates = 1 .. 5 /\ gates[1] = Gate(distance <= 0, "INVALIDATION_WRONG_SIDE")
  OBVIOUS
<1>2. FirstFailure(gates).ok
  BY DEF ValidateRiskDistance
<1> HIDE DEF gates
<1>3. ~gates[1].failed
  <2>1. 1 \in 1 .. 5
    OBVIOUS
  <2> QED BY <1>1, <1>2, <2>1, GatesPassed
<1>4. \A failed, code : Gate(failed, code).failed = failed
  BY DEF Gate
<1>5. ~(distance <= 0)
  BY <1>1, <1>3, <1>4, Zenon
<1> QED
  BY <1>5

(* Past the economic gates the first target nets enough for its loss, and  *)
(* the frictions take no more of the loss than allowed.                    *)
LEMMA EconomicsSay ==
  ASSUME NEW costs, NEW risk, ValidateCostEstimate(costs, risk).ok
  PROVE  /\ ~(costs.targets[1].net <= 0)
         /\ ~(costs.targets[1].net * 10 < risk.minNetRR * costs.loss.net)
         /\ ~(costs.frictions * 100 > risk.maxCostPct * costs.loss.gross)
<1> DEFINE gates ==
            <<Gate(costs.loss.gross <= 0, "INVALIDATION_WRONG_SIDE"),
              Gate(costs.loss.net <= 0, "EVALUATION_ERROR"),
              Gate(costs.funding.cost * 100 > risk.maxCostPct * costs.loss.gross,
                   "FUNDING_COST_EXCESSIVE"),
              Gate(costs.targets[1].net <= 0, "NET_TARGET_NON_POSITIVE"),
              Gate(costs.targets[1].net * 10 < risk.minNetRR * costs.loss.net,
                   "NET_RR_BELOW_THRESHOLD"),
              Gate(costs.frictions * 100 > risk.maxCostPct * costs.loss.gross,
                   "COST_TO_RISK_EXCESSIVE")>>
<1>1. /\ DOMAIN gates = 1 .. 6
      /\ gates[4] = Gate(costs.targets[1].net <= 0, "NET_TARGET_NON_POSITIVE")
      /\ gates[5] = Gate(costs.targets[1].net * 10 < risk.minNetRR * costs.loss.net,
                         "NET_RR_BELOW_THRESHOLD")
      /\ gates[6] = Gate(costs.frictions * 100 > risk.maxCostPct * costs.loss.gross,
                         "COST_TO_RISK_EXCESSIVE")
  OBVIOUS
<1>2. FirstFailure(gates).ok
  BY DEF ValidateCostEstimate
<1> HIDE DEF gates
<1>3. ~gates[4].failed /\ ~gates[5].failed /\ ~gates[6].failed
  <2>1. 4 \in 1 .. 6 /\ 5 \in 1 .. 6 /\ 6 \in 1 .. 6
    OBVIOUS
  <2>2. \A i \in DOMAIN gates : ~gates[i].failed
    BY <1>2, GatesPassed
  <2> QED BY <1>1, <2>1, <2>2, Zenon
<1>4. \A failed, code : Gate(failed, code).failed = failed
  BY DEF Gate
<1> DEFINE loses == costs.targets[1].net <= 0
           small == costs.targets[1].net * 10 < risk.minNetRR * costs.loss.net
           dear == costs.frictions * 100 > risk.maxCostPct * costs.loss.gross
<1>5. /\ gates[4] = Gate(loses, "NET_TARGET_NON_POSITIVE")
      /\ gates[5] = Gate(small, "NET_RR_BELOW_THRESHOLD")
      /\ gates[6] = Gate(dear, "COST_TO_RISK_EXCESSIVE")
  BY <1>1, Zenon
<1> HIDE DEF loses, small, dear
<1>6. /\ gates[4].failed = loses /\ gates[5].failed = small /\ gates[6].failed = dear
  <2>1. gates[4].failed = loses
    BY <1>4, <1>5, Zenon
  <2>2. gates[5].failed = small
    BY <1>4, <1>5, Zenon
  <2>3. gates[6].failed = dear
    BY <1>4, <1>5, Zenon
  <2> QED BY <2>1, <2>2, <2>3, Zenon
<1>7. ~loses /\ ~small /\ ~dear
  BY <1>3, <1>6, Zenon
<1>8. ~(costs.targets[1].net <= 0)
  BY <1>7, Zenon DEF loses
<1>9. ~(costs.targets[1].net * 10 < risk.minNetRR * costs.loss.net)
  BY <1>7, Zenon DEF small
<1>10. ~(costs.frictions * 100 > risk.maxCostPct * costs.loss.gross)
  BY <1>7, Zenon DEF dear
<1> QED BY <1>8, <1>9, <1>10, Zenon

-----------------------------------------------------------------------------

(* The grid: rounding down and up by less than a tick.                     *)
LEMMA GridFine ==
  ASSUME NEW tick \in Nat \ {0}
  PROVE  /\ tick * BPS \in Nat \ {0}
         /\ \A q \in Int : q * tick \in Int /\ (q * tick) * BPS = q * (tick * BPS)
                           /\ (q * tick) % tick = 0
<1>1. tick * BPS \in Nat \ {0}
  BY DEF BPS
<1>2. ASSUME NEW q \in Int
      PROVE  q * tick \in Int /\ (q * tick) * BPS = q * (tick * BPS) /\ (q * tick) % tick = 0
  <2>1. q * tick \in Int
    BY <1>2
  <2>2. (q * tick) * BPS = q * (tick * BPS)
    BY <1>2 DEF BPS
  <2>3. (q * tick) % tick = 0
    BY <1>2
  <2> QED BY <2>1, <2>2, <2>3
<1> QED
  BY <1>1, <1>2

(* Integer division by a positive number, as bounds of the quotient.       *)
LEMMA QuotientIs ==
  ASSUME NEW a \in Int, NEW t \in Nat \ {0}
  PROVE  /\ a \div t \in Int /\ (a \div t) * t <= a /\ a < (a \div t) * t + t
<1> QED BY Z3

(* Integer division by the same number keeps the order.                    *)
LEMMA QuotientGrows ==
  ASSUME NEW a \in Int, NEW b \in Int, a <= b, NEW t \in Nat \ {0}
  PROVE  a \div t <= b \div t
<1> DEFINE p == a \div t
           q == b \div t
<1>1. p \in Int /\ q \in Int /\ p * t <= a /\ b < q * t + t
  BY QuotientIs
<1> HIDE DEF p, q
<1>2. p <= q
  <2> SUFFICES ASSUME p >= q + 1 PROVE FALSE
    BY <1>1
  <2>1. p * t >= (q + 1) * t
    BY <1>1
  <2>2. (q + 1) * t = q * t + t
    BY <1>1
  <2>3. p * t \in Int /\ q * t \in Int
    BY <1>1
  <2> QED BY <1>1, <2>1, <2>2, <2>3
<1> QED BY <1>2 DEF p, q

(* Rounding down is below, on the grid and keeps the order,                *)
LEMMA RoundedDown ==
  ASSUME NEW tick \in Nat \ {0}, NEW fine \in Int
  PROVE  /\ RoundDown(fine, tick) \in Int
         /\ RoundDown(fine, tick) * BPS <= fine
         /\ RoundDown(fine, tick) % tick = 0
         /\ \A finer \in Int : finer <= fine =>
                RoundDown(finer, tick) <= RoundDown(fine, tick)
<1> DEFINE t == tick * BPS
           q == fine \div t
<1>1. t \in Nat \ {0}
  BY GridFine
<1>2. RoundDown(fine, tick) = q * tick
  BY DEF RoundDown
<1>3. q \in Int /\ q * t <= fine
  <2> HIDE DEF t
  <2> QED BY <1>1, QuotientIs
<1>4. /\ q * tick \in Int /\ (q * tick) * BPS = q * t /\ (q * tick) % tick = 0
  <2> HIDE DEF q
  <2> QED BY <1>3, GridFine
<1>5. ASSUME NEW finer \in Int, finer <= fine
      PROVE  RoundDown(finer, tick) <= RoundDown(fine, tick)
  <2> DEFINE p == finer \div t
  <2>1. RoundDown(finer, tick) = p * tick
    BY DEF RoundDown
  <2>2. p \in Int /\ p <= q
    <3> HIDE DEF t
    <3> QED BY <1>1, <1>5, QuotientIs, QuotientGrows
  <2> HIDE DEF p, q
  <2>3. p * tick <= q * tick
    BY <1>3, <2>2
  <2> QED BY <1>2, <2>1, <2>3
<1> HIDE DEF q, t
<1> QED
  BY <1>2, <1>3, <1>4, <1>5

(* and rounding up above.                                                  *)
LEMMA RoundedUp ==
  ASSUME NEW tick \in Nat \ {0}, NEW fine \in Int
  PROVE  /\ RoundUp(fine, tick) \in Int
         /\ RoundUp(fine, tick) * BPS >= fine
         /\ RoundUp(fine, tick) % tick = 0
         /\ \A finer \in Int : finer <= fine =>
                RoundUp(finer, tick) <= RoundUp(fine, tick)
<1> DEFINE t == tick * BPS
           q == (fine + t - 1) \div t
<1>1. t \in Nat \ {0}
  BY GridFine
<1>2. RoundUp(fine, tick) = q * tick
  BY DEF RoundUp, CeilDiv
<1>3. q \in Int /\ q * t >= fine
  <2> HIDE DEF t
  <2>1. fine + t - 1 \in Int
    BY <1>1
  <2>2. q \in Int /\ fine + t - 1 < q * t + t
    BY <1>1, <2>1, QuotientIs
  <2> HIDE DEF q
  <2>3. q * t \in Int
    BY <1>1, <2>2
  <2> QED BY <1>1, <2>2, <2>3
<1>4. /\ q * tick \in Int /\ (q * tick) * BPS = q * t /\ (q * tick) % tick = 0
  <2> HIDE DEF q
  <2> QED BY <1>3, GridFine
<1>5. ASSUME NEW finer \in Int, finer <= fine
      PROVE  RoundUp(finer, tick) <= RoundUp(fine, tick)
  <2> DEFINE p == (finer + t - 1) \div t
  <2>1. RoundUp(finer, tick) = p * tick
    BY DEF RoundUp, CeilDiv
  <2>2. p \in Int /\ p <= q
    <3> HIDE DEF t
    <3>1. finer + t - 1 \in Int /\ fine + t - 1 \in Int /\ finer + t - 1 <= fine + t - 1
      BY <1>1, <1>5
    <3> QED BY <1>1, <3>1, QuotientIs, QuotientGrows
  <2> HIDE DEF p, q
  <2>3. p * tick <= q * tick
    BY <1>3, <2>2
  <2> QED BY <1>2, <2>1, <2>3
<1> HIDE DEF q, t
<1> QED
  BY <1>2, <1>3, <1>4, <1>5

(* What the risk engine reads is of this kind.                             *)
InstrumentTyped(instrument) ==
    /\ instrument.tick \in Nat \ {0}
    /\ instrument.mark # None => instrument.mark \in Nat \ {0}
    /\ instrument.minNotional # None => instrument.minNotional \in Nat
    /\ instrument.maxLeverage # None => instrument.maxLeverage \in Nat
    /\ instrument.initial # None => instrument.initial \in Nat
    /\ instrument.maintenance # None => instrument.maintenance \in Nat
    /\ instrument.tiers \in Seq([bound : Nat, maxLeverage : Nat])

(* Levels with a price and a rank, no two with the same rank.              *)
LevelsTyped(levels) ==
    /\ IsFiniteSet(levels)
    /\ levels \in SUBSET [price : Int, rank : Nat, relevance : Int]
    /\ \A a, b \in levels : a.rank = b.rank => a = b

(* What the risk engine is given.                                          *)
ContextTyped(context) ==
    /\ context.candidate.bullish \in BOOLEAN
    /\ context.candidate.level \in Int
    /\ context.candidate.expiryAt \in Int /\ context.asOf \in Int
    /\ context.bboFresh => context.bbo.bid \in Nat \ {0} /\ context.bbo.ask \in Nat \ {0}
    /\ InstrumentTyped(context.instrument)
    /\ context.atr # None => context.atr \in Nat
    /\ LevelsTyped(context.levels)
    /\ BookTyped(context.book)
    /\ FundingTyped(context.funding)

(* A zone spans from the level to the price at which the entry executes.   *)
EntrySays(entry, level, tick) ==
    /\ level \in Int /\ level > 0
    /\ entry.low \in Int /\ entry.high \in Int /\ entry.price \in Int
    /\ level \in entry.low .. entry.high
    /\ entry.price \in entry.low .. entry.high
    /\ entry.low % tick = 0 /\ entry.high % tick = 0 /\ entry.price % tick = 0

(* An entry zone that is rounded outward holds the level and the price     *)
(* that can be had, rounded against the plan.                              *)
LEMMA ZoneSpans ==
  ASSUME NEW anchor \in Int, NEW executable \in Int, NEW tick \in Nat \ {0},
         NEW entry, NEW bullish,
         entry.low = RoundDown(Smaller(anchor, executable) * BPS, tick),
         entry.high = RoundUp(Larger(anchor, executable) * BPS, tick),
         entry.price = IF bullish THEN RoundUp(executable * BPS, tick)
                       ELSE RoundDown(executable * BPS, tick),
         anchor > 0
  PROVE  EntrySays(entry, anchor, tick)
<1> DEFINE low == Smaller(anchor, executable)
           high == Larger(anchor, executable)
<1>1. /\ low \in Int /\ high \in Int
      /\ low <= anchor /\ anchor <= high /\ low <= executable /\ executable <= high
  BY DEF Smaller, Larger
<1> HIDE DEF low, high
<1>2. /\ low * BPS \in Int /\ high * BPS \in Int /\ executable * BPS \in Int
      /\ low * BPS <= executable * BPS /\ executable * BPS <= high * BPS
  BY <1>1 DEF BPS
<1>3. /\ entry.low \in Int /\ entry.low * BPS <= low * BPS /\ entry.low % tick = 0
      /\ entry.low <= RoundDown(executable * BPS, tick)
  <2>1. entry.low = RoundDown(low * BPS, tick)
    BY DEF low
  <2> QED BY <1>2, <2>1, RoundedDown
<1>4. /\ entry.high \in Int /\ high * BPS <= entry.high * BPS /\ entry.high % tick = 0
      /\ RoundUp(executable * BPS, tick) <= entry.high
  <2>1. entry.high = RoundUp(high * BPS, tick)
    BY DEF high
  <2> QED BY <1>2, <2>1, RoundedUp
<1>5. entry.low <= low /\ high <= entry.high
  BY <1>1, <1>3, <1>4 DEF BPS
<1> DEFINE above == RoundUp(executable * BPS, tick)
           below == RoundDown(executable * BPS, tick)
<1>6. /\ above \in Int /\ above * BPS >= executable * BPS /\ above % tick = 0
      /\ below \in Int /\ below * BPS <= executable * BPS /\ below % tick = 0
  BY <1>2, RoundedDown, RoundedUp
<1>7. entry.price = IF bullish THEN above ELSE below
  OBVIOUS
<1>8. entry.low <= below /\ above <= entry.high
  BY <1>3, <1>4
<1> HIDE DEF above, below
<1>9. executable <= above /\ below <= executable
  BY <1>6 DEF BPS
<1>10. /\ entry.price \in Int /\ entry.price % tick = 0
       /\ entry.low <= entry.price /\ entry.price <= entry.high
  BY <1>1, <1>3, <1>4, <1>5, <1>6, <1>7, <1>8, <1>9
<1>11. entry.low <= anchor /\ anchor <= entry.high
  BY <1>1, <1>3, <1>4, <1>5
<1> QED
  BY <1>3, <1>4, <1>10, <1>11 DEF EntrySays

(* An accepted entry is such a zone around the candidate's level.          *)
LEMMA EntryWhenOk ==
  ASSUME NEW context, ContextTyped(context), NEW risk, EntryOf(context, risk).ok
  PROVE  EntrySays(EntryOf(context, risk), context.candidate.level, context.instrument.tick)
<1> DEFINE entry == EntryOf(context, risk)
           bullish == context.candidate.bullish
           anchor == context.candidate.level
           executable == IF bullish THEN context.bbo.ask ELSE context.bbo.bid
           tick == context.instrument.tick
<1>1. ~(anchor <= 0) /\ context.bboFresh
      /\ entry = [ok |-> TRUE,
              low |-> RoundDown(Smaller(anchor, executable) * BPS, tick),
              high |-> RoundUp(Larger(anchor, executable) * BPS, tick),
              price |-> IF bullish THEN RoundUp(executable * BPS, tick)
                        ELSE RoundDown(executable * BPS, tick)]
  BY ErrorFails, Zenon DEF EntryOf, DeriveEntryZone
<1>2. anchor \in Int /\ tick \in Nat \ {0}
  BY DEF ContextTyped, InstrumentTyped
<1>3. executable \in Int
  BY <1>1 DEF ContextTyped
<1> HIDE DEF entry, executable, anchor, tick
<1>4. /\ entry.low = RoundDown(Smaller(anchor, executable) * BPS, tick)
      /\ entry.high = RoundUp(Larger(anchor, executable) * BPS, tick)
      /\ entry.price = IF bullish THEN RoundUp(executable * BPS, tick)
                       ELSE RoundDown(executable * BPS, tick)
  BY <1>1
<1>5. anchor > 0
  BY <1>1, <1>2
<1>6. EntrySays(entry, anchor, tick)
  BY <1>2, <1>3, <1>4, <1>5, ZoneSpans
<1> QED
  BY <1>6 DEF entry, anchor, tick

(* The invalidation lies on the far side of the entry, and never on the    *)
(* near side of the level; a buffer, if there is one, lies between them.   *)
InvalidationSays(invalidation, entry, level, bullish, tick) ==
    /\ invalidation.price \in Int /\ invalidation.price > 0
    /\ invalidation.price % tick = 0
    /\ Against(bullish, invalidation.price, entry.price)
    /\ ~Against(bullish, level, invalidation.price)
    /\ RiskDefaults.bufferBps > 0 \/ RiskDefaults.bufferAtr > 0 =>
            Against(bullish, invalidation.price, level)

(* The buffer between the level and the invalidation.                      *)
BufferOf(context, risk) ==
    context.candidate.level * risk.bufferBps + context.atr * risk.bufferAtr * (BPS \div 100)

(* The buffer below a level is a natural number, and not zero unless the   *)
(* settings ask for none.                                                  *)
LEMMA BufferSays ==
  ASSUME NEW context, NEW risk, RiskTyped(risk),
         context.candidate.level \in Int, context.candidate.level > 0,
         context.atr \in Nat, context.atr > 0
  PROVE  /\ BufferOf(context, risk) \in Nat
         /\ risk.bufferBps > 0 \/ risk.bufferAtr > 0 => BufferOf(context, risk) > 0
<1> DEFINE level == context.candidate.level
           atr == context.atr
           b == risk.bufferBps
           c == risk.bufferAtr
           p == level * b
           r == atr * c
<1>1. level \in Nat /\ level > 0 /\ atr \in Nat /\ atr > 0 /\ b \in Nat /\ c \in Nat
  BY DEF RiskTyped
<1>2. BufferOf(context, risk) = p + r * (BPS \div 100)
  BY DEF BufferOf
<1>3. BPS \div 100 = 100
  BY DEF BPS
<1> HIDE DEF level, atr, b, c
<1>4. p \in Nat /\ (b > 0 => p > 0)
  BY <1>1
<1>5. r \in Nat /\ (c > 0 => r > 0)
  BY <1>1
<1> HIDE DEF p, r
<1>6. p + r * 100 \in Nat /\ (p > 0 \/ r > 0 => p + r * 100 > 0)
  BY <1>4, <1>5
<1> QED
  BY <1>2, <1>3, <1>4, <1>5, <1>6 DEF b, c

(* An accepted invalidation lies beyond the entry zone on the losing side. *)
LEMMA InvalidationWhenOk ==
  ASSUME NEW context, ContextTyped(context), NEW risk, RiskTyped(risk),
         NEW entry, EntrySays(entry, context.candidate.level, context.instrument.tick),
         DeriveInvalidation(context, entry.price, risk).ok
  PROVE  InvalidationSays(DeriveInvalidation(context, entry.price, risk), entry,
                          context.candidate.level, context.candidate.bullish,
                          context.instrument.tick)
<1> DEFINE invalidation == DeriveInvalidation(context, entry.price, risk)
           bullish == context.candidate.bullish
           level == context.candidate.level
           tick == context.instrument.tick
           buffer == BufferOf(context, risk)
           price == IF bullish THEN RoundDown(level * BPS - buffer, tick)
                    ELSE RoundUp(level * BPS + buffer, tick)
<1>1. /\ context.atr # None /\ ~(context.atr <= 0)
      /\ ~(price <= 0) /\ Against(bullish, price, entry.price)
      /\ invalidation = [ok |-> TRUE, price |-> price,
                         confidence |-> InvalidationConfidence(context.candidate.type)]
  BY ErrorFails, Zenon DEF DeriveInvalidation, BufferOf
<1>2. level \in Int /\ level > 0 /\ tick \in Nat \ {0}
  BY DEF EntrySays, ContextTyped, InstrumentTyped
<1>3. context.atr \in Nat /\ context.atr > 0
  BY <1>1 DEF ContextTyped
<1>4. /\ buffer \in Nat
      /\ RiskDefaults.bufferBps > 0 \/ RiskDefaults.bufferAtr > 0 => buffer > 0
  BY <1>2, <1>3, BufferSays DEF RiskTyped
<1> HIDE DEF buffer, level, tick
<1> DEFINE below == RoundDown(level * BPS - buffer, tick)
           above == RoundUp(level * BPS + buffer, tick)
<1>5. below \in Int /\ below * BPS <= level * BPS - buffer /\ below % tick = 0
  <2>1. level * BPS - buffer \in Int
    BY <1>2, <1>4 DEF BPS
  <2> QED BY <1>2, <2>1, RoundedDown
<1>6. above \in Int /\ above * BPS >= level * BPS + buffer /\ above % tick = 0
  <2>1. level * BPS + buffer \in Int
    BY <1>2, <1>4 DEF BPS
  <2> QED BY <1>2, <2>1, RoundedUp
<1>7. price = IF bullish THEN below ELSE above
  OBVIOUS
<1> HIDE DEF below, above, price
<1>8. /\ below <= level /\ (buffer > 0 => below < level)
      /\ above >= level /\ (buffer > 0 => above > level)
  BY <1>2, <1>4, <1>5, <1>6 DEF BPS
<1>9. price \in Int /\ price > 0 /\ price % tick = 0
  BY <1>1, <1>5, <1>6, <1>7
<1>10. ~Against(bullish, level, price) /\ (buffer > 0 => Against(bullish, price, level))
  BY <1>2, <1>5, <1>6, <1>7, <1>8 DEF Against
<1> HIDE DEF invalidation
<1>11. invalidation.price = price
  BY <1>1
<1>12. InvalidationSays(invalidation, entry, level, bullish, tick)
  BY <1>1, <1>4, <1>9, <1>10, <1>11, Zenon DEF InvalidationSays
<1> QED
  BY <1>12 DEF invalidation, level, tick

(* A position fits into the limits, and its loss into the budget.          *)
PositionSays(position, entry, distance, instrument, risk) ==
    /\ position.quantity \in Nat /\ position.quantity > 0
    /\ position.notional = position.quantity * entry
    /\ position.notional \in Nat
    /\ instrument.minNotional <= position.notional
    /\ position.notional <= risk.maxNotional
    /\ position.quantity * (distance * BPS) <= Budget(risk)

(* An accepted position loses no more at its invalidation than the risk    *)
(* settings allow.                                                         *)
LEMMA PositionWhenOk ==
  ASSUME NEW instrument, NEW risk, RiskTyped(risk), instrument.minNotional \in Nat,
         NEW entry \in Int, entry > 0, NEW distance \in Int, distance > 0,
         SizeReferencePosition(instrument, entry, distance, risk).ok
  PROVE  PositionSays(SizeReferencePosition(instrument, entry, distance, risk), entry,
                      distance, instrument, risk)
<1> DEFINE position == SizeReferencePosition(instrument, entry, distance, risk)
           d == distance * BPS
           budget == Budget(risk)
           wanted == budget \div d
           capped == risk.maxNotional \div entry
           quantity == IF wanted * entry > risk.maxNotional THEN capped ELSE wanted
<1>1. /\ ~(wanted <= 0) /\ ~(quantity <= 0)
      /\ ~(quantity * entry < instrument.minNotional)
      /\ position = [ok |-> TRUE, quantity |-> quantity, notional |-> quantity * entry]
  BY ErrorFails, Zenon DEF SizeReferencePosition
<1>2. d \in Nat \ {0} /\ entry \in Nat \ {0}
  BY DEF BPS
<1>3. budget \in Int /\ risk.maxNotional \in Nat
  BY DEF Budget, RiskTyped
<1> HIDE DEF d, budget
<1>4. wanted \in Int /\ wanted * d <= budget
  BY <1>2, <1>3, QuotientIs
<1>5. capped \in Int /\ capped * entry <= risk.maxNotional
  <2> DEFINE most == risk.maxNotional
  <2>1. most \in Int
    BY <1>3
  <2> HIDE DEF most
  <2>2. most \div entry \in Int /\ (most \div entry) * entry <= most
    BY <1>2, <2>1, QuotientIs
  <2> QED BY <2>2 DEF most
<1> HIDE DEF wanted, capped
<1>6. wanted * entry \in Int /\ capped * entry \in Int
  BY <1>4, <1>5
<1>7. wanted * entry > risk.maxNotional => capped <= wanted
  <2> SUFFICES ASSUME wanted * entry > risk.maxNotional, capped > wanted PROVE FALSE
    BY <1>4, <1>5
  <2>1. capped * entry >= wanted * entry
    BY <1>2, <1>4, <1>5
  <2> QED BY <1>3, <1>5, <1>6, <2>1
<1>8. quantity \in Int /\ quantity <= wanted /\ quantity * entry <= risk.maxNotional
  BY <1>3, <1>4, <1>5, <1>6, <1>7
<1> HIDE DEF quantity
<1>9. quantity \in Nat /\ quantity > 0
  BY <1>1, <1>8
<1>10. quantity * entry \in Nat /\ instrument.minNotional <= quantity * entry
  BY <1>1, <1>2, <1>9
<1>11. quantity * d <= budget
  <2>1. quantity * d <= wanted * d
    BY <1>2, <1>4, <1>8
  <2>2. quantity * d \in Int /\ wanted * d \in Int
    BY <1>2, <1>4, <1>8
  <2> QED BY <1>3, <1>4, <2>1, <2>2
<1>12. position.quantity = quantity /\ position.notional = quantity * entry
  BY <1>1
<1> HIDE DEF position
<1>13. PositionSays(position, entry, distance, instrument, risk)
  BY <1>8, <1>9, <1>10, <1>11, <1>12 DEF PositionSays, d, budget
<1> QED
  BY <1>13 DEF position

-----------------------------------------------------------------------------

(* Targets are levels, and none is nearer than the one before.             *)
TargetsSay(found, levels, bullish) ==
    /\ \E n \in Nat : DOMAIN found = 1 .. n
    /\ \A i \in DOMAIN found : found[i] \in levels /\ found[i].price \in Int
    /\ \A i, j \in DOMAIN found : i < j => ~Nearer(bullish, found[j], found[i])

(* The order in which the levels are tried.                                *)
Tried(S, bullish) ==
    {e \in S \X S : \/ Nearer(bullish, e[1], e[2])
                    \/ e[1].price = e[2].price /\ e[1].rank < e[2].rank}

(* Which of two levels is tried first.                                     *)
LEMMA TriedPairs ==
  ASSUME NEW S, NEW bullish
  PROVE  \A a, b \in S : <<a, b>> \in Tried(S, bullish) <=>
            (Nearer(bullish, a, b) \/ (a.price = b.price /\ a.rank < b.rank))
BY DEF Tried

(* The order in which the levels are tried is strict and total: equal      *)
(* prices differ in rank.                                                  *)
LEMMA TriedOrders ==
  ASSUME NEW levels, LevelsTyped(levels), NEW S, S \subseteq levels, NEW bullish \in BOOLEAN
  PROVE  StrictOrderOn(S, Tried(S, bullish))
<1>1. \A a \in S : a.price \in Int /\ a.rank \in Int
  BY DEF LevelsTyped
<1>2. \A a, b \in S : a.rank = b.rank => a = b
  BY DEF LevelsTyped
<1>3. \A a, b \in S : Nearer(bullish, a, b) <=>
                        IF bullish THEN a.price < b.price ELSE a.price > b.price
  BY DEF Nearer
<1> DEFINE T == Tried(S, bullish)
<1>4. \A a \in S : <<a, a>> \notin T
  BY <1>1, <1>3, TriedPairs
<1>5. ASSUME NEW a \in S, NEW b \in S, NEW c \in S, <<a, b>> \in T, <<b, c>> \in T
      PROVE  <<a, c>> \in T
  <2>1. Nearer(bullish, a, b) \/ (a.price = b.price /\ a.rank < b.rank)
    BY <1>5, TriedPairs
  <2>2. Nearer(bullish, b, c) \/ (b.price = c.price /\ b.rank < c.rank)
    BY <1>5, TriedPairs
  <2>3. Nearer(bullish, a, c) \/ (a.price = c.price /\ a.rank < c.rank)
    BY <1>1, <1>3, <2>1, <2>2
  <2> QED BY <2>3, TriedPairs
<1>6. ASSUME NEW a \in S, NEW b \in S, a # b
      PROVE  <<a, b>> \in T \/ <<b, a>> \in T
  <2>1. a.rank # b.rank
    BY <1>2, <1>6
  <2>2. \/ Nearer(bullish, a, b) \/ (a.price = b.price /\ a.rank < b.rank)
        \/ Nearer(bullish, b, a) \/ (b.price = a.price /\ b.rank < a.rank)
    BY <1>1, <1>3, <2>1
  <2> QED BY <2>2, TriedPairs
<1> HIDE DEF T
<1>7. StrictOrderOn(S, T)
  BY <1>4, <1>5, <1>6 DEF StrictOrderOn
<1> QED BY <1>7 DEF T

(* Accepted targets are levels of the context, on the winning side of the  *)
(* entry and one behind the other.                                         *)
LEMMA TargetsWhenOk ==
  ASSUME NEW context, ContextTyped(context), NEW risk, NEW entry,
         DeriveTargets(context, entry, risk).ok
  PROVE  TargetsSay(DeriveTargets(context, entry, risk).levels, context.levels,
                    context.candidate.bullish)
<1> DEFINE bullish == context.candidate.bullish
           relevant == {l \in context.levels :
                            l.price > 0 /\ l.relevance >= risk.minRelevance}
           gap == entry * risk.minBps
           beyond == {l \in relevant :
                        IF bullish THEN l.price * BPS > entry * BPS + gap
                        ELSE l.price * BPS < entry * BPS - gap}
           Place(l) == 1 + Cardinality({o \in beyond :
                            \/ Nearer(bullish, o, l)
                            \/ o.price = l.price /\ o.rank < l.rank})
           T == Tried(beyond, bullish)
           n == Smaller(MaxTargets, Cardinality(beyond))
           found == [i \in 1 .. n |-> CHOOSE l \in beyond : Place(l) = i]
           targets == DeriveTargets(context, entry, risk)
<1>1. targets = [ok |-> TRUE, levels |-> found]
  BY ErrorFails, Zenon DEF DeriveTargets
<1>2. beyond \subseteq context.levels /\ bullish \in BOOLEAN /\ LevelsTyped(context.levels)
  BY DEF ContextTyped
<1>3. \A l \in beyond : l.price \in Int
  BY <1>2 DEF LevelsTyped
<1>4. IsFiniteSet(beyond)
  <2> HIDE DEF beyond
  <2> QED BY <1>2, FS_Subset DEF LevelsTyped
<1> HIDE DEF beyond
<1>5. StrictOrderOn(beyond, T)
  BY <1>2, TriedOrders
<1>6. \A l \in beyond : Place(l) = RankIn(beyond, T, l)
  <2> SUFFICES ASSUME NEW l \in beyond PROVE Place(l) = RankIn(beyond, T, l)
    OBVIOUS
  <2>1. {o \in beyond : \/ Nearer(bullish, o, l)
                        \/ o.price = l.price /\ o.rank < l.rank}
            = {o \in beyond : <<o, l>> \in T}
    BY TriedPairs
  <2> QED BY <2>1, Zenon DEF RankIn
<1>7. Cardinality(beyond) \in Nat
  BY <1>4, FS_CardinalityType
<1>8. n \in Nat /\ n <= Cardinality(beyond)
  BY <1>7 DEF Smaller, MaxTargets
<1> HIDE DEF T, n, Place
<1>9. ASSUME NEW i \in 1 .. n
      PROVE  found[i] \in beyond /\ RankIn(beyond, T, found[i]) = i
  <2>1. i \in 1 .. Cardinality(beyond)
    BY <1>7, <1>8
  <2>2. \E l \in beyond : RankIn(beyond, T, l) = i
    BY <1>4, <1>5, <2>1, EveryRankTaken
  <2>3. \E l \in beyond : Place(l) = i
    BY <1>6, <2>2
  <2>4. found[i] = CHOOSE l \in beyond : Place(l) = i
    OBVIOUS
  <2> HIDE DEF found
  <2>5. found[i] \in beyond /\ Place(found[i]) = i
    BY <2>3, <2>4
  <2> QED BY <1>6, <2>5
<1>10. DOMAIN found = 1 .. n
  OBVIOUS
<1> HIDE DEF found
<1>11. ASSUME NEW i \in DOMAIN found, NEW j \in DOMAIN found, i < j
       PROVE  ~Nearer(bullish, found[j], found[i])
  <2> SUFFICES ASSUME Nearer(bullish, found[j], found[i]) PROVE FALSE
    OBVIOUS
  <2>1. i \in 1 .. n /\ j \in 1 .. n
    BY <1>10
  <2>2. found[i] \in beyond /\ found[j] \in beyond
    BY <1>9, <2>1
  <2>3. <<found[j], found[i]>> \in T
    BY <2>2, TriedPairs DEF T
  <2>4. RankIn(beyond, T, found[j]) < RankIn(beyond, T, found[i])
    BY <1>4, <1>5, <2>2, <2>3, RankGrows
  <2>5. j < i
    BY <1>9, <2>1, <2>4
  <2> QED BY <1>8, <1>11, <2>1, <2>5
<1>12. TargetsSay(found, context.levels, bullish)
  BY <1>2, <1>3, <1>8, <1>9, <1>10, <1>11 DEF TargetsSay
<1> QED
  BY <1>1, <1>12

(* The entries of a sequence over T are members of T.                      *)
LEMMA EntriesOf ==
  ASSUME NEW T, NEW s \in Seq(T)
  PROVE  /\ Len(s) \in Nat /\ DOMAIN s = 1 .. Len(s)
         /\ \A i \in DOMAIN s : s[i] \in T
OBVIOUS

(* A finite set has finitely many images.                                  *)
LEMMA ImageFinite ==
  ASSUME NEW S, IsFiniteSet(S), NEW f
  PROVE  IsFiniteSet({f[x] : x \in S})
<1> DEFINE T == {f[x] : x \in S}
           g == [x \in S |-> f[x]]
<1>1. g \in Surjection(S, T)
  BY DEF Surjection
<1> HIDE DEF T, g
<1>2. IsFiniteSet(T)
  BY <1>1, FS_Surjection
<1> QED BY <1>2 DEF T

(* The tiers of leverage that a notional has reached.                      *)
TiersReached(instrument, notional) ==
    {i \in DOMAIN instrument.tiers :
        notional >= instrument.tiers[i].bound /\ instrument.tiers[i].maxLeverage > 0}

(* No other tier has a higher bound, or the same bound and comes later.    *)
IsLastTier(instrument, reached, i) ==
    \A j \in reached :
        \/ instrument.tiers[j].bound < instrument.tiers[i].bound
        \/ instrument.tiers[j].bound = instrument.tiers[i].bound /\ j <= i

(* The cap of the tiers is that of the highest tier the notional reaches.  *)
LEMMA TierCapIs ==
  ASSUME NEW instrument, InstrumentTyped(instrument), NEW notional \in Nat
  PROVE  /\ TierCap(instrument, notional) # None => TierCap(instrument, notional) \in Nat \ {0}
         /\ \A i \in TiersReached(instrument, notional) :
                IsLastTier(instrument, TiersReached(instrument, notional), i) =>
                    /\ TierCap(instrument, notional) # None
                    /\ TierCap(instrument, notional) = instrument.tiers[i].maxLeverage
<1> DEFINE tiers == instrument.tiers
           reached == TiersReached(instrument, notional)
           highest == {i \in reached : \A j \in reached : tiers[j].bound <= tiers[i].bound}
           cap == TierCap(instrument, notional)
<1>1. cap = IF reached = {} THEN None ELSE tiers[Max(highest)].maxLeverage
  BY Zenon DEF TierCap, TiersReached
<1>2. tiers \in Seq([bound : Nat, maxLeverage : Nat])
  BY DEF InstrumentTyped
<1>3. /\ Len(tiers) \in Nat /\ DOMAIN tiers = 1 .. Len(tiers)
      /\ \A i \in DOMAIN tiers : tiers[i].bound \in Nat /\ tiers[i].maxLeverage \in Nat
  <2> HIDE DEF tiers
  <2>1. /\ Len(tiers) \in Nat /\ DOMAIN tiers = 1 .. Len(tiers)
        /\ \A i \in DOMAIN tiers : tiers[i] \in [bound : Nat, maxLeverage : Nat]
    BY <1>2, EntriesOf
  <2> QED BY <2>1
<1>4. /\ reached \subseteq DOMAIN tiers
      /\ \A i \in reached : tiers[i].maxLeverage > 0
  BY DEF TiersReached
<1>5. reached \in SUBSET Int /\ IsFiniteSet(reached)
  <2>1. IsFiniteSet(DOMAIN tiers)
    <3> HIDE DEF tiers
    <3> QED BY <1>3, FS_Interval
  <2> HIDE DEF tiers, reached
  <2>2. reached \subseteq Int
    BY <1>3, <1>4
  <2> QED BY <1>4, <2>1, <2>2, FS_Subset
<1> HIDE DEF tiers, reached
<1>6. highest \in SUBSET Int /\ IsFiniteSet(highest) /\ highest \subseteq reached
  <2>1. highest \subseteq reached
    OBVIOUS
  <2> HIDE DEF highest
  <2> QED BY <1>5, <2>1, FS_Subset
<1>7. reached # {} => highest # {}
  <2> SUFFICES ASSUME reached # {} PROVE highest # {}
    OBVIOUS
  <2> DEFINE bounds == {tiers[i].bound : i \in reached}
  <2>1. bounds # {} /\ bounds \in SUBSET Int
    BY <1>3, <1>4
  <2>2. IsFiniteSet(bounds)
    <3> DEFINE f == [i \in reached |-> tiers[i].bound]
    <3>1. bounds = {f[i] : i \in reached}
      OBVIOUS
    <3> HIDE DEF f
    <3> QED BY <1>5, <3>1, ImageFinite
  <2>3. Max(bounds) \in bounds /\ \A b \in bounds : Max(bounds) >= b
    <3> HIDE DEF bounds
    <3> QED BY <2>1, <2>2, MaxTaken
  <2>4. PICK i \in reached : tiers[i].bound = Max(bounds)
    BY <2>3
  <2>5. \A j \in reached : tiers[j].bound <= tiers[i].bound
    BY <1>3, <1>4, <2>3, <2>4
  <2> QED BY <2>5
<1>8. reached # {} => Max(highest) \in highest /\ \A i \in highest : Max(highest) >= i
  <2> HIDE DEF highest
  <2> QED BY <1>6, <1>7, MaxTaken
<1>9. cap # None => cap \in Nat \ {0}
  BY <1>1, <1>3, <1>4, <1>8
<1>10. ASSUME NEW i \in reached, IsLastTier(instrument, reached, i)
       PROVE  cap # None /\ cap = tiers[i].maxLeverage
  <2>1. \A j \in reached : \/ tiers[j].bound < tiers[i].bound
                           \/ tiers[j].bound = tiers[i].bound /\ j <= i
    BY <1>10 DEF IsLastTier, tiers
  <2>2. i \in highest
    <3>1. \A j \in reached : tiers[j].bound \in Int
      BY <1>3, <1>4
    <3> QED BY <2>1, <3>1
  <2> DEFINE m == Max(highest)
  <2>3. m \in reached /\ m >= i /\ m \in Int /\ i \in Int
           /\ \A j \in reached : tiers[j].bound <= tiers[m].bound
    <3>1. m \in highest /\ m >= i
      BY <1>8, <2>2
    <3> HIDE DEF m
    <3> QED BY <1>5, <3>1
  <2>4. m = i
    <3> HIDE DEF m
    <3>1. tiers[m].bound \in Int /\ tiers[i].bound \in Int
      BY <1>3, <1>4, <2>3
    <3>2. tiers[i].bound <= tiers[m].bound
      BY <2>3
    <3> QED BY <2>1, <2>3, <3>1, <3>2
  <2>5. cap = tiers[i].maxLeverage
    BY <1>1, <2>4
  <2>6. tiers[i].maxLeverage \in Int
    BY <1>3, <1>4
  <2> QED BY <2>5, <2>6, AbsenceAssumption
<1> QED
  BY <1>9, <1>10 DEF reached, tiers

(* The cap lies below what the settings, the market and the tier allow.    *)
CapSays(cap, instrument, notional) ==
    /\ cap \in Int
    /\ cap <= 100 * instrument.maxLeverage
    /\ \A i \in TiersReached(instrument, notional) :
            IsLastTier(instrument, TiersReached(instrument, notional), i) =>
                cap <= 100 * instrument.tiers[i].maxLeverage

(* The cap that applies is no higher than that of the instrument, nor that *)
(* of the tier the notional reaches.                                       *)
LEMMA LeverageCapIs ==
  ASSUME NEW context, ContextTyped(context), NEW risk, RiskTyped(risk), NEW notional \in Nat,
         context.instrument.maxLeverage \in Nat
  PROVE  CapSays(LeverageCap(context, notional, risk), context.instrument, notional)
<1> DEFINE instrument == context.instrument
           tier == TierCap(instrument, notional)
           market == Smaller(risk.maxLeverage, 100 * instrument.maxLeverage)
           tiered == IF tier # None THEN Smaller(market, 100 * tier) ELSE market
           Reduced(cap, by, applies) ==
                IF applies THEN Smaller(cap, Larger(100, cap - by)) ELSE cap
           thin == context.funding.current = None \/ Len(context.funding.history) < 3
           first == Reduced(tiered, 100, context.candidate.volatile)
           second == Reduced(first, 50, context.spreadBps # None /\ context.spreadBps > 10)
           cap == Reduced(second, 50, thin)
<1>1. LeverageCap(context, notional, risk) = cap
  BY Zenon DEF LeverageCap
<1>2. \A c \in Int, b \in Int : \A applies :
        Reduced(c, b, applies) \in Int /\ Reduced(c, b, applies) <= c
  BY DEF Smaller, Larger
<1>3. market \in Int /\ market <= 100 * instrument.maxLeverage
  BY DEF RiskTyped, Smaller
<1>4. InstrumentTyped(instrument)
  BY DEF ContextTyped
<1>5. tier # None => tier \in Nat \ {0}
  BY <1>4, TierCapIs
<1> HIDE DEF market, tier
<1>6. tiered \in Int /\ tiered <= market /\ (tier # None => tiered <= 100 * tier)
  BY <1>3, <1>5 DEF Smaller
<1> HIDE DEF tiered, Reduced
<1>7. first \in Int /\ first <= tiered
  BY <1>2, <1>6
<1> HIDE DEF first
<1>8. second \in Int /\ second <= first
  BY <1>2, <1>7
<1> HIDE DEF second
<1>9. cap \in Int /\ cap <= second
  BY <1>2, <1>8
<1> HIDE DEF cap
<1>10. cap <= tiered
  BY <1>6, <1>7, <1>8, <1>9
<1>11. cap <= 100 * instrument.maxLeverage
  <2>1. 100 * instrument.maxLeverage \in Int
    OBVIOUS
  <2> QED BY <1>3, <1>6, <1>9, <1>10, <2>1
<1>12. ASSUME NEW i \in TiersReached(instrument, notional),
              IsLastTier(instrument, TiersReached(instrument, notional), i)
       PROVE  cap <= 100 * instrument.tiers[i].maxLeverage
  <2>1. tier # None /\ tier = instrument.tiers[i].maxLeverage
    BY <1>4, <1>12, TierCapIs DEF tier
  <2>2. tier \in Nat
    BY <1>5, <2>1
  <2>3. cap <= 100 * tier
    BY <1>6, <1>9, <1>10, <2>1, <2>2
  <2> QED BY <2>1, <2>3
<1> QED
  BY <1>1, <1>9, <1>11, <1>12 DEF CapSays

(* Margin rates that are known.                                            *)
RatesTyped(rates) == rates.maintenance \in Nat

(* Margin rates that could be resolved are natural numbers.                *)
LEMMA RatesWhenOk ==
  ASSUME NEW instrument, InstrumentTyped(instrument), NEW risk, RiskTyped(risk),
         ResolveRates(instrument, risk).ok
  PROVE  RatesTyped(ResolveRates(instrument, risk))
<1> DEFINE rates == ResolveRates(instrument, risk)
           Rates(initial, maintenance, approximated) ==
                [ok |-> TRUE, initial |-> initial, maintenance |-> maintenance,
                 approximated |-> approximated]
<1>1. \/ /\ instrument.maintenance # None
         /\ rates = Rates(instrument.initial, instrument.maintenance, FALSE)
      \/ rates = Rates(risk.approxInitial, risk.approxMaintenance, TRUE)
  BY ErrorFails, Zenon DEF ResolveRates
<1>2. instrument.maintenance # None => instrument.maintenance \in Nat
  BY DEF InstrumentTyped
<1>3. risk.approxMaintenance \in Nat
  BY DEF RiskTyped
<1> HIDE DEF rates
<1>4. rates.maintenance \in Nat
  BY <1>1, <1>2, <1>3
<1> QED
  BY <1>4 DEF RatesTyped, rates

(* A smaller leverage divides into more.                                   *)
LEMMA QuotientFalls ==
  ASSUME NEW N \in Nat, NEW l \in Nat \ {0}, NEW m \in Nat \ {0}, l <= m
  PROVE  N \div m <= N \div l
<1> DEFINE p == N \div m
           q == N \div l
<1>1. p \in Int /\ q \in Int /\ p * m <= N /\ N < q * l + l
  <2>1. N \in Int
    OBVIOUS
  <2> QED BY <2>1, QuotientIs
<1>2. p \in Nat
  OBVIOUS
<1> HIDE DEF p, q
<1>3. p <= q
  <2> SUFFICES ASSUME p >= q + 1 PROVE FALSE
    BY <1>1
  <2>1. p * l >= (q + 1) * l
    BY <1>1
  <2>2. (q + 1) * l = q * l + l
    BY <1>1
  <2>3. p * l <= p * m
    BY <1>2
  <2>4. p * l \in Int /\ q * l \in Int /\ p * m \in Int
    BY <1>1
  <2> QED BY <1>1, <2>1, <2>2, <2>3, <2>4
<1> QED BY <1>3 DEF p, q

(* From an anchor, a smaller leverage liquidates no nearer.                *)
LEMMA LiquidationFalls ==
  ASSUME NEW anchor \in Nat, NEW bullish \in BOOLEAN, NEW rates, RatesTyped(rates),
         NEW risk, RiskTyped(risk), NEW l \in Nat \ {0}, NEW m \in Nat \ {0}, l <= m,
         NEW invalidation \in Int
  PROVE  /\ LiquidationFrom(anchor, m, bullish, rates, risk) \in Int
         /\ BufferAbs(invalidation, LiquidationFrom(anchor, l, bullish, rates, risk), bullish)
                \in Int
         /\ BufferAbs(invalidation, LiquidationFrom(anchor, l, bullish, rates, risk), bullish)
                >= BufferAbs(invalidation, LiquidationFrom(anchor, m, bullish, rates, risk),
                             bullish)
<1> DEFINE Shift(n) == ((BPS * 100) \div n) - rates.maintenance - risk.stressBps
           s == Shift(l)
           t == Shift(m)
<1>1. BPS * 100 \in Nat
  BY DEF BPS
<1>2. rates.maintenance \in Int /\ risk.stressBps \in Int
  BY DEF RatesTyped, RiskTyped
<1>3. s \in Int /\ t \in Int /\ t <= s
  <2> DEFINE N == BPS * 100
             p == N \div m
             q == N \div l
  <2>0. N \in Nat
    BY <1>1
  <2> HIDE DEF N
  <2>1. p \in Int /\ q \in Int
    BY <2>0
  <2>a. p <= q
    BY <2>0, QuotientFalls, Zenon
  <2>2. s = q - rates.maintenance - risk.stressBps /\ t = p - rates.maintenance - risk.stressBps
    BY DEF N
  <2> HIDE DEF p, q, s, t
  <2> QED BY <1>2, <2>1, <2>a, <2>2
<1>4. /\ LiquidationFrom(anchor, l, bullish, rates, risk)
            = anchor * (IF bullish THEN BPS - s ELSE BPS + s)
      /\ LiquidationFrom(anchor, m, bullish, rates, risk)
            = anchor * (IF bullish THEN BPS - t ELSE BPS + t)
  BY Zenon DEF LiquidationFrom
<1> HIDE DEF s, t
<1> DEFINE a == anchor * (BPS - s)
           b == anchor * (BPS - t)
           c == anchor * (BPS + s)
           d == anchor * (BPS + t)
<1>5. /\ a \in Int /\ b \in Int /\ c \in Int /\ d \in Int
      /\ a <= b /\ d <= c
  <2>1. /\ BPS - s \in Int /\ BPS - t \in Int /\ BPS + s \in Int /\ BPS + t \in Int
        /\ BPS - s <= BPS - t /\ BPS + t <= BPS + s
    BY <1>3 DEF BPS
  <2>2. \A n \in Nat, x, y \in Int : n * x \in Int /\ (x <= y => n * x <= n * y)
    OBVIOUS
  <2> QED BY <2>1, <2>2, Zenon
<1>6. /\ LiquidationFrom(anchor, l, bullish, rates, risk) = (IF bullish THEN a ELSE c)
      /\ LiquidationFrom(anchor, m, bullish, rates, risk) = (IF bullish THEN b ELSE d)
  BY <1>4, Zenon
<1> HIDE DEF a, b, c, d
<1>7. invalidation * BPS \in Int
  BY DEF BPS
<1> QED
  BY <1>5, <1>6, <1>7 DEF BufferAbs

(* With a leverage the position outlives its invalidation by the margin.   *)
Outlives(leverage, anchor, invalidation, bullish, rates, risk, mark) ==
    LET behind == BufferAbs(invalidation,
                            LiquidationFrom(anchor, leverage, bullish, rates, risk), bullish)
    IN  behind > 0 /\ behind >= risk.liquidationBps * mark

(* A leverage stays below its caps, and with it and every smaller one the  *)
(* position outlives its invalidation.                                     *)
LeverageSays(leverage, context, entry, invalidation, notional, risk) ==
    /\ context.instrument.mark \in Nat \ {0}
    /\ leverage.leverage \in 100 .. 300
    /\ leverage.leverage <= 100 * context.instrument.maxLeverage
    /\ \A i \in TiersReached(context.instrument, notional) :
            IsLastTier(context.instrument, TiersReached(context.instrument, notional), i) =>
                leverage.leverage <= 100 * context.instrument.tiers[i].maxLeverage
    /\ \A l \in 1 .. leverage.leverage, anchor \in {entry, context.instrument.mark} :
            Outlives(l, anchor, invalidation, context.candidate.bullish,
                     leverage.rates, risk, context.instrument.mark)

(* The leverages that are tried: finitely many, from one to three, none    *)
(* above the cap but the first.                                            *)
LEMMA StepsTyped ==
  ASSUME NEW cap \in Int
  PROVE  /\ LeverageSteps(cap) \subseteq 100 .. 300
         /\ IsFiniteSet(LeverageSteps(cap))
         /\ \A l \in LeverageSteps(cap) : l = 100 \/ l <= cap
<1>1. LeverageSteps(cap) \subseteq 100 .. 300
  BY DEF LeverageSteps
<1>2. IsFiniteSet(100 .. 300)
  <2>1. \A a, b \in Int : IsFiniteSet(a .. b)
    BY FS_Interval
  <2>2. 100 \in Int /\ 300 \in Int
    OBVIOUS
  <2> QED BY <2>1, <2>2, Zenon
<1>3. IsFiniteSet(LeverageSteps(cap))
  BY <1>1, <1>2, FS_Subset
<1>4. \A l \in LeverageSteps(cap) : l = 100 \/ l <= cap
  BY DEF LeverageSteps
<1> QED BY <1>1, <1>3, <1>4

(* A leverage that suffices at the nearer of two liquidations suffices at  *)
(* both, and so does every smaller one.                                    *)
LEMMA SufficesBelow ==
  ASSUME NEW entry \in Nat, NEW mark \in Nat, NEW bullish \in BOOLEAN,
         NEW rates, RatesTyped(rates), NEW risk, RiskTyped(risk),
         NEW m \in Nat \ {0}, NEW invalidation \in Int, NEW atr,
         BufferSufficient(BufferAbs(invalidation,
                            Liquidation(entry, mark, m, bullish, rates, risk), bullish),
                          mark, atr, risk)
  PROVE  \A l \in 1 .. m, anchor \in {entry, mark} :
            Outlives(l, anchor, invalidation, bullish, rates, risk, mark)
<1> DEFINE Behind(anchor, l) ==
                BufferAbs(invalidation, LiquidationFrom(anchor, l, bullish, rates, risk), bullish)
           margin == risk.liquidationBps * mark
           e == LiquidationFrom(entry, m, bullish, rates, risk)
           k == LiquidationFrom(mark, m, bullish, rates, risk)
           nearest == IF bullish THEN Larger(e, k) ELSE Smaller(e, k)
           b == BufferAbs(invalidation, nearest, bullish)
<1>1. b > 0 /\ b >= margin
  BY Zenon DEF BufferSufficient, Liquidation
<1>2. e \in Int /\ k \in Int
  BY LiquidationFalls
<1>3. margin \in Nat
  BY DEF RiskTyped
<1> HIDE DEF e, k, margin
<1>4. nearest \in Int
  BY <1>2 DEF Larger, Smaller
<1>5. /\ b \in Int /\ b <= BufferAbs(invalidation, e, bullish)
      /\ b <= BufferAbs(invalidation, k, bullish)
  BY <1>2 DEF BufferAbs, Larger, Smaller, BPS
<1> HIDE DEF b, nearest
<1> SUFFICES ASSUME NEW l \in 1 .. m, NEW anchor \in {entry, mark}
             PROVE  Outlives(l, anchor, invalidation, bullish, rates, risk, mark)
  OBVIOUS
<1>6. b <= Behind(anchor, m)
  BY <1>5 DEF e, k
<1>7. Behind(anchor, l) \in Int /\ Behind(anchor, l) >= Behind(anchor, m)
         /\ Behind(anchor, m) \in Int
  <2>1. l \in Nat \ {0} /\ l <= m /\ anchor \in Nat
    OBVIOUS
  <2>2. m <= m
    OBVIOUS
  <2> HIDE DEF Behind
  <2>3. Behind(anchor, l) \in Int /\ Behind(anchor, l) >= Behind(anchor, m)
    BY <2>1, LiquidationFalls DEF Behind
  <2>4. Behind(anchor, m) \in Int
    BY <2>1, <2>2, LiquidationFalls DEF Behind
  <2> QED BY <2>3, <2>4
<1> DEFINE behind == Behind(anchor, l)
<1>8. Outlives(l, anchor, invalidation, bullish, rates, risk, mark) <=>
        behind > 0 /\ behind >= margin
  BY Zenon DEF Outlives, margin
<1> HIDE DEF behind
<1>9. behind > 0 /\ behind >= margin
  <2> HIDE DEF Behind
  <2> QED BY <1>1, <1>3, <1>5, <1>6, <1>7 DEF behind
<1> QED
  BY <1>8, <1>9

-----------------------------------------------------------------------------
(* What a plan that is proposed promises.                                  *)

(* The leverage that is chosen is below its cap and is liquidated beyond   *)
(* the invalidation.                                                       *)
LEMMA LeverageWhenOk ==
  ASSUME NEW context, ContextTyped(context), NEW risk, RiskTyped(risk),
         NEW entry \in Nat, NEW invalidation \in Int, NEW notional \in Nat,
         context.instrument.maxLeverage \in Nat \ {0},
         LeverageSuitability(context, entry, invalidation, notional, risk).ok
  PROVE  LeverageSays(LeverageSuitability(context, entry, invalidation, notional, risk),
                      context, entry, invalidation, notional, risk)
<1> DEFINE instrument == context.instrument
           mark == instrument.mark
           bullish == context.candidate.bullish
           leverage == LeverageSuitability(context, entry, invalidation, notional, risk)
           rates == ResolveRates(instrument, risk)
           cap == LeverageCap(context, notional, risk)
           suitable == SuitableLeverages(context, entry, invalidation, cap, rates, risk)
           m == Max(suitable)
<1>1. mark # None /\ leverage = LeverageAt(context, entry, invalidation, notional, rates, risk)
  BY ErrorFails, Zenon DEF LeverageSuitability
<1>2. rates.ok
      /\ leverage = LargestLeverage(context, entry, invalidation, suitable, rates, risk)
  BY <1>1, ErrorFails, Zenon DEF LeverageAt
<1>3. suitable # {} /\ leverage = Leveraged(context, entry, invalidation, m, rates, risk)
  <2> HIDE DEF suitable, rates
  <2> QED BY <1>2, ErrorFails, Zenon DEF LargestLeverage
<1>4. InstrumentTyped(instrument) /\ bullish \in BOOLEAN
  BY DEF ContextTyped
<1>5. mark \in Nat \ {0}
  BY <1>1, <1>4 DEF InstrumentTyped
<1>6. RatesTyped(rates)
  BY <1>2, <1>4, RatesWhenOk
<1>7. CapSays(cap, instrument, notional)
  <2>1. instrument.maxLeverage \in Nat
    OBVIOUS
  <2> QED BY <2>1, LeverageCapIs
<1> HIDE DEF cap, rates
<1>8. cap \in Int
  BY <1>7 DEF CapSays
<1>9. suitable \subseteq LeverageSteps(cap)
  BY DEF SuitableLeverages
<1>10. LeverageSteps(cap) \subseteq 100 .. 300 /\ IsFiniteSet(LeverageSteps(cap))
       /\ \A l \in LeverageSteps(cap) : l = 100 \/ l <= cap
  BY <1>8, StepsTyped
<1>11. m \in suitable
  <2>1. IsFiniteSet(suitable)
    <3> HIDE DEF suitable
    <3> QED BY <1>9, <1>10, FS_Subset
  <2>2. suitable \in SUBSET Int
    <3>1. \A l \in 100 .. 300 : l \in Int
      OBVIOUS
    <3> HIDE DEF suitable
    <3> QED BY <1>9, <1>10, <3>1, Zenon
  <2> HIDE DEF suitable
  <2> QED BY <1>3, <2>1, <2>2, MaxTaken
<1>12. BufferSufficient(BufferAbs(invalidation,
                            Liquidation(entry, mark, m, bullish, rates, risk), bullish),
                        mark, context.atr, risk)
  BY <1>11 DEF SuitableLeverages, LiquidationBuffer
<1>13. m \in 100 .. 300 /\ (m = 100 \/ m <= cap)
  <2> HIDE DEF suitable, m
  <2> QED BY <1>9, <1>10, <1>11
<1> DEFINE buffer == LiquidationBuffer(context, entry, invalidation, m, rates, risk)
<1>t. leverage = [ok |-> TRUE, leverage |-> m, rates |-> rates, buffer |-> buffer]
  BY <1>3, Zenon DEF Leveraged
<1> HIDE DEF m, leverage, suitable, buffer
<1>14. leverage.leverage = m /\ leverage.rates = rates
  BY <1>t
<1>15. \A l \in 1 .. m, anchor \in {entry, mark} :
            Outlives(l, anchor, invalidation, bullish, rates, risk, mark)
  <2>1. m \in Nat \ {0} /\ mark \in Nat
    BY <1>5, <1>13
  <2> HIDE DEF mark, bullish
  <2>2. bullish \in BOOLEAN
    BY <1>4
  <2> QED BY <1>6, <1>12, <2>1, <2>2, SufficesBelow
<1>16. m <= 100 * instrument.maxLeverage
  <2>1. cap <= 100 * instrument.maxLeverage /\ 100 <= 100 * instrument.maxLeverage
        /\ 100 * instrument.maxLeverage \in Int
    BY <1>7 DEF CapSays
  <2> QED BY <1>8, <1>13, <2>1
<1>17. ASSUME NEW i \in TiersReached(instrument, notional),
              IsLastTier(instrument, TiersReached(instrument, notional), i)
       PROVE  m <= 100 * instrument.tiers[i].maxLeverage
  <2> DEFINE most == instrument.tiers[i].maxLeverage
  <2>1. cap <= 100 * most
    BY <1>7, <1>17 DEF CapSays
  <2>2. most \in Nat /\ most > 0
    <3>1. i \in DOMAIN instrument.tiers /\ most > 0
      BY <1>17 DEF TiersReached
    <3>2. instrument.tiers \in Seq([bound : Nat, maxLeverage : Nat])
      BY <1>4 DEF InstrumentTyped
    <3>3. instrument.tiers[i] \in [bound : Nat, maxLeverage : Nat]
      BY <3>1, <3>2, EntriesOf
    <3> QED BY <3>1, <3>3
  <2> HIDE DEF most
  <2>3. 100 <= 100 * most
    BY <2>2
  <2>4. m <= 100 * most
    BY <1>8, <1>13, <2>1, <2>2, <2>3
  <2> QED BY <2>4 DEF most
<1>18. LeverageSays(leverage, context, entry, invalidation, notional, risk)
  BY <1>5, <1>13, <1>14, <1>15, <1>16, <1>17, Zenon DEF LeverageSays
<1> QED
  BY <1>18 DEF leverage

-----------------------------------------------------------------------------

(* A plan from its candidate's point of view: where its prices lie.        *)
PricesSay(plan, context) ==
    /\ EntrySays(plan.entry, context.candidate.level, context.instrument.tick)
    /\ InvalidationSays(plan.invalidation, plan.entry, context.candidate.level,
                        context.candidate.bullish, context.instrument.tick)
    /\ TargetsSay(plan.targets, context.levels, context.candidate.bullish)
    /\ \A i \in DOMAIN plan.targets :
            Toward(context.candidate.bullish, plan.entry.price, plan.targets[i].price) > 0

(* What a plan promises.                                                   *)
PromisesSay(plan, context, risk) ==
    /\ plan.costs.loss.net * 100 <= (100 + risk.maxCostPct) * Budget(risk)
    /\ plan.position.notional \in Nat
    /\ context.instrument.minNotional \in Nat
    /\ context.instrument.minNotional <= plan.position.notional
    /\ plan.position.notional <= risk.maxNotional
    /\ LeverageSays(plan.leverage, context, plan.entry.price, plan.invalidation.price,
                    plan.position.notional, risk)
    /\ plan.costs.targets[1].net * 10 >= risk.minNetRR * plan.costs.loss.net

(* A plan ends with its candidate at the latest.                           *)
ExpirySays(plan, context, risk) ==
    plan.expiryAt = Smaller(context.asOf + risk.expirySeconds, context.candidate.expiryAt)
    /\ context.candidate.expiryAt > context.asOf

(* The loss at the invalidation stays within the budget and the frictions  *)
(* that are allowed on top.                                                *)
LEMMA LossFits ==
  ASSUME NEW bullish \in BOOLEAN, NEW enter \in Int, NEW invalidate \in Int,
         NEW quantity \in Nat, NEW budget \in Int, NEW gross, NEW frictions \in Nat,
         NEW share \in Int,
         gross = Toward(bullish, invalidate, enter) * quantity * BPS, gross > 0,
         quantity * (Distance(enter, invalidate) * BPS) <= budget,
         ~(frictions * 100 > share * gross)
  PROVE  (gross + frictions) * 100 <= (100 + share) * budget
<1> DEFINE t == Toward(bullish, invalidate, enter)
           d == Distance(enter, invalidate)
           full == quantity * (d * BPS)
<1>1. t \in Int /\ d \in Int /\ t <= d
  BY DEF Toward, Distance, Larger
<1> HIDE DEF t, d
<1>2. t * quantity * BPS \in Int /\ full \in Int /\ t * quantity * BPS <= full
  <2>1. /\ t * quantity \in Int /\ d * quantity \in Int /\ t * quantity <= d * quantity
    BY <1>1
  <2>2. full = (d * quantity) * BPS
    BY <1>1 DEF BPS
  <2> DEFINE x == t * quantity
             y == d * quantity
  <2>3. x \in Int /\ y \in Int /\ x <= y
    BY <2>1
  <2> HIDE DEF x, y, full
  <2>4. x * BPS \in Int /\ y * BPS \in Int /\ x * BPS <= y * BPS
    BY <2>3 DEF BPS
  <2> QED BY <2>2, <2>4 DEF x, y
<1> HIDE DEF full
<1>3. gross \in Int /\ gross <= budget /\ budget > 0
  <2>1. gross = t * quantity * BPS /\ full <= budget
    BY DEF t, d, full
  <2> QED BY <1>2, <2>1
<1>4. share >= 0
  <2> SUFFICES ASSUME share <= -1 PROVE FALSE
    OBVIOUS
  <2>1. share * gross <= (-1) * gross /\ share * gross \in Int
    BY <1>3
  <2> QED BY <1>3, <2>1
<1>5. share * gross <= share * budget /\ share * gross \in Int /\ share * budget \in Int
  BY <1>3, <1>4
<1>6. (100 + share) * budget = 100 * budget + share * budget
  OBVIOUS
<1> QED
  BY <1>3, <1>5, <1>6

(* A plan that is proposed keeps the promises of prices, of leverage and   *)
(* cost, and of expiry: the gates hold it to what the derivations said.    *)
LEMMA PlanWhenOk ==
  ASSUME NEW context, ContextTyped(context), NEW risk, RiskTyped(risk), NEW plan,
         plan = EvaluateUnder(context, risk), plan.ok
  PROVE  /\ PricesSay(plan, context)
         /\ PromisesSay(plan, context, risk)
         /\ ExpirySays(plan, context, risk)
<1> DEFINE bullish == context.candidate.bullish
           instrument == context.instrument
           entry == EntryOf(context, risk)
           invalidation == InvalidationOf(context, risk)
           distance == DistanceOf(context, risk)
           targets == TargetsOf(context, risk)
           position == PositionOf(context, risk)
           leverage == LeverageOf(context, risk)
           costs == CostsOf(context, risk)
           prices == PricesOf(context, risk)
<1>1. /\ Passed(context, risk)
      /\ plan = Plan(context, entry, invalidation, targets, position, leverage, costs, risk)
  BY PlanPassed
<1>2. /\ FirstFailure(HardGates(context, risk)).ok
      /\ entry.ok /\ invalidation.ok
      /\ ValidateRiskDistance(distance, entry.price, context.atr, risk).ok
      /\ targets.ok /\ position.ok /\ leverage.ok /\ costs.ok
      /\ ValidateCostEstimate(costs, risk).ok
  BY <1>1, Zenon DEF Passed
<1>3. /\ bullish \in BOOLEAN /\ InstrumentTyped(instrument)
      /\ BookTyped(context.book) /\ FundingTyped(context.funding)
      /\ context.candidate.expiryAt \in Int /\ context.asOf \in Int
  BY DEF ContextTyped
<1>4. /\ ~(context.candidate.expiryAt <= context.asOf)
      /\ instrument.minNotional # None
      /\ instrument.maxLeverage # None /\ instrument.maxLeverage # 0
  BY <1>2, HardGatesSay
<1>5. instrument.minNotional \in Nat /\ instrument.maxLeverage \in Nat \ {0}
  BY <1>3, <1>4 DEF InstrumentTyped
<1>6. EntrySays(entry, context.candidate.level, instrument.tick)
  BY <1>2, EntryWhenOk
<1>7. InvalidationSays(invalidation, entry, context.candidate.level, bullish, instrument.tick)
  <2> HIDE DEF entry
  <2>1. invalidation = DeriveInvalidation(context, entry.price, risk)
    BY DEF InvalidationOf, entry
  <2> HIDE DEF invalidation
  <2>2. DeriveInvalidation(context, entry.price, risk).ok
    BY <1>2, <2>1
  <2>3. InvalidationSays(DeriveInvalidation(context, entry.price, risk), entry,
                         context.candidate.level, bullish, instrument.tick)
    BY <1>6, <2>2, InvalidationWhenOk
  <2> QED BY <2>1, <2>3
<1>8. entry.price \in Int /\ invalidation.price \in Int
  BY <1>6, <1>7 DEF EntrySays, InvalidationSays
<1>9. TargetsSay(targets.levels, context.levels, bullish)
  <2> HIDE DEF entry
  <2>1. targets = DeriveTargets(context, entry.price, risk)
    BY DEF TargetsOf, entry
  <2> HIDE DEF targets
  <2>2. DeriveTargets(context, entry.price, risk).ok
    BY <1>2, <2>1
  <2>3. TargetsSay(DeriveTargets(context, entry.price, risk).levels, context.levels, bullish)
    BY <2>2, TargetsWhenOk
  <2> QED BY <2>1, <2>3
<1> DEFINE found == targets.levels
<1>10. prices = [i \in DOMAIN found |-> found[i].price]
  BY DEF PricesOf
<1>11. prices \in Seq(Int) /\ DOMAIN prices = DOMAIN found
  <2> HIDE DEF found, prices
  <2>1. /\ \E n \in Nat : DOMAIN found = 1 .. n
        /\ \A i \in DOMAIN found : found[i].price \in Int
    BY <1>9 DEF TargetsSay, found
  <2> QED BY <1>10, <2>1
<1>12. costs = EstimateCosts(bullish, entry.price, invalidation.price, prices,
                             position.quantity, context.book, context.funding)
  BY DEF CostsOf
<1>13. distance = Distance(entry.price, invalidation.price)
  BY DEF DistanceOf
<1>14. position = SizeReferencePosition(instrument, entry.price, distance, risk)
  BY DEF PositionOf
<1>15. leverage = LeverageSuitability(context, entry.price, invalidation.price,
                                      position.notional, risk)
  BY DEF LeverageOf
<1> HIDE DEF entry, invalidation, distance, targets, position, leverage, costs, prices, found
<1>16. distance \in Int /\ distance > 0
  <2>1. distance \in Int
    <3> DEFINE enter == entry.price
               invalidate == invalidation.price
    <3>1. enter \in Int /\ invalidate \in Int /\ distance = Distance(enter, invalidate)
      BY <1>8, <1>13
    <3> HIDE DEF enter, invalidate
    <3>2. Distance(enter, invalidate) \in Int
      BY <3>1 DEF Distance, Larger
    <3> QED BY <3>1, <3>2
  <2> QED BY <1>2, <1>8, <2>1, DistanceSays
<1>17. entry.price > 0
  <2>1. InvalidationSays(invalidation, entry, context.candidate.level, bullish, instrument.tick)
    BY <1>7
  <2>2. entry.price <= 0 => EstimateCosts(bullish, entry.price, invalidation.price, prices,
                               position.quantity, context.book, context.funding)
                                = Error("CONFIGURATION_INVALID")
    BY Zenon DEF EstimateCosts
  <2>3. ~(entry.price <= 0)
    BY <1>2, <1>12, <2>2, ErrorFails
  <2> QED BY <1>8, <2>3
<1>18. PositionSays(position, entry.price, distance, instrument, risk)
  <2>1. SizeReferencePosition(instrument, entry.price, distance, risk).ok
    BY <1>2, <1>14
  <2>2. PositionSays(SizeReferencePosition(instrument, entry.price, distance, risk),
                     entry.price, distance, instrument, risk)
    <3> DEFINE price == entry.price
    <3>1. price \in Int /\ price > 0
      BY <1>8, <1>17
    <3> HIDE DEF instrument
    <3>2. SizeReferencePosition(instrument, price, distance, risk).ok
      BY <2>1
    <3> HIDE DEF price
    <3>3. PositionSays(SizeReferencePosition(instrument, price, distance, risk),
                       price, distance, instrument, risk)
      BY <1>5, <1>16, <3>1, <3>2, PositionWhenOk
    <3> QED BY <3>3 DEF price
  <2> QED BY <1>14, <2>2
<1>19. position.quantity \in Nat /\ position.notional \in Nat
  BY <1>18 DEF PositionSays
<1>20. CostsSay(costs, bullish, entry.price, invalidation.price, prices, position.quantity)
       /\ prices # <<>>
  <2> DEFINE enter == entry.price
             invalidate == invalidation.price
             quantity == position.quantity
             book == context.book
             funding == context.funding
  <2>1. /\ bullish \in BOOLEAN /\ enter \in Int /\ invalidate \in Int /\ quantity \in Int
        /\ BookTyped(book) /\ FundingTyped(funding)
    BY <1>3, <1>8, <1>19
  <2>2. costs = EstimateCosts(bullish, enter, invalidate, prices, quantity, book, funding)
    BY <1>12
  <2> HIDE DEF bullish, enter, invalidate, quantity, book, funding
  <2>3. CostsSay(costs, bullish, enter, invalidate, prices, quantity) /\ prices # <<>>
    BY <1>2, <1>11, <2>1, <2>2, CostsWhenOk
  <2> QED BY <2>3 DEF bullish, enter, invalidate, quantity
<1>21. LeverageSays(leverage, context, entry.price, invalidation.price, position.notional, risk)
  <2> DEFINE enter == entry.price
             invalidate == invalidation.price
             notional == position.notional
  <2>1. enter \in Nat /\ invalidate \in Int /\ notional \in Nat
    BY <1>8, <1>17, <1>19
  <2>2. leverage = LeverageSuitability(context, enter, invalidate, notional, risk)
    BY <1>15
  <2> HIDE DEF enter, invalidate, notional
  <2>3. LeverageSuitability(context, enter, invalidate, notional, risk).ok
    BY <1>2, <2>2
  <2>4. LeverageSays(LeverageSuitability(context, enter, invalidate, notional, risk),
                     context, enter, invalidate, notional, risk)
    BY <1>5, <2>1, <2>3, LeverageWhenOk
  <2> QED BY <2>2, <2>4 DEF enter, invalidate, notional
<1>22. /\ plan.entry = entry /\ plan.invalidation = invalidation
       /\ plan.targets = found /\ plan.position = position
       /\ plan.leverage = leverage /\ plan.costs = costs
       /\ plan.expiryAt = Smaller(context.asOf + risk.expirySeconds,
                                  context.candidate.expiryAt)
  <2>1. plan = Plan(context, entry, invalidation, targets, position, leverage, costs, risk)
    BY <1>1
  <2>2. found = targets.levels
    BY DEF found
  <2> HIDE DEF entry, invalidation, targets, position, leverage, costs
  <2>3. /\ plan.entry = entry /\ plan.invalidation = invalidation
        /\ plan.targets = targets.levels /\ plan.position = position
        /\ plan.leverage = leverage /\ plan.costs = costs
        /\ plan.expiryAt = Smaller(context.asOf + risk.expirySeconds,
                                   context.candidate.expiryAt)
    <3> DEFINE until == Smaller(context.asOf + risk.expirySeconds, context.candidate.expiryAt)
               reach == Distance(entry.price, invalidation.price)
               aims == targets.levels
    <3>1. plan = [ok |-> TRUE, entry |-> entry, invalidation |-> invalidation,
                  distance |-> reach, targets |-> aims, position |-> position,
                  leverage |-> leverage, costs |-> costs, expiryAt |-> until]
      BY <2>1, Zenon DEF Plan
    <3> HIDE DEF until, reach, aims
    <3>2. /\ plan.entry = entry /\ plan.invalidation = invalidation
          /\ plan.targets = aims /\ plan.position = position
          /\ plan.leverage = leverage /\ plan.costs = costs
          /\ plan.expiryAt = until
      BY <3>1
    <3> QED BY <3>2 DEF until, aims
  <2> QED BY <2>2, <2>3, Zenon
<1>23. /\ ~(costs.targets[1].net <= 0)
       /\ ~(costs.targets[1].net * 10 < risk.minNetRR * costs.loss.net)
       /\ ~(costs.frictions * 100 > risk.maxCostPct * costs.loss.gross)
  BY <1>2, EconomicsSay
<1>24. 1 \in DOMAIN prices /\ 1 \in DOMAIN found
  <2>1. Len(prices) \in Nat /\ Len(prices) # 0 /\ DOMAIN prices = 1 .. Len(prices)
    BY <1>11, <1>20
  <2>2. 1 \in 1 .. Len(prices)
    BY <2>1
  <2> QED BY <1>11, <2>1, <2>2
<1>25. Toward(bullish, entry.price, found[1].price) > 0
  <2> DEFINE t == Toward(bullish, entry.price, prices[1])
             q == position.quantity
             net == costs.targets[1].net
  <2>1. t \in Int /\ q \in Nat /\ net \in Int /\ ~(net <= 0) /\ net <= t * q * BPS
    <3>1. prices[1] \in Int
      BY <1>11, <1>24
    <3>2. net \in Int /\ net <= t * q * BPS
      BY <1>20, <1>24 DEF CostsSay
    <3>3. t \in Int
      BY <1>8, <3>1 DEF Toward
    <3> QED BY <1>19, <1>23, <3>2, <3>3
  <2>2. prices[1] = found[1].price
    BY <1>10, <1>24
  <2> HIDE DEF t, q, net
  <2>3. t > 0
    <3> SUFFICES ASSUME t <= 0 PROVE FALSE
      BY <2>1
    <3>1. t * q <= 0 /\ t * q \in Int
      BY <2>1
    <3> DEFINE x == t * q
    <3>2. x \in Int /\ x <= 0 /\ net <= x * BPS
      BY <2>1, <3>1
    <3> HIDE DEF x
    <3>3. x * BPS <= 0 /\ x * BPS \in Int
      BY <3>2 DEF BPS
    <3> QED BY <2>1, <3>2, <3>3
  <2> QED BY <2>2, <2>3 DEF t
<1>26. ASSUME NEW i \in DOMAIN found
       PROVE  Toward(bullish, entry.price, found[i].price) > 0
  <2> DEFINE p == found[i].price
             q == found[1].price
             e == entry.price
  <2>1. p \in Int /\ q \in Int /\ e \in Int /\ i \in Nat \ {0}
    <3>1. /\ \E n \in Nat : DOMAIN found = 1 .. n
          /\ \A k \in DOMAIN found : found[k].price \in Int
      BY <1>9 DEF TargetsSay, found
    <3>2. i \in Nat \ {0}
      BY <1>26, <3>1
    <3>3. p \in Int /\ q \in Int
      BY <1>24, <1>26, <3>1
    <3> QED BY <1>8, <3>2, <3>3
  <2>2. Toward(bullish, e, q) > 0
    BY <1>25
  <2>3. i # 1 => IF bullish THEN ~(p < q) ELSE ~(p > q)
    <3> SUFFICES ASSUME i # 1 PROVE IF bullish THEN ~(p < q) ELSE ~(p > q)
      OBVIOUS
    <3>1. 1 < i
      BY <2>1
    <3>2. ~Nearer(bullish, found[i], found[1])
      BY <1>9, <1>24, <1>26, <3>1 DEF TargetsSay, found
    <3> QED BY <3>2 DEF Nearer
  <2> HIDE DEF p, q, e
  <2>4. i = 1 => p = q
    BY DEF p, q
  <2>5. Toward(bullish, e, p) > 0
    BY <2>1, <2>2, <2>3, <2>4 DEF Toward
  <2> QED BY <2>5 DEF p, e
<1>27. PricesSay(plan, context)
  BY <1>6, <1>7, <1>9, <1>22, <1>26, Zenon DEF PricesSay, found
<1>28. costs.loss.net * 100 <= (100 + risk.maxCostPct) * Budget(risk)
  <2> DEFINE enter == entry.price
             invalidate == invalidation.price
             quantity == position.quantity
             budget == Budget(risk)
             gross == costs.loss.gross
             frictions == costs.frictions
             share == risk.maxCostPct
  <2>1. /\ enter \in Int /\ invalidate \in Int /\ quantity \in Nat
        /\ budget \in Int /\ frictions \in Nat /\ share \in Int
    <3>1. budget \in Int /\ share \in Int
      <4>1. risk.account \in Nat /\ risk.riskBps \in Int /\ share \in Int
        BY DEF RiskTyped
      <4> QED BY <4>1 DEF Budget
    <3>2. frictions \in Nat
      BY <1>20 DEF CostsSay
    <3> QED BY <1>8, <1>19, <3>1, <3>2
  <2>2. /\ gross = Toward(bullish, invalidate, enter) * quantity * BPS /\ gross > 0
        /\ costs.loss.net = gross + frictions
    BY <1>20 DEF CostsSay
  <2>3. quantity * (Distance(enter, invalidate) * BPS) <= budget
    BY <1>13, <1>18 DEF PositionSays
  <2>4. ~(frictions * 100 > share * gross)
    BY <1>23
  <2> HIDE DEF enter, invalidate, quantity, budget, gross, frictions, share
  <2>5. (gross + frictions) * 100 <= (100 + share) * budget
    BY <1>3, <2>1, <2>2, <2>3, <2>4, LossFits
  <2>6. costs.loss.net * 100 <= (100 + share) * budget
    BY <2>2, <2>5
  <2> QED BY <2>6 DEF share, budget
<1>29. costs.targets[1].net * 10 >= risk.minNetRR * costs.loss.net
  <2> DEFINE net == costs.targets[1].net
             loss == costs.loss.net
             least == risk.minNetRR
  <2>1. net \in Int /\ loss \in Int /\ least \in Int
    <3>1. net \in Int
      BY <1>20, <1>24 DEF CostsSay
    <3>2. least \in Int
      BY DEF RiskTyped
    <3>3. costs.loss.gross \in Int
      <4> DEFINE t == Toward(bullish, invalidation.price, entry.price)
      <4>1. t \in Int
        BY <1>8 DEF Toward
      <4>2. costs.loss.gross = t * position.quantity * BPS
        BY <1>20 DEF CostsSay
      <4> HIDE DEF t
      <4> QED BY <1>19, <4>1, <4>2 DEF BPS
    <3>4. loss \in Int
      BY <1>20, <3>3 DEF CostsSay
    <3> QED BY <3>1, <3>2, <3>4
  <2>2. ~(net * 10 < least * loss)
    BY <1>23
  <2> HIDE DEF net, loss, least
  <2>3. net * 10 >= least * loss
    BY <2>1, <2>2
  <2> QED BY <2>3 DEF net, loss, least
<1>30. PromisesSay(plan, context, risk)
  <2>1. /\ position.notional \in Nat
        /\ instrument.minNotional <= position.notional
        /\ position.notional <= risk.maxNotional
    BY <1>18 DEF PositionSays
  <2> QED
    BY <1>5, <1>21, <1>22, <1>28, <1>29, <2>1, Zenon DEF PromisesSay
<1>31. ExpirySays(plan, context, risk)
  BY <1>3, <1>4, <1>22 DEF ExpirySays
<1> QED
  BY <1>27, <1>30, <1>31

-----------------------------------------------------------------------------
(* Series of candles.                                                      *)

(* What the rules read of a candle.                                        *)
LEMMA CandleTyped ==
  ASSUME NEW c \in Candle
  PROVE  /\ c.at \in Nat /\ c.open \in Nat /\ c.high \in Nat /\ c.low \in Nat
         /\ c.close \in Nat /\ c.volume \in Nat
         /\ c.low <= c.open /\ c.open <= c.high /\ c.low <= c.close /\ c.close <= c.high
BY DEF Candle

(* A series holds candles of a set, each time once, in the order of time.  *)
Ordered(series, closed) ==
    /\ series \in Seq(closed)
    /\ \A i, j \in DOMAIN series : i < j => series[i].at < series[j].at
    /\ \A c \in closed : \E i \in DOMAIN series : series[i].at = c.at

(* A finite set of candles in order has all of them, one after the other,  *)
(* and is empty only when the set is.                                      *)
LEMMA InOrderOrdered ==
  ASSUME NEW closed, IsFiniteSet(closed), closed \subseteq Candle
  PROVE  /\ Ordered(InOrder(closed), closed)
         /\ closed # {} => InOrder(closed) # <<>>
<1> DEFINE f == [c \in closed |-> c.at]
           times == {f[c] : c \in closed}
           n == Cardinality(times)
           series == InOrder(closed)
<1>1. times = {c.at : c \in closed}
  OBVIOUS
<1>2. IsFiniteSet(times)
  BY ImageFinite
<1>3. times \in SUBSET Int
  BY CandleTyped
<1>4. series = [i \in 1 .. n |-> CandleAt(closed, Nth(times, i))]
  BY <1>1, Zenon DEF InOrder, OfTimes
<1>t. \A t \in times : \E c \in closed : c.at = t
  OBVIOUS
<1>u. \A c \in closed : c.at \in times
  OBVIOUS
<1> HIDE DEF times, series
<1>5. /\ n \in Nat
      /\ \A i \in 1 .. n : Nth(times, i) \in times
      /\ \A i, j \in 1 .. n : i < j => Nth(times, i) < Nth(times, j)
      /\ \A p \in times : \E i \in 1 .. n : Nth(times, i) = p
  BY <1>2, <1>3, NthCounts
<1>6. \A t \in times : CandleAt(closed, t) \in closed /\ CandleAt(closed, t).at = t
  BY <1>t, Zenon DEF CandleAt
<1> HIDE DEF n
<1>7. DOMAIN series = 1 .. n
  BY <1>4
<1>8. \A i \in 1 .. n : series[i] \in closed /\ series[i].at = Nth(times, i)
  BY <1>4, <1>5, <1>6
<1>9. series \in Seq(closed) /\ Len(series) = n
  BY <1>4, <1>5, <1>8
<1>10. \A i, j \in DOMAIN series : i < j => series[i].at < series[j].at
  BY <1>5, <1>7, <1>8
<1>11. \A c \in closed : \E i \in DOMAIN series : series[i].at = c.at
  BY <1>5, <1>7, <1>8, <1>u
<1>12. Ordered(series, closed)
  BY <1>9, <1>10, <1>11 DEF Ordered
<1>13. closed # {} => series # <<>>
  BY <1>5, <1>7, <1>u
<1> QED BY <1>12, <1>13 DEF series

(* The candles that have closed in time.                                   *)
ClosedBy(found, width, asOf) == {c \in found : c.at + width <= asOf}

(* A series that could be built is made of the candles closed in time, in  *)
(* order, and is not empty.                                                *)
LEMMA BuildSays ==
  ASSUME NEW timeframe, NEW found, IsFiniteSet(found), found \subseteq Candle, NEW asOf,
         Build(timeframe, found, asOf).ok
  PROVE  /\ Build(timeframe, found, asOf).width = Width(timeframe)
         /\ Ordered(Build(timeframe, found, asOf).candles,
                    ClosedBy(found, Width(timeframe), asOf))
         /\ Build(timeframe, found, asOf).candles # <<>>
<1> DEFINE closed == ClosedBy(found, Width(timeframe), asOf)
           built == Build(timeframe, found, asOf)
           width == Width(timeframe)
           ordered == InOrder(closed)
<1>1. built = ClosedSeries(timeframe, found, closed, asOf)
  BY Zenon DEF Build, ClosedBy
<1>2. closed # {} /\ built = SeriesOf(timeframe, ordered, asOf)
  <2> HIDE DEF closed
  <2>1. built.ok
    OBVIOUS
  <2> HIDE DEF built
  <2>2. \A code : ~[ok |-> FALSE, code |-> code].ok
    OBVIOUS
  <2> QED BY <1>1, <2>1, <2>2, Zenon DEF ClosedSeries
<1>3. built = [ok |-> TRUE, candles |-> ordered, width |-> width]
  <2>1. built.ok
    OBVIOUS
  <2> HIDE DEF built, ordered
  <2>2. \A code : ~[ok |-> FALSE, code |-> code].ok
    OBVIOUS
  <2> QED BY <1>2, <2>1, <2>2, Zenon DEF SeriesOf
<1>4. IsFiniteSet(closed) /\ closed \subseteq Candle
  <2>1. closed \subseteq found
    BY DEF ClosedBy
  <2> QED BY <2>1, FS_Subset
<1> HIDE DEF closed, built, width
<1>5. Ordered(ordered, closed) /\ ordered # <<>>
  BY <1>2, <1>4, InOrderOrdered
<1> HIDE DEF ordered
<1>6. built.width = width /\ built.candles = ordered
  BY <1>3
<1> QED BY <1>5, <1>6 DEF closed, width, built

-----------------------------------------------------------------------------
(* Swings and levels.                                                      *)

(* The settings the detectors use are numbers.                             *)
LEMMA StrategyTyped ==
  /\ Strategy.leftBars \in Nat \ {0} /\ Strategy.rightBars \in Nat \ {0}
  /\ Strategy.equalBps \in Nat /\ Strategy.lookback \in Nat \ {0}
  /\ Strategy.retestCandles \in Nat \ {0} /\ Strategy.retestBps \in Nat
  /\ Strategy.reclaimBps \in Nat /\ Strategy.overshootBps \in Nat
  /\ Strategy.expireAfter \in Nat
<1>1. Strategy \in
        [watchlistRequired : BOOLEAN, freshBook : BOOLEAN, degradedAllowed : BOOLEAN,
         minScore : 0 .. 100, minCandles : [Timeframes -> Nat], maxGap : Nat \ {0},
         leftBars : Nat \ {0}, rightBars : Nat \ {0}, swingAtr : Nat,
         equalBps : Nat, breakCloses : Nat \ {0}, lookback : Nat \ {0},
         overshootBps : Nat, reclaimBps : Nat, retestBps : Nat,
         retestCandles : Nat \ {0}, atrPeriod : Nat \ {0}, volatilityLookback : Nat,
         highVolatility : 50 .. 100, momentumLookback : Nat \ {0},
         volumeLookback : Nat \ {0}, minVolume : Nat, volumeRequired : BOOLEAN,
         momentumRequired : BOOLEAN, trendMin : Nat, rangeMax : Nat,
         breakoutLookback : Nat \ {0}, trendLookback : Nat \ {0},
         eventWindows : SUBSET (Nat \X Nat), expireAfter : Nat,
         weights : [ScoreWeights -> Nat]]
  BY StrategyAssumption, Zenon DEF StrategySettings
<1>2. Strategy.leftBars \in Nat \ {0}
  BY <1>1, SMTT(30)
<1>3. Strategy.rightBars \in Nat \ {0}
  BY <1>1, SMTT(30)
<1>4. Strategy.equalBps \in Nat
  BY <1>1, SMTT(30)
<1>5. Strategy.lookback \in Nat \ {0}
  BY <1>1, SMTT(30)
<1>6. Strategy.retestCandles \in Nat \ {0}
  BY <1>1, SMTT(30)
<1>7. Strategy.retestBps \in Nat
  BY <1>1, SMTT(30)
<1>8. Strategy.reclaimBps \in Nat
  BY <1>1, SMTT(30)
<1>9. Strategy.overshootBps \in Nat
  BY <1>1, SMTT(30)
<1>10. Strategy.expireAfter \in Nat
  BY <1>1, SMTT(30)
<1> QED
  BY <1>2, <1>3, <1>4, <1>5, <1>6, <1>7, <1>8, <1>9, <1>10

(* The places of a sequence are finitely many.                             *)
LEMMA PlacesFinite ==
  ASSUME NEW S, NEW seq \in Seq(S), NEW places \in SUBSET (DOMAIN seq)
  PROVE  IsFiniteSet(places) /\ places \in SUBSET Int
<1>1. Len(seq) \in Int /\ DOMAIN seq = 1 .. Len(seq)
  OBVIOUS
<1>2. \A a, b \in Int : IsFiniteSet(a .. b)
  BY FS_Interval
<1>3. IsFiniteSet(DOMAIN seq)
  <2> 1 \in Int
    OBVIOUS
  <2> QED BY <1>1, <1>2, Zenon
<1> QED BY <1>1, <1>3, FS_Subset

(* The entries at some places are entries, and all of those.               *)
LEMMA PickSays ==
  ASSUME NEW S, NEW seq \in Seq(S), NEW places \in SUBSET (DOMAIN seq)
  PROVE  /\ Pick(seq, places) \in Seq(S)
         /\ \A i \in DOMAIN Pick(seq, places) :
                \E p \in places : Pick(seq, places)[i] = seq[p]
         /\ \A p \in places :
                \E i \in DOMAIN Pick(seq, places) : Pick(seq, places)[i] = seq[p]
<1> DEFINE n == Cardinality(places)
           picked == Pick(seq, places)
<1>1. IsFiniteSet(places) /\ places \in SUBSET Int
  BY PlacesFinite
<1>2. /\ n \in Nat
      /\ \A i \in 1 .. n : Nth(places, i) \in places
      /\ \A p \in places : \E i \in 1 .. n : Nth(places, i) = p
  BY <1>1, NthCounts
<1>3. picked = [i \in 1 .. n |-> seq[Nth(places, i)]]
  BY DEF Pick
<1> HIDE DEF n, picked
<1>4. \A i \in 1 .. n : picked[i] = seq[Nth(places, i)]
  BY <1>3
<1>5. DOMAIN picked = 1 .. n
  BY <1>3
<1>6. \A p \in places : seq[p] \in S
  OBVIOUS
<1>7. \A i \in 1 .. n : picked[i] \in S
  BY <1>2, <1>4, <1>6
<1>8. picked \in Seq(S)
  BY <1>2, <1>3, <1>7
<1> QED BY <1>2, <1>4, <1>5, <1>8 DEF picked

(* The newest n entries of a sequence over S start at first.               *)
StartsAt(first, seq, n, S) ==
    /\ Newest(seq, n) \in Seq(S)
    /\ first \in Nat \ {0}
    /\ Len(Newest(seq, n)) = Len(seq) + 1 - first
    /\ \A i \in DOMAIN Newest(seq, n) :
            first + i - 1 \in DOMAIN seq /\ Newest(seq, n)[i] = seq[first + i - 1]
    /\ seq # <<>> => Newest(seq, n) # <<>> /\ first + Len(Newest(seq, n)) - 1 = Len(seq)

(* The newest entries, as many as there are.                               *)
LEMMA NewestSays ==
  ASSUME NEW S, NEW seq \in Seq(S), NEW n \in Nat \ {0}
  PROVE  StartsAt(Greater(1, Len(seq) - n + 1), seq, n, S)
<1> DEFINE first == Greater(1, Len(seq) - n + 1)
<1>1. first \in Nat \ {0} /\ first <= Len(seq) + 1 /\ (seq # <<>> => first <= Len(seq))
  BY DEF Greater
<1>2. Newest(seq, n) = SubSeq(seq, first, Len(seq))
  BY DEF Newest
<1> HIDE DEF first
<1>3. /\ SubSeq(seq, first, Len(seq)) \in Seq(S)
      /\ Len(SubSeq(seq, first, Len(seq))) = Len(seq) + 1 - first
      /\ \A i \in 1 .. (Len(seq) + 1 - first) :
            SubSeq(seq, first, Len(seq))[i] = seq[first + i - 1]
  BY <1>1
<1>4. \A i \in 1 .. (Len(seq) + 1 - first) : first + i - 1 \in DOMAIN seq
  BY <1>1
<1>5. seq # <<>> => SubSeq(seq, first, Len(seq)) # <<>>
  <2> DEFINE sub == SubSeq(seq, first, Len(seq))
  <2>1. sub = <<>> => Len(sub) = 0
    OBVIOUS
  <2>2. Len(sub) = Len(seq) + 1 - first
    BY <1>3
  <2> HIDE DEF sub
  <2>3. seq # <<>> => sub # <<>>
    BY <1>1, <2>1, <2>2
  <2> QED BY <2>3 DEF sub
<1> DEFINE newest == Newest(seq, n)
<1>6. /\ newest \in Seq(S) /\ Len(newest) = Len(seq) + 1 - first
      /\ \A i \in 1 .. (Len(seq) + 1 - first) : newest[i] = seq[first + i - 1]
      /\ seq # <<>> => newest # <<>>
  BY <1>2, <1>3, <1>5
<1> HIDE DEF newest
<1>7. DOMAIN newest = 1 .. (Len(seq) + 1 - first)
  BY <1>6
<1>8. first + Len(newest) - 1 = Len(seq)
  BY <1>1, <1>6
<1>9. /\ newest \in Seq(S)
      /\ first \in Nat \ {0}
      /\ Len(newest) = Len(seq) + 1 - first
      /\ \A i \in DOMAIN newest :
            first + i - 1 \in DOMAIN seq /\ newest[i] = seq[first + i - 1]
      /\ seq # <<>> => newest # <<>> /\ first + Len(newest) - 1 = Len(seq)
  BY <1>1, <1>4, <1>6, <1>7, <1>8
<1> QED BY <1>9, Zenon DEF first, newest, StartsAt

(* The extremes of candles are among them.                                 *)
LEMMA ExtremesNat ==
  ASSUME NEW series \in Seq(Candle), series # <<>>
  PROVE  /\ Max(Highs(series)) \in Nat /\ Min(Lows(series)) \in Nat
         /\ \A i \in DOMAIN series : /\ series[i].high <= Max(Highs(series))
                                     /\ Min(Lows(series)) <= series[i].low
<1>1. /\ 1 \in DOMAIN series
      /\ \A i \in DOMAIN series : series[i] \in Candle
  OBVIOUS
<1>2. IsFiniteSet(DOMAIN series)
  BY PlacesFinite
<1> DEFINE f == [i \in DOMAIN series |-> series[i].high]
           g == [i \in DOMAIN series |-> series[i].low]
<1>3. Highs(series) = {f[i] : i \in DOMAIN series} /\ Lows(series) = {g[i] : i \in DOMAIN series}
  BY DEF Highs, Lows
<1>4. /\ Highs(series) \in SUBSET Nat /\ Highs(series) # {}
      /\ Lows(series) \in SUBSET Nat /\ Lows(series) # {}
  BY <1>1, CandleTyped DEF Highs, Lows
<1>5. IsFiniteSet(Highs(series)) /\ IsFiniteSet(Lows(series))
  <2> HIDE DEF f, g
  <2> QED BY <1>2, <1>3, ImageFinite
<1>6. /\ Max(Highs(series)) \in Highs(series)
      /\ \A m \in Highs(series) : Max(Highs(series)) >= m
  BY <1>4, <1>5, MaxTaken
<1>7. /\ Min(Lows(series)) \in Lows(series)
      /\ \A m \in Lows(series) : Min(Lows(series)) <= m
  BY <1>4, <1>5, MinTaken
<1>8. \A i \in DOMAIN series : /\ series[i].high \in Highs(series)
                               /\ series[i].low \in Lows(series)
  BY DEF Highs, Lows
<1>9. \A i \in DOMAIN series : /\ series[i].high <= Max(Highs(series))
                               /\ Min(Lows(series)) <= series[i].low
  BY <1>4, <1>6, <1>7, <1>8
<1> QED BY <1>4, <1>6, <1>7, <1>9

(* A swing, at a price and a time.                                         *)
SwingSet == [type : {"HIGH", "LOW"}, price : Nat, at : Nat, confirmedAt : Int]

(* A series with candles in it.                                            *)
SeriesTyped(series) ==
    series.candles \in Seq(Candle) /\ series.candles # <<>> /\ series.width \in Nat

(* A pivot is a swing at the extreme of one of the candles.                *)
LEMMA PivotTyped ==
  ASSUME NEW series, SeriesTyped(series), NEW i \in DOMAIN series.candles,
         Around(i) \subseteq DOMAIN series.candles
  PROVE  PivotSwing(series, 2 * i - 1) \in SwingSet /\ PivotSwing(series, 2 * i) \in SwingSet
<1> DEFINE bars == series.candles
           right == i + Strategy.rightBars
<1>1. bars \in Seq(Candle) /\ i \in DOMAIN bars /\ series.width \in Nat
  BY DEF SeriesTyped
<1>2. right \in DOMAIN bars
  <2> HIDE DEF bars
  <2>1. i \in Int
    BY <1>1
  <2>2. right \in Around(i)
    BY <2>1, StrategyTyped DEF Around
  <2> QED BY <2>2 DEF bars
<1>3. bars[i] \in Candle /\ bars[right] \in Candle /\ i \in Int
  <2> HIDE DEF bars, right
  <2> QED BY <1>1, <1>2
<1>4. /\ bars[i].high \in Nat /\ bars[i].low \in Nat /\ bars[i].at \in Nat
      /\ bars[right].at + series.width \in Int
  BY <1>1, <1>3, CandleTyped
<1>5. ClosesAt(series, right) \in Int
  BY <1>4 DEF ClosesAt
<1>6. \A type \in {"HIGH", "LOW"}, price \in Nat : Swing(series, type, price, i) \in SwingSet
  BY <1>4, <1>5 DEF Swing, SwingSet
<1>7. /\ ((2 * i - 1) + 1) \div 2 = i /\ (2 * i - 1) % 2 = 1
      /\ ((2 * i) + 1) \div 2 = i /\ (2 * i) % 2 = 0
  BY <1>3
<1>8. PivotSwing(series, 2 * i - 1) = Swing(series, "HIGH", bars[i].high, i)
  BY <1>7 DEF PivotSwing
<1>9. PivotSwing(series, 2 * i) = Swing(series, "LOW", bars[i].low, i)
  BY <1>7 DEF PivotSwing
<1> QED BY <1>4, <1>6, <1>8, <1>9

(* The swings of a series are prices of its candles, in the order of time. *)
LEMMA SwingsTyped ==
  ASSUME NEW series, SeriesTyped(series)
  PROVE  DetectSwings(series) \in Seq(SwingSet)
<1> DEFINE bars == series.candles
           atr == OrZero(Atr(bars))
           inner == {i \in DOMAIN bars : Around(i) \subseteq DOMAIN bars}
           high == {j \in inner : CountsHigh(bars, j, atr)}
           low == {j \in inner : CountsLow(bars, j, atr)}
           pivots == Prominent(bars, atr)
           n == Cardinality(pivots)
           swings == DetectSwings(series)
<1>1. pivots = {2 * i - 1 : i \in high} \cup {2 * i : i \in low}
  BY Zenon DEF Prominent
<1>2. bars \in Seq(Candle)
  BY DEF SeriesTyped
<1>3. swings = [k \in 1 .. n |-> PivotSwing(series, Nth(pivots, k))]
  BY Zenon DEF DetectSwings, ProminentSwings, SwingsAt
<1>4. high \subseteq inner /\ low \subseteq inner
      /\ \A i \in inner : i \in DOMAIN bars /\ Around(i) \subseteq DOMAIN bars
  OBVIOUS
<1> HIDE DEF pivots, n, swings, high, low, inner
<1>5. \A k \in pivots : PivotSwing(series, k) \in SwingSet
  <2> SUFFICES ASSUME NEW k \in pivots PROVE PivotSwing(series, k) \in SwingSet
    OBVIOUS
  <2>1. PICK i \in inner : k = 2 * i - 1 \/ k = 2 * i
    BY <1>1, <1>4
  <2>2. i \in DOMAIN series.candles /\ Around(i) \subseteq DOMAIN series.candles
    BY <1>4, <2>1
  <2>3. PivotSwing(series, 2 * i - 1) \in SwingSet /\ PivotSwing(series, 2 * i) \in SwingSet
    BY <2>2, PivotTyped
  <2> QED BY <2>1, <2>3
<1>6. IsFiniteSet(pivots) /\ pivots \in SUBSET Int
  <2> DEFINE most == 2 * Len(bars)
  <2>1. most \in Int /\ \A i \in DOMAIN bars : 2 * i - 1 \in 1 .. most /\ 2 * i \in 1 .. most
    BY <1>2
  <2> HIDE DEF most
  <2>2. pivots \subseteq 1 .. most
    BY <1>1, <1>4, <2>1
  <2>3. IsFiniteSet(1 .. most)
    <3>1. \A a, b \in Int : IsFiniteSet(a .. b)
      BY FS_Interval
    <3>2. 1 \in Int
      OBVIOUS
    <3> QED BY <2>1, <3>1, <3>2, Zenon
  <2>4. pivots \in SUBSET Int
    <3> DEFINE range == 1 .. most
    <3>1. range \subseteq Int
      BY <2>1
    <3> QED BY <2>2, <3>1
  <2> QED BY <2>2, <2>3, <2>4, FS_Subset
<1>7. n \in Nat /\ \A k \in 1 .. n : Nth(pivots, k) \in pivots
  BY <1>6, NthCounts DEF n
<1>8. \A k \in 1 .. n : PivotSwing(series, Nth(pivots, k)) \in SwingSet
  BY <1>5, <1>7
<1>9. swings \in Seq(SwingSet)
  BY <1>3, <1>7, <1>8
<1> QED BY <1>9 DEF swings

(* The swings of one type are swings.                                      *)
LEMMA SwingsOfTyped ==
  ASSUME NEW swings \in Seq(SwingSet), NEW type
  PROVE  /\ SwingsOf(swings, type) \in Seq(SwingSet)
         /\ SwingsOf(swings, type) # <<>> => swings # <<>>
<1> DEFINE places == {i \in DOMAIN swings : swings[i].type = type}
           picked == Pick(swings, places)
<1>1. SwingsOf(swings, type) = picked
  BY Zenon DEF SwingsOf
<1>2. places \in SUBSET (DOMAIN swings)
  OBVIOUS
<1> HIDE DEF places
<1>3. /\ picked \in Seq(SwingSet)
      /\ \A i \in DOMAIN picked : \E p \in places : picked[i] = swings[p]
  BY <1>2, PickSays
<1> HIDE DEF picked
<1>4. ASSUME picked # <<>> PROVE swings # <<>>
  <2>1. 1 \in DOMAIN picked
    BY <1>3, <1>4
  <2>2. PICK p \in places : picked[1] = swings[p]
    BY <1>3, <2>1
  <2> QED BY <1>2, <2>2
<1> QED BY <1>1, <1>3, <1>4

(* The last swing of a series of them has a price.                         *)
LEMMA LastSwing ==
  ASSUME NEW swings \in Seq(SwingSet), swings # <<>>
  PROVE  Last(swings) \in SwingSet /\ Last(swings).price \in Nat
<1>1. Len(swings) \in DOMAIN swings
  OBVIOUS
<1>2. swings[Len(swings)] \in SwingSet
  BY <1>1
<1>3. \A s \in SwingSet : s.price \in Nat
  BY DEF SwingSet
<1> QED BY <1>2, <1>3 DEF Last

-----------------------------------------------------------------------------

(* Where levels come from.                                                 *)
LevelTypes ==
    {"SWING_HIGH", "SWING_LOW", "EQUAL_HIGHS", "EQUAL_LOWS", "RANGE_HIGH", "RANGE_LOW"}

(* A level, with what it counts for.                                       *)
LevelSet == [type : LevelTypes, price : Nat, relevance : Int]

(* The relevance of a swing is an integer, however many swings there are.  *)
LEMMA RelevanceInt ==
  ASSUME NEW swings \in Seq(SwingSet), swings # <<>>, NEW swing
  PROVE  Relevance(swings, swing) \in Int
<1> DEFINE older == {i \in DOMAIN swings : swings[i].at <= swing.at}
           c == Cardinality(older)
           n == Len(swings)
<1>1. older \in SUBSET (DOMAIN swings)
  OBVIOUS
<1>2. IsFiniteSet(older)
  BY <1>1, PlacesFinite
<1> HIDE DEF older
<1>3. c \in Nat
  BY <1>2, FS_CardinalityType
<1>4. n \in Nat \ {0}
  OBVIOUS
<1>5. Relevance(swings, swing) = (100 * c) \div n
  BY DEF Relevance, older
<1> HIDE DEF c, n
<1>6. 100 * c \in Int
  BY <1>3
<1>7. (100 * c) \div n \in Int
  BY <1>4, <1>6
<1> QED BY <1>5, <1>7

(* The levels swings give are levels.                                      *)
LEMMA SwingLevelsTyped ==
  ASSUME NEW side \in Seq(SwingSet), NEW swings \in Seq(SwingSet),
         side # <<>> => swings # <<>>, NEW type \in LevelTypes
  PROVE  SwingLevels(side, type, swings) \in Seq(LevelSet)
<1> DEFINE n == Len(side)
           levels == SwingLevels(side, type, swings)
<1>1. n \in Nat /\ DOMAIN side = 1 .. n
  OBVIOUS
<1>2. levels = [i \in 1 .. n |-> Level(type, side[i].price, Relevance(swings, side[i]))]
  BY <1>1 DEF SwingLevels
<1>3. ASSUME NEW i \in 1 .. n
      PROVE  Level(type, side[i].price, Relevance(swings, side[i])) \in LevelSet
  <2>1. side # <<>> /\ side[i] \in SwingSet
    BY <1>3
  <2>2. side[i].price \in Nat
    BY <2>1 DEF SwingSet
  <2>3. Relevance(swings, side[i]) \in Int
    BY <2>1, RelevanceInt
  <2> QED BY <2>2, <2>3 DEF Level, LevelSet
<1> HIDE DEF n, levels
<1>4. levels \in Seq(LevelSet)
  BY <1>1, <1>2, <1>3
<1> QED BY <1>4 DEF levels

(* A cluster lies at the extreme of the prices of its group.               *)
LEMMA ClustersTyped ==
  ASSUME NEW side \in Seq(SwingSet), NEW type \in {"EQUAL_HIGHS", "EQUAL_LOWS"}
  PROVE  Clusters(side, type) \in Seq(LevelSet)
<1> DEFINE anchors == {i \in DOMAIN side : EqualTo(side, i) # {i}}
           first == Min(anchors)
           group == EqualTo(side, first)
           f == [j \in group |-> side[j].price]
           prices == {f[j] : j \in group}
           size == Cardinality(group)
           clusters == Clusters(side, type)
<1>1. clusters = IF anchors = {} THEN <<>>
                 ELSE <<GroupLevel(type, {side[j].price : j \in group}, size)>>
  BY Zenon DEF Clusters, Cluster
<1>2. {side[j].price : j \in group} = prices
  OBVIOUS
<1>3. CASE anchors = {}
  <2>1. clusters = <<>>
    BY <1>1, <1>3
  <2> QED BY <2>1
<1>4. CASE anchors # {}
  <2>1. anchors \in SUBSET (DOMAIN side)
    OBVIOUS
  <2>2. IsFiniteSet(anchors) /\ anchors \in SUBSET Int
    BY <2>1, PlacesFinite
  <2> HIDE DEF anchors
  <2>3. first \in anchors
    BY <1>4, <2>2, MinTaken
  <2> HIDE DEF first
  <2>4. first \in DOMAIN side
    BY <2>1, <2>3
  <2>5. \A j \in DOMAIN side : side[j].price \in Nat
    <3>1. \A j \in DOMAIN side : side[j] \in SwingSet
      BY EntriesOf
    <3>2. \A s \in SwingSet : s.price \in Nat
      BY DEF SwingSet
    <3> QED BY <3>1, <3>2
  <2>6. first \in group
    <3> DEFINE p == side[first].price
    <3>1. p \in Nat
      BY <2>4, <2>5
    <3>2. AbsoluteOf(p - p) * BasisPoints <= Strategy.equalBps * p
      <4> HIDE DEF p
      <4>1. AbsoluteOf(p - p) = 0
        BY <3>1 DEF AbsoluteOf, Greater
      <4>2. AbsoluteOf(p - p) * BasisPoints = 0
        BY <4>1 DEF BasisPoints
      <4>3. Strategy.equalBps * p >= 0
        BY <3>1, StrategyTyped
      <4> QED BY <4>2, <4>3
    <3> QED BY <2>4, <3>2 DEF EqualTo
  <2>7. group \in SUBSET (DOMAIN side)
    BY DEF EqualTo
  <2> HIDE DEF group
  <2>8. IsFiniteSet(group)
    BY <2>7, PlacesFinite
  <2>9. prices \in SUBSET Nat /\ prices # {}
    BY <2>5, <2>6, <2>7
  <2>10. IsFiniteSet(prices)
    <3> HIDE DEF f
    <3> QED BY <2>8, ImageFinite
  <2>11. size \in Nat
    BY <2>8, FS_CardinalityType
  <2> HIDE DEF prices, size
  <2>12. Max(prices) \in prices /\ Min(prices) \in prices
    BY <2>9, <2>10, MaxTaken, MinTaken
  <2> DEFINE price == IF type = "EQUAL_HIGHS" THEN Max(prices) ELSE Min(prices)
             relevance == Lesser(100, 25 + 25 * size)
  <2>13. price \in Nat /\ relevance \in Int
    <3>1. Max(prices) \in Nat /\ Min(prices) \in Nat
      BY <2>9, <2>12
    <3>2. relevance \in Int
      BY <2>11 DEF Lesser
    <3> HIDE DEF relevance
    <3> QED BY <3>1, <3>2
  <2>14. GroupLevel(type, prices, size) = [type |-> type, price |-> price, relevance |-> relevance]
    BY DEF GroupLevel, Level
  <2> HIDE DEF price, relevance
  <2>15. GroupLevel(type, prices, size) \in LevelSet
    BY <2>13, <2>14 DEF LevelSet, LevelTypes
  <2>16. clusters = <<GroupLevel(type, prices, size)>>
    BY <1>1, <1>2, <1>4
  <2> QED BY <2>15, <2>16
<1> QED BY <1>3, <1>4

(* The level a bound of a range or a session gives, when there is one, is  *)
(* a level.                                                                *)
LEMMA BoundaryTyped ==
  ASSUME NEW price, price # None => price \in Nat, NEW type \in LevelTypes
  PROVE  Boundary(type, price) \in Seq(LevelSet)
<1>1. CASE price = None
  BY <1>1 DEF Boundary
<1>2. CASE price # None
  <2>1. Level(type, price, 80) \in LevelSet
    BY <1>2 DEF Level, LevelSet
  <2>2. Boundary(type, price) = <<Level(type, price, 80)>>
    BY <1>2 DEF Boundary
  <2> QED BY <2>1, <2>2
<1> QED BY <1>1, <1>2

(* The range before the last candle, when there are enough of them.        *)
LEMMA RangeTyped ==
  ASSUME NEW series \in Seq(Candle), NEW n \in Nat \ {0}
  PROVE  /\ RollingHigh(series, n) # None => RollingHigh(series, n) \in Nat
         /\ RollingLow(series, n) # None => RollingLow(series, n) \in Nat
<1> DEFINE window == PriorWindow(series, n)
<1>1. CASE Len(series) <= n
  BY <1>1 DEF RollingHigh, RollingLow
<1>2. CASE ~(Len(series) <= n)
  <2>1. Front(series) \in Seq(Candle) /\ Front(series) # <<>>
    <3>1. Front(series) = SubSeq(series, 1, Len(series) - 1)
      BY DEF Front
    <3>2. Len(SubSeq(series, 1, Len(series) - 1)) = Len(series) - 1 /\ Len(series) - 1 > 0
      BY <1>2
    <3>3. SubSeq(series, 1, Len(series) - 1) \in Seq(Candle)
      BY <3>2
    <3>4. \A s \in Seq(Candle) : Len(s) > 0 => s # <<>>
      OBVIOUS
    <3> DEFINE sub == SubSeq(series, 1, Len(series) - 1)
    <3>5. sub \in Seq(Candle) /\ Len(sub) > 0
      BY <3>2, <3>3
    <3> HIDE DEF sub
    <3>6. sub # <<>>
      BY <3>4, <3>5
    <3> QED BY <3>1, <3>5, <3>6 DEF sub
  <2> DEFINE front == Front(series)
  <2> HIDE DEF front
  <2>2. Newest(front, n) \in Seq(Candle) /\ Newest(front, n) # <<>>
    BY <2>1, NewestSays DEF front, StartsAt
  <2>3. window = Newest(front, n)
    BY DEF PriorWindow, front
  <2> HIDE DEF window
  <2>4. Max(Highs(window)) \in Nat /\ Min(Lows(window)) \in Nat
    BY <2>2, <2>3, ExtremesNat
  <2>5. /\ RollingHigh(series, n) = Max(Highs(window))
        /\ RollingLow(series, n) = Min(Lows(window))
    BY <1>2 DEF RollingHigh, RollingLow, window
  <2> QED BY <2>4, <2>5
<1> QED BY <1>1, <1>2

(* The newest swings of one type are swings.                               *)
LEMMA NewestOf ==
  ASSUME NEW swings \in Seq(SwingSet), NEW type
  PROVE  LET side == Newest(SwingsOf(swings, type), 6)
         IN  side \in Seq(SwingSet) /\ (side # <<>> => swings # <<>>)
<1> DEFINE all == SwingsOf(swings, type)
           side == Newest(all, 6)
           first == Greater(1, Len(all) - 6 + 1)
<1>1. all \in Seq(SwingSet) /\ (all # <<>> => swings # <<>>)
  BY SwingsOfTyped
<1> HIDE DEF all
<1>2. side \in Seq(SwingSet)
      /\ \A i \in DOMAIN side : first + i - 1 \in DOMAIN all
  <2>1. 6 \in Nat \ {0}
    OBVIOUS
  <2>2. LET b == Greater(1, Len(all) - 6 + 1)
        IN  /\ Newest(all, 6) \in Seq(SwingSet)
            /\ \A i \in DOMAIN Newest(all, 6) : b + i - 1 \in DOMAIN all
    BY <1>1, <2>1, NewestSays DEF StartsAt
  <2> QED BY <2>2
<1> HIDE DEF side, first
<1>3. side # <<>> => all # <<>>
  <2> SUFFICES ASSUME side # <<>>, all = <<>> PROVE FALSE
    OBVIOUS
  <2>1. 1 \in DOMAIN side
    BY <1>2
  <2>2. DOMAIN all = {}
    OBVIOUS
  <2> QED BY <1>2, <2>1, <2>2
<1>4. side \in Seq(SwingSet) /\ (side # <<>> => swings # <<>>)
  BY <1>1, <1>2, <1>3
<1> QED BY <1>4 DEF side, all

(* Every level of a series is a price of its candles.                      *)
LEMMA LiquidityTyped ==
  ASSUME NEW series, SeriesTyped(series), NEW swings \in Seq(SwingSet)
  PROVE  DetectLiquidityLevels(series, swings) \in Seq(LevelSet)
<1> DEFINE highs == Newest(SwingsOf(swings, "HIGH"), 6)
           lows == Newest(SwingsOf(swings, "LOW"), 6)
           high == RollingHigh(series.candles, Strategy.lookback)
           low == RollingLow(series.candles, Strategy.lookback)
           a == SwingLevels(highs, "SWING_HIGH", swings)
           b == SwingLevels(lows, "SWING_LOW", swings)
           c == Clusters(highs, "EQUAL_HIGHS")
           d == Clusters(lows, "EQUAL_LOWS")
           e == Boundary("RANGE_HIGH", high)
           f == Boundary("RANGE_LOW", low)
<1>1. DetectLiquidityLevels(series, swings) = a \o b \o c \o d \o e \o f
  BY Zenon DEF DetectLiquidityLevels, LevelsAround
<1>2. highs \in Seq(SwingSet) /\ (highs # <<>> => swings # <<>>)
  BY NewestOf
<1>3. lows \in Seq(SwingSet) /\ (lows # <<>> => swings # <<>>)
  BY NewestOf
<1>4. (high # None => high \in Nat) /\ (low # None => low \in Nat)
  <2>1. series.candles \in Seq(Candle) /\ Strategy.lookback \in Nat \ {0}
    BY StrategyTyped DEF SeriesTyped
  <2> QED BY <2>1, RangeTyped
<1>5. /\ "SWING_HIGH" \in LevelTypes /\ "SWING_LOW" \in LevelTypes
      /\ "RANGE_HIGH" \in LevelTypes /\ "RANGE_LOW" \in LevelTypes
  BY DEF LevelTypes
<1> HIDE DEF highs, lows, high, low
<1>6. a \in Seq(LevelSet) /\ b \in Seq(LevelSet)
  BY <1>2, <1>3, <1>5, SwingLevelsTyped
<1>7. c \in Seq(LevelSet) /\ d \in Seq(LevelSet)
  BY <1>2, <1>3, ClustersTyped
<1>8. e \in Seq(LevelSet) /\ f \in Seq(LevelSet)
  BY <1>4, <1>5, BoundaryTyped
<1> HIDE DEF a, b, c, d, e, f
<1>9. a \o b \o c \o d \o e \o f \in Seq(LevelSet)
  BY <1>6, <1>7, <1>8
<1> QED BY <1>1, <1>9

-----------------------------------------------------------------------------
(* Sweeps.                                                                 *)

(* A sweep is of a level, at the time of a candle that pierced it.         *)
IsSweep(sweep, series) ==
    /\ sweep.level \in LevelSet
    /\ sweep.level.price \in Nat /\ sweep.level.relevance \in Int
    /\ sweep.below = Below(sweep.level)
    /\ sweep.confidence \in Int
    /\ \E k \in DOMAIN series.candles :
            sweep.at = series.candles[k].at /\ Pierces(series.candles[k], sweep.level)

(* A sweep that is detected pierced its level and came back.               *)
LEMMA DetectedSweep ==
  ASSUME NEW series, SeriesTyped(series), NEW level \in LevelSet,
         DetectSweep(series, level) # None
  PROVE  IsSweep(DetectSweep(series, level), series)
<1> DEFINE bars == series.candles
           window == Newest(bars, SweepWindow)
           pierced == {i \in DOMAIN window : Pierces(window[i], level)}
           first == Min(pierced)
           back == {i \in first .. Len(window) : Beyond(window[i], level.price, Below(level))}
           sweep == DetectSweep(series, level)
           confidence == IF back = {} THEN 30 ELSE IF Min(back) = first THEN 90 ELSE 70
           start == Greater(1, Len(bars) - 8 + 1)
           at == window[first].at
           confirmed == back # {}
           below == Below(level)
<1>1. sweep = SweepIn(window, level, pierced)
  BY Zenon DEF DetectSweep
<1>2. pierced # {} /\ sweep = SweepFrom(window, level, first)
  <2> HIDE DEF window, pierced
  <2> QED BY <1>1, Zenon DEF SweepIn
<1>3. sweep = [level |-> level, below |-> below, at |-> at, confirmed |-> confirmed,
               confidence |-> confidence]
  <2> HIDE DEF window, pierced, first
  <2> QED BY <1>2, Zenon DEF SweepFrom, Sweep
<1>4. bars \in Seq(Candle) /\ 8 \in Nat \ {0}
  BY DEF SeriesTyped
<1>5. /\ window \in Seq(Candle)
      /\ \A i \in DOMAIN window : /\ start + i - 1 \in DOMAIN bars
                                  /\ window[i] = bars[start + i - 1]
  <2> HIDE DEF bars
  <2>1. window = Newest(bars, 8)
    BY DEF SweepWindow
  <2> HIDE DEF window
  <2> QED BY <1>4, <2>1, NewestSays DEF StartsAt
<1> HIDE DEF window, start, bars
<1>6. pierced \in SUBSET (DOMAIN window) /\ \A i \in pierced : Pierces(window[i], level)
  OBVIOUS
<1> HIDE DEF pierced
<1>7. IsFiniteSet(pierced) /\ pierced \in SUBSET Int
  BY <1>5, <1>6, PlacesFinite
<1>8. first \in pierced
  BY <1>2, <1>7, MinTaken
<1> HIDE DEF first, back
<1>9. confidence \in Int
  OBVIOUS
<1> HIDE DEF confidence, at, confirmed, below, sweep
<1>10. /\ sweep.level = level /\ sweep.below = below /\ sweep.at = at
       /\ sweep.confidence = confidence
  BY <1>3
<1> DEFINE k == start + first - 1
<1>11. /\ k \in DOMAIN bars /\ at = bars[k].at /\ Pierces(bars[k], level)
  BY <1>5, <1>6, <1>8 DEF at
<1> HIDE DEF k
<1>12. level.price \in Nat /\ level.relevance \in Int
  BY DEF LevelSet
<1>13. \E j \in DOMAIN series.candles :
            sweep.at = series.candles[j].at /\ Pierces(series.candles[j], sweep.level)
  BY <1>10, <1>11 DEF bars
<1>14. IsSweep(sweep, series)
  BY <1>9, <1>10, <1>12, <1>13 DEF IsSweep, below
<1> QED BY <1>14 DEF sweep

(* The sweeps of a series are sweeps of it.                                *)
LEMMA SweepsSay ==
  ASSUME NEW series, SeriesTyped(series), NEW levels \in Seq(LevelSet)
  PROVE  \E S : /\ DetectSweeps(series, levels) \in Seq(S)
                /\ \A i \in DOMAIN DetectSweeps(series, levels) :
                        IsSweep(DetectSweeps(series, levels)[i], series)
<1> DEFINE found == [i \in DOMAIN levels |-> DetectSweep(series, levels[i])]
           places == {i \in DOMAIN found : found[i] # None}
           S == {found[i] : i \in DOMAIN found}
           sweeps == Pick(found, places)
<1>1. DetectSweeps(series, levels) = sweeps
  BY Zenon DEF DetectSweeps, Detected
<1>2. DOMAIN found = DOMAIN levels /\ Len(levels) \in Nat /\ DOMAIN levels = 1 .. Len(levels)
      /\ \A i \in DOMAIN levels : levels[i] \in LevelSet
  BY EntriesOf
<1>3. found \in Seq(S)
  BY <1>2
<1>4. places \in SUBSET (DOMAIN found)
  OBVIOUS
<1>5. \A i \in places : IsSweep(found[i], series)
  <2> SUFFICES ASSUME NEW i \in places PROVE IsSweep(found[i], series)
    OBVIOUS
  <2>1. found[i] = DetectSweep(series, levels[i]) /\ found[i] # None /\ levels[i] \in LevelSet
    BY <1>2
  <2> HIDE DEF found
  <2> QED BY <2>1, DetectedSweep
<1> HIDE DEF found, places, S
<1>6. /\ sweeps \in Seq(S)
      /\ \A i \in DOMAIN sweeps : \E p \in places : sweeps[i] = found[p]
  BY <1>3, <1>4, PickSays
<1> HIDE DEF sweeps
<1> QED BY <1>1, <1>5, <1>6

(* There is a strongest of sweeps.                                         *)
LEMMA StrongestTaken ==
  ASSUME NEW S, NEW sweeps \in Seq(S), sweeps # <<>>, NEW series, SeriesTyped(series),
         \A i \in DOMAIN sweeps : IsSweep(sweeps[i], series)
  PROVE  \E a \in DOMAIN sweeps : StrongestSweep(sweeps) = sweeps[a]
<1> DEFINE D == DOMAIN sweeps
           C == [a \in D |-> sweeps[a].confidence]
           V == [a \in D |-> sweeps[a].level.relevance]
           T == [a \in D |-> sweeps[a].at]
           Better(a, b) ==
             LET s == sweeps[a]
                 t == sweeps[b]
             IN  \/ s.confidence > t.confidence
                 \/ /\ s.confidence = t.confidence
                    /\ \/ s.level.relevance > t.level.relevance
                       \/ /\ s.level.relevance = t.level.relevance
                          /\ s.at < t.at \/ (s.at = t.at /\ a < b)
           Best(a, b) ==
             \/ C[a] > C[b]
             \/ /\ C[a] = C[b]
                /\ \/ V[a] > V[b]
                   \/ /\ V[a] = V[b]
                      /\ T[a] < T[b] \/ (T[a] = T[b] /\ a < b)
           R == {e \in D \X D : Best(e[1], e[2])}
<1>1. StrongestSweep(sweeps) = sweeps[CHOOSE a \in D : \A b \in D \ {a} : Better(a, b)]
  BY Zenon DEF StrongestSweep
<1>2. \A a, b \in D : Better(a, b) <=> Best(a, b)
  OBVIOUS
<1>3. \A a \in D : C[a] \in Int /\ V[a] \in Int /\ T[a] \in Int
  <2> SUFFICES ASSUME NEW a \in D PROVE C[a] \in Int /\ V[a] \in Int /\ T[a] \in Int
    OBVIOUS
  <2>1. IsSweep(sweeps[a], series)
    OBVIOUS
  <2>2. \A k \in DOMAIN series.candles : series.candles[k].at \in Int
    <3>1. series.candles \in Seq(Candle)
      BY DEF SeriesTyped
    <3>2. \A k \in DOMAIN series.candles : series.candles[k] \in Candle
      BY <3>1, EntriesOf
    <3> QED BY <3>2, CandleTyped
  <2>3. sweeps[a].confidence \in Int /\ sweeps[a].level.relevance \in Int /\ sweeps[a].at \in Int
    BY <2>1, <2>2 DEF IsSweep
  <2> QED BY <2>3
<1>4. D \subseteq Int /\ IsFiniteSet(D) /\ D # {}
  BY PlacesFinite
<1> HIDE DEF D, C, V, T, Better
<1>5. \A a, b \in D : <<a, b>> \in R <=> Best(a, b)
  OBVIOUS
<1>6. StrictOrderOn(D, R)
  <2>1. \A a \in D : ~Best(a, a)
    BY <1>3, <1>4
  <2>2. \A a, b, c \in D : Best(a, b) /\ Best(b, c) => Best(a, c)
    BY <1>3, <1>4
  <2>3. \A a, b \in D : a # b => Best(a, b) \/ Best(b, a)
    BY <1>3, <1>4
  <2> HIDE DEF Best, R
  <2>4. \A a \in D : <<a, a>> \notin R
    BY <1>5, <2>1
  <2>5. \A a, b, c \in D : <<a, b>> \in R /\ <<b, c>> \in R => <<a, c>> \in R
    BY <1>5, <2>2
  <2>6. \A a, b \in D : a # b => <<a, b>> \in R \/ <<b, a>> \in R
    BY <1>5, <2>3
  <2> QED BY <2>4, <2>5, <2>6 DEF StrictOrderOn
<1> HIDE DEF R
<1>7. PICK l \in D : \A m \in D : <<m, l>> \notin R
  BY <1>4, <1>6, FirstExists
<1>8. \A b \in D \ {l} : Better(l, b)
  BY <1>2, <1>5, <1>6, <1>7 DEF StrictOrderOn
<1> HIDE DEF Best
<1>9. (CHOOSE a \in D : \A b \in D \ {a} : Better(a, b)) \in D
  BY <1>8
<1> QED BY <1>1, <1>9 DEF D

-----------------------------------------------------------------------------
(* What the rules have seen when they find something.                      *)

(* What the rules read of the features.                                    *)
BundleTyped(bundle, series) ==
    /\ bundle.m15.swings \in Seq(SwingSet)
    /\ \A b \in bundle.m15.breaks : b.price \in Nat
    /\ bundle.levels \in Seq(LevelSet)
    /\ \E S : bundle.sweeps \in Seq(S)
    /\ \A i \in DOMAIN bundle.sweeps : IsSweep(bundle.sweeps[i], series)

(* The price that was broken is a natural number.                          *)
LEMMA BreaksTyped ==
  ASSUME NEW series, NEW swings \in Seq(SwingSet), NEW state
  PROVE  \A b \in BreakEvents(series, swings, state) : b.price \in Nat
<1>1. ASSUME NEW type, NEW above, NEW kind
      PROVE  \A b \in LastBreak(series, SwingsOf(swings, type), above, kind) : b.price \in Nat
  <2> DEFINE s == SwingsOf(swings, type)
             last == Last(s)
             confirmed == ClosesBeyond(series, last, above)
             at == ClosesAt(series, Min(confirmed))
  <2>1. CASE s = <<>>
    BY <2>1 DEF LastBreak
  <2>2. CASE s # <<>>
    <3>1. last.price \in Nat
      <4>1. s \in Seq(SwingSet)
        BY SwingsOfTyped
      <4> HIDE DEF s
      <4> QED BY <2>2, <4>1, LastSwing
    <3>2. LastBreak(series, s, above, kind) = BreakOf(series, last, confirmed, above, kind)
      BY <2>2, Zenon DEF LastBreak
    <3> HIDE DEF s, last, confirmed, at
    <3>3. BreakOf(series, last, confirmed, above, kind)
            \subseteq {[type |-> kind, above |-> above, price |-> last.price, at |-> at]}
      BY DEF BreakOf, at
    <3>4. \A b \in LastBreak(series, s, above, kind) : b.price \in Nat
      BY <3>1, <3>2, <3>3
    <3> QED BY <3>4 DEF s
  <2> QED BY <2>1, <2>2
<1> DEFINE high == LastBreak(series, SwingsOf(swings, "HIGH"), TRUE, BreakType(state, "BEARISH"))
           low == LastBreak(series, SwingsOf(swings, "LOW"), FALSE, BreakType(state, "BULLISH"))
<1>2. \A b \in high : b.price \in Nat
  BY <1>1
<1>3. \A b \in low : b.price \in Nat
  BY <1>1
<1>4. BreakEvents(series, swings, state) = high \cup low
  BY Zenon DEF BreakEvents
<1> HIDE DEF high, low
<1> QED BY <1>2, <1>3, <1>4

(* The features of a context have their types, and their sweeps are sweeps *)
(* of the five-minute series.                                              *)
LEMMA FeaturesTyped ==
  ASSUME NEW context, SeriesTyped(context.m5), SeriesTyped(context.m15)
  PROVE  BundleTyped(BuildFeatureBundle(context), context.m5)
<1> DEFINE swings == DetectSwings(context.m15)
           before == ClassifyState(RelationEvents(swings))
           breaks == BreakEvents(context.m15, swings, before)
           state == IF \E b \in breaks : b.type = "CHANGE_OF_CHARACTER"
                    THEN "TRANSITIONAL" ELSE before
           m15 == AnalyzeStructure(context.m15)
           levels == DetectLiquidityLevels(context.m15, swings)
           sweeps == DetectSweeps(context.m5, levels)
           bundle == BuildFeatureBundle(context)
<1>1. m15 = [swings |-> swings, breaks |-> breaks, state |-> state]
  BY Zenon DEF AnalyzeStructure, StructureOn, StructureOf, Structured
<1> HIDE DEF state, breaks, swings, m15
<1>2. m15.swings = swings /\ m15.breaks = breaks
  BY <1>1
<1>3. bundle = FeaturesOn(context, m15, levels)
  BY <1>2, Zenon DEF BuildFeatureBundle, FeaturesOf, m15, levels
<1> DEFINE h1 == AnalyzeStructure(context.h1)
           m5 == AnalyzeStructure(context.m5)
           momentum == ComputeMomentum(context.m5.candles)
           volume == RelativeVolume(context.m5.candles)
           percentile == AtrPercentile(context.h1.candles)
<1>4. bundle = [m15 |-> m15, h1 |-> h1, m5 |-> m5, levels |-> levels, sweeps |-> sweeps,
                momentum |-> momentum, volume |-> volume, percentile |-> percentile]
  BY <1>3, Zenon DEF FeaturesOn
<1> HIDE DEF h1, m5, momentum, volume, percentile, levels, sweeps, bundle
<1>5. bundle.m15 = m15 /\ bundle.levels = levels /\ bundle.sweeps = sweeps
  BY <1>4
<1>6. swings \in Seq(SwingSet)
  BY SwingsTyped DEF swings
<1>7. \A b \in breaks : b.price \in Nat
  BY <1>6, BreaksTyped DEF breaks
<1>8. levels \in Seq(LevelSet)
  BY <1>6, LiquidityTyped DEF levels
<1>9. /\ \E S : sweeps \in Seq(S)
      /\ \A i \in DOMAIN sweeps : IsSweep(sweeps[i], context.m5)
  BY <1>8, SweepsSay DEF sweeps
<1> QED BY <1>2, <1>5, <1>6, <1>7, <1>8, <1>9 DEF BundleTyped, bundle

-----------------------------------------------------------------------------

(* What a reversal has seen: a sweep away from which it trades, the        *)
(* reclaim, and the retest once it is confirmed.                           *)
ReversalSays(r, series) ==
    /\ r.rule = "SWEEP_REVERSAL" /\ r.level \in Nat
    /\ \E sweep :
            /\ IsSweep(sweep, series)
            /\ sweep.below = r.bullish /\ r.level = sweep.level.price
            /\ DetectReclaim(series, sweep) # None
            /\ r.confirmed =>
                EvaluateRetest(series, r.level, DetectReclaim(series, sweep).confirmedAt,
                               r.bullish) = "CONFIRMED"

(* A continuation reports a level with a price.                            *)
ContinuationSays(r) == r.rule = "CONTINUATION" /\ r.level \in Nat

(* What a breakout has seen: a close beyond its level, and the retest once *)
(* it is confirmed.                                                        *)
BreakoutSays(r, series) ==
    /\ r.rule = "RANGE_BREAKOUT" /\ r.level \in Nat
    /\ BreakTime(series, r.level, r.bullish) # None
    /\ r.confirmed =>
        EvaluateRetest(series, r.level, BreakTime(series, r.level, r.bullish), r.bullish)
            = "CONFIRMED"

(* A rule that fails says why.                                             *)
LEMMA FailureHasCode ==
  ASSUME NEW rule, NEW bullish, NEW code \in Failures
  PROVE  Fail(rule, bullish, code).code # None
<1>1. Fail(rule, bullish, code).code = code
  BY DEF Fail
<1> QED BY <1>1, AbsenceAssumption

(* What a rule finds is what it was told to report.                        *)
LEMMA FoundFields ==
  ASSUME NEW rule, NEW bullish, NEW level, NEW confirmed, NEW fractions, NEW r,
         r = Found(rule, bullish, level, confirmed, fractions)
  PROVE  /\ r.rule = rule /\ r.bullish = bullish /\ r.level = level
         /\ r.confirmed = confirmed
BY DEF Found

(* A reversal that is found stems from a sweep, in the direction away from *)
(* it.                                                                     *)
LEMMA ReversalWhenFound ==
  ASSUME NEW context, NEW bundle, BundleTyped(bundle, context.m5), SeriesTyped(context.m5),
         NEW regime, NEW bullish \in BOOLEAN, NEW r,
         r = SweepReversalRule(context, bundle, regime, bullish), r # None, r.code = None
  PROVE  ReversalSays(r, context.m5) /\ r.bullish = bullish
<1> DEFINE series == context.m5
           all == bundle.sweeps
           places == {i \in DOMAIN all : all[i].below = bullish}
           sweeps == Pick(all, places)
           sweep == StrongestSweep(sweeps)
           reclaim == DetectReclaim(series, sweep)
           retest == EvaluateRetest(series, sweep.level.price, reclaim.confirmedAt, bullish)
           confirmed == retest = "CONFIRMED"
           fractions == Fractions(context, bundle, regime, bullish, sweep.confidence,
                    Lesser(100, reclaim.confidence + (IF confirmed THEN 20 ELSE 0)))
<1>1. PICK S : all \in Seq(S)
  BY DEF BundleTyped
<1>2. \A i \in DOMAIN all : IsSweep(all[i], series)
  BY DEF BundleTyped
<1>3. places \in SUBSET (DOMAIN all) /\ \A i \in places : all[i].below = bullish
  OBVIOUS
<1>4. sweeps # <<>> /\ r = SweptLevel(context, bundle, regime, bullish, sweep)
  BY Zenon DEF SweepReversalRule
<1> HIDE DEF all, places, series
<1>5. /\ sweeps \in Seq(S)
      /\ \A i \in DOMAIN sweeps : \E p \in places : sweeps[i] = all[p]
  BY <1>1, <1>3, PickSays
<1> HIDE DEF sweeps
<1>6. \A i \in DOMAIN sweeps : IsSweep(sweeps[i], series) /\ sweeps[i].below = bullish
  BY <1>2, <1>3, <1>5
<1>7. SeriesTyped(series)
  BY DEF series
<1>8. PICK a \in DOMAIN sweeps : sweep = sweeps[a]
  BY <1>4, <1>5, <1>6, <1>7, StrongestTaken
<1> HIDE DEF sweep
<1>9. IsSweep(sweep, series) /\ sweep.below = bullish
  BY <1>6, <1>8
<1>10. \A rule, b : /\ Fail(rule, b, "SWEEP_UNCONFIRMED").code # None
                    /\ Fail(rule, b, "RECLAIM_UNCONFIRMED").code # None
  <2>1. "SWEEP_UNCONFIRMED" \in Failures /\ "RECLAIM_UNCONFIRMED" \in Failures
    BY DEF Failures
  <2> QED BY <2>1, FailureHasCode
<1>11. r = ReclaimedSweep(context, bundle, regime, bullish, sweep, reclaim)
  BY <1>4, <1>10, Zenon DEF SweptLevel, series
<1>12. reclaim # None /\ r = Reversal(context, bundle, regime, bullish, sweep, reclaim, retest)
  <2> HIDE DEF reclaim
  <2> QED BY <1>10, <1>11, Zenon DEF ReclaimedSweep, series
<1>13. r = Found("SWEEP_REVERSAL", bullish, sweep.level.price, confirmed, fractions)
  <2> HIDE DEF reclaim, retest
  <2> QED BY <1>10, <1>12, Zenon DEF Reversal
<1> HIDE DEF confirmed, fractions
<1>14. /\ r.rule = "SWEEP_REVERSAL" /\ r.bullish = bullish /\ r.level = sweep.level.price
       /\ r.confirmed = confirmed
  BY <1>13, FoundFields
<1>15. r.level \in Nat
  BY <1>9, <1>14 DEF IsSweep
<1>16. r.confirmed => EvaluateRetest(series, r.level, reclaim.confirmedAt, r.bullish)
                        = "CONFIRMED"
  BY <1>14 DEF confirmed, retest
<1> QED
  BY <1>9, <1>12, <1>14, <1>15, <1>16 DEF ReversalSays, reclaim, series

(* A continuation that is found is at a level with a price.                *)
LEMMA ContinuationWhenFound ==
  ASSUME NEW context, NEW bundle, BundleTyped(bundle, context.m5),
         NEW regime, NEW bullish \in BOOLEAN, NEW r,
         r = ContinuationRule(context, bundle, regime, bullish), r # None, r.code = None
  PROVE  ContinuationSays(r) /\ r.bullish = bullish
<1> DEFINE broken == {b \in bundle.m15.breaks : b.type = "BREAK_OF_STRUCTURE" /\ b.above}
           break == CHOOSE b \in broken : TRUE
           highs == SwingsOf(bundle.m15.swings, "HIGH")
<1>1. \A rule, b : /\ Fail(rule, b, "STRUCTURE_NOT_CONFIRMED").code # None
                   /\ Fail(rule, b, "REJECTION_UNCONFIRMED").code # None
  <2>1. "STRUCTURE_NOT_CONFIRMED" \in Failures /\ "REJECTION_UNCONFIRMED" \in Failures
    BY DEF Failures
  <2> QED BY <2>1, FailureHasCode
<1>2. ASSUME NEW level \in Nat, NEW confirmed, NEW confirmation,
             r = Continuation(context, bundle, regime, bullish, level, confirmed, confirmation)
      PROVE  ContinuationSays(r) /\ r.bullish = bullish
  <2> DEFINE fractions == Fractions(context, bundle, regime, bullish, 60, confirmation)
  <2>1. r = Found("CONTINUATION", bullish, level, confirmed, fractions)
    BY <1>2, Zenon DEF Continuation
  <2> HIDE DEF fractions
  <2>2. r.rule = "CONTINUATION" /\ r.bullish = bullish /\ r.level = level
    BY <2>1, FoundFields
  <2> QED BY <2>2 DEF ContinuationSays
<1>3. CASE bullish
  <2>1. r = UpwardContinuation(context, bundle, regime, broken)
    BY <1>3, Zenon DEF ContinuationRule
  <2>2. \A b \in broken : b.price \in Nat
    BY DEF BundleTyped
  <2> HIDE DEF broken
  <2> DEFINE retest == EvaluateRetest(context.m5, break.price, break.at, TRUE)
  <2>3. broken # {} /\ r = RetestedBreak(context, bundle, regime, break.price, retest)
    BY <1>1, <2>1, Zenon DEF UpwardContinuation
  <2>4. break \in broken
    BY <2>3
  <2> HIDE DEF break, retest
  <2> DEFINE confirmed == retest = "CONFIRMED"
             confirmation == IF retest = "CONFIRMED" THEN 80 ELSE 60
  <2>5. r = Continuation(context, bundle, regime, TRUE, break.price, confirmed, confirmation)
    BY <1>1, <2>3, Zenon DEF RetestedBreak
  <2>6. break.price \in Nat /\ bullish = TRUE
    BY <1>3, <2>2, <2>4
  <2> HIDE DEF confirmed, confirmation
  <2> QED BY <1>2, <2>5, <2>6
<1>4. CASE ~bullish
  <2>1. r = DownwardContinuation(context, bundle, regime, highs)
    BY <1>4, Zenon DEF ContinuationRule
  <2>2. highs \in Seq(SwingSet)
    BY SwingsOfTyped DEF BundleTyped
  <2> HIDE DEF highs
  <2>3. highs # <<>>
        /\ r = Continuation(context, bundle, regime, FALSE, Last(highs).price, TRUE, 80)
    BY <1>1, <2>1, Zenon DEF DownwardContinuation
  <2>4. Last(highs).price \in Nat /\ bullish = FALSE
    BY <1>4, <2>2, <2>3, LastSwing
  <2> QED BY <1>2, <2>3, <2>4
<1> QED BY <1>3, <1>4

(* A breakout that is found has closed beyond a bound of the range before  *)
(* it looks for the retest.                                                *)
LEMMA BreakoutWhenFound ==
  ASSUME NEW context, NEW bundle, BundleTyped(bundle, context.m5),
         NEW regime, NEW up \in BOOLEAN, NEW r,
         r = RangeBreakoutRule(context, bundle, regime, up), r # None, r.code = None
  PROVE  BreakoutSays(r, context.m5) /\ r.bullish = up
<1> DEFINE series == context.m5
           wanted == IF up THEN "RANGE_HIGH" ELSE "RANGE_LOW"
           all == bundle.levels
           places == {i \in DOMAIN all : all[i].type = wanted}
           levels == Pick(all, places)
           level == Head(levels)
           broken == BreakTime(series, level.price, up)
           retest == EvaluateRetest(series, level.price, broken, up)
           confirmed == retest = "CONFIRMED"
           fractions == Fractions(context, bundle, regime, up,
                Lesser(90, 50 + (level.relevance * 40) \div 100),
                IF retest = "CONFIRMED" THEN 70 ELSE 55)
<1>1. \A rule, b : Fail(rule, b, "STRUCTURE_NOT_CONFIRMED").code # None
  <2>1. "STRUCTURE_NOT_CONFIRMED" \in Failures
    BY DEF Failures
  <2> QED BY <2>1, FailureHasCode
<1>2. levels # <<>> /\ r = BrokenBoundary(context, bundle, regime, up, level, broken)
  BY Zenon DEF RangeBreakoutRule
<1>3. all \in Seq(LevelSet)
  BY DEF BundleTyped
<1>4. places \in SUBSET (DOMAIN all)
  OBVIOUS
<1> HIDE DEF all, places
<1>5. levels \in Seq(LevelSet)
  BY <1>3, <1>4, PickSays
<1> HIDE DEF levels
<1>6. level \in LevelSet
  BY <1>2, <1>5
<1> HIDE DEF level
<1>7. level.price \in Nat
  BY <1>6 DEF LevelSet
<1>8. broken # None /\ r = Breakout(context, bundle, regime, up, level, retest)
  <2> HIDE DEF broken
  <2> QED BY <1>1, <1>2, Zenon DEF BrokenBoundary
<1>9. r = Found("RANGE_BREAKOUT", up, level.price, confirmed, fractions)
  <2> HIDE DEF retest
  <2> QED BY <1>1, <1>8, Zenon DEF Breakout
<1> HIDE DEF confirmed, fractions
<1>10. /\ r.rule = "RANGE_BREAKOUT" /\ r.bullish = up /\ r.level = level.price
       /\ r.confirmed = confirmed
  BY <1>9, FoundFields
<1> QED
  BY <1>7, <1>8, <1>10 DEF BreakoutSays, confirmed, retest, broken

(* A candidate was found by one of the rules.                              *)
FoundBy(c, r, series) ==
    /\ ReversalSays(r, series) \/ ContinuationSays(r) \/ BreakoutSays(r, series)
    /\ c.rule = r.rule /\ c.level = r.level /\ c.bullish = r.bullish
    /\ c.state = "CONFIRMED" => r.confirmed

(* What the rules find that they do not reject is one of the three.        *)
LEMMA RulesSay ==
  ASSUME NEW context, SeriesTyped(context.m5), NEW bundle, BundleTyped(bundle, context.m5),
         NEW regime, NEW r \in EvaluateRules(context, bundle, regime), r.code = None
  PROVE  /\ r.bullish \in BOOLEAN /\ r.level \in Nat
         /\ \/ ReversalSays(r, context.m5) \/ ContinuationSays(r)
            \/ BreakoutSays(r, context.m5)
<1>1. r # None /\ \E bullish \in BOOLEAN :
            \/ r = SweepReversalRule(context, bundle, regime, bullish)
            \/ r = ContinuationRule(context, bundle, regime, bullish)
            \/ r = RangeBreakoutRule(context, bundle, regime, bullish)
  BY DEF EvaluateRules
<1>2. PICK bullish \in BOOLEAN :
            \/ r = SweepReversalRule(context, bundle, regime, bullish)
            \/ r = ContinuationRule(context, bundle, regime, bullish)
            \/ r = RangeBreakoutRule(context, bundle, regime, bullish)
  BY <1>1
<1>3. CASE r = SweepReversalRule(context, bundle, regime, bullish)
  <2>1. ReversalSays(r, context.m5) /\ r.bullish = bullish
    BY <1>1, <1>3, ReversalWhenFound
  <2> QED BY <2>1 DEF ReversalSays
<1>4. CASE r = ContinuationRule(context, bundle, regime, bullish)
  <2>1. ContinuationSays(r) /\ r.bullish = bullish
    BY <1>1, <1>4, ContinuationWhenFound
  <2> QED BY <2>1 DEF ContinuationSays
<1>5. CASE r = RangeBreakoutRule(context, bundle, regime, bullish)
  <2>1. BreakoutSays(r, context.m5) /\ r.bullish = bullish
    BY <1>1, <1>5, BreakoutWhenFound
  <2> QED BY <2>1 DEF BreakoutSays
<1> QED BY <1>2, <1>3, <1>4, <1>5

(* An evaluation that is rejected has no candidates.                       *)
LEMMA RejectedHasNone ==
  ASSUME NEW codes
  PROVE  Rejected(codes).candidates = {}
BY DEF Rejected

(* The candidates of an evaluation are built from results that passed.     *)
LEMMA ChosenSays ==
  ASSUME NEW context, NEW regime, NEW results, NEW outcomes, NEW passing,
         NEW c \in Chosen(context, regime, results, outcomes, passing).candidates
  PROVE  \E r \in passing : c = BuildCandidate(context, regime, r)
<1> DEFINE built == {BuildCandidate(context, regime, o) : o \in passing}
           best == BestPerDirection(built)
           codes == {r.code : r \in results \ outcomes}
                    \cup {MandatoryGate(o) : o \in outcomes \ passing}
<1>1. Chosen(context, regime, results, outcomes, passing)
        = [regime |-> regime.regime, candidates |-> best, rejections |-> codes]
  BY Zenon DEF Chosen
<1>2. best \subseteq built
  BY DEF BestPerDirection
<1>3. \A b \in built : \E r \in passing : b = BuildCandidate(context, regime, r)
  OBVIOUS
<1> HIDE DEF best, codes, built
<1>4. c \in best
  BY <1>1
<1> QED BY <1>2, <1>3, <1>4

(* A candidate keeps rule, direction and level of its result, and expires  *)
(* a fixed time after the evaluation.                                      *)
LEMMA CandidateFields ==
  ASSUME NEW context, NEW regime, NEW r
  PROVE  LET c == BuildCandidate(context, regime, r)
         IN  /\ c.rule = r.rule /\ c.bullish = r.bullish /\ c.level = r.level
             /\ c.expiryAt = context.asOf + Strategy.expireAfter * Width("5m")
             /\ c.state = "CONFIRMED" => r.confirmed
<1> DEFINE score == ComputeScore(r.fractions)
           state == IF r.confirmed THEN "CONFIRMED" ELSE "DETECTED"
           confidence == Lesser(95, Rounded(60 * score + 40 * regime.confidence, 100))
           expiryAt == context.asOf + Strategy.expireAfter * Width("5m")
           c == BuildCandidate(context, regime, r)
<1>1. c = [rule |-> r.rule, bullish |-> r.bullish, level |-> r.level, state |-> state,
           score |-> score, regime |-> regime.regime, confidence |-> confidence,
           expiryAt |-> expiryAt]
  BY Zenon DEF BuildCandidate
<1>2. state = "CONFIRMED" => r.confirmed
  OBVIOUS
<1> HIDE DEF score, state, confidence, expiryAt, c
<1>3. /\ c.rule = r.rule /\ c.bullish = r.bullish /\ c.level = r.level
      /\ c.expiryAt = expiryAt /\ c.state = state
  BY <1>1
<1> QED BY <1>2, <1>3 DEF c, expiryAt

(* The series the strategy reads.                                          *)
FiveMinutes(view) == Build("5m", view.candles5m, view.asOf)
(* The series of fifteen minutes.                                          *)
Fifteen(view) == Build("15m", view.candles15m, view.asOf)

(* What a candidate of an evaluation is.                                   *)
LEMMA CandidatesSay ==
  ASSUME NEW view, NEW c \in Evaluate(view).candidates,
         IsFiniteSet(view.candles5m), view.candles5m \subseteq Candle,
         IsFiniteSet(view.candles15m), view.candles15m \subseteq Candle
  PROVE  /\ FiveMinutes(view).ok /\ Fifteen(view).ok
         /\ SeriesTyped(FiveMinutes(view)) /\ SeriesTyped(Fifteen(view))
         /\ c.bullish \in BOOLEAN /\ c.level \in Nat
         /\ c.expiryAt = view.asOf + Strategy.expireAfter * Width("5m")
         /\ \E r : FoundBy(c, r, FiveMinutes(view))
<1> DEFINE m5 == FiveMinutes(view)
           m15 == Fifteen(view)
           h1 == Build("1h", view.candles1h, view.asOf)
           context == BuildEvaluationContext(view)
           bundle == BuildFeatureBundle(context)
           regime == ClassifyRegime(context, bundle)
           results == EvaluateRules(context, bundle, regime)
           outcomes == {r \in results : r.code = None}
           passing == {o \in outcomes : MandatoryGate(o) = None}
           yields == Evaluate(view)
<1>1. yields = EvaluateBuilt(context) /\ context = ContextOn(view, m5, m15, h1)
  BY Zenon DEF Evaluate, BuildEvaluationContext, FiveMinutes, Fifteen
<1>2. c \in yields.candidates
  OBVIOUS
<1> HIDE DEF m5, m15, h1, yields, context
<1>3. context.ok /\ yields = EvaluateContext(context)
  <2>1. ~context.ok => yields.candidates = {}
    BY <1>1, RejectedHasNone, Zenon DEF EvaluateBuilt
  <2> QED BY <1>1, <1>2, <2>1, Zenon DEF EvaluateBuilt
<1>4. m5.ok /\ m15.ok /\ context = EvaluationContext(view, m5, m15, h1)
  BY <1>1, <1>3, Zenon DEF ContextOn
<1>5. context.m5 = m5 /\ context.m15 = m15 /\ context.asOf = view.asOf
  BY <1>4 DEF EvaluationContext
<1>6. \A timeframe \in {"5m", "15m"} : Width(timeframe) \in Nat
  BY DEF Width
<1>7. \A series, S : S \subseteq Candle /\ series \in Seq(S) => series \in Seq(Candle)
  OBVIOUS
<1>8. SeriesTyped(m5)
  <2> DEFINE S == ClosedBy(view.candles5m, Width("5m"), view.asOf)
  <2>1. /\ m5.width = Width("5m") /\ Ordered(m5.candles, S) /\ m5.candles # <<>>
    BY <1>4, BuildSays DEF m5, FiveMinutes
  <2>2. S \subseteq Candle
    BY DEF ClosedBy
  <2> HIDE DEF S
  <2> QED BY <1>6, <1>7, <2>1, <2>2 DEF SeriesTyped, Ordered
<1>9. SeriesTyped(m15)
  <2> DEFINE S == ClosedBy(view.candles15m, Width("15m"), view.asOf)
  <2>1. /\ m15.width = Width("15m") /\ Ordered(m15.candles, S) /\ m15.candles # <<>>
    BY <1>4, BuildSays DEF m15, Fifteen
  <2>2. S \subseteq Candle
    BY DEF ClosedBy
  <2> HIDE DEF S
  <2> QED BY <1>6, <1>7, <2>1, <2>2 DEF SeriesTyped, Ordered
<1>10. BundleTyped(bundle, context.m5) /\ SeriesTyped(context.m5)
  BY <1>5, <1>8, <1>9, FeaturesTyped
<1> HIDE DEF bundle, regime
<1>11. yields = EvaluateFeatures(context, bundle)
  <2>1. FirstGate(context) # None => yields.candidates = {}
    BY <1>3, RejectedHasNone, Zenon DEF EvaluateContext
  <2> QED BY <1>2, <1>3, <2>1, Zenon DEF EvaluateContext, bundle
<1>12. yields = EvaluateResults(context, regime, results)
  <2>1. yields = EvaluateRegime(context, bundle, regime)
    BY <1>11, Zenon DEF EvaluateFeatures, regime
  <2>2. regime.regime \in DOMAIN Blocking => yields.candidates = {}
    <3> DEFINE name == regime.regime
               codes == {Blocking[name]}
    <3>1. name \in DOMAIN Blocking =>
            yields = [regime |-> name, candidates |-> {}, rejections |-> codes]
      BY <2>1, Zenon DEF EvaluateRegime
    <3> HIDE DEF name, codes
    <3>2. [regime |-> name, candidates |-> {}, rejections |-> codes].candidates = {}
      OBVIOUS
    <3>3. name \in DOMAIN Blocking => yields.candidates = {}
      BY <3>1, <3>2, Zenon
    <3> QED BY <3>3 DEF name
  <2> HIDE DEF results
  <2> QED BY <1>2, <2>1, <2>2, Zenon DEF EvaluateRegime, results
<1>13. yields = Chosen(context, regime, results, outcomes, passing)
  BY <1>12, Zenon DEF EvaluateResults, Gated
<1>14. \A r \in passing : r \in results /\ r.code = None
  OBVIOUS
<1> HIDE DEF passing, outcomes
<1>15. PICK r \in passing : c = BuildCandidate(context, regime, r)
  BY <1>2, <1>13, ChosenSays
<1>16. /\ r.bullish \in BOOLEAN /\ r.level \in Nat
       /\ \/ ReversalSays(r, m5) \/ ContinuationSays(r) \/ BreakoutSays(r, m5)
  <2>1. r \in EvaluateRules(context, bundle, regime) /\ r.code = None
    BY <1>14
  <2> QED BY <1>5, <1>10, <2>1, RulesSay
<1>17. /\ c.rule = r.rule /\ c.bullish = r.bullish /\ c.level = r.level
       /\ c.expiryAt = view.asOf + Strategy.expireAfter * Width("5m")
       /\ c.state = "CONFIRMED" => r.confirmed
  BY <1>5, <1>15, CandidateFields
<1>18. FoundBy(c, r, m5)
  BY <1>16, <1>17 DEF FoundBy
<1> QED BY <1>4, <1>8, <1>9, <1>16, <1>17, <1>18 DEF m5, m15

-----------------------------------------------------------------------------
(* What the strategy and the risk engine read of a day.                    *)

(* The candles a day has added: one after the other from the epoch on, each *)
(* of a shape of the day.                                                  *)
Added(d, added) ==
    /\ added \in Seq(Candle)
    /\ \A i \in DOMAIN added : /\ added[i].at = Epoch + i - 1
                               /\ \E shape \in d.shapes : added[i].close = shape.close

(* What a sequence of candles holds are finitely many candles.             *)
LEMMA CandlesFinite ==
  ASSUME NEW s \in Seq(Candle)
  PROVE  IsFiniteSet(ToSet(s)) /\ ToSet(s) \subseteq Candle
BY EntriesFinite DEF ToSet

(* Three candles of five minutes make up one of fifteen.                   *)
LEMMA QuarterTyped ==
  ASSUME NEW three \in Seq(Candle), Len(three) = 3
  PROVE  Quarter(three) \in Candle
<1> DEFINE high == Max(Highs(three))
           low == Min(Lows(three))
           a == three[1]
           b == three[2]
           c == three[3]
           volume == a.volume + b.volume + c.volume
<1>1. 1 \in DOMAIN three /\ 2 \in DOMAIN three /\ 3 \in DOMAIN three /\ three # <<>>
  OBVIOUS
<1>2. a \in Candle /\ b \in Candle /\ c \in Candle
  BY <1>1, EntriesOf
<1>3. /\ high \in Nat /\ low \in Nat
      /\ \A i \in DOMAIN three : three[i].high <= high /\ low <= three[i].low
  BY <1>1, ExtremesNat
<1>4. a.high <= high /\ low <= a.low /\ c.high <= high /\ low <= c.low
  BY <1>1, <1>3
<1>5. Quarter(three) = [at |-> a.at, open |-> a.open, close |-> c.close, high |-> high,
                        low |-> low, volume |-> volume]
  BY DEF Quarter
<1> HIDE DEF high, low, a, b, c
<1>6. /\ a.at \in Nat /\ a.open \in Nat /\ c.close \in Nat /\ volume \in Nat
      /\ a.low \in Nat /\ a.high \in Nat /\ c.low \in Nat /\ c.high \in Nat
      /\ a.low <= a.open /\ a.open <= a.high /\ c.low <= c.close /\ c.close <= c.high
  BY <1>2, CandleTyped
<1> HIDE DEF volume
<1>7. a.open \in low .. high /\ c.close \in low .. high
  BY <1>3, <1>4, <1>6
<1> QED BY <1>3, <1>5, <1>6, <1>7 DEF Candle

(* The quarters of an hour made of the added candles are candles, after    *)
(* the stored ones.                                                        *)
LEMMA QuartersTyped ==
  ASSUME NEW d \in Days, NEW added \in Seq(Candle)
  PROVE  Quarters(d, added) \in Seq(Candle)
<1> DEFINE n == Len(added) \div 3
           quarters == [k \in 1 .. n |-> Quarter(SubSeq(added, 3 * k - 2, 3 * k))]
<1>1. n \in Nat /\ 3 * n <= Len(added)
  OBVIOUS
<1> HIDE DEF n
<1>2. ASSUME NEW k \in 1 .. n
      PROVE  Quarter(SubSeq(added, 3 * k - 2, 3 * k)) \in Candle
  <2> DEFINE three == SubSeq(added, 3 * k - 2, 3 * k)
  <2>1. /\ k \in Nat /\ 3 * k - 2 \in Int /\ 3 * k \in Int
        /\ 1 <= 3 * k - 2 /\ 3 * k <= Len(added)
    BY <1>1
  <2>2. three \in Seq(Candle) /\ Len(three) = 3
    BY <2>1
  <2> HIDE DEF three
  <2>3. Quarter(three) \in Candle
    BY <2>2, QuarterTyped
  <2> QED BY <2>3 DEF three
<1>3. quarters \in Seq(Candle)
  BY <1>1, <1>2
<1>4. d.m15 \in Seq(Candle)
  BY DaysAssumption DEF History
<1>5. Quarters(d, added) = d.m15 \o quarters
  BY DEF Quarters, n
<1> HIDE DEF quarters
<1> QED BY <1>3, <1>4, <1>5

(* What the strategy reads of a day.                                       *)
LEMMA StrategyViewSays ==
  ASSUME NEW d \in Days, NEW added \in Seq(Candle), NEW around
  PROVE  LET view == StrategyView(d, added, around)
         IN  /\ view.candles5m = {c \in ToSet(d.m5 \o added) : c.at # around.missing}
             /\ view.candles15m = ToSet(Quarters(d, added))
             /\ view.asOf = Epoch + Len(added)
             /\ IsFiniteSet(view.candles5m) /\ view.candles5m \subseteq Candle
             /\ IsFiniteSet(view.candles15m) /\ view.candles15m \subseteq Candle
<1> DEFINE five == {c \in ToSet(d.m5 \o added) : c.at # around.missing}
           fifteen == ToSet(Quarters(d, added))
           hour == ToSet(d.h1)
           asOf == Epoch + Len(added)
           view == StrategyView(d, added, around)
<1>1. view = Joined([candles5m |-> five, candles15m |-> fifteen, candles1h |-> hour,
                     asOf |-> asOf], around)
  BY Zenon DEF StrategyView
<1> HIDE DEF five, fifteen, hour, asOf
<1>2. /\ view.candles5m = five /\ view.candles15m = fifteen /\ view.asOf = asOf
  BY <1>1 DEF Joined
<1>3. IsFiniteSet(five) /\ five \subseteq Candle
  <2>1. d.m5 \in Seq(Candle)
    BY DaysAssumption DEF History
  <2>2. d.m5 \o added \in Seq(Candle)
    BY <2>1
  <2>3. IsFiniteSet(ToSet(d.m5 \o added)) /\ ToSet(d.m5 \o added) \subseteq Candle
    <3> DEFINE all == d.m5 \o added
    <3> HIDE DEF all
    <3>1. all \in Seq(Candle)
      BY <2>2 DEF all
    <3>2. IsFiniteSet(ToSet(all)) /\ ToSet(all) \subseteq Candle
      BY <3>1, CandlesFinite, Zenon
    <3> QED BY <3>2 DEF all
  <2>4. five \subseteq ToSet(d.m5 \o added)
    BY DEF five
  <2> QED BY <2>3, <2>4, FS_Subset
<1>4. IsFiniteSet(fifteen) /\ fifteen \subseteq Candle
  <2> DEFINE quarters == Quarters(d, added)
  <2>1. quarters \in Seq(Candle)
    BY QuartersTyped
  <2> HIDE DEF quarters
  <2>2. IsFiniteSet(ToSet(quarters)) /\ ToSet(quarters) \subseteq Candle
    BY <2>1, CandlesFinite, Zenon
  <2> QED BY <2>2 DEF fifteen, quarters
<1> HIDE DEF view
<1>5. /\ view.candles5m = five /\ view.candles15m = fifteen /\ view.asOf = asOf
      /\ IsFiniteSet(view.candles5m) /\ view.candles5m \subseteq Candle
      /\ IsFiniteSet(view.candles15m) /\ view.candles15m \subseteq Candle
  BY <1>2, <1>3, <1>4
<1> QED BY <1>5 DEF view, five, fifteen, asOf

(* A stored level has a price and a relevance.                             *)
StoredSet == [kind : LevelTypes, price : Nat, relevance : Int]

(* Two sequences one after the other are one.                              *)
LEMMA ConcatTyped ==
  ASSUME NEW T, NEW a \in Seq(T), NEW b \in Seq(T)
  PROVE  a \o b \in Seq(T)
OBVIOUS

(* The stored levels of a series are prices with a relevance.              *)
LEMMA LevelsInTyped ==
  ASSUME NEW series, SeriesTyped(series)
  PROVE  LevelsIn(series) \in Seq(StoredSet)
<1> DEFINE swings == DetectSwings(series)
           n == Len(swings)
           older == [i \in DOMAIN swings |-> StoredSwing(swings, swings[n + 1 - i])]
           levels == DetectLiquidityLevels(series, swings)
           others == StoredLiquidity(levels)
<1>1. swings \in Seq(SwingSet)
  BY SwingsTyped
<1>2. LevelsIn(series) = older \o others
  BY Zenon DEF LevelsIn, StoredLevels
<1> HIDE DEF swings
<1>3. n \in Nat /\ DOMAIN swings = 1 .. n
  BY <1>1
<1>4. older \in Seq(StoredSet)
  <2>1. ASSUME NEW i \in DOMAIN swings
        PROVE  StoredSwing(swings, swings[n + 1 - i]) \in StoredSet
    <3> DEFINE swing == swings[n + 1 - i]
               kind == IF swing.type = "HIGH" THEN "SWING_HIGH" ELSE "SWING_LOW"
               relevance == Relevance(swings, swing)
               price == swing.price
    <3>1. n + 1 - i \in DOMAIN swings /\ swings # <<>>
      BY <1>1, <1>3
    <3>2. swing \in SwingSet
      BY <1>1, <3>1, EntriesOf
    <3>3. relevance \in Int
      BY <1>1, <3>1, RelevanceInt
    <3>4. kind \in LevelTypes
      BY DEF LevelTypes
    <3>5. StoredSwing(swings, swing) = [kind |-> kind, price |-> price, relevance |-> relevance]
      BY Zenon DEF StoredSwing, StoredLevel
    <3>6. price \in Nat
      BY <3>2 DEF SwingSet
    <3> HIDE DEF kind, relevance, price
    <3>7. [kind |-> kind, price |-> price, relevance |-> relevance] \in StoredSet
      BY <3>3, <3>4, <3>6 DEF StoredSet
    <3> QED BY <3>5, <3>7, Zenon
  <2> HIDE DEF n
  <2>2. DOMAIN older = 1 .. n
    BY <1>3
  <2>3. \A i \in 1 .. n : older[i] \in StoredSet
    BY <1>3, <2>1
  <2> HIDE DEF n, older
  <2>4. older = [i \in 1 .. n |-> older[i]]
    BY <1>3, <2>2 DEF older
  <2> QED BY <1>3, <2>2, <2>3, <2>4
<1>5. others \in Seq(StoredSet)
  <2>1. levels \in Seq(LevelSet)
    BY <1>1, LiquidityTyped
  <2> HIDE DEF levels
  <2>2. ASSUME NEW i \in DOMAIN levels
        PROVE  StoredLevel(levels[i].type, levels[i].price, levels[i].relevance) \in StoredSet
    <3>1. levels[i] \in LevelSet
      BY <2>1, EntriesOf
    <3> QED BY <3>1 DEF StoredLevel, StoredSet, LevelSet
  <2>3. others = [i \in DOMAIN levels |->
                    StoredLevel(levels[i].type, levels[i].price, levels[i].relevance)]
    BY DEF StoredLiquidity
  <2>4. \E m \in Nat : DOMAIN levels = 1 .. m
    BY <2>1
  <2> HIDE DEF others
  <2> QED BY <2>2, <2>3, <2>4
<1> HIDE DEF older, others
<1>6. older \o others \in Seq(StoredSet)
  BY <1>4, <1>5, ConcatTyped
<1> QED BY <1>2, <1>6

(* What the risk job reads is of this kind.                                *)
ViewTyped(view) ==
    /\ view.candidate.bullish \in BOOLEAN
    /\ view.candidate.level \in Int
    /\ view.candidate.expiryAt \in Int /\ view.asOf \in Int
    /\ view.bbo # None => view.bbo.bid \in Nat \ {0} /\ view.bbo.ask \in Nat \ {0}
    /\ InstrumentTyped(view.instrument)
    /\ view.atr # None => view.atr \in Nat
    /\ view.levels \in Seq(StoredSet)
    /\ BookTyped(view.book)
    /\ view.funding.rate # None => view.funding.rate \in Int
    /\ view.funding.history \in Seq(Int)
    /\ view.funding.next # None => view.funding.next \in Nat

(* The levels of the context are finitely many, each with a rank of its own. *)
LEMMA ContextLevels ==
  ASSUME NEW found \in Seq(StoredSet)
  PROVE  LevelsTyped({[price |-> found[i].price, rank |-> i, relevance |-> found[i].relevance] :
                        i \in Levels(found)})
<1> DEFINE S == Levels(found)
           f == [i \in S |-> [price |-> found[i].price, rank |-> i,
                              relevance |-> found[i].relevance]]
           T == {f[i] : i \in S}
<1>1. S \in SUBSET (DOMAIN found)
  BY DEF Levels
<1>2. IsFiniteSet(S) /\ S \in SUBSET Int
  BY <1>1, PlacesFinite
<1>3. \A i \in S : f[i] \in [price : Int, rank : Nat, relevance : Int] /\ f[i].rank = i
  <2> SUFFICES ASSUME NEW i \in S
               PROVE  f[i] \in [price : Int, rank : Nat, relevance : Int] /\ f[i].rank = i
    OBVIOUS
  <2>1. i \in DOMAIN found /\ i \in Nat
    BY <1>1
  <2>2. found[i] \in StoredSet
    BY <2>1, EntriesOf
  <2>3. found[i].price \in Nat /\ found[i].relevance \in Int
    BY <2>2 DEF StoredSet
  <2> HIDE DEF S
  <2> QED BY <2>1, <2>3
<1>4. {[price |-> found[i].price, rank |-> i, relevance |-> found[i].relevance] : i \in S} = T
  OBVIOUS
<1> HIDE DEF S, f
<1>5. IsFiniteSet(T)
  BY <1>2, ImageFinite
<1>6. T \in SUBSET [price : Int, rank : Nat, relevance : Int]
  BY <1>3
<1>7. \A a, b \in T : a.rank = b.rank => a = b
  BY <1>3
<1> HIDE DEF T
<1>8. LevelsTyped(T)
  BY <1>5, <1>6, <1>7, Zenon DEF LevelsTyped
<1> QED BY <1>4, <1>8 DEF S

(* What the risk engine makes of what the risk job reads.                  *)
LEMMA ContextSays ==
  ASSUME NEW view, ViewTyped(view)
  PROVE  LET context == BuildContext(view)
         IN  /\ ContextTyped(context)
             /\ context.candidate = view.candidate /\ context.instrument = view.instrument
             /\ context.asOf = view.asOf
<1> DEFINE fresh == view.book.reliable /\ Fresh(view.book.freshness)
           book == [fresh |-> fresh, asks |-> view.book.asks, bids |-> view.book.bids]
           bothSides == book.asks # <<>> /\ book.bids # <<>>
           reference == IF view.instrument.mark # None THEN view.instrument.mark
                        ELSE IF bothSides
                        THEN (book.bids[1].price + book.asks[1].price) \div 2 ELSE None
           spread == IF bothSides /\ book.bids[1].price > 0
                     THEN (2 * (book.asks[1].price - book.bids[1].price) * BPS)
                             \div (book.bids[1].price + book.asks[1].price)
                     ELSE None
           bboFresh == view.bbo # None /\ Fresh(view.bboFreshness)
           qualityOk == \/ view.quality = "HEALTHY"
                        \/ view.quality = "DEGRADED" /\ RiskDefaults.degradedAllowed
           levels == {[price |-> view.levels[i].price, rank |-> i,
                       relevance |-> view.levels[i].relevance] : i \in Levels(view.levels)}
           funding == FundingOf(view.funding)
           overnight == OvernightRisk(view.candidate, view.remaining)
           context == BuildContext(view)
<1>1. context = [candidate |-> view.candidate, instrument |-> view.instrument, book |-> book,
                 reference |-> reference, spreadBps |-> spread, bboFresh |-> bboFresh,
                 bbo |-> view.bbo, qualityOk |-> qualityOk, levels |-> levels,
                 funding |-> funding, feeSchedule |-> view.feeSchedule, atr |-> view.atr,
                 overnight |-> overnight, watched |-> view.watched, paused |-> view.paused,
                 sessionAllowed |-> view.sessionAllowed, asOf |-> view.asOf]
  BY Zenon DEF BuildContext
<1>2. LevelsTyped(levels)
  <2>1. view.levels \in Seq(StoredSet)
    BY DEF ViewTyped
  <2> QED BY <2>1, ContextLevels
<1>3. BookTyped(book)
  <2> HIDE DEF fresh
  <2>1. book.asks = view.book.asks /\ book.bids = view.book.bids
    OBVIOUS
  <2> QED BY <2>1, Zenon DEF ViewTyped, BookTyped
<1>4. FundingTyped(funding)
  <2> DEFINE f == view.funding
             maxAge == Larger(2 * f.interval, 2)
             live == f.rate # None /\ f.rateAge # None /\ f.rateAge <= maxAge
             recorded == f.history # <<>> /\ f.historyAge <= maxAge
             current == IF live THEN f.rate ELSE None
             isFresh == live \/ recorded
  <2>1. funding = [current |-> current, history |-> f.history, next |-> f.next,
                   fresh |-> isFresh]
    BY Zenon DEF FundingOf
  <2>2. current # None => current \in Int
    BY DEF ViewTyped
  <2> HIDE DEF current, isFresh, funding
  <2>3. funding.current = current /\ funding.history = f.history /\ funding.next = f.next
    BY <2>1
  <2>4. f.history \in Seq(Int) /\ (f.next # None => f.next \in Nat)
    BY DEF ViewTyped
  <2> HIDE DEF f
  <2> QED BY <2>2, <2>3, <2>4 DEF FundingTyped
<1>5. bboFresh => view.bbo # None
  OBVIOUS
<1> HIDE DEF book, reference, spread, bboFresh, qualityOk, levels, funding, overnight, context
<1>6. /\ context.candidate = view.candidate /\ context.instrument = view.instrument
      /\ context.book = book /\ context.bboFresh = bboFresh /\ context.bbo = view.bbo
      /\ context.levels = levels /\ context.funding = funding /\ context.atr = view.atr
      /\ context.asOf = view.asOf
  BY <1>1
<1>7. ContextTyped(context)
  <2>1. /\ context.candidate.bullish \in BOOLEAN
        /\ context.candidate.level \in Int
        /\ context.candidate.expiryAt \in Int /\ context.asOf \in Int
    BY <1>6, Zenon DEF ViewTyped
  <2>2. context.bboFresh =>
            context.bbo.bid \in Nat \ {0} /\ context.bbo.ask \in Nat \ {0}
    BY <1>5, <1>6, Zenon DEF ViewTyped
  <2>3. /\ InstrumentTyped(context.instrument)
        /\ context.atr # None => context.atr \in Nat
    BY <1>6, Zenon DEF ViewTyped
  <2>4. LevelsTyped(context.levels) /\ BookTyped(context.book)
        /\ FundingTyped(context.funding)
    BY <1>2, <1>3, <1>4, <1>6, Zenon
  <2> QED BY <2>1, <2>2, <2>3, <2>4, Zenon DEF ContextTyped
<1> QED BY <1>6, <1>7 DEF context

(* The market around a close that can be last: its instrument, its book and *)
(* its best prices.                                                        *)
LEMMA AroundTyped ==
  ASSUME NEW market \in Markets, NEW d \in Days, NEW shape \in d.shapes
  PROVE  LET around == MarketAround(market, shape.close)
         IN  /\ InstrumentTyped(around.instrument)
             /\ BookTyped(around.book)
             /\ around.bbo # None => /\ around.bbo.bid \in Nat \ {0}
                                     /\ around.bbo.ask \in Nat \ {0}
<1> DEFINE close == shape.close
           i == market.instrument
           mark == IF i.mark = None THEN None ELSE close + i.mark
           instrument == [i EXCEPT !.mark = mark]
           bbo == IF market.bbo = None THEN None
                  ELSE [bid |-> close + market.bbo.bid, ask |-> close + market.bbo.ask]
           asks == Depth(market.book.asks, close)
           bids == Depth(market.book.bids, close)
           book == [market.book EXCEPT !.bids = bids, !.asks = asks]
           around == MarketAround(market, close)
<1>1. around = [instrument |-> instrument, bbo |-> bbo, book |-> book]
  BY DEF MarketAround
<1>2. market \in MarketSet /\ shape \in Shape
  BY MarketsAssumption, DaysAssumption
<1>3. close \in Nat
  BY <1>2 DEF Shape
<1>4. i \in InstrumentSet /\ market.book \in BookSet
      /\ market.bbo \in [bid : Int, ask : Int] \cup {None}
  BY <1>2 DEF MarketSet
<1>5. /\ i.mark # None => close + i.mark > 0
      /\ market.bbo # None => /\ close + market.bbo.bid > 0
                              /\ close + market.bbo.ask > 0
      /\ asks \in Seq(DepthLevel) /\ bids \in Seq(DepthLevel)
  BY MarketsAssumption
<1> HIDE DEF close, i, asks, bids
<1>6. InstrumentTyped(instrument)
  <2>1. mark # None => mark \in Nat \ {0}
    BY <1>3, <1>4, <1>5 DEF InstrumentSet
  <2> HIDE DEF mark
  <2>2. /\ i.tick \in Nat \ {0} /\ i.tiers \in Seq([bound : Nat, maxLeverage : Nat])
        /\ i.minNotional # None => i.minNotional \in Nat
        /\ i.maxLeverage # None => i.maxLeverage \in Nat
        /\ i.initial # None => i.initial \in Nat
        /\ i.maintenance # None => i.maintenance \in Nat
    BY <1>4 DEF InstrumentSet
  <2>3. /\ instrument.mark = mark /\ instrument.tick = i.tick
        /\ instrument.minNotional = i.minNotional
        /\ instrument.maxLeverage = i.maxLeverage /\ instrument.initial = i.initial
        /\ instrument.maintenance = i.maintenance /\ instrument.tiers = i.tiers
    BY <1>4 DEF InstrumentSet
  <2> HIDE DEF instrument
  <2> QED BY <2>1, <2>2, <2>3, Zenon DEF InstrumentTyped
<1>7. BookTyped(book)
  <2>1. book.asks = asks /\ book.bids = bids
    BY <1>4 DEF BookSet
  <2> HIDE DEF book
  <2> QED BY <1>5, <2>1, Zenon DEF BookTyped
<1>8. bbo # None => bbo.bid \in Nat \ {0} /\ bbo.ask \in Nat \ {0}
  BY <1>3, <1>4, <1>5
<1> HIDE DEF instrument, bbo, book, around
<1>9. around.instrument = instrument /\ around.bbo = bbo /\ around.book = book
  BY <1>1
<1>10. /\ InstrumentTyped(around.instrument)
       /\ BookTyped(around.book)
       /\ around.bbo # None => /\ around.bbo.bid \in Nat \ {0}
                               /\ around.bbo.ask \in Nat \ {0}
  BY <1>6, <1>7, <1>8, <1>9, Zenon
<1> QED BY <1>10 DEF around, close

(* What the risk job reads of a candidate and a market.                    *)
LEMMA RiskViewTyped ==
  ASSUME day \in Days, Added(day, candles), candles # <<>>,
         NEW market \in Markets, NEW c,
         c.bullish \in BOOLEAN, c.level \in Nat, c.expiryAt \in Int,
         SeriesTyped(Build("15m", ToSet(Quarters(day, candles)), Now))
  PROVE  LET view == RiskView(c, market, Last(candles).close)
         IN  /\ ViewTyped(view)
             /\ view.candidate.bullish = c.bullish /\ view.candidate.level = c.level
             /\ view.candidate.state = c.state /\ view.candidate.expiryAt = c.expiryAt
             /\ view.candidate.assetClass = view.assetClass
<1> DEFINE close == Last(candles).close
           snapshot == Snapshot(c, market)
           stored == LevelsIn(Build("15m", ToSet(Quarters(day, candles)), Now))
           levels == IF market.blind THEN <<>> ELSE stored
           asOf == Now + market.delay
           around == MarketAround(market, close)
           view == RiskView(c, market, close)
<1>1. view = Joined([candidate |-> snapshot, levels |-> levels, asOf |-> asOf],
                    Joined(around, market))
  BY Zenon DEF RiskView
<1>2. PICK shape \in day.shapes : close = shape.close
  <2>1. Len(candles) \in DOMAIN candles
    BY DEF Added
  <2>2. Last(candles) = candles[Len(candles)]
    BY DEF Last
  <2> QED BY <2>1, <2>2 DEF Added
<1>3. /\ InstrumentTyped(around.instrument)
      /\ BookTyped(around.book)
      /\ around.bbo # None => /\ around.bbo.bid \in Nat \ {0}
                              /\ around.bbo.ask \in Nat \ {0}
  <2> HIDE DEF close
  <2>1. LET a == MarketAround(market, shape.close)
        IN  /\ InstrumentTyped(a.instrument)
            /\ BookTyped(a.book)
            /\ a.bbo # None => a.bbo.bid \in Nat \ {0} /\ a.bbo.ask \in Nat \ {0}
    BY AroundTyped
  <2> QED BY <1>2, <2>1
<1>4. levels \in Seq(StoredSet)
  <2>1. stored \in Seq(StoredSet)
    BY LevelsInTyped
  <2>2. <<>> \in Seq(StoredSet)
    OBVIOUS
  <2> HIDE DEF stored
  <2> QED BY <2>1, <2>2
<1>5. market \in MarketSet
  BY MarketsAssumption
<1>6. asOf \in Int
  <2>1. market.delay \in Nat
    BY <1>5 DEF MarketSet
  <2>2. Len(candles) \in Nat /\ Epoch \in Nat
    BY DaysAssumption DEF Added
  <2> QED BY <2>1, <2>2 DEF Now
<1>7. /\ market.funding.rate # None => market.funding.rate \in Int
      /\ market.funding.history \in Seq(Int)
      /\ market.funding.next # None => market.funding.next \in Nat
      /\ market.atr # None => market.atr \in Nat
  <2>1. market.funding \in FundingSet /\ market.atr \in Nat \cup {None}
    BY <1>5 DEF MarketSet
  <2> QED BY <2>1 DEF FundingSet
<1>8. /\ snapshot.bullish = c.bullish /\ snapshot.level = c.level
      /\ snapshot.state = c.state /\ snapshot.expiryAt = c.expiryAt
      /\ snapshot.assetClass = market.assetClass
  <2> DEFINE type == IF c.rule = "CONTINUATION" THEN "continuation" ELSE "other"
  <2>1. snapshot = [state |-> c.state, bullish |-> c.bullish, type |-> type,
                    level |-> c.level, expiryAt |-> c.expiryAt,
                    assetClass |-> market.assetClass, volatile |-> market.volatile]
    BY Zenon DEF Snapshot
  <2> HIDE DEF snapshot, type
  <2> QED BY <2>1
<1>d. DOMAIN around = {"instrument", "bbo", "book"}
  BY DEF MarketAround
<1>m. DOMAIN market = {"assetClass", "volatile", "blind", "delay", "instrument", "book",
                       "funding", "bbo", "bboFreshness", "quality", "feeSchedule", "atr",
                       "remaining", "watched", "paused", "sessionAllowed"}
  BY <1>5 DEF MarketSet
<1> HIDE DEF close, snapshot, stored, levels, asOf, around, view
<1> DEFINE inner == Joined(around, market)
<1>9. /\ inner.instrument = around.instrument /\ inner.bbo = around.bbo
      /\ inner.book = around.book
      /\ inner.atr = market.atr /\ inner.funding = market.funding
      /\ inner.assetClass = market.assetClass
  BY <1>d, <1>m DEF Joined
<1>i. DOMAIN inner = {"instrument", "bbo", "book"} \cup DOMAIN market
  BY <1>d DEF Joined
<1> HIDE DEF inner
<1>10. /\ view.candidate = snapshot /\ view.levels = levels /\ view.asOf = asOf
       /\ view.instrument = inner.instrument /\ view.bbo = inner.bbo /\ view.book = inner.book
       /\ view.atr = inner.atr /\ view.funding = inner.funding
       /\ view.assetClass = inner.assetClass
  <2>1. view = Joined([candidate |-> snapshot, levels |-> levels, asOf |-> asOf], inner)
    BY <1>1 DEF inner
  <2> QED BY <1>i, <1>m, <2>1 DEF Joined
<1>11. ViewTyped(view)
  <2>1. /\ view.candidate.bullish \in BOOLEAN /\ view.candidate.level \in Int
        /\ view.candidate.expiryAt \in Int /\ view.asOf \in Int
    BY <1>6, <1>8, <1>10
  <2>2. /\ view.bbo # None => view.bbo.bid \in Nat \ {0} /\ view.bbo.ask \in Nat \ {0}
        /\ InstrumentTyped(view.instrument) /\ BookTyped(view.book)
    BY <1>3, <1>9, <1>10, Zenon
  <2>3. /\ view.atr # None => view.atr \in Nat
        /\ view.levels \in Seq(StoredSet)
        /\ view.funding.rate # None => view.funding.rate \in Int
        /\ view.funding.history \in Seq(Int)
        /\ view.funding.next # None => view.funding.next \in Nat
    BY <1>4, <1>7, <1>9, <1>10, Zenon
  <2> QED BY <2>1, <2>2, <2>3, Zenon DEF ViewTyped
<1> QED BY <1>8, <1>9, <1>10, <1>11 DEF view, close

-----------------------------------------------------------------------------
(* The invariant: every answer stems from the candles there are.           *)

(* The plan that was asked for is the engine's answer to one of the        *)
(* confirmed candidates of the last evaluation on one of the markets.      *)
AskedFor(c, market) ==
    /\ c.state = "CONFIRMED"
    /\ \E view \in {RiskView(c, market, Last(candles).close)} :
            proposal = [candidate |-> c, view |-> view,
                        result |-> EvaluateCandidate(BuildContext(view))]

(* What the rules and the risk engine have said is what they say of the    *)
(* candles of the day.                                                     *)
Traced ==
    /\ day \in Days
    /\ Added(day, candles) /\ Len(candles) <= MaxCandles
    /\ \/ outcome.candidates = {}
       \/ /\ candles # <<>>
          /\ \E around \in Surroundings :
                outcome = Evaluate(StrategyView(day, candles, around))
    /\ \/ proposal = None
       \/ \E c \in outcome.candidates, market \in Markets : AskedFor(c, market)

(* A day has added nothing when it starts.                                 *)
LEMMA NothingAdded ==
  ASSUME NEW d \in Days
  PROVE  Added(d, <<>>) /\ Len(<<>>) <= MaxCandles
<1>1. <<>> \in Seq(Candle) /\ DOMAIN <<>> = {} /\ Len(<<>>) = 0
  OBVIOUS
<1>2. MaxCandles \in Nat
  BY DaysAssumption
<1> QED BY <1>1, <1>2 DEF Added

(* The candle that closes is the next one.                                 *)
LEMMA NextAdded ==
  ASSUME day \in Days, Added(day, candles), NEW shape \in day.shapes
  PROVE  LET after == Append(candles, Joined([at |-> Now], shape))
         IN  Added(day, after) /\ Len(after) = Len(candles) + 1 /\ after # <<>>
<1> DEFINE candle == Joined([at |-> Now], shape)
           after == Append(candles, candle)
           n == Len(candles)
<1>1. candles \in Seq(Candle) /\ n \in Nat /\ DOMAIN candles = 1 .. n /\ Epoch \in Nat
  BY DaysAssumption DEF Added
<1>2. Now = Epoch + n /\ Now \in Nat
  BY <1>1 DEF Now
<1>3. shape \in Shape
  BY DaysAssumption
<1>4. candle \in Candle /\ candle.at = Now /\ candle.close = shape.close
  BY <1>2, <1>3 DEF Joined, Shape, Candle
<1> HIDE DEF candle
<1>5. /\ after \in Seq(Candle) /\ Len(after) = n + 1 /\ DOMAIN after = 1 .. (n + 1)
      /\ \A i \in 1 .. n : after[i] = candles[i]
      /\ after[n + 1] = candle
  BY <1>1, <1>4
<1>6. \A i \in 1 .. n : /\ candles[i].at = Epoch + i - 1
                        /\ \E s \in day.shapes : candles[i].close = s.close
  BY <1>1 DEF Added
<1> HIDE DEF after, n
<1>7. \A i \in DOMAIN after : /\ after[i].at = Epoch + i - 1
                              /\ \E s \in day.shapes : after[i].close = s.close
  <2> SUFFICES ASSUME NEW i \in 1 .. (n + 1)
               PROVE  /\ after[i].at = Epoch + i - 1
                      /\ \E s \in day.shapes : after[i].close = s.close
    BY <1>5
  <2>1. CASE i \in 1 .. n
    BY <1>5, <1>6, <2>1
  <2>2. CASE i = n + 1
    BY <1>1, <1>2, <1>4, <1>5, <2>2
  <2> QED BY <1>1, <2>1, <2>2
<1>8. after # <<>>
  BY <1>1, <1>5
<1>9. Added(day, after)
  BY <1>5, <1>7 DEF Added
<1> QED BY <1>5, <1>8, <1>9 DEF after, candle, n

(* Every step leaves the story traced.                                     *)
LEMMA TracedInit == RulesInit => Traced
<1> SUFFICES ASSUME RulesInit PROVE Traced
  OBVIOUS
<1>1. day \in Days /\ candles = <<>> /\ outcome = NoOutcome /\ proposal = None
  BY DEF RulesInit
<1>2. outcome.candidates = {}
  BY <1>1, RejectedHasNone DEF NoOutcome
<1>3. Added(day, candles) /\ Len(candles) <= MaxCandles
  BY <1>1, NothingAdded
<1> QED BY <1>1, <1>2, <1>3, Zenon DEF Traced

(* Every step keeps every candidate traceable: only a new candle           *)
(* evaluates, and a proposal changes no evaluation.                        *)
LEMMA TracedStep == Traced /\ [RulesNext]_rulesVars => Traced'
<1> SUFFICES ASSUME Traced, [RulesNext]_rulesVars PROVE Traced'
  OBVIOUS
<1>1. ASSUME NEW shape \in day.shapes, NEW around \in Surroundings, CloseCandle(shape, around)
      PROVE  Traced'
  <2> DEFINE after == Append(candles, Joined([at |-> Now], shape))
             after2 == Evaluate(StrategyView(day, after, around))
  <2>1. /\ Len(candles) < MaxCandles /\ candles' = after /\ outcome' = after2
        /\ proposal' = None /\ day' = day
    BY <1>1, Zenon DEF CloseCandle
  <2>2. day \in Days /\ Added(day, candles)
    BY DEF Traced
  <2>3. Added(day, after) /\ Len(after) = Len(candles) + 1 /\ after # <<>>
    BY <2>2, NextAdded
  <2>4. Len(candles) \in Nat /\ MaxCandles \in Nat
    BY <2>2, DaysAssumption DEF Added
  <2>5. outcome' = Evaluate(StrategyView(day', candles', around))
    BY <2>1, Zenon
  <2> HIDE DEF after, after2
  <2>6. Added(day', candles') /\ Len(candles') <= MaxCandles /\ candles' # <<>>
    BY <2>1, <2>3, <2>4
  <2>7. day' \in Days /\ proposal' = None
    BY <2>1, <2>2
  <2> QED BY <2>5, <2>6, <2>7, Zenon DEF Traced
<1>2. ASSUME NEW c \in outcome.candidates, NEW market \in Markets, PlanTrade(c, market)
      PROVE  Traced'
  <2>1. /\ c.state = "CONFIRMED"
        /\ \E view \in {RiskView(c, market, Last(candles).close)} :
                proposal' = [candidate |-> c, view |-> view,
                             result |-> EvaluateCandidate(BuildContext(view))]
        /\ day' = day /\ candles' = candles /\ outcome' = outcome
    BY <1>2, Zenon DEF PlanTrade
  <2>2. RiskView(c, market, Last(candles).close)' = RiskView(c, market, Last(candles).close)
    BY <2>1, Zenon DEF RiskView, Now
  <2>3. AskedFor(c, market)'
    BY <2>1, <2>2, Zenon DEF AskedFor
  <2>4. c \in outcome'.candidates
    BY <2>1, Zenon
  <2>5. /\ day' \in Days /\ Added(day', candles') /\ Len(candles') <= MaxCandles
        /\ \/ outcome'.candidates = {}
           \/ /\ candles' # <<>>
              /\ \E around \in Surroundings :
                    outcome' = Evaluate(StrategyView(day', candles', around))
    BY <2>1, Zenon DEF Traced
  <2> QED BY <2>3, <2>4, <2>5, Zenon DEF Traced
<1>3. ASSUME NextDay PROVE Traced'
  <2>1. day' \in Days /\ candles' = <<>> /\ outcome' = NoOutcome /\ proposal' = None
    BY <1>3 DEF NextDay
  <2>2. outcome'.candidates = {}
    BY <2>1, RejectedHasNone DEF NoOutcome
  <2>3. Added(day', candles') /\ Len(candles') <= MaxCandles
    BY <2>1, NothingAdded
  <2> QED BY <2>1, <2>2, <2>3, Zenon DEF Traced
<1>4. ASSUME UNCHANGED rulesVars PROVE Traced'
  <2>1. day' = day /\ candles' = candles /\ outcome' = outcome /\ proposal' = proposal
    BY <1>4 DEF rulesVars
  <2>2. ASSUME NEW c, NEW market, AskedFor(c, market)
        PROVE  AskedFor(c, market)'
    <3>1. RiskView(c, market, Last(candles).close)' = RiskView(c, market, Last(candles).close)
      BY <2>1, Zenon DEF RiskView, Now
    <3> QED BY <2>1, <2>2, <3>1, Zenon DEF AskedFor
  <2>3. /\ day' \in Days /\ Added(day', candles') /\ Len(candles') <= MaxCandles
        /\ \/ outcome'.candidates = {}
           \/ /\ candles' # <<>>
              /\ \E around \in Surroundings :
                    outcome' = Evaluate(StrategyView(day', candles', around))
    BY <2>1, Zenon DEF Traced
  <2>4. \/ proposal' = None
        \/ \E c \in outcome'.candidates, market \in Markets : AskedFor(c, market)'
    BY <2>1, <2>2, Zenon DEF Traced
  <2> QED BY <2>3, <2>4, Zenon DEF Traced
<1> QED BY <1>1, <1>2, <1>3, <1>4 DEF RulesNext

(* In every state, the last evaluation is that of the candles there are,   *)
(* in some surroundings, and the proposal is what the risk engine made of  *)
(* one of its candidates.                                                  *)
THEOREM TracedHolds == RulesSpec => []Traced
BY TracedInit, TracedStep, PTL DEF RulesSpec

-----------------------------------------------------------------------------
(* Plans.                                                                  *)

(* The series of five minutes that the last evaluation read.               *)
Read(around) == FiveMinutes(StrategyView(day, candles, around))

(* What a candidate of the last evaluation is.                             *)
LEMMA CandidateTraced ==
  ASSUME Traced, NEW c \in outcome.candidates
  PROVE  /\ candles # <<>>
         /\ c.bullish \in BOOLEAN /\ c.level \in Nat /\ c.expiryAt \in Int
         /\ SeriesTyped(Build("15m", ToSet(Quarters(day, candles)), Now))
         /\ \E around \in Surroundings :
                /\ Read(around).ok /\ SeriesTyped(Read(around))
                /\ \E r : FoundBy(c, r, Read(around))
<1>1. /\ day \in Days /\ Added(day, candles) /\ candles # <<>>
      /\ \E around \in Surroundings : outcome = Evaluate(StrategyView(day, candles, around))
  BY DEF Traced
<1>2. PICK around \in Surroundings : outcome = Evaluate(StrategyView(day, candles, around))
  BY <1>1
<1> DEFINE view == StrategyView(day, candles, around)
<1>3. candles \in Seq(Candle) /\ Len(candles) \in Nat /\ Epoch \in Nat
  BY <1>1, DaysAssumption DEF Added
<1>4. /\ view.candles15m = ToSet(Quarters(day, candles))
      /\ view.asOf = Epoch + Len(candles)
      /\ IsFiniteSet(view.candles5m) /\ view.candles5m \subseteq Candle
      /\ IsFiniteSet(view.candles15m) /\ view.candles15m \subseteq Candle
  BY <1>1, <1>3, StrategyViewSays
<1> HIDE DEF view
<1>5. c \in Evaluate(view).candidates
  BY <1>2 DEF view
<1>6. /\ FiveMinutes(view).ok
      /\ SeriesTyped(FiveMinutes(view)) /\ SeriesTyped(Fifteen(view))
      /\ c.bullish \in BOOLEAN /\ c.level \in Nat
      /\ c.expiryAt = view.asOf + Strategy.expireAfter * Width("5m")
      /\ \E r : FoundBy(c, r, FiveMinutes(view))
  BY <1>4, <1>5, CandidatesSay
<1>7. Fifteen(view) = Build("15m", ToSet(Quarters(day, candles)), Now)
  BY <1>4, Zenon DEF Fifteen, Now
<1>8. c.expiryAt \in Int
  <2>1. Strategy.expireAfter \in Nat
    BY StrategyTyped
  <2>2. Width("5m") = 1
    BY DEF Width
  <2> QED BY <1>3, <1>4, <1>6, <2>1, <2>2
<1>9. Read(around) = FiveMinutes(view)
  BY DEF Read, view
<1> QED BY <1>1, <1>6, <1>7, <1>8, <1>9

(* What is proposed for a confirmed candidate keeps what the risk engine   *)
(* promises.                                                               *)
LEMMA ProposedSays ==
  ASSUME Traced, HasPlan
  PROVE  LET c == proposal.candidate
             view == proposal.view
             plan == proposal.result
             context == BuildContext(view)
             risk == EffectiveRiskSettings(view.assetClass)
         IN  /\ c.state = "CONFIRMED" /\ c.bullish \in BOOLEAN
             /\ c.expiryAt \in Int /\ view.asOf \in Int
             /\ RiskTyped(risk) /\ InstrumentTyped(view.instrument)
             /\ context.candidate.bullish = c.bullish /\ context.candidate.level = c.level
             /\ context.candidate.expiryAt = c.expiryAt
             /\ context.instrument = view.instrument /\ context.asOf = view.asOf
             /\ PricesSay(plan, context)
             /\ PromisesSay(plan, context, risk)
             /\ ExpirySays(plan, context, risk)
<1>1. proposal # None /\ proposal.result.ok
  BY DEF HasPlan, Proposed
<1>2. PICK c \in outcome.candidates, market \in Markets : AskedFor(c, market)
  BY <1>1 DEF Traced
<1> DEFINE view == RiskView(c, market, Last(candles).close)
           context == BuildContext(view)
           risk == EffectiveRiskSettings(view.assetClass)
           plan == EvaluateCandidate(context)
<1>3. /\ c.state = "CONFIRMED"
      /\ proposal = [candidate |-> c, view |-> view, result |-> plan]
  BY <1>2, Zenon DEF AskedFor
<1>4. /\ candles # <<>> /\ day \in Days /\ Added(day, candles)
      /\ c.bullish \in BOOLEAN /\ c.level \in Nat /\ c.expiryAt \in Int
      /\ SeriesTyped(Build("15m", ToSet(Quarters(day, candles)), Now))
  BY CandidateTraced, Zenon DEF Traced
<1>5. /\ ViewTyped(view)
      /\ view.candidate.bullish = c.bullish /\ view.candidate.level = c.level
      /\ view.candidate.expiryAt = c.expiryAt
      /\ view.candidate.assetClass = view.assetClass
  BY <1>4, RiskViewTyped
<1> HIDE DEF view
<1>6. /\ ContextTyped(context)
      /\ context.candidate = view.candidate /\ context.instrument = view.instrument
      /\ context.asOf = view.asOf
  BY <1>5, ContextSays
<1>7. RiskTyped(risk)
  BY EffectiveTyped
<1>8. plan = EvaluateUnder(context, risk)
  BY <1>5, <1>6, Zenon DEF EvaluateCandidate
<1> HIDE DEF plan, risk, context
<1>9. proposal.candidate = c /\ proposal.view = view /\ proposal.result = plan
  BY <1>3
<1>10. PricesSay(plan, context) /\ PromisesSay(plan, context, risk)
       /\ ExpirySays(plan, context, risk)
  BY <1>1, <1>6, <1>7, <1>8, <1>9, PlanWhenOk
<1>11. InstrumentTyped(view.instrument) /\ view.asOf \in Int
  BY <1>5 DEF ViewTyped
<1>12. /\ context.candidate.bullish = c.bullish /\ context.candidate.level = c.level
       /\ context.candidate.expiryAt = c.expiryAt
  BY <1>5, <1>6
<1>13. /\ BuildContext(proposal.view) = context
       /\ EffectiveRiskSettings(proposal.view.assetClass) = risk
  BY <1>9, Zenon DEF context, risk
<1> QED BY <1>3, <1>4, <1>6, <1>7, <1>9, <1>10, <1>11, <1>12, <1>13, Zenon

(* Whatever the day, the market and the settings, a plan has its entry,    *)
(* invalidation and targets on the proper sides of its candidate's level,  *)
(* and is gone with the candidate (evaluate in risk/engine.py).            *)
THEOREM PlansFollowTheirSignalHolds == RulesSpec => []PlansFollowTheirSignal
<1>1. Traced => PlansFollowTheirSignal
  <2> SUFFICES ASSUME Traced, HasPlan PROVE PlansFollowTheirSignal
    BY DEF PlansFollowTheirSignal
  <2> DEFINE c == proposal.candidate
             view == proposal.view
             plan == proposal.result
             context == BuildContext(view)
             risk == EffectiveRiskSettings(view.assetClass)
             tick == view.instrument.tick
  <2>1. /\ c.state = "CONFIRMED" /\ c.bullish \in BOOLEAN
        /\ c.expiryAt \in Int /\ view.asOf \in Int
        /\ RiskTyped(risk)
        /\ context.candidate.bullish = c.bullish /\ context.candidate.level = c.level
        /\ context.candidate.expiryAt = c.expiryAt
        /\ context.instrument = view.instrument /\ context.asOf = view.asOf
        /\ PricesSay(plan, context)
        /\ ExpirySays(plan, context, risk)
    BY ProposedSays
  <2> HIDE DEF c, view, plan, context, risk
  <2>2. /\ EntrySays(plan.entry, c.level, tick)
        /\ InvalidationSays(plan.invalidation, plan.entry, c.level, c.bullish, tick)
        /\ TargetsSay(plan.targets, context.levels, c.bullish)
        /\ \A i \in DOMAIN plan.targets :
                Toward(c.bullish, plan.entry.price, plan.targets[i].price) > 0
    BY <2>1, Zenon DEF PricesSay
  <2>3. /\ plan.expiryAt <= c.expiryAt
        /\ RiskDefaults.expirySeconds > 0 => plan.expiryAt > view.asOf
    BY <2>1 DEF ExpirySays, Smaller, RiskTyped
  <2>4. /\ c.level \in plan.entry.low .. plan.entry.high
        /\ plan.entry.price \in plan.entry.low .. plan.entry.high
        /\ c.level \in Int /\ plan.entry.price \in Int
        /\ plan.entry.low % tick = 0 /\ plan.entry.high % tick = 0
        /\ plan.entry.price % tick = 0
    BY <2>2 DEF EntrySays
  <2>5. /\ plan.invalidation.price \in Int /\ plan.invalidation.price % tick = 0
        /\ Against(c.bullish, plan.invalidation.price, plan.entry.price)
        /\ ~Against(c.bullish, c.level, plan.invalidation.price)
        /\ RiskDefaults.bufferBps > 0 \/ RiskDefaults.bufferAtr > 0 =>
                Against(c.bullish, plan.invalidation.price, c.level)
    BY <2>2 DEF InvalidationSays
  <2>6. \A i \in DOMAIN plan.targets :
            Against(c.bullish, plan.entry.price, plan.targets[i].price)
    BY <2>1, <2>2, <2>4 DEF Against, Toward, TargetsSay
  <2>7. \A i, j \in DOMAIN plan.targets :
            i < j => ~Against(c.bullish, plan.targets[j].price, plan.targets[i].price)
    BY <2>2 DEF Against, TargetsSay, Nearer
  <2>8. \A price \in {plan.entry.low, plan.entry.high, plan.entry.price,
                      plan.invalidation.price} : price % tick = 0
    BY <2>4, <2>5
  <2> QED BY <2>1, <2>3, <2>4, <2>5, <2>6, <2>7, <2>8, Zenon
          DEF PlansFollowTheirSignal, Against, c, view, plan, tick
<1> QED BY <1>1, TracedHolds, PTL

(* Whatever the day, the market and the settings, a plan loses no more     *)
(* than its budget and the allowed costs, earns the minimum, and is        *)
(* liquidated only behind its invalidation (evaluate in risk/engine.py).   *)
THEOREM PlansKeepTheirPromisesHolds == RulesSpec => []PlansKeepTheirPromises
<1>1. Traced => PlansKeepTheirPromises
  <2> SUFFICES ASSUME Traced, HasPlan PROVE PlansKeepTheirPromises
    BY DEF PlansKeepTheirPromises
  <2> DEFINE bullish == proposal.candidate.bullish
             view == proposal.view
             plan == proposal.result
             context == BuildContext(view)
             risk == EffectiveRiskSettings(view.assetClass)
             mark == view.instrument.mark
             tiers == view.instrument.tiers
             reached == {i \in DOMAIN tiers : plan.position.notional >= tiers[i].bound
                                              /\ tiers[i].maxLeverage > 0}
             l == plan.leverage.leverage
             Survives(leverage, anchor) ==
                LET price == LiquidationFrom(anchor, leverage, bullish,
                                             plan.leverage.rates, risk)
                    behind == IF bullish THEN plan.invalidation.price * BPS - price
                              ELSE price - plan.invalidation.price * BPS
                IN  behind > 0 /\ behind >= risk.liquidationBps * mark
  <2>1. /\ context.candidate.bullish = bullish
        /\ context.instrument = view.instrument
        /\ InstrumentTyped(view.instrument)
        /\ PromisesSay(plan, context, risk)
    BY ProposedSays
  <2> HIDE DEF bullish, view, plan, context, risk
  <2>2. LeverageSays(plan.leverage, context, plan.entry.price, plan.invalidation.price,
                     plan.position.notional, risk)
    BY <2>1 DEF PromisesSay
  <2>3. /\ plan.costs.loss.net * 100 <= (100 + risk.maxCostPct) * Budget(risk)
        /\ plan.costs.targets[1].net * 10 >= risk.minNetRR * plan.costs.loss.net
    BY <2>1, Zenon DEF PromisesSay
  <2>4. plan.position.notional \in view.instrument.minNotional .. risk.maxNotional
    <3>1. /\ plan.position.notional \in Nat /\ view.instrument.minNotional \in Nat
          /\ view.instrument.minNotional <= plan.position.notional
          /\ plan.position.notional <= risk.maxNotional
      BY <2>1, Zenon DEF PromisesSay
    <3> QED BY <3>1
  <2>5. /\ l \in 100 .. 300 /\ l <= 100 * view.instrument.maxLeverage
        /\ \A i \in TiersReached(view.instrument, plan.position.notional) :
                IsLastTier(view.instrument,
                           TiersReached(view.instrument, plan.position.notional), i) =>
                    l <= 100 * tiers[i].maxLeverage
        /\ \A k \in 1 .. l, anchor \in {plan.entry.price, mark} :
                Outlives(k, anchor, plan.invalidation.price, bullish,
                         plan.leverage.rates, risk, mark)
    BY <2>1, <2>2, Zenon DEF LeverageSays
  <2>6. l <= Smaller(300, 100 * view.instrument.maxLeverage)
    BY <2>5 DEF Smaller
  <2>7. \A i \in reached :
            (\A j \in reached :
                \/ tiers[j].bound < tiers[i].bound
                \/ (tiers[j].bound = tiers[i].bound /\ j <= i))
            => l <= 100 * tiers[i].maxLeverage
    <3>1. reached = TiersReached(view.instrument, plan.position.notional)
      BY DEF TiersReached
    <3> QED BY <2>5, <3>1 DEF IsLastTier
  <2>8. \A k \in 2 .. (l \div 50), anchor \in {plan.entry.price, mark} :
            Survives(50 * k, anchor)
    <3> SUFFICES ASSUME NEW k \in 2 .. (l \div 50), NEW anchor \in {plan.entry.price, mark}
                 PROVE  Survives(50 * k, anchor)
      OBVIOUS
    <3>1. 50 * k \in 1 .. l
      BY <2>5
    <3>2. Outlives(50 * k, anchor, plan.invalidation.price, bullish,
                   plan.leverage.rates, risk, mark)
      BY <2>5, <3>1
    <3> QED BY <3>2, Zenon DEF Outlives, BufferAbs
  <2> QED BY <2>3, <2>4, <2>6, <2>7, <2>8, Zenon
          DEF PlansKeepTheirPromises, bullish, view, plan, risk
<1> QED BY <1>1, TracedHolds, PTL

-----------------------------------------------------------------------------
(* Retests.                                                                *)

(* The candles of a series lie in the order of time.                       *)
InTime(bars) == \A i, j \in DOMAIN bars : i < j => bars[i].at < bars[j].at

(* A retest that is confirmed touched the level after the break and left   *)
(* its band again, and no candle from the break to then closed through.    *)
RetestSays(bars, level, from, bullish) ==
    /\ level > 0
    /\ \E touched, left \in DOMAIN bars :
            /\ from <= bars[touched].at /\ touched < left
            /\ Touches(bars[touched], level, bullish)
            /\ ~Touches(bars[left], level, bullish)
            /\ \A i \in DOMAIN bars :
                    from <= bars[i].at /\ i <= left => ~ClosesThrough(bars[i], level, bullish)

(* The window of a retest is a part of the series that starts with its     *)
(* first candle from the break on.                                         *)
LEMMA WindowSays ==
  ASSUME NEW series, SeriesTyped(series), InTime(series.candles), NEW from \in Int,
         RetestWindow(series, from) # <<>>
  PROVE  \E first \in DOMAIN series.candles, n \in Nat :
            /\ DOMAIN RetestWindow(series, from) = 1 .. n
            /\ from <= series.candles[first].at
            /\ \A i \in DOMAIN series.candles : from <= series.candles[i].at => first <= i
            /\ \A i \in 1 .. n : /\ first + i - 1 \in DOMAIN series.candles
                                 /\ RetestWindow(series, from)[i] = series.candles[first + i - 1]
<1> DEFINE bars == series.candles
           after == {i \in DOMAIN bars : bars[i].at >= from}
           first == Min(after)
           last == Lesser(Len(bars), first + Strategy.retestCandles - 1)
           window == RetestWindow(series, from)
           n == last + 1 - first
<1>1. bars \in Seq(Candle) /\ Len(bars) \in Nat /\ DOMAIN bars = 1 .. Len(bars)
  BY DEF SeriesTyped
<1>2. after # {} /\ window = SubSeq(bars, first, last)
  BY Zenon DEF RetestWindow
<1>3. \A i \in DOMAIN bars : bars[i].at \in Int
  <2>1. \A i \in DOMAIN bars : bars[i] \in Candle
    BY <1>1, EntriesOf
  <2> QED BY <2>1, CandleTyped
<1>4. first \in after /\ \A i \in after : first <= i
  <2>1. after \in SUBSET (DOMAIN bars)
    OBVIOUS
  <2> HIDE DEF after, bars
  <2>2. IsFiniteSet(after) /\ after \in SUBSET Int
    BY <1>1, <2>1, PlacesFinite
  <2> QED BY <1>2, <2>2, MinTaken
<1>5. first \in DOMAIN bars /\ bars[first].at >= from
      /\ \A i \in DOMAIN bars : from <= bars[i].at => first <= i
  BY <1>3, <1>4
<1> HIDE DEF bars, after, first, window
<1>6. Strategy.retestCandles \in Nat \ {0}
  BY StrategyTyped
<1>7. last \in Int /\ first \in Int /\ 1 <= first /\ first <= last /\ last <= Len(bars)
  BY <1>1, <1>5, <1>6 DEF Lesser
<1> HIDE DEF last
<1>8. /\ DOMAIN SubSeq(bars, first, last) = 1 .. n
      /\ \A i \in 1 .. n : SubSeq(bars, first, last)[i] = bars[first + i - 1]
  BY <1>1, <1>7
<1>9. n \in Nat /\ \A i \in 1 .. n : first + i - 1 \in DOMAIN bars
  BY <1>1, <1>7
<1> HIDE DEF n
<1>10. /\ DOMAIN window = 1 .. n
       /\ \A i \in 1 .. n : first + i - 1 \in DOMAIN bars /\ window[i] = bars[first + i - 1]
  BY <1>2, <1>8, <1>9
<1> QED BY <1>5, <1>9, <1>10 DEF window, bars

(* A retest that is confirmed touched the level, left it again, and never  *)
(* closed through it in between.                                           *)
LEMMA RetestWhenConfirmed ==
  ASSUME NEW series, SeriesTyped(series), InTime(series.candles),
         NEW level \in Nat, NEW from \in Int, NEW bullish,
         EvaluateRetest(series, level, from, bullish) = "CONFIRMED"
  PROVE  RetestSays(series.candles, level, from, bullish)
<1> DEFINE bars == series.candles
           window == RetestWindow(series, from)
           failed == {i \in DOMAIN window : ClosesThrough(window[i], level, bullish)}
           touched == {i \in DOMAIN window : Touches(window[i], level, bullish)}
           held == Held(window, failed, touched)
<1>1. level > 0 /\ RetestIn(window, level, bullish) = "CONFIRMED"
  <2>1. ~(level <= 0) /\ RetestIn(window, level, bullish) = "CONFIRMED"
    BY DEF EvaluateRetest
  <2> QED BY <2>1
<1>2. RetestState(Len(window), failed, touched, held) = "CONFIRMED"
  BY <1>1, Zenon DEF RetestIn, RetestOf
<1>3. held # {} /\ ~(failed # {} /\ \A i \in held : Min(failed) < i)
  <2> HIDE DEF held, failed, touched, window
  <2> QED BY <1>2 DEF RetestState
<1>4. held = {i \in DOMAIN window \ (failed \cup touched) : \E j \in touched : j < i}
  BY DEF Held
<1>5. window # <<>>
  <2> HIDE DEF window
  <2>1. window = <<>> => DOMAIN window = {}
    OBVIOUS
  <2> QED BY <1>3, <1>4, <2>1
<1>6. PICK first \in DOMAIN bars, n \in Nat :
            /\ DOMAIN window = 1 .. n
            /\ from <= bars[first].at
            /\ \A i \in DOMAIN bars : from <= bars[i].at => first <= i
            /\ \A i \in 1 .. n : first + i - 1 \in DOMAIN bars
                                 /\ window[i] = bars[first + i - 1]
  BY <1>5, WindowSays
<1>7. bars \in Seq(Candle) /\ DOMAIN bars = 1 .. Len(bars) /\ Len(bars) \in Nat
  BY DEF SeriesTyped
<1>8. \A i \in DOMAIN bars : bars[i].at \in Int
  <2>1. \A i \in DOMAIN bars : bars[i] \in Candle
    BY <1>7, EntriesOf
  <2> QED BY <2>1, CandleTyped
<1>9. failed \subseteq 1 .. n /\ touched \subseteq 1 .. n /\ held \subseteq 1 .. n
  BY <1>4, <1>6
<1>10. PICK left \in held : \A i \in failed : left < i
  <2>1. CASE failed = {}
    BY <1>3, <2>1
  <2>2. CASE failed # {}
    <3>1. failed \in SUBSET Int /\ IsFiniteSet(failed)
      <4>1. IsFiniteSet(1 .. n)
        BY FS_Interval
      <4> HIDE DEF failed
      <4>2. failed \subseteq 1 .. n
        BY <1>9
      <4>3. IsFiniteSet(failed)
        BY <4>1, <4>2, FS_Subset, Zenon
      <4> QED BY <4>2, <4>3
    <3>2. Min(failed) \in failed /\ \A m \in failed : Min(failed) <= m
      BY <2>2, <3>1, MinTaken
    <3>3. PICK left \in held : ~(Min(failed) < left)
      BY <1>3, <2>2
    <3>4. left \notin failed
      BY <1>4
    <3> DEFINE m == Min(failed)
    <3>5. m \in failed /\ (\A i \in failed : m <= i) /\ ~(m < left) /\ left # m
      BY <3>2, <3>3, <3>4
    <3>6. failed \subseteq Int /\ left \in Int
      BY <1>9
    <3> HIDE DEF failed, held, m
    <3>7. left < m
      BY <3>5, <3>6
    <3>8. \A i \in failed : left < i
      BY <3>5, <3>6, <3>7
    <3> QED BY <3>8
  <2> QED BY <2>1, <2>2
<1>11. PICK touch \in touched : touch < left
  BY <1>4
<1>12. left \in 1 .. n /\ left \notin touched /\ touch \in 1 .. n
  BY <1>4, <1>9
<1> DEFINE a == first + touch - 1
           b == first + left - 1
<1>13. /\ a \in DOMAIN bars /\ b \in DOMAIN bars /\ a < b
       /\ window[touch] = bars[a] /\ window[left] = bars[b] /\ first <= a
  BY <1>6, <1>7, <1>11, <1>12
<1>14. Touches(bars[a], level, bullish) /\ ~Touches(bars[b], level, bullish)
  BY <1>6, <1>11, <1>12, <1>13
<1>15. from <= bars[a].at
  <2>1. InTime(bars) /\ first \in Int /\ a \in Int
    BY <1>7, <1>13
  <2> HIDE DEF a, bars, window
  <2>2. first = a \/ bars[first].at < bars[a].at
    BY <1>6, <1>13, <2>1 DEF InTime
  <2> QED BY <1>6, <1>8, <1>13, <2>2
<1>16. ASSUME NEW i \in DOMAIN bars, from <= bars[i].at, i <= b
       PROVE  ~ClosesThrough(bars[i], level, bullish)
  <2> DEFINE k == i + 1 - first
  <2>1. first <= i
    BY <1>6, <1>16
  <2>2. k \in 1 .. n /\ k <= left /\ i = first + k - 1
    <3>1. i \in Int /\ first \in Int /\ left \in Int /\ i <= first + left - 1
      BY <1>7, <1>12, <1>16
    <3>2. left <= n /\ n \in Nat
      BY <1>12
    <3> HIDE DEF bars, window, held, a
    <3> QED BY <2>1, <3>1, <3>2
  <2>3. window[k] = bars[i]
    BY <1>6, <2>2
  <2>4. k \notin failed
    BY <1>10, <1>12, <2>2
  <2> QED BY <1>6, <2>2, <2>3, <2>4
<1> QED BY <1>1, <1>13, <1>14, <1>15, <1>16 DEF RetestSays

-----------------------------------------------------------------------------
(* What confirmed signals have seen.                                       *)

(* A candle that pierces a level overshoots it.                            *)
Overshoots(candle, level, bullish) ==
    IF bullish THEN candle.low < level ELSE candle.high > level

(* What a reversal tells of a series: see ReversalsTellTheirStory.         *)
StoryIn(bars, level, bullish) ==
    \E pierced, reclaimed, touched, left \in DOMAIN bars :
        /\ pierced <= reclaimed /\ reclaimed < touched /\ touched < left
        /\ Overshoots(bars[pierced], level, bullish)
        /\ Clears(bars[reclaimed], level, bullish, Strategy.reclaimBps)
        /\ \A i \in DOMAIN bars : pierced <= i /\ i < reclaimed =>
                ~Clears(bars[i], level, bullish, Strategy.reclaimBps)
        /\ Touches(bars[touched], level, bullish)
        /\ ~Touches(bars[left], level, bullish)
        /\ \A i \in DOMAIN bars : reclaimed < i /\ i <= left =>
                ~ClosesThrough(bars[i], level, bullish)

(* The times of a series are numbers.                                      *)
LEMMA TimesTyped ==
  ASSUME NEW series, SeriesTyped(series)
  PROVE  /\ series.candles \in Seq(Candle) /\ Len(series.candles) \in Nat
         /\ DOMAIN series.candles = 1 .. Len(series.candles)
         /\ \A i \in DOMAIN series.candles : series.candles[i].at \in Int
<1>1. series.candles \in Seq(Candle)
  BY DEF SeriesTyped
<1>2. \A i \in DOMAIN series.candles : series.candles[i] \in Candle
  BY <1>1, EntriesOf
<1> QED BY <1>1, <1>2, CandleTyped

(* A candle that pierces lies beyond the level.                            *)
LEMMA PiercedSays ==
  ASSUME NEW candle \in Candle, NEW level, level.price \in Int, Pierces(candle, level)
  PROVE  Overshoots(candle, level.price, Below(level))
<1>1. candle.low \in Int /\ candle.high \in Int
  BY CandleTyped
<1>2. Overshoot(candle, level) > 0
  BY DEF Pierces
<1> DEFINE below == Below(level)
           price == level.price
<1>3. IF below THEN price - candle.low > 0 ELSE candle.high - price > 0
  BY <1>2 DEF Overshoot
<1>4. price \in Int
  OBVIOUS
<1> HIDE DEF below, price
<1>5. Overshoots(candle, price, below)
  BY <1>1, <1>3, <1>4 DEF Overshoots
<1> QED BY <1>5 DEF below, price

(* A reversal that is confirmed pierced its level, reclaimed it, came back *)
(* to it and left it again, in that order.                                 *)
LEMMA ReversalTells ==
  ASSUME NEW series, SeriesTyped(series), InTime(series.candles), series.width = 1,
         NEW r, ReversalSays(r, series), r.confirmed
  PROVE  r.level > 0 /\ StoryIn(series.candles, r.level, r.bullish)
<1> DEFINE bars == series.candles
           level == r.level
           bullish == r.bullish
<1>1. PICK sweep :
            /\ IsSweep(sweep, series)
            /\ sweep.below = bullish /\ level = sweep.level.price
            /\ DetectReclaim(series, sweep) # None
            /\ EvaluateRetest(series, level, DetectReclaim(series, sweep).confirmedAt,
                              bullish) = "CONFIRMED"
  BY DEF ReversalSays
<1>2. /\ level \in Nat /\ bullish = Below(sweep.level)
      /\ \E k \in DOMAIN bars : sweep.at = bars[k].at /\ Pierces(bars[k], sweep.level)
  BY <1>1 DEF IsSweep
<1>3. PICK k \in DOMAIN bars : sweep.at = bars[k].at /\ Pierces(bars[k], sweep.level)
  BY <1>2
<1>4. /\ bars \in Seq(Candle) /\ Len(bars) \in Nat /\ DOMAIN bars = 1 .. Len(bars)
      /\ \A i \in DOMAIN bars : bars[i].at \in Int
  BY TimesTyped
<1>5. Overshoots(bars[k], level, bullish)
  <2>1. bars[k] \in Candle
    BY <1>4, EntriesOf
  <2>2. sweep.level.price \in Int
    BY <1>1, <1>2
  <2>3. Overshoots(bars[k], sweep.level.price, Below(sweep.level))
    BY <1>3, <2>1, <2>2, PiercedSays
  <2> QED BY <1>1, <1>2, <2>3
<1> DEFINE clear == {i \in DOMAIN bars :
                        /\ bars[i].at >= sweep.at
                        /\ Clears(bars[i], level, bullish, Strategy.reclaimBps)}
           m == Min(clear)
           confidence == Lesser(90, sweep.confidence + 20)
           from == bars[m].at + 1
<1>6. clear # {} /\ DetectReclaim(series, sweep) = [confirmedAt |-> ClosesAt(series, m),
                                                    confidence |-> confidence]
  BY <1>1, Zenon DEF DetectReclaim
<1>7. DetectReclaim(series, sweep).confirmedAt = from
  <2>1. ClosesAt(series, m) = from
    BY DEF ClosesAt
  <2> HIDE DEF m, confidence, from
  <2> QED BY <1>6, <2>1
<1>8. m \in clear /\ \A i \in clear : m <= i
  <2>1. clear \in SUBSET (DOMAIN bars)
    OBVIOUS
  <2> HIDE DEF clear, bars
  <2>2. IsFiniteSet(clear) /\ clear \in SUBSET Int
    BY <1>4, <2>1, PlacesFinite
  <2> QED BY <1>6, <2>2, MinTaken
<1>9. /\ m \in DOMAIN bars /\ bars[m].at >= bars[k].at
      /\ Clears(bars[m], level, bullish, Strategy.reclaimBps)
  BY <1>3, <1>8
<1>10. \A i \in DOMAIN bars : bars[i].at >= bars[k].at
            /\ Clears(bars[i], level, bullish, Strategy.reclaimBps) => m <= i
  BY <1>3, <1>8
<1>11. InTime(bars)
  OBVIOUS
<1>12. from \in Int
  <2>1. bars[m].at \in Int
    BY <1>4, <1>9, Zenon
  <2> HIDE DEF m, bars
  <2> QED BY <2>1
<1>13. RetestSays(bars, level, from, bullish)
  <2> HIDE DEF from, level, bullish
  <2>1. EvaluateRetest(series, level, from, bullish) = "CONFIRMED"
    BY <1>1, <1>7
  <2> QED BY <1>2, <1>12, <2>1, RetestWhenConfirmed
<1>14. PICK touched, left \in DOMAIN bars :
            /\ from <= bars[touched].at /\ touched < left
            /\ Touches(bars[touched], level, bullish)
            /\ ~Touches(bars[left], level, bullish)
            /\ \A i \in DOMAIN bars :
                    from <= bars[i].at /\ i <= left => ~ClosesThrough(bars[i], level, bullish)
  BY <1>13 DEF RetestSays
<1>15. level > 0
  BY <1>13 DEF RetestSays
<1> HIDE DEF bars, level, bullish, clear, m
<1>16. \A i, j \in DOMAIN bars : bars[i].at < bars[j].at => i < j
  BY <1>4, <1>11 DEF InTime
<1>17. k <= m /\ m < touched
  <2>1. ~(m < k)
    BY <1>4, <1>9, <1>11 DEF InTime
  <2>2. bars[m].at < bars[touched].at
    BY <1>4, <1>9, <1>14
  <2> QED BY <1>4, <1>9, <1>16, <2>1, <2>2
<1>18. \A i \in DOMAIN bars : k <= i /\ i < m =>
            ~Clears(bars[i], level, bullish, Strategy.reclaimBps)
  <2> SUFFICES ASSUME NEW i \in DOMAIN bars, k <= i, i < m
               PROVE  ~Clears(bars[i], level, bullish, Strategy.reclaimBps)
    OBVIOUS
  <2>1. bars[i].at >= bars[k].at
    BY <1>4, <1>11 DEF InTime
  <2>2. ~(m <= i)
    BY <1>4, <1>9
  <2> QED BY <1>10, <2>1, <2>2
<1>19. \A i \in DOMAIN bars : m < i /\ i <= left => ~ClosesThrough(bars[i], level, bullish)
  <2> SUFFICES ASSUME NEW i \in DOMAIN bars, m < i, i <= left
               PROVE  ~ClosesThrough(bars[i], level, bullish)
    OBVIOUS
  <2>1. bars[m].at < bars[i].at
    BY <1>9, <1>11 DEF InTime
  <2>2. from <= bars[i].at
    BY <1>4, <1>9, <2>1
  <2> QED BY <1>14, <2>2
<1>20. StoryIn(bars, level, bullish)
  BY <1>5, <1>9, <1>14, <1>17, <1>18, <1>19 DEF StoryIn
<1> QED BY <1>15, <1>20 DEF bars, level, bullish

(* A breakout that is confirmed has closed beyond the level, and its last  *)
(* close lies inside again.                                                *)
LEMMA BreakoutTells ==
  ASSUME NEW series, SeriesTyped(series), InTime(series.candles), series.width = 1,
         NEW r, BreakoutSays(r, series), r.confirmed
  PROVE  /\ ~Beyond(Last(series.candles), r.level, r.bullish)
         /\ \E i \in DOMAIN series.candles : Beyond(series.candles[i], r.level, r.bullish)
<1> DEFINE bars == series.candles
           level == r.level
           bullish == r.bullish
           n == Strategy.retestCandles
           newest == Newest(bars, n)
           first == Greater(1, Len(bars) - n + 1)
           beyond == {i \in DOMAIN newest : Beyond(newest[i], level, bullish)}
           from == BreakTime(series, level, bullish)
<1>1. /\ level \in Nat /\ from # None
      /\ EvaluateRetest(series, level, from, bullish) = "CONFIRMED"
  BY DEF BreakoutSays
<1>2. /\ bars \in Seq(Candle) /\ Len(bars) \in Nat /\ DOMAIN bars = 1 .. Len(bars)
      /\ bars # <<>>
      /\ \A i \in DOMAIN bars : bars[i].at \in Int
  BY TimesTyped DEF SeriesTyped
<1>3. n \in Nat \ {0}
  BY StrategyTyped
<1>4. from = IF beyond = {} THEN None
             ELSE IF Len(newest) \in beyond THEN Last(newest).at + series.width
             ELSE newest[Min(beyond)].at + series.width
  BY Zenon DEF BreakTime
<1>5. beyond # {}
  BY <1>1, <1>4
<1> HIDE DEF bars, n
<1>6. /\ first \in Nat \ {0} /\ Len(newest) = Len(bars) + 1 - first
      /\ \A i \in DOMAIN newest : first + i - 1 \in DOMAIN bars
                                  /\ newest[i] = bars[first + i - 1]
      /\ newest # <<>> /\ first + Len(newest) - 1 = Len(bars)
      /\ newest \in Seq(Candle)
  <2>1. /\ newest \in Seq(Candle) /\ first \in Nat \ {0}
        /\ Len(newest) = Len(bars) + 1 - first
        /\ \A i \in DOMAIN newest :
               first + i - 1 \in DOMAIN bars /\ newest[i] = bars[first + i - 1]
        /\ bars # <<>> => newest # <<>> /\ first + Len(newest) - 1 = Len(bars)
    <3>1. StartsAt(first, bars, n, Candle)
      BY <1>2, <1>3, NewestSays
    <3> QED BY <3>1, Zenon DEF StartsAt
  <2> HIDE DEF first, newest
  <2> QED BY <1>2, <2>1, Zenon
<1>7. Last(newest) = newest[Len(newest)] /\ Last(bars) = bars[Len(bars)]
  BY DEF Last
<1>8. Len(newest) \in DOMAIN newest /\ DOMAIN newest = 1 .. Len(newest) /\ Len(newest) \in Nat
  BY <1>6
<1>9. Last(newest) = Last(bars) /\ Len(bars) \in DOMAIN bars
  BY <1>2, <1>6, <1>7, <1>8
<1> HIDE DEF newest, first
<1>10. /\ beyond \subseteq DOMAIN newest
       /\ \A i \in beyond : Beyond(newest[i], level, bullish)
       /\ \A i \in DOMAIN newest : Beyond(newest[i], level, bullish) => i \in beyond
  OBVIOUS
<1>11. \E i \in DOMAIN bars : Beyond(bars[i], level, bullish)
  <2>1. PICK i \in beyond : TRUE
    BY <1>5
  <2>2. i \in DOMAIN newest /\ Beyond(newest[i], level, bullish)
    BY <1>10
  <2>3. first + i - 1 \in DOMAIN bars /\ newest[i] = bars[first + i - 1]
    BY <1>6, <2>2
  <2> QED BY <2>2, <2>3
<1> HIDE DEF beyond, from
<1>12. from \in Int
  <2>1. \A i \in DOMAIN newest : newest[i].at \in Int
    BY <1>2, <1>6
  <2>2. Min(beyond) \in DOMAIN newest
    <3>1. beyond \in SUBSET (DOMAIN newest)
      BY <1>10
    <3>2. IsFiniteSet(beyond) /\ beyond \in SUBSET Int
      BY <1>6, <3>1, PlacesFinite
    <3>3. Min(beyond) \in beyond
      BY <1>5, <3>2, MinTaken
    <3> QED BY <1>10, <3>3
  <2>3. Last(newest).at \in Int /\ newest[Min(beyond)].at \in Int
    BY <1>7, <1>8, <2>1, <2>2
  <2> QED BY <1>4, <1>5, <2>3
<1>13. RetestSays(bars, level, from, bullish)
  <2> HIDE DEF level, bullish
  <2> QED BY <1>1, <1>12, RetestWhenConfirmed DEF bars
<1>14. PICK touched \in DOMAIN bars : from <= bars[touched].at
  BY <1>13 DEF RetestSays
<1>15. ~(Len(newest) \in beyond)
  <2> SUFFICES ASSUME Len(newest) \in beyond PROVE FALSE
    OBVIOUS
  <2>1. from = bars[Len(bars)].at + 1
    BY <1>4, <1>5, <1>7, <1>9
  <2>2. touched = Len(bars) \/ bars[touched].at < bars[Len(bars)].at
    <3>1. InTime(bars)
      BY DEF bars
    <3>2. touched = Len(bars) \/ touched < Len(bars)
      BY <1>2
    <3> QED BY <1>9, <3>1, <3>2 DEF InTime
  <2>3. bars[touched].at \in Int /\ bars[Len(bars)].at \in Int
    BY <1>2, <1>9
  <2> QED BY <1>14, <2>1, <2>2, <2>3
<1>16. ~Beyond(Last(bars), level, bullish)
  <2>1. newest[Len(newest)] = Last(bars)
    BY <1>7, <1>9
  <2>2. ~Beyond(newest[Len(newest)], level, bullish)
    BY <1>8, <1>10, <1>15
  <2> QED BY <2>1, <2>2
<1> QED BY <1>11, <1>16 DEF bars

-----------------------------------------------------------------------------
(* From the series that was read to the candles of the day.                *)

(* The candles of a day, stored and added, lie in the order of time and    *)
(* have closed; the last of them closes now.                               *)
LEMMA AllInTime ==
  ASSUME day \in Days, Added(day, candles), candles # <<>>
  PROVE  /\ AllCandles \in Seq(Candle) /\ Len(AllCandles) \in Nat \ {0}
         /\ DOMAIN AllCandles = 1 .. Len(AllCandles)
         /\ InTime(AllCandles)
         /\ \A i \in DOMAIN AllCandles : AllCandles[i].at \in Int /\ AllCandles[i].at + 1 <= Now
         /\ AllCandles[Len(AllCandles)] = Last(candles)
         /\ Last(candles).at = Now - 1
         /\ Now \in Int
<1> DEFINE stored == day.m5
           m == Len(stored)
           n == Len(candles)
           all == AllCandles
<1>1. /\ stored \in Seq(Candle)
      /\ \A i \in DOMAIN stored : stored[i].at < Epoch
      /\ \A i, j \in DOMAIN stored : i < j => stored[i].at < stored[j].at
      /\ Epoch \in Nat
  BY DaysAssumption DEF History
<1>2. /\ candles \in Seq(Candle) /\ \A i \in DOMAIN candles : candles[i].at = Epoch + i - 1
  BY DEF Added
<1>3. all = stored \o candles
  BY DEF AllCandles
<1> HIDE DEF stored, all
<1>4. /\ m \in Nat /\ n \in Nat \ {0} /\ DOMAIN stored = 1 .. m /\ DOMAIN candles = 1 .. n
      /\ all \in Seq(Candle) /\ Len(all) = m + n /\ DOMAIN all = 1 .. (m + n)
      /\ \A i \in 1 .. m : all[i] = stored[i]
      /\ \A i \in 1 .. n : all[m + i] = candles[i]
  BY <1>1, <1>2, <1>3
<1>5. Now = Epoch + n
  BY DEF Now
<1> HIDE DEF m, n
<1>6. \A i \in DOMAIN all : all[i].at \in Int
  <2>1. \A i \in DOMAIN all : all[i] \in Candle
    BY <1>4, EntriesOf
  <2> QED BY <2>1, CandleTyped
<1>7. \A i \in 1 .. m : all[i].at < Epoch
  BY <1>1, <1>4
<1>8. \A i \in 1 .. n : all[m + i].at = Epoch + i - 1
  BY <1>2, <1>4
<1>9. \A i \in (m + 1) .. (m + n) : all[i].at = Epoch + (i - m) - 1
  <2> SUFFICES ASSUME NEW i \in (m + 1) .. (m + n)
               PROVE  all[i].at = Epoch + (i - m) - 1
    OBVIOUS
  <2>1. i - m \in 1 .. n /\ m + (i - m) = i
    BY <1>4
  <2> QED BY <1>8, <2>1
<1>10. InTime(all)
  <2> SUFFICES ASSUME NEW i \in 1 .. (m + n), NEW j \in 1 .. (m + n), i < j
               PROVE  all[i].at < all[j].at
    BY <1>4 DEF InTime
  <2>1. CASE j <= m
    BY <1>1, <1>4, <2>1
  <2>2. CASE i <= m /\ j > m
    <3>1. all[i].at < Epoch /\ all[j].at = Epoch + (j - m) - 1
      BY <1>4, <1>7, <1>9, <2>2
    <3>2. all[i].at \in Int /\ j - m >= 1
      BY <1>4, <1>6, <2>2
    <3> QED BY <1>1, <1>4, <3>1, <3>2
  <2>3. CASE i > m
    <3>a. i \in (m + 1) .. (m + n) /\ j \in (m + 1) .. (m + n)
      BY <1>4, <2>3
    <3>1. all[i].at = Epoch + (i - m) - 1 /\ all[j].at = Epoch + (j - m) - 1
      BY <1>9, <3>a
    <3> QED BY <1>1, <1>4, <3>1
  <2> QED BY <1>4, <2>1, <2>2, <2>3
<1>11. \A i \in DOMAIN all : all[i].at + 1 <= Now
  <2> SUFFICES ASSUME NEW i \in 1 .. (m + n) PROVE all[i].at + 1 <= Now
    BY <1>4
  <2>1. CASE i <= m
    <3>1. all[i].at < Epoch /\ all[i].at \in Int
      BY <1>4, <1>6, <1>7, <2>1
    <3> QED BY <1>1, <1>4, <1>5, <3>1
  <2>2. CASE i > m
    <3>a. i \in (m + 1) .. (m + n)
      BY <1>4, <2>2
    <3>1. all[i].at = Epoch + (i - m) - 1
      BY <1>9, <3>a
    <3> QED BY <1>1, <1>4, <1>5, <3>1
  <2> QED BY <1>4, <2>1, <2>2
<1>12. all[m + n] = Last(candles) /\ all[m + n].at = Now - 1
  <2>1. Last(candles) = candles[n]
    BY DEF Last, n
  <2>2. n \in 1 .. n /\ all[m + n] = candles[n]
    BY <1>4
  <2>3. all[m + n].at = Epoch + n - 1
    BY <1>8, <2>2
  <2> QED BY <1>1, <1>4, <1>5, <2>1, <2>2, <2>3
<1>13. Last(candles).at = Now - 1 /\ Now \in Int
  BY <1>1, <1>4, <1>5, <1>12
<1> QED BY <1>4, <1>6, <1>10, <1>11, <1>12, <1>13 DEF all

(* The places in a day of the candles that were read.                      *)
ReadPlaces(around) == {i \in DOMAIN AllCandles : AllCandles[i].at # around.missing}

(* The series of five minutes holds just the candles that were read, in the *)
(* order of the day.                                                       *)
MapsInto(bars, places, place) ==
    /\ \A k \in DOMAIN bars : place[k] \in places /\ bars[k] = AllCandles[place[k]]
    /\ \A k, l \in DOMAIN bars : k < l => place[k] < place[l]
    /\ \A i \in places : \E k \in DOMAIN bars : place[k] = i

(* A series that is read in surroundings is the day's candles but for the  *)
(* missing one: what happens in one happens in the other, in the same      *)
(* order.                                                                  *)
LEMMA ReadMaps ==
  ASSUME day \in Days, Added(day, candles), Len(candles) <= MaxCandles, candles # <<>>,
         NEW around \in Surroundings, Read(around).ok
  PROVE  /\ Read(around).width = 1
         /\ InTime(Read(around).candles)
         /\ \E place : MapsInto(Read(around).candles, ReadPlaces(around), place)
         /\ Last(Read(around).candles) = Last(candles)
<1> DEFINE view == StrategyView(day, candles, around)
           found == view.candles5m
           bars == Read(around).candles
           closed == ClosedBy(found, Width("5m"), view.asOf)
           all == AllCandles
           places == ReadPlaces(around)
           n == Len(all)
<1>1. candles \in Seq(Candle) /\ Len(candles) \in Nat /\ Epoch \in Nat /\ MaxCandles \in Nat
  BY DaysAssumption DEF Added
<1>2. /\ found = {c \in ToSet(day.m5 \o candles) : c.at # around.missing}
      /\ view.asOf = Now
      /\ IsFiniteSet(found) /\ found \subseteq Candle
  BY <1>1, StrategyViewSays DEF Now
<1>3. /\ all \in Seq(Candle) /\ n \in Nat \ {0}
      /\ DOMAIN all = 1 .. n /\ InTime(all)
      /\ \A i \in DOMAIN all : all[i].at \in Int /\ all[i].at + 1 <= Now
      /\ all[n] = Last(candles) /\ Last(candles).at = Now - 1 /\ Now \in Int
  BY AllInTime
<1>4. Read(around) = Build("5m", found, view.asOf)
  BY Zenon DEF Read, FiveMinutes
<1>5. Width("5m") = 1
  BY DEF Width
<1> HIDE DEF found, view
<1>6. Read(around).width = 1 /\ Ordered(bars, closed) /\ bars # <<>>
  BY <1>2, <1>4, <1>5, BuildSays
<1>7. found = {all[i] : i \in places}
  <2>1. ToSet(day.m5 \o candles) = {all[i] : i \in DOMAIN all}
    BY DEF ToSet, AllCandles
  <2> HIDE DEF all
  <2>2. places = {i \in DOMAIN all : all[i].at # around.missing}
    BY DEF ReadPlaces, all
  <2> HIDE DEF places
  <2> QED BY <1>2, <2>1, <2>2
<1>8. places = {i \in DOMAIN all : all[i].at # around.missing}
  BY DEF ReadPlaces
<1> HIDE DEF places, all
<1>9. closed = found
  <2>1. \A c \in found : c.at + 1 <= Now
    BY <1>3, <1>7, <1>8
  <2> QED BY <1>2, <1>5, <2>1 DEF ClosedBy
<1> HIDE DEF closed, bars
<1>10. /\ bars \in Seq(found)
       /\ \A i, j \in DOMAIN bars : i < j => bars[i].at < bars[j].at
       /\ \A c \in found : \E i \in DOMAIN bars : bars[i].at = c.at
  BY <1>6, <1>9 DEF Ordered
<1>11. \A k \in DOMAIN bars : bars[k] \in found
  BY <1>10, EntriesOf
<1>12. \A k \in DOMAIN bars : \E i \in places : bars[k] = all[i]
  BY <1>7, <1>11
<1> DEFINE place == [k \in DOMAIN bars |-> CHOOSE i \in places : bars[k] = all[i]]
<1>13. \A k \in DOMAIN bars : place[k] \in places /\ bars[k] = all[place[k]]
  BY <1>12
<1> HIDE DEF place
<1>14. \A i \in places : i \in 1 .. n /\ i \in DOMAIN all
  BY <1>3, <1>8
<1>15. \A i, j \in places : all[i].at < all[j].at => i < j
  <2> SUFFICES ASSUME NEW i \in places, NEW j \in places, all[i].at < all[j].at
               PROVE  i < j
    OBVIOUS
  <2>1. i \in 1 .. n /\ j \in 1 .. n /\ i \in DOMAIN all /\ j \in DOMAIN all
    BY <1>14
  <2>2. all[i].at \in Int /\ all[j].at \in Int
    BY <1>3, <2>1
  <2>3. j < i => all[j].at < all[i].at
    BY <1>3, <2>1 DEF InTime
  <2> QED BY <1>3, <2>1, <2>2, <2>3
<1>16. \A i, j \in places : all[i].at = all[j].at => i = j
  <2> SUFFICES ASSUME NEW i \in places, NEW j \in places, all[i].at = all[j].at
               PROVE  i = j
    OBVIOUS
  <2>1. i \in 1 .. n /\ j \in 1 .. n /\ i \in DOMAIN all /\ j \in DOMAIN all
    BY <1>14
  <2>2. all[i].at \in Int
    BY <1>3, <2>1
  <2>3. /\ j < i => all[j].at < all[i].at
        /\ i < j => all[i].at < all[j].at
    BY <1>3, <2>1 DEF InTime
  <2> QED BY <1>3, <2>1, <2>2, <2>3
<1>17. \A k, l \in DOMAIN bars : k < l => place[k] < place[l]
  <2> SUFFICES ASSUME NEW k \in DOMAIN bars, NEW l \in DOMAIN bars, k < l
               PROVE  place[k] < place[l]
    OBVIOUS
  <2>1. bars[k].at < bars[l].at
    BY <1>10
  <2>2. /\ place[k] \in places /\ place[l] \in places
        /\ bars[k] = all[place[k]] /\ bars[l] = all[place[l]]
    BY <1>13
  <2>3. all[place[k]].at < all[place[l]].at
    BY <2>1, <2>2
  <2> QED BY <1>15, <2>2, <2>3
<1>18. \A i \in places : \E k \in DOMAIN bars : place[k] = i
  <2> SUFFICES ASSUME NEW i \in places PROVE \E k \in DOMAIN bars : place[k] = i
    OBVIOUS
  <2>1. all[i] \in found
    BY <1>7
  <2>2. PICK k \in DOMAIN bars : bars[k].at = all[i].at
    BY <1>10, <2>1
  <2> QED BY <1>13, <1>16, <2>2
<1>19. MapsInto(bars, places, place)
  BY <1>13, <1>17, <1>18 DEF MapsInto, all
<1>20. n \in places
  <2>1. n \in DOMAIN all
    BY <1>3
  <2>2. all[n].at = Epoch + Len(candles) - 1
    BY <1>1, <1>3 DEF Now
  <2>3. Len(candles) # 0
    BY <1>1
  <2>4. all[n].at \in Epoch .. (Epoch + MaxCandles)
    BY <1>1, <2>2, <2>3
  <2>5. all[n].at # around.missing
    BY <2>4, SurroundingsAssumption
  <2> QED BY <1>8, <2>1, <2>5
<1>21. Last(bars) = Last(candles)
  <2> DEFINE m == Len(bars)
  <2>1. /\ m \in Nat /\ DOMAIN bars = 1 .. m /\ m # 0 /\ Last(bars) = bars[m]
    BY <1>6, <1>10 DEF Last
  <2> HIDE DEF m, n
  <2>2. m \in DOMAIN bars
    BY <2>1
  <2>3. PICK k \in DOMAIN bars : place[k] = n
    BY <1>18, <1>20
  <2>4. k = m
    <3>1. place[m] \in 1 .. n
      BY <1>13, <1>14, <2>2
    <3>2. k < m => n < place[m]
      BY <1>17, <2>2, <2>3
    <3> QED BY <1>3, <2>1, <2>3, <3>1, <3>2
  <2> QED BY <1>3, <1>13, <2>1, <2>2, <2>3, <2>4
<1>22. InTime(bars)
  BY <1>10 DEF InTime
<1> QED BY <1>6, <1>19, <1>21, <1>22 DEF bars, places

-----------------------------------------------------------------------------
(* Confirmed signals.                                                      *)

(* A confirmed candidate comes of a rule that was confirmed on the candles *)
(* that were read.                                                         *)
LEMMA ConfirmedTraced ==
  ASSUME Traced, NEW c \in outcome.candidates, c.state = "CONFIRMED"
  PROVE  \E around \in Surroundings : \E r, place :
            /\ SeriesTyped(Read(around)) /\ Read(around).width = 1
            /\ InTime(Read(around).candles)
            /\ MapsInto(Read(around).candles, ReadPlaces(around), place)
            /\ Last(Read(around).candles) = Last(candles)
            /\ c.bullish \in BOOLEAN
            /\ FoundBy(c, r, Read(around)) /\ r.confirmed
<1>1. PICK around \in Surroundings :
            /\ Read(around).ok /\ SeriesTyped(Read(around))
            /\ \E r : FoundBy(c, r, Read(around))
  BY CandidateTraced
<1>2. PICK r : FoundBy(c, r, Read(around))
  BY <1>1
<1>3. candles # <<>> /\ c.bullish \in BOOLEAN
  BY CandidateTraced
<1>4. day \in Days /\ Added(day, candles) /\ Len(candles) <= MaxCandles
  BY DEF Traced
<1>5. /\ Read(around).width = 1
      /\ InTime(Read(around).candles)
      /\ \E place : MapsInto(Read(around).candles, ReadPlaces(around), place)
      /\ Last(Read(around).candles) = Last(candles)
  BY <1>1, <1>3, <1>4, ReadMaps
<1>6. r.confirmed
  BY <1>2 DEF FoundBy
<1> QED BY <1>1, <1>2, <1>3, <1>5, <1>6, Zenon

(* Whatever the day and the settings, a confirmed breakout has a candle    *)
(* that closed beyond its level, and a last one that closed inside again   *)
(* (strategy/retest.py).                                                   *)
THEOREM BreakoutsConfirmBackInsideHolds == RulesSpec => []BreakoutsConfirmBackInside
<1>1. Traced => BreakoutsConfirmBackInside
  <2> SUFFICES ASSUME Traced, NEW c \in outcome.candidates,
                      c.rule = "RANGE_BREAKOUT", c.state = "CONFIRMED"
               PROVE  /\ ~Beyond(Last(candles), c.level, c.bullish)
                      /\ \E i \in DOMAIN AllCandles :
                            Beyond(AllCandles[i], c.level, c.bullish)
    BY DEF BreakoutsConfirmBackInside
  <2>a. PICK around \in Surroundings : \E r, place :
            /\ SeriesTyped(Read(around)) /\ Read(around).width = 1
            /\ InTime(Read(around).candles)
            /\ MapsInto(Read(around).candles, ReadPlaces(around), place)
            /\ Last(Read(around).candles) = Last(candles)
            /\ FoundBy(c, r, Read(around)) /\ r.confirmed
    BY ConfirmedTraced
  <2>1. PICK r, place :
            /\ SeriesTyped(Read(around)) /\ Read(around).width = 1
            /\ InTime(Read(around).candles)
            /\ MapsInto(Read(around).candles, ReadPlaces(around), place)
            /\ Last(Read(around).candles) = Last(candles)
            /\ FoundBy(c, r, Read(around)) /\ r.confirmed
    BY <2>a
  <2> DEFINE series == Read(around)
             bars == series.candles
  <2> HIDE DEF series
  <2>2. r.rule = "RANGE_BREAKOUT" /\ c.level = r.level /\ c.bullish = r.bullish
    BY <2>1 DEF FoundBy
  <2>3. BreakoutSays(r, series)
    BY <2>1, <2>2 DEF FoundBy, ReversalSays, ContinuationSays, series
  <2>4. SeriesTyped(series) /\ series.width = 1 /\ InTime(bars)
        /\ MapsInto(bars, ReadPlaces(around), place) /\ Last(bars) = Last(candles)
    BY <2>1 DEF series
  <2>5. /\ ~Beyond(Last(bars), c.level, c.bullish)
        /\ \E i \in DOMAIN bars : Beyond(bars[i], c.level, c.bullish)
    BY <2>1, <2>2, <2>3, <2>4, BreakoutTells
  <2> HIDE DEF bars
  <2>6. PICK k \in DOMAIN bars : Beyond(bars[k], c.level, c.bullish)
    BY <2>5
  <2>7. place[k] \in DOMAIN AllCandles /\ bars[k] = AllCandles[place[k]]
    BY <2>4 DEF MapsInto, ReadPlaces
  <2>8. \E i \in DOMAIN AllCandles : Beyond(AllCandles[i], c.level, c.bullish)
    BY <2>6, <2>7
  <2>9. ~Beyond(Last(candles), c.level, c.bullish)
    BY <2>4, <2>5
  <2> QED BY <2>8, <2>9
<1> QED BY <1>1, TracedHolds, PTL

(* A story told of the series is told of the candles that were read.       *)
LEMMA StoryCarries ==
  ASSUME NEW bars, NEW places \in SUBSET (DOMAIN AllCandles), NEW place,
         MapsInto(bars, places, place),
         DOMAIN bars \subseteq Int, DOMAIN AllCandles \subseteq Int,
         NEW level, NEW bullish, StoryIn(bars, level, bullish)
  PROVE  \E pierced, reclaimed, touched, left \in places :
            /\ pierced <= reclaimed /\ reclaimed < touched /\ touched < left
            /\ Overshoots(AllCandles[pierced], level, bullish)
            /\ Clears(AllCandles[reclaimed], level, bullish, Strategy.reclaimBps)
            /\ \A i \in places : pierced <= i /\ i < reclaimed =>
                    ~Clears(AllCandles[i], level, bullish, Strategy.reclaimBps)
            /\ Touches(AllCandles[touched], level, bullish)
            /\ ~Touches(AllCandles[left], level, bullish)
            /\ \A i \in places : reclaimed < i /\ i <= left =>
                    ~ClosesThrough(AllCandles[i], level, bullish)
<1> DEFINE all == AllCandles
           D == DOMAIN bars
<1>1. PICK p, m, t, l \in D :
            /\ p <= m /\ m < t /\ t < l
            /\ Overshoots(bars[p], level, bullish)
            /\ Clears(bars[m], level, bullish, Strategy.reclaimBps)
            /\ \A i \in D : p <= i /\ i < m =>
                    ~Clears(bars[i], level, bullish, Strategy.reclaimBps)
            /\ Touches(bars[t], level, bullish)
            /\ ~Touches(bars[l], level, bullish)
            /\ \A i \in D : m < i /\ i <= l => ~ClosesThrough(bars[i], level, bullish)
  BY Zenon DEF StoryIn
<1>2. /\ \A k \in D : place[k] \in places /\ bars[k] = all[place[k]]
      /\ \A k, i \in D : k < i => place[k] < place[i]
      /\ \A i \in places : \E k \in D : place[k] = i
  BY DEF MapsInto
<1>3. places \subseteq Int /\ D \subseteq Int
  OBVIOUS
<1> HIDE DEF all, D
<1>4. \A k, i \in D : k <= i <=> place[k] <= place[i]
  <2> SUFFICES ASSUME NEW k \in D, NEW i \in D PROVE k <= i <=> place[k] <= place[i]
    OBVIOUS
  <2>1. k \in Int /\ i \in Int /\ place[k] \in Int /\ place[i] \in Int
    BY <1>2, <1>3
  <2>2. (k < i => place[k] < place[i]) /\ (i < k => place[i] < place[k])
    BY <1>2
  <2>3. k = i => place[k] = place[i]
    OBVIOUS
  <2> QED BY <2>1, <2>2, <2>3
<1>5. /\ place[p] \in places /\ place[m] \in places /\ place[t] \in places
      /\ place[l] \in places
      /\ place[p] <= place[m] /\ place[m] < place[t] /\ place[t] < place[l]
  BY <1>1, <1>2, <1>4
<1>6. /\ Overshoots(all[place[p]], level, bullish)
      /\ Clears(all[place[m]], level, bullish, Strategy.reclaimBps)
      /\ Touches(all[place[t]], level, bullish)
      /\ ~Touches(all[place[l]], level, bullish)
  <2>1. /\ bars[p] = all[place[p]] /\ bars[m] = all[place[m]]
        /\ bars[t] = all[place[t]] /\ bars[l] = all[place[l]]
    BY <1>2
  <2> QED BY <1>1, <2>1
<1>7. \A i \in places : place[p] <= i /\ i < place[m] =>
            ~Clears(all[i], level, bullish, Strategy.reclaimBps)
  <2> SUFFICES ASSUME NEW i \in places, place[p] <= i, i < place[m]
               PROVE  ~Clears(all[i], level, bullish, Strategy.reclaimBps)
    OBVIOUS
  <2>1. PICK k \in D : place[k] = i
    BY <1>2
  <2>2. place[m] \in Int /\ place[k] \in Int /\ k \in Int /\ m \in Int
    BY <1>2, <1>3
  <2>3. p <= k /\ ~(m <= k)
    BY <1>4, <2>1, <2>2
  <2>4. ~Clears(bars[k], level, bullish, Strategy.reclaimBps)
    BY <1>1, <2>2, <2>3
  <2>5. bars[k] = all[i]
    BY <1>2, <2>1
  <2> QED BY <2>4, <2>5
<1>8. \A i \in places : place[m] < i /\ i <= place[l] => ~ClosesThrough(all[i], level, bullish)
  <2> SUFFICES ASSUME NEW i \in places, place[m] < i, i <= place[l]
               PROVE  ~ClosesThrough(all[i], level, bullish)
    OBVIOUS
  <2>1. PICK k \in D : place[k] = i
    BY <1>2
  <2>2. place[m] \in Int /\ place[k] \in Int /\ k \in Int /\ m \in Int
    BY <1>2, <1>3
  <2>3. k <= l /\ ~(k <= m)
    BY <1>4, <2>1, <2>2
  <2>4. ~ClosesThrough(bars[k], level, bullish)
    BY <1>1, <2>2, <2>3
  <2>5. bars[k] = all[i]
    BY <1>2, <2>1
  <2> QED BY <2>4, <2>5
<1>9. \E pierced, reclaimed, touched, left \in places :
            /\ pierced <= reclaimed /\ reclaimed < touched /\ touched < left
            /\ Overshoots(all[pierced], level, bullish)
            /\ Clears(all[reclaimed], level, bullish, Strategy.reclaimBps)
            /\ \A i \in places : pierced <= i /\ i < reclaimed =>
                    ~Clears(all[i], level, bullish, Strategy.reclaimBps)
            /\ Touches(all[touched], level, bullish)
            /\ ~Touches(all[left], level, bullish)
            /\ \A i \in places : reclaimed < i /\ i <= left =>
                    ~ClosesThrough(all[i], level, bullish)
  BY <1>5, <1>6, <1>7, <1>8
<1> QED BY <1>9 DEF all

(* Whatever the day and the settings, the candles a confirmed reversal was *)
(* evaluated on tell its whole story: the level pierced, reclaimed,        *)
(* touched again and left (strategy/reclaim.py, strategy/retest.py).       *)
THEOREM ReversalsTellTheirStoryHolds == RulesSpec => []ReversalsTellTheirStory
<1>1. Traced => ReversalsTellTheirStory
  <2> SUFFICES ASSUME Traced, NEW c \in outcome.candidates,
                      c.rule = "SWEEP_REVERSAL", c.state = "CONFIRMED"
               PROVE  \E missing \in {around.missing : around \in Surroundings} :
                      \E read \in {{i \in DOMAIN AllCandles : AllCandles[i].at # missing}} :
                      \E pierced, reclaimed, touched, left \in read :
                        /\ pierced <= reclaimed /\ reclaimed < touched /\ touched < left
                        /\ IF c.bullish
                           THEN AllCandles[pierced].low < c.level
                           ELSE AllCandles[pierced].high > c.level
                        /\ Clears(AllCandles[reclaimed], c.level, c.bullish, Strategy.reclaimBps)
                        /\ \A i \in read : pierced <= i /\ i < reclaimed =>
                                ~Clears(AllCandles[i], c.level, c.bullish, Strategy.reclaimBps)
                        /\ IF c.bullish
                           THEN AllCandles[touched].low * BPS
                                    <= c.level * (BPS + Strategy.retestBps)
                           ELSE AllCandles[touched].high * BPS
                                    >= c.level * (BPS - Strategy.retestBps)
                        /\ IF c.bullish
                           THEN AllCandles[left].low * BPS > c.level * (BPS + Strategy.retestBps)
                           ELSE AllCandles[left].high * BPS < c.level * (BPS - Strategy.retestBps)
                        /\ \A i \in read : reclaimed < i /\ i <= left =>
                                ~Clears(AllCandles[i], c.level, ~c.bullish, Strategy.retestBps)
    BY Zenon DEF ReversalsTellTheirStory
  <2>a. PICK around \in Surroundings : \E r, place :
            /\ SeriesTyped(Read(around)) /\ Read(around).width = 1
            /\ InTime(Read(around).candles)
            /\ MapsInto(Read(around).candles, ReadPlaces(around), place)
            /\ FoundBy(c, r, Read(around)) /\ r.confirmed
            /\ c.bullish \in BOOLEAN
    BY ConfirmedTraced
  <2>1. PICK r, place :
            /\ SeriesTyped(Read(around)) /\ Read(around).width = 1
            /\ InTime(Read(around).candles)
            /\ MapsInto(Read(around).candles, ReadPlaces(around), place)
            /\ FoundBy(c, r, Read(around)) /\ r.confirmed
            /\ c.bullish \in BOOLEAN
    BY <2>a
  <2> DEFINE series == Read(around)
             bars == series.candles
             level == c.level
             bullish == c.bullish
             read == ReadPlaces(around)
             all == AllCandles
  <2> HIDE DEF series
  <2>2. r.rule = "SWEEP_REVERSAL" /\ c.level = r.level /\ c.bullish = r.bullish
    BY <2>1 DEF FoundBy
  <2>3. ReversalSays(r, series)
    BY <2>1, <2>2 DEF FoundBy, BreakoutSays, ContinuationSays, series
  <2>4. /\ SeriesTyped(series) /\ series.width = 1 /\ InTime(bars)
        /\ MapsInto(bars, read, place)
    BY <2>1 DEF series
  <2>5. level > 0 /\ StoryIn(bars, level, bullish)
    BY <2>1, <2>2, <2>3, <2>4, ReversalTells
  <2>6. /\ DOMAIN bars \subseteq Int
        /\ \A i \in DOMAIN bars : bars[i] \in Candle
    <3>1. bars \in Seq(Candle)
      BY <2>4 DEF SeriesTyped
    <3> QED BY <3>1, EntriesOf
  <2>7. DOMAIN all \subseteq Int /\ read \subseteq DOMAIN all
        /\ \A i \in DOMAIN all : all[i] \in Candle
    <3>1. day \in Days /\ candles # <<>> /\ Added(day, candles)
      BY CandidateTraced DEF Traced
    <3>2. all \in Seq(Candle) /\ Len(all) \in Nat /\ DOMAIN all = 1 .. Len(all)
      BY <3>1, AllInTime
    <3>3. read \subseteq DOMAIN all
      BY DEF ReadPlaces
    <3> HIDE DEF all, read
    <3>4. \A i \in DOMAIN all : all[i] \in Candle
      BY <3>2, EntriesOf
    <3> QED BY <3>2, <3>3, <3>4
  <2>8. PICK over, back, near, off \in read :
            /\ over <= back /\ back < near /\ near < off
            /\ Overshoots(all[over], level, bullish)
            /\ Clears(all[back], level, bullish, Strategy.reclaimBps)
            /\ \A i \in read : over <= i /\ i < back =>
                    ~Clears(all[i], level, bullish, Strategy.reclaimBps)
            /\ Touches(all[near], level, bullish)
            /\ ~Touches(all[off], level, bullish)
            /\ \A i \in read : back < i /\ i <= off =>
                    ~ClosesThrough(all[i], level, bullish)
    <3> HIDE DEF bars, level, bullish, read
    <3> QED BY <2>4, <2>5, <2>6, <2>7, StoryCarries
  <2>9. BasisPoints = BPS
    BY DEF BasisPoints, BPS
  <2>10. /\ IF bullish THEN all[over].low < level ELSE all[over].high > level
         /\ IF bullish THEN all[near].low * BPS <= level * (BPS + Strategy.retestBps)
            ELSE all[near].high * BPS >= level * (BPS - Strategy.retestBps)
    BY <2>8, <2>9, Zenon DEF Overshoots, Touches
  <2>11. IF bullish THEN all[off].low * BPS > level * (BPS + Strategy.retestBps)
         ELSE all[off].high * BPS < level * (BPS - Strategy.retestBps)
    <3> DEFINE low == all[off].low * BPS
               high == all[off].high * BPS
               above == level * (BPS + Strategy.retestBps)
               below == level * (BPS - Strategy.retestBps)
    <3>1. IF bullish THEN ~(low <= above) ELSE ~(high >= below)
      BY <2>8, <2>9, Zenon DEF Touches
    <3>2. low \in Int /\ high \in Int /\ above \in Int /\ below \in Int
      <4>1. all[off] \in Candle
        BY <2>7
      <4>2. all[off].low \in Int /\ all[off].high \in Int
        BY <4>1, CandleTyped
      <4>3. Strategy.retestBps \in Int /\ level \in Int /\ BPS \in Int
        <5>1. c.level \in Nat
          BY CandidateTraced
        <5> QED BY <5>1, StrategyTyped DEF BPS
      <4> HIDE DEF level, all
      <4> QED BY <4>2, <4>3
    <3> HIDE DEF low, high, above, below
    <3>3. IF bullish THEN low > above ELSE high < below
      BY <3>1, <3>2
    <3> QED BY <3>3, Zenon DEF low, high, above, below
  <2>12. \A i \in read : back < i /\ i <= off =>
            ~Clears(all[i], level, ~bullish, Strategy.retestBps)
    BY <2>8, Zenon DEF ClosesThrough
  <2>13. \E pierced, reclaimed, touched, left \in read :
              /\ pierced <= reclaimed /\ reclaimed < touched /\ touched < left
              /\ IF c.bullish
                 THEN AllCandles[pierced].low < c.level
                 ELSE AllCandles[pierced].high > c.level
              /\ Clears(AllCandles[reclaimed], c.level, c.bullish, Strategy.reclaimBps)
              /\ \A i \in read : pierced <= i /\ i < reclaimed =>
                      ~Clears(AllCandles[i], c.level, c.bullish, Strategy.reclaimBps)
              /\ IF c.bullish
                 THEN AllCandles[touched].low * BPS
                          <= c.level * (BPS + Strategy.retestBps)
                 ELSE AllCandles[touched].high * BPS
                          >= c.level * (BPS - Strategy.retestBps)
              /\ IF c.bullish
                 THEN AllCandles[left].low * BPS > c.level * (BPS + Strategy.retestBps)
                 ELSE AllCandles[left].high * BPS < c.level * (BPS - Strategy.retestBps)
              /\ \A i \in read : reclaimed < i /\ i <= left =>
                      ~Clears(AllCandles[i], c.level, ~c.bullish, Strategy.retestBps)
    <3> HIDE DEF read
    <3> QED BY <2>8, <2>10, <2>11, <2>12, Zenon
  <2>14. around.missing \in {a.missing : a \in Surroundings}
    OBVIOUS
  <2>15. read = {i \in DOMAIN AllCandles : AllCandles[i].at # around.missing}
    BY DEF ReadPlaces
  <2>16. read \in {{i \in DOMAIN AllCandles : AllCandles[i].at # around.missing}}
    BY <2>15
  <2> WITNESS around.missing \in {a.missing : a \in Surroundings}
  <2> WITNESS ReadPlaces(around)
                \in {{i \in DOMAIN AllCandles : AllCandles[i].at # around.missing}}
  <2> QED BY <2>13
<1> QED BY <1>1, TracedHolds, PTL

=============================================================================
