-------------------------- MODULE ResearchCandidates --------------------------
(***************************************************************************)
(* What the other jobs may rely on about the setup candidates of one       *)
(* instrument: never more than the limit are active, each moves forward    *)
(* and never back, and the event of a transition is stored with it (only   *)
(* the event of a new candidate may come later, or never).                 *)
(***************************************************************************)
EXTENDS Integers, FiniteSets

CONSTANTS
    Candidates,         \* bound: the candidates there will ever be
    MaxCandidates       \* max_active_candidates_per_instrument

ASSUME CandidatesAssumption ==
    /\ IsFiniteSet(Candidates)
    /\ MaxCandidates \in Nat

VARIABLES
    candidates,     \* setup_candidates: id -> its state
    candidateEvent  \* setup_candidate_events: id -> state of the last event

candidateVars == <<candidates, candidateEvent>>

ActiveStates == {"DETECTED", "CONFIRMED"}

ClosedStates == {"EXPIRED", "SUPERSEDED"}

CandidatesType ==
    /\ candidates \in
         [Candidates -> ActiveStates \cup ClosedStates \cup {"NONE"}]
    /\ candidateEvent \in
         [Candidates -> ActiveStates \cup ClosedStates \cup {"NONE"}]

CandidatesInit ==
    /\ candidates = [c \in Candidates |-> "NONE"]
    /\ candidateEvent = [c \in Candidates |-> "NONE"]

Active(c) == candidates[c] \in ActiveStates

Closed(c) == candidates[c] \in ClosedStates

(* Ids are interchangeable, so they are used up in one order.              *)
Unopened == {c \in Candidates : candidates[c] = "NONE"}

Open(c) ==
    /\ Unopened # {}
    /\ c = CHOOSE d \in Unopened : TRUE
    /\ Cardinality({d \in Candidates : Active(d)}) < MaxCandidates
    /\ \E state \in ActiveStates :
           candidates' = [candidates EXCEPT ![c] = state]
    /\ UNCHANGED candidateEvent

Record(c) ==
    /\ Active(c)
    /\ candidateEvent' = [candidateEvent EXCEPT ![c] = candidates[c]]
    /\ UNCHANGED candidates

Move(c, state) ==
    /\ candidates' = [candidates EXCEPT ![c] = state]
    /\ candidateEvent' = [candidateEvent EXCEPT ![c] = state]

Confirm(c) == candidates[c] = "DETECTED" /\ Move(c, "CONFIRMED")

Close(c) == Active(c) /\ \E state \in ClosedStates : Move(c, state)

CandidatesNext ==
    \E c \in Candidates : Open(c) \/ Record(c) \/ Confirm(c) \/ Close(c)

CandidatesSpec == CandidatesInit /\ [][CandidatesNext]_candidateVars

=============================================================================
