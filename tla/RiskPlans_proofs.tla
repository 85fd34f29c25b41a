--------------------------- MODULE RiskPlans_proofs ---------------------------
(***************************************************************************)
(* Safety of RiskPlans for any number of candidates, plans, versions,      *)
(* concurrent evaluations and failures.                                    *)
(***************************************************************************)
EXTENDS RiskPlans, FiniteSetTheorems, TLAPS

-----------------------------------------------------------------------------
(* The invariant.                                                          *)

RiskType ==
    [at : {"down", "idle", "evaluate", "mirror"},
     todo : SUBSET Candidates, plans : SUBSET Plans, open : SUBSET Candidates]

Closing == {"EXPIRED", "SUPERSEDED", "DATA_INVALID"}

(* The eligible plans hold their active key and belong to somebody.        *)
RowInv ==
    \A p \in Plans :
        /\ Eligible(p) <=> plans[p].slot
        /\ Eligible(p) => /\ plans[p].candidate \in Candidates
                          /\ plans[p].version \in Versions

(***************************************************************************)
(* What an evaluation e of candidate c implies.  It retires eligible plans *)
(* of c only.  One that has a plan to insert found no eligible plan of     *)
(* that version, and one that supersedes keeps an eligible plan of another *)
(* version than each that it is going to supersede.                        *)
(***************************************************************************)
Sound(c, e) ==
    /\ e \in Evaluation
    /\ e.at # "retire" => e.todo = {}
    /\ e.todo \subseteq EligibleOf(c)
    /\ e.at = "retire" => e.status \in Closing
    /\ e.at = "insert" =>
           /\ e.version \in Versions
           /\ \A p \in EligibleOf(c) : plans[p].version # e.version
    /\ e.at = "retire" /\ e.status = "SUPERSEDED" =>
           \A p \in e.todo : \E q \in EligibleOf(c) \ e.todo :
               plans[q].version # plans[p].version

EvalInv == \A c \in Candidates : Sound(c, evaluations[c])

(* Evaluations run in their part of the cycle, plans are mirrored in theirs.*)
CycleInv ==
    /\ risk.at # "evaluate" => Running = {}
    /\ risk.todo \cap Running = {}
    /\ risk.at # "mirror" => risk.plans = {}
    /\ risk.plans \subseteq EligiblePlans

(* The last event of a closed candidate names the state it has.            *)
EventInv ==
    \A c \in Candidates :
        candidateEvent[c] \in ClosedStates => candidates[c] = candidateEvent[c]

AtMostOne(S) == \A p, q \in S : p = q

(* Without a failure a candidate keeps one plan at most.                   *)
OneInv ==
    failures = 0 =>
        \A c \in Candidates : AtMostOne(EligibleOf(c) \ evaluations[c].todo)

IInv == TypeOK /\ RowInv /\ EvalInv /\ CycleInv /\ EventInv /\ OneInv

-----------------------------------------------------------------------------
(* What happens to the rows.                                               *)

(* A plan that is retired is eligible no more, all others stay.            *)
LEMMA RetiredRows ==
  ASSUME IInv, NEW p \in Plans, NEW status \in Closing, plans' = Retired(p, status)
  PROVE  /\ plans' \in [Plans -> PlanRow]
         /\ RowInv'
         /\ plans'[p].status = status
         /\ \A q \in Plans \ {p} : plans'[q] = plans[q]
         /\ EligiblePlans' = EligiblePlans \ {p}
         /\ \A c : EligibleOf(c)' = EligibleOf(c) \ {p}
<1> DEFINE row == [NoPlan EXCEPT !.status = status]
<1>1. row \in PlanRow /\ row.status = status /\ row.slot = FALSE
  BY DEF NoPlan, PlanRow, PlanStatus, Closing
<1>2. plans' = [plans EXCEPT ![p] = row] /\ plans \in [Plans -> PlanRow]
  BY DEF Retired, IInv, TypeOK
<1> HIDE DEF row
<1>3. /\ plans' \in [Plans -> PlanRow] /\ plans'[p] = row
      /\ \A q \in Plans \ {p} : plans'[q] = plans[q]
  BY <1>1, <1>2
<1>4. ~Eligible(p)'
  BY <1>1, <1>3 DEF Eligible, Closing
<1>5. RowInv'
  BY <1>1, <1>3, <1>4 DEF IInv, RowInv, Eligible
<1>6. EligiblePlans' = EligiblePlans \ {p}
  BY <1>3, <1>4 DEF EligiblePlans, Eligible
<1>7. \A c : EligibleOf(c)' = EligibleOf(c) \ {p}
  BY <1>3, <1>6 DEF EligibleOf, EligiblePlans
<1> QED
  BY <1>1, <1>3, <1>5, <1>6, <1>7

(* A plan that is inserted is eligible, all others stay.                   *)
LEMMA InsertedRows ==
  ASSUME IInv, NEW p \in UnusedPlans, NEW c \in Candidates, NEW v \in Versions,
         plans' = [plans EXCEPT ![p] = [status |-> "ELIGIBLE", candidate |-> c,
                                        version |-> v, slot |-> TRUE]]
  PROVE  /\ plans' \in [Plans -> PlanRow]
         /\ RowInv'
         /\ p \in Plans /\ plans'[p].version = v
         /\ p \notin EligiblePlans
         /\ \A q \in Plans \ {p} : plans'[q] = plans[q]
         /\ EligiblePlans' = EligiblePlans \cup {p}
         /\ EligibleOf(c)' = EligibleOf(c) \cup {p}
         /\ \A d \in Candidates \ {c} : EligibleOf(d)' = EligibleOf(d)
<1> DEFINE row == [status |-> "ELIGIBLE", candidate |-> c, version |-> v, slot |-> TRUE]
<1>1. /\ row \in PlanRow /\ row.status = "ELIGIBLE" /\ row.slot = TRUE
      /\ row.candidate = c /\ row.version = v
  BY DEF PlanRow, PlanStatus
<1>2. plans \in [Plans -> PlanRow] /\ p \in Plans /\ ~Eligible(p)
  BY DEF UnusedPlans, NoPlan, IInv, TypeOK, Eligible
<1> HIDE DEF row
<1>3. /\ plans' \in [Plans -> PlanRow] /\ plans'[p] = row
      /\ \A q \in Plans \ {p} : plans'[q] = plans[q]
  BY <1>1, <1>2 DEF row
<1>4. RowInv'
  BY <1>1, <1>3 DEF IInv, RowInv, Eligible
<1>5. EligiblePlans' = EligiblePlans \cup {p} /\ p \notin EligiblePlans
  BY <1>1, <1>2, <1>3 DEF EligiblePlans, Eligible
<1>6. /\ EligibleOf(c)' = EligibleOf(c) \cup {p}
      /\ \A d \in Candidates \ {c} : EligibleOf(d)' = EligibleOf(d)
  BY <1>1, <1>2, <1>3, <1>5 DEF EligibleOf, EligiblePlans
<1> QED
  BY <1>1, <1>2, <1>3, <1>4, <1>5, <1>6

(* An evaluation whose candidate keeps its plans stays sound.              *)
LEMMA SoundStays ==
  ASSUME NEW c, NEW e, Sound(c, e), EligibleOf(c)' = EligibleOf(c),
         \A p \in EligibleOf(c) : plans'[p] = plans[p]
  PROVE  Sound(c, e)'
  BY DEF Sound

(* No evaluation at all is sound.                                          *)
LEMMA NoneIsSound ==
  ASSUME NEW c
  PROVE  /\ Sound(c, NoEvaluation) /\ Sound(c, NoEvaluation)'
         /\ NoEvaluation.at = "none" /\ NoEvaluation.todo = {}
<1>1. /\ NoEvaluation \in Evaluation
      /\ NoEvaluation.at = "none" /\ NoEvaluation.todo = {}
  BY DEF NoEvaluation, Evaluation
<1> QED
  BY <1>1 DEF Sound

(* What an evaluation that retires looks like.                             *)
LEMMA RetiringIs ==
  ASSUME NEW status \in Closing, NEW todo \in SUBSET Plans
  PROVE  /\ Retiring(status, todo) \in Evaluation
         /\ Retiring(status, todo).todo = todo
         /\ Retiring(status, todo).at # "insert"
         /\ Retiring(status, todo).at = "retire" =>
                Retiring(status, todo).status = status
         /\ Retiring(status, todo).at # "retire" => todo = {}
<1>1. CASE todo = {}
  BY <1>1 DEF Retiring, NoEvaluation, Evaluation
<1>2. CASE todo # {}
  BY <1>2 DEF Retiring, Evaluation, PlanStatus, Closing
<1> QED
  BY <1>1, <1>2

(* A failure is counted.                                                   *)
LEMMA FailureCounts ==
  ASSUME TypeOK, Fails
  PROVE  failures' \in Nat /\ failures' # 0
  BY DEF TypeOK, Fails

-----------------------------------------------------------------------------
(* The steps of the risk job.                                              *)

(* What a step leaves to be shown.                                         *)
Keeps ==
    /\ plans' \in [Plans -> PlanRow]
    /\ risk' \in RiskType
    /\ evaluations' \in [Candidates -> Evaluation]
    /\ failures' \in Nat
    /\ RowInv' /\ EvalInv' /\ CycleInv' /\ OneInv'

(* The rows stay: so do what is eligible and what is sound.                *)
LEMMA SameRows ==
  ASSUME IInv, UNCHANGED plans
  PROVE  /\ plans' \in [Plans -> PlanRow]
         /\ RowInv'
         /\ EligiblePlans' = EligiblePlans
         /\ \A c : EligibleOf(c)' = EligibleOf(c)
         /\ \A c, e : Sound(c, e) => Sound(c, e)'
  BY DEF IInv, TypeOK, RowInv, EligiblePlans, EligibleOf, Eligible, Sound

(* An evaluation starts.                                                   *)
LEMMA StartsKeeps ==
  ASSUME IInv, NEW c \in Candidates, NEW e, Starts(c, e), Sound(c, e)
  PROVE  Keeps
<1>1. /\ risk.at = "evaluate" /\ c \in risk.todo /\ risk \in RiskType
      /\ risk' = [risk EXCEPT !.todo = @ \ {c}]
      /\ evaluations' = [evaluations EXCEPT ![c] = e]
      /\ UNCHANGED <<plans, failures>>
      /\ evaluations \in [Candidates -> Evaluation] /\ e \in Evaluation
  BY DEF Starts, IInv, TypeOK, RiskType, Sound
<1>2. /\ risk' \in RiskType /\ risk'.at = "evaluate"
      /\ risk'.todo = risk.todo \ {c} /\ risk'.plans = risk.plans
  BY <1>1 DEF RiskType
<1>3. /\ evaluations'[c] = e /\ evaluations' \in [Candidates -> Evaluation]
      /\ \A d \in Candidates \ {c} : evaluations'[d] = evaluations[d]
  BY <1>1
<1>4. EvalInv'
  BY <1>1, <1>3, SameRows DEF IInv, EvalInv
<1>5. CycleInv'
  BY <1>1, <1>2, <1>3, SameRows DEF IInv, CycleInv, Running
<1>6. evaluations[c].todo = {}
  BY <1>1 DEF IInv, CycleInv, Running, EvalInv, Sound
<1>7. OneInv'
  BY <1>1, <1>3, <1>6, SameRows DEF IInv, OneInv, AtMostOne
<1> QED
  BY <1>1, <1>2, <1>3, <1>4, <1>5, <1>7, SameRows DEF Keeps, IInv, TypeOK

(* A plan is found.                                                        *)
LEMMA FindStep ==
  ASSUME IInv, NEW c \in Candidates, FindPlan(c)
  PROVE  Keeps
<1>1. PICK version \in Versions :
          /\ ~Suppressed(c, version)
          /\ Starts(c, [at |-> "insert", version |-> version, status |-> "NONE",
                        todo |-> {}])
  BY DEF FindPlan
<1> DEFINE e == [at |-> "insert", version |-> version, status |-> "NONE", todo |-> {}]
<1>2. /\ e \in Evaluation /\ e.at = "insert" /\ e.version = version
      /\ e.todo = {}
  BY DEF Evaluation
<1>3. \A p \in EligibleOf(c) : plans[p].version # version
  BY <1>1 DEF Suppressed, EligibleOf, EligiblePlans, IInv, RowInv
<1> HIDE DEF e
<1>4. Sound(c, e)
  BY <1>2, <1>3 DEF Sound
<1> QED
  BY <1>1, <1>4, StartsKeeps DEF e

(* A rejection is mirrored.                                                *)
LEMMA RejectStep ==
  ASSUME IInv, NEW c \in Candidates, Reject(c)
  PROVE  Keeps
<1>1. PICK status \in {"EXPIRED", "DATA_INVALID"} :
          Starts(c, Retiring(status, EligibleOf(c)))
  BY DEF Reject
<1>2. status \in Closing /\ status # "SUPERSEDED" /\ EligibleOf(c) \in SUBSET Plans
  BY DEF Closing, EligibleOf, EligiblePlans
<1> DEFINE e == Retiring(status, EligibleOf(c))
<1>3. /\ e \in Evaluation /\ e.todo = EligibleOf(c) /\ e.at # "insert"
      /\ e.at = "retire" => e.status = status
      /\ e.at # "retire" => e.todo = {}
  BY <1>2, RetiringIs
<1> HIDE DEF e
<1>4. Sound(c, e)
  BY <1>2, <1>3 DEF Sound
<1> QED
  BY <1>1, <1>4, StartsKeeps DEF e

(* An evaluation that runs goes on as another one.                         *)
LEMMA EvaluationGoesOn ==
  ASSUME IInv, NEW c \in Running, NEW e, Sound(c, e)', e.at # "insert",
         evaluations' = [evaluations EXCEPT ![c] = e],
         UNCHANGED risk, EligiblePlans \subseteq EligiblePlans' \cup evaluations[c].todo,
         \A d \in Candidates \ {c} : Sound(d, evaluations[d])'
  PROVE  /\ EvalInv' /\ CycleInv'
         /\ risk' \in RiskType
         /\ evaluations' \in [Candidates -> Evaluation]
         /\ evaluations'[c] = e
         /\ \A d \in Candidates \ {c} : evaluations'[d] = evaluations[d]
<1>1. /\ c \in Candidates /\ evaluations \in [Candidates -> Evaluation]
      /\ risk \in RiskType /\ risk.at = "evaluate" /\ risk.plans = {}
      /\ e \in Evaluation
  BY DEF Running, IInv, TypeOK, RiskType, CycleInv, Sound
<1>2. /\ evaluations'[c] = e /\ evaluations' \in [Candidates -> Evaluation]
      /\ \A d \in Candidates \ {c} : evaluations'[d] = evaluations[d]
  BY <1>1
<1>3. EvalInv'
  BY <1>2 DEF EvalInv
<1>4. Running' \subseteq Running
  BY <1>2 DEF Running
<1>5. CycleInv'
  BY <1>1, <1>4 DEF CycleInv, IInv
<1> QED
  BY <1>1, <1>2, <1>3, <1>5

(* An evaluation that fails ends.                                          *)
LEMMA EvaluationFails ==
  ASSUME IInv, NEW c \in Running, UNCHANGED <<plans, risk>>, Fails,
         evaluations' = [evaluations EXCEPT ![c] = NoEvaluation]
  PROVE  Keeps
<1>1. \A d \in Candidates \ {c} : Sound(d, evaluations[d])'
  <2>1. \A d \in Candidates \ {c} : evaluations'[d] = evaluations[d]
    BY DEF IInv, TypeOK
  <2> QED
    BY <2>1, SameRows DEF IInv, EvalInv
<1>2. failures' \in Nat /\ OneInv'
  BY FailureCounts DEF IInv, OneInv
<1>3. EvalInv' /\ CycleInv' /\ risk' \in RiskType
      /\ evaluations' \in [Candidates -> Evaluation]
  BY <1>1, NoneIsSound, SameRows, EvaluationGoesOn
<1> QED
  BY <1>2, <1>3, SameRows DEF Keeps

(* The plan is inserted, or is not.                                        *)
LEMMA InsertStep ==
  ASSUME IInv, NEW c \in Candidates, InsertPlan(c)
  PROVE  Keeps
<1> DEFINE p == CHOOSE p \in UnusedPlans : TRUE
           v == evaluations[c].version
           row == [status |-> "ELIGIBLE", candidate |-> c, version |-> v, slot |-> TRUE]
<1>1. /\ c \in Running /\ evaluations[c].at = "insert" /\ UNCHANGED risk
      /\ v \in Versions /\ evaluations[c].todo = {}
      /\ \A q \in EligibleOf(c) : plans[q].version # v
      /\ \A d \in Candidates : Sound(d, evaluations[d])
  BY DEF InsertPlan, Running, IInv, EvalInv, Sound
<1>2. ASSUME UnusedPlans # {}, plans' = [plans EXCEPT ![p] = row],
             NEW e, evaluations' = [evaluations EXCEPT ![c] = e],
             Sound(c, e)', e.at # "insert", failures' \in Nat,
             failures' = 0 => failures = 0 /\ e.todo = EligibleOf(c)
      PROVE  Keeps
  <2>1. p \in UnusedPlans
    BY <1>2
  <2> HIDE DEF p
  <2>2. /\ plans' \in [Plans -> PlanRow] /\ RowInv'
        /\ p \notin EligiblePlans
        /\ \A q \in Plans \ {p} : plans'[q] = plans[q]
        /\ EligiblePlans' = EligiblePlans \cup {p}
        /\ EligibleOf(c)' = EligibleOf(c) \cup {p}
        /\ \A d \in Candidates \ {c} : EligibleOf(d)' = EligibleOf(d)
    BY <1>1, <1>2, <2>1, InsertedRows
  <2>3. \A d \in Candidates \ {c} : Sound(d, evaluations[d])'
    <3> SUFFICES ASSUME NEW d \in Candidates \ {c}
                 PROVE  Sound(d, evaluations[d])'
      OBVIOUS
    <3>1. \A q \in EligibleOf(d) : plans'[q] = plans[q]
      BY <2>2 DEF EligibleOf, EligiblePlans
    <3>2. evaluations'[d] = evaluations[d]
      BY <1>2 DEF IInv, TypeOK
    <3> QED
      BY <1>1, <2>2, <3>1, <3>2, SoundStays
  <2>4. /\ EvalInv' /\ CycleInv' /\ risk' \in RiskType
        /\ evaluations' \in [Candidates -> Evaluation]
        /\ evaluations'[c] = e
        /\ \A d \in Candidates \ {c} : evaluations'[d] = evaluations[d]
    BY <1>1, <1>2, <2>2, <2>3, EvaluationGoesOn
  <2>5. OneInv'
    <3> SUFFICES ASSUME failures' = 0, NEW d \in Candidates
                 PROVE  AtMostOne(EligibleOf(d) \ evaluations[d].todo)'
      BY DEF OneInv
    <3>1. CASE d = c
      BY <1>2, <2>2, <2>4, <3>1 DEF AtMostOne
    <3>2. CASE d # c
      BY <1>2, <2>2, <2>4, <3>2 DEF AtMostOne, IInv, OneInv
    <3> QED
      BY <3>1, <3>2
  <2> QED
    BY <1>2, <2>2, <2>4, <2>5 DEF Keeps
<1>3. CASE /\ UnusedPlans # {} /\ plans' = [plans EXCEPT ![p] = row]
           /\ evaluations' = [evaluations EXCEPT ![c] = Superseding(c)]
           /\ DatabaseWorks
  <2> PICK e : e = Superseding(c)
    OBVIOUS
  <2>1. p \in UnusedPlans
    BY <1>3
  <2> HIDE DEF p
  <2>2. EligibleOf(c) \in SUBSET Plans
    BY DEF EligibleOf, EligiblePlans
  <2>3. /\ e \in Evaluation /\ e.todo = EligibleOf(c) /\ e.at # "insert"
        /\ e.at = "retire" => e.status = "SUPERSEDED"
        /\ e.at # "retire" => e.todo = {}
    BY <2>2, RetiringIs DEF Superseding, Predecessors, Closing
  <2>4. /\ EligibleOf(c)' = EligibleOf(c) \cup {p} /\ p \notin EligibleOf(c)
        /\ plans'[p].version = v
        /\ \A q \in EligibleOf(c) : plans'[q] = plans[q]
    <3>1. /\ EligibleOf(c)' = EligibleOf(c) \cup {p} /\ p \notin EligiblePlans
          /\ plans'[p].version = v
          /\ \A q \in Plans \ {p} : plans'[q] = plans[q]
      BY <1>1, <1>3, <2>1, InsertedRows
    <3> QED
      BY <3>1 DEF EligibleOf, EligiblePlans
  <2>5. \A q \in e.todo : \E r \in EligibleOf(c)' \ e.todo :
            plans'[r].version # plans'[q].version
    BY <1>1, <2>3, <2>4
  <2>6. Sound(c, e)'
    BY <2>3, <2>4, <2>5 DEF Sound, Closing
  <2> QED
    BY <1>2, <1>3, <2>3, <2>6 DEF DatabaseWorks, IInv, TypeOK, p
<1>4. CASE /\ UnusedPlans # {} /\ plans' = [plans EXCEPT ![p] = row]
           /\ evaluations' = [evaluations EXCEPT ![c] = NoEvaluation]
           /\ Fails
  <2>1. failures' \in Nat /\ failures' # 0
    BY <1>4, FailureCounts DEF IInv
  <2> QED
    BY <1>2, <1>4, <2>1, NoneIsSound
<1>5. CASE /\ evaluations' = [evaluations EXCEPT ![c] = NoEvaluation]
           /\ UNCHANGED <<plans, failures>>
  <2>1. /\ EvalInv' /\ CycleInv' /\ risk' \in RiskType
        /\ evaluations' \in [Candidates -> Evaluation]
        /\ evaluations'[c] = NoEvaluation
        /\ \A d \in Candidates \ {c} : evaluations'[d] = evaluations[d]
    <3>1. \A d \in Candidates \ {c} : evaluations'[d] = evaluations[d]
      BY <1>5 DEF IInv, TypeOK
    <3>2. \A d \in Candidates \ {c} : Sound(d, evaluations[d])'
      BY <1>5, <3>1, SameRows DEF IInv, EvalInv
    <3> QED
      BY <1>1, <1>5, <3>2, NoneIsSound, SameRows, EvaluationGoesOn
  <2>2. OneInv'
    BY <1>1, <1>5, <2>1, SameRows, NoneIsSound DEF IInv, OneInv, AtMostOne
  <2> QED
    BY <1>5, <2>1, <2>2, SameRows DEF Keeps, IInv, TypeOK
<1>6. CASE /\ evaluations' = [evaluations EXCEPT ![c] = NoEvaluation]
           /\ Fails /\ UNCHANGED plans
  BY <1>1, <1>6, EvaluationFails
<1> QED
  BY <1>3, <1>4, <1>5, <1>6 DEF InsertPlan, AfterFailedInsert

(* A plan is retired, or is not.                                           *)
LEMMA RetireStep ==
  ASSUME IInv, NEW c \in Candidates, NEW p \in Plans, RetirePlan(c, p)
  PROVE  Keeps
<1> DEFINE status == evaluations[c].status
           todo == evaluations[c].todo
<1>1. /\ c \in Running /\ UNCHANGED risk /\ p \in todo
      /\ Sound(c, evaluations[c]) /\ evaluations[c].at = "retire"
      /\ status \in Closing /\ todo \subseteq EligibleOf(c) /\ todo \in SUBSET Plans
      /\ evaluations \in [Candidates -> Evaluation]
  BY DEF RetirePlan, Running, IInv, EvalInv, Sound, EligibleOf, EligiblePlans, TypeOK
<1>2. CASE /\ plans' = Retired(p, status)
           /\ evaluations' = [evaluations EXCEPT ![c] = Retiring(status, todo \ {p})]
           /\ DatabaseWorks
  <2> PICK e : e = Retiring(status, todo \ {p})
    OBVIOUS
  <2>1. /\ plans' \in [Plans -> PlanRow] /\ RowInv'
        /\ \A q \in Plans \ {p} : plans'[q] = plans[q]
        /\ EligiblePlans' = EligiblePlans \ {p}
        /\ \A d : EligibleOf(d)' = EligibleOf(d) \ {p}
    BY <1>1, <1>2, RetiredRows
  <2>2. /\ e \in Evaluation /\ e.todo = todo \ {p} /\ e.at # "insert"
        /\ e.at = "retire" => e.status = status
        /\ e.at # "retire" => e.todo = {}
    <3> DEFINE rest == todo \ {p}
    <3>1. rest \in SUBSET Plans /\ status \in Closing
      BY <1>1
    <3> HIDE DEF rest
    <3>2. /\ Retiring(status, rest) \in Evaluation
          /\ Retiring(status, rest).todo = rest
          /\ Retiring(status, rest).at # "insert"
          /\ Retiring(status, rest).at = "retire" =>
                 Retiring(status, rest).status = status
          /\ Retiring(status, rest).at # "retire" => rest = {}
      BY <3>1, RetiringIs
    <3> QED
      BY <3>2 DEF rest
  <2>3. Sound(c, e)'
    <3>1. \A q \in EligibleOf(c)' : plans'[q] = plans[q]
      BY <2>1 DEF EligibleOf, EligiblePlans
    <3>2. ASSUME status = "SUPERSEDED", NEW q \in e.todo
          PROVE  \E r \in EligibleOf(c)' \ e.todo : plans'[r].version # plans'[q].version
      <4>1. PICK r \in EligibleOf(c) \ todo : plans[r].version # plans[q].version
        BY <1>1, <2>2, <3>2 DEF Sound
      <4>2. r \in EligibleOf(c)' \ e.todo /\ q \in EligibleOf(c)'
        BY <1>1, <2>1, <2>2, <4>1
      <4> QED
        BY <3>1, <4>1, <4>2
    <3>3. e.todo \subseteq EligibleOf(c)'
      BY <1>1, <2>1, <2>2
    <3> QED
      BY <1>1, <2>2, <3>2, <3>3 DEF Sound
  <2>4. ASSUME NEW d \in Candidates \ {c}
        PROVE  Sound(d, evaluations[d])'
    <3>1. p \notin EligibleOf(d)
      BY <1>1 DEF EligibleOf
    <3>2. EligibleOf(d)' = EligibleOf(d) /\ \A q \in EligibleOf(d) : plans'[q] = plans[q]
      BY <2>1, <3>1 DEF EligibleOf, EligiblePlans
    <3>3. evaluations'[d] = evaluations[d]
      BY <1>1, <1>2
    <3> QED
      BY <3>2, <3>3, SoundStays DEF IInv, EvalInv
  <2>5. /\ EvalInv' /\ CycleInv' /\ risk' \in RiskType
        /\ evaluations' \in [Candidates -> Evaluation]
        /\ evaluations'[c] = e
        /\ \A d \in Candidates \ {c} : evaluations'[d] = evaluations[d]
    BY <1>1, <1>2, <2>1, <2>2, <2>3, <2>4, EvaluationGoesOn
  <2>6. OneInv'
    <3> SUFFICES ASSUME failures' = 0, NEW d \in Candidates
                 PROVE  AtMostOne(EligibleOf(d) \ evaluations[d].todo)'
      BY DEF OneInv
    <3>1. AtMostOne(EligibleOf(d) \ evaluations[d].todo)
      BY <1>2 DEF DatabaseWorks, IInv, OneInv
    <3>2. EligibleOf(d)' \ evaluations'[d].todo \subseteq
              EligibleOf(d) \ evaluations[d].todo
      BY <1>1, <2>1, <2>2, <2>5
    <3> QED
      BY <3>1, <3>2 DEF AtMostOne
  <2> QED
    BY <1>2, <2>1, <2>5, <2>6 DEF Keeps, DatabaseWorks, IInv, TypeOK
<1>3. CASE /\ evaluations' = [evaluations EXCEPT ![c] = NoEvaluation]
           /\ Fails /\ UNCHANGED plans
  BY <1>1, <1>3, EvaluationFails
<1> QED
  BY <1>2, <1>3 DEF RetirePlan

(* An evaluation that writes nothing.                                      *)
LEMMA PassStep ==
  ASSUME IInv, NEW c \in Candidates, Pass(c)
  PROVE  Keeps
<1>1. Sound(c, NoEvaluation) /\ Starts(c, NoEvaluation)
  BY NoneIsSound DEF Pass
<1> QED
  BY <1>1, StartsKeeps

(* The cycle moves on while nothing is evaluated and no row changes.       *)
LEMMA CycleMoves ==
  ASSUME IInv, UNCHANGED <<plans, evaluations>>, Running = {},
         risk' \in RiskType, failures' \in Nat,
         failures' = 0 => failures = 0,
         risk'.at # "mirror" => risk'.plans = {},
         risk'.plans \subseteq EligiblePlans
  PROVE  Keeps
<1>1. Running' = {}
  BY DEF Running
<1>2. CycleInv'
  BY <1>1, SameRows DEF CycleInv
<1>3. EvalInv'
  BY SameRows DEF IInv, EvalInv
<1>4. OneInv'
  BY SameRows DEF IInv, OneInv, AtMostOne
<1> QED
  BY <1>2, <1>3, <1>4, SameRows DEF Keeps, IInv, TypeOK

(* The steps of the cycle as a whole.                                      *)
LEMMA CycleStep ==
  ASSUME IInv, Start \/ BeginRiskCycle \/ BeginMirror \/ EndRiskCycle
  PROVE  Keeps
<1>1. /\ risk \in RiskType /\ failures \in Nat
      /\ risk.at # "mirror" => risk.plans = {}
      /\ EligiblePlans \in SUBSET Plans
  BY DEF IInv, TypeOK, RiskType, CycleInv, EligiblePlans
<1>2. Fails => failures' \in Nat /\ failures' # 0
  BY FailureCounts DEF IInv
<1>3. CASE Start
  <2>1. Running = {} /\ UNCHANGED <<plans, evaluations, failures>>
    BY <1>3 DEF Start, IInv, CycleInv
  <2>2. risk' \in RiskType /\ risk'.plans = {}
    BY <1>1, <1>3 DEF Start, RiskType
  <2> QED
    BY <1>1, <2>1, <2>2, CycleMoves
<1>4. CASE BeginRiskCycle
  <2>1. Running = {} /\ UNCHANGED <<plans, evaluations>>
    BY <1>4 DEF BeginRiskCycle, IInv, CycleInv
  <2>2. risk' \in RiskType /\ risk'.plans = {}
    BY <1>1, <1>4 DEF BeginRiskCycle, RiskType
  <2>3. failures' \in Nat /\ (failures' = 0 => failures = 0)
    BY <1>1, <1>2, <1>4 DEF BeginRiskCycle, DatabaseWorks
  <2> QED
    BY <2>1, <2>2, <2>3, CycleMoves
<1>5. CASE BeginMirror
  <2>1. Running = {} /\ UNCHANGED <<plans, evaluations>>
    BY <1>5 DEF BeginMirror
  <2>2. /\ risk' \in RiskType /\ risk'.plans \subseteq EligiblePlans
        /\ risk'.at # "mirror" => risk'.plans = {}
    BY <1>1, <1>5 DEF BeginMirror, RiskType, NoRiskCycle
  <2>3. failures' \in Nat /\ (failures' = 0 => failures = 0)
    BY <1>1, <1>2, <1>5 DEF BeginMirror, DatabaseWorks
  <2> QED
    BY <2>1, <2>2, <2>3, CycleMoves
<1>6. CASE EndRiskCycle
  <2>1. Running = {} /\ UNCHANGED <<plans, evaluations, failures>>
    BY <1>6 DEF EndRiskCycle, IInv, CycleInv
  <2>2. risk' \in RiskType /\ risk'.plans = {}
    BY <1>6 DEF EndRiskCycle, RiskType, NoRiskCycle
  <2> QED
    BY <1>1, <2>1, <2>2, CycleMoves
<1> QED
  BY <1>3, <1>4, <1>5, <1>6

(* What a plan that is mirrored becomes.                                   *)
LEMMA MirrorRetires ==
  ASSUME IInv, NEW p \in Plans, NEW status,
         status \in {"EXPIRED"} \cup {Mirrored(candidateEvent[plans[p].candidate])},
         status # "NONE"
  PROVE  status \in Closing
  BY DEF Mirrored, Closing

(* A plan is mirrored, or stays.                                           *)
LEMMA MirrorStep ==
  ASSUME IInv, NEW p \in Plans, MirrorPlan(p)
  PROVE  Keeps
<1>1. /\ risk \in RiskType /\ risk.at = "mirror" /\ p \in risk.plans
      /\ Running = {} /\ UNCHANGED evaluations
      /\ risk.plans \subseteq EligiblePlans /\ failures \in Nat
  BY DEF MirrorPlan, IInv, TypeOK, RiskType, CycleInv
<1>2. plans[p].candidate \in Candidates
  BY <1>1 DEF EligiblePlans, IInv, RowInv
<1>3. CASE /\ risk' = [risk EXCEPT !.plans = @ \ {p},
                                   !.open = @ \cup {plans[p].candidate}]
           /\ UNCHANGED <<plans, failures>>
  <2>1. risk' \in RiskType /\ risk'.at = "mirror" /\ risk'.plans = risk.plans \ {p}
    BY <1>1, <1>2, <1>3 DEF RiskType
  <2> QED
    BY <1>1, <1>3, <2>1, CycleMoves
<1>4. CASE risk' = [risk EXCEPT !.plans = {}] /\ Fails /\ UNCHANGED plans
  <2>1. risk' \in RiskType /\ risk'.plans = {}
    BY <1>1, <1>4 DEF RiskType
  <2>2. failures' \in Nat /\ failures' # 0
    BY <1>4, FailureCounts DEF IInv
  <2> QED
    BY <1>1, <1>4, <2>1, <2>2, CycleMoves
<1>5. ASSUME NEW status \in Closing, plans' = Retired(p, status),
             risk' = [risk EXCEPT !.plans = @ \ {p}], DatabaseWorks
      PROVE  Keeps
  <2>1. /\ plans' \in [Plans -> PlanRow] /\ RowInv'
        /\ EligiblePlans' = EligiblePlans \ {p}
        /\ \A c : EligibleOf(c)' = EligibleOf(c) \ {p}
    BY <1>5, RetiredRows
  <2>2. risk' \in RiskType /\ risk'.at = "mirror" /\ risk'.plans = risk.plans \ {p}
    BY <1>1, <1>5 DEF RiskType
  <2>3. Running' = {}
    BY <1>1 DEF Running
  <2>4. CycleInv'
    BY <1>1, <2>1, <2>2, <2>3 DEF CycleInv
  <2>5. \A c \in Candidates :
            /\ evaluations[c] \in Evaluation
            /\ evaluations[c].at = "none" /\ evaluations[c].todo = {}
    BY <1>1 DEF Running, IInv, EvalInv, Sound
  <2>6. EvalInv'
    BY <1>1, <2>5 DEF EvalInv, Sound
  <2>7. OneInv'
    <3> SUFFICES ASSUME failures' = 0, NEW c \in Candidates
                 PROVE  AtMostOne(EligibleOf(c) \ evaluations[c].todo)'
      BY DEF OneInv
    <3>1. AtMostOne(EligibleOf(c) \ evaluations[c].todo)
      BY <1>5 DEF DatabaseWorks, IInv, OneInv
    <3> QED
      BY <1>1, <2>1, <3>1 DEF AtMostOne
  <2> QED
    BY <1>1, <1>5, <2>1, <2>2, <2>4, <2>6, <2>7
    DEF Keeps, DatabaseWorks, IInv, TypeOK
<1> DEFINE s == IF plans[p].candidate \in risk.open THEN "NONE"
                ELSE Mirrored(candidateEvent[plans[p].candidate])
<1>6. "EXPIRED" \in Closing /\ (s # "NONE" => s \in Closing)
  BY DEF Closing, Mirrored
<1> QED
  BY <1>3, <1>4, <1>5, <1>6 DEF MirrorPlan

(* The process dies.                                                       *)
LEMMA CrashStep ==
  ASSUME IInv, Crash
  PROVE  Keeps /\ UNCHANGED candidateVars
<1>1. /\ UNCHANGED <<candidateVars, plans>> /\ risk' = NoRiskCycle
      /\ evaluations' = [c \in Candidates |-> NoEvaluation]
      /\ failures' \in Nat /\ failures' # 0
  BY FailureCounts DEF Crash, IInv
<1>2. /\ NoRiskCycle \in RiskType /\ NoRiskCycle.todo = {} /\ NoRiskCycle.plans = {}
  BY DEF NoRiskCycle, RiskType
<1>3. /\ \A c \in Candidates : evaluations'[c] = NoEvaluation
      /\ evaluations' \in [Candidates -> Evaluation] /\ Running' = {} /\ EvalInv'
  BY <1>1, NoneIsSound DEF Running, EvalInv, Sound
<1>4. CycleInv' /\ OneInv'
  BY <1>1, <1>2, <1>3 DEF CycleInv, OneInv
<1> QED
  BY <1>1, <1>2, <1>3, <1>4, SameRows DEF Keeps

(* The candidates move on; what is stored of them fits.                    *)
LEMMA StrategyStep ==
  ASSUME IInv, CandidatesNext
  PROVE  CandidatesType' /\ EventInv'
<1>1. CandidatesType /\ EventInv
  BY DEF IInv, TypeOK
<1>2. ASSUME NEW c \in Candidates, Open(c)
      PROVE  CandidatesType' /\ EventInv'
  <2>1. candidates[c] = "NONE" /\ UNCHANGED candidateEvent
    BY <1>2 DEF Open, Unopened
  <2>2. PICK state \in ActiveStates : candidates' = [candidates EXCEPT ![c] = state]
    BY <1>2 DEF Open
  <2> QED
    BY <1>1, <2>1, <2>2 DEF CandidatesType, EventInv, ClosedStates
<1>3. ASSUME NEW c \in Candidates, Record(c)
      PROVE  CandidatesType' /\ EventInv'
  BY <1>1, <1>3 DEF Record, Active, CandidatesType, EventInv, ActiveStates, ClosedStates
<1>4. ASSUME NEW c \in Candidates, NEW state \in ActiveStates \cup ClosedStates,
             Move(c, state)
      PROVE  CandidatesType' /\ EventInv'
  BY <1>1, <1>4 DEF Move, CandidatesType, EventInv
<1>5. ASSUME NEW c \in Candidates, Confirm(c) \/ Close(c)
      PROVE  CandidatesType' /\ EventInv'
  <2>1. "CONFIRMED" \in ActiveStates \cup ClosedStates
    BY DEF ActiveStates
  <2> QED
    BY <1>4, <1>5, <2>1 DEF Confirm, Close
<1> QED
  BY <1>2, <1>3, <1>5 DEF CandidatesNext

-----------------------------------------------------------------------------
(* The invariant holds.                                                    *)

LEMMA InvInit == Init => IInv
<1> SUFFICES ASSUME Init PROVE IInv
  OBVIOUS
<1>1. /\ CandidatesInit /\ plans = [p \in Plans |-> NoPlan]
      /\ risk = NoRiskCycle /\ evaluations = [c \in Candidates |-> NoEvaluation]
      /\ failures = 0
  BY DEF Init
<1>2. /\ NoPlan \in PlanRow /\ NoPlan.status = "NONE" /\ NoPlan.slot = FALSE
  BY DEF NoPlan, PlanRow
<1>3. plans \in [Plans -> PlanRow] /\ RowInv /\ EligiblePlans = {}
  BY <1>1, <1>2 DEF RowInv, Eligible, EligiblePlans
<1>4. /\ \A c \in Candidates : evaluations[c] = NoEvaluation
      /\ evaluations \in [Candidates -> Evaluation] /\ Running = {} /\ EvalInv
  BY <1>1, NoneIsSound DEF Running, EvalInv, Sound
<1>5. /\ risk \in RiskType /\ risk.todo = {} /\ risk.plans = {}
  BY <1>1 DEF NoRiskCycle, RiskType
<1>6. CycleInv /\ OneInv
  BY <1>3, <1>4, <1>5 DEF CycleInv, OneInv, AtMostOne, EligibleOf
<1>7. CandidatesType /\ EventInv
  BY <1>1 DEF CandidatesInit, CandidatesType, EventInv, ClosedStates
<1>8. TypeOK
  BY <1>1, <1>3, <1>4, <1>5, <1>7 DEF TypeOK, RiskType
<1> QED
  BY <1>3, <1>4, <1>6, <1>7, <1>8 DEF IInv

LEMMA JobStep ==
  ASSUME IInv, RiskJob
  PROVE  Keeps
<1>1. ASSUME NEW c \in Candidates,
             \/ Pass(c) \/ FindPlan(c) \/ Reject(c) \/ InsertPlan(c)
             \/ \E p \in Plans : RetirePlan(c, p)
      PROVE  Keeps
  BY <1>1, PassStep, FindStep, RejectStep, InsertStep, RetireStep
<1> QED
  BY <1>1, CycleStep, MirrorStep DEF RiskJob

LEMMA InvNext == IInv /\ [Next]_vars => IInv'
<1> SUFFICES ASSUME IInv, [Next]_vars
             PROVE  IInv'
  OBVIOUS
<1>1. ASSUME Keeps, CandidatesType', EventInv'
      PROVE  IInv'
  <2>1. TypeOK'
    BY <1>1 DEF Keeps, TypeOK, RiskType
  <2> QED
    BY <1>1, <2>1 DEF Keeps, IInv
<1>2. UNCHANGED candidateVars => CandidatesType' /\ EventInv'
  BY DEF candidateVars, IInv, TypeOK, CandidatesType, EventInv
<1>3. UNCHANGED <<plans, risk, evaluations, failures>> => Keeps
  <2> SUFFICES ASSUME UNCHANGED <<plans, risk, evaluations, failures>>
               PROVE  Keeps
    OBVIOUS
  <2>1. EvalInv' /\ OneInv'
    BY SameRows DEF IInv, EvalInv, OneInv, AtMostOne
  <2>2. CycleInv'
    BY SameRows DEF IInv, CycleInv, Running
  <2> QED
    BY <2>1, <2>2, SameRows DEF Keeps, IInv, TypeOK, RiskType
<1>4. CASE RiskJob
  BY <1>1, <1>2, <1>4, JobStep DEF RiskJob
<1>5. CASE StrategyJob
  BY <1>1, <1>3, <1>5, StrategyStep DEF StrategyJob
<1>6. CASE Crash
  BY <1>1, <1>2, <1>6, CrashStep
<1>7. CASE UNCHANGED vars
  BY <1>1, <1>2, <1>3, <1>7 DEF vars
<1> QED
  BY <1>4, <1>5, <1>6, <1>7 DEF Next

(* What the risk job relies on from step to step: RowInv, EvalInv,         *)
(* CycleInv, EventInv and OneInv hold as long as it runs.                  *)
THEOREM InvHolds == Spec => []IInv
<1> QED
  BY InvInit, InvNext, PTL DEF Spec

(***************************************************************************)
(* The tables and the job's variables (risk_plan_repository.py,            *)
(* risk_plan_evaluation_refresh.py) keep their types.                      *)
(***************************************************************************)
THEOREM TypeOKHolds == Spec => []TypeOK
<1>1. IInv => TypeOK
  BY DEF IInv
<1> QED
  BY <1>1, InvHolds, PTL

(***************************************************************************)
(* Without a failure a candidate whose evaluation is over has one eligible *)
(* plan at most (risk_plan_evaluation_refresh.py replaces its plan by an   *)
(* insert and the retirement of what it found eligible).                   *)
(***************************************************************************)
THEOREM OnePlanUnlessFailedHolds == Spec => []OnePlanUnlessFailed
<1>1. IInv => OnePlanUnlessFailed
  <2> SUFFICES ASSUME IInv, failures = 0, NEW c \in Candidates \ Running
               PROVE  Cardinality(EligibleOf(c)) <= 1
    BY DEF OnePlanUnlessFailed
  <2>1. evaluations[c].todo = {}
    BY DEF IInv, EvalInv, Sound, Running
  <2>2. AtMostOne(EligibleOf(c))
    BY <2>1 DEF IInv, OneInv, AtMostOne
  <2>3. CASE EligibleOf(c) = {}
    BY <2>3, FS_EmptySet
  <2>4. CASE EligibleOf(c) # {}
    <3>1. PICK p : p \in EligibleOf(c)
      BY <2>4
    <3>2. EligibleOf(c) = {p}
      BY <2>2, <3>1 DEF AtMostOne
    <3>3. Cardinality({p}) = 1
      BY FS_Singleton
    <3> QED
      BY <3>2, <3>3
  <2> QED
    BY <2>3, <2>4
<1> QED
  BY <1>1, InvHolds, PTL

-----------------------------------------------------------------------------
(* What a plan is superseded for.                                          *)

ComesFirst ==
    \A p \in Plans :
        Eligible(p) /\ plans'[p].status = "SUPERSEDED" =>
            \/ candidates[plans[p].candidate] = "SUPERSEDED"
            \/ \E q \in EligibleOf(plans[p].candidate) :
                   plans[q].version # plans[p].version

(* A plan whose row stays is not superseded.                               *)
LEMMA RowsStayNotSuperseded ==
  ASSUME NEW p \in Plans, Eligible(p), plans'[p] = plans[p]
  PROVE  plans'[p].status # "SUPERSEDED"
  BY DEF Eligible

LEMMA RetireComesFirst ==
  ASSUME IInv, NEW c \in Candidates, NEW p \in Plans, RetirePlan(c, p)
  PROVE  ComesFirst
<1> DEFINE e == evaluations[c]
<1>1. /\ e.at = "retire" /\ p \in e.todo /\ e.todo \subseteq EligibleOf(c)
      /\ e.status \in Closing
      /\ e.status = "SUPERSEDED" =>
             \E q \in EligibleOf(c) : plans[q].version # plans[p].version
  BY DEF RetirePlan, IInv, EvalInv, Sound
<1>2. plans[p].candidate = c
  BY <1>1 DEF EligibleOf
<1> HIDE DEF e
<1>3. CASE plans' = Retired(p, e.status)
  <2>1. plans'[p].status = e.status /\ \A q \in Plans \ {p} : plans'[q] = plans[q]
    BY <1>1, <1>3, RetiredRows
  <2> QED
    BY <1>1, <1>2, <2>1, RowsStayNotSuperseded DEF ComesFirst
<1>4. CASE UNCHANGED plans
  BY <1>4, RowsStayNotSuperseded DEF ComesFirst
<1> QED
  BY <1>3, <1>4 DEF RetirePlan, e

LEMMA MirrorComesFirst ==
  ASSUME IInv, NEW p \in Plans, MirrorPlan(p)
  PROVE  ComesFirst
<1> DEFINE c == plans[p].candidate
<1>1. c \in Candidates
  BY DEF MirrorPlan, IInv, CycleInv, EligiblePlans, RowInv
<1>2. Mirrored(candidateEvent[c]) = "SUPERSEDED" => candidates[c] = "SUPERSEDED"
  BY <1>1 DEF Mirrored, IInv, EventInv, ClosedStates
<1>3. ASSUME NEW status \in Closing, plans' = Retired(p, status),
             status = "SUPERSEDED" => candidates[c] = "SUPERSEDED"
      PROVE  ComesFirst
  <2>1. plans'[p].status = status /\ \A q \in Plans \ {p} : plans'[q] = plans[q]
    BY <1>3, RetiredRows
  <2> QED
    BY <1>3, <2>1, RowsStayNotSuperseded DEF ComesFirst
<1>4. CASE UNCHANGED plans
  BY <1>4, RowsStayNotSuperseded DEF ComesFirst
<1>5. CASE plans' = Retired(p, "EXPIRED")
  BY <1>3, <1>5 DEF Closing
<1> DEFINE s == IF c \in risk.open THEN "NONE" ELSE Mirrored(candidateEvent[c])
<1>6. CASE s # "NONE" /\ plans' = Retired(p, s)
  <2>1. s \in Closing /\ s = Mirrored(candidateEvent[c])
    BY <1>6 DEF Closing, Mirrored
  <2> HIDE DEF s, c
  <2> QED
    BY <1>2, <1>3, <1>6, <2>1
<1> QED
  BY <1>4, <1>5, <1>6 DEF MirrorPlan

LEMMA InsertComesFirst ==
  ASSUME IInv, NEW c \in Candidates, InsertPlan(c)
  PROVE  ComesFirst
<1>1. CASE UNCHANGED plans
  BY <1>1, RowsStayNotSuperseded DEF ComesFirst
<1> DEFINE p == CHOOSE p \in UnusedPlans : TRUE
           row == [status |-> "ELIGIBLE", candidate |-> c,
                   version |-> evaluations[c].version, slot |-> TRUE]
<1>2. CASE UnusedPlans # {} /\ plans' = [plans EXCEPT ![p] = row]
  <2>1. p \in UnusedPlans
    BY <1>2
  <2> HIDE DEF p, row
  <2>2. ~Eligible(p) /\ \A q \in Plans \ {p} : plans'[q] = plans[q]
    BY <1>2, <2>1 DEF UnusedPlans, NoPlan, Eligible, IInv, TypeOK
  <2> QED
    BY <2>2, RowsStayNotSuperseded DEF ComesFirst
<1> QED
  BY <1>1, <1>2 DEF InsertPlan

LEMMA NextComesFirst == IInv /\ [Next]_vars => ComesFirst
<1> SUFFICES ASSUME IInv, [Next]_vars
             PROVE  ComesFirst
  OBVIOUS
<1>1. CASE UNCHANGED plans
  BY <1>1, RowsStayNotSuperseded DEF ComesFirst
<1>2. CASE RiskJob
  <2>1. CASE \E c \in Candidates : Pass(c) \/ FindPlan(c) \/ Reject(c)
    BY <1>1, <2>1 DEF Pass, FindPlan, Reject, Starts
  <2>2. CASE Start \/ BeginRiskCycle \/ BeginMirror \/ EndRiskCycle
    BY <1>1, <2>2 DEF Start, BeginRiskCycle, BeginMirror, EndRiskCycle
  <2> QED
    BY <1>2, <2>1, <2>2, InsertComesFirst, RetireComesFirst, MirrorComesFirst
    DEF RiskJob
<1> QED
  BY <1>1, <1>2 DEF Next, StrategyJob, Crash, vars

(***************************************************************************)
(* A plan is superseded only for a stored plan of another version, or with *)
(* its candidate (risk_plan_evaluation_refresh.py: insert_new before       *)
(* transition, and _mirror of the candidate's last event).                 *)
(***************************************************************************)
THEOREM ReplacementComesFirstHolds == Spec => ReplacementComesFirst
<1>1. IInv /\ [Next]_vars => [ComesFirst]_vars
  BY NextComesFirst
<1>2. Spec => [][ComesFirst]_vars
  BY <1>1, InvHolds, PTL DEF Spec
<1> QED
  BY <1>2 DEF ReplacementComesFirst, ComesFirst

-----------------------------------------------------------------------------
(* The limit of plans.                                                     *)

(* The candidates with an eligible plan.                                   *)
Planned == {c \in Candidates : EligibleOf(c) # {}}

(* The candidates that have a plan to insert.                              *)
Inserting == {c \in Candidates : evaluations[c].at = "insert"}

(***************************************************************************)
(* The limit may be overshot by all evaluations that run but the one that  *)
(* looked last: a plan to be inserted counts already.                      *)
(***************************************************************************)
RoomInv ==
    /\ Cardinality(Running) <= MaxConcurrent
    /\ Cardinality(Planned \cup Inserting) <= MaxPlans + MaxConcurrent - 1

(* The sets that are counted are finite.                                   *)
LEMMA FiniteCounts ==
  ASSUME NEW S \in SUBSET Candidates
  PROVE  IsFiniteSet(S) /\ Cardinality(S) \in Nat
  BY CandidatesAssumption, FS_Subset, FS_CardinalityType

(* Fewer are not more.                                                     *)
LEMMA FewerCount ==
  ASSUME NEW S \in SUBSET Candidates, NEW T \in SUBSET S
  PROVE  Cardinality(T) <= Cardinality(S)
  BY FiniteCounts, FS_Subset

(* Each other candidate with a plan brings one that counts.                *)
LEMMA OthersCount ==
  ASSUME IInv, NEW c \in Candidates
  PROVE  Cardinality(Planned \ {c}) <= Cardinality(Others(c))
<1> DEFINE f == [p \in Others(c) |-> plans[p].candidate]
<1>1. \A p \in Others(c) : plans[p].candidate \in Planned \ {c}
  BY DEF Others, EligibleOf, EligiblePlans, Planned, IInv, RowInv
<1>2. \A d \in Planned \ {c} : \E p \in Others(c) : plans[p].candidate = d
  BY DEF Others, EligibleOf, Planned
<1>3. f \in Surjection(Others(c), Planned \ {c})
  BY <1>1, <1>2 DEF Surjection
<1>4. IsFiniteSet(Others(c))
  BY PlansAssumption, FS_Subset DEF Others, EligiblePlans
<1> QED
  BY <1>3, <1>4, FS_Surjection

(* Where nothing is added, room stays.                                     *)
LEMMA RoomStays ==
  ASSUME RoomInv, Running' \subseteq Running,
         (Planned \cup Inserting)' \subseteq Planned \cup Inserting
  PROVE  RoomInv'
<1> PICK R, S, B, C :
        R = Running /\ S = Running' /\ B = Planned \cup Inserting
        /\ C = (Planned \cup Inserting)'
  OBVIOUS
<1>1. R \in SUBSET Candidates /\ B \in SUBSET Candidates
  BY DEF Running, Planned, Inserting
<1>2. S \in SUBSET R /\ C \in SUBSET B
  OBVIOUS
<1>3. /\ Cardinality(R) \in Nat /\ Cardinality(B) \in Nat
      /\ Cardinality(S) \in Nat /\ Cardinality(C) \in Nat
  BY <1>1, <1>2, FiniteCounts
<1>4. Cardinality(S) <= Cardinality(R) /\ Cardinality(C) <= Cardinality(B)
  BY <1>1, <1>2, FewerCount
<1>5. Cardinality(S) <= MaxConcurrent /\ Cardinality(C) <= MaxPlans + MaxConcurrent - 1
  BY <1>3, <1>4, PlansAssumption DEF RoomInv
<1> QED
  BY <1>5 DEF RoomInv

(* One more evaluation runs.                                               *)
LEMMA StartsCount ==
  ASSUME IInv, NEW c \in Candidates, NEW e, Starts(c, e)
  PROVE  /\ Running' \in SUBSET Candidates
         /\ Cardinality(Running') <= MaxConcurrent
         /\ Planned' = Planned
         /\ e.at # "insert" => Inserting' \subseteq Inserting
         /\ Inserting' \subseteq Running'
<1>1. /\ evaluations'[c] = e
      /\ \A d \in Candidates \ {c} : evaluations'[d] = evaluations[d]
      /\ Cardinality(Running) < MaxConcurrent /\ UNCHANGED plans
  BY DEF Starts, IInv, TypeOK
<1> PICK R, S : R = Running /\ S = Running'
  OBVIOUS
<1>2. S \in SUBSET (R \cup {c}) /\ R \in SUBSET Candidates /\ S \in SUBSET Candidates
      /\ R \cup {c} \in SUBSET Candidates
  BY <1>1 DEF Running
<1>3. /\ Cardinality(R) \in Nat /\ Cardinality(S) \in Nat
      /\ Cardinality(R \cup {c}) \in Nat
  BY <1>2, FiniteCounts
<1>4. Cardinality(R \cup {c}) <= Cardinality(R) + 1
  <2>1. Cardinality(R \cup {c}) =
            IF c \in R THEN Cardinality(R) ELSE Cardinality(R) + 1
    BY <1>2, FiniteCounts, FS_AddElement
  <2> QED
    BY <1>3, <2>1
<1>5. Cardinality(S) <= Cardinality(R \cup {c})
  BY <1>2, FewerCount
<1>6. Cardinality(S) <= MaxConcurrent
  <2>1. Cardinality(R) < MaxConcurrent
    BY <1>1
  <2> HIDE <1>1
  <2> QED
    BY <1>3, <1>4, <1>5, <2>1, PlansAssumption
<1>7. Planned' = Planned
  BY <1>1, SameRows DEF Planned
<1>8. Inserting' \subseteq Running' /\ (e.at # "insert" => Inserting' \subseteq Inserting)
  BY <1>1 DEF Inserting, Running
<1> QED
  BY <1>2, <1>6, <1>7, <1>8

LEMMA FindRoom ==
  ASSUME IInv, NEW c \in Candidates, FindPlan(c)
  PROVE  RoomInv'
<1>1. PICK e : Starts(c, e) /\ Cardinality(Others(c)) < MaxPlans
  BY DEF FindPlan
<1>2. /\ Running' \in SUBSET Candidates /\ Cardinality(Running') <= MaxConcurrent
      /\ Planned' = Planned /\ Inserting' \subseteq Running'
  BY <1>1, StartsCount
<1>3. c \in Running'
  BY DEF FindPlan, Starts, Running, IInv, TypeOK
<1> PICK S, A, B : S = Running' /\ A = Planned \ {c} /\ B = (Planned \cup Inserting)'
  OBVIOUS
<1>4. /\ S \in SUBSET Candidates /\ A \in SUBSET Candidates
      /\ A \cup S \in SUBSET Candidates /\ B \in SUBSET (A \cup S)
      /\ B \in SUBSET Candidates
  BY <1>2, <1>3 DEF Planned
<1>5. /\ Cardinality(A) \in Nat /\ Cardinality(S) \in Nat /\ Cardinality(B) \in Nat
      /\ Cardinality(A \cup S) \in Nat /\ Cardinality(A \cap S) \in Nat
  BY <1>4, FiniteCounts
<1>6. Cardinality(A \cup S) = Cardinality(A) + Cardinality(S) - Cardinality(A \cap S)
  BY <1>4, FiniteCounts, FS_Union
<1>7. Cardinality(B) <= Cardinality(A \cup S)
  BY <1>4, FewerCount
<1>8. Cardinality(A) <= MaxPlans - 1 /\ Cardinality(S) <= MaxConcurrent
  <2>1. IsFiniteSet(Others(c)) /\ Cardinality(Others(c)) \in Nat
    BY PlansAssumption, FS_Subset, FS_CardinalityType DEF Others, EligiblePlans
  <2>2. Cardinality(A) <= Cardinality(Others(c))
    BY OthersCount
  <2> QED
    BY <1>1, <1>2, <1>5, <2>1, <2>2, PlansAssumption
<1>9. Cardinality(B) <= MaxPlans + MaxConcurrent - 1
  BY <1>5, <1>6, <1>7, <1>8, PlansAssumption
<1> QED
  BY <1>8, <1>9 DEF RoomInv

(* An evaluation that does not look for room.                              *)
LEMMA StartsRoom ==
  ASSUME IInv, RoomInv, NEW c \in Candidates, NEW e, Starts(c, e), e.at # "insert"
  PROVE  RoomInv'
<1>1. /\ Cardinality(Running') <= MaxConcurrent
      /\ Planned' = Planned /\ Inserting' \subseteq Inserting
  BY StartsCount
<1> PICK B, C : B = Planned \cup Inserting /\ C = (Planned \cup Inserting)'
  OBVIOUS
<1>2. C \in SUBSET B /\ B \in SUBSET Candidates
  BY <1>1 DEF Planned, Inserting
<1>3. /\ Cardinality(C) <= Cardinality(B)
      /\ Cardinality(B) \in Nat /\ Cardinality(C) \in Nat
  BY <1>2, FewerCount, FiniteCounts
<1>4. Cardinality(C) <= MaxPlans + MaxConcurrent - 1
  BY <1>3, PlansAssumption DEF RoomInv
<1> QED
  BY <1>1, <1>4 DEF RoomInv

(* A plan that counted already is inserted, or is not.                     *)
LEMMA InsertRoom ==
  ASSUME IInv, RoomInv, NEW c \in Candidates, InsertPlan(c)
  PROVE  RoomInv'
<1>1. /\ evaluations[c].at = "insert" /\ evaluations[c].version \in Versions
      /\ c \in Running /\ c \in Inserting
  BY DEF InsertPlan, IInv, EvalInv, Sound, Running, Inserting
<1>2. EligibleOf(c) \in SUBSET Plans
  BY DEF EligibleOf, EligiblePlans
<1>3. Superseding(c).at # "insert" /\ NoEvaluation.at # "insert"
  BY <1>2, RetiringIs, NoneIsSound DEF Superseding, Predecessors, Closing
<1>4. \A d \in Candidates \ {c} : evaluations'[d] = evaluations[d]
  BY DEF InsertPlan, IInv, TypeOK
<1>5. Running' \subseteq Running /\ Inserting' \subseteq Inserting
  BY <1>1, <1>4 DEF Running, Inserting
<1>6. \A d \in Candidates \ {c} : EligibleOf(d)' = EligibleOf(d)
  <2>1. CASE UNCHANGED plans
    BY <2>1, SameRows
  <2> DEFINE p == CHOOSE p \in UnusedPlans : TRUE
             row == [status |-> "ELIGIBLE", candidate |-> c,
                     version |-> evaluations[c].version, slot |-> TRUE]
  <2>2. CASE UnusedPlans # {} /\ plans' = [plans EXCEPT ![p] = row]
    <3>1. p \in UnusedPlans
      BY <2>2
    <3> HIDE DEF p
    <3> QED
      BY <1>1, <2>2, <3>1, InsertedRows
  <2> QED
    BY <2>1, <2>2 DEF InsertPlan
<1>7. (Planned \cup Inserting)' \subseteq Planned \cup Inserting
  BY <1>1, <1>5, <1>6 DEF Planned
<1> QED
  BY <1>5, <1>7, RoomStays

(* A plan that is retired makes room.                                      *)
LEMMA RetireRoom ==
  ASSUME IInv, RoomInv, NEW c \in Candidates, NEW p \in Plans, RetirePlan(c, p)
  PROVE  RoomInv'
<1>1. /\ evaluations[c].at = "retire" /\ evaluations[c].status \in Closing
      /\ evaluations[c].todo \ {p} \in SUBSET Plans
      /\ c \in Running
  BY DEF RetirePlan, IInv, EvalInv, Sound, Running, EligibleOf, EligiblePlans
<1>2. \A d \in Candidates : EligibleOf(d)' \subseteq EligibleOf(d)
  <2>1. CASE UNCHANGED plans
    BY <2>1, SameRows
  <2>2. CASE plans' = Retired(p, evaluations[c].status)
    BY <1>1, <2>2, RetiredRows
  <2> QED
    BY <2>1, <2>2 DEF RetirePlan
<1>3. PICK e : evaluations' = [evaluations EXCEPT ![c] = e] /\ e.at # "insert"
  <2> DEFINE rest == evaluations[c].todo \ {p}
             old == evaluations[c].status
  <2>1. Retiring(old, rest).at # "insert" /\ NoEvaluation.at # "insert"
    <3> HIDE DEF rest, old
    <3>1. old \in Closing /\ rest \in SUBSET Plans
      BY <1>1 DEF old, rest
    <3> QED
      BY <3>1, RetiringIs, NoneIsSound
  <2>2. \/ evaluations' = [evaluations EXCEPT ![c] = Retiring(old, rest)]
        \/ evaluations' = [evaluations EXCEPT ![c] = NoEvaluation]
    BY DEF RetirePlan
  <2> QED
    BY <2>1, <2>2
<1>4. Running' \subseteq Running /\ Inserting' \subseteq Inserting
  BY <1>1, <1>3 DEF Running, Inserting, IInv, TypeOK
<1>5. (Planned \cup Inserting)' \subseteq Planned \cup Inserting
  BY <1>2, <1>4 DEF Planned
<1> QED
  BY <1>4, <1>5, RoomStays

(* Outside of the evaluations room is only made.                           *)
LEMMA CycleRoom ==
  ASSUME IInv, RoomInv,
         \/ Start \/ BeginRiskCycle \/ BeginMirror \/ EndRiskCycle
         \/ \E p \in Plans : MirrorPlan(p)
         \/ Crash
         \/ UNCHANGED <<plans, evaluations>>
  PROVE  RoomInv'
<1>1. \/ UNCHANGED evaluations
      \/ evaluations' = [c \in Candidates |-> NoEvaluation]
  BY DEF Start, BeginRiskCycle, BeginMirror, EndRiskCycle, MirrorPlan, Crash
<1>2. Running' \subseteq Running /\ Inserting' \subseteq Inserting
  BY <1>1, NoneIsSound DEF Running, Inserting
<1>3. \A d \in Candidates : EligibleOf(d)' \subseteq EligibleOf(d)
  <2>1. CASE UNCHANGED plans
    BY <2>1, SameRows
  <2>2. ASSUME NEW p \in Plans, MirrorPlan(p), plans' # plans
        PROVE  \A d \in Candidates : EligibleOf(d)' \subseteq EligibleOf(d)
    <3>1. PICK status \in Closing : plans' = Retired(p, status)
      BY <2>2 DEF MirrorPlan, Mirrored, Closing
    <3> QED
      BY <3>1, RetiredRows
  <2> QED
    BY <2>1, <2>2 DEF Start, BeginRiskCycle, BeginMirror, EndRiskCycle, Crash
<1>4. (Planned \cup Inserting)' \subseteq Planned \cup Inserting
  BY <1>2, <1>3 DEF Planned
<1> QED
  BY <1>2, <1>4, RoomStays

LEMMA RoomInit == Init => RoomInv
<1> SUFFICES ASSUME Init PROVE RoomInv
  OBVIOUS
<1>1. Running = {} /\ Inserting = {}
  BY NoneIsSound DEF Init, Running, Inserting
<1>2. Planned = {}
  BY DEF Init, Planned, EligibleOf, EligiblePlans, Eligible, NoPlan
<1>3. Cardinality(Running) = 0 /\ Cardinality(Planned \cup Inserting) = 0
  BY <1>1, <1>2, FS_EmptySet
<1> QED
  BY <1>3, PlansAssumption DEF RoomInv

LEMMA RoomNext == IInv /\ RoomInv /\ [Next]_vars => RoomInv'
<1> SUFFICES ASSUME IInv, RoomInv, [Next]_vars
             PROVE  RoomInv'
  OBVIOUS
<1>1. ASSUME NEW c \in Candidates, Pass(c)
      PROVE  RoomInv'
  BY <1>1, NoneIsSound, StartsRoom DEF Pass
<1>2. ASSUME NEW c \in Candidates, Reject(c)
      PROVE  RoomInv'
  <2>1. PICK status \in {"EXPIRED", "DATA_INVALID"} :
            Starts(c, Retiring(status, EligibleOf(c)))
    BY <1>2 DEF Reject
  <2>2. status \in Closing /\ EligibleOf(c) \in SUBSET Plans
    BY DEF Closing, EligibleOf, EligiblePlans
  <2>3. Retiring(status, EligibleOf(c)).at # "insert"
    BY <2>2, RetiringIs
  <2> QED
    BY <2>1, <2>3, StartsRoom
<1>3. CASE RiskJob
  BY <1>1, <1>2, <1>3, FindRoom, InsertRoom, RetireRoom, CycleRoom DEF RiskJob
<1>4. CASE StrategyJob \/ Crash \/ UNCHANGED vars
  BY <1>4, CycleRoom DEF StrategyJob, vars
<1> QED
  BY <1>3, <1>4 DEF Next

(***************************************************************************)
(* The limit of plans, checked before concurrent evaluations insert        *)
(* (risk_plan_evaluation_refresh.py), is overshot by one less than their   *)
(* number at most, for any limit and any number of them.                   *)
(***************************************************************************)
THEOREM PlansAreNearlyCappedHolds == Spec => []PlansAreNearlyCapped
<1>1. Spec => []RoomInv
  BY RoomInit, RoomNext, InvHolds, PTL DEF Spec
<1>2. RoomInv => PlansAreNearlyCapped
  <2> SUFFICES ASSUME RoomInv PROVE PlansAreNearlyCapped
    OBVIOUS
  <2> PICK A, B : A = Planned /\ B = Planned \cup Inserting
    OBVIOUS
  <2>1. B \in SUBSET Candidates /\ A \in SUBSET B
    BY DEF Planned, Inserting
  <2>2. /\ Cardinality(A) <= Cardinality(B)
        /\ Cardinality(A) \in Nat /\ Cardinality(B) \in Nat
    BY <2>1, FewerCount, FiniteCounts
  <2>3. Cardinality(A) <= MaxPlans + MaxConcurrent - 1
    BY <2>2, PlansAssumption DEF RoomInv
  <2> QED
    BY <2>3 DEF PlansAreNearlyCapped, Planned
<1> QED
  BY <1>1, <1>2, PTL

=============================================================================
