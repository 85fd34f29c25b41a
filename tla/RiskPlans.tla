------------------------------ MODULE RiskPlans ------------------------------
(***************************************************************************)
(* Eligibility plans and the job that writes them                          *)
(* (src/app/jobs/risk_plan_evaluation_refresh.py and                       *)
(* src/app/repositories/risk_plan_repository.py) over the candidates of    *)
(* one instrument, which follow ResearchCandidates.  A cycle reads the     *)
(* confirmed candidates once, evaluates them concurrently, then retires    *)
(* plans that are overdue or whose candidate is closed.  Every write is a  *)
(* step of its own and may fail; reads of a candidate's own plans go with  *)
(* the write that follows them, because only that candidate's evaluation   *)
(* touches these.                                                          *)
(*                                                                         *)
(* The arithmetic of the engine is abstract: an evaluation finds a plan    *)
(* with some dedupe key, or a rejection.  So is time: whether an expiry    *)
(* has passed when it is looked at is free.                                *)
(***************************************************************************)
EXTENDS ResearchCandidates

CONSTANTS
    Plans,              \* bound: the plans there will ever be
    Versions,           \* the materially different plans of one candidate
    MaxPlans,           \* max_active_plans_per_instrument
    MaxConcurrent,      \* max_concurrent_evaluations
    None,               \* no candidate, no version
    MaxFailures         \* bound: failed transactions and crashes

ASSUME PlansAssumption ==
    /\ IsFiniteSet(Plans)
    /\ None \notin Candidates \cup Versions
    /\ MaxPlans \in Nat
    /\ MaxConcurrent \in Nat \ {0}
    /\ MaxFailures \in Nat

VARIABLES
    plans,          \* risk_plans: id -> row
    risk,           \* where the risk job's cycle stands
    evaluations,    \* candidate -> its evaluation in this cycle
    failures        \* failed transactions and crashes so far

vars == <<candidateVars, plans, risk, evaluations, failures>>

PlanStatus == {"ELIGIBLE", "EXPIRED", "SUPERSEDED", "DATA_INVALID"}

NoPlan ==
    [status |-> "NONE", candidate |-> None, version |-> None, slot |-> FALSE]

(***************************************************************************)
(* The cycle: the candidates still to be evaluated, the plans to look at   *)
(* in the end, and the candidates found open while doing so.               *)
(***************************************************************************)
NoRiskCycle ==
    [at |-> "down", todo |-> {}, plans |-> {}, open |-> {}]

(* An evaluation: its place, the plan found, and the plans to retire.      *)
NoEvaluation == [at |-> "none", version |-> None, status |-> "NONE", todo |-> {}]

Init ==
    /\ CandidatesInit
    /\ plans = [p \in Plans |-> NoPlan]
    /\ risk = NoRiskCycle
    /\ evaluations = [c \in Candidates |-> NoEvaluation]
    /\ failures = 0

Fails == failures < MaxFailures /\ failures' = failures + 1

DatabaseWorks == UNCHANGED failures

Eligible(p) == plans[p].status = "ELIGIBLE"

EligiblePlans == {p \in Plans : Eligible(p)}

EligibleOf(c) == {p \in EligiblePlans : plans[p].candidate = c}

UnusedPlans == {p \in Plans : plans[p] = NoPlan}

Running == {c \in Candidates : evaluations[c].at # "none"}

(* The plan holds the unique active_key of this version.                   *)
Suppressed(c, version) ==
    \E p \in Plans : /\ plans[p].slot
                     /\ plans[p].candidate = c
                     /\ plans[p].version = version

(* Mutant: the wrong side of the split counts against the limit.           *)
OwnPlans(c) == EligibleOf(c)

(* The plans that count against the limit: those of other candidates.      *)
Others(c) == EligiblePlans \ EligibleOf(c)

(* Mutant: only the same version is taken for a predecessor.               *)
SameVersion(c) ==
    {p \in EligibleOf(c) : plans[p].version = evaluations[c].version}

(* The plans a new one supersedes.                                         *)
Predecessors(c) == EligibleOf(c)

(***************************************************************************)
(* The evaluation with these plans still to be retired; without any, it    *)
(* has nothing more to write (snapshot and cost estimates change no plan). *)
(***************************************************************************)
Retiring(status, todo) ==
    IF todo = {} THEN NoEvaluation
    ELSE [at |-> "retire", version |-> None, status |-> status, todo |-> todo]

Superseding(c) == Retiring("SUPERSEDED", Predecessors(c))

BeginRiskCycle ==
    /\ risk.at = "idle"
    /\ \/ /\ risk' = [risk EXCEPT
                !.at = "evaluate",
                !.todo = {c \in Candidates : candidates[c] = "CONFIRMED"}]
          /\ DatabaseWorks
       \/ /\ risk' = [risk EXCEPT !.at = "evaluate"]
          /\ Fails
    /\ UNCHANGED <<plans, evaluations>>

(* Evaluation e of candidate c starts; it was waiting for the semaphore.   *)
Starts(c, e) ==
    /\ risk.at = "evaluate"
    /\ c \in risk.todo
    /\ Cardinality(Running) < MaxConcurrent
    /\ risk' = [risk EXCEPT !.todo = @ \ {c}]
    /\ evaluations' = [evaluations EXCEPT ![c] = e]
    /\ UNCHANGED <<plans, failures>>

(***************************************************************************)
(* The evaluation writes nothing: not due, failed, rejected for a reason   *)
(* that leaves plans alone, or paused.                                     *)
(***************************************************************************)
Pass(c) == Starts(c, NoEvaluation)

(***************************************************************************)
(* A plan is found that is neither suppressed by its active key nor by the *)
(* limit.  The limit is checked now and the plan inserted later.           *)
(***************************************************************************)
FindPlan(c) ==
    \E version \in Versions :
        /\ ~Suppressed(c, version)
        /\ Cardinality(Others(c)) < MaxPlans
        /\ Starts(c, [at |-> "insert", version |-> version, status |-> "NONE",
                      todo |-> {}])

(* A rejection that the plans of the candidate mirror.                     *)
Reject(c) ==
    \E status \in {"EXPIRED", "DATA_INVALID"} :
        /\ EligibleOf(c) # {}
        /\ Starts(c, Retiring(status, EligibleOf(c)))

(* Mutant: the predecessors are retired whatever became of the insert.     *)
RetireAnyway(c) == Superseding(c)

(* A failed insert leaves the existing plans untouched.                    *)
AfterFailedInsert(c) == NoEvaluation

(***************************************************************************)
(* insert_new commits the row, then its event: when the second transaction *)
(* fails the plan is there, and the caller treats it as not inserted.  No  *)
(* plan is found when no id is left (bound).                               *)
(***************************************************************************)
InsertPlan(c) ==
    LET p   == CHOOSE p \in UnusedPlans : TRUE
        row == [status |-> "ELIGIBLE", candidate |-> c,
                version |-> evaluations[c].version, slot |-> TRUE]
    IN  /\ evaluations[c].at = "insert"
        /\ \/ /\ UnusedPlans # {}
              /\ plans' = [plans EXCEPT ![p] = row]
              /\ \/ /\ evaluations' = [evaluations EXCEPT ![c] = Superseding(c)]
                    /\ DatabaseWorks
                 \/ /\ evaluations' = [evaluations EXCEPT ![c] = NoEvaluation]
                    /\ Fails
           \/ /\ UnusedPlans = {}
              /\ evaluations' = [evaluations EXCEPT ![c] = NoEvaluation]
              /\ UNCHANGED <<plans, failures>>
           \/ /\ evaluations' = [evaluations EXCEPT ![c] = AfterFailedInsert(c)]
              /\ Fails
              /\ UNCHANGED plans
        /\ UNCHANGED risk

(***************************************************************************)
(* transition(): status, active key and event in one transaction.  Nobody  *)
(* asks again what a retired plan was for.                                 *)
(***************************************************************************)
Retired(p, status) == [plans EXCEPT ![p] = [NoPlan EXCEPT !.status = status]]

(* One superseded predecessor, or one plan that mirrors a rejection.       *)
RetirePlan(c, p) ==
    /\ evaluations[c].at = "retire"
    /\ p \in evaluations[c].todo
    /\ \/ /\ plans' = Retired(p, evaluations[c].status)
          /\ evaluations' = [evaluations EXCEPT ![c] =
                Retiring(@.status, @.todo \ {p})]
          /\ DatabaseWorks
       \/ /\ evaluations' = [evaluations EXCEPT ![c] = NoEvaluation]
          /\ Fails
          /\ UNCHANGED plans
    /\ UNCHANGED risk

(* _expire_and_mirror_plans, when all evaluations are gathered.            *)
BeginMirror ==
    /\ risk.at = "evaluate"
    /\ risk.todo = {}
    /\ Running = {}
    /\ \/ /\ risk' = [risk EXCEPT !.at = "mirror", !.plans = EligiblePlans]
          /\ DatabaseWorks
       \/ /\ risk' = [NoRiskCycle EXCEPT !.at = "idle"]
          /\ Fails
    /\ UNCHANGED <<plans, evaluations>>

(* Mutant: a superseded candidate is taken for an open one.                *)
MirrorsExpiryOnly(state) == IF state = "EXPIRED" THEN "EXPIRED" ELSE "NONE"

(* The status a plan takes over from the last event of its candidate.      *)
Mirrored(state) == IF state \in {"EXPIRED", "SUPERSEDED"} THEN state ELSE "NONE"

(***************************************************************************)
(* A plan that is overdue expires; any other follows its candidate, whose  *)
(* state is read once per cycle.                                           *)
(***************************************************************************)
MirrorPlan(p) ==
    LET c      == plans[p].candidate
        status == IF c \in risk.open THEN "NONE" ELSE Mirrored(candidateEvent[c])
    IN  /\ risk.at = "mirror"
        /\ p \in risk.plans
        /\ \/ /\ \/ plans' = Retired(p, "EXPIRED")
                 \/ status # "NONE" /\ plans' = Retired(p, status)
              /\ risk' = [risk EXCEPT !.plans = @ \ {p}]
              /\ DatabaseWorks
           \/ /\ status = "NONE"
              /\ risk' = [risk EXCEPT !.plans = @ \ {p}, !.open = @ \cup {c}]
              /\ UNCHANGED <<plans, failures>>
           \/ /\ risk' = [risk EXCEPT !.plans = {}]
              /\ Fails
              /\ UNCHANGED plans
        /\ UNCHANGED evaluations

EndRiskCycle ==
    /\ risk.at = "mirror"
    /\ risk.plans = {}
    /\ risk' = [NoRiskCycle EXCEPT !.at = "idle"]
    /\ UNCHANGED <<plans, evaluations, failures>>

Start ==
    /\ risk.at = "down"
    /\ risk' = [risk EXCEPT !.at = "idle"]
    /\ UNCHANGED <<plans, evaluations, failures>>

RiskJob ==
    /\ \/ Start \/ BeginRiskCycle \/ BeginMirror \/ EndRiskCycle
       \/ \E c \in Candidates :
              \/ Pass(c) \/ FindPlan(c) \/ Reject(c) \/ InsertPlan(c)
              \/ \E p \in Plans : RetirePlan(c, p)
       \/ \E p \in Plans : MirrorPlan(p)
    /\ UNCHANGED candidateVars

StrategyJob ==
    CandidatesNext /\ UNCHANGED <<plans, risk, evaluations, failures>>

(* The process dies; both tables stay.                                     *)
Crash ==
    /\ risk.at # "down"
    /\ Fails
    /\ risk' = NoRiskCycle
    /\ evaluations' = [c \in Candidates |-> NoEvaluation]
    /\ UNCHANGED <<candidateVars, plans>>

Next == RiskJob \/ StrategyJob \/ Crash

Spec == Init /\ [][Next]_vars

(***************************************************************************)
(* The process is restarted and the job keeps running: _run loops over     *)
(* cycles and no wait inside one is without an end.                        *)
(***************************************************************************)
FairSpec == Spec /\ WF_vars(RiskJob)

-----------------------------------------------------------------------------
(* Correctness properties.                                                 *)

PlanRow ==
    [status : PlanStatus \cup {"NONE"}, candidate : Candidates \cup {None},
     version : Versions \cup {None}, slot : BOOLEAN]

Evaluation ==
    [at : {"none", "insert", "retire"}, version : Versions \cup {None},
     status : PlanStatus \cup {"NONE"}, todo : SUBSET Plans]

(* The type invariant of both tables and the job.                          *)
TypeOK ==
    /\ CandidatesType
    /\ plans \in [Plans -> PlanRow]
    /\ risk \in [at : {"down", "idle", "evaluate", "mirror"},
                 todo : SUBSET Candidates, plans : SUBSET Plans,
                 open : SUBSET Candidates]
    /\ evaluations \in [Candidates -> Evaluation]
    /\ failures \in Nat

(***************************************************************************)
(* The limit of plans is checked before concurrent evaluations insert: the *)
(* overshoot is bounded by their number.                                   *)
(***************************************************************************)
PlansAreNearlyCapped ==
    Cardinality({c \in Candidates : EligibleOf(c) # {}})
        <= MaxPlans + MaxConcurrent - 1

(***************************************************************************)
(* "ein materiell veraenderter Plan superseded den alten": as long as      *)
(* nothing failed, no candidate has two eligible plans outside of a        *)
(* replacement.  A failure between the two writes leaves both, and the     *)
(* next evaluations are suppressed by the new one.                         *)
(***************************************************************************)
OnePlanUnlessFailed ==
    failures = 0 =>
        \A c \in Candidates \ Running : Cardinality(EligibleOf(c)) <= 1

(***************************************************************************)
(* "only a persisted replacement may supersede its predecessors": a plan   *)
(* is superseded only for another version that is stored already, or       *)
(* because its candidate is.                                               *)
(***************************************************************************)
ReplacementComesFirst ==
    [][\A p \in Plans :
        Eligible(p) /\ plans'[p].status = "SUPERSEDED" =>
            \/ candidates[plans[p].candidate] = "SUPERSEDED"
            \/ \E q \in EligibleOf(plans[p].candidate) :
                   plans[q].version # plans[p].version]_vars

(***************************************************************************)
(* A candidate that expires or is superseded takes its plans with it, even *)
(* a plan that was being made from an older reading of the candidate, and  *)
(* even if the process dies: in the end none is eligible, for good.  (A    *)
(* candidate closes once and there are finitely many, so one end serves    *)
(* all of them.)                                                           *)
(***************************************************************************)
PlansFollowCandidates ==
    <>[](\A c \in Candidates : Closed(c) => EligibleOf(c) = {})

=============================================================================
