------------------------ MODULE SignalLifecycle_proofs ------------------------
(***************************************************************************)
(* Proofs about SignalLifecycle, for every number of processes, plans and  *)
(* signals, every configuration the settings class accepts and every bound *)
(* on clock, crashes and failed transactions: what the engine may choose,  *)
(* the type invariant, and from RowStep, what one step may do to the rows, *)
(* the safety of slots, terminal states, leases, decisions and the audit   *)
(* trail, and the refinement of ResearchSignals.                           *)
(***************************************************************************)
EXTENDS SignalLifecycle, WellFoundedInduction, TLAPS

-----------------------------------------------------------------------------
(* The engine: the choice by priority is well-defined and proposes legal   *)
(* moves only.                                                             *)

FindingType == [order : 1 .. 10, key : PriorityKeys, to : SignalState]

(* The number that the winner minimises.                                   *)
Rank(f) == 11 * (Priority["DATA_INVALID"] - Priority[f.key]) + f.order

(* Ranks are natural numbers, so a set of findings has a least one.        *)
LEMMA RankIsNat ==
  ASSUME NEW f \in FindingType
  PROVE  Rank(f) \in Nat
<1>1. Priority["DATA_INVALID"] \in Int /\ Priority[f.key] \in Int /\ f.order \in 1 .. 10
  BY PriorityAssumption DEF PriorityKeys, FindingType
<1>2. Priority["DATA_INVALID"] >= Priority[f.key]
  BY PriorityAssumption DEF PriorityKeys, FindingType
<1> QED
  BY <1>1, <1>2 DEF Rank

(* The finding of lower rank outranks the other.                           *)
LEMMA RankOrders ==
  ASSUME NEW f \in FindingType, NEW g \in FindingType, Rank(f) <= Rank(g)
  PROVE  Outranks(f, g)
<1>1. Priority["DATA_INVALID"] \in Int /\ Priority[f.key] \in Int /\ f.order \in 1 .. 10
  BY PriorityAssumption DEF PriorityKeys, FindingType
<1>2. Priority[g.key] \in Int /\ g.order \in 1 .. 10
  BY PriorityAssumption DEF PriorityKeys, FindingType
<1> QED
  BY <1>1, <1>2 DEF Rank, Outranks

(* The winner exists: CHOOSE finds a finding that outranks all.            *)
LEMMA WinnerWins ==
  ASSUME NEW F \in SUBSET FindingType, F # {}
  PROVE  /\ Winner(F) \in F
         /\ \A g \in F : Outranks(Winner(F), g)
<1> DEFINE Ranks == {Rank(f) : f \in F}
           Less == OpToRel(<, Nat)
<1>1. Ranks \subseteq Nat /\ Ranks # {}
  BY RankIsNat
<1>2. PICK r \in Ranks : \A x \in Ranks : ~(<<x, r>> \in Less)
  <2> HIDE DEF Ranks
  <2> QED
    BY <1>1, NatLessThanWellFounded, WFMin, Zenon
<1>3. PICK f \in F : r = Rank(f)
  OBVIOUS
<1>4. ASSUME NEW g \in F
      PROVE  Outranks(f, g)
  <2>1. Rank(g) \in Nat /\ Rank(f) \in Nat /\ Rank(g) \in Ranks
    BY RankIsNat
  <2>2. ~(Rank(g) < Rank(f))
    BY <1>2, <1>3, <2>1 DEF OpToRel
  <2> QED
    BY <2>1, <2>2, RankOrders
<1> QED
  BY <1>3, <1>4 DEF Winner

(* Every monitor proposes a state under a priority key.                    *)
LEMMA FindingsTyped ==
  ASSUME NEW sig, NEW ctx, NEW now, NEW paused
  PROVE  Findings(sig, ctx, now, paused) \subseteq FindingType
<1> USE DEF FindingType, Finding, If, PriorityKeys, SignalState
<1>1. CheckDataQuality(sig, ctx, now) \subseteq FindingType
  BY DEF CheckDataQuality
<1>2. CheckPlan(sig, ctx) \subseteq FindingType
  BY DEF CheckPlan
<1>3. CheckSupersede(sig, ctx) \subseteq FindingType
  BY DEF CheckSupersede
<1>4. CheckExpiry(sig, ctx, now) \subseteq FindingType
  BY DEF CheckExpiry
<1>5. CheckSession(sig, ctx) \subseteq FindingType
  BY PolicyAssumption DEF CheckSession
<1>6. CheckInvalidation(sig, ctx) \subseteq FindingType
  BY DEF CheckInvalidation
<1>7. CheckStructureExit(sig, ctx) \subseteq FindingType
  BY DEF CheckStructureExit
<1>8. CheckTargets(sig, ctx) \subseteq FindingType
  BY DEF CheckTargets
<1>9. CheckEntry(sig, ctx, now, paused) \subseteq FindingType
  BY DEF CheckEntry
<1>10. AutoProgress(sig) \subseteq FindingType
  BY DEF AutoProgress
<1> HIDE DEF FindingType
<1> QED
  BY <1>1, <1>2, <1>3, <1>4, <1>5, <1>6, <1>7, <1>8, <1>9, <1>10 DEF Findings

(* The first step of an evaluation is the winner among the legal findings. *)
LEMMA EvaluateShape ==
  ASSUME NEW sig, NEW ctx, NEW now, NEW paused,
         NEW steps, steps = EvaluateSignal(sig, ctx, now, paused), steps # <<>>
  PROVE  /\ ~IsTerminal(sig.state)
         /\ \E f \in LegalFindings(sig, ctx, now, paused) :
               /\ \A g \in LegalFindings(sig, ctx, now, paused) : Outranks(f, g)
               /\ \/ /\ f.to # "ENTRY_CONFIRMED"
                     /\ steps = <<Step(sig.state, f.to)>>
                  \/ /\ f.to = "ENTRY_CONFIRMED"
                     /\ steps = <<Step(sig.state, f.to),
                                  Step("ENTRY_CONFIRMED", "ACTIVE_RESEARCH")>>
<1> DEFINE legal == LegalFindings(sig, ctx, now, paused)
           w == Winner(legal)
<1>1. ~IsTerminal(sig.state) /\ legal # {}
  BY Zenon DEF EvaluateSignal
<1>2. legal \in SUBSET FindingType
  BY FindingsTyped DEF LegalFindings
<1>3. w \in legal /\ \A g \in legal : Outranks(w, g)
  <2> HIDE DEF legal
  <2> QED
    BY <1>1, <1>2, WinnerWins
<1>4. \/ /\ w.to # "ENTRY_CONFIRMED"
         /\ steps = <<Step(sig.state, w.to)>>
      \/ /\ w.to = "ENTRY_CONFIRMED"
         /\ steps = <<Step(sig.state, w.to),
                      Step("ENTRY_CONFIRMED", "ACTIVE_RESEARCH")>>
  BY <1>1, Zenon DEF EvaluateSignal
<1> HIDE DEF w
<1> QED
  BY <1>1, <1>3, <1>4, Zenon

(* An evaluation returns a chain of legal moves.                           *)
LEMMA EvaluateLegal ==
  ASSUME NEW sig, NEW ctx, NEW now, NEW paused, sig.state \in SignalState,
         NEW steps, steps = EvaluateSignal(sig, ctx, now, paused)
  PROVE  /\ steps \in Seq([from : SignalState, to : SignalState])
         /\ \A i \in 1 .. Len(steps) : CanTransition(steps[i].from, steps[i].to)
<1>1. CASE steps = <<>>
  BY <1>1
<1>2. CASE steps # <<>>
  <2>1. PICK f \in LegalFindings(sig, ctx, now, paused) :
               \/ steps = <<Step(sig.state, f.to)>>
               \/ /\ f.to = "ENTRY_CONFIRMED"
                  /\ steps = <<Step(sig.state, f.to),
                               Step("ENTRY_CONFIRMED", "ACTIVE_RESEARCH")>>
    BY <1>2, EvaluateShape
  <2>2. f \in FindingType /\ CanTransition(sig.state, f.to)
    BY FindingsTyped DEF LegalFindings
  <2>3. f.to \in SignalState
    BY <2>2 DEF FindingType
  <2>4. CanTransition("ENTRY_CONFIRMED", "ACTIVE_RESEARCH")
    BY DEF CanTransition, TRANSITIONS
  <2>5. /\ Step(sig.state, f.to) \in [from : SignalState, to : SignalState]
        /\ Step("ENTRY_CONFIRMED", "ACTIVE_RESEARCH") \in [from : SignalState, to : SignalState]
    BY <2>3 DEF Step, SignalState
  <2>6. CASE steps = <<Step(sig.state, f.to)>>
    BY <2>2, <2>5, <2>6 DEF Step
  <2>7. CASE steps = <<Step(sig.state, f.to), Step("ENTRY_CONFIRMED", "ACTIVE_RESEARCH")>>
    <3>1. steps \in Seq([from : SignalState, to : SignalState]) /\ Len(steps) = 2
      BY <2>5, <2>7
    <3>2. /\ steps[1] = Step(sig.state, f.to)
          /\ steps[2] = Step("ENTRY_CONFIRMED", "ACTIVE_RESEARCH")
      BY <2>7
    <3> QED
      BY <3>1, <3>2, <2>2, <2>4, <2>7 DEF Step
  <2> QED
    BY <2>1, <2>6, <2>7
<1> QED
  BY <1>1, <1>2

-----------------------------------------------------------------------------
(* What the update operators do.                                           *)

(* Every idle place-holder has its type.                                   *)
LEMMA IdleTypes ==
  /\ IdleProcess \in ProcessType
  /\ IdleTask \in TaskType
  /\ AllIdle \in [Signals -> TaskType]
<1>1. IdleProcess \in ProcessType
  BY DEF IdleProcess, ProcessType, Places
<1>2. IdleTask \in TaskType
  BY DEF IdleTask, TaskType, TaskPlaces, Snapshot, SnapshotType, AbsentRow
<1> QED
  BY <1>1, <1>2 DEF AllIdle

(* An update with a value of the right type keeps the variable's type.     *)
LEMMA SetProcessType ==
  ASSUME process \in [Processes -> ProcessType], NEW p \in Processes
  PROVE  \A c \in ProcessType :
             SetProcess(p, c) => process' \in [Processes -> ProcessType]
  BY DEF SetProcess

(* The same for a row,                                                     *)
LEMMA SetRowType ==
  ASSUME row \in [Signals -> RowType], NEW s \in Signals
  PROVE  \A r \in RowType : SetRow(s, r) => row' \in [Signals -> RowType]
  BY DEF SetRow

(* a task,                                                                 *)
LEMMA SetTaskType ==
  ASSUME task \in [Processes -> [Signals -> TaskType]],
         NEW p \in Processes, NEW s \in Signals
  PROVE  \A t \in TaskType :
             SetTask(p, s, t) => task' \in [Processes -> [Signals -> TaskType]]
  BY DEF SetTask

(* and all tasks of a process.                                             *)
LEMMA SetTasksType ==
  ASSUME task \in [Processes -> [Signals -> TaskType]], NEW p \in Processes
  PROVE  \A f \in [Signals -> TaskType] :
             SetTasks(p, f) => task' \in [Processes -> [Signals -> TaskType]]
  BY DEF SetTasks

(* A record keeps its type when fields get values of theirs.               *)
LEMMA TaskFieldTypes ==
  ASSUME NEW t \in TaskType
  PROVE  /\ \A place \in TaskPlaces : [t EXCEPT !.at = place] \in TaskType
         /\ [t EXCEPT !.at = "touch", !.steps = <<>>] \in TaskType
         /\ \A place \in TaskPlaces, steps \in Seq(StepType), e \in Nat :
               [t EXCEPT !.at = place, !.steps = steps, !.expected = e] \in TaskType
         /\ \A place \in TaskPlaces, steps \in Seq(StepType), e \in Nat, c \in Surroundings :
               [t EXCEPT !.at = place, !.steps = steps, !.expected = e,
                         !.context = c] \in TaskType
<1> HIDE DEF StepType
<1>1. "touch" \in TaskPlaces
  BY DEF TaskPlaces
<1>2. <<>> \in Seq(StepType)
  OBVIOUS
<1> QED
  BY <1>1, <1>2 DEF TaskType

(* A lease keeps the row typed.                                            *)
LEMMA LeasedType ==
  ASSUME NEW r \in RowType, NEW p \in Processes, NEW n \in Nat
  PROVE  [r EXCEPT !.leaseOwner = p, !.leaseUntil = n] \in RowType
  BY DEF RowType

(* A transition keeps the row typed.                                       *)
LEMMA TransitionedType ==
  ASSUME NEW r \in RowType, NEW to \in SignalState, NEW e \in Nat, NEW now \in Nat
  PROVE  Transitioned(r, to, e, now) \in RowType
<1> DEFINE k == IF IsTerminal(to) THEN None ELSE r.activeKey
           n == IF to = "ENTRY_CONFIRMED" THEN now ELSE r.entryAt
<1>1. k \in Keys \cup {None} /\ n \in Nat \cup {None} /\ e + 1 \in Nat
  BY DEF RowType
<1>2. Transitioned(r, to, e, now) =
          [r EXCEPT !.state = to, !.version = e + 1, !.activeKey = k,
                    !.entryAt = n]
  BY Zenon DEF Transitioned
<1> HIDE DEF k, n
<1>3. [r EXCEPT !.state = to, !.version = e + 1, !.activeKey = k,
                !.entryAt = n] \in RowType
  BY <1>1 DEF RowType
<1> QED
  BY <1>2, <1>3

-----------------------------------------------------------------------------
(* Types, and where each process and task stands.                          *)

LegalSteps(steps) ==
    /\ steps # <<>>
    /\ \A i \in 1 .. Len(steps) : CanTransition(steps[i].from, steps[i].to)

(***************************************************************************)
(* What a process or task relies on at its place: the plan it inserts, the *)
(* row it works on, the legal transitions it still has to apply.           *)
(***************************************************************************)
PlaceInv ==
    /\ \A p \in Processes :
           /\ process[p].at = "insert" => process[p].plan \in Plans
           /\ process[p].at = "chain" =>
                  process[p].signal \in Signals /\ Exists(process[p].signal)
    /\ \A p \in Processes, s \in Signals :
           task[p][s].at # "none" =>
               /\ process[p].at = "monitor"
               /\ Exists(s)
               /\ task[p][s].snapshot.state \in SignalState
    /\ \A p \in Processes, s \in Signals :
           task[p][s].at \in {"apply", "event"} => LegalSteps(task[p][s].steps)

(* The initial state is typed.                                             *)
LEMMA TypeInit == Init => TypeOK
<1> SUFFICES ASSUME Init PROVE TypeOK
  OBVIOUS
<1>1. AbsentRow \in RowType
  BY DEF AbsentRow, RowType
<1>2. row \in [Signals -> RowType]
  BY <1>1 DEF Init
<1>3. process \in [Processes -> ProcessType]
  BY IdleTypes DEF Init
<1>4. task \in [Processes -> [Signals -> TaskType]]
  BY IdleTypes DEF Init
<1>5. /\ clock \in Nat /\ crashes \in Nat /\ faults \in Nat
      /\ events \in [Signals -> SUBSET EventType]
      /\ trail \in [Signals -> Seq(SignalState)]
      /\ seenHealthy \in [Signals -> Nat]
  BY DEF Init
<1> QED
  BY <1>2, <1>3, <1>4, <1>5 DEF TypeOK

(* A failed transaction is counted, nothing else counts.                   *)
LEMMA FaultsCounted ==
  ASSUME faults \in Nat, (UNCHANGED faults) \/ DatabaseFails
  PROVE  faults' \in Nat
<1>1. faults' = faults \/ faults' = faults + 1
  BY DEF DatabaseFails
<1> QED
  BY <1>1

(* The events of the creation chain and of one transition have their type. *)
LEMMA EventTypes ==
  /\ CreationChain \subseteq EventType
  /\ CreationTrail \in Seq(SignalState)
  /\ \A v \in Nat, to \in SignalState : Event(v, to) \in EventType
<1>1. CreationTrail \in Seq(SignalState) /\ Len(CreationTrail) = 3
  BY DEF CreationTrail, SignalState
<1>2. \A v \in 0 .. 2 : CreationTrail[v + 1] \in SignalState
  BY <1>1
<1>3. \A v \in Nat, to \in SignalState : Event(v, to) \in EventType
  BY DEF Event, EventType
<1> QED
  BY <1>1, <1>2, <1>3 DEF CreationChain

(* Every step keeps the types.                                             *)
LEMMA TypeNext ==
  ASSUME TypeOK, PlaceInv, Next
  PROVE  TypeOK'
<1>c. clock \in Nat
  BY DEF TypeOK
<1>r. row \in [Signals -> RowType]
  BY DEF TypeOK
<1>e. events \in [Signals -> SUBSET EventType]
  BY DEF TypeOK
<1>p. process \in [Processes -> ProcessType]
  BY DEF TypeOK
<1>t. task \in [Processes -> [Signals -> TaskType]]
  BY DEF TypeOK
<1>f. crashes \in Nat /\ faults \in Nat
  BY DEF TypeOK
<1>h. trail \in [Signals -> Seq(SignalState)] /\ seenHealthy \in [Signals -> Nat]
  BY DEF TypeOK
<1>1. CASE Tick
  <2>1. clock' \in Nat
    BY <1>1, <1>c DEF Tick
  <2> QED
    BY <1>1, <2>1 DEF Tick, history, TypeOK
<1>2. ASSUME NEW p \in Processes, StartCycle(p)
      PROVE  TypeOK'
  <2>1. faults' \in Nat
    BY <1>2, <1>f, FaultsCounted DEF StartCycle
  <2>2. \A x \in BOOLEAN : \A y \in SUBSET Plans : Cycle(x, y) \in ProcessType
    BY <1>c, IdleTypes DEF ProcessType, Places, Cycle
  <2>3. \E c \in ProcessType : SetProcess(p, c)
    BY <1>2, <2>2 DEF StartCycle
  <2>4. process' \in [Processes -> ProcessType]
    BY <1>p, <2>3, SetProcessType
  <2> QED
    BY <1>2, <2>1, <2>4 DEF StartCycle, history, TypeOK
<1>3. ASSUME NEW p \in Processes, SkipPlan(p)
      PROVE  TypeOK'
  <2>1. \A plan : [process[p] EXCEPT !.todo = @ \ {plan}] \in ProcessType
    BY <1>p DEF ProcessType
  <2>2. \E c \in ProcessType : SetProcess(p, c)
    BY <1>3, <2>1 DEF SkipPlan
  <2>3. process' \in [Processes -> ProcessType]
    BY <1>p, <2>2, SetProcessType
  <2> QED
    BY <1>3, <2>3 DEF SkipPlan, history, TypeOK
<1>4. ASSUME NEW p \in Processes, AdmitPlan(p)
      PROVE  TypeOK'
  <2>1. \A plan \in process[p].todo :
            [process[p] EXCEPT !.at = "insert", !.plan = plan,
                               !.todo = @ \ {plan}] \in ProcessType
    BY <1>p DEF ProcessType, Places
  <2>2. \E c \in ProcessType : SetProcess(p, c)
    BY <1>4, <2>1 DEF AdmitPlan
  <2>3. process' \in [Processes -> ProcessType]
    BY <1>p, <2>2, SetProcessType
  <2> QED
    BY <1>4, <2>3 DEF AdmitPlan, history, TypeOK
<1>5. ASSUME NEW p \in Processes, InsertRow(p)
      PROVE  TypeOK'
  <2> DEFINE new == NewRow(process[p].plan, Config[p], process[p].now)
  <2>1. faults' \in Nat
    BY <1>5, <1>f, FaultsCounted DEF InsertRow
  <2>2. process' \in [Processes -> ProcessType]
    <3>1. [process[p] EXCEPT !.at = "admit", !.plan = None, !.signal = None] \in ProcessType
      BY <1>p DEF ProcessType, Places
    <3>2. \A s \in Signals :
              [process[p] EXCEPT !.at = "chain", !.signal = s] \in ProcessType
      BY <1>p DEF ProcessType, Places
    <3>3. \E c \in ProcessType : SetProcess(p, c)
      BY <1>5, <3>1, <3>2 DEF InsertRow, NextPlan
    <3> QED
      BY <1>p, <3>3, SetProcessType
  <2>3. new \in RowType
    <3>1. process[p].plan \in Plans /\ process[p].now \in Nat
      BY <1>5, <1>p DEF InsertRow, PlaceInv, ProcessType
    <3>2. DedupeKey(process[p].plan, Config[p]) \in Keys
      BY <3>1 DEF Keys
    <3>3. PlanExpiry[process[p].plan] \in Nat
      BY <3>1, ConstantsAssumption
    <3>4. AbsentRow \in RowType
      BY DEF AbsentRow, RowType
    <3> QED
      BY <3>1, <3>2, <3>3, <3>4 DEF NewRow, RowType, SignalState
  <2>4. \/ UNCHANGED <<row, trail, seenHealthy>>
        \/ \E s \in Signals : /\ SetRow(s, new)
                              /\ trail' = [trail EXCEPT ![s] = CreationTrail]
                              /\ seenHealthy' = [seenHealthy EXCEPT ![s] = process[p].now]
    BY <1>5 DEF InsertRow, history
  <2>5. row' \in [Signals -> RowType]
    BY <1>r, <2>3, <2>4, SetRowType
  <2>6. trail' \in [Signals -> Seq(SignalState)]
    BY <1>h, <2>4, EventTypes
  <2>7. seenHealthy' \in [Signals -> Nat]
    <3>1. process[p].now \in Nat
      BY <1>p DEF ProcessType
    <3> QED
      BY <1>h, <2>4, <3>1
  <2> QED
    BY <1>5, <2>1, <2>2, <2>5, <2>6, <2>7 DEF InsertRow, TypeOK
<1>6. ASSUME NEW p \in Processes, InsertChain(p)
      PROVE  TypeOK'
  <2>1. faults' \in Nat
    BY <1>6, <1>f, FaultsCounted DEF InsertChain
  <2>2. process' \in [Processes -> ProcessType]
    <3>1. [process[p] EXCEPT !.at = "admit", !.plan = None, !.signal = None] \in ProcessType
      BY <1>p DEF ProcessType, Places
    <3> QED
      BY <1>6, <1>p, <3>1, SetProcessType DEF InsertChain, NextPlan
  <2>3. events' \in [Signals -> SUBSET EventType]
    <3>1. \/ UNCHANGED events
          \/ events' = [events EXCEPT ![process[p].signal] = @ \cup CreationChain]
      BY <1>6 DEF InsertChain
    <3> QED
      BY <1>e, <3>1, EventTypes
  <2> QED
    BY <1>6, <2>1, <2>2, <2>3 DEF InsertChain, history, TypeOK
<1>7. ASSUME NEW p \in Processes, LoadRows(p)
      PROVE  TypeOK'
  <2>1. faults' \in Nat
    BY <1>7, <1>f, FaultsCounted DEF LoadRows
  <2>2. process' \in [Processes -> ProcessType]
    <3>1. [process[p] EXCEPT !.at = "monitor"] \in ProcessType
      BY <1>p DEF ProcessType, Places
    <3> QED
      BY <1>7, <1>p, <3>1, SetProcessType DEF LoadRows, GoTo
  <2>3. \A s \in Signals : LoadedTask(row[s]) \in TaskType
    <3>1. \A s \in Signals : Snapshot(row[s]) \in SnapshotType
      BY <1>r DEF Snapshot, SnapshotType, RowType
    <3> QED
      BY <3>1, IdleTypes DEF TaskType, TaskPlaces, LoadedTask
  <2>4. task' \in [Processes -> [Signals -> TaskType]]
    <3> DEFINE loaded == [s \in Signals |->
                             IF s \in NonTerminal THEN LoadedTask(row[s])
                             ELSE IdleTask]
    <3>1. loaded \in [Signals -> TaskType]
      BY <2>3, IdleTypes
    <3>2. SetTasks(p, loaded) \/ SetTasks(p, AllIdle)
      BY <1>7, Zenon DEF LoadRows
    <3> QED
      BY <1>t, <3>1, <3>2, SetTasksType, IdleTypes
  <2> QED
    BY <1>7, <2>1, <2>2, <2>4 DEF LoadRows, history, TypeOK
<1>8. ASSUME NEW p \in Processes, NEW s \in Signals, Claim(p, s)
      PROVE  TypeOK'
  <2>1. faults' \in Nat
    BY <1>8, <1>f, FaultsCounted DEF Claim
  <2>2. task' \in [Processes -> [Signals -> TaskType]]
    <3>1. [task[p][s] EXCEPT !.at = "evaluate"] \in TaskType
      BY <1>t, TaskFieldTypes DEF TaskPlaces
    <3>2. \E t \in TaskType : SetTask(p, s, t)
      BY <1>8, <3>1, IdleTypes DEF Claim, TaskTo, Finish
    <3> QED
      BY <1>t, <3>2, SetTaskType
  <2>3. row' \in [Signals -> RowType]
    <3>1. [row[s] EXCEPT !.leaseOwner = p,
                         !.leaseUntil = process[p].now + LeaseTime] \in RowType
      <4>1. process[p].now + LeaseTime \in Nat
        BY <1>p, ConstantsAssumption DEF ProcessType
      <4> QED
        BY <1>r, <4>1, LeasedType
    <3>2. row' = row \/ \E r \in RowType : SetRow(s, r)
      BY <1>8, <3>1 DEF Claim
    <3> QED
      BY <1>r, <3>2, SetRowType
  <2> QED
    BY <1>8, <2>1, <2>2, <2>3 DEF Claim, history, TypeOK
<1>9. ASSUME NEW p \in Processes, NEW s \in Signals, Evaluate(p, s)
      PROVE  TypeOK'
  <2>1. faults' \in Nat
    BY <1>9, <1>f, FaultsCounted DEF Evaluate
  <2>2. \A ctx \in Surroundings :
            Evaluated(task[p][s], ctx, process[p].now, process[p].paused) \in TaskType
    <3> TAKE ctx \in Surroundings
    <3> DEFINE steps == EvaluateSignal(task[p][s].snapshot, ctx,
                                       process[p].now, process[p].paused)
    <3>1. task[p][s].snapshot.state \in SignalState
      BY <1>9 DEF Evaluate, PlaceInv
    <3>2. steps \in Seq(StepType)
      <4> HIDE DEF StepType
      <4> QED
        BY <3>1, EvaluateLegal DEF StepType
    <3>3. task[p][s] \in TaskType /\ task[p][s].snapshot.version \in Nat
      BY <1>t DEF TaskType, SnapshotType
    <3> HIDE DEF steps
    <3>4. [task[p][s] EXCEPT !.at = IF steps = <<>> THEN "touch" ELSE "apply",
                  !.steps = steps,
                  !.expected = task[p][s].snapshot.version,
                  !.context = ctx] \in TaskType
      BY <3>2, <3>3, TaskFieldTypes DEF TaskPlaces
    <3> QED
      BY <3>4 DEF Evaluated, steps
  <2>3. task' \in [Processes -> [Signals -> TaskType]]
    <3>1. [task[p][s] EXCEPT !.at = "release"] \in TaskType
      BY <1>t, TaskFieldTypes DEF TaskPlaces
    <3>2. \E t \in TaskType : SetTask(p, s, t)
      BY <1>9, <2>2, <3>1 DEF Evaluate, TaskTo
    <3> QED
      BY <1>t, <3>2, SetTaskType
  <2>4. seenHealthy' \in [Signals -> Nat]
    <3>1. process[p].now \in Nat
      BY <1>p DEF ProcessType
    <3>2. \/ seenHealthy' = seenHealthy
          \/ seenHealthy' = [seenHealthy EXCEPT ![s] = process[p].now]
          \/ seenHealthy' = [seenHealthy EXCEPT ![s] = @]
      BY <1>9 DEF Evaluate
    <3> QED
      BY <1>h, <3>1, <3>2
  <2> QED
    BY <1>9, <2>1, <2>3, <2>4 DEF Evaluate, TypeOK
<1>10. ASSUME NEW p \in Processes, NEW s \in Signals, ApplyRow(p, s)
       PROVE  TypeOK'
  <2> DEFINE step == Head(task[p][s].steps)
             new == Transitioned(row[s], step.to, task[p][s].expected, process[p].now)
  <2>1. faults' \in Nat
    BY <1>10, <1>f, FaultsCounted DEF ApplyRow
  <2>2. step \in StepType
    <3>1. task[p][s].steps \in Seq(StepType) /\ task[p][s].steps # <<>>
      BY <1>10, <1>t DEF ApplyRow, PlaceInv, LegalSteps, TaskType
    <3> QED
      BY <3>1
  <2>3. new \in RowType
    <3>1. step.to \in SignalState
      BY <2>2 DEF StepType
    <3>2. task[p][s].expected \in Nat /\ process[p].now \in Nat
      BY <1>t, <1>p DEF TaskType, ProcessType
    <3> QED
      BY <1>r, <3>1, <3>2, TransitionedType
  <2>4. \/ row' = row /\ trail' = trail
        \/ SetRow(s, new) /\ trail' = [trail EXCEPT ![s] = Append(@, step.to)]
    BY <1>10 DEF ApplyRow, history
  <2>5. row' \in [Signals -> RowType]
    BY <1>r, <2>3, <2>4, SetRowType
  <2>6. trail' \in [Signals -> Seq(SignalState)]
    <3>1. Append(trail[s], step.to) \in Seq(SignalState)
      BY <2>2, <1>h DEF StepType
    <3> QED
      BY <1>h, <2>4, <3>1
  <2>7. task' \in [Processes -> [Signals -> TaskType]]
    <3>1. [task[p][s] EXCEPT !.at = "event"] \in TaskType
      BY <1>t, TaskFieldTypes DEF TaskPlaces
    <3>2. [task[p][s] EXCEPT !.at = "touch", !.steps = <<>>] \in TaskType
      <4>1. task[p][s] \in TaskType
        BY <1>t
      <4> QED
        BY <4>1, TaskFieldTypes
    <3>3. TaskTo(p, s, "event") \/ StopApplying(p, s)
      BY <1>10 DEF ApplyRow
    <3>4. \E t \in TaskType : SetTask(p, s, t)
      BY <3>1, <3>2, <3>3 DEF TaskTo, StopApplying
    <3> QED
      BY <1>t, <3>4, SetTaskType
  <2>8. seenHealthy' = seenHealthy
    BY <1>10 DEF ApplyRow, history
  <2> QED
    BY <1>10, <2>1, <2>5, <2>6, <2>7, <2>8 DEF ApplyRow, TypeOK
<1>11. ASSUME NEW p \in Processes, NEW s \in Signals, InsertEvent(p, s)
       PROVE  TypeOK'
  <2> DEFINE t == task[p][s]
             step == Head(t.steps)
             rest == Tail(t.steps)
  <2>1. faults' \in Nat
    BY <1>11, <1>f, FaultsCounted DEF InsertEvent
  <2>2. t.steps \in Seq(StepType) /\ t.steps # <<>> /\ t.expected \in Nat /\ t \in TaskType
    BY <1>11, <1>t DEF InsertEvent, PlaceInv, LegalSteps, TaskType
  <2>3. step \in StepType /\ rest \in Seq(StepType)
    BY <2>2
  <2>4. events' \in [Signals -> SUBSET EventType]
    <3>1. Event(t.expected + 1, step.to) \in EventType
      BY <2>2, <2>3, EventTypes DEF StepType
    <3>2. \/ events' = events
          \/ events' = [events EXCEPT ![s] = @ \cup {Event(t.expected + 1, step.to)}]
      BY <1>11 DEF InsertEvent
    <3> QED
      BY <1>e, <3>1, <3>2
  <2>5. task' \in [Processes -> [Signals -> TaskType]]
    <3> DEFINE next == [t EXCEPT !.at = IF rest = <<>> THEN "touch" ELSE "apply",
                                 !.steps = rest, !.expected = t.expected + 1]
    <3>1. next \in TaskType
      <4> DEFINE place == IF rest = <<>> THEN "touch" ELSE "apply"
      <4>1. place \in TaskPlaces
        BY DEF TaskPlaces
      <4>2. t.expected + 1 \in Nat
        BY <2>2
      <4> HIDE DEF t, rest, place
      <4>3. [t EXCEPT !.at = place, !.steps = rest,
                      !.expected = t.expected + 1] \in TaskType
        BY <2>2, <2>3, <4>1, <4>2, TaskFieldTypes
      <4> QED
        BY <4>3 DEF place
    <3>2. [t EXCEPT !.at = "touch", !.steps = <<>>] \in TaskType
      BY <1>t, TaskFieldTypes
    <3>3. SetTask(p, s, next) \/ StopApplying(p, s)
      BY <1>11 DEF InsertEvent
    <3> HIDE DEF next
    <3>4. \E u \in TaskType : SetTask(p, s, u)
      BY <3>1, <3>2, <3>3 DEF StopApplying
    <3> QED
      BY <1>t, <3>4, SetTaskType
  <2> QED
    BY <1>11, <2>1, <2>4, <2>5 DEF InsertEvent, history, TypeOK
<1>12. ASSUME NEW p \in Processes, NEW s \in Signals, Touch(p, s)
       PROVE  TypeOK'
  <2>1. faults' \in Nat
    BY <1>12, <1>f, FaultsCounted DEF Touch
  <2>2. task' \in [Processes -> [Signals -> TaskType]]
    <3>1. [task[p][s] EXCEPT !.at = "release"] \in TaskType
      BY <1>t, TaskFieldTypes DEF TaskPlaces
    <3> QED
      BY <1>12, <1>t, <3>1, SetTaskType DEF Touch, TaskTo
  <2>3. row' \in [Signals -> RowType]
    <3>1. DegradedMarker(task[p][s], process[p].now) \in Nat \cup {None}
      BY <1>t, <1>p DEF DegradedMarker, TaskType, SnapshotType, ProcessType
    <3>2. [row[s] EXCEPT !.degradedSince =
                DegradedMarker(task[p][s], process[p].now)] \in RowType
      BY <1>r, <3>1 DEF RowType
    <3>3. row' = row \/ \E r \in RowType : SetRow(s, r)
      BY <1>12, <3>2 DEF Touch
    <3> QED
      BY <1>r, <3>3, SetRowType
  <2> QED
    BY <1>12, <2>1, <2>2, <2>3 DEF Touch, history, TypeOK
<1>13. ASSUME NEW p \in Processes, NEW s \in Signals, Release(p, s)
       PROVE  TypeOK'
  <2>1. faults' \in Nat
    BY <1>13, <1>f, FaultsCounted DEF Release
  <2>2. task' \in [Processes -> [Signals -> TaskType]]
    BY <1>13, <1>t, SetTaskType, IdleTypes DEF Release, Finish
  <2>3. row' \in [Signals -> RowType]
    <3>1. Released(row[s], p) \in RowType
      BY <1>r DEF Released, RowType
    <3>2. row' = row \/ \E r \in RowType : SetRow(s, r)
      BY <1>13, <3>1 DEF Release
    <3> QED
      BY <1>r, <3>2, SetRowType
  <2> QED
    BY <1>13, <2>1, <2>2, <2>3 DEF Release, history, TypeOK
<1>14. ASSUME NEW p \in Processes, EndCycle(p)
       PROVE  TypeOK'
  <2>1. process' \in [Processes -> ProcessType]
    BY <1>14, <1>p, SetProcessType, IdleTypes DEF EndCycle
  <2>2. task' \in [Processes -> [Signals -> TaskType]]
    BY <1>14, <1>t, SetTasksType, IdleTypes DEF EndCycle
  <2> QED
    BY <1>14, <2>1, <2>2 DEF EndCycle, history, TypeOK
<1>15. ASSUME NEW p \in Processes, Crash(p)
       PROVE  TypeOK'
  <2>1. process' \in [Processes -> ProcessType]
    <3>1. [IdleProcess EXCEPT !.at = "dead"] \in ProcessType
      BY IdleTypes DEF ProcessType, Places
    <3> QED
      BY <1>15, <1>p, <3>1, SetProcessType DEF Crash
  <2>2. task' \in [Processes -> [Signals -> TaskType]]
    BY <1>15, <1>t, SetTasksType, IdleTypes DEF Crash
  <2>3. crashes' \in Nat
    BY <1>15, <1>f DEF Crash
  <2> QED
    BY <1>15, <2>1, <2>2, <2>3 DEF Crash, history, TypeOK
<1> QED
  BY <1>1, <1>2, <1>3, <1>4, <1>5, <1>6, <1>7, <1>8, <1>9, <1>10, <1>11, <1>12,
     <1>13, <1>14, <1>15
  DEF Next, Work, Admission, Monitoring

-----------------------------------------------------------------------------
(* What one step does to the rows.                                         *)

(* The update operators, point by point.                                   *)
LEMMA SetProcessAt ==
  ASSUME process \in [Processes -> ProcessType], NEW p \in Processes, NEW c,
         SetProcess(p, c)
  PROVE  \A q \in Processes : process'[q] = IF q = p THEN c ELSE process[q]
  BY DEF SetProcess

(* The same for a row,                                                     *)
LEMMA SetRowAt ==
  ASSUME row \in [Signals -> RowType], NEW s \in Signals, NEW r, SetRow(s, r)
  PROVE  \A u \in Signals : row'[u] = IF u = s THEN r ELSE row[u]
  BY DEF SetRow

(* a task,                                                                 *)
LEMMA SetTaskAt ==
  ASSUME task \in [Processes -> [Signals -> TaskType]],
         NEW p \in Processes, NEW s \in Signals, NEW t, SetTask(p, s, t)
  PROVE  \A q \in Processes, u \in Signals :
             task'[q][u] = IF q = p /\ u = s THEN t ELSE task[q][u]
  BY DEF SetTask

(* and all tasks of a process.                                             *)
LEMMA SetTasksAt ==
  ASSUME task \in [Processes -> [Signals -> TaskType]],
         NEW p \in Processes, NEW f, SetTasks(p, f)
  PROVE  \A q \in Processes, u \in Signals :
             task'[q][u] = IF q = p THEN f[u] ELSE task[q][u]
  BY DEF SetTasks

(* Nothing but lease and degraded marker of the row changed.               *)
Kept(u) ==
    /\ row'[u].state = row[u].state
    /\ row'[u].version = row[u].version
    /\ row'[u].plan = row[u].plan
    /\ row'[u].key = row[u].key
    /\ row'[u].activeKey = row[u].activeKey
    /\ row'[u].entryAt = row[u].entryAt
    /\ trail'[u] = trail[u]

Created(p, s) ==
    /\ process[p].at = "insert"
    /\ ~KeyTaken(DedupeKey(process[p].plan, Config[p]))
    /\ ~Exists(s)
    /\ row'[s] = NewRow(process[p].plan, Config[p], process[p].now)
    /\ trail'[s] = CreationTrail

Moved(p, s) ==
    /\ task[p][s].at = "apply"
    /\ LockHolds(row[s], Head(task[p][s].steps), task[p][s].expected)
    /\ row'[s] = Transitioned(row[s], Head(task[p][s].steps).to,
                              task[p][s].expected, process[p].now)
    /\ trail'[s] = Append(trail[s], Head(task[p][s].steps).to)

(* Taking or giving back a lease changes no other field.                   *)
LEMMA LeaseFields ==
  ASSUME NEW r \in RowType, NEW o, NEW n
  PROVE  LET new == [r EXCEPT !.leaseOwner = o, !.leaseUntil = n]
         IN  /\ new.state = r.state
             /\ new.version = r.version
             /\ new.plan = r.plan
             /\ new.key = r.key
             /\ new.activeKey = r.activeKey
             /\ new.entryAt = r.entryAt
             /\ new.leaseOwner = o
             /\ new.leaseUntil = n
  BY DEF RowType

(***************************************************************************)
(* A step creates one row, moves one row, or leaves what matters of all.   *)
(***************************************************************************)
LEMMA RowStep ==
  ASSUME TypeOK, Next
  PROVE  \/ \A u \in Signals : Kept(u)
         \/ \E p \in Processes, s \in Signals :
               /\ Created(p, s) \/ Moved(p, s)
               /\ \A u \in Signals \ {s} : Kept(u)
<1> DEFINE Goal == \/ \A u \in Signals : Kept(u)
                   \/ \E p \in Processes, s \in Signals :
                         /\ Created(p, s) \/ Moved(p, s)
                         /\ \A u \in Signals \ {s} : Kept(u)
<1>r. row \in [Signals -> RowType]
  BY DEF TypeOK
<1>h. trail \in [Signals -> Seq(SignalState)]
  BY DEF TypeOK
<1>1. ASSUME row' = row, trail' = trail
      PROVE  Goal
  BY <1>1 DEF Kept
<1>2. ASSUME NEW p \in Processes, InsertRow(p)
      PROVE  Goal
  <2> DEFINE new == NewRow(process[p].plan, Config[p], process[p].now)
  <2>1. CASE row' = row /\ trail' = trail
    BY <1>1, <2>1
  <2>2. CASE \E s \in Signals : /\ ~KeyTaken(DedupeKey(process[p].plan, Config[p]))
                                /\ ~Exists(s)
                                /\ SetRow(s, new)
                                /\ trail' = [trail EXCEPT ![s] = CreationTrail]
    <3>1. PICK s \in Signals : /\ ~KeyTaken(DedupeKey(process[p].plan, Config[p]))
                               /\ ~Exists(s)
                               /\ SetRow(s, new)
                               /\ trail' = [trail EXCEPT ![s] = CreationTrail]
      BY <2>2
    <3>2. \A u \in Signals : row'[u] = IF u = s THEN new ELSE row[u]
      BY <1>r, <3>1, SetRowAt
    <3>3. \A u \in Signals : trail'[u] = IF u = s THEN CreationTrail ELSE trail[u]
      BY <1>h, <3>1
    <3>4. Created(p, s)
      BY <1>2, <3>1, <3>2, <3>3 DEF InsertRow, Created
    <3>5. \A u \in Signals \ {s} : Kept(u)
      BY <3>2, <3>3 DEF Kept
    <3> QED
      BY <3>4, <3>5
  <2> QED
    BY <1>2, <2>1, <2>2 DEF InsertRow, history
<1>3. ASSUME NEW p \in Processes, NEW s \in Signals, Claim(p, s)
      PROVE  Goal
  <2>1. CASE row' = row
    BY <1>1, <1>3, <2>1 DEF Claim, history
  <2>2. CASE SetRow(s, [row[s] EXCEPT !.leaseOwner = p,
                                      !.leaseUntil = process[p].now + LeaseTime])
    <3> DEFINE new == [row[s] EXCEPT !.leaseOwner = p,
                                     !.leaseUntil = process[p].now + LeaseTime]
    <3>1. \A u \in Signals : row'[u] = IF u = s THEN new ELSE row[u]
      BY <1>r, <2>2, SetRowAt
    <3>2. trail' = trail
      BY <1>3 DEF Claim, history
    <3>3. row[s] \in RowType
      BY <1>r
    <3>4. Kept(s)
      <4>1. /\ new.state = row[s].state
            /\ new.version = row[s].version
            /\ new.plan = row[s].plan
            /\ new.key = row[s].key
            /\ new.activeKey = row[s].activeKey
            /\ new.entryAt = row[s].entryAt
        BY <3>3, LeaseFields
      <4> HIDE DEF new
      <4> QED
        BY <3>1, <3>2, <4>1 DEF Kept
    <3> HIDE DEF new
    <3>5. \A u \in Signals : Kept(u)
      BY <3>1, <3>2, <3>4 DEF Kept
    <3> QED
      BY <3>5
  <2> QED
    BY <1>3, <2>1, <2>2 DEF Claim
<1>4. ASSUME NEW p \in Processes, NEW s \in Signals, ApplyRow(p, s)
      PROVE  Goal
  <2> DEFINE step == Head(task[p][s].steps)
             new == Transitioned(row[s], step.to, task[p][s].expected, process[p].now)
  <2>1. CASE row' = row /\ trail' = trail
    BY <1>1, <2>1
  <2>2. CASE /\ LockHolds(row[s], step, task[p][s].expected)
             /\ SetRow(s, new)
             /\ trail' = [trail EXCEPT ![s] = Append(@, step.to)]
    <3>1. \A u \in Signals : row'[u] = IF u = s THEN new ELSE row[u]
      BY <1>r, <2>2, SetRowAt
    <3>2. \A u \in Signals \ {s} : trail'[u] = trail[u]
      BY <1>h, <2>2
    <3>3. Moved(p, s)
      <4>1. trail'[s] = Append(trail[s], step.to) /\ row'[s] = new
        BY <1>h, <2>2, <3>1
      <4> QED
        BY <1>4, <2>2, <4>1 DEF ApplyRow, Moved
    <3>4. \A u \in Signals \ {s} : Kept(u)
      BY <3>1, <3>2 DEF Kept
    <3> QED
      BY <3>3, <3>4
  <2> QED
    BY <1>4, <2>1, <2>2 DEF ApplyRow, history
<1>5. ASSUME NEW p \in Processes, NEW s \in Signals, Touch(p, s)
      PROVE  Goal
  <2> DEFINE new == [row[s] EXCEPT !.degradedSince =
                        DegradedMarker(task[p][s], process[p].now)]
  <2>1. CASE row' = row
    BY <1>1, <1>5, <2>1 DEF Touch, history
  <2>2. CASE SetRow(s, new)
    <3>1. \A u \in Signals : row'[u] = IF u = s THEN new ELSE row[u]
      BY <1>r, <2>2, SetRowAt
    <3>2. trail' = trail
      BY <1>5 DEF Touch, history
    <3>3. \A u \in Signals : Kept(u)
      BY <1>r, <3>1, <3>2 DEF Kept, RowType
    <3> QED
      BY <3>3
  <2> QED
    BY <1>5, <2>1, <2>2 DEF Touch
<1>6. ASSUME NEW p \in Processes, NEW s \in Signals, Release(p, s)
      PROVE  Goal
  <2>1. CASE row' = row
    BY <1>1, <1>6, <2>1 DEF Release, history
  <2>2. CASE SetRow(s, Released(row[s], p))
    <3>1. \A u \in Signals : row'[u] = IF u = s THEN Released(row[s], p) ELSE row[u]
      BY <1>r, <2>2, SetRowAt
    <3>2. trail' = trail
      BY <1>6 DEF Release, history
    <3>3. row[s] \in RowType
      BY <1>r
    <3>4. Kept(s)
      <4>1. CASE row[s].leaseOwner = p
        <5> DEFINE new == [row[s] EXCEPT !.leaseOwner = None, !.leaseUntil = None]
        <5>1. /\ new.state = row[s].state
              /\ new.version = row[s].version
              /\ new.plan = row[s].plan
              /\ new.key = row[s].key
              /\ new.activeKey = row[s].activeKey
              /\ new.entryAt = row[s].entryAt
          BY <3>3, LeaseFields
        <5>2. row'[s] = new
          BY <3>1, <4>1 DEF Released
        <5> HIDE DEF new
        <5> QED
          BY <3>2, <5>1, <5>2 DEF Kept
      <4>2. CASE row[s].leaseOwner # p
        BY <3>1, <3>2, <4>2 DEF Kept, Released
      <4> QED
        BY <4>1, <4>2
    <3>5. \A u \in Signals : Kept(u)
      BY <3>1, <3>2, <3>4 DEF Kept
    <3> QED
      BY <3>5
  <2> QED
    BY <1>6, <2>1, <2>2 DEF Release
<1>7. CASE Tick
  BY <1>1, <1>7 DEF Tick, history
<1>8. ASSUME NEW p \in Processes,
             \/ StartCycle(p) \/ SkipPlan(p) \/ AdmitPlan(p) \/ InsertChain(p)
             \/ LoadRows(p) \/ EndCycle(p) \/ Crash(p)
      PROVE  Goal
  <2>1. row' = row /\ trail' = trail
    BY <1>8 DEF StartCycle, SkipPlan, AdmitPlan, InsertChain, LoadRows, EndCycle,
                Crash, history
  <2> QED
    BY <1>1, <2>1
<1>9. ASSUME NEW p \in Processes, NEW s \in Signals,
             Evaluate(p, s) \/ InsertEvent(p, s)
      PROVE  Goal
  <2>1. row' = row /\ trail' = trail
    BY <1>9 DEF Evaluate, InsertEvent, history
  <2> QED
    BY <1>1, <2>1
<1> HIDE DEF Goal
<1> QED
  BY <1>2, <1>3, <1>4, <1>5, <1>6, <1>7, <1>8, <1>9
  DEF Next, Work, Admission, Monitoring, Goal

(* A row once inserted stays.                                              *)
LEMMA RowsStay ==
  ASSUME TypeOK, PlaceInv, Next, NEW s \in Signals, Exists(s)
  PROVE  Exists(s)'
<1>1. CASE Kept(s)
  BY <1>1 DEF Kept, Exists
<1>2. ASSUME NEW p \in Processes, Moved(p, s)
      PROVE  Exists(s)'
  <2> DEFINE steps == task[p][s].steps
  <2>1. steps \in Seq(StepType) /\ steps # <<>>
    BY <1>2 DEF Moved, PlaceInv, LegalSteps, TypeOK, TaskType
  <2>2. Head(steps) \in StepType
    BY <2>1
  <2>3. row'[s].state = Head(steps).to
    BY <1>2 DEF Moved, Transitioned, TypeOK, RowType
  <2> QED
    BY <2>2, <2>3 DEF Exists, StepType, SignalState
<1>3. ASSUME NEW p \in Processes
      PROVE  ~Created(p, s)
  BY DEF Created
<1> QED
  BY <1>1, <1>2, <1>3, RowStep

(* Nobody is anywhere at first.                                            *)
LEMMA PlaceInit == Init => PlaceInv
  BY DEF Init, PlaceInv, IdleProcess, IdleTask

(* Every step leaves who moved with what its new place relies on.          *)
LEMMA PlaceNext ==
  ASSUME TypeOK, PlaceInv, Next
  PROVE  PlaceInv'
<1> DEFINE PlacesOf(q) == /\ process[q].at = "insert" => process[q].plan \in Plans
                          /\ process[q].at = "chain" =>
                                process[q].signal \in Signals /\ Exists(process[q].signal)
           TaskOf(q, u) == /\ task[q][u].at # "none" =>
                                /\ process[q].at = "monitor"
                                /\ Exists(u)
                                /\ task[q][u].snapshot.state \in SignalState
                           /\ task[q][u].at \in {"apply", "event"} => LegalSteps(task[q][u].steps)
<1>r. row \in [Signals -> RowType]
  BY DEF TypeOK
<1>p. process \in [Processes -> ProcessType]
  BY DEF TypeOK
<1>t. task \in [Processes -> [Signals -> TaskType]]
  BY DEF TypeOK
<1>x. \A u \in Signals : Exists(u) => Exists(u)'
  BY RowsStay
<1>y. \A q \in Processes : PlacesOf(q)
  BY DEF PlaceInv
<1>z. \A q \in Processes, u \in Signals : TaskOf(q, u)
  BY DEF PlaceInv
<1>g. SUFFICES /\ \A q \in Processes : PlacesOf(q)'
               /\ \A q \in Processes, u \in Signals : TaskOf(q, u)'
  BY DEF PlaceInv
<1> DEFINE Goal == /\ \A q \in Processes : PlacesOf(q)'
                   /\ \A q \in Processes, u \in Signals : TaskOf(q, u)'
<1>a. ASSUME process' = process, task' = task
      PROVE  Goal
  BY <1>a, <1>x, <1>y, <1>z DEF Exists
<1>b. ASSUME NEW p \in Processes, process[p].at # "monitor",
             NEW c, SetProcess(p, c), task' = task,
             c.at = "insert" => c.plan \in Plans,
             c.at = "chain" => c.signal \in Signals /\ Exists(c.signal)'
      PROVE  Goal
  <2>1. \A q \in Processes : process'[q] = IF q = p THEN c ELSE process[q]
    BY <1>b, <1>p, SetProcessAt
  <2>2. \A u \in Signals : task[p][u].at = "none"
    BY <1>b, <1>z
  <2>3. ASSUME NEW q \in Processes
        PROVE  PlacesOf(q)'
    BY <1>b, <1>x, <1>y, <2>1 DEF Exists
  <2>4. ASSUME NEW q \in Processes, NEW u \in Signals
        PROVE  TaskOf(q, u)'
    BY <1>b, <1>x, <1>z, <2>1, <2>2 DEF Exists
  <2> QED
    BY <2>3, <2>4
<1>c. ASSUME NEW p \in Processes, NEW s \in Signals, task[p][s].at # "none",
             NEW t, SetTask(p, s, t), process' = process,
             t.at # "none" => t.snapshot.state \in SignalState,
             t.at \in {"apply", "event"} => LegalSteps(t.steps)
      PROVE  Goal
  <2>1. \A q \in Processes, u \in Signals :
            task'[q][u] = IF q = p /\ u = s THEN t ELSE task[q][u]
    BY <1>c, <1>t, SetTaskAt
  <2>2. ASSUME NEW q \in Processes
        PROVE  PlacesOf(q)'
    BY <1>c, <1>x, <1>y DEF Exists
  <2>3. ASSUME NEW q \in Processes, NEW u \in Signals
        PROVE  TaskOf(q, u)'
    <3>1. CASE q = p /\ u = s
      BY <1>c, <1>x, <1>z, <2>1, <3>1 DEF Exists
    <3>2. CASE ~(q = p /\ u = s)
      <4>1. task'[q][u] = task[q][u]
        BY <2>1, <3>2
      <4> QED
        BY <1>c, <1>x, <1>z, <4>1 DEF Exists
    <3> QED
      BY <3>1, <3>2
  <2> QED
    BY <2>2, <2>3
<1> HIDE DEF Goal
<1>1. ASSUME Tick
      PROVE  Goal
  <2>1. process' = process /\ task' = task
    BY <1>1 DEF Tick
  <2> QED
    BY <1>a, <2>1
<1>2. ASSUME NEW p \in Processes, StartCycle(p)
      PROVE  Goal
  <2>1. process[p].at # "monitor" /\ task' = task
    BY <1>2 DEF StartCycle
  <2>2. PICK x \in BOOLEAN, y \in SUBSET Plans : SetProcess(p, Cycle(x, y))
    BY <1>2 DEF StartCycle
  <2>3. Cycle(x, y).at = "admit"
    BY DEF Cycle, IdleProcess
  <2> QED
    BY <1>b, <2>1, <2>2, <2>3
<1>3. ASSUME NEW p \in Processes, SkipPlan(p)
      PROVE  Goal
  <2>1. process[p].at = "admit" /\ task' = task
    BY <1>3 DEF SkipPlan
  <2>2. PICK plan : SetProcess(p, [process[p] EXCEPT !.todo = @ \ {plan}])
    BY <1>3 DEF SkipPlan
  <2>3. [process[p] EXCEPT !.todo = @ \ {plan}].at = "admit"
    BY <1>p, <2>1 DEF ProcessType
  <2> QED
    BY <1>b, <2>1, <2>2, <2>3
<1>4. ASSUME NEW p \in Processes, AdmitPlan(p)
      PROVE  Goal
  <2>1. process[p].at = "admit" /\ task' = task
    BY <1>4 DEF AdmitPlan
  <2>2. PICK plan \in process[p].todo :
            SetProcess(p, [process[p] EXCEPT !.at = "insert", !.plan = plan,
                                             !.todo = @ \ {plan}])
    BY <1>4 DEF AdmitPlan
  <2> DEFINE c == [process[p] EXCEPT !.at = "insert", !.plan = plan,
                                     !.todo = @ \ {plan}]
  <2>3. c.at = "insert" /\ c.plan \in Plans
    BY <1>p DEF ProcessType
  <2> QED
    BY <1>b, <2>1, <2>2, <2>3
<1>5. ASSUME NEW p \in Processes, InsertRow(p)
      PROVE  Goal
  <2>1. process[p].at = "insert" /\ task' = task
    BY <1>5 DEF InsertRow
  <2>2. CASE NextPlan(p)
    <3>1. [process[p] EXCEPT !.at = "admit", !.plan = None, !.signal = None].at = "admit"
      BY <1>p DEF ProcessType
    <3> QED
      BY <1>b, <2>1, <2>2, <3>1 DEF NextPlan
  <2>3. CASE \E s \in Signals :
                 /\ SetRow(s, NewRow(process[p].plan, Config[p], process[p].now))
                 /\ SetProcess(p, [process[p] EXCEPT !.at = "chain", !.signal = s])
    <3>1. PICK s \in Signals :
              /\ SetRow(s, NewRow(process[p].plan, Config[p], process[p].now))
              /\ SetProcess(p, [process[p] EXCEPT !.at = "chain", !.signal = s])
      BY <2>3
    <3> DEFINE c == [process[p] EXCEPT !.at = "chain", !.signal = s]
    <3>2. c.at = "chain" /\ c.signal = s
      BY <1>p DEF ProcessType
    <3>3. row'[s] = NewRow(process[p].plan, Config[p], process[p].now)
      BY <1>r, <3>1, SetRowAt
    <3>4. Exists(s)'
      BY <3>3 DEF Exists, NewRow, AbsentRow
    <3> QED
      BY <1>b, <2>1, <3>1, <3>2, <3>4 DEF Exists
  <2> QED
    BY <1>5, <2>2, <2>3 DEF InsertRow
<1>6. ASSUME NEW p \in Processes, InsertChain(p)
      PROVE  Goal
  <2>1. process[p].at = "chain" /\ task' = task /\ NextPlan(p)
    BY <1>6 DEF InsertChain
  <2>2. [process[p] EXCEPT !.at = "admit", !.plan = None, !.signal = None].at = "admit"
    BY <1>p DEF ProcessType
  <2> QED
    BY <1>b, <2>1, <2>2 DEF NextPlan
<1>7. ASSUME NEW p \in Processes, LoadRows(p)
      PROVE  Goal
  <2> DEFINE loaded == [s \in Signals |->
                           IF s \in NonTerminal THEN LoadedTask(row[s])
                           ELSE IdleTask]
  <2>1. SetTasks(p, loaded) \/ SetTasks(p, AllIdle)
    BY <1>7, Zenon DEF LoadRows
  <2>2. \A u \in Signals : loaded[u].at # "none" => Exists(u) /\ loaded[u].snapshot.state \in SignalState
    BY <1>r DEF LoadedTask, IdleTask, NonTerminal, Exists, Snapshot, RowType
  <2>3. \A u \in Signals : loaded[u].at \in {"none", "claim"} /\ AllIdle[u].at = "none"
    BY DEF LoadedTask, IdleTask, AllIdle
  <2> HIDE DEF loaded
  <2>4. PICK f : /\ SetTasks(p, f)
                 /\ \A u \in Signals : f[u].at # "none" => Exists(u) /\ f[u].snapshot.state \in SignalState
                 /\ \A u \in Signals : f[u].at \in {"none", "claim"}
    BY <2>1, <2>2, <2>3
  <2>5. \A q \in Processes, u \in Signals :
            task'[q][u] = IF q = p THEN f[u] ELSE task[q][u]
    BY <1>t, <2>4, SetTasksAt
  <2>6. \A q \in Processes :
            process'[q] = IF q = p THEN [process[p] EXCEPT !.at = "monitor"] ELSE process[q]
    BY <1>7, <1>p, SetProcessAt DEF LoadRows, GoTo
  <2>7. [process[p] EXCEPT !.at = "monitor"].at = "monitor"
    BY <1>p DEF ProcessType
  <2>8. ASSUME NEW q \in Processes
        PROVE  PlacesOf(q)'
    BY <1>x, <1>y, <2>6, <2>7 DEF Exists
  <2>9. ASSUME NEW q \in Processes, NEW u \in Signals
        PROVE  TaskOf(q, u)'
    <3>1. CASE q = p
      BY <1>x, <2>4, <2>5, <2>6, <2>7, <3>1 DEF Exists
    <3>2. CASE q # p
      BY <1>x, <1>z, <2>5, <2>6, <3>2 DEF Exists
    <3> QED
      BY <3>1, <3>2
  <2> QED
    BY <2>8, <2>9 DEF Goal
<1>8. ASSUME NEW p \in Processes, NEW s \in Signals, Claim(p, s)
      PROVE  Goal
  <2>1. task[p][s].at = "claim" /\ process' = process
    BY <1>8 DEF Claim
  <2>2. CASE TaskTo(p, s, "evaluate")
    <3> DEFINE t == [task[p][s] EXCEPT !.at = "evaluate"]
    <3>1. t.at = "evaluate" /\ t.snapshot = task[p][s].snapshot
      BY <1>t DEF TaskType
    <3>2. t.snapshot.state \in SignalState
      BY <1>z, <2>1, <3>1
    <3> QED
      BY <1>c, <2>1, <2>2, <3>1, <3>2 DEF TaskTo
  <2>3. CASE Finish(p, s)
    BY <1>c, <2>1, <2>3 DEF Finish, IdleTask
  <2> QED
    BY <1>8, <2>2, <2>3 DEF Claim
<1>9. ASSUME NEW p \in Processes, NEW s \in Signals, Evaluate(p, s)
      PROVE  Goal
  <2>1. task[p][s].at = "evaluate" /\ process' = process
    BY <1>9 DEF Evaluate
  <2>2. CASE TaskTo(p, s, "release")
    <3> DEFINE t == [task[p][s] EXCEPT !.at = "release"]
    <3>1. t.at = "release" /\ t.snapshot = task[p][s].snapshot
      BY <1>t DEF TaskType
    <3>2. t.snapshot.state \in SignalState
      BY <1>z, <2>1, <3>1
    <3> QED
      BY <1>c, <2>1, <2>2, <3>1, <3>2 DEF TaskTo
  <2>3. ASSUME NEW ctx \in Surroundings,
               SetTask(p, s, Evaluated(task[p][s], ctx, process[p].now, process[p].paused))
        PROVE  Goal
    <3> DEFINE steps == EvaluateSignal(task[p][s].snapshot, ctx,
                                       process[p].now, process[p].paused)
               t == Evaluated(task[p][s], ctx, process[p].now, process[p].paused)
    <3>1. task[p][s].snapshot.state \in SignalState
      BY <1>z, <2>1
    <3>2. \A i \in 1 .. Len(steps) : CanTransition(steps[i].from, steps[i].to)
      BY <3>1, EvaluateLegal
    <3> HIDE DEF steps
    <3>3. /\ t.at = IF steps = <<>> THEN "touch" ELSE "apply"
          /\ t.steps = steps
          /\ t.snapshot = task[p][s].snapshot
      BY <1>t DEF Evaluated, TaskType, steps
    <3> HIDE DEF t
    <3>4. t.at \in {"apply", "event"} => LegalSteps(t.steps)
      BY <3>2, <3>3 DEF LegalSteps
    <3>5. SetTask(p, s, t)
      BY <2>3 DEF t
    <3> QED
      BY <1>c, <2>1, <3>1, <3>3, <3>4, <3>5
  <2> QED
    BY <1>9, <2>2, <2>3 DEF Evaluate
<1>s. ASSUME NEW p \in Processes, NEW s \in Signals, task[p][s].at # "none",
             StopApplying(p, s), process' = process
      PROVE  Goal
  <2> DEFINE t == [task[p][s] EXCEPT !.at = "touch", !.steps = <<>>]
  <2>1. t.at = "touch" /\ t.snapshot = task[p][s].snapshot
    BY <1>t DEF TaskType
  <2>2. t.snapshot.state \in SignalState
    BY <1>z, <1>s, <2>1
  <2> QED
    BY <1>c, <1>s, <2>1, <2>2 DEF StopApplying
<1>10. ASSUME NEW p \in Processes, NEW s \in Signals, ApplyRow(p, s)
       PROVE  Goal
  <2>1. task[p][s].at = "apply" /\ process' = process
    BY <1>10 DEF ApplyRow
  <2>2. CASE TaskTo(p, s, "event")
    <3> DEFINE t == [task[p][s] EXCEPT !.at = "event"]
    <3>1. t.at = "event" /\ t.snapshot = task[p][s].snapshot /\ t.steps = task[p][s].steps
      BY <1>t DEF TaskType
    <3>2. t.snapshot.state \in SignalState /\ LegalSteps(t.steps)
      BY <1>z, <2>1, <3>1
    <3> HIDE DEF t
    <3>3. SetTask(p, s, t)
      BY <2>2 DEF TaskTo, t
    <3> QED
      BY <1>c, <2>1, <3>1, <3>2, <3>3
  <2> QED
    BY <1>10, <1>s, <2>1, <2>2 DEF ApplyRow
<1>11. ASSUME NEW p \in Processes, NEW s \in Signals, InsertEvent(p, s)
       PROVE  Goal
  <2> DEFINE steps == task[p][s].steps
             rest == Tail(steps)
             t == [task[p][s] EXCEPT !.at = IF rest = <<>> THEN "touch" ELSE "apply",
                                     !.steps = rest, !.expected = @ + 1]
  <2>1. task[p][s].at = "event" /\ process' = process
    BY <1>11 DEF InsertEvent
  <2>2. CASE SetTask(p, s, t)
    <3>1. LegalSteps(steps) /\ steps \in Seq(StepType)
      BY <1>t, <1>z, <2>1 DEF TaskType
    <3>2. \A i \in 1 .. Len(rest) : CanTransition(rest[i].from, rest[i].to)
      <4>1. \A i \in 1 .. Len(rest) : i + 1 \in 1 .. Len(steps) /\ rest[i] = steps[i + 1]
        BY <3>1 DEF LegalSteps
      <4> HIDE DEF rest, steps
      <4> QED
        BY <3>1, <4>1 DEF LegalSteps
    <3>3. task[p][s].snapshot.state \in SignalState
      BY <1>z, <2>1
    <3> HIDE DEF rest
    <3>4. /\ t.at = IF rest = <<>> THEN "touch" ELSE "apply"
          /\ t.steps = rest
          /\ t.snapshot = task[p][s].snapshot
      BY <1>t DEF TaskType
    <3> HIDE DEF t
    <3>5. t.at \in {"apply", "event"} => LegalSteps(t.steps)
      BY <3>2, <3>4 DEF LegalSteps
    <3> QED
      BY <1>c, <2>1, <2>2, <3>3, <3>4, <3>5
  <2> QED
    BY <1>11, <1>s, <2>1, <2>2 DEF InsertEvent
<1>12. ASSUME NEW p \in Processes, NEW s \in Signals, Touch(p, s)
       PROVE  Goal
  <2>1. task[p][s].at = "touch" /\ process' = process /\ TaskTo(p, s, "release")
    BY <1>12 DEF Touch
  <2> DEFINE t == [task[p][s] EXCEPT !.at = "release"]
  <2>2. t.at = "release" /\ t.snapshot = task[p][s].snapshot
    BY <1>t DEF TaskType
  <2>3. t.snapshot.state \in SignalState
    BY <1>z, <2>1, <2>2
  <2> QED
    BY <1>c, <2>1, <2>2, <2>3 DEF TaskTo
<1>13. ASSUME NEW p \in Processes, NEW s \in Signals, Release(p, s)
       PROVE  Goal
  BY <1>13, <1>c DEF Release, Finish, IdleTask
<1>14. ASSUME NEW p \in Processes, NEW c, c.at \in {"idle", "dead"},
              SetProcess(p, c), SetTasks(p, AllIdle)
       PROVE  Goal
  <2>1. \A q \in Processes : process'[q] = IF q = p THEN c ELSE process[q]
    BY <1>14, <1>p, SetProcessAt
  <2>2. \A q \in Processes, u \in Signals :
            task'[q][u] = IF q = p THEN AllIdle[u] ELSE task[q][u]
    BY <1>14, <1>t, SetTasksAt
  <2>3. \A u \in Signals : AllIdle[u].at = "none"
    BY DEF AllIdle, IdleTask
  <2>4. ASSUME NEW q \in Processes
        PROVE  PlacesOf(q)'
    BY <1>14, <1>x, <1>y, <2>1 DEF Exists
  <2>5. ASSUME NEW q \in Processes, NEW u \in Signals
        PROVE  TaskOf(q, u)'
    BY <1>x, <1>z, <2>1, <2>2, <2>3 DEF Exists
  <2> QED
    BY <2>4, <2>5 DEF Goal
<1>15. ASSUME NEW p \in Processes, EndCycle(p)
       PROVE  Goal
  <2>1. IdleProcess.at = "idle"
    BY DEF IdleProcess
  <2> QED
    BY <1>14, <1>15, <2>1 DEF EndCycle
<1>16. ASSUME NEW p \in Processes, Crash(p)
       PROVE  Goal
  <2> DEFINE c == [IdleProcess EXCEPT !.at = "dead"]
  <2>1. c.at = "dead"
    BY DEF IdleProcess
  <2>2. SetProcess(p, c) /\ SetTasks(p, AllIdle)
    BY <1>16 DEF Crash
  <2> HIDE DEF c
  <2> QED
    BY <1>14, <2>1, <2>2
<1>17. Goal
  BY <1>1, <1>2, <1>3, <1>4, <1>5, <1>6, <1>7, <1>8, <1>9, <1>10, <1>11, <1>12,
     <1>13, <1>15, <1>16
  DEF Next, Work, Admission, Monitoring
<1> QED
  BY <1>17 DEF Goal

(***************************************************************************)
(* The type invariant holds in every reachable state.  It is not inductive *)
(* alone: what a task appends to the trail is typed because PlaceInv says  *)
(* that its steps are legal ones of an existing row.                       *)
(***************************************************************************)
THEOREM TypeCorrect == Spec => [](TypeOK /\ PlaceInv)
<1>1. Init => TypeOK /\ PlaceInv
  BY TypeInit, PlaceInit
<1>2. TypeOK /\ PlaceInv /\ [Next]_vars => (TypeOK /\ PlaceInv)'
  <2> SUFFICES ASSUME TypeOK, PlaceInv, [Next]_vars
               PROVE  TypeOK' /\ PlaceInv'
    OBVIOUS
  <2>1. CASE Next
    BY <2>1, TypeNext, PlaceNext
  <2>2. CASE UNCHANGED vars
    <3>1. TypeOK'
      BY <2>2 DEF vars, history, TypeOK
    <3>2. PlaceInv'
      BY <2>2 DEF vars, history, PlaceInv, Exists, LegalSteps
    <3> QED
      BY <3>1, <3>2
  <2> QED
    BY <2>1, <2>2
<1> QED
  BY <1>1, <1>2, PTL DEF Spec

(***************************************************************************)
(* Rows, events, cycles and tasks stay well-typed.                         *)
(***************************************************************************)
THEOREM TypeOKHolds == Spec => []TypeOK
  BY TypeCorrect, PTL

-----------------------------------------------------------------------------
(* Slots, trails and versions.                                             *)

(***************************************************************************)
(* A row's slot is held exactly while the row is open, no two rows hold    *)
(* the same slot, and the trail is as long as the version says.            *)
(***************************************************************************)
SlotInv ==
    /\ \A s \in Signals : ~Exists(s) =>
           /\ row[s].activeKey = None /\ row[s].key = None
           /\ row[s].version = 0 /\ trail[s] = <<>>
    /\ \A s \in Signals : Exists(s) =>
           /\ row[s].key \in Keys
           /\ row[s].activeKey = IF IsTerminal(row[s].state) THEN None
                                                           ELSE row[s].key
           /\ Len(trail[s]) = row[s].version + 1
    /\ \A s, t \in Signals :
           row[s].activeKey # None /\ row[s].activeKey = row[t].activeKey => s = t

(* No key is the absent key.                                               *)
LEMMA NoneIsNoKey == None \notin Keys
  BY NoneAssumption, ConstantsAssumption DEF Keys, DedupeKey

(* No legal move leaves a terminal state.                                  *)
LEMMA TerminalIsDeadEnd ==
  ASSUME NEW from \in SignalState, NEW to, CanTransition(from, to)
  PROVE  ~IsTerminal(from)
  BY DEF CanTransition, TRANSITIONS, IsTerminal, TerminalStates, SignalState

(* A moved row was open and moved legally.                                 *)
LEMMA MovedLegally ==
  ASSUME TypeOK, PlaceInv, NEW p \in Processes, NEW s \in Signals, Moved(p, s)
  PROVE  /\ Exists(s) /\ Exists(s)'
         /\ ~IsTerminal(row[s].state)
         /\ row'[s].state \in SignalState
         /\ CanTransition(row[s].state, row'[s].state)
         /\ row'[s].version = row[s].version + 1
         /\ row'[s].plan = row[s].plan
         /\ row'[s].key = row[s].key
         /\ row'[s].activeKey = IF IsTerminal(row'[s].state) THEN None
                                                            ELSE row[s].activeKey
         /\ trail[s] \in Seq(SignalState)
         /\ trail'[s] = Append(trail[s], row'[s].state)
<1> DEFINE steps == task[p][s].steps
           step == Head(steps)
<1>1. steps \in Seq(StepType) /\ LegalSteps(steps)
  BY DEF Moved, PlaceInv, TypeOK, TaskType
<1>2. step \in StepType /\ CanTransition(step.from, step.to)
  BY <1>1 DEF LegalSteps
<1>3. row[s] \in RowType /\ trail[s] \in Seq(SignalState)
  BY DEF TypeOK
<1> HIDE DEF step
<1>4. /\ row[s].version = task[p][s].expected
      /\ row[s].state = step.from
      /\ row'[s] = Transitioned(row[s], step.to, task[p][s].expected, process[p].now)
      /\ trail'[s] = Append(trail[s], step.to)
  BY DEF Moved, LockHolds, step
<1>5. /\ row'[s].state = step.to
      /\ row'[s].version = task[p][s].expected + 1
      /\ row'[s].plan = row[s].plan
      /\ row'[s].key = row[s].key
      /\ row'[s].activeKey = IF IsTerminal(step.to) THEN None ELSE row[s].activeKey
  BY <1>3, <1>4 DEF Transitioned, RowType
<1>6. step.from \in SignalState /\ step.to \in SignalState
  BY <1>2 DEF StepType
<1>7. Exists(s) /\ Exists(s)'
  BY <1>4, <1>5, <1>6 DEF Exists, SignalState
<1> QED
  BY <1>2, <1>3, <1>4, <1>5, <1>6, <1>7, TerminalIsDeadEnd

(* A created row starts the life of an unused identity in a free slot.     *)
LEMMA CreatedFresh ==
  ASSUME TypeOK, PlaceInv, NEW p \in Processes, NEW s \in Signals, Created(p, s)
  PROVE  /\ ~Exists(s) /\ Exists(s)'
         /\ row'[s].state = "WATCHING_ENTRY"
         /\ row'[s].version = 2
         /\ row'[s].key \in Keys
         /\ row'[s].activeKey = row'[s].key
         /\ \A t \in Signals : row[t].activeKey # row'[s].key
         /\ trail'[s] = CreationTrail
<1>1. process[p].plan \in Plans
  BY DEF Created, PlaceInv
<1>2. DedupeKey(process[p].plan, Config[p]) \in Keys
  BY <1>1 DEF Keys
<1>3. /\ row'[s].state = "WATCHING_ENTRY"
      /\ row'[s].version = 2
      /\ row'[s].key = DedupeKey(process[p].plan, Config[p])
      /\ row'[s].activeKey = DedupeKey(process[p].plan, Config[p])
  BY DEF Created, NewRow, AbsentRow
<1>4. \A t \in Signals : row[t].activeKey # DedupeKey(process[p].plan, Config[p])
  BY DEF Created, KeyTaken
<1>5. ~Exists(s) /\ Exists(s)' /\ trail'[s] = CreationTrail
  BY <1>3 DEF Created, Exists
<1> QED
  BY <1>2, <1>3, <1>4, <1>5

(* No row, no slot.                                                        *)
LEMMA SlotInit == Init => SlotInv
  BY DEF Init, SlotInv, AbsentRow, Exists

(* A created row takes a free slot, a moved one keeps or frees its own.    *)
LEMMA SlotNext ==
  ASSUME TypeOK, PlaceInv, SlotInv, Next
  PROVE  SlotInv'
<1> DEFINE Absent(s) == ~Exists(s) =>
                            /\ row[s].activeKey = None /\ row[s].key = None
                            /\ row[s].version = 0 /\ trail[s] = <<>>
           Present(s) == Exists(s) =>
                            /\ row[s].key \in Keys
                            /\ row[s].activeKey = IF IsTerminal(row[s].state) THEN None
                                                                            ELSE row[s].key
                            /\ Len(trail[s]) = row[s].version + 1
           Apart(s, t) == row[s].activeKey # None /\ row[s].activeKey = row[t].activeKey => s = t
<1>1. /\ \A s \in Signals : Absent(s)
      /\ \A s \in Signals : Present(s)
      /\ \A s, t \in Signals : Apart(s, t)
  BY DEF SlotInv
<1>2. \A s \in Signals : Kept(s) => Absent(s)' /\ Present(s)'
  BY <1>1 DEF Kept, Exists
<1>3. \A s, t \in Signals : Kept(s) /\ Kept(t) => Apart(s, t)'
  <2> SUFFICES ASSUME NEW s \in Signals, NEW t \in Signals, Kept(s), Kept(t)
               PROVE  Apart(s, t)'
    OBVIOUS
  <2>1. /\ row'[s].activeKey = row[s].activeKey
        /\ row'[t].activeKey = row[t].activeKey
    BY DEF Kept
  <2>2. Apart(s, t)
    BY <1>1
  <2> QED
    BY <2>1, <2>2
<1>4. CASE \A u \in Signals : Kept(u)
  BY <1>2, <1>3, <1>4 DEF SlotInv
<1>5. ASSUME NEW p \in Processes, NEW s \in Signals, Created(p, s),
             \A u \in Signals \ {s} : Kept(u)
      PROVE  SlotInv'
  <2>1. /\ ~Exists(s) /\ Exists(s)'
        /\ row'[s].state = "WATCHING_ENTRY"
        /\ row'[s].version = 2
        /\ row'[s].key \in Keys
        /\ row'[s].activeKey = row'[s].key
        /\ \A t \in Signals : row[t].activeKey # row'[s].key
        /\ trail'[s] = CreationTrail
    BY <1>5, CreatedFresh
  <2>2. Absent(s)' /\ Present(s)'
    BY <2>1 DEF CreationTrail, IsTerminal, TerminalStates
  <2>3. \A t \in Signals \ {s} : Apart(s, t)' /\ Apart(t, s)'
    BY <1>5, <2>1 DEF Kept
  <2>4. \A t, u \in Signals : Apart(t, u)'
    BY <1>3, <1>5, <2>3
  <2>5. \A t \in Signals : Absent(t)' /\ Present(t)'
    BY <1>2, <1>5, <2>2
  <2> QED
    BY <2>4, <2>5 DEF SlotInv
<1>6. ASSUME NEW p \in Processes, NEW s \in Signals, Moved(p, s),
             \A u \in Signals \ {s} : Kept(u)
      PROVE  SlotInv'
  <2>1. /\ Exists(s) /\ Exists(s)'
        /\ ~IsTerminal(row[s].state)
        /\ row'[s].version = row[s].version + 1
        /\ row'[s].key = row[s].key
        /\ row'[s].activeKey = IF IsTerminal(row'[s].state) THEN None
                                                           ELSE row[s].activeKey
        /\ trail[s] \in Seq(SignalState)
        /\ trail'[s] = Append(trail[s], row'[s].state)
    BY <1>6, MovedLegally
  <2>2. row[s].version \in Nat /\ row'[s].state \in SignalState
    BY <1>6, MovedLegally DEF TypeOK, RowType
  <2>3. Len(trail'[s]) = row'[s].version + 1
    <3>1. Len(trail[s]) = row[s].version + 1
      BY <1>1, <2>1
    <3>2. Len(Append(trail[s], row'[s].state)) = Len(trail[s]) + 1
      BY <2>1, <2>2
    <3> QED
      BY <2>1, <2>2, <3>1, <3>2
  <2>4. Absent(s)' /\ Present(s)'
    BY <1>1, <2>1, <2>3
  <2>5. \A t \in Signals \ {s} : Apart(s, t)' /\ Apart(t, s)'
    BY <1>1, <1>6, <2>1 DEF Kept
  <2>6. \A t, u \in Signals : Apart(t, u)'
    BY <1>3, <1>6, <2>5
  <2>7. \A t \in Signals : Absent(t)' /\ Present(t)'
    BY <1>2, <1>6, <2>4
  <2> QED
    BY <2>6, <2>7 DEF SlotInv
<1> QED
  BY <1>4, <1>5, <1>6, RowStep

(***************************************************************************)
(* SlotInv holds in every reachable state.                                 *)
(***************************************************************************)
LEMMA SlotsCorrect == Spec => []SlotInv
<1>1. Init => SlotInv
  BY SlotInit
<1>2. (TypeOK /\ PlaceInv) /\ SlotInv /\ [Next]_vars => SlotInv'
  <2> SUFFICES ASSUME TypeOK, PlaceInv, SlotInv, [Next]_vars
               PROVE  SlotInv'
    OBVIOUS
  <2>1. CASE UNCHANGED vars
    BY <2>1 DEF vars, history, SlotInv, Exists
  <2> QED
    BY <2>1, SlotNext
<1> QED
  BY <1>1, <1>2, TypeCorrect, PTL DEF Spec

(***************************************************************************)
(* The unique active_key is enough: whatever the number of processes and   *)
(* however their admissions interleave, no two open signals share a        *)
(* context.                                                                *)
(***************************************************************************)
THEOREM OneActivePerContextHolds == Spec => []OneActivePerContext
<1>1. SlotInv => OneActivePerContext
  <2> SUFFICES ASSUME SlotInv, NEW s \in NonTerminal, NEW t \in NonTerminal,
                      row[s].key = row[t].key
               PROVE  s = t
    BY DEF OneActivePerContext
  <2>1. /\ s \in Signals /\ t \in Signals
        /\ row[s].activeKey = row[s].key /\ row[s].key \in Keys
        /\ row[t].activeKey = row[t].key
    BY DEF NonTerminal, SlotInv
  <2> QED
    BY <2>1, NoneIsNoKey DEF SlotInv
<1> QED
  BY <1>1, SlotsCorrect, PTL

(***************************************************************************)
(* A terminal row is never moved again, whatever stale snapshots and late  *)
(* tasks are around: the lock ties a move to the row's present state, and  *)
(* the transition map has no move out of a terminal one.                   *)
(***************************************************************************)
THEOREM TerminalIsFinalHolds == Spec => TerminalIsFinal
<1> DEFINE Final == \A s \in Signals :
                        Exists(s) /\ IsTerminal(row[s].state) =>
                            /\ row'[s].state = row[s].state
                            /\ row'[s].version = row[s].version
                            /\ row'[s].entryAt = row[s].entryAt
                            /\ row'[s].activeKey = None
<1>1. TypeOK /\ PlaceInv /\ SlotInv /\ [Next]_vars => [Final]_vars
  <2> SUFFICES ASSUME TypeOK, PlaceInv, SlotInv, Next,
                      NEW s \in Signals, Exists(s), IsTerminal(row[s].state)
               PROVE  /\ row'[s].state = row[s].state
                      /\ row'[s].version = row[s].version
                      /\ row'[s].entryAt = row[s].entryAt
                      /\ row'[s].activeKey = None
    OBVIOUS
  <2>1. row[s].activeKey = None
    BY DEF SlotInv
  <2>2. Kept(s)
    <3>1. \A p \in Processes : ~Created(p, s)
      BY DEF Created
    <3>2. \A p \in Processes : ~Moved(p, s)
      BY MovedLegally
    <3> QED
      BY <3>1, <3>2, RowStep
  <2> QED
    BY <2>1, <2>2 DEF Kept
<1>2. Spec => [][Final]_vars
  BY <1>1, TypeCorrect, SlotsCorrect, PTL DEF Spec
<1> QED
  BY <1>2 DEF TerminalIsFinal

-----------------------------------------------------------------------------
(* The job implements the abstract signals.                                *)

(* No row, no signal.                                                      *)
LEMMA ImplementsInit == Init => Research!Init
  BY DEF Init, Research!Init, AbsentRow

(* A step that keeps every row is invisible to the abstract signals.       *)
LEMMA KeptStutters ==
  ASSUME \A u \in Signals : Kept(u)
  PROVE  UNCHANGED Research!vars
  BY DEF Kept, Research!vars

(* A created row is an admitted signal.                                    *)
LEMMA CreatedAdmits ==
  ASSUME TypeOK, PlaceInv, SlotInv, NEW p \in Processes, NEW s \in Signals,
         Created(p, s), \A u \in Signals \ {s} : Kept(u),
         NEW c, c = row'[s].key
  PROVE  Research!Admit(s, c)
<1>1. /\ row'[s].state = "WATCHING_ENTRY"
      /\ row'[s].version = 2
      /\ row'[s].key \in Keys
      /\ row[s].state = "ABSENT"
      /\ \A t \in Signals : row[t].activeKey # row'[s].key
  BY CreatedFresh DEF Exists
<1>2. \A t \in Signals : Research!Open(t) => row[t].key # row'[s].key
  BY <1>1 DEF Research!Open, SlotInv, Exists, IsTerminal, Research!IsTerminal,
              TerminalStates, Research!TerminalStates
<1>3. \A u \in Signals :
          /\ row'[u].state = IF u = s THEN "WATCHING_ENTRY" ELSE row[u].state
          /\ row'[u].version = IF u = s THEN 2 ELSE row[u].version
          /\ row'[u].key = IF u = s THEN row'[s].key ELSE row[u].key
  BY <1>1 DEF Kept
<1> QED
  BY <1>1, <1>2, <1>3 DEF Research!Admit

(* A moved row is a moved signal.                                          *)
LEMMA MovedMoves ==
  ASSUME TypeOK, PlaceInv, NEW p \in Processes, NEW s \in Signals,
         Moved(p, s), \A u \in Signals \ {s} : Kept(u),
         NEW to, to = row'[s].state
  PROVE  Research!Move(s, to)
<1>1. /\ Exists(s) /\ ~IsTerminal(row[s].state)
      /\ CanTransition(row[s].state, row'[s].state)
      /\ row'[s].version = row[s].version + 1
      /\ row'[s].key = row[s].key
  BY MovedLegally
<1>2. \A u \in Signals :
          /\ row'[u].state = IF u = s THEN row'[s].state ELSE row[u].state
          /\ row'[u].version = IF u = s THEN row[s].version + 1 ELSE row[u].version
          /\ row'[u].key = row[u].key
  BY <1>1 DEF Kept
<1>3. Research!Open(s)
  BY <1>1 DEF Research!Open, Exists, IsTerminal, Research!IsTerminal,
              TerminalStates, Research!TerminalStates
<1>4. Research!CanTransition(row[s].state, row'[s].state)
  BY <1>1 DEF CanTransition, Research!CanTransition, TRANSITIONS, Research!TRANSITIONS
<1> QED
  BY <1>2, <1>3, <1>4 DEF Research!Move

(***************************************************************************)
(* Every behaviour of the job is a behaviour of the abstract signals.      *)
(***************************************************************************)
THEOREM ImplementsResearchSignalsHolds == Spec => ImplementsResearchSignals
<1>1. TypeOK /\ PlaceInv /\ SlotInv /\ [Next]_vars => [Research!Next]_(Research!vars)
  <2> SUFFICES ASSUME TypeOK, PlaceInv, SlotInv, [Next]_vars
               PROVE  [Research!Next]_(Research!vars)
    OBVIOUS
  <2>1. CASE UNCHANGED vars
    BY <2>1 DEF vars, Research!vars
  <2>2. CASE \A u \in Signals : Kept(u)
    BY <2>2, KeptStutters
  <2>3. ASSUME NEW p \in Processes, NEW s \in Signals, Created(p, s),
               \A u \in Signals \ {s} : Kept(u)
        PROVE  Research!Next
    <3>1. PICK c \in Keys : c = row'[s].key
      BY <2>3, CreatedFresh
    <3>2. Research!Admit(s, c)
      BY <2>3, <3>1, CreatedAdmits
    <3> QED
      BY <3>2 DEF Research!Next
  <2>4. ASSUME NEW p \in Processes, NEW s \in Signals, Moved(p, s),
               \A u \in Signals \ {s} : Kept(u)
        PROVE  Research!Next
    <3>1. PICK to \in Research!SignalState : to = row'[s].state
      BY <2>4, MovedLegally DEF SignalState, Research!SignalState
    <3>2. Research!Move(s, to)
      BY <2>4, <3>1, MovedMoves
    <3> QED
      BY <3>2 DEF Research!Next
  <2> QED
    BY <2>1, <2>2, <2>3, <2>4, RowStep
<1> QED
  BY <1>1, ImplementsInit, TypeCorrect, SlotsCorrect, PTL
  DEF Spec, ImplementsResearchSignals, Research!Spec

-----------------------------------------------------------------------------
(* Leases.                                                                 *)

(***************************************************************************)
(* Strengthening of LeaseExclusion: no cycle is ahead of the clock, and    *)
(* whoever works on a signal within its lease time owns its lease.         *)
(***************************************************************************)
Owns(p, s) ==
    /\ row[s].leaseOwner = p
    /\ row[s].leaseUntil = process[p].now + LeaseTime

LeaseInv ==
    /\ \A p \in Processes : process[p].now <= clock
    /\ \A p \in Processes, s \in Signals :
           Holding(p, s) /\ Fresh(p) => Owns(p, s)

(* Nobody holds anything at first.                                         *)
LEMMA LeaseInit == Init => LeaseInv
  BY DEF Init, LeaseInv, IdleProcess, IdleTask, Holding

(***************************************************************************)
(* A lease is kept by every step that gives nobody a new task in hand,     *)
(* moves no cycle's time under a task, and leaves the lease fields alone.  *)
(***************************************************************************)
LEMMA LeaseFrame ==
  ASSUME TypeOK, LeaseInv, clock' \in Nat, clock <= clock',
         NEW q \in Processes, NEW u \in Signals,
         Holding(q, u)' => /\ Holding(q, u)
                           /\ process'[q].now = process[q].now
                           /\ row'[u].leaseOwner = row[u].leaseOwner
                           /\ row'[u].leaseUntil = row[u].leaseUntil
  PROVE  (Holding(q, u) /\ Fresh(q) => Owns(q, u))'
<1>1. clock \in Nat /\ process[q].now \in Nat /\ LeaseTime \in Nat
  BY ConstantsAssumption DEF TypeOK, ProcessType
<1> SUFFICES ASSUME Holding(q, u)', Fresh(q)'
             PROVE  Owns(q, u)'
  OBVIOUS
<1>2. Holding(q, u) /\ process'[q].now = process[q].now
  OBVIOUS
<1>3. Fresh(q)
  BY <1>1, <1>2 DEF Fresh
<1>4. Owns(q, u)
  BY <1>2, <1>3 DEF LeaseInv
<1> QED
  BY <1>2, <1>4 DEF Owns

(* Which fields of a row the other transactions leave alone.               *)
LEMMA LeaseUntouched ==
  ASSUME NEW r \in RowType
  PROVE  /\ \A to, e, now :
               /\ Transitioned(r, to, e, now).leaseOwner = r.leaseOwner
               /\ Transitioned(r, to, e, now).leaseUntil = r.leaseUntil
         /\ \A d : /\ [r EXCEPT !.degradedSince = d].leaseOwner = r.leaseOwner
                   /\ [r EXCEPT !.degradedSince = d].leaseUntil = r.leaseUntil
<1>1. \A to, e, now :
          /\ Transitioned(r, to, e, now).leaseOwner = r.leaseOwner
          /\ Transitioned(r, to, e, now).leaseUntil = r.leaseUntil
  <2> TAKE to, e, now
  <2> DEFINE k == IF IsTerminal(to) THEN None ELSE r.activeKey
             n == IF to = "ENTRY_CONFIRMED" THEN now ELSE r.entryAt
  <2>1. Transitioned(r, to, e, now) =
            [r EXCEPT !.state = to, !.version = e + 1, !.activeKey = k, !.entryAt = n]
    BY Zenon DEF Transitioned
  <2> HIDE DEF k, n
  <2> QED
    BY <2>1 DEF RowType
<1> QED
  BY <1>1 DEF RowType

(***************************************************************************)
(* Every step keeps the leases: Claim takes only a free one, Release gives *)
(* back only an own one.                                                   *)
(***************************************************************************)
LEMMA LeaseNext ==
  ASSUME TypeOK, PlaceInv, LeaseInv, Next, TypeOK'
  PROVE  LeaseInv'
<1>c. clock \in Nat /\ clock' \in Nat
  BY DEF TypeOK
<1>r. row \in [Signals -> RowType]
  BY DEF TypeOK
<1>n. \A q \in Processes : process[q].now \in Nat /\ process'[q].now \in Nat
  BY DEF TypeOK, ProcessType
<1>z. \A q \in Processes, u \in Signals :
          Holding(q, u) => process[q].at = "monitor" /\ Exists(u)
  BY DEF PlaceInv, Holding
<1>1. ASSUME clock' = clock, row' = row,
             \A q \in Processes, u \in Signals :
                 Holding(q, u)' => Holding(q, u) /\ process'[q].now = process[q].now,
             \A q \in Processes : process'[q].now <= clock
      PROVE  LeaseInv'
  BY <1>1, <1>c, LeaseFrame DEF LeaseInv
<1>2. CASE Tick
  <2>1. /\ clock <= clock' /\ \A q \in Processes : process'[q].now <= clock'
        /\ row' = row /\ process' = process /\ task' = task
    BY <1>2, <1>c, <1>n DEF Tick, LeaseInv
  <2>2. \A q \in Processes, u \in Signals : Holding(q, u)' => Holding(q, u)
    BY <2>1 DEF Holding
  <2> QED
    BY <1>c, <2>1, <2>2, LeaseFrame DEF LeaseInv
<1>3. ASSUME NEW p \in Processes, StartCycle(p)
      PROVE  LeaseInv'
  <2>1. \E paused, todo : SetProcess(p, Cycle(paused, todo))
    BY <1>3, Zenon DEF StartCycle
  <2>2. \A paused, todo : Cycle(paused, todo).now = clock
    BY DEF Cycle, IdleProcess
  <2>3. PICK c : SetProcess(p, c) /\ c.now = clock
    BY <2>1, <2>2
  <2>4. \A q \in Processes : process'[q] = IF q = p THEN c ELSE process[q]
    BY <2>3, SetProcessAt DEF TypeOK
  <2>5. process[p].at = "idle" /\ clock' = clock /\ row' = row /\ task' = task
    BY <1>3 DEF StartCycle
  <2>6. \A q \in Processes, u \in Signals :
            Holding(q, u)' => Holding(q, u) /\ process'[q].now = process[q].now
    BY <1>z, <2>4, <2>5 DEF Holding
  <2>7. \A q \in Processes : process'[q].now <= clock
    BY <1>c, <2>3, <2>4 DEF LeaseInv
  <2> QED
    BY <1>1, <2>5, <2>6, <2>7
<1>4. ASSUME NEW p \in Processes, NEW c, SetProcess(p, c), c.now = process[p].now,
             clock' = clock, task' = task,
             \A u \in Signals : Exists(u) => row'[u] = row[u]
      PROVE  LeaseInv'
  <2>1. \A q \in Processes : process'[q] = IF q = p THEN c ELSE process[q]
    BY <1>4, SetProcessAt DEF TypeOK
  <2>2. \A q \in Processes : process'[q].now = process[q].now
    BY <1>4, <2>1
  <2>3. \A q \in Processes, u \in Signals :
            Holding(q, u)' => Holding(q, u) /\ row'[u] = row[u]
    BY <1>4, <1>z DEF Holding
  <2> QED
    BY <1>4, <1>c, <2>2, <2>3, LeaseFrame DEF LeaseInv
<1>p. \A p \in Processes :
          /\ \A place : [process[p] EXCEPT !.at = place].now = process[p].now
          /\ \A todo : [process[p] EXCEPT !.todo = todo].now = process[p].now
          /\ \A place, plan, todo :
                [process[p] EXCEPT !.at = place, !.plan = plan, !.todo = todo].now
                    = process[p].now
          /\ \A place, s :
                [process[p] EXCEPT !.at = place, !.signal = s].now = process[p].now
  BY DEF TypeOK, ProcessType
<1>5. ASSUME NEW p \in Processes, SkipPlan(p)
      PROVE  LeaseInv'
  <2>1. PICK plan : SetProcess(p, [process[p] EXCEPT !.todo = @ \ {plan}])
    BY <1>5, Zenon DEF SkipPlan
  <2> DEFINE c == [process[p] EXCEPT !.todo = @ \ {plan}]
  <2>2. c.now = process[p].now
    BY <1>p
  <2>3. SetProcess(p, c)
    BY <2>1
  <2> HIDE DEF c
  <2> QED
    BY <1>4, <1>5, <2>2, <2>3 DEF SkipPlan
<1>6. ASSUME NEW p \in Processes, AdmitPlan(p)
      PROVE  LeaseInv'
  <2>1. PICK plan : SetProcess(p, [process[p] EXCEPT !.at = "insert", !.plan = plan,
                                                     !.todo = @ \ {plan}])
    BY <1>6, Zenon DEF AdmitPlan
  <2> DEFINE c == [process[p] EXCEPT !.at = "insert", !.plan = plan, !.todo = @ \ {plan}]
  <2>2. c.now = process[p].now
    BY <1>p
  <2>3. SetProcess(p, c)
    BY <2>1
  <2> HIDE DEF c
  <2> QED
    BY <1>4, <1>6, <2>2, <2>3 DEF AdmitPlan
<1>g. ASSUME NEW p \in Processes, NextPlan(p), clock' = clock, task' = task, row' = row
      PROVE  LeaseInv'
  <2> DEFINE c == [process[p] EXCEPT !.at = "admit", !.plan = None, !.signal = None]
  <2>1. c.now = process[p].now
    BY <1>p
  <2>2. SetProcess(p, c)
    BY <1>g DEF NextPlan
  <2> HIDE DEF c
  <2> QED
    BY <1>4, <1>g, <2>1, <2>2
<1>7. ASSUME NEW p \in Processes, InsertRow(p)
      PROVE  LeaseInv'
  <2>1. clock' = clock /\ task' = task
    BY <1>7 DEF InsertRow
  <2>2. CASE row' = row /\ NextPlan(p)
    BY <1>g, <2>1, <2>2
  <2>3. ASSUME NEW s \in Signals, ~Exists(s), NEW r, SetRow(s, r),
               SetProcess(p, [process[p] EXCEPT !.at = "chain", !.signal = s])
        PROVE  LeaseInv'
    <3> DEFINE c == [process[p] EXCEPT !.at = "chain", !.signal = s]
    <3>1. c.now = process[p].now
      BY <1>p
    <3>2. SetProcess(p, c)
      BY <2>3
    <3>3. \A u \in Signals : Exists(u) => row'[u] = row[u]
      BY <1>r, <2>3, SetRowAt
    <3> HIDE DEF c
    <3> QED
      BY <1>4, <2>1, <3>1, <3>2, <3>3
  <2> QED
    BY <1>7, <2>2, <2>3 DEF InsertRow
<1>8. ASSUME NEW p \in Processes, InsertChain(p)
      PROVE  LeaseInv'
  BY <1>8, <1>g DEF InsertChain
<1>9. ASSUME NEW p \in Processes, LoadRows(p)
      PROVE  LeaseInv'
  <2> DEFINE c == [process[p] EXCEPT !.at = "monitor"]
             f == [u \in Signals |->
                      IF u \in NonTerminal THEN LoadedTask(row[u]) ELSE IdleTask]
  <2>1. c.now = process[p].now
    BY <1>p
  <2>2. SetProcess(p, c)
    BY <1>9 DEF LoadRows, GoTo
  <2>3. \A u \in Signals : f[u].at \in {"claim", "none"} /\ AllIdle[u].at = "none"
    <3>1. \A u \in Signals : LoadedTask(row[u]).at = "claim" /\ IdleTask.at = "none"
      BY DEF LoadedTask, IdleTask
    <3> QED
      BY <3>1 DEF AllIdle
  <2>4. SetTasks(p, f) \/ SetTasks(p, AllIdle)
    BY <1>9, Zenon DEF LoadRows
  <2> HIDE DEF c, f
  <2>5. PICK g : SetTasks(p, g) /\ \A u \in Signals : g[u].at \in {"claim", "none"}
    BY <2>3, <2>4
  <2>6. \A q \in Processes, u \in Signals :
            task'[q][u] = IF q = p THEN g[u] ELSE task[q][u]
    BY <2>5, SetTasksAt DEF TypeOK
  <2>7. \A q \in Processes : process'[q] = IF q = p THEN c ELSE process[q]
    BY <2>2, SetProcessAt DEF TypeOK
  <2>8. clock' = clock /\ row' = row
    BY <1>9 DEF LoadRows
  <2>9. \A q \in Processes, u \in Signals :
            Holding(q, u)' => Holding(q, u) /\ process'[q].now = process[q].now
    BY <2>5, <2>6, <2>7 DEF Holding
  <2> QED
    BY <1>1, <2>1, <2>7, <2>8, <2>9 DEF LeaseInv
<1>10. ASSUME NEW p \in Processes, NEW c, SetProcess(p, c), c.now = 0,
              SetTasks(p, AllIdle), clock' = clock, row' = row
       PROVE  LeaseInv'
  <2>1. \A q \in Processes : process'[q] = IF q = p THEN c ELSE process[q]
    BY <1>10, SetProcessAt DEF TypeOK
  <2>2. \A q \in Processes, u \in Signals :
            task'[q][u] = IF q = p THEN AllIdle[u] ELSE task[q][u]
    BY <1>10, SetTasksAt DEF TypeOK
  <2>3. \A u \in Signals : AllIdle[u].at = "none"
    BY DEF AllIdle, IdleTask
  <2>4. \A q \in Processes, u \in Signals :
            Holding(q, u)' => Holding(q, u) /\ process'[q].now = process[q].now
    BY <2>1, <2>2, <2>3 DEF Holding
  <2>5. \A q \in Processes : process'[q].now <= clock
    BY <1>10, <1>c, <2>1 DEF LeaseInv
  <2> QED
    BY <1>1, <1>10, <2>4, <2>5
<1>11. ASSUME NEW p \in Processes, EndCycle(p) \/ Crash(p)
       PROVE  LeaseInv'
  <2> DEFINE c == [IdleProcess EXCEPT !.at = "dead"]
  <2>1. c.now = 0 /\ IdleProcess.now = 0
    BY DEF IdleProcess
  <2>2. SetProcess(p, c) \/ SetProcess(p, IdleProcess)
    BY <1>11 DEF EndCycle, Crash
  <2>3. SetTasks(p, AllIdle) /\ clock' = clock /\ row' = row
    BY <1>11 DEF EndCycle, Crash
  <2> HIDE DEF c
  <2> QED
    BY <1>10, <2>1, <2>2, <2>3
<1>12. ASSUME NEW p \in Processes, NEW s \in Signals, NEW t, SetTask(p, s, t),
              Holding(p, s) \/ t.at = "none", clock' = clock, process' = process,
              \A u \in Signals : /\ row'[u].leaseOwner = row[u].leaseOwner
                                 /\ row'[u].leaseUntil = row[u].leaseUntil
       PROVE  LeaseInv'
  <2>1. \A q \in Processes, u \in Signals :
            task'[q][u] = IF q = p /\ u = s THEN t ELSE task[q][u]
    BY <1>12, SetTaskAt DEF TypeOK
  <2>2. \A q \in Processes, u \in Signals : Holding(q, u)' => Holding(q, u)
    BY <1>12, <2>1 DEF Holding
  <2> QED
    BY <1>12, <1>c, <2>2, LeaseFrame DEF LeaseInv
<1>x. \A p \in Processes, s \in Signals :
          /\ \A place : [task[p][s] EXCEPT !.at = place].at = place
          /\ IdleTask.at = "none"
  BY DEF TypeOK, TaskType, IdleTask
<1>13. ASSUME NEW p \in Processes, NEW s \in Signals, Claim(p, s)
       PROVE  LeaseInv'
  <2> DEFINE t == [task[p][s] EXCEPT !.at = "evaluate"]
             new == [row[s] EXCEPT !.leaseOwner = p,
                                   !.leaseUntil = process[p].now + LeaseTime]
  <2>1. t.at = "evaluate" /\ IdleTask.at = "none"
    BY <1>x
  <2>2. clock' = clock /\ process' = process
    BY <1>13 DEF Claim
  <2>3. new.leaseOwner = p /\ new.leaseUntil = process[p].now + LeaseTime
    BY <1>r, LeaseFields
  <2>4. CASE row' = row /\ Finish(p, s)
    BY <1>12, <2>1, <2>2, <2>4 DEF Finish
  <2>5. CASE LeaseFree(row[s], p, process[p].now) /\ SetRow(s, new) /\ SetTask(p, s, t)
    <3> HIDE DEF new, t
    <3>1. \A u \in Signals : row'[u] = IF u = s THEN new ELSE row[u]
      BY <1>r, <2>5, SetRowAt
    <3>2. \A q \in Processes, u \in Signals :
              task'[q][u] = IF q = p /\ u = s THEN t ELSE task[q][u]
      BY <2>5, SetTaskAt DEF TypeOK
    <3>3. ASSUME NEW q \in Processes, NEW u \in Signals, q # p \/ u # s,
                 Holding(q, u)', Fresh(q)'
          PROVE  Owns(q, u)'
      <4>1. Holding(q, u) /\ Fresh(q)
        BY <2>2, <3>2, <3>3 DEF Holding, Fresh
      <4>2. Owns(q, u)
        BY <4>1 DEF LeaseInv
      <4>3. CASE u # s
        BY <2>2, <3>1, <4>2, <4>3 DEF Owns
      <4>4. CASE u = s
        <5>1. q # p /\ row[s].leaseOwner = q
              /\ row[s].leaseUntil = process[q].now + LeaseTime
          BY <3>3, <4>2, <4>4 DEF Owns
        <5>2. row[s].leaseUntil < process[p].now
          BY <2>5, <5>1, NoneAssumption DEF LeaseFree
        <5>3. process[p].now <= clock /\ clock <= process[q].now + LeaseTime
          BY <4>1 DEF LeaseInv, Fresh
        <5>4. process[q].now + LeaseTime \in Nat
          BY <1>n, ConstantsAssumption
        <5> QED
          BY <1>c, <1>n, <5>1, <5>2, <5>3, <5>4
      <4> QED
        BY <4>3, <4>4
    <3>4. Owns(p, s)'
      BY <2>2, <2>3, <3>1 DEF Owns
    <3>5. \A q \in Processes : process'[q].now <= clock'
      BY <2>2 DEF LeaseInv
    <3> QED
      BY <3>3, <3>4, <3>5 DEF LeaseInv
  <2> QED
    BY <1>13, <2>4, <2>5 DEF Claim, TaskTo
<1>14. ASSUME NEW p \in Processes, NEW s \in Signals, Release(p, s)
       PROVE  LeaseInv'
  <2>1. clock' = clock /\ process' = process /\ SetTask(p, s, IdleTask)
        /\ IdleTask.at = "none"
    BY <1>14, <1>x DEF Release, Finish
  <2>2. CASE row' = row
    BY <1>12, <2>1, <2>2
  <2>3. CASE SetRow(s, Released(row[s], p)) /\ row[s].leaseOwner # p
    <3>1. Released(row[s], p) = row[s]
      BY <2>3 DEF Released
    <3>2. \A u \in Signals : row'[u] = row[u]
      BY <1>r, <2>3, <3>1, SetRowAt
    <3> QED
      BY <1>12, <2>1, <3>2
  <2>4. CASE SetRow(s, Released(row[s], p)) /\ row[s].leaseOwner = p
    <3>1. \A u \in Signals \ {s} : row'[u] = row[u]
      BY <1>r, <2>4, SetRowAt
    <3>2. \A q \in Processes, u \in Signals :
              task'[q][u] = IF q = p /\ u = s THEN IdleTask ELSE task[q][u]
      BY <2>1, SetTaskAt DEF TypeOK
    <3>3. ASSUME NEW q \in Processes, NEW u \in Signals, Holding(q, u)', Fresh(q)'
          PROVE  Owns(q, u)'
      <4>1. q # p \/ u # s
        BY <2>1, <3>2, <3>3 DEF Holding
      <4>2. Holding(q, u) /\ Fresh(q)
        BY <2>1, <3>2, <3>3, <4>1 DEF Holding, Fresh
      <4>3. Owns(q, u)
        BY <4>2 DEF LeaseInv
      <4>4. u # s
        BY <2>4, <4>1, <4>3 DEF Owns
      <4> QED
        BY <2>1, <3>1, <4>3, <4>4 DEF Owns
    <3>4. \A q \in Processes : process'[q].now <= clock'
      BY <2>1 DEF LeaseInv
    <3> QED
      BY <3>3, <3>4 DEF LeaseInv
  <2> QED
    BY <1>14, <2>2, <2>3, <2>4 DEF Release
<1>15. ASSUME NEW p \in Processes, NEW s \in Signals,
              Evaluate(p, s) \/ InsertEvent(p, s)
       PROVE  LeaseInv'
  <2>1. Holding(p, s) /\ clock' = clock /\ process' = process /\ row' = row
    BY <1>15 DEF Evaluate, InsertEvent, Holding
  <2>2. \E t : SetTask(p, s, t)
    BY <1>15 DEF Evaluate, InsertEvent, StopApplying, TaskTo
  <2> QED
    BY <1>12, <2>1, <2>2
<1>16. ASSUME NEW p \in Processes, NEW s \in Signals, ApplyRow(p, s) \/ Touch(p, s)
       PROVE  LeaseInv'
  <2>1. Holding(p, s) /\ clock' = clock /\ process' = process
    BY <1>16 DEF ApplyRow, Touch, Holding
  <2>2. \E t : SetTask(p, s, t)
    BY <1>16 DEF ApplyRow, Touch, StopApplying, TaskTo
  <2>3. row' = row \/ \E r : /\ SetRow(s, r)
                            /\ r.leaseOwner = row[s].leaseOwner
                            /\ r.leaseUntil = row[s].leaseUntil
    <3> DEFINE a == Transitioned(row[s], Head(task[p][s].steps).to,
                                 task[p][s].expected, process[p].now)
               d == [row[s] EXCEPT !.degradedSince =
                        DegradedMarker(task[p][s], process[p].now)]
    <3>1. row[s] \in RowType
      BY <1>r
    <3>2. a.leaseOwner = row[s].leaseOwner /\ a.leaseUntil = row[s].leaseUntil
      BY <3>1, LeaseUntouched
    <3>3. d.leaseOwner = row[s].leaseOwner /\ d.leaseUntil = row[s].leaseUntil
      BY <3>1, LeaseUntouched
    <3>4. row' = row \/ SetRow(s, a) \/ SetRow(s, d)
      BY <1>16 DEF ApplyRow, Touch
    <3> HIDE DEF a, d
    <3> QED
      BY <3>2, <3>3, <3>4
  <2>4. \A u \in Signals : /\ row'[u].leaseOwner = row[u].leaseOwner
                           /\ row'[u].leaseUntil = row[u].leaseUntil
    BY <1>r, <2>3, SetRowAt
  <2> QED
    BY <1>12, <2>1, <2>2, <2>4
<1> QED
  BY <1>2, <1>3, <1>5, <1>6, <1>7, <1>8, <1>9, <1>11, <1>13, <1>14, <1>15, <1>16
  DEF Next, Work, Admission, Monitoring

(* And so does a step that changes nothing.                                *)
LEMMA LeaseStutters == LeaseInv /\ UNCHANGED vars => LeaseInv'
  BY DEF vars, LeaseInv, Holding, Fresh, Owns

(***************************************************************************)
(* Two processes never work on one signal while both are within their      *)
(* lease time, for any number of processes, plans and signals: only a      *)
(* process that outlived its lease can meet another one.                   *)
(***************************************************************************)
THEOREM LeaseExclusionHolds == Spec => []LeaseExclusion
<1>1. TypeOK /\ PlaceInv /\ LeaseInv /\ [Next]_vars /\ TypeOK' => LeaseInv'
  BY LeaseNext, LeaseStutters
<1>2. LeaseInv => LeaseExclusion
  BY DEF LeaseInv, LeaseExclusion, Owns
<1> QED
  BY <1>1, <1>2, LeaseInit, TypeCorrect, PTL DEF Spec

-----------------------------------------------------------------------------
(* What a decision may rest on.                                            *)

(* Who proposes a target or an entry, and in which states.                 *)
LEMMA TargetFindings ==
  ASSUME NEW sig, NEW ctx, NEW now, NEW paused,
         NEW f \in Findings(sig, ctx, now, paused),
         f.to \in {"TARGET_1_REACHED", "TARGET_2_REACHED"}
  PROVE  /\ f.key = f.to
         /\ sig.state \in {"ACTIVE_RESEARCH", "TARGET_1_REACHED"}
<1> USE DEF Finding, If
<1>1. f \notin CheckDataQuality(sig, ctx, now) /\ f \notin CheckPlan(sig, ctx)
  BY DEF CheckDataQuality, CheckPlan
<1>2. f \notin CheckSupersede(sig, ctx) /\ f \notin CheckExpiry(sig, ctx, now)
  BY DEF CheckSupersede, CheckExpiry
<1>3. f \notin CheckSession(sig, ctx)
  BY DEF CheckSession
<1>4. f \notin CheckInvalidation(sig, ctx) /\ f \notin CheckStructureExit(sig, ctx)
  BY DEF CheckInvalidation, CheckStructureExit
<1>5. f \notin CheckEntry(sig, ctx, now, paused) /\ f \notin AutoProgress(sig)
  BY DEF CheckEntry, AutoProgress
<1>6. f \in CheckTargets(sig, ctx)
  BY <1>1, <1>2, <1>3, <1>4, <1>5 DEF Findings
<1> QED
  BY <1>6 DEF CheckTargets

(* An entry is proposed by its own monitor only.                           *)
LEMMA EntryFindings ==
  ASSUME NEW sig, NEW ctx, NEW now, NEW paused,
         NEW f \in Findings(sig, ctx, now, paused),
         f.to = "ENTRY_CONFIRMED"
  PROVE  /\ f.key = "ENTRY_CONFIRMED"
         /\ f \in CheckEntry(sig, ctx, now, paused)
<1> USE DEF Finding, If
<1>1. f \notin CheckDataQuality(sig, ctx, now) /\ f \notin CheckPlan(sig, ctx)
  BY DEF CheckDataQuality, CheckPlan
<1>2. f \notin CheckSupersede(sig, ctx) /\ f \notin CheckExpiry(sig, ctx, now)
  BY DEF CheckSupersede, CheckExpiry
<1>3. f \notin CheckSession(sig, ctx)
  BY DEF CheckSession
<1>4. f \notin CheckInvalidation(sig, ctx) /\ f \notin CheckStructureExit(sig, ctx)
  BY DEF CheckInvalidation, CheckStructureExit
<1>5. f \notin CheckTargets(sig, ctx) /\ f \notin AutoProgress(sig)
  BY DEF CheckTargets, AutoProgress
<1>6. f \in CheckEntry(sig, ctx, now, paused)
  BY <1>1, <1>2, <1>3, <1>4, <1>5 DEF Findings
<1> QED
  BY <1>6 DEF CheckEntry

(* A target that wins outranks the invalidation it wins over.              *)
LEMMA TargetBesideInvalidation ==
  ASSUME NEW sig, NEW ctx, NEW now, NEW paused, InvalidationConfirmed(ctx),
         NEW f \in LegalFindings(sig, ctx, now, paused),
         \A g \in LegalFindings(sig, ctx, now, paused) : Outranks(f, g),
         f.to \in {"TARGET_1_REACHED", "TARGET_2_REACHED"}
  PROVE  Priority[f.to] >= Priority["INVALIDATED"]
<1>1. f.key = f.to /\ sig.state \in {"ACTIVE_RESEARCH", "TARGET_1_REACHED"}
  BY TargetFindings DEF LegalFindings
<1> DEFINE g == Finding(6, "INVALIDATED", "INVALIDATED")
<1>2. g \in CheckInvalidation(sig, ctx)
  BY <1>1 DEF CheckInvalidation, If
<1>3. g \in Findings(sig, ctx, now, paused)
  BY <1>1, <1>2 DEF Findings
<1>4. g.to = "INVALIDATED" /\ g.key = "INVALIDATED"
  BY DEF Finding
<1> HIDE DEF g
<1>5. CanTransition(sig.state, g.to)
  BY <1>1, <1>4 DEF CanTransition, TRANSITIONS
<1>6. Outranks(f, g)
  BY <1>3, <1>5 DEF LegalFindings
<1>7. Priority[f.to] \in Int /\ Priority["INVALIDATED"] \in Int
  BY PriorityAssumption DEF PriorityKeys
<1> QED
  BY <1>1, <1>4, <1>6, <1>7 DEF Outranks

(* The orderings of the default configuration that an entry relies on.     *)
EntryRanksLast ==
    \A k \in {"INVALIDATED", "SUPERSEDED", "EXPIRED"} :
        Priority[k] > Priority["ENTRY_CONFIRMED"]

CloseIsLookedAt ==
    \/ EntryTrigger # "ZONE_TOUCH"
    \/ InvalidationPolicy \notin {"MARK_PRICE_TOUCH", "BBO_TOUCH"}

(* An entry that wins is on sound ground: what would object outranks it.   *)
LEMMA EntryWins ==
  ASSUME NEW sig, NEW ctx \in Context, NEW now, NEW paused,
         EntryRanksLast, CloseIsLookedAt,
         NEW f \in LegalFindings(sig, ctx, now, paused),
         \A g \in LegalFindings(sig, ctx, now, paused) : Outranks(f, g),
         f.to = "ENTRY_CONFIRMED"
  PROVE  /\ Healthy(ctx) /\ ctx.sessionAllowed /\ ~paused
         /\ now < sig.expiresAt
         /\ ctx.plan = "ELIGIBLE" /\ ctx.candidate = "CONFIRMED"
         /\ ~ctx.superseding
         /\ SourcesBeyondLevel(ctx) = {}
<1>1. f.key = "ENTRY_CONFIRMED" /\ f \in CheckEntry(sig, ctx, now, paused)
  BY EntryFindings DEF LegalFindings
<1>2. /\ sig.state = "WATCHING_ENTRY" /\ ~paused /\ ctx.sessionAllowed
      /\ Healthy(ctx) /\ now < sig.expiresAt
      /\ ValidSide(ctx) /\ EntryTriggered(ctx)
  BY <1>1 DEF CheckEntry, If
<1>3. \A g \in Findings(sig, ctx, now, paused) :
          g.to \in {"DATA_INVALID", "SUPERSEDED", "EXPIRED", "REJECTED", "INVALIDATED"}
              => g.key \notin {"DATA_INVALID", "INVALIDATED", "SUPERSEDED", "EXPIRED"}
  <2> SUFFICES ASSUME NEW g \in Findings(sig, ctx, now, paused),
                      g.to \in {"DATA_INVALID", "SUPERSEDED", "EXPIRED", "REJECTED",
                                "INVALIDATED"},
                      g.key \in {"DATA_INVALID", "INVALIDATED", "SUPERSEDED", "EXPIRED"}
               PROVE  FALSE
    OBVIOUS
  <2>1. CanTransition(sig.state, g.to)
    BY <1>2 DEF CanTransition, TRANSITIONS
  <2>2. Outranks(f, g)
    BY <2>1 DEF LegalFindings
  <2>3. Priority[g.key] > Priority[f.key]
    BY <1>1, PriorityAssumption DEF EntryRanksLast, PriorityKeys
  <2>4. Priority[g.key] \in Int /\ Priority[f.key] \in Int
    BY <1>1, PriorityAssumption DEF PriorityKeys
  <2> QED
    BY <2>2, <2>3, <2>4 DEF Outranks
<1>4. CheckPlan(sig, ctx) = {}
  <2>1. CheckPlan(sig, ctx) \subseteq Findings(sig, ctx, now, paused)
    BY DEF Findings
  <2>2. \A g \in CheckPlan(sig, ctx) :
            /\ g.to \in {"DATA_INVALID", "SUPERSEDED", "EXPIRED", "REJECTED"}
            /\ g.key \in {"DATA_INVALID", "SUPERSEDED", "EXPIRED"}
    BY DEF CheckPlan, If, Finding
  <2> QED
    BY <1>3, <2>1, <2>2
<1>5. CheckSupersede(sig, ctx) = {}
  <2>1. CheckSupersede(sig, ctx) \subseteq Findings(sig, ctx, now, paused)
    BY DEF Findings
  <2>2. \A g \in CheckSupersede(sig, ctx) : g.to = "SUPERSEDED" /\ g.key = "SUPERSEDED"
    BY DEF CheckSupersede, If, Finding
  <2> QED
    BY <1>3, <2>1, <2>2
<1>6. CheckInvalidation(sig, ctx) = {}
  <2>1. CheckInvalidation(sig, ctx) \subseteq Findings(sig, ctx, now, paused)
    BY <1>2 DEF Findings
  <2>2. \A g \in CheckInvalidation(sig, ctx) : g.to = "INVALIDATED" /\ g.key = "INVALIDATED"
    BY <1>2 DEF CheckInvalidation, If, Finding
  <2> QED
    BY <1>3, <2>1, <2>2
<1>7. ctx.plan = "ELIGIBLE" /\ ctx.candidate = "CONFIRMED"
  <2>1. ~IsPostEntry(sig.state)
    BY <1>2 DEF IsPostEntry, PostEntryStates
  <2>2. /\ ctx.plan \notin {"LOST", "DATA_INVALID", "SUPERSEDED", "EXPIRED", "OTHER"}
        /\ ctx.plan = "ELIGIBLE" =>
               ctx.candidate \notin {"LOST", "SUPERSEDED", "EXPIRED", "REJECTED"}
    BY <1>4, <2>1 DEF CheckPlan, If
  <2> QED
    BY <2>2 DEF Context
<1>8. ~ctx.superseding
  BY <1>5 DEF CheckSupersede, If
<1>9. SourcesBeyondLevel(ctx) = {}
  <2>1. ~InvalidationConfirmed(ctx)
    BY <1>2, <1>6 DEF CheckInvalidation, If
  <2>2. ctx.mark # Beyond \/ ctx.mark = None
    BY <1>2 DEF ValidSide, If
  <2>3. ctx.bboFresh => ctx.exitSide # Beyond \/ ctx.exitSide = None
    BY <1>2 DEF ValidSide, If
  <2>4. None # Beyond
    BY NoneAssumption DEF Beyond
  <2>5. SourcesBeyondLevel(ctx) \subseteq {"5M_CLOSE"}
    BY <2>2, <2>3, <2>4 DEF SourcesBeyondLevel, If
  <2>6. CASE ctx.close # Beyond
    BY <2>5, <2>6 DEF SourcesBeyondLevel, If
  <2>7. CASE ctx.close = Beyond
    <3>1. EntryTrigger = "ZONE_TOUCH"
      BY <1>2, <2>7, PolicyAssumption DEF EntryTriggered, Beyond, Zone, Tolerance
    <3>2. InvalidationPolicy \in {"FIVE_M_CLOSE_BEYOND_LEVEL", "CONSERVATIVE_COMBINED"}
      BY <3>1, PolicyAssumption DEF CloseIsLookedAt
    <3>3. SourcesBeyondLevel(ctx) = {"5M_CLOSE"} /\ ctx.dataOk
      BY <1>2, <2>5, <2>7 DEF SourcesBeyondLevel, If, Healthy
    <3>4. InvalidationConfirmed(ctx)
      BY <3>2, <3>3 DEF InvalidationConfirmed, If
    <3> QED
      BY <2>1, <3>4
  <2> QED
    BY <2>6, <2>7
<1> QED
  BY <1>2, <1>7, <1>8, <1>9

(* Only an evaluation decides, and it decides what the engine says.        *)
LEMMA DecidedByEngine ==
  ASSUME TypeOK, PlaceInv, Next, NEW p \in Processes, NEW s \in Signals,
         Decides(p, s)
  PROVE  \E ctx \in Surroundings :
            /\ task'[p][s].context = ctx
            /\ task'[p][s].steps = EvaluateSignal(task[p][s].snapshot, ctx,
                                       process[p].now, process[p].paused)
            /\ task'[p][s].steps # <<>>
<1>t. task[p][s] \in TaskType
  BY DEF TypeOK
<1>d. task[p][s].at = "evaluate" /\ task'[p][s].at = "apply"
  BY DEF Decides
<1>1. Evaluate(p, s)
  <2>1. task' # task
    BY <1>d
  <2>2. \A q \in Processes :
            ~StartCycle(q) /\ ~SkipPlan(q) /\ ~AdmitPlan(q) /\ ~InsertRow(q)
            /\ ~InsertChain(q)
    BY <2>1 DEF StartCycle, SkipPlan, AdmitPlan, InsertRow, InsertChain
  <2>3. ~Tick
    BY <2>1 DEF Tick
  <2>4. ASSUME NEW q \in Processes, NEW g, SetTasks(q, g), q = p => g[s].at # "apply"
        PROVE  FALSE
    <3>1. task'[p][s] = IF p = q THEN g[s] ELSE task[p][s]
      BY <2>4, SetTasksAt DEF TypeOK
    <3> QED
      BY <1>d, <2>4, <3>1
  <2>5. AllIdle[s].at = "none"
    BY DEF AllIdle, IdleTask
  <2>6. ASSUME NEW q \in Processes, LoadRows(q)
        PROVE  FALSE
    <3> DEFINE f == [u \in Signals |->
                        IF u \in NonTerminal THEN LoadedTask(row[u]) ELSE IdleTask]
    <3>1. q # p
      BY <1>d, <2>6 DEF LoadRows, PlaceInv
    <3>2. SetTasks(q, f) \/ SetTasks(q, AllIdle)
      BY <2>6, Zenon DEF LoadRows
    <3> HIDE DEF f
    <3> QED
      BY <2>4, <3>1, <3>2
  <2>7. ASSUME NEW q \in Processes, EndCycle(q) \/ Crash(q)
        PROVE  FALSE
    BY <2>4, <2>5, <2>7 DEF EndCycle, Crash
  <2>8. ASSUME NEW q \in Processes, NEW u \in Signals, q # p \/ u # s, Monitoring(q, u)
        PROVE  FALSE
    <3>1. \E t : SetTask(q, u, t)
      BY <2>8 DEF Monitoring, Claim, Evaluate, ApplyRow, InsertEvent, Touch, Release,
                  TaskTo, Finish, StopApplying
    <3>2. task'[p][s] = task[p][s]
      BY <2>8, <3>1, SetTaskAt DEF TypeOK
    <3> QED
      BY <1>d, <3>2
  <2>9. Monitoring(p, s) => Evaluate(p, s)
    BY <1>d DEF Monitoring, Claim, ApplyRow, InsertEvent, Touch, Release
  <2> QED
    BY <2>2, <2>3, <2>6, <2>7, <2>8, <2>9 DEF Next, Work, Admission
<1>2. ~TaskTo(p, s, "release")
  <2> DEFINE r == [task[p][s] EXCEPT !.at = "release"]
  <2>1. r.at = "release"
    BY <1>t DEF TaskType
  <2> HIDE DEF r
  <2>2. SetTask(p, s, r) => task'[p][s] = r
    BY SetTaskAt DEF TypeOK
  <2> QED
    BY <1>d, <2>1, <2>2 DEF TaskTo, r
<1>3. PICK ctx \in Surroundings :
          SetTask(p, s, Evaluated(task[p][s], ctx, process[p].now, process[p].paused))
  BY <1>1, <1>2 DEF Evaluate
<1> DEFINE steps == EvaluateSignal(task[p][s].snapshot, ctx, process[p].now,
                                   process[p].paused)
           t == Evaluated(task[p][s], ctx, process[p].now, process[p].paused)
<1>4. task'[p][s] = t
  <2> HIDE DEF t
  <2>1. SetTask(p, s, t)
    BY <1>3 DEF t
  <2> QED
    BY <2>1, SetTaskAt DEF TypeOK
<1>5. /\ t.at = IF steps = <<>> THEN "touch" ELSE "apply"
      /\ t.steps = steps
      /\ t.context = ctx
  <2> HIDE DEF steps
  <2> QED
    BY <1>t DEF Evaluated, TaskType, steps
<1> HIDE DEF t
<1>6. steps # <<>>
  <2> HIDE DEF steps
  <2> QED
    BY <1>d, <1>4, <1>5
<1> QED
  BY <1>4, <1>5, <1>6

(* The first step of a decision is the winner among the legal findings.    *)
LEMMA DecisionWins ==
  ASSUME TypeOK, PlaceInv, Next, NEW p \in Processes, NEW s \in Signals,
         Decides(p, s)
  PROVE  LET ctx   == task'[p][s].context
             legal == LegalFindings(task[p][s].snapshot, ctx, process[p].now,
                                    process[p].paused)
         IN  /\ ctx \in Surroundings
             /\ \E f \in legal : /\ \A g \in legal : Outranks(f, g)
                                 /\ f.to = Decision(p, s)
<1> PICK ctx \in Surroundings :
            /\ task'[p][s].context = ctx
            /\ task'[p][s].steps = EvaluateSignal(task[p][s].snapshot, ctx,
                                       process[p].now, process[p].paused)
            /\ task'[p][s].steps # <<>>
  BY DecidedByEngine
<1> DEFINE legal == LegalFindings(task[p][s].snapshot, ctx, process[p].now,
                                  process[p].paused)
<1> PICK steps : steps = task'[p][s].steps
  OBVIOUS
<1>1. PICK f \in legal :
          /\ \A g \in legal : Outranks(f, g)
          /\ \/ steps = <<Step(task[p][s].snapshot.state, f.to)>>
             \/ steps = <<Step(task[p][s].snapshot.state, f.to),
                          Step("ENTRY_CONFIRMED", "ACTIVE_RESEARCH")>>
  BY EvaluateShape
<1>2. Head(steps) = Step(task[p][s].snapshot.state, f.to)
  BY <1>1
<1>3. f.to = Decision(p, s)
  BY <1>2 DEF Decision, Step
<1> QED
  BY <1>1, <1>3

(***************************************************************************)
(* In every configuration that ranks INVALIDATED above both targets, no    *)
(* target wins over an invalidation confirmed in the same cycle.  The      *)
(* settings class only enforces the rank above TARGET_2_REACHED.           *)
(***************************************************************************)
THEOREM InvalidationBeatsTargetsHolds ==
  ASSUME Priority["INVALIDATED"] > Priority["TARGET_1_REACHED"]
  PROVE  Spec => InvalidationBeatsTargets
<1> DEFINE Beats == \A p \in Processes, s \in Signals :
                       Decides(p, s) /\ InvalidationConfirmed(task'[p][s].context) =>
                          Decision(p, s) \notin {"TARGET_1_REACHED", "TARGET_2_REACHED"}
<1>1. TypeOK /\ PlaceInv /\ [Next]_vars => [Beats]_vars
  <2> SUFFICES ASSUME TypeOK, PlaceInv, Next, NEW p \in Processes, NEW s \in Signals,
                      Decides(p, s), InvalidationConfirmed(task'[p][s].context),
                      Decision(p, s) \in {"TARGET_1_REACHED", "TARGET_2_REACHED"}
               PROVE  FALSE
    OBVIOUS
  <2> PICK ctx : ctx = task'[p][s].context
    OBVIOUS
  <2> DEFINE legal == LegalFindings(task[p][s].snapshot, ctx, process[p].now,
                                    process[p].paused)
  <2>1. PICK f \in legal : (\A g \in legal : Outranks(f, g)) /\ f.to = Decision(p, s)
    BY DecisionWins
  <2>2. f.to \in {"TARGET_1_REACHED", "TARGET_2_REACHED"} /\ InvalidationConfirmed(ctx)
    BY <2>1
  <2>3. Priority[f.to] >= Priority["INVALIDATED"]
    BY <2>1, <2>2, TargetBesideInvalidation
  <2>4. Priority \in [PriorityKeys -> Int]
    BY PriorityAssumption
  <2> QED
    BY <2>2, <2>3, <2>4, PriorityAssumption DEF PriorityKeys
<1>2. Spec => [][Beats]_vars
  BY <1>1, TypeCorrect, PTL DEF Spec
<1> QED
  BY <1>2 DEF InvalidationBeatsTargets

(***************************************************************************)
(* In every configuration that ranks an entry below what ends a watch, and *)
(* that does not combine a touch trigger with a touch-only invalidation,   *)
(* an entry is only confirmed on sound ground.                             *)
(***************************************************************************)
THEOREM EntryOnSoundGroundHolds ==
  ASSUME EntryRanksLast, CloseIsLookedAt
  PROVE  Spec => EntryOnSoundGround
<1> DEFINE Sound == \A p \in Processes, s \in Signals :
        Decides(p, s) /\ Decision(p, s) = "ENTRY_CONFIRMED" =>
            LET ctx == task'[p][s].context
            IN  /\ Healthy(ctx)
                /\ ctx.sessionAllowed /\ ~process[p].paused
                /\ process[p].now < task[p][s].snapshot.expiresAt
                /\ ctx.plan = "ELIGIBLE" /\ ctx.candidate = "CONFIRMED"
                /\ ~ctx.superseding
                /\ SourcesBeyondLevel(ctx) = {}
<1>1. TypeOK /\ PlaceInv /\ [Next]_vars => [Sound]_vars
  <2> SUFFICES ASSUME TypeOK, PlaceInv, Next, NEW p \in Processes, NEW s \in Signals,
                      Decides(p, s), Decision(p, s) = "ENTRY_CONFIRMED",
                      NEW ctx, ctx = task'[p][s].context
               PROVE  /\ Healthy(ctx)
                      /\ ctx.sessionAllowed /\ ~process[p].paused
                      /\ process[p].now < task[p][s].snapshot.expiresAt
                      /\ ctx.plan = "ELIGIBLE" /\ ctx.candidate = "CONFIRMED"
                      /\ ~ctx.superseding
                      /\ SourcesBeyondLevel(ctx) = {}
    OBVIOUS
  <2> DEFINE legal == LegalFindings(task[p][s].snapshot, ctx, process[p].now,
                                    process[p].paused)
  <2>1. PICK f \in legal : (\A g \in legal : Outranks(f, g)) /\ f.to = Decision(p, s)
    BY DecisionWins
  <2>2. ctx \in Context
    BY DecisionWins, ConstantsAssumption
  <2> QED
    BY <2>1, <2>2, EntryWins
<1>2. Spec => [][Sound]_vars
  BY <1>1, TypeCorrect, PTL DEF Spec
<1> QED
  BY <1>2 DEF EntryOnSoundGround

-----------------------------------------------------------------------------
(* The grace period of a process that has the database to itself.          *)

(* A marker is none, or not older than the last healthy look.              *)
Marked(s, since) == since # None => seenHealthy[s] <= since

(* A task that saw healthy data has not written so yet.                    *)
Sighted(p, s) ==
    task[p][s].at \in {"apply", "event", "touch"} /\ Healthy(task[p][s].context)

MarkersAreRight(p, s) ==
    /\ Sighted(p, s) \/ Marked(s, row[s].degradedSince)
    /\ \/ Sighted(p, s) \/ task[p][s].at \in {"none", "release"}
       \/ Marked(s, task[p][s].snapshot.degradedSince)

InCycle(p) == process[p].at \in {"admit", "insert", "chain", "monitor"}

SeenInv ==
    /\ \A s \in Signals : seenHealthy[s] <= clock
    /\ \A p \in Processes, s \in Signals : InCycle(p) => seenHealthy[s] <= process[p].now

(***************************************************************************)
(* Strengthening of GraceIsHonoured: the marker of a row is right unless   *)
(* its task is about to clear it, and so is the one a task goes by.        *)
(***************************************************************************)
MarkInv ==
    \A p \in Processes, s \in Signals :
        process[p].at # "dead" /\ faults = 0 => MarkersAreRight(p, s)

OneProcess == \A p, q \in Processes : p = q

(* The fields of a process that the grace depends on.                      *)
LEMMA ProcessFields ==
  ASSUME NEW c \in ProcessType
  PROVE  /\ \A place :
                /\ [c EXCEPT !.at = place].at = place
                /\ [c EXCEPT !.at = place].now = c.now
         /\ \A todo :
                /\ [c EXCEPT !.todo = todo].at = c.at
                /\ [c EXCEPT !.todo = todo].now = c.now
         /\ \A place, plan, todo :
                /\ [c EXCEPT !.at = place, !.plan = plan, !.todo = todo].at = place
                /\ [c EXCEPT !.at = place, !.plan = plan, !.todo = todo].now = c.now
         /\ \A place, s :
                /\ [c EXCEPT !.at = place, !.signal = s].at = place
                /\ [c EXCEPT !.at = place, !.signal = s].now = c.now
  BY DEF ProcessType

(* Nobody has looked yet.                                                  *)
LEMMA GraceInit == Init => SeenInv /\ MarkInv
<1>1. AbsentRow.degradedSince = None /\ IdleTask.at = "none" /\ IdleProcess.at = "idle"
  BY DEF AbsentRow, IdleTask, IdleProcess
<1> QED
  BY <1>1 DEF Init, SeenInv, MarkInv, InCycle, MarkersAreRight, Marked

(***************************************************************************)
(* A process moves within its cycle, or to a new one, or ends it.          *)
(***************************************************************************)
LEMMA SeenFrame ==
  ASSUME TypeOK, SeenInv, clock' \in Nat, clock <= clock', seenHealthy' = seenHealthy,
         \A p \in Processes :
             InCycle(p)' => \/ InCycle(p) /\ process'[p].now = process[p].now
                            \/ process'[p].now = clock
  PROVE  SeenInv'
<1>1. clock \in Nat /\ seenHealthy \in [Signals -> Nat]
  BY DEF TypeOK
<1>2. \A s \in Signals : seenHealthy'[s] <= clock'
  <2> TAKE s \in Signals
  <2>1. seenHealthy[s] \in Nat /\ seenHealthy[s] <= clock
    BY <1>1 DEF SeenInv
  <2> QED
    BY <1>1, <2>1
<1>3. \A p \in Processes, s \in Signals : InCycle(p)' => seenHealthy'[s] <= process'[p].now
  BY DEF SeenInv
<1> QED
  BY <1>2, <1>3 DEF SeenInv

(* A step that changes neither rows nor tasks keeps the markers right.     *)
LEMMA MarkFrame ==
  ASSUME MarkInv, row' = row, task' = task, seenHealthy' = seenHealthy,
         faults' = 0 => faults = 0,
         \A p \in Processes : process'[p].at # "dead" => process[p].at # "dead"
  PROVE  MarkInv'
  BY DEF MarkInv, MarkersAreRight, Marked, Sighted

(* A task's step keeps those of the other signals right.                   *)
LEMMA MarkTask ==
  ASSUME TypeOK, MarkInv, OneProcess, process' = process, faults' = 0 => faults = 0,
         NEW p \in Processes, NEW s \in Signals, NEW t, SetTask(p, s, t),
         \A u \in Signals \ {s} : row'[u] = row[u] /\ seenHealthy'[u] = seenHealthy[u],
         process[p].at # "dead" /\ faults' = 0 => MarkersAreRight(p, s)'
  PROVE  MarkInv'
<1> SUFFICES ASSUME NEW q \in Processes, NEW u \in Signals,
                    process[q].at # "dead", faults' = 0
             PROVE  MarkersAreRight(q, u)'
  BY DEF MarkInv
<1>1. q = p
  BY DEF OneProcess
<1>2. CASE u = s
  BY <1>1, <1>2
<1>3. CASE u # s
  <2>1. task'[p][u] = task[p][u]
    BY <1>3, SetTaskAt DEF TypeOK
  <2>2. MarkersAreRight(p, u)
    BY <1>1 DEF MarkInv
  <2> QED
    BY <1>1, <1>3, <2>1, <2>2 DEF MarkersAreRight, Marked, Sighted
<1> QED
  BY <1>2, <1>3

(* A failed transaction is remembered.                                     *)
LEMMA FailuresStay ==
  ASSUME faults \in Nat, (UNCHANGED faults) \/ DatabaseFails
  PROVE  faults' = 0 => faults = 0
<1>1. faults' = faults \/ faults' = faults + 1
  BY DEF DatabaseFails
<1> QED
  BY <1>1

(* A process moves on while its tasks rest.                                *)
LEMMA GraceMove ==
  ASSUME TypeOK, SeenInv, MarkInv, NEW p \in Processes, NEW c, SetProcess(p, c),
         c.at # "dead" => process[p].at # "dead",
         c.at \in {"admit", "insert", "chain", "monitor"} =>
             (InCycle(p) /\ c.now = process[p].now) \/ c.now = clock,
         clock' = clock, row' = row, task' = task, seenHealthy' = seenHealthy,
         (UNCHANGED faults) \/ DatabaseFails
  PROVE  SeenInv' /\ MarkInv'
<1>1. \A q \in Processes : process'[q] = IF q = p THEN c ELSE process[q]
  BY SetProcessAt DEF TypeOK
<1>2. clock \in Nat /\ faults \in Nat
  BY DEF TypeOK
<1>3. faults' = 0 => faults = 0
  BY <1>2, FailuresStay
<1>4. SeenInv'
  BY <1>1, <1>2, SeenFrame DEF InCycle
<1>5. MarkInv'
  BY <1>1, <1>3, MarkFrame
<1> QED
  BY <1>4, <1>5

(* The steps of a cycle, but for the insert of a row.                      *)
LEMMA GraceAdmission ==
  ASSUME TypeOK, SeenInv, MarkInv, NEW p \in Processes,
         StartCycle(p) \/ SkipPlan(p) \/ AdmitPlan(p) \/ InsertChain(p)
  PROVE  SeenInv' /\ MarkInv'
<1>p. process[p] \in ProcessType
  BY DEF TypeOK
<1>u. clock' = clock /\ row' = row /\ task' = task /\ seenHealthy' = seenHealthy
      /\ ((UNCHANGED faults) \/ DatabaseFails)
  BY DEF StartCycle, SkipPlan, AdmitPlan, InsertChain, history
<1>1. CASE StartCycle(p)
  <2>1. PICK paused, todo : SetProcess(p, Cycle(paused, todo))
    BY <1>1, Zenon DEF StartCycle
  <2>2. Cycle(paused, todo).now = clock
    BY DEF Cycle, IdleProcess
  <2>3. process[p].at = "idle"
    BY <1>1 DEF StartCycle
  <2> QED
    BY <1>u, <2>1, <2>2, <2>3, GraceMove
<1>2. CASE SkipPlan(p)
  <2>1. PICK plan : SetProcess(p, [process[p] EXCEPT !.todo = @ \ {plan}])
    BY <1>2, Zenon DEF SkipPlan
  <2> DEFINE c == [process[p] EXCEPT !.todo = @ \ {plan}]
  <2>2. c.at = process[p].at /\ c.now = process[p].now
    BY <1>p, ProcessFields
  <2>3. InCycle(p) /\ SetProcess(p, c)
    BY <1>2, <2>1 DEF SkipPlan, InCycle
  <2> HIDE DEF c
  <2> QED
    BY <1>u, <2>2, <2>3, GraceMove DEF InCycle
<1>3. CASE AdmitPlan(p)
  <2>1. PICK plan : SetProcess(p, [process[p] EXCEPT !.at = "insert", !.plan = plan,
                                                     !.todo = @ \ {plan}])
    BY <1>3, Zenon DEF AdmitPlan
  <2> DEFINE c == [process[p] EXCEPT !.at = "insert", !.plan = plan, !.todo = @ \ {plan}]
  <2>2. c.at = "insert" /\ c.now = process[p].now
    BY <1>p, ProcessFields
  <2>3. InCycle(p) /\ SetProcess(p, c)
    BY <1>3, <2>1 DEF AdmitPlan, InCycle
  <2> HIDE DEF c
  <2> QED
    BY <1>u, <2>2, <2>3, GraceMove DEF InCycle
<1>4. CASE InsertChain(p)
  <2> DEFINE c == [process[p] EXCEPT !.at = "admit", !.plan = None, !.signal = None]
  <2>1. c.at = "admit" /\ c.now = process[p].now
    BY <1>p, ProcessFields
  <2>2. InCycle(p) /\ SetProcess(p, c)
    BY <1>4 DEF InsertChain, InCycle, NextPlan
  <2> HIDE DEF c
  <2> QED
    BY <1>u, <2>1, <2>2, GraceMove DEF InCycle
<1> QED
  BY <1>1, <1>2, <1>3, <1>4

(* A new row has no marker, and nobody works on it.                        *)
LEMMA GraceInsert ==
  ASSUME TypeOK, PlaceInv, LeaseInv, SeenInv, MarkInv, OneProcess,
         NEW p \in Processes, InsertRow(p)
  PROVE  SeenInv' /\ MarkInv'
<1>p. process[p] \in ProcessType /\ InCycle(p)
  BY DEF TypeOK, InsertRow, InCycle
<1>f. /\ clock \in Nat /\ faults \in Nat /\ process[p].now \in Nat
      /\ process[p].now <= clock /\ seenHealthy \in [Signals -> Nat]
  BY DEF TypeOK, ProcessType, LeaseInv
<1>1. clock' = clock /\ task' = task
  BY DEF InsertRow
<1>2. CASE row' = row /\ NextPlan(p) /\ UNCHANGED history
           /\ ((UNCHANGED faults) \/ DatabaseFails)
  <2> DEFINE c == [process[p] EXCEPT !.at = "admit", !.plan = None, !.signal = None]
  <2>1. c.at = "admit" /\ c.now = process[p].now
    BY <1>p, ProcessFields
  <2>2. SetProcess(p, c) /\ seenHealthy' = seenHealthy
    BY <1>2 DEF NextPlan, history
  <2> HIDE DEF c
  <2> QED
    BY <1>p, <1>1, <1>2, <2>1, <2>2, GraceMove DEF InCycle
<1>3. ASSUME NEW s \in Signals, ~Exists(s), faults' = faults,
             SetRow(s, NewRow(process[p].plan, Config[p], process[p].now)),
             seenHealthy' = [seenHealthy EXCEPT ![s] = process[p].now],
             SetProcess(p, [process[p] EXCEPT !.at = "chain", !.signal = s])
      PROVE  SeenInv' /\ MarkInv'
  <2> DEFINE c == [process[p] EXCEPT !.at = "chain", !.signal = s]
             r == NewRow(process[p].plan, Config[p], process[p].now)
  <2>1. c.at = "chain" /\ c.now = process[p].now /\ SetProcess(p, c)
    BY <1>3, <1>p, ProcessFields
  <2>2. r.degradedSince = None /\ SetRow(s, r)
    BY <1>3 DEF NewRow, AbsentRow
  <2> HIDE DEF c, r
  <2>3. \A q \in Processes : process'[q] = IF q = p THEN c ELSE process[q]
    BY <2>1, SetProcessAt DEF TypeOK
  <2>4. \A u \in Signals : row'[u] = IF u = s THEN r ELSE row[u]
    BY <2>2, SetRowAt DEF TypeOK
  <2>5. \A u \in Signals : seenHealthy'[u] = IF u = s THEN process[p].now ELSE seenHealthy[u]
    BY <1>3, <1>f
  <2>6. task[p][s].at = "none"
    BY <1>3 DEF PlaceInv
  <2>7. SeenInv'
    BY <1>p, <1>f, <1>1, <2>1, <2>3, <2>5 DEF SeenInv, OneProcess
  <2>8. MarkInv'
    <3> SUFFICES ASSUME NEW q \in Processes, NEW u \in Signals, faults' = 0
                 PROVE  MarkersAreRight(q, u)'
      BY DEF MarkInv
    <3>1. q = p
      BY DEF OneProcess
    <3>2. CASE u = s
      BY <1>1, <2>2, <2>4, <2>6, <3>1, <3>2 DEF MarkersAreRight, Marked
    <3>3. CASE u # s
      <4>1. MarkersAreRight(p, u)
        BY <1>3, <1>p DEF MarkInv, InCycle
      <4> QED
        BY <1>1, <2>4, <2>5, <3>1, <3>3, <4>1 DEF MarkersAreRight, Marked, Sighted
    <3> QED
      BY <3>2, <3>3
  <2> QED
    BY <2>7, <2>8
<1> QED
  BY <1>2, <1>3 DEF InsertRow, history

(* A cycle loads its tasks, or is over.                                    *)
LEMMA GraceCycle ==
  ASSUME TypeOK, PlaceInv, SeenInv, MarkInv, OneProcess,
         NEW p \in Processes, LoadRows(p) \/ EndCycle(p) \/ Crash(p)
  PROVE  SeenInv' /\ MarkInv'
<1>p. process[p] \in ProcessType /\ clock \in Nat /\ faults \in Nat
  BY DEF TypeOK
<1>u. clock' = clock /\ row' = row /\ seenHealthy' = seenHealthy
      /\ ((UNCHANGED faults) \/ DatabaseFails)
  BY DEF LoadRows, EndCycle, Crash, history
<1>v. faults' = 0 => faults = 0
  BY <1>p, <1>u, FailuresStay
<1>i. /\ IdleProcess.at = "idle" /\ [IdleProcess EXCEPT !.at = "dead"].at = "dead"
      /\ \A s \in Signals : AllIdle[s].at = "none"
  BY DEF IdleProcess, AllIdle, IdleTask
<1>1. CASE LoadRows(p)
  <2> DEFINE c == [process[p] EXCEPT !.at = "monitor"]
             f == [u \in Signals |->
                      IF u \in NonTerminal THEN LoadedTask(row[u]) ELSE IdleTask]
  <2>1. c.at = "monitor" /\ c.now = process[p].now
    BY <1>p, ProcessFields
  <2>2. SetProcess(p, c) /\ process[p].at = "admit"
    BY <1>1 DEF LoadRows, GoTo
  <2>3. \A u \in Signals :
            /\ f[u].at \in {"claim", "none"}
            /\ f[u].at = "claim" => f[u].snapshot.degradedSince = row[u].degradedSince
    <3>1. \A u \in Signals : /\ LoadedTask(row[u]).at = "claim" /\ IdleTask.at = "none"
                             /\ LoadedTask(row[u]).snapshot = Snapshot(row[u])
      BY DEF LoadedTask, IdleTask
    <3>2. \A u \in Signals : Snapshot(row[u]).degradedSince = row[u].degradedSince
      BY DEF Snapshot
    <3> QED
      BY <3>1, <3>2
  <2>4. SetTasks(p, f) \/ SetTasks(p, AllIdle)
    BY <1>1, Zenon DEF LoadRows
  <2> HIDE DEF c, f
  <2>5. PICK g : /\ SetTasks(p, g)
                 /\ \A u \in Signals :
                        /\ g[u].at \in {"claim", "none"}
                        /\ g[u].at = "claim" =>
                               g[u].snapshot.degradedSince = row[u].degradedSince
    BY <1>i, <2>3, <2>4
  <2>6. \A u \in Signals : task'[p][u] = g[u]
    BY <2>5, SetTasksAt DEF TypeOK
  <2>7. \A q \in Processes : process'[q] = IF q = p THEN c ELSE process[q]
    BY <2>2, SetProcessAt DEF TypeOK
  <2>8. SeenInv'
    BY <1>p, <1>u, <2>1, <2>2, <2>7, SeenFrame DEF InCycle
  <2>9. MarkInv'
    <3> SUFFICES ASSUME NEW q \in Processes, NEW u \in Signals, faults' = 0
                 PROVE  MarkersAreRight(q, u)'
      BY DEF MarkInv
    <3>1. q = p
      BY DEF OneProcess
    <3>2. task[p][u].at = "none"
      BY <2>2 DEF PlaceInv
    <3>3. Marked(u, row[u].degradedSince)
      BY <1>v, <2>2, <3>2 DEF MarkInv, MarkersAreRight, Sighted
    <3> QED
      BY <1>u, <2>5, <2>6, <3>1, <3>3 DEF MarkersAreRight, Marked, Sighted
  <2> QED
    BY <2>8, <2>9
<1>2. CASE EndCycle(p) \/ Crash(p)
  <2>1. PICK c : /\ SetProcess(p, c) /\ c.at \in {"idle", "dead"}
                 /\ c.at = "idle" => EndCycle(p)
    BY <1>2, <1>i DEF EndCycle, Crash
  <2>2. \A q \in Processes : process'[q] = IF q = p THEN c ELSE process[q]
    BY <2>1, SetProcessAt DEF TypeOK
  <2>3. SeenInv'
    BY <1>p, <1>u, <2>1, <2>2, SeenFrame DEF InCycle
  <2>4. MarkInv'
    <3> SUFFICES ASSUME NEW q \in Processes, NEW u \in Signals, faults' = 0,
                        process'[q].at # "dead"
                 PROVE  MarkersAreRight(q, u)'
      BY DEF MarkInv
    <3>1. q = p
      BY DEF OneProcess
    <3>2. process[p].at = "monitor" /\ task[p][u].at = "none" /\ SetTasks(p, AllIdle)
      BY <2>1, <2>2, <3>1 DEF EndCycle
    <3>3. task'[p][u].at = "none"
      <4>1. task'[p][u] = AllIdle[u]
        BY <3>2, SetTasksAt DEF TypeOK
      <4> QED
        BY <1>i, <4>1
    <3>4. Marked(u, row[u].degradedSince)
      BY <1>v, <3>2 DEF MarkInv, MarkersAreRight, Sighted
    <3> QED
      BY <1>u, <3>1, <3>3, <3>4 DEF MarkersAreRight, Marked
  <2> QED
    BY <2>3, <2>4
<1> QED
  BY <1>1, <1>2

(* What the tasks' own fields are after each update.                       *)
LEMMA TaskFields ==
  ASSUME NEW t \in TaskType
  PROVE  /\ \A place :
                /\ [t EXCEPT !.at = place].at = place
                /\ [t EXCEPT !.at = place].snapshot = t.snapshot
                /\ [t EXCEPT !.at = place].context = t.context
         /\ \A place, steps :
                /\ [t EXCEPT !.at = place, !.steps = steps].at = place
                /\ [t EXCEPT !.at = place, !.steps = steps].snapshot = t.snapshot
                /\ [t EXCEPT !.at = place, !.steps = steps].context = t.context
         /\ \A place, steps, n :
                /\ [t EXCEPT !.at = place, !.steps = steps, !.expected = n].at = place
                /\ [t EXCEPT !.at = place, !.steps = steps, !.expected = n].snapshot
                       = t.snapshot
                /\ [t EXCEPT !.at = place, !.steps = steps, !.expected = n].context
                       = t.context
  BY DEF TaskType

(* Leases and transitions leave the marker alone, and it can be set.       *)
LEMMA MarkerFields ==
  ASSUME NEW r \in RowType
  PROVE  /\ \A to, e, now : Transitioned(r, to, e, now).degradedSince = r.degradedSince
         /\ \A o, n : [r EXCEPT !.leaseOwner = o, !.leaseUntil = n].degradedSince
                          = r.degradedSince
         /\ \A d : [r EXCEPT !.degradedSince = d].degradedSince = d
<1>1. \A to, e, now : Transitioned(r, to, e, now).degradedSince = r.degradedSince
  <2> TAKE to, e, now
  <2> DEFINE k == IF IsTerminal(to) THEN None ELSE r.activeKey
             n == IF to = "ENTRY_CONFIRMED" THEN now ELSE r.entryAt
  <2>1. Transitioned(r, to, e, now) =
            [r EXCEPT !.state = to, !.version = e + 1, !.activeKey = k, !.entryAt = n]
    BY Zenon DEF Transitioned
  <2> HIDE DEF k, n
  <2> QED
    BY <2>1 DEF RowType
<1> QED
  BY <1>1 DEF RowType

(***************************************************************************)
(* A task's step that neither looks nor writes the marker.                 *)
(***************************************************************************)
LEMMA GraceTask ==
  ASSUME TypeOK, SeenInv, MarkInv, OneProcess, NEW p \in Processes, NEW s \in Signals,
         NEW t, SetTask(p, s, t), NEW r, row' = row \/ SetRow(s, r),
         r.degradedSince = row[s].degradedSince,
         clock' = clock, process' = process, seenHealthy' = seenHealthy,
         (UNCHANGED faults) \/ DatabaseFails,
         \/ /\ t.at \in {"evaluate", "none", "release"}
            /\ task[p][s].at \in {"claim", "evaluate", "release"}
            /\ t.at = "evaluate" => task[p][s].at = "claim"
         \/ /\ t.at \in {"apply", "event", "touch"}
            /\ task[p][s].at \in {"apply", "event", "touch"}
            /\ t.context = task[p][s].context,
         t.at \in {"none", "release"} \/ t.snapshot = task[p][s].snapshot
  PROVE  SeenInv' /\ MarkInv'
<1>1. clock \in Nat /\ faults \in Nat
  BY DEF TypeOK
<1>2. SeenInv'
  BY <1>1, SeenFrame DEF InCycle
<1>3. faults' = 0 => faults = 0
  BY <1>1, FailuresStay
<1>4. \A u \in Signals : /\ row'[u].degradedSince = row[u].degradedSince
                         /\ u # s => row'[u] = row[u]
  BY SetRowAt DEF TypeOK
<1>5. task'[p][s] = t
  BY SetTaskAt DEF TypeOK
<1>6. ASSUME process[p].at # "dead", faults' = 0
      PROVE  MarkersAreRight(p, s)'
  <2>1. MarkersAreRight(p, s)
    BY <1>3, <1>6 DEF MarkInv
  <2> QED
    BY <1>4, <1>5, <2>1 DEF MarkersAreRight, Marked, Sighted
<1>7. MarkInv'
  BY <1>3, <1>4, <1>6, MarkTask
<1> QED
  BY <1>2, <1>7

(* A look at the market is remembered.                                     *)
LEMMA GraceEvaluate ==
  ASSUME TypeOK, PlaceInv, LeaseInv, SeenInv, MarkInv, OneProcess,
         NEW p \in Processes, NEW s \in Signals, Evaluate(p, s)
  PROVE  SeenInv' /\ MarkInv'
<1>t. task[p][s] \in TaskType /\ row[s] \in RowType /\ process[p] \in ProcessType
  BY DEF TypeOK
<1>f. /\ clock \in Nat /\ faults \in Nat /\ process[p].now \in Nat
      /\ process[p].now <= clock /\ seenHealthy \in [Signals -> Nat]
  BY DEF TypeOK, ProcessType, LeaseInv
<1>a. task[p][s].at = "evaluate" /\ process[p].at = "monitor"
  BY DEF Evaluate, PlaceInv
<1>u. clock' = clock /\ row' = row /\ process' = process
  BY DEF Evaluate
<1>1. CASE DatabaseFails /\ TaskTo(p, s, "release") /\ UNCHANGED seenHealthy
  <2> DEFINE t == [task[p][s] EXCEPT !.at = "release"]
  <2>1. t.at = "release" /\ t.snapshot = task[p][s].snapshot /\ SetTask(p, s, t)
    BY <1>1, <1>t, TaskFields DEF TaskTo
  <2> HIDE DEF t
  <2> QED
    BY <1>a, <1>u, <1>1, <2>1, GraceTask
<1>2. ASSUME NEW ctx \in Surroundings, faults' = faults,
             SetTask(p, s, Evaluated(task[p][s], ctx, process[p].now, process[p].paused)),
             seenHealthy' = [seenHealthy EXCEPT ![s] =
                 IF Healthy(ctx) THEN process[p].now ELSE @]
      PROVE  SeenInv' /\ MarkInv'
  <2> DEFINE t == Evaluated(task[p][s], ctx, process[p].now, process[p].paused)
             steps == EvaluateSignal(task[p][s].snapshot, ctx, process[p].now,
                                     process[p].paused)
  <2>1. /\ t.at \in {"apply", "touch"} /\ t.context = ctx
        /\ t.snapshot = task[p][s].snapshot
    <3> HIDE DEF steps
    <3> QED
      BY <1>t DEF Evaluated, TaskType, steps
  <2>2. SetTask(p, s, t)
    BY <1>2
  <2> HIDE DEF t
  <2> DEFINE seen == IF Healthy(ctx) THEN process[p].now ELSE seenHealthy[s]
  <2>3. \A u \in Signals : seenHealthy'[u] = IF u = s THEN seen ELSE seenHealthy[u]
    BY <1>2, <1>f
  <2>4. seen \in Nat /\ seen <= clock /\ seen <= process[p].now
    BY <1>f, <1>a DEF SeenInv, InCycle
  <2>5. task'[p][s] = t
    BY <2>2, SetTaskAt DEF TypeOK
  <2>6. ~Healthy(ctx) => seen = seenHealthy[s]
    OBVIOUS
  <2> HIDE DEF seen
  <2>7. SeenInv'
    BY <1>u, <1>f, <2>3, <2>4 DEF SeenInv, InCycle, OneProcess
  <2>8. ASSUME process[p].at # "dead", faults' = 0
        PROVE  MarkersAreRight(p, s)'
    <3>1. MarkersAreRight(p, s)
      BY <1>2, <2>8 DEF MarkInv
    <3> QED
      BY <1>u, <1>a, <2>1, <2>3, <2>5, <2>6, <3>1 DEF MarkersAreRight, Marked, Sighted
  <2>9. MarkInv'
    BY <1>u, <1>2, <2>2, <2>3, <2>8, MarkTask
  <2> QED
    BY <2>7, <2>9
<1> QED
  BY <1>1, <1>2 DEF Evaluate

(* The marker is written.                                                  *)
LEMMA GraceTouch ==
  ASSUME TypeOK, PlaceInv, SeenInv, MarkInv, OneProcess,
         NEW p \in Processes, NEW s \in Signals, Touch(p, s)
  PROVE  SeenInv' /\ MarkInv'
<1>t. task[p][s] \in TaskType /\ row[s] \in RowType
  BY DEF TypeOK
<1>f. clock \in Nat /\ faults \in Nat
  BY DEF TypeOK
<1>a. task[p][s].at = "touch" /\ process[p].at = "monitor"
  BY DEF Touch, PlaceInv
<1>u. clock' = clock /\ process' = process /\ seenHealthy' = seenHealthy
      /\ ((UNCHANGED faults) \/ DatabaseFails)
  BY DEF Touch, history
<1> DEFINE t == [task[p][s] EXCEPT !.at = "release"]
           d == DegradedMarker(task[p][s], process[p].now)
           r == [row[s] EXCEPT !.degradedSince = d]
<1>1. t.at = "release" /\ SetTask(p, s, t)
  BY <1>t, TaskFields DEF TaskTo, Touch
<1>2. r.degradedSince = d
  BY <1>t, MarkerFields
<1>3. \/ SetRow(s, r) /\ UNCHANGED faults
      \/ row' = row /\ DatabaseFails
  BY DEF Touch
<1> HIDE DEF t, r
<1>4. task'[p][s] = t
  BY <1>1, SetTaskAt DEF TypeOK
<1>5. \A u \in Signals \ {s} : row'[u] = row[u]
  BY <1>3, SetRowAt DEF TypeOK
<1>6. SeenInv'
  BY <1>f, <1>u, SeenFrame DEF InCycle
<1>7. faults' = 0 => faults = 0 /\ SetRow(s, r)
  BY <1>f, <1>3 DEF DatabaseFails
<1>8. ASSUME process[p].at # "dead", faults' = 0
      PROVE  MarkersAreRight(p, s)'
  <2>1. MarkersAreRight(p, s)
    BY <1>7, <1>8 DEF MarkInv
  <2>2. row'[s] = r
    BY <1>7, <1>8, SetRowAt DEF TypeOK
  <2>3. Marked(s, d)
    BY <1>a, <2>1 DEF MarkersAreRight, Marked, Sighted, DegradedMarker, SeenInv, InCycle
  <2> QED
    BY <1>1, <1>2, <1>4, <1>u, <2>2, <2>3 DEF MarkersAreRight, Marked
<1>9. MarkInv'
  BY <1>u, <1>1, <1>5, <1>7, <1>8, MarkTask
<1> QED
  BY <1>6, <1>9

(* The other transactions of a task.                                       *)
LEMMA GraceMonitoring ==
  ASSUME TypeOK, PlaceInv, SeenInv, MarkInv, OneProcess,
         NEW p \in Processes, NEW s \in Signals,
         Claim(p, s) \/ ApplyRow(p, s) \/ InsertEvent(p, s) \/ Release(p, s)
  PROVE  SeenInv' /\ MarkInv'
<1>t. task[p][s] \in TaskType /\ row[s] \in RowType /\ IdleTask.at = "none"
  BY DEF TypeOK, IdleTask
<1>u. clock' = clock /\ process' = process /\ seenHealthy' = seenHealthy
      /\ ((UNCHANGED faults) \/ DatabaseFails)
  BY DEF Claim, ApplyRow, InsertEvent, Release, history
<1>1. CASE Claim(p, s) \/ Release(p, s)
  <2> DEFINE leased == [row[s] EXCEPT !.leaseOwner = p,
                                      !.leaseUntil = process[p].now + LeaseTime]
             free == [row[s] EXCEPT !.leaseOwner = None, !.leaseUntil = None]
             t == [task[p][s] EXCEPT !.at = "evaluate"]
  <2>1. /\ leased.degradedSince = row[s].degradedSince
        /\ free.degradedSince = row[s].degradedSince
        /\ t.at = "evaluate" /\ t.snapshot = task[p][s].snapshot
    BY <1>t, MarkerFields, TaskFields
  <2>2. row' = row \/ SetRow(s, leased) \/ SetRow(s, free) \/ SetRow(s, row[s])
    BY <1>1 DEF Claim, Release, Released
  <2>3. (SetTask(p, s, t) /\ task[p][s].at = "claim") \/ SetTask(p, s, IdleTask)
    BY <1>1 DEF Claim, Release, TaskTo, Finish
  <2>4. task[p][s].at \in {"claim", "release"}
    BY <1>1 DEF Claim, Release
  <2> HIDE DEF leased, free, t
  <2>5. PICK r : /\ row' = row \/ SetRow(s, r)
                 /\ r.degradedSince = row[s].degradedSince
    BY <2>1, <2>2
  <2> QED
    BY <1>t, <1>u, <2>1, <2>3, <2>4, <2>5, GraceTask
<1>2. CASE ApplyRow(p, s) \/ InsertEvent(p, s)
  <2> DEFINE moved == Transitioned(row[s], Head(task[p][s].steps).to,
                                   task[p][s].expected, process[p].now)
             rest == Tail(task[p][s].steps)
             place == IF rest = <<>> THEN "touch" ELSE "apply"
             stopped == [task[p][s] EXCEPT !.at = "touch", !.steps = <<>>]
             written == [task[p][s] EXCEPT !.at = "event"]
             next == [task[p][s] EXCEPT !.at = place, !.steps = rest, !.expected = @ + 1]
  <2>1. moved.degradedSince = row[s].degradedSince
    BY <1>t, MarkerFields
  <2>2. /\ stopped.at = "touch" /\ written.at = "event" /\ next.at = place
        /\ stopped.snapshot = task[p][s].snapshot /\ stopped.context = task[p][s].context
        /\ written.snapshot = task[p][s].snapshot /\ written.context = task[p][s].context
        /\ next.snapshot = task[p][s].snapshot /\ next.context = task[p][s].context
    <3> HIDE DEF rest, place
    <3> QED
      BY <1>t, TaskFields
  <2>3. row' = row \/ SetRow(s, moved)
    BY <1>2 DEF ApplyRow, InsertEvent
  <2>4. SetTask(p, s, stopped) \/ SetTask(p, s, written) \/ SetTask(p, s, next)
    BY <1>2 DEF ApplyRow, InsertEvent, TaskTo, StopApplying
  <2>5. task[p][s].at \in {"apply", "event"} /\ place \in {"touch", "apply"}
    BY <1>2 DEF ApplyRow, InsertEvent
  <2> HIDE DEF moved, stopped, written, next, place, rest
  <2>6. PICK t : /\ SetTask(p, s, t) /\ t.at \in {"apply", "event", "touch"}
                 /\ t.snapshot = task[p][s].snapshot /\ t.context = task[p][s].context
    BY <2>2, <2>4, <2>5
  <2> QED
    BY <1>u, <2>1, <2>3, <2>5, <2>6, GraceTask
<1> QED
  BY <1>1, <1>2

(* Every step keeps the markers right.                                     *)
LEMMA GraceNext ==
  ASSUME TypeOK, PlaceInv, LeaseInv, SeenInv, MarkInv, OneProcess, [Next]_vars
  PROVE  SeenInv' /\ MarkInv'
<1>1. CASE Tick \/ UNCHANGED vars
  <2>1. /\ clock \in Nat /\ clock' \in Nat /\ clock <= clock'
        /\ row' = row /\ task' = task /\ process' = process /\ faults' = faults
        /\ seenHealthy' = seenHealthy
    BY <1>1 DEF Tick, vars, history, TypeOK
  <2>2. SeenInv'
    BY <2>1, SeenFrame DEF InCycle
  <2>3. MarkInv'
    BY <2>1, MarkFrame
  <2> QED
    BY <2>2, <2>3
<1>2. ASSUME NEW p \in Processes, Admission(p) \/ LoadRows(p) \/ EndCycle(p) \/ Crash(p)
      PROVE  SeenInv' /\ MarkInv'
  BY <1>2, GraceAdmission, GraceInsert, GraceCycle DEF Admission
<1>3. ASSUME NEW p \in Processes, NEW s \in Signals, Monitoring(p, s)
      PROVE  SeenInv' /\ MarkInv'
  BY <1>3, GraceEvaluate, GraceTouch, GraceMonitoring DEF Monitoring
<1> QED
  BY <1>1, <1>2, <1>3 DEF Next, Work

(* Who proposes to end a signal for its data.                              *)
LEMMA DataFindings ==
  ASSUME NEW sig, NEW ctx, NEW now, NEW paused,
         NEW f \in Findings(sig, ctx, now, paused), f.to = "DATA_INVALID"
  PROVE  \/ f \in CheckDataQuality(sig, ctx, now)
         \/ ctx.plan \in {"LOST", "DATA_INVALID", "OTHER"}
         \/ ctx.candidate = "LOST"
<1> USE DEF Finding, If
<1>1. f \notin CheckSupersede(sig, ctx) /\ f \notin CheckExpiry(sig, ctx, now)
  BY DEF CheckSupersede, CheckExpiry
<1>2. f \notin CheckSession(sig, ctx)
  BY PolicyAssumption DEF CheckSession
<1>3. f \notin CheckInvalidation(sig, ctx) /\ f \notin CheckStructureExit(sig, ctx)
  BY DEF CheckInvalidation, CheckStructureExit
<1>4. f \notin CheckTargets(sig, ctx) /\ f \notin AutoProgress(sig)
  BY DEF CheckTargets, AutoProgress
<1>5. f \notin CheckEntry(sig, ctx, now, paused)
  BY DEF CheckEntry
<1>6. f \in CheckDataQuality(sig, ctx, now) \/ f \in CheckPlan(sig, ctx)
  BY <1>1, <1>2, <1>3, <1>4, <1>5 DEF Findings
<1> QED
  BY <1>6 DEF CheckPlan

(***************************************************************************)
(* A process that has the database to itself ends no signal for its data   *)
(* before the data was degraded for longer than the grace period, unless a *)
(* transaction failed (monitors/data_quality.py).                          *)
(***************************************************************************)
THEOREM GraceIsHonouredHolds ==
  ASSUME OneProcess
  PROVE  Spec => GraceIsHonoured
<1> DEFINE Honoured == \A p \in Processes, s \in Signals :
        faults = 0 /\ Decides(p, s) /\ Decision(p, s) = "DATA_INVALID" =>
            LET ctx == task'[p][s].context
            IN  \/ ctx.plan \in {"LOST", "DATA_INVALID", "OTHER"}
                \/ ctx.candidate = "LOST"
                \/ process[p].now - seenHealthy[s] > DegradedGrace
<1>1. TypeOK /\ PlaceInv /\ SeenInv /\ MarkInv /\ [Next]_vars => [Honoured]_vars
  <2> SUFFICES ASSUME TypeOK, PlaceInv, MarkInv, Next,
                      NEW p \in Processes, NEW s \in Signals, faults = 0,
                      Decides(p, s), Decision(p, s) = "DATA_INVALID",
                      NEW ctx, ctx = task'[p][s].context
               PROVE  \/ ctx.plan \in {"LOST", "DATA_INVALID", "OTHER"}
                      \/ ctx.candidate = "LOST"
                      \/ process[p].now - seenHealthy[s] > DegradedGrace
    OBVIOUS
  <2> DEFINE sig == task[p][s].snapshot
             legal == LegalFindings(sig, ctx, process[p].now, process[p].paused)
  <2>1. PICK f \in legal : f.to = "DATA_INVALID"
    BY DecisionWins
  <2>2. f \in Findings(sig, ctx, process[p].now, process[p].paused)
    BY DEF LegalFindings
  <2>3. \/ f \in CheckDataQuality(sig, ctx, process[p].now)
        \/ ctx.plan \in {"LOST", "DATA_INVALID", "OTHER"}
        \/ ctx.candidate = "LOST"
    BY <2>1, <2>2, DataFindings
  <2>4. task[p][s].at = "evaluate" /\ process[p].at = "monitor"
    BY DEF Decides, PlaceInv
  <2>5. Marked(s, sig.degradedSince)
    BY <2>4 DEF MarkInv, MarkersAreRight, Sighted
  <2>6. /\ process[p].now \in Nat /\ seenHealthy[s] \in Nat
        /\ sig.degradedSince \in Nat \cup {None} /\ DegradedGrace \in Nat
    BY PolicyAssumption DEF TypeOK, ProcessType, TaskType, SnapshotType
  <2> HIDE DEF sig
  <2>7. CASE f \in CheckDataQuality(sig, ctx, process[p].now)
    BY <2>5, <2>6, <2>7, NoneAssumption DEF CheckDataQuality, If, Marked
  <2> QED
    BY <2>3, <2>7
<1>2. TypeOK /\ PlaceInv /\ LeaseInv /\ SeenInv /\ MarkInv /\ [Next]_vars => SeenInv' /\ MarkInv'
  BY GraceNext
<1>3. TypeOK /\ PlaceInv /\ LeaseInv /\ [Next]_vars /\ TypeOK' => LeaseInv'
  BY LeaseNext, LeaseStutters
<1>4. Spec => [][Honoured]_vars
  BY <1>1, <1>2, <1>3, GraceInit, LeaseInit, TypeCorrect, PTL DEF Spec
<1> QED
  BY <1>4 DEF GraceIsHonoured

-----------------------------------------------------------------------------
(***************************************************************************)
(* The audit trail: what an event says is true, and an event is missing    *)
(* only after a failure.                                                   *)
(***************************************************************************)

(* Who is about to write events: a creation chain, or one transition.      *)
AtChain(p, s) == process[p].at = "chain" /\ process[p].signal = s

AtEvent(p, s) == task[p][s].at = "event"

ChainKept(p, s) == AtChain(p, s)' <=> AtChain(p, s)

EventKept(p, s) ==
    /\ AtEvent(p, s)' <=> AtEvent(p, s)
    /\ AtEvent(p, s) => /\ task'[p][s].steps = task[p][s].steps
                        /\ task'[p][s].expected = task[p][s].expected

WritersKept ==
    \A q \in Processes, u \in Signals : ChainKept(q, u) /\ EventKept(q, u)

OtherWritersKept(p, s) ==
    \A q \in Processes, u \in Signals :
        q # p \/ u # s => ChainKept(q, u) /\ EventKept(q, u)

(* Nothing about the audit trail happens.                                  *)
QuietStep == events' = events /\ trail' = trail /\ WritersKept

(* Something fails: a writer may give up.                                  *)
FailureStep ==
    /\ crashes' + faults' # 0
    /\ events' = events /\ trail' = trail
    /\ \A q \in Processes, u \in Signals :
           /\ AtChain(q, u)' => AtChain(q, u)
           /\ AtEvent(q, u)' => AtEvent(q, u) /\ EventKept(q, u)

CreateStep(p, s) ==
    /\ ~Exists(s)
    /\ trail' = [trail EXCEPT ![s] = CreationTrail]
    /\ events' = events
    /\ AtChain(p, s)' /\ EventKept(p, s)
    /\ OtherWritersKept(p, s)

ChainStep(p, s) ==
    /\ AtChain(p, s) /\ ~AtChain(p, s)' /\ EventKept(p, s)
    /\ trail' = trail
    /\ events' = [events EXCEPT ![s] = @ \cup CreationChain]
    /\ OtherWritersKept(p, s)

MoveStep(p, s) ==
    /\ ~AtEvent(p, s) /\ AtEvent(p, s)' /\ ChainKept(p, s)
    /\ Exists(s) /\ row[s].version = task[p][s].expected
    /\ task'[p][s].steps = task[p][s].steps
    /\ task'[p][s].expected = task[p][s].expected
    /\ trail' = [trail EXCEPT ![s] = Append(@, Head(task[p][s].steps).to)]
    /\ events' = events
    /\ OtherWritersKept(p, s)

EventStep(p, s) ==
    /\ AtEvent(p, s) /\ ~AtEvent(p, s)' /\ ChainKept(p, s)
    /\ trail' = trail
    /\ events' = [events EXCEPT ![s] =
            @ \cup {Event(task[p][s].expected + 1, Head(task[p][s].steps).to)}]
    /\ OtherWritersKept(p, s)

AuditStep ==
    \/ QuietStep
    \/ FailureStep
    \/ \E p \in Processes, s \in Signals :
           \/ CreateStep(p, s) \/ ChainStep(p, s)
           \/ MoveStep(p, s) \/ EventStep(p, s)

(* A failed transaction makes the failures countable.                      *)
LEMMA FailureCounts ==
  ASSUME TypeOK, DatabaseFails, crashes' = crashes
  PROVE  crashes' + faults' # 0
<1>1. crashes \in Nat /\ faults \in Nat /\ faults' = faults + 1
  BY DEF TypeOK, DatabaseFails
<1> QED
  BY <1>1

(* A cycle that moves on keeps the writers when it neither was nor is one. *)
LEMMA ProcessMoves ==
  ASSUME TypeOK, NEW p \in Processes, NEW c, SetProcess(p, c),
         process[p].at # "chain", c.at # "chain", task' = task
  PROVE  WritersKept
<1>1. \A q \in Processes : process'[q] = IF q = p THEN c ELSE process[q]
  BY SetProcessAt DEF TypeOK
<1> QED
  BY <1>1 DEF WritersKept, ChainKept, EventKept, AtChain, AtEvent

(* So does a task.                                                         *)
LEMMA TaskMoves ==
  ASSUME TypeOK, NEW p \in Processes, NEW s \in Signals, NEW t, SetTask(p, s, t),
         task[p][s].at # "event", t.at # "event", process' = process
  PROVE  WritersKept
<1>1. \A q \in Processes, u \in Signals :
          task'[q][u] = IF q = p /\ u = s THEN t ELSE task[q][u]
  BY SetTaskAt DEF TypeOK
<1> QED
  BY <1>1 DEF WritersKept, ChainKept, EventKept, AtChain, AtEvent

(* The place a task is sent to is the place it is at.                      *)
LEMMA TaskPlaced ==
  ASSUME TypeOK, NEW p \in Processes, NEW s \in Signals
  PROVE  /\ \A place : [task[p][s] EXCEPT !.at = place].at = place
         /\ \A place : [task[p][s] EXCEPT !.at = place].steps = task[p][s].steps
         /\ \A place : [task[p][s] EXCEPT !.at = place].expected = task[p][s].expected
         /\ [task[p][s] EXCEPT !.at = "touch", !.steps = <<>>].at = "touch"
         /\ \A place, steps, e :
               [task[p][s] EXCEPT !.at = place, !.steps = steps, !.expected = e].at = place
         /\ IdleTask.at = "none"
<1>1. task[p][s] \in TaskType
  BY DEF TypeOK
<1>2. IdleTask.at = "none"
  BY DEF IdleTask
<1> QED
  BY <1>1, <1>2 DEF TaskType

(* The same for a cycle.                                                   *)
LEMMA ProcessPlaced ==
  ASSUME TypeOK, NEW p \in Processes
  PROVE  /\ \A place : [process[p] EXCEPT !.at = place].at = place
         /\ [process[p] EXCEPT !.at = "admit", !.plan = None, !.signal = None].at = "admit"
         /\ \A todo : [process[p] EXCEPT !.todo = todo].at = process[p].at
         /\ \A place, plan, todo :
               [process[p] EXCEPT !.at = place, !.plan = plan, !.todo = todo].at = place
         /\ \A place, s :
               /\ [process[p] EXCEPT !.at = place, !.signal = s].at = place
               /\ [process[p] EXCEPT !.at = place, !.signal = s].signal = s
         /\ \A place : [IdleProcess EXCEPT !.at = place].at = place
         /\ \A paused, todo : Cycle(paused, todo).at = "admit"
         /\ IdleProcess.at = "idle"
<1>1. process[p] \in ProcessType
  BY DEF TypeOK
<1> QED
  BY <1>1 DEF ProcessType, IdleProcess, Cycle

(* Every step is one of the audit steps.                                   *)
LEMMA EveryStepAudits ==
  ASSUME TypeOK, PlaceInv, Next
  PROVE  AuditStep
<1>1. CASE Tick
  BY <1>1 DEF Tick, history, AuditStep, QuietStep, WritersKept, ChainKept,
              EventKept, AtChain, AtEvent
<1>2. ASSUME NEW p \in Processes, StartCycle(p) \/ SkipPlan(p) \/ AdmitPlan(p)
      PROVE  AuditStep
  <2>1. /\ process[p].at # "chain"
        /\ task' = task /\ events' = events /\ trail' = trail
    BY <1>2 DEF StartCycle, SkipPlan, AdmitPlan, history
  <2>2. \E c : SetProcess(p, c) /\ c.at # "chain"
    <3>1. CASE StartCycle(p)
      <4>1. \E paused, todo : SetProcess(p, Cycle(paused, todo))
        BY <3>1, Zenon DEF StartCycle
      <4> QED
        BY <4>1, ProcessPlaced
    <3>2. CASE SkipPlan(p)
      <4>1. PICK plan : SetProcess(p, [process[p] EXCEPT !.todo = @ \ {plan}])
        BY <3>2, Zenon DEF SkipPlan
      <4> DEFINE c == [process[p] EXCEPT !.todo = @ \ {plan}]
      <4>2. c.at = process[p].at
        BY ProcessPlaced
      <4>3. SetProcess(p, c)
        BY <4>1
      <4> HIDE DEF c
      <4> QED
        BY <2>1, <4>2, <4>3
    <3>3. CASE AdmitPlan(p)
      <4>1. PICK plan : SetProcess(p, [process[p] EXCEPT !.at = "insert", !.plan = plan,
                                                         !.todo = @ \ {plan}])
        BY <3>3, Zenon DEF AdmitPlan
      <4> DEFINE c == [process[p] EXCEPT !.at = "insert", !.plan = plan,
                                         !.todo = @ \ {plan}]
      <4>2. c.at = "insert"
        BY ProcessPlaced
      <4>3. SetProcess(p, c)
        BY <4>1
      <4> HIDE DEF c
      <4> QED
        BY <4>2, <4>3
    <3> QED
      BY <1>2, <3>1, <3>2, <3>3
  <2> QED
    BY <2>1, <2>2, ProcessMoves DEF AuditStep, QuietStep
<1>3. ASSUME NEW p \in Processes, InsertRow(p)
      PROVE  AuditStep
  <2>1. process[p].at = "insert" /\ task' = task /\ events' = events
    BY <1>3 DEF InsertRow
  <2>2. CASE trail' = trail /\ NextPlan(p)
    <3> DEFINE c == [process[p] EXCEPT !.at = "admit", !.plan = None, !.signal = None]
    <3>1. c.at = "admit"
      BY ProcessPlaced
    <3>2. SetProcess(p, c)
      BY <2>2 DEF NextPlan
    <3> HIDE DEF c
    <3> QED
      BY <2>1, <2>2, <3>1, <3>2, ProcessMoves DEF AuditStep, QuietStep
  <2>3. ASSUME NEW s \in Signals, ~Exists(s),
               trail' = [trail EXCEPT ![s] = CreationTrail],
               SetProcess(p, [process[p] EXCEPT !.at = "chain", !.signal = s])
        PROVE  AuditStep
    <3> DEFINE c == [process[p] EXCEPT !.at = "chain", !.signal = s]
    <3>1. c.at = "chain" /\ c.signal = s
      BY ProcessPlaced
    <3>2. \A q \in Processes : process'[q] = IF q = p THEN c ELSE process[q]
      BY <2>3, SetProcessAt DEF TypeOK
    <3> HIDE DEF c
    <3>3. CreateStep(p, s)
      BY <2>1, <2>3, <3>1, <3>2 DEF CreateStep, OtherWritersKept, ChainKept,
                                    EventKept, AtChain, AtEvent
    <3> QED
      BY <3>3 DEF AuditStep
  <2> QED
    BY <1>3, <2>2, <2>3 DEF InsertRow, history
<1>4. ASSUME NEW p \in Processes, InsertChain(p)
      PROVE  AuditStep
  <2> PICK s \in Signals : s = process[p].signal
    BY <1>4 DEF InsertChain, PlaceInv
  <2> DEFINE c == [process[p] EXCEPT !.at = "admit", !.plan = None, !.signal = None]
  <2>1. /\ process[p].at = "chain"
        /\ task' = task /\ trail' = trail /\ crashes' = crashes
    BY <1>4 DEF InsertChain, history
  <2>2. c.at = "admit"
    BY ProcessPlaced
  <2>3. \A q \in Processes : process'[q] = IF q = p THEN c ELSE process[q]
    BY <1>4, SetProcessAt DEF InsertChain, NextPlan, TypeOK
  <2> HIDE DEF c
  <2>4. CASE events' = [events EXCEPT ![s] = @ \cup CreationChain]
    <3>1. ChainStep(p, s)
      BY <2>1, <2>2, <2>3, <2>4 DEF ChainStep, OtherWritersKept, ChainKept,
                                    EventKept, AtChain, AtEvent
    <3> QED
      BY <2>1, <3>1 DEF AuditStep
  <2>5. CASE events' = events /\ DatabaseFails
    <3>1. FailureStep
      BY <2>1, <2>2, <2>3, <2>5, FailureCounts
      DEF FailureStep, EventKept, AtChain, AtEvent
    <3> QED
      BY <3>1 DEF AuditStep
  <2> QED
    BY <1>4, <2>4, <2>5 DEF InsertChain
<1>5. ASSUME NEW p \in Processes, LoadRows(p) \/ EndCycle(p)
      PROVE  AuditStep
  <2>1. /\ process[p].at # "chain" /\ events' = events /\ trail' = trail
        /\ \A u \in Signals : task[p][u].at # "event"
    BY <1>5 DEF LoadRows, EndCycle, PlaceInv, history
  <2>2. \E c : SetProcess(p, c) /\ c.at # "chain"
    <3> DEFINE c == [process[p] EXCEPT !.at = "monitor"]
    <3>1. c.at = "monitor" /\ IdleProcess.at = "idle"
      BY ProcessPlaced
    <3>2. SetProcess(p, c) \/ SetProcess(p, IdleProcess)
      BY <1>5 DEF LoadRows, EndCycle, GoTo
    <3> HIDE DEF c
    <3> QED
      BY <3>1, <3>2
  <2>3. \E f : SetTasks(p, f) /\ \A u \in Signals : f[u].at # "event"
    <3>1. \A u \in Signals : AllIdle[u].at = "none"
      BY DEF AllIdle, IdleTask
    <3>2. \A u \in Signals : LoadedTask(row[u]).at = "claim" /\ IdleTask.at = "none"
      BY DEF LoadedTask, IdleTask
    <3> DEFINE f == [u \in Signals |->
                        IF u \in NonTerminal THEN LoadedTask(row[u]) ELSE IdleTask]
    <3>3. \A u \in Signals : f[u].at # "event"
      BY <3>2
    <3>4. SetTasks(p, f) \/ SetTasks(p, AllIdle)
      BY <1>5, Zenon DEF LoadRows, EndCycle
    <3> HIDE DEF f
    <3> QED
      BY <3>1, <3>3, <3>4
  <2>4. PICK c : SetProcess(p, c) /\ c.at # "chain"
    BY <2>2
  <2>5. PICK f : SetTasks(p, f) /\ \A u \in Signals : f[u].at # "event"
    BY <2>3
  <2>6. \A q \in Processes : process'[q] = IF q = p THEN c ELSE process[q]
    BY <2>4, SetProcessAt DEF TypeOK
  <2>7. \A q \in Processes, u \in Signals :
            task'[q][u] = IF q = p THEN f[u] ELSE task[q][u]
    BY <2>5, SetTasksAt DEF TypeOK
  <2>8. WritersKept
    BY <2>1, <2>4, <2>5, <2>6, <2>7
    DEF WritersKept, ChainKept, EventKept, AtChain, AtEvent
  <2> QED
    BY <2>1, <2>8 DEF AuditStep, QuietStep
<1>6. ASSUME NEW p \in Processes, NEW s \in Signals,
             Claim(p, s) \/ Touch(p, s) \/ Release(p, s)
      PROVE  AuditStep
  <2>1. /\ task[p][s].at # "event" /\ process' = process
        /\ events' = events /\ trail' = trail
    BY <1>6 DEF Claim, Touch, Release, history
  <2>2. \E t : SetTask(p, s, t) /\ t.at # "event"
    <3> DEFINE e == [task[p][s] EXCEPT !.at = "evaluate"]
               r == [task[p][s] EXCEPT !.at = "release"]
    <3>1. e.at = "evaluate" /\ r.at = "release" /\ IdleTask.at = "none"
      BY TaskPlaced
    <3>2. SetTask(p, s, e) \/ SetTask(p, s, r) \/ SetTask(p, s, IdleTask)
      BY <1>6 DEF Claim, Touch, Release, TaskTo, Finish
    <3> HIDE DEF e, r
    <3> QED
      BY <3>1, <3>2
  <2> QED
    BY <2>1, <2>2, TaskMoves DEF AuditStep, QuietStep
<1>7. ASSUME NEW p \in Processes, NEW s \in Signals, Evaluate(p, s)
      PROVE  AuditStep
  <2>1. /\ task[p][s].at # "event" /\ process' = process
        /\ events' = events /\ trail' = trail
    BY <1>7 DEF Evaluate
  <2>2. ASSUME NEW ctx
        PROVE  Evaluated(task[p][s], ctx, process[p].now, process[p].paused).at # "event"
    <3> DEFINE steps == EvaluateSignal(task[p][s].snapshot, ctx, process[p].now,
                                       process[p].paused)
    <3>1. task[p][s] \in TaskType
      BY DEF TypeOK
    <3>2. Evaluated(task[p][s], ctx, process[p].now, process[p].paused).at
              = IF steps = <<>> THEN "touch" ELSE "apply"
      <4> HIDE DEF steps
      <4> QED
        BY <3>1 DEF TaskType, Evaluated, steps
    <3> QED
      BY <3>2
  <2>3. \E t : SetTask(p, s, t) /\ t.at # "event"
    <3> DEFINE r == [task[p][s] EXCEPT !.at = "release"]
    <3>1. r.at = "release"
      BY TaskPlaced
    <3>2. SetTask(p, s, r) \/ \E ctx : SetTask(p, s, Evaluated(task[p][s], ctx,
                                                 process[p].now, process[p].paused))
      BY <1>7 DEF Evaluate, TaskTo
    <3> HIDE DEF r
    <3> QED
      BY <2>2, <3>1, <3>2
  <2> QED
    BY <2>1, <2>3, TaskMoves DEF AuditStep, QuietStep
<1>8. ASSUME NEW p \in Processes, NEW s \in Signals, ApplyRow(p, s)
      PROVE  AuditStep
  <2>1. task[p][s].at = "apply" /\ process' = process /\ events' = events
    BY <1>8 DEF ApplyRow
  <2>2. CASE trail' = trail /\ StopApplying(p, s)
    <3>1. \E t : SetTask(p, s, t) /\ t.at # "event"
      BY <2>2, TaskPlaced DEF StopApplying
    <3> QED
      BY <2>1, <2>2, <3>1, TaskMoves DEF AuditStep, QuietStep
  <2>3. CASE /\ LockHolds(row[s], Head(task[p][s].steps), task[p][s].expected)
             /\ trail' = [trail EXCEPT ![s] = Append(@, Head(task[p][s].steps).to)]
             /\ TaskTo(p, s, "event")
    <3> DEFINE t == [task[p][s] EXCEPT !.at = "event"]
    <3>1. t.at = "event" /\ t.steps = task[p][s].steps /\ t.expected = task[p][s].expected
      BY TaskPlaced
    <3>2. \A q \in Processes, u \in Signals :
              task'[q][u] = IF q = p /\ u = s THEN t ELSE task[q][u]
      BY <2>3, SetTaskAt DEF TaskTo, TypeOK
    <3> HIDE DEF t
    <3>3. Exists(s) /\ row[s].version = task[p][s].expected
      BY <2>1, <2>3 DEF LockHolds, PlaceInv
    <3>4. OtherWritersKept(p, s) /\ ChainKept(p, s)
      BY <2>1, <3>2 DEF OtherWritersKept, ChainKept, EventKept, AtChain, AtEvent
    <3>5. MoveStep(p, s)
      BY <2>1, <2>3, <3>1, <3>2, <3>3, <3>4 DEF MoveStep, AtEvent
    <3> QED
      BY <3>5 DEF AuditStep
  <2> QED
    BY <1>8, <2>2, <2>3 DEF ApplyRow, history
<1>9. ASSUME NEW p \in Processes, NEW s \in Signals, InsertEvent(p, s)
      PROVE  AuditStep
  <2>1. /\ task[p][s].at = "event" /\ process' = process
        /\ trail' = trail /\ crashes' = crashes
    BY <1>9 DEF InsertEvent, history
  <2>2. CASE events' = events /\ DatabaseFails /\ StopApplying(p, s)
    <3> DEFINE t == [task[p][s] EXCEPT !.at = "touch", !.steps = <<>>]
    <3>1. t.at = "touch"
      BY TaskPlaced
    <3>2. \A q \in Processes, u \in Signals :
              task'[q][u] = IF q = p /\ u = s THEN t ELSE task[q][u]
      BY <2>2, SetTaskAt DEF StopApplying, TypeOK
    <3> HIDE DEF t
    <3>3. FailureStep
      BY <2>1, <2>2, <3>1, <3>2, FailureCounts
      DEF FailureStep, EventKept, AtChain, AtEvent
    <3> QED
      BY <3>3 DEF AuditStep
  <2>3. ASSUME events' = [events EXCEPT ![s] =
                   @ \cup {Event(task[p][s].expected + 1, Head(task[p][s].steps).to)}],
               NEW t, SetTask(p, s, t), t.at # "event"
        PROVE  AuditStep
    <3>1. \A q \in Processes, u \in Signals :
              task'[q][u] = IF q = p /\ u = s THEN t ELSE task[q][u]
      BY <2>3, SetTaskAt DEF TypeOK
    <3>2. OtherWritersKept(p, s) /\ ChainKept(p, s)
      BY <2>1, <3>1 DEF OtherWritersKept, ChainKept, EventKept, AtChain, AtEvent
    <3>3. EventStep(p, s)
      BY <2>1, <2>3, <3>1, <3>2 DEF EventStep, AtEvent
    <3> QED
      BY <3>3 DEF AuditStep
  <2>4. CASE /\ events' = [events EXCEPT ![s] =
                   @ \cup {Event(task[p][s].expected + 1, Head(task[p][s].steps).to)}]
             /\ \E place \in {"touch", "apply"} : \E steps, e :
                   SetTask(p, s, [task[p][s] EXCEPT !.at = place, !.steps = steps,
                                                    !.expected = e])
    <3>0. PICK place \in {"touch", "apply"} :
             \E steps, e :
                SetTask(p, s, [task[p][s] EXCEPT !.at = place, !.steps = steps,
                                                 !.expected = e])
      BY <2>4
    <3>1. PICK steps, e :
             SetTask(p, s, [task[p][s] EXCEPT !.at = place, !.steps = steps,
                                              !.expected = e])
      BY <3>0
    <3> DEFINE t == [task[p][s] EXCEPT !.at = place, !.steps = steps, !.expected = e]
    <3>2. t.at = place
      BY TaskPlaced
    <3>3. SetTask(p, s, t)
      BY <3>1
    <3> HIDE DEF t
    <3>4. t.at # "event"
      BY <3>2
    <3> QED
      BY <2>3, <2>4, <3>3, <3>4
  <2>5. \/ events' = events /\ DatabaseFails /\ StopApplying(p, s)
        \/ /\ events' = [events EXCEPT ![s] =
                   @ \cup {Event(task[p][s].expected + 1, Head(task[p][s].steps).to)}]
           /\ SetTask(p, s,
                 [task[p][s] EXCEPT
                    !.at = IF Tail(task[p][s].steps) = <<>> THEN "touch" ELSE "apply",
                    !.steps = Tail(task[p][s].steps),
                    !.expected = @ + 1])
    BY <1>9 DEF InsertEvent
  <2> QED
    BY <2>2, <2>4, <2>5
<1>10. ASSUME NEW p \in Processes, Crash(p)
       PROVE  AuditStep
  <2> DEFINE c == [IdleProcess EXCEPT !.at = "dead"]
  <2>1. events' = events /\ trail' = trail
    BY <1>10 DEF Crash, history
  <2>2. crashes' + faults' # 0
    BY <1>10 DEF Crash, TypeOK
  <2>3. c.at = "dead"
    BY ProcessPlaced
  <2>4. \A q \in Processes : process'[q] = IF q = p THEN c ELSE process[q]
    BY <1>10, SetProcessAt DEF Crash, TypeOK
  <2>5. \A q \in Processes, u \in Signals :
            task'[q][u] = IF q = p THEN AllIdle[u] ELSE task[q][u]
    BY <1>10, SetTasksAt DEF Crash, TypeOK
  <2>6. \A u \in Signals : AllIdle[u].at = "none"
    BY DEF AllIdle, IdleTask
  <2> HIDE DEF c
  <2>7. FailureStep
    BY <2>1, <2>2, <2>3, <2>4, <2>5, <2>6 DEF FailureStep, EventKept, AtChain, AtEvent
  <2> QED
    BY <2>7 DEF AuditStep
<1> QED
  BY <1>1, <1>2, <1>3, <1>4, <1>5, <1>6, <1>7, <1>8, <1>9, <1>10
  DEF Next, Work, Admission, Monitoring

-----------------------------------------------------------------------------
(* What an event says is true.                                             *)

(***************************************************************************)
(* Strengthening of AuditTrailIsSound: what a writer is about to record is *)
(* already on the trail, under the number it is going to use.              *)
(***************************************************************************)
WritersAreRight ==
    /\ \A p \in Processes, s \in Signals :
           AtChain(p, s) =>
               /\ Len(trail[s]) >= 3
               /\ \A v \in 0 .. 2 : trail[s][v + 1] = CreationTrail[v + 1]
    /\ \A p \in Processes, s \in Signals :
           AtEvent(p, s) =>
               /\ task[p][s].expected + 2 <= Len(trail[s])
               /\ trail[s][task[p][s].expected + 2] = Head(task[p][s].steps).to

EventsInv == AuditTrailIsSound /\ WritersAreRight

(* What is on a trail stays there.                                         *)
TrailGrows ==
    \A s \in Signals :
        /\ Len(trail'[s]) >= Len(trail[s])
        /\ \A i \in 1 .. Len(trail[s]) : trail'[s][i] = trail[s][i]

(* Only a creation and a move touch a trail, and both only extend it.      *)
LEMMA TrailsGrow ==
  ASSUME TypeOK, SlotInv, AuditStep
  PROVE  TrailGrows
<1>t. trail \in [Signals -> Seq(SignalState)]
  BY DEF TypeOK
<1>1. CASE trail' = trail
  BY <1>t, <1>1 DEF TrailGrows
<1>2. ASSUME NEW p \in Processes, NEW s \in Signals, CreateStep(p, s)
      PROVE  TrailGrows
  <2>1. trail[s] = <<>>
    BY <1>2 DEF CreateStep, SlotInv
  <2>2. \A u \in Signals : trail'[u] = IF u = s THEN CreationTrail ELSE trail[u]
    BY <1>2, <1>t DEF CreateStep
  <2>3. Len(CreationTrail) = 3
    BY DEF CreationTrail
  <2> QED
    BY <1>t, <2>1, <2>2, <2>3 DEF TrailGrows
<1>3. ASSUME NEW p \in Processes, NEW s \in Signals, MoveStep(p, s)
      PROVE  TrailGrows
  <2> DEFINE to == Head(task[p][s].steps).to
  <2>1. \A u \in Signals : trail'[u] = IF u = s THEN Append(trail[s], to) ELSE trail[u]
    BY <1>3, <1>t DEF MoveStep
  <2> HIDE DEF to
  <2>2. trail[s] \in Seq(SignalState)
    BY <1>t
  <2>3. /\ Len(Append(trail[s], to)) = Len(trail[s]) + 1
        /\ \A i \in 1 .. Len(trail[s]) : Append(trail[s], to)[i] = trail[s][i]
    BY <2>2
  <2>4. \A u \in Signals : Len(trail[u]) \in Nat
    BY <1>t
  <2>5. ASSUME NEW u \in Signals
        PROVE  /\ Len(trail'[u]) >= Len(trail[u])
               /\ \A i \in 1 .. Len(trail[u]) : trail'[u][i] = trail[u][i]
    <3>1. CASE u = s
      <4>1. trail'[s] = Append(trail[s], to)
        BY <2>1
      <4>2. Len(trail'[s]) >= Len(trail[s])
        BY <2>3, <2>4, <4>1
      <4>3. \A i \in 1 .. Len(trail[s]) : trail'[s][i] = trail[s][i]
        BY <2>3, <4>1
      <4> QED
        BY <3>1, <4>2, <4>3
    <3>2. CASE u # s
      BY <2>1, <2>4, <3>2
    <3> QED
      BY <3>1, <3>2
  <2> QED
    BY <2>5 DEF TrailGrows
<1> QED
  BY <1>1, <1>2, <1>3
  DEF AuditStep, QuietStep, FailureStep, ChainStep, EventStep

(* Every step keeps events and writers right.                              *)
LEMMA EventsNext ==
  ASSUME TypeOK, SlotInv, EventsInv, AuditStep
  PROVE  EventsInv'
<1> DEFINE Sound(s, e) == e.version < Len(trail[s]) /\ trail[s][e.version + 1] = e.to
           ChainRight(s) == /\ Len(trail[s]) >= 3
                            /\ \A v \in 0 .. 2 : trail[s][v + 1] = CreationTrail[v + 1]
           EventRight(p, s) ==
               /\ task[p][s].expected + 2 <= Len(trail[s])
               /\ trail[s][task[p][s].expected + 2] = Head(task[p][s].steps).to
<1>t. trail \in [Signals -> Seq(SignalState)] /\ events \in [Signals -> SUBSET EventType]
  BY DEF TypeOK
<1>e. \A p \in Processes, s \in Signals : task[p][s].expected \in Nat
  BY DEF TypeOK, TaskType
<1>g. TrailGrows
  BY TrailsGrow
<1>l. \A s \in Signals : Len(trail[s]) \in Nat /\ Len(trail'[s]) \in Int
  <2>1. \A s \in Signals : Len(trail[s]) \in Nat
    BY <1>t
  <2>2. CASE trail' = trail
    BY <2>1, <2>2
  <2>3. ASSUME NEW p \in Processes, NEW s \in Signals, CreateStep(p, s),
               NEW u \in Signals
        PROVE  Len(trail'[u]) \in Int
    <3>1. trail'[u] = IF u = s THEN CreationTrail ELSE trail[u]
      BY <2>3, <1>t DEF CreateStep
    <3>2. Len(CreationTrail) = 3
      BY DEF CreationTrail
    <3> QED
      BY <2>1, <3>1, <3>2
  <2>4. ASSUME NEW p \in Processes, NEW s \in Signals, MoveStep(p, s),
               NEW u \in Signals
        PROVE  Len(trail'[u]) \in Int
    <3> DEFINE to == Head(task[p][s].steps).to
    <3>1. trail'[u] = IF u = s THEN Append(trail[s], to) ELSE trail[u]
      BY <2>4, <1>t DEF MoveStep
    <3> HIDE DEF to
    <3>2. trail[s] \in Seq(SignalState)
      BY <1>t
    <3>3. Len(Append(trail[s], to)) = Len(trail[s]) + 1
      BY <3>2
    <3> QED
      BY <2>1, <3>1, <3>3
  <2> QED
    BY <2>1, <2>2, <2>3, <2>4
    DEF AuditStep, QuietStep, FailureStep, ChainStep, EventStep
<1>a. \A s \in Signals, e \in EventType : Sound(s, e) => Sound(s, e)'
  BY <1>g, <1>l DEF TrailGrows, EventType
<1>b. \A s \in Signals : ChainRight(s) => ChainRight(s)'
  BY <1>g, <1>l DEF TrailGrows
<1>c. \A p \in Processes, s \in Signals :
          EventRight(p, s) /\ AtEvent(p, s) /\ EventKept(p, s) => EventRight(p, s)'
  <2> SUFFICES ASSUME NEW p \in Processes, NEW s \in Signals, EventRight(p, s),
                      AtEvent(p, s), EventKept(p, s)
               PROVE  EventRight(p, s)'
    OBVIOUS
  <2>1. /\ task'[p][s].steps = task[p][s].steps
        /\ task'[p][s].expected = task[p][s].expected
    BY DEF EventKept
  <2>2. task[p][s].expected + 2 \in 1 .. Len(trail[s])
    BY <1>e, <1>l
  <2>3. trail'[s][task[p][s].expected + 2] = trail[s][task[p][s].expected + 2]
    BY <1>g, <2>2 DEF TrailGrows
  <2>4. task[p][s].expected + 2 <= Len(trail'[s])
    BY <1>e, <1>g, <1>l, <2>2 DEF TrailGrows
  <2> QED
    BY <2>1, <2>3, <2>4
<1>i. /\ \A s \in Signals : \A e \in events[s] : Sound(s, e)
      /\ \A p \in Processes, s \in Signals : AtChain(p, s) => ChainRight(s)
      /\ \A p \in Processes, s \in Signals : AtEvent(p, s) => EventRight(p, s)
  BY DEF EventsInv, AuditTrailIsSound, WritersAreRight
<1>o. /\ \A s \in Signals : \A e \in events[s] : Sound(s, e)'
      /\ \A p \in Processes, s \in Signals :
             AtChain(p, s) => ChainRight(s)'
      /\ \A p \in Processes, s \in Signals :
             AtEvent(p, s) /\ EventKept(p, s) => EventRight(p, s)'
  BY <1>t, <1>a, <1>b, <1>c, <1>i
<1> HIDE DEF Sound, ChainRight, EventRight
<1> SUFFICES /\ \A s \in Signals : \A e \in events'[s] : Sound(s, e)'
             /\ \A p \in Processes, s \in Signals : AtChain(p, s)' => ChainRight(s)'
             /\ \A p \in Processes, s \in Signals : AtEvent(p, s)' => EventRight(p, s)'
  BY DEF EventsInv, AuditTrailIsSound, WritersAreRight, Sound, ChainRight, EventRight
<1>1. CASE QuietStep \/ FailureStep
  BY <1>1, <1>o DEF QuietStep, FailureStep, WritersKept, ChainKept, EventKept
<1>2. ASSUME NEW p \in Processes, NEW s \in Signals, CreateStep(p, s)
      PROVE  /\ \A u \in Signals : \A e \in events'[u] : Sound(u, e)'
             /\ \A q \in Processes, u \in Signals : AtChain(q, u)' => ChainRight(u)'
             /\ \A q \in Processes, u \in Signals : AtEvent(q, u)' => EventRight(q, u)'
  <2>1. trail'[s] = CreationTrail /\ Len(CreationTrail) = 3
    BY <1>2, <1>t DEF CreateStep, CreationTrail
  <2>2. ChainRight(s)'
    BY <2>1 DEF ChainRight
  <2> QED
    BY <1>2, <1>o, <2>2 DEF CreateStep, OtherWritersKept, ChainKept, EventKept
<1>3. ASSUME NEW p \in Processes, NEW s \in Signals, ChainStep(p, s)
      PROVE  /\ \A u \in Signals : \A e \in events'[u] : Sound(u, e)'
             /\ \A q \in Processes, u \in Signals : AtChain(q, u)' => ChainRight(u)'
             /\ \A q \in Processes, u \in Signals : AtEvent(q, u)' => EventRight(q, u)'
  <2>1. \A e \in CreationChain : Sound(s, e)'
    <3>1. ChainRight(s)'
      BY <1>3, <1>o DEF ChainStep
    <3>2. \A e \in CreationChain : \E v \in 0 .. 2 :
              e.version = v /\ e.to = CreationTrail[v + 1]
      BY DEF CreationChain, Event
    <3> QED
      BY <1>l, <3>1, <3>2 DEF Sound, ChainRight
  <2>2. \A u \in Signals :
            events'[u] = IF u = s THEN events[s] \cup CreationChain ELSE events[u]
    BY <1>3, <1>t DEF ChainStep
  <2>3. \A u \in Signals : \A e \in events'[u] : Sound(u, e)'
    BY <1>o, <2>1, <2>2
  <2> QED
    BY <1>3, <1>o, <2>3 DEF ChainStep, OtherWritersKept, ChainKept, EventKept
<1>4. ASSUME NEW p \in Processes, NEW s \in Signals, MoveStep(p, s)
      PROVE  /\ \A u \in Signals : \A e \in events'[u] : Sound(u, e)'
             /\ \A q \in Processes, u \in Signals : AtChain(q, u)' => ChainRight(u)'
             /\ \A q \in Processes, u \in Signals : AtEvent(q, u)' => EventRight(q, u)'
  <2> DEFINE to == Head(task[p][s].steps).to
  <2>1. trail'[s] = Append(trail[s], to)
    BY <1>4, <1>t DEF MoveStep
  <2>2. Len(trail[s]) = task[p][s].expected + 1
    BY <1>4 DEF MoveStep, SlotInv
  <2>3. trail[s] \in Seq(SignalState) /\ task[p][s].expected \in Nat
    BY <1>t, <1>e
  <2>4. Len(trail'[s]) = task[p][s].expected + 2
    BY <2>1, <2>2, <2>3
  <2>5. trail'[s][task[p][s].expected + 2] = to
    BY <2>1, <2>2, <2>3
  <2>6. EventRight(p, s)'
    BY <1>4, <2>3, <2>4, <2>5 DEF EventRight, MoveStep
  <2> QED
    BY <1>4, <1>o, <2>6 DEF MoveStep, OtherWritersKept, ChainKept, EventKept
<1>5. ASSUME NEW p \in Processes, NEW s \in Signals, EventStep(p, s)
      PROVE  /\ \A u \in Signals : \A e \in events'[u] : Sound(u, e)'
             /\ \A q \in Processes, u \in Signals : AtChain(q, u)' => ChainRight(u)'
             /\ \A q \in Processes, u \in Signals : AtEvent(q, u)' => EventRight(q, u)'
  <2> PICK new : new = Event(task[p][s].expected + 1, Head(task[p][s].steps).to)
    OBVIOUS
  <2>1. EventRight(p, s) /\ trail' = trail /\ task[p][s].expected \in Nat
    BY <1>5, <1>e, <1>i DEF EventStep
  <2>2. Sound(s, new)'
    BY <1>l, <2>1 DEF EventRight, Sound, Event
  <2>3. \A u \in Signals :
            events'[u] = IF u = s THEN events[s] \cup {new} ELSE events[u]
    BY <1>5, <1>t DEF EventStep
  <2>4. \A u \in Signals : \A e \in events'[u] : Sound(u, e)'
    BY <1>o, <2>2, <2>3
  <2> QED
    BY <1>5, <1>o, <2>4 DEF EventStep, OtherWritersKept, ChainKept, EventKept
<1> QED
  BY <1>1, <1>2, <1>3, <1>4, <1>5 DEF AuditStep

(* No event, no writer.                                                    *)
LEMMA EventsInit == Init => EventsInv
  BY DEF Init, EventsInv, AuditTrailIsSound, WritersAreRight, AtChain, AtEvent,
         IdleProcess, IdleTask

(***************************************************************************)
(* Events are written after the row, by whoever gets to it, and never      *)
(* twice under different names: the number of an event is the number of a  *)
(* move the row made, in every instance, whatever crashed or failed.       *)
(***************************************************************************)
THEOREM AuditTrailIsSoundHolds == Spec => []AuditTrailIsSound
<1>1. TypeOK /\ PlaceInv /\ SlotInv /\ EventsInv /\ [Next]_vars => EventsInv'
  <2> SUFFICES ASSUME TypeOK, PlaceInv, SlotInv, EventsInv, [Next]_vars
               PROVE  EventsInv'
    OBVIOUS
  <2>1. CASE UNCHANGED vars
    BY <2>1 DEF vars, history, EventsInv, AuditTrailIsSound, WritersAreRight,
                AtChain, AtEvent
  <2> QED
    BY <2>1, EveryStepAudits, EventsNext
<1>2. EventsInv => AuditTrailIsSound
  BY DEF EventsInv
<1> QED
  BY <1>1, <1>2, EventsInit, TypeCorrect, SlotsCorrect, PTL DEF Spec

-----------------------------------------------------------------------------
(* Events go missing only through a failure.                               *)

(* Somebody is about to audit the move with number v.                      *)
Pending(s, v) ==
    \/ \E p \in Processes : AtEvent(p, s) /\ task[p][s].expected + 1 = v
    \/ v \in 0 .. 2 /\ \E p \in Processes : AtChain(p, s)

GapsInv ==
    crashes + faults = 0 =>
        \A s \in Signals : \A v \in Unaudited(s) : Pending(s, v)

(* An empty trail has no gap.                                              *)
LEMMA GapsInit == Init => GapsInv
  BY DEF Init, GapsInv, Unaudited

(* Failures are never forgotten.                                           *)
LEMMA FailuresGrow ==
  ASSUME TypeOK, Next, crashes' + faults' = 0
  PROVE  crashes + faults = 0
<1>1. crashes \in Nat /\ faults \in Nat
  BY DEF TypeOK
<1>2. \A p \in Processes :
          Admission(p) \/ LoadRows(p) \/ EndCycle(p) \/ Crash(p) =>
              UNCHANGED faults \/ DatabaseFails
  BY DEF Admission, StartCycle, SkipPlan, AdmitPlan, InsertRow, InsertChain,
         LoadRows, EndCycle, Crash
<1>3. \A p \in Processes, s \in Signals :
          Monitoring(p, s) => UNCHANGED faults \/ DatabaseFails
  BY DEF Monitoring, Claim, Evaluate, ApplyRow, InsertEvent, Touch, Release
<1>4. UNCHANGED faults \/ DatabaseFails
  BY <1>2, <1>3 DEF Next, Work, Tick
<1>5. faults' = faults \/ faults' = faults + 1
  BY <1>4 DEF DatabaseFails
<1>6. \A p \in Processes :
          Admission(p) \/ LoadRows(p) \/ EndCycle(p) => crashes' = crashes
  BY DEF Admission, StartCycle, SkipPlan, AdmitPlan, InsertRow, InsertChain,
         LoadRows, EndCycle
<1>7. \A p \in Processes, s \in Signals : Monitoring(p, s) => crashes' = crashes
  BY DEF Monitoring, Claim, Evaluate, ApplyRow, InsertEvent, Touch, Release
<1>8. crashes' = crashes \/ crashes' = crashes + 1
  BY <1>6, <1>7 DEF Next, Work, Tick, Crash
<1> QED
  BY <1>1, <1>5, <1>8

(* Without a failure a number leaves the pending ones only for an event.   *)
LEMMA GapsNext ==
  ASSUME TypeOK, SlotInv, GapsInv, AuditStep,
         crashes + faults = 0, crashes' + faults' = 0
  PROVE  GapsInv'
<1>t. /\ trail \in [Signals -> Seq(SignalState)]
      /\ events \in [Signals -> SUBSET EventType]
  BY DEF TypeOK
<1>i. \A s \in Signals : \A v \in Unaudited(s) : Pending(s, v)
  BY DEF GapsInv
<1> SUFFICES ASSUME NEW u \in Signals, NEW v \in Unaudited(u)'
             PROVE  Pending(u, v)'
  BY DEF GapsInv
<1>k. ASSUME v \in Unaudited(u),
             \A q \in Processes : ChainKept(q, u) /\ EventKept(q, u)
      PROVE  Pending(u, v)'
  BY <1>i, <1>k DEF Pending, ChainKept, EventKept
<1>s. trail'[u] = trail[u] /\ events'[u] = events[u] => v \in Unaudited(u)
  BY DEF Unaudited, Audited
<1>1. CASE QuietStep
  BY <1>1, <1>k, <1>s DEF QuietStep, WritersKept
<1>2. ASSUME NEW p \in Processes, NEW s \in Signals, CreateStep(p, s)
      PROVE  Pending(u, v)'
  <2>1. CASE u = s
    <3>1. Len(trail'[s]) = 3
      BY <1>2, <1>t DEF CreateStep, CreationTrail
    <3>2. v \in 0 .. 2
      BY <2>1, <3>1 DEF Unaudited
    <3> QED
      BY <1>2, <2>1, <3>2 DEF CreateStep, Pending
  <2>2. CASE u # s
    BY <1>2, <1>k, <1>s, <1>t, <2>2 DEF CreateStep, OtherWritersKept
  <2> QED
    BY <2>1, <2>2
<1>3. ASSUME NEW p \in Processes, NEW s \in Signals, ChainStep(p, s)
      PROVE  Pending(u, v)'
  <2>1. CASE u = s
    <3>1. events'[s] = events[s] \cup CreationChain
      BY <1>3, <1>t DEF ChainStep
    <3>2. v \in Unaudited(s)
      BY <1>3, <2>1, <3>1 DEF ChainStep, Unaudited, Audited
    <3>3. v \notin 0 .. 2
      <4>1. \A w \in 0 .. 2 : \E e \in CreationChain : e.version = w
        <5>1. \A w \in 0 .. 2 : Event(w, CreationTrail[w + 1]) \in CreationChain
          BY DEF CreationChain
        <5>2. \A w, to : Event(w, to).version = w
          BY DEF Event
        <5> QED
          BY <5>1, <5>2
      <4>2. 0 .. 2 \subseteq Audited(s)'
        BY <3>1, <4>1 DEF Audited
      <4> QED
        BY <2>1, <4>2 DEF Unaudited
    <3>4. PICK q \in Processes : AtEvent(q, s) /\ task[q][s].expected + 1 = v
      BY <1>i, <3>2, <3>3 DEF Pending
    <3>5. EventKept(q, s)
      BY <1>3 DEF ChainStep, OtherWritersKept
    <3> QED
      BY <2>1, <3>4, <3>5 DEF Pending, EventKept
  <2>2. CASE u # s
    BY <1>3, <1>k, <1>s, <1>t, <2>2 DEF ChainStep, OtherWritersKept
  <2> QED
    BY <2>1, <2>2
<1>4. ASSUME NEW p \in Processes, NEW s \in Signals, MoveStep(p, s)
      PROVE  Pending(u, v)'
  <2>1. CASE u = s
    <3> DEFINE to == Head(task[p][s].steps).to
    <3>1. trail'[s] = Append(trail[s], to)
      BY <1>4, <1>t DEF MoveStep
    <3>2. trail[s] \in Seq(SignalState) /\ Len(trail[s]) = task[p][s].expected + 1
      BY <1>4, <1>t DEF MoveStep, SlotInv
    <3>3. Len(trail'[s]) = Len(trail[s]) + 1 /\ Len(trail[s]) \in Nat
      BY <3>1, <3>2
    <3>4. AtEvent(p, s)' /\ task'[p][s].expected + 1 = Len(trail[s])
      BY <1>4, <3>2 DEF MoveStep
    <3>5. CASE v = Len(trail[s])
      BY <2>1, <3>4, <3>5 DEF Pending
    <3>6. CASE v # Len(trail[s])
      <4>1. v \in Unaudited(s)
        BY <1>4, <2>1, <3>3, <3>6 DEF MoveStep, Unaudited, Audited
      <4>2. CASE \E q \in Processes : AtEvent(q, s) /\ task[q][s].expected + 1 = v
        <5>1. PICK q \in Processes : AtEvent(q, s) /\ task[q][s].expected + 1 = v
          BY <4>2
        <5>2. q # p
          BY <1>4, <5>1 DEF MoveStep
        <5>3. EventKept(q, s)
          BY <1>4, <5>2 DEF MoveStep, OtherWritersKept
        <5> QED
          BY <2>1, <5>1, <5>3 DEF Pending, EventKept
      <4>3. CASE v \in 0 .. 2 /\ \E q \in Processes : AtChain(q, s)
        <5>1. \A q \in Processes : ChainKept(q, s)
          BY <1>4 DEF MoveStep, OtherWritersKept
        <5> QED
          BY <2>1, <4>3, <5>1 DEF Pending, ChainKept
      <4> QED
        BY <1>i, <4>1, <4>2, <4>3 DEF Pending
    <3> QED
      BY <3>5, <3>6
  <2>2. CASE u # s
    BY <1>4, <1>k, <1>s, <1>t, <2>2 DEF MoveStep, OtherWritersKept
  <2> QED
    BY <2>1, <2>2
<1>5. ASSUME NEW p \in Processes, NEW s \in Signals, EventStep(p, s)
      PROVE  Pending(u, v)'
  <2>1. CASE u = s
    <3> PICK new : new = Event(task[p][s].expected + 1, Head(task[p][s].steps).to)
      OBVIOUS
    <3>1. events'[s] = events[s] \cup {new}
      BY <1>5, <1>t DEF EventStep
    <3>2. v \in Unaudited(s)
      BY <1>5, <2>1, <3>1 DEF EventStep, Unaudited, Audited
    <3>3. v # task[p][s].expected + 1
      <4>1. task[p][s].expected + 1 \in Audited(s)'
        BY <3>1 DEF Audited, Event
      <4> QED
        BY <2>1, <4>1 DEF Unaudited
    <3>4. CASE \E q \in Processes : AtEvent(q, s) /\ task[q][s].expected + 1 = v
      <4>1. PICK q \in Processes : AtEvent(q, s) /\ task[q][s].expected + 1 = v
        BY <3>4
      <4>2. EventKept(q, s)
        BY <1>5, <3>3, <4>1 DEF EventStep, OtherWritersKept
      <4> QED
        BY <2>1, <4>1, <4>2 DEF Pending, EventKept
    <3>5. CASE v \in 0 .. 2 /\ \E q \in Processes : AtChain(q, s)
      <4>1. \A q \in Processes : ChainKept(q, s)
        BY <1>5 DEF EventStep, OtherWritersKept
      <4> QED
        BY <2>1, <3>5, <4>1 DEF Pending, ChainKept
    <3> QED
      BY <1>i, <3>2, <3>4, <3>5 DEF Pending
  <2>2. CASE u # s
    BY <1>5, <1>k, <1>s, <1>t, <2>2 DEF EventStep, OtherWritersKept
  <2> QED
    BY <2>1, <2>2
<1> QED
  BY <1>1, <1>2, <1>3, <1>4, <1>5 DEF AuditStep, FailureStep

(***************************************************************************)
(* While nothing crashed and no transaction failed, every move of a row is *)
(* audited or about to be: a gap in the trail is always the trace of a     *)
(* failure, never of an interleaving.                                      *)
(***************************************************************************)
THEOREM AuditGapsNeedAFailureHolds == Spec => []AuditGapsNeedAFailure
<1>1. TypeOK /\ PlaceInv /\ SlotInv /\ GapsInv /\ [Next]_vars => GapsInv'
  <2> SUFFICES ASSUME TypeOK, PlaceInv, SlotInv, GapsInv, [Next]_vars
               PROVE  GapsInv'
    OBVIOUS
  <2>1. CASE UNCHANGED vars
    BY <2>1 DEF vars, history, GapsInv, Unaudited, Audited, Pending, AtChain, AtEvent
  <2>2. CASE Next /\ crashes' + faults' = 0
    BY <2>2, EveryStepAudits, FailuresGrow, GapsNext
  <2>3. CASE crashes' + faults' # 0
    BY <2>3 DEF GapsInv
  <2> QED
    BY <2>1, <2>2, <2>3
<1>2. GapsInv => AuditGapsNeedAFailure
  BY DEF GapsInv, AuditGapsNeedAFailure, EveryTransitionIsAudited, InFlight,
         Pending, AtEvent, AtChain
<1> QED
  BY <1>1, <1>2, GapsInit, TypeCorrect, SlotsCorrect, PTL DEF Spec

=============================================================================
