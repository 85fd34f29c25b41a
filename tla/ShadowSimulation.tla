--------------------------- MODULE ShadowSimulation ----------------------------
(***************************************************************************)
(* The shadow simulation monitor (src/app/jobs/shadow_simulation_monitor.py)*)
(* with its bounded event queue and its tables.  Cycles read the recently  *)
(* changed lifecycles, queue them, and simulate a batch of them            *)
(* concurrently; every database call is a step of its own and may fail,    *)
(* and the process may restart, which begins a new run.                    *)
(***************************************************************************)
EXTENDS SimulationEngine, SequencesExt

CONSTANTS
    Signals,        \* lifecycles
    PlanOf,         \* signal -> its audited plan reference, or None
    Follows,        \* lifecycle state -> events that may be recorded in it
    Markets,        \* what the market data services may show for a leg
    QueueSize,      \* simulation_queue_size
    MaxConcurrent,  \* simulation_max_concurrent
    DedupeCycles,   \* cycles within simulation_dedupe_seconds
    ForeignKeys,    \* does the database enforce foreign keys
    MaxTasks,       \* bound: simulations in flight, with those left behind
    MaxTroubles     \* bound: failing database calls, restarts and pauses

ASSUME ShadowJobAssumption ==
    /\ IsFiniteSet(Signals)
    /\ \A n \in {QueueSize, MaxConcurrent, DedupeCycles} : n \in Nat \ {0}
    /\ MaxTasks \in Nat /\ MaxTasks >= MaxConcurrent
    /\ ForeignKeys \in BOOLEAN
    /\ MaxTroubles \in Nat
    /\ Markets \subseteq MarketReferenceSnapshot
    /\ \A s \in Signals : PlanOf[s] \in SimulationPlanReference \cup {None}

VARIABLES
    trail,      \* signal_events: the events of a lifecycle
    order,      \* the lifecycles by updated_at, newest first
    positions,  \* simulated_positions of this run: signal -> number of rows
    legs,       \* ... of which the executions are stored too
    audited,    \* ... of which the audit event is stored too
    queue,      \* memory: lifecycles to simulate, oldest first
    seen,       \* memory: cycles for which a lifecycle is not queued again
    fee,        \* memory: is a fee schedule known
    counted,    \* memory: simulations reported as created
    cycle,      \* the running cycle
    tasks,      \* the simulations in flight
    paused,     \* the bot state
    troubles    \* failures, restarts and pauses so far

tables == <<positions, legs, audited>>
lifecycles == <<trail, order>>
memory == <<queue, seen, fee, counted>>
vars == <<trail, order, positions, legs, audited, queue, seen, fee, counted,
          cycle, tasks, paused, troubles>>

Slots == 1 .. MaxTasks

Idle == [at |-> "idle", paused |-> FALSE]

NoTask == [at |-> "none", signal |-> None, own |-> FALSE, state |-> "NONE",
           fee |-> FALSE, duplicate |-> FALSE]

Nothing == [s \in Signals |-> 0]

Init ==
    /\ trail = [s \in Signals |-> <<>>]
    /\ order \in SetToSeqs(Signals)
    /\ positions = Nothing
    /\ legs = Nothing
    /\ audited = Nothing
    /\ queue = <<>>
    /\ seen = Nothing
    /\ fee = FALSE
    /\ counted = Nothing
    /\ cycle = Idle
    /\ tasks = [i \in Slots |-> NoTask]
    /\ paused = FALSE
    /\ troubles = 0

Trouble == troubles < MaxTroubles /\ troubles' = troubles + 1

DatabaseWorks == UNCHANGED troubles

DatabaseFails == Trouble

-----------------------------------------------------------------------------
(* Lifecycles, as the lifecycle job records them *)

Confirmed(s) == trail[s] # <<>> /\ Head(trail[s]) = "ENTRY_CONFIRMED"

State(s) == IF trail[s] = <<>> THEN "ENTRY_WATCH" ELSE Last(trail[s])

Terminal(s) == State(s) \in TerminalStates

Simulatable(s) == Confirmed(s) /\ State(s) \in SourceStates

Newest(s) == <<s>> \o SelectSeq(order, LAMBDA t : t # s)

(* A transition stamps the row and records an event, here in one step;     *)
(* which event follows which is the concern of the signal state machine.   *)
LifecycleAdvances(s) ==
    /\ \E event \in Follows[State(s)] : trail' = [trail EXCEPT ![s] = Append(@, event)]
    /\ order' = Newest(s)
    /\ UNCHANGED <<tables, memory, cycle, tasks, paused, troubles>>

Pause ==
    /\ ~paused
    /\ Trouble
    /\ paused' = TRUE
    /\ UNCHANGED <<lifecycles, tables, memory, cycle, tasks>>

Resume ==
    /\ paused
    /\ paused' = FALSE
    /\ UNCHANGED <<lifecycles, tables, memory, cycle, tasks, troubles>>

-----------------------------------------------------------------------------
(* The queue *)

(* offer: a queued lifecycle moves to the end, a full queue loses its      *)
(* oldest one.                                                             *)
Offer(q, s) ==
    IF s \in Range(q) THEN Append(SelectSeq(q, LAMBDA t : t # s), s)
    ELSE IF Len(q) >= QueueSize THEN Append(Tail(q), s)
    ELSE Append(q, s)

Recent == SubSeq(order, 1, Smaller(QueueSize, Len(order)))

InWindow(s) == s \in Range(Recent)

(* _enqueue_lifecycles: the recent ones that were not handled lately.      *)
Offered ==
    FoldLeft(Offer, queue,
             SelectSeq(Recent, LAMBDA s : Simulatable(s) /\ seen[s] = 0))

(* Mutant: a handled lifecycle is not remembered.                          *)
HandledForgetful(s) == seen

Handled(s) == [seen EXCEPT ![s] = DedupeCycles]

-----------------------------------------------------------------------------
(* The cycle *)

(* _cycle begins: the pause is read once, the dedupe windows age.          *)
BeginCycle ==
    /\ Shadow.modeEnabled
    /\ cycle.at = "idle"
    /\ cycle' = [at |-> "fee", paused |-> paused]
    /\ seen' = [s \in Signals |-> Larger(0, seen[s] - 1)]
    /\ UNCHANGED <<lifecycles, tables, queue, fee, counted, tasks, paused, troubles>>

(* _ensure_fee_schedule: when the read fails or finds no usable schedule,  *)
(* the last one is used.                                                   *)
EnsureFeeSchedule ==
    /\ cycle.at = "fee"
    /\ cycle' = [cycle EXCEPT !.at = "sweep"]
    /\ \/ DatabaseWorks /\ fee' = TRUE
       \/ DatabaseFails /\ fee' = fee
    /\ UNCHANGED <<lifecycles, tables, queue, seen, counted, tasks, paused>>

Free == {i \in Slots : tasks[i] = NoTask}

(* drain and gather: the oldest queued lifecycles get a task each.         *)
Launch(q) ==
    LET batch == SubSeq(q, 1, Smaller(MaxConcurrent, Len(q)))
        slots == SetToSortSeq(Free, LAMBDA a, b : a < b)
        place == [i \in {slots[k] : k \in DOMAIN batch} |->
                    CHOOSE k \in DOMAIN batch : slots[k] = i]
    IN  /\ Len(batch) <= Len(slots)
        /\ queue' = SubSeq(q, Len(batch) + 1, Len(q))
        /\ tasks' = [i \in Slots |->
            IF i \in DOMAIN place
            THEN [NoTask EXCEPT !.at = "row", !.signal = batch[place[i]],
                                !.own = TRUE, !.fee = fee]
            ELSE tasks[i]]

Sweep ==
    /\ cycle.at = "sweep"
    /\ \E q \in {queue, Offered} :
        /\ IF q = Offered THEN DatabaseWorks ELSE DatabaseFails
        /\ IF cycle.paused
           THEN /\ queue' = q
                /\ cycle' = Idle
                /\ UNCHANGED tasks
           ELSE /\ Launch(q)
                /\ cycle' = [cycle EXCEPT !.at = "work"]
    /\ UNCHANGED <<lifecycles, tables, seen, fee, counted, paused>>

EndCycle ==
    /\ cycle.at = "work"
    /\ \A i \in Slots : ~tasks[i].own
    /\ cycle' = Idle
    /\ UNCHANGED <<lifecycles, tables, memory, tasks, paused, troubles>>

-----------------------------------------------------------------------------
(* One simulation *)

Goto(i, place) == tasks' = [tasks EXCEPT ![i].at = place]

(* The inputs have done their duty; what is left is the outcome.            *)
Decided(i, place) ==
    tasks' = [tasks EXCEPT ![i] = [NoTask EXCEPT !.at = place, !.signal = tasks[i].signal,
                                                 !.own = tasks[i].own]]

Done(i) == tasks' = [tasks EXCEPT ![i] = NoTask]

(* _lifecycle_row and the duplicate check, two reads in a row.             *)
ReadRow(i) ==
    LET s == tasks[i].signal
    IN  /\ tasks[i].at = "row"
        /\ \/ /\ DatabaseWorks
              /\ tasks' = [tasks EXCEPT ![i].at = "build", ![i].state = State(s),
                                        ![i].duplicate = positions[s] > 0]
           \/ DatabaseFails /\ Done(i)
        /\ UNCHANGED <<lifecycles, tables, memory, cycle, paused>>

(* The inputs of a simulation.  The bot is not asked again whether it is   *)
(* paused, and the entry is modelled on the same market as the exit.       *)
Inputs(plan, exit, duplicate, schedule, market, funding) ==
    [paused |-> FALSE, state |-> "ENTRY_CONFIRMED", planAudit |-> TRUE,
     candidateAudit |-> TRUE, duplicate |-> duplicate,
     sessionAllowed |-> market.session, dataQuality |-> market.quality,
     fee |-> schedule, bullish |-> plan.bullish, reference |-> plan.reference,
     quantity |-> plan.quantity, risk |-> plan.risk, exit |-> exit,
     entryMarket |-> market, exitMarket |-> market,
     funding |-> IF funding THEN market.funding ELSE None]

Plans == {PlanOf[s] : s \in Signals} \ {None}

(* The result state of every simulation the job can run.                   *)
Outcome ==
    [plan \in Plans, exit \in ExitReasons \cup {NoExit}, duplicate \in BOOLEAN,
     schedule \in BOOLEAN, market \in Markets, funding \in BOOLEAN |->
        Simulate(Inputs(plan, exit, duplicate, schedule, market, funding)).state]

(* build_inputs and simulate: an outcome to store, a rejection to record,  *)
(* or nothing while the lifecycle runs on.  The exit comes from the audit  *)
(* trail as it is now, the fallback from the state that was read before; a *)
(* failure to read the events skips the lifecycle.                         *)
BuildInputs(i) ==
    LET s == tasks[i].signal
    IN  /\ tasks[i].at = "build"
        /\ \/ /\ DatabaseWorks
              /\ IF PlanOf[s] = None THEN Done(i)
                 ELSE \E market \in Markets, funding \in BOOLEAN :
                    LET result == Outcome[PlanOf[s], ExitOf(trail[s], tasks[i].state),
                                          tasks[i].duplicate, tasks[i].fee,
                                          market, funding]
                    IN  IF result = "REJECTED" THEN Decided(i, "reject")
                        ELSE IF result = "OPEN_SIMULATION" THEN Done(i)
                        ELSE Decided(i, "store")
           \/ DatabaseFails /\ Done(i)
        /\ UNCHANGED <<lifecycles, tables, memory, cycle, paused>>

(* The plan and candidate reads are not guarded: gather raises, the cycle  *)
(* ends at once, and its other tasks run on without it.                    *)
BuildRaises(i) ==
    /\ tasks[i].at = "build"
    /\ DatabaseFails
    /\ IF tasks[i].own
       THEN /\ cycle' = Idle
            /\ tasks' = [j \in Slots |-> IF j = i THEN NoTask
                                         ELSE [tasks[j] EXCEPT !.own = FALSE]]
       ELSE Done(i) /\ UNCHANGED cycle
    /\ UNCHANGED <<lifecycles, tables, memory, paused>>

(* The lifecycle counts as handled whether or not the rejection is stored. *)
RecordRejection(i) ==
    /\ tasks[i].at = "reject"
    /\ DatabaseWorks \/ DatabaseFails
    /\ seen' = Handled(tasks[i].signal)
    /\ Done(i)
    /\ UNCHANGED <<lifecycles, tables, queue, fee, counted, cycle, paused>>

(* Mutant: the dedupe key is not unique.                                   *)
AcceptedAgain(s) == ~ForeignKeys

(* A row is refused when its dedupe key exists, or when its run does not   *)
(* exist and the database checks foreign keys: the job stores no run.      *)
Accepted(s) == positions[s] = 0 /\ ~ForeignKeys

AddPosition(i) ==
    LET s == tasks[i].signal
    IN  /\ tasks[i].at = "store"
        /\ \/ /\ DatabaseWorks
              /\ IF Accepted(s)
                 THEN /\ positions' = [positions EXCEPT ![s] = @ + 1]
                      /\ Goto(i, "legs")
                      /\ UNCHANGED seen
                 ELSE /\ seen' = Handled(s)
                      /\ Done(i)
                      /\ UNCHANGED positions
           \/ DatabaseFails /\ Done(i) /\ UNCHANGED <<positions, seen>>
        /\ UNCHANGED <<lifecycles, legs, audited, queue, fee, counted, cycle,
                       paused>>

AddExecutions(i) ==
    LET s == tasks[i].signal
    IN  /\ tasks[i].at = "legs"
        /\ \/ /\ DatabaseWorks
              /\ legs' = [legs EXCEPT ![s] = @ + 1]
              /\ Goto(i, "event")
           \/ DatabaseFails /\ Done(i) /\ UNCHANGED legs
        /\ UNCHANGED <<lifecycles, positions, audited, memory, cycle, paused>>

(* Only a simulation that is stored with everything is reported.           *)
AddEvent(i) ==
    LET s == tasks[i].signal
    IN  /\ tasks[i].at = "event"
        /\ Done(i)
        /\ \/ /\ DatabaseWorks
              /\ audited' = [audited EXCEPT ![s] = @ + 1]
              /\ seen' = Handled(s)
              /\ counted' = [counted EXCEPT ![s] = @ + 1]
           \/ DatabaseFails /\ UNCHANGED <<audited, seen, counted>>
        /\ UNCHANGED <<lifecycles, positions, legs, queue, fee, cycle, paused>>

(* The process restarts: memory and tasks are gone, and the new run id     *)
(* finds none of the old rows.                                             *)
Restart ==
    /\ Trouble
    /\ queue' = <<>>
    /\ seen' = Nothing
    /\ fee' = FALSE
    /\ counted' = Nothing
    /\ positions' = Nothing
    /\ legs' = Nothing
    /\ audited' = Nothing
    /\ cycle' = Idle
    /\ tasks' = [i \in Slots |-> NoTask]
    /\ UNCHANGED <<lifecycles, paused>>

TaskStep(i) ==
    \/ ReadRow(i)
    \/ BuildInputs(i)
    \/ RecordRejection(i)
    \/ AddPosition(i)
    \/ AddExecutions(i)
    \/ AddEvent(i)

CycleStep == BeginCycle \/ EnsureFeeSchedule \/ Sweep \/ EndCycle

Next ==
    \/ \E s \in Signals : LifecycleAdvances(s)
    \/ Pause
    \/ Resume
    \/ CycleStep
    \/ \E i \in Slots : TaskStep(i) \/ BuildRaises(i)
    \/ Restart

Spec == Init /\ [][Next]_vars

(* Lifecycles end, the pause ends, and the loop and its tasks go on after  *)
(* every await.                                                            *)
FairSpec ==
    /\ Spec
    /\ \A s \in Signals : WF_vars(LifecycleAdvances(s))
    /\ WF_vars(Resume)
    /\ WF_vars(CycleStep)
    /\ \A i \in Slots : WF_vars(TaskStep(i))

-----------------------------------------------------------------------------
(* Within a run a lifecycle has at most one simulated position, its        *)
(* executions and its audit event only behind it, and a simulation is      *)
(* reported at most once and only when all three are stored                *)
(* (shadow_simulation_monitor.py, _simulate_lifecycle): also when tasks of *)
(* a cycle that raised run on next to the tasks of a later one.            *)
ReportedIsStored ==
    \A s \in Signals :
        /\ counted[s] <= audited[s]
        /\ audited[s] <= legs[s]
        /\ legs[s] <= positions[s]
        /\ positions[s] <= 1

(* A lifecycle that ended after a confirmed entry is eventually simulated  *)
(* or rejected while it is among the recent ones (_enqueue_lifecycles),    *)
(* although every sweep puts newer lifecycles, open ones among them, in    *)
(* front of it or behind it in the queue.                                  *)
FinishedIsHandled ==
    \A s \in {t \in Signals : PlanOf[t] # None} :
        (Terminal(s) /\ Confirmed(s) /\ InWindow(s))
            ~> (seen[s] > 0 \/ ~InWindow(s))

=============================================================================
