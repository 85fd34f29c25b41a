---------------------------- MODULE SignalLifecycle ----------------------------
(***************************************************************************)
(* The signal lifecycle monitor job and its repository                     *)
(* (src/app/jobs/signal_lifecycle_monitor.py,                              *)
(* src/app/repositories/signal_lifecycle_repository.py): several processes *)
(* admit plans and monitor the open signals of one database.               *)
(*                                                                         *)
(* A process runs cycles.  A cycle fixes its time and the global pause     *)
(* once, admits plans one after the other, then loads the open rows and    *)
(* runs one monitoring task per row; the tasks of a cycle interleave with  *)
(* each other and with other processes at every await.  Each action below  *)
(* is one database transaction, because that is where the code awaits.     *)
(* The row update of a transition and the insert of its audit event are    *)
(* two transactions, in the code and here.                                 *)
(*                                                                         *)
(* A process dies for good: a restarted one is another member of           *)
(* Processes, because it draws a new lease owner.                          *)
(***************************************************************************)
EXTENDS LifecycleEngine, FiniteSets

CONSTANTS
    Signals,        \* identities a signal can be given (UUIDs)
    Plans,          \* active risk plans
    Processes,      \* process incarnations (lease owners)
    Config,         \* process -> lifecycle configuration hash
    PlanExpiry,     \* plan -> time at which its window ends
    Instrument,     \* plan -> the instrument it is about
    MaxActive,      \* open signals an instrument may have
    Surroundings,   \* contexts a monitor may find (a subset of Context)
    LeaseTime,      \* lifetime of a lease
    MaxClock,       \* bound: the clock stops here
    MaxCrashes,     \* bound: processes that die
    MaxFaults       \* bound: database transactions that fail

ASSUME ConstantsAssumption ==
    /\ Config \in [Processes -> STRING]
    /\ PlanExpiry \in [Plans -> Nat]
    /\ MaxActive \in Nat
    /\ Surroundings \subseteq Context
    /\ LeaseTime \in Nat \ {0}
    /\ MaxClock \in Nat
    /\ MaxCrashes \in Nat
    /\ MaxFaults \in Nat

ASSUME NoneAssumption ==
    /\ None \notin Int
    /\ None \notin Processes
    /\ None \notin Plans
    /\ None \notin Plans \X STRING

VARIABLES
    clock,      \* wall clock shared by the processes and the database
    row,        \* signal_lifecycles: signal -> its row
    events,     \* signal_lifecycle_events: signal -> set of audit events
    process,    \* process -> where its cycle stands
    task,       \* process -> signal -> its monitoring task
    crashes,    \* processes that died so far
    faults,     \* transactions that failed so far
    trail,      \* history: signal -> the states its row went through
    seenHealthy \* history: signal -> last cycle time its data was healthy

history == <<trail, seenHealthy>>

vars == <<clock, row, events, process, task, crashes, faults, history>>

Time == 0 .. MaxClock

-----------------------------------------------------------------------------
(* Data.                                                                   *)

AbsentRow ==
    [state |-> "ABSENT", version |-> 0, plan |-> None, key |-> None,
     activeKey |-> None, watchingAt |-> 0, entryAt |-> None, expiresAt |-> 0,
     degradedSince |-> None, leaseOwner |-> None, leaseUntil |-> None]

(* The dedupe key of a plan under a configuration.                         *)
DedupeKey(plan, config) == <<plan, config>>

NewRow(plan, config, now) ==
    [AbsentRow EXCEPT
        !.state = "WATCHING_ENTRY", !.version = 2, !.plan = plan,
        !.key = DedupeKey(plan, config), !.activeKey = DedupeKey(plan, config),
        !.watchingAt = now, !.expiresAt = PlanExpiry[plan]]

Exists(s) == row[s].state # "ABSENT"

NonTerminal == {s \in Signals : Exists(s) /\ ~IsTerminal(row[s].state)}

(* signal_exists_for_plan: a plan gets one lifecycle.                      *)
HasLifecycle(plan) == \E s \in Signals : row[s].plan = plan

(* The unique constraint of active_key.                                    *)
KeyTaken(key) == \E s \in Signals : row[s].activeKey = key

(* The open signals of the plan's instrument.                              *)
ActiveFor(plan) ==
    {s \in NonTerminal : Instrument[row[s].plan] = Instrument[plan]}

Event(version, to) == [version |-> version, to |-> to]

CreationTrail == <<"DRAFT", "PENDING_ADMISSION", "WATCHING_ENTRY">>

(* Mutant: the CREATED event is forgotten.                                 *)
CreationChainShort == {Event(v, CreationTrail[v + 1]) : v \in 1 .. 2}

CreationChain == {Event(v, CreationTrail[v + 1]) : v \in 0 .. 2}

(* What a monitoring task keeps of the row it works on.                    *)
Snapshot(r) ==
    [state |-> r.state, version |-> r.version, watchingAt |-> r.watchingAt,
     entryAt |-> r.entryAt, expiresAt |-> r.expiresAt,
     degradedSince |-> r.degradedSince]

IdleTask ==
    [at |-> "none", snapshot |-> Snapshot(AbsentRow), steps |-> <<>>, expected |-> 0,
     context |-> None]

IdleProcess ==
    [at |-> "idle", now |-> 0, paused |-> FALSE, todo |-> {}, plan |-> None,
     signal |-> None]

Init ==
    /\ clock = 0
    /\ row = [s \in Signals |-> AbsentRow]
    /\ events = [s \in Signals |-> {}]
    /\ process = [p \in Processes |-> IdleProcess]
    /\ task = [p \in Processes |-> [s \in Signals |-> IdleTask]]
    /\ crashes = 0
    /\ faults = 0
    /\ trail = [s \in Signals |-> <<>>]
    /\ seenHealthy = [s \in Signals |-> 0]

-----------------------------------------------------------------------------
(* Where a process or a task goes next, and a failed transaction.          *)

SetRow(s, r) == row' = [row EXCEPT ![s] = r]

SetProcess(p, c) == process' = [process EXCEPT ![p] = c]

SetTask(p, s, t) == task' = [task EXCEPT ![p][s] = t]

SetTasks(p, tasks) == task' = [task EXCEPT ![p] = tasks]

AllIdle == [s \in Signals |-> IdleTask]

GoTo(p, place) == SetProcess(p, [process[p] EXCEPT !.at = place])

(* On to the next plan: what was known of the last one is dropped.         *)
NextPlan(p) ==
    SetProcess(p, [process[p] EXCEPT !.at = "admit", !.plan = None, !.signal = None])

TaskTo(p, s, place) == SetTask(p, s, [task[p][s] EXCEPT !.at = place])

(* No transition is left to apply: on to the monitoring fields.            *)
StopApplying(p, s) ==
    SetTask(p, s, [task[p][s] EXCEPT !.at = "touch", !.steps = <<>>])

Finish(p, s) == SetTask(p, s, IdleTask)

DatabaseFails == faults < MaxFaults /\ faults' = faults + 1

-----------------------------------------------------------------------------
(* Admission.                                                              *)

Cycle(paused, todo) ==
    [IdleProcess EXCEPT !.at = "admit", !.now = clock, !.paused = paused,
                        !.todo = todo]

(***************************************************************************)
(* A cycle begins: its time and the global pause are read once.  The plan  *)
(* query may fail, which skips admission, as the pause does.               *)
(***************************************************************************)
StartCycle(p) ==
    /\ process[p].at = "idle"
    /\ \E paused \in BOOLEAN :
           \/ /\ SetProcess(p, Cycle(paused, IF paused THEN {} ELSE Plans))
              /\ UNCHANGED faults
           \/ /\ ~paused
              /\ DatabaseFails
              /\ SetProcess(p, Cycle(FALSE, {}))
    /\ UNCHANGED <<clock, row, events, task, crashes, history>>

(***************************************************************************)
(* The next plan is dropped: it already has a lifecycle, or an admission   *)
(* gate refuses it (any gate may), or a read of the gates fails.           *)
(***************************************************************************)
SkipPlan(p) ==
    /\ process[p].at = "admit"
    /\ \E plan \in process[p].todo :
           SetProcess(p, [process[p] EXCEPT !.todo = @ \ {plan}])
    /\ UNCHANGED <<clock, row, events, task, crashes, faults, history>>

(***************************************************************************)
(* The next plan passes its gates: no lifecycle for the plan, no active    *)
(* one for its key, its window still open, the instrument not full.        *)
(* Nothing is reserved by that.                                            *)
(***************************************************************************)
AdmitPlan(p) ==
    /\ process[p].at = "admit"
    /\ \E plan \in process[p].todo :
           /\ ~HasLifecycle(plan)
           /\ ~KeyTaken(DedupeKey(plan, Config[p]))
           /\ PlanExpiry[plan] > process[p].now
           /\ Cardinality(ActiveFor(plan)) < MaxActive
           /\ SetProcess(p, [process[p] EXCEPT !.at = "insert",
                                               !.plan = plan,
                                               !.todo = @ \ {plan}])
    /\ UNCHANGED <<clock, row, events, task, crashes, faults, history>>

(***************************************************************************)
(* insert_new, first transaction: the row.  The unique active_key turns a  *)
(* lost race into a skip.  The identity is a new one; which one makes no   *)
(* difference.                                                             *)
(***************************************************************************)
InsertRow(p) ==
    LET plan == process[p].plan
        key  == DedupeKey(plan, Config[p])
        new  == NewRow(plan, Config[p], process[p].now)
    IN  /\ process[p].at = "insert"
        /\ \/ /\ ~KeyTaken(key)
              /\ \E s \in Signals :
                     /\ ~Exists(s) /\ s = CHOOSE t \in Signals : ~Exists(t)
                     /\ SetRow(s, new)
                     /\ trail' = [trail EXCEPT ![s] = CreationTrail]
                     /\ seenHealthy' = [seenHealthy EXCEPT ![s] =
                            process[p].now]
                     /\ SetProcess(p, [process[p] EXCEPT !.at = "chain",
                                                         !.signal = s])
              /\ UNCHANGED faults
           \/ /\ KeyTaken(key)
              /\ NextPlan(p)
              /\ UNCHANGED <<row, faults, history>>
           \/ /\ DatabaseFails
              /\ NextPlan(p)
              /\ UNCHANGED <<row, history>>
    /\ UNCHANGED <<clock, events, task, crashes>>

(***************************************************************************)
(* insert_new, second transaction: the three events of the creation chain. *)
(***************************************************************************)
InsertChain(p) ==
    LET s == process[p].signal
    IN  /\ process[p].at = "chain"
        /\ \/ /\ events' = [events EXCEPT ![s] = @ \cup CreationChain]
              /\ UNCHANGED faults
           \/ /\ DatabaseFails
              /\ UNCHANGED events
        /\ NextPlan(p)
        /\ UNCHANGED <<clock, row, task, crashes, history>>

-----------------------------------------------------------------------------
(* Monitoring.                                                             *)

LoadedTask(r) ==
    [IdleTask EXCEPT !.at = "claim", !.snapshot = Snapshot(r)]

(***************************************************************************)
(* All open rows are read before any of them is claimed: a task works on   *)
(* the snapshot of its row taken here.                                     *)
(***************************************************************************)
LoadRows(p) ==
    /\ process[p].at = "admit"
    /\ process[p].todo = {}
    /\ \/ /\ SetTasks(p, [s \in Signals |->
                              IF s \in NonTerminal THEN LoadedTask(row[s])
                              ELSE IdleTask])
          /\ UNCHANGED faults
       \/ /\ DatabaseFails
          /\ SetTasks(p, AllIdle)
    /\ GoTo(p, "monitor")
    /\ UNCHANGED <<clock, row, events, crashes, history>>

(* Mutant: nobody takes over the lease of a dead process.                  *)
LeaseFreeNeverExpires(r, p, now) == r.leaseOwner \in {None, p}

LeaseFree(r, p, now) ==
    \/ r.leaseOwner \in {None, p}
    \/ r.leaseUntil # None /\ r.leaseUntil < now

(***************************************************************************)
(* claim: a free lease, an expired one or an own one is taken.             *)
(***************************************************************************)
Claim(p, s) ==
    LET now  == process[p].now
        free == LeaseFree(row[s], p, now)
    IN  /\ task[p][s].at = "claim"
        /\ \/ /\ free
              /\ SetRow(s, [row[s] EXCEPT !.leaseOwner = p,
                                          !.leaseUntil = now + LeaseTime])
              /\ TaskTo(p, s, "evaluate")
              /\ UNCHANGED faults
           \/ /\ ~free
              /\ Finish(p, s)
              /\ UNCHANGED <<row, faults>>
           \/ /\ DatabaseFails
              /\ Finish(p, s)
              /\ UNCHANGED row
        /\ UNCHANGED <<clock, events, process, crashes, history>>

Evaluated(t, ctx, now, paused) ==
    LET steps == EvaluateSignal(t.snapshot, ctx, now, paused)
    IN  [t EXCEPT !.at = IF steps = <<>> THEN "touch" ELSE "apply",
                  !.steps = steps,
                  !.expected = t.snapshot.version,
                  !.context = ctx]

(***************************************************************************)
(* monitor_context and evaluate_signal, on the snapshot.                   *)
(***************************************************************************)
Evaluate(p, s) ==
    /\ task[p][s].at = "evaluate"
    /\ \/ /\ \E ctx \in Surroundings :
              /\ SetTask(p, s, Evaluated(task[p][s], ctx, process[p].now,
                                         process[p].paused))
              /\ seenHealthy' = [seenHealthy EXCEPT ![s] =
                        IF Healthy(ctx) THEN process[p].now ELSE @]
          /\ UNCHANGED faults
       \/ /\ DatabaseFails
          /\ TaskTo(p, s, "release")
          /\ UNCHANGED seenHealthy
    /\ UNCHANGED <<clock, row, events, process, crashes, trail>>

(* Mutant: every transition gives the slot back.                           *)
TransitionedKeyless(r, to, expected, now) ==
    [r EXCEPT
        !.state = to,
        !.version = expected + 1,
        !.activeKey = None,
        !.entryAt = IF to = "ENTRY_CONFIRMED" THEN now ELSE @]

(* The row after one transition.                                           *)
Transitioned(r, to, expected, now) ==
    [r EXCEPT
        !.state = to,
        !.version = expected + 1,
        !.activeKey = IF IsTerminal(to) THEN None ELSE @,
        !.entryAt = IF to = "ENTRY_CONFIRMED" THEN now ELSE @]

(* Mutant: the update is not conditional.                                  *)
LockIgnored(r, step, expected) == r.state # "ABSENT"

(* The optimistic lock of apply_transition.                                *)
LockHolds(r, step, expected) == r.version = expected /\ r.state = step.from

(***************************************************************************)
(* apply_transition, first transaction: the row.  A lost lock ends the     *)
(* task's transitions, and so does a failure.                              *)
(***************************************************************************)
ApplyRow(p, s) ==
    LET t    == task[p][s]
        step == Head(t.steps)
        lock == LockHolds(row[s], step, t.expected)
    IN  /\ t.at = "apply"
        /\ \/ /\ lock
              /\ SetRow(s, Transitioned(row[s], step.to, t.expected,
                                        process[p].now))
              /\ trail' = [trail EXCEPT ![s] = Append(@, step.to)]
              /\ TaskTo(p, s, "event")
              /\ UNCHANGED <<faults, seenHealthy>>
           \/ /\ ~lock
              /\ StopApplying(p, s)
              /\ UNCHANGED <<row, faults, history>>
           \/ /\ DatabaseFails
              /\ StopApplying(p, s)
              /\ UNCHANGED <<row, history>>
        /\ UNCHANGED <<clock, events, process, crashes>>

(***************************************************************************)
(* apply_transition, second transaction: the audit event.  Only when it is *)
(* stored is the transition reported as applied and the chain continued.   *)
(***************************************************************************)
InsertEvent(p, s) ==
    LET t    == task[p][s]
        rest == Tail(t.steps)
    IN  /\ t.at = "event"
        /\ \/ /\ events' = [events EXCEPT ![s] =
                    @ \cup {Event(t.expected + 1, Head(t.steps).to)}]
              /\ SetTask(p, s,
                    [t EXCEPT !.at = IF rest = <<>> THEN "touch" ELSE "apply",
                              !.steps = rest,
                              !.expected = @ + 1])
              /\ UNCHANGED faults
           \/ /\ DatabaseFails
              /\ StopApplying(p, s)
              /\ UNCHANGED events
        /\ UNCHANGED <<clock, row, process, crashes, history>>

(* Mutant: healthy data does not clear the marker.                         *)
MarkerNeverCleared(t, now) ==
    IF t.snapshot.degradedSince # None THEN t.snapshot.degradedSince
    ELSE IF Healthy(t.context) THEN None ELSE now

(* Degraded data keeps the marker of the snapshot or starts a new one.     *)
DegradedMarker(t, now) ==
    IF Healthy(t.context) THEN None
    ELSE IF t.snapshot.degradedSince = None THEN now
         ELSE t.snapshot.degradedSince

(***************************************************************************)
(* update_monitoring_fields: unconditional, and its failure is swallowed.  *)
(***************************************************************************)
Touch(p, s) ==
    /\ task[p][s].at = "touch"
    /\ \/ /\ SetRow(s, [row[s] EXCEPT !.degradedSince =
                            DegradedMarker(task[p][s], process[p].now)])
          /\ UNCHANGED faults
       \/ /\ DatabaseFails
          /\ UNCHANGED row
    /\ TaskTo(p, s, "release")
    /\ UNCHANGED <<clock, events, process, crashes, history>>

(* Mutant: the lease is cleared whoever owns it.                           *)
ReleasedByAnyone(r, p) == [r EXCEPT !.leaseOwner = None, !.leaseUntil = None]

Released(r, p) ==
    IF r.leaseOwner = p
    THEN [r EXCEPT !.leaseOwner = None, !.leaseUntil = None]
    ELSE r

(* release, if the lease is still owned; its failure is swallowed.         *)
Release(p, s) ==
    /\ task[p][s].at = "release"
    /\ \/ /\ SetRow(s, Released(row[s], p))
          /\ UNCHANGED faults
       \/ /\ DatabaseFails
          /\ UNCHANGED row
    /\ Finish(p, s)
    /\ UNCHANGED <<clock, events, process, crashes, history>>

EndCycle(p) ==
    /\ process[p].at = "monitor"
    /\ \A s \in Signals : task[p][s].at = "none"
    /\ SetProcess(p, IdleProcess)
    /\ SetTasks(p, AllIdle)
    /\ UNCHANGED <<clock, row, events, crashes, faults, history>>

-----------------------------------------------------------------------------
(* The environment.                                                        *)

Tick ==
    /\ clock < MaxClock
    /\ clock' = clock + 1
    /\ UNCHANGED <<row, events, process, task, crashes, faults, history>>

(***************************************************************************)
(* A process dies at any point; what it knew is gone, what it committed    *)
(* stays, its leases too.  The bound on the clock leaves time for those    *)
(* leases to expire before the clock stops.                                *)
(***************************************************************************)
Crash(p) ==
    /\ process[p].at # "dead"
    /\ crashes < MaxCrashes
    /\ clock + LeaseTime < MaxClock
    /\ crashes' = crashes + 1
    /\ SetProcess(p, [IdleProcess EXCEPT !.at = "dead"])
    /\ SetTasks(p, AllIdle)
    /\ UNCHANGED <<clock, row, events, faults, history>>

-----------------------------------------------------------------------------

Admission(p) ==
    StartCycle(p) \/ SkipPlan(p) \/ AdmitPlan(p) \/ InsertRow(p)
    \/ InsertChain(p)

Monitoring(p, s) ==
    Claim(p, s) \/ Evaluate(p, s) \/ ApplyRow(p, s) \/ InsertEvent(p, s)
    \/ Touch(p, s) \/ Release(p, s)

Work(p) ==
    \/ Admission(p) \/ LoadRows(p) \/ EndCycle(p)
    \/ \E s \in Signals : Monitoring(p, s)

Next == Tick \/ \E p \in Processes : Work(p) \/ Crash(p)

Spec == Init /\ [][Next]_vars

(***************************************************************************)
(* The clock advances and the event loop of a living process runs on: the  *)
(* job loops for ever and each of its awaits returns.                      *)
(***************************************************************************)
Fairness == WF_vars(Tick) /\ \A p \in Processes : WF_vars(Work(p))

FairSpec == Spec /\ Fairness

-----------------------------------------------------------------------------
(* Correctness properties.                                                 *)

Places == {"idle", "admit", "insert", "chain", "monitor", "dead"}

TaskPlaces ==
    {"none", "claim", "evaluate", "apply", "event", "touch", "release"}

StepType == [from : SignalState, to : SignalState]

EventType == [version : Nat, to : SignalState]

SnapshotType ==
    [state : SignalState \cup {"ABSENT"}, version : Nat, watchingAt : Nat,
     entryAt : Nat \cup {None}, expiresAt : Nat,
     degradedSince : Nat \cup {None}]

Keys == {DedupeKey(plan, Config[p]) : plan \in Plans, p \in Processes}

RowType ==
    [state : SignalState \cup {"ABSENT"}, version : Nat,
     plan : Plans \cup {None}, key : Keys \cup {None},
     activeKey : Keys \cup {None}, watchingAt : Nat,
     entryAt : Nat \cup {None}, expiresAt : Nat,
     degradedSince : Nat \cup {None},
     leaseOwner : Processes \cup {None}, leaseUntil : Nat \cup {None}]

TaskType ==
    [at : TaskPlaces, snapshot : SnapshotType, steps : Seq(StepType),
     expected : Nat, context : Surroundings \cup {None}]

ProcessType ==
    [at : Places, now : Nat, paused : BOOLEAN, todo : SUBSET Plans,
     plan : Plans \cup {None}, signal : Signals \cup {None}]

(* The type invariant of rows, events, cycles and tasks.                   *)
TypeOK ==
    /\ clock \in Nat
    /\ row \in [Signals -> RowType]
    /\ events \in [Signals -> SUBSET EventType]
    /\ process \in [Processes -> ProcessType]
    /\ task \in [Processes -> [Signals -> TaskType]]
    /\ crashes \in Nat
    /\ faults \in Nat
    /\ trail \in [Signals -> Seq(SignalState)]
    /\ seenHealthy \in [Signals -> Nat]

(***************************************************************************)
(* At most one open signal per plan and configuration, even when several   *)
(* processes admit the same plan at once: the unique active_key is held by *)
(* exactly the open signals.                                               *)
(***************************************************************************)
OneActivePerContext ==
    \A s, t \in NonTerminal : row[s].key = row[t].key => s = t

(* A task between its claim and its release.                               *)
Holding(p, s) ==
    task[p][s].at \in {"evaluate", "apply", "event", "touch", "release"}

Fresh(p) == clock <= process[p].now + LeaseTime

(***************************************************************************)
(* Two processes work on the same signal at once only when one of them     *)
(* has outlived its lease: claim and release keep everyone else out until  *)
(* then.                                                                   *)
(***************************************************************************)
LeaseExclusion ==
    \A s \in Signals : \A p, q \in Processes :
        p # q /\ Holding(p, s) /\ Holding(q, s) => ~Fresh(p) \/ ~Fresh(q)

(***************************************************************************)
(* The audit trail never lies: an event names a transition the row really  *)
(* made, under the version at which it made it, so there are never two     *)
(* events for one version, whatever crashed, failed or was retried.        *)
(***************************************************************************)
AuditTrailIsSound ==
    \A s \in Signals : \A e \in events[s] :
        e.version < Len(trail[s]) /\ trail[s][e.version + 1] = e.to

Audited(s) == {e.version : e \in events[s]}

Unaudited(s) == (0 .. Len(trail[s]) - 1) \ Audited(s)

(* Someone is between the row's transaction and the event's.               *)
InFlight(s) ==
    \/ \E p \in Processes : task[p][s].at = "event"
    \/ \E p \in Processes :
           process[p].at = "chain" /\ process[p].signal = s

(* Once nobody is about to write it, no event is missing.                  *)
EveryTransitionIsAudited ==
    \A s \in Signals : ~InFlight(s) => Unaudited(s) = {}

(***************************************************************************)
(* "One event per persisted state transition (plus creation)": events go   *)
(* missing only through a crash or a failed transaction, because row and   *)
(* event are two transactions.                                             *)
(***************************************************************************)
AuditGapsNeedAFailure ==
    crashes + faults = 0 => EveryTransitionIsAudited

(***************************************************************************)
(* A signal that reached a terminal state keeps it, with its version and   *)
(* its entry time, and never gets its slot back: no late task, stale       *)
(* snapshot or retry reactivates it.                                       *)
(***************************************************************************)
TerminalIsFinal ==
    [][\A s \in Signals :
        Exists(s) /\ IsTerminal(row[s].state) =>
            /\ row'[s].state = row[s].state
            /\ row'[s].version = row[s].version
            /\ row'[s].entryAt = row[s].entryAt
            /\ row'[s].activeKey = None]_vars

(* The step in which a task decides on a transition.                       *)
Decides(p, s) == task[p][s].at = "evaluate" /\ task'[p][s].at = "apply"

Decision(p, s) == Head(task'[p][s].steps).to

(***************************************************************************)
(* An entry is only confirmed on sound ground: healthy data, an allowed    *)
(* session, no global pause, an open window, an eligible and unreplaced    *)
(* plan, a live candidate, and no fresh source beyond the invalidation     *)
(* level - every monitor that objects outranks the entry.                  *)
(***************************************************************************)
EntryOnSoundGround ==
    [][\A p \in Processes, s \in Signals :
        Decides(p, s) /\ Decision(p, s) = "ENTRY_CONFIRMED" =>
            LET ctx == task'[p][s].context
            IN  /\ Healthy(ctx)
                /\ ctx.sessionAllowed /\ ~process[p].paused
                /\ process[p].now < task[p][s].snapshot.expiresAt
                /\ ctx.plan = "ELIGIBLE" /\ ctx.candidate = "CONFIRMED"
                /\ ~ctx.superseding
                /\ SourcesBeyondLevel(ctx) = {}]_vars

(***************************************************************************)
(* A target never wins over an invalidation confirmed in the same cycle.   *)
(***************************************************************************)
InvalidationBeatsTargets ==
    [][\A p \in Processes, s \in Signals :
        Decides(p, s) /\ InvalidationConfirmed(task'[p][s].context) =>
            Decision(p, s) \notin {"TARGET_1_REACHED", "TARGET_2_REACHED"}]_vars

(***************************************************************************)
(* As long as no transaction failed, a signal ends for its data quality    *)
(* only after the data was degraded for longer than the grace period: the  *)
(* marker the grace is counted from is never older than the last healthy   *)
(* look.                                                                   *)
(***************************************************************************)
GraceIsHonoured ==
    [][\A p \in Processes, s \in Signals :
        faults = 0 /\ Decides(p, s) /\ Decision(p, s) = "DATA_INVALID" =>
            LET ctx == task'[p][s].context
            IN  \/ ctx.plan \in {"LOST", "DATA_INVALID", "OTHER"}
                \/ ctx.candidate = "LOST"
                \/ process[p].now - seenHealthy[s] > DegradedGrace]_vars

(***************************************************************************)
(* "Stale data confirms neither entry nor target nor invalidation" while   *)
(* the grace period runs.  The code checks no freshness where it reads the *)
(* last closed candle for a target.                                        *)
(***************************************************************************)
StaleDataNeverConfirms ==
    [][\A p \in Processes, s \in Signals :
        Decides(p, s) /\ ~task'[p][s].context.dataOk =>
            Decision(p, s) \notin {"ENTRY_CONFIRMED", "TARGET_1_REACHED",
                                   "TARGET_2_REACHED"}]_vars

(***************************************************************************)
(* The job implements the abstract signals: rows are signals, the dedupe   *)
(* key is the context.                                                     *)
(***************************************************************************)
Research ==
    INSTANCE ResearchSignals WITH
        Contexts  <- Keys,
        NoContext <- None,
        state     <- [s \in Signals |-> row[s].state],
        version   <- [s \in Signals |-> row[s].version],
        context   <- [s \in Signals |-> row[s].key]

ImplementsResearchSignals == Research!Spec

(***************************************************************************)
(* A day comes when every signal ever admitted has ended for good,         *)
(* although processes crash and leave leases behind, transactions fail,    *)
(* and the session pauses it.                                              *)
(***************************************************************************)
EverySignalEnds ==
    <>[](\A s \in Signals : Exists(s) => IsTerminal(row[s].state))

=============================================================================
