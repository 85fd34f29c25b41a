------------------------ MODULE ShadowSimulation_proofs ------------------------
(***************************************************************************)
(* Safety of ShadowSimulation for any number of lifecycles and tasks, any  *)
(* plans and markets, and any failures and restarts.                       *)
(***************************************************************************)
EXTENDS ShadowSimulation, TLAPS

-----------------------------------------------------------------------------
(* The invariant.                                                          *)

(* The signal of a task comes out of the queue and is not typed: a row of  *)
(* what is no lifecycle is no concern of a property of lifecycles.         *)
IsTask(t) ==
    t = [f \in {"at", "signal", "own", "state", "fee", "duplicate"} |-> t[f]]

Tables ==
    /\ positions \in [Signals -> Nat] /\ legs \in [Signals -> Nat]
    /\ audited \in [Signals -> Nat] /\ counted \in [Signals -> Nat]

Types ==
    /\ Tables
    /\ DOMAIN tasks = Slots
    /\ tasks = [i \in Slots |-> tasks[i]]
    /\ \A i \in Slots : IsTask(tasks[i])

(* Task i has stored the position of s and is not through with the rest.   *)
Storing(i, s) == tasks[i].signal = s /\ tasks[i].at \in {"legs", "event"}

(* The place of such a task says what is stored.                           *)
PlaceInv ==
    \A i \in Slots, s \in Signals :
        Storing(i, s) =>
            /\ positions[s] = 1
            /\ legs[s] = IF tasks[i].at = "legs" THEN 0 ELSE 1
            /\ audited[s] = 0

(* No two tasks store the same simulation, with or without their cycle.    *)
OneStores ==
    \A i, j \in Slots, s \in Signals : Storing(i, s) /\ Storing(j, s) => i = j

ShadowInv == Types /\ PlaceInv /\ OneStores /\ ReportedIsStored

-----------------------------------------------------------------------------
(* The steps.                                                              *)

(* Before the first cycle nothing is stored and nothing runs.              *)
LEMMA InvInit == Init => ShadowInv
<1> SUFFICES ASSUME Init
             PROVE  ShadowInv
  OBVIOUS
<1>1. \A i \in Slots : IsTask(tasks[i]) /\ tasks[i].at = "none"
  BY DEF Init, IsTask, NoTask
<1>2. Types
  BY <1>1 DEF Init, Types, Tables, Nothing
<1>3. PlaceInv /\ OneStores
  BY <1>1 DEF PlaceInv, OneStores, Storing
<1>4. ReportedIsStored
  BY DEF Init, ReportedIsStored, Nothing
<1> QED
  BY <1>2, <1>3, <1>4 DEF ShadowInv

(* A task that is changed in some fields is a task.                        *)
LEMMA ChangedTask ==
  ASSUME NEW t, IsTask(t), NEW place
  PROVE  /\ LET left == [t EXCEPT !.own = FALSE]
            IN  IsTask(left) /\ left.at = t.at /\ left.signal = t.signal
         /\ LET moved == [t EXCEPT !.at = place]
            IN  IsTask(moved) /\ moved.at = place /\ moved.signal = t.signal
  BY DEF IsTask

(* One row more in a table.                                                *)
LEMMA OneMore ==
  ASSUME NEW f \in [Signals -> Nat], NEW s
  PROVE  /\ [f EXCEPT ![s] = @ + 1] \in [Signals -> Nat]
         /\ \A u \in Signals : [f EXCEPT ![s] = @ + 1][u] = IF u = s THEN f[u] + 1 ELSE f[u]
<1>1. \A u \in Signals : [f EXCEPT ![s] = @ + 1][u] = IF u = s THEN f[u] + 1 ELSE f[u]
  OBVIOUS
<1>2. \A u \in Signals : [f EXCEPT ![s] = @ + 1][u] \in Nat
  BY <1>1
<1> QED
  BY <1>1, <1>2

(* Tables that stay, and tasks of which none begins to store, keep all.    *)
LEMMA QuietKeeps ==
  ASSUME ShadowInv, UNCHANGED <<positions, legs, audited, counted>>,
         tasks' = [i \in Slots |-> tasks'[i]],
         \A i \in Slots :
             /\ IsTask(tasks'[i])
             /\ \/ tasks'[i].at \notin {"legs", "event"}
                \/ tasks'[i].at = tasks[i].at /\ tasks'[i].signal = tasks[i].signal
  PROVE  ShadowInv'
<1>1. Types'
  BY DEF ShadowInv, Types, Tables
<1>2. \A i \in Slots, s \in Signals :
          Storing(i, s)' => Storing(i, s) /\ tasks'[i].at = tasks[i].at
  BY DEF Storing
<1>3. PlaceInv' /\ OneStores'
  BY <1>2 DEF ShadowInv, PlaceInv, OneStores
<1>4. ReportedIsStored'
  BY DEF ShadowInv, ReportedIsStored
<1> QED
  BY <1>1, <1>3, <1>4 DEF ShadowInv

(* A task that ends, or goes where nothing is stored, is such a step.      *)
LEMMA LeaveKeeps ==
  ASSUME ShadowInv, UNCHANGED <<positions, legs, audited, counted>>, NEW i \in Slots,
         Done(i) \/ Decided(i, "reject") \/ Decided(i, "store")
  PROVE  ShadowInv'
<1>1. \A j \in Slots : IsTask(tasks[j])
  BY DEF ShadowInv, Types
<1>2. tasks' = [j \in Slots |-> tasks'[j]]
  BY DEF ShadowInv, Types, Done, Decided, NoTask
<1>3. \A j \in Slots \ {i} : tasks'[j] = tasks[j]
  BY DEF ShadowInv, Types, Done, Decided, NoTask
<1>4. IsTask(tasks'[i]) /\ tasks'[i].at \notin {"legs", "event"}
  <2>1. /\ IsTask(NoTask) /\ NoTask.at = "none"
        /\ \A place, signal, own :
              LET t == [NoTask EXCEPT !.at = place, !.signal = signal, !.own = own]
              IN  IsTask(t) /\ t.at = place
    BY DEF NoTask, IsTask
  <2>2. \/ tasks'[i] = NoTask
        \/ \E place \in {"reject", "store"} :
              tasks'[i] = [NoTask EXCEPT !.at = place, !.signal = tasks[i].signal,
                                         !.own = tasks[i].own]
    BY DEF ShadowInv, Types, Done, Decided
  <2>3. CASE tasks'[i] = NoTask
    BY <2>1, <2>3
  <2>4. ASSUME NEW place \in {"reject", "store"},
               tasks'[i] = [NoTask EXCEPT !.at = place, !.signal = tasks[i].signal,
                                          !.own = tasks[i].own]
        PROVE  IsTask(tasks'[i]) /\ tasks'[i].at \notin {"legs", "event"}
    <3> DEFINE t == [NoTask EXCEPT !.at = place, !.signal = tasks[i].signal,
                                   !.own = tasks[i].own]
    <3>1. IsTask(t) /\ t.at = place
      BY <2>1
    <3>2. tasks'[i] = t
      BY <2>4
    <3> HIDE DEF t
    <3> QED
      BY <3>1, <3>2
  <2> QED
    BY <2>2, <2>3, <2>4
<1> QED
  BY <1>1, <1>2, <1>3, <1>4, QuietKeeps

(* Launched tasks begin with the read of their row.                        *)
LEMMA LaunchKeeps ==
  ASSUME ShadowInv, UNCHANGED <<positions, legs, audited, counted>>, NEW q, Launch(q)
  PROVE  ShadowInv'
<1>1. \A j \in Slots : IsTask(tasks[j])
  BY DEF ShadowInv, Types
<1>2. tasks' = [j \in Slots |-> tasks'[j]]
  BY DEF Launch
<1>3. \A j \in Slots :
        tasks'[j] = tasks[j] \/ (IsTask(tasks'[j]) /\ tasks'[j].at = "row")
  BY DEF Launch, IsTask, NoTask
<1> QED
  BY <1>1, <1>2, <1>3, QuietKeeps

(* The cycle that is left by one raising task leaves the others running.   *)
LEMMA RaisesKeeps ==
  ASSUME ShadowInv, NEW i \in Slots, BuildRaises(i)
  PROVE  ShadowInv'
<1>1. UNCHANGED <<positions, legs, audited, counted>>
  BY DEF BuildRaises, tables, memory
<1>2. CASE tasks[i].own
  <2>1. tasks' = [j \in Slots |-> IF j = i THEN NoTask ELSE [tasks[j] EXCEPT !.own = FALSE]]
    BY <1>2 DEF BuildRaises
  <2>2. \A j \in Slots : IsTask(tasks[j])
    BY DEF ShadowInv, Types
  <2>3. \A j \in Slots :
          /\ IsTask(tasks'[j])
          /\ \/ tasks'[j].at \notin {"legs", "event"}
             \/ tasks'[j].at = tasks[j].at /\ tasks'[j].signal = tasks[j].signal
    BY <2>1, <2>2, ChangedTask DEF IsTask, NoTask
  <2> QED
    BY <1>1, <2>1, <2>3, QuietKeeps
<1>3. CASE ~tasks[i].own
  BY <1>1, <1>3, LeaveKeeps DEF BuildRaises
<1> QED
  BY <1>2, <1>3

(* A row is read for a task that stores nothing yet.                       *)
LEMMA ReadRowKeeps ==
  ASSUME ShadowInv, NEW i \in Slots, ReadRow(i)
  PROVE  ShadowInv'
<1>1. UNCHANGED <<positions, legs, audited, counted>>
  BY DEF ReadRow, tables, memory
<1>2. CASE Done(i)
  BY <1>1, <1>2, LeaveKeeps
<1>3. CASE ~Done(i)
  <2> DEFINE state == State(tasks[i].signal)
             duplicate == positions[tasks[i].signal] > 0
  <2>1. tasks' = [tasks EXCEPT ![i].at = "build", ![i].state = state,
                               ![i].duplicate = duplicate]
    BY <1>3 DEF ReadRow
  <2>2. /\ tasks = [j \in Slots |-> tasks[j]]
        /\ \A j \in Slots : IsTask(tasks[j])
    BY DEF ShadowInv, Types
  <2>3. tasks' = [j \in Slots |-> tasks'[j]] /\ \A j \in Slots \ {i} : tasks'[j] = tasks[j]
    BY <2>1, <2>2
  <2> HIDE DEF state, duplicate
  <2>4. tasks'[i] = [tasks[i] EXCEPT !.at = "build", !.state = state,
                                    !.duplicate = duplicate]
    BY <2>1, <2>2
  <2>5. IsTask(tasks'[i]) /\ tasks'[i].at = "build"
    BY <2>2, <2>4 DEF IsTask
  <2> QED
    BY <1>1, <2>2, <2>3, <2>5, QuietKeeps
<1> QED
  BY <1>2, <1>3

(* Tasks that build their inputs, or record a rejection, store nothing.    *)
LEMMA BuildKeeps ==
  ASSUME ShadowInv, NEW i \in Slots, BuildInputs(i) \/ RecordRejection(i)
  PROVE  ShadowInv'
<1>1. UNCHANGED <<positions, legs, audited, counted>>
  BY DEF BuildInputs, RecordRejection, tables, memory
<1>2. Done(i) \/ Decided(i, "reject") \/ Decided(i, "store")
  BY DEF BuildInputs, RecordRejection
<1> QED
  BY <1>1, <1>2, LeaveKeeps

(* The key of a position admits one task, which then owns the rest of the  *)
(* simulation: its executions and its event are the only ones.             *)
LEMMA StoreKeeps ==
  ASSUME ShadowInv, NEW i \in Slots,
         AddPosition(i) \/ AddExecutions(i) \/ AddEvent(i)
  PROVE  ShadowInv'
<1> DEFINE s == tasks[i].signal
           Same == UNCHANGED <<positions, legs, audited, counted>>
<1>1. CASE Same /\ Done(i)
  BY <1>1, LeaveKeeps
<1>2. tasks = [j \in Slots |-> tasks[j]] /\ \A j \in Slots : IsTask(tasks[j])
  BY DEF ShadowInv, Types
<1>3. ASSUME NEW place, Goto(i, place)
      PROVE  /\ tasks' = [j \in Slots |-> tasks'[j]]
             /\ \A j \in Slots \ {i} : tasks'[j] = tasks[j]
             /\ IsTask(tasks'[i]) /\ tasks'[i].at = place /\ tasks'[i].signal = s
  BY <1>2, <1>3, ChangedTask DEF Goto
<1>4. ASSUME Done(i)
      PROVE  /\ tasks' = [j \in Slots |-> tasks'[j]]
             /\ \A j \in Slots \ {i} : tasks'[j] = tasks[j]
             /\ IsTask(tasks'[i]) /\ tasks'[i].at = "none"
  BY <1>2, <1>4 DEF Done, NoTask, IsTask
<1>5. /\ positions \in [Signals -> Nat] /\ legs \in [Signals -> Nat]
      /\ audited \in [Signals -> Nat] /\ counted \in [Signals -> Nat]
  BY DEF ShadowInv, Types, Tables
<1>6. CASE /\ tasks[i].at = "store" /\ Goto(i, "legs") /\ positions[s] = 0
           /\ positions' = [positions EXCEPT ![s] = @ + 1]
           /\ UNCHANGED <<legs, audited, counted>>
  <2>1. Types'
    <3>1. Tables'
      BY <1>5, <1>6, OneMore DEF Tables
    <3> QED
      BY <1>2, <1>3, <1>6, <3>1 DEF ShadowInv, Types
  <2>2. ReportedIsStored'
    BY <1>5, <1>6 DEF ShadowInv, ReportedIsStored
  <2>3. \A j \in Slots, u \in Signals :
          Storing(j, u)' =>
              \/ j # i /\ u # s /\ Storing(j, u) /\ tasks'[j].at = tasks[j].at
              \/ j = i /\ u = s /\ tasks'[j].at = "legs"
    <3>1. /\ \A j \in Slots \ {i} : tasks'[j] = tasks[j]
          /\ tasks'[i].at = "legs" /\ tasks'[i].signal = s
      BY <1>3, <1>6
    <3>2. \A j \in Slots \ {i}, u \in Signals : Storing(j, u) => u # s
      BY <1>6 DEF Storing, ShadowInv, PlaceInv
    <3> SUFFICES ASSUME NEW j \in Slots, NEW u \in Signals, Storing(j, u)'
                 PROVE  \/ j # i /\ u # s /\ Storing(j, u) /\ tasks'[j].at = tasks[j].at
                        \/ j = i /\ u = s /\ tasks'[j].at = "legs"
      OBVIOUS
    <3>3. CASE j = i
      BY <3>1, <3>3 DEF Storing
    <3>4. CASE j # i
      <4>1. Storing(j, u) /\ tasks'[j].at = tasks[j].at
        BY <3>1, <3>4 DEF Storing
      <4> QED
        BY <3>2, <3>4, <4>1
    <3> QED
      BY <3>3, <3>4
  <2>4. s \in Signals => positions'[s] = 1 /\ legs[s] = 0 /\ audited[s] = 0
    BY <1>5, <1>6 DEF ShadowInv, ReportedIsStored
  <2>5. PlaceInv'
    BY <1>5, <1>6, <2>3, <2>4 DEF ShadowInv, PlaceInv
  <2>6. OneStores'
    BY <2>3 DEF ShadowInv, OneStores
  <2> QED
    BY <2>1, <2>2, <2>5, <2>6 DEF ShadowInv
<1>7. CASE /\ tasks[i].at = "legs" /\ Goto(i, "event")
           /\ legs' = [legs EXCEPT ![s] = @ + 1]
           /\ UNCHANGED <<positions, audited, counted>>
  <2>1. Types'
    <3>1. Tables'
      BY <1>5, <1>7, OneMore DEF Tables
    <3> QED
      BY <1>2, <1>3, <1>7, <3>1 DEF ShadowInv, Types
  <2>2. s \in Signals => positions[s] = 1 /\ legs[s] = 0 /\ audited[s] = 0
    BY <1>7 DEF ShadowInv, PlaceInv, Storing
  <2>3. ReportedIsStored'
    BY <1>5, <1>7, <2>2 DEF ShadowInv, ReportedIsStored
  <2>4. \A j \in Slots, u \in Signals :
          Storing(j, u)' =>
              \/ j # i /\ u # s /\ Storing(j, u) /\ tasks'[j].at = tasks[j].at
              \/ j = i /\ u = s /\ tasks'[j].at = "event"
    <3>1. /\ \A j \in Slots \ {i} : tasks'[j] = tasks[j]
          /\ tasks'[i].at = "event" /\ tasks'[i].signal = s
      BY <1>3, <1>7
    <3>2. \A j \in Slots \ {i}, u \in Signals : Storing(j, u) => u # s
      BY <1>7 DEF Storing, ShadowInv, OneStores
    <3> SUFFICES ASSUME NEW j \in Slots, NEW u \in Signals, Storing(j, u)'
                 PROVE  \/ j # i /\ u # s /\ Storing(j, u) /\ tasks'[j].at = tasks[j].at
                        \/ j = i /\ u = s /\ tasks'[j].at = "event"
      OBVIOUS
    <3>3. CASE j = i
      BY <3>1, <3>3 DEF Storing
    <3>4. CASE j # i
      <4>1. Storing(j, u) /\ tasks'[j].at = tasks[j].at
        BY <3>1, <3>4 DEF Storing
      <4> QED
        BY <3>2, <3>4, <4>1
    <3> QED
      BY <3>3, <3>4
  <2>5. PlaceInv'
    BY <1>5, <1>7, <2>2, <2>4 DEF ShadowInv, PlaceInv
  <2>6. OneStores'
    BY <2>4 DEF ShadowInv, OneStores
  <2> QED
    BY <2>1, <2>3, <2>5, <2>6 DEF ShadowInv
<1>8. CASE /\ tasks[i].at = "event" /\ Done(i)
           /\ audited' = [audited EXCEPT ![s] = @ + 1]
           /\ counted' = [counted EXCEPT ![s] = @ + 1]
           /\ UNCHANGED <<positions, legs>>
  <2>1. Types'
    <3>1. Tables'
      BY <1>5, <1>8, OneMore DEF Tables
    <3> QED
      BY <1>2, <1>4, <1>8, <3>1 DEF ShadowInv, Types
  <2>2. s \in Signals => positions[s] = 1 /\ legs[s] = 1 /\ audited[s] = 0
    BY <1>8 DEF ShadowInv, PlaceInv, Storing
  <2>3. ReportedIsStored'
    BY <1>5, <1>8, <2>2 DEF ShadowInv, ReportedIsStored
  <2>4. \A j \in Slots, u \in Signals :
          Storing(j, u)' => j # i /\ u # s /\ Storing(j, u) /\ tasks'[j].at = tasks[j].at
    BY <1>4, <1>8 DEF Storing, ShadowInv, OneStores
  <2>5. PlaceInv'
    BY <1>5, <1>8, <2>4 DEF ShadowInv, PlaceInv
  <2>6. OneStores'
    BY <2>4 DEF ShadowInv, OneStores
  <2> QED
    BY <2>1, <2>3, <2>5, <2>6 DEF ShadowInv
<1> QED
  BY <1>1, <1>6, <1>7, <1>8
     DEF AddPosition, AddExecutions, AddEvent, Accepted, tables, memory

(* A restart begins a run of which nothing is stored.                      *)
LEMMA RestartKeeps ==
  ASSUME Restart
  PROVE  ShadowInv'
<1>1. \A i \in Slots : IsTask(tasks'[i]) /\ tasks'[i].at = "none"
  BY DEF Restart, IsTask, NoTask
<1>2. Types'
  BY <1>1 DEF Restart, Types, Tables, Nothing
<1>3. PlaceInv' /\ OneStores'
  BY <1>1 DEF PlaceInv, OneStores, Storing
<1>4. ReportedIsStored'
  BY DEF Restart, ReportedIsStored, Nothing
<1> QED
  BY <1>2, <1>3, <1>4 DEF ShadowInv

(* Every step keeps the invariant.                                         *)
LEMMA InvNext ==
  ASSUME ShadowInv, [Next]_vars
  PROVE  ShadowInv'
<1> DEFINE Same == UNCHANGED <<positions, legs, audited, counted>>
<1>1. CASE Same /\ UNCHANGED tasks
  <2>1. /\ tasks = [i \in Slots |-> tasks[i]]
        /\ \A i \in Slots : IsTask(tasks[i])
    BY DEF ShadowInv, Types
  <2> QED
    BY <1>1, <2>1, QuietKeeps
<1>2. ASSUME NEW s \in Signals, LifecycleAdvances(s)
      PROVE  Same /\ UNCHANGED tasks
  BY <1>2 DEF LifecycleAdvances, tables, memory
<1>3. ASSUME Pause \/ Resume \/ UNCHANGED vars
      PROVE  Same /\ UNCHANGED tasks
  BY <1>3 DEF Pause, Resume, vars, tables, memory
<1>4. ASSUME CycleStep
      PROVE  Same /\ (UNCHANGED tasks \/ \E q : Launch(q))
  BY <1>4 DEF CycleStep, BeginCycle, EnsureFeeSchedule, Sweep, EndCycle, tables, memory
<1>5. ASSUME NEW i \in Slots, TaskStep(i) \/ BuildRaises(i)
      PROVE  ShadowInv'
  BY <1>5, ReadRowKeeps, BuildKeeps, StoreKeeps, RaisesKeeps DEF TaskStep
<1> QED
  BY <1>1, <1>2, <1>3, <1>4, <1>5, LaunchKeeps, RestartKeeps DEF Next

-----------------------------------------------------------------------------
(* Within a run a lifecycle has at most one position, and what is reported *)
(* is stored whole, also when the tasks of a raised cycle run on beside    *)
(* those of the next one (shadow_simulation_monitor.py,                    *)
(* _simulate_lifecycle).                                                   *)
THEOREM ReportedIsStoredHolds == Spec => []ReportedIsStored
<1>1. ShadowInv /\ [Next]_vars => ShadowInv'
  BY InvNext
<1>2. ShadowInv => ReportedIsStored
  BY DEF ShadowInv
<1> QED
  BY InvInit, <1>1, <1>2, PTL DEF Spec

=============================================================================
