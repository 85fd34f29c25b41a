---------------------------- MODULE Backtest_proofs ----------------------------
(***************************************************************************)
(* Safety of Backtest for any requests, runs, inputs and plans, and any    *)
(* failures, cancellations, timeouts and crashes.                          *)
(***************************************************************************)
EXTENDS Backtest, FiniteSetTheorems, TLAPS

-----------------------------------------------------------------------------
(* How far an engine is.                                                   *)

EngineFields ==
    {"delays", "next", "cancelled", "status", "truncated", "stage", "marker", "checkpoint",
     "kept", "applied", "symbols", "candidates", "plans", "lifecycles", "results"}

IsEngine(e) == e = [f \in EngineFields |-> e[f]]

EngineStatuses == Completed \cup {"RUNNING", "CANCELLED", "REJECTED", "RAISED"}

(* The events up to place n that an engine must apply.                     *)
Due(e, n) ==
    {i \in 1 .. n :
        /\ ~BehindMarker(input.events[i], e.marker)
        /\ ~IsExcluded(input.events[i], input.coverage.excluded)}

Limit == Smaller(Len(input.events), MaxEvents)

(***************************************************************************)
(* A running engine has applied what was due so far, a completed one all.  *)
(***************************************************************************)
EngineInv(e) ==
    /\ IsEngine(e)
    /\ e.next \in Nat \ {0}
    /\ e.status \in EngineStatuses
    /\ e.status = "RUNNING" => e.next - 1 <= Limit /\ e.applied = Due(e, e.next - 1)
    /\ e.status \in Completed => e.applied = Due(e, Limit)

InputInv == Len(input.events) \in Nat

(* What an engine is at, but for the work on a candle.                     *)
SameProgress(e, f) ==
    /\ IsEngine(f)
    /\ f.next = e.next /\ f.status = e.status /\ f.applied = e.applied
    /\ f.marker = e.marker

(* The work on a candle keeps the invariant.                               *)
LEMMA SameProgressKeeps ==
  ASSUME NEW e, NEW f, EngineInv(e), SameProgress(e, f)
  PROVE  EngineInv(f)
  BY DEF EngineInv, SameProgress, Due

(* A new engine has everything before it.                                  *)
LEMMA NewEngineInv ==
  ASSUME InputInv, NEW resume, NEW delays
  PROVE  EngineInv(NewEngine(resume, delays))
<1> DEFINE e == NewEngine(resume, delays)
<1>1. /\ IsEngine(e) /\ e.next = 1 /\ e.status = "RUNNING" /\ e.applied = {}
  BY DEF NewEngine, IsEngine, EngineFields
<1>2. Limit \in Nat
  BY ReplayAssumption DEF InputInv, Limit, Smaller, BacktestSettings
<1>3. Due(e, 0) = {}
  BY DEF Due
<1> QED
  BY <1>1, <1>2, <1>3 DEF EngineInv, EngineStatuses, Completed

(* The four stages of the pipeline.                                        *)
LEMMA WorkKeeps ==
  ASSUME NEW e, EngineInv(e), NEW event
  PROVE  EngineInv(Work(e, event))
<1>1. IsEngine(e)
  BY DEF EngineInv
<1>2. SameProgress(e, PlanStage([e EXCEPT !.stage = "monitoring"], event))
  BY <1>1 DEF SameProgress, IsEngine, EngineFields, PlanStage
<1>3. SameProgress(e, MonitorStage([e EXCEPT !.stage = "capture"], event))
  BY <1>1 DEF SameProgress, IsEngine, EngineFields, MonitorStage
<1>4. SameProgress(e, CaptureStage([e EXCEPT !.stage = "simulation"], event))
  BY <1>1 DEF SameProgress, IsEngine, EngineFields, CaptureStage
<1>5. SameProgress(e, Kept(SimulationStage([e EXCEPT !.stage = "events"], event)))
  BY <1>1 DEF SameProgress, IsEngine, EngineFields, SimulationStage, Kept
<1> QED
  BY <1>2, <1>3, <1>4, <1>5, SameProgressKeeps DEF Work

(* What is due up to the next place: its event, unless it is left out.     *)
LEMMA DueGrows ==
  ASSUME NEW e, e.next \in Nat \ {0}
  PROVE  LET left == \/ BehindMarker(input.events[e.next], e.marker)
                     \/ IsExcluded(input.events[e.next], input.coverage.excluded)
         IN  Due(e, e.next) = IF left THEN Due(e, e.next - 1)
                              ELSE Due(e, e.next - 1) \cup {e.next}
<1>1. 1 .. e.next = 1 .. (e.next - 1) \cup {e.next}
  OBVIOUS
<1> QED
  BY <1>1 DEF Due

(* An applied event is the next one, and a look-ahead ends the run.        *)
LEMMA ApplyKeeps ==
  ASSUME NEW e, IsEngine(e), NEW event, NEW place
  PROVE  LET f == Apply(e, event, place)
         IN  /\ IsEngine(f) /\ f.next = e.next /\ f.marker = e.marker
             /\ \/ f.status = "REJECTED"
                \/ f.status = e.status /\ f.applied = e.applied \cup {place}
<1> DEFINE counted == [e EXCEPT
            !.symbols[event.symbol] = Observed(@, event),
            !.checkpoint = [replayed |-> @.replayed + 1, at |-> event.at,
                            sequence |-> event.sequence],
            !.applied = @ \cup {place}]
           Fine(f) == /\ IsEngine(f) /\ f.next = e.next /\ f.marker = e.marker
                      /\ f.status = e.status /\ f.applied = e.applied \cup {place}
<1>1. Fine(counted)
  BY DEF IsEngine, EngineFields
<1> HIDE DEF counted
<1>2. Fine(Kept(counted)) /\ Fine([counted EXCEPT !.stage = "planning"])
  BY <1>1 DEF IsEngine, EngineFields, Kept
<1>3. LET f == [e EXCEPT !.status = "REJECTED"]
      IN  IsEngine(f) /\ f.next = e.next /\ f.marker = e.marker /\ f.status = "REJECTED"
  BY DEF IsEngine, EngineFields
<1>4. \/ Apply(e, event, place) = Kept(counted)
      \/ Apply(e, event, place) = [counted EXCEPT !.stage = "planning"]
      \/ Apply(e, event, place) = [e EXCEPT !.status = "REJECTED"]
  BY Zenon DEF Apply, counted
<1> QED
  BY <1>2, <1>3, <1>4

(* A run that finished has come to the end of its source or to the limit.  *)
LEMMA FinishedKeeps ==
  ASSUME NEW e, EngineInv(e), InputInv, e.status = "RUNNING",
         e.next > Len(input.events) \/ Truncates(e), NEW excluded
  PROVE  EngineInv(Finished(e, excluded))
<1>1. e.next - 1 = Limit
  BY ReplayAssumption
     DEF EngineInv, InputInv, Limit, Smaller, Truncates, BacktestSettings
<1>2. LET f == Finished(e, excluded)
      IN  /\ IsEngine(f) /\ f.next = e.next /\ f.marker = e.marker
          /\ f.applied = e.applied /\ f.status \in Completed
  BY DEF EngineInv, IsEngine, EngineFields, Finished, Completed
<1> QED
  BY <1>1, <1>2 DEF EngineInv, EngineStatuses, Completed, Due

(* One round over the source.                                              *)
LEMMA NextEventKeeps ==
  ASSUME NEW e, EngineInv(e), InputInv, e.status = "RUNNING"
  PROVE  EngineInv(NextEvent(e, input.events, input.coverage.excluded))
<1> DEFINE events == input.events
           excluded == input.coverage.excluded
           consumed == [e EXCEPT !.next = @ + 1]
           applied == Apply(consumed, events[e.next], e.next)
           left == BehindMarker(events[e.next], e.marker) \/ IsExcluded(events[e.next], excluded)
           result == NextEvent(e, events, excluded)
<1>1. CASE e.next > Len(events)
  <2>1. result = Finished(e, excluded)
    BY <1>1 DEF NextEvent
  <2> QED
    BY <1>1, <2>1, FinishedKeeps
<1>2. CASE ~(e.next > Len(events)) /\ Truncates(e)
  <2> DEFINE f == [e EXCEPT !.truncated = TRUE]
  <2>1. result = Finished(f, excluded)
    BY <1>2, Zenon DEF NextEvent
  <2>2. SameProgress(e, f)
    BY DEF EngineInv, SameProgress, IsEngine, EngineFields
  <2>3. EngineInv(f) /\ f.status = "RUNNING" /\ Truncates(f)
    BY <1>2, <2>2, SameProgressKeeps DEF SameProgress, Truncates
  <2> HIDE DEF f
  <2> QED
    BY <2>1, <2>3, FinishedKeeps
<1>3. /\ IsEngine(consumed) /\ consumed.next = e.next + 1 /\ consumed.marker = e.marker
      /\ consumed.status = e.status /\ consumed.applied = e.applied
  BY DEF EngineInv, IsEngine, EngineFields
<1>4. ASSUME ~(e.next > Len(events)), ~Truncates(e)
      PROVE  e.next <= Limit
  BY <1>4, ReplayAssumption
     DEF EngineInv, InputInv, Limit, Smaller, Truncates, BacktestSettings
<1>5. e.next \in Nat \ {0} /\ Due(e, e.next) = IF left THEN e.applied
                                                ELSE e.applied \cup {e.next}
  BY DueGrows DEF EngineInv
<1> HIDE DEF consumed, left
<1>6. CASE ~(e.next > Len(events)) /\ ~Truncates(e) /\ e.cancelled
  <2>1. result = [consumed EXCEPT !.status = "CANCELLED"]
    BY <1>6, Zenon DEF NextEvent, consumed
  <2> QED
    BY <1>3, <1>5, <2>1 DEF EngineInv, EngineStatuses, Completed, IsEngine, EngineFields
<1>7. CASE ~(e.next > Len(events)) /\ ~Truncates(e) /\ ~e.cancelled /\ left
  <2>1. result = consumed
    BY <1>7, Zenon DEF NextEvent, consumed, left
  <2>2. consumed.next - 1 = e.next /\ consumed.applied = Due(consumed, e.next)
    BY <1>3, <1>5, <1>7 DEF Due
  <2> QED
    BY <1>3, <1>4, <1>5, <1>7, <2>1, <2>2 DEF EngineInv, Completed
<1>8. CASE ~(e.next > Len(events)) /\ ~Truncates(e) /\ ~e.cancelled /\ ~left
  <2>1. result = applied
    BY <1>8, Zenon DEF NextEvent, consumed, left
  <2>2. /\ IsEngine(applied) /\ applied.next = e.next + 1 /\ applied.marker = e.marker
        /\ \/ applied.status = "REJECTED"
           \/ applied.status = e.status /\ applied.applied = e.applied \cup {e.next}
    BY <1>3, ApplyKeeps
  <2> HIDE DEF applied
  <2>3. Due(applied, e.next) = Due(e, e.next)
    BY <2>2 DEF Due
  <2>4. CASE applied.status = "REJECTED"
    BY <1>5, <2>1, <2>2, <2>4 DEF EngineInv, EngineStatuses, Completed
  <2>5. CASE applied.status = e.status /\ applied.applied = e.applied \cup {e.next}
    <3>1. e.next <= Limit /\ applied.applied = Due(applied, e.next)
      BY <1>4, <1>5, <1>8, <2>3, <2>5
    <3>2. applied.next \in Nat \ {0} /\ applied.next - 1 = e.next
      BY <1>5, <2>2
    <3> QED
      BY <2>1, <2>2, <2>5, <3>1, <3>2 DEF EngineInv, EngineStatuses, Completed
  <2> QED
    BY <2>2, <2>4, <2>5
<1> QED
  BY <1>1, <1>2, <1>6, <1>7, <1>8

-----------------------------------------------------------------------------
(* The runner.                                                             *)

(* A call at one of these places has an engine.                            *)
Places == {"start", "replay", "fail", "persist", "finish"}

(* Who waits for an engine, or cancels one, has one.                       *)
EnginesInv ==
    /\ engines = [q \in Requests |-> engines[q]]
    /\ \A q \in Requests : engines[q] = NoEngine \/ EngineInv(engines[q])
    /\ \A q \in Requests : requests[q].at \in Places => engines[q] # NoEngine
    /\ \A r \in Runs :
           active[r] # None => active[r] \in Requests /\ engines[active[r]] # NoEngine

IsRequest(x) == x = [f \in {"at", "run", "resumes", "marker", "left"} |-> x[f]]

IsRun(x) == x = [f \in {"id", "status", "checkpoint"} |-> x[f]]

Shapes ==
    /\ IsRun(run)
    /\ requests = [q \in Requests |-> requests[q]]
    /\ \A q \in Requests : IsRequest(requests[q])
    /\ active = [r \in Runs |-> active[r]]

RunnerInv == InputInv /\ Shapes /\ EnginesInv

(* A source is as long as its window has events.                           *)
LEMMA SourceIsFinite ==
  ASSUME NEW events, IsFiniteSet(events)
  PROVE  Len(Source(events)) \in Nat
<1> DEFINE window == {event \in events : event.at \in Start .. End}
           Place(event) == 1 + Cardinality({e \in window : Before(e, event)})
           n == Cardinality(window)
           f == [i \in 1 .. n |-> CHOOSE event \in window : Place(event) = i]
<1>1. n \in Nat
  BY FS_Subset, FS_CardinalityType
<1>2. Source(events) = f
  BY DEF Source
<1> HIDE DEF n
<1>3. f \in [1 .. n -> {f[i] : i \in 1 .. n}]
  OBVIOUS
<1> HIDE DEF f
<1> QED
  BY <1>1, <1>2, <1>3

(* Before the first request nothing runs.                                  *)
LEMMA RunnerInit == Init => RunnerInv
<1> SUFFICES ASSUME Init
             PROVE  RunnerInv
  OBVIOUS
<1>1. InputInv
  BY RunnerAssumption, SourceIsFinite DEF Init, InputInv, IsProvided
<1>2. Shapes
  BY DEF Init, Shapes, NoRun, Fresh, IsRun, IsRequest
<1>3. EnginesInv
  BY DEF Init, EnginesInv, Fresh, Places
<1> QED
  BY <1>1, <1>2, <1>3 DEF RunnerInv

(* An engine is no missing one.                                            *)
LEMMA EngineIsThere ==
  ASSUME NEW e, EngineInv(e)
  PROVE  e # NoEngine
  BY DEF EngineInv, EngineStatuses, Completed, NoEngine

(* A call that goes on needs no engine it does not have.                   *)
LEMMA MoveKeeps ==
  ASSUME RunnerInv, UNCHANGED <<input, engines>>, IsRun(run'),
         NEW q \in Requests, NEW x, IsRequest(x),
         x.at \in Places => requests[q].at \in Places,
         requests' = [requests EXCEPT ![q] = x],
         active' = active \/ \E r : active' = [active EXCEPT ![r] = None]
  PROVE  RunnerInv'
<1>1. InputInv'
  BY DEF RunnerInv, InputInv
<1>2. Shapes'
  BY DEF RunnerInv, Shapes
<1>3. \A e : EngineInv(e)' <=> EngineInv(e)
  BY DEF EngineInv, Due, Limit
<1>4. \A r \in Runs : active'[r] # None => active'[r] = active[r]
  BY DEF RunnerInv, Shapes
<1>5. EnginesInv'
  BY <1>3, <1>4 DEF RunnerInv, Shapes, EnginesInv
<1> QED
  BY <1>1, <1>2, <1>5 DEF RunnerInv

(* Another engine for a call, which may then go anywhere and be cancelled. *)
LEMMA EngineKeeps ==
  ASSUME RunnerInv, UNCHANGED <<input, run>>, NEW q \in Requests,
         NEW e, EngineInv(e), engines' = [engines EXCEPT ![q] = e],
         NEW x, IsRequest(x), requests' = [requests EXCEPT ![q] = x],
         active' = active \/ \E r : active' = [active EXCEPT ![r] = q]
  PROVE  RunnerInv'
<1>1. InputInv'
  BY DEF RunnerInv, InputInv
<1>2. Shapes'
  BY DEF RunnerInv, Shapes
<1>3. \A f : EngineInv(f)' <=> EngineInv(f)
  BY DEF EngineInv, Due, Limit
<1>4. /\ \A r \in Runs : active'[r] = active[r] \/ active'[r] = q
      /\ \A p \in Requests \ {q} : engines'[p] = engines[p] /\ requests'[p] = requests[p]
      /\ engines'[q] = e /\ e # NoEngine
      /\ engines' = [p \in Requests |-> engines'[p]]
  BY EngineIsThere DEF RunnerInv, Shapes, EnginesInv
<1>5. EnginesInv'
  BY <1>3, <1>4 DEF RunnerInv, EnginesInv
<1> QED
  BY <1>1, <1>2, <1>5 DEF RunnerInv

(* A call that goes to another place is the same call.                     *)
LEMMA GotoMoves ==
  ASSUME RunnerInv, NEW q \in Requests, NEW place
  PROVE  LET x == [requests[q] EXCEPT !.at = place]
         IN  /\ IsRequest(x) /\ x.at = place
             /\ Goto(q, place) <=> requests' = [requests EXCEPT ![q] = x]
  BY DEF RunnerInv, Shapes, IsRequest, Goto

(* So a call that goes on needs no engine it does not have.                *)
LEMMA GotoKeeps ==
  ASSUME RunnerInv, UNCHANGED <<input, engines>>, IsRun(run'),
         NEW q \in Requests, NEW place, Goto(q, place),
         place \in Places => requests[q].at \in Places,
         active' = active \/ \E r : active' = [active EXCEPT ![r] = None]
  PROVE  RunnerInv'
<1> DEFINE x == [requests[q] EXCEPT !.at = place]
<1>1. IsRequest(x) /\ x.at = place /\ requests' = [requests EXCEPT ![q] = x]
  BY GotoMoves
<1> HIDE DEF x
<1> QED
  BY <1>1, MoveKeeps

(* What is written of a run is a run.                                      *)
LEMMA ProgressKeepsRun ==
  ASSUME RunnerInv, NEW q, NEW status, NEW checkpoint,
         UpdateProgress(q, status, checkpoint)
  PROVE  /\ IsRun(run')
         /\ \/ run' = run
            \/ /\ run.id = requests[q].run /\ run.status \notin Terminal
               /\ run'.status = status
  BY DEF RunnerInv, Shapes, IsRun, UpdateProgress, Progress, Stored

(* The steps of a call that leave every engine alone.                      *)
LEMMA CallKeeps ==
  ASSUME RunnerInv, NEW q \in Requests,
         \/ Request(q) \/ Enter(q) \/ Lookup(q) \/ CreateRun(q) \/ CreateReport(q)
         \/ Reject(q) \/ StartRun(q) \/ TimesOut(q) \/ Fail(q) \/ PersistResult(q)
         \/ SaveCheckpoint(q) \/ Finish(q) \/ Collect(q)
  PROVE  RunnerInv'
<1> DEFINE Moves(place) ==
               Goto(q, place) /\ (place \in Places => requests[q].at \in Places)
           Quiet == /\ UNCHANGED <<input, engines>>
                    /\ active' = active \/ \E r : active' = [active EXCEPT ![r] = None]
<1>1. ASSUME NEW place, Moves(place), Quiet, IsRun(run')
      PROVE  RunnerInv'
  BY <1>1, GotoKeeps
<1>2. IsRun(run) /\ IsRequest(requests[q])
  BY DEF RunnerInv, Shapes
<1>3. CASE Request(q)
  <2>1. PICK r \in Runs, resumes \in BOOLEAN :
          requests' = [requests EXCEPT ![q] =
            [Fresh EXCEPT !.at = "waiting", !.run = r, !.resumes = resumes,
                          !.marker = IF resumes THEN reports[r].checkpoint
                                     ELSE NoCheckpoint]]
    BY <1>3 DEF Request
  <2> DEFINE marker == IF resumes THEN reports[r].checkpoint ELSE NoCheckpoint
             x == [Fresh EXCEPT !.at = "waiting", !.run = r, !.resumes = resumes,
                                !.marker = marker]
  <2> HIDE DEF marker
  <2>2. IsRequest(x) /\ x.at = "waiting"
    BY DEF IsRequest, Fresh
  <2>3. requests' = [requests EXCEPT ![q] = x]
    BY <2>1 DEF marker
  <2> HIDE DEF x
  <2> QED
    BY <1>2, <1>3, <2>2, <2>3, MoveKeeps DEF Request, Places
<1>4. CASE Enter(q) \/ Lookup(q)
  <2>1. Moves("lookup") \/ Moves("returned") \/ Moves("create")
    BY <1>4 DEF Enter, Lookup, Places
  <2>2. Quiet /\ run' = run
    BY <1>4 DEF Enter, Lookup
  <2> HIDE DEF Moves, Quiet
  <2> QED
    BY <1>1, <1>2, <2>1, <2>2
<1>5. CASE CreateRun(q)
  <2>1. IsRun(run')
    BY <1>2, <1>5 DEF CreateRun, IsRun, NoRun
  <2>2. Moves("report") /\ Quiet
    BY <1>5 DEF CreateRun, Places
  <2> QED
    BY <1>1, <2>1, <2>2
<1>6. CASE CreateReport(q)
  <2>1. Moves("validate") /\ Quiet /\ IsRun(run')
    BY <1>2, <1>6 DEF CreateReport, Places
  <2> QED
    BY <1>1, <2>1
<1>7. CASE Reject(q) \/ Fail(q) \/ Finish(q)
  <2>1. Moves("returned") /\ Quiet
    BY <1>7 DEF Reject, Fail, Finish, Places, Release
  <2>2. IsRun(run')
    BY <1>7, ProgressKeepsRun DEF Reject, Fail, Finish
  <2> QED
    BY <1>1, <2>1, <2>2
<1>8. CASE StartRun(q)
  <2>1. Moves("replay") /\ Quiet
    BY <1>8 DEF StartRun, Places, At
  <2>2. IsRun(run')
    BY <1>8, ProgressKeepsRun DEF StartRun
  <2> QED
    BY <1>1, <2>1, <2>2
<1>9. CASE TimesOut(q) \/ SaveCheckpoint(q)
  <2>1. (Moves("fail") \/ Moves("finish")) /\ Quiet /\ IsRun(run')
    BY <1>2, <1>9 DEF TimesOut, SaveCheckpoint, Places, At
  <2> QED
    BY <1>1, <2>1
<1>10. ASSUME NEW left, NEW place,
              requests' = [requests EXCEPT ![q].at = place, ![q].left = left],
              place \in Places => requests[q].at \in Places, Quiet, run' = run
       PROVE  RunnerInv'
  <2> DEFINE x == [requests[q] EXCEPT !.at = place, !.left = left]
  <2>1. IsRequest(x) /\ x.at = place
    BY <1>2 DEF IsRequest
  <2>2. requests' = [requests EXCEPT ![q] = x]
    BY <1>10 DEF RunnerInv, Shapes
  <2> HIDE DEF x
  <2> QED
    BY <1>2, <1>10, <2>1, <2>2, MoveKeeps
<1>11. CASE Collect(q)
  <2>1. requests[q].at \in Places
    BY <1>11 DEF Collect, At, Places
  <2> QED
    BY <1>10, <1>11, <2>1 DEF Collect, Release
<1>12. CASE PersistResult(q)
  <2>1. PICK result : requests' = [requests EXCEPT ![q].left = @ \ {result}]
    BY <1>12 DEF PersistResult
  <2> DEFINE x == [requests[q] EXCEPT !.left = @ \ {result}]
  <2>2. IsRequest(x) /\ x.at = requests[q].at
    BY <1>2 DEF IsRequest
  <2>3. requests' = [requests EXCEPT ![q] = x]
    BY <2>1 DEF RunnerInv, Shapes
  <2> HIDE DEF x
  <2> QED
    BY <1>2, <1>12, <2>2, <2>3, MoveKeeps DEF PersistResult
<1> QED
  BY <1>3, <1>4, <1>5, <1>6, <1>7, <1>8, <1>9, <1>11, <1>12

(* The steps of the engines: a new one, a round, a cancellation, an error. *)
LEMMA EnginesKeep ==
  ASSUME RunnerInv, NEW q \in Requests,
         Validate(q) \/ Replays(q) \/ EngineRaises(q) \/ \E r \in Runs : Cancel(r)
  PROVE  RunnerInv'
<1>1. IsRequest(requests[q]) /\ IsRun(run) /\ requests = [requests EXCEPT ![q] = requests[q]]
  BY DEF RunnerInv, Shapes
<1>2. CASE Validate(q) /\ Goto(q, "reject") /\ UNCHANGED <<engines, active>>
  BY <1>1, <1>2, GotoKeeps DEF Validate, Places
<1>3. CASE Validate(q) /\ ~(Goto(q, "reject") /\ UNCHANGED <<engines, active>>)
  <2>1. /\ Goto(q, "start")
        /\ active' = [active EXCEPT ![requests[q].run] = q]
        /\ UNCHANGED <<input, run>>
        /\ \E delays : engines' = [engines EXCEPT ![q] = NewEngine(requests[q].marker, delays)]
    BY <1>3 DEF Validate
  <2>2. PICK delays : engines' = [engines EXCEPT ![q] = NewEngine(requests[q].marker, delays)]
    BY <2>1
  <2>3. EngineInv(NewEngine(requests[q].marker, delays))
    BY NewEngineInv DEF RunnerInv
  <2> QED
    BY <2>1, <2>2, <2>3, GotoMoves, EngineKeeps
<1>4. CASE Replays(q)
  <2> DEFINE e == engines[q]
             f == IF e.stage = "events"
                  THEN NextEvent(e, input.events, input.coverage.excluded)
                  ELSE Work(e, input.events[e.next - 1])
  <2>1. EngineInv(e) /\ e.status = "RUNNING" /\ InputInv
    BY <1>4 DEF Replays, RunnerInv, EnginesInv
  <2>2. EngineInv(f)
    BY <2>1, NextEventKeeps, WorkKeeps
  <2>3. engines' = [engines EXCEPT ![q] = f]
    BY <1>4, Zenon DEF Replays
  <2> HIDE DEF f
  <2> QED
    BY <1>1, <1>4, <2>2, <2>3, EngineKeeps DEF Replays
<1>5. CASE EngineRaises(q)
  <2> DEFINE f == [engines[q] EXCEPT !.status = "RAISED"]
  <2>1. engines[q] # NoEngine
    BY <1>5 DEF EngineRaises, RunnerInv, EnginesInv, At, Places
  <2>2. EngineInv(f)
    BY <2>1 DEF RunnerInv, EnginesInv, EngineInv, IsEngine, EngineFields, EngineStatuses,
                Completed
  <2>3. engines' = [engines EXCEPT ![q] = f]
    BY <1>5 DEF EngineRaises, RunnerInv, EnginesInv
  <2> HIDE DEF f
  <2> QED
    BY <1>5, <2>2, <2>3, GotoMoves, EngineKeeps DEF EngineRaises
<1>6. ASSUME NEW r \in Runs, Cancel(r)
      PROVE  RunnerInv'
  <2> DEFINE p == active[r]
             f == [engines[p] EXCEPT !.cancelled = TRUE]
  <2>1. p \in Requests /\ EngineInv(engines[p])
    BY <1>6 DEF Cancel, RunnerInv, EnginesInv
  <2>2. SameProgress(engines[p], f)
    BY <2>1 DEF EngineInv, SameProgress, IsEngine, EngineFields
  <2>3. EngineInv(f)
    BY <2>1, <2>2, SameProgressKeeps
  <2>4. engines' = [engines EXCEPT ![p] = f]
    BY <1>6 DEF Cancel, RunnerInv, EnginesInv
  <2>5. IsRequest(requests[p]) /\ requests' = [requests EXCEPT ![p] = requests[p]]
    BY <1>6, <2>1 DEF Cancel, RunnerInv, Shapes
  <2> HIDE DEF f, p
  <2> QED
    BY <1>6, <2>1, <2>3, <2>4, <2>5, EngineKeeps DEF Cancel
<1> QED
  BY <1>2, <1>3, <1>4, <1>5, <1>6

(* A crash leaves no engine and none who waits for it.                     *)
LEMMA CrashKeeps ==
  ASSUME RunnerInv, Crash
  PROVE  RunnerInv'
<1>1. InputInv'
  BY DEF RunnerInv, InputInv, Crash
<1>2. Shapes'
  BY DEF RunnerInv, Shapes, Crash, IsRequest
<1>3. \A q \in Requests : requests'[q].at \notin Places
  BY DEF RunnerInv, Shapes, Crash, IsRequest, Places
<1>4. EnginesInv'
  BY <1>3 DEF Crash, EnginesInv
<1> QED
  BY <1>1, <1>2, <1>4 DEF RunnerInv

(* Every step keeps the invariant.                                         *)
LEMMA RunnerNext ==
  ASSUME RunnerInv, [Next]_vars
  PROVE  RunnerInv'
<1>1. CASE UNCHANGED vars
  BY <1>1 DEF vars, RunnerInv, InputInv, Shapes, EnginesInv, EngineInv, Due, Limit
<1>2. ASSUME NEW q \in Requests, Request(q) \/ RequestStep(q) \/ Replays(q)
                                   \/ TimesOut(q) \/ EngineRaises(q)
      PROVE  RunnerInv'
  BY <1>2, CallKeeps, EnginesKeep DEF RequestStep
<1>3. ASSUME NEW r \in Runs, Cancel(r)
      PROVE  RunnerInv'
  <2>1. active[r] \in Requests
    BY <1>3 DEF Cancel, RunnerInv, EnginesInv
  <2> QED
    BY <1>3, <2>1, EnginesKeep
<1> QED
  BY <1>1, <1>2, <1>3, CrashKeeps DEF Next

-----------------------------------------------------------------------------
(* The runs.                                                               *)

(* What a step may write of the run: its creation, or the progress of a    *)
(* call of this run, which reports an end as its engine found it.          *)
LEMMA RunSteps ==
  ASSUME RunnerInv, [Next]_vars
  PROVE  \/ run' = run
         \/ run = NoRun /\ run'.status = "VALIDATING"
         \/ \E q \in Requests :
               /\ run.id = requests[q].run /\ run.status \notin Terminal
               /\ \/ run'.status \in {"REJECTED", "RUNNING", "FAILED"}
                  \/ At(q, "finish") /\ run'.status = engines[q].status
<1>1. CASE UNCHANGED vars
  BY <1>1 DEF vars
<1>2. ASSUME NEW q \in Requests, CreateRun(q)
      PROVE  run' = run \/ (run = NoRun /\ run'.status = "VALIDATING")
  BY <1>2 DEF CreateRun, NoRun
<1>3. ASSUME NEW q \in Requests, Reject(q)
      PROVE  \/ run' = run
             \/ run.id = requests[q].run /\ run.status \notin Terminal /\ run'.status = "REJECTED"
  BY <1>3, ProgressKeepsRun DEF Reject
<1>4. ASSUME NEW q \in Requests, StartRun(q)
      PROVE  \/ run' = run
             \/ run.id = requests[q].run /\ run.status \notin Terminal /\ run'.status = "RUNNING"
  BY <1>4, ProgressKeepsRun DEF StartRun
<1>5. ASSUME NEW q \in Requests, Fail(q)
      PROVE  \/ run' = run
             \/ run.id = requests[q].run /\ run.status \notin Terminal /\ run'.status = "FAILED"
  BY <1>5, ProgressKeepsRun DEF Fail
<1>6. ASSUME NEW q \in Requests, Finish(q)
      PROVE  \/ run' = run
             \/ /\ run.id = requests[q].run /\ run.status \notin Terminal
                /\ At(q, "finish") /\ run'.status = engines[q].status
  BY <1>6, ProgressKeepsRun DEF Finish
<1>7. ASSUME NEW q \in Requests,
             \/ Request(q) \/ Enter(q) \/ Lookup(q) \/ CreateReport(q) \/ Validate(q)
             \/ Collect(q) \/ PersistResult(q) \/ SaveCheckpoint(q)
             \/ Replays(q) \/ TimesOut(q) \/ EngineRaises(q)
      PROVE  run' = run
  BY <1>7 DEF Request, Enter, Lookup, CreateReport, Validate, Collect, PersistResult,
              SaveCheckpoint, Replays, TimesOut, EngineRaises
<1>8. ASSUME Crash \/ \E r \in Runs : Cancel(r)
      PROVE  run' = run
  BY <1>8 DEF Crash, Cancel
<1> QED
  BY <1>1, <1>2, <1>3, <1>4, <1>5, <1>6, <1>7, <1>8 DEF Next, RequestStep

(* Terminal runs are immutable history (simulation_run_repository.py:113): *)
(* neither a resumed request nor one that outlives another touches them.   *)
THEOREM TerminalIsFinalHolds == Spec => TerminalIsFinal
<1>1. RunnerInv /\ [Next]_vars => RunnerInv'
  BY RunnerNext
<1>2. RunnerInv /\ [Next]_vars => [run.status \in Terminal => run' = run]_vars
  BY RunSteps DEF NoRun, Terminal
<1> QED
  BY RunnerInit, <1>1, <1>2, PTL DEF Spec, TerminalIsFinal

(* A run is reported as complete only by a call of it whose engine applied *)
(* every event of the window that was due (backtest_engine.py, run;        *)
(* _persist_result).                                                       *)
THEOREM CompletedRunsAreWholeHolds == Spec => CompletedRunsAreWhole
<1> DEFINE Reported ==
        run'.status \in Completed /\ run.status \notin Completed =>
            \E q \in Requests :
                /\ engines[q] # NoEngine
                /\ requests[q].run = run.id
                /\ engines[q].status = run'.status
                /\ Whole(q)
<1>1. RunnerInv /\ [Next]_vars => RunnerInv'
  BY RunnerNext
<1>2. ASSUME RunnerInv, NEW q \in Requests, engines[q] # NoEngine,
             engines[q].status \in Completed
      PROVE  Whole(q)
  <2>1. engines[q].applied = Due(engines[q], Limit)
    BY <1>2 DEF RunnerInv, EnginesInv, EngineInv
  <2> QED
    BY <2>1 DEF Due, Limit, Whole
<1>3. RunnerInv /\ [Next]_vars => Reported
  <2> SUFFICES ASSUME RunnerInv, [Next]_vars,
                      run'.status \in Completed, run.status \notin Completed
               PROVE  Reported
    OBVIOUS
  <2>1. PICK q \in Requests : /\ run.id = requests[q].run
                              /\ At(q, "finish") /\ run'.status = engines[q].status
    BY RunSteps DEF Completed
  <2>2. engines[q] # NoEngine
    BY <2>1 DEF RunnerInv, EnginesInv, At, Places
  <2> QED
    BY <1>2, <2>1, <2>2
<1> QED
  BY RunnerInit, <1>1, <1>3, PTL DEF Spec, CompletedRunsAreWhole

-----------------------------------------------------------------------------
(* What an engine knows of time.                                           *)

(* The instant an engine is at, and what is not ahead of it.               *)
Now(e) == input.events[e.next - 1].at

Past(e, t) == t \in Nat /\ e.next > 1 /\ t <= Now(e)

CandleInstants(e, symbol) ==
    {input.events[i].at : i \in {i \in e.applied :
        input.events[i].category = "CLOSED_CANDLE" /\ input.events[i].symbol = symbol}}

(* Events come in the order of time.                                       *)
OrderedInv ==
    /\ input.events \in Seq(ReplayEvent)
    /\ \A i, j \in 1 .. Len(input.events) :
          i < j => input.events[i].at <= input.events[j].at

Stages == {"events", "planning", "monitoring", "capture", "simulation"}

(* Between two events nothing is under way; otherwise the last event is an *)
(* applied candle.                                                         *)
StageInv(e) ==
    /\ e.next \in 1 .. Len(input.events) + 1
    /\ e.applied \subseteq 1 .. e.next - 1
    /\ e.stage \in Stages
    /\ e.stage # "events" =>
          /\ e.next - 1 \in e.applied
          /\ input.events[e.next - 1].category = "CLOSED_CANDLE"

(* What is observed of a symbol is not ahead of the engine.                *)
ObservationInv(e, o) ==
    /\ o = [f \in DOMAIN NewSymbol |-> o[f]]
    /\ o.quality \in BOOLEAN /\ o.session \in BOOLEAN /\ o.fresh \in BOOLEAN
    /\ o.funding \in {None, KnownFunding}
    /\ o.quoteAt # None => Past(e, o.quoteAt)
    /\ o.bookAt # None => Past(e, o.bookAt)

ObservedInv(e) ==
    /\ e.symbols = [s \in Symbols |-> e.symbols[s]]
    /\ \A s \in Symbols : ObservationInv(e, e.symbols[s])

CandidatesInv(c) ==
    /\ c = [key \in DOMAIN PlanOfKey |-> c[key]]
    /\ \A key \in DOMAIN PlanOfKey :
          /\ c[key] = [f \in DOMAIN NoCandidate |-> c[key][f]]
          /\ c[key].planned \in BOOLEAN
          /\ c[key].planned => c[key].state = "CONFIRMED"

PlannedKeys(c) == {key \in DOMAIN PlanOfKey : c[key].planned}

(* The plans behind the first are derived from a candidate each, so that   *)
(* every plan has its delay.                                               *)
PlansInv(e) ==
    /\ e.delays \in [1 .. MaxPlans -> Delays]
    /\ e.plans \in Seq(Plan)
    /\ e.lifecycles = [i \in 1 .. Len(e.plans) |-> e.lifecycles[i]]
    /\ CandidatesInv(e.candidates)
    /\ Len(e.plans) <= Len(SeedPlans) + Cardinality(PlannedKeys(e.candidates))

(* A confirmation lies within the life of its plan, and the entry is due   *)
(* no earlier.                                                             *)
Confirmed(e, x, plan) ==
    /\ x.due \in Nat /\ Past(e, x.confirmedAt)
    /\ plan.asOf <= x.confirmedAt /\ x.confirmedAt < plan.expiry
    /\ x.confirmedAt <= x.due

(* The candle that is worked on and has not come to the capture.           *)
Pending(e, symbol, t) ==
    /\ e.stage \in {"planning", "monitoring", "capture"}
    /\ input.events[e.next - 1].symbol = symbol /\ t = Now(e)

(* An entry is captured at the first candle that finds it due.             *)
CapturedFirst(e, l, plan) ==
    /\ l.due # None /\ l.entry \in ReplayMarket
    /\ l.entry.at \in CandleInstants(e, plan.symbol) /\ l.due <= l.entry.at
    /\ \A t \in CandleInstants(e, plan.symbol) : l.due <= t => l.entry.at <= t
    /\ l.entry.bookAt # None => l.entry.bookAt <= l.entry.at

LifecycleInv(e, l, plan) ==
    /\ l = [f \in DOMAIN NoLifecycle |-> l[f]]
    /\ l.state # "NONE" => Past(e, plan.asOf)
    /\ l.state \in {"NONE", "WATCHING_ENTRY"} => l.due = None
    /\ l.terminalAt # None => l.state \in FinalStates
    /\ l.due = None => l.confirmedAt = None /\ l.entry = None
    /\ l.due # None => Confirmed(e, l, plan)
    /\ l.due # None /\ l.entry = None =>
          \A t \in CandleInstants(e, plan.symbol) : t < l.due \/ Pending(e, plan.symbol, t)
    /\ l.entry # None => CapturedFirst(e, l, plan)

(* A result keeps what was true when it was made, whatever comes later.    *)
ResultInv(e, r) ==
    LET plan == e.plans[r.plan]
        usable == {t \in CandleInstants(e, plan.symbol) : t >= r.due /\ t <= r.exitAt}
    IN  /\ r.plan \in 1 .. Len(e.plans)
        /\ Confirmed(e, r, plan)
        /\ r.confirmedAt <= r.exitAt /\ r.exitAt \in CandleInstants(e, plan.symbol)
        /\ r.entryAt = IF usable = {} THEN None ELSE Min(usable)
        /\ r.entryAt # None /\ r.bookAt # None => r.bookAt <= r.entryAt
        /\ r.entryAt = None => r.state = "REJECTED"

TimesInv(e) ==
    /\ StageInv(e) /\ ObservedInv(e) /\ PlansInv(e)
    /\ \A i \in 1 .. Len(e.plans) : LifecycleInv(e, e.lifecycles[i], e.plans[i])
    /\ \A r \in e.results : ResultInv(e, r)

-----------------------------------------------------------------------------
(* The order of events.                                                    *)

(* What the order compares are numbers.                                    *)
LEMMA SortKeyType ==
  ASSUME NEW a \in ReplayEvent
  PROVE  SortKey(a) \in Int \X Int \X Int \X Int
<1>1. PICK i \in DOMAIN Categories : Categories[i] = a.category
  BY DEF ReplayEvent
<1>2. Priority(a.category) \in DOMAIN Categories
  BY <1>1, Zenon DEF Priority
<1>3. DOMAIN Categories \subseteq Int
  BY DEF Categories
<1>4. a.at \in Nat /\ a.symbol \in Symbols /\ a.sequence \in Int
  BY Zenon DEF ReplayEvent
<1>5. a.symbol \in Nat
  BY <1>4, ReplayAssumption, Zenon
<1> QED
  BY <1>2, <1>3, <1>4, <1>5 DEF SortKey

(* The order is that of the alphabet on the keys.                          *)
LEMMA BeforeIsLexical ==
  ASSUME NEW a \in ReplayEvent, NEW b \in ReplayEvent
  PROVE  LET k == SortKey(a)
             l == SortKey(b)
         IN  Before(a, b) <=>
                \/ k[1] < l[1]
                \/ k[1] = l[1] /\ k[2] < l[2]
                \/ k[1] = l[1] /\ k[2] = l[2] /\ k[3] < l[3]
                \/ k[1] = l[1] /\ k[2] = l[2] /\ k[3] = l[3] /\ k[4] < l[4]
<1> DEFINE k == SortKey(a)
           l == SortKey(b)
<1>1. Before(a, b) <=> \E i \in 1 .. 4 : k[i] < l[i] /\ \A j \in 1 .. (i - 1) : k[j] = l[j]
  BY Zenon DEF Before
<1> HIDE DEF k, l
<1>2. \A i \in 1 .. 4 : i = 1 \/ i = 2 \/ i = 3 \/ i = 4
  OBVIOUS
<1>3. /\ 1 .. (1 - 1) = {} /\ 1 .. (2 - 1) = {1} /\ 1 .. (3 - 1) = {1, 2}
      /\ 1 .. (4 - 1) = {1, 2, 3} /\ {1, 2, 3, 4} \subseteq 1 .. 4
  OBVIOUS
<1> QED
  BY <1>1, <1>2, <1>3 DEF k, l

(* It is total on what a provider may hold, and goes with time.            *)
LEMMA BeforeIsTotal ==
  ASSUME NEW events, IsProvided(events)
  PROVE  /\ \A a \in events : ~Before(a, a)
         /\ \A a, b \in events : a # b => Before(a, b) \/ Before(b, a)
         /\ \A a, b, c \in events : Before(a, b) /\ Before(b, c) => Before(a, c)
         /\ \A a, b \in events : a.at < b.at => Before(a, b)
<1>1. \A a \in events : a \in ReplayEvent /\ SortKey(a) \in Int \X Int \X Int \X Int
  BY SortKeyType DEF IsProvided
<1>2. \A a, b \in events : a # b =>
        \/ SortKey(a)[1] # SortKey(b)[1] \/ SortKey(a)[2] # SortKey(b)[2]
        \/ SortKey(a)[3] # SortKey(b)[3] \/ SortKey(a)[4] # SortKey(b)[4]
  BY <1>1 DEF IsProvided
<1>3. \A a \in events : SortKey(a)[1] = a.at
  BY DEF SortKey
<1>4. \A a, b \in events : Before(a, b) <=>
        \/ SortKey(a)[1] < SortKey(b)[1]
        \/ SortKey(a)[1] = SortKey(b)[1] /\ SortKey(a)[2] < SortKey(b)[2]
        \/ SortKey(a)[1] = SortKey(b)[1] /\ SortKey(a)[2] = SortKey(b)[2]
           /\ SortKey(a)[3] < SortKey(b)[3]
        \/ SortKey(a)[1] = SortKey(b)[1] /\ SortKey(a)[2] = SortKey(b)[2]
           /\ SortKey(a)[3] = SortKey(b)[3] /\ SortKey(a)[4] < SortKey(b)[4]
  BY <1>1, BeforeIsLexical
<1>5. \A a \in events : /\ SortKey(a)[1] \in Int /\ SortKey(a)[2] \in Int
                        /\ SortKey(a)[3] \in Int /\ SortKey(a)[4] \in Int
  BY <1>1
<1>6. \A a \in events : ~Before(a, a)
  BY <1>4, <1>5
<1>7. \A a, b \in events : a # b => Before(a, b) \/ Before(b, a)
  BY <1>2, <1>4, <1>5
<1>8. \A a, b, c \in events : Before(a, b) /\ Before(b, c) => Before(a, c)
  BY <1>4, <1>5
<1>9. \A a, b \in events : a.at < b.at => Before(a, b)
  BY <1>3, <1>4
<1> QED
  BY <1>6, <1>7, <1>8, <1>9

(***************************************************************************)
(* A source has an event for every place, and goes on with time.  The      *)
(* number of events before each of them is injective and none has all of   *)
(* them before it, so that every place is taken.                           *)
(***************************************************************************)
LEMMA SourceIsOrdered ==
  ASSUME NEW events, IsProvided(events)
  PROVE  /\ Source(events) \in Seq(ReplayEvent)
         /\ \A i, j \in 1 .. Len(Source(events)) :
                i < j => Source(events)[i].at <= Source(events)[j].at
<1> DEFINE window == {event \in events : event.at \in Start .. End}
           A(event) == {e \in window : Before(e, event)}
           Place(event) == 1 + Cardinality({e \in window : Before(e, event)})
           n == Cardinality(window)
           place == [event \in window |-> Place(event)]
           s == Source(events)
<1>1. IsFiniteSet(window) /\ n \in Nat /\ window \subseteq ReplayEvent
  BY FS_Subset, FS_CardinalityType DEF IsProvided
<1>2. /\ \A a \in window : ~Before(a, a)
      /\ \A a, b \in window : a # b => Before(a, b) \/ Before(b, a)
      /\ \A a, b, c \in window : Before(a, b) /\ Before(b, c) => Before(a, c)
      /\ \A a, b \in window : a.at < b.at => Before(a, b)
  BY BeforeIsTotal
<1>3. s = [i \in 1 .. n |-> CHOOSE event \in window : Place(event) = i]
  BY DEF Source
<1>p. \A a : Place(a) = 1 + Cardinality(A(a))
  OBVIOUS
<1> HIDE DEF window, n, s, Place
<1>4. \A a \in window : A(a) \subseteq window /\ IsFiniteSet(A(a)) /\ Cardinality(A(a)) \in Nat
  BY <1>1, FS_Subset, FS_CardinalityType
<1>5. \A a, b \in window : Before(a, b) => Place(a) < Place(b)
  <2> SUFFICES ASSUME NEW a \in window, NEW b \in window, Before(a, b)
               PROVE  Cardinality(A(a)) < Cardinality(A(b))
    <3> HIDE DEF A
    <3> QED
      BY <1>4, <1>p
  <2>1. A(a) \cup {a} \subseteq A(b) /\ a \notin A(a)
    BY <1>2
  <2> HIDE DEF A
  <2>2. Cardinality(A(a) \cup {a}) = Cardinality(A(a)) + 1
    BY <1>4, <2>1, FS_AddElement
  <2>3. Cardinality(A(a) \cup {a}) <= Cardinality(A(b))
    BY <1>4, <2>1, FS_Subset
  <2> QED
    BY <1>4, <2>2, <2>3
<1>6. \A a \in window : Place(a) \in 1 .. n
  <2> SUFFICES ASSUME NEW a \in window
               PROVE  Cardinality(A(a)) < n
    <3> HIDE DEF A
    <3> QED
      BY <1>1, <1>4, <1>p
  <2>1. A(a) # window
    BY <1>2
  <2> HIDE DEF A
  <2>2. Cardinality(A(a)) <= n /\ Cardinality(A(a)) # n
    BY <1>1, <1>4, <2>1, FS_Subset DEF n
  <2> QED
    BY <1>1, <1>4, <2>2
<1>7. \A i \in 1 .. n : \E a \in window : Place(a) = i
  <2>1. place \in Injection(window, 1 .. n)
    <3>1. place \in [window -> 1 .. n]
      BY <1>6
    <3>2. \A a, b \in window : place[a] = place[b] => a = b
      <4> SUFFICES ASSUME NEW a \in window, NEW b \in window, a # b
                   PROVE  Place(a) # Place(b)
        OBVIOUS
      <4>1. Place(a) < Place(b) \/ Place(b) < Place(a)
        BY <1>2, <1>5
      <4>2. Place(a) \in Int /\ Place(b) \in Int
        BY <1>6
      <4> QED
        BY <4>1, <4>2
    <3> QED
      BY <3>1, <3>2 DEF Injection, IsInjective
  <2>2. IsFiniteSet(1 .. n) /\ Cardinality(1 .. n) = n
    BY <1>1, FS_Interval
  <2>3. place \in Surjection(window, 1 .. n)
    <3> HIDE DEF place
    <3> QED
      BY <2>1, <2>2, FS_Injection DEF n
  <2>4. \A i \in 1 .. n : \E a \in window : place[a] = i
    <3> HIDE DEF place
    <3> QED
      BY <2>3 DEF Surjection
  <2> QED
    BY <2>4
<1> HIDE DEF place
<1>8. \A i \in 1 .. n : s[i] \in window /\ Place(s[i]) = i
  BY <1>3, <1>7
<1>9. s \in Seq(ReplayEvent) /\ Len(s) = n
  <2>1. s \in [1 .. n -> ReplayEvent]
    BY <1>1, <1>3, <1>8
  <2> QED
    BY <1>1, <2>1
<1>10. ASSUME NEW i \in 1 .. n, NEW j \in 1 .. n, i < j
       PROVE  s[i].at <= s[j].at
  <2>1. s[i] \in window /\ s[j] \in window /\ ~(Place(s[j]) < Place(s[i]))
    BY <1>8, <1>10
  <2>2. ~(s[j].at < s[i].at)
    BY <1>2, <1>5, <2>1
  <2>3. s[i].at \in Nat /\ s[j].at \in Nat
    BY <1>1, <2>1 DEF ReplayEvent
  <2> QED
    BY <2>2, <2>3
<1> QED
  BY <1>9, <1>10 DEF s

-----------------------------------------------------------------------------
(* Time within an engine.                                                  *)

(* Places are numbers, and events have instants.                           *)
LEMMA PlaceType ==
  ASSUME OrderedInv, NEW e, StageInv(e)
  PROVE  /\ Len(input.events) \in Nat /\ e.next \in Nat
         /\ \A i \in 1 .. e.next - 1 :
                i \in 1 .. Len(input.events) /\ input.events[i] \in ReplayEvent
                /\ input.events[i].at \in Nat
         /\ e.next > 1 => Now(e) \in Nat
<1>1. Len(input.events) \in Nat /\ \A i \in 1 .. Len(input.events) : input.events[i] \in ReplayEvent
  BY DEF OrderedInv
<1>2. \A a \in ReplayEvent : a.at \in Nat
  BY Zenon DEF ReplayEvent
<1>3. e.next \in Nat /\ \A i \in 1 .. e.next - 1 : i \in 1 .. Len(input.events)
  BY <1>1 DEF StageInv
<1>4. e.next > 1 => e.next - 1 \in 1 .. e.next - 1
  BY <1>3
<1> QED
  BY <1>1, <1>2, <1>3, <1>4 DEF Now

(* An engine works on what is not ahead of it.                             *)
LEMMA InstantsArePast ==
  ASSUME OrderedInv, NEW e, StageInv(e), NEW symbol, NEW t \in CandleInstants(e, symbol)
  PROVE  Past(e, t)
<1>1. PICK i \in e.applied : t = input.events[i].at
  BY DEF CandleInstants
<1>2. i \in 1 .. e.next - 1 /\ e.next > 1
  BY <1>1, PlaceType DEF StageInv
<1>3. t \in Nat
  BY <1>1, <1>2, PlaceType
<1>4. e.next - 1 \in 1 .. Len(input.events) /\ i \in 1 .. Len(input.events)
  BY <1>2, PlaceType
<1>5. i < e.next - 1 => t <= Now(e)
  BY <1>1, <1>4 DEF OrderedInv, Now
<1>6. i = e.next - 1 => t <= Now(e)
  BY <1>1, <1>3 DEF Now
<1> QED
  BY <1>2, <1>3, <1>5, <1>6, PlaceType DEF Past

(* What was behind an engine stays behind it.                              *)
LEMMA PastStays ==
  ASSUME OrderedInv, NEW e, StageInv(e), NEW f,
         f.next = e.next \/ (f.next = e.next + 1 /\ e.next <= Len(input.events)),
         NEW t, Past(e, t)
  PROVE  Past(f, t)
<1>1. CASE f.next = e.next
  BY <1>1 DEF Past, Now
<1>2. CASE f.next = e.next + 1 /\ e.next <= Len(input.events)
  <2>1. e.next \in Nat /\ e.next > 1 /\ Len(input.events) \in Nat
    BY PlaceType DEF Past
  <2>2. e.next - 1 \in 1 .. Len(input.events) /\ e.next \in 1 .. Len(input.events)
    BY <1>2, <2>1
  <2>3. input.events[e.next - 1].at <= input.events[e.next].at
    BY <2>1, <2>2 DEF OrderedInv
  <2>4. f.next - 1 = e.next /\ f.next > 1
    BY <1>2, <2>1
  <2>5. input.events[e.next].at \in Nat /\ input.events[e.next - 1].at \in Nat
    <3>1. input.events[e.next] \in ReplayEvent /\ input.events[e.next - 1] \in ReplayEvent
      BY <2>2 DEF OrderedInv
    <3> QED
      BY <3>1, Zenon DEF ReplayEvent
  <2>6. t \in Nat /\ t <= input.events[e.next - 1].at
    BY DEF Past, Now
  <2> QED
    BY <2>3, <2>4, <2>5, <2>6 DEF Past, Now
<1> QED
  BY <1>1, <1>2

(* What a step of an engine does to its past: nothing, or a candle comes   *)
(* behind all others and is to be worked on.                               *)
Continues(e, f) ==
    /\ \A t : Past(e, t) => Past(f, t)
    /\ \A s : CandleInstants(e, s) \subseteq CandleInstants(f, s)
    /\ \A s : \A t \in CandleInstants(f, s) : t \notin CandleInstants(e, s) =>
          Pending(f, s, t) /\ \A u \in CandleInstants(e, s) : u <= t
    /\ \A s : \A t \in CandleInstants(f, s) : t \in Nat

(* A confirmation stays within its life.                                   *)
LEMMA ConfirmedStays ==
  ASSUME NEW e, NEW f, Continues(e, f), NEW x, NEW plan, Confirmed(e, x, plan)
  PROVE  Confirmed(f, x, plan)
  BY DEF Continues, Confirmed

(* A lifecycle that nobody touches.                                        *)
LEMMA LifecycleStays ==
  ASSUME NEW e, NEW f, Continues(e, f), NEW l, NEW plan, LifecycleInv(e, l, plan),
         l.due # None /\ l.entry = None =>
            \A t : Pending(e, plan.symbol, t) => Pending(f, plan.symbol, t) \/ t < l.due
  PROVE  LifecycleInv(f, l, plan)
<1>1. l.state # "NONE" => Past(f, plan.asOf)
  BY DEF Continues, LifecycleInv
<1>2. l.due # None => Confirmed(f, l, plan)
  BY ConfirmedStays DEF LifecycleInv
<1>3. l.due # None /\ l.entry = None =>
        \A t \in CandleInstants(f, plan.symbol) : t < l.due \/ Pending(f, plan.symbol, t)
  BY DEF Continues, LifecycleInv
<1>4. l.entry # None => CapturedFirst(f, l, plan)
  <2> SUFFICES ASSUME l.entry # None
               PROVE  CapturedFirst(f, l, plan)
    OBVIOUS
  <2>1. CapturedFirst(e, l, plan)
    BY DEF LifecycleInv
  <2>2. l.entry.at \in CandleInstants(e, plan.symbol)
    BY <2>1 DEF CapturedFirst
  <2>3. \A t \in CandleInstants(f, plan.symbol) : l.due <= t => l.entry.at <= t
    BY <2>1, <2>2 DEF CapturedFirst, Continues
  <2> QED
    BY <2>1, <2>2, <2>3 DEF CapturedFirst, Continues
<1> QED
  BY <1>1, <1>2, <1>3, <1>4 DEF LifecycleInv

(* A result.                                                               *)
LEMMA ResultStays ==
  ASSUME NEW e, NEW f, Continues(e, f), NEW r, ResultInv(e, r),
         Len(e.plans) \in Nat, Len(f.plans) \in Nat, Len(e.plans) <= Len(f.plans),
         f.plans[r.plan] = e.plans[r.plan]
  PROVE  ResultInv(f, r)
<1> DEFINE plan == e.plans[r.plan]
           before == {t \in CandleInstants(e, plan.symbol) : t >= r.due /\ t <= r.exitAt}
           after == {t \in CandleInstants(f, plan.symbol) : t >= r.due /\ t <= r.exitAt}
<1>1. r.exitAt \in CandleInstants(e, plan.symbol)
  BY DEF ResultInv
<1>2. ASSUME NEW t \in CandleInstants(f, plan.symbol), t <= r.exitAt
      PROVE  t \in CandleInstants(e, plan.symbol)
  <2> SUFFICES ASSUME t \notin CandleInstants(e, plan.symbol)
               PROVE  FALSE
    OBVIOUS
  <2>1. r.exitAt <= t /\ t \in Nat /\ r.exitAt \in Nat
    BY <1>1 DEF Continues
  <2> QED
    BY <1>1, <1>2, <2>1
<1>3. after = before
  BY <1>2 DEF Continues
<1>4. Confirmed(f, r, plan)
  BY ConfirmedStays DEF ResultInv
<1>5. r.exitAt \in CandleInstants(f, plan.symbol)
  BY <1>1 DEF Continues
<1>6. r.plan \in 1 .. Len(e.plans) /\ r.confirmedAt <= r.exitAt
      /\ r.entryAt = (IF before = {} THEN None ELSE Min(before))
      /\ (r.entryAt # None /\ r.bookAt # None => r.bookAt <= r.entryAt)
      /\ (r.entryAt = None => r.state = "REJECTED")
  BY Zenon DEF ResultInv
<1>7. r.plan \in 1 .. Len(f.plans)
  BY <1>6
<1> HIDE DEF before, after
<1>8. f.plans[r.plan] = plan
  OBVIOUS
<1> HIDE DEF plan
<1> QED
  BY <1>3, <1>4, <1>5, <1>6, <1>7, <1>8, Zenon DEF ResultInv, after

-----------------------------------------------------------------------------
(* From event to event.                                                    *)

(* Nothing is applied: the same instants.                                  *)
LEMMA SameInstants ==
  ASSUME OrderedInv, NEW e, StageInv(e), NEW f, StageInv(f),
         f.next = e.next \/ (f.next = e.next + 1 /\ e.next <= Len(input.events)),
         f.applied = e.applied
  PROVE  Continues(e, f)
<1>1. \A t : Past(e, t) => Past(f, t)
  BY PastStays
<1>2. \A s : CandleInstants(f, s) = CandleInstants(e, s)
  BY DEF CandleInstants
<1>3. \A s : \A t \in CandleInstants(f, s) : t \in Nat
  BY InstantsArePast DEF Past
<1>4. \A s : CandleInstants(e, s) \subseteq CandleInstants(f, s)
  BY <1>2
<1>5. \A s : \A t \in CandleInstants(f, s) : t \notin CandleInstants(e, s) =>
        Pending(f, s, t) /\ \A u \in CandleInstants(e, s) : u <= t
  BY <1>2
<1> QED
  BY <1>1, <1>3, <1>4, <1>5 DEF Continues

(* What is observed, if nothing new is.                                    *)
LEMMA ObservedStays ==
  ASSUME NEW e, ObservedInv(e), NEW f, f.symbols = e.symbols, Continues(e, f)
  PROVE  ObservedInv(f)
<1>1. \A o : ObservationInv(e, o) => ObservationInv(f, o)
  BY DEF ObservationInv, Continues
<1> QED
  BY <1>1 DEF ObservedInv

(* An engine that goes on with its plans as they are.                      *)
LEMMA PlansStay ==
  ASSUME NEW e, TimesInv(e), NEW f, Continues(e, f), StageInv(f), ObservedInv(f),
         \A s, t : Pending(e, s, t) => Pending(f, s, t),
         f.candidates = e.candidates, f.plans = e.plans, f.lifecycles = e.lifecycles,
         f.results = e.results, f.delays = e.delays
  PROVE  TimesInv(f)
<1>1. PlansInv(f)
  BY DEF TimesInv, PlansInv
<1>2. \A i \in 1 .. Len(f.plans) : LifecycleInv(f, f.lifecycles[i], f.plans[i])
  BY LifecycleStays DEF TimesInv
<1>3. Len(e.plans) \in Nat
  BY DEF TimesInv, PlansInv
<1>4. \A r \in f.results : ResultInv(f, r)
  <2> SUFFICES ASSUME NEW r \in e.results
               PROVE  ResultInv(f, r)
    OBVIOUS
  <2>1. ResultInv(e, r)
    BY DEF TimesInv
  <2> QED
    BY <1>3, <2>1, ResultStays
<1> QED
  BY <1>1, <1>2, <1>4 DEF TimesInv

(* What does not matter to time.                                           *)
SameTimes(e, f) ==
    /\ f.next = e.next /\ f.applied = e.applied /\ f.stage = e.stage
    /\ f.symbols = e.symbols /\ f.candidates = e.candidates /\ f.plans = e.plans
    /\ f.lifecycles = e.lifecycles /\ f.results = e.results /\ f.delays = e.delays

(* A status, a checkpoint, a cancellation.                                 *)
LEMMA SameTimesKeeps ==
  ASSUME OrderedInv, NEW e, TimesInv(e), NEW f, SameTimes(e, f)
  PROVE  TimesInv(f)
<1>1. StageInv(e) /\ StageInv(f)
  BY DEF TimesInv, StageInv, SameTimes
<1>2. Continues(e, f)
  BY <1>1, SameInstants DEF SameTimes
<1>3. ObservedInv(f)
  BY <1>2, ObservedStays DEF TimesInv, SameTimes
<1>4. \A s, t : Pending(e, s, t) => Pending(f, s, t)
  BY DEF Pending, Now, SameTimes
<1> QED
  BY <1>1, <1>2, <1>3, <1>4, PlansStay DEF SameTimes

(* An event that is consumed and not applied.                              *)
LEMMA ConsumedKeeps ==
  ASSUME OrderedInv, NEW e, TimesInv(e), e.stage = "events",
         e.next <= Len(input.events), NEW f, f.next = e.next + 1,
         f.applied = e.applied, f.stage = e.stage,
         f.symbols = e.symbols, f.candidates = e.candidates, f.plans = e.plans,
         f.lifecycles = e.lifecycles, f.results = e.results, f.delays = e.delays
  PROVE  TimesInv(f) /\ f.next > 1
<1>1. StageInv(e) /\ e.next \in Nat \ {0} /\ Len(input.events) \in Nat
  BY PlaceType DEF TimesInv, StageInv
<1>2. StageInv(f) /\ f.next > 1
  <2>1. f.next \in 1 .. Len(input.events) + 1 /\ f.next > 1
    BY <1>1
  <2>2. 1 .. e.next - 1 \subseteq 1 .. f.next - 1
    BY <1>1
  <2> QED
    BY <1>1, <2>1, <2>2 DEF StageInv, Stages
<1>3. Continues(e, f)
  BY <1>1, <1>2, SameInstants
<1>4. ObservedInv(f)
  BY <1>3, ObservedStays DEF TimesInv
<1>5. \A s, t : Pending(e, s, t) => Pending(f, s, t)
  BY DEF Pending
<1> QED
  BY <1>2, <1>3, <1>4, <1>5, PlansStay

(* What an event shows of its symbol is as old as the event.               *)
LEMMA ObservedIsPast ==
  ASSUME NEW e, NEW o, ObservationInv(e, o), NEW event \in ReplayEvent, Past(e, event.at)
  PROVE  ObservationInv(e, Observed(o, event))
<1> DEFINE new == Observed(o, event)
<1>1. new \in {[o EXCEPT !.session = event.value = "allowed"],
               [o EXCEPT !.bookAt = event.at, !.fresh = event.value = "fresh"],
               [o EXCEPT !.quality = event.value = "HEALTHY"],
               [o EXCEPT !.funding = KnownFunding], [o EXCEPT !.quoteAt = event.at],
               [o EXCEPT !.close = event.close], o}
  BY Zenon DEF Observed
<1>2. DOMAIN NewSymbol =
        {"quoteAt", "bookAt", "fresh", "funding", "session", "quality", "close"}
  BY DEF NewSymbol
<1> HIDE DEF new
<1>3. o = [f \in DOMAIN NewSymbol |-> o[f]]
  BY DEF ObservationInv
<1>4. new = [f \in DOMAIN NewSymbol |-> new[f]]
  BY <1>1, <1>2, <1>3
<1>5. /\ new.quality \in {o.quality, event.value = "HEALTHY"}
      /\ new.session \in {o.session, event.value = "allowed"}
      /\ new.fresh \in {o.fresh, event.value = "fresh"}
      /\ new.funding \in {o.funding, KnownFunding}
      /\ new.quoteAt \in {o.quoteAt, event.at} /\ new.bookAt \in {o.bookAt, event.at}
  BY <1>1, <1>2, <1>3
<1>6. /\ new.quality \in BOOLEAN /\ new.session \in BOOLEAN /\ new.fresh \in BOOLEAN
      /\ new.funding \in {None, KnownFunding}
  BY <1>5 DEF ObservationInv
<1>7. /\ new.quoteAt # None => Past(e, new.quoteAt)
      /\ new.bookAt # None => Past(e, new.bookAt)
  BY <1>5 DEF ObservationInv
<1> QED
  BY <1>4, <1>6, <1>7 DEF ObservationInv, new

(* An event is applied: it is observed, and a candle is to be worked on.   *)
LEMMA AppliedKeeps ==
  ASSUME OrderedInv, NEW e, TimesInv(e), e.stage = "events", e.next > 1, NEW f,
         f.next = e.next, f.applied = e.applied \cup {e.next - 1},
         f.stage = (IF input.events[e.next - 1].category = "CLOSED_CANDLE"
                    THEN "planning" ELSE "events"),
         f.symbols = [e.symbols EXCEPT ![input.events[e.next - 1].symbol] =
                          Observed(@, input.events[e.next - 1])],
         f.candidates = e.candidates, f.plans = e.plans,
         f.lifecycles = e.lifecycles, f.results = e.results, f.delays = e.delays
  PROVE  TimesInv(f)
<1> DEFINE event == input.events[e.next - 1]
<1>1. StageInv(e) /\ e.next - 1 \in 1 .. e.next - 1
  BY PlaceType DEF TimesInv
<1>2. event \in ReplayEvent /\ event.at \in Nat /\ event.at = Now(e)
  BY <1>1, PlaceType DEF Now
<1>3. StageInv(f)
  BY <1>1 DEF StageInv, Stages
<1>4. \A t : Past(e, t) <=> Past(f, t)
  BY DEF Past, Now
<1>5. ASSUME NEW s, NEW t \in CandleInstants(f, s), t \notin CandleInstants(e, s)
      PROVE  Pending(f, s, t) /\ \A u \in CandleInstants(e, s) : u <= t
  <2>1. PICK i \in f.applied : /\ input.events[i].category = "CLOSED_CANDLE"
                               /\ input.events[i].symbol = s /\ input.events[i].at = t
    BY <1>5, Zenon DEF CandleInstants
  <2>2. i \notin e.applied
    BY <1>5, <2>1 DEF CandleInstants
  <2>3. i = e.next - 1
    BY <2>1, <2>2
  <2>4. Pending(f, s, t)
    BY <2>1, <2>3 DEF Pending, Now
  <2>5. \A u \in CandleInstants(e, s) : u <= t
    BY <1>1, <1>2, <2>1, <2>3, InstantsArePast DEF Past
  <2> QED
    BY <2>4, <2>5
<1>6. Continues(e, f)
  <2>1. \A s : CandleInstants(e, s) \subseteq CandleInstants(f, s)
    BY DEF CandleInstants
  <2>2. \A s : \A t \in CandleInstants(f, s) : t \in Nat
    BY <1>3, InstantsArePast DEF Past
  <2> QED
    BY <1>4, <1>5, <2>1, <2>2 DEF Continues
<1>7. ObservedInv(f)
  <2>1. ObservedInv(e) /\ event.symbol \in Symbols
    BY <1>2, Zenon DEF TimesInv, ReplayEvent
  <2>2. \A o : ObservationInv(e, o) <=> ObservationInv(f, o)
    BY <1>4 DEF ObservationInv
  <2>3. Past(e, event.at)
    BY <1>2 DEF Past
  <2>4. ObservationInv(e, Observed(e.symbols[event.symbol], event))
    BY <1>2, <2>1, <2>3, ObservedIsPast DEF ObservedInv
  <2> HIDE DEF event
  <2>5. \A s \in Symbols : f.symbols[s] = IF s = event.symbol
                                          THEN Observed(e.symbols[s], event) ELSE e.symbols[s]
    BY <2>1 DEF ObservedInv, event
  <2>6. f.symbols = [s \in Symbols |-> f.symbols[s]]
    BY <2>1 DEF ObservedInv
  <2> QED
    BY <2>1, <2>2, <2>4, <2>5, <2>6 DEF ObservedInv
<1>8. \A s, t : Pending(e, s, t) => Pending(f, s, t)
  BY DEF Pending
<1> QED
  BY <1>3, <1>6, <1>7, <1>8, PlansStay

-----------------------------------------------------------------------------
(* The stages of the work on a candle.                                     *)

(* The event an engine works on.                                           *)
Current(e) == input.events[e.next - 1]

(* It is an applied candle, of the instant the engine is at.               *)
LEMMA CurrentType ==
  ASSUME OrderedInv, NEW e, TimesInv(e), e.stage # "events"
  PROVE  /\ Current(e) \in ReplayEvent /\ Current(e).symbol \in Symbols
         /\ Current(e).at = Now(e) /\ Now(e) \in Nat /\ Past(e, Now(e))
         /\ Now(e) \in CandleInstants(e, Current(e).symbol)
         /\ \A s : \A t \in CandleInstants(e, s) : t \in Nat /\ t <= Now(e)
<1>1. StageInv(e)
  BY DEF TimesInv
<1>2. /\ e.next - 1 \in e.applied /\ e.next - 1 \in 1 .. e.next - 1
      /\ input.events[e.next - 1].category = "CLOSED_CANDLE"
  BY <1>1 DEF StageInv
<1>3. Current(e) \in ReplayEvent /\ Now(e) \in Nat /\ e.next > 1
  BY <1>1, <1>2, PlaceType DEF Current, Now
<1>4. Current(e).symbol \in Symbols
  BY <1>3, Zenon DEF ReplayEvent
<1>5. Current(e).at = Now(e) /\ Past(e, Now(e))
  BY <1>3 DEF Current, Now, Past
<1>6. Now(e) \in CandleInstants(e, Current(e).symbol)
  BY <1>2 DEF CandleInstants, Now, Current
<1>7. \A s : \A t \in CandleInstants(e, s) : t \in Nat /\ t <= Now(e)
  BY <1>1, InstantsArePast DEF Past
<1> QED
  BY <1>3, <1>4, <1>5, <1>6, <1>7

(* A stage applies nothing.                                                *)
LEMMA StageContinues ==
  ASSUME OrderedInv, NEW e, TimesInv(e), e.stage # "events",
         NEW f, f.next = e.next, f.applied = e.applied, f.stage \in Stages,
         f.symbols = e.symbols
  PROVE  /\ StageInv(f) /\ Continues(e, f) /\ ObservedInv(f)
         /\ Now(f) = Now(e) /\ \A s : CandleInstants(f, s) = CandleInstants(e, s)
<1>1. StageInv(e) /\ StageInv(f)
  BY DEF TimesInv, StageInv
<1>2. Continues(e, f)
  BY <1>1, SameInstants
<1> QED
  BY <1>1, <1>2, ObservedStays DEF TimesInv, Now, CandleInstants

(* A set that is listed.                                                   *)
LEMMA ListedSet ==
  ASSUME NEW S, IsFiniteSet(S)
  PROVE  SetToSeq(S) \in [1 .. Cardinality(S) -> S] /\ Cardinality(S) \in Nat
<1>1. ExistsBijection(1 .. Cardinality(S), S) /\ Cardinality(S) \in Nat
  BY FS_CardinalityType
<1>2. \E f \in [1 .. Cardinality(S) -> S] : IsInjective(f)
  BY <1>1 DEF ExistsBijection, Bijection, Injection, IsInjective
<1> QED
  BY <1>1, <1>2, Zenon DEF SetToSeq

(* What the strategy finds replaces no candidate that has a plan.          *)
LEMMA StrategyKeeps ==
  ASSUME NEW c, CandidatesInv(c), NEW event \in ReplayEvent
  PROVE  LET found == AfterStrategy(c, event)
         IN  CandidatesInv(found) /\ PlannedKeys(found) = PlannedKeys(c)
<1> DEFINE found == AfterStrategy(c, event)
           new == [state |-> event.found, expiry |-> event.expiry, planned |-> FALSE]
<1>1. DOMAIN NoCandidate = {"state", "expiry", "planned"} /\ ~NoCandidate.planned
  BY DEF NoCandidate
<1>2. event.key \in DOMAIN PlanOfKey \cup {None}
  BY Zenon DEF ReplayEvent
<1>3. CASE found = c
  BY <1>3
<1>4. CASE found # c
  <2>1. /\ found = [c EXCEPT ![event.key] = new] /\ event.key # None
        /\ c[event.key] = NoCandidate \/ c[event.key].state = "DETECTED"
    BY <1>4, Zenon DEF AfterStrategy
  <2>2. event.key \in DOMAIN PlanOfKey /\ ~c[event.key].planned
    BY <1>1, <1>2, <2>1 DEF CandidatesInv
  <2>3. new = [f \in DOMAIN NoCandidate |-> new[f]] /\ new.planned = FALSE
    BY <1>1
  <2> HIDE DEF new, found
  <2>4. \A key \in DOMAIN PlanOfKey : found[key] = IF key = event.key THEN new ELSE c[key]
    BY <2>1 DEF CandidatesInv
  <2>5. found = [key \in DOMAIN PlanOfKey |-> found[key]]
    BY <2>1 DEF CandidatesInv
  <2>6. CandidatesInv(found)
    BY <2>3, <2>4, <2>5 DEF CandidatesInv
  <2>7. PlannedKeys(found) = PlannedKeys(c)
    BY <2>2, <2>3, <2>4 DEF PlannedKeys
  <2> QED
    BY <2>6, <2>7 DEF found
<1> QED
  BY <1>3, <1>4

(* The risk stage plans what had no plan, and drops nothing that has one.  *)
LEMMA RiskKeeps ==
  ASSUME NEW c, CandidatesInv(c), NEW event
  PROVE  LET after == AfterRisk(c, event)
         IN  /\ CandidatesInv(after)
             /\ PlannedKeys(after) = PlannedKeys(c) \cup Planned(c, event)
             /\ PlannedKeys(c) \cap Planned(c, event) = {}
             /\ Planned(c, event) \subseteq DOMAIN PlanOfKey
<1> DEFINE after == AfterRisk(c, event)
<1>1. DOMAIN NoCandidate = {"state", "expiry", "planned"} /\ NoCandidate.planned = FALSE
  BY DEF NoCandidate
<1>2. DOMAIN c = DOMAIN PlanOfKey
  BY DEF CandidatesInv
<1>3. \A key \in Open(c, event) :
        key \in DOMAIN PlanOfKey /\ c[key].state = "CONFIRMED" /\ ~c[key].planned
  BY <1>2 DEF Open
<1>4. Planned(c, event) \subseteq Open(c, event)
  BY DEF Planned
<1>5. after = [key \in DOMAIN PlanOfKey |-> after[key]]
  BY <1>2 DEF AfterRisk
<1>6. \A key \in Planned(c, event) : after[key] = [c[key] EXCEPT !.planned = TRUE]
  BY <1>2, <1>3, <1>4, Zenon DEF AfterRisk
<1>7. \A key \in DOMAIN PlanOfKey \ Planned(c, event) :
        after[key] = c[key] \/ (after[key] = NoCandidate /\ key \in Open(c, event))
  <2> SUFFICES ASSUME NEW key \in DOMAIN PlanOfKey \ Planned(c, event)
               PROVE  after[key] = c[key] \/ (after[key] = NoCandidate /\ key \in Open(c, event))
    OBVIOUS
  <2>1. after[key] = IF key \in Planned(c, event) THEN [c[key] EXCEPT !.planned = TRUE]
                     ELSE IF key \in Open(c, event) /\ c[key].expiry <= event.at
                     THEN NoCandidate ELSE c[key]
    BY <1>2, Zenon DEF AfterRisk
  <2> QED
    BY <2>1, Zenon
<1> HIDE DEF after
<1>8. ASSUME NEW key \in DOMAIN PlanOfKey
      PROVE  /\ after[key] = [f \in DOMAIN NoCandidate |-> after[key][f]]
             /\ after[key].planned \in BOOLEAN
             /\ after[key].planned => after[key].state = "CONFIRMED"
             /\ after[key].planned <=> c[key].planned \/ key \in Planned(c, event)
  <2>1. /\ c[key] = [f \in DOMAIN NoCandidate |-> c[key][f]] /\ c[key].planned \in BOOLEAN
        /\ c[key].planned => c[key].state = "CONFIRMED"
    BY DEF CandidatesInv
  <2>2. CASE key \in Planned(c, event)
    <3>1. after[key] = [c[key] EXCEPT !.planned = TRUE] /\ c[key].state = "CONFIRMED"
      BY <1>3, <1>4, <1>6, <2>2
    <3> QED
      BY <1>1, <2>1, <2>2, <3>1
  <2>3. CASE key \notin Planned(c, event) /\ after[key] = c[key]
    BY <2>1, <2>3
  <2>4. CASE key \notin Planned(c, event) /\ after[key] = NoCandidate /\ key \in Open(c, event)
    BY <1>1, <1>3, <2>4 DEF NoCandidate
  <2> QED
    BY <1>7, <2>2, <2>3, <2>4
<1>9. CandidatesInv(after)
  BY <1>5, <1>8 DEF CandidatesInv
<1>10. PlannedKeys(after) = PlannedKeys(c) \cup Planned(c, event)
  BY <1>3, <1>4, <1>8 DEF PlannedKeys
<1>11. PlannedKeys(c) \cap Planned(c, event) = {}
  BY <1>3, <1>4 DEF PlannedKeys
<1> QED
  BY <1>3, <1>4, <1>9, <1>10, <1>11 DEF after

(* The plans derived are at most as many as the keys they are for.         *)
LEMMA DerivedType ==
  ASSUME NEW c, NEW event \in ReplayEvent, Planned(c, event) \subseteq DOMAIN PlanOfKey
  PROVE  /\ Derived(c, event) \in Seq(Plan)
         /\ Len(Derived(c, event)) <= Cardinality(Planned(c, event))
         /\ Cardinality(Planned(c, event)) \in Nat
<1> DEFINE keys == Planned(c, event)
           plan == [key \in keys |-> [PlanOfKey[key] EXCEPT !.asOf = event.at]]
           S == {[PlanOfKey[key] EXCEPT !.asOf = event.at] : key \in keys}
<1>1. IsFiniteSet(keys) /\ Cardinality(keys) \in Nat
  BY ReplayAssumption, FS_Subset, FS_CardinalityType
<1>2. event.at \in Nat
  BY Zenon DEF ReplayEvent
<1>3. \A key \in keys : PlanOfKey[key] \in Plan
  BY ReplayAssumption
<1> HIDE DEF keys
<1>4. S \subseteq Plan
  BY <1>2, <1>3 DEF Plan
<1>5. plan \in Surjection(keys, S)
  BY DEF Surjection
<1>6. IsFiniteSet(S) /\ Cardinality(S) <= Cardinality(keys)
  <2> HIDE DEF plan, S
  <2> QED
    BY <1>1, <1>5, FS_Surjection
<1>7. Derived(c, event) = SetToSeq(S)
  BY DEF Derived, keys
<1> HIDE DEF S
<1>8. SetToSeq(S) \in [1 .. Cardinality(S) -> S] /\ Cardinality(S) \in Nat
  BY <1>6, ListedSet
<1>9. SetToSeq(S) \in Seq(Plan) /\ Len(SetToSeq(S)) = Cardinality(S)
  BY <1>4, <1>8
<1> QED
  BY <1>1, <1>6, <1>7, <1>9 DEF keys

(* A lifecycle that was not begun.                                         *)
LEMMA NoLifecycleInv ==
  ASSUME NEW e, NEW plan
  PROVE  LifecycleInv(e, NoLifecycle, plan)
  BY DEF LifecycleInv, NoLifecycle

(* Two lists, one behind the other.                                        *)
LEMMA JoinedLists ==
  ASSUME NEW S, NEW s \in Seq(S), NEW t \in Seq(S)
  PROVE  /\ s \o t \in Seq(S) /\ Len(s \o t) = Len(s) + Len(t)
         /\ \A i \in 1 .. Len(s) + Len(t) :
               (s \o t)[i] = IF i <= Len(s) THEN s[i] ELSE t[i - Len(s)]
  OBVIOUS

(* New plans come behind the others, with nothing begun on them.           *)
LEMMA PlanStageKeeps ==
  ASSUME OrderedInv, NEW e, TimesInv(e), IsEngine(e), e.stage = "planning"
  PROVE  TimesInv(PlanStage([e EXCEPT !.stage = "monitoring"], Current(e)))
<1> DEFINE event == Current(e)
           found == AfterStrategy(e.candidates, event)
           derived == Derived(found, event)
           none == [i \in DOMAIN derived |-> NoLifecycle]
           f == PlanStage([e EXCEPT !.stage = "monitoring"], event)
           m == Len(e.plans)
           n == Len(derived)
<1>1. /\ f.next = e.next /\ f.applied = e.applied /\ f.stage = "monitoring"
      /\ f.symbols = e.symbols /\ f.results = e.results /\ f.delays = e.delays
      /\ f.candidates = AfterRisk(found, event)
      /\ f.plans = e.plans \o derived /\ f.lifecycles = e.lifecycles \o none
  BY DEF IsEngine, EngineFields, PlanStage
<1>2. event \in ReplayEvent
  BY CurrentType
<1>3. /\ StageInv(f) /\ Continues(e, f) /\ ObservedInv(f) /\ Now(f) = Now(e)
  BY <1>1, StageContinues DEF Stages
<1>4. \A s, t : Pending(e, s, t) => Pending(f, s, t)
  BY <1>1, <1>3 DEF Pending
<1>5. PlansInv(e)
  BY DEF TimesInv
<1>6. CandidatesInv(found) /\ PlannedKeys(found) = PlannedKeys(e.candidates)
  BY <1>2, <1>5, StrategyKeeps DEF PlansInv
<1> HIDE DEF found, f, event
<1>7. /\ CandidatesInv(f.candidates)
      /\ PlannedKeys(f.candidates) = PlannedKeys(e.candidates) \cup Planned(found, event)
      /\ PlannedKeys(e.candidates) \cap Planned(found, event) = {}
      /\ Planned(found, event) \subseteq DOMAIN PlanOfKey
  BY <1>1, <1>6, RiskKeeps
<1>8. /\ derived \in Seq(Plan) /\ n <= Cardinality(Planned(found, event))
      /\ Cardinality(Planned(found, event)) \in Nat
  BY <1>2, <1>7, DerivedType
<1> HIDE DEF derived
<1>9. Cardinality(PlannedKeys(f.candidates)) =
        Cardinality(PlannedKeys(e.candidates)) + Cardinality(Planned(found, event))
  <2>1. IsFiniteSet(PlannedKeys(e.candidates)) /\ IsFiniteSet(Planned(found, event))
    BY <1>7, ReplayAssumption, FS_Subset DEF PlannedKeys
  <2>2. /\ Cardinality(PlannedKeys(e.candidates)) \in Nat
        /\ Cardinality(PlannedKeys(e.candidates) \cap Planned(found, event)) = 0
    BY <1>7, <2>1, FS_CardinalityType, FS_EmptySet
  <2> DEFINE A == PlannedKeys(e.candidates)
             B == Planned(found, event)
  <2> HIDE DEF A, B
  <2>3. IsFiniteSet(A) /\ IsFiniteSet(B)
    BY <2>1 DEF A, B
  <2>4. Cardinality(A \cup B) = Cardinality(A) + Cardinality(B) - Cardinality(A \cap B)
    BY <2>3, FS_Union
  <2>5. Cardinality(A) \in Nat /\ Cardinality(B) \in Nat
    BY <2>3, FS_CardinalityType
  <2>6. Cardinality(A \cup B) = Cardinality(A) + Cardinality(B)
    BY <2>2, <2>4, <2>5 DEF A, B
  <2> QED
    BY <1>7, <2>6 DEF A, B
<1>10. Cardinality(PlannedKeys(e.candidates)) \in Nat
  BY ReplayAssumption, FS_Subset, FS_CardinalityType DEF PlannedKeys
<1>11. /\ m \in Nat /\ n \in Nat /\ DOMAIN derived = 1 .. n
       /\ f.plans \in Seq(Plan) /\ Len(f.plans) = m + n
       /\ \A i \in 1 .. m : f.plans[i] = e.plans[i]
  BY <1>1, <1>5, <1>8 DEF PlansInv
<1>12. /\ f.lifecycles = [i \in 1 .. m + n |-> f.lifecycles[i]]
       /\ \A i \in 1 .. m : f.lifecycles[i] = e.lifecycles[i]
       /\ \A i \in m + 1 .. m + n : f.lifecycles[i] = NoLifecycle
  <2> DEFINE S == {e.lifecycles[i] : i \in 1 .. m} \cup {NoLifecycle}
  <2>1. e.lifecycles = [i \in 1 .. m |-> e.lifecycles[i]]
    BY <1>5 DEF PlansInv
  <2> HIDE DEF m, n
  <2>2. e.lifecycles \in [1 .. m -> S] /\ none \in [1 .. n -> S]
    BY <1>11, <2>1
  <2>3. \A i \in 1 .. n : none[i] = NoLifecycle
    BY <1>11
  <2> HIDE DEF S, none
  <2>4. e.lifecycles \in Seq(S) /\ Len(e.lifecycles) = m /\ none \in Seq(S) /\ Len(none) = n
    BY <1>11, <2>2
  <2>11. f.lifecycles = e.lifecycles \o none
    BY <1>1
  <2> DEFINE l == e.lifecycles
  <2> HIDE DEF l
  <2>12. l \in Seq(S) /\ none \in Seq(S) /\ Len(l) = m /\ Len(none) = n
    BY <2>4 DEF l
  <2>13. /\ l \o none \in Seq(S) /\ Len(l \o none) = Len(l) + Len(none)
         /\ \A i \in 1 .. Len(l) + Len(none) :
               (l \o none)[i] = IF i <= Len(l) THEN l[i] ELSE none[i - Len(l)]
    BY <2>12, JoinedLists
  <2>5. f.lifecycles \in Seq(S) /\ Len(f.lifecycles) = m + n
    BY <2>11, <2>12, <2>13 DEF l
  <2>6. \A i \in 1 .. m + n :
          f.lifecycles[i] = IF i <= m THEN e.lifecycles[i] ELSE none[i - m]
    BY <2>11, <2>12, <2>13 DEF l
  <2>7. f.lifecycles = [i \in 1 .. m + n |-> f.lifecycles[i]]
    BY <1>11, <2>5
  <2>8. \A i \in 1 .. m : i \in 1 .. m + n /\ i <= m
    BY <1>11
  <2>9. \A i \in m + 1 .. m + n : i \in 1 .. m + n /\ ~(i <= m) /\ i - m \in 1 .. n
    BY <1>11
  <2> QED
    BY <2>3, <2>6, <2>7, <2>8, <2>9
<1>13. PlansInv(f)
  <2>1. m <= Len(SeedPlans) + Cardinality(PlannedKeys(e.candidates)) /\ Len(SeedPlans) \in Nat
    BY <1>5, ReplayAssumption DEF PlansInv
  <2>2. m + n <= Len(SeedPlans) + Cardinality(PlannedKeys(f.candidates))
    BY <1>8, <1>9, <1>10, <1>11, <2>1
  <2>3. f.delays \in [1 .. MaxPlans -> Delays]
    BY <1>1, <1>5 DEF PlansInv
  <2> HIDE DEF m, n
  <2> QED
    BY <1>7, <1>11, <1>12, <2>2, <2>3 DEF PlansInv
<1>14. ASSUME NEW i \in 1 .. Len(f.plans)
       PROVE  LifecycleInv(f, f.lifecycles[i], f.plans[i])
  <2>1. i \in 1 .. m \/ i \in m + 1 .. m + n
    BY <1>11
  <2>2. CASE i \in 1 .. m
    <3>1. LifecycleInv(e, e.lifecycles[i], e.plans[i])
      BY <2>2 DEF TimesInv
    <3>2. LifecycleInv(f, e.lifecycles[i], e.plans[i])
      BY <1>3, <1>4, <3>1, LifecycleStays
    <3> QED
      BY <1>11, <1>12, <2>2, <3>2
  <2>3. CASE i \in m + 1 .. m + n
    BY <1>12, <2>3, NoLifecycleInv
  <2> QED
    BY <2>1, <2>2, <2>3
<1>15. ASSUME NEW r \in f.results
       PROVE  ResultInv(f, r)
  <2>1. ResultInv(e, r)
    BY <1>1 DEF TimesInv
  <2>2. r.plan \in 1 .. m
    BY <2>1, Zenon DEF ResultInv
  <2> QED
    BY <1>3, <1>11, <2>1, <2>2, ResultStays
<1> QED
  BY <1>3, <1>13, <1>14, <1>15 DEF TimesInv, f, event

(* What is not there is no instant.                                        *)
LEMMA NoneIsNoInstant == None \notin Int
  BY ReplayAssumption

(* Delays are numbers.                                                     *)
LEMMA DelaysType == Delays \subseteq Nat
<1> SUFFICES ASSUME NEW delay \in Delays
             PROVE  delay \in Nat
  OBVIOUS
<1>1. PICK d \in (CASE Shadow.delayModel = "EVENT_TIMESTAMP_ONLY" -> {0}
                    [] Shadow.delayModel = "FIXED_SECONDS" -> {Shadow.delayFixed}
                    [] Shadow.delayModel = "UNIFORM_RANGE_SECONDS" ->
                         Shadow.delayMin .. Shadow.delayMax
                    [] OTHER -> 0 .. MaxModelledDelay) :
        delay = Smaller(d, MaxModelledDelay)
  BY Zenon DEF Delays
<1>2. Shadow.delayFixed \in Nat /\ Shadow.delayMin \in Nat /\ Shadow.delayMax \in Nat
  BY ShadowAssumption DEF ShadowSettings
<1>3. MaxModelledDelay \in Nat
  BY DEF MaxModelledDelay
<1>4. d \in Nat
  BY <1>1, <1>2, <1>3
<1> QED
  BY <1>1, <1>3, <1>4 DEF Smaller

(* A plan that exists and has not expired is tracked.                      *)
LEMMA TrackedKeeps ==
  ASSUME NEW e, NEW l, NEW plan \in Plan, LifecycleInv(e, l, plan), NEW event,
         event.at = Now(e), Past(e, Now(e))
  PROVE  LifecycleInv(e, Tracked(plan, l, event), plan)
<1>1. CASE Tracked(plan, l, event) = l
  BY <1>1
<1>2. CASE Tracked(plan, l, event) = Watching /\ plan.asOf <= event.at
  <2>1. plan.asOf \in Nat
    BY DEF Plan
  <2>2. Past(e, plan.asOf)
    BY <1>2, <2>1 DEF Past
  <2>3. /\ Watching = [f \in DOMAIN NoLifecycle |-> Watching[f]]
        /\ Watching.state = "WATCHING_ENTRY" /\ Watching.due = None
        /\ Watching.confirmedAt = None /\ Watching.terminalAt = None /\ Watching.entry = None
    BY DEF Watching, NoLifecycle
  <2> QED
    BY <1>2, <2>2, <2>3 DEF LifecycleInv
<1>3. \/ Tracked(plan, l, event) = l
      \/ Tracked(plan, l, event) = Watching /\ plan.asOf <= event.at
  BY Zenon DEF Tracked
<1> QED
  BY <1>1, <1>2, <1>3

(* What the monitor may make of a lifecycle.                               *)
MonitoredAs(m, plan, l, now, delay) ==
    \/ m = l
    \/ \E state \in FinalStates :
          l.state \in {"WATCHING_ENTRY", "ACTIVE_RESEARCH"} /\ m = Ended(l, state, now)
    \/ /\ l.state = "WATCHING_ENTRY" /\ ~(now >= plan.expiry)
       /\ m = [l EXCEPT !.state = "ACTIVE_RESEARCH",
                        !.confirmedAt = now, !.due = now + delay]

(* It does nothing else.                                                   *)
LEMMA MonitoredCases ==
  ASSUME NEW plan, NEW l, NEW symbol, NEW now, NEW delay
  PROVE  MonitoredAs(Monitored(plan, l, symbol, now, delay), plan, l, now, delay)
<1>1. {"EXPIRED", "INVALIDATED", "TARGET_1_REACHED", "TARGET_2_REACHED"} = FinalStates
  BY DEF FinalStates
<1>2. CASE symbol.close = None \/ l.terminalAt # None
  BY <1>2, Zenon DEF Monitored, MonitoredAs
<1>3. CASE ~(symbol.close = None \/ l.terminalAt # None) /\ l.state = "WATCHING_ENTRY"
  <2> DEFINE m == Monitored(plan, l, symbol, now, delay)
  <2>1. \/ m = Ended(l, "EXPIRED", now) \/ m = Ended(l, "INVALIDATED", now) \/ m = l
        \/ /\ ~(now >= plan.expiry)
           /\ m = [l EXCEPT !.state = "ACTIVE_RESEARCH",
                            !.confirmedAt = now, !.due = now + delay]
    BY <1>3, Zenon DEF Monitored
  <2> HIDE DEF m
  <2> QED
    BY <1>1, <1>3, <2>1, Zenon DEF m, MonitoredAs
<1>4. CASE /\ ~(symbol.close = None \/ l.terminalAt # None)
           /\ l.state # "WATCHING_ENTRY" /\ l.state = "ACTIVE_RESEARCH"
  <2> DEFINE m == Monitored(plan, l, symbol, now, delay)
  <2>1. \/ m = Ended(l, "EXPIRED", now) \/ m = Ended(l, "INVALIDATED", now) \/ m = l
        \/ m = Ended(l, "TARGET_1_REACHED", now) \/ m = Ended(l, "TARGET_2_REACHED", now)
    BY <1>4, Zenon DEF Monitored
  <2> HIDE DEF m
  <2> QED
    BY <1>1, <1>4, <2>1, Zenon DEF m, MonitoredAs
<1>5. CASE /\ ~(symbol.close = None \/ l.terminalAt # None)
           /\ l.state # "WATCHING_ENTRY" /\ l.state # "ACTIVE_RESEARCH"
  BY <1>5, Zenon DEF Monitored, MonitoredAs
<1> QED
  BY <1>2, <1>3, <1>4, <1>5

(* A confirmation is due after its delay, and no candle has found it due   *)
(* but the one that is worked on.                                          *)
LEMMA MonitoredKeeps ==
  ASSUME NEW f, f.stage = "capture", Past(f, Now(f)), NEW plan \in Plan,
         Current(f).symbol = plan.symbol,
         \A t \in CandleInstants(f, plan.symbol) : t \in Nat /\ t <= Now(f),
         NEW l, LifecycleInv(f, l, plan), NEW symbol, NEW delay \in Nat
  PROVE  LifecycleInv(f, Monitored(plan, l, symbol, Now(f), delay), plan)
<1> DEFINE now == Now(f)
           m == Monitored(plan, l, symbol, now, delay)
<1> SUFFICES LifecycleInv(f, m, plan)
  OBVIOUS
<1>1. /\ DOMAIN NoLifecycle =
            {"state", "due", "confirmedAt", "terminalAt", "entry", "simulated"}
      /\ l = [x \in DOMAIN NoLifecycle |-> l[x]]
  BY DEF NoLifecycle, LifecycleInv
<1>2. CASE m = l
  BY <1>2
<1>3. ASSUME NEW state \in FinalStates, m = Ended(l, state, now),
             l.state \in {"WATCHING_ENTRY", "ACTIVE_RESEARCH"}
      PROVE  LifecycleInv(f, m, plan)
  <2> HIDE DEF m
  <2>1. /\ m = [x \in DOMAIN NoLifecycle |-> m[x]] /\ m.state = state
        /\ m.due = l.due /\ m.confirmedAt = l.confirmedAt /\ m.entry = l.entry
    BY <1>1, <1>3 DEF Ended
  <2>2. l.state # "NONE" /\ state \notin {"NONE", "WATCHING_ENTRY"}
    BY <1>3 DEF FinalStates
  <2>3. /\ m.due # None => Confirmed(f, m, plan)
        /\ m.entry # None => CapturedFirst(f, m, plan)
    BY <2>1 DEF LifecycleInv, Confirmed, CapturedFirst
  <2> QED
    BY <2>1, <2>2, <2>3 DEF LifecycleInv
<1>4. CASE /\ l.state = "WATCHING_ENTRY" /\ ~(now >= plan.expiry)
           /\ m = [l EXCEPT !.state = "ACTIVE_RESEARCH",
                            !.confirmedAt = now, !.due = now + delay]
  <2>1. /\ m = [x \in DOMAIN NoLifecycle |-> m[x]] /\ m.state = "ACTIVE_RESEARCH"
        /\ m.due = now + delay /\ m.confirmedAt = now
        /\ m.entry = l.entry /\ m.terminalAt = l.terminalAt
    BY <1>1, <1>4
  <2>2. l.due = None /\ l.entry = None /\ l.terminalAt = None
    BY <1>4 DEF LifecycleInv, FinalStates
  <2>3. now \in Nat /\ Past(f, plan.asOf) /\ plan.asOf \in Nat /\ plan.expiry \in Nat
    BY <1>4 DEF LifecycleInv, Past, Plan
  <2>6. m.due \in Nat /\ m.due # None
    BY <2>1, <2>3, NoneIsNoInstant
  <2> HIDE DEF m
  <2>4. Confirmed(f, m, plan)
    BY <1>4, <2>1, <2>3 DEF Confirmed, Past
  <2>5. \A t \in CandleInstants(f, plan.symbol) : t < m.due \/ Pending(f, plan.symbol, t)
    <3> SUFFICES ASSUME NEW t \in CandleInstants(f, plan.symbol), ~(t < m.due)
                 PROVE  Pending(f, plan.symbol, t)
      OBVIOUS
    <3>1. t = now
      BY <2>1, <2>3
    <3> QED
      BY <3>1 DEF Pending, Current
  <2> QED
    BY <2>1, <2>2, <2>3, <2>4, <2>5, <2>6 DEF LifecycleInv
<1>5. MonitoredAs(m, plan, l, now, delay)
  BY MonitoredCases
<1> HIDE DEF m
<1> QED
  BY <1>2, <1>3, <1>4, <1>5, Zenon DEF MonitoredAs

(* The monitor looks at the plans of the symbol.                           *)
LEMMA MonitorStageKeeps ==
  ASSUME OrderedInv, NEW e, TimesInv(e), IsEngine(e), e.stage = "monitoring"
  PROVE  TimesInv(MonitorStage([e EXCEPT !.stage = "capture"], Current(e)))
<1> DEFINE event == Current(e)
           f == MonitorStage([e EXCEPT !.stage = "capture"], event)
           New(i) == Monitored(e.plans[i], Tracked(e.plans[i], e.lifecycles[i], event),
                               e.symbols[event.symbol], event.at, e.delays[i])
<1>1. /\ f.next = e.next /\ f.applied = e.applied /\ f.stage = "capture"
      /\ f.symbols = e.symbols /\ f.results = e.results /\ f.delays = e.delays
      /\ f.candidates = e.candidates /\ f.plans = e.plans
      /\ f.lifecycles = [i \in DOMAIN e.lifecycles |->
            IF i \in Mine(e, event) THEN New(i) ELSE e.lifecycles[i]]
  BY DEF IsEngine, EngineFields, MonitorStage, Mine
<1>2. /\ event.at = Now(e) /\ Past(e, Now(e))
      /\ \A t \in CandleInstants(e, event.symbol) : t \in Nat /\ t <= Now(e)
  BY CurrentType
<1> HIDE DEF f
<1>3. /\ StageInv(f) /\ Continues(e, f) /\ ObservedInv(f) /\ Now(f) = Now(e)
      /\ \A s : CandleInstants(f, s) = CandleInstants(e, s)
  BY <1>1, StageContinues DEF Stages
<1>4. \A s, t : Pending(e, s, t) => Pending(f, s, t)
  BY <1>1, <1>3 DEF Pending
<1>5. PlansInv(e) /\ Len(e.plans) \in Nat
  BY DEF TimesInv, PlansInv
<1>6. f.lifecycles = [i \in 1 .. Len(e.plans) |->
          IF i \in Mine(e, event) THEN New(i) ELSE e.lifecycles[i]]
  <2>1. DOMAIN e.lifecycles = 1 .. Len(e.plans)
    BY <1>5 DEF PlansInv
  <2> HIDE DEF New
  <2> QED
    BY <1>1, <2>1
<1>7. PlansInv(f)
  BY <1>1, <1>5, <1>6 DEF PlansInv
<1>8. ASSUME NEW i \in 1 .. Len(f.plans)
      PROVE  LifecycleInv(f, f.lifecycles[i], f.plans[i])
  <2>1. LifecycleInv(e, e.lifecycles[i], e.plans[i]) /\ i \in 1 .. Len(e.plans)
    BY <1>1, <1>8 DEF TimesInv
  <2>2. e.plans[i] \in Plan
    BY <1>5, <2>1 DEF PlansInv
  <2>3. CASE i \notin Mine(e, event)
    <3>1. f.lifecycles[i] = e.lifecycles[i]
      BY <1>6, <2>1, <2>3
    <3> QED
      BY <1>1, <1>3, <1>4, <2>1, <3>1, LifecycleStays
  <2>4. CASE i \in Mine(e, event)
    <3> DEFINE plan == e.plans[i]
               l == Tracked(plan, e.lifecycles[i], event)
    <3>1. f.lifecycles[i] = New(i) /\ f.plans[i] = plan
      BY <1>1, <1>6, <2>1, <2>4
    <3>2. LifecycleInv(e, l, plan)
      BY <1>2, <2>1, <2>2, TrackedKeeps
    <3>3. LifecycleInv(f, l, plan)
      <4> HIDE DEF l
      <4> QED
        BY <1>3, <1>4, <3>2, LifecycleStays
    <3>4. e.delays[i] \in Nat
      <4>1. i \in 1 .. MaxPlans
        <5>1. Cardinality(PlannedKeys(e.candidates)) <= Cardinality(DOMAIN PlanOfKey)
          BY ReplayAssumption, FS_Subset DEF PlannedKeys
        <5>2. /\ Cardinality(PlannedKeys(e.candidates)) \in Nat
              /\ Cardinality(DOMAIN PlanOfKey) \in Nat
          BY ReplayAssumption, FS_Subset, FS_CardinalityType DEF PlannedKeys
        <5>3. /\ Len(SeedPlans) \in Nat
              /\ Len(e.plans) <= Len(SeedPlans) + Cardinality(PlannedKeys(e.candidates))
          BY <1>5, ReplayAssumption DEF PlansInv
        <5> QED
          BY <1>5, <2>1, <5>1, <5>2, <5>3 DEF MaxPlans
      <4>2. e.delays[i] \in Delays
        BY <1>5, <4>1 DEF PlansInv
      <4> QED
        BY <4>2, DelaysType
    <3>5. Current(f).symbol = plan.symbol /\ event.symbol = plan.symbol
      BY <1>1, <2>4 DEF Mine, Current
    <3>6. LifecycleInv(f, Monitored(plan, l, e.symbols[event.symbol], Now(f), e.delays[i]), plan)
      <4>1. /\ f.stage = "capture" /\ Past(f, Now(f))
            /\ \A t \in CandleInstants(f, plan.symbol) : t \in Nat /\ t <= Now(f)
        BY <1>1, <1>2, <1>3, <3>5 DEF Continues
      <4> HIDE DEF l, plan
      <4> QED
        BY <2>2, <3>3, <3>4, <3>5, <4>1, MonitoredKeeps DEF plan
    <3> QED
      BY <1>2, <1>3, <3>1, <3>6
  <2> QED
    BY <2>3, <2>4
<1>9. ASSUME NEW r \in f.results
      PROVE  ResultInv(f, r)
  <2>1. ResultInv(e, r)
    BY <1>1, <1>9 DEF TimesInv
  <2> QED
    BY <1>1, <1>3, <1>5, <2>1, ResultStays
<1> QED
  BY <1>3, <1>7, <1>8, <1>9 DEF TimesInv, f

(* The market a leg is modelled on is there.                               *)
LEMMA MarketIsThere ==
  ASSUME NEW e, NEW o, ObservationInv(e, o), NEW now \in Nat
  PROVE  /\ MarketReference(o, now) \in ReplayMarket
         /\ MarketReference(o, now) # None /\ MarketReference(o, now).at = now
         /\ MarketReference(o, now).bookAt = o.bookAt
<1>1. o.quoteAt \in Nat \cup {None} /\ o.bookAt \in Nat \cup {None}
  BY DEF ObservationInv, Past
<1>2. MarketReference(o, now) \in ReplayMarket
  BY <1>1 DEF ObservationInv, MarketReference, ReplayMarket
<1>3. None \notin ReplayMarket
  BY ReplayAssumption
<1> QED
  BY <1>2, <1>3 DEF MarketReference

(* Whatever is due is captured, at the candle that finds it so.            *)
LEMMA CapturedKeeps ==
  ASSUME NEW e, e.stage = "capture", Past(e, Now(e)), NEW plan \in Plan,
         Current(e).symbol = plan.symbol, Now(e) \in CandleInstants(e, plan.symbol),
         NEW f, Continues(e, f), Now(f) = Now(e),
         \A s : CandleInstants(f, s) = CandleInstants(e, s),
         NEW l, LifecycleInv(e, l, plan), NEW o, ObservationInv(e, o)
  PROVE  LifecycleInv(f, Captured(l, o, Now(e)), plan)
<1> DEFINE now == Now(e)
           c == Captured(l, o, now)
<1> SUFFICES LifecycleInv(f, c, plan)
  OBVIOUS
<1>1. /\ DOMAIN NoLifecycle =
            {"state", "due", "confirmedAt", "terminalAt", "entry", "simulated"}
      /\ l = [x \in DOMAIN NoLifecycle |-> l[x]]
  BY DEF NoLifecycle, LifecycleInv
<1>2. \A t : Pending(e, plan.symbol, t) => t = now
  BY DEF Pending
<1>3. now \in Nat
  BY DEF Past
<1>4. CASE l.due = None \/ l.entry # None
  <2>1. c = l
    BY <1>4, Zenon DEF Captured
  <2>2. LifecycleInv(f, l, plan)
    BY <1>4, LifecycleStays
  <2> QED
    BY <2>1, <2>2
<1>5. CASE ~(l.due = None \/ l.entry # None) /\ now < l.due
  <2>1. c = l
    BY <1>5, Zenon DEF Captured
  <2>2. LifecycleInv(f, l, plan)
    BY <1>2, <1>5, LifecycleStays
  <2> QED
    BY <2>1, <2>2
<1>6. CASE ~(l.due = None \/ l.entry # None) /\ ~(now < l.due)
  <2>1. c = [l EXCEPT !.entry = MarketReference(o, now)]
    BY <1>6, Zenon DEF Captured
  <2>2. /\ MarketReference(o, now) \in ReplayMarket /\ MarketReference(o, now) # None
        /\ MarketReference(o, now).at = now /\ MarketReference(o, now).bookAt = o.bookAt
    BY <1>3, MarketIsThere
  <2>3. /\ c = [x \in DOMAIN NoLifecycle |-> c[x]] /\ c.entry = MarketReference(o, now)
        /\ c.due = l.due /\ c.confirmedAt = l.confirmedAt
        /\ c.state = l.state /\ c.terminalAt = l.terminalAt
    BY <1>1, <2>1
  <2> HIDE DEF c
  <2>4. Confirmed(e, l, plan) /\ l.due \in Nat
    BY <1>6 DEF LifecycleInv, Confirmed
  <2>5. Confirmed(f, c, plan)
    BY <2>3, <2>4, ConfirmedStays DEF Confirmed
  <2>6. \A t \in CandleInstants(e, plan.symbol) : t < l.due \/ t = now
    BY <1>2, <1>6 DEF LifecycleInv
  <2>7. \A t \in CandleInstants(e, plan.symbol) : t \in Nat
    BY DEF Continues
  <2>8. c.entry.bookAt # None => c.entry.bookAt <= now
    BY <2>2, <2>3 DEF ObservationInv, Past
  <2>9. CapturedFirst(f, c, plan)
    BY <1>3, <1>6, <2>2, <2>3, <2>4, <2>6, <2>7, <2>8 DEF CapturedFirst
  <2>10. l.state # "NONE" => Past(f, plan.asOf)
    BY DEF LifecycleInv, Continues
  <2> QED
    BY <1>6, <2>2, <2>3, <2>5, <2>9, <2>10 DEF LifecycleInv
<1> QED
  BY <1>4, <1>5, <1>6

(* The capture looks at the plans of the symbol.                           *)
LEMMA CaptureStageKeeps ==
  ASSUME OrderedInv, NEW e, TimesInv(e), IsEngine(e), e.stage = "capture"
  PROVE  TimesInv(CaptureStage([e EXCEPT !.stage = "simulation"], Current(e)))
<1> DEFINE event == Current(e)
           f == CaptureStage([e EXCEPT !.stage = "simulation"], event)
           New(i) == Captured(e.lifecycles[i], e.symbols[event.symbol], event.at)
<1>1. /\ f.next = e.next /\ f.applied = e.applied /\ f.stage = "simulation"
      /\ f.symbols = e.symbols /\ f.results = e.results /\ f.delays = e.delays
      /\ f.candidates = e.candidates /\ f.plans = e.plans
      /\ f.lifecycles = [i \in DOMAIN e.lifecycles |->
            IF i \in Mine(e, event) THEN New(i) ELSE e.lifecycles[i]]
  BY DEF IsEngine, EngineFields, CaptureStage, Mine
<1>2. /\ event.at = Now(e) /\ Past(e, Now(e)) /\ event.symbol \in Symbols
      /\ Now(e) \in CandleInstants(e, event.symbol)
  BY CurrentType
<1> HIDE DEF f
<1>3. /\ StageInv(f) /\ Continues(e, f) /\ ObservedInv(f) /\ Now(f) = Now(e)
      /\ \A s : CandleInstants(f, s) = CandleInstants(e, s)
  BY <1>1, StageContinues DEF Stages
<1>4. ObservationInv(e, e.symbols[event.symbol])
  BY <1>2 DEF TimesInv, ObservedInv
<1>5. PlansInv(e) /\ Len(e.plans) \in Nat
  BY DEF TimesInv, PlansInv
<1>6. f.lifecycles = [i \in 1 .. Len(e.plans) |->
          IF i \in Mine(e, event) THEN New(i) ELSE e.lifecycles[i]]
  <2>1. DOMAIN e.lifecycles = 1 .. Len(e.plans)
    BY <1>5 DEF PlansInv
  <2> HIDE DEF New
  <2> QED
    BY <1>1, <2>1
<1>7. PlansInv(f)
  BY <1>1, <1>5, <1>6 DEF PlansInv
<1>8. ASSUME NEW i \in 1 .. Len(f.plans)
      PROVE  LifecycleInv(f, f.lifecycles[i], f.plans[i])
  <2>1. LifecycleInv(e, e.lifecycles[i], e.plans[i]) /\ i \in 1 .. Len(e.plans)
    BY <1>1, <1>8 DEF TimesInv
  <2>2. e.plans[i] \in Plan /\ DOMAIN e.plans = 1 .. Len(e.plans)
    BY <1>5, <2>1 DEF PlansInv
  <2>3. CASE i \notin Mine(e, event)
    <3>1. f.lifecycles[i] = e.lifecycles[i]
      BY <1>6, <2>1, <2>3
    <3>2. event.symbol # e.plans[i].symbol
      BY <2>1, <2>2, <2>3 DEF Mine
    <3>3. \A t : ~Pending(e, e.plans[i].symbol, t)
      BY <3>2 DEF Pending, Current
    <3> QED
      BY <1>1, <1>3, <2>1, <3>1, <3>3, LifecycleStays
  <2>4. CASE i \in Mine(e, event)
    <3>1. f.lifecycles[i] = New(i)
      BY <1>6, <2>1, <2>4
    <3>2. event.symbol = e.plans[i].symbol
      BY <2>4 DEF Mine
    <3> HIDE DEF event
    <3>3. LifecycleInv(f, New(i), e.plans[i])
      BY <1>2, <1>3, <1>4, <2>1, <2>2, <3>2, CapturedKeeps DEF event
    <3> QED
      BY <1>1, <3>1, <3>3
  <2> QED
    BY <2>3, <2>4
<1>9. ASSUME NEW r \in f.results
      PROVE  ResultInv(f, r)
  <2>1. ResultInv(e, r)
    BY <1>1, <1>9 DEF TimesInv
  <2> QED
    BY <1>1, <1>3, <1>5, <2>1, ResultStays
<1> QED
  BY <1>3, <1>7, <1>8, <1>9 DEF TimesInv, f

(* Without a captured entry the core rejects the simulation.               *)
LEMMA NoEntryIsRejected ==
  ASSUME NEW kind, kind.entry = "none"
  PROVE  Outcome(kind) = "REJECTED"
<1> DEFINE in == [paused |-> FALSE, state |-> "ENTRY_CONFIRMED", planAudit |-> TRUE,
              candidateAudit |-> TRUE, duplicate |-> FALSE,
              sessionAllowed |-> kind.session,
              dataQuality |-> kind.exit # "unfit",
              fee |-> TRUE, bullish |-> TRUE, reference |-> Book.asks[1].price,
              quantity |-> 1, risk |-> Book.asks[1].price, exit |-> kind.reason,
              entryMarket |-> IF kind.entry = "none" THEN None
                              ELSE MarketOf(kind.entry),
              exitMarket |-> MarketOf(kind.exit),
              funding |-> IF kind.funding THEN KnownFunding ELSE None]
<1>1. Outcome(kind) = Simulate(in).state
  BY Zenon DEF Outcome
<1>2. in.fee = TRUE /\ in.entryMarket = None
  OBVIOUS
<1> HIDE DEF in
<1>3. ModelEntry(in) = Error("ENTRY_DELAY_DATA_UNAVAILABLE")
  BY <1>2, Zenon DEF ModelEntry
<1>4. ~ModelEntry(in).ok
  BY <1>3 DEF Error
<1>5. Entered(in, ModelEntry(in)) = Rejected(ModelEntry(in).code)
  BY <1>4, Zenon DEF Entered
<1>6. \A code : Rejected(code).state = "REJECTED"
  BY DEF Rejected
<1>7. Simulate(in).state = "REJECTED"
  BY <1>5, <1>6, Zenon DEF Simulate
<1> QED
  BY <1>1, <1>7

(* So the state of such a result is that.                                  *)
LEMMA RejectedWithoutEntry ==
  ASSUME NEW e, NEW o, ObservationInv(e, o), NEW now \in Nat,
         NEW l, l.entry = None, l.state \in FinalStates
  PROVE  SimulatedState(l, o, now) = "REJECTED"
<1> DEFINE exit == Fitness(MarketReference(o, now), Shadow.exitAge)
           kind == [entry |-> Fitness(l.entry, Shadow.entryAge), exit |-> exit,
                    session |-> o.session, funding |-> o.funding # None,
                    reason |-> ExitReasonForEvent(l.state)]
           Kinds == [entry : {"none", "unfit", "stale", "good"},
                     exit : {"unfit", "stale", "good"},
                     session : BOOLEAN, funding : BOOLEAN,
                     reason : {ExitReasonForEvent(state) : state \in FinalStates}]
<1>1. Fitness(l.entry, Shadow.entryAge) = "none"
  BY Zenon DEF Fitness
<1>2. exit \in {"unfit", "stale", "good"}
  <2>1. MarketReference(o, now) # None
    BY MarketIsThere
  <2> QED
    BY <2>1, Zenon DEF Fitness
<1> HIDE DEF exit
<1>3. kind \in Kinds
  BY <1>1, <1>2 DEF ObservationInv
<1>4. kind.entry = "none"
  BY <1>1
<1>5. SimulatedState(l, o, now) =
        CHOOSE state \in SimulationStates : <<kind, state>> \in Outcomes
  BY Zenon DEF SimulatedState, exit
<1> HIDE DEF kind
<1>6. Outcomes = {<<k, Outcome(k)>> : k \in Kinds}
  BY Zenon DEF Outcomes
<1> HIDE DEF Kinds
<1>7. \A state : <<kind, state>> \in Outcomes <=> state = Outcome(kind)
  BY <1>3, <1>6
<1>8. Outcome(kind) = "REJECTED" /\ "REJECTED" \in SimulationStates
  BY <1>4, NoEntryIsRejected DEF SimulationStates
<1>9. <<kind, SimulatedState(l, o, now)>> \in Outcomes
  BY <1>5, <1>7, <1>8
<1> QED
  BY <1>7, <1>8, <1>9

(* The least of a set of numbers that is known.                            *)
LEMMA MinIs ==
  ASSUME NEW S, NEW m \in S, \A n \in S : n \in Nat /\ m <= n
  PROVE  Min(S) = m
<1>1. Min(S) \in S /\ \A n \in S : Min(S) <= n
  BY Zenon DEF Min
<1> QED
  BY <1>1

(* A finished lifecycle has a result that keeps what a result promises.    *)
LEMMA ResultIsSound ==
  ASSUME NEW e, Past(e, Now(e)), NEW i \in 1 .. Len(e.plans),
         \A s : \A t \in CandleInstants(e, s) : t \in Nat /\ t <= Now(e),
         Now(e) \in CandleInstants(e, e.plans[i].symbol),
         NEW l, LifecycleInv(e, l, e.plans[i]), Simulates(l),
         \A t : ~Pending(e, e.plans[i].symbol, t),
         NEW o, ObservationInv(e, o)
  PROVE  ResultInv(e, Result(i, l, o, Now(e)))
<1> DEFINE plan == e.plans[i]
           now == Now(e)
           r == Result(i, l, o, now)
           instants == CandleInstants(e, plan.symbol)
           usable == {t \in instants : t >= r.due /\ t <= r.exitAt}
<1>1. /\ r.plan = i /\ r.state = SimulatedState(l, o, now)
      /\ r.confirmedAt = l.confirmedAt /\ r.due = l.due /\ r.exitAt = now
      /\ r.entryAt = (IF l.entry = None THEN None ELSE l.entry.at)
      /\ r.bookAt = (IF l.entry = None THEN None ELSE l.entry.bookAt)
  BY DEF Result
<1> HIDE DEF r
<1>2. l.terminalAt # None /\ l.confirmedAt # None
  BY DEF Simulates
<1>3. l.due # None /\ l.state \in FinalStates /\ Confirmed(e, l, plan)
  BY <1>2 DEF LifecycleInv
<1>4. Confirmed(e, r, plan) /\ r.confirmedAt <= r.exitAt
  BY <1>1, <1>3 DEF Confirmed, Past
<1>5. now \in Nat /\ l.due \in Nat
  BY <1>3 DEF Past, Confirmed
<1> DEFINE Modelled ==
             /\ r.entryAt = IF usable = {} THEN None ELSE Min(usable)
             /\ r.entryAt # None /\ r.bookAt # None => r.bookAt <= r.entryAt
             /\ r.entryAt = None => r.state = "REJECTED"
<1>6. ASSUME l.entry = None
      PROVE  Modelled
  <2>1. \A t \in instants : t < l.due /\ t \in Nat
    BY <1>3, <1>6 DEF LifecycleInv
  <2>2. usable = {}
    BY <1>1, <1>5, <2>1
  <2>3. r.state = "REJECTED" /\ r.entryAt = None
    BY <1>1, <1>3, <1>5, <1>6, RejectedWithoutEntry
  <2> HIDE DEF usable
  <2>4. r.entryAt = IF usable = {} THEN None ELSE Min(usable)
    BY <2>2, <2>3
  <2> QED
    BY <2>3, <2>4
<1>7. ASSUME l.entry # None
      PROVE  Modelled
  <2>1. CapturedFirst(e, l, plan)
    BY <1>7 DEF LifecycleInv
  <2>2. /\ l.entry.at \in instants /\ l.due <= l.entry.at
        /\ \A t \in instants : l.due <= t => l.entry.at <= t
        /\ l.entry.bookAt # None => l.entry.bookAt <= l.entry.at
    BY <2>1 DEF CapturedFirst
  <2>3. l.entry.at \in Nat /\ l.entry.at <= now /\ l.entry.at # None
    BY <2>2, NoneIsNoInstant
  <2>4. l.entry.at \in usable /\ \A t \in usable : t \in Nat /\ l.entry.at <= t
    BY <1>1, <1>5, <2>2, <2>3
  <2> HIDE DEF usable
  <2>5. usable # {} /\ Min(usable) = l.entry.at
    BY <2>4, MinIs
  <2>6. r.entryAt = l.entry.at /\ r.bookAt = l.entry.bookAt
    BY <1>1, <1>7
  <2>7. r.entryAt = IF usable = {} THEN None ELSE Min(usable)
    BY <2>5, <2>6
  <2> QED
    BY <2>2, <2>3, <2>6, <2>7
<1>8. Modelled
  BY <1>6, <1>7
<1>9. r.plan \in 1 .. Len(e.plans) /\ e.plans[r.plan] = plan /\ r.exitAt \in instants
  BY <1>1
<1> HIDE DEF plan, usable
<1>10. ResultInv(e, r)
  BY <1>4, <1>8, <1>9, Zenon DEF ResultInv, usable
<1> QED
  BY <1>10 DEF r

(* The last stage.                                                         *)
LEMMA SimulationStageKeeps ==
  ASSUME OrderedInv, NEW e, TimesInv(e), IsEngine(e), e.stage = "simulation"
  PROVE  LET f == SimulationStage([e EXCEPT !.stage = "events"], Current(e))
         IN  TimesInv(f) /\ IsEngine(f)
<1> DEFINE event == Current(e)
           f == SimulationStage([e EXCEPT !.stage = "events"], event)
           finished == {i \in Mine(e, event) : Simulates(e.lifecycles[i])}
           R(i) == Result(i, e.lifecycles[i], e.symbols[event.symbol], event.at)
<1>1. /\ f.next = e.next /\ f.applied = e.applied /\ f.stage = "events"
      /\ f.symbols = e.symbols /\ f.delays = e.delays
      /\ f.candidates = e.candidates /\ f.plans = e.plans
      /\ f.results = e.results \cup {R(i) : i \in finished}
      /\ f.lifecycles = [i \in DOMAIN e.lifecycles |->
            IF i \in finished THEN [e.lifecycles[i] EXCEPT !.simulated = TRUE]
            ELSE e.lifecycles[i]]
      /\ IsEngine(f)
  BY DEF IsEngine, EngineFields, SimulationStage, Mine
<1>2. /\ event.at = Now(e) /\ Past(e, Now(e)) /\ event.symbol \in Symbols
      /\ Now(e) \in CandleInstants(e, event.symbol)
      /\ \A s : \A t \in CandleInstants(e, s) : t \in Nat /\ t <= Now(e)
  BY CurrentType
<1> HIDE DEF f
<1>3. /\ StageInv(f) /\ Continues(e, f) /\ ObservedInv(f) /\ Now(f) = Now(e)
      /\ \A s : CandleInstants(f, s) = CandleInstants(e, s)
  BY <1>1, StageContinues DEF Stages
<1>4. \A s, t : ~Pending(e, s, t)
  BY DEF Pending
<1>5. PlansInv(e) /\ Len(e.plans) \in Nat /\ DOMAIN e.plans = 1 .. Len(e.plans)
  BY DEF TimesInv, PlansInv
<1>6. \A i \in 1 .. Len(e.plans) : f.lifecycles[i] \in
        {e.lifecycles[i], [e.lifecycles[i] EXCEPT !.simulated = TRUE]}
  BY <1>1, <1>5 DEF PlansInv
<1>7. PlansInv(f)
  <2>1. DOMAIN e.lifecycles = 1 .. Len(e.plans)
    BY <1>5 DEF PlansInv
  <2>2. f.lifecycles = [i \in 1 .. Len(e.plans) |-> f.lifecycles[i]]
    BY <1>1, <2>1
  <2> QED
    BY <1>1, <1>5, <2>2 DEF PlansInv
<1>8. ASSUME NEW i \in 1 .. Len(f.plans)
      PROVE  LifecycleInv(f, f.lifecycles[i], f.plans[i])
  <2> DEFINE l == e.lifecycles[i]
             marked == [l EXCEPT !.simulated = TRUE]
             plan == e.plans[i]
  <2>1. LifecycleInv(e, l, plan)
    BY <1>1, <1>8 DEF TimesInv
  <2>2. LifecycleInv(f, l, plan)
    BY <1>3, <1>4, <2>1, LifecycleStays
  <2>3. LifecycleInv(f, marked, plan)
    <3>1. /\ DOMAIN NoLifecycle =
                {"state", "due", "confirmedAt", "terminalAt", "entry", "simulated"}
          /\ l = [x \in DOMAIN NoLifecycle |-> l[x]]
      BY <2>1 DEF NoLifecycle, LifecycleInv
    <3> HIDE DEF l, plan
    <3>2. /\ marked = [x \in DOMAIN NoLifecycle |-> marked[x]]
          /\ marked.state = l.state /\ marked.due = l.due /\ marked.entry = l.entry
          /\ marked.confirmedAt = l.confirmedAt /\ marked.terminalAt = l.terminalAt
      BY <3>1
    <3> HIDE DEF marked
    <3> QED
      BY <2>2, <3>2 DEF LifecycleInv, Confirmed, CapturedFirst
  <2> QED
    BY <1>1, <1>6, <1>8, <2>2, <2>3
<1>9. ASSUME NEW r \in f.results
      PROVE  ResultInv(f, r)
  <2>1. CASE r \in e.results
    <3>1. ResultInv(e, r)
      BY <2>1 DEF TimesInv
    <3> QED
      BY <1>1, <1>3, <1>5, <3>1, ResultStays
  <2>2. CASE r \notin e.results
    <3>1. PICK i \in finished : r = R(i)
      BY <1>1, <1>9, <2>2
    <3>2. /\ i \in 1 .. Len(e.plans) /\ Simulates(e.lifecycles[i])
          /\ e.plans[i].symbol = event.symbol
      BY <1>5, <3>1 DEF Mine
    <3>3. LifecycleInv(e, e.lifecycles[i], e.plans[i])
      BY <3>2 DEF TimesInv
    <3>4. ObservationInv(e, e.symbols[event.symbol])
      BY <1>2 DEF TimesInv, ObservedInv
    <3>5. ResultInv(e, r)
      <4> HIDE DEF event
      <4> QED
        BY <1>2, <1>4, <3>1, <3>2, <3>3, <3>4, ResultIsSound
    <3> QED
      BY <1>1, <1>3, <1>5, <3>5, ResultStays
  <2> QED
    BY <2>1, <2>2
<1> QED
  BY <1>1, <1>3, <1>7, <1>8, <1>9 DEF TimesInv, f

(* All the work on a candle.                                               *)
LEMMA WorkTimes ==
  ASSUME OrderedInv, NEW e, TimesInv(e), IsEngine(e), e.stage # "events"
  PROVE  TimesInv(Work(e, Current(e)))
<1> DEFINE event == Current(e)
           last == SimulationStage([e EXCEPT !.stage = "events"], event)
<1>1. e.stage \in {"planning", "monitoring", "capture", "simulation"}
  BY DEF TimesInv, StageInv, Stages
<1>2. CASE e.stage = "planning"
  <2>1. Work(e, event) = PlanStage([e EXCEPT !.stage = "monitoring"], event)
    BY <1>2, Zenon DEF Work
  <2> QED
    BY <1>2, <2>1, PlanStageKeeps
<1>3. CASE e.stage = "monitoring"
  <2>1. Work(e, event) = MonitorStage([e EXCEPT !.stage = "capture"], event)
    BY <1>3, Zenon DEF Work
  <2> QED
    BY <1>3, <2>1, MonitorStageKeeps
<1>4. CASE e.stage = "capture"
  <2>1. Work(e, event) = CaptureStage([e EXCEPT !.stage = "simulation"], event)
    BY <1>4, Zenon DEF Work
  <2> QED
    BY <1>4, <2>1, CaptureStageKeeps
<1>5. CASE e.stage = "simulation"
  <2>1. Work(e, event) = Kept(last)
    BY <1>5, Zenon DEF Work
  <2>2. TimesInv(last) /\ IsEngine(last)
    BY <1>5, SimulationStageKeeps
  <2> HIDE DEF last
  <2>3. SameTimes(last, Kept(last))
    BY <2>2 DEF SameTimes, Kept, IsEngine, EngineFields
  <2> QED
    BY <2>1, <2>2, <2>3, SameTimesKeeps
<1> QED
  BY <1>1, <1>2, <1>3, <1>4, <1>5

(* An applied event.                                                       *)
LEMMA ApplyTimes ==
  ASSUME OrderedInv, NEW e, TimesInv(e), IsEngine(e), e.stage = "events", e.next > 1
  PROVE  TimesInv(Apply(e, Current(e), e.next - 1))
<1> DEFINE event == Current(e)
           counted == [e EXCEPT
            !.symbols[event.symbol] = Observed(@, event),
            !.checkpoint = [replayed |-> @.replayed + 1, at |-> event.at,
                            sequence |-> event.sequence],
            !.applied = @ \cup {e.next - 1}]
           candle == [counted EXCEPT !.stage = "planning"]
           rejected == [e EXCEPT !.status = "REJECTED"]
           f == Apply(e, event, e.next - 1)
<1>1. /\ IsEngine(counted) /\ counted.next = e.next /\ counted.stage = "events"
      /\ counted.applied = e.applied \cup {e.next - 1}
      /\ counted.symbols = [e.symbols EXCEPT ![event.symbol] = Observed(@, event)]
      /\ counted.candidates = e.candidates /\ counted.plans = e.plans
      /\ counted.lifecycles = e.lifecycles /\ counted.results = e.results
      /\ counted.delays = e.delays
  BY DEF IsEngine, EngineFields
<1>2. \/ event.category # "CLOSED_CANDLE" /\ f = Kept(counted)
      \/ event.category = "CLOSED_CANDLE" /\ f = candle
      \/ f = rejected
  BY Zenon DEF Apply
<1> HIDE DEF counted, f
<1>3. CASE event.category # "CLOSED_CANDLE" /\ f = Kept(counted)
  <2>1. TimesInv(counted)
    BY <1>1, <1>3, AppliedKeeps DEF Current
  <2>2. SameTimes(counted, Kept(counted))
    BY <1>1 DEF SameTimes, Kept, IsEngine, EngineFields
  <2> QED
    BY <1>3, <2>1, <2>2, SameTimesKeeps DEF f
<1>4. CASE event.category = "CLOSED_CANDLE" /\ f = candle
  <2>1. /\ candle.next = e.next /\ candle.stage = "planning"
        /\ candle.applied = e.applied \cup {e.next - 1}
        /\ candle.symbols = [e.symbols EXCEPT ![event.symbol] = Observed(@, event)]
        /\ candle.candidates = e.candidates /\ candle.plans = e.plans
        /\ candle.lifecycles = e.lifecycles /\ candle.results = e.results
        /\ candle.delays = e.delays
    BY <1>1 DEF IsEngine, EngineFields
  <2> HIDE DEF candle
  <2>2. TimesInv(candle)
    BY <1>4, <2>1, AppliedKeeps DEF Current
  <2> QED
    BY <1>4, <2>2 DEF f
<1>5. CASE f = rejected
  <2>1. SameTimes(e, rejected)
    BY DEF SameTimes, IsEngine, EngineFields
  <2> QED
    BY <1>5, <2>1, SameTimesKeeps DEF f
<1> QED
  BY <1>2, <1>3, <1>4, <1>5

(* A round over the source.                                                *)
LEMMA NextEventTimes ==
  ASSUME OrderedInv, NEW e, TimesInv(e), IsEngine(e), e.stage = "events"
  PROVE  TimesInv(NextEvent(e, input.events, input.coverage.excluded))
<1> DEFINE excluded == input.coverage.excluded
           f == NextEvent(e, input.events, excluded)
           cut == [e EXCEPT !.truncated = TRUE]
           consumed == [e EXCEPT !.next = @ + 1]
           cancelled == [consumed EXCEPT !.status = "CANCELLED"]
<1>1. \/ f = Finished(e, excluded) \/ f = Finished(cut, excluded)
      \/ ~(e.next > Len(input.events)) /\ f = cancelled
      \/ ~(e.next > Len(input.events)) /\ f = consumed
      \/ ~(e.next > Len(input.events)) /\ f = Apply(consumed, input.events[e.next], e.next)
  BY Zenon DEF NextEvent
<1>2. SameTimes(e, Finished(e, excluded)) /\ SameTimes(e, Finished(cut, excluded))
  BY DEF SameTimes, Finished, IsEngine, EngineFields
<1>3. e.next \in Nat /\ Len(input.events) \in Nat
  BY PlaceType DEF TimesInv
<1>4. /\ IsEngine(consumed) /\ consumed.next = e.next + 1
      /\ consumed.applied = e.applied /\ consumed.stage = e.stage
      /\ consumed.symbols = e.symbols /\ consumed.candidates = e.candidates
      /\ consumed.plans = e.plans /\ consumed.lifecycles = e.lifecycles
      /\ consumed.results = e.results /\ consumed.delays = e.delays
  BY DEF IsEngine, EngineFields
<1> HIDE DEF f, consumed
<1>5. ASSUME ~(e.next > Len(input.events))
      PROVE  TimesInv(consumed) /\ consumed.next > 1
  <2>1. e.next <= Len(input.events)
    BY <1>3, <1>5
  <2> QED
    BY <1>4, <2>1, ConsumedKeeps
<1>6. SameTimes(consumed, cancelled)
  BY <1>4 DEF SameTimes, IsEngine, EngineFields
<1>7. ASSUME ~(e.next > Len(input.events))
      PROVE  TimesInv(Apply(consumed, input.events[e.next], e.next))
  <2>1. Current(consumed) = input.events[e.next] /\ consumed.next - 1 = e.next
    BY <1>3, <1>4 DEF Current
  <2> QED
    BY <1>4, <1>5, <1>7, <2>1, ApplyTimes
<1> HIDE DEF cancelled, cut
<1>8. TimesInv(f)
  BY <1>1, <1>2, <1>5, <1>6, <1>7, SameTimesKeeps
<1> QED
  BY <1>8 DEF f

(* A new engine has nothing behind it.                                     *)
LEMMA NewEngineTimes ==
  ASSUME OrderedInv, NEW resume, NEW delays \in [1 .. MaxPlans -> Delays]
  PROVE  TimesInv(NewEngine(resume, delays))
<1> DEFINE e == NewEngine(resume, delays)
<1>1. /\ e.next = 1 /\ e.applied = {} /\ e.stage = "events" /\ e.delays = delays
      /\ e.symbols = [symbol \in Symbols |-> NewSymbol]
      /\ e.candidates = [key \in DOMAIN PlanOfKey |-> NoCandidate]
      /\ e.plans = SeedPlans /\ e.lifecycles = [i \in DOMAIN SeedPlans |-> NoLifecycle]
      /\ e.results = {}
  BY DEF NewEngine
<1> HIDE DEF e
<1>2. StageInv(e)
  BY <1>1 DEF StageInv, Stages, OrderedInv
<1>3. ObservedInv(e)
  <2>1. ObservationInv(e, NewSymbol)
    BY DEF ObservationInv, NewSymbol
  <2> QED
    BY <1>1, <2>1 DEF ObservedInv
<1>4. SeedPlans \in Seq(Plan)
  BY ReplayAssumption
<1>5. PlansInv(e)
  <2>1. CandidatesInv(e.candidates) /\ PlannedKeys(e.candidates) = {}
    <3>1. /\ NoCandidate = [f \in DOMAIN NoCandidate |-> NoCandidate[f]]
          /\ NoCandidate.planned = FALSE
      BY DEF NoCandidate
    <3>2. \A key \in DOMAIN PlanOfKey : e.candidates[key] = NoCandidate
      BY <1>1
    <3>3. e.candidates = [key \in DOMAIN PlanOfKey |-> e.candidates[key]]
      BY <1>1
    <3> QED
      BY <3>1, <3>2, <3>3 DEF CandidatesInv, PlannedKeys
  <2>2. Cardinality(PlannedKeys(e.candidates)) = 0
    BY <2>1, FS_EmptySet
  <2>3. e.lifecycles = [i \in 1 .. Len(e.plans) |-> e.lifecycles[i]]
    BY <1>1, <1>4
  <2> QED
    BY <1>1, <1>4, <2>1, <2>2, <2>3 DEF PlansInv
<1>6. \A i \in 1 .. Len(e.plans) : LifecycleInv(e, e.lifecycles[i], e.plans[i])
  BY <1>1, <1>4, NoLifecycleInv
<1> QED
  BY <1>1, <1>2, <1>3, <1>5, <1>6 DEF TimesInv, e

-----------------------------------------------------------------------------
(* The engines of the runner in time.                                      *)

TimedInv ==
    /\ OrderedInv
    /\ \A q \in Requests : engines[q] # NoEngine => TimesInv(engines[q])

(* A source is ordered before anything runs.                               *)
LEMMA TimedInit == Init => TimedInv
<1> SUFFICES ASSUME Init
             PROVE  TimedInv
  OBVIOUS
<1>1. PICK events \in Inputs : input = [events |-> Source(events), coverage |-> Coverage(events)]
  BY DEF Init
<1>2. input.events = Source(events) /\ IsProvided(events)
  BY <1>1, RunnerAssumption
<1>3. OrderedInv
  BY <1>2, SourceIsOrdered DEF OrderedInv
<1>4. \A q \in Requests : engines[q] = NoEngine
  BY DEF Init
<1> QED
  BY <1>3, <1>4 DEF TimedInv

(* Every step keeps every engine in time.                                  *)
LEMMA TimedNext ==
  ASSUME RunnerInv, TimedInv, [Next]_vars
  PROVE  TimedInv'
<1>1. input' = input
  BY DEF Next, vars, Request, RequestStep, Enter, Lookup, CreateRun, CreateReport, Validate,
         Reject, StartRun, Collect, Fail, PersistResult, SaveCheckpoint, Finish, Replays,
         TimesOut, EngineRaises, Cancel, Crash
<1>2. OrderedInv' /\ \A e : TimesInv(e)' <=> TimesInv(e)
  BY <1>1 DEF TimedInv, OrderedInv, TimesInv, StageInv, ObservedInv, ObservationInv,
              PlansInv, LifecycleInv, ResultInv, Confirmed, CapturedFirst, Pending, Past,
              Now, CandleInstants
<1>3. ASSUME NEW q \in Requests, NEW e, TimesInv(e), engines' = [engines EXCEPT ![q] = e]
      PROVE  TimedInv'
  <2>1. \A p \in Requests : engines'[p] = IF p = q THEN e ELSE engines[p]
    BY <1>3 DEF RunnerInv, EnginesInv
  <2> QED
    BY <1>2, <1>3, <2>1 DEF TimedInv
<1>4. CASE UNCHANGED engines
  BY <1>2, <1>4 DEF TimedInv
<1>5. ASSUME NEW q \in Requests, Validate(q)
      PROVE  TimedInv'
  <2>1. \/ UNCHANGED engines
        \/ \E delays \in [1 .. MaxPlans -> Delays] :
              engines' = [engines EXCEPT ![q] = NewEngine(requests[q].marker, delays)]
    BY <1>5 DEF Validate
  <2> QED
    BY <1>3, <1>4, <2>1, NewEngineTimes DEF TimedInv
<1>6. ASSUME NEW q \in Requests, Replays(q)
      PROVE  TimedInv'
  <2> DEFINE e == engines[q]
             f == IF e.stage = "events"
                  THEN NextEvent(e, input.events, input.coverage.excluded)
                  ELSE Work(e, input.events[e.next - 1])
  <2>1. TimesInv(e) /\ IsEngine(e) /\ OrderedInv
    BY <1>6 DEF Replays, RunnerInv, EnginesInv, EngineInv, TimedInv
  <2>2. ASSUME e.stage = "events"
        PROVE  TimesInv(f)
    <3>1. f = NextEvent(e, input.events, input.coverage.excluded)
      BY <2>2
    <3> QED
      BY <2>1, <2>2, <3>1, NextEventTimes
  <2>3. ASSUME e.stage # "events"
        PROVE  TimesInv(f)
    <3>1. f = Work(e, Current(e))
      BY <2>3, Zenon DEF Current
    <3> QED
      BY <2>1, <2>3, <3>1, WorkTimes
  <2>4. engines' = [engines EXCEPT ![q] = f]
    BY <1>6, Zenon DEF Replays
  <2> HIDE DEF f
  <2> QED
    BY <1>3, <2>2, <2>3, <2>4
<1>7. ASSUME NEW q \in Requests, EngineRaises(q)
      PROVE  TimedInv'
  <2> DEFINE f == [engines[q] EXCEPT !.status = "RAISED"]
  <2>1. engines[q] # NoEngine
    BY <1>7 DEF EngineRaises, RunnerInv, EnginesInv, At, Places
  <2>2. TimesInv(engines[q]) /\ IsEngine(engines[q]) /\ OrderedInv
    BY <2>1 DEF RunnerInv, EnginesInv, EngineInv, TimedInv
  <2>3. SameTimes(engines[q], f)
    BY <2>2 DEF SameTimes, IsEngine, EngineFields
  <2>4. engines' = [engines EXCEPT ![q] = f]
    BY <1>7 DEF EngineRaises, RunnerInv, EnginesInv
  <2> HIDE DEF f
  <2> QED
    BY <1>3, <2>2, <2>3, <2>4, SameTimesKeeps
<1>8. ASSUME NEW r \in Runs, Cancel(r)
      PROVE  TimedInv'
  <2> DEFINE p == active[r]
             f == [engines[p] EXCEPT !.cancelled = TRUE]
  <2>1. p \in Requests /\ engines[p] # NoEngine
    BY <1>8 DEF Cancel, RunnerInv, EnginesInv
  <2>2. TimesInv(engines[p]) /\ IsEngine(engines[p]) /\ OrderedInv
    BY <2>1 DEF RunnerInv, EnginesInv, EngineInv, TimedInv
  <2>3. SameTimes(engines[p], f)
    BY <2>2 DEF SameTimes, IsEngine, EngineFields
  <2>4. engines' = [engines EXCEPT ![p] = f]
    BY <1>8 DEF Cancel, RunnerInv, EnginesInv
  <2> HIDE DEF f, p
  <2> QED
    BY <1>3, <2>1, <2>2, <2>3, <2>4, SameTimesKeeps
<1>9. ASSUME Crash
      PROVE  TimedInv'
  BY <1>2, <1>9 DEF Crash, TimedInv
<1>10. ASSUME NEW q \in Requests,
              \/ Request(q) \/ Enter(q) \/ Lookup(q) \/ CreateRun(q) \/ CreateReport(q)
              \/ Reject(q) \/ StartRun(q) \/ TimesOut(q) \/ Fail(q) \/ PersistResult(q)
              \/ SaveCheckpoint(q) \/ Finish(q) \/ Collect(q)
       PROVE  TimedInv'
  BY <1>4, <1>10 DEF Request, Enter, Lookup, CreateRun, CreateReport, Reject, StartRun,
       TimesOut, Fail, PersistResult, SaveCheckpoint, Finish, Collect
<1>11. CASE UNCHANGED vars
  BY <1>4, <1>11 DEF vars
<1> QED
  BY <1>5, <1>6, <1>7, <1>8, <1>9, <1>10, <1>11 DEF Next, RequestStep

(* A follower never acts before its delay, nor on what it could not know:  *)
(* the entry of every result is modelled at the first candle instant of    *)
(* its symbol at or after the due instant, on a book no newer than that,   *)
(* not after the exit (backtest_engine.py, _stage_lifecycle to             *)
(* _stage_simulation).                                                     *)
THEOREM EntryIsDelayedHolds == Spec => []EntryIsDelayed
<1>1. TimedInv => EntryIsDelayed
  <2> SUFFICES ASSUME TimedInv, NEW q \in Requests, engines[q] # NoEngine,
                      NEW r \in engines[q].results
               PROVE  LET plan == engines[q].plans[r.plan]
                          usable == {t \in Instants(q, plan.symbol) :
                                      t >= r.due /\ t <= r.exitAt}
                      IN  /\ plan.asOf <= r.confirmedAt
                          /\ r.confirmedAt < plan.expiry
                          /\ r.confirmedAt <= r.exitAt
                          /\ r.entryAt = IF usable = {} THEN None ELSE Min(usable)
                          /\ r.entryAt # None /\ r.bookAt # None => r.bookAt <= r.entryAt
                          /\ r.entryAt = None => r.state = "REJECTED"
    BY Zenon DEF EntryIsDelayed
  <2>1. ResultInv(engines[q], r)
    BY DEF TimedInv, TimesInv
  <2>2. \A s : Instants(q, s) = CandleInstants(engines[q], s)
    BY DEF Instants, CandleInstants
  <2> QED
    BY <2>1, <2>2 DEF ResultInv, Confirmed
<1>2. RunnerInv /\ TimedInv /\ [Next]_vars => RunnerInv' /\ TimedInv'
  BY RunnerNext, TimedNext
<1>3. Init => RunnerInv /\ TimedInv
  BY RunnerInit, TimedInit
<1> QED
  BY <1>1, <1>2, <1>3, PTL DEF Spec

=============================================================================
