------------------------------- MODULE Backtest --------------------------------
(***************************************************************************)
(* The backtest runner (src/app/jobs/backtest_runner.py): requests for one *)
(* manifest wait for a slot, store their run, replay in a thread and store *)
(* the outcome.  Every database call is guarded: a failure degrades, it    *)
(* never stops the request.  Requests may be cancelled or time out, and    *)
(* the process may die.                                                    *)
(***************************************************************************)
EXTENDS BacktestReplay

CONSTANTS
    Requests,       \* calls of run_backtest
    Runs,           \* run ids
    Inputs,         \* what a provider may hold: sets of events
    MaxConcurrent,  \* max_concurrent_runs
    MaxTroubles     \* bound: failing calls, cancellations, timeouts, crashes

ASSUME RunnerAssumption ==
    /\ IsFiniteSet(Requests) /\ IsFiniteSet(Runs)
    /\ \A events \in Inputs : IsProvided(events)
    /\ MaxConcurrent \in Nat \ {0}
    /\ MaxTroubles \in Nat

VARIABLES
    input,      \* what the provider holds: its ordered events, their coverage
    run,        \* simulation_runs: the row of the manifest, or NoRun
    reports,    \* backtest_runs: run -> its row, or NoReport
    positions,  \* simulated_positions: the results stored for each request
    requests,   \* the calls
    engines,    \* request -> the engine of its thread, or NoEngine
    active,     \* memory: run -> the request whose engine may be cancelled
    troubles    \* so far

vars == <<input, run, reports, positions, requests, engines, active, troubles>>

Terminal == {"COMPLETED", "COMPLETED_WITH_GAPS", "INCOMPLETE", "REJECTED",
             "FAILED", "CANCELLED"}

Completed == {"COMPLETED", "COMPLETED_WITH_GAPS"}

NoRun == [id |-> None, status |-> "NONE", checkpoint |-> NoCheckpoint]

NoReport == [status |-> "NONE", checkpoint |-> NoCheckpoint]

NoEngine == [status |-> "NONE"]

Fresh == [at |-> "idle", run |-> None, resumes |-> FALSE,
          marker |-> NoCheckpoint, left |-> {}]

Init ==
    /\ input \in {[events |-> Source(events), coverage |-> Coverage(events)] :
                    events \in Inputs}
    /\ run = NoRun
    /\ reports = [r \in Runs |-> NoReport]
    /\ positions = [q \in Requests |-> {}]
    /\ requests = [q \in Requests |-> Fresh]
    /\ engines = [q \in Requests |-> NoEngine]
    /\ active = [r \in Runs |-> None]
    /\ troubles = 0

Trouble == troubles < MaxTroubles /\ troubles' = troubles + 1

DatabaseWorks == UNCHANGED troubles

Goto(q, place) == requests' = [requests EXCEPT ![q].at = place]

At(q, place) == requests[q].at = place

(* Those that hold the semaphore.                                          *)
Holding == {q \in Requests : requests[q].at \notin
                {"idle", "waiting", "returned", "lost"}}

-----------------------------------------------------------------------------
(* Starting a run *)

(* A call names a run, and may resume from the checkpoint stored for it.   *)
Request(q) ==
    /\ At(q, "idle")
    /\ \E r \in Runs, resumes \in BOOLEAN :
        /\ resumes => reports[r].checkpoint # NoCheckpoint
        /\ requests' = [requests EXCEPT ![q] =
            [Fresh EXCEPT !.at = "waiting", !.run = r, !.resumes = resumes,
                          !.marker = IF resumes THEN reports[r].checkpoint
                                     ELSE NoCheckpoint]]
    /\ UNCHANGED <<input, run, reports, positions, engines, active, troubles>>

Enter(q) ==
    /\ At(q, "waiting")
    /\ Cardinality(Holding) < MaxConcurrent
    /\ Goto(q, "lookup")
    /\ UNCHANGED <<input, run, reports, positions, engines, active, troubles>>

(* A run of the manifest refuses another one, unless it is resumed; a      *)
(* failing lookup finds none.                                              *)
Lookup(q) ==
    /\ At(q, "lookup")
    /\ \/ /\ DatabaseWorks
          /\ IF run # NoRun /\ ~requests[q].resumes
             THEN Goto(q, "returned") ELSE Goto(q, "create")
       \/ Trouble /\ Goto(q, "create")
    /\ UNCHANGED <<input, run, reports, positions, engines, active>>

(* create_run: the manifest has one run; whether it was stored is not      *)
(* looked at.                                                              *)
CreateRun(q) ==
    /\ At(q, "create")
    /\ Goto(q, "report")
    /\ \/ /\ DatabaseWorks
          /\ run' = IF run # NoRun THEN run
                    ELSE [NoRun EXCEPT !.id = requests[q].run, !.status = "VALIDATING"]
       \/ Trouble /\ UNCHANGED run
    /\ UNCHANGED <<input, reports, positions, engines, active>>

Stored(r) == run.id = r

CreateReport(q) ==
    LET r == requests[q].run
    IN  /\ At(q, "report")
        /\ Goto(q, "validate")
        /\ \/ /\ DatabaseWorks
              /\ reports' = IF Stored(r) /\ reports[r] = NoReport
                            THEN [reports EXCEPT ![r].status = "VALIDATING"]
                            ELSE reports
           \/ Trouble /\ UNCHANGED reports
        /\ UNCHANGED <<input, run, positions, engines, active>>

(* The data are checked before any replay; with the engine the run becomes *)
(* cancellable.                                                            *)
Validate(q) ==
    LET r == requests[q].run
    IN  /\ At(q, "validate")
        /\ IF input.coverage.complete \/ input.coverage.excluded # {}
           THEN /\ Goto(q, "start")
                /\ \E delays \in [1 .. MaxPlans -> Delays] :
                    engines' = [engines EXCEPT ![q] =
                        NewEngine(requests[q].marker, delays)]
                /\ active' = [active EXCEPT ![r] = q]
           ELSE Goto(q, "reject") /\ UNCHANGED <<engines, active>>
        /\ UNCHANGED <<input, run, reports, positions, troubles>>

(* Mutant: the history of a terminal run is overwritten.                   *)
ProgressAlways(r, status, checkpoint) ==
    IF Stored(r)
    THEN [run EXCEPT !.status = status, !.checkpoint = checkpoint] ELSE run

(* update_progress: terminal runs are immutable history.                   *)
Progress(r, status, checkpoint) ==
    IF Stored(r) /\ run.status \notin Terminal
    THEN [run EXCEPT !.status = status, !.checkpoint = checkpoint] ELSE run

UpdateProgress(q, status, checkpoint) ==
    \/ DatabaseWorks /\ run' = Progress(requests[q].run, status, checkpoint)
    \/ Trouble /\ UNCHANGED run

Reject(q) ==
    /\ At(q, "reject")
    /\ UpdateProgress(q, "REJECTED", run.checkpoint)
    /\ Goto(q, "returned")
    /\ UNCHANGED <<input, reports, positions, engines, active>>

StartRun(q) ==
    /\ At(q, "start")
    /\ UpdateProgress(q, "RUNNING", run.checkpoint)
    /\ Goto(q, "replay")
    /\ UNCHANGED <<input, reports, positions, engines, active>>

-----------------------------------------------------------------------------
(* The replay *)

(* A thread goes on whether or not its request still waits for it.         *)
Replays(q) ==
    /\ engines[q] # NoEngine
    /\ requests[q].at \notin {"start", "lost"}
    /\ engines[q].status = "RUNNING"
    /\ engines' = [engines EXCEPT ![q] =
            IF @.stage = "events"
            THEN NextEvent(@, input.events, input.coverage.excluded)
            ELSE Work(@, input.events[@.next - 1])]
    /\ UNCHANGED <<input, run, reports, positions, requests, active, troubles>>

Cancel(r) ==
    /\ active[r] # None
    /\ ~engines[active[r]].cancelled
    /\ Trouble
    /\ engines' = [engines EXCEPT ![active[r]].cancelled = TRUE]
    /\ UNCHANGED <<input, run, reports, positions, requests, active>>

Release(q) == active' = [active EXCEPT ![requests[q].run] = None]

(* The engine returns in time.                                             *)
Collect(q) ==
    /\ At(q, "replay")
    /\ engines[q].status # "RUNNING"
    /\ requests' = [requests EXCEPT ![q].at = "persist", ![q].left = engines[q].results]
    /\ Release(q)
    /\ UNCHANGED <<input, run, reports, positions, engines, troubles>>

(* The timeout, or an event the engine cannot read: the run has failed.    *)
(* The thread of a timed out run goes on.                                  *)
TimesOut(q) ==
    /\ At(q, "replay")
    /\ Trouble
    /\ Goto(q, "fail")
    /\ UNCHANGED <<input, run, reports, positions, engines, active>>

EngineRaises(q) ==
    /\ At(q, "replay")
    /\ engines[q].status = "RUNNING"
    /\ Trouble
    /\ Goto(q, "fail")
    /\ engines' = [engines EXCEPT ![q].status = "RAISED"]
    /\ UNCHANGED <<input, run, reports, positions, active>>

Fail(q) ==
    /\ At(q, "fail")
    /\ UpdateProgress(q, "FAILED", run.checkpoint)
    /\ Goto(q, "returned")
    /\ Release(q)
    /\ UNCHANGED <<input, reports, positions, engines>>

-----------------------------------------------------------------------------
(* The outcome *)

(* Every result is stored on its own; one that fails is lost.              *)
PersistResult(q) ==
    /\ At(q, "persist")
    /\ \E result \in requests[q].left :
        /\ requests' = [requests EXCEPT ![q].left = @ \ {result}]
        /\ \/ /\ DatabaseWorks
              /\ positions' = IF Stored(requests[q].run) /\ result.state # "REJECTED"
                              THEN [positions EXCEPT ![q] = @ \cup {result}]
                              ELSE positions
           \/ Trouble /\ UNCHANGED positions
    /\ UNCHANGED <<input, run, reports, engines, active>>

(* The last periodic checkpoint, or the final one when there is none.      *)
LastCheckpoint(q) ==
    IF engines[q].kept = None THEN engines[q].checkpoint ELSE engines[q].kept

SaveCheckpoint(q) ==
    LET r == requests[q].run
    IN  /\ At(q, "persist")
        /\ requests[q].left = {}
        /\ Goto(q, "finish")
        /\ \/ /\ DatabaseWorks
              /\ reports' = IF reports[r] = NoReport THEN reports
                            ELSE [reports EXCEPT ![r] =
                                [status |-> engines[q].status,
                                 checkpoint |-> LastCheckpoint(q)]]
           \/ Trouble /\ UNCHANGED reports
        /\ UNCHANGED <<input, run, positions, engines, active>>

(* Mutant: only a run without gaps is closed.                              *)
FinishComplete(q) ==
    /\ At(q, "finish")
    /\ IF engines[q].status = "COMPLETED"
       THEN UpdateProgress(q, engines[q].status, LastCheckpoint(q))
       ELSE UNCHANGED <<run, troubles>>
    /\ Goto(q, "returned")
    /\ UNCHANGED <<input, reports, positions, engines, active>>

Finish(q) ==
    /\ At(q, "finish")
    /\ UpdateProgress(q, engines[q].status, LastCheckpoint(q))
    /\ Goto(q, "returned")
    /\ UNCHANGED <<input, reports, positions, engines, active>>

(* The process dies: calls and threads are lost, the rows stay.            *)
Crash ==
    /\ Trouble
    /\ requests' = [q \in Requests |->
        IF requests[q].at \in {"idle", "returned"} THEN requests[q]
        ELSE [requests[q] EXCEPT !.at = "lost"]]
    /\ engines' = [q \in Requests |-> NoEngine]
    /\ active' = [r \in Runs |-> None]
    /\ UNCHANGED <<input, run, reports, positions>>

RequestStep(q) ==
    \/ Enter(q)
    \/ Lookup(q)
    \/ CreateRun(q)
    \/ CreateReport(q)
    \/ Validate(q)
    \/ Reject(q)
    \/ StartRun(q)
    \/ Collect(q)
    \/ Fail(q)
    \/ PersistResult(q)
    \/ SaveCheckpoint(q)
    \/ Finish(q)

Next ==
    \/ \E q \in Requests :
        \/ Request(q)
        \/ RequestStep(q)
        \/ Replays(q)
        \/ TimesOut(q)
        \/ EngineRaises(q)
    \/ \E r \in Runs : Cancel(r)
    \/ Crash

Spec == Init /\ [][Next]_vars

(* Requests go on after every await, and an engine goes on from event to   *)
(* event.                                                                  *)
FairSpec ==
    /\ Spec
    /\ \A q \in Requests : WF_vars(RequestStep(q)) /\ WF_vars(Replays(q))

-----------------------------------------------------------------------------
(* The candle instants of a symbol that the engine of a request works on.  *)
Instants(q, symbol) ==
    LET events == input.events
    IN  {events[i].at : i \in {i \in engines[q].applied :
            events[i].category = "CLOSED_CANDLE" /\ events[i].symbol = symbol}}

(* A follower never acts before its delay, nor on what it could not know:  *)
(* the entry of every result is modelled at the first candle instant of    *)
(* its symbol at or after the due instant, on a book no newer than that,   *)
(* not after the exit, and a plan is confirmed only while it exists        *)
(* (backtest_engine.py, _stage_lifecycle to _stage_simulation); without    *)
(* such an instant there is no modelled entry.                             *)
EntryIsDelayed ==
    \A q \in Requests : engines[q] # NoEngine =>
        \A result \in engines[q].results :
            LET plan == engines[q].plans[result.plan]
                usable == {t \in Instants(q, plan.symbol) :
                            t >= result.due /\ t <= result.exitAt}
            IN  /\ plan.asOf <= result.confirmedAt
                /\ result.confirmedAt < plan.expiry
                /\ result.confirmedAt <= result.exitAt
                /\ result.entryAt = IF usable = {} THEN None ELSE Min(usable)
                /\ result.entryAt # None /\ result.bookAt # None
                    => result.bookAt <= result.entryAt
                /\ result.entryAt = None => result.state = "REJECTED"

(* A run is reported as complete only by a request whose engine saw every  *)
(* event of the window behind its marker that is not in an excluded gap,   *)
(* up to the limit on events (backtest_engine.py, run; _persist_result).   *)
Whole(q) ==
    LET events == input.events
        excluded == input.coverage.excluded
    IN  engines[q].applied =
            {i \in 1 .. Smaller(Len(events), MaxEvents) :
                /\ ~BehindMarker(events[i], engines[q].marker)
                /\ ~IsExcluded(events[i], excluded)}

CompletedRunsAreWhole ==
    [][run'.status \in Completed /\ run.status \notin Completed =>
        \E q \in Requests :
            /\ engines[q] # NoEngine
            /\ requests[q].run = run.id
            /\ engines[q].status = run'.status
            /\ Whole(q)]_vars

(* Terminal runs are immutable history (simulation_run_repository.py:113): *)
(* neither a resumed request nor one that outlives another touches them.   *)
TerminalIsFinal ==
    [][run.status \in Terminal => run' = run]_vars

(* Unless something failed, a run that was stored reaches a terminal       *)
(* state, and unless the process dies every request returns, whatever      *)
(* became of the others.                                                   *)
EveryRunSettles ==
    /\ (run.status \in {"VALIDATING", "RUNNING"})
            ~> (run.status \in Terminal \/ troubles > 0)
    /\ \A q \in Requests :
        At(q, "waiting") ~> (requests[q].at \in {"returned", "lost"})

=============================================================================
