--------------------------- MODULE MCSignalLifecycle ---------------------------
(***************************************************************************)
(* Small instances of SignalLifecycle: two processes race over one plan,   *)
(* with crashes and failing transactions, and one process evaluates one    *)
(* signal in every kind of surroundings.                                   *)
(***************************************************************************)
EXTENDS SignalLifecycle, TLC

CONSTANTS s1, s2, p1, p2, plan1

(* The default priorities of the settings class.                           *)
MCPriority ==
    [DATA_INVALID |-> 100, INVALIDATED |-> 90, SUPERSEDED |-> 80,
     EXPIRED |-> 70, PAUSED |-> 65, TECHNICAL_EXIT |-> 60,
     TARGET_2_REACHED |-> 50, TARGET_1_REACHED |-> 40,
     ENTRY_CONFIRMED |-> 30, INFO |-> 10]

MCConfig == [p \in Processes |-> "config"]

MCPlanExpiry == [plan \in Plans |-> 2]

MCLongPlanExpiry == [plan \in Plans |-> 4]

MCInstrument == [plan \in Plans |-> "instrument"]

(* Nothing happens: every price past the entry zone, all data healthy.     *)
Quiet ==
    [plan |-> "ELIGIBLE", candidate |-> "CONFIRMED", superseding |-> FALSE,
     sessionAllowed |-> TRUE, dataOk |-> TRUE, resyncing |-> FALSE,
     bboFresh |-> TRUE, mark |-> Past, exitSide |-> Past, entrySide |-> Past,
     close |-> Past, wickInZone |-> FALSE, opposing |-> FALSE]

EntryZone == [Quiet EXCEPT !.close = Zone]

(* The race is about who finishes the work, not about what it decides: an  *)
(* entry, and once the plan has expired its end.                           *)
RaceContexts == {EntryZone}

(* Every mix of prices and data quality under an undisturbed plan.         *)
MarketContexts ==
    {[Quiet EXCEPT !.dataOk = data[1], !.resyncing = data[2],
                   !.bboFresh = bbo, !.mark = mark, !.exitSide = exit,
                   !.close = close] :
        data \in {<<TRUE, FALSE>>, <<TRUE, TRUE>>, <<FALSE, FALSE>>},
        bbo \in BOOLEAN, mark \in {Beyond, Past}, exit \in {Beyond, Past},
        close \in Ladder}

(* Every mix of plan, candidate and session on top of a few markets.       *)
PlanContexts ==
    {[Quiet EXCEPT !.plan = pc[1], !.candidate = pc[2],
                   !.superseding = newer, !.sessionAllowed = session,
                   !.opposing = opposing, !.close = close] :
        pc \in {"ELIGIBLE"} \X {"CONFIRMED", "SUPERSEDED", "EXPIRED", "LOST"}
               \cup {"SUPERSEDED", "EXPIRED", "OTHER", "LOST"}
                    \X {"CONFIRMED"},
        newer \in BOOLEAN, session \in BOOLEAN, opposing \in BOOLEAN,
        close \in {Zone, Target1}}

EngineContexts == MarketContexts \cup PlanContexts

=============================================================================
