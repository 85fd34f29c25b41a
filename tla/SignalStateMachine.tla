------------------------- MODULE SignalStateMachine -------------------------
(***************************************************************************)
(* The closed transition map of a research signal                          *)
(* (src/app/signals/state_machine.py): which states exist, which of them   *)
(* end a signal, and which moves between them are legal.                   *)
(***************************************************************************)

SignalState ==
    {"DRAFT", "PENDING_ADMISSION", "WATCHING_ENTRY", "ENTRY_CONFIRMED",
     "ACTIVE_RESEARCH", "TARGET_1_REACHED", "TARGET_2_REACHED",
     "TRAILING_RESEARCH", "TECHNICAL_EXIT", "INVALIDATED", "EXPIRED",
     "SUPERSEDED", "PAUSED", "REJECTED", "DATA_INVALID"}

TerminalStates ==
    {"TECHNICAL_EXIT", "INVALIDATED", "EXPIRED", "SUPERSEDED", "REJECTED",
     "DATA_INVALID"}

PostEntryStates ==
    {"ENTRY_CONFIRMED", "ACTIVE_RESEARCH", "TARGET_1_REACHED",
     "TARGET_2_REACHED", "TRAILING_RESEARCH"}

(***************************************************************************)
(* Anything not listed is invalid.  PAUSED is dormant, not terminal: only  *)
(* the closing moves leave it.                                             *)
(***************************************************************************)
TRANSITIONS ==
    LET Closing == {"EXPIRED", "SUPERSEDED", "DATA_INVALID"}
        Ending  == Closing \cup {"PAUSED"}
    IN  [DRAFT             |-> {"PENDING_ADMISSION", "REJECTED"},
         PENDING_ADMISSION |-> {"WATCHING_ENTRY", "REJECTED", "EXPIRED",
                                "PAUSED", "DATA_INVALID"},
         WATCHING_ENTRY    |-> Ending \cup {"ENTRY_CONFIRMED", "INVALIDATED",
                                            "REJECTED"},
         ENTRY_CONFIRMED   |-> Ending \cup {"ACTIVE_RESEARCH", "INVALIDATED"},
         ACTIVE_RESEARCH   |-> Ending \cup {"TARGET_1_REACHED",
                                            "TARGET_2_REACHED",
                                            "TRAILING_RESEARCH",
                                            "TECHNICAL_EXIT", "INVALIDATED"},
         TARGET_1_REACHED  |-> Ending \cup {"TARGET_2_REACHED",
                                            "TRAILING_RESEARCH",
                                            "TECHNICAL_EXIT", "INVALIDATED"},
         TARGET_2_REACHED  |-> Ending \cup {"TRAILING_RESEARCH",
                                            "TECHNICAL_EXIT"},
         TRAILING_RESEARCH |-> Ending \cup {"TECHNICAL_EXIT"},
         PAUSED            |-> Closing,
         TECHNICAL_EXIT    |-> {},
         INVALIDATED       |-> {},
         EXPIRED           |-> {},
         SUPERSEDED        |-> {},
         REJECTED          |-> {},
         DATA_INVALID      |-> {}]

IsTerminal(state) == state \in TerminalStates

IsPostEntry(state) == state \in PostEntryStates

CanTransition(from, to) == to \in TRANSITIONS[from]

=============================================================================
