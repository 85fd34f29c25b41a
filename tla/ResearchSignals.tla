--------------------------- MODULE ResearchSignals ---------------------------
(***************************************************************************)
(* What the research lifecycle promises its readers (dashboard, shadow     *)
(* simulation), with no worker, lease, lock or database in sight: a signal *)
(* is admitted once, in WATCHING_ENTRY, for a plan/config context that has *)
(* no other open signal; afterwards it only moves along the closed         *)
(* transition map, each move counted by its version, and a terminal state  *)
(* is its last (docs/signal-lifecycle.md, "Robustheit").                   *)
(***************************************************************************)
EXTENDS Integers, SignalStateMachine

CONSTANTS
    Signals,    \* identities a signal can be given (UUIDs)
    Contexts,   \* plan/config contexts (dedupe keys)
    NoContext   \* the context of a signal that is not admitted yet

VARIABLES
    state,      \* signal -> its state, "ABSENT" before it is admitted
    version,    \* signal -> number of the last transition
    context     \* signal -> the context it was admitted for

vars == <<state, version, context>>

Open(s) == state[s] # "ABSENT" /\ ~IsTerminal(state[s])

Init ==
    /\ state = [s \in Signals |-> "ABSENT"]
    /\ version = [s \in Signals |-> 0]
    /\ context = [s \in Signals |-> NoContext]

Admit(s, c) ==
    /\ state[s] = "ABSENT"
    /\ \A t \in Signals : Open(t) => context[t] # c
    /\ state' = [state EXCEPT ![s] = "WATCHING_ENTRY"]
    /\ version' = [version EXCEPT ![s] = 2]
    /\ context' = [context EXCEPT ![s] = c]

Move(s, to) ==
    /\ Open(s)
    /\ CanTransition(state[s], to)
    /\ state' = [state EXCEPT ![s] = to]
    /\ version' = [version EXCEPT ![s] = @ + 1]
    /\ UNCHANGED context

Next ==
    \E s \in Signals :
        \/ \E c \in Contexts : Admit(s, c)
        \/ \E to \in SignalState : Move(s, to)

Spec == Init /\ [][Next]_vars

=============================================================================
