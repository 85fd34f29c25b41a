------------------------------- MODULE OrderBook -------------------------------
(***************************************************************************)
(* data/orderbook_service.py and the book half of event_validation.py.     *)
(*                                                                         *)
(* A sequence number is written as its distance from the newest number the *)
(* exchange has given out, because that is all the code compares: lag 0 is *)
(* the newest update, and every new update makes all older lags grow by    *)
(* one.  From MaxLag on they are not told apart.  The levels of a book are *)
(* abstracted to what applying a message can do to them: right as of the   *)
(* book's own sequence number, or garbled.                                 *)
(***************************************************************************)
EXTENDS Naturals

CONSTANT
    MaxLag      \* lags at and beyond this one are equal

ASSUME LagAssumption == MaxLag \in Nat /\ MaxLag > 1

Lags == 0..MaxLag

(* A message is a snapshot or a delta.  A flaw makes the validator refuse  *)
(* it, or makes the best ask fall below the best bid.                      *)
Flaws == {"none", "rejected", "crosses"}

Message == [snapshot: BOOLEAN, lag: Lags, flaw: Flaws]

OrderbookState ==
    [initialized: BOOLEAN, needsResync: BOOLEAN, lag: Lags,
     levels: {"empty", "right", "garbled"}]

NewBook ==
    [initialized |-> FALSE, needsResync |-> FALSE, lag |-> MaxLag,
     levels |-> "empty"]

Reliable(book) == book.initialized /\ ~book.needsResync

(* Older by one: the exchange has given out another sequence number.       *)
Older(lag) == IF lag = MaxLag THEN MaxLag ELSE lag + 1

(* A snapshot that is crossed already is refused before it is applied.     *)
ValidateBookMessage(m) ==
    m.flaw = "none" \/ (m.flaw = "crosses" /\ ~m.snapshot)

MarkUnreliable(book) == [book EXCEPT !.needsResync = TRUE]

ResetForResync(book) ==
    [book EXCEPT !.initialized = FALSE, !.lag = MaxLag, !.levels = "empty"]

(* Mutant: a book that awaits a resync keeps awaiting it.                  *)
ApplySnapshotKeepingResync(book, m) ==
    [initialized |-> TRUE, needsResync |-> book.needsResync, lag |-> m.lag,
     levels |-> "right"]

ApplySnapshot(book, m) ==
    [initialized |-> TRUE, needsResync |-> FALSE, lag |-> m.lag,
     levels |-> "right"]

(* Mutant: any newer delta is applied.                                     *)
NoSequenceGap(book, m) == FALSE

(* A delta follows a book when its number is the next one.                 *)
SequenceGap(book, m) == book.lag # m.lag + 1

Updated(book, m) ==
    [book EXCEPT
        !.lag = m.lag,
        !.levels = IF book.lag = m.lag + 1 THEN @ ELSE "garbled",
        !.needsResync = m.flaw = "crosses"]

ApplyDelta(book, m) ==
    IF ~book.initialized THEN MarkUnreliable(book)
    ELSE IF book.needsResync \/ book.lag <= m.lag THEN book
    ELSE IF SequenceGap(book, m) THEN MarkUnreliable(book)
    ELSE Updated(book, m)

Apply(book, m) ==
    IF m.snapshot THEN ApplySnapshot(book, m) ELSE ApplyDelta(book, m)

=============================================================================
