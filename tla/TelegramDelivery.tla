--------------------------- MODULE TelegramDelivery ---------------------------
(***************************************************************************)
(* The persistent Telegram delivery queue: producers enqueue messages      *)
(* (src/app/telegram/delivery_service.py), one worker claims and sends     *)
(* them (src/app/telegram/delivery_queue.py), the rows live in             *)
(* src/app/repositories/telegram_delivery_repository.py.                   *)
(*                                                                         *)
(* Producers and worker are tasks of one event loop; they interleave at    *)
(* every await.  A transaction that reads rows and writes them back by id  *)
(* at its commit is two actions, because another one may commit between.   *)
(* A crash takes the whole process; it is restarted at once.               *)
(*                                                                         *)
(* Time is not counted: a backoff, a lease and the deduplication window    *)
(* end at some later step.                                                 *)
(***************************************************************************)
EXTENDS Integers, FiniteSets

CONSTANTS
    Deliveries,         \* idempotency keys; a key has one row at most
    Priority,           \* delivery -> 1 (critical) .. 4 (low)
    Content,            \* delivery -> content hash
    Edits,              \* deliveries that edit a message already sent
    Producers,          \* concurrent callers of enqueue
    QueueSize,          \* open deliveries before the overflow policy acts
    BatchSize,          \* deliveries claimed at once
    MaxRetryAttempts,   \* attempts before a delivery is a dead letter
    None,               \* no delivery
    MaxCrashes,         \* bound: crashes of the process
    MaxFaults           \* bound: database transactions that fail

ASSUME QueueAssumption ==
    /\ IsFiniteSet(Deliveries)
    /\ Priority \in [Deliveries -> 1 .. 4]
    /\ Edits \subseteq Deliveries
    /\ None \notin Deliveries
    /\ QueueSize \in Nat \ {0}
    /\ BatchSize \in Nat \ {0}
    /\ MaxRetryAttempts \in Nat \ {0}
    /\ MaxCrashes \in Nat
    /\ MaxFaults \in Nat

VARIABLES
    row,        \* telegram_deliveries: delivery -> its row
    producer,   \* producer -> where its call of enqueue stands
    worker,     \* where the worker's batch stands
    crashes,    \* crashes so far
    faults,     \* failed transactions so far
    sends,      \* history: delivery -> times Telegram carried it out
    unanswered  \* history: deliveries carried out without an answer

history == <<sends, unanswered>>

vars == <<row, producer, worker, crashes, faults, history>>

-----------------------------------------------------------------------------
(* Rows.                                                                   *)

Claimable == {"PENDING", "RETRYING"}

Open == Claimable \cup {"PROCESSING"}

Suppressed == {"FAILED", "DEAD_LETTER", "CANCELLED", "SKIPPED_DUPLICATE"}

Status == Open \cup Suppressed \cup {"ABSENT", "SENT", "EDITED"}

AbsentRow ==
    [status |-> "ABSENT", attempts |-> 0, order |-> 0, due |-> TRUE,
     lease |-> "none", recent |-> FALSE]

Exists(d) == row[d].status # "ABSENT"

Existing == {d \in Deliveries : Exists(d)}

IsOpen(d) == row[d].status \in Open

Created(status) ==
    [AbsentRow EXCEPT !.status = status, !.order = Cardinality(Existing),
                      !.recent = TRUE]

IdleProducer == [at |-> "idle", delivery |-> None, victim |-> None]

IdleWorker == [at |-> "idle", batch |-> {}, reclaimed |-> {},
               verdict |-> "none"]

Init ==
    /\ row = [d \in Deliveries |-> AbsentRow]
    /\ producer = [p \in Producers |-> IdleProducer]
    /\ worker = IdleWorker
    /\ crashes = 0
    /\ faults = 0
    /\ sends = [d \in Deliveries |-> 0]
    /\ unanswered = {}

DatabaseFails == faults < MaxFaults /\ faults' = faults + 1

-----------------------------------------------------------------------------
(* enqueue.                                                                *)

SetProducer(p, c) == producer' = [producer EXCEPT ![p] = c]

ProducerTo(p, place) == SetProducer(p, [producer[p] EXCEPT !.at = place])

Return(p) == SetProducer(p, IdleProducer)

(* A failed transaction raises out of enqueue.                             *)
EnqueueFails(p) == DatabaseFails /\ Return(p) /\ UNCHANGED row

(***************************************************************************)
(* A call begins and passes the pause gate.  The bot may be paused at any  *)
(* time, and a call the pause turns away changes nothing.                  *)
(***************************************************************************)
Enqueue(p, d) ==
    /\ producer[p].at = "idle"
    /\ SetProducer(p, [IdleProducer EXCEPT !.at = "dedup", !.delivery = d])
    /\ UNCHANGED <<row, worker, crashes, faults, history>>

(* A recent, live row of the same content, possibly the delivery's own.    *)
RecentDuplicates(d) ==
    {e \in Existing : /\ Content[e] = Content[d]
                      /\ row[e].recent
                      /\ row[e].status \notin Suppressed}

(* find_recent_duplicate returns any one of them.                          *)
CheckDuplicate(p) ==
    LET d == producer[p].delivery
    IN  /\ producer[p].at = "dedup"
        /\ \/ /\ \E e \in RecentDuplicates(d) : e # d
              /\ ProducerTo(p, "skip")
              /\ UNCHANGED <<row, faults>>
           \/ /\ RecentDuplicates(d) = {} \/ d \in RecentDuplicates(d)
              /\ ProducerTo(p, "count")
              /\ UNCHANGED <<row, faults>>
           \/ EnqueueFails(p)
        /\ UNCHANGED <<worker, crashes, history>>

CheckCapacity(p) ==
    /\ producer[p].at = "count"
    /\ \/ /\ ProducerTo(p, IF Cardinality({d \in Deliveries : IsOpen(d)})
                                  >= QueueSize
                           THEN "overflow" ELSE "insert")
          /\ UNCHANGED <<row, faults>>
       \/ EnqueueFails(p)
    /\ UNCHANGED <<worker, crashes, history>>

(* Mutant: whatever waits is a victim.                                     *)
VictimsOfAnyPriority(d) == {e \in Deliveries : row[e].status \in Claimable}

(* Critical and high deliveries are never dropped.                         *)
Victims(d) ==
    {e \in Deliveries : /\ row[e].status \in Claimable
                        /\ Priority[e] > 2 /\ Priority[e] > Priority[d]}

DropsBefore(d, e) ==
    \/ Priority[d] > Priority[e]
    \/ Priority[d] = Priority[e] /\ row[d].order <= row[e].order

(***************************************************************************)
(* cancel_lowest_priority, its read: the least urgent and oldest open      *)
(* delivery.  Without one a normal or low delivery is rejected, a critical *)
(* or high one is enqueued beyond the cap.                                 *)
(***************************************************************************)
ChooseVictim(p) ==
    LET d       == producer[p].delivery
        victims == Victims(d)
    IN  /\ producer[p].at = "overflow"
        /\ \/ /\ \E v \in victims :
                     /\ \A e \in victims : DropsBefore(v, e)
                     /\ SetProducer(p, [producer[p] EXCEPT !.at = "cancel",
                                                           !.victim = v])
              /\ UNCHANGED <<row, faults>>
           \/ /\ victims = {}
              /\ ProducerTo(p, IF Priority[d] >= 3 THEN "reject"
                               ELSE "insert")
              /\ UNCHANGED <<row, faults>>
           \/ EnqueueFails(p)
        /\ UNCHANGED <<worker, crashes, history>>

(***************************************************************************)
(* cancel_lowest_priority, its commit: by id, whatever the row has become. *)
(* It waits for a claim that reclaims the row and has not committed.       *)
(***************************************************************************)
Cancel(p) ==
    LET v == producer[p].victim
    IN  /\ producer[p].at = "cancel"
        /\ v \notin worker.reclaimed
        /\ \/ /\ row' = [row EXCEPT ![v].status = "CANCELLED"]
              /\ SetProducer(p, [producer[p] EXCEPT !.at = "insert",
                                                    !.victim = None])
              /\ UNCHANGED faults
           \/ EnqueueFails(p)
        /\ UNCHANGED <<worker, crashes, history>>

InsertedStatus(place) ==
    CASE place = "skip"   -> "SKIPPED_DUPLICATE"
      [] place = "reject" -> "CANCELLED"
      [] OTHER            -> "PENDING"

(* Mutant: the key is not unique, a second insert starts over.             *)
InsertedAnyway(d, place) == Created(InsertedStatus(place))

(* The unique key makes a second insert a no-op.                           *)
Inserted(d, place) ==
    IF Exists(d) THEN row[d] ELSE Created(InsertedStatus(place))

(* insert_if_new, and the end of the call.                                 *)
Insert(p) ==
    LET d == producer[p].delivery
    IN  /\ producer[p].at \in {"skip", "reject", "insert"}
        /\ \/ /\ row' = [row EXCEPT ![d] = Inserted(d, producer[p].at)]
              /\ Return(p)
              /\ UNCHANGED faults
           \/ EnqueueFails(p)
        /\ UNCHANGED <<worker, crashes, history>>

EnqueueStep(p) ==
    CheckDuplicate(p) \/ CheckCapacity(p) \/ ChooseVictim(p) \/ Cancel(p)
    \/ Insert(p)

-----------------------------------------------------------------------------
(* The worker.                                                             *)

(* Mutant: nobody takes a delivery back.                                   *)
NoExpiredLeases == {}

ExpiredLeases ==
    {d \in Deliveries : row[d].status = "PROCESSING"
                        /\ row[d].lease = "expired"}

Before(d, e) ==
    \/ Priority[d] < Priority[e]
    \/ Priority[d] = Priority[e] /\ row[d].order < row[e].order

First(n, set) == {d \in set : Cardinality({e \in set : Before(e, d)}) < n}

(***************************************************************************)
(* claim_due, its reads: expired leases are taken back and the most urgent *)
(* due deliveries selected.                                                *)
(***************************************************************************)
SelectDue ==
    LET due == {d \in Deliveries :
                    row[d].due /\ (\/ row[d].status \in Claimable
                                   \/ d \in ExpiredLeases)}
    IN  /\ worker.at = "idle"
        /\ \/ /\ worker' = [IdleWorker EXCEPT !.at = "claim",
                                              !.batch = First(BatchSize, due),
                                              !.reclaimed = ExpiredLeases]
              /\ UNCHANGED faults
           \/ /\ DatabaseFails
              /\ UNCHANGED worker
        /\ UNCHANGED <<row, producer, crashes, history>>

Claimed(r) ==
    [r EXCEPT !.status = "PROCESSING", !.lease = "running",
              !.attempts = @ + 1]

(* claim_due, its commit, again by id.                                     *)
Claim ==
    /\ worker.at = "claim"
    /\ \/ /\ row' = [d \in Deliveries |->
                IF d \in worker.batch THEN Claimed(row[d])
                ELSE IF d \in worker.reclaimed
                     THEN [row[d] EXCEPT !.status = "RETRYING",
                                         !.lease = "none"]
                     ELSE row[d]]
          /\ worker' = IF worker.batch = {} THEN IdleWorker
                       ELSE [worker EXCEPT !.at = "send", !.reclaimed = {}]
          /\ UNCHANGED faults
       \/ /\ DatabaseFails
          /\ worker' = IdleWorker
          /\ UNCHANGED row
    /\ UNCHANGED <<producer, crashes, history>>

(* The batch is worked on in the order in which it was selected.           *)
Current == {d \in worker.batch : \A e \in worker.batch \ {d} : Before(d, e)}

Done(d) == IF d \in Edits THEN "EDITED" ELSE "SENT"

(* What a transient error makes of a delivery after that many attempts.    *)
AfterTransientError(attempts) ==
    IF attempts < MaxRetryAttempts THEN "RETRYING" ELSE "DEAD_LETTER"

ToRecord(verdict) ==
    worker' = [worker EXCEPT !.at = "record", !.verdict = verdict]

(***************************************************************************)
(* One delivery of the batch is rendered and handed to Telegram.  It is    *)
(* delivered and answered, delivered without an answer (a transient error  *)
(* for the client), not delivered for a transient error, or refused for    *)
(* good; a row that cannot be rendered is refused without a call.          *)
(***************************************************************************)
Send ==
    /\ worker.at = "send"
    /\ \E d \in Current :
           LET failed == AfterTransientError(row[d].attempts)
           IN  \/ /\ sends' = [sends EXCEPT ![d] = @ + 1]
                  /\ ToRecord(Done(d))
                  /\ UNCHANGED unanswered
               \/ /\ sends' = [sends EXCEPT ![d] = @ + 1]
                  /\ unanswered' = unanswered \cup {d}
                  /\ ToRecord(failed)
               \/ /\ ToRecord(failed)
                  /\ UNCHANGED history
               \/ /\ ToRecord("FAILED")
                  /\ UNCHANGED history
    /\ UNCHANGED <<row, producer, crashes, faults>>

NextInBatch(d) ==
    worker' = IF worker.batch = {d} THEN IdleWorker
              ELSE [worker EXCEPT !.at = "send", !.batch = @ \ {d},
                                  !.verdict = "none"]

(* The row after mark_sent, mark_edited, mark_retrying and the others.     *)
Recorded(r, verdict) ==
    [r EXCEPT !.status = verdict, !.lease = "none",
              !.due = verdict # "RETRYING"]

(***************************************************************************)
(* The outcome is written, whatever the row has become.  When a success    *)
(* cannot be written it counts as a transient error of the delivery; when  *)
(* an error cannot be written the rest of the batch is abandoned.          *)
(***************************************************************************)
Record ==
    /\ worker.at = "record"
    /\ \E d \in Current :
           \/ /\ row' = [row EXCEPT ![d] = Recorded(@, worker.verdict)]
              /\ NextInBatch(d)
              /\ UNCHANGED faults
           \/ /\ DatabaseFails
              /\ worker.verdict = Done(d)
              /\ ToRecord(AfterTransientError(row[d].attempts))
              /\ UNCHANGED row
           \/ /\ DatabaseFails
              /\ worker.verdict # Done(d)
              /\ worker' = IdleWorker
              /\ UNCHANGED row
    /\ UNCHANGED <<producer, crashes, history>>

Work == SelectDue \/ Claim \/ Send \/ Record

-----------------------------------------------------------------------------
(* Time and crashes.                                                       *)

BackoffEnds(d) ==
    /\ row[d].status = "RETRYING"
    /\ ~row[d].due
    /\ row' = [row EXCEPT ![d].due = TRUE]

LeaseExpires(d) ==
    /\ row[d].status = "PROCESSING"
    /\ row[d].lease = "running"
    /\ row' = [row EXCEPT ![d].lease = "expired"]

(* Only another delivery of the same content looks at the window.          *)
WindowEnds(d) ==
    /\ row[d].recent
    /\ \E e \in Deliveries \ {d} : Content[e] = Content[d]
    /\ row' = [row EXCEPT ![d].recent = FALSE]

TimePasses(d) ==
    /\ BackoffEnds(d) \/ LeaseExpires(d) \/ WindowEnds(d)
    /\ UNCHANGED <<producer, worker, crashes, faults, history>>

(* A crash or stop(): rows stay, leases simply expire.                     *)
Crash ==
    /\ crashes < MaxCrashes
    /\ crashes' = crashes + 1
    /\ producer' = [p \in Producers |-> IdleProducer]
    /\ worker' = IdleWorker
    /\ UNCHANGED <<row, faults, history>>

-----------------------------------------------------------------------------

Next ==
    \/ \E p \in Producers : EnqueueStep(p) \/ \E d \in Deliveries : Enqueue(p, d)
    \/ Work
    \/ \E d \in Deliveries : TimePasses(d)
    \/ Crash

Spec == Init /\ [][Next]_vars

(***************************************************************************)
(* The worker's loop and the callers run on, and time passes.  Nobody is   *)
(* obliged to enqueue anything.                                            *)
(***************************************************************************)
Fairness ==
    /\ WF_vars(Work)
    /\ \A p \in Producers : WF_vars(EnqueueStep(p))
    /\ \A d \in Deliveries : WF_vars(TimePasses(d))

FairSpec == Spec /\ Fairness

-----------------------------------------------------------------------------
(* Correctness properties.                                                 *)

RowType ==
    [status : Status, attempts : Nat, order : Nat, due : BOOLEAN,
     lease : {"none", "running", "expired"}, recent : BOOLEAN]

ProducerType ==
    [at : {"idle", "dedup", "skip", "count", "overflow", "cancel", "reject",
           "insert"},
     delivery : Deliveries \cup {None}, victim : Deliveries \cup {None}]

WorkerType ==
    [at : {"idle", "claim", "send", "record"}, batch : SUBSET Deliveries,
     reclaimed : SUBSET Deliveries,
     verdict : {"none", "SENT", "EDITED", "RETRYING", "FAILED",
                "DEAD_LETTER"}]

(* The type invariant of rows, calls and batch.                            *)
TypeOK ==
    /\ row \in [Deliveries -> RowType]
    /\ producer \in [Producers -> ProducerType]
    /\ worker \in WorkerType
    /\ crashes \in Nat
    /\ faults \in Nat
    /\ sends \in [Deliveries -> Nat]
    /\ unanswered \in SUBSET Deliveries

(***************************************************************************)
(* "Prio 1-2 wird nie verdraengt und nie abgewiesen": no overflow, of      *)
(* however many concurrent callers, cancels a critical or high delivery.   *)
(***************************************************************************)
UrgentIsNeverDropped ==
    \A d \in Deliveries : Priority[d] <= 2 => row[d].status # "CANCELLED"

(***************************************************************************)
(* Nothing is sent twice unless something went wrong: Telegram's answer    *)
(* was lost, the process died or a transaction failed.  Leases that run    *)
(* out under a live worker and overflows that hit a claimed row are not    *)
(* enough.                                                                 *)
(***************************************************************************)
DuplicatesNeedAFailure ==
    \A d \in Deliveries :
        sends[d] > 1 => d \in unanswered \/ crashes + faults > 0

(***************************************************************************)
(* A closed delivery stays closed and is not sent again.  The one way out  *)
(* is the overflow race: a delivery cancelled while the worker holds it is *)
(* still sent, and an outcome may be overwritten by a late cancellation.   *)
(***************************************************************************)
ClosedIsFinal ==
    [][\A d \in Deliveries : Exists(d) /\ ~IsOpen(d) =>
        \/ /\ sends'[d] = sends[d]
           /\ row'[d].status \in {row[d].status, "CANCELLED"}
        \/ row[d].status = "CANCELLED" /\ d \in worker.batch]_vars

(***************************************************************************)
(* The queue drains for good: every delivery that was accepted ends, sent, *)
(* given up or dropped.  Crashes, failed transactions, expired leases and  *)
(* backoffs strand none.                                                   *)
(***************************************************************************)
EveryDeliveryCloses == <>[](\A d \in Deliveries : ~IsOpen(d))

=============================================================================
