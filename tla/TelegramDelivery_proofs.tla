------------------------ MODULE TelegramDelivery_proofs ------------------------
(***************************************************************************)
(* Safety of TelegramDelivery for any number of deliveries, callers,       *)
(* crashes and failed transactions.                                        *)
(***************************************************************************)
EXTENDS TelegramDelivery, FiniteSetTheorems, TLAPS

-----------------------------------------------------------------------------
(* The invariant.                                                          *)

(***************************************************************************)
(* What a place of a call implies: it has a delivery, its victim exists    *)
(* and is neither critical nor high, nor is the one it rejects.            *)
(***************************************************************************)
CallInv ==
    \A p \in Producers :
        /\ producer[p].at # "idle" => producer[p].delivery \in Deliveries
        /\ producer[p].at = "cancel" =>
               /\ producer[p].victim \in Existing
               /\ Priority[producer[p].victim] > 2
        /\ producer[p].at = "reject" => Priority[producer[p].delivery] > 2

(***************************************************************************)
(* What the worker has in hand: deliveries that are open or were cancelled *)
(* since it selected them, and once its claim is committed none of them    *)
(* waits.  What it takes back is in nobody else's reach until then.        *)
(***************************************************************************)
BatchInv ==
    /\ worker.at = "idle" => worker.batch = {}
    /\ worker.at # "claim" => worker.reclaimed = {}
    /\ worker.at = "record" => worker.verdict # "none"
    /\ \A d \in worker.batch :
           /\ row[d].status \in Open \cup {"CANCELLED"}
           /\ worker.at # "claim" => row[d].status \notin Claimable
    /\ \A d \in worker.reclaimed : row[d].status = "PROCESSING"

IInv == TypeOK /\ CallInv /\ BatchInv /\ UrgentIsNeverDropped

-----------------------------------------------------------------------------
(* What the actions do to the rows.                                        *)

(* A row that keeps its status and its place in the queue.                 *)
Kept(d) ==
    /\ row'[d].status = row[d].status
    /\ row'[d].order = row[d].order

(* The row of a delivery that is new.                                      *)
Appears(d) ==
    /\ ~Exists(d)
    /\ row'[d].status \in {"SKIPPED_DUPLICATE", "CANCELLED", "PENDING"}
    /\ Priority[d] <= 2 => row'[d].status # "CANCELLED"

(* A row that an overflow cancels.                                         *)
IsCancelled(d) ==
    /\ Exists(d)
    /\ d \notin worker.reclaimed
    /\ Priority[d] > 2
    /\ row'[d].status = "CANCELLED"
    /\ row'[d].order = row[d].order

(* A call changes rows in these ways only.                                 *)
CallRows == \A d \in Deliveries : Kept(d) \/ Appears(d) \/ IsCancelled(d)

(* A row that is created has the type of one.                              *)
LEMMA CreatedType ==
  ASSUME TypeOK, NEW status \in {"SKIPPED_DUPLICATE", "CANCELLED", "PENDING"}
  PROVE  /\ Created(status) \in RowType
         /\ Created(status).status = status
<1>1. Cardinality(Existing) \in Nat
  BY QueueAssumption, FS_Subset, FS_CardinalityType DEF Existing
<1> DEFINE n == Cardinality(Existing)
<1> HIDE DEF n
<1>2. [AbsentRow EXCEPT !.status = status, !.order = n, !.recent = TRUE] \in RowType
  BY <1>1 DEF n, AbsentRow, RowType, Status, Open, Claimable, Suppressed
<1>3. [AbsentRow EXCEPT !.status = status, !.order = n, !.recent = TRUE].status = status
  BY DEF AbsentRow
<1> QED
  BY <1>2, <1>3 DEF Created, n

(* A row whose status changes keeps the type of one.                       *)
LEMMA StatusType ==
  ASSUME NEW r \in RowType, NEW status \in Status
  PROVE  /\ [r EXCEPT !.status = status] \in RowType
         /\ [r EXCEPT !.status = status].status = status
         /\ [r EXCEPT !.status = status].order = r.order
  BY DEF RowType

(* A caller's place after it has moved to another one.                     *)
LEMMA ProducerMoves ==
  ASSUME TypeOK, NEW p \in Producers, NEW place, ProducerTo(p, place),
         place \in {"skip", "count", "overflow", "reject", "insert"}
  PROVE  /\ producer' \in [Producers -> ProducerType]
         /\ producer'[p].at = place
         /\ producer'[p].delivery = producer[p].delivery
         /\ \A q \in Producers \ {p} : producer'[q] = producer[q]
<1>1. producer \in [Producers -> ProducerType] /\ producer[p] \in ProducerType
  BY DEF TypeOK
<1> QED
  BY <1>1 DEF ProducerTo, SetProducer, ProducerType

(* A caller that returns.                                                  *)
LEMMA ProducerReturns ==
  ASSUME TypeOK, NEW p \in Producers, Return(p)
  PROVE  /\ producer' \in [Producers -> ProducerType]
         /\ producer'[p].at = "idle"
         /\ \A q \in Producers \ {p} : producer'[q] = producer[q]
<1>1. producer \in [Producers -> ProducerType]
  BY DEF TypeOK
<1>2. IdleProducer \in ProducerType
  BY DEF IdleProducer, ProducerType
<1> QED
  BY <1>1, <1>2 DEF Return, SetProducer, IdleProducer

(* Rows that only stay, appear or are cancelled do not vanish.             *)
LEMMA RowsStay ==
  ASSUME CallRows, TypeOK
  PROVE  Existing \subseteq Existing'
  BY DEF CallRows, Existing, Exists, Kept, Appears, IsCancelled

(* The invariant of calls survives what does not touch them.               *)
LEMMA CallsStay ==
  ASSUME CallInv, NEW p, Existing \subseteq Existing',
         \A q \in Producers \ {p} : producer'[q] = producer[q],
         p \in Producers => producer'[p].at = "idle"
  PROVE  CallInv'
  BY DEF CallInv

-----------------------------------------------------------------------------
(* A call of enqueue.                                                      *)

(* What a step of a call leaves to be shown.                               *)
CallKeeps ==
    /\ row' \in [Deliveries -> RowType]
    /\ producer' \in [Producers -> ProducerType]
    /\ faults' \in Nat
    /\ CallRows
    /\ CallInv'

(* A call that fails ends.                                                 *)
LEMMA CallFails ==
  ASSUME IInv, NEW p \in Producers, EnqueueFails(p)
  PROVE  CallKeeps /\ faults' # 0
<1>1. CallRows
  BY DEF EnqueueFails, CallRows, Kept
<1>2. Existing \subseteq Existing'
  BY <1>1, RowsStay DEF IInv
<1>3. row' \in [Deliveries -> RowType] /\ faults' \in Nat /\ faults' # 0
  BY DEF EnqueueFails, DatabaseFails, IInv, TypeOK
<1> QED
  BY <1>1, <1>2, <1>3, ProducerReturns, CallsStay
  DEF EnqueueFails, CallKeeps, IInv

(* A call that goes on to a place that needs its delivery only.            *)
LEMMA CallGoesOn ==
  ASSUME IInv, NEW p \in Producers, NEW place,
         place \in {"skip", "count", "overflow", "insert"},
         producer[p].at # "idle", ProducerTo(p, place), UNCHANGED <<row, faults>>
  PROVE  CallKeeps
<1>1. CallRows /\ Existing' = Existing
  BY DEF CallRows, Kept, Existing, Exists
<1>2. CallInv'
  BY <1>1, ProducerMoves DEF IInv, CallInv
<1> QED
  BY <1>1, <1>2, ProducerMoves DEF CallKeeps, IInv, TypeOK

(* Enqueue begins a call.                                                  *)
LEMMA EnqueueStarts ==
  ASSUME IInv, NEW p \in Producers, NEW d \in Deliveries, Enqueue(p, d)
  PROVE  CallKeeps
<1> DEFINE call == [IdleProducer EXCEPT !.at = "dedup", !.delivery = d]
<1>1. call \in ProducerType /\ call.at = "dedup" /\ call.delivery = d
  BY DEF IdleProducer, ProducerType
<1> HIDE DEF call
<1>2. producer' = [producer EXCEPT ![p] = call] /\ UNCHANGED <<row, faults>>
  BY DEF Enqueue, SetProducer, call
<1>3. CallRows /\ Existing' = Existing
  BY <1>2 DEF CallRows, Kept, Existing, Exists
<1>4. producer \in [Producers -> ProducerType]
  BY DEF IInv, TypeOK
<1>5. CallInv'
  BY <1>1, <1>2, <1>3, <1>4 DEF IInv, CallInv
<1> QED
  BY <1>1, <1>2, <1>3, <1>4, <1>5 DEF CallKeeps, IInv, TypeOK

(* The duplicate is looked for.                                            *)
LEMMA DuplicateChecked ==
  ASSUME IInv, NEW p \in Producers, CheckDuplicate(p)
  PROVE  CallKeeps
<1>1. \/ ProducerTo(p, "skip") /\ UNCHANGED <<row, faults>>
      \/ ProducerTo(p, "count") /\ UNCHANGED <<row, faults>>
      \/ EnqueueFails(p)
  BY DEF CheckDuplicate
<1>2. producer[p].at # "idle"
  BY DEF CheckDuplicate
<1> QED
  BY <1>1, <1>2, CallFails, CallGoesOn

(* The capacity is looked at.                                              *)
LEMMA CapacityChecked ==
  ASSUME IInv, NEW p \in Producers, CheckCapacity(p)
  PROVE  CallKeeps
<1>1. \/ ProducerTo(p, "overflow") /\ UNCHANGED <<row, faults>>
      \/ ProducerTo(p, "insert") /\ UNCHANGED <<row, faults>>
      \/ EnqueueFails(p)
  BY DEF CheckCapacity
<1>2. producer[p].at # "idle"
  BY DEF CheckCapacity
<1> QED
  BY <1>1, <1>2, CallFails, CallGoesOn

(* The victim is chosen: neither it nor what is rejected is urgent.        *)
LEMMA VictimChosen ==
  ASSUME IInv, NEW p \in Producers, ChooseVictim(p)
  PROVE  CallKeeps
<1>1. /\ producer[p].at # "idle"
      /\ producer[p].delivery \in Deliveries
      /\ producer \in [Producers -> ProducerType] /\ producer[p] \in ProducerType
  BY DEF ChooseVictim, IInv, CallInv, TypeOK
<1>2. ASSUME NEW v \in Victims(producer[p].delivery), UNCHANGED <<row, faults>>,
             SetProducer(p, [producer[p] EXCEPT !.at = "cancel", !.victim = v])
      PROVE  CallKeeps
  <2>1. v \in Existing /\ v \in Deliveries /\ Priority[v] > 2
    BY DEF Victims, Existing, Exists, Claimable
  <2> DEFINE call == [producer[p] EXCEPT !.at = "cancel", !.victim = v]
  <2>2. /\ call \in ProducerType
        /\ call.at = "cancel" /\ call.victim = v
        /\ call.delivery = producer[p].delivery
    BY <1>1, <2>1 DEF ProducerType
  <2>3. producer' = [producer EXCEPT ![p] = call]
    BY <1>2 DEF SetProducer
  <2> HIDE DEF call
  <2>4. CallRows /\ Existing' = Existing
    BY <1>2 DEF CallRows, Kept, Existing, Exists
  <2>5. CallInv'
    BY <1>1, <2>1, <2>2, <2>3, <2>4 DEF IInv, CallInv
  <2> QED
    BY <1>1, <1>2, <2>2, <2>3, <2>4, <2>5 DEF CallKeeps, IInv, TypeOK
<1>3. CASE /\ Priority[producer[p].delivery] >= 3
           /\ ProducerTo(p, "reject") /\ UNCHANGED <<row, faults>>
  <2>1. CallRows /\ Existing' = Existing
    BY <1>3 DEF CallRows, Kept, Existing, Exists
  <2>2. Priority[producer[p].delivery] > 2
    BY <1>1, <1>3, QueueAssumption
  <2>3. CallInv'
    BY <1>1, <1>3, <2>1, <2>2, ProducerMoves DEF IInv, CallInv
  <2> QED
    BY <1>3, <2>1, <2>3, ProducerMoves DEF CallKeeps, IInv, TypeOK
<1>4. CASE ProducerTo(p, "insert") /\ UNCHANGED <<row, faults>>
  BY <1>1, <1>4, CallGoesOn
<1> QED
  BY <1>2, <1>3, <1>4, CallFails DEF ChooseVictim

(* The victim is cancelled.                                                *)
LEMMA VictimCancelled ==
  ASSUME IInv, NEW p \in Producers, Cancel(p)
  PROVE  CallKeeps
<1> DEFINE v == producer[p].victim
           call == [producer[p] EXCEPT !.at = "insert", !.victim = None]
<1>1. /\ producer[p].delivery \in Deliveries
      /\ v \in Existing /\ v \in Deliveries /\ Priority[v] > 2
      /\ v \notin worker.reclaimed
      /\ producer \in [Producers -> ProducerType] /\ producer[p] \in ProducerType
      /\ row \in [Deliveries -> RowType] /\ row[v] \in RowType
  BY DEF Cancel, IInv, CallInv, TypeOK, Existing
<1>2. CASE /\ row' = [row EXCEPT ![v].status = "CANCELLED"]
           /\ SetProducer(p, call)
           /\ UNCHANGED faults
  <2> DEFINE r == [row[v] EXCEPT !.status = "CANCELLED"]
  <2>1. r \in RowType /\ r.status = "CANCELLED" /\ r.order = row[v].order
    BY <1>1, StatusType DEF Status, Suppressed
  <2>2. row' = [row EXCEPT ![v] = r]
    BY <1>2
  <2>3. call \in ProducerType /\ call.at = "insert" /\ call.delivery \in Deliveries
    BY <1>1 DEF ProducerType
  <2>4. producer' = [producer EXCEPT ![p] = call]
    BY <1>2 DEF SetProducer
  <2> HIDE DEF r, call
  <2>5. CallRows /\ row' \in [Deliveries -> RowType]
    BY <1>1, <2>1, <2>2 DEF CallRows, Kept, IsCancelled, Existing
  <2>6. Existing \subseteq Existing'
    BY <2>5, RowsStay DEF IInv
  <2>7. CallInv'
    BY <1>1, <2>3, <2>4, <2>6 DEF IInv, CallInv
  <2> QED
    BY <1>1, <1>2, <2>3, <2>4, <2>5, <2>7 DEF CallKeeps, IInv, TypeOK
<1> QED
  BY <1>2, CallFails DEF Cancel

(* The row is inserted, if there is none.                                  *)
LEMMA RowInserted ==
  ASSUME IInv, NEW p \in Producers, Insert(p)
  PROVE  CallKeeps
<1> DEFINE d == producer[p].delivery
           r == Inserted(d, producer[p].at)
<1>1. /\ d \in Deliveries /\ row \in [Deliveries -> RowType]
      /\ producer[p].at = "reject" => Priority[d] > 2
      /\ producer[p].at \in {"skip", "reject", "insert"}
  BY DEF Insert, IInv, CallInv, TypeOK
<1>2. CASE row' = [row EXCEPT ![d] = r] /\ Return(p) /\ UNCHANGED faults
  <2>1. InsertedStatus(producer[p].at)
            \in {"SKIPPED_DUPLICATE", "CANCELLED", "PENDING"}
    BY DEF InsertedStatus
  <2>2. Priority[d] <= 2 => InsertedStatus(producer[p].at) # "CANCELLED"
    BY <1>1, QueueAssumption DEF InsertedStatus
  <2>3. r \in RowType
    BY <1>1, <2>1, CreatedType DEF Inserted, IInv
  <2>4. \/ Exists(d) /\ r = row[d]
        \/ ~Exists(d) /\ r.status = InsertedStatus(producer[p].at)
    BY <2>1, CreatedType DEF Inserted, IInv
  <2> HIDE DEF r
  <2>5. CallRows /\ row' \in [Deliveries -> RowType]
    BY <1>1, <1>2, <2>1, <2>2, <2>3, <2>4 DEF CallRows, Kept, Appears
  <2>6. Existing \subseteq Existing'
    BY <2>5, RowsStay DEF IInv
  <2> QED
    BY <1>2, <2>5, <2>6, ProducerReturns, CallsStay DEF CallKeeps, IInv, TypeOK
<1> QED
  BY <1>2, CallFails DEF Insert

(* A call keeps types and its own invariant.                               *)
LEMMA CallStep ==
  ASSUME IInv, NEW p \in Producers,
         EnqueueStep(p) \/ \E d \in Deliveries : Enqueue(p, d)
  PROVE  CallKeeps /\ UNCHANGED <<worker, crashes, history>>
<1>1. CallKeeps
  BY EnqueueStarts, DuplicateChecked, CapacityChecked, VictimChosen,
     VictimCancelled, RowInserted DEF EnqueueStep
<1>2. UNCHANGED <<worker, crashes, history>>
  BY DEF EnqueueStep, Enqueue, CheckDuplicate, CheckCapacity, ChooseVictim,
         Cancel, Insert
<1> QED
  BY <1>1, <1>2

-----------------------------------------------------------------------------
(* The worker.                                                             *)

(* What a step of the worker leaves to be shown.                           *)
WorkKeeps ==
    /\ row' \in [Deliveries -> RowType]
    /\ worker' \in WorkerType
    /\ faults' \in Nat
    /\ sends' \in [Deliveries -> Nat]
    /\ unanswered' \in SUBSET Deliveries
    /\ BatchInv'
    /\ \A d \in Deliveries :
           /\ Exists(d) => Exists(d)'
           /\ row'[d].order = row[d].order
           /\ row[d].status = "CANCELLED" \/ row'[d].status # "CANCELLED"

(* A worker that gives its batch up.                                       *)
LEMMA WorkerRests ==
  ASSUME IInv, worker' = IdleWorker
  PROVE  worker' \in WorkerType /\ BatchInv'
  BY DEF IdleWorker, WorkerType, BatchInv

(* Deliveries are selected: none is closed.                                *)
LEMMA DueSelected ==
  ASSUME IInv, SelectDue
  PROVE  WorkKeeps
<1>1. /\ row' = row /\ sends' = sends /\ unanswered' = unanswered
      /\ worker.at = "idle"
  BY DEF SelectDue, history
<1>2. CASE worker' = worker /\ DatabaseFails
  BY <1>1, <1>2 DEF WorkKeeps, IInv, TypeOK, BatchInv, DatabaseFails, Exists
<1>3. ASSUME NEW batch \in SUBSET Deliveries,
             \A d \in batch : row[d].status \in Open,
             UNCHANGED faults,
             worker' = [IdleWorker EXCEPT !.at = "claim", !.batch = batch,
                                          !.reclaimed = ExpiredLeases]
      PROVE  WorkKeeps
  <2>1. /\ worker' \in WorkerType
        /\ worker'.at = "claim" /\ worker'.batch = batch
        /\ worker'.reclaimed = ExpiredLeases
    BY <1>3 DEF IdleWorker, WorkerType, ExpiredLeases
  <2>2. BatchInv'
    BY <1>1, <1>3, <2>1 DEF BatchInv, ExpiredLeases
  <2> QED
    BY <1>1, <1>3, <2>1, <2>2 DEF WorkKeeps, IInv, TypeOK, Exists
<1> DEFINE due == {d \in Deliveries :
                       row[d].due /\ (\/ row[d].status \in Claimable
                                      \/ d \in ExpiredLeases)}
<1>4. /\ First(BatchSize, due) \in SUBSET Deliveries
      /\ \A d \in First(BatchSize, due) : row[d].status \in Open
  BY DEF First, ExpiredLeases, Open
<1> QED
  BY <1>1, <1>2, <1>3, <1>4 DEF SelectDue

(* A row that is claimed, and one that is taken back.                      *)
LEMMA ClaimedType ==
  ASSUME NEW r \in RowType
  PROVE  /\ Claimed(r) \in RowType
         /\ Claimed(r).status = "PROCESSING" /\ Claimed(r).order = r.order
         /\ [r EXCEPT !.status = "RETRYING", !.lease = "none"] \in RowType
         /\ [r EXCEPT !.status = "RETRYING", !.lease = "none"].status = "RETRYING"
         /\ [r EXCEPT !.status = "RETRYING", !.lease = "none"].order = r.order
<1> DEFINE n == r.attempts + 1
           claimed == [r EXCEPT !.status = "PROCESSING", !.lease = "running",
                                !.attempts = n]
<1>1. n \in Nat
  BY DEF RowType
<1>2. {"PROCESSING", "RETRYING"} \subseteq Status
  BY DEF Status, Open, Claimable
<1> HIDE DEF n
<1>3. claimed \in RowType /\ claimed.status = "PROCESSING" /\ claimed.order = r.order
  BY <1>1, <1>2 DEF RowType
<1>4. /\ [r EXCEPT !.status = "RETRYING", !.lease = "none"] \in RowType
      /\ [r EXCEPT !.status = "RETRYING", !.lease = "none"].status = "RETRYING"
      /\ [r EXCEPT !.status = "RETRYING", !.lease = "none"].order = r.order
  BY <1>2 DEF RowType
<1> QED
  BY <1>3, <1>4 DEF Claimed, n

(* What the claim does to each row.                                        *)
LEMMA ClaimRows ==
  ASSUME IInv,
         row' = [d \in Deliveries |->
                IF d \in worker.batch THEN Claimed(row[d])
                ELSE IF d \in worker.reclaimed
                     THEN [row[d] EXCEPT !.status = "RETRYING",
                                         !.lease = "none"]
                     ELSE row[d]]
  PROVE  /\ row' \in [Deliveries -> RowType]
         /\ \A d \in Deliveries :
                /\ row'[d].order = row[d].order
                /\ d \in worker.batch => row'[d].status = "PROCESSING"
                /\ d \in worker.reclaimed \ worker.batch =>
                       row'[d].status = "RETRYING"
                /\ d \notin worker.batch \cup worker.reclaimed =>
                       row'[d].status = row[d].status
<1> SUFFICES ASSUME NEW d \in Deliveries
             PROVE  /\ row'[d] \in RowType
                    /\ row'[d].order = row[d].order
                    /\ d \in worker.batch => row'[d].status = "PROCESSING"
                    /\ d \in worker.reclaimed \ worker.batch =>
                           row'[d].status = "RETRYING"
                    /\ d \notin worker.batch \cup worker.reclaimed =>
                           row'[d].status = row[d].status
  OBVIOUS
<1>1. row[d] \in RowType
  BY DEF IInv, TypeOK
<1>2. row'[d] = IF d \in worker.batch THEN Claimed(row[d])
                ELSE IF d \in worker.reclaimed
                     THEN [row[d] EXCEPT !.status = "RETRYING", !.lease = "none"]
                     ELSE row[d]
  OBVIOUS
<1> QED
  BY <1>1, <1>2, ClaimedType

(* The claim is committed.                                                 *)
LEMMA BatchClaimed ==
  ASSUME IInv, Claim
  PROVE  WorkKeeps
<1>1. sends' = sends /\ unanswered' = unanswered /\ worker.at = "claim"
  BY DEF Claim, history
<1>2. CASE DatabaseFails /\ worker' = IdleWorker /\ UNCHANGED row
  BY <1>1, <1>2, WorkerRests DEF WorkKeeps, IInv, TypeOK, DatabaseFails, Exists
<1>3. CASE /\ row' = [d \in Deliveries |->
                IF d \in worker.batch THEN Claimed(row[d])
                ELSE IF d \in worker.reclaimed
                     THEN [row[d] EXCEPT !.status = "RETRYING",
                                         !.lease = "none"]
                     ELSE row[d]]
           /\ worker' = IF worker.batch = {} THEN IdleWorker
                        ELSE [worker EXCEPT !.at = "send", !.reclaimed = {}]
           /\ UNCHANGED faults
  <2>1. /\ worker \in WorkerType /\ worker.batch \subseteq Deliveries
        /\ worker.reclaimed \subseteq Deliveries
    BY DEF IInv, TypeOK, WorkerType
  <2>2. /\ worker' \in WorkerType
        /\ \/ worker'.at = "idle" /\ worker'.batch = {}
           \/ worker'.at = "send" /\ worker'.batch = worker.batch
        /\ worker'.reclaimed = {}
    BY <1>3, <2>1 DEF WorkerType, IdleWorker
  <2>3. BatchInv'
    BY <1>3, <2>1, <2>2, ClaimRows DEF BatchInv, Claimable, Open
  <2>4. \A d \in Deliveries :
            /\ Exists(d) => Exists(d)'
            /\ row'[d].order = row[d].order
            /\ row[d].status = "CANCELLED" \/ row'[d].status # "CANCELLED"
    BY <1>3, ClaimRows DEF Exists
  <2> QED
    BY <1>1, <1>3, <2>2, <2>3, <2>4, ClaimRows DEF WorkKeeps, IInv, TypeOK
<1> QED
  BY <1>2, <1>3 DEF Claim

(* What may be recorded.                                                   *)
Verdicts == {"SENT", "EDITED", "RETRYING", "FAILED", "DEAD_LETTER"}

LEMMA VerdictsAre ==
  /\ \A d : Done(d) \in {"SENT", "EDITED"}
  /\ \A n : AfterTransientError(n) \in {"RETRYING", "DEAD_LETTER"}
  BY DEF Done, AfterTransientError

(* The worker goes to record something.                                    *)
LEMMA WorkerRecords ==
  ASSUME IInv, NEW v \in Verdicts, ToRecord(v), UNCHANGED row,
         worker.at \in {"send", "record"}
  PROVE  /\ worker' \in WorkerType /\ BatchInv'
         /\ worker'.at = "record" /\ worker'.verdict = v
         /\ worker'.batch = worker.batch /\ worker'.reclaimed = {}
<1>1. worker \in WorkerType
  BY DEF IInv, TypeOK
<1>2. /\ worker' \in WorkerType
      /\ worker'.at = "record" /\ worker'.verdict = v
      /\ worker'.batch = worker.batch /\ worker'.reclaimed = worker.reclaimed
  BY <1>1 DEF ToRecord, WorkerType, Verdicts
<1> QED
  BY <1>2 DEF BatchInv, Verdicts, IInv

(* A delivery of the batch is sent.                                        *)
LEMMA DeliverySent ==
  ASSUME IInv, Send
  PROVE  WorkKeeps
<1>1. /\ row' = row /\ faults' = faults /\ worker.at = "send"
      /\ \E v \in Verdicts : ToRecord(v)
  BY VerdictsAre DEF Send, Verdicts
<1>2. worker' \in WorkerType /\ BatchInv'
  BY <1>1, WorkerRecords
<1>3. sends' \in [Deliveries -> Nat] /\ unanswered' \in SUBSET Deliveries
  <2>1. PICK d \in Current :
            /\ sends' \in {sends, [sends EXCEPT ![d] = @ + 1]}
            /\ unanswered' \in {unanswered, unanswered \cup {d}}
    BY DEF Send, history
  <2>2. d \in Deliveries
    BY DEF Current, IInv, TypeOK, WorkerType
  <2> QED
    BY <2>1, <2>2 DEF IInv, TypeOK
<1> QED
  BY <1>1, <1>2, <1>3 DEF WorkKeeps, IInv, TypeOK, Exists

(* A row that gets its outcome.                                            *)
LEMMA RecordedType ==
  ASSUME NEW r \in RowType, NEW v \in Verdicts
  PROVE  /\ Recorded(r, v) \in RowType
         /\ Recorded(r, v).status = v /\ Recorded(r, v).order = r.order
<1> DEFINE due == v # "RETRYING"
<1>1. due \in BOOLEAN
  OBVIOUS
<1> HIDE DEF due
<1>2. /\ [r EXCEPT !.status = v, !.lease = "none", !.due = due] \in RowType
      /\ [r EXCEPT !.status = v, !.lease = "none", !.due = due].status = v
      /\ [r EXCEPT !.status = v, !.lease = "none", !.due = due].order = r.order
  BY <1>1 DEF RowType, Verdicts, Status, Open, Claimable, Suppressed
<1> QED
  BY <1>2 DEF Recorded, due

(* What the outcome does to rows and batch.                                *)
LEMMA RecordRows ==
  ASSUME IInv, NEW d \in Current, worker.at = "record",
         row' = [row EXCEPT ![d] = Recorded(@, worker.verdict)], NextInBatch(d)
  PROVE  /\ d \in Deliveries /\ d \in worker.batch
         /\ row' \in [Deliveries -> RowType]
         /\ worker.verdict \in Verdicts
         /\ row'[d].status = worker.verdict /\ row'[d].order = row[d].order
         /\ \A e \in Deliveries \ {d} : row'[e] = row[e]
         /\ worker' \in WorkerType
         /\ worker'.batch = worker.batch \ {d} /\ worker'.reclaimed = {}
         /\ worker'.at \in {"idle", "send"}
         /\ worker'.at = "idle" => worker'.batch = {}
<1>1. /\ worker \in WorkerType /\ worker.verdict \in Verdicts
      /\ worker.reclaimed = {} /\ d \in Deliveries /\ d \in worker.batch
      /\ row \in [Deliveries -> RowType] /\ row[d] \in RowType
  BY DEF IInv, TypeOK, WorkerType, BatchInv, Verdicts, Current
<1> DEFINE r == Recorded(row[d], worker.verdict)
<1>2. r \in RowType /\ r.status = worker.verdict /\ r.order = row[d].order
  BY <1>1, RecordedType
<1>3. row' = [row EXCEPT ![d] = r]
  OBVIOUS
<1> HIDE DEF r
<1>4. /\ worker' \in WorkerType
      /\ worker'.batch = worker.batch \ {d} /\ worker'.reclaimed = {}
      /\ worker'.at \in {"idle", "send"}
      /\ worker'.at = "idle" => worker'.batch = {}
  <2>1. CASE worker.batch = {d}
    BY <1>1, <2>1 DEF NextInBatch, IdleWorker, WorkerType
  <2>2. CASE worker.batch # {d}
    BY <1>1, <2>2 DEF NextInBatch, WorkerType
  <2> QED
    BY <2>1, <2>2
<1> QED
  BY <1>1, <1>2, <1>3, <1>4

(* The outcome is recorded.                                                *)
LEMMA OutcomeRecorded ==
  ASSUME IInv, Record
  PROVE  WorkKeeps
<1>1. sends' = sends /\ unanswered' = unanswered /\ worker.at = "record"
  BY DEF Record, history
<1>2. ASSUME NEW d \in Current, NextInBatch(d), UNCHANGED faults,
             row' = [row EXCEPT ![d] = Recorded(@, worker.verdict)]
      PROVE  WorkKeeps
  <2>1. BatchInv'
    BY <1>1, <1>2, RecordRows DEF BatchInv, IInv, TypeOK, WorkerType
  <2>2. \A e \in Deliveries :
            /\ Exists(e) => Exists(e)'
            /\ row'[e].order = row[e].order
            /\ row[e].status = "CANCELLED" \/ row'[e].status # "CANCELLED"
    BY <1>1, <1>2, RecordRows DEF Exists, Verdicts
  <2> QED
    BY <1>1, <1>2, <2>1, <2>2, RecordRows DEF WorkKeeps, IInv, TypeOK
<1>3. ASSUME NEW v \in Verdicts, DatabaseFails, ToRecord(v), UNCHANGED row
      PROVE  WorkKeeps
  BY <1>1, <1>3, WorkerRecords DEF WorkKeeps, IInv, TypeOK, DatabaseFails, Exists
<1>4. CASE DatabaseFails /\ worker' = IdleWorker /\ UNCHANGED row
  BY <1>1, <1>4, WorkerRests DEF WorkKeeps, IInv, TypeOK, DatabaseFails, Exists
<1>5. \A n : AfterTransientError(n) \in Verdicts
  BY VerdictsAre DEF Verdicts
<1> QED
  BY <1>2, <1>3, <1>4, <1>5 DEF Record

-----------------------------------------------------------------------------
(* The invariant is one.                                                   *)

(* Statuses that a call leaves alone or cancels suit the worker's batch.   *)
LEMMA CallsLeaveBatch ==
  ASSUME IInv, CallRows, UNCHANGED worker
  PROVE  BatchInv' /\ UrgentIsNeverDropped'
<1>1. /\ \A d \in worker.batch : d \in Deliveries /\ Exists(d)
      /\ \A d \in worker.reclaimed : d \in Deliveries /\ Exists(d)
  BY DEF IInv, BatchInv, TypeOK, WorkerType, Exists, Open, Claimable
<1>2. BatchInv'
  <2>1. /\ worker'.at = "idle" => worker'.batch = {}
        /\ worker'.at # "claim" => worker'.reclaimed = {}
        /\ worker'.at = "record" => worker'.verdict # "none"
    BY DEF IInv, BatchInv
  <2>2. ASSUME NEW d \in worker.batch
        PROVE  /\ row'[d].status \in Open \cup {"CANCELLED"}
               /\ worker.at # "claim" => row'[d].status \notin Claimable
    BY <1>1 DEF IInv, BatchInv, CallRows, Kept, Appears, IsCancelled, Claimable
  <2>3. ASSUME NEW d \in worker.reclaimed
        PROVE  row'[d].status = "PROCESSING"
    BY <1>1 DEF IInv, BatchInv, CallRows, Kept, Appears, IsCancelled
  <2> QED
    BY <2>1, <2>2, <2>3 DEF BatchInv
<1>3. UrgentIsNeverDropped'
  BY QueueAssumption
  DEF IInv, UrgentIsNeverDropped, CallRows, Kept, Appears, IsCancelled
<1> QED
  BY <1>2, <1>3

(* Time changes neither the status of a row nor its place.                 *)
LEMMA TimeKeeps ==
  ASSUME IInv, NEW t \in Deliveries, TimePasses(t)
  PROVE  /\ row' \in [Deliveries -> RowType]
         /\ \A d \in Deliveries : Kept(d)
         /\ UNCHANGED <<producer, worker, crashes, faults, history>>
<1>1. row \in [Deliveries -> RowType] /\ row[t] \in RowType
  BY DEF IInv, TypeOK
<1>2. \/ row' = [row EXCEPT ![t] = [row[t] EXCEPT !.due = TRUE]]
      \/ row' = [row EXCEPT ![t] = [row[t] EXCEPT !.lease = "expired"]]
      \/ row' = [row EXCEPT ![t] = [row[t] EXCEPT !.recent = FALSE]]
  BY DEF TimePasses, BackoffEnds, LeaseExpires, WindowEnds
<1>3. \A r \in RowType :
          /\ [r EXCEPT !.due = TRUE] \in RowType
          /\ [r EXCEPT !.due = TRUE].status = r.status
          /\ [r EXCEPT !.due = TRUE].order = r.order
  BY DEF RowType
<1>4. \A r \in RowType :
          /\ [r EXCEPT !.lease = "expired"] \in RowType
          /\ [r EXCEPT !.lease = "expired"].status = r.status
          /\ [r EXCEPT !.lease = "expired"].order = r.order
  BY DEF RowType
<1>5. \A r \in RowType :
          /\ [r EXCEPT !.recent = FALSE] \in RowType
          /\ [r EXCEPT !.recent = FALSE].status = r.status
          /\ [r EXCEPT !.recent = FALSE].order = r.order
  BY DEF RowType
<1>6. PICK r \in RowType : /\ r.status = row[t].status /\ r.order = row[t].order
                           /\ row' = [row EXCEPT ![t] = r]
  BY <1>1, <1>2, <1>3, <1>4, <1>5
<1> QED
  BY <1>1, <1>6 DEF Kept, TimePasses

(* Nothing is there at first.                                              *)
LEMMA InvInit == Init => IInv
<1> SUFFICES ASSUME Init
             PROVE  IInv
  OBVIOUS
<1>1. AbsentRow \in RowType /\ AbsentRow.status = "ABSENT"
  BY DEF AbsentRow, RowType, Status
<1>2. /\ IdleProducer \in ProducerType /\ IdleProducer.at = "idle"
      /\ IdleWorker \in WorkerType
  BY DEF IdleProducer, ProducerType, IdleWorker, WorkerType
<1>3. TypeOK
  BY <1>1, <1>2 DEF Init, TypeOK
<1>4. CallInv
  BY <1>2 DEF Init, CallInv
<1>5. BatchInv
  BY DEF Init, BatchInv, IdleWorker
<1>6. UrgentIsNeverDropped
  BY <1>1 DEF Init, UrgentIsNeverDropped
<1> QED
  BY <1>3, <1>4, <1>5, <1>6 DEF IInv

(* Every step keeps the invariant.                                         *)
LEMMA InvNext == IInv /\ [Next]_vars => IInv'
<1> SUFFICES ASSUME IInv, [Next]_vars
             PROVE  IInv'
  OBVIOUS
<1>1. ASSUME NEW p \in Producers,
             EnqueueStep(p) \/ \E d \in Deliveries : Enqueue(p, d)
      PROVE  IInv'
  <2>1. CallKeeps /\ UNCHANGED <<worker, crashes, history>>
    BY <1>1, CallStep
  <2>2. BatchInv' /\ UrgentIsNeverDropped'
    BY <2>1, CallsLeaveBatch DEF CallKeeps
  <2>3. TypeOK'
    BY <2>1 DEF CallKeeps, IInv, TypeOK, history
  <2> QED
    BY <2>1, <2>2, <2>3 DEF IInv, CallKeeps
<1>2. CASE Work
  <2>1. WorkKeeps
    BY <1>2, DueSelected, BatchClaimed, DeliverySent, OutcomeRecorded DEF Work
  <2>2. UNCHANGED <<producer, crashes>>
    BY <1>2 DEF Work, SelectDue, Claim, Send, Record
  <2>3. TypeOK'
    BY <2>1, <2>2 DEF WorkKeeps, IInv, TypeOK
  <2>4. Existing \subseteq Existing'
    BY <2>1 DEF WorkKeeps, Existing
  <2>5. CallInv'
    BY <2>2, <2>4 DEF IInv, CallInv
  <2>6. UrgentIsNeverDropped'
    BY <2>1 DEF WorkKeeps, IInv, UrgentIsNeverDropped
  <2> QED
    BY <2>1, <2>3, <2>5, <2>6 DEF IInv, WorkKeeps
<1>3. ASSUME NEW t \in Deliveries, TimePasses(t)
      PROVE  IInv'
  <2>1. CallRows
    BY <1>3, TimeKeeps DEF CallRows
  <2>2. BatchInv' /\ UrgentIsNeverDropped'
    BY <1>3, <2>1, TimeKeeps, CallsLeaveBatch
  <2>3. TypeOK'
    BY <1>3, TimeKeeps DEF IInv, TypeOK, history
  <2>4. Existing \subseteq Existing'
    BY <2>1, RowsStay DEF IInv
  <2>5. CallInv'
    BY <1>3, <2>4, TimeKeeps DEF IInv, CallInv
  <2> QED
    BY <2>2, <2>3, <2>5 DEF IInv
<1>4. CASE Crash
  <2>1. IdleProducer \in ProducerType /\ IdleProducer.at = "idle"
    BY DEF IdleProducer, ProducerType
  <2>2. worker' \in WorkerType /\ BatchInv'
    BY <1>4, WorkerRests DEF Crash
  <2>3. TypeOK'
    BY <1>4, <2>1, <2>2 DEF Crash, IInv, TypeOK, history
  <2>4. CallInv'
    BY <1>4, <2>1 DEF Crash, CallInv
  <2>5. UrgentIsNeverDropped'
    BY <1>4 DEF Crash, IInv, UrgentIsNeverDropped
  <2> QED
    BY <2>2, <2>3, <2>4, <2>5 DEF IInv
<1>5. CASE UNCHANGED vars
  <2>1. UNCHANGED <<row, producer, worker, crashes, faults, sends, unanswered>>
    BY <1>5 DEF vars, history
  <2>2. TypeOK' /\ CallInv' /\ BatchInv' /\ UrgentIsNeverDropped'
    BY <2>1
    DEF IInv, TypeOK, CallInv, BatchInv, UrgentIsNeverDropped, Existing, Exists
  <2> QED
    BY <2>2 DEF IInv
<1> QED
  BY <1>1, <1>2, <1>3, <1>4, <1>5 DEF Next

(* The invariant holds in every reachable state.                           *)
THEOREM InvHolds == Spec => []IInv
  BY InvInit, InvNext, PTL DEF Spec

(* Rows, calls and batch keep their types.                                 *)
THEOREM TypeOKHolds == Spec => []TypeOK
<1>1. IInv => TypeOK
  BY DEF IInv
<1> QED
  BY <1>1, InvHolds, PTL

(***************************************************************************)
(* However many callers overflow the queue at once and whatever the worker *)
(* claims meanwhile, no critical or high delivery is cancelled.            *)
(***************************************************************************)
THEOREM UrgentIsNeverDroppedHolds == Spec => []UrgentIsNeverDropped
<1>1. IInv => UrgentIsNeverDropped
  BY DEF IInv
<1> QED
  BY <1>1, InvHolds, PTL

-----------------------------------------------------------------------------
(* Closed deliveries.                                                      *)

(* What the worker does to a delivery that is not open.                    *)
ClosedStays(d) ==
    \/ /\ sends'[d] = sends[d]
       /\ row'[d].status \in {row[d].status, "CANCELLED"}
    \/ row[d].status = "CANCELLED" /\ d \in worker.batch

(* A closed delivery in the worker's hand was cancelled.                   *)
LEMMA ClosedInBatch ==
  ASSUME IInv, NEW d \in worker.batch \cup worker.reclaimed, ~IsOpen(d)
  PROVE  row[d].status = "CANCELLED" /\ d \in worker.batch
  BY DEF IInv, BatchInv, IsOpen, Open

(* The worker leaves closed deliveries alone unless they were cancelled.   *)
LEMMA WorkLeavesClosed ==
  ASSUME IInv, Work, NEW d \in Deliveries, ~IsOpen(d)
  PROVE  ClosedStays(d)
<1>1. CASE SelectDue
  BY <1>1 DEF SelectDue, history, ClosedStays
<1>2. CASE Claim
  <2>1. CASE UNCHANGED row
    BY <1>2, <2>1 DEF Claim, history, ClosedStays
  <2>2. CASE d \in worker.batch \cup worker.reclaimed
    BY <2>2, ClosedInBatch DEF ClosedStays
  <2>3. CASE d \notin worker.batch \cup worker.reclaimed
    BY <1>2, <2>1, <2>3, ClaimRows DEF Claim, history, ClosedStays
  <2> QED
    BY <2>2, <2>3
<1>3. CASE Send
  <2>1. PICK e \in Current : /\ sends' \in {sends, [sends EXCEPT ![e] = @ + 1]}
                             /\ UNCHANGED row
    BY <1>3 DEF Send, history
  <2>2. e \in worker.batch
    BY DEF Current
  <2>3. CASE d = e
    BY <2>2, <2>3, ClosedInBatch DEF ClosedStays
  <2>4. CASE d # e
    BY <2>1, <2>4 DEF ClosedStays, IInv, TypeOK
  <2> QED
    BY <2>3, <2>4
<1>4. CASE Record
  <2>1. CASE UNCHANGED row
    BY <1>4, <2>1 DEF Record, history, ClosedStays
  <2>2. ASSUME NEW e \in Current, NextInBatch(e),
               row' = [row EXCEPT ![e] = Recorded(@, worker.verdict)]
        PROVE  ClosedStays(d)
    <3>1. e \in worker.batch
      BY DEF Current
    <3>2. CASE d = e
      BY <3>1, <3>2, ClosedInBatch DEF ClosedStays
    <3>3. CASE d # e
      BY <1>4, <2>2, <3>3 DEF ClosedStays, Record, history, IInv, TypeOK
    <3> QED
      BY <3>2, <3>3
  <2> QED
    BY <1>4, <2>1, <2>2 DEF Record
<1> QED
  BY <1>1, <1>2, <1>3, <1>4 DEF Work

(***************************************************************************)
(* A closed delivery stays closed and is not sent again, unless it was     *)
(* cancelled while the worker held it.                                     *)
(***************************************************************************)
THEOREM ClosedIsFinalHolds == Spec => ClosedIsFinal
<1> DEFINE Final == \A d \in Deliveries : Exists(d) /\ ~IsOpen(d) =>
                        \/ /\ sends'[d] = sends[d]
                           /\ row'[d].status \in {row[d].status, "CANCELLED"}
                        \/ row[d].status = "CANCELLED" /\ d \in worker.batch
<1>1. IInv /\ [Next]_vars => [Final]_vars
  <2> SUFFICES ASSUME IInv, Next, NEW d \in Deliveries, Exists(d), ~IsOpen(d)
               PROVE  ClosedStays(d)
    BY DEF ClosedStays
  <2>1. ASSUME NEW p \in Producers,
               EnqueueStep(p) \/ \E e \in Deliveries : Enqueue(p, e)
        PROVE  ClosedStays(d)
    BY <2>1, CallStep
    DEF CallKeeps, CallRows, Kept, Appears, IsCancelled, history, ClosedStays
  <2>2. CASE Work
    BY <2>2, WorkLeavesClosed
  <2>3. ASSUME NEW t \in Deliveries, TimePasses(t)
        PROVE  ClosedStays(d)
    BY <2>3, TimeKeeps DEF Kept, history, ClosedStays
  <2>4. CASE Crash
    BY <2>4 DEF Crash, history, ClosedStays
  <2> QED
    BY <2>1, <2>2, <2>3, <2>4 DEF Next
<1> QED
  BY <1>1, InvHolds, PTL DEF Spec, ClosedIsFinal

-----------------------------------------------------------------------------
(* Duplicates.                                                             *)

Calm == crashes = 0 /\ faults = 0

(***************************************************************************)
(* A delivery that was sent and answered was sent once.  Its outcome is    *)
(* about to be recorded, or it is closed and out of the worker's hand.     *)
(***************************************************************************)
SentOnce(d) ==
    /\ sends[d] = 1
    /\ Exists(d)
    /\ d \notin worker.reclaimed
    /\ d \in worker.batch =>
           worker.at = "record" /\ d \in Current /\ worker.verdict = Done(d)
    /\ d \notin worker.batch => ~IsOpen(d)

OnceInv ==
    Calm => \A d \in Deliveries \ unanswered : sends[d] = 0 \/ SentOnce(d)

(* A failed transaction is counted.                                        *)
LEMMA FaultsCount ==
  ASSUME TypeOK, UNCHANGED faults \/ DatabaseFails, faults' = 0
  PROVE  UNCHANGED faults /\ ~DatabaseFails
  BY DEF TypeOK, DatabaseFails

(* Who is next does not change as long as nobody's place in the batch does.*)
LEMMA CurrentStays ==
  ASSUME UNCHANGED worker,
         \A d \in worker.batch : row'[d].order = row[d].order
  PROVE  Current' = Current
  BY DEF Current, Before

(* Only one delivery is next.                                              *)
LEMMA CurrentIsOne ==
  ASSUME TypeOK, NEW d \in Current, NEW e \in Current
  PROVE  d = e
<1>1. /\ d \in Deliveries /\ e \in Deliveries
      /\ row[d].order \in Nat /\ row[e].order \in Nat
      /\ Priority[d] \in Nat /\ Priority[e] \in Nat
  BY QueueAssumption DEF Current, TypeOK, WorkerType, RowType
<1> QED
  BY <1>1 DEF Current, Before

(* Steps that neither send nor claim nor open a row.                       *)
LEMMA QuietKeepsOnce ==
  ASSUME IInv, OnceInv, UNCHANGED <<worker, history>>, Calm' => Calm,
         CallRows
  PROVE  OnceInv'
<1> SUFFICES ASSUME Calm, NEW d \in Deliveries \ unanswered, SentOnce(d)
             PROVE  SentOnce(d)'
  BY DEF OnceInv, history
<1>1. \A e \in worker.batch : row'[e].order = row[e].order
  <2> SUFFICES ASSUME NEW e \in worker.batch
               PROVE  row'[e].order = row[e].order
    OBVIOUS
  <2>1. e \in Deliveries /\ Exists(e)
    BY DEF IInv, BatchInv, TypeOK, WorkerType, Exists, Open, Claimable
  <2> QED
    BY <2>1 DEF CallRows, Kept, Appears, IsCancelled
<1>2. Current' = Current
  BY <1>1, CurrentStays
<1>3. Exists(d)' /\ (~IsOpen(d) => ~IsOpen(d)')
  BY DEF SentOnce, CallRows, Kept, Appears, IsCancelled, Exists, IsOpen, Open,
         Claimable
<1> QED
  BY <1>2, <1>3 DEF SentOnce, history

(* The worker sends nothing twice.                                         *)
LEMMA WorkKeepsOnce ==
  ASSUME IInv, OnceInv, Work
  PROVE  OnceInv'
<1>1. Calm' => Calm /\ ~DatabaseFails
  <2>1. UNCHANGED crashes
    BY DEF Work, SelectDue, Claim, Send, Record
  <2>2. UNCHANGED faults \/ DatabaseFails
    BY DEF Work, SelectDue, Claim, Send, Record
  <2> QED
    BY <2>1, <2>2, FaultsCount DEF Calm, IInv
<1> SUFFICES ASSUME Calm, ~DatabaseFails, NEW d \in Deliveries \ unanswered',
                    sends'[d] # 0
             PROVE  SentOnce(d)'
  BY <1>1 DEF OnceInv
<1>2. unanswered \subseteq unanswered'
  BY DEF Work, SelectDue, Claim, Send, Record, history
<1>3. sends[d] = 0 \/ SentOnce(d)
  BY <1>2 DEF OnceInv
<1>4. CASE SelectDue
  <2>1. SentOnce(d) /\ worker.at = "idle" /\ UNCHANGED <<row, sends>>
    BY <1>3, <1>4 DEF SelectDue, history
  <2>2. ~IsOpen(d)
    BY <2>1 DEF SentOnce, IInv, BatchInv
  <2> DEFINE due == {e \in Deliveries :
                         row[e].due /\ (\/ row[e].status \in Claimable
                                        \/ e \in ExpiredLeases)}
  <2>3. d \notin First(BatchSize, due) /\ d \notin ExpiredLeases
    BY <2>2 DEF First, ExpiredLeases, IsOpen, Open
  <2>4. /\ worker'.batch = First(BatchSize, due)
        /\ worker'.reclaimed = ExpiredLeases
    BY <1>4 DEF SelectDue, IdleWorker
  <2> QED
    BY <2>1, <2>2, <2>3, <2>4 DEF SentOnce, Exists, IsOpen
<1>5. CASE Claim
  <2>1. SentOnce(d) /\ worker.at = "claim" /\ UNCHANGED sends
    BY <1>3, <1>5 DEF Claim, history
  <2>2. d \notin worker.batch \cup worker.reclaimed /\ ~IsOpen(d)
    BY <2>1 DEF SentOnce
  <2>3. row'[d].status = row[d].status
    BY <1>5, <2>2, ClaimRows DEF Claim
  <2>4. d \notin worker'.batch /\ d \notin worker'.reclaimed
    <3>1. worker \in WorkerType
      BY DEF IInv, TypeOK
    <3>2. CASE worker' = IdleWorker
      BY <3>2 DEF IdleWorker
    <3>3. CASE worker' = [worker EXCEPT !.at = "send", !.reclaimed = {}]
      BY <2>2, <3>1, <3>3 DEF WorkerType
    <3> QED
      BY <1>5, <3>2, <3>3 DEF Claim
  <2> QED
    BY <2>1, <2>2, <2>3, <2>4 DEF SentOnce, Exists, IsOpen
<1>6. CASE Send
  <2>1. PICK e \in Current :
            \/ /\ sends' = [sends EXCEPT ![e] = @ + 1]
               /\ ToRecord(Done(e))
               /\ UNCHANGED unanswered
            \/ /\ sends' = [sends EXCEPT ![e] = @ + 1]
               /\ unanswered' = unanswered \cup {e}
               /\ \E v \in Verdicts : ToRecord(v)
            \/ /\ UNCHANGED <<sends, unanswered>>
               /\ \E v \in Verdicts : ToRecord(v)
    BY <1>6, VerdictsAre DEF Send, history, Verdicts
  <2>2. /\ worker.at = "send" /\ UNCHANGED row
        /\ e \in worker.batch /\ e \in Deliveries
        /\ row[e].status \in Open \cup {"CANCELLED"}
    BY <1>6 DEF Send, Current, IInv, TypeOK, WorkerType, BatchInv
  <2>3. Done(e) \in Verdicts
    BY VerdictsAre DEF Verdicts
  <2>4. /\ worker'.batch = worker.batch /\ worker'.reclaimed = {}
        /\ worker'.at = "record"
    BY <2>1, <2>2, <2>3, WorkerRecords
  <2>5. CASE d # e
    <3>1. sends'[d] = sends[d]
      BY <2>1, <2>5 DEF IInv, TypeOK
    <3>2. SentOnce(d) /\ d \notin worker.batch
      BY <1>3, <2>2, <3>1 DEF SentOnce
    <3> QED
      BY <2>2, <2>4, <3>1, <3>2 DEF SentOnce, Exists, IsOpen
  <2>6. CASE d = e
    <3>1. ~SentOnce(d)
      BY <2>2, <2>6 DEF SentOnce
    <3>2. sends[d] = 0
      BY <1>3, <3>1
    <3>3. /\ sends' = [sends EXCEPT ![d] = @ + 1]
          /\ ToRecord(Done(d))
      BY <2>1, <2>6, <3>2
    <3>4. sends'[d] = 1
      BY <3>2, <3>3 DEF IInv, TypeOK
    <3>5. worker'.verdict = Done(d)
      BY <2>2, <2>3, <2>6, <3>3, WorkerRecords
    <3>6. d \in Current'
      BY <2>2, <2>4, <2>6 DEF Current, Before
    <3>7. Exists(d)'
      BY <2>2, <2>6 DEF Exists, Open, Claimable
    <3> QED
      BY <2>2, <2>4, <2>6, <3>4, <3>5, <3>6, <3>7 DEF SentOnce
  <2> QED
    BY <2>5, <2>6
<1>7. CASE Record
  <2>1. SentOnce(d) /\ worker.at = "record" /\ UNCHANGED sends
    BY <1>3, <1>7 DEF Record, history
  <2>2. PICK e \in Current :
            /\ row' = [row EXCEPT ![e] = Recorded(@, worker.verdict)]
            /\ NextInBatch(e)
    BY <1>7 DEF Record
  <2>3. /\ row'[e].status = worker.verdict
        /\ \A f \in Deliveries \ {e} : row'[f] = row[f]
        /\ worker'.batch = worker.batch \ {e} /\ worker'.reclaimed = {}
    BY <2>1, <2>2, RecordRows
  <2>4. CASE d = e
    <3>1. d \in worker.batch
      BY <2>4 DEF Current
    <3>2. row'[d].status \in {"SENT", "EDITED"}
      BY <2>1, <2>3, <2>4, <3>1, VerdictsAre DEF SentOnce
    <3> QED
      BY <2>1, <2>3, <2>4, <3>2 DEF SentOnce, Exists, IsOpen, Open, Claimable
  <2>5. CASE d # e
    <3>1. d \notin worker.batch
      BY <2>1, <2>5, CurrentIsOne DEF SentOnce, IInv
    <3> QED
      BY <2>1, <2>3, <2>5, <3>1 DEF SentOnce, Exists, IsOpen
  <2> QED
    BY <2>4, <2>5
<1> QED
  BY <1>4, <1>5, <1>6, <1>7 DEF Work

(* Every step keeps the invariant of duplicates.                           *)
LEMMA OnceNext == IInv /\ OnceInv /\ [Next]_vars => OnceInv'
<1> SUFFICES ASSUME IInv, OnceInv, [Next]_vars
             PROVE  OnceInv'
  OBVIOUS
<1>1. ASSUME NEW p \in Producers,
             EnqueueStep(p) \/ \E d \in Deliveries : Enqueue(p, d)
      PROVE  OnceInv'
  <2>1. CallKeeps /\ UNCHANGED <<worker, crashes, history>>
    BY <1>1, CallStep
  <2>2. UNCHANGED faults \/ DatabaseFails
    <3>1. CASE \E d \in Deliveries : Enqueue(p, d)
      BY <3>1 DEF Enqueue
    <3>2. CASE CheckDuplicate(p)
      BY <3>2 DEF CheckDuplicate, EnqueueFails
    <3>3. CASE CheckCapacity(p)
      BY <3>3 DEF CheckCapacity, EnqueueFails
    <3>4. CASE ChooseVictim(p)
      BY <3>4 DEF ChooseVictim, EnqueueFails
    <3>5. CASE Cancel(p)
      BY <3>5 DEF Cancel, EnqueueFails
    <3>6. CASE Insert(p)
      BY <3>6 DEF Insert, EnqueueFails
    <3> QED
      BY <1>1, <3>1, <3>2, <3>3, <3>4, <3>5, <3>6 DEF EnqueueStep
  <2> QED
    BY <2>1, <2>2, FaultsCount, QuietKeepsOnce DEF CallKeeps, Calm, IInv
<1>2. CASE Work
  BY <1>2, WorkKeepsOnce
<1>3. ASSUME NEW t \in Deliveries, TimePasses(t)
      PROVE  OnceInv'
  BY <1>3, TimeKeeps, QuietKeepsOnce DEF CallRows, Calm
<1>4. CASE Crash
  BY <1>4 DEF Crash, OnceInv, Calm, IInv, TypeOK
<1>5. CASE UNCHANGED vars
  BY <1>5, QuietKeepsOnce DEF vars, history, CallRows, Kept, Calm
<1> QED
  BY <1>1, <1>2, <1>3, <1>4, <1>5 DEF Next

(***************************************************************************)
(* Without a crash, a failed transaction or a lost answer nothing is sent  *)
(* twice, whatever callers, overflows and leases do to the worker's batch. *)
(***************************************************************************)
THEOREM DuplicatesNeedAFailureHolds == Spec => []DuplicatesNeedAFailure
<1>1. Init => OnceInv
  BY DEF Init, OnceInv
<1>2. IInv /\ OnceInv => DuplicatesNeedAFailure
  BY DEF IInv, TypeOK, OnceInv, SentOnce, Calm, DuplicatesNeedAFailure
<1> QED
  BY <1>1, <1>2, InvHolds, OnceNext, PTL DEF Spec

=============================================================================
