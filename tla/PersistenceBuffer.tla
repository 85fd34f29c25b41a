--------------------------- MODULE PersistenceBuffer ---------------------------
(***************************************************************************)
(* data/persistence_buffer.py with the candle flush of bootstrap.py: a     *)
(* bounded, ordered map of records by key, flushed in batches by one task. *)
(*                                                                         *)
(* A record is the version of a candle that is still forming; every append *)
(* of a key is the next version.  The flush upserts the batch in one       *)
(* transaction per instrument, and each key stands for an instrument.  The *)
(* task wakes by size or by time: it may start a flush whenever there is   *)
(* something to write.                                                     *)
(***************************************************************************)
EXTENDS Naturals, Sequences, Functions

CONSTANTS
    Keys,           \* deduplication keys
    BatchSize,      \* records written by one flush
    MaxBuffered,    \* records kept
    MaxVersions,    \* bound: records appended for a key
    MaxFaults       \* bound: flushes that fail

ASSUME BufferAssumption ==
    /\ {BatchSize, MaxBuffered} \subseteq Nat \ {0}
    /\ {MaxVersions, MaxFaults} \subseteq Nat

VARIABLES
    records,    \* the ordered map: records in the order of their last append
    task,       \* sleeping, flushing, final (the flush of stop), or stopped
    batch,      \* records of the flush under way
    written,    \* how many of them are committed
    degraded,   \* did the last flush fail
    db,         \* version of each key in the database, 0 for none
    newest,     \* version of each key appended last
    dropped,    \* history: records dropped from a full buffer
    raced,      \* history: records appended while an older one was flushed
    faults

bufferVars == <<records, task, batch, written, degraded, db, newest, dropped, raced,
                faults>>

BufferInit ==
    /\ records = <<>> /\ task = "sleeping" /\ batch = <<>> /\ written = 0
    /\ degraded = FALSE
    /\ db = [k \in Keys |-> 0] /\ newest = db
    /\ dropped = {} /\ raced = {} /\ faults = 0

KeysOf(s) == {r.key : r \in Range(s)}

(* The records of other keys, in their order.                              *)
WithoutKeys(s, keys) ==
    LET kept[n \in 0 .. Len(s)] ==
            IF n = 0 THEN <<>>
            ELSE IF s[n].key \in keys THEN kept[n - 1]
            ELSE Append(kept[n - 1], s[n])
    IN  kept[Len(s)]

Flushing == task \in {"flushing", "final"}

(* A new key drops the oldest record of a full buffer.                     *)
AppendRecord(k) ==
    LET record == [key |-> k, version |-> newest[k] + 1]
        full == k \notin KeysOf(records) /\ Len(records) = MaxBuffered
    IN  /\ task \in {"sleeping", "flushing"} /\ newest[k] < MaxVersions
        /\ newest' = [newest EXCEPT ![k] = @ + 1]
        /\ records' = Append(IF full THEN Tail(records)
                             ELSE WithoutKeys(records, {k}), record)
        /\ dropped' = IF full THEN dropped \cup {Head(records)} ELSE dropped
        /\ raced' = IF Flushing /\ k \in KeysOf(batch)
                    THEN raced \cup {record} ELSE raced
        /\ UNCHANGED <<task, batch, written, degraded, db, faults>>

FirstBatch == SubSeq(records, 1, IF Len(records) < BatchSize
                                 THEN Len(records) ELSE BatchSize)

StartFlush ==
    /\ task = "sleeping" /\ records # <<>>
    /\ task' = "flushing" /\ batch' = FirstBatch /\ written' = 0
    /\ UNCHANGED <<records, degraded, db, newest, dropped, raced, faults>>

(* The candles of one instrument, in a transaction of their own.           *)
UpsertCandles ==
    /\ Flushing /\ written < Len(batch)
    /\ db' = [db EXCEPT ![batch[written + 1].key] = batch[written + 1].version]
    /\ written' = written + 1
    /\ UNCHANGED <<records, task, batch, degraded, newest, dropped, raced,
                   faults>>

AfterFlush == IF task = "final" THEN "stopped" ELSE "sleeping"

(* Mutant: a failed flush gives its batch up.                              *)
KeptNothing == WithoutKeys(records, KeysOf(batch))

(* Mutant: a failed batch is put back behind the newer records.            *)
RequeuedBehind == records \o batch

(* What is left when a flush failed.                                       *)
KeptAfterFailure == records

(* The keys of the batch are removed, whatever they hold by now.           *)
FlushReturns ==
    /\ Flushing /\ written = Len(batch)
    /\ records' = WithoutKeys(records, KeysOf(batch))
    /\ task' = AfterFlush /\ batch' = <<>> /\ written' = 0
    /\ degraded' = FALSE
    /\ UNCHANGED <<db, newest, dropped, raced, faults>>

FlushFails ==
    /\ Flushing /\ written < Len(batch) /\ faults < MaxFaults
    /\ faults' = faults + 1
    /\ records' = KeptAfterFailure
    /\ task' = AfterFlush /\ batch' = <<>> /\ written' = 0
    /\ degraded' = TRUE
    /\ UNCHANGED <<db, newest, dropped, raced>>

(* The task is cancelled, wherever it is, and one more batch is tried.     *)
StopBuffer ==
    /\ task \in {"sleeping", "flushing"}
    /\ task' = IF records = <<>> THEN "stopped" ELSE "final"
    /\ batch' = FirstBatch /\ written' = 0
    /\ UNCHANGED <<records, degraded, db, newest, dropped, raced, faults>>

BufferNext ==
    \/ \E k \in Keys : AppendRecord(k)
    \/ StartFlush \/ UpsertCandles \/ FlushReturns \/ FlushFails \/ StopBuffer

BufferSpec == BufferInit /\ [][BufferNext]_bufferVars

-----------------------------------------------------------------------------
(* The newest state of a key is written or waiting to be written, unless   *)
(* it was dropped from a full buffer or came while an older state of the   *)
(* key was being flushed: failures, retries and the final flush lose       *)
(* nothing (persistence_buffer.py:98-123).                                 *)
NewestIsAccountedFor ==
    \A k \in Keys :
        LET record == [key |-> k, version |-> newest[k]]
        IN  newest[k] > 0 =>
                \/ db[k] = newest[k]
                \/ record \in Range(records) \cup dropped \cup raced

(* A candle in the database is never overwritten with an older state of    *)
(* it, across failed, repeated and cancelled flushes.                      *)
CandlesNeverGoBack == [][\A k \in Keys : db'[k] >= db[k]]_db

=============================================================================
