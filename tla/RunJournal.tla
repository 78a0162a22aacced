----------------------------- MODULE RunJournal -----------------------------
(***************************************************************************)
(* The journals of the runs of one thread and the event table they write   *)
(* to (runtime/journal.py, runtime/events/store/db.py).                    *)
(*                                                                         *)
(* A journal buffers events; at a threshold, or when a chain ends, a task  *)
(* takes the whole buffer and writes it as one batch; the worker flushes   *)
(* what is left when the run is over.  A write is a transaction that reads *)
(* the largest seq of the thread and inserts the batch after it; two       *)
(* transactions that read the same one collide on the unique key           *)
(* (thread_id, seq), unless the database has an advisory lock.             *)
(*                                                                         *)
(* An event is its number in its run; rows is the table in the order of    *)
(* seq.  Handlers run on the event loop or in executor threads, where no   *)
(* task can be made; taking the buffer is one step.                        *)
(***************************************************************************)
EXTENDS Naturals, Sequences, FiniteSets, SequencesExt

CONSTANTS
  JournalRuns,
  FlushThreshold,
  MaxEvents,     \* bound on the events of a run
  MaxLostWrites    \* bound on the writes that fail other than by collision

ASSUME JournalAssumption ==
  /\ FlushThreshold \in Nat \ {0} /\ MaxEvents \in Nat /\ MaxLostWrites \in Nat

Writers == {"task", "flush"}  \* _flush_async, and flush() of the worker
Idle == 0

VARIABLES
  rows,      \* the events of the thread, by seq
  put,       \* how many events the handlers of a run have put
  buffer,    \* _buffer
  batch,     \* what a writer of a run is writing, or << >>
  base,      \* the seq its transaction gives the first event, or Idle
  worker,    \* "running", "waiting", "draining", "flushed" or "failed"
  failed     \* number of writes that failed

journalVars == <<rows, put, buffer, batch, base, worker, failed>>

JournalInit ==
  /\ rows = << >> /\ failed = 0
  /\ put = [r \in JournalRuns |-> 0]
  /\ buffer = [r \in JournalRuns |-> << >>]
  /\ batch = [r \in JournalRuns |-> [w \in Writers |-> << >>]]
  /\ base = [r \in JournalRuns |-> [w \in Writers |-> Idle]]
  /\ worker = [r \in JournalRuns |-> "running"]

-----------------------------------------------------------------------------
(* The handlers. *)

\* _flush_sync: one task at a time takes everything that is buffered.
FlushSync(r, events) ==
  IF batch[r]["task"] = << >>
    THEN batch' = [batch EXCEPT ![r]["task"] = events] /\ buffer' = [buffer EXCEPT ![r] = << >>]
    ELSE UNCHANGED batch /\ buffer' = [buffer EXCEPT ![r] = events]

\* _put, and _flush_sync after the event that ends a chain.  A handler in a
\* thread finds no loop, and may still be at it when the worker flushes or has.
Put(r, onLoop, ends) ==
  /\ put[r] < MaxEvents
  /\ onLoop => worker[r] = "running"
  /\ put' = [put EXCEPT ![r] = @ + 1]
  /\ LET events == Append(buffer[r], put[r] + 1)
     IN  IF onLoop /\ (ends \/ Len(events) >= FlushThreshold)
           THEN FlushSync(r, events)
           ELSE buffer' = [buffer EXCEPT ![r] = events] /\ UNCHANGED batch
  /\ UNCHANGED <<rows, base, worker, failed>>

-----------------------------------------------------------------------------
(* put_batch. *)

\* _max_seq_for_thread
ReadMax(r, w) ==
  /\ batch[r][w] # << >> /\ base[r][w] = Idle
  /\ base' = [base EXCEPT ![r][w] = Len(rows) + 1]
  /\ UNCHANGED <<rows, put, buffer, batch, worker, failed>>

Written(r, w) ==
  /\ batch' = [batch EXCEPT ![r][w] = << >>]
  /\ base' = [base EXCEPT ![r][w] = Idle]

InsertRows(r, w) ==
  /\ base[r][w] = Len(rows) + 1
  /\ rows' = rows \o [i \in DOMAIN batch[r][w] |-> [run |-> r, n |-> batch[r][w][i]]]

Commit(r, w) ==
  /\ InsertRows(r, w) /\ Written(r, w)
  /\ UNCHANGED <<put, buffer, worker, failed>>

(* Mutated form: a failed batch is put behind what came in the meantime. *)
ReturnBatchBehind(r, w) == buffer' = [buffer EXCEPT ![r] = @ \o batch[r][w]]

\* A batch that failed goes back to the front of the buffer.
ReturnBatch(r, w) == buffer' = [buffer EXCEPT ![r] = batch[r][w] \o @]

\* The write fails: on the unique key, for another reason, or although the
\* commit was made.  The task lets it be; flush() gives up.
FailWrite(r, w) ==
  /\ batch[r][w] # << >>
  /\ \/ base[r][w] \notin {Idle, Len(rows) + 1} /\ UNCHANGED <<rows, failed>>
     \/ /\ failed < MaxLostWrites /\ failed' = failed + 1
        /\ UNCHANGED rows \/ InsertRows(r, w)
  /\ ReturnBatch(r, w) /\ Written(r, w)
  /\ worker' = IF w = "flush" THEN [worker EXCEPT ![r] = "failed"] ELSE worker
  /\ UNCHANGED put

-----------------------------------------------------------------------------
(* flush(), from the worker's finally. *)

Flush(r) ==
  /\ worker[r] = "running"
  /\ worker' = [worker EXCEPT ![r] = "waiting"]
  /\ UNCHANGED <<rows, put, buffer, batch, base, failed>>

(* Mutated form: the task in flight is not waited for. *)
StartDrainAtOnce(r) ==
  /\ worker[r] = "waiting"
  /\ worker' = [worker EXCEPT ![r] = "draining"]
  /\ UNCHANGED <<rows, put, buffer, batch, base, failed>>

\* The task in flight has ended.
StartDrain(r) ==
  /\ worker[r] = "waiting" /\ batch[r]["task"] = << >>
  /\ worker' = [worker EXCEPT ![r] = "draining"]
  /\ UNCHANGED <<rows, put, buffer, batch, base, failed>>

DrainBatch(r) ==
  /\ worker[r] = "draining" /\ batch[r]["flush"] = << >> /\ buffer[r] # << >>
  /\ LET n == IF Len(buffer[r]) < FlushThreshold THEN Len(buffer[r]) ELSE FlushThreshold
     IN  /\ batch' = [batch EXCEPT ![r]["flush"] = SubSeq(buffer[r], 1, n)]
         /\ buffer' = [buffer EXCEPT ![r] = SubSeq(@, n + 1, Len(@))]
  /\ UNCHANGED <<rows, put, base, worker, failed>>

EndFlush(r) ==
  /\ worker[r] = "draining" /\ batch[r]["flush"] = << >> /\ buffer[r] = << >>
  /\ worker' = [worker EXCEPT ![r] = "flushed"]
  /\ UNCHANGED <<rows, put, buffer, batch, base, failed>>

\* The worker is cancelled in flush(), and with it the write it waits for: the
\* batch is lost, with or without its rows.
CancelFlush(r) ==
  /\ worker[r] \in {"waiting", "draining"}
  /\ worker' = [worker EXCEPT ![r] = "failed"]
  /\ UNCHANGED rows \/ \E w \in Writers : batch[r][w] # << >> /\ InsertRows(r, w)
  /\ batch' = [batch EXCEPT ![r] = [w \in Writers |-> << >>]]
  /\ base' = [base EXCEPT ![r] = [w \in Writers |-> Idle]]
  /\ UNCHANGED <<put, buffer, failed>>

JournalNext ==
  \E r \in JournalRuns :
    \/ \E onLoop, ends \in BOOLEAN : Put(r, onLoop, ends)
    \/ \E w \in Writers : ReadMax(r, w) \/ Commit(r, w) \/ FailWrite(r, w)
    \/ Flush(r) \/ StartDrain(r) \/ DrainBatch(r) \/ EndFlush(r) \/ CancelFlush(r)

JournalSpec == JournalInit /\ [][JournalNext]_journalVars

-----------------------------------------------------------------------------
(* Properties. *)

\* The variables have their types.
JournalTypeOK ==
  /\ rows \in Seq([run : JournalRuns, n : 1 .. MaxEvents])
  /\ put \in [JournalRuns -> 0 .. MaxEvents] /\ failed \in 0 .. MaxLostWrites
  /\ buffer \in [JournalRuns -> Seq(1 .. MaxEvents)]
  /\ batch \in [JournalRuns -> [Writers -> Seq(1 .. MaxEvents)]]
  /\ base \in [JournalRuns -> [Writers -> Nat]]
  /\ worker \in [JournalRuns -> {"running", "waiting", "draining", "flushed", "failed"}]

\* The rows of a run tell its events in the order they happened: an event is
\* stored only behind all the earlier events of its run, although batches
\* fail, are written again and come between those of another run.
StoredInOrder ==
  \A i \in DOMAIN rows : \A n \in 1 .. rows[i].n - 1 :
    \E j \in 1 .. i - 1 : rows[j] = [run |-> rows[i].run, n |-> n]

\* A flush that returns leaves nothing behind: every event the run has put by
\* then is stored, those of the write that was in flight included.
FlushIsComplete ==
  [][\A r \in JournalRuns :
       worker'[r] = "flushed" /\ worker[r] # "flushed" =>
         \A n \in 1 .. put[r] : [run |-> r, n |-> n] \in ToSet(rows)]_journalVars
=============================================================================
