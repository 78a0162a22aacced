---------------------------- MODULE RunLifecycle ----------------------------
(***************************************************************************)
(* The life of a run inside one gateway process: the request that creates  *)
(* it (start_run), the requests that cancel it (the cancel endpoints, a    *)
(* client that disconnects with on_disconnect=cancel, and a later          *)
(* create_or_reject on the same thread), and the worker coroutine          *)
(* run_agent with its rollback of the thread's checkpoint.                 *)
(*                                                                         *)
(* Everything runs on one asyncio event loop, so a step is the code        *)
(* between two awaits of one coroutine, and any other coroutine may run    *)
(* between two steps.  task.cancel() raises CancelledError at the await    *)
(* the worker is suspended in: once cancelReq[r] is set the worker's next  *)
(* step is WorkerCancelled, or WorkerNeverStarts when the coroutine has    *)
(* not taken its first step.                                               *)
(*                                                                         *)
(* A checkpoint is abstracted to the set of turns its messages hold: Past  *)
(* stands for everything said before the model begins, r for the output of *)
(* run r; the empty set is a thread without a checkpoint.                  *)
(***************************************************************************)
EXTENDS RunManager

CONSTANTS
  Past,        \* the turn that stands for the conversation so far
  Strategies   \* the multitask strategies the clients use

ASSUME PastAssumption == Past \notin Run
ASSUME StrategyAssumption == Strategies \subseteq Strategy

VARIABLES
  req,       \* start_run of each run: where the request is suspended
  pc,        \* run_agent of each run: where the worker is suspended
  ended,     \* bridge.publish_end was called for the run
  meta,      \* threads_meta.status of each thread
  ckpt,      \* the latest checkpoint of each thread
  view,      \* the state the graph loaded when the run's stream began
  snap,      \* pre_run_snapshot of the worker
  capture,   \* "none" before the snapshot, then "ok" or "failed"
  (* History variables, read by properties only. *)
  base,      \* the thread's checkpoint when the worker took its first step
  touched,   \* another run changed the thread's checkpoint since then
  restored,  \* _rollback_to_pre_run_checkpoint completed
  metaLost   \* threads whose metadata update failed (logged, non-fatal)

requestVars == <<req, meta, metaLost>>
ckptVars    == <<ckpt, view, snap, capture, base, touched, restored>>
vars == <<recordVars, requestVars, pc, ended, ckptVars>>

Turn == Run \cup {Past}
ReqState == {"idle", "inserted", "upserted", "launched", "failed"}
PcState == {"none", "scheduled", "starting", "building", "streaming",
            "rollback", "closing", "ending", "done"}
MetaState == {"absent", "idle", "running", "interrupted", "error"}

(* The worker is between its first step and its final status. *)
Working == {"starting", "building", "streaming"}
(* The worker has chosen the run's final status. *)
Closing == {"rollback", "closing", "ending"}

TypeOK ==
  /\ RecordTypeOK
  /\ req \in [Run -> ReqState]
  /\ pc \in [Run -> PcState]
  /\ ended \in [Run -> BOOLEAN]
  /\ meta \in [Thread -> MetaState]
  /\ ckpt \in [Thread -> SUBSET Turn]
  /\ view \in [Run -> SUBSET Turn]
  /\ snap \in [Run -> SUBSET Turn]
  /\ capture \in [Run -> {"none", "ok", "failed"}]
  /\ base \in [Run -> SUBSET Turn]
  /\ touched \in [Run -> BOOLEAN]
  /\ restored \in [Run -> BOOLEAN]
  /\ metaLost \subseteq Thread

Init ==
  /\ RecordInit
  /\ req = [r \in Run |-> "idle"]
  /\ pc = [r \in Run |-> "none"]
  /\ ended = [r \in Run |-> FALSE]
  /\ meta \in [Thread -> {"absent", "idle"}]
  /\ ckpt \in [Thread -> {{}, {Past}}]
  /\ view = [r \in Run |-> {}]
  /\ snap = [r \in Run |-> {}]
  /\ capture = [r \in Run |-> "none"]
  /\ base = [r \in Run |-> {}]
  /\ touched = [r \in Run |-> FALSE]
  /\ restored = [r \in Run |-> FALSE]
  /\ metaLost = {}

-----------------------------------------------------------------------------
(* Mutated forms, see RunManager. *)

FinalStatusIgnoresAbort(r) ==
  /\ SetStatus(r, "success")
  /\ pc' = [pc EXCEPT ![r] = "closing"]

CancelledSkipsFinally(r) ==
  /\ pc[r] \in Working /\ cancelReq[r]
  /\ cancelReq' = [cancelReq EXCEPT ![r] = FALSE]
  /\ SetStatus(r, "interrupted")
  /\ pc' = [pc EXCEPT ![r] = "done"]
  /\ task' = [task EXCEPT ![r] = "done"]
  /\ UNCHANGED <<abort, action, requestVars, ended, ckptVars>>

FailsWithoutStatus(r) ==
  /\ pc[r] \in {"building", "streaming"} /\ ~cancelReq[r]
  /\ pc' = [pc EXCEPT ![r] = "closing"]
  /\ UNCHANGED <<recordVars, requestVars, ended, ckptVars>>

RollbackTargetIsLatest(r) == ckpt[ThreadOf[r]]

ClosingMetaOnlyOnSuccess(r) ==
  IF status[r] = "success" THEN "idle" ELSE meta[ThreadOf[r]]

-----------------------------------------------------------------------------
(* start_run *)

(* create_or_reject inserts the record; the request then awaits the run    *)
(* store and the thread store.                                             *)
CreateRun(r) ==
  /\ req[r] = "idle"
  /\ \E strategy \in Strategies : CreateOrReject(r, strategy)
  /\ req' = [req EXCEPT ![r] = "inserted"]
  /\ UNCHANGED <<task, meta, metaLost, pc, ended, ckptVars>>

(* thread_store.get, then create (status idle) or update_status(running).  *)
(* An exception is logged and ignored.                                     *)
UpsertThread(r) ==
  LET t == ThreadOf[r] IN
  /\ req[r] = "inserted"
  /\ \/ /\ meta' = [meta EXCEPT ![t] = IF @ = "absent" THEN "idle" ELSE "running"]
        /\ UNCHANGED metaLost
     \/ /\ metaLost' = metaLost \cup {t}
        /\ UNCHANGED meta
  /\ req' = [req EXCEPT ![r] = "upserted"]
  /\ UNCHANGED <<recordVars, pc, ended, ckptVars>>

(* create_task(run_agent) and record.task = task, with no await between.   *)
LaunchRun(r) ==
  /\ req[r] = "upserted"
  /\ req' = [req EXCEPT ![r] = "launched"]
  /\ task' = [task EXCEPT ![r] = "scheduled"]
  /\ pc' = [pc EXCEPT ![r] = "scheduled"]
  /\ UNCHANGED <<status, abort, action, cancelReq, meta, metaLost, ended, ckptVars>>

(* normalize_input or build_run_config refuses the body: the request ends  *)
(* with an error after the record was inserted, and no task is created.    *)
RefuseBody(r) ==
  /\ req[r] = "upserted"
  /\ req' = [req EXCEPT ![r] = "failed"]
  /\ UNCHANGED <<recordVars, meta, metaLost, pc, ended, ckptVars>>

(* POST .../cancel, POST .../stream?action=, and the finally clause of     *)
(* sse_consumer for a client that went away.                               *)
CancelRun(r) ==
  /\ \E a \in Action : Cancel(r, a)
  /\ UNCHANGED <<task, requestVars, pc, ended, ckptVars>>

-----------------------------------------------------------------------------
(* run_agent *)

(* First step: the coroutine enters its try block and marks the run        *)
(* running, whatever the record's status was.                              *)
WorkerStart(r) ==
  /\ pc[r] = "scheduled" /\ ~cancelReq[r]
  /\ task' = [task EXCEPT ![r] = "running"]
  /\ SetStatus(r, "running")
  /\ pc' = [pc EXCEPT ![r] = "starting"]
  /\ base' = [base EXCEPT ![r] = ckpt[ThreadOf[r]]]
  /\ UNCHANGED <<abort, action, cancelReq, requestVars, ended, ckpt, view,
                 snap, capture, touched, restored>>

(* A task cancelled before its first step: CancelledError is thrown into a *)
(* coroutine that has not entered its try block, so neither except nor     *)
(* finally runs.                                                           *)
WorkerNeverStarts(r) ==
  /\ pc[r] = "scheduled" /\ cancelReq[r]
  /\ pc' = [pc EXCEPT ![r] = "done"]
  /\ task' = [task EXCEPT ![r] = "done"]
  /\ cancelReq' = [cancelReq EXCEPT ![r] = FALSE]
  /\ UNCHANGED <<status, abort, action, requestVars, ended, ckptVars>>

(* The pre-run snapshot: aget_tuple answered, or raised. *)
WorkerSnapshot(r) ==
  /\ pc[r] = "starting" /\ ~cancelReq[r]
  /\ \/ /\ snap' = [snap EXCEPT ![r] = ckpt[ThreadOf[r]]]
        /\ capture' = [capture EXCEPT ![r] = "ok"]
     \/ /\ capture' = [capture EXCEPT ![r] = "failed"]
        /\ UNCHANGED snap
  /\ pc' = [pc EXCEPT ![r] = "building"]
  /\ UNCHANGED <<recordVars, requestVars, ended, ckpt, view, base, touched, restored>>

(* The agent is built and its graph loads the thread's checkpoint. *)
WorkerLoad(r) ==
  /\ pc[r] = "building" /\ ~cancelReq[r]
  /\ view' = [view EXCEPT ![r] = ckpt[ThreadOf[r]]]
  /\ pc' = [pc EXCEPT ![r] = "streaming"]
  /\ UNCHANGED <<recordVars, requestVars, ended, ckpt, snap, capture, base,
                 touched, restored>>

(* The final status of a stream that ended or was left on abort. *)
FinalStatus(r) ==
  IF abort[r]
  THEN IF action[r] = "rollback"
       THEN SetStatus(r, "error") /\ pc' = [pc EXCEPT ![r] = "rollback"]
       ELSE SetStatus(r, "interrupted") /\ pc' = [pc EXCEPT ![r] = "closing"]
  ELSE SetStatus(r, "success") /\ pc' = [pc EXCEPT ![r] = "closing"]

(* The checkpoint of r's thread becomes c; the other workers on the thread *)
(* are marked touched when that changes it.                                *)
WriteCheckpoint(r, c) ==
  LET t == ThreadOf[r] IN
  /\ ckpt' = [ckpt EXCEPT ![t] = c]
  /\ touched' = [x \in Run |-> \/ touched[x]
                               \/ /\ x # r /\ ThreadOf[x] = t /\ c # ckpt[t]
                                  /\ pc[x] \notin {"none", "scheduled"}]

(* One superstep of the graph: it saves the state it holds, which is what  *)
(* it loaded plus its own output, and yields a chunk; the loop leaves on   *)
(* the abort event and publishes the chunk otherwise.                      *)
WorkerChunk(r) ==
  /\ pc[r] = "streaming" /\ ~cancelReq[r]
  /\ WriteCheckpoint(r, view[r] \cup {r})
  /\ IF abort[r] THEN FinalStatus(r) ELSE UNCHANGED <<status, pc>>
  /\ UNCHANGED <<abort, action, task, cancelReq, requestVars, ended, view, snap,
                 capture, base, restored>>

(* The stream is exhausted. *)
WorkerStreamEnds(r) ==
  /\ pc[r] = "streaming" /\ ~cancelReq[r]
  /\ FinalStatus(r)
  /\ UNCHANGED <<abort, action, task, cancelReq, requestVars, ended, ckptVars>>

(* except CancelledError *)
WorkerCancelled(r) ==
  /\ pc[r] \in Working /\ cancelReq[r]
  /\ cancelReq' = [cancelReq EXCEPT ![r] = FALSE]
  /\ IF action[r] = "rollback"
     THEN SetStatus(r, "error") /\ pc' = [pc EXCEPT ![r] = "rollback"]
     ELSE SetStatus(r, "interrupted") /\ pc' = [pc EXCEPT ![r] = "closing"]
  /\ UNCHANGED <<abort, action, task, requestVars, ended, ckptVars>>

(* except Exception: before the run is marked running, while the agent is  *)
(* built, or from the stream.                                              *)
WorkerFails(r) ==
  /\ pc[r] \in {"scheduled", "building", "streaming"} /\ ~cancelReq[r]
  /\ task' = [task EXCEPT ![r] = "running"]
  /\ SetStatus(r, "error")
  /\ pc' = [pc EXCEPT ![r] = "closing"]
  /\ UNCHANGED <<abort, action, cancelReq, requestVars, ended, ckptVars>>

(* What a rollback restores: the snapshot, or no checkpoint when there is  *)
(* none (delete_thread).                                                   *)
RollbackTarget(r) == snap[r]

(* _rollback_to_pre_run_checkpoint: nothing when the snapshot could not be *)
(* captured, the thread deleted when there is no snapshot, the snapshot    *)
(* restored otherwise.  The checkpointer may raise, before it wrote or     *)
(* while the pending writes follow; the caller logs it.                    *)
WorkerRollback(r) ==
  /\ pc[r] = "rollback"
  /\ \/ /\ capture[r] # "failed"
        /\ WriteCheckpoint(r, RollbackTarget(r))
        /\ restored' \in {restored, [restored EXCEPT ![r] = TRUE]}
     \/ UNCHANGED <<ckpt, touched, restored>>
  /\ pc' = [pc EXCEPT ![r] = "closing"]
  /\ UNCHANGED <<recordVars, requestVars, ended, view, snap, capture, base>>

(* The thread status a finished run leaves behind. *)
ClosingMeta(r) == IF status[r] = "success" THEN "idle" ELSE status[r]

(* finally, first part: completion data, title and thread status. *)
WorkerCloseThread(r) ==
  LET t == ThreadOf[r] IN
  /\ pc[r] = "closing"
  /\ \/ /\ meta' = [meta EXCEPT ![t] = IF @ = "absent" THEN @ ELSE ClosingMeta(r)]
        /\ UNCHANGED metaLost
     \/ /\ metaLost' = metaLost \cup {t}
        /\ UNCHANGED meta
  /\ pc' = [pc EXCEPT ![r] = "ending"]
  /\ UNCHANGED <<recordVars, req, ended, ckptVars>>

(* finally, last part: publish_end; the coroutine returns. *)
WorkerEnd(r) ==
  /\ pc[r] = "ending"
  /\ ended' = [ended EXCEPT ![r] = TRUE]
  /\ pc' = [pc EXCEPT ![r] = "done"]
  /\ task' = [task EXCEPT ![r] = "done"]
  /\ UNCHANGED <<status, abort, action, cancelReq, requestVars, ckptVars>>

-----------------------------------------------------------------------------
Request(r) == UpsertThread(r) \/ LaunchRun(r) \/ RefuseBody(r)

Worker(r) ==
  \/ WorkerStart(r) \/ WorkerNeverStarts(r) \/ WorkerSnapshot(r) \/ WorkerLoad(r)
  \/ WorkerChunk(r) \/ WorkerStreamEnds(r) \/ WorkerCancelled(r) \/ WorkerFails(r)
  \/ WorkerRollback(r) \/ WorkerCloseThread(r) \/ WorkerEnd(r)

Next == \E r \in Run : CreateRun(r) \/ Request(r) \/ CancelRun(r) \/ Worker(r)

(* The event loop runs every ready coroutine: a request that was admitted  *)
(* and a worker that was scheduled keep taking steps.  A stream is finite  *)
(* (LangGraph bounds its supersteps by recursion_limit), which weak        *)
(* fairness of Worker expresses, since repeating WorkerChunk changes       *)
(* nothing.  Nobody has to create or cancel a run.                         *)
Fairness == \A r \in Run : WF_vars(Request(r)) /\ WF_vars(Worker(r))

Spec == Init /\ [][Next]_vars /\ Fairness

-----------------------------------------------------------------------------
(* Safety *)

(* A run that was asked to abort never reports success: neither a cancel   *)
(* that arrives before the task exists nor one that races the end of the   *)
(* stream is lost (run_agent's check of abort_event at "Final status").    *)
AbortedNeverSucceeds == \A r \in Run : abort[r] => status[r] # "success"

(* Of the runs that are pending or running on one thread, at most one has  *)
(* not been asked to abort: create_or_reject checks and inserts atomically *)
(* and no later step can bring a finished run back to life.                *)
OneUnabortedRun ==
  \A r, q \in Run :
    /\ r # q
    /\ ThreadOf[r] = ThreadOf[q]
    /\ status[r] \in Active
    /\ status[q] \in Active
    => abort[r] \/ abort[q]

(* A record says running only while its worker is alive.  Nothing resets   *)
(* the status of a dead worker, and a thread with a running record refuses *)
(* every later run.                                                        *)
RunningHasWorker == \A r \in Run : status[r] = "running" => pc[r] \in Working

(* Subscribers see END only after the final status is in the record:       *)
(* sse_consumer's finally clause cancels a run that is still inflight when *)
(* the stream is over.                                                     *)
EndedIsTerminal == \A r \in Run : ended[r] => status[r] \in Terminal

(* Once the worker has chosen a final status, no cancel and no later       *)
(* create_or_reject changes it: what the finally clause writes to the run  *)
(* store, the thread metadata and the stream is one and the same outcome.  *)
FinalIsFinal ==
  [][\A r \in Run : pc[r] \in Closing => status'[r] = status[r]]_vars

(* A rollback whose snapshot was captured, on a thread no other run        *)
(* touched meanwhile, leaves the checkpoint the run found when it began.   *)
CapturedRollbackRestores ==
  \A r \in Run :
    restored[r] /\ capture[r] = "ok" /\ ~touched[r] => ckpt[ThreadOf[r]] = base[r]

(* A thread does not keep showing "running" when every request on it was   *)
(* served, every worker closed and no metadata write was lost: the last    *)
(* worker's update follows the last request's update_status("running").    *)
Served(t) ==
  \A r \in Run : ThreadOf[r] = t => \/ req[r] = "idle"
                                    \/ req[r] = "launched" /\ ended[r]
MetaSettles == \A t \in Thread : Served(t) /\ t \notin metaLost => meta[t] # "running"

-----------------------------------------------------------------------------
(* Liveness *)

(* The stream of a run whose worker took its first step is terminated,     *)
(* whether the agent succeeds, fails, or is cancelled at any await.        *)
StartedRunEnds == \A r \in Run : task[r] = "running" ~> ended[r]

(* A run that was asked to abort stops: its task completes and its status  *)
(* is interrupted or error, unless its request refused the body.           *)
AbortedRunStops ==
  \A r \in Run : abort[r] ~> \/ req[r] = "failed"
                             \/ task[r] = "done" /\ status[r] \in {"interrupted", "error"}

-----------------------------------------------------------------------------
(* What the comments of the code say and the code does not do *)

(* manager.py: create_or_reject "cancels inflight runs before creating",   *)
(* holding the lock "across both the check and the insert": a thread has   *)
(* one inflight run.                                                       *)
OneInflightRun == \A t \in Thread : Cardinality(Inflight(t)) <= 1

(* worker.py: rollback restores "the checkpoint snapshot captured before   *)
(* run start", also when the cancel arrives early in the run.              *)
RollbackRestores ==
  \A r \in Run : restored[r] /\ ~touched[r] => ckpt[ThreadOf[r]] = base[r]

(* worker.py: every exception reaches the finally clause that publishes    *)
(* the end of the stream, so a run that was launched ends its stream.      *)
LaunchedRunEnds == \A r \in Run : req[r] = "launched" ~> ended[r]

(* services.py: a malformed body is answered with an error the client can  *)
(* retry, so an inserted record does not stay pending.                     *)
PendingIsServed == \A r \in Run : status[r] = "pending" ~> status[r] # "pending"

-----------------------------------------------------------------------------
(* The inductive invariant behind the safety properties. *)

(* Where the request and the worker stand fixes which statuses the record  *)
(* can have, and an interruption the worker has not honoured yet always    *)
(* shows in abort.                                                         *)
StatusInv ==
  \A r \in Run :
    /\ req[r] = "idle" => status[r] = "absent" /\ pc[r] = "none"
    /\ req[r] \in {"inserted", "upserted"} =>
         pc[r] = "none" /\ status[r] \in {"pending", "interrupted"}
    /\ pc[r] = "scheduled" => status[r] \in {"pending", "interrupted"}
    /\ pc[r] \in Working => status[r] \in {"running", "interrupted"}
    /\ ended[r] => pc[r] = "done"
    /\ pc[r] \in Closing \/ ended[r] => status[r] \in Terminal
    /\ status[r] = "running" => pc[r] \in Working
    /\ status[r] = "interrupted" /\ pc[r] \in {"none", "scheduled"} \cup Working
         => abort[r]
    /\ cancelReq[r] => abort[r] /\ status[r] = "interrupted"
    /\ abort[r] => status[r] \notin {"absent", "success"}

(* While nobody else writes the thread's checkpoint, the snapshot and what *)
(* a rollback leaves are the checkpoint the worker began with.             *)
CheckpointInv ==
  \A r \in Run :
    /\ pc[r] \in {"none", "scheduled"} =>
         capture[r] = "none" /\ ~restored[r] /\ ~touched[r]
    /\ pc[r] = "starting" => capture[r] = "none"
    /\ pc[r] \in {"starting", "building"} /\ ~touched[r] => ckpt[ThreadOf[r]] = base[r]
    /\ capture[r] = "ok" /\ ~touched[r] => snap[r] = base[r]
    /\ restored[r] => pc[r] \in {"closing", "ending", "done"}
    /\ restored[r] /\ capture[r] = "ok" /\ ~touched[r] => ckpt[ThreadOf[r]] = base[r]

IInv == TypeOK /\ StatusInv /\ OneUnabortedRun /\ CheckpointInv

(* The run's request wrote the thread metadata, or failed after it, and    *)
(* its worker has not written the metadata of a finished run yet.          *)
Unclosed(r) ==
  \/ req[r] \in {"upserted", "failed"}
  \/ req[r] = "launched" /\ pc[r] # "ending" /\ ~ended[r]

(* Whenever a thread shows "running", some run on it has still to settle   *)
(* the metadata: the order of the requests and of the closing workers does *)
(* not matter, since every worker that closes replaces "running".          *)
MetaInv ==
  \A t \in Thread : meta[t] = "running" /\ t \notin metaLost =>
    \E r \in Run : ThreadOf[r] = t /\ Unclosed(r)

=============================================================================
