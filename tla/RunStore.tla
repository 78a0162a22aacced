------------------------------ MODULE RunStore ------------------------------
(***************************************************************************)
(* The durable half of the run registry: the rows of the runs table, the   *)
(* store calls RunManager makes after it releases its lock, and the        *)
(* reconciliation of the rows when a gateway process starts.               *)
(*                                                                         *)
(* A caller (a request, a worker, a starting process) has at most one      *)
(* store call in flight and awaits it.  The store answers the calls of     *)
(* different callers in any order, since a call that meets "database is    *)
(* locked" sleeps and is tried again; a call may be applied and tried once *)
(* more because its commit was not acknowledged; and a call is given up    *)
(* after the last attempt, which RunManager logs and ignores.              *)
(*                                                                         *)
(* The worker is reduced to its calls of set_status and                    *)
(* update_run_completion; RunLifecycle has the rest of it.  A row is       *)
(* abstracted to its status.  The backend is sqlite, the default, which is *)
(* the one whose start reconciles.                                         *)
(***************************************************************************)
EXTENDS RunManager

CONSTANTS
  Client,    \* concurrent requests of the HTTP API
  Proc,      \* gateway processes that share the store
  OwnerOf,   \* the process that serves each run
  NoRun,     \* no run
  MaxCrash   \* bound: crashes in a behaviour

Caller == Run \cup Client \cup Proc

ASSUME OwnerAssumption == OwnerOf \in [Run -> Proc]
ASSUME CallerAssumption ==
  /\ Run \cap Client = {} /\ Run \cap Proc = {} /\ Client \cap Proc = {}
  /\ NoRun \notin Run
ASSUME CrashAssumption == MaxCrash \in Nat
(* RunManager's registry is per process: the requests of one thread reach  *)
(* the process that serves the thread.                                     *)
ASSUME StickyAssumption ==
  \A r, q \in Run : ThreadOf[r] = ThreadOf[q] => OwnerOf[r] = OwnerOf[q]

VARIABLES
  store,     \* the status in the run's row; "absent" when there is no row
  call,      \* the store call each caller awaits
  creating,  \* the run whose creation a request is persisting
  victims,   \* the interrupted runs a creation has yet to persist
  pc,        \* where the run's request and then its worker are
  proc,      \* "down", "recovering" (listed the rows) or "serving"
  orphans,   \* listed rows the starting process has yet to recover
  crashes,   \* number of crashes so far
  (* History variables, read by properties only. *)
  inserted,  \* the put of the run's creation was applied
  saved,     \* a write of the run's final status by its worker was applied
  recovered, \* the last write of the run's row was a reconciliation's
  missed     \* runs whose recovery was not persisted in this process's start

history   == <<inserted, saved, recovered, missed>>
storeVars == <<store, call, history>>
procVars  == <<proc, orphans, crashes>>
vars == <<recordVars, storeVars, creating, victims, pc, procVars>>

PcState == {"idle", "creating", "putting", "refused", "scheduled", "working",
            "finishing", "completing", "done", "dead"}
(* The worker coroutine exists and has not returned. *)
LivePc == {"scheduled", "working", "finishing", "completing"}
ProcState == {"down", "recovering", "serving"}

NoCall == [op |-> "none"]
(* update: update_status(val), put(payload) when no row matched.           *)
(* complete: update_run_completion(val); when no row matched, put(payload) *)
(* as recreate and then the update once more as recomplete.                *)
StoreCall == [op : {"put", "update", "complete", "recreate", "recomplete"},
              run : Run, val : Status, payload : Status]

TypeOK ==
  /\ RecordTypeOK
  /\ store \in [Run -> Status]
  /\ call \in [Caller -> StoreCall \cup {NoCall}]
  /\ creating \in [Client -> Run \cup {NoRun}]
  /\ victims \in [Client -> SUBSET Run]
  /\ pc \in [Run -> PcState]
  /\ proc \in [Proc -> ProcState]
  /\ orphans \in [Proc -> SUBSET Run]
  /\ crashes \in 0 .. MaxCrash
  /\ inserted \in [Run -> BOOLEAN]
  /\ saved \in [Run -> BOOLEAN]
  /\ recovered \in [Run -> BOOLEAN]
  /\ missed \in [Proc -> SUBSET Run]

Init ==
  /\ RecordInit
  /\ store = [r \in Run |-> "absent"]
  /\ call = [k \in Caller |-> NoCall]
  /\ creating = [c \in Client |-> NoRun]
  /\ victims = [c \in Client |-> {}]
  /\ pc = [r \in Run |-> "idle"]
  /\ proc = [p \in Proc |-> "down"]
  /\ orphans = [p \in Proc |-> {}]
  /\ crashes = 0
  /\ inserted = [r \in Run |-> FALSE]
  /\ saved = [r \in Run |-> FALSE]
  /\ recovered = [r \in Run |-> FALSE]
  /\ missed = [p \in Proc |-> {}]

-----------------------------------------------------------------------------
(* Mutated forms, see RunManager. *)

(* The task is created before the row is put. *)
LaunchBeforePut(c) ==
  LET r == creating[c] IN
  /\ r # NoRun /\ pc[r] = "putting"
  /\ pc' = [pc EXCEPT ![r] = "scheduled"]
  /\ task' = [task EXCEPT ![r] = "scheduled"]
  /\ creating' = [creating EXCEPT ![c] = NoRun]
  /\ UNCHANGED <<status, abort, action, cancelReq, storeVars, victims, procVars>>

AnyRow == {r \in Run : store[r] # "absent"}
RunningRows == {r \in Run : store[r] = "running"}

ListWhileServing(p) ==
  /\ proc[p] \in {"down", "serving"}
  /\ proc' = [proc EXCEPT ![p] = "serving"]
  /\ orphans' = [orphans EXCEPT ![p] = {r \in Run : store[r] \in Active}]
  /\ missed' = [missed EXCEPT ![p] = {}]
  /\ UNCHANGED <<recordVars, store, call, inserted, saved, recovered, creating, victims,
                 pc, crashes>>

-----------------------------------------------------------------------------
(* Store calls *)

Issue(k, op, r, v, payload) ==
  call' = [call EXCEPT ![k] = [op |-> op, run |-> r, val |-> v, payload |-> payload]]

Idle(k) == call[k] = NoCall

(* The value a call writes, when it writes. *)
Value(c) == IF c.op \in {"put", "recreate"} THEN c.payload ELSE c.val

(* put writes whether or not the row exists, an update only when it does.  *)
Matches(c) == c.op \in {"put", "recreate"} \/ store[c.run] # "absent"

(* What the caller does when its call returned. *)
AfterAnswer(c, matched) ==
  CASE c.op = "recreate"              -> [c EXCEPT !.op = "recomplete"]
    [] c.op = "update" /\ ~matched    -> [c EXCEPT !.op = "put"]
    [] c.op = "complete" /\ ~matched  -> [c EXCEPT !.op = "recreate"]
    [] OTHER                          -> NoCall

(* The store executes the call of k.  The answer may be lost in a          *)
(* retryable error after the commit: the call is then made again.          *)
StoreAnswers(k) ==
  LET c == call[k] IN
  /\ ~Idle(k)
  /\ IF Matches(c)
     THEN /\ store' = [store EXCEPT ![c.run] = Value(c)]
          /\ inserted' = IF k \in Client /\ creating[k] = c.run /\ c.op = "put"
                         THEN [inserted EXCEPT ![c.run] = TRUE] ELSE inserted
          /\ saved' = IF k = c.run /\ pc[k] \in {"finishing", "completing"}
                      THEN [saved EXCEPT ![k] = TRUE] ELSE saved
          /\ recovered' = [recovered EXCEPT ![c.run] = k \in Proc]
          /\ call' \in {call, [call EXCEPT ![k] = AfterAnswer(c, TRUE)]}
     ELSE /\ call' = [call EXCEPT ![k] = AfterAnswer(c, FALSE)]
          /\ UNCHANGED <<store, inserted, saved, recovered>>
  /\ UNCHANGED <<recordVars, missed, creating, victims, pc, procVars>>

(* The last attempt failed, or the error is not retryable. *)
StoreGivesUp(k) ==
  /\ ~Idle(k)
  /\ call' = [call EXCEPT ![k] = NoCall]
  /\ missed' = IF k \in Proc
               THEN [missed EXCEPT ![k] = @ \cup {call[k].run}] ELSE missed
  /\ UNCHANGED <<recordVars, store, inserted, saved, recovered, creating, victims, pc, procVars>>

-----------------------------------------------------------------------------
(* Requests *)

Free(c) == Idle(c) /\ creating[c] = NoRun /\ victims[c] = {}

(* create_or_reject, the locked section.                                   *)
CreateRun(c, r) ==
  /\ proc[OwnerOf[r]] = "serving"
  /\ Free(c) /\ pc[r] = "idle"
  /\ \E strategy \in Strategy : CreateOrReject(r, strategy)
  /\ creating' = [creating EXCEPT ![c] = r]
  /\ victims' = [victims EXCEPT ![c] = Inflight(ThreadOf[r])]
  /\ pc' = [pc EXCEPT ![r] = "creating"]
  /\ UNCHANGED <<task, storeVars, procVars>>

(* _persist_status(record, interrupted) of one interrupted run after the   *)
(* other; the payload is the status the record has by then.                *)
PersistVictim(c) ==
  /\ Idle(c)
  /\ \E v \in victims[c] :
       /\ Issue(c, "update", v, "interrupted", status[v])
       /\ victims' = [victims EXCEPT ![c] = @ \ {v}]
  /\ UNCHANGED <<recordVars, store, history, creating, pc, procVars>>

(* _persist_to_store(record) of the new run. *)
PersistRecord(c) ==
  LET r == creating[c] IN
  /\ Idle(c) /\ victims[c] = {}
  /\ r # NoRun /\ pc[r] = "creating"
  /\ Issue(c, "put", r, status[r], status[r])
  /\ pc' = [pc EXCEPT ![r] = "putting"]
  /\ UNCHANGED <<recordVars, store, history, creating, victims, procVars>>

(* create_or_reject returned and start_run creates the task. *)
LaunchRun(c) ==
  LET r == creating[c] IN
  /\ Idle(c) /\ r # NoRun /\ pc[r] = "putting"
  /\ pc' = [pc EXCEPT ![r] = "scheduled"]
  /\ task' = [task EXCEPT ![r] = "scheduled"]
  /\ creating' = [creating EXCEPT ![c] = NoRun]
  /\ UNCHANGED <<status, abort, action, cancelReq, storeVars, victims, procVars>>

(* create_or_reject returned and start_run refuses the body. *)
RefuseBody(c) ==
  LET r == creating[c] IN
  /\ Idle(c) /\ r # NoRun /\ pc[r] = "putting"
  /\ pc' = [pc EXCEPT ![r] = "refused"]
  /\ creating' = [creating EXCEPT ![c] = NoRun]
  /\ UNCHANGED <<recordVars, storeVars, victims, procVars>>

(* cancel, and its _persist_status(record, interrupted). *)
CancelRun(c, r) ==
  /\ proc[OwnerOf[r]] = "serving"
  /\ Free(c)
  /\ \E a \in Action : Cancel(r, a)
  /\ Issue(c, "update", r, "interrupted", "interrupted")
  /\ UNCHANGED <<task, store, history, creating, victims, pc, procVars>>

-----------------------------------------------------------------------------
(* The worker's writes *)

(* set_status(running) *)
WorkerStart(r) ==
  /\ pc[r] = "scheduled" /\ ~cancelReq[r]
  /\ SetStatus(r, "running")
  /\ Issue(r, "update", r, "running", "running")
  /\ task' = [task EXCEPT ![r] = "running"]
  /\ pc' = [pc EXCEPT ![r] = "working"]
  /\ UNCHANGED <<abort, action, cancelReq, store, history,
                 creating, victims, procVars>>

WorkerNeverStarts(r) ==
  /\ pc[r] = "scheduled" /\ cancelReq[r]
  /\ pc' = [pc EXCEPT ![r] = "done"]
  /\ task' = [task EXCEPT ![r] = "done"]
  /\ cancelReq' = [cancelReq EXCEPT ![r] = FALSE]
  /\ UNCHANGED <<status, abort, action, storeVars, creating, victims, procVars>>

(* The final status of a run that was asked to abort. *)
CancelledStatus(r) == IF action[r] = "rollback" THEN "error" ELSE "interrupted"

(* set_status(final) once set_status(running) returned: the end of the     *)
(* stream, or an exception; an exception may also precede the start.       *)
WorkerFinish(r) ==
  /\ pc[r] \in {"scheduled", "working"} /\ ~cancelReq[r] /\ Idle(r)
  /\ \E s \in {"success", "error", "interrupted"} :
       /\ \/ s = "error"
          \/ pc[r] = "working" /\ s = IF abort[r] THEN CancelledStatus(r) ELSE "success"
       /\ SetStatus(r, s)
       /\ Issue(r, "update", r, s, s)
  /\ task' = [task EXCEPT ![r] = "running"]
  /\ pc' = [pc EXCEPT ![r] = "finishing"]
  /\ UNCHANGED <<abort, action, cancelReq, store, history,
                 creating, victims, procVars>>

(* except CancelledError: a call in flight was executed before or is       *)
(* rolled back with its session, and set_status(final) follows.            *)
WorkerCancelled(r) ==
  /\ pc[r] = "working" /\ cancelReq[r]
  /\ cancelReq' = [cancelReq EXCEPT ![r] = FALSE]
  /\ SetStatus(r, CancelledStatus(r))
  /\ Issue(r, "update", r, CancelledStatus(r), CancelledStatus(r))
  /\ pc' = [pc EXCEPT ![r] = "finishing"]
  /\ UNCHANGED <<abort, action, task, store, history,
                 creating, victims, procVars>>

(* finally: update_run_completion(status=record.status), for a worker that *)
(* has a journal.                                                          *)
WorkerComplete(r) ==
  /\ pc[r] = "finishing" /\ Idle(r)
  /\ Issue(r, "complete", r, status[r], status[r])
  /\ pc' = [pc EXCEPT ![r] = "completing"]
  /\ UNCHANGED <<recordVars, store, history, creating, victims, procVars>>

WorkerDone(r) ==
  /\ pc[r] \in {"finishing", "completing"} /\ Idle(r)
  /\ pc' = [pc EXCEPT ![r] = "done"]
  /\ task' = [task EXCEPT ![r] = "done"]
  /\ UNCHANGED <<status, abort, action, cancelReq, storeVars, creating, victims, procVars>>

-----------------------------------------------------------------------------
(* Processes *)

(* list_inflight *)
InflightRows == {r \in Run : store[r] \in Active}

(* A process starts: reconcile_orphaned_inflight_runs lists the rows.  A   *)
(* failure to list them is logged, and the process starts without it.      *)
ProcessStarts(p) ==
  /\ proc[p] = "down"
  /\ proc' = [proc EXCEPT ![p] = "recovering"]
  /\ \/ /\ orphans' = [orphans EXCEPT ![p] = InflightRows]
        /\ missed' = [missed EXCEPT ![p] = {}]
     \/ /\ missed' = [missed EXCEPT ![p] = InflightRows]
        /\ UNCHANGED orphans
  /\ UNCHANGED <<recordVars, store, call, inserted, saved, recovered, creating, victims,
                 pc, crashes>>

(* The loop over the listed rows: a run this process has a live record of  *)
(* is skipped, any other is set to error.                                  *)
RecoverRow(p) ==
  /\ Idle(p)
  /\ \E r \in orphans[p] :
       /\ orphans' = [orphans EXCEPT ![p] = @ \ {r}]
       /\ IF OwnerOf[r] = p /\ status[r] \in Active
          THEN UNCHANGED call
          ELSE Issue(p, "update", r, "error", "error")
  /\ UNCHANGED <<recordVars, store, history, creating, victims,
                 pc, proc, crashes>>

(* The lifespan context yields: requests are served. *)
ProcessServes(p) ==
  /\ proc[p] = "recovering" /\ orphans[p] = {} /\ Idle(p)
  /\ proc' = [proc EXCEPT ![p] = "serving"]
  /\ UNCHANGED <<recordVars, storeVars, creating, victims, pc, orphans, crashes>>

(* The process dies with its records, its tasks and its calls. *)
ProcessCrashes(p) ==
  LET mine == {r \in Run : OwnerOf[r] = p}
      about(c) == \/ creating[c] \in mine
                  \/ victims[c] \cap mine # {}
                  \/ ~Idle(c) /\ call[c].run \in mine
  IN
  /\ proc[p] # "down" /\ crashes < MaxCrash
  /\ crashes' = crashes + 1
  /\ proc' = [proc EXCEPT ![p] = "down"]
  /\ orphans' = [orphans EXCEPT ![p] = {}]
  /\ status' = [r \in Run |-> IF r \in mine THEN "absent" ELSE status[r]]
  /\ abort' = [r \in Run |-> abort[r] /\ r \notin mine]
  /\ action' = [r \in Run |-> IF r \in mine THEN "interrupt" ELSE action[r]]
  /\ task' = [r \in Run |-> IF r \in mine THEN "none" ELSE task[r]]
  /\ cancelReq' = [r \in Run |-> cancelReq[r] /\ r \notin mine]
  /\ pc' = [r \in Run |-> IF r \in mine /\ pc[r] # "idle" THEN "dead" ELSE pc[r]]
  /\ call' = [k \in Caller |->
                IF k = p \/ k \in mine \/ (k \in Client /\ about(k)) THEN NoCall ELSE call[k]]
  /\ creating' = [c \in Client |-> IF about(c) THEN NoRun ELSE creating[c]]
  /\ victims' = [c \in Client |-> IF about(c) THEN {} ELSE victims[c]]
  /\ UNCHANGED <<store, history>>

-----------------------------------------------------------------------------
Request(c) ==
  \/ PersistVictim(c) \/ PersistRecord(c) \/ LaunchRun(c) \/ RefuseBody(c)
  \/ \E r \in Run : CreateRun(c, r) \/ CancelRun(c, r)

Worker(r) ==
  \/ WorkerStart(r) \/ WorkerNeverStarts(r) \/ WorkerFinish(r)
  \/ WorkerCancelled(r) \/ WorkerComplete(r) \/ WorkerDone(r)

Process(p) ==
  ProcessStarts(p) \/ RecoverRow(p) \/ ProcessServes(p) \/ ProcessCrashes(p)

Next ==
  \/ \E k \in Caller : StoreAnswers(k) \/ StoreGivesUp(k)
  \/ \E c \in Client : Request(c)
  \/ \E r \in Run : Worker(r)
  \/ \E p \in Proc : Process(p)

Spec == Init /\ [][Next]_vars

-----------------------------------------------------------------------------
(* The worker of r returned, one of its final writes was applied, and no   *)
(* call about r is under way or still to be made.                          *)
Settled(r) ==
  /\ pc[r] = "done" /\ saved[r]
  /\ \A k \in Caller : ~Idle(k) => call[k].run # r
  /\ \A c \in Client : r \notin victims[c]

RowAgrees(r) ==
  \/ store[r] = status[r]
  \/ abort[r] /\ store[r] = "interrupted"

(* Of a run whose creation was persisted, the row ends up saying what the  *)
(* record says; only for a run that was asked to abort may a late write of *)
(* the canceller leave "interrupted" where the worker wrote "error", and   *)
(* only the start of a sibling process that listed the row before the      *)
(* final write and failed it after leaves the sibling's "error".  The row  *)
(* never falls back to pending or running, whatever the order the calls    *)
(* were answered in.                                                       *)
SettledRowAgrees ==
  \A r \in Run : Settled(r) /\ inserted[r] => RowAgrees(r) \/ recovered[r]

(* test_run_manager.py: a final status update recreates the row "if        *)
(* initial persistence was lost", with the final status.                   *)
RecreatedRowAgrees == \A r \in Run : Settled(r) => RowAgrees(r)

(* Process p has a call of its reconciliation about r under way.           *)
Failing(p, r) == ~Idle(p) /\ call[p].run = r

(* A row that says success keeps saying so: no write that was delayed by   *)
(* retries replaces it, and no reconciliation of the run's own process.    *)
(* What can is a sibling's start that listed the row while the run was     *)
(* still under way.                                                        *)
SuccessIsDurable ==
  [][\A r \in Run : store[r] = "success" =>
       \/ store'[r] = "success"
       \/ recovered'[r] /\ \E p \in Proc \ {OwnerOf[r]} : Failing(p, r)]_vars

(* A process serves requests only when every row its previous life left    *)
(* active has become an error, unless that write was not persisted.        *)
OrphansRecovered ==
  \A p \in Proc : proc[p] = "serving" =>
    \A r \in Run : OwnerOf[r] = p /\ pc[r] = "dead" /\ store[r] \in Active
                   => r \in missed[p]

(* A restart spares the runs of the life it starts: when a process fails a *)
(* row of a run it serves itself, that run died in an earlier life of the  *)
(* process, however long the write is retried and whatever siblings that   *)
(* share the store do meanwhile.  Of a sibling's live runs the code        *)
(* promises no such thing, see OnlyOrphansRecovered.                       *)
OwnRunsSpared ==
  \A p \in Proc, r \in Run : Failing(p, r) /\ OwnerOf[r] = p => pc[r] = "dead"

(* manager.py: reconciliation fails persisted runs "when no local task     *)
(* owns them"; a row listed at a start "cannot still have a local worker". *)
(* MCSharedStore: with a second process it can.                            *)
OnlyOrphansRecovered == \A r \in Run : recovered[r] => pc[r] \notin LivePc

-----------------------------------------------------------------------------
(* The inductive invariant behind the safety properties. *)

(* The run has no request and no worker: not yet, or no more.              *)
Gone(r) == pc[r] \in {"idle", "dead"}
(* Its creation has not returned. *)
InCreation(r) == pc[r] \in {"creating", "putting"}

(* Where a run stands fixes which statuses its record can have.            *)
RecordInv ==
  \A r \in Run :
    /\ Gone(r) => status[r] = "absent"
    /\ InCreation(r) \/ pc[r] \in {"refused", "scheduled"}
         => status[r] \in {"pending", "interrupted"}
    /\ pc[r] = "working" => status[r] \in {"running", "interrupted"}
    /\ pc[r] \in {"finishing", "completing", "done"} => status[r] \in Terminal
    /\ cancelReq[r] => status[r] = "interrupted"
    /\ abort[r] => status[r] \notin {"absent", "pending", "success"}
    /\ saved[r] => pc[r] \in {"finishing", "completing", "done", "dead"}

(* A request that creates a run holds it alone, and persists the runs it   *)
(* interrupted before it persists its own.                                 *)
CreationInv ==
  \A c \in Client :
    /\ creating[c] # NoRun => InCreation(creating[c])
    /\ victims[c] # {} => creating[c] # NoRun /\ pc[creating[c]] = "creating"
    /\ creating[c] \notin victims[c]
    /\ \A v \in victims[c] : abort[v]
    /\ \A d \in Client \ {c} : creating[c] # NoRun => creating[d] # creating[c]

(* The only call of a worker writes the status its record has; in its last *)
(* part that is the final status, which no longer changes.                 *)
WorkerCallInv ==
  \A r \in Run : ~Idle(r) =>
    /\ call[r].run = r
    /\ call[r].payload = call[r].val
    /\ \/ pc[r] = "working" /\ call[r].val = "running"
       \/ pc[r] \in {"finishing", "completing"} /\ call[r].val = status[r]

(* A request's call creates the run's row, or tells that the run was       *)
(* interrupted.  The payload of the latter may be older than the run's     *)
(* start, and then it is applied only where the row was never inserted.    *)
ClientCallInv ==
  \A c \in Client : ~Idle(c) =>
    LET r == call[c].run IN
    /\ ~Gone(r)
    /\ \/ /\ creating[c] = r /\ pc[r] = "putting"
          /\ call[c].op = "put"
          /\ call[c].payload \in {"pending", "interrupted"}
       \/ /\ creating[c] # r /\ abort[r]
          /\ call[c].op \in {"update", "put"}
          /\ call[c].val = "interrupted"
          /\ call[c].payload \notin {"absent", "success"}
          /\ \/ call[c].payload = "interrupted"
             \/ ~InCreation(r) /\ (call[c].op = "put" => ~inserted[r])

(* A starting process writes errors, to rows it found in the store, and    *)
(* serves when it is through.                                              *)
ProcessCallInv ==
  \A p \in Proc :
    /\ orphans[p] # {} \/ ~Idle(p) => proc[p] = "recovering"
    /\ \A r \in orphans[p] : pc[r] # "idle"
    /\ ~Idle(p) => /\ call[p].op \in {"update", "put"} /\ pc[call[p].run] # "idle"
                   /\ call[p].val = "error" /\ call[p].payload = "error"

(* Rows exist only of runs that were created, and are never removed.       *)
RowInv ==
  \A r \in Run :
    /\ pc[r] = "idle" => store[r] = "absent"
    /\ inserted[r] => store[r] # "absent" /\ pc[r] # "creating"
    /\ store[r] = "success" => status[r] = "success" \/ pc[r] = "dead"

(* A row a dead run left active is still to be recovered while the run's   *)
(* process starts.                                                         *)
RecoveryInv ==
  \A p \in Proc : proc[p] # "down" =>
    \A r \in Run : OwnerOf[r] = p /\ pc[r] = "dead" /\ store[r] \in Active =>
      \/ r \in orphans[p] \cup missed[p]
      \/ ~Idle(p) /\ call[p].run = r

(* What a starting process holds of runs it serves itself is of its        *)
(* previous life, and while it is not serving none of its runs is alive;   *)
(* and a row no reconciliation wrote last tells what the record does, once *)
(* a final write of the worker was applied.                                *)
OwnRunsInv ==
  /\ \A p \in Proc : \A r \in Run : OwnerOf[r] = p =>
       /\ proc[p] # "serving" => Gone(r)
       /\ r \in orphans[p] \/ Failing(p, r) => pc[r] = "dead" /\ store[r] # "success"
  /\ \A r \in Run :
       saved[r] /\ inserted[r] /\ pc[r] # "dead" => RowAgrees(r) \/ recovered[r]

IInv == /\ TypeOK /\ RecordInv /\ CreationInv
        /\ WorkerCallInv /\ ClientCallInv /\ ProcessCallInv
        /\ RowInv /\ RecoveryInv

=============================================================================
