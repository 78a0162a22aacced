------------------------- MODULE RunLifecycleProofs -------------------------
(***************************************************************************)
(* Proofs about RunLifecycle, for every set of runs, every set of threads  *)
(* and every assignment of runs to threads.  The argument: IInv holds      *)
(* initially and every step preserves it (one lemma per action, one step   *)
(* per conjunct); the safety properties of the module follow from IInv.    *)
(***************************************************************************)
EXTENDS RunLifecycle, TLAPS

(* The value sets and the tuples of variables are expanded throughout. *)
USE DEF Status, Active, Terminal, Strategy, Action, TaskState, ReqState, PcState,
        MetaState, Turn, Working, Closing, vars, recordVars, requestVars, ckptVars

(* The initial states satisfy the invariant. *)
LEMMA InitEstablishes == Init => IInv
<1>. SUFFICES ASSUME Init PROVE IInv
  OBVIOUS
<1>1. TypeOK
  BY DEF Init, RecordInit, TypeOK, RecordTypeOK
<1>2. StatusInv /\ OneUnabortedRun
  BY DEF Init, RecordInit, StatusInv, OneUnabortedRun
<1>3. CheckpointInv
  BY DEF Init, RecordInit, CheckpointInv
<1>4. QED
  BY <1>1, <1>2, <1>3 DEF IInv

(* create_or_reject aborts the inflight runs of the thread and inserts the record. *)
LEMMA CreateRunPreserves ==
  ASSUME IInv, NEW r \in Run, CreateRun(r)
  PROVE  IInv'
<1>1. TypeOK'
  BY ThreadAssumption, StrategyAssumption
  DEF IInv, TypeOK, RecordTypeOK, StatusInv,
      CreateRun, CreateOrReject, Abort, Inflight
<1>2. StatusInv'
  <2>1. PICK strategy \in Strategies : CreateOrReject(r, strategy)
    BY DEF CreateRun
  <2>2. UNCHANGED <<pc, ended>> /\ req' = [req EXCEPT ![r] = "inserted"]
    BY DEF CreateRun
  <2>3. status[r] = "absent" /\ req[r] = "idle" /\ pc[r] = "none" /\ ~ended[r]
    BY DEF IInv, StatusInv, CreateRun
  <2>4. ASSUME NEW x \in Run, x # r
        PROVE  \/ UNCHANGED <<status[x], abort[x], cancelReq[x]>>
               \/ /\ status[x] \in Active /\ status'[x] = "interrupted"
                  /\ abort'[x]
    <3>1. /\ abort'[x] = (abort[x] \/ x \in Inflight(ThreadOf[r]))
          /\ cancelReq'[x] = (\/ cancelReq[x]
                              \/ /\ x \in Inflight(ThreadOf[r])
                                 /\ task[x] \in {"scheduled", "running"})
          /\ status'[x] = IF x \in Inflight(ThreadOf[r]) THEN "interrupted" ELSE status[x]
      BY <2>1, <2>4 DEF CreateOrReject, Abort
    <3>2. abort[x] \in BOOLEAN /\ cancelReq[x] \in BOOLEAN
      BY DEF IInv, TypeOK, RecordTypeOK
    <3>3. CASE x \in Inflight(ThreadOf[r])
      <4>1. status[x] \in Active
        BY <3>3 DEF Inflight
      <4>2. QED
        BY <3>1, <3>3, <4>1
    <3>4. CASE x \notin Inflight(ThreadOf[r])
      BY <3>1, <3>2, <3>4
    <3>5. QED
      BY <3>3, <3>4
  <2>5. status'[r] = "pending" /\ ~abort'[r] /\ ~cancelReq'[r]
    BY <2>1, <2>3 DEF IInv, TypeOK, RecordTypeOK, StatusInv, CreateOrReject, Abort, Inflight
  <2>6. QED
    BY <2>2, <2>3, <2>4, <2>5 DEF IInv, TypeOK, RecordTypeOK, StatusInv
<1>3. OneUnabortedRun'
  BY ThreadAssumption
  DEF IInv, TypeOK, RecordTypeOK, StatusInv, OneUnabortedRun,
      CreateRun, CreateOrReject, Abort, Inflight
<1>4. CheckpointInv'
  BY ThreadAssumption
  DEF IInv, TypeOK, RecordTypeOK, StatusInv, CheckpointInv,
      CreateRun, CreateOrReject, Abort, Inflight
<1>5. QED
  BY <1>1, <1>2, <1>3, <1>4 DEF IInv

(* The request writes the thread metadata. *)
LEMMA UpsertThreadPreserves ==
  ASSUME IInv, NEW r \in Run, UpsertThread(r)
  PROVE  IInv'
<1>1. TypeOK'
  <2>. USE DEF IInv, TypeOK, RecordTypeOK, UpsertThread
  <2>1. meta' \in [Thread -> MetaState]
    OBVIOUS
  <2>2. metaLost' \subseteq Thread
    <3>1. ThreadOf[r] \in Thread
      BY ThreadAssumption
    <3>2. metaLost' = metaLost \/ metaLost' = metaLost \cup {ThreadOf[r]}
      OBVIOUS
    <3>3. metaLost \subseteq Thread
      OBVIOUS
    <3>4. QED
      BY ONLY <3>1, <3>2, <3>3
  <2>3. req' \in [Run -> ReqState]
    OBVIOUS
  <2>4. QED
    BY <2>1, <2>2, <2>3
<1>2. StatusInv'
  BY ThreadAssumption
  DEF IInv, TypeOK, RecordTypeOK, StatusInv,
      UpsertThread
<1>3. OneUnabortedRun'
  BY ThreadAssumption
  DEF IInv, TypeOK, RecordTypeOK, StatusInv, OneUnabortedRun,
      UpsertThread
<1>4. CheckpointInv'
  BY ThreadAssumption
  DEF IInv, TypeOK, RecordTypeOK, StatusInv, CheckpointInv,
      UpsertThread
<1>5. QED
  BY <1>1, <1>2, <1>3, <1>4 DEF IInv

(* The request creates the task. *)
LEMMA LaunchRunPreserves ==
  ASSUME IInv, NEW r \in Run, LaunchRun(r)
  PROVE  IInv'
<1>1. TypeOK'
  BY ThreadAssumption, StrategyAssumption
  DEF IInv, TypeOK, RecordTypeOK, StatusInv,
      LaunchRun
<1>2. StatusInv'
  BY ThreadAssumption
  DEF IInv, TypeOK, RecordTypeOK, StatusInv,
      LaunchRun
<1>3. OneUnabortedRun'
  BY ThreadAssumption
  DEF IInv, TypeOK, RecordTypeOK, StatusInv, OneUnabortedRun,
      LaunchRun
<1>4. CheckpointInv'
  BY ThreadAssumption
  DEF IInv, TypeOK, RecordTypeOK, StatusInv, CheckpointInv,
      LaunchRun
<1>5. QED
  BY <1>1, <1>2, <1>3, <1>4 DEF IInv

(* The request fails after the insert. *)
LEMMA RefuseBodyPreserves ==
  ASSUME IInv, NEW r \in Run, RefuseBody(r)
  PROVE  IInv'
<1>1. TypeOK'
  BY ThreadAssumption, StrategyAssumption
  DEF IInv, TypeOK, RecordTypeOK, StatusInv,
      RefuseBody
<1>2. StatusInv'
  BY ThreadAssumption
  DEF IInv, TypeOK, RecordTypeOK, StatusInv,
      RefuseBody
<1>3. OneUnabortedRun'
  BY ThreadAssumption
  DEF IInv, TypeOK, RecordTypeOK, StatusInv, OneUnabortedRun,
      RefuseBody
<1>4. CheckpointInv'
  BY ThreadAssumption
  DEF IInv, TypeOK, RecordTypeOK, StatusInv, CheckpointInv,
      RefuseBody
<1>5. QED
  BY <1>1, <1>2, <1>3, <1>4 DEF IInv

(* A cancel request. *)
LEMMA CancelRunPreserves ==
  ASSUME IInv, NEW r \in Run, CancelRun(r)
  PROVE  IInv'
<1>1. TypeOK'
  BY ThreadAssumption, StrategyAssumption
  DEF IInv, TypeOK, RecordTypeOK, StatusInv,
      CancelRun, Cancel, Abort, SetStatus
<1>2. StatusInv'
  <2>1. status[r] \in Active /\ status' = [status EXCEPT ![r] = "interrupted"]
    BY DEF CancelRun, Cancel, SetStatus
  <2>2. abort' = [x \in Run |-> abort[x] \/ x \in {r}]
    BY DEF CancelRun, Cancel, Abort
  <2>3. \A x \in Run : x # r => cancelReq'[x] = cancelReq[x]
    <3>1. PICK a \in Action : Abort({r}, a)
      BY DEF CancelRun, Cancel
    <3>2. QED
      BY <3>1 DEF IInv, TypeOK, RecordTypeOK, Abort
  <2>4. UNCHANGED <<req, pc, ended>>
    BY DEF CancelRun
  <2>5. ASSUME NEW x \in Run, x # r
        PROVE  UNCHANGED <<status[x], abort[x], cancelReq[x]>>
    BY <2>1, <2>2, <2>3, <2>5 DEF IInv, TypeOK, RecordTypeOK
  <2>6. status'[r] = "interrupted" /\ abort'[r]
    BY <2>1, <2>2 DEF IInv, TypeOK, RecordTypeOK
  <2>7. pc[r] \notin Closing /\ ~ended[r] /\ req[r] # "idle"
    BY <2>1 DEF IInv, StatusInv
  <2>8. QED
    BY <2>4, <2>5, <2>6, <2>7 DEF IInv, TypeOK, StatusInv
<1>3. OneUnabortedRun'
  BY ThreadAssumption
  DEF IInv, TypeOK, RecordTypeOK, StatusInv, OneUnabortedRun,
      CancelRun, Cancel, Abort, SetStatus
<1>4. CheckpointInv'
  BY ThreadAssumption
  DEF IInv, TypeOK, RecordTypeOK, StatusInv, CheckpointInv,
      CancelRun, Cancel, Abort, SetStatus
<1>5. QED
  BY <1>1, <1>2, <1>3, <1>4 DEF IInv

(* The first step of the worker. *)
LEMMA WorkerStartPreserves ==
  ASSUME IInv, NEW r \in Run, WorkerStart(r)
  PROVE  IInv'
<1>1. TypeOK'
  BY ThreadAssumption, StrategyAssumption
  DEF IInv, TypeOK, RecordTypeOK, StatusInv,
      WorkerStart, SetStatus
<1>2. StatusInv'
  BY ThreadAssumption
  DEF IInv, TypeOK, RecordTypeOK, StatusInv,
      WorkerStart, SetStatus
<1>3. OneUnabortedRun'
  BY ThreadAssumption
  DEF IInv, TypeOK, RecordTypeOK, StatusInv, OneUnabortedRun,
      WorkerStart, SetStatus
<1>4. CheckpointInv'
  BY ThreadAssumption
  DEF IInv, TypeOK, RecordTypeOK, StatusInv, CheckpointInv,
      WorkerStart, SetStatus
<1>5. QED
  BY <1>1, <1>2, <1>3, <1>4 DEF IInv

(* A task cancelled before its first step. *)
LEMMA WorkerNeverStartsPreserves ==
  ASSUME IInv, NEW r \in Run, WorkerNeverStarts(r)
  PROVE  IInv'
<1>1. TypeOK'
  BY ThreadAssumption, StrategyAssumption
  DEF IInv, TypeOK, RecordTypeOK, StatusInv,
      WorkerNeverStarts
<1>2. StatusInv'
  BY ThreadAssumption
  DEF IInv, TypeOK, RecordTypeOK, StatusInv,
      WorkerNeverStarts
<1>3. OneUnabortedRun'
  BY ThreadAssumption
  DEF IInv, TypeOK, RecordTypeOK, StatusInv, OneUnabortedRun,
      WorkerNeverStarts
<1>4. CheckpointInv'
  BY ThreadAssumption
  DEF IInv, TypeOK, RecordTypeOK, StatusInv, CheckpointInv,
      WorkerNeverStarts
<1>5. QED
  BY <1>1, <1>2, <1>3, <1>4 DEF IInv

(* The pre-run snapshot. *)
LEMMA WorkerSnapshotPreserves ==
  ASSUME IInv, NEW r \in Run, WorkerSnapshot(r)
  PROVE  IInv'
<1>1. TypeOK'
  <2>. USE DEF IInv, TypeOK, RecordTypeOK, WorkerSnapshot
  <2>1. snap' \in [Run -> SUBSET Turn]
    <3>1. ckpt[ThreadOf[r]] \in SUBSET Turn
      BY ThreadAssumption
    <3>2. snap' = snap \/ snap' = [snap EXCEPT ![r] = ckpt[ThreadOf[r]]]
      OBVIOUS
    <3>3. snap \in [Run -> SUBSET Turn]
      OBVIOUS
    <3>4. QED
      BY ONLY <3>1, <3>2, <3>3
  <2>2. capture' \in [Run -> {"none", "ok", "failed"}]
    OBVIOUS
  <2>3. pc' \in [Run -> PcState]
    OBVIOUS
  <2>4. QED
    BY <2>1, <2>2, <2>3
<1>2. StatusInv'
  BY ThreadAssumption
  DEF IInv, TypeOK, RecordTypeOK, StatusInv,
      WorkerSnapshot
<1>3. OneUnabortedRun'
  BY ThreadAssumption
  DEF IInv, TypeOK, RecordTypeOK, StatusInv, OneUnabortedRun,
      WorkerSnapshot
<1>4. CheckpointInv'
  BY ThreadAssumption
  DEF IInv, TypeOK, RecordTypeOK, StatusInv, CheckpointInv,
      WorkerSnapshot
<1>5. QED
  BY <1>1, <1>2, <1>3, <1>4 DEF IInv

(* The graph loads its state. *)
LEMMA WorkerLoadPreserves ==
  ASSUME IInv, NEW r \in Run, WorkerLoad(r)
  PROVE  IInv'
<1>1. TypeOK'
  BY ThreadAssumption, StrategyAssumption
  DEF IInv, TypeOK, RecordTypeOK, StatusInv,
      WorkerLoad
<1>2. StatusInv'
  BY ThreadAssumption
  DEF IInv, TypeOK, RecordTypeOK, StatusInv,
      WorkerLoad
<1>3. OneUnabortedRun'
  BY ThreadAssumption
  DEF IInv, TypeOK, RecordTypeOK, StatusInv, OneUnabortedRun,
      WorkerLoad
<1>4. CheckpointInv'
  BY ThreadAssumption
  DEF IInv, TypeOK, RecordTypeOK, StatusInv, CheckpointInv,
      WorkerLoad
<1>5. QED
  BY <1>1, <1>2, <1>3, <1>4 DEF IInv

(* One superstep of the graph. *)
LEMMA WorkerChunkPreserves ==
  ASSUME IInv, NEW r \in Run, WorkerChunk(r)
  PROVE  IInv'
<1>1. TypeOK'
  BY ThreadAssumption, StrategyAssumption
  DEF IInv, TypeOK, RecordTypeOK, StatusInv,
      WorkerChunk, FinalStatus, SetStatus, WriteCheckpoint
<1>2. StatusInv'
  BY ThreadAssumption
  DEF IInv, TypeOK, RecordTypeOK, StatusInv,
      WorkerChunk, FinalStatus, SetStatus, WriteCheckpoint
<1>3. OneUnabortedRun'
  BY ThreadAssumption
  DEF IInv, TypeOK, RecordTypeOK, StatusInv, OneUnabortedRun,
      WorkerChunk, FinalStatus, SetStatus, WriteCheckpoint
<1>4. CheckpointInv'
  BY ThreadAssumption
  DEF IInv, TypeOK, RecordTypeOK, StatusInv, CheckpointInv,
      WorkerChunk, FinalStatus, SetStatus, WriteCheckpoint
<1>5. QED
  BY <1>1, <1>2, <1>3, <1>4 DEF IInv

(* The stream is exhausted. *)
LEMMA WorkerStreamEndsPreserves ==
  ASSUME IInv, NEW r \in Run, WorkerStreamEnds(r)
  PROVE  IInv'
<1>1. TypeOK'
  <2>. USE DEF IInv, TypeOK, RecordTypeOK
  <2>1. status' \in [Run -> Status]
    BY DEF WorkerStreamEnds, FinalStatus, SetStatus
  <2>2. pc' \in [Run -> PcState]
    BY DEF WorkerStreamEnds, FinalStatus, SetStatus
  <2>3. UNCHANGED <<abort, action, task, cancelReq, requestVars, ended, ckptVars>>
    BY DEF WorkerStreamEnds
  <2>4. QED
    BY <2>1, <2>2, <2>3
<1>2. StatusInv'
  <2>1. pc[r] = "streaming" /\ ~cancelReq[r] /\ UNCHANGED <<req, abort, ended, cancelReq>>
    BY DEF WorkerStreamEnds
  <2>2. /\ pc'[r] \in {"rollback", "closing"} /\ status'[r] \in Terminal
        /\ abort[r] => status'[r] # "success"
    BY DEF IInv, TypeOK, RecordTypeOK, WorkerStreamEnds, FinalStatus, SetStatus
  <2>3. ASSUME NEW x \in Run, x # r
        PROVE  UNCHANGED <<status[x], pc[x]>>
    BY <2>3 DEF IInv, TypeOK, RecordTypeOK, WorkerStreamEnds, FinalStatus, SetStatus
  <2>4. req[r] \notin {"idle", "inserted", "upserted"} /\ ~ended[r]
    BY <2>1 DEF IInv, TypeOK, StatusInv
  <2>5. StatusInv
    BY DEF IInv
  <2>6. QED
    BY ONLY <2>1, <2>2, <2>3, <2>4, <2>5 DEF StatusInv
<1>3. OneUnabortedRun'
  BY ThreadAssumption
  DEF IInv, TypeOK, RecordTypeOK, StatusInv, OneUnabortedRun,
      WorkerStreamEnds, FinalStatus, SetStatus
<1>4. CheckpointInv'
  BY ThreadAssumption
  DEF IInv, TypeOK, RecordTypeOK, StatusInv, CheckpointInv,
      WorkerStreamEnds, FinalStatus, SetStatus
<1>5. QED
  BY <1>1, <1>2, <1>3, <1>4 DEF IInv

(* CancelledError at an await of the worker. *)
LEMMA WorkerCancelledPreserves ==
  ASSUME IInv, NEW r \in Run, WorkerCancelled(r)
  PROVE  IInv'
<1>1. TypeOK'
  <2>. USE DEF IInv, TypeOK, RecordTypeOK
  <2>1. status' \in [Run -> Status]
    BY DEF WorkerCancelled, SetStatus
  <2>2. pc' \in [Run -> PcState]
    BY DEF WorkerCancelled, SetStatus
  <2>3. cancelReq' \in [Run -> BOOLEAN]
    BY DEF WorkerCancelled
  <2>4. UNCHANGED <<abort, action, task, requestVars, ended, ckptVars>>
    BY DEF WorkerCancelled
  <2>5. QED
    BY <2>1, <2>2, <2>3, <2>4
<1>2. StatusInv'
  <2>1. pc[r] \in Working /\ UNCHANGED <<req, abort, ended>>
    BY DEF WorkerCancelled
  <2>2. /\ pc'[r] \in {"rollback", "closing"} /\ status'[r] \in {"error", "interrupted"}
        /\ ~cancelReq'[r]
    BY DEF IInv, TypeOK, RecordTypeOK, WorkerCancelled, SetStatus
  <2>3. ASSUME NEW x \in Run, x # r
        PROVE  UNCHANGED <<status[x], pc[x], cancelReq[x]>>
    BY <2>3 DEF IInv, TypeOK, RecordTypeOK, WorkerCancelled, SetStatus
  <2>4. req[r] \notin {"idle", "inserted", "upserted"} /\ ~ended[r]
    BY <2>1 DEF IInv, TypeOK, StatusInv
  <2>5. StatusInv
    BY DEF IInv
  <2>6. QED
    BY ONLY <2>1, <2>2, <2>3, <2>4, <2>5 DEF StatusInv
<1>3. OneUnabortedRun'
  BY ThreadAssumption
  DEF IInv, TypeOK, RecordTypeOK, StatusInv, OneUnabortedRun,
      WorkerCancelled, SetStatus
<1>4. CheckpointInv'
  BY ThreadAssumption
  DEF IInv, TypeOK, RecordTypeOK, StatusInv, CheckpointInv,
      WorkerCancelled, SetStatus
<1>5. QED
  BY <1>1, <1>2, <1>3, <1>4 DEF IInv

(* An exception in the worker. *)
LEMMA WorkerFailsPreserves ==
  ASSUME IInv, NEW r \in Run, WorkerFails(r)
  PROVE  IInv'
<1>1. TypeOK'
  BY ThreadAssumption, StrategyAssumption
  DEF IInv, TypeOK, RecordTypeOK, StatusInv,
      WorkerFails, SetStatus
<1>2. StatusInv'
  BY ThreadAssumption
  DEF IInv, TypeOK, RecordTypeOK, StatusInv,
      WorkerFails, SetStatus
<1>3. OneUnabortedRun'
  BY ThreadAssumption
  DEF IInv, TypeOK, RecordTypeOK, StatusInv, OneUnabortedRun,
      WorkerFails, SetStatus
<1>4. CheckpointInv'
  BY ThreadAssumption
  DEF IInv, TypeOK, RecordTypeOK, StatusInv, CheckpointInv,
      WorkerFails, SetStatus
<1>5. QED
  BY <1>1, <1>2, <1>3, <1>4 DEF IInv

(* The rollback of the checkpoint. *)
LEMMA WorkerRollbackPreserves ==
  ASSUME IInv, NEW r \in Run, WorkerRollback(r)
  PROVE  IInv'
<1>1. TypeOK'
  <2>1. ckpt' \in [Thread -> SUBSET Turn]
    BY ThreadAssumption
    DEF IInv, TypeOK, WorkerRollback, RollbackTarget, WriteCheckpoint
  <2>2. touched' \in [Run -> BOOLEAN]
    <3>1. CASE UNCHANGED touched
      BY <3>1 DEF IInv, TypeOK
    <3>2. CASE WriteCheckpoint(r, RollbackTarget(r))
      BY <3>2 DEF IInv, TypeOK, WriteCheckpoint
    <3>3. QED
      BY <3>1, <3>2 DEF WorkerRollback
  <2>3. restored' \in [Run -> BOOLEAN]
    <3>1. restored' = restored \/ restored' = [restored EXCEPT ![r] = TRUE]
      BY DEF WorkerRollback
    <3>2. restored \in [Run -> BOOLEAN]
      BY DEF IInv, TypeOK
    <3>3. QED
      BY <3>1, <3>2
  <2>4. pc' \in [Run -> PcState]
    BY DEF IInv, TypeOK, PcState, WorkerRollback
  <2>5. QED
    BY <2>1, <2>2, <2>3, <2>4 DEF IInv, TypeOK, RecordTypeOK, WorkerRollback
<1>2. StatusInv'
  BY ThreadAssumption
  DEF IInv, TypeOK, RecordTypeOK, StatusInv,
      WorkerRollback, RollbackTarget, WriteCheckpoint
<1>3. OneUnabortedRun'
  BY ThreadAssumption
  DEF IInv, TypeOK, RecordTypeOK, StatusInv, OneUnabortedRun,
      WorkerRollback, RollbackTarget, WriteCheckpoint
<1>4. CheckpointInv'
  <2>1. pc[r] = "rollback" /\ pc' = [pc EXCEPT ![r] = "closing"] /\ UNCHANGED <<snap, capture, base>>
    BY DEF WorkerRollback
  <2>2. CASE UNCHANGED <<ckpt, touched, restored>>
    BY <2>1, <2>2 DEF IInv, TypeOK, CheckpointInv
  <2>3. CASE /\ capture[r] # "failed"
             /\ WriteCheckpoint(r, snap[r])
             /\ restored' \in {restored, [restored EXCEPT ![r] = TRUE]}
    <3>1. ckpt'[ThreadOf[r]] = snap[r] /\ touched'[r] = touched[r]
      BY <2>3, ThreadAssumption DEF IInv, TypeOK, WriteCheckpoint
    <3>2. ASSUME NEW x \in Run, x # r, ~touched'[x], pc[x] \notin {"none", "scheduled"}
          PROVE  ckpt'[ThreadOf[x]] = ckpt[ThreadOf[x]] /\ ~touched[x]
      BY <2>3, <3>2, ThreadAssumption DEF IInv, TypeOK, WriteCheckpoint
    <3>3. ASSUME NEW x \in Run, x # r, pc[x] \in {"none", "scheduled"}, ~touched[x]
          PROVE  ~touched'[x]
      BY <2>3, <3>3 DEF IInv, TypeOK, WriteCheckpoint
    <3>4. QED
      BY <2>1, <2>3, <3>1, <3>2, <3>3 DEF IInv, TypeOK, CheckpointInv
  <2>4. QED
    BY <2>2, <2>3 DEF WorkerRollback, RollbackTarget
<1>5. QED
  BY <1>1, <1>2, <1>3, <1>4 DEF IInv

(* The finally clause writes the thread metadata. *)
LEMMA WorkerCloseThreadPreserves ==
  ASSUME IInv, NEW r \in Run, WorkerCloseThread(r)
  PROVE  IInv'
<1>1. TypeOK'
  <2>. USE DEF IInv, TypeOK, RecordTypeOK, WorkerCloseThread
  <2>1. ClosingMeta(r) \in MetaState
    BY DEF StatusInv, ClosingMeta
  <2>2. meta' \in [Thread -> MetaState]
    BY <2>1
  <2>3. metaLost' \subseteq Thread
    <3>1. ThreadOf[r] \in Thread
      BY ThreadAssumption
    <3>2. metaLost' = metaLost \/ metaLost' = metaLost \cup {ThreadOf[r]}
      OBVIOUS
    <3>3. metaLost \subseteq Thread
      OBVIOUS
    <3>4. QED
      BY ONLY <3>1, <3>2, <3>3
  <2>4. pc' \in [Run -> PcState]
    OBVIOUS
  <2>5. QED
    BY <2>2, <2>3, <2>4
<1>2. StatusInv'
  BY ThreadAssumption
  DEF IInv, TypeOK, RecordTypeOK, StatusInv,
      WorkerCloseThread, ClosingMeta
<1>3. OneUnabortedRun'
  BY ThreadAssumption
  DEF IInv, TypeOK, RecordTypeOK, StatusInv, OneUnabortedRun,
      WorkerCloseThread, ClosingMeta
<1>4. CheckpointInv'
  BY ThreadAssumption
  DEF IInv, TypeOK, RecordTypeOK, StatusInv, CheckpointInv,
      WorkerCloseThread, ClosingMeta
<1>5. QED
  BY <1>1, <1>2, <1>3, <1>4 DEF IInv

(* The finally clause ends the stream. *)
LEMMA WorkerEndPreserves ==
  ASSUME IInv, NEW r \in Run, WorkerEnd(r)
  PROVE  IInv'
<1>1. TypeOK'
  BY ThreadAssumption, StrategyAssumption
  DEF IInv, TypeOK, RecordTypeOK, StatusInv,
      WorkerEnd
<1>2. StatusInv'
  BY ThreadAssumption
  DEF IInv, TypeOK, RecordTypeOK, StatusInv,
      WorkerEnd
<1>3. OneUnabortedRun'
  BY ThreadAssumption
  DEF IInv, TypeOK, RecordTypeOK, StatusInv, OneUnabortedRun,
      WorkerEnd
<1>4. CheckpointInv'
  BY ThreadAssumption
  DEF IInv, TypeOK, RecordTypeOK, StatusInv, CheckpointInv,
      WorkerEnd
<1>5. QED
  BY <1>1, <1>2, <1>3, <1>4 DEF IInv

(* Every step of the specification preserves the invariant. *)
LEMMA NextPreserves == IInv /\ [Next]_vars => IInv'
<1>. SUFFICES ASSUME IInv, [Next]_vars PROVE IInv'
  OBVIOUS
<1>1. CASE UNCHANGED vars
  BY <1>1 DEF IInv, TypeOK, RecordTypeOK, StatusInv, OneUnabortedRun, CheckpointInv
<1>2. ASSUME NEW r \in Run, Request(r) PROVE IInv'
  BY <1>2, UpsertThreadPreserves, LaunchRunPreserves, RefuseBodyPreserves DEF Request
<1>3. ASSUME NEW r \in Run, Worker(r) PROVE IInv'
  BY <1>3, WorkerStartPreserves, WorkerNeverStartsPreserves, WorkerSnapshotPreserves,
     WorkerLoadPreserves, WorkerChunkPreserves, WorkerStreamEndsPreserves,
     WorkerCancelledPreserves, WorkerFailsPreserves, WorkerRollbackPreserves,
     WorkerCloseThreadPreserves, WorkerEndPreserves DEF Worker
<1>4. QED
  BY <1>1, <1>2, <1>3, CreateRunPreserves, CancelRunPreserves DEF Next

(* The inductive invariant holds in every reachable state. *)
THEOREM Invariance == Spec => []IInv
<1>1. QED
  BY InitEstablishes, NextPreserves, PTL DEF Spec

(* Every variable keeps its type, whatever the requests and cancels do. *)
THEOREM TypeCorrect == Spec => []TypeOK
<1>1. IInv => TypeOK
  BY DEF IInv
<1>2. QED
  BY <1>1, Invariance, PTL

(* A run asked to abort never reports success (the abort_event check that  *)
(* precedes the final status in run_agent).                                *)
THEOREM AbortSafety == Spec => []AbortedNeverSucceeds
<1>1. IInv => AbortedNeverSucceeds
  BY DEF IInv, StatusInv, AbortedNeverSucceeds
<1>2. QED
  BY <1>1, Invariance, PTL

(* A thread has at most one inflight run that was not asked to abort, for  *)
(* any number of runs and threads (create_or_reject).                      *)
THEOREM ThreadExclusion == Spec => []OneUnabortedRun
<1>1. IInv => OneUnabortedRun
  BY DEF IInv
<1>2. QED
  BY <1>1, Invariance, PTL

(* A record says running only while its worker is alive, and a stream that *)
(* was ended belongs to a record with a terminal status.                   *)
THEOREM StatusMatchesWorker == Spec => [](RunningHasWorker /\ EndedIsTerminal)
<1>1. IInv => RunningHasWorker /\ EndedIsTerminal
  BY DEF IInv, StatusInv, RunningHasWorker, EndedIsTerminal
<1>2. QED
  BY <1>1, Invariance, PTL

(* A captured rollback on an undisturbed thread restores the checkpoint    *)
(* the run began with (_rollback_to_pre_run_checkpoint).                   *)
THEOREM RollbackCorrect == Spec => []CapturedRollbackRestores
<1>1. IInv => CapturedRollbackRestores
  BY DEF IInv, CheckpointInv, CapturedRollbackRestores
<1>2. QED
  BY <1>1, Invariance, PTL

(* Nothing changes the status of a run whose worker is in its final part.  *)
LEMMA FinalStep ==
  ASSUME IInv, [Next]_vars
  PROVE  [\A r \in Run : pc[r] \in Closing => status'[r] = status[r]]_vars
<1>. SUFFICES ASSUME NEW x \in Run, pc[x] \in Closing, Next
              PROVE  status'[x] = status[x]
  OBVIOUS
<1>1. status[x] \in Terminal
  BY DEF IInv, StatusInv
<1>2. ASSUME NEW r \in Run, CreateRun(r) PROVE status'[x] = status[x]
  BY <1>1, <1>2 DEF IInv, TypeOK, RecordTypeOK, CreateRun, CreateOrReject, Inflight
<1>3. ASSUME NEW r \in Run, CancelRun(r) PROVE status'[x] = status[x]
  BY <1>1, <1>3 DEF IInv, TypeOK, RecordTypeOK, CancelRun, Cancel, SetStatus
<1>4. ASSUME NEW r \in Run, Request(r) PROVE status'[x] = status[x]
  BY <1>4 DEF Request, UpsertThread, LaunchRun, RefuseBody
<1>5. ASSUME NEW r \in Run, Worker(r) PROVE status'[x] = status[x]
  <2>1. CASE WorkerStart(r) \/ WorkerFails(r) \/ WorkerCancelled(r)
    BY <2>1 DEF IInv, TypeOK, RecordTypeOK, WorkerStart, WorkerFails, WorkerCancelled, SetStatus
  <2>2. CASE WorkerChunk(r) \/ WorkerStreamEnds(r)
    BY <2>2 DEF IInv, TypeOK, RecordTypeOK, WorkerChunk, WorkerStreamEnds, FinalStatus, SetStatus
  <2>3. CASE \/ WorkerNeverStarts(r) \/ WorkerSnapshot(r) \/ WorkerLoad(r)
             \/ WorkerRollback(r) \/ WorkerCloseThread(r) \/ WorkerEnd(r)
    BY <2>3 DEF WorkerNeverStarts, WorkerSnapshot, WorkerLoad, WorkerRollback,
                WorkerCloseThread, WorkerEnd
  <2>4. QED
    BY <1>5, <2>1, <2>2, <2>3 DEF Worker
<1>6. QED
  BY <1>2, <1>3, <1>4, <1>5 DEF Next

(* What the finally clause writes everywhere is one and the same outcome.  *)
THEOREM FinalOutcome == Spec => FinalIsFinal
<1>1. QED
  BY Invariance, FinalStep, PTL DEF Spec, FinalIsFinal

(* A witness of MetaInv survives every step that neither writes the        *)
(* metadata nor closes the witness.                                        *)
LEMMA UnclosedKept ==
  ASSUME MetaInv, meta' = meta, metaLost \subseteq metaLost',
         \A r \in Run : Unclosed(r) => Unclosed(r)'
  PROVE  MetaInv'
  BY DEF MetaInv

(* A thread never keeps showing "running" without a run that will replace  *)
(* it: the requests write it before their worker exists, the workers that  *)
(* close overwrite it with a final status.                                 *)
LEMMA MetaStep == IInv /\ MetaInv /\ [Next]_vars => MetaInv'
<1>. SUFFICES ASSUME IInv, MetaInv, [Next]_vars PROVE MetaInv'
  OBVIOUS
<1>1. CASE UNCHANGED vars
  BY <1>1 DEF MetaInv, Unclosed
<1>2. ASSUME NEW r \in Run, UpsertThread(r) PROVE MetaInv'
  <2>1. /\ \A x \in Run : Unclosed(x) => Unclosed(x)'
        /\ Unclosed(r)'
    BY <1>2 DEF UpsertThread, Unclosed, IInv, TypeOK
  <2>2. CASE metaLost' = metaLost \cup {ThreadOf[r]} /\ meta' = meta
    BY <2>1, <2>2, UnclosedKept
  <2>3. CASE /\ meta' = [meta EXCEPT ![ThreadOf[r]] = IF @ = "absent" THEN "idle" ELSE "running"]
             /\ metaLost' = metaLost
    <3>1. ASSUME NEW t \in Thread, meta'[t] = "running", t \notin metaLost'
          PROVE  \E x \in Run : ThreadOf[x] = t /\ Unclosed(x)'
      <4>1. CASE t = ThreadOf[r]
        BY <2>1, <4>1
      <4>2. CASE t # ThreadOf[r]
        <5>1. meta[t] = "running" /\ t \notin metaLost
          BY <2>3, <3>1, <4>2
        <5>2. QED
          BY <2>1, <5>1 DEF MetaInv
      <4>3. QED
        BY <4>1, <4>2
    <3>2. QED
      BY <3>1 DEF MetaInv
  <2>4. QED
    BY <1>2, <2>2, <2>3 DEF UpsertThread
<1>3. ASSUME NEW r \in Run, WorkerCloseThread(r) PROVE MetaInv'
  <2>1. \A x \in Run : x # r /\ Unclosed(x) => Unclosed(x)'
    BY <1>3 DEF WorkerCloseThread, Unclosed, IInv, TypeOK
  <2>2. ASSUME NEW t \in Thread, meta'[t] = "running", t \notin metaLost'
        PROVE  \E x \in Run : ThreadOf[x] = t /\ Unclosed(x)'
    <3>1. t # ThreadOf[r] /\ meta[t] = "running" /\ t \notin metaLost
      <4>1. ClosingMeta(r) # "running"
        BY <1>3 DEF WorkerCloseThread, ClosingMeta, IInv, StatusInv
      <4>2. QED
        BY <1>3, <2>2, <4>1, ThreadAssumption DEF WorkerCloseThread, IInv, TypeOK
    <3>2. QED
      BY <2>1, <3>1 DEF MetaInv
  <2>3. QED
    BY <2>2 DEF MetaInv
<1>4. ASSUME NEW r \in Run, LaunchRun(r) \/ RefuseBody(r) PROVE MetaInv'
  <2>1. req[r] = "upserted" /\ pc[r] = "none" /\ ~ended[r]
    BY <1>4 DEF LaunchRun, RefuseBody, IInv, StatusInv
  <2>2. \A x \in Run : Unclosed(x) => Unclosed(x)'
    BY <1>4, <2>1 DEF LaunchRun, RefuseBody, Unclosed, IInv, TypeOK
  <2>3. QED
    BY <1>4, <2>2, UnclosedKept DEF LaunchRun, RefuseBody
<1>5. ASSUME NEW r \in Run, CreateRun(r) \/ CancelRun(r) PROVE MetaInv'
  <2>1. \A x \in Run : Unclosed(x) => Unclosed(x)'
    BY <1>5 DEF CreateRun, CancelRun, Unclosed, IInv, TypeOK
  <2>2. QED
    BY <1>5, <2>1, UnclosedKept DEF CreateRun, CancelRun
<1>6. ASSUME NEW r \in Run, Worker(r), ~WorkerCloseThread(r) PROVE MetaInv'
  <2>1. meta' = meta /\ metaLost' = metaLost /\ req' = req
    BY <1>6 DEF Worker, WorkerStart, WorkerNeverStarts, WorkerSnapshot, WorkerLoad,
       WorkerChunk, WorkerStreamEnds, WorkerCancelled, WorkerFails, WorkerRollback, WorkerEnd
  <2>2. CASE WorkerEnd(r)
    <3>1. \A x \in Run : Unclosed(x) => Unclosed(x)'
      BY <2>1, <2>2 DEF WorkerEnd, Unclosed, IInv, TypeOK, StatusInv
    <3>2. QED
      BY <2>1, <3>1, UnclosedKept
  <2>3. CASE ~WorkerEnd(r)
    <3>1. ended' = ended
      BY <1>6, <2>3 DEF Worker, WorkerStart, WorkerNeverStarts, WorkerSnapshot, WorkerLoad,
         WorkerChunk, WorkerStreamEnds, WorkerCancelled, WorkerFails, WorkerRollback
    <3>2. \A x \in Run : pc'[x] = "ending" => pc[x] = "ending"
      BY <1>6, <2>3 DEF IInv, TypeOK, Worker, WorkerStart, WorkerNeverStarts, WorkerSnapshot,
         WorkerLoad, WorkerChunk, WorkerStreamEnds, WorkerCancelled, WorkerFails,
         WorkerRollback, FinalStatus
    <3>3. QED
      BY <2>1, <3>1, <3>2, UnclosedKept DEF Unclosed
  <2>4. QED
    BY <2>2, <2>3
<1>7. QED
  BY <1>1, <1>2, <1>3, <1>4, <1>5, <1>6 DEF Next, Request

(* When every request was served and every worker closed, no thread keeps  *)
(* showing "running" (upsert_thread against run_agent's finally clause).   *)
THEOREM MetadataSettles == Spec => []MetaSettles
<1>1. Init => MetaInv
  BY DEF Init, MetaInv
<1>2. MetaInv => MetaSettles
  BY DEF MetaInv, MetaSettles, Unclosed, Served
<1>3. QED
  BY <1>1, <1>2, Invariance, MetaStep, PTL DEF Spec

=============================================================================
