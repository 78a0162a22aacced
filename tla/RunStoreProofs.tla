--------------------------- MODULE RunStoreProofs ---------------------------
(***************************************************************************)
(* What holds of the rows of the runs table for every number of runs,      *)
(* requests, processes and crashes.                                        *)
(*                                                                         *)
(* IInv says which calls can be in flight: it fixes for each caller what   *)
(* its call may still write, given where the run stands.  OwnRunsInv adds  *)
(* what a process knows of the runs it serves itself, which is what keeps  *)
(* a restart from failing them.  Both are inductive with any number of     *)
(* processes that start and die beside each other on one store, so every   *)
(* theorem here covers the compose file's several workers.                 *)
(***************************************************************************)
EXTENDS RunStore, TLAPS

USE DEF Status, Active, Terminal, Strategy, Action, TaskState, PcState, LivePc, ProcState,
        Caller, recordVars, history, storeVars, procVars, vars, Gone, InCreation

(* What is left of a call after its answer: nothing, or the next operation *)
(* of the same call.                                                       *)
LEMMA AfterAnswerKeeps ==
  ASSUME NEW c \in StoreCall, NEW m \in BOOLEAN
  PROVE  LET d == AfterAnswer(c, m) IN
         \/ d = NoCall
         \/ /\ d \in StoreCall
            /\ d.run = c.run /\ d.val = c.val /\ d.payload = c.payload
            /\ c.op = "update" => d.op = "put" /\ ~m
            /\ c.op # "put"
  BY DEF AfterAnswer, StoreCall, NoCall

(* A creation persists one of the runs it interrupted. *)
LEMMA PersistVictimPreserves ==
  ASSUME IInv, NEW c \in Client, PersistVictim(c)
  PROVE  IInv'
<1>. USE CallerAssumption, OwnerAssumption
    DEF IInv, TypeOK, RecordTypeOK, StoreCall, NoCall, Idle, Issue, PersistVictim
<1>1. TypeOK'
  BY ThreadAssumption
<1>2. RecordInv'
  BY DEF RecordInv
<1>3. CreationInv'
  BY DEF CreationInv, RecordInv
<1>4. WorkerCallInv'
  BY DEF WorkerCallInv, RecordInv
<1>5. ClientCallInv'
  BY DEF ClientCallInv, CreationInv, RecordInv
<1>6. ProcessCallInv'
  BY DEF ProcessCallInv, RowInv
<1>7. RowInv'
  BY DEF RowInv, RecordInv
<1>8. RecoveryInv'
  BY DEF RecoveryInv, ProcessCallInv, RecordInv
<1>9. QED
  BY <1>1, <1>2, <1>3, <1>4, <1>5, <1>6, <1>7, <1>8

(* A creation persists the new record. *)
LEMMA PersistRecordPreserves ==
  ASSUME IInv, NEW c \in Client, PersistRecord(c)
  PROVE  IInv'
<1>. USE CallerAssumption, OwnerAssumption
    DEF IInv, TypeOK, RecordTypeOK, StoreCall, NoCall, Idle, Issue, PersistRecord
<1>1. TypeOK'
  BY ThreadAssumption
<1>2. RecordInv'
  BY DEF RecordInv
<1>3. CreationInv'
  BY DEF CreationInv, RecordInv
<1>4. WorkerCallInv'
  BY DEF WorkerCallInv, RecordInv
<1>5. ClientCallInv'
  BY DEF ClientCallInv, CreationInv, RecordInv
<1>6. ProcessCallInv'
  BY DEF ProcessCallInv, RowInv
<1>7. RowInv'
  BY DEF RowInv, RecordInv
<1>8. RecoveryInv'
  BY DEF RecoveryInv, ProcessCallInv, RecordInv
<1>9. QED
  BY <1>1, <1>2, <1>3, <1>4, <1>5, <1>6, <1>7, <1>8

(* The request creates the task. *)
LEMMA LaunchRunPreserves ==
  ASSUME IInv, NEW c \in Client, LaunchRun(c)
  PROVE  IInv'
<1>. USE CallerAssumption, OwnerAssumption
    DEF IInv, TypeOK, RecordTypeOK, StoreCall, NoCall, Idle, LaunchRun
<1>1. TypeOK'
  BY ThreadAssumption
<1>2. RecordInv'
  BY DEF RecordInv
<1>3. CreationInv'
  BY DEF CreationInv, RecordInv
<1>4. WorkerCallInv'
  BY DEF WorkerCallInv, RecordInv
<1>5. ClientCallInv'
  BY DEF ClientCallInv, CreationInv, RecordInv
<1>6. ProcessCallInv'
  BY DEF ProcessCallInv, RowInv
<1>7. RowInv'
  BY DEF RowInv, RecordInv
<1>8. RecoveryInv'
  BY DEF RecoveryInv, ProcessCallInv, RecordInv
<1>9. QED
  BY <1>1, <1>2, <1>3, <1>4, <1>5, <1>6, <1>7, <1>8

(* The request fails after the insert. *)
LEMMA RefuseBodyPreserves ==
  ASSUME IInv, NEW c \in Client, RefuseBody(c)
  PROVE  IInv'
<1>. USE CallerAssumption, OwnerAssumption
    DEF IInv, TypeOK, RecordTypeOK, StoreCall, NoCall, Idle, RefuseBody
<1>1. TypeOK'
  BY ThreadAssumption
<1>2. RecordInv'
  BY DEF RecordInv
<1>3. CreationInv'
  BY DEF CreationInv, RecordInv
<1>4. WorkerCallInv'
  BY DEF WorkerCallInv, RecordInv
<1>5. ClientCallInv'
  BY DEF ClientCallInv, CreationInv, RecordInv
<1>6. ProcessCallInv'
  BY DEF ProcessCallInv, RowInv
<1>7. RowInv'
  BY DEF RowInv, RecordInv
<1>8. RecoveryInv'
  BY DEF RecoveryInv, ProcessCallInv, RecordInv
<1>9. QED
  BY <1>1, <1>2, <1>3, <1>4, <1>5, <1>6, <1>7, <1>8

(* create_or_reject, the locked section. *)
LEMMA CreateRunPreserves ==
  ASSUME IInv, NEW c \in Client, NEW r \in Run, CreateRun(c, r)
  PROVE  IInv'
<1>. USE CallerAssumption DEF IInv, Idle
<1>a. /\ status[r] = "absent" /\ pc[r] = "idle"
      /\ creating[c] = NoRun /\ Idle(c) /\ victims[c] = {}
      /\ creating' = [creating EXCEPT ![c] = r]
      /\ victims' = [victims EXCEPT ![c] = Inflight(ThreadOf[r])]
      /\ pc' = [pc EXCEPT ![r] = "creating"]
      /\ UNCHANGED <<task, store, call, inserted, saved, recovered, missed, proc, orphans, crashes>>
  BY DEF CreateRun, CreateOrReject, Free
<1>b. /\ Inflight(ThreadOf[r]) \subseteq Run \ {r}
      /\ \A x \in Inflight(ThreadOf[r]) : status[x] \in Active
  BY <1>a DEF Inflight
<1>c. /\ status' = [x \in Run |-> IF x = r THEN "pending"
                               ELSE IF x \in Inflight(ThreadOf[r]) THEN "interrupted" ELSE status[x]]
      /\ abort' = [x \in Run |-> abort[x] \/ x \in Inflight(ThreadOf[r])]
      /\ \A x \in Run : cancelReq'[x] => cancelReq[x] \/ x \in Inflight(ThreadOf[r])
  BY <1>a, <1>b DEF CreateRun, CreateOrReject, Abort
<1>d. TypeOK
  OBVIOUS
<1>1. TypeOK'
  <2>1. action' \in [Run -> Action] /\ cancelReq' \in [Run -> BOOLEAN]
    BY <1>d DEF CreateRun, CreateOrReject, Abort, TypeOK, RecordTypeOK
  <2>2. victims' \in [Client -> SUBSET Run]
    BY <1>a, <1>b, <1>d DEF TypeOK
  <2>3. abort' \in [Run -> BOOLEAN] /\ status' \in [Run -> Status]
    BY <1>c, <1>d DEF TypeOK, RecordTypeOK
  <2>4. QED
    BY <1>a, <1>d, <2>1, <2>2, <2>3 DEF TypeOK, RecordTypeOK
<1>2. RecordInv'
  BY <1>a, <1>b, <1>c, <1>d DEF TypeOK, RecordTypeOK, RecordInv
<1>3. CreationInv'
  <2>1. \A d \in Client \ {c} : creating'[d] = creating[d] /\ victims'[d] = victims[d]
    BY <1>a, <1>d DEF TypeOK
  <2>2. \A x \in Run : abort[x] => abort'[x]
    BY <1>c
  <2>3. \A d \in Client : creating[d] # NoRun => creating[d] # r /\ creating[d] \in Run
    BY <1>a, <1>d DEF CreationInv, TypeOK
  <2>4. creating'[c] = r /\ victims'[c] = Inflight(ThreadOf[r]) /\ pc'[r] = "creating"
    BY <1>a, <1>d DEF TypeOK
  <2>5. r \notin Inflight(ThreadOf[r]) /\ \A v \in Inflight(ThreadOf[r]) : abort'[v]
    BY <1>b, <1>c
  <2>6. \A d \in Client : creating[d] # NoRun => pc'[creating[d]] = pc[creating[d]]
    BY <1>a, <1>d, <2>3 DEF TypeOK
  <2>7. \A d \in Client : \A v \in victims[d] : v \in Run
    BY <1>d DEF TypeOK
  <2>8. QED
    BY <2>1, <2>2, <2>3, <2>4, <2>5, <2>6, <2>7 DEF CreationInv
<1>4. WorkerCallInv'
  <2>1. ASSUME NEW x \in Run, ~Idle(x)
        PROVE  pc'[x] = pc[x] /\ (pc[x] # "working" => status'[x] = status[x])
    <3>1. x # r /\ (pc[x] = "working" \/ status[x] \in Terminal)
      BY <1>a, <2>1 DEF WorkerCallInv, RecordInv
    <3>2. QED
      BY <1>a, <1>b, <1>c, <1>d, <3>1 DEF TypeOK, RecordTypeOK
  <2>2. QED
    BY <1>a, <2>1 DEF WorkerCallInv
<1>5. ClientCallInv'
  <2>1. \A x \in Run : abort[x] => abort'[x]
    BY <1>c
  <2>2. ASSUME NEW d \in Client, ~Idle(d)
        PROVE  /\ d # c /\ creating'[d] = creating[d]
               /\ call[d].run \in Run \ {r} /\ pc'[call[d].run] = pc[call[d].run]
    <3>1. d # c /\ call[d].run \in Run /\ call[d].run # r
      BY <1>a, <1>d, <2>2 DEF ClientCallInv, TypeOK, StoreCall
    <3>2. QED
      BY <1>a, <1>d, <3>1 DEF TypeOK
  <2>3. QED
    BY <1>a, <2>1, <2>2 DEF ClientCallInv
<1>6. ProcessCallInv'
  BY <1>a, <1>d DEF ProcessCallInv, TypeOK
<1>7. RowInv'
  BY <1>a, <1>b, <1>c, <1>d DEF RowInv, RecordInv, TypeOK, RecordTypeOK
<1>8. RecoveryInv'
  BY <1>a, <1>d DEF RecoveryInv, TypeOK
<1>9. QED
  BY <1>1, <1>2, <1>3, <1>4, <1>5, <1>6, <1>7, <1>8

(* A cancel request. *)
LEMMA CancelRunPreserves ==
  ASSUME IInv, NEW c \in Client, NEW r \in Run, CancelRun(c, r)
  PROVE  IInv'
<1>. USE CallerAssumption DEF IInv, Idle
<1>a. /\ status[r] \in Active /\ creating[c] = NoRun
      /\ call' = [call EXCEPT ![c] = [op |-> "update", run |-> r, val |-> "interrupted",
                                       payload |-> "interrupted"]]
      /\ abort' = [x \in Run |-> abort[x] \/ x \in {r}]
      /\ status' = [status EXCEPT ![r] = "interrupted"]
      /\ \A x \in Run : cancelReq'[x] => cancelReq[x] \/ x = r
      /\ UNCHANGED <<task, store, history, creating, victims, pc, procVars>>
  BY DEF CancelRun, Free, Cancel, Abort, SetStatus, Issue
<1>b. TypeOK
  OBVIOUS
<1>c. ~Gone(r)
  BY <1>a DEF RecordInv
<1>1. TypeOK'
  <2>1. action' \in [Run -> Action] /\ cancelReq' \in [Run -> BOOLEAN]
    BY <1>b DEF CancelRun, Cancel, Abort, TypeOK, RecordTypeOK
  <2>2. call' \in [Caller -> StoreCall \cup {NoCall}]
    BY <1>a, <1>b DEF TypeOK, StoreCall
  <2>3. QED
    BY <1>a, <1>b, <2>1, <2>2 DEF TypeOK, RecordTypeOK
<1>2. RecordInv'
  BY <1>a, <1>b DEF TypeOK, RecordTypeOK, RecordInv
<1>3. CreationInv'
  BY <1>a, <1>b DEF TypeOK, RecordTypeOK, CreationInv
<1>4. WorkerCallInv'
  <2>1. \A x \in Run : call'[x] = call[x]
    BY <1>a, <1>b DEF TypeOK
  <2>2. ASSUME NEW x \in Run PROVE pc[x] # "working" => Idle(x) \/ status'[x] = status[x]
    BY <1>a, <1>b DEF TypeOK, RecordTypeOK, WorkerCallInv, RecordInv
  <2>3. QED
    BY <1>a, <2>1, <2>2 DEF WorkerCallInv
<1>5. ClientCallInv'
  <2>1. call'[c] = [op |-> "update", run |-> r, val |-> "interrupted", payload |-> "interrupted"]
        /\ \A d \in Client \ {c} : call'[d] = call[d]
    BY <1>a, <1>b DEF TypeOK
  <2>2. abort'[r] /\ \A x \in Run : abort[x] => abort'[x]
    BY <1>a DEF RecordInv
  <2>3. \A d \in Client : ~Idle(d) => call[d].run \in Run
    BY <1>b DEF TypeOK, StoreCall
  <2>4. QED
    BY <1>a, <1>c, <2>1, <2>2, <2>3 DEF ClientCallInv
<1>6. ProcessCallInv'
  BY <1>a, <1>b DEF ProcessCallInv, TypeOK
<1>7. RowInv'
  BY <1>a, <1>b DEF RowInv, RecordInv, TypeOK, RecordTypeOK
<1>8. RecoveryInv'
  BY <1>a, <1>b DEF RecoveryInv, TypeOK
<1>9. QED
  BY <1>1, <1>2, <1>3, <1>4, <1>5, <1>6, <1>7, <1>8

(* The worker marks the run running. *)
LEMMA WorkerStartPreserves ==
  ASSUME IInv, NEW r \in Run, WorkerStart(r)
  PROVE  IInv'
<1>. USE CallerAssumption, OwnerAssumption
    DEF IInv, TypeOK, RecordTypeOK, StoreCall, NoCall, Idle, Issue, SetStatus, WorkerStart
<1>1. TypeOK'
  BY ThreadAssumption
<1>2. RecordInv'
  BY DEF RecordInv
<1>3. CreationInv'
  BY DEF CreationInv, RecordInv
<1>4. WorkerCallInv'
  BY DEF WorkerCallInv, RecordInv
<1>5. ClientCallInv'
  BY DEF ClientCallInv, CreationInv, RecordInv
<1>6. ProcessCallInv'
  BY DEF ProcessCallInv, RowInv
<1>7. RowInv'
  BY DEF RowInv, RecordInv
<1>8. RecoveryInv'
  BY DEF RecoveryInv, ProcessCallInv, RecordInv
<1>9. QED
  BY <1>1, <1>2, <1>3, <1>4, <1>5, <1>6, <1>7, <1>8

(* A task cancelled before its first step. *)
LEMMA WorkerNeverStartsPreserves ==
  ASSUME IInv, NEW r \in Run, WorkerNeverStarts(r)
  PROVE  IInv'
<1>. USE CallerAssumption, OwnerAssumption
    DEF IInv, TypeOK, RecordTypeOK, StoreCall, NoCall, Idle, WorkerNeverStarts
<1>1. TypeOK'
  BY ThreadAssumption
<1>2. RecordInv'
  BY DEF RecordInv
<1>3. CreationInv'
  BY DEF CreationInv, RecordInv
<1>4. WorkerCallInv'
  BY DEF WorkerCallInv, RecordInv
<1>5. ClientCallInv'
  BY DEF ClientCallInv, CreationInv, RecordInv
<1>6. ProcessCallInv'
  BY DEF ProcessCallInv, RowInv
<1>7. RowInv'
  BY DEF RowInv, RecordInv
<1>8. RecoveryInv'
  BY DEF RecoveryInv, ProcessCallInv, RecordInv
<1>9. QED
  BY <1>1, <1>2, <1>3, <1>4, <1>5, <1>6, <1>7, <1>8

(* The worker sets the final status. *)
LEMMA WorkerFinishPreserves ==
  ASSUME IInv, NEW r \in Run, WorkerFinish(r)
  PROVE  IInv'
<1>. USE CallerAssumption, OwnerAssumption
    DEF IInv, TypeOK, RecordTypeOK, StoreCall, NoCall, Idle, Issue, SetStatus, CancelledStatus, WorkerFinish
<1>1. TypeOK'
  BY ThreadAssumption
<1>2. RecordInv'
  BY DEF RecordInv
<1>3. CreationInv'
  BY DEF CreationInv, RecordInv
<1>4. WorkerCallInv'
  BY DEF WorkerCallInv, RecordInv
<1>5. ClientCallInv'
  BY DEF ClientCallInv, CreationInv, RecordInv
<1>6. ProcessCallInv'
  BY DEF ProcessCallInv, RowInv
<1>7. RowInv'
  BY DEF RowInv, RecordInv
<1>8. RecoveryInv'
  BY DEF RecoveryInv, ProcessCallInv, RecordInv
<1>9. QED
  BY <1>1, <1>2, <1>3, <1>4, <1>5, <1>6, <1>7, <1>8

(* The worker is cancelled. *)
LEMMA WorkerCancelledPreserves ==
  ASSUME IInv, NEW r \in Run, WorkerCancelled(r)
  PROVE  IInv'
<1>. USE CallerAssumption, OwnerAssumption
    DEF IInv, TypeOK, RecordTypeOK, StoreCall, NoCall, Idle, Issue, SetStatus, CancelledStatus, WorkerCancelled
<1>1. TypeOK'
  BY ThreadAssumption
<1>2. RecordInv'
  BY DEF RecordInv
<1>3. CreationInv'
  BY DEF CreationInv, RecordInv
<1>4. WorkerCallInv'
  BY DEF WorkerCallInv, RecordInv
<1>5. ClientCallInv'
  BY DEF ClientCallInv, CreationInv, RecordInv
<1>6. ProcessCallInv'
  BY DEF ProcessCallInv, RowInv
<1>7. RowInv'
  BY DEF RowInv, RecordInv
<1>8. RecoveryInv'
  BY DEF RecoveryInv, ProcessCallInv, RecordInv
<1>9. QED
  BY <1>1, <1>2, <1>3, <1>4, <1>5, <1>6, <1>7, <1>8

(* The finally clause writes the completion. *)
LEMMA WorkerCompletePreserves ==
  ASSUME IInv, NEW r \in Run, WorkerComplete(r)
  PROVE  IInv'
<1>. USE CallerAssumption, OwnerAssumption
    DEF IInv, TypeOK, RecordTypeOK, StoreCall, NoCall, Idle, Issue, WorkerComplete
<1>1. TypeOK'
  BY ThreadAssumption
<1>2. RecordInv'
  BY DEF RecordInv
<1>3. CreationInv'
  BY DEF CreationInv, RecordInv
<1>4. WorkerCallInv'
  BY DEF WorkerCallInv, RecordInv
<1>5. ClientCallInv'
  BY DEF ClientCallInv, CreationInv, RecordInv
<1>6. ProcessCallInv'
  BY DEF ProcessCallInv, RowInv
<1>7. RowInv'
  BY DEF RowInv, RecordInv
<1>8. RecoveryInv'
  BY DEF RecoveryInv, ProcessCallInv, RecordInv
<1>9. QED
  BY <1>1, <1>2, <1>3, <1>4, <1>5, <1>6, <1>7, <1>8

(* The worker returns. *)
LEMMA WorkerDonePreserves ==
  ASSUME IInv, NEW r \in Run, WorkerDone(r)
  PROVE  IInv'
<1>. USE CallerAssumption, OwnerAssumption
    DEF IInv, TypeOK, RecordTypeOK, StoreCall, NoCall, Idle, WorkerDone
<1>1. TypeOK'
  BY ThreadAssumption
<1>2. RecordInv'
  BY DEF RecordInv
<1>3. CreationInv'
  BY DEF CreationInv, RecordInv
<1>4. WorkerCallInv'
  BY DEF WorkerCallInv, RecordInv
<1>5. ClientCallInv'
  BY DEF ClientCallInv, CreationInv, RecordInv
<1>6. ProcessCallInv'
  BY DEF ProcessCallInv, RowInv
<1>7. RowInv'
  BY DEF RowInv, RecordInv
<1>8. RecoveryInv'
  BY DEF RecoveryInv, ProcessCallInv, RecordInv
<1>9. QED
  BY <1>1, <1>2, <1>3, <1>4, <1>5, <1>6, <1>7, <1>8

(* An answer ends the call, lets it be made again, or leads to the next    *)
(* operation of the same call, with the same run and the same values.      *)
LEMMA AnswerToCaller ==
  ASSUME IInv, NEW k \in Caller, StoreAnswers(k)
  PROVE  LET c == call[k] IN
         /\ ~Idle(k) /\ c \in StoreCall
         /\ call' \in [Caller -> StoreCall \cup {NoCall}]
         /\ \A d \in Caller \ {k} : call'[d] = call[d]
         /\ call'[k] # NoCall =>
              /\ call'[k].run = c.run /\ call'[k].val = c.val /\ call'[k].payload = c.payload
              /\ \/ call'[k].op = c.op
                 \/ c.op = "update" /\ call'[k].op = "put" /\ store[c.run] = "absent"
                 \/ c.op \in {"complete", "recreate"}
         /\ c.op \in {"put", "update"} /\ call'[k] = NoCall => store'[c.run] = Value(c)
<1>. DEFINE c == call[k]
<1>1. /\ ~Idle(k) /\ c \in StoreCall /\ c.run \in Run
      /\ call \in [Caller -> StoreCall \cup {NoCall}] /\ store \in [Run -> Status]
  BY DEF IInv, TypeOK, StoreAnswers, StoreCall, Idle
<1>2. Matches(c) \in BOOLEAN /\ (c.op = "update" /\ ~Matches(c) => store[c.run] = "absent")
  BY DEF Matches
<1>3. PICK e : call' = [call EXCEPT ![k] = e] /\ (e = c \/ e = AfterAnswer(c, Matches(c)))
  <2>1. CASE Matches(c)
    <3>1. call = [call EXCEPT ![k] = c]
      BY <1>1
    <3>2. QED
      BY <2>1, <3>1 DEF StoreAnswers
  <2>2. CASE ~Matches(c)
    BY <1>2, <2>2 DEF StoreAnswers
  <2>3. QED
    BY <1>2, <2>1, <2>2
<1>4. \/ e = NoCall
      \/ /\ e \in StoreCall
         /\ e.run = c.run /\ e.val = c.val /\ e.payload = c.payload
         /\ \/ e.op = c.op
            \/ c.op = "update" /\ e.op = "put" /\ store[c.run] = "absent"
            \/ c.op \in {"complete", "recreate"}
  <2>1. CASE e = c
    BY <1>1, <2>1
  <2>2. CASE e = AfterAnswer(c, Matches(c))
    <3>1. \/ e = NoCall
          \/ /\ e \in StoreCall /\ e.run = c.run /\ e.val = c.val /\ e.payload = c.payload
             /\ c.op = "update" => e.op = "put" /\ ~Matches(c)
             /\ c.op # "put"
      BY <1>1, <1>2, <2>2, AfterAnswerKeeps
    <3>2. c.op \in {"put", "update", "complete", "recreate", "recomplete"}
      BY <1>1 DEF StoreCall
    <3>3. c.op = "recomplete" => e = NoCall
      BY <2>2 DEF AfterAnswer
    <3>4. QED
      BY <1>2, <3>1, <3>2, <3>3
  <2>3. QED
    BY <1>3, <2>1, <2>2
<1>5. c.op \in {"put", "update"} /\ call'[k] = NoCall => store'[c.run] = Value(c)
  <2>1. CASE Matches(c)
    BY <1>1, <2>1 DEF StoreAnswers
  <2>2. CASE ~Matches(c) /\ c.op = "update"
    <3>1. call' = [call EXCEPT ![k] = AfterAnswer(c, FALSE)]
      BY <2>2 DEF StoreAnswers
    <3>2. AfterAnswer(c, FALSE) = [c EXCEPT !.op = "put"]
      BY <2>2 DEF AfterAnswer
    <3>3. [c EXCEPT !.op = "put"] # NoCall
      BY <1>1 DEF StoreCall, NoCall
    <3>4. QED
      BY <1>1, <3>1, <3>2, <3>3
  <2>3. CASE c.op = "put"
    BY <2>1, <2>3 DEF Matches
  <2>4. QED
    BY <2>1, <2>2, <2>3
<1>6. QED
  BY <1>1, <1>3, <1>4, <1>5

(* The value a call writes: the worker's status, an interruption or the    *)
(* status of a run that has not started, or an error.                      *)
LEMMA ValueOfCall ==
  ASSUME IInv, NEW k \in Caller, ~Idle(k)
  PROVE  LET c == call[k]
             r == c.run
         IN
         /\ r \in Run /\ Value(c) \in Status \ {"absent"}
         /\ Value(c) = "success" => status[r] = "success"
         /\ pc[r] # "idle"
         /\ k \in Run => /\ r = k /\ pc[r] \in {"working", "finishing", "completing"}
                         /\ pc[r] # "working" => Value(c) = status[r]
         /\ k \in Client => /\ ~Gone(r)
                            /\ \/ creating[k] = r /\ pc[r] = "putting"
                               \/ /\ creating[k] # r /\ abort[r]
                                  /\ Value(c) = "interrupted" \/ ~inserted[r]
         /\ k \in Proc => Value(c) = "error"
<1>. USE CallerAssumption
<1>. DEFINE c == call[k]
             r == c.run
<1>1. c \in StoreCall /\ r \in Run
  BY DEF IInv, TypeOK, StoreCall, Idle
<1>2. Value(c) \in {c.val, c.payload} /\ Value(c) \in Status
  BY <1>1 DEF Value, StoreCall
<1>3. CASE k \in Run
  <2>1. /\ r = k /\ pc[r] \in {"working", "finishing", "completing"}
        /\ \/ Value(c) = status[r]
           \/ pc[r] = "working" /\ Value(c) = "running"
    BY <1>2, <1>3 DEF IInv, WorkerCallInv
  <2>2. QED
    BY <1>1, <1>2, <1>3, <2>1 DEF IInv, RecordInv
<1>4. CASE k \in Client
  <2>1. /\ ~Gone(r)
        /\ \/ /\ creating[k] = r /\ pc[r] = "putting"
              /\ Value(c) \in {"pending", "interrupted"}
           \/ /\ creating[k] # r /\ abort[r]
              /\ Value(c) \notin {"absent", "success"}
              /\ Value(c) = "interrupted" \/ ~inserted[r]
    BY <1>1, <1>4 DEF IInv, ClientCallInv, Value
  <2>2. QED
    BY <1>1, <1>2, <1>4, <2>1
<1>5. CASE k \in Proc
  BY <1>1, <1>2, <1>5 DEF IInv, ProcessCallInv
<1>6. QED
  BY <1>3, <1>4, <1>5

(* An answer changes at most the row its call is about, and what the       *)
(* history says of that row.                                               *)
LEMMA AnswerToRow ==
  ASSUME IInv, NEW k \in Caller, StoreAnswers(k)
  PROVE  LET c == call[k]
             r == c.run
         IN
         /\ UNCHANGED <<recordVars, missed, creating, victims, pc, procVars>>
         /\ store' \in [Run -> Status] /\ inserted' \in [Run -> BOOLEAN]
         /\ saved' \in [Run -> BOOLEAN] /\ recovered' \in [Run -> BOOLEAN]
         /\ \A x \in Run \ {r} : UNCHANGED <<store[x], inserted[x], saved[x], recovered[x]>>
         /\ \/ /\ store'[r] = store[r] /\ inserted'[r] = inserted[r]
               /\ saved'[r] = saved[r] /\ recovered'[r] = recovered[r]
            \/ /\ store'[r] = Value(c)
               /\ inserted'[r] => inserted[r] \/ (k \in Client /\ creating[k] = r)
               /\ saved'[r] => \/ saved[r]
                               \/ k = r /\ pc[r] \in {"finishing", "completing"}
               /\ recovered'[r] <=> k \in Proc
<1>. DEFINE c == call[k]
             r == c.run
<1>1. /\ r \in Run /\ Value(c) \in Status
      /\ store \in [Run -> Status] /\ inserted \in [Run -> BOOLEAN]
      /\ saved \in [Run -> BOOLEAN] /\ recovered \in [Run -> BOOLEAN]
  BY ValueOfCall DEF StoreAnswers, IInv, TypeOK
<1>2. \/ UNCHANGED <<store, inserted, saved, recovered>>
      \/ /\ store' = [store EXCEPT ![r] = Value(c)]
         /\ inserted' = IF k \in Client /\ creating[k] = r /\ c.op = "put"
                        THEN [inserted EXCEPT ![r] = TRUE] ELSE inserted
         /\ saved' = IF k = r /\ pc[k] \in {"finishing", "completing"}
                     THEN [saved EXCEPT ![k] = TRUE] ELSE saved
         /\ recovered' = [recovered EXCEPT ![r] = k \in Proc]
  BY DEF StoreAnswers
<1>3. UNCHANGED <<recordVars, missed, creating, victims, pc, procVars>>
  BY DEF StoreAnswers
<1>4. CASE UNCHANGED <<store, inserted, saved, recovered>>
  BY <1>1, <1>3, <1>4
<1>5. CASE store' = [store EXCEPT ![r] = Value(c)] /\ ~UNCHANGED <<store, inserted, saved, recovered>>
  <2>1. /\ store' \in [Run -> Status] /\ store'[r] = Value(c)
        /\ \A x \in Run \ {r} : store'[x] = store[x]
    BY <1>1, <1>5
  <2>2. /\ inserted' \in [Run -> BOOLEAN]
        /\ \A x \in Run \ {r} : inserted'[x] = inserted[x]
        /\ inserted'[r] => inserted[r] \/ (k \in Client /\ creating[k] = r)
    BY <1>1, <1>2, <1>5
  <2>3. /\ saved' \in [Run -> BOOLEAN]
        /\ \A x \in Run \ {r} : saved'[x] = saved[x]
        /\ saved'[r] => saved[r] \/ (k = r /\ pc[r] \in {"finishing", "completing"})
    BY <1>1, <1>2, <1>5
  <2>4. /\ recovered' \in [Run -> BOOLEAN]
        /\ \A x \in Run \ {r} : recovered'[x] = recovered[x]
        /\ recovered'[r] <=> k \in Proc
    <3>1. recovered' = [recovered EXCEPT ![r] = k \in Proc]
      BY <1>2, <1>5
    <3>2. CASE k \in Proc
      BY <1>1, <3>1, <3>2
    <3>3. CASE k \notin Proc
      <4>1. (k \in Proc) = FALSE
        BY <3>3
      <4>2. recovered' = [recovered EXCEPT ![r] = FALSE]
        BY <3>1, <4>1, Zenon
      <4>3. QED
        BY <1>1, <3>3, <4>2
    <3>4. QED
      BY <3>2, <3>3
  <2>5. QED
    BY <1>3, <2>1, <2>2, <2>3, <2>4
<1>6. QED
  BY <1>2, <1>4, <1>5

(* The store answers a call. *)
LEMMA StoreAnswersPreserves ==
  ASSUME IInv, NEW k \in Caller, StoreAnswers(k)
  PROVE  IInv'
<1>. USE CallerAssumption DEF IInv, Idle
<1>. DEFINE c == call[k]
             r == c.run
<1>a. /\ c # NoCall /\ c \in StoreCall /\ r \in Run
      /\ call' \in [Caller -> StoreCall \cup {NoCall}]
      /\ \A d \in Caller \ {k} : call'[d] = call[d]
      /\ call'[k] # NoCall =>
           /\ call'[k].run = r /\ call'[k].val = c.val /\ call'[k].payload = c.payload
           /\ \/ call'[k].op = c.op
              \/ c.op = "update" /\ call'[k].op = "put" /\ store[r] = "absent"
              \/ c.op \in {"complete", "recreate"}
      /\ c.op \in {"put", "update"} /\ call'[k] = NoCall => store'[r] = Value(c)
  BY AnswerToCaller DEF StoreCall
<1>b. /\ UNCHANGED <<recordVars, missed, creating, victims, pc, procVars>>
      /\ store' \in [Run -> Status] /\ inserted' \in [Run -> BOOLEAN]
      /\ saved' \in [Run -> BOOLEAN] /\ recovered' \in [Run -> BOOLEAN]
      /\ \A x \in Run \ {r} : UNCHANGED <<store[x], inserted[x], saved[x]>>
      /\ \/ store'[r] = store[r] /\ inserted'[r] = inserted[r] /\ saved'[r] = saved[r]
         \/ /\ store'[r] = Value(c)
            /\ inserted'[r] => inserted[r] \/ (k \in Client /\ creating[k] = r)
            /\ saved'[r] => \/ saved[r]
                            \/ k = r /\ pc[r] \in {"finishing", "completing"}
  BY AnswerToRow
<1>c. /\ Value(c) \in Status \ {"absent"} /\ pc[r] # "idle"
      /\ Value(c) = "success" => status[r] = "success"
      /\ k \in Client /\ creating[k] = r => pc[r] = "putting"
      /\ k \in Proc => Value(c) = "error"
      /\ Value(c) = "error" \/ pc[r] # "dead"
  BY <1>a, ValueOfCall
<1>1. TypeOK'
  BY <1>a, <1>b DEF TypeOK, RecordTypeOK
<1>2. RecordInv'
  BY <1>a, <1>b DEF RecordInv
<1>3. CreationInv'
  BY <1>b DEF CreationInv
<1>4. WorkerCallInv'
  BY <1>a, <1>b DEF WorkerCallInv
<1>5. ClientCallInv'
  <2>1. \A x \in Run : ~InCreation(x) => inserted'[x] = inserted[x] \/ ~inserted'[x]
    BY <1>b, <1>c
  <2>2. store[r] = "absent" => ~inserted[r]
    BY <1>a DEF RowInv
  <2>3. ASSUME NEW d \in Client, d # k, call'[d] # NoCall
        PROVE  call'[d] = call[d] /\ call[d].run \in Run
    BY <1>a, <2>3 DEF TypeOK, StoreCall
  <2>4. ASSUME k \in Client, call'[k] # NoCall
        PROVE  /\ call'[k].run = r /\ call'[k].val = c.val /\ call'[k].payload = c.payload
               /\ \/ call'[k].op = c.op
                  \/ c.op = "update" /\ call'[k].op = "put" /\ ~inserted[r]
    BY <1>a, <2>2, <2>4 DEF ClientCallInv
  <2>5. QED
    BY <1>a, <1>b, <2>1, <2>3, <2>4 DEF ClientCallInv
<1>6. ProcessCallInv'
  BY <1>a, <1>b DEF ProcessCallInv
<1>7. RowInv'
  <2>1. ASSUME NEW x \in Run
        PROVE  /\ pc[x] = "idle" => store'[x] = "absent"
               /\ inserted'[x] => store'[x] # "absent" /\ pc[x] # "creating"
               /\ store'[x] = "success" => status[x] = "success" \/ pc[x] = "dead"
    <3>1. CASE x # r \/ (store'[r] = store[r] /\ inserted'[r] = inserted[r])
      BY <1>b, <3>1 DEF RowInv
    <3>2. CASE x = r /\ store'[r] = Value(c)
      BY <1>b, <1>c, <3>2 DEF RowInv
    <3>3. QED
      BY <1>b, <3>1, <3>2
  <2>2. QED
    BY <1>b, <2>1 DEF RowInv
<1>8. RecoveryInv'
  <2>1. ASSUME NEW p \in Proc, proc[p] # "down", NEW x \in Run,
               OwnerOf[x] = p, pc[x] = "dead", store'[x] \in Active
        PROVE  \/ x \in orphans[p] \cup missed[p]
               \/ call'[p] # NoCall /\ call'[p].run = x
    <3>1. store'[x] = store[x] /\ store'[x] # "error"
      BY <1>b, <1>c, <2>1
    <3>2. \/ x \in orphans[p] \cup missed[p]
          \/ call[p] # NoCall /\ call[p].run = x
      BY <2>1, <3>1 DEF RecoveryInv
    <3>3. CASE p = k /\ call[p].run = x
      <4>1. c.op \in {"put", "update"} /\ Value(c) = "error"
        BY <1>a, <1>c, <3>3 DEF ProcessCallInv
      <4>2. QED
        BY <1>a, <3>1, <3>3, <4>1
    <3>4. QED
      BY <1>a, <3>2, <3>3
  <2>2. QED
    BY <1>b, <2>1 DEF RecoveryInv
<1>9. QED
  BY <1>1, <1>2, <1>3, <1>4, <1>5, <1>6, <1>7, <1>8

(* The last attempt of a call failed. *)
LEMMA StoreGivesUpPreserves ==
  ASSUME IInv, NEW k \in Caller, StoreGivesUp(k)
  PROVE  IInv'
<1>. USE CallerAssumption, OwnerAssumption
    DEF IInv, TypeOK, RecordTypeOK, StoreCall, NoCall, Idle, StoreGivesUp
<1>1. TypeOK'
  BY ThreadAssumption
<1>2. RecordInv'
  BY DEF RecordInv
<1>3. CreationInv'
  BY DEF CreationInv, RecordInv
<1>4. WorkerCallInv'
  BY DEF WorkerCallInv, RecordInv
<1>5. ClientCallInv'
  BY DEF ClientCallInv, CreationInv, RecordInv
<1>6. ProcessCallInv'
  BY DEF ProcessCallInv, RowInv
<1>7. RowInv'
  BY DEF RowInv, RecordInv
<1>8. RecoveryInv'
  BY DEF RecoveryInv, ProcessCallInv, RecordInv
<1>9. QED
  BY <1>1, <1>2, <1>3, <1>4, <1>5, <1>6, <1>7, <1>8

(* A process lists the rows. *)
LEMMA ProcessStartsPreserves ==
  ASSUME IInv, NEW p \in Proc, ProcessStarts(p)
  PROVE  IInv'
<1>. USE DEF IInv, Idle
<1>a. TypeOK /\ proc[p] = "down" /\ proc' = [proc EXCEPT ![p] = "recovering"]
      /\ UNCHANGED <<recordVars, store, call, inserted, saved, recovered, creating, victims, pc, crashes>>
  BY DEF ProcessStarts
<1>b. \/ /\ orphans' = [orphans EXCEPT ![p] = InflightRows]
         /\ missed' = [missed EXCEPT ![p] = {}]
      \/ missed' = [missed EXCEPT ![p] = InflightRows] /\ UNCHANGED orphans
  BY DEF ProcessStarts
<1>c. InflightRows \subseteq Run /\ \A r \in Run : r \in InflightRows <=> store[r] \in Active
  BY DEF InflightRows
<1>1. TypeOK'
  <2>1. /\ orphans' \in [Proc -> SUBSET Run] /\ missed' \in [Proc -> SUBSET Run]
        /\ proc' \in [Proc -> ProcState]
    BY <1>a, <1>b, <1>c DEF TypeOK
  <2>2. QED
    BY <1>a, <2>1 DEF TypeOK, RecordTypeOK
<1>2. RecordInv'
  BY <1>a DEF RecordInv
<1>3. CreationInv'
  BY <1>a DEF CreationInv
<1>4. WorkerCallInv'
  BY <1>a DEF WorkerCallInv
<1>5. ClientCallInv'
  BY <1>a DEF ClientCallInv
<1>6. ProcessCallInv'
  <2>1. \A r \in InflightRows : pc[r] # "idle"
    BY <1>c DEF RowInv
  <2>2. /\ \A q \in Proc \ {p} : proc'[q] = proc[q] /\ orphans'[q] = orphans[q]
        /\ proc'[p] = "recovering"
        /\ orphans'[p] = InflightRows \/ orphans'[p] = orphans[p]
    BY <1>a, <1>b DEF TypeOK
  <2>3. QED
    BY <1>a, <2>1, <2>2 DEF ProcessCallInv
<1>7. RowInv'
  BY <1>a DEF RowInv
<1>8. RecoveryInv'
  BY <1>a, <1>b, <1>c DEF RecoveryInv, TypeOK
<1>9. QED
  BY <1>1, <1>2, <1>3, <1>4, <1>5, <1>6, <1>7, <1>8

(* A starting process takes up a listed row. *)
LEMMA RecoverRowPreserves ==
  ASSUME IInv, NEW p \in Proc, RecoverRow(p)
  PROVE  IInv'
<1>. USE CallerAssumption, OwnerAssumption
    DEF IInv, TypeOK, RecordTypeOK, StoreCall, NoCall, Idle, Issue, RecoverRow
<1>1. TypeOK'
  <2>1. PICK r \in orphans[p] :
          /\ orphans' = [orphans EXCEPT ![p] = @ \ {r}]
          /\ \/ call' = call
             \/ call' = [call EXCEPT ![p] = [op |-> "update", run |-> r, val |-> "error",
                                            payload |-> "error"]]
    OBVIOUS
  <2>2. orphans' \in [Proc -> SUBSET Run]
    <3>1. orphans[p] \ {r} \in SUBSET Run
      OBVIOUS
    <3>2. QED
      BY <2>1, <3>1
  <2>3. call' \in [Caller -> StoreCall \cup {NoCall}]
    <3>1. r \in Run /\ p \in Caller /\ call \in [Caller -> StoreCall \cup {NoCall}]
      OBVIOUS
    <3>2. [op |-> "update", run |-> r, val |-> "error", payload |-> "error"] \in StoreCall
      BY <3>1
    <3>3. QED
      BY ONLY <2>1, <3>1, <3>2
  <2>4. QED
    BY <2>2, <2>3
<1>2. RecordInv'
  BY DEF RecordInv
<1>3. CreationInv'
  BY DEF CreationInv, RecordInv
<1>4. WorkerCallInv'
  BY DEF WorkerCallInv, RecordInv
<1>5. ClientCallInv'
  BY DEF ClientCallInv, CreationInv, RecordInv
<1>6. ProcessCallInv'
  BY DEF ProcessCallInv, RowInv
<1>7. RowInv'
  BY DEF RowInv, RecordInv
<1>8. RecoveryInv'
  BY DEF RecoveryInv, ProcessCallInv, RecordInv
<1>9. QED
  BY <1>1, <1>2, <1>3, <1>4, <1>5, <1>6, <1>7, <1>8

(* A process serves. *)
LEMMA ProcessServesPreserves ==
  ASSUME IInv, NEW p \in Proc, ProcessServes(p)
  PROVE  IInv'
<1>. USE CallerAssumption, OwnerAssumption
    DEF IInv, TypeOK, RecordTypeOK, StoreCall, NoCall, Idle, ProcessServes
<1>1. TypeOK'
  BY ThreadAssumption
<1>2. RecordInv'
  BY DEF RecordInv
<1>3. CreationInv'
  BY DEF CreationInv, RecordInv
<1>4. WorkerCallInv'
  BY DEF WorkerCallInv, RecordInv
<1>5. ClientCallInv'
  BY DEF ClientCallInv, CreationInv, RecordInv
<1>6. ProcessCallInv'
  BY DEF ProcessCallInv, RowInv
<1>7. RowInv'
  BY DEF RowInv, RecordInv
<1>8. RecoveryInv'
  BY DEF RecoveryInv, ProcessCallInv, RecordInv
<1>9. QED
  BY <1>1, <1>2, <1>3, <1>4, <1>5, <1>6, <1>7, <1>8

(* A process dies. *)
LEMMA ProcessCrashesPreserves ==
  ASSUME IInv, NEW p \in Proc, ProcessCrashes(p)
  PROVE  IInv'
<1>. USE CallerAssumption, OwnerAssumption
    DEF IInv, TypeOK, RecordTypeOK, StoreCall, NoCall, Idle, ProcessCrashes
<1>1. TypeOK'
  <2>1. /\ status' \in [Run -> Status] /\ abort' \in [Run -> BOOLEAN]
        /\ action' \in [Run -> Action]
    OBVIOUS
  <2>2. task' \in [Run -> TaskState] /\ cancelReq' \in [Run -> BOOLEAN]
    OBVIOUS
  <2>3. call' \in [Caller -> StoreCall \cup {NoCall}]
    OBVIOUS
  <2>4. /\ creating' \in [Client -> Run \cup {NoRun}]
        /\ victims' \in [Client -> SUBSET Run]
    OBVIOUS
  <2>5. pc' \in [Run -> PcState]
    OBVIOUS
  <2>6. /\ proc' \in [Proc -> ProcState] /\ orphans' \in [Proc -> SUBSET Run]
        /\ crashes' \in 0 .. MaxCrash
    BY CrashAssumption
  <2>7. QED
    BY <2>1, <2>2, <2>3, <2>4, <2>5, <2>6
<1>2. RecordInv'
  BY DEF RecordInv
<1>3. CreationInv'
  BY DEF CreationInv, RecordInv
<1>4. WorkerCallInv'
  BY DEF WorkerCallInv, RecordInv
<1>5. ClientCallInv'
  BY DEF ClientCallInv, CreationInv, RecordInv
<1>6. ProcessCallInv'
  BY DEF ProcessCallInv, RowInv
<1>7. RowInv'
  BY DEF RowInv, RecordInv
<1>8. RecoveryInv'
  BY DEF RecoveryInv, ProcessCallInv, RecordInv
<1>9. QED
  BY <1>1, <1>2, <1>3, <1>4, <1>5, <1>6, <1>7, <1>8

(* Every step preserves the invariant, with any number of processes. *)
LEMMA NextPreserves == IInv /\ [Next]_vars => IInv'
<1>. SUFFICES ASSUME IInv, [Next]_vars PROVE IInv'
  OBVIOUS
<1>1. CASE UNCHANGED vars
  BY <1>1 DEF IInv, TypeOK, RecordTypeOK, RecordInv, CreationInv, WorkerCallInv, ClientCallInv,
              ProcessCallInv, RowInv, RecoveryInv, Idle
<1>2. ASSUME NEW k \in Caller, StoreAnswers(k) \/ StoreGivesUp(k) PROVE IInv'
  BY <1>2, StoreAnswersPreserves, StoreGivesUpPreserves
<1>3. ASSUME NEW c \in Client, Request(c) PROVE IInv'
  BY <1>3, PersistVictimPreserves, PersistRecordPreserves, LaunchRunPreserves,
     RefuseBodyPreserves, CreateRunPreserves, CancelRunPreserves DEF Request
<1>4. ASSUME NEW r \in Run, Worker(r) PROVE IInv'
  BY <1>4, WorkerStartPreserves, WorkerNeverStartsPreserves, WorkerFinishPreserves,
     WorkerCancelledPreserves, WorkerCompletePreserves, WorkerDonePreserves DEF Worker
<1>5. ASSUME NEW p \in Proc, Process(p) PROVE IInv'
  BY <1>5, ProcessStartsPreserves, RecoverRowPreserves, ProcessServesPreserves,
     ProcessCrashesPreserves DEF Process
<1>6. QED
  BY <1>1, <1>2, <1>3, <1>4, <1>5 DEF Next

(* The initial states satisfy both invariants. *)
LEMMA InitEstablishes == Init => IInv /\ OwnRunsInv
<1>. SUFFICES ASSUME Init PROVE IInv /\ OwnRunsInv
  OBVIOUS
<1>1. TypeOK
  BY CallerAssumption, CrashAssumption DEF Init, RecordInit, TypeOK, RecordTypeOK
<1>2. RecordInv /\ CreationInv /\ WorkerCallInv /\ ClientCallInv /\ ProcessCallInv
  BY DEF Init, RecordInit, RecordInv, CreationInv, WorkerCallInv, ClientCallInv,
         ProcessCallInv, Idle
<1>3. RowInv /\ RecoveryInv /\ OwnRunsInv
  BY DEF Init, RowInv, RecoveryInv, OwnRunsInv, Failing, Idle
<1>4. QED
  BY <1>1, <1>2, <1>3 DEF IInv

-----------------------------------------------------------------------------
(* What a process knows of the runs it serves. *)

(* What OwnRunsInv asks of a step that writes no row and starts no process. *)
LEMMA OwnFrame ==
  ASSUME IInv, OwnRunsInv,
         UNCHANGED <<store, inserted, saved, recovered, orphans>>,
         \A p \in Proc : call'[p] \in {call[p], NoCall},
         \A p \in Proc, r \in Run : OwnerOf[r] = p /\ proc'[p] # "serving" =>
           proc[p] # "serving" /\ (Gone(r) => Gone(r)'),
         \A r \in Run : pc'[r] = "dead" <=> pc[r] = "dead",
         \A r \in Run : saved[r] /\ pc[r] # "dead" =>
           status'[r] = status[r] /\ (abort[r] => abort'[r])
  PROVE  OwnRunsInv'
<1>1. ASSUME NEW p \in Proc, NEW r \in Run, OwnerOf[r] = p
      PROVE  /\ proc'[p] # "serving" => Gone(r)'
             /\ r \in orphans'[p] \/ (call'[p] # NoCall /\ call'[p].run = r)
                  => pc'[r] = "dead" /\ store'[r] # "success"
  BY <1>1 DEF OwnRunsInv, Failing, Idle
<1>2. ASSUME NEW r \in Run
      PROVE  saved'[r] /\ inserted'[r] /\ pc'[r] # "dead" => RowAgrees(r)' \/ recovered'[r]
  BY DEF OwnRunsInv, RowAgrees
<1>3. QED
  BY <1>1, <1>2 DEF OwnRunsInv, Failing, Idle

(* A request creates runs only while its process serves, and leaves a run  *)
(* that has its final status alone.                                        *)
LEMMA OwnRequest ==
  ASSUME IInv, OwnRunsInv, NEW c \in Client, Request(c)
  PROVE  OwnRunsInv'
<1>. USE CallerAssumption DEF Idle
<1>1. CASE PersistVictim(c)
  BY <1>1, OwnFrame DEF PersistVictim, Issue, IInv, TypeOK
<1>2. CASE PersistRecord(c)
  <2>1. pc' = [pc EXCEPT ![creating[c]] = "putting"] /\ creating[c] \in Run
        /\ pc[creating[c]] = "creating"
    BY <1>2 DEF PersistRecord, IInv, TypeOK
  <2>2. QED
    BY <1>2, <2>1, OwnFrame DEF PersistRecord, Issue, IInv, TypeOK
<1>3. CASE LaunchRun(c) \/ RefuseBody(c)
  BY <1>3, OwnFrame DEF LaunchRun, RefuseBody, IInv, TypeOK
<1>4. ASSUME NEW r \in Run, CreateRun(c, r) PROVE OwnRunsInv'
  <2>1. proc[OwnerOf[r]] = "serving"
    BY <1>4 DEF CreateRun
  <2>2. pc[r] = "idle" /\ pc' = [pc EXCEPT ![r] = "creating"]
        /\ UNCHANGED <<store, inserted, saved, recovered, call, proc, orphans>>
    BY <1>4 DEF CreateRun
  <2>3. ASSUME NEW x \in Run, saved[x], pc[x] # "dead"
        PROVE  status'[x] = status[x] /\ (abort[x] => abort'[x])
    <3>1. status[x] \in Terminal /\ x # r
      BY <2>2, <2>3 DEF IInv, RecordInv
    <3>2. QED
      BY <1>4, <3>1 DEF CreateRun, CreateOrReject, Abort, Inflight
  <2>4. QED
    BY <2>1, <2>2, <2>3, OwnFrame DEF IInv, TypeOK
<1>5. ASSUME NEW r \in Run, CancelRun(c, r) PROVE OwnRunsInv'
  <2>1. status' = [status EXCEPT ![r] = "interrupted"] /\ status[r] \in Active
        /\ abort' = [x \in Run |-> abort[x] \/ x \in {r}]
        /\ UNCHANGED <<store, inserted, saved, recovered, pc, proc, orphans>>
        /\ \A p \in Proc : call'[p] = call[p]
    BY <1>5 DEF CancelRun, Cancel, Abort, SetStatus, Issue, IInv, TypeOK
  <2>2. ASSUME NEW x \in Run, saved[x], pc[x] # "dead"
        PROVE  status'[x] = status[x] /\ (abort[x] => abort'[x])
    BY <2>1, <2>2 DEF IInv, TypeOK, RecordTypeOK, RecordInv
  <2>3. QED
    BY <2>1, <2>2, OwnFrame
<1>6. QED
  BY <1>1, <1>2, <1>3, <1>4, <1>5 DEF Request

(* A worker's steps issue calls and write no row; once its final status is *)
(* saved, the record keeps it.                                             *)
LEMMA OwnWorker ==
  ASSUME IInv, OwnRunsInv, NEW r \in Run, Worker(r)
  PROVE  OwnRunsInv'
<1>. USE CallerAssumption
<1>1. /\ UNCHANGED <<store, inserted, saved, recovered, proc, orphans>>
      /\ \A p \in Proc : call'[p] = call[p]
  BY DEF Worker, WorkerStart, WorkerNeverStarts, WorkerFinish, WorkerCancelled,
         WorkerComplete, WorkerDone, Issue, IInv, TypeOK
<1>2. \A x \in Run : /\ pc'[x] = "dead" <=> pc[x] = "dead"
                     /\ Gone(x) => Gone(x)'
  BY DEF Worker, WorkerStart, WorkerNeverStarts, WorkerFinish, WorkerCancelled,
         WorkerComplete, WorkerDone, IInv, TypeOK
<1>3. ASSUME NEW x \in Run, saved[x], pc[x] # "dead"
      PROVE  status'[x] = status[x] /\ (abort[x] => abort'[x])
  <2>1. pc[x] \in {"finishing", "completing", "done"}
    BY <1>3 DEF IInv, RecordInv
  <2>2. QED
    BY <2>1 DEF Worker, WorkerStart, WorkerNeverStarts, WorkerFinish, WorkerCancelled,
                WorkerComplete, WorkerDone, SetStatus, IInv, TypeOK, RecordTypeOK
<1>4. QED
  BY <1>1, <1>2, <1>3, OwnFrame

(* Answers: a run that is saved and inserted only has calls about it that  *)
(* write what its record says, or that it was interrupted.                 *)
LEMMA OwnStore ==
  ASSUME IInv, OwnRunsInv, NEW k \in Caller, StoreAnswers(k) \/ StoreGivesUp(k)
  PROVE  OwnRunsInv'
<1>. USE CallerAssumption
<1>. DEFINE c == call[k]
             r == c.run
<1>1. CASE StoreGivesUp(k)
  <2>1. \A p \in Proc : call'[p] \in {call[p], NoCall}
    BY <1>1 DEF StoreGivesUp, IInv, TypeOK
  <2>2. QED
    BY <1>1, <2>1, OwnFrame DEF StoreGivesUp
<1>2. CASE StoreAnswers(k)
  <2>1. /\ ~Idle(k) /\ c \in StoreCall
        /\ \A d \in Caller \ {k} : call'[d] = call[d]
        /\ call'[k] # NoCall => call'[k].run = r
    BY <1>2, AnswerToCaller
  <2>2. /\ UNCHANGED <<recordVars, missed, creating, victims, pc, procVars>>
        /\ \A x \in Run \ {r} : UNCHANGED <<store[x], inserted[x], saved[x], recovered[x]>>
        /\ \/ /\ store'[r] = store[r] /\ inserted'[r] = inserted[r]
              /\ saved'[r] = saved[r] /\ recovered'[r] = recovered[r]
           \/ /\ store'[r] = Value(c)
              /\ inserted'[r] => inserted[r] \/ (k \in Client /\ creating[k] = r)
              /\ saved'[r] => \/ saved[r]
                              \/ k = r /\ pc[r] \in {"finishing", "completing"}
              /\ recovered'[r] <=> k \in Proc
    BY <1>2, AnswerToRow
  <2>3. /\ r \in Run /\ (Value(c) = "success" => status[r] = "success")
        /\ k \in Run => r = k /\ (pc[r] # "working" => Value(c) = status[r])
        /\ k \in Client => \/ creating[k] = r /\ pc[r] = "putting"
                           \/ /\ creating[k] # r /\ abort[r]
                              /\ Value(c) = "interrupted" \/ ~inserted[r]
    BY <2>1, ValueOfCall
  <2>4. /\ saved[r] => pc[r] \in {"finishing", "completing", "done", "dead"}
        /\ pc[r] = "dead" => status[r] # "success"
    BY <2>3 DEF IInv, RecordInv
  <2>5. ASSUME NEW p \in Proc, NEW x \in Run, OwnerOf[x] = p
        PROVE  x \in orphans[p] \/ (call'[p] # NoCall /\ call'[p].run = x)
                 => pc[x] = "dead" /\ store'[x] # "success"
    <3>1. pc[x] = "dead" /\ store[x] # "success" => store'[x] # "success"
      BY <2>2, <2>3, <2>4
    <3>2. call'[p] # NoCall => call[p] # NoCall /\ call'[p].run = call[p].run
      BY <2>1 DEF Idle
    <3>3. QED
      BY <2>5, <3>1, <3>2 DEF OwnRunsInv, Failing, Idle
  <2>6. ASSUME NEW x \in Run, saved'[x], inserted'[x], pc[x] # "dead"
        PROVE  \/ store'[x] = status[x]
               \/ abort[x] /\ store'[x] = "interrupted"
               \/ recovered'[x]
    <3>1. CASE x # r \/ /\ saved'[x] = saved[x] /\ inserted'[x] = inserted[x]
                        /\ store'[x] = store[x] /\ recovered'[x] = recovered[x]
      BY <2>2, <2>6, <3>1 DEF OwnRunsInv, RowAgrees
    <3>2. CASE x = r /\ store'[r] = Value(c) /\ k \notin Proc
               /\ (inserted'[r] => inserted[r] \/ (k \in Client /\ creating[k] = r))
               /\ (saved'[r] => saved[r] \/ (k = r /\ pc[r] \in {"finishing", "completing"}))
      <4>1. pc[r] \in {"finishing", "completing", "done"}
        BY <2>4, <2>6, <3>2
      <4>2. CASE k \in Run
        BY <2>3, <3>2, <4>1, <4>2
      <4>3. CASE k \in Client
        BY <2>3, <2>6, <3>2, <4>1, <4>3
      <4>4. QED
        BY <3>2, <4>2, <4>3
    <3>3. QED
      BY <2>2, <3>1, <3>2
  <2>7. QED
    BY <2>2, <2>5, <2>6 DEF OwnRunsInv, RowAgrees, Failing, Idle
<1>3. QED
  BY <1>1, <1>2

(* A process that starts serves no live run, so of its own runs it lists   *)
(* only dead ones; of its siblings' it may list any.                       *)
LEMMA OwnProcess ==
  ASSUME IInv, OwnRunsInv, NEW p \in Proc, Process(p)
  PROVE  OwnRunsInv'
<1>. USE CallerAssumption
<1>1. CASE ProcessStarts(p)
  <2>1. /\ proc[p] = "down" /\ \A q \in Proc \ {p} : proc'[q] = proc[q]
        /\ UNCHANGED <<recordVars, store, call, inserted, saved, recovered, pc>>
        /\ orphans'[p] = InflightRows \/ orphans'[p] = orphans[p]
        /\ \A q \in Proc \ {p} : orphans'[q] = orphans[q]
    BY <1>1 DEF ProcessStarts, IInv, TypeOK
  <2>2. \A r \in Run : OwnerOf[r] = p => Gone(r)
    BY <2>1 DEF OwnRunsInv
  <2>3. \A r \in Run : r \in InflightRows /\ OwnerOf[r] = p =>
          pc[r] = "dead" /\ store[r] # "success"
    BY <2>2 DEF InflightRows, IInv, RowInv
  <2>4. ASSUME NEW q \in Proc, NEW r \in Run, OwnerOf[r] = q
        PROVE  /\ proc'[q] # "serving" => Gone(r)
               /\ r \in orphans'[q] \/ Failing(q, r) => pc[r] = "dead" /\ store[r] # "success"
    <3>1. CASE q = p
      BY <2>1, <2>2, <2>3, <2>4, <3>1 DEF OwnRunsInv
    <3>2. CASE q # p
      BY <2>1, <2>4, <3>2 DEF OwnRunsInv
    <3>3. QED
      BY <3>1, <3>2
  <2>5. QED
    BY <2>1, <2>4 DEF OwnRunsInv, RowAgrees, Failing, Idle
<1>2. CASE RecoverRow(p)
  <2>1. PICK r \in orphans[p] :
          /\ orphans' = [orphans EXCEPT ![p] = @ \ {r}]
          /\ \/ UNCHANGED call
             \/ Issue(p, "update", r, "error", "error")
    BY <1>2 DEF RecoverRow
  <2>2. UNCHANGED <<recordVars, store, inserted, saved, recovered, pc, proc>>
    BY <1>2 DEF RecoverRow, history
  <2>3. /\ orphans'[p] \subseteq orphans[p]
        /\ \A q \in Proc \ {p} : orphans'[q] = orphans[q] /\ call'[q] = call[q]
        /\ call'[p] = call[p] \/ call'[p].run = r
    BY <2>1 DEF Issue, IInv, TypeOK
  <2>4. ASSUME NEW q \in Proc, NEW x \in Run, OwnerOf[x] = q
        PROVE  x \in orphans'[q] \/ (call'[q] # NoCall /\ call'[q].run = x)
                 => pc[x] = "dead" /\ store[x] # "success"
    <3>1. CASE q = p
      BY <2>1, <2>3, <2>4, <3>1 DEF OwnRunsInv, Failing, Idle
    <3>2. CASE q # p
      BY <2>3, <2>4, <3>2 DEF OwnRunsInv, Failing, Idle
    <3>3. QED
      BY <3>1, <3>2
  <2>5. QED
    BY <2>2, <2>4 DEF OwnRunsInv, RowAgrees, Failing, Idle
<1>3. CASE ProcessServes(p)
  <2>1. /\ proc'[p] = "serving" /\ \A q \in Proc \ {p} : proc'[q] = proc[q]
        /\ UNCHANGED <<recordVars, storeVars, pc, orphans>>
    BY <1>3 DEF ProcessServes, IInv, TypeOK
  <2>2. QED
    BY <2>1, OwnFrame
<1>4. CASE ProcessCrashes(p)
  <2>1. /\ orphans'[p] = {} /\ call'[p] = NoCall
        /\ \A q \in Proc \ {p} : /\ orphans'[q] = orphans[q] /\ call'[q] = call[q]
                                /\ proc'[q] = proc[q]
        /\ UNCHANGED <<store, inserted, saved, recovered>>
    BY <1>4 DEF ProcessCrashes, IInv, TypeOK
  <2>2. \A r \in Run : OwnerOf[r] = p => /\ Gone(r)' /\ (pc[r] # "idle" => pc'[r] = "dead")
                                        /\ (pc'[r] # "dead" => ~saved[r])
    BY <1>4 DEF ProcessCrashes, IInv, TypeOK, RecordInv
  <2>3. \A r \in Run : OwnerOf[r] # p => /\ pc'[r] = pc[r] /\ status'[r] = status[r]
                                        /\ abort'[r] = abort[r]
    BY <1>4 DEF ProcessCrashes, IInv, TypeOK, RecordTypeOK
  <2>4. ASSUME NEW q \in Proc, NEW x \in Run, OwnerOf[x] = q
        PROVE  /\ proc'[q] # "serving" => Gone(x)'
               /\ x \in orphans'[q] \/ (call'[q] # NoCall /\ call'[q].run = x)
                    => pc'[x] = "dead" /\ store'[x] # "success"
    <3>1. CASE q = p
      BY <2>1, <2>2, <2>4, <3>1
    <3>2. CASE q # p
      BY <2>1, <2>3, <2>4, <3>2 DEF OwnRunsInv, Failing, Idle
    <3>3. QED
      BY <3>1, <3>2
  <2>5. ASSUME NEW x \in Run
        PROVE  saved'[x] /\ inserted'[x] /\ pc'[x] # "dead" => RowAgrees(x)' \/ recovered'[x]
    BY <2>1, <2>2, <2>3 DEF OwnRunsInv, RowAgrees
  <2>6. QED
    BY <2>4, <2>5 DEF OwnRunsInv, Failing, Idle
<1>5. QED
  BY <1>1, <1>2, <1>3, <1>4 DEF Process

(* Every step of the system keeps OwnRunsInv. *)
LEMMA OwnNext ==
  ASSUME IInv, OwnRunsInv, [Next]_vars
  PROVE  OwnRunsInv'
<1>1. CASE UNCHANGED vars
  BY <1>1, OwnFrame
<1>2. CASE Next
  BY <1>2, OwnStore, OwnRequest, OwnWorker, OwnProcess DEF Next
<1>3. QED
  BY <1>1, <1>2

-----------------------------------------------------------------------------
(* The invariant holds in every reachable state, with any number of        *)
(* processes, requests and runs.                                           *)
THEOREM StoreInvariance == Spec => []IInv
<1>1. Init => IInv
  BY InitEstablishes
<1>2. QED
  BY <1>1, NextPreserves, PTL DEF Spec

(* Every variable keeps its type, through crashes and late answers.        *)
THEOREM StoreTypes == Spec => []TypeOK
<1>1. IInv => TypeOK
  BY DEF IInv
<1>2. QED
  BY <1>1, StoreInvariance, PTL

(* A process that serves has recovered, or failed to write, every row its  *)
(* previous lives left pending or running                                  *)
(* (reconcile_orphaned_inflight_runs), also beside other processes.        *)
THEOREM NoOrphanIsServed == Spec => []OrphansRecovered
<1>1. IInv => OrphansRecovered
  <2>. SUFFICES ASSUME IInv, NEW p \in Proc, proc[p] = "serving", NEW r \in Run,
                       OwnerOf[r] = p, pc[r] = "dead", store[r] \in Active
                PROVE  r \in missed[p]
    BY DEF OrphansRecovered
  <2>1. orphans[p] = {} /\ Idle(p)
    BY DEF IInv, ProcessCallInv
  <2>2. QED
    BY <2>1 DEF IInv, RecoveryInv
<1>2. QED
  BY <1>1, StoreInvariance, PTL

(* OwnRunsInv holds as well. *)
LEMMA OwnRunsInvariance == Spec => [](IInv /\ OwnRunsInv)
<1>1. Init => IInv /\ OwnRunsInv
  BY InitEstablishes
<1>2. IInv /\ OwnRunsInv /\ [Next]_vars => (IInv /\ OwnRunsInv)'
  BY NextPreserves, OwnNext
<1>3. QED
  BY <1>1, <1>2, PTL DEF Spec

(* However many processes start and die beside each other on one store, a  *)
(* process's reconciliation (deps.py) fails a row of a run it serves       *)
(* itself only when that run died in an earlier life of the process.       *)
THEOREM RestartSparesOwnRuns == Spec => []OwnRunsSpared
<1>1. OwnRunsInv => OwnRunsSpared
  BY DEF OwnRunsInv, OwnRunsSpared
<1>2. QED
  BY <1>1, OwnRunsInvariance, PTL

(* The row of a run whose creation was persisted tells what its record     *)
(* does once its calls are answered, in whatever order the retries let     *)
(* them be, with any number of processes on the store: only a              *)
(* reconciliation that wrote last can leave another status.                *)
THEOREM RowsAgree == Spec => []SettledRowAgrees
<1>1. IInv /\ OwnRunsInv => SettledRowAgrees
  BY DEF OwnRunsInv, SettledRowAgrees, Settled
<1>2. QED
  BY <1>1, OwnRunsInvariance, PTL

(* No write replaces the row of a run that succeeded, but a sibling's      *)
(* reconciliation.                                                         *)
LEMMA SuccessKept ==
  ASSUME IInv, OwnRunsInv, [Next]_vars
  PROVE  [\A r \in Run : store[r] = "success" =>
             \/ store'[r] = "success"
             \/ recovered'[r] /\ \E p \in Proc \ {OwnerOf[r]} : Failing(p, r)]_vars
<1>. USE CallerAssumption
<1>. SUFFICES ASSUME NEW r \in Run, store[r] = "success", Next
              PROVE  \/ store'[r] = "success"
                     \/ recovered'[r] /\ \E p \in Proc \ {OwnerOf[r]} : Failing(p, r)
  OBVIOUS
<1>1. status[r] = "success" \/ pc[r] = "dead"
  BY DEF IInv, RowInv
<1>2. ASSUME NEW k \in Caller, StoreAnswers(k)
      PROVE  \/ store'[r] = "success"
             \/ recovered'[r] /\ \E p \in Proc \ {OwnerOf[r]} : Failing(p, r)
  <2>1. CASE call[k].run # r
    BY <1>2, <2>1, AnswerToRow
  <2>2. CASE call[k].run = r
    <3>1. ~Idle(k)
      BY <1>2, AnswerToCaller
    <3>2. /\ k \in Run => /\ r = k /\ pc[r] \in {"working", "finishing", "completing"}
                          /\ pc[r] # "working" => Value(call[k]) = status[r]
          /\ k \in Client => ~Gone(r) /\ (pc[r] = "putting" \/ abort[r])
      BY <2>2, <3>1, ValueOfCall
    <3>3. k \in Proc => OwnerOf[r] # k /\ Failing(k, r)
      BY <2>2, <3>1 DEF OwnRunsInv, Failing
    <3>4. /\ status[r] = "success" => pc[r] \in {"finishing", "completing", "done"} /\ ~abort[r]
      BY DEF IInv, TypeOK, RecordTypeOK, RecordInv
    <3>5. k \notin Proc => Value(call[k]) = "success"
      BY <1>1, <3>2, <3>4
    <3>6. store'[r] = store[r] \/ (store'[r] = Value(call[k]) /\ (recovered'[r] <=> k \in Proc))
      BY <1>2, <2>2, AnswerToRow
    <3>7. QED
      BY <3>3, <3>5, <3>6
  <2>3. QED
    BY <2>1, <2>2
<1>3. ASSUME NEW k \in Caller, StoreGivesUp(k) PROVE store'[r] = "success"
  BY <1>3 DEF StoreGivesUp
<1>4. ASSUME NEW c \in Client, Request(c) PROVE store'[r] = "success"
  BY <1>4 DEF Request, PersistVictim, PersistRecord, LaunchRun, RefuseBody, CreateRun, CancelRun
<1>5. ASSUME NEW x \in Run, Worker(x) PROVE store'[r] = "success"
  BY <1>5 DEF Worker, WorkerStart, WorkerNeverStarts, WorkerFinish, WorkerCancelled,
              WorkerComplete, WorkerDone
<1>6. ASSUME NEW p \in Proc, Process(p) PROVE store'[r] = "success"
  BY <1>6 DEF Process, ProcessStarts, RecoverRow, ProcessServes, ProcessCrashes
<1>7. QED
  BY <1>2, <1>3, <1>4, <1>5, <1>6 DEF Next

(* A row that says success keeps saying so: neither delayed writes nor a   *)
(* restart of its process replace it, only the start of a sibling that     *)
(* listed the row while the run was under way.                             *)
THEOREM SuccessStays == Spec => SuccessIsDurable
<1>1. QED
  BY OwnRunsInvariance, SuccessKept, PTL DEF Spec, SuccessIsDurable

=============================================================================
