----------------------------- MODULE RunManager -----------------------------
(***************************************************************************)
(* The in-memory run registry of the gateway: the fields of RunRecord that *)
(* decide control, and the sections of RunManager that run under its       *)
(* asyncio lock.  No such section awaits while it holds the lock, so each  *)
(* one is a single atomic step of the event loop; what a method does after *)
(* it releases the lock (the writes to the run store) is modelled in       *)
(* RunStore.                                                               *)
(*                                                                         *)
(* The operators below are the bodies of the locked sections.  They are    *)
(* not a specification by themselves: RunLifecycle composes them with the  *)
(* requests that call them and the worker task that executes a run.        *)
(***************************************************************************)
EXTENDS Naturals, FiniteSets

CONSTANTS
  Run,       \* run ids; uuid4, so an id is used by one create only
  Thread,    \* conversation threads
  ThreadOf   \* the thread each run is created on

ASSUME ThreadAssumption == ThreadOf \in [Run -> Thread]

VARIABLES
  status,    \* RunRecord.status; "absent" before the record exists
  abort,     \* RunRecord.abort_event is set
  action,    \* RunRecord.abort_action
  task,      \* RunRecord.task: "none", created and not stepped yet
             \* ("scheduled"), stepped ("running"), or done()
  cancelReq  \* task.cancel() was called and has not been delivered yet

recordVars == <<status, abort, action, task, cancelReq>>

Active   == {"pending", "running"}
Terminal == {"success", "error", "interrupted"}
Status   == {"absent"} \cup Active \cup Terminal
Strategy == {"reject", "interrupt", "rollback"}
Action   == {"interrupt", "rollback"}
TaskState == {"none", "scheduled", "running", "done"}

RecordTypeOK ==
  /\ status \in [Run -> Status]
  /\ abort \in [Run -> BOOLEAN]
  /\ action \in [Run -> Action]
  /\ task \in [Run -> TaskState]
  /\ cancelReq \in [Run -> BOOLEAN]

RecordInit ==
  /\ status = [r \in Run |-> "absent"]
  /\ abort = [r \in Run |-> FALSE]
  /\ action = [r \in Run |-> "interrupt"]
  /\ task = [r \in Run |-> "none"]
  /\ cancelReq = [r \in Run |-> FALSE]

-----------------------------------------------------------------------------
(* Mutated forms: each is a plausible bug in the definition named below,   *)
(* and some property of RunLifecycle must reject it.                       *)

InflightOnlyRunning(t) == {r \in Run : ThreadOf[r] = t /\ status[r] = "running"}

CancelIgnoresStatus(r, a) ==
  /\ status[r] # "absent"
  /\ abort' = [abort EXCEPT ![r] = TRUE]
  /\ action' = [action EXCEPT ![r] = a]
  /\ cancelReq' = cancelReq
  /\ status' = [status EXCEPT ![r] = "interrupted"]

-----------------------------------------------------------------------------
(* The records of thread t whose status is pending or running.             *)
Inflight(t) == {r \in Run : ThreadOf[r] = t /\ status[r] \in Active}

(* abort_action, abort_event.set() and task.cancel() for each record of S. *)
(* A record whose task is still None only gets the event.                  *)
Abort(S, a) ==
  /\ abort' = [r \in Run |-> abort[r] \/ r \in S]
  /\ action' = [r \in Run |-> IF r \in S THEN a ELSE action[r]]
  /\ cancelReq' = [r \in Run |-> \/ cancelReq[r]
                                 \/ r \in S /\ task[r] \in {"scheduled", "running"}]

(* set_status: an unconditional overwrite of the record's status.          *)
SetStatus(r, s) == status' = [status EXCEPT ![r] = s]

(* cancel(run_id, action).  An unknown run, a run already interrupted and  *)
(* a finished run change nothing (the method returns False, True, False).  *)
Cancel(r, a) ==
  /\ status[r] \in Active
  /\ Abort({r}, a)
  /\ SetStatus(r, "interrupted")

(* create_or_reject: with "reject" the request fails, and changes nothing, *)
(* while the thread has an inflight run; otherwise every inflight run of   *)
(* the thread is aborted and the new record is inserted as pending.        *)
CreateOrReject(r, strategy) ==
  LET victims == Inflight(ThreadOf[r]) IN
  /\ status[r] = "absent"
  /\ strategy = "reject" => victims = {}
  /\ Abort(victims, strategy)
  /\ status' = [x \in Run |-> CASE x = r         -> "pending"
                                [] x \in victims -> "interrupted"
                                [] OTHER         -> status[x]]

=============================================================================
