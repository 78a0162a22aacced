--------------------------- MODULE SubagentTasks ---------------------------
(***************************************************************************)
(* Background subagent tasks: the result holder that three threads share,  *)
(* the registry _background_tasks, and the tool that started the task.     *)
(*                                                                         *)
(*   tool    task_tool on the gateway's event loop: it polls the holder,   *)
(*           reports its token usage, removes its entry; its run may be    *)
(*           cancelled while it sleeps                                     *)
(*   cleaner _deferred_cleanup_subagent_task on the same loop              *)
(*   sched   run_task on a thread of the scheduler pool: it starts the     *)
(*           execution and waits for it with a timeout                     *)
(*   exec    _aexecute on the isolated event loop of a third thread        *)
(*                                                                         *)
(* A step is what one of them does between two points where another thread *)
(* can be seen: a section under _background_tasks_lock, a field of the     *)
(* holder written under its _state_lock (which readers do not take), an    *)
(* await.  A task id is used once (it is the id of the tool call), and     *)
(* tasks are numbered in the order they are submitted.                     *)
(***************************************************************************)
EXTENDS Naturals, FiniteSets, Sequences

CONSTANTS
  Tasks,  \* bound: tasks submitted
  Pool    \* threads of the scheduler pool

ASSUME PoolAssumption == Pool \in Nat \ {0} /\ Tasks \in Nat

Task == 1 .. Tasks

VARIABLES
  entry,       \* the task is in _background_tasks
  status,      \* SubagentResult.status
  payload,     \* whose result, error and completed_at the holder has
  records,     \* token_usage_records has the collected usage
  lock,        \* the thread in try_set_terminal: "free", "exec", "sched"
  cancelEvent,
  queue,       \* tasks submitted to the pool and not started
  waited,      \* the task found every thread of the pool taken
  sched,
  exec,
  collected,   \* the token collector has records
  tool,
  outcome,     \* the terminal status the tool reported, or how it left
  reported,    \* the usage was given to the parent's journal
  cleaner

holder == <<status, payload, records, lock>>
execVars == <<exec, collected>>
schedVars == <<queue, waited, sched>>
toolVars == <<tool, outcome, reported>>
vars == <<entry, holder, cancelEvent, schedVars, execVars, toolVars, cleaner>>

Terminal == {"completed", "failed", "cancelled", "timed_out"}
SchedState == {"none", "queued", "waiting", "timing_out", "failing", "setting",
               "cancelled", "done"}
(* A thread of the pool is executing run_task. *)
BusySched == SchedState \ {"none", "queued", "cancelled", "done"}

TypeOK ==
  /\ entry \in [Task -> BOOLEAN]
  /\ status \in [Task -> {"absent", "pending", "running"} \cup Terminal]
  /\ payload \in [Task -> {"none"} \cup Terminal]
  /\ records \in [Task -> BOOLEAN]
  /\ lock \in [Task -> {"free", "exec", "sched"}]
  /\ cancelEvent \in [Task -> BOOLEAN]
  /\ queue \in Seq(Task)
  /\ waited \in [Task -> BOOLEAN]
  /\ sched \in [Task -> SchedState]
  /\ Cardinality({t \in Task : sched[t] \in BusySched}) <= Pool
  /\ exec \in [Task -> {"none", "building", "streaming", "setting", "finished", "cancelled"}]
  /\ collected \in [Task -> BOOLEAN]
  /\ tool \in [Task -> {"idle", "polling", "shielded", "reporting", "settling", "returned"}]
  /\ outcome \in [Task -> {"none", "poll_timeout", "disappeared", "settled", "abandoned"} \cup Terminal]
  /\ reported \in [Task -> BOOLEAN]
  /\ cleaner \in [Task -> {"off", "polling", "done", "gave_up"}]

Init ==
  /\ entry = [t \in Task |-> FALSE]
  /\ status = [t \in Task |-> "absent"]
  /\ payload = [t \in Task |-> "none"]
  /\ records = [t \in Task |-> FALSE]
  /\ lock = [t \in Task |-> "free"]
  /\ cancelEvent = [t \in Task |-> FALSE]
  /\ queue = <<>>
  /\ waited = [t \in Task |-> FALSE]
  /\ sched = [t \in Task |-> "none"]
  /\ exec = [t \in Task |-> "none"]
  /\ collected = [t \in Task |-> FALSE]
  /\ tool = [t \in Task |-> "idle"]
  /\ outcome = [t \in Task |-> "none"]
  /\ reported = [t \in Task |-> FALSE]
  /\ cleaner = [t \in Task |-> "off"]

Set(f, t, v) == [f EXCEPT ![t] = v]

-----------------------------------------------------------------------------
(* Mutated forms: plausible bugs in the definitions below.                 *)

StatusBeforePayload(t, by, to, recs) ==
  /\ lock[t] = "free"
  /\ status[t] \notin Terminal
  /\ lock' = Set(lock, t, by)
  /\ status' = Set(status, t, to)
  /\ records' = Set(records, t, recs)
  /\ IF by = "exec" THEN exec' = Set(exec, t, "setting") /\ UNCHANGED sched
                    ELSE sched' = Set(sched, t, "setting") /\ UNCHANGED exec
  /\ UNCHANGED payload

LastTerminalWins(t, by, to, recs) ==
  /\ lock[t] = "free"
  /\ lock' = Set(lock, t, by)
  /\ payload' = Set(payload, t, to)
  /\ records' = Set(records, t, recs)
  /\ IF by = "exec" THEN exec' = Set(exec, t, "setting") /\ UNCHANGED sched
                    ELSE sched' = Set(sched, t, "setting") /\ UNCHANGED exec
  /\ UNCHANGED status

FutureDoneIgnoresRaise(t) ==
  /\ sched[t] = "waiting" /\ exec[t] \in {"finished", "cancelled"}
  /\ sched' = Set(sched, t, "done")
  /\ UNCHANGED <<entry, holder, cancelEvent, queue, waited, execVars, toolVars, cleaner>>

ReportOnlyTerminal(t) ==
  /\ tool[t] = "reporting"
  /\ reported' = Set(reported, t, reported[t] \/ (status[t] \in Terminal /\ records[t]))
  /\ tool' = Set(tool, t, "settling")
  /\ UNCHANGED <<entry, holder, cancelEvent, schedVars, execVars, outcome, cleaner>>

SettleWithoutCleaner(t) ==
  /\ tool[t] = "settling"
  /\ tool' = Set(tool, t, "returned")
  /\ entry' = Set(entry, t, entry[t] /\ status[t] \notin Terminal)
  /\ UNCHANGED <<holder, cancelEvent, schedVars, execVars, outcome, reported, cleaner>>

CleanerDeletesOnTimeout(t) ==
  /\ cleaner[t] = "polling" /\ waited[t]
  /\ entry' = Set(entry, t, FALSE)
  /\ cleaner' = Set(cleaner, t, "gave_up")
  /\ UNCHANGED <<holder, cancelEvent, schedVars, execVars, toolVars>>

-----------------------------------------------------------------------------
(* try_set_terminal *)

(* Where the caller goes when the method returned; after TIMED_OUT run_task *)
(* cancels the future and returns.                                         *)
Resume(t, by, to) ==
  IF by = "exec"
  THEN exec' = Set(exec, t, "finished") /\ UNCHANGED sched
  ELSE /\ sched' = Set(sched, t, IF to = "timed_out" THEN "cancelled" ELSE "done")
       /\ UNCHANGED exec

(* The lock is taken: the first terminal transition writes result, error,  *)
(* usage and completed_at; a later one returns False.                      *)
SetTerminal(t, by, to, recs) ==
  /\ lock[t] = "free"
  /\ IF status[t] \in Terminal
     THEN UNCHANGED holder /\ Resume(t, by, to)
     ELSE /\ lock' = Set(lock, t, by)
          /\ payload' = Set(payload, t, to)
          /\ records' = Set(records, t, recs)
          /\ IF by = "exec" THEN exec' = Set(exec, t, "setting") /\ UNCHANGED sched
                            ELSE sched' = Set(sched, t, "setting") /\ UNCHANGED exec
          /\ UNCHANGED status

(* The status is the last field written, then the lock is released.        *)
WriteStatus(t) ==
  /\ lock[t] # "free"
  /\ status' = Set(status, t, payload[t])
  /\ lock' = Set(lock, t, "free")
  /\ Resume(t, lock[t], payload[t])
  /\ UNCHANGED <<entry, payload, records, cancelEvent, queue, waited,
                 collected, toolVars, cleaner>>

-----------------------------------------------------------------------------
(* run_task *)

Busy == {t \in Task : sched[t] \in BusySched}

(* A thread of the pool takes the oldest task, marks it running and        *)
(* submits its execution to the isolated loop, or that raises.  A task     *)
(* whose entry is gone raises KeyError and is never executed.              *)
RunTask(t) ==
  /\ queue # <<>> /\ Head(queue) = t /\ Cardinality(Busy) < Pool
  /\ queue' = Tail(queue)
  /\ IF entry[t]
     THEN /\ status' = Set(status, t, "running")
          /\ \/ sched' = Set(sched, t, "waiting") /\ exec' = Set(exec, t, "building")
             \/ sched' = Set(sched, t, "failing") /\ UNCHANGED exec
     ELSE sched' = Set(sched, t, "done") /\ UNCHANGED <<status, exec>>
  /\ UNCHANGED <<entry, payload, records, lock, cancelEvent, waited, collected,
                 toolVars, cleaner>>

(* future.result answers, or raises because the coroutine was cancelled. *)
FutureDone(t) ==
  /\ sched[t] = "waiting" /\ exec[t] \in {"finished", "cancelled"}
  /\ sched' = Set(sched, t, IF exec[t] = "finished" THEN "done" ELSE "failing")
  /\ UNCHANGED <<entry, holder, cancelEvent, queue, waited, execVars, toolVars, cleaner>>

(* The outer except: the entry is looked up once more. *)
RecordFailure(t) ==
  /\ sched[t] = "failing"
  /\ IF entry[t]
     THEN SetTerminal(t, "sched", "failed", records[t])
     ELSE sched' = Set(sched, t, "done") /\ UNCHANGED <<holder, exec>>
  /\ UNCHANGED <<entry, cancelEvent, queue, waited, collected, toolVars, cleaner>>

(* timeout_seconds passed and the future is not done. *)
ExecutionTimeout(t) ==
  /\ sched[t] = "waiting" /\ exec[t] \notin {"finished", "cancelled"}
  /\ sched' = Set(sched, t, "timing_out")
  /\ cancelEvent' = Set(cancelEvent, t, TRUE)
  /\ UNCHANGED <<entry, holder, queue, waited, execVars, toolVars, cleaner>>

RecordTimeout(t) ==
  /\ sched[t] = "timing_out"
  /\ SetTerminal(t, "sched", "timed_out", records[t])
  /\ UNCHANGED <<entry, cancelEvent, queue, waited, collected, toolVars, cleaner>>

-----------------------------------------------------------------------------
(* _aexecute *)

(* The agent was built; the check before the stream begins.  The collector *)
(* has usage from the first model call of the stream on.                   *)
ExecPreCheck(t) ==
  /\ exec[t] = "building"
  /\ IF cancelEvent[t]
     THEN SetTerminal(t, "exec", "cancelled", FALSE) /\ UNCHANGED collected
     ELSE /\ exec' = Set(exec, t, "streaming")
          /\ collected' = Set(collected, t, TRUE)
          /\ UNCHANGED <<holder, sched>>
  /\ UNCHANGED <<entry, cancelEvent, queue, waited, toolVars, cleaner>>

(* The loop of astream: a chunk after the cancel event, the end of the     *)
(* stream, or an exception.                                                *)
ExecEnds(t) ==
  /\ exec[t] \in {"building", "streaming"}
  /\ \E to \in {"completed", "failed", "cancelled"} :
       /\ to = "completed" => exec[t] = "streaming"
       /\ to = "cancelled" => exec[t] = "streaming" /\ cancelEvent[t]
       /\ SetTerminal(t, "exec", to, collected[t])
  /\ UNCHANGED <<entry, cancelEvent, queue, waited, collected, toolVars, cleaner>>

(* CancelledError at an await, from execution_future.cancel() or from a    *)
(* library the agent uses: it is not an Exception and leaves _aexecute.    *)
ExecCancelled(t) ==
  /\ exec[t] \in {"building", "streaming"}
  /\ exec[t] = "streaming" \/ sched[t] = "cancelled"
  /\ exec' = Set(exec, t, "cancelled")
  /\ UNCHANGED <<entry, holder, cancelEvent, schedVars, collected, toolVars, cleaner>>

-----------------------------------------------------------------------------
(* task_tool *)

(* execute_async: the holder is stored and run_task submitted. *)
StartTask(t) ==
  /\ tool[t] = "idle" /\ \A u \in 1 .. t - 1 : tool[u] # "idle"
  /\ entry' = Set(entry, t, TRUE)
  /\ status' = Set(status, t, "pending")
  /\ queue' = Append(queue, t)
  /\ waited' = Set(waited, t, Cardinality(Busy) + Len(queue) >= Pool)
  /\ sched' = Set(sched, t, "queued")
  /\ tool' = Set(tool, t, "polling")
  /\ UNCHANGED <<payload, records, lock, cancelEvent, execVars, outcome, reported,
                 cleaner>>

(* _is_subagent_terminal, and the test of cleanup_background_task: the     *)
(* status is terminal or completed_at is set.                              *)
Removable(t) == status[t] \in Terminal \/ payload[t] # "none"

Report(t) == reported' = Set(reported, t, reported[t] \/ records[t])

Return(t, how) == tool' = Set(tool, t, "returned") /\ outcome' = Set(outcome, t, how)

(* One poll.  The tool goes on sleeping unless the entry is gone or the    *)
(* status is terminal, which it reports before it removes the entry.       *)
Poll(t) ==
  /\ tool[t] = "polling"
  /\ entry[t] => status[t] \in Terminal
  /\ IF entry[t]
     THEN Return(t, status[t]) /\ Report(t) /\ entry' = Set(entry, t, FALSE)
     ELSE Return(t, "disappeared") /\ UNCHANGED <<entry, reported>>
  /\ UNCHANGED <<holder, cancelEvent, schedVars, execVars, cleaner>>

(* The polls cover the execution's timeout and a minute more, so they run  *)
(* out on a task that had to wait for a thread of the pool.                *)
PollTimeout(t) ==
  /\ tool[t] = "polling" /\ waited[t]
  /\ Report(t)
  /\ cancelEvent' = Set(cancelEvent, t, cancelEvent[t] \/ entry[t])
  /\ cleaner' = Set(cleaner, t, "polling")
  /\ Return(t, "poll_timeout")
  /\ UNCHANGED <<entry, holder, schedVars, execVars>>

(* The parent run is cancelled while the tool sleeps. *)
ToolCancelled(t) ==
  /\ tool[t] = "polling"
  /\ cancelEvent' = Set(cancelEvent, t, cancelEvent[t] \/ entry[t])
  /\ tool' = Set(tool, t, "shielded")
  /\ UNCHANGED <<entry, holder, schedVars, execVars, outcome, reported, cleaner>>

(* _await_subagent_terminal returns the holder once it is removable; it    *)
(* returns nothing when the entry is gone or its polls run out, and it is  *)
(* left when the tool is cancelled again.                                  *)
ShieldEnds(t) ==
  /\ tool[t] = "shielded"
  /\ \/ /\ entry[t] /\ Removable(t)
        /\ outcome' = Set(outcome, t, "settled")
     \/ outcome' = Set(outcome, t, "abandoned")
  /\ tool' = Set(tool, t, "reporting")
  /\ UNCHANGED <<entry, holder, cancelEvent, schedVars, execVars, reported, cleaner>>

(* The usage is reported whether or not the subagent finished. *)
SettleReport(t) ==
  /\ tool[t] = "reporting"
  /\ IF entry[t] THEN Report(t) ELSE UNCHANGED reported
  /\ tool' = Set(tool, t, "settling")
  /\ UNCHANGED <<entry, holder, cancelEvent, schedVars, execVars, outcome, cleaner>>

(* The entry is removed now or left to the cleaner; the error is raised. *)
SettleCleanup(t) ==
  /\ tool[t] = "settling"
  /\ tool' = Set(tool, t, "returned")
  /\ IF entry[t] /\ Removable(t)
     THEN entry' = Set(entry, t, FALSE) /\ UNCHANGED cleaner
     ELSE cleaner' = Set(cleaner, t, "polling") /\ UNCHANGED entry
  /\ UNCHANGED <<holder, cancelEvent, schedVars, execVars, outcome, reported>>

(* _deferred_cleanup_subagent_task: one poll. *)
CleanerPoll(t) ==
  /\ cleaner[t] = "polling"
  /\ entry[t] => Removable(t)
  /\ entry' = Set(entry, t, FALSE)
  /\ cleaner' = Set(cleaner, t, "done")
  /\ UNCHANGED <<holder, cancelEvent, schedVars, execVars, toolVars>>

(* Its polls run out, see PollTimeout. *)
CleanerTimeout(t) ==
  /\ cleaner[t] = "polling" /\ waited[t]
  /\ entry[t] /\ ~Removable(t)
  /\ cleaner' = Set(cleaner, t, "gave_up")
  /\ UNCHANGED <<entry, holder, cancelEvent, schedVars, execVars, toolVars>>

-----------------------------------------------------------------------------
Scheduler(t) ==
  \/ RunTask(t) \/ FutureDone(t) \/ RecordFailure(t)
  \/ ExecutionTimeout(t) \/ RecordTimeout(t)

Execution(t) ==
  ExecPreCheck(t) \/ ExecEnds(t) \/ ExecCancelled(t)

Settle(t) == SettleReport(t) \/ SettleCleanup(t)

Next ==
  \E t \in Task :
    \/ StartTask(t) \/ Poll(t) \/ PollTimeout(t)
    \/ ToolCancelled(t) \/ ShieldEnds(t) \/ Settle(t)
    \/ CleanerPoll(t) \/ CleanerTimeout(t)
    \/ Scheduler(t) \/ WriteStatus(t) \/ Execution(t)

(* Threads of the pool run, their timed wait ends, a section under the     *)
(* lock is finished, sleeps end and the event loop of the gateway runs its *)
(* coroutines.  The execution has no fairness: a model call or a tool of   *)
(* the subagent may hang for ever.                                         *)
Fairness ==
  \A t \in Task :
    /\ WF_vars(Scheduler(t)) /\ WF_vars(WriteStatus(t))
    /\ WF_vars(Poll(t)) /\ WF_vars(Settle(t))
    /\ WF_vars(ShieldEnds(t) /\ outcome'[t] = "settled")
    /\ WF_vars(CleanerPoll(t))

Spec == Init /\ [][Next]_vars /\ Fairness

-----------------------------------------------------------------------------
(* The first terminal transition wins: once a holder's status is terminal, *)
(* neither a late answer of the execution nor the timeout changes its      *)
(* status or its payload.                                                  *)
FirstTerminalWins ==
  [][\A t \in Task : status[t] \in Terminal =>
       /\ status'[t] = status[t]
       /\ payload'[t] = payload[t]
       /\ records'[t] = records[t]]_vars

(* The tool reads the holder without its lock, while another thread may be *)
(* inside try_set_terminal: the outcome it reports is the one whose result *)
(* the holder has, completely written.                                     *)
OutcomeIsComplete ==
  \A t \in Task :
    outcome[t] \in Terminal => payload[t] = outcome[t]

(* run_task looks its entry up when it starts and when it failed: the      *)
(* entry is there, although three places remove entries concurrently.  A   *)
(* missing one is a KeyError in a pool thread that nobody sees, and a task *)
(* that never becomes terminal.                                            *)
EntryUntilTaken ==
  \A t \in Task : sched[t] \in {"queued", "failing"} => entry[t]

(* The usage of a subagent that completed, failed or was cancelled is in   *)
(* the parent's journal when the tool returns, also when the parent was    *)
(* cancelled and waited for the subagent to become terminal.               *)
UsageReported ==
  \A t \in Task :
    /\ tool[t] = "returned"
    /\ outcome[t] \in {"completed", "failed", "cancelled", "settled"}
    /\ records[t]
    => reported[t]

(* Every submitted task gets a terminal status, even when its execution    *)
(* hangs and although it may wait for a thread of the pool.                *)
TaskEnds == \A t \in Task : status[t] = "pending" ~> status[t] \in Terminal

(* The tool returns or raises and the entry is removed, whatever the       *)
(* subagent does, unless the deferred cleanup ran out of polls.            *)
EntryRemoved == \A t \in Task : entry[t] ~> ~entry[t] \/ cleaner[t] = "gave_up"

(* token_collector.py: "After the subagent finishes, the collected records *)
(* are transferred to the parent RunJournal"; the tool reports a terminal  *)
(* status of the subagent together with what the collector has by then.    *)
UsageTransferred ==
  [][\A t \in Task :
       /\ tool[t] = "polling" /\ tool'[t] = "returned"
       /\ outcome'[t] \in Terminal /\ collected[t]
       => reported'[t]]_vars

=============================================================================
