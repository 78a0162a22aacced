------------------------ MODULE SubagentTasksProofs ------------------------
(***************************************************************************)
(* What the threads that share the holder of a background subagent may     *)
(* rely on, for any number of tasks and any size of the pool.              *)
(*                                                                         *)
(* The invariant says of one task which thread may be inside               *)
(* try_set_terminal and what the holder has by then (HolderInv), that the  *)
(* entry stays until the task is removable (EntryInv), and what the tool   *)
(* has reported (ToolInv).  A step of one task leaves the others alone.    *)
(***************************************************************************)
EXTENDS SubagentTasks, SequenceTheorems, TLAPS

USE PoolAssumption

Live == {"polling", "shielded", "reporting", "settling"}

Types ==
  /\ entry \in [Task -> BOOLEAN]
  /\ status \in [Task -> {"absent", "pending", "running"} \cup Terminal]
  /\ payload \in [Task -> {"none"} \cup Terminal]
  /\ records \in [Task -> BOOLEAN]
  /\ lock \in [Task -> {"free", "exec", "sched"}]
  /\ queue \in Seq(Task)
  /\ sched \in [Task -> SchedState]
  /\ exec \in [Task -> {"none", "building", "streaming", "setting", "finished", "cancelled"}]
  /\ collected \in [Task -> BOOLEAN]
  /\ tool \in [Task -> {"idle", "returned"} \cup Live]
  /\ outcome \in [Task -> {"none", "poll_timeout", "disappeared", "settled", "abandoned"} \cup Terminal]
  /\ reported \in [Task -> BOOLEAN]
  /\ cleaner \in [Task -> {"off", "polling", "done", "gave_up"}]

\* Nobody has begun to write a terminal status.
Open(t) == payload[t] = "none" /\ lock[t] = "free" /\ status[t] \notin Terminal

HolderInv(t) ==
  /\ tool[t] = "idle" => Open(t) /\ sched[t] = "none" /\ exec[t] = "none"
  /\ sched[t] = "queued" => Open(t) /\ exec[t] = "none"
  /\ sched[t] = "failing" => Open(t) /\ exec[t] \in {"none", "cancelled"}
  /\ sched[t] = "waiting" /\ exec[t] \in {"building", "streaming", "cancelled"} => Open(t)
  /\ lock[t] = "exec" <=> exec[t] = "setting"
  /\ lock[t] = "sched" <=> sched[t] = "setting"
  /\ lock[t] # "free" => payload[t] \in Terminal /\ status[t] \notin Terminal
  /\ lock[t] = "free" /\ payload[t] # "none" => status[t] = payload[t]
  /\ status[t] \in Terminal => payload[t] = status[t]

EntryInv(t) ==
  /\ tool[t] # "idle" => entry[t] \/ Removable(t)
  /\ tool[t] \in Live => entry[t] /\ cleaner[t] = "off"
  /\ tool[t] = "idle" => cleaner[t] = "off"
  /\ sched[t] # "none" => tool[t] # "idle"

ToolInv(t) ==
  /\ tool[t] \in {"idle", "polling", "shielded"} => outcome[t] = "none"
  /\ tool[t] \in {"reporting", "settling"} => outcome[t] \in {"settled", "abandoned"}
  /\ outcome[t] = "settled" => payload[t] # "none"
  /\ outcome[t] \in Terminal => status[t] = outcome[t]
  /\ tool[t] \in {"settling", "returned"} /\ outcome[t] \in Terminal \cup {"settled"} /\ records[t]
       => reported[t]

TaskInv(t) == HolderInv(t) /\ EntryInv(t) /\ ToolInv(t)

\* The queue has each task that waits for a thread once.
QueueInv ==
  /\ \A i \in 1 .. Len(queue) : sched[queue[i]] = "queued"
  /\ \A i, j \in 1 .. Len(queue) : queue[i] = queue[j] => i = j

IInv == Types /\ QueueInv /\ \A t \in Task : TaskInv(t)

\* What a step of another task leaves alone.
Same(u) ==
  /\ entry'[u] = entry[u] /\ status'[u] = status[u] /\ payload'[u] = payload[u]
  /\ records'[u] = records[u] /\ lock'[u] = lock[u] /\ sched'[u] = sched[u]
  /\ exec'[u] = exec[u] /\ tool'[u] = tool[u] /\ outcome'[u] = outcome[u]
  /\ reported'[u] = reported[u] /\ cleaner'[u] = cleaner[u]

OnlyTask(t) == \A u \in Task \ {t} : Same(u)

LEMMA InitIInv == Init => IInv
  BY DEF Init, IInv, Types, SchedState, Terminal, Live, QueueInv, TaskInv, HolderInv, EntryInv,
         ToolInv, Open, Removable

LEMMA OneTaskSteps ==
  ASSUME IInv, NEW t \in Task, OnlyTask(t), Types', QueueInv', TaskInv(t)'
  PROVE  IInv'
  <1>1. ASSUME NEW u \in Task, u # t
        PROVE  TaskInv(u)'
    <2>1. Same(u) /\ TaskInv(u)
      BY <1>1 DEF OnlyTask, IInv
    <2> QED
      BY ONLY <2>1 DEF Same, TaskInv, HolderInv, EntryInv, ToolInv, Open, Removable
  <1> QED
    BY <1>1 DEF IInv

\* A step that takes no task from the queue and adds none.
LEMMA QueueKept ==
  ASSUME IInv, NEW t \in Task, OnlyTask(t), queue' = queue,
         sched[t] = "queued" => sched'[t] = "queued"
  PROVE  QueueInv'
  <1>1. QueueInv /\ queue \in Seq(Task)
    BY DEF IInv, Types
  <1>2. \A i \in 1 .. Len(queue) : queue[i] \in Task
    BY <1>1
  <1>3. \A u \in Task : sched[u] = "queued" => sched'[u] = "queued"
    BY DEF OnlyTask, Same
  <1> QED
    BY ONLY <1>1, <1>2, <1>3, queue' = queue DEF QueueInv

-----------------------------------------------------------------------------
(* try_set_terminal. *)

ExecState == {"none", "building", "streaming", "setting", "finished", "cancelled"}

LEMMA ResumeTypes ==
  ASSUME Types, NEW t \in Task, NEW by, NEW to, Resume(t, by, to)
  PROVE  sched' \in [Task -> SchedState] /\ exec' \in [Task -> ExecState]
  BY DEF Types, Resume, Set, SchedState, ExecState

LEMMA SetTerminalTypes ==
  ASSUME Types, NEW t \in Task, NEW by \in {"exec", "sched"}, NEW to \in Terminal,
         NEW recs \in BOOLEAN, SetTerminal(t, by, to, recs)
  PROVE  /\ status' \in [Task -> {"absent", "pending", "running"} \cup Terminal]
         /\ payload' \in [Task -> {"none"} \cup Terminal]
         /\ records' \in [Task -> BOOLEAN]
         /\ lock' \in [Task -> {"free", "exec", "sched"}]
         /\ sched' \in [Task -> SchedState] /\ exec' \in [Task -> ExecState]
  <1>1. CASE status[t] \in Terminal
    <2>1. UNCHANGED holder /\ Resume(t, by, to)
      BY <1>1 DEF SetTerminal
    <2> QED
      BY <2>1, ResumeTypes DEF Types, holder
  <1>2. CASE status[t] \notin Terminal
    <2>1. /\ lock' = Set(lock, t, by) /\ payload' = Set(payload, t, to)
          /\ records' = Set(records, t, recs) /\ status' = status
      BY <1>2 DEF SetTerminal
    <2>2. /\ payload' \in [Task -> {"none"} \cup Terminal]
          /\ records' \in [Task -> BOOLEAN]
          /\ lock' \in [Task -> {"free", "exec", "sched"}]
      BY <2>1 DEF Types, Set
    <2>3. sched' \in [Task -> SchedState] /\ exec' \in [Task -> ExecState]
      BY <1>2 DEF SetTerminal, Types, Set, SchedState, ExecState
    <2> QED
      BY <2>1, <2>2, <2>3 DEF Types
  <1> QED
    BY <1>1, <1>2

-----------------------------------------------------------------------------
(* The tool. *)

LEMMA PollKeeps ==
  ASSUME IInv, NEW t \in Task, Poll(t)
  PROVE  IInv'
  <1>1. Types /\ TaskInv(t)
    BY DEF IInv
  <1>2. Types'
    <2>1. entry' \in [Task -> BOOLEAN] /\ reported' \in [Task -> BOOLEAN]
      BY <1>1 DEF Types, Poll, Report, Set
    <2>2. tool' = Set(tool, t, "returned") /\ \E how : outcome' = Set(outcome, t, how)
                                             /\ how \in Terminal \cup {"disappeared"}
      BY <1>1 DEF Types, Poll, Return
    <2>3. /\ tool' \in [Task -> {"idle", "returned"} \cup Live]
          /\ outcome' \in [Task -> {"none", "poll_timeout", "disappeared", "settled", "abandoned"}
                                     \cup Terminal]
      BY <1>1, <2>2 DEF Types, Set
    <2> QED
      BY <1>1, <2>1, <2>3 DEF Types, Poll, holder, schedVars, execVars
  <1>3. OnlyTask(t) /\ queue' = queue /\ sched' = sched
    BY <1>1 DEF OnlyTask, Same, Types, Poll, Return, Report, Set, holder, schedVars, execVars
  <1>4. TaskInv(t)'
    BY <1>1 DEF TaskInv, HolderInv, EntryInv, ToolInv, Open, Removable, Types, Poll, Return,
                Report, Set, holder, schedVars, execVars, Terminal, Live
  <1>5. QueueInv'
    BY <1>3, QueueKept
  <1> QED
    BY <1>2, <1>3, <1>4, <1>5, OneTaskSteps

LEMMA PollTimeoutKeeps ==
  ASSUME IInv, NEW t \in Task, PollTimeout(t)
  PROVE  IInv'
  <1>1. Types /\ TaskInv(t)
    BY DEF IInv
  <1>2. Types'
    BY <1>1 DEF Types, PollTimeout, Return, Report, Set, holder, schedVars, execVars, SchedState, Terminal, Live
  <1>3. /\ OnlyTask(t) /\ queue' = queue
        /\ sched[t] = "queued" => sched'[t] = "queued"
    BY <1>1 DEF OnlyTask, Same, Types, TaskInv, HolderInv, PollTimeout, Return, Report, Set, holder, schedVars, execVars
  <1>4. TaskInv(t)'
    BY <1>1 DEF TaskInv, HolderInv, EntryInv, ToolInv, Open, Removable, Types,
                PollTimeout, Return, Report, Set, holder, schedVars, execVars, Terminal, Live
  <1>5. QueueInv'
    BY <1>3, QueueKept
  <1> QED
    BY <1>2, <1>3, <1>4, <1>5, OneTaskSteps

LEMMA ToolCancelledKeeps ==
  ASSUME IInv, NEW t \in Task, ToolCancelled(t)
  PROVE  IInv'
  <1>1. Types /\ TaskInv(t)
    BY DEF IInv
  <1>2. Types'
    BY <1>1 DEF Types, ToolCancelled, Set, holder, schedVars, execVars, SchedState, Terminal, Live
  <1>3. /\ OnlyTask(t) /\ queue' = queue
        /\ sched[t] = "queued" => sched'[t] = "queued"
    BY <1>1 DEF OnlyTask, Same, Types, TaskInv, HolderInv, ToolCancelled, Set, holder, schedVars, execVars
  <1>4. TaskInv(t)'
    BY <1>1 DEF TaskInv, HolderInv, EntryInv, ToolInv, Open, Removable, Types,
                ToolCancelled, Set, holder, schedVars, execVars, Terminal, Live
  <1>5. QueueInv'
    BY <1>3, QueueKept
  <1> QED
    BY <1>2, <1>3, <1>4, <1>5, OneTaskSteps

LEMMA ShieldEndsKeeps ==
  ASSUME IInv, NEW t \in Task, ShieldEnds(t)
  PROVE  IInv'
  <1>1. Types /\ TaskInv(t)
    BY DEF IInv
  <1>2. Types'
    BY <1>1 DEF Types, ShieldEnds, Set, holder, schedVars, execVars, SchedState, Terminal, Live
  <1>3. /\ OnlyTask(t) /\ queue' = queue
        /\ sched[t] = "queued" => sched'[t] = "queued"
    BY <1>1 DEF OnlyTask, Same, Types, TaskInv, HolderInv, ShieldEnds, Set, holder, schedVars, execVars
  <1>4. TaskInv(t)'
    BY <1>1 DEF TaskInv, HolderInv, EntryInv, ToolInv, Open, Removable, Types,
                ShieldEnds, Set, holder, schedVars, execVars, Terminal, Live
  <1>5. QueueInv'
    BY <1>3, QueueKept
  <1> QED
    BY <1>2, <1>3, <1>4, <1>5, OneTaskSteps

LEMMA SettleReportKeeps ==
  ASSUME IInv, NEW t \in Task, SettleReport(t)
  PROVE  IInv'
  <1>1. Types /\ TaskInv(t)
    BY DEF IInv
  <1>2. Types'
    BY <1>1 DEF Types, SettleReport, Report, Set, holder, schedVars, execVars, SchedState, Terminal, Live
  <1>3. /\ OnlyTask(t) /\ queue' = queue
        /\ sched[t] = "queued" => sched'[t] = "queued"
    BY <1>1 DEF OnlyTask, Same, Types, TaskInv, HolderInv, SettleReport, Report, Set, holder, schedVars, execVars
  <1>4. TaskInv(t)'
    BY <1>1 DEF TaskInv, HolderInv, EntryInv, ToolInv, Open, Removable, Types,
                SettleReport, Report, Set, holder, schedVars, execVars, Terminal, Live
  <1>5. QueueInv'
    BY <1>3, QueueKept
  <1> QED
    BY <1>2, <1>3, <1>4, <1>5, OneTaskSteps

LEMMA SettleCleanupKeeps ==
  ASSUME IInv, NEW t \in Task, SettleCleanup(t)
  PROVE  IInv'
  <1>1. Types /\ TaskInv(t)
    BY DEF IInv
  <1>2. Types'
    BY <1>1 DEF Types, SettleCleanup, Set, holder, schedVars, execVars, SchedState, Terminal, Live
  <1>3. /\ OnlyTask(t) /\ queue' = queue
        /\ sched[t] = "queued" => sched'[t] = "queued"
    BY <1>1 DEF OnlyTask, Same, Types, TaskInv, HolderInv, SettleCleanup, Set, holder, schedVars, execVars
  <1>4. TaskInv(t)'
    BY <1>1 DEF TaskInv, HolderInv, EntryInv, ToolInv, Open, Removable, Types,
                SettleCleanup, Set, holder, schedVars, execVars, Terminal, Live
  <1>5. QueueInv'
    BY <1>3, QueueKept
  <1> QED
    BY <1>2, <1>3, <1>4, <1>5, OneTaskSteps

-----------------------------------------------------------------------------
(* The cleaner. *)

LEMMA CleanerPollKeeps ==
  ASSUME IInv, NEW t \in Task, CleanerPoll(t)
  PROVE  IInv'
  <1>1. Types /\ TaskInv(t)
    BY DEF IInv
  <1>2. Types'
    BY <1>1 DEF Types, CleanerPoll, Set, holder, schedVars, execVars, toolVars, SchedState, Terminal, Live
  <1>3. /\ OnlyTask(t) /\ queue' = queue
        /\ sched[t] = "queued" => sched'[t] = "queued"
    BY <1>1 DEF OnlyTask, Same, Types, TaskInv, HolderInv, CleanerPoll, Set, holder, schedVars, execVars, toolVars
  <1>4. TaskInv(t)'
    BY <1>1 DEF TaskInv, HolderInv, EntryInv, ToolInv, Open, Removable, Types,
                CleanerPoll, Set, holder, schedVars, execVars, toolVars, Terminal, Live
  <1>5. QueueInv'
    BY <1>3, QueueKept
  <1> QED
    BY <1>2, <1>3, <1>4, <1>5, OneTaskSteps

LEMMA CleanerTimeoutKeeps ==
  ASSUME IInv, NEW t \in Task, CleanerTimeout(t)
  PROVE  IInv'
  <1>1. Types /\ TaskInv(t)
    BY DEF IInv
  <1>2. Types'
    BY <1>1 DEF Types, CleanerTimeout, Set, holder, schedVars, execVars, toolVars, SchedState, Terminal, Live
  <1>3. /\ OnlyTask(t) /\ queue' = queue
        /\ sched[t] = "queued" => sched'[t] = "queued"
    BY <1>1 DEF OnlyTask, Same, Types, TaskInv, HolderInv, CleanerTimeout, Set, holder, schedVars, execVars, toolVars
  <1>4. TaskInv(t)'
    BY <1>1 DEF TaskInv, HolderInv, EntryInv, ToolInv, Open, Removable, Types,
                CleanerTimeout, Set, holder, schedVars, execVars, toolVars, Terminal, Live
  <1>5. QueueInv'
    BY <1>3, QueueKept
  <1> QED
    BY <1>2, <1>3, <1>4, <1>5, OneTaskSteps

-----------------------------------------------------------------------------
(* The scheduler's thread. *)

LEMMA FutureDoneKeeps ==
  ASSUME IInv, NEW t \in Task, FutureDone(t)
  PROVE  IInv'
  <1>1. Types /\ TaskInv(t)
    BY DEF IInv
  <1>2. Types'
    BY <1>1 DEF Types, FutureDone, Set, holder, execVars, toolVars, SchedState, Terminal, Live
  <1>3. /\ OnlyTask(t) /\ queue' = queue
        /\ sched[t] = "queued" => sched'[t] = "queued"
    BY <1>1 DEF OnlyTask, Same, Types, TaskInv, HolderInv, FutureDone, Set, holder, execVars, toolVars
  <1>4. TaskInv(t)'
    BY <1>1 DEF TaskInv, HolderInv, EntryInv, ToolInv, Open, Removable, Types,
                FutureDone, Set, holder, execVars, toolVars, Terminal, Live
  <1>5. QueueInv'
    BY <1>3, QueueKept
  <1> QED
    BY <1>2, <1>3, <1>4, <1>5, OneTaskSteps

LEMMA ExecutionTimeoutKeeps ==
  ASSUME IInv, NEW t \in Task, ExecutionTimeout(t)
  PROVE  IInv'
  <1>1. Types /\ TaskInv(t)
    BY DEF IInv
  <1>2. Types'
    BY <1>1 DEF Types, ExecutionTimeout, Set, holder, execVars, toolVars, SchedState, Terminal, Live
  <1>3. /\ OnlyTask(t) /\ queue' = queue
        /\ sched[t] = "queued" => sched'[t] = "queued"
    BY <1>1 DEF OnlyTask, Same, Types, TaskInv, HolderInv, ExecutionTimeout, Set, holder, execVars, toolVars
  <1>4. TaskInv(t)'
    BY <1>1 DEF TaskInv, HolderInv, EntryInv, ToolInv, Open, Removable, Types,
                ExecutionTimeout, Set, holder, execVars, toolVars, Terminal, Live
  <1>5. QueueInv'
    BY <1>3, QueueKept
  <1> QED
    BY <1>2, <1>3, <1>4, <1>5, OneTaskSteps

LEMMA RecordFailureKeeps ==
  ASSUME IInv, NEW t \in Task, RecordFailure(t)
  PROVE  IInv'
  <1>1. Types /\ TaskInv(t)
    BY DEF IInv
  <1>2. Types'
    <2>1. CASE entry[t]
      <3>1. SetTerminal(t, "sched", "failed", records[t]) /\ "failed" \in Terminal /\ records[t] \in BOOLEAN
        BY <1>1, <2>1 DEF RecordFailure, Types, Terminal
      <3> QED
        BY <1>1, <3>1, SetTerminalTypes DEF Types, RecordFailure, toolVars, ExecState
    <2>2. CASE ~entry[t]
      BY <1>1, <2>2 DEF Types, RecordFailure, Set, holder, toolVars, SchedState
    <2> QED
      BY <2>1, <2>2
  <1>3. /\ OnlyTask(t) /\ queue' = queue
        /\ sched[t] = "queued" => sched'[t] = "queued"
    BY <1>1 DEF OnlyTask, Same, Types, TaskInv, HolderInv, RecordFailure, SetTerminal, Resume, Set, holder, toolVars
  <1>4. TaskInv(t)'
    BY <1>1 DEF TaskInv, HolderInv, EntryInv, ToolInv, Open, Removable, Types,
                RecordFailure, SetTerminal, Resume, Set, holder, toolVars, Terminal, Live
  <1>5. QueueInv'
    BY <1>3, QueueKept
  <1> QED
    BY <1>2, <1>3, <1>4, <1>5, OneTaskSteps

LEMMA RecordTimeoutKeeps ==
  ASSUME IInv, NEW t \in Task, RecordTimeout(t)
  PROVE  IInv'
  <1>1. Types /\ TaskInv(t)
    BY DEF IInv
  <1>2. Types'
    <2>1. SetTerminal(t, "sched", "timed_out", records[t]) /\ "timed_out" \in Terminal /\ records[t] \in BOOLEAN
      BY <1>1 DEF RecordTimeout, Types, Terminal
    <2> QED
      BY <1>1, <2>1, SetTerminalTypes DEF Types, RecordTimeout, toolVars, ExecState
  <1>3. /\ OnlyTask(t) /\ queue' = queue
        /\ sched[t] = "queued" => sched'[t] = "queued"
    BY <1>1 DEF OnlyTask, Same, Types, TaskInv, HolderInv, RecordTimeout, SetTerminal, Resume, Set, holder, toolVars
  <1>4. TaskInv(t)'
    BY <1>1 DEF TaskInv, HolderInv, EntryInv, ToolInv, Open, Removable, Types,
                RecordTimeout, SetTerminal, Resume, Set, holder, toolVars, Terminal, Live
  <1>5. QueueInv'
    BY <1>3, QueueKept
  <1> QED
    BY <1>2, <1>3, <1>4, <1>5, OneTaskSteps

-----------------------------------------------------------------------------
(* The execution, and the end of try_set_terminal. *)

LEMMA ExecPreCheckKeeps ==
  ASSUME IInv, NEW t \in Task, ExecPreCheck(t)
  PROVE  IInv'
  <1>1. Types /\ TaskInv(t)
    BY DEF IInv
  <1>2. Types'
    <2>1. CASE cancelEvent[t]
      <3>1. /\ SetTerminal(t, "exec", "cancelled", FALSE) /\ "cancelled" \in Terminal
            /\ UNCHANGED <<entry, collected, queue, toolVars, cleaner>>
        BY <2>1 DEF ExecPreCheck, Terminal
      <3>2. /\ status' \in [Task -> {"absent", "pending", "running"} \cup Terminal]
            /\ payload' \in [Task -> {"none"} \cup Terminal]
            /\ records' \in [Task -> BOOLEAN]
            /\ lock' \in [Task -> {"free", "exec", "sched"}]
            /\ sched' \in [Task -> SchedState] /\ exec' \in [Task -> ExecState]
        BY <1>1, <3>1, SetTerminalTypes
      <3> QED
        BY ONLY <1>1, <3>1, <3>2 DEF Types, toolVars, ExecState
    <2>2. CASE ~cancelEvent[t]
      BY <1>1, <2>2 DEF Types, ExecPreCheck, Set, holder, toolVars, SchedState
    <2> QED
      BY <2>1, <2>2
  <1>3. /\ OnlyTask(t) /\ queue' = queue
        /\ sched[t] = "queued" => sched'[t] = "queued"
    BY <1>1 DEF OnlyTask, Same, Types, TaskInv, HolderInv, ExecPreCheck, SetTerminal, Resume, Set, holder, toolVars
  <1>4. TaskInv(t)'
    BY <1>1 DEF TaskInv, HolderInv, EntryInv, ToolInv, Open, Removable, Types,
                ExecPreCheck, SetTerminal, Resume, Set, holder, toolVars, Terminal, Live
  <1>5. QueueInv'
    BY <1>3, QueueKept
  <1> QED
    BY <1>2, <1>3, <1>4, <1>5, OneTaskSteps

LEMMA ExecEndsKeeps ==
  ASSUME IInv, NEW t \in Task, ExecEnds(t)
  PROVE  IInv'
  <1>1. Types /\ TaskInv(t)
    BY DEF IInv
  <1>2. Types'
    <2>1. PICK to \in {"completed", "failed", "cancelled"} : SetTerminal(t, "exec", to, collected[t])
      BY DEF ExecEnds
    <2>2. to \in Terminal /\ collected[t] \in BOOLEAN
      BY <1>1 DEF Types, Terminal
    <2> QED
      BY <1>1, <2>1, <2>2, SetTerminalTypes DEF Types, ExecEnds, toolVars, ExecState
  <1>3. /\ OnlyTask(t) /\ queue' = queue
        /\ sched[t] = "queued" => sched'[t] = "queued"
    BY <1>1 DEF OnlyTask, Same, Types, TaskInv, HolderInv, ExecEnds, SetTerminal, Resume, Set, holder, toolVars
  <1>4. TaskInv(t)'
    BY <1>1 DEF TaskInv, HolderInv, EntryInv, ToolInv, Open, Removable, Types,
                ExecEnds, SetTerminal, Resume, Set, holder, toolVars, Terminal, Live
  <1>5. QueueInv'
    BY <1>3, QueueKept
  <1> QED
    BY <1>2, <1>3, <1>4, <1>5, OneTaskSteps

LEMMA ExecCancelledKeeps ==
  ASSUME IInv, NEW t \in Task, ExecCancelled(t)
  PROVE  IInv'
  <1>1. Types /\ TaskInv(t)
    BY DEF IInv
  <1>2. Types'
    BY <1>1 DEF Types, ExecCancelled, Set, holder, schedVars, toolVars, SchedState, Terminal, Live
  <1>3. /\ OnlyTask(t) /\ queue' = queue
        /\ sched[t] = "queued" => sched'[t] = "queued"
    BY <1>1 DEF OnlyTask, Same, Types, TaskInv, HolderInv, ExecCancelled, Set, holder, schedVars, toolVars
  <1>4. TaskInv(t)'
    BY <1>1 DEF TaskInv, HolderInv, EntryInv, ToolInv, Open, Removable, Types,
                ExecCancelled, Set, holder, schedVars, toolVars, Terminal, Live
  <1>5. QueueInv'
    BY <1>3, QueueKept
  <1> QED
    BY <1>2, <1>3, <1>4, <1>5, OneTaskSteps

LEMMA WriteStatusKeeps ==
  ASSUME IInv, NEW t \in Task, WriteStatus(t)
  PROVE  IInv'
  <1>1. Types /\ TaskInv(t)
    BY DEF IInv
  <1>2. Types'
    <2>1. Resume(t, lock[t], payload[t]) /\ payload[t] \in Terminal
      BY <1>1 DEF WriteStatus, TaskInv, HolderInv
    <2>2. sched' \in [Task -> SchedState] /\ exec' \in [Task -> ExecState]
      BY <1>1, <2>1, ResumeTypes
    <2> QED
      BY <1>1, <2>1, <2>2 DEF Types, WriteStatus, Set, toolVars, ExecState
  <1>3. /\ OnlyTask(t) /\ queue' = queue
        /\ sched[t] = "queued" => sched'[t] = "queued"
    BY <1>1 DEF OnlyTask, Same, Types, TaskInv, HolderInv, WriteStatus, Resume, Set, toolVars
  <1>4. TaskInv(t)'
    BY <1>1 DEF TaskInv, HolderInv, EntryInv, ToolInv, Open, Removable, Types,
                WriteStatus, Resume, Set, toolVars, Terminal, Live
  <1>5. QueueInv'
    BY <1>3, QueueKept
  <1> QED
    BY <1>2, <1>3, <1>4, <1>5, OneTaskSteps

-----------------------------------------------------------------------------
(* The queue. *)

LEMMA StartTaskKeeps ==
  ASSUME IInv, NEW t \in Task, StartTask(t)
  PROVE  IInv'
  <1>1. Types /\ TaskInv(t) /\ QueueInv
    BY DEF IInv
  <1>2. queue' = Append(queue, t) /\ sched' = Set(sched, t, "queued") /\ sched[t] = "none"
    BY <1>1 DEF StartTask, TaskInv, HolderInv
  <1>3. /\ queue \in Seq(Task) /\ queue' \in Seq(Task) /\ Len(queue) \in Nat
        /\ Len(queue') = Len(queue) + 1
        /\ \A i \in 1 .. Len(queue) : queue'[i] = queue[i] /\ queue[i] \in Task
        /\ queue'[Len(queue) + 1] = t
    BY <1>1, <1>2 DEF Types
  <1>4. Types'
    BY <1>1, <1>3 DEF Types, StartTask, Set, execVars, SchedState, Terminal, Live
  <1>5. OnlyTask(t) /\ sched'[t] = "queued"
    BY <1>1 DEF OnlyTask, Same, Types, StartTask, Set, execVars
  <1>6. TaskInv(t)'
    BY <1>1 DEF TaskInv, HolderInv, EntryInv, ToolInv, Open, Removable, Types,
                StartTask, Set, execVars, Terminal, Live
  <1>7. QueueInv'
    <2>1. \A i \in 1 .. Len(queue) : queue[i] # t /\ sched'[queue[i]] = "queued"
      BY <1>1, <1>2, <1>3, <1>5 DEF QueueInv, OnlyTask, Same
    <2>2. \A i \in 1 .. Len(queue) + 1 : i \in 1 .. Len(queue) \/ i = Len(queue) + 1
      BY ONLY <1>3
    <2>3. \A i \in 1 .. Len(queue') : sched'[queue'[i]] = "queued"
      BY ONLY <1>3, <1>5, <2>1, <2>2
    <2>4. \A i, j \in 1 .. Len(queue') : queue'[i] = queue'[j] => i = j
      BY ONLY <1>1, <1>3, <2>1, <2>2 DEF QueueInv
    <2> QED
      BY ONLY <2>3, <2>4 DEF QueueInv
  <1> QED
    BY <1>4, <1>5, <1>6, <1>7, OneTaskSteps

LEMMA RunTaskKeeps ==
  ASSUME IInv, NEW t \in Task, RunTask(t)
  PROVE  IInv'
  <1>1. Types /\ TaskInv(t) /\ QueueInv
    BY DEF IInv
  <1>2. queue \in Seq(Task) /\ queue # << >> /\ t = Head(queue) /\ queue' = Tail(queue)
    BY <1>1 DEF Types, RunTask
  <1>3. /\ queue' \in Seq(Task) /\ Len(queue) \in Nat /\ Len(queue) >= 1
        /\ Len(queue') = Len(queue) - 1 /\ queue[1] = t
        /\ \A i \in 1 .. Len(queue) - 1 : queue'[i] = queue[i + 1]
    BY ONLY <1>2
  <1>4. sched[t] = "queued" /\ 1 \in 1 .. Len(queue)
    BY ONLY <1>1, <1>3 DEF QueueInv
  <1>5. Types'
    <2>1. /\ sched' \in [Task -> SchedState]
          /\ exec' \in [Task -> {"none", "building", "streaming", "setting", "finished", "cancelled"}]
          /\ status' \in [Task -> {"absent", "pending", "running"} \cup Terminal]
      BY <1>1 DEF RunTask, Set, Types, SchedState
    <2> QED
      BY <1>1, <1>3, <2>1 DEF Types, RunTask, toolVars
  <1>6. OnlyTask(t)
    BY <1>1 DEF OnlyTask, Same, Types, RunTask, Set, toolVars
  <1>7. TaskInv(t)'
    BY <1>1, <1>4 DEF TaskInv, HolderInv, EntryInv, ToolInv, Open, Removable, Types,
                RunTask, Set, toolVars, Terminal, Live
  <1>8. QueueInv'
    <2>1. \A i \in 1 .. Len(queue) : queue[i] \in Task
      BY <1>2
    <2>2. \A i \in 1 .. Len(queue) - 1 :
            /\ i + 1 \in 1 .. Len(queue) /\ i + 1 # 1 /\ i \in Int
      BY ONLY <1>3
    <2>3. \A i \in 1 .. Len(queue) - 1 : queue[i + 1] # t /\ queue[i + 1] \in Task
      BY ONLY <1>1, <1>3, <1>4, <2>1, <2>2 DEF QueueInv
    <2>4. \A i \in 1 .. Len(queue') : sched'[queue'[i]] = "queued"
      <3>1. \A u \in Task \ {t} : sched'[u] = sched[u]
        BY <1>6 DEF OnlyTask, Same
      <3> QED
        BY ONLY <1>1, <1>3, <2>2, <2>3, <3>1 DEF QueueInv
    <2>5. \A i, j \in 1 .. Len(queue') : queue'[i] = queue'[j] => i = j
      BY ONLY <1>1, <1>3, <2>2 DEF QueueInv
    <2> QED
      BY ONLY <2>4, <2>5 DEF QueueInv
  <1> QED
    BY <1>5, <1>6, <1>7, <1>8, OneTaskSteps

-----------------------------------------------------------------------------
LEMMA NextIInv == IInv /\ [Next]_vars => IInv'
  <1> SUFFICES ASSUME IInv, [Next]_vars
               PROVE  IInv'
    OBVIOUS
  <1>1. CASE UNCHANGED vars
    <2>1. /\ entry' = entry /\ status' = status /\ payload' = payload /\ records' = records
          /\ lock' = lock /\ queue' = queue /\ sched' = sched /\ exec' = exec
          /\ collected' = collected /\ tool' = tool /\ outcome' = outcome
          /\ reported' = reported /\ cleaner' = cleaner
      BY <1>1 DEF vars, holder, schedVars, execVars, toolVars
    <2>2. Types' /\ QueueInv'
      BY ONLY <2>1, IInv DEF IInv, Types, QueueInv
    <2>3. \A t \in Task : TaskInv(t)'
      BY ONLY <2>1, IInv DEF IInv, TaskInv, HolderInv, EntryInv, ToolInv, Open, Removable
    <2> QED
      BY <2>2, <2>3 DEF IInv
  <1>2. CASE Next
    <2>1. PICK t \in Task :
            \/ StartTask(t) \/ Poll(t) \/ PollTimeout(t)
            \/ ToolCancelled(t) \/ ShieldEnds(t) \/ Settle(t)
            \/ CleanerPoll(t) \/ CleanerTimeout(t)
            \/ Scheduler(t) \/ WriteStatus(t) \/ Execution(t)
      BY <1>2 DEF Next
    <2>2. CASE StartTask(t) \/ Poll(t) \/ PollTimeout(t) \/ ToolCancelled(t) \/ ShieldEnds(t)
      BY <2>2, StartTaskKeeps, PollKeeps, PollTimeoutKeeps, ToolCancelledKeeps, ShieldEndsKeeps
    <2>3. CASE Settle(t) \/ CleanerPoll(t) \/ CleanerTimeout(t)
      BY <2>3, SettleReportKeeps, SettleCleanupKeeps, CleanerPollKeeps, CleanerTimeoutKeeps DEF Settle
    <2>4. CASE Scheduler(t) \/ WriteStatus(t)
      BY <2>4, RunTaskKeeps, FutureDoneKeeps, RecordFailureKeeps, ExecutionTimeoutKeeps,
         RecordTimeoutKeeps, WriteStatusKeeps DEF Scheduler
    <2>5. CASE Execution(t)
      BY <2>5, ExecPreCheckKeeps, ExecEndsKeeps, ExecCancelledKeeps DEF Execution
    <2> QED
      BY <2>1, <2>2, <2>3, <2>4, <2>5
  <1> QED
    BY <1>1, <1>2

\* The invariant is inductive: which thread writes a holder fixes what the
\* holder, the entry and the report of its task can be.
THEOREM Invariance == Spec => []IInv
  BY InitIInv, NextIInv, PTL DEF Spec

-----------------------------------------------------------------------------
(* What the threads may rely on. *)

\* The outcome the tool reports is the one whose result the holder has,
\* although Poll reads the holder without its lock (task_tool).
THEOREM ReportedOutcomeIsComplete == Spec => []OutcomeIsComplete
  <1>1. IInv => OutcomeIsComplete
    <2> SUFFICES ASSUME IInv, NEW t \in Task, outcome[t] \in Terminal
                 PROVE  payload[t] = outcome[t]
      BY DEF OutcomeIsComplete
    <2> QED
      BY DEF IInv, TaskInv, HolderInv, ToolInv
  <1> QED
    BY <1>1, Invariance, PTL

\* run_task finds its entry when a pool thread takes the task and when its
\* execution failed.
THEOREM RunTaskFindsItsEntry == Spec => []EntryUntilTaken
  <1>1. IInv => EntryUntilTaken
    <2> SUFFICES ASSUME IInv, NEW t \in Task, sched[t] \in {"queued", "failing"}
                 PROVE  entry[t]
      BY DEF EntryUntilTaken
    <2>1. TaskInv(t)
      BY DEF IInv
    <2> QED
      BY <2>1 DEF TaskInv, HolderInv, EntryInv, Open, Removable
  <1> QED
    BY <1>1, Invariance, PTL

\* The usage of a subagent that ended, or that a cancelled tool waited for, is
\* in the parent's journal when the tool returns.
THEOREM UsageIsReported == Spec => []UsageReported
  <1>1. IInv => UsageReported
    <2> SUFFICES ASSUME IInv, NEW t \in Task, tool[t] = "returned", records[t],
                        outcome[t] \in {"completed", "failed", "cancelled", "settled"}
                 PROVE  reported[t]
      BY DEF UsageReported
    <2>1. TaskInv(t)
      BY DEF IInv
    <2> QED
      BY <2>1 DEF TaskInv, ToolInv, Terminal
  <1> QED
    BY <1>1, Invariance, PTL

\* The first terminal transition wins (SubagentResult.try_set_terminal): nothing
\* changes a holder whose status is terminal.
THEOREM FirstTransitionWins == Spec => FirstTerminalWins
  <1>1. IInv /\ [Next]_vars =>
          [\A t \in Task : status[t] \in Terminal =>
             /\ status'[t] = status[t]
             /\ payload'[t] = payload[t]
             /\ records'[t] = records[t]]_vars
    <2> SUFFICES ASSUME IInv, Next, NEW t \in Task, status[t] \in Terminal
                 PROVE  /\ status'[t] = status[t]
                        /\ payload'[t] = payload[t]
                        /\ records'[t] = records[t]
      OBVIOUS
    <2>1. /\ TaskInv(t) /\ Types /\ QueueInv
      BY DEF IInv
    <2>2. PICK u \in Task :
            \/ StartTask(u) \/ Poll(u) \/ PollTimeout(u)
            \/ ToolCancelled(u) \/ ShieldEnds(u) \/ Settle(u)
            \/ CleanerPoll(u) \/ CleanerTimeout(u)
            \/ Scheduler(u) \/ WriteStatus(u) \/ Execution(u)
      BY DEF Next
    <2>3. CASE UNCHANGED holder
      BY <2>3 DEF holder
    <2>4. CASE StartTask(u)
      BY <2>1, <2>4 DEF StartTask, Set, execVars, TaskInv, HolderInv, Open, Types
    <2>5. CASE RunTask(u)
      <3>1. queue \in Seq(Task) /\ queue # << >> /\ u = Head(queue)
        BY <2>1, <2>5 DEF Types, RunTask
      <3>2. 1 \in 1 .. Len(queue) /\ queue[1] = u
        BY ONLY <3>1
      <3>3. sched[u] = "queued"
        BY ONLY <2>1, <3>2 DEF QueueInv
      <3>4. u # t
        BY <2>1, <3>3 DEF TaskInv, HolderInv, Open
      <3> QED
        BY <2>1, <2>5, <3>4 DEF RunTask, Set, Types
    <2>6. CASE WriteStatus(u)
      BY <2>1, <2>6 DEF WriteStatus, Set, TaskInv, HolderInv, Types
    <2>7. CASE \E by, to, recs : SetTerminal(u, by, to, recs)
      BY <2>1, <2>7 DEF SetTerminal, holder, Set, Types
    <2>8. \/ UNCHANGED holder \/ StartTask(u) \/ RunTask(u) \/ WriteStatus(u)
          \/ \E by, to, recs : SetTerminal(u, by, to, recs)
      BY <2>2 DEF Poll, PollTimeout, ToolCancelled, ShieldEnds, Settle, SettleReport,
                  SettleCleanup, CleanerPoll, CleanerTimeout, Scheduler, FutureDone,
                  RecordFailure, ExecutionTimeout, RecordTimeout, Execution, ExecPreCheck,
                  ExecEnds, ExecCancelled
    <2> QED
      BY <2>3, <2>4, <2>5, <2>6, <2>7, <2>8
  <1> QED
    BY <1>1, Invariance, PTL DEF Spec, FirstTerminalWins
=============================================================================
