--------------------------- MODULE MemoryUpdates ---------------------------
(***************************************************************************)
(* The long-term memory of one user: the queue that collects finished      *)
(* conversations (agents/memory/queue.py), the updates its timer threads   *)
(* make (agents/memory/updater.py), the edits of the REST endpoints, and   *)
(* the file with its cache in every process (agents/memory/storage.py).    *)
(*                                                                         *)
(* A conversation is queued as the target it updates and whether the user  *)
(* corrected the agent in it.  The contents of the memory are abstracted   *)
(* to the number of the save that wrote them, 0 when there is no file; a   *)
(* save gives the file a modification time of its own, so the time that    *)
(* stat returns is the number of the save, too.  The debounced `add' and   *)
(* the immediate `add_nowait' differ in their delay alone, and time is     *)
(* left out: an armed timer may fire at any moment.  flush, flush_nowait   *)
(* and clear are not called outside the tests.                             *)
(***************************************************************************)
EXTENDS Naturals, Sequences, SequencesExt

CONSTANTS
  Targets,   \* the debounce identities: thread, user and agent
  Timers,    \* timer threads that may exist at one time
  Procs,     \* processes that share the file, each with an event loop
  Home,      \* the process whose queue is modelled
  MaxAdds,   \* bound on the conversations queued
  MaxSaves   \* bound on the saves that reach the file

ASSUME MemoryAssumption ==
  /\ Home \in Procs
  /\ Timers # {} /\ Timers \cap Procs = {}
  /\ MaxAdds \in Nat /\ MaxSaves \in Nat

VARIABLES
  queue,       \* _queue: the contexts waiting, oldest first
  current,     \* _timer: at most one timer
  processing,  \* _processing
  phase,       \* of a timer thread: free, armed, fired (at the lock), working
  batch,       \* contexts_to_process of a thread, those not yet begun
  adds,        \* conversations queued so far
  file,        \* the save the file holds
  cache,       \* _memory_cache of a process: [data, mtime]
  todo,        \* steps on the storage a thread or an event loop has left
  data, mtime  \* memory_data and current_mtime of its call, 0 outside

queueVars == <<queue, current, processing, phase, batch, adds>>
storageVars == <<file, cache, todo, data, mtime>>
memoryVars == <<queueVars, storageVars>>

Context == [target : Targets, corrected : BOOLEAN]
Hands == Timers \cup Procs  \* who may be inside a call of the storage
Uncached == [data |-> 0, mtime |-> MaxSaves + 1]  \* no entry equals no mtime
ProcOf(h) == IF h \in Timers THEN Home ELSE h

(***************************************************************************)
(* The calls of FileMemoryStorage, each as the steps another thread or     *)
(* process may come between.                                               *)
(***************************************************************************)
Load == <<"stat", "check", "read", "put">>
Reload == <<"read", "stat", "put">>
Save == <<"replace", "stat", "put">>

\* What the endpoints of gateway/routers/memory.py do on the event loop.
Requests == {Load,            \* get, export and the prompt of an agent
             Reload,
             Save,            \* clear
             Load \o Save,    \* create, update and delete a fact
             Save \o Load}    \* import

\* What update_memory does between which the model is called.
Update == Load \o Save

MemoryInit ==
  /\ queue = << >> /\ current = {} /\ processing = FALSE /\ adds = 0
  /\ phase = [t \in Timers |-> "free"]
  /\ batch = [t \in Timers |-> << >>]
  /\ file = 0
  /\ cache = [p \in Procs |-> Uncached]
  /\ todo = [h \in Hands |-> << >>]
  /\ data = [h \in Hands |-> 0] /\ mtime = [h \in Hands |-> 0]

-----------------------------------------------------------------------------
(* The queue. *)

Corrected(q, tg) == \E c \in ToSet(q) : c.target = tg /\ c.corrected

(* Mutated form: the signal of the older context is dropped. *)
EnqueueNewest(tg, corrected) ==
  queue' = Append(SelectSeq(queue, LAMBDA c : c.target # tg),
                  [target |-> tg, corrected |-> corrected])

\* _enqueue_locked: the newest context of a target replaces an older one,
\* whose signal it takes over.
Enqueue(tg, corrected) ==
  LET others == SelectSeq(queue, LAMBDA c : c.target # tg)
  IN  queue' = Append(others, [target |-> tg,
                               corrected |-> corrected \/ Corrected(queue, tg)])

\* _schedule_timer: cancelling has no effect on a timer that has fired.
Schedule(t) ==
  /\ phase' = [u \in Timers |-> CASE u = t -> "armed"
                                  [] u # t /\ u \in current /\ phase[u] = "armed" -> "free"
                                  [] OTHER -> phase[u]]
  /\ current' = {t}

\* add and add_nowait, under the lock.
Add(tg, corrected) ==
  /\ adds < MaxAdds
  /\ adds' = adds + 1
  /\ Enqueue(tg, corrected)
  /\ \E t \in Timers : phase[t] = "free" /\ Schedule(t)
  /\ UNCHANGED <<processing, batch, storageVars>>

Fire(t) ==
  /\ phase[t] = "armed"
  /\ phase' = [phase EXCEPT ![t] = "fired"]
  /\ UNCHANGED <<queue, current, processing, batch, adds, storageVars>>

(* Mutated form: a timer that finds a batch in progress just ends. *)
ProcessOrLeave(t) ==
  /\ phase[t] = "fired"
  /\ \/ /\ processing \/ queue = << >>
        /\ phase' = [phase EXCEPT ![t] = "free"]
        /\ UNCHANGED <<queue, current, processing, batch>>
     \/ /\ ~processing /\ queue # << >>
        /\ processing' = TRUE
        /\ phase' = [phase EXCEPT ![t] = "working"]
        /\ batch' = [batch EXCEPT ![t] = queue]
        /\ queue' = << >> /\ current' = {}
  /\ UNCHANGED <<adds, storageVars>>

(* Mutated form: the flag is not looked at. *)
ProcessAlways(t) ==
  /\ phase[t] = "fired" /\ queue # << >>
  /\ processing' = TRUE
  /\ phase' = [phase EXCEPT ![t] = "working"]
  /\ batch' = [batch EXCEPT ![t] = queue]
  /\ queue' = << >> /\ current' = {}
  /\ UNCHANGED <<adds, storageVars>>

\* The section of _process_queue under the lock.  A timer that finds a batch
\* in progress starts another timer and ends, so the new one takes its place.
Process(t) ==
  /\ phase[t] = "fired"
  /\ \/ /\ processing
        /\ Schedule(t)
        /\ UNCHANGED <<queue, processing, batch>>
     \/ /\ ~processing /\ queue = << >>
        /\ phase' = [phase EXCEPT ![t] = "free"]
        /\ UNCHANGED <<queue, current, processing, batch>>
     \/ /\ ~processing /\ queue # << >>
        /\ processing' = TRUE
        /\ phase' = [phase EXCEPT ![t] = "working"]
        /\ batch' = [batch EXCEPT ![t] = queue]
        /\ queue' = << >> /\ current' = {}
  /\ UNCHANGED <<adds, storageVars>>

\* The loop of _process_queue: update_memory for the next context.
NextContext(t) ==
  /\ phase[t] = "working" /\ todo[t] = << >> /\ batch[t] # << >>
  /\ batch' = [batch EXCEPT ![t] = Tail(@)]
  /\ todo' = [todo EXCEPT ![t] = Update]
  /\ UNCHANGED <<queue, current, processing, phase, adds, file, cache, data, mtime>>

\* The finally of _process_queue.
EndBatch(t) ==
  /\ phase[t] = "working" /\ todo[t] = << >> /\ batch[t] = << >>
  /\ processing' = FALSE
  /\ phase' = [phase EXCEPT ![t] = "free"]
  /\ UNCHANGED <<queue, current, batch, adds, storageVars>>

-----------------------------------------------------------------------------
(* The storage. *)

\* A request of the REST API begins; its handler never yields the loop.
Request(p) ==
  /\ todo[p] = << >>
  /\ \E r \in Requests : todo' = [todo EXCEPT ![p] = r]
  /\ UNCHANGED <<queueVars, file, cache, data, mtime>>

At(h, s) == todo[h] # << >> /\ Head(todo[h]) = s
Advance(h) == todo' = [todo EXCEPT ![h] = Tail(@)]

Stat(h) ==
  /\ At(h, "stat")
  /\ mtime' = [mtime EXCEPT ![h] = file]
  /\ Advance(h)
  /\ UNCHANGED <<queueVars, file, cache, data>>

\* load looks into the cache under the lock; a hit ends the call there.
CheckCache(h) ==
  /\ At(h, "check")
  /\ \/ /\ cache[ProcOf(h)].mtime = mtime[h]
        /\ todo' = [todo EXCEPT ![h] = SubSeq(@, Len(Load), Len(@))]
        /\ mtime' = [mtime EXCEPT ![h] = 0]
     \/ /\ cache[ProcOf(h)].mtime # mtime[h]
        /\ Advance(h)
        /\ UNCHANGED mtime
  /\ UNCHANGED <<queueVars, file, cache, data>>

ReadFile(h) ==
  /\ At(h, "read")
  /\ data' = [data EXCEPT ![h] = file]
  /\ Advance(h)
  /\ UNCHANGED <<queueVars, file, cache, mtime>>

PutCache(h) ==
  /\ At(h, "put")
  /\ cache' = [cache EXCEPT ![ProcOf(h)] = [data |-> data[h], mtime |-> mtime[h]]]
  /\ data' = [data EXCEPT ![h] = 0] /\ mtime' = [mtime EXCEPT ![h] = 0]
  /\ Advance(h)
  /\ UNCHANGED <<queueVars, file>>

\* The temporary file takes the place of the old one.
ReplaceFile(h) ==
  /\ At(h, "replace") /\ file < MaxSaves
  /\ file' = file + 1
  /\ data' = [data EXCEPT ![h] = file + 1]
  /\ Advance(h)
  /\ UNCHANGED <<queueVars, cache, mtime>>

\* Instead of a save: the write fails, the fact is not found, the model fails
\* or its answer is no JSON.  Nothing more is done for the request or context.
Fail(h) ==
  /\ At(h, "replace")
  /\ todo' = [todo EXCEPT ![h] = << >>]
  /\ UNCHANGED <<queueVars, file, cache, data, mtime>>

StorageStep(h) ==
  Stat(h) \/ CheckCache(h) \/ ReadFile(h) \/ PutCache(h) \/ ReplaceFile(h) \/ Fail(h)

TimerStep(t) == Fire(t) \/ Process(t) \/ NextContext(t) \/ EndBatch(t) \/ StorageStep(t)

MemoryNext ==
  \/ \E tg \in Targets, corrected \in BOOLEAN : Add(tg, corrected)
  \/ \E t \in Timers : TimerStep(t)
  \/ \E p \in Procs : Request(p) \/ StorageStep(p)

\* A timer fires when its delay is over, and a thread that runs goes on.
MemoryFairness == \A t \in Timers : WF_memoryVars(TimerStep(t))

MemorySpec == MemoryInit /\ [][MemoryNext]_memoryVars /\ MemoryFairness

-----------------------------------------------------------------------------
(* Properties. *)

Steps == {"stat", "check", "read", "put", "replace"}

\* The variables have their types; the batch, its thread and the flag agree,
\* and only a thread that works or a loop is inside a call of the storage.
MemoryTypeOK ==
  /\ queue \in Seq(Context) /\ current \subseteq Timers
  /\ processing \in BOOLEAN /\ adds \in 0 .. MaxAdds
  /\ phase \in [Timers -> {"free", "armed", "fired", "working"}]
  /\ batch \in [Timers -> Seq(Context)]
  /\ file \in 0 .. MaxSaves
  /\ cache \in [Procs -> [data : 0 .. MaxSaves, mtime : 0 .. MaxSaves + 1]]
  /\ todo \in [Hands -> Seq(Steps)]
  /\ data \in [Hands -> 0 .. MaxSaves] /\ mtime \in [Hands -> 0 .. MaxSaves]
  /\ \A t \in Timers : phase[t] # "working" => batch[t] = << >> /\ todo[t] = << >>

\* The updates of a process do not overlap: one batch is in progress at most,
\* although timers that were cancelled too late go on beside the current one.
OneBatch ==
  /\ \A t, u \in Timers : phase[t] = "working" /\ phase[u] = "working" => t = u
  /\ processing = (\E t \in Timers : phase[t] = "working")

\* No conversation is left behind: while the queue holds one, a timer is armed
\* or its thread is about to take the lock, whatever was cancelled, fired too
\* early or found another batch in progress.
QueuedIsScheduled ==
  queue # << >> => \E t \in Timers : phase[t] \in {"armed", "fired"}

\* A correction the user made in a queued conversation reaches an update of its
\* target, also when later conversations without one take its place.
CorrectionIsUsed ==
  \A tg \in Targets :
    Corrected(queue, tg) ~>
      \E t \in Timers : phase[t] = "working" /\ Corrected(batch[t], tg)

\* "Load memory data (cached with file modification time check)"
\* (agents/memory/storage.py:124): when nobody is inside a call, an entry that
\* the next load takes for up to date is the content of the file.
CacheAgrees ==
  (\A h \in Hands : todo[h] = << >>) =>
    \A p \in Procs : cache[p].mtime = file => cache[p].data = file
=============================================================================
