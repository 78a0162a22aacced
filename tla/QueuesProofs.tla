---------------------------- MODULE QueuesProofs ----------------------------
(***************************************************************************)
(* Proofs about the two components that MCQueues runs side by side.        *)
(*                                                                         *)
(* MemoryUpdates: what holds of the memory queue for every number of       *)
(* timers, targets and processes, from an inductive invariant of its       *)
(* control state.                                                          *)
(*                                                                         *)
(* ChannelDispatch: conversations do not mix, for any number of messages,  *)
(* topics, permits and crashes.                                            *)
(***************************************************************************)
EXTENDS MemoryUpdates, ChannelDispatch, SequenceTheorems, TLAPS

-----------------------------------------------------------------------------
(* MemoryUpdates. *)

\* What the argument needs to know of the threads: which of them may be
\* cancelled, and that the flag is the presence of a batch.
QueueInv ==
  /\ phase \in [Timers -> {"free", "armed", "fired", "working"}]
  /\ processing \in BOOLEAN
  /\ OneBatch
  /\ QueuedIsScheduled

\* Starting a timer with a thread that has none ends no batch and starts none,
\* and leaves an armed timer behind.
LEMMA ScheduleKeepsBatches ==
  ASSUME NEW t \in Timers, phase[t] # "working", Schedule(t),
         phase \in [Timers -> {"free", "armed", "fired", "working"}]
  PROVE  /\ phase' \in [Timers -> {"free", "armed", "fired", "working"}]
         /\ phase'[t] = "armed"
         /\ \A u \in Timers : phase'[u] = "working" <=> phase[u] = "working"
  <1>1. phase' = [u \in Timers |-> CASE u = t -> "armed"
                    [] u # t /\ u \in current /\ phase[u] = "armed" -> "free"
                    [] OTHER -> phase[u]]
    BY DEF Schedule
  <1>2. phase'[t] = "armed"
    BY <1>1
  <1>3. ASSUME NEW u \in Timers
        PROVE  /\ phase'[u] \in {"free", "armed", "fired", "working"}
               /\ phase'[u] = "working" <=> phase[u] = "working"
    <2>1. CASE u = t
      BY <2>1, <1>2
    <2>2. CASE u # t /\ u \in current /\ phase[u] = "armed"
      BY <2>2, <1>1
    <2>3. CASE u # t /\ ~(u \in current /\ phase[u] = "armed")
      BY <2>3, <1>1
    <2> QED
      BY <2>1, <2>2, <2>3
  <1> QED
    BY <1>1, <1>2, <1>3

\* A step that leaves the set of working threads and the flag as they are
\* keeps the part of the invariant that is about batches.
LEMMA SameBatches ==
  ASSUME OneBatch, processing' = processing,
         \A u \in Timers : phase'[u] = "working" <=> phase[u] = "working"
  PROVE  OneBatch'
  BY DEF OneBatch

LEMMA QueueInvInit == MemoryInit => QueueInv
  BY DEF MemoryInit, QueueInv, OneBatch, QueuedIsScheduled

LEMMA AddKeepsQueueInv ==
  ASSUME QueueInv, NEW tg \in Targets, NEW corrected \in BOOLEAN, Add(tg, corrected)
  PROVE  QueueInv'
  <1>1. PICK t \in Timers : phase[t] = "free" /\ Schedule(t)
    BY DEF Add
  <1>2. processing' = processing
    BY DEF Add
  <1>3. /\ phase' \in [Timers -> {"free", "armed", "fired", "working"}]
        /\ phase'[t] = "armed"
        /\ \A u \in Timers : phase'[u] = "working" <=> phase[u] = "working"
    BY <1>1, ScheduleKeepsBatches DEF QueueInv
  <1>4. OneBatch'
    BY <1>2, <1>3, SameBatches DEF QueueInv
  <1>5. QueuedIsScheduled'
    BY <1>3 DEF QueuedIsScheduled
  <1> QED
    BY <1>2, <1>3, <1>4, <1>5 DEF QueueInv

LEMMA ProcessKeepsQueueInv ==
  ASSUME QueueInv, NEW t \in Timers, Process(t)
  PROVE  QueueInv'
  <1>0. phase[t] = "fired"
    BY DEF Process
  <1>1. CASE processing /\ Schedule(t) /\ UNCHANGED <<queue, processing, batch>>
    <2>1. /\ phase' \in [Timers -> {"free", "armed", "fired", "working"}]
          /\ phase'[t] = "armed"
          /\ \A u \in Timers : phase'[u] = "working" <=> phase[u] = "working"
      BY <1>0, <1>1, ScheduleKeepsBatches DEF QueueInv
    <2>2. OneBatch'
      BY <1>1, <2>1, SameBatches DEF QueueInv
    <2>3. QueuedIsScheduled'
      BY <2>1 DEF QueuedIsScheduled
    <2> QED
      BY <1>1, <2>1, <2>2, <2>3 DEF QueueInv
  <1>2. CASE /\ ~processing /\ queue = << >>
             /\ phase' = [phase EXCEPT ![t] = "free"]
             /\ UNCHANGED <<queue, current, processing, batch>>
    BY <1>0, <1>2 DEF QueueInv, OneBatch, QueuedIsScheduled
  <1>3. CASE /\ ~processing /\ queue # << >>
             /\ processing' = TRUE
             /\ phase' = [phase EXCEPT ![t] = "working"]
             /\ queue' = << >>
    <2>1. \A u \in Timers : phase[u] # "working"
      BY <1>3 DEF QueueInv, OneBatch
    <2>2. \A u \in Timers : phase'[u] = "working" <=> u = t
      BY <1>3, <2>1 DEF QueueInv
    <2> QED
      BY <1>3, <2>2 DEF QueueInv, OneBatch, QueuedIsScheduled
  <1> QED
    BY <1>1, <1>2, <1>3 DEF Process

LEMMA EndBatchKeepsQueueInv ==
  ASSUME QueueInv, NEW t \in Timers, EndBatch(t)
  PROVE  QueueInv'
  <1>1. /\ phase[t] = "working" /\ processing' = FALSE
        /\ phase' = [phase EXCEPT ![t] = "free"]
        /\ UNCHANGED queue
    BY DEF EndBatch
  <1>2. \A u \in Timers : phase'[u] # "working"
    BY <1>1 DEF QueueInv, OneBatch
  <1>3. \A u \in Timers : phase[u] \in {"armed", "fired"} => phase'[u] = phase[u]
    BY <1>1 DEF QueueInv
  <1> QED
    BY <1>1, <1>2, <1>3 DEF QueueInv, OneBatch, QueuedIsScheduled

LEMMA FireKeepsQueueInv ==
  ASSUME QueueInv, NEW t \in Timers, Fire(t)
  PROVE  QueueInv'
  <1>1. /\ phase[t] = "armed"
        /\ phase' = [phase EXCEPT ![t] = "fired"]
        /\ UNCHANGED <<queue, processing>>
    BY DEF Fire
  <1>2. /\ \A u \in Timers : phase'[u] = "working" <=> phase[u] = "working"
        /\ \A u \in Timers : phase[u] \in {"armed", "fired"} => phase'[u] \in {"armed", "fired"}
    BY <1>1 DEF QueueInv
  <1> QED
    BY <1>1, <1>2, SameBatches DEF QueueInv, QueuedIsScheduled

\* The storage and the requests do not touch the threads.
LEMMA StorageKeepsQueueInv ==
  ASSUME QueueInv, UNCHANGED <<queue, processing, phase>>
  PROVE  QueueInv'
  BY DEF QueueInv, OneBatch, QueuedIsScheduled

LEMMA StorageLeavesTheQueue ==
  ASSUME NEW h, StorageStep(h)
  PROVE  UNCHANGED <<queue, processing, phase>>
  BY DEF StorageStep, Stat, CheckCache, ReadFile, PutCache, ReplaceFile, Fail, queueVars

LEMMA QueueInvNext ==
  ASSUME QueueInv, [MemoryNext]_memoryVars
  PROVE  QueueInv'
  <1>1. ASSUME NEW tg \in Targets, NEW corrected \in BOOLEAN, Add(tg, corrected)
        PROVE  QueueInv'
    BY <1>1, AddKeepsQueueInv
  <1>2. ASSUME NEW t \in Timers, TimerStep(t)
        PROVE  QueueInv'
    <2>1. CASE Fire(t)
      BY <2>1, FireKeepsQueueInv
    <2>2. CASE Process(t)
      BY <2>2, ProcessKeepsQueueInv
    <2>3. CASE NextContext(t)
      BY <2>3, StorageKeepsQueueInv DEF NextContext
    <2>4. CASE EndBatch(t)
      BY <2>4, EndBatchKeepsQueueInv
    <2>5. CASE StorageStep(t)
      BY <2>5, StorageLeavesTheQueue, StorageKeepsQueueInv
    <2> QED
      BY <1>2, <2>1, <2>2, <2>3, <2>4, <2>5 DEF TimerStep
  <1>3. ASSUME NEW p \in Procs, Request(p) \/ StorageStep(p)
        PROVE  QueueInv'
    <2>1. CASE Request(p)
      BY <2>1, StorageKeepsQueueInv DEF Request, queueVars
    <2>2. CASE StorageStep(p)
      BY <2>2, StorageLeavesTheQueue, StorageKeepsQueueInv
    <2> QED
      BY <1>3, <2>1, <2>2
  <1>4. CASE UNCHANGED memoryVars
    BY <1>4, StorageKeepsQueueInv DEF memoryVars, queueVars
  <1> QED
    BY <1>1, <1>2, <1>3, <1>4 DEF MemoryNext

\* The control state of the queue stays in the invariant in every behaviour.
THEOREM QueueHolds == MemorySpec => []QueueInv
  <1>1. QueueInv /\ [MemoryNext]_memoryVars => QueueInv'
    BY QueueInvNext
  <1> QED
    BY <1>1, QueueInvInit, PTL DEF MemorySpec

\* _process_queue: the batches of a process never overlap.
THEOREM BatchesNeverOverlap == MemorySpec => []OneBatch
  <1>1. QueueInv => OneBatch
    BY DEF QueueInv
  <1> QED
    BY <1>1, QueueHolds, PTL

\* add, _schedule_timer and _process_queue: a queue that holds a conversation
\* always has a timer that will process it.
THEOREM QueueIsNeverForgotten == MemorySpec => []QueuedIsScheduled
  <1>1. QueueInv => QueuedIsScheduled
    BY DEF QueueInv
  <1> QED
    BY <1>1, QueueHolds, PTL

-----------------------------------------------------------------------------
(* ChannelDispatch. *)

Places == Handled \cup {"unsent", "inbound", "waiting", "done", "lost"}

TypesInv ==
  /\ at \in [Messages -> Places]
  /\ request \in [Messages -> [topic : Topics, kind : Kinds]]
  /\ used \in [Messages -> Messages \cup {None}]
  /\ store \in [Topics -> Messages \cup {None}]
  /\ onDisk \in [Topics -> Messages \cup {None}]
  /\ inbound \in Seq(Messages) /\ waiters \in Seq(Messages)

\* Once a message came in its topic is settled.
Settled(m) == m \in Messages /\ at[m] # "unsent"

\* A thread belongs to the topic of the message it was created for, in the
\* mapping, as it was saved, and in the hands of every handler.
StoreInv ==
  \A t \in Topics :
    /\ store[t] # None => Settled(store[t]) /\ TopicOf(store[t]) = t
    /\ onDisk[t] # None => Settled(onDisk[t]) /\ TopicOf(onDisk[t]) = t

UsedInv ==
  \A m \in Messages :
    used[m] # None => Settled(m) /\ Settled(used[m]) /\ TopicOf(used[m]) = TopicOf(m)

ThreadInv == TypesInv /\ StoreInv /\ UsedInv

\* A step that settles messages and changes neither a settled topic nor a
\* thread keeps the invariant.
LEMMA KeepThreads ==
  ASSUME ThreadInv, TypesInv', UNCHANGED <<used, onDisk>>, store' \in {store, onDisk},
         \A m \in Messages : at[m] # "unsent" => at'[m] # "unsent" /\ request'[m] = request[m]
  PROVE  ThreadInv'
  <1>1. \A m : Settled(m) => Settled(m)' /\ TopicOf(m)' = TopicOf(m)
    BY DEF Settled, TopicOf
  <1>2. StoreInv'
    BY <1>1 DEF ThreadInv, StoreInv
  <1>3. UsedInv'
    BY <1>1 DEF ThreadInv, UsedInv
  <1> QED
    BY <1>2, <1>3 DEF ThreadInv

LEMMA NoneIsNoMessage == None \notin Messages
  BY DEF None, Messages

LEMMA ThreadInvInit ==
  ASSUME ChannelInit, Topics # {}
  PROVE  ThreadInv
  <1>1. (CHOOSE t \in Topics : TRUE) \in Topics
    OBVIOUS
  <1>2. TypesInv
    BY <1>1 DEF ChannelInit, TypesInv, Places, Kinds, Handled
  <1> QED
    BY <1>2 DEF ChannelInit, ThreadInv, StoreInv, UsedInv

LEMMA PublishKeeps ==
  ASSUME ThreadInv, NEW m \in Messages, NEW topic \in Topics, NEW kind \in Kinds,
         Publish(m, topic, kind)
  PROVE  ThreadInv'
  <1>1. TypesInv'
    BY DEF Publish, MoveTo, ThreadInv, TypesInv, Places, Handled
  <1>2. \A n \in Messages : at[n] # "unsent" => at'[n] # "unsent" /\ request'[n] = request[n]
    BY DEF Publish, MoveTo, ThreadInv, TypesInv
  <1> QED
    BY <1>1, <1>2, KeepThreads DEF Publish

LEMMA DispatchKeeps ==
  ASSUME ThreadInv, Dispatch
  PROVE  ThreadInv'
  <1>1. Head(inbound) \in Messages /\ Tail(inbound) \in Seq(Messages)
    BY HeadTailProperties DEF Dispatch, ThreadInv, TypesInv
  <1>2. TypesInv'
    BY <1>1 DEF Dispatch, MoveTo, ThreadInv, TypesInv, Places, Handled
  <1>3. \A n \in Messages : at[n] # "unsent" => at'[n] # "unsent" /\ request'[n] = request[n]
    BY <1>1 DEF Dispatch, MoveTo, ThreadInv, TypesInv
  <1> QED
    BY <1>2, <1>3, KeepThreads DEF Dispatch

LEMMA BeginKeeps ==
  ASSUME ThreadInv, Begin
  PROVE  ThreadInv'
  <1>1. PICK m \in Messages : m = Head(waiters) /\ Tail(waiters) \in Seq(Messages)
    BY HeadTailProperties DEF Begin, ThreadInv, TypesInv
  <1>2. PICK known : TopicOf(m) \in Topics /\ known = store[TopicOf(m)]
    BY <1>1 DEF TopicOf, ThreadInv, TypesInv
  <1>3. CASE /\ known # None
             /\ used' = [used EXCEPT ![m] = known]
             /\ MoveTo(m, "preparing")
    <2>1. TypesInv'
      BY <1>1, <1>2, <1>3 DEF Begin, MoveTo, ThreadInv, TypesInv, Places, Handled
    <2>2. \A n : /\ Settled(n) => Settled(n)'
                 /\ TopicOf(n)' = TopicOf(n)
      BY <1>1, <1>3 DEF Begin, MoveTo, Settled, TopicOf, ThreadInv, TypesInv
    <2>3. Settled(known) /\ TopicOf(known) = TopicOf(m)
      BY <1>2, <1>3 DEF ThreadInv, StoreInv
    <2>6. Settled(m)'
      BY <1>1, <1>3 DEF MoveTo, Settled, ThreadInv, TypesInv
    <2>4. StoreInv'
      BY <2>2 DEF Begin, ThreadInv, StoreInv
    <2>5. ASSUME NEW n \in Messages, (used[n] # None)'
          PROVE  (Settled(n) /\ Settled(used[n]) /\ TopicOf(used[n]) = TopicOf(n))'
      <3>1. CASE n = m
        <4>1. used'[n] = known
          BY <1>1, <1>3, <3>1 DEF ThreadInv, TypesInv
        <4> QED
          BY <2>2, <2>3, <2>6, <3>1, <4>1 DEF Settled, TopicOf
      <3>2. CASE n # m
        <4>1. used'[n] = used[n]
          BY <1>1, <1>3, <3>2 DEF ThreadInv, TypesInv
        <4> QED
          BY <2>2, <2>5, <4>1 DEF ThreadInv, UsedInv, Settled, TopicOf
      <3> QED
        BY <3>1, <3>2
    <2> QED
      BY <2>1, <2>4, <2>5 DEF ThreadInv, UsedInv, Settled, TopicOf
  <1>4. CASE UNCHANGED used /\ (MoveTo(m, "creating") \/ MoveTo(m, "asking"))
    <2>1. TypesInv'
      BY <1>1, <1>4 DEF Begin, MoveTo, ThreadInv, TypesInv, Places, Handled
    <2>2. \A n \in Messages : at[n] # "unsent" => at'[n] # "unsent" /\ request'[n] = request[n]
      BY <1>1, <1>4 DEF Begin, MoveTo, ThreadInv, TypesInv
    <2> QED
      BY <1>4, <2>1, <2>2, KeepThreads DEF Begin
  <1> QED
    BY <1>1, <1>2, <1>3, <1>4 DEF Begin

\* A mapping is stored, whether it is saved or the handler fails over it.
LEMMA SetThreadKeeps ==
  ASSUME ThreadInv, NEW m \in Messages, Create(m) \/ Raise(m),
         at[m] = "creating", SetThread(m)
  PROVE  ThreadInv'
  <1>1. at[m] = "creating" /\ TopicOf(m) \in Topics
    BY DEF TopicOf, ThreadInv, TypesInv
  <1>2. /\ store' = [store EXCEPT ![TopicOf(m)] = m]
        /\ onDisk' \in {store', onDisk}
        /\ used' = [used EXCEPT ![m] = m] \/ UNCHANGED used
        /\ UNCHANGED <<request, inbound, waiters>>
        /\ MoveTo(m, "preparing") \/ MoveTo(m, "replying")
    BY DEF Create, Raise, SetThread
  <1>8. {store', onDisk'} \subseteq [Topics -> Messages \cup {None}]
    BY <1>1, <1>2 DEF ThreadInv, TypesInv
  <1>9. at' \in [Messages -> Places] /\ used' \in [Messages -> Messages \cup {None}]
    BY <1>1, <1>2 DEF MoveTo, ThreadInv, TypesInv, Places, Handled
  <1>3. TypesInv'
    BY <1>2, <1>8, <1>9 DEF ThreadInv, TypesInv
  <1>4. Settled(m)' /\ \A n : (Settled(n) => Settled(n)') /\ TopicOf(n)' = TopicOf(n)
    BY <1>1, <1>2 DEF MoveTo, Settled, TopicOf, ThreadInv, TypesInv
  <1>5. ASSUME NEW t \in Topics, (store[t] # None)'
        PROVE  (Settled(store[t]) /\ TopicOf(store[t]) = t)'
    <2>1. (store'[t] = m /\ t = TopicOf(m)) \/ store'[t] = store[t]
      BY <1>1, <1>2 DEF ThreadInv, TypesInv
    <2> QED
      BY <1>4, <1>5, <2>1 DEF ThreadInv, StoreInv, Settled, TopicOf
  <1>7. ASSUME NEW t \in Topics, (onDisk[t] # None)'
        PROVE  (Settled(onDisk[t]) /\ TopicOf(onDisk[t]) = t)'
    <2>1. CASE onDisk' = store'
      BY <1>5, <1>7, <2>1
    <2>2. CASE onDisk' = onDisk
      BY <1>4, <1>7, <2>2 DEF ThreadInv, StoreInv, Settled, TopicOf
    <2> QED
      BY <1>2, <2>1, <2>2
  <1>6. ASSUME NEW n \in Messages, (used[n] # None)'
        PROVE  (Settled(n) /\ Settled(used[n]) /\ TopicOf(used[n]) = TopicOf(n))'
    <2>1. (used'[n] = m /\ n = m) \/ used'[n] = used[n]
      BY <1>2 DEF ThreadInv, TypesInv
    <2> QED
      BY <1>4, <1>6, <2>1 DEF ThreadInv, UsedInv, Settled, TopicOf
  <1> QED
    BY <1>3, <1>5, <1>6, <1>7 DEF ThreadInv, StoreInv, UsedInv, Settled, TopicOf

\* The steps that only move a message, never back to where it was unsent.
LEMMA MoveKeeps ==
  ASSUME ThreadInv, NEW m \in Messages, NEW place \in Places \ {"unsent"},
         MoveTo(m, place) \/ UNCHANGED at,
         UNCHANGED <<inbound, waiters, request, used, store, onDisk>>
  PROVE  ThreadInv'
  <1>1. TypesInv'
    BY DEF MoveTo, ThreadInv, TypesInv
  <1>2. \A n \in Messages : at[n] # "unsent" => at'[n] # "unsent" /\ request'[n] = request[n]
    BY DEF MoveTo, ThreadInv, TypesInv
  <1> QED
    BY <1>1, <1>2, KeepThreads

LEMMA CrashKeeps ==
  ASSUME ThreadInv, CrashChannels
  PROVE  ThreadInv'
  <1>1. TypesInv'
    BY DEF CrashChannels, ThreadInv, TypesInv, Places, Handled
  <1>2. \A n \in Messages : at[n] # "unsent" => at'[n] # "unsent" /\ request'[n] = request[n]
    BY DEF CrashChannels, ThreadInv, TypesInv
  <1> QED
    BY <1>1, <1>2, KeepThreads DEF CrashChannels

LEMMA EndRunKeeps ==
  ASSUME ThreadInv, NEW t \in Messages, EndRun(t), runOn \in [Messages -> Messages \cup {None}]
  PROVE  ThreadInv'
  <1>1. runOn[t] \in Messages
    BY DEF EndRun
  <1>2. "replying" \in Places \ {"unsent"}
    BY DEF Places, Handled
  <1> QED
    BY <1>1, <1>2, MoveKeeps DEF EndRun

\* Only messages are runs, which EndRunKeeps needs.
RunsInv == ThreadInv /\ runOn \in [Messages -> Messages \cup {None}]

LEMMA RunsInvNext ==
  ASSUME RunsInv, [ChannelNext]_channelVars
  PROVE  RunsInv'
  <1>0. \A p \in {"preparing", "running", "replying", "done"} : p \in Places \ {"unsent"}
    BY DEF Places, Handled
  <1>1. ASSUME NEW m \in Messages, NEW topic \in Topics, NEW kind \in Kinds,
               Publish(m, topic, kind)
        PROVE  RunsInv'
    BY <1>1, PublishKeeps DEF RunsInv, Publish
  <1>2. CASE Dispatch
    BY <1>2, DispatchKeeps DEF RunsInv, Dispatch
  <1>3. CASE Begin
    BY <1>3, BeginKeeps DEF RunsInv, Begin
  <1>4. ASSUME NEW m \in Messages, GoOn(m) \/ ShowPartial(m) \/ Raise(m) \/ EndRun(m)
        PROVE  RunsInv'
    <2>1. CASE Create(m)
      BY <2>1, SetThreadKeeps DEF RunsInv, Create
    <2>2. CASE StartRun(m)
      <3>1. ThreadInv'
        BY <2>2, <1>0, MoveKeeps DEF RunsInv, StartRun
      <3> QED
        BY <2>2, <3>1 DEF RunsInv, StartRun
    <2>3. CASE Fetch(m)
      BY <2>3, <1>0, MoveKeeps DEF RunsInv, Fetch
    <2>4. CASE Reply(m)
      BY <2>4, <1>0, MoveKeeps DEF RunsInv, Reply
    <2>5. CASE ShowPartial(m)
      BY <2>5, <1>0, MoveKeeps DEF RunsInv, ShowPartial
    <2>6. CASE Raise(m)
      <3>1. CASE UNCHANGED store
        BY <2>6, <3>1, <1>0, MoveKeeps DEF RunsInv, Raise
      <3>2. CASE at[m] = "creating" /\ SetThread(m)
        BY <2>6, <3>2, SetThreadKeeps DEF RunsInv, Raise
      <3> QED
        BY <2>6, <3>1, <3>2 DEF Raise
    <2>7. CASE EndRun(m)
      <3>1. ThreadInv'
        BY <2>7, EndRunKeeps DEF RunsInv
      <3> QED
        BY <2>7, <3>1 DEF RunsInv, EndRun
    <2> QED
      BY <1>4, <2>1, <2>2, <2>3, <2>4, <2>5, <2>6, <2>7 DEF GoOn
  <1>5. CASE CrashChannels
    BY <1>5, CrashKeeps DEF RunsInv, CrashChannels
  <1>6. CASE UNCHANGED channelVars
    BY <1>6 DEF channelVars, RunsInv, ThreadInv, TypesInv, StoreInv, UsedInv, Settled, TopicOf
  <1> QED
    BY <1>1, <1>2, <1>3, <1>4, <1>5, <1>6 DEF ChannelNext

\* The mapping and the handlers stay true to the topics in every behaviour.
THEOREM ThreadsHold == ChannelSpec => []RunsInv
  <1>1. ChannelInit => RunsInv
    <2>1. ASSUME ChannelInit PROVE RunsInv
      BY <2>1, ThreadInvInit, ChannelAssumption DEF RunsInv, ChannelInit
    <2> QED
      BY <2>1
  <1>2. RunsInv /\ [ChannelNext]_channelVars => RunsInv'
    BY RunsInvNext
  <1> QED
    BY <1>1, <1>2, PTL DEF ChannelSpec

\* _handle_chat, _create_thread and set_thread_id: no two messages of
\* different topics ever hold the same thread.
THEOREM TopicsStayApart == ChannelSpec => []TopicsApart
  <1>1. RunsInv => TopicsApart
    BY DEF RunsInv, ThreadInv, UsedInv, TopicsApart
  <1> QED
    BY <1>1, ThreadsHold, PTL
=============================================================================
