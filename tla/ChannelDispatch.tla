-------------------------- MODULE ChannelDispatch --------------------------
(***************************************************************************)
(* How messages of the chat platforms become runs: the bus, the dispatch   *)
(* loop and the handlers of app/channels/manager.py, the mapping from      *)
(* conversations to threads of app/channels/store.py, and the gateway as   *)
(* the manager uses it through its client (threads.create, runs.wait and   *)
(* runs.stream with multitask_strategy "reject").                          *)
(*                                                                         *)
(* A topic stands for what the store's key is made of: channel, chat and   *)
(* topic id.  A thread is named by the message it was created for.  What   *)
(* is said in a message, files, the session layers and the formatting of   *)
(* replies are left out.  The coroutines of the manager share one loop, so *)
(* a step ends where a handler awaits.                                     *)
(***************************************************************************)
EXTENDS Naturals, Sequences, FiniteSets, SequencesExt

CONSTANTS
  MaxMessages,     \* bound on the messages that come in
  Topics,
  MaxConcurrency,  \* permits of the semaphore
  MaxCrashes       \* bound on the deaths of the process

ASSUME ChannelAssumption ==
  Topics # {} /\ MaxMessages \in Nat /\ MaxConcurrency \in Nat \ {0} /\ MaxCrashes \in Nat

Messages == 1 .. MaxMessages  \* in the order they come in
None == 0                     \* neither a message nor a thread

VARIABLES
  inbound,   \* the queue of the bus
  waiters,   \* tasks that wait for the semaphore, in order
  at,        \* where a message is
  request,   \* its topic and kind
  used,      \* the thread_id its handler holds
  store,     \* the thread of every topic, in memory
  onDisk,    \* what the store last saved of it
  runOn,     \* the run in flight on a thread, named by its message
  shown,     \* what the chat has seen of the answer
  crashes

channelVars == <<inbound, waiters, at, request, used, store, onDisk, runOn, shown, crashes>>

Kinds == {"chat",   \* a chat message, and the command bootstrap
          "new",    \* the command that starts a conversation
          "query"}  \* the other commands

Handled == {"creating", "preparing", "running", "asking", "replying"}
Handlers == {m \in Messages : at[m] \in Handled}  \* who hold a permit

ChannelInit ==
  /\ inbound = << >> /\ waiters = << >> /\ crashes = 0
  /\ at = [m \in Messages |-> "unsent"]
  /\ request = [m \in Messages |-> [topic |-> CHOOSE t \in Topics : TRUE, kind |-> "chat"]]
  /\ used = [m \in Messages |-> None]
  /\ store = [t \in Topics |-> None] /\ onDisk = store
  /\ runOn = [m \in Messages |-> None]
  /\ shown = [m \in Messages |-> "nothing"]

TopicOf(m) == request[m].topic
Kind(m) == request[m].kind
MoveTo(m, place) == at' = [at EXCEPT ![m] = place]

\* publish_inbound, by a channel.
Publish(m, topic, kind) ==
  /\ at[m] = "unsent" /\ \A n \in 1 .. m - 1 : at[n] # "unsent"
  /\ MoveTo(m, "inbound")
  /\ request' = [request EXCEPT ![m] = [topic |-> topic, kind |-> kind]]
  /\ inbound' = Append(inbound, m)
  /\ UNCHANGED <<waiters, used, store, onDisk, runOn, shown, crashes>>

\* The loop makes a task of every message and never waits for one.
Dispatch ==
  /\ inbound # << >>
  /\ inbound' = Tail(inbound) /\ waiters' = Append(waiters, Head(inbound))
  /\ MoveTo(Head(inbound), "waiting")
  /\ UNCHANGED <<request, used, store, onDisk, runOn, shown, crashes>>

\* The next task gets a permit and runs to its first await.
Begin ==
  /\ waiters # << >> /\ Cardinality(Handlers) < MaxConcurrency
  /\ LET m == Head(waiters)
         known == store[TopicOf(m)]
     IN  \/ /\ Kind(m) = "chat" /\ known # None
            /\ used' = [used EXCEPT ![m] = known]
            /\ MoveTo(m, "preparing")
         \/ /\ Kind(m) = "new" \/ (Kind(m) = "chat" /\ known = None)
            /\ MoveTo(m, "creating")
            /\ UNCHANGED used
         \/ /\ Kind(m) = "query"
            /\ MoveTo(m, "asking")
            /\ UNCHANGED used
  /\ waiters' = Tail(waiters)
  /\ UNCHANGED <<inbound, request, store, onDisk, runOn, shown, crashes>>

(* Mutated form: the mapping is stored for the chat, whatever the topic. *)
CreateForChat(m) ==
  /\ at[m] = "creating"
  /\ store' = [t \in Topics |-> m] /\ onDisk' = store'
  /\ \/ Kind(m) = "chat" /\ MoveTo(m, "preparing") /\ used' = [used EXCEPT ![m] = m]
     \/ Kind(m) = "new" /\ MoveTo(m, "replying") /\ UNCHANGED used
  /\ UNCHANGED <<inbound, waiters, request, runOn, shown, crashes>>

\* set_thread_id, over a mapping that another message of the topic may have
\* stored meanwhile.
SetThread(m) == store' = [store EXCEPT ![TopicOf(m)] = m]

\* The answer of threads.create: the mapping is stored and saved.
Create(m) ==
  /\ at[m] = "creating"
  /\ SetThread(m) /\ onDisk' = store'
  /\ \/ Kind(m) = "chat" /\ MoveTo(m, "preparing") /\ used' = [used EXCEPT ![m] = m]
     \/ Kind(m) = "new" /\ MoveTo(m, "replying") /\ UNCHANGED used
  /\ UNCHANGED <<inbound, waiters, request, runOn, shown, crashes>>

\* The files are in place and the run is asked for.  The gateway rejects it
\* when the thread has one in flight; the reply then says so.
StartRun(m) ==
  /\ at[m] = "preparing"
  /\ \/ /\ runOn[used[m]] = None
        /\ runOn' = [runOn EXCEPT ![used[m]] = m]
        /\ MoveTo(m, "running")
     \/ /\ runOn[used[m]] # None
        /\ MoveTo(m, "replying")
        /\ UNCHANGED runOn
  /\ UNCHANGED <<inbound, waiters, request, used, store, onDisk, shown, crashes>>

\* A channel that supports streaming shows what there is of the answer.
ShowPartial(m) ==
  /\ at[m] = "running" /\ shown[m] = "nothing"
  /\ shown' = [shown EXCEPT ![m] = "partial"]
  /\ UNCHANGED <<inbound, waiters, at, request, used, store, onDisk, runOn, crashes>>

\* The run on a thread ends, and its client, if it still waits, learns of it.
EndRun(t) ==
  /\ runOn[t] # None
  /\ runOn' = [runOn EXCEPT ![t] = None]
  /\ IF at[runOn[t]] = "running" THEN MoveTo(runOn[t], "replying") ELSE UNCHANGED at
  /\ UNCHANGED <<inbound, waiters, request, used, store, onDisk, shown, crashes>>

\* A command has what it asked the gateway or the store for; _fetch_gateway
\* turns a failure into a text.
Fetch(m) ==
  /\ at[m] = "asking" /\ MoveTo(m, "replying")
  /\ UNCHANGED <<inbound, waiters, request, used, store, onDisk, runOn, shown, crashes>>

(* Mutated form: the handler ends without a reply. *)
RaiseSilently(m) ==
  /\ at[m] \in {"creating", "preparing", "running"} /\ MoveTo(m, "done")
  /\ UNCHANGED <<inbound, waiters, request, used, store, onDisk, runOn, shown, crashes>>

\* The handler raises: a call of the gateway that fails or times out, whose run
\* goes on, a file, the session's configuration, or the save of a mapping that
\* then is in memory only.  The streaming handler replies in its finally, the
\* others through _send_error.
Raise(m) ==
  /\ at[m] \in {"creating", "preparing", "running"} /\ MoveTo(m, "replying")
  /\ UNCHANGED store \/ (at[m] = "creating" /\ SetThread(m))
  /\ UNCHANGED <<inbound, waiters, request, used, onDisk, runOn, shown, crashes>>

\* publish_outbound of the final message; then the permit is given back.
Reply(m) ==
  /\ at[m] = "replying" /\ MoveTo(m, "done")
  /\ shown' = [shown EXCEPT ![m] = "final"]
  /\ UNCHANGED <<inbound, waiters, request, used, store, onDisk, runOn, crashes>>

\* The gateway process stops or dies with the manager and the runs in it, and
\* starts again with the mapping the store last saved.
CrashChannels ==
  /\ crashes < MaxCrashes
  /\ crashes' = crashes + 1
  /\ at' = [m \in Messages |-> IF at[m] \in {"unsent", "done"} THEN at[m] ELSE "lost"]
  /\ inbound' = << >> /\ waiters' = << >>
  /\ runOn' = [m \in Messages |-> None]
  /\ store' = onDisk
  /\ UNCHANGED <<request, used, onDisk, shown>>

GoOn(m) == Create(m) \/ StartRun(m) \/ Fetch(m) \/ Reply(m)

ChannelNext ==
  \/ \E m \in Messages, topic \in Topics, kind \in Kinds : Publish(m, topic, kind)
  \/ Dispatch \/ Begin
  \/ \E m \in Messages : GoOn(m) \/ ShowPartial(m) \/ Raise(m) \/ EndRun(m)
  \/ CrashChannels

\* The loop and the tasks go on, and every run comes to an end.
ChannelFairness ==
  /\ WF_channelVars(Dispatch) /\ WF_channelVars(Begin)
  /\ \A m \in Messages : WF_channelVars(GoOn(m)) /\ WF_channelVars(EndRun(m))

ChannelSpec == ChannelInit /\ [][ChannelNext]_channelVars /\ ChannelFairness

-----------------------------------------------------------------------------
(* Properties. *)

\* The variables have their types, the two queues hold the messages that wait
\* in them, and no more handlers run than the semaphore has permits.
ChannelTypeOK ==
  /\ at \in [Messages -> Handled \cup {"unsent", "inbound", "waiting", "done", "lost"}]
  /\ request \in [Messages -> [topic : Topics, kind : Kinds]]
  /\ used \in [Messages -> Messages \cup {None}]
  /\ {store, onDisk} \subseteq [Topics -> Messages \cup {None}]
  /\ runOn \in [Messages -> Messages \cup {None}]
  /\ shown \in [Messages -> {"nothing", "partial", "final"}]
  /\ crashes \in 0 .. MaxCrashes
  /\ inbound \in Seq(Messages) /\ ToSet(inbound) = {m \in Messages : at[m] = "inbound"}
  /\ waiters \in Seq(Messages) /\ ToSet(waiters) = {m \in Messages : at[m] = "waiting"}
  /\ Cardinality(Handlers) <= MaxConcurrency

\* Conversations do not mix: messages that share a thread are of one topic,
\* whatever commands, failures, crashes and other handlers came between.
TopicsApart ==
  \A m, n \in Messages : used[m] # None /\ used[m] = used[n] => TopicOf(m) = TopicOf(n)

\* Every message the bus has taken gets its final reply, or is lost with the
\* process: no failure, busy thread or waiting handler keeps it for ever.
EveryMessageAnswered ==
  \A m \in Messages : at[m] = "inbound" ~> (at[m] = "lost" \/ shown[m] = "final")

\* "Messages sharing the same topic_id within a chat_id will reuse the same
\* DeerFlow thread" (app/channels/message_bus.py:41), as long as nobody asks
\* for a new conversation.
TopicSharesThread ==
  (\A m \in Messages : Kind(m) # "new") =>
    \A m, n \in Messages :
      used[m] # None /\ used[n] # None /\ TopicOf(m) = TopicOf(n) => used[m] = used[n]
=============================================================================
