---------------------------- MODULE SessionPool ----------------------------
(***************************************************************************)
(* The persistent sessions of MCP tools (mcp/session_pool.py), the tool    *)
(* calls that use them (mcp/tools.py) and the reset of the tool cache      *)
(* (mcp/cache.py).                                                         *)
(*                                                                         *)
(* A call runs on the main event loop, or, through the synchronous wrapper *)
(* of tools/sync.py, on a loop of its own that ends with it.  A session    *)
(* belongs to the loop it was made on.  A session is named by a number;    *)
(* its key stands for (server_name, thread_id).  A pool's registry is one  *)
(* sequence, the least recently used entry first: _entries and             *)
(* _context_managers always change together under the lock.                *)
(***************************************************************************)
EXTENDS Naturals, Sequences, FiniteSets, SequencesExt

CONSTANTS
  Calls,        \* tool calls; each is made once
  SyncCalls,    \* those made through the synchronous wrapper
  Keys,
  MaxSessions,  \* MAX_SESSIONS
  MaxPools      \* bound on the resets of the cache, plus one

Main == "main"  \* the loop of the process; every other is a call's own

ASSUME PoolAssumption ==
  /\ SyncCalls \subseteq Calls /\ Main \notin Calls
  /\ MaxSessions \in Nat \ {0} /\ MaxPools \in Nat \ {0}

VARIABLES
  registry,  \* of every pool made so far: entries [key, s]
  sessions,  \* the sessions made: [key, loop, open]
  call,      \* state of every call, see PoolTypeOK
  closing    \* sessions whose __aexit__ was left to their loop

poolVars == <<registry, sessions, call, closing>>

NotMade == [at |-> "new"]

PoolInit ==
  /\ registry = << << >> >> /\ sessions = << >> /\ closing = {}
  /\ call = [c \in Calls |-> NotMade]

LoopOf(c) == IF c \in SyncCalls THEN c ELSE Main

\* A loop lives as long as its call.
Lives(loop) == loop = Main \/ (loop \in Calls /\ call[loop].at \notin {"new", "done"})

-----------------------------------------------------------------------------
(* get_session. *)

(* Mutated form: an entry of any loop is used. *)
EntriesOfAnyLoop(p, key, loop) == {i \in DOMAIN registry[p] : registry[p][i].key = key}

\* The entry of a key, if its session is of the caller's loop.
EntriesOf(p, key, loop) ==
  {i \in DOMAIN registry[p] : registry[p][i].key = key /\ sessions[registry[p][i].s].loop = loop}

\* Phase 1 on a hit: the entry is the latest used.
Reuse(c, p, key) ==
  \E i \in EntriesOf(p, key, LoopOf(c)) :
    /\ registry' = [registry EXCEPT ![p] = Append(RemoveAt(@, i), @[i])]
    /\ call' = [call EXCEPT ![c] = [at |-> "using", key |-> key, s |-> registry[p][i].s]]

\* As many of the oldest of what is left as leave room for one go after what
\* went already.
MakeRoom(c, p, key, others, stale) ==
  LET n == IF Len(others) >= MaxSessions THEN Len(others) - MaxSessions + 1 ELSE 0
      gone == stale \o SubSeq(others, 1, n)
  IN  /\ registry' = [registry EXCEPT ![p] = SubSeq(others, n + 1, Len(others))]
      /\ call' = [call EXCEPT ![c] =
                    [at |-> "opening", pool |-> p, key |-> key,
                     toClose |-> [i \in DOMAIN gone |-> gone[i].s]]]

\* Phase 1 on a miss: the key's entry goes if it is of another loop.
Evict(c, p, key) ==
  /\ EntriesOf(p, key, LoopOf(c)) = {}
  /\ \/ /\ \A i \in DOMAIN registry[p] : registry[p][i].key # key
        /\ MakeRoom(c, p, key, registry[p], << >>)
     \/ \E i \in DOMAIN registry[p] :
          /\ registry[p][i].key = key
          /\ MakeRoom(c, p, key, RemoveAt(registry[p], i), <<registry[p][i]>>)

GetSession(c, p, key) ==
  /\ call[c] = NotMade
  /\ Reuse(c, p, key) \/ Evict(c, p, key)
  /\ UNCHANGED <<sessions, closing>>

Closed(s) == [sessions EXCEPT ![s].open = FALSE]

\* Phase 2: what was evicted is closed; an error is only logged.
CloseEvicted(c) ==
  /\ call[c].at = "opening" /\ call[c].toClose # << >>
  /\ call' = [call EXCEPT ![c].toClose = Tail(@)]
  /\ sessions' = Closed(Head(call[c].toClose)) \/ UNCHANGED sessions
  /\ UNCHANGED <<registry, closing>>

\* create_session, __aenter__ and initialize.
OpenSession(c) ==
  /\ call[c].at = "opening" /\ call[c].toClose = << >>
  /\ sessions' = Append(sessions, [key |-> call[c].key, loop |-> LoopOf(c), open |-> TRUE])
  /\ call' = [call EXCEPT ![c] =
                [at |-> "registering", pool |-> call[c].pool,
                 key |-> call[c].key, s |-> Len(sessions) + 1]]
  /\ UNCHANGED <<registry, closing>>

\* Phase 3: a key that another call has registered meanwhile keeps its place.
Register(c) ==
  /\ call[c].at = "registering"
  /\ LET p == call[c].pool
         entry == [key |-> call[c].key, s |-> call[c].s]
         taken == {i \in DOMAIN registry[p] : registry[p][i].key = call[c].key}
     IN  registry' = [registry EXCEPT ![p] =
           IF taken = {} THEN Append(@, entry)
           ELSE [i \in DOMAIN @ |-> IF i \in taken THEN entry ELSE @[i]]]
  /\ call' = [call EXCEPT ![c] = [at |-> "using", key |-> call[c].key, s |-> call[c].s]]
  /\ UNCHANGED <<sessions, closing>>

\* The call returns, or fails wherever it waits; asyncio.run ends its loop, and
\* with it the sessions made there.
EndCall(c) ==
  /\ call[c].at \notin {"new", "done"}
  /\ call' = [call EXCEPT ![c] = [at |-> "done"]]
  /\ sessions' = [s \in DOMAIN sessions |->
                    IF sessions[s].loop = c
                      THEN [sessions[s] EXCEPT !.open = FALSE] ELSE sessions[s]]
  /\ UNCHANGED <<registry, closing>>

-----------------------------------------------------------------------------
(* reset_mcp_tools_cache. *)

\* What close_all_sync leaves in the registry.
Cleared(p) == << >>

\* close_all_sync hands every session to the loop it belongs to, and the next
\* tools are made with a pool of their own; those of a run that has begun keep
\* the old pool.
ResetCache ==
  /\ Len(registry) < MaxPools
  /\ LET p == Len(registry)
     IN  /\ registry' = Append([registry EXCEPT ![p] = Cleared(p)], << >>)
         /\ closing' = closing \cup
              {s \in DOMAIN sessions : Lives(sessions[s].loop) /\ \E e \in ToSet(registry[p]) : e.s = s}
  /\ UNCHANGED <<sessions, call>>

\* The loop gets to it, if it still can.
CloseOnLoop(s) ==
  /\ s \in closing /\ closing' = closing \ {s}
  /\ sessions' = Closed(s) \/ UNCHANGED sessions
  /\ UNCHANGED <<registry, call>>

PoolNext ==
  \/ \E c \in Calls :
       \/ \E p \in DOMAIN registry, key \in Keys : GetSession(c, p, key)
       \/ CloseEvicted(c) \/ OpenSession(c) \/ Register(c) \/ EndCall(c)
  \/ ResetCache
  \/ \E s \in DOMAIN sessions : CloseOnLoop(s)

PoolSpec == PoolInit /\ [][PoolNext]_poolVars

-----------------------------------------------------------------------------
(* Properties. *)

\* The variables have their types.
PoolTypeOK ==
  /\ \A p \in DOMAIN registry : registry[p] \in Seq([key : Keys, s : DOMAIN sessions])
  /\ sessions \in Seq([key : Keys, loop : Calls \cup {Main}, open : BOOLEAN])
  /\ closing \subseteq DOMAIN sessions
  /\ \A c \in Calls : call[c].at \in {"new", "opening", "registering", "using", "done"}

\* A call gets a session of its own key that is open and belongs to the loop
\* it runs on, whatever other calls evict or replace, and resets close, while
\* it closes and opens sessions outside the lock.
SessionUsable ==
  [][\A c \in Calls :
       call[c].at # "using" /\ call'[c].at = "using" =>
         LET s == sessions'[call'[c].s] IN s.open /\ s.key = call'[c].key /\ s.loop = LoopOf(c)]_poolVars
=============================================================================
