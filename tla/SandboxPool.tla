---------------------------- MODULE SandboxPool ----------------------------
(***************************************************************************)
(* The AIO sandbox provider: one container per conversation thread, kept   *)
(* in two tables of each gateway process (active, and a warm pool of       *)
(* released ones), shared by every process through the container runtime.  *)
(*                                                                         *)
(*   agent     a lead agent or a subagent that uses the sandbox of its     *)
(*             thread: ensure, use, release                                *)
(*   reaper    the idle checker of a process, and its shutdown             *)
(*   runtime   docker: at most one container of a name, each with its id   *)
(*                                                                         *)
(* A sandbox is named by its thread (its id is a hash of the thread's), so *)
(* threads stand for sandboxes.  _sandboxes, _sandbox_infos,               *)
(* _last_activity and _thread_sandboxes change together: they are active.  *)
(* A step is a section under the provider's _lock, a call of the runtime,  *)
(* or a lock taken or given back.                                          *)
(***************************************************************************)
EXTENDS Naturals, FiniteSets

CONSTANTS
  Procs,         \* gateway processes on one machine
  Threads,       \* conversation threads
  Agents,        \* agents at work at one time, in any process
  Routings,      \* bound: which processes get the requests of which threads;
                 \* one that gets none does not exist
  Replicas,      \* sandbox.replicas
  MaxContainers, \* bound: containers started
  MaxFaults      \* bound: kills, shutdowns, cancellations, failures of docker

ASSUME SandboxAssumption ==
  /\ IsFiniteSet(Threads) /\ "free" \notin Agents
  /\ Routings \subseteq SUBSET (Procs \X Threads)
  /\ Replicas \in Nat /\ MaxContainers \in Nat /\ MaxFaults \in Nat

VARIABLES
  routes,     \* the routing of this behaviour
  running,    \* the container that runs for the thread; 0 for none
  started,    \* containers started so far
  up,         \* the process runs
  active,     \* threads whose sandbox the process has in use
  warm,       \* its place in the process's warm pool, oldest first; 0: not in it
  info,       \* what the process stops it by: the container's id, or its name
  idle,       \* threads whose sandbox was not touched for idle_timeout
  threadLock, \* holder of the process's lock of the thread
  fileLock,   \* holder of the lock file of the thread
  agent,      \* where the agent is and for which thread of which process
  making,     \* the container that the agent has started and not registered
  dying,      \* what the agent is stopping
  reaper,     \* the idle checker and shutdown: phase, sandboxes to destroy,
              \* the one at hand, containers to stop, whether it is shutdown
  late,       \* a cancelled agent's start of a container still goes on
  lost,       \* containers let go of by a kill, a cancellation, a failed stop
  faults

runtimeVars == <<running, started, late, lost>>
provider == <<active, warm, info, idle>>
locks == <<threadLock, fileLock>>
agentVars == <<agent, making, dying>>
vars == <<routes, runtimeVars, up, provider, locks, agentVars, reaper, faults>>

ByName == 0
Free == "free"
Stops == [thread: Threads, by: Nat]
(* Where an agent is: without a sandbox, on its way to one, using one. *)
Acquiring == {"lock", "file", "discover", "found", "count", "evict",
              "evicting", "create", "wait", "leave", "fail", "fetch"}
Out == [at |-> "out"]
Jobs == [at: Acquiring \cup {"use"}, proc: Procs, thread: Threads]

TypeOK ==
  /\ routes \in Routings
  /\ running \in [Threads -> Nat] /\ started \in Nat
  /\ up \in [Procs -> BOOLEAN]
  /\ active \in [Procs -> SUBSET Threads]
  /\ warm \in [Procs -> [Threads -> Nat]]
  /\ info \in [Procs -> [Threads -> Nat]]
  /\ idle \in [Procs -> SUBSET Threads]
  /\ threadLock \in [Procs -> [Threads -> Agents \cup {Free}]]
  /\ fileLock \in [Threads -> Agents \cup {Free}]
  /\ agent \in [Agents -> {Out} \cup Jobs]
  /\ making \in [Agents -> Nat]
  /\ dying \in [Agents -> SUBSET Stops]
  /\ reaper \in [Procs -> [at: {"sweep", "destroy", "stop"},
                           doomed: SUBSET Threads, one: SUBSET Threads,
                           now: SUBSET Stops, stops: SUBSET Stops,
                           closing: BOOLEAN]]
  /\ late \in SUBSET Threads /\ lost \in SUBSET Threads
  /\ faults \in Nat

Exists(p) == \E t \in Threads : <<p, t>> \in routes

Resting == [at |-> "sweep", doomed |-> {}, one |-> {}, now |-> {}, stops |-> {},
            closing |-> FALSE]

Init ==
  /\ routes \in Routings
  /\ running = [t \in Threads |-> 0] /\ started = 0
  /\ up = [p \in Procs |-> Exists(p)]
  /\ active = [p \in Procs |-> {}]
  /\ warm = [p \in Procs |-> [t \in Threads |-> 0]]
  /\ info = [p \in Procs |-> [t \in Threads |-> ByName]]
  /\ idle = [p \in Procs |-> {}]
  /\ threadLock = [p \in Procs |-> [t \in Threads |-> Free]]
  /\ fileLock = [t \in Threads |-> Free]
  /\ agent = [a \in Agents |-> Out]
  /\ making = [a \in Agents |-> 0]
  /\ dying = [a \in Agents |-> {}]
  /\ reaper = [p \in Procs |-> Resting]
  /\ late = {} /\ lost = {} /\ faults = 0

----------------------------------------------------------------------------
(* The tables of a process. *)

Parked(p) == {t \in Threads : warm[p][t] # 0}
Tracked(p) == active[p] \cup Parked(p)

(* The pool with t as its youngest. *)
Park(w, t) == [w EXCEPT ![t] = 1 + Cardinality({s \in Threads : w[s] # 0})]

(* The pool without a set of sandboxes, the others in the order they had. *)
Unpark(w, S) ==
  [s \in Threads |-> IF s \in S \/ w[s] = 0 THEN 0
                     ELSE w[s] - Cardinality({r \in S : w[r] # 0 /\ w[r] < w[s]})]

(* Sandboxes leave the pool, and whatever is noted of them goes. *)
Forget(p, S) ==
  /\ warm' = [warm EXCEPT ![p] = Unpark(@, S)]
  /\ info' = [info EXCEPT ![p] = [t \in Threads |-> IF t \in S THEN ByName ELSE @[t]]]
  /\ idle' = [idle EXCEPT ![p] = @ \ S]

Touch(p, t) == idle' = [idle EXCEPT ![p] = @ \ {t}]

(* The thread's sandbox becomes active with the given handle. *)
Register(p, t, by) ==
  /\ active' = [active EXCEPT ![p] = @ \cup {t}]
  /\ info' = [info EXCEPT ![p][t] = by]
  /\ Touch(p, t)

StopOf(p, t) == [thread |-> t, by |-> info[p][t]]

(* The handle reaches the container that runs. *)
Reaches(s) == s.by \in {ByName, running[s.thread]}

(* Its container, if the handle reaches it, is no longer lost. *)
Regain(t, by) ==
  lost' = IF Reaches([thread |-> t, by |-> by]) THEN lost \ {t} ELSE lost

(* What runs after docker stop: a handle by id spares a newer container. *)
AfterStop(s) ==
  IF Reaches(s) THEN [running EXCEPT ![s.thread] = 0] ELSE running

Fault == faults < MaxFaults /\ faults' = faults + 1

(* _stop_container swallows a failure, after which nobody has the container. *)
Stop(s) ==
  \/ running' = AfterStop(s) /\ UNCHANGED <<lost, faults>>
  \/ Fault /\ lost' = lost \cup {s.thread} /\ UNCHANGED running

At(a, place) == agent[a].at = place
Go(a, place) == agent' = [agent EXCEPT ![a] = [@ EXCEPT !.at = place]]
GoOut(a) == agent' = [agent EXCEPT ![a] = Out]

(* _reuse_in_process_sandbox, then _reclaim_warm_pool_sandbox. *)
ReuseOrReclaim(a, otherwise) ==
  LET p == agent[a].proc  t == agent[a].thread IN
  \/ /\ t \in active[p]
     /\ Touch(p, t) /\ Go(a, "leave")
     /\ UNCHANGED <<active, warm, info>>
  \/ /\ t \notin active[p] /\ t \in Parked(p)
     /\ Register(p, t, info[p][t])
     /\ warm' = [warm EXCEPT ![p] = Unpark(@, {t})]
     /\ Go(a, "leave")
  \/ /\ t \notin Tracked(p)
     /\ Go(a, otherwise)
     /\ UNCHANGED provider

----------------------------------------------------------------------------
(* Agents. *)

(* ensure_sandbox_initialized: an agent that has a sandbox in its state uses *)
(* it if it is still active; otherwise, or without one, it acquires.         *)
Ensure(a) ==
  /\ agent[a].at \in {"out", "use"}
  /\ \E p \in Procs, t \in Threads :
       /\ up[p] /\ <<p, t>> \in routes
       /\ agent[a].at = "use" => p = agent[a].proc /\ t = agent[a].thread
       /\ \/ /\ t \in active[p] /\ Touch(p, t)
             /\ agent' = [agent EXCEPT ![a] = [at |-> "use", proc |-> p, thread |-> t]]
          \/ /\ agent[a].at = "use" => t \notin active[p]
             /\ agent' = [agent EXCEPT ![a] = [at |-> "lock", proc |-> p, thread |-> t]]
             /\ UNCHANGED idle
  /\ UNCHANGED <<runtimeVars, up, active, warm, info, locks, making, dying, reaper, faults>>

(* The lock of the thread, and what the process has of it already. *)
LockThread(a) ==
  LET p == agent[a].proc  t == agent[a].thread IN
  /\ At(a, "lock") /\ threadLock[p][t] = Free
  /\ threadLock' = [threadLock EXCEPT ![p][t] = a]
  /\ ReuseOrReclaim(a, "file")
  /\ UNCHANGED <<runtimeVars, up, fileLock, making, dying, reaper, faults>>

(* Mutated form: the lock file is not waited for. *)
LockFileWithoutWaiting(a) ==
  /\ At(a, "file")
  /\ fileLock' = [fileLock EXCEPT ![agent[a].thread] = a]
  /\ ReuseOrReclaim(a, "discover")
  /\ UNCHANGED <<runtimeVars, up, threadLock, making, dying, reaper, faults>>

(* The lock file of the thread, and the same look again under it. *)
LockFile(a) ==
  LET t == agent[a].thread IN
  /\ At(a, "file") /\ fileLock[t] = Free
  /\ fileLock' = [fileLock EXCEPT ![t] = a]
  /\ ReuseOrReclaim(a, "discover")
  /\ UNCHANGED <<runtimeVars, up, threadLock, making, dying, reaper, faults>>

(* A container that runs is found by its name, unless its health check fails. *)
Discover(a) ==
  /\ At(a, "discover")
  /\ \/ running[agent[a].thread] # 0 /\ Go(a, "found") /\ UNCHANGED faults
     \/ running[agent[a].thread] # 0 /\ Fault /\ Go(a, "count")
     \/ running[agent[a].thread] = 0 /\ Go(a, "count") /\ UNCHANGED faults
  /\ UNCHANGED <<runtimeVars, up, provider, locks, making, dying, reaper>>

RegisterFound(a) ==
  LET p == agent[a].proc  t == agent[a].thread IN
  /\ At(a, "found")
  /\ Register(p, t, ByName) /\ Regain(t, ByName)
  /\ Go(a, "leave")
  /\ UNCHANGED <<running, started, late, up, warm, locks, making, dying, reaper, faults>>

Count(a) ==
  LET p == agent[a].proc IN
  /\ At(a, "count")
  /\ Go(a, IF Cardinality(active[p]) + Cardinality(Parked(p)) >= Replicas
           THEN "evict" ELSE "create")
  /\ UNCHANGED <<runtimeVars, up, provider, locks, making, dying, reaper, faults>>

(* _evict_oldest_warm: the entry leaves the pool, then its container stops. *)
Evict(a) ==
  LET p == agent[a].proc IN
  /\ At(a, "evict")
  /\ \/ /\ Parked(p) = {}
        /\ Go(a, "create") /\ UNCHANGED <<warm, info, idle, dying>>
     \/ \E t \in Parked(p) :
          /\ \A s \in Parked(p) : warm[p][t] <= warm[p][s]
          /\ dying' = [dying EXCEPT ![a] = {StopOf(p, t)}]
          /\ Forget(p, {t})
          /\ Go(a, "evicting")
  /\ UNCHANGED <<runtimeVars, up, active, locks, making, reaper, faults>>

StopEvicted(a) ==
  /\ At(a, "evicting")
  /\ \E s \in dying[a] : Stop(s)
  /\ dying' = [dying EXCEPT ![a] = {}]
  /\ Go(a, "create")
  /\ UNCHANGED <<started, late, up, provider, locks, making, reaper>>

(* docker run; its name may be taken, and then the container is discovered. *)
StartContainer(t) ==
  /\ running[t] = 0 /\ started < MaxContainers
  /\ started' = started + 1
  /\ running' = [running EXCEPT ![t] = started + 1]

Create(a) ==
  LET t == agent[a].thread IN
  /\ At(a, "create")
  /\ \/ /\ StartContainer(t)
        /\ making' = [making EXCEPT ![a] = started'] /\ Go(a, "wait")
        /\ UNCHANGED faults
     \/ /\ running[t] # 0
        /\ making' = [making EXCEPT ![a] = ByName] /\ Go(a, "wait")
        /\ UNCHANGED <<running, started, faults>>
     \/ /\ \/ Fault
           \/ running[t] = 0 /\ started = MaxContainers /\ UNCHANGED faults
        /\ Go(a, "fail") /\ UNCHANGED <<running, started, making>>
  /\ UNCHANGED <<late, lost, up, provider, locks, dying, reaper>>

RegisterCreated(a) ==
  LET p == agent[a].proc  t == agent[a].thread IN
  /\ At(a, "wait")
  /\ Register(p, t, making[a]) /\ Regain(t, making[a])
  /\ making' = [making EXCEPT ![a] = 0]
  /\ Go(a, "leave")
  /\ UNCHANGED <<running, started, late, up, warm, locks, dying, reaper, faults>>

(* Not ready in time: the container is stopped and the acquire fails. *)
NotReady(a) ==
  /\ At(a, "wait") /\ Fault
  /\ running' = AfterStop([thread |-> agent[a].thread, by |-> making[a]])
  /\ making' = [making EXCEPT ![a] = 0]
  /\ Go(a, "fail")
  /\ UNCHANGED <<started, late, lost, up, provider, locks, dying, reaper>>

(* Mutated form: without asking who holds them. *)
UnlockAnyones(a) ==
  /\ fileLock' = [fileLock EXCEPT ![agent[a].thread] = Free]
  /\ threadLock' = [threadLock EXCEPT ![agent[a].proc][agent[a].thread] = Free]

(* Both locks are given back, the file's first. *)
Unlock(a) ==
  LET p == agent[a].proc  t == agent[a].thread IN
  /\ fileLock' = IF fileLock[t] = a THEN [fileLock EXCEPT ![t] = Free] ELSE fileLock
  /\ threadLock' = IF threadLock[p][t] = a
                   THEN [threadLock EXCEPT ![p][t] = Free] ELSE threadLock

Leave(a) ==
  /\ agent[a].at \in {"leave", "fail"}
  /\ Unlock(a)
  /\ \/ At(a, "leave") /\ Go(a, "fetch")
     \/ At(a, "fail") /\ GoOut(a)
  /\ UNCHANGED <<runtimeVars, up, provider, making, dying, reaper, faults>>

(* The client of the acquired sandbox, which may be gone again. *)
Fetch(a) ==
  LET p == agent[a].proc  t == agent[a].thread IN
  /\ At(a, "fetch")
  /\ \/ t \in active[p] /\ Touch(p, t) /\ Go(a, "use")
     \/ t \notin active[p] /\ UNCHANGED idle /\ GoOut(a)
  /\ UNCHANGED <<runtimeVars, up, active, warm, info, locks, making, dying, reaper, faults>>

(* after_agent: the sandbox goes to the pool, whoever else uses it. *)
Release(a) ==
  LET p == agent[a].proc  t == agent[a].thread IN
  /\ At(a, "use")
  /\ active' = [active EXCEPT ![p] = @ \ {t}]
  /\ IF t \in active[p]
     THEN /\ warm' = IF warm[p][t] = 0 THEN [warm EXCEPT ![p] = Park(@, t)] ELSE warm
          /\ Touch(p, t)
     ELSE UNCHANGED <<warm, idle>>
  /\ GoOut(a)
  /\ UNCHANGED <<runtimeVars, up, info, locks, making, dying, reaper, faults>>

(* A run that raises or is cancelled does not reach after_agent. *)
Abort(a) ==
  /\ At(a, "use")
  /\ GoOut(a)
  /\ UNCHANGED <<runtimeVars, up, provider, locks, making, dying, reaper, faults>>

(* acquire_async is cancelled at one of its waits.  The locks are given     *)
(* back; a container that was being started or made ready is left alone.    *)
Cancel(a) ==
  LET t == agent[a].thread IN
  /\ agent[a].at \in {"lock", "file", "create", "wait"} /\ Fault
  /\ late' = IF agent[a].at = "create" THEN late \cup {t} ELSE late
  /\ lost' = IF agent[a].at = "wait" THEN lost \cup {t} ELSE lost
  /\ making' = [making EXCEPT ![a] = 0]
  /\ Unlock(a)
  /\ GoOut(a)
  /\ UNCHANGED <<running, started, up, provider, dying, reaper>>

(* The start that a cancelled acquire left to a worker thread ends. *)
LateStart(t) ==
  /\ t \in late
  /\ late' = late \ {t}
  /\ \/ StartContainer(t) /\ lost' = lost \cup {t}
     \/ /\ running[t] # 0 \/ started = MaxContainers
        /\ UNCHANGED <<running, started, lost>>
  /\ UNCHANGED <<up, provider, locks, agentVars, reaper, faults>>

----------------------------------------------------------------------------
(* The idle checker and shutdown of a process. *)

(* idle_timeout goes by since the sandbox was touched or released; in the   *)
(* pool the older ones are idle first.                                      *)
GrowIdle(p, t) ==
  /\ up[p] /\ t \in Tracked(p) \ idle[p]
  /\ t \in Parked(p) =>
       \A s \in Parked(p) : warm[p][s] < warm[p][t] => s \in idle[p]
  /\ idle' = [idle EXCEPT ![p] = @ \cup {t}]
  /\ UNCHANGED <<runtimeVars, up, active, warm, info, locks, agentVars, reaper, faults>>

(* The first section of _cleanup_idle_sandboxes: idle sandboxes of the pool *)
(* leave it here, active ones are only noted.                               *)
Scan(p) ==
  LET gone == idle[p] \cap Parked(p) IN
  /\ up[p] /\ reaper[p] = Resting /\ idle[p] # {}
  /\ reaper' = [reaper EXCEPT ![p] = [Resting EXCEPT
       !.doomed = idle[p] \cap active[p],
       !.stops = {StopOf(p, t) : t \in gone}]]
  /\ Forget(p, gone)
  /\ UNCHANGED <<runtimeVars, up, active, locks, agentVars, faults>>

(* A noted sandbox is checked again; it is destroyed in a later section.    *)
(* Shutdown destroys without the check.                                     *)
Verify(p) ==
  /\ up[p] /\ reaper[p].at = "sweep"
  /\ \E t \in reaper[p].doomed :
       reaper' = [reaper EXCEPT ![p].doomed = @ \ {t},
         ![p].one = IF reaper[p].closing \/ t \in active[p] \cap idle[p]
                    THEN {t} ELSE {},
         ![p].at = IF reaper[p].closing \/ t \in active[p] \cap idle[p]
                   THEN "destroy" ELSE "sweep"]
  /\ UNCHANGED <<runtimeVars, up, provider, locks, agentVars, faults>>

(* Mutated form: only the handle of an active sandbox is used. *)
DestroyOnlyActive(p) ==
  /\ up[p] /\ reaper[p].at = "destroy"
  /\ \E t \in reaper[p].one :
       /\ active' = [active EXCEPT ![p] = @ \ {t}]
       /\ Forget(p, {t})
       /\ reaper' = [reaper EXCEPT ![p].one = {},
            ![p].now = IF t \in active[p] THEN {StopOf(p, t)} ELSE {},
            ![p].at = IF t \in active[p] THEN "stop" ELSE "sweep"]
  /\ UNCHANGED <<runtimeVars, up, locks, agentVars, faults>>

(* destroy: the sandbox leaves both tables, then its container stops. *)
Destroy(p) ==
  /\ up[p] /\ reaper[p].at = "destroy"
  /\ \E t \in reaper[p].one :
       /\ active' = [active EXCEPT ![p] = @ \ {t}]
       /\ Forget(p, {t})
       /\ reaper' = [reaper EXCEPT ![p].one = {},
            ![p].now = IF t \in Tracked(p) THEN {StopOf(p, t)} ELSE {},
            ![p].at = IF t \in Tracked(p) THEN "stop" ELSE "sweep"]
  /\ UNCHANGED <<runtimeVars, up, locks, agentVars, faults>>

StopNow(p) ==
  /\ up[p] /\ reaper[p].at = "stop"
  /\ \E s \in reaper[p].now : Stop(s)
  /\ reaper' = [reaper EXCEPT ![p].now = {}, ![p].at = "sweep"]
  /\ UNCHANGED <<started, late, up, provider, locks, agentVars>>

(* The containers taken from the pool are stopped last. *)
StopParked(p) ==
  /\ up[p] /\ reaper[p].at = "sweep" /\ reaper[p].doomed = {}
  /\ \E s \in reaper[p].stops :
       /\ Stop(s)
       /\ reaper' = [reaper EXCEPT ![p].stops = @ \ {s}]
  /\ UNCHANGED <<started, late, up, provider, locks, agentVars>>

(* shutdown: what is tracked now is destroyed, after what is left of a sweep. *)
Shutdown(p) ==
  /\ up[p] /\ ~reaper[p].closing /\ Fault
  /\ reaper' = [reaper EXCEPT ![p].closing = TRUE,
       ![p].doomed = @ \cup active[p],
       ![p].stops = @ \cup {StopOf(p, t) : t \in Parked(p)}]
  /\ Forget(p, Parked(p))
  /\ UNCHANGED <<runtimeVars, up, active, locks, agentVars>>

----------------------------------------------------------------------------
(* Processes that end and start. *)

Inside(a, p) == agent[a].at # "out" /\ agent[a].proc = p

(* The handles that somebody in the process has: of what it tracks, of what *)
(* it is stopping, of what it has started and not registered.               *)
Handles(p) ==
  {StopOf(p, t) : t \in Tracked(p)} \cup reaper[p].stops \cup reaper[p].now
    \cup (UNION {dying[a] : a \in {b \in Agents : Inside(b, p)}})
    \cup {[thread |-> agent[a].thread, by |-> making[a]] :
            a \in {b \in Agents : Inside(b, p) /\ At(b, "wait")}}

(* The process is gone: its memory, its agents, its locks on files. *)
Gone(p) ==
  /\ up' = [up EXCEPT ![p] = FALSE]
  /\ lost' = lost \cup {s.thread : s \in Handles(p)}
  /\ active' = [active EXCEPT ![p] = {}]
  /\ warm' = [warm EXCEPT ![p] = [t \in Threads |-> 0]]
  /\ idle' = [idle EXCEPT ![p] = {}]
  /\ info' = [info EXCEPT ![p] = [t \in Threads |-> ByName]]
  /\ reaper' = [reaper EXCEPT ![p] = Resting]
  /\ threadLock' = [threadLock EXCEPT ![p] = [t \in Threads |-> Free]]
  /\ fileLock' = [t \in Threads |->
       IF fileLock[t] # Free /\ agent[fileLock[t]].proc = p THEN Free ELSE fileLock[t]]
  /\ agent' = [a \in Agents |->
       IF Inside(a, p) THEN Out ELSE agent[a]]
  /\ making' = [a \in Agents |-> IF Inside(a, p) THEN 0 ELSE making[a]]
  /\ dying' = [a \in Agents |-> IF Inside(a, p) THEN {} ELSE dying[a]]
  /\ UNCHANGED <<running, started, late>>

Kill(p) ==
  /\ up[p] /\ Fault
  /\ Gone(p)

Exit(p) ==
  /\ up[p] /\ reaper[p].closing /\ reaper[p].at = "sweep"
  /\ reaper[p].doomed = {} /\ reaper[p].stops = {}
  /\ Gone(p)
  /\ UNCHANGED faults

(* _reconcile_orphans: whatever runs is adopted, also what another process  *)
(* uses, or nothing if docker fails or a container goes away between its    *)
(* two calls.  The adopted share one release time: their order is arbitrary.*)
(* One step, as nothing else of the process runs before it is over.         *)
Start(p) ==
  /\ Exists(p) /\ ~up[p]
  /\ up' = [up EXCEPT ![p] = TRUE]
  /\ \E found \in {{t \in Threads : running[t] # 0}, {}} :
       /\ \E place \in [found -> 1 .. Cardinality(found)] :
            /\ \A s, t \in found : s # t => place[s] # place[t]
            /\ warm' = [warm EXCEPT ![p] =
                 [t \in Threads |-> IF t \in found THEN place[t] ELSE 0]]
       /\ lost' = lost \ found
  /\ UNCHANGED <<running, started, late, active, info, idle, locks, agentVars, reaper, faults>>

----------------------------------------------------------------------------
Acquire(a) ==
  \/ LockThread(a) \/ LockFile(a) \/ Discover(a) \/ RegisterFound(a) \/ Count(a) \/ Evict(a) \/ StopEvicted(a) \/ Create(a)
  \/ RegisterCreated(a) \/ NotReady(a) \/ Leave(a) \/ Fetch(a)

Reap(p) ==
  Verify(p) \/ Destroy(p) \/ StopNow(p) \/ StopParked(p) \/ Exit(p)

Next ==
  /\ UNCHANGED routes
  /\ \/ \E a \in Agents : Ensure(a) \/ Acquire(a) \/ Release(a) \/ Abort(a) \/ Cancel(a)
     \/ \E t \in Threads : LateStart(t)
     \/ \E p \in Procs : \/ Scan(p) \/ Reap(p) \/ Shutdown(p) \/ Kill(p) \/ Start(p)
                         \/ \E t \in Threads : GrowIdle(p, t)

Spec == Init /\ [][Next]_vars

----------------------------------------------------------------------------
(* A sandbox is never active and in the warm pool of one process: the       *)
(* reaper or an eviction would stop the container of an active sandbox.     *)
NotActiveAndWarm == \A p \in Procs : active[p] \cap Parked(p) = {}

(* Across processes one agent at most is between its check that no          *)
(* container runs for the thread and the registration of the one it makes.  *)
Making == {"discover", "found", "count", "evict", "evicting", "create", "wait"}
OneMaker ==
  \A a, b \in Agents :
    agent[a].at \in Making /\ agent[b].at \in Making
      /\ agent[a].thread = agent[b].thread => a = b

(* No container is forgotten: one that runs is tracked, being registered or *)
(* being stopped by a process that lives, unless a kill, a cancellation or  *)
(* a failed docker stop let go of it.                                       *)
NoneForgotten ==
  \A t \in Threads :
    running[t] # 0 => \/ t \in lost
                      \/ \E p \in Procs : \E s \in Handles(p) :
                           s.thread = t /\ Reaches(s)

(* "Active sandboxes are in use by live threads and must not be forcibly    *)
(* stopped": the container of a sandbox in use runs.  It does not hold.     *)
ServedRuns ==
  \A a \in Agents :
    agent[a].at = "use" /\ agent[a].thread \in active[agent[a].proc]
      => running[agent[a].thread] # 0
============================================================================
