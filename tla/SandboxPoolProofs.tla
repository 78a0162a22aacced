------------------------- MODULE SandboxPoolProofs -------------------------
(***************************************************************************)
(* Proofs about SandboxPool for any number of processes, threads, agents   *)
(* and containers: a sandbox is never in both tables of a process, at most *)
(* one agent of all processes is making a container for a thread, and no   *)
(* container that runs is forgotten.                                       *)
(***************************************************************************)
EXTENDS SandboxPool, Integers, FiniteSetTheorems, TLAPS

(* The types that the argument needs; a place in the pool only has to be a  *)
(* number, since what counts is whether it is 0.                            *)
LockTypes ==
  /\ up \in [Procs -> BOOLEAN]
  /\ active \in [Procs -> SUBSET Threads]
  /\ warm \in [Procs -> [Threads -> Int]]
  /\ threadLock \in [Procs -> [Threads -> Agents \cup {Free}]]
  /\ fileLock \in [Threads -> Agents \cup {Free}]
  /\ agent \in [Agents -> {Out} \cup Jobs]

UnderThreadLock == Making \cup {"file", "leave", "fail"}

(* An agent past the lock of its thread holds it. *)
ThreadLocked ==
  \A a \in Agents : agent[a].at \in UnderThreadLock =>
    threadLock[agent[a].proc][agent[a].thread] = a

(* A maker holds the lock file of its thread. *)
FileLocked ==
  \A a \in Agents : agent[a].at \in Making => fileLock[agent[a].thread] = a

(* What a maker is to register is in no table of its process. *)
MakerSeesNothing ==
  \A a \in Agents : agent[a].at \in Making =>
    agent[a].thread \notin Tracked(agent[a].proc)

(* Agents are in processes that run, and the tables of the others are empty. *)
OnlyInLiveProcs ==
  /\ \A a \in Agents : agent[a].at # "out" => up[agent[a].proc]
  /\ \A p \in Procs : ~up[p] => Tracked(p) = {}

LockInv ==
  /\ LockTypes
  /\ ThreadLocked
  /\ FileLocked
  /\ MakerSeesNothing
  /\ OnlyInLiveProcs
  /\ NotActiveAndWarm

USE SandboxAssumption

----------------------------------------------------------------------------
(* Where an agent goes. *)

(* An agent that is not out has a job. *)
LEMMA AtJob ==
  ASSUME LockTypes, NEW a \in Agents, agent[a].at # "out"
  PROVE  /\ agent[a] \in Jobs
         /\ agent[a].proc \in Procs /\ agent[a].thread \in Threads
  BY DEF LockTypes, Jobs, Out

(* It keeps its process and thread when it goes on, and the others stay. *)
LEMMA Going ==
  ASSUME LockTypes, NEW a \in Agents, agent[a] \in Jobs,
         NEW place \in Acquiring \cup {"use"}, Go(a, place)
  PROVE  /\ agent' \in [Agents -> {Out} \cup Jobs]
         /\ agent'[a].at = place
         /\ agent'[a].proc = agent[a].proc
         /\ agent'[a].thread = agent[a].thread
         /\ \A b \in Agents : b # a => agent'[b] = agent[b]
<1>1. [agent[a] EXCEPT !.at = place] \in Jobs
  BY DEF Jobs
<1>2. agent' = [agent EXCEPT ![a] = [agent[a] EXCEPT !.at = place]]
  BY DEF Go
<1>3. agent' \in [Agents -> {Out} \cup Jobs]
  BY <1>1, <1>2 DEF LockTypes
<1>4. agent'[a] = [agent[a] EXCEPT !.at = place]
  BY <1>2 DEF LockTypes
<1>5. \A b \in Agents : b # a => agent'[b] = agent[b]
  BY <1>2 DEF LockTypes
<1>6. QED
  BY <1>3, <1>4, <1>5 DEF Jobs

LEMMA GoingOut ==
  ASSUME LockTypes, NEW a \in Agents, GoOut(a)
  PROVE  /\ agent' \in [Agents -> {Out} \cup Jobs]
         /\ agent'[a].at = "out"
         /\ \A b \in Agents : b # a => agent'[b] = agent[b]
  BY DEF LockTypes, GoOut, Out

(* What leaves the pool is out of it, and nothing else enters. *)
LEMMA Unparking ==
  ASSUME NEW w \in [Threads -> Int], NEW S, IsFiniteSet(S)
  PROVE  /\ Unpark(w, S) \in [Threads -> Int]
         /\ \A t \in Threads : Unpark(w, S)[t] # 0 => w[t] # 0 /\ t \notin S
<1>1. \A s \in Threads : Cardinality({r \in S : w[r] # 0 /\ w[r] < w[s]}) \in Int
  <2>. SUFFICES ASSUME NEW s \in Threads
               PROVE  Cardinality({r \in S : w[r] # 0 /\ w[r] < w[s]}) \in Int
    OBVIOUS
  <2>1. {r \in S : w[r] # 0 /\ w[r] < w[s]} \in SUBSET S
    OBVIOUS
  <2>2. IsFiniteSet({r \in S : w[r] # 0 /\ w[r] < w[s]})
    BY <2>1, FS_Subset
  <2>. QED
    BY <2>2, FS_CardinalityType
<1>. QED
  BY <1>1 DEF Unpark

(* What leaves a pool at once is finite. *)
LEMMA PoolIsFinite ==
  ASSUME NEW p \in Procs
  PROVE  IsFiniteSet(Parked(p)) /\ IsFiniteSet(idle[p] \cap Parked(p))
<1>1. Parked(p) \in SUBSET Threads /\ (idle[p] \cap Parked(p)) \in SUBSET Threads
  BY DEF Parked
<1>. QED
  BY <1>1, FS_Subset, SandboxAssumption DEF SandboxAssumption

(* Forgetting takes from the pool of one process only. *)
LEMMA Forgetting ==
  ASSUME LockTypes, NEW p \in Procs, NEW S, IsFiniteSet(S), Forget(p, S)
  PROVE  /\ warm' \in [Procs -> [Threads -> Int]]
         /\ \A q \in Procs, t \in Threads :
              warm'[q][t] # 0 => warm[q][t] # 0 /\ (q = p => t \notin S)
<1>1. warm' = [warm EXCEPT ![p] = Unpark(warm[p], S)]
  BY DEF Forget
<1>2. warm[p] \in [Threads -> Int]
  BY DEF LockTypes
<1>. QED
  BY <1>1, <1>2, Unparking DEF LockTypes

----------------------------------------------------------------------------
(* Steps by the kind of their effect. *)

Shrinks ==
  /\ active' \in [Procs -> SUBSET Threads]
  /\ warm' \in [Procs -> [Threads -> Int]]
  /\ \A p \in Procs, t \in Threads :
       (t \in active'[p] => t \in active[p]) /\ (warm'[p][t] # 0 => warm[p][t] # 0)

(* Tables that stay as they are shrink. *)
LEMMA Same == ASSUME LockTypes, UNCHANGED <<active, warm>> PROVE Shrinks
  BY DEF LockTypes, Shrinks

(* Forgetting what is in the pool shrinks it. *)
LEMMA ForgetShrinks ==
  ASSUME LockTypes, NEW p \in Procs, NEW S, IsFiniteSet(S), Forget(p, S),
         \/ active' = active
         \/ \E t : active' = [active EXCEPT ![p] = @ \ {t}]
  PROVE  Shrinks
<1>1. active' \in [Procs -> SUBSET Threads]
  BY DEF LockTypes
<1>2. \A q \in Procs, t \in Threads : t \in active'[q] => t \in active[q]
  BY DEF LockTypes
<1>. QED
  BY <1>1, <1>2, Forgetting DEF Shrinks

(* Nobody moves, and the tables only lose entries. *)
LEMMA Losing ==
  ASSUME LockInv, Shrinks, UNCHANGED <<up, locks, agent>>
  PROVE  LockInv'
<1>1. LockTypes'
  BY DEF LockInv, LockTypes, Shrinks, locks
<1>2. ThreadLocked' /\ FileLocked'
  BY DEF LockInv, ThreadLocked, FileLocked, locks
<1>3. \A p \in Procs, t \in Threads : t \in Tracked(p)' => t \in Tracked(p)
  BY DEF Shrinks, Tracked, Parked
<1>4. MakerSeesNothing'
  <2>. SUFFICES ASSUME NEW a \in Agents, (agent[a].at \in Making)'
               PROVE  (agent[a].thread \notin Tracked(agent[a].proc))'
    BY DEF MakerSeesNothing
  <2>2. agent' = agent
    OBVIOUS
  <2>1. agent[a].proc \in Procs /\ agent[a].thread \in Threads
    BY <2>2, AtJob DEF LockInv, Making
  <2>. QED
    BY <1>3, <2>1, <2>2 DEF LockInv, MakerSeesNothing
<1>5. OnlyInLiveProcs'
  <2>1. \A p \in Procs : Tracked(p)' \subseteq Threads
    BY DEF Tracked, Parked, Shrinks
  <2>. QED
    BY <1>3, <2>1 DEF LockInv, OnlyInLiveProcs
<1>6. NotActiveAndWarm'
  BY DEF LockInv, NotActiveAndWarm, Shrinks, Parked
<1>. QED
  BY <1>1, <1>2, <1>4, <1>5, <1>6 DEF LockInv

(* An agent goes on without a new lock in hand, and the tables only lose.   *)
LEMMA Moving ==
  ASSUME LockInv, Shrinks, UNCHANGED <<up, locks>>,
         NEW a \in Agents, agent[a].at # "out",
         NEW place \in Acquiring \cup {"use"}, Go(a, place),
         place \in UnderThreadLock => agent[a].at \in UnderThreadLock,
         place \in Making => agent[a].at \in Making
  PROVE  LockInv'
<1>1. /\ agent[a] \in Jobs /\ agent[a].proc \in Procs /\ agent[a].thread \in Threads
  BY AtJob DEF LockInv
<1>2. /\ agent' \in [Agents -> {Out} \cup Jobs]
      /\ agent'[a].at = place
      /\ agent'[a].proc = agent[a].proc
      /\ agent'[a].thread = agent[a].thread
      /\ \A b \in Agents : b # a => agent'[b] = agent[b]
  BY <1>1, Going DEF LockInv
<1>3. LockTypes'
  BY <1>2 DEF LockInv, LockTypes, Shrinks, locks
<1>4. ThreadLocked' /\ FileLocked'
  BY <1>2 DEF LockInv, ThreadLocked, FileLocked, locks
<1>5. \A p \in Procs, t \in Threads : t \in Tracked(p)' => t \in Tracked(p)
  BY DEF Shrinks, Tracked, Parked
<1>6. MakerSeesNothing'
  <2>. SUFFICES ASSUME NEW b \in Agents, (agent[b].at \in Making)'
               PROVE  (agent[b].thread \notin Tracked(agent[b].proc))'
    BY DEF MakerSeesNothing
  <2>1. agent[b].at \in Making /\ agent'[b].proc = agent[b].proc
          /\ agent'[b].thread = agent[b].thread
    BY <1>2
  <2>2. agent[b].proc \in Procs /\ agent[b].thread \in Threads
    BY <2>1, AtJob DEF LockInv, Making
  <2>. QED
    BY <1>5, <2>1, <2>2 DEF LockInv, MakerSeesNothing
<1>7. OnlyInLiveProcs'
  <2>1. \A p \in Procs : Tracked(p)' \subseteq Threads
    BY DEF Tracked, Parked, Shrinks
  <2>. QED
    BY <1>2, <1>5, <2>1 DEF LockInv, OnlyInLiveProcs
<1>8. NotActiveAndWarm'
  BY DEF LockInv, NotActiveAndWarm, Shrinks, Parked
<1>. QED
  BY <1>3, <1>4, <1>6, <1>7, <1>8 DEF LockInv

(* An agent leaves with the locks it has, if any, returned: only locks that *)
(* it holds change.                                                         *)
OwnLocks(a) ==
  /\ threadLock' \in [Procs -> [Threads -> Agents \cup {Free}]]
  /\ fileLock' \in [Threads -> Agents \cup {Free}]
  /\ \A p \in Procs, t \in Threads :
       threadLock[p][t] # a => threadLock'[p][t] = threadLock[p][t]
  /\ \A t \in Threads : fileLock[t] # a => fileLock'[t] = fileLock[t]

LEMMA Unlocking ==
  ASSUME LockTypes, NEW a \in Agents,
         (agent[a].at # "out" /\ Unlock(a)) \/ UNCHANGED locks
  PROVE  OwnLocks(a)
<1>2. CASE agent[a].at # "out" /\ Unlock(a)
  <2>1. agent[a].proc \in Procs /\ agent[a].thread \in Threads
    BY <1>2, AtJob
  <2>. QED
    BY <1>2, <2>1 DEF LockTypes, OwnLocks, Unlock, Free
<1>3. CASE UNCHANGED locks
  BY <1>3 DEF LockTypes, OwnLocks, locks
<1>. QED
  BY <1>2, <1>3

LEMMA Leaving ==
  ASSUME LockInv, UNCHANGED <<up, active, warm>>,
         NEW a \in Agents, OwnLocks(a),
         /\ agent' \in [Agents -> {Out} \cup Jobs]
         /\ agent'[a].at \notin UnderThreadLock
         /\ agent'[a].at # "out" => up[agent'[a].proc]
         /\ \A b \in Agents : b # a => agent'[b] = agent[b]
  PROVE  LockInv'
<1>1. LockTypes'
  BY DEF LockInv, LockTypes, OwnLocks
<1>2. \A b \in Agents : agent[b].at # "out" =>
        agent[b].proc \in Procs /\ agent[b].thread \in Threads
  BY AtJob DEF LockInv
<1>3. ThreadLocked'
  BY <1>2 DEF LockInv, ThreadLocked, OwnLocks, UnderThreadLock, Making
<1>4. FileLocked'
  BY <1>2 DEF LockInv, FileLocked, OwnLocks, UnderThreadLock, Making
<1>5. \A p : Tracked(p)' = Tracked(p)
  BY DEF Tracked, Parked
<1>6. MakerSeesNothing' /\ OnlyInLiveProcs'
  BY <1>5 DEF LockInv, MakerSeesNothing, OnlyInLiveProcs, UnderThreadLock
<1>7. NotActiveAndWarm'
  BY DEF LockInv, NotActiveAndWarm, Parked
<1>. QED
  BY <1>1, <1>3, <1>4, <1>6, <1>7 DEF LockInv

(* An agent comes under the lock of its thread, or goes on under it, and may *)
(* make its sandbox active.                                                  *)
Takes(a, p, t) ==
  /\ threadLock' \in [Procs -> [Threads -> Agents \cup {Free}]]
  /\ fileLock' \in [Threads -> Agents \cup {Free}]
  /\ threadLock[p][t] \in {Free, a} /\ threadLock'[p][t] = a
  /\ \A q \in Procs, s \in Threads :
       q # p \/ s # t => threadLock'[q][s] = threadLock[q][s]
  /\ \A s \in Threads :
       fileLock'[s] # fileLock[s] => s = t /\ fileLock[s] = Free /\ fileLock'[s] = a

Gains(p, t) ==
  /\ active' \in [Procs -> SUBSET Threads]
  /\ warm' \in [Procs -> [Threads -> Int]]
  /\ \A q \in Procs, s \in Threads :
       /\ s \in active'[q] => s \in active[q] \/ (q = p /\ s = t)
       /\ warm'[q][s] # 0 => warm[q][s] # 0
  /\ t \in active'[p] => warm'[p][t] = 0

LEMMA Gaining ==
  ASSUME LockInv, UNCHANGED up,
         NEW a \in Agents, NEW p \in Procs, NEW t \in Threads,
         agent[a].at # "out", p = agent[a].proc, t = agent[a].thread,
         NEW place \in {"leave", "file"} \cup Making, Go(a, place),
         Takes(a, p, t), Gains(p, t),
         place \in Making => fileLock'[t] = a /\ (t \notin Tracked(p))'
  PROVE  LockInv'
<1>1. agent[a] \in Jobs
  BY AtJob DEF LockInv
<1>2. place \in Acquiring \cup {"use"}
  BY DEF Acquiring, Making
<1>3. /\ agent' \in [Agents -> {Out} \cup Jobs]
      /\ agent'[a].at = place
      /\ agent'[a].proc = p
      /\ agent'[a].thread = t
      /\ \A b \in Agents : b # a => agent'[b] = agent[b]
  BY <1>1, <1>2, Going DEF LockInv
<1>4. LockTypes'
  BY <1>3 DEF LockInv, LockTypes, Takes, Gains
<1>5. \A b \in Agents : agent[b].at # "out" =>
        agent[b].proc \in Procs /\ agent[b].thread \in Threads
  BY AtJob DEF LockInv
<1>6. \A b \in Agents : b # a /\ agent[b].at \in UnderThreadLock =>
        agent[b].proc # p \/ agent[b].thread # t
  BY DEF LockInv, ThreadLocked, Takes, Free
<1>7. ThreadLocked'
  <2>. SUFFICES ASSUME NEW b \in Agents, (agent[b].at \in UnderThreadLock)'
               PROVE  (threadLock[agent[b].proc][agent[b].thread] = b)'
    BY DEF ThreadLocked
  <2>1. CASE b = a
    BY <1>3, <2>1 DEF Takes
  <2>2. CASE b # a
    BY <1>3, <1>5, <1>6, <2>2 DEF LockInv, ThreadLocked, Takes, UnderThreadLock, Making
  <2>. QED
    BY <2>1, <2>2
<1>8. FileLocked'
  <2>. SUFFICES ASSUME NEW b \in Agents, (agent[b].at \in Making)'
               PROVE  (fileLock[agent[b].thread] = b)'
    BY DEF FileLocked
  <2>1. CASE b = a
    BY <1>3, <2>1
  <2>2. CASE b # a
    BY <1>3, <1>5, <2>2 DEF LockInv, FileLocked, Takes, Making, Free
  <2>. QED
    BY <2>1, <2>2
<1>9. \A q \in Procs, s \in Threads :
        q # p \/ s # t => ((s \in Tracked(q))' => s \in Tracked(q))
  BY DEF Gains, Tracked, Parked
<1>10. MakerSeesNothing'
  <2>. SUFFICES ASSUME NEW b \in Agents, (agent[b].at \in Making)'
               PROVE  (agent[b].thread \notin Tracked(agent[b].proc))'
    BY DEF MakerSeesNothing
  <2>1. CASE b = a
    BY <1>3, <2>1
  <2>2. CASE b # a
    <3>1. agent'[b] = agent[b] /\ agent[b].at \in Making
      BY <1>3, <2>2
    <3>2. agent[b].proc \in Procs /\ agent[b].thread \in Threads
      BY <1>5, <3>1 DEF Making
    <3>3. agent[b].proc # p \/ agent[b].thread # t
      BY <1>6, <2>2, <3>1 DEF UnderThreadLock
    <3>4. agent[b].thread \notin Tracked(agent[b].proc)
      BY <3>1 DEF LockInv, MakerSeesNothing
    <3>. QED
      BY <1>9, <3>1, <3>2, <3>3, <3>4
  <2>. QED
    BY <2>1, <2>2
<1>11. OnlyInLiveProcs'
  <2>1. up[p]
    BY DEF LockInv, OnlyInLiveProcs
  <2>2. \A q \in Procs : Tracked(q)' \subseteq Threads
    BY DEF Gains, Tracked, Parked
  <2>. QED
    BY <1>3, <1>9, <2>1, <2>2 DEF LockInv, OnlyInLiveProcs
<1>12. NotActiveAndWarm'
  BY DEF LockInv, NotActiveAndWarm, Gains, Parked
<1>. QED
  BY <1>4, <1>7, <1>8, <1>10, <1>11, <1>12 DEF LockInv

----------------------------------------------------------------------------
(* The steps of an agent. *)

LEMMA DiscoverKeeps ==
  ASSUME LockInv, NEW a \in Agents, Discover(a)
  PROVE  LockInv'
<1>1. Shrinks /\ UNCHANGED <<up, locks>>
  BY Same DEF LockInv, Discover, provider
<1>2. agent[a].at = "discover" /\ (Go(a, "found") \/ Go(a, "count"))
  BY DEF Discover, At
<1>. QED
  BY <1>1, <1>2, Moving DEF UnderThreadLock, Making, Acquiring

LEMMA CountKeeps ==
  ASSUME LockInv, NEW a \in Agents, Count(a)
  PROVE  LockInv'
<1>1. Shrinks /\ UNCHANGED <<up, locks>>
  BY Same DEF LockInv, Count, provider
<1>2. agent[a].at = "count" /\ (Go(a, "evict") \/ Go(a, "create"))
  BY DEF Count, At
<1>. QED
  BY <1>1, <1>2, Moving DEF UnderThreadLock, Making, Acquiring

LEMMA StopEvictedKeeps ==
  ASSUME LockInv, NEW a \in Agents, StopEvicted(a)
  PROVE  LockInv'
<1>1. Shrinks /\ UNCHANGED <<up, locks>>
  BY Same DEF LockInv, StopEvicted, provider
<1>2. agent[a].at = "evicting" /\ (Go(a, "create"))
  BY DEF StopEvicted, At
<1>. QED
  BY <1>1, <1>2, Moving DEF UnderThreadLock, Making, Acquiring

LEMMA CreateKeeps ==
  ASSUME LockInv, NEW a \in Agents, Create(a)
  PROVE  LockInv'
<1>1. Shrinks /\ UNCHANGED <<up, locks>>
  BY Same DEF LockInv, Create, provider
<1>2. agent[a].at = "create" /\ (Go(a, "wait") \/ Go(a, "fail"))
  BY DEF Create, At
<1>. QED
  BY <1>1, <1>2, Moving DEF UnderThreadLock, Making, Acquiring

LEMMA NotReadyKeeps ==
  ASSUME LockInv, NEW a \in Agents, NotReady(a)
  PROVE  LockInv'
<1>1. Shrinks /\ UNCHANGED <<up, locks>>
  BY Same DEF LockInv, NotReady, provider
<1>2. agent[a].at = "wait" /\ (Go(a, "fail"))
  BY DEF NotReady, At
<1>. QED
  BY <1>1, <1>2, Moving DEF UnderThreadLock, Making, Acquiring

LEMMA EvictKeeps ==
  ASSUME LockInv, NEW a \in Agents, Evict(a)
  PROVE  LockInv'
<1>1. agent[a].at = "evict" /\ (Go(a, "create") \/ Go(a, "evicting"))
  BY DEF Evict, At
<1>2. UNCHANGED <<up, locks, active>>
  BY DEF Evict
<1>3. Shrinks
  <2>1. agent[a].proc \in Procs
    BY <1>1, AtJob DEF LockInv
  <2>2. UNCHANGED warm \/ \E t \in Threads : Forget(agent[a].proc, {t})
    BY DEF Evict, Parked
  <2>3. CASE UNCHANGED warm
    BY <1>2, <2>3, Same DEF LockInv
  <2>4. CASE \E t \in Threads : Forget(agent[a].proc, {t})
    <3>. PICK t \in Threads : Forget(agent[a].proc, {t})
      BY <2>4
    <3>. QED
      BY <1>2, <2>1, ForgetShrinks, FS_Singleton DEF LockInv
  <2>. QED
    BY <2>2, <2>3, <2>4
<1>. QED
  BY <1>1, <1>2, <1>3, Moving DEF UnderThreadLock, Making, Acquiring

LEMMA FetchKeeps ==
  ASSUME LockInv, NEW a \in Agents, Fetch(a)
  PROVE  LockInv'
<1>1. Shrinks /\ UNCHANGED <<up, locks, active, warm>> /\ agent[a].at = "fetch"
  BY Same DEF LockInv, Fetch, At
<1>2. CASE Go(a, "use")
  BY <1>1, <1>2, Moving DEF UnderThreadLock, Making, Acquiring
<1>3. CASE GoOut(a)
  BY <1>1, <1>3, GoingOut, Unlocking, Leaving DEF LockInv, UnderThreadLock, Making
<1>. QED
  BY <1>2, <1>3 DEF Fetch

LEMMA LeaveKeeps ==
  ASSUME LockInv, NEW a \in Agents, Leave(a)
  PROVE  LockInv'
<1>1. UNCHANGED <<up, active, warm>> /\ Unlock(a) /\ agent[a].at # "out"
  BY DEF Leave, provider
<1>2. OwnLocks(a)
  BY <1>1, Unlocking DEF LockInv
<1>3. CASE Go(a, "fetch")
  <2>1. agent[a] \in Jobs
    BY <1>1, AtJob DEF LockInv
  <2>2. /\ agent' \in [Agents -> {Out} \cup Jobs]
        /\ agent'[a].at = "fetch" /\ agent'[a].proc = agent[a].proc
        /\ \A b \in Agents : b # a => agent'[b] = agent[b]
    BY <1>3, <2>1, Going DEF LockInv, Acquiring
  <2>3. up[agent[a].proc]
    BY <1>1 DEF LockInv, OnlyInLiveProcs
  <2>. QED
    BY <1>1, <1>2, <2>2, <2>3, Leaving DEF UnderThreadLock, Making
<1>4. CASE GoOut(a)
  BY <1>1, <1>2, <1>4, GoingOut, Leaving DEF LockInv, UnderThreadLock, Making
<1>. QED
  BY <1>3, <1>4 DEF Leave

LEMMA CancelKeeps ==
  ASSUME LockInv, NEW a \in Agents, Cancel(a)
  PROVE  LockInv'
<1>1. UNCHANGED <<up, active, warm>> /\ Unlock(a) /\ agent[a].at # "out" /\ GoOut(a)
  BY DEF Cancel, provider
<1>2. OwnLocks(a)
  BY <1>1, Unlocking DEF LockInv
<1>. QED
  BY <1>1, <1>2, GoingOut, Leaving DEF LockInv, UnderThreadLock, Making

LEMMA AbortKeeps ==
  ASSUME LockInv, NEW a \in Agents, Abort(a)
  PROVE  LockInv'
<1>1. UNCHANGED <<up, active, warm, locks>> /\ GoOut(a)
  BY DEF Abort, provider
<1>. QED
  BY <1>1, GoingOut, Unlocking, Leaving DEF LockInv, UnderThreadLock, Making

LEMMA EnsureKeeps ==
  ASSUME LockInv, NEW a \in Agents, Ensure(a)
  PROVE  LockInv'
<1>1. UNCHANGED <<up, active, warm, locks>>
  BY DEF Ensure
<1>2. PICK p \in Procs, t \in Threads, place \in {"use", "lock"} :
        /\ up[p]
        /\ agent' = [agent EXCEPT ![a] = [at |-> place, proc |-> p, thread |-> t]]
  BY DEF Ensure
<1>3. [at |-> place, proc |-> p, thread |-> t] \in Jobs
  BY DEF Jobs, Acquiring
<1>4. /\ agent' \in [Agents -> {Out} \cup Jobs]
      /\ agent'[a] = [at |-> place, proc |-> p, thread |-> t]
      /\ \A b \in Agents : b # a => agent'[b] = agent[b]
  BY <1>2, <1>3 DEF LockInv, LockTypes
<1>5. agent'[a].at \notin UnderThreadLock /\ up[agent'[a].proc]
  BY <1>2, <1>4 DEF UnderThreadLock, Making
<1>. QED
  BY <1>1, <1>4, <1>5, Unlocking, Leaving DEF LockInv

(* What the look at the tables does to them. *)
LEMMA Looking ==
  ASSUME LockInv, NEW a \in Agents, agent[a].at # "out",
         NEW place \in {"file", "discover"}, ReuseOrReclaim(a, place)
  PROVE  /\ Gains(agent[a].proc, agent[a].thread)
         /\ \/ Go(a, "leave")
            \/ Go(a, place) /\ (agent[a].thread \notin Tracked(agent[a].proc))
                            /\ UNCHANGED <<active, warm>>
<1>0. PICK p \in Procs, t \in Threads : p = agent[a].proc /\ t = agent[a].thread
  BY AtJob DEF LockInv
<1>1. CASE UNCHANGED <<active, warm>>
  <2>1. Gains(p, t)
    BY <1>0, <1>1 DEF LockInv, LockTypes, Gains, NotActiveAndWarm, Parked
  <2>. QED
    BY <1>0, <1>1, <2>1 DEF ReuseOrReclaim, Tracked, provider
<1>2. CASE /\ active' = [active EXCEPT ![p] = @ \cup {t}]
           /\ warm' = [warm EXCEPT ![p] = Unpark(@, {t})]
           /\ Go(a, "leave")
  <2>1. warm[p] \in [Threads -> Int]
    BY <1>0 DEF LockInv, LockTypes
  <2>2. warm'[p] = Unpark(warm[p], {t}) /\ \A q \in Procs : q # p => warm'[q] = warm[q]
    BY <1>0, <1>2 DEF LockInv, LockTypes
  <2>a. IsFiniteSet({t})
    BY FS_Singleton
  <2>3. /\ warm'[p] \in [Threads -> Int]
        /\ \A s \in Threads : warm'[p][s] # 0 => warm[p][s] # 0 /\ s \notin {t}
    <3>1. /\ Unpark(warm[p], {t}) \in [Threads -> Int]
          /\ \A s \in Threads : Unpark(warm[p], {t})[s] # 0 => warm[p][s] # 0 /\ s \notin {t}
      BY <2>a, <2>1, Unparking
    <3>. QED
      BY <2>2, <3>1
  <2>4. warm' \in [Procs -> [Threads -> Int]]
    BY <1>2, <2>2, <2>3 DEF LockInv, LockTypes
  <2>5. /\ active' \in [Procs -> SUBSET Threads]
        /\ \A q \in Procs, s \in Threads :
             s \in active'[q] => s \in active[q] \/ (q = p /\ s = t)
    BY <1>0, <1>2 DEF LockInv, LockTypes
  <2>6. warm'[p][t] = 0
    BY <1>0, <2>3
  <2>7. \A q \in Procs, s \in Threads : warm'[q][s] # 0 => warm[q][s] # 0
    BY <2>2, <2>3
  <2>8. Gains(p, t)
    BY <2>4, <2>5, <2>6, <2>7 DEF Gains
  <2>. QED
    BY <1>0, <1>2, <2>8
<1>. QED
  BY <1>0, <1>1, <1>2 DEF ReuseOrReclaim, Register, provider

LEMMA LockThreadKeeps ==
  ASSUME LockInv, NEW a \in Agents, LockThread(a)
  PROVE  LockInv'
<1>0. agent[a].at # "out"
  BY DEF LockThread, At
<1>. PICK p \in Procs, t \in Threads : p = agent[a].proc /\ t = agent[a].thread
  BY <1>0, AtJob DEF LockInv
<1>1. /\ agent[a].at = "lock" /\ threadLock[p][t] = Free
      /\ threadLock' = [threadLock EXCEPT ![p][t] = a]
      /\ ReuseOrReclaim(a, "file") /\ UNCHANGED <<up, fileLock>>
  BY DEF LockThread, At
<1>3. Gains(p, t) /\ (Go(a, "leave") \/ Go(a, "file"))
  BY <1>1, Looking
<1>4. Takes(a, p, t)
  BY <1>1 DEF LockInv, LockTypes, Takes
<1>. QED
  BY <1>0, <1>1, <1>3, <1>4, Gaining DEF Making

LEMMA LockFileKeeps ==
  ASSUME LockInv, NEW a \in Agents, LockFile(a)
  PROVE  LockInv'
<1>0. agent[a].at # "out"
  BY DEF LockFile, At
<1>. PICK p \in Procs, t \in Threads : p = agent[a].proc /\ t = agent[a].thread
  BY <1>0, AtJob DEF LockInv
<1>1. /\ agent[a].at = "file" /\ fileLock[t] = Free
      /\ fileLock' = [fileLock EXCEPT ![t] = a]
      /\ ReuseOrReclaim(a, "discover") /\ UNCHANGED <<up, threadLock>>
  BY DEF LockFile, At
<1>3. /\ Gains(p, t)
      /\ \/ Go(a, "leave")
         \/ Go(a, "discover") /\ t \notin Tracked(p) /\ UNCHANGED <<active, warm>>
  BY <1>1, Looking
<1>4. threadLock[p][t] = a
  BY <1>1 DEF LockInv, ThreadLocked, UnderThreadLock
<1>5. Takes(a, p, t) /\ fileLock'[t] = a
  BY <1>0, <1>1, <1>4 DEF LockInv, LockTypes, Takes
<1>6. CASE Go(a, "leave")
  BY <1>0, <1>1, <1>3, <1>5, <1>6, Gaining DEF Making
<1>7. CASE Go(a, "discover") /\ t \notin Tracked(p) /\ UNCHANGED <<active, warm>>
  <2>1. (t \notin Tracked(p))'
    BY <1>7 DEF Tracked, Parked
  <2>. QED
    BY <1>0, <1>1, <1>3, <1>5, <1>7, <2>1, Gaining DEF Making
<1>. QED
  BY <1>3, <1>6, <1>7

(* A maker registers its sandbox. *)
LEMMA Registering ==
  ASSUME LockInv, NEW a \in Agents, agent[a].at \in Making, NEW by,
         Register(agent[a].proc, agent[a].thread, by), Go(a, "leave"),
         UNCHANGED <<up, warm, locks>>
  PROVE  LockInv'
<1>0. agent[a].at # "out"
  BY DEF Making
<1>. PICK p \in Procs, t \in Threads : p = agent[a].proc /\ t = agent[a].thread
  BY <1>0, AtJob DEF LockInv
<1>3. threadLock[p][t] = a
  BY DEF LockInv, ThreadLocked, UnderThreadLock
<1>4. t \notin Parked(p)
  BY DEF LockInv, MakerSeesNothing, Tracked
<1>5. active' = [active EXCEPT ![p] = @ \cup {t}]
  BY DEF Register
<1>6. Takes(a, p, t)
  BY <1>0, <1>3 DEF LockInv, LockTypes, Takes, locks
<1>7. Gains(p, t)
  BY <1>0, <1>4, <1>5 DEF LockInv, LockTypes, Gains, Parked
<1>. QED
  BY <1>0, <1>6, <1>7, Gaining DEF Making

LEMMA RegisterFoundKeeps ==
  ASSUME LockInv, NEW a \in Agents, RegisterFound(a)
  PROVE  LockInv'
  BY Registering DEF RegisterFound, At, Making

LEMMA RegisterCreatedKeeps ==
  ASSUME LockInv, NEW a \in Agents, RegisterCreated(a)
  PROVE  LockInv'
  BY Registering DEF RegisterCreated, At, Making

LEMMA ReleaseKeeps ==
  ASSUME LockInv, NEW a \in Agents, Release(a)
  PROVE  LockInv'
<1>0. agent[a].at = "use"
  BY DEF Release, At
<1>. PICK p \in Procs, t \in Threads : p = agent[a].proc /\ t = agent[a].thread
  BY <1>0, AtJob DEF LockInv
<1>1. /\ active' = [active EXCEPT ![p] = @ \ {t}]
      /\ warm' = warm \/ (t \in active[p] /\ warm' = [warm EXCEPT ![p] = Park(@, t)])
      /\ GoOut(a) /\ UNCHANGED <<up, locks>>
  BY DEF Release
<1>2. /\ agent' \in [Agents -> {Out} \cup Jobs] /\ agent'[a].at = "out"
      /\ \A b \in Agents : b # a => agent'[b] = agent[b]
  BY <1>1, GoingOut DEF LockInv
<1>3. /\ active' \in [Procs -> SUBSET Threads]
      /\ \A q \in Procs, s \in Threads :
           s \in active'[q] <=> s \in active[q] /\ ~(q = p /\ s = t)
  BY <1>1 DEF LockInv, LockTypes
<1>4. /\ warm' \in [Procs -> [Threads -> Int]]
      /\ \A q \in Procs, s \in Threads :
           warm'[q][s] # 0 => warm[q][s] # 0 \/ (q = p /\ s = t /\ t \in active[p])
  <2>1. warm[p] \in [Threads -> Int]
    BY DEF LockInv, LockTypes
  <2>2. Cardinality({s \in Threads : warm[p][s] # 0}) \in Nat
    BY PoolIsFinite, FS_CardinalityType DEF Parked
  <2>3. Park(warm[p], t) \in [Threads -> Int]
        /\ \A s \in Threads : s # t => Park(warm[p], t)[s] = warm[p][s]
    BY <2>1, <2>2 DEF Park
  <2>4. CASE warm' = warm
    BY <2>4 DEF LockInv, LockTypes
  <2>5. CASE t \in active[p] /\ warm' = [warm EXCEPT ![p] = Park(@, t)]
    <3>1. /\ warm' \in [Procs -> [Threads -> Int]]
          /\ warm'[p] = Park(warm[p], t)
          /\ \A q \in Procs : q # p => warm'[q] = warm[q]
      BY <2>3, <2>5 DEF LockInv, LockTypes
    <3>. QED
      BY <2>3, <2>5, <3>1
  <2>. QED
    BY <1>1, <2>4, <2>5
<1>5. \A q \in Procs, s \in Threads : (s \in Tracked(q))' => s \in Tracked(q)
  BY <1>3, <1>4 DEF Tracked, Parked
<1>6. LockTypes'
  BY <1>1, <1>2, <1>3, <1>4 DEF LockInv, LockTypes, locks
<1>7. ThreadLocked' /\ FileLocked'
  BY <1>1, <1>2 DEF LockInv, ThreadLocked, FileLocked, UnderThreadLock, Making, locks
<1>8. MakerSeesNothing'
  <2>. SUFFICES ASSUME NEW b \in Agents, (agent[b].at \in Making)'
               PROVE  (agent[b].thread \notin Tracked(agent[b].proc))'
    BY DEF MakerSeesNothing
  <2>1. agent'[b] = agent[b] /\ agent[b].at \in Making
    BY <1>2 DEF Making
  <2>2. agent[b].proc \in Procs /\ agent[b].thread \in Threads
    BY <2>1, AtJob DEF LockInv, Making
  <2>. QED
    BY <1>5, <2>1, <2>2 DEF LockInv, MakerSeesNothing
<1>9. OnlyInLiveProcs'
  <2>1. \A q \in Procs : Tracked(q)' \subseteq Threads
    BY <1>3 DEF Tracked, Parked
  <2>. QED
    BY <1>1, <1>2, <1>5, <2>1 DEF LockInv, OnlyInLiveProcs
<1>10. NotActiveAndWarm'
  BY <1>3, <1>4 DEF LockInv, NotActiveAndWarm, Parked
<1>. QED
  BY <1>6, <1>7, <1>8, <1>9, <1>10 DEF LockInv

----------------------------------------------------------------------------
(* The steps of a process. *)

(* The idle checker and shutdown only take from the tables. *)
LEMMA ReaperKeeps ==
  ASSUME LockInv, NEW p \in Procs,
         \/ Scan(p) \/ Verify(p) \/ Destroy(p) \/ StopNow(p) \/ StopParked(p)
         \/ Shutdown(p) \/ \E t \in Threads : GrowIdle(p, t)
  PROVE  LockInv'
<1>1. CASE Scan(p)
  <2>1. UNCHANGED <<up, locks, agent, active>> /\ Forget(p, idle[p] \cap Parked(p))
    BY <1>1 DEF Scan, agentVars
  <2>. QED
    BY <2>1, PoolIsFinite, ForgetShrinks, Losing DEF LockInv
<1>2. CASE Destroy(p)
  <2>1. UNCHANGED <<up, locks, agent>>
    BY <1>2 DEF Destroy, agentVars
  <2>2. PICK t : active' = [active EXCEPT ![p] = @ \ {t}] /\ Forget(p, {t})
    BY <1>2 DEF Destroy
  <2>. QED
    BY <2>1, <2>2, FS_Singleton, ForgetShrinks, Losing DEF LockInv
<1>3. CASE Shutdown(p)
  <2>1. UNCHANGED <<up, locks, agent, active>> /\ Forget(p, Parked(p))
    BY <1>3 DEF Shutdown, agentVars
  <2>. QED
    BY <2>1, PoolIsFinite, ForgetShrinks, Losing DEF LockInv
<1>4. CASE \/ Verify(p) \/ StopNow(p) \/ StopParked(p)
           \/ \E t \in Threads : GrowIdle(p, t)
  <2>1. UNCHANGED <<up, locks, agent, active, warm>>
    BY <1>4 DEF Verify, StopNow, StopParked, GrowIdle, provider, agentVars
  <2>. QED
    BY <2>1, Same, Losing DEF LockInv
<1>. QED
  BY <1>1, <1>2, <1>3, <1>4

(* A process that ends takes its tables, its agents and their locks with it. *)
LEMMA GoneKeeps ==
  ASSUME LockInv, NEW p \in Procs, Gone(p)
  PROVE  LockInv'
<1>1. /\ up' = [up EXCEPT ![p] = FALSE]
      /\ active' = [active EXCEPT ![p] = {}]
      /\ warm' = [warm EXCEPT ![p] = [t \in Threads |-> 0]]
      /\ threadLock' = [threadLock EXCEPT ![p] = [t \in Threads |-> Free]]
      /\ fileLock' = [t \in Threads |->
           IF fileLock[t] # Free /\ agent[fileLock[t]].proc = p THEN Free ELSE fileLock[t]]
      /\ agent' = [a \in Agents |-> IF Inside(a, p) THEN Out ELSE agent[a]]
  BY DEF Gone
<1>2. LockTypes'
  BY <1>1 DEF LockInv, LockTypes
<1>3. \A a \in Agents : agent'[a].at # "out" =>
        /\ agent'[a] = agent[a] /\ agent[a].at # "out" /\ agent[a].proc # p
        /\ agent[a].proc \in Procs /\ agent[a].thread \in Threads
  <2>. SUFFICES ASSUME NEW a \in Agents, agent'[a].at # "out"
               PROVE  /\ agent'[a] = agent[a] /\ agent[a].at # "out" /\ agent[a].proc # p
                      /\ agent[a].proc \in Procs /\ agent[a].thread \in Threads
    OBVIOUS
  <2>1. ~Inside(a, p)
    BY <1>1 DEF Out
  <2>2. agent'[a] = agent[a]
    BY <1>1, <2>1
  <2>. QED
    BY <2>1, <2>2, AtJob DEF Inside, LockInv
<1>4. ThreadLocked' /\ FileLocked'
  BY <1>1, <1>3 DEF LockInv, LockTypes, ThreadLocked, FileLocked, UnderThreadLock, Making
<1>5. /\ \A q \in Procs : q # p => (active'[q] = active[q] /\ warm'[q] = warm[q])
      /\ active'[p] = {} /\ \A t \in Threads : warm'[p][t] = 0
  BY <1>1 DEF LockInv, LockTypes
<1>6. \A q \in Procs, t \in Threads : (t \in Tracked(q))' => q # p /\ t \in Tracked(q)
  BY <1>5 DEF Tracked, Parked
<1>7. MakerSeesNothing'
  BY <1>3, <1>6 DEF LockInv, MakerSeesNothing, Making
<1>8. OnlyInLiveProcs'
  <2>1. \A q \in Procs : Tracked(q)' \subseteq Threads
    BY <1>2 DEF LockTypes, Tracked, Parked
  <2>. QED
    BY <1>1, <1>3, <1>6, <2>1 DEF LockInv, LockTypes, OnlyInLiveProcs
<1>9. NotActiveAndWarm'
  BY <1>5 DEF LockInv, NotActiveAndWarm, Parked
<1>. QED
  BY <1>2, <1>4, <1>7, <1>8, <1>9 DEF LockInv

(* A process that starts has nothing but what it adopts into its pool. *)
LEMMA StartKeeps ==
  ASSUME LockInv, NEW p \in Procs, Start(p)
  PROVE  LockInv'
<1>1. /\ ~up[p] /\ up' = [up EXCEPT ![p] = TRUE]
      /\ UNCHANGED <<active, threadLock, fileLock, agent>>
  BY DEF Start, locks, agentVars
<1>2. /\ warm' \in [Procs -> [Threads -> Int]]
      /\ \A q \in Procs : q # p => warm'[q] = warm[q]
  <2>1. PICK found \in SUBSET Threads : \E place \in [found -> 1 .. Cardinality(found)] :
          warm' = [warm EXCEPT ![p] = [t \in Threads |-> IF t \in found THEN place[t] ELSE 0]]
    BY DEF Start
  <2>2. PICK place \in [found -> 1 .. Cardinality(found)] :
          warm' = [warm EXCEPT ![p] = [t \in Threads |-> IF t \in found THEN place[t] ELSE 0]]
    BY <2>1
  <2>3. Cardinality(found) \in Nat
    BY FS_Subset, FS_CardinalityType, SandboxAssumption DEF SandboxAssumption
  <2>4. [t \in Threads |-> IF t \in found THEN place[t] ELSE 0] \in [Threads -> Int]
    BY <2>3
  <2>. QED
    BY <2>2, <2>4 DEF LockInv, LockTypes
<1>3. active[p] = {} /\ \A a \in Agents : agent[a].at # "out" => agent[a].proc # p
  BY <1>1 DEF LockInv, OnlyInLiveProcs, Tracked
<1>4. \A q \in Procs : q # p => Tracked(q)' = Tracked(q)
  BY <1>1, <1>2 DEF Tracked, Parked
<1>5. \A a \in Agents : agent[a].at # "out" =>
        agent[a].proc \in Procs /\ agent[a].thread \in Threads
  BY AtJob DEF LockInv
<1>6. LockTypes' /\ ThreadLocked' /\ FileLocked'
  BY <1>1, <1>2 DEF LockInv, LockTypes, ThreadLocked, FileLocked
<1>7. MakerSeesNothing'
  <2>. SUFFICES ASSUME NEW a \in Agents, (agent[a].at \in Making)'
               PROVE  (agent[a].thread \notin Tracked(agent[a].proc))'
    BY DEF MakerSeesNothing
  <2>1. agent'[a] = agent[a] /\ agent[a].at \in Making
    BY <1>1
  <2>. QED
    BY <1>3, <1>4, <1>5, <2>1 DEF LockInv, MakerSeesNothing, Making
<1>8. OnlyInLiveProcs'
  BY <1>1, <1>3, <1>4, <1>5 DEF LockInv, LockTypes, OnlyInLiveProcs
<1>9. NotActiveAndWarm'
  BY <1>1, <1>2, <1>3 DEF LockInv, NotActiveAndWarm, Parked
<1>. QED
  BY <1>6, <1>7, <1>8, <1>9 DEF LockInv

----------------------------------------------------------------------------
LEMMA InitLockInv == Init => LockInv
<1>. SUFFICES ASSUME Init PROVE LockInv
  OBVIOUS
<1>1. LockTypes
  BY DEF Init, LockTypes, Free, Exists
<1>2. \A a \in Agents : agent[a] = Out
  BY DEF Init
<1>3. \A p \in Procs : Tracked(p) = {}
  BY DEF Init, Tracked, Parked
<1>. QED
  BY <1>1, <1>2, <1>3 DEF LockInv, ThreadLocked, FileLocked, MakerSeesNothing,
     OnlyInLiveProcs, NotActiveAndWarm, UnderThreadLock, Making, Out, Tracked

LEMMA NextLockInv == LockInv /\ [Next]_vars => LockInv'
<1>. SUFFICES ASSUME LockInv, [Next]_vars PROVE LockInv'
  OBVIOUS
<1>1. CASE UNCHANGED vars
  BY <1>1, Same, Losing DEF LockInv, vars, provider, locks, agentVars
<1>2. CASE \E a \in Agents : Ensure(a) \/ Acquire(a) \/ Release(a) \/ Abort(a) \/ Cancel(a)
  BY <1>2, EnsureKeeps, LockThreadKeeps, LockFileKeeps, DiscoverKeeps,
     RegisterFoundKeeps, CountKeeps, EvictKeeps, StopEvictedKeeps, CreateKeeps,
     RegisterCreatedKeeps, NotReadyKeeps, LeaveKeeps, FetchKeeps, ReleaseKeeps,
     AbortKeeps, CancelKeeps DEF Acquire
<1>3. CASE \E t \in Threads : LateStart(t)
  <2>1. UNCHANGED <<up, locks, agent, active, warm>>
    BY <1>3 DEF LateStart, provider, agentVars
  <2>. QED
    BY <2>1, Same, Losing DEF LockInv
<1>4. CASE \E p \in Procs : \/ Scan(p) \/ Reap(p) \/ Shutdown(p) \/ Kill(p) \/ Start(p)
                           \/ \E t \in Threads : GrowIdle(p, t)
  BY <1>4, ReaperKeeps, GoneKeeps, StartKeeps DEF Reap, Kill, Exit
<1>. QED
  BY <1>1, <1>2, <1>3, <1>4 DEF Next

(* The invariant that the two properties follow from. *)
THEOREM LocksHold == Spec => []LockInv
<1>. QED
  BY InitLockInv, NextLockInv, PTL DEF Spec

(* No sandbox is ever active and in the warm pool of one process, for any   *)
(* number of processes and agents, with kills, restarts and cancellations.  *)
THEOREM NeverActiveAndWarm == Spec => []NotActiveAndWarm
<1>1. LockInv => NotActiveAndWarm
  BY DEF LockInv
<1>. QED
  BY <1>1, LocksHold, PTL

(* Of all agents of all processes at most one is making a container for a   *)
(* thread: the lock file serialises them.                                   *)
THEOREM OnlyOneMaker == Spec => []OneMaker
<1>1. LockInv => OneMaker
  BY DEF LockInv, FileLocked, OneMaker
<1>. QED
  BY <1>1, LocksHold, PTL

----------------------------------------------------------------------------
(* Places in the warm pool. *)

(* What is before a sandbox in the pool. *)
Before(w, s) == {r \in Threads : w[r] # 0 /\ w[r] < w[s]}

(* The places in a pool are 1, 2, ... in order, without a gap or a tie.     *)
Pools ==
  {w \in [Threads -> Nat] :
     /\ \A s \in Threads : w[s] # 0 => w[s] = 1 + Cardinality(Before(w, s))
     /\ \A r, s \in Threads : w[r] = w[s] /\ w[r] # 0 => r = s}

LEMMA SomeThreads ==
  ASSUME NEW S \in SUBSET Threads
  PROVE  IsFiniteSet(S) /\ Cardinality(S) \in Nat
  BY FS_Subset, FS_CardinalityType, SandboxAssumption DEF SandboxAssumption

(* One that is before another has less before it, whatever is left out. *)
LEMMA BeforeGrows ==
  ASSUME NEW w \in Pools, NEW S \in SUBSET Threads,
         NEW r \in Threads, NEW s \in Threads,
         w[r] # 0, w[r] < w[s], r \notin S
  PROVE  Cardinality(Before(w, r) \ S) < Cardinality(Before(w, s) \ S)
<1>1. w \in [Threads -> Nat]
  BY DEF Pools
<1>. DEFINE A == Before(w, r) \ S
            B == Before(w, s) \ S
<1>2. A \subseteq B
  BY <1>1 DEF Before
<1>3. r \in B /\ r \notin A
  BY <1>1 DEF Before
<1>4. B \in SUBSET Threads
  BY DEF Before
<1>5. IsFiniteSet(B) /\ Cardinality(B) \in Nat /\ A \in SUBSET Threads
  BY <1>2, <1>4, SomeThreads
<1>6. Cardinality(A) \in Nat
  BY <1>5, SomeThreads
<1>. HIDE DEF A, B
<1>7. Cardinality(A) <= Cardinality(B) /\ (Cardinality(A) = Cardinality(B) => A = B)
  BY <1>2, <1>5, FS_Subset
<1>8. Cardinality(A) < Cardinality(B)
  BY <1>3, <1>5, <1>6, <1>7
<1>. QED
  BY <1>8 DEF A, B

(* What is taken out of a pool leaves a pool of the others. *)
LEMMA UnparkedPool ==
  ASSUME NEW w \in Pools, NEW S \in SUBSET Threads
  PROVE  /\ Unpark(w, S) \in Pools
         /\ \A t \in Threads : Unpark(w, S)[t] # 0 <=> w[t] # 0 /\ t \notin S
<1>. DEFINE u == Unpark(w, S)
            Left == {t \in Threads : w[t] # 0 /\ t \notin S}
<1>1. /\ w \in [Threads -> Nat]
      /\ \A s \in Threads : w[s] # 0 => w[s] = 1 + Cardinality(Before(w, s))
      /\ \A r, s \in Threads : w[r] = w[s] /\ w[r] # 0 => r = s
  BY DEF Pools
<1>2. \A s \in Threads : Cardinality(Before(w, s) \ S) \in Nat
  <2>. SUFFICES ASSUME NEW s \in Threads PROVE Cardinality(Before(w, s) \ S) \in Nat
    OBVIOUS
  <2>1. Before(w, s) \ S \in SUBSET Threads
    BY DEF Before
  <2>. QED
    BY <2>1, SomeThreads
<1>3. \A s \in Left : u[s] = 1 + Cardinality(Before(w, s) \ S)
  <2>. SUFFICES ASSUME NEW s \in Left PROVE u[s] = 1 + Cardinality(Before(w, s) \ S)
    OBVIOUS
  <2>1. {r \in S : w[r] # 0 /\ w[r] < w[s]} = Before(w, s) \cap S
    BY DEF Before
  <2>2. u[s] = w[s] - Cardinality(Before(w, s) \cap S)
    BY <2>1 DEF Unpark
  <2>3. Before(w, s) \in SUBSET Threads /\ Before(w, s) \cap S \in SUBSET Threads
    BY DEF Before
  <2>4. /\ IsFiniteSet(Before(w, s)) /\ Cardinality(Before(w, s)) \in Nat
        /\ Cardinality(Before(w, s) \cap S) \in Nat
    BY <2>3, SomeThreads
  <2>5. Cardinality(Before(w, s) \ S)
          = Cardinality(Before(w, s)) - Cardinality(Before(w, s) \cap S)
    BY <2>4, FS_Difference
  <2>6. w[s] = 1 + Cardinality(Before(w, s))
    BY <1>1
  <2>. QED
    BY <2>2, <2>4, <2>5, <2>6
<1>4. \A s \in Threads : s \notin Left => u[s] = 0
  BY DEF Unpark
<1>5. u \in [Threads -> Int] /\ \A s \in Threads : u[s] \in Nat /\ (u[s] # 0 <=> s \in Left)
  <2>1. \A s \in Threads : u[s] \in Nat /\ (u[s] # 0 <=> s \in Left)
    <3>. SUFFICES ASSUME NEW s \in Threads
                 PROVE  u[s] \in Nat /\ (u[s] # 0 <=> s \in Left)
      OBVIOUS
    <3>1. Cardinality(Before(w, s) \ S) \in Nat
      BY <1>2
    <3>2. CASE s \in Left
      <4>1. u[s] = 1 + Cardinality(Before(w, s) \ S)
        BY <1>3, <3>2
      <4>. HIDE DEF u
      <4>. QED
        BY <3>1, <3>2, <4>1
    <3>3. CASE s \notin Left
      <4>1. u[s] = 0
        BY <1>4, <3>3
      <4>. HIDE DEF u, Left
      <4>. QED
        BY <3>3, <4>1
    <3>. QED
      BY <3>2, <3>3
  <2>2. u = [s \in Threads |-> u[s]]
    BY DEF Unpark
  <2>. HIDE DEF u, Left
  <2>. QED
    BY <2>1, <2>2
<1>6. u \in [Threads -> Nat]
  <2>. HIDE DEF u
  <2>. QED
    BY <1>5
<1>7. \A r, s \in Left : w[r] < w[s] => u[r] < u[s]
  <2>. SUFFICES ASSUME NEW r \in Left, NEW s \in Left, w[r] < w[s]
               PROVE  u[r] < u[s]
    OBVIOUS
  <2>1. Cardinality(Before(w, r) \ S) < Cardinality(Before(w, s) \ S)
    BY BeforeGrows
  <2>. HIDE DEF u
  <2>. QED
    BY <1>2, <1>3, <2>1
<1>. HIDE DEF u
<1>8. \A r, s \in Left : (u[r] < u[s] <=> w[r] < w[s]) /\ (u[r] = u[s] => r = s)
  <2>. SUFFICES ASSUME NEW r \in Left, NEW s \in Left
               PROVE  (u[r] < u[s] <=> w[r] < w[s]) /\ (u[r] = u[s] => r = s)
    OBVIOUS
  <2>1. w[r] \in Nat /\ w[s] \in Nat /\ u[r] \in Nat /\ u[s] \in Nat
    BY <1>1, <1>6
  <2>2. w[r] = w[s] => r = s
    BY <1>1
  <2>. QED
    BY <1>7, <2>1, <2>2
<1>9. \A s \in Left : Before(u, s) = Before(w, s) \ S
  <2>. SUFFICES ASSUME NEW s \in Left, NEW r \in Threads
               PROVE  (u[r] # 0 /\ u[r] < u[s]) <=> (w[r] # 0 /\ w[r] < w[s] /\ r \notin S)
    BY DEF Before
  <2>1. u[r] # 0 <=> r \in Left
    BY <1>5
  <2>. QED
    BY <1>8, <2>1
<1>10. u \in Pools
  <2>1. \A s \in Threads : u[s] # 0 => u[s] = 1 + Cardinality(Before(u, s))
    BY <1>3, <1>5, <1>9
  <2>2. \A r, s \in Threads : u[r] = u[s] /\ u[r] # 0 => r = s
    <3>. SUFFICES ASSUME NEW r \in Threads, NEW s \in Threads, u[r] = u[s], u[r] # 0
                 PROVE  r = s
      OBVIOUS
    <3>1. r \in Left /\ s \in Left
      BY <1>5
    <3>. QED
      BY <1>8, <3>1
  <2>. QED
    BY <1>6, <2>1, <2>2 DEF Pools
<1>. QED
  BY <1>5, <1>10 DEF u

(* The youngest comes after all the others. *)
LEMMA ParkedPool ==
  ASSUME NEW w \in Pools, NEW t \in Threads, w[t] = 0
  PROVE  /\ Park(w, t) \in Pools
         /\ \A s \in Threads : Park(w, t)[s] # 0 <=> w[s] # 0 \/ s = t
<1>. DEFINE All == {s \in Threads : w[s] # 0}
            u == Park(w, t)
<1>1. /\ w \in [Threads -> Nat]
      /\ \A s \in Threads : w[s] # 0 => w[s] = 1 + Cardinality(Before(w, s))
      /\ \A r, s \in Threads : w[r] = w[s] /\ w[r] # 0 => r = s
  BY DEF Pools
<1>2. IsFiniteSet(All) /\ Cardinality(All) \in Nat
  <2>1. All \in SUBSET Threads
    OBVIOUS
  <2>. QED
    BY <2>1, SomeThreads
<1>3. /\ u \in [Threads -> Nat] /\ u[t] = 1 + Cardinality(All)
      /\ \A s \in Threads : s # t => u[s] = w[s]
  BY <1>1, <1>2 DEF Park
<1>4. \A s \in All : w[s] <= Cardinality(All)
  <2>. SUFFICES ASSUME NEW s \in All PROVE w[s] <= Cardinality(All)
    OBVIOUS
  <2>1. Before(w, s) \in SUBSET All /\ s \in All /\ s \notin Before(w, s)
    BY <1>1 DEF Before
  <2>2. w[s] = 1 + Cardinality(Before(w, s))
    BY <1>1
  <2>. HIDE DEF All
  <2>3. /\ Cardinality(Before(w, s)) <= Cardinality(All)
        /\ Cardinality(Before(w, s)) = Cardinality(All) => Before(w, s) = All
    BY <1>2, <2>1, FS_Subset
  <2>4. Cardinality(Before(w, s)) \in Nat
    BY <1>2, <2>1, FS_Subset, FS_CardinalityType
  <2>. QED
    BY <1>2, <2>1, <2>2, <2>3, <2>4
<1>. HIDE DEF u
<1>5. Before(u, t) = All
  <2>. SUFFICES ASSUME NEW r \in Threads
               PROVE  (u[r] # 0 /\ u[r] < u[t]) <=> w[r] # 0
    BY DEF Before
  <2>1. w[r] # 0 => w[r] <= Cardinality(All) /\ r # t
    BY <1>4
  <2>2. w[r] \in Nat
    BY <1>1
  <2>. HIDE DEF All
  <2>. QED
    BY <1>2, <1>3, <2>1, <2>2
<1>6. \A s \in All : Before(u, s) = Before(w, s)
  <2>. SUFFICES ASSUME NEW s \in All, NEW r \in Threads
               PROVE  (u[r] # 0 /\ u[r] < u[s]) <=> (w[r] # 0 /\ w[r] < w[s])
    BY DEF Before
  <2>1. u[s] = w[s] /\ w[s] <= Cardinality(All) /\ w[s] \in Nat /\ w[r] \in Nat
    BY <1>1, <1>3, <1>4
  <2>. HIDE DEF All
  <2>. QED
    BY <1>2, <1>3, <2>1
<1>7. \A s \in Threads : u[s] # 0 <=> w[s] # 0 \/ s = t
  BY <1>2, <1>3
<1>8. \A s \in Threads : u[s] # 0 => u[s] = 1 + Cardinality(Before(u, s))
  <2>. SUFFICES ASSUME NEW s \in Threads, u[s] # 0
               PROVE  u[s] = 1 + Cardinality(Before(u, s))
    OBVIOUS
  <2>1. CASE s = t
    BY <1>3, <1>5, <2>1
  <2>2. CASE s # t
    BY <1>1, <1>3, <1>6, <2>2
  <2>. QED
    BY <2>1, <2>2
<1>9. \A r, s \in Threads : u[r] = u[s] /\ u[r] # 0 => r = s
  <2>. SUFFICES ASSUME NEW r \in Threads, NEW s \in Threads, u[r] = u[s], u[r] # 0
               PROVE  r = s
    OBVIOUS
  <2>1. \A q \in Threads : w[q] # 0 => w[q] \in Nat /\ w[q] <= Cardinality(All)
    BY <1>1, <1>4
  <2>. HIDE DEF All
  <2>5. \A q \in Threads : q # t => u[q] # u[t]
    <3>. SUFFICES ASSUME NEW q \in Threads, q # t, u[q] = u[t] PROVE FALSE
      OBVIOUS
    <3>1. w[q] = 1 + Cardinality(All)
      BY <1>3
    <3>. QED
      BY <1>2, <2>1, <3>1
  <2>2. CASE r = t /\ s # t
    BY <2>2, <2>5
  <2>3. CASE s = t /\ r # t
    BY <2>3, <2>5
  <2>4. CASE r # t /\ s # t
    BY <1>1, <1>3, <2>4
  <2>. QED
    BY <2>2, <2>3, <2>4
<1>. QED
  BY <1>3, <1>7, <1>8, <1>9 DEF Pools, u

(* What a process adopts when it starts is a pool. *)
LEMMA AdoptedPool ==
  ASSUME NEW found \in SUBSET Threads,
         NEW place \in [found -> 1 .. Cardinality(found)],
         \A s, t \in found : s # t => place[s] # place[t]
  PROVE  LET w == [t \in Threads |-> IF t \in found THEN place[t] ELSE 0]
         IN  w \in Pools /\ \A t \in Threads : w[t] # 0 <=> t \in found
<1>. DEFINE w == [t \in Threads |-> IF t \in found THEN place[t] ELSE 0]
            n == Cardinality(found)
<1>1. IsFiniteSet(found) /\ n \in Nat
  BY SomeThreads
<1>2. IsFiniteSet(1 .. n) /\ Cardinality(1 .. n) = n
  <2>. HIDE DEF n
  <2>. QED
    BY <1>1, FS_Interval
<1>3. place \in Injection(found, 1 .. n)
  BY DEF Injection, IsInjective
<1>4. place \in Surjection(found, 1 .. n)
  BY <1>2, <1>3, FS_Injection
<1>5. \A i \in 1 .. n : \E s \in found : place[s] = i
  BY <1>4 DEF Surjection
<1>. HIDE DEF n
<1>6. w \in [Threads -> Nat] /\ \A t \in Threads : w[t] # 0 <=> t \in found
  BY <1>1 DEF n
<1>7. \A s \in found : w[s] = 1 + Cardinality(Before(w, s))
  <2>. SUFFICES ASSUME NEW s \in found PROVE w[s] = 1 + Cardinality(Before(w, s))
    OBVIOUS
  <2>. DEFINE B == Before(w, s)
              k == place[s] - 1
              f == [r \in B |-> place[r]]
  <2>1. place[s] \in 1 .. n /\ w[s] = place[s] /\ k \in Nat
    BY <1>1 DEF n
  <2>2. B = {r \in found : place[r] < place[s]}
    <3>1. \A r \in Threads : (w[r] # 0 /\ w[r] < w[s]) <=> (r \in found /\ place[r] < place[s])
      BY <1>6, <2>1
    <3>. QED
      BY <3>1 DEF Before
  <2>3. \A r \in found : place[r] \in 1 .. n
    BY DEF n
  <2>4. f \in [B -> 1 .. k]
    BY <1>1, <2>1, <2>2, <2>3
  <2>5. f \in Injection(B, 1 .. k)
    BY <2>2, <2>4 DEF Injection, IsInjective
  <2>6. f \in Surjection(B, 1 .. k)
    <3>. SUFFICES ASSUME NEW i \in 1 .. k PROVE \E r \in B : f[r] = i
      BY <2>4 DEF Surjection
    <3>1. i \in 1 .. n /\ i < place[s]
      BY <1>1, <2>1
    <3>. PICK r \in found : place[r] = i
      BY <1>5, <3>1
    <3>2. r \in B
      BY <2>2, <3>1
    <3>. QED
      BY <3>2
  <2>. HIDE DEF B, f, k
  <2>7. IsFiniteSet(1 .. k) /\ Cardinality(1 .. k) = k
    BY <2>1, FS_Interval
  <2>8. Cardinality(B) = k
    BY <2>5, <2>6, <2>7, FS_Injection
  <2>. QED
    BY <2>1, <2>3, <2>8 DEF B, k
<1>8. \A r, s \in found : w[r] = w[s] => r = s
  OBVIOUS
<1>. HIDE DEF w
<1>9. w \in Pools
  BY <1>6, <1>7, <1>8 DEF Pools
<1>. QED
  BY <1>6, <1>9 DEF w

----------------------------------------------------------------------------
(* Who has the handle of a container. *)

Reapers == [at: {"sweep", "destroy", "stop"},
            doomed: SUBSET Threads, one: SUBSET Threads,
            now: SUBSET Stops, stops: SUBSET Stops, closing: BOOLEAN]

DataTypes ==
  /\ routes \in Routings
  /\ running \in [Threads -> Nat] /\ started \in Nat
  /\ warm \in [Procs -> Pools]
  /\ info \in [Procs -> [Threads -> Nat]]
  /\ idle \in [Procs -> SUBSET Threads]
  /\ making \in [Agents -> Nat]
  /\ dying \in [Agents -> SUBSET Stops]
  /\ reaper \in [Procs -> Reapers]
  /\ late \in SUBSET Threads /\ lost \in SUBSET Threads
  /\ faults \in Nat

(* An agent and a reaper stop one container at a time, and have it in hand  *)
(* only while they do.                                                      *)
OneAtHand ==
  /\ \A a \in Agents :
       /\ dying[a] # {} => agent[a].at = "evicting"
       /\ \A s, r \in dying[a] : s = r
  /\ \A p \in Procs :
       /\ reaper[p].now # {} => reaper[p].at = "stop"
       /\ \A s, r \in reaper[p].now : s = r

(* A process that is to start has no handle of its earlier life. *)
NothingNoted == \A p \in Procs, t \in Threads : ~up[p] => info[p][t] = ByName

(* All handles that somebody has: what the tables note, what reapers and    *)
(* agents are to stop, and what is started and not registered.              *)
Known ==
  {s \in Stops : \E p \in Procs : s.thread \in Tracked(p) /\ s.by = info[p][s.thread]}
Queued == UNION {reaper[p].stops \cup reaper[p].now : p \in Procs}
Dying == UNION {dying[a] : a \in Agents}
Made ==
  {s \in Stops : \E a \in Agents :
     agent[a].at = "wait" /\ s.thread = agent[a].thread /\ s.by = making[a]}
Held == Known \cup Queued \cup Dying \cup Made

Reaching == {s \in Stops : s.by = ByName \/ s.by = running[s.thread]}

Covered ==
  \A t \in Threads :
    running[t] # 0 => t \in lost \/ \E s \in Held \cap Reaching : s.thread = t

StopInv == DataTypes /\ OneAtHand /\ NothingNoted /\ Covered

----------------------------------------------------------------------------
LEMMA HeldTypes == ASSUME DataTypes PROVE Held \subseteq Stops
  BY DEF DataTypes, Held, Known, Queued, Dying, Made, Reapers

(* The handles that the property counts include all these. *)
LEMMA HeldIsHandles ==
  ASSUME LockInv, StopInv
  PROVE  \A s \in Held : \E p \in Procs : s \in Handles(p)
<1>. SUFFICES ASSUME NEW s \in Held PROVE \E p \in Procs : s \in Handles(p)
  OBVIOUS
<1>1. CASE s \in Known
  <2>. PICK p \in Procs : s.thread \in Tracked(p) /\ s.by = info[p][s.thread]
    BY <1>1 DEF Known
  <2>1. s = StopOf(p, s.thread)
    BY <1>1 DEF Known, Stops, StopOf
  <2>. QED
    BY <2>1 DEF Handles
<1>2. CASE s \in Queued
  BY <1>2 DEF Queued, Handles
<1>3. CASE s \in Dying
  <2>. PICK a \in Agents : s \in dying[a]
    BY <1>3 DEF Dying
  <2>1. agent[a].at = "evicting" /\ agent[a].proc \in Procs
    BY AtJob DEF LockInv, StopInv, OneAtHand
  <2>2. a \in {b \in Agents : Inside(b, agent[a].proc)}
    BY <2>1 DEF Inside
  <2>. QED
    BY <2>1, <2>2 DEF Handles
<1>4. CASE s \in Made
  <2>. PICK a \in Agents :
         agent[a].at = "wait" /\ s.thread = agent[a].thread /\ s.by = making[a]
    BY <1>4 DEF Made
  <2>1. agent[a].proc \in Procs
    BY AtJob DEF LockInv
  <2>2. s = [thread |-> agent[a].thread, by |-> making[a]]
    BY <1>4 DEF Made, Stops
  <2>3. a \in {b \in Agents : Inside(b, agent[a].proc) /\ At(b, "wait")}
    BY DEF Inside, At
  <2>4. s \in {[thread |-> agent[b].thread, by |-> making[b]] :
                b \in {c \in Agents : Inside(c, agent[a].proc) /\ At(c, "wait")}}
    BY <2>2, <2>3
  <2>5. s \in Handles(agent[a].proc)
    BY <2>4 DEF Handles
  <2>. QED
    BY <2>1, <2>5
<1>. QED
  BY <1>1, <1>2, <1>3, <1>4 DEF Held

LEMMA CoveredIsEnough ==
  ASSUME LockInv, StopInv
  PROVE  NoneForgotten
<1>. SUFFICES ASSUME NEW t \in Threads, running[t] # 0, t \notin lost
             PROVE  \E p \in Procs : \E s \in Handles(p) : s.thread = t /\ Reaches(s)
  BY DEF NoneForgotten
<1>. PICK s \in Held \cap Reaching : s.thread = t
  BY DEF StopInv, Covered
<1>1. Reaches(s)
  BY DEF Reaches, Reaching
<1>. QED
  BY <1>1, HeldIsHandles

(* Nothing runs that did not, and who had a handle has it still, unless it  *)
(* is lost or reaches nothing.                                              *)
LEMMA Keeping ==
  ASSUME StopInv, UNCHANGED running, lost \subseteq lost',
         \A s \in Held \cap Reaching : s.thread \in lost' \/ s \in Held'
  PROVE  Covered'
<1>1. Reaching' = Reaching
  BY DEF Reaching
<1>. SUFFICES ASSUME NEW t \in Threads, running[t] # 0, t \notin lost'
             PROVE  \E s \in Held' \cap Reaching : s.thread = t
  BY <1>1 DEF Covered
<1>. PICK s \in Held \cap Reaching : s.thread = t
  BY DEF StopInv, Covered
<1>. QED
  OBVIOUS

(* A container stops; the handle that stopped it may go. *)
LEMMA Stopping ==
  ASSUME LockInv, StopInv, NEW r \in Stops, lost \subseteq lost',
         \/ running' = AfterStop(r)
         \/ running' = running /\ r.thread \in lost',
         \A s \in Held \cap Reaching : s = r \/ s \in Held'
  PROVE  Covered'
<1>1. CASE r \notin Reaching \/ (running' = running /\ r.thread \in lost')
  <2>1. running' = running
    BY <1>1 DEF AfterStop, Reaches, Reaching
  <2>. QED
    BY <1>1, <2>1, Keeping
<1>2. CASE running' = AfterStop(r) /\ r \in Reaching
  <2>1. running' = [running EXCEPT ![r.thread] = 0]
    BY <1>2 DEF AfterStop, Reaches, Reaching
  <2>2. \A t \in Threads : running'[t] # 0 => t # r.thread /\ running'[t] = running[t]
    BY <2>1 DEF StopInv, DataTypes
  <2>. SUFFICES ASSUME NEW t \in Threads, running'[t] # 0, t \notin lost'
               PROVE  \E s \in Held' \cap Reaching' : s.thread = t
    BY DEF Covered
  <2>3. PICK s \in Held \cap Reaching : s.thread = t
    BY <2>2 DEF StopInv, Covered
  <2>4. s \in Held'
    BY <2>2, <2>3
  <2>5. s \in Reaching'
    BY <2>2, <2>3 DEF Reaching
  <2>. QED
    BY <2>3, <2>4, <2>5
<1>. QED
  BY <1>1, <1>2

----------------------------------------------------------------------------
(* The steps of an agent, and the handles. *)

(* What a process forgets leaves its pool and its notes, and no other's. *)
LEMMA ForgetEffect ==
  ASSUME DataTypes, NEW p \in Procs, NEW S \in SUBSET Threads, Forget(p, S)
  PROVE  /\ warm' \in [Procs -> Pools]
         /\ info' \in [Procs -> [Threads -> Nat]]
         /\ idle' \in [Procs -> SUBSET Threads]
         /\ \A q \in Procs, t \in Threads :
              /\ warm'[q][t] # 0 <=> warm[q][t] # 0 /\ ~(q = p /\ t \in S)
              /\ info'[q][t] = IF q = p /\ t \in S THEN ByName ELSE info[q][t]
<1>1. /\ warm' = [warm EXCEPT ![p] = Unpark(warm[p], S)]
      /\ info' = [info EXCEPT ![p] = [t \in Threads |-> IF t \in S THEN ByName ELSE info[p][t]]]
      /\ idle' = [idle EXCEPT ![p] = idle[p] \ S]
  BY DEF Forget
<1>2. /\ Unpark(warm[p], S) \in Pools
      /\ \A t \in Threads : Unpark(warm[p], S)[t] # 0 <=> warm[p][t] # 0 /\ t \notin S
  BY UnparkedPool DEF DataTypes
<1>3. /\ warm' \in [Procs -> Pools]
      /\ \A q \in Procs, t \in Threads :
           warm'[q][t] # 0 <=> warm[q][t] # 0 /\ ~(q = p /\ t \in S)
  BY <1>1, <1>2 DEF DataTypes
<1>4. /\ info' \in [Procs -> [Threads -> Nat]]
      /\ idle' \in [Procs -> SUBSET Threads]
      /\ \A q \in Procs, t \in Threads :
           info'[q][t] = IF q = p /\ t \in S THEN ByName ELSE info[q][t]
  BY <1>1 DEF DataTypes, ByName
<1>. QED
  BY <1>3, <1>4

(* A handle that the tables lose is that of a sandbox which was forgotten. *)
LEMMA Forgotten ==
  ASSUME LockInv, DataTypes, NEW p \in Procs, NEW S \in SUBSET Threads, Forget(p, S),
         \A q \in Procs, t \in Threads :
           t \in active[q] => t \in active'[q] \/ (q = p /\ t \in S)
  PROVE  \A s \in Known : s \in Known' \/ (s.thread \in S \cap Tracked(p) /\ s = StopOf(p, s.thread))
<1>. SUFFICES ASSUME NEW s \in Known, s \notin Known'
              PROVE  s.thread \in S \cap Tracked(p) /\ s = StopOf(p, s.thread)
  OBVIOUS
<1>1. s \in Stops /\ s.thread \in Threads /\ s = [thread |-> s.thread, by |-> s.by]
  BY DEF Known, Stops
<1>. PICK q \in Procs : s.thread \in Tracked(q) /\ s.by = info[q][s.thread]
  BY DEF Known
<1>2. q = p /\ s.thread \in S
  <2>. SUFFICES ASSUME ~(q = p /\ s.thread \in S) PROVE FALSE
    OBVIOUS
  <2>1. info'[q][s.thread] = info[q][s.thread]
        /\ (warm[q][s.thread] # 0 => warm'[q][s.thread] # 0)
        /\ (s.thread \in active[q] => s.thread \in active'[q])
    BY <1>1, ForgetEffect
  <2>2. (s.thread \in Tracked(q))'
    BY <1>1, <2>1 DEF Tracked, Parked
  <2>3. s \in Known'
    BY <1>1, <2>1, <2>2 DEF Known
  <2>. QED
    BY <2>3
<1>. QED
  BY <1>1, <1>2 DEF StopOf

(* The tables keep what they know while they only gain. *)
LEMMA Gathered ==
  ASSUME \A p \in Procs, t \in Threads :
           t \in Tracked(p) => (t \in Tracked(p))' /\ info'[p][t] = info[p][t]
  PROVE  Known \subseteq Known'
<1>. SUFFICES ASSUME NEW s \in Known PROVE s \in Known'
  OBVIOUS
<1>. PICK p \in Procs : s.thread \in Tracked(p) /\ s.by = info[p][s.thread]
  BY DEF Known
<1>1. s \in Stops /\ s.thread \in Threads
  BY DEF Known, Stops
<1>. QED
  BY <1>1 DEF Known

LEMMA SameKnown == ASSUME UNCHANGED <<active, warm, info>> PROVE Known' = Known
  BY DEF Known, Tracked, Parked

(* An agent goes on that had no container in hand. *)
LEMMA Walking ==
  ASSUME StopInv, NEW a \in Agents, agent[a].at \notin {"wait", "evicting"},
         \A b \in Agents : b # a => agent'[b] = agent[b] /\ making'[b] = making[b],
         UNCHANGED <<running, dying, reaper>>,
         lost \subseteq lost', Known \subseteq Known'
  PROVE  OneAtHand' /\ Covered'
<1>1. OneAtHand'
  BY DEF StopInv, OneAtHand
<1>2. Made \subseteq Made'
  BY DEF Made
<1>3. Held \subseteq Held'
  BY <1>2 DEF Held, Queued, Dying
<1>. QED
  BY <1>1, <1>3, Keeping

(* An agent goes on, or out, and the tables stay. *)
LEMMA Passing ==
  ASSUME LockInv, StopInv, NEW a \in Agents,
         agent[a].at \notin {"wait", "evicting"},
         \A b \in Agents : b # a => agent'[b] = agent[b],
         UNCHANGED <<routes, running, started, making, dying, reaper, up, active, warm, info>>,
         idle' \in [Procs -> SUBSET Threads], late' \in SUBSET Threads,
         UNCHANGED lost, faults' \in Nat
  PROVE  StopInv'
<1>1. DataTypes'
  BY DEF StopInv, DataTypes
<1>2. NothingNoted'
  BY DEF StopInv, NothingNoted
<1>3. OneAtHand' /\ Covered'
  BY SameKnown, Walking
<1>. QED
  BY <1>1, <1>2, <1>3 DEF StopInv

LEMMA TouchTypes ==
  ASSUME DataTypes, NEW p, NEW t, Touch(p, t) \/ UNCHANGED idle
  PROVE  idle' \in [Procs -> SUBSET Threads]
  BY DEF DataTypes, Touch

LEMMA FaultTypes ==
  ASSUME DataTypes, Fault \/ UNCHANGED faults
  PROVE  faults' \in Nat
  BY DEF DataTypes, Fault

LEMMA OthersStay ==
  ASSUME LockInv, NEW a \in Agents,
         GoOut(a) \/ \E x : Go(a, x) \/ \E y : agent' = [agent EXCEPT ![a] = y]
  PROVE  \A b \in Agents : b # a => agent'[b] = agent[b]
  BY DEF LockInv, LockTypes, Go, GoOut

LEMMA EnsureCovers ==
  ASSUME LockInv, StopInv, UNCHANGED routes, NEW a \in Agents, Ensure(a)
  PROVE  StopInv'
<1>1. /\ agent[a].at \notin {"wait", "evicting"}
      /\ UNCHANGED <<running, started, making, dying, reaper, up, active, warm, info, late, lost, faults>>
      /\ \E y : agent' = [agent EXCEPT ![a] = y]
      /\ UNCHANGED idle \/ \E p, t : Touch(p, t)
  BY DEF Ensure, runtimeVars
<1>2. idle' \in [Procs -> SUBSET Threads] /\ late' \in SUBSET Threads /\ faults' \in Nat
  BY <1>1, TouchTypes DEF StopInv, DataTypes
<1>. QED
  BY <1>1, <1>2, OthersStay, Passing

LEMMA QuietCovers ==
  ASSUME LockInv, StopInv, UNCHANGED routes, NEW a \in Agents,
         Discover(a) \/ Count(a) \/ Leave(a) \/ Abort(a)
  PROVE  StopInv'
<1>1. /\ agent[a].at \notin {"wait", "evicting"}
      /\ UNCHANGED <<running, started, making, dying, reaper, up, active, warm, info, idle, late, lost>>
      /\ GoOut(a) \/ \E x : Go(a, x)
      /\ Fault \/ UNCHANGED faults
  BY DEF Discover, Count, Leave, Abort, At, runtimeVars, provider
<1>2. idle' \in [Procs -> SUBSET Threads] /\ late' \in SUBSET Threads /\ faults' \in Nat
  BY <1>1, FaultTypes DEF StopInv, DataTypes
<1>. QED
  BY <1>1, <1>2, OthersStay, Passing

LEMMA FetchCovers ==
  ASSUME LockInv, StopInv, UNCHANGED routes, NEW a \in Agents, Fetch(a)
  PROVE  StopInv'
<1>1. /\ agent[a].at \notin {"wait", "evicting"}
      /\ UNCHANGED <<running, started, making, dying, reaper, up, active, warm, info, late, lost, faults>>
      /\ GoOut(a) \/ \E x : Go(a, x)
      /\ UNCHANGED idle \/ \E p, t : Touch(p, t)
  BY DEF Fetch, At, runtimeVars
<1>2. idle' \in [Procs -> SUBSET Threads] /\ late' \in SUBSET Threads /\ faults' \in Nat
  BY <1>1, TouchTypes DEF StopInv, DataTypes
<1>. QED
  BY <1>1, <1>2, OthersStay, Passing

(* The first looks at the tables of the process. *)
LEMMA LookCovers ==
  ASSUME LockInv, StopInv, UNCHANGED routes, NEW a \in Agents,
         LockThread(a) \/ LockFile(a)
  PROVE  StopInv'
<1>1. /\ agent[a].at \in {"lock", "file"}
      /\ UNCHANGED <<running, started, making, dying, reaper, up, late, lost, faults>>
      /\ ReuseOrReclaim(a, "file") \/ ReuseOrReclaim(a, "discover")
  BY DEF LockThread, LockFile, At, runtimeVars
<1>2. PICK p \in Procs, t \in Threads : p = agent[a].proc /\ t = agent[a].thread
  BY <1>1, AtJob DEF LockInv
<1>3. (GoOut(a) \/ \E x : Go(a, x)) /\ (UNCHANGED idle \/ Touch(p, t))
  BY <1>1, <1>2 DEF ReuseOrReclaim, Register, provider
<1>4. \A b \in Agents : b # a => agent'[b] = agent[b]
  BY <1>3, OthersStay
<1>5. idle' \in [Procs -> SUBSET Threads] /\ late' \in SUBSET Threads /\ faults' \in Nat
  BY <1>1, <1>3, TouchTypes DEF StopInv, DataTypes
<1>6. CASE UNCHANGED <<active, warm, info>>
  BY <1>1, <1>4, <1>5, <1>6, Passing
<1>7. CASE /\ active' = [active EXCEPT ![p] = @ \cup {t}]
           /\ info' = [info EXCEPT ![p][t] = info[p][t]]
           /\ warm' = [warm EXCEPT ![p] = Unpark(@, {t})]
  <2>1. info' = info
    BY <1>7 DEF StopInv, DataTypes
  <2>2. /\ Unpark(warm[p], {t}) \in Pools
        /\ \A s \in Threads : Unpark(warm[p], {t})[s] # 0 <=> warm[p][s] # 0 /\ s \notin {t}
    BY UnparkedPool DEF StopInv, DataTypes
  <2>3. warm' \in [Procs -> Pools]
    BY <1>7, <2>2 DEF StopInv, DataTypes
  <2>4. DataTypes'
    BY <1>1, <1>5, <2>1, <2>3 DEF StopInv, DataTypes
  <2>5. \A q \in Procs, s \in Threads : s \in Tracked(q) => (s \in Tracked(q))'
    BY <1>7, <2>2 DEF StopInv, DataTypes, LockInv, LockTypes, Tracked, Parked
  <2>6. Known \subseteq Known'
    BY <2>1, <2>5, Gathered
  <2>7. NothingNoted'
    BY <1>1, <2>1 DEF StopInv, NothingNoted
  <2>. QED
    BY <1>1, <1>4, <2>4, <2>6, <2>7, Walking DEF StopInv
<1>. QED
  BY <1>1, <1>2, <1>6, <1>7 DEF ReuseOrReclaim, Register, provider

LEMMA ReleaseCovers ==
  ASSUME LockInv, StopInv, UNCHANGED routes, NEW a \in Agents, Release(a)
  PROVE  StopInv'
<1>1. /\ agent[a].at = "use" /\ GoOut(a)
      /\ UNCHANGED <<running, started, making, dying, reaper, up, info, late, lost, faults>>
  BY DEF Release, At, runtimeVars
<1>2. PICK p \in Procs, t \in Threads : p = agent[a].proc /\ t = agent[a].thread
  BY <1>1, AtJob DEF LockInv
<1>3. /\ active' = [active EXCEPT ![p] = @ \ {t}]
      /\ \/ t \notin active[p] /\ UNCHANGED <<warm, idle>>
         \/ t \in active[p] /\ warm[p][t] = 0 /\ warm' = [warm EXCEPT ![p] = Park(@, t)] /\ Touch(p, t)
         \/ t \in active[p] /\ warm[p][t] # 0 /\ warm' = warm /\ Touch(p, t)
  BY <1>2 DEF Release
<1>4. idle' \in [Procs -> SUBSET Threads]
  BY <1>3, TouchTypes DEF StopInv
<1>5. /\ warm' \in [Procs -> Pools]
      /\ \A q \in Procs, s \in Threads : s \in Tracked(q) => (s \in Tracked(q))'
  <2>1. CASE warm' = warm /\ (t \notin active[p] \/ warm[p][t] # 0)
    BY <1>3, <2>1 DEF StopInv, DataTypes, LockInv, LockTypes, Tracked, Parked
  <2>2. CASE warm[p][t] = 0 /\ warm' = [warm EXCEPT ![p] = Park(@, t)]
    <3>1. /\ Park(warm[p], t) \in Pools
          /\ \A s \in Threads : Park(warm[p], t)[s] # 0 <=> warm[p][s] # 0 \/ s = t
      BY <2>2, ParkedPool DEF StopInv, DataTypes
    <3>. QED
      BY <1>3, <2>2, <3>1 DEF StopInv, DataTypes, LockInv, LockTypes, Tracked, Parked
  <2>. QED
    BY <1>3, <2>1, <2>2
<1>6. Known \subseteq Known'
  BY <1>1, <1>5, Gathered
<1>7. DataTypes' /\ NothingNoted'
  BY <1>1, <1>4, <1>5 DEF StopInv, DataTypes, NothingNoted
<1>. QED
  BY <1>1, <1>6, <1>7, OthersStay, Walking DEF StopInv

(* A maker registers what it found or made, and its handle with it. *)
LEMMA RegisteringCovers ==
  ASSUME LockInv, StopInv, NEW a \in Agents, agent[a].at \in {"found", "wait"},
         NEW by \in Nat, agent[a].at = "wait" => by = making[a],
         Register(agent[a].proc, agent[a].thread, by), Regain(agent[a].thread, by),
         UNCHANGED <<routes, running, started, late, up, warm, dying, reaper, faults>>,
         making' = [making EXCEPT ![a] = 0] \/ (making' = making /\ agent[a].at = "found"),
         Go(a, "leave")
  PROVE  StopInv'
<1>1. PICK p \in Procs, t \in Threads : p = agent[a].proc /\ t = agent[a].thread
  BY AtJob DEF LockInv
<1>. DEFINE s0 == [thread |-> t, by |-> by]
<1>2. /\ active' = [active EXCEPT ![p] = @ \cup {t}]
      /\ info' = [info EXCEPT ![p][t] = by]
      /\ idle' \in [Procs -> SUBSET Threads]
  BY <1>1, TouchTypes DEF Register, StopInv
<1>a. \A b \in Agents : b # a => agent'[b] = agent[b]
  BY OthersStay
<1>b. making' \in [Agents -> Nat] /\ \A b \in Agents : b # a => making'[b] = making[b]
  BY DEF StopInv, DataTypes
<1>3. /\ \A b \in Agents : b # a => agent'[b] = agent[b] /\ making'[b] = making[b]
      /\ making' \in [Agents -> Nat]
  BY <1>a, <1>b
<1>4. /\ lost' \subseteq lost /\ \A u \in lost : u \in lost' \/ (u = t /\ s0 \in Reaching)
  BY <1>1 DEF Regain, Reaches, Reaching, Stops
<1>5. DataTypes'
  BY <1>2, <1>3, <1>4 DEF StopInv, DataTypes
<1>6. t \notin Tracked(p)
  BY <1>1 DEF LockInv, MakerSeesNothing, Making
<1>7. /\ info'[p][t] = by
      /\ \A q \in Procs, u \in Threads :
           u \in Tracked(q) => (u \in Tracked(q))' /\ info'[q][u] = info[q][u]
  BY <1>2, <1>6 DEF StopInv, DataTypes, LockInv, LockTypes, Tracked, Parked
<1>8. Known \subseteq Known'
  BY <1>7, Gathered
<1>9. s0 \in Known'
  <2>1. (t \in Tracked(p))'
    BY <1>2 DEF LockInv, LockTypes, Tracked
  <2>. QED
    BY <1>7, <2>1 DEF Known, Stops
<1>10. \A s \in Made : s = s0 \/ s \in Made'
  BY <1>1, <1>3 DEF Made, Stops
<1>11. Held \subseteq Held'
  BY <1>8, <1>9, <1>10 DEF Held, Queued, Dying
<1>12. Covered'
  <2>1. Reaching' = Reaching
    BY DEF Reaching
  <2>. SUFFICES ASSUME NEW u \in Threads, running[u] # 0, u \notin lost'
               PROVE  \E s \in Held' \cap Reaching : s.thread = u
    BY <2>1 DEF Covered
  <2>2. CASE u = t /\ s0 \in Reaching
    BY <1>9, <2>2 DEF Held
  <2>3. CASE ~(u = t /\ s0 \in Reaching)
    BY <1>4, <1>11, <2>3 DEF StopInv, Covered
  <2>. QED
    BY <2>2, <2>3
<1>13. OneAtHand'
  BY <1>3 DEF StopInv, OneAtHand
<1>14. NothingNoted'
  <2>1. up[p]
    BY <1>1 DEF LockInv, OnlyInLiveProcs
  <2>. QED
    BY <1>2, <2>1 DEF StopInv, DataTypes, NothingNoted
<1>. QED
  BY <1>5, <1>12, <1>13, <1>14 DEF StopInv

LEMMA RegisterFoundCovers ==
  ASSUME LockInv, StopInv, UNCHANGED routes, NEW a \in Agents, RegisterFound(a)
  PROVE  StopInv'
  BY RegisteringCovers DEF RegisterFound, At, ByName

LEMMA RegisterCreatedCovers ==
  ASSUME LockInv, StopInv, UNCHANGED routes, NEW a \in Agents, RegisterCreated(a)
  PROVE  StopInv'
<1>1. making[a] \in Nat
  BY DEF StopInv, DataTypes
<1>. QED
  BY <1>1, RegisteringCovers DEF RegisterCreated, At

(* What is evicted goes from the pool into the hand of the agent. *)
LEMMA EvictCovers ==
  ASSUME LockInv, StopInv, UNCHANGED routes, NEW a \in Agents, Evict(a)
  PROVE  StopInv'
<1>1. /\ agent[a].at = "evict"
      /\ UNCHANGED <<running, started, late, lost, up, active, making, reaper, faults>>
  BY DEF Evict, At, runtimeVars
<1>2. PICK p \in Procs : p = agent[a].proc
  BY <1>1, AtJob DEF LockInv
<1>3. CASE Go(a, "create") /\ UNCHANGED <<warm, info, idle, dying>>
  <2>1. idle' \in [Procs -> SUBSET Threads] /\ late' \in SUBSET Threads /\ faults' \in Nat
    BY <1>1, <1>3 DEF StopInv, DataTypes
  <2>. QED
    BY <1>1, <1>3, <2>1, OthersStay, Passing
<1>4. CASE \E t \in Parked(p) :
             /\ dying' = [dying EXCEPT ![a] = {StopOf(p, t)}]
             /\ Forget(p, {t})
             /\ Go(a, "evicting")
  <2>. PICK t \in Threads :
         /\ t \in Parked(p)
         /\ dying' = [dying EXCEPT ![a] = {StopOf(p, t)}]
         /\ Forget(p, {t}) /\ Go(a, "evicting")
    BY <1>4 DEF Parked
  <2>1. StopOf(p, t) \in Stops
    BY DEF StopOf, Stops, StopInv, DataTypes
  <2>2. /\ dying' \in [Agents -> SUBSET Stops] /\ dying'[a] = {StopOf(p, t)}
        /\ \A b \in Agents : b # a => dying'[b] = dying[b]
    BY <2>1 DEF StopInv, DataTypes
  <2>3. /\ warm' \in [Procs -> Pools] /\ info' \in [Procs -> [Threads -> Nat]]
        /\ idle' \in [Procs -> SUBSET Threads]
        /\ \A q \in Procs, u \in Threads : info'[q][u] = ByName \/ info'[q][u] = info[q][u]
    BY ForgetEffect DEF StopInv
  <2>4. /\ \A b \in Agents : b # a => agent'[b] = agent[b]
        /\ agent'[a].at = "evicting"
    BY <1>1, OthersStay, AtJob, Going DEF LockInv, Acquiring
  <2>5. DataTypes'
    BY <1>1, <2>2, <2>3 DEF StopInv, DataTypes
  <2>6. OneAtHand'
    BY <1>1, <2>2, <2>4 DEF StopInv, OneAtHand
  <2>7. NothingNoted'
    BY <1>1, <2>3 DEF StopInv, NothingNoted
  <2>8. dying[a] = {}
    BY <1>1 DEF StopInv, OneAtHand
  <2>9. Made \subseteq Made' /\ Queued' = Queued /\ Dying \subseteq Dying' /\ StopOf(p, t) \in Dying'
    BY <1>1, <2>2, <2>4, <2>8 DEF Made, Queued, Dying
  <2>10. \A s \in Known : s \in Known' \/ s = StopOf(p, t)
    BY <1>1, Forgotten DEF StopInv
  <2>11. Held \subseteq Held'
    BY <2>9, <2>10 DEF Held
  <2>12. Covered'
    BY <1>1, <2>11, Keeping
  <2>. QED
    BY <2>5, <2>6, <2>7, <2>12 DEF StopInv
<1>. QED
  BY <1>2, <1>3, <1>4 DEF Evict

LEMMA StopEffect ==
  ASSUME DataTypes, NEW s \in Stops, Stop(s)
  PROVE  /\ running' \in [Threads -> Nat] /\ lost' \in SUBSET Threads /\ faults' \in Nat
         /\ lost \subseteq lost'
         /\ running' = AfterStop(s) \/ (running' = running /\ s.thread \in lost')
  BY DEF DataTypes, Stop, Stops, AfterStop, Fault

LEMMA StopEvictedCovers ==
  ASSUME LockInv, StopInv, UNCHANGED routes, NEW a \in Agents, StopEvicted(a)
  PROVE  StopInv'
<1>1. /\ agent[a].at = "evicting" /\ Go(a, "create")
      /\ dying' = [dying EXCEPT ![a] = {}]
      /\ UNCHANGED <<started, late, up, active, warm, info, idle, making, reaper>>
  BY DEF StopEvicted, At, provider
<1>2. PICK s \in dying[a] : Stop(s)
  BY DEF StopEvicted
<1>3. s \in Stops /\ \A r \in dying[a] : r = s
  BY DEF StopInv, DataTypes, OneAtHand
<1>4. /\ running' \in [Threads -> Nat] /\ lost' \in SUBSET Threads /\ faults' \in Nat
      /\ lost \subseteq lost'
      /\ running' = AfterStop(s) \/ (running' = running /\ s.thread \in lost')
  BY <1>2, <1>3, StopEffect DEF StopInv
<1>5. \A b \in Agents : b # a => agent'[b] = agent[b]
  BY <1>1, OthersStay
<1>6. DataTypes'
  BY <1>1, <1>4 DEF StopInv, DataTypes
<1>7. OneAtHand' /\ NothingNoted'
  BY <1>1, <1>5 DEF StopInv, DataTypes, OneAtHand, NothingNoted
<1>8. Made \subseteq Made' /\ Queued' = Queued /\ \A r \in Dying : r = s \/ r \in Dying'
  BY <1>1, <1>3, <1>5 DEF Made, Queued, Dying, StopInv, DataTypes
<1>9. \A r \in Held : r = s \/ r \in Held'
  BY <1>1, <1>8, SameKnown DEF Held
<1>10. Covered'
  BY <1>3, <1>4, <1>9, Stopping
<1>. QED
  BY <1>6, <1>7, <1>10 DEF StopInv

(* A container starts: somebody has its handle, or it is lost at once. *)
LEMMA Starting ==
  ASSUME StopInv, NEW t \in Threads, StartContainer(t), lost \subseteq lost',
         Held \subseteq Held',
         t \in lost' \/ [thread |-> t, by |-> started'] \in Held'
  PROVE  /\ running' \in [Threads -> Nat] /\ started' \in Nat
         /\ Covered'
<1>1. /\ running' \in [Threads -> Nat] /\ started' \in Nat /\ running'[t] = started'
      /\ \A u \in Threads : u # t => running'[u] = running[u]
  BY DEF StartContainer, StopInv, DataTypes
<1>. SUFFICES ASSUME NEW u \in Threads, running'[u] # 0, u \notin lost'
              PROVE  \E s \in Held' \cap Reaching' : s.thread = u
  BY <1>1 DEF Covered
<1>2. CASE u = t
  <2>. DEFINE s == [thread |-> t, by |-> started']
  <2>1. s \in Held'
    BY <1>2
  <2>2. s \in Reaching'
    BY <1>1 DEF Reaching, Stops
  <2>. QED
    BY <1>2, <2>1, <2>2
<1>3. CASE u # t
  <2>1. PICK s \in Held \cap Reaching : s.thread = u
    BY <1>1, <1>3 DEF StopInv, Covered
  <2>2. s \in Held' /\ s \in Reaching'
    BY <1>1, <1>3, <2>1 DEF Reaching
  <2>. QED
    BY <2>1, <2>2
<1>. QED
  BY <1>2, <1>3

LEMMA CreateCovers ==
  ASSUME LockInv, StopInv, UNCHANGED routes, NEW a \in Agents, Create(a)
  PROVE  StopInv'
<1>1. /\ agent[a].at = "create"
      /\ UNCHANGED <<late, lost, up, active, warm, info, idle, dying, reaper>>
      /\ Go(a, "wait") \/ Go(a, "fail")
  BY DEF Create, At, provider
<1>2. PICK t \in Threads : t = agent[a].thread
  BY <1>1, AtJob DEF LockInv
<1>3. \A b \in Agents : b # a => agent'[b] = agent[b]
  BY <1>1, OthersStay
<1>4. NothingNoted' /\ OneAtHand'
  BY <1>1, <1>3 DEF StopInv, NothingNoted, OneAtHand
<1>5. Known \subseteq Known'
  BY <1>1, SameKnown
<1>6. CASE StartContainer(t) /\ making' = [making EXCEPT ![a] = started'] /\ Go(a, "wait")
           /\ UNCHANGED faults
  <2>1. started' \in Nat
    BY <1>6 DEF StartContainer, StopInv, DataTypes
  <2>2. making' \in [Agents -> Nat] /\ making'[a] = started'
        /\ \A b \in Agents : b # a => making'[b] = making[b]
    BY <1>6, <2>1 DEF StopInv, DataTypes
  <2>3. agent'[a].at = "wait" /\ agent'[a].thread = t
    BY <1>1, <1>2, <1>6, AtJob, Going DEF LockInv, Acquiring
  <2>4. Made \subseteq Made' /\ Queued' = Queued /\ Dying' = Dying
    BY <1>1, <1>3, <2>2 DEF Made, Queued, Dying
  <2>5. [thread |-> t, by |-> started'] \in Made'
    BY <2>1, <2>2, <2>3 DEF Made, Stops
  <2>6. Held \subseteq Held' /\ [thread |-> t, by |-> started'] \in Held'
    BY <1>5, <2>4, <2>5 DEF Held
  <2>7. running' \in [Threads -> Nat] /\ Covered'
    BY <1>1, <1>6, <2>6, Starting
  <2>8. DataTypes'
    BY <1>1, <1>6, <2>1, <2>2, <2>7 DEF StopInv, DataTypes
  <2>. QED
    BY <1>4, <2>7, <2>8 DEF StopInv
<1>7. CASE /\ making' = [making EXCEPT ![a] = ByName] \/ making' = making
           /\ UNCHANGED <<running, started>> /\ (Fault \/ UNCHANGED faults)
  <2>1. making' \in [Agents -> Nat] /\ \A b \in Agents : b # a => making'[b] = making[b]
    BY <1>7 DEF StopInv, DataTypes, ByName
  <2>2. faults' \in Nat
    BY <1>7, FaultTypes DEF StopInv
  <2>3. DataTypes'
    BY <1>1, <1>7, <2>1, <2>2 DEF StopInv, DataTypes
  <2>4. Covered'
    BY <1>1, <1>3, <1>5, <1>7, <2>1, Walking
  <2>. QED
    BY <1>4, <2>3, <2>4 DEF StopInv
<1>. QED
  BY <1>2, <1>6, <1>7 DEF Create

LEMMA NotReadyCovers ==
  ASSUME LockInv, StopInv, UNCHANGED routes, NEW a \in Agents, NotReady(a)
  PROVE  StopInv'
<1>1. /\ agent[a].at = "wait" /\ Go(a, "fail") /\ Fault
      /\ running' = AfterStop([thread |-> agent[a].thread, by |-> making[a]])
      /\ making' = [making EXCEPT ![a] = 0]
      /\ UNCHANGED <<started, late, lost, up, active, warm, info, idle, dying, reaper>>
  BY DEF NotReady, At, provider
<1>2. PICK t \in Threads : t = agent[a].thread
  BY <1>1, AtJob DEF LockInv
<1>. DEFINE r == [thread |-> t, by |-> making[a]]
<1>3. r \in Stops
  BY DEF Stops, StopInv, DataTypes
<1>4. \A b \in Agents : b # a => agent'[b] = agent[b] /\ making'[b] = making[b]
  BY <1>1, OthersStay DEF StopInv, DataTypes
<1>a. running' \in [Threads -> Nat]
  BY <1>1, <1>2 DEF StopInv, DataTypes, AfterStop
<1>b. making' \in [Agents -> Nat]
  BY <1>1 DEF StopInv, DataTypes
<1>c. faults' \in Nat
  BY <1>1, FaultTypes DEF StopInv
<1>5. running' \in [Threads -> Nat] /\ making' \in [Agents -> Nat] /\ faults' \in Nat
  BY <1>a, <1>b, <1>c
<1>d. DataTypes'
  BY <1>1, <1>5 DEF StopInv, DataTypes
<1>e. OneAtHand'
  BY <1>1, <1>4 DEF StopInv, OneAtHand
<1>6. DataTypes' /\ NothingNoted' /\ OneAtHand'
  BY <1>1, <1>d, <1>e DEF StopInv, NothingNoted
<1>7. Queued' = Queued /\ Dying' = Dying /\ \A s \in Made : s = r \/ s \in Made'
  BY <1>1, <1>2, <1>4 DEF Made, Queued, Dying, Stops
<1>8. \A s \in Held : s = r \/ s \in Held'
  BY <1>1, <1>7, SameKnown DEF Held
<1>9. Covered'
  BY <1>1, <1>2, <1>3, <1>8, Stopping
<1>. QED
  BY <1>6, <1>9 DEF StopInv

(* What a cancelled agent has made is lost, nothing else. *)
LEMMA CancelCovers ==
  ASSUME LockInv, StopInv, UNCHANGED routes, NEW a \in Agents, Cancel(a)
  PROVE  StopInv'
<1>1. /\ agent[a].at \in {"lock", "file", "create", "wait"} /\ GoOut(a) /\ Fault
      /\ making' = [making EXCEPT ![a] = 0]
      /\ UNCHANGED <<running, started, up, active, warm, info, idle, dying, reaper>>
  BY DEF Cancel, provider
<1>2. PICK t \in Threads : t = agent[a].thread
  BY <1>1, AtJob DEF LockInv
<1>3. /\ late' = IF agent[a].at = "create" THEN late \cup {t} ELSE late
      /\ lost' = IF agent[a].at = "wait" THEN lost \cup {t} ELSE lost
  BY <1>2 DEF Cancel
<1>4. /\ late' \in SUBSET Threads /\ lost' \in SUBSET Threads /\ lost \subseteq lost'
      /\ making' \in [Agents -> Nat] /\ faults' \in Nat
      /\ \A b \in Agents : b # a => agent'[b] = agent[b] /\ making'[b] = making[b]
  <2>1. late' \in SUBSET Threads /\ lost' \in SUBSET Threads /\ lost \subseteq lost'
    BY <1>3 DEF StopInv, DataTypes
  <2>2. making' \in [Agents -> Nat] /\ \A b \in Agents : b # a => making'[b] = making[b]
    BY <1>1 DEF StopInv, DataTypes
  <2>3. faults' \in Nat
    BY <1>1, FaultTypes DEF StopInv
  <2>4. \A b \in Agents : b # a => agent'[b] = agent[b]
    BY <1>1, OthersStay
  <2>. QED
    BY <2>1, <2>2, <2>3, <2>4
<1>d. DataTypes'
  BY <1>1, <1>4 DEF StopInv, DataTypes
<1>e. OneAtHand'
  BY <1>1, <1>4 DEF StopInv, OneAtHand
<1>5. DataTypes' /\ NothingNoted' /\ OneAtHand'
  BY <1>1, <1>d, <1>e DEF StopInv, NothingNoted
<1>6. Queued' = Queued /\ Dying' = Dying
      /\ \A s \in Made : s.thread \in lost' \/ s \in Made'
  BY <1>1, <1>2, <1>3, <1>4 DEF Made, Queued, Dying
<1>7. \A s \in Held : s.thread \in lost' \/ s \in Held'
  BY <1>1, <1>6, SameKnown DEF Held
<1>8. Covered'
  BY <1>1, <1>4, <1>7, Keeping
<1>. QED
  BY <1>5, <1>8 DEF StopInv

LEMMA LateStartCovers ==
  ASSUME LockInv, StopInv, UNCHANGED routes, NEW t \in Threads, LateStart(t)
  PROVE  StopInv'
<1>1. /\ late' = late \ {t}
      /\ UNCHANGED <<up, active, warm, info, idle, agent, making, dying, reaper, faults>>
  BY DEF LateStart, provider, agentVars
<1>2. NothingNoted' /\ OneAtHand'
  BY <1>1 DEF StopInv, NothingNoted, OneAtHand
<1>3. Held' = Held
  BY <1>1, SameKnown DEF Held, Made, Queued, Dying
<1>4. CASE StartContainer(t) /\ lost' = lost \cup {t}
  <2>1. running' \in [Threads -> Nat] /\ started' \in Nat /\ Covered'
    BY <1>3, <1>4, Starting
  <2>2. DataTypes'
    BY <1>1, <1>4, <2>1 DEF StopInv, DataTypes
  <2>. QED
    BY <1>2, <2>1, <2>2 DEF StopInv
<1>5. CASE UNCHANGED <<running, started, lost>>
  <2>1. DataTypes'
    BY <1>1, <1>5 DEF StopInv, DataTypes
  <2>2. Covered'
    BY <1>3, <1>5, Keeping
  <2>. QED
    BY <1>2, <2>1, <2>2 DEF StopInv
<1>. QED
  BY <1>4, <1>5 DEF LateStart

----------------------------------------------------------------------------
(* The steps of a process, and the handles. *)

(* The reaper of one process has a new record, and the others have theirs. *)
LEMMA Reaping ==
  ASSUME DataTypes, NEW p \in Procs, NEW r \in Reapers, reaper' = [reaper EXCEPT ![p] = r]
  PROVE  /\ reaper' \in [Procs -> Reapers] /\ reaper'[p] = r
         /\ \A q \in Procs : q # p => reaper'[q] = reaper[q]
  BY DEF DataTypes

(* Agents and tables stay as a reaper works. *)
LEMMA AtHand ==
  ASSUME StopInv, UNCHANGED <<agent, dying>>, NEW p \in Procs,
         \A q \in Procs : q # p => reaper'[q] = reaper[q],
         reaper'[p].now # {} => reaper'[p].at = "stop",
         \A s, r \in reaper'[p].now : s = r
  PROVE  OneAtHand'
  BY DEF StopInv, OneAtHand

LEMMA GrowIdleCovers ==
  ASSUME LockInv, StopInv, UNCHANGED routes, NEW p \in Procs, NEW t \in Threads,
         GrowIdle(p, t)
  PROVE  StopInv'
<1>1. /\ idle' = [idle EXCEPT ![p] = @ \cup {t}]
      /\ UNCHANGED <<running, started, late, lost, up, active, warm, info, agent, making,
                     dying, reaper, faults>>
  BY DEF GrowIdle, runtimeVars, agentVars
<1>2. DataTypes' /\ OneAtHand' /\ NothingNoted'
  BY <1>1 DEF StopInv, DataTypes, OneAtHand, NothingNoted
<1>3. Held' = Held
  BY <1>1, SameKnown DEF Held, Made, Queued, Dying
<1>. QED
  BY <1>1, <1>2, <1>3, Keeping DEF StopInv

(* Sandboxes leave the tables of a process, and what it stops takes them. *)
LEMMA TakingCovers ==
  ASSUME LockInv, StopInv, NEW p \in Procs, up[p], NEW S \in SUBSET Threads, Forget(p, S),
         NEW r \in Reapers, reaper' = [reaper EXCEPT ![p] = r],
         reaper[p].stops \cup reaper[p].now \subseteq r.stops \cup r.now,
         \A t \in S \cap Tracked(p) : StopOf(p, t) \in r.stops \cup r.now,
         r.now # {} => r.at = "stop",
         \A s, x \in r.now : s = x,
         \A q \in Procs, t \in Threads :
           t \in active[q] => t \in active'[q] \/ (q = p /\ t \in S),
         UNCHANGED <<routes, running, started, late, lost, up, agent, making, dying>>,
         faults' \in Nat
  PROVE  StopInv'
<1>1. /\ reaper' \in [Procs -> Reapers] /\ reaper'[p] = r
      /\ \A q \in Procs : q # p => reaper'[q] = reaper[q]
  BY Reaping DEF StopInv
<1>2. /\ warm' \in [Procs -> Pools] /\ info' \in [Procs -> [Threads -> Nat]]
      /\ idle' \in [Procs -> SUBSET Threads]
      /\ \A q \in Procs, u \in Threads : info'[q][u] = ByName \/ info'[q][u] = info[q][u]
  BY ForgetEffect DEF StopInv
<1>3. DataTypes'
  BY <1>1, <1>2 DEF StopInv, DataTypes
<1>4. OneAtHand'
  BY <1>1, AtHand
<1>5. NothingNoted'
  BY <1>2 DEF StopInv, NothingNoted
<1>6. Queued \subseteq Queued'
  BY <1>1 DEF Queued
<1>7. r.stops \cup r.now \subseteq Queued'
  BY <1>1 DEF Queued
<1>8. \A s \in Known : s \in Known' \/ s \in r.stops \cup r.now
  BY Forgotten DEF StopInv
<1>9. Held \subseteq Held'
  BY <1>6, <1>7, <1>8 DEF Held, Made, Dying
<1>10. Covered'
  BY <1>9, Keeping
<1>. QED
  BY <1>3, <1>4, <1>5, <1>10 DEF StopInv

LEMMA ScanCovers ==
  ASSUME LockInv, StopInv, UNCHANGED routes, NEW p \in Procs, Scan(p)
  PROVE  StopInv'
<1>. DEFINE gone == idle[p] \cap Parked(p)
            r == [Resting EXCEPT !.doomed = idle[p] \cap active[p],
                                 !.stops = {StopOf(p, t) : t \in gone}]
<1>1. /\ up[p] /\ reaper[p] = Resting /\ reaper' = [reaper EXCEPT ![p] = r]
      /\ Forget(p, gone)
      /\ UNCHANGED <<running, started, late, lost, up, active, agent, making, dying, faults>>
  BY DEF Scan, runtimeVars, agentVars
<1>2. gone \in SUBSET Threads /\ \A t \in gone : StopOf(p, t) \in Stops
  BY DEF Parked, StopOf, Stops, StopInv, DataTypes
<1>a. {StopOf(p, t) : t \in gone} \subseteq Stops /\ idle[p] \cap active[p] \subseteq Threads
  BY <1>2 DEF LockInv, LockTypes
<1>3. r \in Reapers /\ r.now = {} /\ r.stops = {StopOf(p, t) : t \in gone}
  BY <1>a DEF Resting, Reapers
<1>4. reaper[p].stops \cup reaper[p].now \subseteq r.stops \cup r.now
  BY <1>1 DEF Resting
<1>5. \A t \in gone \cap Tracked(p) : StopOf(p, t) \in r.stops \cup r.now
  BY <1>3
<1>6. faults' \in Nat
  BY <1>1 DEF StopInv, DataTypes
<1>. HIDE DEF gone, r
<1>. QED
  BY <1>1, <1>2, <1>3, <1>4, <1>5, <1>6, TakingCovers

LEMMA ShutdownCovers ==
  ASSUME LockInv, StopInv, UNCHANGED routes, NEW p \in Procs, Shutdown(p)
  PROVE  StopInv'
<1>. DEFINE noted == {StopOf(p, t) : t \in Parked(p)}
            r == [reaper[p] EXCEPT !.closing = TRUE, !.doomed = @ \cup active[p],
                                   !.stops = @ \cup noted]
<1>1. /\ up[p] /\ reaper' = [reaper EXCEPT ![p] = r]
      /\ Forget(p, Parked(p)) /\ Fault
      /\ UNCHANGED <<running, started, late, lost, up, active, agent, making, dying>>
  BY DEF Shutdown, runtimeVars, agentVars, StopInv, DataTypes
<1>2. Parked(p) \in SUBSET Threads /\ \A t \in Parked(p) : StopOf(p, t) \in Stops
  BY DEF Parked, StopOf, Stops, StopInv, DataTypes
<1>3. reaper[p] \in Reapers
  BY DEF StopInv, DataTypes
<1>a. noted \subseteq Stops /\ active[p] \subseteq Threads
  BY <1>2 DEF LockInv, LockTypes
<1>b. \A t \in Parked(p) : StopOf(p, t) \in noted
  OBVIOUS
<1>. HIDE DEF noted
<1>4. /\ r \in Reapers /\ r.now = reaper[p].now /\ r.at = reaper[p].at
      /\ r.stops = reaper[p].stops \cup noted
  BY <1>3, <1>a DEF Reapers
<1>5. \A t \in Parked(p) \cap Tracked(p) : StopOf(p, t) \in r.stops \cup r.now
  BY <1>4, <1>b
<1>6. faults' \in Nat
  BY <1>1, FaultTypes DEF StopInv
<1>7. (r.now # {} => r.at = "stop") /\ \A s, x \in r.now : s = x
  BY <1>4 DEF StopInv, OneAtHand
<1>. HIDE DEF r
<1>. QED
  BY <1>1, <1>2, <1>4, <1>5, <1>6, <1>7, TakingCovers

LEMMA DestroyCovers ==
  ASSUME LockInv, StopInv, UNCHANGED routes, NEW p \in Procs, Destroy(p)
  PROVE  StopInv'
<1>1. /\ up[p] /\ reaper[p].at = "destroy" /\ reaper[p] \in Reapers
      /\ UNCHANGED <<running, started, late, lost, up, agent, making, dying, faults>>
  BY DEF Destroy, runtimeVars, agentVars, StopInv, DataTypes
<1>a. PICK t \in reaper[p].one :
       /\ active' = [active EXCEPT ![p] = @ \ {t}]
       /\ Forget(p, {t})
       /\ reaper' = [reaper EXCEPT ![p].one = {},
            ![p].now = IF t \in Tracked(p) THEN {StopOf(p, t)} ELSE {},
            ![p].at = IF t \in Tracked(p) THEN "stop" ELSE "sweep"]
  BY DEF Destroy
<1>2. t \in Threads /\ StopOf(p, t) \in Stops
  BY <1>1 DEF Reapers, StopOf, Stops, StopInv, DataTypes
<1>. DEFINE S == {t}
            r == [reaper[p] EXCEPT !.one = {},
            !.now = IF t \in Tracked(p) THEN {StopOf(p, t)} ELSE {},
            !.at = IF t \in Tracked(p) THEN "stop" ELSE "sweep"]
<1>3. reaper' = [reaper EXCEPT ![p] = r]
  BY <1>a DEF StopInv, DataTypes
<1>4. /\ r \in Reapers /\ r.stops = reaper[p].stops
      /\ r.now = IF t \in Tracked(p) THEN {StopOf(p, t)} ELSE {}
      /\ r.at = IF t \in Tracked(p) THEN "stop" ELSE "sweep"
  BY <1>1, <1>2 DEF Reapers
<1>5. reaper[p].now = {}
  BY <1>1 DEF StopInv, OneAtHand
<1>6. \A u \in S \cap Tracked(p) : StopOf(p, u) \in r.stops \cup r.now
  BY <1>4
<1>7. faults' \in Nat
  BY <1>1 DEF StopInv, DataTypes
<1>8. \A q \in Procs, u \in Threads :
        u \in active[q] => u \in active'[q] \/ (q = p /\ u \in S)
  BY <1>a DEF LockInv, LockTypes
<1>9. (r.now # {} => r.at = "stop") /\ \A s, x \in r.now : s = x
  BY <1>4
<1>10. reaper[p].stops \cup reaper[p].now \subseteq r.stops \cup r.now
  BY <1>4, <1>5
<1>11. S \in SUBSET Threads /\ Forget(p, S)
  BY <1>2, <1>a
<1>. HIDE DEF r, S
<1>. QED
  BY <1>1, <1>2, <1>3, <1>4, <1>6, <1>7, <1>8, <1>9, <1>10, <1>11, TakingCovers

(* A check, or a stop, of the reaper. *)
LEMMA VerifyCovers ==
  ASSUME LockInv, StopInv, UNCHANGED routes, NEW p \in Procs, Verify(p)
  PROVE  StopInv'
<1>1. /\ reaper[p].at = "sweep" /\ reaper[p] \in Reapers
      /\ UNCHANGED <<running, started, late, lost, up, active, warm, info, idle, agent,
                     making, dying, faults>>
  BY DEF Verify, runtimeVars, provider, agentVars, StopInv, DataTypes
<1>2. reaper[p].now = {}
  BY <1>1 DEF StopInv, OneAtHand
<1>3. PICK t \in reaper[p].doomed :
       reaper' = [reaper EXCEPT ![p].doomed = @ \ {t},
         ![p].one = IF reaper[p].closing \/ t \in active[p] \cap idle[p]
                    THEN {t} ELSE {},
         ![p].at = IF reaper[p].closing \/ t \in active[p] \cap idle[p]
                   THEN "destroy" ELSE "sweep"]
  BY DEF Verify
<1>. DEFINE go == reaper[p].closing \/ t \in active[p] \cap idle[p]
            r == [reaper[p] EXCEPT !.doomed = @ \ {t},
                    !.one = IF go THEN {t} ELSE {},
                    !.at = IF go THEN "destroy" ELSE "sweep"]
<1>4. reaper' = [reaper EXCEPT ![p] = r]
  BY <1>3 DEF StopInv, DataTypes
<1>. HIDE DEF go
<1>5. r \in Reapers /\ r.stops = reaper[p].stops /\ r.now = {}
  BY <1>1, <1>2 DEF Reapers
<1>. HIDE DEF r
<1>6. /\ reaper' \in [Procs -> Reapers] /\ reaper'[p] = r
      /\ \A q \in Procs : q # p => reaper'[q] = reaper[q]
  BY <1>4, <1>5, Reaping DEF StopInv
<1>7. DataTypes' /\ NothingNoted'
  BY <1>1, <1>6 DEF StopInv, DataTypes, NothingNoted
<1>8. OneAtHand'
  BY <1>1, <1>5, <1>6, AtHand
<1>9. Queued \subseteq Queued'
  BY <1>2, <1>5, <1>6 DEF Queued
<1>10. Held \subseteq Held'
  BY <1>1, <1>9, SameKnown DEF Held, Made, Dying
<1>11. Covered'
  BY <1>1, <1>10, Keeping
<1>. QED
  BY <1>7, <1>8, <1>11 DEF StopInv

LEMMA ReaperStops ==
  ASSUME LockInv, StopInv, NEW p \in Procs, NEW s \in Stops, Stop(s),
         NEW r \in Reapers, reaper' = [reaper EXCEPT ![p] = r],
         \A x \in reaper[p].stops \cup reaper[p].now : x = s \/ x \in r.stops \cup r.now,
         r.now = {},
         UNCHANGED <<routes, started, late, up, active, warm, info, idle, agent, making, dying>>
  PROVE  StopInv'
<1>1. /\ reaper' \in [Procs -> Reapers] /\ reaper'[p] = r
      /\ \A q \in Procs : q # p => reaper'[q] = reaper[q]
  BY Reaping DEF StopInv
<1>2. /\ running' \in [Threads -> Nat] /\ lost' \in SUBSET Threads /\ faults' \in Nat
      /\ lost \subseteq lost'
      /\ running' = AfterStop(s) \/ (running' = running /\ s.thread \in lost')
  BY StopEffect DEF StopInv
<1>3. DataTypes' /\ NothingNoted'
  BY <1>1, <1>2 DEF StopInv, DataTypes, NothingNoted
<1>4. OneAtHand'
  BY <1>1, AtHand
<1>5. \A x \in Queued : x = s \/ x \in Queued'
  BY <1>1 DEF Queued
<1>6. \A x \in Held : x = s \/ x \in Held'
  BY <1>5, SameKnown DEF Held, Made, Dying
<1>7. Covered'
  BY <1>2, <1>6, Stopping
<1>. QED
  BY <1>3, <1>4, <1>7 DEF StopInv

LEMMA StopNowCovers ==
  ASSUME LockInv, StopInv, UNCHANGED routes, NEW p \in Procs, StopNow(p)
  PROVE  StopInv'
<1>1. /\ reaper[p].at = "stop" /\ reaper[p] \in Reapers
      /\ reaper' = [reaper EXCEPT ![p].now = {}, ![p].at = "sweep"]
      /\ UNCHANGED <<started, late, up, active, warm, info, idle, agent, making, dying>>
  BY DEF StopNow, provider, agentVars, StopInv, DataTypes
<1>2. PICK s \in reaper[p].now : Stop(s)
  BY DEF StopNow
<1>3. s \in Stops /\ \A x \in reaper[p].now : x = s
  BY <1>1 DEF Reapers, StopInv, OneAtHand
<1>. DEFINE r == [reaper[p] EXCEPT !.now = {}, !.at = "sweep"]
<1>4. reaper' = [reaper EXCEPT ![p] = r]
  BY <1>1 DEF StopInv, DataTypes
<1>5. r \in Reapers /\ r.now = {} /\ r.stops = reaper[p].stops
  BY <1>1 DEF Reapers
<1>. HIDE DEF r
<1>. QED
  BY <1>1, <1>2, <1>3, <1>4, <1>5, ReaperStops

LEMMA StopParkedCovers ==
  ASSUME LockInv, StopInv, UNCHANGED routes, NEW p \in Procs, StopParked(p)
  PROVE  StopInv'
<1>1. /\ reaper[p].at = "sweep" /\ reaper[p] \in Reapers
      /\ UNCHANGED <<started, late, up, active, warm, info, idle, agent, making, dying>>
  BY DEF StopParked, provider, agentVars, StopInv, DataTypes
<1>2. PICK s \in reaper[p].stops : Stop(s) /\ reaper' = [reaper EXCEPT ![p].stops = @ \ {s}]
  BY DEF StopParked
<1>3. s \in Stops /\ reaper[p].now = {}
  BY <1>1 DEF Reapers, StopInv, OneAtHand
<1>. DEFINE r == [reaper[p] EXCEPT !.stops = @ \ {s}]
<1>4. reaper' = [reaper EXCEPT ![p] = r]
  BY <1>2 DEF StopInv, DataTypes
<1>5. r \in Reapers /\ r.now = {} /\ r.stops = reaper[p].stops \ {s}
  BY <1>1, <1>3 DEF Reapers
<1>. HIDE DEF r
<1>. QED
  BY <1>1, <1>2, <1>3, <1>4, <1>5, ReaperStops

(* All that a process has the handles of is lost when it ends. *)
LEMMA GoneCovers ==
  ASSUME LockInv, StopInv, UNCHANGED routes, NEW p \in Procs, Gone(p), faults' \in Nat
  PROVE  StopInv'
<1>. DEFINE Mine == {s.thread : s \in Handles(p)}
<1>1. /\ lost' = lost \cup Mine
      /\ active' = [active EXCEPT ![p] = {}]
      /\ warm' = [warm EXCEPT ![p] = [t \in Threads |-> 0]]
      /\ idle' = [idle EXCEPT ![p] = {}]
      /\ info' = [info EXCEPT ![p] = [t \in Threads |-> ByName]]
      /\ reaper' = [reaper EXCEPT ![p] = Resting]
      /\ up' = [up EXCEPT ![p] = FALSE]
      /\ agent' = [a \in Agents |-> IF Inside(a, p) THEN Out ELSE agent[a]]
      /\ making' = [a \in Agents |-> IF Inside(a, p) THEN 0 ELSE making[a]]
      /\ dying' = [a \in Agents |-> IF Inside(a, p) THEN {} ELSE dying[a]]
      /\ UNCHANGED <<running, started, late>>
  BY DEF Gone
<1>2. Handles(p) \subseteq Stops
  <2>1. \A t \in Tracked(p) : StopOf(p, t) \in Stops
    BY DEF Tracked, Parked, StopOf, Stops, StopInv, DataTypes, LockInv, LockTypes
  <2>2. reaper[p].stops \subseteq Stops /\ reaper[p].now \subseteq Stops
        /\ \A a \in Agents : dying[a] \subseteq Stops
    BY DEF StopInv, DataTypes, Reapers
  <2>3. \A a \in Agents : At(a, "wait") =>
          [thread |-> agent[a].thread, by |-> making[a]] \in Stops
    BY AtJob DEF LockInv, At, Stops, StopInv, DataTypes
  <2>. QED
    BY <2>1, <2>2, <2>3 DEF Handles
<1>3. Mine \subseteq Threads /\ \A s \in Handles(p) : s.thread \in Mine
  BY <1>2 DEF Stops
<1>4. [t \in Threads |-> 0] \in Pools
  BY DEF Pools
<1>5. Resting \in Reapers
  BY DEF Resting, Reapers
<1>. HIDE DEF Mine
<1>6. /\ making' \in [Agents -> Nat] /\ dying' \in [Agents -> SUBSET Stops]
      /\ reaper' \in [Procs -> Reapers] /\ warm' \in [Procs -> Pools]
  BY <1>1, <1>4, <1>5 DEF StopInv, DataTypes
<1>7. DataTypes'
  BY <1>1, <1>3, <1>6 DEF StopInv, DataTypes, ByName
<1>8. NothingNoted'
  BY <1>1 DEF StopInv, DataTypes, NothingNoted, LockInv, LockTypes
<1>9. OneAtHand'
  BY <1>1 DEF StopInv, DataTypes, OneAtHand, Resting
<1>10. \A s \in Known : s.thread \in Mine \/ s \in Known'
  <2>. SUFFICES ASSUME NEW s \in Known PROVE s.thread \in Mine \/ s \in Known'
    OBVIOUS
  <2>1. s \in Stops /\ s.thread \in Threads /\ s = [thread |-> s.thread, by |-> s.by]
    BY DEF Known, Stops
  <2>. PICK q \in Procs : s.thread \in Tracked(q) /\ s.by = info[q][s.thread]
    BY DEF Known
  <2>2. CASE q = p
    <3>1. s = StopOf(p, s.thread)
      BY <2>1, <2>2 DEF StopOf
    <3>. QED
      BY <1>3, <2>2, <3>1 DEF Handles
  <2>3. CASE q # p
    <3>1. (s.thread \in Tracked(q))' /\ info'[q] = info[q]
      BY <1>1, <2>3 DEF Tracked, Parked, StopInv, DataTypes, LockInv, LockTypes
    <3>. QED
      BY <2>1, <3>1 DEF Known
  <2>. QED
    BY <2>2, <2>3
<1>11. \A s \in Queued : s.thread \in Mine \/ s \in Queued'
  <2>1. reaper[p].stops \cup reaper[p].now \subseteq Handles(p)
    BY DEF Handles
  <2>2. \A q \in Procs : q # p => reaper'[q] = reaper[q]
    BY <1>1 DEF StopInv, DataTypes
  <2>. QED
    BY <1>3, <2>1, <2>2 DEF Queued
<1>12. \A s \in Dying : s.thread \in Mine \/ s \in Dying'
  <2>. SUFFICES ASSUME NEW a \in Agents, NEW s \in dying[a]
               PROVE  s.thread \in Mine \/ s \in Dying'
    BY DEF Dying
  <2>1. CASE Inside(a, p)
    <3>1. s \in Handles(p)
      BY <2>1 DEF Handles
    <3>. QED
      BY <1>3, <3>1
  <2>2. CASE ~Inside(a, p)
    BY <1>1, <2>2 DEF Dying
  <2>. QED
    BY <2>1, <2>2
<1>13. \A s \in Made : s.thread \in Mine \/ s \in Made'
  <2>. SUFFICES ASSUME NEW s \in Made PROVE s.thread \in Mine \/ s \in Made'
    OBVIOUS
  <2>. PICK a \in Agents :
         agent[a].at = "wait" /\ s.thread = agent[a].thread /\ s.by = making[a]
    BY DEF Made
  <2>0. s \in Stops
    BY DEF Made
  <2>1. CASE Inside(a, p)
    <3>1. s = [thread |-> agent[a].thread, by |-> making[a]]
      BY DEF Made, Stops
    <3>2. a \in {b \in Agents : Inside(b, p) /\ At(b, "wait")}
      BY <2>1 DEF At
    <3>3. s \in {[thread |-> agent[b].thread, by |-> making[b]] :
                  b \in {c \in Agents : Inside(c, p) /\ At(c, "wait")}}
      BY <3>1, <3>2
    <3>4. s \in Handles(p)
      BY <3>3 DEF Handles
    <3>. QED
      BY <1>3, <3>4
  <2>2. CASE ~Inside(a, p)
    BY <1>1, <2>0, <2>2 DEF Made
  <2>. QED
    BY <2>1, <2>2
<1>14. \A s \in Held : s.thread \in Mine \/ s \in Held'
  BY <1>10, <1>11, <1>12, <1>13 DEF Held
<1>15. Covered'
  BY <1>1, <1>14, Keeping
<1>. QED
  BY <1>7, <1>8, <1>9, <1>15 DEF StopInv

(* What a process that starts does not adopt is held by whoever held it. *)
LEMMA StartCovers ==
  ASSUME LockInv, StopInv, UNCHANGED routes, NEW p \in Procs, Start(p)
  PROVE  StopInv'
<1>1. /\ ~up[p] /\ up' = [up EXCEPT ![p] = TRUE]
      /\ UNCHANGED <<running, started, late, active, info, idle, agent, making, dying, reaper, faults>>
  BY DEF Start, agentVars
<1>2. PICK found \in SUBSET Threads :
        /\ lost' = lost \ found
        /\ \E place \in [found -> 1 .. Cardinality(found)] :
             /\ \A s, t \in found : s # t => place[s] # place[t]
             /\ warm' = [warm EXCEPT ![p] =
                  [t \in Threads |-> IF t \in found THEN place[t] ELSE 0]]
  BY DEF Start
<1>3. PICK place \in [found -> 1 .. Cardinality(found)] :
        /\ \A s, t \in found : s # t => place[s] # place[t]
        /\ warm' = [warm EXCEPT ![p] = [t \in Threads |-> IF t \in found THEN place[t] ELSE 0]]
  BY <1>2
<1>. DEFINE w == [t \in Threads |-> IF t \in found THEN place[t] ELSE 0]
<1>4. w \in Pools /\ \A t \in Threads : w[t] # 0 <=> t \in found
  BY <1>3, AdoptedPool
<1>5. warm' = [warm EXCEPT ![p] = w]
  BY <1>3
<1>. HIDE DEF w
<1>6. /\ warm' \in [Procs -> Pools] /\ warm'[p] = w
      /\ \A q \in Procs : q # p => warm'[q] = warm[q]
  BY <1>4, <1>5 DEF StopInv, DataTypes
<1>7. DataTypes'
  BY <1>1, <1>2, <1>6 DEF StopInv, DataTypes
<1>8. OneAtHand'
  BY <1>1 DEF StopInv, OneAtHand
<1>9. NothingNoted'
  BY <1>1 DEF StopInv, NothingNoted, LockInv, LockTypes
<1>10. Tracked(p) = {} /\ \A q \in Procs : q # p => Tracked(q)' = Tracked(q)
  BY <1>1, <1>6 DEF LockInv, OnlyInLiveProcs, Tracked, Parked
<1>11. Held \subseteq Held'
  <2>1. Known \subseteq Known'
    BY <1>1, <1>10 DEF Known
  <2>. QED
    BY <1>1, <2>1 DEF Held, Queued, Dying, Made
<1>12. \A t \in Threads : t \in found => (t \in Tracked(p))' /\ info'[p][t] = ByName
  BY <1>1, <1>4, <1>6 DEF Tracked, Parked, StopInv, NothingNoted
<1>13. Covered'
  <2>. SUFFICES ASSUME NEW t \in Threads, running'[t] # 0
               PROVE  t \in lost' \/ \E s \in Held' \cap Reaching' : s.thread = t
    BY DEF Covered
  <2>1. CASE t \notin found
    <3>1. Reaching' = Reaching
      BY <1>1 DEF Reaching
    <3>. QED
      BY <1>1, <1>2, <1>11, <2>1, <3>1 DEF StopInv, Covered
  <2>2. CASE t \in found
    <3>. DEFINE s == [thread |-> t, by |-> ByName]
    <3>1. s \in Stops /\ s.thread = t /\ s.by = ByName
      BY DEF Stops, ByName
    <3>2. s \in Known'
      BY <1>12, <2>2, <3>1 DEF Known
    <3>3. s \in Reaching'
      BY <3>1 DEF Reaching
    <3>. QED
      BY <3>1, <3>2, <3>3 DEF Held
  <2>. QED
    BY <2>1, <2>2
<1>. QED
  BY <1>7, <1>8, <1>9, <1>13 DEF StopInv

----------------------------------------------------------------------------
LEMMA InitStopInv == Init => StopInv
<1>. SUFFICES ASSUME Init PROVE StopInv
  OBVIOUS
<1>1. [t \in Threads |-> 0] \in Pools
  BY DEF Pools
<1>2. Resting \in Reapers
  BY DEF Resting, Reapers
<1>3. DataTypes
  BY <1>1, <1>2 DEF Init, DataTypes, ByName
<1>4. OneAtHand /\ NothingNoted
  BY DEF Init, OneAtHand, NothingNoted, Resting
<1>5. Covered
  BY DEF Init, Covered
<1>. QED
  BY <1>3, <1>4, <1>5 DEF StopInv

LEMMA NextStopInv == LockInv /\ StopInv /\ [Next]_vars => StopInv'
<1>. SUFFICES ASSUME LockInv, StopInv, [Next]_vars PROVE StopInv'
  OBVIOUS
<1>1. CASE UNCHANGED vars
  <2>1. DataTypes' /\ OneAtHand' /\ NothingNoted'
    BY <1>1 DEF vars, runtimeVars, provider, agentVars, StopInv, DataTypes, OneAtHand, NothingNoted
  <2>2. UNCHANGED <<running, lost, active, warm, info, agent, making, dying, reaper>>
    BY <1>1 DEF vars, runtimeVars, provider, agentVars
  <2>3. Held' = Held
    BY <2>2, SameKnown DEF Held, Made, Queued, Dying
  <2>. QED
    BY <2>1, <2>2, <2>3, Keeping DEF StopInv
<1>2. CASE Next
  <2>1. UNCHANGED routes
    BY <1>2 DEF Next
  <2>2. CASE \E a \in Agents : Ensure(a) \/ Acquire(a) \/ Release(a) \/ Abort(a) \/ Cancel(a)
    BY <2>1, <2>2, EnsureCovers, LookCovers, QuietCovers, FetchCovers, ReleaseCovers,
       RegisterFoundCovers, RegisterCreatedCovers, EvictCovers, StopEvictedCovers,
       CreateCovers, NotReadyCovers, CancelCovers DEF Acquire
  <2>3. CASE \E t \in Threads : LateStart(t)
    BY <2>1, <2>3, LateStartCovers
  <2>4. CASE \E p \in Procs : \/ Scan(p) \/ Reap(p) \/ Shutdown(p) \/ Kill(p) \/ Start(p)
                              \/ \E t \in Threads : GrowIdle(p, t)
    <3>. PICK p \in Procs : \/ Scan(p) \/ Reap(p) \/ Shutdown(p) \/ Kill(p) \/ Start(p)
                            \/ \E t \in Threads : GrowIdle(p, t)
      BY <2>4
    <3>1. CASE Kill(p) \/ Exit(p)
      <4>1. faults' \in Nat
        BY <3>1, FaultTypes DEF Kill, Exit, StopInv
      <4>. QED
        BY <2>1, <3>1, <4>1, GoneCovers DEF Kill, Exit
    <3>. QED
      BY <2>1, <3>1, ScanCovers, VerifyCovers, DestroyCovers, StopNowCovers,
         StopParkedCovers, ShutdownCovers, StartCovers, GrowIdleCovers DEF Reap
  <2>. QED
    BY <1>2, <2>2, <2>3, <2>4 DEF Next
<1>. QED
  BY <1>1, <1>2

(* Type correctness; the places in each warm pool are 1, 2, ... in order.   *)
THEOREM TypesHold == Spec => []TypeOK
<1>1. LockInv /\ StopInv => TypeOK
  <2>1. Pools \subseteq [Threads -> Nat]
    BY DEF Pools
  <2>. QED
    BY <2>1 DEF LockInv, LockTypes, StopInv, DataTypes, TypeOK, Reapers
<1>2. Init => LockInv /\ StopInv
  BY InitLockInv, InitStopInv
<1>3. LockInv /\ StopInv /\ [Next]_vars => LockInv' /\ StopInv'
  BY NextLockInv, NextStopInv
<1>. QED
  BY <1>1, <1>2, <1>3, PTL DEF Spec

(* A container that runs is tracked, being registered or being stopped by a *)
(* process that lives, unless a kill, a cancellation or a failed docker stop *)
(* let go of it: for any number of processes, with evictions, idle sweeps,  *)
(* shutdowns, restarts and late starts at any point.                        *)
THEOREM NoneIsForgotten == Spec => []NoneForgotten
<1>1. LockInv /\ StopInv => NoneForgotten
  BY CoveredIsEnough
<1>2. Init => LockInv /\ StopInv
  BY InitLockInv, InitStopInv
<1>3. LockInv /\ StopInv /\ [Next]_vars => LockInv' /\ StopInv'
  BY NextLockInv, NextStopInv
<1>. QED
  BY <1>1, <1>2, <1>3, PTL DEF Spec

============================================================================
