--------------------------- MODULE MCSandboxPool ---------------------------
(* Instances of SandboxPool for TLC. *)
EXTENDS SandboxPool, TLC

Symmetry == Permutations(Agents) \cup Permutations(Threads) \cup Permutations(Procs)

(* One process serves every thread, or every process serves one thread. *)
OneProcOrOneThread ==
  {{p} \X Threads : p \in Procs} \cup {Procs \X {t} : t \in Threads}
============================================================================
