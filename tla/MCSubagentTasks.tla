-------------------------- MODULE MCSubagentTasks --------------------------
(* Two tasks and a pool of one thread: the second task waits for the first *)
(* to finish or to time out, as the fourth does in a pool of three.        *)
EXTENDS SubagentTasks

=============================================================================
