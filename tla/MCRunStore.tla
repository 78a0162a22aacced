----------------------------- MODULE MCRunStore -----------------------------
(* Two runs on a thread and two concurrent requests: a creation that       *)
(* interrupts a run while another request cancels it, a restart of the     *)
(* process that serves them, and a sibling process on the same store.      *)
EXTENDS RunStore, TLC

CONSTANTS r1, r2, c1, c2, p1, p2, t1

MCThread == {t1}
MCThreadOf == [r \in Run |-> t1]
MCOwnerOf == [r \in Run |-> p1]
MCSymmetry == Permutations({c1, c2})

(* Bound: while the sibling is up, the first run is the only one.          *)
MCSiblingBound == proc[p2] # "down" => pc[r2] = "idle"

=============================================================================
