---------------------------- MODULE MCLoopGuard ----------------------------
(* Instances of LoopGuard for TLC: two tools, one called with two arguments, *)
(* alone and together.                                                       *)
EXTENDS LoopGuard

Call(tool, arg) == [tool |-> tool, arg |-> arg]
MCResponses == {<<Call("read", 1)>>, <<Call("read", 2)>>,
                <<Call("read", 1), Call("bash", 1)>>}
MCTools == {"read", "bash"}
MCFreqWarn == [t \in MCTools |-> IF t = "read" THEN 3 ELSE 2]
MCFreqHard == [t \in MCTools |-> IF t = "read" THEN 5 ELSE 3]
=============================================================================
