------------------------------ MODULE MCQueues ------------------------------
(* Instances for TLC of two parts that share no state: the updates of the   *)
(* memory and the dispatch of channel messages.  As in MCHarness, part says *)
(* which one moves.                                                         *)
EXTENDS MemoryUpdates, ChannelDispatch

VARIABLE part

vars == <<part, memoryVars, channelVars>>

Init == part \in {"memory", "channel"} /\ MemoryInit /\ ChannelInit

Memory == part = "memory" /\ UNCHANGED <<part, channelVars>>
Channel == part = "channel" /\ UNCHANGED <<part, memoryVars>>

MoveMemory == Memory /\ MemoryNext
MoveChannel == Channel /\ ChannelNext

Next == MoveMemory \/ MoveChannel

\* MemoryFairness and ChannelFairness, of the part that moves.
Spec ==
  /\ Init /\ [][Next]_vars
  /\ \A t \in Timers : WF_vars(Memory /\ TimerStep(t))
  /\ WF_vars(Channel /\ Dispatch) /\ WF_vars(Channel /\ Begin)
  /\ \A m \in Messages : WF_vars(Channel /\ GoOn(m)) /\ WF_vars(Channel /\ EndRun(m))
=============================================================================
