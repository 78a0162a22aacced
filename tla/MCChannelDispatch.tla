------------------------- MODULE MCChannelDispatch -------------------------
(* Instances of ChannelDispatch for TLC. *)
EXTENDS ChannelDispatch
============================================================================
