--------------------------- MODULE MCStreamBridge ---------------------------
(* Two clients and a log that holds two of four events: a client can fall  *)
(* behind by more than the log holds, and can reconnect after the event it *)
(* saw last was dropped.                                                   *)
EXTENDS StreamBridge

CONSTANTS c1, c2

=============================================================================
