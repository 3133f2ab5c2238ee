--------------------------- MODULE MCRealtimeHub ---------------------------
(* Small instances of the websocket hub for TLC.                           *)
EXTENDS RealtimeHub

CONSTANTS c1, c2, b1, b2

MCClients == {c1, c2}
MCBroadcasters == {b1, b2}
MCRecovered == {b1}

(* b1 stands for handlers, which run under gin.Recovery; b2 for shadow     *)
(* goroutines, which do not.                                               *)

=============================================================================
