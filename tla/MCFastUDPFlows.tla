--------------------------- MODULE MCFastUDPFlows ---------------------------
(* Small instances of FastUDPFlows for TLC.                                 *)
EXTENDS FastUDPFlows

(* No packet, two packets, no limit. *)
SomeLimits == {0, 2, NO_LIMIT}
=============================================================================
