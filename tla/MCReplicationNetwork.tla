----------------------- MODULE MCReplicationNetwork -----------------------
(* Two devices, two wall-clock readings and a replay filter that remembers  *)
(* one id, so that eviction, equal timestamps, echoes, clocks that run      *)
(* backwards and the saturated counter all occur.                           *)
EXTENDS ReplicationNetwork
=============================================================================
