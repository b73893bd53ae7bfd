--------------------------- MODULE MCPeerSessions ---------------------------
(* Two devices that connect, one of them paired before, and the listener.    *)
EXTENDS PeerSessions

CONSTANTS new, old, listener

MCDevices == {new, old, listener}
MCPairedBefore == {old}
=============================================================================
