--------------------------- MODULE MCPeerDelivery ---------------------------
(* PeerDelivery with constants small enough for TLC. *)
EXTENDS PeerDelivery
=============================================================================
