----------------------------- MODULE MCPersist -----------------------------
(* Persist with constants small enough for TLC. *)
EXTENDS Persist
=============================================================================
