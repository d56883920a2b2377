---------------------------- MODULE MCTurnDriver ----------------------------
(* TurnDriver on one opening prompt, two of the user's and one wake-up     *)
(* message of the daemon's own: enough for a batch of two, for a prompt    *)
(* that must keep its place behind it, and for a second force-send.  The   *)
(* prompts a configuration leaves out of Prompts are never submitted.      *)
EXTENDS TurnDriver, TLC

CONSTANTS i, u1, u2, s1

MCBy ==
  [p \in Prompts |-> CASE p = i -> "Initial" [] p \in {u1, u2} -> "User" [] p = s1 -> "System"]

(* The user's two prompts are told apart by their arrival alone. *)
UserPrompts == Permutations({u1, u2})
=============================================================================
