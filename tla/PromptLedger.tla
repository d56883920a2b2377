---------------------------- MODULE PromptLedger ----------------------------
(***************************************************************************)
(* What a live agent session promises about the prompts submitted to it,   *)
(* without saying how: a prompt waits at most once, leaves the line for    *)
(* exactly one reason, and leaves it in order unless the user forced their *)
(* own messages through.  TurnDriver implements this module.               *)
(***************************************************************************)
EXTENDS Naturals

CONSTANTS Prompts,  \* every prompt the actor may submit to the session
          By        \* By[p]: the TurnInitiator that submitted p

VARIABLES place,    \* place[p]: where prompt p is in its life
          arrived,  \* arrived[p]: its number in order of arrival, 0 before it
          closed    \* the session takes and gives out no more prompts

vars == <<place, arrived, closed>>

Places == {"unsent", "waiting", "taken", "withdrawn", "dropped"}

WaitingNow == {p \in Prompts : place[p] = "waiting"}

(* p has arrived, after every prompt that arrived before it *)
Arrives(p) ==
  /\ ~closed
  /\ place[p] = "unsent"
  /\ arrived[p] = 0
  /\ arrived'[p] \in Nat \ {0}
  /\ \A q \in Prompts : arrived[q] < arrived'[p]
  /\ arrived' = [arrived EXCEPT ![p] = arrived'[p]]
  /\ UNCHANGED closed

Init ==
  /\ place = [p \in Prompts |-> "unsent"]
  /\ arrived = [p \in Prompts |-> 0]
  /\ closed = FALSE

(* a prompt finds a turn running and joins the line *)
Wait(p) ==
  /\ Arrives(p)
  /\ place' = [place EXCEPT ![p] = "waiting"]

(* a prompt finds nobody ahead of it and becomes a turn at once *)
TakeAtOnce(p) ==
  /\ Arrives(p)
  /\ WaitingNow = {}
  /\ place' = [place EXCEPT ![p] = "taken"]

(* the oldest waiting prompt, or a batch of the user's own, becomes a turn *)
Take(S) ==
  /\ ~closed
  /\ S # {}
  /\ \A p \in S : place[p] = "waiting"
  /\ \/ \A p \in S : By[p] = "User"
     \/ \E p \in S : S = {p} /\ \A q \in WaitingNow : arrived[p] <= arrived[q]
  /\ place' = [p \in Prompts |-> IF p \in S THEN "taken" ELSE place[p]]
  /\ UNCHANGED <<arrived, closed>>

Withdraw(p) ==
  /\ ~closed
  /\ place[p] = "waiting"
  /\ place' = [place EXCEPT ![p] = "withdrawn"]
  /\ UNCHANGED <<arrived, closed>>

(* the session is over: whatever still waits is never said to the agent *)
Close ==
  /\ ~closed
  /\ closed' = TRUE
  /\ place' = [p \in Prompts |-> IF place[p] = "waiting" THEN "dropped" ELSE place[p]]
  /\ UNCHANGED arrived

Next ==
  \/ \E p \in Prompts : Wait(p) \/ TakeAtOnce(p) \/ Withdraw(p)
  \/ \E S \in SUBSET Prompts : Take(S)
  \/ Close

Spec == Init /\ [][Next]_vars
=============================================================================
