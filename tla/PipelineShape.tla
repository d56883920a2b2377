--------------------------- MODULE PipelineShape ---------------------------
(***************************************************************************)
(* What a workflow promises its user, whatever happens to agents, accounts *)
(* and the daemon: the shape plan? -> implement -> verify? -> review <-> fix*)
(* is fixed, a pipeline can succeed only out of a review, the rounds spent *)
(* never exceed the rounds allowed, and a pipeline that ended stays ended. *)
(***************************************************************************)
EXTENDS Naturals

VARIABLES
  shape,    \* [plan, verify, waivable]: the stages this workflow has
  phase,    \* the stage the pipeline is in, or parked before
  status,   \* "working", "parked", "succeeded" or "failed"
  spent,    \* review rounds spent
  allowed   \* review rounds the workflow and its user allow

vars == <<shape, phase, status, spent, allowed>>

Phases == {"Plan", "Implement", "Verify", "Review", "Fix"}
Open == status \in {"working", "parked"}

(* The arrows of the shape.  A verify stage that may be waived can be      *)
(* passed through without an agent.                                        *)
Arrow(from, to) ==
  \/ from = "Plan" /\ to = "Implement"
  \/ from \in {"Implement", "Fix"} /\ to = "Verify" /\ shape.verify
  \/ from = "Implement" /\ to = "Review" /\ (shape.verify => shape.waivable)
  \/ from \in {"Fix", "Verify"} /\ to = "Review"
  \/ from \in {"Verify", "Review"} /\ to = "Fix"

Init ==
  /\ phase = IF shape.plan THEN "Plan" ELSE "Implement"
  /\ status = "working" /\ spent = 0 /\ allowed \in Nat \ {0}

(* One round is spent when a review starts, given back when it is parked   *)
(* without a verdict, and never spent otherwise.                           *)
Rounds ==
  /\ spent' \in {spent, spent + 1} \cup {n \in {spent - 1} : spent > 0}
  /\ spent' > spent => phase' = "Review" /\ status' = "working"
  /\ spent' < spent => phase = "Review" /\ status = "working" /\ status' = "parked"
  /\ spent' <= allowed'

Stay == Open /\ phase' = phase /\ status' \in {"working", "parked"} /\ Rounds

Move == Open /\ Arrow(phase, phase') /\ status' \in {"working", "parked"} /\ Rounds

Succeed ==
  /\ Open /\ phase = "Review" /\ spent > 0
  /\ status' = "succeeded" /\ UNCHANGED <<phase, spent>>

Fail == Open /\ status' = "failed" /\ UNCHANGED spent

Next ==
  /\ UNCHANGED shape
  /\ allowed' >= allowed
  /\ Stay \/ Move \/ Succeed \/ Fail

Spec == Init /\ [][Next]_vars
=============================================================================
