--------------------------- MODULE MCWorkflowRun ---------------------------
(* Instances of WorkflowRun small enough for TLC. *)
EXTENDS WorkflowRun

File(plan, verify, required, attempts, rounds, same, limit, worktree) ==
  [plan |-> plan, verify |-> verify, required |-> required,
   max_attempts |-> attempts, max_rounds |-> rounds,
   same_session |-> same, on_limit |-> limit, worktree |-> worktree]

(* Two reviewers, no verify stage. *)
ReviewLoops ==
  {File(FALSE, FALSE, TRUE, 1, 2, TRUE, "Ask", FALSE),
   File(FALSE, FALSE, TRUE, 1, 1, FALSE, "Finish", TRUE)}

(* One reviewer behind a verify stage. *)
VerifyLoops ==
  {File(TRUE, TRUE, TRUE, 1, 2, TRUE, "Ask", FALSE),
   File(FALSE, TRUE, FALSE, 1, 2, FALSE, "Ask", FALSE),
   File(FALSE, TRUE, FALSE, 1, 1, FALSE, "Finish", TRUE),
   File(FALSE, TRUE, TRUE, 1, 1, FALSE, "Ask", TRUE)}

(* A user who names no number of rounds, and one who asks for two. *)
NoneOrTwo == {0, 2}
One == {1}
=============================================================================
