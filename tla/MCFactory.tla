----------------------------- MODULE MCFactory -----------------------------
(* Instances of Factory small enough for TLC. *)
EXTENDS Factory, TLC
CONSTANTS t1, t2

Kind(there, pr) == [folder |-> there, deliver |-> pr]
(* In a worktree, under a lease, and in place. *)
EveryKind == {Kind(FALSE, TRUE), Kind(TRUE, TRUE), Kind(TRUE, FALSE)}

Alike == Permutations(Tasks)
=============================================================================
