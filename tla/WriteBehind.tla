---------------------------- MODULE WriteBehind ----------------------------
(***************************************************************************)
(* What the daemon promises about what it saves, and no more: writes are   *)
(* numbered as they are handed over, each is settled once and in that      *)
(* order, and settling it leaves it on disk or not.  What is on disk       *)
(* stays.  Only of the write that is next to settle may a part be there    *)
(* before.  A crash settles what was left                                  *)
(* (docs/adr/0002-daemon-concurrency.md, invariant 4).                     *)
(***************************************************************************)
EXTENDS Naturals

VARIABLES accepted,   \* how many were handed over
          settled,    \* how many of them are decided
          rows        \* those on disk, in part at least

Init == accepted = 0 /\ settled = 0 /\ rows = {}

Accept == accepted' = accepted + 1 /\ UNCHANGED <<settled, rows>>

Settle ==
  /\ settled' > settled /\ settled' <= accepted
  /\ rows \subseteq rows' /\ rows' \ rows \subseteq (settled + 1)..settled'
  /\ UNCHANGED accepted

Land ==
  /\ settled < accepted /\ rows' = rows \cup {settled + 1}
  /\ UNCHANGED <<accepted, settled>>

Next == Accept \/ Settle \/ Land
Spec == Init /\ [][Next]_<<accepted, settled, rows>>
=============================================================================
