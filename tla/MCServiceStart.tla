--------------------------- MODULE MCServiceStart ---------------------------
(* ServiceStart with constants small enough for TLC. *)
EXTENDS ServiceStart

Config(declared, one, two, version) ==
  [declared |-> declared, deps |-> [s \in Svcs |-> IF s = 1 THEN one ELSE two],
   fwd |-> version]

(* One service that needs the other, which needs a forward; the same with   *)
(* the forward changed, and with the second service gone; and a cycle.     *)
MCConfigs ==
  {Config({1, 2}, {2}, {Fwd}, 1), Config({1}, {Fwd}, {}, 2), Config({1, 2}, {2}, {1}, 0)}
MCSvcs == {1, 2}
MCUnprobed == {1}
=============================================================================
