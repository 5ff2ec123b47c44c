---------------------------- MODULE MCOracleViews ----------------------------
(* Two requests over three slots, two tasks alive for one request. *)
EXTENDS OracleViews, TLC

CONSTANTS r1, r2

MCId == {r1, r2}
MCWorker == {"w1", "w2"}
Symmetry == Permutations(MCId)

=============================================================================
