---------------------------- MODULE MCFulfillTask ----------------------------
(* The loop with its limits scaled down: four attempts, delays up to four     *)
(* slots, a TTL of two stamp units of two seconds, a host clock on time or    *)
(* behind by the skew. The last three definitions serve the run with the      *)
(* code's units: a request made at second 1000 whose task starts 110 seconds  *)
(* later, on a host whose clock is on time.                                   *)
EXTENDS FulfillTask

MCBirths == {10, 11}
MCDelays == {0, 3}
MCDrifts == {-2, 0}
LateBirth == {1000}
LateStart == {110}
NoDrift == {0}

=============================================================================
