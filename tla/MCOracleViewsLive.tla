-------------------------- MODULE MCOracleViewsLive --------------------------
(* One request, every order of views, slots without bound. *)
EXTENDS OracleViewsLive

CONSTANT r1

OneId == {r1}
MCWorker == {"w1", "w2"}

=============================================================================
