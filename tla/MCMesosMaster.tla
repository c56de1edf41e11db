---------------------------- MODULE MCMesosMaster ----------------------------
(* Instances of MesosMaster. *)
EXTENDS MesosMaster, TLC

CONSTANTS e1, e2

\* A master may have the address another one has or had.
AnyEndpoint == 1 :> {e1, e2} @@ 2 :> {e1, e2}

\* A master that registers again has the address it had.
OneEndpoint == 1 :> {e1}
=============================================================================
