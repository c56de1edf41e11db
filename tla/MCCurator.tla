----------------------------- MODULE MCCurator -----------------------------
(* Small instances of Curator for TLC. *)
EXTENDS Curator, TLC

CONSTANTS n1, n2, e1, e2

\* Every instance has an endpoint of its own; the data of the second may be
\* malformed.
OwnOrMalformed == n1 :> {e1} @@ n2 :> {e2, Malformed}
=============================================================================
