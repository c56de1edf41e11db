----------------------------- MODULE MCServerSet -----------------------------
(* Small instances of ServerSet for TLC. *)
EXTENDS ServerSet, TLC

CONSTANTS n1, n2, e1, e2

\* One node, one endpoint.
OneEndpoint == n1 :> {e1}

\* A node name that comes back under a path created anew may stand for another
\* instance.
ReusedName == n1 :> {e1, e2}
=============================================================================
