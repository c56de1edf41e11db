-------------------------- MODULE MCManagedEndpoints --------------------------
(* Small instances of ManagedEndpoints for TLC. *)
EXTENDS ManagedEndpoints

CONSTANTS a, b, r1, r2, e1
=============================================================================
