---------------------------- MODULE MCSourceGroup ----------------------------
(* Small instances of SourceGroup for TLC. *)
EXTENDS SourceGroup

CONSTANTS p, q, o, e1
=============================================================================
