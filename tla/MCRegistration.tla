--------------------------- MODULE MCRegistration ---------------------------
(* Small instances of Registration for TLC.                                *)
EXTENDS Registration

CONSTANTS h1, h2
=============================================================================
