------------------------------ MODULE MCMirror ------------------------------
(* Small instances of Mirror for TLC: model values name the commands.      *)
EXTENDS Mirror

CONSTANTS c1, c2, fallback
=============================================================================
