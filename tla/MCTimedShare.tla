----------------------------- MODULE MCTimedShare -----------------------------
(* TimedShare has only numbers and strings as constants; the configuration  *)
(* file gives them their values.                                            *)
EXTENDS TimedShare
=============================================================================
