-------------------------- MODULE HealthHysteresis --------------------------
(***************************************************************************)
(* What a health check promises: its status follows runs of equal results. *)
(* It becomes healthy with the HealthyThreshold-th success in a row,       *)
(* unhealthy with the UnhealthyThreshold-th failure in a row, and keeps    *)
(* its status otherwise.                                                   *)
(***************************************************************************)
EXTENDS Naturals

CONSTANTS HealthyThreshold, UnhealthyThreshold

VARIABLES
  status,     \* initializing, healthy or unhealthy
  successes,  \* successes in a row, counted up to HealthyThreshold
  failures    \* failures in a row, counted up to UnhealthyThreshold

hysteresisVars == <<status, successes, failures>>

Init == status = "initializing" /\ successes = 0 /\ failures = 0

Counted(n, limit) == IF n < limit THEN n + 1 ELSE limit

Success ==
  /\ successes' = Counted(successes, HealthyThreshold)
  /\ failures' = 0
  /\ status' = IF successes' = HealthyThreshold THEN "healthy" ELSE status

Failure ==
  /\ failures' = Counted(failures, UnhealthyThreshold)
  /\ successes' = 0
  /\ status' = IF failures' = UnhealthyThreshold THEN "unhealthy" ELSE status

Next == Success \/ Failure

Spec == Init /\ [][Next]_hysteresisVars
=============================================================================
