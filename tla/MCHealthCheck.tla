---------------------------- MODULE MCHealthCheck ----------------------------
(* HealthCheck has only numbers and Booleans as constants; the              *)
(* configuration files give them their values.                              *)
EXTENDS HealthCheck
=============================================================================
