------------------------ MODULE MCAzureRegistration ------------------------
(* Small instances of AzureRegistration for TLC: a task that registers     *)
(* with two gateways and performs checks, alone or with one of another job *)
(* on its machine, which registers with a load balancer.                   *)
EXTENDS AzureRegistration, TLC

CONSTANTS gatewayJob, lbJob, g1, g2, lb, p1, p2, q

TwoJobsPools == g1 :> {p1} @@ g2 :> {p2} @@ lb :> {q}
TwoJobsFirst == g1 :> p1 @@ g2 :> p2 @@ lb :> q
TwoJobsConfigured == gatewayJob :> <<g1, g2>> @@ lbJob :> <<lb>>
TwoJobsLbs == gatewayJob :> <<g2, g1>> @@ lbJob :> <<lb>>
GatewaysConfigured == gatewayJob :> <<g1, g2>>
OneGatewayLbs == gatewayJob :> <<g1>>
=============================================================================
