-------------------------- MODULE MCAggregatorSystem --------------------------
(***************************************************************************)
(* A TLC instance of AggregatorSystem: one Service, one limited model, two *)
(* clients.                                                                *)
(***************************************************************************)
EXTENDS AggregatorSystem, TLC

CONSTANTS c1, c2

MCLimits == ("m1" :> 1)
FrontendManifests ==
  {[labelled |-> FALSE, selector |-> "dynamo frontend", external |-> FALSE, port |-> "http"]}
ClientSymmetry == Permutations({c1, c2})
=============================================================================
