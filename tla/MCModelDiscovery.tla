--------------------------- MODULE MCModelDiscovery ---------------------------
(***************************************************************************)
(* TLC instances of ModelDiscovery: Services that report one model ID, and *)
(* manifests that the clauses of service_url tell apart.                   *)
(***************************************************************************)
EXTENDS ModelDiscovery

DynamoFrontend == [labelled |-> FALSE, selector |-> "dynamo frontend",
                   external |-> FALSE, port |-> "http"]
PlainService == [labelled |-> TRUE, selector |-> "app",
                 external |-> FALSE, port |-> "8000"]
ExternalService == [labelled |-> TRUE, selector |-> "app",
                    external |-> TRUE, port |-> "http"]
NoSelectorService == [labelled |-> TRUE, selector |-> "none",
                    external |-> FALSE, port |-> "http"]

AllowedManifests == {DynamoFrontend, NoSelectorService}
MixedManifests == {PlainService, ExternalService}
=============================================================================
