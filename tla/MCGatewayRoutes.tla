---------------------------- MODULE MCGatewayRoutes ----------------------------
(***************************************************************************)
(* TLC instances of GatewayRoutes: a model that llm-d and Dynamo can both  *)
(* serve, a plain one, and one whose name has the slug of the first.       *)
(***************************************************************************)
EXTENDS GatewayRoutes, TLC

CONSTANTS ada, bob, llmdA, dynamoA, plainB, dynamoC
TwoOperators == {ada, bob}
OneOperator == {ada}
AllWorkloads == {llmdA, dynamoA, plainB, dynamoC}
FrameworkOf == llmdA :> "llm-d" @@ dynamoA :> "dynamo" @@ plainB :> "plain" @@ dynamoC :> "dynamo"
ServedBy == llmdA :> "A" @@ dynamoA :> "A" @@ plainB :> "B" @@ dynamoC :> "a"
SlugFor == "A" :> "a" @@ "B" :> "b" @@ "a" :> "a"
Interchangeable == Permutations(TwoOperators)
=============================================================================
