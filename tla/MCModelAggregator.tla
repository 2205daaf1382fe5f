-------------------------- MODULE MCModelAggregator --------------------------
(***************************************************************************)
(* TLC instances of ModelAggregator: two models, the first limited to one  *)
(* slot (as the Qwen3.8 entry of MODEL_CONCURRENCY_LIMITS limits its model *)
(* below the shared limit), and three clients for two slots.               *)
(***************************************************************************)
EXTENDS ModelAggregator, TLC

CONSTANTS c1, c2, c3, m1, m2

MCLimits == (m1 :> 1)
=============================================================================
