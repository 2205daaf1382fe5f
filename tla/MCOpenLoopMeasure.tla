-------------------------- MODULE MCOpenLoopMeasure --------------------------
(***************************************************************************)
(* TLC instances of OpenLoopMeasure.                                       *)
(***************************************************************************)
EXTENDS OpenLoopMeasure
=============================================================================
