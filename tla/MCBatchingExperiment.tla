------------------------- MODULE MCBatchingExperiment -------------------------
(***************************************************************************)
(* TLC instances of BatchingExperiment.                                    *)
(***************************************************************************)
EXTENDS BatchingExperiment

TwoArms == <<1, 2>>
ResumeArms == <<2, 2, 1>>
=============================================================================
