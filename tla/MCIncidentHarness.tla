--------------------------- MODULE MCIncidentHarness ---------------------------
(***************************************************************************)
(* TLC instances of IncidentHarness.                                       *)
(***************************************************************************)
EXTENDS IncidentHarness

CONSTANTS first, second
TwoWebhooks == {first, second}
OneWebhook == {first}
=============================================================================
