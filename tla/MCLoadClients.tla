--------------------------- MODULE MCLoadClients ----------------------------
(***************************************************************************)
(* Instance of LoadClients: every client against every kind of server.     *)
(***************************************************************************)
EXTENDS LoadClients

MCLanes == 1..4
MCClients == DOMAIN Traits
MCServers == {"keeps", "over", "queues", "bare"}
=============================================================================
