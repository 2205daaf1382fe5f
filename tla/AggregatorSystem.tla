--------------------------- MODULE AggregatorSystem ---------------------------
(***************************************************************************)
(* The aggregator process: discovery and chat in one event loop.  They     *)
(* share _model_backends: discovery (ModelDiscovery) replaces it,          *)
(* proxy_chat_completions (ModelAggregator) looks a model up in it.  A     *)
(* restart of the pod loses the memory of both while the cluster, and what *)
(* the backends answer, stay.                                              *)
(***************************************************************************)
EXTENDS ModelDiscovery

CONSTANTS Clients, Capacity, Limits, NoModel

VARIABLES phase, model, streamed, upstream, gone, stalled, finished, inflight,
          model_inflight

\* No request is served before lifespan has finished its first refresh.
Ready == IF serving THEN DOMAIN model_backends ELSE {}

Chat == INSTANCE ModelAggregator WITH ready <- Ready

chatVars == <<phase, model, streamed, upstream, gone, stalled, finished, inflight,
              model_inflight>>
systemVars == <<vars, chatVars>>

SystemInit == Init /\ Chat!Init

Discover == Next /\ UNCHANGED chatVars
Converse == (\E c \in Clients : Chat!ClientStep(c)) /\ UNCHANGED vars

Restart ==
  /\ Chat!Restart
  /\ stage' = "listing" /\ pending' = {} /\ timer' = 0
  /\ results' = [s \in Services |-> {}]
  /\ cache' = {} /\ model_backends' = NoRoutes /\ success' = FALSE /\ age' = 0
  /\ serving' = FALSE
  /\ heard' = [s \in Services |-> 0] /\ shown' = NoRoutes /\ disturbed' = FALSE
  /\ UNCHANGED environment

SystemNext == Discover \/ Converse \/ Restart
SystemSpec == SystemInit /\ [][SystemNext]_systemVars

-----------------------------------------------------------------------------
(* Properties.                                                             *)

\* A fetch of this cycle has taken longer than FetchBound: a backend that
\* accepts /v1/models and does not answer holds up the gather.
HeldUp == stage = "fetching" /\ timer > FetchBound

\* A slot is given only for a model of the catalog that GET /v1/models answers
\* with 200 at that moment ("the same live catalog mapping"), over failed
\* listings, restarts and changes between a listing and its answers.  Chat
\* looks at no clock: it goes on with a catalog that has become a 503 in one
\* case only, while a backend holds up the cycle.
AdmitsOnlyServed ==
  [][\A c \in Clients :
       (phase[c] = "idle" /\ phase'[c] = "sending") =>
         model'[c] \in cache /\ (CatalogAnswers \/ (serving /\ success /\ HeldUp))]_systemVars
=============================================================================
