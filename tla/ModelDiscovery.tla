---------------------------- MODULE ModelDiscovery ----------------------------
(***************************************************************************)
(* The discovery side of the model aggregator (aggregator.py): the         *)
(* background task that lists the Services of the namespace, asks each     *)
(* serving one for its model IDs, and replaces the catalog and the chat    *)
(* routes; and the catalog endpoint that judges how old they are.          *)
(*                                                                         *)
(* Services are numbered in the order of their URLs, which is the order    *)
(* refresh_cache sorts them in.  Time passes in ticks; the clock cannot    *)
(* outrun a timer or a timeout the code sets.  What the code leaves        *)
(* unbounded - the read timeout of the backend client is None - the clock  *)
(* may outrun: a backend that accepts the connection and never answers     *)
(* holds the gather open.                                                  *)
(*                                                                         *)
(* X_Fault is X with a plausible bug, see ModelAggregator.                 *)
(***************************************************************************)
EXTENDS Integers, FiniteSets, FiniteSetsExt

CONSTANTS Services,     \* Service names, as the ranks of their URLs
          Models,       \* model IDs
          Allowlist,    \* MODEL_BACKEND_SERVICES; empty means automatic
          Manifests,    \* the Service manifests that may be applied
          Absent,       \* not a manifest: the Service does not exist
          Interval,     \* REFRESH_INTERVAL, in ticks
          KubeBound,    \* ticks within which the Services call ends (timeout=5.0)
          FetchBound,   \* ticks within which a backend that answers does so
          MaxChanges    \* bound: how often the cluster and the backends change

ASSUME ServicesAssumption == IsFiniteSet(Services) /\ Services = 1..Cardinality(Services)
ASSUME AbsentAssumption == Absent \notin Manifests
\* A prompt cycle is shorter than the sleep: 28 seconds leave room for it.
ASSUME TimesAssumption ==
  /\ Interval \in Nat \ {0} /\ KubeBound \in Nat /\ FetchBound \in Nat
  /\ KubeBound + FetchBound <= Interval
ASSUME ChangesAssumption == MaxChanges \in Nat

VARIABLES stage,            \* where the refresh is suspended
          pending,          \* Services whose fetch_live_models has not returned
          results,          \* results[s]: the model IDs fetched in this cycle
          cache,            \* the IDs of _cache
          model_backends,   \* _model_backends, a partial function
          success,          \* _last_success is not zero
          age,              \* ticks since _last_success
          timer,            \* ticks spent in this stage
          serving,          \* lifespan has yielded: requests are answered
          cluster,          \* cluster[s]: the manifest of s, or Absent
          answers,          \* answers[s]: what s answers on /v1/models
          kubeUp,           \* the Services call would succeed
          changes,          \* how often the environment has changed
          heard,            \* heard[s]: ticks since results[s] was answered
          shown,            \* shown[m]: ticks since the answer behind the route of m
          disturbed         \* a Services call failed, or a fetch outran FetchBound

refresh == <<stage, pending, results, timer>>
published == <<cache, model_backends, success, age>>
environment == <<cluster, answers, kubeUp, changes>>
history == <<heard, shown, disturbed>>
vars == <<refresh, published, serving, environment, history>>

Error == {"error"}     \* refused, not 2xx, or not a model list
Hang == {"hang"}       \* accepts the request and never answers
Stale_OneInterval == Interval
Stale == 2 * Interval
NoRoutes == [m \in {} |-> 0]

Stages == {"listing", "fetching", "sleeping"}
AnswerSet == (SUBSET Models) \union {Error, Hang}

Init ==
  /\ stage = "listing" /\ pending = {} /\ timer = 0
  /\ results = [s \in Services |-> {}]
  /\ cache = {} /\ model_backends = NoRoutes /\ success = FALSE /\ age = 0
  /\ serving = FALSE
  /\ cluster \in [Services -> Manifests \union {Absent}]
  /\ answers \in [Services -> AnswerSet]
  /\ kubeUp \in BOOLEAN /\ changes = 0
  /\ heard = [s \in Services |-> 0] /\ shown = NoRoutes /\ disturbed = FALSE

-----------------------------------------------------------------------------
\* service_url(s) is not None.
ServiceUrl(s) ==
  /\ cluster[s] # Absent
  /\ Allowlist # {} => s \in Allowlist
  /\ \/ s \in Allowlist
     \/ cluster[s].labelled
     \/ cluster[s].selector \in {"llm-d decode", "dynamo frontend"}
  /\ ~cluster[s].external
  /\ cluster[s].selector # "none"
  /\ cluster[s].port \in {"http", "8000"}

LiveModels_Unchecked(s) == IF cluster[s] = Absent THEN {} ELSE answers[s]

\* What fetch_live_models(s) returns; a Service without endpoints fails.
LiveModels(s) ==
  IF cluster[s] = Absent \/ answers[s] = Error THEN {} ELSE answers[s]
Hung(s) == cluster[s] # Absent /\ answers[s] = Hang

\* The dict comprehension over the sorted URLs: the last one wins.
Routes(fetched) ==
  [m \in UNION {fetched[s] : s \in Services} |->
     Max({s \in Services : m \in fetched[s]})]

Sleep == stage' = "sleeping" /\ timer' = 0

Listed_NewOnly ==
  /\ stage = "listing" /\ kubeUp
  /\ stage' = "fetching" /\ timer' = 0
  /\ pending' = {s \in Services : ServiceUrl(s) /\ results[s] = {}}
  /\ UNCHANGED <<results, heard, shown, published, serving, environment, disturbed>>

\* The Services call of refresh_cache answered; every fetch starts.
Listed ==
  /\ stage = "listing" /\ kubeUp
  /\ stage' = "fetching" /\ timer' = 0
  /\ pending' = {s \in Services : ServiceUrl(s)}
  /\ results' = [s \in Services |-> {}]
  /\ heard' = [s \in Services |-> 0]
  /\ UNCHANGED <<shown, published, serving, environment, disturbed>>

ListFailed_KeepsRoutes ==
  /\ stage = "listing" /\ ~kubeUp
  /\ Sleep
  /\ cache' = {} /\ success' = FALSE /\ age' = 0
  /\ serving' = TRUE
  /\ disturbed' = TRUE
  /\ UNCHANGED <<pending, results, model_backends, environment, heard, shown>>

\* The token is unreadable, or the Services call fails or times out: the
\* except clause clears all three.
ListFailed ==
  /\ stage = "listing" /\ ~kubeUp
  /\ Sleep
  /\ cache' = {} /\ model_backends' = NoRoutes /\ success' = FALSE /\ age' = 0
  /\ serving' = TRUE
  /\ shown' = NoRoutes /\ disturbed' = TRUE
  /\ UNCHANGED <<pending, results, environment, heard>>

\* fetch_live_models(s) returns, with no IDs if the backend is unavailable.
Fetched(s) ==
  /\ stage = "fetching" /\ s \in pending /\ ~Hung(s)
  /\ pending' = pending \ {s}
  /\ results' = [results EXCEPT ![s] = LiveModels(s)]
  /\ heard' = [heard EXCEPT ![s] = 0]
  /\ UNCHANGED <<stage, timer, shown, published, serving, environment, disturbed>>

Publish_Merges ==
  /\ stage = "fetching" /\ pending = {}
  /\ Sleep
  /\ model_backends' = [m \in DOMAIN model_backends \union DOMAIN Routes(results) |->
                          IF m \in DOMAIN Routes(results) THEN Routes(results)[m]
                                                          ELSE model_backends[m]]
  /\ cache' = DOMAIN model_backends'
  /\ success' = TRUE /\ age' = 0
  /\ serving' = TRUE
  /\ shown' = [m \in cache' |-> heard[model_backends'[m]]]
  /\ UNCHANGED <<pending, results, environment, heard, disturbed>>

\* A success that is not noted: _last_success stays what it was.
Publish_KeepsTime ==
  /\ stage = "fetching" /\ pending = {}
  /\ Sleep
  /\ model_backends' = Routes(results)
  /\ cache' = UNION {results[s] : s \in Services}
  /\ success' = TRUE /\ age' = IF success THEN age ELSE 0
  /\ serving' = TRUE
  /\ shown' = [m \in DOMAIN Routes(results) |-> heard[Routes(results)[m]]]
  /\ UNCHANGED <<pending, results, environment, heard, disturbed>>

\* gather has all results: routes, catalog and time of success are set
\* without a suspension in between.
Publish ==
  /\ stage = "fetching" /\ pending = {}
  /\ Sleep
  /\ model_backends' = Routes(results)
  /\ cache' = UNION {results[s] : s \in Services}
  /\ success' = TRUE /\ age' = 0
  /\ serving' = TRUE
  /\ shown' = [m \in DOMAIN Routes(results) |-> heard[Routes(results)[m]]]
  /\ UNCHANGED <<pending, results, environment, heard, disturbed>>

\* background_refresh wakes up.
Wake ==
  /\ stage = "sleeping" /\ timer = Interval
  /\ stage' = "listing" /\ timer' = 0
  /\ UNCHANGED <<pending, results, published, serving, environment, history>>

Capped(n, bound) == IF n < bound THEN n + 1 ELSE n

\* A tick.  It waits for what is due now; only a hung backend lets it pass
\* FetchBound.  Counters stop once no comparison can tell them apart.
Tick ==
  /\ CASE stage = "listing"  -> timer < KubeBound
       [] stage = "sleeping" -> timer < Interval
       [] stage = "fetching" -> /\ pending # {}
                                /\ timer < FetchBound \/ \E s \in pending : Hung(s)
  /\ timer' = Capped(timer, Interval + FetchBound)
  /\ age' = Capped(age, Stale + 1)
  /\ heard' = [s \in Services |-> Capped(heard[s], Stale + FetchBound + 1)]
  /\ shown' = [m \in DOMAIN shown |-> Capped(shown[m], Stale + FetchBound + 1)]
  /\ disturbed' = (disturbed \/ (stage = "fetching" /\ timer >= FetchBound))
  /\ UNCHANGED <<stage, pending, results, cache, model_backends, success, serving,
                 environment>>

-----------------------------------------------------------------------------
(* The cluster: Services are applied and deleted, backends start, fail,    *)
(* hang and recover, the API server goes and comes back.                   *)

Change == changes < MaxChanges /\ changes' = changes + 1

ServiceApplied(s) ==
  /\ Change
  /\ \E manifest \in Manifests \union {Absent} :
       cluster[s] # manifest /\ cluster' = [cluster EXCEPT ![s] = manifest]
  /\ UNCHANGED <<refresh, published, serving, answers, kubeUp, history>>

BackendChanged(s) ==
  /\ Change
  /\ \E answer \in AnswerSet :
       answers[s] # answer /\ answers' = [answers EXCEPT ![s] = answer]
  /\ UNCHANGED <<refresh, published, serving, cluster, kubeUp, history>>

KubeChanged ==
  /\ Change /\ kubeUp' = ~kubeUp
  /\ UNCHANGED <<refresh, published, serving, cluster, answers, history>>

RefreshStep == Listed \/ ListFailed \/ (\E s \in Services : Fetched(s)) \/ Publish \/ Wake
EnvironmentStep ==
  KubeChanged \/ \E s \in Services : ServiceApplied(s) \/ BackendChanged(s)

Next == RefreshStep \/ Tick \/ EnvironmentStep
Spec == Init /\ [][Next]_vars

\* The event loop runs the refresh task when it can run, the API server
\* answers or times out, time passes.  A hung backend owes nothing.
FairSpec == Spec /\ WF_vars(RefreshStep) /\ WF_vars(Tick)

-----------------------------------------------------------------------------
(* The endpoints, as far as they depend on discovery.                      *)

\* GET /v1/models answers 200 with _cache; otherwise 503.
CatalogAnswers == serving /\ success /\ age <= Stale

\* A chat request for m is not answered 404.
ChatReady(m) == serving /\ m \in DOMAIN model_backends

-----------------------------------------------------------------------------
(* Properties.                                                             *)

TypeOK ==
  /\ stage \in Stages /\ pending \subseteq Services
  /\ results \in [Services -> SUBSET Models]
  /\ cache \subseteq Models
  /\ DOMAIN model_backends \subseteq Models
  /\ model_backends \in [DOMAIN model_backends -> Services]
  /\ success \in BOOLEAN /\ serving \in BOOLEAN /\ kubeUp \in BOOLEAN
  /\ disturbed \in BOOLEAN
  /\ age \in 0..(Stale + 1) /\ timer \in 0..(Interval + FetchBound)
  /\ cluster \in [Services -> Manifests \union {Absent}]
  /\ answers \in [Services -> AnswerSet]
  /\ changes \in 0..MaxChanges
  /\ heard \in [Services -> 0..(Stale + FetchBound + 1)]
  /\ DOMAIN shown = DOMAIN model_backends
  /\ shown \in [DOMAIN shown -> 0..(Stale + FetchBound + 1)]

\* The catalog advertises exactly the models that chat can route, and with
\* no successful discovery behind them there are neither: refresh_cache
\* replaces or clears the three together in every cycle.
CatalogIsRoutable ==
  /\ cache = DOMAIN model_backends
  /\ ~success => cache = {}

\* As long as the Services call works and no backend outruns FetchBound, a
\* served catalog never turns into a 503: the staleness limit of two
\* intervals leaves room for a whole cycle after the sleep.
AvailableUndisturbed == (serving /\ ~disturbed) => CatalogAnswers

\* A model ID in a catalog answered 200 was reported by its backend at most
\* two intervals and one fetch ago, unless a fetch was held up: _last_success
\* is taken when the slowest answer is in, not when the first one is.
FreshUndisturbed ==
  (CatalogAnswers /\ ~disturbed) => \A m \in cache : shown[m] <= Stale + FetchBound

\* "Unavailable or removed backends disappear on the next refresh; duplicate
\* model IDs merge", new ones appear, and a failed listing leaves nothing:
\* once the cluster is quiet, the routes become and stay what the backends
\* report now, unless a hung backend holds the cycle.
CurrentRoutes ==
  IF kubeUp
  THEN Routes([s \in Services |-> IF ServiceUrl(s) THEN LiveModels(s) ELSE {}])
  ELSE NoRoutes
Stuck == stage = "fetching" /\ \E s \in pending : Hung(s)
RoutesConverge == <>[](Stuck \/ model_backends = CurrentRoutes)

\* "Every 28 seconds the aggregator lists Services in its own namespace":
\* the listing happens again and again, whatever the backends do.
ListsForever == []<>(stage = "listing")
=============================================================================
