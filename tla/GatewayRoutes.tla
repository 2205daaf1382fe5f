----------------------------- MODULE GatewayRoutes -----------------------------
(***************************************************************************)
(* Deployments and the gateway's routing table: deploy_model.sh changes a  *)
(* workload and then runs gen_aigwroute.py --apply, which discovers the    *)
(* deployed workloads, renders one file of gateway objects, applies it and *)
(* prunes what it does not know.                                           *)
(*                                                                         *)
(* Every operator runs the two scripts from a checkout of his own.  Each   *)
(* call to the API server is a step, can fail, and interleaves with those  *)
(* of other operators; there is no lock.                                   *)
(***************************************************************************)
EXTENDS Naturals, FiniteSets

CONSTANTS Operators,
          Workloads,
          Framework,  \* of a workload: "dynamo", "llm-d" or "plain"
          Served,     \* its --served-model-name
          Slug,       \* of a served name: the name of its gateway objects
          MaxRuns,    \* bound: how often somebody runs the script
          NoWorkload

ASSUME GatewayAssumption ==
  /\ Framework \in [Workloads -> {"dynamo", "llm-d", "plain"}]
  /\ DOMAIN Served = Workloads
  /\ \A w \in Workloads : Served[w] \in DOMAIN Slug
  /\ NoWorkload \notin Workloads /\ MaxRuns \in Nat

VARIABLES
  deployed,  \* the workloads that is_servable accepts
  objects,   \* per managed kind and slug, the workload it was rendered for
  route,     \* the rules of the AIGatewayRoute: the served names in it
  pc,        \* per operator, the step of his run
  teardown,  \* his run is a teardown: --allow-empty
  models,    \* what his run has discovered
  kind,      \* the position in PRUNABLE
  doomed,    \* the objects of that kind listed for deletion
  alone,     \* nobody else has run a script since his run began
  runs       \* history: the number of runs begun

gateway == <<objects, route>>
run == <<pc, teardown, models, kind, doomed>>
vars == <<deployed, gateway, run, alone, runs>>

Names == {Served[w] : w \in Workloads}
Slugs == {Slug[n] : n \in Names}
SlugOf(w) == Slug[Served[w]]
PRUNABLE == <<"service", "backend", "aiservicebackend">>
Kinds == {"service", "backend", "aiservicebackend"}

\* The managed objects of a file rendered for ms.  A Service is only emitted
\* for llm-d; discovery has checked that a slug has one owner.
Rendered(k, ms) == {w \in ms : k = "service" => Framework[w] = "llm-d"}
Owner(s, ms) == CHOOSE w \in ms : SlugOf(w) = s

\* kubectl apply of the given objects (pairs of kind and workload).
Applied(pairs) ==
  [k \in Kinds |-> [s \in Slugs |->
     LET owners == {w \in Workloads : <<k, w>> \in pairs /\ SlugOf(w) = s}
     IN IF owners = {} THEN objects[k][s] ELSE Owner(s, owners)]]
Pairs(ms) == {p \in Kinds \X ms : p[2] \in Rendered(p[1], ms)}

Idle == {"idle", "done", "failed"}

Init ==
  /\ deployed = {}
  /\ objects = [k \in Kinds |-> [s \in Slugs |-> NoWorkload]]
  /\ route = {}
  /\ pc = [o \in Operators |-> "idle"]
  /\ teardown = [o \in Operators |-> FALSE]
  /\ models = [o \in Operators |-> {}]
  /\ kind = [o \in Operators |-> 1]
  /\ doomed = [o \in Operators |-> {}]
  /\ alone = [o \in Operators |-> FALSE]
  /\ runs = 0

-----------------------------------------------------------------------------
Goto(o, p) == pc' = [pc EXCEPT ![o] = p]

\* set -e, sys.exit: any failing call ends the run.
Fail(o) ==
  /\ pc[o] \notin Idle
  /\ Goto(o, "failed")
  /\ UNCHANGED <<deployed, gateway, teardown, models, kind, doomed, alone, runs>>

\* deploy_model.sh: helmfile or kubectl, for the better or (~ok) the worse.
Change(o) ==
  /\ pc[o] \in Idle /\ runs < MaxRuns
  /\ \E w \in Workloads, down \in BOOLEAN, ok \in BOOLEAN :
       /\ Goto(o, IF ok THEN "dynamo" ELSE "failed")
       /\ teardown' = [teardown EXCEPT ![o] = down]
       /\ deployed' \in {IF down THEN deployed \ {w} ELSE deployed \union {w}}
                          \union (IF ok THEN {} ELSE {deployed})
  /\ models' = [models EXCEPT ![o] = {}]
  /\ kind' = [kind EXCEPT ![o] = 1]
  /\ doomed' = [doomed EXCEPT ![o] = {}]
  /\ alone' = [p \in Operators |-> p = o /\ \A q \in Operators \ {o} : pc[q] \in Idle]
  /\ runs' = runs + 1
  /\ UNCHANGED gateway

\* is_servable goes by declared intent, not by readiness.
Servable(f) == {w \in deployed : Framework[w] = f}

\* discover_dynamo, discover_llmd and discover_plain are separate lists.
Discover(o, f, next) ==
  /\ pc[o] = f
  /\ Goto(o, next)
  /\ models' = [models EXCEPT ![o] = @ \union Servable(f)]
  /\ UNCHANGED <<deployed, gateway, teardown, kind, doomed, alone, runs>>

DiscoverAll(o) ==
  \/ Discover(o, "dynamo", "llm-d") \/ Discover(o, "llm-d", "plain")
  \/ Discover(o, "plain", "check")

\* Two workloads with one name, or two names with one slug.
Ambiguous(ms) == \E v, w \in ms : v # w /\ SlugOf(v) = SlugOf(w)

Check_AllowsEmpty(o) ==
  /\ pc[o] = "check"
  /\ ~ Ambiguous(models[o])
  /\ Goto(o, "objects")
  /\ UNCHANGED <<deployed, gateway, teardown, models, kind, doomed, alone, runs>>

\* Nothing found is an error unless it is a teardown; else the file is written.
Check(o) ==
  /\ pc[o] = "check"
  /\ models[o] # {} \/ teardown[o]
  /\ ~ Ambiguous(models[o])
  /\ Goto(o, "objects")
  /\ UNCHANGED <<deployed, gateway, teardown, models, kind, doomed, alone, runs>>

\* kubectl apply -f, in the order of the file: the objects of each model,
\* then the route.  It goes on after an object that fails, so a run that fails
\* here has applied any part of the file.
ApplyObjects(o) ==
  /\ pc[o] = "objects"
  /\ \/ /\ objects' = Applied(Pairs(models[o]))
        /\ Goto(o, "route") /\ UNCHANGED route
     \/ /\ \E part \in SUBSET Pairs(models[o]) : objects' = Applied(part)
        /\ route' \in {route, {Served[w] : w \in models[o]}}
        /\ Goto(o, "failed")
  /\ UNCHANGED <<deployed, teardown, models, kind, doomed, alone, runs>>

ApplyRoute(o) ==
  /\ pc[o] = "route"
  /\ route' = {Served[w] : w \in models[o]}
  /\ Goto(o, "list")
  /\ UNCHANGED <<deployed, objects, teardown, models, kind, doomed, alone, runs>>

\* apply_and_prune lists the managed objects of one kind ...
List(o) ==
  /\ pc[o] = "list"
  /\ LET existing == {s \in Slugs : objects[PRUNABLE[kind[o]]][s] # NoWorkload}
         desired == {SlugOf(w) : w \in models[o]}
     IN doomed' = [doomed EXCEPT ![o] = existing \ desired]
  /\ Goto(o, "delete")
  /\ UNCHANGED <<deployed, gateway, teardown, models, kind, alone, runs>>

\* ... and deletes those it does not want, one by one; that one is gone
\* already is an error.
Delete(o) ==
  /\ pc[o] = "delete"
  /\ \E s \in doomed[o] :
       IF objects[PRUNABLE[kind[o]]][s] = NoWorkload
       THEN Goto(o, "failed") /\ UNCHANGED <<objects, doomed>>
       ELSE /\ objects' = [objects EXCEPT ![PRUNABLE[kind[o]]][s] = NoWorkload]
            /\ doomed' = [doomed EXCEPT ![o] = @ \ {s}]
            /\ UNCHANGED pc
  /\ UNCHANGED <<deployed, route, teardown, models, kind, alone, runs>>

NextKind_StopsEarly(o) ==
  /\ pc[o] = "delete" /\ doomed[o] = {}
  /\ IF kind[o] < 2
     THEN kind' = [kind EXCEPT ![o] = @ + 1] /\ Goto(o, "list")
     ELSE UNCHANGED kind /\ Goto(o, "done")
  /\ UNCHANGED <<deployed, gateway, teardown, models, doomed, alone, runs>>

NextKind(o) ==
  /\ pc[o] = "delete" /\ doomed[o] = {}
  /\ IF kind[o] < 3
     THEN kind' = [kind EXCEPT ![o] = @ + 1] /\ Goto(o, "list")
     ELSE UNCHANGED kind /\ Goto(o, "done")
  /\ UNCHANGED <<deployed, gateway, teardown, models, doomed, alone, runs>>

Generate(o) ==
  \/ DiscoverAll(o) \/ Check(o) \/ ApplyObjects(o) \/ ApplyRoute(o)
  \/ List(o) \/ Delete(o) \/ NextKind(o)

Next == \E o \in Operators : Change(o) \/ Generate(o) \/ Fail(o)
Spec == Init /\ [][Next]_vars

-----------------------------------------------------------------------------
(* Properties.                                                             *)

TypeOK ==
  /\ deployed \subseteq Workloads /\ route \subseteq Names
  /\ objects \in [Kinds -> [Slugs -> Workloads \union {NoWorkload}]]
  /\ pc \in [Operators -> Idle \union {"dynamo", "llm-d", "plain", "check", "objects",
                                       "route", "list", "delete"}]
  /\ teardown \in [Operators -> BOOLEAN] /\ alone \in [Operators -> BOOLEAN]
  /\ models \in [Operators -> SUBSET Workloads] /\ doomed \in [Operators -> SUBSET Slugs]
  /\ kind \in [Operators -> 1..3] /\ runs \in 0..MaxRuns

Finished(o) == pc[o] = "done" /\ alone[o]

\* "running this is sufficient to get a model live ..., and tearing it down is
\* sufficient to get it un-advertised": whatever failed runs and runs at the
\* same time have left behind, one run that ends and that nobody disturbed
\* makes the table that of the deployed workloads, each rule leading to the
\* workload that serves the name; and the state keeps its type.
RunRepairs ==
  TypeOK /\ \A o \in Operators : Finished(o) =>
    /\ route = {Served[w] : w \in deployed}
    /\ \A w \in deployed : \A k \in Kinds :
         w \in Rendered(k, deployed) => objects[k][SlugOf(w)] = w
    /\ \A k \in Kinds, s \in Slugs :
         objects[k][s] # NoWorkload => \E w \in deployed : SlugOf(w) = s

\* "an empty result ... during a deploy ... must be a hard error": only a
\* teardown takes the last model off the gateway, also when others tear down
\* what a deployment has just made.
EmptiedByTeardown ==
  [][ route # {} /\ route' = {} =>
        \E o \in Operators : teardown[o] /\ pc[o] \in {"objects", "route"} /\ pc'[o] # pc[o] ]_vars

\* "Anything carrying the managed-by label in one of these kinds but absent
\* from the freshly generated file belonged to a model that is gone, and is
\* deleted."
\* Not a Service whose model has moved from llm-d to another framework: its
\* slug is still wanted.
PrunesAbsent ==
  \A o \in Operators : Finished(o) =>
    \A k \in Kinds, s \in Slugs :
      objects[k][s] # NoWorkload => \E w \in Rendered(k, deployed) : SlugOf(w) = s
=============================================================================
