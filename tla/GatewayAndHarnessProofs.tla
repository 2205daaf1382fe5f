----------------------- MODULE GatewayAndHarnessProofs -----------------------
(***************************************************************************)
(* Theorems about GatewayRoutes, for any operators and any workloads, and  *)
(* about IncidentHarness, for any webhooks and number of pods.             *)
(*                                                                         *)
(* RunRepairs speaks of a run that is over.  What makes it inductive is    *)
(* what an undisturbed run has achieved at each of its steps: Repaired.    *)
(* Nothing is claimed of a run that somebody disturbs, or that fails.      *)
(*                                                                         *)
(* That no alert vanishes is not inductive either: the end of a triage     *)
(* drops the head of a queue, whose Slack message must have come before,   *)
(* and a webhook fills a queue that must have been empty and idle.         *)
(***************************************************************************)
EXTENDS GatewayRoutes, IncidentHarness, SequenceTheorems, TLAPS

\* The kinds that a run has pruned so far, by their position in PRUNABLE.
Pruned(j) ==
  \A s \in Slugs : objects[PRUNABLE[j]][s] # NoWorkload => \E w \in deployed : SlugOf(w) = s

\* Everything that is deployed has its objects.
Provided ==
  \A w \in deployed : \A k \in Kinds : w \in Rendered(k, deployed) => objects[k][SlugOf(w)] = w

\* The steps of a run after its discovery, in their order.
Discovered(o) == pc[o] \in {"check", "objects", "route", "list", "delete", "done"}
Checked(o) == pc[o] \in {"objects", "route", "list", "delete", "done"}
HasApplied(o) == pc[o] \in {"route", "list", "delete", "done"}
HasRouted(o) == pc[o] \in {"list", "delete", "done"}

Desired(o) == {SlugOf(w) : w \in models[o]}

\* What the run of o has achieved, if nobody else has run a script meanwhile.
Repaired(o) ==
  /\ pc[o] \in {"dynamo", "llm-d", "plain", "check", "objects", "route"} => kind[o] = 1
  /\ pc[o] = "dynamo" => models[o] = {}
  /\ pc[o] = "llm-d" => models[o] = Servable("dynamo")
  /\ pc[o] = "plain" => models[o] = Servable("dynamo") \cup Servable("llm-d")
  /\ Discovered(o) => models[o] = deployed
  /\ Checked(o) => ~ Ambiguous(models[o])
  /\ HasApplied(o) => Provided
  /\ HasRouted(o) => /\ route = {Served[w] : w \in deployed}
                     /\ \A j \in 1..3 : j < kind[o] => Pruned(j)
  /\ pc[o] = "delete" =>
       /\ doomed[o] \cap Desired(o) = {}
       /\ \A s \in Slugs \ doomed[o] : objects[PRUNABLE[kind[o]]][s] # NoWorkload => s \in Desired(o)
  /\ pc[o] = "done" => \A j \in 1..3 : Pruned(j)

\* An undisturbed run is the only one under way.
Undisturbed(o) ==
  /\ \A q \in Operators \ {o} : pc[q] \in Idle
  /\ Repaired(o)

\* A run that has discovered nothing and is past the check is a teardown.
Justified(o) == pc[o] \in {"objects", "route"} => models[o] # {} \/ teardown[o]

Inv ==
  /\ TypeOK
  /\ \A o \in Operators : Justified(o)
  /\ \A o \in Operators : alone[o] => Undisturbed(o)

-----------------------------------------------------------------------------

LEMMA Slugged == \A w \in Workloads : SlugOf(w) \in Slugs
BY GatewayAssumption DEF SlugOf, Slugs, Names

LEMMA ServedNamed == \A ms \in SUBSET Workloads : {Served[w] : w \in ms} \subseteq Names
BY DEF Names

LEMMA Positions == /\ \A j \in 1..3 : PRUNABLE[j] \in Kinds
                   /\ \A k \in Kinds : \E j \in 1..3 : PRUNABLE[j] = k
BY DEF PRUNABLE, Kinds

\* An apply of any part of a file keeps the type of the objects.
LEMMA AppliedTyped ==
  ASSUME TypeOK, NEW pairs
  PROVE  Applied(pairs) \in [Kinds -> [Slugs -> Workloads \cup {NoWorkload}]]
<1> SUFFICES ASSUME NEW k \in Kinds, NEW s \in Slugs
             PROVE  LET owners == {w \in Workloads : <<k, w>> \in pairs /\ SlugOf(w) = s}
                    IN (IF owners = {} THEN objects[k][s] ELSE Owner(s, owners))
                         \in Workloads \cup {NoWorkload}
  BY DEF Applied
<1> DEFINE owners == {w \in Workloads : <<k, w>> \in pairs /\ SlugOf(w) = s}
<1>1. objects[k][s] \in Workloads \cup {NoWorkload}
  BY DEF TypeOK
<1>2. ASSUME owners # {} PROVE Owner(s, owners) \in owners
  <2>1. \E w \in owners : SlugOf(w) = s
    BY <1>2
  <2> QED
    BY <2>1 DEF Owner
<1> QED
  BY <1>1, <1>2

\* An apply of the whole file of unambiguous workloads provides for all of them.
LEMMA AppliedProvides ==
  ASSUME TypeOK, NEW ms \in SUBSET Workloads, ~ Ambiguous(ms),
         NEW k \in Kinds, NEW w \in Rendered(k, ms)
  PROVE  Applied(Pairs(ms))[k][SlugOf(w)] = w
<1> DEFINE s == SlugOf(w)
           owners == {v \in Workloads : <<k, v>> \in Pairs(ms) /\ SlugOf(v) = s}
<1>1. w \in Workloads /\ w \in ms /\ s \in Slugs
  BY Slugged DEF Rendered
<1>2. <<k, w>> \in Pairs(ms)
  BY <1>1 DEF Pairs
<1>3. \A v \in owners : v \in ms /\ SlugOf(v) = s
  BY DEF Pairs
<1>4. owners = {w}
  BY <1>1, <1>2, <1>3 DEF Ambiguous
<1>5. Owner(s, owners) = w
  BY <1>4 DEF Owner
<1>6. Applied(Pairs(ms))[k][s] = IF owners = {} THEN objects[k][s] ELSE Owner(s, owners)
  BY <1>1 DEF Applied
<1> QED
  BY <1>4, <1>5, <1>6

\* A step of a run: it disturbs nobody, since an undisturbed run is alone.
LEMMA OwnStep ==
  ASSUME Inv, NEW o \in Operators, pc[o] \notin Idle, TypeOK', UNCHANGED <<alone, teardown>>,
         NEW p, pc' = [pc EXCEPT ![o] = p],
         \A q \in Operators \ {o} : models'[q] = models[q],
         Justified(o)', alone[o] => Repaired(o)'
  PROVE  Inv'
<1>1. \A q \in Operators \ {o} : pc'[q] = pc[q]
  BY DEF Inv, TypeOK
<1>2. \A q \in Operators : Justified(q)'
  BY <1>1 DEF Inv, Justified
<1>3. ASSUME NEW q \in Operators, alone[q] PROVE Undisturbed(q)'
  <2>1. q = o
    BY <1>3 DEF Inv, Undisturbed
  <2> QED
    BY <1>1, <1>3, <2>1 DEF Inv, Undisturbed
<1> QED
  BY <1>2, <1>3 DEF Inv

LEMMA ChangeInv ==
  ASSUME Inv, NEW o \in Operators, Change(o)
  PROVE  Inv'
<1>1. PICK w \in Workloads, down \in BOOLEAN, ok \in BOOLEAN :
        /\ Goto(o, IF ok THEN "dynamo" ELSE "failed")
        /\ teardown' = [teardown EXCEPT ![o] = down]
        /\ deployed' \in {IF down THEN deployed \ {w} ELSE deployed \union {w}}
                           \union (IF ok THEN {} ELSE {deployed})
  BY DEF Change
<1>2. TypeOK'
  <2>1. runs < MaxRuns /\ runs' = runs + 1 /\ runs' \in 0..MaxRuns
    BY GatewayAssumption DEF Change, Inv, TypeOK
  <2>2. deployed' \subseteq Workloads
    BY <1>1 DEF Inv, TypeOK
  <2>3. /\ pc' \in [Operators -> Idle \union {"dynamo", "llm-d", "plain", "check", "objects",
                                              "route", "list", "delete"}]
        /\ teardown' \in [Operators -> BOOLEAN]
    BY <1>1 DEF Goto, Inv, TypeOK, Idle
  <2>4. /\ models' \in [Operators -> SUBSET Workloads] /\ kind' \in [Operators -> 1..3]
        /\ doomed' \in [Operators -> SUBSET Slugs] /\ alone' \in [Operators -> BOOLEAN]
    BY DEF Change, Inv, TypeOK
  <2> QED
    BY <2>1, <2>2, <2>3, <2>4 DEF Change, gateway, Inv, TypeOK
<1>3. pc'[o] \in {"dynamo", "failed"} /\ \A q \in Operators \ {o} : pc'[q] = pc[q]
  BY <1>1 DEF Goto, Inv, TypeOK
<1>4. \A q \in Operators : Justified(q)'
  <2>1. \A q \in Operators \ {o} : models'[q] = models[q] /\ teardown'[q] = teardown[q]
    BY <1>1 DEF Change, Inv, TypeOK
  <2> QED
    BY <1>3, <2>1 DEF Inv, Justified
<1>5. ASSUME NEW q \in Operators, alone'[q] PROVE Undisturbed(q)'
  <2>1. q = o /\ \A r \in Operators \ {o} : pc[r] \in Idle
    BY <1>5 DEF Change
  <2>2. models'[o] = {} /\ kind'[o] = 1
    BY DEF Change, Inv, TypeOK
  <2> QED
    BY <1>3, <2>1, <2>2
       DEF Undisturbed, Repaired, Discovered, Checked, HasApplied, HasRouted, Idle
<1> QED
  BY <1>2, <1>4, <1>5 DEF Inv

LEMMA FailInv ==
  ASSUME Inv, NEW o \in Operators, Fail(o)
  PROVE  Inv'
<1>1. pc' = [pc EXCEPT ![o] = "failed"] /\ pc'[o] = "failed"
  BY DEF Fail, Goto, Inv, TypeOK
<1>2. TypeOK'
  BY <1>1 DEF Fail, gateway, Inv, TypeOK, Idle
<1>3. Repaired(o)' /\ Justified(o)'
  BY <1>1 DEF Repaired, Justified, Discovered, Checked, HasApplied, HasRouted
<1> QED
  BY <1>1, <1>2, <1>3, OwnStep DEF Fail

LEMMA DiscoverInv ==
  ASSUME Inv, NEW o \in Operators, DiscoverAll(o)
  PROVE  Inv'
<1>1. PICK f \in {"dynamo", "llm-d", "plain"}, next \in {"llm-d", "plain", "check"} :
        /\ Discover(o, f, next)
        /\ <<f, next>> \in {<<"dynamo", "llm-d">>, <<"llm-d", "plain">>, <<"plain", "check">>}
  BY DEF DiscoverAll
<1>2. /\ pc[o] = f /\ pc' = [pc EXCEPT ![o] = next] /\ pc'[o] = next
      /\ models' = [models EXCEPT ![o] = @ \union Servable(f)]
      /\ models'[o] = models[o] \union Servable(f)
      /\ UNCHANGED <<deployed, gateway, teardown, kind, doomed, alone, runs>>
  BY <1>1 DEF Discover, Goto, Inv, TypeOK
<1>3. Servable(f) \subseteq Workloads
  BY DEF Servable, Inv, TypeOK
<1>4. TypeOK'
  <2>1. models' \in [Operators -> SUBSET Workloads]
    BY <1>2, <1>3 DEF Inv, TypeOK
  <2>2. pc' \in [Operators -> Idle \union {"dynamo", "llm-d", "plain", "check", "objects",
                                           "route", "list", "delete"}]
    BY <1>2 DEF Inv, TypeOK
  <2> QED
    BY <1>2, <2>1, <2>2 DEF gateway, Inv, TypeOK
<1>5. Justified(o)'
  BY <1>2 DEF Justified
<1>6. ASSUME alone[o] PROVE Repaired(o)'
  <2>1. Repaired(o)
    BY <1>6 DEF Inv, Undisturbed
  <2>2. \A g \in {"dynamo", "llm-d", "plain"} : Servable(g)' = Servable(g)
    BY <1>2 DEF Servable
  <2>3. Servable("dynamo") \cup Servable("llm-d") \cup Servable("plain") = deployed
    <3>1. \A v \in deployed : Framework[v] \in {"dynamo", "llm-d", "plain"}
      BY GatewayAssumption DEF Inv, TypeOK
    <3> QED
      BY <3>1 DEF Servable
  <2> QED
    BY <1>1, <1>2, <2>1, <2>2, <2>3 DEF Repaired, Discovered, Checked, HasApplied, HasRouted
<1> QED
  <2>1. pc[o] \notin Idle
    BY <1>2 DEF Idle
  <2>2. \A q \in Operators \ {o} : models'[q] = models[q]
    BY <1>2 DEF Inv, TypeOK
  <2> QED
    BY <1>2, <1>4, <1>5, <1>6, <2>1, <2>2, OwnStep

LEMMA CheckInv ==
  ASSUME Inv, NEW o \in Operators, Check(o)
  PROVE  Inv'
<1>1. pc[o] = "check" /\ pc' = [pc EXCEPT ![o] = "objects"] /\ pc'[o] = "objects"
  BY DEF Check, Goto, Inv, TypeOK
<1>2. TypeOK'
  BY <1>1 DEF Check, gateway, Inv, TypeOK
<1>3. Justified(o)'
  BY DEF Check, Justified
<1>4. ASSUME alone[o] PROVE Repaired(o)'
  BY <1>1, <1>4 DEF Inv, Undisturbed, Check, Repaired, Discovered, Checked, HasApplied, HasRouted,
                    Ambiguous, SlugOf
<1> QED
  BY <1>1, <1>2, <1>3, <1>4, OwnStep DEF Check, Idle

LEMMA ApplyObjectsInv ==
  ASSUME Inv, NEW o \in Operators, ApplyObjects(o)
  PROVE  Inv'
<1>1. TypeOK /\ models[o] \subseteq Workloads /\ pc[o] = "objects"
  BY DEF ApplyObjects, Inv, TypeOK
<1>2. {Served[w] : w \in models[o]} \subseteq Names
  BY <1>1, ServedNamed
<1>3. CASE objects' = Applied(Pairs(models[o])) /\ Goto(o, "route") /\ UNCHANGED route
  <2>1. pc' = [pc EXCEPT ![o] = "route"] /\ pc'[o] = "route"
    BY <1>1, <1>3 DEF Goto, TypeOK
  <2>2. TypeOK'
    BY <1>1, <1>3, <2>1, AppliedTyped DEF ApplyObjects, TypeOK
  <2>3. Justified(o)'
    BY <1>1 DEF ApplyObjects, Inv, Justified
  <2>4. ASSUME alone[o] PROVE Repaired(o)'
    <3>1. models[o] = deployed /\ ~ Ambiguous(models[o]) /\ kind[o] = 1
      BY <1>1, <2>4 DEF Inv, Undisturbed, Repaired, Discovered, Checked
    <3>2. Provided'
      BY <1>1, <1>3, <3>1, AppliedProvides DEF ApplyObjects, Provided, Rendered, SlugOf
    <3> QED
      BY <2>1, <3>1, <3>2 DEF ApplyObjects, Repaired, Discovered, Checked, HasApplied, HasRouted,
                              Ambiguous, SlugOf
  <2> QED
    BY <1>1, <2>1, <2>2, <2>3, <2>4, OwnStep DEF ApplyObjects, Idle
<1>4. CASE /\ \E part \in SUBSET Pairs(models[o]) : objects' = Applied(part)
           /\ route' \in {route, {Served[w] : w \in models[o]}}
           /\ Goto(o, "failed")
  <2>1. pc' = [pc EXCEPT ![o] = "failed"] /\ pc'[o] = "failed"
    BY <1>1, <1>4 DEF Goto, TypeOK
  <2>2. objects' \in [Kinds -> [Slugs -> Workloads \cup {NoWorkload}]] /\ route' \subseteq Names
    BY <1>1, <1>2, <1>4, AppliedTyped DEF TypeOK
  <2>3. TypeOK'
    BY <1>1, <2>1, <2>2 DEF ApplyObjects, TypeOK, Idle
  <2>4. Repaired(o)' /\ Justified(o)'
    BY <2>1 DEF Repaired, Justified, Discovered, Checked, HasApplied, HasRouted
  <2> QED
    BY <1>1, <2>1, <2>3, <2>4, OwnStep DEF ApplyObjects, Idle
<1> QED
  BY <1>3, <1>4 DEF ApplyObjects

LEMMA ApplyRouteInv ==
  ASSUME Inv, NEW o \in Operators, ApplyRoute(o)
  PROVE  Inv'
<1>1. pc[o] = "route" /\ pc' = [pc EXCEPT ![o] = "list"] /\ pc'[o] = "list"
  BY DEF ApplyRoute, Goto, Inv, TypeOK
<1>2. models[o] \subseteq Workloads /\ {Served[w] : w \in models[o]} \subseteq Names
  BY ServedNamed DEF Inv, TypeOK
<1>3. TypeOK'
  BY <1>1, <1>2 DEF ApplyRoute, Inv, TypeOK
<1>4. Justified(o)'
  BY <1>1 DEF Justified
<1>5. ASSUME alone[o] PROVE Repaired(o)'
  <2>1. models[o] = deployed /\ ~ Ambiguous(models[o]) /\ Provided /\ UNCHANGED <<models, deployed, objects, kind>>
    BY <1>1, <1>5 DEF ApplyRoute, Inv, Undisturbed, Repaired, Discovered, Checked, HasApplied
  <2>2. Provided' /\ ~ Ambiguous(models[o])'
    BY <2>1 DEF Provided, Rendered, SlugOf, Ambiguous
  <2>3. kind[o] = 1
    BY <1>1, <1>5 DEF Inv, Undisturbed, Repaired
  <2> QED
    BY <1>1, <2>1, <2>2, <2>3 DEF ApplyRoute, Repaired, Discovered, Checked, HasApplied, HasRouted
<1> QED
  BY <1>1, <1>3, <1>4, <1>5, OwnStep DEF ApplyRoute, Idle

LEMMA ListInv ==
  ASSUME Inv, NEW o \in Operators, List(o)
  PROVE  Inv'
<1> DEFINE k == PRUNABLE[kind[o]]
           existing == {s \in Slugs : objects[k][s] # NoWorkload}
<1>1. pc[o] = "list" /\ pc' = [pc EXCEPT ![o] = "delete"] /\ pc'[o] = "delete"
  BY DEF List, Goto, Inv, TypeOK
<1>2. doomed' = [doomed EXCEPT ![o] = existing \ Desired(o)] /\ doomed'[o] = existing \ Desired(o)
  BY DEF List, Desired, Inv, TypeOK
<1>3. TypeOK'
  BY <1>1, <1>2 DEF List, gateway, Inv, TypeOK
<1>4. Justified(o)'
  BY <1>1 DEF Justified
<1>5. UNCHANGED <<deployed, objects, route, teardown, models, kind, alone, runs>>
  BY DEF List, gateway
<1>6. ASSUME alone[o] PROVE Repaired(o)'
  <2>1. /\ models[o] = deployed /\ ~ Ambiguous(models[o]) /\ Provided
        /\ route = {Served[w] : w \in deployed} /\ \A j \in 1..3 : j < kind[o] => Pruned(j)
    BY <1>1, <1>6 DEF Inv, Undisturbed, Repaired, Discovered, Checked, HasApplied, HasRouted
  <2>2. Provided' /\ ~ Ambiguous(models[o])' /\ Desired(o)' = Desired(o)
    BY <1>5, <2>1 DEF Provided, Rendered, SlugOf, Ambiguous, Desired
  <2>3. \A j \in 1..3 : j < kind'[o] => Pruned(j)'
    BY <1>5, <2>1 DEF Pruned, SlugOf
  <2>4. /\ doomed'[o] \cap Desired(o)' = {}
        /\ \A s \in Slugs \ doomed'[o] : objects'[k][s] # NoWorkload => s \in Desired(o)'
    BY <1>2, <1>5, <2>2
  <2> QED
    BY <1>1, <1>5, <2>1, <2>2, <2>3, <2>4 DEF Repaired, Discovered, Checked, HasApplied, HasRouted
<1> QED
  BY <1>1, <1>3, <1>4, <1>5, <1>6, OwnStep DEF Idle

LEMMA DeleteInv ==
  ASSUME Inv, NEW o \in Operators, Delete(o)
  PROVE  Inv'
<1> DEFINE k == PRUNABLE[kind[o]]
<1>1. pc[o] = "delete" /\ UNCHANGED <<deployed, route, teardown, models, kind, alone, runs>>
  BY DEF Delete
<1>2. k \in Kinds /\ kind[o] \in 1..3
  BY Positions DEF Inv, TypeOK
<1>3. PICK s \in doomed[o] :
        IF objects[k][s] = NoWorkload
        THEN Goto(o, "failed") /\ UNCHANGED <<objects, doomed>>
        ELSE /\ objects' = [objects EXCEPT ![k][s] = NoWorkload]
             /\ doomed' = [doomed EXCEPT ![o] = @ \ {s}]
             /\ UNCHANGED pc
  BY DEF Delete
<1>4. s \in Slugs
  BY DEF Inv, TypeOK
<1>5. CASE objects[k][s] = NoWorkload
  <2>1. pc' = [pc EXCEPT ![o] = "failed"] /\ pc'[o] = "failed" /\ UNCHANGED <<objects, doomed>>
    BY <1>3, <1>5 DEF Goto, Inv, TypeOK
  <2>2. TypeOK'
    BY <1>1, <2>1 DEF Inv, TypeOK, Idle
  <2>3. Repaired(o)' /\ Justified(o)'
    BY <2>1 DEF Repaired, Justified, Discovered, Checked, HasApplied, HasRouted
  <2> QED
    BY <1>1, <2>1, <2>2, <2>3, OwnStep DEF Idle
<1>6. CASE objects[k][s] # NoWorkload
  <2>1. /\ objects' = [objects EXCEPT ![k][s] = NoWorkload]
        /\ doomed' = [doomed EXCEPT ![o] = @ \ {s}] /\ pc' = pc
    BY <1>3, <1>6
  <2>2. TypeOK'
    BY <1>1, <1>2, <1>4, <2>1 DEF Inv, TypeOK
  <2>3. Justified(o)'
    BY <1>1, <2>1 DEF Justified
  <2>4. /\ objects'[k][s] = NoWorkload
        /\ \A j \in Kinds, t \in Slugs : j # k \/ t # s => objects'[j][t] = objects[j][t]
        /\ doomed'[o] = doomed[o] \ {s}
    BY <1>2, <1>4, <2>1 DEF Inv, TypeOK
  <2>5. ASSUME alone[o] PROVE Repaired(o)'
    <3>1. /\ models[o] = deployed /\ ~ Ambiguous(models[o]) /\ Provided
          /\ route = {Served[w] : w \in deployed} /\ \A j \in 1..3 : j < kind[o] => Pruned(j)
          /\ doomed[o] \cap Desired(o) = {}
          /\ \A t \in Slugs \ doomed[o] : objects[k][t] # NoWorkload => t \in Desired(o)
      BY <1>1, <2>5 DEF Inv, Undisturbed, Repaired, Discovered, Checked, HasApplied, HasRouted
    <3>2. ~ Ambiguous(models[o])' /\ Desired(o)' = Desired(o)
      BY <1>1, <3>1 DEF SlugOf, Ambiguous, Desired
    <3>3. Provided'
      <4> SUFFICES ASSUME NEW w \in deployed, NEW j \in Kinds, w \in Rendered(j, deployed)
                   PROVE  objects'[j][SlugOf(w)] = w
        BY <1>1 DEF Provided, Rendered, SlugOf
      <4>1. SlugOf(w) # s /\ SlugOf(w) \in Slugs
        BY <3>1, Slugged DEF Desired, Inv, TypeOK
      <4> QED
        BY <2>4, <3>1, <4>1 DEF Provided
    <3>4. \A j \in 1..3 : j < kind'[o] => Pruned(j)'
      <4> SUFFICES ASSUME NEW j \in 1..3, j < kind[o], NEW t \in Slugs,
                          objects'[PRUNABLE[j]][t] # NoWorkload
                   PROVE  \E w \in deployed : SlugOf(w) = t
        BY <1>1 DEF Pruned, SlugOf
      <4>1. objects[PRUNABLE[j]][t] # NoWorkload
        BY <2>4, Positions
      <4> QED
        BY <3>1, <4>1 DEF Pruned
    <3>5. /\ doomed'[o] \cap Desired(o)' = {}
          /\ \A t \in Slugs \ doomed'[o] : objects'[k][t] # NoWorkload => t \in Desired(o)'
      BY <1>2, <1>4, <2>4, <3>1, <3>2
    <3> QED
      BY <1>1, <2>1, <3>1, <3>2, <3>3, <3>4, <3>5
         DEF Repaired, Discovered, Checked, HasApplied, HasRouted
  <2>6. pc' = [pc EXCEPT ![o] = "delete"]
    BY <1>1, <2>1 DEF Inv, TypeOK
  <2> QED
    BY <1>1, <2>2, <2>3, <2>5, <2>6, OwnStep DEF Idle
<1> QED
  BY <1>5, <1>6

LEMMA NextKindInv ==
  ASSUME Inv, NEW o \in Operators, NextKind(o)
  PROVE  Inv'
<1> DEFINE k == PRUNABLE[kind[o]]
<1>1. /\ pc[o] = "delete" /\ doomed[o] = {} /\ kind[o] \in 1..3
      /\ UNCHANGED <<deployed, objects, route, teardown, models, doomed, alone, runs>>
  BY DEF NextKind, gateway, Inv, TypeOK
<1>2. \/ kind[o] < 3 /\ kind' = [kind EXCEPT ![o] = @ + 1] /\ pc' = [pc EXCEPT ![o] = "list"]
      \/ kind[o] = 3 /\ kind' = kind /\ pc' = [pc EXCEPT ![o] = "done"]
  BY <1>1 DEF NextKind, Goto
<1>3. TypeOK'
  BY <1>1, <1>2 DEF Inv, TypeOK, Idle
<1>4. pc'[o] \in {"list", "done"}
  BY <1>2 DEF Inv, TypeOK
<1>5. Justified(o)'
  BY <1>4 DEF Justified
<1>6. ASSUME alone[o] PROVE Repaired(o)'
  <2>1. /\ models[o] = deployed /\ ~ Ambiguous(models[o]) /\ Provided
        /\ route = {Served[w] : w \in deployed} /\ \A j \in 1..3 : j < kind[o] => Pruned(j)
        /\ \A t \in Slugs : objects[k][t] # NoWorkload => t \in Desired(o)
    BY <1>1, <1>6 DEF Inv, Undisturbed, Repaired, Discovered, Checked, HasApplied, HasRouted
  <2>2. ~ Ambiguous(models[o])' /\ Provided'
    BY <1>1, <2>1 DEF SlugOf, Ambiguous, Provided, Rendered
  <2>3. Pruned(kind[o])
    BY <2>1 DEF Pruned, Desired
  <2>4. \A j \in 1..3 : j <= kind[o] => Pruned(j)'
    <3>1. \A j \in 1..3 : j <= kind[o] => Pruned(j)
      BY <1>1, <2>1, <2>3
    <3> QED
      BY <1>1, <3>1 DEF Pruned, SlugOf
  <2>5. /\ \A j \in 1..3 : j < kind'[o] => Pruned(j)'
        /\ pc'[o] = "done" => \A j \in 1..3 : Pruned(j)'
    BY <1>1, <1>2, <2>4 DEF Inv, TypeOK
  <2> QED
    BY <1>1, <1>4, <2>1, <2>2, <2>5 DEF Repaired, Discovered, Checked, HasApplied, HasRouted
<1> QED
  BY <1>1, <1>2, <1>3, <1>5, <1>6, OwnStep DEF Idle

LEMMA InitInv ==
  ASSUME Init
  PROVE  Inv
<1>1. TypeOK
  BY GatewayAssumption DEF Init, TypeOK, Idle
<1> QED
  BY <1>1 DEF Init, Inv, Justified

LEMMA NextInv ==
  ASSUME Inv, [Next]_vars
  PROVE  Inv'
<1>1. ASSUME NEW o \in Operators, Generate(o) PROVE Inv'
  BY <1>1, DiscoverInv, CheckInv, ApplyObjectsInv, ApplyRouteInv, ListInv, DeleteInv, NextKindInv
     DEF Generate
<1>2. CASE UNCHANGED vars
  <2>1. TypeOK'
    BY <1>2 DEF vars, gateway, run, Inv, TypeOK
  <2>2. ASSUME NEW o \in Operators PROVE Justified(o)' /\ (alone'[o] => Undisturbed(o)')
    BY <1>2 DEF vars, gateway, run, Inv, Justified, Undisturbed, Repaired, Discovered, Checked,
                HasApplied, HasRouted, Provided, Pruned, Servable, Desired, Rendered, SlugOf, Ambiguous
  <2> QED
    BY <2>1, <2>2 DEF Inv
<1> QED
  BY <1>1, <1>2, ChangeInv, FailInv DEF Next

(* Whatever failed runs and runs at the same time have left behind, one run  *)
(* of deploy_model.sh that ends and that nobody disturbed makes the table    *)
(* that of the deployed workloads.                                           *)
THEOREM Repair == Spec => []RunRepairs
<1>1. Inv => RunRepairs
  <2> SUFFICES ASSUME Inv, NEW o \in Operators, Finished(o)
               PROVE  /\ route = {Served[w] : w \in deployed}
                      /\ \A w \in deployed : \A k \in Kinds :
                           w \in Rendered(k, deployed) => objects[k][SlugOf(w)] = w
                      /\ \A k \in Kinds, s \in Slugs :
                           objects[k][s] # NoWorkload => \E w \in deployed : SlugOf(w) = s
    BY DEF RunRepairs, Inv
  <2>1. Repaired(o) /\ pc[o] = "done"
    BY DEF Inv, Finished, Undisturbed
  <2>2. Provided /\ route = {Served[w] : w \in deployed} /\ \A j \in 1..3 : Pruned(j)
    BY <2>1 DEF Repaired, HasApplied, HasRouted
  <2> QED
    BY <2>2, Positions DEF Provided, Pruned
<1> QED
  BY <1>1, InitInv, NextInv, PTL DEF Spec

(* Only a teardown takes the last model off the gateway, whoever else runs   *)
(* the script at the same time.                                              *)
THEOREM NeverEmptied == Spec => EmptiedByTeardown
<1> DEFINE Torn == \E o \in Operators : teardown[o] /\ pc[o] \in {"objects", "route"} /\ pc'[o] # pc[o]
<1>1. ASSUME Inv, Next, route # {}, route' = {} PROVE Torn
  <2>1. PICK o \in Operators : ApplyObjects(o) \/ ApplyRoute(o)
    BY <1>1 DEF Next, Generate, Change, Fail, DiscoverAll, Discover, Check, List, Delete, NextKind,
                gateway
  <2>2. pc[o] \in {"objects", "route"} /\ route' = {Served[w] : w \in models[o]} /\ pc'[o] # pc[o]
    BY <1>1, <2>1 DEF ApplyObjects, ApplyRoute, Goto, Inv, TypeOK
  <2>3. models[o] = {}
    BY <1>1, <2>2
  <2> QED
    BY <1>1, <2>2, <2>3 DEF Inv, Justified
<1>2. Inv /\ [Next]_vars => [route # {} /\ route' = {} => Torn]_vars
  BY <1>1 DEF vars, gateway
<1> QED
  BY <1>2, InitInv, NextInv, PTL DEF Spec, EmptiedByTeardown

-----------------------------------------------------------------------------
(* The incident harness.                                                   *)

\* What a task in a queue is.
Waiting == [pod : 0..MaxPods, n : 1..2]

\* A webhook is answered once: before, it has no tasks.  Without tasks nothing
\* of an earlier incident remains.
QueuesAnswered ==
  \A w \in Webhooks :
    /\ w \notin received => queue[w] = <<>>
    /\ queue[w] = <<>> => state[w] = "ENRICH"

\* Slack comes before the end of a triage, or is skipped for its severity.
HeadsPosted == \A w \in Webhooks : At(w, "NOTIFY") => Task(w) \in posted \union unreadable

HarnessInv == TriageSound /\ QueuesAnswered /\ HeadsPosted

\* The queues are short sequences.
LEMMA Short ==
  ASSUME NEW S, NEW q
  PROVE  q \in BoundedSeq(S, 2) <=> q \in Seq(S) /\ Len(q) <= 2
<1>1. ASSUME q \in BoundedSeq(S, 2) PROVE q \in Seq(S) /\ Len(q) <= 2
  <2>1. PICK m \in 0..2 : q \in [1..m -> S]
    BY <1>1 DEF BoundedSeq, SeqOf
  <2>2. q \in Seq(S)
    BY <2>1, SeqDef
  <2>3. DOMAIN q = 1..m /\ DOMAIN q = 1..Len(q) /\ Len(q) \in Nat
    BY <2>1, <2>2, LenProperties
  <2>4. Len(q) = m
    BY <2>1, <2>3
  <2> QED
    BY <2>1, <2>2, <2>4
<1>2. ASSUME q \in Seq(S), Len(q) <= 2 PROVE q \in BoundedSeq(S, 2)
  <2>1. Len(q) \in Nat /\ q \in [1..Len(q) -> S]
    BY <1>2, LenProperties
  <2>2. Len(q) \in 0..2
    BY <1>2, <2>1
  <2> QED
    BY <2>1, <2>2 DEF BoundedSeq, SeqOf
<1> QED
  BY <1>1, <1>2

\* What the end of a triage leaves of a queue.
LEMMA TailQueued ==
  ASSUME HarnessTypeOK, NEW w \in Webhooks, queue[w] # <<>>
  PROVE  /\ Tail(queue[w]) \in BoundedSeq(Waiting, 2)
         /\ Task(w) \in Queued(w)
         /\ Queued(w) = {Task(w)} \union {<<w, Tail(queue[w])[i].n>> : i \in DOMAIN Tail(queue[w])}
         /\ Head(queue[w]) \in Waiting
<1> DEFINE q == queue[w]
           t == Tail(q)
<1>1. q \in Seq(Waiting) /\ Len(q) <= 2
  BY Short DEF HarnessTypeOK, Waiting
<1>2. /\ t \in Seq(Waiting) /\ Len(t) = Len(q) - 1 /\ Head(q) \in Waiting
      /\ \A i \in 1..Len(t) : t[i] = q[i + 1]
  BY <1>1, HeadTailProperties
<1>3. /\ Len(q) \in Nat \ {0} /\ DOMAIN q = 1..Len(q) /\ DOMAIN t = 1..Len(t) /\ Len(t) \in Nat
  BY <1>1, <1>2, EmptySeq, LenProperties
<1>4. Head(q) = q[1]
  BY <1>1
<1> HIDE DEF q, t
<1>5. t \in BoundedSeq(Waiting, 2)
  BY <1>1, <1>2, <1>3, Short
<1>6. 1 \in DOMAIN q /\ \A i \in DOMAIN t : i + 1 \in DOMAIN q /\ t[i] = q[i + 1]
  BY <1>2, <1>3
<1>7. \A i \in DOMAIN q : i = 1 \/ (i - 1 \in DOMAIN t /\ q[i] = t[i - 1])
  <2> TAKE i \in DOMAIN q
  <2>1. CASE i = 1
    BY <2>1
  <2>2. CASE i # 1
    <3>1. i \in 1..Len(q) /\ i - 1 \in 1..Len(t) /\ (i - 1) + 1 = i
      BY <1>2, <1>3, <2>2
    <3> QED
      BY <1>2, <1>3, <3>1
  <2> QED
    BY <2>1, <2>2
<1>8. {<<w, q[i].n>> : i \in DOMAIN q} = {<<w, q[1].n>>} \union {<<w, t[i].n>> : i \in DOMAIN t}
  BY <1>6, <1>7
<1> QED
  BY <1>2, <1>4, <1>5, <1>6, <1>8 DEF q, t, Queued, Task

\* A queue may be empty.
LEMMA NoneIsShort == <<>> \in BoundedSeq(Waiting, 2)
<1>1. <<>> \in Seq(Waiting) /\ Len(<<>>) = 0
  BY EmptySeq
<1>2. Len(<<>>) <= 2
  BY <1>1
<1> QED
  BY <1>1, <1>2, Short

\* At the start no webhook has been answered.
LEMMA HarnessInitInv == HarnessInit => HarnessInv
<1> SUFFICES ASSUME HarnessInit PROVE HarnessInv
  OBVIOUS
<1>1. <<>> \in BoundedSeq(Waiting, 2)
  BY NoneIsShort
<1>2. HarnessTypeOK
  <2>1. queue \in [Webhooks -> BoundedSeq(Waiting, 2)]
    BY <1>1 DEF HarnessInit
  <2>2. live \in 1..MaxPods
    BY HarnessAssumption DEF HarnessInit
  <2> QED
    BY <2>1, <2>2 DEF HarnessInit, HarnessTypeOK, Waiting, Severities
<1>3. DeletesWhatFired /\ NoneVanishes /\ QueuesAnswered /\ HeadsPosted
  BY DEF HarnessInit, DeletesWhatFired, NoneVanishes, QueuesAnswered, HeadsPosted, At
<1> QED
  BY <1>2, <1>3 DEF HarnessInv, TriageSound
-----------------------------------------------------------------------------
\* The webhook is new: its tasks are added, and no other queue changes.
LEMMA ReceiveKeeps ==
  ASSUME HarnessInv, NEW w \in Webhooks, Receive(w)
  PROVE  HarnessInv'
<1>1. PICK alerts \in BoundedSeq([pod : 0..live, status : {"firing", "resolved"}], 2),
           kept \in BoundedSeq(1..2, 2) :
         /\ Range(kept) = {i \in DOMAIN alerts : alerts[i].status = "firing"}
         /\ queue' = [queue EXCEPT ![w] =
                         [i \in DOMAIN kept |-> [pod |-> alerts[kept[i]].pod, n |-> kept[i]]]]
         /\ accepted' = accepted \union {<<w, i>> : i \in Range(kept)}
  BY DEF Receive
<1> DEFINE new == [i \in DOMAIN kept |-> [pod |-> alerts[kept[i]].pod, n |-> kept[i]]]
<1>2. /\ w \notin received /\ received' = received \union {w}
      /\ UNCHANGED <<state, severity, live, posted, lost, unreadable, deleted>>
  BY DEF Receive
<1>3. HarnessTypeOK /\ queue[w] = <<>> /\ state[w] = "ENRICH"
  BY <1>2 DEF HarnessInv, TriageSound, QueuesAnswered
<1>4. /\ kept \in Seq(1..2) /\ Len(kept) <= 2
      /\ alerts \in Seq([pod : 0..live, status : {"firing", "resolved"}]) /\ Len(alerts) <= 2
  BY Short
<1> DEFINE Alert == [pod : 0..live, status : {"firing", "resolved"}]
<1>5. /\ DOMAIN kept = 1..Len(kept) /\ Len(kept) \in Nat
      /\ \A i \in DOMAIN kept : kept[i] \in 1..2
      /\ \A i \in DOMAIN alerts : alerts[i] \in Alert
  <2>1. kept \in [1..Len(kept) -> 1..2] /\ Len(kept) \in Nat
    BY <1>4, LenProperties
  <2>2. alerts \in Seq(Alert)
    BY <1>4
  <2> HIDE DEF Alert
  <2>3. alerts \in [1..Len(alerts) -> Alert]
    BY <2>2, LenProperties
  <2> QED
    BY <2>1, <2>3
<1>6. 0..live \subseteq 0..MaxPods
  BY <1>3, HarnessAssumption DEF HarnessTypeOK
<1>7. \A i \in DOMAIN kept : new[i] \in Waiting
  <2> TAKE i \in DOMAIN kept
  <2>1. kept[i] \in DOMAIN alerts
    <3>1. kept[i] \in Range(kept)
      BY DEF Range
    <3> QED
      BY <1>1, <3>1
  <2>2. alerts[kept[i]].pod \in 0..MaxPods
    BY <1>5, <1>6, <2>1
  <2> QED
    BY <1>5, <2>2 DEF Waiting
<1>8. new \in BoundedSeq(Waiting, 2)
  <2>1. new \in [1..Len(kept) -> Waiting]
    BY <1>5, <1>7
  <2>2. new \in Seq(Waiting) /\ DOMAIN new = 1..Len(new) /\ Len(new) \in Nat
    BY <1>5, <2>1, SeqDef, LenProperties
  <2>3. DOMAIN new = 1..Len(kept)
    BY <2>1
  <2>4. Len(new) = Len(kept)
    BY <1>5, <2>2, <2>3
  <2> QED
    BY <1>4, <2>2, <2>4, Short
<1>9. queue' = [queue EXCEPT ![w] = new] /\ queue'[w] = new
  BY <1>1, <1>3 DEF HarnessTypeOK
<1>10. {<<w, i>> : i \in Range(kept)} = Queued(w)'
  BY <1>9 DEF Queued, Range
<1> HIDE DEF new
<1>11. HarnessTypeOK'
  <2>1. queue' \in [Webhooks -> BoundedSeq(Waiting, 2)]
    BY <1>3, <1>8, <1>9 DEF HarnessTypeOK, Waiting
  <2>2. {<<w, i>> : i \in Range(kept)} \subseteq Tasks
    BY <1>5 DEF Tasks, Range
  <2>3. accepted' \subseteq Tasks
    BY <1>1, <1>3, <2>2 DEF HarnessTypeOK
  <2>4. received' \subseteq Webhooks
    BY <1>2, <1>3 DEF HarnessTypeOK
  <2> QED
    BY <1>2, <1>3, <2>1, <2>3, <2>4 DEF HarnessTypeOK, Waiting
<1>12. \A v \in Webhooks \ {w} : queue'[v] = queue[v] /\ Queued(v)' = Queued(v) /\ Task(v)' = Task(v)
  BY <1>3, <1>9 DEF HarnessTypeOK, Queued, Task
<1>13. NoneVanishes'
  <2>1. Queued(w) = {}
    BY <1>3 DEF Queued
  <2>2. UNION {Queued(v) : v \in Webhooks} \subseteq UNION {Queued(v)' : v \in Webhooks}
    BY <1>12, <2>1
  <2>3. Queued(w)' \subseteq UNION {Queued(v)' : v \in Webhooks}
    OBVIOUS
  <2> QED
    BY <1>1, <1>2, <1>10, <2>2, <2>3 DEF NoneVanishes, HarnessInv, TriageSound
<1>14. QueuesAnswered' /\ HeadsPosted'
  BY <1>2, <1>3, <1>9, <1>12 DEF QueuesAnswered, HeadsPosted, At, HarnessInv
<1> QED
  BY <1>2, <1>11, <1>13, <1>14 DEF HarnessInv, TriageSound, DeletesWhatFired

\* An awaited answer moves the head of one queue.
LEMMA EnrichedKeeps ==
  ASSUME HarnessInv, NEW w \in Webhooks, Enriched(w)
  PROVE  HarnessInv'
<1>1. /\ queue[w] # <<>> /\ state[w] = "ENRICH" /\ state' = [state EXCEPT ![w] = "CLASSIFY"]
      /\ UNCHANGED <<queue, severity, live, received, accepted, posted, lost, unreadable, deleted>>
  BY DEF Enriched, At, history
<1>2. HarnessTypeOK
  BY DEF HarnessInv, TriageSound
<1>3. HarnessTypeOK'
  BY <1>1, <1>2 DEF HarnessTypeOK
<1>4. DeletesWhatFired' /\ NoneVanishes'
  BY <1>1 DEF HarnessInv, TriageSound, DeletesWhatFired, NoneVanishes, Queued
<1>5. \A v \in Webhooks : state'[v] = IF v = w THEN "CLASSIFY" ELSE state[v]
  BY <1>1, <1>2 DEF HarnessTypeOK
<1>6. QueuesAnswered'
  BY <1>1, <1>5 DEF HarnessInv, QueuesAnswered
<1>7. HeadsPosted'
  BY <1>1, <1>5 DEF HarnessInv, HeadsPosted, At, Task
<1> QED
  BY <1>3, <1>4, <1>6, <1>7 DEF HarnessInv, TriageSound

\* The pod that the triage deletes is the one that runs, and its own.
LEMMA RestartPodDeletes ==
  ASSUME HarnessTypeOK, DeletesWhatFired, NEW w \in Webhooks, queue[w] # <<>>,
         live < MaxPods, RestartPod(w)
  PROVE  /\ live' \in 1..MaxPods
         /\ deleted' \subseteq [pod : 1..MaxPods, alerted : 0..MaxPods]
         /\ DeletesWhatFired'
<1>1. live \in 1..MaxPods /\ live + 1 \in 1..MaxPods /\ live \in 0..MaxPods
  BY HarnessAssumption DEF HarnessTypeOK
<1>2. CASE Head(queue[w]).pod = live
  <2>1. live' = live + 1 /\ deleted' = deleted \union {[pod |-> live, alerted |-> live]}
    BY <1>2 DEF RestartPod
  <2>2. deleted' \subseteq [pod : 1..MaxPods, alerted : 0..MaxPods]
    BY <1>1, <2>1 DEF HarnessTypeOK
  <2>3. DeletesWhatFired'
    BY <2>1 DEF DeletesWhatFired
  <2> QED
    BY <1>1, <2>1, <2>2, <2>3
<1>3. CASE Head(queue[w]).pod # live
  <2>1. UNCHANGED <<live, deleted>>
    BY <1>3 DEF RestartPod
  <2> QED
    BY <2>1 DEF HarnessTypeOK, DeletesWhatFired
<1> QED
  BY <1>2, <1>3

\* Slack is called for the head, or its severity is unreadable.
LEMMA ClassifiedKeeps ==
  ASSUME HarnessInv, NEW w \in Webhooks, Classified(w)
  PROVE  HarnessInv'
<1>1. /\ queue[w] # <<>> /\ state[w] = "CLASSIFY" /\ state' = [state EXCEPT ![w] = "NOTIFY"]
      /\ UNCHANGED <<queue, received, accepted, lost>>
  BY DEF Classified, At
<1>2. PICK d \in Diagnoses \union {Unavailable} :
        /\ severity' = [severity EXCEPT ![w] = d.severity]
        /\ IF Gate(d) /\ live < MaxPods THEN RestartPod(w) ELSE UNCHANGED <<live, deleted>>
        /\ IF d.severity = "not a string"
           THEN unreadable' = unreadable \union {Task(w)} /\ UNCHANGED posted
           ELSE posted' = posted \union {Task(w)} /\ UNCHANGED unreadable
  BY DEF Classified
<1>3. HarnessTypeOK /\ DeletesWhatFired
  BY DEF HarnessInv, TriageSound
<1>4. d.severity \in Severities
  <2>1. CASE d \in Diagnoses
    BY <2>1 DEF Diagnoses
  <2>2. CASE d = Unavailable
    BY <2>2 DEF Unavailable, Severities
  <2> QED
    BY <2>1, <2>2
<1>5. Head(queue[w]) \in Waiting
  BY <1>1, <1>3, TailQueued
<1>6. Task(w) \in Tasks
  BY <1>5 DEF Task, Tasks, Waiting
<1>7. /\ posted \union unreadable \subseteq posted' \union unreadable'
      /\ Task(w) \in posted' \union unreadable'
      /\ posted' \subseteq Tasks /\ unreadable' \subseteq Tasks
  <2>1. posted \subseteq Tasks /\ unreadable \subseteq Tasks
    BY <1>3 DEF HarnessTypeOK
  <2>2. \/ unreadable' = unreadable \union {Task(w)} /\ posted' = posted
        \/ posted' = posted \union {Task(w)} /\ unreadable' = unreadable
    BY <1>2
  <2> QED
    BY <1>6, <2>1, <2>2
<1>8. /\ live' \in 1..MaxPods
      /\ deleted' \subseteq [pod : 1..MaxPods, alerted : 0..MaxPods]
      /\ DeletesWhatFired'
  <2>1. CASE Gate(d) /\ live < MaxPods
    BY <1>1, <1>2, <1>3, <2>1, RestartPodDeletes
  <2>2. CASE ~(Gate(d) /\ live < MaxPods)
    <3>1. live' = live /\ deleted' = deleted
      BY <1>2, <2>2
    <3> QED
      BY <1>3, <3>1 DEF HarnessTypeOK, DeletesWhatFired
  <2> QED
    BY <2>1, <2>2
<1>9. severity' \in [Webhooks -> Severities] /\ state' \in [Webhooks -> {"ENRICH", "CLASSIFY", "NOTIFY"}]
  BY <1>1, <1>2, <1>3, <1>4 DEF HarnessTypeOK
<1>10. HarnessTypeOK'
  BY <1>1, <1>3, <1>7, <1>8, <1>9 DEF HarnessTypeOK
<1>11. \A v \in Webhooks : Queued(v)' = Queued(v) /\ Task(v)' = Task(v)
  BY <1>1 DEF Queued, Task
<1>12. NoneVanishes'
  BY <1>1, <1>7, <1>11 DEF HarnessInv, TriageSound, NoneVanishes
<1>13. \A v \in Webhooks : state'[v] = IF v = w THEN "NOTIFY" ELSE state[v]
  BY <1>1, <1>3 DEF HarnessTypeOK
<1>14. QueuesAnswered'
  BY <1>1, <1>13 DEF HarnessInv, QueuesAnswered
<1>15. HeadsPosted'
  BY <1>1, <1>7, <1>11, <1>13 DEF HarnessInv, HeadsPosted, At
<1> QED
  BY <1>8, <1>10, <1>12, <1>14, <1>15 DEF HarnessInv, TriageSound

\* Of its queue only the head leaves, and that one has been posted.
LEMMA ReportedKeeps ==
  ASSUME HarnessInv, NEW w \in Webhooks, Reported(w)
  PROVE  HarnessInv'
<1>1. /\ queue[w] # <<>> /\ state[w] = "NOTIFY"
      /\ queue' = [queue EXCEPT ![w] = Tail(queue[w])]
      /\ state' = [state EXCEPT ![w] = "ENRICH"]
      /\ severity' = [severity EXCEPT ![w] = "low"]
      /\ UNCHANGED <<live, received, accepted, posted, lost, unreadable, deleted>>
  BY DEF Reported, At, EndTask, history
<1>2. HarnessTypeOK
  BY DEF HarnessInv, TriageSound
<1>3. /\ Tail(queue[w]) \in BoundedSeq(Waiting, 2)
      /\ Queued(w) = {Task(w)} \union {<<w, Tail(queue[w])[i].n>> : i \in DOMAIN Tail(queue[w])}
  BY <1>1, <1>2, TailQueued
<1>4. \A v \in Webhooks : queue'[v] = IF v = w THEN Tail(queue[w]) ELSE queue[v]
  BY <1>1, <1>2 DEF HarnessTypeOK
<1>5. \A v \in Webhooks : state'[v] = IF v = w THEN "ENRICH" ELSE state[v]
  BY <1>1, <1>2 DEF HarnessTypeOK
<1>6. HarnessTypeOK'
  <2>1. queue' \in [Webhooks -> BoundedSeq(Waiting, 2)]
    BY <1>1, <1>2, <1>3 DEF HarnessTypeOK, Waiting
  <2>2. severity' \in [Webhooks -> Severities] /\ state' \in [Webhooks -> {"ENRICH", "CLASSIFY", "NOTIFY"}]
    BY <1>1, <1>2 DEF HarnessTypeOK, Severities
  <2> QED
    BY <1>1, <1>2, <2>1, <2>2 DEF HarnessTypeOK, Waiting
<1>7. Task(w) \in posted \union unreadable
  BY <1>1 DEF HarnessInv, HeadsPosted, At
<1>8. Queued(w) = {Task(w)} \union Queued(w)'
  BY <1>3, <1>4 DEF Queued
<1>9. \A v \in Webhooks \ {w} : Queued(v)' = Queued(v) /\ Task(v)' = Task(v)
  BY <1>4 DEF Queued, Task
<1>10. NoneVanishes'
  <2>1. ASSUME NEW t \in accepted' PROVE t \in (posted \union unreadable \union lost \union UNION {Queued(v) : v \in Webhooks})'
    <3>1. t \in posted \union unreadable \union lost \union UNION {Queued(v) : v \in Webhooks}
      BY <1>1 DEF HarnessInv, TriageSound, NoneVanishes
    <3>2. CASE t \in posted \union unreadable \union lost
      BY <1>1, <3>2
    <3>3. CASE t \in UNION {Queued(v) : v \in Webhooks}
      <4>1. PICK v \in Webhooks : t \in Queued(v)
        BY <3>3
      <4>2. t \in posted \union unreadable \/ t \in Queued(v)'
        BY <1>7, <1>8, <1>9, <4>1
      <4> QED
        BY <1>1, <4>2
    <3> QED
      BY <3>1, <3>2, <3>3
  <2> QED
    BY <2>1 DEF NoneVanishes
<1>11. QueuesAnswered'
  BY <1>1, <1>4, <1>5 DEF HarnessInv, QueuesAnswered
<1>12. HeadsPosted'
  BY <1>1, <1>4, <1>5, <1>9 DEF HarnessInv, HeadsPosted, At
<1> QED
  BY <1>1, <1>6, <1>10, <1>11, <1>12 DEF HarnessInv, TriageSound, DeletesWhatFired

\* What a restart takes from the queues it counts as lost.
LEMMA RestartKeeps ==
  ASSUME HarnessInv, Restart
  PROVE  HarnessInv'
<1>1. /\ lost' = lost \union UNION {Queued(w) : w \in Webhooks}
      /\ queue' = [w \in Webhooks |-> <<>>]
      /\ state' = [w \in Webhooks |-> "ENRICH"]
      /\ severity' = [w \in Webhooks |-> "low"]
      /\ UNCHANGED <<live, received, accepted, posted, unreadable, deleted>>
  BY DEF Restart
<1>2. HarnessTypeOK
  BY DEF HarnessInv, TriageSound
<1>3. \A w \in Webhooks : Queued(w) \subseteq Tasks
  <2> TAKE w \in Webhooks
  <2>1. queue[w] \in Seq(Waiting)
    BY <1>2, Short DEF HarnessTypeOK, Waiting
  <2>2. \A i \in DOMAIN queue[w] : queue[w][i] \in Waiting
    BY <2>1, LenProperties, ElementOfSeq
  <2> QED
    BY <2>2 DEF Queued, Tasks, Waiting
<1>4. HarnessTypeOK'
  <2>1. queue' \in [Webhooks -> BoundedSeq(Waiting, 2)]
    BY <1>1, NoneIsShort
  <2>2. lost' \subseteq Tasks
    BY <1>1, <1>2, <1>3 DEF HarnessTypeOK
  <2>3. severity' \in [Webhooks -> Severities] /\ state' \in [Webhooks -> {"ENRICH", "CLASSIFY", "NOTIFY"}]
    BY <1>1 DEF Severities
  <2> QED
    BY <1>1, <1>2, <2>1, <2>2, <2>3 DEF HarnessTypeOK, Waiting
<1>5. NoneVanishes'
  BY <1>1 DEF HarnessInv, TriageSound, NoneVanishes
<1>6. QueuesAnswered' /\ HeadsPosted'
  BY <1>1 DEF QueuesAnswered, HeadsPosted, At
<1> QED
  BY <1>1, <1>4, <1>5, <1>6 DEF HarnessInv, TriageSound, DeletesWhatFired

\* A new pod concerns no triage.
LEMMA PodReplacedKeeps ==
  ASSUME HarnessInv, PodReplaced
  PROVE  HarnessInv'
<1>1. /\ live < MaxPods /\ live' = live + 1
      /\ UNCHANGED <<queue, state, severity, received, accepted, posted, lost, unreadable, deleted>>
  BY DEF PodReplaced, history
<1>2. HarnessTypeOK
  BY DEF HarnessInv, TriageSound
<1>3. live' \in 1..MaxPods
  BY <1>1, <1>2, HarnessAssumption DEF HarnessTypeOK
<1>4. HarnessTypeOK'
  BY <1>1, <1>2, <1>3 DEF HarnessTypeOK
<1> QED
  BY <1>1, <1>4
  DEF HarnessInv, TriageSound, DeletesWhatFired, NoneVanishes, Queued, QueuesAnswered, HeadsPosted, At, Task

\* Nothing that a triage or the cluster does breaks the invariant.
LEMMA HarnessNextInv == HarnessInv /\ [HarnessNext]_harnessVars => HarnessInv'
<1> SUFFICES ASSUME HarnessInv, [HarnessNext]_harnessVars PROVE HarnessInv'
  OBVIOUS
<1>1. ASSUME NEW w \in Webhooks, Receive(w) PROVE HarnessInv'
  BY <1>1, ReceiveKeeps
<1>2. ASSUME NEW w \in Webhooks, Triage(w) PROVE HarnessInv'
  BY <1>2, EnrichedKeeps, ClassifiedKeeps, ReportedKeeps DEF Triage
<1>3. CASE Restart
  BY <1>3, RestartKeeps
<1>4. CASE PodReplaced
  BY <1>4, PodReplacedKeeps
<1>5. CASE UNCHANGED harnessVars
  <2>1. UNCHANGED <<queue, state, severity, live, received, accepted, posted, lost, unreadable, deleted>>
    BY <1>5 DEF harnessVars, history
  <2>2. HarnessTypeOK'
    BY <2>1 DEF HarnessInv, TriageSound, HarnessTypeOK
  <2>3. DeletesWhatFired' /\ NoneVanishes'
    BY <2>1 DEF HarnessInv, TriageSound, DeletesWhatFired, NoneVanishes, Queued
  <2>4. QueuesAnswered' /\ HeadsPosted'
    BY <2>1 DEF HarnessInv, QueuesAnswered, HeadsPosted, At, Task
  <2> QED
    BY <2>2, <2>3, <2>4 DEF HarnessInv, TriageSound
<1> QED
  BY <1>1, <1>2, <1>3, <1>4, <1>5 DEF HarnessNext

\* Whatever the order in which the triages of several webhooks advance, the LLM answers
\* and the pods are replaced, a triage deletes only the pod its alert fired for
\* (restart_pod deletes by name), and an accepted alert is in its queue until
\* Slack was called for it, its severity could not be read or the harness restarted.
THEOREM Triages == HarnessSpec => []TriageSound
<1>1. HarnessInv => TriageSound
  BY DEF HarnessInv
<1> QED
  BY HarnessInitInv, HarnessNextInv, <1>1, PTL DEF HarnessSpec
====
