------------------------------- MODULE Rollout ------------------------------
(***************************************************************************)
(* The scripts that change the serving cluster one object at a time: the   *)
(* promotions of an aggregator, of an operator-managed model and of an EPP *)
(* graph, the retirement of the EPP path, the addition of a model's route, *)
(* the repair of discovery, and the two that prepare a candidate.          *)
(*                                                                         *)
(* A script is a sequence of steps.  It reads objects, checks evidence and *)
(* readiness, and patches with a JSON patch that tests what was read; it   *)
(* stops at the first step that fails and undoes nothing.  Two operators   *)
(* run scripts at the same time, a script may end at any step because it   *)
(* is interrupted or a call of it fails, and someone else may change the   *)
(* cluster in between or a backend fail (bounded by MaxActs).            *)
(* The value of an object is a set: the rules of a route, the selector of  *)
(* a Service as a singleton, nothing while the object does not exist.      *)
(***************************************************************************)
EXTENDS Naturals, Sequences, FiniteSets

CONSTANTS Operators,   \* who runs scripts
          Scripts,     \* the scripts they may run
          Starts,      \* the objects of the cluster at the start
          MaxActs      \* bound: script runs, changes by others and outages

Objects == {"gateway", "stable38", "muse", "aigatewayroute", "httproute", "canary", "worker",
            "discovery", "candidate38", "manifest", "backend38", "backendflint"}
Backends == {"recovery", "blue38", "green", "graph38", "worker38", "flint", "q-frontend", "q-epp",
             "m-old", "m-release", "m-epp"}
Suites == {"capacity", "operator", "muse", "staged"}
ScriptNames == {"promote_aggregator", "promote_operator", "add_route", "add_flint_route",
                "stage_muse", "final_muse", "disable_qwen_epp", "repair_qwen_discovery",
                "apply_candidate", "render_flint_gateway"}

\* The rules for the EPP path of Muse and those for its frontends.
MusePools == {"m-pool", "m-pool-staged"}
MuseDirect == {"m-direct", "m-direct-old"}

\* What an object may hold; a selector or a template is one value.
Values(o) ==
  CASE o = "gateway" \/ o = "discovery" \/ o = "manifest" -> {"recovery", "blue38", "green"}
    [] o = "stable38" -> {"blue", "graph"}
    [] o = "muse" -> {"old", "release"}
    [] o = "worker" -> {"running", "restarted"}
    [] o = "canary" -> {"pool", "stable"}
    [] o = "candidate38" -> {"old", "new"}
    [] o = "httproute" -> {"m-native", "m-native-old", "q-native"}
    [] o = "backend38" \/ o = "backendflint" -> {"applied"}
    [] o = "aigatewayroute" -> MusePools \cup MuseDirect \cup
         {"q-direct", "q-pool", "38", "flint", "38_elsewhere", "flint_elsewhere"}
Single == {"gateway", "stable38", "muse", "worker", "canary", "candidate38"}
Typed(o, v) == v \subseteq Values(o) /\ (o \in Single => \E x \in Values(o) : v = {x})

ASSUME StartsAssumption ==
  /\ Scripts \subseteq ScriptNames /\ MaxActs \in Nat
  /\ \A s \in Starts :
       /\ DOMAIN s.value = Objects /\ \A o \in Objects : Typed(o, s.value[o])
       /\ s.up \subseteq Backends

VARIABLES value,      \* per object: what the API server holds
          version,    \* per object: its resourceVersion
          up,         \* the backends that are ready
          evidence,   \* the suites whose recorded results all passed
          proc,       \* per operator: script, step, what it read, outcome, what it met
          acts        \* script runs, changes by others and outages so far

vars == <<value, version, up, evidence, proc, acts>>

-----------------------------------------------------------------------------
(* The scripts *)

Read(o) == [op |-> "read", on |-> o]
Gate(g) == [op |-> "gate", on |-> g]
Patch(o) == [op |-> "patch", on |-> o]

PromoteAggregator ==
  <<Gate("capacity"), Read("gateway"), Gate("blue38"), Gate("recovery"), Patch("gateway")>>
PromoteOperator ==
  <<Gate("operator"), Gate("graph38"), Read("stable38"), Patch("stable38")>>
AddRoute ==
  <<Read("aigatewayroute"), Gate("gateway_is_blue38"), Gate("blue38"),
    Patch("backend38"), Patch("aigatewayroute")>>
AddFlintRoute ==
  <<Read("aigatewayroute"), Gate("gateway_is_green"), Gate("green"),
    Patch("backendflint"), Patch("aigatewayroute")>>

\* Promotion of an EPP graph: first the Service, then one route after the other.
PromoteGraph_Fault ==   \* the public route is patched before the Service
  <<Gate("m-epp"), Gate("m-release"), Read("aigatewayroute"), Patch("aigatewayroute"),
    Read("muse"), Patch("muse"), Read("httproute"), Patch("httproute")>>
PromoteGraph ==
  <<Gate("m-epp"), Gate("m-release"), Read("muse"), Patch("muse"),
    Read("aigatewayroute"), Patch("aigatewayroute"), Read("httproute"), Patch("httproute")>>
StageMuse == <<Gate("muse")>> \o PromoteGraph
FinalMuse == <<Gate("muse"), Gate("staged")>> \o PromoteGraph

\* Both routes are read before either is patched, and the worker is compared with
\* what it was after each patch.
RetireEpp ==
  <<Gate("q-frontend"), Read("worker"), Read("aigatewayroute"), Read("canary"),
    Patch("aigatewayroute"), Gate("worker_unchanged"), Patch("canary"), Gate("worker_unchanged"),
    Gate("no_pool_in_compiled_route")>>
RepairDiscovery == <<Read("gateway"), Read("discovery"), Gate("q-frontend"), Patch("discovery")>>
ApplyCandidate == <<Gate("candidate_not_selected"), Patch("candidate38")>>
RenderGateway == <<Read("gateway"), Patch("manifest")>>

Program(script) ==
  CASE script = "promote_aggregator" -> PromoteAggregator
    [] script = "promote_operator" -> PromoteOperator
    [] script = "add_route" -> AddRoute
    [] script = "add_flint_route" -> AddFlintRoute
    [] script = "stage_muse" -> StageMuse
    [] script = "final_muse" -> FinalMuse
    [] script = "disable_qwen_epp" -> RetireEpp
    [] script = "repair_qwen_discovery" -> RepairDiscovery
    [] script = "apply_candidate" -> ApplyCandidate
    [] script = "render_flint_gateway" -> RenderGateway

\* What a script writes, from what it read of the object and of the gateway.
Serving(snap) == CHOOSE g \in {"recovery", "blue38", "green"} : snap["gateway"].value = {g}

MuseRules_Fault(script, read) ==   \* the public rule is added, the staged one not replaced
  (read \ MuseDirect) \cup {"m-direct", IF script = "stage_muse" THEN "m-pool-staged" ELSE "m-pool"}
MuseRules(script, read) ==
  (read \ (MusePools \cup MuseDirect))
    \cup {"m-direct", IF script = "stage_muse" THEN "m-pool-staged" ELSE "m-pool"}

RouteEdit(script, read) ==
  CASE script = "add_route" -> read \cup {"38"}
    [] script = "add_flint_route" -> read \cup {"flint"}
    [] script \in {"stage_muse", "final_muse"} -> MuseRules(script, read)
    [] script = "disable_qwen_epp" -> read \ {"q-pool"}

\* A selector, a backend or an applied object is replaced whole.
Selected == [gateway |-> "blue38", stable38 |-> "graph", muse |-> "release", canary |-> "stable",
             candidate38 |-> "new", backend38 |-> "applied", backendflint |-> "applied"]
Replaced(o, read) == {Selected[o]}

Edit(script, o, snap) ==
  CASE o = "aigatewayroute" -> RouteEdit(script, snap[o].value)
    [] o \in DOMAIN Selected -> Replaced(o, snap[o].value)
    [] o = "httproute" -> (snap[o].value \ {"m-native-old"}) \cup {"m-native"}
    [] o = "discovery" -> snap[o].value \cup {Serving(snap)}
    [] o = "manifest" -> {Serving(snap)}

\* What a script refuses to go on from, and what it takes as already done.
DirectRuleLeft_Fault(read) == TRUE
DirectRuleLeft(read) == "q-direct" \in read
Refuses(script, o, read) ==
  CASE script = "promote_aggregator" -> read # {"recovery"}
    [] script = "promote_operator" -> read \notin {{"blue"}, {"graph"}}
    [] script = "add_route" -> "38_elsewhere" \in read
    [] script = "add_flint_route" -> "flint_elsewhere" \in read
    [] script \in {"stage_muse", "final_muse"} /\ o = "aigatewayroute" ->
         MusePools \subseteq read \/ MuseDirect \subseteq read
    [] script = "disable_qwen_epp" /\ o = "aigatewayroute" -> ~DirectRuleLeft(read)
    [] script = "render_flint_gateway" /\ o = "gateway" -> read = {"green"}
    [] OTHER -> FALSE
AlreadyThere(script, read) ==
  \/ script = "add_route" /\ "38" \in read
  \/ script = "add_flint_route" /\ "flint" \in read

\* The tests in front of the replacement: the resourceVersion, the value, both,
\* and none for what is applied or written as a file.  "discovery" stands for one
\* Deployment per gateway: only the entry of the one that was read is tested.
TestsVersion == {"promote_operator", "add_route", "add_flint_route", "disable_qwen_epp"}
TestsValue == {"promote_aggregator", "promote_operator", "stage_muse", "final_muse"}
Applied == {"backend38", "backendflint", "candidate38", "manifest"}

Unchanged_Fault(script, o, snap) ==   \* routes are replaced without a test
  o = "aigatewayroute" \/ version[o] = snap[o].version
Unchanged(script, o, snap) ==
  \/ o \in Applied
  \/ /\ script \in TestsVersion => version[o] = snap[o].version
     /\ script \in TestsValue => value[o] = snap[o].value
     /\ script = "repair_qwen_discovery" => Serving(snap) \notin value[o]

Holds(g, snap) ==
  CASE g \in Backends -> g \in up
    [] g \in Suites -> g \in evidence
    [] g = "gateway_is_blue38" -> value["gateway"] = {"blue38"}
    [] g = "gateway_is_green" -> value["gateway"] = {"green"}
    [] g = "candidate_not_selected" -> value["stable38"] # {"blue"}
    [] g = "worker_unchanged" -> version["worker"] = snap["worker"].version
    [] g = "no_pool_in_compiled_route" -> "q-pool" \notin value["aigatewayroute"]

-----------------------------------------------------------------------------
Nothing == [value |-> {}, version |-> 0]
Idle == [script |-> "none", at |-> 0, snap |-> [o \in Objects |-> Nothing],
         outcome |-> "none", met |-> {}]
Stopped == Idle

Init ==
  /\ \E s \in Starts : value = s.value /\ up = s.up
  /\ version = [o \in Objects |-> 1]
  /\ evidence = Suites \ {"staged"}
  /\ proc = [p \in Operators |-> Idle]
  /\ acts = 0

Begin(p, script) ==
  /\ proc[p].at = 0 /\ acts < MaxActs
  /\ proc' = [proc EXCEPT ![p] = [Idle EXCEPT !.script = script, !.at = 1]]
  /\ acts' = acts + 1
  /\ UNCHANGED <<value, version, up, evidence>>

Running(p) == proc[p].at > 0
Step(p) == Program(proc[p].script)[proc[p].at]
Onward(p) == IF proc[p].at = Len(Program(proc[p].script))
             THEN [Idle EXCEPT !.outcome = "done"]
             ELSE [proc[p] EXCEPT !.at = @ + 1]

\* What a running script has met: a change by someone else, an outage, or a rival.
\* Rivals undo each other: the promotions of Muse write the same rules, and the
\* promotion of an aggregator switches the gateway that the repair and the
\* rendering act on, although those are for other models.
Meets(p, what) == [proc[p] EXCEPT !.met = IF Running(p) THEN @ \cup {what} ELSE @]
Rivals(script) ==
  CASE script \in {"stage_muse", "final_muse"} -> {"stage_muse", "final_muse"}
    [] script = "promote_aggregator" -> {"repair_qwen_discovery", "render_flint_gateway"}
    [] OTHER -> {}
Disturbing(p, me) ==
  [q \in Operators |-> IF q = p THEN me ELSE
                       IF proc[q].script \in Rivals(proc[p].script) THEN Meets(q, "rival") ELSE proc[q]]

ReadObject(p) ==
  /\ Running(p) /\ Step(p).op = "read"
  /\ LET o == Step(p).on IN
      proc' = [proc EXCEPT ![p] =
        IF Refuses(proc[p].script, o, value[o]) \/ AlreadyThere(proc[p].script, value[o])
        THEN Stopped
        ELSE [Onward(p) EXCEPT !.snap[o] = [value |-> value[o], version |-> version[o]]]]
  /\ UNCHANGED <<value, version, up, evidence, acts>>

CheckGate(p) ==
  /\ Running(p) /\ Step(p).op = "gate"
  /\ proc' = [proc EXCEPT ![p] = IF Holds(Step(p).on, proc[p].snap) THEN Onward(p) ELSE Stopped]
  /\ UNCHANGED <<value, version, up, evidence, acts>>

\* A script that compares first sends no patch for an object that is as wanted; a
\* patch whose test fails ends the script with what it has already changed.  A
\* changed template restarts its pods, which may be missing until new ones are up.
Compares == {"stage_muse", "final_muse", "disable_qwen_epp", "repair_qwen_discovery"}
Restarted(o, snap) ==
  CASE o = "discovery" -> {Serving(snap)}
    [] o = "candidate38" -> {"worker38"}
    [] OTHER -> {}
PatchObject(p) ==
  /\ Running(p) /\ Step(p).op = "patch"
  /\ LET o == Step(p).on
         new == Edit(proc[p].script, o, proc[p].snap)
         all == IF o = "discovery" THEN value[o] \cup new ELSE new
     IN IF proc[p].script \in Compares /\ new = proc[p].snap[o].value
        THEN /\ proc' = [proc EXCEPT ![p] = Onward(p)]
             /\ UNCHANGED <<value, version, up>>
        ELSE IF Unchanged(proc[p].script, o, proc[p].snap)
        THEN /\ value' = [value EXCEPT ![o] = all]
             /\ version' = [version EXCEPT ![o] = IF all = value[o] THEN @ ELSE @ + 1]
             /\ up' = up \/ (all # value[o] /\ up' = up \ Restarted(o, proc[p].snap))
             /\ proc' = Disturbing(p, Onward(p))
        ELSE /\ proc' = [proc EXCEPT ![p] = Stopped]
             /\ UNCHANGED <<value, version, up>>
  /\ UNCHANGED <<evidence, acts>>

\* The operator interrupts the script, or a call of it fails.
Interrupt(p) ==
  /\ Running(p)
  /\ proc' = [proc EXCEPT ![p] = Stopped]
  /\ UNCHANGED <<value, version, up, evidence, acts>>

-----------------------------------------------------------------------------
(* The surroundings *)

\* The public checks through the staged rule have passed and are recorded.
RecordStaged ==
  /\ "m-pool-staged" \in value["aigatewayroute"] /\ "m-epp" \in up
  /\ evidence' = evidence \cup {"staged"}
  /\ UNCHANGED <<value, version, up, proc, acts>>

\* A rollback, or an apply of the generated route, by someone else.
OthersWrite(o, new) ==
  /\ acts < MaxActs /\ value[o] # new
  /\ value' = [value EXCEPT ![o] = new]
  /\ version' = [version EXCEPT ![o] = @ + 1]
  /\ proc' = [p \in Operators |-> Meets(p, "write")]
  /\ acts' = acts + 1
  /\ UNCHANGED <<up, evidence>>
RollBack ==
  \/ OthersWrite("gateway", {"recovery"})
  \/ OthersWrite("stable38", {"blue"})
  \/ OthersWrite("muse", {"old"})
WorkerRestarts == OthersWrite("worker", {"restarted"})
Regenerate == OthersWrite("aigatewayroute", {"q-direct", "m-direct"})

Fails(b) ==
  /\ acts < MaxActs /\ b \in up
  /\ up' = up \ {b} /\ acts' = acts + 1
  /\ proc' = [p \in Operators |-> Meets(p, "outage")]
  /\ UNCHANGED <<value, version, evidence>>
ComesUp(b) ==
  /\ b \notin up /\ up' = up \cup {b}
  /\ UNCHANGED <<value, version, evidence, proc, acts>>

Next ==
  \/ \E p \in Operators, s \in Scripts : Begin(p, s)
  \/ \E p \in Operators : ReadObject(p) \/ CheckGate(p) \/ PatchObject(p) \/ Interrupt(p)
  \/ RecordStaged \/ RollBack \/ WorkerRestarts \/ Regenerate
  \/ \E b \in Backends : Fails(b) \/ ComesUp(b)

Spec == Init /\ [][Next]_vars

-----------------------------------------------------------------------------
(* Properties *)

Process ==
  [script : ScriptNames \cup {"none"}, at : Nat,
   snap : [Objects -> [value : SUBSET UNION {Values(o) : o \in Objects}, version : Nat]],
   outcome : {"none", "done"}, met : SUBSET {"write", "outage", "rival"}]

TypeOK ==
  /\ DOMAIN value = Objects /\ \A o \in Objects : Typed(o, value[o])
  /\ version \in [Objects -> Nat \ {0}]
  /\ up \subseteq Backends /\ evidence \subseteq Suites
  /\ proc \in [Operators -> Process]
  /\ \A p \in Operators :
       /\ Running(p) => /\ proc[p].script \in ScriptNames
                        /\ proc[p].at <= Len(Program(proc[p].script)) /\ proc[p].outcome = "none"
       /\ \A o \in Objects : proc[p].snap[o].version <= version[o]
  /\ acts \in 0..MaxActs

Moves(p) == Running(p) /\ proc'[p].at # proc[p].at

\* What a rule relies on: the gateway its script looks for with the backend it
\* applies, the promoted frontend of Muse.
Supported(rule) ==
  CASE rule = "38" -> value["gateway"] = {"blue38"} /\ value["backend38"] # {}
    [] rule = "flint" -> value["gateway"] = {"green"} /\ value["backendflint"] # {}
    [] rule \in MusePools -> value["muse"] = {"release"}
    [] OTHER -> TRUE

\* What the chat requests of a published model pass: the rule that also matches the
\* path wins over the plain rule of the model, and behind the aggregator of
\* Qwen3.8 is a Service of its own.
Hops(m) ==
  LET rules == value["aigatewayroute"] IN
  CASE m = "qwen" -> IF "q-pool" \in rules THEN {"q-epp"} ELSE
                     IF "q-direct" \in rules THEN {"q-frontend"} ELSE {"nobody"}
    [] m = "muse" -> IF "m-pool" \in rules THEN {"m-epp"} ELSE
                     IF MuseDirect \cap rules = {} THEN {"nobody"} ELSE
                     IF value["muse"] = {"release"} THEN {"m-release"} ELSE {"m-old"}
    [] m = "qwen38" -> IF "38" \in rules /\ Supported("38")
                       THEN {"blue38", IF value["stable38"] = {"graph"} THEN "graph38" ELSE "worker38"}
                       ELSE {"nobody"}
    [] m = "flint" -> IF "flint" \in rules /\ Supported("flint") THEN {"green", "flint"} ELSE {"nobody"}
Reachable(m) == Hops(m) \subseteq up

\* "Applying restarts the aggregator Deployment" (repair_qwen_discovery.py).
Announced(p, m) == Step(p) = Patch("discovery") /\ Serving(proc[p].snap) \in Hops(m)

(* Whatever scripts two operators run at the same time and wherever they     *)
(* stop, no step of a script takes a published model out of reach, unless    *)
(* since its start someone else has written or a backend has failed, or the  *)
(* step is the announced restart of the aggregator the model is behind:      *)
(* promotions look for what they switch to and patch the fallback before the *)
(* public rule, the retirement keeps the direct rule.  Nor does it change    *)
(* the candidate under a Service that selects it.                            *)
NoBlackout ==
  [][\A p \in Operators : Moves(p) /\ proc[p].met \cap {"write", "outage"} = {} =>
       /\ \A m \in {"qwen", "muse", "qwen38", "flint"} :
            Reachable(m) => Reachable(m)' \/ Announced(p, m)
       /\ value'["candidate38"] # value["candidate38"] => value["stable38"] # {"blue"}]_vars

(* The model a rule of the AI route is for. *)
RulesOf(script) ==
  CASE script = "add_route" -> {"38"}
    [] script = "add_flint_route" -> {"flint"}
    [] script = "disable_qwen_epp" -> {"q-pool"}
    [] OTHER -> MusePools \cup MuseDirect

(* "while preserving the other model's routes" (promote.py), "without        *)
(* regenerating other rules" (add_route.py): a patch of the AI route changes *)
(* no rule but those of its model, although the list read earlier is written *)
(* back whole or rules are removed by their index.                           *)
RulesPreserved ==
  [][\A p \in Operators :
       Moves(p) /\ Step(p) = Patch("aigatewayroute") =>
         value'["aigatewayroute"] \ RulesOf(proc[p].script)
           = value["aigatewayroute"] \ RulesOf(proc[p].script)]_vars

Desired(script) ==
  CASE script = "promote_aggregator" -> value["gateway"] = {"blue38"}
    [] script = "promote_operator" -> value["stable38"] = {"graph"}
    [] script = "add_route" -> "38" \in value["aigatewayroute"]
    [] script = "add_flint_route" -> "flint" \in value["aigatewayroute"]
    [] script = "stage_muse" ->
         /\ value["muse"] = {"release"} /\ "m-native" \in value["httproute"]
         /\ value["aigatewayroute"] \cap (MusePools \cup MuseDirect) = {"m-direct", "m-pool-staged"}
    [] script = "final_muse" ->
         /\ value["muse"] = {"release"} /\ "m-native" \in value["httproute"]
         /\ value["aigatewayroute"] \cap (MusePools \cup MuseDirect) = {"m-direct", "m-pool"}
    [] script = "disable_qwen_epp" ->
         "q-pool" \notin value["aigatewayroute"] /\ value["canary"] = {"stable"}
    [] script = "repair_qwen_discovery" -> value["gateway"] \subseteq value["discovery"]
    [] script = "apply_candidate" -> value["candidate38"] = {"new"}
    [] script = "render_flint_gateway" -> value["manifest"] = value["gateway"]

(* A script that comes to its end leaves all its objects as promised, those  *)
(* included that an earlier, interrupted or staged run had already changed,  *)
(* and whatever other scripts run in between.  Two things can spoil it: a    *)
(* write by someone else, and a rival: the other promotion of Muse, or, for  *)
(* the repair of discovery and the rendering of Flint's gateway, a promotion *)
(* of an aggregator between their look at the gateway and their end.         *)
DoneMeansDesired ==
  [][\A p \in Operators, s \in Scripts :
       Running(p) /\ proc[p].script = s /\ proc'[p].outcome = "done"
         /\ proc[p].met \cap {"write", "rival"} = {} => Desired(s)']_vars

(* The order of the scripts: a step of a script leaves no rule of the AI     *)
(* route without what it relies on, but those it found so, unless someone    *)
(* else has written since the script began.  Neither is a rule published too *)
(* early, nor does a script take its support from under a published one,     *)
(* however the scripts of two operators interleave.                          *)
InOrder ==
  /\ []TypeOK
  /\ [][\A p \in Operators : Moves(p) /\ "write" \notin proc[p].met =>
          \A rule \in value'["aigatewayroute"] :
            Supported(rule)' \/ (rule \in value["aigatewayroute"] /\ ~Supported(rule))]_vars

=============================================================================
