---------------------------- MODULE RolloutProofs ----------------------------
(***************************************************************************)
(* Theorems about Rollout, for any operators, any number of script runs,   *)
(* changes by others and outages, from any cluster.                        *)
(*                                                                         *)
(* InOrder and NoBlackout are about one step, and a script writes a rule   *)
(* or a selector long after it has looked at what it relies on.            *)
(* ProgressOf says what of the steps behind a script still holds, by what  *)
(* it has met since; SnapshotsOf what its reads are worth: a version that  *)
(* is still the current one comes with the current value.  The same        *)
(* invariant carries RulesPreserved.  DoneMeansDesired needs Keeps as      *)
(* well: what a script has read or patched at an earlier step is still so. *)
(***************************************************************************)
EXTENDS Rollout, SequenceTheorems, TLAPS

Disturbances == {"write", "outage", "rival"}

\* Nobody else has written since the script began, nor has a backend failed.
Alone(p) == "write" \notin proc[p].met
Calm(p) == proc[p].met \cap {"write", "outage"} = {}

\* The backends that no script restarts.
Lasting == Backends \ {"recovery", "blue38", "green", "worker38"}

\* What a step that is done has left: the object is read; and if nobody else has
\* acted, what it applied or switched to is there, the gateway is the one looked
\* for, the candidate is not selected, the backend is ready.
Done(step, p) ==
  /\ step.op = "read" => proc[p].snap[step.on].version > 0
  /\ Alone(p) =>
       /\ step = Patch("muse") => value["muse"] = {"release"}
       /\ \A o \in {"backend38", "backendflint"} : step = Patch(o) => value[o] # {}
       /\ step = Gate("gateway_is_blue38") => value["gateway"] = {"blue38"}
       /\ step = Gate("gateway_is_green") => value["gateway"] = {"green"}
       /\ step = Gate("candidate_not_selected") => value["stable38"] # {"blue"}
  /\ Calm(p) => \A b \in Lasting : step = Gate(b) => b \in up

ProgressOf(p) ==
  Running(p) => \A i \in 1..(proc[p].at - 1) : Done(Program(proc[p].script)[i], p)

SnapshotsOf(p) ==
  \A o \in Objects :
    LET read == proc[p].snap[o] IN
      /\ read.version <= version[o]
      /\ read.version > 0 => Typed(o, read.value)
      /\ read.version = version[o] => read.value = value[o]
      /\ Running(p) /\ Alone(p) /\ o = "muse" /\ read.version > 0 /\ read.value = {"release"} =>
           value[o] = {"release"}
      /\ o = "gateway" /\ read.version > 0 /\ proc[p].script = "promote_aggregator" =>
           read.value = {"recovery"}
      /\ o = "aigatewayroute" /\ read.version > 0 /\ proc[p].script = "disable_qwen_epp" =>
           "q-direct" \in read.value

RunningOf(p) ==
  Running(p) => /\ proc[p].script \in ScriptNames
                /\ proc[p].at <= Len(Program(proc[p].script)) /\ proc[p].outcome = "none"

\* The invariant of one operator, of the cluster, and of all.
Local(p) == proc[p] \in Process /\ RunningOf(p) /\ ProgressOf(p) /\ SnapshotsOf(p)

Cluster ==
  /\ DOMAIN value = Objects /\ \A o \in Objects : Typed(o, value[o])
  /\ version \in [Objects -> Nat \ {0}]
  /\ up \subseteq Backends /\ evidence \subseteq Suites
  /\ acts \in 0..MaxActs

Procs == DOMAIN proc = Operators /\ proc = [p \in Operators |-> proc[p]]

Inv == Cluster /\ Procs /\ \A p \in Operators : Local(p)

-----------------------------------------------------------------------------
(* The scripts.                                                            *)

Gates == Backends \cup Suites \cup
  {"gateway_is_blue38", "gateway_is_green", "candidate_not_selected", "worker_unchanged",
   "no_pool_in_compiled_route"}
Steps == [op : {"read", "patch"}, on : Objects] \cup [op : {"gate"}, on : Gates]

\* Whose script changes an object.
Writers(o) ==
  CASE o = "gateway" -> {"promote_aggregator"}
    [] o = "stable38" -> {"promote_operator"}
    [] o = "muse" \/ o = "httproute" -> {"stage_muse", "final_muse"}
    [] o = "aigatewayroute" ->
         {"add_route", "add_flint_route", "stage_muse", "final_muse", "disable_qwen_epp"}
    [] o = "canary" -> {"disable_qwen_epp"}
    [] o = "worker" -> {}
    [] o = "discovery" -> {"repair_qwen_discovery"}
    [] o = "candidate38" -> {"apply_candidate"}
    [] o = "manifest" -> {"render_flint_gateway"}
    [] o = "backend38" -> {"add_route"}
    [] o = "backendflint" -> {"add_flint_route"}

\* A patch in a script: it is of one of the script's objects, after what it needs.
Prepared(s, i) ==
  LET P == Program(s)  o == P[i].on IN
  P[i].op = "patch" =>
    /\ s \in Writers(o)
    /\ o \notin Applied => \E j \in 1..(i - 1) : P[j] = Read(o)
    /\ o \in {"discovery", "manifest"} => \E j \in 1..(i - 1) : P[j] = Read("gateway")
    /\ o = "aigatewayroute" /\ s \in {"stage_muse", "final_muse"} =>
         \E j \in 1..(i - 1) : P[j] = Patch("muse")
    /\ o = "aigatewayroute" /\ s = "add_route" =>
         /\ \E j \in 1..(i - 1) : P[j] = Gate("gateway_is_blue38")
         /\ \E j \in 1..(i - 1) : P[j] = Patch("backend38")
    /\ o = "aigatewayroute" /\ s = "add_flint_route" =>
         /\ \E j \in 1..(i - 1) : P[j] = Gate("gateway_is_green")
         /\ \E j \in 1..(i - 1) : P[j] = Patch("backendflint")
    /\ o = "candidate38" => \E j \in 1..(i - 1) : P[j] = Gate("candidate_not_selected")
    /\ s = "promote_operator" => \E j \in 1..(i - 1) : P[j] = Gate("graph38")
    /\ s = "disable_qwen_epp" => \E j \in 1..(i - 1) : P[j] = Gate("q-frontend")
    /\ s \in {"stage_muse", "final_muse"} =>
         \A b \in {"m-epp", "m-release"} : \E j \in 1..(i - 1) : P[j] = Gate(b)

LEMMA Muse ==
  /\ StageMuse = <<Gate("muse"), Gate("m-epp"), Gate("m-release"), Read("muse"), Patch("muse"),
                   Read("aigatewayroute"), Patch("aigatewayroute"),
                   Read("httproute"), Patch("httproute")>>
  /\ FinalMuse = <<Gate("muse"), Gate("staged"), Gate("m-epp"), Gate("m-release"),
                   Read("muse"), Patch("muse"), Read("aigatewayroute"), Patch("aigatewayroute"),
                   Read("httproute"), Patch("httproute")>>
<1>1. PromoteGraph \in Seq(Steps) /\ Len(PromoteGraph) = 8
  BY DEF PromoteGraph, Steps, Objects, Gates, Backends, Suites, Read, Gate, Patch
<1>2. <<Gate("muse")>> \in Seq(Steps) /\ <<Gate("muse"), Gate("staged")>> \in Seq(Steps)
  BY DEF Steps, Gates, Suites, Gate
<1>3. /\ StageMuse \in Seq(Steps)
      /\ Len(StageMuse) = Len(<<Gate("muse")>>) + Len(PromoteGraph)
      /\ \A i \in 1..(Len(<<Gate("muse")>>) + Len(PromoteGraph)) : StageMuse[i] =
           IF i <= Len(<<Gate("muse")>>) THEN <<Gate("muse")>>[i]
           ELSE PromoteGraph[i - Len(<<Gate("muse")>>)]
  BY <1>1, <1>2, ConcatProperties, Zenon DEF StageMuse
<1>4. /\ FinalMuse \in Seq(Steps)
      /\ Len(FinalMuse) = Len(<<Gate("muse"), Gate("staged")>>) + Len(PromoteGraph)
      /\ \A i \in 1..(Len(<<Gate("muse"), Gate("staged")>>) + Len(PromoteGraph)) : FinalMuse[i] =
           IF i <= Len(<<Gate("muse"), Gate("staged")>>) THEN <<Gate("muse"), Gate("staged")>>[i]
           ELSE PromoteGraph[i - Len(<<Gate("muse"), Gate("staged")>>)]
  BY <1>1, <1>2, ConcatProperties, Zenon DEF FinalMuse
<1>5. /\ Len(StageMuse) = 9 /\ StageMuse[1] = Gate("muse")
      /\ \A i \in 2..9 : StageMuse[i] = PromoteGraph[i - 1]
  BY <1>1, <1>3
<1>6. /\ Len(FinalMuse) = 10 /\ FinalMuse[1] = Gate("muse") /\ FinalMuse[2] = Gate("staged")
      /\ \A i \in 3..10 : FinalMuse[i] = PromoteGraph[i - 2]
  BY <1>1, <1>4
<1> QED
  BY <1>3, <1>4, <1>5, <1>6 DEF PromoteGraph

LEMMA Programs ==
  ASSUME NEW s \in ScriptNames
  PROVE  /\ Program(s) \in Seq(Steps) /\ Len(Program(s)) > 0
         /\ \A i \in 1..Len(Program(s)) : Prepared(s, i)
<1> USE DEF Steps, Objects, Gates, Backends, Suites, Applied, Read, Gate, Patch
<1>1. CASE s = "promote_aggregator"
  BY <1>1 DEF PromoteAggregator, Program, Prepared, Writers
<1>2. CASE s = "promote_operator"
  BY <1>2 DEF PromoteOperator, Program, Prepared, Writers
<1>3. CASE s = "add_route"
  <2>1. /\ Program(s) = AddRoute /\ AddRoute \in Seq(Steps) /\ Len(AddRoute) = 5
        /\ AddRoute[1] = Read("aigatewayroute") /\ AddRoute[2] = Gate("gateway_is_blue38")
        /\ AddRoute[3] = Gate("blue38") /\ AddRoute[4] = Patch("backend38")
        /\ AddRoute[5] = Patch("aigatewayroute")
    BY <1>3 DEF AddRoute, Program
  <2>2. ASSUME NEW i \in 1..5, i \notin {4, 5} PROVE Prepared(s, i)
    BY <2>1, <2>2 DEF Prepared
  <2>3. Prepared(s, 4)
    <3>1. Program(s)[4] = Patch("backend38") /\ s \in Writers(Patch("backend38").on)
      BY <1>3, <2>1 DEF Writers
    <3> QED
      BY <1>3, <2>1, <3>1 DEF Prepared
  <2>4. Prepared(s, 5)
    <3>1. Program(s)[5] = Patch("aigatewayroute") /\ s \in Writers(Patch("aigatewayroute").on)
      BY <1>3, <2>1 DEF Writers
    <3>2. 1 \in 1..(5 - 1) /\ 2 \in 1..(5 - 1) /\ 4 \in 1..(5 - 1)
      OBVIOUS
    <3> QED
      BY <1>3, <2>1, <3>1, <3>2 DEF Prepared
  <2> QED
    BY <2>1, <2>2, <2>3, <2>4
<1>4. CASE s = "add_flint_route"
  <2>1. /\ Program(s) = AddFlintRoute /\ AddFlintRoute \in Seq(Steps) /\ Len(AddFlintRoute) = 5
        /\ AddFlintRoute[1] = Read("aigatewayroute") /\ AddFlintRoute[2] = Gate("gateway_is_green")
        /\ AddFlintRoute[3] = Gate("green") /\ AddFlintRoute[4] = Patch("backendflint")
        /\ AddFlintRoute[5] = Patch("aigatewayroute")
    BY <1>4 DEF AddFlintRoute, Program
  <2>2. ASSUME NEW i \in 1..5, i \notin {4, 5} PROVE Prepared(s, i)
    BY <2>1, <2>2 DEF Prepared
  <2>3. Prepared(s, 4)
    <3>1. Program(s)[4] = Patch("backendflint") /\ s \in Writers(Patch("backendflint").on)
      BY <1>4, <2>1 DEF Writers
    <3> QED
      BY <1>4, <2>1, <3>1 DEF Prepared
  <2>4. Prepared(s, 5)
    <3>1. Program(s)[5] = Patch("aigatewayroute") /\ s \in Writers(Patch("aigatewayroute").on)
      BY <1>4, <2>1 DEF Writers
    <3>2. 1 \in 1..(5 - 1) /\ 2 \in 1..(5 - 1) /\ 4 \in 1..(5 - 1)
      OBVIOUS
    <3> QED
      BY <1>4, <2>1, <3>1, <3>2 DEF Prepared
  <2> QED
    BY <2>1, <2>2, <2>3, <2>4
<1>5. CASE s = "stage_muse"
  BY <1>5, Muse DEF Program, Prepared, Writers
<1>6. CASE s = "final_muse"
  BY <1>6, Muse DEF Program, Prepared, Writers
<1>7. CASE s = "disable_qwen_epp"
  <2>1. /\ Program(s) = RetireEpp /\ RetireEpp \in Seq(Steps) /\ Len(RetireEpp) = 9
        /\ RetireEpp[1] = Gate("q-frontend") /\ RetireEpp[2] = Read("worker")
        /\ RetireEpp[3] = Read("aigatewayroute") /\ RetireEpp[4] = Read("canary")
        /\ RetireEpp[5] = Patch("aigatewayroute") /\ RetireEpp[6] = Gate("worker_unchanged")
        /\ RetireEpp[7] = Patch("canary") /\ RetireEpp[8] = Gate("worker_unchanged")
        /\ RetireEpp[9] = Gate("no_pool_in_compiled_route")
    BY <1>7 DEF RetireEpp, Program
  <2>2. ASSUME NEW i \in 1..9, i \notin {5, 7} PROVE Prepared(s, i)
    BY <2>1, <2>2 DEF Prepared
  <2>3. Prepared(s, 5)
    <3>1. Program(s)[5] = Patch("aigatewayroute") /\ s \in Writers(Patch("aigatewayroute").on)
      BY <1>7, <2>1 DEF Writers
    <3> QED
      BY <1>7, <2>1, <3>1 DEF Prepared
  <2>4. Prepared(s, 7)
    <3>1. Program(s)[7] = Patch("canary") /\ s \in Writers(Patch("canary").on)
      BY <1>7, <2>1 DEF Writers
    <3> QED
      BY <1>7, <2>1, <3>1 DEF Prepared
  <2> QED
    BY <2>1, <2>2, <2>3, <2>4
<1>8. CASE s = "repair_qwen_discovery"
  BY <1>8 DEF RepairDiscovery, Program, Prepared, Writers
<1>9. CASE s = "apply_candidate"
  <2>1. /\ Program(s) = ApplyCandidate /\ ApplyCandidate \in Seq(Steps) /\ Len(ApplyCandidate) = 2
        /\ ApplyCandidate[1] = Gate("candidate_not_selected") /\ ApplyCandidate[2] = Patch("candidate38")
    BY <1>9 DEF ApplyCandidate, Program
  <2>2. ASSUME NEW i \in 1..2, i \notin {2} PROVE Prepared(s, i)
    BY <2>1, <2>2 DEF Prepared
  <2>3. Prepared(s, 2)
    <3>1. Program(s)[2] = Patch("candidate38") /\ s \in Writers(Patch("candidate38").on)
      BY <1>9, <2>1 DEF Writers
    <3> QED
      BY <1>9, <2>1, <3>1 DEF Prepared
  <2> QED
    BY <2>1, <2>2, <2>3
<1>10. CASE s = "render_flint_gateway"
  BY <1>10 DEF RenderGateway, Program, Prepared, Writers
<1> QED
  BY <1>1, <1>2, <1>3, <1>4, <1>5, <1>6, <1>7, <1>8, <1>9, <1>10 DEF ScriptNames

-----------------------------------------------------------------------------
(* One operator.                                                           *)

\* What every step leaves alone, whoever takes it: an object changes only with
\* its version; unless everyone under way has met a write of others, what was
\* switched to or applied stays and the gateway only leaves recovery; unless
\* everyone has met an outage, what no script restarts stays up.
Orderly ==
  /\ version' \in [Objects -> Nat \ {0}]
  /\ \A o \in Objects : \/ value'[o] = value[o] /\ version'[o] = version[o]
                        \/ version'[o] = version[o] + 1
  /\ \/ \A q \in Operators : Running(q) => ~Alone(q)'
     \/ /\ value["muse"] = {"release"} => value'["muse"] = {"release"}
        /\ value'["gateway"] = value["gateway"] \/ value["gateway"] = {"recovery"}
        /\ value["stable38"] # {"blue"} => value'["stable38"] # {"blue"}
        /\ \A o \in {"backend38", "backendflint"} : value[o] # {} => value'[o] # {}
  /\ \/ \A q \in Operators : Running(q) => ~Calm(q)'
     \/ up \cap Lasting \subseteq up'

\* What was done stays done.
LEMMA DoneStays ==
  ASSUME Cluster, Orderly, NEW q \in Operators, NEW step \in Steps, Done(step, q), Running(q),
         proc[q].met \subseteq proc'[q].met,
         step.op = "read" => proc'[q].snap[step.on].version = proc[q].snap[step.on].version
  PROVE  Done(step, q)'
<1>1. Alone(q)' => Alone(q)
  BY DEF Alone
<1>2. Calm(q)' => Calm(q)
  BY DEF Calm
<1>3. ASSUME Alone(q)'
      PROVE  /\ step = Patch("muse") => value'["muse"] = {"release"}
             /\ \A o \in {"backend38", "backendflint"} : step = Patch(o) => value'[o] # {}
             /\ step = Gate("gateway_is_blue38") => value'["gateway"] = {"blue38"}
             /\ step = Gate("gateway_is_green") => value'["gateway"] = {"green"}
             /\ step = Gate("candidate_not_selected") => value'["stable38"] # {"blue"}
  <2>1. /\ step = Patch("muse") => value["muse"] = {"release"}
        /\ \A o \in {"backend38", "backendflint"} : step = Patch(o) => value[o] # {}
        /\ step = Gate("gateway_is_blue38") => value["gateway"] = {"blue38"}
        /\ step = Gate("gateway_is_green") => value["gateway"] = {"green"}
        /\ step = Gate("candidate_not_selected") => value["stable38"] # {"blue"}
    BY <1>1, <1>3 DEF Done
  <2>2. /\ value["muse"] = {"release"} => value'["muse"] = {"release"}
        /\ value'["gateway"] = value["gateway"] \/ value["gateway"] = {"recovery"}
        /\ value["stable38"] # {"blue"} => value'["stable38"] # {"blue"}
        /\ \A o \in {"backend38", "backendflint"} : value[o] # {} => value'[o] # {}
    BY <1>3 DEF Orderly
  <2> QED
    BY <2>1, <2>2
<1>4. ASSUME Calm(q)' PROVE \A b \in Lasting : step = Gate(b) => b \in up'
  <2>1. up \cap Lasting \subseteq up'
    BY <1>4 DEF Orderly
  <2> QED
    BY <1>2, <1>4, <2>1 DEF Done
<1>5. step.op = "read" => proc'[q].snap[step.on].version > 0
  BY DEF Done
<1> QED
  BY <1>3, <1>4, <1>5 DEF Done

\* The reads are worth what they were.
LEMMA SnapshotsStay ==
  ASSUME Cluster, Orderly, NEW q \in Operators, proc[q] \in Process, SnapshotsOf(q),
         NEW r \in Process, proc'[q] = r, r.snap = proc[q].snap, r.script = proc[q].script,
         proc[q].met \subseteq r.met, Running(q)' => Running(q)
  PROVE  SnapshotsOf(q)'
<1> SUFFICES ASSUME NEW o \in Objects
             PROVE  LET read == r.snap[o] IN
                      /\ read.version <= version'[o]
                      /\ read.version > 0 => Typed(o, read.value)
                      /\ read.version = version'[o] => read.value = value'[o]
                      /\ Running(q)' /\ Alone(q)' /\ o = "muse" /\ read.version > 0
                           /\ read.value = {"release"} => value'[o] = {"release"}
                      /\ o = "gateway" /\ read.version > 0 /\ r.script = "promote_aggregator" =>
                           read.value = {"recovery"}
                      /\ o = "aigatewayroute" /\ read.version > 0 /\ r.script = "disable_qwen_epp" =>
                           "q-direct" \in read.value
  BY DEF SnapshotsOf
<1>1. r.snap[o].version \in Nat /\ version[o] \in Nat
  BY DEF Process, Cluster
<1>2. Alone(q)' => Alone(q)
  BY DEF Alone
<1>3. Running(q)' /\ Alone(q)' /\ o = "muse" /\ r.snap[o].version > 0
        /\ r.snap[o].value = {"release"} => value'[o] = {"release"}
  BY <1>2 DEF SnapshotsOf, Orderly
<1> QED
  BY <1>1, <1>3 DEF SnapshotsOf, Orderly

\* An operator who does not move, but for what comes to be met.
LEMMA Bystander ==
  ASSUME Cluster, Orderly, NEW q \in Operators, Local(q), NEW b \in SUBSET Disturbances,
         proc[q].met \subseteq b, proc'[q] = [proc[q] EXCEPT !.met = b]
  PROVE  Local(q)'
<1> DEFINE r == [proc[q] EXCEPT !.met = b]
<1>1. /\ r \in Process /\ r.snap = proc[q].snap /\ r.script = proc[q].script
      /\ r.at = proc[q].at /\ r.outcome = proc[q].outcome /\ r.met = b
  BY DEF Local, Process, Disturbances
<1> HIDE DEF r
<1>2. proc'[q] = r
  BY DEF r
<1>3. proc'[q] \in Process /\ RunningOf(q)' /\ (Running(q)' => Running(q))
  BY <1>1, <1>2 DEF Local, RunningOf, Running
<1>4. ProgressOf(q)'
  <2> SUFFICES ASSUME Running(q), NEW i \in 1..(proc[q].at - 1)
               PROVE  Done(Program(proc[q].script)[i], q)'
    BY <1>1, <1>2 DEF ProgressOf, Running
  <2>1. Program(proc[q].script)[i] \in Steps /\ Done(Program(proc[q].script)[i], q)
    BY Programs DEF Local, RunningOf, ProgressOf, Process
  <2> QED
    BY <1>1, <1>2, <2>1, DoneStays
<1>5. SnapshotsOf(q)'
  BY <1>1, <1>2, <1>3, SnapshotsStay DEF Local
<1> QED
  BY <1>3, <1>4, <1>5 DEF Local

\* What a change, an outage or a rival does to an operator.
LEMMA Noticed ==
  ASSUME NEW q \in Operators, proc[q] \in Process, NEW what \in Disturbances
  PROVE  \E b \in SUBSET Disturbances :
           /\ proc[q].met \subseteq b /\ Meets(q, what) = [proc[q] EXCEPT !.met = b]
           /\ Running(q) => what \in b
<1> DEFINE b == IF Running(q) THEN proc[q].met \cup {what} ELSE proc[q].met
<1>1. b \in SUBSET Disturbances /\ proc[q].met \subseteq b /\ (Running(q) => what \in b)
  BY DEF Process, Disturbances
<1>2. Meets(q, what) = [proc[q] EXCEPT !.met = b]
  BY DEF Meets, Process
<1> QED
  BY <1>1, <1>2

\* What a patch does to the other operators.
LEMMA Passed ==
  ASSUME NEW p \in Operators, NEW q \in Operators, q # p, proc[q] \in Process, NEW me,
         proc' = Disturbing(p, me)
  PROVE  \E b \in SUBSET Disturbances :
           /\ proc[q].met \subseteq b /\ proc'[q] = [proc[q] EXCEPT !.met = b]
           /\ Running(q) /\ proc[q].script \in Rivals(proc[p].script) => "rival" \in b
<1>1. CASE proc[q].script \in Rivals(proc[p].script)
  <2>1. proc'[q] = Meets(q, "rival") /\ "rival" \in Disturbances
    BY <1>1 DEF Disturbing, Disturbances
  <2> QED
    BY <2>1, Noticed
<1>2. CASE proc[q].script \notin Rivals(proc[p].script)
  <2>1. proc'[q] = proc[q] /\ proc[q].met \in SUBSET Disturbances
        /\ proc[q] = [proc[q] EXCEPT !.met = proc[q].met]
    BY <1>2 DEF Disturbing, Process, Disturbances
  <2> QED
    BY <1>2, <2>1
<1> QED
  BY <1>1, <1>2

\* An operator whose script has stopped, by itself or interrupted.
LEMMA AtRest ==
  ASSUME Orderly, NEW q \in Operators, NEW r \in Process, proc'[q] = r,
         r.at = 0, r.snap = [o \in Objects |-> Nothing]
  PROVE  Local(q)'
BY DEF Local, RunningOf, Running, ProgressOf, SnapshotsOf, Orderly, Nothing

LEMMA IdleTyped == Idle \in Process
BY DEF Idle, Process, Nothing

\* An operator whose script goes on from a step that is done.
LEMMA MovesOn ==
  ASSUME Cluster, Orderly, NEW q \in Operators, Local(q), Running(q),
         proc'[q] = Onward(q), NEW step \in Steps, step = Step(q),
         Running(q)' => Done(step, q)'
  PROVE  Local(q)'
<1>1. CASE proc[q].at = Len(Program(proc[q].script))
  <2> DEFINE r == [Idle EXCEPT !.outcome = "done"]
  <2>1. proc'[q] = r
    BY <1>1 DEF Onward
  <2>2. r \in Process /\ r.at = 0 /\ r.snap = [o \in Objects |-> Nothing]
    BY IdleTyped DEF Idle, Process, Local
  <2> QED
    BY <2>1, <2>2, AtRest
<1>2. CASE proc[q].at # Len(Program(proc[q].script))
  <2> DEFINE r == [proc[q] EXCEPT !.at = @ + 1]
  <2>1. /\ r \in Process /\ r.snap = proc[q].snap /\ r.script = proc[q].script
        /\ r.at = proc[q].at + 1 /\ r.outcome = proc[q].outcome /\ r.met = proc[q].met
        /\ proc'[q] = r
    BY <1>2 DEF Local, Process, Onward
  <2>2. RunningOf(q)'
    BY <1>2, <2>1, Programs DEF Local, RunningOf, Running, Process
  <2>3. ProgressOf(q)'
    <3> SUFFICES ASSUME NEW i \in 1..proc[q].at
                 PROVE  Done(Program(proc[q].script)[i], q)'
      BY <2>1 DEF ProgressOf, Running, Local, Process
    <3>1. CASE i = proc[q].at
      BY <2>1, <2>2, <3>1 DEF Step, Running, Local, Process
    <3>2. CASE i # proc[q].at
      <4>1. i \in 1..(proc[q].at - 1)
        BY <3>2 DEF Local, Process
      <4>2. Program(proc[q].script)[i] \in Steps /\ Done(Program(proc[q].script)[i], q)
        BY <4>1, Programs DEF Local, RunningOf, ProgressOf, Process
      <4> QED
        BY <2>1, <4>2, DoneStays
    <3> QED
      BY <3>1, <3>2
  <2>4. SnapshotsOf(q)'
    BY <2>1, SnapshotsStay DEF Local
  <2> QED
    BY <2>1, <2>2, <2>3, <2>4 DEF Local
<1> QED
  BY <1>1, <1>2

-----------------------------------------------------------------------------
(* Steps that change no object.                                            *)

LEMMA Untouched ==
  ASSUME Cluster, Orderly, NEW q \in Operators, Local(q), proc'[q] = proc[q]
  PROVE  Local(q)'
<1>1. /\ proc[q].met \in SUBSET Disturbances
      /\ proc'[q] = [proc[q] EXCEPT !.met = proc[q].met]
  BY DEF Local, Process, Disturbances
<1> QED
  BY <1>1, Bystander

LEMMA StillOrderly ==
  ASSUME Cluster, UNCHANGED <<value, version>>,
         (\A q \in Operators : Running(q) => ~Calm(q)') \/ up \cap Lasting \subseteq up'
  PROVE  Orderly
BY DEF Cluster, Orderly

\* One operator moves in an unchanged cluster.
LEMMA OnlyMoves ==
  ASSUME Inv, NEW p \in Operators, NEW r, proc' = [proc EXCEPT ![p] = r],
         UNCHANGED <<value, version, up, evidence>>, acts' \in 0..MaxActs,
         Orderly => Local(p)'
  PROVE  Inv'
<1>1. Orderly
  BY StillOrderly DEF Inv
<1>2. Cluster'
  BY DEF Inv, Cluster
<1>3. Procs' /\ \A q \in Operators \ {p} : proc'[q] = proc[q]
  BY DEF Inv, Procs
<1>4. \A q \in Operators : Local(q)'
  BY <1>1, <1>3, Untouched DEF Inv
<1> QED
  BY <1>2, <1>3, <1>4 DEF Inv

\* The current step of a running script.
LEMMA StepTyped ==
  ASSUME Inv, NEW p \in Operators, Running(p)
  PROVE  /\ proc[p].script \in ScriptNames /\ proc[p].at \in 1..Len(Program(proc[p].script))
         /\ Step(p) \in Steps /\ Prepared(proc[p].script, proc[p].at)
BY Programs DEF Inv, Local, RunningOf, Running, Process, Step

LEMMA BeginInv ==
  ASSUME Inv, NEW p \in Operators, NEW s \in Scripts, Begin(p, s)
  PROVE  Inv'
<1> DEFINE r == [Idle EXCEPT !.script = s, !.at = 1]
<1>1. s \in ScriptNames /\ Len(Program(s)) > 0 /\ Program(s) \in Seq(Steps)
  BY StartsAssumption, Programs
<1>2. /\ r \in Process /\ r.at = 1 /\ r.script = s /\ r.outcome = "none"
      /\ r.snap = [o \in Objects |-> Nothing]
  BY <1>1, IdleTyped DEF Idle, Process
<1>3. proc'[p] = r
  BY DEF Begin, Inv, Procs
<1>4. ASSUME Orderly PROVE Local(p)'
  <2>1. SnapshotsOf(p)'
    BY <1>2, <1>3, <1>4 DEF SnapshotsOf, Orderly, Nothing
  <2>2. RunningOf(p)' /\ ProgressOf(p)'
    BY <1>1, <1>2, <1>3 DEF RunningOf, Running, ProgressOf
  <2> QED
    BY <1>2, <1>3, <2>1, <2>2 DEF Local
<1>5. acts' \in 0..MaxActs
  BY StartsAssumption DEF Begin, Inv, Cluster
<1> QED
  BY <1>4, <1>5, OnlyMoves DEF Begin

LEMMA InterruptInv ==
  ASSUME Inv, NEW p \in Operators, Interrupt(p)
  PROVE  Inv'
<1>1. proc'[p] = Idle
  BY DEF Interrupt, Stopped, Inv, Procs
<1>2. ASSUME Orderly PROVE Local(p)'
  BY <1>1, <1>2, AtRest, IdleTyped DEF Idle
<1> QED
  BY <1>2, OnlyMoves DEF Interrupt, Inv, Cluster

LEMMA CheckGateInv ==
  ASSUME Inv, NEW p \in Operators, CheckGate(p)
  PROVE  Inv'
<1>1. CASE Holds(Step(p).on, proc[p].snap)
  <2> DEFINE step == Step(p)
  <2>1. proc'[p] = Onward(p) /\ Running(p)
    BY <1>1 DEF CheckGate, Inv, Procs
  <2>2. step \in Steps /\ step.op = "gate"
    BY StepTyped DEF CheckGate
  <2>3. PICK g \in Steps : g = Step(p)
    BY <2>2
  <2>4. Done(g, p)'
    <3>1. g = Gate("gateway_is_blue38") => value["gateway"] = {"blue38"}
      BY <1>1, <2>3 DEF Gate, Holds, Backends, Suites
    <3>2. g = Gate("gateway_is_green") => value["gateway"] = {"green"}
      BY <1>1, <2>3 DEF Gate, Holds, Backends, Suites
    <3>3. g = Gate("candidate_not_selected") => value["stable38"] # {"blue"}
      BY <1>1, <2>3 DEF Gate, Holds, Backends, Suites
    <3>4. ASSUME NEW b \in Lasting, g = Gate(b) PROVE b \in up
      <4>1. Step(p).on = b
        BY <2>3, <3>4 DEF Gate
      <4>2. Holds(b, proc[p].snap)
        BY <1>1, <4>1
      <4>3. \A x \in Suites \cup {"gateway_is_blue38", "gateway_is_green", "candidate_not_selected",
                               "worker_unchanged", "no_pool_in_compiled_route"} : b # x
        BY DEF Lasting, Backends, Suites
      <4>4. b \in Backends
        BY DEF Lasting
      <4> QED
        BY <4>2, <4>3, <4>4 DEF Holds
    <3>5. g.op = "gate" /\ (\A o : Patch(o).op = "patch") /\ UNCHANGED <<value, up>>
      BY <2>2, <2>3 DEF CheckGate, Patch
    <3> QED
      BY <3>1, <3>2, <3>3, <3>4, <3>5 DEF Done
  <2>5. ASSUME Orderly PROVE Local(p)'
    BY <2>1, <2>3, <2>4, <2>5, MovesOn DEF Inv
  <2> QED
    BY <1>1, <2>5, OnlyMoves DEF CheckGate, Inv, Cluster
<1>2. CASE ~ Holds(Step(p).on, proc[p].snap)
  <2>1. proc'[p] = Idle
    BY <1>2 DEF CheckGate, Stopped, Inv, Procs
  <2>2. ASSUME Orderly PROVE Local(p)'
    BY <2>1, <2>2, AtRest, IdleTyped DEF Idle
  <2> QED
    BY <1>2, <2>2, OnlyMoves DEF CheckGate, Inv, Cluster
<1> QED
  BY <1>1, <1>2

\* What a read that is not refused adds.
LEMMA ReadObjectInv ==
  ASSUME Inv, NEW p \in Operators, ReadObject(p)
  PROVE  Inv'
<1>1. Step(p) \in Steps /\ Step(p).op = "read" /\ Running(p)
  BY StepTyped DEF ReadObject
<1>2. PICK o \in Objects : o = Step(p).on
  BY <1>1 DEF Steps
<1> DEFINE refused == Refuses(proc[p].script, o, value[o]) \/ AlreadyThere(proc[p].script, value[o])
           read == [value |-> value[o], version |-> version[o]]
           r == [Onward(p) EXCEPT !.snap[o] = read]
<1>3. CASE refused
  <2>1. proc'[p] = Idle /\ proc' = [proc EXCEPT ![p] = Idle]
    BY <1>2, <1>3 DEF ReadObject, Stopped, Inv, Procs
  <2>2. ASSUME Orderly PROVE Local(p)'
    BY <2>1, <2>2, AtRest, IdleTyped DEF Idle
  <2> QED
    BY <2>1, <2>2, OnlyMoves DEF ReadObject, Inv, Cluster
<1>4. CASE ~ refused
  <2>1. proc'[p] = r /\ proc' = [proc EXCEPT ![p] = r]
    BY <1>2, <1>4 DEF ReadObject, Inv, Procs
  <2>2. /\ Typed(o, read.value) /\ read.version \in Nat \ {0}
        /\ read \in [value : SUBSET UNION {Values(x) : x \in Objects}, version : Nat]
    BY DEF Inv, Cluster, Typed
  <2>3. /\ o = "gateway" /\ proc[p].script = "promote_aggregator" => read.value = {"recovery"}
        /\ o = "aigatewayroute" /\ proc[p].script = "disable_qwen_epp" => "q-direct" \in read.value
    BY <1>4 DEF Refuses, DirectRuleLeft
  <2>4. proc[p] \in Process /\ SnapshotsOf(p) /\ RunningOf(p) /\ ProgressOf(p)
    BY DEF Inv, Local
  <2>5. /\ Onward(p) \in Process
        /\ \/ /\ Onward(p).at = 0 /\ Onward(p).snap = [x \in Objects |-> Nothing]
              /\ Onward(p).script = "none"
           \/ /\ proc[p].at # Len(Program(proc[p].script)) /\ Onward(p).at = proc[p].at + 1
              /\ Onward(p).snap = proc[p].snap /\ Onward(p).outcome = proc[p].outcome
              /\ Onward(p).script = proc[p].script /\ Onward(p).met = proc[p].met
    <3>1. CASE proc[p].at = Len(Program(proc[p].script))
      <4> DEFINE d == [Idle EXCEPT !.outcome = "done"]
      <4>1. Onward(p) = d
        BY <3>1 DEF Onward
      <4>2. d \in Process /\ d.script = "none" /\ d.at = 0
            /\ d.snap = [x \in Objects |-> Nothing]
        BY <2>4, IdleTyped DEF Idle, Process
      <4> QED
        BY <4>1, <4>2
    <3>2. CASE proc[p].at # Len(Program(proc[p].script))
      <4> DEFINE d == [proc[p] EXCEPT !.at = @ + 1]
      <4>1. Onward(p) = d
        BY <3>2 DEF Onward
      <4>2. d \in Process /\ d.script = proc[p].script /\ d.at = proc[p].at + 1
            /\ d.snap = proc[p].snap /\ d.outcome = proc[p].outcome /\ d.met = proc[p].met
        BY <2>4 DEF Process
      <4> QED
        BY <3>2, <4>1, <4>2
    <3> QED
      BY <3>1, <3>2
  <2>6. /\ r \in Process /\ r.script = Onward(p).script /\ r.at = Onward(p).at /\ r.met = Onward(p).met
        /\ r.outcome = Onward(p).outcome /\ r.snap[o] = read
        /\ \A x \in Objects \ {o} : r.snap[x] = Onward(p).snap[x]
    BY <2>2, <2>5 DEF Process
  <2>7. ASSUME Orderly PROVE Local(p)'
    <3>1. UNCHANGED <<value, version, up>>
      BY DEF ReadObject
    <3>2. SnapshotsOf(p)'
      <4> SUFFICES ASSUME NEW x \in Objects
                   PROVE  LET got == r.snap[x] IN
                      /\ got.version <= version[x]
                      /\ got.version > 0 => Typed(x, got.value)
                      /\ got.version = version[x] => got.value = value[x]
                      /\ Running(p)' /\ Alone(p)' /\ x = "muse" /\ got.version > 0
                           /\ got.value = {"release"} => value[x] = {"release"}
                      /\ x = "gateway" /\ got.version > 0 /\ r.script = "promote_aggregator" =>
                           got.value = {"recovery"}
                      /\ x = "aigatewayroute" /\ got.version > 0 /\ r.script = "disable_qwen_epp" =>
                           "q-direct" \in got.value
        BY <2>1, <3>1 DEF SnapshotsOf
      <4>1. CASE x = o
        BY <2>2, <2>3, <2>5, <2>6, <4>1
      <4>2. CASE x # o /\ Onward(p).at = 0
        <5>1. Onward(p).snap = [y \in Objects |-> Nothing]
          BY <2>4, <2>5, <4>2 DEF Process
        <5>2. r.snap[x].version = 0 /\ version[x] \in Nat \ {0}
          BY <2>6, <4>2, <5>1 DEF Nothing, Inv, Cluster
        <5> QED
          BY <5>2
      <4>3. CASE x # o /\ Onward(p).at # 0
        <5>1. r.snap[x] = proc[p].snap[x] /\ r.script = proc[p].script
          BY <2>5, <2>6, <4>3
        <5>2. Alone(p)' => Alone(p)
          BY <2>1, <2>5, <2>6, <4>3 DEF Alone
        <5> QED
          BY <1>1, <2>4, <5>1, <5>2 DEF SnapshotsOf
      <4> QED
        BY <4>1, <4>2, <4>3
    <3>3. CASE r.at = 0
      BY <2>1, <2>6, <3>2, <3>3 DEF Local, RunningOf, ProgressOf, Running
    <3>4. CASE r.at # 0
      <4>1. RunningOf(p)'
        BY <1>1, <2>1, <2>4, <2>5, <2>6, <3>4, Programs DEF RunningOf, Running, Process
      <4>2. ProgressOf(p)'
        <5> SUFFICES ASSUME NEW i \in 1..proc[p].at
                     PROVE  Done(Program(proc[p].script)[i], p)'
          BY <2>1, <2>4, <2>5, <2>6, <3>4 DEF ProgressOf, Running, Process
        <5>1. PICK step \in Steps : step = Program(proc[p].script)[i]
          BY <1>1, <2>4, Programs DEF RunningOf, Process
        <5>2. step.op = "read" => r.snap[step.on].version > 0
          <6>1. CASE i = proc[p].at
            <7>1. step.on = o
              BY <1>2, <5>1, <6>1 DEF Step
            <7> QED
              BY <2>2, <2>6, <7>1
          <6>2. CASE i # proc[p].at
            <7>1. Done(step, p)
              BY <1>1, <2>4, <5>1, <6>2 DEF ProgressOf, Process
            <7> QED
              BY <2>2, <2>5, <2>6, <3>4, <7>1 DEF Done, Steps
          <6> QED
            BY <6>1, <6>2
        <5>3. step.op # "read" => Done(step, p)
          BY <1>1, <2>4, <5>1 DEF ProgressOf, Process, Step
        <5>4. Done(step, p)'
          <6>1. (Alone(p)' <=> Alone(p)) /\ (Calm(p)' <=> Calm(p))
            BY <2>1, <2>5, <2>6, <3>4 DEF Alone, Calm
          <6> QED
            BY <2>1, <3>1, <5>2, <5>3, <6>1 DEF Done, Read, Gate, Patch, Steps
        <5> QED
          BY <2>1, <2>5, <2>6, <3>4, <5>1, <5>4
      <4> QED
        BY <2>1, <2>6, <3>2, <4>1, <4>2 DEF Local
    <3> QED
      BY <3>3, <3>4
  <2> QED
    BY <2>1, <2>7, OnlyMoves DEF ReadObject, Inv, Cluster
<1> QED
  BY <1>3, <1>4

-----------------------------------------------------------------------------
(* A patch.                                                                *)

\* What a script is about to write, and what it knows of it.
Written(p) == Edit(proc[p].script, Step(p).on, proc[p].snap)
Stored(p) ==
  IF Step(p).on = "discovery" THEN value[Step(p).on] \cup Written(p) ELSE Written(p)
Patching(p) == Running(p) /\ Step(p).op = "patch"

\* The object was read, and what the script did before is still there.
LEMMA Before ==
  ASSUME Inv, NEW p \in Operators, Patching(p), NEW o \in Objects, o = Step(p).on,
         NEW s \in ScriptNames, s = proc[p].script
  PROVE  /\ s \in Writers(o) /\ Step(p) = Patch(o) /\ SnapshotsOf(p)
         /\ o \notin Applied => proc[p].snap[o].version > 0
         /\ o \in {"discovery", "manifest"} => proc[p].snap["gateway"].version > 0
         /\ Alone(p) =>
              /\ o = "aigatewayroute" /\ s \in {"stage_muse", "final_muse"} => value["muse"] = {"release"}
              /\ o = "aigatewayroute" /\ s = "add_route" => Supported("38")
              /\ o = "aigatewayroute" /\ s = "add_flint_route" => Supported("flint")
              /\ o = "candidate38" => value["stable38"] # {"blue"}
         /\ Calm(p) =>
              /\ s = "promote_operator" => "graph38" \in up
              /\ s = "disable_qwen_epp" => "q-frontend" \in up
              /\ s \in {"stage_muse", "final_muse"} => "m-epp" \in up /\ "m-release" \in up
<1>1. Prepared(s, proc[p].at) /\ Step(p) \in Steps
  BY StepTyped DEF Patching
<1>2. \A i \in 1..(proc[p].at - 1) : Done(Program(s)[i], p)
  BY DEF Patching, Inv, Local, ProgressOf
<1>3. Step(p) = Program(s)[proc[p].at] /\ Step(p).op = "patch" /\ Program(s)[proc[p].at].on = o
  BY DEF Patching, Step
<1>4. Step(p) = Patch(o)
  BY <1>1, <1>3 DEF Steps, Patch
<1>5. SnapshotsOf(p)
  BY DEF Inv, Local
<1>6. \A x \in Objects : Done(Read(x), p) => proc[p].snap[x].version > 0
  BY DEF Done, Read
<1>7. Alone(p) =>
        /\ Done(Patch("muse"), p) => value["muse"] = {"release"}
        /\ \A x \in {"backend38", "backendflint"} : Done(Patch(x), p) => value[x] # {}
        /\ Done(Gate("gateway_is_blue38"), p) => value["gateway"] = {"blue38"}
        /\ Done(Gate("gateway_is_green"), p) => value["gateway"] = {"green"}
        /\ Done(Gate("candidate_not_selected"), p) => value["stable38"] # {"blue"}
  BY DEF Done
<1>8. Calm(p) => \A b \in Lasting : Done(Gate(b), p) => b \in up
  BY DEF Done
<1>9. s \in Writers(o)
  BY <1>1, <1>3 DEF Prepared
<1>10. o \notin Applied => proc[p].snap[o].version > 0
  BY <1>1, <1>2, <1>3, <1>6 DEF Prepared
<1>11. o \in {"discovery", "manifest"} => proc[p].snap["gateway"].version > 0
  BY <1>1, <1>2, <1>3, <1>6 DEF Prepared, Objects
<1>12. ASSUME Alone(p), o = "aigatewayroute", s \in {"stage_muse", "final_muse"}
       PROVE  value["muse"] = {"release"}
  BY <1>1, <1>2, <1>3, <1>7, <1>12 DEF Prepared
<1>13. ASSUME Alone(p), o = "aigatewayroute", s = "add_route" PROVE Supported("38")
  <2>1. Done(Gate("gateway_is_blue38"), p) /\ Done(Patch("backend38"), p)
    BY <1>1, <1>2, <1>3, <1>13 DEF Prepared
  <2> QED
    BY <1>7, <1>13, <2>1 DEF Supported, MusePools
<1>14. ASSUME Alone(p), o = "aigatewayroute", s = "add_flint_route" PROVE Supported("flint")
  <2>1. Done(Gate("gateway_is_green"), p) /\ Done(Patch("backendflint"), p)
    BY <1>1, <1>2, <1>3, <1>14 DEF Prepared
  <2> QED
    BY <1>7, <1>14, <2>1 DEF Supported, MusePools
<1>15. ASSUME Alone(p), o = "candidate38" PROVE value["stable38"] # {"blue"}
  BY <1>1, <1>2, <1>3, <1>7, <1>15 DEF Prepared
<1>16. {"graph38", "q-frontend", "m-epp", "m-release"} \subseteq Lasting
  BY DEF Lasting, Backends
<1>17. ASSUME Calm(p), s = "promote_operator" PROVE "graph38" \in up
  BY <1>1, <1>2, <1>3, <1>8, <1>16, <1>17 DEF Prepared
<1>18. ASSUME Calm(p), s = "disable_qwen_epp" PROVE "q-frontend" \in up
  BY <1>1, <1>2, <1>3, <1>8, <1>16, <1>18 DEF Prepared
<1>19. ASSUME Calm(p), s \in {"stage_muse", "final_muse"} PROVE "m-epp" \in up /\ "m-release" \in up
  BY <1>1, <1>2, <1>3, <1>8, <1>16, <1>19 DEF Prepared
<1> QED
  BY <1>4, <1>5, <1>9, <1>10, <1>11, <1>12, <1>13, <1>14, <1>15, <1>17, <1>18, <1>19

LEMMA StoredTyped ==
  ASSUME Inv, NEW p \in Operators, Patching(p), NEW o \in Objects, o = Step(p).on
  PROVE  /\ Typed(o, Stored(p))
         /\ o = "muse" => Written(p) = {"release"}
         /\ o \in {"discovery", "manifest"} =>
              Serving(proc[p].snap) \in {"recovery", "blue38", "green"}
<1> DEFINE s == proc[p].script
           snap == proc[p].snap
<1>1. s \in ScriptNames
  BY StepTyped DEF Patching
<1>2. /\ s \in Writers(o) /\ SnapshotsOf(p)
      /\ o \notin Applied => snap[o].version > 0
      /\ o \in {"discovery", "manifest"} => snap["gateway"].version > 0
  BY <1>1, Before
<1>3. o \notin Applied => Typed(o, snap[o].value)
  BY <1>2 DEF SnapshotsOf
<1>4. o \in {"discovery", "manifest"} => Serving(snap) \in {"recovery", "blue38", "green"}
  <2>1. SUFFICES ASSUME o \in {"discovery", "manifest"}
                 PROVE  Serving(snap) \in {"recovery", "blue38", "green"}
    OBVIOUS
  <2>2. Typed("gateway", snap["gateway"].value)
    BY <1>2, <2>1 DEF SnapshotsOf, Objects
  <2>3. \E g \in {"recovery", "blue38", "green"} : snap["gateway"].value = {g}
    BY <2>2 DEF Typed, Single, Values
  <2> QED
    BY <2>3 DEF Serving
<1>5. CASE o = "gateway"
  BY <1>5 DEF Stored, Written, Edit, Selected, Replaced, Typed, Single, Values
<1>6. CASE o = "stable38"
  BY <1>6 DEF Stored, Written, Edit, Selected, Replaced, Typed, Single, Values
<1>7. CASE o = "muse"
  BY <1>7 DEF Stored, Written, Edit, Selected, Replaced, Typed, Single, Values
<1>8. CASE o = "canary"
  BY <1>8 DEF Stored, Written, Edit, Selected, Replaced, Typed, Single, Values
<1>9. CASE o = "candidate38"
  BY <1>9 DEF Stored, Written, Edit, Selected, Replaced, Typed, Single, Values
<1>10. CASE o = "httproute"
  <2>1. Stored(p) = (snap[o].value \ {"m-native-old"}) \cup {"m-native"}
    BY <1>10 DEF Stored, Written, Edit, Selected
  <2> QED
    BY <1>3, <1>10, <2>1 DEF Typed, Single, Values, Applied
<1>11. CASE o = "discovery"
  <2>1. Stored(p) = value[o] \cup (snap[o].value \cup {Serving(snap)})
    BY <1>11 DEF Stored, Written, Edit, Selected
  <2>2. Typed(o, value[o])
    BY DEF Inv, Cluster
  <2> QED
    BY <1>3, <1>4, <1>11, <2>1, <2>2 DEF Typed, Single, Values, Applied
<1>12. CASE o = "manifest"
  <2>1. Stored(p) = {Serving(snap)}
    BY <1>12 DEF Stored, Written, Edit, Selected
  <2> QED
    BY <1>4, <1>12, <2>1 DEF Typed, Single, Values
<1>13. CASE o = "aigatewayroute"
  <2>1. Stored(p) = RouteEdit(s, snap[o].value)
    BY <1>13 DEF Stored, Written, Edit, Selected
  <2>2. snap[o].value \subseteq Values(o)
    BY <1>3, <1>13 DEF Typed, Applied
  <2>3. RouteEdit(s, snap[o].value) \subseteq Values(o)
    BY <1>2, <1>13, <2>2 DEF RouteEdit, MuseRules, Writers, Values, MusePools, MuseDirect
  <2> QED
    BY <1>13, <2>1, <2>3 DEF Typed, Single
<1>14. o # "worker"
  BY <1>2 DEF Writers
<1>15. CASE o \in {"backend38", "backendflint"}
  BY <1>15 DEF Stored, Written, Edit, Selected, Replaced, Typed, Single, Values
<1> QED
  BY <1>4, <1>5, <1>6, <1>7, <1>8, <1>9, <1>10, <1>11, <1>12, <1>13, <1>14, <1>15 DEF Objects

\* The tests of a patch that is carried out.
LEMMA Tested ==
  ASSUME Inv, NEW p \in Operators, Patching(p), NEW o \in Objects, o = Step(p).on,
         Unchanged(proc[p].script, o, proc[p].snap)
  PROVE  /\ o = "gateway" => value[o] = {"recovery"}
         /\ o = "aigatewayroute" =>
              /\ Stored(p) = RouteEdit(proc[p].script, value[o])
              /\ proc[p].script = "disable_qwen_epp" => "q-direct" \in value[o]
<1> DEFINE s == proc[p].script
           snap == proc[p].snap
<1>1. s \in ScriptNames
  BY StepTyped DEF Patching
<1>2. s \in Writers(o) /\ SnapshotsOf(p) /\ (o \in {"gateway", "aigatewayroute"} => snap[o].version > 0)
  BY <1>1, Before DEF Applied
<1>3. o \in {"gateway", "aigatewayroute"} => value[o] = snap[o].value
  BY <1>2 DEF Unchanged, TestsVersion, TestsValue, SnapshotsOf, Writers, Applied
<1>4. ASSUME o = "gateway" PROVE value[o] = {"recovery"}
  BY <1>2, <1>3, <1>4 DEF SnapshotsOf, Writers
<1>5. ASSUME o = "aigatewayroute" PROVE Stored(p) = RouteEdit(s, value[o])
  BY <1>3, <1>5 DEF Stored, Written, Edit, Selected
<1>6. ASSUME o = "aigatewayroute", s = "disable_qwen_epp" PROVE "q-direct" \in value[o]
  BY <1>2, <1>3, <1>6 DEF SnapshotsOf
<1> QED
  BY <1>4, <1>5, <1>6

\* What a patch that is carried out does to the backends.
Restarts(p) ==
  up' = up \/ (Stored(p) # value[Step(p).on] /\ up' = up \ Restarted(Step(p).on, proc[p].snap))

LEMMA PatchOrderly ==
  ASSUME Inv, NEW p \in Operators, Patching(p), NEW o \in Objects, o = Step(p).on,
         Unchanged(proc[p].script, o, proc[p].snap),
         value' = [value EXCEPT ![o] = Stored(p)],
         version' = [version EXCEPT ![o] = IF Stored(p) = value[o] THEN @ ELSE @ + 1],
         Restarts(p), UNCHANGED <<evidence, acts>>
  PROVE  Orderly /\ Cluster'
<1>1. /\ Typed(o, Stored(p)) /\ (o = "muse" => Stored(p) = {"release"})
      /\ o = "discovery" => Serving(proc[p].snap) \in {"recovery", "blue38", "green"}
  BY StoredTyped DEF Stored
<1>2. o = "gateway" => value[o] = {"recovery"}
  BY Tested
<1>3. /\ DOMAIN value = Objects /\ version \in [Objects -> Nat \ {0}]
      /\ \A x \in Objects : Typed(x, value[x])
  BY DEF Inv, Cluster
<1>4. /\ DOMAIN value' = Objects /\ \A x \in Objects \ {o} : value'[x] = value[x]
      /\ value'[o] = Stored(p)
  BY <1>3
<1>5. /\ version' \in [Objects -> Nat \ {0}]
      /\ \A x \in Objects \ {o} : version'[x] = version[x]
      /\ version'[o] = IF Stored(p) = value[o] THEN version[o] ELSE version[o] + 1
  BY <1>3
<1>6. \A x \in Objects : \/ value'[x] = value[x] /\ version'[x] = version[x]
                         \/ version'[x] = version[x] + 1
  BY <1>4, <1>5
<1>7. value["muse"] = {"release"} => value'["muse"] = {"release"}
  BY <1>1, <1>4 DEF Objects
<1>8. value'["gateway"] = value["gateway"] \/ value["gateway"] = {"recovery"}
  BY <1>2, <1>4 DEF Objects
<1>9. value["stable38"] # {"blue"} => value'["stable38"] # {"blue"}
  <2>1. o = "stable38" => Stored(p) = {"graph"}
    BY DEF Stored, Written, Edit, Selected, Replaced
  <2> QED
    BY <1>4, <2>1 DEF Objects
<1>10. \A x \in {"backend38", "backendflint"} : value[x] # {} => value'[x] # {}
  <2>1. CASE o = "backend38"
    <3>1. Stored(p) = {"applied"}
      BY <2>1 DEF Stored, Written, Edit, Selected, Replaced
    <3> QED
      BY <1>4, <2>1, <3>1 DEF Objects
  <2>2. CASE o = "backendflint"
    <3>1. Stored(p) = {"applied"}
      BY <2>2 DEF Stored, Written, Edit, Selected, Replaced
    <3> QED
      BY <1>4, <2>2, <3>1 DEF Objects
  <2>3. CASE o \notin {"backend38", "backendflint"}
    BY <1>4, <2>3 DEF Objects
  <2> QED
    BY <2>1, <2>2, <2>3
<1>11. up \cap Lasting \subseteq up' /\ up' \subseteq up
  BY <1>1 DEF Restarts, Restarted, Lasting
<1>12. Orderly
  BY <1>5, <1>6, <1>7, <1>8, <1>9, <1>10, <1>11 DEF Orderly
<1>13. Cluster'
  BY <1>1, <1>4, <1>5, <1>11 DEF Inv, Cluster
<1> QED
  BY <1>12, <1>13

LEMMA PatchObjectInv ==
  ASSUME Inv, NEW p \in Operators, PatchObject(p)
  PROVE  Inv'
<1>1. Patching(p) /\ Step(p) \in Steps
  BY StepTyped DEF PatchObject, Patching
<1>2. PICK o \in Objects : o = Step(p).on
  BY <1>1 DEF Patching, Steps, Gates
<1>3. PICK step \in Steps : step = Step(p)
  BY <1>1
<1> DEFINE s == proc[p].script
           same == s \in Compares /\ Written(p) = proc[p].snap[o].value
<1>4. CASE same
  <2>1. /\ proc' = [proc EXCEPT ![p] = Onward(p)] /\ UNCHANGED <<value, version, up, evidence, acts>>
    BY <1>2, <1>4 DEF PatchObject, Written
  <2>2. /\ o = "muse" /\ Alone(p) => value["muse"] = {"release"}
        /\ o \notin {"backend38", "backendflint"}
    <3>1. s \in ScriptNames
      BY <1>1, StepTyped DEF Patching
    <3>2. s \in Writers(o) /\ SnapshotsOf(p) /\ (o = "muse" => proc[p].snap[o].version > 0)
      BY <1>1, <1>2, <3>1, Before DEF Applied
    <3>3. o = "muse" => proc[p].snap[o].value = {"release"}
      BY <1>1, <1>2, <1>4, StoredTyped
    <3>4. s \notin {"add_route", "add_flint_route"}
      BY <1>4 DEF Compares
    <3> QED
      BY <1>1, <3>2, <3>3, <3>4 DEF SnapshotsOf, Patching, Writers
  <2>4. proc'[p] = Onward(p)
    BY <2>1 DEF Inv, Procs
  <2>3. Running(p)' => Done(step, p)'
    <3>1. Running(p)' /\ Alone(p)' => Alone(p)
      BY <2>4 DEF Onward, Running, Idle, Alone, Inv, Local, Process
    <3>2. /\ step.op = "patch" /\ step.on = o
          /\ \A x \in Objects : step = Patch(x) => x = o
      BY <1>1, <1>2, <1>3 DEF Patching, Patch
    <3>3. \A g : step # Gate(g)
      BY <3>2 DEF Gate
    <3>4. {"muse", "backend38", "backendflint"} \subseteq Objects
      BY DEF Objects
    <3>5. UNCHANGED value
      BY <2>1
    <3> QED
      BY <2>2, <3>1, <3>2, <3>3, <3>4, <3>5 DEF Done
  <2>5. ASSUME Orderly PROVE Local(p)'
    BY <1>1, <1>3, <2>3, <2>4, <2>5, MovesOn DEF Inv, Patching
  <2> QED
    BY <2>1, <2>5, OnlyMoves DEF Inv, Cluster
<1>5. CASE ~ same /\ ~ Unchanged(s, o, proc[p].snap)
  <2>1. proc' = [proc EXCEPT ![p] = Idle] /\ UNCHANGED <<value, version, up, evidence, acts>>
    BY <1>2, <1>5 DEF PatchObject, Written, Stopped
  <2>2. ASSUME Orderly PROVE Local(p)'
    <3>1. proc'[p] = Idle
      BY <2>1 DEF Inv, Procs
    <3> QED
      BY <2>2, <3>1, AtRest, IdleTyped DEF Idle
  <2> QED
    BY <2>1, <2>2, OnlyMoves DEF Inv, Cluster
<1>6. CASE ~ same /\ Unchanged(s, o, proc[p].snap)
  <2>1. /\ value' = [value EXCEPT ![o] = Stored(p)]
        /\ version' = [version EXCEPT ![o] = IF Stored(p) = value[o] THEN @ ELSE @ + 1]
        /\ proc' = Disturbing(p, Onward(p)) /\ Restarts(p) /\ UNCHANGED <<evidence, acts>>
    BY <1>2, <1>6 DEF PatchObject, Written, Stored, Restarts
  <2>2. Orderly /\ Cluster'
    BY <1>1, <1>2, <1>6, <2>1, PatchOrderly
  <2>3. Procs'
    BY <2>1 DEF Disturbing, Procs
  <2>4. Local(p)'
    <3>1. proc'[p] = Onward(p)
      BY <2>1 DEF Disturbing
    <3>2. /\ o = "muse" => value'["muse"] = {"release"}
          /\ o \in {"backend38", "backendflint"} => value'[o] = {"applied"}
      <4>1. value'[o] = Stored(p)
        BY <2>1 DEF Inv, Cluster
      <4>2. o \in {"backend38", "backendflint"} => Stored(p) = {"applied"}
        BY <1>2 DEF Stored, Written, Edit, Selected, Replaced
      <4> QED
        BY <1>1, <1>2, <4>1, <4>2, StoredTyped DEF Stored
    <3>3. /\ step.op = "patch" /\ step.on = o
          /\ \A x \in Objects : step = Patch(x) => x = o
      BY <1>1, <1>2, <1>3 DEF Patching, Patch
    <3>4. \A g : step # Gate(g)
      BY <3>3 DEF Gate
    <3>5. {"muse", "backend38", "backendflint"} \subseteq Objects
      BY DEF Objects
    <3>6. Done(step, p)'
      BY <3>2, <3>3, <3>4, <3>5 DEF Done
    <3> QED
      BY <1>1, <1>3, <2>2, <3>1, <3>6, MovesOn DEF Inv, Patching
  <2>5. ASSUME NEW q \in Operators, q # p PROVE Local(q)'
    <3>1. PICK b \in SUBSET Disturbances :
            proc[q].met \subseteq b /\ proc'[q] = [proc[q] EXCEPT !.met = b]
      BY <2>1, <2>5, Passed DEF Inv, Local
    <3> QED
      BY <2>2, <3>1, Bystander DEF Inv
  <2> QED
    BY <2>2, <2>3, <2>4, <2>5 DEF Inv
<1> QED
  BY <1>4, <1>5, <1>6

-----------------------------------------------------------------------------
(* The surroundings.                                                       *)

LEMMA OthersWriteInv ==
  ASSUME Inv, NEW o \in Objects, NEW new, OthersWrite(o, new), Typed(o, new)
  PROVE  Inv'
<1>1. /\ value' = [value EXCEPT ![o] = new] /\ version' = [version EXCEPT ![o] = @ + 1]
      /\ proc' = [p \in Operators |-> Meets(p, "write")]
      /\ acts' = acts + 1 /\ acts < MaxActs /\ UNCHANGED <<up, evidence>>
  BY DEF OthersWrite
<1>2. /\ DOMAIN value = Objects /\ version \in [Objects -> Nat \ {0}]
      /\ \A x \in Objects : Typed(x, value[x]) /\ acts \in Nat /\ MaxActs \in Nat
  BY StartsAssumption DEF Inv, Cluster
<1>3. /\ DOMAIN value' = Objects /\ \A x \in Objects \ {o} : value'[x] = value[x]
      /\ value'[o] = new
  BY <1>1, <1>2
<1>4. \A q \in Operators : \E b \in SUBSET Disturbances :
        /\ proc[q].met \subseteq b /\ proc'[q] = [proc[q] EXCEPT !.met = b]
        /\ Running(q) => "write" \in b
  BY <1>1, Noticed DEF Inv, Local, Disturbances
<1>5. Orderly
  <2>1. version' \in [Objects -> Nat \ {0}]
        /\ \A x \in Objects : \/ value'[x] = value[x] /\ version'[x] = version[x]
                              \/ version'[x] = version[x] + 1
    BY <1>1, <1>2, <1>3
  <2>2. \A q \in Operators : Running(q) => ~Alone(q)'
    BY <1>4 DEF Alone, Inv, Local, Process
  <2> QED
    BY <1>1, <2>1, <2>2 DEF Orderly
<1>6. Cluster'
  BY <1>1, <1>2, <1>3, <1>5 DEF Inv, Cluster, Orderly
<1>7. ASSUME NEW q \in Operators PROVE Local(q)'
  BY <1>4, <1>5, Bystander DEF Inv
<1>8. Procs'
  BY <1>1 DEF Procs
<1> QED
  BY <1>6, <1>7, <1>8 DEF Inv

LEMMA FailsInv ==
  ASSUME Inv, NEW b \in Backends, Fails(b)
  PROVE  Inv'
<1>1. /\ UNCHANGED <<value, version, evidence>> /\ up' = up \ {b}
      /\ proc' = [p \in Operators |-> Meets(p, "outage")]
      /\ acts' = acts + 1 /\ acts < MaxActs
  BY DEF Fails
<1>2. \A q \in Operators : \E c \in SUBSET Disturbances :
        /\ proc[q].met \subseteq c /\ proc'[q] = [proc[q] EXCEPT !.met = c]
        /\ Running(q) => "outage" \in c
  BY <1>1, Noticed DEF Inv, Local, Disturbances
<1>3. \A q \in Operators : Running(q) => ~Calm(q)'
  <2> SUFFICES ASSUME NEW q \in Operators, Running(q) PROVE ~Calm(q)'
    OBVIOUS
  <2>1. PICK c \in SUBSET Disturbances :
          proc'[q] = [proc[q] EXCEPT !.met = c] /\ "outage" \in c
    BY <1>2
  <2>2. proc'[q].met = c
    BY <2>1 DEF Inv, Local, Process
  <2> QED
    BY <2>1, <2>2 DEF Calm
<1>4. Orderly
  BY <1>1, <1>3, StillOrderly DEF Inv
<1>5. Cluster'
  BY <1>1, StartsAssumption DEF Inv, Cluster
<1>6. \A q \in Operators : Local(q)'
  BY <1>2, <1>4, Bystander DEF Inv
<1>7. Procs'
  BY <1>1 DEF Procs
<1> QED
  BY <1>5, <1>6, <1>7 DEF Inv

\* A step that touches neither an object nor an operator.
LEMMA Elsewhere ==
  ASSUME Inv, UNCHANGED <<value, version, proc, acts>>, up \subseteq up',
         up' \subseteq Backends, evidence' \subseteq Suites
  PROVE  Inv'
<1>1. Orderly
  BY StillOrderly DEF Inv
<1>2. Cluster'
  BY DEF Inv, Cluster
<1>3. Procs' /\ \A q \in Operators : Local(q)'
  BY <1>1, Untouched DEF Inv, Procs
<1> QED
  BY <1>2, <1>3 DEF Inv

LEMMA InitInv ==
  ASSUME Init
  PROVE  Inv
<1>1. PICK s \in Starts : value = s.value /\ up = s.up
  BY DEF Init
<1>2. Cluster
  BY <1>1, StartsAssumption DEF Init, Cluster, Suites
<1>4. Procs
  BY DEF Init, Procs
<1>5. ASSUME NEW p \in Operators PROVE Local(p)
  <2>1. proc[p] = Idle /\ version = [o \in Objects |-> 1]
    BY DEF Init
  <2>2. Idle.at = 0 /\ Idle.snap = [o \in Objects |-> Nothing]
    BY DEF Idle
  <2> QED
    BY <2>1, <2>2, IdleTyped DEF Local, RunningOf, Running, ProgressOf, SnapshotsOf, Nothing
<1> QED
  BY <1>2, <1>4, <1>5 DEF Inv

LEMMA NextInv ==
  ASSUME Inv, [Next]_vars
  PROVE  Inv'
<1>1. ASSUME NEW p \in Operators, NEW s \in Scripts, Begin(p, s) PROVE Inv'
  BY <1>1, BeginInv
<1>2. ASSUME NEW p \in Operators, ReadObject(p) PROVE Inv'
  BY <1>2, ReadObjectInv
<1>3. ASSUME NEW p \in Operators, CheckGate(p) PROVE Inv'
  BY <1>3, CheckGateInv
<1>4. ASSUME NEW p \in Operators, PatchObject(p) PROVE Inv'
  BY <1>4, PatchObjectInv
<1>5. ASSUME NEW p \in Operators, Interrupt(p) PROVE Inv'
  BY <1>5, InterruptInv
<1>6. CASE RecordStaged
  <2>1. /\ UNCHANGED <<value, version, proc, acts, up>>
        /\ evidence' \subseteq Suites
    BY <1>6 DEF RecordStaged, Inv, Cluster, Suites
  <2> QED
    BY <2>1, Elsewhere DEF Inv, Cluster
<1>7. CASE RollBack
  <2>1. /\ Typed("gateway", {"recovery"}) /\ Typed("stable38", {"blue"})
        /\ Typed("muse", {"old"})
    BY DEF Typed, Single, Values
  <2>2. "gateway" \in Objects /\ "stable38" \in Objects /\ "muse" \in Objects
    BY DEF Objects
  <2> QED
    BY <1>7, <2>1, <2>2, OthersWriteInv DEF RollBack
<1>8. CASE WorkerRestarts
  <2>1. Typed("worker", {"restarted"}) /\ "worker" \in Objects
    BY DEF Typed, Single, Values, Objects
  <2> QED
    BY <1>8, <2>1, OthersWriteInv DEF WorkerRestarts
<1>9. CASE Regenerate
  <2>1. Typed("aigatewayroute", {"q-direct", "m-direct"}) /\ "aigatewayroute" \in Objects
    BY DEF Typed, Single, Values, Objects, MusePools, MuseDirect
  <2> QED
    BY <1>9, <2>1, OthersWriteInv DEF Regenerate
<1>10. ASSUME NEW b \in Backends, Fails(b) PROVE Inv'
  BY <1>10, FailsInv
<1>11. ASSUME NEW b \in Backends, ComesUp(b) PROVE Inv'
  <2>1. /\ UNCHANGED <<value, version, proc, acts, evidence>>
        /\ up \subseteq up' /\ up' \subseteq Backends
    BY <1>11 DEF ComesUp, Inv, Cluster
  <2> QED
    BY <2>1, Elsewhere DEF Inv, Cluster
<1>12. CASE UNCHANGED vars
  BY <1>12, Elsewhere DEF vars, Inv, Cluster
<1> QED
  BY <1>1, <1>2, <1>3, <1>4, <1>5, <1>6, <1>7, <1>8, <1>9, <1>10, <1>11, <1>12 DEF Next

-----------------------------------------------------------------------------
(* What a step of a script does to the rules and to who is reached.        *)

\* Objects and backends change under a script's own step by a patch, and the patch
\* tested what it changes.
LEMMA PatchWrites ==
  ASSUME Inv, NEW p \in Operators, PatchObject(p), value' # value
  PROVE  \E o \in Objects :
           /\ o = Step(p).on /\ Patching(p) /\ Unchanged(proc[p].script, o, proc[p].snap)
           /\ value' = [value EXCEPT ![o] = Stored(p)] /\ proc' = Disturbing(p, Onward(p))
           /\ Restarts(p)
<1>1. Patching(p) /\ Step(p) \in Steps
  BY StepTyped DEF PatchObject, Patching
<1>2. PICK o \in Objects : o = Step(p).on
  BY <1>1 DEF Patching, Steps, Gates
<1> QED
  BY <1>1, <1>2 DEF PatchObject, Stored, Written, Restarts

LEMMA OwnStep ==
  ASSUME Inv, [Next]_vars, NEW p \in Operators, Moves(p)
  PROVE  \/ UNCHANGED <<value, up>>
         \/ \E o \in Objects :
              /\ o = Step(p).on /\ Patching(p) /\ Unchanged(proc[p].script, o, proc[p].snap)
              /\ value' = [value EXCEPT ![o] = Stored(p)] /\ Restarts(p)
<1>1. /\ \A q \in Operators : proc[q] \in Process
      /\ DOMAIN proc = Operators /\ Running(p) /\ proc'[p].at # proc[p].at
  BY DEF Inv, Local, Procs, Moves
<1>2. ASSUME NEW what \in Disturbances, proc'[p] = Meets(p, what) PROVE FALSE
  <2>1. PICK b \in SUBSET Disturbances : proc'[p] = [proc[p] EXCEPT !.met = b]
    BY <1>1, <1>2, Noticed
  <2> QED
    BY <1>1, <2>1 DEF Process
<1>3. ASSUME NEW q \in Operators, PatchObject(q), q # p PROVE FALSE
  <2>1. proc' = [proc EXCEPT ![q] = Onward(q)] \/ proc' = [proc EXCEPT ![q] = Stopped]
          \/ proc' = Disturbing(q, Onward(q))
    BY <1>3 DEF PatchObject
  <2>2. proc' = Disturbing(q, Onward(q))
    BY <1>1, <1>3, <2>1
  <2>3. proc'[p] = Meets(p, "rival") \/ proc'[p] = proc[p]
    BY <1>3, <2>2 DEF Disturbing
  <2> QED
    BY <1>1, <1>2, <2>3 DEF Disturbances
<1>4. CASE PatchObject(p)
  <2>1. CASE value' = value
    <3>1. Restarts(p) => up' = up
      <4>1. value' = [value EXCEPT ![Step(p).on] = Stored(p)] /\ Step(p).on \in Objects =>
              Stored(p) = value[Step(p).on]
        BY <2>1 DEF Inv, Cluster
      <4>2. up' = up \/ value' = [value EXCEPT ![Step(p).on] = Stored(p)]
        BY <1>4 DEF PatchObject, Stored, Written
      <4>3. Step(p).on \in Objects
        BY <1>4, StepTyped DEF PatchObject, Steps
      <4> QED
        BY <4>1, <4>2, <4>3 DEF Restarts
    <3>2. up' = up \/ Restarts(p)
      BY <1>4 DEF PatchObject, Stored, Written, Restarts
    <3> QED
      BY <2>1, <3>1, <3>2
  <2> QED
    BY <1>4, <2>1, PatchWrites
<1>5. CASE UNCHANGED <<value, up>>
  BY <1>5
<1>6. ASSUME ~ UNCHANGED <<value, up>>, ~ PatchObject(p) PROVE FALSE
  <2>1. ASSUME NEW o, NEW new, OthersWrite(o, new) PROVE FALSE
    BY <1>2, <2>1 DEF OthersWrite, Disturbances
  <2>2. ~ RollBack /\ ~ WorkerRestarts /\ ~ Regenerate
    BY <2>1 DEF RollBack, WorkerRestarts, Regenerate
  <2>3. \A b \in Backends : ~ Fails(b) /\ ~ ComesUp(b)
    BY <1>1, <1>2 DEF Fails, ComesUp, Disturbances
  <2>4. ~ RecordStaged
    BY <1>1 DEF RecordStaged
  <2>5. \A q \in Operators : ~ ReadObject(q) /\ ~ CheckGate(q) /\ ~ Interrupt(q)
                           /\ \A x \in Scripts : ~ Begin(q, x)
    BY <1>6 DEF ReadObject, CheckGate, Interrupt, Begin
  <2>6. \A q \in Operators : ~ PatchObject(q)
    BY <1>3, <1>6
  <2> QED
    BY <1>6, <2>2, <2>3, <2>4, <2>5, <2>6 DEF Next, vars
<1> QED
  BY <1>4, <1>5, <1>6

LEMMA NextPreserves ==
  ASSUME Inv, [Next]_vars, NEW p \in Operators, Moves(p), Step(p) = Patch("aigatewayroute")
  PROVE  value'["aigatewayroute"] \ RulesOf(proc[p].script)
           = value["aigatewayroute"] \ RulesOf(proc[p].script)
<1> DEFINE s == proc[p].script
           route == value["aigatewayroute"]
<1>1. CASE UNCHANGED <<value, up>>
  BY <1>1
<1>2. ASSUME NEW o \in Objects, o = Step(p).on, Patching(p), Unchanged(s, o, proc[p].snap),
             value' = [value EXCEPT ![o] = Stored(p)]
      PROVE  value'["aigatewayroute"] \ RulesOf(s) = route \ RulesOf(s)
  <2>1. o = "aigatewayroute" /\ DOMAIN value = Objects
    BY <1>2 DEF Patch, Inv, Cluster
  <2>2. s \in ScriptNames
    BY <1>2, StepTyped DEF Patching
  <2>3. s \in Writers(o)
    BY <1>2, <2>2, Before
  <2>4. s \in {"add_route", "add_flint_route", "stage_muse", "final_muse", "disable_qwen_epp"}
    BY <2>1, <2>3 DEF Writers
  <2>5. value'["aigatewayroute"] = RouteEdit(s, route)
    BY <1>2, <2>1, Tested
  <2> QED
    BY <2>4, <2>5 DEF RouteEdit, RulesOf, MuseRules, MusePools, MuseDirect
<1> QED
  BY <1>1, <1>2, OwnStep

\* A step of an operator whom no other write has met leaves no new rule, and no
\* supported one, without its support.
LEMMA NextSupports ==
  ASSUME Inv, [Next]_vars, NEW p \in Operators, Moves(p), Alone(p), NEW rule \in value'["aigatewayroute"]
  PROVE  Supported(rule)' \/ (rule \in value["aigatewayroute"] /\ ~Supported(rule))
<1> DEFINE s == proc[p].script
           rules == value["aigatewayroute"]
<1>1. CASE UNCHANGED <<value, up>>
  BY <1>1 DEF Supported
<1>2. ASSUME NEW o \in Objects, o = Step(p).on, Patching(p), Unchanged(s, o, proc[p].snap),
             value' = [value EXCEPT ![o] = Stored(p)]
      PROVE  Supported(rule)' \/ (rule \in rules /\ ~Supported(rule))
  <2>1. s \in ScriptNames
    BY <1>2, StepTyped DEF Patching
  <2>2. /\ s \in Writers(o)
        /\ o = "aigatewayroute" /\ s \in {"stage_muse", "final_muse"} => value["muse"] = {"release"}
        /\ o = "aigatewayroute" /\ s = "add_route" => Supported("38")
        /\ o = "aigatewayroute" /\ s = "add_flint_route" => Supported("flint")
    BY <1>2, <2>1, Before
  <2>3. /\ value'[o] = Stored(p) /\ \A x \in Objects \ {o} : value'[x] = value[x]
        /\ {"aigatewayroute", "muse", "gateway", "backend38", "backendflint"} \subseteq Objects
    BY <1>2 DEF Inv, Cluster, Objects
  <2>4. /\ o = "gateway" => value[o] = {"recovery"}
        /\ o = "aigatewayroute" => value'[o] = RouteEdit(s, rules)
        /\ o = "muse" => value'[o] = {"release"}
    BY <1>2, <2>3, Tested, StoredTyped DEF Stored
  <2>5. /\ o = "backend38" => value'[o] = {"applied"}
        /\ o = "backendflint" => value'[o] = {"applied"}
    <3>1. ASSUME o = "backend38" PROVE Stored(p) = {"applied"}
      BY <1>2, <3>1 DEF Stored, Written, Edit, Selected, Replaced
    <3>2. ASSUME o = "backendflint" PROVE Stored(p) = {"applied"}
      BY <1>2, <3>2 DEF Stored, Written, Edit, Selected, Replaced
    <3> QED
      BY <2>3, <3>1, <3>2
  <2>6. CASE o # "aigatewayroute"
    <3>1. rule \in rules
      BY <2>3, <2>6
    <3>2. Supported(rule) => Supported(rule)'
      <4>1. CASE rule = "38"
        BY <2>3, <2>4, <2>5, <4>1 DEF Supported, MusePools
      <4>2. CASE rule = "flint"
        BY <2>3, <2>4, <2>5, <4>2 DEF Supported, MusePools
      <4>3. CASE rule \in MusePools
        BY <2>3, <2>4, <4>3 DEF Supported, MusePools
      <4>4. CASE rule \notin MusePools \cup {"38", "flint"}
        BY <4>4 DEF Supported
      <4> QED
        BY <4>1, <4>2, <4>3, <4>4
    <3> QED
      BY <3>1, <3>2
  <2>7. CASE o = "aigatewayroute"
    <3>1. /\ value'["aigatewayroute"] = RouteEdit(s, rules)
          /\ \A x \in {"muse", "gateway", "backend38", "backendflint"} : value'[x] = value[x]
      BY <2>3, <2>4, <2>7
    <3>2. Supported(rule)' <=> Supported(rule)
      BY <3>1 DEF Supported
    <3>3. s \in {"add_route", "add_flint_route", "stage_muse", "final_muse", "disable_qwen_epp"}
      BY <2>2, <2>7 DEF Writers
    <3>4. \/ rule \in rules
          \/ s = "add_route" /\ rule = "38"
          \/ s = "add_flint_route" /\ rule = "flint"
          \/ s \in {"stage_muse", "final_muse"} /\ rule \in {"m-direct"} \cup MusePools
      BY <3>1, <3>3 DEF RouteEdit, MuseRules, MusePools, MuseDirect
    <3>5. s \in {"stage_muse", "final_muse"} /\ rule \in {"m-direct"} \cup MusePools => Supported(rule)
      BY <2>2, <2>7 DEF Supported, MusePools
    <3> QED
      BY <2>2, <2>7, <3>2, <3>4, <3>5
  <2> QED
    BY <2>6, <2>7
<1> QED
  BY <1>1, <1>2, OwnStep

(* Whatever scripts any number of operators run and wherever they stop: a    *)
(* step of a script leaves no rule without what it relies on, but those it   *)
(* found so, unless someone else has written since the script began; and no  *)
(* read is ever newer than the object.                                       *)
THEOREM Ordered == Spec => InOrder
<1>1. Inv => TypeOK
  <2>1. Procs /\ (\A p \in Operators : Local(p)) => proc \in [Operators -> Process]
    BY DEF Procs, Local
  <2> QED
    BY <2>1 DEF Inv, TypeOK, Cluster, Local, RunningOf, SnapshotsOf
<1>2. Inv /\ [Next]_vars =>
        [\A p \in Operators : Moves(p) /\ "write" \notin proc[p].met =>
           \A rule \in value'["aigatewayroute"] :
             Supported(rule)' \/ (rule \in value["aigatewayroute"] /\ ~Supported(rule))]_vars
  BY NextSupports DEF Alone
<1> QED
  BY <1>1, <1>2, InitInv, NextInv, PTL DEF Spec, InOrder

(* A patch of the AI route, whatever was read before and whoever patched it  *)
(* in between, changes no rule but those of its script's model.              *)
THEOREM Preservation == Spec => RulesPreserved
<1>1. Inv /\ [Next]_vars =>
        [\A p \in Operators :
           Moves(p) /\ Step(p) = Patch("aigatewayroute") =>
             value'["aigatewayroute"] \ RulesOf(proc[p].script)
               = value["aigatewayroute"] \ RulesOf(proc[p].script)]_vars
  BY NextPreserves
<1> QED
  BY <1>1, InitInv, NextInv, PTL DEF Spec, RulesPreserved

-----------------------------------------------------------------------------
(* Who is reached.                                                         *)

Models == {"qwen", "muse", "qwen38", "flint"}

\* The paths only depend on a few objects.
LEMMA SamePaths ==
  ASSUME NEW m \in Models,
         \A x \in {"aigatewayroute", "muse", "gateway", "stable38", "backend38", "backendflint"} :
           value'[x] = value[x]
  PROVE  Hops(m)' = Hops(m)
<1>1. (Supported("38")' <=> Supported("38")) /\ (Supported("flint")' <=> Supported("flint"))
  BY DEF Supported, MusePools
<1> QED
  BY <1>1 DEF Hops, Models

\* A patch outside the AI route keeps every model reachable, but for the announced
\* restart.
LEMMA ElsewhereReaches ==
  ASSUME Inv, NEW p \in Operators, Patching(p), NEW o \in Objects, o = Step(p).on,
         o # "aigatewayroute", Unchanged(proc[p].script, o, proc[p].snap),
         value' = [value EXCEPT ![o] = Stored(p)], Restarts(p), Alone(p), Calm(p),
         NEW m \in Models, Reachable(m)
  PROVE  Reachable(m)' \/ Announced(p, m)
<1> DEFINE s == proc[p].script
           paths == {"aigatewayroute", "muse", "gateway", "stable38", "backend38", "backendflint"}
<1>1. s \in ScriptNames
  BY StepTyped DEF Patching
<1>2. /\ s \in Writers(o) /\ Step(p) = Patch(o)
      /\ o = "candidate38" => value["stable38"] # {"blue"}
      /\ s = "promote_operator" => "graph38" \in up
      /\ s \in {"stage_muse", "final_muse"} => "m-epp" \in up /\ "m-release" \in up
  BY <1>1, Before
<1>3. /\ value'[o] = Stored(p) /\ \A x \in Objects \ {o} : value'[x] = value[x]
      /\ paths \subseteq Objects /\ "nobody" \notin up /\ "candidate38" \in Objects
      /\ "discovery" \in Objects
  BY DEF Inv, Cluster, Objects, Backends
<1>4. o \notin {"discovery", "candidate38"} => up' = up
  BY DEF Restarts, Restarted
<1>5. CASE o \notin paths \cup {"discovery", "candidate38"}
  <2>1. Hops(m)' = Hops(m)
    BY <1>3, <1>5, SamePaths
  <2> QED
    BY <1>4, <1>5, <2>1 DEF Reachable
<1>6. CASE o = "discovery"
  <2>1. Hops(m)' = Hops(m)
    BY <1>3, <1>6, SamePaths
  <2>2. up \ {Serving(proc[p].snap)} \subseteq up'
    BY <1>6 DEF Restarts, Restarted
  <2>3. Serving(proc[p].snap) \in Hops(m) => Announced(p, m)
    BY <1>2, <1>6 DEF Announced
  <2> QED
    BY <2>1, <2>2, <2>3 DEF Reachable
<1>7. CASE o = "candidate38"
  <2>1. Hops(m)' = Hops(m)
    BY <1>3, <1>7, SamePaths
  <2>2. up \ {"worker38"} \subseteq up'
    BY <1>7 DEF Restarts, Restarted
  <2>3. value["stable38"] = {"graph"}
    <3>1. Typed("stable38", value["stable38"])
      BY <1>3 DEF Inv, Cluster
    <3> QED
      BY <1>2, <1>7, <3>1 DEF Typed, Single, Values
  <2>4. "worker38" \notin Hops(m)
    BY <2>3 DEF Hops, Models
  <2> QED
    BY <2>1, <2>2, <2>4 DEF Reachable
<1>8. CASE o = "gateway"
  <2>1. value["gateway"] = {"recovery"}
    BY <1>8, Tested
  <2>2. m \notin {"qwen38", "flint"}
    BY <1>3, <2>1 DEF Reachable, Hops, Supported, MusePools
  <2>3. value'["aigatewayroute"] = value["aigatewayroute"] /\ value'["muse"] = value["muse"]
    BY <1>3, <1>8
  <2>4. Hops(m)' = Hops(m)
    BY <2>2, <2>3 DEF Hops, Models
  <2> QED
    BY <1>4, <1>8, <2>4 DEF Reachable
<1>9. CASE o = "stable38"
  <2>1. /\ \A x \in paths \ {"stable38"} : value'[x] = value[x]
        /\ s = "promote_operator"
    BY <1>2, <1>3, <1>9 DEF Writers
  <2>2. (Supported("38")' <=> Supported("38")) /\ (Supported("flint")' <=> Supported("flint"))
    BY <2>1 DEF Supported, MusePools
  <2>3. CASE m = "qwen38"
    <3>1. "38" \in value["aigatewayroute"] /\ Supported("38") /\ "blue38" \in up
      BY <1>3, <2>3 DEF Reachable, Hops
    <3>2. Hops(m)' \subseteq {"blue38", "graph38"}
      <4>1. value'["stable38"] = {"graph"}
        BY <1>3, <1>9 DEF Stored, Written, Edit, Selected, Replaced
      <4> QED
        BY <2>1, <2>2, <2>3, <3>1, <4>1 DEF Hops
    <3> QED
      BY <1>2, <1>4, <1>9, <2>1, <3>1, <3>2 DEF Reachable
  <2>4. CASE m # "qwen38"
    <3>1. Hops(m)' = Hops(m)
      BY <2>1, <2>2, <2>4 DEF Hops, Models
    <3> QED
      BY <1>4, <1>9, <3>1 DEF Reachable
  <2> QED
    BY <2>3, <2>4
<1>10. CASE o = "muse"
  <2>1. /\ \A x \in paths \ {"muse"} : value'[x] = value[x]
        /\ value'["muse"] = {"release"} /\ "m-release" \in up
    BY <1>2, <1>3, <1>10, StoredTyped DEF Stored, Writers
  <2>2. (Supported("38")' <=> Supported("38")) /\ (Supported("flint")' <=> Supported("flint"))
    BY <2>1 DEF Supported, MusePools
  <2>3. CASE m = "muse"
    <3>1. Hops(m)' \subseteq Hops(m) \cup {"m-release"}
      BY <2>1, <2>3 DEF Hops
    <3> QED
      BY <1>4, <1>10, <2>1, <3>1 DEF Reachable
  <2>4. CASE m # "muse"
    <3>1. Hops(m)' = Hops(m)
      BY <2>1, <2>2, <2>4 DEF Hops, Models
    <3> QED
      BY <1>4, <1>10, <3>1 DEF Reachable
  <2> QED
    BY <2>3, <2>4
<1>11. CASE o \in {"backend38", "backendflint"}
  <2>1. \A x \in paths \ {o} : value'[x] = value[x]
    BY <1>3
  <2>2. value'[o] = {"applied"}
    <3>1. ASSUME o = "backend38" PROVE Stored(p) = {"applied"}
      BY <3>1 DEF Stored, Written, Edit, Selected, Replaced
    <3>2. ASSUME o = "backendflint" PROVE Stored(p) = {"applied"}
      BY <3>2 DEF Stored, Written, Edit, Selected, Replaced
    <3> QED
      BY <1>3, <1>11, <3>1, <3>2
  <2>3. (Supported("38") => Supported("38")') /\ (Supported("flint") => Supported("flint")')
    BY <1>11, <2>1, <2>2 DEF Supported, MusePools
  <2>4. Hops(m)' = Hops(m)
    <3>1. /\ m = "qwen38" => Supported("38")
          /\ m = "flint" => Supported("flint")
      BY <1>3 DEF Reachable, Hops
    <3>2. /\ value'["aigatewayroute"] = value["aigatewayroute"] /\ value'["muse"] = value["muse"]
          /\ value'["stable38"] = value["stable38"]
      BY <1>11, <2>1
    <3> QED
      BY <2>3, <3>1, <3>2 DEF Hops, Models
  <2> QED
    BY <1>4, <1>11, <2>4 DEF Reachable
<1> QED
  BY <1>5, <1>6, <1>7, <1>8, <1>9, <1>10, <1>11

\* A patch of the AI route does.
LEMMA RouteReaches ==
  ASSUME Inv, NEW p \in Operators, Patching(p), Step(p).on = "aigatewayroute",
         Unchanged(proc[p].script, "aigatewayroute", proc[p].snap),
         value' = [value EXCEPT !["aigatewayroute"] = Stored(p)], Restarts(p), Alone(p), Calm(p),
         NEW m \in Models, Reachable(m)
  PROVE  Reachable(m)'
<1> DEFINE s == proc[p].script
           rules == value["aigatewayroute"]
<1>1. s \in ScriptNames /\ "aigatewayroute" \in Objects
  BY StepTyped DEF Patching, Objects
<1>2. /\ s \in Writers("aigatewayroute")
      /\ s = "disable_qwen_epp" => "q-frontend" \in up
      /\ s \in {"stage_muse", "final_muse"} => "m-epp" \in up /\ "m-release" \in up
      /\ s \in {"stage_muse", "final_muse"} => value["muse"] = {"release"}
  BY <1>1, Before
<1>3. /\ value'["aigatewayroute"] = RouteEdit(s, rules)
      /\ s = "disable_qwen_epp" => "q-direct" \in rules
      /\ \A x \in {"muse", "gateway", "stable38", "backend38", "backendflint"} : value'[x] = value[x]
      /\ "nobody" \notin up /\ up' = up
  <2>1. /\ value'["aigatewayroute"] = Stored(p)
        /\ \A x \in {"muse", "gateway", "stable38", "backend38", "backendflint"} : value'[x] = value[x]
        /\ "nobody" \notin up
    BY DEF Inv, Cluster, Objects, Backends
  <2>2. up' = up
    BY DEF Restarts, Restarted
  <2> QED
    BY <1>1, <2>1, <2>2, Tested
<1>4. s \in {"add_route", "add_flint_route", "stage_muse", "final_muse", "disable_qwen_epp"}
  BY <1>2 DEF Writers
<1>5. \A x \in {"q-direct", "38", "flint"} : x \in rules => x \in RouteEdit(s, rules)
  BY <1>4 DEF RouteEdit, MuseRules, MusePools, MuseDirect
<1>6. "q-pool" \in rules /\ s # "disable_qwen_epp" <=> "q-pool" \in RouteEdit(s, rules)
  BY <1>4 DEF RouteEdit, MuseRules, MusePools, MuseDirect
<1>7. (Supported("38")' <=> Supported("38")) /\ (Supported("flint")' <=> Supported("flint"))
  BY <1>3 DEF Supported, MusePools
<1>8. CASE m = "qwen"
  BY <1>2, <1>3, <1>5, <1>6, <1>8 DEF Reachable, Hops
<1>9. CASE m \in {"qwen38", "flint"}
  <2>1. Hops(m)' = Hops(m)
    <3>1. /\ m = "qwen38" => "38" \in rules /\ Supported("38")
          /\ m = "flint" => "flint" \in rules /\ Supported("flint")
      BY <1>3, <1>9 DEF Reachable, Hops
    <3> QED
      BY <1>3, <1>5, <1>7, <1>9, <3>1 DEF Hops
  <2> QED
    BY <1>3, <2>1 DEF Reachable
<1>10. CASE m = "muse" /\ s \in {"stage_muse", "final_muse"}
  <2>1. /\ "m-direct" \in RouteEdit(s, rules) /\ value'["muse"] = {"release"}
        /\ "m-epp" \in up /\ "m-release" \in up
    BY <1>2, <1>3, <1>10 DEF RouteEdit, MuseRules
  <2>2. Hops(m)' \subseteq {"m-epp", "m-release"}
    BY <1>3, <1>10, <2>1 DEF Hops, MuseDirect
  <2> QED
    BY <1>3, <2>1, <2>2 DEF Reachable
<1>11. CASE m = "muse" /\ s \notin {"stage_muse", "final_muse"}
  <2>1. /\ "m-pool" \in RouteEdit(s, rules) <=> "m-pool" \in rules
        /\ MuseDirect \cap RouteEdit(s, rules) = MuseDirect \cap rules
    BY <1>4, <1>11 DEF RouteEdit, MuseDirect
  <2>2. Hops(m)' = Hops(m)
    BY <1>3, <1>11, <2>1 DEF Hops
  <2> QED
    BY <1>3, <2>2 DEF Reachable
<1> QED
  BY <1>8, <1>9, <1>10, <1>11 DEF Models

LEMMA NextReaches ==
  ASSUME Inv, [Next]_vars, NEW p \in Operators, Moves(p), Calm(p)
  PROVE  /\ \A m \in Models : Reachable(m) => Reachable(m)' \/ Announced(p, m)
         /\ value'["candidate38"] # value["candidate38"] => value["stable38"] # {"blue"}
<1>1. Alone(p)
  BY DEF Alone, Calm
<1>2. CASE UNCHANGED <<value, up>>
  <2>1. \A m \in Models : Hops(m)' = Hops(m)
    BY <1>2, SamePaths
  <2> QED
    BY <1>2, <2>1 DEF Reachable
<1>3. ASSUME NEW o \in Objects, o = Step(p).on, Patching(p),
             Unchanged(proc[p].script, o, proc[p].snap),
             value' = [value EXCEPT ![o] = Stored(p)], Restarts(p)
      PROVE  /\ \A m \in Models : Reachable(m) => Reachable(m)' \/ Announced(p, m)
             /\ value'["candidate38"] # value["candidate38"] => value["stable38"] # {"blue"}
  <2>1. \A m \in Models : Reachable(m) => Reachable(m)' \/ Announced(p, m)
    <3>1. CASE o = "aigatewayroute"
      BY <1>1, <1>3, <3>1, RouteReaches
    <3>2. CASE o # "aigatewayroute"
      BY <1>1, <1>3, <3>2, ElsewhereReaches
    <3> QED
      BY <3>1, <3>2
  <2>2. o = "candidate38" => value["stable38"] # {"blue"}
    <3>1. proc[p].script \in ScriptNames
      BY <1>3, StepTyped DEF Patching
    <3> QED
      BY <1>1, <1>3, <3>1, Before
  <2>3. o # "candidate38" => value'["candidate38"] = value["candidate38"]
    BY <1>3 DEF Inv, Cluster, Objects
  <2> QED
    BY <2>1, <2>2, <2>3
<1> QED
  BY <1>2, <1>3, OwnStep

(* No step of any script takes a published model out of reach, unless        *)
(* someone else wrote or a backend failed since the script began, or it is   *)
(* the announced restart of the model's aggregator; nor does it change the   *)
(* candidate under a Service that selects it.                                *)
THEOREM Availability == Spec => NoBlackout
<1>1. Inv /\ [Next]_vars =>
        [\A p \in Operators : Moves(p) /\ proc[p].met \cap {"write", "outage"} = {} =>
           /\ \A m \in {"qwen", "muse", "qwen38", "flint"} :
                Reachable(m) => Reachable(m)' \/ Announced(p, m)
           /\ value'["candidate38"] # value["candidate38"] => value["stable38"] # {"blue"}]_vars
  BY NextReaches DEF Calm, Models
<1> QED
  BY <1>1, InitInv, NextInv, PTL DEF Spec, NoBlackout

-----------------------------------------------------------------------------
(* What a script that comes to its end has brought about.                  *)

MuseScripts == {"stage_muse", "final_muse"}
MuseSide == MusePools \cup MuseDirect
Promoted(s) == {"m-direct", IF s = "stage_muse" THEN "m-pool-staged" ELSE "m-pool"}

\* Neither has anyone else written since the script began nor has a rival.
Undisturbed(r) == r.met \cap {"write", "rival"} = {}

\* What was read of an object is still true of it: some of it forever, some of it
\* while nobody has disturbed the script.
Kept(o, read, s, calm) ==
  read.version > 0 =>
    /\ o = "discovery" => read.value \subseteq value[o]
    /\ o = "canary" /\ read.value = {"stable"} => value[o] = {"stable"}
    /\ o = "httproute" /\ "m-native" \in read.value => "m-native" \in value[o]
    /\ calm /\ o = "gateway" /\ s \in {"repair_qwen_discovery", "render_flint_gateway"} =>
         read.value = value[o]
    /\ calm /\ o = "aigatewayroute" /\ s \in MuseScripts =>
         value[o] \cap MuseSide \in {read.value \cap MuseSide, Promoted(s)}

\* What a patch has left.
Left(step, s, calm) ==
  /\ step = Patch("canary") => value["canary"] = {"stable"}
  /\ step = Patch("aigatewayroute") /\ calm /\ s \in MuseScripts =>
       value["aigatewayroute"] \cap MuseSide = Promoted(s)

KeepsOf(p) ==
  Running(p) =>
    /\ \A o \in Objects : Kept(o, proc[p].snap[o], proc[p].script, Undisturbed(proc[p]))
    /\ \A i \in 1..(proc[p].at - 1) :
         Left(Program(proc[p].script)[i], proc[p].script, Undisturbed(proc[p]))

Keeps == \A p \in Operators : KeepsOf(p)

\* How objects come to change.
LEMMA Writes ==
  ASSUME Inv, [Next]_vars, value' # value
  PROVE  \/ \E p \in Operators, o \in Objects :
              /\ o = Step(p).on /\ Patching(p) /\ Unchanged(proc[p].script, o, proc[p].snap)
              /\ value' = [value EXCEPT ![o] = Stored(p)] /\ proc' = Disturbing(p, Onward(p))
         \/ RollBack \/ WorkerRestarts \/ Regenerate
<1>1. Next
  BY DEF vars
<1>2. CASE \E p \in Operators, x \in Scripts : Begin(p, x)
  BY <1>2 DEF Begin
<1>3. CASE \E p \in Operators : ReadObject(p) \/ CheckGate(p) \/ Interrupt(p)
  BY <1>3 DEF ReadObject, CheckGate, Interrupt
<1>4. CASE RecordStaged \/ \E b \in Backends : Fails(b) \/ ComesUp(b)
  BY <1>4 DEF RecordStaged, Fails, ComesUp
<1>5. CASE \E p \in Operators : PatchObject(p)
  BY <1>5, PatchWrites
<1>6. CASE RollBack \/ WorkerRestarts \/ Regenerate
  BY <1>6
<1> QED
  BY <1>1, <1>2, <1>3, <1>4, <1>5, <1>6 DEF Next

\* What no step takes back, and what none takes back from a script unnoticed.
LEMMA Effects ==
  ASSUME Inv, [Next]_vars, NEW q \in Operators, Running(q)
  PROVE  /\ value["discovery"] \subseteq value'["discovery"]
         /\ value["canary"] = {"stable"} => value'["canary"] = {"stable"}
         /\ "m-native" \in value["httproute"] => "m-native" \in value'["httproute"]
         /\ Undisturbed(proc'[q]) /\ proc[q].script \in {"repair_qwen_discovery", "render_flint_gateway"} =>
              value'["gateway"] = value["gateway"]
         /\ Undisturbed(proc'[q]) /\ proc[q].script \in MuseScripts =>
              value'["aigatewayroute"] \cap MuseSide
                \in {value["aigatewayroute"] \cap MuseSide, Promoted(proc[q].script)}
<1>1. /\ DOMAIN value = Objects /\ proc[q] \in Process /\ DOMAIN proc = Operators
      /\ {"discovery", "canary", "httproute", "gateway", "aigatewayroute"} \subseteq Objects
  BY DEF Inv, Cluster, Procs, Local, Objects
<1>2. CASE value' = value
  BY <1>2
<1>3. ASSUME NEW o \in {"gateway", "stable38", "muse", "worker", "aigatewayroute"}, NEW new,
             OthersWrite(o, new)
      PROVE  /\ ~Undisturbed(proc'[q])
             /\ \A x \in Objects \ {o} : value'[x] = value[x]
  <2>1. proc'[q] = Meets(q, "write") /\ "write" \in Disturbances
    BY <1>3 DEF OthersWrite, Disturbances
  <2>2. PICK b \in SUBSET Disturbances : proc'[q] = [proc[q] EXCEPT !.met = b] /\ "write" \in b
    BY <1>1, <2>1, Noticed
  <2>3. proc'[q].met = b
    BY <1>1, <2>2 DEF Process
  <2> QED
    BY <1>1, <1>3, <2>2, <2>3 DEF OthersWrite, Undisturbed
<1>4. CASE RollBack \/ WorkerRestarts \/ Regenerate
  <2>1. PICK o \in {"gateway", "stable38", "muse", "worker", "aigatewayroute"} :
               \E new : OthersWrite(o, new)
    BY <1>4 DEF RollBack, WorkerRestarts, Regenerate
  <2> QED
    BY <1>1, <1>3, <2>1
<1>5. ASSUME NEW p \in Operators, NEW o \in Objects, o = Step(p).on, Patching(p),
             Unchanged(proc[p].script, o, proc[p].snap),
             value' = [value EXCEPT ![o] = Stored(p)], proc' = Disturbing(p, Onward(p))
      PROVE  /\ value["discovery"] \subseteq value'["discovery"]
             /\ value["canary"] = {"stable"} => value'["canary"] = {"stable"}
             /\ "m-native" \in value["httproute"] => "m-native" \in value'["httproute"]
             /\ Undisturbed(proc'[q]) /\ proc[q].script \in {"repair_qwen_discovery", "render_flint_gateway"} =>
                  value'["gateway"] = value["gateway"]
             /\ Undisturbed(proc'[q]) /\ proc[q].script \in MuseScripts =>
                  value'["aigatewayroute"] \cap MuseSide
                    \in {value["aigatewayroute"] \cap MuseSide, Promoted(proc[q].script)}
  <2>1. PICK s \in ScriptNames : s = proc[p].script
    BY <1>5, StepTyped DEF Patching
  <2>2. s \in Writers(o) /\ Step(p) = Patch(o)
    BY <1>5, <2>1, Before
  <2>3. /\ \A x \in Objects \ {o} : value'[x] = value[x]
        /\ value'[o] = Stored(p)
    BY <1>1, <1>5
  <2>4. o = "discovery" => value[o] \subseteq Stored(p)
    BY <1>5 DEF Stored
  <2>5. o = "canary" => Stored(p) = {"stable"}
    BY <1>5 DEF Stored, Written, Edit, Selected, Replaced
  <2>6. o = "httproute" => "m-native" \in Stored(p)
    BY <1>5 DEF Stored, Written, Edit, Selected
  <2>7. Undisturbed(proc'[q]) => q = p \/ proc[q].script \notin Rivals(s)
    <3> SUFFICES ASSUME q # p, proc[q].script \in Rivals(s) PROVE ~Undisturbed(proc'[q])
      OBVIOUS
    <3>1. PICK b \in SUBSET Disturbances : proc'[q] = [proc[q] EXCEPT !.met = b] /\ "rival" \in b
      BY <1>1, <1>5, <2>1, Passed
    <3>2. proc'[q].met = b
      BY <1>1, <3>1 DEF Process
    <3> QED
      BY <3>1, <3>2 DEF Undisturbed
  <2>8. o = "gateway" => s = "promote_aggregator"
    BY <2>2 DEF Writers
  <2>9. o = "aigatewayroute" /\ s \notin MuseScripts =>
          Stored(p) \cap MuseSide = value[o] \cap MuseSide
    <3>1. o = "aigatewayroute" => Stored(p) = RouteEdit(s, value[o])
      BY <1>5, <2>1, Tested
    <3> QED
      BY <2>2, <3>1 DEF Writers, RouteEdit, MuseScripts, MuseSide, MusePools, MuseDirect
  <2>10. Undisturbed(proc'[q]) /\ proc[q].script \in {"repair_qwen_discovery", "render_flint_gateway"} =>
           value'["gateway"] = value["gateway"]
    BY <1>1, <2>1, <2>3, <2>7, <2>8 DEF Rivals
  <2>11. Undisturbed(proc'[q]) /\ proc[q].script \in MuseScripts =>
           value'["aigatewayroute"] \cap MuseSide
             \in {value["aigatewayroute"] \cap MuseSide, Promoted(proc[q].script)}
    <3>1. CASE o # "aigatewayroute"
      BY <1>1, <2>3, <3>1
    <3>2. CASE o = "aigatewayroute" /\ q # p
      BY <2>3, <2>7, <2>9, <3>2 DEF Rivals, MuseScripts
    <3>3. CASE o = "aigatewayroute" /\ q = p
      <4>1. value'[o] = RouteEdit(s, value[o])
        BY <1>5, <2>1, <2>3, <3>3, Tested
      <4>2. s \in MuseScripts => RouteEdit(s, value[o]) \cap MuseSide = Promoted(s)
        BY DEF RouteEdit, MuseRules, MuseScripts, MuseSide, Promoted, MusePools, MuseDirect
      <4> QED
        BY <2>1, <3>3, <4>1, <4>2
    <3> QED
      BY <3>1, <3>2, <3>3
  <2> QED
    BY <1>1, <2>3, <2>4, <2>5, <2>6, <2>10, <2>11
<1> QED
  BY <1>2, <1>4, <1>5, Writes

LEMMA KeptStays ==
  ASSUME Inv, [Next]_vars, NEW q \in Operators, Running(q), NEW o \in Objects, NEW read,
         NEW s, s = proc[q].script, NEW calm, NEW later, later => calm /\ Undisturbed(proc'[q]),
         Kept(o, read, s, calm)
  PROVE  Kept(o, read, s, later)'
BY Effects DEF Kept

LEMMA LeftStays ==
  ASSUME Inv, [Next]_vars, NEW q \in Operators, Running(q), NEW step,
         NEW s, s = proc[q].script, NEW calm, NEW later, later => calm /\ Undisturbed(proc'[q]),
         Left(step, s, calm)
  PROVE  Left(step, s, later)'
BY Effects DEF Left

\* What a script has read and left, as it goes on or is disturbed.
LEMMA KeepsOn ==
  ASSUME Inv, [Next]_vars, NEW q \in Operators, Running(q), KeepsOf(q),
         NEW step \in Steps, step = Step(q), NEW r \in Process, proc'[q] = r, r.script = proc[q].script,
         proc[q].met \subseteq r.met,
         \A o \in Objects : r.snap[o] = proc[q].snap[o] \/ Kept(o, r.snap[o], r.script, TRUE)',
         \/ r.at = proc[q].at
         \/ r.at = proc[q].at + 1 /\ Left(step, r.script, Undisturbed(r))'
  PROVE  KeepsOf(q)'
<1>1. PICK s \in ScriptNames : s = proc[q].script
  BY StepTyped
<1>2. PICK calm \in BOOLEAN : calm = Undisturbed(proc[q])
  BY DEF Undisturbed
<1>3. PICK later \in BOOLEAN : later = Undisturbed(r)
  BY DEF Undisturbed
<1>6. later => calm /\ Undisturbed(proc'[q])
  BY <1>2, <1>3 DEF Undisturbed
<1>4. ASSUME NEW o \in Objects PROVE Kept(o, r.snap[o], s, later)'
  <2>1. CASE r.snap[o] = proc[q].snap[o]
    <3>1. Kept(o, r.snap[o], s, calm)
      BY <1>1, <1>2, <2>1 DEF KeepsOf
    <3> QED
      BY <1>1, <1>6, <3>1, KeptStays
  <2>2. CASE Kept(o, r.snap[o], s, TRUE)'
    BY <2>2 DEF Kept
  <2> QED
    BY <1>1, <2>1, <2>2
<1>5. ASSUME NEW i \in 1..(r.at - 1) PROVE Left(Program(s)[i], s, later)'
  <2>1. proc[q].at \in Nat /\ r.at \in Nat
    BY DEF Inv, Local, Process
  <2>2. CASE i \in 1..(proc[q].at - 1)
    <3>1. Left(Program(s)[i], s, calm)
      BY <1>1, <1>2, <2>2 DEF KeepsOf
    <3> QED
      BY <1>1, <1>6, <3>1, LeftStays
  <2>3. CASE i = proc[q].at
    <3>1. Program(s)[i] = step /\ r.at # proc[q].at
      BY <1>1, <2>1, <2>3 DEF Step
    <3>2. Left(step, s, later)'
      BY <1>1, <1>3, <3>1
    <3> QED
      BY <3>1, <3>2
  <2>4. i \in 1..(proc[q].at - 1) \/ i = proc[q].at
    <3>1. PICK m \in Nat : m = proc[q].at
      BY <2>1
    <3>2. PICK n \in Nat : n = r.at
      BY <2>1
    <3>3. n = m \/ n = m + 1
      BY <3>1, <3>2
    <3>4. i \in 1..(n - 1)
      BY <3>2
    <3>5. i \in 1..(m - 1) \/ i = m
      BY ONLY <3>3, <3>4, m \in Nat, n \in Nat
    <3> QED
      BY <3>1, <3>5
  <2> QED
    BY <2>2, <2>3, <2>4
<1> QED
  BY <1>1, <1>3, <1>4, <1>5 DEF KeepsOf, Running

\* An operator who does not move, whatever the others do.
LEMMA KeepsStill ==
  ASSUME Inv, [Next]_vars, NEW q \in Operators, KeepsOf(q), NEW b \in SUBSET Disturbances,
         proc[q].met \subseteq b, proc'[q] = [proc[q] EXCEPT !.met = b]
  PROVE  KeepsOf(q)'
<1> DEFINE r == [proc[q] EXCEPT !.met = b]
<1>1. /\ r \in Process /\ r.script = proc[q].script /\ r.at = proc[q].at
      /\ r.snap = proc[q].snap /\ r.met = b
  BY DEF Inv, Local, Process, Disturbances
<1>2. CASE ~Running(q)
  BY <1>1, <1>2 DEF KeepsOf, Running
<1>3. CASE Running(q)
  <2> HIDE DEF r
  <2>1. proc'[q] = r
    BY DEF r
  <2>2. PICK step \in Steps : step = Step(q)
    BY <1>3, StepTyped
  <2> QED
    BY <1>1, <1>3, <2>1, <2>2, KeepsOn
<1> QED
  BY <1>2, <1>3

\* An operator whose script goes on, after a step that left what it should.
LEMMA KeepsMoving ==
  ASSUME Inv, [Next]_vars, NEW q \in Operators, Running(q), KeepsOf(q), proc'[q] = Onward(q),
         NEW step \in Steps, step = Step(q), NEW s, s = proc[q].script,
         NEW calm, calm = Undisturbed(proc[q]), Left(step, s, calm)'
  PROVE  KeepsOf(q)'
<1>1. CASE proc[q].at = Len(Program(proc[q].script))
  <2>1. proc'[q].at = 0
    BY <1>1 DEF Onward, Idle
  <2> QED
    BY <2>1 DEF KeepsOf, Running
<1>2. CASE proc[q].at # Len(Program(proc[q].script))
  <2> DEFINE r == [proc[q] EXCEPT !.at = @ + 1]
  <2>1. /\ r \in Process /\ r.script = proc[q].script /\ r.at = proc[q].at + 1
        /\ r.snap = proc[q].snap /\ r.met = proc[q].met /\ proc'[q] = r
    BY <1>2 DEF Onward, Inv, Local, Process
  <2>2. PICK new \in Process : new = r
    BY <2>1
  <2> HIDE DEF r
  <2>3. Undisturbed(new) = calm /\ new.script = s
    BY <2>1, <2>2 DEF Undisturbed
  <2>4. Left(step, new.script, Undisturbed(new))'
    BY <2>3
  <2> QED
    BY <2>1, <2>2, <2>4, KeepsOn
<1> QED
  BY <1>1, <1>2

LEMMA KeepsIdle ==
  ASSUME NEW q \in Operators, ~Running(q)'
  PROVE  KeepsOf(q)'
BY DEF KeepsOf

LEMMA KeepsSame ==
  ASSUME Inv, [Next]_vars, NEW q \in Operators, KeepsOf(q), proc'[q] = proc[q]
  PROVE  KeepsOf(q)'
<1>1. /\ proc[q].met \in SUBSET Disturbances
      /\ proc'[q] = [proc[q] EXCEPT !.met = proc[q].met]
  BY DEF Inv, Local, Process, Disturbances
<1> QED
  BY <1>1, KeepsStill

LEMMA ReadKeeps ==
  ASSUME Inv, [Next]_vars, NEW p \in Operators, KeepsOf(p), ReadObject(p)
  PROVE  KeepsOf(p)'
<1>1. Step(p) \in Steps /\ Step(p).op = "read" /\ Running(p)
  BY StepTyped DEF ReadObject
<1>2. PICK o \in Objects : o = Step(p).on
  BY <1>1 DEF Steps
<1> DEFINE read == [value |-> value[o], version |-> version[o]]
           moved == [proc[p] EXCEPT !.at = @ + 1]
           r == [moved EXCEPT !.snap[o] = read]
<1>3. \/ proc'[p] = Idle
      \/ proc'[p] = [Onward(p) EXCEPT !.snap[o] = read]
  BY <1>2 DEF ReadObject, Stopped, Inv, Procs
<1>4. CASE proc'[p] = Idle
  BY <1>4, KeepsIdle DEF Running, Idle
<1>5. CASE proc'[p] = [Onward(p) EXCEPT !.snap[o] = read] /\ proc[p].at = Len(Program(proc[p].script))
  <2>1. proc'[p].at = 0
    BY <1>5 DEF Onward, Idle
  <2> QED
    BY <2>1, KeepsIdle DEF Running
<1>6. CASE proc'[p] = [Onward(p) EXCEPT !.snap[o] = read] /\ proc[p].at # Len(Program(proc[p].script))
  <2>1. proc'[p] = r
    BY <1>6 DEF Onward
  <2>2. read \in [value : SUBSET UNION {Values(x) : x \in Objects}, version : Nat]
    BY DEF Inv, Cluster, Typed
  <2>3. /\ moved \in Process /\ moved.script = proc[p].script /\ moved.at = proc[p].at + 1
        /\ moved.snap = proc[p].snap /\ moved.met = proc[p].met
    BY DEF Inv, Local, Process
  <2> HIDE DEF moved
  <2>4. /\ r \in Process /\ r.script = proc[p].script /\ r.at = proc[p].at + 1
        /\ r.snap[o] = read /\ r.met = proc[p].met
        /\ \A x \in Objects \ {o} : r.snap[x] = proc[p].snap[x]
    BY <2>2, <2>3 DEF Process
  <2>5. PICK new \in Process : new = r
    BY <2>4
  <2> HIDE DEF r
  <2>6. PICK step \in Steps : step = Step(p)
    BY <1>1
  <2>7. step # Patch("canary") /\ step # Patch("aigatewayroute")
    BY <1>1, <2>6 DEF Patch
  <2>8. Kept(o, new.snap[o], new.script, TRUE)'
    BY <2>4, <2>5 DEF Kept, ReadObject
  <2>9. Left(step, new.script, Undisturbed(new))'
    BY <2>7 DEF Left
  <2> HIDE DEF read
  <2> QED
    BY <1>1, <2>1, <2>4, <2>5, <2>6, <2>8, <2>9, KeepsOn
<1> QED
  BY <1>3, <1>4, <1>5, <1>6

LEMMA GateKeeps ==
  ASSUME Inv, [Next]_vars, NEW p \in Operators, KeepsOf(p), CheckGate(p)
  PROVE  KeepsOf(p)'
<1>1. Step(p) \in Steps /\ Step(p).op = "gate" /\ Running(p)
  BY StepTyped DEF CheckGate
<1>2. proc'[p] = Idle \/ proc'[p] = Onward(p)
  BY DEF CheckGate, Stopped, Inv, Procs
<1>3. CASE proc'[p] = Idle
  BY <1>3, KeepsIdle DEF Running, Idle
<1>4. CASE proc'[p] = Onward(p)
  <2>1. PICK step \in Steps : step = Step(p)
    BY <1>1
  <2>2. step # Patch("canary") /\ step # Patch("aigatewayroute")
    BY <1>1, <2>1 DEF Patch
  <2>3. PICK s, calm : s = proc[p].script /\ calm = Undisturbed(proc[p])
    OBVIOUS
  <2>4. Left(step, s, calm)'
    BY <2>2 DEF Left
  <2> QED
    BY <1>1, <1>4, <2>1, <2>3, <2>4, KeepsMoving
<1> QED
  BY <1>2, <1>3, <1>4

\* A patch that a script goes on from is carried out, or is not needed.
LEMMA PatchOutcome ==
  ASSUME Inv, NEW p \in Operators, PatchObject(p), proc'[p] = Onward(p),
         NEW o \in Objects, o = Step(p).on
  PROVE  \/ /\ UNCHANGED value /\ Written(p) = proc[p].snap[o].value
            /\ proc[p].script \in Compares
         \/ Unchanged(proc[p].script, o, proc[p].snap) /\ value' = [value EXCEPT ![o] = Stored(p)]
<1>1. Onward(p).outcome = "done" \/ Onward(p).at # 0
  BY DEF Onward, Idle, Inv, Local, Process
<1>2. Idle.outcome = "none" /\ Idle.at = 0
  BY DEF Idle
<1> QED
  BY <1>1, <1>2 DEF PatchObject, Written, Stored, Stopped, Inv, Procs

\* What it leaves.
LEMMA PatchLeaves ==
  ASSUME Inv, NEW p \in Operators, KeepsOf(p), PatchObject(p), proc'[p] = Onward(p),
         NEW step \in Steps, step = Step(p), NEW s \in ScriptNames, s = proc[p].script,
         NEW calm \in BOOLEAN, calm = Undisturbed(proc[p])
  PROVE  Left(step, s, calm)'
<1>1. Patching(p)
  BY DEF PatchObject, Patching
<1>2. PICK o \in Objects : o = Step(p).on
  BY <1>1 DEF Patching, Steps, Gates
<1>3. /\ s \in Writers(o) /\ step = Patch(o)
      /\ o \notin Applied => proc[p].snap[o].version > 0
  BY <1>1, <1>2, Before
<1>4. /\ o = "canary" => Written(p) = {"stable"}
      /\ o = "aigatewayroute" => Written(p) = RouteEdit(s, proc[p].snap[o].value)
  BY <1>2 DEF Written, Edit, Selected, Replaced
<1>5. \A read : s \in MuseScripts => RouteEdit(s, read) \cap MuseSide = Promoted(s)
  BY DEF RouteEdit, MuseRules, MuseScripts, MuseSide, Promoted, MusePools, MuseDirect
<1>6. Kept(o, proc[p].snap[o], s, calm)
  BY <1>1 DEF KeepsOf, Patching
<1>7. CASE UNCHANGED value /\ Written(p) = proc[p].snap[o].value
  <2>1. o = "canary" => value["canary"] = {"stable"}
    BY <1>3, <1>4, <1>6, <1>7 DEF Kept, Applied
  <2>2. o = "aigatewayroute" /\ calm /\ s \in MuseScripts =>
          value["aigatewayroute"] \cap MuseSide = Promoted(s)
    BY <1>3, <1>4, <1>5, <1>6, <1>7 DEF Kept, Applied
  <2> QED
    BY <1>3, <1>7, <2>1, <2>2 DEF Left, Patch
<1>8. CASE Unchanged(s, o, proc[p].snap) /\ value' = [value EXCEPT ![o] = Stored(p)]
  <2>1. value'[o] = Stored(p)
    BY <1>8 DEF Inv, Cluster
  <2>2. o = "canary" => value'["canary"] = {"stable"}
    BY <1>2, <1>4, <2>1 DEF Stored
  <2>3. o = "aigatewayroute" /\ s \in MuseScripts =>
          value'["aigatewayroute"] \cap MuseSide = Promoted(s)
    BY <1>1, <1>2, <1>5, <1>8, <2>1, Tested
  <2> QED
    BY <1>3, <2>2, <2>3 DEF Left, Patch
<1>9. \/ UNCHANGED value /\ Written(p) = proc[p].snap[o].value
      \/ Unchanged(s, o, proc[p].snap) /\ value' = [value EXCEPT ![o] = Stored(p)]
  BY <1>2, PatchOutcome
<1> QED
  BY <1>7, <1>8, <1>9

LEMMA PatchKeeps ==
  ASSUME Inv, [Next]_vars, NEW p \in Operators, KeepsOf(p), PatchObject(p)
  PROVE  KeepsOf(p)'
<1>1. Running(p) /\ (proc'[p] = Onward(p) \/ proc'[p] = Idle)
  BY DEF PatchObject, Stopped, Disturbing, Inv, Procs
<1>2. CASE proc'[p] = Idle
  BY <1>2, KeepsIdle DEF Running, Idle
<1>3. CASE proc'[p] = Onward(p)
  <2>1. PICK step \in Steps, s \in ScriptNames : step = Step(p) /\ s = proc[p].script
    BY <1>1, StepTyped
  <2>2. PICK calm \in BOOLEAN : calm = Undisturbed(proc[p])
    BY DEF Undisturbed
  <2>3. Left(step, s, calm)'
    BY <1>3, <2>1, <2>2, PatchLeaves
  <2> QED
    BY <1>1, <1>3, <2>1, <2>2, <2>3, KeepsMoving
<1> QED
  BY <1>1, <1>2, <1>3

LEMMA NextKeeps ==
  ASSUME Inv, Keeps, [Next]_vars
  PROVE  Keeps'
<1> SUFFICES ASSUME NEW q \in Operators PROVE KeepsOf(q)'
  BY DEF Keeps
<1>1. KeepsOf(q) /\ DOMAIN proc = Operators /\ proc[q] \in Process
  BY DEF Keeps, Inv, Procs, Local
<1>2. CASE proc'[q] = proc[q]
  BY <1>1, <1>2, KeepsSame
<1>3. ASSUME NEW p \in Operators, p # q,
             ReadObject(p) \/ CheckGate(p) \/ Interrupt(p) \/ \E x \in Scripts : Begin(p, x)
      PROVE  proc'[q] = proc[q]
  BY <1>1, <1>3 DEF ReadObject, CheckGate, Interrupt, Begin
<1>4. ASSUME NEW x \in Scripts, Begin(q, x) PROVE KeepsOf(q)'
  <2>1. proc'[q] = [Idle EXCEPT !.script = x, !.at = 1]
    BY <1>1, <1>4 DEF Begin
  <2>2. proc'[q].at = 1 /\ proc'[q].snap = [o \in Objects |-> Nothing]
    BY <2>1 DEF Idle
  <2> QED
    BY <2>2 DEF KeepsOf, Kept, Nothing
<1>5. CASE Interrupt(q)
  BY <1>1, <1>5, KeepsIdle DEF Interrupt, Stopped, Idle, Running
<1>6. ASSUME NEW p \in Operators, PatchObject(p) PROVE KeepsOf(q)'
  <2>1. CASE p = q
    BY <1>1, <1>6, <2>1, PatchKeeps
  <2>2. CASE p # q
    <3>1. proc'[q] = proc[q] \/ proc' = Disturbing(p, Onward(p))
      BY <1>1, <1>6, <2>2 DEF PatchObject
    <3> QED
      BY <1>1, <1>2, <2>2, <3>1, Passed, KeepsStill
  <2> QED
    BY <2>1, <2>2
<1>11. ASSUME NEW what \in Disturbances, proc'[q] = Meets(q, what) PROVE KeepsOf(q)'
  BY <1>1, <1>11, Noticed, KeepsStill
<1>7. ASSUME NEW o, NEW new, OthersWrite(o, new) PROVE KeepsOf(q)'
  BY <1>7, <1>11 DEF OthersWrite, Disturbances
<1>12. ASSUME NEW b \in Backends, Fails(b) PROVE KeepsOf(q)'
  BY <1>11, <1>12 DEF Fails, Disturbances
<1>8. CASE RollBack \/ WorkerRestarts \/ Regenerate
  BY <1>7, <1>8 DEF RollBack, WorkerRestarts, Regenerate
<1>9. CASE RecordStaged \/ (\E b \in Backends : ComesUp(b)) \/ UNCHANGED vars
  BY <1>2, <1>9 DEF RecordStaged, ComesUp, vars
<1>10. CASE ReadObject(q) \/ CheckGate(q)
  BY <1>1, <1>10, ReadKeeps, GateKeeps
<1> QED
  BY <1>2, <1>3, <1>4, <1>5, <1>6, <1>8, <1>9, <1>10, <1>12 DEF Next

\* The last step of a script, and the patches it has made before.
FinalStep(s) == Program(s)[Len(Program(s))]
Earlier(s, step) == \E i \in 1..(Len(Program(s)) - 1) : Program(s)[i] = step

LEMMA Ends ==
  /\ FinalStep("promote_aggregator") = Patch("gateway")
  /\ FinalStep("promote_operator") = Patch("stable38")
  /\ \A s \in {"add_route", "add_flint_route"} : FinalStep(s) = Patch("aigatewayroute")
  /\ \A s \in MuseScripts :
       /\ FinalStep(s) = Patch("httproute")
       /\ Earlier(s, Patch("muse")) /\ Earlier(s, Patch("aigatewayroute"))
  /\ FinalStep("disable_qwen_epp") = Gate("no_pool_in_compiled_route")
  /\ Earlier("disable_qwen_epp", Patch("canary"))
  /\ FinalStep("repair_qwen_discovery") = Patch("discovery")
  /\ FinalStep("apply_candidate") = Patch("candidate38")
  /\ FinalStep("render_flint_gateway") = Patch("manifest")
<1>1. FinalStep("promote_aggregator") = Patch("gateway")
  BY DEF FinalStep, Program, PromoteAggregator
<1>2. FinalStep("promote_operator") = Patch("stable38")
  BY DEF FinalStep, Program, PromoteOperator
<1>3. \A s \in {"add_route", "add_flint_route"} : FinalStep(s) = Patch("aigatewayroute")
  BY DEF FinalStep, Program, AddRoute, AddFlintRoute
<1>4. /\ FinalStep("stage_muse") = Patch("httproute")
      /\ Earlier("stage_muse", Patch("muse")) /\ Earlier("stage_muse", Patch("aigatewayroute"))
  <2>1. /\ Program("stage_muse") = StageMuse /\ Len(StageMuse) = 9
        /\ StageMuse[9] = Patch("httproute") /\ StageMuse[5] = Patch("muse")
        /\ StageMuse[7] = Patch("aigatewayroute")
    BY Muse DEF Program
  <2>2. FinalStep("stage_muse") = Patch("httproute")
    BY <2>1 DEF FinalStep
  <2>3. 5 \in 1..(Len(Program("stage_muse")) - 1) /\ 7 \in 1..(Len(Program("stage_muse")) - 1)
    BY <2>1
  <2> QED
    BY <2>1, <2>2, <2>3 DEF Earlier
<1>5. /\ FinalStep("final_muse") = Patch("httproute")
      /\ Earlier("final_muse", Patch("muse")) /\ Earlier("final_muse", Patch("aigatewayroute"))
  <2>1. /\ Program("final_muse") = FinalMuse /\ Len(FinalMuse) = 10
        /\ FinalMuse[10] = Patch("httproute") /\ FinalMuse[6] = Patch("muse")
        /\ FinalMuse[8] = Patch("aigatewayroute")
    BY Muse DEF Program
  <2>2. FinalStep("final_muse") = Patch("httproute")
    BY <2>1 DEF FinalStep
  <2>3. 6 \in 1..(Len(Program("final_muse")) - 1) /\ 8 \in 1..(Len(Program("final_muse")) - 1)
    <3>1. Len(Program("final_muse")) = 10
      BY <2>1
    <3>2. 6 \in 1..(10 - 1) /\ 8 \in 1..(10 - 1)
      OBVIOUS
    <3> QED
      BY ONLY <3>1, <3>2, Zenon
  <2> QED
    BY <2>1, <2>2, <2>3 DEF Earlier
<1>6. /\ FinalStep("disable_qwen_epp") = Gate("no_pool_in_compiled_route")
      /\ Earlier("disable_qwen_epp", Patch("canary"))
  <2>1. /\ Program("disable_qwen_epp") = RetireEpp /\ Len(RetireEpp) = 9
        /\ RetireEpp[9] = Gate("no_pool_in_compiled_route") /\ RetireEpp[7] = Patch("canary")
    BY DEF Program, RetireEpp
  <2>2. FinalStep("disable_qwen_epp") = Gate("no_pool_in_compiled_route")
    BY <2>1 DEF FinalStep
  <2>3. 7 \in 1..(Len(Program("disable_qwen_epp")) - 1)
    BY <2>1
  <2> QED
    BY <2>1, <2>2, <2>3 DEF Earlier
<1>7. FinalStep("repair_qwen_discovery") = Patch("discovery")
  BY DEF FinalStep, Program, RepairDiscovery
<1>8. FinalStep("apply_candidate") = Patch("candidate38")
  BY DEF FinalStep, Program, ApplyCandidate
<1>9. FinalStep("render_flint_gateway") = Patch("manifest")
  BY DEF FinalStep, Program, RenderGateway
<1> QED
  BY <1>1, <1>2, <1>3, <1>4, <1>5, <1>6, <1>7, <1>8, <1>9 DEF MuseScripts

\* What a script ends on: a patch that is as wanted, or the gate of the retirement.
LEMMA EndsWell ==
  ASSUME Inv, Keeps, [Next]_vars, NEW p \in Operators, Running(p), proc'[p].outcome = "done",
         Undisturbed(proc[p]), NEW s \in ScriptNames, s = proc[p].script
  PROVE  Desired(s)'
<1>1. s = proc[p].script
  OBVIOUS
<1>2. /\ proc[p] \in Process /\ proc[p].outcome = "none" /\ DOMAIN proc = Operators
      /\ proc[p].at \in Nat /\ ProgressOf(p) /\ KeepsOf(p) /\ DOMAIN value = Objects
  BY DEF Inv, Local, RunningOf, Procs, Process, Keeps, Cluster
<1>3. Idle.outcome = "none"
  BY DEF Idle
<1>4. (PatchObject(p) \/ (CheckGate(p) /\ Holds(Step(p).on, proc[p].snap)) \/ ReadObject(p))
      /\ proc[p].at = Len(Program(s))
  <2>1. proc'[p] # proc[p]
    BY <1>2
  <2>13. ASSUME NEW what \in Disturbances, proc'[p] = Meets(p, what) PROVE FALSE
    <3>1. PICK b \in SUBSET Disturbances : proc'[p] = [proc[p] EXCEPT !.met = b]
      BY <1>2, <2>13, Noticed
    <3> QED
      BY <1>2, <3>1 DEF Process
  <2>2. ASSUME NEW o, NEW new, OthersWrite(o, new) PROVE FALSE
    BY <2>2, <2>13 DEF OthersWrite, Disturbances
  <2>3. ASSUME NEW q \in Operators, q # p, PatchObject(q) PROVE FALSE
    <3>1. proc' = Disturbing(q, Onward(q))
      BY <1>2, <2>1, <2>3 DEF PatchObject
    <3>2. proc'[p] = Meets(p, "rival") \/ proc'[p] = proc[p]
      BY <2>3, <3>1 DEF Disturbing
    <3> QED
      BY <2>1, <2>13, <3>2 DEF Disturbances
  <2>4. ASSUME NEW q \in Operators, q # p,
               ReadObject(q) \/ CheckGate(q) \/ Interrupt(q) \/ \E x \in Scripts : Begin(q, x)
        PROVE  FALSE
    BY <1>2, <2>1, <2>4 DEF ReadObject, CheckGate, Interrupt, Begin
  <2>5. ~(\E x \in Scripts : Begin(p, x)) /\ ~Interrupt(p)
    BY <1>2, <1>3 DEF Begin, Interrupt, Stopped, Running, Idle
  <2>6. ~RollBack /\ ~WorkerRestarts /\ ~Regenerate
    BY <2>2 DEF RollBack, WorkerRestarts, Regenerate
  <2>7. ~RecordStaged /\ ~(\E b \in Backends : Fails(b) \/ ComesUp(b)) /\ ~(UNCHANGED vars)
    BY <2>1, <2>13 DEF RecordStaged, Fails, ComesUp, vars, Disturbances
  <2>8. PatchObject(p) \/ CheckGate(p) \/ ReadObject(p)
    BY <2>3, <2>4, <2>5, <2>6, <2>7 DEF Next
  <2>9. Onward(p).outcome = "done" => proc[p].at = Len(Program(s))
    BY <1>1, <1>2 DEF Onward, Process
  <2>10. CASE PatchObject(p)
    BY <1>2, <1>3, <2>9, <2>10 DEF PatchObject, Disturbing, Stopped
  <2>11. CASE CheckGate(p)
    BY <1>2, <1>3, <2>9, <2>11 DEF CheckGate, Stopped
  <2>12. CASE ReadObject(p)
    <3>1. Step(p).on \in Objects
      BY <2>12, StepTyped DEF ReadObject, Steps
    <3>2. proc'[p].outcome = Onward(p).outcome
      BY <1>2, <1>3, <2>12, <3>1 DEF ReadObject, Stopped, Onward, Process, Idle
    <3> QED
      BY <2>9, <2>12, <3>2
  <2> QED
    BY <2>8, <2>10, <2>11, <2>12
<1>5. Step(p) = FinalStep(s)
  BY <1>1, <1>4 DEF Step, FinalStep
<1>6. \A step \in Steps : Earlier(s, step) => Done(step, p) /\ Left(step, s, TRUE)
  BY <1>1, <1>2, <1>4 DEF Earlier, ProgressOf, KeepsOf, Left
<1>10. s \in MuseScripts =>
         value["muse"] = {"release"} /\ value["aigatewayroute"] \cap MuseSide = Promoted(s)
  <2>1. Patch("muse") \in Steps /\ Patch("aigatewayroute") \in Steps
    BY DEF Steps, Patch, Objects
  <2>2. s \in MuseScripts => Done(Patch("muse"), p) /\ Left(Patch("aigatewayroute"), s, TRUE)
    BY <1>6, <2>1, Ends
  <2> QED
    BY <2>2 DEF Done, Left, Undisturbed, Alone
<1>7. CASE s = "disable_qwen_epp"
  <2>1. Step(p) = Gate("no_pool_in_compiled_route")
    BY <1>5, <1>7, Ends
  <2>2. UNCHANGED value /\ Holds("no_pool_in_compiled_route", proc[p].snap)
    BY <1>4, <2>1 DEF Gate, PatchObject, CheckGate, ReadObject
  <2>3. "q-pool" \notin value["aigatewayroute"]
    BY <2>2 DEF Holds, Backends, Suites
  <2>4. Patch("canary") \in Steps
    BY DEF Steps, Patch, Objects
  <2>5. value["canary"] = {"stable"}
    BY <1>6, <1>7, <2>4, Ends DEF Left
  <2> QED
    BY <1>7, <2>2, <2>3, <2>5 DEF Desired
<1>8. CASE s # "disable_qwen_epp"
  <2>1. PICK o \in {"gateway", "stable38", "aigatewayroute", "httproute", "discovery", "candidate38",
                    "manifest"} : Step(p) = Patch(o)
    BY <1>5, <1>8, Ends DEF ScriptNames, MuseScripts
  <2>2. o \in Objects /\ o = Step(p).on /\ Patching(p) /\ PatchObject(p)
    BY <1>4, <2>1 DEF Objects, Patch, Patching, CheckGate, ReadObject
  <2>3. proc'[p] = Onward(p)
    BY <1>2, <1>3, <2>2 DEF PatchObject, Disturbing, Stopped
  <2>4. \/ UNCHANGED value /\ Written(p) = proc[p].snap[o].value /\ s \in Compares
        \/ Unchanged(s, o, proc[p].snap) /\ value' = [value EXCEPT ![o] = Stored(p)]
    BY <1>1, <2>2, <2>3, PatchOutcome
  <2>5. /\ s \in Writers(o) /\ SnapshotsOf(p)
        /\ o \notin Applied => proc[p].snap[o].version > 0
        /\ o \in {"discovery", "manifest"} => proc[p].snap["gateway"].version > 0
    BY <1>1, <2>2, Before
  <2>6. \A x \in Objects : Kept(x, proc[p].snap[x], s, TRUE)
    BY <1>1, <1>2, <2>2 DEF KeepsOf, PatchObject, Kept
  <2>7. o \in {"discovery", "manifest"} => value["gateway"] = {Serving(proc[p].snap)}
    <3> SUFFICES ASSUME o \in {"discovery", "manifest"}
                 PROVE  value["gateway"] = {Serving(proc[p].snap)}
      OBVIOUS
    <3>1. "gateway" \in Objects /\ s \in {"repair_qwen_discovery", "render_flint_gateway"}
      BY <2>5 DEF Writers, Objects
    <3>2. Typed("gateway", proc[p].snap["gateway"].value)
      BY <2>5, <3>1 DEF SnapshotsOf
    <3>3. PICK g \in {"recovery", "blue38", "green"} : proc[p].snap["gateway"].value = {g}
      BY <3>2 DEF Typed, Single, Values
    <3>4. Serving(proc[p].snap) = g
      BY <3>3 DEF Serving
    <3>5. proc[p].snap["gateway"].value = value["gateway"]
      BY <2>5, <2>6, <3>1 DEF Kept
    <3> QED
      BY <3>3, <3>4, <3>5
  <2>10. /\ s \in MuseScripts => o = "httproute"
         /\ s = "repair_qwen_discovery" => o = "discovery"
    <3>1. Step(p).on = o
      BY <2>2
    <3>2. s \in MuseScripts => FinalStep(s).on = "httproute"
      BY Ends DEF Patch
    <3>3. s = "repair_qwen_discovery" => FinalStep(s).on = "discovery"
      BY Ends DEF Patch
    <3> QED
      BY <1>5, <3>1, <3>2, <3>3
  <2>8. CASE UNCHANGED value /\ Written(p) = proc[p].snap[o].value /\ s \in Compares
    <3>1. CASE o = "httproute"
      <4>1. "m-native" \in value["httproute"] /\ s \in MuseScripts
        <5>1. Written(p) = (proc[p].snap[o].value \ {"m-native-old"}) \cup {"m-native"}
          BY <2>2, <3>1 DEF Written, Edit, Selected
        <5> QED
          BY <2>2, <2>5, <2>6, <2>8, <3>1, <5>1 DEF Kept, Writers, MuseScripts, Applied
      <4> QED
        BY <1>10, <2>8, <4>1 DEF Desired, MuseScripts, MuseSide, Promoted
    <3>2. CASE o = "discovery"
      <4>1. Serving(proc[p].snap) \in value["discovery"] /\ s = "repair_qwen_discovery"
        <5>1. Written(p) = proc[p].snap[o].value \cup {Serving(proc[p].snap)}
          BY <2>2, <3>2 DEF Written, Edit, Selected
        <5> QED
          BY <2>2, <2>5, <2>6, <2>8, <3>2, <5>1 DEF Kept, Writers, Applied
      <4> QED
        BY <2>7, <2>8, <3>2, <4>1 DEF Desired
    <3>3. CASE o \notin {"httproute", "discovery"}
      BY <1>8, <2>8, <2>10, <3>3 DEF Compares, MuseScripts
    <3> QED
      BY <3>1, <3>2, <3>3
  <2>9. CASE Unchanged(s, o, proc[p].snap) /\ value' = [value EXCEPT ![o] = Stored(p)]
    <3>1. value'[o] = Stored(p) /\ \A x \in Objects \ {o} : value'[x] = value[x]
      BY <1>2, <2>2, <2>9
    <3>9. /\ o = "gateway" => Stored(p) = {"blue38"} /\ s = "promote_aggregator"
          /\ o = "stable38" => Stored(p) = {"graph"} /\ s = "promote_operator"
          /\ o = "candidate38" => Stored(p) = {"new"} /\ s = "apply_candidate"
      <4>1. o \in {"gateway", "stable38", "candidate38"} => Stored(p) = Replaced(o, proc[p].snap[o].value)
        BY <2>2 DEF Stored, Written, Edit, Selected
      <4> QED
        BY <2>5, <4>1 DEF Replaced, Selected, Writers
    <3>2. CASE o = "gateway"
      BY <3>1, <3>2, <3>9 DEF Desired
    <3>3. CASE o = "stable38"
      BY <3>1, <3>3, <3>9 DEF Desired
    <3>4. CASE o = "candidate38"
      BY <3>1, <3>4, <3>9 DEF Desired
    <3>5. CASE o = "aigatewayroute"
      <4>1. s \in {"add_route", "add_flint_route"}
        BY <1>8, <2>5, <2>10, <3>5 DEF Writers, MuseScripts
      <4>2. Stored(p) = RouteEdit(s, value[o])
        BY <1>1, <2>2, <2>9, <3>5, Tested
      <4> QED
        BY <3>1, <3>5, <4>1, <4>2 DEF Desired, RouteEdit
    <3>6. CASE o = "httproute"
      <4>1. s \in MuseScripts /\ "m-native" \in value'["httproute"]
        BY <2>2, <2>5, <3>1, <3>6 DEF Writers, MuseScripts, Stored, Written, Edit, Selected
      <4>2. {"muse", "aigatewayroute"} \subseteq Objects \ {o}
        BY <3>6 DEF Objects
      <4> QED
        BY <1>10, <3>1, <3>6, <4>1, <4>2 DEF Desired, MuseScripts, MuseSide, Promoted
    <3>7. CASE o = "discovery"
      <4>1. s = "repair_qwen_discovery" /\ Serving(proc[p].snap) \in value'["discovery"]
        BY <2>2, <2>5, <3>1, <3>7 DEF Writers, Stored, Written, Edit, Selected
      <4>2. value'["gateway"] = value["gateway"]
        BY <3>1, <3>7 DEF Objects
      <4> QED
        BY <2>7, <3>7, <4>1, <4>2 DEF Desired
    <3>8. CASE o = "manifest"
      <4>1. s = "render_flint_gateway" /\ {Serving(proc[p].snap)} = value'["manifest"]
        BY <2>2, <2>5, <3>1, <3>8 DEF Writers, Stored, Written, Edit, Selected
      <4>2. value'["gateway"] = value["gateway"]
        BY <3>1, <3>8 DEF Objects
      <4> QED
        BY <2>7, <3>8, <4>1, <4>2 DEF Desired
    <3> QED
      BY <3>2, <3>3, <3>4, <3>5, <3>6, <3>7, <3>8
  <2> QED
    BY <2>4, <2>8, <2>9
<1> QED
  BY <1>7, <1>8

LEMMA InitKeeps ==
  ASSUME Init
  PROVE  Keeps
BY DEF Init, Keeps, KeepsOf, Running, Idle

(* A script that comes to its end has brought about what it promises, what   *)
(* it did at an earlier step and what an earlier run had left included,      *)
(* unless someone else wrote in between or a rival did: the other promotion  *)
(* of Muse, or a promotion of an aggregator under the repair of discovery or *)
(* the rendering of Flint's gateway.                                         *)
THEOREM Completion == Spec => DoneMeansDesired
<1>1. Init => Inv /\ Keeps
  BY InitInv, InitKeeps
<1>2. Inv /\ Keeps /\ [Next]_vars => (Inv /\ Keeps)'
  BY NextInv, NextKeeps
<1>3. Inv /\ Keeps /\ [Next]_vars =>
        [\A p \in Operators, s \in Scripts :
           Running(p) /\ proc[p].script = s /\ proc'[p].outcome = "done"
             /\ proc[p].met \cap {"write", "rival"} = {} => Desired(s)']_vars
  BY EndsWell, StartsAssumption DEF Undisturbed
<1> QED
  BY <1>1, <1>2, <1>3, PTL DEF Spec, DoneMeansDesired

=============================================================================
