-------------------------- MODULE BatchingExperiment --------------------------
(***************************************************************************)
(* The maintenance experiment (run_batching_experiment.py) and its         *)
(* continuation (resume_batching_confirmation.py): stop the production     *)
(* worker on spark-02, measure a test deployment on its GPU in a temporary *)
(* namespace under several settings of max_num_seqs, and restore.          *)
(*                                                                         *)
(* Three kinds of actors interleave: the script, whose every kubectl call  *)
(* and every wait can fail; the cluster, which creates and removes pods in *)
(* its own time (the GPU is time-sliced, so the scheduler does not keep    *)
(* two pods off it); and whoever signals, kills or reruns the script.      *)
(***************************************************************************)
EXTENDS Naturals, Sequences, SequencesExt

CONSTANTS Arms,        \* the settings of max_num_seqs, in the order swept
          ResumePlan,  \* the arms that the continuation confirms, in order
          Rows,        \* how many prompts the data set has
          MaxCount,    \* bound: prompts per measurement
          MaxAttempts  \* bound: how often somebody starts a script

ASSUME ArmsAssumption ==
  /\ Arms \in Seq(Nat \ {0}) /\ Arms # <<>>
  /\ ResumePlan \in Seq(ToSet(Arms))
  /\ Rows \in Nat /\ MaxCount \in Nat

VARIABLES
  \* the script
  pc,           \* the step it is at
  plan,         \* the measurements it still has to make, as tasks
  seqs,         \* self.seqs; 0 is None
  scaled,       \* self.scaled
  ns_created,   \* self.ns_created
  original,     \* replicas in self.original
  passed,       \* the arms whose sweep found a passing rate
  offset,       \* self.offset
  \* its files
  cursor,       \* cursor.json of the latest output directory; 0: none
  confirmed,    \* raw/confirm-s1-r1 there is valid and within the limit
  verified,     \* restoration.json of the latest output directory
  \* the cluster
  replicas,     \* replicas of the production worker in the DGD
  worker,       \* the production worker's pod
  ns,           \* the namespace
  deployment,   \* the test deployment: replicas and its --max-num-seqs
  pod,          \* the test pod: its state and its --max-num-seqs
  \* history
  rows,         \* the prompts of the latest measurement
  used,         \* the prompts of all earlier ones
  attempts

memory == <<plan, seqs, scaled, ns_created, original, passed, offset>>
files == <<cursor, confirmed, verified>>
cluster == <<replicas, worker, ns, deployment, pod>>
history == <<rows, used, attempts>>
vars == <<pc, memory, files, cluster, history>>

First == Arms[1]
Task(kind, arm) == [kind |-> kind, arm |-> arm]
Kind == Head(plan).kind
Arm == Head(plan).arm

\* configure(1), the pilot and the threshold baseline, then the sweeps.
FirstPlan == <<Task("pilot", First), Task("baseline", First)>>
               \o [i \in DOMAIN Arms |-> Task("sweep", Arms[i])]

\* Three repeats, the order of the two arms reversed in the second.
ConfirmPlan(candidate) ==
  IF candidate = First
  THEN [i \in 1..3 |-> Task("confirm", First)]
  ELSE [i \in 1..6 |-> Task("confirm", IF i \in {1, 4, 5} THEN First ELSE candidate)]

NoDeployment == [replicas |-> 0, seqs |-> 0]
NoPod == [state |-> "none", seqs |-> 0]

Running == {"stop", "stopping", "namespace", "next", "scaledown", "undeploying", "probe",
            "apply", "starting", "warm", "run", "block", "blocking"}
Restoring == {"restore", "draining", "rescale", "restarting", "verify"}
Ended == {"idle", "restored", "unrestored", "killed"}

Init ==
  /\ pc = "idle" /\ plan = <<>> /\ seqs = 0
  /\ scaled = FALSE /\ ns_created = FALSE /\ original = 1
  /\ passed = {} /\ offset = 0
  /\ cursor = 0 /\ confirmed = FALSE /\ verified = FALSE
  /\ replicas = 1 /\ worker = "ready" /\ ns = "none"
  /\ deployment = NoDeployment /\ pod = NoPod
  /\ rows = {} /\ used = {} /\ attempts = 0

-----------------------------------------------------------------------------
(* Steps of the script.  Goto is the normal outcome; Raise is an exception *)
(* inside the try block, which leads to restore.                           *)

Goto(p) == pc' = p
Raise == pc' = "restore"

\* A new Experiment in a new output directory.  `k get namespace' that fails
\* for any reason is taken for "does not exist".
Start ==
  /\ pc \in Ended /\ attempts < MaxAttempts
  /\ Goto("stop")
  /\ attempts' = attempts + 1
  /\ plan' = FirstPlan /\ seqs' = 0 /\ scaled' = FALSE /\ ns_created' = FALSE
  /\ original' = replicas
  /\ passed' = {} /\ offset' = 0
  /\ cursor' = 0 /\ confirmed' = FALSE /\ verified' = FALSE
  /\ rows' = {} /\ used' = {}
  /\ UNCHANGED cluster

\* The continuation: only from a verified restoration with a confirmation of
\* the first arm, with the DGD as it was and without the namespace; it takes
\* up the cursor of its source, the latest directory.
Resume ==
  /\ pc \in Ended /\ attempts < MaxAttempts
  /\ verified /\ confirmed /\ cursor > 0 /\ replicas = original /\ ns = "none"
  /\ Goto("stop")
  /\ attempts' = attempts + 1
  /\ plan' = [i \in DOMAIN ResumePlan |-> Task("confirm", ResumePlan[i])]
  /\ seqs' = 0 /\ scaled' = FALSE /\ ns_created' = FALSE
  /\ passed' = {} /\ offset' = cursor
  /\ cursor' = 0 /\ verified' = FALSE
  /\ UNCHANGED <<original, confirmed, cluster, rows, used>>

\* self.scaled is set before the patch, which may take effect and yet fail.
StopWorker ==
  /\ pc = "stop"
  /\ scaled' = TRUE
  /\ \/ replicas' = 0 /\ Goto("stopping")
     \/ replicas' \in {0, replicas} /\ Raise
  /\ UNCHANGED <<plan, seqs, ns_created, original, passed, offset, files, worker, ns,
                 deployment, pod, history>>

WorkerStopped ==
  /\ pc = "stopping"
  /\ (worker = "none" /\ Goto("namespace")) \/ Raise
  /\ UNCHANGED <<memory, files, cluster, history>>

CreateNamespace_NoFlag ==
  /\ pc = "namespace"
  /\ \/ ns = "none" /\ ns' = "active" /\ Goto("next")
     \/ ns' \in {ns, IF ns = "none" THEN "active" ELSE ns} /\ Raise
  /\ UNCHANGED <<memory, files, replicas, worker, deployment, pod, history>>

\* A create that takes effect and fails leaves ns_created FALSE.
CreateNamespace ==
  /\ pc = "namespace"
  /\ \/ ns = "none" /\ ns' = "active" /\ ns_created' = TRUE /\ Goto("next")
     \/ ns' \in {ns, IF ns = "none" THEN "active" ELSE ns} /\ Raise /\ UNCHANGED ns_created
  /\ UNCHANGED <<plan, seqs, scaled, original, passed, offset, files, replicas, worker,
                 deployment, pod, history>>

\* The next task: configure its arm, unless it is configured already.
NextTask ==
  /\ pc = "next" /\ plan # <<>>
  /\ Goto(IF seqs = Arm THEN "run" ELSE IF seqs = 0 THEN "probe" ELSE "scaledown")
  /\ UNCHANGED <<memory, files, cluster, history>>

\* All measured: the conclusion is written and the finally block entered.
Conclude ==
  /\ pc = "next" /\ plan = <<>>
  /\ Raise
  /\ UNCHANGED <<memory, files, cluster, history>>

\* k scale --replicas=0 in configure, or after a blocked configuration.
ScaleDown ==
  /\ pc \in {"scaledown", "block"}
  /\ \/ /\ deployment' = [deployment EXCEPT !.replicas = 0]
        /\ Goto(IF pc = "scaledown" THEN "undeploying" ELSE "blocking")
     \/ deployment' \in {deployment, [deployment EXCEPT !.replicas = 0]} /\ Raise
  /\ UNCHANGED <<memory, files, replicas, worker, ns, pod, history>>

Undeployed_Forever ==
  /\ pc = "undeploying"
  /\ pod = NoPod /\ Goto("probe")
  /\ UNCHANGED <<memory, files, cluster, history>>

Undeployed ==
  /\ pc = "undeploying"
  /\ (pod = NoPod /\ Goto("probe")) \/ Raise
  /\ UNCHANGED <<memory, files, cluster, history>>

\* ConfigurationBlocked is caught in the sweep of any arm but the first.
Blocked == Goto(IF Kind = "sweep" /\ Arm # First THEN "block" ELSE "restore")

\* No GPU pod may be on the node, and the host needs memory; or else blocked.
Probe ==
  /\ pc = "probe"
  /\ (worker = "none" /\ pod = NoPod /\ Goto("apply")) \/ Blocked \/ Raise
  /\ UNCHANGED <<memory, files, cluster, history>>

Apply ==
  /\ pc = "apply"
  /\ \/ deployment' = [replicas |-> 1, seqs |-> Arm] /\ seqs' = Arm /\ Goto("starting")
     \/ deployment' \in {deployment, [replicas |-> 1, seqs |-> Arm]} /\ Raise /\ UNCHANGED seqs
  /\ UNCHANGED <<plan, scaled, ns_created, original, passed, offset, files, replicas,
                 worker, ns, pod, history>>

\* Ready, restarted, or not ready in 1800 seconds.
Ready ==
  /\ pc = "starting"
  /\ (pod.state = "ready" /\ Goto("warm")) \/ (pod.state = "restarted" /\ Blocked) \/ Raise
  /\ UNCHANGED <<memory, files, cluster, history>>

\* After the last sweep a candidate is chosen among the passing arms; if the
\* first arm never passed there is nothing to compare with.
AfterTask(nowPassed) ==
  IF Len(plan) > 1 \/ Kind = "confirm"
  THEN plan' = Tail(plan) /\ Goto("next")
  ELSE IF First \notin nowPassed
  THEN Raise /\ UNCHANGED plan
  ELSE \E candidate \in nowPassed :
         /\ candidate = First => nowPassed = {First}
         /\ plan' = ConfirmPlan(candidate) /\ Goto("next")

BlockedCleanup_KeepsSeqs ==
  /\ pc = "blocking"
  /\ \/ pod = NoPod /\ AfterTask(passed)
     \/ Raise /\ UNCHANGED plan
  /\ UNCHANGED <<seqs, scaled, ns_created, original, passed, offset, files, cluster, history>>

\* blocked-<seqs>.json has been written: the arm is given up.
BlockedCleanup ==
  /\ pc = "blocking"
  /\ \/ pod = NoPod /\ seqs' = 0 /\ AfterTask(passed)
     \/ Raise /\ UNCHANGED <<seqs, plan>>
  /\ UNCHANGED <<scaled, ns_created, original, passed, offset, files, cluster, history>>

Measure_LateCursor(count) ==
  /\ offset + count <= Rows
  /\ used' = used \union rows
  /\ rows' = (offset + 1)..(offset + count)
  /\ offset' = offset + count
  /\ cursor' = offset

\* run(): takes the next rows, saves the cursor, then measures.
Measure(count) ==
  /\ offset + count <= Rows
  /\ used' = used \union rows
  /\ rows' = (offset + 1)..(offset + count)
  /\ offset' = offset + count
  /\ cursor' = offset + count

\* An invalid warm-up ends the experiment.
WarmUp ==
  /\ pc = "warm"
  /\ \/ \E count \in 1..MaxCount : Measure(count) /\ (Goto("run") \/ Raise)
     \/ Raise /\ UNCHANGED <<rows, used, offset, cursor>>
  /\ UNCHANGED <<plan, seqs, scaled, ns_created, original, passed, confirmed, verified, cluster, attempts>>

\* One measurement of the task: a sweep goes on until it has failed or found
\* its rate, an invalid pilot or baseline ends the experiment, a confirmation
\* counts whatever it shows.
Run ==
  /\ pc = "run"
  /\ \/ /\ \E count \in 1..MaxCount : Measure(count)
        /\ \/ Kind = "sweep" /\ Goto("run") /\ UNCHANGED <<plan, passed>>
           \/ \E found \in IF Kind = "sweep" THEN {{}, {Arm}} ELSE {{}} :
                passed' = passed \union found /\ AfterTask(passed')
           \/ Kind \in {"pilot", "baseline"} /\ Raise /\ UNCHANGED <<plan, passed>>
        /\ confirmed' \in {confirmed, confirmed \/ (Kind = "confirm" /\ Arm = First)}
     \/ Raise /\ UNCHANGED <<plan, passed, confirmed, rows, used, offset, cursor>>
  /\ UNCHANGED <<seqs, scaled, ns_created, original, verified, cluster, attempts>>

-----------------------------------------------------------------------------
(* restore.  An exception in it ends the script.                           *)

GiveUp == pc' = "unrestored"

DeleteNamespace ==
  /\ pc = "restore"
  /\ IF ns_created
     THEN \/ ns' = "terminating" /\ Goto("draining")
          \/ ns' \in {ns, "terminating"} /\ GiveUp
     ELSE Goto("rescale") /\ UNCHANGED ns
  /\ UNCHANGED <<memory, files, replicas, worker, deployment, pod, history>>

Drained_NoWait ==
  /\ pc = "draining"
  /\ Goto("rescale")
  /\ UNCHANGED <<memory, files, cluster, history>>

\* All pods of the namespace are gone, or 240 seconds are over.
Drained ==
  /\ pc = "draining"
  /\ (pod = NoPod /\ Goto("rescale")) \/ GiveUp
  /\ UNCHANGED <<memory, files, cluster, history>>

Rescale ==
  /\ pc = "rescale"
  /\ IF scaled
     THEN \/ replicas' = original /\ Goto("restarting")
          \/ replicas' \in {replicas, original} /\ GiveUp
     ELSE Goto("verify") /\ UNCHANGED replicas
  /\ UNCHANGED <<memory, files, worker, ns, deployment, pod, history>>

Restarted ==
  /\ pc = "restarting"
  /\ (worker = "ready" /\ Goto("verify")) \/ GiveUp
  /\ UNCHANGED <<memory, files, cluster, history>>

\* The DGD is compared with the original, the model generates.
Verify ==
  /\ pc = "verify"
  /\ \/ replicas = original /\ worker = "ready" /\ verified' = TRUE /\ Goto("restored")
     \/ GiveUp /\ UNCHANGED verified
  /\ UNCHANGED <<memory, cursor, confirmed, cluster, history>>

\* SIGTERM raises KeyboardInterrupt wherever the script is.
Sigterm ==
  /\ \/ pc \in Running /\ Raise
     \/ pc \in Restoring /\ GiveUp
  /\ UNCHANGED <<memory, files, cluster, history>>

\* SIGKILL, or the controller machine goes down.
Kill ==
  /\ pc \in Running \union Restoring
  /\ pc' = "killed"
  /\ UNCHANGED <<memory, files, cluster, history>>

ScriptStep ==
  \/ StopWorker \/ WorkerStopped \/ CreateNamespace \/ NextTask \/ Conclude
  \/ ScaleDown \/ Undeployed \/ Probe \/ Apply \/ Ready \/ BlockedCleanup
  \/ WarmUp \/ Run
  \/ DeleteNamespace \/ Drained \/ Rescale \/ Restarted \/ Verify

-----------------------------------------------------------------------------
(* The cluster.                                                            *)

WorkerPod ==
  /\ \/ replicas > 0 /\ worker = "none" /\ worker' = "starting"
     \/ replicas > 0 /\ worker = "starting" /\ worker' = "ready"
     \/ replicas = 0 /\ worker # "none" /\ worker' = "none"
  /\ UNCHANGED <<pc, memory, files, replicas, ns, deployment, pod, history>>

\* A terminating namespace takes no new pod.
TestPod ==
  LET wanted == deployment.replicas = 1 /\ ns = "active"
  IN /\ \/ wanted /\ pod = NoPod /\ pod' = [state |-> "starting", seqs |-> deployment.seqs]
        \/ pod.state = "starting" /\ pod' = [pod EXCEPT !.state = "ready"]
        \/ pod.state \in {"starting", "ready"} /\ pod' = [pod EXCEPT !.state = "restarted"]
        \/ ~wanted /\ pod # NoPod /\ pod' = NoPod
     /\ UNCHANGED <<pc, memory, files, replicas, worker, ns, deployment, history>>

NamespaceGone ==
  /\ ns = "terminating" /\ pod = NoPod
  /\ ns' = "none" /\ deployment' = NoDeployment
  /\ UNCHANGED <<pc, memory, files, replicas, worker, pod, history>>

ClusterStep == WorkerPod \/ TestPod \/ NamespaceGone

Next == Start \/ Resume \/ ScriptStep \/ Sigterm \/ Kill \/ ClusterStep
Spec == Init /\ [][Next]_vars

\* Nobody signals or kills the script.
UninterruptedSpec == Init /\ [][Start \/ Resume \/ ScriptStep \/ ClusterStep]_vars

\* The script runs on; every wait of it has a deadline.
FairSpec == Spec /\ WF_vars(ScriptStep)

-----------------------------------------------------------------------------
(* Properties.                                                             *)

Tasks == [kind : {"pilot", "baseline", "sweep", "confirm"}, arm : ToSet(Arms)]

TypeOK ==
  /\ pc \in Running \union Restoring \union Ended
  /\ plan \in Seq(Tasks)
  /\ seqs \in {0} \union ToSet(Arms)
  /\ scaled \in BOOLEAN /\ ns_created \in BOOLEAN
  /\ confirmed \in BOOLEAN /\ verified \in BOOLEAN
  /\ original \in {0, 1} /\ replicas \in {0, 1}
  /\ passed \subseteq ToSet(Arms) /\ offset \in 0..Rows /\ cursor \in 0..Rows
  /\ worker \in {"none", "starting", "ready"} /\ ns \in {"none", "active", "terminating"}
  /\ deployment \in [replicas : {0, 1}, seqs : {0} \union ToSet(Arms)]
  /\ pod \in [state : {"none", "starting", "ready", "restarted"}, seqs : {0} \union ToSet(Arms)]
  /\ rows \subseteq 1..Rows /\ used \subseteq 1..Rows

\* The production worker and the test pod are never on the GPU together,
\* neither on the way in nor on the way back, whatever fails and whoever
\* interrupts or reruns the script; and the state keeps its type.
GpuExclusive == TypeOK /\ (worker = "none" \/ pod = NoPod)

\* What is measured is the arm the result is filed under: between runs the
\* ready pod has the max_num_seqs of the task.
MeasuresItsArm ==
  pc = "run" => (seqs = Arm /\ deployment = [replicas |-> 1, seqs |-> Arm] /\ pod.seqs = Arm)

\* "refusing prompt reuse": no prompt is offered twice, not even by the
\* continuation of an experiment that was cut off.
PromptsFresh == rows \intersect used = {}

\* A restoration that is recorded as verified left no test pod behind, no
\* deployment that could still start one, and the worker that was found
\* serving serves.  (The namespace itself may be left, when its creation took
\* effect and the call failed.)
VerifiedRestores ==
  pc = "restored" =>
    /\ pod = NoPod /\ ~ (ns = "active" /\ deployment.replicas = 1)
    /\ original > 0 => worker = "ready"

\* The script always ends: no wait is for ever.
Ends == (attempts > 0) ~> (pc \in Ended)

\* "Run the authorized maintenance experiment and restore the original Qwen
\* worker": trouble with the test namespace does not keep the production worker
\* down.  Where nobody interrupts the script, it does not end between the
\* deletion of the namespace and the worker's own patch while the worker's
\* replicas are not the original ones.
\* It does: a deletion that fails, or pods that are there after 240 seconds,
\* end restore before that patch.
WorkerRestored ==
  [][ns_created /\ pc \in {"restore", "draining"} /\ pc' = "unrestored"
       => replicas' = original']_vars
=============================================================================
